----------------------- MODULE MerchantPayments_proofs ----------------------
(***************************************************************************)
(* Proofs about MerchantPayments: it is PaymentIntents with a facilitator  *)
(* and a simulator that create intents and post callbacks as anyone may,   *)
(* so what is proved of PaymentIntents carries over; its own types; that a *)
(* settled payment is lost only to a callback that failed; and that        *)
(* credits and simulated successes have transfers and credits behind them. *)
(***************************************************************************)
EXTENDS MerchantPayments, PaymentIntents_proofs

(***************************************************************************)
(* Constants of a simulated payment are what they are declared to be.      *)
(***************************************************************************)
LEMMA SimulatedConstants ==
  \A c \in Simulated : c \in Callbacks /\ c \notin SettleCallbacks /\ IntentOf[c] \in Intents
BY MerchantAssumption, IntentAssumption

(***************************************************************************)
(* A step of the composition is a step of the intents or leaves them       *)
(* alone: the facilitator and the simulator write nothing of theirs but    *)
(* through the routes.                                                     *)
(***************************************************************************)
LEMMA MerchantStepIsIntentStep ==
  [MerchantNext]_merchantVars => [Next]_vars
<1> SUFFICES ASSUME [MerchantNext]_merchantVars PROVE [Next]_vars
    OBVIOUS
<1>1. ASSUME NEW i \in Intents, CreatePaymentIntent(i) PROVE Next
      BY <1>1 DEF Next
<1>2. ASSUME NEW c \in Callbacks, Handle(c) PROVE Next
      BY <1>2 DEF Next
<1>3. ASSUME ServerCrash PROVE [Next]_vars
      BY <1>3 DEF ServerCrash, Next
<1>4. ASSUME NEW c \in Simulated, Simulate(c) PROVE [Next]_vars
      BY <1>4, SimulatedConstants
         DEF Simulate, SimulateIntent, SimulateCallback, SimulationAnswered, Next
<1> QED BY <1>1, <1>2, <1>3, <1>4 DEF MerchantNext, merchantVars

(***************************************************************************)
(* The composition implements PaymentIntents.                              *)
(***************************************************************************)
THEOREM MerchantImplementsIntents == MerchantSpec => Spec
<1>1. MerchantInit => Init
      BY DEF MerchantInit
<1> QED BY <1>1, MerchantStepIsIntentStep, PTL DEF MerchantSpec, Spec

(***************************************************************************)
(* Hence an ok answer has a credit behind it and a confirmation is final   *)
(* also when callbacks come from settlements.                              *)
(***************************************************************************)
THEOREM MerchantOkIsCredited == MerchantSpec => []OkMeansCredited
BY MerchantImplementsIntents, OkAnswersAreCredited, PTL

\* Behind a facilitator too, a confirmed intent stays confirmed with the transaction it
\* was confirmed with.
THEOREM MerchantConfirmationIsFinal == MerchantSpec => ConfirmationIsFinal
BY MerchantImplementsIntents, ConfirmedStaysConfirmed, PTL

(***************************************************************************)
(* The books carry over: the rows of a company that its callbacks reached  *)
(* one after the other, whether settlements or the simulator posted them,  *)
(* hold together exactly what its confirmed intents are worth.             *)
(***************************************************************************)
THEOREM MerchantSerialRowsAreExact == MerchantSpec => []SerialCreditsExact
BY MerchantImplementsIntents, SerialRowsAreExact, PTL

(***************************************************************************)
(* And a row never holds more than the credits written to it, whatever     *)
(* races, fails or is settled twice.                                       *)
(***************************************************************************)
THEOREM MerchantCreditsAreNeverInvented == MerchantSpec => []NeverOvercredited
BY MerchantImplementsIntents, CreditsAreNeverInvented, PTL

-----------------------------------------------------------------------------
(***************************************************************************)
(* Constants of a settlement are what they are declared to be.             *)
(***************************************************************************)
LEMMA SettleConstants ==
  \A s \in Settles :
     /\ CallbackOf[s] \in Callbacks /\ CallbackOf[s] \in SettleCallbacks
     /\ IntentOf[CallbackOf[s]] \in Intents
     /\ AuthorizationOf[s] \in Authorizations
BY MerchantAssumption, IntentAssumption DEF SettleCallbacks

\* What the facilitator's and the simulator's own variables are typed with.
SettleTypeOK ==
  /\ settleAt \in [Settles -> InSettle \cup {"idle", "done", "crashed"}]
  /\ settleAnswer \in [Settles -> {"none", "refused", "failed", "success"}]
  /\ spent \subseteq Authorizations
  /\ transfers \subseteq Settles
  /\ posted \subseteq SettleCallbacks \cup Simulated
  /\ undelivered \subseteq Settles
  /\ simulation \in [Simulated -> {"ready", "created", "posted", "success", "error"}]

(***************************************************************************)
(* Every step of a settlement keeps the facilitator's variables typed.     *)
(***************************************************************************)
LEMMA SettleTypeStep ==
  ASSUME SettleTypeOK, NEW s \in Settles, Settle(s), UNCHANGED simulation
  PROVE  SettleTypeOK'
<1> USE SettleConstants DEF SettleTypeOK, SettleMoves, SettleEnds, InSettle
<1>1. CASE StartSettle(s)
      BY <1>1 DEF StartSettle
<1>2. CASE SendTransfer(s)
      BY <1>2 DEF SendTransfer
<1>3. CASE SettleReceipt(s)
      BY <1>3 DEF SettleReceipt
<1>4. CASE PostCallback(s)
      BY <1>4 DEF PostCallback
<1>5. CASE CallbackAnswered(s)
      BY <1>5 DEF CallbackAnswered
<1> QED BY <1>1, <1>2, <1>3, <1>4, <1>5 DEF Settle

(***************************************************************************)
(* And so does every step of the simulator.                                *)
(***************************************************************************)
LEMMA SimulationTypeStep ==
  ASSUME SettleTypeOK, NEW c \in Simulated, Simulate(c)
  PROVE  SettleTypeOK'
<1> USE DEF SettleTypeOK, Simulates, settleVars
<1>1. CASE SimulateIntent(c)
      BY <1>1 DEF SimulateIntent
<1>2. CASE SimulateCallback(c)
      BY <1>2 DEF SimulateCallback
<1>3. CASE SimulationAnswered(c)
      BY <1>3 DEF SimulationAnswered
<1> QED BY <1>1, <1>2, <1>3 DEF Simulate

(***************************************************************************)
(* Every step of the composition keeps every variable typed.               *)
(***************************************************************************)
LEMMA MerchantTypeStep ==
  MerchantTypeOK /\ [MerchantNext]_merchantVars => MerchantTypeOK'
<1> SUFFICES ASSUME MerchantTypeOK, [MerchantNext]_merchantVars
             PROVE  TypeOK' /\ SettleTypeOK'
    BY DEF MerchantTypeOK, SettleTypeOK
<1>1. TypeOK'
      BY TypeStep, MerchantStepIsIntentStep DEF MerchantTypeOK
<1>2. SettleTypeOK
      BY DEF MerchantTypeOK, SettleTypeOK
<1>3. ASSUME NEW s \in Settles, Settle(s), UNCHANGED simulation PROVE SettleTypeOK'
      BY <1>2, <1>3, SettleTypeStep
<1>4. CASE UNCHANGED <<settleVars, simulation>>
      BY <1>1, <1>2, <1>4 DEF settleVars, SettleTypeOK
<1>5. CASE ServerCrash
      BY <1>1, <1>2, <1>5 DEF ServerCrash, SettleTypeOK
<1>6. ASSUME NEW c \in Simulated, Simulate(c) PROVE SettleTypeOK'
      BY <1>2, <1>6, SimulationTypeStep
<1> QED BY <1>1, <1>3, <1>4, <1>5, <1>6 DEF MerchantNext, merchantVars

(***************************************************************************)
(* Every reachable state of the composition is typed, for any settlements, *)
(* intents and callbacks.                                                  *)
(***************************************************************************)
THEOREM MerchantTypeCorrect == MerchantSpec => []MerchantTypeOK
<1>1. MerchantInit => MerchantTypeOK
      BY TypeInit DEF MerchantInit, MerchantTypeOK
<1> QED BY <1>1, MerchantTypeStep, PTL DEF MerchantSpec

-----------------------------------------------------------------------------
(***************************************************************************)
(* A callback that is over was answered, and ok only if its intent is      *)
(* confirmed.  A settlement that awaits its callback, or is answered       *)
(* success with an id, has posted it or has failed to.                     *)
(***************************************************************************)
DoneIsAnswered ==
  \A c \in Callbacks : at[c] = "done" => answer[c] \in {"ok", "notFound", "error"}

AwaitedIsPosted ==
  \A s \in Settles :
     \/ settleAt[s] = "callbackAnswer"
     \/ settleAnswer[s] = "success" /\ BodyOf[s].idAt = "metadata"
     => CallbackOf[s] \in posted \/ s \in undelivered

AwaitingHasPosted ==
  \A s \in Settles : settleAt[s] = "callbackAnswer" => CallbackOf[s] \in posted

SettleInv ==
  MerchantTypeOK /\ CreditInv /\ DoneIsAnswered /\ AwaitedIsPosted /\ AwaitingHasPosted

(***************************************************************************)
(* A callback's handler ends with an answer, in every step.                *)
(***************************************************************************)
LEMMA DoneIsAnsweredStep ==
  ASSUME TypeOK, DoneIsAnswered, [Next]_vars
  PROVE  DoneIsAnswered'
<1> USE DEF DoneIsAnswered
<1>1. ASSUME NEW i \in Intents, CreatePaymentIntent(i) PROVE DoneIsAnswered'
      BY <1>1 DEF CreatePaymentIntent
<1>2. ASSUME NEW c \in Callbacks, Handle(c) PROVE DoneIsAnswered'
  <2>1. \/ /\ answer' = answer
           /\ \E to \in {"confirm", "readBalance", "writeBalance"} : at' = [at EXCEPT ![c] = to]
        \/ \E reply \in {"ok", "notFound", "error"} :
              answer' = [answer EXCEPT ![c] = reply] /\ at' = [at EXCEPT ![c] = "done"]
        BY <1>2 DEF Handle, FindPayment, EntersHandler, ConfirmPayment, ReadBalance, WriteBalance,
                    CreditFails, Moves, Ends
  <2> QED BY <2>1 DEF TypeOK
<1>3. ASSUME Crash PROVE DoneIsAnswered'
      BY <1>3 DEF Crash, TypeOK
<1>4. CASE UNCHANGED vars
      BY <1>4 DEF vars
<1> QED BY <1>1, <1>2, <1>3, <1>4 DEF Next

(***************************************************************************)
(* A settlement is answered success only after it posted its callback or   *)
(* failed to, when the payment carries the id.                             *)
(***************************************************************************)
LEMMA AwaitedIsPostedStep ==
  ASSUME SettleTypeOK, AwaitedIsPosted, AwaitingHasPosted,
         [MerchantNext]_merchantVars
  PROVE  AwaitedIsPosted' /\ AwaitingHasPosted'
<1> USE SettleConstants
        DEF AwaitedIsPosted, AwaitingHasPosted, SettleTypeOK, SettleMoves, SettleEnds
<1>1. ASSUME NEW s \in Settles, StartSettle(s) PROVE AwaitedIsPosted' /\ AwaitingHasPosted'
      BY <1>1 DEF StartSettle
<1>2. ASSUME NEW s \in Settles, SendTransfer(s) PROVE AwaitedIsPosted' /\ AwaitingHasPosted'
      BY <1>2 DEF SendTransfer
<1>3. ASSUME NEW s \in Settles, SettleReceipt(s) PROVE AwaitedIsPosted' /\ AwaitingHasPosted'
      BY <1>3 DEF SettleReceipt
<1>4. ASSUME NEW s \in Settles, PostCallback(s) PROVE AwaitedIsPosted' /\ AwaitingHasPosted'
      BY <1>4 DEF PostCallback
<1>5. ASSUME NEW s \in Settles, CallbackAnswered(s) PROVE AwaitedIsPosted' /\ AwaitingHasPosted'
      BY <1>5 DEF CallbackAnswered
<1>6. CASE ServerCrash
      BY <1>6 DEF ServerCrash
<1>7. CASE UNCHANGED settleVars
      BY <1>7 DEF settleVars
<1>8. ASSUME NEW c \in Simulated, Simulate(c) PROVE AwaitedIsPosted' /\ AwaitingHasPosted'
      BY <1>8 DEF Simulate, SimulateIntent, SimulateCallback, SimulationAnswered, settleVars
<1> QED BY <1>1, <1>2, <1>3, <1>4, <1>5, <1>6, <1>7, <1>8 DEF MerchantNext, merchantVars, Settle

(***************************************************************************)
(* In every state of the invariant a settlement answered success that      *)
(* carried an id is confirmed, or its callback failed or is not over.      *)
(***************************************************************************)
LEMMA SettleInvSuffices == SettleInv => SettledIsConfirmed
<1> SUFFICES ASSUME SettleInv, NEW s \in Settles,
                    settleAnswer[s] = "success", BodyOf[s].idAt = "metadata",
                    s \notin undelivered,
                    intentStatus[IntentOf[CallbackOf[s]]] # "CONFIRMED_ONCHAIN"
             PROVE  \/ answer[CallbackOf[s]] \in {"notFound", "error"}
                    \/ /\ CallbackOf[s] \in posted
                       /\ at[CallbackOf[s]] \in {"idle", "confirm", "crashed"}
    BY DEF SettledIsConfirmed
<1> DEFINE c == CallbackOf[s]
<1>1. c \in Callbacks /\ c \in posted
      BY SettleConstants DEF SettleInv, AwaitedIsPosted
<1>2. at[c] \notin {"readBalance", "writeBalance"} /\ answer[c] # "ok"
      BY <1>1 DEF SettleInv, CreditInv, WorkIsOnConfirmed
<1>3. at[c] \in {"idle", "confirm", "readBalance", "writeBalance", "done", "crashed"}
      BY <1>1 DEF SettleInv, CreditInv, TypeOK, InHandler
<1>4. at[c] = "done" => answer[c] \in {"notFound", "error"}
      BY <1>1, <1>2 DEF SettleInv, DoneIsAnswered
<1> QED BY <1>1, <1>2, <1>3, <1>4

(***************************************************************************)
(* A payment the facilitator answered success for, with the intent's id,   *)
(* is confirmed unless its callback did not get through, failed, or is not *)
(* over: for any settlements, losses and crashes.                          *)
(***************************************************************************)
THEOREM SettlementsAreConfirmed == MerchantSpec => []SettledIsConfirmed
<1>1. MerchantInit => SettleInv
  <2>1. MerchantInit => MerchantTypeOK /\ CreditInv
        BY TypeInit DEF MerchantInit, MerchantTypeOK, Init, CreditInv, WorkIsOnConfirmed,
                        ConfirmedIsCredited
  <2>2. MerchantInit => DoneIsAnswered /\ AwaitedIsPosted /\ AwaitingHasPosted
        BY DEF MerchantInit, Init, DoneIsAnswered, AwaitedIsPosted, AwaitingHasPosted
  <2> QED BY <2>1, <2>2 DEF SettleInv
<1>2. SettleInv /\ [MerchantNext]_merchantVars => SettleInv'
  <2> SUFFICES ASSUME SettleInv, [MerchantNext]_merchantVars PROVE SettleInv'
      OBVIOUS
  <2>1. [Next]_vars
        BY MerchantStepIsIntentStep
  <2>2. MerchantTypeOK'
        BY MerchantTypeStep DEF SettleInv
  <2>3. CreditInv'
        BY <2>1, CreditStep DEF SettleInv
  <2>4. DoneIsAnswered'
        BY <2>1, DoneIsAnsweredStep DEF SettleInv, CreditInv
  <2>5. AwaitedIsPosted' /\ AwaitingHasPosted'
        BY AwaitedIsPostedStep DEF SettleInv, MerchantTypeOK, SettleTypeOK
  <2> QED BY <2>2, <2>3, <2>4, <2>5 DEF SettleInv
<1> QED BY <1>1, <1>2, SettleInvSuffices, PTL DEF MerchantSpec

-----------------------------------------------------------------------------
(***************************************************************************)
(* A callback of a settlement runs only once it was posted, and is posted  *)
(* only by a settlement whose transfer was mined.                          *)
(***************************************************************************)
PostedByTransfers ==
  \A s \in Settles :
     \/ settleAt[s] \in {"receipt", "callback", "callbackAnswer"}
     \/ CallbackOf[s] \in posted
     => s \in transfers

HandledWerePosted == \A c \in SettleCallbacks : at[c] # "idle" => c \in posted

TransferInv ==
  MerchantTypeOK /\ CoverInv /\ IsFiniteSet(transfers) /\ PostedByTransfers /\ HandledWerePosted

(***************************************************************************)
(* A settlement's steps: it goes on to its receipt only with its transfer  *)
(* mined, and posts its own callback and no other.                         *)
(***************************************************************************)
LEMMA SettleKeepsTransfers ==
  ASSUME MerchantTypeOK, IsFiniteSet(transfers), PostedByTransfers, HandledWerePosted,
         NEW s \in Settles, Settle(s), UNCHANGED vars
  PROVE  IsFiniteSet(transfers)' /\ PostedByTransfers' /\ HandledWerePosted'
<1> USE DEF MerchantTypeOK
<1>1. HandledWerePosted'
  <2>1. posted \subseteq posted' /\ UNCHANGED at
        BY DEF Settle, StartSettle, SendTransfer, SettleReceipt, PostCallback, CallbackAnswered, vars
  <2> QED BY <2>1 DEF HandledWerePosted
<1>2. \/ /\ transfers' = transfers \cup {s} /\ settleAt' = [settleAt EXCEPT ![s] = "receipt"]
         /\ UNCHANGED posted
      \/ /\ settleAt' \in {[settleAt EXCEPT ![s] = "send"], [settleAt EXCEPT ![s] = "done"]}
         /\ UNCHANGED <<transfers, posted>>
      \/ /\ settleAt[s] = "receipt" /\ settleAt' = [settleAt EXCEPT ![s] = "callback"]
         /\ UNCHANGED <<transfers, posted>>
      \/ /\ settleAt[s] = "callback" /\ settleAt' = [settleAt EXCEPT ![s] = "callbackAnswer"]
         /\ posted' = posted \cup {CallbackOf[s]} /\ UNCHANGED transfers
      BY DEF Settle, StartSettle, SendTransfer, SettleReceipt, PostCallback, CallbackAnswered,
             SettleMoves, SettleEnds
<1>3. IsFiniteSet(transfers)'
      BY <1>2, FS_AddElement
<1>4. \A t \in Settles : CallbackOf[t] = CallbackOf[s] => t = s
      BY MerchantAssumption
<1>5. PostedByTransfers'
      BY <1>2, <1>4 DEF PostedByTransfers
<1> QED BY <1>1, <1>3, <1>5

(***************************************************************************)
(* Every step of the composition keeps the transfers behind the posted     *)
(* callbacks.                                                              *)
(***************************************************************************)
LEMMA TransferStep ==
  TransferInv /\ [MerchantNext]_merchantVars => TransferInv'
<1> SUFFICES ASSUME TransferInv, [MerchantNext]_merchantVars PROVE TransferInv'
    OBVIOUS
<1> USE DEF TransferInv
<1>1. MerchantTypeOK' /\ TypeOK
      BY MerchantTypeStep DEF MerchantTypeOK
<1>2. CoverInv'
      BY MerchantStepIsIntentStep, CoverStep
<1> DEFINE Rest == IsFiniteSet(transfers) /\ PostedByTransfers /\ HandledWerePosted
<1>3. ASSUME NEW i \in Intents, CreatePaymentIntent(i), UNCHANGED settleVars PROVE Rest'
      BY <1>3 DEF CreatePaymentIntent, settleVars, PostedByTransfers, HandledWerePosted
<1>4. ASSUME NEW c \in Callbacks, c \in SettleCallbacks \cup Simulated => c \in posted, Handle(c),
             UNCHANGED settleVars
      PROVE  Rest'
  <2>1. \E to : at' = [at EXCEPT ![c] = to]
        BY <1>4 DEF Handle, FindPayment, EntersHandler, ConfirmPayment, ReadBalance, WriteBalance, CreditFails,
                    Moves, Ends
  <2>2. HandledWerePosted'
        BY <1>1, <1>4, <2>1 DEF HandledWerePosted, SettleCallbacks, settleVars, TypeOK
  <2> QED BY <1>4, <2>2 DEF settleVars, PostedByTransfers
<1>5. ASSUME NEW s \in Settles, Settle(s), UNCHANGED vars PROVE Rest'
      BY <1>5, SettleKeepsTransfers
<1>6. ASSUME ServerCrash PROVE Rest'
  <2>1. /\ UNCHANGED <<transfers, posted>>
        /\ \A s \in Settles : settleAt'[s] \in {settleAt[s], "crashed"}
        BY <1>6 DEF ServerCrash
  <2>2. \A c \in Callbacks : at'[c] # "idle" => at[c] # "idle"
        BY <1>1, <1>6 DEF ServerCrash, Crash, vars, TypeOK, InHandler
  <2>3. HandledWerePosted'
    <3>1. SettleCallbacks \subseteq Callbacks
          BY MerchantAssumption DEF SettleCallbacks
    <3> QED BY <2>1, <2>2, <3>1 DEF HandledWerePosted
  <2>4. PostedByTransfers'
        BY <2>1 DEF PostedByTransfers
  <2> QED BY <2>1, <2>3, <2>4
<1>7. ASSUME NEW c \in Simulated, Simulate(c) PROVE Rest'
  <2>1. /\ UNCHANGED <<at, settleAt, transfers>>
        /\ posted' \in {posted, posted \cup {c}}
        BY <1>7 DEF Simulate, SimulateIntent, SimulateCallback, SimulationAnswered,
                    CreatePaymentIntent, settleVars, vars
  <2>2. c \notin SettleCallbacks
        BY SimulatedConstants
  <2> QED BY <2>1, <2>2 DEF PostedByTransfers, HandledWerePosted, SettleCallbacks
<1>8. CASE UNCHANGED merchantVars
  <2>1. Rest'
        BY <1>8 DEF merchantVars, vars, settleVars, PostedByTransfers, HandledWerePosted
  <2> QED BY <1>1, <1>2, <2>1
<1>9. MerchantNext => Rest'
      BY <1>3, <1>4, <1>5, <1>6, <1>7 DEF MerchantNext
<1> QED BY <1>1, <1>2, <1>8, <1>9

(***************************************************************************)
(* The credits of a row that only settlements paying the address credit    *)
(* are told apart by their transfers, so what they are worth is covered by *)
(* them.                                                                   *)
(***************************************************************************)
LEMMA TransferInvSuffices == TransferInv => CreditsWithinTransfers
<1> SUFFICES ASSUME TransferInv, NEW b \in Rows,
                    \A c \in Callbacks :
                       RowFor(c) = b => \E s \in PaidToTheAddress(b) : CallbackOf[s] = c
             PROVE  balance[b] <= SumFunctionOnSet([s \in Settles |-> BodyOf[s].amount],
                                                   transfers \cap PaidToTheAddress(b))
    BY DEF CreditsWithinTransfers, AddressRows
<1> USE DEF TransferInv
<1> DEFINE value == [s \in Settles |-> BodyOf[s].amount]
           settled == transfers \cap PaidToTheAddress(b)
           settlement == [c \in Credited(b) |-> CHOOSE s \in PaidToTheAddress(b) : CallbackOf[s] = c]
<1>1. /\ transfers \subseteq Settles /\ credits \subseteq Callbacks /\ balance[b] \in Nat
      /\ PaidToTheAddress(b) \subseteq Settles
      BY DEF MerchantTypeOK, TypeOK, PaidToTheAddress
<1>2. \A c \in Credited(b) : /\ settlement[c] \in settled
                             /\ CallbackOf[settlement[c]] = c
  <2> SUFFICES ASSUME NEW c \in Credited(b)
               PROVE  settlement[c] \in settled /\ CallbackOf[settlement[c]] = c
      OBVIOUS
  <2>1. c \in credits /\ c \in Callbacks /\ RowFor(c) = b
        BY <1>1 DEF Credited
  <2>2. settlement[c] \in PaidToTheAddress(b) /\ CallbackOf[settlement[c]] = c
        BY <2>1
  <2>3. c \in SettleCallbacks
        BY <1>1, <2>2 DEF SettleCallbacks
  <2>4. c \in posted
        BY <2>1, <2>3 DEF CoverInv, CreditsAreDone, HandledWerePosted
  <2>5. settlement[c] \in transfers
        BY <1>1, <2>2, <2>4 DEF PostedByTransfers
  <2> QED BY <2>2, <2>5
<1>3. settlement \in [Credited(b) -> settled]
      BY <1>2
<1>4. \A c, d \in Credited(b) : settlement[c] = settlement[d] => c = d
      BY <1>2
<1>5. \A c \in Credited(b) : AmountOf[c] = value[settlement[c]]
  <2> SUFFICES ASSUME NEW c \in Credited(b) PROVE AmountOf[c] = value[settlement[c]]
      OBVIOUS
  <2>1. settlement[c] \in Settles /\ CallbackOf[settlement[c]] = c
        BY <1>1, <1>2
  <2> HIDE DEF settlement
  <2> QED BY <2>1, MerchantAssumption
<1>6. \A s \in settled : value[s] \in Nat
      BY <1>1, MerchantAssumption
<1>7. IsFiniteSet(settled)
      BY FS_Subset
<1> HIDE DEF settlement
<1>8. IsFiniteSet(Credited(b)) /\ SumFunctionOnSet(AmountOf, Credited(b)) <= SumFunctionOnSet(value, settled)
  <2> HIDE DEF value, settled
  <2> QED BY <1>3, <1>4, <1>5, <1>6, <1>7, SumInjection
<1>9. balance[b] <= SumFunctionOnSet(AmountOf, Credited(b))
      BY DEF CoverInv, NeverOvercredited, Credited
<1>10. SumFunctionOnSet(AmountOf, Credited(b)) \in Nat /\ SumFunctionOnSet(value, settled) \in Nat
  <2>1. \A c \in Credited(b) : AmountOf[c] \in Nat
        BY <1>1, RowForType DEF Credited
  <2> HIDE DEF value, settled
  <2> QED BY <1>6, <1>7, <1>8, <2>1, SumType
<1> QED BY <1>1, <1>8, <1>9, <1>10

(***************************************************************************)
(* A row that only settlements credit, and whose payers all name the       *)
(* address of the requirements, is never credited more than that address   *)
(* received for it.                                                        *)
(***************************************************************************)
THEOREM CreditsStayWithinTransfers == MerchantSpec => []CreditsWithinTransfers
<1>1. MerchantInit => TransferInv
  <2> SUFFICES ASSUME MerchantInit PROVE TransferInv
      OBVIOUS
  <2>1. MerchantTypeOK
        BY TypeInit DEF MerchantInit, MerchantTypeOK
  <2>2. CoverInv
        BY CoverInit DEF MerchantInit
  <2>3. IsFiniteSet(transfers) /\ PostedByTransfers
        BY FS_EmptySet DEF MerchantInit, PostedByTransfers
  <2>4. HandledWerePosted
    <3>1. SettleCallbacks \subseteq Callbacks
          BY MerchantAssumption DEF SettleCallbacks
    <3> QED BY <3>1 DEF MerchantInit, Init, HandledWerePosted
  <2> QED BY <2>1, <2>2, <2>3, <2>4 DEF TransferInv
<1> QED BY <1>1, TransferStep, TransferInvSuffices, PTL DEF MerchantSpec

-----------------------------------------------------------------------------
(***************************************************************************)
(* A simulated payment that is shown as received was answered ok, and its  *)
(* answer stays.                                                           *)
(***************************************************************************)
SuccessWasAnswered ==
  \A c \in Simulated : simulation[c] = "success" => at[c] = "done" /\ answer[c] = "ok"

SimulationInv ==
  MerchantTypeOK /\ CreditInv /\ SuccessWasAnswered

(***************************************************************************)
(* A callback that is over is not handled again: its answer stays.         *)
(***************************************************************************)
LEMMA AnswersStay ==
  ASSUME TypeOK, [Next]_vars, NEW c \in Callbacks, at[c] = "done"
  PROVE  at'[c] = "done" /\ answer'[c] = answer[c]
<1> USE DEF TypeOK
<1>1. ASSUME NEW i \in Intents, CreatePaymentIntent(i)
      PROVE  at'[c] = "done" /\ answer'[c] = answer[c]
      BY <1>1 DEF CreatePaymentIntent
<1>2. ASSUME NEW d \in Callbacks, Handle(d)
      PROVE  at'[c] = "done" /\ answer'[c] = answer[c]
  <2>1. /\ at[d] # "done"
        /\ \E to : at' = [at EXCEPT ![d] = to]
        /\ answer' = answer \/ \E reply : answer' = [answer EXCEPT ![d] = reply]
        BY <1>2 DEF Handle, FindPayment, EntersHandler, ConfirmPayment, ReadBalance, WriteBalance, CreditFails,
                    Moves, Ends
  <2> QED BY <2>1
<1>3. CASE Crash
      BY <1>3 DEF Crash, InHandler
<1>4. CASE UNCHANGED vars
      BY <1>4 DEF vars
<1> QED BY <1>1, <1>2, <1>3, <1>4 DEF Next

(***************************************************************************)
(* Every step of the composition keeps what the simulator shows in line    *)
(* with what its callbacks were answered.                                  *)
(***************************************************************************)
LEMMA SimulationStep ==
  SimulationInv /\ [MerchantNext]_merchantVars => SimulationInv'
<1> SUFFICES ASSUME SimulationInv, [MerchantNext]_merchantVars PROVE SimulationInv'
    OBVIOUS
<1> USE DEF SimulationInv
<1>1. MerchantTypeOK' /\ TypeOK /\ CreditInv' /\ [Next]_vars
      BY MerchantTypeStep, MerchantStepIsIntentStep, CreditStep DEF MerchantTypeOK
<1>2. \A c \in Simulated : simulation[c] = "success" => at'[c] = "done" /\ answer'[c] = "ok"
      BY <1>1, AnswersStay, SimulatedConstants DEF SuccessWasAnswered
<1>3. CASE UNCHANGED simulation
      BY <1>1, <1>2, <1>3 DEF SuccessWasAnswered
<1>4. ASSUME NEW c \in Simulated, Simulate(c) PROVE SuccessWasAnswered'
  <2>1. \/ \E to \in {"created", "posted", "error"} : simulation' = [simulation EXCEPT ![c] = to]
        \/ /\ at[c] = "done" /\ answer[c] = "ok" /\ UNCHANGED vars
           /\ simulation' = [simulation EXCEPT ![c] = "success"]
        BY <1>4 DEF Simulate, SimulateIntent, SimulateCallback, SimulationAnswered, Simulates
  <2> QED BY <1>1, <1>2, <2>1 DEF SuccessWasAnswered, MerchantTypeOK, vars
<1> QED BY <1>1, <1>3, <1>4 DEF MerchantNext, ServerCrash, merchantVars

(***************************************************************************)
(* In every state of the invariant a simulated success has a confirmed     *)
(* intent, with its credit written, under way or known to have failed.     *)
(***************************************************************************)
LEMMA SimulationInvSuffices == SimulationInv => SimulatedIsCredited
BY SimulatedConstants
   DEF SimulationInv, SuccessWasAnswered, CreditInv, WorkIsOnConfirmed, ConfirmedIsCredited,
       SimulatedIsCredited

(***************************************************************************)
(* The simulator shows a payment as received only if it was credited.      *)
(***************************************************************************)
THEOREM SimulatedPaymentsAreCredited == MerchantSpec => []SimulatedIsCredited
<1>1. MerchantInit => SimulationInv
  <2>1. MerchantInit => MerchantTypeOK /\ CreditInv
        BY TypeInit DEF MerchantInit, MerchantTypeOK, Init, CreditInv, WorkIsOnConfirmed,
                        ConfirmedIsCredited
  <2>2. MerchantInit => SuccessWasAnswered
        BY DEF MerchantInit, SuccessWasAnswered
  <2> QED BY <2>1, <2>2 DEF SimulationInv
<1> QED BY <1>1, SimulationStep, SimulationInvSuffices, PTL DEF MerchantSpec
=============================================================================
