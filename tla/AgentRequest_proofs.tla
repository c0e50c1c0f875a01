------------------------- MODULE AgentRequest_proofs ------------------------
(***************************************************************************)
(* Proofs about AgentRequest, for any requests, authorizations and         *)
(* failures: its types, that it implements PaidService, and that what it   *)
(* answers and reports agrees with what was mined.                         *)
(***************************************************************************)
EXTENDS AgentRequest, FiniteSetTheorems, TLAPS

-----------------------------------------------------------------------------
(* Types. *)

\* The account's transactions are finitely many, so their count is a number.
FinitelyMany == IsFiniteSet(pool) /\ IsFiniteSet(mined) /\ IsFiniteSet(reverted)

TypeInv == TypeOK /\ FinitelyMany

(***************************************************************************)
(* Each request's authorization is one of the authorizations.              *)
(***************************************************************************)
LEMMA AuthType == \A r \in Requests : AuthOf[r] \in Auths
BY AgentAssumption

(***************************************************************************)
(* The number of mined transactions is a natural number.                   *)
(***************************************************************************)
LEMMA HeightType == ASSUME FinitelyMany PROVE Height \in Nat /\ Cardinality(pool) \in Nat
<1>1. IsFiniteSet(mined \cup reverted)
      BY FS_Union DEF FinitelyMany
<1> QED BY <1>1, FS_CardinalityType DEF Height, FinitelyMany

(***************************************************************************)
(* Only a broadcast, a block and a dropped transaction move transactions,  *)
(* one at a time.                                                          *)
(***************************************************************************)
LEMMA FinitelyManyStep ==
  ASSUME FinitelyMany,
         UNCHANGED <<pool, mined, reverted>>
           \/ (\E r \in Requests : pool' = pool \cup {SignedTx(r)} /\ UNCHANGED <<mined, reverted>>)
           \/ \E t \in pool : /\ pool' = pool \ {t}
                              /\ mined' \in {mined, mined \cup {t}}
                              /\ reverted' \in {reverted, reverted \cup {t}}
  PROVE  FinitelyMany'
<1>1. \A t : IsFiniteSet(mined \cup {t}) /\ IsFiniteSet(reverted \cup {t})
             /\ IsFiniteSet(pool \cup {t}) /\ IsFiniteSet(pool \ {t})
      BY FS_AddElement, FS_RemoveElement DEF FinitelyMany
<1> QED BY <1>1 DEF FinitelyMany

(***************************************************************************)
(* What follows a test step keeps the handler's variables typed.           *)
(***************************************************************************)
LEMMA AfterStepType ==
  ASSUME TypeOK, NEW r \in Requests, AfterStep(r)
  PROVE  /\ at' \in [Requests -> Sends \cup {"idle", "gate", "verify", "work",
                                             "facilitatorAnswer", "done"}]
         /\ worked' \subseteq Requests
BY DEF TypeOK, AfterStep, Moves, Sends, TestSteps

(***************************************************************************)
(* The end of a transaction keeps everything but the account typed.        *)
(***************************************************************************)
HandlerTypeOK ==
  /\ env \in Envs
  /\ clock \in 0..MaxClock
  /\ at \in [Requests -> Sends \cup {"idle", "gate", "verify", "work", "facilitatorAnswer", "done"}]
  /\ nonce \in [Requests -> Nat]
  /\ waits \in [Requests -> {"no", "signed", "sent"}]
  /\ answer \in [Requests -> Answers]
  /\ worked \subseteq Requests
  /\ reported \in [Requests -> SUBSET TestSteps]

WalletTypeOK ==
  /\ pool \subseteq Txs /\ mined \subseteq Txs /\ reverted \subseteq Txs /\ dropped \subseteq Txs
  /\ chargedBy \in [Auths -> Requests \cup {Nobody}]
  /\ lost \subseteq Requests

\* The types are those of the handlers and those of the account.
LEMMA TypeIsSplit ==
  /\ TypeOK <=> HandlerTypeOK /\ WalletTypeOK
  /\ TypeOK' <=> HandlerTypeOK' /\ WalletTypeOK'
BY DEF TypeOK, HandlerTypeOK, WalletTypeOK

\* A step that ends keeps the handlers' variables typed.
LEMMA StepEndsType ==
  ASSUME TypeOK, NEW r \in Requests, StepSucceeds(r) \/ StepFails(r)
  PROVE  HandlerTypeOK'
<1>1. CASE at[r] = "settle"
      BY <1>1 DEF StepSucceeds, StepFails, Unsettled, TypeOK, HandlerTypeOK, Ends, Moves, Answers
<1>2. CASE at[r] # "settle"
  <2>1. AfterStep(r) /\ at[r] \in TestSteps
        BY <1>2 DEF StepSucceeds, StepFails, AfterStep, Moves, TestSteps
  <2>2. reported' \in [Requests -> SUBSET TestSteps]
        BY <1>2, <2>1 DEF StepSucceeds, StepFails, TypeOK
  <2>3. /\ UNCHANGED <<env, clock, nonce, answer>>
        /\ waits' = [waits EXCEPT ![r] = "no"]
        BY <1>2 DEF StepSucceeds, StepFails
  <2> QED BY <2>1, <2>2, <2>3, AfterStepType DEF TypeOK, HandlerTypeOK
<1> QED BY <1>1, <1>2

(***************************************************************************)
(* Up to the work a handler touches neither transactions nor charges.      *)
(***************************************************************************)
Earlier(r) ==
  Receive(r) \/ Gate(r) \/ Verify(r) \/ AskModel(r) \/ StartContractTest(r) \/ AnswerUnpaid(r)

\* Such a step keeps everything typed.
LEMMA EarlierType ==
  ASSUME TypeOK, NEW r \in Requests, Earlier(r)
  PROVE  TypeOK'
<1> USE DEF TypeOK, Moves, Ends, Answers, Sends, TestSteps, walletVars
<1>1. CASE Receive(r)
      BY <1>1 DEF Receive
<1>2. CASE Gate(r)
      BY <1>2 DEF Gate
<1>3. CASE Verify(r)
      BY <1>3 DEF Verify
<1>4. CASE AskModel(r)
      BY <1>4 DEF AskModel
<1>5. CASE StartContractTest(r)
      BY <1>5 DEF StartContractTest
<1>6. CASE AnswerUnpaid(r)
      BY <1>6 DEF AnswerUnpaid
<1> QED BY <1>1, <1>2, <1>3, <1>4, <1>5, <1>6 DEF Earlier

(***************************************************************************)
(* The transaction a handler has signed is a transaction.                  *)
(***************************************************************************)
LEMMA SignedTxType ==
  ASSUME TypeOK, NEW r \in Requests, at[r] \in Sends
  PROVE  SignedTx(r) \in Txs
BY DEF TypeOK, SignedTx, Txs

(***************************************************************************)
(* A handler that waits for the account is at a step that sends.           *)
(***************************************************************************)
WaitsToSend == \A r \in Requests : waits[r] # "no" => SendsOnChain(r)

AgentTypeInv == TypeInv /\ WaitsToSend

(***************************************************************************)
(* It stays so when one handler moves to where it waits for nothing.       *)
(***************************************************************************)
LEMMA OneMovesOn ==
  ASSUME WaitsToSend, UNCHANGED env, NEW r \in Requests, waits'[r] = "no",
         \A q \in Requests \ {r} : at'[q] = at[q] /\ waits'[q] = waits[q]
  PROVE  WaitsToSend'
BY DEF WaitsToSend, SendsOnChain

\* Before it sends, a handler waits for nothing.
LEMMA EarlierKeepsWaits ==
  ASSUME AgentTypeInv, NEW r \in Requests, Earlier(r)
  PROVE  WaitsToSend'
<1>1. /\ UNCHANGED <<env, waits>>
      /\ at[r] \notin TestSteps /\ (at[r] = "settle" => ~HasPayload(r))
      /\ \E to : at' = [at EXCEPT ![r] = to]
      BY DEF Earlier, Receive, Gate, Verify, AskModel, StartContractTest, AnswerUnpaid,
             Moves, Ends, TestSteps
<1>2. waits[r] = "no"
      BY <1>1 DEF AgentTypeInv, WaitsToSend, SendsOnChain
<1> QED BY <1>1, <1>2, OneMovesOn DEF AgentTypeInv, TypeInv, TypeOK

\* When its step ends, it waits for nothing any more.
LEMMA StepEndsKeepsWaits ==
  ASSUME AgentTypeInv, NEW r \in Requests, StepSucceeds(r) \/ StepFails(r)
  PROVE  WaitsToSend'
<1>1. /\ UNCHANGED env /\ waits' = [waits EXCEPT ![r] = "no"]
      /\ \E to : at' = [at EXCEPT ![r] = to]
      BY DEF StepSucceeds, StepFails, AfterStep, Moves, Ends
<1> QED BY <1>1, OneMovesOn DEF AgentTypeInv, TypeInv, TypeOK

(***************************************************************************)
(* A handler's transaction keeps everything typed, at each of its stages.  *)
(***************************************************************************)
LEMMA SignTxType ==
  ASSUME AgentTypeInv, NEW r \in Requests, SignTx(r)
  PROVE  AgentTypeInv'
<1> USE DEF AgentTypeInv, TypeInv
<1>1. UNCHANGED walletVars /\ UNCHANGED lost
      BY DEF SignTx
<1>2. FinitelyMany' /\ WalletTypeOK'
      BY <1>1, FinitelyManyStep, TypeIsSplit DEF walletVars, WalletTypeOK
<1>3. CASE StepFails(r)
      BY <1>2, <1>3, StepEndsType, StepEndsKeepsWaits, TypeIsSplit
<1>4. CASE ~StepFails(r)
  <2>1. PICK n \in Height..(Height + Cardinality(pool)) : nonce' = [nonce EXCEPT ![r] = n]
        BY <1>4 DEF SignTx
  <2>2. n \in Nat
        BY HeightType
  <2>3. /\ SendsOnChain(r)
        /\ waits' = [waits EXCEPT ![r] = "signed"]
        /\ UNCHANGED <<env, clock, at, answer, worked, reported>>
        BY <1>4 DEF SignTx
  <2>4. HandlerTypeOK'
        BY <2>1, <2>2, <2>3 DEF HandlerTypeOK, TypeOK
  <2>5. WaitsToSend'
        BY <2>3 DEF WaitsToSend, SendsOnChain, TypeOK
  <2> QED BY <1>2, <2>4, <2>5, TypeIsSplit
<1> QED BY <1>3, <1>4

\* Broadcasting puts a typed transaction into the pool.
LEMMA BroadcastType ==
  ASSUME AgentTypeInv, NEW r \in Requests, Broadcast(r)
  PROVE  AgentTypeInv'
<1> USE DEF AgentTypeInv, TypeInv
<1>1. waits[r] = "signed" /\ SendsOnChain(r) /\ at[r] \in Sends
      BY DEF Broadcast, WaitsToSend, SendsOnChain, Sends
<1>2. /\ pool' \in {pool, pool \cup {SignedTx(r)}} /\ UNCHANGED <<mined, reverted, chargedBy, dropped>>
      /\ lost' \in {lost, lost \cup {r}}
      BY DEF Broadcast, walletVars
<1>3. FinitelyMany' /\ WalletTypeOK'
      BY <1>1, <1>2, FinitelyManyStep, SignedTxType DEF WalletTypeOK, TypeOK
<1>4. CASE StepFails(r)
      BY <1>3, <1>4, StepEndsType, StepEndsKeepsWaits, TypeIsSplit
<1>5. CASE ~StepFails(r)
  <2>1. waits' = [waits EXCEPT ![r] = "sent"]
        /\ UNCHANGED <<env, clock, at, nonce, answer, worked, reported>>
        BY <1>5 DEF Broadcast
  <2>2. HandlerTypeOK'
        BY <2>1 DEF HandlerTypeOK, TypeOK
  <2>3. WaitsToSend'
        BY <1>1, <2>1 DEF WaitsToSend, SendsOnChain, TypeOK
  <2> QED BY <1>3, <2>2, <2>3, TypeIsSplit
<1> QED BY <1>4, <1>5

\* A receipt changes no transaction.
LEMMA ReceiptType ==
  ASSUME AgentTypeInv, NEW r \in Requests, Receipt(r) \/ ReceiptLost(r)
  PROVE  AgentTypeInv'
<1> USE DEF AgentTypeInv, TypeInv
<1>1. StepSucceeds(r) \/ StepFails(r)
      BY DEF Receipt, ReceiptLost
<1>2. UNCHANGED walletVars /\ lost' \in {lost, lost \cup {r}}
      BY DEF Receipt, ReceiptLost, StepSucceeds
<1>3. FinitelyMany' /\ WalletTypeOK'
      BY <1>2, FinitelyManyStep DEF WalletTypeOK, TypeOK, walletVars
<1> QED BY <1>1, <1>3, StepEndsType, StepEndsKeepsWaits, TypeIsSplit

(***************************************************************************)
(* So do the settlement by another facilitator, the chain and the clock.   *)
(***************************************************************************)
LEMMA FacilitatorType ==
  ASSUME AgentTypeInv, NEW r \in Requests, FacilitatorSettles(r) \/ FacilitatorAnswer(r)
  PROVE  AgentTypeInv'
<1> USE AuthType DEF AgentTypeInv, TypeInv
<1>1. /\ UNCHANGED <<env, clock, nonce, waits, worked, reported, pool, mined, reverted, dropped>>
      /\ at[r] \notin TestSteps /\ (at[r] = "settle" => Executor(env) # "direct")
      /\ \E to \in {"facilitatorAnswer", "done"} : at' = [at EXCEPT ![r] = to]
      /\ answer' \in {answer, [answer EXCEPT ![r] = "paid"], [answer EXCEPT ![r] = Unsettled(r)]}
      /\ chargedBy' \in {chargedBy, [chargedBy EXCEPT ![AuthOf[r]] = r]}
      /\ lost' \in {lost, lost \cup {r}}
      BY DEF FacilitatorSettles, FacilitatorAnswer, Moves, Ends, TestSteps, walletVars
<1>2. TypeOK' /\ FinitelyMany'
      BY <1>1, FinitelyManyStep DEF TypeOK, Answers, Unsettled, Sends
<1>3. waits[r] = "no"
      BY <1>1 DEF WaitsToSend, SendsOnChain
<1>4. WaitsToSend'
      BY <1>1, <1>3, OneMovesOn DEF TypeOK
<1> QED BY <1>2, <1>4

\* Blocks, drops and the clock leave the handlers alone.
LEMMA ChainType ==
  ASSUME AgentTypeInv, \/ \E t \in pool : Mine(t) \/ Drop(t)
                       \/ Tick
                       \/ UNCHANGED vars
  PROVE  AgentTypeInv'
<1> USE AuthType DEF AgentTypeInv, TypeInv
<1>1. UNCHANGED <<env, at, nonce, waits, answer, worked, reported, lost>>
      BY DEF Mine, Drop, Tick, vars
<1>2. WaitsToSend'
      BY <1>1 DEF WaitsToSend, SendsOnChain
<1>3. ASSUME NEW t \in pool, Mine(t) PROVE TypeOK' /\ FinitelyMany'
  <2>1. t \in Txs /\ AuthOf[t.by] \in Auths /\ t.by \in Requests
        BY DEF TypeOK, Txs
  <2>2. /\ pool' = pool \ {t} /\ UNCHANGED <<clock, dropped>>
        /\ mined' \in {mined, mined \cup {t}} /\ reverted' \in {reverted, reverted \cup {t}}
        /\ chargedBy' \in {chargedBy, [chargedBy EXCEPT ![AuthOf[t.by]] = t.by]}
        BY <1>3 DEF Mine
  <2> QED BY <1>1, <2>1, <2>2, FinitelyManyStep DEF TypeOK
<1>4. ASSUME NEW t \in pool, Drop(t) PROVE TypeOK' /\ FinitelyMany'
      BY <1>1, <1>4, FinitelyManyStep DEF Drop, TypeOK
<1>5. CASE Tick
      BY <1>1, <1>2, <1>5, FinitelyManyStep, AgentAssumption DEF Tick, TypeOK, walletVars
<1>6. CASE UNCHANGED vars
      BY <1>2, <1>6, FinitelyManyStep DEF vars, walletVars, TypeOK
<1> QED BY <1>2, <1>3, <1>4, <1>5, <1>6

\* Every step keeps the types.
LEMMA AgentTypeStep ==
  AgentTypeInv /\ [Next]_vars => AgentTypeInv'
<1> SUFFICES ASSUME AgentTypeInv, [Next]_vars PROVE AgentTypeInv'
    OBVIOUS
<1>1. ASSUME NEW r \in Requests, Earlier(r) PROVE AgentTypeInv'
  <2>1. UNCHANGED <<pool, mined, reverted>>
        BY <1>1 DEF Earlier, Receive, Gate, Verify, AskModel, StartContractTest, AnswerUnpaid,
                    walletVars
  <2>2. FinitelyMany'
        BY <2>1, FinitelyManyStep DEF AgentTypeInv, TypeInv
  <2> QED BY <1>1, <2>2, EarlierType, EarlierKeepsWaits DEF AgentTypeInv, TypeInv
<1> QED BY <1>1, SignTxType, BroadcastType, ReceiptType, FacilitatorType, ChainType
        DEF Next, Handle, Earlier

\* The initial states are typed.
LEMMA AgentTypeInit == Init => AgentTypeInv
<1> SUFFICES ASSUME Init PROVE AgentTypeInv
    OBVIOUS
<1>1. FinitelyMany
      BY FS_EmptySet DEF Init, FinitelyMany
<1>2. WaitsToSend
      BY DEF Init, WaitsToSend
<1>3. TypeOK
      BY AgentAssumption DEF Init, TypeOK, Answers
<1> QED BY <1>1, <1>2, <1>3 DEF AgentTypeInv, TypeInv

(***************************************************************************)
(* Every reachable state of the agent's two routes is typed, for any       *)
(* number of requests and transactions.                                    *)
(***************************************************************************)
THEOREM AgentTypeCorrect == Spec => []TypeOK
<1>1. AgentTypeInv => TypeOK
      BY DEF AgentTypeInv, TypeInv
<1> QED BY <1>1, AgentTypeInit, AgentTypeStep, PTL DEF Spec

-----------------------------------------------------------------------------
(* What a handler's place says of its answer, its work and its transaction. *)

OpenIsUnanswered == \A r \in Requests : answer[r] = "none" <=> at[r] # "done"

SettlesAfterWork ==
  \A r \in Requests :
     at[r] \in {"settle", "facilitatorAnswer"} \/ answer[r] \in {"paid", "done"} => r \in worked

\* The settlements among the account's transactions.
SettleTxs(S) == {t \in S : t.what = "settle"}

\* A settlement was sent by its handler's last step, with the nonce it signed last.
SettlementsAreOwn ==
  \A t \in SettleTxs(pool \cup mined \cup reverted) :
     /\ t.by \in worked /\ t.nonce = nonce[t.by]
     /\ at[t.by] = "done" \/ (at[t.by] = "settle" /\ waits[t.by] = "sent")

SettlementsHaveOneFate ==
  /\ SettleTxs(pool) \cap (mined \cup reverted) = {}
  /\ SettleTxs(mined) \cap reverted = {}

WorkInv == AgentTypeInv /\ OpenIsUnanswered /\ SettlesAfterWork
           /\ SettlementsAreOwn /\ SettlementsHaveOneFate

(***************************************************************************)
(* A handler that has sent nothing yet goes on, or ends without success.   *)
(***************************************************************************)
Arrives(r, to) ==
  /\ at' = [at EXCEPT ![r] = to]
  /\ to # "facilitatorAnswer" /\ (to = "settle" => r \in worked')
  /\ to # "done" => UNCHANGED answer
  /\ to = "done" => UNCHANGED worked
  /\ to = "done" => \E reply \in Answers \ {"none", "paid"} :
                      /\ answer' = [answer EXCEPT ![r] = reply]
                      /\ reply = "done" => r \in worked

GoesOn(r) ==
  /\ UNCHANGED <<nonce, reported, lost, walletVars>>
  /\ (at[r] = "settle" => waits[r] # "sent") /\ waits' = [waits EXCEPT ![r] = "no"]
  /\ worked' \in {worked, worked \cup {r}}
  /\ at[r] \notin {"done", "facilitatorAnswer"}
  /\ \E to : Arrives(r, to)

(***************************************************************************)
(* The end of a step that fails is such a move, whatever its transaction.  *)
(***************************************************************************)
FailsTo(r) ==
  /\ UNCHANGED <<nonce, reported>>
  /\ waits' = [waits EXCEPT ![r] = "no"]
  /\ worked' \in {worked, worked \cup {r}}
  /\ at[r] \in Sends
  /\ \/ /\ at[r] \in TestSteps
        /\ \/ at' = [at EXCEPT ![r] = "authorizeSwap"]
           \/ at' = [at EXCEPT ![r] = "settle"] /\ r \in worked'
        /\ UNCHANGED answer
     \/ /\ at[r] = "settle" /\ at' = [at EXCEPT ![r] = "done"]
        /\ UNCHANGED worked
        /\ answer' \in {[answer EXCEPT ![r] = "paymentFailed"], [answer EXCEPT ![r] = "done"]}

\* The model's failing step has that form.
LEMMA StepFailsTo ==
  ASSUME NEW r \in Requests, StepFails(r)
  PROVE  FailsTo(r)
<1>1. CASE at[r] = "settle"
      BY <1>1 DEF StepFails, FailsTo, Ends, Moves, Unsettled, Sends
<1>2. CASE at[r] # "settle"
      BY <1>2 DEF StepFails, FailsTo, AfterStep, Moves, Sends, TestSteps
<1> QED BY <1>1, <1>2

\* The steps up to the work are such moves.
LEMMA EarlierGoesOn ==
  ASSUME WorkInv, NEW r \in Requests, Earlier(r)
  PROVE  GoesOn(r)
<1>1. waits[r] = "no"
  <2>1. at[r] \notin TestSteps /\ (at[r] = "settle" => ~HasPayload(r))
        BY DEF Earlier, Receive, Gate, Verify, AskModel, StartContractTest, AnswerUnpaid,
               Moves, Ends, TestSteps
  <2> QED BY <2>1 DEF WorkInv, AgentTypeInv, WaitsToSend, SendsOnChain
<1>2. waits' = [waits EXCEPT ![r] = "no"]
  <2>1. UNCHANGED waits
        BY DEF Earlier, Receive, Gate, Verify, AskModel, StartContractTest, AnswerUnpaid
  <2> QED BY <1>1, <2>1 DEF WorkInv, AgentTypeInv, TypeInv, TypeOK
<1> USE <1>1, <1>2 DEF GoesOn, Arrives, Moves, Ends, Answers
<1>3. CASE Receive(r)
      BY <1>3 DEF Receive
<1>4. CASE Gate(r)
      BY <1>4 DEF Gate
<1>5. CASE Verify(r)
      BY <1>5 DEF Verify
<1>6. CASE AskModel(r)
      BY <1>6 DEF AskModel
<1>7. CASE StartContractTest(r)
      BY <1>7 DEF StartContractTest
<1>8. CASE AnswerUnpaid(r)
      BY <1>8 DEF AnswerUnpaid, WorkInv, SettlesAfterWork
<1> QED BY <1>3, <1>4, <1>5, <1>6, <1>7, <1>8 DEF Earlier

(***************************************************************************)
(* A handler that sends nothing and ends its step failed goes on.          *)
(***************************************************************************)
LEMMA FailingGoesOn ==
  ASSUME WorkInv, NEW r \in Requests, StepFails(r), at[r] = "settle" => waits[r] # "sent",
         UNCHANGED <<lost, walletVars>>
  PROVE  GoesOn(r)
<1>1. FailsTo(r)
      BY StepFailsTo
<1>2. CASE at[r] = "settle"
  <2>1. r \in worked
        BY <1>2 DEF WorkInv, SettlesAfterWork
  <2> QED BY <1>1, <1>2, <2>1 DEF FailsTo, GoesOn, Arrives, TestSteps, Answers
<1>3. CASE at[r] # "settle"
  <2>1. Arrives(r, "authorizeSwap") \/ Arrives(r, "settle")
        BY <1>1, <1>3 DEF FailsTo, Arrives
  <2> QED BY <1>1, <1>3, <2>1 DEF FailsTo, GoesOn, Sends, TestSteps
<1> QED BY <1>2, <1>3

(***************************************************************************)
(* Going on keeps what WorkInv says of places, answers and settlements.    *)
(***************************************************************************)
LEMMA GoesOnKeepsWorkInv ==
  ASSUME WorkInv, AgentTypeInv', NEW r \in Requests, GoesOn(r)
  PROVE  WorkInv'
<1> USE DEF WorkInv
<1>1. PICK to : Arrives(r, to)
      BY DEF GoesOn
<1> USE DEF Arrives
<1>2. OpenIsUnanswered'
      BY <1>1 DEF GoesOn, OpenIsUnanswered, AgentTypeInv, TypeInv, TypeOK
<1>3. SettlesAfterWork'
      BY <1>1 DEF GoesOn, SettlesAfterWork, AgentTypeInv, TypeInv, TypeOK
<1>4. SettlementsAreOwn'
  <2>1. \A t \in SettleTxs(pool \cup mined \cup reverted) : t.by # r
        BY DEF GoesOn, SettlementsAreOwn
  <2>2. \A t \in pool \cup mined \cup reverted : t.by \in Requests
        BY DEF AgentTypeInv, TypeInv, TypeOK, Txs
  <2> QED BY <1>1, <2>1, <2>2
          DEF GoesOn, SettlementsAreOwn, SettleTxs, walletVars, AgentTypeInv, TypeInv, TypeOK
<1>5. SettlementsHaveOneFate'
      BY DEF GoesOn, SettlementsHaveOneFate, SettleTxs, walletVars
<1> QED BY <1>2, <1>3, <1>4, <1>5

-----------------------------------------------------------------------------
(* What the chain knows of a request and what the request was told. *)

\* A mined settlement is the one its authorization was used up by.
MinedIsCharged == \A t \in SettleTxs(mined) : chargedBy[AuthOf[t.by]] = t.by

DelegatedIsCharged ==
  \A r \in Requests : at[r] = "facilitatorAnswer" => chargedBy[AuthOf[r]] = r

\* A charge is mined, or awaited from a facilitator, or known, or lost sight of.
ChargesAreKnown ==
  \A r \in Requests :
     chargedBy[AuthOf[r]] = r =>
        \/ \E t \in SettleTxs(mined) : t.by = r
        \/ at[r] = "facilitatorAnswer" \/ answer[r] = "paid" \/ r \in lost

\* A request that is over while its settlement is alive was answered paid, or lost it.
EndedIsTold ==
  \A t \in SettleTxs(pool \cup mined) :
     at[t.by] = "done" => answer[t.by] = "paid" \/ t.by \in lost

ToldInv == MinedIsCharged /\ DelegatedIsCharged /\ ChargesAreKnown /\ EndedIsTold

AgentInv == WorkInv /\ ToldInv /\ ReportedStepsMined

(***************************************************************************)
(* The requests transactions were sent for are requests; a settlement of a *)
(* handler that settles and has sent it is the one it signed, and one that *)
(* has not has none.                                                       *)
(***************************************************************************)
LEMMA TxsOfRequests ==
  ASSUME WorkInv
  PROVE  /\ \A t \in pool \cup mined \cup reverted :
               t.by \in Requests /\ t = [by |-> t.by, what |-> t.what, nonce |-> t.nonce]
         /\ \A t \in SettleTxs(pool \cup mined \cup reverted) :
               /\ t = [by |-> t.by, what |-> "settle", nonce |-> nonce[t.by]]
               /\ at[t.by] = "done" \/ (at[t.by] = "settle" /\ waits[t.by] = "sent")
<1>1. \A t \in pool \cup mined \cup reverted :
         t.by \in Requests /\ t = [by |-> t.by, what |-> t.what, nonce |-> t.nonce]
      BY DEF WorkInv, AgentTypeInv, TypeInv, TypeOK, Txs
<1> QED BY <1>1 DEF WorkInv, SettlementsAreOwn, SettleTxs

(***************************************************************************)
(* Going on keeps the whole invariant.                                     *)
(***************************************************************************)
LEMMA GoesOnKeepsInv ==
  ASSUME AgentInv, AgentTypeInv', NEW r \in Requests, GoesOn(r)
  PROVE  AgentInv'
<1> USE DEF AgentInv, ToldInv, SettleTxs
<1>1. WorkInv'
      BY GoesOnKeepsWorkInv
<1>2. PICK to : Arrives(r, to)
      BY DEF GoesOn
<1>3. at[r] \notin {"done", "facilitatorAnswer"} /\ to # "facilitatorAnswer"
      /\ answer[r] = "none"
      BY <1>2 DEF GoesOn, Arrives, WorkInv, OpenIsUnanswered
<1>4. \A q \in Requests \ {r} : at'[q] = at[q] /\ answer'[q] = answer[q]
      BY <1>2 DEF Arrives, WorkInv, AgentTypeInv, TypeInv, TypeOK
<1>5. \A t \in pool \cup mined : t.what = "settle" => t.by \in Requests \ {r}
      BY <1>3, TxsOfRequests DEF GoesOn
<1>6. UNCHANGED <<pool, mined, chargedBy, lost, reported>>
      BY DEF GoesOn, walletVars
<1>7. at'[r] = to
      BY <1>2 DEF Arrives, WorkInv, AgentTypeInv, TypeInv, TypeOK
<1>8. MinedIsCharged' /\ DelegatedIsCharged'
      BY <1>3, <1>4, <1>6, <1>7 DEF MinedIsCharged, DelegatedIsCharged
<1>9. ChargesAreKnown'
      BY <1>3, <1>4, <1>6 DEF ChargesAreKnown
<1>10. EndedIsTold'
      BY <1>4, <1>5, <1>6 DEF EndedIsTold
<1>11. ReportedStepsMined'
      BY <1>6 DEF ReportedStepsMined
<1> QED BY <1>1, <1>8, <1>9, <1>10, <1>11

(***************************************************************************)
(* Signing sends nothing.                                                  *)
(***************************************************************************)
Signs(r) ==
  /\ waits[r] = "no" /\ SendsOnChain(r)
  /\ \E n \in Nat : nonce' = [nonce EXCEPT ![r] = n]
  /\ waits' = [waits EXCEPT ![r] = "signed"]
  /\ UNCHANGED <<at, answer, worked, reported, lost, walletVars>>

\* So the invariant is kept.
LEMMA SignsKeepsInv ==
  ASSUME AgentInv, AgentTypeInv', NEW r \in Requests, Signs(r)
  PROVE  AgentInv'
<1> USE DEF AgentInv, ToldInv
<1>1. UNCHANGED <<pool, mined, reverted, chargedBy, lost, reported, at, answer, worked>>
      BY DEF Signs, walletVars
<1>2. at[r] # "done"
      BY DEF Signs, SendsOnChain, TestSteps
<1>3. \A t \in SettleTxs(pool \cup mined \cup reverted) : t.by \in Requests \ {r}
      BY <1>2, TxsOfRequests DEF Signs, SettleTxs
<1>4. SettlementsAreOwn'
      BY <1>1, <1>3 DEF Signs, WorkInv, SettlementsAreOwn, SettleTxs, AgentTypeInv, TypeInv, TypeOK
<1>5. OpenIsUnanswered' /\ SettlesAfterWork' /\ SettlementsHaveOneFate'
      BY <1>1 DEF WorkInv, OpenIsUnanswered, SettlesAfterWork, SettlementsHaveOneFate, SettleTxs
<1>6. ToldInv' /\ ReportedStepsMined'
      BY <1>1 DEF MinedIsCharged, DelegatedIsCharged, ChargesAreKnown, EndedIsTold, SettleTxs,
                  ReportedStepsMined
<1> QED BY <1>4, <1>5, <1>6 DEF WorkInv

(***************************************************************************)
(* A handler that has signed its settlement has none among the account's   *)
(* transactions, nor has one that is still testing.                        *)
(***************************************************************************)
LEMMA NotYetSettling ==
  ASSUME WorkInv, NEW r \in Requests, at[r] # "done", at[r] # "settle" \/ waits[r] # "sent"
  PROVE  \A t \in SettleTxs(pool \cup mined \cup reverted) : t.by \in Requests \ {r}
BY TxsOfRequests DEF SettleTxs

(***************************************************************************)
(* The transaction a handler has signed enters the pool, and the handler   *)
(* waits for it or loses sight of it.                                      *)
(***************************************************************************)
LEMMA SentKeepsInv ==
  ASSUME AgentInv, AgentTypeInv', NEW r \in Requests, waits[r] = "signed",
         pool' = pool \cup {SignedTx(r)},
         waits' = [waits EXCEPT ![r] = "sent"],
         UNCHANGED <<at, nonce, answer, worked, reported, lost, mined, reverted, chargedBy>>
  PROVE  AgentInv'
<1> USE DEF AgentInv, ToldInv, WorkInv
<1>1. at[r] # "done" /\ at[r] \in Sends
      BY DEF AgentTypeInv, WaitsToSend, SendsOnChain, Sends, TestSteps
<1>2. \A t \in SettleTxs(pool \cup mined \cup reverted) : t.by \in Requests \ {r}
      BY <1>1, NotYetSettling
<1>3. /\ SignedTx(r).by = r /\ SignedTx(r).what = at[r] /\ SignedTx(r).nonce = nonce[r]
      /\ waits'[r] = "sent" /\ \A q \in Requests \ {r} : waits'[q] = waits[q]
      BY DEF SignedTx, AgentTypeInv, TypeInv, TypeOK
<1>4. SettlementsAreOwn'
      BY <1>2, <1>3 DEF SettlementsAreOwn, SettleTxs, SettlesAfterWork
<1>5. SettlementsHaveOneFate'
      BY <1>2, <1>3 DEF SettlementsHaveOneFate, SettleTxs
<1>6. OpenIsUnanswered' /\ SettlesAfterWork'
      BY DEF OpenIsUnanswered, SettlesAfterWork
<1>7. EndedIsTold'
      BY <1>1, <1>3 DEF EndedIsTold, SettleTxs
<1>8. MinedIsCharged' /\ DelegatedIsCharged' /\ ChargesAreKnown' /\ ReportedStepsMined'
      BY DEF MinedIsCharged, DelegatedIsCharged, ChargesAreKnown, ReportedStepsMined, SettleTxs
<1> QED BY <1>4, <1>5, <1>6, <1>7, <1>8

\* Losing sight of a transaction is remembered in lost.
LEMMA LosingKeepsInv ==
  ASSUME AgentInv, AgentTypeInv', NEW r \in Requests, FailsTo(r),
         \/ waits[r] = "signed" /\ pool' = pool \cup {SignedTx(r)}
         \/ UNCHANGED pool,
         lost' = IF at[r] = "settle" THEN lost \cup {r} ELSE lost,
         UNCHANGED <<mined, reverted, chargedBy>>
  PROVE  AgentInv'
<1> USE DEF AgentInv, ToldInv, WorkInv
<1>1. /\ at[r] \in Sends /\ at[r] # "done" /\ at[r] # "facilitatorAnswer" /\ answer[r] = "none"
      /\ at'[r] # "facilitatorAnswer"
      /\ \A q \in Requests \ {r} : /\ at'[q] = at[q] /\ answer'[q] = answer[q]
                                   /\ waits'[q] = waits[q]
      /\ UNCHANGED <<nonce, reported>> /\ worked \subseteq worked'
      BY DEF FailsTo, OpenIsUnanswered, AgentTypeInv, TypeInv, TypeOK, Sends, TestSteps
<1>2. /\ at[r] = "settle" => at'[r] = "done" /\ answer'[r] # "none" /\ r \in worked
      /\ at[r] # "settle" => at'[r] # "done" /\ answer'[r] = "none" /\ (at'[r] = "settle" => r \in worked')
      BY <1>1 DEF FailsTo, SettlesAfterWork, AgentTypeInv, TypeInv, TypeOK, Sends, TestSteps
<1>3. /\ SignedTx(r).by = r /\ SignedTx(r).what = at[r] /\ SignedTx(r).nonce = nonce[r]
      /\ pool' \subseteq pool \cup {SignedTx(r)}
      BY DEF SignedTx
<1>4. \A t \in pool \cup mined \cup reverted : t.by \in Requests
      BY TxsOfRequests
<1>5. at[r] # "settle" => \A t \in SettleTxs(pool \cup mined \cup reverted) : t.by # r
      BY <1>1, NotYetSettling
<1>6. OpenIsUnanswered' /\ SettlesAfterWork'
      BY <1>1, <1>2 DEF OpenIsUnanswered, SettlesAfterWork
<1>7. SettlementsAreOwn'
      BY <1>1, <1>2, <1>3, <1>4, <1>5 DEF SettlementsAreOwn, SettleTxs
<1>8. SettlementsHaveOneFate'
  <2>1. CASE UNCHANGED pool
        BY <2>1 DEF SettlementsHaveOneFate, SettleTxs
  <2>2. CASE waits[r] = "signed" /\ pool' = pool \cup {SignedTx(r)}
    <3>1. \A t \in SettleTxs(pool \cup mined \cup reverted) : t.by # r
          BY <1>1, <2>2, NotYetSettling
    <3> QED BY <1>3, <2>2, <3>1 DEF SettlementsHaveOneFate, SettleTxs
  <2> QED BY <2>1, <2>2
<1>9. EndedIsTold'
      BY <1>1, <1>2, <1>3, <1>4, <1>5 DEF EndedIsTold, SettleTxs
<1>10. MinedIsCharged' /\ DelegatedIsCharged' /\ ReportedStepsMined'
      BY <1>1 DEF MinedIsCharged, DelegatedIsCharged, ReportedStepsMined, SettleTxs
<1>11. ChargesAreKnown'
      BY <1>1 DEF ChargesAreKnown, SettleTxs
<1> QED BY <1>6, <1>7, <1>8, <1>9, <1>10, <1>11

(***************************************************************************)
(* A step whose transaction was mined succeeds.                            *)
(***************************************************************************)
LEMMA SucceedingKeepsInv ==
  ASSUME AgentInv, AgentTypeInv', NEW r \in Requests, StepSucceeds(r), SignedTx(r) \in mined,
         UNCHANGED walletVars
  PROVE  AgentInv'
<1> USE DEF AgentInv, ToldInv, WorkInv
<1>1. UNCHANGED <<nonce, pool, mined, reverted, chargedBy, lost>>
      BY DEF StepSucceeds, walletVars
<1>2. /\ SignedTx(r).by = r /\ SignedTx(r).what = at[r]
      /\ \A t \in pool \cup mined \cup reverted : t.by \in Requests
      BY TxsOfRequests DEF SignedTx
<1>3. CASE at[r] = "settle"
  <2>1. /\ at' = [at EXCEPT ![r] = "done"] /\ answer' = [answer EXCEPT ![r] = "paid"]
        /\ waits' = [waits EXCEPT ![r] = "no"] /\ UNCHANGED <<worked, reported>>
        BY <1>3 DEF StepSucceeds, Ends, Moves
  <2>2. /\ at'[r] = "done" /\ answer'[r] = "paid" /\ r \in worked
        /\ \A q \in Requests \ {r} : /\ at'[q] = at[q] /\ answer'[q] = answer[q]
                                     /\ waits'[q] = waits[q]
        BY <1>3, <2>1 DEF AgentTypeInv, TypeInv, TypeOK, SettlesAfterWork
  <2>3. OpenIsUnanswered' /\ SettlesAfterWork'
        BY <2>1, <2>2 DEF OpenIsUnanswered, SettlesAfterWork
  <2>4. SettlementsAreOwn' /\ SettlementsHaveOneFate'
        BY <1>1, <1>2, <2>1, <2>2 DEF SettlementsAreOwn, SettlementsHaveOneFate, SettleTxs
  <2>5. MinedIsCharged' /\ DelegatedIsCharged' /\ ChargesAreKnown' /\ EndedIsTold'
        BY <1>1, <1>2, <2>1, <2>2
        DEF MinedIsCharged, DelegatedIsCharged, ChargesAreKnown, EndedIsTold, SettleTxs
  <2>6. ReportedStepsMined'
        BY <1>1, <2>1 DEF ReportedStepsMined
  <2> QED BY <2>3, <2>4, <2>5, <2>6
<1>4. CASE at[r] # "settle"
  <2>1. /\ AfterStep(r) /\ reported' = [reported EXCEPT ![r] = @ \cup {at[r]}]
        /\ waits' = [waits EXCEPT ![r] = "no"] /\ UNCHANGED answer
        BY <1>4 DEF StepSucceeds
  <2>2. /\ at[r] \in TestSteps /\ at[r] # "facilitatorAnswer" /\ at[r] # "done"
        /\ at'[r] \in Sends /\ at'[r] # "facilitatorAnswer" /\ at'[r] # "done"
        /\ (at'[r] = "settle" => r \in worked') /\ worked \subseteq worked'
        /\ \A q \in Requests \ {r} : at'[q] = at[q] /\ waits'[q] = waits[q]
        BY <2>1 DEF AfterStep, Moves, TestSteps, Sends, AgentTypeInv, TypeInv, TypeOK
  <2>3. OpenIsUnanswered' /\ SettlesAfterWork'
        BY <2>1, <2>2 DEF OpenIsUnanswered, SettlesAfterWork
  <2>4. \A t \in SettleTxs(pool \cup mined \cup reverted) : t.by \in Requests \ {r}
        BY <1>4, <2>2, NotYetSettling
  <2>5. SettlementsAreOwn' /\ SettlementsHaveOneFate'
        BY <1>1, <2>1, <2>2, <2>4 DEF SettlementsAreOwn, SettlementsHaveOneFate, SettleTxs
  <2>6. MinedIsCharged' /\ DelegatedIsCharged' /\ ChargesAreKnown'
        BY <1>1, <2>1, <2>2 DEF MinedIsCharged, DelegatedIsCharged, ChargesAreKnown, SettleTxs
  <2>7. EndedIsTold'
        BY <1>1, <2>1, <2>2, <2>4 DEF EndedIsTold, SettleTxs
  <2>8. ReportedStepsMined'
    <3>1. \A q \in Requests : reported'[q] = IF q = r THEN reported[r] \cup {at[r]} ELSE reported[q]
          BY <2>1 DEF AgentTypeInv, TypeInv, TypeOK
    <3>2. \A q \in Requests : \A step \in reported'[q] :
             step \in reported[q] \/ (q = r /\ step = at[r])
          BY <3>1
    <3> QED BY <1>1, <1>2, <3>2 DEF ReportedStepsMined
  <2> QED BY <2>3, <2>5, <2>6, <2>7, <2>8
<1> QED BY <1>3, <1>4

(***************************************************************************)
(* A settlement that reverted ends unpaid: the reverted one is the only    *)
(* settlement of its request, so none is left in the pool.                 *)
(***************************************************************************)
LEMMA RevertedKeepsInv ==
  ASSUME AgentInv, AgentTypeInv', NEW r \in Requests, waits[r] = "sent",
         SignedTx(r) \in reverted, FailsTo(r), at[r] = "settle",
         UNCHANGED <<lost, pool, mined, reverted, chargedBy>>
  PROVE  AgentInv'
<1> USE DEF AgentInv, ToldInv, WorkInv
<1>1. /\ answer[r] = "none" /\ r \in worked
      /\ at' = [at EXCEPT ![r] = "done"] /\ UNCHANGED <<nonce, reported, worked>>
      /\ answer'[r] \in {"paymentFailed", "done"} /\ at'[r] = "done"
      /\ \A q \in Requests \ {r} : /\ at'[q] = at[q] /\ answer'[q] = answer[q]
                                   /\ waits'[q] = waits[q]
      BY DEF FailsTo, OpenIsUnanswered, SettlesAfterWork, AgentTypeInv, TypeInv, TypeOK, TestSteps
<1>2. \A t \in SettleTxs(pool \cup mined) : t.by \in Requests \ {r}
  <2>1. \A t \in SettleTxs(pool \cup mined) : t.by = r => t = SignedTx(r)
        BY TxsOfRequests DEF SignedTx, SettleTxs
  <2>2. SignedTx(r) \notin SettleTxs(pool \cup mined)
        BY DEF SettlementsHaveOneFate, SettleTxs, SignedTx
  <2> QED BY <2>1, <2>2, TxsOfRequests DEF SettleTxs
<1>3. \A t \in pool \cup mined \cup reverted : t.by \in Requests
      BY TxsOfRequests
<1>4. OpenIsUnanswered' /\ SettlesAfterWork'
      BY <1>1 DEF OpenIsUnanswered, SettlesAfterWork
<1>5. SettlementsAreOwn' /\ SettlementsHaveOneFate'
      BY <1>1, <1>3 DEF SettlementsAreOwn, SettlementsHaveOneFate, SettleTxs
<1>6. EndedIsTold'
      BY <1>1, <1>2 DEF EndedIsTold, SettleTxs
<1>7. MinedIsCharged' /\ DelegatedIsCharged' /\ ChargesAreKnown' /\ ReportedStepsMined'
      BY <1>1 DEF MinedIsCharged, DelegatedIsCharged, ChargesAreKnown, ReportedStepsMined, SettleTxs
<1> QED BY <1>4, <1>5, <1>6, <1>7

(***************************************************************************)
(* Another facilitator charges an authorization nobody was charged for,    *)
(* and then answers or is lost sight of.                                   *)
(***************************************************************************)
LEMMA DelegatingKeepsInv ==
  ASSUME AgentInv, AgentTypeInv', NEW r \in Requests, waits[r] = "no", at[r] = "settle",
         chargedBy[AuthOf[r]] = Nobody,
         at' = [at EXCEPT ![r] = "facilitatorAnswer"],
         chargedBy' = [chargedBy EXCEPT ![AuthOf[r]] = r],
         UNCHANGED <<nonce, waits, answer, worked, reported, pool, mined, reverted, lost>>
  PROVE  AgentInv'
<1> USE AgentAssumption, AuthType DEF AgentInv, ToldInv, WorkInv
<1>1. /\ at'[r] = "facilitatorAnswer" /\ \A q \in Requests \ {r} : at'[q] = at[q]
      /\ \A q \in Requests : chargedBy'[AuthOf[q]] = IF AuthOf[q] = AuthOf[r] THEN r
                                                     ELSE chargedBy[AuthOf[q]]
      BY DEF AgentTypeInv, TypeInv, TypeOK
<1>2. \A t \in SettleTxs(pool \cup mined \cup reverted) : t.by \in Requests \ {r}
      BY NotYetSettling
<1>3. \A q \in Requests : chargedBy[AuthOf[q]] = q => AuthOf[q] # AuthOf[r]
      OBVIOUS
<1>4. OpenIsUnanswered' /\ SettlesAfterWork' /\ SettlementsHaveOneFate' /\ SettlementsAreOwn'
      BY <1>1, <1>2
      DEF OpenIsUnanswered, SettlesAfterWork, SettlementsHaveOneFate, SettlementsAreOwn, SettleTxs
<1>5. MinedIsCharged'
      BY <1>1, <1>2, <1>3 DEF MinedIsCharged, SettleTxs
<1>6. DelegatedIsCharged' /\ ChargesAreKnown'
      BY <1>1, <1>3 DEF DelegatedIsCharged, ChargesAreKnown, SettleTxs
<1>7. EndedIsTold' /\ ReportedStepsMined'
      BY <1>1, <1>2 DEF EndedIsTold, ReportedStepsMined, SettleTxs
<1> QED BY <1>4, <1>5, <1>6, <1>7

\* The other facilitator's answer ends the request paid, or lost.
LEMMA DelegateAnswersKeepsInv ==
  ASSUME AgentInv, AgentTypeInv', NEW r \in Requests, FacilitatorAnswer(r)
  PROVE  AgentInv'
<1> USE DEF AgentInv, ToldInv, WorkInv
<1>1. /\ at[r] = "facilitatorAnswer" /\ at' = [at EXCEPT ![r] = "done"]
      /\ UNCHANGED <<nonce, waits, worked, reported, pool, mined, reverted, chargedBy>>
      /\ \/ answer' = [answer EXCEPT ![r] = "paid"] /\ UNCHANGED lost
         \/ answer' = [answer EXCEPT ![r] = Unsettled(r)] /\ lost' = lost \cup {r}
      BY DEF FacilitatorAnswer, Ends, Moves, walletVars
<1>2. /\ answer[r] = "none" /\ r \in worked /\ at'[r] = "done" /\ answer'[r] # "none"
      /\ answer'[r] = "paid" \/ r \in lost'
      /\ lost \subseteq lost'
      /\ \A q \in Requests \ {r} : at'[q] = at[q] /\ answer'[q] = answer[q]
      BY <1>1 DEF OpenIsUnanswered, SettlesAfterWork, Unsettled, AgentTypeInv, TypeInv, TypeOK
<1>3. \A t \in SettleTxs(pool \cup mined \cup reverted) : t.by \in Requests \ {r}
      BY <1>1, NotYetSettling
<1>4. OpenIsUnanswered' /\ SettlesAfterWork'
      BY <1>1, <1>2 DEF OpenIsUnanswered, SettlesAfterWork
<1>5. SettlementsHaveOneFate' /\ SettlementsAreOwn'
      BY <1>1, <1>2, <1>3 DEF SettlementsHaveOneFate, SettlementsAreOwn, SettleTxs
<1>6. MinedIsCharged' /\ DelegatedIsCharged' /\ ReportedStepsMined'
      BY <1>1, <1>2 DEF MinedIsCharged, DelegatedIsCharged, ReportedStepsMined, SettleTxs
<1>7. ChargesAreKnown' /\ EndedIsTold'
      BY <1>1, <1>2, <1>3 DEF ChargesAreKnown, EndedIsTold, SettleTxs
<1> QED BY <1>4, <1>5, <1>6, <1>7

(***************************************************************************)
(* The chain takes a transaction or drops it.                              *)
(***************************************************************************)
LEMMA MiningKeepsInv ==
  ASSUME AgentInv, AgentTypeInv', NEW t \in pool, Mine(t)
  PROVE  AgentInv'
<1> USE DEF AgentInv, ToldInv, WorkInv
<1>1. /\ t.by \in Requests /\ AuthOf[t.by] \in Auths
      /\ \A u \in pool \cup mined \cup reverted : u.by \in Requests
      BY TxsOfRequests, AuthType
<1>2. /\ UNCHANGED <<at, nonce, waits, answer, worked, reported, lost>> /\ pool' = pool \ {t}
      /\ mined \subseteq mined' /\ mined' \cup reverted' = mined \cup reverted \cup {t}
      BY DEF Mine
<1>3. OpenIsUnanswered' /\ SettlesAfterWork' /\ SettlementsAreOwn' /\ ReportedStepsMined'
      BY <1>2 DEF OpenIsUnanswered, SettlesAfterWork, SettlementsAreOwn, SettleTxs,
                  ReportedStepsMined
<1>4. SettlementsHaveOneFate'
      BY DEF Mine, SettlementsHaveOneFate, SettleTxs
<1>5. EndedIsTold'
      BY DEF Mine, EndedIsTold, SettleTxs
<1>6. CASE t.what = "settle" /\ TokenAccepts(AuthOf[t.by])
  <2>1. /\ mined' = mined \cup {t} /\ chargedBy' = [chargedBy EXCEPT ![AuthOf[t.by]] = t.by]
        /\ chargedBy[AuthOf[t.by]] = Nobody
        BY <1>6 DEF Mine, TokenAccepts
  <2>2. \A q \in Requests : chargedBy'[AuthOf[q]] = IF AuthOf[q] = AuthOf[t.by] THEN t.by
                                                    ELSE chargedBy[AuthOf[q]]
        BY <1>1, <2>1, AuthType DEF AgentTypeInv, TypeInv, TypeOK
  <2>3. \A q \in Requests : chargedBy[AuthOf[q]] = q => AuthOf[q] # AuthOf[t.by]
        BY <2>1, AgentAssumption
  <2>4. MinedIsCharged'
        BY <1>1, <1>6, <2>1, <2>2, <2>3 DEF MinedIsCharged, SettleTxs
  <2>5. DelegatedIsCharged'
        BY <1>2, <2>2, <2>3 DEF DelegatedIsCharged
  <2>6. ChargesAreKnown'
        BY <1>2, <1>6, <2>1, <2>2 DEF ChargesAreKnown, SettleTxs
  <2> QED BY <1>3, <1>4, <1>5, <2>4, <2>5, <2>6
<1>7. CASE t.what # "settle" \/ ~TokenAccepts(AuthOf[t.by])
  <2>1. UNCHANGED chargedBy /\ SettleTxs(mined)' = SettleTxs(mined)
        BY <1>7 DEF Mine, SettleTxs
  <2>2. MinedIsCharged' /\ DelegatedIsCharged' /\ ChargesAreKnown'
        BY <1>2, <2>1 DEF MinedIsCharged, DelegatedIsCharged, ChargesAreKnown, SettleTxs
  <2> QED BY <1>3, <1>4, <1>5, <2>2
<1> QED BY <1>6, <1>7

\* Dropping, waiting and stuttering keep the invariant.
LEMMA QuietKeepsInv ==
  ASSUME AgentInv, AgentTypeInv', \/ \E t \in pool : Drop(t)
                                  \/ Tick
                                  \/ UNCHANGED vars
  PROVE  AgentInv'
<1> USE DEF AgentInv, ToldInv, WorkInv
<1>1. /\ UNCHANGED <<at, nonce, waits, answer, worked, reported, lost, mined, reverted, chargedBy>>
      /\ pool' \subseteq pool
      BY DEF Drop, Tick, vars, walletVars
<1>2. OpenIsUnanswered' /\ SettlesAfterWork' /\ SettlementsAreOwn' /\ SettlementsHaveOneFate'
      BY <1>1 DEF OpenIsUnanswered, SettlesAfterWork, SettlementsAreOwn, SettlementsHaveOneFate,
                  SettleTxs
<1>3. /\ MinedIsCharged' /\ DelegatedIsCharged' /\ ChargesAreKnown' /\ EndedIsTold'
      /\ ReportedStepsMined'
      BY <1>1 DEF MinedIsCharged, DelegatedIsCharged, ChargesAreKnown, EndedIsTold, SettleTxs,
                  ReportedStepsMined
<1> QED BY <1>2, <1>3

-----------------------------------------------------------------------------
(* Every step is one of these. *)

Sent(r) ==
  /\ waits[r] = "signed" /\ pool' = pool \cup {SignedTx(r)}
  /\ waits' = [waits EXCEPT ![r] = "sent"]
  /\ UNCHANGED <<at, nonce, answer, worked, reported, lost, mined, reverted, chargedBy>>

Loses(r) ==
  /\ FailsTo(r)
  /\ \/ waits[r] = "signed" /\ pool' = pool \cup {SignedTx(r)}
     \/ UNCHANGED pool
  /\ lost' = IF at[r] = "settle" THEN lost \cup {r} ELSE lost
  /\ UNCHANGED <<mined, reverted, chargedBy>>

Succeeds(r) == StepSucceeds(r) /\ SignedTx(r) \in mined /\ UNCHANGED walletVars

Reverts(r) ==
  /\ FailsTo(r)
  /\ at[r] = "settle" /\ waits[r] = "sent" /\ SignedTx(r) \in reverted
  /\ UNCHANGED <<lost, pool, mined, reverted, chargedBy>>

Delegates(r) ==
  /\ at[r] = "settle" /\ waits[r] = "no" /\ chargedBy[AuthOf[r]] = Nobody
  /\ at' = [at EXCEPT ![r] = "facilitatorAnswer"]
  /\ chargedBy' = [chargedBy EXCEPT ![AuthOf[r]] = r]
  /\ UNCHANGED <<nonce, waits, answer, worked, reported, pool, mined, reverted, lost>>

Quiet == (\E t \in pool : Drop(t)) \/ Tick \/ UNCHANGED vars

(***************************************************************************)
(* The stages of a transaction are among them.                             *)
(***************************************************************************)
LEMMA SignTxShapes ==
  ASSUME AgentInv, NEW r \in Requests, SignTx(r)
  PROVE  GoesOn(r) \/ Signs(r)
<1> USE DEF AgentInv, WorkInv, AgentTypeInv, TypeInv
<1>1. CASE StepFails(r)
      BY <1>1, FailingGoesOn DEF SignTx
<1>2. CASE ~StepFails(r)
  <2>1. PICK n \in Height..(Height + Cardinality(pool)) : nonce' = [nonce EXCEPT ![r] = n]
        BY <1>2 DEF SignTx
  <2>2. n \in Nat
        BY HeightType
  <2> QED BY <1>2, <2>1, <2>2 DEF SignTx, Signs
<1> QED BY <1>1, <1>2

\* A broadcast goes through, is refused, or is lost sight of.
LEMMA BroadcastShapes ==
  ASSUME AgentInv, NEW r \in Requests, Broadcast(r)
  PROVE  GoesOn(r) \/ Sent(r) \/ Loses(r)
<1> USE DEF AgentInv
<1>1. waits[r] = "signed"
      BY DEF Broadcast
<1>2. CASE pool' = pool \cup {SignedTx(r)} /\ waits' = [waits EXCEPT ![r] = "sent"]
           /\ UNCHANGED <<env, clock, at, nonce, answer, worked, reported, lost, mined, reverted,
                          chargedBy>>
      BY <1>1, <1>2 DEF Sent
<1>3. CASE pool' = pool \cup {SignedTx(r)} /\ StepFails(r)
           /\ lost' = (IF at[r] = "settle" THEN lost \cup {r} ELSE lost)
           /\ UNCHANGED <<mined, reverted, chargedBy>>
      BY <1>1, <1>3, StepFailsTo DEF Loses
<1>4. CASE StepFails(r) /\ UNCHANGED <<lost, walletVars>>
      BY <1>1, <1>4, FailingGoesOn
<1> QED BY <1>2, <1>3, <1>4 DEF Broadcast

\* A receipt says mined or reverted, or does not come.
LEMMA ReceiptShapes ==
  ASSUME AgentInv, NEW r \in Requests, Receipt(r) \/ ReceiptLost(r)
  PROVE  GoesOn(r) \/ Loses(r) \/ Succeeds(r) \/ Reverts(r)
<1> USE DEF AgentInv
<1>1. CASE ReceiptLost(r)
      BY <1>1, StepFailsTo DEF ReceiptLost, Loses, walletVars
<1>2. CASE Receipt(r) /\ StepSucceeds(r) /\ SignedTx(r) \in mined
  <2>1. UNCHANGED walletVars
        BY <1>2 DEF Receipt, StepSucceeds
  <2> QED BY <1>2, <2>1 DEF Succeeds
<1>3. CASE Receipt(r) /\ StepFails(r) /\ SignedTx(r) \in reverted /\ UNCHANGED <<lost, walletVars>>
  <2>1. CASE at[r] = "settle"
        BY <1>3, <2>1, StepFailsTo DEF Receipt, Reverts, walletVars
  <2>2. CASE at[r] # "settle"
        BY <1>3, <2>2, FailingGoesOn
  <2> QED BY <2>1, <2>2
<1> QED BY <1>1, <1>2, <1>3 DEF Receipt

\* Another facilitator charges, or the handler ends unpaid.
LEMMA FacilitatorSettlesShapes ==
  ASSUME AgentInv, NEW r \in Requests, FacilitatorSettles(r)
  PROVE  GoesOn(r) \/ Delegates(r)
<1> USE DEF AgentInv, WorkInv
<1>1. /\ at[r] = "settle" /\ Executor(env) = "other" /\ UNCHANGED waits
      BY DEF FacilitatorSettles, Ends, Moves
<1>2. waits[r] = "no" /\ r \in worked /\ waits' = [waits EXCEPT ![r] = "no"]
      BY <1>1 DEF AgentTypeInv, WaitsToSend, SendsOnChain, TestSteps, SettlesAfterWork,
                  TypeInv, TypeOK
<1>3. CASE Ends(r, "settle", Unsettled(r)) /\ UNCHANGED chargedBy
  <2>1. Arrives(r, "done")
        BY <1>2, <1>3 DEF FacilitatorSettles, Arrives, Ends, Moves, Unsettled, Answers
  <2> QED BY <1>1, <1>2, <1>3, <2>1 DEF FacilitatorSettles, GoesOn, walletVars
<1>4. CASE TokenAccepts(AuthOf[r]) /\ Moves(r, "settle", "facilitatorAnswer")
           /\ chargedBy' = [chargedBy EXCEPT ![AuthOf[r]] = r] /\ UNCHANGED answer
      BY <1>1, <1>2, <1>4 DEF FacilitatorSettles, Moves, TokenAccepts, Delegates
<1> QED BY <1>3, <1>4 DEF FacilitatorSettles

\* Every step of the specification has one of the forms.
LEMMA StepShapes ==
  ASSUME AgentInv, [Next]_vars
  PROVE  \/ \E r \in Requests : \/ GoesOn(r) \/ Signs(r) \/ Sent(r) \/ Loses(r) \/ Succeeds(r)
                                \/ Reverts(r) \/ Delegates(r) \/ FacilitatorAnswer(r)
         \/ \E t \in pool : Mine(t)
         \/ Quiet
<1>1. CASE \E r \in Requests : Receive(r) \/ Handle(r) \/ ReceiptLost(r)
  <2>1. PICK r \in Requests : Receive(r) \/ Handle(r) \/ ReceiptLost(r)
        BY <1>1
  <2>2. \/ Earlier(r) \/ SignTx(r) \/ Broadcast(r) \/ Receipt(r) \/ ReceiptLost(r)
        \/ FacilitatorSettles(r) \/ FacilitatorAnswer(r)
        BY <2>1 DEF Handle, Earlier
  <2>3. Earlier(r) => GoesOn(r)
        BY EarlierGoesOn DEF AgentInv
  <2> QED BY <2>2, <2>3, SignTxShapes, BroadcastShapes, ReceiptShapes, FacilitatorSettlesShapes
<1>2. CASE (\E t \in pool : Mine(t) \/ Drop(t)) \/ Tick \/ UNCHANGED vars
      BY <1>2 DEF Quiet
<1> QED BY <1>1, <1>2 DEF Next

(***************************************************************************)
(* The invariant holds at the start and every step keeps it.               *)
(***************************************************************************)
LEMMA AgentInvInit == Init => AgentInv
<1> SUFFICES ASSUME Init PROVE AgentInv
    OBVIOUS
<1>1. AgentTypeInv
      BY AgentTypeInit
<1>2. WorkInv
      BY <1>1 DEF Init, WorkInv, OpenIsUnanswered, SettlesAfterWork, SettlementsAreOwn,
                  SettlementsHaveOneFate, SettleTxs
<1>3. ToldInv
      BY AgentAssumption, AuthType
      DEF Init, ToldInv, MinedIsCharged, DelegatedIsCharged, ChargesAreKnown, EndedIsTold, SettleTxs
<1>4. ReportedStepsMined
      BY DEF Init, ReportedStepsMined
<1> QED BY <1>2, <1>3, <1>4 DEF AgentInv

\* Every step keeps the invariant.
LEMMA AgentInvStep == AgentInv /\ [Next]_vars => AgentInv'
<1> SUFFICES ASSUME AgentInv, [Next]_vars PROVE AgentInv'
    OBVIOUS
<1>1. AgentTypeInv'
      BY AgentTypeStep DEF AgentInv, WorkInv
<1>2. ASSUME NEW r \in Requests,
             GoesOn(r) \/ Signs(r) \/ Sent(r) \/ Loses(r) \/ Succeeds(r) \/ Reverts(r)
               \/ Delegates(r) \/ FacilitatorAnswer(r)
      PROVE  AgentInv'
  <2>1. CASE GoesOn(r) \/ Signs(r) \/ FacilitatorAnswer(r)
        BY <1>1, <2>1, GoesOnKeepsInv, SignsKeepsInv, DelegateAnswersKeepsInv
  <2>2. CASE Sent(r)
        BY <1>1, <2>2, SentKeepsInv DEF Sent
  <2>3. CASE Loses(r)
        BY <1>1, <2>3, LosingKeepsInv DEF Loses
  <2>4. CASE Succeeds(r)
        BY <1>1, <2>4, SucceedingKeepsInv DEF Succeeds
  <2>5. CASE Reverts(r)
        BY <1>1, <2>5, RevertedKeepsInv DEF Reverts
  <2>6. CASE Delegates(r)
        BY <1>1, <2>6, DelegatingKeepsInv DEF Delegates
  <2> QED BY <1>2, <2>1, <2>2, <2>3, <2>4, <2>5, <2>6
<1>3. (\E t \in pool : Mine(t)) => AgentInv'
      BY <1>1, MiningKeepsInv
<1>4. Quiet => AgentInv'
      BY <1>1, QuietKeepsInv DEF Quiet
<1> QED BY <1>2, <1>3, <1>4, StepShapes

(***************************************************************************)
(* A payer who was charged is told that the payment failed only when the   *)
(* request lost sight of its settlement, for any number of requests and    *)
(* authorizations.                                                         *)
(***************************************************************************)
THEOREM ChargedAreTold == Spec => []ChargedIsTold
<1>1. AgentInv => ChargedIsTold
  <2> SUFFICES ASSUME AgentInv, NEW r \in Requests, chargedBy[AuthOf[r]] = r, answer[r] # "none"
               PROVE  answer[r] = "paid" \/ r \in lost
      BY DEF ChargedIsTold
  <2>1. at[r] = "done"
        BY DEF AgentInv, WorkInv, OpenIsUnanswered
  <2> QED BY <2>1 DEF AgentInv, ToldInv, ChargesAreKnown, EndedIsTold, SettleTxs
<1> QED BY <1>1, AgentInvInit, AgentInvStep, PTL DEF Spec

(***************************************************************************)
(* A step the contract test reports successful was mined for that test,    *)
(* whatever nonces concurrent handlers signed with.                        *)
(***************************************************************************)
THEOREM ReportsAreMined == Spec => []ReportedStepsMined
<1>1. AgentInv => ReportedStepsMined
      BY DEF AgentInv
<1> QED BY <1>1, AgentInvInit, AgentInvStep, PTL DEF Spec

(***************************************************************************)
(* The screen shows a test completed only when it was carried out, for     *)
(* any number of posts.                                                    *)
(***************************************************************************)
THEOREM CompletedTestsHaveRun == Spec => []CompletedTestsRan
<1>1. AgentInv => CompletedTestsRan
      BY DEF AgentInv, WorkInv, SettlesAfterWork, CompletedTestsRan, Screen
<1> QED BY <1>1, AgentInvInit, AgentInvStep, PTL DEF Spec

-----------------------------------------------------------------------------
(* The agent's routes implement the paid service. *)

(***************************************************************************)
(* What the abstract service sees of an answer.                            *)
(***************************************************************************)
LEMMA AnsweredOne ==
  ASSUME AgentTypeInv, NEW r \in Requests, NEW reply \in Answers, reply # "none",
         answer' = [answer EXCEPT ![r] = reply]
  PROVE  answered' = [answered EXCEPT ![r] = IF reply = "paid" THEN "paid" ELSE "unpaid"]
<1>1. \A q \in Requests : answer'[q] = IF q = r THEN reply ELSE answer[q]
      BY DEF AgentTypeInv, TypeInv, TypeOK
<1> QED BY <1>1 DEF answered

\* An open request is unanswered, and answers change only with answer.
LEMMA AnsweredNone ==
  /\ \A r \in Requests : answer[r] = "none" => answered[r] = "none"
  /\ UNCHANGED answer => UNCHANGED answered
BY DEF answered

(***************************************************************************)
(* A handler's step is a step of the service for the same request, or      *)
(* none.                                                                   *)
(***************************************************************************)
LEMMA GoingOnIsService ==
  ASSUME AgentInv, NEW r \in Requests, GoesOn(r)
  PROVE  Paid!Work(r) \/ Paid!AnswerUnpaid(r) \/ UNCHANGED Paid!vars
<1> USE DEF AgentInv, WorkInv
<1>1. answered[r] = "none" /\ UNCHANGED chargedBy /\ worked' \in {worked, worked \cup {r}}
      BY AnsweredNone DEF GoesOn, OpenIsUnanswered, walletVars
<1>2. PICK to : Arrives(r, to)
      BY DEF GoesOn
<1>3. CASE to = "done"
  <2>1. PICK reply \in Answers \ {"none", "paid"} : answer' = [answer EXCEPT ![r] = reply]
        BY <1>2, <1>3 DEF Arrives
  <2>2. answered' = [answered EXCEPT ![r] = "unpaid"]
        BY <2>1, AnsweredOne
  <2> QED BY <1>1, <1>2, <1>3, <2>2 DEF Arrives, Paid!AnswerUnpaid
<1>4. CASE to # "done"
  <2>1. UNCHANGED answered
        BY <1>2, <1>4, AnsweredNone DEF Arrives
  <2> QED BY <1>1, <2>1 DEF Paid!Work, Paid!vars
<1> QED BY <1>3, <1>4

\* A failed step is work done, an unpaid answer or nothing.
LEMMA FailingIsService ==
  ASSUME AgentInv, NEW r \in Requests, FailsTo(r), UNCHANGED chargedBy
  PROVE  Paid!Work(r) \/ Paid!AnswerUnpaid(r) \/ UNCHANGED Paid!vars
<1> USE DEF AgentInv, WorkInv
<1>1. answered[r] = "none" /\ worked' \in {worked, worked \cup {r}}
      BY AnsweredNone DEF FailsTo, OpenIsUnanswered, Sends, TestSteps
<1>2. CASE UNCHANGED answer
      BY <1>1, <1>2, AnsweredNone DEF Paid!Work, Paid!vars
<1>3. CASE /\ UNCHANGED worked
           /\ answer' \in {[answer EXCEPT ![r] = "paymentFailed"], [answer EXCEPT ![r] = "done"]}
  <2>1. answered' = [answered EXCEPT ![r] = "unpaid"]
        BY <1>3, AnsweredOne DEF Answers
  <2> QED BY <1>1, <1>3, <2>1 DEF Paid!AnswerUnpaid
<1> QED BY <1>2, <1>3 DEF FailsTo

\* A step whose transaction was mined is work done or a paid answer.
LEMMA SucceedingIsService ==
  ASSUME AgentInv, NEW r \in Requests, Succeeds(r)
  PROVE  Paid!Work(r) \/ Paid!AnswerPaid(r) \/ UNCHANGED Paid!vars
<1> USE DEF AgentInv, WorkInv
<1>1. answered[r] = "none" /\ UNCHANGED chargedBy
      BY AnsweredNone DEF Succeeds, StepSucceeds, AfterStep, Ends, Moves, OpenIsUnanswered, walletVars
<1>2. CASE at[r] = "settle"
  <2>1. chargedBy[AuthOf[r]] = r
        BY <1>2 DEF Succeeds, ToldInv, MinedIsCharged, SettleTxs, SignedTx
  <2>2. answered' = [answered EXCEPT ![r] = "paid"] /\ UNCHANGED worked
        BY <1>2, AnsweredOne DEF Succeeds, StepSucceeds, Ends, Answers
  <2> QED BY <1>1, <2>1, <2>2 DEF Paid!AnswerPaid
<1>3. CASE at[r] # "settle"
  <2>1. UNCHANGED answered /\ worked' \in {worked, worked \cup {r}}
        BY <1>3, AnsweredNone DEF Succeeds, StepSucceeds, AfterStep
  <2> QED BY <1>1, <2>1 DEF Paid!Work, Paid!vars
<1> QED BY <1>2, <1>3

\* The answer another facilitator led to is an answer.
LEMMA DelegateAnswersIsService ==
  ASSUME AgentInv, NEW r \in Requests, FacilitatorAnswer(r)
  PROVE  Paid!AnswerPaid(r) \/ Paid!AnswerUnpaid(r)
<1> USE DEF AgentInv, WorkInv
<1>1. answered[r] = "none" /\ UNCHANGED <<worked, chargedBy>> /\ chargedBy[AuthOf[r]] = r
      BY AnsweredNone DEF FacilitatorAnswer, Ends, Moves, OpenIsUnanswered, walletVars,
                          ToldInv, DelegatedIsCharged
<1>2. CASE answer' = [answer EXCEPT ![r] = "paid"]
  <2>1. answered' = [answered EXCEPT ![r] = "paid"]
        BY <1>2, AnsweredOne DEF Answers
  <2> QED BY <1>1, <2>1 DEF Paid!AnswerPaid
<1>3. CASE answer' = [answer EXCEPT ![r] = Unsettled(r)]
  <2>1. answered' = [answered EXCEPT ![r] = "unpaid"]
        BY <1>3, AnsweredOne DEF Answers, Unsettled
  <2> QED BY <1>1, <2>1 DEF Paid!AnswerUnpaid
<1> QED BY <1>2, <1>3 DEF FacilitatorAnswer, Ends

\* A mined settlement charges for work that was done.
LEMMA MiningIsService ==
  ASSUME AgentInv, NEW t \in pool, Mine(t)
  PROVE  t.by \in Requests /\ (Paid!Charge(t.by) \/ UNCHANGED Paid!vars)
<1> USE DEF AgentInv, WorkInv
<1>1. t.by \in Requests /\ UNCHANGED <<worked, answered>>
      BY TxsOfRequests, AnsweredNone DEF Mine
<1>2. CASE t.what = "settle" /\ TokenAccepts(AuthOf[t.by])
  <2>1. t.by \in worked
        BY <1>2 DEF SettlementsAreOwn, SettleTxs
  <2> QED BY <1>1, <1>2, <2>1 DEF Mine, TokenAccepts, Paid!Charge
<1>3. CASE t.what # "settle" \/ ~TokenAccepts(AuthOf[t.by])
      BY <1>1, <1>3 DEF Mine, Paid!vars
<1> QED BY <1>2, <1>3

\* Every step is one of the service, or none.
LEMMA ServiceStep ==
  AgentInv /\ [Next]_vars => [Paid!Next]_(Paid!vars)
<1> SUFFICES ASSUME AgentInv, [Next]_vars PROVE Paid!Next \/ UNCHANGED Paid!vars
    OBVIOUS
<1>1. ASSUME NEW r \in Requests,
             GoesOn(r) \/ Signs(r) \/ Sent(r) \/ Loses(r) \/ Succeeds(r) \/ Reverts(r)
               \/ Delegates(r) \/ FacilitatorAnswer(r)
      PROVE  Paid!Next \/ UNCHANGED Paid!vars
  <2>1. CASE GoesOn(r)
        BY <2>1, GoingOnIsService DEF Paid!Next
  <2>2. CASE Signs(r) \/ Sent(r)
        BY <2>2, AnsweredNone DEF Signs, Sent, walletVars, Paid!vars
  <2>3. CASE Loses(r) \/ Reverts(r)
        BY <2>3, FailingIsService DEF Loses, Reverts, Paid!Next
  <2>4. CASE Succeeds(r)
        BY <2>4, SucceedingIsService DEF Paid!Next
  <2>5. CASE Delegates(r)
        BY <2>5, AnsweredNone DEF Delegates, AgentInv, WorkInv, SettlesAfterWork, Paid!Charge, Paid!Next
  <2>6. CASE FacilitatorAnswer(r)
        BY <2>6, DelegateAnswersIsService DEF Paid!Next
  <2> QED BY <1>1, <2>1, <2>2, <2>3, <2>4, <2>5, <2>6
<1>2. ASSUME NEW t \in pool, Mine(t) PROVE Paid!Next \/ UNCHANGED Paid!vars
      BY <1>2, MiningIsService DEF Paid!Next
<1>3. CASE Quiet
  <2>1. UNCHANGED <<worked, chargedBy, answer>>
        BY <1>3 DEF Quiet, Drop, Tick, vars, walletVars
  <2> QED BY <2>1, AnsweredNone DEF Paid!vars
<1> QED BY <1>1, <1>2, <1>3, StepShapes

\* The service starts where the agent starts.
LEMMA ServiceInit == Init => Paid!Init
BY DEF Init, Paid!Init, answered

(***************************************************************************)
(* POST /process and POST /api/treasury/test implement the paid service,   *)
(* for any requests, environments and failures: charged only for work      *)
(* done, once for each authorization, and answered paid only when charged. *)
(***************************************************************************)
THEOREM AgentImplementsPaidService == Spec => ImplementsPaidService
<1> QED BY ServiceInit, ServiceStep, AgentInvInit, AgentInvStep, PTL
        DEF Spec, ImplementsPaidService, Paid!Spec
=============================================================================
