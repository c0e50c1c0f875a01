-------------------------- MODULE MerchantPayments ---------------------------
(***************************************************************************)
(* The merchant payment from end to end: PaymentIntents (the intent, its   *)
(* callback and the company's balance) composed with POST                  *)
(* /facilitator/settle, which verifies a payment, transfers it on chain    *)
(* and posts the callback.  A settlement posts its callback once, awaits   *)
(* the answer and ignores it.  The payment simulator of the dashboard      *)
(* creates an intent and posts its callback itself, with a transaction it  *)
(* made up.  Callbacks of neither come from elsewhere.                     *)
(***************************************************************************)
EXTENDS PaymentIntents, Facilitator

CONSTANTS
  Settles,      \* requests to /settle
  BodyOf,       \* BodyOf[s]: the payload's shape, amount and payee; resource, name, place of the id
  CallbackOf,   \* CallbackOf[s]: the callback s posts
  Authorizations, AuthorizationOf, \* the EIP-3009 authorization s carries
  SettleMayFail, \* the settlements whose key, RPC or callback may fail
  Simulated,     \* callbacks the payment simulator posts, for an intent of its own each
  ConnectionMayFail \* the simulated payments whose connections may be lost

SettleCallbacks == {CallbackOf[s] : s \in Settles}

\* paymentRequirements.extra.name || "xUSDC": the token a settlement's callback names.
TokenNamed(body) == IF body.name = "none" THEN "xUSDC" ELSE body.name

ASSUME MerchantAssumption ==
  /\ CallbackOf \in [Settles -> Callbacks]
  /\ \A s, t \in Settles : CallbackOf[s] = CallbackOf[t] => s = t
  /\ BodyOf \in [Settles -> [shape : Shapes, amount : Nat \ {0}, payee : {"payTo", "other"},
                             name : Tokens \cup {"none"}, idAt : {"none", "extra", "metadata"},
                             resource : DOMAIN Price \cup {"callbackUrl", "SERVICE_URL"}]]
  /\ AuthorizationOf \in [Settles -> Authorizations]
  /\ \A s \in Settles : /\ AmountOf[CallbackOf[s]] = BodyOf[s].amount
                        /\ TokenOf[CallbackOf[s]] = TokenNamed(BodyOf[s])
  /\ SettleMayFail \subseteq Settles
  /\ Simulated \subseteq Callbacks \ SettleCallbacks
  /\ \A c, d \in Simulated : IntentOf[c] = IntentOf[d] => c = d
  /\ ConnectionMayFail \subseteq Simulated

SimulatedIntents == {IntentOf[c] : c \in Simulated}

VARIABLES
  settleAt,     \* where the settlement's handler is
  settleAnswer, \* what the settlement was answered
  spent,        \* the authorizations used on chain
  transfers,    \* the settlements whose transfer was mined
  posted,       \* the callbacks that reached the backend
  undelivered,  \* history: settlements whose callback did not
  simulation    \* what the simulator did for the payment, and shows of it

settleVars == <<settleAt, settleAnswer, spent, transfers, posted, undelivered>>
merchantVars == <<vars, settleVars, simulation>>

InSettle == {"send", "receipt", "callback", "callbackAnswer"}

MerchantTypeOK ==
  /\ TypeOK
  /\ settleAt \in [Settles -> InSettle \cup {"idle", "done", "crashed"}]
  /\ settleAnswer \in [Settles -> {"none", "refused", "failed", "success"}]
  /\ spent \subseteq Authorizations
  /\ transfers \subseteq Settles
  /\ posted \subseteq SettleCallbacks \cup Simulated
  /\ undelivered \subseteq Settles
  /\ simulation \in [Simulated -> {"ready", "created", "posted", "success", "error"}]

MerchantInit ==
  /\ Init
  /\ settleAt = [s \in Settles |-> "idle"]
  /\ settleAnswer = [s \in Settles |-> "none"]
  /\ spent = {} /\ transfers = {} /\ posted = {} /\ undelivered = {}
  /\ simulation = [c \in Simulated |-> "ready"]

-----------------------------------------------------------------------------
SettleMoves(s, from, to) == settleAt[s] = from /\ settleAt' = [settleAt EXCEPT ![s] = to]

SettleEnds(s, from, reply) ==
  /\ SettleMoves(s, from, "done")
  /\ settleAnswer' = [settleAnswer EXCEPT ![s] = reply]

\* generatePaymentRequirements: the resource is the callback's URL, the id is in extra.
MeetsIssued(body) ==
  body.resource = "callbackUrl" /\ body.idAt = "extra" /\ body.shape \in {"flat", "inner"}

\* Requirements of an intent are issued with it.
StartSettle(s) ==
  /\ MeetsIssued(BodyOf[s]) => intentStatus[IntentOf[CallbackOf[s]]] # "none"
  /\ IF VerifyRoute(BodyOf[s], BodyOf[s].resource) = "valid"
     THEN SettleMoves(s, "idle", "send") /\ UNCHANGED settleAnswer
     ELSE SettleEnds(s, "idle", "refused")
  /\ UNCHANGED <<spent, transfers, posted, undelivered>>

\* Mutant: a transfer that throws because its authorization is used counts as settled.
BugUsedIsSettled(s) ==
  /\ \/ /\ SettleMoves(s, "send", "receipt")
        /\ spent' = spent \cup {AuthorizationOf[s]}
        /\ transfers' = IF AuthorizationOf[s] \in spent THEN transfers ELSE transfers \cup {s}
        /\ UNCHANGED settleAnswer
     \/ s \in SettleMayFail /\ SettleEnds(s, "send", "failed") /\ UNCHANGED <<spent, transfers>>
  /\ UNCHANGED <<posted, undelivered>>

\* transferWithAuthorization pays the payee the proof names and is mined, or the call throws.
SendTransfer(s) ==
  /\ \/ /\ AuthorizationOf[s] \notin spent
        /\ SettleMoves(s, "send", "receipt")
        /\ spent' = spent \cup {AuthorizationOf[s]}
        /\ transfers' = transfers \cup {s}
        /\ UNCHANGED settleAnswer
     \/ /\ AuthorizationOf[s] \in spent \/ s \in SettleMayFail
        /\ SettleEnds(s, "send", "failed")
        /\ UNCHANGED <<spent, transfers>>
  /\ UNCHANGED <<posted, undelivered>>

\* The id is read from extra.metadata; without one there is nobody to call back.
SettleReceipt(s) ==
  /\ \/ /\ BodyOf[s].idAt = "metadata"
        /\ SettleMoves(s, "receipt", "callback")
        /\ UNCHANGED settleAnswer
     \/ BodyOf[s].idAt # "metadata" /\ SettleEnds(s, "receipt", "success")
     \/ s \in SettleMayFail /\ SettleEnds(s, "receipt", "failed")
  /\ UNCHANGED <<spent, transfers, posted, undelivered>>

\* Mutant: the settlement is answered before the callback is posted, which is then dropped.
BugAnswersFirst(s) ==
  /\ SettleEnds(s, "callback", "success")
  /\ UNCHANGED <<spent, transfers, posted, undelivered>>

PostCallback(s) ==
  /\ \/ /\ SettleMoves(s, "callback", "callbackAnswer")
        /\ posted' = posted \cup {CallbackOf[s]}
        /\ UNCHANGED <<settleAnswer, undelivered>>
     \/ /\ s \in SettleMayFail
        /\ SettleEnds(s, "callback", "success")
        /\ undelivered' = undelivered \cup {s}
        /\ UNCHANGED posted
  /\ UNCHANGED <<spent, transfers>>

\* Whatever the callback was answered, or though its answer was lost: success.
CallbackAnswered(s) ==
  /\ at[CallbackOf[s]] = "done" \/ s \in SettleMayFail
  /\ SettleEnds(s, "callbackAnswer", "success")
  /\ UNCHANGED <<spent, transfers, posted, undelivered>>

Settle(s) == StartSettle(s) \/ SendTransfer(s) \/ SettleReceipt(s) \/ PostCallback(s)
             \/ CallbackAnswered(s)

-----------------------------------------------------------------------------
(* The payment simulator: handleSimulatePayment. *)

Simulates(c, from, to) == simulation[c] = from /\ simulation' = [simulation EXCEPT ![c] = to]

\* POST /merchant/payments; its answer may be lost after the intent was written.
SimulateIntent(c) ==
  /\ \/ Simulates(c, "ready", "created") /\ CreatePaymentIntent(IntentOf[c])
     \/ /\ c \in ConnectionMayFail
        /\ Simulates(c, "ready", "error")
        /\ CreatePaymentIntent(IntentOf[c]) \/ UNCHANGED vars
  /\ UNCHANGED settleVars

\* The callback is posted after a pause; an error may be shown although it arrives.
SimulateCallback(c) ==
  /\ \/ Simulates(c, "created", "posted") /\ posted' = posted \cup {c}
     \/ /\ c \in ConnectionMayFail
        /\ Simulates(c, "created", "error")
        /\ posted' \in {posted, posted \cup {c}}
  /\ UNCHANGED <<vars, settleAt, settleAnswer, spent, transfers, undelivered>>

\* Any answer with status 200 is shown as a payment that was received.
SimulationAnswered(c) ==
  /\ \/ /\ at[c] = "done"
        /\ Simulates(c, "posted", IF answer[c] = "ok" THEN "success" ELSE "error")
     \/ at[c] = "crashed" /\ Simulates(c, "posted", "error")
  /\ UNCHANGED <<vars, settleVars>>

Simulate(c) == SimulateIntent(c) \/ SimulateCallback(c) \/ SimulationAnswered(c)

-----------------------------------------------------------------------------
\* The facilitator's router is mounted in the server: both die together.
ServerCrash ==
  LET running == {s \in Settles : settleAt[s] \in InSettle}
      handling == {c \in Callbacks : at[c] \in InHandler}
  IN  /\ MayCrash
      /\ running # {} \/ handling # {}
      /\ IF handling # {} THEN Crash ELSE UNCHANGED vars
      /\ settleAt' = [s \in Settles |-> IF s \in running THEN "crashed" ELSE settleAt[s]]
      /\ UNCHANGED <<settleAnswer, spent, transfers, posted, undelivered, simulation>>

MerchantNext ==
  \/ \E i \in Intents \ SimulatedIntents :
        CreatePaymentIntent(i) /\ UNCHANGED <<settleVars, simulation>>
  \/ \E c \in Callbacks :
        /\ c \in SettleCallbacks \cup Simulated => c \in posted
        /\ Handle(c) /\ UNCHANGED <<settleVars, simulation>>
  \/ \E s \in Settles : Settle(s) /\ UNCHANGED <<vars, simulation>>
  \/ \E c \in Simulated : Simulate(c)
  \/ ServerCrash

MerchantSpec == MerchantInit /\ [][MerchantNext]_merchantVars

-----------------------------------------------------------------------------
\* The settlements of a row whose payers name the address of the requirements.
PaidToTheAddress(b) == {s \in Settles : RowFor(CallbackOf[s]) = b /\ BodyOf[s].payee = "payTo"}

\* The rows that only such settlements credit.
AddressRows ==
  {b \in Rows : \A c \in Callbacks :
                  RowFor(c) = b => \E s \in PaidToTheAddress(b) : CallbackOf[s] = c}

(***************************************************************************)
(* The facilitator compares neither the payee nor the asset of a proof     *)
(* with what its company's requirements ask for.  A row that only          *)
(* settlements credit, and whose payers all name PAY_TO_ADDRESS, is        *)
(* nevertheless never credited more than that address received for it on   *)
(* chain, whatever is retried with one authorization, lost or confirmed at *)
(* once.                                                                   *)
(***************************************************************************)
CreditsWithinTransfers ==
  \A b \in AddressRows :
     balance[b] <= SumFunctionOnSet([s \in Settles |-> BodyOf[s].amount],
                                    transfers \cap PaidToTheAddress(b))

(***************************************************************************)
(* The facilitator answers success whatever became of the callback, but an *)
(* intent whose settlement carried its id is then confirmed, unless the    *)
(* callback did not get through, failed, or its handler is still at it or  *)
(* died: nothing else can lose a settled payment.                          *)
(***************************************************************************)
SettledIsConfirmed ==
  \A s \in Settles :
     LET c == CallbackOf[s]
     IN  settleAnswer[s] = "success" /\ BodyOf[s].idAt = "metadata" =>
           \/ intentStatus[IntentOf[c]] = "CONFIRMED_ONCHAIN"
           \/ s \in undelivered
           \/ answer[c] \in {"notFound", "error"}
           \/ c \in posted /\ at[c] \in {"idle", "confirm", "crashed"}

(***************************************************************************)
(* A simulated payment is shown as received only if its own callback was   *)
(* answered and its intent was credited, or another callback is crediting  *)
(* it, or its credit failed half way: however often it is confirmed by     *)
(* others meanwhile.                                                       *)
(***************************************************************************)
SimulatedIsCredited ==
  \A c \in Simulated :
     simulation[c] = "success" =>
        /\ intentStatus[IntentOf[c]] = "CONFIRMED_ONCHAIN"
        /\ IntentOf[c] \in broken \/ BeingCredited(IntentOf[c])

(***************************************************************************)
(* "Critical: include paymentIntentId for callback routing"                *)
(* (merchantRoutes.ts): a payment that meets the requirements the backend  *)
(* issued is not refused by its facilitator.                               *)
(***************************************************************************)
IssuedRequirementsSettle ==
  \A s \in Settles : MeetsIssued(BodyOf[s]) => settleAnswer[s] # "refused"
=============================================================================
