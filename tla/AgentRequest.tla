----------------------------- MODULE AgentRequest -----------------------------
(***************************************************************************)
(* The two routes on which the agent works for a payment: POST /process    *)
(* (server.ts) and POST /api/treasury/test behind the x402 gate            *)
(* (treasury.controller.ts).  A request is verified, worked on            *)
(* (ExampleService) and only then settled (MerchantExecutor), directly     *)
(* through an EIP-3009 transfer or by a facilitator.                       *)
(*                                                                         *)
(* Handlers of concurrent requests interleave at every await.  They send   *)
(* their transactions, those of the contract test and the settlements,     *)
(* from one account: each reads the account's next nonce, broadcasts, and  *)
(* waits for the receipt.                                                  *)
(***************************************************************************)
EXTENDS Facilitator, FiniteSets

CONSTANTS
  Requests,
  RouteOf,     \* RouteOf[r]: "process" or "test"
  ShapeOf,     \* ShapeOf[r]: the shape of the proof it brings, "none" without one
  RetryOf,     \* RetryOf[r]: the request whose 402 answer r follows up, Nobody for the others
  TestsContract, \* requests whose text asks for the contract test
  Auths,       \* EIP-3009 authorizations
  AuthOf,      \* AuthOf[r]: the authorization r's proof carries
  Sound,       \* those whose network, recipient, amount and signature are right
  ValidAfter, ValidBefore,
  Funded,      \* those whose payer has the money
  Envs,        \* the environments the backend is started in
  MaxClock,
  RpcMayFail,  \* the requests whose RPC and facilitator calls may fail
  ModelMayFail, \* the requests on which the language model may fail
  MayDrop,     \* a pending transaction may be dropped
  Nobody

ASSUME AgentAssumption ==
  /\ RouteOf \in [Requests -> {"process", "test"}]
  /\ ShapeOf \in [Requests -> Shapes \cup {"none"}]
  /\ RetryOf \in [Requests -> Requests \cup {Nobody}]
  /\ TestsContract \subseteq Requests
  /\ {r \in Requests : RouteOf[r] = "test"} \subseteq TestsContract
  /\ AuthOf \in [Requests -> Auths]
  /\ Sound \subseteq Auths /\ Funded \subseteq Auths
  /\ ValidAfter \in [Auths -> Nat] /\ ValidBefore \in [Auths -> Nat]
  /\ Envs \subseteq [mode : {"unset", "direct", "facilitator"}, url : {"unset", "own", "other"},
                     key : BOOLEAN, owner : BOOLEAN, ai : BOOLEAN, gate : {"mock", "own", "other"},
                     demo : BOOLEAN]
  /\ MaxClock \in Nat
  /\ RpcMayFail \subseteq Requests /\ ModelMayFail \subseteq Requests
  /\ MayDrop \in BOOLEAN
  /\ Nobody \notin Requests

VARIABLES
  env,         \* the environment, which never changes
  clock,
  at,          \* at[r]: what r's handler does next
  nonce,       \* nonce[r]: the nonce r's next transaction was signed with
  waits,       \* waits[r]: the stage of r's transaction
  answer,      \* answer[r]: what r was answered
  worked,      \* the requests whose work is done
  reported,    \* reported[r]: the steps of the contract test reported successful
  pool,        \* the account's transactions that are not mined
  mined,       \* those that were mined and did what they say
  reverted,    \* those that were mined and reverted
  chargedBy,   \* chargedBy[a]: the request whose settlement used a up
  lost,        \* history: requests that lost sight of their settlement
  dropped      \* history: transactions that were dropped

walletVars == <<pool, mined, reverted, chargedBy, dropped>>
vars == <<env, clock, at, nonce, waits, answer, worked, reported, lost, walletVars>>

TestSteps == {"requestPayment", "authorizeSwap"}
Sends == TestSteps \cup {"settle"}
Txs == [by : Requests, what : Sends, nonce : Nat]
Answers == {"none", "paid", "done", "paymentFailed", "paymentRequired", "rejected",
            "unavailable", "error"}

TypeOK ==
  /\ env \in Envs
  /\ clock \in 0..MaxClock
  /\ at \in [Requests -> Sends \cup {"idle", "gate", "verify", "work", "facilitatorAnswer", "done"}]
  /\ nonce \in [Requests -> Nat]
  /\ waits \in [Requests -> {"no", "signed", "sent"}]
  /\ answer \in [Requests -> Answers]
  /\ worked \subseteq Requests
  /\ reported \in [Requests -> SUBSET TestSteps]
  /\ pool \subseteq Txs /\ mined \subseteq Txs /\ reverted \subseteq Txs /\ dropped \subseteq Txs
  /\ chargedBy \in [Auths -> Requests \cup {Nobody}]
  /\ lost \subseteq Requests

\* SETTLEMENT_MODE decides, then FACILITATOR_URL, then PRIVATE_KEY.
SettlementMode(e) ==
  IF e.mode # "unset" THEN e.mode
  ELSE IF e.url = "unset" /\ e.key THEN "direct" ELSE "facilitator"

\* The process exits when direct settlement has no key.
Boots(e) == SettlementMode(e) = "direct" => e.key

\* Without a URL the executor asks x402.org.
Executor(e) ==
  IF SettlementMode(e) = "direct" THEN "direct"
  ELSE IF e.url = "own" THEN "own" ELSE "other"

Init ==
  /\ env \in {e \in Envs : Boots(e)}
  /\ clock = 0
  /\ at = [r \in Requests |-> "idle"]
  /\ nonce = [r \in Requests |-> 0]
  /\ waits = [r \in Requests |-> "no"]
  /\ answer = [r \in Requests |-> "none"]
  /\ worked = {}
  /\ reported = [r \in Requests |-> {}]
  /\ pool = {} /\ mined = {} /\ reverted = {} /\ dropped = {}
  /\ chargedBy = [a \in Auths |-> Nobody]
  /\ lost = {}

-----------------------------------------------------------------------------
Moves(r, from, to) == at[r] = from /\ at' = [at EXCEPT ![r] = to]

Ends(r, from, reply) ==
  /\ Moves(r, from, "done")
  /\ answer' = [answer EXCEPT ![r] = reply]

\* The controller takes a payload only from a proof with authorization and signature.
HasPayload(r) == ShapeOf[r] = IF RouteOf[r] = "process" THEN "executor" ELSE "nested"

\* The screen ContractTest posts without a header, and again with the demo token when
\* that is answered 402.
Posted(r) == RetryOf[r] # Nobody => answer[RetryOf[r]] = "paymentRequired"

\* What it shows once its second post is answered.
Screen(r) ==
  CASE answer[r] = "none"           -> "testing"
    [] answer[r] \in {"done", "paid"} -> "completed"
    [] OTHER                        -> "failed"

\* The handler up to the first call it awaits.
Receive(r) ==
  /\ Posted(r)
  /\ IF RouteOf[r] = "process"
     THEN IF ~env.ai THEN Ends(r, "idle", "unavailable")
          ELSE IF ~HasPayload(r) THEN Ends(r, "idle", "paymentRequired")
          ELSE Moves(r, "idle", "verify") /\ UNCHANGED answer
     ELSE IF ShapeOf[r] = "none" THEN Ends(r, "idle", "paymentRequired")
                                 ELSE Moves(r, "idle", "gate") /\ UNCHANGED answer
  /\ UNCHANGED <<env, clock, nonce, waits, worked, reported, lost, walletVars>>

\* x402Protect("contract_test"), and testContract up to the first call it awaits.
Gate(r) ==
  /\ \E passes \in HeaderAnswers(env.gate, env.demo,
                                 [shape |-> ShapeOf[r], amount |-> 1], "contract_test") :
        CASE ~passes       -> Ends(r, "gate", "rejected")
          [] passes /\ ~env.ai -> Ends(r, "gate", "unavailable")
          [] OTHER -> /\ Moves(r, "gate", IF HasPayload(r) THEN "verify" ELSE "work")
                      /\ UNCHANGED answer
  /\ UNCHANGED <<env, clock, nonce, waits, worked, reported, lost, walletVars>>

VerifyPaymentLocally(a) ==
  a \in Sound /\ ValidAfter[a] <= clock /\ clock < ValidBefore[a]

\* The executor's requirements name SERVICE_URL as the resource.  Another facilitator
\* checks what the executor would, and any failure of the call is a refusal.
Verdicts(r) ==
  CASE Executor(env) = "direct" -> {VerifyPaymentLocally(AuthOf[r])}
    [] Executor(env) = "own" ->
         {ExecutorAccepts(VerifyFields([shape |-> "executor", amount |-> 1], "SERVICE_URL"))}
    [] OTHER -> {VerifyPaymentLocally(AuthOf[r])} \cup (IF r \in RpcMayFail THEN {FALSE} ELSE {})

\* Mutant: the payment is settled before the work is done.
BugVerifyThenSettle(r) ==
  /\ \E valid \in Verdicts(r) :
        IF valid THEN Moves(r, "verify", "settle") /\ UNCHANGED answer
                 ELSE Ends(r, "verify", "rejected")
  /\ UNCHANGED <<env, clock, nonce, waits, worked, reported, lost, walletVars>>

Verify(r) ==
  /\ \E valid \in Verdicts(r) :
        IF valid THEN Moves(r, "verify", "work") /\ UNCHANGED answer
                 ELSE Ends(r, "verify", "rejected")
  /\ UNCHANGED <<env, clock, nonce, waits, worked, reported, lost, walletVars>>

\* The model is asked; when the call fails execute throws and the route answers 500.
AskModel(r) ==
  /\ r \notin TestsContract
  /\ \/ Moves(r, "work", "settle") /\ worked' = worked \cup {r} /\ UNCHANGED answer
     \/ r \in ModelMayFail /\ Ends(r, "work", "error") /\ UNCHANGED worked
  /\ UNCHANGED <<env, clock, nonce, waits, reported, lost, walletVars>>

\* Mutant: the steps run without being awaited.
BugTestNotAwaited(r) ==
  /\ r \in TestsContract
  /\ IF env.key THEN Moves(r, "work", "settle") /\ UNCHANGED answer
                ELSE Ends(r, "work", "error")
  /\ UNCHANGED <<env, clock, nonce, waits, worked, reported, lost, walletVars>>

\* executeContractTest: without a key getTreasuryContract throws.  The steps that only
\* read are left out.
StartContractTest(r) ==
  /\ r \in TestsContract
  /\ IF env.key THEN Moves(r, "work", "requestPayment") /\ UNCHANGED answer
                ELSE Ends(r, "work", "error")
  /\ UNCHANGED <<env, clock, nonce, waits, worked, reported, lost, walletVars>>

-----------------------------------------------------------------------------
(* One transaction of a handler, from contract.method(...) to tx.wait().    *)

Height == Cardinality(mined \cup reverted)

NonceIsFree(n) == n >= Height /\ \A t \in pool : t.nonce # n

\* getTransactionCount("pending"): the first nonce that is neither mined nor pending.
IsPendingCount(n) == NonceIsFree(n) /\ \A k \in Height..(n - 1) : ~NonceIsFree(k)

TokenAccepts(a) ==
  /\ a \in Sound \cap Funded
  /\ chargedBy[a] = Nobody
  /\ ValidAfter[a] < clock /\ clock < ValidBefore[a]

SendsOnChain(r) ==
  at[r] \in TestSteps \/ (at[r] = "settle" /\ HasPayload(r) /\ Executor(env) = "direct")

\* What follows a test step that is over, and an answer that follows the settlement.
AfterStep(r) ==
  IF at[r] = "requestPayment"
  THEN Moves(r, "requestPayment", "authorizeSwap") /\ UNCHANGED worked
  ELSE Moves(r, "authorizeSwap", "settle") /\ worked' = worked \cup {r}

\* Mutant: the settlement is pushed to the results of the contract test.
BugReportsSettlement(r) ==
  /\ waits' = [waits EXCEPT ![r] = "no"]
  /\ IF at[r] = "settle" THEN Ends(r, "settle", "paid") /\ UNCHANGED worked
                         ELSE AfterStep(r) /\ UNCHANGED answer
  /\ reported' = [reported EXCEPT ![r] = @ \cup {at[r]}]
  /\ UNCHANGED <<env, clock, nonce, lost, walletVars>>

StepSucceeds(r) ==
  /\ waits' = [waits EXCEPT ![r] = "no"]
  /\ IF at[r] = "settle"
     THEN Ends(r, "settle", "paid") /\ UNCHANGED <<worked, reported>>
     ELSE /\ AfterStep(r)
          /\ reported' = [reported EXCEPT ![r] = @ \cup {at[r]}]
          /\ UNCHANGED answer
  /\ UNCHANGED <<env, clock, nonce, lost, walletVars>>

\* The test route answers 200 whatever became of the settlement.
Unsettled(r) == IF RouteOf[r] = "process" THEN "paymentFailed" ELSE "done"

\* The step's catch: it is reported failed and the next one follows.
StepFails(r) ==
  /\ waits' = [waits EXCEPT ![r] = "no"]
  /\ IF at[r] = "settle"
     THEN Ends(r, "settle", Unsettled(r)) /\ UNCHANGED worked
     ELSE AfterStep(r) /\ UNCHANGED answer
  /\ UNCHANGED <<env, clock, nonce, reported>>

\* Gas is estimated by running the call; authorizeSwap is onlyOwner.
Simulates(r) ==
  /\ at[r] = "settle" => TokenAccepts(AuthOf[r])
  /\ at[r] = "authorizeSwap" => env.owner

\* The transaction is populated: gas is estimated and the nonce is read.
SignTx(r) ==
  /\ SendsOnChain(r)
  /\ waits[r] = "no"
  /\ \/ /\ Simulates(r)
        /\ \E n \in Height..(Height + Cardinality(pool)) :
              IsPendingCount(n) /\ nonce' = [nonce EXCEPT ![r] = n]
        /\ waits' = [waits EXCEPT ![r] = "signed"]
        /\ UNCHANGED <<env, clock, at, answer, worked, reported, lost, walletVars>>
     \/ /\ ~Simulates(r) \/ r \in RpcMayFail
        /\ StepFails(r)
        /\ UNCHANGED <<lost, walletVars>>

SignedTx(r) == [by |-> r, what |-> at[r], nonce |-> nonce[r]]

\* The node refuses a nonce that is taken.  The call may fail with the transaction sent.
Broadcast(r) ==
  /\ waits[r] = "signed"
  /\ \/ /\ NonceIsFree(nonce[r])
        /\ pool' = pool \cup {SignedTx(r)}
        /\ UNCHANGED <<mined, reverted, chargedBy, dropped>>
        /\ \/ /\ waits' = [waits EXCEPT ![r] = "sent"]
              /\ UNCHANGED <<env, clock, at, nonce, answer, worked, reported, lost>>
           \/ /\ r \in RpcMayFail
              /\ StepFails(r)
              /\ lost' = IF at[r] = "settle" THEN lost \cup {r} ELSE lost
     \/ /\ ~NonceIsFree(nonce[r]) \/ r \in RpcMayFail
        /\ StepFails(r)
        /\ UNCHANGED <<lost, walletVars>>

\* Mutant: the step is over when its transaction is sent.
BugReceiptNotAwaited(r) == waits[r] = "sent" /\ StepSucceeds(r)

\* Mutant: the receipt's status, a number, is compared with a boolean.
BugReceiptMisread(r) ==
  /\ waits[r] = "sent"
  /\ SignedTx(r) \in mined \cup reverted
  /\ StepFails(r)
  /\ UNCHANGED <<lost, walletVars>>

\* Mutant: a receipt is taken for missing when the transaction reverted.
BugRevertIgnored(r) ==
  waits[r] = "sent" /\ SignedTx(r) \in mined /\ StepSucceeds(r)

\* tx.wait() throws when the transaction reverted.
Receipt(r) ==
  /\ waits[r] = "sent"
  /\ \/ SignedTx(r) \in mined /\ StepSucceeds(r)
     \/ SignedTx(r) \in reverted /\ StepFails(r) /\ UNCHANGED <<lost, walletVars>>

\* tx.wait() throws because the node cannot be reached; the transaction goes its way.
ReceiptLost(r) ==
  /\ r \in RpcMayFail
  /\ waits[r] = "sent"
  /\ lost' = IF at[r] = "settle" THEN lost \cup {r} ELSE lost
  /\ StepFails(r)
  /\ UNCHANGED walletVars

\* Transactions of an account are mined in the order of their nonces.
Mine(t) ==
  /\ t \in pool
  /\ t.nonce = Height
  /\ pool' = pool \ {t}
  /\ IF t.what = "settle" /\ ~TokenAccepts(AuthOf[t.by])
     THEN reverted' = reverted \cup {t} /\ UNCHANGED <<mined, chargedBy>>
     ELSE /\ mined' = mined \cup {t}
          /\ UNCHANGED reverted
          /\ IF t.what = "settle" THEN chargedBy' = [chargedBy EXCEPT ![AuthOf[t.by]] = t.by]
                                  ELSE UNCHANGED chargedBy
  /\ UNCHANGED <<env, clock, at, nonce, waits, answer, worked, reported, lost, dropped>>

Drop(t) ==
  /\ MayDrop
  /\ t \in pool
  /\ pool' = pool \ {t}
  /\ dropped' = dropped \cup {t}
  /\ UNCHANGED <<env, clock, at, nonce, waits, answer, worked, reported, mined, reverted,
                 chargedBy, lost>>

-----------------------------------------------------------------------------
\* Nothing was submitted to settle: only the test route gets here.
AnswerUnpaid(r) ==
  /\ ~HasPayload(r)
  /\ Ends(r, "settle", "done")
  /\ UNCHANGED <<env, clock, nonce, waits, worked, reported, lost, walletVars>>

\* POST /settle of another facilitator, which sends the transfer from its own account.
FacilitatorSettles(r) ==
  /\ HasPayload(r) /\ Executor(env) = "other"
  /\ \/ /\ TokenAccepts(AuthOf[r])
        /\ Moves(r, "settle", "facilitatorAnswer")
        /\ chargedBy' = [chargedBy EXCEPT ![AuthOf[r]] = r]
        /\ UNCHANGED answer
     \/ /\ ~TokenAccepts(AuthOf[r]) \/ r \in RpcMayFail
        /\ Ends(r, "settle", Unsettled(r))
        /\ UNCHANGED chargedBy
  /\ UNCHANGED <<env, clock, nonce, waits, worked, reported, pool, mined, reverted, lost, dropped>>

\* Its answer, which may get lost.
FacilitatorAnswer(r) ==
  /\ \/ Ends(r, "facilitatorAnswer", "paid") /\ UNCHANGED lost
     \/ /\ r \in RpcMayFail
        /\ Ends(r, "facilitatorAnswer", Unsettled(r))
        /\ lost' = lost \cup {r}
  /\ UNCHANGED <<env, clock, nonce, waits, worked, reported, walletVars>>

Tick ==
  /\ clock < MaxClock
  /\ clock' = clock + 1
  /\ UNCHANGED <<env, at, nonce, waits, answer, worked, reported, lost, walletVars>>

\* What the handler of an accepted request does.
Handle(r) ==
  \/ Gate(r) \/ Verify(r) \/ AskModel(r) \/ StartContractTest(r)
  \/ SignTx(r) \/ Broadcast(r) \/ Receipt(r)
  \/ AnswerUnpaid(r) \/ FacilitatorSettles(r) \/ FacilitatorAnswer(r)

Next ==
  \/ \E r \in Requests : Receive(r) \/ Handle(r) \/ ReceiptLost(r)
  \/ \E t \in pool : Mine(t) \/ Drop(t)
  \/ Tick

Spec == Init /\ [][Next]_vars

\* Handlers run, and a block takes the next transaction.
FairSpec == Spec /\ (\A r \in Requests : WF_vars(Handle(r))) /\ WF_vars(\E t \in pool : Mine(t))

-----------------------------------------------------------------------------
answered == [r \in Requests |-> CASE answer[r] = "none" -> "none"
                                  [] answer[r] = "paid" -> "paid"
                                  [] OTHER              -> "unpaid"]

Paid == INSTANCE PaidService

(***************************************************************************)
(* The agent is a paid service: whatever interleaves, expires, reverts or  *)
(* gets lost, nobody is charged for work that was not done, an             *)
(* authorization two requests bring is charged once, and of the two only   *)
(* the one whose own transfer went through is answered success.            *)
(***************************************************************************)
ImplementsPaidService == Paid!Spec

(***************************************************************************)
(* A payer who was charged is told that the payment failed only when the   *)
(* request lost sight of its settlement: neither a second request with the *)
(* same authorization nor another handler's transaction taking its nonce   *)
(* leads to that.                                                          *)
(***************************************************************************)
ChargedIsTold ==
  \A r \in Requests :
     chargedBy[AuthOf[r]] = r /\ answer[r] # "none" => answer[r] = "paid" \/ r \in lost

(***************************************************************************)
(* A step the contract test reports successful was done by a transaction   *)
(* of that test, though concurrent handlers send from the same account and *)
(* may sign with the same nonce.                                           *)
(***************************************************************************)
ReportedStepsMined ==
  \A r \in Requests : \A step \in reported[r] :
     \E t \in mined : t.by = r /\ t.what = step

(***************************************************************************)
(* The screen shows a test completed only when the agent has carried it    *)
(* out for that very post, whatever the posts of others did meanwhile and  *)
(* though the route answers 200 when nothing was settled.                  *)
(***************************************************************************)
CompletedTestsRan ==
  \A r \in Requests : RetryOf[r] # Nobody /\ Screen(r) = "completed" => r \in worked

(***************************************************************************)
(* Every accepted request is answered, unless a transaction of the account *)
(* was dropped: tx.wait() has no time limit, and nothing else can keep a   *)
(* handler waiting.                                                        *)
(***************************************************************************)
EveryRequestAnswered ==
  \A r \in Requests : at[r] # "idle" ~> at[r] = "done" \/ dropped # {}

(***************************************************************************)
(* "Compatible with MerchantExecutor" (docs/FACILITATOR_README.md) and     *)
(* "Verify payment endpoint (for MerchantExecutor compatibility)"          *)
(* (facilitatorServer.ts): an executor that asks this facilitator does not *)
(* refuse a payment that meets its requirements.                           *)
(***************************************************************************)
SoundPaymentsAccepted ==
  \A r \in Requests :
     /\ RouteOf[r] = "process" /\ AuthOf[r] \in Sound
     /\ \A now \in 0..MaxClock : ValidAfter[AuthOf[r]] <= now /\ now < ValidBefore[AuthOf[r]]
     => answer[r] # "rejected"
=============================================================================
