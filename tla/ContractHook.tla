---------------------------- MODULE ContractHook ----------------------------
(***************************************************************************)
(* services/contractHook.ts with services/treasuryClient.ts: requesting    *)
(* and executing the payments of a payroll on chain and recording the      *)
(* result in the database.                                                 *)
(*                                                                         *)
(* Every await of the code ends an action: a database write, a contract    *)
(* call and the wait for its receipt are separate steps between which the  *)
(* jobs of other requests run.  A payroll is handled by one job, the HTTP  *)
(* request that created it, so jobs are named by their payrolls.           *)
(***************************************************************************)
EXTENDS Treasury, FiniteSets, Functions

CONSTANTS
  Payrolls,         \* the requests (and the Payroll rows they create)
  Payments,         \* OutboundPayment rows
  PayrollOf,        \* PayrollOf[p]: payment p's payrollId
  AmountOf,         \* AmountOf[p]: p's amount, in units of the stablecoin
  RecipientOf,      \* RecipientOf[p]: what p's recipient is, see Recipients
  USDC,             \* networkConfig.stablecoins.usdc, the currency of all payments
  NoPayment,        \* no payment is being processed
  DbMayFail,        \* the jobs whose database calls may throw
  ReceiptsMayBeLost,\* the jobs that may lose a mined transaction's receipt, or Rail's answer
  TxMayDrop         \* the jobs whose transactions may be dropped before they are mined

PaymentsOf(r) == {p \in Payments : PayrollOf[p] = r}

\* A recipient is a chain address, a string ethers cannot resolve to one, or absent.
Recipients == {"address", "unresolvable", "absent"}

ASSUME HookAssumption ==
  /\ PayrollOf \in [Payments -> Payrolls]
  /\ AmountOf \in [Payments -> Nat]
  /\ RecipientOf \in [Payments -> Recipients]
  /\ USDC \in Tokens
  /\ NoPayment \notin Payments
  /\ DbMayFail \subseteq Payrolls
  /\ ReceiptsMayBeLost \subseteq Payrolls
  /\ TxMayDrop \subseteq Payrolls
  /\ \A r \in Payrolls : IsFiniteSet(PaymentsOf(r))

VARIABLES
  payrollStatus,  \* Payroll.status, "none" before the row exists
  paymentStatus,  \* OutboundPayment.status, "none" before the row exists
  txHash,         \* OutboundPayment.txHash: which kind of transaction it names
  transfers,      \* transactions that emitted PaymentExecuted for the payment
  refusals,       \* transactions that emitted PaymentFailed for the payment
  contended,      \* history: payrolls in their loop when somebody else took stablecoin
  pc,             \* where the payroll's job is
  todo,           \* payments its loop has still to visit
  cur,            \* the payment whose transaction it is waiting for or recording
  hashes,         \* transactionHashes: payments the current call pushed a hash for
  outcome         \* the payrollStatus executePayrollPayments has computed

hookVars ==
  <<payrollStatus, paymentStatus, txHash, transfers, refusals, contended, pc, todo, cur, hashes,
    outcome>>
dbVars == <<payrollStatus, paymentStatus, txHash>>
chainVars == <<treasuryVars, transfers, refusals, contended>>

PayrollStatuses ==
  {"PENDING", "ONCHAIN_REQUESTED", "ONCHAIN_PAID", "PARTIALLY_PAID",
   "RAIL_PROCESSING", "PAID", "FAILED"}
PaymentStatuses == PayrollStatuses \ {"PARTIALLY_PAID"}

\* The loop of executePayrollPayments, past its balance check.
Executing == {"executeLoop", "executeRecord", "executeFail"}

\* Control points inside requestPayrollPayments and executePayrollPayments; "hung" is
\* the wait for a transaction that will not be mined.
HookLabels ==
  {"request", "requestLoop", "requestRecord", "requested", "requestThrew",
   "execute", "executeBalance", "executeSet", "executed", "executeThrew", "hung"}
  \cup Executing

HookInit ==
  /\ payrollStatus = [r \in Payrolls |-> "none"]
  /\ paymentStatus = [p \in Payments |-> "none"]
  /\ txHash = [p \in Payments |-> "none"]
  /\ transfers = [p \in Payments |-> 0]
  /\ refusals = [p \in Payments |-> 0]
  /\ contended = {}
  /\ todo = [r \in Payrolls |-> {}]
  /\ cur = [r \in Payrolls |-> NoPayment]
  /\ hashes = [r \in Payrolls |-> {}]
  /\ outcome = [r \in Payrolls |-> "none"]

-----------------------------------------------------------------------------
\* The job of r moves from one label to another.
Goto(r, from, to) == pc[r] = from /\ pc' = [pc EXCEPT ![r] = to]

\* The two writes the services make to a payroll's rows.
SetPayroll(r, status) == payrollStatus' = [payrollStatus EXCEPT ![r] = status]
SetAllPayments(r, status) ==
  paymentStatus' = [p \in Payments |-> IF PayrollOf[p] = r THEN status ELSE paymentStatus[p]]

\* The read both functions start with; the array of hashes starts empty.
ReadPayroll(r) ==
  /\ todo' = [todo EXCEPT ![r] = PaymentsOf(r)]
  /\ hashes' = [hashes EXCEPT ![r] = {}]

Visited(r, p) == todo' = [todo EXCEPT ![r] = @ \ {p}]

\* A step that takes stablecoin takes it from under the loops of `jobs`.
Contends(jobs) ==
  contended' = contended \cup
    {r \in jobs : pc[r] \in Executing /\ balance'[USDC] < balance[USDC]}

\* treasuryClient.ts waits for a submitted transaction without a time limit: when it is
\* dropped the wait, and the job, never come back.
TransactionDropped(r, p) ==
  /\ r \in TxMayDrop
  /\ p \in todo[r] /\ RecipientOf[p] = "address"
  /\ \E loop \in {"requestLoop", "executeLoop"} : Goto(r, loop, "hung")
  /\ UNCHANGED <<dbVars, chainVars, todo, cur, hashes, outcome>>

-----------------------------------------------------------------------------
(* requestPayrollPayments *)

RequestRead(r) ==
  /\ \/ Goto(r, "request", "requestLoop") /\ ReadPayroll(r)
     \/ r \in DbMayFail /\ Goto(r, "request", "requestThrew") /\ UNCHANGED <<todo, hashes>>
  /\ UNCHANGED <<dbVars, chainVars, cur, outcome>>

\* A payment whose call throws is passed over.  (A payment without a recipient is too,
\* but no caller gets here with one: the process route skips both functions then.)
RequestSkip(r, p) ==
  /\ pc[r] = "requestLoop" /\ p \in todo[r]
  /\ Visited(r, p)
  /\ UNCHANGED <<dbVars, chainVars, pc, cur, hashes, outcome>>

\* requestPayment only emits an event: a mined request changes nothing on chain.
RequestMined(r, p) ==
  /\ p \in todo[r] /\ RecipientOf[p] = "address"
  /\ Goto(r, "requestLoop", "requestRecord")
  /\ Visited(r, p)
  /\ cur' = [cur EXCEPT ![r] = p]
  /\ hashes' = [hashes EXCEPT ![r] = @ \cup {p}]
  /\ UNCHANGED <<dbVars, chainVars, outcome>>

\* The loop's catch swallows a failed update too.
RequestRecord(r) ==
  /\ Goto(r, "requestRecord", "requestLoop")
  /\ \/ /\ paymentStatus' = [paymentStatus EXCEPT ![cur[r]] = "ONCHAIN_REQUESTED"]
        /\ txHash' = [txHash EXCEPT ![cur[r]] = "request"]
     \/ r \in DbMayFail /\ UNCHANGED <<paymentStatus, txHash>>
  /\ cur' = [cur EXCEPT ![r] = NoPayment]
  /\ UNCHANGED <<payrollStatus, chainVars, todo, hashes, outcome>>

\* The payroll is marked however many requests were made.
RequestFinish(r) ==
  /\ todo[r] = {}
  /\ \/ Goto(r, "requestLoop", "requested") /\ SetPayroll(r, "ONCHAIN_REQUESTED")
     \/ r \in DbMayFail /\ Goto(r, "requestLoop", "requestThrew") /\ UNCHANGED payrollStatus
  /\ UNCHANGED <<paymentStatus, txHash, chainVars, todo, cur, hashes, outcome>>

-----------------------------------------------------------------------------
(* executePayrollPayments *)

ExecuteRead(r) ==
  /\ \/ Goto(r, "execute", "executeBalance") /\ ReadPayroll(r)
     \/ r \in DbMayFail /\ Goto(r, "execute", "executeThrew") /\ UNCHANGED <<todo, hashes>>
  /\ UNCHANGED <<dbVars, chainVars, cur, outcome>>

TotalOf(r) == SumFunctionOnSet(AmountOf, PaymentsOf(r))

\* Mutant: the balance is not compared with what the payments need.
BugCheckSkipped(r) ==
  /\ \E to \in {"executeLoop", "executeThrew"} : Goto(r, "executeBalance", to)
  /\ UNCHANGED <<dbVars, chainVars, todo, cur, hashes, outcome>>

\* getTreasuryBalance and owner(): either call may throw, and so does a low balance.
ExecuteCheckBalance(r) ==
  /\ \/ balance[USDC] >= TotalOf(r) /\ Goto(r, "executeBalance", "executeLoop")
     \/ Goto(r, "executeBalance", "executeThrew")
  /\ UNCHANGED <<dbVars, chainVars, todo, cur, hashes, outcome>>

\* Mutant: the payment whose call threw is tried again.
BugRetryThrown(r, p) ==
  /\ p \in todo[r]
  /\ Goto(r, "executeLoop", "executeFail")
  /\ cur' = [cur EXCEPT ![r] = p]
  /\ UNCHANGED <<dbVars, chainVars, todo, hashes, outcome>>

\* The call throws before anything is mined, or the transaction reverts.
ExecuteThrows(r, p) ==
  /\ p \in todo[r]
  /\ Goto(r, "executeLoop", "executeFail")
  /\ Visited(r, p)
  /\ cur' = [cur EXCEPT ![r] = p]
  /\ UNCHANGED <<dbVars, chainVars, hashes, outcome>>

\* What the mined transaction emitted is not looked at: any receipt gives a hash.
ExecuteMined(r, p) ==
  /\ p \in todo[r] /\ RecipientOf[p] = "address"
  /\ \E event \in PaymentEvents :
        /\ ExecutePayment(USDC, AmountOf[p], event)
        /\ IF event = "PaymentExecuted"
           THEN transfers' = [transfers EXCEPT ![p] = @ + 1] /\ UNCHANGED refusals
           ELSE refusals' = [refusals EXCEPT ![p] = @ + 1] /\ UNCHANGED transfers
  /\ Contends(Payrolls \ {r})
  /\ \/ /\ Goto(r, "executeLoop", "executeRecord")
        /\ hashes' = [hashes EXCEPT ![r] = @ \cup {p}]
     \/ /\ r \in ReceiptsMayBeLost
        /\ Goto(r, "executeLoop", "executeFail")
        /\ UNCHANGED hashes
  /\ Visited(r, p)
  /\ cur' = [cur EXCEPT ![r] = p]
  /\ UNCHANGED <<dbVars, outcome>>

ExecuteRecord(r) ==
  /\ \/ /\ Goto(r, "executeRecord", "executeLoop")
        /\ paymentStatus' = [paymentStatus EXCEPT ![cur[r]] = "ONCHAIN_PAID"]
        /\ txHash' = [txHash EXCEPT ![cur[r]] = "execute"]
        /\ cur' = [cur EXCEPT ![r] = NoPayment]
     \/ r \in DbMayFail /\ Goto(r, "executeRecord", "executeFail") /\ UNCHANGED <<dbVars, cur>>
  /\ UNCHANGED <<payrollStatus, chainVars, todo, hashes, outcome>>

\* Mutant: a failed payment goes back to the loop.
BugRetryFailed(r) ==
  /\ Goto(r, "executeFail", "executeLoop")
  /\ paymentStatus' = [paymentStatus EXCEPT ![cur[r]] = "FAILED"]
  /\ todo' = [todo EXCEPT ![r] = @ \cup {cur[r]}]
  /\ cur' = [cur EXCEPT ![r] = NoPayment]
  /\ UNCHANGED <<payrollStatus, txHash, chainVars, hashes, outcome>>

\* The update in the catch block is not itself caught: it ends the whole call.
ExecuteFail(r) ==
  /\ \/ /\ Goto(r, "executeFail", "executeLoop")
        /\ paymentStatus' = [paymentStatus EXCEPT ![cur[r]] = "FAILED"]
     \/ r \in DbMayFail /\ Goto(r, "executeFail", "executeThrew") /\ UNCHANGED paymentStatus
  /\ cur' = [cur EXCEPT ![r] = NoPayment]
  /\ UNCHANGED <<payrollStatus, txHash, chainVars, todo, hashes, outcome>>

\* The status the re-read payments give; PARTIALLY_PAID needs a payment that is both.
ExecutionOutcome(r) ==
  LET statuses == {paymentStatus[p] : p \in PaymentsOf(r)}
  IN  CASE "FAILED" \notin statuses -> "ONCHAIN_PAID"
        [] "FAILED" \in statuses /\ statuses \subseteq {"ONCHAIN_PAID"} -> "PARTIALLY_PAID"
        [] OTHER -> "FAILED"

ExecuteReread(r) ==
  /\ \/ /\ todo[r] = {}
        /\ Goto(r, "executeLoop", "executeSet")
        /\ outcome' = [outcome EXCEPT ![r] = ExecutionOutcome(r)]
     \/ /\ todo[r] = {} /\ r \in DbMayFail
        /\ Goto(r, "executeLoop", "executeThrew")
        /\ UNCHANGED outcome
  /\ UNCHANGED <<dbVars, chainVars, todo, cur, hashes>>

ExecuteFinish(r) ==
  /\ \/ Goto(r, "executeSet", "executed") /\ SetPayroll(r, outcome[r])
     \/ r \in DbMayFail /\ Goto(r, "executeSet", "executeThrew") /\ UNCHANGED payrollStatus
  /\ UNCHANGED <<paymentStatus, txHash, chainVars, todo, cur, hashes, outcome>>

HookStep(r) ==
  \/ RequestRead(r) \/ RequestRecord(r) \/ RequestFinish(r)
  \/ ExecuteRead(r) \/ ExecuteCheckBalance(r) \/ ExecuteRecord(r) \/ ExecuteFail(r)
  \/ ExecuteReread(r) \/ ExecuteFinish(r)
  \/ \E p \in Payments :
        \/ RequestSkip(r, p) \/ RequestMined(r, p) \/ TransactionDropped(r, p)
        \/ ExecuteThrows(r, p) \/ ExecuteMined(r, p)
=============================================================================
