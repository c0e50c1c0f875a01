---------------------------- MODULE PayrollFlow -----------------------------
(***************************************************************************)
(* The two routes that disburse money, each around the calls of            *)
(* ContractHook:                                                           *)
(*   "demo"     POST /api/payroll/execute, executePayrollDemo;             *)
(*   "process"  POST /api/payment/process, for a payroll of one payment.   *)
(* Several requests run at once in one Node process: they share the        *)
(* treasury, with everybody else who calls its contract, and the database, *)
(* and a crash of the process ends them all.                               *)
(* Nothing resumes a request, and nothing else writes these rows: the      *)
(* event listener of contractHook.ts is never started.                     *)
(***************************************************************************)
EXTENDS ContractHook

CONSTANTS
  Route,           \* Route[r] \in {"demo", "process"}
  RailMock,        \* createRailPayment falls back to createMockRailPayment
  RailConfigured,  \* a Rail source account and counterparty are known
  MayCrash         \* the backend process may crash

ASSUME FlowAssumption ==
  /\ Route \in [Payrolls -> {"demo", "process"}]
  /\ RailMock \in BOOLEAN
  /\ RailConfigured \in BOOLEAN
  /\ MayCrash \in BOOLEAN
  \* DEMO_PAYMENTS gives every payment a recipient; the route builds one payment
  /\ \A r \in Payrolls :
        IF Route[r] = "demo"
        THEN /\ PaymentsOf(r) # {}
             /\ \A p \in PaymentsOf(r) : RecipientOf[p] # "absent"
        ELSE \E p \in Payments : PaymentsOf(r) = {p}

VARIABLES
  steps,       \* steps[r]: the flags the job keeps (onchainSuccess is .executed)
  rail,        \* Rail's side: the withdrawal created for the payroll
  railResult,  \* the status createRailPayment returned to the job
  reply        \* what the client was answered

flowVars == <<steps, rail, railResult, reply>>
vars == <<treasuryVars, hookVars, flowVars>>

FlowLabels ==
  {"idle", "createPayments", "markPaid", "markPaidPayments", "rail", "railPayments",
   "railCall", "railFinish", "railFinishPayments", "final", "outerCatch", "done", "crashed"}

StepFlags == [requested : BOOLEAN, executed : BOOLEAN, rail : BOOLEAN, errors : BOOLEAN]

NoSteps == [requested |-> FALSE, executed |-> FALSE, rail |-> FALSE, errors |-> FALSE]

RailResults == {"none", "PROCESSING", "PAID", "FAILED"}

TypeOK ==
  /\ TreasuryTypeOK
  /\ payrollStatus \in [Payrolls -> PayrollStatuses \cup {"none"}]
  /\ paymentStatus \in [Payments -> PaymentStatuses \cup {"none"}]
  /\ txHash \in [Payments -> {"none", "request", "execute"}]
  /\ transfers \in [Payments -> Nat]
  /\ refusals \in [Payments -> Nat]
  /\ contended \subseteq Payrolls
  /\ pc \in [Payrolls -> HookLabels \cup FlowLabels]
  /\ todo \in [Payrolls -> SUBSET Payments]
  /\ cur \in [Payrolls -> Payments \cup {NoPayment}]
  /\ hashes \in [Payrolls -> SUBSET Payments]
  /\ outcome \in [Payrolls -> {"none", "ONCHAIN_PAID", "PARTIALLY_PAID", "FAILED"}]
  /\ steps \in [Payrolls -> StepFlags]
  /\ rail \in [Payrolls -> {"none", "open", "completed", "failed"}]
  /\ railResult \in [Payrolls -> RailResults]
  /\ reply \in [Payrolls -> {"none", "success", "failure", "error"}]

Init ==
  /\ TreasuryInit
  /\ HookInit
  /\ pc = [r \in Payrolls |-> "idle"]
  /\ steps = [r \in Payrolls |-> NoSteps]
  /\ rail = [r \in Payrolls |-> "none"]
  /\ railResult = [r \in Payrolls |-> "none"]
  /\ reply = [r \in Payrolls |-> "none"]

\* A step of the routes leaves the chain alone, and the locals of ContractHook's two
\* functions, which go out of scope when they return.
FlowOnly == UNCHANGED <<chainVars, todo, cur, hashes, outcome>>
Returned(r) ==
  /\ todo' = [todo EXCEPT ![r] = {}]
  /\ hashes' = [hashes EXCEPT ![r] = {}]
  /\ outcome' = [outcome EXCEPT ![r] = "none"]
  /\ UNCHANGED <<chainVars, cur>>

Answer(r, answer) == reply' = [reply EXCEPT ![r] = answer]

\* The handler ends: it has answered, and its locals are gone.
Ends(r, from, answer) ==
  /\ Goto(r, from, "done")
  /\ Answer(r, answer)
  /\ steps' = [steps EXCEPT ![r] = NoSteps]
  /\ railResult' = [railResult EXCEPT ![r] = "none"]

Errored(r) == steps' = [steps EXCEPT ![r].errors = TRUE]

-----------------------------------------------------------------------------
(* Creating the rows. *)

CreatePayroll(r) ==
  /\ \/ Goto(r, "idle", "createPayments") /\ SetPayroll(r, "PENDING") /\ UNCHANGED reply
     \/ r \in DbMayFail /\ Goto(r, "idle", "done") /\ Answer(r, "error") /\ UNCHANGED payrollStatus
  /\ UNCHANGED <<paymentStatus, txHash, steps, rail, railResult>>
  /\ FlowOnly

\* process skips the contract when its payment has no recipient.
HasRecipient(r) == \E p \in PaymentsOf(r) : RecipientOf[p] # "absent"

CreatePayments(r) ==
  /\ \/ /\ Goto(r, "createPayments", IF HasRecipient(r) THEN "request" ELSE "rail")
        /\ SetAllPayments(r, "PENDING")
        /\ \E checkThrew \in BOOLEAN :  \* step 3, checkTreasuryBalance
              steps' = [steps EXCEPT ![r].errors = checkThrew \/ ~HasRecipient(r)]
        /\ UNCHANGED <<railResult, reply>>
     \/ /\ r \in DbMayFail
        /\ IF Route[r] = "demo"
           THEN Ends(r, "createPayments", "error")
           ELSE Goto(r, "createPayments", "outerCatch") /\ UNCHANGED <<steps, railResult, reply>>
        /\ UNCHANGED paymentStatus
  /\ UNCHANGED <<payrollStatus, txHash, rail>>
  /\ FlowOnly

-----------------------------------------------------------------------------
(* Around the contract calls. *)

AfterRequest(r) ==
  /\ Goto(r, "requested", "execute")
  /\ steps' = [steps EXCEPT ![r].requested = hashes[r] # {},
                            ![r].errors = @ \/ hashes[r] = {}]
  /\ UNCHANGED <<dbVars, rail, railResult, reply>>
  /\ Returned(r)

\* executePayrollDemo rethrows, the process route goes on.
AfterRequestThrew(r) ==
  /\ IF Route[r] = "demo"
     THEN Ends(r, "requestThrew", "error")
     ELSE Goto(r, "requestThrew", "execute") /\ Errored(r) /\ UNCHANGED <<railResult, reply>>
  /\ UNCHANGED <<dbVars, rail>>
  /\ Returned(r)

\* Mutant: onchainSuccess is set once the call has returned.
BugAfterExecute(r) ==
  /\ Goto(r, "executed", IF Route[r] = "demo" THEN "markPaid" ELSE "rail")
  /\ steps' = [steps EXCEPT ![r].executed = TRUE]
  /\ UNCHANGED <<dbVars, rail, railResult, reply>>
  /\ Returned(r)

AfterExecute(r) ==
  /\ Goto(r, "executed",
          IF Route[r] = "demo" /\ hashes[r] # {} THEN "markPaid" ELSE "rail")
  /\ steps' = [steps EXCEPT ![r].executed = hashes[r] # {},
                            ![r].errors = @ \/ hashes[r] = {}]
  /\ UNCHANGED <<dbVars, rail, railResult, reply>>
  /\ Returned(r)

AfterExecuteThrew(r) ==
  /\ Goto(r, "executeThrew", "rail")
  /\ Errored(r)
  /\ UNCHANGED <<dbVars, rail, railResult, reply>>
  /\ Returned(r)

\* One write of the payroll or of all its payments: the job goes on to `ok`, or,
\* when the database throws, to `catch`.
WritePayroll(r, status, from, ok, catch) ==
  /\ \/ Goto(r, from, ok) /\ SetPayroll(r, status) /\ UNCHANGED steps
     \/ r \in DbMayFail /\ Goto(r, from, catch) /\ Errored(r) /\ UNCHANGED payrollStatus
  /\ UNCHANGED <<paymentStatus, txHash, rail, railResult, reply>>
  /\ FlowOnly

WritePayments(r, status, from, ok, catch) ==
  /\ \/ Goto(r, from, ok) /\ SetAllPayments(r, status) /\ UNCHANGED steps
     \/ r \in DbMayFail /\ Goto(r, from, catch) /\ Errored(r) /\ UNCHANGED paymentStatus
  /\ UNCHANGED <<payrollStatus, txHash, rail, railResult, reply>>
  /\ FlowOnly

\* executePayrollDemo marks everything ONCHAIN_PAID if anything gave a hash.
MarkOnchainPaid(r) == WritePayroll(r, "ONCHAIN_PAID", "markPaid", "markPaidPayments", "rail")
MarkOnchainPaidPayments(r) ==
  WritePayments(r, "ONCHAIN_PAID", "markPaidPayments", "rail", "rail")

-----------------------------------------------------------------------------
(* Rail. *)

RailSkipped(r) ==
  /\ Route[r] = "process" /\ ~RailConfigured
  /\ Goto(r, "rail", "final")
  /\ Errored(r)
  /\ UNCHANGED <<dbVars, rail, railResult, reply>>
  /\ FlowOnly

RailStart(r) ==
  /\ IF Route[r] = "demo" THEN steps[r].executed ELSE RailConfigured
  /\ WritePayroll(r, "RAIL_PROCESSING", "rail", "railPayments", "final")

RailStartPayments(r) ==
  WritePayments(r, "RAIL_PROCESSING", "railPayments", "railCall", "final")

\* executePayrollDemo calls Rail whether or not the chain was paid.
RailUnmarked(r) ==
  /\ Route[r] = "demo" /\ ~steps[r].executed
  /\ Goto(r, "rail", "railCall")
  /\ UNCHANGED <<dbVars, flowVars>>
  /\ FlowOnly

\* statusMap, with PENDING counted as PROCESSING: no caller tells them apart.
RailStatus(state) ==
  CASE state = "open" -> "PROCESSING"
    [] state = "completed" -> "PAID"
    [] state = "failed" -> "FAILED"

\* The access token, cached or new, cannot be had or is refused, or the withdrawal is: it
\* is not created.  A token that expired after it was checked is one that is refused.
NoWithdrawal(r) ==
  /\ ~RailMock
  /\ railResult' = [railResult EXCEPT ![r] = "FAILED"]
  /\ UNCHANGED rail

\* Any error is returned as FAILED, also one after Rail accepted the withdrawal.
CreateRailPayment(r) ==
  /\ Goto(r, "railCall", "railFinish")
  /\ \/ /\ RailMock
        /\ railResult' = [railResult EXCEPT ![r] = "PAID"]
        /\ UNCHANGED rail
     \/ NoWithdrawal(r)
     \/ /\ ~RailMock /\ RailConfigured
        /\ \E state \in {"open", "completed", "failed"} :
              /\ rail' = [rail EXCEPT ![r] = state]
              /\ \E answer \in {RailStatus(state)}
                              \cup IF r \in ReceiptsMayBeLost THEN {"FAILED"} ELSE {} :
                    railResult' = [railResult EXCEPT ![r] = answer]
  /\ UNCHANGED <<dbVars, steps, reply>>
  /\ FlowOnly

\* Rail settles an open withdrawal when it likes; it notifies nobody.
RailSettles(r) ==
  /\ rail[r] = "open"
  /\ \E state \in {"completed", "failed"} : rail' = [rail EXCEPT ![r] = state]
  /\ UNCHANGED <<treasuryVars, hookVars, steps, railResult, reply>>

\* Mutant: an open withdrawal counts as paid.
BugFinalStatus(r) ==
  IF railResult[r] # "FAILED" THEN "PAID"
  ELSE IF steps[r].executed THEN "ONCHAIN_PAID" ELSE "FAILED"

\* Mutant: Rail's failure wins over the chain.
BugRailFailureWins(r) ==
  CASE railResult[r] = "PAID" -> "PAID"
    [] railResult[r] = "FAILED" -> "FAILED"
    [] OTHER -> IF steps[r].executed THEN "ONCHAIN_PAID" ELSE "RAIL_PROCESSING"

\* Mutant: whatever is not PAID has failed.
BugOpenIsFailed(r) ==
  IF railResult[r] = "PAID" THEN "PAID"
  ELSE IF steps[r].executed THEN "ONCHAIN_PAID" ELSE "FAILED"

FinalStatus(r) ==
  IF Route[r] = "demo"
  THEN IF ~steps[r].executed THEN "FAILED"
       ELSE IF railResult[r] = "PAID" THEN "PAID" ELSE "ONCHAIN_PAID"
  ELSE IF railResult[r] # "PAID" /\ steps[r].executed THEN "ONCHAIN_PAID"
       ELSE CASE railResult[r] \in {"PAID", "FAILED"} -> railResult[r]
              [] OTHER -> "RAIL_PROCESSING"

RailFinish(r) == WritePayroll(r, FinalStatus(r), "railFinish", "railFinishPayments", "final")

\* Mutant: the payments keep the status they had.
BugFinishPayrollOnly(r) ==
  /\ Goto(r, "railFinishPayments", "final")
  /\ steps' = [steps EXCEPT ![r].rail = TRUE]
  /\ UNCHANGED <<dbVars, rail, railResult, reply>>
  /\ FlowOnly

RailFinishPayments(r) ==
  /\ \/ /\ Goto(r, "railFinishPayments", "final")
        /\ SetAllPayments(r, FinalStatus(r))
        /\ steps' = [steps EXCEPT ![r].rail = TRUE]
     \/ r \in DbMayFail /\ Goto(r, "railFinishPayments", "final") /\ Errored(r) /\ UNCHANGED paymentStatus
  /\ UNCHANGED <<payrollStatus, txHash, rail, railResult, reply>>
  /\ FlowOnly

-----------------------------------------------------------------------------
(* The final read and the answer. *)

\* Mutant: a request on chain is a success.
BugIsSuccess(r) == steps[r].executed \/ steps[r].rail \/ steps[r].requested

IsSuccess(r) ==
  \/ steps[r].executed
  \/ steps[r].rail
  \/ steps[r].requested /\ ~steps[r].errors

FinalRead(r) ==
  /\ Ends(r, "final", IF Route[r] = "demo" \/ IsSuccess(r) THEN "success" ELSE "failure")
  /\ UNCHANGED <<dbVars, rail>>
  /\ FlowOnly

\* The read is outside every inner try: process marks the payroll FAILED.
FinalReadThrows(r) ==
  /\ r \in DbMayFail
  /\ IF Route[r] = "demo"
     THEN Ends(r, "final", "error")
     ELSE Goto(r, "final", "outerCatch") /\ UNCHANGED <<steps, railResult, reply>>
  /\ UNCHANGED <<dbVars, rail>>
  /\ FlowOnly

OuterCatch(r) ==
  /\ Ends(r, "outerCatch", "error")
  /\ SetPayroll(r, "FAILED") \/ (r \in DbMayFail /\ UNCHANGED payrollStatus)
  /\ UNCHANGED <<paymentStatus, txHash, rail>>
  /\ FlowOnly

-----------------------------------------------------------------------------
FlowStep(r) ==
  \/ CreatePayments(r)
  \/ AfterRequest(r) \/ AfterRequestThrew(r)
  \/ AfterExecute(r) \/ AfterExecuteThrew(r)
  \/ MarkOnchainPaid(r) \/ MarkOnchainPaidPayments(r)
  \/ RailSkipped(r) \/ RailStart(r) \/ RailStartPayments(r) \/ RailUnmarked(r)
  \/ CreateRailPayment(r) \/ RailFinish(r) \/ RailFinishPayments(r)
  \/ FinalRead(r) \/ FinalReadThrows(r) \/ OuterCatch(r)

JobStep(r) == (HookStep(r) /\ UNCHANGED flowVars) \/ FlowStep(r)

\* The process dies: every running job is gone, with its local variables.
Crash ==
  /\ MayCrash
  /\ LET running == {r \in Payrolls : pc[r] \notin {"idle", "done", "crashed"}}
     IN  /\ running # {}
         /\ pc' = [r \in Payrolls |-> IF r \in running THEN "crashed" ELSE pc[r]]
         /\ todo' = [r \in Payrolls |-> IF r \in running THEN {} ELSE todo[r]]
         /\ cur' = [r \in Payrolls |-> IF r \in running THEN NoPayment ELSE cur[r]]
         /\ hashes' = [r \in Payrolls |-> IF r \in running THEN {} ELSE hashes[r]]
         /\ outcome' = [r \in Payrolls |-> IF r \in running THEN "none" ELSE outcome[r]]
         /\ steps' = [r \in Payrolls |-> IF r \in running THEN NoSteps ELSE steps[r]]
         /\ railResult' = [r \in Payrolls |-> IF r \in running THEN "none" ELSE railResult[r]]
  /\ UNCHANGED <<dbVars, chainVars, rail, reply>>

\* The contract is used beside the pipeline: executePayment and executeSwap let any
\* account call them (the contract test routes of the backend are one), and the owner
\* administers.
OthersUse ==
  /\ TreasuryNext
  /\ Contends(Payrolls)
  /\ UNCHANGED <<dbVars, transfers, refusals, pc, todo, cur, hashes, outcome, flowVars>>

Next ==
  \/ \E r \in Payrolls : CreatePayroll(r) \/ JobStep(r) \/ RailSettles(r)
  \/ Crash
  \/ OthersUse

Spec == Init /\ [][Next]_vars

\* The event loop runs every job that can take a step; database, RPC and Rail calls
\* answer or throw in the end, and only the wait for a dropped transaction does not.
\* Clients, Rail's own progress, the contract's other users and crashes promise nothing.
FairSpec == Spec /\ \A r \in Payrolls : WF_vars(JobStep(r))
-----------------------------------------------------------------------------
(***************************************************************************)
(* Safety, whatever fails.                                                 *)
(***************************************************************************)

\* How many transactions were mined that executed (or refused) payment p.
Mined(p) == transfers[p] + refusals[p]

(***************************************************************************)
(* A payment's executePayment is mined at most once: no failed write, lost *)
(* receipt or crash makes the loop of contractHook.ts submit it again; and *)
(* a row that stores an execution's hash names a transaction that exists.  *)
(***************************************************************************)
ExecutedAtMostOnce ==
  \A p \in Payments :
     /\ Mined(p) <= 1
     /\ txHash[p] = "execute" => Mined(p) = 1

(***************************************************************************)
(* A payroll reads ONCHAIN_PAID, on either route, only if an execution of  *)
(* one of its payments was mined, although executePayrollPayments starts   *)
(* from ONCHAIN_PAID and both routes write it on top.                      *)
(***************************************************************************)
OnchainPaidHasTransaction ==
  \A r \in Payrolls :
     payrollStatus[r] = "ONCHAIN_PAID" => \E p \in PaymentsOf(r) : Mined(p) > 0

(***************************************************************************)
(* A payroll reads PAID only if Rail completed its withdrawal; only in     *)
(* mock mode does PAID mean nothing about Rail.                            *)
(***************************************************************************)
PaidMeansRailCompleted ==
  \A r \in Payrolls : payrollStatus[r] = "PAID" => RailMock \/ rail[r] = "completed"

(***************************************************************************)
(* The one balance check before the loop covers the whole loop: as long as *)
(* nobody else takes stablecoin meanwhile, what is left pays every payment *)
(* the job has still to execute, whatever was refused, thrown or lost      *)
(* before.  Only another job's payments or the contract's other users can  *)
(* make an execution fail for lack of funds.                               *)
(***************************************************************************)
UncontendedIsCovered ==
  \A r \in Payrolls \ contended :
     pc[r] \in Executing => SumFunctionOnSet(AmountOf, todo[r]) <= balance[USDC]

(***************************************************************************)
(* When /api/payment/process answers success: true and the payroll does    *)
(* not read FAILED, an execution was mined or Rail has accepted a          *)
(* withdrawal, except that in mock mode Rail is not asked: a request on    *)
(* chain without any error, the third ground of the answer, never decides. *)
(***************************************************************************)
SuccessIsBacked ==
  [][\A r \in Payrolls :
        Route[r] = "process" /\ reply[r] # "success" /\ reply'[r] = "success" =>
           \/ payrollStatus[r] = "FAILED" \/ RailMock \/ rail[r] # "none"
           \/ \E p \in PaymentsOf(r) : Mined(p) > 0]_vars

(***************************************************************************)
(* The pipeline implements the disbursement promise, beside whatever else  *)
(* is done with the contract.                                              *)
(***************************************************************************)
D == INSTANCE Disbursement WITH
       Initial <- Funding[USDC],
       paid <- transfers,
       funds <- balance[USDC]

Disburses == D!Spec

(***************************************************************************)
(* Safety while the database answers and no receipt is lost.               *)
(***************************************************************************)

(***************************************************************************)
(* A payment that reads FAILED was not transferred: what contractHook.ts,  *)
(* the bulk updates of the routes, and a crash between them leave behind.  *)
(***************************************************************************)
FailedMeansUnpaid ==
  \A p \in Payments : paymentStatus[p] = "FAILED" => transfers[p] = 0

(***************************************************************************)
(* Once a request is answered, a payroll past its on-chain request has its *)
(* status on all its payments, although payroll and payments are written   *)
(* in separate calls and by two modules.                                   *)
(***************************************************************************)
SettledStatusesAgree ==
  \A r \in Payrolls :
     reply[r] # "none" /\ payrollStatus[r] \notin {"PENDING", "ONCHAIN_REQUESTED"} =>
        \A p \in PaymentsOf(r) : paymentStatus[p] = payrollStatus[r]

(***************************************************************************)
(* A process payroll that reads FAILED moved no money: its payment was not *)
(* transferred and Rail has no withdrawal of it that is open or completed. *)
(***************************************************************************)
FailedMovedNothing ==
  \A r \in Payrolls :
     Route[r] = "process" /\ payrollStatus[r] = "FAILED" =>
        rail[r] \in {"none", "failed"} /\ \A p \in PaymentsOf(r) : transfers[p] = 0

(***************************************************************************)
(* Every request is answered, unless the process crashed under it or its   *)
(* own transaction was dropped: a wait that hangs holds up no other job.   *)
(***************************************************************************)
EveryRequestAnswered ==
  \A r \in Payrolls : pc[r] # "idle" ~> (reply[r] # "none" \/ pc[r] \in {"crashed", "hung"})

(***************************************************************************)
(* What the documentation says and the code does not do.                   *)
(***************************************************************************)

\* "ONCHAIN_PAID: On-chain payment completed" (docs/API_REFERENCE.md).
OnchainPaidMeansCompleted ==
  \A p \in Payments : paymentStatus[p] = "ONCHAIN_PAID" => transfers[p] > 0

\* "Success if on-chain was executed OR rail was processed" (paymentRoutes.ts:399).
SuccessWasProcessed ==
  [][\A r \in Payrolls :
        Route[r] = "process" /\ reply[r] # "success" /\ reply'[r] = "success" =>
           payrollStatus[r] # "FAILED"]_vars

\* The status lifecycle of docs/API_REFERENCE.md ends in PAID.
PaidIsFinal ==
  [][\A r \in Payrolls : payrollStatus[r] = "PAID" => payrollStatus'[r] = "PAID"]_vars

\* "Update status: RAIL_PROCESSING -> PAID/FAILED" (docs/PAYMENT_FLOW_DIAGRAM.md),
\* asked only of a payroll whose withdrawal Rail has settled.
RailProcessingResolves ==
  \A r \in Payrolls :
     payrollStatus[r] = "RAIL_PROCESSING" /\ rail[r] \in {"completed", "failed"}
        ~> payrollStatus[r] # "RAIL_PROCESSING"
=============================================================================
