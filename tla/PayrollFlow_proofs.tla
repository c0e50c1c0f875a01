------------------------- MODULE PayrollFlow_proofs -------------------------
(***************************************************************************)
(* Proofs about the payroll pipeline, for any number of concurrent         *)
(* requests on either route, any payments, any use of the contract beside  *)
(* them, and any faults: its types; that the pipeline executes a payment   *)
(* at most once and so keeps the promise of Disbursement; that the balance *)
(* check before a loop covers the loop as long as nobody else takes        *)
(* stablecoin; and what the statuses it writes stand for.                  *)
(***************************************************************************)
EXTENDS PayrollFlow, Treasury_proofs, SumTheorems

(***************************************************************************)
(* Every value the routes write as a status is a status of the row that    *)
(* gets it.                                                                *)
(***************************************************************************)
LEMMA FinalStatusType ==
  ASSUME NEW r
  PROVE  FinalStatus(r) \in {"PAID", "ONCHAIN_PAID", "FAILED", "RAIL_PROCESSING"}
BY DEF FinalStatus

\* executePayrollPayments computes one of the three outcomes it knows.
LEMMA ExecutionOutcomeType ==
  ASSUME NEW r
  PROVE  ExecutionOutcome(r) \in {"ONCHAIN_PAID", "PARTIALLY_PAID", "FAILED"}
BY DEF ExecutionOutcome

(***************************************************************************)
(* The types, without the treasury's.                                      *)
(***************************************************************************)
PipelineTypeOK ==
  /\ payrollStatus \in [Payrolls -> PayrollStatuses \cup {"none"}]
  /\ paymentStatus \in [Payments -> PaymentStatuses \cup {"none"}]
  /\ txHash \in [Payments -> {"none", "request", "execute"}]
  /\ transfers \in [Payments -> Nat]
  /\ refusals \in [Payments -> Nat]
  /\ contended \subseteq Payrolls
  /\ pc \in [Payrolls -> HookLabels \cup FlowLabels]
  /\ todo \in [Payrolls -> SUBSET Payments]
  /\ cur \in [Payrolls -> Payments \cup {NoPayment}]
  /\ hashes \in [Payrolls -> SUBSET Payments]
  /\ outcome \in [Payrolls -> {"none", "ONCHAIN_PAID", "PARTIALLY_PAID", "FAILED"}]
  /\ steps \in [Payrolls -> StepFlags]
  /\ rail \in [Payrolls -> {"none", "open", "completed", "failed"}]
  /\ railResult \in [Payrolls -> RailResults]
  /\ reply \in [Payrolls -> {"none", "success", "failure", "error"}]

(***************************************************************************)
(* A job inside requestPayrollPayments or executePayrollPayments.          *)
(***************************************************************************)
LEMMA HookStepType ==
  ASSUME PipelineTypeOK, NEW r \in Payrolls, HookStep(r), UNCHANGED flowVars
  PROVE  PipelineTypeOK'
<1> USE HookAssumption DEF PipelineTypeOK, HookLabels, Executing, Goto, flowVars
<1>1. CASE RequestRead(r)
  <2>1. todo' \in [Payrolls -> SUBSET Payments] /\ hashes' \in [Payrolls -> SUBSET Payments]
    BY <1>1, SMTT(30) DEF RequestRead, ReadPayroll, PaymentsOf
  <2>2. pc' \in [Payrolls -> HookLabels \cup FlowLabels]
    BY <1>1 DEF RequestRead
  <2> QED BY <1>1, <2>1, <2>2 DEF RequestRead, dbVars, chainVars
<1>2. CASE RequestRecord(r)
  BY <1>2, SMTT(30) DEF RequestRecord, PaymentStatuses, PayrollStatuses, chainVars
<1>3. CASE RequestFinish(r)
  BY <1>3, SMTT(30) DEF RequestFinish, SetPayroll, PayrollStatuses, chainVars
<1>4. CASE ExecuteRead(r)
  <2>1. todo' \in [Payrolls -> SUBSET Payments] /\ hashes' \in [Payrolls -> SUBSET Payments]
    BY <1>4, SMTT(30) DEF ExecuteRead, ReadPayroll, PaymentsOf
  <2>2. pc' \in [Payrolls -> HookLabels \cup FlowLabels]
    BY <1>4 DEF ExecuteRead
  <2> QED BY <1>4, <2>1, <2>2 DEF ExecuteRead, dbVars, chainVars
<1>5. CASE ExecuteCheckBalance(r)
  BY <1>5 DEF ExecuteCheckBalance, dbVars, chainVars
<1>6. CASE ExecuteRecord(r)
  <2>1. paymentStatus' \in [Payments -> PaymentStatuses \cup {"none"}]
    BY <1>6 DEF ExecuteRecord, PaymentStatuses, PayrollStatuses, dbVars
  <2>2. txHash' \in [Payments -> {"none", "request", "execute"}]
    BY <1>6 DEF ExecuteRecord, dbVars
  <2>3. pc' \in [Payrolls -> HookLabels \cup FlowLabels]
    BY <1>6 DEF ExecuteRecord
  <2> QED BY <1>6, <2>1, <2>2, <2>3 DEF ExecuteRecord, dbVars, chainVars
<1>7. CASE ExecuteFail(r)
  BY <1>7 DEF ExecuteFail, PaymentStatuses, PayrollStatuses, chainVars
<1>8. CASE ExecuteReread(r)
  <2>1. outcome' \in [Payrolls -> {"none", "ONCHAIN_PAID", "PARTIALLY_PAID", "FAILED"}]
    BY <1>8, ExecutionOutcomeType DEF ExecuteReread
  <2> QED BY <1>8, <2>1 DEF ExecuteReread, dbVars, chainVars
<1>9. CASE ExecuteFinish(r)
  BY <1>9, SMTT(30) DEF ExecuteFinish, SetPayroll, PayrollStatuses, chainVars
<1>10. ASSUME NEW p \in Payments, RequestSkip(r, p)
       PROVE  PipelineTypeOK'
  BY <1>10 DEF RequestSkip, Visited, dbVars, chainVars
<1>11. ASSUME NEW p \in Payments, RequestMined(r, p)
       PROVE  PipelineTypeOK'
  BY <1>11 DEF RequestMined, Visited, dbVars, chainVars
<1>12. ASSUME NEW p \in Payments, ExecuteThrows(r, p)
       PROVE  PipelineTypeOK'
  BY <1>12 DEF ExecuteThrows, Visited, dbVars, chainVars
<1>13. ASSUME NEW p \in Payments, ExecuteMined(r, p)
       PROVE  PipelineTypeOK'
  <2>1. transfers' \in [Payments -> Nat] /\ refusals' \in [Payments -> Nat]
    BY <1>13 DEF ExecuteMined
  <2>2. /\ pc' \in [Payrolls -> HookLabels \cup FlowLabels]
        /\ hashes' \in [Payrolls -> SUBSET Payments]
    BY <1>13, SMTT(30) DEF ExecuteMined
  <2>3. todo' \in [Payrolls -> SUBSET Payments] /\ cur' \in [Payrolls -> Payments \cup {NoPayment}]
    BY <1>13 DEF ExecuteMined, Visited
  <2>4. contended' \subseteq Payrolls
    BY <1>13 DEF ExecuteMined, Contends
  <2> QED BY <1>13, <2>1, <2>2, <2>3, <2>4 DEF ExecuteMined, dbVars
<1>14. ASSUME NEW p \in Payments, TransactionDropped(r, p)
       PROVE  PipelineTypeOK'
  BY <1>14 DEF TransactionDropped, dbVars, chainVars
<1> QED BY <1>1, <1>2, <1>3, <1>4, <1>5, <1>6, <1>7, <1>8, <1>9, <1>10, <1>11, <1>12, <1>13, <1>14
        DEF HookStep

(***************************************************************************)
(* The moves of a job and the writes to its locals that the routes share.  *)
(***************************************************************************)
Labels == HookLabels \cup FlowLabels

\* A job that moves keeps every job at a label.
LEMMA GotoType ==
  ASSUME pc \in [Payrolls -> Labels], NEW r, NEW from, NEW to \in Labels, Goto(r, from, to)
  PROVE  pc' \in [Payrolls -> Labels]
BY DEF Goto

\* A job that replaces its flags keeps every job's flags typed.
LEMMA SetStepsType ==
  ASSUME steps \in [Payrolls -> StepFlags], NEW r \in Payrolls, NEW flags \in StepFlags,
         steps' = [steps EXCEPT ![r] = flags]
  PROVE  steps' \in [Payrolls -> StepFlags]
OBVIOUS

\* A caught error keeps the flags typed.
LEMMA ErroredType ==
  ASSUME steps \in [Payrolls -> StepFlags], NEW r \in Payrolls, Errored(r)
  PROVE  steps' \in [Payrolls -> StepFlags]
<1>1. [steps[r] EXCEPT !.errors = TRUE] \in StepFlags
  BY DEF StepFlags
<1>2. steps' = [steps EXCEPT ![r] = [steps[r] EXCEPT !.errors = TRUE]]
  BY DEF Errored
<1> QED BY <1>1, <1>2, SetStepsType

\* The end of a handler keeps answers and the cleared locals typed.
LEMMA EndsType ==
  ASSUME PipelineTypeOK, NEW r \in Payrolls, NEW from,
         NEW answer \in {"success", "failure", "error"}, Ends(r, from, answer)
  PROVE  /\ pc' \in [Payrolls -> Labels]
         /\ steps' \in [Payrolls -> StepFlags]
         /\ railResult' \in [Payrolls -> RailResults]
         /\ reply' \in [Payrolls -> {"none", "success", "failure", "error"}]
<1>1. pc' \in [Payrolls -> Labels]
  <2>1. "done" \in Labels
    BY DEF Labels, FlowLabels
  <2> QED BY <2>1, GotoType DEF Ends, PipelineTypeOK, Labels
<1>2. steps' \in [Payrolls -> StepFlags]
  <2>1. NoSteps \in StepFlags
    BY DEF NoSteps, StepFlags
  <2> QED BY <2>1, SetStepsType DEF Ends, PipelineTypeOK
<1>3. railResult' \in [Payrolls -> RailResults]
  BY DEF Ends, PipelineTypeOK, RailResults
<1>4. reply' \in [Payrolls -> {"none", "success", "failure", "error"}]
  BY DEF Ends, Answer, PipelineTypeOK
<1> QED BY <1>1, <1>2, <1>3, <1>4

\* A write of a known payroll status, done or failed, keeps the rows typed.
LEMMA WritePayrollType ==
  ASSUME PipelineTypeOK, NEW r \in Payrolls, NEW status \in PayrollStatuses, NEW from,
         NEW ok \in Labels, NEW catch \in Labels, WritePayroll(r, status, from, ok, catch)
  PROVE  PipelineTypeOK'
<1>1. payrollStatus' \in [Payrolls -> PayrollStatuses \cup {"none"}]
  BY DEF WritePayroll, SetPayroll, PipelineTypeOK
<1>2. pc' \in [Payrolls -> Labels]
  BY GotoType DEF WritePayroll, PipelineTypeOK, Labels
<1>3. steps' \in [Payrolls -> StepFlags]
  BY ErroredType DEF WritePayroll, PipelineTypeOK
<1> QED BY <1>1, <1>2, <1>3 DEF WritePayroll, FlowOnly, PipelineTypeOK, Labels, chainVars

\* The bulk update of a payroll's payments keeps the rows typed.
LEMMA SetAllPaymentsType ==
  ASSUME PipelineTypeOK, NEW r, NEW status \in PaymentStatuses, SetAllPayments(r, status)
  PROVE  paymentStatus' \in [Payments -> PaymentStatuses \cup {"none"}]
BY DEF SetAllPayments, PipelineTypeOK

\* The same for the write of a known payment status, done or failed.
LEMMA WritePaymentsType ==
  ASSUME PipelineTypeOK, NEW r \in Payrolls, NEW status \in PaymentStatuses, NEW from,
         NEW ok \in Labels, NEW catch \in Labels, WritePayments(r, status, from, ok, catch)
  PROVE  PipelineTypeOK'
<1>1. paymentStatus' \in [Payments -> PaymentStatuses \cup {"none"}]
  BY SetAllPaymentsType DEF WritePayments, PipelineTypeOK
<1>2. pc' \in [Payrolls -> Labels]
  BY GotoType DEF WritePayments, PipelineTypeOK, Labels
<1>3. steps' \in [Payrolls -> StepFlags]
  BY ErroredType DEF WritePayments, PipelineTypeOK
<1> QED BY <1>1, <1>2, <1>3 DEF WritePayments, FlowOnly, PipelineTypeOK, Labels, chainVars

(***************************************************************************)
(* A job in the route that called them.                                    *)
(***************************************************************************)
LEMMA FlowStepType ==
  ASSUME PipelineTypeOK, NEW r \in Payrolls, FlowStep(r)
  PROVE  PipelineTypeOK'
<1>a. pc \in [Payrolls -> Labels] /\ steps \in [Payrolls -> StepFlags]
  BY DEF PipelineTypeOK, Labels
<1>b. \A label \in {"request", "execute", "createPayments", "markPaid", "markPaidPayments",
                    "rail", "railPayments", "railCall", "railFinish", "railFinishPayments",
                    "final", "outerCatch", "done"} : label \in Labels
  BY DEF Labels, HookLabels, FlowLabels
<1>1. CASE CreatePayments(r)
  <2>1. paymentStatus' \in [Payments -> PaymentStatuses \cup {"none"}]
    <3>1. "PENDING" \in PaymentStatuses
      BY DEF PaymentStatuses, PayrollStatuses
    <3> QED BY <1>1, <3>1, SetAllPaymentsType DEF CreatePayments, PipelineTypeOK
  <2>2. CASE UNCHANGED <<railResult, reply>>
    <3>1. pc' \in [Payrolls -> Labels]
      BY <1>1, <1>a, <1>b, GotoType DEF CreatePayments, Ends
    <3>2. steps' \in [Payrolls -> StepFlags]
      <4>1. ASSUME NEW threw \in BOOLEAN, steps' = [steps EXCEPT ![r].errors = threw]
            PROVE  steps' \in [Payrolls -> StepFlags]
        BY <4>1, <1>a DEF StepFlags
      <4>2. \/ UNCHANGED steps
            \/ Ends(r, "createPayments", "error")
            \/ \E threw \in BOOLEAN : steps' = [steps EXCEPT ![r].errors = threw]
        BY <1>1 DEF CreatePayments
      <4> QED BY <1>a, <4>1, <4>2, EndsType
    <3> QED BY <1>1, <2>1, <2>2, <3>1, <3>2
            DEF CreatePayments, FlowOnly, chainVars, PipelineTypeOK, Labels
  <2>3. CASE Ends(r, "createPayments", "error")
    BY <1>1, <2>1, <2>3, EndsType
    DEF CreatePayments, FlowOnly, chainVars, PipelineTypeOK, Labels
  <2> QED BY <1>1, <2>2, <2>3 DEF CreatePayments
<1>2. CASE AfterRequest(r)
  <2>1. steps' \in [Payrolls -> StepFlags]
    BY <1>2, <1>a, ZenonT(30) DEF AfterRequest, StepFlags
  <2>2. pc' \in [Payrolls -> Labels]
    BY <1>2, <1>a, <1>b, GotoType DEF AfterRequest
  <2> QED BY <1>2, <2>1, <2>2
          DEF AfterRequest, Returned, dbVars, chainVars, PipelineTypeOK, Labels
<1>3. CASE AfterRequestThrew(r)
  <2>1. CASE Ends(r, "requestThrew", "error")
    BY <1>3, <2>1, EndsType
    DEF AfterRequestThrew, Returned, dbVars, chainVars, PipelineTypeOK, Labels
  <2>2. CASE Goto(r, "requestThrew", "execute") /\ Errored(r) /\ UNCHANGED <<railResult, reply>>
    BY <1>3, <1>a, <1>b, <2>2, GotoType, ErroredType
    DEF AfterRequestThrew, Returned, dbVars, chainVars, PipelineTypeOK, Labels
  <2> QED BY <1>3, <2>1, <2>2 DEF AfterRequestThrew
<1>4. CASE AfterExecute(r)
  <2>1. steps' \in [Payrolls -> StepFlags]
    BY <1>4, <1>a, ZenonT(30) DEF AfterExecute, StepFlags
  <2>2. pc' \in [Payrolls -> Labels]
    BY <1>4, <1>a, <1>b, GotoType DEF AfterExecute
  <2> QED BY <1>4, <2>1, <2>2
          DEF AfterExecute, Returned, dbVars, chainVars, PipelineTypeOK, Labels
<1>5. CASE AfterExecuteThrew(r)
  <2>1. pc' \in [Payrolls -> Labels] /\ steps' \in [Payrolls -> StepFlags]
    BY <1>5, <1>a, <1>b, GotoType, ErroredType DEF AfterExecuteThrew
  <2> QED BY <1>5, <2>1
          DEF AfterExecuteThrew, Returned, dbVars, chainVars, PipelineTypeOK, Labels
<1>6. /\ {"ONCHAIN_PAID", "RAIL_PROCESSING", "FAILED", FinalStatus(r)} \subseteq PaymentStatuses
      /\ PaymentStatuses \subseteq PayrollStatuses
  BY FinalStatusType DEF PaymentStatuses, PayrollStatuses
<1>7. CASE MarkOnchainPaid(r)
  BY <1>6, <1>7, <1>b, WritePayrollType DEF MarkOnchainPaid
<1>8. CASE MarkOnchainPaidPayments(r)
  BY <1>6, <1>8, <1>b, WritePaymentsType DEF MarkOnchainPaidPayments
<1>9. CASE RailSkipped(r)
  <2>1. pc' \in [Payrolls -> Labels] /\ steps' \in [Payrolls -> StepFlags]
    BY <1>9, <1>a, <1>b, GotoType, ErroredType DEF RailSkipped
  <2> QED BY <1>9, <2>1 DEF RailSkipped, FlowOnly, dbVars, chainVars, PipelineTypeOK, Labels
<1>10. CASE RailStart(r)
  BY <1>6, <1>10, <1>b, WritePayrollType DEF RailStart
<1>11. CASE RailStartPayments(r)
  BY <1>6, <1>11, <1>b, WritePaymentsType DEF RailStartPayments
<1>12. CASE RailUnmarked(r)
  <2>1. pc' \in [Payrolls -> Labels]
    BY <1>12, <1>a, <1>b, GotoType DEF RailUnmarked
  <2> QED BY <1>12, <2>1
          DEF RailUnmarked, FlowOnly, flowVars, dbVars, chainVars, PipelineTypeOK, Labels
<1>13. CASE CreateRailPayment(r)
  <2>1. railResult' \in [Payrolls -> RailResults]
    BY <1>13 DEF CreateRailPayment, NoWithdrawal, RailStatus, RailResults, PipelineTypeOK
  <2>2. rail' \in [Payrolls -> {"none", "open", "completed", "failed"}]
    BY <1>13 DEF CreateRailPayment, NoWithdrawal, PipelineTypeOK
  <2>3. pc' \in [Payrolls -> Labels]
    BY <1>13, <1>a, <1>b, GotoType DEF CreateRailPayment, NoWithdrawal
  <2> QED BY <1>13, <2>1, <2>2, <2>3
          DEF CreateRailPayment, NoWithdrawal, FlowOnly, dbVars, chainVars, PipelineTypeOK, Labels
<1>14. CASE RailFinish(r)
  BY <1>6, <1>14, <1>b, WritePayrollType DEF RailFinish
<1>15. CASE RailFinishPayments(r)
  <2>1. paymentStatus' \in [Payments -> PaymentStatuses \cup {"none"}]
    BY <1>6, <1>15, SetAllPaymentsType DEF RailFinishPayments, PipelineTypeOK
  <2>2. pc' \in [Payrolls -> Labels]
    BY <1>15, <1>a, <1>b, GotoType DEF RailFinishPayments
  <2>3. steps' \in [Payrolls -> StepFlags]
    <3>1. CASE Errored(r)
      BY <3>1, <1>a, ErroredType
    <3>2. CASE steps' = [steps EXCEPT ![r].rail = TRUE]
      BY <3>2, <1>a DEF StepFlags
    <3> QED BY <1>15, <3>1, <3>2 DEF RailFinishPayments
  <2> QED BY <1>15, <2>1, <2>2, <2>3
          DEF RailFinishPayments, FlowOnly, chainVars, PipelineTypeOK, Labels
<1>16. CASE FinalRead(r)
  BY <1>16, EndsType DEF FinalRead, FlowOnly, dbVars, chainVars, PipelineTypeOK, Labels
<1>17. CASE FinalReadThrows(r)
  <2>1. CASE Ends(r, "final", "error")
    BY <1>17, <2>1, EndsType DEF FinalReadThrows, FlowOnly, dbVars, chainVars, PipelineTypeOK, Labels
  <2>2. CASE Goto(r, "final", "outerCatch") /\ UNCHANGED <<steps, railResult, reply>>
    BY <1>17, <1>a, <1>b, <2>2, GotoType
    DEF FinalReadThrows, FlowOnly, dbVars, chainVars, PipelineTypeOK, Labels
  <2> QED BY <1>17, <2>1, <2>2 DEF FinalReadThrows
<1>18. CASE OuterCatch(r)
  <2>1. payrollStatus' \in [Payrolls -> PayrollStatuses \cup {"none"}]
    BY <1>6, <1>18 DEF OuterCatch, SetPayroll, PipelineTypeOK
  <2> QED BY <1>18, <2>1, EndsType DEF OuterCatch, FlowOnly, chainVars, PipelineTypeOK, Labels
<1> QED BY <1>1, <1>2, <1>3, <1>4, <1>5, <1>7, <1>8, <1>9, <1>10, <1>11, <1>12, <1>13, <1>14,
           <1>15, <1>16, <1>17, <1>18 DEF FlowStep
(***************************************************************************)
(* The routes, the crash and the contract's other users together.          *)
(***************************************************************************)
LEMMA PipelineTypeStep ==
  ASSUME PipelineTypeOK, Next
  PROVE  PipelineTypeOK'
<1>1. ASSUME NEW r \in Payrolls, CreatePayroll(r)
      PROVE  PipelineTypeOK'
  <2>1. pc' \in [Payrolls -> Labels]
    BY <1>1 DEF CreatePayroll, Goto, PipelineTypeOK, Labels, FlowLabels
  <2>2. payrollStatus' \in [Payrolls -> PayrollStatuses \cup {"none"}]
    BY <1>1 DEF CreatePayroll, SetPayroll, PipelineTypeOK, PayrollStatuses
  <2>3. reply' \in [Payrolls -> {"none", "success", "failure", "error"}]
    BY <1>1 DEF CreatePayroll, Answer, PipelineTypeOK
  <2> QED BY <1>1, <2>1, <2>2, <2>3
          DEF CreatePayroll, FlowOnly, chainVars, PipelineTypeOK, Labels
<1>2. ASSUME NEW r \in Payrolls, JobStep(r)
      PROVE  PipelineTypeOK'
  BY <1>2, HookStepType, FlowStepType DEF JobStep
<1>3. ASSUME NEW r \in Payrolls, RailSettles(r)
      PROVE  PipelineTypeOK'
  BY <1>3 DEF RailSettles, hookVars, PipelineTypeOK
<1>4. CASE Crash
  <2>1. pc' \in [Payrolls -> Labels]
    BY <1>4 DEF Crash, PipelineTypeOK, Labels, FlowLabels
  <2>2. steps' \in [Payrolls -> StepFlags]
    BY <1>4 DEF Crash, PipelineTypeOK, StepFlags, NoSteps
  <2>3. /\ todo' \in [Payrolls -> SUBSET Payments]
        /\ hashes' \in [Payrolls -> SUBSET Payments]
        /\ cur' \in [Payrolls -> Payments \cup {NoPayment}]
    BY <1>4 DEF Crash, PipelineTypeOK
  <2>4. /\ outcome' \in [Payrolls -> {"none", "ONCHAIN_PAID", "PARTIALLY_PAID", "FAILED"}]
        /\ railResult' \in [Payrolls -> RailResults]
    BY <1>4 DEF Crash, PipelineTypeOK, RailResults
  <2> QED BY <1>4, <2>1, <2>2, <2>3, <2>4 DEF Crash, dbVars, chainVars, PipelineTypeOK, Labels
<1>5. CASE OthersUse
  BY <1>5 DEF OthersUse, Contends, dbVars, flowVars, PipelineTypeOK
<1> QED BY <1>1, <1>2, <1>3, <1>4, <1>5 DEF Next

(***************************************************************************)
(* The only steps that touch the contract's state execute a payment of the *)
(* stablecoin or are others' use of the contract.                          *)
(***************************************************************************)
LEMMA PipelineChainSteps ==
  ASSUME Next
  PROVE  \/ UNCHANGED chainVars
         \/ \E r \in Payrolls, p \in Payments : ExecuteMined(r, p)
         \/ OthersUse
<1>1. ASSUME NEW r \in Payrolls, CreatePayroll(r)
      PROVE  UNCHANGED chainVars
  BY <1>1 DEF CreatePayroll, FlowOnly, chainVars
<1>2. ASSUME NEW r \in Payrolls, FlowStep(r)
      PROVE  UNCHANGED chainVars
  BY <1>2
  DEF FlowStep, CreatePayments, AfterRequest, AfterRequestThrew, AfterExecute,
      AfterExecuteThrew, MarkOnchainPaid, MarkOnchainPaidPayments, RailSkipped, RailStart,
      RailStartPayments, RailUnmarked, CreateRailPayment, NoWithdrawal,
      RailFinish, RailFinishPayments, FinalRead, FinalReadThrows, OuterCatch, WritePayroll, WritePayments, FlowOnly, Returned,
      chainVars
<1>3. ASSUME NEW r \in Payrolls, HookStep(r)
      PROVE  UNCHANGED chainVars \/ \E p \in Payments : ExecuteMined(r, p)
  BY <1>3
  DEF HookStep, RequestRead, RequestRecord, RequestFinish, ExecuteRead, ExecuteCheckBalance,
      ExecuteRecord, ExecuteFail, ExecuteReread, ExecuteFinish, RequestSkip, RequestMined,
      TransactionDropped, ExecuteThrows, chainVars
<1> QED BY <1>1, <1>2, <1>3 DEF Next, JobStep, RailSettles, Crash, hookVars, chainVars

\* Contract and pipeline together: a call of the contract keeps its types because no
\* approval is standing when it is made.
ContractInv == TypeOK /\ NoStandingApproval

\* Every step keeps every variable typed and leaves no approval standing.
LEMMA ContractInvStep ==
  ASSUME ContractInv, Next
  PROVE  ContractInv'
<1>1. TypeOK <=> TreasuryTypeOK /\ PipelineTypeOK
  BY DEF TypeOK, PipelineTypeOK
<1>2. TreasuryTypeOK' /\ NoStandingApproval'
  <2>1. CASE UNCHANGED chainVars
    BY <1>1, <2>1 DEF chainVars, treasuryVars, TreasuryTypeOK, NoStandingApproval, ContractInv
  <2>2. ASSUME NEW r \in Payrolls, NEW p \in Payments, ExecuteMined(r, p)
        PROVE  TreasuryTypeOK' /\ NoStandingApproval'
    <3>1. PICK event \in PaymentEvents : ExecutePayment(USDC, AmountOf[p], event)
      BY <2>2 DEF ExecuteMined
    <3>2. USDC \in Tokens /\ AmountOf[p] \in Nat
      BY HookAssumption
    <3>3. TreasuryTypeOK'
      BY <1>1, <3>1, <3>2, ExecutePaymentType DEF ContractInv
    <3>4. NoStandingApproval'
      BY <3>1 DEF ExecutePayment, NoStandingApproval, ContractInv
    <3> QED BY <3>3, <3>4
  <2>3. CASE OthersUse
    <3>1. TreasuryInv /\ TreasuryNext
      BY <1>1, <2>3 DEF OthersUse, ContractInv, TreasuryInv
    <3> QED BY <3>1, TreasuryTypeStep, TreasuryApprovalStep DEF TreasuryInv
  <2> QED BY <2>1, <2>2, <2>3, PipelineChainSteps
<1>3. PipelineTypeOK'
  BY <1>1, PipelineTypeStep DEF ContractInv
<1>4. TypeOK' <=> TreasuryTypeOK' /\ PipelineTypeOK'
  BY DEF TypeOK, PipelineTypeOK
<1> QED BY <1>2, <1>3, <1>4 DEF ContractInv

\* The backend and the contract start with typed variables.
LEMMA TypeInit == Init => TypeOK
<1> SUFFICES ASSUME Init PROVE TypeOK
  OBVIOUS
<1>1. TreasuryTypeOK
  BY TreasuryAssumption DEF Init, TreasuryInit, TreasuryTypeOK, Zeros
<1>2. PipelineTypeOK
  BY DEF Init, HookInit, PipelineTypeOK, NoSteps, StepFlags, FlowLabels, RailResults
<1> QED BY <1>1, <1>2 DEF TypeOK, PipelineTypeOK

(***************************************************************************)
(* Types and the absence of approvals hold together in every state.        *)
(***************************************************************************)
THEOREM ContractInvariance == Spec => []ContractInv
<1>1. ContractInv /\ UNCHANGED vars => ContractInv'
  BY DEF vars, treasuryVars, hookVars, flowVars, TypeOK, TreasuryTypeOK, ContractInv,
         NoStandingApproval
<1>2. Init => ContractInv
  BY TypeInit DEF Init, TreasuryInit, Zeros, NoStandingApproval, ContractInv
<1> QED BY <1>1, <1>2, ContractInvStep, PTL DEF Spec

(***************************************************************************)
(* Statuses, control points, locals and balances are always of their       *)
(* types: in particular no request ever writes a payment status the domain *)
(* does not know, and no payment overdraws the treasury.                   *)
(***************************************************************************)
THEOREM PayrollTypeCorrect == Spec => []TypeOK
<1>1. ContractInv => TypeOK
  BY DEF ContractInv
<1> QED BY <1>1, ContractInvariance, PTL

-----------------------------------------------------------------------------
(***************************************************************************)
(* ExecutedAtMostOnce is not inductive: it does not say that a payment the *)
(* loop of executePayrollPayments has still to visit is one nothing was    *)
(* mined for.  ExecutionInv says so, and for that it follows a payment     *)
(* from the creation of its payroll to its turn in the loop.               *)
(***************************************************************************)
Unstarted ==
  {"idle", "createPayments", "request", "requestLoop", "requestRecord", "requested",
   "requestThrew", "execute", "executeBalance"}

\* Payment p's turn in the loop of executePayrollPayments is still to come.
NotYetExecuted(p) ==
  \/ pc[PayrollOf[p]] \in Unstarted
  \/ pc[PayrollOf[p]] \in Executing /\ p \in todo[PayrollOf[p]]

\* The loops handle the payments of their own payroll.
LoopsStayInPayroll ==
  \A r \in Payrolls :
     /\ todo[r] \subseteq PaymentsOf(r)
     /\ pc[r] \in {"requestRecord", "executeRecord", "executeFail"} => cur[r] \in PaymentsOf(r)

NothingMinedEarly == \A p \in Payments : NotYetExecuted(p) => Mined(p) = 0

RecordsMined == \A r \in Payrolls : pc[r] = "executeRecord" => Mined(cur[r]) = 1

ExecutionInv ==
  /\ TypeOK
  /\ LoopsStayInPayroll
  /\ NothingMinedEarly
  /\ RecordsMined
  /\ ExecutedAtMostOnce
-----------------------------------------------------------------------------
(***************************************************************************)
(* A step that mines nothing keeps ExecutionInv if it moves one job, lets  *)
(* no payment of it become due again, and stores no execution's hash but   *)
(* that of a payment whose execution is being recorded.                    *)
(***************************************************************************)
Quiet(r) ==
  /\ UNCHANGED <<transfers, refusals>>
  /\ \A q \in Payrolls \ {r} : pc'[q] = pc[q] /\ todo'[q] = todo[q] /\ cur'[q] = cur[q]
  /\ todo'[r] \subseteq PaymentsOf(r)
  /\ pc'[r] \in Unstarted => pc[r] \in Unstarted
  /\ pc'[r] \in Executing =>
        \/ pc[r] \in Unstarted
        \/ pc[r] \in Executing /\ todo'[r] \subseteq todo[r]
  /\ pc'[r] \in {"requestRecord", "executeRecord", "executeFail"} => cur'[r] \in PaymentsOf(r)
  /\ pc'[r] # "executeRecord"
  /\ \A p \in Payments :
        txHash'[p] = "execute" =>
           txHash[p] = "execute" \/ (pc[r] = "executeRecord" /\ p = cur[r])

\* A quiet step of one job keeps the invariant: no execution is mined, the loop only
\* shrinks, and a hash is stored only of the transaction the job has just seen mined.
LEMMA QuietStep ==
  ASSUME ExecutionInv, TypeOK', NEW r \in Payrolls, Quiet(r)
  PROVE  ExecutionInv'
<1>1. \A p \in Payments : PayrollOf[p] \in Payrolls
  BY HookAssumption
<1>2. \A p \in Payments : Mined(p)' = Mined(p)
  BY DEF Quiet, Mined
<1>3. LoopsStayInPayroll'
  BY DEF Quiet, ExecutionInv, LoopsStayInPayroll, PaymentsOf
<1>4. ASSUME NEW p \in Payments, NotYetExecuted(p)'
      PROVE  NotYetExecuted(p)
  BY <1>1, <1>4 DEF Quiet, NotYetExecuted
<1>5. NothingMinedEarly'
  BY <1>2, <1>4 DEF ExecutionInv, NothingMinedEarly
<1>6. RecordsMined'
  <2> SUFFICES ASSUME NEW q \in Payrolls, pc'[q] = "executeRecord"
               PROVE  Mined(cur[q])' = 1
    BY DEF RecordsMined
  <2>1. q # r /\ pc[q] = "executeRecord" /\ cur'[q] = cur[q]
    BY DEF Quiet
  <2>2. Mined(cur[q]) = 1 /\ cur[q] \in Payments
    BY <2>1 DEF ExecutionInv, RecordsMined, LoopsStayInPayroll, PaymentsOf
  <2> QED BY <2>1, <2>2 DEF Quiet, Mined
<1>7. ExecutedAtMostOnce'
  <2>1. ASSUME NEW p \in Payments
        PROVE  Mined(p)' <= 1 /\ (txHash'[p] = "execute" => Mined(p)' = 1)
    BY <1>2 DEF Quiet, ExecutionInv, ExecutedAtMostOnce, RecordsMined
  <2> QED BY <2>1 DEF ExecutedAtMostOnce
<1> QED BY <1>3, <1>5, <1>6, <1>7 DEF ExecutionInv

(***************************************************************************)
(* Every step of a route outside the contract calls is of that kind.       *)
(***************************************************************************)
LEMMA FlowStepQuiet ==
  ASSUME TypeOK, LoopsStayInPayroll, NEW r \in Payrolls, FlowStep(r) \/ CreatePayroll(r)
  PROVE  Quiet(r)
<1>1. UNCHANGED <<transfers, refusals, txHash, cur>>
  BY DEF CreatePayroll,
      FlowStep, CreatePayments, AfterRequest, AfterRequestThrew, AfterExecute,
      AfterExecuteThrew, MarkOnchainPaid, MarkOnchainPaidPayments, RailSkipped, RailStart,
      RailStartPayments, RailUnmarked, CreateRailPayment, NoWithdrawal,
      RailFinish, RailFinishPayments, FinalRead, FinalReadThrows, OuterCatch, WritePayroll, WritePayments, FlowOnly, Returned,
      chainVars, dbVars
<1>2. \/ todo' = todo
      \/ todo' = [todo EXCEPT ![r] = {}]
  BY DEF CreatePayroll,
      FlowStep, CreatePayments, AfterRequest, AfterRequestThrew, AfterExecute,
      AfterExecuteThrew, MarkOnchainPaid, MarkOnchainPaidPayments, RailSkipped, RailStart,
      RailStartPayments, RailUnmarked, CreateRailPayment, NoWithdrawal,
      RailFinish, RailFinishPayments, FinalRead, FinalReadThrows, OuterCatch, WritePayroll, WritePayments, FlowOnly, Returned
<1>3. \E to \in FlowLabels \cup {"request", "execute"} :
         /\ pc' = [pc EXCEPT ![r] = to]
         /\ to \in Unstarted => pc[r] \in Unstarted
  BY DEF CreatePayroll,
      FlowStep, CreatePayments, AfterRequest, AfterRequestThrew, AfterExecute,
      AfterExecuteThrew, MarkOnchainPaid, MarkOnchainPaidPayments, RailSkipped, RailStart,
      RailStartPayments, RailUnmarked, CreateRailPayment, NoWithdrawal,
      RailFinish, RailFinishPayments, FinalRead, FinalReadThrows, OuterCatch, WritePayroll, WritePayments, Ends, Goto,
      FlowLabels, Unstarted
<1>4. pc \in [Payrolls -> HookLabels \cup FlowLabels] /\ todo \in [Payrolls -> SUBSET Payments]
  BY DEF TypeOK
<1>5. \A to \in FlowLabels \cup {"request", "execute"} :
         to \notin Executing /\ to \notin {"requestRecord", "executeRecord", "executeFail"}
  BY DEF FlowLabels, Executing
<1>6. pc'[r] \in FlowLabels \cup {"request", "execute"} /\ (pc'[r] \in Unstarted => pc[r] \in Unstarted)
  BY <1>3, <1>4
<1>7. todo'[r] \subseteq PaymentsOf(r)
  BY <1>2, <1>4 DEF LoopsStayInPayroll
<1>8. \A q \in Payrolls \ {r} : pc'[q] = pc[q] /\ todo'[q] = todo[q] /\ cur'[q] = cur[q]
  BY <1>1, <1>2, <1>3, <1>4
<1> QED BY <1>1, <1>5, <1>6, <1>7, <1>8 DEF Quiet

(***************************************************************************)
(* And so is every step inside the contract calls except the one that is   *)
(* mined.                                                                  *)
(***************************************************************************)
LEMMA HookStepQuiet ==
  ASSUME TypeOK, LoopsStayInPayroll, NEW r \in Payrolls, HookStep(r),
         ~ \E p \in Payments : ExecuteMined(r, p)
  PROVE  Quiet(r)
<1> USE DEF Goto, Quiet, Unstarted, Executing, LoopsStayInPayroll, TypeOK
<1>1. CASE RequestRead(r)
  BY <1>1 DEF RequestRead, ReadPayroll, dbVars, chainVars
<1>2. CASE RequestRecord(r)
  BY <1>2 DEF RequestRecord, chainVars
<1>3. CASE RequestFinish(r)
  BY <1>3 DEF RequestFinish, chainVars
<1>4. CASE ExecuteRead(r)
  BY <1>4 DEF ExecuteRead, ReadPayroll, dbVars, chainVars
<1>5. CASE ExecuteCheckBalance(r)
  BY <1>5 DEF ExecuteCheckBalance, dbVars, chainVars
<1>6. CASE ExecuteRecord(r)
  BY <1>6 DEF ExecuteRecord, dbVars, chainVars
<1>7. CASE ExecuteFail(r)
  BY <1>7 DEF ExecuteFail, chainVars
<1>8. CASE ExecuteReread(r)
  BY <1>8 DEF ExecuteReread, dbVars, chainVars
<1>9. CASE ExecuteFinish(r)
  BY <1>9 DEF ExecuteFinish, chainVars
<1>10. ASSUME NEW p \in Payments, RequestSkip(r, p) PROVE Quiet(r)
  BY <1>10 DEF RequestSkip, Visited, dbVars, chainVars
<1>11. ASSUME NEW p \in Payments, RequestMined(r, p) PROVE Quiet(r)
  BY <1>11 DEF RequestMined, Visited, dbVars, chainVars
<1>12. ASSUME NEW p \in Payments, ExecuteThrows(r, p) PROVE Quiet(r)
  BY <1>12 DEF ExecuteThrows, Visited, dbVars, chainVars
<1>13. ASSUME NEW p \in Payments, TransactionDropped(r, p) PROVE Quiet(r)
  BY <1>13 DEF TransactionDropped, dbVars, chainVars
<1> QED BY <1>1, <1>2, <1>3, <1>4, <1>5, <1>6, <1>7, <1>8, <1>9, <1>10, <1>11, <1>12, <1>13
        DEF HookStep

(***************************************************************************)
(* Whoever mines an execution is at its loop with the payment still to do, *)
(* and no execution of that payment has been mined before.                 *)
(***************************************************************************)
LEMMA MinedIsFirst ==
  ASSUME LoopsStayInPayroll, NothingMinedEarly,
         NEW r \in Payrolls, NEW p \in Payments, ExecuteMined(r, p)
  PROVE  pc[r] = "executeLoop" /\ p \in todo[r] /\ PayrollOf[p] = r /\ Mined(p) = 0
<1>1. pc[r] = "executeLoop" /\ p \in todo[r]
  BY DEF ExecuteMined, Goto
<1>2. PayrollOf[p] = r
  BY <1>1 DEF LoopsStayInPayroll, PaymentsOf
<1>3. NotYetExecuted(p)
  BY <1>1, <1>2 DEF NotYetExecuted, Executing
<1>4. Mined(p) = 0
  BY <1>3 DEF NothingMinedEarly
<1> QED BY <1>1, <1>2, <1>4

(***************************************************************************)
(* A mined execution is the first of its payment, whose turn is now over.  *)
(***************************************************************************)
LEMMA ExecuteMinedStep ==
  ASSUME ExecutionInv, TypeOK', NEW r \in Payrolls, NEW p \in Payments, ExecuteMined(r, p)
  PROVE  ExecutionInv'
<1> USE DEF ExecutionInv
<1>1. pc[r] = "executeLoop" /\ p \in todo[r] /\ PayrollOf[p] = r
  BY MinedIsFirst
<1>2. Mined(p) = 0
  BY MinedIsFirst
<1>3. Mined(p)' = 1
  BY <1>2 DEF ExecuteMined, Mined, TypeOK
<1>4. ASSUME NEW q \in Payments, q # p
      PROVE  Mined(q)' = Mined(q)
  BY <1>4 DEF ExecuteMined, Mined, TypeOK
<1>5. /\ pc' \in {[pc EXCEPT ![r] = "executeRecord"], [pc EXCEPT ![r] = "executeFail"]}
      /\ todo' = [todo EXCEPT ![r] = @ \ {p}]
      /\ cur' = [cur EXCEPT ![r] = p]
      /\ txHash' = txHash
  BY DEF ExecuteMined, Goto, Visited, dbVars
<1>6. /\ pc \in [Payrolls -> HookLabels \cup FlowLabels]
      /\ todo \in [Payrolls -> SUBSET Payments]
      /\ cur \in [Payrolls -> Payments \cup {NoPayment}]
  BY DEF TypeOK
<1>7. LoopsStayInPayroll'
  BY <1>1, <1>5, <1>6 DEF LoopsStayInPayroll, PaymentsOf
<1>8. NothingMinedEarly'
  <2> SUFFICES ASSUME NEW q \in Payments, NotYetExecuted(q)'
               PROVE  Mined(q)' = 0
    BY DEF NothingMinedEarly
  <2>1. PayrollOf[q] \in Payrolls
    BY HookAssumption
  <2>2. q # p
    BY <1>1, <1>5, <1>6 DEF NotYetExecuted, Unstarted, Executing
  <2>3. NotYetExecuted(q)
    BY <1>1, <1>5, <1>6, <2>1 DEF NotYetExecuted, Unstarted, Executing
  <2> QED BY <1>4, <2>2, <2>3 DEF NothingMinedEarly
<1>9. RecordsMined'
  <2> SUFFICES ASSUME NEW s \in Payrolls, pc'[s] = "executeRecord"
               PROVE  Mined(cur[s])' = 1
    BY DEF RecordsMined
  <2>1. CASE s = r
    BY <1>3, <1>5, <1>6, <2>1 DEF Mined
  <2>2. CASE s # r
    <3>1. pc[s] = "executeRecord" /\ cur'[s] = cur[s]
      BY <1>5, <1>6, <2>2
    <3>2. Mined(cur[s]) = 1 /\ cur[s] \in PaymentsOf(s)
      BY <3>1 DEF RecordsMined, LoopsStayInPayroll
    <3>3. cur[s] \in Payments /\ cur[s] # p
      BY <1>1, <2>2, <3>2 DEF PaymentsOf
    <3>4. transfers'[cur[s]] + refusals'[cur[s]] = 1
      BY <1>4, <3>2, <3>3 DEF Mined
    <3> QED BY <3>1, <3>4 DEF Mined
  <2> QED BY <2>1, <2>2
<1>10. ExecutedAtMostOnce'
  <2>1. ASSUME NEW q \in Payments
        PROVE  Mined(q)' <= 1 /\ (txHash'[q] = "execute" => Mined(q)' = 1)
    BY <1>3, <1>4, <1>5 DEF ExecutedAtMostOnce
  <2> QED BY <2>1 DEF ExecutedAtMostOnce
<1> QED BY <1>7, <1>8, <1>9, <1>10

(***************************************************************************)
(* A crash leaves no job in a loop.                                        *)
(***************************************************************************)
LEMMA CrashStep ==
  ASSUME ExecutionInv, TypeOK', Crash
  PROVE  ExecutionInv'
<1> USE DEF ExecutionInv
<1>1. UNCHANGED <<transfers, refusals, txHash>>
  BY DEF Crash, dbVars, chainVars
<1>2. ASSUME NEW r \in Payrolls
      PROVE  \/ pc'[r] = "crashed" /\ todo'[r] = {}
             \/ pc'[r] = pc[r] /\ todo'[r] = todo[r] /\ cur'[r] = cur[r]
  BY DEF Crash
<1>3. \A p \in Payments : Mined(p)' = Mined(p)
  BY <1>1 DEF Mined
<1>4. LoopsStayInPayroll'
  BY <1>2 DEF LoopsStayInPayroll, PaymentsOf
<1>5. NothingMinedEarly'
  <2>1. ASSUME NEW p \in Payments, NotYetExecuted(p)'
        PROVE  NotYetExecuted(p)
    BY <1>2, <2>1, HookAssumption DEF NotYetExecuted, Unstarted, Executing
  <2> QED BY <1>3, <2>1 DEF NothingMinedEarly
<1>6. RecordsMined'
  <2>1. ASSUME NEW r \in Payrolls, pc'[r] = "executeRecord"
        PROVE  transfers'[cur'[r]] + refusals'[cur'[r]] = 1
    BY <1>1, <1>2, <2>1 DEF RecordsMined, Mined
  <2> QED BY <2>1 DEF RecordsMined, Mined
<1>7. ExecutedAtMostOnce'
  BY <1>1, <1>3 DEF ExecutedAtMostOnce
<1> QED BY <1>4, <1>5, <1>6, <1>7

\* Steps of Rail and of the contract's other users touch nothing the invariant speaks of.
LEMMA ExecutionUnchanged ==
  ASSUME ExecutionInv, TypeOK', UNCHANGED <<pc, todo, cur, transfers, refusals, txHash>>
  PROVE  ExecutionInv'
BY DEF ExecutionInv, LoopsStayInPayroll, NothingMinedEarly, NotYetExecuted, RecordsMined,
       ExecutedAtMostOnce, Mined

\* Every step keeps the invariant: quiet steps, the mined execution and the crash.
LEMMA ExecutionStep ==
  ASSUME ExecutionInv, TypeOK', [Next]_vars
  PROVE  ExecutionInv'
<1>1. TypeOK'
  OBVIOUS
<1>2. CASE UNCHANGED vars
  BY <1>1, <1>2, ExecutionUnchanged DEF vars, hookVars
<1>3. ASSUME NEW r \in Payrolls, FlowStep(r) \/ CreatePayroll(r)
      PROVE  ExecutionInv'
  BY <1>1, <1>3, FlowStepQuiet, QuietStep DEF ExecutionInv
<1>4. ASSUME NEW r \in Payrolls, HookStep(r)
      PROVE  ExecutionInv'
  BY <1>1, <1>4, HookStepQuiet, QuietStep, ExecuteMinedStep DEF ExecutionInv
<1>5. ASSUME NEW r \in Payrolls, RailSettles(r)
      PROVE  ExecutionInv'
  BY <1>1, <1>5, ExecutionUnchanged DEF RailSettles, hookVars
<1>6. CASE Crash
  BY <1>1, <1>6, CrashStep
<1>7. CASE OthersUse
  BY <1>1, <1>7, ExecutionUnchanged DEF OthersUse, dbVars
<1> QED BY <1>2, <1>3, <1>4, <1>5, <1>6, <1>7 DEF Next, JobStep

\* Nothing has been mined when the backend starts.
LEMMA ExecutionInit == Init => ExecutionInv
<1> SUFFICES ASSUME Init PROVE ExecutionInv
  OBVIOUS
<1>1. LoopsStayInPayroll
  BY DEF Init, HookInit, LoopsStayInPayroll
<1>2. \A p \in Payments : Mined(p) = 0 /\ txHash[p] # "execute"
  BY DEF Init, HookInit, Mined
<1>3. NothingMinedEarly /\ ExecutedAtMostOnce
  BY <1>2 DEF NothingMinedEarly, ExecutedAtMostOnce
<1>4. RecordsMined
  BY DEF Init, RecordsMined
<1> QED BY <1>1, <1>3, <1>4, TypeInit DEF ExecutionInv

\* The inductive invariant holds in every reachable state of the pipeline.
THEOREM ExecutionInvariance == Spec => []ExecutionInv
<1>1. ExecutionInv /\ TypeOK' /\ [Next]_vars => ExecutionInv'
  BY ExecutionStep
<1> QED BY <1>1, ExecutionInit, PayrollTypeCorrect, PTL DEF Spec

(***************************************************************************)
(* No payment is executed twice on chain, and a stored execution hash is   *)
(* the hash of a mined transaction: for any concurrent requests, with      *)
(* failing writes, lost receipts and crashes anywhere.                     *)
(***************************************************************************)
THEOREM PaymentsExecuteAtMostOnce == Spec => []ExecutedAtMostOnce
BY ExecutionInvariance, PTL DEF ExecutionInv

-----------------------------------------------------------------------------
(***************************************************************************)
(* The pipeline implements Disbursement: a mined PaymentExecuted is        *)
(* Disburse, what others do with the contract is UsedElsewhere, and every  *)
(* other step of every job changes nothing the promise is about.           *)
(***************************************************************************)
LEMMA MinedDisburses ==
  ASSUME ExecutionInv, NEW r \in Payrolls, NEW p \in Payments, ExecuteMined(r, p)
  PROVE  [D!Next]_(D!disbursementVars)
<1>1. Mined(p) = 0
  BY MinedIsFirst DEF ExecutionInv
<1> USE DEF ExecutionInv, TypeOK, TreasuryTypeOK
<1>2. transfers[p] = 0
  BY <1>1 DEF Mined
<1>3. PICK event \in PaymentEvents :
        /\ ExecutePayment(USDC, AmountOf[p], event)
        /\ IF event = "PaymentExecuted"
           THEN transfers' = [transfers EXCEPT ![p] = @ + 1] /\ UNCHANGED refusals
           ELSE refusals' = [refusals EXCEPT ![p] = @ + 1] /\ UNCHANGED transfers
  BY DEF ExecuteMined
<1>4. CASE event = "PaymentExecuted"
  <2>1. /\ balance[USDC] >= AmountOf[p]
        /\ balance' = [balance EXCEPT ![USDC] = @ - AmountOf[p]]
    BY <1>3, <1>4 DEF ExecutePayment
  <2>2. transfers[p] = 0 /\ transfers' = [transfers EXCEPT ![p] = 1]
    BY <1>2, <1>3, <1>4
  <2>3. AmountOf[p] <= balance[USDC] /\ balance'[USDC] = balance[USDC] - AmountOf[p]
    BY <2>1, HookAssumption
  <2> QED BY <2>1, <2>2, <2>3 DEF D!Next, D!Disburse
<1>5. CASE event # "PaymentExecuted"
  BY <1>3, <1>5 DEF ExecutePayment, D!disbursementVars
<1> QED BY <1>4, <1>5

\* Every step of the pipeline is a payment, another's use, or a stutter of the promise.
LEMMA DisbursementStep ==
  ASSUME ExecutionInv, TypeOK', [Next]_vars
  PROVE  [D!Next]_(D!disbursementVars)
<1>1. CASE UNCHANGED <<treasuryVars, transfers>>
  BY <1>1 DEF treasuryVars, D!disbursementVars
<1>2. ASSUME NEW r \in Payrolls, NEW p \in Payments, ExecuteMined(r, p)
      PROVE  [D!Next]_(D!disbursementVars)
  BY <1>2, MinedDisburses
<1>3. CASE OthersUse
  <2>1. balance'[USDC] \in Nat
    BY HookAssumption DEF TypeOK, TreasuryTypeOK
  <2>2. transfers' = transfers
    BY <1>3 DEF OthersUse
  <2> QED BY <2>1, <2>2 DEF D!Next, D!UsedElsewhere
<1>4. CASE UNCHANGED chainVars
  BY <1>1, <1>4 DEF chainVars
<1>5. CASE UNCHANGED vars
  BY <1>1, <1>5 DEF vars, hookVars
<1> QED BY <1>2, <1>3, <1>4, <1>5, PipelineChainSteps

(***************************************************************************)
(* Whatever the jobs, the database, the chain's receipts, Rail and the     *)
(* contract's other users do, the pipeline takes money out of the treasury *)
(* only as Disbursement allows: each payment at most once, in full and     *)
(* from funds that are there.                                              *)
(***************************************************************************)
THEOREM PipelineDisburses == Spec => Disburses
<1>1. Init => D!Init
  BY HookAssumption DEF Init, TreasuryInit, HookInit, D!Init, Zeros
<1>2. ExecutionInv /\ TypeOK' /\ [Next]_vars => [D!Next]_(D!disbursementVars)
  BY DisbursementStep
<1> QED BY <1>1, <1>2, ExecutionInvariance, PayrollTypeCorrect, PTL DEF Spec, D!Spec, Disburses
-----------------------------------------------------------------------------
(***************************************************************************)
(* What a payroll's statuses stand for, whatever fails.  StatusInv relates a *)
(* status, a flag of the answer, a collected hash and Rail's answer to the *)
(* place of the job and to the transactions that were mined: none of the   *)
(* three properties below it is inductive without the job's place.         *)
(***************************************************************************)

HasExecuted(r) == \E p \in PaymentsOf(r) : Mined(p) > 0

(***************************************************************************)
(* PAID, in a row or in the job, is what Rail said of a withdrawal that is *)
(* not asked for again.                                                    *)
(***************************************************************************)
RailTold(r) ==
  /\ railResult[r] # "none" => pc[r] \in {"railFinish", "railFinishPayments", "final", "outerCatch"}
  /\ pc[r] \in {"railFinish", "railFinishPayments"} => railResult[r] # "none"
  /\ payrollStatus[r] = "PAID" =>
        pc[r] \in {"railFinishPayments", "final", "outerCatch", "done", "crashed"}
  /\ railResult[r] = "PAID" \/ payrollStatus[r] = "PAID" => RailMock \/ rail[r] = "completed"

(***************************************************************************)
(* A payment the loop has dealt with was mined or reads FAILED, and what   *)
(* stands for an execution, a hash, a flag or a status, has one.           *)
(***************************************************************************)
Visits(r) ==
  pc[r] \in Executing \cup {"executeBalance"} =>
     \A p \in PaymentsOf(r) \ todo[r] :
        \/ Mined(p) > 0
        \/ paymentStatus[p] = "FAILED"
        \/ pc[r] = "executeFail" /\ p = cur[r]

HashesMined(r) ==
  pc[r] \in Executing \cup {"executeBalance", "executeSet", "executed"} =>
     \A p \in hashes[r] : p \in PaymentsOf(r) /\ Mined(p) > 0

ExecutionBacked(r) ==
  \/ payrollStatus[r] = "ONCHAIN_PAID"
  \/ outcome[r] = "ONCHAIN_PAID"
  \/ steps[r].executed
  \/ pc[r] \in {"markPaid", "markPaidPayments"}
  => HasExecuted(r)

FlagsBacked(r) ==
  /\ steps[r].rail => railResult[r] # "none"
  /\ pc[r] = "final" => steps[r].errors \/ steps[r].rail

\* What the job has been told by Rail is what it writes, and an open withdrawal exists.
RailAnswered(r) ==
  /\ railResult[r] = "PROCESSING" => rail[r] # "none"
  /\ steps[r].rail => pc[r] \in {"final", "outerCatch"}
  /\ pc[r] = "railFinishPayments" \/ (pc[r] = "final" /\ steps[r].rail) =>
        payrollStatus[r] = FinalStatus(r)

StatusInvOf(r) ==
  /\ RailTold(r) /\ Visits(r) /\ HashesMined(r) /\ ExecutionBacked(r) /\ FlagsBacked(r)
  /\ RailAnswered(r)

StatusInv == \A r \in Payrolls : StatusInvOf(r)

\* A step of one job touches no other job's locals and rows, and no other's payments.
OthersKeep(r) ==
  /\ \A q \in Payrolls \ {r} :
        /\ pc'[q] = pc[q] /\ todo'[q] = todo[q] /\ cur'[q] = cur[q]
        /\ hashes'[q] = hashes[q] /\ outcome'[q] = outcome[q] /\ steps'[q] = steps[q]
        /\ rail'[q] = rail[q] /\ railResult'[q] = railResult[q] /\ reply'[q] = reply[q]
        /\ payrollStatus'[q] = payrollStatus[q]
  /\ \A p \in Payments \ PaymentsOf(r) :
        /\ paymentStatus'[p] = paymentStatus[p]
        /\ transfers'[p] = transfers[p] /\ refusals'[p] = refusals[p]

(***************************************************************************)
(* A step of ContractHook touches nothing of another payroll.              *)
(***************************************************************************)
LEMMA HookStepLocal ==
  ASSUME TypeOK, LoopsStayInPayroll, NEW r \in Payrolls, HookStep(r), UNCHANGED flowVars
  PROVE  OthersKeep(r)
<1> USE DEF Goto, OthersKeep, LoopsStayInPayroll, TypeOK, flowVars, dbVars, chainVars
<1>1. CASE RequestRead(r)
  BY <1>1 DEF RequestRead, ReadPayroll
<1>2. CASE RequestRecord(r)
  BY <1>2 DEF RequestRecord
<1>3. CASE RequestFinish(r)
  BY <1>3 DEF RequestFinish, SetPayroll
<1>4. CASE ExecuteRead(r)
  BY <1>4 DEF ExecuteRead, ReadPayroll
<1>5. CASE ExecuteCheckBalance(r)
  BY <1>5 DEF ExecuteCheckBalance
<1>6. CASE ExecuteRecord(r)
  BY <1>6 DEF ExecuteRecord
<1>7. CASE ExecuteFail(r)
  BY <1>7 DEF ExecuteFail
<1>8. CASE ExecuteReread(r)
  BY <1>8 DEF ExecuteReread
<1>9. CASE ExecuteFinish(r)
  BY <1>9 DEF ExecuteFinish, SetPayroll
<1>10. ASSUME NEW p \in Payments, RequestSkip(r, p) PROVE OthersKeep(r)
  BY <1>10 DEF RequestSkip, Visited
<1>11. ASSUME NEW p \in Payments, RequestMined(r, p) PROVE OthersKeep(r)
  BY <1>11 DEF RequestMined, Visited
<1>12. ASSUME NEW p \in Payments, ExecuteThrows(r, p) PROVE OthersKeep(r)
  BY <1>12 DEF ExecuteThrows, Visited
<1>13. ASSUME NEW p \in Payments, ExecuteMined(r, p) PROVE OthersKeep(r)
  <2>1. p \in PaymentsOf(r)
    BY <1>13 DEF ExecuteMined
  <2> QED BY <1>13, <2>1 DEF ExecuteMined, Visited
<1>14. ASSUME NEW p \in Payments, TransactionDropped(r, p) PROVE OthersKeep(r)
  BY <1>14 DEF TransactionDropped
<1> QED BY <1>1, <1>2, <1>3, <1>4, <1>5, <1>6, <1>7, <1>8, <1>9, <1>10, <1>11, <1>12, <1>13, <1>14
        DEF HookStep

(***************************************************************************)
(* Neither does a step of the routes.                                      *)
(***************************************************************************)
LEMMA FlowStepLocal ==
  ASSUME TypeOK, NEW r \in Payrolls, FlowStep(r) \/ CreatePayroll(r)
  PROVE  OthersKeep(r)
<1> USE DEF Goto, OthersKeep, TypeOK, dbVars, chainVars, FlowOnly, Returned, Ends, Answer, Errored,
            WritePayroll, WritePayments, SetPayroll, SetAllPayments, PaymentsOf, flowVars
<1>1. CASE CreatePayroll(r) BY <1>1 DEF CreatePayroll
<1>2. CASE CreatePayments(r) BY <1>2 DEF CreatePayments
<1>3. CASE AfterRequest(r) BY <1>3 DEF AfterRequest
<1>4. CASE AfterRequestThrew(r) BY <1>4 DEF AfterRequestThrew
<1>5. CASE AfterExecute(r) BY <1>5 DEF AfterExecute
<1>6. CASE AfterExecuteThrew(r) BY <1>6 DEF AfterExecuteThrew
<1>7. CASE MarkOnchainPaid(r) BY <1>7 DEF MarkOnchainPaid
<1>8. CASE MarkOnchainPaidPayments(r) BY <1>8 DEF MarkOnchainPaidPayments
<1>9. CASE RailSkipped(r) BY <1>9 DEF RailSkipped
<1>10. CASE RailStart(r) BY <1>10 DEF RailStart
<1>11. CASE RailStartPayments(r) BY <1>11 DEF RailStartPayments
<1>12. CASE RailUnmarked(r) BY <1>12 DEF RailUnmarked
<1>13. CASE CreateRailPayment(r) BY <1>13 DEF CreateRailPayment, NoWithdrawal
<1>14. CASE RailFinish(r) BY <1>14 DEF RailFinish
<1>15. CASE RailFinishPayments(r) BY <1>15 DEF RailFinishPayments
<1>16. CASE FinalRead(r) BY <1>16 DEF FinalRead
<1>17. CASE FinalReadThrows(r) BY <1>17 DEF FinalReadThrows
<1>18. CASE OuterCatch(r) BY <1>18 DEF OuterCatch
<1> QED BY <1>1, <1>2, <1>3, <1>4, <1>5, <1>6, <1>7, <1>8, <1>9, <1>10, <1>11, <1>12, <1>13,
           <1>14, <1>15, <1>16, <1>17, <1>18 DEF FlowStep

(***************************************************************************)
(* A payroll another job leaves alone keeps its part of StatusInv.         *)
(***************************************************************************)
LEMMA OthersInv ==
  ASSUME NEW r \in Payrolls, OthersKeep(r), NEW q \in Payrolls \ {r}, StatusInvOf(q)
  PROVE  StatusInvOf(q)'
<1>1. \A p \in PaymentsOf(q) : p \in Payments /\ p \notin PaymentsOf(r)
  BY DEF PaymentsOf
<1>2. PaymentsOf(q)' = PaymentsOf(q)
  BY DEF PaymentsOf
<1>3. \A p \in PaymentsOf(q) : Mined(p)' = Mined(p) /\ paymentStatus'[p] = paymentStatus[p]
  BY <1>1 DEF OthersKeep, Mined
<1>4. HasExecuted(q) => HasExecuted(q)'
  BY <1>2, <1>3 DEF HasExecuted
<1>5. /\ pc'[q] = pc[q] /\ todo'[q] = todo[q] /\ cur'[q] = cur[q]
      /\ hashes'[q] = hashes[q] /\ outcome'[q] = outcome[q] /\ steps'[q] = steps[q]
      /\ rail'[q] = rail[q] /\ railResult'[q] = railResult[q]
      /\ payrollStatus'[q] = payrollStatus[q]
  BY DEF OthersKeep
<1>6. RailTold(q)' /\ FlagsBacked(q)' /\ ExecutionBacked(q)'
  BY <1>4, <1>5 DEF StatusInvOf, RailTold, FlagsBacked, ExecutionBacked
<1>7. HashesMined(q)'
  BY <1>2, <1>3, <1>5 DEF StatusInvOf, HashesMined
<1>8. Visits(q)'
  BY <1>2, <1>3, <1>5 DEF StatusInvOf, Visits
<1>9. RailAnswered(q)'
  BY <1>5 DEF StatusInvOf, RailAnswered, FinalStatus
<1> QED BY <1>6, <1>7, <1>8, <1>9 DEF StatusInvOf

(***************************************************************************)
(* The routes write the status Rail's answer gives, to the payroll first.  *)
(***************************************************************************)
LEMMA FlowStepAnswered ==
  ASSUME TypeOK, NEW r \in Payrolls, FlowStep(r) \/ CreatePayroll(r), StatusInvOf(r)
  PROVE  RailAnswered(r)'
<1> USE DEF Goto, TypeOK, dbVars, FlowOnly, Ends, Answer, Errored,
            WritePayroll, WritePayments, SetPayroll, StepFlags, NoSteps, flowVars,
            RailTold, RailAnswered, StatusInvOf, FinalStatus
<1>a. CASE CreatePayroll(r) BY <1>a DEF CreatePayroll
<1>b. CASE CreatePayments(r) BY <1>b, SMTT(30) DEF CreatePayments
<1>c. CASE AfterRequest(r) BY <1>c DEF AfterRequest
<1>d. CASE AfterRequestThrew(r) BY <1>d, SMTT(30) DEF AfterRequestThrew
<1>e. CASE AfterExecute(r) BY <1>e DEF AfterExecute
<1>f. CASE AfterExecuteThrew(r) BY <1>f DEF AfterExecuteThrew
<1>g. CASE MarkOnchainPaid(r) BY <1>g, SMTT(30) DEF MarkOnchainPaid
<1>h. CASE MarkOnchainPaidPayments(r) BY <1>h DEF MarkOnchainPaidPayments
<1>i. CASE RailSkipped(r) BY <1>i DEF RailSkipped
<1>j. CASE RailStart(r) BY <1>j DEF RailStart
<1>k. CASE RailStartPayments(r) BY <1>k, SMTT(30) DEF RailStartPayments
<1>l. CASE RailUnmarked(r) BY <1>l DEF RailUnmarked
<1>m. CASE CreateRailPayment(r) BY <1>m, SMTT(30) DEF CreateRailPayment, NoWithdrawal, RailStatus
<1>n. CASE RailFinish(r) BY <1>n, SMTT(30) DEF RailFinish
<1>o. CASE RailFinishPayments(r) BY <1>o, SMTT(30) DEF RailFinishPayments
<1>p. CASE FinalRead(r) BY <1>p DEF FinalRead
<1>q. CASE FinalReadThrows(r) BY <1>q DEF FinalReadThrows
<1>r. CASE OuterCatch(r) BY <1>r DEF OuterCatch
<1> QED BY <1>a, <1>b, <1>c, <1>d, <1>e, <1>f, <1>g, <1>h, <1>i, <1>j, <1>k, <1>l, <1>m,
           <1>n, <1>o, <1>p, <1>q, <1>r DEF FlowStep

(***************************************************************************)
(* The routes mine nothing; their flags and statuses follow what was mined *)
(* and what Rail answered.                                                 *)
(***************************************************************************)
LEMMA FlowStepKeeps ==
  ASSUME TypeOK, NEW r \in Payrolls, FlowStep(r) \/ CreatePayroll(r), StatusInvOf(r)
  PROVE  StatusInvOf(r)'
<1>1. /\ transfers' = transfers /\ refusals' = refusals
      /\ cur' = cur
  BY DEF CreatePayroll,
      FlowStep, CreatePayments, AfterRequest, AfterRequestThrew, AfterExecute,
      AfterExecuteThrew, MarkOnchainPaid, MarkOnchainPaidPayments, RailSkipped, RailStart,
      RailStartPayments, RailUnmarked, CreateRailPayment, NoWithdrawal,
      RailFinish, RailFinishPayments, FinalRead, FinalReadThrows, OuterCatch, WritePayroll, WritePayments, FlowOnly, Returned,
      chainVars, dbVars
<1>2. HasExecuted(r)' <=> HasExecuted(r)
  BY <1>1 DEF HasExecuted, PaymentsOf, Mined
<1>3. pc'[r] \in FlowLabels \cup {"request", "execute"}
  BY DEF TypeOK, CreatePayroll,
      FlowStep, CreatePayments, AfterRequest, AfterRequestThrew, AfterExecute,
      AfterExecuteThrew, MarkOnchainPaid, MarkOnchainPaidPayments, RailSkipped, RailStart,
      RailStartPayments, RailUnmarked, CreateRailPayment, NoWithdrawal,
      RailFinish, RailFinishPayments, FinalRead, FinalReadThrows, OuterCatch, WritePayroll, WritePayments, Ends, Goto,
      FlowLabels
<1>4. Visits(r)' /\ HashesMined(r)'
  BY <1>3 DEF Visits, HashesMined, FlowLabels, Executing
<1>5. RailAnswered(r)'
  BY FlowStepAnswered
<1> SUFFICES RailTold(r)' /\ ExecutionBacked(r)' /\ FlagsBacked(r)'
  BY <1>4, <1>5 DEF StatusInvOf
<1> USE <1>2 DEF Goto, TypeOK, dbVars, chainVars, FlowOnly, Returned, Ends, Answer, Errored,
            WritePayroll, WritePayments, SetPayroll, StepFlags, NoSteps, flowVars,
            RailTold, ExecutionBacked, FlagsBacked, StatusInvOf
<1>a. CASE CreatePayroll(r) BY <1>a DEF CreatePayroll
<1>b. CASE CreatePayments(r)
  <2>1. CASE UNCHANGED <<steps, railResult, reply>>
    BY <1>b, <2>1 DEF CreatePayments
  <2>2. CASE Ends(r, "createPayments", "error")
    BY <1>b, <2>2 DEF CreatePayments
  <2>3. ASSUME NEW threw \in BOOLEAN, steps' = [steps EXCEPT ![r].errors = threw]
        PROVE  steps'[r].executed = steps[r].executed /\ steps'[r].rail = steps[r].rail
    BY <2>3
  <2>4. CASE \E threw \in BOOLEAN : steps' = [steps EXCEPT ![r].errors = threw]
    BY <1>b, <2>3, <2>4 DEF CreatePayments
  <2>5. \A t \in BOOLEAN : (t \/ ~HasRecipient(r)) \in BOOLEAN
    OBVIOUS
  <2> QED BY <1>b, <2>1, <2>2, <2>4, <2>5 DEF CreatePayments
<1>c. CASE AfterRequest(r) BY <1>c DEF AfterRequest
<1>d. CASE AfterRequestThrew(r)
  <2>1. CASE Ends(r, "requestThrew", "error")
    BY <1>d, <2>1 DEF AfterRequestThrew
  <2>2. CASE Goto(r, "requestThrew", "execute") /\ Errored(r) /\ UNCHANGED <<railResult, reply>>
    BY <1>d, <2>2 DEF AfterRequestThrew
  <2> QED BY <1>d, <2>1, <2>2 DEF AfterRequestThrew
<1>e. CASE AfterExecute(r) 
  <2>1. hashes[r] # {} => HasExecuted(r)
    BY <1>e DEF AfterExecute, HashesMined, HasExecuted
  <2> QED BY <1>e, <2>1 DEF AfterExecute
<1>f. CASE AfterExecuteThrew(r) BY <1>f DEF AfterExecuteThrew
<1>g. CASE MarkOnchainPaid(r)
  <2>1. /\ pc[r] = "markPaid" /\ pc'[r] \in {"markPaidPayments", "rail"}
        /\ payrollStatus'[r] \in {"ONCHAIN_PAID", payrollStatus[r]}
        /\ steps'[r].executed = steps[r].executed /\ steps'[r].rail = steps[r].rail
        /\ UNCHANGED <<outcome, rail, railResult>>
    BY <1>g DEF MarkOnchainPaid
  <2>2. HasExecuted(r)
    BY <2>1
  <2> QED BY <2>1, <2>2
<1>h. CASE MarkOnchainPaidPayments(r) BY <1>h DEF MarkOnchainPaidPayments
<1>i. CASE RailSkipped(r) BY <1>i DEF RailSkipped
<1>j. CASE RailStart(r) BY <1>j DEF RailStart
<1>k. CASE RailStartPayments(r) BY <1>k, SMTT(60) DEF RailStartPayments
<1>l. CASE RailUnmarked(r) BY <1>l DEF RailUnmarked
<1>m. CASE CreateRailPayment(r) BY <1>m DEF CreateRailPayment, NoWithdrawal, RailStatus
<1>n. CASE RailFinish(r)
  <2>1. /\ FinalStatus(r) = "PAID" => railResult[r] = "PAID"
        /\ FinalStatus(r) = "ONCHAIN_PAID" => steps[r].executed
    BY DEF FinalStatus, RailResults
  <2> QED BY <1>n, <2>1, SMTT(60) DEF RailFinish
<1>o. CASE RailFinishPayments(r) BY <1>o, SMTT(30) DEF RailFinishPayments
<1>p. CASE FinalRead(r) BY <1>p DEF FinalRead
<1>q. CASE FinalReadThrows(r) BY <1>q DEF FinalReadThrows
<1>r. CASE OuterCatch(r) BY <1>r DEF OuterCatch
<1> QED BY <1>a, <1>b, <1>c, <1>d, <1>e, <1>f, <1>g, <1>h, <1>i, <1>j, <1>k, <1>l, <1>m,
           <1>n, <1>o, <1>p, <1>q, <1>r DEF FlowStep

(***************************************************************************)
(* ContractHook's loop deals with one payment at a time, and its outcome is *)
(* ONCHAIN_PAID only over payments that were executed.                     *)
(***************************************************************************)
LEMMA HookStepKeeps ==
  ASSUME ExecutionInv, NEW r \in Payrolls, HookStep(r), UNCHANGED flowVars, StatusInvOf(r)
  PROVE  StatusInvOf(r)'
<1>1. \A p \in PaymentsOf(r) : p \in Payments /\ PayrollOf[p] = r
  BY DEF PaymentsOf
<1>2. PaymentsOf(r)' = PaymentsOf(r) /\ PaymentsOf(r) # {}
  BY FlowAssumption DEF PaymentsOf
<1>3. \A p \in Payments : Mined(p) > 0 => Mined(p)' > 0
  BY DEF HookStep, RequestRead, RequestRecord, RequestFinish, ExecuteRead, ExecuteCheckBalance,
      ExecuteRecord, ExecuteFail, ExecuteReread, ExecuteFinish, RequestSkip, RequestMined,
      TransactionDropped, ExecuteThrows, ExecuteMined, chainVars, Mined, ExecutionInv, TypeOK
<1>4. HasExecuted(r) => HasExecuted(r)'
  BY <1>1, <1>2, <1>3 DEF HasExecuted
<1> DEFINE Backing == ExecutionBacked(r)' /\ RailTold(r)' /\ FlagsBacked(r)'
<1> USE <1>1, <1>2, <1>3, <1>4
    DEF ExecutionInv, Goto, TypeOK, dbVars, chainVars, SetPayroll, flowVars, Executing,
        RailTold, ExecutionBacked, FlagsBacked, StatusInvOf, Visits, HashesMined, RailAnswered
<1>a. CASE RequestRead(r) BY <1>a DEF RequestRead, ReadPayroll
<1>b. CASE RequestRecord(r) BY <1>b DEF RequestRecord
<1>c. CASE RequestFinish(r) BY <1>c DEF RequestFinish
<1>d. CASE ExecuteRead(r) BY <1>d DEF ExecuteRead, ReadPayroll
<1>e. CASE ExecuteCheckBalance(r) BY <1>e DEF ExecuteCheckBalance
<1>f. CASE ExecuteRecord(r)
  <2>1. Mined(cur[r]) > 0 /\ cur[r] \in PaymentsOf(r)
    BY <1>f DEF ExecuteRecord, RecordsMined, LoopsStayInPayroll
  <2> QED BY <1>f, <2>1 DEF ExecuteRecord
<1>g. CASE ExecuteFail(r) BY <1>g DEF ExecuteFail, LoopsStayInPayroll
<1>h. CASE ExecuteReread(r)
  <2>1. ExecutionOutcome(r) = "ONCHAIN_PAID" => HasExecuted(r)
    BY <1>h DEF ExecuteReread, ExecutionOutcome, HasExecuted
  <2> QED BY <1>h, <2>1 DEF ExecuteReread
<1>i. CASE ExecuteFinish(r) BY <1>i DEF ExecuteFinish
<1>j. ASSUME NEW p \in Payments, RequestSkip(r, p) PROVE StatusInvOf(r)'
  BY <1>j DEF RequestSkip, Visited
<1>k. ASSUME NEW p \in Payments, RequestMined(r, p) PROVE StatusInvOf(r)'
  BY <1>k DEF RequestMined, Visited
<1>l. ASSUME NEW p \in Payments, ExecuteThrows(r, p) PROVE StatusInvOf(r)'
  BY <1>l DEF ExecuteThrows, Visited
<1>m. ASSUME NEW p \in Payments, ExecuteMined(r, p) PROVE StatusInvOf(r)'
  <2>1. Mined(p)' > 0 /\ p \in PaymentsOf(r)
    BY <1>m DEF ExecuteMined, Mined, LoopsStayInPayroll
  <2> QED BY <1>m, <2>1 DEF ExecuteMined, Visited
<1>n. ASSUME NEW p \in Payments, TransactionDropped(r, p) PROVE StatusInvOf(r)'
  BY <1>n DEF TransactionDropped
<1> QED BY <1>a, <1>b, <1>c, <1>d, <1>e, <1>f, <1>g, <1>h, <1>i, <1>j, <1>k, <1>l, <1>m, <1>n
        DEF HookStep

(***************************************************************************)
(* A crash loses the job's locals, not what the rows stand for.            *)
(***************************************************************************)
LEMMA CrashKeepsStatus ==
  ASSUME NEW r \in Payrolls, Crash, TypeOK, StatusInvOf(r)
  PROVE  StatusInvOf(r)'
<1>1. /\ HasExecuted(r)' <=> HasExecuted(r)
      /\ PaymentsOf(r)' = PaymentsOf(r)
      /\ \A p \in Payments : Mined(p)' = Mined(p)
      /\ payrollStatus' = payrollStatus /\ paymentStatus' = paymentStatus /\ rail' = rail
  BY DEF Crash, dbVars, chainVars, HasExecuted, Mined, PaymentsOf
<1>2. \/ /\ pc'[r] = "crashed" /\ outcome'[r] = "none"
         /\ steps'[r] = NoSteps /\ railResult'[r] = "none"
      \/ /\ pc'[r] = pc[r] /\ todo'[r] = todo[r] /\ cur'[r] = cur[r] /\ hashes'[r] = hashes[r]
         /\ outcome'[r] = outcome[r] /\ steps'[r] = steps[r] /\ railResult'[r] = railResult[r]
  BY DEF Crash
<1>3. RailTold(r)' /\ ExecutionBacked(r)' /\ FlagsBacked(r)'
  BY <1>1, <1>2 DEF StatusInvOf, RailTold, ExecutionBacked, FlagsBacked, NoSteps
<1>4. Visits(r)' /\ HashesMined(r)'
  BY <1>1, <1>2 DEF StatusInvOf, Visits, HashesMined, PaymentsOf, Executing
<1>5. RailAnswered(r)'
  BY <1>1, <1>2 DEF StatusInvOf, RailAnswered, FinalStatus, NoSteps
<1> QED BY <1>3, <1>4, <1>5 DEF StatusInvOf

(***************************************************************************)
(* Rail's own progress moves an open withdrawal only.                      *)
(***************************************************************************)
LEMMA RailSettlesKeepsStatus ==
  ASSUME TypeOK, NEW r \in Payrolls, RailSettles(r)
  PROVE  OthersKeep(r) /\ (StatusInvOf(r) => StatusInvOf(r)')
<1>1. UNCHANGED <<hookVars, steps, railResult, reply>> /\ rail[r] = "open"
  BY DEF RailSettles
<1>2. OthersKeep(r)
  BY DEF RailSettles, OthersKeep, hookVars, TypeOK
<1>3. HasExecuted(r)' <=> HasExecuted(r)
  BY <1>1 DEF hookVars, HasExecuted, Mined, PaymentsOf
<1>4. Visits(r)' <=> Visits(r)
  BY <1>1 DEF hookVars, Visits, Mined, PaymentsOf
<1>5. HashesMined(r)' <=> HashesMined(r)
  BY <1>1 DEF hookVars, HashesMined, Mined, PaymentsOf
<1>6. StatusInvOf(r) => RailTold(r)' /\ ExecutionBacked(r)' /\ FlagsBacked(r)'
  BY <1>1, <1>3 DEF hookVars, RailTold, ExecutionBacked, FlagsBacked, StatusInvOf
<1>7. StatusInvOf(r) => RailAnswered(r)'
  <2>1. rail'[r] # "none"
    BY DEF RailSettles, TypeOK
  <2> QED BY <1>1, <2>1 DEF hookVars, RailAnswered, FinalStatus, StatusInvOf
<1> QED BY <1>2, <1>4, <1>5, <1>6, <1>7 DEF StatusInvOf

(***************************************************************************)
(* Every step of the pipeline keeps StatusInv.                             *)
(***************************************************************************)
LEMMA StatusInvStep ==
  ASSUME ExecutionInv, StatusInv, [Next]_vars
  PROVE  StatusInv'
<1> SUFFICES ASSUME NEW q \in Payrolls PROVE StatusInvOf(q)'
  BY DEF StatusInv
<1>1. StatusInvOf(q)
  BY DEF StatusInv
<1>2. CASE UNCHANGED <<dbVars, transfers, refusals, pc, todo, cur, hashes, outcome, flowVars>>
  BY <1>1, <1>2 DEF dbVars, flowVars, StatusInvOf, RailTold, Visits, HashesMined,
      ExecutionBacked, FlagsBacked, RailAnswered, FinalStatus, HasExecuted, Mined, PaymentsOf
<1>3. ASSUME NEW r \in Payrolls, FlowStep(r) \/ CreatePayroll(r)
      PROVE  StatusInvOf(q)'
  BY <1>1, <1>3, FlowStepLocal, FlowStepKeeps, OthersInv DEF ExecutionInv
<1>4. ASSUME NEW r \in Payrolls, HookStep(r), UNCHANGED flowVars
      PROVE  StatusInvOf(q)'
  BY <1>1, <1>4, HookStepLocal, HookStepKeeps, OthersInv DEF ExecutionInv
<1>5. ASSUME NEW r \in Payrolls, RailSettles(r)
      PROVE  StatusInvOf(q)'
  BY <1>1, <1>5, RailSettlesKeepsStatus, OthersInv DEF ExecutionInv
<1>6. CASE Crash
  BY <1>1, <1>6, CrashKeepsStatus DEF ExecutionInv
<1>7. CASE OthersUse
  BY <1>2, <1>7 DEF OthersUse, dbVars
<1>8. CASE UNCHANGED vars
  BY <1>2, <1>8 DEF vars, hookVars, dbVars, flowVars
<1> QED BY <1>3, <1>4, <1>5, <1>6, <1>7, <1>8 DEF Next, JobStep

(***************************************************************************)
(* It holds before the first request.                                      *)
(***************************************************************************)
LEMMA StatusInvInit == Init => StatusInv
BY DEF Init, HookInit, StatusInv, StatusInvOf, RailTold, Visits, HashesMined, ExecutionBacked,
       FlagsBacked, RailAnswered, NoSteps, Executing

(***************************************************************************)
(* StatusInv is an invariant of the pipeline.                              *)
(***************************************************************************)
THEOREM StatusInvariance == Spec => [](ExecutionInv /\ StatusInv)
<1>1. ExecutionInv /\ StatusInv /\ [Next]_vars => StatusInv'
  BY StatusInvStep
<1> QED BY <1>1, StatusInvInit, ExecutionInvariance, PTL DEF Spec

(***************************************************************************)
(* A payroll that reads ONCHAIN_PAID has a payment whose transaction was   *)
(* mined, whatever writes fail, receipts are lost or crashes happen.       *)
(***************************************************************************)
THEOREM OnchainPaidIsBacked == Spec => []OnchainPaidHasTransaction
<1>1. StatusInv => OnchainPaidHasTransaction
  BY DEF StatusInv, StatusInvOf, ExecutionBacked, HasExecuted, OnchainPaidHasTransaction
<1> QED BY <1>1, StatusInvariance, PTL

(***************************************************************************)
(* A payroll that reads PAID has a withdrawal Rail completed, or Rail is   *)
(* mocked.                                                                 *)
(***************************************************************************)
THEOREM PaidIsRailCompleted == Spec => []PaidMeansRailCompleted
<1>1. StatusInv => PaidMeansRailCompleted
  BY DEF StatusInv, StatusInvOf, RailTold, PaidMeansRailCompleted
<1> QED BY <1>1, StatusInvariance, PTL

(***************************************************************************)
(* A success of the process route whose payroll does not read FAILED has a *)
(* mined execution or a withdrawal that Rail accepted, for any requests,   *)
(* interleavings and failures.                                             *)
(***************************************************************************)
THEOREM AnswersAreBacked == Spec => SuccessIsBacked
<1>1. ASSUME ExecutionInv, StatusInv, [Next]_vars,
             NEW r \in Payrolls, Route[r] = "process", reply[r] # "success", reply'[r] = "success"
      PROVE  \/ payrollStatus[r] = "FAILED" \/ RailMock \/ rail[r] # "none"
             \/ \E p \in PaymentsOf(r) : Mined(p) > 0
  <2>1. FinalRead(r)
    <3>1. reply' # reply
      BY <1>1
    <3>2. PICK q \in Payrolls : CreatePayroll(q) \/ FlowStep(q)
      BY <1>1, <3>1 DEF Next, JobStep, RailSettles, Crash, OthersUse, vars, flowVars
    <3>3. q = r
      BY <1>1, <3>2, FlowStepLocal DEF OthersKeep, ExecutionInv
    <3>4. reply \in [Payrolls -> {"none", "success", "failure", "error"}]
      BY <1>1 DEF ExecutionInv, TypeOK
    <3>5. ~CreatePayroll(r) /\ ~CreatePayments(r) /\ ~AfterRequestThrew(r) /\ ~FinalReadThrows(r)
          /\ ~OuterCatch(r)
      BY <1>1, <3>4 DEF CreatePayroll, CreatePayments, AfterRequestThrew, FinalReadThrows, OuterCatch,
                        Ends, Answer
    <3>6. reply' # reply => FinalRead(r)
      BY <3>2, <3>3, <3>5 DEF FlowStep, AfterRequest, AfterExecute, AfterExecuteThrew,
         MarkOnchainPaid, MarkOnchainPaidPayments, RailSkipped, RailStart,
         RailStartPayments, RailUnmarked, CreateRailPayment, NoWithdrawal,
         RailFinish, RailFinishPayments,
         WritePayroll, WritePayments, flowVars
    <3> QED BY <3>1, <3>6
  <2>2. pc[r] = "final" /\ IsSuccess(r)
    BY <1>1, <2>1 DEF FinalRead, Ends, Goto, Answer, ExecutionInv, TypeOK
  <2>3. StatusInvOf(r) /\ railResult[r] \in RailResults
    BY <1>1 DEF StatusInv, ExecutionInv, TypeOK
  <2>4. CASE steps[r].executed
    BY <2>3, <2>4 DEF StatusInvOf, ExecutionBacked, HasExecuted
  <2>5. CASE steps[r].rail /\ ~steps[r].executed
    <3>1. railResult[r] # "none" /\ payrollStatus[r] = FinalStatus(r)
      BY <2>2, <2>3, <2>5 DEF StatusInvOf, FlagsBacked, RailAnswered
    <3>2. CASE railResult[r] = "FAILED"
      BY <1>1, <2>5, <3>1, <3>2 DEF FinalStatus
    <3>3. CASE railResult[r] \in {"PROCESSING", "PAID"}
      BY <2>3, <3>3 DEF StatusInvOf, RailTold, RailAnswered
    <3> QED BY <2>3, <3>1, <3>2, <3>3 DEF RailResults
  <2>6. CASE steps[r].requested /\ ~steps[r].errors /\ ~steps[r].rail
    BY <2>2, <2>3, <2>6 DEF StatusInvOf, FlagsBacked
  <2> QED BY <2>2, <2>4, <2>5, <2>6 DEF IsSuccess
<1>2. ExecutionInv /\ StatusInv /\ [Next]_vars =>
        [\A r \in Payrolls :
            Route[r] = "process" /\ reply[r] # "success" /\ reply'[r] = "success" =>
               \/ payrollStatus[r] = "FAILED" \/ RailMock \/ rail[r] # "none"
               \/ \E p \in PaymentsOf(r) : Mined(p) > 0]_vars
  BY <1>1
<1> QED BY <1>2, StatusInvariance, PTL DEF SuccessIsBacked, Spec
-----------------------------------------------------------------------------
(***************************************************************************)
(* Between a loop's balance check and its last payment: what is left pays  *)
(* what is still to do, as long as nobody else takes stablecoin.           *)
(***************************************************************************)
Left(r) == SumFunctionOnSet(AmountOf, todo[r])

\* What a part of a payroll needs is a number, and no more than the whole needs.
LEMMA PartNeedsLess ==
  ASSUME NEW r \in Payrolls, NEW whole \in SUBSET PaymentsOf(r), NEW part \in SUBSET whole
  PROVE  /\ SumFunctionOnSet(AmountOf, part) \in Nat
         /\ SumFunctionOnSet(AmountOf, part) <= SumFunctionOnSet(AmountOf, whole)
<1>1. IsFiniteSet(whole) /\ IsFiniteSet(part)
  BY HookAssumption, FS_Subset
<1>2. \A p \in whole : AmountOf[p] \in Nat
  BY HookAssumption DEF PaymentsOf
<1> QED BY <1>1, <1>2, SumType, SumSubset

\* A payment that is taken off the list takes its amount off what is still needed.
LEMMA VisitNeedsLess ==
  ASSUME NEW r \in Payrolls, NEW whole \in SUBSET PaymentsOf(r), NEW p \in whole
  PROVE  SumFunctionOnSet(AmountOf, whole) = SumFunctionOnSet(AmountOf, whole \ {p}) + AmountOf[p]
<1>1. IsFiniteSet(whole \ {p})
  BY HookAssumption, FS_Subset
<1>2. (whole \ {p}) \cup {p} = whole /\ p \notin whole \ {p}
  OBVIOUS
<1>3. \A q \in (whole \ {p}) \cup {p} : AmountOf[q] \in Nat
  BY HookAssumption DEF PaymentsOf
<1>4. SumFunctionOnSet(AmountOf, (whole \ {p}) \cup {p})
         = SumFunctionOnSet(AmountOf, whole \ {p}) + AmountOf[p]
  BY <1>1, <1>2, <1>3, SumAdd
<1> QED BY <1>2, <1>4

(***************************************************************************)
(* A step that leaves the contract alone brings a job into its loop only   *)
(* through the balance check, and never adds to what the loop has to do.   *)
(***************************************************************************)
LEMMA LoopEntry ==
  ASSUME TypeOK, Next, UNCHANGED chainVars, NEW r \in Payrolls, pc'[r] \in Executing
  PROVE  \/ pc[r] \in Executing /\ todo'[r] \subseteq todo[r]
         \/ pc[r] = "executeBalance" /\ TotalOf(r) <= balance[USDC] /\ todo'[r] = todo[r]
<1> USE DEF TypeOK
<1>1. ASSUME NEW q \in Payrolls, FlowStep(q) \/ CreatePayroll(q)
      PROVE  pc'[r] = pc[r] /\ todo'[r] = todo[r]
  <2>1. OthersKeep(q)
    BY <1>1, FlowStepLocal
  <2>2. pc'[q] \notin Executing
    BY <1>1 DEF CreatePayroll,
      FlowStep, CreatePayments, AfterRequest, AfterRequestThrew, AfterExecute,
      AfterExecuteThrew, MarkOnchainPaid, MarkOnchainPaidPayments, RailSkipped, RailStart,
      RailStartPayments, RailUnmarked, CreateRailPayment, NoWithdrawal,
      RailFinish, RailFinishPayments, FinalRead, FinalReadThrows, OuterCatch, WritePayroll,
      WritePayments, Ends, Goto, Executing
  <2> QED BY <2>1, <2>2 DEF OthersKeep
<1>2. ASSUME NEW q \in Payrolls, HookStep(q)
      PROVE  \/ pc'[r] = pc[r] /\ todo'[r] = todo[r]
             \/ pc[r] \in Executing /\ todo'[r] \subseteq todo[r]
             \/ pc[r] = "executeBalance" /\ TotalOf(r) <= balance[USDC] /\ todo'[r] = todo[r]
  <2> USE DEF Goto, Executing
  <2>1. CASE RequestRead(q) \/ ExecuteRead(q)
    BY <2>1 DEF RequestRead, ExecuteRead, ReadPayroll
  <2>2. CASE ExecuteCheckBalance(q)
    <3>1. pc' = [pc EXCEPT ![q] = pc'[q]] /\ todo' = todo /\ pc[q] = "executeBalance"
      BY <2>2 DEF ExecuteCheckBalance
    <3>2. pc'[q] = "executeLoop" => balance[USDC] >= TotalOf(q)
      BY <2>2 DEF ExecuteCheckBalance
    <3>3. balance[USDC] \in Int
      BY HookAssumption DEF TreasuryTypeOK
    <3>4. CASE r = q
      <4>1. pc'[q] = "executeLoop"
        BY <2>2, <3>4 DEF ExecuteCheckBalance
      <4>2. TotalOf(r) \in Nat
        BY PartNeedsLess DEF TotalOf
      <4> QED BY <3>1, <3>2, <3>3, <3>4, <4>1, <4>2
    <3>5. CASE r # q
      BY <3>1, <3>5
    <3> QED BY <3>4, <3>5
  <2>3. CASE RequestRecord(q) \/ RequestFinish(q) \/ ExecuteRecord(q) \/ ExecuteFail(q)
             \/ ExecuteReread(q) \/ ExecuteFinish(q)
    BY <2>3 DEF RequestRecord, RequestFinish, ExecuteRecord, ExecuteFail, ExecuteReread, ExecuteFinish
  <2>4. ASSUME NEW p \in Payments,
               RequestSkip(q, p) \/ RequestMined(q, p) \/ TransactionDropped(q, p)
               \/ ExecuteThrows(q, p) \/ ExecuteMined(q, p)
        PROVE  \/ pc'[r] = pc[r] /\ todo'[r] = todo[r]
               \/ pc[r] \in Executing /\ todo'[r] \subseteq todo[r]
    BY <2>4 DEF RequestSkip, RequestMined, TransactionDropped, ExecuteThrows, ExecuteMined, Visited
  <2> QED BY <1>2, <2>1, <2>2, <2>3, <2>4 DEF HookStep
<1>3. CASE Crash
  BY <1>3 DEF Crash, Executing
<1>4. CASE OthersUse \/ \E q \in Payrolls : RailSettles(q)
  BY <1>4 DEF OthersUse, RailSettles, hookVars
<1> QED BY <1>1, <1>2, <1>3, <1>4 DEF Next, JobStep

(***************************************************************************)
(* A mined execution takes its payment's amount from the funds and from    *)
(* what its own loop still needs; other loops count as contended if it     *)
(* takes anything.                                                         *)
(***************************************************************************)
LEMMA MinedKeepsCovered ==
  ASSUME ExecutionInv, UncontendedIsCovered, NEW q \in Payrolls, NEW p \in Payments, ExecuteMined(q, p)
  PROVE  UncontendedIsCovered'
<1> SUFFICES ASSUME NEW r \in Payrolls, r \notin contended', pc'[r] \in Executing
             PROVE  SumFunctionOnSet(AmountOf, todo'[r]) <= balance'[USDC]
  BY DEF UncontendedIsCovered
<1> USE DEF ExecutionInv, TypeOK, TreasuryTypeOK
<1>1. /\ todo' = [todo EXCEPT ![q] = @ \ {p}] /\ p \in todo[q] /\ pc[q] \in Executing
      /\ \A s \in Payrolls \ {q} : pc'[s] = pc[s]
      /\ Contends(Payrolls \ {q})
  BY DEF ExecuteMined, Visited, Goto, Executing
<1>2. r \notin contended /\ pc[r] \in Executing
  BY <1>1 DEF Contends
<1>3. Left(r) <= balance[USDC]
  BY <1>2 DEF UncontendedIsCovered, Left
<1>4. /\ USDC \in Tokens /\ AmountOf[p] \in Nat /\ balance[USDC] \in Nat
      /\ balance'[USDC] \in {balance[USDC], balance[USDC] - AmountOf[p]}
  <2>1. USDC \in Tokens /\ AmountOf[p] \in Nat
    BY HookAssumption
  <2>2. PICK event \in PaymentEvents : ExecutePayment(USDC, AmountOf[p], event)
    BY DEF ExecuteMined
  <2> QED BY <2>1, <2>2 DEF ExecutePayment
<1>5. todo[r] \subseteq PaymentsOf(r)
  BY DEF LoopsStayInPayroll
<1>6. CASE r = q
  <2>1. Left(r) = SumFunctionOnSet(AmountOf, todo[r] \ {p}) + AmountOf[p]
    BY <1>1, <1>5, <1>6, VisitNeedsLess DEF Left
  <2>2. todo'[r] = todo[r] \ {p}
    BY <1>1, <1>6
  <2>3. SumFunctionOnSet(AmountOf, todo[r] \ {p}) \in Nat
    BY <1>5, PartNeedsLess
  <2> QED BY <1>3, <1>4, <2>1, <2>2, <2>3
<1>7. CASE r # q
  <2>1. todo'[r] = todo[r]
    BY <1>1, <1>7
  <2>2. ~(balance'[USDC] < balance[USDC])
    BY <1>1, <1>2, <1>7 DEF Contends
  <2>3. Left(r) \in Nat
    BY <1>5, PartNeedsLess DEF Left
  <2> QED BY <1>3, <1>4, <2>1, <2>2, <2>3 DEF Left
<1> QED BY <1>6, <1>7

\* Every step keeps uncontended loops covered.
LEMMA CoveredStep ==
  ASSUME ExecutionInv, ContractInv, ContractInv', UncontendedIsCovered, [Next]_vars
  PROVE  UncontendedIsCovered'
<1> USE DEF ContractInv, TypeOK, TreasuryTypeOK
<1>1. CASE UNCHANGED vars
  BY <1>1 DEF vars, treasuryVars, hookVars, UncontendedIsCovered
<1>2. CASE Next /\ UNCHANGED chainVars
  <2> SUFFICES ASSUME NEW r \in Payrolls, r \notin contended, pc'[r] \in Executing
               PROVE  SumFunctionOnSet(AmountOf, todo'[r]) <= balance[USDC]
    BY <1>2 DEF chainVars, treasuryVars, UncontendedIsCovered
  <2>1. todo[r] \subseteq PaymentsOf(r) /\ balance[USDC] \in Nat
    BY HookAssumption DEF ExecutionInv, LoopsStayInPayroll
  <2>2. PICK whole \in SUBSET PaymentsOf(r) :
          /\ todo'[r] \subseteq whole
          /\ SumFunctionOnSet(AmountOf, whole) <= balance[USDC]
    <3>1. \/ pc[r] \in Executing /\ todo'[r] \subseteq todo[r]
          \/ pc[r] = "executeBalance" /\ TotalOf(r) <= balance[USDC] /\ todo'[r] = todo[r]
      BY <1>2, LoopEntry
    <3>2. CASE pc[r] \in Executing /\ todo'[r] \subseteq todo[r]
      BY <2>1, <3>2 DEF UncontendedIsCovered
    <3>3. CASE TotalOf(r) <= balance[USDC] /\ todo'[r] = todo[r]
      BY <2>1, <3>3 DEF TotalOf
    <3> QED BY <3>1, <3>2, <3>3
  <2>3. /\ SumFunctionOnSet(AmountOf, todo'[r]) \in Nat
        /\ SumFunctionOnSet(AmountOf, todo'[r]) <= SumFunctionOnSet(AmountOf, whole)
        /\ SumFunctionOnSet(AmountOf, whole) \in Nat
    BY <2>2, PartNeedsLess
  <2> QED BY <2>1, <2>2, <2>3
<1>3. ASSUME NEW q \in Payrolls, NEW p \in Payments, ExecuteMined(q, p)
      PROVE  UncontendedIsCovered'
  BY <1>3, MinedKeepsCovered
<1>4. CASE OthersUse
  <2> SUFFICES ASSUME NEW r \in Payrolls, r \notin contended', pc'[r] \in Executing
               PROVE  SumFunctionOnSet(AmountOf, todo'[r]) <= balance'[USDC]
    BY DEF UncontendedIsCovered
  <2>1. pc' = pc /\ todo' = todo /\ Contends(Payrolls)
    BY <1>4 DEF OthersUse
  <2>2. Left(r) <= balance[USDC] /\ ~(balance'[USDC] < balance[USDC])
    BY <2>1 DEF Contends, UncontendedIsCovered, Left
  <2>3. balance[USDC] \in Nat /\ balance'[USDC] \in Nat
    BY HookAssumption
  <2>4. Left(r) \in Nat
    <3>1. todo[r] \subseteq PaymentsOf(r)
      BY DEF ExecutionInv, LoopsStayInPayroll
    <3> QED BY <3>1, PartNeedsLess DEF Left
  <2> QED BY <2>1, <2>2, <2>3, <2>4 DEF Left
<1> QED BY <1>1, <1>2, <1>3, <1>4, PipelineChainSteps

(***************************************************************************)
(* The single balance check of executePayrollPayments covers its whole     *)
(* loop for any payrolls and amounts, unless somebody else takes           *)
(* stablecoin while the loop runs.                                         *)
(***************************************************************************)
THEOREM ChecksCoverLoops == Spec => []UncontendedIsCovered
<1>1. Init => UncontendedIsCovered
  BY DEF Init, UncontendedIsCovered, Executing
<1>2. ExecutionInv /\ ContractInv /\ ContractInv' /\ UncontendedIsCovered /\ [Next]_vars
         => UncontendedIsCovered'
  BY CoveredStep
<1> QED BY <1>1, <1>2, ExecutionInvariance, ContractInvariance, PTL DEF Spec

-----------------------------------------------------------------------------

(***************************************************************************)
(* What the statuses agree on while the database answers and no receipt is *)
(* lost.  When either fails the code itself leaves rows that disagree (the *)
(* error paths of executePayrollPayments and of the routes), so the three  *)
(* theorems below assume that they do not; crashes are still possible.     *)
(***************************************************************************)

Reliable == DbMayFail = {} /\ ReceiptsMayBeLost = {}

\* Places of a job that has left executePayrollPayments.
PastExecution ==
  {"executeThrew", "markPaid", "markPaidPayments", "rail", "railPayments", "railCall",
   "railFinish", "railFinishPayments", "final"}

\* Places of a job whose payroll has no final status yet.
BeforeVerdict == Unstarted \cup Executing \cup {"executeSet", "executeThrew", "hung"}

EarlyStatuses == {"PENDING", "ONCHAIN_REQUESTED"}

\* A payroll past its on-chain request has its status on all its payments.
Agree(r) ==
  payrollStatus[r] \notin EarlyStatuses => \A p \in PaymentsOf(r) : paymentStatus[p] = payrollStatus[r]

Unpaid(r) == \A p \in PaymentsOf(r) : Mined(p) = 0

(***************************************************************************)
(* A payment that reads FAILED was refused before anything was mined for   *)
(* it, and a payment that was mined has its hash among those the job counts. *)
(***************************************************************************)
FailedUnpaid(r) ==
  /\ \A p \in PaymentsOf(r) : paymentStatus[p] = "FAILED" => Mined(p) = 0 /\ ~NotYetExecuted(p)
  /\ pc[r] \in Executing \cup {"executeBalance", "executeSet", "executed"} =>
        \A p \in PaymentsOf(r) : Mined(p) > 0 => p \in hashes[r]
  /\ pc[r] = "executeFail" => Mined(cur[r]) = 0 /\ cur[r] \notin todo[r]
  /\ pc[r] \in PastExecution /\ ~steps[r].executed => Unpaid(r)

\* How far the payroll's status is when the job is at each of its places.
StatusInTime(r) ==
  /\ pc[r] = "idle" <=> payrollStatus[r] = "none"
  /\ pc[r] \in BeforeVerdict \ {"idle"} => payrollStatus[r] \in EarlyStatuses
  /\ pc[r] = "executeSet" => outcome[r] # "none"
  /\ reply[r] # "none" => pc[r] = "done"
  /\ pc[r] \notin {"requestThrew", "outerCatch"}
  /\ pc[r] = "railFinishPayments" => payrollStatus[r] = FinalStatus(r)
  /\ pc[r] \in {"final", "done"} => Agree(r)

\* A payment the loop has dealt with reads ONCHAIN_PAID or FAILED.
Recorded(r) ==
  pc[r] \in Executing \cup {"executeBalance"} =>
     \A p \in PaymentsOf(r) \ todo[r] :
        paymentStatus[p] \in {"ONCHAIN_PAID", "FAILED"} \/ (pc[r] \in {"executeRecord", "executeFail"} /\ p = cur[r])

(***************************************************************************)
(* The process route's payroll has one payment, which therefore decides the *)
(* outcome: both have one status, and FAILED means that nothing moved.     *)
(***************************************************************************)
SingleAgrees(r) ==
  Route[r] = "process" =>
    /\ pc[r] = "executeSet" => \A p \in PaymentsOf(r) : paymentStatus[p] = outcome[r]
    /\ pc[r] \in {"executed", "rail"} => Agree(r)
    /\ pc[r] \in {"railPayments", "railCall", "railFinish"} => payrollStatus[r] = "RAIL_PROCESSING"
    /\ pc[r] \notin {"markPaid", "markPaidPayments"}
    /\ payrollStatus[r] = "FAILED" => rail[r] \in {"none", "failed"} /\ Unpaid(r)

\* A payroll has no withdrawal before its job asks for one, and none that goes on
\* after Rail's answer FAILED.
RailNew(r) ==
  /\ rail[r] # "none" => pc[r] \in {"railFinish", "railFinishPayments", "final", "done", "crashed"}
  /\ railResult[r] = "FAILED" => rail[r] \in {"none", "failed"}

SettledOf(r) ==
  FailedUnpaid(r) /\ StatusInTime(r) /\ Recorded(r) /\ SingleAgrees(r) /\ RailNew(r)

SettledInv == \A r \in Payrolls : SettledOf(r)

(***************************************************************************)
(* A payroll another job leaves alone keeps its part of SettledInv.        *)
(***************************************************************************)
LEMMA OthersSettled ==
  ASSUME LoopsStayInPayroll, NEW r \in Payrolls, OthersKeep(r), NEW q \in Payrolls \ {r}, SettledOf(q)
  PROVE  SettledOf(q)'
<1>1. PaymentsOf(q)' = PaymentsOf(q)
  BY DEF PaymentsOf
<1>2. \A p \in PaymentsOf(q) : p \in Payments /\ p \notin PaymentsOf(r) /\ PayrollOf[p] = q
  BY DEF PaymentsOf
<1>3. \A p \in PaymentsOf(q) : Mined(p)' = Mined(p) /\ paymentStatus'[p] = paymentStatus[p]
  BY <1>2 DEF OthersKeep, Mined
<1>4. /\ pc'[q] = pc[q] /\ todo'[q] = todo[q] /\ cur'[q] = cur[q]
      /\ hashes'[q] = hashes[q] /\ outcome'[q] = outcome[q] /\ steps'[q] = steps[q]
      /\ rail'[q] = rail[q] /\ railResult'[q] = railResult[q] /\ reply'[q] = reply[q]
      /\ payrollStatus'[q] = payrollStatus[q]
  BY DEF OthersKeep
<1>5. Unpaid(q)' <=> Unpaid(q)
  BY <1>1, <1>3 DEF Unpaid
<1>6. Agree(q)' <=> Agree(q)
  BY <1>1, <1>3, <1>4 DEF Agree
<1>7. StatusInTime(q)' /\ RailNew(q)'
  BY <1>4, <1>6 DEF SettledOf, StatusInTime, RailNew, FinalStatus
<1>8. Recorded(q)'
  BY <1>1, <1>3, <1>4 DEF SettledOf, Recorded
<1>9. SingleAgrees(q)'
  BY <1>1, <1>3, <1>4, <1>5, <1>6 DEF SettledOf, SingleAgrees
<1>10. FailedUnpaid(q)'
  <2>1. \A p \in PaymentsOf(q) : NotYetExecuted(p)' <=> NotYetExecuted(p)
    BY <1>2, <1>4 DEF NotYetExecuted
  <2>2. pc[q] = "executeFail" => Mined(cur[q])' = Mined(cur[q])
    BY <1>2, <1>4 DEF LoopsStayInPayroll, OthersKeep, Mined
  <2> QED BY <1>1, <1>3, <1>4, <1>5, <2>1, <2>2 DEF SettledOf, FailedUnpaid
<1> QED BY <1>7, <1>8, <1>9, <1>10 DEF SettledOf

(***************************************************************************)
(* The flag executed is set exactly when a transaction hash came back.     *)
(***************************************************************************)
LEMMA AfterExecuteFlag ==
  ASSUME TypeOK, NEW r \in Payrolls, AfterExecute(r)
  PROVE  steps'[r].executed <=> hashes[r] # {}
BY ZenonT(30) DEF AfterExecute, TypeOK, StepFlags

(***************************************************************************)
(* The routes keep SettledOf of their payroll: the verdict of the chain and *)
(* Rail is written to the payroll and then to its payments.                *)
(***************************************************************************)
LEMMA FlowStepSettles ==
  ASSUME Reliable, ExecutionInv, StatusInv, NEW r \in Payrolls, FlowStep(r) \/ CreatePayroll(r),
         SettledOf(r)
  PROVE  SettledOf(r)'
<1>1. /\ transfers' = transfers /\ refusals' = refusals
      /\ cur' = cur
  BY DEF CreatePayroll,
      FlowStep, CreatePayments, AfterRequest, AfterRequestThrew, AfterExecute,
      AfterExecuteThrew, MarkOnchainPaid, MarkOnchainPaidPayments, RailSkipped, RailStart,
      RailStartPayments, RailUnmarked, CreateRailPayment, NoWithdrawal,
      RailFinish, RailFinishPayments, FinalRead, FinalReadThrows, OuterCatch, WritePayroll, WritePayments, FlowOnly, Returned,
      chainVars, dbVars
<1>2. /\ PaymentsOf(r)' = PaymentsOf(r)
      /\ \A p \in PaymentsOf(r) : p \in Payments /\ PayrollOf[p] = r /\ Mined(p)' = Mined(p)
      /\ Unpaid(r)' <=> Unpaid(r)
  BY <1>1 DEF PaymentsOf, Mined, Unpaid
<1>3. ASSUME NEW s, SetAllPayments(r, s)
      PROVE  \A p \in PaymentsOf(r) : paymentStatus'[p] = s
  BY <1>2, <1>3 DEF SetAllPayments
<1>4. DbMayFail = {} /\ StatusInvOf(r) /\ TypeOK
  BY DEF Reliable, StatusInv, ExecutionInv
<1>5. pc'[r] \in FlowLabels \cup {"request", "execute"} /\ (pc'[r] \in Unstarted => pc[r] \in Unstarted)
  BY <1>4 DEF TypeOK, CreatePayroll,
      FlowStep, CreatePayments, AfterRequest, AfterRequestThrew, AfterExecute,
      AfterExecuteThrew, MarkOnchainPaid, MarkOnchainPaidPayments, RailSkipped, RailStart,
      RailStartPayments, RailUnmarked, CreateRailPayment, NoWithdrawal,
      RailFinish, RailFinishPayments, FinalRead, FinalReadThrows, OuterCatch, WritePayroll, WritePayments, Ends, Goto,
      FlowLabels, Unstarted
<1>6. Recorded(r)'
  BY <1>5 DEF Recorded, FlowLabels, Executing
<1>7. \A p \in PaymentsOf(r) : NotYetExecuted(p)' => NotYetExecuted(p)
  BY <1>2, <1>5 DEF NotYetExecuted, Executing, FlowLabels, Unstarted
<1>8. pc'[r] \notin Executing \cup {"executeBalance", "executeSet", "executed"}
  BY <1>5 DEF FlowLabels, Executing
<1> DEFINE FailedHere ==
      \A p \in PaymentsOf(r) : paymentStatus'[p] = "FAILED" => Mined(p) = 0 /\ ~NotYetExecuted(p)
<1>9. ASSUME FailedHere, pc'[r] \in PastExecution /\ ~steps'[r].executed => Unpaid(r),
             StatusInTime(r)', SingleAgrees(r)', RailNew(r)'
      PROVE  SettledOf(r)'
  BY <1>2, <1>6, <1>7, <1>8, <1>9 DEF SettledOf, FailedUnpaid, Executing
<1> USE <1>2, <1>4, <1>9 DEF Goto, TypeOK, dbVars, chainVars, FlowOnly, Returned, Ends, Answer, Errored,
            WritePayroll, WritePayments, SetPayroll, StepFlags, NoSteps, flowVars,
            SettledOf, FailedUnpaid, StatusInTime, SingleAgrees, RailNew, Agree, PastExecution,
            BeforeVerdict, EarlyStatuses, Unstarted, Executing, FinalStatus
<1>a. CASE CreatePayroll(r) BY <1>a DEF CreatePayroll
<1>b. CASE CreatePayments(r)
  <2>1. \A p \in PaymentsOf(r) : paymentStatus'[p] = "PENDING" /\ Mined(p) = 0
    BY <1>b, <1>3, SMTT(60) DEF CreatePayments, ExecutionInv, NothingMinedEarly, NotYetExecuted
  <2>2. /\ pc[r] = "createPayments" /\ pc'[r] \in {"request", "rail"}
        /\ payrollStatus' = payrollStatus /\ UNCHANGED <<railResult, reply, rail>>
    BY <1>b DEF CreatePayments
  <2> QED BY <2>1, <2>2 DEF Unpaid
<1>c. CASE AfterRequest(r) BY <1>c DEF AfterRequest
<1>d. CASE AfterRequestThrew(r) BY <1>d DEF AfterRequestThrew
<1>e. CASE AfterExecute(r)
  <2>1. ~steps'[r].executed => hashes[r] = {}
    BY <1>e, AfterExecuteFlag
  <2>2. ~steps'[r].executed => Unpaid(r)
    <3>1. \A p \in PaymentsOf(r) : Mined(p) \in Nat
      BY DEF Mined
    <3> QED BY <1>e, <2>1, <3>1 DEF AfterExecute, Unpaid
  <2>3. /\ pc[r] = "executed" /\ pc'[r] \in {"markPaid", "rail"}
        /\ pc'[r] = "markPaid" => Route[r] = "demo"
        /\ UNCHANGED <<payrollStatus, paymentStatus, railResult, reply, rail>>
    BY <1>e DEF AfterExecute
  <2> QED BY <2>2, <2>3
<1>f. CASE AfterExecuteThrew(r) BY <1>f DEF AfterExecuteThrew
<1>g. CASE MarkOnchainPaid(r) BY <1>g, SMTT(30) DEF MarkOnchainPaid
<1>h. CASE MarkOnchainPaidPayments(r) BY <1>h, <1>3 DEF MarkOnchainPaidPayments
<1>i. CASE RailSkipped(r) BY <1>i DEF RailSkipped
<1>j. CASE RailStart(r) BY <1>j DEF RailStart
<1>k. CASE RailStartPayments(r) BY <1>k, <1>3 DEF RailStartPayments
<1>l. CASE RailUnmarked(r) BY <1>l DEF RailUnmarked
<1>m. CASE CreateRailPayment(r)
  <2>1. /\ pc[r] = "railCall" /\ pc'[r] = "railFinish"
        /\ UNCHANGED <<payrollStatus, paymentStatus, reply, steps>>
    BY <1>m DEF CreateRailPayment, NoWithdrawal
  <2>2. rail[r] = "none"
    BY <2>1
  <2>3. railResult'[r] = "FAILED" => rail'[r] \in {"none", "failed"}
    BY <1>m, <2>2 DEF CreateRailPayment, NoWithdrawal, RailStatus, Reliable
  <2>4. FailedHere /\ (pc'[r] \in PastExecution /\ ~steps'[r].executed => Unpaid(r))
    BY <2>1
  <2>5. StatusInTime(r)'
    BY <2>1
  <2>7. RailNew(r)'
    BY <2>1, <2>3
  <2>6. SingleAgrees(r)'
    BY <2>1
  <2> QED BY <2>4, <2>5, <2>6, <2>7
<1>n. CASE RailFinish(r)
  <2>1. /\ pc[r] = "railFinish" /\ pc'[r] = "railFinishPayments"
        /\ payrollStatus'[r] = FinalStatus(r)
        /\ UNCHANGED <<paymentStatus, reply, steps, rail, railResult>>
    BY <1>n DEF RailFinish
  <2>2. FinalStatus(r) = "FAILED" => ~steps[r].executed
    OBVIOUS
  <2>3. Route[r] = "process" /\ FinalStatus(r) = "FAILED" => railResult[r] = "FAILED"
    OBVIOUS
  <2>4. FailedHere /\ (pc'[r] \in PastExecution /\ ~steps'[r].executed => Unpaid(r))
    BY <2>1
  <2>5. FinalStatus(r)' = FinalStatus(r) /\ FinalStatus(r) # "none"
    BY <2>1
  <2>6. StatusInTime(r)' /\ RailNew(r)'
    BY <2>1, <2>5
  <2>7. Route[r] = "process" /\ FinalStatus(r) = "FAILED" =>
           rail'[r] \in {"none", "failed"} /\ Unpaid(r)'
    BY <2>1, <2>2, <2>3
  <2>8. SingleAgrees(r)'
    BY <2>1, <2>7
  <2> QED BY <2>4, <2>6, <2>8
<1>o. CASE RailFinishPayments(r)
  <2>1. /\ pc[r] = "railFinishPayments" /\ pc'[r] = "final"
        /\ payrollStatus' = payrollStatus /\ UNCHANGED <<railResult, reply, rail>>
        /\ steps'[r].executed = steps[r].executed
    BY <1>o DEF RailFinishPayments
  <2>2. \A p \in PaymentsOf(r) : paymentStatus'[p] = payrollStatus[r]
    BY <1>o, <1>3, <2>1 DEF RailFinishPayments
  <2>3. payrollStatus[r] = "FAILED" => ~steps[r].executed
    BY <2>1
  <2> QED BY <2>1, <2>2, <2>3 DEF Unpaid, NotYetExecuted
<1>p. CASE FinalRead(r) BY <1>p DEF FinalRead
<1>q. CASE FinalReadThrows(r) BY <1>q DEF FinalReadThrows
<1>r. CASE OuterCatch(r) BY <1>r DEF OuterCatch
<1> QED BY <1>a, <1>b, <1>c, <1>d, <1>e, <1>f, <1>g, <1>h, <1>i, <1>j, <1>k, <1>l, <1>m,
           <1>n, <1>o, <1>p, <1>q, <1>r DEF FlowStep

(***************************************************************************)
(* ContractHook keeps it: each payment visited gets its status and, when it *)
(* was mined, its hash, and the outcome is what the payments read.         *)
(***************************************************************************)
LEMMA HookStepSettles ==
  ASSUME Reliable, ExecutionInv, StatusInv, NEW r \in Payrolls, HookStep(r), UNCHANGED flowVars,
         SettledOf(r)
  PROVE  SettledOf(r)'
<1>1. /\ PaymentsOf(r)' = PaymentsOf(r)
      /\ \A p \in PaymentsOf(r) : p \in Payments /\ PayrollOf[p] = r /\ Mined(p) \in Nat
  BY DEF PaymentsOf, Mined, ExecutionInv, TypeOK
<1>2. /\ DbMayFail = {} /\ ReceiptsMayBeLost = {} /\ StatusInvOf(r) /\ TypeOK
      /\ todo[r] \subseteq PaymentsOf(r)
      /\ pc[r] \in {"requestRecord", "executeRecord", "executeFail"} => cur[r] \in PaymentsOf(r)
  BY DEF Reliable, StatusInv, ExecutionInv, LoopsStayInPayroll
<1> USE <1>1, <1>2
    DEF Goto, TypeOK, dbVars, chainVars, SetPayroll, flowVars, Executing, Unstarted,
        SettledOf, FailedUnpaid, StatusInTime, SingleAgrees, RailNew, PastExecution, Recorded,
        BeforeVerdict, EarlyStatuses, NotYetExecuted
<1>3. ASSUME UNCHANGED <<transfers, refusals>>
      PROVE  Unpaid(r)' <=> Unpaid(r)
  BY <1>3 DEF Unpaid, Mined
<1>4. ASSUME UNCHANGED <<transfers, refusals>>
      PROVE  \A p \in PaymentsOf(r) : Mined(p)' = Mined(p)
  BY <1>4 DEF Mined
<1>a. CASE RequestRead(r) BY <1>a, <1>3, <1>4 DEF RequestRead, ReadPayroll
<1>b. CASE RequestRecord(r) BY <1>b, <1>3, <1>4 DEF RequestRecord
<1>c. CASE RequestFinish(r) BY <1>c, <1>3, <1>4 DEF RequestFinish
<1>d. CASE ExecuteRead(r)
  <2>1. \A p \in PaymentsOf(r) : Mined(p) = 0
    BY <1>d DEF ExecuteRead, ExecutionInv, NothingMinedEarly
  <2> QED BY <1>d, <1>3, <1>4, <2>1 DEF ExecuteRead, ReadPayroll
<1>e. CASE ExecuteCheckBalance(r)
  <2>1. \A p \in PaymentsOf(r) : Mined(p) = 0
    BY <1>e DEF ExecuteCheckBalance, ExecutionInv, NothingMinedEarly
  <2>2. /\ pc[r] = "executeBalance" /\ pc'[r] \in {"executeLoop", "executeThrew"}
        /\ UNCHANGED <<payrollStatus, paymentStatus, transfers, refusals, todo, cur, hashes, outcome,
                       steps, rail, railResult, reply>>
    BY <1>e DEF ExecuteCheckBalance
  <2>3. \A p \in PaymentsOf(r) : paymentStatus[p] # "FAILED"
    BY <2>2
  <2>4. payrollStatus[r] \in EarlyStatuses /\ reply[r] = "none" /\ rail[r] = "none"
    BY <2>2
  <2>5. Unpaid(r)'
    BY <1>3, <2>1, <2>2 DEF Unpaid
  <2>6. \A p \in PaymentsOf(r) : Mined(p)' = 0 /\ paymentStatus'[p] = paymentStatus[p]
    BY <1>4, <2>1, <2>2
  <2>7. FailedUnpaid(r)' /\ Recorded(r)'
    BY <2>2, <2>3, <2>5, <2>6
  <2>8. StatusInTime(r)'
    BY <2>2, <2>4
  <2>9. SingleAgrees(r)' /\ RailNew(r)'
    BY <2>2, <2>4
  <2> QED BY <2>7, <2>8, <2>9
<1>f. CASE ExecuteRecord(r) BY <1>f, <1>3, <1>4 DEF ExecuteRecord
<1>g. CASE ExecuteFail(r) BY <1>g, <1>3, <1>4 DEF ExecuteFail
<1>h. CASE ExecuteReread(r)
  <2>1. Route[r] = "process" => \A p \in PaymentsOf(r) : paymentStatus[p] = ExecutionOutcome(r)
    <3>1. CASE Route[r] = "process"
      <4>1. PICK p \in Payments : PaymentsOf(r) = {p}
        BY <3>1, FlowAssumption
      <4>2. paymentStatus[p] \in {"ONCHAIN_PAID", "FAILED"}
        BY <1>h, <4>1 DEF ExecuteReread
      <4>3. {paymentStatus[q] : q \in PaymentsOf(r)} = {paymentStatus[p]}
        BY <4>1
      <4> QED BY <4>1, <4>2, <4>3 DEF ExecutionOutcome
    <3> QED BY <3>1
  <2>2. ExecutionOutcome(r) # "none"
    BY ExecutionOutcomeType
  <2> QED BY <1>h, <1>3, <1>4, <2>1, <2>2 DEF ExecuteReread
<1>i. CASE ExecuteFinish(r)
  <2>1. /\ pc[r] = "executeSet" /\ pc'[r] = "executed" /\ payrollStatus'[r] = outcome[r]
        /\ UNCHANGED <<paymentStatus, transfers, refusals, todo, cur, hashes, outcome,
                       steps, rail, railResult, reply>>
    BY <1>i DEF ExecuteFinish
  <2>2. Route[r] = "process" /\ outcome[r] = "FAILED" => Unpaid(r)
    BY <2>1 DEF Unpaid
  <2>3. Route[r] = "process" => Agree(r)'
    BY <2>1 DEF Agree
  <2>4. rail[r] = "none" /\ reply[r] = "none"
    BY <2>1
  <2>5. FailedUnpaid(r)' /\ Recorded(r)'
    BY <1>4, <2>1
  <2>6. StatusInTime(r)'
    BY <2>1, <2>4
  <2>7. SingleAgrees(r)' /\ RailNew(r)'
    BY <1>3, <2>1, <2>2, <2>3, <2>4
  <2> QED BY <2>5, <2>6, <2>7
<1>j. ASSUME NEW p \in Payments, RequestSkip(r, p) PROVE SettledOf(r)'
  BY <1>j, <1>3, <1>4 DEF RequestSkip, Visited
<1>k. ASSUME NEW p \in Payments, RequestMined(r, p) PROVE SettledOf(r)'
  BY <1>k, <1>3, <1>4 DEF RequestMined, Visited
<1>l. ASSUME NEW p \in Payments, ExecuteThrows(r, p) PROVE SettledOf(r)'
  <2>1. Mined(p) = 0
    BY <1>l DEF ExecuteThrows, ExecutionInv, NothingMinedEarly
  <2> QED BY <1>l, <1>3, <1>4, <2>1 DEF ExecuteThrows, Visited
<1>m. ASSUME NEW p \in Payments, ExecuteMined(r, p) PROVE SettledOf(r)'
  <2>1. p \in PaymentsOf(r) /\ \A q \in PaymentsOf(r) \ {p} : Mined(q)' = Mined(q)
    BY <1>m DEF ExecuteMined, Mined
  <2>2. paymentStatus[p] # "FAILED" /\ payrollStatus[r] # "FAILED"
    BY <1>m, <2>1 DEF ExecuteMined
  <2> QED BY <1>m, <2>1, <2>2 DEF ExecuteMined, Visited
<1>n. ASSUME NEW p \in Payments, TransactionDropped(r, p) PROVE SettledOf(r)'
  BY <1>n, <1>3, <1>4 DEF TransactionDropped
<1> QED BY <1>a, <1>b, <1>c, <1>d, <1>e, <1>f, <1>g, <1>h, <1>i, <1>j, <1>k, <1>l, <1>m, <1>n
        DEF HookStep

(***************************************************************************)
(* So does a crash, which leaves the rows as they are.                     *)
(***************************************************************************)
LEMMA CrashSettled ==
  ASSUME NEW r \in Payrolls, Crash, TypeOK, SettledOf(r)
  PROVE  SettledOf(r)'
<1>1. /\ PaymentsOf(r)' = PaymentsOf(r)
      /\ \A p \in Payments : Mined(p)' = Mined(p)
      /\ UNCHANGED <<payrollStatus, paymentStatus, rail, reply>>
  BY DEF Crash, dbVars, chainVars, Mined, PaymentsOf
<1>2. \A p \in PaymentsOf(r) : p \in Payments /\ PayrollOf[p] = r
  BY DEF PaymentsOf
<1>3. (Unpaid(r)' <=> Unpaid(r)) /\ (Agree(r)' <=> Agree(r))
  BY <1>1, <1>2 DEF Unpaid, Agree
<1>4. CASE pc[r] \in {"idle", "done", "crashed"}
  <2>1. /\ pc'[r] = pc[r] /\ todo'[r] = todo[r] /\ cur'[r] = cur[r] /\ hashes'[r] = hashes[r]
        /\ outcome'[r] = outcome[r] /\ steps'[r] = steps[r] /\ railResult'[r] = railResult[r]
    BY <1>4 DEF Crash
  <2> QED BY <1>1, <1>2, <1>3, <1>4, <2>1
          DEF SettledOf, FailedUnpaid, StatusInTime, SingleAgrees, RailNew, Recorded, NotYetExecuted,
              PastExecution, BeforeVerdict, EarlyStatuses, Unstarted, Executing
<1>5. CASE pc[r] \notin {"idle", "done", "crashed"}
  <2>1. pc'[r] = "crashed" /\ railResult'[r] = "none"
    BY <1>5 DEF Crash
  <2>2. reply[r] = "none" /\ payrollStatus[r] # "none"
    BY <1>5 DEF SettledOf, StatusInTime
  <2> QED BY <1>1, <1>2, <1>3, <1>5, <2>1, <2>2
          DEF SettledOf, FailedUnpaid, StatusInTime, SingleAgrees, RailNew, Recorded, NotYetExecuted,
              PastExecution, BeforeVerdict, EarlyStatuses, Unstarted, Executing
<1> QED BY <1>4, <1>5

(***************************************************************************)
(* So does Rail, which has no open withdrawal of a payroll it refused.     *)
(***************************************************************************)
LEMMA RailSettlesSettled ==
  ASSUME TypeOK, NEW r \in Payrolls, RailSettles(r), SettledOf(r)
  PROVE  SettledOf(r)'
<1>1. UNCHANGED <<hookVars, steps, railResult, reply>> /\ rail[r] = "open" /\ rail'[r] # "none"
  BY DEF RailSettles, TypeOK
<1>2. FailedUnpaid(r)' /\ Recorded(r)' /\ StatusInTime(r)'
  BY <1>1 DEF hookVars, SettledOf, FailedUnpaid, Recorded, StatusInTime, Unpaid, Agree, Mined,
              PaymentsOf, NotYetExecuted, FinalStatus
<1>3. SingleAgrees(r)' /\ RailNew(r)'
  BY <1>1 DEF hookVars, SettledOf, SingleAgrees, RailNew, Unpaid, Agree, Mined, PaymentsOf
<1> QED BY <1>2, <1>3 DEF SettledOf

(***************************************************************************)
(* Every step of the pipeline keeps SettledInv.                            *)
(***************************************************************************)
LEMMA SettledStep ==
  ASSUME Reliable, ExecutionInv, StatusInv, SettledInv, [Next]_vars
  PROVE  SettledInv'
<1> SUFFICES ASSUME NEW q \in Payrolls PROVE SettledOf(q)'
  BY DEF SettledInv
<1>1. SettledOf(q)
  BY DEF SettledInv
<1>2. CASE UNCHANGED <<dbVars, transfers, refusals, pc, todo, cur, hashes, outcome, flowVars>>
  BY <1>1, <1>2 DEF dbVars, flowVars, SettledOf, FailedUnpaid, Recorded, StatusInTime, SingleAgrees,
      RailNew, Unpaid, Agree, Mined, PaymentsOf, NotYetExecuted, FinalStatus
<1>3. ASSUME NEW r \in Payrolls, FlowStep(r) \/ CreatePayroll(r)
      PROVE  SettledOf(q)'
  BY <1>1, <1>3, FlowStepLocal, FlowStepSettles, OthersSettled DEF ExecutionInv
<1>4. ASSUME NEW r \in Payrolls, HookStep(r), UNCHANGED flowVars
      PROVE  SettledOf(q)'
  BY <1>1, <1>4, HookStepLocal, HookStepSettles, OthersSettled DEF ExecutionInv
<1>5. ASSUME NEW r \in Payrolls, RailSettles(r)
      PROVE  SettledOf(q)'
  BY <1>1, <1>5, RailSettlesKeepsStatus, RailSettlesSettled, OthersSettled DEF ExecutionInv
<1>6. CASE Crash
  BY <1>1, <1>6, CrashSettled DEF ExecutionInv
<1>7. CASE OthersUse
  BY <1>2, <1>7 DEF OthersUse, dbVars
<1>8. CASE UNCHANGED vars
  BY <1>2, <1>8 DEF vars, hookVars, dbVars, flowVars
<1> QED BY <1>3, <1>4, <1>5, <1>6, <1>7, <1>8 DEF Next, JobStep

(***************************************************************************)
(* It holds before the first request.                                      *)
(***************************************************************************)
LEMMA SettledInit == Init => SettledInv
BY DEF Init, HookInit, SettledInv, SettledOf, FailedUnpaid, Recorded, StatusInTime, SingleAgrees,
       RailNew, Unpaid, Agree, Mined, PaymentsOf, NotYetExecuted, NoSteps, PastExecution,
       BeforeVerdict, EarlyStatuses, Unstarted, Executing

(***************************************************************************)
(* With a database that answers and receipts that arrive, SettledInv is an *)
(* invariant of the pipeline.                                              *)
(***************************************************************************)
LEMMA SettledInvariance ==
  ASSUME Reliable
  PROVE  Spec => [](ExecutionInv /\ StatusInv /\ SettledInv)
<1>1. ExecutionInv /\ StatusInv /\ SettledInv /\ [Next]_vars => SettledInv'
  BY SettledStep
<1> QED BY <1>1, SettledInit, StatusInvariance, PTL DEF Spec

(***************************************************************************)
(* A payment that reads FAILED was not transferred, for any payrolls,      *)
(* routes, funds and crashes.                                              *)
(***************************************************************************)
THEOREM FailedPaymentsUnpaid ==
  ASSUME Reliable
  PROVE  Spec => []FailedMeansUnpaid
<1>1. ExecutionInv /\ SettledInv => FailedMeansUnpaid
  BY HookAssumption DEF SettledInv, SettledOf, FailedUnpaid, FailedMeansUnpaid, Mined, PaymentsOf,
                        ExecutionInv, TypeOK
<1> QED BY <1>1, SettledInvariance, PTL

(***************************************************************************)
(* A process payroll that reads FAILED moved nothing, on the chain or at   *)
(* Rail.                                                                   *)
(***************************************************************************)
THEOREM FailedPayrollsMovedNothing ==
  ASSUME Reliable
  PROVE  Spec => []FailedMovedNothing
<1>1. ExecutionInv /\ SettledInv => FailedMovedNothing
  BY HookAssumption DEF SettledInv, SettledOf, SingleAgrees, Unpaid, FailedMovedNothing, Mined, PaymentsOf,
                        ExecutionInv, TypeOK
<1> QED BY <1>1, SettledInvariance, PTL

(***************************************************************************)
(* Once a request is answered, the payroll and all its payments read the   *)
(* same status.                                                            *)
(***************************************************************************)
THEOREM SettledStatusesDoAgree ==
  ASSUME Reliable
  PROVE  Spec => []SettledStatusesAgree
<1>1. SettledInv => SettledStatusesAgree
  BY DEF SettledInv, SettledOf, StatusInTime, Agree, EarlyStatuses, SettledStatusesAgree
<1> QED BY <1>1, SettledInvariance, PTL
-----------------------------------------------------------------------------

(***************************************************************************)
(* What a success answers.  AnswerInv follows a job to its answer: without *)
(* a Rail account the process route never calls Rail, so that only a mined *)
(* payment makes its answer a success, and the demo route answers once its *)
(* payroll has left PENDING, whatever was not written.                     *)
(***************************************************************************)

\* GET /api/agent/activity lists the payroll.
Begun(r) == payrollStatus[r] \notin {"none", "PENDING"}

\* Places of a demo job whose payroll may still be PENDING, or that has ended.
BeforeRequested ==
  {"idle", "createPayments", "request", "requestLoop", "requestRecord", "requestThrew",
   "hung", "done", "crashed"}

AnswerOf(r) ==
  /\ pc[r] = "idle" => payrollStatus[r] = "none"
  /\ pc[r] = "executeSet" => outcome[r] # "none"
  /\ Route[r] = "process" /\ ~RailConfigured =>
        /\ ~steps[r].rail
        /\ pc[r] \notin {"railPayments", "railCall", "railFinish", "railFinishPayments"}
  /\ Route[r] = "demo" =>
        /\ pc[r] # "outerCatch"
        /\ pc[r] \notin BeforeRequested => Begun(r)
  /\ reply[r] = "success" =>
        /\ pc[r] = "done"
        /\ Route[r] = "demo" => Begun(r)
        /\ Route[r] = "process" /\ ~RailConfigured => HasExecuted(r)

AnswerInv == \A r \in Payrolls : AnswerOf(r)

\* What a success answers stays true.
Lasting(r) == (Begun(r) => Begun(r)') /\ (HasExecuted(r) => HasExecuted(r)')

(***************************************************************************)
(* The routes keep it, and take back nothing.                              *)
(***************************************************************************)
LEMMA FlowStepAnswers ==
  ASSUME ExecutionInv, StatusInv, NEW r \in Payrolls, FlowStep(r) \/ CreatePayroll(r), AnswerOf(r)
  PROVE  AnswerOf(r)' /\ Lasting(r)
<1>1. UNCHANGED <<transfers, refusals>>
  BY DEF CreatePayroll,
      FlowStep, CreatePayments, AfterRequest, AfterRequestThrew, AfterExecute,
      AfterExecuteThrew, MarkOnchainPaid, MarkOnchainPaidPayments, RailSkipped, RailStart,
      RailStartPayments, RailUnmarked, CreateRailPayment, NoWithdrawal,
      RailFinish, RailFinishPayments, FinalRead, FinalReadThrows, OuterCatch, WritePayroll, WritePayments, FlowOnly, Returned,
      chainVars, dbVars
<1>2. HasExecuted(r)' <=> HasExecuted(r)
  BY <1>1 DEF HasExecuted, PaymentsOf, Mined
<1>3. TypeOK /\ StatusInvOf(r)
  BY DEF ExecutionInv, StatusInv
<1>4. Route[r] = "demo" => HasRecipient(r)
  BY FlowAssumption DEF HasRecipient
<1>5. FinalStatus(r) \notin {"none", "PENDING"}
  BY <1>3 DEF TypeOK, FinalStatus, RailResults
<1> USE <1>2, <1>3, <1>4, <1>5
    DEF Goto, TypeOK, dbVars, chainVars, FlowOnly, Returned, Ends, Answer, Errored,
        WritePayroll, WritePayments, SetPayroll, StepFlags, NoSteps, flowVars,
        AnswerOf, Begun, Lasting, BeforeRequested
<1>a. CASE CreatePayroll(r) BY <1>a DEF CreatePayroll
<1>b. CASE CreatePayments(r)
  <2>1. payrollStatus' = payrollStatus /\ pc[r] = "createPayments" /\ reply[r] # "success"
    BY <1>b DEF CreatePayments
  <2>2. CASE UNCHANGED reply
    <3>1. \A t \in BOOLEAN : (t \/ ~HasRecipient(r)) \in BOOLEAN
      OBVIOUS
    <3>2. steps'[r].rail => steps[r].rail
      <4>1. ASSUME NEW t \in BOOLEAN, steps' = [steps EXCEPT ![r].errors = t]
            PROVE  steps'[r].rail => steps[r].rail
        BY <4>1
      <4>2. CASE steps' = steps \/ Ends(r, "createPayments", "error")
        BY <4>2
      <4> QED BY <1>b, <3>1, <4>1, <4>2 DEF CreatePayments
    <3>3. pc'[r] \in {"request", "rail", "outerCatch", "done"}
      BY <1>b DEF CreatePayments
    <3>4. Route[r] = "demo" => pc'[r] \in {"request", "done"}
      BY <1>b DEF CreatePayments
    <3> QED BY <2>1, <2>2, <3>2, <3>3, <3>4
  <2>3. CASE Ends(r, "createPayments", "error")
    BY <2>1, <2>3
  <2> QED BY <1>b, <2>2, <2>3 DEF CreatePayments
<1>c. CASE AfterRequest(r) BY <1>c DEF AfterRequest
<1>d. CASE AfterRequestThrew(r) BY <1>d, SMTT(30) DEF AfterRequestThrew
<1>e. CASE AfterExecute(r) BY <1>e DEF AfterExecute
<1>f. CASE AfterExecuteThrew(r) BY <1>f DEF AfterExecuteThrew
<1>g. CASE MarkOnchainPaid(r) BY <1>g, SMTT(60) DEF MarkOnchainPaid
<1>h. CASE MarkOnchainPaidPayments(r) BY <1>h, SMTT(90) DEF MarkOnchainPaidPayments
<1>i. CASE RailSkipped(r) BY <1>i DEF RailSkipped
<1>j. CASE RailStart(r) BY <1>j DEF RailStart
<1>k. CASE RailStartPayments(r) BY <1>k DEF RailStartPayments
<1>l. CASE RailUnmarked(r) BY <1>l DEF RailUnmarked
<1>m. CASE CreateRailPayment(r) BY <1>m DEF CreateRailPayment, NoWithdrawal
<1>n. CASE RailFinish(r) BY <1>n DEF RailFinish
<1>o. CASE RailFinishPayments(r) BY <1>o DEF RailFinishPayments
<1>p. CASE FinalRead(r)
  <2>1. Route[r] = "process" /\ ~RailConfigured /\ IsSuccess(r) => HasExecuted(r)
    BY <1>p DEF FinalRead, IsSuccess, StatusInvOf, FlagsBacked, ExecutionBacked
  <2> QED BY <1>p, <2>1 DEF FinalRead
<1>q. CASE FinalReadThrows(r) BY <1>q DEF FinalReadThrows
<1>r. CASE OuterCatch(r) BY <1>r DEF OuterCatch
<1> QED BY <1>a, <1>b, <1>c, <1>d, <1>e, <1>f, <1>g, <1>h, <1>i, <1>j, <1>k, <1>l, <1>m,
           <1>n, <1>o, <1>p, <1>q, <1>r DEF FlowStep

(***************************************************************************)
(* So does ContractHook, which runs before the answer.                     *)
(***************************************************************************)
LEMMA HookStepAnswers ==
  ASSUME ExecutionInv, NEW r \in Payrolls, HookStep(r), UNCHANGED flowVars, AnswerOf(r)
  PROVE  AnswerOf(r)' /\ Lasting(r)
<1>1. \A p \in Payments : Mined(p) > 0 => Mined(p)' > 0
  BY DEF HookStep, RequestRead, RequestRecord, RequestFinish, ExecuteRead, ExecuteCheckBalance,
      ExecuteRecord, ExecuteFail, ExecuteReread, ExecuteFinish, RequestSkip, RequestMined,
      TransactionDropped, ExecuteThrows, ExecuteMined, chainVars, Mined, ExecutionInv, TypeOK
<1>2. HasExecuted(r) => HasExecuted(r)'
  BY <1>1 DEF HasExecuted, PaymentsOf
<1>3. \/ /\ payrollStatus' = payrollStatus
         /\ pc'[r] \in HookLabels
         /\ pc'[r] \notin BeforeRequested => pc[r] \notin BeforeRequested
      \/ payrollStatus'[r] = "ONCHAIN_REQUESTED" /\ pc'[r] = "requested"
      \/ payrollStatus'[r] = outcome[r] /\ pc[r] = "executeSet" /\ pc'[r] = "executed"
  BY DEF ExecutionInv, TypeOK, HookStep, RequestRead, RequestRecord, RequestFinish, ExecuteRead,
      ExecuteCheckBalance, ExecuteRecord, ExecuteFail, ExecuteReread, ExecuteFinish, RequestSkip,
      RequestMined, TransactionDropped, ExecuteThrows, ExecuteMined, Goto, SetPayroll, dbVars, BeforeRequested, HookLabels, Executing
<1>4. pc'[r] = "executeSet" => outcome'[r] # "none"
  BY ExecutionOutcomeType
  DEF ExecutionInv, TypeOK, HookStep, RequestRead, RequestRecord, RequestFinish, ExecuteRead,
      ExecuteCheckBalance, ExecuteRecord, ExecuteFail, ExecuteReread, ExecuteFinish, RequestSkip,
      RequestMined, TransactionDropped, ExecuteThrows, ExecuteMined, Goto
<1>5. pc[r] \in HookLabels
  BY DEF HookStep, RequestRead, RequestRecord, RequestFinish, ExecuteRead,
      ExecuteCheckBalance, ExecuteRecord, ExecuteFail, ExecuteReread, ExecuteFinish, RequestSkip,
      RequestMined, TransactionDropped, ExecuteThrows, ExecuteMined, Goto, HookLabels, Executing
<1>6. pc'[r] \in HookLabels
  BY <1>3 DEF HookLabels
<1>7. Begun(r) => Begun(r)'
  BY <1>3 DEF Begun, AnswerOf, ExecutionInv, TypeOK
<1>8. Route[r] = "demo" /\ pc'[r] \notin BeforeRequested => Begun(r)'
  BY <1>3, <1>7 DEF AnswerOf, Begun, ExecutionInv, TypeOK
<1> QED BY <1>2, <1>4, <1>5, <1>6, <1>7, <1>8 DEF AnswerOf, Lasting, flowVars, HookLabels, Executing

(***************************************************************************)
(* Every step of the pipeline keeps AnswerInv and what a success answers.  *)
(***************************************************************************)
LEMMA AnswerStep ==
  ASSUME ExecutionInv, StatusInv, AnswerInv, [Next]_vars, NEW q \in Payrolls
  PROVE  AnswerOf(q)' /\ Lasting(q)
<1>1. AnswerOf(q)
  BY DEF AnswerInv
<1>2. CASE UNCHANGED <<dbVars, transfers, refusals, pc, outcome, steps, reply>>
  BY <1>1, <1>2 DEF dbVars, AnswerOf, Lasting, Begun, HasExecuted, Mined, PaymentsOf
<1>3. ASSUME NEW r \in Payrolls, OthersKeep(r), r # q
      PROVE  AnswerOf(q)' /\ Lasting(q)
  <2>1. HasExecuted(q)' <=> HasExecuted(q)
    BY <1>3 DEF OthersKeep, HasExecuted, Mined, PaymentsOf
  <2> QED BY <1>1, <1>3, <2>1 DEF OthersKeep, AnswerOf, Lasting, Begun
<1>4. ASSUME NEW r \in Payrolls, FlowStep(r) \/ CreatePayroll(r)
      PROVE  AnswerOf(q)' /\ Lasting(q)
  BY <1>1, <1>3, <1>4, FlowStepLocal, FlowStepAnswers DEF ExecutionInv
<1>5. ASSUME NEW r \in Payrolls, HookStep(r), UNCHANGED flowVars
      PROVE  AnswerOf(q)' /\ Lasting(q)
  BY <1>1, <1>3, <1>5, HookStepLocal, HookStepAnswers DEF ExecutionInv
<1>6. CASE Crash
  <2>1. UNCHANGED <<payrollStatus, transfers, refusals, reply>>
    BY <1>6 DEF Crash, dbVars, chainVars
  <2>2. HasExecuted(q)' <=> HasExecuted(q)
    BY <2>1 DEF HasExecuted, Mined, PaymentsOf
  <2>3. \/ pc'[q] = "crashed" /\ steps'[q] = NoSteps /\ pc[q] # "done"
        \/ pc'[q] = pc[q] /\ steps'[q] = steps[q] /\ outcome'[q] = outcome[q]
    BY <1>6 DEF Crash
  <2> QED BY <1>1, <2>1, <2>2, <2>3 DEF AnswerOf, Lasting, Begun, NoSteps, BeforeRequested
<1>7. CASE OthersUse \/ (\E r \in Payrolls : RailSettles(r)) \/ UNCHANGED vars
  BY <1>2, <1>7 DEF OthersUse, RailSettles, vars, dbVars, hookVars, flowVars
<1> QED BY <1>4, <1>5, <1>6, <1>7 DEF Next, JobStep

\* Nothing has been answered at the start.
LEMMA AnswerInit == Init => AnswerInv
BY DEF Init, HookInit, AnswerInv, AnswerOf, NoSteps, BeforeRequested
=============================================================================
