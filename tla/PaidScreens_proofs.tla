-------------------------- MODULE PaidScreens_proofs -------------------------
(***************************************************************************)
(* Proofs about PaidScreens, for any screens and payrolls, left and closed *)
(* at any time: the types, that screens and gate add no behaviour to the   *)
(* payroll pipeline, that a disbursement which runs is awaited, and that   *)
(* what a screen shows of its payroll is so.                               *)
(*                                                                         *)
(* RunningIsAwaited is not inductive: a payroll could be created for a     *)
(* screen that waits for no payroll at all.  PostsPayroll rules that out.  *)
(***************************************************************************)
EXTENDS PaidScreens, PayrollFlow_proofs, FiniteSetTheorems

ScreenType ==
  [at : Places, left : BOOLEAN, shows : Messages, req : Payrolls \cup {NoPayroll},
   header : {"demo", "flat"}, list : SUBSET Payrolls]

\* A screen that obtains a proof or has posted does so for a payroll.
PostsPayroll ==
  \A c \in Screens : screen[c].at \in {"proof", "posting"} => screen[c].req \in Payrolls

\* Only payrolls that were created are newer than another.
NewerInv ==
  /\ newer \in [Payrolls -> SUBSET Payrolls]
  /\ \A r \in Payrolls : IsFiniteSet(newer[r])

ScreenInv ==
  /\ screen \in [Screens -> ScreenType]
  /\ unheard \subseteq Payrolls
  /\ NewerInv
  /\ pc \in [Payrolls -> Labels]
  /\ PostsPayroll
  /\ RunningIsAwaited

(***************************************************************************)
(* A screen that goes back to a place is typed and has no payroll.         *)
(***************************************************************************)
LEMMA BackToType ==
  ASSUME NEW place \in Places, NEW message \in Messages
  PROVE  /\ BackTo(place, message) \in ScreenType
         /\ BackTo(place, message).at = place
BY DEF BackTo, Fresh, ScreenType, Places, Messages

\* So is a fresh one.
LEMMA FreshType == Fresh \in ScreenType /\ Fresh.at = "start"
BY DEF Fresh, ScreenType, Places, Messages

\* A screen whose request was refused or failed is one or the other.
LEMMA BackCases ==
  ASSUME NEW c \in Screens,
         NEW new \in {Failed(c), Back(c, "start", "required"), Back(c, "review", "error")}
  PROVE  new \in {Fresh, BackTo("start", "error"), BackTo("review", "error"), BackTo("start", "required")}
BY DEF Failed, Back

\* It waits for nothing.
LEMMA FailedType ==
  ASSUME NEW c \in Screens,
         NEW new \in {Failed(c), Back(c, "start", "required"), Back(c, "review", "error")}
  PROVE  new \in ScreenType /\ new.at \in {"start", "review"}
BY BackCases, BackToType, FreshType DEF Places, Messages

(***************************************************************************)
(* What the payroll pipeline does keeps a running payroll awaited: a job's *)
(* step leaves the other jobs where they are, and ended jobs do not move.  *)
(***************************************************************************)
\* A job that steps was running and moves only itself.
LEMMA JobStepStays ==
  ASSUME NEW r \in Payrolls, JobStep(r)
  PROVE  Running(r) /\ (UNCHANGED pc \/ \E to : pc' = [pc EXCEPT ![r] = to])
<1>1. CASE FlowStep(r)
      BY <1>1
      DEF FlowStep, CreatePayments, AfterRequest, AfterRequestThrew, AfterExecute,
          AfterExecuteThrew, MarkOnchainPaid, MarkOnchainPaidPayments, RailSkipped, RailStart,
          RailStartPayments, RailUnmarked, CreateRailPayment, NoWithdrawal,
          RailFinish, RailFinishPayments, FinalRead, FinalReadThrows, OuterCatch, WritePayroll, WritePayments, Ends, Goto, Running
<1>2. CASE HookStep(r)
      BY <1>2
      DEF HookStep, RequestRead, RequestRecord, RequestFinish, ExecuteRead, ExecuteCheckBalance,
          ExecuteRecord, ExecuteFail, ExecuteReread, ExecuteFinish, RequestSkip, RequestMined,
          ExecuteThrows, ExecuteMined, TransactionDropped, Goto, Running
<1> QED BY <1>1, <1>2 DEF JobStep

\* Nothing the backend does starts a job that was not running.
LEMMA BackendStepStays ==
  ASSUME pc \in [Payrolls -> Labels], BackendStep
  PROVE  \A r \in Payrolls : Running(r)' => Running(r)
<1>1. ASSUME NEW q \in Payrolls, JobStep(q) PROVE \A r \in Payrolls : Running(r)' => Running(r)
  <2>1. Running(q) /\ \A r \in Payrolls \ {q} : pc'[r] = pc[r]
        BY <1>1, JobStepStays
  <2> QED BY <2>1 DEF Running
<1>2. CASE Crash
      BY <1>2 DEF Crash, Running
<1>3. CASE OthersUse \/ \E q \in Payrolls : RailSettles(q)
      BY <1>3 DEF OthersUse, RailSettles, hookVars, Running
<1> QED BY <1>1, <1>2, <1>3 DEF BackendStep

(***************************************************************************)
(* A step of one screen that leaves the pipeline alone keeps the invariant *)
(* when it goes on waiting for the same payroll, or waits for one that is  *)
(* not running or that nobody will hear of.                                *)
(***************************************************************************)
LEMMA ScreenGoes ==
  ASSUME ScreenInv, UNCHANGED <<pc, newer>>, NEW c \in Screens, NEW new \in ScreenType,
         screen' = [screen EXCEPT ![c] = new],
         new.at \in {"proof", "posting"} => new.req \in Payrolls,
         unheard \subseteq unheard', unheard' \subseteq Payrolls,
         screen[c].at = "posting" =>
            \/ new.at = "posting" /\ new.req = screen[c].req
            \/ ~Running(screen[c].req) \/ screen[c].req \in unheard'
  PROVE  ScreenInv'
<1>1. \A d \in Screens : screen'[d] = IF d = c THEN new ELSE screen[d]
      BY DEF ScreenInv
<1>2. screen' \in [Screens -> ScreenType]
      BY DEF ScreenInv
<1>3. PostsPayroll'
      BY <1>1 DEF ScreenInv, PostsPayroll
<1>4. RunningIsAwaited'
  <2> SUFFICES ASSUME NEW r \in Payrolls, r \notin unheard', Running(r)
               PROVE  \E d \in Screens : screen'[d].at = "posting" /\ screen'[d].req = r
      BY DEF RunningIsAwaited, Running
  <2>1. PICK d \in Screens : screen[d].at = "posting" /\ screen[d].req = r
        BY DEF ScreenInv, RunningIsAwaited, Running
  <2> QED BY <1>1, <2>1
<1> QED BY <1>2, <1>3, <1>4 DEF ScreenInv, NewerInv

(***************************************************************************)
(* The steps of a screen before its request is posted.                     *)
(***************************************************************************)
LEMMA StartingKeeps ==
  ASSUME ScreenInv, NEW c \in Screens,
         Submit(c) \/ Ask(c) \/ AskAnswered(c) \/ ConfirmPayment(c) \/ ObtainProof(c)
  PROVE  ScreenInv'
<1>1. UNCHANGED <<pc, unheard, newer>> /\ unheard \subseteq Payrolls
      BY DEF Submit, Ask, AskAnswered, ConfirmPayment, ObtainProof, ScreenOnly, vars, hookVars, ScreenInv
<1>2. screen[c] \in ScreenType
      BY DEF ScreenInv
<1>3. CASE Ask(c) \/ AskAnswered(c)
  <2>1. PICK new \in {BackTo("asking", "nothing"), BackTo("review", "nothing")} :
           screen' = [screen EXCEPT ![c] = new] /\ screen[c].at # "posting"
        BY <1>3 DEF Ask, AskAnswered, Goes
  <2>2. new \in ScreenType /\ new.at \notin {"proof", "posting"}
        BY BackToType DEF Places, Messages
  <2> QED BY <1>1, <2>1, <2>2, ScreenGoes
<1>4. CASE Submit(c)
  <2>1. PICK r \in Payrolls : Goes(c, "start", [Waiting(c) EXCEPT !.req = r])
        BY <1>4 DEF Submit
  <2> DEFINE new == [Waiting(c) EXCEPT !.req = r]
  <2>2. new \in ScreenType /\ new.req = r
        BY <1>2 DEF Waiting, ScreenType, Places, Messages
  <2>3. screen[c].at # "posting" /\ screen' = [screen EXCEPT ![c] = new]
        BY <2>1 DEF Goes
  <2> QED BY <1>1, <2>2, <2>3, ScreenGoes
<1>5. CASE ConfirmPayment(c)
  <2>1. PICK r \in Payrolls : Goes(c, "review", [BackTo("proof", "nothing") EXCEPT !.req = r])
        BY <1>5 DEF ConfirmPayment
  <2> DEFINE new == [BackTo("proof", "nothing") EXCEPT !.req = r]
  <2>2. BackTo("proof", "nothing") \in ScreenType
        BY BackToType DEF Places, Messages
  <2>3. new \in ScreenType /\ new.req = r
        BY <2>2 DEF ScreenType
  <2>4. screen[c].at # "posting" /\ screen' = [screen EXCEPT ![c] = new]
        BY <2>1 DEF Goes
  <2> QED BY <1>1, <2>3, <2>4, ScreenGoes
<1>6. CASE ObtainProof(c)
  <2>1. PICK header \in ProofHeaders(c) : Goes(c, "proof", [Waiting(c) EXCEPT !.header = header])
        BY <1>6 DEF ObtainProof
  <2> DEFINE new == [Waiting(c) EXCEPT !.header = header]
  <2>2. header \in {"demo", "flat"}
        BY DEF ProofHeaders
  <2>3. new \in ScreenType /\ new.req = screen[c].req
        BY <1>2, <2>2 DEF Waiting, ScreenType, Places, Messages
  <2>4. screen[c].at = "proof" /\ screen' = [screen EXCEPT ![c] = new]
        BY <2>1 DEF Goes
  <2>5. screen[c].req \in Payrolls
        BY <2>4 DEF ScreenInv, PostsPayroll
  <2> QED BY <1>1, <2>3, <2>4, <2>5, ScreenGoes
<1> QED BY <1>3, <1>4, <1>5, <1>6

(***************************************************************************)
(* The gate, the answer and a lost connection.                             *)
(***************************************************************************)
LEMMA OutcomeType ==
  ASSUME NEW c \in Screens, screen[c] \in ScreenType
  PROVE  Outcome(c) \in ScreenType /\ Outcome(c).at \in {"success", "start", "review"}
<1>1. /\ [screen[c] EXCEPT !.at = "success"] \in ScreenType
      /\ [screen[c] EXCEPT !.at = "success"].at = "success"
      BY DEF ScreenType, Places
<1>2. ASSUME NEW message \in {"ticked", "processed"}
      PROVE  /\ [screen[c] EXCEPT !.at = "start", !.shows = message] \in ScreenType
             /\ [screen[c] EXCEPT !.at = "start", !.shows = message].at = "start"
      BY DEF ScreenType, Places, Messages
<1> QED BY <1>1, <1>2, FailedType DEF Outcome

\* A screen that stops waiting was refused, answered, cut off or closed.
LEMMA PostingKeeps ==
  ASSUME ScreenInv, NEW c \in Screens,
         GateRefuses(c) \/ Answered(c) \/ ConnectionLost(c) \/ PageCloses(c)
  PROVE  ScreenInv'
<1>1. UNCHANGED <<pc, newer>> /\ screen[c] \in ScreenType /\ unheard \subseteq Payrolls
      BY DEF GateRefuses, Answered, ConnectionLost, PageCloses, ScreenOnly, vars, hookVars, ScreenInv
<1>2. CASE GateRefuses(c)
  <2>1. PICK new \in {Back(c, "start", "required"), Back(c, "review", "error")} :
           screen' = [screen EXCEPT ![c] = new]
        BY <1>2 DEF GateRefuses, Goes
  <2>2. new \in ScreenType /\ new.at \notin {"proof", "posting"}
        BY FailedType
  <2>3. UNCHANGED unheard /\ ~Running(screen[c].req)
        BY <1>2 DEF GateRefuses, ScreenOnly, AtGate, Running
  <2> QED BY <1>1, <2>1, <2>2, <2>3, ScreenGoes
<1>3. CASE Answered(c)
  <2>1. screen' = [screen EXCEPT ![c] = Outcome(c)] /\ UNCHANGED unheard /\ ~Running(screen[c].req)
        BY <1>3 DEF Answered, Goes, ScreenOnly, Running
  <2>2. Outcome(c) \in ScreenType /\ Outcome(c).at \notin {"proof", "posting"}
        BY <1>1, OutcomeType
  <2> QED BY <1>1, <2>1, <2>2, ScreenGoes
<1>4. CASE ConnectionLost(c) \/ PageCloses(c)
  <2>1. PICK new \in {Failed(c), Fresh} : screen' = [screen EXCEPT ![c] = new]
        BY <1>4 DEF ConnectionLost, PageCloses, Goes
  <2>2. new \in ScreenType /\ new.at \notin {"proof", "posting"}
        BY FailedType, FreshType
  <2>3. unheard' = unheard \cup Unanswered(c)
        BY <1>4 DEF ConnectionLost, PageCloses
  <2>4. unheard' \subseteq Payrolls
        BY <1>1, <2>3 DEF Unanswered
  <2>5. screen[c].at = "posting" => ~Running(screen[c].req) \/ screen[c].req \in unheard'
        BY <2>3 DEF Unanswered, ScreenInv, PostsPayroll
  <2> QED BY <1>1, <2>1, <2>2, <2>3, <2>4, <2>5, ScreenGoes
<1> QED BY <1>2, <1>3, <1>4

\* What a screen shows afterwards waits for no payroll.
LEMMA ShowingKeeps ==
  ASSUME ScreenInv, NEW c \in Screens,
         Redirects(c) \/ AgentLoads(c) \/ AgentRefreshes(c)
  PROVE  ScreenInv'
<1>1. /\ UNCHANGED <<pc, unheard, newer>> /\ screen[c] \in ScreenType /\ unheard \subseteq Payrolls
      /\ screen[c].at # "posting"
      BY DEF Redirects, AgentLoads, AgentRefreshes, ScreenOnly, Goes, vars, hookVars, ScreenInv
<1>2. ASSUME NEW new \in ScreenType, new.at \notin {"proof", "posting"},
             screen' = [screen EXCEPT ![c] = new]
      PROVE  ScreenInv'
      BY <1>1, <1>2, ScreenGoes
<1>3. Activity \subseteq Payrolls
      BY DEF Activity, Visible
<1>4. CASE Goes(c, "success", [screen[c] EXCEPT !.at = "agent", !.left = FALSE])
  <2> DEFINE new == [screen[c] EXCEPT !.at = "agent", !.left = FALSE]
  <2>1. new \in ScreenType /\ new.at = "agent"
        BY <1>1 DEF ScreenType, Places
  <2>2. screen' = [screen EXCEPT ![c] = new]
        BY <1>4 DEF Goes
  <2> HIDE DEF new
  <2> QED BY <1>2, <2>1, <2>2
<1>5. CASE Goes(c, "agent", [screen[c] EXCEPT !.at = "listed", !.shows = "nothing",
                                              !.list = Activity])
  <2> DEFINE new == [screen[c] EXCEPT !.at = "listed", !.shows = "nothing", !.list = Activity]
  <2>1. new \in ScreenType /\ new.at = "listed"
        BY <1>1, <1>3 DEF ScreenType, Places, Messages
  <2>2. screen' = [screen EXCEPT ![c] = new]
        BY <1>5 DEF Goes
  <2> HIDE DEF new
  <2> QED BY <1>2, <2>1, <2>2
<1>6. CASE Goes(c, "agent", [screen[c] EXCEPT !.shows = "error"])
  <2> DEFINE new == [screen[c] EXCEPT !.shows = "error"]
  <2>1. new \in ScreenType /\ new.at = screen[c].at
        BY <1>1 DEF ScreenType, Messages
  <2>2. screen' = [screen EXCEPT ![c] = new] /\ screen[c].at = "agent"
        BY <1>6 DEF Goes
  <2> HIDE DEF new
  <2> QED BY <1>2, <2>1, <2>2
<1>7. CASE Goes(c, "success", Fresh)
      BY <1>2, <1>7, FreshType DEF Goes
<1>8. CASE AgentRefreshes(c)
  <2> DEFINE new == [screen[c] EXCEPT !.at = "agent", !.list = {}]
  <2>1. new \in ScreenType /\ new.at = "agent"
        BY <1>1 DEF ScreenType, Places
  <2>2. screen' = [screen EXCEPT ![c] = new]
        BY <1>8 DEF AgentRefreshes, Goes
  <2> HIDE DEF new
  <2> QED BY <1>2, <2>1, <2>2
<1> QED BY <1>4, <1>5, <1>6, <1>7, <1>8 DEF Redirects, AgentLoads

\* A screen that is left waits on for the payroll it waited for.
LEMMA LeavingKeeps ==
  ASSUME ScreenInv, NEW c \in Screens, Leaves(c)
  PROVE  ScreenInv'
<1>1. UNCHANGED <<pc, unheard, newer>> /\ screen[c] \in ScreenType /\ unheard \subseteq Payrolls
      BY DEF Leaves, ScreenOnly, vars, hookVars, ScreenInv
<1>2. CASE screen[c].at \in RunsOn
  <2> DEFINE new == [screen[c] EXCEPT !.left = TRUE]
  <2>1. new \in ScreenType /\ new.at = screen[c].at /\ new.req = screen[c].req
        BY <1>1 DEF ScreenType
  <2>2. screen' = [screen EXCEPT ![c] = new]
        BY <1>2 DEF Leaves, ScreenInv
  <2>3. new.at \in {"proof", "posting"} => new.req \in Payrolls
        BY <2>1 DEF ScreenInv, PostsPayroll
  <2> HIDE DEF new
  <2> QED BY <1>1, <2>1, <2>2, <2>3, ScreenGoes
<1>3. CASE screen[c].at \notin RunsOn
  <2>1. screen' = [screen EXCEPT ![c] = Fresh] /\ screen[c].at # "posting"
        BY <1>3 DEF Leaves, RunsOn, ScreenInv
  <2> QED BY <1>1, <2>1, FreshType, ScreenGoes
<1> QED BY <1>2, <1>3

(***************************************************************************)
(* The gate admits a request to the pipeline while its screen waits.       *)
(***************************************************************************)
LEMMA AdmittingKeeps ==
  ASSUME ScreenInv, NEW c \in Screens, GateAdmits(c)
  PROVE  ScreenInv' /\ screen[c].req \in Payrolls /\ CreatePayroll(screen[c].req)
<1>1. screen[c].req \in Payrolls /\ screen[c].at = "posting"
      BY DEF GateAdmits, AtGate, ScreenInv, PostsPayroll
<1>2. /\ UNCHANGED <<screen, unheard>> /\ CreatePayroll(screen[c].req)
      /\ \A r \in Payrolls : newer'[r] \in {newer[r], newer[r] \cup {screen[c].req}}
      /\ newer' \in [Payrolls -> SUBSET Payrolls]
      /\ \E to \in {"createPayments", "done"} : pc' = [pc EXCEPT ![screen[c].req] = to]
      BY <1>1 DEF GateAdmits, CreatePayroll, Goto, ScreenInv, NewerInv
<1>3. /\ pc' \in [Payrolls -> Labels]
      /\ \A r \in Payrolls \ {screen[c].req} : pc'[r] = pc[r]
      BY <1>1, <1>2 DEF ScreenInv, Labels, FlowLabels
<1>4. RunningIsAwaited'
      BY <1>1, <1>2, <1>3 DEF ScreenInv, RunningIsAwaited, Running
<1>5. NewerInv'
  <2>1. ASSUME NEW r \in Payrolls PROVE IsFiniteSet(newer'[r])
    <3>1. IsFiniteSet(newer[r])
          BY DEF ScreenInv, NewerInv
    <3>2. IsFiniteSet(newer[r] \cup {screen[c].req})
          BY <3>1, FS_AddElement
    <3> QED BY <1>2, <3>1, <3>2
  <2> QED BY <1>2, <2>1 DEF NewerInv
<1> QED BY <1>1, <1>2, <1>3, <1>4, <1>5 DEF ScreenInv, PostsPayroll

(***************************************************************************)
(* Every step is one of the pipeline or leaves the pipeline alone.         *)
(***************************************************************************)
LEMMA ClientStepIsFlowStep ==
  ASSUME ScreenInv, [ClientNext]_allVars
  PROVE  [Next]_vars
<1>1. ASSUME NEW c \in Screens, ScreenStep(c) PROVE [Next]_vars
  <2>1. CASE GateAdmits(c)
        BY <2>1, AdmittingKeeps DEF Next
  <2>2. CASE ~GateAdmits(c)
        BY <1>1, <2>2
        DEF ScreenStep, Awaited, AskAnswered, ObtainProof, GateRefuses, Answered, ConnectionLost,
            Submit, Ask, ConfirmPayment, Redirects, AgentLoads, AgentRefreshes, Leaves, PageCloses,
            ScreenOnly
  <2> QED BY <2>1, <2>2
<1>2. CASE BackendStep
      BY <1>2 DEF BackendStep, Next
<1>3. CASE UNCHANGED allVars
      BY <1>3 DEF allVars
<1> QED BY <1>1, <1>2, <1>3 DEF ClientNext

\* No screen waits and nothing runs at the start.
LEMMA ScreenInvInit == ClientInit => ScreenInv
<1> SUFFICES ASSUME ClientInit PROVE ScreenInv
    OBVIOUS
<1>1. screen \in [Screens -> ScreenType] /\ \A c \in Screens : screen[c].at = "start"
      BY DEF ClientInit, Fresh, ScreenType, Places, Messages
<1>2. pc = [r \in Payrolls |-> "idle"] /\ unheard = {}
      BY DEF ClientInit, Init
<1>3. NewerInv
      BY FS_EmptySet DEF ClientInit, NewerInv
<1> QED BY <1>1, <1>2, <1>3
        DEF ScreenInv, PostsPayroll, RunningIsAwaited, Running, Labels, FlowLabels

\* Every step keeps the invariant, as the control points stay typed.
LEMMA ScreenInvStep == TypeOK' /\ ScreenInv /\ [ClientNext]_allVars => ScreenInv'
<1> SUFFICES ASSUME TypeOK', ScreenInv, [ClientNext]_allVars PROVE ScreenInv'
    OBVIOUS
<1>1. ASSUME NEW c \in Screens, ScreenStep(c) PROVE ScreenInv'
      BY <1>1, StartingKeeps, PostingKeeps, ShowingKeeps, LeavingKeeps, AdmittingKeeps
      DEF ScreenStep, Awaited
<1>2. CASE BackendStep /\ UNCHANGED screenVars
  <2>1. UNCHANGED <<screen, unheard, newer>> /\ pc' \in [Payrolls -> Labels]
        BY <1>2 DEF screenVars, TypeOK, Labels
  <2>2. \A r \in Payrolls : Running(r)' => Running(r)
        BY <1>2, BackendStepStays DEF ScreenInv
  <2>3. RunningIsAwaited'
        BY <2>1, <2>2 DEF ScreenInv, RunningIsAwaited, Running
  <2> QED BY <2>1, <2>3 DEF ScreenInv, NewerInv, PostsPayroll
<1>3. CASE UNCHANGED allVars
      BY <1>3 DEF allVars, vars, hookVars, screenVars, ScreenInv, NewerInv, PostsPayroll,
                  RunningIsAwaited, Running
<1> QED BY <1>1, <1>2, <1>3 DEF ClientNext

(***************************************************************************)
(* Behind any screens, gate and lost connections the pipeline behaves as   *)
(* PayrollFlow says: what is proved of it holds for paid requests too.     *)
(***************************************************************************)
THEOREM ScreensKeepPipeline == ClientSpec => Spec
<1> DEFINE Inv == ScreenInv /\ ContractInv
<1>1. ClientInit => Inv /\ Init
      BY ScreenInvInit, TypeInit DEF ClientInit, Init, TreasuryInit, Zeros, NoStandingApproval, ContractInv
<1>2. Inv /\ [ClientNext]_allVars => Inv' /\ [Next]_vars
  <2> SUFFICES ASSUME Inv, [ClientNext]_allVars PROVE Inv' /\ [Next]_vars
      OBVIOUS
  <2>1. [Next]_vars
        BY ClientStepIsFlowStep
  <2>2. UNCHANGED vars => ContractInv'
        BY DEF vars, treasuryVars, hookVars, flowVars, TypeOK, TreasuryTypeOK, NoStandingApproval,
               ContractInv
  <2>3. ContractInv'
        BY <2>1, <2>2, ContractInvStep
  <2> QED BY <2>1, <2>3, ScreenInvStep DEF ContractInv
<1> HIDE DEF Inv
<1> QED BY <1>1, <1>2, PTL DEF ClientSpec, Spec

(***************************************************************************)
(* ScreenInv holds for any screens, as the pipeline keeps its types.       *)
(***************************************************************************)
THEOREM ScreensInvariance == ClientSpec => []ScreenInv
<1>1. ClientSpec => []TypeOK
      BY ScreensKeepPipeline, PayrollTypeCorrect, PTL
<1> QED BY <1>1, ScreenInvInit, ScreenInvStep, PTL DEF ClientSpec

(***************************************************************************)
(* Screens, gate and pipeline stay typed.                                  *)
(***************************************************************************)
THEOREM ScreensTypeCorrect == ClientSpec => []ClientTypeOK
<1>1. ClientSpec => []TypeOK
      BY ScreensKeepPipeline, PayrollTypeCorrect, PTL
<1>2. ScreenInv /\ TypeOK => ClientTypeOK
      BY DEF ScreenInv, NewerInv, ScreenType, ClientTypeOK
<1> QED BY <1>1, <1>2, ScreensInvariance, PTL

(***************************************************************************)
(* A disbursement that runs is awaited by the handler that asked for it,   *)
(* wherever the user has gone meanwhile, unless its connection was lost or *)
(* its page closed: for any number of screens and payrolls.                *)
(***************************************************************************)
THEOREM DisbursementsAreAwaited == ClientSpec => []RunningIsAwaited
<1>1. ScreenInv => RunningIsAwaited
      BY DEF ScreenInv
<1> QED BY <1>1, ScreensInvariance, PTL

(***************************************************************************)
(* However often screens pay, refuse or lose their connections, a payment  *)
(* is executed at most once.                                               *)
(***************************************************************************)
THEOREM ScreensExecuteAtMostOnce == ClientSpec => []ExecutedAtMostOnce
BY ScreensKeepPipeline, PaymentsExecuteAtMostOnce, PTL

(***************************************************************************)
(* And the promise about the money holds of paid requests: behind screens, *)
(* gate and lost connections the pipeline implements Disbursement.         *)
(***************************************************************************)
THEOREM ScreensDisburse == ClientSpec => Disburses
BY ScreensKeepPipeline, PipelineDisburses, PTL

-----------------------------------------------------------------------------

(***************************************************************************)
(* What a screen shows of its payroll is true: HonestInv follows the       *)
(* payroll from the click that chose it to the page that lists it, and the *)
(* pipeline's AnswerInv says what the answer in between stands for.        *)
(***************************************************************************)
RouteFor(c) == IF Kind[c] = "form" THEN "process" ELSE "demo"

\* A whole page of payrolls is newer than r.
Paged(r) == Cardinality(newer[r] \cap Visible) >= PageSize

Honest(c) ==
  /\ screen[c].at \in {"proof", "posting"} => Route[screen[c].req] = RouteFor(c)
  /\ screen[c].at \in {"success", "agent", "listed"} =>
        screen[c].req \in Payrolls /\ Begun(screen[c].req)
  /\ screen[c].at = "listed" => screen[c].req \in screen[c].list \/ Paged(screen[c].req)
  /\ Kind[c] = "form" /\ screen[c].shows = "ticked" =>
        screen[c].req \in Payrolls /\ (~RailConfigured => HasExecuted(screen[c].req))

HonestInv == \A c \in Screens : Honest(c)

\* No step takes back what a screen may have shown of a payroll.
NothingTakenBack == \A r \in Payrolls : Lasting(r) /\ (Paged(r) => Paged(r)')

(***************************************************************************)
(* Payrolls stay listed and stay newer, so a full page stays full.         *)
(***************************************************************************)
LEMMA PagesLast ==
  ASSUME NewerInv', \A r \in Payrolls : Lasting(r), \A r \in Payrolls : newer[r] \subseteq newer'[r]
  PROVE  NothingTakenBack
<1> SUFFICES ASSUME NEW r \in Payrolls, Paged(r) PROVE Paged(r)'
  BY DEF NothingTakenBack
<1> DEFINE before == newer[r] \cap Visible
           after == newer'[r] \cap Visible'
<1>1. before \subseteq after
  BY DEF Visible, Lasting, Begun
<1>2. IsFiniteSet(after)
  BY FS_Intersection DEF NewerInv
<1>3. IsFiniteSet(before) /\ Cardinality(before) <= Cardinality(after)
  BY <1>1, <1>2, FS_Subset
<1>4. Cardinality(before) \in Nat /\ Cardinality(after) \in Nat
  BY <1>2, <1>3, FS_CardinalityType
<1>5. Cardinality(before) >= PageSize
  BY DEF Paged
<1> HIDE DEF before, after
<1>6. Cardinality(after) >= PageSize
  BY <1>3, <1>4, <1>5, ScreensAssumption
<1> QED BY <1>6 DEF Paged, after

\* Every step of screens and pipeline lets the pages fill.
LEMMA NewerGrows ==
  ASSUME [ClientNext]_allVars, NewerInv
  PROVE  \A r \in Payrolls : newer[r] \subseteq newer'[r]
<1>1. CASE UNCHANGED newer
  BY <1>1
<1>2. ASSUME NEW c \in Screens, GateAdmits(c) PROVE \A r \in Payrolls : newer[r] \subseteq newer'[r]
  BY <1>2 DEF GateAdmits
<1>3. ASSUME NEW c \in Screens, ScreenStep(c), ~GateAdmits(c) PROVE UNCHANGED newer
  BY <1>3
  DEF ScreenStep, Awaited, AskAnswered, ObtainProof, GateRefuses, Answered, ConnectionLost,
      Submit, Ask, ConfirmPayment, Redirects, AgentLoads, AgentRefreshes, Leaves, PageCloses,
      ScreenOnly
<1> QED BY <1>1, <1>2, <1>3 DEF ClientNext, allVars, screenVars

(***************************************************************************)
(* A screen that does nothing stays honest: what its answer stood for      *)
(* lasts.                                                                  *)
(***************************************************************************)
LEMMA HonestLasts ==
  ASSUME NEW c \in Screens, Honest(c), screen'[c] = screen[c], NothingTakenBack
  PROVE  Honest(c)'
BY DEF Honest, NothingTakenBack, Lasting, RouteFor

\* So does one that goes back, to a form or a dashboard without a payroll.
LEMMA BackIsHonest ==
  ASSUME ScreenInv, NEW c \in Screens,
         NEW place \in Places \ {"proof", "posting", "success", "agent", "listed"},
         NEW message \in Messages \ {"ticked"},
         \/ screen' = [screen EXCEPT ![c] = BackTo(place, message)]
         \/ screen' = [screen EXCEPT ![c] = Fresh]
  PROVE  Honest(c)'
<1>1. PICK new \in {BackTo(place, message), Fresh} : screen' = [screen EXCEPT ![c] = new]
  OBVIOUS
<1>2. new.at \in {place, "start"} /\ new.shows \in {message, "nothing"}
  <2>1. BackTo(place, message).at = place /\ BackTo(place, message).shows = message
    BY DEF BackTo, Fresh
  <2>2. Fresh.at = "start" /\ Fresh.shows = "nothing"
    BY DEF Fresh
  <2> QED BY <2>1, <2>2
<1>3. screen'[c] = new
  BY <1>1 DEF ScreenInv
<1> QED BY <1>2, <1>3 DEF Honest

(***************************************************************************)
(* An answer is shown as what it is, and the agent page lists its payroll. *)
(***************************************************************************)
LEMMA AnsweredIsHonest ==
  ASSUME ScreenInv, AnswerInv, NEW c \in Screens, Honest(c), Answered(c)
  PROVE  Honest(c)'
<1>1. /\ screen[c] \in ScreenType /\ screen[c].at = "posting" /\ screen[c].req \in Payrolls
      /\ screen' = [screen EXCEPT ![c] = Outcome(c)] /\ screen'[c] = Outcome(c)
      /\ Kind[c] \in {"form", "flow"}
  BY ScreensAssumption DEF Answered, Goes, ScreenInv, PostsPayroll
<1>2. /\ Route[screen[c].req] = RouteFor(c) /\ AnswerOf(screen[c].req)
      /\ UNCHANGED <<payrollStatus, transfers, refusals>>
  BY <1>1 DEF Honest, AnswerInv, Answered, ScreenOnly, vars, hookVars
<1>3. CASE Kind[c] = "flow" /\ reply[screen[c].req] = "success"
  <2>1. screen'[c] = [screen[c] EXCEPT !.at = "success"]
    BY <1>1, <1>3 DEF Outcome
  <2>2. screen'[c].at = "success" /\ screen'[c].req = screen[c].req
    BY <1>1, <2>1 DEF ScreenType
  <2>3. Begun(screen[c].req) /\ (Begun(screen[c].req) => Begun(screen[c].req)')
    BY <1>2, <1>3, <2>2 DEF AnswerOf, RouteFor, Begun
  <2> QED BY <1>1, <1>3, <2>2, <2>3 DEF Honest
<1>4. ASSUME Kind[c] = "form",
             NEW message \in {"ticked", "processed"},
             message = "ticked" => reply[screen[c].req] = "success",
             screen'[c] = [screen[c] EXCEPT !.at = "start", !.shows = message]
      PROVE  Honest(c)'
  <2>1. /\ screen'[c].at = "start" /\ screen'[c].req = screen[c].req
        /\ screen'[c].shows = message
    BY <1>1, <1>4 DEF ScreenType
  <2>2. message = "ticked" /\ ~RailConfigured => HasExecuted(screen[c].req)
    BY <1>2, <1>4 DEF AnswerOf, RouteFor
  <2>3. HasExecuted(screen[c].req) => HasExecuted(screen[c].req)'
    BY <1>2, <2>1 DEF HasExecuted, PaymentsOf, Mined
  <2> QED BY <1>1, <2>1, <2>2, <2>3 DEF Honest
<1>5. CASE screen'[c] = Failed(c)
  <2>1. PICK place \in {"start", "review"} :
           \/ screen' = [screen EXCEPT ![c] = BackTo(place, "error")]
           \/ screen' = [screen EXCEPT ![c] = Fresh]
    BY <1>1, <1>5 DEF Failed, Back
  <2> QED BY <2>1, BackIsHonest DEF Places, Messages
<1> QED BY <1>1, <1>3, <1>4, <1>5 DEF Outcome

(***************************************************************************)
(* A screen that is left shows nothing, and what it waits for is as good.  *)
(***************************************************************************)
LEMMA LeavingIsHonest ==
  ASSUME ScreenInv, NEW c \in Screens, Honest(c), Leaves(c)
  PROVE  Honest(c)'
<1>1. screen[c] \in ScreenType /\ UNCHANGED <<payrollStatus, transfers, refusals, newer>>
  BY DEF Leaves, ScreenOnly, vars, hookVars, ScreenInv
<1>2. CASE screen[c].at \in RunsOn
  <2>1. screen'[c] = [screen[c] EXCEPT !.left = TRUE]
    BY <1>2 DEF Leaves, ScreenInv
  <2>2. /\ screen'[c].at = screen[c].at /\ screen'[c].req = screen[c].req
        /\ screen'[c].shows = screen[c].shows /\ screen'[c].list = screen[c].list
    BY <1>1, <2>1 DEF ScreenType
  <2>3. Visible' = Visible
    BY <1>1 DEF Visible
  <2>4. \A r \in Payrolls : Lasting(r) /\ (Paged(r) => Paged(r)')
    BY <1>1, <2>3 DEF Lasting, Begun, HasExecuted, PaymentsOf, Mined, Paged
  <2> QED BY <2>2, <2>4 DEF Honest, Lasting, RouteFor
<1>3. CASE screen[c].at \notin RunsOn
  <2>1. screen' = [screen EXCEPT ![c] = Fresh]
    BY <1>3 DEF Leaves, ScreenInv
  <2>2. /\ "start" \in Places \ {"proof", "posting", "success", "agent", "listed"}
        /\ "nothing" \in Messages \ {"ticked"}
    BY DEF Places, Messages
  <2> QED BY <2>1, <2>2, BackIsHonest
<1> QED BY <1>2, <1>3

\* Every other step a screen makes keeps it honest.
LEMMA OwnStepIsHonest ==
  ASSUME ScreenInv, AnswerInv, NEW c \in Screens, Honest(c), ScreenStep(c), ~GateAdmits(c)
  PROVE  Honest(c)'
<1>1. /\ screen[c] \in ScreenType
      /\ UNCHANGED <<payrollStatus, transfers, refusals, newer>>
  BY DEF ScreenInv, ScreenStep, Awaited, AskAnswered, ObtainProof, GateRefuses, Answered,
         ConnectionLost, Submit, Ask, ConfirmPayment, Redirects, AgentLoads, AgentRefreshes,
         Leaves, PageCloses, ScreenOnly, vars, hookVars
<1>2. \A r \in Payrolls : Lasting(r) /\ (Paged(r) => Paged(r)')
  BY <1>1 DEF Lasting, Begun, HasExecuted, PaymentsOf, Mined, Paged, Visible
<1>3. CASE \/ GateRefuses(c) \/ ConnectionLost(c) \/ Ask(c) \/ AskAnswered(c) \/ PageCloses(c)
           \/ Goes(c, "success", Fresh)
  <2>1. PICK new \in {Failed(c), Back(c, "start", "required"), Back(c, "review", "error"),
                      BackTo("asking", "nothing"), BackTo("review", "nothing"), Fresh} :
           screen' = [screen EXCEPT ![c] = new]
    BY <1>3 DEF GateRefuses, ConnectionLost, Ask, AskAnswered, PageCloses, Goes
  <2>2. new \in {Fresh, BackTo("start", "error"), BackTo("review", "error"), BackTo("start", "required"),
                 BackTo("asking", "nothing"), BackTo("review", "nothing")}
    BY BackCases
  <2>3. PICK place \in {"start", "asking", "review"}, message \in {"nothing", "error", "required"} :
           new \in {Fresh, BackTo(place, message)}
    BY <2>2
  <2> QED BY <2>1, <2>3, BackIsHonest DEF Places, Messages
<1>4. CASE Leaves(c)
  BY <1>4, LeavingIsHonest
<1>5. CASE Answered(c)
  BY <1>5, AnsweredIsHonest
<1>6. CASE Submit(c)
  <2>1. PICK r \in Payrolls : CanSend(c, r) /\ Goes(c, "start", [Waiting(c) EXCEPT !.req = r])
    BY <1>6 DEF Submit
  <2>2. screen'[c].at = "posting" /\ screen'[c].req = r /\ screen'[c].shows = "nothing"
    BY <1>1, <2>1 DEF Goes, Waiting, ScreenInv, ScreenType
  <2> QED BY <2>1, <2>2 DEF Honest, CanSend, RouteFor
<1>7. CASE ConfirmPayment(c)
  <2>1. PICK r \in Payrolls : /\ CanSend(c, r)
                              /\ Goes(c, "review", [BackTo("proof", "nothing") EXCEPT !.req = r])
    BY <1>7 DEF ConfirmPayment
  <2>2. screen'[c].at = "proof" /\ screen'[c].req = r /\ screen'[c].shows = "nothing"
    BY <2>1 DEF Goes, BackTo, Fresh, ScreenInv
  <2> QED BY <2>1, <2>2 DEF Honest, CanSend, RouteFor
<1>8. CASE ObtainProof(c)
  <2>1. PICK header \in ProofHeaders(c) : Goes(c, "proof", [Waiting(c) EXCEPT !.header = header])
    BY <1>8 DEF ObtainProof
  <2>2. /\ screen'[c].at = "posting" /\ screen'[c].req = screen[c].req
        /\ screen'[c].shows = "nothing" /\ screen[c].at = "proof"
    BY <1>1, <2>1 DEF Goes, Waiting, ScreenInv, ScreenType
  <2> QED BY <2>2 DEF Honest, RouteFor
<1>9. CASE /\ screen[c].at \in {"success", "agent", "listed"}
           /\ \/ screen' = [screen EXCEPT ![c] = [screen[c] EXCEPT !.at = "agent", !.left = FALSE]]
              \/ screen' = [screen EXCEPT ![c] = [screen[c] EXCEPT !.at = "agent", !.list = {}]]
              \/ screen' = [screen EXCEPT ![c] = [screen[c] EXCEPT !.shows = "error"]]
                 /\ screen[c].at = "agent"
  <2>1. /\ screen'[c].at = "agent" /\ screen'[c].req = screen[c].req
        /\ screen'[c].shows \in {screen[c].shows, "error"}
    <3>1. CASE screen' = [screen EXCEPT ![c] = [screen[c] EXCEPT !.at = "agent", !.left = FALSE]]
      BY <1>1, <3>1 DEF ScreenInv, ScreenType
    <3>2. CASE screen' = [screen EXCEPT ![c] = [screen[c] EXCEPT !.at = "agent", !.list = {}]]
      BY <1>1, <3>2 DEF ScreenInv, ScreenType
    <3>3. CASE screen' = [screen EXCEPT ![c] = [screen[c] EXCEPT !.shows = "error"]]
               /\ screen[c].at = "agent"
      BY <1>1, <3>3 DEF ScreenInv, ScreenType
    <3> QED BY <1>9, <3>1, <3>2, <3>3
  <2> QED BY <1>2, <1>9, <2>1 DEF Honest, Lasting
<1>10. CASE /\ screen[c].at = "agent"
            /\ screen' = [screen EXCEPT ![c] = [screen[c] EXCEPT !.at = "listed", !.shows = "nothing",
                                                                 !.list = Activity]]
  <2>1. /\ screen'[c].at = "listed" /\ screen'[c].req = screen[c].req
        /\ screen'[c].shows = "nothing" /\ screen'[c].list = Activity
    BY <1>1, <1>10 DEF ScreenInv, ScreenType
  <2>2. screen[c].req \in Payrolls /\ screen[c].req \in Visible
    BY <1>10 DEF Honest, Visible, Begun
  <2>3. Cardinality(newer[screen[c].req] \cap Visible) \in Nat
    BY <2>2, FS_Intersection, FS_CardinalityType DEF ScreenInv, NewerInv
  <2>4. screen[c].req \in Activity \/ Paged(screen[c].req)
    <3> DEFINE count == Cardinality(newer[screen[c].req] \cap Visible)
    <3>1. count < PageSize \/ count >= PageSize
      BY <2>3, ScreensAssumption
    <3>2. count < PageSize => screen[c].req \in Activity
      BY <2>2 DEF Activity
    <3> QED BY <3>1, <3>2 DEF Paged
  <2> QED BY <1>2, <1>10, <2>1, <2>4 DEF Honest, Lasting
<1>11. CASE ~Goes(c, "success", Fresh) /\ (Redirects(c) \/ AgentRefreshes(c) \/ AgentLoads(c))
  BY <1>9, <1>10, <1>11 DEF Redirects, AgentRefreshes, AgentLoads, Goes
<1> QED BY <1>3, <1>4, <1>5, <1>6, <1>7, <1>8, <1>11 DEF ScreenStep, Awaited

(***************************************************************************)
(* No step of screens, gate or pipeline makes what is shown untrue.        *)
(***************************************************************************)
LEMMA HonestStep ==
  ASSUME ExecutionInv, StatusInv, AnswerInv, ScreenInv, ScreenInv', HonestInv, [ClientNext]_allVars
  PROVE  AnswerInv' /\ HonestInv'
<1>1. [Next]_vars
  BY ClientStepIsFlowStep
<1>2. AnswerInv' /\ \A r \in Payrolls : Lasting(r)
  BY <1>1, AnswerStep DEF AnswerInv
<1> SUFFICES ASSUME NEW c \in Screens PROVE Honest(c)'
  BY <1>2 DEF HonestInv
<1>3. Honest(c)
  BY DEF HonestInv
<1>4. NothingTakenBack
  BY <1>2, NewerGrows, PagesLast DEF ScreenInv
<1>5. CASE screen'[c] = screen[c]
  BY <1>3, <1>4, <1>5, HonestLasts
<1>6. ASSUME NEW d \in Screens, ScreenStep(d) PROVE Honest(c)'
  <2>1. CASE GateAdmits(d)
    BY <1>5, <2>1 DEF GateAdmits
  <2>2. CASE ~GateAdmits(d) /\ c = d
    BY <1>3, <1>6, <2>2, OwnStepIsHonest
  <2>3. CASE ~GateAdmits(d) /\ c # d
    <3>1. \E new : screen' = [screen EXCEPT ![d] = new]
      BY <1>6, <2>3 DEF ScreenStep, Awaited, AskAnswered, ObtainProof, GateRefuses, Answered,
         ConnectionLost, Submit, Ask, ConfirmPayment, Redirects, AgentLoads, AgentRefreshes,
         Leaves, PageCloses, Goes
    <3>2. screen'[c] = screen[c]
      BY <2>3, <3>1 DEF ScreenInv
    <3> QED BY <1>5, <3>2
  <2> QED BY <2>1, <2>2, <2>3
<1> QED BY <1>5, <1>6 DEF ClientNext, allVars, screenVars

\* Nothing is shown at the start.
LEMMA HonestInit == ClientInit => HonestInv
BY DEF ClientInit, Fresh, HonestInv, Honest

(***************************************************************************)
(* Screens stay honest, for any number of them.                            *)
(***************************************************************************)
LEMMA HonestInvariance == ClientSpec => []HonestInv
<1>1. ClientSpec => [](ExecutionInv /\ StatusInv)
  BY ScreensKeepPipeline, StatusInvariance, PTL
<1>2. ClientInit => AnswerInv /\ HonestInv
  BY AnswerInit, HonestInit DEF ClientInit
<1>3. ExecutionInv /\ StatusInv /\ AnswerInv /\ ScreenInv /\ ScreenInv' /\ HonestInv
         /\ [ClientNext]_allVars => AnswerInv' /\ HonestInv'
  BY HonestStep
<1> QED BY <1>1, <1>2, <1>3, ScreensInvariance, PTL DEF ClientSpec

(***************************************************************************)
(* Where no Rail account is configured, the form shows its check mark only *)
(* if its own payment was mined, whatever fails, crashes, is left or lost. *)
(***************************************************************************)
THEOREM TicksAreBacked == ClientSpec => []FormSuccessIsBacked
<1>1. HonestInv => FormSuccessIsBacked
  BY DEF HonestInv, Honest, FormSuccessIsBacked, HasExecuted
<1> QED BY <1>1, HonestInvariance, PTL

(***************************************************************************)
(* The agent page the flow ends on lists the payroll it was shown for, as  *)
(* long as fewer than a page of newer ones have begun.                     *)
(***************************************************************************)
THEOREM AgentPageListsPayroll == ClientSpec => []AgentListsPayroll
<1>1. HonestInv => AgentListsPayroll
  BY DEF HonestInv, Honest, AgentListsPayroll, Paged
<1> QED BY <1>1, HonestInvariance, PTL
=============================================================================
