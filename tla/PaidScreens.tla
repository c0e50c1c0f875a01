---------------------------- MODULE PaidScreens -----------------------------
(***************************************************************************)
(* The screens that pay for a disbursement and the x402 gate in front of   *)
(* the two routes of PayrollFlow:                                          *)
(*   "form"  components/PaymentForm.tsx, which sends demo-token at once;   *)
(*   "flow"  components/Dashboard.tsx, PaymentFlow.tsx and the agent page  *)
(*           it ends on: ask, be told the price, obtain a proof, ask       *)
(*           again, see the payroll.                                       *)
(* A payroll is the request that may create it; requests that no screen    *)
(* sends are left to PayrollFlow's own specification.  A connection lost   *)
(* before the gate has decided has not delivered its request.              *)
(* A screen is one mounted component.  The application may unmount it at   *)
(* any time, by a link, the back button, a sign out or the loader of a     *)
(* session check; what its click handler has begun goes on without it.     *)
(***************************************************************************)
EXTENDS PayrollFlow, Facilitator

CONSTANTS
  Screens,            \* open screens
  Kind,               \* Kind[c] \in {"form", "flow"}
  NoPayroll,
  UiFacilitator,      \* what VITE_FACILITATOR_URL names: "own" or "other"
  GateFacilitator,    \* what X402_FACILITATOR_URL names: "own", "mock" or "other"
  DemoAllowed,        \* not production, or X402_ALLOW_DEMO_TOKEN
  ConnectionMayFail,  \* screens whose connections may be lost
  PageSize            \* what the agent page's query takes, 20

ASSUME ScreensAssumption ==
  /\ Kind \in [Screens -> {"form", "flow"}]
  /\ NoPayroll \notin Payrolls
  /\ UiFacilitator \in {"own", "other"}
  /\ GateFacilitator \in {"own", "mock", "other"}
  /\ DemoAllowed \in BOOLEAN
  /\ ConnectionMayFail \subseteq Screens
  /\ PageSize \in Nat \ {0}

VARIABLES
  screen,   \* screen[c]: what c shows and awaits
  unheard,  \* running payrolls whose connection was lost or whose page was closed
  newer     \* newer[r]: the payrolls created after r, by createdAt

screenVars == <<screen, unheard, newer>>
allVars == <<vars, screenVars>>

\* start: the form, or the dashboard with its button.
Places == {"start", "asking", "review", "proof", "posting", "success", "agent", "listed"}

\* A message stays until the next attempt.  The form says "Payment processed
\* successfully!" of both "ticked" and "processed", and ticks the first.
Messages == {"nothing", "error", "required", "ticked", "processed"}

ClientTypeOK ==
  /\ TypeOK
  /\ screen \in [Screens -> [at : Places, left : BOOLEAN, shows : Messages,
                             req : Payrolls \cup {NoPayroll}, header : {"demo", "flat"},
                             list : SUBSET Payrolls]]
  /\ unheard \subseteq Payrolls
  /\ newer \in [Payrolls -> SUBSET Payrolls]

\* left: unmounted, and its handler runs on.
Fresh == [at |-> "start", left |-> FALSE, shows |-> "nothing", req |-> NoPayroll,
          header |-> "demo", list |-> {}]

ClientInit ==
  /\ Init
  /\ screen = [c \in Screens |-> Fresh]
  /\ unheard = {}
  /\ newer = [r \in Payrolls |-> {}]

Goes(c, from, new) == screen[c].at = from /\ screen' = [screen EXCEPT ![c] = new]
ScreenOnly == UNCHANGED <<vars, unheard, newer>>

\* A screen without a payroll; nobody sees one that was left, which is over.
BackTo(place, message) == [Fresh EXCEPT !.at = place, !.shows = message]
Back(c, place, message) == IF screen[c].left THEN Fresh ELSE BackTo(place, message)

Running(r) == pc[r] \notin {"idle", "done", "crashed"}

\* The payroll whose answer nobody hears once c no longer waits.
Unanswered(c) == {r \in Payrolls : r = screen[c].req /\ Running(r)}

\* The request that is still possible for c: nobody has sent it.
CanSend(c, r) ==
  /\ pc[r] = "idle"
  /\ \A d \in Screens : screen[d].req # r
  /\ Route[r] = IF Kind[c] = "form" THEN "process" ELSE "demo"

Waiting(c) == [screen[c] EXCEPT !.at = "posting", !.shows = "nothing"]

-----------------------------------------------------------------------------
(* The screens up to their requests. *)

\* handleSubmit of PaymentForm, with a form that passes its checks.
Submit(c) ==
  /\ Kind[c] = "form"
  /\ \E r \in Payrolls : CanSend(c, r) /\ Goes(c, "start", [Waiting(c) EXCEPT !.req = r])
  /\ ScreenOnly

\* handleExecutePayroll of Dashboard, without X-PAYMENT: 402 and the meter.
Ask(c) ==
  /\ Kind[c] = "flow"
  /\ Goes(c, "start", BackTo("asking", "nothing"))
  /\ ScreenOnly

AskAnswered(c) ==
  /\ Goes(c, "asking", BackTo("review", "nothing"))
  /\ ScreenOnly

ConfirmPayment(c) ==
  /\ \E r \in Payrolls : CanSend(c, r) /\ Goes(c, "review", [BackTo("proof", "nothing") EXCEPT !.req = r])
  /\ ScreenOnly

\* The screen's proof authorizes metering.price, read as the token's smallest unit.
UiProof == [shape |-> "flat", amount |-> 0]

\* getPaymentProofFromFacilitator: the proof if the facilitator answers that it is
\* valid, demo-token for any other answer or none.
ProofHeaders(c) ==
  {IF valid THEN "flat" ELSE "demo" :
     valid \in (IF UiFacilitator = "own" THEN {ValidateRoute(UiProof, "payroll_execute") = "valid"}
                                         ELSE BOOLEAN)
               \cup (IF c \in ConnectionMayFail THEN {FALSE} ELSE {})}

ObtainProof(c) ==
  /\ \E header \in ProofHeaders(c) : Goes(c, "proof", [Waiting(c) EXCEPT !.header = header])
  /\ ScreenOnly

-----------------------------------------------------------------------------
(* x402Protect and the routes. *)

\* A posted request that its route has not begun.
AtGate(c) == screen[c].at = "posting" /\ pc[screen[c].req] = "idle"

GateAnswers(c) ==
  HeaderAnswers(GateFacilitator, DemoAllowed,
                [shape |-> screen[c].header, amount |-> UiProof.amount],
                IF Kind[c] = "form" THEN "payment_process" ELSE "payroll_execute")

GateRefuses(c) ==
  /\ AtGate(c) /\ FALSE \in GateAnswers(c)
  /\ Goes(c, "posting", IF Kind[c] = "form" THEN Back(c, "start", "required")
                                            ELSE Back(c, "review", "error"))
  /\ ScreenOnly

GateAdmits(c) ==
  /\ AtGate(c) /\ TRUE \in GateAnswers(c)
  /\ CreatePayroll(screen[c].req)
  /\ newer' = [r \in Payrolls |->
                 IF payrollStatus[r] # "none" /\ payrollStatus'[screen[c].req] # "none"
                 THEN newer[r] \cup {screen[c].req}
                 ELSE newer[r]]
  /\ UNCHANGED <<screen, unheard>>

-----------------------------------------------------------------------------
(* The screens once they are answered. *)

\* A throw of fetch, or an answer that is not ok.
Failed(c) == Back(c, IF Kind[c] = "flow" /\ screen[c].at # "asking" THEN "review" ELSE "start", "error")

\* Mutant: the form ticks every answer with status 200, as its text has it.
BugOutcome(c) ==
  CASE Kind[c] = "flow" /\ reply[screen[c].req] = "success" -> [screen[c] EXCEPT !.at = "success"]
    [] Kind[c] = "form" /\ ~screen[c].left /\ reply[screen[c].req] \in {"success", "failure"} ->
         [screen[c] EXCEPT !.at = "start", !.shows = "ticked"]
    [] OTHER -> Failed(c)

\* Mutant: the flow's error branch leaves the step where it was.
BugStuckOutcome(c) ==
  CASE Kind[c] = "flow" /\ reply[screen[c].req] = "success" -> [screen[c] EXCEPT !.at = "success"]
    [] Kind[c] = "form" /\ ~screen[c].left /\ reply[screen[c].req] = "success" ->
         [screen[c] EXCEPT !.at = "start", !.shows = "ticked"]
    [] Kind[c] = "form" /\ ~screen[c].left /\ reply[screen[c].req] = "failure" ->
         [screen[c] EXCEPT !.at = "start", !.shows = "processed"]
    [] OTHER -> [screen[c] EXCEPT !.shows = "error"]

\* Both routes answer 200 when they finish: "success" and "failure" are the body's
\* success flag, which the flow does not read and the form's tick does.
Outcome(c) ==
  CASE Kind[c] = "flow" /\ reply[screen[c].req] = "success" -> [screen[c] EXCEPT !.at = "success"]
    [] Kind[c] = "form" /\ ~screen[c].left /\ reply[screen[c].req] = "success" ->
         [screen[c] EXCEPT !.at = "start", !.shows = "ticked"]
    [] Kind[c] = "form" /\ ~screen[c].left /\ reply[screen[c].req] = "failure" ->
         [screen[c] EXCEPT !.at = "start", !.shows = "processed"]
    [] OTHER -> Failed(c)

\* A crash of the backend closes its connections.
Answered(c) ==
  /\ screen[c].at = "posting"
  /\ pc[screen[c].req] \in {"done", "crashed"}
  /\ Goes(c, "posting", Outcome(c))
  /\ ScreenOnly

\* Mutant: a request is in flight from the first click on.
BugConnectionLost(c) ==
  /\ c \in ConnectionMayFail
  /\ screen[c].at \in {"asking", "posting"}
  /\ Goes(c, screen[c].at, Failed(c))
  /\ unheard' = unheard \cup {screen[c].req}
  /\ UNCHANGED <<vars, newer>>

ConnectionLost(c) ==
  /\ c \in ConnectionMayFail
  /\ screen[c].at \in {"asking", "posting"}
  /\ Goes(c, screen[c].at, Failed(c))
  /\ unheard' = unheard \cup Unanswered(c)
  /\ UNCHANGED <<vars, newer>>

\* The success screen's timer: DashboardWithPaymentFlow goes to the agent page, also from
\* wherever the user has gone meanwhile, and to the login page if that was to sign out.
Redirects(c) ==
  /\ \/ Goes(c, "success", [screen[c] EXCEPT !.at = "agent", !.left = FALSE])
     \/ screen[c].left /\ Goes(c, "success", Fresh)
  /\ ScreenOnly

\* Payrolls that are not PENDING.
Visible == {r \in Payrolls : payrollStatus[r] \notin {"none", "PENDING"}}

\* Mutant: the oldest first.
BugActivity ==
  {r \in Visible : Cardinality({q \in Visible : r \in newer[q]}) < PageSize}

\* GET /api/agent/activity: the latest PageSize of them.
Activity == {r \in Visible : Cardinality(newer[r] \cap Visible) < PageSize}

\* fetchAll of AgentIdentity: all three answers, or an error and a retry.
AgentLoads(c) ==
  /\ \/ Goes(c, "agent", [screen[c] EXCEPT !.at = "listed", !.shows = "nothing", !.list = Activity])
     \/ c \in ConnectionMayFail /\ Goes(c, "agent", [screen[c] EXCEPT !.shows = "error"])
  /\ ScreenOnly

\* The page becomes visible again: it asks again.
AgentRefreshes(c) ==
  /\ Goes(c, "listed", [screen[c] EXCEPT !.at = "agent", !.list = {}])
  /\ ScreenOnly

-----------------------------------------------------------------------------
(* Leaving a screen. *)

\* Where handleGetPaymentProof or handleSubmit, or the success timer, is still to go on.
RunsOn == {"proof", "posting", "success"}

\* Mutant: what a component awaits is aborted when it is unmounted.
BugLeaves(c) ==
  /\ ~screen[c].left
  /\ screen' = [screen EXCEPT ![c] = Fresh]
  /\ ScreenOnly

\* The flow's Cancel, and whatever unmounts a screen.
Leaves(c) ==
  /\ ~screen[c].left
  /\ screen' = [screen EXCEPT ![c] = IF @.at \in RunsOn THEN [@ EXCEPT !.left = TRUE] ELSE Fresh]
  /\ ScreenOnly

\* The page is reloaded or closed: its handlers and timers are gone.
PageCloses(c) ==
  /\ screen[c].at \in RunsOn
  /\ screen' = [screen EXCEPT ![c] = Fresh]
  /\ unheard' = unheard \cup Unanswered(c)
  /\ UNCHANGED <<vars, newer>>

-----------------------------------------------------------------------------
\* What a screen awaits comes.
Awaited(c) ==
  AskAnswered(c) \/ ObtainProof(c) \/ GateRefuses(c) \/ GateAdmits(c) \/ Answered(c)

ScreenStep(c) ==
  \/ Awaited(c) \/ ConnectionLost(c)
  \/ Submit(c) \/ Ask(c) \/ ConfirmPayment(c)
  \/ Redirects(c) \/ AgentLoads(c) \/ AgentRefreshes(c)
  \/ Leaves(c) \/ PageCloses(c)

BackendStep ==
  \/ \E r \in Payrolls : JobStep(r) \/ RailSettles(r)
  \/ Crash
  \/ OthersUse

ClientNext ==
  \/ \E c \in Screens : ScreenStep(c)
  \/ BackendStep /\ UNCHANGED screenVars

ClientSpec == ClientInit /\ [][ClientNext]_allVars

\* PayrollFlow's fairness; and fetches come back in the end.
FairClientSpec ==
  /\ ClientSpec
  /\ \A r \in Payrolls : WF_vars(JobStep(r))
  /\ \A c \in Screens : WF_allVars(Awaited(c))
-----------------------------------------------------------------------------
(***************************************************************************)
(* A payroll that runs is awaited by the handler that asked for it, whose  *)
(* screen may have been left meanwhile: only a lost connection or a page   *)
(* that was closed leaves a disbursement running that nobody waits for.    *)
(***************************************************************************)
RunningIsAwaited ==
  \A r \in Payrolls \ unheard :
     Running(r) => \E c \in Screens : screen[c].at = "posting" /\ screen[c].req = r

(***************************************************************************)
(* Where no Rail account is configured, the form shows its check mark only *)
(* if its own payment was mined, although it says of every answer of       *)
(* status 200 that the payment was processed.                              *)
(***************************************************************************)
FormSuccessIsBacked ==
  \A c \in Screens :
     Kind[c] = "form" /\ screen[c].shows = "ticked" /\ ~RailConfigured =>
        \E p \in PaymentsOf(screen[c].req) : Mined(p) > 0

(***************************************************************************)
(* The agent page the flow ends on lists the payroll it was shown for,     *)
(* whatever status the pipeline left it with, unless a whole page of newer *)
(* ones was begun since.                                                   *)
(***************************************************************************)
AgentListsPayroll ==
  \A c \in Screens :
     screen[c].at = "listed" =>
        \/ screen[c].req \in screen[c].list
        \/ Cardinality(newer[screen[c].req] \cap Visible) >= PageSize

(***************************************************************************)
(* No screen waits for ever, whatever the backend answers, fails to write  *)
(* or refuses, except one whose request waits for a dropped transaction.   *)
(***************************************************************************)
Waits(c) == screen[c].at \in {"asking", "proof", "posting"}

WaitHangs(c) == screen[c].at = "posting" /\ pc[screen[c].req] = "hung"

ScreensSettle == \A c \in Screens : Waits(c) ~> (~Waits(c) \/ WaitHangs(c))

(***************************************************************************)
(* What the comments say and the code does not do.                         *)
(***************************************************************************)

\* "Success!" (PaymentFlow.tsx), then "Navigate to agent identity page to see the
\* executed payroll" (App.tsx:41): the payroll it is shown for was executed.
FlowSuccessIsExecuted ==
  \A c \in Screens :
     screen[c].at = "success" => payrollStatus[screen[c].req] # "FAILED"

\* "Payment processed successfully!" (PaymentForm.tsx:180): it was, if a status says so.
FormTextIsTrue ==
  \A c \in Screens :
     screen[c].shows \in {"ticked", "processed"} => payrollStatus[screen[c].req] # "FAILED"
=============================================================================
