------------------------------ MODULE Session -------------------------------
(***************************************************************************)
(* The browser's session: use-auth.ts in every open tab, over the token    *)
(* the tabs share in localStorage, with the routes of App.tsx, the pages   *)
(* that log in, sign up and show the dashboard, and the accounts of the    *)
(* backend.  A token is named by the request it answered.  What runs       *)
(* between two awaits is one step; React applies its updates together.     *)
(***************************************************************************)
EXTENDS Accounts

CONSTANTS
  Tabs,               \* the open tabs
  StartPage,          \* StartPage[t]: the page t is opened with
  MaxActs,            \* bound: reloads, log-outs, links followed and tokens expired
  ConnectionMayFail   \* a fetch may throw

Public == {"login", "signup"}
Protected == {"home", "dashboard"}
Pages == Public \cup Protected

ASSUME SessionAssumption ==
  /\ StartPage \in [Tabs -> Pages]
  /\ MaxActs \in Nat
  /\ ConnectionMayFail \in BOOLEAN

VARIABLES
  stored,   \* localStorage's snowrail_token; 0: none
  expired,  \* tokens past their expiry
  tab,      \* tab[t]: the page and the state of the hooks mounted in it
  events,   \* events[t]: "storage" events not yet dispatched in t
  acts      \* what people and the clock did so far

browserVars == <<stored, expired, tab, events, acts>>
vars == <<accountVars, browserVars>>

\* A page that was just loaded: nothing is checked yet, isLoading starts true.
FreshTab(page) ==
  [page |-> page, mounted |-> FALSE, user |-> Nobody, loading |-> TRUE,
   check |-> 0, quiet |-> FALSE,   \* isCheckingRef with its token, and skipLoading
   waits |-> {}, form |-> 0,       \* log-ins and sign-ups awaited; the form's own
   going |-> FALSE,                \* the timer that navigates to "/" runs
   fetch |-> 0, data |-> Nobody]   \* the dashboard's request, by token, and its data

TypeOK ==
  /\ AccountsTypeOK
  /\ stored \in 0 .. MaxJobs
  /\ expired \subseteq Ids
  /\ tab \in [Tabs -> [page : Pages, mounted : BOOLEAN, user : Emails \cup {Nobody},
                       loading : BOOLEAN, check : 0 .. MaxJobs, quiet : BOOLEAN,
                       waits : SUBSET Ids, form : 0 .. MaxJobs, going : BOOLEAN,
                       fetch : 0 .. MaxJobs, data : Emails \cup {Nobody}]]
  /\ events \in [Tabs -> Nat]
  /\ acts \in 0 .. MaxActs

Init ==
  /\ AccountsInit
  /\ stored = 0
  /\ expired = {}
  /\ tab = [t \in Tabs |-> FreshTab(StartPage[t])]
  /\ events = [t \in Tabs |-> 0]
  /\ acts = 0

\* isTokenValid: there is a token and its expiry has not passed.
Live(token) == token # 0 /\ token \notin expired

\* ProtectedRoute renders its children.
ShowsPage(s) == s.page \in Protected /\ ~s.loading /\ s.user # Nobody
ShowsDashboard(s) == s.page = "dashboard" /\ ShowsPage(s)

\* The dashboard fetches when it is mounted and forgets when it is unmounted.
\* Without a token getDashboard answers UNAUTHORIZED itself.
Rendered(old, new, token) ==
  CASE ShowsDashboard(new) /\ ~ShowsDashboard(old) -> [new EXCEPT !.fetch = token, !.data = Nobody]
    [] ~ShowsDashboard(new) -> [new EXCEPT !.fetch = 0, !.data = Nobody]
    [] OTHER -> new

Shows(t, new) == tab' = [tab EXCEPT ![t] = Rendered(@, new, stored')]

\* localStorage.setItem or removeItem: every other mounted tab gets an event if
\* the value changes.
Store(t, token) ==
  /\ stored' = token
  /\ events' = [u \in Tabs |->
                  IF u # t /\ tab[u].mounted /\ token # stored THEN events[u] + 1 ELSE events[u]]
StoreUnchanged == UNCHANGED <<stored, events>>

\* checkAuth, up to its await; a check that is running makes it return at once.
CheckAuth(s, token, skipLoading) ==
  IF s.check # 0 THEN s
  ELSE IF Live(token)
  THEN [s EXCEPT !.check = token, !.quiet = skipLoading, !.loading = IF skipLoading THEN @ ELSE TRUE]
  ELSE [s EXCEPT !.user = Nobody, !.loading = IF skipLoading THEN @ ELSE FALSE]

\* People do something, or time passes.
Acts == acts < MaxActs /\ acts' = acts + 1

-----------------------------------------------------------------------------
(* use-auth.ts *)

\* The effect of AuthProvider: check, and listen.
Mount(t) ==
  /\ ~tab[t].mounted
  /\ StoreUnchanged
  /\ Shows(t, CheckAuth([tab[t] EXCEPT !.mounted = TRUE], stored, FALSE))
  /\ UNCHANGED <<accountVars, expired, acts>>

\* Mutant: the handler also runs without an event.
BugStorageEvent(t) ==
  /\ tab[t].mounted
  /\ events' = [events EXCEPT ![t] = @ - 1]
  /\ UNCHANGED stored
  /\ Shows(t, CheckAuth(tab[t], stored, FALSE))
  /\ UNCHANGED <<accountVars, expired, acts>>

StorageEvent(t) ==
  /\ events[t] > 0
  /\ events' = [events EXCEPT ![t] = @ - 1]
  /\ UNCHANGED stored
  /\ Shows(t, CheckAuth(tab[t], stored, FALSE))
  /\ UNCHANGED <<accountVars, expired, acts>>

Checked(s, user) ==
  [s EXCEPT !.user = user, !.check = 0, !.quiet = FALSE, !.loading = IF s.quiet THEN @ ELSE FALSE]

\* Mutant: the late answer is shown, whatever is stored by now.
BugCheckSucceeds(t) ==
  /\ tab[t].check # 0
  /\ StoreUnchanged
  /\ Shows(t, Checked(tab[t], OwnerOf(tab[t].check)))
  /\ UNCHANGED <<accountVars, expired, acts>>

\* Mutant: the finally block forgets isLoading.
BugStillLoading(t) ==
  /\ tab[t].check # 0
  /\ IF stored = tab[t].check THEN StoreUnchanged ELSE Store(t, tab[t].check)
  /\ Shows(t, [tab[t] EXCEPT !.user = OwnerOf(tab[t].check), !.check = 0])
  /\ UNCHANGED <<accountVars, expired, acts>>

\* /auth/me answered 200: the token was live when it was sent.  Whatever is stored
\* by now is replaced with it; the event this dispatches finds the check running.
CheckSucceeds(t) ==
  /\ tab[t].check # 0
  /\ IF stored = tab[t].check THEN StoreUnchanged ELSE Store(t, tab[t].check)
  /\ Shows(t, Checked(tab[t], OwnerOf(tab[t].check)))
  /\ UNCHANGED <<accountVars, expired, acts>>

\* 401 for an expired token; a 500 or a lost connection is taken the same way.
CheckFails(t) ==
  /\ tab[t].check # 0
  /\ tab[t].check \in expired \/ ServerMayFail \/ ConnectionMayFail
  /\ Store(t, 0)
  /\ Shows(t, Checked(tab[t], Nobody))
  /\ UNCHANGED <<accountVars, expired, acts>>

\* The form of the page in t is submitted: handleLogin or handleSignup.
Submit(t) ==
  /\ tab[t].page \in Public /\ tab[t].mounted
  /\ ~tab[t].loading /\ tab[t].form = 0
  /\ \E i \in Ids, e \in Emails, knows \in BOOLEAN :
        /\ tab[t].page = "signup" => knows
        /\ Send(i, tab[t].page, e, knows)
        /\ StoreUnchanged
        /\ Shows(t, [tab[t] EXCEPT !.loading = TRUE, !.waits = @ \cup {i}, !.form = i])
  /\ UNCHANGED <<expired, acts>>

Returned(s, i) ==
  [s EXCEPT !.loading = FALSE, !.waits = @ \ {i}, !.form = IF @ = i THEN 0 ELSE @]

\* setToken dispatches auth-storage-change at once; its handler was made by the
\* first render, whose user is null, so it checks the token that was just issued.
SignedIn(t, i) ==
  /\ i \in tab[t].waits /\ jobs[i].at = "ok"
  /\ Store(t, i)
  /\ Shows(t, [Returned(CheckAuth(tab[t], i, TRUE), i) EXCEPT
                 !.user = OwnerOf(i), !.going = TRUE])
  /\ UNCHANGED <<accountVars, expired, acts>>

Refused(t, i) ==
  /\ i \in tab[t].waits /\ jobs[i].at \in {"no", "lost"}
  /\ StoreUnchanged
  /\ Shows(t, Returned(tab[t], i))
  /\ UNCHANGED <<accountVars, expired, acts>>

\* The connection is lost: before the request arrived, or while the backend goes on.
ConnectionLost(t, i) ==
  /\ ConnectionMayFail
  /\ i \in tab[t].waits
  /\ \/ jobs' = [jobs EXCEPT ![i].at = IF @ = "sent" THEN "lost" ELSE @]
     \/ jobs[i].at = "sent" /\ UNCHANGED jobs
  /\ StoreUnchanged
  /\ Shows(t, Returned(tab[t], i))
  /\ UNCHANGED <<users, companies, expired, acts>>

\* The user menu, on a page that shows it.
Logout(t) ==
  /\ ShowsPage(tab[t])
  /\ Store(t, 0)
  /\ Shows(t, [tab[t] EXCEPT !.user = Nobody, !.page = "login", !.form = 0])
  /\ Acts
  /\ UNCHANGED <<accountVars, expired>>

-----------------------------------------------------------------------------
(* The routes of App.tsx, the pages, and the browser. *)

\* A link inside the application: the form of the page that is left is unmounted,
\* what it sent is not.
GoTo(t, page) ==
  /\ page # tab[t].page
  /\ StoreUnchanged
  /\ Shows(t, [tab[t] EXCEPT !.page = page, !.form = 0])
  /\ UNCHANGED <<accountVars, expired>>

Navigate(t, page) == tab[t].mounted /\ GoTo(t, page) /\ Acts

\* ProtectedRoute and "/" send a visitor without a session to the login page.
Redirect(t) ==
  /\ tab[t].page \in Protected /\ ~tab[t].loading /\ tab[t].user = Nobody
  /\ GoTo(t, "login")
  /\ UNCHANGED acts

\* The timer of the login and sign-up pages, also after they were left.
GoesHome(t) ==
  /\ tab[t].going
  /\ StoreUnchanged
  /\ Shows(t, [tab[t] EXCEPT !.going = FALSE, !.page = "home", !.form = 0])
  /\ UNCHANGED <<accountVars, expired, acts>>

\* GET /api/dashboard: the figures of the company the token names, which it only reads.
DashboardOf(token) == OwnerOf(token)

DataArrives(t) ==
  /\ tab[t].fetch # 0
  /\ StoreUnchanged
  /\ \/ Shows(t, [tab[t] EXCEPT !.fetch = 0, !.data = DashboardOf(tab[t].fetch)])
     \/ /\ tab[t].fetch \in expired \/ ServerMayFail \/ ConnectionMayFail
        /\ Shows(t, [tab[t] EXCEPT !.fetch = 0])
  /\ UNCHANGED <<accountVars, expired, acts>>

\* The page is loaded again: all its state goes, what it sent goes on.
Reload(t) ==
  /\ tab[t].mounted
  /\ Acts
  /\ tab' = [tab EXCEPT ![t] = FreshTab(@.page)]
  /\ events' = [events EXCEPT ![t] = 0]
  /\ UNCHANGED <<accountVars, stored, expired>>

Expire(i) ==
  /\ Issued(i) /\ i \notin expired
  /\ expired' = expired \cup {i}
  /\ Acts
  /\ UNCHANGED <<accountVars, stored, tab, events>>

-----------------------------------------------------------------------------
Serves(i) == ServerStep(i) /\ UNCHANGED browserVars

Hears(t) == CheckSucceeds(t) \/ CheckFails(t) \/ \E i \in Ids : SignedIn(t, i) \/ Refused(t, i)

Next ==
  \/ \E i \in Ids : Serves(i) \/ Expire(i)
  \/ \E t \in Tabs :
        \/ Mount(t) \/ StorageEvent(t) \/ Hears(t) \/ Submit(t) \/ Logout(t)
        \/ \E i \in Ids : ConnectionLost(t, i)
        \/ \E page \in Pages : Navigate(t, page)
        \/ Redirect(t) \/ GoesHome(t) \/ DataArrives(t) \/ Reload(t)

Spec == Init /\ [][Next]_vars

\* Requests are served and answered in the end, and every tab runs its effects.
FairSpec ==
  /\ Spec
  /\ \A i \in Ids : WF_vars(Serves(i))
  /\ \A t \in Tabs : WF_vars(Mount(t)) /\ WF_vars(CheckSucceeds(t) \/ CheckFails(t))
  /\ \A t \in Tabs, i \in Ids : WF_vars(SignedIn(t, i) \/ Refused(t, i))
-----------------------------------------------------------------------------
(***************************************************************************)
(* When nothing is under way, every tab shows the owner of the stored      *)
(* token, or nobody if there is none: although a check drops the events    *)
(* that arrive while it runs, and a late answer replaces what a log-in or  *)
(* log-out stored since.  (A tab may show nobody under an expired token.)  *)
(***************************************************************************)
Quiet(t) == tab[t].mounted /\ tab[t].check = 0 /\ events[t] = 0

TabsAgree ==
  (\A t \in Tabs : Quiet(t)) =>
     \A t \in Tabs :
        IF stored = 0 THEN tab[t].user = Nobody
        ELSE stored \notin expired => tab[t].user = OwnerOf(stored)

(***************************************************************************)
(* An account is shown, in the header or on the dashboard, only if someone *)
(* signed it up or gave its password in this browser.                      *)
(***************************************************************************)
ShownWasProved ==
  \A t \in Tabs : \A e \in {tab[t].user, tab[t].data} \ {Nobody} :
     /\ e \in users
     /\ \E i \in Ids : jobs[i].email = e /\ jobs[i].at = "ok" /\ jobs[i].knows

(***************************************************************************)
(* isLoading, which covers every page, does not stay: concurrent checks,   *)
(* log-ins and sign-ups share the flag and each clears what it set.        *)
(***************************************************************************)
LoadingEnds == \A t \in Tabs : tab[t].loading ~> ~tab[t].loading

(***************************************************************************)
(* What the comments say and the code does not do.                         *)
(***************************************************************************)

\* "Remove token from localStorage" (use-session.ts:29), "Only update token if it
\* changed" (use-auth.ts:73): a session ended by a log-out or a refusal begins
\* again only with the answer to a log-in or a sign-up.
EndedSessionsStayEnded ==
  [][stored = 0 /\ stored' # 0 => \E t \in Tabs : stored' \in tab[t].waits \ tab'[t].waits]_vars

\* "Get dashboard data for authenticated company" (api.ts:660).
DashboardIsOwn ==
  \A t \in Tabs : tab[t].data # Nobody => tab[t].data = tab[t].user
=============================================================================
