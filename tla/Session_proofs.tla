---------------------------- MODULE Session_proofs ---------------------------
(***************************************************************************)
(* Proofs about Session and Accounts, for any tabs, people and requests:   *)
(* the types, whole accounts under concurrent sign-ups, that only accounts *)
(* proved in this browser are shown in it, and that its tabs agree.        *)
(***************************************************************************)
EXTENDS Session, FiniteSetTheorems, TLAPS

-----------------------------------------------------------------------------
(* The accounts. *)

\* A token is issued for a user that exists, to someone who knows its password, and
\* one sign-up of an address is welcomed.
AccountsInv ==
  /\ \A e \in Emails : companies[e] = IF e \in users THEN 1 ELSE 0
  /\ \A i \in Ids :
        /\ jobs[i].at = "ok" => jobs[i].email \in users /\ jobs[i].knows
        /\ jobs[i].at = "checked" => jobs[i].kind = "signup"
        /\ jobs[i].kind = "signup" => jobs[i].knows
        /\ jobs[i].at # "free" => jobs[i].email \in Emails
  /\ \A i, j \in Ids :
        /\ jobs[i].kind = "signup" /\ jobs[i].at = "ok"
        /\ jobs[j].kind = "signup" /\ jobs[j].at = "ok"
        /\ jobs[i].email = jobs[j].email
        => i = j

\* Issued tokens are never taken back.
StableJobs(J, K) == \A i \in Ids : J[i].at = "ok" => K[i] = J[i]

(***************************************************************************)
(* The steps of the backend's handlers keep the accounts typed and whole,  *)
(* and the tokens they issued.                                             *)
(***************************************************************************)
LEMMA ServerStepKeeps ==
  ASSUME AccountsTypeOK, AccountsInv, NEW i \in Ids, ServerStep(i)
  PROVE  AccountsTypeOK' /\ AccountsInv' /\ StableJobs(jobs, jobs')
<1> USE DEF AccountsTypeOK, Moves, Places, StableJobs
<1>1. CASE SignupLooksUp(i)
      BY <1>1 DEF SignupLooksUp, AccountsInv
<1>2. CASE CreateAccount(i)
  <2>1. jobs[i].at = "checked" /\ jobs[i].kind = "signup" /\ jobs[i].knows /\ jobs[i].email \in Emails
        BY <1>2 DEF CreateAccount, AccountsInv
  <2>2. CASE jobs[i].email \in users
        BY <1>2, <2>1, <2>2 DEF CreateAccount, AccountsInv
  <2>3. CASE jobs[i].email \notin users
    <3>1. /\ \E to \in {"ok", "no"} : jobs' = [jobs EXCEPT ![i].at = to]
          /\ users' = users \cup {jobs[i].email}
          /\ companies' = [companies EXCEPT ![jobs[i].email] = @ + 1]
          BY <1>2, <2>3 DEF CreateAccount
    <3>2. AccountsTypeOK' /\ StableJobs(jobs, jobs')
          BY <2>1, <3>1
    <3>3. \A e \in Emails : companies'[e] = IF e \in users' THEN 1 ELSE 0
          BY <2>1, <2>3, <3>1 DEF AccountsInv
    <3>4. \A j \in Ids : jobs[j].at = "ok" => jobs[j].email # jobs[i].email
          BY <2>3 DEF AccountsInv
    <3>5. \A j \in Ids : /\ jobs'[j].kind = jobs[j].kind /\ jobs'[j].email = jobs[j].email
                         /\ jobs'[j].knows = jobs[j].knows
                         /\ (j # i => jobs'[j].at = jobs[j].at)
                         /\ jobs'[i].at \in {"ok", "no"}
          BY <3>1
    <3>6. AccountsInv'
          BY <2>1, <3>1, <3>3, <3>4, <3>5 DEF AccountsInv
    <3> QED BY <3>2, <3>6
  <2> QED BY <2>2, <2>3
<1>3. CASE Login(i)
      BY <1>3 DEF Login, AccountsInv
<1>4. CASE JobFails(i)
      BY <1>4 DEF JobFails, AccountsInv
<1> QED BY <1>1, <1>2, <1>3, <1>4 DEF ServerStep

(***************************************************************************)
(* So does a request a client sends, or loses.                             *)
(***************************************************************************)
LEMMA SendKeeps ==
  ASSUME AccountsTypeOK, AccountsInv, NEW i \in Ids, NEW e \in Emails, NEW knows \in BOOLEAN,
         NEW kind \in {"login", "signup"}, kind = "signup" => knows, Send(i, kind, e, knows)
  PROVE  AccountsTypeOK' /\ AccountsInv' /\ StableJobs(jobs, jobs')
BY DEF AccountsTypeOK, AccountsInv, StableJobs, Send, Places

\* A request that never arrives changes no account.
LEMMA LossKeeps ==
  ASSUME AccountsTypeOK, AccountsInv, NEW i \in Ids, UNCHANGED <<users, companies>>,
         \/ jobs' = [jobs EXCEPT ![i].at = IF @ = "sent" THEN "lost" ELSE @]
         \/ UNCHANGED jobs
  PROVE  AccountsTypeOK' /\ AccountsInv' /\ StableJobs(jobs, jobs')
BY DEF AccountsTypeOK, AccountsInv, StableJobs, Places

\* No accounts are whole accounts.
LEMMA AccountsStart ==
  AccountsInit => AccountsTypeOK /\ AccountsInv
BY AccountsAssumption DEF AccountsInit, AccountsTypeOK, AccountsInv, FreeJob, Places

(***************************************************************************)
(* What the invariant says of the sign-ups that were welcomed.             *)
(***************************************************************************)
LEMMA WholeAccounts ==
  ASSUME AccountsInv PROVE AccountsAreWhole
<1> SUFFICES ASSUME NEW e \in Emails
             PROVE  /\ companies[e] = IF e \in users THEN 1 ELSE 0
                    /\ Cardinality({i \in Ids : jobs[i].kind = "signup" /\ jobs[i].email = e
                                                /\ jobs[i].at = "ok"}) <= companies[e]
    BY DEF AccountsAreWhole
<1> DEFINE welcomed == {i \in Ids : jobs[i].kind = "signup" /\ jobs[i].email = e /\ jobs[i].at = "ok"}
<1>1. companies[e] = IF e \in users THEN 1 ELSE 0
      BY DEF AccountsInv
<1>2. CASE welcomed = {}
  <2>1. Cardinality(welcomed) = 0
        BY <1>2, FS_EmptySet
  <2> QED BY <1>1, <2>1
<1>3. CASE welcomed # {}
  <2>1. PICK i : i \in welcomed
        BY <1>3
  <2>2. welcomed = {i} /\ e \in users
        BY <2>1 DEF AccountsInv
  <2>3. Cardinality(welcomed) = 1
        BY <2>2, FS_Singleton
  <2> QED BY <1>1, <2>2, <2>3
<1> QED BY <1>2, <1>3

-----------------------------------------------------------------------------
(* The tabs. *)

TabType == [page : Pages, mounted : BOOLEAN, user : Emails \cup {Nobody},
            loading : BOOLEAN, check : 0 .. MaxJobs, quiet : BOOLEAN,
            waits : SUBSET Ids, form : 0 .. MaxJobs, going : BOOLEAN,
            fetch : 0 .. MaxJobs, data : Emails \cup {Nobody}]

SoundToken(i, J) == i = 0 \/ (i \in Ids /\ J[i].at = "ok")
SoundName(e, J) == e = Nobody \/ \E i \in Ids : J[i].at = "ok" /\ J[i].email = e

\* A tab checks and fetches with issued tokens and shows their owners.
SoundTab(s, J) ==
  /\ SoundToken(s.check, J) /\ SoundToken(s.fetch, J)
  /\ SoundName(s.user, J) /\ SoundName(s.data, J)

SoundTabs(T, J) == \A t \in Tabs : SoundTab(T[t], J)

SessionInv ==
  /\ TypeOK /\ AccountsInv
  /\ SoundToken(stored, jobs)
  /\ SoundTabs(tab, jobs)

(***************************************************************************)
(* A request's number is one of a token or of none.                        *)
(***************************************************************************)
LEMMA IdsAreTokens == \A i \in Ids : i \in 0 .. MaxJobs
BY AccountsAssumption DEF Ids

(***************************************************************************)
(* Issued tokens stay issued, so what was sound stays sound.               *)
(***************************************************************************)
LEMMA SoundStays ==
  ASSUME NEW J, NEW K, StableJobs(J, K)
  PROVE  /\ \A i : SoundToken(i, J) => SoundToken(i, K)
         /\ \A e : SoundName(e, J) => SoundName(e, K)
         /\ \A s : SoundTab(s, J) => SoundTab(s, K)
         /\ \A T : SoundTabs(T, J) => SoundTabs(T, K)
<1>1. /\ \A i : SoundToken(i, J) => SoundToken(i, K)
      /\ \A e : SoundName(e, J) => SoundName(e, K)
      BY DEF StableJobs, SoundToken, SoundName
<1>2. \A s : SoundTab(s, J) => SoundTab(s, K)
      BY <1>1 DEF SoundTab
<1> QED BY <1>1, <1>2 DEF SoundTabs

(***************************************************************************)
(* What a tab becomes is typed and sound when what it is told is, after    *)
(* the dashboard has begun to fetch or forgotten its data.                 *)
(***************************************************************************)
LEMMA RenderedKeeps ==
  ASSUME NEW old, NEW new \in TabType, NEW token \in 0 .. MaxJobs, NEW J,
         SoundTab(new, J), SoundToken(token, J)
  PROVE  /\ Rendered(old, new, token) \in TabType
         /\ SoundTab(Rendered(old, new, token), J)
<1>1. \A fetch \in 0 .. MaxJobs : [new EXCEPT !.fetch = fetch, !.data = Nobody] \in TabType
      BY DEF TabType
<1>2. SoundTab([new EXCEPT !.fetch = token, !.data = Nobody], J)
      /\ SoundTab([new EXCEPT !.fetch = 0, !.data = Nobody], J)
      BY DEF SoundTab, SoundToken, SoundName, TabType
<1>3. 0 \in 0 .. MaxJobs
      BY AccountsAssumption
<1> QED BY <1>1, <1>2, <1>3 DEF Rendered

\* So all tabs stay typed and sound when one shows something new.
LEMMA ShowsKeeps ==
  ASSUME SessionInv, NEW t \in Tabs, NEW new \in TabType, SoundTab(new, jobs'), Shows(t, new),
         StableJobs(jobs, jobs'), stored' \in 0 .. MaxJobs, SoundToken(stored', jobs')
  PROVE  tab' \in [Tabs -> TabType] /\ SoundTabs(tab', jobs')
<1>1. SoundTabs(tab, jobs') /\ tab \in [Tabs -> TabType]
      BY SoundStays DEF SessionInv, TypeOK, TabType
<1>2. /\ Rendered(tab[t], new, stored') \in TabType
      /\ SoundTab(Rendered(tab[t], new, stored'), jobs')
      BY RenderedKeeps
<1>3. tab' = [tab EXCEPT ![t] = Rendered(tab[t], new, stored')]
      BY DEF Shows
<1> QED BY <1>1, <1>2, <1>3 DEF SoundTabs

(***************************************************************************)
(* A step of a tab keeps the invariant when it keeps the accounts, stores  *)
(* only issued tokens and leaves the tab typed and sound.                  *)
(***************************************************************************)
LEMMA TabStepKeeps ==
  ASSUME SessionInv, NEW t \in Tabs, NEW new \in TabType, SoundTab(new, jobs'), Shows(t, new),
         AccountsTypeOK', AccountsInv', StableJobs(jobs, jobs'),
         stored' \in 0 .. MaxJobs, SoundToken(stored', jobs'),
         events' \in [Tabs -> Nat],
         UNCHANGED expired, acts' \in 0 .. MaxActs
  PROVE  SessionInv'
<1>1. tab' \in [Tabs -> TabType] /\ SoundTabs(tab', jobs')
      BY ShowsKeeps
<1>2. TypeOK'
      BY <1>1 DEF SessionInv, TypeOK, TabType
<1> QED BY <1>1, <1>2 DEF SessionInv

(***************************************************************************)
(* A tab that only stores, or stores nothing, leaves the accounts alone.   *)
(***************************************************************************)
Stores(t) ==
  \/ StoreUnchanged
  \/ \E token \in 0 .. MaxJobs : SoundToken(token, jobs) /\ Store(t, token)
  \/ events[t] > 0 /\ events' = [events EXCEPT ![t] = @ - 1] /\ UNCHANGED stored

\* The invariant is kept by such a step.
LEMMA QuietStepKeeps ==
  ASSUME SessionInv, NEW t \in Tabs, NEW new \in TabType, SoundTab(new, jobs), Shows(t, new),
         UNCHANGED <<accountVars, expired>>, UNCHANGED acts \/ Acts, Stores(t)
  PROVE  SessionInv'
<1>1. UNCHANGED jobs /\ AccountsTypeOK' /\ AccountsInv' /\ StableJobs(jobs, jobs')
      BY DEF SessionInv, TypeOK, accountVars, AccountsTypeOK, AccountsInv, StableJobs
<1>2. stored' \in 0 .. MaxJobs /\ SoundToken(stored', jobs')
      BY <1>1 DEF Stores, StoreUnchanged, Store, SessionInv, TypeOK
<1>3. events' \in [Tabs -> Nat]
      BY DEF Stores, StoreUnchanged, Store, SessionInv, TypeOK
<1>4. acts' \in 0 .. MaxActs
      BY SessionAssumption DEF Acts, SessionInv, TypeOK
<1>5. SoundTab(new, jobs')
      BY <1>1
<1> QED BY <1>1, <1>2, <1>3, <1>4, <1>5, TabStepKeeps

(***************************************************************************)
(* The owner of an issued token is an account.                             *)
(***************************************************************************)
LEMMA OwnersAreAccounts ==
  ASSUME SessionInv, NEW i \in Ids, jobs[i].at = "ok"
  PROVE  OwnerOf(i) \in Emails /\ SoundName(OwnerOf(i), jobs)
BY DEF SessionInv, AccountsInv, OwnerOf, SoundName

\* The invariant speaks of every tab.
LEMMA TabIsSound ==
  ASSUME SessionInv, NEW t \in Tabs
  PROVE  tab[t] \in TabType /\ SoundTab(tab[t], jobs)
BY DEF SessionInv, TypeOK, TabType, SoundTabs

(***************************************************************************)
(* A check begins only with the stored token.                              *)
(***************************************************************************)
LEMMA CheckAuthKeeps ==
  ASSUME SessionInv, NEW s \in TabType, SoundTab(s, jobs), NEW token \in 0 .. MaxJobs,
         SoundToken(token, jobs), NEW skip \in BOOLEAN
  PROVE  CheckAuth(s, token, skip) \in TabType /\ SoundTab(CheckAuth(s, token, skip), jobs)
<1>1. CASE s.check # 0
      BY <1>1 DEF CheckAuth
<1>2. CASE s.check = 0 /\ Live(token)
  <2> DEFINE new == [s EXCEPT !.check = token, !.quiet = skip, !.loading = IF skip THEN @ ELSE TRUE]
  <2>1. new \in TabType
        BY DEF TabType
  <2>2. new.check = token /\ new.fetch = s.fetch /\ new.user = s.user /\ new.data = s.data
        BY DEF TabType
  <2>3. SoundTab(new, jobs)
        BY <2>2 DEF SoundTab
  <2> QED BY <1>2, <2>1, <2>3 DEF CheckAuth
<1>3. CASE s.check = 0 /\ ~Live(token)
  <2> DEFINE new == [s EXCEPT !.user = Nobody, !.loading = IF skip THEN @ ELSE FALSE]
  <2>1. new \in TabType
        BY DEF TabType
  <2>2. new.check = s.check /\ new.fetch = s.fetch /\ new.user = Nobody /\ new.data = s.data
        BY DEF TabType
  <2>3. SoundTab(new, jobs)
        BY <2>2 DEF SoundTab, SoundName
  <2> QED BY <1>3, <2>1, <2>3 DEF CheckAuth
<1> QED BY <1>1, <1>2, <1>3

(***************************************************************************)
(* The end of a check shows a name and checks nothing.                     *)
(***************************************************************************)
LEMMA CheckedKeeps ==
  ASSUME NEW s \in TabType, SoundTab(s, jobs), NEW user \in Emails \cup {Nobody},
         SoundName(user, jobs)
  PROVE  Checked(s, user) \in TabType /\ SoundTab(Checked(s, user), jobs)
<1>1. ASSUME NEW l \in BOOLEAN
      PROVE  /\ [s EXCEPT !.user = user, !.check = 0, !.quiet = FALSE, !.loading = l] \in TabType
             /\ SoundTab([s EXCEPT !.user = user, !.check = 0, !.quiet = FALSE, !.loading = l], jobs)
  <2> DEFINE new == [s EXCEPT !.user = user, !.check = 0, !.quiet = FALSE, !.loading = l]
  <2>1. 0 \in 0 .. MaxJobs
        BY AccountsAssumption
  <2>2. new \in TabType
        BY <2>1 DEF TabType
  <2>3. new.check = 0 /\ new.fetch = s.fetch /\ new.user = user /\ new.data = s.data
        BY DEF TabType
  <2> QED BY <2>2, <2>3 DEF SoundTab, SoundToken
<1>2. CASE s.quiet
      BY <1>1, <1>2 DEF Checked, TabType
<1>3. CASE ~s.quiet
      BY <1>1, <1>3 DEF Checked, TabType
<1> QED BY <1>2, <1>3

(***************************************************************************)
(* One lemma for the steps of use-auth.ts that check the token.            *)
(***************************************************************************)
LEMMA ChecksKeep ==
  ASSUME SessionInv, NEW t \in Tabs,
         Mount(t) \/ StorageEvent(t) \/ CheckSucceeds(t) \/ CheckFails(t)
  PROVE  SessionInv'
<1> DEFINE s == tab[t]
<1>1. /\ s \in TabType /\ SoundTab(s, jobs)
      /\ stored \in 0 .. MaxJobs /\ SoundToken(stored, jobs)
      BY TabIsSound DEF SessionInv, TypeOK
<1>2. CASE Mount(t)
  <2> DEFINE m == [s EXCEPT !.mounted = TRUE]
  <2>1. m \in TabType /\ SoundTab(m, jobs)
        BY <1>1 DEF TabType, SoundTab
  <2>2. CheckAuth(m, stored, FALSE) \in TabType /\ SoundTab(CheckAuth(m, stored, FALSE), jobs)
        BY <1>1, <2>1, CheckAuthKeeps
  <2>3. /\ Shows(t, CheckAuth(m, stored, FALSE)) /\ Stores(t)
        /\ UNCHANGED <<accountVars, expired, acts>>
        BY <1>2 DEF Mount, Stores
  <2> HIDE DEF m
  <2> QED BY <2>2, <2>3, QuietStepKeeps
<1>3. CASE StorageEvent(t)
  <2>1. CheckAuth(s, stored, FALSE) \in TabType /\ SoundTab(CheckAuth(s, stored, FALSE), jobs)
        BY <1>1, CheckAuthKeeps
  <2>2. /\ Shows(t, CheckAuth(s, stored, FALSE)) /\ Stores(t)
        /\ UNCHANGED <<accountVars, expired, acts>>
        BY <1>3 DEF StorageEvent, Stores
  <2> QED BY <2>1, <2>2, QuietStepKeeps
<1>4. ASSUME NEW user \in Emails \cup {Nobody}, SoundName(user, jobs)
      PROVE  Checked(s, user) \in TabType /\ SoundTab(Checked(s, user), jobs)
      BY <1>1, <1>4, CheckedKeeps
<1>5. CASE CheckSucceeds(t)
  <2>1. s.check \in Ids /\ s.check \in 0 .. MaxJobs /\ jobs[s.check].at = "ok"
        BY <1>1, <1>5 DEF CheckSucceeds, SoundTab, SoundToken, TabType
  <2>2. Stores(t)
        BY <1>5, <2>1 DEF CheckSucceeds, Stores, SoundToken
  <2>3. /\ OwnerOf(s.check) \in Emails /\ SoundName(OwnerOf(s.check), jobs)
        BY <2>1, OwnersAreAccounts
  <2>4. /\ Shows(t, Checked(s, OwnerOf(s.check))) /\ UNCHANGED <<accountVars, expired, acts>>
        BY <1>5 DEF CheckSucceeds
  <2>5. /\ Checked(s, OwnerOf(s.check)) \in TabType
        /\ SoundTab(Checked(s, OwnerOf(s.check)), jobs)
        BY <1>4, <2>3
  <2> QED BY <2>2, <2>4, <2>5, QuietStepKeeps
<1>6. CASE CheckFails(t)
  <2>1. Stores(t)
        BY <1>6, AccountsAssumption DEF CheckFails, Stores, SoundToken
  <2>2. /\ Shows(t, Checked(s, Nobody)) /\ UNCHANGED <<accountVars, expired, acts>>
        BY <1>6 DEF CheckFails
  <2>3. Checked(s, Nobody) \in TabType /\ SoundTab(Checked(s, Nobody), jobs)
        BY <1>4 DEF SoundName
  <2> QED BY <2>1, <2>2, <2>3, QuietStepKeeps
<1> QED BY <1>2, <1>3, <1>5, <1>6

(***************************************************************************)
(* The steps that fill the dashboard, follow a link or end a session.      *)
(***************************************************************************)
LEMMA PagesKeep ==
  ASSUME SessionInv, NEW t \in Tabs,
         \/ \E page \in Pages : Navigate(t, page)
         \/ Redirect(t) \/ GoesHome(t) \/ Logout(t) \/ DataArrives(t)
  PROVE  SessionInv'
<1> DEFINE s == tab[t]
<1>1. s \in TabType /\ SoundTab(s, jobs) /\ 0 \in 0 .. MaxJobs
      BY TabIsSound, AccountsAssumption
<1>2. ASSUME NEW page \in Pages, NEW going \in BOOLEAN, UNCHANGED <<accountVars, expired>>,
             UNCHANGED acts \/ Acts, StoreUnchanged,
             Shows(t, [s EXCEPT !.going = going, !.page = page, !.form = 0])
      PROVE  SessionInv'
  <2> DEFINE new == [s EXCEPT !.going = going, !.page = page, !.form = 0]
  <2>1. new \in TabType
        BY <1>1 DEF TabType
  <2>2. new.check = s.check /\ new.fetch = s.fetch /\ new.user = s.user /\ new.data = s.data
        BY <1>1 DEF TabType
  <2>3. SoundTab(new, jobs)
        BY <1>1, <2>2 DEF SoundTab
  <2> QED BY <1>2, <2>1, <2>3, QuietStepKeeps DEF Stores
<1>3. ASSUME NEW page \in Pages, GoTo(t, page), UNCHANGED acts \/ Acts PROVE SessionInv'
  <2>1. [s EXCEPT !.page = page, !.form = 0]
          = [s EXCEPT !.going = s.going, !.page = page, !.form = 0]
        BY <1>1 DEF TabType
  <2>2. s.going \in BOOLEAN
        BY <1>1 DEF TabType
  <2> QED BY <1>2, <1>3, <2>1, <2>2 DEF GoTo
<1>4. CASE GoesHome(t)
      BY <1>2, <1>4 DEF GoesHome, Pages, Protected
<1>5. CASE (\E page \in Pages : Navigate(t, page)) \/ Redirect(t)
      BY <1>3, <1>5 DEF Navigate, Redirect, Pages, Public
<1>6. CASE Logout(t)
  <2> DEFINE new == [s EXCEPT !.user = Nobody, !.page = "login", !.form = 0]
  <2>1. new \in TabType
        BY <1>1 DEF TabType, Pages, Public
  <2>2. new.check = s.check /\ new.fetch = s.fetch /\ new.user = Nobody /\ new.data = s.data
        BY <1>1 DEF TabType
  <2>3. SoundTab(new, jobs)
        BY <1>1, <2>2 DEF SoundTab, SoundName
  <2>4. Stores(t)
        BY <1>1, <1>6 DEF Logout, Stores, SoundToken
  <2> QED BY <1>6, <2>1, <2>3, <2>4, QuietStepKeeps DEF Logout
<1>7. CASE DataArrives(t)
  <2>1. ASSUME NEW data \in Emails \cup {Nobody}, SoundName(data, jobs)
        PROVE  /\ [s EXCEPT !.fetch = 0, !.data = data] \in TabType
               /\ SoundTab([s EXCEPT !.fetch = 0, !.data = data], jobs)
    <3> DEFINE new == [s EXCEPT !.fetch = 0, !.data = data]
    <3>1. new \in TabType
          BY <1>1 DEF TabType
    <3>2. new.check = s.check /\ new.fetch = 0 /\ new.user = s.user /\ new.data = data
          BY <1>1 DEF TabType
    <3> QED BY <1>1, <2>1, <3>1, <3>2 DEF SoundTab, SoundToken
  <2>2. s.fetch \in Ids /\ jobs[s.fetch].at = "ok"
        BY <1>1, <1>7 DEF DataArrives, DashboardOf, SoundTab, SoundToken
  <2>3. OwnerOf(s.fetch) \in Emails /\ SoundName(OwnerOf(s.fetch), jobs)
        BY <2>2, OwnersAreAccounts
  <2>4. s.data \in Emails \cup {Nobody} /\ SoundName(s.data, jobs)
        /\ [s EXCEPT !.fetch = 0] = [s EXCEPT !.fetch = 0, !.data = s.data]
        BY <1>1 DEF TabType, SoundTab
  <2>5. UNCHANGED <<accountVars, expired, acts>> /\ Stores(t)
        BY <1>7 DEF DataArrives, Stores
  <2>6. CASE Shows(t, [s EXCEPT !.fetch = 0, !.data = OwnerOf(s.fetch)])
        BY <2>1, <2>3, <2>5, <2>6, QuietStepKeeps
  <2>7. CASE Shows(t, [s EXCEPT !.fetch = 0])
    <3>1. Shows(t, [s EXCEPT !.fetch = 0, !.data = s.data])
          BY <2>4, <2>7
    <3> QED BY <2>1, <2>4, <2>5, <3>1, QuietStepKeeps
  <2> QED BY <1>7, <2>6, <2>7 DEF DataArrives, DashboardOf
<1> QED BY <1>4, <1>5, <1>6, <1>7

(***************************************************************************)
(* A form is submitted, and its request comes back or is lost.             *)
(***************************************************************************)
LEMMA ReturnedKeeps ==
  ASSUME NEW s \in TabType, NEW J, SoundTab(s, J), NEW i
  PROVE  Returned(s, i) \in TabType /\ SoundTab(Returned(s, i), J)
<1>1. ASSUME NEW form \in 0 .. MaxJobs
      PROVE  /\ [s EXCEPT !.loading = FALSE, !.waits = @ \ {i}, !.form = form] \in TabType
             /\ SoundTab([s EXCEPT !.loading = FALSE, !.waits = @ \ {i}, !.form = form], J)
  <2> DEFINE new == [s EXCEPT !.loading = FALSE, !.waits = @ \ {i}, !.form = form]
  <2>1. new \in TabType
        BY DEF TabType
  <2>2. new.check = s.check /\ new.fetch = s.fetch /\ new.user = s.user /\ new.data = s.data
        BY DEF TabType
  <2> QED BY <2>1, <2>2 DEF SoundTab
<1>2. CASE s.form = i
  <2>1. 0 \in 0 .. MaxJobs
        BY AccountsAssumption
  <2> QED BY <1>1, <1>2, <2>1 DEF Returned
<1>3. CASE s.form # i
  <2>1. s.form \in 0 .. MaxJobs
        BY DEF TabType
  <2> QED BY <1>1, <1>3, <2>1 DEF Returned
<1> QED BY <1>2, <1>3

\* Forms, their answers and lost connections keep the invariant.
LEMMA FormsKeep ==
  ASSUME SessionInv, NEW t \in Tabs,
         Submit(t) \/ \E i \in Ids : SignedIn(t, i) \/ Refused(t, i) \/ ConnectionLost(t, i)
  PROVE  SessionInv'
<1> DEFINE s == tab[t]
<1>1. s \in TabType /\ SoundTab(s, jobs)
      BY TabIsSound
<1>2. CASE Submit(t)
  <2>1. PICK i \in Ids, e \in Emails, knows \in BOOLEAN :
           /\ s.page = "signup" => knows
           /\ Send(i, s.page, e, knows)
           /\ StoreUnchanged
           /\ Shows(t, [s EXCEPT !.loading = TRUE, !.waits = @ \cup {i}, !.form = i])
        BY <1>2 DEF Submit
  <2> DEFINE new == [s EXCEPT !.loading = TRUE, !.waits = @ \cup {i}, !.form = i]
  <2>2. AccountsTypeOK' /\ AccountsInv' /\ StableJobs(jobs, jobs')
        BY <1>2, <2>1, SendKeeps DEF Submit, Public, SessionInv, TypeOK
  <2>3. new \in TabType
    <3>1. i \in Ids /\ i \in 0 .. MaxJobs
          BY IdsAreTokens
    <3> QED BY <1>1, <3>1 DEF TabType
  <2>4. new.check = s.check /\ new.fetch = s.fetch /\ new.user = s.user /\ new.data = s.data
        BY <1>1 DEF TabType
  <2>5. SoundTab(new, jobs')
        BY <1>1, <2>2, <2>4, SoundStays DEF SoundTab
  <2>6. /\ UNCHANGED <<stored, events, expired, acts>>
        /\ SoundToken(stored', jobs')
        BY <1>2, <2>1, <2>2, SoundStays DEF Submit, StoreUnchanged, SessionInv
  <2> QED BY <2>1, <2>2, <2>3, <2>5, <2>6, TabStepKeeps DEF SessionInv, TypeOK
<1>3. ASSUME NEW i \in Ids, SignedIn(t, i) PROVE SessionInv'
  <2>1. i \in 0 .. MaxJobs /\ SoundToken(i, jobs) /\ jobs[i].at = "ok"
        BY <1>3, IdsAreTokens DEF SignedIn, SoundToken
  <2> DEFINE c == CheckAuth(s, i, TRUE)
             r == Returned(c, i)
             new == [r EXCEPT !.user = OwnerOf(i), !.going = TRUE]
  <2>2. c \in TabType /\ SoundTab(c, jobs)
        BY <1>1, <2>1, CheckAuthKeeps
  <2>3. r \in TabType /\ SoundTab(r, jobs)
        BY <2>2, ReturnedKeeps
  <2>4. OwnerOf(i) \in Emails /\ SoundName(OwnerOf(i), jobs)
        BY <2>1, OwnersAreAccounts
  <2>5. Shows(t, new) /\ Stores(t) /\ UNCHANGED <<accountVars, expired, acts>>
        BY <1>3, <2>1 DEF SignedIn, Stores
  <2> HIDE DEF r
  <2>6. new \in TabType
        BY <2>3, <2>4 DEF TabType
  <2>7. new.check = r.check /\ new.fetch = r.fetch /\ new.user = OwnerOf(i) /\ new.data = r.data
        BY <2>3 DEF TabType
  <2>8. SoundTab(new, jobs)
        BY <2>3, <2>4, <2>7 DEF SoundTab
  <2> QED BY <2>5, <2>6, <2>8, QuietStepKeeps
<1>4. ASSUME NEW i \in Ids, Refused(t, i) PROVE SessionInv'
  <2>1. Returned(s, i) \in TabType /\ SoundTab(Returned(s, i), jobs)
        BY <1>1, ReturnedKeeps
  <2>2. Shows(t, Returned(s, i)) /\ Stores(t) /\ UNCHANGED <<accountVars, expired, acts>>
        BY <1>4 DEF Refused, Stores
  <2> QED BY <2>1, <2>2, QuietStepKeeps
<1>5. ASSUME NEW i \in Ids, ConnectionLost(t, i) PROVE SessionInv'
  <2>1. /\ Shows(t, Returned(s, i)) /\ UNCHANGED <<users, companies, stored, events, expired, acts>>
        /\ \/ jobs' = [jobs EXCEPT ![i].at = IF @ = "sent" THEN "lost" ELSE @]
           \/ UNCHANGED jobs
        BY <1>5 DEF ConnectionLost, StoreUnchanged
  <2>2. AccountsTypeOK' /\ AccountsInv' /\ StableJobs(jobs, jobs')
        BY <2>1, LossKeeps DEF SessionInv, TypeOK
  <2>3. SoundTab(s, jobs') /\ SoundToken(stored', jobs')
        BY <1>1, <2>1, <2>2, SoundStays DEF SessionInv
  <2>4. Returned(s, i) \in TabType /\ SoundTab(Returned(s, i), jobs')
        BY <1>1, <2>3, ReturnedKeeps
  <2> QED BY <2>1, <2>2, <2>3, <2>4, TabStepKeeps DEF SessionInv, TypeOK
<1> QED BY <1>2, <1>3, <1>4, <1>5

(***************************************************************************)
(* A page loaded again starts from nothing.                                *)
(***************************************************************************)
LEMMA FreshTabSound ==
  ASSUME NEW page \in Pages, NEW J
  PROVE  FreshTab(page) \in TabType /\ SoundTab(FreshTab(page), J)
<1>1. 0 \in 0 .. MaxJobs
      BY AccountsAssumption
<1> QED BY <1>1 DEF FreshTab, TabType, SoundTab, SoundToken, SoundName

\* So do the backend, the clock and a reload.
LEMMA RestKeeps ==
  ASSUME SessionInv, (\E i \in Ids : Serves(i) \/ Expire(i)) \/ (\E t \in Tabs : Reload(t))
                       \/ UNCHANGED vars
  PROVE  SessionInv'
<1>1. ASSUME NEW i \in Ids, Serves(i) PROVE SessionInv'
  <2>1. UNCHANGED browserVars /\ ServerStep(i)
        BY <1>1 DEF Serves
  <2>2. AccountsTypeOK' /\ AccountsInv' /\ StableJobs(jobs, jobs')
        BY <2>1, ServerStepKeeps DEF SessionInv, TypeOK
  <2>3. SoundTabs(tab', jobs') /\ SoundToken(stored', jobs')
        BY <2>1, <2>2, SoundStays DEF SessionInv, browserVars
  <2>4. TypeOK'
        BY <2>1, <2>2 DEF SessionInv, TypeOK, browserVars
  <2> QED BY <2>2, <2>3, <2>4 DEF SessionInv
<1>2. ASSUME NEW i \in Ids, Expire(i) PROVE SessionInv'
  <2>1. /\ UNCHANGED <<users, companies, jobs, stored, tab, events>>
        /\ expired' \subseteq Ids /\ acts' \in 0 .. MaxActs
        BY <1>2, SessionAssumption DEF Expire, Acts, accountVars, SessionInv, TypeOK
  <2>2. TypeOK'
        BY <2>1 DEF SessionInv, TypeOK, AccountsTypeOK
  <2>3. AccountsInv'
        BY <2>1 DEF SessionInv, AccountsInv
  <2> QED BY <2>1, <2>2, <2>3 DEF SessionInv
<1>3. ASSUME NEW t \in Tabs, Reload(t) PROVE SessionInv'
  <2>1. /\ UNCHANGED <<users, companies, jobs, stored, expired>>
        /\ tab' = [tab EXCEPT ![t] = FreshTab(tab[t].page)]
        /\ events' \in [Tabs -> Nat] /\ acts' \in 0 .. MaxActs
        BY <1>3, SessionAssumption DEF Reload, Acts, accountVars, SessionInv, TypeOK
  <2>2. tab[t].page \in Pages
        BY TabIsSound DEF TabType
  <2>3. tab' \in [Tabs -> TabType] /\ SoundTabs(tab', jobs)
        BY <2>1, <2>2, FreshTabSound DEF SessionInv, TypeOK, TabType, SoundTabs
  <2>4. AccountsTypeOK' /\ AccountsInv'
        BY <2>1 DEF SessionInv, TypeOK, AccountsTypeOK, AccountsInv
  <2>5. TypeOK'
        BY <2>1, <2>3, <2>4 DEF SessionInv, TypeOK, TabType
  <2> QED BY <2>1, <2>3, <2>4, <2>5 DEF SessionInv
<1>4. CASE UNCHANGED vars
  <2>1. UNCHANGED <<users, companies, jobs, stored, expired, tab, events, acts>>
        BY <1>4 DEF vars, accountVars, browserVars
  <2>2. AccountsTypeOK' /\ AccountsInv'
        BY <2>1 DEF SessionInv, TypeOK, AccountsTypeOK, AccountsInv
  <2> QED BY <2>1, <2>2 DEF SessionInv, TypeOK
<1> QED BY <1>1, <1>2, <1>3, <1>4

-----------------------------------------------------------------------------
(***************************************************************************)
(* The invariant holds at the start and every step keeps it.               *)
(***************************************************************************)
LEMMA SessionInvInit == Init => SessionInv
<1> SUFFICES ASSUME Init PROVE SessionInv
    OBVIOUS
<1>1. AccountsTypeOK /\ AccountsInv
      BY AccountsStart DEF Init
<1>2. tab \in [Tabs -> TabType] /\ SoundTabs(tab, jobs)
      BY FreshTabSound, SessionAssumption DEF Init, SoundTabs
<1>3. stored \in 0 .. MaxJobs /\ acts \in 0 .. MaxActs /\ events \in [Tabs -> Nat] /\ expired \subseteq Ids
      BY AccountsAssumption, SessionAssumption DEF Init
<1>4. SoundToken(stored, jobs)
      BY DEF Init, SoundToken
<1> QED BY <1>1, <1>2, <1>3, <1>4 DEF SessionInv, TypeOK, TabType

\* Every step keeps the invariant.
LEMMA SessionInvStep == SessionInv /\ [Next]_vars => SessionInv'
<1> SUFFICES ASSUME SessionInv, [Next]_vars PROVE SessionInv'
    OBVIOUS
<1> QED BY ChecksKeep, PagesKeep, FormsKeep, RestKeeps DEF Next, Hears

(***************************************************************************)
(* The browsers and the accounts stay typed, for any tabs and people.      *)
(***************************************************************************)
THEOREM SessionTypeCorrect == Spec => []TypeOK
<1>1. SessionInv => TypeOK
      BY DEF SessionInv
<1> QED BY <1>1, SessionInvInit, SessionInvStep, PTL DEF Spec

(***************************************************************************)
(* However many sign-ups of one address run at once, one user and one      *)
(* company come of them and at most one is welcomed.                       *)
(***************************************************************************)
THEOREM SignupsLeaveWholeAccounts == Spec => []AccountsAreWhole
<1>1. SessionInv => AccountsAreWhole
      BY WholeAccounts DEF SessionInv
<1> QED BY <1>1, SessionInvInit, SessionInvStep, PTL DEF Spec

(***************************************************************************)
(* No interleaving of tabs, checks, log-ins and log-outs shows an account  *)
(* that was not proved in this browser.                                    *)
(***************************************************************************)
THEOREM OnlyProvedIsShown == Spec => []ShownWasProved
<1>1. SessionInv => ShownWasProved
  <2> SUFFICES ASSUME SessionInv, NEW t \in Tabs, NEW e \in {tab[t].user, tab[t].data} \ {Nobody}
               PROVE  /\ e \in users
                      /\ \E i \in Ids : jobs[i].email = e /\ jobs[i].at = "ok" /\ jobs[i].knows
      BY DEF ShownWasProved
  <2>1. SoundName(e, jobs) /\ e # Nobody
        BY TabIsSound DEF SoundTab
  <2> QED BY <2>1 DEF SoundName, SessionInv, AccountsInv
<1> QED BY <1>1, SessionInvInit, SessionInvStep, PTL DEF Spec
-----------------------------------------------------------------------------

(***************************************************************************)
(* Tabs that agree.  TabsAgree holds tab by tab: a mounted tab that shows  *)
(* something else than the stored token's owner is checking a token or has *)
(* an event to handle, since whoever stores a token tells every other tab. *)
(***************************************************************************)
Fits(user, token, gone, J) ==
  IF token = 0 THEN user = Nobody ELSE token \notin gone => user = J[token].email

TabFollows(t) == Quiet(t) => Fits(tab[t].user, stored, expired, jobs)

TabsFollow == \A t \in Tabs : TabFollows(t)

(***************************************************************************)
(* No step takes an issued token back.                                     *)
(***************************************************************************)
LEMMA TokensStay ==
  ASSUME SessionInv, [Next]_vars
  PROVE  StableJobs(jobs, jobs') /\ expired \subseteq expired'
<1>1. ASSUME UNCHANGED jobs PROVE StableJobs(jobs, jobs')
  BY <1>1 DEF StableJobs
<1>2. ASSUME NEW i \in Ids, Serves(i) PROVE StableJobs(jobs, jobs') /\ UNCHANGED expired
  BY <1>2, ServerStepKeeps DEF Serves, SessionInv, TypeOK, browserVars
<1>3. ASSUME NEW t \in Tabs, Submit(t) PROVE StableJobs(jobs, jobs') /\ UNCHANGED expired
  BY <1>3 DEF Submit, Send, StableJobs, SessionInv, TypeOK, AccountsTypeOK
<1>4. ASSUME NEW t \in Tabs, NEW i \in Ids, ConnectionLost(t, i)
      PROVE  StableJobs(jobs, jobs') /\ UNCHANGED expired
  BY <1>4 DEF ConnectionLost, StableJobs, SessionInv, TypeOK, AccountsTypeOK
<1>5. ASSUME NEW t \in Tabs,
             \/ Mount(t) \/ StorageEvent(t) \/ Hears(t) \/ Logout(t)
             \/ \E page \in Pages : Navigate(t, page)
             \/ Redirect(t) \/ GoesHome(t) \/ DataArrives(t) \/ Reload(t)
      PROVE  UNCHANGED <<jobs, expired>>
  BY <1>5 DEF Mount, StorageEvent, Hears, Logout, Navigate, Redirect, GoesHome, DataArrives, Reload,
              CheckSucceeds, CheckFails, SignedIn, Refused, GoTo, accountVars
<1>6. ASSUME NEW i \in Ids, Expire(i) PROVE UNCHANGED jobs /\ expired \subseteq expired'
  BY <1>6 DEF Expire, accountVars
<1>7. CASE UNCHANGED vars
  BY <1>1, <1>7 DEF vars, accountVars, browserVars
<1> QED BY <1>1, <1>2, <1>3, <1>4, <1>5, <1>6, <1>7 DEF Next

(***************************************************************************)
(* A tab that is not touched still follows: the token is the one it was,   *)
(* or it has been told of another.                                         *)
(***************************************************************************)
LEMMA OtherFollows ==
  ASSUME SessionInv, NEW t \in Tabs, NEW u \in Tabs, u # t, TabFollows(u), tab'[u] = tab[u],
         (stored' = stored /\ events'[u] = events[u]) \/ \E token : Store(t, token),
         StableJobs(jobs, jobs'), expired \subseteq expired'
  PROVE  TabFollows(u)'
<1>1. stored # 0 => jobs'[stored].email = jobs[stored].email
  BY DEF SessionInv, SoundToken, StableJobs
<1>2. events[u] \in Nat
  BY DEF SessionInv, TypeOK
<1>3. CASE stored' = stored /\ events'[u] = events[u]
  BY <1>1, <1>3 DEF TabFollows, Quiet, Fits
<1>4. CASE \E token : Store(t, token)
  <2>1. tab[u].mounted /\ stored' # stored => events'[u] = events[u] + 1
    BY <1>4 DEF Store
  <2>2. stored' = stored => events'[u] = events[u]
    BY <1>4 DEF Store
  <2> QED BY <1>1, <1>2, <2>1, <2>2 DEF TabFollows, Quiet, Fits
<1> QED BY <1>3, <1>4

(***************************************************************************)
(* Rendering changes the dashboard's data, never the session.              *)
(***************************************************************************)
LEMMA RenderedSession ==
  ASSUME SessionInv, NEW t \in Tabs, NEW new \in TabType, Shows(t, new)
  PROVE  /\ tab'[t].user = new.user /\ tab'[t].check = new.check /\ tab'[t].mounted = new.mounted
         /\ \A u \in Tabs \ {t} : tab'[u] = tab[u]
<1>1. tab'[t] = Rendered(tab[t], new, stored') /\ \A u \in Tabs \ {t} : tab'[u] = tab[u]
  BY DEF Shows, SessionInv, TypeOK
<1>2. ASSUME NEW fetch
      PROVE  LET r == [new EXCEPT !.fetch = fetch, !.data = Nobody]
             IN  r.user = new.user /\ r.check = new.check /\ r.mounted = new.mounted
  BY DEF TabType
<1> QED BY <1>1, <1>2 DEF Rendered

\* A check that starts waits for its answer, one that does not finds no live token.
LEMMA CheckAuthSession ==
  ASSUME NEW s \in TabType, NEW token, NEW skip \in BOOLEAN, token \in 0 .. MaxJobs
  PROVE  \/ CheckAuth(s, token, skip).check # 0
         \/ CheckAuth(s, token, skip).user = Nobody /\ ~Live(token)
<1>1. CASE s.check # 0
  <2>1. CheckAuth(s, token, skip) = s
    BY <1>1 DEF CheckAuth
  <2> QED BY <1>1, <2>1
<1>2. CASE s.check = 0 /\ Live(token)
  <2> DEFINE new == [s EXCEPT !.check = token, !.quiet = skip, !.loading = IF skip THEN @ ELSE TRUE]
  <2>1. new.check = token /\ token # 0
    BY <1>2 DEF TabType, Live
  <2>2. CheckAuth(s, token, skip) = new
    BY <1>2 DEF CheckAuth
  <2> QED BY <2>1, <2>2
<1>3. CASE s.check = 0 /\ ~Live(token)
  <2> DEFINE new == [s EXCEPT !.user = Nobody, !.loading = IF skip THEN @ ELSE FALSE]
  <2>1. new.user = Nobody
    BY DEF TabType
  <2>2. CheckAuth(s, token, skip) = new
    BY <1>3 DEF CheckAuth
  <2> QED BY <1>3, <2>1, <2>2
<1> QED BY <1>1, <1>2, <1>3

(***************************************************************************)
(* The tab that acts follows what it stores or finds stored.               *)
(***************************************************************************)
LEMMA CheckingFollows ==
  ASSUME SessionInv, NEW t \in Tabs,
         Mount(t) \/ StorageEvent(t) \/ CheckSucceeds(t) \/ CheckFails(t)
  PROVE  /\ TabFollows(t)'
         /\ \A u \in Tabs \ {t} : tab'[u] = tab[u]
         /\ \/ stored' = stored /\ \A u \in Tabs \ {t} : events'[u] = events[u]
            \/ \E token : Store(t, token)
<1> DEFINE s == tab[t]
<1>1. /\ s \in TabType /\ SoundTab(s, jobs)
      /\ stored \in 0 .. MaxJobs /\ SoundToken(stored, jobs)
  BY TabIsSound DEF SessionInv, TypeOK
<1>2. ASSUME NEW m \in TabType, Shows(t, CheckAuth(m, stored, FALSE)), SoundTab(m, jobs),
             UNCHANGED <<stored, expired>>
      PROVE  TabFollows(t)' /\ \A u \in Tabs \ {t} : tab'[u] = tab[u]
  <2>1. CheckAuth(m, stored, FALSE) \in TabType
    BY <1>1, <1>2, CheckAuthKeeps
  <2>2. \/ CheckAuth(m, stored, FALSE).check # 0
        \/ CheckAuth(m, stored, FALSE).user = Nobody /\ ~Live(stored)
    BY <1>1, CheckAuthSession
  <2>3. /\ tab'[t].check # 0 \/ (tab'[t].user = Nobody /\ ~Live(stored))
        /\ \A u \in Tabs \ {t} : tab'[u] = tab[u]
    <3>1. /\ tab'[t].user = CheckAuth(m, stored, FALSE).user
          /\ tab'[t].check = CheckAuth(m, stored, FALSE).check
          /\ \A u \in Tabs \ {t} : tab'[u] = tab[u]
      BY <1>2, <2>1, RenderedSession
    <3> QED BY <2>2, <3>1
  <2> QED BY <1>2, <2>3 DEF TabFollows, Quiet, Fits, Live
<1>3. CASE Mount(t)
  <2> DEFINE m == [s EXCEPT !.mounted = TRUE]
  <2>1. m \in TabType /\ SoundTab(m, jobs)
    BY <1>1 DEF TabType, SoundTab
  <2>2. Shows(t, CheckAuth(m, stored, FALSE)) /\ UNCHANGED <<stored, expired, events>>
    BY <1>3 DEF Mount, StoreUnchanged
  <2> HIDE DEF m
  <2> QED BY <1>2, <2>1, <2>2
<1>4. CASE StorageEvent(t)
  <2>1. Shows(t, CheckAuth(s, stored, FALSE)) /\ UNCHANGED <<stored, expired>>
    BY <1>4 DEF StorageEvent
  <2>2. \A u \in Tabs \ {t} : events'[u] = events[u]
    BY <1>4 DEF StorageEvent, SessionInv, TypeOK
  <2> QED BY <1>1, <1>2, <2>1, <2>2
<1>5. ASSUME NEW user \in Emails \cup {Nobody}, SoundName(user, jobs), Shows(t, Checked(s, user))
      PROVE  tab'[t].user = user /\ \A u \in Tabs \ {t} : tab'[u] = tab[u]
  <2>1. Checked(s, user) \in TabType
    BY <1>1, <1>5, CheckedKeeps
  <2>2. Checked(s, user).user = user
    BY <1>1 DEF Checked, TabType
  <2> QED BY <1>5, <2>1, <2>2, RenderedSession
<1>6. CASE CheckSucceeds(t)
  <2>1. s.check \in Ids /\ jobs[s.check].at = "ok"
    BY <1>1, <1>6 DEF CheckSucceeds, SoundTab, SoundToken
  <2>2. /\ tab'[t].user = OwnerOf(s.check)
        /\ \A u \in Tabs \ {t} : tab'[u] = tab[u]
    BY <1>5, <1>6, <2>1, OwnersAreAccounts DEF CheckSucceeds
  <2>3. stored' = s.check /\ UNCHANGED jobs /\ s.check # 0
    BY <1>6 DEF CheckSucceeds, Store, StoreUnchanged, accountVars
  <2>4. StoreUnchanged \/ Store(t, s.check)
    BY <1>6 DEF CheckSucceeds
  <2> QED BY <2>2, <2>3, <2>4 DEF TabFollows, Fits, OwnerOf, StoreUnchanged
<1>7. CASE CheckFails(t)
  <2>1. /\ tab'[t].user = Nobody
        /\ \A u \in Tabs \ {t} : tab'[u] = tab[u]
    BY <1>5, <1>7 DEF CheckFails, SoundName
  <2>2. Store(t, 0) /\ stored' = 0
    BY <1>7 DEF CheckFails, Store
  <2> QED BY <2>1, <2>2 DEF TabFollows, Fits
<1> QED BY <1>3, <1>4, <1>6, <1>7

\* So does one that logs in or out.
LEMMA SigningFollows ==
  ASSUME SessionInv, NEW t \in Tabs, Logout(t) \/ \E i \in Ids : SignedIn(t, i)
  PROVE  /\ TabFollows(t)'
         /\ \A u \in Tabs \ {t} : tab'[u] = tab[u]
         /\ \E token : Store(t, token)
<1> DEFINE s == tab[t]
<1>1. s \in TabType /\ SoundTab(s, jobs) /\ 0 \in 0 .. MaxJobs
  BY TabIsSound, AccountsAssumption
<1>2. CASE Logout(t)
  <2> DEFINE new == [s EXCEPT !.user = Nobody, !.page = "login", !.form = 0]
  <2>1. new \in TabType /\ new.user = Nobody
    BY <1>1 DEF TabType, Pages, Public
  <2>2. Shows(t, new) /\ Store(t, 0) /\ stored' = 0
    BY <1>2 DEF Logout, Store
  <2>3. tab'[t].user = Nobody /\ \A u \in Tabs \ {t} : tab'[u] = tab[u]
    BY <2>1, <2>2, RenderedSession
  <2> QED BY <2>2, <2>3 DEF TabFollows, Fits
<1>3. ASSUME NEW i \in Ids, SignedIn(t, i)
      PROVE  /\ TabFollows(t)' /\ Store(t, i)
             /\ \A u \in Tabs \ {t} : tab'[u] = tab[u]
  <2>1. i \in 0 .. MaxJobs /\ i # 0 /\ SoundToken(i, jobs) /\ jobs[i].at = "ok"
    <3>1. jobs[i].at = "ok" /\ i \in 0 .. MaxJobs
      BY <1>3, IdsAreTokens DEF SignedIn
    <3>2. i # 0
      BY AccountsAssumption DEF Ids
    <3> QED BY <3>1, <3>2 DEF SoundToken
  <2> DEFINE c == CheckAuth(s, i, TRUE)
             r == Returned(c, i)
             new == [r EXCEPT !.user = OwnerOf(i), !.going = TRUE]
  <2>2. c \in TabType /\ SoundTab(c, jobs)
    BY <1>1, <2>1, CheckAuthKeeps
  <2>3. r \in TabType
    BY <2>2, ReturnedKeeps
  <2>4. OwnerOf(i) \in Emails
    BY <2>1, OwnersAreAccounts
  <2>5. Shows(t, new) /\ Store(t, i) /\ stored' = i /\ UNCHANGED jobs
    BY <1>3 DEF SignedIn, Store, accountVars
  <2> HIDE DEF r
  <2>6. new \in TabType /\ new.user = OwnerOf(i)
    BY <2>3, <2>4 DEF TabType
  <2>7. tab'[t].user = OwnerOf(i) /\ \A u \in Tabs \ {t} : tab'[u] = tab[u]
    BY <2>5, <2>6, RenderedSession
  <2> QED BY <2>1, <2>5, <2>7 DEF TabFollows, Fits, OwnerOf
<1> QED BY <1>2, <1>3

(***************************************************************************)
(* Every other step of a tab leaves its session and the store alone.       *)
(***************************************************************************)
LEMMA OthersKeepSession ==
  ASSUME SessionInv, NEW t \in Tabs,
         \/ Submit(t) \/ \E i \in Ids : Refused(t, i) \/ ConnectionLost(t, i)
         \/ \E page \in Pages : Navigate(t, page)
         \/ Redirect(t) \/ GoesHome(t) \/ DataArrives(t)
  PROVE  /\ UNCHANGED <<stored, events>>
         /\ tab'[t].user = tab[t].user /\ tab'[t].check = tab[t].check
         /\ tab'[t].mounted = tab[t].mounted
         /\ \A u \in Tabs \ {t} : tab'[u] = tab[u]
<1> DEFINE s == tab[t]
           Session(new) == new.user = s.user /\ new.check = s.check /\ new.mounted = s.mounted
<1>1. s \in TabType /\ SoundTab(s, jobs) /\ 0 \in 0 .. MaxJobs
  BY TabIsSound, AccountsAssumption
<1>2. UNCHANGED <<stored, events>>
  BY DEF Submit, Refused, ConnectionLost, Navigate, Redirect, GoesHome, DataArrives, GoTo, StoreUnchanged
<1>3. ASSUME NEW new \in TabType, Session(new), Shows(t, new)
      PROVE  Session(tab'[t]) /\ \A u \in Tabs \ {t} : tab'[u] = tab[u]
  BY <1>3, RenderedSession
<1> DEFINE Goal == Session(tab'[t]) /\ \A u \in Tabs \ {t} : tab'[u] = tab[u]
<1>4. CASE Submit(t)
  <2>1. PICK i \in Ids : Shows(t, [s EXCEPT !.loading = TRUE, !.waits = @ \cup {i}, !.form = i])
    BY <1>4 DEF Submit
  <2> DEFINE new == [s EXCEPT !.loading = TRUE, !.waits = @ \cup {i}, !.form = i]
  <2>2. new \in TabType /\ Session(new)
    <3>1. i \in Ids /\ i \in 0 .. MaxJobs
      BY IdsAreTokens
    <3> QED BY <1>1, <3>1 DEF TabType
  <2>3. Shows(t, new)
    BY <2>1
  <2> HIDE DEF new
  <2> QED BY <1>2, <1>3, <2>2, <2>3
<1>5. ASSUME NEW i \in Ids, Refused(t, i) \/ ConnectionLost(t, i) PROVE Goal
  <2>1. Shows(t, Returned(s, i))
    BY <1>5 DEF Refused, ConnectionLost
  <2>2. Returned(s, i) \in TabType /\ Session(Returned(s, i))
    BY <1>1, ReturnedKeeps DEF Returned, TabType
  <2> QED BY <1>3, <2>1, <2>2
<1>6. ASSUME NEW page \in Pages, GoTo(t, page) PROVE Goal
  <2> DEFINE new == [s EXCEPT !.page = page, !.form = 0]
  <2>1. new \in TabType /\ Session(new)
    BY <1>1 DEF TabType
  <2>2. Shows(t, new)
    BY <1>6 DEF GoTo
  <2> HIDE DEF new
  <2> QED BY <1>3, <2>1, <2>2
<1>7. CASE GoesHome(t)
  <2> DEFINE new == [s EXCEPT !.going = FALSE, !.page = "home", !.form = 0]
  <2>1. new \in TabType /\ Session(new)
    BY <1>1 DEF TabType, Pages, Protected
  <2>2. Shows(t, new)
    BY <1>7 DEF GoesHome
  <2> HIDE DEF new
  <2> QED BY <1>2, <1>3, <2>1, <2>2
<1>8. CASE DataArrives(t)
  <2>1. ASSUME NEW data \in Emails \cup {Nobody}, Shows(t, [s EXCEPT !.fetch = 0, !.data = data])
        PROVE  Goal
    <3> DEFINE new == [s EXCEPT !.fetch = 0, !.data = data]
    <3>1. new \in TabType /\ Session(new)
      BY <1>1 DEF TabType
    <3>2. Shows(t, new)
      BY <2>1
    <3> HIDE DEF new
    <3> QED BY <1>3, <3>1, <3>2
  <2>2. CASE Shows(t, [s EXCEPT !.fetch = 0, !.data = OwnerOf(s.fetch)])
    <3>1. OwnerOf(s.fetch) \in Emails
      BY <1>1, <1>8, OwnersAreAccounts DEF DataArrives, DashboardOf, SoundTab, SoundToken
    <3> QED BY <1>2, <2>1, <2>2, <3>1
  <2>3. CASE Shows(t, [s EXCEPT !.fetch = 0])
    <3> DEFINE new == [s EXCEPT !.fetch = 0]
    <3>1. new \in TabType /\ Session(new)
      BY <1>1 DEF TabType
    <3>2. Shows(t, new)
      BY <2>3
    <3> HIDE DEF new
    <3> QED BY <1>2, <1>3, <3>1, <3>2
  <2> QED BY <1>8, <2>2, <2>3 DEF DataArrives, DashboardOf
<1>9. CASE (\E page \in Pages : Navigate(t, page)) \/ Redirect(t)
  BY <1>2, <1>6, <1>9 DEF Navigate, Redirect, Pages, Public
<1> QED BY <1>2, <1>4, <1>5, <1>7, <1>8, <1>9

(***************************************************************************)
(* Every step leaves every tab following the token.                        *)
(***************************************************************************)
LEMMA TabsFollowStep == SessionInv /\ TabsFollow /\ [Next]_vars => TabsFollow'
<1> SUFFICES ASSUME SessionInv, TabsFollow, [Next]_vars, NEW u \in Tabs PROVE TabFollows(u)'
  BY DEF TabsFollow
<1>1. TabFollows(u) /\ StableJobs(jobs, jobs') /\ expired \subseteq expired'
  BY TokensStay DEF TabsFollow
<1>2. ASSUME UNCHANGED <<stored, events>>, tab'[u].user = tab[u].user, tab'[u].check = tab[u].check,
             tab'[u].mounted = tab[u].mounted
      PROVE  TabFollows(u)'
  <2>1. stored # 0 => jobs'[stored].email = jobs[stored].email
    BY <1>1 DEF SessionInv, SoundToken, StableJobs
  <2> QED BY <1>1, <1>2, <2>1 DEF TabFollows, Quiet, Fits
<1>3. ASSUME NEW t \in Tabs, Mount(t) \/ StorageEvent(t) \/ Hears(t) \/ Logout(t)
      PROVE  TabFollows(u)'
  <2>1. CASE Mount(t) \/ StorageEvent(t) \/ CheckSucceeds(t) \/ CheckFails(t)
    BY <1>1, <2>1, CheckingFollows, OtherFollows
  <2>2. CASE Logout(t) \/ \E i \in Ids : SignedIn(t, i)
    BY <1>1, <2>2, SigningFollows, OtherFollows
  <2>3. CASE \E i \in Ids : Refused(t, i)
    BY <1>2, <2>3, OthersKeepSession
  <2> QED BY <1>3, <2>1, <2>2, <2>3 DEF Hears
<1>4. ASSUME NEW t \in Tabs,
             \/ Submit(t) \/ \E i \in Ids : ConnectionLost(t, i)
             \/ \E page \in Pages : Navigate(t, page)
             \/ Redirect(t) \/ GoesHome(t) \/ DataArrives(t)
      PROVE  TabFollows(u)'
  BY <1>2, <1>4, OthersKeepSession
<1>5. ASSUME NEW t \in Tabs, Reload(t) PROVE TabFollows(u)'
  <2>1. CASE u = t
    BY <1>5, <2>1 DEF Reload, FreshTab, TabFollows, Quiet, SessionInv, TypeOK
  <2>2. CASE u # t
    BY <1>1, <1>5, <2>2, OtherFollows DEF Reload, SessionInv, TypeOK
  <2> QED BY <2>1, <2>2
<1>6. CASE (\E i \in Ids : Serves(i) \/ Expire(i)) \/ UNCHANGED vars
  BY <1>2, <1>6 DEF Serves, Expire, vars, browserVars
<1> QED BY <1>3, <1>4, <1>5, <1>6 DEF Next

(***************************************************************************)
(* When nothing is under way all tabs show the owner of the stored token,  *)
(* for any tabs, checks, log-ins, log-outs, reloads and lost answers.      *)
(***************************************************************************)
THEOREM QuietTabsAgree == Spec => []TabsAgree
<1>1. Init => TabsFollow
  BY DEF Init, TabsFollow, TabFollows, Quiet, FreshTab
<1>2. TabsFollow => TabsAgree
  BY DEF TabsFollow, TabFollows, TabsAgree, Fits, OwnerOf
<1> QED BY <1>1, <1>2, TabsFollowStep, SessionInvInit, SessionInvStep, PTL DEF Spec
=============================================================================
