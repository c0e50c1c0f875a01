------------------------------ MODULE Accounts ------------------------------
(***************************************************************************)
(* The backend's accounts: the handlers of POST /auth/signup and           *)
(* POST /auth/login, whose requests run side by side, and what a token     *)
(* they issue answers for at GET /auth/me and GET /api/dashboard.  A user  *)
(* is named by the address that is unique in the schema.                   *)
(***************************************************************************)
EXTENDS Naturals, FiniteSets

CONSTANTS
  Emails,         \* the addresses people sign up with
  Nobody,         \* no address
  MaxJobs,        \* bound: how many sign-ups and log-ins are sent
  ServerMayFail   \* the database, bcrypt or JWT signing may throw

ASSUME AccountsAssumption ==
  /\ Nobody \notin Emails
  /\ MaxJobs \in Nat
  /\ ServerMayFail \in BOOLEAN

Ids == 1 .. MaxJobs

VARIABLES
  users,      \* rows of User, by address
  companies,  \* companies[e]: how many rows of Company were created for e
  jobs        \* jobs[i]: the i-th request, from the client's fetch to its answer

accountVars == <<users, companies, jobs>>

\* "free": not sent yet; "checked": sign-up saw that the address is free;
\* "ok": answered with a token; "no": answered with an error; "lost": never arrived.
Places == {"free", "sent", "checked", "ok", "no", "lost"}

FreeJob == [kind |-> "login", email |-> Nobody, knows |-> FALSE, at |-> "free"]

AccountsTypeOK ==
  /\ users \subseteq Emails
  /\ companies \in [Emails -> Nat]
  /\ jobs \in [Ids -> [kind : {"signup", "login"}, email : Emails \cup {Nobody},
                       knows : BOOLEAN, at : Places]]

AccountsInit ==
  /\ users = {}
  /\ companies = [e \in Emails |-> 0]
  /\ jobs = [i \in Ids |-> FreeJob]

\* A client sends a request; `knows`: the password it carries is the address's own,
\* which says nothing at a sign-up, where the client chooses it.
Send(i, kind, e, knows) ==
  /\ jobs[i].at = "free"
  /\ \A j \in Ids : j < i => jobs[j].at # "free"
  /\ jobs' = [jobs EXCEPT ![i] = [kind |-> kind, email |-> e, knows |-> knows, at |-> "sent"]]
  /\ UNCHANGED <<users, companies>>

Moves(i, from, to) == jobs[i].at = from /\ jobs' = [jobs EXCEPT ![i].at = to]

\* prisma.user.findUnique, and EMAIL_EXISTS.
SignupLooksUp(i) ==
  /\ jobs[i].kind = "signup"
  /\ Moves(i, "sent", IF jobs[i].email \in users THEN "no" ELSE "checked")
  /\ UNCHANGED <<users, companies>>

\* Mutant: the two rows are created without a transaction.
BugNoTransaction(i) ==
  LET e == jobs[i].email
  IN  /\ Moves(i, "checked", IF e \in users THEN "no" ELSE "ok")
      /\ users' = users \cup {e}
      /\ companies' = [companies EXCEPT ![e] = @ + 1]

\* The transaction creates both rows or, when another sign-up took the address
\* since, none.  Signing the token comes after it and may still throw.
CreateAccount(i) ==
  LET e == jobs[i].email
  IN  IF e \in users
      THEN Moves(i, "checked", "no") /\ UNCHANGED <<users, companies>>
      ELSE /\ \/ Moves(i, "checked", "ok")
              \/ ServerMayFail /\ Moves(i, "checked", "no")
           /\ users' = users \cup {e}
           /\ companies' = [companies EXCEPT ![e] = @ + 1]

\* Mutant: the password is not compared.
BugLogin(i) ==
  /\ jobs[i].kind = "login"
  /\ Moves(i, "sent", IF jobs[i].email \in users THEN "ok" ELSE "no")
  /\ UNCHANGED <<users, companies>>

\* findUnique, verifyPassword, generateToken: rows never change, so one step.
Login(i) ==
  /\ jobs[i].kind = "login"
  /\ Moves(i, "sent", IF jobs[i].email \in users /\ jobs[i].knows THEN "ok" ELSE "no")
  /\ UNCHANGED <<users, companies>>

\* Any call of a handler throws: 500.
JobFails(i) ==
  /\ ServerMayFail
  /\ Moves(i, "sent", "no") \/ Moves(i, "checked", "no")
  /\ UNCHANGED <<users, companies>>

ServerStep(i) == SignupLooksUp(i) \/ CreateAccount(i) \/ Login(i) \/ JobFails(i)

\* The token issued to job i names this account in /auth/me and /api/dashboard.
OwnerOf(i) == jobs[i].email
Issued(i) == i \in Ids /\ jobs[i].at = "ok"

(***************************************************************************)
(* Concurrent sign-ups of one address leave one user and one company, no   *)
(* company without its user, and at most one of them is answered 201.      *)
(***************************************************************************)
AccountsAreWhole ==
  \A e \in Emails :
     LET welcomed == {i \in Ids : jobs[i].kind = "signup" /\ jobs[i].email = e /\ jobs[i].at = "ok"}
     IN  /\ companies[e] = IF e \in users THEN 1 ELSE 0
         /\ Cardinality(welcomed) <= companies[e]
=============================================================================
