----------------------- MODULE PaymentIntents_proofs ------------------------
(***************************************************************************)
(* Proofs about PaymentIntents: its types, that a confirmation is final    *)
(* unless confirmations raced, and that an ok answer has a credit behind   *)
(* it.                                                                     *)
(***************************************************************************)
EXTENDS PaymentIntents, SumTheorems

(***************************************************************************)
(* A callback's company is a company, and its row one of that company's.   *)
(***************************************************************************)
LEMMA RowForType ==
  /\ \A c \in Callbacks : /\ IntentOf[c] \in Intents
                          /\ CompanyFor(c) \in Companies
                          /\ RowFor(c) \in Rows
  /\ \A c \in Callbacks : AmountOf[c] \in Nat
BY IntentAssumption DEF RowFor, CompanyFor, Rows

(***************************************************************************)
(* The row is one of those its company's total counts.                     *)
(***************************************************************************)
LEMMA RowOfCompany ==
  ASSUME NEW c \in Callbacks
  PROVE  RowFor(c) \in {CompanyFor(c)} \X Tokens
BY IntentAssumption DEF RowFor

(***************************************************************************)
(* Every step keeps every variable typed: balances only ever receive sums. *)
(***************************************************************************)
LEMMA TypeStep ==
  TypeOK /\ [Next]_vars => TypeOK'
<1> SUFFICES ASSUME TypeOK, [Next]_vars PROVE TypeOK'
    OBVIOUS
<1> USE RowForType
<1>1. ASSUME NEW i \in Intents, CreatePaymentIntent(i) PROVE TypeOK'
      BY <1>1 DEF CreatePaymentIntent, TypeOK, InHandler, races
<1>2. ASSUME NEW c \in Callbacks, FindPayment(c) PROVE TypeOK'
  <2>1. raced' \subseteq Companies /\ contested' \subseteq Intents
        BY <1>2 DEF FindPayment, EntersHandler, Rivals, TypeOK, races
  <2>2. /\ UNCHANGED <<intentVars, balance, credits, broken>>
        /\ at' \in {[at EXCEPT ![c] = "confirm"], [at EXCEPT ![c] = "done"]}
        /\ newBalance' \in {newBalance, [newBalance EXCEPT ![c] = 0]}
        /\ \/ UNCHANGED answer
           \/ \E reply \in {"ok", "notFound", "error"} : answer' = [answer EXCEPT ![c] = reply]
        BY <1>2 DEF FindPayment, EntersHandler, Moves, Ends
  <2> QED BY <2>1, <2>2 DEF TypeOK, InHandler, intentVars
<1>3. ASSUME NEW c \in Callbacks, ConfirmPayment(c) PROVE TypeOK'
      BY <1>3 DEF ConfirmPayment, Moves, Ends, TypeOK, InHandler, intentVars, races
<1>4. ASSUME NEW c \in Callbacks, NEW from, CreditFails(c, from) PROVE TypeOK'
      BY <1>4 DEF CreditFails, Moves, Ends, TypeOK, InHandler, intentVars, races
<1>5. ASSUME NEW c \in Callbacks, ReadBalance(c) PROVE TypeOK'
  <2>1. CASE CreditFails(c, "readBalance")
        BY <1>4, <2>1
  <2>2. CASE ~CreditFails(c, "readBalance")
        BY <1>5, <2>2 DEF ReadBalance, Moves, TypeOK, InHandler, intentVars, races
  <2> QED BY <2>1, <2>2
<1>6. ASSUME NEW c \in Callbacks, WriteBalance(c) PROVE TypeOK'
  <2>1. CASE CreditFails(c, "writeBalance")
        BY <1>4, <2>1
  <2>2. CASE ~CreditFails(c, "writeBalance")
        BY <1>6, <2>2 DEF WriteBalance, Moves, Ends, TypeOK, InHandler, intentVars, races
  <2> QED BY <2>1, <2>2
<1>7. ASSUME Crash PROVE TypeOK'
  <2>1. /\ broken' \subseteq Intents
        /\ at' \in [Callbacks -> InHandler \cup {"idle", "done", "crashed"}]
        /\ newBalance' \in [Callbacks -> Nat]
        BY <1>7 DEF Crash, TypeOK
  <2> QED BY <1>7, <2>1 DEF Crash, TypeOK, intentVars, races
<1>8. CASE UNCHANGED vars
      BY <1>8 DEF vars, intentVars, races, TypeOK
<1> QED BY <1>1, <1>2, <1>3, <1>5, <1>6, <1>7, <1>8 DEF Next, Handle

(***************************************************************************)
(* Nothing is created or delivered when the backend starts.                *)
(***************************************************************************)
LEMMA TypeInit == Init => TypeOK
BY DEF Init, TypeOK, InHandler

(***************************************************************************)
(* Every reachable state is typed; in particular no balance is negative.   *)
(***************************************************************************)
THEOREM IntentsTypeCorrect == Spec => []TypeOK
BY TypeInit, TypeStep, PTL DEF Spec

-----------------------------------------------------------------------------
(***************************************************************************)
(* Two confirmations inside the handler with one company have raced, with  *)
(* one intent have contested it; an intent that was not contested is still *)
(* pending when its callback writes it.                                    *)
(***************************************************************************)
AloneUnlessRaced ==
  \A c, d \in Callbacks :
     c # d /\ at[c] \in InHandler /\ at[d] \in InHandler =>
        /\ CompanyFor(c) = CompanyFor(d) => CompanyFor(c) \in raced
        /\ IntentOf[c] = IntentOf[d] => IntentOf[c] \in contested

ConfirmSeesPending ==
  \A c \in Callbacks :
     at[c] = "confirm" /\ IntentOf[c] \notin contested =>
        intentStatus[IntentOf[c]] = "PENDING_X402"

\* Only callbacks of companies that raced have contested an intent.
ContestIsRace == \A i \in contested : CompanyOf[i] \in raced

RaceInv == TypeOK /\ AloneUnlessRaced /\ ConfirmSeesPending /\ ContestIsRace

(***************************************************************************)
(* A step that brings no callback into the handler and writes no pending   *)
(* intent keeps the race invariant.                                        *)
(***************************************************************************)
LEMMA NoEntryKeepsRaceInv ==
  ASSUME RaceInv, TypeOK', UNCHANGED <<intentStatus, races>>,
         \A c \in Callbacks : at'[c] \in InHandler => at[c] \in InHandler,
         \A c \in Callbacks : at'[c] = "confirm" => at[c] = "confirm"
  PROVE  RaceInv'
<1> USE DEF races
<1>1. AloneUnlessRaced'
      BY DEF RaceInv, AloneUnlessRaced, CompanyFor
<1>2. ConfirmSeesPending'
      BY DEF RaceInv, ConfirmSeesPending
<1>3. ContestIsRace'
      BY DEF RaceInv, ContestIsRace
<1> QED BY <1>1, <1>2, <1>3 DEF RaceInv

(***************************************************************************)
(* A callback that passes the status check marks its company and its       *)
(* intent if it finds others at work on them, and has just seen its intent *)
(* pending.                                                                *)
(***************************************************************************)
LEMMA FindKeepsRaceInv ==
  ASSUME RaceInv, TypeOK', NEW c \in Callbacks, FindPayment(c)
  PROVE  RaceInv'
<1> USE RowForType DEF RaceInv
<1>1. CASE at' = [at EXCEPT ![c] = "done"]
  <2>1. UNCHANGED <<intentStatus, races>>
        BY <1>1 DEF FindPayment, EntersHandler, Moves, TypeOK, intentVars
  <2> QED BY <1>1, <2>1, NoEntryKeepsRaceInv DEF TypeOK, InHandler
<1>2. CASE at' # [at EXCEPT ![c] = "done"]
  <2>1. /\ intentStatus[IntentOf[c]] = "PENDING_X402"
        /\ EntersHandler(c)
        /\ UNCHANGED intentStatus
        BY <1>2 DEF FindPayment, Moves, Ends, intentVars
  <2>2. at[c] = "idle" /\ at' = [at EXCEPT ![c] = "confirm"]
        BY <2>1 DEF EntersHandler, Moves
  <2>3. raced \subseteq raced' /\ contested \subseteq contested'
        BY <2>1 DEF EntersHandler
  <2>4. ASSUME NEW d \in Callbacks, d # c, at[d] \in InHandler
        PROVE  /\ CompanyFor(d) = CompanyFor(c) => CompanyFor(c) \in raced'
               /\ IntentOf[d] = IntentOf[c] => IntentOf[c] \in contested'
        BY <2>1, <2>4 DEF EntersHandler, Rivals
  <2>5. AloneUnlessRaced'
    <3> SUFFICES ASSUME NEW d \in Callbacks, NEW e \in Callbacks, d # e,
                        at'[d] \in InHandler, at'[e] \in InHandler
                 PROVE  /\ CompanyFor(d) = CompanyFor(e) => CompanyFor(d) \in raced'
                        /\ IntentOf[d] = IntentOf[e] => IntentOf[d] \in contested'
        BY DEF AloneUnlessRaced, CompanyFor
    <3>1. CASE d # c /\ e # c
          BY <2>2, <2>3, <3>1 DEF AloneUnlessRaced, TypeOK
    <3>2. CASE d = c
          BY <2>2, <2>4, <3>2 DEF TypeOK
    <3>3. CASE e = c
          BY <2>2, <2>4, <3>3 DEF TypeOK
    <3> QED BY <3>1, <3>2, <3>3
  <2>6. ConfirmSeesPending'
    <3> SUFFICES ASSUME NEW d \in Callbacks, at'[d] = "confirm", IntentOf[d] \notin contested'
                 PROVE  intentStatus[IntentOf[d]] = "PENDING_X402"
        BY <2>1 DEF ConfirmSeesPending
    <3>1. CASE d = c
          BY <2>1, <3>1
    <3>2. CASE d # c
          BY <2>2, <2>3, <3>2 DEF ConfirmSeesPending, TypeOK
    <3> QED BY <3>1, <3>2
  <2>7. ContestIsRace'
    <3> SUFFICES ASSUME NEW i \in contested' PROVE CompanyOf[i] \in raced'
        BY DEF ContestIsRace
    <3>1. CASE i \in contested
          BY <2>3, <3>1 DEF ContestIsRace
    <3>2. CASE i \notin contested
      <4>1. PICK d \in Rivals(c) : IntentOf[d] = IntentOf[c] /\ i = IntentOf[d]
            BY <2>1, <3>2 DEF EntersHandler
      <4>2. d \in Callbacks /\ d # c /\ at[d] \in InHandler /\ CompanyFor(d) = CompanyFor(c)
            BY <4>1 DEF Rivals, CompanyFor
      <4> QED BY <2>4, <4>1, <4>2 DEF CompanyFor
    <3> QED BY <3>1, <3>2
  <2> QED BY <2>5, <2>6, <2>7
<1> QED BY <1>1, <1>2

(***************************************************************************)
(* The write of an intent leaves no callback that still expects it to be   *)
(* pending, unless the intent is contested.                                *)
(***************************************************************************)
LEMMA ConfirmKeepsRaceInv ==
  ASSUME RaceInv, TypeOK', NEW c \in Callbacks, ConfirmPayment(c)
  PROVE  RaceInv'
<1> USE RowForType DEF RaceInv
<1>1. /\ at[c] = "confirm"
      /\ at' \in {[at EXCEPT ![c] = "readBalance"], [at EXCEPT ![c] = "done"]}
      /\ UNCHANGED <<raced, contested>>
      BY DEF ConfirmPayment, Moves, Ends, races
<1>2. AloneUnlessRaced'
      BY <1>1 DEF AloneUnlessRaced, CompanyFor, TypeOK, InHandler
<1>3. ConfirmSeesPending'
  <2> SUFFICES ASSUME NEW d \in Callbacks, at'[d] = "confirm", IntentOf[d] \notin contested'
               PROVE  intentStatus'[IntentOf[d]] = "PENDING_X402"
      BY DEF ConfirmSeesPending
  <2>1. d # c /\ at[d] = "confirm"
        BY <1>1 DEF TypeOK
  <2>2. IntentOf[d] # IntentOf[c]
        BY <1>1, <2>1 DEF AloneUnlessRaced, InHandler
  <2>3. intentStatus'[IntentOf[d]] = intentStatus[IntentOf[d]]
        BY <2>2 DEF ConfirmPayment, intentVars, TypeOK
  <2> QED BY <1>1, <2>1, <2>3 DEF ConfirmSeesPending
<1>4. ContestIsRace'
      BY <1>1 DEF ContestIsRace
<1> QED BY <1>2, <1>3, <1>4

(***************************************************************************)
(* Every step keeps the race invariant.                                    *)
(***************************************************************************)
LEMMA RaceStep ==
  RaceInv /\ [Next]_vars => RaceInv'
<1> SUFFICES ASSUME RaceInv, [Next]_vars PROVE RaceInv'
    OBVIOUS
<1> USE RowForType DEF RaceInv
<1>1. TypeOK'
      BY TypeStep
<1>2. ASSUME NEW i \in Intents, CreatePaymentIntent(i) PROVE RaceInv'
  <2>1. AloneUnlessRaced' /\ ContestIsRace'
        BY <1>2 DEF CreatePaymentIntent, AloneUnlessRaced, ContestIsRace, CompanyFor, races
  <2>2. ConfirmSeesPending'
        BY <1>2 DEF CreatePaymentIntent, ConfirmSeesPending, TypeOK, races
  <2> QED BY <1>1, <2>1, <2>2
<1>3. ASSUME NEW c \in Callbacks, FindPayment(c) PROVE RaceInv'
      BY <1>1, <1>3, FindKeepsRaceInv
<1>4. ASSUME NEW c \in Callbacks, ConfirmPayment(c) PROVE RaceInv'
      BY <1>1, <1>4, ConfirmKeepsRaceInv
<1>5. ASSUME NEW c \in Callbacks, ReadBalance(c) PROVE RaceInv'
  <2>1. /\ at[c] = "readBalance"
        /\ at' \in {[at EXCEPT ![c] = "writeBalance"], [at EXCEPT ![c] = "done"]}
        /\ UNCHANGED <<intentStatus, races>>
        BY <1>5 DEF ReadBalance, CreditFails, Moves, Ends, intentVars
  <2> QED BY <1>1, <2>1, NoEntryKeepsRaceInv DEF TypeOK, InHandler
<1>6. ASSUME NEW c \in Callbacks, WriteBalance(c) PROVE RaceInv'
  <2>1. /\ at' = [at EXCEPT ![c] = "done"]
        /\ UNCHANGED <<intentStatus, races>>
        BY <1>6 DEF WriteBalance, CreditFails, Moves, Ends, intentVars
  <2> QED BY <1>1, <2>1, NoEntryKeepsRaceInv DEF TypeOK, InHandler
<1>7. ASSUME Crash PROVE RaceInv'
      BY <1>1, <1>7, NoEntryKeepsRaceInv DEF Crash, TypeOK, InHandler, intentVars
<1>8. CASE UNCHANGED vars
      BY <1>1, <1>8, NoEntryKeepsRaceInv DEF vars, intentVars
<1> QED BY <1>2, <1>3, <1>4, <1>5, <1>6, <1>7, <1>8 DEF Next, Handle

(***************************************************************************)
(* Nothing has raced at first.                                             *)
(***************************************************************************)
LEMMA RaceInit == Init => RaceInv
BY TypeInit DEF Init, RaceInv, AloneUnlessRaced, ConfirmSeesPending, ContestIsRace, InHandler

(***************************************************************************)
(* The race invariant holds in every reachable state.                      *)
(***************************************************************************)
THEOREM RaceInvariance == Spec => []RaceInv
BY RaceInit, RaceStep, PTL DEF Spec

(***************************************************************************)
(* A confirmed intent keeps its transaction and its amount, unless two     *)
(* confirmations of that intent were in the handler at once.               *)
(***************************************************************************)
THEOREM ConfirmedStaysConfirmed == Spec => ConfirmationIsFinal
<1> DEFINE Final(i) ==
      intentStatus[i] = "CONFIRMED_ONCHAIN" /\ i \notin contested =>
         UNCHANGED <<intentStatus[i], intentTx[i], intentAmount[i]>>
<1>1. ASSUME RaceInv, [Next]_vars, NEW i \in Intents PROVE Final(i)
  <2> SUFFICES ASSUME intentStatus[i] = "CONFIRMED_ONCHAIN", i \notin contested
               PROVE  UNCHANGED <<intentStatus[i], intentTx[i], intentAmount[i]>>
      OBVIOUS
  <2> USE <1>1, RowForType DEF RaceInv
  <2>1. ASSUME NEW j \in Intents, CreatePaymentIntent(j) PROVE Final(i)
        BY <2>1 DEF CreatePaymentIntent, TypeOK
  <2>2. ASSUME NEW c \in Callbacks, ConfirmPayment(c) PROVE Final(i)
    <3>1. IntentOf[c] # i
          BY <2>2 DEF ConfirmPayment, Moves, Ends, ConfirmSeesPending
    <3> QED BY <2>2, <3>1 DEF ConfirmPayment, TypeOK, intentVars
  <2>3. CASE UNCHANGED intentVars
        BY <2>3 DEF intentVars
  <2>4. ASSUME NEW c \in Callbacks, FindPayment(c) \/ ReadBalance(c) \/ WriteBalance(c)
        PROVE  UNCHANGED intentVars
        BY <2>4 DEF FindPayment, ReadBalance, WriteBalance, CreditFails
  <2>5. Crash \/ UNCHANGED vars => UNCHANGED intentVars
        BY DEF Crash, vars
  <2> QED BY <2>1, <2>2, <2>3, <2>4, <2>5 DEF Next, Handle
<1>2. RaceInv /\ [Next]_vars =>
        [\A i \in Intents : Final(i)]_vars
      BY <1>1
<1> QED BY <1>2, RaceInvariance, PTL DEF Spec, ConfirmationIsFinal

-----------------------------------------------------------------------------
(***************************************************************************)
(* A callback that is crediting, or was answered ok, belongs to a          *)
(* confirmed intent; a confirmed intent has a credit, or one under way,    *)
(* or one that failed.                                                     *)
(***************************************************************************)
WorkIsOnConfirmed ==
  \A c \in Callbacks :
     at[c] \in {"readBalance", "writeBalance"} \/ answer[c] = "ok" =>
        intentStatus[IntentOf[c]] = "CONFIRMED_ONCHAIN"

ConfirmedIsCredited ==
  \A i \in Intents :
     intentStatus[i] = "CONFIRMED_ONCHAIN" => i \in broken \/ BeingCredited(i)

CreditInv == TypeOK /\ WorkIsOnConfirmed /\ ConfirmedIsCredited

(***************************************************************************)
(* A step that confirms nothing, ends no crediting and forgets neither a   *)
(* credit nor a failed one keeps the credit invariant.                     *)
(***************************************************************************)
LEMMA NoConfirmKeepsCreditInv ==
  ASSUME CreditInv, TypeOK', credits \subseteq credits', broken \subseteq broken',
         \A i \in Intents : intentStatus'[i] = "CONFIRMED_ONCHAIN"
                               <=> intentStatus[i] = "CONFIRMED_ONCHAIN",
         \A c \in Callbacks :
            /\ at'[c] \in {"readBalance", "writeBalance"} =>
                  at[c] \in {"readBalance", "writeBalance"}
            /\ at[c] \in {"readBalance", "writeBalance"} =>
                  \/ at'[c] \in {"readBalance", "writeBalance"}
                  \/ c \in credits' \/ IntentOf[c] \in broken'
            /\ answer'[c] = "ok" => intentStatus[IntentOf[c]] = "CONFIRMED_ONCHAIN"
  PROVE  CreditInv'
<1> USE RowForType DEF CreditInv
<1>1. WorkIsOnConfirmed'
      BY DEF WorkIsOnConfirmed
<1>2. ConfirmedIsCredited'
  <2> SUFFICES ASSUME NEW i \in Intents, intentStatus'[i] = "CONFIRMED_ONCHAIN",
                      i \notin broken'
               PROVE  BeingCredited(i)'
      BY DEF ConfirmedIsCredited
  <2>1. BeingCredited(i)
        BY DEF ConfirmedIsCredited
  <2>2. PICK c \in Callbacks :
           IntentOf[c] = i /\ (c \in credits \/ at[c] \in {"readBalance", "writeBalance"})
        BY <2>1 DEF BeingCredited
  <2>3. c \in credits' \/ at'[c] \in {"readBalance", "writeBalance"}
        BY <2>2
  <2> QED BY <2>2, <2>3 DEF BeingCredited
<1> QED BY <1>1, <1>2

(***************************************************************************)
(* Every step keeps the credit invariant; the write of the intent is the   *)
(* only one that confirms, and its callback goes on to the credit.         *)
(***************************************************************************)
LEMMA CreditStep ==
  CreditInv /\ [Next]_vars => CreditInv'
<1> SUFFICES ASSUME CreditInv, [Next]_vars PROVE CreditInv'
    OBVIOUS
<1> USE RowForType DEF CreditInv
<1>1. TypeOK'
      BY TypeStep
<1>2. ASSUME NEW i \in Intents, CreatePaymentIntent(i) PROVE CreditInv'
      BY <1>1, <1>2, NoConfirmKeepsCreditInv
         DEF CreatePaymentIntent, WorkIsOnConfirmed, TypeOK
<1>3. ASSUME NEW c \in Callbacks, FindPayment(c) PROVE CreditInv'
  <2>1. /\ at[c] = "idle"
        /\ at' \in {[at EXCEPT ![c] = "confirm"], [at EXCEPT ![c] = "done"]}
        /\ UNCHANGED <<intentStatus, credits, broken>>
        /\ \/ UNCHANGED answer
           \/ \E reply : /\ answer' = [answer EXCEPT ![c] = reply]
                         /\ reply = "ok" => intentStatus[IntentOf[c]] = "CONFIRMED_ONCHAIN"
        BY <1>3 DEF FindPayment, EntersHandler, Moves, Ends, intentVars
  <2>2. \A d \in Callbacks :
           answer'[d] = "ok" => intentStatus[IntentOf[d]] = "CONFIRMED_ONCHAIN"
        BY <2>1 DEF WorkIsOnConfirmed, TypeOK
  <2> QED BY <1>1, <2>1, <2>2, NoConfirmKeepsCreditInv DEF TypeOK
<1>4. ASSUME NEW c \in Callbacks, ConfirmPayment(c) PROVE CreditInv'
  <2>1. CASE UNCHANGED intentVars
    <3>1. /\ at[c] = "confirm" /\ UNCHANGED <<intentStatus, credits, broken>>
          /\ at' = [at EXCEPT ![c] = "readBalance"] =>
                intentStatus[IntentOf[c]] = "CONFIRMED_ONCHAIN"
          /\ at' \in {[at EXCEPT ![c] = "readBalance"], [at EXCEPT ![c] = "done"]}
          /\ answer' \in {answer, [answer EXCEPT ![c] = "error"]}
          BY <1>4, <2>1 DEF ConfirmPayment, Moves, Ends, intentVars, TypeOK
    <3>2. WorkIsOnConfirmed'
          BY <3>1 DEF WorkIsOnConfirmed, TypeOK
    <3>3. ConfirmedIsCredited'
          BY <3>1 DEF ConfirmedIsCredited, BeingCredited, TypeOK
    <3> QED BY <1>1, <3>2, <3>3
  <2>2. CASE ~UNCHANGED intentVars
    <3>1. /\ at[c] = "confirm" /\ at' = [at EXCEPT ![c] = "readBalance"]
          /\ intentStatus' = [intentStatus EXCEPT ![IntentOf[c]] = "CONFIRMED_ONCHAIN"]
          /\ UNCHANGED <<credits, broken, answer>>
          BY <1>4, <2>2 DEF ConfirmPayment, Moves
    <3>2. WorkIsOnConfirmed'
          BY <3>1 DEF WorkIsOnConfirmed, TypeOK
    <3>3. ConfirmedIsCredited'
      <4> SUFFICES ASSUME NEW i \in Intents, intentStatus'[i] = "CONFIRMED_ONCHAIN",
                          i \notin broken
                   PROVE  BeingCredited(i)'
          BY <3>1 DEF ConfirmedIsCredited
      <4>1. CASE i = IntentOf[c]
            BY <3>1, <4>1 DEF BeingCredited, TypeOK
      <4>2. CASE i # IntentOf[c]
            BY <3>1, <4>2 DEF ConfirmedIsCredited, BeingCredited, TypeOK
      <4> QED BY <4>1, <4>2
    <3> QED BY <1>1, <3>2, <3>3
  <2> QED BY <2>1, <2>2
<1>5. ASSUME NEW c \in Callbacks, NEW from \in {"readBalance", "writeBalance"},
             CreditFails(c, from)
      PROVE  CreditInv'
  <2>1. /\ at' = [at EXCEPT ![c] = "done"] /\ answer' = [answer EXCEPT ![c] = "error"]
        /\ UNCHANGED <<intentStatus, credits>>
        /\ broken' = broken \cup {IntentOf[c]}
        BY <1>5 DEF CreditFails, Moves, Ends, intentVars
  <2> QED BY <1>1, <2>1, NoConfirmKeepsCreditInv DEF WorkIsOnConfirmed, TypeOK
<1>6. ASSUME NEW c \in Callbacks, ReadBalance(c) PROVE CreditInv'
  <2>1. CASE CreditFails(c, "readBalance")
        BY <1>5, <2>1
  <2>2. CASE ~CreditFails(c, "readBalance")
    <3>1. /\ at[c] = "readBalance" /\ at' = [at EXCEPT ![c] = "writeBalance"]
          /\ UNCHANGED <<intentStatus, answer, credits, broken>>
          BY <1>6, <2>2 DEF ReadBalance, Moves, intentVars
    <3> QED BY <1>1, <3>1, NoConfirmKeepsCreditInv DEF WorkIsOnConfirmed, TypeOK
  <2> QED BY <2>1, <2>2
<1>7. ASSUME NEW c \in Callbacks, WriteBalance(c) PROVE CreditInv'
  <2>1. CASE CreditFails(c, "writeBalance")
        BY <1>5, <2>1
  <2>2. CASE ~CreditFails(c, "writeBalance")
    <3>1. /\ at[c] = "writeBalance" /\ at' = [at EXCEPT ![c] = "done"]
          /\ answer' = [answer EXCEPT ![c] = "ok"]
          /\ credits' = credits \cup {c} /\ UNCHANGED <<intentStatus, broken>>
          BY <1>7, <2>2 DEF WriteBalance, Moves, Ends, intentVars
    <3> QED BY <1>1, <3>1, NoConfirmKeepsCreditInv DEF WorkIsOnConfirmed, TypeOK
  <2> QED BY <2>1, <2>2
<1>8. ASSUME Crash PROVE CreditInv'
  <2>1. UNCHANGED <<intentStatus, answer, credits>> /\ broken \subseteq broken'
        BY <1>8 DEF Crash, intentVars
  <2>2. \A d \in Callbacks :
           /\ at'[d] \notin {"readBalance", "writeBalance"}
           /\ at[d] \in {"readBalance", "writeBalance"} => IntentOf[d] \in broken'
        BY <1>8 DEF Crash, InHandler
  <2> QED BY <1>1, <2>1, <2>2, NoConfirmKeepsCreditInv DEF WorkIsOnConfirmed
<1>9. CASE UNCHANGED vars
      BY <1>1, <1>9, NoConfirmKeepsCreditInv DEF vars, intentVars, WorkIsOnConfirmed
<1> QED BY <1>2, <1>3, <1>4, <1>6, <1>7, <1>8, <1>9 DEF Next, Handle

(***************************************************************************)
(* An ok answer always has a credit behind it: written, under way, or      *)
(* known to have failed, in every interleaving.                            *)
(***************************************************************************)
THEOREM OkAnswersAreCredited == Spec => []OkMeansCredited
<1>1. Init => CreditInv
      BY TypeInit DEF Init, CreditInv, WorkIsOnConfirmed, ConfirmedIsCredited
<1>2. CreditInv => OkMeansCredited
      BY RowForType DEF CreditInv, WorkIsOnConfirmed, ConfirmedIsCredited, OkMeansCredited
<1> QED BY <1>1, <1>2, CreditStep, PTL DEF Spec

-----------------------------------------------------------------------------
(***************************************************************************)
(* What a callback is about to store is covered by the credits written so  *)
(* far and its own: it read a covered balance, and credits are only ever   *)
(* added to.  A callback is credited once, when its handler ends.          *)
(***************************************************************************)
Credited(b) == {c \in credits : RowFor(c) = b}

CreditsAreDone == \A c \in credits : at[c] = "done"

WritesAreCovered ==
  \A c \in Callbacks :
     at[c] = "writeBalance" =>
        newBalance[c] <= SumFunctionOnSet(AmountOf, Credited(RowFor(c)) \cup {c})

CoverInv ==
  TypeOK /\ IsFiniteSet(credits) /\ CreditsAreDone /\ WritesAreCovered /\ NeverOvercredited

(***************************************************************************)
(* Sums of finitely many credits.                                          *)
(***************************************************************************)
LEMMA CreditedSums ==
  ASSUME credits \subseteq Callbacks, IsFiniteSet(credits), NEW b, NEW c \in Callbacks
  PROVE  /\ IsFiniteSet(Credited(b)) /\ IsFiniteSet(Credited(b) \cup {c})
         /\ SumFunctionOnSet(AmountOf, Credited(b)) \in Nat
         /\ SumFunctionOnSet(AmountOf, Credited(b) \cup {c}) \in Nat
         /\ c \notin credits =>
              SumFunctionOnSet(AmountOf, Credited(b) \cup {c})
                = SumFunctionOnSet(AmountOf, Credited(b)) + AmountOf[c]
<1>1. IsFiniteSet(Credited(b)) /\ Credited(b) \subseteq credits
      BY FS_Subset DEF Credited
<1>2. IsFiniteSet(Credited(b) \cup {c})
      BY <1>1, FS_AddElement
<1>3. \A d \in Credited(b) \cup {c} : AmountOf[d] \in Nat
      BY <1>1, RowForType
<1>4. SumFunctionOnSet(AmountOf, Credited(b)) \in Nat
      BY <1>1, <1>3, SumType
<1>5. SumFunctionOnSet(AmountOf, Credited(b) \cup {c}) \in Nat
      BY <1>2, <1>3, SumType
<1>6. ASSUME c \notin credits
      PROVE  SumFunctionOnSet(AmountOf, Credited(b) \cup {c})
               = SumFunctionOnSet(AmountOf, Credited(b)) + AmountOf[c]
      BY <1>1, <1>3, <1>6, SumAdd
<1> QED BY <1>1, <1>2, <1>4, <1>5, <1>6

(***************************************************************************)
(* A step that credits nothing and computes no new balance keeps the       *)
(* balances covered.                                                       *)
(***************************************************************************)
LEMMA NoCreditKeepsCover ==
  ASSUME CoverInv, TypeOK', UNCHANGED <<balance, credits>>,
         \A c \in Callbacks :
            /\ at'[c] = "writeBalance" => at[c] = "writeBalance" /\ newBalance'[c] = newBalance[c]
            /\ at[c] = "done" => at'[c] = "done"
  PROVE  CoverInv'
<1> USE DEF CoverInv
<1>1. CreditsAreDone'
      BY DEF CreditsAreDone, TypeOK
<1>2. WritesAreCovered'
      BY DEF WritesAreCovered, Credited, RowFor, CompanyFor
<1>3. NeverOvercredited'
      BY DEF NeverOvercredited, RowFor, CompanyFor
<1> QED BY <1>1, <1>2, <1>3

(***************************************************************************)
(* The read computes a covered balance.                                    *)
(***************************************************************************)
LEMMA ReadKeepsCover ==
  ASSUME CoverInv, TypeOK', NEW c \in Callbacks,
         at[c] = "readBalance", at' = [at EXCEPT ![c] = "writeBalance"],
         newBalance' = [newBalance EXCEPT ![c] = balance[RowFor(c)] + AmountOf[c]],
         UNCHANGED <<balance, credits>>
  PROVE  CoverInv'
<1> USE RowForType DEF CoverInv
<1>1. c \notin credits
      BY DEF CreditsAreDone
<1>2. CreditsAreDone'
      BY <1>1 DEF CreditsAreDone, TypeOK
<1>3. NeverOvercredited'
      BY DEF NeverOvercredited, RowFor, CompanyFor
<1>4. WritesAreCovered'
  <2> SUFFICES ASSUME NEW d \in Callbacks, at'[d] = "writeBalance"
               PROVE  newBalance'[d] <= SumFunctionOnSet(AmountOf, Credited(RowFor(d)) \cup {d})
      BY DEF WritesAreCovered, Credited, RowFor, CompanyFor
  <2>1. CASE d # c
        BY <2>1 DEF WritesAreCovered, TypeOK
  <2>2. CASE d = c
    <3>1. balance[RowFor(c)] <= SumFunctionOnSet(AmountOf, Credited(RowFor(c)))
          BY DEF NeverOvercredited, Credited
    <3>2. newBalance'[c] = balance[RowFor(c)] + AmountOf[c] /\ balance[RowFor(c)] \in Nat
          BY DEF TypeOK
    <3>3. /\ SumFunctionOnSet(AmountOf, Credited(RowFor(c))) \in Nat
          /\ SumFunctionOnSet(AmountOf, Credited(RowFor(c)) \cup {c})
                = SumFunctionOnSet(AmountOf, Credited(RowFor(c))) + AmountOf[c]
          BY <1>1, CreditedSums DEF TypeOK
    <3> QED BY <2>2, <3>1, <3>2, <3>3
  <2> QED BY <2>1, <2>2
<1> QED BY <1>2, <1>3, <1>4

(***************************************************************************)
(* The write stores a covered balance and brings the credit that covers    *)
(* it; the other rows, and the writes still to come, keep their cover.     *)
(***************************************************************************)
LEMMA WriteKeepsCover ==
  ASSUME CoverInv, TypeOK', NEW c \in Callbacks,
         at[c] = "writeBalance", at' = [at EXCEPT ![c] = "done"],
         balance' = [balance EXCEPT ![RowFor(c)] = newBalance[c]],
         credits' = credits \cup {c},
         \A d \in Callbacks \ {c} : newBalance'[d] = newBalance[d]
  PROVE  CoverInv'
<1> USE RowForType DEF CoverInv
<1>1. IsFiniteSet(credits')
      BY FS_AddElement
<1>2. CreditsAreDone'
      BY DEF CreditsAreDone, TypeOK
<1>3. ASSUME NEW b PROVE Credited(b)' = IF b = RowFor(c) THEN Credited(b) \cup {c} ELSE Credited(b)
      BY DEF Credited, RowFor, CompanyFor
<1>4. NeverOvercredited'
  <2> SUFFICES ASSUME NEW b \in Rows
               PROVE  balance'[b] <= SumFunctionOnSet(AmountOf, Credited(b)')
      BY DEF NeverOvercredited, Credited, RowFor, CompanyFor
  <2>1. CASE b = RowFor(c)
        BY <1>3, <2>1 DEF WritesAreCovered, TypeOK
  <2>2. CASE b # RowFor(c)
        BY <1>3, <2>2 DEF NeverOvercredited, Credited, TypeOK
  <2> QED BY <2>1, <2>2
<1>5. WritesAreCovered'
  <2> SUFFICES ASSUME NEW d \in Callbacks, at'[d] = "writeBalance"
               PROVE  newBalance'[d] <= SumFunctionOnSet(AmountOf, Credited(RowFor(d))' \cup {d})
      BY DEF WritesAreCovered, Credited, RowFor, CompanyFor
  <2> DEFINE old == Credited(RowFor(d)) \cup {d}
             new == Credited(RowFor(d))' \cup {d}
  <2>1. d # c /\ at[d] = "writeBalance" /\ newBalance'[d] = newBalance[d]
        BY DEF TypeOK
  <2>2. newBalance[d] <= SumFunctionOnSet(AmountOf, old)
        BY <2>1 DEF WritesAreCovered
  <2>3. old \in SUBSET new /\ new \subseteq Callbacks
        BY <1>3 DEF Credited, TypeOK
  <2>4. IsFiniteSet(new)
    <3>1. IsFiniteSet(Credited(RowFor(d)) \cup {d}) /\ IsFiniteSet((Credited(RowFor(d)) \cup {d}) \cup {c})
          BY CreditedSums, FS_AddElement DEF TypeOK
    <3>2. new \in {old, old \cup {c}}
          BY <1>3
    <3> QED BY <3>1, <3>2
  <2>5. SumFunctionOnSet(AmountOf, old) <= SumFunctionOnSet(AmountOf, new)
    <3> HIDE DEF old, new
    <3> QED BY <2>3, <2>4, SumSubset
  <2>6. SumFunctionOnSet(AmountOf, old) \in Nat /\ SumFunctionOnSet(AmountOf, new) \in Nat
    <3>1. IsFiniteSet(old) /\ \A y \in new : AmountOf[y] \in Nat
          BY <2>3, <2>4, FS_Subset
    <3> HIDE DEF old, new
    <3> QED BY <2>3, <2>4, <3>1, SumType
  <2>7. newBalance[d] \in Nat
        BY DEF TypeOK
  <2> HIDE DEF old, new
  <2> QED BY <2>1, <2>2, <2>5, <2>6, <2>7 DEF new
<1> QED BY <1>1, <1>2, <1>4, <1>5

(***************************************************************************)
(* Every step keeps the balances covered by their credits.                 *)
(***************************************************************************)
LEMMA CoverStep ==
  CoverInv /\ [Next]_vars => CoverInv'
<1> SUFFICES ASSUME CoverInv, [Next]_vars PROVE CoverInv'
    OBVIOUS
<1>1. TypeOK /\ TypeOK'
      BY TypeStep DEF CoverInv
<1>2. ASSUME NEW i \in Intents, CreatePaymentIntent(i) PROVE CoverInv'
      BY <1>1, <1>2, NoCreditKeepsCover DEF CreatePaymentIntent
<1>3. ASSUME NEW c \in Callbacks, FindPayment(c) PROVE CoverInv'
  <2>1. /\ UNCHANGED <<balance, credits>>
        /\ at[c] = "idle" /\ at' \in {[at EXCEPT ![c] = "confirm"], [at EXCEPT ![c] = "done"]}
        /\ newBalance' \in {newBalance, [newBalance EXCEPT ![c] = 0]}
        BY <1>3 DEF FindPayment, EntersHandler, Moves, Ends
  <2> QED BY <1>1, <2>1, NoCreditKeepsCover DEF TypeOK
<1>4. ASSUME NEW c \in Callbacks, ConfirmPayment(c) PROVE CoverInv'
  <2>1. /\ UNCHANGED <<balance, credits>>
        /\ at[c] = "confirm" /\ at' \in {[at EXCEPT ![c] = "readBalance"], [at EXCEPT ![c] = "done"]}
        /\ newBalance' \in {newBalance, [newBalance EXCEPT ![c] = 0]}
        BY <1>4 DEF ConfirmPayment, Moves, Ends
  <2> QED BY <1>1, <2>1, NoCreditKeepsCover DEF TypeOK
<1>5. ASSUME NEW c \in Callbacks, NEW from \in {"readBalance", "writeBalance"},
             CreditFails(c, from)
      PROVE  CoverInv'
  <2>1. /\ UNCHANGED <<balance, credits>>
        /\ at[c] = from /\ at' = [at EXCEPT ![c] = "done"]
        /\ newBalance' = [newBalance EXCEPT ![c] = 0]
        BY <1>5 DEF CreditFails, Moves, Ends
  <2> QED BY <1>1, <2>1, NoCreditKeepsCover DEF TypeOK
<1>6. ASSUME NEW c \in Callbacks, ReadBalance(c) PROVE CoverInv'
      BY <1>1, <1>5, <1>6, ReadKeepsCover DEF ReadBalance, Moves
<1>7. ASSUME NEW c \in Callbacks, WriteBalance(c) PROVE CoverInv'
  <2>1. CASE CreditFails(c, "writeBalance")
        BY <1>5, <2>1
  <2>2. CASE ~CreditFails(c, "writeBalance")
    <3>1. /\ at[c] = "writeBalance" /\ at' = [at EXCEPT ![c] = "done"]
          /\ balance' = [balance EXCEPT ![RowFor(c)] = newBalance[c]]
          /\ credits' = credits \cup {c}
          /\ newBalance' = [newBalance EXCEPT ![c] = 0]
          BY <1>7, <2>2 DEF WriteBalance, Moves, Ends
    <3> QED BY <1>1, <3>1, WriteKeepsCover DEF TypeOK
  <2> QED BY <2>1, <2>2
<1>8. ASSUME Crash PROVE CoverInv'
  <2>1. UNCHANGED <<balance, credits>>
        BY <1>8 DEF Crash
  <2>2. \A c \in Callbacks :
           at'[c] # "writeBalance" /\ (at[c] = "done" => at'[c] = "done")
        BY <1>1, <1>8 DEF Crash, InHandler
  <2> QED BY <1>1, <2>1, <2>2, NoCreditKeepsCover
<1>9. CASE UNCHANGED vars
      BY <1>1, <1>9, NoCreditKeepsCover DEF vars
<1> QED BY <1>2, <1>3, <1>4, <1>6, <1>7, <1>8, <1>9 DEF Next, Handle

(***************************************************************************)
(* Nothing is credited and every row is empty at first.                    *)
(***************************************************************************)
LEMMA CoverInit == Init => CoverInv
<1> SUFFICES ASSUME Init PROVE CoverInv
    OBVIOUS
<1>1. TypeOK /\ IsFiniteSet(credits) /\ CreditsAreDone /\ WritesAreCovered
      BY TypeInit, FS_EmptySet DEF Init, CreditsAreDone, WritesAreCovered
<1>2. NeverOvercredited
  <2> SUFFICES ASSUME NEW b \in Rows
               PROVE  balance[b] <= SumFunctionOnSet(AmountOf, {c \in credits : RowFor(c) = b})
      BY DEF NeverOvercredited
  <2>1. {c \in credits : RowFor(c) = b} = {} /\ balance[b] = 0
        BY DEF Init
  <2> QED BY <2>1, SumEmpty
<1> QED BY <1>1, <1>2 DEF CoverInv

(***************************************************************************)
(* The cover of the balances holds in every reachable state.               *)
(***************************************************************************)
THEOREM CoverInvariance == Spec => []CoverInv
BY CoverInit, CoverStep, PTL DEF Spec

(***************************************************************************)
(* Whatever races, repeats or fails, a row never holds more than the       *)
(* credits that were written to it.                                        *)
(***************************************************************************)
THEOREM CreditsAreNeverInvented == Spec => []NeverOvercredited
BY CoverInvariance, PTL DEF CoverInv

-----------------------------------------------------------------------------
(***************************************************************************)
(* The books of a company that neither raced nor broke: while no callback  *)
(* is crediting it, its rows hold together what its confirmed intents are  *)
(* worth; a callback that has confirmed lacks its own amount, and one that *)
(* has read its row is about to store what makes it right.                 *)
(***************************************************************************)
Crediting(c) == at[c] \in {"readBalance", "writeBalance"}

BooksOf(k) ==
  /\ (\A c \in Callbacks : CompanyFor(c) = k => ~Crediting(c)) => Total(k) = Confirmed(k)
  /\ \A c \in Callbacks :
        CompanyFor(c) = k =>
           /\ Crediting(c) => Total(k) + AmountOf[c] = Confirmed(k)
           /\ at[c] = "writeBalance" => newBalance[c] = balance[RowFor(c)] + AmountOf[c]

SerialBooks == \A k \in Companies \ raced : ~Broken(k) => BooksOf(k)

ConfirmedIntents(k) ==
  {i \in Intents : intentStatus[i] = "CONFIRMED_ONCHAIN" /\ CompanyOf[i] = k}

FinitelyConfirmed == \A k \in Companies : IsFiniteSet(ConfirmedIntents(k))

BooksInv == RaceInv /\ FinitelyConfirmed /\ SerialBooks

(***************************************************************************)
(* A step that confirms nothing, writes no balance and lets no callback    *)
(* start or go on with its credit keeps the books, if callbacks that stop  *)
(* crediting leave a broken intent.                                        *)
(***************************************************************************)
LEMMA NoCreditKeepsBooks ==
  ASSUME BooksInv, RaceInv', UNCHANGED <<intentAmount, balance>>,
         \A i \in Intents : intentStatus'[i] = "CONFIRMED_ONCHAIN"
                               <=> intentStatus[i] = "CONFIRMED_ONCHAIN",
         raced \subseteq raced', broken \subseteq broken',
         \A c \in Callbacks :
            /\ at'[c] = "readBalance" => at[c] = "readBalance"
            /\ at'[c] = "writeBalance" => at[c] = "writeBalance" /\ newBalance'[c] = newBalance[c]
            /\ Crediting(c) => Crediting(c)' \/ IntentOf[c] \in broken'
  PROVE  BooksInv'
<1> USE RowForType DEF BooksInv
<1>1. ASSUME NEW k PROVE ConfirmedIntents(k)' = ConfirmedIntents(k)
      BY DEF ConfirmedIntents
<1>2. FinitelyConfirmed'
      BY <1>1 DEF FinitelyConfirmed
<1>3. SerialBooks'
  <2> SUFFICES ASSUME NEW k \in Companies, k \notin raced', ~Broken(k)' PROVE BooksOf(k)'
      BY DEF SerialBooks
  <2>0. ~Broken(k)
        BY DEF Broken
  <2>1. BooksOf(k)
        BY <2>0 DEF SerialBooks
  <2>2. Confirmed(k)' = Confirmed(k) /\ Total(k)' = Total(k)
        BY <1>1 DEF Confirmed, ConfirmedIntents, Total
  <2>3. (\A c \in Callbacks : CompanyFor(c)' = k => ~Crediting(c)') => Total(k)' = Confirmed(k)'
    <3> SUFFICES ASSUME \A c \in Callbacks : CompanyFor(c) = k => ~Crediting(c)'
                 PROVE  Total(k) = Confirmed(k)
        BY <2>2 DEF CompanyFor
    <3>1. \A c \in Callbacks : CompanyFor(c) = k => ~Crediting(c)
          BY DEF Broken, CompanyFor
    <3> QED BY <2>1, <3>1 DEF BooksOf
  <2>4. ASSUME NEW c \in Callbacks, CompanyFor(c)' = k
        PROVE  /\ Crediting(c)' => Total(k)' + AmountOf[c] = Confirmed(k)'
               /\ at'[c] = "writeBalance" => newBalance'[c] = balance'[RowFor(c)] + AmountOf[c]
    <3>1. CompanyFor(c) = k /\ (Crediting(c)' => Crediting(c))
          BY <2>4 DEF CompanyFor, Crediting
    <3> QED BY <2>1, <2>2, <3>1 DEF BooksOf
  <2>5. \A c : RowFor(c)' = RowFor(c)
        BY DEF RowFor, CompanyFor
  <2> QED BY <2>3, <2>4, <2>5 DEF BooksOf
<1> QED BY <1>2, <1>3

(***************************************************************************)
(* At a company without races, the callback in the handler is alone.       *)
(***************************************************************************)
LEMMA AloneAtCompany ==
  ASSUME RaceInv, NEW c \in Callbacks, at[c] \in InHandler, CompanyFor(c) \notin raced,
         NEW d \in Callbacks, d # c, CompanyFor(d) = CompanyFor(c)
  PROVE  at[d] \notin InHandler
BY DEF RaceInv, AloneUnlessRaced

(***************************************************************************)
(* The write of an intent makes its company's rows owe the callback's      *)
(* amount.                                                                 *)
(***************************************************************************)
LEMMA ConfirmKeepsBooks ==
  ASSUME BooksInv, RaceInv', NEW c \in Callbacks,
         at[c] = "confirm", at' = [at EXCEPT ![c] = "readBalance"],
         intentStatus' = [intentStatus EXCEPT ![IntentOf[c]] = "CONFIRMED_ONCHAIN"],
         intentAmount' = [intentAmount EXCEPT ![IntentOf[c]] = AmountOf[c]],
         UNCHANGED <<balance, newBalance, raced, broken>>
  PROVE  BooksInv'
<1> USE RowForType DEF BooksInv
<1>0. TypeOK
      BY DEF RaceInv
<1>1. \A k \in Companies :
         ConfirmedIntents(k)' = IF k = CompanyFor(c) THEN ConfirmedIntents(k) \cup {IntentOf[c]}
                                                     ELSE ConfirmedIntents(k)
      BY <1>0 DEF ConfirmedIntents, CompanyFor, TypeOK
<1>2. FinitelyConfirmed'
      BY <1>1, FS_AddElement DEF FinitelyConfirmed
<1>3. ASSUME NEW k \in Companies, k # CompanyFor(c) PROVE Confirmed(k)' = Confirmed(k)
  <2>1. \A i \in ConfirmedIntents(k) : intentAmount[i] \in Nat /\ intentAmount'[i] = intentAmount[i]
        BY <1>0, <1>3 DEF ConfirmedIntents, CompanyFor, TypeOK
  <2>2. SumFunctionOnSet(intentAmount', ConfirmedIntents(k))
          = SumFunctionOnSet(intentAmount, ConfirmedIntents(k))
        BY <2>1, SumSame DEF FinitelyConfirmed
  <2> QED BY <1>1, <1>3, <2>2 DEF Confirmed, ConfirmedIntents
<1>4. ASSUME CompanyFor(c) \notin raced
      PROVE  /\ Confirmed(CompanyFor(c)) \in Nat
             /\ Confirmed(CompanyFor(c))' = Confirmed(CompanyFor(c)) + AmountOf[c]
  <2> DEFINE S == ConfirmedIntents(CompanyFor(c))
             i == IntentOf[c]
  <2>0. i \notin contested
        BY <1>4 DEF RaceInv, ContestIsRace, CompanyFor
  <2>1. i \notin S
        BY <2>0 DEF RaceInv, ConfirmSeesPending, ConfirmedIntents
  <2>2. IsFiniteSet(S)
        BY DEF FinitelyConfirmed
  <2>3. \A j \in S : intentAmount[j] \in Nat /\ intentAmount'[j] = intentAmount[j]
        BY <1>0, <2>1 DEF ConfirmedIntents, TypeOK
  <2>4. intentAmount'[i] = AmountOf[c] /\ AmountOf[c] \in Nat
        BY <1>0 DEF TypeOK
  <2>5. ConfirmedIntents(CompanyFor(c))' = S \cup {i}
        BY <1>1
  <2>6. Confirmed(CompanyFor(c)) = SumFunctionOnSet(intentAmount, S)
        BY DEF Confirmed, ConfirmedIntents
  <2>7. Confirmed(CompanyFor(c))' = SumFunctionOnSet(intentAmount', S \cup {i})
    <3>1. CompanyFor(c)' = CompanyFor(c)
          BY DEF CompanyFor
    <3> QED BY <2>5, <3>1 DEF Confirmed, ConfirmedIntents
  <2> HIDE DEF S, i
  <2>8. SumFunctionOnSet(intentAmount', S) = SumFunctionOnSet(intentAmount, S)
        BY <2>2, <2>3, SumSame
  <2>9. SumFunctionOnSet(intentAmount', S \cup {i}) = SumFunctionOnSet(intentAmount', S) + intentAmount'[i]
    <3>1. \A j \in S \cup {i} : intentAmount'[j] \in Nat
          BY <2>3, <2>4
    <3> QED BY <2>1, <2>2, <3>1, SumAdd
  <2>10. SumFunctionOnSet(intentAmount, S) \in Nat
        BY <2>2, <2>3, SumType
  <2> QED BY <2>4, <2>6, <2>7, <2>8, <2>9, <2>10
<1>5. SerialBooks'
  <2> SUFFICES ASSUME NEW k \in Companies, k \notin raced, ~Broken(k) PROVE BooksOf(k)'
      BY DEF SerialBooks, Broken
  <2>1. BooksOf(k) /\ Total(k)' = Total(k)
        BY DEF SerialBooks, Total
  <2>2. CASE k # CompanyFor(c)
    <3>1. \A d \in Callbacks : CompanyFor(d) = k => at'[d] = at[d]
          BY <1>0, <2>2 DEF TypeOK
    <3>2. (\A d \in Callbacks : CompanyFor(d)' = k => ~Crediting(d)') => Total(k)' = Confirmed(k)'
          BY <1>3, <2>1, <2>2, <3>1 DEF BooksOf, Crediting, CompanyFor
    <3>3. ASSUME NEW d \in Callbacks, CompanyFor(d)' = k
          PROVE  /\ Crediting(d)' => Total(k)' + AmountOf[d] = Confirmed(k)'
                 /\ at'[d] = "writeBalance" => newBalance'[d] = balance'[RowFor(d)'] + AmountOf[d]
          BY <1>3, <2>1, <2>2, <3>1, <3>3 DEF BooksOf, Crediting, CompanyFor, RowFor
    <3> QED BY <3>2, <3>3 DEF BooksOf
  <2>3. CASE k = CompanyFor(c)
    <3>1. \A d \in Callbacks \ {c} : CompanyFor(d) = k => at[d] \notin InHandler /\ at'[d] = at[d]
          BY <1>0, <2>3, AloneAtCompany DEF InHandler, TypeOK
    <3>2. at'[c] = "readBalance"
          BY <1>0 DEF TypeOK
    <3>3. \A d \in Callbacks : CompanyFor(d) = k => ~Crediting(d)
          BY <3>1 DEF Crediting, InHandler
    <3>4. Total(k) = Confirmed(k)
          BY <2>1, <3>3 DEF BooksOf
    <3>5. Total(k)' + AmountOf[c] = Confirmed(k)'
          BY <1>4, <2>1, <2>3, <3>4
    <3>6. \A d \in Callbacks : CompanyFor(d)' = k /\ Crediting(d)' => d = c
          BY <3>1 DEF Crediting, InHandler, CompanyFor
    <3> QED BY <2>3, <3>2, <3>5, <3>6 DEF BooksOf, Crediting, CompanyFor
  <2> QED BY <2>2, <2>3
<1> QED BY <1>2, <1>5

(***************************************************************************)
(* Writing one row moves its company's total by as much, and no other's.   *)
(***************************************************************************)
LEMMA WriteMovesTotal ==
  ASSUME TypeOK, TypeOK', NEW c \in Callbacks, NEW v \in Nat,
         balance' = [balance EXCEPT ![RowFor(c)] = v]
  PROVE  /\ \A k \in Companies \ {CompanyFor(c)} : Total(k)' = Total(k)
         /\ Total(CompanyFor(c)) \in Nat
         /\ Total(CompanyFor(c))' \in Nat
         /\ Total(CompanyFor(c))' + balance[RowFor(c)] = Total(CompanyFor(c)) + v
<1>1. \A k : IsFiniteSet({k} \X Tokens)
      BY IntentAssumption, FS_Singleton, FS_Product
<1>2. /\ CompanyFor(c) \in Companies /\ RowFor(c) \in {CompanyFor(c)} \X Tokens
      /\ \A b \in Rows : balance[b] \in Nat /\ balance'[b] \in Nat
      /\ balance'[RowFor(c)] = v
      /\ \A b \in Rows \ {RowFor(c)} : balance'[b] = balance[b]
      BY RowForType, RowOfCompany DEF TypeOK
<1>3. ASSUME NEW k \in Companies, k # CompanyFor(c) PROVE Total(k)' = Total(k)
  <2> DEFINE S == {k} \X Tokens
  <2>1. \A b \in S : b \in Rows /\ b # RowFor(c)
        BY <1>3 DEF Rows, RowFor
  <2>2. \A b \in S : balance[b] \in Nat /\ balance'[b] = balance[b]
        BY <1>2, <2>1
  <2>3. IsFiniteSet(S) /\ Total(k) = SumFunctionOnSet(balance, S)
                      /\ Total(k)' = SumFunctionOnSet(balance', S)
        BY <1>1 DEF Total
  <2> HIDE DEF S
  <2>4. SumFunctionOnSet(balance', S) = SumFunctionOnSet(balance, S)
        BY <2>2, <2>3, SumSame
  <2> QED BY <2>3, <2>4
<1> DEFINE k == CompanyFor(c)
           r == RowFor(c)
           S == {k} \X Tokens
<1>4. r \in S /\ S \subseteq Rows
      BY <1>2 DEF Rows
<1>5. \A b \in S : balance[b] \in Nat /\ balance'[b] \in Nat
      BY <1>2, <1>4
<1>6. \A b \in S \ {r} : balance'[b] = balance[b]
      BY <1>2, <1>4
<1>7. /\ IsFiniteSet(S) /\ balance'[r] = v
      /\ Total(k) = SumFunctionOnSet(balance, S) /\ Total(k)' = SumFunctionOnSet(balance', S)
      BY <1>1, <1>2 DEF Total, CompanyFor
<1>8. ASSUME NEW j \in Companies \ {k} PROVE Total(j)' = Total(j)
      BY <1>3
<1> HIDE DEF S, r, k
<1>9. SumFunctionOnSet(balance', S) + balance[r] = SumFunctionOnSet(balance, S) + balance'[r]
  <2>1. r \in S /\ IsFiniteSet(S)
        BY <1>4, <1>7
  <2> QED BY ONLY <1>5, <1>6, <2>1, SumChange
<1>10. SumFunctionOnSet(balance, S) \in Nat /\ SumFunctionOnSet(balance', S) \in Nat
      BY <1>5, <1>7, SumType
<1> QED BY <1>7, <1>8, <1>9, <1>10 DEF k, r

(***************************************************************************)
(* The read of the balance and its write settle what the company's rows    *)
(* owe.                                                                    *)
(***************************************************************************)
LEMMA CreditKeepsBooks ==
  ASSUME BooksInv, RaceInv', NEW c \in Callbacks,
         \/ /\ at[c] = "readBalance" /\ at' = [at EXCEPT ![c] = "writeBalance"]
            /\ newBalance' = [newBalance EXCEPT ![c] = balance[RowFor(c)] + AmountOf[c]]
            /\ UNCHANGED balance
         \/ /\ at[c] = "writeBalance" /\ at' = [at EXCEPT ![c] = "done"]
            /\ balance' = [balance EXCEPT ![RowFor(c)] = newBalance[c]]
            /\ newBalance' = [newBalance EXCEPT ![c] = 0],
         UNCHANGED <<intentStatus, intentAmount, raced, broken>>
  PROVE  BooksInv'
<1> USE RowForType DEF BooksInv
<1>0. TypeOK /\ TypeOK'
      BY DEF RaceInv
<1>1. FinitelyConfirmed' /\ \A k \in Companies : Confirmed(k)' = Confirmed(k)
      BY DEF FinitelyConfirmed, ConfirmedIntents, Confirmed
<1>2. SerialBooks'
  <2> SUFFICES ASSUME NEW k \in Companies, k \notin raced, ~Broken(k) PROVE BooksOf(k)'
      BY DEF SerialBooks, Broken
  <2>1. BooksOf(k)
        BY DEF SerialBooks
  <2>2. CASE k # CompanyFor(c)
    <3>1. \A d \in Callbacks : CompanyFor(d) = k =>
             /\ at'[d] = at[d] /\ newBalance'[d] = newBalance[d]
             /\ RowFor(d) # RowFor(c) /\ balance'[RowFor(d)] = balance[RowFor(d)]
          BY <1>0, <2>2 DEF TypeOK, RowFor
    <3>2. Total(k)' = Total(k)
      <4>1. CASE UNCHANGED balance
            BY <4>1 DEF Total
      <4>2. CASE balance' = [balance EXCEPT ![RowFor(c)] = newBalance[c]]
            BY <1>0, <2>2, <4>2, WriteMovesTotal DEF TypeOK
      <4> QED BY <4>1, <4>2
    <3>3. (\A d \in Callbacks : CompanyFor(d)' = k => ~Crediting(d)') => Total(k)' = Confirmed(k)'
          BY <1>1, <2>1, <3>1, <3>2 DEF BooksOf, Crediting, CompanyFor
    <3>4. ASSUME NEW d \in Callbacks, CompanyFor(d)' = k
          PROVE  /\ Crediting(d)' => Total(k)' + AmountOf[d] = Confirmed(k)'
                 /\ at'[d] = "writeBalance" => newBalance'[d] = balance'[RowFor(d)'] + AmountOf[d]
      <4>1. CompanyFor(d) = k /\ RowFor(d)' = RowFor(d) /\ (Crediting(d)' <=> Crediting(d))
            BY <3>1, <3>4 DEF CompanyFor, RowFor, Crediting
      <4> QED BY <1>1, <2>1, <3>1, <3>2, <4>1 DEF BooksOf
    <3> QED BY <3>3, <3>4 DEF BooksOf
  <2>3. CASE k = CompanyFor(c)
    <3>1. \A d \in Callbacks \ {c} : CompanyFor(d) = k => at[d] \notin InHandler /\ at'[d] = at[d]
          BY <1>0, <2>3, AloneAtCompany DEF InHandler, TypeOK
    <3>2. \A d \in Callbacks : CompanyFor(d)' = k /\ Crediting(d)' => d = c
          BY <3>1 DEF Crediting, InHandler, CompanyFor
    <3>3. Total(k) + AmountOf[c] = Confirmed(k)
          BY <2>1, <2>3 DEF BooksOf, Crediting
    <3>4. CASE at[c] = "readBalance"
      <4>1. /\ at'[c] = "writeBalance" /\ Total(k)' = Total(k)
            /\ newBalance'[c] = balance'[RowFor(c)'] + AmountOf[c]
            BY <1>0, <3>4 DEF TypeOK, Total, RowFor, CompanyFor
      <4> QED BY <1>1, <2>3, <3>2, <3>3, <4>1 DEF BooksOf, Crediting, CompanyFor
    <3>5. CASE at[c] = "writeBalance"
      <4>1. at'[c] = "done" /\ newBalance[c] = balance[RowFor(c)] + AmountOf[c]
            BY <1>0, <2>1, <2>3, <3>5 DEF BooksOf, TypeOK
      <4>2. /\ balance[RowFor(c)] \in Nat /\ newBalance[c] \in Nat
            /\ balance' = [balance EXCEPT ![RowFor(c)] = newBalance[c]]
            BY <1>0, <3>5 DEF TypeOK
      <4>3. /\ Total(k) \in Nat /\ Total(k)' \in Nat
            /\ Total(k)' + balance[RowFor(c)] = Total(k) + newBalance[c]
            BY <1>0, <2>3, <4>2, WriteMovesTotal DEF CompanyFor, Total
      <4>4. Total(k)' = Confirmed(k)'
            BY <1>1, <3>3, <4>1, <4>2, <4>3
      <4>5. \A d \in Callbacks : CompanyFor(d)' = k => ~Crediting(d)'
            BY <3>2, <4>1 DEF Crediting
      <4> QED BY <4>4, <4>5 DEF BooksOf, Crediting
    <3> QED BY <3>4, <3>5
  <2> QED BY <2>2, <2>3
<1> QED BY <1>1, <1>2

(***************************************************************************)
(* Every step keeps the books of companies that neither raced nor broke.   *)
(***************************************************************************)
LEMMA BooksStep ==
  BooksInv /\ [Next]_vars => BooksInv'
<1> SUFFICES ASSUME BooksInv, [Next]_vars PROVE BooksInv'
    OBVIOUS
<1>1. TypeOK /\ RaceInv /\ RaceInv'
      BY RaceStep DEF BooksInv, RaceInv
<1>2. ASSUME NEW i \in Intents, CreatePaymentIntent(i) PROVE BooksInv'
  <2>1. /\ UNCHANGED <<intentAmount, balance, raced, broken, at, newBalance>>
        /\ \A j \in Intents : intentStatus'[j] = "CONFIRMED_ONCHAIN"
                                 <=> intentStatus[j] = "CONFIRMED_ONCHAIN"
        BY <1>1, <1>2 DEF CreatePaymentIntent, TypeOK, races
  <2> QED BY <1>1, <2>1, NoCreditKeepsBooks DEF Crediting
<1>3. ASSUME NEW c \in Callbacks, FindPayment(c) PROVE BooksInv'
  <2>1. /\ UNCHANGED <<intentStatus, intentAmount, balance, broken>> /\ raced \subseteq raced'
        /\ at[c] = "idle" /\ at' \in {[at EXCEPT ![c] = "confirm"], [at EXCEPT ![c] = "done"]}
        /\ newBalance' \in {newBalance, [newBalance EXCEPT ![c] = 0]}
        BY <1>3 DEF FindPayment, EntersHandler, Moves, Ends, intentVars, races
  <2> QED BY <1>1, <2>1, NoCreditKeepsBooks DEF TypeOK, Crediting
<1>4. ASSUME NEW c \in Callbacks, ConfirmPayment(c) PROVE BooksInv'
  <2>1. CASE UNCHANGED intentVars /\ Ends(c, "confirm", "error")
    <3>1. /\ UNCHANGED <<intentStatus, intentAmount, balance, broken, raced>>
          /\ at[c] = "confirm" /\ at' = [at EXCEPT ![c] = "done"]
          /\ newBalance' = [newBalance EXCEPT ![c] = 0]
          BY <1>4, <2>1 DEF ConfirmPayment, Moves, Ends, intentVars, races
    <3> QED BY <1>1, <3>1, NoCreditKeepsBooks DEF TypeOK, Crediting
  <2>2. CASE ~(UNCHANGED intentVars /\ Ends(c, "confirm", "error"))
        BY <1>1, <1>4, <2>2, ConfirmKeepsBooks DEF ConfirmPayment, Moves, races
  <2> QED BY <2>1, <2>2
<1>5. ASSUME NEW c \in Callbacks, NEW from \in {"readBalance", "writeBalance"},
             CreditFails(c, from)
      PROVE  BooksInv'
  <2>1. /\ UNCHANGED <<intentStatus, intentAmount, balance, raced>>
        /\ broken' = broken \cup {IntentOf[c]}
        /\ at[c] = from /\ at' = [at EXCEPT ![c] = "done"]
        /\ newBalance' = [newBalance EXCEPT ![c] = 0]
        BY <1>5 DEF CreditFails, Moves, Ends, intentVars, races
  <2> QED BY <1>1, <2>1, NoCreditKeepsBooks DEF TypeOK, Crediting
<1>6. ASSUME NEW c \in Callbacks, ReadBalance(c) PROVE BooksInv'
      BY <1>1, <1>5, <1>6, CreditKeepsBooks DEF ReadBalance, Moves, intentVars, races
<1>7. ASSUME NEW c \in Callbacks, WriteBalance(c) PROVE BooksInv'
      BY <1>1, <1>5, <1>7, CreditKeepsBooks DEF WriteBalance, Moves, Ends, intentVars, races
<1>8. ASSUME Crash PROVE BooksInv'
  <2>1. /\ UNCHANGED <<intentStatus, intentAmount, balance, raced>> /\ broken \subseteq broken'
        BY <1>8 DEF Crash, intentVars, races
  <2>2. \A c \in Callbacks :
           /\ at'[c] \notin {"readBalance", "writeBalance"}
           /\ Crediting(c) => IntentOf[c] \in broken'
        BY <1>1, <1>8 DEF Crash, InHandler, Crediting
  <2> QED BY <1>1, <2>1, <2>2, NoCreditKeepsBooks
<1>9. CASE UNCHANGED vars
      BY <1>1, <1>9, NoCreditKeepsBooks DEF vars, intentVars, races, Crediting
<1> QED BY <1>2, <1>3, <1>4, <1>6, <1>7, <1>8, <1>9 DEF Next, Handle

(***************************************************************************)
(* The books are kept in every reachable state.                            *)
(***************************************************************************)
THEOREM BooksInvariance == Spec => []BooksInv
<1>1. Init => BooksInv
  <2> SUFFICES ASSUME Init PROVE BooksInv
      OBVIOUS
  <2>1. RaceInv
        BY RaceInit
  <2>2. \A k \in Companies : ConfirmedIntents(k) = {}
        BY DEF Init, ConfirmedIntents
  <2>3. FinitelyConfirmed
        BY <2>2, FS_EmptySet DEF FinitelyConfirmed
  <2>4. \A k \in Companies : Confirmed(k) = 0 /\ Total(k) = 0
    <3> SUFFICES ASSUME NEW k \in Companies PROVE Confirmed(k) = 0 /\ Total(k) = 0
        OBVIOUS
    <3>1. Confirmed(k) = 0
          BY <2>2, SumEmpty DEF Confirmed, ConfirmedIntents
    <3>2. IsFiniteSet({k} \X Tokens) /\ \A b \in {k} \X Tokens : balance[b] = 0
          BY IntentAssumption, FS_Singleton, FS_Product DEF Init, Rows
    <3> QED BY <3>1, <3>2, SumZero DEF Total
  <2>5. SerialBooks
        BY <2>4 DEF Init, SerialBooks, BooksOf, Crediting
  <2> QED BY <2>1, <2>3, <2>5 DEF BooksInv
<1> QED BY <1>1, BooksStep, PTL DEF Spec

(***************************************************************************)
(* The rows of a settled company that neither raced nor broke hold         *)
(* together exactly what its confirmed intents are worth, whatever tokens  *)
(* its callbacks name.                                                     *)
(***************************************************************************)
THEOREM SerialRowsAreExact == Spec => []SerialCreditsExact
<1>1. BooksInv => SerialCreditsExact
      BY DEF BooksInv, SerialBooks, BooksOf, SerialCreditsExact, Settled, Crediting, InHandler
<1> QED BY <1>1, BooksInvariance, PTL
=============================================================================
