--------------------------- MODULE PaymentIntents ---------------------------
(***************************************************************************)
(* services/paymentIntentService.ts behind its two routes: a merchant      *)
(* creates a payment intent (POST /merchant/payments), and a callback      *)
(* (POST /internal/x402/callback) confirms it and credits the company.     *)
(*                                                                         *)
(* confirmPayment reads the intent, writes it, reads the company's balance *)
(* row and writes it: four database calls with no transaction around them, *)
(* between which other callbacks run.  A callback may be delivered more    *)
(* than once; every delivery is a callback of its own.  The row it credits *)
(* is that of the intent's company and of the token the callback itself    *)
(* names, which nothing compares with the token of the intent.             *)
(***************************************************************************)
EXTENDS Naturals, FiniteSets, Functions

CONSTANTS
  Intents,    \* Payment rows
  Callbacks,  \* deliveries of the callback
  Companies,  \* the companies that are paid
  Tokens,     \* the token symbols that callbacks name
  CompanyOf,  \* CompanyOf[i]: the company intent i was created for
  IntentOf,   \* IntentOf[c]: the intent callback c confirms
  TokenOf,    \* TokenOf[c]: the token callback c names
  TxOf,       \* TxOf[c]: the transaction callback c reports
  AmountOf,   \* AmountOf[c]: the amount callback c reports
  NoTx,       \* txHash is null
  DbMayFail,  \* the callbacks whose database calls may throw
  MayCrash    \* the backend process may crash

ASSUME IntentAssumption ==
  /\ IsFiniteSet(Tokens)
  /\ CompanyOf \in [Intents -> Companies]
  /\ IntentOf \in [Callbacks -> Intents]
  /\ TokenOf \in [Callbacks -> Tokens]
  /\ NoTx \notin {TxOf[c] : c \in Callbacks}
  /\ AmountOf \in [Callbacks -> Nat \ {0}]   \* the route refuses amount 0
  /\ DbMayFail \subseteq Callbacks
  /\ MayCrash \in BOOLEAN

VARIABLES
  intentStatus,  \* Payment.status, "none" before the row exists
  intentTx,      \* Payment.txHash
  intentAmount,  \* Payment.amountToken once confirmed, 0 before
  balance,       \* CompanyBalance.balanceToken, 0 before the row exists
  at,            \* where the callback's handler is
  newBalance,    \* newBalance[c]: what updateCompanyBalance has computed
  answer,        \* what the callback was answered
  credits,       \* history: the callbacks whose credit was written
  raced,         \* history: companies that two confirmations worked on at once
  contested,     \* history: intents that two confirmations worked on at once
  broken         \* history: intents whose credit failed after the confirmation

intentVars == <<intentStatus, intentTx, intentAmount>>
races == <<raced, contested>>
vars == <<intentVars, balance, at, newBalance, answer, credits, races, broken>>

\* CompanyBalance has one row for each company and token.
Rows == Companies \X Tokens

CompanyFor(c) == CompanyOf[IntentOf[c]]
RowFor(c) == <<CompanyFor(c), TokenOf[c]>>

\* The price of USDC, USDT and of every unknown token is 1, so balanceUsd is balanceToken.
\* The handler's place is named by the call it makes next.
InHandler == {"confirm", "readBalance", "writeBalance"}

TypeOK ==
  /\ intentStatus \in [Intents -> {"none", "PENDING_X402", "CONFIRMED_ONCHAIN"}]
  /\ intentTx \in [Intents -> {TxOf[c] : c \in Callbacks} \cup {NoTx}]
  /\ intentAmount \in [Intents -> Nat]
  /\ balance \in [Rows -> Nat]
  /\ at \in [Callbacks -> InHandler \cup {"idle", "done", "crashed"}]
  /\ newBalance \in [Callbacks -> Nat]
  /\ answer \in [Callbacks -> {"none", "ok", "notFound", "error"}]
  /\ credits \subseteq Callbacks
  /\ raced \subseteq Companies
  /\ contested \subseteq Intents
  /\ broken \subseteq Intents

Init ==
  /\ intentStatus = [i \in Intents |-> "none"]
  /\ intentTx = [i \in Intents |-> NoTx]
  /\ intentAmount = [i \in Intents |-> 0]
  /\ balance = [b \in Rows |-> 0]
  /\ at = [c \in Callbacks |-> "idle"]
  /\ newBalance = [c \in Callbacks |-> 0]
  /\ answer = [c \in Callbacks |-> "none"]
  /\ credits = {}
  /\ raced = {} /\ contested = {} /\ broken = {}

-----------------------------------------------------------------------------
Moves(c, from, to) == at[c] = from /\ at' = [at EXCEPT ![c] = to]

\* The handler answers and its locals are gone.
Ends(c, from, reply) ==
  /\ Moves(c, from, "done")
  /\ answer' = [answer EXCEPT ![c] = reply]
  /\ newBalance' = [newBalance EXCEPT ![c] = 0]

\* The callbacks other than c that have passed the status check.
Rivals(c) == {d \in Callbacks \ {c} : at[d] \in InHandler}

\* c passes the status check; history keeps which of the others are at work on its company
\* and on its intent.
EntersHandler(c) ==
  /\ Moves(c, "idle", "confirm")
  /\ raced' = raced \cup {CompanyFor(d) : d \in {e \in Rivals(c) : CompanyFor(e) = CompanyFor(c)}}
  /\ contested' =
       contested \cup {IntentOf[d] : d \in {e \in Rivals(c) : IntentOf[e] = IntentOf[c]}}

\* createPaymentIntent: the row is written by its last call, or not at all.
CreatePaymentIntent(i) ==
  /\ intentStatus[i] = "none"
  /\ intentStatus' = [intentStatus EXCEPT ![i] = "PENDING_X402"]
  /\ UNCHANGED <<intentTx, intentAmount, balance, at, newBalance, answer, credits, races, broken>>

\* Mutant: the status is not checked.
BugFindAnyStatus(c) ==
  /\ intentStatus[IntentOf[c]] # "none"
  /\ EntersHandler(c)
  /\ UNCHANGED <<intentVars, balance, newBalance, answer, credits, broken>>

\* Mutant: a callback for an intent that does not exist is taken for a repeated one.
BugFindMissingOk(c) ==
  LET status == intentStatus[IntentOf[c]]
  IN  /\ IF status = "PENDING_X402"
         THEN EntersHandler(c) /\ UNCHANGED <<newBalance, answer>>
         ELSE Ends(c, "idle", "ok") /\ UNCHANGED races
      /\ UNCHANGED <<intentVars, balance, credits, broken>>

\* An intent that is confirmed already is answered ok: confirmPayment returns it when the
\* transaction is the same, and the route turns the "already confirmed" error into ok.
FindPayment(c) ==
  LET status == intentStatus[IntentOf[c]]
  IN  /\ \/ status = "PENDING_X402" /\ EntersHandler(c) /\ UNCHANGED <<newBalance, answer>>
         \/ status = "CONFIRMED_ONCHAIN" /\ Ends(c, "idle", "ok") /\ UNCHANGED races
         \/ status = "none" /\ Ends(c, "idle", "notFound") /\ UNCHANGED races
         \/ c \in DbMayFail /\ Ends(c, "idle", "error") /\ UNCHANGED races
      /\ UNCHANGED <<intentVars, balance, credits, broken>>

\* The write does not look at the status again.
ConfirmPayment(c) ==
  /\ \/ /\ Moves(c, "confirm", "readBalance")
        /\ intentStatus' = [intentStatus EXCEPT ![IntentOf[c]] = "CONFIRMED_ONCHAIN"]
        /\ intentTx' = [intentTx EXCEPT ![IntentOf[c]] = TxOf[c]]
        /\ intentAmount' = [intentAmount EXCEPT ![IntentOf[c]] = AmountOf[c]]
        /\ UNCHANGED <<newBalance, answer>>
     \/ c \in DbMayFail /\ Ends(c, "confirm", "error") /\ UNCHANGED intentVars
  /\ UNCHANGED <<balance, credits, races, broken>>

\* A failure in updateCompanyBalance leaves a confirmed intent without its credit.
CreditFails(c, from) ==
  /\ c \in DbMayFail
  /\ Ends(c, from, "error")
  /\ broken' = broken \cup {IntentOf[c]}
  /\ UNCHANGED <<intentVars, balance, credits, races>>

\* Mutant: what is in the row is not added.
BugReadIgnoresRow(c) ==
  /\ Moves(c, "readBalance", "writeBalance")
  /\ newBalance' = [newBalance EXCEPT ![c] = AmountOf[c]]
  /\ UNCHANGED <<intentVars, balance, answer, credits, races, broken>>

\* Mutant: the amount is taken off the row.
BugReadSubtracts(c) ==
  /\ Moves(c, "readBalance", "writeBalance")
  /\ newBalance' = [newBalance EXCEPT ![c] = balance[RowFor(c)] - AmountOf[c]]
  /\ UNCHANGED <<intentVars, balance, answer, credits, races, broken>>

ReadBalance(c) ==
  \/ /\ Moves(c, "readBalance", "writeBalance")
     /\ newBalance' = [newBalance EXCEPT ![c] = balance[RowFor(c)] + AmountOf[c]]
     /\ UNCHANGED <<intentVars, balance, answer, credits, races, broken>>
  \/ CreditFails(c, "readBalance")

\* Mutant: the upsert increments the row by the new balance.
BugWriteIncrements(c) ==
  /\ Ends(c, "writeBalance", "ok")
  /\ balance' = [balance EXCEPT ![RowFor(c)] = @ + newBalance[c]]
  /\ credits' = credits \cup {c}
  /\ UNCHANGED <<intentVars, races, broken>>

\* The upsert stores the value computed from the earlier read.
WriteBalance(c) ==
  \/ /\ Ends(c, "writeBalance", "ok")
     /\ balance' = [balance EXCEPT ![RowFor(c)] = newBalance[c]]
     /\ credits' = credits \cup {c}
     /\ UNCHANGED <<intentVars, races, broken>>
  \/ CreditFails(c, "writeBalance")

\* The process dies: the handlers that run are gone, and nothing resumes them.
Crash ==
  /\ MayCrash
  /\ LET running == {c \in Callbacks : at[c] \in InHandler}
     IN  /\ running # {}
         /\ at' = [c \in Callbacks |-> IF c \in running THEN "crashed" ELSE at[c]]
         /\ newBalance' = [c \in Callbacks |-> 0]
         /\ broken' = broken \cup {IntentOf[c] : c \in {d \in running : at[d] # "confirm"}}
  /\ UNCHANGED <<intentVars, balance, answer, credits, races>>

Handle(c) == FindPayment(c) \/ ConfirmPayment(c) \/ ReadBalance(c) \/ WriteBalance(c)

Next ==
  \/ \E i \in Intents : CreatePaymentIntent(i)
  \/ \E c \in Callbacks : Handle(c)
  \/ Crash

Spec == Init /\ [][Next]_vars

-----------------------------------------------------------------------------
Settled(k) == \A c \in Callbacks : at[c] \in InHandler => CompanyFor(c) # k

\* What the company's rows hold, over all tokens.
Total(k) == SumFunctionOnSet(balance, {k} \X Tokens)

\* What the confirmed intents of a company are worth.
Confirmed(k) ==
  SumFunctionOnSet(intentAmount,
                   {i \in Intents : intentStatus[i] = "CONFIRMED_ONCHAIN" /\ CompanyOf[i] = k})

\* The credit of an intent of the company failed half way.
Broken(k) == \E i \in broken : CompanyOf[i] = k

(***************************************************************************)
(* The rows of a company that confirmations reached one after the other,   *)
(* none of which failed half way, hold together exactly what its confirmed *)
(* intents are worth, whatever tokens the callbacks name: repeated         *)
(* callbacks, callbacks that came too early and failures before the        *)
(* confirmation neither add nor lose a credit.                             *)
(***************************************************************************)
SerialCreditsExact ==
  \A k \in Companies \ raced : Settled(k) /\ ~Broken(k) => Total(k) = Confirmed(k)

(***************************************************************************)
(* Whatever races or fails, a row never holds more than the credits that   *)
(* were written to it: racing credits get lost but none is invented.       *)
(***************************************************************************)
NeverOvercredited ==
  \A b \in Rows : balance[b] <= SumFunctionOnSet(AmountOf, {c \in credits : RowFor(c) = b})

\* A callback has credited the intent, or has confirmed it and is crediting it.
BeingCredited(i) ==
  \E c \in Callbacks :
     IntentOf[c] = i /\ (c \in credits \/ at[c] \in {"readBalance", "writeBalance"})

(***************************************************************************)
(* A callback is answered ok only if its intent was credited, or another   *)
(* callback is crediting it, or its credit failed half way: no order of    *)
(* repeated callbacks turns the idempotent answer into a lie.              *)
(***************************************************************************)
OkMeansCredited ==
  \A c \in Callbacks :
     answer[c] = "ok" => IntentOf[c] \in broken \/ BeingCredited(IntentOf[c])

(***************************************************************************)
(* Once an intent is confirmed its transaction and amount stay, as long as *)
(* no two confirmations of that intent were at work at once: a callback    *)
(* that reports another transaction later on changes nothing.              *)
(***************************************************************************)
ConfirmationIsFinal ==
  [][\A i \in Intents :
        intentStatus[i] = "CONFIRMED_ONCHAIN" /\ i \notin contested =>
           UNCHANGED <<intentStatus[i], intentTx[i], intentAmount[i]>>]_vars

(***************************************************************************)
(* "Uses upsert to atomically update or create balance record"             *)
(* (paymentIntentService.ts): a company on which no credit failed holds    *)
(* what its confirmed intents are worth, however callbacks interleave.     *)
(***************************************************************************)
BalancesMatchConfirmed ==
  \A k \in Companies : Settled(k) /\ ~Broken(k) => Total(k) = Confirmed(k)
=============================================================================
