----------------------------- MODULE MCIntents ------------------------------
(* An intent of company m, paid through the facilitator by two settlements    *)
(* with one authorization, and two of company n: one is refused by the        *)
(* facilitator and confirmed from elsewhere, the other is confirmed by the    *)
(* payment simulator and, with another transaction and another token, from    *)
(* elsewhere.                                                                 *)
EXTENDS MerchantPayments, TLC
CONSTANTS m, n, i1, i2, i3, c1, c1again, c2, c2again, c3, c3other, t1, t2, t3, t4,
          s1, s1again, s2, e1, e2
All == {c1, c1again, c2, c2again, c3, c3other}
MCCompanyOf == [i \in {i1, i2, i3} |-> IF i = i1 THEN m ELSE n]
MCIntentOf == [c \in All |-> IF c \in {c1, c1again} THEN i1 ELSE IF c \in {c3, c3other} THEN i3 ELSE i2]
MCTokenOf == [c \in All |-> IF c = c3other THEN "xUSDT" ELSE "xUSDC"]
MCTxOf == [c \in All |-> IF c \in {c1, c1again} THEN t1 ELSE
                          IF c = c3 THEN t3 ELSE IF c = c3other THEN t4 ELSE t2]
MCAmountOf == [c \in All |-> IF c \in {c2, c2again} THEN 4 ELSE IF c = c3other THEN 2 ELSE 1]
Body(shape, amount, payee, resource, name, idAt) ==
  [shape |-> shape, amount |-> amount, payee |-> payee, resource |-> resource, name |-> name,
   idAt |-> idAt]
MCBodyOf ==
  [s \in {s1, s1again, s2} |->
     CASE s = s1 -> Body("flat", 1, "payTo", "contract_test", "xUSDC", "metadata")
       [] s = s1again -> Body("inner", 1, "payTo", "payment_single", "none", "metadata")
       [] s = s2 -> Body("unsigned", 4, "other", DefaultMeter, "xUSDC", "metadata")]
MCCallbackOf == [s \in {s1, s1again, s2} |-> IF s = s1 THEN c1 ELSE IF s = s2 THEN c2again ELSE c1again]
MCAuthorizationOf == [s \in {s1, s1again, s2} |-> IF s = s2 THEN e2 ELSE e1]

\* Every payer follows the requirements that came with the intent.
IssuedBodyOf ==
  [s \in {s1, s1again, s2} |-> Body("flat", 10, "payTo", "callbackUrl", "xUSDC", "extra")]
IssuedAmountOf == [c \in All |-> 10]

\* Two intents of company n with a callback each, of one token.
Payments == {c2, c3}
PaymentsCompanyOf == i2 :> n @@ i3 :> n
PaymentsIntentOf == c2 :> i2 @@ c3 :> i3
PaymentsTokenOf == [c \in Payments |-> "xUSDC"]
PaymentsTxOf == c2 :> t2 @@ c3 :> t3
PaymentsAmountOf == c2 :> 4 @@ c3 :> 1
NoSettlement == <<>>
=============================================================================
