----------------------------- MODULE PaidService -----------------------------
(***************************************************************************)
(* What a service that is paid for each request promises: a payer is       *)
(* charged for a request only when its work is done, one authorization is  *)
(* charged once, and only the request it was charged for is answered paid. *)
(*                                                                         *)
(* The charge may follow an unpaid answer: a service that loses sight of   *)
(* its transaction cannot take it back.                                    *)
(***************************************************************************)
CONSTANTS Requests, Auths, AuthOf, Nobody

VARIABLES worked,    \* the requests whose work is done
          chargedBy, \* chargedBy[a]: the request authorization a was charged for
          answered   \* answered[r]: "none", "paid" or "unpaid"

vars == <<worked, chargedBy, answered>>

Init == /\ worked = {}
        /\ chargedBy = [a \in Auths |-> Nobody]
        /\ answered = [r \in Requests |-> "none"]

Work(r) == /\ answered[r] = "none"
           /\ worked' = worked \cup {r}
           /\ UNCHANGED <<chargedBy, answered>>

Charge(r) == /\ r \in worked
             /\ chargedBy[AuthOf[r]] = Nobody
             /\ chargedBy' = [chargedBy EXCEPT ![AuthOf[r]] = r]
             /\ UNCHANGED <<worked, answered>>

AnswerPaid(r) == /\ answered[r] = "none"
                 /\ chargedBy[AuthOf[r]] = r
                 /\ answered' = [answered EXCEPT ![r] = "paid"]
                 /\ UNCHANGED <<worked, chargedBy>>

AnswerUnpaid(r) == /\ answered[r] = "none"
                   /\ answered' = [answered EXCEPT ![r] = "unpaid"]
                   /\ UNCHANGED <<worked, chargedBy>>

Next == \E r \in Requests : Work(r) \/ Charge(r) \/ AnswerPaid(r) \/ AnswerUnpaid(r)

Spec == Init /\ [][Next]_vars
=============================================================================
