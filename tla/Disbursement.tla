---------------------------- MODULE Disbursement ----------------------------
(***************************************************************************)
(* What the payroll pipeline promises about the treasury's funds, whatever *)
(* its jobs, the database, the chain and the network do: each payment is   *)
(* disbursed at most once, in full, from the funds that are there.  The    *)
(* funds are not the pipeline's own: what others do with them it cannot    *)
(* promise, only that no payment counts as disbursed by it.                *)
(***************************************************************************)
EXTENDS Naturals

CONSTANTS
  Payments,   \* the payments that may be disbursed
  AmountOf,   \* AmountOf[p]: what payment p is worth
  Initial     \* the funds to start with

VARIABLES
  paid,       \* paid[p]: how often payment p was disbursed
  funds       \* what is left

disbursementVars == <<paid, funds>>

Init ==
  /\ paid = [p \in Payments |-> 0]
  /\ funds = Initial

Disburse(p) ==
  /\ paid[p] = 0
  /\ AmountOf[p] <= funds
  /\ paid' = [paid EXCEPT ![p] = 1]
  /\ funds' = funds - AmountOf[p]

\* The funds are used by others, or added to.
UsedElsewhere ==
  /\ funds' \in Nat
  /\ UNCHANGED paid

Next == UsedElsewhere \/ \E p \in Payments : Disburse(p)

Spec == Init /\ [][Next]_disbursementVars
=============================================================================
