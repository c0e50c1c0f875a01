----------------------------- MODULE MCScreens ------------------------------
(* A small instance for TLC: a form that asks for payroll x and a dashboard  *)
(* that asks for d, each with one payment.                                   *)
EXTENDS PaidScreens, TLC

CONSTANTS form, flow, x, d, px, d1, usdc, alice

MCKind == form :> "form" @@ flow :> "flow"

MCPayrollOf == px :> x @@ d1 :> d
MCAmountOf == px :> 1 @@ d1 :> 1
MCAddresses == px :> "address" @@ d1 :> "address"

\* The smaller instance: the demo payroll's call throws before it is submitted.
MCRecipientOf == px :> "address" @@ d1 :> "unresolvable"
MCRoute == x :> "process" @@ d :> "demo"
MCFunding == usdc :> 3
=============================================================================
