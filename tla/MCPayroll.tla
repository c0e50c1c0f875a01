----------------------------- MODULE MCPayroll ------------------------------
(* Small payrolls for TLC: x, y and z are requests to /api/payment/process   *)
(* with one payment each, z's without a recipient; d is a request to         *)
(* /api/payroll/execute with two payments.                                   *)
EXTENDS PayrollFlow, TLC

CONSTANTS x, y, z, d, px, py, pz, d1, d2, usdc, alice

MCPairPayrollOf == [p \in {px, py} |-> IF p = px THEN x ELSE y]
MCPairAmountOf == [p \in {px, py} |-> IF p = px THEN 1 ELSE 2]
MCPairRecipientOf == [p \in {px, py} |-> "address"]
MCPairRoute == [r \in {x, y} |-> "process"]

MCMixPayrollOf == px :> x @@ d1 :> d @@ d2 :> d
MCMixAmountOf == px :> 1 @@ d1 :> 1 @@ d2 :> 2
MCMixRecipientOf == px :> "address" @@ d1 :> "address" @@ d2 :> "unresolvable"
MCMixRoute == x :> "process" @@ d :> "demo"

MCAnswersPayrollOf == pz :> z @@ d1 :> d @@ d2 :> d
MCAnswersAmountOf == pz :> 1 @@ d1 :> 1 @@ d2 :> 2
MCAnswersRecipientOf == pz :> "absent" @@ d1 :> "address" @@ d2 :> "address"
MCAnswersRoute == z :> "process" @@ d :> "demo"

MCFunding2 == usdc :> 2
MCFunding3 == usdc :> 3
=============================================================================
