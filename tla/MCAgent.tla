------------------------------- MODULE MCAgent -------------------------------
(* A paid request and a contract test that bring one authorization, and the   *)
(* contract test of a screen, which follows up a post without a header.       *)
EXTENDS AgentRequest, TLC
CONSTANTS ask, test, probe, demo, a
MCRouteOf == ask :> "process" @@ test :> "test" @@ probe :> "test" @@ demo :> "test"
MCShapeOf == ask :> "executor" @@ test :> "nested" @@ probe :> "none" @@ demo :> "demo"
MCAuthOf == ask :> a @@ test :> a @@ probe :> a @@ demo :> a
MCRetryOf == [r \in {ask, test, probe, demo} |-> IF r = demo THEN probe ELSE Nobody]
MCValidAfter == a :> 0
MCValidBefore == a :> 2

\* Direct settlement, another facilitator, and a backend without the AI service.
Direct == [mode |-> "unset", url |-> "unset", key |-> TRUE, owner |-> TRUE, ai |-> TRUE,
           gate |-> "other", demo |-> TRUE]
Delegated == [Direct EXCEPT !.mode = "facilitator", !.url = "other", !.owner = FALSE]
NoService == [Direct EXCEPT !.ai = FALSE, !.gate = "own", !.demo = FALSE]
NoKey == [Direct EXCEPT !.mode = "direct", !.key = FALSE]
MCEnvs == {Direct, Delegated, NoService, NoKey}

\* The backend is its own facilitator.
OwnEnvs == {[Direct EXCEPT !.url = "own", !.gate = "own"]}
OwnValidBefore == a :> 9
=============================================================================
