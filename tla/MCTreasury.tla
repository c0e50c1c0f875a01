----------------------------- MODULE MCTreasury -----------------------------
(* Two accounts and three tokens, so that a path can differ from the        *)
(* authorized pair at both ends; one token starts empty.                    *)
EXTENDS Treasury, TLC
CONSTANTS alice, bob, usdc, wavax, dai
MCSwapPairs == {<<usdc, wavax>>, <<wavax, usdc>>}
MCFunding == [t \in {usdc, wavax, dai} |-> CASE t = usdc -> 2 [] t = wavax -> 1 [] t = dai -> 0]
=============================================================================
