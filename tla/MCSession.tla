----------------------------- MODULE MCSession ------------------------------
(* Small browsers for TLC: two tabs, two people. *)
EXTENDS Session, TLC

CONSTANTS ann, bob, left, right

MCStartPage == left :> "signup" @@ right :> "dashboard"
=============================================================================
