---------------------------- MODULE MCAgentTurns ----------------------------
EXTENDS AgentTurns, TLC
CONSTANTS p1, p2, w1, w2, a1, a2
TwoHomes == (w1 :> p1) @@ (w2 :> p2)
Swap     == {(w1 :> w2) @@ (w2 :> w1) @@ (p1 :> p2) @@ (p2 :> p1)}
AgentSwap == {(a1 :> a2) @@ (a2 :> a1)}
LoneHome == w1 :> p1
OneHome  == (w1 :> p1) @@ (w2 :> p1)
=============================================================================
