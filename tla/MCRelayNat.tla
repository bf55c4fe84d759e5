----------------------------- MODULE MCRelayNat -----------------------------
EXTENDS RelayNat, TLC

CONSTANTS s1, s2, k1, k2

\* One flow per session.
FlowPerSession == (k1 :> s1) @@ (k2 :> s2)
\* Two flows of one session.
FlowsOfOne == (k1 :> s1) @@ (k2 :> s1)
=============================================================================
