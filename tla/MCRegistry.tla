----------------------------- MODULE MCRegistry -----------------------------
(* Two handlers, one client, two versions and two contents. *)
EXTENDS Registry, TLC

CONSTANTS h1, h2, k1, c1, c2
MCHandlers == {h1, h2}
MCClients == {k1}
MCContents == {c1, c2}
MCSymmetry == Permutations(MCHandlers) \cup Permutations(MCContents)
=============================================================================
