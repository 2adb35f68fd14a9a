--------------------------- MODULE MCResolverGen ----------------------------
(* Small instances of ResolverGen for TLC. *)
EXTENDS ResolverGen, TLC

CONSTANTS u1, u2, h1, post, watcher, main, g1, g2, g3, g4, noGen

NoProc == {}
OneUdp == {u1}
TwoUdp == {u1, u2}
OneHttp == {h1}
Post == {post}
Watcher == {watcher}
ThreeGens == {g1, g2, g3}
FourGens == {g1, g2, g3, g4}

\* Generations are addresses, and the two UDP handlers run the same code.
Symmetric == Permutations(Gen) \cup Permutations(UdpQuery)
=============================================================================
