------------------------------- MODULE MCMdns -------------------------------
(* Small instances of Mdns for TLC. *)
EXTENDS Mdns, TLC

CONSTANTS q1, q2, qx, n1, n2, a1, A1, a2

TwoLookups == {q1, q2}
ThreeLookups == {q1, q2, qx}
NoLookup == {}
OneNonA == {qx}
TwoNames == {n1, n2}

\* a1 and A1 are two spellings of n1; a packet may carry the name n2 too.
Questions == {a1, A1, a2}
LowerOf == (a1 :> n1) @@ (A1 :> n1) @@ (a2 :> n2)
TwoSpellings == [q \in Lookup |-> IF q = q2 THEN A1 ELSE a1]
=============================================================================
