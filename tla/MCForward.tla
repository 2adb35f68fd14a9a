----------------------------- MODULE MCForward ------------------------------
(* Small instances of Forward for TLC. *)
EXTENDS Forward, TLC

CONSTANTS q1, q2, q3, q4, pr1, pr2, ua, ub

TwoQueries == {q1, q2}
ThreeQueries == {q1, q2, q3}
FourQueries == {q1, q2, q3, q4}
NoProbe == {}
OneProbe == {pr1}
TwoProbes == {pr1, pr2}
OneUpstream == {ua}
TwoUpstreams == {ua, ub}

Symmetric == Permutations(Query) \cup Permutations(Probe) \cup Permutations(Upstream)
=============================================================================
