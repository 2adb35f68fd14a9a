-------------------------- MODULE MCConfigControl ---------------------------
(* Small instances of ConfigControl for TLC. *)
EXTENDS ConfigControl, TLC

CONSTANTS t1, t2, r1, r2, flaky, s1, s2, s3, p1, p2

NoRes == {}
FlakyOne == {flaky}
OneTop == {t1}
TwoTops == {t1, t2}
OneRes == {r1}
TwoRes == {r1, r2}
WithFlaky == {r1, flaky}
NoPoster == {}
OnePoster == {p1}
TwoPosters == {p1, p2}
ThreeServers == {s1, s2, s3}

\* Addresses of servers, identities of requests, top levels and the resolvers
\* that build are interchangeable.
Symmetric == Permutations(Server) \cup Permutations(Poster) \cup Permutations(Top)
             \cup Permutations(Res \ (BadRes \cup FlakyRes))
=============================================================================
