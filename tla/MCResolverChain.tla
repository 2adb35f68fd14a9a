-------------------------- MODULE MCResolverChain ---------------------------
(* Small instances of ResolverChain for TLC. *)
EXTENDS ResolverChain, TLC

CONSTANTS q1, q2, n1, n2

OneName == {n1}
TwoNames == {n1, n2}
TwoQueries == {q1, q2}
OneAddress == {1}
Lan == {1, 2}
Corp == {11, 12}
NoExtra == [n \in Name |-> NoAddress]

Plain(kind, rule, addr) ==
    [kind |-> kind, rule |-> rule, addr |-> addr, breaks |-> FALSE, nft |-> FALSE, caches |-> FALSE]
File == Plain("file", {}, NoAddress)
Filter == Plain("mock", Name, NoAddress)
Public == [Plain("forward", Name, 21) EXCEPT !.caches = TRUE]
Office == [Plain("forward", {n1}, 22) EXCEPT !.nft = TRUE, !.caches = TRUE]
Bridge == [Plain("forward", {n1}, 23) EXCEPT !.breaks = TRUE]
Corporate == Plain("preloader", {n1}, NoAddress)

\* A hosts file before a public resolver; a preloader that breaks the walk; a
\* bridge that ends it; a resolver that fails before one that need not accept; one
\* that fails before one with an nftset.
SmallChains == {<<[File EXCEPT !.nft = TRUE], Public>>,
                <<[Corporate EXCEPT !.breaks = TRUE], Public>>,
                <<Bridge, Filter>>,
                <<Public, File>>,
                <<Public, Office>>}
DifferChains == SmallChains \cup {<<[Corporate EXCEPT !.nft = TRUE]>>}
=============================================================================
