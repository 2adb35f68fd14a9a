-------------------------- MODULE MCResolverRules ---------------------------
(* Small instances of ResolverRules for TLC. *)
EXTENDS ResolverRules, TLC

CONSTANTS a, b, t1, t2, t3, f1, f2, f3

TwoLabels == {a, b}
AllKinds == {"suffix", "full", "keyword", "regexp"}
SuffixOrFull == {"suffix", "full"}
OneText == {t1}
ThreeTexts == {t1, t2, t3}
TwoFiles == {f1, f2}
ThreeFiles == {f1, f2, f3}

Symmetric == Permutations(Label) \cup Permutations(Text) \cup Permutations(File)
=============================================================================
