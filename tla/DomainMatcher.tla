---------------------------- MODULE DomainMatcher ----------------------------
(***************************************************************************)
(* The rules of a resolver (util/matcher.go): NewDomainMatcher reads them  *)
(* one by one into two suffix trees, the full names, the keywords and the  *)
(* regular expressions; MatchDomain asks these in order.                   *)
(*                                                                         *)
(* A domain is the sequence of its labels from the root down, so a suffix  *)
(* is a prefix here.  A written domain may have empty labels: a dot at its *)
(* end is an empty label at the front, a leading dot one at the back.      *)
(* Case and blanks are left out.  A keyword is a label that occurs         *)
(* somewhere, or the empty one, which every domain contains; a regular     *)
(* expression is ^label\. or does not compile.  given is the set of rules  *)
(* read so far, which the code forgets.                                    *)
(***************************************************************************)
EXTENDS Integers, Sequences, FiniteSets, SequencesExt

CONSTANTS Label, Empty, BadPattern,
          Kinds,      \* the kinds of rules written
          MaxLabels,  \* bound on the labels of a written domain
          MaxRules    \* bound on the rules of a resolver

ASSUME MatcherAssumption == /\ Empty \notin Label /\ BadPattern \notin Label
                            /\ Kinds \subseteq {"suffix", "full", "keyword", "regexp"}
                            /\ MaxLabels \in Nat \ {0} /\ MaxRules \in Nat

SeqUpTo(S, n) == UNION {[1..k -> S] : k \in 0..n}
Written == SeqUpTo(Label \cup {Empty}, MaxLabels)
Domain == SeqUpTo(Label, MaxLabels + 1)

Value(kind) == CASE kind \in {"suffix", "full"} -> Written
                 [] kind = "keyword" -> Label \cup {Empty}
                 [] kind = "regexp" -> Label \cup {BadPattern}
Rule == UNION {[neg : BOOLEAN, kind : {k}, value : Value(k)] : k \in Kinds}

VARIABLES white, black, full, keywords, regexps,  \* ComplexDomainSet
          failed, given
matcherVars == <<white, black, full, keywords, regexps, failed, given>>

-----------------------------------------------------------------------------
(* DomainSet: a node tells whether a rule ends in it and has a child for   *)
(* every label below.                                                      *)

Leaf == [end |-> FALSE, sub |-> [l \in {} |-> {}]]
Terminal(node) == [end |-> TRUE, sub |-> node.sub]
Child(node, l) == IF l \in DOMAIN node.sub THEN node.sub[l] ELSE Leaf
WithChild(node, l, child) ==
    [end |-> node.end,
     sub |-> [x \in DOMAIN node.sub \cup {l} |-> IF x = l THEN child ELSE node.sub[x]]]

\* The nodes on the way down the labels d; where there is none, an empty one.
Path(node, d) == LET walk[i \in 0..Len(d)] ==
                         IF i = 0 THEN node ELSE Child(walk[i - 1], d[i])
                 IN  walk

Normal(d) == LET first == SelectInSeq(d, LAMBDA l : l # Empty)
             IN  IF first = 0 THEN <<>> ELSE SubSeq(d, first, Len(d))

\* addDomain normalises what is left at every level: no empty label is used.
Labels(d) == LET used[i \in 0..Len(d)] ==
                     IF i = 0 THEN <<>>
                     ELSE IF d[i] = Empty THEN used[i - 1] ELSE Append(used[i - 1], d[i])
             IN  used[Len(d)]

\* The nodes on the way down the labels d made anew, from the last one up.
Rebuilt(node, d, ended) ==
    LET old == Path(node, d)
        new[i \in 0..Len(d)] ==
            IF i = 0 THEN IF ended THEN Terminal(old[Len(d)]) ELSE old[Len(d)]
            ELSE WithChild(old[Len(d) - i], d[Len(d) - i + 1], new[i - 1])
    IN  new

\* The rule ends in the last node, unless empty labels are left there.
AddDomain(node, written) ==
    LET d == Labels(written)
    IN  IF d = <<>> THEN node ELSE Rebuilt(node, d, Last(written) # Empty)[Len(d)]

HasTerminal(node) == node.end

MatchTree(node, d) == LET path == Path(node, d)
                      IN  \E i \in 0..Len(d) : HasTerminal(path[i])

-----------------------------------------------------------------------------
(* NewDomainMatcher.                                                       *)

MatcherInit == /\ white = Leaf /\ black = Leaf
               /\ full = {} /\ keywords = {} /\ regexps = {}
               /\ failed = FALSE
               /\ given = {}

AddSuffix(r) == /\ r.kind = "suffix" \/ (r.kind = "full" /\ r.neg)
                /\ IF r.neg THEN /\ black' = AddDomain(black, r.value)
                                 /\ UNCHANGED white
                   ELSE /\ white' = AddDomain(white, r.value)
                        /\ UNCHANGED black
                /\ UNCHANGED <<full, keywords, regexps, failed>>

AddFull(r) == /\ r.kind = "full" /\ ~r.neg
              /\ full' = full \cup {Normal(r.value)}
              /\ UNCHANGED <<white, black, keywords, regexps, failed>>

\* The sign of these two is not looked at.
AddKeyword(r) == /\ r.kind = "keyword"
                 /\ keywords' = keywords \cup {r.value}
                 /\ UNCHANGED <<white, black, full, regexps, failed>>

AddRegexp(r) == /\ r.kind = "regexp" /\ r.value # BadPattern
                /\ regexps' = regexps \cup {r.value}
                /\ UNCHANGED <<white, black, full, keywords, failed>>

\* A pattern that does not compile fails the resolver.
Reject(r) == /\ r.kind = "regexp" /\ r.value = BadPattern
             /\ failed' = TRUE
             /\ UNCHANGED <<white, black, full, keywords, regexps>>

AddRule(r) == /\ ~failed
              /\ Cardinality(given) < MaxRules
              /\ given' = given \cup {r}
              /\ AddSuffix(r) \/ AddFull(r) \/ AddKeyword(r) \/ AddRegexp(r) \/ Reject(r)

-----------------------------------------------------------------------------
(* MatchDomain.                                                            *)

ContainsKeyword(d, k) == k = Empty \/ k \in ToSet(d)
MatchesRegexp(d, l) == Len(d) > 1 /\ Last(d) = l

VerdictWhiteFirst(b, w, other, open) == w \/ (~b /\ (other \/ open))
Verdict(b, w, other, open) == ~b /\ (w \/ other \/ open)

\* No rule that is not a blacklist rule: everything is accepted.
Unlisted == white = Leaf /\ full = {} /\ keywords = {} /\ regexps = {}

MatchDomain(d) ==
    Verdict(MatchTree(black, d), MatchTree(white, d),
            \/ d \in full
            \/ \E k \in keywords : ContainsKeyword(d, k)
            \/ \E l \in regexps : MatchesRegexp(d, l),
            Unlisted)

-----------------------------------------------------------------------------
(* What the rules mean.                                                    *)

\* A written domain covers itself and what is below it; a domain with a dot in
\* front (.cn) covers nothing.
Covers(written, d) == /\ Labels(written) # <<>>
                      /\ Last(written) # Empty
                      /\ IsPrefix(Labels(written), d)

Means(r, d) == CASE r.kind = "suffix" -> Covers(r.value, d)
                 [] r.kind = "full" -> d = Normal(r.value)
                 [] r.kind = "keyword" -> ContainsKeyword(d, r.value)
                 [] r.kind = "regexp" -> MatchesRegexp(d, r.value)

\* A suffix rule without a label is not there at all.
Positive == {r \in given : ~r.neg /\ (r.kind = "suffix" => Labels(r.value) # <<>>)}
Negative == {r \in given : r.neg}
Wanted(d) == Positive = {} \/ \E r \in Positive : Means(r, d)
Unwanted(d) == \E r \in Negative : Means(r, d)

-----------------------------------------------------------------------------
(* Properties.                                                             *)

\* The suffix trees, however rules overlap, repeat, come in whatever order or
\* are written, match exactly the domains the suffix rules cover
\* (matcher.go:117-162).
TreeIsSuffixSet ==
    \A d \in Domain :
        /\ MatchTree(white, d) <=> \E r \in given : r.kind = "suffix" /\ ~r.neg /\ Covers(r.value, d)
        /\ MatchTree(black, d) <=> \E r \in given : r.kind \in {"suffix", "full"} /\ r.neg
                                                   /\ Covers(r.value, d)

\* "blacklist -> suffix tree -> full -> keyword -> regexp", and a list of
\* blacklist rules only accepts the rest (USAGE.md:205, 223): a resolver whose
\* blacklist rules are suffixes accepts what is wanted and not unwanted.
FollowsPriority ==
    ~failed /\ (\A r \in Negative : r.kind = "suffix")
        => \A d \in Domain : MatchDomain(d) <=> Wanted(d) /\ ~Unwanted(d)

\* "All the advanced kinds support the ! prefix for the blacklist, as in
\* !keyword:ads" (USAGE.md:221): what a negated rule means is not accepted.
NegationExcludes == \A d \in Domain : Unwanted(d) => ~MatchDomain(d)

\* full: is an "exact match, without the subdomains" (USAGE.md:217), its
\* negation too (USAGE.md:221): what no negated rule means is not excluded.
NegationExcludesNoMore == \A d \in Domain : Wanted(d) /\ ~Unwanted(d) => MatchDomain(d)
=============================================================================
