--------------------------- MODULE RuleListProofs ---------------------------
(***************************************************************************)
(* The rules of a resolver with any number of files, lines, labels and     *)
(* rules: what parseRule makes of a list that includes others, what        *)
(* NewDomainMatcher makes of the rules, and the v2fly lists among them,    *)
(* with any number of lists, versions, reloaders, builds and crashes.      *)
(*                                                                         *)
(* A parse keeps three things.  The visited files are those of the stack,  *)
(* one each, so it is never deeper than there are files.  Every list on    *)
(* the stack is below those under it, and whatever a list includes is      *)
(* behind it, parsed without fault, or on the stack above it: so a file    *)
(* met twice on the way down is within itself, and a list that ends is     *)
(* sound.  And what is parsed, with the rules of all the lines that are    *)
(* left on the stack, is the rules of the configuration: that they do not  *)
(* change any more once every include has been followed as often as there  *)
(* are lists is an induction over how many lists a list is made of.        *)
(*                                                                         *)
(* The suffix trees rest on one lemma, by induction along a domain: where  *)
(* it meets the new nodes of a tree that a name was added to, and where    *)
(* the old ones.  The rest of the matcher is that its lists are the rules. *)
(*                                                                         *)
(* The v2fly lists rest on one fact: while a process lives, a list that    *)
(* has a copy keeps one.  No file is ever removed, and a copy in memory is *)
(* dropped only when the file has been written.  So whoever is about to    *)
(* clear the mark of a list may do so, however long ago it looked.         *)
(***************************************************************************)
EXTENDS ResolverRules, V2flyCache, FiniteSetTheorems, SequenceTheorems, TLAPS

\* Induction over the natural numbers, as a fact about sets: otherwise the
\* naturals up to one outside S, outside S too, would inject into fewer.
LEMMA NatSetInduction ==
    ASSUME NEW S, 0 \in S, \A n \in Nat : n \in S => n + 1 \in S
    PROVE  \A n \in Nat : n \in S
<1> SUFFICES ASSUME NEW k \in Nat, k \notin S PROVE FALSE
  OBVIOUS
<1> DEFINE T == {i \in 0..k : i \notin S}
           prev == [i \in T |-> i - 1]
<1>1. \A i \in T : i - 1 \in T \ {k}
  OBVIOUS
<1>2. IsFiniteSet(T)
  <2>1. IsFiniteSet(0..k)
    BY FS_Interval
  <2>2. T \in SUBSET (0..k)
    OBVIOUS
  <2> QED
    BY <2>1, <2>2, FS_Subset
<1>3. Cardinality(T) \in Nat
  BY <1>2, FS_CardinalityType
<1>4. /\ IsFiniteSet(T \ {k})
      /\ Cardinality(T \ {k}) = Cardinality(T) - 1
  <2>1. k \in T
    OBVIOUS
  <2> HIDE DEF T
  <2> QED
    BY <1>2, <2>1, FS_RemoveElement
<1>5. prev \in [T -> T \ {k}]
  BY <1>1
<1>6. \E x, y \in T : x # y /\ prev[x] = prev[y]
  <2> HIDE DEF T, prev
  <2> QED
    BY <1>2, <1>3, <1>4, <1>5, FS_PigeonHole
<1> QED
  BY <1>6

-----------------------------------------------------------------------------
(* The stack of activations: each is of a file of its own.                 *)

\* The visited files are those of the activations above the first.
OneEach == /\ \A i \in 2..Len(stack) : stack[i].of \in visited
           /\ \A i, j \in 2..Len(stack) : i # j => stack[i].of # stack[j].of
           /\ \A f \in visited : \E i \in 2..Len(stack) : stack[i].of = f

\* The types of the stack, of lines of any length.
Act == [of : RuleList, rest : Seq(Text \cup File)]

StackType == /\ stack \in Seq(Act)
             /\ visited \subseteq File
             /\ files \in [RuleList -> Seq(Text \cup File) \cup {Missing}]
             /\ status = "parsing" => stack # <<>>

StackInv == StackType /\ OneEach

\* Lines are sequences, however long.
LEMMA LinesType == Lines \subseteq Seq(Text \cup File)
  BY DEF Lines

\* An activation of a list and of lines is one.
LEMMA ActType == \A l \in RuleList, lines \in Seq(Text \cup File) :
                    Activation(l, lines) \in Act
  BY DEF Act, Activation

\* The top activation, and the stack behind its line, with one more, with one less.
LEMMA TopFacts ==
    ASSUME StackType, stack # <<>>
    PROVE  /\ Len(stack) \in Nat \ {0} /\ Top = stack[Len(stack)] /\ Top \in Act
           /\ Top.of \in RuleList /\ Top.rest \in Seq(Text \cup File)
<1>1. Len(stack) \in Nat \ {0} /\ stack[Len(stack)] \in Act
  BY EmptySeq, ElementOfSeq DEF StackType
<1> QED
  BY <1>1 DEF Act, Top, Last

\* The caller behind its include: one line less, nothing else.
LEMMA BehindFacts ==
    ASSUME StackType, stack # <<>>, Top.rest # <<>>
    PROVE  /\ Behind \in Seq(Act) /\ Len(Behind) = Len(stack)
           /\ \A i \in 1..Len(stack) - 1 : Behind[i] = stack[i]
           /\ Behind[Len(stack)] = Activation(Top.of, Tail(Top.rest))
           /\ \A i \in 1..Len(stack) : Behind[i].of = stack[i].of
<1> DEFINE n == Len(stack)
           act == Activation(Top.of, Tail(Top.rest))
<1>1. /\ n \in Nat \ {0} /\ Top = stack[n] /\ Top \in Act /\ Top.of \in RuleList
      /\ Tail(Top.rest) \in Seq(Text \cup File)
  BY TopFacts, HeadTailProperties
<1>2. act \in Act /\ act.of = stack[n].of
  BY <1>1, ActType DEF Activation
<1>3. [stack[n] EXCEPT !.rest = Tail(@)] = act
  BY <1>1, SMTT(30) DEF Activation, Act
<1>4. Behind = [stack EXCEPT ![n] = act]
  BY <1>3 DEF Behind
<1> HIDE DEF act
<1>5. /\ Behind \in Seq(Act) /\ Len(Behind) = n
      /\ \A i \in 1..n : Behind[i] = IF i = n THEN act ELSE stack[i]
  BY <1>1, <1>2, <1>4, ExceptSeq DEF StackType
<1> QED
  BY <1>1, <1>2, <1>5 DEF act

\* What Front leaves.
LEMMA FrontFacts ==
    ASSUME NEW S, NEW s \in Seq(S), s # <<>>
    PROVE  /\ Front(s) \in Seq(S) /\ Len(Front(s)) = Len(s) - 1
           /\ \A i \in 1..Len(s) - 1 : Front(s)[i] = s[i]
<1>1. Len(s) \in Nat \ {0} /\ \A i \in 1..Len(s) - 1 : s[i] \in S
  BY EmptySeq, ElementOfSeq
<1>2. 1 \in Int /\ Len(s) - 1 \in Int
  BY <1>1
<1>3. /\ SubSeq(s, 1, Len(s) - 1) \in Seq(S)
      /\ Len(SubSeq(s, 1, Len(s) - 1)) = IF 1 <= Len(s) - 1 THEN Len(s) - 1 - 1 + 1 ELSE 0
      /\ \A i \in 1..Len(s) - 1 - 1 + 1 : SubSeq(s, 1, Len(s) - 1)[i] = s[1 + i - 1]
  BY <1>1, <1>2, SubSeqProperties
<1>4. Len(s) - 1 - 1 + 1 = Len(s) - 1 /\ \A i \in 1..Len(s) - 1 : 1 + i - 1 = i
  BY <1>1
<1> QED
  BY <1>1, <1>3, <1>4 DEF Front

\* The first activation has no file.
LEMMA StackInit == IncludeInit => StackInv
<1> SUFFICES ASSUME IncludeInit PROVE StackInv
  OBVIOUS
<1>1. Config \in RuleList
  BY DEF RuleList
<1>2. files \in [RuleList -> Seq(Text \cup File) \cup {Missing}]
  BY LinesType DEF IncludeInit
<1>3. files[Config] \in Seq(Text \cup File)
  BY <1>1, <1>2 DEF IncludeInit
<1> DEFINE act == Activation(Config, files[Config])
<1>4. act \in Act
  BY <1>1, <1>3, ActType
<1>5. stack = <<act>>
  BY DEF IncludeInit
<1> HIDE DEF act
<1>6. stack \in Seq(Act) /\ Len(stack) = 1
  BY <1>4, <1>5
<1>7. StackType
  BY <1>2, <1>6 DEF IncludeInit, StackType
<1>8. OneEach
  BY <1>6 DEF IncludeInit, OneEach
<1> QED
  BY <1>7, <1>8 DEF StackInv

\* Plain, Include, Fail, Return and Change: a file is visited when its activation
\* comes and no longer when it goes.
LEMMA StackStep == StackInv /\ Parse => StackInv'
<1> SUFFICES ASSUME StackInv, Parse PROVE StackInv'
  OBVIOUS
<1> USE DEF StackInv
<1> DEFINE n == Len(stack)
<1>1. CASE Plain
  <2>1. /\ stack # <<>> /\ Top.rest # <<>> /\ stack' = Behind
        /\ UNCHANGED <<files, visited, status, changes>>
    BY <1>1 DEF Plain, AtLine, StackType
  <2>2. /\ stack' \in Seq(Act) /\ Len(stack') = n /\ n \in Nat \ {0}
        /\ \A i \in 1..n : stack'[i].of = stack[i].of
    BY <2>1, BehindFacts, TopFacts
  <2>3. StackType'
    BY <2>1, <2>2 DEF StackType
  <2>4. OneEach'
    BY <2>1, <2>2 DEF OneEach
  <2> QED
    BY <2>3, <2>4
<1>2. CASE Include
  <2> DEFINE f == Head(Top.rest)
             act == Activation(f, files[f])
  <2>1. /\ f \in File /\ f \notin visited /\ files[f] # Missing
        /\ visited' = visited \cup {f} /\ stack' = Append(Behind, act)
        /\ stack # <<>> /\ Top.rest # <<>>
        /\ UNCHANGED <<files, parsed, status, changes>>
    BY <1>2 DEF Include, AtLine, Seen, Readable, StackType
  <2>2. f \in RuleList /\ files[f] \in Seq(Text \cup File)
    BY <2>1 DEF RuleList, StackType
  <2>3. act \in Act /\ act.of = f
    BY <2>2, ActType DEF Activation
  <2>4. n \in Nat \ {0}
    BY <2>1, TopFacts
  <2>5. /\ stack' \in Seq(Act) /\ Len(stack') = n + 1 /\ stack'[n + 1] = act
        /\ stack' # <<>>
        /\ \A i \in 1..n : stack'[i] = Behind[i]
    <3> HIDE DEF act
    <3> QED
      BY <2>1, <2>3, BehindFacts, AppendProperties
  <2>6. /\ stack'[n + 1].of = f
        /\ \A i \in 1..n : stack'[i].of = stack[i].of
    BY <2>1, <2>3, <2>5, BehindFacts
  <2>7. StackType'
    BY <2>1, <2>5 DEF StackType
  <2> HIDE DEF f, act
  <2>8. \A i \in 2..n + 1 : stack'[i].of = IF i = n + 1 THEN f ELSE stack[i].of
    BY <2>4, <2>6
  <2>9. OneEach'
    <3>1. \A i \in 2..n + 1 : i = n + 1 \/ i \in 2..n
      BY <2>4
    <3>2. \A i \in 2..n + 1 : stack'[i].of \in visited'
      BY <2>1, <2>8, <3>1 DEF OneEach
    <3>3. ASSUME NEW i \in 2..n + 1, NEW j \in 2..n + 1, i # j
          PROVE  stack'[i].of # stack'[j].of
      <4>1. \A k \in 2..n : stack[k].of # f
        BY <2>1 DEF OneEach
      <4> QED
        BY <2>8, <3>1, <3>3, <4>1 DEF OneEach
    <3>4. ASSUME NEW g \in visited'
          PROVE  \E i \in 2..n + 1 : stack'[i].of = g
      <4>1. CASE g = f
        BY <2>4, <2>8, <4>1
      <4>2. CASE g # f
        <5>1. PICK i \in 2..n : stack[i].of = g
          BY <2>1, <4>2 DEF OneEach
        <5>2. i \in 2..n + 1 /\ i # n + 1
          BY <2>4
        <5> QED
          BY <2>8, <5>1, <5>2
      <4> QED
        BY <4>1, <4>2
    <3> QED
      BY <2>5, <3>2, <3>3, <3>4 DEF OneEach
  <2> QED
    BY <2>7, <2>9
<1>3. CASE Fail
  BY <1>3, EmptySeq DEF Fail, OneEach, StackType
<1>4. CASE Return
  <2>1. /\ stack # <<>> /\ stack' = Front(stack)
        /\ visited' = visited \ {Top.of}
        /\ status' = IF n = 1 THEN "parsed" ELSE "parsing"
        /\ UNCHANGED <<files, parsed, changes>>
    BY <1>4 DEF Return, NoLonger, StackType
  <2>2. n \in Nat \ {0} /\ Top = stack[n]
    BY <2>1, TopFacts
  <2>3. /\ stack' \in Seq(Act) /\ Len(stack') = n - 1
        /\ \A i \in 1..n - 1 : stack'[i] = stack[i]
    BY <2>1, FrontFacts DEF StackType
  <2>4. StackType'
    BY <2>1, <2>2, <2>3, EmptySeq DEF StackType
  <2>5. \A i \in 2..n - 1 : stack'[i].of = stack[i].of /\ i # n /\ i \in 2..n
    BY <2>2, <2>3
  <2>6. \A i \in 2..n : i = n \/ i \in 2..n - 1
    BY <2>2
  <2>7. n > 1 => n \in 2..n
    BY <2>2
  <2>8. OneEach'
    <3>1. ASSUME NEW i \in 2..n - 1
          PROVE  stack'[i].of \in visited'
      <4>1. i \in 2..n /\ n \in 2..n /\ i # n
        BY <2>2
      <4>2. stack[i].of \in visited /\ stack[i].of # stack[n].of
        BY <4>1 DEF OneEach
      <4> QED
        BY <2>1, <2>2, <2>5, <4>2
    <3>2. \A i, j \in 2..n - 1 : i # j => stack'[i].of # stack'[j].of
      BY <2>5 DEF OneEach
    <3>3. \A g \in visited' : \E i \in 2..n - 1 : stack'[i].of = g
      BY <2>1, <2>2, <2>5, <2>6, SMTT(30) DEF OneEach
    <3> QED
      BY <2>3, <3>1, <3>2, <3>3 DEF OneEach
  <2> QED
    BY <2>4, <2>8
<1>5. CASE Change
  BY <1>5, LinesType DEF Change, OneEach, RuleList, StackType
<1> QED
  BY <1>1, <1>2, <1>3, <1>4, <1>5 DEF Parse

\* More activations than files: two would be of the same file.
LEMMA DepthFollows == StackInv => DepthBounded
<1> SUFFICES ASSUME StackInv, ~DepthBounded PROVE FALSE
  OBVIOUS
<1> DEFINE I == 2..Len(stack)
           fileOf == [i \in I |-> stack[i].of]
<1>1. Len(stack) \in Nat /\ Cardinality(File) \in Nat
  BY IncludeAssumption, FS_CardinalityType DEF StackInv, StackType
<1>2. Len(stack) > Cardinality(File) + 1
  BY <1>1 DEF DepthBounded
<1>3. IsFiniteSet(I) /\ Cardinality(I) = Len(stack) - 1
  BY <1>1, <1>2, FS_Interval
<1>4. fileOf \in [I -> File]
  BY DEF StackInv, StackType, OneEach
<1>5. \E i, j \in I : i # j /\ fileOf[i] = fileOf[j]
  <2> HIDE DEF I, fileOf
  <2> QED
    BY <1>1, <1>2, <1>3, <1>4, IncludeAssumption, FS_PigeonHole
<1> QED
  BY <1>5 DEF StackInv, OneEach

-----------------------------------------------------------------------------
(* What a list includes.                                                   *)

\* Nothing that a list includes is missing, nor includes itself.
Good(f) == \A l \in {f} \cup Below(f) : files[l] # Missing /\ l \notin Below(l)

\* What is below a list includes nothing that is not.
LEMMA BelowClosed ==
    ASSUME NEW l
    PROVE  /\ Below(l) \subseteq File /\ Included(l) \subseteq Below(l)
           /\ \A g \in Below(l) : Included(g) \subseteq Below(l)
<1>1. \A g : Included(g) \subseteq File
  BY DEF Included
<1> QED
  BY <1>1 DEF Below

\* Nothing else is below it.
LEMMA BelowLeast ==
    ASSUME NEW l, NEW S \in SUBSET File, Included(l) \subseteq S,
           \A g \in S : Included(g) \subseteq S
    PROVE  Below(l) \subseteq S
  BY DEF Below

\* What is below what is below.
LEMMA BelowBelow == ASSUME NEW l, NEW g \in Below(l) PROVE Below(g) \subseteq Below(l)
<1>1. Below(l) \in SUBSET File /\ Included(g) \subseteq Below(l)
      /\ \A h \in Below(l) : Included(h) \subseteq Below(l)
  BY BelowClosed
<1> QED
  BY <1>1, BelowLeast

\* The way down begins with an include.
LEMMA BelowFirst ==
    ASSUME NEW l, NEW f \in Below(l)
    PROVE  \E g \in Included(l) : f = g \/ f \in Below(g)
<1> DEFINE S == {h \in File : \E g \in Included(l) : h = g \/ h \in Below(g)}
<1>1. Included(l) \subseteq S
  BY DEF Included
<1>2. \A h \in S : Included(h) \subseteq S
  <2> SUFFICES ASSUME NEW h \in S, NEW k \in Included(h) PROVE k \in S
    OBVIOUS
  <2>1. PICK g \in Included(l) : h = g \/ h \in Below(g)
    OBVIOUS
  <2>2. k \in File /\ k \in Below(g)
    BY <2>1, BelowClosed DEF Included
  <2> QED
    BY <2>1, <2>2
<1>3. Below(l) \subseteq S
  <2> HIDE DEF S
  <2>1. S \in SUBSET File
    BY DEF S
  <2> QED
    BY <1>1, <1>2, <2>1, BelowLeast
<1> QED
  BY <1>3

\* A list all of whose includes are good is good: a way back to it would go
\* through one of them.
LEMMA GoodStep ==
    ASSUME NEW f, files[f] # Missing, \A g \in Included(f) : Good(g)
    PROVE  Good(f)
<1>1. \A l \in Below(f) : files[l] # Missing /\ l \notin Below(l)
  BY BelowFirst DEF Good
<1> QED
  BY <1>1 DEF Good

\* What is below a good list is good.
LEMMA GoodBelow == ASSUME NEW f, Good(f), NEW g \in Below(f) PROVE Good(g)
  BY BelowBelow DEF Good

-----------------------------------------------------------------------------
(* FlattenSeq: the first of the sequences comes first.                     *)

\* f has what the first of some sequences amount to.
Sums(f, seqs, T) ==
    /\ f[1] = seqs[1]
    /\ \A i \in 1..Len(seqs) : f[i] \in Seq(T)
    /\ \A i \in 1..Len(seqs) - 1 : f[i + 1] = f[i] \o seqs[i + 1]

\* FlattenSeq adds up what the sequences amount to, one after the other.
LEMMA FlattenDef ==
    ASSUME NEW T, NEW seqs \in Seq(Seq(T)), seqs # <<>>
    PROVE  \E f : FlattenSeq(seqs) = f[Len(seqs)] /\ Sums(f, seqs, T)
<1> DEFINE n == Len(seqs)
           Walk(f, m) == f = [i \in 1..m |-> IF i = 1 THEN seqs[i] ELSE f[i - 1] \o seqs[i]]
           Walks == {m \in Nat : \E f : Walk(f, m)}
<1>1. n \in Nat \ {0} /\ \A i \in 1..n : seqs[i] \in Seq(T)
  BY EmptySeq, ElementOfSeq
<1>2. FlattenSeq(seqs) = (CHOOSE f : Walk(f, n))[n]
  BY <1>1 DEF FlattenSeq
<1>3. 0 \in Walks
  <2> DEFINE f == [i \in 1..0 |-> <<>>]
  <2>1. Walk(f, 0)
    OBVIOUS
  <2> HIDE DEF f, Walk
  <2> QED
    BY <2>1
<1>4. \A m \in Nat : m \in Walks => m + 1 \in Walks
  <2> SUFFICES ASSUME NEW m \in Nat, m \in Walks PROVE m + 1 \in Walks
    OBVIOUS
  <2>1. PICK f : Walk(f, m)
    OBVIOUS
  <2> DEFINE g == [i \in 1..m + 1 |->
                     IF i = m + 1 THEN IF i = 1 THEN seqs[i] ELSE f[m] \o seqs[i] ELSE f[i]]
  <2>2. ASSUME NEW i \in 1..m + 1
        PROVE  g[i] = IF i = 1 THEN seqs[i] ELSE g[i - 1] \o seqs[i]
    <3>1. CASE i = m + 1
      <4>1. i # 1 => i - 1 = m /\ m \in 1..m + 1 /\ m # m + 1
        BY <3>1
      <4> QED
        BY <3>1, <4>1
    <3>2. CASE i \in 1..m
      <4>1. /\ i # m + 1 /\ i - 1 # m + 1 /\ i \in 1..m
            /\ i # 1 => i - 1 \in 1..m + 1
        BY <3>2
      <4> QED
        BY <2>1, <4>1
    <3> QED
      BY <3>1, <3>2
  <2>3. Walk(g, m + 1)
    <3> HIDE DEF g
    <3>1. g = [i \in 1..m + 1 |-> g[i]]
      BY DEF g
    <3> QED
      BY <2>2, <3>1
  <2> HIDE DEF g, Walk
  <2> QED
    BY <2>3
<1>5. \E f : Walk(f, n)
  <2> HIDE DEF Walk
  <2>1. n \in Walks
    <3> HIDE DEF Walks
    <3> QED
      BY <1>1, <1>3, <1>4, NatSetInduction
  <2> QED
    BY <2>1
<1>6. PICK f : Walk(f, n) /\ FlattenSeq(seqs) = f[n]
  <2> DEFINE u == CHOOSE f : Walk(f, n)
  <2>1. Walk(u, n)
    <3> HIDE DEF Walk
    <3> QED
      BY <1>5
  <2> HIDE DEF u, Walk
  <2>2. FlattenSeq(seqs) = u[n]
    BY <1>2 DEF u
  <2> QED
    BY <2>1, <2>2
<1>7. \A i \in 1..n : f[i] = IF i = 1 THEN seqs[i] ELSE f[i - 1] \o seqs[i]
  BY <1>6
<1> DEFINE S == {i \in Nat : i \in 1..n => f[i] \in Seq(T)}
<1>8. 0 \in S
  OBVIOUS
<1>9. \A i \in Nat : i \in S => i + 1 \in S
  <2> SUFFICES ASSUME NEW i \in Nat, i \in S, i + 1 \in 1..n PROVE f[i + 1] \in Seq(T)
    OBVIOUS
  <2>1. seqs[i + 1] \in Seq(T)
    BY <1>1
  <2>2. CASE i = 0
    BY <1>7, <2>1, <2>2
  <2>3. CASE i # 0
    <3>1. i \in 1..n /\ i + 1 # 1 /\ i + 1 - 1 = i
      BY <1>1, <2>3
    <3>2. f[i + 1] = f[i] \o seqs[i + 1]
      <4>1. f[i + 1] = IF i + 1 = 1 THEN seqs[i + 1] ELSE f[i + 1 - 1] \o seqs[i + 1]
        BY <1>7
      <4> QED
        BY <3>1, <4>1
    <3>3. f[i] \in Seq(T)
      BY <3>1
    <3> QED
      BY <2>1, <3>2, <3>3, ConcatProperties
  <2> QED
    BY <2>2, <2>3
<1>10. \A i \in Nat : i \in S
  <2> HIDE DEF S
  <2> QED
    BY <1>8, <1>9, NatSetInduction
<1>11. \A i \in 1..n : f[i] \in Seq(T)
  BY <1>10
<1> HIDE DEF Walk, S
<1>12. f[1] = seqs[1]
  BY <1>1, <1>7
<1>13. ASSUME NEW i \in 1..n - 1 PROVE f[i + 1] = f[i] \o seqs[i + 1]
  <2>1. PICK k : k = i + 1 /\ k \in 1..n /\ k # 1 /\ k - 1 = i
    BY <1>1
  <2>2. f[k] = IF k = 1 THEN seqs[k] ELSE f[k - 1] \o seqs[k]
    BY <1>7, <2>1
  <2>3. f[k] = f[i] \o seqs[k]
    BY <2>1, <2>2
  <2> QED
    BY <2>1, <2>3
<1>14. Sums(f, seqs, T)
  BY <1>11, <1>12, <1>13 DEF Sums
<1> QED
  BY <1>6, <1>14

\* The first of the sequences comes first.
LEMMA FlattenHead ==
    ASSUME NEW T, NEW seqs \in Seq(Seq(T)), seqs # <<>>
    PROVE  FlattenSeq(seqs) = Head(seqs) \o FlattenSeq(Tail(seqs))
<1>1. PICK n : n = Len(seqs) /\ n \in Nat \ {0}
  BY EmptySeq
<1>2. PICK rest : rest = Tail(seqs)
  OBVIOUS
<1>3. /\ rest \in Seq(Seq(T)) /\ Len(rest) = n - 1
      /\ \A i \in 1..n - 1 : rest[i] = seqs[i + 1] /\ rest[i] \in Seq(T)
      /\ Head(seqs) = seqs[1] /\ seqs[1] \in Seq(T)
  <2>1. /\ rest \in Seq(Seq(T)) /\ Len(rest) = n - 1
        /\ \A i \in 1..Len(rest) : rest[i] = seqs[i + 1]
        /\ Head(seqs) \in Seq(T)
    BY <1>1, <1>2, HeadTailProperties
  <2>2. Head(seqs) = seqs[1]
    BY <1>1
  <2> QED
    BY <2>1, <2>2, ElementOfSeq
<1>4. PICK f : FlattenSeq(seqs) = f[n] /\ Sums(f, seqs, T)
  BY <1>1, FlattenDef
<1>5. CASE n = 1
  <2>1. f[1] = seqs[1]
    BY <1>4 DEF Sums
  <2>2. rest = <<>>
    BY <1>1, <1>3, <1>5, EmptySeq
  <2>3. FlattenSeq(rest) = <<>>
    BY <2>2 DEF FlattenSeq
  <2> QED
    BY <1>2, <1>3, <1>4, <1>5, <2>1, <2>3, ConcatEmptySeq
<1>6. CASE n # 1
  <2>1. rest # <<>> /\ n - 1 \in Nat \ {0}
    BY <1>1, <1>3, <1>6, EmptySeq
  <2>2. PICK g : FlattenSeq(rest) = g[n - 1] /\ Sums(g, rest, T)
    BY <1>3, <2>1, FlattenDef
  <2>3. /\ f[1] = seqs[1]
        /\ \A i \in 1..n - 1 : f[i + 1] = f[i] \o seqs[i + 1]
    BY <1>1, <1>4 DEF Sums
  <2>4. /\ g[1] = rest[1]
        /\ \A i \in 1..n - 1 : g[i] \in Seq(T)
    BY <1>3, <2>2 DEF Sums
  <2>5. \A i \in 1..n - 2 : g[i + 1] = g[i] \o rest[i + 1]
    <3>1. n - 1 - 1 = n - 2
      BY <1>1
    <3> QED
      BY <1>3, <2>2, <3>1 DEF Sums
  <2> DEFINE S == {i \in Nat : i + 1 \in 1..n - 1 => f[i + 2] = seqs[1] \o g[i + 1]}
  <2>6. 0 \in S
    <3>1. 1 \in 1..n - 1 /\ 1 + 1 = 2 /\ 0 + 2 = 2 /\ 0 + 1 = 1
      BY <1>1, <2>1
    <3>2. f[2] = f[1] \o seqs[2] /\ rest[1] = seqs[2]
      <4>1. f[1 + 1] = f[1] \o seqs[1 + 1] /\ rest[1] = seqs[1 + 1]
        BY <1>3, <2>3, <3>1
      <4> QED
        BY <3>1, <4>1
    <3>3. f[2] = seqs[1] \o g[1]
      BY <2>3, <2>4, <3>2
    <3> QED
      BY <3>1, <3>3
  <2>7. ASSUME NEW i \in Nat, i \in S PROVE i + 1 \in S
    <3>0. SUFFICES ASSUME i + 1 + 1 \in 1..n - 1
                   PROVE  f[i + 1 + 2] = seqs[1] \o g[i + 1 + 1]
      <4>1. i + 1 \in Nat
        OBVIOUS
      <4> QED
        BY <4>1
    <3>1. PICK j, k, l : /\ j = i + 1 /\ k = i + 2 /\ l = i + 3
                         /\ j \in 1..n - 1 /\ j \in 1..n - 2 /\ k \in 1..n - 1
                         /\ i + 1 + 1 = k /\ i + 1 + 2 = l /\ k + 1 = l /\ j + 1 = k
      BY <1>1, <3>0
    <3>2. PICK a, b, c : a = seqs[1] /\ b = g[j] /\ c = rest[k]
      OBVIOUS
    <3>3. f[l] = f[k] \o c /\ c \in Seq(T)
      <4>1. f[k + 1] = f[k] \o seqs[k + 1] /\ rest[k] = seqs[k + 1] /\ rest[k] \in Seq(T)
        BY <1>3, <2>3, <3>1
      <4> QED
        BY <3>1, <3>2, <4>1
    <3>4. g[k] = b \o c /\ b \in Seq(T) /\ a \in Seq(T)
      <4>1. g[j + 1] = g[j] \o rest[j + 1] /\ g[j] \in Seq(T)
        BY <2>4, <2>5, <3>1
      <4> QED
        BY <1>3, <3>1, <3>2, <4>1
    <3>5. f[k] = a \o b
      <4>1. i + 1 \in 1..n - 1 => f[i + 2] = seqs[1] \o g[i + 1]
        BY <2>7
      <4> QED
        BY <3>1, <3>2, <4>1
    <3>6. (a \o b) \o c = a \o (b \o c)
      <4>1. a \in Seq(T) /\ b \in Seq(T) /\ c \in Seq(T)
        BY <3>3, <3>4
      <4> QED
        BY <4>1, ConcatAssociative, SMTT(30)
    <3>7. f[l] = a \o g[k]
      BY <3>3, <3>4, <3>5, <3>6
    <3> QED
      BY <3>1, <3>2, <3>7
  <2>8. \A i \in Nat : i \in S
    <3> HIDE DEF S
    <3> QED
      BY <2>6, <2>7, NatSetInduction
  <2>9. f[n] = seqs[1] \o g[n - 1]
    <3>1. n - 2 \in Nat /\ n - 2 + 1 \in 1..n - 1 /\ n - 2 + 2 = n /\ n - 2 + 1 = n - 1
      BY <1>1, <1>6
    <3>2. f[n - 2 + 2] = seqs[1] \o g[n - 2 + 1]
      BY <2>8, <3>1
    <3> QED
      BY <3>1, <3>2
  <2> QED
    BY <1>2, <1>3, <1>4, <2>2, <2>9
<1> QED
  BY <1>5, <1>6

\* What it makes is of what they are of.
LEMMA FlattenType ==
    ASSUME NEW T, NEW seqs \in Seq(Seq(T))
    PROVE  FlattenSeq(seqs) \in Seq(T)
<1>1. CASE seqs = <<>>
  BY <1>1, EmptySeq DEF FlattenSeq
<1>2. CASE seqs # <<>>
  <2>1. Len(seqs) \in 1..Len(seqs)
    BY <1>2, EmptySeq
  <2>2. PICK f : FlattenSeq(seqs) = f[Len(seqs)] /\ Sums(f, seqs, T)
    BY <1>2, FlattenDef
  <2> QED
    BY <2>1, <2>2 DEF Sums
<1> QED
  BY <1>1, <1>2

-----------------------------------------------------------------------------
(* The rules that a list stands for.                                       *)

\* What one line stands for.
Part(rules, line) == IF line \in File THEN rules[line] ELSE <<line>>

\* The rules of lines: those of the first, and then those of the others.
LEMMA FlatLinesFacts ==
    ASSUME NEW U, NEW rules, \A f \in File : rules[f] \in Seq(U),
           NEW lines \in Seq(U \cup File)
    PROVE  /\ FlatLines(rules, lines) \in Seq(U)
           /\ lines = <<>> => FlatLines(rules, lines) = <<>>
           /\ lines # <<>> => FlatLines(rules, lines)
                                = Part(rules, Head(lines)) \o FlatLines(rules, Tail(lines))
<1> DEFINE Parts(s) == [i \in DOMAIN s |-> Part(rules, s[i])]
<1>1. ASSUME NEW s \in Seq(U \cup File)
      PROVE  Parts(s) \in Seq(Seq(U)) /\ Len(Parts(s)) = Len(s)
  <2>1. ASSUME NEW i \in 1..Len(s) PROVE Part(rules, s[i]) \in Seq(U)
    <3>1. s[i] \in U \cup File
      BY ElementOfSeq
    <3> QED
      BY <3>1 DEF Part
  <2>2. DOMAIN s = 1..Len(s) /\ Len(s) \in Nat
    OBVIOUS
  <2> QED
    BY <2>1, <2>2
<1>2. ASSUME NEW s PROVE FlatLines(rules, s) = FlattenSeq(Parts(s))
  BY DEF FlatLines, Part
<1>3. FlatLines(rules, lines) \in Seq(U)
  <2> HIDE DEF Parts
  <2> QED
    BY <1>1, <1>2, FlattenType
<1>4. ASSUME lines = <<>> PROVE FlatLines(rules, lines) = <<>>
  <2>1. Parts(lines) = <<>>
    BY <1>1, <1>4
  <2> QED
    BY <1>2, <2>1 DEF FlattenSeq
<1>5. ASSUME lines # <<>>
      PROVE  FlatLines(rules, lines) = Part(rules, Head(lines)) \o FlatLines(rules, Tail(lines))
  <2>1. PICK rest : rest = Tail(lines)
    OBVIOUS
  <2>2. PICK n : n = Len(lines) /\ n \in Nat \ {0}
    BY <1>5, EmptySeq
  <2>3. rest \in Seq(U \cup File) /\ Len(rest) = n - 1 /\ \A i \in 1..n - 1 : rest[i] = lines[i + 1]
    BY <1>5, <2>1, <2>2, HeadTailProperties
  <2>4. Parts(lines) # <<>> /\ Head(Parts(lines)) = Part(rules, Head(lines))
    BY <1>1, <2>2
  <2>5. Tail(Parts(lines)) = Parts(rest)
    <3>1. PICK whole, part : whole = Parts(lines) /\ part = Parts(rest)
      OBVIOUS
    <3>2. /\ whole \in Seq(Seq(U)) /\ Len(whole) = n /\ whole # <<>>
          /\ part \in Seq(Seq(U)) /\ Len(part) = n - 1
      BY <1>1, <2>2, <2>3, <2>4, <3>1
    <3>3. /\ Tail(whole) \in Seq(Seq(U)) /\ Len(Tail(whole)) = n - 1
          /\ \A i \in 1..n - 1 : Tail(whole)[i] = whole[i + 1]
      BY <3>2, HeadTailProperties
    <3>4. ASSUME NEW i \in 1..n - 1 PROVE Tail(whole)[i] = part[i]
      <4>1. i + 1 \in 1..n /\ i \in DOMAIN rest /\ i + 1 \in DOMAIN lines
        BY <2>2, <2>3
      <4>2. whole[i + 1] = Part(rules, lines[i + 1]) /\ part[i] = Part(rules, rest[i])
        BY <3>1, <4>1
      <4> QED
        BY <2>3, <3>3, <4>2
    <3> QED
      BY <3>1, <3>2, <3>3, <3>4, SeqEqual, SMTT(30)
  <2> HIDE DEF Parts
  <2>6. FlattenSeq(Parts(lines)) = Head(Parts(lines)) \o FlattenSeq(Tail(Parts(lines)))
    BY <1>1, <2>4, FlattenHead
  <2> QED
    BY <1>2, <2>1, <2>4, <2>5, <2>6
<1> QED
  BY <1>3, <1>4, <1>5

\* Only the rules of the files that occur count.
LEMMA FlatAgree ==
    ASSUME NEW r, NEW s, NEW lines,
           \A i \in DOMAIN lines : lines[i] \in File => r[lines[i]] = s[lines[i]]
    PROVE  FlatLines(r, lines) = FlatLines(s, lines)
<1> DEFINE Parts(t) == [i \in DOMAIN lines |->
                          IF lines[i] \in File THEN t[lines[i]] ELSE <<lines[i]>>]
<1>1. Parts(r) = Parts(s)
  OBVIOUS
<1>2. FlatLines(r, lines) = FlattenSeq(Parts(r)) /\ FlatLines(s, lines) = FlattenSeq(Parts(s))
  BY DEF FlatLines
<1> HIDE DEF Parts
<1> QED
  BY <1>1, <1>2

\* Rules of lists may hold a word more than the rules of lines: a missing list is
\* a line that says so.
FilesType == files \in [RuleList -> Seq(Text \cup File) \cup {Missing}]
Wide == Text \cup {"missing"}
Deepest == Cardinality(RuleList)

\* The rules of every list, each include followed n times.
Flattens(F) ==
    /\ F[0] = [l \in RuleList |-> <<>>]
    /\ \A n \in 1..Deepest : F[n] = [l \in RuleList |-> FlatLines(F[n - 1], files[l])]

\* There is a list, and there are not infinitely many.
LEMMA DeepestType == Deepest \in Nat \ {0} /\ IsFiniteSet(RuleList)
<1>1. IsFiniteSet(RuleList)
  BY IncludeAssumption, FS_Singleton, FS_Union DEF RuleList
<1>2. Deepest \in Nat /\ (Deepest = 0 <=> RuleList = {})
  BY <1>1, FS_CardinalityType, FS_EmptySet DEF Deepest
<1> QED
  BY <1>1, <1>2 DEF RuleList

\* Flat follows every include as often as there are lists.
LEMMA FlatDef == \E F : Flat = F[Deepest] /\ Flattens(F)
<1> DEFINE n == Deepest
           Step(r) == [l \in RuleList |-> FlatLines(r, files[l])]
           Walk(f, m) == f = [i \in 0..m |-> [l \in RuleList |->
                                IF i = 0 THEN <<>> ELSE FlatLines(f[i - 1], files[l])]]
           Walks == {m \in Nat : \E f : Walk(f, m)}
<1>0. n \in Nat \ {0}
  BY DeepestType
<1>1. Flat = (CHOOSE f : Walk(f, n))[n]
  BY Zenon DEF Flat, Deepest
<1> HIDE DEF n
<1>2. 0 \in Walks
  <2> DEFINE f == [i \in 0..0 |-> [l \in RuleList |-> <<>>]]
  <2>1. Walk(f, 0)
    OBVIOUS
  <2> HIDE DEF f, Walk
  <2> QED
    BY <2>1
<1>3. \A m \in Nat : m \in Walks => m + 1 \in Walks
  <2> SUFFICES ASSUME NEW m \in Nat, m \in Walks PROVE m + 1 \in Walks
    OBVIOUS
  <2>1. PICK f : Walk(f, m)
    OBVIOUS
  <2> DEFINE g == [i \in 0..m + 1 |->
                     IF i = m + 1 THEN [l \in RuleList |-> FlatLines(f[m], files[l])] ELSE f[i]]
  <2>2. ASSUME NEW i \in 0..m + 1
        PROVE  g[i] = [l \in RuleList |-> IF i = 0 THEN <<>> ELSE FlatLines(g[i - 1], files[l])]
    <3>1. CASE i = 0
      BY <2>1, <3>1
    <3>2. CASE i = m + 1
      <4>1. i # 0 /\ i - 1 = m /\ i - 1 # m + 1 /\ i - 1 \in 0..m + 1
        BY <3>2
      <4>2. g[i - 1] = f[m] /\ g[i] = [l \in RuleList |-> FlatLines(f[m], files[l])]
        BY <3>2, <4>1
      <4> HIDE DEF g
      <4> QED
        BY <4>1, <4>2
    <3>3. CASE i \in 1..m
      <4>1. i # m + 1 /\ i - 1 # m + 1 /\ i \in 0..m /\ i - 1 \in 0..m + 1 /\ i # 0
        BY <3>3
      <4>2. g[i - 1] = f[i - 1] /\ g[i] = f[i]
        BY <4>1
      <4>3. f[i] = [l \in RuleList |-> IF i = 0 THEN <<>> ELSE FlatLines(f[i - 1], files[l])]
        BY <2>1, <4>1
      <4> HIDE DEF g, Walk
      <4> QED
        BY <4>2, <4>3
    <3> QED
      BY <3>1, <3>2, <3>3
  <2>3. Walk(g, m + 1)
    <3> HIDE DEF g
    <3>1. g = [i \in 0..m + 1 |-> g[i]]
      BY DEF g
    <3> QED
      BY <2>2, <3>1
  <2> HIDE DEF g, Walk
  <2> QED
    BY <2>3
<1>4. \E f : Walk(f, n)
  <2> HIDE DEF Walk
  <2>1. n \in Walks
    <3> HIDE DEF Walks
    <3> QED
      BY <1>0, <1>2, <1>3, NatSetInduction
  <2> QED
    BY <2>1
<1>5. PICK F : Walk(F, n) /\ Flat = F[n]
  <2> DEFINE u == CHOOSE f : Walk(f, n)
  <2>1. Walk(u, n)
    <3> HIDE DEF Walk
    <3> QED
      BY <1>4
  <2> HIDE DEF u, Walk
  <2>2. Flat = u[n]
    BY <1>1 DEF u
  <2> QED
    BY <2>1, <2>2
<1>6. \A i \in 0..n : F[i] = [l \in RuleList |->
                                IF i = 0 THEN <<>> ELSE FlatLines(F[i - 1], files[l])]
  BY <1>5
<1>7. F[0] = [l \in RuleList |-> <<>>]
  BY <1>0, <1>6
<1>8. ASSUME NEW i \in 1..n PROVE F[i] = [l \in RuleList |-> FlatLines(F[i - 1], files[l])]
  BY <1>0, <1>6
<1> HIDE DEF Walk
<1> QED
  BY <1>5, <1>7, <1>8 DEF Flattens, n

\* The lines of any list, a missing one too.
LEMMA WideLines ==
    ASSUME FilesType, NEW l \in RuleList
    PROVE  files[l] \in Seq(Wide \cup File)
<1>1. Missing \in Seq(Wide \cup File)
  BY DEF Missing, Wide
<1>2. ASSUME NEW s \in Seq(Text \cup File) PROVE s \in Seq(Wide \cup File)
  BY DEF Wide
<1> QED
  BY <1>1, <1>2 DEF FilesType

\* However often the includes are followed, there are rules for every list.
LEMMA FlattensType ==
    ASSUME FilesType, NEW F, Flattens(F)
    PROVE  \A n \in 0..Deepest : F[n] \in [RuleList -> Seq(Wide)]
<1> DEFINE S == {n \in Nat : n <= Deepest => F[n] \in [RuleList -> Seq(Wide)]}
<1>0. Deepest \in Nat
  BY DeepestType
<1>1. 0 \in S
  <2>1. F[0] = [l \in RuleList |-> <<>>]
    BY DEF Flattens
  <2> QED
    BY <2>1, EmptySeq
<1>2. \A n \in Nat : n \in S => n + 1 \in S
  <2> SUFFICES ASSUME NEW n \in Nat, n \in S, n + 1 <= Deepest
               PROVE  F[n + 1] \in [RuleList -> Seq(Wide)]
    OBVIOUS
  <2>1. PICK was, is, m : was = F[n] /\ is = F[m] /\ m = n + 1 /\ m \in 1..Deepest /\ m - 1 = n
    BY <1>0
  <2>2. was \in [RuleList -> Seq(Wide)]
    BY <1>0, <2>1
  <2>3. is = [l \in RuleList |-> FlatLines(was, files[l])]
    BY <2>1 DEF Flattens
  <2>4. ASSUME NEW l \in RuleList PROVE FlatLines(was, files[l]) \in Seq(Wide)
    <3>1. files[l] \in Seq(Wide \cup File)
      BY WideLines
    <3>2. \A f \in File : was[f] \in Seq(Wide)
      BY <2>2 DEF RuleList
    <3> QED
      BY <3>1, <3>2, FlatLinesFacts
  <2>5. is \in [RuleList -> Seq(Wide)]
    BY <2>3, <2>4
  <2> QED
    BY <2>1, <2>5
<1>3. \A n \in Nat : n \in S
  <2> HIDE DEF S
  <2> QED
    BY <1>1, <1>2, NatSetInduction
<1> QED
  BY <1>0, <1>3

\* Flat has rules for every list.
LEMMA FlatType == FilesType => Flat \in [RuleList -> Seq(Wide)]
<1> SUFFICES ASSUME FilesType PROVE Flat \in [RuleList -> Seq(Wide)]
  OBVIOUS
<1>1. PICK F : Flat = F[Deepest] /\ Flattens(F)
  BY FlatDef
<1>2. Deepest \in 0..Deepest
  BY DeepestType
<1> QED
  BY <1>1, <1>2, FlattensType

\* The lists a list is made of, and how many they are.
Within(l) == {l} \cup Below(l)

\* A list is made of more lists than any that it includes.
LEMMA WithinFacts ==
    ASSUME NEW l \in RuleList, Good(l)
    PROVE  /\ Cardinality(Within(l)) \in 1..Deepest
           /\ \A g \in Included(l) : Cardinality(Within(g)) \in 1..Cardinality(Within(l)) - 1
           /\ \A g \in Included(l) : g \in RuleList /\ Good(g)
<1>1. /\ Below(l) \subseteq File /\ Included(l) \subseteq Below(l)
  BY BelowClosed
<1>2. l \notin Below(l)
  BY DEF Good
<1>3. /\ Within(l) \in SUBSET RuleList /\ IsFiniteSet(RuleList)
      /\ Within(l) # {}
  BY <1>1, DeepestType DEF Within, RuleList
<1>4. /\ IsFiniteSet(Within(l)) /\ Cardinality(Within(l)) \in 1..Deepest
  <2>1. /\ IsFiniteSet(Within(l)) /\ Cardinality(Within(l)) <= Deepest
    BY <1>3, FS_Subset DEF Deepest
  <2>2. Cardinality(Within(l)) \in Nat /\ Cardinality(Within(l)) # 0
    BY <1>3, <2>1, FS_CardinalityType, FS_EmptySet
  <2> QED
    BY <2>1, <2>2, DeepestType
<1>5. IsFiniteSet(Below(l)) /\ Cardinality(Below(l)) = Cardinality(Within(l)) - 1
  <2>1. Below(l) = Within(l) \ {l} /\ l \in Within(l)
    BY <1>2 DEF Within
  <2> QED
    BY <1>4, <2>1, FS_RemoveElement
<1>6. ASSUME NEW g \in Included(l)
      PROVE  Cardinality(Within(g)) \in 1..Cardinality(Within(l)) - 1
  <2>1. Within(g) \in SUBSET Below(l) /\ Within(g) # {}
    BY <1>1, BelowBelow DEF Within
  <2>2. IsFiniteSet(Within(g)) /\ Cardinality(Within(g)) <= Cardinality(Below(l))
    BY <1>5, <2>1, FS_Subset
  <2>3. Cardinality(Within(g)) \in Nat /\ Cardinality(Within(g)) # 0
    BY <2>1, <2>2, FS_CardinalityType, FS_EmptySet
  <2> QED
    BY <1>4, <1>5, <2>2, <2>3
<1>7. \A g \in Included(l) : g \in RuleList /\ Good(g)
  BY <1>1, GoodBelow DEF RuleList
<1> QED
  BY <1>4, <1>6, <1>7

\* A file in a line is included.
LEMMA IncludedFacts ==
    ASSUME NEW l, files[l] # Missing, NEW i \in DOMAIN files[l], files[l][i] \in File
    PROVE  files[l][i] \in Included(l)
  BY DEF Included, ToSet

\* Once as deep as a list has lists within, nothing changes any more.
LEMMA FlatStable ==
    ASSUME NEW F, Flattens(F)
    PROVE  \A l \in RuleList : Good(l) =>
             \A n, m \in Cardinality(Within(l))..Deepest : F[n][l] = F[m][l]
<1> DEFINE Stable(k) == \A l \in RuleList : Good(l) /\ Cardinality(Within(l)) <= k =>
                          \A n, m \in k..Deepest : F[n][l] = F[m][l]
           S == {k \in Nat : Stable(k)}
<1>0. Deepest \in Nat
  BY DeepestType
<1>1. 0 \in S
  BY WithinFacts
<1>2. \A k \in Nat : k \in S => k + 1 \in S
  <2> SUFFICES ASSUME NEW k \in Nat, Stable(k),
                      NEW l \in RuleList, Good(l), Cardinality(Within(l)) <= k + 1,
                      NEW n \in k + 1..Deepest, NEW m \in k + 1..Deepest
               PROVE  F[n][l] = F[m][l]
    OBVIOUS
  <2>1. PICK p, q : p = F[n - 1] /\ q = F[m - 1]
    OBVIOUS
  <2>2. F[n][l] = FlatLines(p, files[l]) /\ F[m][l] = FlatLines(q, files[l])
    <3>1. n \in 1..Deepest /\ m \in 1..Deepest
      BY <1>0
    <3>2. F[n] = [x \in RuleList |-> FlatLines(p, files[x])]
      BY <2>1, <3>1 DEF Flattens
    <3>3. F[m] = [x \in RuleList |-> FlatLines(q, files[x])]
      BY <2>1, <3>1 DEF Flattens
    <3> QED
      BY <3>2, <3>3
  <2>3. ASSUME NEW g \in Included(l) PROVE p[g] = q[g]
    <3>1. g \in RuleList /\ Good(g) /\ Cardinality(Within(g)) \in Nat /\ Cardinality(Within(g)) <= k
      BY WithinFacts
    <3>2. n - 1 \in k..Deepest /\ m - 1 \in k..Deepest
      BY <1>0
    <3> QED
      BY <2>1, <3>1, <3>2
  <2>4. files[l] # Missing
    BY DEF Good
  <2>5. FlatLines(p, files[l]) = FlatLines(q, files[l])
    BY <2>3, <2>4, IncludedFacts, FlatAgree
  <2> QED
    BY <2>2, <2>5
<1>3. \A k \in Nat : k \in S
  <2> HIDE DEF S
  <2> QED
    BY <1>1, <1>2, NatSetInduction
<1>4. ASSUME NEW l \in RuleList, Good(l)
      PROVE  \A n, m \in Cardinality(Within(l))..Deepest : F[n][l] = F[m][l]
  <2>1. Cardinality(Within(l)) \in Nat
    BY <1>0, <1>4, WithinFacts
  <2> QED
    BY <1>3, <1>4, <2>1
<1> QED
  BY <1>4

\* The rules of a list are those of its lines.
LEMMA FlatFix ==
    ASSUME NEW l \in RuleList, Good(l)
    PROVE  Flat[l] = FlatLines(Flat, files[l])
<1>1. PICK F : Flat = F[Deepest] /\ Flattens(F)
  BY FlatDef
<1>2. Deepest \in Nat \ {0}
  BY DeepestType
<1>3. PICK p : p = F[Deepest - 1]
  OBVIOUS
<1>4. Flat[l] = FlatLines(p, files[l])
  <2>1. F[Deepest] = [x \in RuleList |-> FlatLines(p, files[x])]
    BY <1>1, <1>2, <1>3 DEF Flattens
  <2> QED
    BY <1>1, <2>1
<1>5. ASSUME NEW g \in Included(l) PROVE p[g] = Flat[g]
  <2>1. /\ g \in RuleList /\ Good(g)
        /\ Deepest - 1 \in Cardinality(Within(g))..Deepest
        /\ Deepest \in Cardinality(Within(g))..Deepest
    BY <1>2, WithinFacts
  <2> QED
    BY <1>1, <1>3, <2>1, FlatStable
<1>6. files[l] # Missing
  BY DEF Good
<1> QED
  BY <1>4, <1>5, <1>6, IncludedFacts, FlatAgree

-----------------------------------------------------------------------------
(* The trail of the parse: why a list that fails is improper, and one that *)
(* ends is not.                                                            *)

\* Nothing that is derived from the files changes when they do not.
LEMMA BelowKept ==
    ASSUME files' = files
    PROVE  \A l : Below(l)' = Below(l) /\ Included(l)' = Included(l) /\ (Good(l)' <=> Good(l))
  BY DEF Below, Included, Good

\* Nor do the rules of the lists.
LEMMA FlatKept == ASSUME files' = files PROVE Flat' = Flat
  BY DEF Flat

\* The first of a sequence, and the others.
LEMMA ToSetTail ==
    ASSUME NEW S, NEW s \in Seq(S), s # <<>>
    PROVE  ToSet(s) = {Head(s)} \cup ToSet(Tail(s))
<1>1. PICK n, rest : n = Len(s) /\ n \in Nat \ {0} /\ rest = Tail(s)
  BY EmptySeq
<1>2. rest \in Seq(S) /\ Len(rest) = n - 1 /\ \A i \in 1..n - 1 : rest[i] = s[i + 1]
  BY <1>1, HeadTailProperties
<1>3. DOMAIN s = 1..n /\ DOMAIN rest = 1..n - 1 /\ Head(s) = s[1]
  BY <1>1, <1>2
<1>4. ASSUME NEW x \in ToSet(s) PROVE x \in {Head(s)} \cup ToSet(rest)
  <2>1. PICK i \in 1..n : s[i] = x
    BY <1>3 DEF ToSet
  <2>2. CASE i = 1
    BY <1>3, <2>1, <2>2
  <2>3. CASE i # 1
    <3>1. PICK j : j = i - 1 /\ j \in 1..n - 1 /\ j + 1 = i
      BY <1>1, <2>3
    <3>2. rest[j] = x
      BY <1>2, <2>1, <3>1
    <3> QED
      BY <1>3, <3>1, <3>2 DEF ToSet
  <2> QED
    BY <2>2, <2>3
<1>5. ASSUME NEW x \in ToSet(rest) PROVE x \in ToSet(s)
  <2>1. PICK j \in 1..n - 1 : rest[j] = x
    BY <1>3 DEF ToSet
  <2>2. PICK i : i = j + 1 /\ i \in 1..n
    BY <1>1
  <2>3. s[i] = x
    BY <1>2, <2>1, <2>2
  <2> QED
    BY <1>3, <2>2, <2>3 DEF ToSet
<1>6. Head(s) \in ToSet(s)
  BY <1>1, <1>3 DEF ToSet
<1> QED
  BY <1>1, <1>4, <1>5, <1>6

\* What an activation's list includes is behind it, is good, or is above it.
Settled(i, g) == \/ g \in ToSet(stack[i].rest)
                 \/ Good(g)
                 \/ i < Len(stack) /\ g = stack[i + 1].of

\* Every list of the stack is below those under it, and settled.
Trail ==
    /\ stack[1].of = Config
    /\ \A i, j \in 1..Len(stack) : i < j => stack[j].of \in Below(stack[i].of)
    /\ \A i \in 1..Len(stack) : files[stack[i].of] # Missing
    /\ \A i \in 1..Len(stack) : ToSet(stack[i].rest) \cap File \subseteq Included(stack[i].of)
    /\ \A i \in 1..Len(stack) : \A g \in Included(stack[i].of) : Settled(i, g)

\* No file has been changed yet.
Parsing == status = "parsing" /\ changes = 0

\* Where the parse begins nothing is behind.
LEMMA TrailInit == IncludeInit => Trail
<1> SUFFICES ASSUME IncludeInit PROVE Trail
  OBVIOUS
<1> DEFINE act == Activation(Config, files[Config])
<1>1. stack = <<act>> /\ files[Config] # Missing
  BY DEF IncludeInit
<1>2. act.of = Config /\ act.rest = files[Config]
  BY DEF Activation
<1> HIDE DEF act
<1>3. Len(stack) = 1 /\ stack[1] = act
  BY <1>1
<1>4. ToSet(files[Config]) \cap File = Included(Config)
  BY <1>1 DEF Included
<1>5. \A i \in 1..1 : i = 1
  OBVIOUS
<1> QED
  BY <1>1, <1>2, <1>3, <1>4, <1>5 DEF Trail, Settled

\* The line behind: nothing else is left of the top activation.
LEMMA TrailPlain ==
    ASSUME StackInv, Trail, Plain
    PROVE  Trail'
<1>1. PICK n : n = Len(stack)
  OBVIOUS
<1>2. /\ stack # <<>> /\ Top.rest # <<>> /\ stack' = Behind /\ files' = files
      /\ Head(Top.rest) \in Text
  BY DEF Plain, AtLine, StackInv, StackType
<1>3. /\ n \in Nat \ {0} /\ Top = stack[n] /\ Top.rest \in Seq(Text \cup File)
  BY <1>1, <1>2, TopFacts DEF StackInv
<1>4. /\ Len(stack') = n
      /\ \A i \in 1..n : stack'[i].of = stack[i].of
      /\ \A i \in 1..n : i # n => stack'[i].rest = stack[i].rest
      /\ stack'[n].rest = Tail(Top.rest)
  <2>1. /\ Len(Behind) = n /\ \A i \in 1..n - 1 : Behind[i] = stack[i]
        /\ Behind[n] = Activation(Top.of, Tail(Top.rest))
        /\ \A i \in 1..n : Behind[i].of = stack[i].of
    BY <1>1, <1>2, BehindFacts DEF StackInv
  <2>2. \A i \in 1..n : i # n => i \in 1..n - 1
    BY <1>3
  <2> QED
    BY <1>2, <2>1, <2>2 DEF Activation
<1>5. ToSet(Top.rest) \cap File = ToSet(stack'[n].rest) \cap File
  <2>1. ToSet(Top.rest) = {Head(Top.rest)} \cup ToSet(Tail(Top.rest))
    BY <1>2, <1>3, ToSetTail
  <2>2. Head(Top.rest) \notin File
    BY <1>2, IncludeAssumption
  <2> QED
    BY <1>4, <2>1, <2>2
<1>6. \A i \in 1..n : ToSet(stack'[i].rest) \cap File = ToSet(stack[i].rest) \cap File
  BY <1>3, <1>4, <1>5
<1>7. \A l : Below(l)' = Below(l) /\ Included(l)' = Included(l) /\ (Good(l)' <=> Good(l))
  BY <1>2, BelowKept
<1>8. 1 \in 1..n /\ \A i \in 1..n : i < n => i + 1 \in 1..n
  BY <1>3
<1>9. stack'[1].of = Config
  BY <1>1, <1>4, <1>8 DEF Trail
<1>10. ASSUME NEW i \in 1..n, NEW j \in 1..n, i < j
       PROVE  (stack[j].of)' \in Below(stack[i].of)'
  <2>1. stack[j].of \in Below(stack[i].of)
    BY <1>1, <1>10 DEF Trail
  <2> QED
    BY <1>4, <1>7, <2>1
<1>11. ASSUME NEW i \in 1..n
       PROVE  /\ files'[stack'[i].of] # Missing
              /\ ToSet(stack'[i].rest) \cap File \subseteq Included(stack[i].of)'
  <2>1. /\ files[stack[i].of] # Missing
        /\ ToSet(stack[i].rest) \cap File \subseteq Included(stack[i].of)
    BY <1>1 DEF Trail
  <2> QED
    BY <1>2, <1>4, <1>6, <1>7, <2>1
<1>12. ASSUME NEW i \in 1..n, NEW g \in Included(stack[i].of)'
       PROVE  Settled(i, g)'
  <2>1. g \in Included(stack[i].of) /\ g \in File
    BY <1>4, <1>7, BelowClosed
  <2>2. Settled(i, g)
    BY <1>1, <2>1 DEF Trail
  <2>3. g \in ToSet(stack[i].rest) => g \in ToSet(stack'[i].rest)
    BY <1>6, <2>1
  <2>4. i < Len(stack) /\ g = stack[i + 1].of => i < Len(stack') /\ g = stack'[i + 1].of
    BY <1>1, <1>4, <1>8
  <2> QED
    BY <1>7, <2>2, <2>3, <2>4 DEF Settled
<1> QED
  BY <1>4, <1>9, <1>10, <1>11, <1>12 DEF Trail

\* A file that is met is below every list that is being parsed.
LEMMA HeadBelow ==
    ASSUME StackInv, Trail, stack # <<>>, Top.rest # <<>>, Head(Top.rest) \in File
    PROVE  \A i \in 1..Len(stack) : Head(Top.rest) \in Below(stack[i].of)
<1>1. PICK n, f : n = Len(stack) /\ f = Head(Top.rest)
  OBVIOUS
<1>2. /\ n \in Nat \ {0} /\ Top = stack[n] /\ Top.rest \in Seq(Text \cup File) /\ n \in 1..n
  BY <1>1, TopFacts DEF StackInv
<1>3. f \in Included(stack[n].of)
  <2>1. f \in ToSet(Top.rest)
    BY <1>1, <1>2, ToSetTail
  <2> QED
    BY <1>1, <1>2, <2>1 DEF Trail
<1>4. ASSUME NEW i \in 1..n PROVE f \in Below(stack[i].of)
  <2>1. f \in Below(stack[n].of)
    BY <1>3, BelowClosed
  <2>2. i < n => stack[n].of \in Below(stack[i].of)
    BY <1>1, <1>2 DEF Trail
  <2>3. i < n \/ i = n
    BY <1>2
  <2> QED
    BY <2>1, <2>2, <2>3, BelowBelow
<1> QED
  BY <1>1, <1>4

\* An include: its file is on top, and was included there.
LEMMA TrailInclude ==
    ASSUME StackInv, Trail, Include
    PROVE  Trail'
<1>1. PICK n, f : n = Len(stack) /\ f = Head(Top.rest)
  OBVIOUS
<1>2. /\ stack # <<>> /\ Top.rest # <<>> /\ files' = files
      /\ f \in File /\ files[f] # Missing
      /\ stack' = Append(Behind, Activation(f, files[f]))
  BY <1>1 DEF Include, AtLine, Readable, StackInv, StackType
<1>3. /\ n \in Nat \ {0} /\ Top = stack[n] /\ Top.rest \in Seq(Text \cup File)
  BY <1>1, <1>2, TopFacts DEF StackInv
<1>4. /\ Len(stack') = n + 1
      /\ \A i \in 1..n : stack'[i].of = stack[i].of
      /\ \A i \in 1..n : i # n => stack'[i].rest = stack[i].rest
      /\ stack'[n].rest = Tail(Top.rest)
      /\ stack'[n + 1].of = f /\ stack'[n + 1].rest = files[f]
  <2>1. /\ Behind \in Seq(Act) /\ Len(Behind) = n /\ \A i \in 1..n - 1 : Behind[i] = stack[i]
        /\ Behind[n] = Activation(Top.of, Tail(Top.rest))
        /\ \A i \in 1..n : Behind[i].of = stack[i].of
    BY <1>1, <1>2, BehindFacts DEF StackInv
  <2>2. PICK act : act = Activation(f, files[f])
    OBVIOUS
  <2>3. act \in Act /\ act.of = f /\ act.rest = files[f]
    <3>1. f \in RuleList /\ files[f] \in Seq(Text \cup File)
      BY <1>2 DEF RuleList, StackInv, StackType
    <3> QED
      BY <2>2, <3>1, ActType DEF Activation
  <2>4. /\ Len(stack') = n + 1 /\ stack'[n + 1] = act
        /\ \A i \in 1..n : stack'[i] = Behind[i]
    BY <1>2, <2>1, <2>2, <2>3, AppendProperties
  <2>5. n \in 1..n /\ \A i \in 1..n : i # n => i \in 1..n - 1
    BY <1>3
  <2>6. stack'[n].rest = Tail(Top.rest)
    <3>1. stack'[n] = Activation(Top.of, Tail(Top.rest))
      BY <2>1, <2>4, <2>5
    <3>2. Activation(Top.of, Tail(Top.rest)).rest = Tail(Top.rest)
      BY DEF Activation
    <3> QED
      BY <3>1, <3>2
  <2>7. \A i \in 1..n : i # n => stack'[i].rest = stack[i].rest
    BY <2>1, <2>4, <2>5
  <2> QED
    BY <2>1, <2>3, <2>4, <2>6, <2>7
<1>5. ToSet(Top.rest) = {f} \cup ToSet(stack'[n].rest)
  <2>1. ToSet(Top.rest) = {Head(Top.rest)} \cup ToSet(Tail(Top.rest))
    BY <1>2, <1>3, ToSetTail
  <2> QED
    BY <1>1, <1>4, <2>1
<1>6. \A l : Below(l)' = Below(l) /\ Included(l)' = Included(l) /\ (Good(l)' <=> Good(l))
  BY <1>2, BelowKept
<1>7. /\ 1 \in 1..n /\ n \in 1..n /\ \A i \in 1..n : i < n => i + 1 \in 1..n
      /\ \A i \in 1..n + 1 : i = n + 1 \/ i \in 1..n
      /\ \A i \in 1..n : i < n \/ i = n
  BY <1>3
<1>8. stack'[1].of = Config
  BY <1>1, <1>4, <1>7 DEF Trail
<1>10. \A i \in 1..n : f \in Below(stack[i].of)
  BY <1>1, <1>2, HeadBelow
<1>11. ASSUME NEW i \in 1..n + 1, NEW j \in 1..n + 1, i < j
       PROVE  (stack[j].of)' \in Below(stack[i].of)'
  <2>1. i \in 1..n /\ stack'[i].of = stack[i].of
    BY <1>3, <1>4, <1>11
  <2>2. stack'[j].of \in Below(stack[i].of)
    <3>1. CASE j = n + 1
      BY <1>4, <1>10, <2>1, <3>1
    <3>2. CASE j \in 1..n
      <4>1. stack[j].of \in Below(stack[i].of)
        BY <1>1, <1>11, <2>1, <3>2 DEF Trail
      <4> QED
        BY <1>4, <3>2, <4>1
    <3> QED
      BY <1>7, <3>1, <3>2
  <2> QED
    BY <1>6, <2>1, <2>2
<1>12. ASSUME NEW i \in 1..n + 1
       PROVE  /\ files'[stack'[i].of] # Missing
              /\ ToSet(stack'[i].rest) \cap File \subseteq Included(stack[i].of)'
  <2>1. CASE i = n + 1
    <3>1. ToSet(files[f]) \cap File = Included(f)
      BY <1>2 DEF Included
    <3> QED
      BY <1>2, <1>4, <1>6, <2>1, <3>1
  <2>2. CASE i \in 1..n
    <3>1. /\ files[stack[i].of] # Missing
          /\ ToSet(stack[i].rest) \cap File \subseteq Included(stack[i].of)
      BY <1>1, <2>2 DEF Trail
    <3>2. ToSet(stack'[i].rest) \subseteq ToSet(stack[i].rest)
      BY <1>3, <1>4, <1>5, <2>2
    <3> QED
      BY <1>2, <1>4, <1>6, <2>2, <3>1, <3>2
  <2> QED
    BY <1>7, <2>1, <2>2
<1>13. ASSUME NEW i \in 1..n + 1, NEW g \in Included(stack[i].of)'
       PROVE  Settled(i, g)'
  <2>1. CASE i = n + 1
    <3>1. g \in Included(f)
      BY <1>4, <1>6, <2>1
    <3>2. g \in ToSet(stack'[i].rest)
      BY <1>2, <1>4, <2>1, <3>1 DEF Included
    <3> QED
      BY <3>2 DEF Settled
  <2>2. CASE i \in 1..n
    <3>1. g \in Included(stack[i].of)
      BY <1>4, <1>6, <2>2
    <3>2. Settled(i, g)
      BY <1>1, <2>2, <3>1 DEF Trail
    <3>3. CASE i < n
      <4>1. i + 1 \in 1..n /\ i # n /\ i < n + 1
        BY <1>3, <3>3
      <4> QED
        BY <1>1, <1>4, <1>6, <2>2, <3>2, <4>1 DEF Settled
    <3>4. CASE i = n
      <4>1. ~(i < Len(stack)) /\ i < n + 1
        BY <1>1, <1>3, <3>4
      <4>2. g \in ToSet(stack[n].rest) => g = f \/ g \in ToSet(stack'[n].rest)
        BY <1>3, <1>5
      <4> QED
        BY <1>4, <1>6, <3>2, <3>4, <4>1, <4>2 DEF Settled
    <3> QED
      BY <1>7, <2>2, <3>3, <3>4
  <2> QED
    BY <1>7, <2>1, <2>2
<1> QED
  BY <1>4, <1>8, <1>11, <1>12, <1>13 DEF Trail

\* A list that has been parsed to its end is good: what it includes is.
LEMMA TopGood ==
    ASSUME StackInv, Trail, stack # <<>>, Top.rest = <<>>
    PROVE  Good(Top.of)
<1>1. PICK n : n = Len(stack)
  OBVIOUS
<1>2. n \in Nat \ {0} /\ Top = stack[n] /\ n \in 1..n /\ ~(n < n)
  BY <1>1, TopFacts DEF StackInv
<1>3. ToSet(Top.rest) = {}
  BY DEF ToSet
<1>4. \A g \in Included(Top.of) : Settled(n, g)
  BY <1>1, <1>2 DEF Trail
<1>5. \A g \in Included(Top.of) : Good(g)
  BY <1>1, <1>2, <1>3, <1>4 DEF Settled
<1>6. files[Top.of] # Missing
  BY <1>1, <1>2 DEF Trail
<1> QED
  BY <1>5, <1>6, GoodStep

\* The caller goes on behind a list that is good.
LEMMA TrailReturn ==
    ASSUME StackInv, Trail, Return, Len(stack) # 1
    PROVE  Trail'
<1>1. PICK n : n = Len(stack)
  OBVIOUS
<1>2. stack # <<>> /\ Top.rest = <<>> /\ files' = files /\ stack' = Front(stack)
  BY DEF Return, StackInv, StackType
<1>3. n \in Nat \ {0} /\ n # 1 /\ Top = stack[n]
  BY <1>1, <1>2, TopFacts DEF StackInv
<1>4. /\ Len(stack') = n - 1
      /\ \A i \in 1..n - 1 : stack'[i] = stack[i]
  BY <1>1, <1>2, FrontFacts DEF StackInv, StackType
<1>5. \A l : Below(l)' = Below(l) /\ Included(l)' = Included(l) /\ (Good(l)' <=> Good(l))
  BY <1>2, BelowKept
<1>6. Good(stack[n].of)
  BY <1>2, <1>3, TopGood
<1>7. /\ 1 \in 1..n - 1 /\ \A i \in 1..n - 1 : i \in 1..n
      /\ \A i \in 1..n - 1 : i = n - 1 \/ (i < n - 1 /\ i + 1 \in 1..n - 1)
      /\ n - 1 + 1 = n
  BY <1>3
<1>8. stack'[1].of = Config
  BY <1>1, <1>4, <1>7 DEF Trail
<1>9. ASSUME NEW i \in 1..n - 1, NEW j \in 1..n - 1, i < j
      PROVE  (stack[j].of)' \in Below(stack[i].of)'
  <2>1. stack[j].of \in Below(stack[i].of)
    BY <1>1, <1>7, <1>9 DEF Trail
  <2> QED
    BY <1>4, <1>5, <2>1
<1>10. ASSUME NEW i \in 1..n - 1
       PROVE  /\ files'[stack'[i].of] # Missing
              /\ ToSet(stack'[i].rest) \cap File \subseteq Included(stack[i].of)'
  <2>1. /\ files[stack[i].of] # Missing
        /\ ToSet(stack[i].rest) \cap File \subseteq Included(stack[i].of)
    BY <1>1, <1>7 DEF Trail
  <2> QED
    BY <1>2, <1>4, <1>5, <2>1
<1>11. ASSUME NEW i \in 1..n - 1, NEW g \in Included(stack[i].of)'
       PROVE  Settled(i, g)'
  <2>1. g \in Included(stack[i].of)
    BY <1>4, <1>5
  <2>2. Settled(i, g)
    BY <1>1, <1>7, <2>1 DEF Trail
  <2>3. CASE i = n - 1
    <3>1. stack[i + 1] = stack[n]
      BY <1>7, <2>3
    <3>2. g \in ToSet(stack'[i].rest) \/ Good(g)
      BY <1>4, <1>6, <2>2, <3>1 DEF Settled
    <3> QED
      BY <1>5, <3>2 DEF Settled
  <2>4. CASE i < n - 1 /\ i + 1 \in 1..n - 1
    <3>1. stack'[i + 1] = stack[i + 1] /\ stack'[i] = stack[i] /\ i < Len(stack')
      BY <1>4, <2>4
    <3> QED
      BY <1>5, <2>2, <3>1 DEF Settled
  <2> QED
    BY <1>7, <2>3, <2>4
<1> QED
  BY <1>4, <1>8, <1>9, <1>10, <1>11 DEF Trail

\* A parse that fails has met a list that is missing or within itself.
LEMMA FailImproper ==
    ASSUME StackInv, Trail, Fail
    PROVE  ~Proper
<1>1. PICK n, f : n = Len(stack) /\ f = Head(Top.rest)
  OBVIOUS
<1>2. /\ stack # <<>> /\ Top.rest # <<>> /\ f \in File
      /\ f \in visited \/ files[f] = Missing
  BY <1>1 DEF Fail, AtLine, Seen, Readable, StackInv, StackType
<1>3. /\ n \in Nat \ {0} /\ Top = stack[n] /\ Top.rest \in Seq(Text \cup File)
      /\ 1 \in 1..n /\ n \in 1..n
  BY <1>1, <1>2, TopFacts DEF StackInv
<1>6. \A i \in 1..n : f \in Below(stack[i].of)
  BY <1>1, <1>2, HeadBelow
<1>7. f \in Below(Config)
  <2>1. stack[1].of = Config
    BY DEF Trail
  <2> QED
    BY <1>3, <1>6, <2>1
<1>8. ASSUME f \in visited PROVE f \in Below(f)
  <2>1. PICK i \in 2..n : stack[i].of = f
    BY <1>1, <1>8 DEF StackInv, OneEach
  <2>2. i \in 1..n
    BY <1>3
  <2> QED
    BY <1>6, <2>1, <2>2
<1> QED
  BY <1>2, <1>7, <1>8 DEF Proper

-----------------------------------------------------------------------------
(* The account of the parse: what is parsed and what is still to come are  *)
(* the rules of the configuration.                                         *)

\* The rules of the lines that are left.
LEMMA RestFacts ==
    ASSUME FilesType, NEW lines \in Seq(Text \cup File)
    PROVE  /\ FlatLines(Flat, lines) \in Seq(Wide)
           /\ lines = <<>> => FlatLines(Flat, lines) = <<>>
           /\ lines # <<>> => FlatLines(Flat, lines)
                                = Part(Flat, Head(lines)) \o FlatLines(Flat, Tail(lines))
<1>1. \A f \in File : Flat[f] \in Seq(Wide)
  BY FlatType DEF RuleList
<1>2. lines \in Seq(Wide \cup File)
  BY DEF Wide
<1>3. FlatLines(Flat, lines) \in Seq(Wide)
  BY <1>1, <1>2, FlatLinesFacts
<1>4. PICK r, h, t : r = Flat /\ h = Head(lines) /\ t = Tail(lines)
  OBVIOUS
<1>5. /\ lines = <<>> => FlatLines(r, lines) = <<>>
      /\ lines # <<>> => FlatLines(r, lines) = Part(r, Head(lines)) \o FlatLines(r, Tail(lines))
  <2>1. \A f \in File : r[f] \in Seq(Wide)
    BY <1>1, <1>4
  <2> QED
    BY <1>2, <2>1, FlatLinesFacts
<1> QED
  BY <1>3, <1>4, <1>5

\* A sequence moves from the front of one pair to the end of the other.
LEMMA Regroup ==
    ASSUME NEW T, NEW a \in Seq(T), NEW b \in Seq(T), NEW c \in Seq(T), NEW d \in Seq(T)
    PROVE  a \o ((b \o c) \o d) = (a \o b) \o (c \o d)
<1> DEFINE Associates(S) == \A s, t, u \in Seq(S) : (s \o t) \o u = s \o (t \o u)
<1>1. \A S : Associates(S)
  BY ConcatAssociative, Zenon
<1>2. Associates(T)
  <2> HIDE DEF Associates
  <2> QED
    BY <1>1
<1>3. \E e \in Seq(T) : e = c \o d
  BY ConcatProperties
<1>4. (b \o c) \o d = b \o (c \o d)
  BY ConcatAssociative, SMTT(30)
<1>5. \A e \in Seq(T) : (a \o b) \o e = a \o (b \o e)
  BY <1>2, Zenon
<1> QED
  BY <1>3, <1>4, <1>5, Zenon

\* acc has the rules that are still to come, from every activation down.
Amounts(acc) ==
    /\ acc[0] = <<>>
    /\ \A i \in 0..Len(stack) : acc[i] \in Seq(Wide)
    /\ \A i \in 1..Len(stack) : acc[i] = FlatLines(Flat, stack[i].rest) \o acc[i - 1]
    /\ parsed \o acc[Len(stack)] = Flat[Config]

Accounted ==
    /\ parsed \in Seq(Text)
    /\ Proper => \E acc : Amounts(acc)

\* A proper configuration is a good list.
LEMMA ProperIsGood == Proper <=> Good(Config)
  BY DEF Proper, Good

\* A step that changes no file leaves what the parse should come to.
LEMMA ProperKept == ASSUME files' = files PROVE Flat' = Flat /\ (Proper' <=> Proper)
<1>1. Proper' <=> Good(Config)'
  BY DEF Proper, Good
<1> QED
  BY <1>1, FlatKept, BelowKept, ProperIsGood

\* At first everything is still to come.
LEMMA AccountedInit == IncludeInit => Accounted
<1> SUFFICES ASSUME IncludeInit, Proper PROVE \E acc : Amounts(acc)
  BY EmptySeq DEF Accounted, IncludeInit
<1>1. stack = <<Activation(Config, files[Config])>> /\ parsed = <<>>
  BY DEF IncludeInit
<1>2. FilesType /\ Config \in RuleList
  BY StackInit DEF StackInv, StackType, FilesType, RuleList
<1>3. Flat[Config] = FlatLines(Flat, files[Config]) /\ Flat[Config] \in Seq(Wide)
  BY <1>2, FlatFix, FlatType, ProperIsGood
<1>4. PICK whole : whole = Flat[Config]
  OBVIOUS
<1> DEFINE acc == [i \in 0..1 |-> IF i = 0 THEN <<>> ELSE whole]
<1>5. acc[0] = <<>> /\ acc[1] = whole /\ \A i \in 0..1 : acc[i] \in Seq(Wide)
  BY <1>3, <1>4, EmptySeq
<1>6. Len(stack) = 1 /\ stack[1].rest = files[Config]
  BY <1>1 DEF Activation
<1>7. whole \o <<>> = whole /\ <<>> \o whole = whole
  BY <1>3, <1>4, ConcatEmptySeq
<1> HIDE DEF acc
<1>8. \A i \in 1..1 : acc[i] = FlatLines(Flat, stack[i].rest) \o acc[i - 1]
  <2>1. \A i \in 1..1 : i = 1 /\ i - 1 = 0
    OBVIOUS
  <2> QED
    BY <1>3, <1>4, <1>5, <1>6, <1>7, <2>1
<1>9. Amounts(acc)
  BY <1>1, <1>4, <1>5, <1>6, <1>7, <1>8 DEF Amounts
<1> QED
  BY <1>9

\* What is known where a step begins.
LEMMA AmountsTop ==
    ASSUME StackInv, stack # <<>>, NEW acc, Amounts(acc), NEW n, n = Len(stack)
    PROVE  /\ n \in Nat \ {0}
           /\ acc[n - 1] \in Seq(Wide)
           /\ acc[n] = FlatLines(Flat, Top.rest) \o acc[n - 1]
           /\ Top.rest \in Seq(Text \cup File)
           /\ FlatLines(Flat, Top.rest) \in Seq(Wide)
<1>1. n \in Nat \ {0} /\ Top = stack[n] /\ Top.rest \in Seq(Text \cup File)
  BY TopFacts DEF StackInv
<1>2. n \in 1..n /\ n - 1 \in 0..n
  BY <1>1
<1>3. acc[n - 1] \in Seq(Wide) /\ acc[n] = FlatLines(Flat, stack[n].rest) \o acc[n - 1]
  BY <1>2 DEF Amounts
<1>4. FlatLines(Flat, Top.rest) \in Seq(Wide)
  BY <1>1, RestFacts DEF StackInv, StackType, FilesType
<1> QED
  BY <1>1, <1>3, <1>4

\* A rule is taken from what is still to come to what has been parsed.
LEMMA AccountedPlain ==
    ASSUME StackInv, Accounted, Plain
    PROVE  Accounted'
<1>1. PICK n, h, rest : n = Len(stack) /\ h = Head(Top.rest) /\ rest = Tail(Top.rest)
  OBVIOUS
<1>2. /\ stack # <<>> /\ Top.rest # <<>> /\ stack' = Behind /\ files' = files
      /\ h \in Text /\ parsed' = Append(parsed, h)
  BY <1>1 DEF Plain, AtLine, StackInv, StackType
<1>3. parsed \in Seq(Text) /\ parsed' \in Seq(Text) /\ parsed' = parsed \o <<h>>
  BY <1>2 DEF Accounted
<1>4. Flat' = Flat /\ (Proper' <=> Proper)
  BY <1>2, ProperKept
<1>5. SUFFICES ASSUME Proper PROVE \E acc : Amounts(acc)'
  BY <1>3, <1>4 DEF Accounted
<1>6. PICK acc : Amounts(acc)
  BY <1>5 DEF Accounted
<1>7. PICK tail, below : tail = FlatLines(Flat, rest) /\ below = acc[n - 1]
  OBVIOUS
<1>8. /\ n \in Nat \ {0} /\ below \in Seq(Wide) /\ Top.rest \in Seq(Text \cup File)
      /\ acc[n] = FlatLines(Flat, Top.rest) \o below
  BY <1>1, <1>2, <1>6, <1>7, AmountsTop
<1>9. FlatLines(Flat, Top.rest) = <<h>> \o tail /\ tail \in Seq(Wide) /\ <<h>> \in Seq(Wide)
  <2>1. FilesType /\ rest \in Seq(Text \cup File)
    BY <1>1, <1>2, <1>8, HeadTailProperties DEF StackInv, StackType, FilesType
  <2>2. Part(Flat, h) = <<h>>
    BY <1>2, IncludeAssumption DEF Part
  <2>3. <<h>> \in Seq(Wide)
    BY <1>2 DEF Wide
  <2> QED
    BY <1>1, <1>2, <1>7, <1>8, <2>1, <2>2, <2>3, RestFacts
<1> DEFINE new == [i \in 0..n |-> IF i = n THEN tail \o below ELSE acc[i]]
<1>10. /\ new[n] = tail \o below /\ tail \o below \in Seq(Wide)
       /\ \A i \in 0..n - 1 : new[i] = acc[i]
  BY <1>8, <1>9, ConcatProperties
<1>11. /\ acc[0] = <<>>
       /\ \A i \in 0..n : acc[i] \in Seq(Wide)
       /\ \A i \in 1..n : acc[i] = FlatLines(Flat, stack[i].rest) \o acc[i - 1]
       /\ parsed \o acc[n] = Flat[Config]
  BY <1>1, <1>6 DEF Amounts
<1>12. /\ Len(stack') = n /\ \A i \in 1..n - 1 : stack'[i] = stack[i]
       /\ stack'[n].rest = rest
  <2>1. /\ Len(Behind) = n /\ \A i \in 1..n - 1 : Behind[i] = stack[i]
        /\ Behind[n] = Activation(Top.of, rest)
    BY <1>1, <1>2, BehindFacts DEF StackInv
  <2>2. Activation(Top.of, rest).rest = rest
    BY DEF Activation
  <2> QED
    BY <1>2, <2>1, <2>2
<1> HIDE DEF new
<1>13. /\ \A i \in 0..n : i = n \/ i \in 0..n - 1
       /\ \A i \in 1..n : i - 1 \in 0..n - 1 /\ (i = n \/ i \in 1..n - 1)
       /\ \A i \in 1..n - 1 : i \in 1..n /\ i \in 0..n - 1
       /\ 0 \in 0..n - 1 /\ n - 1 \in 0..n - 1
  BY <1>8
<1>14. new[0] = <<>> /\ \A i \in 0..n : new[i] \in Seq(Wide)
  BY <1>10, <1>11, <1>13
<1>15. ASSUME NEW i \in 1..n PROVE new[i] = FlatLines(Flat, stack'[i].rest) \o new[i - 1]
  <2>1. new[i - 1] = acc[i - 1]
    BY <1>10, <1>13
  <2>2. CASE i = n
    BY <1>7, <1>10, <1>12, <2>1, <2>2
  <2>3. CASE i \in 1..n - 1
    BY <1>10, <1>11, <1>12, <1>13, <2>1, <2>3
  <2> QED
    BY <1>13, <2>2, <2>3
<1>16. parsed' \o new[n] = Flat[Config]
  <2>1. parsed \in Seq(Wide)
    BY <1>3 DEF Wide
  <2>2. parsed \o ((<<h>> \o tail) \o below) = (parsed \o <<h>>) \o (tail \o below)
    <3>1. <<h>> \in Seq(Wide) /\ tail \in Seq(Wide) /\ below \in Seq(Wide)
      BY <1>8, <1>9
    <3>2. PICK one : one = <<h>>
      OBVIOUS
    <3>3. parsed \o ((one \o tail) \o below) = (parsed \o one) \o (tail \o below)
      BY <2>1, <3>1, <3>2, Regroup, SMTT(30)
    <3> QED
      BY <3>2, <3>3
  <2> QED
    BY <1>3, <1>8, <1>9, <1>10, <1>11, <2>2
<1>17. Amounts(new)'
  BY <1>4, <1>12, <1>14, <1>15, <1>16 DEF Amounts
<1> QED
  BY <1>17

\* The rules of an include are those of the lines of its file.
LEMMA AccountedInclude ==
    ASSUME StackInv, Trail, Accounted, Include
    PROVE  Accounted'
<1>1. PICK n, f, rest : n = Len(stack) /\ f = Head(Top.rest) /\ rest = Tail(Top.rest)
  OBVIOUS
<1>2. /\ stack # <<>> /\ Top.rest # <<>> /\ files' = files /\ parsed' = parsed
      /\ f \in File /\ files[f] # Missing
      /\ stack' = Append(Behind, Activation(f, files[f]))
  BY <1>1 DEF Include, AtLine, Readable, StackInv, StackType
<1>3. Flat' = Flat /\ (Proper' <=> Proper)
  BY <1>2, ProperKept
<1>4. SUFFICES ASSUME Proper PROVE \E acc : Amounts(acc)'
  BY <1>2, <1>3 DEF Accounted
<1>5. PICK acc : Amounts(acc)
  BY <1>4 DEF Accounted
<1>6. PICK tail, below, whole : /\ tail = FlatLines(Flat, rest) /\ below = acc[n - 1]
                                /\ whole = Flat[f]
  OBVIOUS
<1>7. /\ n \in Nat \ {0} /\ below \in Seq(Wide) /\ Top.rest \in Seq(Text \cup File)
      /\ acc[n] = FlatLines(Flat, Top.rest) \o below
  BY <1>1, <1>2, <1>5, <1>6, AmountsTop
<1>8. FilesType /\ f \in RuleList
  BY <1>2 DEF StackInv, StackType, FilesType, RuleList
<1>9. FlatLines(Flat, Top.rest) = whole \o tail /\ tail \in Seq(Wide)
  <2>1. rest \in Seq(Text \cup File)
    BY <1>1, <1>2, <1>7, HeadTailProperties
  <2>2. Part(Flat, f) = whole
    BY <1>2, <1>6 DEF Part
  <2> QED
    BY <1>1, <1>2, <1>6, <1>7, <1>8, <2>1, <2>2, RestFacts
<1>10. whole = FlatLines(Flat, files[f]) /\ whole \in Seq(Wide)
  <2>1. f \in Below(Config)
    <3>1. stack[1].of = Config /\ 1 \in 1..n
      BY <1>7 DEF Trail
    <3> QED
      BY <1>1, <1>2, <3>1, HeadBelow
  <2>2. Good(f)
    BY <1>4, <2>1, GoodBelow, ProperIsGood
  <2>3. Flat[f] \in Seq(Wide)
    BY <1>8, FlatType
  <2> QED
    BY <1>6, <1>8, <2>2, <2>3, FlatFix
<1>11. PICK last : last = tail \o below /\ last \in Seq(Wide)
  BY <1>7, <1>9, ConcatProperties
<1> DEFINE new == [i \in 0..n + 1 |-> IF i = n + 1 THEN whole \o last
                                      ELSE IF i = n THEN last ELSE acc[i]]
<1>12. /\ new[n + 1] = whole \o last /\ whole \o last \in Seq(Wide)
       /\ new[n] = last
       /\ \A i \in 0..n - 1 : new[i] = acc[i]
  BY <1>7, <1>10, <1>11, ConcatProperties, SMTT(30)
<1>13. /\ acc[0] = <<>>
       /\ \A i \in 0..n : acc[i] \in Seq(Wide)
       /\ \A i \in 1..n : acc[i] = FlatLines(Flat, stack[i].rest) \o acc[i - 1]
       /\ parsed \o acc[n] = Flat[Config]
  BY <1>1, <1>5 DEF Amounts
<1>14. /\ Len(stack') = n + 1 /\ \A i \in 1..n - 1 : stack'[i] = stack[i]
       /\ stack'[n].rest = rest /\ stack'[n + 1].rest = files[f]
  <2>1. /\ Behind \in Seq(Act) /\ Len(Behind) = n
        /\ \A i \in 1..n - 1 : Behind[i] = stack[i]
        /\ Behind[n] = Activation(Top.of, rest)
    BY <1>1, <1>2, BehindFacts DEF StackInv
  <2>2. PICK act : act = Activation(f, files[f])
    OBVIOUS
  <2>3. act \in Act /\ act.rest = files[f]
    <3>1. files[f] \in Seq(Text \cup File)
      BY <1>2, <1>8 DEF FilesType
    <3> QED
      BY <1>8, <2>2, <3>1, ActType DEF Activation
  <2>4. /\ Len(stack') = n + 1 /\ stack'[n + 1] = act
        /\ \A i \in 1..n : stack'[i] = Behind[i]
    BY <1>2, <2>1, <2>2, <2>3, AppendProperties
  <2>5. Activation(Top.of, rest).rest = rest
    BY DEF Activation
  <2>6. n \in 1..n /\ \A i \in 1..n - 1 : i \in 1..n
    BY <1>7
  <2>7. stack'[n].rest = rest
    BY <2>1, <2>4, <2>5, <2>6
  <2>8. \A i \in 1..n - 1 : stack'[i] = stack[i]
    BY <2>1, <2>4, <2>6
  <2> QED
    BY <2>3, <2>4, <2>7, <2>8
<1> HIDE DEF new
<1>15. /\ \A i \in 0..n + 1 : i = n + 1 \/ i = n \/ i \in 0..n - 1
       /\ \A i \in 1..n + 1 : i = n + 1 \/ i = n \/ i \in 1..n - 1
       /\ \A i \in 1..n - 1 : i \in 1..n /\ i \in 0..n - 1 /\ i - 1 \in 0..n - 1
       /\ 0 \in 0..n - 1 /\ n - 1 \in 0..n - 1 /\ n + 1 - 1 = n
       /\ \A i \in 0..n - 1 : i \in 0..n
  BY <1>7
<1>16. new[0] = <<>> /\ \A i \in 0..n + 1 : new[i] \in Seq(Wide)
  BY <1>11, <1>12, <1>13, <1>15
<1>17. ASSUME NEW i \in 1..n + 1 PROVE new[i] = FlatLines(Flat, stack'[i].rest) \o new[i - 1]
  <2>1. CASE i = n + 1
    <3>1. i - 1 = n
      BY <1>7, <2>1
    <3> QED
      BY <1>10, <1>12, <1>14, <2>1, <3>1
  <2>2. CASE i = n
    <3>1. new[n - 1] = below
      BY <1>6, <1>12, <1>15
    <3> QED
      BY <1>6, <1>11, <1>12, <1>14, <2>2, <3>1
  <2>3. CASE i \in 1..n - 1
    <3>1. /\ new[i] = acc[i] /\ new[i - 1] = acc[i - 1] /\ stack'[i] = stack[i]
          /\ i \in 1..n
      BY <1>12, <1>14, <1>15, <2>3
    <3>2. acc[i] = FlatLines(Flat, stack[i].rest) \o acc[i - 1]
      BY <1>13, <3>1
    <3> QED
      BY <3>1, <3>2
  <2> QED
    BY <1>15, <2>1, <2>2, <2>3
<1>18. parsed' \o new[n + 1] = Flat[Config]
  <2>1. (whole \o tail) \o below = whole \o (tail \o below)
    <3>1. whole \in Seq(Wide) /\ tail \in Seq(Wide) /\ below \in Seq(Wide)
      BY <1>7, <1>9, <1>10
    <3> QED
      BY <3>1, ConcatAssociative
  <2>2. new[n + 1] = acc[n]
    BY <1>7, <1>9, <1>11, <1>12, <2>1
  <2> QED
    BY <1>2, <1>13, <2>2
<1>19. Amounts(new)'
  BY <1>3, <1>14, <1>16, <1>17, <1>18 DEF Amounts
<1> QED
  BY <1>19

\* An activation that returns has nothing left to add.
LEMMA AccountedReturn ==
    ASSUME StackInv, Accounted, Return
    PROVE  /\ Len(stack) # 1 => Accounted'
           /\ Len(stack) = 1 /\ Proper => parsed' = Flat[Config]
<1>1. PICK n : n = Len(stack)
  OBVIOUS
<1>2. /\ stack # <<>> /\ Top.rest = <<>> /\ files' = files /\ parsed' = parsed
      /\ stack' = Front(stack)
  BY DEF Return, StackInv, StackType
<1>3. Flat' = Flat /\ (Proper' <=> Proper)
  BY <1>2, ProperKept
<1>4. ASSUME NEW acc, Amounts(acc)
      PROVE  n \in Nat \ {0} /\ acc[n] = acc[n - 1]
  <2>1. /\ n \in Nat \ {0} /\ acc[n - 1] \in Seq(Wide)
        /\ acc[n] = FlatLines(Flat, Top.rest) \o acc[n - 1]
        /\ Top.rest \in Seq(Text \cup File)
    BY <1>1, <1>2, <1>4, AmountsTop
  <2>2. FlatLines(Flat, Top.rest) = <<>>
    BY <1>2, <2>1, RestFacts DEF StackInv, StackType, FilesType
  <2>3. <<>> \o acc[n - 1] = acc[n - 1]
    BY <2>1, ConcatEmptySeq
  <2> QED
    BY <2>1, <2>2, <2>3
<1>5. ASSUME n # 1 PROVE Accounted'
  <2> SUFFICES ASSUME Proper PROVE \E acc : Amounts(acc)'
    BY <1>2, <1>3 DEF Accounted
  <2>1. PICK acc : Amounts(acc)
    BY DEF Accounted
  <2>2. n \in Nat \ {0} /\ acc[n] = acc[n - 1]
    BY <1>4, <2>1
  <2>3. /\ Len(stack') = n - 1 /\ \A i \in 1..n - 1 : stack'[i] = stack[i]
    BY <1>1, <1>2, FrontFacts DEF StackInv, StackType
  <2>4. /\ acc[0] = <<>>
        /\ \A i \in 0..n : acc[i] \in Seq(Wide)
        /\ \A i \in 1..n : acc[i] = FlatLines(Flat, stack[i].rest) \o acc[i - 1]
        /\ parsed \o acc[n] = Flat[Config]
    BY <1>1, <2>1 DEF Amounts
  <2>5. (\A i \in 1..n - 1 : i \in 1..n) /\ (\A i \in 0..n - 1 : i \in 0..n)
    BY <2>2
  <2>6. Amounts(acc)'
    BY <1>2, <1>3, <2>2, <2>3, <2>4, <2>5 DEF Amounts
  <2> QED
    BY <2>6
<1>6. ASSUME n = 1, Proper PROVE parsed' = Flat[Config]
  <2>1. PICK acc : Amounts(acc)
    BY <1>6 DEF Accounted
  <2>2. acc[1] = acc[0] /\ acc[0] = <<>> /\ parsed \o acc[1] = Flat[Config]
    <3>1. acc[n] = acc[n - 1]
      BY <1>4, <2>1
    <3> QED
      BY <1>1, <1>6, <2>1, <3>1 DEF Amounts
  <2>3. parsed \o <<>> = parsed
    BY ConcatEmptySeq DEF Accounted
  <2> QED
    BY <1>2, <2>2, <2>3
<1> QED
  BY <1>1, <1>5, <1>6

-----------------------------------------------------------------------------
(* The parse: results.                                                     *)

\* The invariant of the parse.
ParseInv == /\ StackInv
            /\ changes \in Nat
            /\ Parsing => Trail /\ Accounted

\* The parse begins with all three.
LEMMA ParseInit == IncludeInit => ParseInv
  BY StackInit, TrailInit, AccountedInit DEF IncludeInit, ParseInv, Parsing

\* Every step of the parse preserves them.
LEMMA ParseStep == ParseInv /\ Parse => ParseInv'
<1> SUFFICES ASSUME ParseInv, Parse PROVE ParseInv'
  OBVIOUS
<1>1. StackInv'
  BY StackStep DEF ParseInv
<1>2. CASE Plain
  <2>1. changes' = changes /\ status' = status
    BY <1>2 DEF Plain
  <2> QED
    BY <1>1, <1>2, <2>1, TrailPlain, AccountedPlain DEF ParseInv, Parsing
<1>3. CASE Include
  <2>1. changes' = changes /\ status' = status
    BY <1>3 DEF Include
  <2> QED
    BY <1>1, <1>3, <2>1, TrailInclude, AccountedInclude DEF ParseInv, Parsing
<1>4. CASE Fail
  BY <1>1, <1>4 DEF Fail, ParseInv, Parsing
<1>5. CASE Return
  <2>1. changes' = changes /\ status = "parsing"
        /\ status' = IF Len(stack) = 1 THEN "parsed" ELSE "parsing"
    BY <1>5 DEF Return
  <2> QED
    BY <1>1, <1>5, <2>1, TrailReturn, AccountedReturn DEF ParseInv, Parsing
<1>6. CASE Change
  <2>1. changes' = changes + 1
    BY <1>6 DEF Change
  <2> QED
    BY <1>1, <2>1 DEF ParseInv, Parsing
<1> QED
  BY <1>2, <1>3, <1>4, <1>5, <1>6 DEF Parse

\* No step makes a list longer than it may be.
LEMMA LinesTail ==
    /\ <<>> \in Lines
    /\ \A s \in Lines : s # <<>> => Tail(s) \in Lines
<1>1. MaxLines \in Nat
  BY IncludeAssumption
<1>2. \A s : s \in Lines <=> s \in Seq(Text \cup File) /\ Len(s) <= MaxLines
  <2>1. ASSUME NEW s \in Lines PROVE s \in Seq(Text \cup File) /\ Len(s) <= MaxLines
    <3>1. PICK k \in 0..MaxLines : s \in [1..k -> Text \cup File]
      BY DEF Lines
    <3>2. Len(s) = k /\ s \in Seq(Text \cup File)
      BY <1>1, <3>1
    <3> QED
      BY <1>1, <3>2
  <2>2. ASSUME NEW s \in Seq(Text \cup File), Len(s) <= MaxLines PROVE s \in Lines
    <3>1. Len(s) \in 0..MaxLines /\ s \in [1..Len(s) -> Text \cup File]
      BY <1>1, <2>2
    <3> QED
      BY <3>1 DEF Lines
  <2> QED
    BY <2>1, <2>2
<1>3. <<>> \in Lines
  <2>1. PICK none : none = <<>>
    OBVIOUS
  <2>2. none \in Seq(Text \cup File) /\ Len(none) <= MaxLines
    BY <1>1, <2>1, EmptySeq
  <2> QED
    BY <1>2, <2>1, <2>2
<1>4. ASSUME NEW s \in Lines, s # <<>> PROVE Tail(s) \in Lines
  <2>1. s \in Seq(Text \cup File) /\ Len(s) <= MaxLines /\ Len(s) \in Nat
    BY <1>2
  <2>2. Tail(s) \in Seq(Text \cup File) /\ Len(Tail(s)) = Len(s) - 1
    BY <1>4, <2>1, HeadTailProperties
  <2>3. Len(Tail(s)) <= MaxLines
    BY <1>1, <2>1, <2>2
  <2> QED
    BY <1>2, <2>2, <2>3
<1> QED
  BY <1>3, <1>4

\* The types where the parse begins.
LEMMA TypeInit == IncludeInit => IncludeTypeOK
<1> SUFFICES ASSUME IncludeInit PROVE IncludeTypeOK
  OBVIOUS
<1>1. stack = <<Activation(Config, files[Config])>>
  BY DEF IncludeInit
<1>2. Config \in RuleList /\ files \in [RuleList -> Lines \cup {Missing}] /\ files[Config] \in Lines
  BY DEF IncludeInit, RuleList
<1>3. \A i \in DOMAIN stack : stack[i].of \in RuleList /\ stack[i].rest \in Lines
  <2>1. stack[1].of = Config /\ stack[1].rest = files[Config] /\ DOMAIN stack = 1..1
    BY <1>1 DEF Activation
  <2> QED
    BY <1>2, <2>1
<1> QED
  BY <1>2, <1>3, EmptySeq, IncludeAssumption DEF IncludeInit, IncludeTypeOK

\* Every step of the parse preserves the types.
LEMMA TypeStep == StackInv /\ IncludeTypeOK /\ Parse => IncludeTypeOK'
<1> SUFFICES ASSUME StackInv, IncludeTypeOK, Parse PROVE IncludeTypeOK'
  OBVIOUS
<1>1. PICK n : n = Len(stack)
  OBVIOUS
<1>2. stack \in Seq(Act) /\ n \in Nat /\ DOMAIN stack = 1..n
  BY <1>1 DEF StackInv, StackType
<1>3. \A i \in 1..n : stack[i].of \in RuleList /\ stack[i].rest \in Lines
  BY <1>2 DEF IncludeTypeOK
<1>4. ASSUME stack # <<>>, Top.rest # <<>>
      PROVE  /\ Behind \in Seq(Act) /\ Len(Behind) = n
             /\ \A i \in 1..n : Behind[i].of \in RuleList /\ Behind[i].rest \in Lines
  <2>1. /\ Behind \in Seq(Act) /\ Len(Behind) = n /\ \A i \in 1..n - 1 : Behind[i] = stack[i]
        /\ Behind[n] = Activation(Top.of, Tail(Top.rest))
    BY <1>1, <1>4, BehindFacts DEF StackInv
  <2>2. n # 0 /\ Top = stack[n]
    BY <1>1, <1>4, TopFacts DEF StackInv
  <2>3. Top.of \in RuleList /\ Tail(Top.rest) \in Lines
    BY <1>2, <1>3, <1>4, <2>2, LinesTail
  <2>4. Behind[n].of \in RuleList /\ Behind[n].rest \in Lines
    BY <2>1, <2>3 DEF Activation
  <2>5. \A i \in 1..n : i = n \/ i \in 1..n - 1
    BY <1>2
  <2> QED
    BY <1>3, <2>1, <2>4, <2>5
<1>5. CASE Plain
  <2>1. /\ stack # <<>> /\ Top.rest # <<>> /\ stack' = Behind
        /\ Head(Top.rest) \in Text /\ parsed' = Append(parsed, Head(Top.rest))
        /\ UNCHANGED <<files, visited, status, changes>>
    BY <1>5 DEF Plain, AtLine, StackInv, StackType
  <2>2. parsed' \in Seq(Text)
    BY <2>1 DEF IncludeTypeOK
  <2>3. DOMAIN stack' = 1..n
    BY <1>2, <1>4, <2>1
  <2> QED
    BY <1>4, <2>1, <2>2, <2>3 DEF IncludeTypeOK
<1>6. CASE Include
  <2>1. PICK f : f = Head(Top.rest)
    OBVIOUS
  <2>2. /\ stack # <<>> /\ Top.rest # <<>> /\ f \in File /\ files[f] # Missing
        /\ stack' = Append(Behind, Activation(f, files[f])) /\ visited' = visited \cup {f}
        /\ UNCHANGED <<files, parsed, status, changes>>
    BY <1>6, <2>1 DEF Include, AtLine, Readable, StackInv, StackType
  <2>3. f \in RuleList /\ files[f] \in Lines
    BY <2>2 DEF RuleList, IncludeTypeOK
  <2>4. PICK act : act = Activation(f, files[f])
    OBVIOUS
  <2>5. act \in Act /\ act.of = f /\ act.rest = files[f]
    BY <2>3, <2>4, LinesType, ActType DEF Activation
  <2>6. /\ stack' \in Seq(Act) /\ Len(stack') = n + 1 /\ stack'[n + 1] = act
        /\ \A i \in 1..n : stack'[i] = Behind[i]
    BY <1>4, <2>2, <2>4, <2>5, AppendProperties
  <2>7. DOMAIN stack' = 1..n + 1 /\ \A i \in 1..n + 1 : i = n + 1 \/ i \in 1..n
    BY <1>2, <2>6
  <2>8. \A i \in DOMAIN stack' : stack'[i].of \in RuleList /\ stack'[i].rest \in Lines
    BY <1>4, <2>2, <2>3, <2>5, <2>6, <2>7
  <2> QED
    BY <2>2, <2>8 DEF IncludeTypeOK
<1>7. CASE Fail
  BY <1>7, EmptySeq DEF Fail, IncludeTypeOK
<1>8. CASE Return
  <2>1. /\ stack # <<>> /\ stack' = Front(stack) /\ visited' \subseteq visited
        /\ status' \in {"parsing", "parsed"} /\ UNCHANGED <<files, parsed, changes>>
    BY <1>8 DEF Return, NoLonger, StackInv, StackType
  <2>2. /\ stack' \in Seq(Act) /\ Len(stack') = n - 1
        /\ \A i \in 1..n - 1 : stack'[i] = stack[i]
    BY <1>1, <1>2, <2>1, FrontFacts
  <2>3. DOMAIN stack' = 1..n - 1 /\ \A i \in 1..n - 1 : i \in 1..n
    BY <1>2, <2>2
  <2>4. \A i \in DOMAIN stack' : stack'[i].of \in RuleList /\ stack'[i].rest \in Lines
    BY <1>3, <2>2, <2>3
  <2> QED
    BY <2>1, <2>4 DEF IncludeTypeOK
<1>9. CASE Change
  <2>1. changes' \in 0..MaxChanges
    BY <1>9, IncludeAssumption DEF Change, IncludeTypeOK
  <2>2. files' \in [RuleList -> Lines \cup {Missing}]
    BY <1>9 DEF Change, IncludeTypeOK
  <2> QED
    BY <1>9, <2>1, <2>2 DEF Change, IncludeTypeOK
<1> QED
  BY <1>5, <1>6, <1>7, <1>8, <1>9 DEF Parse

\* The invariant of the parse holds in every reachable state.
THEOREM ParseInvariance == RulesSpec => []ParseInv
<1>1. RulesInit => ParseInv
  BY ParseInit DEF RulesInit
<1>2. ParseInv /\ [RulesNext]_rulesVars => ParseInv'
  <2> SUFFICES ASSUME ParseInv, [RulesNext]_rulesVars PROVE ParseInv'
    OBVIOUS
  <2>1. CASE ParseRules
    BY <2>1, ParseStep DEF ParseRules
  <2>2. CASE HandOver
    BY <2>2 DEF HandOver, ParseInv, StackInv, StackType, OneEach, Parsing
  <2>3. CASE UNCHANGED includeVars
    <3>1. files' = files /\ stack' = stack /\ visited' = visited /\ parsed' = parsed
          /\ status' = status /\ changes' = changes
      BY <2>3 DEF includeVars
    <3>2. StackInv' /\ changes' \in Nat
      BY <3>1 DEF ParseInv, StackInv, StackType, OneEach
    <3>3. Parsing' => Parsing
      BY <3>1 DEF Parsing
    <3>4. Trail => Trail'
      BY <3>1, BelowKept DEF Trail, Settled
    <3>5. Accounted => Accounted'
      BY <3>1, ProperKept DEF Accounted, Amounts
    <3> QED
      BY <3>2, <3>3, <3>4, <3>5 DEF ParseInv
  <2> QED
    BY <2>1, <2>2, <2>3 DEF RulesNext, ReadRule, rulesVars
<1> QED
  BY <1>1, <1>2, PTL DEF RulesSpec

\* parseRule never goes deeper than there are files, whatever they are changed
\* to meanwhile (config.go:579-590).
THEOREM ParseIsShallow == RulesSpec => []DepthBounded
<1>1. ParseInv => DepthBounded
  BY DepthFollows DEF ParseInv
<1> QED
  BY <1>1, ParseInvariance, PTL

\* A list that includes nothing missing and not itself, by whatever detour, is
\* parsed to its rules in their places; any other is an error (USAGE.md:227,
\* config.go:554-612).
THEOREM ParseIsExact == RulesSpec => ParsedIsFlat
<1>1. ParseInv /\ [RulesNext]_rulesVars =>
        [changes = 0 /\ status = "parsing" /\ status' # status
           => IF status' = "parsed" THEN Proper /\ parsed' = Flat[Config] ELSE ~Proper]_includeVars
  <2> SUFFICES ASSUME ParseInv, [RulesNext]_rulesVars, Parsing, status' # status
               PROVE  IF status' = "parsed" THEN Proper /\ parsed' = Flat[Config] ELSE ~Proper
    BY DEF Parsing
  <2>1. StackInv /\ Trail /\ Accounted /\ status = "parsing"
    BY DEF ParseInv, Parsing
  <2>2. CASE Fail
    <3>1. status' = "error"
      BY <2>2 DEF Fail
    <3> QED
      BY <2>1, <2>2, <3>1, FailImproper
  <2>3. CASE Return
    <3>1. Len(stack) = 1 /\ status' = "parsed"
      BY <2>1, <2>3 DEF Return
    <3>2. stack # <<>> /\ Top.rest = <<>> /\ Top.of = Config
      <4>1. stack # <<>> /\ Top.rest = <<>>
        BY <2>1, <2>3 DEF Return, StackInv, StackType
      <4> QED
        BY <2>1, <3>1, <4>1, TopFacts DEF StackInv, Trail
    <3>3. Proper
      BY <2>1, <3>2, TopGood, ProperIsGood
    <3> QED
      BY <2>1, <2>3, <3>1, <3>3, AccountedReturn
  <2>4. CASE Plain \/ Include \/ Change
    BY <2>4 DEF Plain, Include, Change
  <2>5. CASE HandOver \/ ReadRule \/ UNCHANGED rulesVars
    BY <2>1, <2>5 DEF HandOver, ReadRule, rulesVars, includeVars
  <2> QED
    BY <2>2, <2>3, <2>4, <2>5 DEF RulesNext, ParseRules, Parse
<1> QED
  BY <1>1, ParseInvariance, PTL DEF RulesSpec, ParsedIsFlat

\* The variables of the parse keep their types.
THEOREM IncludeTypes == RulesSpec => []IncludeTypeOK
<1>1. RulesInit => IncludeTypeOK
  BY TypeInit DEF RulesInit
<1>2. ParseInv /\ IncludeTypeOK /\ [RulesNext]_rulesVars => IncludeTypeOK'
  <2> SUFFICES ASSUME ParseInv, IncludeTypeOK, [RulesNext]_rulesVars PROVE IncludeTypeOK'
    OBVIOUS
  <2>1. CASE ParseRules
    BY <2>1, TypeStep DEF ParseRules, ParseInv
  <2>2. CASE HandOver
    <3>1. /\ UNCHANGED <<stack, visited>> /\ status' = "handed" /\ parsed' = <<>>
          /\ files' = [l \in RuleList |-> <<>>] /\ changes' = 0
      BY <2>2 DEF HandOver
    <3>2. parsed' \in Seq(Text) /\ changes' \in 0..MaxChanges
      BY <3>1, EmptySeq, IncludeAssumption
    <3>3. files' \in [RuleList -> Lines \cup {Missing}]
      BY <3>1, LinesTail
    <3> QED
      BY <3>1, <3>2, <3>3 DEF IncludeTypeOK
  <2>3. CASE UNCHANGED includeVars
    BY <2>3 DEF includeVars, IncludeTypeOK
  <2> QED
    BY <2>1, <2>2, <2>3 DEF RulesNext, ReadRule, rulesVars
<1> QED
  BY <1>1, <1>2, ParseInvariance, PTL DEF RulesSpec

-----------------------------------------------------------------------------
(* The suffix trees: the recursive functions are defined, and this is how  *)
(* they go on.                                                             *)

\* The recursive functions are defined: this is how a walk goes on.
LEMMA PathDef ==
    ASSUME NEW node, NEW S, NEW d \in Seq(S)
    PROVE  \A i \in 0..Len(d) :
             Path(node, d)[i] = IF i = 0 THEN node ELSE Child(Path(node, d)[i - 1], d[i])
<1> DEFINE Walk(f, m) == f = [i \in 0..m |-> IF i = 0 THEN node ELSE Child(f[i - 1], d[i])]
           Walks == {m \in Nat : \E f : Walk(f, m)}
<1>0. Len(d) \in Nat
  OBVIOUS
<1>1. 0 \in Walks
  <2> DEFINE f == [i \in 0..0 |-> node]
  <2>1. Walk(f, 0)
    OBVIOUS
  <2> QED
    BY <2>1
<1>2. \A m \in Nat : m \in Walks => m + 1 \in Walks
  <2> SUFFICES ASSUME NEW m \in Nat, m \in Walks PROVE m + 1 \in Walks
    OBVIOUS
  <2>1. PICK f : Walk(f, m)
    OBVIOUS
  <2> DEFINE g == [i \in 0..m + 1 |-> IF i = m + 1 THEN Child(f[m], d[m + 1]) ELSE f[i]]
  <2>2. ASSUME NEW i \in 0..m + 1
        PROVE  g[i] = IF i = 0 THEN node ELSE Child(g[i - 1], d[i])
    <3>1. CASE i = 0
      BY <2>1, <3>1
    <3>2. CASE i = m + 1
      BY <3>2
    <3>3. CASE i \in 1..m
      <4>1. i # m + 1 /\ i - 1 # m + 1 /\ i \in 0..m /\ i - 1 \in 0..m + 1 /\ i # 0
        BY <3>3
      <4> QED
        BY <2>1, <4>1
    <3> QED
      BY <3>1, <3>2, <3>3
  <2>3. Walk(g, m + 1)
    <3> HIDE DEF g
    <3>1. g = [i \in 0..m + 1 |-> g[i]]
      BY DEF g
    <3> QED
      BY <2>2, <3>1
  <2> HIDE DEF g
  <2> QED
    BY <2>3
<1>3. \E f : Walk(f, Len(d))
  <2> HIDE DEF Walk
  <2>1. Len(d) \in Walks
    <3> HIDE DEF Walks
    <3> QED
      BY <1>0, <1>1, <1>2, NatSetInduction
  <2> QED
    BY <2>1
<1>4. Path(node, d) = CHOOSE f : Walk(f, Len(d))
  BY DEF Path
<1>5. PICK walk : walk = Path(node, d) /\ Walk(walk, Len(d))
  <2> HIDE DEF Walk
  <2> QED
    BY <1>3, <1>4
<1>6. \A i \in 0..Len(d) : walk[i] = IF i = 0 THEN node ELSE Child(walk[i - 1], d[i])
  BY <1>5
<1> QED
  BY <1>5, <1>6

\* Another label has the child it had.
LEMMA ChildOfNew ==
    ASSUME NEW a, NEW l, NEW c, NEW m
    PROVE  Child(WithChild(a, l, c), m) = IF m = l THEN c ELSE Child(a, m)
  BY DEF Child, WithChild

\* A rule that ends in a node leaves its children.
LEMMA ChildOfTerminal == ASSUME NEW a, NEW m PROVE Child(Terminal(a), m) = Child(a, m)
  BY DEF Child, Terminal

\* How the new nodes go on, counted from the last one.
Regrows(node, d, ended) ==
    LET n == Len(d)
        old == Path(node, d)
        new == Rebuilt(node, d, ended)
    IN  \A i \in 0..n :
          new[i] = IF i = 0 THEN IF ended THEN Terminal(old[n]) ELSE old[n]
                   ELSE WithChild(old[n - i], d[n - i + 1], new[i - 1])

\* The nodes of a name are made anew from the last one up.
LEMMA RebuiltDef ==
    ASSUME NEW node, NEW S, NEW d \in Seq(S), NEW ended
    PROVE  Regrows(node, d, ended)
<1> DEFINE old == Path(node, d)
           n == Len(d)
           base == IF ended THEN Terminal(old[n]) ELSE old[n]
           Walk(f, m) == f = [i \in 0..m |->
                                IF i = 0 THEN base
                                ELSE WithChild(old[n - i], d[n - i + 1], f[i - 1])]
           Walks == {m \in Nat : \E f : Walk(f, m)}
<1>0. n \in Nat
  OBVIOUS
<1>4. Rebuilt(node, d, ended) = CHOOSE f : Walk(f, n)
  BY DEF Rebuilt
<1> HIDE DEF base, old, n
<1>1. 0 \in Walks
  <2> DEFINE f == [i \in 0..0 |-> base]
  <2>1. Walk(f, 0)
    OBVIOUS
  <2> QED
    BY <2>1
<1>2. \A m \in Nat : m \in Walks => m + 1 \in Walks
  <2> SUFFICES ASSUME NEW m \in Nat, m \in Walks PROVE m + 1 \in Walks
    OBVIOUS
  <2>1. PICK f : Walk(f, m)
    OBVIOUS
  <2> DEFINE g == [i \in 0..m + 1 |->
                     IF i = m + 1 THEN WithChild(old[n - i], d[n - i + 1], f[m]) ELSE f[i]]
  <2>2. ASSUME NEW i \in 0..m + 1
        PROVE  g[i] = IF i = 0 THEN base ELSE WithChild(old[n - i], d[n - i + 1], g[i - 1])
    <3>1. CASE i = 0
      BY <2>1, <3>1
    <3>2. CASE i = m + 1
      BY <3>2
    <3>3. CASE i \in 1..m
      <4>1. i # m + 1 /\ i - 1 # m + 1 /\ i \in 0..m /\ i - 1 \in 0..m + 1 /\ i # 0
        BY <3>3
      <4> QED
        BY <2>1, <4>1
    <3> QED
      BY <3>1, <3>2, <3>3
  <2>3. Walk(g, m + 1)
    <3> HIDE DEF g
    <3>1. g = [i \in 0..m + 1 |-> g[i]]
      BY DEF g
    <3> QED
      BY <2>2, <3>1
  <2> HIDE DEF g
  <2> QED
    BY <2>3, SMTT(30)
<1>3. \E f : Walk(f, n)
  <2> HIDE DEF Walk
  <2>1. n \in Walks
    <3> HIDE DEF Walks
    <3> QED
      BY <1>0, <1>1, <1>2, NatSetInduction
  <2> QED
    BY <2>1
<1>5. PICK new : new = Rebuilt(node, d, ended) /\ Walk(new, n)
  <2> HIDE DEF Walk
  <2> QED
    BY <1>4, <1>3
<1>6. \A i \in 0..n : new[i] = IF i = 0 THEN base
                               ELSE WithChild(old[n - i], d[n - i + 1], new[i - 1])
  BY <1>5
<1> QED
  BY <1>5, <1>6 DEF Regrows, base, old, n

\* What a domain meets in a tree a name was added to: the new nodes as long as
\* it follows the labels of the name, and the old ones from there.
MeetsNew(t, d, x, ended) ==
    LET n == Len(d)
        old == Path(t, d)
        new == Rebuilt(t, d, ended)
        was == Path(t, x)
        is == Path(new[n], x)
    IN  \A i \in 0..Len(x) :
          LET along == i <= n /\ \A j \in 1..i : x[j] = d[j]
          IN  /\ along => old[i] = was[i] /\ is[i] = new[n - i]
              /\ ~along => is[i] = was[i]

\* By induction along the domain.
LEMMA PathOfRebuilt ==
    ASSUME NEW t, NEW S, NEW d \in Seq(S), NEW x \in Seq(S), NEW ended
    PROVE  MeetsNew(t, d, x, ended)
<1> SUFFICES ASSUME NEW n, n = Len(d), NEW m, m = Len(x),
                    NEW old, old = Path(t, d), NEW new, new = Rebuilt(t, d, ended),
                    NEW was, was = Path(t, x), NEW is, is = Path(new[n], x)
             PROVE  \A i \in 0..m :
                      LET along == i <= n /\ \A j \in 1..i : x[j] = d[j]
                      IN  /\ along => old[i] = was[i] /\ is[i] = new[n - i]
                          /\ ~along => is[i] = was[i]
  BY DEF MeetsNew
<1> DEFINE Along(i) == i <= n /\ \A j \in 1..i : x[j] = d[j]
           Claim(i) == /\ Along(i) => old[i] = was[i] /\ is[i] = new[n - i]
                       /\ ~Along(i) => is[i] = was[i]
           Claims == {i \in Nat : i <= m => Claim(i)}
<1>1. n \in Nat /\ m \in Nat
  OBVIOUS
<1>2. \A i \in 0..n : old[i] = IF i = 0 THEN t ELSE Child(old[i - 1], d[i])
  <2>1. \A i \in 0..Len(d) : Path(t, d)[i] = IF i = 0 THEN t ELSE Child(Path(t, d)[i - 1], d[i])
    BY PathDef
  <2> QED
    BY <2>1
<1>3. \A i \in 0..m : was[i] = IF i = 0 THEN t ELSE Child(was[i - 1], x[i])
  <2>1. \A i \in 0..Len(x) : Path(t, x)[i] = IF i = 0 THEN t ELSE Child(Path(t, x)[i - 1], x[i])
    BY PathDef
  <2> QED
    BY <2>1
<1>4. \A i \in 0..m : is[i] = IF i = 0 THEN new[n] ELSE Child(is[i - 1], x[i])
  <2>1. PICK top : top = new[n]
    OBVIOUS
  <2>2. is = Path(top, x)
    BY <2>1
  <2>3. \A i \in 0..m : is[i] = IF i = 0 THEN top ELSE Child(is[i - 1], x[i])
    BY <2>2, PathDef
  <2> QED
    BY <2>1, <2>3
<1>5. \A i \in 0..n : new[i] = IF i = 0 THEN IF ended THEN Terminal(old[n]) ELSE old[n]
                               ELSE WithChild(old[n - i], d[n - i + 1], new[i - 1])
  <2>1. Regrows(t, d, ended)
    BY RebuiltDef
  <2> QED
    BY <2>1 DEF Regrows
<1>6. 0 \in Claims
  <2>1. Along(0)
    BY <1>1
  <2>2. old[0] = t /\ was[0] = t /\ is[0] = new[n] /\ n - 0 = n
    BY <1>1, <1>2, <1>3, <1>4
  <2> QED
    BY <2>1, <2>2
<1>7. \A i \in Nat : i \in Claims => i + 1 \in Claims
  <2> HIDE DEF Claim
  <2> SUFFICES ASSUME NEW i \in Nat, i \in Claims, i + 1 <= m PROVE Claim(i + 1)
    BY <1>1
  <2>1. Claim(i)
    BY <1>1
  <2> USE DEF Claim
  <2> DEFINE l == x[i + 1]
  <2>2. was[i + 1] = Child(was[i], l) /\ is[i + 1] = Child(is[i], l)
    BY <1>1, <1>3, <1>4
  <2>3. Along(i + 1) <=> Along(i) /\ i < n /\ l = d[i + 1]
    <3>1. \A j \in 1..i + 1 : j = i + 1 \/ j \in 1..i
      OBVIOUS
    <3>2. i + 1 \in 1..i + 1 /\ \A j \in 1..i : j \in 1..i + 1
      OBVIOUS
    <3> QED
      BY <1>1, <3>1, <3>2
  <2> HIDE DEF Along, l
  <2>4. CASE ~Along(i)
    BY <2>1, <2>2, <2>3, <2>4
  <2>5. CASE Along(i) /\ i = n
    <3>1. is[i] = IF ended THEN Terminal(was[i]) ELSE was[i]
      <4>1. n - i = 0 /\ 0 \in 0..n
        BY <1>1, <2>5
      <4> QED
        BY <1>5, <2>1, <2>5, <4>1
    <3>2. is[i + 1] = was[i + 1]
      BY <2>2, <3>1, ChildOfTerminal
    <3> QED
      BY <2>3, <2>5, <3>2
  <2>6. CASE Along(i) /\ i < n
    <3>1. /\ n - i \in 0..n /\ n - i # 0 /\ n - (n - i) = i /\ n - (n - i) + 1 = i + 1
          /\ n - i - 1 = n - (i + 1) /\ i + 1 \in 0..n /\ i + 1 # 0 /\ i + 1 - 1 = i
      BY <1>1, <2>6
    <3>2. is[i] = WithChild(was[i], d[i + 1], new[n - (i + 1)])
      BY <1>5, <2>1, <2>6, <3>1
    <3>3. is[i + 1] = IF l = d[i + 1] THEN new[n - (i + 1)] ELSE was[i + 1]
      BY <2>2, <3>2, ChildOfNew
    <3>4. l = d[i + 1] => old[i + 1] = was[i + 1]
      BY <1>2, <2>1, <2>2, <2>6, <3>1
    <3> QED
      BY <2>3, <2>6, <3>3, <3>4
  <2>7. Along(i) => i <= n
    BY DEF Along
  <2> QED
    BY <1>1, <2>4, <2>5, <2>6, <2>7
<1>8. \A i \in Nat : i \in Claims
  <2> HIDE DEF Claims
  <2> QED
    BY <1>6, <1>7, NatSetInduction
<1> QED
  BY <1>1, <1>8

\* A prefix has the labels of the longer one.
LEMMA PrefixFacts ==
    ASSUME NEW S, NEW d \in Seq(S), NEW x \in Seq(S)
    PROVE  IsPrefix(d, x) <=> Len(d) <= Len(x) /\ \A j \in 1..Len(d) : x[j] = d[j]
<1>1. Len(d) \in Nat /\ Len(x) \in Nat
  OBVIOUS
<1>2. SubSeq(d, 1, Len(d)) = d
  BY SubSeqFull
<1>3. ASSUME Len(d) <= Len(x)
      PROVE  SubSeq(x, 1, Len(d)) = d <=> \A j \in 1..Len(d) : x[j] = d[j]
  <2>1. \A j \in 1..Len(d) : x[j] \in S
    BY <1>1, <1>3, ElementOfSeq
  <2> DEFINE y == SubSeq(x, 1, Len(d))
  <2>2. y \in Seq(S) /\ Len(y) = Len(d) /\ \A j \in 1..Len(d) : y[j] = x[j]
    BY <1>1, <1>3, <2>1
  <2> HIDE DEF y
  <2>3. (\A j \in 1..Len(d) : y[j] = d[j]) => y = d
    BY <2>2, SeqEqual
  <2> QED
    BY <2>2, <2>3 DEF y
<1> QED
  BY <1>2, <1>3 DEF IsPrefix

\* A tree to which a name was added matches what it matched, and what the name
\* covers.
LEMMA MatchAfterAdd ==
    ASSUME NEW t, NEW w, NEW S, Labels(w) \in Seq(S), NEW x \in Seq(S)
    PROVE  MatchTree(AddDomain(t, w), x) <=> MatchTree(t, x) \/ Covers(w, x)
<1>1. PICK d : d = Labels(w)
  OBVIOUS
<1>2. PICK n, m : n = Len(d) /\ m = Len(x)
  OBVIOUS
<1>3. n \in Nat /\ m \in Nat /\ d \in Seq(S)
  BY <1>1, <1>2
<1>4. CASE d = <<>>
  BY <1>1, <1>4 DEF AddDomain, Covers
<1>5. CASE d # <<>>
  <2>1. PICK ended : ended = (Last(w) # Empty)
    OBVIOUS
  <2>2. PICK old, new, was : /\ old = Path(t, d) /\ new = Rebuilt(t, d, ended)
                             /\ was = Path(t, x)
    OBVIOUS
  <2>3. PICK is : is = Path(new[n], x)
    OBVIOUS
  <2>4. AddDomain(t, w) = new[n]
    BY <1>1, <1>2, <1>5, <2>1, <2>2 DEF AddDomain
  <2> DEFINE along(i) == i <= n /\ \A j \in 1..i : x[j] = d[j]
  <2>5. \A i \in 0..m : /\ along(i) => old[i] = was[i] /\ is[i] = new[n - i]
                        /\ ~along(i) => is[i] = was[i]
    <3>1. MeetsNew(t, d, x, ended)
      BY <1>3, PathOfRebuilt
    <3> QED
      BY <1>2, <2>2, <2>3, <3>1 DEF MeetsNew
  <2>6. \A i \in 0..n : new[i] = IF i = 0 THEN IF ended THEN Terminal(old[n]) ELSE old[n]
                                 ELSE WithChild(old[n - i], d[n - i + 1], new[i - 1])
    <3>1. Regrows(t, d, ended)
      BY <1>3, RebuiltDef
    <3> QED
      BY <1>2, <2>2, <3>1 DEF Regrows
  <2>7. ASSUME NEW i \in 0..m
        PROVE  HasTerminal(is[i]) <=> HasTerminal(was[i]) \/ (ended /\ i = n /\ along(i))
    <3>1. CASE ~along(i)
      BY <2>5, <3>1
    <3>2. CASE along(i) /\ i = n
      <4>1. n - i = 0 /\ 0 \in 0..n
        BY <1>3, <3>2
      <4>2. is[i] = IF ended THEN Terminal(was[i]) ELSE was[i]
        BY <2>5, <2>6, <3>2, <4>1
      <4>3. HasTerminal(Terminal(was[i]))
        BY DEF HasTerminal, Terminal
      <4> QED
        BY <3>2, <4>2, <4>3
    <3>3. CASE along(i) /\ i # n
      <4>1. /\ n - i \in 0..n /\ n - i # 0 /\ n - (n - i) = i
        BY <1>3, <3>3
      <4>2. is[i] = WithChild(was[i], d[n - (n - i) + 1], new[n - i - 1])
        BY <2>5, <2>6, <3>3, <4>1, SMTT(30)
      <4>3. is[i].end = was[i].end
        BY <4>2 DEF WithChild
      <4> QED
        BY <3>3, <4>3 DEF HasTerminal
    <3> QED
      BY <3>1, <3>2, <3>3
  <2>8. MatchTree(new[n], x) <=> \E i \in 0..m : HasTerminal(is[i])
    BY <1>2, <2>3 DEF MatchTree
  <2>9. MatchTree(t, x) <=> \E i \in 0..m : HasTerminal(was[i])
    BY <1>2, <2>2 DEF MatchTree
  <2>10. Covers(w, x) <=> ended /\ n \in 0..m /\ along(n)
    <3>1. Covers(w, x) <=> ended /\ IsPrefix(d, x)
      BY <1>1, <1>5, <2>1 DEF Covers
    <3>2. IsPrefix(d, x) <=> n <= m /\ \A j \in 1..n : x[j] = d[j]
      BY <1>2, <1>3, PrefixFacts
    <3> QED
      BY <1>3, <3>1, <3>2
  <2> HIDE DEF along
  <2> QED
    BY <2>4, <2>7, <2>8, <2>9, <2>10
<1> QED
  BY <1>4, <1>5

\* Only a name without a label leaves an empty tree.
LEMMA AddToLeaf ==
    ASSUME NEW t, NEW w, NEW S, Labels(w) \in Seq(S)
    PROVE  AddDomain(t, w) = Leaf <=> t = Leaf /\ Labels(w) = <<>>
<1>1. PICK d : d = Labels(w)
  OBVIOUS
<1>2. PICK n : n = Len(d) /\ n \in Nat
  BY <1>1
<1>3. CASE d = <<>>
  BY <1>1, <1>3 DEF AddDomain
<1>4. CASE d # <<>>
  <2>1. PICK ended : ended = (Last(w) # Empty)
    OBVIOUS
  <2>2. PICK new : new = Rebuilt(t, d, ended)
    OBVIOUS
  <2>3. AddDomain(t, w) = new[n] /\ n > 0
    BY <1>1, <1>2, <1>4, <2>1, <2>2 DEF AddDomain
  <2>4. \E a, l, c : new[n] = WithChild(a, l, c)
    <3>1. Regrows(t, d, ended)
      BY <1>1, RebuiltDef
    <3> QED
      BY <1>1, <1>2, <2>2, <2>3, <3>1 DEF Regrows
  <2>5. ASSUME NEW a, NEW l, NEW c PROVE WithChild(a, l, c) # Leaf
    <3>1. l \in DOMAIN WithChild(a, l, c).sub /\ l \notin DOMAIN Leaf.sub
      BY DEF WithChild, Leaf
    <3> QED
      BY <3>1
  <2> QED
    BY <1>1, <1>4, <2>3, <2>4, <2>5
<1> QED
  BY <1>3, <1>4

-----------------------------------------------------------------------------
(* The matcher: its lists are the rules.                                   *)

\* Sequences up to a length are sequences.
LEMMA SeqUpToType == ASSUME NEW S, NEW n \in Nat PROVE SeqUpTo(S, n) \subseteq Seq(S)
  BY DEF SeqUpTo

\* A domain is a sequence of labels.
LEMMA DomainType == Domain \subseteq Seq(Label)
  BY SeqUpToType, MatcherAssumption DEF Domain

\* What is left of a written name are labels.
LEMMA LabelsType == ASSUME NEW w \in Written PROVE Labels(w) \in Seq(Label)
<1> DEFINE n == Len(w)
           Used(e, i) == IF w[i] = Empty THEN e ELSE Append(e, w[i])
           Walk(f, m) == f = [i \in 0..m |-> IF i = 0 THEN <<>> ELSE Used(f[i - 1], i)]
           Walks == {m \in Nat : \E f : Walk(f, m)}
<1>0. w \in Seq(Label \cup {Empty}) /\ n \in Nat
  BY SeqUpToType, MatcherAssumption DEF Written
<1>1. Labels(w) = (CHOOSE f : Walk(f, n))[n]
  BY Zenon DEF Labels
<1>2. ASSUME NEW e \in Seq(Label), NEW i \in 1..n PROVE Used(e, i) \in Seq(Label)
  BY <1>0
<1> HIDE DEF Used
<1>3. 0 \in Walks
  <2> DEFINE f == [i \in 0..0 |-> <<>>]
  <2>1. Walk(f, 0)
    OBVIOUS
  <2> HIDE DEF f
  <2> QED
    BY <2>1
<1>4. \A m \in Nat : m \in Walks => m + 1 \in Walks
  <2> SUFFICES ASSUME NEW m \in Nat, m \in Walks PROVE m + 1 \in Walks
    OBVIOUS
  <2>1. PICK f : Walk(f, m)
    OBVIOUS
  <2> DEFINE g == [i \in 0..m + 1 |-> IF i = m + 1 THEN Used(f[m], m + 1) ELSE f[i]]
  <2>2. ASSUME NEW i \in 0..m + 1
        PROVE  g[i] = IF i = 0 THEN <<>> ELSE Used(g[i - 1], i)
    <3>1. CASE i = 0
      BY <2>1, <3>1
    <3>2. CASE i = m + 1
      BY <3>2
    <3>3. CASE i \in 1..m
      <4>1. i # m + 1 /\ i - 1 # m + 1 /\ i \in 0..m /\ i - 1 \in 0..m + 1 /\ i # 0
        BY <3>3
      <4> QED
        BY <2>1, <4>1
    <3> QED
      BY <3>1, <3>2, <3>3
  <2>3. Walk(g, m + 1)
    <3> HIDE DEF g
    <3>1. g = [i \in 0..m + 1 |-> g[i]]
      BY DEF g
    <3> QED
      BY <2>2, <3>1
  <2> HIDE DEF g, Walk
  <2> QED
    BY <2>3
<1>5. \E f : Walk(f, n)
  <2> HIDE DEF Walk
  <2>1. n \in Walks
    <3> HIDE DEF Walks
    <3> QED
      BY <1>0, <1>3, <1>4, NatSetInduction
  <2> QED
    BY <2>1
<1>6. PICK used : Walk(used, n) /\ Labels(w) = used[n]
  <2> DEFINE u == CHOOSE f : Walk(f, n)
  <2>1. Walk(u, n)
    <3> HIDE DEF Walk
    <3> QED
      BY <1>5
  <2> HIDE DEF u, Walk
  <2>2. Labels(w) = u[n]
    BY <1>1 DEF u
  <2> QED
    BY <2>1, <2>2
<1>7. \A i \in 0..n : used[i] = IF i = 0 THEN <<>> ELSE Used(used[i - 1], i)
  BY <1>6
<1> DEFINE Typed == {i \in Nat : i <= n => used[i] \in Seq(Label)}
<1>8. 0 \in Typed
  <2>1. 0 \in 0..n
    BY <1>0
  <2>2. used[0] = <<>>
    BY <1>7, <2>1
  <2> QED
    BY <2>2, EmptySeq
<1>9. \A i \in Nat : i \in Typed => i + 1 \in Typed
  <2> SUFFICES ASSUME NEW i \in Nat, i \in Typed, i + 1 <= n PROVE used[i + 1] \in Seq(Label)
    BY <1>0
  <2>1. used[i + 1] = Used(used[i], i + 1) /\ used[i] \in Seq(Label) /\ i + 1 \in 1..n
    BY <1>0, <1>7
  <2> QED
    BY <1>2, <2>1
<1>10. n \in Typed
  <2> HIDE DEF Typed
  <2> QED
    BY <1>0, <1>8, <1>9, NatSetInduction
<1> QED
  BY <1>0, <1>6, <1>10

\* What NewDomainMatcher has made of the rules read.
ListsExact ==
    /\ \A d : d \in full <=> \E r \in given : r.kind = "full" /\ ~r.neg /\ d = Normal(r.value)
    /\ \A k : k \in keywords <=> \E r \in given : r.kind = "keyword" /\ k = r.value
    /\ \A l : l \in regexps <=> \E r \in given : r.kind = "regexp" /\ r.value # BadPattern
                                                 /\ l = r.value

\* The tree of the names is empty if there is no name: Unlisted looks at that.
WhiteOfSuffixes ==
    white = Leaf <=> \A r \in given : r.kind = "suffix" /\ ~r.neg => Labels(r.value) = <<>>

\* What does not compile fails the resolver.
BadFails == ~failed => \A r \in given : r.kind = "regexp" => r.value # BadPattern

\* The invariant of the matcher.
MatcherInv == /\ given \subseteq Rule /\ TreeIsSuffixSet
              /\ ListsExact /\ WhiteOfSuffixes /\ BadFails

\* What there is in a rule.
LEMMA RuleType ==
    ASSUME NEW r \in Rule
    PROVE  /\ r.neg \in BOOLEAN
           /\ r.kind \in {"suffix", "full", "keyword", "regexp"}
           /\ r.kind \in {"suffix", "full"} => r.value \in Written
  BY MatcherAssumption DEF Rule, Value

\* A matcher without rules: an empty tree matches nothing.
LEMMA MatcherInitInv == MatcherInit => MatcherInv
<1> SUFFICES ASSUME MatcherInit PROVE MatcherInv
  OBVIOUS
<1>1. ASSUME NEW d \in Domain PROVE ~MatchTree(Leaf, d)
  <2>1. d \in Seq(Label) /\ Len(d) \in Nat
    BY DomainType
  <2>2. \A i \in 0..Len(d) : Path(Leaf, d)[i] = IF i = 0 THEN Leaf
                                                ELSE Child(Path(Leaf, d)[i - 1], d[i])
    BY <2>1, PathDef
  <2>3. \A l : Child(Leaf, l) = Leaf
    BY DEF Child, Leaf
  <2> DEFINE S == {i \in Nat : i <= Len(d) => Path(Leaf, d)[i] = Leaf}
  <2>4. 0 \in S
    BY <2>1, <2>2
  <2>5. \A i \in Nat : i \in S => i + 1 \in S
    BY <2>1, <2>2, <2>3
  <2>6. \A i \in Nat : i \in S
    <3> HIDE DEF S
    <3> QED
      BY <2>4, <2>5, NatSetInduction
  <2>7. ~HasTerminal(Leaf)
    BY DEF HasTerminal, Leaf
  <2> QED
    BY <2>1, <2>6, <2>7 DEF MatchTree
<1> QED
  BY <1>1 DEF MatcherInit, MatcherInv, TreeIsSuffixSet, ListsExact, WhiteOfSuffixes, BadFails

\* AddSuffix, AddFull, AddKeyword, AddRegexp and Reject: the rule is in its list.
LEMMA AddRuleInv == ASSUME MatcherInv, NEW r \in Rule, AddRule(r) PROVE MatcherInv'
<1> USE DEF MatcherInv
<1>1. given' = given \cup {r} /\ given' \subseteq Rule
  BY DEF AddRule
<1>2. r.neg \in BOOLEAN /\ r.kind \in {"suffix", "full", "keyword", "regexp"}
  BY RuleType
<1>3. CASE AddSuffix(r)
  <2>1. r.kind \in {"suffix", "full"} /\ Labels(r.value) \in Seq(Label)
    BY <1>3, RuleType, LabelsType DEF AddSuffix
  <2>2. /\ UNCHANGED <<full, keywords, regexps, failed>>
        /\ r.neg => black' = AddDomain(black, r.value) /\ white' = white
        /\ ~r.neg => white' = AddDomain(white, r.value) /\ black' = black /\ r.kind = "suffix"
    BY <1>2, <1>3 DEF AddSuffix
  <2>3. ASSUME NEW t, NEW d \in Domain
        PROVE  MatchTree(AddDomain(t, r.value), d) <=> MatchTree(t, d) \/ Covers(r.value, d)
    BY <2>1, DomainType, MatchAfterAdd
  <2>4. TreeIsSuffixSet'
    BY <1>1, <1>2, <2>1, <2>2, <2>3 DEF TreeIsSuffixSet
  <2>5. ListsExact' /\ BadFails'
    BY <1>1, <2>1, <2>2 DEF ListsExact, BadFails
  <2>6. WhiteOfSuffixes'
    BY <1>1, <1>2, <2>1, <2>2, AddToLeaf DEF WhiteOfSuffixes
  <2> QED
    BY <1>1, <2>4, <2>5, <2>6
<1>4. CASE AddFull(r)
  BY <1>1, <1>4 DEF AddFull, TreeIsSuffixSet, ListsExact, WhiteOfSuffixes, BadFails
<1>5. CASE AddKeyword(r)
  BY <1>1, <1>5 DEF AddKeyword, TreeIsSuffixSet, ListsExact, WhiteOfSuffixes, BadFails
<1>6. CASE AddRegexp(r)
  BY <1>1, <1>6 DEF AddRegexp, TreeIsSuffixSet, ListsExact, WhiteOfSuffixes, BadFails
<1>7. CASE Reject(r)
  BY <1>1, <1>7 DEF Reject, TreeIsSuffixSet, ListsExact, WhiteOfSuffixes, BadFails
<1> QED
  BY <1>3, <1>4, <1>5, <1>6, <1>7 DEF AddRule

\* MatchDomain asks the lists, and the lists are the rules.
LEMMA PriorityFollows == MatcherInv => FollowsPriority
<1> SUFFICES ASSUME MatcherInv, ~failed, \A r \in Negative : r.kind = "suffix",
                    NEW d \in Domain
             PROVE  MatchDomain(d) <=> Wanted(d) /\ ~Unwanted(d)
  BY DEF FollowsPriority
<1>1. \A r \in given : /\ r.neg \in BOOLEAN
                       /\ r.kind \in {"suffix", "full", "keyword", "regexp"}
                       /\ r.neg => r.kind = "suffix"
                       /\ r.kind = "regexp" => r.value # BadPattern
  BY RuleType DEF MatcherInv, BadFails, Negative
<1>2. ASSUME NEW r
      PROVE  /\ r.kind = "suffix" => (Means(r, d) <=> Covers(r.value, d))
             /\ r.kind = "full" => (Means(r, d) <=> d = Normal(r.value))
             /\ r.kind = "keyword" => (Means(r, d) <=> ContainsKeyword(d, r.value))
             /\ r.kind = "regexp" => (Means(r, d) <=> MatchesRegexp(d, r.value))
  BY DEF Means
<1> DEFINE InFull == d \in full
           HasKeyword == \E k \in keywords : ContainsKeyword(d, k)
           HasMatch == \E l \in regexps : MatchesRegexp(d, l)
<1>3. MatchTree(black, d) <=> Unwanted(d)
  BY <1>1, <1>2 DEF MatcherInv, TreeIsSuffixSet, Unwanted, Negative
<1>4. (\E r \in Positive : Means(r, d)) <=> MatchTree(white, d) \/ InFull \/ HasKeyword \/ HasMatch
  <2>1. MatchTree(white, d) <=> \E r \in Positive : r.kind = "suffix" /\ Means(r, d)
    BY <1>1, <1>2 DEF MatcherInv, TreeIsSuffixSet, Positive, Covers
  <2>2. InFull <=> \E r \in Positive : r.kind = "full" /\ Means(r, d)
    BY <1>1, <1>2 DEF MatcherInv, ListsExact, Positive
  <2>3. HasKeyword <=> \E r \in Positive : r.kind = "keyword" /\ Means(r, d)
    BY <1>1, <1>2 DEF MatcherInv, ListsExact, Positive
  <2>4. HasMatch <=> \E r \in Positive : r.kind = "regexp" /\ Means(r, d)
    BY <1>1, <1>2 DEF MatcherInv, ListsExact, Positive
  <2>5. \A r \in Positive : r.kind \in {"suffix", "full", "keyword", "regexp"}
    BY <1>1 DEF Positive
  <2> QED
    BY <2>1, <2>2, <2>3, <2>4, <2>5
<1>5. Unlisted <=> Positive = {}
  <2>1. full = {} <=> \A r \in Positive : r.kind # "full"
    BY <1>1 DEF MatcherInv, ListsExact, Positive
  <2>2. keywords = {} <=> \A r \in Positive : r.kind # "keyword"
    BY <1>1 DEF MatcherInv, ListsExact, Positive
  <2>3. regexps = {} <=> \A r \in Positive : r.kind # "regexp"
    BY <1>1 DEF MatcherInv, ListsExact, Positive
  <2>4. white = Leaf <=> \A r \in Positive : r.kind # "suffix"
    BY <1>1 DEF MatcherInv, WhiteOfSuffixes, Positive
  <2>5. \A r \in Positive : r.kind \in {"suffix", "full", "keyword", "regexp"}
    BY <1>1 DEF Positive
  <2> QED
    BY <2>1, <2>2, <2>3, <2>4, <2>5 DEF Unlisted
<1> QED
  BY <1>3, <1>4, <1>5 DEF MatchDomain, Verdict, Wanted

\* What a text is known to say is a rule.
SaysRules == \A t \in DOMAIN says : says[t] \in Rule

\* The invariant of the matcher holds in every reachable state.
THEOREM MatcherInvariance == RulesSpec => [](MatcherInv /\ SaysRules)
<1>1. RulesInit => MatcherInv /\ SaysRules
  BY MatcherInitInv DEF RulesInit, SaysRules
<1>2. MatcherInv /\ SaysRules /\ [RulesNext]_rulesVars => (MatcherInv /\ SaysRules)'
  <2> SUFFICES ASSUME MatcherInv, SaysRules, [RulesNext]_rulesVars
               PROVE  MatcherInv' /\ SaysRules'
    OBVIOUS
  <2>1. ASSUME UNCHANGED <<matcherVars, says>> PROVE MatcherInv' /\ SaysRules'
    BY <2>1 DEF matcherVars, MatcherInv, TreeIsSuffixSet, ListsExact, WhiteOfSuffixes, BadFails,
                SaysRules
  <2>2. CASE ReadRule
    <3> DEFINE t == Head(unread)
               kept == ToSet(Tail(unread)) \cap (DOMAIN says \cup {t})
    <3>1. PICK r \in Meaning(t) :
             AddRule(r) /\ says' = [u \in kept |-> IF u = t THEN r ELSE says[u]]
      BY <2>2 DEF ReadRule
    <3>2. r \in Rule
      BY <3>1 DEF Meaning, SaysRules
    <3>3. MatcherInv'
      BY <3>1, <3>2, AddRuleInv
    <3>4. \A u \in kept : u # t => u \in DOMAIN says
      OBVIOUS
    <3> HIDE DEF t, kept
    <3>5. SaysRules'
      BY <3>1, <3>2, <3>4 DEF SaysRules
    <3> QED
      BY <3>3, <3>5
  <2> QED
    BY <2>1, <2>2 DEF RulesNext, ParseRules, HandOver, rulesVars
<1> QED
  BY <1>1, <1>2, PTL DEF RulesSpec

\* "blacklist -> suffix tree -> full -> keyword -> regexp", for whatever rules in
\* whatever order, and the rest accepted if there is no other (USAGE.md:205, 223).
THEOREM PriorityHolds == RulesSpec => []FollowsPriority
  BY MatcherInvariance, PriorityFollows, PTL

\* The suffix trees match exactly the domains that the suffix rules cover,
\* however they overlap or repeat (matcher.go:117-162).
THEOREM TreesAreSets == RulesSpec => []TreeIsSuffixSet
<1>1. MatcherInv => TreeIsSuffixSet
  BY DEF MatcherInv
<1> QED
  BY MatcherInvariance, <1>1, PTL

-----------------------------------------------------------------------------
(* The v2fly lists.                                                        *)

\* Nobody has a list.
NoCopy(l) == disk[l].data = Absent /\ mem[l] = Absent

\* Until the first configuration has been read nobody but main is there, and
\* the lists that it has passed and that nobody has are marked.
Booting ==
    /\ main.pc = "boot" <=> build["main"].pc # "idle"
    /\ main.pc = "boot" =>
         /\ retry.pc = "off"
         /\ running = Nothing
         /\ \A b \in Builder : b # "main" => build[b].pc = "idle"
         /\ \A i \in DOMAIN Lists :
              /\ i < build["main"].at \/ build["main"].pc = "built"
              /\ NoCopy(Lists[i])
              => Lists[i] \in pending

\* The build of the callback is there while the retry goroutine waits for it.
Refreshing == retry.pc = "refresh" <=> build["retry"].pc # "idle"

\* What the retry goroutine holds is the content of a list, and it clears the
\* copy in memory, or the mark, of a list that has another copy.
Downloaded ==
    /\ retry.pc \in {"open", "write", "stash", "unstash", "clear"} => retry.lines \in Version
    /\ retry.pc = "unstash" => disk[retry.list].data \in Version
    /\ retry.pc = "clear" => ~NoCopy(retry.list)

\* What a build has found is still there when it acts on it.
StillThere == \A b \in Builder :
    /\ build[b].pc = "read" => disk[At(b)].data # Absent
    /\ build[b].pc = "clear" => ~NoCopy(At(b))

\* The invariant of the v2fly lists.
V2flyInv == /\ TypeOK /\ Booting /\ Refreshing /\ Downloaded /\ StillThere
            /\ MissingIsPending /\ TornIsHidden

Pc == {"idle", "mem", "stat", "read", "mark", "clear", "built"}
Build == [pc : Pc, at : DOMAIN Lists, fresh : BOOLEAN, rules : Rules]
Content == {Absent, Sentinel, Torn} \cup Version

-----------------------------------------------------------------------------
(* Facts about the constants, and about the two ways a build goes on.      *)

\* The lists are counted from 1, and there is one.
LEMMA ListFacts == /\ Len(Lists) \in Nat /\ DOMAIN Lists = 1..Len(Lists)
                   /\ 1 \in DOMAIN Lists
                   /\ \A i \in DOMAIN Lists : Lists[i] \in List
  <1>1. Lists \in Seq(List) /\ Lists # <<>>
    BY V2flyAssumption
  <1>2. \A i \in DOMAIN Lists : Lists[i] \in List
    BY DEF List
  <1> QED
    BY <1>1, <1>2

\* No version is one of the marks, and the marks differ.
LEMMA ContentFacts == /\ Absent # Torn /\ Absent # Sentinel
                      /\ Absent \notin Version /\ Torn \notin Version
                      /\ Nothing \in Rules /\ 1 \in Version
  <1>1. /\ Absent # Torn /\ Absent # Sentinel
        /\ Absent \notin Version /\ Torn \notin Version /\ 1 \in Version
    BY V2flyAssumption DEF Absent, Torn, Sentinel, Version
  <1>2. Nothing \in Rules
    BY DEF Nothing, Rules
  <1> QED
    BY <1>1, <1>2

\* The builds that wait and the one that begins.
LEMMA BuildFacts == /\ Idle \in Build /\ Idle.pc = "idle"
                    /\ Begun \in Build /\ Begun.pc = "mem" /\ Begun.at = 1
                    /\ "main" \in Builder /\ "retry" \in Builder
  BY ListFacts, ContentFacts DEF Idle, Begun, Build, Pc, Builder

\* What a build has found of a list changes neither its place nor any other
\* build.
LEMMA FoundEffect ==
    ASSUME TypeOK, NEW b \in Builder, NEW content \in Content, NEW then \in Pc,
           Found(b, content, then)
    PROVE  /\ build' \in [Builder -> Build]
           /\ build'[b].pc = then /\ build'[b].at = build[b].at
           /\ \A c \in Builder : c # b => build'[c] = build[c]
  <1>1. build \in [Builder -> Build]
    BY DEF TypeOK, Build, Pc
  <1>2. build' = [build EXCEPT ![b] = [[@ EXCEPT !.rules[At(b)] = content] EXCEPT !.pc = then]]
    BY <1>1 DEF Found, Build
  <1>3. [build[b].rules EXCEPT ![At(b)] = content] \in Rules
    BY <1>1 DEF Build, Rules, Content
  <1>4. [[build[b] EXCEPT !.rules[At(b)] = content] EXCEPT !.pc = then]
           = [build[b] EXCEPT !.rules = [build[b].rules EXCEPT ![At(b)] = content], !.pc = then]
    BY <1>1 DEF Build
  <1> QED
    BY <1>1, <1>2, <1>3, <1>4 DEF Build

\* What has a copy keeps one.
LEMMA CopiesStay ==
    ASSUME V2flyInv, \A l \in List : disk[l].data # Absent => disk'[l].data # Absent,
           \A l \in List : NoCopy(l)' => NoCopy(l),
           UNCHANGED <<build, main, pending>>
    PROVE  StillThere' /\ MissingIsPending'
  <1> USE ListFacts DEF V2flyInv, TypeOK
  <1>1. StillThere'
    <2> SUFFICES ASSUME NEW b \in Builder
                 PROVE  /\ build[b].pc = "read" => disk'[At(b)].data # Absent
                        /\ build[b].pc = "clear" => ~NoCopy(At(b))'
      BY DEF StillThere, At
    <2>1. At(b) \in List /\ At(b)' = At(b)
      BY DEF At
    <2>2. NoCopy(At(b))' => NoCopy(At(b))
      BY <2>1
    <2> QED
      BY <2>1, <2>2 DEF StillThere
  <1>2. MissingIsPending'
    BY DEF MissingIsPending, NoCopy
  <1> QED
    BY <1>1, <1>2

\* The next list is the one after it, if there is one.
LEMMA NextEffect ==
    ASSUME TypeOK, NEW b \in Builder, NextList(b)
    PROVE  /\ build' \in [Builder -> Build]
           /\ \A c \in Builder : c # b => build'[c] = build[c]
           /\ \/ build'[b].pc = "built" /\ build'[b].at = build[b].at
                 /\ build[b].at = Len(Lists)
              \/ build'[b].pc = "mem" /\ build'[b].at = build[b].at + 1
  <1>1. build \in [Builder -> Build] /\ build[b].at \in 1..Len(Lists)
    BY ListFacts DEF TypeOK, Build, Pc
  <1>2. CASE LastList(b)
    BY <1>1, <1>2 DEF NextList, LastList, Build, Pc
  <1>3. CASE ~LastList(b)
    <2>1. build[b].at + 1 \in DOMAIN Lists
      BY <1>1, <1>3, ListFacts DEF LastList
    <2> DEFINE after == [build[b] EXCEPT !.pc = "mem", !.fresh = FALSE, !.at = @ + 1]
    <2>2. after \in Build /\ after.pc = "mem" /\ after.at = build[b].at + 1
      BY <1>1, <2>1 DEF Build, Pc
    <2>3. build' = [build EXCEPT ![b] = after]
      <3>1. build' = [build EXCEPT ![b] =
                 [build[b] EXCEPT !.pc = "mem", !.fresh = FALSE, !.at = build[b].at + 1]]
        BY <1>1, <1>3, ListFacts DEF NextList, Build
      <3> QED
        BY <1>1, <3>1 DEF Build
    <2> HIDE DEF after
    <2> QED
      BY <1>1, <2>2, <2>3
  <1> QED
    BY <1>2, <1>3

-----------------------------------------------------------------------------
(* Every action preserves the invariant: the builds.                       *)

\* LoadMem: a copy in memory is a copy.
LEMMA LoadMemInv ==
    ASSUME V2flyInv, NEW b \in Builder, LoadMem(b)
    PROVE  V2flyInv'
  <1> USE ListFacts, ContentFacts, BuildFacts DEF V2flyInv, LoadMem, server, env
  <1>1. At(b) \in List
    BY DEF TypeOK, At
  <1>2. /\ build' \in [Builder -> Build] /\ build'[b].at = build[b].at
        /\ \A c \in Builder : c # b => build'[c] = build[c]
        /\ \/ mem[At(b)] # Absent /\ build'[b].pc = "clear"
           \/ mem[At(b)] = Absent /\ build'[b].pc = "stat"
    <2>1. CASE mem[At(b)] # Absent
      BY <2>1, <1>1, FoundEffect DEF TypeOK, Content, Pc
    <2>2. CASE mem[At(b)] = Absent
      <3> DEFINE after == [build[b] EXCEPT !.pc = "stat"]
      <3>1. build \in [Builder -> Build]
        BY DEF TypeOK, Build, Pc
      <3>2. after \in Build /\ after.pc = "stat" /\ after.at = build[b].at
        BY <3>1 DEF Build, Pc
      <3>3. build' = [build EXCEPT ![b] = after]
        BY <2>2, <3>1 DEF Build
      <3> QED
        BY <2>2, <3>1, <3>2, <3>3
    <2> QED
      BY <2>1, <2>2
  <1>3. TypeOK'
    BY <1>1, <1>2 DEF TypeOK, Build, Pc
  <1>4. Booting'
    <2>1. CASE b = "main"
      BY <2>1, <1>2 DEF TypeOK, Booting, NoCopy
    <2>2. CASE b # "main"
      BY <2>2, <1>2 DEF TypeOK, Booting, NoCopy
    <2> QED
      BY <2>1, <2>2
  <1>5. Refreshing'
    BY <1>1, <1>2 DEF TypeOK, Refreshing, Booting
  <1>6. Downloaded'
    BY <1>1, <1>2 DEF TypeOK, Downloaded, NoCopy, Booting
  <1>7. StillThere'
    <2> SUFFICES ASSUME NEW c \in Builder
                 PROVE  /\ build'[c].pc = "read" => disk[Lists[build'[c].at]].data # Absent
                        /\ build'[c].pc = "clear" => ~NoCopy(Lists[build'[c].at])
      BY DEF StillThere, At, NoCopy
    <2>1. CASE c = b
      BY <2>1, <1>1, <1>2 DEF StillThere, At, NoCopy
    <2>2. CASE c # b
      BY <2>2, <1>2 DEF StillThere, At, NoCopy
    <2> QED
      BY <2>1, <2>2
  <1>8. MissingIsPending'
    BY <1>1, <1>2 DEF TypeOK, MissingIsPending
  <1>9. TornIsHidden'
    BY <1>1, <1>2 DEF TypeOK, TornIsHidden
  <1> QED
    BY <1>3, <1>4, <1>5, <1>6, <1>7, <1>8, <1>9

\* Stat: a file that is there is there to be read.
LEMMA StatInv ==
    ASSUME V2flyInv, NEW b \in Builder, Stat(b)
    PROVE  V2flyInv'
  <1> USE ListFacts, ContentFacts, BuildFacts DEF V2flyInv, Stat, server, env
  <1>1. At(b) \in List
    BY DEF TypeOK, At
  <1>2. /\ build' \in [Builder -> Build] /\ build'[b].at = build[b].at
        /\ \A c \in Builder : c # b => build'[c] = build[c]
        /\ \/ disk[At(b)].data = Absent /\ build'[b].pc = "mark"
           \/ disk[At(b)].data # Absent /\ build'[b].pc = "read"
    <2>1. CASE disk[At(b)].data = Absent
      BY <2>1, <1>1, FoundEffect DEF Content, Pc
    <2>2. CASE disk[At(b)].data # Absent
      <3> DEFINE after == [build[b] EXCEPT !.pc = "read", !.fresh = disk[At(b)].fresh]
      <3>1. build \in [Builder -> Build] /\ disk[At(b)].fresh \in BOOLEAN
        BY <1>1 DEF TypeOK, Build, Pc
      <3>2. after \in Build /\ after.pc = "read" /\ after.at = build[b].at
        BY <3>1 DEF Build, Pc
      <3>3. build' = [build EXCEPT ![b] = after]
        BY <2>2, <3>1 DEF Build
      <3> QED
        BY <2>2, <3>1, <3>2, <3>3
    <2> QED
      BY <2>1, <2>2
  <1>3. TypeOK'
    BY <1>1, <1>2 DEF TypeOK, Build, Pc
  <1>4. Booting'
    <2>1. CASE b = "main"
      BY <2>1, <1>2 DEF TypeOK, Booting, NoCopy
    <2>2. CASE b # "main"
      BY <2>2, <1>2 DEF TypeOK, Booting, NoCopy
    <2> QED
      BY <2>1, <2>2
  <1>5. Refreshing'
    BY <1>1, <1>2 DEF TypeOK, Refreshing, Booting
  <1>6. Downloaded'
    BY <1>1, <1>2 DEF TypeOK, Downloaded, NoCopy, Booting
  <1>7. StillThere'
    <2> SUFFICES ASSUME NEW c \in Builder
                 PROVE  /\ build'[c].pc = "read" => disk[Lists[build'[c].at]].data # Absent
                        /\ build'[c].pc = "clear" => ~NoCopy(Lists[build'[c].at])
      BY DEF StillThere, At, NoCopy
    <2>1. CASE c = b
      BY <2>1, <1>1, <1>2 DEF StillThere, At, NoCopy
    <2>2. CASE c # b
      BY <2>2, <1>2 DEF StillThere, At, NoCopy
    <2> QED
      BY <2>1, <2>2
  <1>8. MissingIsPending'
    BY <1>1, <1>2 DEF TypeOK, MissingIsPending
  <1>9. TornIsHidden'
    BY <1>1, <1>2 DEF TypeOK, TornIsHidden
  <1> QED
    BY <1>3, <1>4, <1>5, <1>6, <1>7, <1>8, <1>9

\* ReadFile: the file is still there.
LEMMA ReadFileInv ==
    ASSUME V2flyInv, NEW b \in Builder, ReadFile(b)
    PROVE  V2flyInv'
  <1> USE ListFacts, ContentFacts, BuildFacts DEF V2flyInv, ReadFile, MustMark, server, env
  <1>1. At(b) \in List
    BY DEF TypeOK, At
  <1>2. /\ build' \in [Builder -> Build] /\ build'[b].at = build[b].at
        /\ \A c \in Builder : c # b => build'[c] = build[c]
        /\ build'[b].pc \in {"mark", "clear"}
    <2>1. disk[At(b)].data \in Content
      BY <1>1 DEF TypeOK, Content
    <2> QED
      BY <2>1, FoundEffect DEF Pc
  <1>3. TypeOK'
    BY <1>1, <1>2 DEF TypeOK, Build, Pc
  <1>4. Booting'
    <2>1. CASE b = "main"
      BY <2>1, <1>2 DEF TypeOK, Booting, NoCopy
    <2>2. CASE b # "main"
      BY <2>2, <1>2 DEF TypeOK, Booting, NoCopy
    <2> QED
      BY <2>1, <2>2
  <1>5. Refreshing'
    BY <1>1, <1>2 DEF TypeOK, Refreshing, Booting
  <1>6. Downloaded'
    BY <1>1, <1>2 DEF TypeOK, Downloaded, NoCopy, Booting
  <1>7. StillThere'
    <2> SUFFICES ASSUME NEW c \in Builder
                 PROVE  /\ build'[c].pc = "read" => disk[Lists[build'[c].at]].data # Absent
                        /\ build'[c].pc = "clear" => ~NoCopy(Lists[build'[c].at])
      BY DEF StillThere, At, NoCopy
    <2>1. CASE c = b
      BY <2>1, <1>1, <1>2 DEF StillThere, At, NoCopy
    <2>2. CASE c # b
      BY <2>2, <1>2 DEF StillThere, At, NoCopy
    <2> QED
      BY <2>1, <2>2, SMTT(30)
  <1>8. MissingIsPending'
    BY <1>1, <1>2 DEF TypeOK, MissingIsPending
  <1>9. TornIsHidden'
    BY <1>1, <1>2 DEF TypeOK, TornIsHidden
  <1> QED
    BY <1>3, <1>4, <1>5, <1>6, <1>7, <1>8, <1>9

\* ReadFileFails: a file that cannot be read is marked.
LEMMA ReadFileFailsInv ==
    ASSUME V2flyInv, NEW b \in Builder, ReadFileFails(b)
    PROVE  V2flyInv'
  <1> USE ListFacts, ContentFacts, BuildFacts DEF V2flyInv, ReadFileFails, Fault, server
  <1>1. At(b) \in List
    BY DEF TypeOK, At
  <1>2. /\ build' \in [Builder -> Build] /\ build'[b].at = build[b].at
        /\ \A c \in Builder : c # b => build'[c] = build[c]
        /\ build'[b].pc = "mark"
    BY FoundEffect DEF Content, Pc
  <1>3. TypeOK'
    <2>1. faults' \in 0..MaxFaults
      BY V2flyAssumption DEF TypeOK
    <2> QED
      BY <2>1, <1>1, <1>2 DEF TypeOK, Build, Pc
  <1>4. Booting'
    <2>1. CASE b = "main"
      BY <2>1, <1>2 DEF TypeOK, Booting, NoCopy
    <2>2. CASE b # "main"
      BY <2>2, <1>2 DEF TypeOK, Booting, NoCopy
    <2> QED
      BY <2>1, <2>2
  <1>5. Refreshing'
    BY <1>1, <1>2 DEF TypeOK, Refreshing, Booting
  <1>6. Downloaded'
    BY <1>1, <1>2 DEF TypeOK, Downloaded, NoCopy, Booting
  <1>7. StillThere'
    <2> SUFFICES ASSUME NEW c \in Builder
                 PROVE  /\ build'[c].pc = "read" => disk[Lists[build'[c].at]].data # Absent
                        /\ build'[c].pc = "clear" => ~NoCopy(Lists[build'[c].at])
      BY DEF StillThere, At, NoCopy
    <2>1. CASE c = b
      BY <2>1, <1>1, <1>2 DEF StillThere, At, NoCopy
    <2>2. CASE c # b
      BY <2>2, <1>2 DEF StillThere, At, NoCopy
    <2> QED
      BY <2>1, <2>2, SMTT(30)
  <1>8. MissingIsPending'
    BY <1>1, <1>2 DEF TypeOK, MissingIsPending
  <1>9. TornIsHidden'
    BY <1>1, <1>2 DEF TypeOK, TornIsHidden
  <1> QED
    BY <1>3, <1>4, <1>5, <1>6, <1>7, <1>8, <1>9

\* MarkPending: a mark hurts nobody.
LEMMA MarkPendingInv ==
    ASSUME V2flyInv, NEW b \in Builder, MarkPending(b)
    PROVE  V2flyInv'
  <1> USE ListFacts, ContentFacts, BuildFacts DEF V2flyInv, MarkPending, server, env
  <1>1. At(b) \in List
    BY DEF TypeOK, At
  <1>2. /\ build' \in [Builder -> Build]
        /\ \A c \in Builder : c # b => build'[c] = build[c]
        /\ \/ build'[b].pc = "built" /\ build'[b].at = build[b].at
              /\ build[b].at = Len(Lists)
           \/ build'[b].pc = "mem" /\ build'[b].at = build[b].at + 1
    BY NextEffect
  <1>3. TypeOK'
    BY <1>1, <1>2 DEF TypeOK, Build, Pc
  <1>4. Booting'
    <2>1. CASE b = "main"
      <3>1. main.pc = "boot" /\ main'.pc = "boot" /\ build'["main"].pc # "idle"
        BY <2>1, <1>2 DEF Booting
      <3>2. ASSUME NEW i \in DOMAIN Lists, NoCopy(Lists[i])',
                   i < build'["main"].at \/ build'["main"].pc = "built"
            PROVE  Lists[i] \in pending'
        <4>1. i <= build["main"].at /\ build["main"].at \in Nat
          BY <2>1, <1>2, <3>2 DEF TypeOK
        <4>2. CASE i = build["main"].at
          BY <2>1, <3>2, <4>2 DEF At, NoCopy
        <4>3. CASE i < build["main"].at
          <5>1. Lists[i] \in pending
            BY <3>1, <3>2, <4>3 DEF Booting, NoCopy
          <5> QED
            BY <5>1, <3>2 DEF NoCopy
        <4> QED
          BY <4>1, <4>2, <4>3
      <3> QED
        BY <2>1, <1>2, <3>1, <3>2 DEF Booting
    <2>2. CASE b # "main"
      <3>1. main.pc # "boot"
        BY <2>2 DEF Booting
      <3> QED
        BY <2>2, <1>2, <3>1 DEF Booting
    <2> QED
      BY <2>1, <2>2
  <1>5. Refreshing'
    BY <1>1, <1>2 DEF TypeOK, Refreshing, Booting
  <1>6. Downloaded'
    BY <1>1, <1>2 DEF TypeOK, Downloaded, NoCopy, Booting
  <1>7. StillThere'
    <2> SUFFICES ASSUME NEW c \in Builder
                 PROVE  /\ build'[c].pc = "read" => disk[Lists[build'[c].at]].data # Absent
                        /\ build'[c].pc = "clear" => ~NoCopy(Lists[build'[c].at])
      BY DEF StillThere, At, NoCopy
    <2>1. CASE c = b
      BY <2>1, <1>2
    <2>2. CASE c # b
      BY <2>2, <1>2 DEF StillThere, At
    <2> QED
      BY <2>1, <2>2
  <1>8. MissingIsPending'
    BY <1>1, <1>2 DEF TypeOK, MissingIsPending
  <1>9. TornIsHidden'
    BY <1>1, <1>2 DEF TypeOK, TornIsHidden
  <1> QED
    BY <1>3, <1>4, <1>5, <1>6, <1>7, <1>8, <1>9

\* ClearFresh: the list that loses its mark has a copy.
LEMMA ClearFreshInv ==
    ASSUME V2flyInv, NEW b \in Builder, ClearFresh(b)
    PROVE  V2flyInv'
  <1> USE ListFacts, ContentFacts, BuildFacts DEF V2flyInv, ClearFresh, server, env
  <1>1. At(b) \in List
    BY DEF TypeOK, At
  <1>2. /\ build' \in [Builder -> Build]
        /\ \A c \in Builder : c # b => build'[c] = build[c]
        /\ \/ build'[b].pc = "built" /\ build'[b].at = build[b].at
              /\ build[b].at = Len(Lists)
           \/ build'[b].pc = "mem" /\ build'[b].at = build[b].at + 1
    BY NextEffect
  <1>3. ~NoCopy(At(b))
    BY DEF StillThere
  <1>4. TypeOK'
    BY <1>1, <1>2, <1>3 DEF TypeOK, Build, Pc
  <1>5. Booting'
    <2>1. CASE b = "main"
      <3>1. main.pc = "boot" /\ main'.pc = "boot" /\ build'["main"].pc # "idle"
        BY <2>1, <1>2 DEF Booting
      <3>2. ASSUME NEW i \in DOMAIN Lists, NoCopy(Lists[i])',
                   i < build'["main"].at \/ build'["main"].pc = "built"
            PROVE  Lists[i] \in pending'
        <4>1. i <= build["main"].at /\ build["main"].at \in Nat
          BY <2>1, <1>2, <3>2 DEF TypeOK
        <4>2. CASE i = build["main"].at
          BY <2>1, <3>2, <4>2, <1>3 DEF At, NoCopy
        <4>3. CASE i < build["main"].at
          <5>1. Lists[i] \in pending
            BY <3>1, <3>2, <4>3 DEF Booting, NoCopy
          <5> QED
            BY <5>1, <3>2, <1>3 DEF NoCopy
        <4> QED
          BY <4>1, <4>2, <4>3
      <3> QED
        BY <2>1, <1>2, <3>1, <3>2 DEF Booting
    <2>2. CASE b # "main"
      <3>1. main.pc # "boot"
        BY <2>2 DEF Booting
      <3> QED
        BY <2>2, <1>2, <3>1 DEF Booting
    <2> QED
      BY <2>1, <2>2
  <1>6. Refreshing'
    BY <1>1, <1>2, <1>3 DEF TypeOK, Refreshing, Booting
  <1>7. Downloaded'
    BY <1>1, <1>2, <1>3 DEF TypeOK, Downloaded, NoCopy, Booting
  <1>8. StillThere'
    <2> SUFFICES ASSUME NEW c \in Builder
                 PROVE  /\ build'[c].pc = "read" => disk[Lists[build'[c].at]].data # Absent
                        /\ build'[c].pc = "clear" => ~NoCopy(Lists[build'[c].at])
      BY DEF StillThere, At, NoCopy
    <2>1. CASE c = b
      BY <2>1, <1>1, <1>2 DEF StillThere, At, NoCopy
    <2>2. CASE c # b
      BY <2>2, <1>2 DEF StillThere, At, NoCopy
    <2> QED
      BY <2>1, <2>2
  <1>9. MissingIsPending'
    BY <1>1, <1>3 DEF TypeOK, MissingIsPending, NoCopy
  <1>10. TornIsHidden'
    BY <1>1, <1>2, <1>3 DEF TypeOK, TornIsHidden
  <1> QED
    BY <1>4, <1>5, <1>6, <1>7, <1>8, <1>9, <1>10

\* Boot: main has passed all lists.
LEMMA BootInv ==
    ASSUME V2flyInv, Boot
    PROVE  V2flyInv'
  <1> USE ListFacts, ContentFacts, BuildFacts DEF V2flyInv, Boot, env
  <1>1. TypeOK'
    BY DEF TypeOK, Build, Pc
  <1>2. Booting'
    BY DEF TypeOK, Booting, NoCopy
  <1>3. Refreshing'
    BY DEF TypeOK, Refreshing, Booting
  <1>4. Downloaded'
    BY DEF TypeOK, Downloaded, NoCopy, Booting
  <1>5. StillThere'
    BY DEF TypeOK, StillThere, At, NoCopy
  <1>6. MissingIsPending'
    <2>1. \A i \in DOMAIN Lists : NoCopy(Lists[i]) => Lists[i] \in pending
      BY DEF Booting
    <2> QED
      BY <2>1 DEF MissingIsPending, NoCopy, List
  <1>7. TornIsHidden'
    <2>1. retry.pc = "off"
      BY DEF Booting
    <2> QED
      BY <2>1 DEF TypeOK, TornIsHidden
  <1> QED
    BY <1>1, <1>2, <1>3, <1>4, <1>5, <1>6, <1>7

\* Receive and Install: main hands the rules on.
LEMMA ReceiveInv ==
    ASSUME V2flyInv, Receive
    PROVE  V2flyInv'
  <1> USE ListFacts, ContentFacts, BuildFacts DEF V2flyInv, Receive, env
  <1>1. TypeOK'
    <2>1. Head(chan) \in Rules /\ Tail(chan) = <<>>
      <3>1. PICK r \in Rules : chan = <<r>>
        BY DEF TypeOK
      <3> QED
        BY <3>1
    <2> QED
      BY <2>1 DEF TypeOK
  <1>2. Booting'
    BY DEF TypeOK, Booting, NoCopy
  <1>3. Refreshing'
    BY DEF TypeOK, Refreshing, Booting
  <1>4. Downloaded'
    BY DEF TypeOK, Downloaded, NoCopy, Booting
  <1>5. StillThere'
    BY DEF TypeOK, StillThere, At, NoCopy
  <1>6. MissingIsPending'
    BY DEF TypeOK, MissingIsPending
  <1>7. TornIsHidden'
    BY DEF TypeOK, TornIsHidden
  <1> QED
    BY <1>1, <1>2, <1>3, <1>4, <1>5, <1>6, <1>7

\* The rules of the running server are no part of the marks.
LEMMA InstallInv ==
    ASSUME V2flyInv, Install
    PROVE  V2flyInv'
  <1> USE ListFacts, ContentFacts, BuildFacts DEF V2flyInv, Install, env
  <1>1. TypeOK'
    BY DEF TypeOK, Build, Pc
  <1>2. Booting'
    BY DEF TypeOK, Booting, NoCopy
  <1>3. Refreshing'
    BY DEF TypeOK, Refreshing, Booting
  <1>4. Downloaded'
    BY DEF TypeOK, Downloaded, NoCopy, Booting
  <1>5. StillThere'
    BY DEF TypeOK, StillThere, At, NoCopy
  <1>6. MissingIsPending'
    BY DEF TypeOK, MissingIsPending
  <1>7. TornIsHidden'
    BY DEF TypeOK, TornIsHidden
  <1> QED
    BY <1>1, <1>2, <1>3, <1>4, <1>5, <1>6, <1>7

\* Reload: nobody reloads before there is a server.
LEMMA ReloadInv ==
    ASSUME V2flyInv, NEW b \in Reloader, Reload(b)
    PROVE  V2flyInv'
  <1> USE ListFacts, ContentFacts, BuildFacts, V2flyAssumption DEF V2flyInv, Reload, server,
              Builder
  <1>1. TypeOK'
    <2>1. builds' \in 0..MaxBuilds
      BY DEF TypeOK
    <2>2. build' \in [Builder -> Build]
      BY DEF TypeOK, Build, Pc
    <2> QED
      BY <2>1, <2>2 DEF TypeOK, Build, Pc
  <1>2. Booting'
    BY DEF TypeOK, Booting, NoCopy
  <1>3. Refreshing'
    BY DEF TypeOK, Refreshing, Booting
  <1>4. Downloaded'
    BY DEF TypeOK, Downloaded, NoCopy, Booting
  <1>5. StillThere'
    BY DEF TypeOK, StillThere, At, NoCopy
  <1>6. MissingIsPending'
    BY DEF TypeOK, MissingIsPending
  <1>7. TornIsHidden'
    BY DEF TypeOK, TornIsHidden
  <1> QED
    BY <1>1, <1>2, <1>3, <1>4, <1>5, <1>6, <1>7

\* A build that is thrown away or swapped in leaves the marks alone.
LEMMA DiscardInv ==
    ASSUME V2flyInv, NEW b \in Reloader, Discard(b) \/ Swap(b)
    PROVE  V2flyInv'
  <1> USE ListFacts, ContentFacts, BuildFacts, V2flyAssumption DEF V2flyInv, Discard, Swap,
              server, env, Builder
  <1>1. TypeOK'
    <2>1. build' \in [Builder -> Build]
      BY ZenonT(30) DEF TypeOK, Build, Pc
    <2>2. running' \in Rules
      BY DEF TypeOK
    <2> QED
      BY <2>1, <2>2 DEF TypeOK, Build, Pc
  <1>2. Booting'
    BY DEF TypeOK, Booting, NoCopy
  <1>3. Refreshing'
    BY DEF TypeOK, Refreshing, Booting
  <1>4. Downloaded'
    BY DEF TypeOK, Downloaded, NoCopy, Booting
  <1>5. StillThere'
    BY DEF TypeOK, StillThere, At, NoCopy
  <1>6. MissingIsPending'
    BY DEF TypeOK, MissingIsPending
  <1>7. TornIsHidden'
    BY DEF TypeOK, TornIsHidden
  <1> QED
    BY <1>1, <1>2, <1>3, <1>4, <1>5, <1>6, <1>7

\* Send: the retry goroutine goes back to its ticker.
LEMMA SendInv ==
    ASSUME V2flyInv, NEW b \in Reloader \cup {"retry"}, Send(b)
    PROVE  V2flyInv'
  <1> USE ListFacts, ContentFacts, BuildFacts, V2flyAssumption DEF V2flyInv, Send, env,
              Builder
  <1>1. TypeOK'
    BY DEF TypeOK, Build, Pc
  <1>2. Booting'
    BY DEF TypeOK, Booting
  <1>3. Refreshing'
    BY DEF TypeOK, Refreshing, Booting
  <1>4. Downloaded'
    BY DEF TypeOK, Downloaded, NoCopy, Booting
  <1>5. StillThere'
    BY DEF TypeOK, StillThere, At, NoCopy
  <1>6. MissingIsPending'
    BY DEF TypeOK, MissingIsPending
  <1>7. TornIsHidden'
    BY DEF TypeOK, TornIsHidden, Refreshing
  <1> QED
    BY <1>1, <1>2, <1>3, <1>4, <1>5, <1>6, <1>7

\* RefreshFails: so it does when the configuration cannot be parsed.
LEMMA RefreshFailsInv ==
    ASSUME V2flyInv, RefreshFails
    PROVE  V2flyInv'
  <1> USE ListFacts, ContentFacts, BuildFacts DEF V2flyInv, RefreshFails, Fault, server
  <1>1. TypeOK'
    <2>1. faults' \in 0..MaxFaults
      BY V2flyAssumption DEF TypeOK
    <2>2. build' \in [Builder -> Build]
      BY DEF TypeOK, Build, Pc
    <2> QED
      BY <2>1, <2>2 DEF TypeOK, Build, Pc
  <1>2. Booting'
    BY DEF TypeOK, Booting, NoCopy
  <1>3. Refreshing'
    BY DEF TypeOK, Refreshing, Booting
  <1>4. Downloaded'
    BY DEF TypeOK, Downloaded, NoCopy, Booting, Refreshing
  <1>5. StillThere'
    BY DEF TypeOK, StillThere, At, NoCopy
  <1>6. MissingIsPending'
    BY DEF TypeOK, MissingIsPending
  <1>7. TornIsHidden'
    BY DEF TypeOK, TornIsHidden, Refreshing
  <1> QED
    BY <1>1, <1>2, <1>3, <1>4, <1>5, <1>6, <1>7

-----------------------------------------------------------------------------
(* The retry goroutine.                                                    *)

\* Attempt: an attempt begins.
LEMMA AttemptInv ==
    ASSUME V2flyInv, Attempt
    PROVE  V2flyInv'
  <1> USE ListFacts, ContentFacts, BuildFacts DEF V2flyInv, Attempt, server, env
  <1>1. TypeOK'
    BY DEF TypeOK, Build, Pc
  <1>2. Booting'
    BY DEF TypeOK, Booting, NoCopy
  <1>3. Refreshing'
    BY DEF TypeOK, Refreshing, Booting
  <1>4. Downloaded'
    BY DEF TypeOK, Downloaded, NoCopy, Booting
  <1>5. StillThere'
    BY DEF TypeOK, StillThere, At, NoCopy
  <1>6. MissingIsPending'
    BY DEF TypeOK, MissingIsPending
  <1>7. TornIsHidden'
    BY DEF TypeOK, TornIsHidden
  <1> QED
    BY <1>1, <1>2, <1>3, <1>4, <1>5, <1>6, <1>7

\* A list that is not downloaded keeps its mark.
LEMMA DownloadInv ==
    ASSUME V2flyInv, NEW l \in List, DownloadFails(l) \/ Download(l)
    PROVE  V2flyInv'
  <1> USE ListFacts, ContentFacts, BuildFacts DEF V2flyInv, DownloadFails, Download,
              LeftPending, server, env
  <1>1. TypeOK'
    <2>1. CASE DownloadFails(l)
      BY <2>1 DEF DownloadFails, LeftPending, TypeOK
    <2>2. CASE Download(l)
      <3>1. github[l] \in Version /\ retry.todo \ {l} \in SUBSET List
        BY DEF TypeOK
      <3> QED
        BY <2>2, <3>1 DEF Download, TypeOK
    <2> QED
      BY <2>1, <2>2
  <1>2. Booting'
    BY DEF TypeOK, Booting, NoCopy
  <1>3. Refreshing'
    BY DEF TypeOK, Refreshing, Booting
  <1>4. Downloaded'
    BY ZenonT(30) DEF TypeOK, Downloaded, NoCopy, Booting
  <1>5. StillThere'
    BY DEF TypeOK, StillThere, At, NoCopy
  <1>6. MissingIsPending'
    BY DEF TypeOK, MissingIsPending
  <1>7. TornIsHidden'
    BY DEF TypeOK, TornIsHidden
  <1> QED
    BY <1>1, <1>2, <1>3, <1>4, <1>5, <1>6, <1>7

\* A write that fails goes on with the copy in memory.
LEMMA WriteFailsInv ==
    ASSUME V2flyInv, OpenFails \/ WriteFails
    PROVE  V2flyInv'
  <1> USE ListFacts, ContentFacts, BuildFacts DEF V2flyInv, OpenFails, WriteFails, server, env
  <1>1. TypeOK'
    BY ZenonT(30) DEF TypeOK, Build, Pc
  <1>2. Booting'
    BY DEF TypeOK, Booting, NoCopy
  <1>3. Refreshing'
    BY DEF TypeOK, Refreshing, Booting
  <1>4. Downloaded'
    BY DEF TypeOK, Downloaded, NoCopy, Booting
  <1>5. StillThere'
    BY DEF TypeOK, StillThere, At, NoCopy
  <1>6. MissingIsPending'
    BY DEF TypeOK, MissingIsPending
  <1>7. TornIsHidden'
    BY DEF TypeOK, TornIsHidden
  <1> QED
    BY <1>1, <1>2, <1>3, <1>4, <1>5, <1>6, <1>7

\* Truncate: half a file is a file.
LEMMA TruncateInv ==
    ASSUME V2flyInv, Truncate
    PROVE  V2flyInv'
  <1> USE ListFacts, ContentFacts, BuildFacts DEF V2flyInv, Truncate, server, env
  <1>1. TypeOK'
    BY DEF TypeOK, Build, Pc
  <1>2. Booting'
    BY DEF TypeOK, Booting, NoCopy
  <1>3. Refreshing'
    BY DEF TypeOK, Refreshing, Booting
  <1>4. Downloaded'
    BY DEF TypeOK, Downloaded, NoCopy, Booting
  <1>5. StillThere'
    BY DEF TypeOK, StillThere, At, NoCopy
  <1>6. MissingIsPending'
    BY DEF TypeOK, MissingIsPending
  <1>7. TornIsHidden'
    BY DEF TypeOK, TornIsHidden
  <1> QED
    BY <1>1, <1>2, <1>3, <1>4, <1>5, <1>6, <1>7

\* WriteLines: the file has the lines.
LEMMA WriteLinesInv ==
    ASSUME V2flyInv, WriteLines
    PROVE  V2flyInv'
  <1> USE ListFacts, ContentFacts, BuildFacts DEF V2flyInv, WriteLines, server, env
  <1>1. \A l \in List : disk[l].data # Absent => disk'[l].data # Absent
    BY DEF TypeOK, Downloaded
  <1>2. \A l \in List : NoCopy(l)' => NoCopy(l)
    BY DEF TypeOK, NoCopy, Downloaded
  <1>3. TypeOK'
    BY <1>1, <1>2 DEF TypeOK, Build, Pc
  <1>4. Booting'
    BY <1>1, <1>2 DEF TypeOK, Booting, NoCopy
  <1>5. Refreshing'
    BY <1>1, <1>2 DEF TypeOK, Refreshing, Booting
  <1>6. Downloaded'
    BY <1>1, <1>2 DEF TypeOK, Downloaded, NoCopy, Booting
  <1>7. StillThere'
    BY <1>1, <1>2, CopiesStay DEF TypeOK
  <1>8. MissingIsPending'
    BY <1>1, <1>2, CopiesStay DEF TypeOK
  <1>9. TornIsHidden'
    BY <1>1, <1>2 DEF TypeOK, TornIsHidden
  <1> QED
    BY <1>3, <1>4, <1>5, <1>6, <1>7, <1>8, <1>9

\* StoreMem: the copy in memory hides the half file.
LEMMA StoreMemInv ==
    ASSUME V2flyInv, StoreMem
    PROVE  V2flyInv'
  <1> USE ListFacts, ContentFacts, BuildFacts DEF V2flyInv, StoreMem, Stashed, server, env
  <1>1. \A l \in List : disk[l].data # Absent => disk'[l].data # Absent
    BY DEF TypeOK, Downloaded
  <1>2. \A l \in List : NoCopy(l)' => NoCopy(l)
    BY DEF TypeOK, NoCopy, Downloaded
  <1>3. TypeOK'
    BY <1>1, <1>2 DEF TypeOK, Build, Pc
  <1>4. Booting'
    BY <1>1, <1>2 DEF TypeOK, Booting, NoCopy
  <1>5. Refreshing'
    BY <1>1, <1>2 DEF TypeOK, Refreshing, Booting
  <1>6. Downloaded'
    BY <1>1, <1>2 DEF TypeOK, Downloaded, NoCopy, Booting
  <1>7. StillThere'
    BY <1>1, <1>2, CopiesStay DEF TypeOK
  <1>8. MissingIsPending'
    BY <1>1, <1>2, CopiesStay DEF TypeOK
  <1>9. TornIsHidden'
    BY DEF TypeOK, TornIsHidden, Downloaded
  <1> QED
    BY <1>3, <1>4, <1>5, <1>6, <1>7, <1>8, <1>9

\* ClearMem: the copy in memory goes when the file is written.
LEMMA ClearMemInv ==
    ASSUME V2flyInv, ClearMem
    PROVE  V2flyInv'
  <1> USE ListFacts, ContentFacts, BuildFacts DEF V2flyInv, ClearMem, Unstashed, server, env
  <1>1. \A l \in List : disk[l].data # Absent => disk'[l].data # Absent
    BY DEF TypeOK, Downloaded
  <1>2. \A l \in List : NoCopy(l)' => NoCopy(l)
    BY DEF TypeOK, NoCopy, Downloaded
  <1>3. TypeOK'
    BY <1>1, <1>2 DEF TypeOK, Build, Pc
  <1>4. Booting'
    BY <1>1, <1>2 DEF TypeOK, Booting, NoCopy
  <1>5. Refreshing'
    BY <1>1, <1>2 DEF TypeOK, Refreshing, Booting
  <1>6. Downloaded'
    BY <1>1, <1>2 DEF TypeOK, Downloaded, NoCopy, Booting
  <1>7. StillThere'
    BY <1>1, <1>2, CopiesStay DEF TypeOK
  <1>8. MissingIsPending'
    BY <1>1, <1>2, CopiesStay DEF TypeOK
  <1>9. TornIsHidden'
    BY DEF TypeOK, TornIsHidden, Downloaded
  <1> QED
    BY <1>3, <1>4, <1>5, <1>6, <1>7, <1>8, <1>9

\* ClearPending: the list that loses its mark has a copy.
LEMMA ClearPendingInv ==
    ASSUME V2flyInv, ClearPending
    PROVE  V2flyInv'
  <1> USE ListFacts, ContentFacts, BuildFacts DEF V2flyInv, ClearPending, server, env
  <1>1. TypeOK'
    BY DEF TypeOK, Build, Pc
  <1>2. Booting'
    BY DEF TypeOK, Booting, NoCopy
  <1>3. Refreshing'
    BY DEF TypeOK, Refreshing, Booting
  <1>4. Downloaded'
    BY DEF TypeOK, Downloaded, NoCopy, Booting
  <1>5. StillThere'
    BY DEF TypeOK, StillThere, At, NoCopy
  <1>6. MissingIsPending'
    BY DEF TypeOK, MissingIsPending, Downloaded, NoCopy
  <1>7. TornIsHidden'
    BY DEF TypeOK, TornIsHidden
  <1> QED
    BY <1>1, <1>2, <1>3, <1>4, <1>5, <1>6, <1>7

\* EndAttempt: the callback builds.
LEMMA EndAttemptInv ==
    ASSUME V2flyInv, EndAttempt
    PROVE  V2flyInv'
  <1> USE ListFacts, ContentFacts, BuildFacts DEF V2flyInv, EndAttempt, server, env
  <1>1. TypeOK'
    <2>1. build' \in [Builder -> Build]
      BY DEF TypeOK, Build, Pc
    <2>2. retry' \in [pc : {"off", "wait", "next", "open", "write", "stash", "unstash", "clear",
                            "refresh"},
                      todo : SUBSET List, list : List, lines : {Absent} \cup Version,
                      refreshed : BOOLEAN]
      <3>1. retry \in [pc : {"off", "wait", "next", "open", "write", "stash", "unstash",
                            "clear", "refresh"},
                       todo : SUBSET List, list : List, lines : {Absent} \cup Version,
                       refreshed : BOOLEAN]
        BY DEF TypeOK
      <3> HIDE DEF V2flyInv
      <3>2. CASE retry.refreshed
        BY <3>1, <3>2
      <3>3. CASE ~retry.refreshed
        BY <3>1, <3>3
      <3> QED
        BY <3>2, <3>3
    <2> QED
      BY <2>1, <2>2 DEF TypeOK, Build, Pc
  <1>2. Booting'
    BY DEF TypeOK, Booting, NoCopy
  <1>3. Refreshing'
    BY DEF TypeOK, Refreshing, Booting
  <1>4. Downloaded'
    BY ZenonT(30) DEF TypeOK, Downloaded, NoCopy, Booting
  <1>5. StillThere'
    <2>1. build'["retry"] \in {Begun, build["retry"]}
      BY DEF TypeOK
    <2>2. \A c \in Builder : c # "retry" => build'[c] = build[c]
      BY DEF TypeOK
    <2>3. ASSUME NEW c \in Builder
          PROVE  /\ build'[c].pc = "read" => disk[Lists[build'[c].at]].data # Absent
                 /\ build'[c].pc = "clear" => ~NoCopy(Lists[build'[c].at])
      BY <2>1, <2>2 DEF StillThere, At
    <2> QED
      BY <2>3 DEF StillThere, At, NoCopy
  <1>6. MissingIsPending'
    BY DEF TypeOK, MissingIsPending
  <1>7. TornIsHidden'
    BY DEF TypeOK, TornIsHidden
  <1> QED
    BY <1>1, <1>2, <1>3, <1>4, <1>5, <1>6, <1>7

-----------------------------------------------------------------------------
(* GitHub, the clock and the crash.                                        *)

\* Publish: what is at GitHub is not on disk.
LEMMA PublishInv ==
    ASSUME V2flyInv, NEW l \in List, Publish(l)
    PROVE  V2flyInv'
  <1> USE ListFacts, ContentFacts, BuildFacts DEF V2flyInv, Publish, server
  <1>1. TypeOK'
    <2>1. github[l] + 1 \in Version
      BY V2flyAssumption DEF TypeOK, Version
    <2>2. github' \in [List -> Version]
      BY <2>1 DEF TypeOK
    <2> QED
      BY <2>2 DEF TypeOK
  <1>2. Booting'
    BY DEF TypeOK, Booting, NoCopy
  <1>3. Refreshing'
    BY DEF TypeOK, Refreshing, Booting
  <1>4. Downloaded'
    BY DEF TypeOK, Downloaded, NoCopy, Booting
  <1>5. StillThere'
    BY DEF TypeOK, StillThere, At, NoCopy
  <1>6. MissingIsPending'
    BY DEF TypeOK, MissingIsPending
  <1>7. TornIsHidden'
    BY DEF TypeOK, TornIsHidden
  <1> QED
    BY <1>1, <1>2, <1>3, <1>4, <1>5, <1>6, <1>7

\* Expire: an old file is a file.
LEMMA ExpireInv ==
    ASSUME V2flyInv, NEW l \in List, Expire(l)
    PROVE  V2flyInv'
  <1> USE ListFacts, ContentFacts, BuildFacts DEF V2flyInv, Expire, server
  <1>1. TypeOK'
    <2>1. expiries' \in 0..MaxExpiries
      BY V2flyAssumption DEF TypeOK
    <2>2. disk' \in [List -> [data : {Absent, Torn} \cup Version, fresh : BOOLEAN]]
      <3> DEFINE CacheFile == [data : {Absent, Torn} \cup Version, fresh : BOOLEAN]
      <3>1. disk \in [List -> CacheFile]
        BY DEF TypeOK
      <3>2. [disk[l] EXCEPT !.fresh = FALSE] \in CacheFile
        BY <3>1
      <3>3. disk' = [disk EXCEPT ![l] = [disk[l] EXCEPT !.fresh = FALSE]]
        BY <3>1
      <3> QED
        BY <3>1, <3>2, <3>3
    <2> QED
      BY <2>1, <2>2 DEF TypeOK
  <1>2. Booting'
    BY DEF TypeOK, Booting, NoCopy
  <1>3. Refreshing'
    BY DEF TypeOK, Refreshing, Booting
  <1>4. Downloaded'
    BY DEF TypeOK, Downloaded, NoCopy, Booting
  <1>5. StillThere'
    BY DEF TypeOK, StillThere, At, NoCopy
  <1>6. MissingIsPending'
    BY DEF TypeOK, MissingIsPending
  <1>7. TornIsHidden'
    BY DEF TypeOK, TornIsHidden
  <1> QED
    BY <1>1, <1>2, <1>3, <1>4, <1>5, <1>6, <1>7

\* Crash: only the files are left.
LEMMA CrashInv ==
    ASSUME V2flyInv, Crash
    PROVE  V2flyInv'
  <1> USE ListFacts, ContentFacts, BuildFacts DEF V2flyInv, Crash, Started, RetryOff
  <1>1. TypeOK'
    <2>1. crashes' \in 0..MaxCrashes
      BY V2flyAssumption DEF TypeOK
    <2>2. mem' \in [List -> {Absent} \cup Version]
      BY DEF Nothing
    <2>3. build' \in [Builder -> Build]
      OBVIOUS
    <2>4. retry' \in [pc : {"off", "wait", "next", "open", "write", "stash", "unstash", "clear",
                            "refresh"},
                      todo : SUBSET List, list : List, lines : {Absent} \cup Version,
                      refreshed : BOOLEAN]
      OBVIOUS
    <2>5. /\ main' \in [pc : {"boot", "recv", "create"}, rules : Rules]
          /\ running' \in Rules /\ pending' \subseteq List /\ chan' = <<>>
      OBVIOUS
    <2> QED
      BY <2>1, <2>2, <2>3, <2>4, <2>5 DEF TypeOK, Build, Pc
  <1>2. Booting'
    BY DEF TypeOK, Booting, NoCopy
  <1>3. Refreshing'
    BY DEF TypeOK, Refreshing, Booting
  <1>4. Downloaded'
    BY DEF TypeOK, Downloaded, NoCopy, Booting
  <1>5. StillThere'
    BY DEF TypeOK, StillThere, At, NoCopy
  <1>6. MissingIsPending'
    BY DEF TypeOK, MissingIsPending
  <1>7. TornIsHidden'
    BY DEF TypeOK, TornIsHidden
  <1> QED
    BY <1>1, <1>2, <1>3, <1>4, <1>5, <1>6, <1>7

-----------------------------------------------------------------------------
(* The results.                                                            *)

\* A process that starts has no marks, and needs none.
THEOREM V2flyInitInv == Init => V2flyInv
  <1> SUFFICES ASSUME Init PROVE V2flyInv
    OBVIOUS
  <1> USE ListFacts, ContentFacts, BuildFacts
  <1>1. TypeOK
    <2>0. disk \in [List -> [data : {Absent, Torn} \cup Version, fresh : BOOLEAN]]
      <3>1. disk \in [List -> {[data |-> Absent, fresh |-> FALSE]}
                                 \cup [data : {1}, fresh : BOOLEAN]]
        BY DEF Init
      <3>2. ASSUME NEW l \in List
            PROVE  disk[l] \in [data : {Absent, Torn} \cup Version, fresh : BOOLEAN]
        <4>1. CASE disk[l] = [data |-> Absent, fresh |-> FALSE]
          BY <4>1
        <4>2. CASE disk[l] \in [data : {1}, fresh : BOOLEAN]
          BY <4>2
        <4> QED
          BY <3>1, <4>1, <4>2
      <3>3. disk = [l \in List |-> disk[l]]
        BY <3>1
      <3> QED
        BY <3>2, <3>3
    <2>1. /\ mem \in [List -> {Absent} \cup Version]
          /\ github \in [List -> Version]
      BY DEF Init, Nothing
    <2>2. build \in [Builder -> Build]
      BY DEF Init
    <2>3. retry \in [pc : {"off", "wait", "next", "open", "write", "stash", "unstash", "clear",
                           "refresh"},
                     todo : SUBSET List, list : List, lines : {Absent} \cup Version,
                     refreshed : BOOLEAN]
      BY DEF Init, RetryOff
    <2>4. /\ main \in [pc : {"boot", "recv", "create"}, rules : Rules]
          /\ running \in Rules /\ pending \subseteq List /\ chan = <<>>
      BY DEF Init
    <2>5. builds \in 0..MaxBuilds /\ expiries \in 0..MaxExpiries /\ crashes \in 0..MaxCrashes
          /\ faults \in 0..MaxFaults
      BY V2flyAssumption DEF Init
    <2> QED
      BY <2>0, <2>1, <2>2, <2>3, <2>4, <2>5 DEF TypeOK, Build, Pc
  <1>2. Booting
    BY DEF Init, Booting, RetryOff
  <1>3. Refreshing /\ Downloaded /\ StillThere
    BY V2flyAssumption DEF Init, Refreshing, Downloaded, StillThere, RetryOff, Builder
  <1>4. MissingIsPending /\ TornIsHidden
    BY DEF Init, MissingIsPending, TornIsHidden
  <1> QED
    BY <1>1, <1>2, <1>3, <1>4 DEF V2flyInv

\* Every step preserves the invariant.
THEOREM V2flyNextInv == V2flyInv /\ [Next]_vars => V2flyInv'
  <1> SUFFICES ASSUME V2flyInv, [Next]_vars PROVE V2flyInv'
    OBVIOUS
  <1>1. ASSUME NEW b \in Builder, Fetch(b) PROVE V2flyInv'
    BY <1>1, LoadMemInv, StatInv, ReadFileInv, ReadFileFailsInv, MarkPendingInv,
       ClearFreshInv DEF Fetch
  <1>2. ASSUME NEW b \in Reloader, Reload(b) \/ ReloadStep(b) PROVE V2flyInv'
    BY <1>2, ReloadInv, DiscardInv, SendInv DEF ReloadStep
  <1>3. CASE MainStep
    BY <1>3, BootInv, ReceiveInv, InstallInv DEF MainStep
  <1>4. CASE Attempt \/ RetryStep \/ Send("retry") \/ RefreshFails
    BY <1>4, AttemptInv, DownloadInv, WriteFailsInv, TruncateInv, WriteLinesInv,
       StoreMemInv, ClearMemInv, ClearPendingInv, EndAttemptInv, SendInv, RefreshFailsInv DEF RetryStep,
           WriteStep
  <1>5. ASSUME NEW l \in List, Publish(l) \/ Expire(l) PROVE V2flyInv'
    BY <1>5, PublishInv, ExpireInv
  <1>6. CASE UNCHANGED vars
    BY <1>6 DEF vars, V2flyInv, TypeOK, Booting, Refreshing, Downloaded, StillThere,
           MissingIsPending, TornIsHidden, NoCopy, At
  <1> QED
    BY <1>1, <1>2, <1>3, <1>4, <1>5, <1>6, CrashInv DEF Next

\* The invariant holds in every reachable state.
THEOREM V2flyInvariance == Spec => []V2flyInv
  BY V2flyInitInv, V2flyNextInv, PTL DEF Spec

\* No list is forgotten: a list without a copy, on disk or in memory, is
\* waiting to be downloaded, whatever builds are under way.
THEOREM NoListForgotten == Spec => []MissingIsPending
  <1>1. V2flyInv => MissingIsPending
    BY DEF V2flyInv
  <1> QED
    BY <1>1, V2flyInvariance, PTL

\* A file that is half written is hidden by the copy in memory, unless the
\* process has died meanwhile.
THEOREM HalfFilesHidden == Spec => []TornIsHidden
  <1>1. V2flyInv => TornIsHidden
    BY DEF V2flyInv
  <1> QED
    BY <1>1, V2flyInvariance, PTL
=============================================================================
