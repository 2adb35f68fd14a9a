------------------------- MODULE ResolverChainProofs --------------------------
(***************************************************************************)
(* A chain of any length, with any number of queries, names and changes:   *)
(* no client gets an address before it is in the nft set, a resolver that  *)
(* breaks the walk is the last word on the names it accepts, nobody is     *)
(* inside an upstream that is closed, and a chain that is closed leaves    *)
(* nothing running.                                                        *)
(*                                                                         *)
(* The invariant has two halves: what runs for the chain and what is left  *)
(* to be closed, and what the walks, dnsCache and the replies hold.        *)
(***************************************************************************)
EXTENDS ResolverChain, TLAPS

Life == [phase : {"building", "serving", "closing", "closed"},
         at : 1..Len(chain) + 1, built : 0..Len(chain)]
WalkPc == {"idle", "accept", "resolve", "asking", "storing", "route", "keep", "send"}
Walk == [pc : WalkPc, name : Name, at : 1..Len(chain) + 1, addr : Nat]
Told == [kind : {"none", "answer", "empty", "fail", "refused"},
         name : Name, addr : Nat, at : 0..Len(chain) + 1]
Kept == [kind : {"answer"}, name : Name, addr : Nat \ {NoAddress}, at : DOMAIN chain]

ChainTypeOK == chain \in Chains /\ life \in Life
WalkTypeOK == /\ walk \in [Query -> Walk]
              /\ reply \in [Query -> Told]
              /\ dnsCache \in [Name -> {Silent} \cup Kept]
              /\ nft \subseteq Nat /\ lost \subseteq Nat

-----------------------------------------------------------------------------
(* What runs.                                                              *)

\* The resolvers before the one at hand are built; a chain that serves has all.
LifeShape == /\ life.phase = "building" => life.built = life.at - 1
             /\ life.phase = "serving" => life.at = 1 /\ life.built = Len(chain)
             /\ life.phase = "closed" => life.at > life.built

\* The forward of a preloader is open while its goroutine runs, from the time
\* the preloader is built until the chain is closed.
InnerIsOpen ==
    /\ preLoop.pc \notin {"off", "ended"} => innerOpen
    /\ life.phase = "building" =>
         \A i \in 1..life.at - 1 : chain[i].kind = "preloader" => innerOpen
    /\ life.phase = "serving" =>
         \A i \in DOMAIN chain : chain[i].kind = "preloader" => innerOpen

\* Only an answer with records is stored.
LoopHasAddress == preLoop.pc = "storing" => preLoop.addr \in Zone

\* Whatever runs belongs to a resolver that is still to be closed.
First == IF life.phase = "building" THEN 1 ELSE life.at
Left(kind) == \E i \in First..life.built : chain[i].kind = kind
LeftToClose ==
    /\ fileLoop.pc \notin {"off", "ended"} => Left("file")
    /\ preLoop.pc \notin {"off", "ended"} \/ innerOpen => Left("preloader")

LoopHalf == /\ ChainTypeOK /\ FileTypeOK /\ PreTypeOK
            /\ LifeShape /\ InnerIsOpen /\ LoopHasAddress /\ LeftToClose

-----------------------------------------------------------------------------
(* What the walks hold.                                                    *)

\* A query is inside while the chain serves, at a resolver once it is accepted.
WalkInside == \A q \in Query :
    /\ walk[q].pc # "idle" => life.phase = "serving"
    /\ walk[q].pc \notin {"idle", "accept"} => walk[q].at \in DOMAIN chain
    /\ walk[q].pc = "storing" => walk[q].addr \in Zone

\* What is kept or sent has been routed, and what is kept stays routed.
RoutedAt(at, addr) == chain[at].nft /\ addr # NoAddress => addr \in nft \cup lost
Routed ==
    /\ \A q \in Query :
         walk[q].pc \in {"keep", "send"} => RoutedAt(walk[q].at, walk[q].addr)
    /\ \A n \in Name :
         dnsCache[n] # Silent => RoutedAt(dnsCache[n].at, dnsCache[n].addr)

\* No walk has passed a resolver that breaks it.
PassedTo(at, name) == \A i \in 1..at - 1 : ~(chain[i].breaks /\ name \in chain[i].rule)
Passed ==
    /\ \A q \in Query : walk[q].pc # "idle" => PassedTo(walk[q].at, walk[q].name)
    /\ \A n \in Name : dnsCache[n] # Silent => PassedTo(dnsCache[n].at, dnsCache[n].name)

WalkHalf == /\ WalkTypeOK /\ WalkInside /\ Routed /\ Passed
            /\ AnswerIsRouted /\ BreakIsFinal

IndInv == LoopHalf /\ WalkHalf

-----------------------------------------------------------------------------
(* Facts about the constants and the helpers.                              *)

\* A chain is a sequence of resolvers.
LEMMA ChainFacts ==
    ASSUME ChainTypeOK
    PROVE  /\ Len(chain) \in Nat /\ DOMAIN chain = 1..Len(chain)
           /\ \A i \in DOMAIN chain :
                /\ chain[i] \in Resolver
                /\ chain[i].caches => chain[i].kind = "forward"
                /\ chain[i].kind = "file" => chain[i].rule = {}
  <1>1. chain \in Seq(Resolver)
    BY ChainAssumption DEF ChainTypeOK
  <1>2. \A i \in DOMAIN chain : chain[i].caches => chain[i].kind = "forward"
    BY ChainAssumption DEF ChainTypeOK
  <1>3. \A i \in DOMAIN chain : chain[i].kind = "file" => chain[i].rule = {}
    BY ChainAssumption DEF ChainTypeOK
  <1> QED
    BY <1>1, <1>2, <1>3

\* An answer is routed, then kept, then sent.
LEMMA StageFacts == Stages[1] = "route" /\ After("route") = "keep" /\ After("keep") = "send"
  <1>1. DOMAIN Stages = {1, 2, 3} /\ Stages[1] = "route" /\ Stages[2] = "keep"
        /\ Stages[3] = "send"
    BY DEF Stages
  <1>2. (CHOOSE i \in DOMAIN Stages : Stages[i] = "route") = 1
    <2>1. \A i \in DOMAIN Stages : Stages[i] = "route" <=> i = 1
      BY <1>1
    <2> QED
      BY <1>1, <2>1
  <1>3. (CHOOSE i \in DOMAIN Stages : Stages[i] = "keep") = 2
    <2>1. \A i \in DOMAIN Stages : Stages[i] = "keep" <=> i = 2
      BY <1>1
    <2> QED
      BY <1>1, <2>1
  <1> QED
    BY <1>1, <1>2, <1>3 DEF After

\* The names and addresses that stand for nothing.
LEMMA SilentFacts == /\ Nobody \in Name /\ NoAddress \in Nat /\ Silent.kind = "none"
                     /\ Outside.pc = "idle" /\ Outside.at = 1 /\ Outside.addr = NoAddress
  BY NameAssumption DEF Nobody, NoAddress, Silent, Outside

\* What stands for nothing has the types of what stands for something.
LEMMA SilentTypes == ASSUME ChainTypeOK PROVE Silent \in Told /\ Outside \in Walk
  BY ChainFacts, SilentFacts DEF Silent, Told, Outside, Walk, WalkPc

\* The invariant has the type invariant of the model.
LEMMA InvIsType == IndInv => TypeOK
  BY DEF IndInv, LoopHalf, WalkHalf, TypeOK, ChainTypeOK, WalkTypeOK, Life, Walk, Told,
         Kept,
         WalkPc

-----------------------------------------------------------------------------
(* Steps that leave one of the halves alone.                               *)

\* Nobody walks while the chain changes its phase.
LEMMA WalksStay ==
    ASSUME IndInv, UNCHANGED <<chain, walk, reply, serverVars>>,
           life'.phase = life.phase \/ Idle
    PROVE  WalkHalf'
  <1> USE DEF IndInv, WalkHalf, serverVars
  <1>1. WalkTypeOK'
    BY DEF WalkTypeOK, Walk, Told, Kept
  <1>2. WalkInside'
    BY DEF WalkInside, Idle
  <1>3. Routed' /\ Passed'
    BY DEF Routed, RoutedAt, Passed, PassedTo
  <1>4. AnswerIsRouted' /\ BreakIsFinal'
    BY DEF AnswerIsRouted, BreakIsFinal
  <1> QED
    BY <1>1, <1>2, <1>3, <1>4

\* A goroutine that does not start, and an upstream that is not closed.
LEMMA LoopsStay ==
    ASSUME IndInv, UNCHANGED <<chain, life, innerOpen>>, FileTypeOK', PreTypeOK', LoopHasAddress',
           fileLoop.pc \in {"off", "ended"} => fileLoop'.pc \in {"off", "ended"},
           preLoop.pc \in {"off", "ended"} => preLoop'.pc \in {"off", "ended"}
    PROVE  LoopHalf'
  <1> USE DEF IndInv, LoopHalf
  <1>1. ChainTypeOK' /\ LifeShape'
    BY DEF ChainTypeOK, Life, LifeShape
  <1>2. InnerIsOpen'
    BY DEF InnerIsOpen
  <1>3. LeftToClose'
    BY DEF LeftToClose, Left, First
  <1> QED
    BY <1>1, <1>2, <1>3

\* A step of a walk: where it goes and what it keeps or tells is in order.
LEMMA WalkGoes ==
    ASSUME IndInv, NEW q \in Query, NEW w \in Walk, life.phase = "serving",
           UNCHANGED <<chain, life>>, walk' = [walk EXCEPT ![q] = w],
           nft \cup lost \subseteq nft' \cup lost', nft' \cup lost' \subseteq Nat,
           w.pc \notin {"idle", "accept"} => w.at \in DOMAIN chain,
           w.pc = "storing" => w.addr \in Zone,
           w.pc \in {"keep", "send"} /\ chain[w.at].nft /\ w.addr # NoAddress
             => w.addr \in nft' \cup lost',
           w.pc # "idle" => PassedTo(w.at, w.name),
           NEW n \in Name, NEW kept \in {Silent} \cup Kept,
           dnsCache' \in {dnsCache, [dnsCache EXCEPT ![n] = kept]},
           kept # Silent => RoutedAt(kept.at, kept.addr) /\ PassedTo(kept.at, kept.name),
           NEW told \in Told,
           reply' \in {reply, [reply EXCEPT ![q] = told]},
           told.kind = "answer" => RoutedAt(told.at, told.addr),
           told.kind # "none" => PassedTo(told.at, told.name)
    PROVE  WalkHalf'
  <1> USE DEF IndInv, WalkHalf, LoopHalf
  <1>1. /\ walk' \in [Query -> Walk] /\ walk'[q] = w
        /\ \A p \in Query : p # q => walk'[p] = walk[p]
    BY DEF WalkTypeOK
  <1>2. /\ reply' \in [Query -> Told]
        /\ \A p \in Query : reply'[p] \in {reply[p], told}
    BY DEF WalkTypeOK
  <1>3. /\ dnsCache' \in [Name -> {Silent} \cup Kept]
        /\ \A m \in Name : dnsCache'[m] \in {dnsCache[m], kept}
    BY DEF WalkTypeOK
  <1>6. WalkTypeOK'
    BY <1>1, <1>2, <1>3 DEF WalkTypeOK, Walk, Told, Kept
  <1>7. WalkInside'
    BY <1>1 DEF WalkInside
  <1>8. Routed'
    <2>1. ASSUME NEW p \in Query, walk'[p].pc \in {"keep", "send"},
                 chain[walk'[p].at].nft, walk'[p].addr # NoAddress
          PROVE  walk'[p].addr \in nft' \cup lost'
      BY <1>1, <2>1 DEF Routed, RoutedAt
    <2>2. ASSUME NEW m \in Name, dnsCache'[m] # Silent,
                 chain[dnsCache'[m].at].nft, dnsCache'[m].addr # NoAddress
          PROVE  dnsCache'[m].addr \in nft' \cup lost'
      BY <1>3, <2>2 DEF Routed, RoutedAt
    <2> QED
      BY <2>1, <2>2 DEF Routed, RoutedAt
  <1>9. Passed'
    <2>1. ASSUME NEW p \in Query, walk'[p].pc # "idle"
          PROVE  PassedTo(walk'[p].at, walk'[p].name)
      BY <1>1, <2>1 DEF Passed
    <2>2. ASSUME NEW m \in Name, dnsCache'[m] # Silent
          PROVE  PassedTo(dnsCache'[m].at, dnsCache'[m].name)
      BY <1>3, <2>2 DEF Passed
    <2> QED
      BY <2>1, <2>2 DEF Passed, PassedTo
  <1>10. AnswerIsRouted'
    <2> SUFFICES ASSUME NEW p \in Query, reply'[p].kind = "answer", reply'[p].addr # NoAddress,
                        chain[reply'[p].at].nft
                 PROVE  reply'[p].addr \in nft' \cup lost'
      BY DEF AnswerIsRouted
    <2> QED
      BY <1>2 DEF AnswerIsRouted, RoutedAt
  <1>11. BreakIsFinal'
    <2> SUFFICES ASSUME NEW p \in Query, reply'[p].kind # "none"
                 PROVE  PassedTo(reply'[p].at, reply'[p].name)
      BY DEF BreakIsFinal, PassedTo
    <2> QED
      BY <1>2 DEF BreakIsFinal, PassedTo
  <1> QED
    BY <1>6, <1>7, <1>8, <1>9, <1>10, <1>11

-----------------------------------------------------------------------------
(* Building and closing.                                                   *)

\* Nobody walks unless the chain serves.
LEMMA IdleUnlessServing == IndInv /\ life.phase # "serving" => Idle
  BY DEF IndInv, WalkHalf, WalkInside, Idle

\* Build: what starts belongs to the resolver that is built.
LEMMA BuildInv ==
    ASSUME IndInv, Build
    PROVE  IndInv'
  <1> USE ChainFacts DEF IndInv, LoopHalf, Build, chainVars, fileVars, preVars
  <1>1. life.phase = "building" /\ life.at \in DOMAIN chain /\ life.built = life.at - 1
    BY DEF ChainTypeOK, Life, LifeShape
  <1>2. /\ life' \in Life /\ life'.phase = "building"
        /\ life'.at = life.at + 1 /\ life'.built = life.at
        /\ chain' = chain /\ life.at \in Nat
    <2>1. life \in Life
      BY DEF ChainTypeOK
    <2>2. life.at \in 1..Len(chain) /\ life.built + 1 = life.at
      BY <1>1, <2>1, ChainFacts DEF Life
    <2>3. life' = [phase |-> "building", at |-> life.at + 1, built |-> life.at]
      BY <1>1, <2>1, <2>2 DEF Life
    <2>4. life.at + 1 \in 1..Len(chain) + 1 /\ life.at \in 0..Len(chain)
      BY <2>2, ChainFacts
    <2> QED
      BY <2>2, <2>3, <2>4 DEF Life
  <1>3. /\ FileTypeOK' /\ PreTypeOK'
        /\ chain[life.at].kind = "file" \/ fileLoop' = fileLoop
        /\ \/ chain[life.at].kind = "preloader" /\ innerOpen'
           \/ /\ chain[life.at].kind # "preloader"
              /\ UNCHANGED <<preLoop, innerOpen>>
    <2>1. CASE chain[life.at].kind = "file"
      <3>1. FileNew /\ UNCHANGED preVars
        BY <2>1 DEF Start
      <3>2. inMemory' \in Table
        BY <3>1 DEF FileNew, ReadFile, FileTypeOK, Table, EmptyTable
      <3>3. fileLoop' \in [pc : {"off", "select", "parsed", "ended"},
                           stop : BOOLEAN, parsed : Table]
        BY <3>1 DEF FileNew, FileLoopOff, Table, EmptyTable
      <3> QED
        BY <2>1, <3>1, <3>2, <3>3 DEF FileNew, FileTypeOK, PreTypeOK
    <2>2. CASE chain[life.at].kind = "preloader"
      <3>1. PreNew /\ UNCHANGED fileVars
        BY <2>2 DEF Start
      <3>2. PreTypeOK' /\ innerOpen'
        BY <3>1, SilentFacts DEF PreNew, PreLoopOff, PreTypeOK
      <3> QED
        BY <2>2, <3>1, <3>2 DEF FileTypeOK
    <2>3. CASE chain[life.at].kind \notin {"file", "preloader"}
      <3>1. UNCHANGED <<fileVars, preVars>>
        BY <2>3 DEF Start
      <3> QED
        BY <2>3, <3>1 DEF FileTypeOK, PreTypeOK
    <2> QED
      BY <2>1, <2>2, <2>3
  <1>4. ChainTypeOK' /\ LifeShape'
    BY <1>2 DEF ChainTypeOK, LifeShape, Life
  <1>8. LoopHasAddress'
    BY DEF Start, PreNew, PreLoopOff, LoopHasAddress
  <1>5. InnerIsOpen'
    <2>1. preLoop'.pc \notin {"off", "ended"} => innerOpen'
      BY <1>3 DEF InnerIsOpen
    <2>2. ASSUME NEW i \in 1..life'.at - 1, chain[i].kind = "preloader" PROVE innerOpen'
      <3>1. CASE i = life.at
        BY <1>3, <2>2, <3>1
      <3>2. CASE i # life.at
        <4>1. i \in 1..life.at - 1
          BY <1>1, <1>2, <3>2
        <4> QED
          BY <1>1, <1>3, <2>2, <4>1 DEF InnerIsOpen
      <3> QED
        BY <3>1, <3>2
    <2> QED
      BY <1>2, <2>1, <2>2 DEF InnerIsOpen
  <1>6. LeftToClose'
    <2>1. First' = 1 /\ First = 1
      BY <1>1, <1>2 DEF First
    <2>2. \A kind : Left(kind) \/ kind = chain[life.at].kind => Left(kind)'
      BY <1>1, <1>2, <2>1 DEF Left, ChainTypeOK, Life
    <2>3. fileLoop'.pc \notin {"off", "ended"} => Left("file")'
      BY <1>3, <2>2 DEF LeftToClose
    <2>4. preLoop'.pc \notin {"off", "ended"} \/ innerOpen' => Left("preloader")'
      BY <1>3, <2>2 DEF LeftToClose
    <2> QED
      BY <2>3, <2>4 DEF LeftToClose
  <1>7. WalkHalf'
    BY <1>1, <1>2, WalksStay
  <1> QED
    BY <1>3, <1>4, <1>5, <1>6, <1>7, <1>8

\* Of a chain that cannot be built, what has been built is closed; one that can
\* serves; one that is retired is closed.
LEMMA PhasesInv ==
    ASSUME IndInv, BuildFails \/ Serve \/ CloseAll
    PROVE  IndInv'
  <1> USE ChainFacts DEF IndInv, LoopHalf, chainVars, fileVars, preVars
  <1>1. UNCHANGED <<chain, walk, reply, serverVars, fileVars, preVars>>
    BY DEF BuildFails, Serve, CloseAll
  <1>2. life \in Life
    BY DEF ChainTypeOK
  <1>3. /\ life' \in Life /\ LifeShape'
        /\ life'.at = 1 /\ life'.built = life.built
        /\ \/ life.phase = "building" /\ life'.phase = "closing"
           \/ life.phase = "building" /\ life'.phase = "serving" /\ life.at = Len(chain) + 1
           \/ life.phase = "serving" /\ life'.phase = "closing" /\ Idle
    <2>1. CASE BuildFails
      BY <1>1, <1>2, <2>1 DEF BuildFails, ToClose, Life, LifeShape
    <2>2. CASE Serve
      <3>1. life.phase = "building" /\ life.at = Len(chain) + 1
        BY <1>2, <2>2 DEF Serve, Life
      <3>2. life.built = Len(chain)
        BY <1>2, <3>1 DEF LifeShape, Life
      <3>3. life' = [phase |-> "serving", at |-> 1, built |-> Len(chain)]
        BY <1>2, <2>2, <3>2 DEF Serve, Life
      <3> QED
        BY <1>1, <3>1, <3>2, <3>3 DEF Life, LifeShape
    <2>3. CASE CloseAll
      BY <1>1, <1>2, <2>3 DEF CloseAll, Life, LifeShape
    <2> QED
      BY <2>1, <2>2, <2>3
  <1>4. ChainTypeOK' /\ FileTypeOK' /\ PreTypeOK' /\ LoopHasAddress'
    BY <1>1, <1>3 DEF ChainTypeOK, Life, FileTypeOK, PreTypeOK, LoopHasAddress
  <1>5. InnerIsOpen'
    BY <1>1, <1>2, <1>3 DEF InnerIsOpen, Life
  <1>6. LeftToClose'
    <2>1. First = 1 /\ First' = 1
      BY <1>3 DEF First, LifeShape
    <2>2. \A kind : Left(kind) => Left(kind)'
      BY <1>1, <1>3, <2>1 DEF Left
    <2> QED
      BY <1>1, <2>2 DEF LeftToClose
  <1>7. WalkHalf'
    BY <1>1, <1>3, WalksStay, IdleUnlessServing
  <1> QED
    BY <1>3, <1>4, <1>5, <1>6, <1>7

\* The goroutine of a file is told to stop.
LEMMA CloseFileInv ==
    ASSUME IndInv, CloseFile
    PROVE  IndInv'
  <1> USE DEF IndInv, LoopHalf, CloseFile, FileStop, chainVars, preVars
  <1>1. FileTypeOK' /\ PreTypeOK' /\ LoopHasAddress' /\ fileLoop'.pc = fileLoop.pc
    BY DEF FileTypeOK, PreTypeOK, LoopHasAddress
  <1>2. LoopHalf'
    BY <1>1, LoopsStay
  <1>3. WalkHalf'
    BY WalksStay
  <1> QED
    BY <1>2, <1>3

\* The goroutine of a preloader is told to stop.
LEMMA StopPreloaderInv ==
    ASSUME IndInv, StopPreloader
    PROVE  IndInv'
  <1> USE DEF IndInv, LoopHalf, StopPreloader, PreStop, chainVars, fileVars
  <1>1. FileTypeOK' /\ PreTypeOK' /\ LoopHasAddress' /\ preLoop'.pc = preLoop.pc
    BY DEF FileTypeOK, PreTypeOK, LoopHasAddress
  <1>2. LoopHalf'
    BY <1>1, LoopsStay
  <1>3. WalkHalf'
    BY WalksStay
  <1> QED
    BY <1>2, <1>3

\* The upstream of a preloader is closed when its goroutine has ended.
LEMMA CloseInnerInv ==
    ASSUME IndInv, CloseInner
    PROVE  IndInv'
  <1> USE DEF IndInv, LoopHalf, CloseInner, Closing, PreCloseInner, Joined, chainVars,
              fileVars
  <1>1. ChainTypeOK' /\ LifeShape' /\ FileTypeOK' /\ PreTypeOK' /\ LoopHasAddress'
    BY DEF ChainTypeOK, Life, LifeShape, FileTypeOK, PreTypeOK, LoopHasAddress
  <1>2. InnerIsOpen'
    BY DEF InnerIsOpen
  <1>3. LeftToClose'
    BY DEF LeftToClose, Left, First
  <1>4. WalkHalf'
    BY WalksStay
  <1> QED
    BY <1>1, <1>2, <1>3, <1>4

\* The next resolver is closed when nothing of this one runs.
LEMMA CloseNextInv ==
    ASSUME IndInv, CloseNext
    PROVE  IndInv'
  <1> USE ChainFacts DEF IndInv, LoopHalf, fileVars, preVars
  <1>1. UNCHANGED <<chain, walk, reply, serverVars, fileVars, preVars>> /\ life.phase = "closing"
    BY DEF CloseNext
  <1>2. /\ life' \in Life /\ life'.phase \in {"closing", "closed"}
        /\ life'.built = life.built
        /\ \/ life.at > life.built /\ life'.phase = "closed" /\ life'.at = life.at
           \/ /\ life.at \in 1..life.built /\ Closed(chain[life.at].kind)
              /\ life'.phase = "closing" /\ life'.at = life.at + 1
    BY DEF CloseNext, ChainTypeOK, Life
  <1>3. ChainTypeOK' /\ LifeShape' /\ FileTypeOK' /\ PreTypeOK' /\ LoopHasAddress'
    BY <1>1, <1>2 DEF ChainTypeOK, Life, LifeShape, FileTypeOK, PreTypeOK, LoopHasAddress
  <1>4. InnerIsOpen'
    BY <1>1, <1>2 DEF InnerIsOpen
  <1>5. LeftToClose'
    <2>1. \A kind : Left(kind) /\ ~Left(kind)'
                    => /\ life'.at = life.at + 1
                       /\ kind = chain[life.at].kind /\ Closed(chain[life.at].kind)
      BY <1>1, <1>2 DEF Left, First, ChainTypeOK, Life
    <2>2. Closed("file") => fileLoop.pc = "ended"
      BY DEF Closed, FileStopped
    <2>3. Closed("preloader") => ~innerOpen /\ preLoop.pc \in {"off", "ended"}
      BY DEF Closed, InnerIsOpen
    <2> QED
      BY <1>1, <2>1, <2>2, <2>3 DEF LeftToClose
  <1>6. WalkHalf'
    BY <1>1, WalksStay, IdleUnlessServing
  <1> QED
    BY <1>3, <1>4, <1>5, <1>6

-----------------------------------------------------------------------------
(* The goroutines beside the walks.                                        *)

\* The file changes, and its goroutine reads it.
LEMMA OfFileInv ==
    ASSUME IndInv, OfFile
    PROVE  IndInv'
  <1> USE DEF IndInv, LoopHalf, OfFile, beside, chainVars, preVars
  <1>1. FileTypeOK' /\ (fileLoop.pc \in {"off", "ended"} => fileLoop'.pc \in {"off", "ended"})
    <2>1. CASE FileEdit
      <3>1. edits' \in 0..MaxEdits
        BY <2>1, FileAssumption DEF FileEdit, FileTypeOK
      <3> QED
        BY <2>1, <3>1 DEF FileEdit, FileTypeOK
    <2>2. CASE FileRead
      BY <2>2 DEF FileRead, FileTypeOK
    <2>3. CASE FileInstall
      BY <2>3 DEF FileInstall, Installed, FileTypeOK, EmptyTable, Table
    <2>4. CASE FileExit
      BY <2>4 DEF FileExit, FileLoopOff, FileTypeOK, EmptyTable, Table
    <2> QED
      BY <2>1, <2>2, <2>3, <2>4
  <1>2. PreTypeOK' /\ LoopHasAddress'
    BY DEF PreTypeOK, LoopHasAddress
  <1>3. LoopHalf'
    BY <1>1, <1>2, LoopsStay
  <1>4. WalkHalf'
    BY WalksStay
  <1> QED
    BY <1>3, <1>4

\* The goroutine of the preloader, its upstream and the age of its entries.
LEMMA OfPreloaderInv ==
    ASSUME IndInv, OfPreloader
    PROVE  IndInv'
  <1> USE SilentFacts DEF IndInv, LoopHalf, OfPreloader, beside, chainVars, fileVars
  <1>1. PreTypeOK' /\ innerOpen' = innerOpen
        /\ (preLoop.pc \in {"off", "ended"} => preLoop'.pc \in {"off", "ended"})
    <2>1. CASE PreWake
      BY <2>1 DEF PreWake, PreTypeOK, Loaded
    <2>2. CASE PreAnswered
      BY <2>2 DEF PreAnswered, PreTypeOK
    <2>3. CASE PreFailed
      BY <2>3 DEF PreFailed, PreTypeOK
    <2>4. CASE PreStore
      BY <2>4 DEF PreStore, Put, PreTypeOK
    <2>5. CASE PreRangeEnds
      BY <2>5 DEF PreRangeEnds, PreTypeOK
    <2>6. CASE PreExit
      BY <2>6 DEF PreExit, PreLoopOff, PreTypeOK
    <2>7. ASSUME NEW n \in Name, PreSkip(n) \/ PreAsk(n) PROVE <1>1!:
      <3>1. preLoop.todo \ {n} \in SUBSET Name
        BY DEF PreTypeOK
      <3>2. /\ UNCHANGED <<entry, innerOpen, upstream, changes>> /\ preLoop.pc = "range"
            /\ preLoop' \in {[preLoop EXCEPT !.todo = preLoop.todo \ {n}],
                            [preLoop EXCEPT !.pc = "asking", !.todo = preLoop.todo \ {n},
                                            !.name = n]}
        BY <2>7 DEF PreSkip, PreAsk
      <3>3. preLoop' \in [pc : {"off", "select", "range", "asking", "storing", "ended"},
                          stop : BOOLEAN, todo : SUBSET Name, name : Name,
                          addr : Zone \cup {NoAddress}]
        BY <3>1, <3>2 DEF PreTypeOK
      <3> QED
        BY <3>2, <3>3 DEF PreTypeOK
    <2>8. CASE UpstreamChanges
      <3>1. changes' \in 0..MaxChanges
        BY <2>8, PreloaderAssumption DEF UpstreamChanges, PreTypeOK
      <3> QED
        BY <2>8, <3>1 DEF UpstreamChanges, PreTypeOK
    <2>9. ASSUME NEW n \in Name, EntryExpires(n) PROVE <1>1!:
      <3> DEFINE Entry == [addr : Zone \cup {NoAddress}, fresh : BOOLEAN]
                 aged == [entry[n] EXCEPT !.fresh = FALSE]
      <3>1. aged \in Entry /\ entry' = [entry EXCEPT ![n] = aged]
        BY <2>9, ZenonT(30) DEF EntryExpires, PreTypeOK
      <3> HIDE DEF aged
      <3>2. entry' \in [Name -> Entry]
        BY <3>1 DEF PreTypeOK
      <3> QED
        BY <2>9, <3>2 DEF EntryExpires, PreTypeOK
    <2> QED
      BY <2>1, <2>2, <2>3, <2>4, <2>5, <2>6, <2>7, <2>8, <2>9 DEF PreLoop
  <1>2. FileTypeOK'
    BY DEF FileTypeOK
  <1>5. LoopHasAddress'
    BY <1>1, ZenonT(30) DEF LoopHasAddress, PreLoop, PreWake, PreAnswered, PreFailed, PreStore,
                PreRangeEnds, PreExit, PreLoopOff, PreSkip, PreAsk, UpstreamChanges,
                EntryExpires, Worth, PreTypeOK
  <1>3. LoopHalf'
    BY <1>1, <1>2, <1>5, LoopsStay
  <1>4. WalkHalf'
    BY WalksStay
  <1> QED
    BY <1>3, <1>4

-----------------------------------------------------------------------------
(* The walks.                                                              *)

\* Where a walk is, and what it may touch.
LEMMA AtFacts ==
    ASSUME IndInv, NEW q \in Query, walk[q].pc # "idle"
    PROVE  /\ walk[q] \in Walk /\ life.phase = "serving" /\ ChainTypeOK
           /\ PassedTo(walk[q].at, walk[q].name)
           /\ walk[q].pc \notin {"accept"} => /\ walk[q].at \in DOMAIN chain
                                              /\ At(q) = chain[walk[q].at] /\ At(q) \in Resolver
  <1> USE DEF IndInv, LoopHalf, WalkHalf
  <1>1. walk[q] \in Walk /\ life.phase = "serving" /\ ChainTypeOK
    BY DEF WalkTypeOK, WalkInside
  <1>2. PassedTo(walk[q].at, walk[q].name)
    BY DEF Passed
  <1>3. walk[q].pc \notin {"accept"} => walk[q].at \in DOMAIN chain
    BY DEF WalkInside
  <1> QED
    BY <1>1, <1>2, <1>3, ChainFacts DEF At

\* A walk that tells nothing and keeps nothing goes on.
LEMMA GoesOn ==
    ASSUME IndInv, NEW q \in Query, walk[q].pc # "idle", NEW w \in Walk,
           UNCHANGED <<chainVars, dnsCache, reply>>, walk' = [walk EXCEPT ![q] = w],
           nft \cup lost \subseteq nft' \cup lost', nft' \cup lost' \subseteq Nat,
           w.pc # "idle", w.name = walk[q].name,
           w.pc # "accept" => w.at \in DOMAIN chain,
           w.pc = "storing" => w.addr \in Zone,
           w.pc \in {"keep", "send"} /\ chain[w.at].nft /\ w.addr # NoAddress
             => w.addr \in nft' \cup lost',
           PassedTo(w.at, w.name)
    PROVE  WalkHalf'
  <1>1. life.phase = "serving" /\ ChainTypeOK
    BY AtFacts
  <1>2. Silent \in Told /\ Silent.kind = "none"
    BY <1>1, SilentFacts, SilentTypes
  <1> QED
    BY <1>1, <1>2, SilentFacts, WalkGoes DEF chainVars

\* A walk that has found an address, or what it has is none.
LEMMA FoundGoes ==
    ASSUME IndInv, NEW q \in Query, walk[q].pc \in {"resolve", "asking"},
           NEW addr \in Nat, NEW label \in {"asking", "storing", "route"},
           label = "storing" => addr \in Zone,
           Found(q, addr, label), UNCHANGED <<chainVars, serverVars, reply>>
    PROVE  WalkHalf'
  <1> DEFINE w == [walk[q] EXCEPT !.pc = label, !.addr = addr]
  <1>1. /\ walk[q] \in Walk /\ walk[q].at \in DOMAIN chain
        /\ PassedTo(walk[q].at, walk[q].name)
    BY AtFacts
  <1>2. w \in Walk /\ w.name = walk[q].name /\ w.at = walk[q].at /\ w.pc = label /\ w.addr = addr
    BY <1>1 DEF Walk, WalkPc
  <1>3. walk' = [walk EXCEPT ![q] = w]
    BY DEF Found, IndInv, WalkHalf, WalkTypeOK
  <1>4. nft \cup lost \subseteq nft' \cup lost' /\ nft' \cup lost' \subseteq Nat
    BY DEF serverVars, IndInv, WalkHalf, WalkTypeOK
  <1> HIDE DEF w
  <1> QED
    BY <1>1, <1>2, <1>3, <1>4, GoesOn DEF serverVars, chainVars

\* The goroutines are as they were.
LEMMA LoopHalfStays ==
    ASSUME IndInv, UNCHANGED <<chainVars, fileVars, preVars>>
    PROVE  LoopHalf'
  <1>1. FileTypeOK' /\ PreTypeOK' /\ LoopHasAddress'
    BY DEF IndInv, LoopHalf, FileTypeOK, PreTypeOK, LoopHasAddress, fileVars, preVars
  <1> QED
    BY <1>1, LoopsStay DEF chainVars, fileVars, preVars

\* Resolve: what the tables hold are addresses.
LEMMA ResolveInv ==
    ASSUME IndInv, NEW q \in Query, Resolve(q)
    PROVE  IndInv'
  <1> DEFINE n == walk[q].name
  <1>1. /\ walk[q] \in Walk /\ n \in Name /\ At(q) \in Resolver /\ walk[q].pc = "resolve"
        /\ UNCHANGED <<chainVars, serverVars, fileVars, preVars, reply>>
    BY AtFacts DEF Resolve, walking, Walk
  <1>2. At(q).addr \in Nat /\ walk[q].addr \in Nat
    BY <1>1 DEF Resolver, Walk
  <1>3. FileAddressOf(n) \in Nat
    <2>1. Table \subseteq [Name -> Nat]
      BY FileAssumption, SilentFacts DEF Table
    <2>2. inMemory \in Table /\ InConfig \in Table
      BY FileAssumption DEF IndInv, LoopHalf, FileTypeOK
    <2> QED
      BY <1>1, <2>1, <2>2 DEF FileAddressOf
  <1>4. entry[n].addr \in Nat
    BY <1>1, PreloaderAssumption, SilentFacts DEF IndInv, LoopHalf, PreTypeOK
  <1>5. \E addr \in Nat, label \in {"asking", "route"} : Found(q, addr, label)
    <2>1. Goto(q, "asking") => Found(q, walk[q].addr, "asking")
      <3>1. [walk EXCEPT ![q].pc = "asking"]
              = [walk EXCEPT ![q].pc = "asking", ![q].addr = walk[q].addr]
        BY <1>1 DEF IndInv, WalkHalf, WalkTypeOK, Walk
      <3> QED
        BY <3>1 DEF Goto, Found
    <2>2. \/ Found(q, At(q).addr, Stages[1])
          \/ Found(q, FileAddressOf(n), Stages[1])
          \/ Found(q, entry[n].addr, Stages[1])
          \/ Goto(q, "asking")
      BY DEF Resolve
    <2> QED
      BY <1>2, <1>3, <1>4, <2>1, <2>2, StageFacts
  <1> QED
    BY <1>1, <1>5, FoundGoes, LoopHalfStays DEF IndInv

\* Answered: what an upstream gives are addresses.
LEMMA AnsweredInv ==
    ASSUME IndInv, NEW q \in Query, Answered(q)
    PROVE  IndInv'
  <1>1. /\ walk[q] \in Walk /\ walk[q].name \in Name /\ At(q) \in Resolver
        /\ walk[q].pc = "asking"
        /\ UNCHANGED <<chainVars, serverVars, fileVars, preVars, reply>>
    BY AtFacts DEF Answered, walking, Walk
  <1>2. upstream.addr[walk[q].name] \in Zone \cup {NoAddress} /\ Zone \subseteq Nat
    BY <1>1, PreloaderAssumption DEF IndInv, LoopHalf, PreTypeOK
  <1>3. At(q).addr \in Nat /\ NoAddress \in Nat
    BY <1>1, SilentFacts DEF Resolver
  <1>4. \E addr \in Nat, label \in {"storing", "route"} :
           Found(q, addr, label) /\ (label = "storing" => addr \in Zone)
    BY <1>2, <1>3, StageFacts DEF Answered, Worth
  <1> QED
    BY <1>1, <1>4, FoundGoes, LoopHalfStays DEF IndInv

\* StoreEntry: the preloader keeps an address of its upstream.
LEMMA StoreEntryInv ==
    ASSUME IndInv, NEW q \in Query, StoreEntry(q)
    PROVE  IndInv'
  <1> DEFINE w == [walk[q] EXCEPT !.pc = "route"]
  <1>1. /\ walk[q] \in Walk /\ walk[q].name \in Name /\ walk[q].at \in DOMAIN chain
        /\ PassedTo(walk[q].at, walk[q].name) /\ walk[q].pc = "storing"
        /\ UNCHANGED <<chainVars, serverVars, fileVars, reply>>
        /\ UNCHANGED <<preLoop, innerOpen, upstream, changes>>
    BY AtFacts DEF StoreEntry, Walk
  <1>2. walk[q].addr \in Zone
    BY <1>1 DEF IndInv, WalkHalf, WalkInside
  <1>3. w \in Walk /\ w.name = walk[q].name /\ w.at = walk[q].at /\ w.pc = "route"
    BY <1>1 DEF Walk, WalkPc
  <1>4. walk' = [walk EXCEPT ![q] = w]
    BY StageFacts DEF StoreEntry, Goto, IndInv, WalkHalf, WalkTypeOK
  <1>5. nft \cup lost \subseteq nft' \cup lost' /\ nft' \cup lost' \subseteq Nat
    BY <1>1 DEF serverVars, IndInv, WalkHalf, WalkTypeOK
  <1>6. PreTypeOK' /\ LoopHasAddress'
    BY <1>1, <1>2 DEF LoopHasAddress, StoreEntry, Put, IndInv, LoopHalf, PreTypeOK
  <1>7. FileTypeOK'
    BY <1>1 DEF IndInv, LoopHalf, FileTypeOK, fileVars
  <1>8. LoopHalf'
    BY <1>1, <1>6, <1>7, LoopsStay DEF chainVars, fileVars
  <1> HIDE DEF w
  <1>9. WalkHalf'
    BY <1>1, <1>3, <1>4, <1>5, GoesOn DEF serverVars, chainVars
  <1> QED
    BY <1>8, <1>9 DEF IndInv

\* Accept: a resolver that is passed has not accepted.
LEMMA AcceptInv ==
    ASSUME IndInv, NEW q \in Query, Accept(q)
    PROVE  IndInv'
  <1> DEFINE r == chain[walk[q].at]
  <1>1. /\ walk[q] \in Walk /\ walk[q].at \in DOMAIN chain /\ ChainTypeOK
        /\ PassedTo(walk[q].at, walk[q].name) /\ walk[q].pc = "accept"
        /\ UNCHANGED <<chainVars, serverVars, fileVars, preVars, reply>>
    BY AtFacts, ChainFacts DEF Accept, walking, Walk
  <1>2. nft \cup lost \subseteq nft' \cup lost' /\ nft' \cup lost' \subseteq Nat
    BY <1>1 DEF serverVars, IndInv, WalkHalf, WalkTypeOK
  <1>3. CASE Accepts(At(q), walk[q].name)
    <2> DEFINE w == [walk[q] EXCEPT !.pc = "resolve"]
    <2>1. w \in Walk /\ w.name = walk[q].name /\ w.at = walk[q].at /\ w.pc = "resolve"
      BY <1>1 DEF Walk, WalkPc
    <2>2. walk' = [walk EXCEPT ![q] = w]
      BY <1>3 DEF Accept, IndInv, WalkHalf, WalkTypeOK
    <2> HIDE DEF w
    <2>3. WalkHalf'
      BY <1>1, <1>2, <2>1, <2>2, GoesOn DEF serverVars, chainVars
    <2> QED
      BY <1>1, <2>3, LoopHalfStays DEF IndInv
  <1>4. CASE ~Accepts(At(q), walk[q].name)
    <2> DEFINE w == [walk[q] EXCEPT !.at = walk[q].at + 1]
    <2>1. walk[q].name \notin r.rule
      BY <1>1, <1>4, ChainFacts DEF Accepts, At
    <2>2. walk[q].at \in 1..Len(chain) /\ Len(chain) \in Nat
      BY <1>1, ChainFacts
    <2>3. PassedTo(walk[q].at + 1, walk[q].name)
      BY <1>1, <2>1, <2>2 DEF PassedTo
    <2>4. w \in Walk /\ w.name = walk[q].name /\ w.at = walk[q].at + 1 /\ w.pc = "accept"
      BY <1>1, <2>2 DEF Walk, WalkPc
    <2>5. walk' = [walk EXCEPT ![q] = w]
      BY <1>4 DEF Accept, IndInv, WalkHalf, WalkTypeOK
    <2> HIDE DEF w
    <2>6. WalkHalf'
      BY <1>1, <1>2, <2>3, <2>4, <2>5, GoesOn DEF serverVars, chainVars
    <2> QED
      BY <1>1, <2>6, LoopHalfStays DEF IndInv
  <1> QED
    BY <1>3, <1>4

\* A walk that ends tells what it has.
LEMMA ReplyEnds ==
    ASSUME IndInv, NEW q \in Query, walk[q].pc # "idle",
           NEW kind \in {"answer", "empty", "fail", "refused"}, Reply(q, kind),
           UNCHANGED <<chainVars, serverVars>>,
           kind = "answer" => RoutedAt(walk[q].at, walk[q].addr)
    PROVE  WalkHalf'
  <1> DEFINE told == [kind |-> kind, name |-> walk[q].name,
                      addr |-> walk[q].addr, at |-> walk[q].at]
  <1>1. /\ walk[q] \in Walk /\ life.phase = "serving" /\ ChainTypeOK
        /\ PassedTo(walk[q].at, walk[q].name)
    BY AtFacts
  <1>2. /\ told \in Told /\ told.kind = kind /\ told.name = walk[q].name
        /\ told.addr = walk[q].addr /\ told.at = walk[q].at
    <2>1. Len(chain) \in Nat /\ walk[q].at \in 0..Len(chain) + 1
      BY <1>1, ChainFacts DEF Walk
    <2> QED
      BY <1>1, <2>1 DEF Told, Walk
  <1>3. reply' = [reply EXCEPT ![q] = told] /\ walk' = [walk EXCEPT ![q] = Outside]
    BY DEF Reply
  <1>4. Outside \in Walk /\ Outside.pc = "idle"
    BY <1>1, SilentTypes, SilentFacts
  <1>5. nft \cup lost \subseteq nft' \cup lost' /\ nft' \cup lost' \subseteq Nat
    BY DEF serverVars, IndInv, WalkHalf, WalkTypeOK
  <1> HIDE DEF told
  <1> QED
    BY <1>1, <1>2, <1>3, <1>4, <1>5, SilentFacts, WalkGoes DEF chainVars, serverVars

\* Refuse, and Send: the answer that is sent has been routed.
LEMMA RefuseInv == ASSUME IndInv, NEW q \in Query, Refuse(q) PROVE IndInv'
  BY ReplyEnds, LoopHalfStays DEF Refuse, walking, IndInv

LEMMA SendInv == ASSUME IndInv, NEW q \in Query, Send(q) PROVE IndInv'
  <1>1. walk[q].pc = "send" /\ UNCHANGED <<chainVars, serverVars, fileVars, preVars>>
    BY DEF Send, walking
  <1>2. RoutedAt(walk[q].at, walk[q].addr)
    BY <1>1 DEF IndInv, WalkHalf, Routed
  <1>3. Reply(q, "answer") \/ Reply(q, "empty")
    BY DEF Send
  <1> QED
    BY <1>1, <1>2, <1>3, ReplyEnds, LoopHalfStays DEF IndInv

\* Failed: a walk goes on past a resolver that does not break it.
LEMMA FailedInv ==
    ASSUME IndInv, NEW q \in Query, Failed(q)
    PROVE  IndInv'
  <1>1. /\ walk[q] \in Walk /\ walk[q].at \in DOMAIN chain /\ ChainTypeOK
        /\ PassedTo(walk[q].at, walk[q].name) /\ walk[q].pc = "asking"
        /\ UNCHANGED <<chainVars, serverVars, fileVars, preVars>>
    BY AtFacts DEF Failed, walking
  <1>2. CASE Breaks(q) \/ Last(q)
    <2>1. Reply(q, "fail")
      BY <1>2 DEF Failed
    <2> QED
      BY <1>1, <2>1, ReplyEnds, LoopHalfStays DEF IndInv
  <1>3. CASE ~Breaks(q) /\ ~Last(q)
    <2> DEFINE next == walk[q].at + 1
               w == [walk[q] EXCEPT !.pc = "accept", !.at = next]
    <2>1. ~chain[walk[q].at].breaks
      BY <1>3 DEF Breaks, At
    <2>2. walk[q].at \in 1..Len(chain) /\ Len(chain) \in Nat
      BY <1>1, ChainFacts
    <2>3. PassedTo(next, walk[q].name) /\ next \in 1..Len(chain) + 1
      BY <1>1, <2>1, <2>2 DEF PassedTo
    <2>4. walk' = [walk EXCEPT ![q] = w] /\ reply' = reply
      <3>1. walk' = [walk EXCEPT ![q].pc = "accept", ![q].at = @ + 1] /\ reply' = reply
        BY <1>3 DEF Failed
      <3>2. q \in DOMAIN walk
        BY DEF IndInv, WalkHalf, WalkTypeOK
      <3> QED
        BY <3>1, <3>2
    <2> HIDE DEF next
    <2>5. w \in Walk /\ w.name = walk[q].name /\ w.at = next /\ w.pc = "accept"
      BY <1>1, <2>3 DEF Walk, WalkPc
    <2>6. nft \cup lost \subseteq nft' \cup lost' /\ nft' \cup lost' \subseteq Nat
      BY <1>1 DEF serverVars, IndInv, WalkHalf, WalkTypeOK
    <2> HIDE DEF w
    <2>7. WalkHalf'
      BY <1>1, <2>3, <2>5, <2>6, <2>4, GoesOn DEF serverVars, chainVars
    <2> QED
      BY <1>1, <2>7, LoopHalfStays DEF IndInv
  <1> QED
    BY <1>2, <1>3

\* WriteNftSet: the address is in the set, or is refused.
LEMMA WriteNftSetInv ==
    ASSUME IndInv, NEW q \in Query, WriteNftSet(q)
    PROVE  IndInv'
  <1> DEFINE w == [walk[q] EXCEPT !.pc = "keep"]
  <1>1. /\ walk[q] \in Walk /\ walk[q].at \in DOMAIN chain /\ walk[q].addr \in Nat
        /\ PassedTo(walk[q].at, walk[q].name) /\ walk[q].pc = "route"
        /\ UNCHANGED <<chainVars, dnsCache, fileVars, preVars, reply>>
    BY AtFacts DEF WriteNftSet, Walk
  <1>2. /\ w \in Walk /\ w.name = walk[q].name /\ w.at = walk[q].at
        /\ w.addr = walk[q].addr /\ w.pc = "keep"
    BY <1>1 DEF Walk, WalkPc
  <1>3. walk' = [walk EXCEPT ![q] = w]
    BY StageFacts DEF WriteNftSet, Goto, IndInv, WalkHalf, WalkTypeOK
  <1>4. nft \subseteq Nat /\ lost \subseteq Nat
    BY DEF IndInv, WalkHalf, WalkTypeOK
  <1>5. /\ nft \cup lost \subseteq nft' \cup lost' /\ nft' \cup lost' \subseteq Nat
        /\ chain[walk[q].at].nft /\ walk[q].addr # NoAddress => walk[q].addr \in nft' \cup lost'
    BY <1>1, <1>4 DEF WriteNftSet, At
  <1> HIDE DEF w
  <1>6. WalkHalf'
    BY <1>1, <1>2, <1>3, <1>5, GoesOn DEF chainVars
  <1> QED
    BY <1>1, <1>6, LoopHalfStays DEF IndInv

\* SetCache: what is kept has been routed, and has passed what comes before it.
LEMMA SetCacheInv ==
    ASSUME IndInv, NEW q \in Query, SetCache(q)
    PROVE  IndInv'
  <1> DEFINE w == [walk[q] EXCEPT !.pc = "send"]
             kept == [kind |-> "answer", name |-> walk[q].name,
                      addr |-> walk[q].addr, at |-> walk[q].at]
  <1>1. /\ walk[q] \in Walk /\ walk[q].at \in DOMAIN chain /\ walk[q].addr \in Nat
        /\ walk[q].name \in Name /\ life.phase = "serving" /\ ChainTypeOK
        /\ PassedTo(walk[q].at, walk[q].name) /\ walk[q].pc = "keep"
        /\ UNCHANGED <<chainVars, nft, lost, fileVars, preVars, reply>>
    BY AtFacts DEF SetCache, Walk
  <1>2. /\ w \in Walk /\ w.name = walk[q].name /\ w.at = walk[q].at
        /\ w.addr = walk[q].addr /\ w.pc = "send"
    BY <1>1 DEF Walk, WalkPc
  <1>3. walk' = [walk EXCEPT ![q] = w]
    BY StageFacts DEF SetCache, Goto, IndInv, WalkHalf, WalkTypeOK
  <1>4. nft \cup lost \subseteq nft' \cup lost' /\ nft' \cup lost' \subseteq Nat
    BY <1>1 DEF IndInv, WalkHalf, WalkTypeOK
  <1>5. RoutedAt(walk[q].at, walk[q].addr)
    BY <1>1 DEF IndInv, WalkHalf, Routed
  <1>6. w.pc \in {"keep", "send"} /\ chain[w.at].nft /\ w.addr # NoAddress
          => w.addr \in nft' \cup lost'
    BY <1>1, <1>2, <1>5 DEF RoutedAt
  <1>7. CASE At(q).caches /\ HasRecords(q)
    <2>1. walk[q].addr # NoAddress
      BY <1>1, <1>7, ChainFacts DEF HasRecords, At
    <2>2. /\ kept \in {Silent} \cup Kept /\ RoutedAt(kept.at, kept.addr)
          /\ PassedTo(kept.at, kept.name)
      BY <1>1, <1>5, <2>1 DEF Kept
    <2>3. dnsCache' = [dnsCache EXCEPT ![walk[q].name] = kept]
      BY <1>7 DEF SetCache
    <2> HIDE DEF w, kept
    <2>4. Silent \in Told /\ Silent.kind = "none"
      BY <1>1, SilentTypes, SilentFacts
    <2>5. WalkHalf'
      BY <1>1, <1>2, <1>3, <1>4, <1>6, <2>2, <2>3, <2>4, WalkGoes DEF chainVars
    <2> QED
      BY <1>1, <2>5, LoopHalfStays DEF IndInv
  <1>8. CASE ~(At(q).caches /\ HasRecords(q))
    <2>1. dnsCache' = dnsCache
      BY <1>8 DEF SetCache
    <2> HIDE DEF w
    <2>2. WalkHalf'
      BY <1>1, <1>2, <1>3, <1>4, <1>6, <2>1, GoesOn DEF chainVars
    <2> QED
      BY <1>1, <2>2, LoopHalfStays DEF IndInv
  <1> QED
    BY <1>7, <1>8

-----------------------------------------------------------------------------
(* The clients.                                                            *)

\* Hit: what dnsCache holds has been routed.
LEMMA HitInv ==
    ASSUME IndInv, NEW q \in Query, NEW n \in Name, Hit(q, n)
    PROVE  IndInv'
  <1>1. /\ ChainTypeOK /\ walk[q] \in Walk /\ walk[q].pc = "idle" /\ life.phase = "serving"
        /\ UNCHANGED <<walk, chainVars, serverVars, fileVars, preVars>>
    BY DEF Hit, walking, IndInv, LoopHalf, WalkHalf, WalkTypeOK
  <1>2. dnsCache[n] \in Kept /\ dnsCache[n] # Silent
    BY DEF Hit, IndInv, WalkHalf, WalkTypeOK
  <1>3. dnsCache[n] \in Told
    <2>1. DOMAIN chain \subseteq 0..Len(chain) + 1
      BY <1>1, ChainFacts
    <2> QED
      BY <1>2, <2>1 DEF Kept, Told
  <1>4. RoutedAt(dnsCache[n].at, dnsCache[n].addr) /\ PassedTo(dnsCache[n].at, dnsCache[n].name)
    BY <1>2 DEF IndInv, WalkHalf, Routed, Passed
  <1>5. walk' = [walk EXCEPT ![q] = walk[q]] /\ reply' = [reply EXCEPT ![q] = dnsCache[n]]
    BY <1>1 DEF Hit, IndInv, WalkHalf, WalkTypeOK
  <1>6. nft \cup lost \subseteq nft' \cup lost' /\ nft' \cup lost' \subseteq Nat
    BY <1>1 DEF serverVars, IndInv, WalkHalf, WalkTypeOK
  <1>7. WalkHalf'
    BY <1>1, <1>3, <1>4, <1>5, <1>6, WalkGoes DEF chainVars, serverVars
  <1> QED
    BY <1>1, <1>7, LoopHalfStays DEF IndInv

\* Begin: nothing comes before the first resolver.
LEMMA BeginInv ==
    ASSUME IndInv, NEW q \in Query, NEW n \in Name, Begin(q, n)
    PROVE  IndInv'
  <1> DEFINE w == [Outside EXCEPT !.pc = "accept", !.name = n]
  <1>1. /\ ChainTypeOK /\ life.phase = "serving"
        /\ UNCHANGED <<chainVars, serverVars, fileVars, preVars>>
        /\ walk' = [walk EXCEPT ![q] = w] /\ reply' = [reply EXCEPT ![q] = Silent]
    BY DEF Begin, walking, IndInv, LoopHalf
  <1>2. w \in Walk /\ w.pc = "accept" /\ w.at = 1
    BY <1>1, SilentTypes, SilentFacts DEF Outside, Walk, WalkPc
  <1>3. PassedTo(w.at, w.name)
    BY <1>2 DEF PassedTo
  <1>4. Silent \in Told /\ Silent.kind = "none"
    BY <1>1, SilentTypes, SilentFacts
  <1>5. nft \cup lost \subseteq nft' \cup lost' /\ nft' \cup lost' \subseteq Nat
    BY <1>1 DEF serverVars, IndInv, WalkHalf, WalkTypeOK
  <1> HIDE DEF w
  <1>6. WalkHalf'
    BY <1>1, <1>2, <1>3, <1>4, <1>5, SilentFacts, WalkGoes DEF chainVars, serverVars
  <1> QED
    BY <1>1, <1>6, LoopHalfStays DEF IndInv

\* An entry of dnsCache expires.
LEMMA CacheExpiresInv ==
    ASSUME IndInv, NEW n \in Name, CacheExpires(n)
    PROVE  IndInv'
  <1>1. /\ UNCHANGED <<chainVars, walk, reply, nft, lost, fileVars, preVars>>
        /\ dnsCache' = [dnsCache EXCEPT ![n] = Silent]
    BY DEF CacheExpires
  <1>2. dnsCache' \in [Name -> {Silent} \cup Kept]
        /\ \A m \in Name : dnsCache'[m] \in {dnsCache[m], Silent}
    BY <1>1 DEF IndInv, WalkHalf, WalkTypeOK
  <1> USE DEF IndInv, WalkHalf, chainVars
  <1>3. WalkTypeOK' /\ WalkInside'
    BY <1>1, <1>2 DEF WalkTypeOK, WalkInside, Walk, Told, Kept
  <1>4. Routed' /\ Passed'
    <2>1. Routed'
      BY <1>1, <1>2 DEF Routed, RoutedAt
    <2>2. Passed'
      BY <1>1, <1>2 DEF Passed, PassedTo
    <2> QED
      BY <2>1, <2>2
  <1>5. AnswerIsRouted' /\ BreakIsFinal'
    BY <1>1 DEF AnswerIsRouted, BreakIsFinal
  <1> QED
    BY <1>1, <1>3, <1>4, <1>5, LoopHalfStays

-----------------------------------------------------------------------------
(* The invariant, and what follows.                                        *)

\* Nothing runs and nobody asks before the chain is built.
THEOREM InitInv == Init => IndInv
  <1> SUFFICES ASSUME Init PROVE IndInv
    OBVIOUS
  <1>1. ChainTypeOK
    <2>1. chain \in Chains /\ life = [phase |-> "building", at |-> 1, built |-> 0]
      BY DEF Init
    <2>2. Len(chain) \in Nat
      BY <2>1, ChainAssumption
    <2> QED
      BY <2>1, <2>2 DEF ChainTypeOK, Life
  <1>2. FileTypeOK
    BY FileAssumption DEF Init, FileInit, FileTypeOK, FileLoopOff, Table, EmptyTable
  <1>3. PreTypeOK
    <2>1. PreInit
      BY DEF Init
    <2>2. (CHOOSE a \in Zone : TRUE) \in Zone
      BY PreloaderAssumption
    <2>3. /\ entry \in [Name -> [addr : Zone \cup {NoAddress}, fresh : BOOLEAN]]
          /\ upstream \in [up : BOOLEAN, addr : [Name -> Zone \cup {NoAddress}]]
      BY <2>1, <2>2 DEF PreInit
    <2>4. /\ preLoop \in [pc : {"off", "select", "range", "asking", "storing", "ended"},
                          stop : BOOLEAN, todo : SUBSET Name, name : Name,
                          addr : Zone \cup {NoAddress}]
          /\ innerOpen \in BOOLEAN /\ changes \in 0..MaxChanges
      <3>1. preLoop = [pc |-> "off", stop |-> FALSE, todo |-> {},
                       name |-> Nobody, addr |-> NoAddress]
        BY <2>1 DEF PreInit, PreLoopOff
      <3>2. innerOpen = FALSE /\ changes = 0
        BY <2>1 DEF PreInit
      <3>3. 0 \in 0..MaxChanges
        BY PreloaderAssumption
      <3> QED
        BY <3>1, <3>2, <3>3, SilentFacts
    <2> QED
      BY <2>3, <2>4 DEF PreTypeOK
  <1>4. LifeShape /\ InnerIsOpen /\ LoopHasAddress /\ LeftToClose
    BY DEF Init, FileInit, PreInit, FileLoopOff, PreLoopOff, LifeShape, InnerIsOpen,
           LoopHasAddress, LeftToClose
  <1>5. WalkTypeOK
    BY <1>1, SilentTypes DEF Init, WalkTypeOK
  <1>6. WalkInside /\ Routed /\ Passed
    BY SilentFacts DEF Init, WalkInside, Routed, Passed
  <1>7. AnswerIsRouted /\ BreakIsFinal
    BY SilentFacts DEF Init, AnswerIsRouted, BreakIsFinal
  <1> QED
    BY <1>1, <1>2, <1>3, <1>4, <1>5, <1>6, <1>7 DEF IndInv, LoopHalf, WalkHalf

\* A step that changes nothing.
LEMMA StutterInv == ASSUME IndInv, UNCHANGED vars PROVE IndInv'
  <1>1. LoopHalf'
    BY LoopHalfStays DEF vars, chainVars
  <1>2. WalkHalf'
    BY WalksStay DEF vars, chainVars
  <1> QED
    BY <1>1, <1>2 DEF IndInv

\* Every step keeps the invariant.
THEOREM NextInv == IndInv /\ [Next]_vars => IndInv'
  <1> SUFFICES ASSUME IndInv, [Next]_vars PROVE IndInv'
    OBVIOUS
  <1>1. CASE Build \/ BuildFails \/ Serve \/ CloseAll
    BY <1>1, BuildInv, PhasesInv
  <1>2. CASE Ending
    BY <1>2, CloseFileInv, StopPreloaderInv, CloseInnerInv, CloseNextInv DEF Ending
  <1>3. CASE OfFile \/ OfPreloader
    BY <1>3, OfFileInv, OfPreloaderInv
  <1>4. ASSUME NEW q \in Query, Walking(q) PROVE IndInv'
    BY <1>4, RefuseInv, AcceptInv, ResolveInv, AnsweredInv, StoreEntryInv, FailedInv,
       WriteNftSetInv, SetCacheInv, SendInv DEF Walking
  <1>5. ASSUME NEW q \in Query, NEW n \in Name, Hit(q, n) \/ Begin(q, n) PROVE IndInv'
    BY <1>5, HitInv, BeginInv
  <1>6. ASSUME NEW n \in Name, CacheExpires(n) PROVE IndInv'
    BY <1>6, CacheExpiresInv
  <1>7. CASE UNCHANGED vars
    BY <1>7, StutterInv
  <1> QED
    BY <1>1, <1>2, <1>3, <1>4, <1>5, <1>6, <1>7 DEF Next

\* It holds in every reachable state.
THEOREM Invariance == Spec => []IndInv
  BY InitInv, NextInv, PTL DEF Spec

\* Every variable keeps its type.
THEOREM TypeCorrect == Spec => []TypeOK
  BY InvIsType, Invariance, PTL

\* The address that a client gets from a resolver with an nftset, from the walk or
\* from dnsCache, is in the set unless the command has failed.
THEOREM AnswersAreRouted == Spec => []AnswerIsRouted
  <1>1. IndInv => AnswerIsRouted
    BY DEF IndInv, WalkHalf
  <1> QED
    BY <1>1, Invariance, PTL

\* What a resolver that breaks the walk accepts is never answered by a later one.
THEOREM BreaksAreFinal == Spec => []BreakIsFinal
  <1>1. IndInv => BreakIsFinal
    BY DEF IndInv, WalkHalf
  <1> QED
    BY <1>1, Invariance, PTL

\* Neither the goroutine of a preloader nor a query is inside an upstream that is
\* closed.
THEOREM ClosedIsEmpty == Spec => []NoneInsideClosed
  <1>1. IndInv => NoneInsideClosed
    <2> SUFFICES ASSUME IndInv, ~innerOpen PROVE NoneInsideClosed
      BY DEF NoneInsideClosed
    <2>1. preLoop.pc \notin {"asking", "storing"}
      BY DEF IndInv, LoopHalf, InnerIsOpen
    <2>2. ASSUME NEW q \in Query, walk[q].pc \in {"asking", "storing"}
          PROVE  At(q).kind # "preloader"
      BY <2>2 DEF IndInv, LoopHalf, WalkHalf, InnerIsOpen, WalkInside, At
    <2> QED
      BY <2>1, <2>2 DEF NoneInsideClosed
  <1> QED
    BY <1>1, Invariance, PTL

\* A chain that is closed, or was never finished, leaves nothing behind.
THEOREM ClosedIsStill == Spec => []NothingRuns
  <1>1. IndInv => NothingRuns
    <2> SUFFICES ASSUME IndInv, life.phase = "closed" PROVE NothingRuns
      BY DEF NothingRuns
    <2>1. \A kind : ~Left(kind)
      BY DEF IndInv, LoopHalf, LifeShape, ChainTypeOK, Life, Left, First
    <2>2. fileLoop.pc \in {"off", "ended"} /\ preLoop.pc \in {"off", "ended"} /\ ~innerOpen
      BY <2>1 DEF IndInv, LoopHalf, LeftToClose
    <2> QED
      BY <2>2 DEF NothingRuns
  <1> QED
    BY <1>1, Invariance, PTL

\* A name that the preloader serves it goes on serving.
THEOREM LoadedStays == Spec => KeepsServing
  <1>1. IndInv /\ [Next]_vars => [Loaded \subseteq Loaded']_vars
    <2> SUFFICES ASSUME IndInv, Next PROVE Loaded \subseteq Loaded'
      OBVIOUS
    <2>1. entry \in [Name -> [addr : Zone \cup {NoAddress}, fresh : BOOLEAN]]
          /\ NoAddress \notin Zone
      BY PreloaderAssumption DEF IndInv, LoopHalf, PreTypeOK
    <2>2. CASE entry' = entry
      BY <2>2 DEF Loaded
    <2>3. ASSUME NEW n \in Name, NEW addr \in Zone, Put(n, addr) PROVE Loaded \subseteq Loaded'
      BY <2>1, <2>3 DEF Put, Loaded
    <2>4. ASSUME NEW n \in Name, EntryExpires(n) PROVE Loaded \subseteq Loaded'
      BY <2>1, <2>4 DEF EntryExpires, Loaded
    <2> USE DEF beside, walking, preVars, fileVars
    <2>5. CASE Build
      BY <2>2, <2>5 DEF Build, Start, PreNew
    <2>6. CASE BuildFails \/ Serve \/ CloseAll \/ Ending
      BY <2>2, <2>6 DEF BuildFails, Serve, CloseAll, Ending, CloseFile, StopPreloader,
             PreStop,
                        CloseInner, PreCloseInner, CloseNext
    <2>7. CASE OfFile
      BY <2>2, <2>7 DEF OfFile
    <2>8. CASE OfPreloader
      <3>1. CASE PreStore
        <4>1. Put(preLoop.name, preLoop.addr) /\ preLoop.name \in Name /\ preLoop.addr \in Zone
          BY <3>1 DEF PreStore, IndInv, LoopHalf, LoopHasAddress, PreTypeOK
        <4> QED
          BY <2>3, <4>1
      <3>2. CASE \E n \in Name : EntryExpires(n)
        BY <2>4, <3>2
      <3>3. CASE ~PreStore /\ ~(\E n \in Name : EntryExpires(n))
        BY <2>2, <2>8, <3>3 DEF OfPreloader, PreLoop, PreWake, PreAnswered, PreFailed,
               PreRangeEnds, PreExit, PreSkip, PreAsk, UpstreamChanges
      <3> QED
        BY <3>1, <3>2, <3>3
    <2>9. ASSUME NEW q \in Query, Walking(q) PROVE Loaded \subseteq Loaded'
      <3>1. CASE StoreEntry(q)
        <4>1. Put(walk[q].name, walk[q].addr) /\ walk[q].name \in Name /\ walk[q].addr \in Zone
          BY <3>1 DEF StoreEntry, IndInv, WalkHalf, WalkTypeOK, WalkInside, Walk
        <4> QED
          BY <2>3, <4>1
      <3>2. CASE ~StoreEntry(q)
        BY <2>2, <2>9, <3>2 DEF Walking, Refuse, Accept, Resolve, Answered, Failed,
               WriteNftSet, SetCache, Send
      <3> QED
        BY <3>1, <3>2
    <2>10. ASSUME NEW q \in Query, NEW n \in Name, Hit(q, n) \/ Begin(q, n)
           PROVE  entry' = entry
      BY <2>10 DEF Hit, Begin
    <2>11. ASSUME NEW n \in Name, CacheExpires(n) PROVE entry' = entry
      BY <2>11 DEF CacheExpires
    <2> QED
      BY <2>2, <2>5, <2>6, <2>7, <2>8, <2>9, <2>10, <2>11 DEF Next
  <1> QED
    BY <1>1, Invariance, PTL DEF KeepsServing, Spec

=============================================================================
