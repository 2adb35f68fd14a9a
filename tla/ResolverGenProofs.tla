------------------------- MODULE ResolverGenProofs --------------------------
(***************************************************************************)
(* The safety of the resolver generations for any number of queries,       *)
(* swaps and generations.  The invariants of ResolverGen are not           *)
(* inductive: IndInv adds what the lock, the counter and the drains of     *)
(* Shutdown maintain between them.                                         *)
(***************************************************************************)
EXTENDS ResolverGen, FiniteSetTheorems, TLAPS

\* Each kind of goroutine runs its own code.
Places == /\ \A w \in Query : pc[w] \in {"idle", "begun", "loaded", "resolving",
                                         "answered", "close", "closing"}
          /\ \A p \in Swap : pc[p] \in {"idle", "begun", "built", "clear", "close", "closing"}
          /\ pc[Main] \in {"running", "drainUdp", "drainHttp", "close", "closing", "stopped"}

\* A local pointer is set where it is used.
RefSet == \A p \in Proc :
            pc[p] \in {"loaded", "resolving", "answered", "built", "close", "closing"}
               => ref[p] \in Gen

\* A generation under construction belongs to one swap and is not installed.
BuiltApart == \A p \in Swap : pc[p] = "built" =>
                 /\ ref[p] \notin Installed
                 /\ \A q \in Swap : pc[q] = "built" /\ ref[q] = ref[p] => q = p

ActiveInService == active \notin retired

\* The read lock: the pointer a query loaded is still the active one when the
\* query increments its counter.
LoadedActive == \A w \in Query : pc[w] = "loaded" => ref[w] = active

HoldersInstalled == \A w \in Query : pc[w] \in Holding => ref[w] \in Installed

ClosingMarked == \A p \in Proc : pc[p] = "closing" => once[ref[p]] # "open"

\* Whoever set out to close a generation, nobody is inside it any more.
ClosersAlone == \A p \in Query \cup Swap : pc[p] \in Closing =>
                   ref[p] \in retired /\ Holders(ref[p]) = {}

ShutdownCloser == pc[Main] \in Closing => ref[Main] \in Installed

\* A generation that is closing is empty, and new queries do not find it:
\* it is retired, or the listeners are drained.
ClosedOutOfService == \A g \in Gen : once[g] # "open" =>
                         /\ Holders(g) = {}
                         /\ g \in retired \/ (Drained /\ g \in Installed)

\* Shutdown closes after both drains.
DrainedIdle == /\ pc[Main] \in {"drainHttp", "close", "closing", "stopped"}
                     => \A w \in UdpQuery : pc[w] = "idle"
               /\ Drained => \A w \in HttpQuery : pc[w] = "idle"

Shape == /\ TypeOK /\ Places /\ RefSet /\ BuiltApart /\ ActiveInService
         /\ LoadedActive /\ HoldersInstalled /\ ClosingMarked

IndInv == /\ Shape /\ RefCountExact /\ ClosersAlone /\ ShutdownCloser
          /\ ClosedOutOfService /\ DrainedIdle /\ OneCloser

-----------------------------------------------------------------------------
(* Lemmas on the state functions.                                          *)

\* A goroutine is a query, a swap or the main loop, and only one of them.
LEMMA Kinds ==
    /\ Query \subseteq Proc /\ Swap \subseteq Proc /\ Main \in Proc
    /\ UdpQuery \subseteq Query /\ HttpQuery \subseteq Query
    /\ \A w \in Query : w \notin Swap /\ w # Main
    /\ \A p \in Swap : p \notin Query /\ p # Main
  BY ProcAssumption DEF Query, Swap, Proc

\* The holders of a generation are finitely many.
LEMMA HoldersFinite ==
    ASSUME NEW g
    PROVE  /\ IsFiniteSet(Holders(g))
           /\ Cardinality(Holders(g)) \in Nat
           /\ Cardinality(Holders(g)) = 0 <=> Holders(g) = {}
  <1>1. Holders(g) \subseteq Query
    BY DEF Holders
  <1>2. IsFiniteSet(Holders(g))
    BY <1>1, QueryAssumption, FS_Subset
  <1> QED
    BY <1>2, FS_CardinalityType, FS_EmptySet

\* A server that Create has just returned satisfies the invariant.
THEOREM InitInv == Init => IndInv
  <1> SUFFICES ASSUME Init PROVE IndInv
    OBVIOUS
  <1> USE GenAssumption, ProcAssumption, Kinds DEF Init
  <1>1. TypeOK
    BY DEF TypeOK
  <1>2. Places /\ DrainedIdle /\ OneCloser /\ ShutdownCloser /\ ClosersAlone
    BY DEF Places, DrainedIdle, OneCloser, ShutdownCloser, ClosersAlone, Closing, Drained,
           Query, Swap, Proc
  <1>3. RefSet /\ BuiltApart /\ LoadedActive /\ HoldersInstalled /\ ClosingMarked
    BY DEF RefSet, BuiltApart, LoadedActive, HoldersInstalled, ClosingMarked, Holding, Proc
  <1>4. ActiveInService /\ ClosedOutOfService
    BY DEF ActiveInService, ClosedOutOfService
  <1>5. \A g \in Gen : Holders(g) = {}
    BY DEF Holders, Holding
  <1>6. RefCountExact
    BY <1>5, FS_EmptySet DEF RefCountExact
  <1> QED
    BY <1>1, <1>2, <1>3, <1>4, <1>6 DEF IndInv, Shape

-----------------------------------------------------------------------------
(* Every action preserves IndInv.                                          *)

\* A step that moves no query into or out of a generation leaves the sets of
\* holders as they are.
LEMMA SameHolders ==
    ASSUME \A w \in Query : /\ pc'[w] \in Holding <=> pc[w] \in Holding
                            /\ pc[w] \in Holding => ref'[w] = ref[w]
    PROVE  \A g : Holders(g)' = Holders(g)
  BY DEF Holders, Holding

\* Begin: a handler that starts holds nothing, and only while its listener accepts.
LEMMA BeginInv ==
    ASSUME IndInv, NEW p \in Proc, Begin(p)
    PROVE  IndInv'
  <1> USE Kinds DEF IndInv, Shape, Begin, Goto
  <1>1. \A g : Holders(g)' = Holders(g)
    BY SameHolders DEF Holding, TypeOK
  <1>2. TypeOK'
    BY DEF TypeOK
  <1>3. /\ Places' /\ RefSet' /\ BuiltApart' /\ ActiveInService'
        /\ LoadedActive' /\ HoldersInstalled' /\ ClosingMarked'
    BY DEF TypeOK, Places, RefSet, BuiltApart, ActiveInService, LoadedActive,
           HoldersInstalled,
           ClosingMarked, Holding, Installed
  <1>4. RefCountExact'
    BY <1>1 DEF RefCountExact
  <1>5. ClosersAlone' /\ ShutdownCloser' /\ OneCloser'
    BY <1>1 DEF ClosersAlone, ShutdownCloser, OneCloser, Closing, TypeOK, Installed
  <1>6. ClosedOutOfService'
    BY <1>1 DEF ClosedOutOfService, Drained, TypeOK, Places, Installed
  <1>7. DrainedIdle'
    BY DEF DrainedIdle, Drained, TypeOK, Places, Accepting
  <1> QED
    BY <1>2, <1>3, <1>4, <1>5, <1>6, <1>7

\* AcquireLoad: the pointer just loaded is the active one.
LEMMA AcquireLoadInv ==
    ASSUME IndInv, NEW w \in Query, AcquireLoad(w)
    PROVE  IndInv'
  <1> USE Kinds, GenAssumption DEF IndInv, Shape, AcquireLoad, Goto
  <1>1. \A g : Holders(g)' = Holders(g)
    BY SameHolders DEF Holding, TypeOK
  <1>2. TypeOK'
    BY DEF TypeOK, AfterClose, RefSet
  <1>3. /\ Places' /\ RefSet' /\ BuiltApart' /\ ActiveInService'
        /\ LoadedActive' /\ HoldersInstalled' /\ ClosingMarked'
    BY DEF TypeOK, Places, RefSet, BuiltApart, ActiveInService, LoadedActive,
           HoldersInstalled,
           ClosingMarked, Holding, Installed, AfterClose
  <1>4. RefCountExact'
    BY <1>1 DEF RefCountExact
  <1>5. ClosersAlone' /\ ShutdownCloser' /\ OneCloser'
    BY <1>1 DEF ClosersAlone, ShutdownCloser, OneCloser, Closing, TypeOK, Installed,
           AfterClose
  <1>6. ClosedOutOfService'
    BY <1>1 DEF ClosedOutOfService, Drained, TypeOK, Places, Installed, AfterClose, RefSet,
           Closing,
                ClosersAlone, ShutdownCloser
  <1>7. DrainedIdle'
    BY DEF DrainedIdle, Drained, TypeOK, Places, AfterClose
  <1> QED
    BY <1>2, <1>3, <1>4, <1>5, <1>6, <1>7

\* Answer: the query keeps its generation while it fills the cache.
LEMMA AnswerInv ==
    ASSUME IndInv, NEW w \in Query, Answer(w)
    PROVE  IndInv'
  <1> USE Kinds, GenAssumption DEF IndInv, Shape, Answer, Goto
  <1>1. \A g : Holders(g)' = Holders(g)
    BY SameHolders DEF Holding, TypeOK
  <1>2. TypeOK'
    BY DEF TypeOK, AfterClose, RefSet
  <1>3. /\ Places' /\ RefSet' /\ BuiltApart' /\ ActiveInService'
        /\ LoadedActive' /\ HoldersInstalled' /\ ClosingMarked'
    BY DEF TypeOK, Places, RefSet, BuiltApart, ActiveInService, LoadedActive,
           HoldersInstalled,
           ClosingMarked, Holding, Installed, AfterClose
  <1>4. RefCountExact'
    BY <1>1 DEF RefCountExact
  <1>5. ClosersAlone' /\ ShutdownCloser' /\ OneCloser'
    BY <1>1 DEF ClosersAlone, ShutdownCloser, OneCloser, Closing, TypeOK, Installed,
           AfterClose
  <1>6. ClosedOutOfService'
    BY <1>1 DEF ClosedOutOfService, Drained, TypeOK, Places, Installed, AfterClose, RefSet,
           Closing,
                ClosersAlone, ShutdownCloser
  <1>7. DrainedIdle'
    BY DEF DrainedIdle, Drained, TypeOK, Places, AfterClose
  <1> QED
    BY <1>2, <1>3, <1>4, <1>5, <1>6, <1>7

\* Build: a new generation is nobody's but the swap's.
LEMMA BuildInv ==
    ASSUME IndInv, NEW p \in Swap, Build(p)
    PROVE  IndInv'
  <1> USE Kinds, GenAssumption DEF IndInv, Shape, Build, Goto
  <1>1. \A g : Holders(g)' = Holders(g)
    BY SameHolders DEF Holding, TypeOK
  <1>2. TypeOK'
    BY DEF TypeOK, AfterClose, RefSet, Fresh
  <1>3. /\ Places' /\ RefSet' /\ BuiltApart' /\ ActiveInService'
        /\ LoadedActive' /\ HoldersInstalled' /\ ClosingMarked'
    BY DEF TypeOK, Places, RefSet, BuiltApart, ActiveInService, LoadedActive,
           HoldersInstalled,
           ClosingMarked, Holding, Installed, AfterClose, Fresh
  <1>4. RefCountExact'
    BY <1>1 DEF RefCountExact
  <1>5. ClosersAlone' /\ ShutdownCloser' /\ OneCloser'
    BY <1>1 DEF ClosersAlone, ShutdownCloser, OneCloser, Closing, TypeOK, Installed,
           AfterClose
  <1>6. ClosedOutOfService'
    BY <1>1 DEF ClosedOutOfService, Drained, TypeOK, Places, Installed, AfterClose, RefSet,
           Closing,
                ClosersAlone, ShutdownCloser
  <1>7. DrainedIdle'
    BY DEF DrainedIdle, Drained, TypeOK, Places, AfterClose
  <1> QED
    BY <1>2, <1>3, <1>4, <1>5, <1>6, <1>7

\* Clear touches the cache only.
LEMMA ClearInv ==
    ASSUME IndInv, NEW p \in Swap, Clear(p)
    PROVE  IndInv'
  <1> USE Kinds, GenAssumption DEF IndInv, Shape, Clear, Goto
  <1>1. \A g : Holders(g)' = Holders(g)
    BY SameHolders DEF Holding, TypeOK
  <1>2. TypeOK'
    BY DEF TypeOK, AfterClose, RefSet
  <1>3. /\ Places' /\ RefSet' /\ BuiltApart' /\ ActiveInService'
        /\ LoadedActive' /\ HoldersInstalled' /\ ClosingMarked'
    BY DEF TypeOK, Places, RefSet, BuiltApart, ActiveInService, LoadedActive,
           HoldersInstalled,
           ClosingMarked, Holding, Installed, AfterClose
  <1>4. RefCountExact'
    BY <1>1 DEF RefCountExact
  <1>5. ClosersAlone' /\ ShutdownCloser' /\ OneCloser'
    BY <1>1 DEF ClosersAlone, ShutdownCloser, OneCloser, Closing, TypeOK, Installed,
           AfterClose
  <1>6. ClosedOutOfService'
    BY <1>1 DEF ClosedOutOfService, Drained, TypeOK, Places, Installed, AfterClose, RefSet,
           Closing,
                ClosersAlone, ShutdownCloser
  <1>7. DrainedIdle'
    BY DEF DrainedIdle, Drained, TypeOK, Places, AfterClose
  <1> QED
    BY <1>2, <1>3, <1>4, <1>5, <1>6, <1>7

\* CloseBegin: nobody is inside the generation, whoever its closer is.
LEMMA CloseBeginInv ==
    ASSUME IndInv, NEW p \in Proc, CloseBegin(p)
    PROVE  IndInv'
  <1> USE Kinds, GenAssumption DEF IndInv, Shape, CloseBegin, Goto
  <1>1. \A g : Holders(g)' = Holders(g)
    BY SameHolders DEF Holding, TypeOK
  <1>2. TypeOK'
    BY DEF TypeOK, AfterClose, RefSet
  <1>3. /\ Places' /\ RefSet' /\ BuiltApart' /\ ActiveInService'
        /\ LoadedActive' /\ HoldersInstalled' /\ ClosingMarked'
    BY DEF TypeOK, Places, RefSet, BuiltApart, ActiveInService, LoadedActive,
           HoldersInstalled,
           ClosingMarked, Holding, Installed, AfterClose
  <1>4. RefCountExact'
    BY <1>1 DEF RefCountExact
  <1>5. ClosersAlone' /\ ShutdownCloser' /\ OneCloser'
    BY <1>1 DEF ClosersAlone, ShutdownCloser, OneCloser, Closing, TypeOK, Installed,
           AfterClose
  <1>6. ClosedOutOfService'
    <2>1. /\ ref[p] \in Gen /\ Holders(ref[p]) = {}
          /\ ref[p] \in retired \/ (Drained /\ ref[p] \in Installed)
      <3>1. CASE p = Main
        <4>1. Drained
          BY <3>1 DEF Drained
        <4>2. \A w \in Query : pc[w] = "idle"
          BY <4>1 DEF DrainedIdle, Drained, Query
        <4> QED
          BY <3>1, <4>1, <4>2 DEF Holders, Holding, ShutdownCloser, Closing, RefSet
      <3>2. CASE p # Main
        BY <3>2 DEF Proc, ClosersAlone, Closing, RefSet
      <3> QED
        BY <3>1, <3>2
    <2>2. Drained' = Drained /\ Installed' = Installed
      BY DEF Drained, TypeOK, Installed, Places
    <2> QED
      BY <1>1, <2>1, <2>2 DEF ClosedOutOfService, TypeOK
  <1>7. DrainedIdle'
    BY DEF DrainedIdle, Drained, TypeOK, Places, AfterClose
  <1> QED
    BY <1>2, <1>3, <1>4, <1>5, <1>6, <1>7

\* CloseEnd: the generation was already out of service when its closing began.
LEMMA CloseEndInv ==
    ASSUME IndInv, NEW p \in Proc, CloseEnd(p)
    PROVE  IndInv'
  <1> USE Kinds, GenAssumption DEF IndInv, Shape, CloseEnd, Goto
  <1>1. \A g : Holders(g)' = Holders(g)
    BY SameHolders DEF Holding, TypeOK, AfterClose
  <1>2. TypeOK'
    BY DEF TypeOK, AfterClose, RefSet
  <1>3. /\ Places' /\ RefSet' /\ BuiltApart' /\ ActiveInService'
        /\ LoadedActive' /\ HoldersInstalled' /\ ClosingMarked'
    BY DEF TypeOK, Places, RefSet, BuiltApart, ActiveInService, LoadedActive,
           HoldersInstalled,
           ClosingMarked, Holding, Installed, AfterClose
  <1>4. RefCountExact'
    BY <1>1 DEF RefCountExact
  <1>5. ClosersAlone' /\ ShutdownCloser' /\ OneCloser'
    BY <1>1 DEF ClosersAlone, ShutdownCloser, OneCloser, Closing, TypeOK, Installed,
           AfterClose
  <1>6. ClosedOutOfService'
    <2>1. Drained' = Drained /\ Installed' = Installed
      BY DEF Drained, TypeOK, Installed, Places, AfterClose, Proc
    <2>2. once[ref[p]] # "open"
      BY DEF ClosingMarked
    <2> QED
      BY <1>1, <2>1, <2>2 DEF ClosedOutOfService, TypeOK
  <1>7. DrainedIdle'
    BY DEF DrainedIdle, Drained, TypeOK, Places, AfterClose
  <1> QED
    BY <1>2, <1>3, <1>4, <1>5, <1>6, <1>7

\* CloseSkip: the loop of Close calls has run, the caller goes on.
LEMMA CloseSkipInv ==
    ASSUME IndInv, NEW p \in Proc, CloseSkip(p)
    PROVE  IndInv'
  <1> USE Kinds, GenAssumption DEF IndInv, Shape, CloseSkip, Goto
  <1>1. \A g : Holders(g)' = Holders(g)
    BY SameHolders DEF Holding, TypeOK, AfterClose
  <1>2. TypeOK'
    BY DEF TypeOK, AfterClose, RefSet
  <1>3. /\ Places' /\ RefSet' /\ BuiltApart' /\ ActiveInService'
        /\ LoadedActive' /\ HoldersInstalled' /\ ClosingMarked'
    BY DEF TypeOK, Places, RefSet, BuiltApart, ActiveInService, LoadedActive,
           HoldersInstalled,
           ClosingMarked, Holding, Installed, AfterClose
  <1>4. RefCountExact'
    BY <1>1 DEF RefCountExact
  <1>5. ClosersAlone' /\ ShutdownCloser' /\ OneCloser'
    BY <1>1 DEF ClosersAlone, ShutdownCloser, OneCloser, Closing, TypeOK, Installed,
           AfterClose
  <1>6. ClosedOutOfService'
    BY <1>1 DEF ClosedOutOfService, Drained, TypeOK, Places, Installed, AfterClose, RefSet,
           Closing,
                ClosersAlone, ShutdownCloser
  <1>7. DrainedIdle'
    BY DEF DrainedIdle, Drained, TypeOK, Places, AfterClose
  <1> QED
    BY <1>2, <1>3, <1>4, <1>5, <1>6, <1>7

\* ShutdownUdp: the UDP listener stops accepting.
LEMMA ShutdownUdpInv ==
    ASSUME IndInv, ShutdownUdp
    PROVE  IndInv'
  <1> USE Kinds, GenAssumption DEF IndInv, Shape, ShutdownUdp, Goto
  <1>1. \A g : Holders(g)' = Holders(g)
    BY SameHolders DEF Holding, TypeOK
  <1>2. TypeOK'
    BY DEF TypeOK, AfterClose, RefSet
  <1>3. /\ Places' /\ RefSet' /\ BuiltApart' /\ ActiveInService'
        /\ LoadedActive' /\ HoldersInstalled' /\ ClosingMarked'
    BY DEF TypeOK, Places, RefSet, BuiltApart, ActiveInService, LoadedActive,
           HoldersInstalled,
           ClosingMarked, Holding, Installed, AfterClose
  <1>4. RefCountExact'
    BY <1>1 DEF RefCountExact
  <1>5. ClosersAlone' /\ ShutdownCloser' /\ OneCloser'
    BY <1>1 DEF ClosersAlone, ShutdownCloser, OneCloser, Closing, TypeOK, Installed,
           AfterClose
  <1>6. ClosedOutOfService'
    BY <1>1 DEF ClosedOutOfService, Drained, TypeOK, Places, Installed, AfterClose, RefSet,
           Closing,
                ClosersAlone, ShutdownCloser
  <1>7. DrainedIdle'
    BY DEF DrainedIdle, Drained, TypeOK, Places, AfterClose
  <1> QED
    BY <1>2, <1>3, <1>4, <1>5, <1>6, <1>7

\* ShutdownHttp: the UDP handlers are gone when the HTTP server stops accepting.
LEMMA ShutdownHttpInv ==
    ASSUME IndInv, ShutdownHttp
    PROVE  IndInv'
  <1> USE Kinds, GenAssumption DEF IndInv, Shape, ShutdownHttp, Goto
  <1>1. \A g : Holders(g)' = Holders(g)
    BY SameHolders DEF Holding, TypeOK
  <1>2. TypeOK'
    BY DEF TypeOK, AfterClose, RefSet
  <1>3. /\ Places' /\ RefSet' /\ BuiltApart' /\ ActiveInService'
        /\ LoadedActive' /\ HoldersInstalled' /\ ClosingMarked'
    BY DEF TypeOK, Places, RefSet, BuiltApart, ActiveInService, LoadedActive,
           HoldersInstalled,
           ClosingMarked, Holding, Installed, AfterClose
  <1>4. RefCountExact'
    BY <1>1 DEF RefCountExact
  <1>5. ClosersAlone' /\ ShutdownCloser' /\ OneCloser'
    BY <1>1 DEF ClosersAlone, ShutdownCloser, OneCloser, Closing, TypeOK, Installed,
           AfterClose
  <1>6. ClosedOutOfService'
    BY <1>1 DEF ClosedOutOfService, Drained, TypeOK, Places, Installed, AfterClose, RefSet,
           Closing,
                ClosersAlone, ShutdownCloser
  <1>7. DrainedIdle'
    BY DEF DrainedIdle, Drained, TypeOK, Places, AfterClose
  <1> QED
    BY <1>2, <1>3, <1>4, <1>5, <1>6, <1>7

\* ShutdownClose: no query is left when Shutdown takes the active generation.
LEMMA ShutdownCloseInv ==
    ASSUME IndInv, ShutdownClose
    PROVE  IndInv'
  <1> USE Kinds, GenAssumption DEF IndInv, Shape, ShutdownClose, Goto
  <1>1. \A g : Holders(g)' = Holders(g)
    BY SameHolders DEF Holding, TypeOK
  <1>2. TypeOK'
    BY DEF TypeOK, AfterClose, RefSet
  <1>3. /\ Places' /\ RefSet' /\ BuiltApart' /\ ActiveInService'
        /\ LoadedActive' /\ HoldersInstalled' /\ ClosingMarked'
    BY DEF TypeOK, Places, RefSet, BuiltApart, ActiveInService, LoadedActive,
           HoldersInstalled,
           ClosingMarked, Holding, Installed, AfterClose
  <1>4. RefCountExact'
    BY <1>1 DEF RefCountExact
  <1>5. ClosersAlone' /\ ShutdownCloser' /\ OneCloser'
    BY <1>1 DEF ClosersAlone, ShutdownCloser, OneCloser, Closing, TypeOK, Installed,
           AfterClose
  <1>6. ClosedOutOfService'
    BY <1>1 DEF ClosedOutOfService, Drained, TypeOK, Places, Installed, AfterClose, RefSet,
           Closing,
                ClosersAlone, ShutdownCloser
  <1>7. DrainedIdle'
    BY DEF DrainedIdle, Drained, TypeOK, Places, AfterClose, HttpDrained
  <1> QED
    BY <1>2, <1>3, <1>4, <1>5, <1>6, <1>7

\* Expire touches the cache only.
LEMMA ExpireInv ==
    ASSUME IndInv, Expire
    PROVE  IndInv'
  <1> USE Kinds, GenAssumption DEF IndInv, Shape, Expire, Goto
  <1>1. \A g : Holders(g)' = Holders(g)
    BY SameHolders DEF Holding, TypeOK
  <1>2. TypeOK'
    BY DEF TypeOK, AfterClose, RefSet
  <1>3. /\ Places' /\ RefSet' /\ BuiltApart' /\ ActiveInService'
        /\ LoadedActive' /\ HoldersInstalled' /\ ClosingMarked'
    BY DEF TypeOK, Places, RefSet, BuiltApart, ActiveInService, LoadedActive,
           HoldersInstalled,
           ClosingMarked, Holding, Installed, AfterClose
  <1>4. RefCountExact'
    BY <1>1 DEF RefCountExact
  <1>5. ClosersAlone' /\ ShutdownCloser' /\ OneCloser'
    BY <1>1 DEF ClosersAlone, ShutdownCloser, OneCloser, Closing, TypeOK, Installed,
           AfterClose
  <1>6. ClosedOutOfService'
    BY <1>1 DEF ClosedOutOfService, Drained, TypeOK, Places, Installed, AfterClose, RefSet,
           Closing,
                ClosersAlone, ShutdownCloser
  <1>7. DrainedIdle'
    BY DEF DrainedIdle, Drained, TypeOK, Places, AfterClose
  <1> QED
    BY <1>2, <1>3, <1>4, <1>5, <1>6, <1>7

\* The read lock makes the counted generation the active one, which is open.
LEMMA AcquireIncInv ==
    ASSUME IndInv, NEW w \in Query, AcquireInc(w)
    PROVE  IndInv'
  <1> USE Kinds, GenAssumption DEF IndInv, Shape, AcquireInc, Goto
  <1>1. ref[w] = active /\ active \in Gen /\ active \notin retired
    BY DEF LoadedActive, TypeOK, ActiveInService
  <1>2. \A g : Holders(g)' = IF g = active THEN Holders(g) \cup {w} ELSE Holders(g)
    BY <1>1 DEF Holders, Holding, TypeOK
  <1>3. w \notin Holders(active)
    BY DEF Holders, Holding
  <1>4. TypeOK'
    BY <1>1 DEF TypeOK
  <1>5. /\ Places' /\ RefSet' /\ BuiltApart' /\ ActiveInService'
        /\ LoadedActive' /\ HoldersInstalled' /\ ClosingMarked'
    BY <1>1 DEF TypeOK, Places, RefSet, BuiltApart, ActiveInService, LoadedActive,
                HoldersInstalled, ClosingMarked, Holding, Installed
  <1>6. RefCountExact'
    <2>1. Cardinality(Holders(active) \cup {w}) = Cardinality(Holders(active)) + 1
      BY <1>3, HoldersFinite, FS_AddElement
    <2> QED
      BY <1>1, <1>2, <2>1 DEF RefCountExact, TypeOK
  <1>7. ClosersAlone' /\ ShutdownCloser' /\ OneCloser'
    BY <1>1, <1>2 DEF ClosersAlone, ShutdownCloser, OneCloser, Closing, TypeOK, Installed
  <1>8. ClosedOutOfService' /\ DrainedIdle'
    <2>1. ~Drained
      BY DEF DrainedIdle, Drained, Query
    <2>2. Drained' = Drained
      BY DEF Drained, TypeOK
    <2>3. ClosedOutOfService'
      BY <1>1, <1>2, <2>1, <2>2 DEF ClosedOutOfService, Installed
    <2> QED
      BY <2>3 DEF DrainedIdle, Drained, TypeOK, Places
  <1> QED
    BY <1>4, <1>5, <1>6, <1>7, <1>8

\* The last query out of a retired generation is alone in wanting to close it.
LEMMA ReleaseInv ==
    ASSUME IndInv, NEW w \in Query, Release(w)
    PROVE  IndInv'
  <1> DEFINE h == ref[w]
  <1> USE Kinds, GenAssumption DEF IndInv, Shape, Goto
  <1>1. /\ h \in Gen /\ w \in Holders(h) /\ h \in Installed
        /\ pc[w] = "answered"
        /\ inUse' = [inUse EXCEPT ![h] = @ - 1]
        /\ UNCHANGED <<active, retired, once, cached, ref>>
    BY DEF Release, RefSet, Holders, Holding, HoldersInstalled, Released
  <1>2. inUse'[h] = inUse[h] - 1 /\ inUse[h] = Cardinality(Holders(h))
    BY <1>1 DEF TypeOK, RefCountExact
  <1>3. pc' = [pc EXCEPT ![w] = IF h \in retired /\ inUse'[h] = 0 THEN "close" ELSE "idle"]
    BY <1>1 DEF Release, ShouldClose
  <1>4. \A g : Holders(g)' = IF g = h THEN Holders(g) \ {w} ELSE Holders(g)
    BY <1>1, <1>3 DEF Holders, Holding, TypeOK
  <1>5. Cardinality(Holders(h) \ {w}) = Cardinality(Holders(h)) - 1
    BY <1>1, HoldersFinite, FS_RemoveElement
  <1>6. pc'[w] = "close" => h \in retired /\ Holders(h)' = {}
    BY <1>1, <1>2, <1>3, <1>4, <1>5, HoldersFinite, FS_RemoveElement, FS_EmptySet DEF TypeOK
  <1>7. TypeOK'
    <2>1. inUse'[h] \in Nat
      BY <1>1, <1>2, <1>5, HoldersFinite, FS_RemoveElement, FS_CardinalityType
    <2> QED
      BY <1>1, <1>3, <2>1 DEF TypeOK
  <1>8. /\ Places' /\ RefSet' /\ BuiltApart' /\ ActiveInService'
        /\ LoadedActive' /\ HoldersInstalled' /\ ClosingMarked'
    BY <1>1, <1>3 DEF TypeOK, Places, RefSet, BuiltApart, ActiveInService, LoadedActive,
                      HoldersInstalled, ClosingMarked, Holding, Installed
  <1>9. RefCountExact'
    BY <1>1, <1>2, <1>4, <1>5 DEF RefCountExact, TypeOK
  <1>10. ClosersAlone' /\ OneCloser' /\ ShutdownCloser'
    <2>1. \A p \in Query \cup Swap : pc[p] \in Closing => ref[p] # h
      BY <1>1 DEF ClosersAlone
    <2>2. ClosersAlone'
      BY <1>1, <1>3, <1>4, <1>6, <2>1 DEF ClosersAlone, Closing, TypeOK
    <2>3. OneCloser'
      BY <1>1, <1>3, <2>1 DEF OneCloser, Closing, TypeOK
    <2> QED
      BY <1>1, <1>3, <2>2, <2>3 DEF ShutdownCloser, Closing, TypeOK, Installed
  <1>11. ClosedOutOfService' /\ DrainedIdle'
    <2>1. pc'[Main] = pc[Main] /\ Drained' = Drained
      BY <1>3 DEF Drained, TypeOK
    <2>2. ClosedOutOfService'
      BY <1>1, <1>4, <2>1 DEF ClosedOutOfService, Installed
    <2>3. DrainedIdle'
      BY <1>1, <1>3, <2>1 DEF DrainedIdle, Drained, TypeOK
    <2> QED
      BY <2>2, <2>3
  <1> QED
    BY <1>7, <1>8, <1>9, <1>10, <1>11

\* A swap installs under the write lock: no query is between its load and its
\* increment, and a generation it closes itself is empty for good.
LEMMA InstallInv ==
    ASSUME IndInv, NEW p \in Swap, Install(p)
    PROVE  IndInv'
  <1> DEFINE new == ref[p]
  <1> USE Kinds, GenAssumption DEF IndInv, Shape, Goto
  <1>1. /\ pc[p] = "built" /\ new \in Gen /\ new \notin Installed
        /\ \A w \in Query : pc[w] # "loaded"
        /\ active' = new /\ retired' = retired \cup {active}
        /\ ref' = [ref EXCEPT ![p] = active]
        /\ pc' = [pc EXCEPT ![p] = IF inUse[active] = 0 THEN "close" ELSE "clear"]
        /\ UNCHANGED <<inUse, once, cached>>
    BY DEF Install, RefSet, BuiltApart, WriteLockFree
  <1>2. \A g : Holders(g)' = Holders(g)
    BY <1>1, SameHolders DEF Holding, TypeOK
  <1>3. Installed' = Installed \cup {new}
    BY <1>1 DEF Installed
  <1>4. TypeOK'
    BY <1>1 DEF TypeOK
  <1>5. Places' /\ RefSet' /\ ActiveInService' /\ LoadedActive' /\ ClosingMarked'
    BY <1>1 DEF TypeOK, Places, RefSet, ActiveInService, LoadedActive, ClosingMarked,
           Installed
  <1>6. BuiltApart' /\ HoldersInstalled'
    BY <1>1, <1>3 DEF TypeOK, BuiltApart, HoldersInstalled, Holding
  <1>7. RefCountExact'
    BY <1>1, <1>2 DEF RefCountExact
  <1>8. ClosersAlone' /\ OneCloser' /\ ShutdownCloser'
    <2>1. pc'[p] \in Closing => Holders(active) = {}
      BY <1>1, HoldersFinite DEF RefCountExact, TypeOK, Closing
    <2>2. ClosersAlone'
      BY <1>1, <1>2, <2>1 DEF ClosersAlone, Closing, TypeOK
    <2>3. \A q \in Query \cup Swap : pc[q] \in Closing => ref[q] # active
      BY DEF ClosersAlone, ActiveInService
    <2>4. OneCloser'
      BY <1>1, <2>3 DEF OneCloser, Closing, TypeOK
    <2> QED
      BY <1>1, <1>3, <2>2, <2>4 DEF ShutdownCloser, Closing, TypeOK
  <1>9. ClosedOutOfService' /\ DrainedIdle'
    <2>1. pc'[Main] = pc[Main] /\ Drained' = Drained
      BY <1>1 DEF Drained, TypeOK
    <2>2. ClosedOutOfService'
      BY <1>1, <1>2, <1>3, <2>1 DEF ClosedOutOfService
    <2>3. DrainedIdle'
      BY <1>1, <2>1 DEF DrainedIdle, Drained, TypeOK
    <2> QED
      BY <2>2, <2>3
  <1> QED
    BY <1>4, <1>5, <1>6, <1>7, <1>8, <1>9

\* A step that changes nothing.
LEMMA StutterInv ==
    ASSUME IndInv, UNCHANGED vars
    PROVE  IndInv'
  BY DEF vars, IndInv, Shape, TypeOK, Places, RefSet, BuiltApart, ActiveInService,
         LoadedActive,
         HoldersInstalled, ClosingMarked, RefCountExact, ClosersAlone, ShutdownCloser, OneCloser,
         ClosedOutOfService, DrainedIdle, Drained, Installed, Holders, Holding, Closing

\* Every step of the server preserves the invariant.
THEOREM NextInv == IndInv /\ [Next]_vars => IndInv'
  <1> SUFFICES ASSUME IndInv, [Next]_vars PROVE IndInv'
    OBVIOUS
  <1>1. ASSUME NEW p \in Proc, Begin(p) \/ CloseStep(p) PROVE IndInv'
    BY <1>1, BeginInv, CloseBeginInv, CloseEndInv, CloseSkipInv DEF CloseStep
  <1>2. ASSUME NEW w \in Query, QueryStep(w) PROVE IndInv'
    BY <1>2, AcquireLoadInv, AcquireIncInv, AnswerInv, ReleaseInv DEF QueryStep
  <1>3. ASSUME NEW p \in Swap, SwapStep(p) PROVE IndInv'
    BY <1>3, BuildInv, InstallInv, ClearInv DEF SwapStep
  <1>4. CASE ShutdownUdp \/ MainStep \/ Expire
    BY <1>4, ShutdownUdpInv, ShutdownHttpInv, ShutdownCloseInv, ExpireInv DEF MainStep
  <1>5. CASE UNCHANGED vars
    BY <1>5, StutterInv
  <1> QED
    BY <1>1, <1>2, <1>3, <1>4, <1>5 DEF Next

\* The invariant holds in every reachable state.
THEOREM Invariance == Spec => []IndInv
  BY InitInv, NextInv, PTL DEF Spec

-----------------------------------------------------------------------------
(* The results.                                                            *)

\* Every variable keeps its type.
THEOREM TypeCorrect == Spec => []TypeOK
  <1>1. IndInv => TypeOK
    BY DEF IndInv, Shape
  <1> QED
    BY <1>1, Invariance, PTL

\* The counter of a generation is exact in every interleaving.
THEOREM CountingIsExact == Spec => []RefCountExact
  <1>1. IndInv => RefCountExact
    BY DEF IndInv
  <1> QED
    BY <1>1, Invariance, PTL

\* No query ever walks resolvers that are closing or closed.
THEOREM NeverClosedInUse == Spec => []NoUseAfterClose
  <1>1. IndInv => NoUseAfterClose
    BY DEF IndInv, Shape, ClosedOutOfService, NoUseAfterClose, Holders, Holding, RefSet,
           Query, Proc
  <1> QED
    BY <1>1, Invariance, PTL

\* A retired generation has at most one closer besides Shutdown.
THEOREM CloserIsUnique == Spec => []OneCloser
  <1>1. IndInv => OneCloser
    BY DEF IndInv
  <1> QED
    BY <1>1, Invariance, PTL

\* The count of a retired generation never grows.
THEOREM RetiredNeverEntered == Spec => RetiredOnlyDrains
  <1>1. IndInv /\ [Next]_vars => [\A g \in retired : inUse'[g] <= inUse[g]]_vars
    <2> SUFFICES ASSUME IndInv, Next, NEW g \in retired PROVE inUse'[g] <= inUse[g]
      BY DEF vars
    <2> USE DEF IndInv, Shape
    <2>1. inUse[g] \in Int /\ g # active
      BY DEF TypeOK, ActiveInService
    <2>2. ASSUME NEW w \in Query, AcquireInc(w) PROVE inUse'[g] <= inUse[g]
      BY <2>1, <2>2 DEF AcquireInc, LoadedActive, TypeOK
    <2>3. ASSUME NEW w \in Query, Release(w) PROVE inUse'[g] <= inUse[g]
      BY <2>1, <2>3 DEF Release, TypeOK
    <2>4. CASE inUse' = inUse
      BY <2>1, <2>4
    <2> QED
      BY <2>2, <2>3, <2>4 DEF Next, QueryStep, SwapStep, CloseStep, MainStep, Begin,
             AcquireLoad, Answer,
         Build, Install, Clear, CloseBegin, CloseEnd, CloseSkip, ShutdownUdp, ShutdownHttp,
         ShutdownClose, Expire
  <1> QED
    BY <1>1, Invariance, PTL DEF Spec, RetiredOnlyDrains
-----------------------------------------------------------------------------
(* The refinement of GenLifecycle, but for its fairness.                   *)

\* What a generation is to a query and a swap: a step that moves no query in or
\* out, installs nothing, closes nothing and leaves the drains alone is none.
LEMMA LifecycleStutter ==
    ASSUME IndInv, UNCHANGED <<active, retired>>, Drained' = Drained,
           \A g : Holders(g)' = Holders(g),
           \A g \in Gen : once'[g] = "open" <=> once[g] = "open"
    PROVE  UNCHANGED Lifecycle!vars
  BY DEF Lifecycle!vars, Installed

\* A server that Create has returned runs one generation, with nobody inside.
LEMMA InitRefines == Init => Lifecycle!Init
  <1> SUFFICES ASSUME Init PROVE Lifecycle!Init
    OBVIOUS
  <1>1. \A g \in Gen : Holders(g) = {}
    BY Kinds DEF Init, Holders, Holding
  <1>2. Installed = {active} /\ ~Drained /\ {g \in Gen : once[g] # "open"} = {}
    BY Kinds DEF Init, Installed, Drained
  <1> QED
    BY <1>1, <1>2 DEF Init, Lifecycle!Init

\* A query is inside no generation but the one it holds.
LEMMA InsideHeld ==
    ASSUME IndInv, NEW w \in Query
    PROVE  Lifecycle!Inside(w) = IF pc[w] \in Holding THEN {ref[w]} ELSE {}
  BY Kinds DEF Lifecycle!Inside, IndInv, Shape, RefSet, HoldersInstalled, Holders,
         Installed,
               TypeOK, Holding

\* The increment is the entry: the generation is current and open.
LEMMA AcquireIncRefines ==
    ASSUME IndInv, NEW w \in Query, AcquireInc(w)
    PROVE  Lifecycle!Enter(w)
  <1> USE Kinds, GenAssumption DEF IndInv, Shape, AcquireInc, Goto
  <1>1. ref[w] = active /\ active \in Gen /\ active \notin retired
    BY DEF LoadedActive, TypeOK, ActiveInService
  <1>2. ~Drained /\ Drained' = Drained
    BY DEF DrainedIdle, Drained, Query, TypeOK
  <1>3. Lifecycle!Inside(w) = {}
    BY InsideHeld DEF Holding
  <1>4. once[active] = "open"
    BY <1>1, <1>2 DEF ClosedOutOfService
  <1>5. \A g : Holders(g)' = IF g = active THEN Holders(g) \cup {w} ELSE Holders(g)
    BY <1>1 DEF Holders, Holding, TypeOK
  <1>6. [g \in Gen |-> Holders(g)]'
          = [[g \in Gen |-> Holders(g)] EXCEPT ![active] = Holders(active) \cup {w}]
    BY <1>1, <1>5
  <1> QED
    BY <1>1, <1>2, <1>3, <1>4, <1>6 DEF Lifecycle!Enter, Installed

\* The decrement is the leave.
LEMMA ReleaseRefines ==
    ASSUME IndInv, NEW w \in Query, Release(w)
    PROVE  Lifecycle!Leave(w)
  <1> USE Kinds DEF IndInv, Shape, Release, Goto
  <1>1. ref[w] \in Gen /\ Lifecycle!Inside(w) = {ref[w]}
    BY InsideHeld DEF RefSet, Holding
  <1>2. \A g : Holders(g)' = IF g = ref[w] THEN Holders(g) \ {w} ELSE Holders(g)
    BY DEF Holders, Holding, TypeOK
  <1>3. [g \in Gen |-> Holders(g)]'
          = [[g \in Gen |-> Holders(g)] EXCEPT ![ref[w]] = Holders(ref[w]) \ {w}]
    BY <1>1, <1>2
  <1>4. Drained' = Drained
    BY DEF Drained, TypeOK
  <1> QED
    BY <1>1, <1>3, <1>4 DEF Lifecycle!Leave, Installed

\* A swap replaces the current generation by one that was never installed.
LEMMA InstallRefines ==
    ASSUME IndInv, NEW p \in Swap, Install(p)
    PROVE  Lifecycle!Replace
  <1> USE Kinds DEF IndInv, Shape, Install, Goto
  <1>1. active' = ref[p] /\ ref[p] \in Gen \ Installed
    BY DEF RefSet, BuiltApart
  <1>2. Installed' = Installed \cup {active'}
    BY DEF Installed
  <1>3. \A g : Holders(g)' = Holders(g)
    BY SameHolders DEF Holding, TypeOK
  <1>4. Drained' = Drained
    BY DEF Drained, TypeOK
  <1> QED
    BY <1>1, <1>2, <1>3, <1>4 DEF Lifecycle!Replace

\* Whoever runs the Close calls, the generation is empty and out of service.
LEMMA CloseBeginRefines ==
    ASSUME IndInv, NEW p \in Proc, CloseBegin(p)
    PROVE  \E g \in Gen : Lifecycle!Close(g)
  <1> USE Kinds DEF IndInv, Shape, CloseBegin, Goto
  <1>1. ref[p] \in Gen /\ once[ref[p]] = "open"
    BY DEF RefSet, Once
  <1>2. /\ Holders(ref[p]) = {} /\ ref[p] \in Installed
        /\ ref[p] # active \/ Drained
    <2>1. CASE p = Main
      <3>1. Drained
        BY <2>1 DEF Drained
      <3>2. \A w \in Query : pc[w] = "idle"
        BY <3>1 DEF DrainedIdle, Drained, Query
      <3> QED
        BY <2>1, <3>1, <3>2 DEF Holders, Holding, ShutdownCloser, Closing
    <2>2. CASE p # Main
      BY <2>2 DEF Proc, ClosersAlone, Closing, ActiveInService, Installed
    <2> QED
      BY <2>1, <2>2
  <1>3. \A g : Holders(g)' = Holders(g)
    BY SameHolders DEF Holding, TypeOK
  <1>4. Drained' = Drained /\ Installed' = Installed
    BY DEF Drained, TypeOK, Installed, Places
  <1>5. {g \in Gen : once[g] # "open"}' = {g \in Gen : once[g] # "open"} \cup {ref[p]}
    BY <1>1 DEF TypeOK
  <1>6. PICK g \in Gen : g = ref[p]
    BY <1>1
  <1>7. Lifecycle!Close(g)
    BY <1>1, <1>2, <1>3, <1>4, <1>5, <1>6 DEF Lifecycle!Close
  <1> QED
    BY <1>7

\* Shutdown takes the active generation when both listeners are drained.
LEMMA ShutdownCloseRefines ==
    ASSUME IndInv, ShutdownClose
    PROVE  Lifecycle!Stop
  <1> USE Kinds DEF IndInv, Shape, ShutdownClose, Goto
  <1>1. \A w \in Query : pc[w] = "idle"
    BY DEF DrainedIdle, HttpDrained, Query
  <1>2. \A g : Holders(g) = {}
    BY <1>1 DEF Holders, Holding
  <1>3. \A g : Holders(g)' = Holders(g)
    BY SameHolders DEF Holding, TypeOK
  <1>4. ~Drained /\ Drained'
    BY DEF Drained, TypeOK
  <1>5. Installed \subseteq Gen /\ Installed' = Installed
    BY DEF Installed, TypeOK
  <1> QED
    BY <1>2, <1>3, <1>4, <1>5 DEF Lifecycle!Stop

\* Every other step of the server is none of the life cycle.
LEMMA OthersStutter ==
    ASSUME IndInv,
           \/ \E p \in Proc : Begin(p) \/ CloseEnd(p) \/ CloseSkip(p)
           \/ \E w \in Query : AcquireLoad(w) \/ Answer(w)
           \/ \E p \in Swap : Build(p) \/ Clear(p)
           \/ ShutdownUdp \/ ShutdownHttp \/ Expire \/ UNCHANGED vars
    PROVE  UNCHANGED Lifecycle!vars
  <1> USE Kinds DEF IndInv, Shape, Goto
  <1>1. ASSUME NEW p \in Proc, Begin(p)
        PROVE  UNCHANGED Lifecycle!vars
    <2>1. \A g : Holders(g)' = Holders(g)
      BY <1>1, SameHolders DEF Begin, Holding, TypeOK
    <2>2. Drained' = Drained
      BY <1>1 DEF Begin, Drained, TypeOK
    <2> QED
      BY <1>1, <2>1, <2>2, LifecycleStutter DEF Begin
  <1>2. ASSUME NEW p \in Proc, CloseEnd(p)
        PROVE  UNCHANGED Lifecycle!vars
    <2>1. \A g : Holders(g)' = Holders(g)
      BY <1>2, SameHolders DEF CloseEnd, Holding, TypeOK, AfterClose
    <2>2. Drained' = Drained
      BY <1>2 DEF CloseEnd, Drained, TypeOK, AfterClose, Proc
    <2>3. \A g \in Gen : once'[g] = "open" <=> once[g] = "open"
      BY <1>2 DEF CloseEnd, ClosingMarked, TypeOK
    <2> QED
      BY <1>2, <2>1, <2>2, <2>3, LifecycleStutter DEF CloseEnd
  <1>3. ASSUME NEW p \in Proc, CloseSkip(p)
        PROVE  UNCHANGED Lifecycle!vars
    <2>1. \A g : Holders(g)' = Holders(g)
      BY <1>3, SameHolders DEF CloseSkip, Holding, TypeOK, AfterClose
    <2>2. Drained' = Drained
      BY <1>3 DEF CloseSkip, Drained, TypeOK, AfterClose, Proc
    <2> QED
      BY <1>3, <2>1, <2>2, LifecycleStutter DEF CloseSkip
  <1>4. ASSUME NEW w \in Query, AcquireLoad(w) \/ Answer(w)
        PROVE  UNCHANGED Lifecycle!vars
    <2>1. \A g : Holders(g)' = Holders(g)
      BY <1>4, SameHolders DEF AcquireLoad, Answer, Holding, TypeOK
    <2>2. Drained' = Drained
      BY <1>4 DEF AcquireLoad, Answer, Drained, TypeOK
    <2> QED
      BY <1>4, <2>1, <2>2, LifecycleStutter DEF AcquireLoad, Answer
  <1>5. ASSUME NEW p \in Swap, Build(p) \/ Clear(p)
        PROVE  UNCHANGED Lifecycle!vars
    <2>1. \A g : Holders(g)' = Holders(g)
      BY <1>5, SameHolders DEF Build, Clear, Holding, TypeOK
    <2>2. Drained' = Drained
      BY <1>5 DEF Build, Clear, Drained, TypeOK
    <2> QED
      BY <1>5, <2>1, <2>2, LifecycleStutter DEF Build, Clear
  <1>6. CASE ShutdownUdp \/ ShutdownHttp \/ Expire
    <2>1. \A g : Holders(g)' = Holders(g)
      BY <1>6, SameHolders DEF ShutdownUdp, ShutdownHttp, Expire, Holding, TypeOK
    <2>2. Drained' = Drained
      BY <1>6 DEF ShutdownUdp, ShutdownHttp, Expire, Drained, TypeOK
    <2> QED
      BY <1>6, <2>1, <2>2, LifecycleStutter DEF ShutdownUdp, ShutdownHttp, Expire
  <1>7. CASE UNCHANGED vars
    BY <1>7, SameHolders, LifecycleStutter DEF vars, Drained
  <1> QED
    BY <1>1, <1>2, <1>3, <1>4, <1>5, <1>6, <1>7

\* Every step is one of the life cycle or none.
LEMMA StepRefines == IndInv /\ [Next]_vars => [Lifecycle!Next]_Lifecycle!vars
  <1> SUFFICES ASSUME IndInv, [Next]_vars PROVE [Lifecycle!Next]_Lifecycle!vars
    OBVIOUS
  <1>1. ASSUME NEW w \in Query, AcquireInc(w) PROVE Lifecycle!Next
    BY <1>1, AcquireIncRefines DEF Lifecycle!Next
  <1>2. ASSUME NEW w \in Query, Release(w) PROVE Lifecycle!Next
    BY <1>2, ReleaseRefines DEF Lifecycle!Next
  <1>3. ASSUME NEW p \in Swap, Install(p) PROVE Lifecycle!Next
    BY <1>3, InstallRefines DEF Lifecycle!Next
  <1>4. ASSUME NEW p \in Proc, CloseBegin(p) PROVE Lifecycle!Next
    BY <1>4, CloseBeginRefines DEF Lifecycle!Next
  <1>5. CASE ShutdownClose
    BY <1>5, ShutdownCloseRefines DEF Lifecycle!Next
  <1> QED
    BY <1>1, <1>2, <1>3, <1>4, <1>5, OthersStutter
       DEF Next, CloseStep, QueryStep, SwapStep, MainStep

\* The safety of the life cycle: a query enters the current generation and no
\* other, which is open, and a generation is closed once, empty, and out of
\* service (server.go:56-170).  That it is closed in the end is fairness.
THEOREM FollowsLifecycle == Spec => Lifecycle!Init /\ [][Lifecycle!Next]_Lifecycle!vars
  BY InitRefines, StepRefines, Invariance, PTL DEF Spec

-----------------------------------------------------------------------------
(* Nothing is left open behind a stopped server.                           *)

\* The POST handlers are drained with the other handlers of the HTTP server.
SwapsDrained == Drained => \A p \in HttpSwap : pc[p] = "idle"

\* A retired generation that is not closed yet has somebody who will see to it:
\* a query inside, or one on its way to close it.
RetiredWatched == \A g \in retired : \/ once[g] = "closed"
                                     \/ Holders(g) # {}
                                     \/ \E p \in Proc : pc[p] \in Closing /\ ref[p] = g

\* Shutdown closes the generation that was active when the drains were over.
ShutdownCloses == /\ Drained /\ WatcherKeptOut => ref[Main] = active
                  /\ pc[Main] = "stopped" => ref[Main] \in Gen /\ once[ref[Main]] = "closed"

LeakInv == SwapsDrained /\ RetiredWatched /\ ShutdownCloses

\* A drain waits for the POST handlers, and none begins behind it.
LEMMA NextSwapsDrained ==
    ASSUME IndInv, SwapsDrained, Next
    PROVE  SwapsDrained'
  <1> USE Kinds DEF IndInv, Shape, Goto, Swap
  <1>1. ASSUME NEW p \in Proc, Begin(p) \/ CloseStep(p)
        PROVE  SwapsDrained'
    <2>1. CASE p = Main
      BY <1>1, <2>1 DEF Begin, CloseStep, CloseBegin, CloseEnd, CloseSkip, AfterClose,
             SwapsDrained,
                        Drained, TypeOK
    <2>2. CASE p # Main
      <3>1. Drained' = Drained
        BY <1>1, <2>2 DEF Begin, CloseStep, CloseBegin, CloseEnd, CloseSkip, Drained, TypeOK
      <3>2. Drained /\ p \in HttpSwap => FALSE
        <4>1. Drained => ~(pc[Main] \in {"running", "drainUdp"})
          BY DEF Drained
        <4>2. p \in HttpSwap => p \notin UdpQuery
          BY ProcAssumption DEF Query
        <4>3. Drained /\ p \in HttpSwap => pc[p] = "idle"
          BY DEF SwapsDrained
        <4> QED
          BY <1>1, <4>1, <4>2, <4>3 DEF Begin, CloseStep, CloseBegin, CloseEnd, CloseSkip,
                 Accepting
      <3>3. \A q \in HttpSwap : q # p => pc'[q] = pc[q]
        BY <1>1 DEF Begin, CloseStep, CloseBegin, CloseEnd, CloseSkip, TypeOK
      <3> QED
        BY <3>1, <3>2, <3>3 DEF SwapsDrained
    <2> QED
      BY <2>1, <2>2
  <1>2. ASSUME NEW w \in Query, QueryStep(w)
        PROVE  SwapsDrained'
    BY <1>2 DEF QueryStep, AcquireLoad, AcquireInc, Answer, Release, SwapsDrained, Drained,
           TypeOK
  <1>3. ASSUME NEW p \in Swap, SwapStep(p)
        PROVE  SwapsDrained'
    BY <1>3 DEF SwapStep, Build, Install, Clear, SwapsDrained, Drained, TypeOK
  <1>4. CASE ShutdownUdp \/ ShutdownHttp \/ Expire
    BY <1>4 DEF ShutdownUdp, ShutdownHttp, Expire, SwapsDrained, Drained, TypeOK
  <1>5. CASE ShutdownClose
    BY <1>5 DEF ShutdownClose, HttpDrained, SwapsDrained, TypeOK
  <1> QED
    BY <1>1, <1>2, <1>3, <1>4, <1>5 DEF Next, MainStep

\* Whoever leaves a retired generation empty sets out to close it, and goes on
\* until it is closed.
LEMMA NextRetiredWatched ==
    ASSUME IndInv, RetiredWatched, Next
    PROVE  RetiredWatched'
  <1> USE Kinds DEF IndInv, Shape, Goto
  <1>1. ASSUME NEW p \in Proc, CloseBegin(p)
        PROVE  RetiredWatched'
    <2>1. \A g : Holders(g)' = Holders(g)
      BY <1>1, SameHolders DEF CloseBegin, Holding, TypeOK
    <2>2. /\ retired' = retired /\ ref' = ref
          /\ \A q \in Proc : pc[q] \in Closing => pc'[q] \in Closing
          /\ \A g \in Gen : once[g] = "closed" => once'[g] = "closed"
      BY <1>1 DEF CloseBegin, Closing, TypeOK, Once
    <2>3. retired \subseteq Gen
      BY DEF TypeOK
    <2> QED
      BY <2>1, <2>2, <2>3 DEF RetiredWatched
  <1>2. ASSUME NEW p \in Proc, CloseEnd(p) \/ CloseSkip(p)
        PROVE  RetiredWatched'
    <2>1. \A g : Holders(g)' = Holders(g)
      BY <1>2, SameHolders DEF CloseEnd, CloseSkip, Holding, TypeOK, AfterClose
    <2>2. /\ retired' = retired /\ ref' = ref /\ ref[p] \in Gen
          /\ \A q \in Proc : q # p => pc'[q] = pc[q]
          /\ \A g \in Gen : once[g] = "closed" => once'[g] = "closed"
          /\ once'[ref[p]] = "closed"
      BY <1>2 DEF CloseEnd, CloseSkip, TypeOK, RefSet
    <2>3. retired \subseteq Gen
      BY DEF TypeOK
    <2> QED
      BY <2>1, <2>2, <2>3 DEF RetiredWatched
  <1>3. ASSUME NEW w \in Query, Release(w)
        PROVE  RetiredWatched'
    <2>7. PICK h \in Gen : h = ref[w]
      BY <1>3 DEF Release, RefSet
    <2>1. /\ w \in Holders(h) /\ inUse[h] = Cardinality(Holders(h))
          /\ retired' = retired /\ ref' = ref /\ once' = once
          /\ inUse'[h] = inUse[h] - 1
      BY <1>3, <2>7 DEF Release, Released, RefSet, Holders, Holding, TypeOK, RefCountExact
    <2>2. \A g : Holders(g)' = IF g = h THEN Holders(g) \ {w} ELSE Holders(g)
      BY <1>3, <2>7 DEF Release, Holders, Holding, TypeOK
    <2>3. h \in retired /\ Holders(h)' = {} => pc'[w] = "close"
      <3>1. Holders(h)' = {} => Cardinality(Holders(h)) = 1
        <4>1. Cardinality(Holders(h) \ {w}) = Cardinality(Holders(h)) - 1
          BY <2>1, HoldersFinite, FS_RemoveElement
        <4>2. Cardinality(Holders(h)) \in Nat
          BY HoldersFinite
        <4>3. Holders(h)' = {} => Cardinality(Holders(h) \ {w}) = 0
          BY <2>2, FS_EmptySet
        <4> QED
          BY <4>1, <4>2, <4>3
      <3>2. h \in retired /\ Holders(h)' = {} => ShouldClose(h, inUse'[h])
        BY <2>1, <3>1 DEF ShouldClose
      <3> QED
        BY <1>3, <2>7, <3>2 DEF Release, TypeOK
    <2>4. \A q \in Proc : q # w => pc'[q] = pc[q]
      BY <1>3, <2>7 DEF Release, TypeOK
    <2>5. pc[w] \notin Closing
      BY <1>3, <2>7 DEF Release, Closing
    <2>6. ASSUME NEW g \in retired
          PROVE  \/ once[g] = "closed" \/ Holders(g)' # {}
                 \/ \E q \in Proc : pc'[q] \in Closing /\ ref[q] = g
      <3>1. CASE g = h
        BY <2>3, <2>7, <3>1 DEF Closing
      <3>2. CASE g # h
        BY <2>2, <2>4, <2>5, <3>2 DEF RetiredWatched
      <3> QED
        BY <3>1, <3>2
    <2> QED
      BY <2>1, <2>6 DEF RetiredWatched
  <1>4. ASSUME NEW p \in Swap, Install(p)
        PROVE  RetiredWatched'
    <2>1. /\ retired' = retired \cup {active} /\ once' = once /\ ref'[p] = active
          /\ pc'[p] = IF inUse[active] = 0 THEN "close" ELSE "clear"
          /\ \A q \in Proc : q # p => pc'[q] = pc[q] /\ ref'[q] = ref[q]
          /\ pc[p] \notin Closing
      BY <1>4 DEF Install, TypeOK, Closing
    <2>2. \A g : Holders(g)' = Holders(g)
      BY <1>4, SameHolders DEF Install, Holding, TypeOK
    <2>3. inUse[active] = 0 \/ Holders(active) # {}
      BY HoldersFinite DEF RefCountExact, TypeOK
    <2>4. ASSUME NEW g \in retired'
          PROVE  \/ once[g] = "closed" \/ Holders(g) # {}
                 \/ \E q \in Proc : pc'[q] \in Closing /\ ref'[q] = g
      <3>1. CASE g = active
        BY <2>1, <2>3, <3>1 DEF Closing
      <3>2. CASE g # active
        BY <2>1, <3>2 DEF RetiredWatched
      <3> QED
        BY <3>1, <3>2
    <2> QED
      BY <2>1, <2>2, <2>4 DEF RetiredWatched
  <1>5. ASSUME NEW w \in Query, AcquireInc(w)
        PROVE  RetiredWatched'
    <2>1. \A g : Holders(g) \subseteq Holders(g)'
      BY <1>5 DEF AcquireInc, Holders, Holding, TypeOK
    <2>2. /\ retired' = retired /\ ref' = ref /\ once' = once
          /\ \A q \in Proc : pc[q] \in Closing => pc'[q] \in Closing
      BY <1>5 DEF AcquireInc, Closing, TypeOK
    <2> QED
      BY <2>1, <2>2 DEF RetiredWatched
  <1>6. ASSUME NEW p \in Proc,
               \/ Begin(p) \/ ShutdownUdp \/ ShutdownHttp \/ ShutdownClose \/ Expire
               \/ p \in Query /\ (AcquireLoad(p) \/ Answer(p))
               \/ p \in Swap /\ (Build(p) \/ Clear(p))
        PROVE  RetiredWatched'
    <2>1. \A g : Holders(g)' = Holders(g)
      BY <1>6, SameHolders DEF Begin, ShutdownUdp, ShutdownHttp, ShutdownClose, Expire,
             AcquireLoad,
                               Answer, Build, Clear, Holding, TypeOK
    <2>2. /\ retired' = retired /\ once' = once
          /\ \A q \in Proc : pc[q] \in Closing => pc'[q] \in Closing /\ ref'[q] = ref[q]
      BY <1>6 DEF Begin, ShutdownUdp, ShutdownHttp, ShutdownClose, Expire, AcquireLoad,
             Answer, Build,
                  Clear, Closing, TypeOK
    <2> QED
      BY <2>1, <2>2 DEF RetiredWatched
  <1> QED
    BY <1>1, <1>2, <1>3, <1>4, <1>5, <1>6
       DEF Next, CloseStep, QueryStep, SwapStep, MainStep

\* Only a swap of the watcher can install behind the drains, and it leaves its
\* pointer set.
LEMMA NextShutdownCloses ==
    ASSUME IndInv, SwapsDrained, ShutdownCloses, Next
    PROVE  ShutdownCloses'
  <1> USE Kinds, GenAssumption DEF IndInv, Shape, Goto
  <1>1. ReloadSwap \subseteq Proc /\ Main \notin ReloadSwap
    BY DEF Swap
  <1>2. ASSUME NEW p \in Proc, Begin(p) \/ CloseStep(p)
        PROVE  ShutdownCloses'
    <2>1. active' = active /\ ref' = ref /\ Drained' = Drained
      BY <1>2 DEF Begin, CloseStep, CloseBegin, CloseEnd, CloseSkip, Drained, AfterClose,
             TypeOK, Proc
    <2>2. \A g \in Gen : once[g] = "closed" => once'[g] = "closed"
      BY <1>2 DEF Begin, CloseStep, CloseBegin, CloseEnd, CloseSkip, Once, TypeOK
    <2>3. pc'[Main] = "stopped" => ref[Main] \in Gen /\ once'[ref[Main]] = "closed"
      <3>1. CASE p = Main
        BY <1>2, <3>1 DEF Begin, CloseStep, CloseBegin, CloseEnd, CloseSkip, TypeOK, RefSet
      <3>2. CASE p # Main
        <4>1. pc'[Main] = pc[Main]
          BY <1>2, <3>2 DEF Begin, CloseStep, CloseBegin, CloseEnd, CloseSkip, TypeOK
        <4> QED
          BY <2>2, <4>1 DEF ShutdownCloses
      <3> QED
        BY <3>1, <3>2
    <2> QED
      BY <2>1, <2>3 DEF ShutdownCloses, WatcherKeptOut
  <1>3. ASSUME NEW w \in Query, QueryStep(w)
        PROVE  ShutdownCloses'
    <2>1. /\ active' = active /\ once' = once /\ Drained' = Drained /\ pc'[Main] = pc[Main]
          /\ \A q \in Proc : q # w => ref'[q] = ref[q]
      BY <1>3 DEF QueryStep, AcquireLoad, AcquireInc, Answer, Release, Drained, TypeOK
    <2>2. WatcherKeptOut' => WatcherKeptOut
      BY <1>1, <2>1 DEF WatcherKeptOut, Swap
    <2> QED
      BY <2>1, <2>2 DEF ShutdownCloses
  <1>4. ASSUME NEW p \in Swap, SwapStep(p)
        PROVE  ShutdownCloses'
    <2>1. /\ once' = once /\ Drained' = Drained /\ pc'[Main] = pc[Main]
          /\ \A q \in Proc : q # p => ref'[q] = ref[q]
      BY <1>4 DEF SwapStep, Build, Install, Clear, Drained, TypeOK
    <2>2. CASE p \in HttpSwap
      <3>1. Drained => FALSE
        BY <1>4, <2>2 DEF SwapsDrained, SwapStep, Build, Install, Clear
      <3> QED
        BY <2>1, <3>1 DEF ShutdownCloses, Drained
    <2>3. CASE p \in ReloadSwap
      <3>1. WatcherKeptOut' => WatcherKeptOut /\ active' = active
        <4>1. CASE Install(p)
          <5>1. ref'[p] = active /\ active # NoGen
            BY <4>1 DEF Install, TypeOK
          <5> QED
            BY <2>3, <5>1 DEF WatcherKeptOut
        <4>2. CASE Build(p)
          <5>1. ref'[p] = ref[p] \/ ref'[p] # NoGen
            BY <4>2 DEF Build, Fresh, TypeOK
          <5>2. active' = active
            BY <4>2 DEF Build
          <5> QED
            BY <1>1, <2>1, <2>3, <5>1, <5>2 DEF WatcherKeptOut
        <4>3. CASE Clear(p)
          BY <4>3 DEF Clear, WatcherKeptOut
        <4> QED
          BY <1>4, <4>1, <4>2, <4>3 DEF SwapStep
      <3> QED
        BY <2>1, <3>1 DEF ShutdownCloses
    <2> QED
      BY <2>2, <2>3 DEF Swap
  <1>5. CASE ShutdownUdp \/ ShutdownHttp \/ Expire
    BY <1>5 DEF ShutdownUdp, ShutdownHttp, Expire, ShutdownCloses, WatcherKeptOut, Drained,
           TypeOK
  <1>6. CASE ShutdownClose
    BY <1>6 DEF ShutdownClose, ShutdownCloses, TypeOK
  <1> QED
    BY <1>2, <1>3, <1>4, <1>5, <1>6 DEF Next, MainStep

\* A server that has stopped has closed every generation it ever ran, except
\* what the watcher is closing or has installed behind Shutdown's back.
THEOREM NothingIsLeaked == Spec => []NothingLeaked
  <1>1. Init => LeakInv
    BY Kinds, ProcAssumption
       DEF Init, LeakInv, SwapsDrained, RetiredWatched, ShutdownCloses, Drained, Swap
  <1>2. IndInv /\ LeakInv /\ [Next]_vars => LeakInv'
    <2> SUFFICES ASSUME IndInv, LeakInv, [Next]_vars PROVE LeakInv'
      OBVIOUS
    <2>1. CASE Next
      BY <2>1, NextSwapsDrained, NextRetiredWatched, NextShutdownCloses DEF LeakInv
    <2>2. CASE UNCHANGED vars
      BY <2>2 DEF vars, LeakInv, SwapsDrained, RetiredWatched, ShutdownCloses, Drained,
             Holders,
                  WatcherKeptOut, Closing
    <2> QED
      BY <2>1, <2>2
  <1>3. IndInv /\ LeakInv => NothingLeaked
    <2> SUFFICES ASSUME IndInv, LeakInv, pc[Main] = "stopped", NEW g \in Installed
                 PROVE  \/ once[g] = "closed"
                        \/ InstalledLate(g)
                        \/ \E p \in ReloadSwap : pc[p] \in Closing /\ ref[p] = g
      BY DEF NothingLeaked
    <2> USE Kinds, GenAssumption DEF IndInv, Shape
    <2>1. Drained /\ \A w \in Query : pc[w] = "idle"
      BY DEF Drained, DrainedIdle, Query
    <2>2. \A p \in Proc : pc[p] \in Closing => p \in ReloadSwap
      BY <2>1 DEF LeakInv, SwapsDrained, Proc, Swap, Closing
    <2>3. Holders(g) = {}
      BY <2>1 DEF Holders, Holding
    <2>4. CASE g = active
      BY <2>1, <2>4 DEF LeakInv, ShutdownCloses, InstalledLate
    <2>5. CASE g \in retired
      BY <2>2, <2>3, <2>5 DEF LeakInv, RetiredWatched
    <2> QED
      BY <2>4, <2>5 DEF Installed
  <1> QED
    BY <1>1, <1>2, <1>3, Invariance, PTL DEF Spec
=============================================================================
