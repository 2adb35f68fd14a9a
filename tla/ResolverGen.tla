---------------------------- MODULE ResolverGen -----------------------------
(***************************************************************************)
(* The resolver generations of one DnsSwitchyServer (server.go): queries   *)
(* pin the active generation, swaps retire it, Shutdown closes the last    *)
(* one, and the resolvers of a generation are closed by whoever finds that *)
(* nobody needs them any more.                                             *)
(*                                                                         *)
(* A process is a goroutine: a UDP handler, an HTTP handler of /api/query, *)
(* an HTTP handler of POST /api/config, the file watcher running Reload,   *)
(* or the main loop running Shutdown.  The UDP listener is bound: Shutdown *)
(* of a server that is not listening yet belongs to the server's           *)
(* lifecycle.  dnsCache is the entry of one question, with the generation  *)
(* that produced the answer as its content.                                *)
(***************************************************************************)
EXTENDS Integers, FiniteSets

CONSTANTS UdpQuery, HttpQuery,   \* handlers of dnsMsgHandler, apiQueryHandler
          HttpSwap, ReloadSwap,  \* POST /api/config handlers, the file watcher
          Main,                  \* the main loop, which runs Shutdown
          Gen,                   \* addresses of resolverGen values
          NoGen

Query == UdpQuery \cup HttpQuery
Swap == HttpSwap \cup ReloadSwap
Proc == Query \cup Swap \cup {Main}

ASSUME GenAssumption == NoGen \notin Gen
ASSUME QueryAssumption == IsFiniteSet(Query) /\ UdpQuery \cap HttpQuery = {}
ASSUME ProcAssumption == /\ Query \cap Swap = {}
                         /\ HttpSwap \cap ReloadSwap = {}
                         /\ Main \notin Query \cup Swap

VARIABLES active,   \* s.gen
          inUse,    \* resolverGen.inUse
          retired,  \* the generations with resolverGen.retired
          once,     \* resolverGen.closeOnce: open, closing or closed
          cached,   \* the generation whose answer dnsCache holds, or NoGen
          pc,       \* where each process is
          ref       \* the generation its local variable points to

vars == <<active, inUse, retired, once, cached, pc, ref>>

Closing == {"close", "closing"}          \* inside closeAll
Holding == {"resolving", "answered"}     \* between acquireGen and releaseGen
Holders(g) == {w \in Query : pc[w] \in Holding /\ ref[w] = g}
Installed == {active} \cup retired
Fresh == {g \in Gen : g \notin Installed
                      /\ \A p \in Swap : pc[p] = "built" => ref[p] # g}

\* Create stores the first generation (server.go:416).
Init == /\ active \in Gen
        /\ inUse = [g \in Gen |-> 0]
        /\ retired = {}
        /\ once = [g \in Gen |-> "open"]
        /\ cached = NoGen
        /\ pc = [p \in Proc |-> IF p = Main THEN "running" ELSE "idle"]
        /\ ref = [p \in Proc |-> NoGen]

Goto(p, label) == pc' = [pc EXCEPT ![p] = label]

-----------------------------------------------------------------------------
(* The listeners.  Shutdown stops the UDP server first and waits for its   *)
(* handlers, then the HTTP server and its handlers; nothing waits for the  *)
(* watcher.                                                                *)

Accepting(p) == CASE p \in UdpQuery -> pc[Main] = "running"
                  [] p \in HttpQuery \cup HttpSwap -> pc[Main] \in {"running", "drainUdp"}
                  [] OTHER -> TRUE

\* A handler starts.  A UDP query goes on only when dnsCache has no answer;
\* /api/query does not look at the cache.
Begin(p) == /\ p \in Query \cup Swap
            /\ pc[p] = "idle"
            /\ Accepting(p)
            /\ p \in UdpQuery => cached = NoGen
            /\ Goto(p, "begun")
            /\ UNCHANGED <<active, inUse, retired, once, cached, ref>>

-----------------------------------------------------------------------------
(* acquireGen, the walk of the chain, releaseGen.  A query between the     *)
(* load and the increment holds the read lock of genMu, so it keeps every  *)
(* writer out.                                                             *)

NoReadLock == TRUE
LockHeldByShutdown == /\ \A w \in Query : pc[w] # "loaded"
                      /\ pc[Main] \in {"running", "stopped"}
WriteLockFree == \A w \in Query : pc[w] # "loaded"

AcquireLoad(w) == /\ pc[w] = "begun"
                  /\ ref' = [ref EXCEPT ![w] = active]
                  /\ Goto(w, "loaded")
                  /\ UNCHANGED <<active, inUse, retired, once, cached>>

AcquireInc(w) == /\ pc[w] = "loaded"
                 /\ inUse' = [inUse EXCEPT ![ref[w]] = @ + 1]
                 /\ Goto(w, "resolving")
                 /\ UNCHANGED <<active, retired, once, cached, ref>>

\* The answer of a successful chain goes into dnsCache before it goes to the
\* client; an error, an empty answer and ttl -1 leave the cache alone.
Answer(w) == /\ pc[w] = "resolving"
             /\ cached' \in {cached, ref[w]}
             /\ Goto(w, "answered")
             /\ UNCHANGED <<active, inUse, retired, once, ref>>

ShouldCloseAny(g, remaining) == remaining = 0
ShouldClose(g, remaining) == g \in retired /\ remaining = 0

ReleasedActive(w) == active
Released(w) == ref[w]

Release(w) == /\ pc[w] = "answered"
              /\ WriteLockFree
              /\ inUse' = [inUse EXCEPT ![Released(w)] = @ - 1]
              /\ Goto(w, IF ShouldClose(ref[w], inUse'[ref[w]]) THEN "close" ELSE "idle")
              /\ UNCHANGED <<active, retired, once, cached, ref>>

-----------------------------------------------------------------------------
(* SwapResolvers.  writeMu lets one POST at a time past the decoding of    *)
(* its body; the watcher does not take it.                                 *)

WriteMuFree(p) == p \in HttpSwap => \A q \in HttpSwap \ {p} : pc[q] \in {"idle", "begun"}

\* CreateResolvers; when it fails the running state is left untouched.
Build(p) == /\ pc[p] = "begun"
            /\ WriteMuFree(p)
            /\ \/ /\ Goto(p, "idle")
                  /\ UNCHANGED ref
               \/ \E g \in Fresh : /\ ref' = [ref EXCEPT ![p] = g]
                                   /\ Goto(p, "built")
            /\ UNCHANGED <<active, inUse, retired, once, cached>>

\* installGen, up to the unlock: old becomes the generation to close.
Install(p) == /\ pc[p] = "built"
              /\ WriteLockFree
              /\ active' = ref[p]
              /\ retired' = retired \cup {active}
              /\ ref' = [ref EXCEPT ![p] = active]
              /\ Goto(p, IF inUse[active] = 0 THEN "close" ELSE "clear")
              /\ UNCHANGED <<inUse, once, cached>>

Clear(p) == /\ pc[p] = "clear"
            /\ cached' = NoGen
            /\ Goto(p, "idle")
            /\ UNCHANGED <<active, inUse, retired, once, ref>>

-----------------------------------------------------------------------------
(* closeAll.  sync.Once runs the loop of Close calls for the first caller  *)
(* and makes a second one wait until it is over.                           *)

AfterClose(p) == CASE p \in Query -> "idle" [] p \in Swap -> "clear" [] OTHER -> "stopped"

Once(g) == once[g] = "open"

CloseBegin(p) == /\ pc[p] = "close"
                 /\ Once(ref[p])
                 /\ once' = [once EXCEPT ![ref[p]] = "closing"]
                 /\ Goto(p, "closing")
                 /\ UNCHANGED <<active, inUse, retired, cached, ref>>

CloseEnd(p) == /\ pc[p] = "closing"
               /\ once' = [once EXCEPT ![ref[p]] = "closed"]
               /\ Goto(p, AfterClose(p))
               /\ UNCHANGED <<active, inUse, retired, cached, ref>>

CloseSkip(p) == /\ pc[p] = "close"
                /\ once[ref[p]] = "closed"
                /\ Goto(p, AfterClose(p))
                /\ UNCHANGED <<active, inUse, retired, once, cached, ref>>

-----------------------------------------------------------------------------
(* Shutdown, and the clock of the cache.                                   *)

ShutdownUdp == /\ pc[Main] = "running"
               /\ Goto(Main, "drainUdp")
               /\ UNCHANGED <<active, inUse, retired, once, cached, ref>>

ShutdownHttp == /\ pc[Main] = "drainUdp"
                /\ \A w \in UdpQuery : pc[w] = "idle"
                /\ Goto(Main, "drainHttp")
                /\ UNCHANGED <<active, inUse, retired, once, cached, ref>>

HttpDrainedQueries == \A w \in HttpQuery : pc[w] = "idle"
HttpDrainedSwaps == \A p \in HttpSwap : pc[p] = "idle"
HttpDrained == \A p \in HttpQuery \cup HttpSwap : pc[p] = "idle"

ShutdownClose == /\ pc[Main] = "drainHttp"
                 /\ HttpDrained
                 /\ ref' = [ref EXCEPT ![Main] = active]
                 /\ Goto(Main, "close")
                 /\ UNCHANGED <<active, inUse, retired, once, cached>>

Expire == /\ cached # NoGen
          /\ cached' = NoGen
          /\ UNCHANGED <<active, inUse, retired, once, pc, ref>>

-----------------------------------------------------------------------------
QueryStep(w) == AcquireLoad(w) \/ AcquireInc(w) \/ Answer(w) \/ Release(w)
SwapStep(p) == Build(p) \/ Install(p) \/ Clear(p)
CloseStep(p) == CloseBegin(p) \/ CloseEnd(p) \/ CloseSkip(p)
MainStep == ShutdownHttp \/ ShutdownClose

Next == \/ \E p \in Proc : Begin(p) \/ CloseStep(p)
        \/ \E w \in Query : QueryStep(w)
        \/ \E p \in Swap : SwapStep(p)
        \/ ShutdownUdp
        \/ MainStep
        \/ Expire

\* A goroutine that can go on does.  Waiting for a lock is strongly fair:
\* sync.RWMutex lets no reader in behind a waiting writer, and sync.Mutex
\* hands itself to a waiter that starves.  Nothing makes a query, a swap or a
\* shutdown begin.
Fairness == /\ \A p \in Proc : WF_vars(CloseStep(p))
            /\ \A w \in Query : /\ WF_vars(AcquireLoad(w) \/ AcquireInc(w) \/ Answer(w))
                                /\ SF_vars(Release(w))
            /\ \A p \in Swap : /\ SF_vars(Build(p))
                               /\ SF_vars(Install(p))
                               /\ WF_vars(Clear(p))
            /\ WF_vars(MainStep)

Spec == Init /\ [][Next]_vars
FairSpec == Spec /\ Fairness

-----------------------------------------------------------------------------
(* Properties.                                                             *)

Drained == pc[Main] \in {"close", "closing", "stopped"}

TypeOK == /\ active \in Gen
          /\ inUse \in [Gen -> Nat]
          /\ retired \subseteq Gen
          /\ once \in [Gen -> {"open", "closing", "closed"}]
          /\ cached \in Gen \cup {NoGen}
          /\ pc \in [Proc -> {"idle", "begun", "loaded", "resolving", "answered", "built",
                              "clear", "close", "closing", "running", "drainUdp",
                              "drainHttp", "stopped"}]
          /\ ref \in [Proc -> Gen \cup {NoGen}]

\* inUse of a generation is the number of queries that were given it by
\* acquireGen and have not yet passed releaseGen: no swap, however it
\* interleaves with the two, loses or duplicates a reference
\* (server.go:93-119).
RefCountExact == \A g \in Gen : inUse[g] = Cardinality(Holders(g))

\* The resolvers a query walks are not being closed and have not been: not by
\* a swap, not by another query's release, and not by Shutdown
\* (server.go:56-60, 158-170).
NoUseAfterClose == \A w \in Query : pc[w] \in Holding => once[ref[w]] = "open"

\* The watcher has not built a chain for this server: its pointer is unset.
WatcherKeptOut == \A p \in ReloadSwap : ref[p] = NoGen

\* A chain the watcher installed after Shutdown had looked for the active one.
InstalledLate(g) == g = active /\ g # ref[Main] /\ ~WatcherKeptOut

\* A stopped server leaves no ticker, socket or probe goroutine behind: every
\* generation it ever ran is closed, whatever queries, POST handlers and the
\* watcher did and in whatever order.  Shutdown does not wait for the watcher:
\* one it is just closing is excepted, and one it installed too late, which
\* nobody closes (server.go:158-170).
NothingLeaked == pc[Main] = "stopped" =>
                     \A g \in Installed :
                        \/ once[g] = "closed"
                        \/ InstalledLate(g)
                        \/ \E p \in ReloadSwap : pc[p] \in Closing /\ ref[p] = g

\* A retired generation is never handed out again: its count can only fall,
\* so the zero that makes releaseGen close it is final (server.go:93-104).
RetiredOnlyDrains == [][\A g \in retired : inUse'[g] <= inUse[g]]_vars

\* The count elects the closer of a retired generation: the swap that found it
\* empty or the one query that emptied it, never two of them.  sync.Once is
\* needed for Shutdown alone, which closes without looking at either
\* (server.go:106-119, 142-170).
OneCloser == \A p, q \in Query \cup Swap :
                 pc[p] \in Closing /\ pc[q] \in Closing /\ ref[p] = ref[q] => p = q

\* Forward.Close is not idempotent: nobody closes the resolvers of a closed
\* generation again, also when Shutdown and a swap both decided to close it
\* (server.go:58-60, 71-77).
ClosedForGood == [][\A g \in Gen : once[g] = "closed" => once'[g] = "closed"]_vars

\* Every generation a swap retires has its resolvers closed in the end
\* (server.go:121-124).
RetiredGetsClosed == \A g \in Gen : g \in retired ~> once[g] = "closed"

\* A Shutdown that has begun ends: neither the queries in flight nor the swap
\* of a POST handler keeps the drains waiting, and closeAll is not stuck
\* behind a goroutine that is closing the same generation (server.go:158-170).
ShutdownCompletes == pc[Main] = "drainUdp" ~> pc[Main] = "stopped"

\* The generations as a query and a swap see them.
Lifecycle == INSTANCE GenLifecycle
                 WITH current <- active,
                      installed <- Installed,
                      users <- [g \in Gen |-> Holders(g)],
                      closed <- {g \in Gen : once[g] # "open"},
                      stopped <- Drained

\* Read lock, counter and once implement the life cycle of a generation: a
\* query enters the current generation and no other, and a generation is
\* closed once, empty, and out of service (server.go:56-170).
ImplementsLifecycle == Lifecycle!Spec

\* "The DNS cache is cleared after a successful swap so stale routing
\* decisions are not masked by previously cached answers" (server.go:124-125):
\* when no swap is on its way, a cached answer comes from the active chain.
NoStaleAnswer == (\A p \in Swap : pc[p] = "idle") => cached \in {NoGen, active}

\* "TestShutdownClosesActiveGenerationOnce verifies Shutdown closes the active
\* generation's resolvers exactly once" (swap_test.go:164-165): a server whose
\* Shutdown is over and that no swap is touching has no open active generation.
ShutdownClosesActive == pc[Main] = "stopped" /\ (\A p \in Swap : pc[p] = "idle")
                            => once[active] = "closed"
=============================================================================
