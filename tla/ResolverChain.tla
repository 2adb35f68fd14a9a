---------------------------- MODULE ResolverChain ---------------------------
(***************************************************************************)
(* One chain of resolvers from CreateResolvers to closeAll: how it is      *)
(* built, how queries walk it (resolveOnly in server.go), and how it is    *)
(* closed.  The file resolver and the preloader of the chain, whose tables *)
(* are replaced by goroutines of their own, are FileResolver and           *)
(* Preloader; a mock, a filter, a forward and the mDNS bridge have no      *)
(* state that matters here.                                                *)
(*                                                                         *)
(* ResolverGen has the pinning of the chain: it is closed when no query    *)
(* walks it, and dnsCache is that of the server.                           *)
(***************************************************************************)
EXTENDS Sequences, FileResolver, Preloader

CONSTANTS Query,     \* goroutines of UDP handlers and of /api/query
          Chains     \* the chains a configuration may describe

(* A resolver: its kind, the names its rules accept, the address it gives  *)
(* (mock and forward), break-on-fail, nftset configured, and whether its   *)
(* TTL lets dnsCache keep the answer.                                      *)
Kind == {"mock", "forward", "file", "preloader"}
Resolver == [kind : Kind, rule : SUBSET Name, addr : Nat, breaks : BOOLEAN,
             nft : BOOLEAN, caches : BOOLEAN]

\* A mock, a file and a preloader have TTL -1; a file has no rule, it accepts the
\* names of its tables; a chain has at most one file resolver and one preloader.
ASSUME ChainAssumption ==
    /\ Chains \subseteq Seq(Resolver)
    /\ \A c \in Chains :
         /\ \A i \in DOMAIN c : c[i].caches => c[i].kind = "forward"
         /\ \A i \in DOMAIN c : c[i].kind = "file" => c[i].rule = {}
         /\ \A i, j \in DOMAIN c : c[i].kind = c[j].kind /\ i # j
                                    => c[i].kind \notin {"file", "preloader"}

VARIABLES chain,     \* conf.Resolvers
          life,      \* phase of the chain, resolver it is at, number of those built
          walk,      \* each query: pc, name, resolver it is at, address found
          reply,     \* what its client got
          dnsCache,  \* the entry of every name
          nft,       \* the addresses in the nft set
          lost       \* history: the addresses that nft refused

chainVars == <<chain, life>>
serverVars == <<dnsCache, nft, lost>>
vars == <<chain, life, walk, reply, serverVars, fileVars, preVars>>

Silent == [kind |-> "none", name |-> Nobody, addr |-> NoAddress, at |-> 0]
Outside == [pc |-> "idle", name |-> Nobody, at |-> 1, addr |-> NoAddress]
Has(kind) == \E i \in DOMAIN chain : chain[i].kind = kind
Idle == \A q \in Query : walk[q].pc = "idle"

Init == /\ chain \in Chains
        /\ life = [phase |-> "building", at |-> 1, built |-> 0]
        /\ walk = [q \in Query |-> Outside]
        /\ reply = [q \in Query |-> Silent]
        /\ dnsCache = [n \in Name |-> Silent]
        /\ nft = {} /\ lost = {}
        /\ FileInit
        /\ PreInit
        /\ ~Has("file") => file = [readable |-> FALSE, table |-> EmptyTable]

-----------------------------------------------------------------------------
(* CreateResolvers builds one resolver after the other.  Those with a      *)
(* goroutine start it; when one cannot be built the ones before it are     *)
(* closed.                                                                 *)

Start(kind) == CASE kind = "file" -> FileNew /\ UNCHANGED preVars
                 [] kind = "preloader" -> PreNew /\ UNCHANGED fileVars
                 [] OTHER -> UNCHANGED <<fileVars, preVars>>

Build == /\ life.phase = "building" /\ life.at <= Len(chain)
         /\ Start(chain[life.at].kind)
         /\ life' = [life EXCEPT !.at = @ + 1, !.built = @ + 1]
         /\ UNCHANGED <<chain, walk, reply, serverVars>>

ToCloseNone == 0
ToClose == life.built

BuildFails == /\ life.phase = "building" /\ life.at <= Len(chain)
              /\ life' = [phase |-> "closing", at |-> 1, built |-> ToClose]
              /\ UNCHANGED <<chain, walk, reply, serverVars, fileVars, preVars>>

Serve == /\ life.phase = "building" /\ life.at > Len(chain)
         /\ life' = [life EXCEPT !.phase = "serving", !.at = 1]
         /\ UNCHANGED <<chain, walk, reply, serverVars, fileVars, preVars>>

-----------------------------------------------------------------------------
(* closeAll: one resolver after the other, when no query is inside.        *)

CloseAll == /\ life.phase = "serving" /\ Idle
            /\ life' = [life EXCEPT !.phase = "closing"]
            /\ UNCHANGED <<chain, walk, reply, serverVars, fileVars, preVars>>

Closing(kind) == /\ life.phase = "closing" /\ life.at <= life.built
                 /\ chain[life.at].kind = kind

CloseFile == /\ Closing("file") /\ FileStop
             /\ UNCHANGED <<chainVars, walk, reply, serverVars, preVars>>

StopPreloader == /\ Closing("preloader") /\ PreStop
                 /\ UNCHANGED <<chainVars, walk, reply, serverVars, fileVars>>

CloseInner == /\ Closing("preloader") /\ PreCloseInner
              /\ UNCHANGED <<chainVars, walk, reply, serverVars, fileVars>>

Closed(kind) == CASE kind = "file" -> FileStopped
                  [] kind = "preloader" -> preLoop.stop /\ ~innerOpen
                  [] OTHER -> TRUE

CloseNext == /\ life.phase = "closing"
             /\ IF life.at > life.built THEN life' = [life EXCEPT !.phase = "closed"]
                ELSE /\ Closed(chain[life.at].kind)
                     /\ life' = [life EXCEPT !.at = @ + 1]
             /\ UNCHANGED <<chain, walk, reply, serverVars, fileVars, preVars>>

-----------------------------------------------------------------------------
(* dnsMsgHandler and resolveOnly: the walk.                                *)

StagesCacheFirst == <<"keep", "route", "send">>
Stages == <<"route", "keep", "send">>

walking == <<chainVars, serverVars, fileVars, preVars>>
At(q) == chain[walk[q].at]
Goto(q, label) == walk' = [walk EXCEPT ![q].pc = label]
Found(q, addr, label) ==
    walk' = [walk EXCEPT ![q].pc = label, ![q].addr = addr]
Accepts(r, n) == IF r.kind = "file" THEN FileAccepts(n) ELSE n \in r.rule

Reply(q, kind) ==
    /\ reply' = [reply EXCEPT ![q] = [kind |-> kind, name |-> walk[q].name,
                                      addr |-> walk[q].addr, at |-> walk[q].at]]
    /\ walk' = [walk EXCEPT ![q] = Outside]

\* A UDP handler answers from dnsCache when it can; /api/query does not look.
Hit(q, n) == /\ life.phase = "serving" /\ walk[q].pc = "idle"
             /\ dnsCache[n] # Silent
             /\ reply' = [reply EXCEPT ![q] = dnsCache[n]]
             /\ UNCHANGED <<walk, walking>>

Begin(q, n) == /\ life.phase = "serving" /\ walk[q].pc = "idle"
               /\ walk' = [walk EXCEPT ![q] = [Outside EXCEPT !.pc = "accept", !.name = n]]
               /\ reply' = [reply EXCEPT ![q] = Silent]
               /\ UNCHANGED walking

Refuse(q) == /\ walk[q].pc = "accept" /\ walk[q].at > Len(chain)
             /\ Reply(q, "refused")
             /\ UNCHANGED walking

Accept(q) == /\ walk[q].pc = "accept" /\ walk[q].at <= Len(chain)
             /\ walk' = IF Accepts(At(q), walk[q].name)
                        THEN [walk EXCEPT ![q].pc = "resolve"]
                        ELSE [walk EXCEPT ![q].at = @ + 1]
             /\ UNCHANGED <<reply, walking>>

\* Resolve of a mock, of a file and of a preloader that has the name; the
\* others have to ask.
Resolve(q) ==
    /\ walk[q].pc = "resolve"
    /\ LET n == walk[q].name IN
       CASE At(q).kind = "mock" -> Found(q, At(q).addr, Stages[1])
         [] At(q).kind = "file" -> Found(q, FileAddressOf(n), Stages[1])
         [] At(q).kind = "preloader" /\ n \in Loaded -> Found(q, entry[n].addr, Stages[1])
         [] OTHER -> Goto(q, "asking")
    /\ UNCHANGED <<reply, walking>>

\* The answer of the upstream, which may have no records.
Answered(q) ==
    /\ walk[q].pc = "asking"
    /\ IF At(q).kind = "preloader"
       THEN /\ upstream.up
            /\ LET addr == upstream.addr[walk[q].name]
               IN Found(q, addr, IF Worth(addr) THEN "storing" ELSE Stages[1])
       ELSE \E addr \in {At(q).addr, NoAddress} : Found(q, addr, Stages[1])
    /\ UNCHANGED <<reply, walking>>

StoreEntry(q) == /\ walk[q].pc = "storing"
                 /\ Put(walk[q].name, walk[q].addr)
                 /\ Goto(q, Stages[1])
                 /\ UNCHANGED <<reply, chainVars, serverVars, fileVars, preLoop,
                                innerOpen, upstream, changes>>

\* An error ends the walk if the resolver is to break it, or is the last.
Last(q) == walk[q].at = Len(chain)
BreaksNever(q) == FALSE
Breaks(q) == At(q).breaks

Failed(q) == /\ walk[q].pc = "asking"
             /\ At(q).kind = "preloader" => ~upstream.up
             /\ IF Breaks(q) \/ Last(q) THEN Reply(q, "fail")
                ELSE /\ walk' = [walk EXCEPT ![q].pc = "accept", ![q].at = @ + 1]
                     /\ UNCHANGED reply
             /\ UNCHANGED walking

-----------------------------------------------------------------------------
(* An answer with records goes into the nft set, into dnsCache and to the  *)
(* client, in the order of Stages.                                         *)

HasRecords(q) == At(q).kind = "file" \/ walk[q].addr # NoAddress
After(label) == Stages[1 + CHOOSE i \in DOMAIN Stages : Stages[i] = label]

\* The command that adds the address may fail; the answer does not depend on it.
WriteNftSet(q) ==
    /\ walk[q].pc = "route"
    /\ IF At(q).nft /\ walk[q].addr # NoAddress
       THEN \/ nft' = nft \cup {walk[q].addr} /\ UNCHANGED lost
            \/ lost' = lost \cup {walk[q].addr} /\ UNCHANGED nft
       ELSE UNCHANGED <<nft, lost>>
    /\ Goto(q, After("route"))
    /\ UNCHANGED <<reply, chainVars, dnsCache, fileVars, preVars>>

SetCache(q) ==
    /\ walk[q].pc = "keep"
    /\ dnsCache' = IF At(q).caches /\ HasRecords(q)
                   THEN [dnsCache EXCEPT ![walk[q].name] =
                           [kind |-> "answer", name |-> walk[q].name,
                            addr |-> walk[q].addr, at |-> walk[q].at]]
                   ELSE dnsCache
    /\ Goto(q, After("keep"))
    /\ UNCHANGED <<reply, chainVars, nft, lost, fileVars, preVars>>

Send(q) == /\ walk[q].pc = "send"
           /\ Reply(q, IF HasRecords(q) THEN "answer" ELSE "empty")
           /\ UNCHANGED walking

CacheExpires(n) == /\ dnsCache[n] # Silent
                   /\ dnsCache' = [dnsCache EXCEPT ![n] = Silent]
                   /\ UNCHANGED <<chainVars, walk, reply, nft, lost, fileVars, preVars>>

-----------------------------------------------------------------------------
beside == <<chainVars, walk, reply, serverVars>>

OfFile == /\ Has("file") /\ (FileEdit \/ FileRead \/ FileInstall \/ FileExit)
          /\ UNCHANGED <<beside, preVars>>

OfPreloader == /\ \/ PreLoop
                  \/ Has("preloader") /\ UpstreamChanges
                  \/ \E n \in Name : EntryExpires(n)
               /\ UNCHANGED <<beside, fileVars>>

Walking(q) == \/ Refuse(q) \/ Accept(q) \/ Resolve(q) \/ Answered(q) \/ StoreEntry(q)
              \/ Failed(q) \/ WriteNftSet(q) \/ SetCache(q) \/ Send(q)

Ending == CloseFile \/ StopPreloader \/ CloseInner \/ CloseNext

Next == \/ Build \/ BuildFails \/ Serve \/ CloseAll \/ Ending
        \/ OfFile \/ OfPreloader
        \/ \E q \in Query : Walking(q) \/ \E n \in Name : Hit(q, n) \/ Begin(q, n)
        \/ \E n \in Name : CacheExpires(n)

Spec == Init /\ [][Next]_vars

(* Goroutines run, tickers tick and time passes: an entry reaches its      *)
(* expiry.  Nothing makes clients ask, a file change or a server stop.     *)
Fairness == /\ \A q \in Query : WF_vars(Walking(q))
            /\ WF_vars(Build \/ Serve)
            /\ WF_vars(Ending)
            /\ WF_vars((FileRead \/ FileInstall \/ FileExit)
                       /\ UNCHANGED <<beside, preVars>>)
            /\ WF_vars(PreLoop /\ UNCHANGED <<beside, fileVars>>)
            /\ \A n \in Name : WF_vars(EntryExpires(n) /\ UNCHANGED <<beside, fileVars>>)

FairSpec == Spec /\ Fairness

-----------------------------------------------------------------------------
TypeOK ==
    /\ chain \in Chains
    /\ life \in [phase : {"building", "serving", "closing", "closed"},
                 at : 1..Len(chain) + 1, built : 0..Len(chain)]
    /\ walk \in [Query -> [pc : {"idle", "accept", "resolve", "asking", "storing",
                                 "route", "keep", "send"},
                           name : Name, at : 1..Len(chain) + 1, addr : Nat]]
    /\ reply \in [Query -> [kind : {"none", "answer", "empty", "fail", "refused"},
                            name : Name, addr : Nat, at : 0..Len(chain) + 1]]
    /\ dnsCache \in [Name -> {Silent} \cup [kind : {"answer"}, name : Name,
                                           addr : Nat \ {NoAddress}, at : DOMAIN chain]]
    /\ nft \subseteq Nat /\ lost \subseteq Nat
    /\ FileTypeOK
    /\ PreTypeOK

(* A client that has got the address of a resolver with an nftset, from    *)
(* the walk or from dnsCache, finds it in the set, unless the command has  *)
(* failed (server.go:372, USAGE.md:288).                                   *)
AnswerIsRouted ==
    \A q \in Query : (/\ reply[q].kind = "answer" /\ reply[q].addr # NoAddress
                      /\ chain[reply[q].at].nft)
                     => reply[q].addr \in nft \cup lost

(* A name that a breaking resolver accepts is never answered, nor given a  *)
(* REFUSED, by what comes after it: not when its upstream fails, not from  *)
(* dnsCache (docs/adr/0001, USAGE.md:33).                                  *)
BreakIsFinal ==
    \A q \in Query : reply[q].kind # "none"
        => \A i \in 1..reply[q].at - 1 :
               ~(chain[i].breaks /\ reply[q].name \in chain[i].rule)

(* REFUSED says that the last resolver has not accepted: its failure is    *)
(* reported as one (USAGE.md:30).                                          *)
LastFailureIsReported ==
    \A q \in Query : reply[q].kind = "refused" /\ chain[Len(chain)].kind # "file"
                     => reply[q].name \notin chain[Len(chain)].rule

(* Nobody is inside the forward of a preloader that has closed it: neither *)
(* the goroutine that refreshes nor a query (preloader.go:42-47).          *)
NoneInsideClosed ==
    ~innerOpen => /\ preLoop.pc \notin {"asking", "storing"}
                  /\ \A q \in Query : walk[q].pc \in {"asking", "storing"}
                                      => At(q).kind # "preloader"

(* A chain that is closed, or was never finished, leaves no goroutine and  *)
(* no open upstream behind (init.go:14-16).                                *)
NothingRuns ==
    life.phase = "closed" => /\ fileLoop.pc \in {"off", "ended"}
                             /\ preLoop.pc \in {"off", "ended"}
                             /\ ~innerOpen

(* A name that the preloader serves it goes on serving: no answer of the   *)
(* upstream, and no failure, takes it away.                                *)
KeepsServing == [][Loaded \subseteq Loaded']_vars

(* Closing a chain ends, whatever the goroutines are in the middle of.     *)
CloseEnds == life.phase = "closing" ~> life.phase = "closed"

(* While the chain serves, an address of the upstream that stays reaches   *)
(* the preloader's entry, however old the entry has become and whatever    *)
(* slower queries store in between.                                        *)
PreloaderConverges ==
    \A n \in Name :
        <>[](life.phase = "serving" /\ n \in Loaded /\ upstream.up)
        => <>[](upstream.addr[n] \in {NoAddress, entry[n].addr})

(* While the chain serves, a file that stays reaches the table.            *)
FileConverges ==
    <>[](life.phase = "serving" /\ Has("file") /\ file.readable)
    => <>[](inMemory = file.table)

-----------------------------------------------------------------------------
(* What a document or a reader may expect and the code does not do.        *)

(* REFUSED says that no resolver has accepted (USAGE.md:31).               *)
RefusedMeansUnmatched ==
    \A q \in Query : reply[q].kind = "refused"
        => \A i \in DOMAIN chain : chain[i].kind # "file"
                                   => reply[q].name \notin chain[i].rule

(* A resolver with an nftset that refreshes its entry refreshes the set    *)
(* (USAGE.md:160).                                                         *)
RefreshIsRouted ==
    \A i \in DOMAIN chain : chain[i].kind = "preloader" /\ chain[i].nft
        => \A n \in Loaded : entry[n].addr \in nft \cup lost
                             \/ \E q \in Query : walk[q].addr = entry[n].addr

(* An entry is refreshed before it expires (USAGE.md:142).                 *)
ServedFresh == [][\A n \in Name : entry[n].fresh /\ n \in Loaded => entry'[n].fresh]_vars

(* A name that a file resolver has accepted has an address.                *)
AcceptedHasAddress == \A q \in Query : reply[q].kind = "answer" => reply[q].addr # NoAddress
=============================================================================
