# dns-switchy: a TLA+ model of its concurrency, and proofs about it

dns-switchy is a DNS server that hands every query to a chain of resolvers: the
first one whose rules accept the name answers. The chain can be replaced while
queries are being answered, from a web page, by an edit of the configuration
file or by a refreshed rule list. This directory models the parts of the program
where several goroutines, a file and a network meet, checks them with TLC and
proves the most important results with TLAPS.

Contents: [parts of the system](#the-parts-of-the-system),
[modules](#the-modules), [runs](#the-runs), [proofs](#the-proofs),
[findings](#where-the-code-and-its-documents-differ),
[what is not modelled](#what-is-not-modelled), [plan](#plan).

## The parts of the system

| part | source | state | operations | hard behaviour |
|---|---|---|---|---|
| resolver generations | `server.go` 49-170, 313-370 | `gen`, per generation `inUse`, `retired`, `closeOnce`; `dnsCache` | `acquireGen`, `releaseGen`, `SwapResolvers`/`installGen`, `closeAll`, `Shutdown` | queries, swaps and Shutdown interleave; who closes, when, and only once |
| configuration control | `main.go`, `reloader.go`, `config_api.go` | the file, `appliedHash`/`appliedTopLevel`, `configChan`, `ConfigController.server`, `writeMu` | `Reload`, `handleConfigGet`, `handleConfigPost`, `Save`, the v2fly callback, `reloadServer` | three writers, one watcher, one main loop; an event may be old when it is read |
| forward resolver | `resolver/forward.go` | `ForwardStat`, `MultiUpstream.wg` | `Resolve`, `Exchange`, `checkStatus`, `Close` | a race of upstreams with losers, probes that outlive their query, health counters fed out of order |
| mDNS bridge | `resolver/mdns.go` | `waiters`, `negCache`, `dead`, `done` | `Resolve`, `dispatch`, `removeWaiter`, `Close` | a window, a retransmission, a packet and the death of the reader race one another |
| domain rules | `util/matcher.go` | `ComplexDomainSet` | `NewDomainMatcher`, `addDomain`, `MatchDomain` | overlapping suffixes in one tree, five kinds of rules |
| resolver chain | `server.go` 235-399, `resolver/init.go`, `filter.go`, `mock.go` | `dnsCache`, the nftset | `resolveOnly`, `CreateResolvers`, `closeAll` | a failure that falls through, what is cached and routed when, a build that fails half way |
| server lifecycle | `main.go` 84-100, `server.go` 158-216, 420-430 | `udpServer`, `httpServer`, `wg`, the path of the unix socket | `reloadServer`, `Start`, `retry`, `Shutdown` | Shutdown before the listener has bound; an old listener and a new one on one path |
| rule lists | `config/config.go` 33-201, 554-745 | cache files, `memV2flyCache`, `pendingV2fly`; the visited set | `fetchV2flyList`, `runV2flyAttempt`, `parseRule` | builds and downloads share a file that is written in two steps; lists that include one another and change meanwhile |
| preloader, file resolver | `resolver/preloader.go`, `resolver/file.go` | a table and a ticker each | the ticker's refresh, `Resolve`, `Close` | stale entries, a table replaced under a query |
| backups | `reloader.go` 89-141 | `.bak` files, the temporary file | `Save`, `pruneBackups` | an operation that fails or a process that dies between the steps, a clock set back |
| web access control | `auth.go`, `config_api.go` 286-360 | none | `requireAPIKey`, `guardWrite` | none: pure functions of a request |
| document conversion | `config/config.go`, `ordered_map.go` | none | `ParseConfig`, `MarshalJSON` | none: data |
| nftset writer | `nftset/nftset.go` | none | `Add` | none: one command |
| web portal | `web/portal/src` | the draft of the form, its version, the flags of the buttons | `loadConfig`, `doValidate`, `doSave`, `markDirty`, the key prompt | a draft older than the server's version, answers that arrive after the user has gone on |

How they interact. A UDP or HTTP handler asks `dnsCache`, then pins the active
generation (`acquireGen`), walks its resolvers, stores the answer and lets the
generation go (`releaseGen`). A POST of `/api/config` reads the file, checks the
version the browser saw, validates, writes the file, marks the new content as
applied and swaps the chain, all under `writeMu`. The rename raises an fsnotify
event; the watcher's `Reload` reads the file, skips what is marked as applied,
swaps the chain when only the resolvers changed, and otherwise puts the
configuration into `configChan`. The v2fly goroutine, after a download, reads
the file and puts it into the same channel. The main loop takes configurations
out of it one by one: it creates a server, shuts the old one down, starts the
new one and tells the controller. `Shutdown` drains the UDP and the HTTP
handlers, closes the active generation and waits for the listeners. Closing a
generation closes every resolver in it, among them the forwards and the bridge,
which wait for their own goroutines.

What makes each part correct:

* generations: a query never walks a closed chain; a retired chain is closed,
  by one goroutine; a shut-down server leaves nothing open; an answer of an old
  chain is not served after the swap.
* configuration: when everything is quiet, the running server runs the file; no
  save overwrites a version its author has not seen; the web changes resolvers
  only; nobody waits for ever.
* forward: a query fails only if all upstreams do; a forward is given up and
  taken back only after a run of results; nothing is inside an upstream when it
  is closed.
* bridge: no answer passes a waiting query by, none is left in the map, a dead
  reader is never turned into a cached miss, every query ends.
* rules: the tree is the set of suffixes put into it; the priority is the
  documented one.
* rule lists: a list nobody has is being asked for; a file whose writing failed
  is hidden; what was downloaded is used; the downloads end. An include is
  replaced by the rules of its file, or refused, and the parse never goes on for ever.
* server lifecycle: a chain is closed after the handlers that walk it; the portal's
  path belongs to the server that serves; a rebuild ends; both listeners come up.
* backups: a reader finds one whole configuration, before, during and after a save;
  what a save has replaced can be brought back; backups do not pile up.
* chain: an address is in the nftset before a client has it; a break is final;
  closing a chain, or giving up one half built, leaves nothing running.
* preloader and file resolver: their tables follow the upstream and the file.
* portal: no save overwrites what its author has not seen; no edit vanishes
  unless the user gives it up; what is called saved has been saved.

## The modules

| module | models | state and actions |
|---|---|---|
| `GenLifecycle` | the promise of the generations, without lock, counter or once | `Enter`, `Leave`, `Replace`, `Close`, `Stop` |
| `ResolverGen` | `server.go` | `active` is `s.gen`; `inUse`, `retired`, `once` are the fields of `resolverGen`; `pc` and `ref` are the place and the local pointer of every goroutine. `AcquireLoad`/`AcquireInc` are the two steps under the read lock, `Release` and `Install` the two critical sections of the write lock, `CloseBegin`/`CloseEnd`/`CloseSkip` are `closeOnce.Do`, `Shutdown*` and `HttpDrained` are Shutdown |
| `ResolverGenProofs`, `ConfigControlProofs`, `ResolverChainProofs`, `ServerLifecycleProofs`, `ConfigSaveProofs`, `PortalEditorProofs` | theorems about the module each is named after | |
| `UpstreamProofs` | theorems about `Forward` and `Mdns` | |
| `RuleListProofs` | theorems about `ResolverRules`, with `RuleInclude` and `DomainMatcher` in it, and about `V2flyCache` | |
| `ConfigControl` | `main.go`, `reloader.go`, `config_api.go` | `disk`, `events`, `applied`, `chan`, the servers; one action per step of the main loop, of `Reload`, of a POST and of the callback that another goroutine can see |
| `Forward` | `resolver/forward.go` | `alive`, `failCount`, `successCount`; `leg[c][u]` is the goroutine of caller `c` in upstream `u`; `Launch`, `LegEnds`, `Take`, `Lose`, `CheckStatus`, `Close*` |
| `Mdns` | `resolver/mdns.go` | `waiters`, `inbox` (the channel of a query), `timer`, `negCache`, `dead`, `done`; `stage` is the place of a query in `Resolve`; `Receive`, `Retransmit`, `Deadline` are the branches of the select, `Dispatch` a packet |
| `DomainMatcher` | `util/matcher.go` | the two trees, `full`, `keywords`, `regexps`; `AddRule` is one turn of NewDomainMatcher's loop, `MatchDomain` an operator; a walk down a tree is a recursive function, `Path`, and so is what `addDomain` makes anew on its way back up, `Rebuilt` |
| `V2flyCache` | `config/config.go`, the callback of `main.go` | per list the cache file, the copy in memory and the pending mark; one build at start-up, one per reload; `Stat` and `ReadFile` are the two looks of a build at the file, `Truncate` and `WriteLines` the two steps of a write, `Attempt` the retry goroutine, `Crash` a restart |
| `RuleInclude` | `parseRule` of `config/config.go` | `stack` has the activations of `parseRule` with the lines each has left, `visited` the files being parsed, `parsed` what was collected; `Plain`, `Include`, `Fail`, `Return` are what a line or the end of a list leads to, `Change` a writer of an included file |
| `ResolverRules` | a resolver's rules from the configuration to the matcher, composed of `RuleInclude` and `DomainMatcher` | `HandOver` is the end of the parse, `ReadRule` one turn of the matcher's loop over what was parsed |
| `DnsData` | the names and addresses the next three share | |
| `FileResolver` | `resolver/file.go` | `file` is what the parsers make of the file, `inMemory` the table; `FileRead`/`FileInstall` are the two halves of `update` |
| `Preloader` | `resolver/preloader.go` | `entry` per name, fresh or expired; `preLoop` is `Work`: a tick, a round over the table, a question to the inner forward, a `Put` |
| `ResolverChain` | `server.go`, `resolver/init.go`, `mock.go`, composed with `FileResolver` and `Preloader` | `chain` and its `life` from build to close; `walk` is the place of a query in `resolveOnly`; `Begin` asks `dnsCache`, `Accept`, `Refuse`, `Resolve`, `Answered`, `Failed` walk, `WriteNftSet`, `SetCache`, `Send` are the steps of an answer in the order of `Stages` |
| `ServerLifecycle` | `main.go`, `server.go` | `main` is the main goroutine in `reloadServer` and `Shutdown`; `udp[s]` and `http[s]` are the goroutines of the listeners of server `s`, with the attempt `retry` has reached; `started` and `inShutdown` are what the libraries keep, `path` is whose listener the socket's path leads to, `active` where a handler is at work |
| `AtomicFile` | the promise of `Save` | `Ask`, `Replace`, `Report`; `Die`, `Edit` |
| `ConfigSave` | `Save` and `pruneBackups` of `reloader.go` | `file`, `bak` by the place of a backup's name in the text order, `tmp`; one action per file operation, each of which may fail; `Crash` between any two, `SetClock` |
| `PortalEditor` | `web/portal/src/Config.tsx`, `Panel.tsx`, `api.ts` | `tab` is the state of the component, `call` its requests; `LoadConfig`, `Validate`, `Save` send, `LoadDone`, `ValidateDone`, `Saved`, `Conflict`, `NotSaved`, `Refetched` are the code behind each `await` |
| `MC*` | | the sets the configurations choose from, and symmetry |

Composition. `ResolverGen` implements `GenLifecycle` (`ImplementsLifecycle`, a
refinement mapping). The other modules meet at the interfaces of the code and
each takes its neighbour's promise as an assumption: `Forward` and `Mdns` are
closed when no query is inside `Resolve`, which is what `NoUseAfterClose` of
`ResolverGen` gives them; `ConfigControl` has a swap as one step, which
`ImplementsLifecycle` justifies, and a server that is replaced as drained, which
is `ShutdownCompletes`. It has a save of the file as one step, too: `ConfigSave`
implements `AtomicFile` (the second refinement mapping), in which it is one. The
drains of Shutdown, one action each in `ResolverGen`, are taken apart in
`ServerLifecycle`, where the libraries' part of them is written down;
`DrainedBeforeClosed` is what they are for. `ResolverRules` conjoins `RuleInclude`
and `DomainMatcher` and hands the rules of the first to the second. `ResolverChain` is
composed with `FileResolver` and `Preloader` by extension: it conjoins their steps with its own, closes them in
`CloseAll`, and reads their tables in `Accept` and `Resolve`. It closes a chain
when no query walks it, by `NoUseAfterClose` again. `PortalEditor` has the version
check of a save as one step with the write, which is `ReplacesSeenVersion` of
`ConfigControl`. `V2flyCache` has a rebuild, from the callback or from a reload,
as `ConfigControl` has it: reading, then installing.

What is abstracted. A configuration is its top level and its resolvers, and its
hash is itself. A generation is an address. An answer in the cache is the
generation it came from. A packet is the set of names it has A records for. A
domain is the sequence of its labels from the root down. Time is the fact that a
timer has or has not fired; a cached entry may expire at any moment. A list is
its version, or `Torn` when only part of it is in the file. An answer is an
address; elements of the nftset stay, their timeout is the kernel's. A draft is
the version it was loaded from and the set of edits made since. A line of a list is
the file it includes or a text, and what a text says is chosen when the matcher
reads it, since the parser does not look. The name of a backup is its place in the
order of the names. The portal of `ServerLifecycle` is on a unix socket; one on a
TCP address has no path to lose, and a bind that meets the old listener is an
attempt that fails.

Variables that are not in the code are marked in their module: `history`
(`Forward`), `heard` and `deaf` (`Mdns`), `given` (`DomainMatcher`), `says`
(`ResolverRules`), `undo` and `junk` (`ConfigSave`),
`overtaken` and `raced` (`ConfigControl`), `lost`
(`ResolverChain`: the addresses whose nft command failed), `made`, `saved`,
`given`, `late`, `base` and `conflicted` (`PortalEditor`), and the counters behind the
bounds `Max...`.

## The runs

Runs that pass:

| run | configuration | instance | shows |
|---|---|---|---|
| `gen` | `MCResolverGen.cfg` | 1 UDP query, a POST, the watcher, Shutdown, 3 generations, with fairness | `RefCountExact`, `NoUseAfterClose`, `OneCloser`, `NothingLeaked` (a chain the watcher installs too late excepted), `RetiredOnlyDrains`; `ShutdownCompletes`, and the refinement `ImplementsLifecycle` |
| `cfg_safety` | `MCConfigControl.cfg` | 3 changes at any moment, out of 2 edits of any field, 2 POSTs and 1 download; resolvers that may fail to build, files that do not parse, 3 servers | `HotReloadConverges`, with the five exceptions of `Overtakes`; `ReplacesSeenVersion`, unless an editor writes under the save |
| `cfg_live` | `MCConfigControlLive.cfg` | 1 edit at any moment, 1 POST whose body may never end, 1 refresh, servers that may be replaced before they have bound or give up, with fairness | `Quiesces`, if bodies end and no listener is orphaned |
| `fw_race` | `MCForward.cfg` | 3 queries, 2 probes, 2 upstreams, threshold 2, Close, with fairness | `LosersBeforeClose`, `FailsOnlyTogether`, `FlipsAfterRun`; `CloseEnds`: every loser leaves |
| `mdns_window` | `MCMdns.cfg` | 2 A queries for one name in 2 spellings, 1 other query, 2 packets over 2 names, a failing reader, Close, with fairness | `NobodyPassedBy`, `DeafIsNoMiss`; `ResolveReturns` |
| `rule_lists` | `MCResolverRules.cfg` | every configuration of up to 2 lines over 2 files that may include one another or be missing, 1 change of a file during the parse; out of it up to 3 rules of all kinds, of up to 2 labels and dots | `ParsedIsFlat`, `DepthBounded`, `FollowsPriority` |
| `v2fly_cache` | `MCV2flyCache.cfg` | 1 list of 2 versions, a reload beside the callback, 1 expiry, 1 crash, failing downloads and writes, 1 configuration that the callback cannot parse or cache file that cannot be read, with fairness | `MissingIsPending`, `TornIsHidden`, `DownloadTakesEffect`, `DownloadsEnd` |
| `chain_walk` | `MCResolverChain.cfg` | 5 chains of 2 resolvers, 2 queries, 1 edit of the file, 2 changes of the upstream, builds that fail, Close, with fairness | `AnswerIsRouted`, `BreakIsFinal`, `NoneInsideClosed`, `NothingRuns`, `CloseEnds`, `PreloaderConverges` |
| `portal_edit` | `MCPortalEditor.cfg` | 1 tab with 2 loads and a save or a validation under way, 2 edits, 1 change of the file by others, 1 lost request or response, saves that fail before or after the file is written, keys that are right, wrong, or refused for the page's origin, 1 change of the server's key | `NoSilentLoss`, `CleanMeansSaved`, `NoBlindOverwrite` |
| `srv_life` | `MCServerLifecycle.cfg` | 3 servers one after the other, with a portal or without, 2 attempts that fail, 1 read error, with fairness | `DrainedBeforeClosed`, `PortalReachable`; `RebuildEnds`, `ListensInTheEnd` |
| `cfg_save` | `MCConfigSave.cfg` | 5 saves that keep 2 backups, 1 edit, 2 failing operations, 1 crash, the clock set twice | `UndoKept`, `BackupsBounded`, and the refinement `ImplementsAtomicFile` |

The configurations name in comments more properties that hold on the same
instance: the type invariants, and those that say less than the ones checked or
lean on a single guard (`ClosedForGood`, `RetiredGetsClosed`, `AppliedIsOnDisk`,
`WebKeepsTopLevel`, `PostAnswered`, `LegsEnd`, `ClosedIsQuiet`, `NoWaiterLeft`,
`AnswerIsOwn`, `TreeIsSuffixSet`, `LastFailureIsReported`, `KeepsServing`,
`FileConverges`, `SavedBadgeIsTrue`, `BusyEnds`, `OneAnswers`, `MdnsCloseEnds`).

The run that ends in a violation, `cfg_lost_swap`, is the finding below.

Bounds, and why they are enough. A hazard of the generations involves one query
against one swap, or two closers of one generation; three generations make a
generation old while the next two come. One query is what fairness and the
refinement leave room for; the theorems are about any number of queries, and about
counts above one with them. The hazards of the configuration are races of at most two
writers with one event; two saves and an edit, or two edits and a save, make an event
late by a whole further change, and a third server is made while the first is drained. In `fw_race` the threshold is 2 instead of 5: what matters is
whether a run is interrupted, and a threshold of 2 has runs that are and runs
that are not; three queries fail it, with one to spare, and two probes bring it back. In
`mdns_window` a packet that serves two queries, one that serves one and one that
serves neither already occur with two names, and the second packet finds the map
as the first has left it. In `rule_lists` three rules are enough for a rule that opens a node,
one that passes through it and one that ends in it; two files make a file that
includes itself, two that include each other, and one that is included twice and is
no cycle, and one change makes an include that was harmless a cycle, or the
reverse, below an activation that has read the old file. In `v2fly_cache` the lists
share nothing but the retry goroutine, which takes them one after the other;
two versions and an expiry give a file that is older than the copy in memory,
one that is newer, and one that is as old as it. In `chain_walk` a chain of two
has a first that falls through and a last that does not; the five chains have
each kind of resolver at the place where it matters, and two queries for one name
make a slow answer overtaken by the refresh or by the other query. In
`srv_life` the third server shows that what the first has left behind does no harm
when the second is being shut down; two failures leave one of three attempts, and
with one failure for each listener both retry. In `cfg_save` two backups are kept
instead of five: five saves overfill them twice, and the clock can go to an earlier
and back to the first era with saves in each. In
`portal_edit` another tab is only somebody who writes the file, so that one tab
and one write are a conflict; an edit before a request and one after it are two.

No cfg of `ConfigControl` limits when an editor writes, a browser posts or a download
succeeds. `HotReloadConverges` instead names the steps after which the code does not
promise it. `overtaken` becomes true with one of the five steps of `Overtakes`, and false
again when file, controller and server agree with nothing on its way:

1. the watcher swaps into a server that is replaced, or about to be (`reloader.go:227`);
2. a rebuild fails whose top level is not that of the server that runs on
   (`reloader.go:231`: it counts as applied);
3. a web save is marked or swapped while the watcher applies something else, after the
   file has been edited again, or over a top level that is not yet in force
   (`config_api.go:157-159`);
4. the callback sends a file that is no longer there, or not yet applied
   (`main.go:61-66`);
5. an edit that no event reports: before the directory is watched, or with no watcher
   (`main.go:32-51`, and `main.go:98-121` for a watcher that could not be set up).

All else is left in: edits inside a save or a rebuild, two saves against each other and
the watcher, a second swap by the watcher of what a save has swapped, downloads, failing
builds, files that do not parse. Each exception, and within (3) and (4) each
condition, is needed: without it TLC reports a counterexample of `HotReloadConverges` in
`cfg_safety`, or, for what the watcher applies in (4), with `MaxChanges = 4`, one edit and
one top level, where `HotReloadConverges` holds, too. `FileIsRun` below is it without them.
`ReplacesSeenVersion` has one: `raced` has the requests under which an editor has
written since they took `writeMu`, which no editor takes. `Quiesces` has two, both
outside of `ConfigControl`'s reach: a client that never ends its body, and a listener
that is orphaned as `ServerLifecycle` shows.

`CHECK_DEADLOCK FALSE` is set where the system really stops: when all queries
have been answered, all edits made, or the server has been shut down.

Fairness, and why the code justifies it.

* A goroutine that can take a step takes it (weak fairness): the Go scheduler
  runs every runnable goroutine.
* Waiting for a lock is strongly fair: `sync.Mutex` hands itself to a waiter
  that has waited for a millisecond, and a waiting writer of a `sync.RWMutex`
  keeps new readers out. A send on a channel has its place in the channel's
  queue.
* An Exchange of the upstream library ends, by its timeout if by nothing else; a
  timer fires; a read of a closed socket fails.
* A DNS handler ends, as every exchange has a deadline and the nft command, we take
  it, ends. A handler of the portal reads a body for which nobody sets a deadline
  (`server.go:189`): that clients end theirs is a hypothesis of `RebuildEnds` and
  `Quiesces` (`BodiesEnd`), and without it TLC refutes `ShutdownNeedsNobody`. In
  `ResolverGen` a POST begins when its body has come. The goroutines of the
  listeners run. A listen that keeps failing is given up: `ListensInTheEnd` speaks
  of fewer failures than attempts, and no read error need be followed by a repair.
* Tickers tick and entries of the preloader expire; a download that is tried
  again and again succeeds in the end (`DownloadsEnd`, `DownloadTakesEffect`), as
  the retry goroutine goes on for ever. A request of the portal is answered or fails.
* Otherwise nothing is assumed to begin: no query, edit, save, packet, swap or
  shutdown need ever come, no other cache entry need expire, and no socket need fail.

## The proofs

A run shows a property of one small instance. The theorems state it for every
value of the constants: any number of queries, swaps, upstreams, names, packets,
lists, tabs and edits, any threshold, any chain, files of any length that include one
another in any way, domains of any depth. Each proof module states the
invariant that its results need, and has one lemma per action that the action
keeps it, with one step for each conjunct the action can disturb; `InitInv`,
`NextInv` and `Invariance` (or the same with the component's name) say that it holds
in every reachable state. TLC has
checked every such invariant on a small instance before it was proved.

| theorem | property | says |
|---|---|---|
| `ResolverGenProofs` | | |
| `TypeCorrect` | (`TypeOK`, in no run) | types; a counter is never negative |
| `CountingIsExact` | `RefCountExact` | `inUse` is the number of queries between acquire and release |
| `NeverClosedInUse` | `NoUseAfterClose` | no query walks a chain that is being or has been closed |
| `CloserIsUnique` | `OneCloser` | among queries and swaps one goroutine at most sets out to close a generation |
| `RetiredNeverEntered` | `RetiredOnlyDrains` | the count of a retired generation only falls |
| `NothingIsLeaked` | `NothingLeaked` | a server that has stopped has closed every chain it ever ran, but one the watcher is just closing and one it installed after Shutdown had looked |
| `FollowsLifecycle` | (the safety of `ImplementsLifecycle`) | every step is a step of `GenLifecycle` or none |
| `ConfigControlProofs` | | |
| `TypeCorrect` | (`TypeInv`, in no run) | types; no step of the code is reached without the values it works on |
| `SavesSeenVersion` | `ReplacesSeenVersion` | a save replaces the version its form was made from, unless an editor writes under it |
| `TopLevelIsKept` | (`WebKeepsTopLevel`, in no run) | with the same exception, a save from the web leaves the top level alone |
| `HotReload` | `HotReloadConverges` | the running server runs the file when nothing is on its way, unless one of the five steps of `Overtakes` came between |
| `BeliefIsTrue` | (`AppliedIsOnDisk`, in no run) | with the same exceptions, what counts as applied is on the disk |
| `ResolverChainProofs` | | |
| `AnswersAreRouted` | `AnswerIsRouted` | an address is in the nft set before a client has it |
| `BreaksAreFinal` | `BreakIsFinal` | nothing behind a resolver that breaks answers what it accepts |
| `ClosedIsEmpty` | `NoneInsideClosed` | nobody is inside an upstream that is closed |
| `ClosedIsStill` | `NothingRuns` | a closed chain leaves no goroutine and no open upstream |
| `LoadedStays` | (`KeepsServing`, in no run) | the preloader goes on serving what it has served |
| `ServerLifecycleProofs` | | |
| `ChainsClosedIdle` | `DrainedBeforeClosed` | a chain is closed after the handlers that walk it, but for a listener that was bound after its shutdown |
| `PathIsServing` | `PortalReachable` | the path of the portal leads to the server that serves |
| `ConfigSaveProofs` | | |
| `SaveIsAtomic` | `ImplementsAtomicFile` | the file operations of a save are one atomic replacement |
| `BackupsStayFew` | `BackupsBounded` | backups do not pile up |
| `UndoStays` | `UndoKept` | what the last saves have replaced is whole in a backup, if none between them failed or died, no editor wrote between read and rename, and the clock was not set back |
| `UpstreamProofs` | | |
| `LosersFirst` | `LosersBeforeClose` | an upstream is closed after the losers of all queries |
| `FailuresAreAll` | `FailsOnlyTogether` | a race fails only if all its upstreams do |
| `FlipsNeedRun` | `FlipsAfterRun` | a forward is given up, or taken back, after a whole run of results |
| `AllWaitersServed` | `NobodyPassedBy` | no answer passes by a query that waits for it |
| `DeathIsNoMiss` | `DeafIsNoMiss` | the death of the reader is never cached as a miss |
| `MapIsClean` | (`NoWaiterLeft`, `AnswerIsOwn`, in no run) | no waiter is left behind, and no answer is another's |
| `RuleListProofs` | | |
| `ParseIsExact` | `ParsedIsFlat` | a list is parsed to its rules in their places, or refused, and refused only for a cycle or a missing file |
| `ParseIsShallow` | `DepthBounded` | the parse is never deeper than there are files, even if they change meanwhile |
| `PriorityHolds` | `FollowsPriority` | a matcher accepts what the documented priority says |
| `TreesAreSets` | (`TreeIsSuffixSet`, in no run) | the suffix trees match the domains that the suffix rules cover |
| `NoListForgotten` | `MissingIsPending` | a list nobody has is being asked for |
| `HalfFilesHidden` | `TornIsHidden` | a file whose writing failed is hidden |
| `PortalEditorProofs` | | |
| `EditsSurvive` | `NoSilentLoss` | no edit vanishes in silence |
| `CleanIsSaved` | `CleanMeansSaved` | a draft that is not dirty has nothing the file has not had |
| `BadgeIsTrue` | (`SavedBadgeIsTrue`, in no run) | nor has one with the badge of a save, but for late edits |
| `SavesReplaceTheirBase` | `NoBlindOverwrite` | a save replaces the version its draft was loaded from |

Assumptions. They are the named `ASSUME`s of the modules, which TLC evaluates in
every run. `QueryAssumption` and `ForwardAssumption` have the queries of a server
and the upstreams of a forward finite, so that a number of them is one, and
`IncludeAssumption` the files that can be included;
`ProcAssumption`, `GenAssumption` and the disjointness in the others say that
different goroutines are different. `SaveAssumption` keeps at least one backup, as
`maxConfigBackups` does (`reloader.go:127`). `ChainAssumption` says what
`CreateResolvers` can build: at most one file resolver and one preloader, a TTL for
forwards only, and no rule for a file resolver, whose `Accept` looks at its tables
alone (`file.go:117`); without the last, `BreakIsFinal` would speak of rules that
nobody reads. The rest gives counters their type. The `Max...` of a module are
bounds for TLC; the theorems hold for each of their values.

No theorem has a hypothesis beyond these. What the code does not promise is an
exception in the property itself, as `overtaken` and `raced` are, and is the same in the
run and in the theorem; the findings below show what each exception stands for.

The arguments.

* `ResolverGenProofs`. `NoUseAfterClose` is not inductive: closing looks at a counter
  and not at the queries. `IndInv` ties them together: the pointer a process has at
  each of its places (`Shape`), `RefCountExact`, that who is about to close found the
  generation retired and empty (`ClosersAlone`), that no query is inside after the
  drains of Shutdown (`DrainedIdle`), and that a generation is closed only out of
  service or behind the drains (`ShutdownCloser`, `ClosedOutOfService`). A step that
  closes finds no holder because the counter is zero and exact; a step that enters
  does so under the read lock, in which no generation is retired. The counter rests
  on three lemmas on the cardinality of `Holders`. For `NothingLeaked`, `LeakInv`
  adds that a retired generation that is open has a holder or a closer on its way.
* `ConfigControlProofs`. A variable has its type, and no value in hand is nil where it
  is used (`TypeInv`). `LockInv`: one saver is under `writeMu`, and the document it
  has in hand is the file until it saves, unless the request is `raced`. For `HotReload`,
  `Ahead` is what the running server will run when the main loop has done what it has in
  hand: what is in the channel, else what is being made, else what runs. As long as
  nothing is overtaken (`InStride`), what the controller believes applied is `Ahead`,
  but for a watcher about to mark what it has swapped or sent and a save about to swap
  what it has marked (`Believed`); and the last event is taken after the last change of
  the file, so that a watcher that will hear of nothing more has the file in hand, or has
  found it applied (`Follows`). When nothing is on its way both together say that the
  running server runs the file. A step of the code keeps both or is in `Overtakes`; the
  history variables are conjoined to `Next`, and no action reads them.
* `ResolverChainProofs`. Two halves. What runs: everything that runs belongs to a
  resolver that is still to be closed (`LeftToClose`), and the upstream of a preloader
  is open while its goroutine runs and while the chain serves (`InnerIsOpen`). What is
  held: an address to be kept or sent has been routed, and one in `dnsCache` stays so
  (`Routed`); no walk and no entry has passed a resolver that breaks it (`Passed`).
  `WalkGoes` has the effect of any step of a walk, and the actions are cases of it.
* `ServerLifecycleProofs`. `IndInv` says at which stage of its life every server is,
  given the place of the main goroutine: those before the running one have ended,
  those after it have not begun, and the one between is as far down as Shutdown is.
* `ConfigSaveProofs`. `Base` has what the temporary file and the backup hold at each
  place of a save; with it every operation is a step of `AtomicFile` or none. For
  `BackupsBounded` the backups are counted through every creation, failure and
  removal; for `UndoKept`, `UndoInv` counts the backups later than the one that holds
  a content, so that the prune, which removes the first names, leaves it.
* `UpstreamProofs`, the forward. A caller that is not inside `Resolve` has no leg but
  losers, the wait group has none of a query left, and the counter that can flip the
  forward counts results of the run that `checkStatus` was given last (`CountsRun`).
* `UpstreamProofs`, the bridge. Properties that are nearly inductive together: a query
  that waits is in the map or has its answer, and one that was deaf found the reader
  dead ever after.
* `RuleListProofs`, the parse. The visited files are those of the activations, one
  each, so there are no more activations than files and one (`ParseIsShallow`). For
  `ParseIsExact`, as long as no file changes: every list on the stack is below those
  under it, and whatever a list includes is behind it, parsed and sound, or on the
  stack above it. So a file that is met while it is visited is below itself, and a
  list that ends is sound. And what is parsed, followed by the rules of all lines left
  on the stack, from the top down, is `Flat[Config]`: an include takes a file from the
  lines and puts its rules there, a return takes nothing. That the rules of a list no
  longer change once its includes have been followed as often as there are lists is an
  induction over how many lists it is made of.
* `RuleListProofs`, the matcher. One lemma about `AddDomain`, by induction along the
  domain that is asked for: as long as it goes along the name that was added it meets
  the new nodes, and where it leaves it the old ones. So a tree that has been given a
  name matches what it did and what the name covers, and `MatcherInv` says that trees
  and sets are those of the rules given; the priority follows by cases.
* `RuleListProofs`, the v2fly lists. One fact: while a process lives, a list that has
  a copy keeps one, as no file is removed and a copy in memory is dropped only when
  the file has been written. So a build that acts on what it has looked at long ago
  does no harm (`StillThere`, `Downloaded`), and a mark is cleared only for a list
  with a copy.
* `PortalEditorProofs`. Each call that is under way covers the draft that its answer
  will replace: what a load takes away was given up or came later (`LoadsGivenUp`), what
  a save takes away is in the file or came later (`SavesCover`).

Only model-checked:

* liveness, which needs fairness and `ENABLED`, out of the proof system's reach:
  `ShutdownCompletes`, `Quiesces`, `CloseEnds`, `ResolveReturns`, `DownloadTakesEffect`,
  `DownloadsEnd`, `PreloaderConverges`, `RebuildEnds`, `ListensInTheEnd`, and the
  fairness that `ImplementsLifecycle` has beyond `FollowsLifecycle`;
* `ClosedForGood`, `LastFailureIsReported` and the others that the configurations name
  in comments, as far as the table does not have them. They say less than the ones
  proved, or lean on one guard.

The library's induction theorems take an operator, which the provers cannot
instantiate. The proofs need induction over numbers only, and `RuleListProofs` has it as
a fact about a set of numbers (`NatSetInduction`), from the cardinality of finite sets;
for this, trees and includes are computed by recursive functions over numbers: steps
down a tree, and how often an include has been followed.

## Where the code and its documents differ

One has a run, whose counterexample shows it, and an entry in `PROJECT.json` that
quotes the line it contradicts.

| run | what happens |
|---|---|
| `cfg_lost_swap` | an edit of the resolvers that follows an edit of the top level goes into the server being replaced, and is lost (`reloader.go:227` against `main.go:79`) |

The models show more of the kind. Each property below has a configuration in which
TLC reports a counterexample (`tlc -config <configuration> <its MC module>`); where a
configuration names several, one is active and the others are in comments, to be
exchanged, in `MCConfigControlDiffers.cfg` together with the constants they name.

| configuration | property | what happens |
|---|---|---|
| `MCResolverGenDiffers.cfg` | `NoStaleAnswer` | a query in flight fills the cache with an answer of the old chain after the swap has cleared it (`server.go:362` against `server.go:124`) |
| | `ShutdownClosesActive` | the watcher installs a chain in a server that has been shut down; nothing closes it |
| `MCConfigControlDiffers.cfg` | `SelfWriteSkipped` | the watcher handles a save's event before the save has marked its version, and swaps again (`reloader.go:22` says never) |
| | `SelfWriteKeepsListeners` | the same, while the controller has no server yet: the listeners are torn down (`reloader.go:25`) |
| | `FailedSaveLeavesDisk` | a save reported as failed has been written to the disk (`README.md:40`) |
| | `FileIsRun` | an edit between reading the file and watching it is not noticed (`main.go:32-51`) |
| | `ApiKeyInEffect` | a rebuild that failed counts as applied; the repaired file is swapped in and the edited api key never takes effect (`auth.go:12`) |
| | `FileIsRun` | a save between a top-level edit and its reload marks the whole file as applied; the rebuild never comes (`reloader.go:157`) |
| | `FileIsRun` | the v2fly callback brings an older configuration back (`main.go:61-66`) |
| | `FileIsRun` | the watcher's mark overtakes a save's; an edit back to that content is skipped (`reloader.go:231`) |
| `MCForwardProbe.cfg` | `NoExchangeAfterClose` | a probe of a dead forward uses upstreams that have been closed (`forward.go:67` against `forward.go:132`) |
| `MCMdnsMiss.cfg` | `MissMeansSilence` | an answer received in the window is reported, and cached, as a miss (`mdns.go:193` against `CONTEXT.md:22`) |
| `MCResolverRulesDiffers.cfg` | `NegationExcludes` | `!keyword:x` accepts what it should exclude (`matcher.go:220` against `USAGE.md:221`) |
| | `NegationExcludesNoMore` | `!full:x` excludes the subdomains of x too (`USAGE.md:217`) |
| | `LinesLeaveRules` | a list whose only include is empty, or is read while it is being rewritten, leaves no rules, and a resolver without rules accepts every name (`config.go:665`, `matcher.go:190`) |
| `MCV2flyCacheDiffers.cfg` | `NeverCollapses` | after a crash between truncating and writing a cache file the empty list counts as fresh for a day, and a resolver with this rule only accepts every name (`config.go:84` against `config.go:676`) |
| | `DownloadIsKept` | the callback after a download finds a configuration it cannot parse and returns; the list is downloaded, not pending, and not in force until the next change (`main.go:62-64`) |
| | `SentinelIsTemporary` | a reload that read the sentinel is installed after the rebuild of the download; the list is missing until the next change (`config.go:702`) |
| `MCResolverChainDiffers.cfg` | `RefusedMeansUnmatched` | a resolver fails, those after it do not accept: the client gets REFUSED, as if none had accepted (`server.go:354` against `USAGE.md:30`) |
| | `AcceptedHasAddress` | the table is replaced between `Accept` and `Resolve` of a file resolver; the answer has no address (`file.go:117`) |
| | `ServedFresh` | an entry of the preloader expires, and is served, before the ticker refreshes it (`preloader.go:93` against `USAGE.md:142`) |
| | `RefreshIsRouted` | an address the preloader has fetched by itself is not in the nftset (`USAGE.md:160`) |
| `MCServerLifecycleDiffers.cfg` | `ShutdownReturns` | Shutdown finds a DNS listener that has not bound yet and can do nothing; the listener binds, and the rebuild waits for it for ever (`server.go:161` against `server.go:169`) |
| | `ShutdownNeedsNobody` | a client of the portal never ends its body: Shutdown waits for the handler without a deadline (`server.go:164`, `server.go:189`) |
| | `ReadErrorIsRetried` | after a read error the library's server counts as started and refuses all retries: DNS is given up, the portal goes on (`server.go:186`) |
| `MCConfigSaveDiffers.cfg` | `BackupOutlivesSave` | with a clock set back, the backup a save has just made is the first to be pruned (`reloader.go:137`) |
| | `ReplacedIsBackedUp` | an edit between the read and the rename is replaced, and is in no backup (`reloader.go:94`) |
| | `BackupsCapped` | a save that fails after its backup does not prune (`reloader.go:98`) |
| | `NoLitter` | a process that dies leaves its temporary file (`reloader.go:102`) |
| `MCConfigSavePower.cfg` | `ImplementsAtomicFile` | nothing is flushed: after a power cut the renamed file may be torn (`reloader.go:116`) |
| `MCPortalEditorDiffers.cfg` | `ConflictLocksSave` | the reload after a conflict, or a validation, unlocks Save before anything has been loaded (`Config.tsx:151`); the server still refuses the save, which is `NoBlindOverwrite` |
| | `ConflictMeansElsewhere` | the response of a save is lost; the next save conflicts with it, and the page says somebody else changed the file (`Config.tsx:471`) |
| | `NoEditLost` | an edit made during a save is replaced by what is fetched after it (`Config.tsx:260`) |

## What is not modelled

The parts listed as `not_modelled` in `PROJECT.json`, with the reason: the conversion
of YAML and JSON and the validation of fields, the access control of single
requests, rendering in the portal, and packaging, which have no control worth a
model. Of the modelled parts: logging, message packing, the arithmetic of TTLs (an
entry may expire at any time; a resolver whose TTL keeps it out of `dnsCache` is
marked so), the nft command itself, selection and dragging in the portal, and the
unlocked write of `s.config` in `SwapResolvers`, whose readers use only fields a swap
does not change. A ticker that fires after it was stopped is one that fired just
before. `ServerLifecycle` has the libraries of both listeners as they are documented
and used, not as they are written. `RuleInclude` leaves blank lines and comments out,
and takes every line of the network or the disk as one read.

## Plan

Every module of the plan is written: `GenLifecycle`, `ResolverGen`, `ConfigControl`,
`Forward`, `Mdns`, `DomainMatcher`, `RuleInclude`, `ResolverRules`, `V2flyCache`,
`DnsData`, `FileResolver`, `Preloader`, `ResolverChain`, `PortalEditor`,
`ServerLifecycle`, `AtomicFile` and `ConfigSave`, and every component that has a module
has theorems. What the runs check of safety is proved, with the exceptions its
properties name. What is left: the liveness properties, which stay with TLC, and of
those that the configurations name in comments `ClosedForGood` and
`LastFailureIsReported`.
