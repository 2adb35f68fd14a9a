----------------------------- MODULE V2flyCache ------------------------------
(***************************************************************************)
(* The v2fly rule lists (config/config.go): the cache files, the copies in *)
(* memory, the set of lists to be downloaded, the retry goroutine that     *)
(* downloads them, and the builds of a configuration that read them.       *)
(*                                                                         *)
(* A build is one ParseConfig: of main at start-up, of the callback of the *)
(* retry goroutine, or of a reloader, that is the watcher or a handler of  *)
(* the web API.  Its result, the rules of every list, is thrown away       *)
(* (validation), swapped into the running server, or sent to the main loop *)
(* that makes a new server of it.  Every configuration that parses names   *)
(* the same lists and its resolvers can be built; what happens otherwise   *)
(* is ConfigControl's.  A build that fails has looked at some of the lists *)
(* before, and that of the callback then sends nothing.                    *)
(*                                                                         *)
(* The content of a list is its version; Torn is that of a file whose      *)
(* writing has not ended, Sentinel the rule that stands for a list nobody  *)
(* has yet.                                                                *)
(***************************************************************************)
EXTENDS Integers, Sequences, FiniteSets

CONSTANTS Lists,        \* the lists of the configuration, in its order
          Reloader,     \* the watcher and the handlers that build
          MaxVersion,   \* versions of a list at GitHub
          MaxBuilds,    \* builds of reloaders
          MaxExpiries,  \* times a cache file passes its 24 hours
          MaxCrashes,
          MaxFaults     \* configurations the callback cannot parse, and cache
                        \* files that are there and cannot be read

List == {Lists[i] : i \in DOMAIN Lists}
Builder == Reloader \cup {"main", "retry"}

Absent == -2
Sentinel == -1
Torn == 0
Version == 1..MaxVersion

ASSUME V2flyAssumption == /\ Lists \in Seq(List) /\ Lists # <<>>
                          /\ Reloader \cap {"main", "retry"} = {}
                          /\ MaxVersion \in Nat \ {0} /\ MaxBuilds \in Nat
                          /\ MaxExpiries \in Nat /\ MaxCrashes \in Nat
                          /\ MaxFaults \in Nat

VARIABLES disk,     \* the cache files: content, and age below the TTL or not
          mem,      \* memV2flyCache
          pending,  \* pendingV2fly
          github,   \* the current version of every list
          build,    \* each builder: pc, list it is at, age seen, rules so far
          retry,    \* the retry goroutine: pc, lists left, list, lines, refreshed
          chan,     \* configChan, of capacity 1
          main,     \* the main loop: pc and the rules received
          running,  \* the rules of the running server
          builds, expiries, crashes, faults

vars == <<disk, mem, pending, github, build, retry, chan, main, running, builds, expiries,
          crashes, faults>>
env == <<github, builds, expiries, crashes, faults>>
server == <<chan, main, running>>

Nothing == [l \in List |-> Absent]
Idle == [pc |-> "idle", at |-> 1, fresh |-> FALSE, rules |-> Nothing]
Begun == [Idle EXCEPT !.pc = "mem"]
RetryOff == [pc |-> "off", todo |-> {}, list |-> Lists[1], lines |-> Absent, refreshed |-> FALSE]

\* Everything that a process has in memory when it starts: main reads its
\* configuration before there is a retry goroutine.
Started == /\ mem' = Nothing
           /\ pending' = {}
           /\ build' = [b \in Builder |-> IF b = "main" THEN Begun ELSE Idle]
           /\ retry' = RetryOff
           /\ chan' = <<>>
           /\ main' = [pc |-> "boot", rules |-> Nothing]
           /\ running' = Nothing

Init == /\ disk \in [List -> {[data |-> Absent, fresh |-> FALSE]}
                               \cup [data : {1}, fresh : BOOLEAN]]
        /\ mem = Nothing
        /\ pending = {}
        /\ github = [l \in List |-> 1]
        /\ build = [b \in Builder |-> IF b = "main" THEN Begun ELSE Idle]
        /\ retry = RetryOff
        /\ chan = <<>>
        /\ main = [pc |-> "boot", rules |-> Nothing]
        /\ running = Nothing
        /\ builds = 0 /\ expiries = 0 /\ crashes = 0 /\ faults = 0

-----------------------------------------------------------------------------
(* fetchV2flyList, for one list after the other.                           *)

At(b) == Lists[build[b].at]
Found(b, content, then) ==
    build' = [build EXCEPT ![b].rules[At(b)] = content, ![b].pc = then]

\* The copy in memory comes first, whatever its age.
LoadMem(b) == /\ build[b].pc = "mem"
              /\ IF mem[At(b)] # Absent THEN Found(b, mem[At(b)], "clear")
                 ELSE build' = [build EXCEPT ![b].pc = "stat"]
              /\ UNCHANGED <<disk, mem, pending, retry, server, env>>

\* readV2flyCache: the age first, then the lines.
Stat(b) == /\ build[b].pc = "stat"
           /\ IF disk[At(b)].data = Absent THEN Found(b, Sentinel, "mark")
              ELSE build' = [build EXCEPT ![b].pc = "read", ![b].fresh = disk[At(b)].fresh]
           /\ UNCHANGED <<disk, mem, pending, retry, server, env>>

MarkAlways(b) == TRUE
MustMark(b) == ~build[b].fresh

ReadFile(b) == /\ build[b].pc = "read"
               /\ Found(b, disk[At(b)].data, IF MustMark(b) THEN "mark" ELSE "clear")
               /\ UNCHANGED <<disk, mem, pending, retry, server, env>>

\* A read that fails counts as no file at all.
Fault == /\ faults < MaxFaults
         /\ faults' = faults + 1
         /\ UNCHANGED <<github, builds, expiries, crashes>>

ReadFileFails(b) == /\ build[b].pc = "read"
                    /\ Fault
                    /\ Found(b, Sentinel, "mark")
                    /\ UNCHANGED <<disk, mem, pending, retry, server>>

LastList(b) == build[b].at = Len(Lists)

NextList(b) == build' = [build EXCEPT ![b] =
                   IF LastList(b) THEN [@ EXCEPT !.pc = "built", !.fresh = FALSE]
                   ELSE [@ EXCEPT !.pc = "mem", !.fresh = FALSE, !.at = build[b].at + 1]]

MarkPending(b) == /\ build[b].pc = "mark"
                  /\ pending' = pending \cup {At(b)}
                  /\ NextList(b)
                  /\ UNCHANGED <<disk, mem, retry, server, env>>

ClearFresh(b) == /\ build[b].pc = "clear"
                 /\ pending' = pending \ {At(b)}
                 /\ NextList(b)
                 /\ UNCHANGED <<disk, mem, retry, server, env>>

Fetch(b) == \/ LoadMem(b) \/ Stat(b) \/ ReadFile(b) \/ ReadFileFails(b)
            \/ MarkPending(b) \/ ClearFresh(b)

-----------------------------------------------------------------------------
(* What becomes of a build.                                                *)

\* main: ReadConfig, the first configuration into the channel, StartV2flyRetry.
Boot == /\ build["main"].pc = "built"
        /\ chan' = <<build["main"].rules>>
        /\ build' = [build EXCEPT !["main"] = Idle]
        /\ main' = [main EXCEPT !.pc = "recv"]
        /\ retry' = [retry EXCEPT !.pc = "wait"]
        /\ UNCHANGED <<disk, mem, pending, running, env>>

Receive == /\ main.pc = "recv"
           /\ chan # <<>>
           /\ main' = [pc |-> "create", rules |-> Head(chan)]
           /\ chan' = Tail(chan)
           /\ UNCHANGED <<disk, mem, pending, build, retry, running, env>>

\* reloadServer.
Install == /\ main.pc = "create"
           /\ running' = main.rules
           /\ main' = [pc |-> "recv", rules |-> Nothing]
           /\ UNCHANGED <<disk, mem, pending, build, retry, chan, env>>

\* An edit of the file, or a request of the web editor.
Reload(b) == /\ build[b].pc = "idle"
             /\ running # Nothing
             /\ builds < MaxBuilds
             /\ builds' = builds + 1
             /\ build' = [build EXCEPT ![b] = Begun]
             /\ UNCHANGED <<disk, mem, pending, retry, server, github, expiries, crashes, faults>>

\* Nothing comes of a build that only validates, or that fails: at any line of
\* the configuration, when it has looked at some of the lists.
Discard(b) == /\ build[b].pc \in {"mem", "built"}
              /\ build' = [build EXCEPT ![b] = Idle]
              /\ UNCHANGED <<disk, mem, pending, retry, server, env>>

Swap(b) == /\ build[b].pc = "built"
           /\ running' = build[b].rules
           /\ build' = [build EXCEPT ![b] = Idle]
           /\ UNCHANGED <<disk, mem, pending, retry, chan, main, env>>

Send(b) == /\ build[b].pc = "built"
           /\ chan = <<>>
           /\ chan' = <<build[b].rules>>
           /\ build' = [build EXCEPT ![b] = Idle]
           /\ retry' = [retry EXCEPT !.pc = IF b = "retry" THEN "wait" ELSE @]
           /\ UNCHANGED <<disk, mem, pending, main, running, env>>

\* The callback cannot parse the configuration, and returns.
RefreshFails == /\ build["retry"].pc \in {"mem", "built"}
                /\ Fault
                /\ build' = [build EXCEPT !["retry"] = Idle]
                /\ retry' = [retry EXCEPT !.pc = "wait"]
                /\ UNCHANGED <<disk, mem, pending, server>>

-----------------------------------------------------------------------------
(* runV2flyAttempt.                                                        *)

\* The first attempt after two seconds, then one at every tick.
Attempt == /\ retry.pc = "wait"
           /\ pending # {}
           /\ retry' = [retry EXCEPT !.pc = "next", !.todo = pending]
           /\ UNCHANGED <<disk, mem, pending, build, server, env>>

GivenUp(l) == pending \ {l}
LeftPending(l) == pending

DownloadFails(l) == /\ retry.pc = "next" /\ l \in retry.todo
                    /\ retry' = [retry EXCEPT !.todo = @ \ {l}]
                    /\ pending' = LeftPending(l)
                    /\ UNCHANGED <<disk, mem, build, server, env>>

Download(l) == /\ retry.pc = "next" /\ l \in retry.todo
               /\ retry' = [retry EXCEPT !.pc = "open", !.list = l, !.lines = github[l],
                                         !.todo = @ \ {l}]
               /\ UNCHANGED <<disk, mem, pending, build, server, env>>

\* os.WriteFile truncates the file, which sets its time, and then writes it;
\* a directory that cannot be written fails before, a full disk after.
OpenFails == /\ retry.pc = "open"
             /\ retry' = [retry EXCEPT !.pc = "stash"]
             /\ UNCHANGED <<disk, mem, pending, build, server, env>>

Truncate == /\ retry.pc = "open"
            /\ disk' = [disk EXCEPT ![retry.list] = [data |-> Torn, fresh |-> TRUE]]
            /\ retry' = [retry EXCEPT !.pc = "write"]
            /\ UNCHANGED <<mem, pending, build, server, env>>

WriteFails == /\ retry.pc = "write"
              /\ retry' = [retry EXCEPT !.pc = "stash"]
              /\ UNCHANGED <<disk, mem, pending, build, server, env>>

WriteLines == /\ retry.pc = "write"
              /\ disk' = [disk EXCEPT ![retry.list] = [data |-> retry.lines, fresh |-> TRUE]]
              /\ retry' = [retry EXCEPT !.pc = "unstash"]
              /\ UNCHANGED <<mem, pending, build, server, env>>

NotStashed == mem
Stashed == [mem EXCEPT ![retry.list] = retry.lines]

StoreMem == /\ retry.pc = "stash"
            /\ mem' = Stashed
            /\ retry' = [retry EXCEPT !.pc = "clear"]
            /\ UNCHANGED <<disk, pending, build, server, env>>

Kept == mem
Unstashed == [mem EXCEPT ![retry.list] = Absent]

ClearMem == /\ retry.pc = "unstash"
            /\ mem' = Unstashed
            /\ retry' = [retry EXCEPT !.pc = "clear"]
            /\ UNCHANGED <<disk, pending, build, server, env>>

ClearPending == /\ retry.pc = "clear"
                /\ pending' = pending \ {retry.list}
                /\ retry' = [retry EXCEPT !.pc = "next", !.list = Lists[1], !.lines = Absent,
                                          !.refreshed = TRUE]
                /\ UNCHANGED <<disk, mem, build, server, env>>

\* The callback builds and sends when something has been downloaded.
EndAttempt == /\ retry.pc = "next"
              /\ retry.todo = {}
              /\ IF retry.refreshed
                   THEN /\ retry' = [retry EXCEPT !.pc = "refresh", !.refreshed = FALSE]
                        /\ build' = [build EXCEPT !["retry"] = Begun]
                   ELSE /\ retry' = [retry EXCEPT !.pc = "wait"]
                        /\ UNCHANGED build
              /\ UNCHANGED <<disk, mem, pending, server, env>>

-----------------------------------------------------------------------------
(* GitHub, the clock, and a crash or a restart of the process.             *)

Publish(l) == /\ github[l] < MaxVersion
              /\ github' = [github EXCEPT ![l] = @ + 1]
              /\ UNCHANGED <<disk, mem, pending, build, retry, server, builds, expiries, crashes,
                              faults>>

Expire(l) == /\ disk[l].fresh
             /\ expiries < MaxExpiries
             /\ expiries' = expiries + 1
             /\ disk' = [disk EXCEPT ![l].fresh = FALSE]
             /\ UNCHANGED <<mem, pending, build, retry, server, github, builds, crashes, faults>>

Crash == /\ crashes < MaxCrashes
         /\ crashes' = crashes + 1
         /\ Started
         /\ UNCHANGED <<disk, github, builds, expiries, faults>>

-----------------------------------------------------------------------------
WriteStep == \/ OpenFails \/ Truncate \/ WriteFails \/ WriteLines
             \/ StoreMem \/ ClearMem \/ ClearPending
RetryStep == WriteStep \/ EndAttempt \/ \E l \in List : Download(l) \/ DownloadFails(l)
MainStep == Boot \/ Receive \/ Install
ReloadStep(b) == Discard(b) \/ Swap(b) \/ Send(b)

Next == \/ \E b \in Builder : Fetch(b)
        \/ \E b \in Reloader : Reload(b) \/ ReloadStep(b)
        \/ MainStep
        \/ Attempt \/ RetryStep \/ Send("retry") \/ RefreshFails
        \/ \E l \in List : Publish(l) \/ Expire(l)
        \/ Crash

\* Goroutines go on, the ticker ticks, a send has its place in the queue of the
\* channel, and a list whose download is tried again and again is downloaded
\* some time.  Nothing is published, expires, is reloaded or crashes by itself.
Fairness == /\ \A b \in Builder : WF_vars(Fetch(b))
            /\ \A b \in Reloader : WF_vars(ReloadStep(b))
            /\ WF_vars(MainStep)
            /\ WF_vars(Attempt)
            /\ WF_vars(RetryStep)
            /\ SF_vars(Send("retry"))
            /\ \A l \in List : SF_vars(Download(l))

Spec == Init /\ [][Next]_vars
FairSpec == Spec /\ Fairness

-----------------------------------------------------------------------------
(* Properties.                                                             *)

Rules == [List -> {Absent, Sentinel, Torn} \cup Version]

TypeOK == /\ disk \in [List -> [data : {Absent, Torn} \cup Version, fresh : BOOLEAN]]
          /\ mem \in [List -> {Absent} \cup Version]
          /\ pending \subseteq List
          /\ github \in [List -> Version]
          /\ build \in [Builder -> [pc : {"idle", "mem", "stat", "read", "mark", "clear", "built"},
                                    at : DOMAIN Lists, fresh : BOOLEAN, rules : Rules]]
          /\ retry \in [pc : {"off", "wait", "next", "open", "write", "stash", "unstash", "clear",
                              "refresh"},
                        todo : SUBSET List, list : List, lines : {Absent} \cup Version,
                        refreshed : BOOLEAN]
          /\ chan \in {<<>>} \cup {<<r>> : r \in Rules}
          /\ main \in [pc : {"boot", "recv", "create"}, rules : Rules]
          /\ running \in Rules
          /\ builds \in 0..MaxBuilds /\ expiries \in 0..MaxExpiries /\ crashes \in 0..MaxCrashes
          /\ faults \in 0..MaxFaults

\* A list of which there is no copy, neither file nor memory, is in the set of
\* the lists to be downloaded, however builds and the retry goroutine mark and
\* clear it: no list is forgotten (config.go:117-127, 681-701).
MissingIsPending ==
    main.pc # "boot" => \A l \in List : disk[l].data = Absent /\ mem[l] = Absent => l \in pending

\* As long as the process lives, a file whose writing was begun and not ended
\* is being written or is hidden by the copy in memory: no build that comes
\* after the attempt reads it (config.go:179-193, 682-687).
TornIsHidden ==
    crashes = 0 => \A l \in List :
        disk[l].data = Torn => \/ mem[l] # Absent
                               \/ retry.list = l /\ retry.pc \in {"write", "stash"}

\* What has been downloaded is installed, unless a crash comes first, or the
\* configuration or the file just written cannot be read, which nobody tries
\* again (main.go:62-64): no older copy, in memory or on disk, hides the new
\* lines from the build of the callback, and the callback is not left out
\* (config.go:168-201, main.go:59-67).
Undisturbed == crashes = 0 /\ faults = 0
DownloadTakesEffect ==
    \A l \in List, v \in Version :
        Undisturbed /\ retry.pc = "clear" /\ retry.list = l /\ retry.lines = v
            ~> running[l] >= v \/ ~Undisturbed

\* The downloads come to an end: the rebuild that a download causes does not
\* mark its list again, so the server is not rebuilt every 30 seconds
\* (config.go:192-200, 681-694).
DownloadsEnd == <>[](pending = {} /\ retry.pc = "wait")

\* A download is not thrown away: whatever fails, a list that has been
\* downloaded is installed or downloaded again.  It is not when the callback
\* finds a configuration it cannot parse (main.go:62-64).
DownloadIsKept ==
    \A l \in List, v \in Version :
        retry.pc = "clear" /\ retry.list = l /\ retry.lines = v
            ~> running[l] >= v \/ l \in pending \/ crashes > 0

\* "v2flyPendingSentinel keeps a v2fly:<list> rule from collapsing the resolver
\* to AcceptAll while the cache is being fetched" (config.go:676-680): no
\* server runs with the rules of a file that is still to be written.
NeverCollapses == \A l \in List : running[l] # Torn

\* "the resolver effectively contributes nothing from this entry until the
\* background download writes a real cache and the config reloads"
\* (config.go:678-680): a server that runs with the sentinel of a list waits
\* for a download of it or for the rebuild after one.
SentinelIsTemporary ==
    main.pc = "recv" => \A l \in List : running[l] = Sentinel
        => \/ l \in pending
           \/ retry.pc # "wait" \/ chan # <<>>
           \/ \E b \in Builder : build[b].pc # "idle"
=============================================================================
