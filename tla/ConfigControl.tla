--------------------------- MODULE ConfigControl ----------------------------
(***************************************************************************)
(* How a change of the configuration reaches the running server            *)
(* (main.go, reloader.go, config_api.go): the file on disk, the fsnotify   *)
(* watcher that runs ConfigController.Reload, the POST /api/config         *)
(* handlers, the v2fly retry callback, and the main loop that replaces the *)
(* whole server.                                                           *)
(*                                                                         *)
(* A configuration is its top-level fields (top) and its resolvers (res);  *)
(* two contents are equal when their bytes are, so the content hash is the *)
(* content.  Broken is a file ParseConfig rejects, or no file.  CreateRe-  *)
(* solvers fails for the resolvers in BadRes; for those in FlakyRes it may *)
(* fail (a socket, a file of rules), and it succeeds for the others.       *)
(* The rename in Save and the write of an editor replace the file in one   *)
(* step; an editor that truncates first is an edit to Broken followed by   *)
(* another.  writeMu is held by the handler past its "begun" state.        *)
(***************************************************************************)
EXTENDS Integers, Sequences, FiniteSets

CONSTANTS Top, Res, BadRes, FlakyRes, Broken,
          Server,      \* addresses of DnsSwitchyServer values
          Poster,      \* POST requests, each with the GET it follows
          None,
          MaxEdits,    \* external edits of the file
          MaxRefresh,  \* v2fly downloads that succeed
          MaxChanges   \* edits, downloads and forms, all together

Conf == [top : Top, res : Res]
Content == Conf \cup {Broken}

ASSUME ConfAssumption == /\ Broken \notin Conf /\ None \notin Content
                         /\ None \notin Server /\ BadRes \cup FlakyRes \subseteq Res
ASSUME BoundAssumption == MaxEdits \in Nat /\ MaxRefresh \in Nat /\ MaxChanges \in Nat

VARIABLES disk,      \* the content of the config file
          events,    \* fsnotify events not yet taken by the watcher
          applied,   \* appliedHash with appliedTopLevel
          chan,      \* configChan, of capacity 1
          srv,       \* the configuration each server runs
          up,        \* "new", "starting" (no UDP socket yet), "running",
                     \* "draining", "orphan" (Shutdown came before the socket), "stopped"
          wired,     \* the servers with a configCtl
          running,   \* runningServer of main
          ctl,       \* ConfigController.server
          main,      \* the main loop: pc, the config received, the server created
          watch,     \* the watcher inside Reload: pc, bytes read, server picked
          post,      \* each request: pc, version sent, new resolvers, doc, server
          refresh,   \* the v2fly callback: pc, config read
          edits, refreshes,
          overtaken, \* history: a change was overtaken, see Overtakes
          raced      \* history: the requests an editor wrote under

sys == <<disk, events, applied, chan, srv, up, wired, running, ctl, main, watch, post,
         refresh, edits, refreshes>>
vars == <<sys, overtaken, raced>>
servers == <<srv, up, wired, running, ctl>>
env == <<edits, refreshes>>

Request(label) == [pc |-> label, ver |-> None, res |-> None, doc |-> None, srv |-> None]

Init == /\ disk \in {c \in Conf : c.res \notin BadRes \cup FlakyRes}
        /\ events = 0
        /\ applied = None
        /\ chan = <<>>
        /\ srv = [s \in Server |-> None]
        /\ up = [s \in Server |-> "new"]
        /\ wired = {}
        /\ running = None
        /\ ctl = None
        /\ main = [pc |-> "boot", cfg |-> None, new |-> None]
        /\ watch = [pc |-> "idle", cfg |-> None, srv |-> None]
        /\ post = [p \in Poster |-> Request("idle")]
        /\ refresh = [pc |-> "idle", cfg |-> None]
        /\ edits = 0
        /\ refreshes = 0
        /\ overtaken = FALSE
        /\ raced = {}

Alive == main.pc # "fatal"
Prepared == main.pc \notin {"boot", "seed", "watch"}
Watching == Prepared /\ watch.pc # "off"
CanBuild(c) == c.res \notin BadRes
CanFail(c) == c.res \in BadRes \cup FlakyRes

\* The bound on what comes from outside, in any mixture.
MayChange == edits + refreshes + Cardinality({p \in Poster : post[p].pc # "idle"}) < MaxChanges

\* A send into configChan blocks while it is full.
Send(c) == chan = <<>> /\ chan' = <<c>>

\* A write to the file: the watcher gets an event once it is watching.
Write(c) == /\ disk' = c
            /\ events' = IF Watching THEN events + 1 ELSE events

-----------------------------------------------------------------------------
(* The main goroutine: start-up, then one configuration at a time.         *)

\* ReadConfig, and the first configuration goes into the channel.
Boot == /\ main.pc = "boot"
        /\ IF disk = Broken
             THEN main' = [main EXCEPT !.pc = "fatal"] /\ UNCHANGED chan
             ELSE main' = [main EXCEPT !.pc = "seed"] /\ chan' = <<disk>>
        /\ UNCHANGED <<disk, events, applied, servers, watch, post, refresh, env>>

\* NewConfigController hashes the file as it is now.
Seed == /\ main.pc = "seed"
        /\ applied' = disk
        /\ main' = [main EXCEPT !.pc = "watch"]
        /\ UNCHANGED <<disk, events, chan, servers, watch, post, refresh, env>>

\* Without a watcher, or its directory, the process runs on and sees no edit.
Watch == /\ main.pc = "watch"
         /\ main' = [main EXCEPT !.pc = "recv"]
         /\ watch' \in {watch, [watch EXCEPT !.pc = "off"]}
         /\ UNCHANGED <<disk, events, applied, chan, servers, post, refresh, env>>

Receive == /\ main.pc = "recv"
           /\ chan # <<>>
           /\ main' = [main EXCEPT !.pc = "create", !.cfg = Head(chan)]
           /\ chan' = Tail(chan)
           /\ UNCHANGED <<disk, events, applied, servers, watch, post, refresh, env>>

\* Create fails: fatal for the first server, otherwise the old one runs on.
CreateFails == /\ main.pc = "create"
               /\ CanFail(main.cfg)
               /\ main' = [pc |-> IF running = None THEN "fatal" ELSE "recv",
                             cfg |-> None, new |-> None]
               /\ UNCHANGED <<disk, events, applied, chan, servers, watch, post, refresh, env>>

\* An address no goroutine holds any more.
FreeServer == {s \in Server : /\ s \notin {running, ctl, watch.srv}
                              /\ \A p \in Poster : post[p].srv # s}

\* Create, and Shutdown of the old server begins.  dns.Server refuses to shut
\* down what has no socket yet: that listener comes up later and stays.
Create == /\ main.pc = "create"
          /\ CanBuild(main.cfg)
          /\ \E s \in FreeServer :
                /\ srv' = [srv EXCEPT ![s] = main.cfg]
                /\ up' = [up EXCEPT ![s] = "new",
                                    ![running] = IF @ = "starting" THEN "orphan"
                                                                   ELSE "draining"]
                /\ wired' = wired \ {s}
                /\ main' = [main EXCEPT !.pc = "shutdown", !.new = s]
          /\ UNCHANGED <<disk, events, applied, chan, running, ctl, watch, post, refresh, env>>

\* Shutdown of the old server waits for its handlers and its listeners; an
\* orphan never ends, and nothing bounds a handler.  Then Start.
HandlingOpen(p) == post[p].pc \notin {"idle", "done"}
Handling(p) == post[p].pc \notin {"idle", "form", "done"}
Orphaned == main.pc = "shutdown" /\ running # None /\ up[running] = "orphan"

Start == /\ main.pc = "shutdown"
         /\ ~Orphaned
         /\ \A p \in Poster : Handling(p) => post[p].srv \notin {running, None}
         /\ up' = [up EXCEPT ![running] = "stopped", ![main.new] = "starting"]
         /\ running' = main.new
         /\ main' = [main EXCEPT !.pc = "wire"]
         /\ UNCHANGED <<disk, events, applied, chan, srv, wired, ctl, watch, post, refresh, env>>

\* StartPlainUDPServer: the socket is bound, or retry gives up; then nothing
\* keeps Shutdown from returning.
Listen(s) == /\ up[s] = "starting"
             /\ up' = [up EXCEPT ![s] = "running"]
             /\ UNCHANGED <<disk, events, applied, chan, srv, wired, running, ctl, main, watch,
                            post, refresh, env>>

GiveUp(s) == /\ up[s] = "orphan"
             /\ up' = [up EXCEPT ![s] = "draining"]
             /\ UNCHANGED <<disk, events, applied, chan, srv, wired, running, ctl, main, watch,
                            post, refresh, env>>

Wire == /\ main.pc = "wire"
        /\ wired' = wired \cup {running}
        /\ main' = [main EXCEPT !.pc = "setServer"]
        /\ UNCHANGED <<disk, events, applied, chan, srv, up, running, ctl, watch, post, refresh, env>>

SetServer == /\ main.pc = "setServer"
             /\ ctl' = running
             /\ main' = [pc |-> "recv", cfg |-> None, new |-> None]
             /\ UNCHANGED <<disk, events, applied, chan, srv, up, wired, running, watch, post,
                            refresh, env>>

-----------------------------------------------------------------------------
(* The watcher: one event, one Reload.                                     *)

WatchIdle == [pc |-> "idle", cfg |-> None, srv |-> None]

TakeEvent == /\ watch.pc = "idle"
             /\ events > 0
             /\ events' = events - 1
             /\ watch' = [watch EXCEPT !.pc = "load"]
             /\ UNCHANGED <<disk, applied, chan, servers, main, post, refresh, env>>

Load == /\ watch.pc = "load"
        /\ watch' = [watch EXCEPT !.pc = "check", !.cfg = disk]
        /\ UNCHANGED <<disk, events, applied, chan, servers, main, post, refresh, env>>

\* Our own write is recognised by its content; what does not parse is left.
CheckHash == /\ watch.pc = "check"
             /\ watch' = IF watch.cfg \in {applied, Broken}
                           THEN WatchIdle
                           ELSE [watch EXCEPT !.pc = "route", !.srv = ctl]
             /\ UNCHANGED <<disk, events, applied, chan, servers, main, post, refresh, env>>

TopLevelChanged(c, s) == s = None \/ applied \in {None, Broken} \/ c.top # applied.top

Route == /\ watch.pc = "route"
         /\ watch' = [watch EXCEPT !.pc = IF TopLevelChanged(watch.cfg, watch.srv)
                                            THEN "send" ELSE "swap"]
         /\ UNCHANGED <<disk, events, applied, chan, servers, main, post, refresh, env>>

\* reloadFull.
SendFull == /\ watch.pc = "send"
            /\ Send(watch.cfg)
            /\ watch' = [watch EXCEPT !.pc = "mark"]
            /\ UNCHANGED <<disk, events, applied, servers, main, post, refresh, env>>

SwapFails == /\ watch.pc = "swap"
             /\ CanFail(watch.cfg)
             /\ watch' = WatchIdle
             /\ UNCHANGED <<disk, events, applied, chan, servers, main, post, refresh, env>>

\* SwapResolvers changes the chain of the server picked, and nothing else.
Swap == /\ watch.pc = "swap"
        /\ CanBuild(watch.cfg)
        /\ srv' = [srv EXCEPT ![watch.srv].res = watch.cfg.res]
        /\ watch' = [watch EXCEPT !.pc = "mark"]
        /\ UNCHANGED <<disk, events, applied, chan, up, wired, running, ctl, main, post, refresh, env>>

MarkReread == disk
MarkSource == watch.cfg

MarkAppliedBytes == /\ watch.pc = "mark"
                    /\ applied' = MarkSource
                    /\ watch' = WatchIdle
                    /\ UNCHANGED <<disk, events, chan, servers, main, post, refresh, env>>

-----------------------------------------------------------------------------
(* The editor page: GET, later POST.                                       *)

Goto(p, label) == post' = [post EXCEPT ![p].pc = label]
Finish(p) == post' = [post EXCEPT ![p] = Request("done")]

\* handleConfigGet: the form holds the resolvers of this version.
Get(p) == /\ post[p].pc = "idle"
          /\ MayChange
          /\ running \in wired
          /\ disk # Broken
          /\ post' = [post EXCEPT ![p].pc = "form", ![p].ver = disk]
          /\ UNCHANGED <<disk, events, applied, chan, servers, main, watch, refresh, env>>

\* A request that reaches the running server, whose handler has a controller.
Post(p) == /\ post[p].pc = "form"
           /\ up[running] \in {"starting", "running"} /\ running \in wired
           /\ \E r \in Res : post' = [post EXCEPT ![p].pc = "reading", ![p].res = r,
                                                  ![p].srv = running]
           /\ UNCHANGED <<disk, events, applied, chan, servers, main, watch, refresh, env>>

\* guardWrite and decodeConfigRequest, before writeMu: the body comes when the
\* client sends it, whole or not.
Body(p) == /\ post[p].pc = "reading"
           /\ Goto(p, "begun") \/ Finish(p)
           /\ UNCHANGED <<disk, events, applied, chan, servers, main, watch, refresh, env>>

Locked(q) == post[q].pc \in {"check", "validate", "save", "mark", "swap"}
NoWriteMu == TRUE
WriteMuFree == \A q \in Poster : ~Locked(q)

\* writeMu.Lock and loadCurrentDoc: the document is the file's, not the form's.
CurrentDoc(p) == disk

LoadDoc(p) == /\ post[p].pc = "begun"
              /\ WriteMuFree
              /\ IF disk = Broken THEN Finish(p)
                 ELSE post' = [post EXCEPT ![p].pc = "check", ![p].doc = CurrentDoc(p)]
              /\ UNCHANGED <<disk, events, applied, chan, servers, main, watch, refresh, env>>

CheckVersion(p) == /\ post[p].pc = "check"
                   /\ IF post[p].ver = post[p].doc THEN Goto(p, "validate") ELSE Finish(p)
                   /\ UNCHANGED <<disk, events, applied, chan, servers, main, watch, refresh, env>>

NewDoc(p) == [post[p].doc EXCEPT !.res = post[p].res]

\* buildAndValidate on the document in hand.
Validate(p) == /\ post[p].pc = "validate"
               /\ \/ CanBuild(NewDoc(p)) /\ Goto(p, "save")
                  \/ CanFail(NewDoc(p)) /\ Finish(p)
               /\ UNCHANGED <<disk, events, applied, chan, servers, main, watch, refresh, env>>

Save(p) == /\ post[p].pc = "save"
           /\ Write(NewDoc(p))
           /\ Goto(p, "mark")
           /\ UNCHANGED <<applied, chan, servers, main, watch, refresh, env>>

Marked(p) == NewDoc(p)

MarkApplied(p) == /\ post[p].pc = "mark"
                  /\ applied' = Marked(p)
                  /\ Goto(p, "swap")
                  /\ UNCHANGED <<disk, events, chan, servers, main, watch, refresh, env>>

\* SwapResolvers on the handler's own server; 500 when the second build fails.
PostSwap(p) == /\ post[p].pc = "swap"
               /\ CanBuild(NewDoc(p))
               /\ srv' = [srv EXCEPT ![post[p].srv].res = post[p].res]
               /\ Finish(p)
               /\ UNCHANGED <<disk, events, applied, chan, up, wired, running, ctl, main, watch,
                              refresh, env>>

PostSwapFails(p) == /\ post[p].pc = "swap"
                    /\ CanFail(NewDoc(p))
                    /\ Finish(p)
                    /\ UNCHANGED <<disk, events, applied, chan, servers, main, watch, refresh, env>>

-----------------------------------------------------------------------------
(* The v2fly retry callback, and the editors.                              *)

\* A download has succeeded: read the config, then send it to the main loop.
RefreshRead == /\ refresh.pc = "idle"
               /\ Prepared
               /\ refreshes < MaxRefresh /\ MayChange
               /\ refreshes' = refreshes + 1
               /\ refresh' = IF disk = Broken THEN refresh ELSE [pc |-> "send", cfg |-> disk]
               /\ UNCHANGED <<disk, events, applied, chan, servers, main, watch, post, edits>>

RefreshSend == /\ refresh.pc = "send"
               /\ Send(refresh.cfg)
               /\ refresh' = [pc |-> "idle", cfg |-> None]
               /\ UNCHANGED <<disk, events, applied, servers, main, watch, post, env>>

Edit == /\ edits < MaxEdits /\ MayChange
        /\ edits' = edits + 1
        /\ \E c \in Content \ {disk} : Write(c)
        /\ UNCHANGED <<applied, chan, servers, main, watch, post, refresh, refreshes>>

-----------------------------------------------------------------------------
MainStep == \/ Boot \/ Seed \/ Watch \/ Receive \/ CreateFails \/ Create
            \/ Start \/ Wire \/ SetServer
ListenStep == \E s \in Server : Listen(s) \/ GiveUp(s)
WatchStep == \/ TakeEvent \/ Load \/ CheckHash \/ Route \/ SendFull \/ SwapFails \/ Swap
             \/ MarkAppliedBytes
PostStep(p) == \/ LoadDoc(p) \/ CheckVersion(p) \/ Validate(p) \/ Save(p) \/ MarkApplied(p)
               \/ PostSwap(p) \/ PostSwapFails(p)

Step == Alive /\ (\/ MainStep \/ ListenStep \/ WatchStep \/ RefreshRead \/ RefreshSend \/ Edit
                  \/ \E p \in Poster : Get(p) \/ Post(p) \/ Body(p) \/ PostStep(p))

(* History: the steps that overtake a change on its way.  No code corresponds to it. *)

NoPost == \A p \in Poster : ~Handling(p)
Settled == /\ events = 0 /\ chan = <<>> /\ main.pc = "recv" /\ watch.pc \in {"idle", "off"}
           /\ NoPost /\ refresh.pc = "idle"
InStep == Settled /\ applied = disk /\ srv[running] = disk

Applying == watch.pc \in {"route", "send", "swap", "mark"}
InForce(s) == s = running /\ chan = <<>> /\ main.pc \notin {"create", "shutdown"}

\* (1) A swap meets a server that is replaced, or about to be.
\* (2) A rebuild fails that has another top level than the server that runs on.
\* (3) A web save is marked or swapped while the watcher applies something else,
\*     after the file was edited again, or over a top level not yet in force.
\* (4) The callback sends a file that is no longer there, or not yet applied.
\* (5) An edit that no event reports.
Overtakes == \/ Swap /\ ~InForce(watch.srv)
             \/ CreateFails /\ running # None /\ main.cfg.top # srv[running].top
             \/ \E p \in Poster :
                   /\ MarkApplied(p) \/ PostSwap(p)
                   /\ ~(/\ InForce(post[p].srv) /\ NewDoc(p).top = srv[post[p].srv].top
                        /\ NewDoc(p) = disk /\ NewDoc(p) = applied'
                        /\ Applying => watch.cfg = disk)
             \/ RefreshSend /\ ~(/\ refresh.cfg = disk /\ applied = disk
                                 /\ Applying => watch.cfg = disk)
             \/ Edit /\ main.pc # "boot" /\ ~Watching

History == /\ overtaken' = (Overtakes \/ (overtaken /\ ~InStep))
           /\ raced' = {p \in Poster : Locked(p) /\ (p \in raced \/ Edit)}

Next == Step /\ History

\* Goroutines that can run do; nobody makes a user edit, a browser post or send
\* its body, a download succeed, or a listener give up.  Edits, posts and
\* downloads are finitely many, so that writeMu and the channel, which serve
\* their waiters in turn, need no strong fairness.
Fairness == /\ WF_sys(Alive /\ MainStep)
            /\ \A s \in Server : WF_sys(Alive /\ Listen(s))
            /\ WF_sys(Alive /\ WatchStep)
            /\ WF_sys(Alive /\ RefreshSend)
            /\ \A p \in Poster : WF_sys(Alive /\ PostStep(p))

Spec == Init /\ [][Next]_vars
FairSpec == Spec /\ Fairness

-----------------------------------------------------------------------------
(* Properties.                                                             *)

Opt(S) == S \cup {None}

TypeOK == /\ disk \in Content
          /\ events \in 0..(MaxEdits + Cardinality(Poster))
          /\ applied \in Opt(Content)
          /\ chan \in {<<>>} \cup {<<c>> : c \in Conf}
          /\ srv \in [Server -> Opt(Conf)]
          /\ up \in [Server -> {"new", "starting", "running", "draining", "orphan", "stopped"}]
          /\ wired \subseteq Server
          /\ running \in Opt(Server) /\ ctl \in Opt(Server)
          /\ main \in [pc : {"boot", "seed", "watch", "recv", "create", "shutdown", "wire",
                             "setServer", "fatal"},
                       cfg : Opt(Conf), new : Opt(Server)]
          /\ watch \in [pc : {"idle", "off", "load", "check", "route", "send", "swap", "mark"},
                        cfg : Opt(Content), srv : Opt(Server)]
          /\ post \in [Poster -> [pc : {"idle", "form", "reading", "begun", "check", "validate",
                                        "save", "mark", "swap", "done"},
                                  ver : Opt(Conf), res : Opt(Res), doc : Opt(Conf),
                                  srv : Opt(Server)]]
          /\ refresh \in [pc : {"idle", "send"}, cfg : Opt(Conf)]
          /\ overtaken \in BOOLEAN /\ raced \subseteq Poster

Usable == disk # Broken /\ disk.res \notin BadRes \cup FlakyRes

\* Hot reload (README.md:15, 33): when nothing is on its way any more, the
\* running server runs the file on disk, if it can be built: whatever edits,
\* web saves, refreshes and failed builds led there, in any order, unless one of
\* the five steps that Overtakes names was among them since file, controller and
\* server last agreed.
HotReloadConverges == Settled /\ Usable /\ ~overtaken => srv[running] = disk

\* The same without the exception, which the code does not keep.
FileIsRun == Settled /\ Usable => srv[running] = disk

\* What the controller believes applied is what the file holds, so the next
\* event is judged against the right content (reloader.go:143-167).
AppliedIsOnDisk == Settled /\ Usable /\ ~overtaken => applied = disk

\* A save replaces exactly the content its form was made from (reloader.go:
\* 31-38): no other save comes between.  An editor takes no lock; what it writes
\* while the handler holds writeMu may be lost.
ReplacesSeenVersion ==
    [][\A p \in Poster : post[p].pc = "save" /\ post'[p].pc = "mark" /\ p \notin raced
                            => disk = post[p].ver]_vars

\* A web save never changes a top-level field of the file (README.md:44,
\* config_api.go:96-98), with the same exception.
WebKeepsTopLevel ==
    [][\A p \in Poster : post[p].pc = "save" /\ post'[p].pc = "mark" /\ p \notin raced
                            => disk'.top = disk.top]_vars

\* Changes stop making the program busy: no writer, event or rebuild waits for
\* another for ever (main.go:70-83, reloader.go:183-233).  Two things outside
\* the configuration may keep the main loop in Shutdown for ever, and with it
\* everybody: a client that never ends its body (no deadline, server.go:164,
\* 189), and a listener that was not bound yet (server.go:161, 169).
BodiesEnd == \A p \in Poster : post[p].pc = "reading" ~> post[p].pc # "reading"
Quiesces == BodiesEnd => (Alive /\ ~Settled ~> Settled \/ ~Alive \/ Orphaned)

\* A POST whose body has arrived is answered, also when its server is being
\* replaced (server.go:163-165, config_api.go:114-119).
PostAnswered == \A p \in Poster : post[p].pc = "begun" ~> post[p].pc = "done"

\* "fsnotify events caused by our own writes are deterministically
\* de-duplicated (no timing window)" (reloader.go:22-23): without an external
\* edit the watcher changes no server.
SelfWriteSkipped == edits = 0 => watch.pc \notin {"send", "swap"}

\* "the listeners are never torn down by a self-write" (reloader.go:25-27):
\* without an external edit or a new rule list the first server stays.
SelfWriteKeepsListeners ==
    edits = 0 /\ refreshes = 0 /\ running # None => up[running] # "draining"

\* "so web writes and resolvers-only swaps target the live server"
\* (main.go:79-80).
SwapTargetsLiveServer ==
    [][watch.pc = "swap" /\ watch'.pc = "mark" => up[watch.srv] \in {"starting", "running"}]_vars

\* The api key is a top-level field; neither path lets the server's copy part
\* from the configuration in force (auth.go:12-15).
ApiKeyInEffect == Settled /\ Usable => srv[running].top = disk.top

\* "a failed save does not write the disk" (README.md:40): a request that is
\* answered after Save has replaced the file has swapped the resolvers too.
FailedSaveLeavesDisk ==
    [][\A p \in Poster : post[p].pc = "swap" /\ post'[p].pc = "done"
                            => srv'[post[p].srv].res = post[p].res]_vars
=============================================================================
