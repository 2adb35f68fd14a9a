------------------------ MODULE ConfigControlProofs -------------------------
(***************************************************************************)
(* Theorems about ConfigControl: types; what a save replaces; and that the *)
(* server ends up running the file, unless a change was overtaken.         *)
(* Editors, browsers, downloads and failing builds are free in all of      *)
(* them: none has a hypothesis beyond the assumptions on the constants.    *)
(***************************************************************************)
EXTENDS ConfigControl, TLAPS

-----------------------------------------------------------------------------
(* Types, which hold without any hypothesis.                               *)

MainType == [pc : {"boot", "seed", "watch", "recv", "create", "shutdown", "wire",
                   "setServer", "fatal"},
             cfg : Opt(Conf), new : Opt(Server)]
WatchType == [pc : {"idle", "off", "load", "check", "route", "send", "swap", "mark"},
              cfg : Opt(Content), srv : Opt(Server)]
PostType == [pc : {"idle", "form", "reading", "begun", "check", "validate", "save", "mark",
                   "swap", "done"},
             ver : Opt(Conf), res : Opt(Res), doc : Opt(Conf), srv : Opt(Server)]

UpType == {"new", "starting", "running", "draining", "orphan", "stopped"}

\* A variable has its type, and a place of the code the values it needs.
Typed == /\ disk \in Content
         /\ events \in Nat
         /\ applied \in Opt(Content)
         /\ chan \in {<<>>} \cup {<<c>> : c \in Conf}
         /\ srv \in [Server -> Opt(Conf)]
         /\ up \in [Server -> UpType]
         /\ running \in Opt(Server) /\ ctl \in Opt(Server)
         /\ main \in MainType /\ watch \in WatchType
         /\ post \in [Poster -> PostType]
         /\ refresh \in [pc : {"idle", "send"}, cfg : Opt(Conf)]
         /\ edits \in Nat /\ refreshes \in Nat

\* A server that somebody holds has a configuration.
Configured(s) == s \in Server => srv[s] \in Conf

\* What the code has in hand at its places is not nil.
InHand == /\ main.pc = "create" => main.cfg \in Conf
          /\ main.pc = "shutdown" => main.new \in Server /\ srv[main.new] \in Conf
          /\ Configured(running) /\ Configured(ctl) /\ Configured(watch.srv)
          /\ \A p \in Poster : Configured(post[p].srv)
          /\ main.pc \in {"wire", "setServer"} => running \in Server
          /\ watch.pc \in {"route", "send", "swap", "mark"} => watch.cfg \in Conf
          /\ watch.pc = "check" => watch.cfg \in Content
          /\ \A p \in Poster :
                /\ Locked(p) => post[p].doc \in Conf
                /\ Handling(p) => post[p].res \in Res
          /\ refresh.pc = "send" => refresh.cfg \in Conf

-----------------------------------------------------------------------------
TypeInv == Typed /\ InHand

USE DEF Opt, MainType, WatchType, PostType, UpType

LEMMA TypeInit == Init => TypeInv
  BY ConfAssumption DEF Init, Request, TypeInv, Typed, InHand, Content, Locked, Handling, Configured

LEMMA MainTypes == ASSUME TypeInv, MainStep PROVE TypeInv'
<1> USE DEF TypeInv, Typed, InHand, servers, env, Locked, Handling, Configured
<1>1. CASE Boot
  BY <1>1 DEF Boot, Content
<1>2. CASE Seed
  BY <1>2 DEF Seed
<1>3. CASE Watch
  BY <1>3 DEF Watch
<1>4. CASE Receive
  <2>1. PICK c \in Conf : chan = <<c>>
    BY <1>4 DEF Receive
  <2>0. Head(chan) = c /\ Tail(chan) = <<>>
    BY <2>1
  <2>2. chan' = <<>> /\ main' = [pc |-> "create", cfg |-> c, new |-> main.new]
    BY <1>4, <2>0 DEF Receive
  <2> QED
    BY <1>4, <2>2 DEF Receive
<1>5. CASE CreateFails
  BY <1>5, ConfAssumption DEF CreateFails
<1>6. CASE Create
  <2>1. PICK s \in Server :
           /\ s # running /\ s # ctl /\ s # watch.srv /\ \A p \in Poster : post[p].srv # s
           /\ srv' = [srv EXCEPT ![s] = main.cfg]
           /\ up' = [up EXCEPT ![s] = "new", ![running] = IF @ = "starting" THEN "orphan"
                                                                          ELSE "draining"]
           /\ main' = [main EXCEPT !.pc = "shutdown", !.new = s]
    BY <1>6 DEF Create, FreeServer
  <2>2. main' = [pc |-> "shutdown", cfg |-> main.cfg, new |-> s] /\ main.cfg \in Conf
    BY <1>6, <2>1 DEF Create
  <2>3. srv'[s] = main.cfg /\ \A x \in Server : x # s => srv'[x] = srv[x]
    BY <2>1
  <2>4. srv' \in [Server -> Opt(Conf)]
    BY <2>1, <2>2
  <2>5. up' \in [Server -> UpType]
    BY <2>1
  <2>6. Typed'
    BY <1>6, <2>2, <2>4, <2>5 DEF Create
  <2>7. InHand'
    BY <1>6, <2>1, <2>2, <2>3, ZenonT(40) DEF Create
  <2> QED
    BY <2>6, <2>7
<1>7. CASE Start
  BY <1>7 DEF Start
<1>8. CASE Wire
  BY <1>8 DEF Wire
<1>9. CASE SetServer
  BY <1>9 DEF SetServer
<1> QED
  BY <1>1, <1>2, <1>3, <1>4, <1>5, <1>6, <1>7, <1>8, <1>9 DEF MainStep

LEMMA ListenTypes == ASSUME TypeInv, ListenStep PROVE TypeInv'
  BY DEF TypeInv, Typed, InHand, env, Locked, Handling, Configured, ListenStep, Listen, GiveUp

LEMMA WatchTypes == ASSUME TypeInv, WatchStep PROVE TypeInv'
<1> USE DEF TypeInv, Typed, InHand, servers, env, Locked, Handling, Configured
<1>1. CASE TakeEvent
  BY <1>1 DEF TakeEvent
<1>2. CASE Load
  <2>1. watch' = [pc |-> "check", cfg |-> disk, srv |-> watch.srv]
    BY <1>2 DEF Load
  <2> QED
    BY <1>2, <2>1 DEF Load
<1>3. CASE CheckHash
  <2>1. \/ watch' = WatchIdle
        \/ /\ watch' = [pc |-> "route", cfg |-> watch.cfg, srv |-> ctl]
           /\ watch.cfg \in Conf
    BY <1>3 DEF CheckHash, Content
  <2>2. watch' \in WatchType /\ Configured(watch.srv)'
    BY <1>3, <2>1, ConfAssumption DEF CheckHash, WatchIdle
  <2>3. Typed'
    BY <1>3, <2>2 DEF CheckHash
  <2>4. InHand'
    BY <1>3, <2>1, <2>2, ZenonT(40) DEF CheckHash, WatchIdle
  <2> QED
    BY <2>3, <2>4
<1>4. CASE Route
  BY <1>4 DEF Route
<1>5. CASE SendFull
  BY <1>5 DEF SendFull, Send
<1>6. CASE SwapFails
  BY <1>6, ConfAssumption DEF SwapFails, WatchIdle
<1>7. CASE Swap
  <2>1. watch.cfg \in Conf /\ watch' = [watch EXCEPT !.pc = "mark"]
    BY <1>7 DEF Swap
  <2>2. srv' = [srv EXCEPT ![watch.srv] = [srv[watch.srv] EXCEPT !.res = watch.cfg.res]]
    BY <1>7 DEF Swap
  <2>3. watch.srv \in Server => [srv[watch.srv] EXCEPT !.res = watch.cfg.res] \in Conf
    BY <2>1 DEF Conf
  <2>4. srv' \in [Server -> Opt(Conf)] /\ \A s \in Server : srv[s] \in Conf => srv'[s] \in Conf
    BY <2>2, <2>3
  <2>5. Typed'
    BY <1>7, <2>1, <2>4 DEF Swap
  <2>6. InHand'
    BY <1>7, <2>1, <2>4 DEF Swap
  <2> QED
    BY <2>5, <2>6
<1>8. CASE MarkAppliedBytes
  BY <1>8, ConfAssumption DEF MarkAppliedBytes, MarkSource, Content, WatchIdle
<1> QED
  BY <1>1, <1>2, <1>3, <1>4, <1>5, <1>6, <1>7, <1>8 DEF WatchStep

\* What every step of a request keeps of the types.
PostTyped == /\ post \in [Poster -> PostType]
             /\ \A p \in Poster : /\ Configured(post[p].srv)
                                  /\ Locked(p) => post[p].doc \in Conf
                                  /\ Handling(p) => post[p].res \in Res

LEMMA PostTypes ==
    ASSUME TypeInv, NEW p \in Poster, NEW v \in PostType, post' = [post EXCEPT ![p] = v],
           v.pc \in {"check", "validate", "save", "mark", "swap"} => v.doc \in Conf,
           v.pc \notin {"idle", "form", "done"} => v.res \in Res,
           Configured(v.srv),
           \A s \in Server : srv[s] \in Conf => srv'[s] \in Conf
    PROVE  PostTyped'
<1> USE DEF TypeInv, Typed, InHand, Locked, Handling, Configured, PostTyped
<1>1. post' \in [Poster -> PostType] /\ post'[p] = v /\ \A q \in Poster : q # p => post'[q] = post[q]
  OBVIOUS
<1> QED
  BY <1>1

\* Moving on, and being done.
LEMMA GotoIs ==
    ASSUME TypeInv, NEW p \in Poster, NEW label, Goto(p, label)
    PROVE  post' = [post EXCEPT ![p] = [post[p] EXCEPT !.pc = label]]
  BY DEF Goto

LEMMA FinishTypes ==
    ASSUME TypeInv, NEW p \in Poster, Finish(p),
           \A s \in Server : srv[s] \in Conf => srv'[s] \in Conf
    PROVE  PostTyped'
<1> DEFINE v == Request("done")
<1>t. post \in [Poster -> PostType] /\ post[p] \in PostType
  BY DEF TypeInv, Typed
<1>1. post' = [post EXCEPT ![p] = v] /\ v \in PostType
  BY <1>t DEF Finish, Request
<1>2. v.pc = "done" /\ v.srv = None
  BY DEF Request
<1> HIDE DEF v
<1> QED
  BY <1>1, <1>2, ConfAssumption, PostTypes DEF Configured

LEMMA NewDocType ==
    ASSUME TypeInv, NEW p \in Poster, Locked(p)
    PROVE  /\ NewDoc(p) \in Conf
           /\ NewDoc(p).top = post[p].doc.top /\ NewDoc(p).res = post[p].res
<1>1. post[p].doc \in Conf /\ post[p].res \in Res
  BY DEF TypeInv, InHand, Locked, Handling
<1> QED
  BY <1>1 DEF NewDoc, Conf

\* The rest of the types holds when nothing else changes.
LEMMA OnlyPost ==
    ASSUME TypeInv, PostTyped',
           UNCHANGED <<disk, events, applied, chan, servers, main, watch, refresh, env>>
    PROVE  TypeInv'
<1> USE DEF TypeInv, Typed, InHand, Configured, PostTyped, servers, env
<1>1. Typed'
  OBVIOUS
<1>2. InHand'
  BY DEF Locked, Handling
<1> QED
  BY <1>1, <1>2

LEMMA RequestTypes ==
    ASSUME TypeInv, NEW p \in Poster, Get(p) \/ Post(p) \/ Body(p) \/ PostStep(p)
    PROVE  TypeInv'
<1> USE DEF servers, env
<1>t. post[p] \in PostType /\ TypeInv /\ PostTyped
  BY DEF TypeInv, Typed, InHand, PostTyped
<1>1. CASE Get(p)
  <2>1. disk \in Conf
    BY <1>1 DEF Get, TypeInv, Typed, Content
  <2> DEFINE v == [post[p] EXCEPT !.pc = "form", !.ver = disk]
  <2>2. post' = [post EXCEPT ![p] = v] /\ v \in PostType /\ v.pc = "form" /\ v.srv = post[p].srv
    BY <1>1, <1>t, <2>1 DEF Get
  <2>3. Configured(v.srv) /\ srv' = srv
    BY <1>1, <1>t, <2>2 DEF PostTyped, Get
  <2> HIDE DEF v
  <2>4. PostTyped'
    BY <2>2, <2>3, PostTypes
  <2> QED
    BY <1>1, <2>4, OnlyPost DEF Get
<1>2. CASE Post(p)
  <2>1. PICK r \in Res : post' = [post EXCEPT ![p].pc = "reading", ![p].res = r, ![p].srv = running]
    BY <1>2 DEF Post
  <2> DEFINE v == [post[p] EXCEPT !.pc = "reading", !.res = r, !.srv = running]
  <2>2. post' = [post EXCEPT ![p] = v] /\ v \in PostType
    BY <1>t, <2>1 DEF TypeInv, Typed
  <2>3. v.pc = "reading" /\ v.srv = running /\ v.res \in Res
    BY <1>t
  <2>4. Configured(v.srv) /\ srv' = srv
    BY <1>2, <2>3 DEF TypeInv, InHand, Post
  <2> HIDE DEF v
  <2>5. PostTyped'
    BY <2>2, <2>3, <2>4, PostTypes
  <2> QED
    BY <1>2, <2>5, OnlyPost DEF Post
<1>3. CASE LoadDoc(p)
  <2>1. CASE disk = Broken
    BY <1>3, <2>1, FinishTypes, OnlyPost DEF LoadDoc
  <2>2. CASE disk # Broken
    <3>1. disk \in Conf
      BY <2>2 DEF TypeInv, Typed, Content
    <3> DEFINE v == [post[p] EXCEPT !.pc = "check", !.doc = disk]
    <3>2. post' = [post EXCEPT ![p] = v] /\ v \in PostType
      BY <1>3, <1>t, <2>2, <3>1 DEF LoadDoc, CurrentDoc
    <3>3. v.pc = "check" /\ v.srv = post[p].srv /\ v.res = post[p].res /\ v.doc \in Conf
      BY <1>t, <3>1
    <3>4. Configured(v.srv) /\ v.res \in Res /\ srv' = srv
      BY <1>3, <3>3 DEF TypeInv, InHand, LoadDoc, Handling
    <3> HIDE DEF v
    <3>5. PostTyped'
      BY <3>2, <3>3, <3>4, PostTypes
    <3> QED
      BY <1>3, <3>5, OnlyPost DEF LoadDoc
  <2> QED
    BY <2>1, <2>2
<1>g. ASSUME NEW label \in {"begun", "validate", "save", "mark", "swap"}, Goto(p, label),
             Handling(p), Locked(p) \/ label = "begun",
             \A s \in Server : srv[s] \in Conf => srv'[s] \in Conf
      PROVE  PostTyped'
  <2> DEFINE v == [post[p] EXCEPT !.pc = label]
  <2>1. post' = [post EXCEPT ![p] = v] /\ v \in PostType
    BY <1>g, <1>t, GotoIs
  <2>2. v.srv = post[p].srv /\ v.res = post[p].res /\ v.doc = post[p].doc /\ v.pc = label
    BY <1>t
  <2>3. Configured(v.srv) /\ v.res \in Res /\ (label # "begun" => v.doc \in Conf)
    BY <1>g, <2>2 DEF TypeInv, InHand, Handling, Locked
  <2> HIDE DEF v
  <2> QED
    BY <1>g, <2>1, <2>2, <2>3, PostTypes
<1>4. CASE CheckVersion(p)
  BY <1>4, <1>g, FinishTypes, OnlyPost DEF CheckVersion, Locked, Handling
<1>5. CASE Validate(p)
  BY <1>5, <1>g, FinishTypes, OnlyPost DEF Validate, Locked, Handling
<1>6. CASE Save(p)
  <2>1. PostTyped' /\ NewDoc(p) \in Conf
    BY <1>6, <1>g, NewDocType DEF Save, Locked, Handling
  <2>2. Typed'
    BY <1>6, <2>1 DEF Save, Write, PostTyped, TypeInv, Typed, Content
  <2>3. InHand'
    BY <1>6, <2>1, <2>2 DEF Save, PostTyped, TypeInv, InHand, Configured, Locked, Handling
  <2> QED
    BY <2>2, <2>3 DEF TypeInv
<1>7. CASE MarkApplied(p)
  <2>1. PostTyped' /\ NewDoc(p) \in Conf
    BY <1>7, <1>g, NewDocType DEF MarkApplied, Locked, Handling
  <2>2. Typed'
    BY <1>7, <2>1 DEF MarkApplied, Marked, PostTyped, TypeInv, Typed, Content
  <2>3. InHand'
    BY <1>7, <2>1, <2>2 DEF MarkApplied, PostTyped, TypeInv, InHand, Configured, Locked, Handling
  <2> QED
    BY <2>2, <2>3 DEF TypeInv
<1>8. CASE PostSwap(p)
  <2> DEFINE s == post[p].srv
  <2>1. s \in Server => [srv[s] EXCEPT !.res = post[p].res] \in Conf
    BY <1>8 DEF PostSwap, TypeInv, InHand, Configured, Handling, Conf
  <2>2. srv' = [srv EXCEPT ![s] = [srv[s] EXCEPT !.res = post[p].res]]
    BY <1>8 DEF PostSwap
  <2>3. srv' \in [Server -> Opt(Conf)] /\ \A t \in Server : srv[t] \in Conf => srv'[t] \in Conf
    BY <2>1, <2>2 DEF TypeInv, Typed
  <2>4. PostTyped'
    BY <1>8, <2>3, FinishTypes DEF PostSwap
  <2>5. Typed'
    BY <1>8, <2>3, <2>4 DEF PostSwap, PostTyped, TypeInv, Typed
  <2>6. InHand'
    BY <1>8, <2>3, <2>4 DEF PostSwap, PostTyped, TypeInv, InHand, Configured, Locked, Handling
  <2> QED
    BY <2>5, <2>6 DEF TypeInv
<1>9. CASE PostSwapFails(p)
  BY <1>9, FinishTypes, OnlyPost DEF PostSwapFails
<1>10. CASE Body(p)
  BY <1>10, <1>g, FinishTypes, OnlyPost DEF Body, Handling
<1> QED
  BY <1>1, <1>2, <1>3, <1>4, <1>5, <1>6, <1>7, <1>8, <1>9, <1>10 DEF PostStep

LEMMA OtherTypes == ASSUME TypeInv, RefreshRead \/ RefreshSend \/ Edit PROVE TypeInv'
<1> USE DEF TypeInv, Typed, InHand, servers, env, Locked, Handling, Configured
<1>1. CASE RefreshRead
  BY <1>1 DEF RefreshRead, Content
<1>2. CASE RefreshSend
  BY <1>2 DEF RefreshSend, Send
<1>3. CASE Edit
  BY <1>3 DEF Edit, Write
<1> QED
  BY <1>1, <1>2, <1>3

LEMMA TypeNext == ASSUME TypeInv, [Next]_vars PROVE TypeInv'
<1>1. CASE UNCHANGED vars
  BY <1>1 DEF vars, sys, TypeInv, Typed, InHand, Configured, Locked, Handling
<1> QED
  BY <1>1, MainTypes, ListenTypes, WatchTypes, RequestTypes, OtherTypes DEF Next, Step

\* Every variable has its type, and no step of the code is reached without the
\* values it works on (main.go, reloader.go, config_api.go).
THEOREM TypeCorrect == Spec => []TypeInv
  BY TypeInit, TypeNext, PTL DEF Spec

-----------------------------------------------------------------------------
(* What a step of a request does to the requests.                          *)

RequestStep(p) == Get(p) \/ Post(p) \/ Body(p) \/ PostStep(p)

LEMMA OthersStay ==
    ASSUME TypeInv, NEW p \in Poster, RequestStep(p)
    PROVE  \A q \in Poster : q # p => post'[q] = post[q]
  BY DEF TypeInv, Typed, RequestStep, Get, Post, Body, PostStep, LoadDoc, CheckVersion, Validate,
         Save, MarkApplied, PostSwap, PostSwapFails, Goto, Finish

\* How a request goes on, and from where.
LEMMA RequestGoes ==
    ASSUME TypeInv, NEW p \in Poster
    PROVE  /\ Get(p) => post'[p].pc = "form"
           /\ Post(p) => post'[p].pc = "reading"
           /\ Body(p) => post'[p].pc \in {"begun", "done"}
           /\ LoadDoc(p) => \/ post'[p].pc = "done"
                            \/ /\ disk \in Conf /\ WriteMuFree
                               /\ post'[p] = [post[p] EXCEPT !.pc = "check", !.doc = disk]
           /\ CheckVersion(p) => \/ post'[p].pc = "done"
                                 \/ /\ post[p].ver = post[p].doc
                                    /\ post'[p] = [post[p] EXCEPT !.pc = "validate"]
           /\ Validate(p) => \/ post'[p].pc = "done"
                             \/ post'[p] = [post[p] EXCEPT !.pc = "save"]
           /\ Save(p) => post'[p] = [post[p] EXCEPT !.pc = "mark"]
           /\ MarkApplied(p) => post'[p] = [post[p] EXCEPT !.pc = "swap"]
           /\ PostSwap(p) => post'[p].pc = "done"
           /\ PostSwapFails(p) => post'[p].pc = "done"
<1>t. post \in [Poster -> PostType] /\ post[p] \in PostType
  BY DEF TypeInv, Typed
<1>f. Finish(p) => post'[p].pc = "done"
  BY <1>t DEF Finish, Request
<1>g. \A label : Goto(p, label) => post'[p] = [post[p] EXCEPT !.pc = label]
  BY <1>t DEF Goto
<1>1. Get(p) => post'[p].pc = "form"
  BY <1>t DEF Get
<1>2. Post(p) => post'[p].pc = "reading"
  BY <1>t DEF Post
<1>3. ASSUME LoadDoc(p), disk # Broken
      PROVE  disk \in Conf /\ WriteMuFree /\ post'[p] = [post[p] EXCEPT !.pc = "check", !.doc = disk]
  BY <1>3, <1>t DEF LoadDoc, CurrentDoc, TypeInv, Typed, Content
<1>4. ASSUME LoadDoc(p), disk = Broken PROVE post'[p].pc = "done"
  BY <1>4, <1>f DEF LoadDoc
<1>5. CheckVersion(p) => \/ post'[p].pc = "done"
                         \/ post[p].ver = post[p].doc /\ post'[p] = [post[p] EXCEPT !.pc = "validate"]
  BY <1>f, <1>g DEF CheckVersion
<1>6. Validate(p) => post'[p].pc = "done" \/ post'[p] = [post[p] EXCEPT !.pc = "save"]
  BY <1>f, <1>g DEF Validate
<1>7. Save(p) => post'[p] = [post[p] EXCEPT !.pc = "mark"]
  BY <1>g DEF Save
<1>8. MarkApplied(p) => post'[p] = [post[p] EXCEPT !.pc = "swap"]
  BY <1>g DEF MarkApplied
<1>9. (PostSwap(p) => post'[p].pc = "done") /\ (PostSwapFails(p) => post'[p].pc = "done")
  BY <1>f DEF PostSwap, PostSwapFails
<1>10. ASSUME Body(p) PROVE post'[p].pc \in {"begun", "done"}
  <2>1. CASE Goto(p, "begun")
    BY <2>1, <1>t DEF Goto
  <2> QED
    BY <1>10, <2>1, <1>f DEF Body
<1> QED
  BY <1>1, <1>2, <1>3, <1>4, <1>5, <1>6, <1>7, <1>8, <1>9, <1>10

\* Nothing but a save and an edit changes the file, nothing but a request's own
\* step the request.
LEMMA NoRequest ==
    ASSUME MainStep \/ ListenStep \/ WatchStep \/ RefreshRead \/ RefreshSend
    PROVE  UNCHANGED <<disk, post>>
<1>1. ASSUME MainStep PROVE UNCHANGED <<disk, post>>
  BY <1>1 DEF MainStep, Boot, Seed, Watch, Receive, CreateFails, Create, Start, Wire, SetServer
<1>2. ASSUME WatchStep PROVE UNCHANGED <<disk, post>>
  BY <1>2 DEF WatchStep, TakeEvent, Load, CheckHash, Route, SendFull, SwapFails, Swap,
              MarkAppliedBytes
<1>3. ASSUME ListenStep \/ RefreshRead \/ RefreshSend PROVE UNCHANGED <<disk, post>>
  BY <1>3 DEF ListenStep, Listen, GiveUp, RefreshRead, RefreshSend
<1> QED
  BY <1>1, <1>2, <1>3

-----------------------------------------------------------------------------
(* writeMu and the version check: one save at a time, of the file as it is *)
(* unless an editor wrote it meanwhile.                                    *)

OneSaver == \A p, q \in Poster : Locked(p) /\ Locked(q) => p = q

DocIsCurrent ==
    \A p \in Poster :
       /\ post[p].pc \in {"check", "validate", "save"} /\ p \notin raced => post[p].doc = disk
       /\ post[p].pc \in {"validate", "save"} => post[p].ver = post[p].doc

LockInv == OneSaver /\ DocIsCurrent

LEMMA LockInit == Init => LockInv
  BY DEF Init, Request, LockInv, OneSaver, DocIsCurrent, Locked

LEMMA LockRequest ==
    ASSUME TypeInv, LockInv, History, NEW p \in Poster, RequestStep(p)
    PROVE  LockInv'
<1> USE DEF LockInv
<1>t. /\ post \in [Poster -> PostType] /\ post[p] \in PostType
      /\ \A q \in Poster : q # p => post'[q] = post[q]
  BY OthersStay DEF TypeInv, Typed
<1>r. \A q \in Poster : Locked(q) /\ q \in raced => q \in raced'
  BY DEF History
\* A request that has the lock, or has let it go, and has not saved.
<1>1. ASSUME disk' = disk, Locked(p)' => Locked(p) \/ WriteMuFree,
             /\ post'[p].pc \in {"check", "validate", "save"} /\ p \notin raced'
                   => post'[p].doc = disk
             /\ post'[p].pc \in {"validate", "save"} => post'[p].ver = post'[p].doc
      PROVE  LockInv'
  <2>1. OneSaver'
    BY <1>1, <1>t DEF OneSaver, WriteMuFree, Locked
  <2>2. DocIsCurrent'
    BY <1>1, <1>t, <1>r DEF DocIsCurrent, Locked
  <2> QED
    BY <2>1, <2>2
<1>d. ASSUME post'[p].pc \in {"form", "reading", "begun", "done"}, disk' = disk PROVE LockInv'
  BY <1>d, <1>1, SMTT(30) DEF Locked
<1>2. CASE Get(p) \/ Post(p) \/ Body(p)
  <2>1. disk' = disk
    BY <1>2 DEF Get, Post, Body
  <2> QED
    BY <1>2, <1>d, <2>1, RequestGoes
<1>4. CASE LoadDoc(p)
  <2>1. disk' = disk
    BY <1>4 DEF LoadDoc
  <2>2. CASE post'[p] = [post[p] EXCEPT !.pc = "check", !.doc = disk] /\ WriteMuFree
    <3>1. post'[p].pc = "check" /\ post'[p].doc = disk
      BY <1>t, <2>2, SMTT(30)
    <3> QED
      BY <2>1, <2>2, <3>1, <1>1
  <2> QED
    BY <1>4, <1>d, <2>1, <2>2, RequestGoes
<1>5. CASE CheckVersion(p)
  <2>1. disk' = disk /\ post[p].pc = "check"
    BY <1>5 DEF CheckVersion
  <2>2. CASE post'[p] = [post[p] EXCEPT !.pc = "validate"] /\ post[p].ver = post[p].doc
    <3>1. /\ post'[p].pc = "validate" /\ post'[p].doc = post[p].doc /\ post'[p].ver = post[p].ver
      BY <1>t, <2>2
    <3>2. Locked(p) /\ (p \notin raced' => post[p].doc = disk)
      BY <1>r, <2>1, SMTT(30) DEF DocIsCurrent, Locked
    <3> QED
      BY <2>1, <2>2, <3>1, <3>2, <1>1
  <2> QED
    BY <1>5, <1>d, <2>1, <2>2, RequestGoes
<1>6. CASE Validate(p)
  <2>1. disk' = disk /\ post[p].pc = "validate"
    BY <1>6 DEF Validate
  <2>2. CASE post'[p] = [post[p] EXCEPT !.pc = "save"]
    <3>1. /\ post'[p].pc = "save" /\ post'[p].doc = post[p].doc /\ post'[p].ver = post[p].ver
      BY <1>t, <2>2
    <3>2. Locked(p) /\ post[p].ver = post[p].doc /\ (p \notin raced' => post[p].doc = disk)
      BY <1>r, <2>1, SMTT(30) DEF DocIsCurrent, Locked
    <3> QED
      BY <2>1, <3>1, <3>2, <1>1
  <2> QED
    BY <1>6, <1>d, <2>1, <2>2, RequestGoes
<1>7. CASE Save(p)
  <2>1. post[p].pc = "save" /\ post'[p] = [post[p] EXCEPT !.pc = "mark"]
    BY <1>7, RequestGoes DEF Save
  <2>2. post'[p].pc = "mark"
    BY <1>t, <2>1
  <2>4. \A q \in Poster : q # p => ~Locked(q) /\ ~Locked(q)'
    BY <2>1, <1>t DEF OneSaver, Locked
  <2>5. OneSaver'
    BY <2>4 DEF OneSaver
  <2>6. DocIsCurrent'
    BY <2>2, <2>4 DEF DocIsCurrent, Locked
  <2> QED
    BY <2>5, <2>6
<1>8. CASE MarkApplied(p)
  <2>1. disk' = disk /\ post[p].pc = "mark" /\ post'[p] = [post[p] EXCEPT !.pc = "swap"]
    BY <1>8, RequestGoes DEF MarkApplied
  <2>2. post'[p].pc = "swap" /\ Locked(p)
    BY <1>t, <2>1 DEF Locked
  <2> QED
    BY <2>1, <2>2, <1>1, SMTT(30)
<1>9. CASE PostSwap(p) \/ PostSwapFails(p)
  BY <1>9, <1>d, RequestGoes, ZenonT(40) DEF PostSwap, PostSwapFails
<1> QED
  BY <1>2, <1>4, <1>5, <1>6, <1>7, <1>8, <1>9 DEF RequestStep, PostStep

LEMMA LockNext == ASSUME TypeInv, LockInv, [Next]_vars PROVE LockInv'
<1>1. CASE UNCHANGED vars
  BY <1>1 DEF vars, sys, LockInv, OneSaver, DocIsCurrent, Locked
<1>2. ASSUME UNCHANGED <<disk, post>>, History PROVE LockInv'
  <2>1. \A q \in Poster : Locked(q) /\ q \in raced => q \in raced'
    BY <1>2 DEF History
  <2> QED
    BY <1>2, <2>1 DEF LockInv, OneSaver, DocIsCurrent, Locked
<1>3. ASSUME Edit, History PROVE LockInv'
  <2>1. post' = post /\ \A q \in Poster : Locked(q) => q \in raced'
    BY <1>3 DEF Edit, History
  <2> QED
    BY <2>1 DEF LockInv, OneSaver, DocIsCurrent, Locked
<1> QED
  BY <1>1, <1>2, <1>3, NoRequest, LockRequest DEF Next, Step, RequestStep

\* The only step from "save" to "mark" is Save.
LEMMA SaveStep ==
    ASSUME TypeInv, [Next]_vars, NEW p \in Poster, post[p].pc = "save", post'[p].pc = "mark"
    PROVE  Save(p)
<1>1. post' # post
  OBVIOUS
<1>2. PICK q \in Poster : RequestStep(q)
  BY <1>1, NoRequest DEF Next, Step, vars, sys, Edit, RequestStep
<1>3. q = p
  BY <1>2, OthersStay
<1> QED
  BY <1>2, <1>3 DEF RequestStep, PostStep, Get, Post, Body, LoadDoc, CheckVersion, Validate,
                    MarkApplied, PostSwap, PostSwapFails

\* A save replaces exactly the content its form was made from, unless an editor
\* wrote while the handler held writeMu: for the browsers, however many they
\* are, lock, version check and save are one step (config_api.go:100-160,
\* reloader.go:31-38).
THEOREM SavesSeenVersion == Spec => ReplacesSeenVersion
<1>1. ASSUME TypeInv, LockInv, [Next]_vars, NEW p \in Poster,
             post[p].pc = "save", post'[p].pc = "mark", p \notin raced
      PROVE  disk = post[p].ver
  BY <1>1 DEF LockInv, DocIsCurrent
<1>2. TypeInv /\ LockInv /\ [Next]_vars
      => [\A p \in Poster : post[p].pc = "save" /\ post'[p].pc = "mark" /\ p \notin raced
                              => disk = post[p].ver]_vars
  BY <1>1
<1>3. Init => TypeInv /\ LockInv
  BY TypeInit, LockInit
<1>4. TypeInv /\ LockInv /\ [Next]_vars => TypeInv' /\ LockInv'
  BY TypeNext, LockNext
<1> QED
  BY <1>2, <1>3, <1>4, PTL DEF Spec, ReplacesSeenVersion

\* A web save leaves the top level of the file alone, with the same exception:
\* the document it writes is the file with other resolvers (README.md:44,
\* config_api.go:96-98).
THEOREM TopLevelIsKept == Spec => WebKeepsTopLevel
<1>1. ASSUME TypeInv, LockInv, [Next]_vars, NEW p \in Poster,
             post[p].pc = "save", post'[p].pc = "mark", p \notin raced
      PROVE  disk'.top = disk.top
  <2>1. disk' = NewDoc(p) /\ post[p].doc = disk
    BY <1>1, SaveStep DEF Save, Write, LockInv, DocIsCurrent
  <2> QED
    BY <1>1, <2>1, NewDocType DEF Locked
<1>2. TypeInv /\ LockInv /\ [Next]_vars
      => [\A p \in Poster : post[p].pc = "save" /\ post'[p].pc = "mark" /\ p \notin raced
                              => disk'.top = disk.top]_vars
  BY <1>1
<1>3. Init => TypeInv /\ LockInv
  BY TypeInit, LockInit
<1>4. TypeInv /\ LockInv /\ [Next]_vars => TypeInv' /\ LockInv'
  BY TypeNext, LockNext
<1> QED
  BY <1>2, <1>3, <1>4, PTL DEF Spec, WebKeepsTopLevel

-----------------------------------------------------------------------------
(* The start of the process, and what the main loop always has.            *)

StartInv ==
    /\ wired \subseteq Server
    /\ running = None => main.pc \in {"boot", "create", "shutdown", "fatal"} \/ chan # <<>>
    /\ ~Prepared => /\ running = None /\ events = 0 /\ watch.pc = "idle" /\ refresh.pc = "idle"
                    /\ \A p \in Poster : post[p].pc = "idle"

LEMMA StartInit == Init => StartInv
  BY DEF Init, Request, StartInv

LEMMA StartNext == ASSUME TypeInv, StartInv, [Next]_vars PROVE StartInv'
<1> USE DEF StartInv, servers, env, Prepared
<1>t. main \in MainType /\ chan \in {<<>>} \cup {<<c>> : c \in Conf}
  BY DEF TypeInv, Typed
<1>1. CASE UNCHANGED vars
  BY <1>1 DEF vars, sys
<1>2. CASE MainStep
  <2>1. CASE Boot
    BY <2>1, <1>t DEF Boot
  <2>2. CASE Seed
    BY <2>2, <1>t DEF Seed
  <2>3. CASE Watch
    BY <2>3, <1>t DEF Watch
  <2>4. CASE Receive
    BY <2>4, <1>t DEF Receive
  <2>5. CASE CreateFails
    BY <2>5, <1>t DEF CreateFails
  <2>6. CASE Create
    BY <2>6, <1>t DEF Create
  <2>7. CASE Start
    BY <2>7, <1>t, ConfAssumption DEF Start, TypeInv, InHand
  <2>8. CASE Wire
    BY <2>8, <1>t, ConfAssumption DEF Wire, TypeInv, InHand
  <2>9. CASE SetServer
    BY <2>9, <1>t, ConfAssumption DEF SetServer, TypeInv, InHand
  <2> QED
    BY <1>2, <2>1, <2>2, <2>3, <2>4, <2>5, <2>6, <2>7, <2>8, <2>9 DEF MainStep
<1>3. CASE ListenStep \/ WatchStep \/ RefreshRead \/ RefreshSend
  <2>1. CASE ListenStep
    BY <2>1 DEF ListenStep, Listen, GiveUp
  <2>2. CASE WatchStep
    <3>1. Prepared /\ UNCHANGED <<wired, running, main>>
      BY <2>2 DEF WatchStep, TakeEvent, Load, CheckHash, Route, SendFull, SwapFails, Swap,
                  MarkAppliedBytes
    <3>2. chan' = chan \/ chan' # <<>>
      BY <2>2 DEF WatchStep, TakeEvent, Load, CheckHash, Route, SendFull, Send, SwapFails, Swap,
                  MarkAppliedBytes
    <3> QED
      BY <3>1, <3>2
  <2>3. CASE RefreshRead \/ RefreshSend
    BY <2>3 DEF RefreshRead, RefreshSend, Send
  <2> QED
    BY <1>3, <2>1, <2>2, <2>3
<1>4. CASE Edit
  BY <1>4 DEF Edit, Write, Watching
<1>5. ASSUME NEW p \in Poster, RequestStep(p) PROVE StartInv'
  <2>1. UNCHANGED <<wired, running, main, chan, watch, refresh>>
    BY <1>5 DEF RequestStep, Get, Post, Body, PostStep, LoadDoc, CheckVersion, Validate, Save,
                MarkApplied, PostSwap, PostSwapFails
  <2>2. CASE ~Prepared
    <3>1. post[p].pc = "idle" /\ running \notin wired
      BY <2>2, ConfAssumption
    <3> QED
      BY <1>5, <3>1 DEF RequestStep, Get, Post, Body, PostStep, LoadDoc, CheckVersion, Validate,
                        Save, MarkApplied, PostSwap, PostSwapFails
  <2> QED
    BY <2>1, <2>2
<1> QED
  BY <1>1, <1>2, <1>3, <1>4, <1>5 DEF Next, Step, RequestStep

-----------------------------------------------------------------------------
(* Convergence, as long as nothing is overtaken.  What the main loop is on *)
(* its way to run (Ahead) follows what is believed applied (Believed), and *)
(* what is believed applied follows the file (Follows).                    *)

Sure(c) == c # Broken /\ c.res \notin BadRes \cup FlakyRes

Ahead == IF chan # <<>> THEN chan[1]
         ELSE IF main.pc = "create" THEN main.cfg
         ELSE IF main.pc = "shutdown" THEN srv[main.new]
         ELSE srv[running]

\* The watcher has swapped, or sent, what it is about to mark; a save that has
\* marked its content is about to swap it.
Believed ==
    /\ applied \in Conf
    /\ watch.pc # "mark" => applied.top = Ahead.top
    /\ watch.pc \in {"swap", "mark"} => watch.cfg.top = Ahead.top
    /\ watch.pc = "mark" /\ Sure(watch.cfg) => Ahead = watch.cfg
    /\ watch.pc # "mark" /\ Sure(applied) /\ (\A p \in Poster : post[p].pc = "swap"
                                                                  => applied # NewDoc(p))
          => Ahead = applied

\* The last event is taken after the last change of the file.
Follows ==
    events = 0 =>
       /\ watch.pc \in {"check", "route", "send", "swap", "mark"} => watch.cfg = disk
       /\ watch.pc \in {"idle", "off"} => \/ applied = disk \/ ~Sure(disk)
                                          \/ \E p \in Poster : post[p].pc = "mark"

InStride == /\ main.pc = "seed" => Ahead = disk
            /\ main.pc \notin {"boot", "seed", "fatal"} => Believed /\ Follows

ConvInv == ~overtaken => InStride

\* Where nothing is on its way, the main loop is on its way to what runs.
LEMMA SettledAhead ==
    ASSUME TypeInv, StartInv, Settled
    PROVE  /\ Ahead = srv[running] /\ running \in Server /\ srv[running] \in Conf
           /\ \A p \in Poster : post[p].pc \notin {"mark", "swap"}
<1>1. running # None
  BY DEF StartInv, Settled
<1>2. Ahead = srv[running]
  BY DEF Ahead, Settled
<1> QED
  BY <1>1, <1>2 DEF TypeInv, Typed, InHand, Configured, Settled, NoPost, Handling

LEMMA InStepInStride == ASSUME TypeInv, StartInv, InStep PROVE InStride
<1>1. Settled /\ applied = disk /\ srv[running] = disk
  BY DEF InStep
<1>2. Ahead = disk /\ disk \in Conf /\ main.pc = "recv" /\ watch.pc \in {"idle", "off"}
  BY <1>1, SettledAhead DEF Settled
<1> QED
  BY <1>1, <1>2 DEF InStride, Believed, Follows

\* A step that leaves alone what the watcher and the requests have in hand, the
\* file and what is applied.
Aside == UNCHANGED <<disk, events, applied, watch, post>>

LEMMA KeepsBelief ==
    ASSUME Believed, Aside,
           \/ Ahead' = Ahead
           \/ Ahead'.top = Ahead.top /\ ~Sure(Ahead)
    PROVE  Believed'
  BY DEF Believed, Aside, NewDoc, Sure

LEMMA KeepsFollowing ==
    ASSUME Follows, UNCHANGED <<disk, events, applied, watch>>,
           \A p \in Poster : post[p].pc = "mark" => post'[p].pc = "mark"
    PROVE  Follows'
  BY DEF Follows, Sure

LEMMA MainStrides ==
    ASSUME TypeInv, StartInv, InStride, MainStep, ~Overtakes PROVE InStride'
<1> USE DEF servers, env
<1>t. main \in MainType /\ srv \in [Server -> Opt(Conf)] /\ watch \in WatchType
  BY DEF TypeInv, Typed
<1>k. ASSUME main.pc \notin {"boot", "seed", "fatal"}, main'.pc \notin {"boot", "seed"}, Aside,
             \/ Ahead' = Ahead
             \/ Ahead'.top = Ahead.top /\ ~Sure(Ahead)
      PROVE  InStride'
  BY <1>k, KeepsBelief, KeepsFollowing DEF InStride, Aside
<1>1. CASE Boot
  <2>1. \/ main'.pc = "fatal"
        \/ main'.pc = "seed" /\ chan' = <<disk>> /\ disk' = disk
    BY <1>1, <1>t DEF Boot
  <2>2. chan' = <<disk>> => Ahead' = disk
    BY DEF Ahead
  <2> QED
    BY <2>1, <2>2 DEF InStride
<1>2. CASE Seed
  <2>1. /\ main'.pc = "watch" /\ applied' = disk /\ watch.pc = "idle" /\ events = 0
        /\ UNCHANGED <<disk, events, chan, srv, running, watch, post>>
        /\ chan # <<>>
    BY <1>2, <1>t DEF Seed, StartInv, Prepared
  <2>2. Ahead' = disk /\ disk \in Conf
    BY <1>2, <2>1 DEF Seed, InStride, Ahead, TypeInv, Typed
  <2>3. Believed' /\ Follows'
    BY <2>1, <2>2 DEF Believed, Follows
  <2> QED
    BY <2>1, <2>3 DEF InStride
<1>3. CASE Watch
  <2>1. /\ main.pc = "watch" /\ main'.pc = "recv" /\ watch.pc = "idle" /\ events = 0
        /\ watch'.pc \in {"idle", "off"}
        /\ UNCHANGED <<disk, events, applied, chan, srv, running, post>>
    BY <1>3, <1>t DEF Watch, StartInv, Prepared
  <2>2. Ahead' = Ahead
    BY <2>1 DEF Ahead
  <2>3. Believed' /\ Follows'
    BY <2>1, <2>2 DEF InStride, Believed, Follows, NewDoc, Sure
  <2> QED
    BY <2>1, <2>3 DEF InStride
<1>4. CASE Receive
  <2>1. PICK c \in Conf : chan = <<c>>
    BY <1>4 DEF Receive, TypeInv, Typed
  <2>2. Head(chan) = c /\ Tail(chan) = <<>> /\ chan # <<>> /\ chan[1] = c
    BY <2>1
  <2>3. main'.pc = "create" /\ main'.cfg = c /\ chan' = <<>>
    BY <1>4, <1>t, <2>2 DEF Receive
  <2>4. Ahead' = Ahead
    BY <2>2, <2>3 DEF Ahead
  <2> QED
    BY <1>4, <2>3, <2>4, <1>k DEF Receive, Aside
<1>5. CASE CreateFails
  <2>1. CASE main'.pc = "fatal"
    BY <2>1 DEF InStride
  <2>2. CASE main'.pc = "recv"
    <3>1. running # None /\ main.pc = "create" /\ main.cfg.res \in BadRes \cup FlakyRes
      BY <1>5, <2>2, <1>t DEF CreateFails, CanFail
    <3>2. main.cfg.top = srv[running].top
      BY <1>5, <3>1 DEF Overtakes
    <3>3. UNCHANGED <<chan, srv, running>>
      BY <1>5 DEF CreateFails
    <3>4. CASE chan # <<>>
      <4>1. Ahead' = Ahead
        BY <3>3, <3>4 DEF Ahead
      <4> QED
        BY <1>5, <2>2, <3>1, <4>1, <1>k DEF CreateFails, Aside
    <3>5. CASE chan = <<>>
      <4>1. Ahead = main.cfg /\ Ahead' = srv[running]
        BY <2>2, <3>1, <3>3, <3>5 DEF Ahead
      <4> QED
        BY <1>5, <2>2, <3>1, <3>2, <4>1, <1>k DEF CreateFails, Aside, Sure
    <3> QED
      BY <3>4, <3>5
  <2> QED
    BY <1>5, <1>t, <2>1, <2>2 DEF CreateFails
<1>6. CASE Create
  <2>1. PICK n \in Server : /\ srv' = [srv EXCEPT ![n] = main.cfg]
                            /\ main' = [main EXCEPT !.pc = "shutdown", !.new = n]
    BY <1>6 DEF Create, FreeServer
  <2>2. main'.pc = "shutdown" /\ main'.new = n /\ srv'[n] = main.cfg
    BY <1>t, <2>1
  <2>3. Ahead' = Ahead
    BY <1>6, <2>2 DEF Create, Ahead
  <2> QED
    BY <1>6, <2>2, <2>3, <1>k DEF Create, Aside
<1>7. CASE Start
  <2>1. main.pc = "shutdown" /\ main'.pc = "wire" /\ running' = main.new
        /\ UNCHANGED <<chan, srv>>
    BY <1>7, <1>t DEF Start
  <2>2. Ahead' = Ahead
    BY <2>1 DEF Ahead
  <2> QED
    BY <1>7, <2>1, <2>2, <1>k DEF Start, Aside
<1>8. CASE Wire \/ SetServer
  <2>1. /\ main.pc \in {"wire", "setServer"} /\ main'.pc \in {"setServer", "recv"}
        /\ UNCHANGED <<chan, srv, running>> /\ Aside
    BY <1>8, <1>t DEF Wire, SetServer, Aside
  <2>2. Ahead' = Ahead
    BY <2>1 DEF Ahead
  <2> QED
    BY <2>1, <2>2, <1>k
<1> QED
  BY <1>1, <1>2, <1>3, <1>4, <1>5, <1>6, <1>7, <1>8 DEF MainStep

LEMMA ListenStrides == ASSUME InStride, ListenStep PROVE InStride'
<1>1. UNCHANGED <<disk, events, applied, watch, post, main, chan, srv, running>>
  BY DEF ListenStep, Listen, GiveUp
<1> QED
  BY <1>1 DEF InStride, Believed, Follows, Ahead, NewDoc, Sure

\* A swap into the server in force, with its top level.
LEMMA SwapInForce ==
    ASSUME TypeInv, NEW c \in Conf, InForce(running), running \in Server, c.top = Ahead.top,
           srv' = [srv EXCEPT ![running].res = c.res], UNCHANGED <<main, chan, running>>
    PROVE  Ahead' = c
<1>1. Ahead = srv[running] /\ Ahead' = srv'[running] /\ srv \in [Server -> Opt(Conf)]
      /\ srv[running] \in Conf
  BY DEF Ahead, InForce, TypeInv, Typed, InHand, Configured
<1>2. srv'[running] = [srv[running] EXCEPT !.res = c.res]
  BY <1>1
<1>3. [srv[running] EXCEPT !.res = c.res] = c
  BY <1>1 DEF Conf
<1> QED
  BY <1>1, <1>2, <1>3

LEMMA WatchStrides ==
    ASSUME TypeInv, StartInv, InStride, Alive, WatchStep, ~Overtakes PROVE InStride'
<1> USE DEF servers, env
<1>t. watch \in WatchType /\ events \in Nat
  BY DEF TypeInv, Typed
<1>p. Prepared /\ UNCHANGED <<disk, post, main, running>>
  BY DEF WatchStep, TakeEvent, Load, CheckHash, Route, SendFull, SwapFails, Swap,
         MarkAppliedBytes, StartInv
<1>b. Believed /\ Follows
  BY <1>p DEF Prepared, Alive, InStride
<1>d. ASSUME Believed', Follows' PROVE InStride'
  BY <1>d, <1>p DEF InStride, Prepared
\* A step of the watcher that swaps, sends and marks nothing.
<1>k. ASSUME UNCHANGED <<applied, chan, srv>>, watch.pc # "mark", watch'.pc # "mark",
             watch'.pc = "swap" => watch'.cfg.top = applied.top
      PROVE  Believed'
  <2>1. Ahead' = Ahead
    BY <1>p, <1>k DEF Ahead
  <2> QED
    BY <1>b, <1>p, <1>k, <2>1 DEF Believed, NewDoc, Sure
<1>1. CASE TakeEvent
  <2>1. watch.pc = "idle" /\ watch'.pc = "load" /\ UNCHANGED <<applied, chan, srv>>
    BY <1>1, <1>t DEF TakeEvent
  <2> QED
    BY <2>1, <1>d, <1>k DEF Follows
<1>2. CASE Load
  <2>1. watch.pc = "load" /\ watch'.pc = "check" /\ watch'.cfg = disk
        /\ UNCHANGED <<applied, chan, srv>>
    BY <1>2, <1>t DEF Load
  <2> QED
    BY <2>1, <1>d, <1>k, <1>p DEF Follows
<1>3. CASE CheckHash
  <2>1. watch.pc = "check" /\ UNCHANGED <<applied, chan, srv, events>>
    BY <1>3 DEF CheckHash
  <2>2. CASE watch.cfg \in {applied, Broken}
    <3>1. watch'.pc = "idle"
      BY <1>3, <2>2 DEF CheckHash, WatchIdle
    <3> QED
      BY <1>b, <1>d, <1>k, <1>p, <2>1, <2>2, <3>1 DEF Follows, Sure
  <2>3. CASE watch.cfg \notin {applied, Broken}
    <3>1. watch'.pc = "route" /\ watch'.cfg = watch.cfg
      BY <1>3, <1>t, <2>3 DEF CheckHash
    <3> QED
      BY <1>b, <1>d, <1>k, <1>p, <2>1, <3>1 DEF Follows
  <2> QED
    BY <2>2, <2>3
<1>4. CASE Route
  <2>1. /\ watch.pc = "route" /\ watch'.pc \in {"send", "swap"} /\ watch'.cfg = watch.cfg
        /\ watch'.pc = "swap" => watch.cfg.top = applied.top
        /\ UNCHANGED <<applied, chan, srv, events>>
    BY <1>4, <1>t DEF Route, TopLevelChanged
  <2> QED
    BY <1>b, <1>d, <1>k, <1>p, <2>1 DEF Follows
<1>5. CASE SendFull
  <2>1. /\ watch.pc = "send" /\ watch'.pc = "mark" /\ watch'.cfg = watch.cfg
        /\ chan' = <<watch.cfg>> /\ UNCHANGED <<applied, srv, events>>
    BY <1>5, <1>t DEF SendFull, Send
  <2>2. Ahead' = watch.cfg
    BY <2>1 DEF Ahead
  <2>3. Believed'
    BY <1>b, <2>1, <2>2 DEF Believed
  <2> QED
    BY <1>b, <1>d, <1>p, <2>1, <2>3 DEF Follows
<1>6. CASE SwapFails
  <2>1. /\ watch.pc = "swap" /\ watch'.pc = "idle" /\ UNCHANGED <<applied, chan, srv, events>>
        /\ ~Sure(watch.cfg)
    BY <1>6 DEF SwapFails, WatchIdle, CanFail, Sure
  <2> QED
    BY <1>b, <1>d, <1>k, <1>p, <2>1 DEF Follows
<1>7. CASE Swap
  <2>1. /\ watch.pc = "swap" /\ watch'.pc = "mark" /\ watch'.cfg = watch.cfg
        /\ srv' = [srv EXCEPT ![watch.srv].res = watch.cfg.res]
        /\ UNCHANGED <<applied, chan, events>> /\ watch.cfg \in Conf
    BY <1>7, <1>t DEF Swap, TypeInv, InHand
  <2>2. InForce(running) /\ watch.srv = running
    BY <1>7 DEF Overtakes, InForce
  <2>3. running \in Server
    BY <2>2, <1>p DEF InForce, StartInv, TypeInv, Typed, Prepared, Alive
  <2>4. Ahead' = watch.cfg
    BY <1>b, <1>p, <2>1, <2>2, <2>3, SwapInForce DEF Believed
  <2>5. Believed'
    BY <1>b, <2>1, <2>4 DEF Believed
  <2> QED
    BY <1>b, <1>d, <1>p, <2>1, <2>5 DEF Follows
<1>8. CASE MarkAppliedBytes
  <2>1. /\ watch.pc = "mark" /\ watch'.pc = "idle" /\ applied' = watch.cfg
        /\ UNCHANGED <<chan, srv, events>> /\ watch.cfg \in Conf
    BY <1>8 DEF MarkAppliedBytes, MarkSource, WatchIdle, TypeInv, InHand
  <2>2. Ahead' = Ahead
    BY <1>p, <2>1 DEF Ahead
  <2>3. Believed'
    BY <1>b, <2>1, <2>2 DEF Believed, Sure
  <2> QED
    BY <1>b, <1>d, <1>p, <2>1, <2>3 DEF Follows
<1> QED
  BY <1>1, <1>2, <1>3, <1>4, <1>5, <1>6, <1>7, <1>8 DEF WatchStep

LEMMA RequestStrides ==
    ASSUME TypeInv, StartInv, InStride, Alive, NEW p \in Poster, RequestStep(p), ~Overtakes
    PROVE  InStride'
<1> USE DEF servers, env
<1>t. /\ post[p] \in PostType /\ post \in [Poster -> PostType] /\ events \in Nat
      /\ \A q \in Poster : q # p => post'[q] = post[q]
  BY OthersStay DEF TypeInv, Typed
<1>p. Prepared /\ UNCHANGED <<chan, main, watch, running>>
  <2>1. UNCHANGED <<chan, main, watch, running>>
    BY DEF RequestStep, Get, Post, Body, PostStep, LoadDoc, CheckVersion, Validate, Save,
           MarkApplied, PostSwap, PostSwapFails
  <2>2. ~Prepared => post[p].pc = "idle" /\ running \notin wired
    BY ConfAssumption DEF StartInv
  <2>3. Prepared
    BY <2>2 DEF RequestStep, Get, Post, Body, PostStep, LoadDoc, CheckVersion, Validate, Save,
                MarkApplied, PostSwap, PostSwapFails
  <2> QED
    BY <2>1, <2>3
<1>b. Believed /\ Follows
  BY <1>p DEF Prepared, Alive, InStride
<1>d. ASSUME Believed', Follows' PROVE InStride'
  BY <1>d, <1>p DEF InStride, Prepared
\* A request that neither marks nor swaps.
<1>k. ASSUME UNCHANGED <<applied, srv>>,
             post[p].pc = "swap" => applied # NewDoc(p) \/ ~Sure(applied)
      PROVE  Believed'
  <2>1. Ahead' = Ahead
    BY <1>p, <1>k DEF Ahead
  <2>2. \A q \in Poster : q # p => (post'[q].pc = "swap" <=> post[q].pc = "swap")
                                     /\ NewDoc(q)' = NewDoc(q)
    BY <1>t DEF NewDoc
  <2>3. (\A q \in Poster : post'[q].pc = "swap" => applied' # NewDoc(q)') /\ Sure(applied)
        => \A q \in Poster : post[q].pc = "swap" => applied # NewDoc(q)
    BY <1>k, <2>2
  <2>4. Sure(applied') <=> Sure(applied)
    BY <1>k DEF Sure
  <2> QED
    BY <1>b, <1>p, <1>k, <2>1, <2>3, <2>4 DEF Believed, Sure
<1>l. ASSUME UNCHANGED <<disk, events, applied, srv>>, post[p].pc \notin {"mark", "swap"}
      PROVE  InStride'
  <2>1. \A q \in Poster : post[q].pc = "mark" => post'[q].pc = "mark"
    BY <1>l, <1>t
  <2>2. Follows'
    BY <1>b, <1>p, <1>l, <2>1, KeepsFollowing
  <2> QED
    BY <1>d, <1>k, <1>l, <2>2
<1>1. CASE Get(p) \/ Post(p) \/ Body(p)
  BY <1>1, <1>l DEF Get, Post, Body
<1>2. CASE LoadDoc(p) \/ CheckVersion(p) \/ Validate(p)
  BY <1>2, <1>l DEF LoadDoc, CheckVersion, Validate
<1>3. CASE Save(p)
  <2>1. /\ post[p].pc = "save" /\ post'[p].pc = "mark" /\ UNCHANGED <<applied, srv>>
        /\ events' = IF Watching THEN events + 1 ELSE events
    BY <1>3, <1>t, RequestGoes DEF Save, Write
  <2>2. Believed'
    BY <1>k, <2>1
  <2>3. Follows'
    BY <1>p, <1>t, <2>1 DEF Follows, Watching
  <2> QED
    BY <1>d, <2>2, <2>3
<1>4. CASE MarkApplied(p)
  <2>1. /\ post[p].pc = "mark" /\ applied' = NewDoc(p) /\ UNCHANGED <<disk, events, srv>>
        /\ post'[p] = [post[p] EXCEPT !.pc = "swap"]
    BY <1>4, RequestGoes DEF MarkApplied, Marked
  <2>2. /\ InForce(post[p].srv) /\ NewDoc(p).top = srv[post[p].srv].top
        /\ NewDoc(p) = disk /\ (Applying => watch.cfg = NewDoc(p))
    BY <1>4 DEF Overtakes
  <2>3. NewDoc(p) \in Conf
    BY <2>1, NewDocType DEF Locked
  <2>4. Ahead' = Ahead /\ Ahead = srv[running] /\ post[p].srv = running
    BY <1>p, <2>1, <2>2 DEF Ahead, InForce
  <2>5. post'[p].pc = "swap" /\ NewDoc(p)' = NewDoc(p)
    <3>1. /\ post'[p].pc = "swap" /\ post'[p].doc = post[p].doc /\ post'[p].res = post[p].res
      BY <1>t, <2>1
    <3> QED
      BY <3>1 DEF NewDoc
  <2>6. Believed'
    BY <1>b, <1>p, <2>1, <2>2, <2>3, <2>4, <2>5 DEF Believed, Applying, Sure
  <2>7. Follows'
    BY <1>b, <1>p, <2>1, <2>2 DEF Follows, Applying
  <2> QED
    BY <1>d, <2>6, <2>7
<1>5. CASE PostSwap(p)
  <2>1. /\ post[p].pc = "swap" /\ srv' = [srv EXCEPT ![post[p].srv].res = post[p].res]
        /\ UNCHANGED <<disk, events, applied>> /\ post'[p].pc = "done"
    BY <1>5, RequestGoes DEF PostSwap
  <2>2. /\ InForce(post[p].srv) /\ NewDoc(p).top = srv[post[p].srv].top
        /\ NewDoc(p) = applied /\ (Applying => watch.cfg = NewDoc(p))
    BY <1>5, <2>1 DEF Overtakes
  <2>3. NewDoc(p) \in Conf /\ NewDoc(p).res = post[p].res
    BY <2>1, NewDocType DEF Locked
  <2>4. post[p].srv = running /\ running \in Server /\ InForce(running) /\ Ahead = srv[running]
    BY <1>p, <2>2 DEF InForce, StartInv, TypeInv, Typed, Prepared, Alive, Ahead
  <2>5. Ahead' = NewDoc(p)
    BY <1>p, <2>1, <2>2, <2>3, <2>4, SwapInForce
  <2>6. Believed'
    BY <1>b, <1>p, <2>1, <2>2, <2>5 DEF Believed, Applying
  <2>7. Follows'
    BY <1>b, <1>p, <1>t, <2>1, KeepsFollowing
  <2> QED
    BY <1>d, <2>6, <2>7
<1>6. CASE PostSwapFails(p)
  <2>1. /\ post[p].pc = "swap" /\ UNCHANGED <<disk, events, applied, srv>> /\ ~Sure(NewDoc(p))
    BY <1>6 DEF PostSwapFails, CanFail, Sure
  <2>2. Believed'
    BY <1>k, <2>1
  <2>3. Follows'
    BY <1>b, <1>p, <1>t, <2>1, KeepsFollowing
  <2> QED
    BY <1>d, <2>2, <2>3
<1> QED
  BY <1>1, <1>2, <1>3, <1>4, <1>5, <1>6 DEF RequestStep, PostStep

LEMMA OtherStrides ==
    ASSUME TypeInv, StartInv, InStride, Alive, RefreshRead \/ RefreshSend \/ Edit, ~Overtakes
    PROVE  InStride'
<1> USE DEF servers, env
<1>1. CASE RefreshRead
  <2>1. UNCHANGED <<disk, events, applied, watch, post, main, chan, srv, running>>
    BY <1>1 DEF RefreshRead
  <2> QED
    BY <2>1 DEF InStride, Believed, Follows, Ahead, NewDoc, Sure
<1>2. CASE RefreshSend
  <2>1. /\ chan' = <<refresh.cfg>>
        /\ UNCHANGED <<disk, events, applied, watch, post, main, srv, running>>
    BY <1>2 DEF RefreshSend, Send
  <2>2. refresh.cfg = applied /\ (Applying => watch.cfg = applied)
    BY <1>2 DEF Overtakes
  <2>3. Ahead' = applied
    BY <2>1, <2>2 DEF Ahead
  <2>4. Prepared
    BY <1>2 DEF RefreshSend, StartInv
  <2>5. Believed /\ Follows
    BY <2>4 DEF Prepared, Alive, InStride
  <2>6. Believed' /\ Follows'
    BY <2>1, <2>2, <2>3, <2>5 DEF Believed, Follows, Applying, Sure
  <2> QED
    BY <2>1, <2>4, <2>6 DEF InStride, Prepared
<1>3. CASE Edit
  <2>1. UNCHANGED <<applied, watch, post, main, chan, srv, running>>
    BY <1>3 DEF Edit
  <2>2. CASE main.pc = "boot"
    BY <2>1, <2>2 DEF InStride
  <2>3. CASE Watching
    <3>1. events' = events + 1 /\ events \in Nat
      BY <1>3, <2>3 DEF Edit, Write, TypeInv, Typed
    <3>2. Follows'
      BY <3>1 DEF Follows
    <3>3. Ahead' = Ahead
      BY <2>1 DEF Ahead
    <3>4. Believed'
      BY <2>1, <2>3, <3>3 DEF InStride, Watching, Prepared, Alive, Believed, NewDoc, Sure
    <3> QED
      BY <2>1, <2>3, <3>2, <3>4 DEF InStride, Watching, Prepared
  <2> QED
    BY <1>3, <2>2, <2>3 DEF Overtakes
<1> QED
  BY <1>1, <1>2, <1>3

LEMMA ConvNext ==
    ASSUME TypeInv, StartInv, ConvInv, [Next]_vars PROVE ConvInv'
<1>1. CASE UNCHANGED vars
  BY <1>1 DEF vars, sys, ConvInv, InStride, Believed, Follows, Ahead, NewDoc, Sure
<1>2. ASSUME Step, History, ~overtaken' PROVE InStride'
  <2>1. ~Overtakes /\ InStride
    BY <1>2, InStepInStride DEF History, ConvInv
  <2> QED
    BY <1>2, <2>1, MainStrides, ListenStrides, WatchStrides, RequestStrides, OtherStrides
       DEF Step, RequestStep
<1> QED
  BY <1>1, <1>2 DEF Next, ConvInv

LEMMA Converges == Spec => [](TypeInv /\ StartInv /\ ConvInv)
<1>1. Init => TypeInv /\ StartInv /\ ConvInv
  <2>1. Init => ConvInv
    BY DEF Init, ConvInv, InStride
  <2> QED
    BY <2>1, TypeInit, StartInit
<1>2. TypeInv /\ StartInv /\ ConvInv /\ [Next]_vars => (TypeInv /\ StartInv /\ ConvInv)'
  BY TypeNext, StartNext, ConvNext
<1> QED
  BY <1>1, <1>2, PTL DEF Spec

LEMMA SettledState ==
    ASSUME TypeInv, StartInv, ConvInv, Settled, Usable, ~overtaken
    PROVE  srv[running] = disk /\ applied = disk
<1>1. Believed /\ Follows
  BY DEF ConvInv, InStride, Settled
<1>2. Sure(disk) /\ events = 0 /\ watch.pc \in {"idle", "off"}
  BY DEF Usable, Sure, Settled
<1>3. applied = disk
  BY <1>1, <1>2, SettledAhead DEF Follows
<1>4. Ahead = applied
  BY <1>1, <1>2, <1>3, SettledAhead DEF Believed
<1> QED
  BY <1>3, <1>4, SettledAhead

\* Hot reload: when nothing is on its way any more, the running server runs the
\* file, whatever edits, saves, refreshes and failed builds led there, as long
\* as no change was overtaken: for every number of requests, edits, downloads,
\* servers and configurations (README.md:15, 33, reloader.go:183-233).
THEOREM HotReload == Spec => []HotReloadConverges
<1>1. TypeInv /\ StartInv /\ ConvInv => HotReloadConverges
  BY SettledState DEF HotReloadConverges
<1> QED
  BY <1>1, Converges, PTL

\* With the same exception, what the controller believes applied is what the
\* file holds (reloader.go:143-167).
THEOREM BeliefIsTrue == Spec => []AppliedIsOnDisk
<1>1. TypeInv /\ StartInv /\ ConvInv => AppliedIsOnDisk
  BY SettledState DEF AppliedIsOnDisk
<1> QED
  BY <1>1, Converges, PTL
=============================================================================
