-------------------------- MODULE ServerLifecycle --------------------------
(***************************************************************************)
(* The servers of a process, one after the other (server.go: Start,        *)
(* Shutdown, retry; main.go: reloadServer): every full rebuild shuts the   *)
(* running server down and starts the next, whose listeners are goroutines *)
(* of their own that try three times.                                      *)
(*                                                                         *)
(* The listening itself is the libraries': dns.Server refuses to listen    *)
(* while it is started, stays started when reading fails, refuses Shutdown *)
(* when it is not started, and waits for its handlers before it returns;   *)
(* http.Server.Shutdown closes the listeners it serves, waits for them and *)
(* for the requests, and makes every later Serve return ErrServerClosed.   *)
(* The web portal is on a unix socket: closing its listener unlinks the    *)
(* path, whoever owns the path by then.                                    *)
(***************************************************************************)
EXTENDS Integers, FiniteSets

CONSTANTS MaxServers,   \* configurations that are built
          MaxFails,     \* attempts to listen that fail, and portal accepts
          MaxBreaks     \* read errors of a DNS socket that are not temporary

ASSUME LifecycleAssumption == MaxServers \in Nat /\ MaxFails \in Nat /\ MaxBreaks \in Nat

Tries == 3
Server == 1..MaxServers
Listener == {"udp", "http"}
NoServer == 0

VARIABLES main,      \* where the main goroutine is
          running,   \* the server the main goroutine keeps
          built,     \* the last server Create has returned
          started,   \* started[s]: the field of s's dns.Server
          udp,       \* the goroutine StartPlainUDPServer of each server
          http,      \* the goroutine StartHttpServer
          inShutdown,\* the servers whose http.Server has been shut down
          path,      \* the listener a client that dials the socket reaches
          active,    \* active[s]: the listeners with a handler at work
          closed,    \* the servers whose resolvers have been closed
          fails, breaks

bounds == <<fails, breaks>>
vars == <<main, running, built, started, udp, http, inShutdown, path, active, closed,
          bounds>>

Off == [pc |-> "off", try |-> 0]
MainPc == {"recv", "udp", "udpwait", "http", "httpwait", "chain", "wait", "start"}
UdpPc == {"off", "try", "serve", "drain", "broken", "backoff", "done"}
HttpPc == {"off", "try", "bound", "serve", "backoff", "done"}

Init == /\ main = "recv"
        /\ running = NoServer
        /\ built = 0
        /\ started = [s \in Server |-> FALSE]
        /\ udp = [s \in Server |-> Off]
        /\ http = [s \in Server |-> Off]
        /\ inShutdown = {}
        /\ path = NoServer
        /\ active = [s \in Server |-> {}]
        /\ closed = {}
        /\ fails = 0
        /\ breaks = 0

-----------------------------------------------------------------------------
(* The main goroutine: reloadServer for a configuration whose Create       *)
(* succeeds.  One that fails leaves the running server as it is.           *)

Create == /\ main = "recv"
          /\ built < MaxServers
          /\ built' = built + 1
          /\ main' = IF running = NoServer THEN "start" ELSE "udp"
          /\ UNCHANGED <<running, started, udp, http, inShutdown, path, active, closed, bounds>>

\* dns.Server.Shutdown returns an error, which is dropped, when the server is
\* not started, and has done nothing then.
ShutdownUdp ==
    /\ main = "udp"
    /\ main' = IF started[running] THEN "udpwait" ELSE "http"
    /\ started' = [started EXCEPT ![running] = FALSE]
    /\ UNCHANGED <<running, built, udp, http, inShutdown, path, active, closed, bounds>>

Reading == {"serve", "drain", "broken"}

UdpHasShutDown == /\ main = "udpwait"
                  /\ udp[running].pc \notin Reading
                  /\ main' = "http"
                  /\ UNCHANGED <<running, built, started, udp, http, inShutdown, path, active,
                                 closed, bounds>>

\* A server without a portal has no httpServer.
ShutdownHttp ==
    /\ main = "http"
    /\ IF http[running].pc = "off"
       THEN main' = "chain" /\ UNCHANGED <<inShutdown, path>>
       ELSE /\ main' = "httpwait"
            /\ inShutdown' = inShutdown \cup {running}
            /\ path' = IF http[running].pc = "serve" THEN NoServer ELSE path
    /\ UNCHANGED <<running, built, started, udp, http, active, closed, bounds>>

NotDrained == /\ main = "httpwait"
              /\ http[running].pc # "serve"
              /\ main' = "chain"
              /\ UNCHANGED <<running, built, started, udp, http, inShutdown, path, active,
                             closed, bounds>>

HttpHasShutDown == /\ main = "httpwait"
                   /\ http[running].pc # "serve"
                   /\ "http" \notin active[running]
                   /\ main' = "chain"
                   /\ UNCHANGED <<running, built, started, udp, http, inShutdown, path, active,
                                  closed, bounds>>

CloseChain == /\ main = "chain"
              /\ closed' = closed \cup {running}
              /\ main' = "wait"
              /\ UNCHANGED <<running, built, started, udp, http, inShutdown, path, active, bounds>>

NotWaited(s) == TRUE
Ended(s) == udp[s].pc = "done" /\ http[s].pc \in {"off", "done"}

Wait == /\ main = "wait"
        /\ Ended(running)
        /\ main' = "start"
        /\ UNCHANGED <<running, built, started, udp, http, inShutdown, path, active, closed,
                       bounds>>

Trying == [pc |-> "try", try |-> 1]

Start == /\ main = "start"
         /\ udp' = [udp EXCEPT ![built] = Trying]
         /\ \E g \in {Off, Trying} : http' = [http EXCEPT ![built] = g]
         /\ running' = built
         /\ main' = "recv"
         /\ UNCHANGED <<built, started, inShutdown, path, active, closed, bounds>>

-----------------------------------------------------------------------------
(* The goroutines of the listeners.                                        *)

To(g, pc) == [g EXCEPT !.pc = pc]
OneTryLess(g) == IF g.try < Tries - 1 THEN [pc |-> "try", try |-> g.try + 1] ELSE To(g, "done")
Again(g) == IF g.try < Tries THEN [pc |-> "try", try |-> g.try + 1] ELSE To(g, "done")
Fail == fails < MaxFails /\ fails' = fails + 1 /\ UNCHANGED breaks

Step(s, pc) == udp' = [udp EXCEPT ![s] = To(@, pc)]
StepHttp(s, pc) == http' = [http EXCEPT ![s] = To(@, pc)]

restUdp == <<main, running, built, http, inShutdown, path, closed>>
restHttp == <<main, running, built, started, udp, inShutdown, closed>>

ListenUdp(s) == /\ udp[s].pc = "try"
                /\ ~started[s]
                /\ started' = [started EXCEPT ![s] = TRUE]
                /\ Step(s, "serve")
                /\ UNCHANGED <<restUdp, active, bounds>>

\* The address cannot be bound, or the server is started already.
ListenUdpFails(s) == /\ udp[s].pc = "try"
                     /\ IF started[s] THEN UNCHANGED bounds ELSE Fail
                     /\ Step(s, "backoff")
                     /\ UNCHANGED <<restUdp, started, active>>

ReadFails(s) == /\ udp[s].pc = "serve"
                /\ started[s]
                /\ breaks < MaxBreaks
                /\ breaks' = breaks + 1
                /\ Step(s, "broken")
                /\ UNCHANGED <<restUdp, started, active, fails>>

SeesShutdown(s) == /\ udp[s].pc = "serve"
                   /\ ~started[s]
                   /\ Step(s, "drain")
                   /\ UNCHANGED <<restUdp, started, active, bounds>>

\* ListenAndServe returns when its handlers have: nil after a Shutdown, which
\* ends retry, the read error otherwise.
UdpReturns(s) == /\ udp[s].pc \in {"drain", "broken"}
                 /\ "udp" \notin active[s]
                 /\ Step(s, IF udp[s].pc = "drain" THEN "done" ELSE "backoff")
                 /\ UNCHANGED <<restUdp, started, active, bounds>>

RetryUdp(s) == /\ udp[s].pc = "backoff"
               /\ udp' = [udp EXCEPT ![s] = Again(@)]
               /\ UNCHANGED <<restUdp, started, active, bounds>>

\* CreateListener removes the path and listens there.
ListenHttp(s) == /\ http[s].pc = "try"
                 /\ path' = s
                 /\ StepHttp(s, "bound")
                 /\ UNCHANGED <<restHttp, active, bounds>>

ListenHttpFails(s) == /\ http[s].pc = "try"
                      /\ Fail
                      /\ path' \in {path, NoServer}
                      /\ StepHttp(s, "backoff")
                      /\ UNCHANGED <<restHttp, active>>

Serve(s) == /\ http[s].pc = "bound"
            /\ s \notin inShutdown
            /\ StepHttp(s, "serve")
            /\ UNCHANGED <<restHttp, path, active, bounds>>

\* ErrServerClosed is an error like any other, and retry does not count.
RetriedForEver(s) == /\ http[s].pc \in {"bound", "serve"}
                     /\ s \in inShutdown
                     /\ path' = IF http[s].pc = "bound" THEN NoServer ELSE path
                     /\ StepHttp(s, "try")
                     /\ UNCHANGED <<restHttp, active, bounds>>

\* ErrServerClosed, taken for nil.  A listener that was never served is closed
\* here, the others have been by Shutdown.
ServeClosed(s) == /\ http[s].pc \in {"bound", "serve"}
                  /\ s \in inShutdown
                  /\ path' = IF http[s].pc = "bound" THEN NoServer ELSE path
                  /\ StepHttp(s, "done")
                  /\ UNCHANGED <<restHttp, active, bounds>>

AcceptFails(s) == /\ http[s].pc = "serve"
                  /\ s \notin inShutdown
                  /\ Fail
                  /\ path' = NoServer
                  /\ StepHttp(s, "backoff")
                  /\ UNCHANGED <<restHttp, active>>

RetryHttp(s) == /\ http[s].pc = "backoff"
                /\ http' = [http EXCEPT ![s] = Again(@)]
                /\ UNCHANGED <<restHttp, path, active, bounds>>

-----------------------------------------------------------------------------
(* A handler of each listener, which walks the chain of its server.        *)

Handle(s, l) ==
    /\ IF l = "udp" THEN udp[s].pc = "serve" ELSE http[s].pc = "serve" /\ s \notin inShutdown
    /\ active' = [active EXCEPT ![s] = @ \cup {l}]
    /\ UNCHANGED <<restUdp, udp, started, bounds>>

Answer(s, l) == /\ l \in active[s]
                /\ active' = [active EXCEPT ![s] = @ \ {l}]
                /\ UNCHANGED <<restUdp, udp, started, bounds>>

-----------------------------------------------------------------------------
Main == \/ ShutdownUdp \/ UdpHasShutDown \/ ShutdownHttp \/ HttpHasShutDown
        \/ CloseChain \/ Wait \/ Start

Udp(s) == ListenUdp(s) \/ ListenUdpFails(s) \/ SeesShutdown(s) \/ UdpReturns(s) \/ RetryUdp(s)

Http(s) == ListenHttp(s) \/ ListenHttpFails(s) \/ Serve(s) \/ ServeClosed(s) \/ RetryHttp(s)

Next == \/ Create
        \/ Main
        \/ \E s \in Server : \/ Udp(s) \/ Http(s) \/ ReadFails(s) \/ AcceptFails(s)
                             \/ \E l \in Listener : Handle(s, l) \/ Answer(s, l)

Spec == Init /\ [][Next]_vars

\* Goroutines run, and a DNS handler ends: every exchange has a deadline, and so,
\* we take it, does the nft command (server.go:396).  A handler of the portal
\* reads a body, for which nobody sets one (server.go:189).
FairSpec == /\ Spec
            /\ WF_vars(Main)
            /\ \A s \in Server : WF_vars(Udp(s)) /\ WF_vars(Http(s)) /\ WF_vars(Answer(s, "udp"))

-----------------------------------------------------------------------------
TypeOK == /\ main \in MainPc
          /\ running \in Server \cup {NoServer}
          /\ built \in 0..MaxServers
          /\ started \in [Server -> BOOLEAN]
          /\ udp \in [Server -> [pc : UdpPc, try : 0..Tries]]
          /\ http \in [Server -> [pc : HttpPc, try : 0..Tries]]
          /\ inShutdown \subseteq Server
          /\ path \in Server \cup {NoServer}
          /\ active \in [Server -> SUBSET Listener]
          /\ closed \subseteq Server
          /\ fails \in 0..MaxFails
          /\ breaks \in 0..MaxBreaks

\* Shutdown has told the DNS listener of s to stop, as far as it could.
Told(s) == \/ s < running
           \/ s = running /\ main \in MainPc \ {"recv", "udp"}

\* A DNS listener that was not started when it was told, and is by now.
Orphan(s) == Told(s) /\ started[s]

\* No handler walks a chain that Shutdown has closed (server.go:161-169), the
\* queries of an orphan excepted.
DrainedBeforeClosed == \A s \in closed : active[s] = {} \/ Orphan(s)

\* The portal that serves is the one a client reaches: no listener of an earlier
\* server is left to unlink its path (server.go:169, config.go:231).
PortalReachable ==
    \A s \in Server : http[s].pc = "serve" /\ s \notin inShutdown => path = s

\* Two servers never answer DNS side by side on the port they may share
\* (server.go:183), unless one is an orphan.
OneAnswers == \A s, t \in Server : udp[s].pc = "serve" /\ udp[t].pc = "serve" /\ s < t
                                      => Orphan(s)

\* A rebuild ends with the new server started: Shutdown never hangs on a
\* listener, its retries or a handler (server.go:158-170), if the clients of the
\* portal end their requests, and an orphan excepted.
BodiesEnd == \A s \in Server : []<>("http" \notin active[s])
RebuildEnds ==
    BodiesEnd => (main # "recv" ~> main = "recv" \/ \E s \in Server : Orphan(s))

\* As long as fewer attempts fail than retry makes, a server that is left
\* running serves both its listeners in the end (server.go:195-216, 420-430).
ListensInTheEnd ==
    \A s \in Server :
        running = s /\ main = "recv"
          ~> \/ main # "recv"
             \/ udp[s].pc = "serve" /\ http[s].pc \in {"off", "serve"}
             \/ breaks > 0

-----------------------------------------------------------------------------
(* Stronger promises, which the code does not keep.                        *)

\* Shutdown ends: not when the DNS listener is bound after its Shutdown.
ShutdownReturns == BodiesEnd => (main # "recv" ~> main = "recv")

\* Shutdown needs no client: it waits for a request whose body never comes.
ShutdownNeedsNobody == main # "recv" ~> main = "recv" \/ \E s \in Server : Orphan(s)

\* A read error is one of the three attempts: the retries find the server
\* started, and DNS is given up.
ReadErrorIsRetried ==
    \A s \in Server : running = s /\ main = "recv" ~> main # "recv" \/ udp[s].pc = "serve"
=============================================================================
