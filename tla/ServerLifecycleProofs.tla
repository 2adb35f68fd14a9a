----------------------- MODULE ServerLifecycleProofs ------------------------
(***************************************************************************)
(* The safety of the servers of a process, for any number of rebuilds,     *)
(* failed attempts and read errors: chains are closed after their handlers,*)
(* and the path of the portal belongs to the server that serves.           *)
(*                                                                         *)
(* Neither is inductive.  IndInv says which server is at which stage of    *)
(* its life, given the place of the main goroutine in reloadServer.        *)
(***************************************************************************)
EXTENDS ServerLifecycle, TLAPS

\* One server is built at a time, and started before the next is built.
OneAhead == built = IF main = "recv" THEN running ELSE running + 1

\* There is a server to shut down.
SomeRunning == main \notin {"recv", "start"} => running \in Server

\* A server that was not started has no goroutine, no handler and no resolvers
\* that were closed.
Unstarted == \A s \in Server : s > running =>
                /\ ~started[s] /\ udp[s].pc = "off" /\ http[s].pc = "off"
                /\ active[s] = {} /\ s \notin inShutdown /\ s \notin closed

\* wg.Wait has seen the listeners of s end.
Waited(s) == s < running \/ (s = running /\ main = "start")
WaitedEnded == \A s \in Server : Waited(s) => Ended(s)

\* Shutdown has waited for the HTTP requests of s.
HttpPast(s) == s < running \/ (s = running /\ main \in {"chain", "wait", "start"})
HttpQuiet == /\ main = "httpwait" => running \in inShutdown
             /\ \A s \in Server : HttpPast(s) =>
                   /\ s \in inShutdown \/ http[s].pc = "off"
                   /\ "http" \notin active[s]

HttpHandled == \A s \in Server : "http" \in active[s] => http[s].pc # "off"
UdpHandled == \A s \in Server : "udp" \in active[s] => udp[s].pc \in Reading

\* A socket that is still read although its server is not started any more is
\* one that Shutdown waits for.
UdpAwaited == \A s \in Server : udp[s].pc \in Reading /\ ~started[s]
                                   => s = running /\ main = "udpwait"

ClosedLast == \A s \in closed : s < running \/ (s = running /\ main \in {"wait", "start"})

\* From listening on the path until Shutdown it is the running server's.
PathOwned == \A s \in Server : http[s].pc \in {"bound", "serve"} /\ s \notin inShutdown
                                  => path = s

Stages == OneAhead /\ SomeRunning /\ Unstarted /\ WaitedEnded /\ ClosedLast
HttpSide == HttpQuiet /\ HttpHandled /\ PathOwned
UdpSide == UdpHandled /\ UdpAwaited

IndInv == TypeOK /\ Stages /\ HttpSide /\ UdpSide

-----------------------------------------------------------------------------
(* Lemmas on the state.                                                    *)

UdpPlace == [pc : UdpPc, try : 0..Tries]
HttpPlace == [pc : HttpPc, try : 0..Tries]

\* The places of a listener are its type's, and retry counts to Tries.
LEMMA ListenerTypes ==
    ASSUME TypeOK, NEW s \in Server
    PROVE  /\ \A pc \in UdpPc : [udp EXCEPT ![s] = To(@, pc)] \in [Server -> UdpPlace]
           /\ \A pc \in HttpPc : [http EXCEPT ![s] = To(@, pc)] \in [Server -> HttpPlace]
           /\ [udp EXCEPT ![s] = Again(@)] \in [Server -> UdpPlace]
           /\ [http EXCEPT ![s] = Again(@)] \in [Server -> HttpPlace]
  <1>1. udp[s] \in UdpPlace /\ http[s] \in HttpPlace
    BY DEF TypeOK, UdpPlace, HttpPlace
  <1>2. Again(udp[s]) \in UdpPlace /\ Again(http[s]) \in HttpPlace
    BY <1>1 DEF Again, To, UdpPc, HttpPc, Tries, UdpPlace, HttpPlace
  <1>3. /\ \A pc \in UdpPc : To(udp[s], pc) \in UdpPlace
        /\ \A pc \in HttpPc : To(http[s], pc) \in HttpPlace
    BY <1>1 DEF To, UdpPlace, HttpPlace
  <1> QED
    BY <1>2, <1>3 DEF TypeOK, UdpPlace, HttpPlace

\* Only the running server has a listener between its start and its end.
LEMMA OnlyRunningListens ==
    ASSUME IndInv, NEW s \in Server, ~Ended(s), udp[s].pc # "off" \/ http[s].pc # "off"
    PROVE  s = running /\ main # "start"
  BY DEF IndInv, Stages, TypeOK, Unstarted, WaitedEnded, Waited, Ended, Server, NoServer

-----------------------------------------------------------------------------
(* Every action preserves IndInv.                                          *)

\* Create: a server that is only built has nothing at work.
LEMMA CreateInv ==
    ASSUME IndInv, Create
    PROVE  IndInv'
  <1> USE LifecycleAssumption DEF IndInv, Stages, HttpSide, UdpSide, Create, Server,
              NoServer
  <1>1. TypeOK'
    BY DEF TypeOK, bounds, MainPc, SomeRunning
  <1>2. Stages'
    BY DEF TypeOK, OneAhead, SomeRunning, Unstarted, WaitedEnded, Waited, Ended, ClosedLast,
           Off, Trying
  <1>3. HttpSide'
    BY DEF TypeOK, Unstarted, WaitedEnded, Waited, Ended, OneAhead, SomeRunning, HttpQuiet,
           HttpPast, HttpHandled, PathOwned, Off, Trying
  <1>4. UdpSide'
    BY DEF TypeOK, Unstarted, SomeRunning, OneAhead, UdpHandled, UdpAwaited, Reading, Off,
           Trying
  <1> QED
    BY <1>1, <1>2, <1>3, <1>4

\* ShutdownUdp: a socket that is still being read is waited for.
LEMMA ShutdownUdpInv ==
    ASSUME IndInv, ShutdownUdp
    PROVE  IndInv'
  <1> USE LifecycleAssumption DEF IndInv, Stages, HttpSide, UdpSide, ShutdownUdp, Server,
              NoServer
  <1>1. TypeOK'
    BY DEF TypeOK, bounds, MainPc, SomeRunning
  <1>2. Stages'
    BY DEF TypeOK, OneAhead, SomeRunning, Unstarted, WaitedEnded, Waited, Ended, ClosedLast,
           Off, Trying
  <1>3. HttpSide'
    BY DEF TypeOK, Unstarted, WaitedEnded, Waited, Ended, OneAhead, SomeRunning, HttpQuiet,
           HttpPast, HttpHandled, PathOwned, Off, Trying
  <1>4. UdpSide'
    BY DEF TypeOK, Unstarted, SomeRunning, OneAhead, UdpHandled, UdpAwaited, Reading, Off,
           Trying
  <1> QED
    BY <1>1, <1>2, <1>3, <1>4

\* UdpHasShutDown: the socket is not read any more, nor does a handler walk for it.
LEMMA UdpHasShutDownInv ==
    ASSUME IndInv, UdpHasShutDown
    PROVE  IndInv'
  <1> USE LifecycleAssumption DEF IndInv, Stages, HttpSide, UdpSide, UdpHasShutDown, Server,
              NoServer
  <1>1. TypeOK'
    BY DEF TypeOK, bounds, MainPc, SomeRunning
  <1>2. Stages'
    BY DEF TypeOK, OneAhead, SomeRunning, Unstarted, WaitedEnded, Waited, Ended, ClosedLast,
           Off, Trying
  <1>3. HttpSide'
    BY DEF TypeOK, Unstarted, WaitedEnded, Waited, Ended, OneAhead, SomeRunning, HttpQuiet,
           HttpPast, HttpHandled, PathOwned, Off, Trying
  <1>4. UdpSide'
    BY DEF TypeOK, Unstarted, SomeRunning, OneAhead, UdpHandled, UdpAwaited, Reading, Off,
           Trying
  <1> QED
    BY <1>1, <1>2, <1>3, <1>4

\* ShutdownHttp: a listener that is not served yet will not be.
LEMMA ShutdownHttpInv ==
    ASSUME IndInv, ShutdownHttp
    PROVE  IndInv'
  <1> USE LifecycleAssumption DEF IndInv, Stages, HttpSide, UdpSide, ShutdownHttp, Server,
              NoServer
  <1>1. TypeOK'
    BY DEF TypeOK, bounds, MainPc, SomeRunning
  <1>2. Stages'
    BY DEF TypeOK, OneAhead, SomeRunning, Unstarted, WaitedEnded, Waited, Ended, ClosedLast,
           Off, Trying
  <1>3. HttpSide'
    BY DEF TypeOK, Unstarted, WaitedEnded, Waited, Ended, OneAhead, SomeRunning, HttpQuiet,
           HttpPast, HttpHandled, PathOwned, Off, Trying
  <1>4. UdpSide'
    BY DEF TypeOK, Unstarted, SomeRunning, OneAhead, UdpHandled, UdpAwaited, Reading, Off,
           Trying
  <1> QED
    BY <1>1, <1>2, <1>3, <1>4

\* HttpHasShutDown: the last request has gone, and no other is accepted.
LEMMA HttpHasShutDownInv ==
    ASSUME IndInv, HttpHasShutDown
    PROVE  IndInv'
  <1> USE LifecycleAssumption DEF IndInv, Stages, HttpSide, UdpSide, HttpHasShutDown,
              Server, NoServer
  <1>1. TypeOK'
    BY DEF TypeOK, bounds, MainPc, SomeRunning
  <1>2. Stages'
    BY DEF TypeOK, OneAhead, SomeRunning, Unstarted, WaitedEnded, Waited, Ended, ClosedLast,
           Off, Trying
  <1>3. HttpSide'
    BY DEF TypeOK, Unstarted, WaitedEnded, Waited, Ended, OneAhead, SomeRunning, HttpQuiet,
           HttpPast, HttpHandled, PathOwned, Off, Trying
  <1>4. UdpSide'
    BY DEF TypeOK, Unstarted, SomeRunning, OneAhead, UdpHandled, UdpAwaited, Reading, Off,
           Trying
  <1> QED
    BY <1>1, <1>2, <1>3, <1>4

\* CloseChain: both kinds of handlers have been waited for.
LEMMA CloseChainInv ==
    ASSUME IndInv, CloseChain
    PROVE  IndInv'
  <1> USE LifecycleAssumption DEF IndInv, Stages, HttpSide, UdpSide, CloseChain, Server,
              NoServer
  <1>1. TypeOK'
    BY DEF TypeOK, bounds, MainPc, SomeRunning
  <1>2. Stages'
    BY DEF TypeOK, OneAhead, SomeRunning, Unstarted, WaitedEnded, Waited, Ended, ClosedLast,
           Off, Trying
  <1>3. HttpSide'
    BY DEF TypeOK, Unstarted, WaitedEnded, Waited, Ended, OneAhead, SomeRunning, HttpQuiet,
           HttpPast, HttpHandled, PathOwned, Off, Trying
  <1>4. UdpSide'
    BY DEF TypeOK, Unstarted, SomeRunning, OneAhead, UdpHandled, UdpAwaited, Reading, Off,
           Trying
  <1> QED
    BY <1>1, <1>2, <1>3, <1>4

\* Wait: both goroutines have ended, for good.
LEMMA WaitInv ==
    ASSUME IndInv, Wait
    PROVE  IndInv'
  <1> USE LifecycleAssumption DEF IndInv, Stages, HttpSide, UdpSide, Wait, Server, NoServer
  <1>1. TypeOK'
    BY DEF TypeOK, bounds, MainPc, SomeRunning
  <1>2. Stages'
    BY DEF TypeOK, OneAhead, SomeRunning, Unstarted, WaitedEnded, Waited, Ended, ClosedLast,
           Off, Trying
  <1>3. HttpSide'
    BY DEF TypeOK, Unstarted, WaitedEnded, Waited, Ended, OneAhead, SomeRunning, HttpQuiet,
           HttpPast, HttpHandled, PathOwned, Off, Trying
  <1>4. UdpSide'
    BY DEF TypeOK, Unstarted, SomeRunning, OneAhead, UdpHandled, UdpAwaited, Reading, Off,
           Trying
  <1> QED
    BY <1>1, <1>2, <1>3, <1>4

\* Start: the listeners of the new server find those of the old one ended.
LEMMA StartInv ==
    ASSUME IndInv, Start
    PROVE  IndInv'
  <1> USE LifecycleAssumption DEF IndInv, Stages, HttpSide, UdpSide, Start, Server, NoServer
  <1>1. TypeOK'
    <2>1. {Off, Trying} \subseteq UdpPlace \cap HttpPlace
      BY DEF Off, Trying, UdpPlace, HttpPlace, UdpPc, HttpPc, Tries
    <2> QED
      BY <2>1 DEF TypeOK, UdpPlace, HttpPlace, bounds, MainPc, OneAhead
  <1>2. Stages'
    BY DEF TypeOK, OneAhead, SomeRunning, Unstarted, WaitedEnded, Waited, Ended, ClosedLast,
           Off, Trying
  <1>3. HttpSide'
    BY DEF TypeOK, Unstarted, WaitedEnded, Waited, Ended, OneAhead, SomeRunning, HttpQuiet,
           HttpPast, HttpHandled, PathOwned, Off, Trying
  <1>4. UdpSide'
    BY DEF TypeOK, Unstarted, SomeRunning, OneAhead, UdpHandled, UdpAwaited, Reading, Off,
           Trying
  <1> QED
    BY <1>1, <1>2, <1>3, <1>4

\* ListenUdp: a socket that is bound after its shutdown counts as started.
LEMMA ListenUdpInv ==
    ASSUME IndInv, NEW s \in Server, ListenUdp(s)
    PROVE  IndInv'
  <1> USE DEF IndInv, Stages, HttpSide, UdpSide, ListenUdp, Step, restUdp
  <1>1. s = running /\ main # "start"
    BY OnlyRunningListens DEF Ended, Reading
  <1>2. TypeOK'
    BY LifecycleAssumption, ListenerTypes DEF TypeOK, UdpPlace, bounds, Fail, UdpPc
  <1>3. Stages'
    BY <1>1 DEF TypeOK, OneAhead, SomeRunning, Unstarted, WaitedEnded, Waited, Ended,
           ClosedLast, To, Again, Server
  <1>4. HttpSide'
    BY <1>1 DEF TypeOK, HttpQuiet, HttpPast, HttpHandled, PathOwned, Server
  <1>5. UdpSide'
    BY <1>1 DEF TypeOK, UdpHandled, UdpAwaited, Reading, To, Again
  <1> QED
    BY <1>2, <1>3, <1>4, <1>5

\* ListenUdpFails: an attempt to bind is over.
LEMMA ListenUdpFailsInv ==
    ASSUME IndInv, NEW s \in Server, ListenUdpFails(s)
    PROVE  IndInv'
  <1> USE DEF IndInv, Stages, HttpSide, UdpSide, ListenUdpFails, Step, restUdp
  <1>1. s = running /\ main # "start"
    BY OnlyRunningListens DEF Ended, Reading
  <1>2. TypeOK'
    BY LifecycleAssumption, ListenerTypes DEF TypeOK, UdpPlace, bounds, Fail, UdpPc
  <1>3. Stages'
    BY <1>1 DEF TypeOK, OneAhead, SomeRunning, Unstarted, WaitedEnded, Waited, Ended,
           ClosedLast, To, Again, Server
  <1>4. HttpSide'
    BY <1>1 DEF TypeOK, HttpQuiet, HttpPast, HttpHandled, PathOwned, Server
  <1>5. UdpSide'
    BY <1>1 DEF TypeOK, UdpHandled, UdpAwaited, Reading, To, Again
  <1> QED
    BY <1>2, <1>3, <1>4, <1>5

\* SeesShutdown: a socket that drains is one that Shutdown waits for.
LEMMA SeesShutdownInv ==
    ASSUME IndInv, NEW s \in Server, SeesShutdown(s)
    PROVE  IndInv'
  <1> USE DEF IndInv, Stages, HttpSide, UdpSide, SeesShutdown, Step, restUdp
  <1>1. s = running /\ main # "start"
    BY OnlyRunningListens DEF Ended, Reading
  <1>2. TypeOK'
    BY LifecycleAssumption, ListenerTypes DEF TypeOK, UdpPlace, bounds, Fail, UdpPc
  <1>3. Stages'
    BY <1>1 DEF TypeOK, OneAhead, SomeRunning, Unstarted, WaitedEnded, Waited, Ended,
           ClosedLast, To, Again, Server
  <1>4. HttpSide'
    BY <1>1 DEF TypeOK, HttpQuiet, HttpPast, HttpHandled, PathOwned, Server
  <1>5. UdpSide'
    BY <1>1 DEF TypeOK, UdpHandled, UdpAwaited, Reading, To, Again
  <1> QED
    BY <1>2, <1>3, <1>4, <1>5

\* UdpReturns: the handlers of the socket have gone.
LEMMA UdpReturnsInv ==
    ASSUME IndInv, NEW s \in Server, UdpReturns(s)
    PROVE  IndInv'
  <1> USE DEF IndInv, Stages, HttpSide, UdpSide, UdpReturns, Step, restUdp
  <1>1. s = running /\ main # "start"
    BY OnlyRunningListens DEF Ended, Reading
  <1>2. TypeOK'
    BY LifecycleAssumption, ListenerTypes DEF TypeOK, UdpPlace, bounds, Fail, UdpPc
  <1>3. Stages'
    BY <1>1 DEF TypeOK, OneAhead, SomeRunning, Unstarted, WaitedEnded, Waited, Ended,
           ClosedLast, To, Again, Server
  <1>4. HttpSide'
    BY <1>1 DEF TypeOK, HttpQuiet, HttpPast, HttpHandled, PathOwned, Server
  <1>5. UdpSide'
    BY <1>1 DEF TypeOK, UdpHandled, UdpAwaited, Reading, To, Again
  <1> QED
    BY <1>2, <1>3, <1>4, <1>5

\* RetryUdp: retry tries again or gives up.
LEMMA RetryUdpInv ==
    ASSUME IndInv, NEW s \in Server, RetryUdp(s)
    PROVE  IndInv'
  <1> USE DEF IndInv, Stages, HttpSide, UdpSide, RetryUdp, Step, restUdp
  <1>1. s = running /\ main # "start"
    BY OnlyRunningListens DEF Ended, Reading
  <1>2. TypeOK'
    BY LifecycleAssumption, ListenerTypes DEF TypeOK, UdpPlace, bounds, Fail, UdpPc
  <1>3. Stages'
    BY <1>1 DEF TypeOK, OneAhead, SomeRunning, Unstarted, WaitedEnded, Waited, Ended,
           ClosedLast, To, Again, Server
  <1>4. HttpSide'
    BY <1>1 DEF TypeOK, HttpQuiet, HttpPast, HttpHandled, PathOwned, Server
  <1>5. UdpSide'
    BY <1>1 DEF TypeOK, UdpHandled, UdpAwaited, Reading, To, Again
  <1> QED
    BY <1>2, <1>3, <1>4, <1>5

\* ReadFails: a broken socket keeps its handlers and counts as started.
LEMMA ReadFailsInv ==
    ASSUME IndInv, NEW s \in Server, ReadFails(s)
    PROVE  IndInv'
  <1> USE DEF IndInv, Stages, HttpSide, UdpSide, ReadFails, Step, restUdp
  <1>1. s = running /\ main # "start"
    BY OnlyRunningListens DEF Ended, Reading
  <1>2. TypeOK'
    BY LifecycleAssumption, ListenerTypes DEF TypeOK, UdpPlace, bounds, Fail, UdpPc
  <1>3. Stages'
    BY <1>1 DEF TypeOK, OneAhead, SomeRunning, Unstarted, WaitedEnded, Waited, Ended,
           ClosedLast, To, Again, Server
  <1>4. HttpSide'
    BY <1>1 DEF TypeOK, HttpQuiet, HttpPast, HttpHandled, PathOwned, Server
  <1>5. UdpSide'
    BY <1>1 DEF TypeOK, UdpHandled, UdpAwaited, Reading, To, Again
  <1> QED
    BY <1>2, <1>3, <1>4, <1>5

\* ListenHttp: the path is the running server's, no other listener being there.
LEMMA ListenHttpInv ==
    ASSUME IndInv, NEW s \in Server, ListenHttp(s)
    PROVE  IndInv'
  <1> USE DEF IndInv, Stages, HttpSide, UdpSide, ListenHttp, StepHttp, restHttp
  <1>1. s = running /\ main # "start"
    BY OnlyRunningListens DEF Ended
  <1>2. TypeOK'
    BY LifecycleAssumption, ListenerTypes DEF TypeOK, HttpPlace, bounds, Fail, HttpPc
  <1>3. Stages'
    BY <1>1 DEF TypeOK, OneAhead, SomeRunning, Unstarted, WaitedEnded, Waited, Ended,
           ClosedLast, To, Again, Server
  <1>4. \A t \in Server : http[t].pc \in {"bound", "serve"} => t = s
    BY <1>1, OnlyRunningListens DEF Ended
  <1>5. HttpSide'
    BY <1>1, <1>4 DEF TypeOK, HttpQuiet, HttpPast, HttpHandled, PathOwned, To, Again, Server
  <1>6. UdpSide'
    BY DEF TypeOK, UdpHandled, UdpAwaited, Reading
  <1> QED
    BY <1>2, <1>3, <1>5, <1>6

\* ListenHttpFails: the path may be lost, but nobody serves on it.
LEMMA ListenHttpFailsInv ==
    ASSUME IndInv, NEW s \in Server, ListenHttpFails(s)
    PROVE  IndInv'
  <1> USE DEF IndInv, Stages, HttpSide, UdpSide, ListenHttpFails, StepHttp, restHttp
  <1>1. s = running /\ main # "start"
    BY OnlyRunningListens DEF Ended
  <1>2. TypeOK'
    BY LifecycleAssumption, ListenerTypes DEF TypeOK, HttpPlace, bounds, Fail, HttpPc
  <1>3. Stages'
    BY <1>1 DEF TypeOK, OneAhead, SomeRunning, Unstarted, WaitedEnded, Waited, Ended,
           ClosedLast, To, Again, Server
  <1>4. \A t \in Server : http[t].pc \in {"bound", "serve"} => t = s
    BY <1>1, OnlyRunningListens DEF Ended
  <1>5. HttpSide'
    BY <1>1, <1>4 DEF TypeOK, HttpQuiet, HttpPast, HttpHandled, PathOwned, To, Again, Server
  <1>6. UdpSide'
    BY DEF TypeOK, UdpHandled, UdpAwaited, Reading
  <1> QED
    BY <1>2, <1>3, <1>5, <1>6

\* Serve: the listener has had the path since it was created.
LEMMA ServeInv ==
    ASSUME IndInv, NEW s \in Server, Serve(s)
    PROVE  IndInv'
  <1> USE DEF IndInv, Stages, HttpSide, UdpSide, Serve, StepHttp, restHttp
  <1>1. s = running /\ main # "start"
    BY OnlyRunningListens DEF Ended
  <1>2. TypeOK'
    BY LifecycleAssumption, ListenerTypes DEF TypeOK, HttpPlace, bounds, Fail, HttpPc
  <1>3. Stages'
    BY <1>1 DEF TypeOK, OneAhead, SomeRunning, Unstarted, WaitedEnded, Waited, Ended,
           ClosedLast, To, Again, Server
  <1>4. \A t \in Server : http[t].pc \in {"bound", "serve"} => t = s
    BY <1>1, OnlyRunningListens DEF Ended
  <1>5. HttpSide'
    BY <1>1, <1>4 DEF TypeOK, HttpQuiet, HttpPast, HttpHandled, PathOwned, To, Again, Server
  <1>6. UdpSide'
    BY DEF TypeOK, UdpHandled, UdpAwaited, Reading
  <1> QED
    BY <1>2, <1>3, <1>5, <1>6

\* ServeClosed: only a server that was shut down loses the path here.
LEMMA ServeClosedInv ==
    ASSUME IndInv, NEW s \in Server, ServeClosed(s)
    PROVE  IndInv'
  <1> USE DEF IndInv, Stages, HttpSide, UdpSide, ServeClosed, StepHttp, restHttp
  <1>1. s = running /\ main # "start"
    BY OnlyRunningListens DEF Ended
  <1>2. TypeOK'
    BY LifecycleAssumption, ListenerTypes DEF TypeOK, HttpPlace, bounds, Fail, HttpPc
  <1>3. Stages'
    BY <1>1 DEF TypeOK, OneAhead, SomeRunning, Unstarted, WaitedEnded, Waited, Ended,
           ClosedLast, To, Again, Server
  <1>4. \A t \in Server : http[t].pc \in {"bound", "serve"} => t = s
    BY <1>1, OnlyRunningListens DEF Ended
  <1>5. HttpSide'
    BY <1>1, <1>4 DEF TypeOK, HttpQuiet, HttpPast, HttpHandled, PathOwned, To, Again, Server
  <1>6. UdpSide'
    BY DEF TypeOK, UdpHandled, UdpAwaited, Reading
  <1> QED
    BY <1>2, <1>3, <1>5, <1>6

\* RetryHttp: retry tries again or gives up.
LEMMA RetryHttpInv ==
    ASSUME IndInv, NEW s \in Server, RetryHttp(s)
    PROVE  IndInv'
  <1> USE DEF IndInv, Stages, HttpSide, UdpSide, RetryHttp, StepHttp, restHttp
  <1>1. s = running /\ main # "start"
    BY OnlyRunningListens DEF Ended
  <1>2. TypeOK'
    BY LifecycleAssumption, ListenerTypes DEF TypeOK, HttpPlace, bounds, Fail, HttpPc
  <1>3. Stages'
    BY <1>1 DEF TypeOK, OneAhead, SomeRunning, Unstarted, WaitedEnded, Waited, Ended,
           ClosedLast, To, Again, Server
  <1>4. \A t \in Server : http[t].pc \in {"bound", "serve"} => t = s
    BY <1>1, OnlyRunningListens DEF Ended
  <1>5. HttpSide'
    BY <1>1, <1>4 DEF TypeOK, HttpQuiet, HttpPast, HttpHandled, PathOwned, To, Again, Server
  <1>6. UdpSide'
    BY DEF TypeOK, UdpHandled, UdpAwaited, Reading
  <1> QED
    BY <1>2, <1>3, <1>5, <1>6

\* AcceptFails: the path goes with the listener that served on it.
LEMMA AcceptFailsInv ==
    ASSUME IndInv, NEW s \in Server, AcceptFails(s)
    PROVE  IndInv'
  <1> USE DEF IndInv, Stages, HttpSide, UdpSide, AcceptFails, StepHttp, restHttp
  <1>1. s = running /\ main # "start"
    BY OnlyRunningListens DEF Ended
  <1>2. TypeOK'
    BY LifecycleAssumption, ListenerTypes DEF TypeOK, HttpPlace, bounds, Fail, HttpPc
  <1>3. Stages'
    BY <1>1 DEF TypeOK, OneAhead, SomeRunning, Unstarted, WaitedEnded, Waited, Ended,
           ClosedLast, To, Again, Server
  <1>4. \A t \in Server : http[t].pc \in {"bound", "serve"} => t = s
    BY <1>1, OnlyRunningListens DEF Ended
  <1>5. HttpSide'
    BY <1>1, <1>4 DEF TypeOK, HttpQuiet, HttpPast, HttpHandled, PathOwned, To, Again, Server
  <1>6. UdpSide'
    BY DEF TypeOK, UdpHandled, UdpAwaited, Reading
  <1> QED
    BY <1>2, <1>3, <1>5, <1>6

\* Handle: a handler begins where its listener is served.
LEMMA HandleInv ==
    ASSUME IndInv, NEW s \in Server, NEW l \in Listener, Handle(s, l)
    PROVE  IndInv'
  <1> USE DEF IndInv, Stages, HttpSide, UdpSide, Handle, restUdp, Listener
  <1>1. TypeOK'
    BY DEF TypeOK, bounds
  <1>2. Stages'
    BY DEF TypeOK, OneAhead, SomeRunning, Unstarted, WaitedEnded, Waited, Ended, ClosedLast,
           Server
  <1>3. HttpSide'
    BY DEF TypeOK, WaitedEnded, Waited, Ended, HttpQuiet, HttpPast, HttpHandled, PathOwned,
           Server
  <1>4. UdpSide'
    BY DEF TypeOK, UdpHandled, UdpAwaited, Reading
  <1> QED
    BY <1>1, <1>2, <1>3, <1>4

\* Answer: a handler ends.
LEMMA AnswerInv ==
    ASSUME IndInv, NEW s \in Server, NEW l \in Listener, Answer(s, l)
    PROVE  IndInv'
  <1> USE DEF IndInv, Stages, HttpSide, UdpSide, Answer, restUdp, Listener
  <1>1. TypeOK'
    BY DEF TypeOK, bounds
  <1>2. Stages'
    BY DEF TypeOK, OneAhead, SomeRunning, Unstarted, WaitedEnded, Waited, Ended, ClosedLast,
           Server
  <1>3. HttpSide'
    BY DEF TypeOK, WaitedEnded, Waited, Ended, HttpQuiet, HttpPast, HttpHandled, PathOwned,
           Server
  <1>4. UdpSide'
    BY DEF TypeOK, UdpHandled, UdpAwaited, Reading
  <1> QED
    BY <1>1, <1>2, <1>3, <1>4

\* A step that changes nothing.
LEMMA StutterInv ==
    ASSUME IndInv, UNCHANGED vars
    PROVE  IndInv'
  BY DEF vars, bounds, IndInv, Stages, HttpSide, UdpSide, TypeOK, OneAhead, SomeRunning,
         Unstarted, WaitedEnded, Waited, Ended, ClosedLast, HttpQuiet, HttpPast,
     HttpHandled, PathOwned, UdpHandled, UdpAwaited, Reading

\* A process that has just started satisfies the invariant.
THEOREM InitInv == Init => IndInv
  <1> SUFFICES ASSUME Init PROVE IndInv
    OBVIOUS
  <1> USE DEF Init, Off, NoServer, Server
  <1>1. TypeOK
    BY LifecycleAssumption DEF TypeOK, MainPc, UdpPc, HttpPc, Tries
  <1>2. Stages /\ UdpSide
    BY DEF Stages, UdpSide, OneAhead, SomeRunning, Unstarted, WaitedEnded, Waited, Ended,
           ClosedLast, UdpHandled, UdpAwaited, Reading
  <1>3. HttpSide
    BY DEF HttpSide, HttpQuiet, HttpPast, HttpHandled, PathOwned
  <1> QED
    BY <1>1, <1>2, <1>3 DEF IndInv

\* Every step of the main goroutine, a listener or a handler preserves it.
THEOREM NextInv == IndInv /\ [Next]_vars => IndInv'
  <1> SUFFICES ASSUME IndInv, [Next]_vars PROVE IndInv'
    OBVIOUS
  <1>1. CASE Create \/ Main
    BY <1>1, CreateInv, ShutdownUdpInv, UdpHasShutDownInv, ShutdownHttpInv,
       HttpHasShutDownInv, CloseChainInv, WaitInv, StartInv DEF Main
  <1>2. ASSUME NEW s \in Server, Udp(s) \/ ReadFails(s) PROVE IndInv'
    BY <1>2, ListenUdpInv, ListenUdpFailsInv, SeesShutdownInv, UdpReturnsInv, RetryUdpInv,
       ReadFailsInv DEF Udp
  <1>3. ASSUME NEW s \in Server, Http(s) \/ AcceptFails(s) PROVE IndInv'
    BY <1>3, ListenHttpInv, ListenHttpFailsInv, ServeInv, ServeClosedInv, RetryHttpInv,
       AcceptFailsInv DEF Http
  <1>4. ASSUME NEW s \in Server, NEW l \in Listener, Handle(s, l) \/ Answer(s, l) PROVE IndInv'
    BY <1>4, HandleInv, AnswerInv
  <1>5. CASE UNCHANGED vars
    BY <1>5, StutterInv
  <1> QED
    BY <1>1, <1>2, <1>3, <1>4, <1>5 DEF Next

\* The invariant holds in every reachable state.
THEOREM Invariance == Spec => []IndInv
  BY InitInv, NextInv, PTL DEF Spec

-----------------------------------------------------------------------------
(* The results.                                                            *)

\* No handler walks resolvers that Shutdown has closed, those of a DNS listener
\* that was bound after its shutdown excepted.
THEOREM ChainsClosedIdle == Spec => []DrainedBeforeClosed
  <1>1. IndInv => DrainedBeforeClosed
    <2> SUFFICES ASSUME IndInv, NEW s \in closed, active[s] # {} PROVE Orphan(s)
      BY DEF DrainedBeforeClosed
    <2>1. s \in Server /\ active[s] = {"udp"}
      BY DEF IndInv, TypeOK, Stages, ClosedLast, HttpSide, HttpQuiet, HttpPast, Listener
    <2> QED
      BY <2>1 DEF IndInv, TypeOK, Stages, ClosedLast, UdpSide, UdpHandled, UdpAwaited,
             Orphan, Told, Server, NoServer
  <1> QED
    BY <1>1, Invariance, PTL

\* A client that dials the portal's path reaches the server that serves.
THEOREM PathIsServing == Spec => []PortalReachable
  <1>1. IndInv => PortalReachable
    BY DEF IndInv, HttpSide, PathOwned, PortalReachable
  <1> QED
    BY <1>1, Invariance, PTL
=============================================================================
