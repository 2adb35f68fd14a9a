-------------------------------- MODULE Mdns --------------------------------
(***************************************************************************)
(* The mDNS bridge (resolver/mdns.go): the queries waiting in Resolve, the *)
(* waiters map that ties them to the reader goroutine, the window and the  *)
(* negative cache, the death of the reader and Close.                      *)
(*                                                                         *)
(* A query asks a question; questions that differ in case ask for one      *)
(* name.  A packet is the set of names it carries A records of: devices    *)
(* answer and announce as they like, so a packet may come at any time, up  *)
(* to MaxPackets.  Packets that are queries or do not parse are dropped by *)
(* the reader and left out.  heard and deaf are no state of the code: what *)
(* happened to a query while its window was open.                          *)
(***************************************************************************)
EXTENDS Integers, FiniteSets

CONSTANTS Lookup,      \* calls of Resolve
          NonA,        \* those that ask for another type than A
          Question,    \* questions, as clients spell them
          Name,        \* lower-case names
          AskOf,       \* the question of a query
          Lower,       \* the name of a question
          MaxPackets   \* bound on the packets read

ASSUME MdnsAssumption == /\ NonA \subseteq Lookup
                         /\ AskOf \in [Lookup -> Question]
                         /\ Lower \in [Question -> Name]
                         /\ MaxPackets \in Nat

VARIABLES stage,     \* where each query is in Resolve
          result,    \* what it returns
          inbox,     \* its channel, of capacity 1; {} when empty
          timer,     \* its window: "off", "running" or "expired"
          sent,      \* the multicasts it has sent
          waiters,   \* name -> queries waiting for it
          negCache,  \* questions cached as missing
          dead, done,  \* the reader has failed; has ended
          conn,      \* the socket: "open" or "closed"
          bridge,    \* its Close: "open", "closing", "closed"
          packets,   \* packets read so far
          heard, deaf

query == <<stage, result, inbox, timer, sent>>
reader == <<dead, done, conn, bridge, packets>>
mdnsVars == <<query, waiters, negCache, reader, heard, deaf>>

NameOf(q) == Lower[AskOf[q]]

MdnsInit == /\ stage = [q \in Lookup |-> "new"]
            /\ result = [q \in Lookup |-> "none"]
            /\ inbox = [q \in Lookup |-> {}]
            /\ timer = [q \in Lookup |-> "off"]
            /\ sent = [q \in Lookup |-> 0]
            /\ waiters = [n \in Name |-> {}]
            /\ negCache = {}
            /\ dead = FALSE /\ done = FALSE
            /\ conn = "open" /\ bridge = "open"
            /\ packets = 0
            /\ heard = {} /\ deaf = {}

-----------------------------------------------------------------------------
(* Resolve, up to the multicast.                                           *)

Return(q, r, at) == result' = [result EXCEPT ![q] = r] /\ stage' = [stage EXCEPT ![q] = at]
Goto(q, at) == stage' = [stage EXCEPT ![q] = at] /\ UNCHANGED result

\* The chain of a closed generation is not walked any more.
MdnsResolve(q) == /\ stage[q] = "new"
                  /\ bridge = "open"
                  /\ \/ q \in NonA /\ Return(q, "nodata", "done")
                     \/ q \notin NonA /\ AskOf[q] \in negCache /\ Return(q, "nx", "done")
                     \/ q \notin NonA /\ AskOf[q] \notin negCache /\ Goto(q, "alive?")
                  /\ UNCHANGED <<inbox, timer, sent, waiters, negCache, reader, heard, deaf>>

LoadDead(q) == /\ stage[q] = "alive?"
               /\ \/ dead /\ Return(q, "break", "done")
                  \/ ~dead /\ Goto(q, "add")
               /\ UNCHANGED <<inbox, timer, sent, waiters, negCache, reader, heard, deaf>>

AddWaiter(q) == /\ stage[q] = "add"
                /\ waiters' = [waiters EXCEPT ![NameOf(q)] = @ \cup {q}]
                /\ Goto(q, "send")
                /\ UNCHANGED <<inbox, timer, sent, negCache, reader, heard, deaf>>

\* The first multicast must succeed; then the window opens.
Send(q) == /\ stage[q] = "send"
           /\ \/ /\ Return(q, "break", "remove")
                 /\ UNCHANGED <<timer, sent>>
              \/ /\ Goto(q, "select")
                 /\ sent' = [sent EXCEPT ![q] = 1]
                 /\ timer' = [timer EXCEPT ![q] = "running"]
           /\ UNCHANGED <<inbox, waiters, negCache, reader, heard, deaf>>

-----------------------------------------------------------------------------
(* The select loop: when several channels are ready, Go takes any of them. *)

Elapse(q) == /\ stage[q] = "select"
             /\ timer[q] = "running"
             /\ timer' = [timer EXCEPT ![q] = "expired"]
             /\ UNCHANGED <<stage, result, inbox, sent, waiters, negCache, reader, heard, deaf>>

\* buildAnswer: a packet without the name would be a miss.
Receive(q) == /\ stage[q] = "select"
              /\ inbox[q] # {}
              /\ Return(q, IF NameOf(q) \in inbox[q] THEN "hit" ELSE "nx", "remove")
              /\ UNCHANGED <<inbox, timer, sent, waiters, negCache, reader, heard, deaf>>

RetransmitDue(q) == sent[q] = 1

\* The second multicast; that it may fail changes nothing.
Retransmit(q) == /\ stage[q] = "select"
                 /\ RetransmitDue(q)
                 /\ sent' = [sent EXCEPT ![q] = @ + 1]
                 /\ UNCHANGED <<stage, result, inbox, timer, waiters, negCache, reader, heard, deaf>>

DeadIgnored == FALSE
ReaderDead == dead

WindowOverAlive(q) == timer[q] = "expired" /\ ~dead
WindowOver(q) == timer[q] = "expired"

\* A reader that has died makes the miss a fault of the bridge.
Deadline(q) == /\ stage[q] = "select"
               /\ WindowOver(q)
               /\ \/ ReaderDead /\ Return(q, "break", "remove")
                  \/ ~ReaderDead /\ Goto(q, "miss")
               /\ UNCHANGED <<inbox, timer, sent, waiters, negCache, reader, heard, deaf>>

Miss(q) == /\ stage[q] = "miss"
           /\ negCache' = negCache \cup {AskOf[q]}
           /\ Return(q, "nx", "remove")
           /\ UNCHANGED <<inbox, timer, sent, waiters, reader, heard, deaf>>

WithoutName(q) == [waiters EXCEPT ![NameOf(q)] = {}]
Without(q) == [waiters EXCEPT ![NameOf(q)] = @ \ {q}]

\* The deferred calls: the timers stop, and the channel is garbage once it is
\* out of the map.
RemoveWaiter(q) == /\ stage[q] = "remove"
                   /\ waiters' = Without(q)
                   /\ timer' = [timer EXCEPT ![q] = "off"]
                   /\ inbox' = [inbox EXCEPT ![q] = {}]
                   /\ sent' = [sent EXCEPT ![q] = 0]
                   /\ Goto(q, "done")
                   /\ UNCHANGED <<negCache, reader, heard, deaf>>

NegExpires == /\ \E a \in negCache : negCache' = negCache \ {a}
              /\ UNCHANGED <<query, waiters, reader, heard, deaf>>

-----------------------------------------------------------------------------
(* The reader goroutine and Close.                                         *)

InWindow(q) == stage[q] \in {"send", "select"} /\ timer[q] # "expired"

WaitersOf(packet) == UNION {waiters[n] : n \in packet}

\* readLoop and dispatch: all waiters of every name in the packet get it,
\* unless their channel is full, and are forgotten.
Dispatch == /\ ~dead /\ conn = "open"
            /\ packets < MaxPackets
            /\ packets' = packets + 1
            /\ \E packet \in SUBSET Name \ {{}} :
                 LET told == {q \in WaitersOf(packet) : inbox[q] = {}}
                 IN  /\ inbox' = [q \in Lookup |-> IF q \in told THEN packet ELSE inbox[q]]
                     /\ waiters' = [n \in Name |-> IF n \in packet THEN {} ELSE waiters[n]]
                     /\ heard' = heard \cup {q \in told : InWindow(q)}
            /\ UNCHANGED <<stage, result, timer, sent, negCache, dead, done, conn, bridge, deaf>>

\* ReadFromUDP fails when the interface goes away or Close has closed the
\* socket: the reader marks its death and ends.
ReadFails == /\ ~dead
             /\ dead' = TRUE
             /\ deaf' = deaf \cup {q \in Lookup : InWindow(q)}
             /\ UNCHANGED <<query, waiters, negCache, done, conn, bridge, packets, heard>>

ReaderEnds == /\ dead /\ ~done
              /\ done' = TRUE
              /\ UNCHANGED <<query, waiters, negCache, dead, conn, bridge, packets, heard, deaf>>

\* closeAll of the resolver's generation: no query is inside Resolve.
Close == /\ bridge = "open"
         /\ \A q \in Lookup : stage[q] \in {"new", "done"}
         /\ bridge' = "closing"
         /\ conn' = "closed"
         /\ UNCHANGED <<query, waiters, negCache, dead, done, packets, heard, deaf>>

ReaderDone == done

CloseReturns == /\ bridge = "closing"
                /\ ReaderDone
                /\ bridge' = "closed"
                /\ UNCHANGED <<query, waiters, negCache, dead, done, conn, packets, heard, deaf>>

-----------------------------------------------------------------------------
Step(q) == \/ LoadDead(q) \/ AddWaiter(q) \/ Send(q)
           \/ Receive(q) \/ Retransmit(q) \/ Deadline(q) \/ Miss(q) \/ RemoveWaiter(q)

MdnsNext == \/ \E q \in Lookup : MdnsResolve(q) \/ Step(q) \/ Elapse(q)
            \/ NegExpires
            \/ Dispatch \/ ReadFails \/ ReaderEnds
            \/ Close \/ CloseReturns

\* Goroutines go on, timers fire, and reading a closed socket fails; no packet
\* need ever come, no socket fail by itself, and no chain be retired.
MdnsFairness == /\ \A q \in Lookup : WF_mdnsVars(Step(q)) /\ WF_mdnsVars(Elapse(q))
                /\ WF_mdnsVars(conn = "closed" /\ ReadFails)
                /\ WF_mdnsVars(ReaderEnds)
                /\ WF_mdnsVars(CloseReturns)

MdnsSpec == MdnsInit /\ [][MdnsNext]_mdnsVars
MdnsFairSpec == MdnsSpec /\ MdnsFairness

-----------------------------------------------------------------------------
(* Properties.                                                             *)

\* Types; a window has at most two multicasts.
MdnsTypeOK == /\ stage \in [Lookup -> {"new", "alive?", "add", "send", "select", "miss", "remove", "done"}]
              /\ result \in [Lookup -> {"none", "nodata", "nx", "break", "hit"}]
              /\ inbox \in [Lookup -> SUBSET Name]
              /\ timer \in [Lookup -> {"off", "running", "expired"}]
              /\ sent \in [Lookup -> 0..2]
              /\ waiters \in [Name -> SUBSET Lookup]
              /\ negCache \subseteq Question
              /\ dead \in BOOLEAN /\ done \in BOOLEAN
              /\ conn \in {"open", "closed"}
              /\ bridge \in {"open", "closing", "closed"}
              /\ packets \in 0..MaxPackets
              /\ heard \subseteq Lookup /\ deaf \subseteq Lookup

\* A query that waits is in the map or has its answer, whatever became of the
\* other queries for the name: no answer passes it by (mdns.go:226-273).
NobodyPassedBy ==
    \A q \in Lookup : stage[q] \in {"send", "select"}
        => q \in waiters[NameOf(q)] \/ inbox[q] # {}

\* No waiter outlives its query, so the map does not grow with the queries
\* that were answered, timed out or failed (mdns.go:171-172, 258-273).
NoWaiterLeft ==
    \A n \in Name : \A q \in waiters[n] :
        NameOf(q) = n /\ stage[q] \in {"send", "select", "miss", "remove"}

\* The packet a query gets has an A record of its name: the branch of
\* buildAnswer that would turn an answer into NXDOMAIN is unreachable
\* (mdns.go:239-247, 291-294).
AnswerIsOwn == \A q \in Lookup : inbox[q] # {} => NameOf(q) \in inbox[q]

\* A query whose window saw the reader die is never told, and never caches,
\* that the name does not exist (mdns.go:193-200).
DeafIsNoMiss == \A q \in deaf : result[q] # "nx" /\ stage[q] # "miss"

\* Close comes back to the generation only when the reader is gone, so no
\* packet is handled for a closed chain (mdns.go:146-152).
ClosedIsQuiet == bridge = "closed" => done

\* Every query is answered: by a packet or, reader dead or alive, by the end
\* of its window (mdns.go:182-203).
ResolveReturns == \A q \in Lookup : stage[q] = "alive?" ~> stage[q] = "done"

\* Close of the bridge ends: the reader leaves a closed socket
\* (mdns.go:146-152, 206-214).
MdnsCloseEnds == bridge = "closing" ~> bridge = "closed"

\* A miss is the result "when no answer at all was received within the
\* waiting window" (CONTEXT.md:22-23): a query that was given an answer in its
\* window is not told that the name does not exist.
MissMeansSilence == \A q \in heard : result[q] # "nx"
=============================================================================
