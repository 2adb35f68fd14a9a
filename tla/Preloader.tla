----------------------------- MODULE Preloader ------------------------------
(***************************************************************************)
(* A preloader (resolver/preloader.go): a forward with a cache of its own, *)
(* whose entries are served at any age, and a goroutine that asks for the  *)
(* expired ones again at every tick.  A chain of resolvers (ResolverChain) *)
(* builds it, asks it and closes it.                                       *)
(*                                                                         *)
(* upstream is the server behind the forward: whether it answers, and the  *)
(* address it has for every name, NoAddress being an answer with no        *)
(* records.  How the forward gets at it is Forward's.                      *)
(***************************************************************************)
EXTENDS DnsData

CONSTANTS Zone,         \* addresses that the upstream gives
          MaxChanges    \* times the upstream changes an address or fails

ASSUME PreloaderAssumption == Zone # {} /\ Zone \subseteq Nat \ {NoAddress} /\ MaxChanges \in Nat

VARIABLES entry,      \* dnsCache of the preloader: address, and ExpiredAt ahead or not
          preLoop,    \* Work: pc, stop, names to look at, name, answer
          innerOpen,  \* the forward has not been closed
          upstream,   \* [up, addr]
          changes

preVars == <<entry, preLoop, innerOpen, upstream, changes>>

Loaded == {n \in Name : entry[n].addr # NoAddress}
Nobody == CHOOSE n \in Name : TRUE
PreLoopOff == [pc |-> "off", stop |-> FALSE, todo |-> {},
               name |-> Nobody, addr |-> NoAddress]

PreTypeOK == /\ entry \in [Name -> [addr : Zone \cup {NoAddress}, fresh : BOOLEAN]]
             /\ preLoop \in [pc : {"off", "select", "range", "asking", "storing", "ended"},
                             stop : BOOLEAN, todo : SUBSET Name, name : Name,
                             addr : Zone \cup {NoAddress}]
             /\ innerOpen \in BOOLEAN
             /\ upstream \in [up : BOOLEAN, addr : [Name -> Zone \cup {NoAddress}]]
             /\ changes \in 0..MaxChanges

PreInit == /\ entry = [n \in Name |-> [addr |-> NoAddress, fresh |-> FALSE]]
           /\ preLoop = PreLoopOff
           /\ innerOpen = FALSE
           /\ upstream = [up |-> TRUE, addr |-> [n \in Name |-> CHOOSE a \in Zone : TRUE]]
           /\ changes = 0

UpstreamChanges == /\ changes < MaxChanges
                   /\ changes' = changes + 1
                   /\ upstream' \in [up : BOOLEAN, addr : [Name -> Zone \cup {NoAddress}]] \ {upstream}
                   /\ UNCHANGED <<entry, preLoop, innerOpen>>

\* ExpiredAt passes.
EntryExpires(n) == /\ n \in Loaded /\ entry[n].fresh
                   /\ entry' = [entry EXCEPT ![n].fresh = FALSE]
                   /\ UNCHANGED <<preLoop, innerOpen, upstream, changes>>

-----------------------------------------------------------------------------
PreNew == /\ preLoop' = [PreLoopOff EXCEPT !.pc = "select"]
          /\ innerOpen' = TRUE
          /\ UNCHANGED <<entry, upstream, changes>>

\* A tick: Range over the entries.  One that is stored while it runs may be
\* visited too, but is fresh.  A tick that waits in its channel when stop is
\* closed, and is taken first, is a tick just before the stop.
PreWake == /\ preLoop.pc = "select" /\ ~preLoop.stop
           /\ preLoop' = [preLoop EXCEPT !.pc = "range", !.todo = Loaded]
           /\ UNCHANGED <<entry, innerOpen, upstream, changes>>

\* A fresh entry is left alone, for an expired one PreLoad asks again.
DueNever(n) == FALSE
Due(n) == ~entry[n].fresh

PreSkip(n) == /\ preLoop.pc = "range" /\ n \in preLoop.todo /\ ~Due(n)
              /\ preLoop' = [preLoop EXCEPT !.todo = @ \ {n}]
              /\ UNCHANGED <<entry, innerOpen, upstream, changes>>

PreAsk(n) == /\ preLoop.pc = "range" /\ n \in preLoop.todo /\ Due(n)
             /\ preLoop' = [preLoop EXCEPT !.pc = "asking", !.todo = @ \ {n}, !.name = n]
             /\ UNCHANGED <<entry, innerOpen, upstream, changes>>

\* Only an answer with records replaces the entry.
Worth(addr) == addr # NoAddress

PreAnswered == /\ preLoop.pc = "asking" /\ upstream.up
               /\ LET addr == upstream.addr[preLoop.name] IN
                  preLoop' = IF Worth(addr) THEN [preLoop EXCEPT !.pc = "storing", !.addr = addr]
                             ELSE [preLoop EXCEPT !.pc = "range", !.name = Nobody]
               /\ UNCHANGED <<entry, innerOpen, upstream, changes>>

PreFailed == /\ preLoop.pc = "asking" /\ ~upstream.up
             /\ preLoop' = [preLoop EXCEPT !.pc = "range", !.name = Nobody]
             /\ UNCHANGED <<entry, innerOpen, upstream, changes>>

Put(n, addr) == entry' = [entry EXCEPT ![n] = [addr |-> addr, fresh |-> TRUE]]

PreStore == /\ preLoop.pc = "storing"
            /\ Put(preLoop.name, preLoop.addr)
            /\ preLoop' = [preLoop EXCEPT !.pc = "range", !.name = Nobody, !.addr = NoAddress]
            /\ UNCHANGED <<innerOpen, upstream, changes>>

PreRangeEnds == /\ preLoop.pc = "range" /\ preLoop.todo = {}
                /\ preLoop' = [preLoop EXCEPT !.pc = "select"]
                /\ UNCHANGED <<entry, innerOpen, upstream, changes>>

StopUnseen == FALSE
StopSeen == preLoop.stop

PreExit == /\ preLoop.pc = "select" /\ StopSeen
           /\ preLoop' = [PreLoopOff EXCEPT !.pc = "ended", !.stop = TRUE]
           /\ UNCHANGED <<entry, innerOpen, upstream, changes>>

-----------------------------------------------------------------------------
\* Close stops the ticker, closes stop, waits for Work to end and closes the
\* forward.
PreStop == /\ ~preLoop.stop
           /\ preLoop' = [preLoop EXCEPT !.stop = TRUE]
           /\ UNCHANGED <<entry, innerOpen, upstream, changes>>

JoinedAtOnce == preLoop.stop
Joined == preLoop.pc = "ended"

PreCloseInner == /\ Joined /\ innerOpen
                 /\ innerOpen' = FALSE
                 /\ UNCHANGED <<entry, preLoop, upstream, changes>>

PreLoop == \/ PreWake \/ PreAnswered \/ PreFailed \/ PreStore
           \/ PreRangeEnds \/ PreExit
           \/ \E n \in Name : PreSkip(n) \/ PreAsk(n)
=============================================================================
