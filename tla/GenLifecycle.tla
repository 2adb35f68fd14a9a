---------------------------- MODULE GenLifecycle ----------------------------
(***************************************************************************)
(* What the resolver generations of a DnsSwitchyServer promise, without    *)
(* the lock, the counter and the sync.Once that keep the promise           *)
(* (server.go:56-170): a query enters the generation that is current, a    *)
(* replaced generation is never entered again, and a generation is closed  *)
(* once, when no query is inside it and it is current no more, or the      *)
(* server has been shut down.                                              *)
(***************************************************************************)

CONSTANTS Query,    \* the handlers that walk a resolver chain
          Gen       \* the generations a server can ever hold

VARIABLES current,    \* the generation new queries enter
          installed,  \* every generation that is or has been current
          users,      \* users[g]: the queries inside generation g
          closed,     \* the generations whose resolvers have been closed
          stopped     \* Shutdown has drained the listeners

vars == <<current, installed, users, closed, stopped>>

Init == /\ current \in Gen
        /\ installed = {current}
        /\ users = [g \in Gen |-> {}]
        /\ closed = {}
        /\ stopped = FALSE

Inside(q) == {g \in installed : q \in users[g]}

Enter(q) == /\ ~stopped
            /\ Inside(q) = {}
            /\ current \notin closed
            /\ users' = [users EXCEPT ![current] = @ \cup {q}]
            /\ UNCHANGED <<current, installed, closed, stopped>>

Leave(q) == /\ \E g \in Inside(q) : users' = [users EXCEPT ![g] = @ \ {q}]
            /\ UNCHANGED <<current, installed, closed, stopped>>

Replace == /\ current' \in Gen \ installed
           /\ installed' = installed \cup {current'}
           /\ UNCHANGED <<users, closed, stopped>>

Close(g) == /\ g \in installed \ closed
            /\ users[g] = {}
            /\ g # current \/ stopped
            /\ closed' = closed \cup {g}
            /\ UNCHANGED <<current, installed, users, stopped>>

Stop == /\ ~stopped
        /\ \A g \in installed : users[g] = {}
        /\ stopped' = TRUE
        /\ UNCHANGED <<current, installed, users, closed>>

Next == \/ \E q \in Query : Enter(q) \/ Leave(q)
        \/ Replace
        \/ \E g \in Gen : Close(g)
        \/ Stop

\* A query ends, and a replaced generation that is empty is closed: it never
\* stays open for ever behind the one that took its place.
Fairness == /\ \A q \in Query : WF_vars(Leave(q))
            /\ \A g \in Gen : WF_vars(g # current /\ Close(g))

Spec == Init /\ [][Next]_vars /\ Fairness
=============================================================================
