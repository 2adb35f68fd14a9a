------------------------------ MODULE Forward -------------------------------
(***************************************************************************)
(* A forward resolver (resolver/forward.go): the health that decides       *)
(* whether a query is sent or skipped, the race of MultiUpstream, and      *)
(* Close, which the resolver generation calls when no query is inside      *)
(* Resolve.                                                                *)
(*                                                                         *)
(* A caller runs Exchange: a query handler, or the probe goroutine that    *)
(* Resolve starts while the forward is dead.  A leg is the Exchange of one *)
(* caller with one upstream: a goroutine when there are several upstreams, *)
(* the caller itself when there is one.  The upstream library is external: *)
(* its Exchange ends, by its timeout if not before, with an answer, a      *)
(* REFUSED or an error.  history is no state of the code: it is the run of *)
(* equal results that checkStatus has been given last.                     *)
(***************************************************************************)
EXTENDS Integers, FiniteSets

CONSTANTS Query,      \* handlers inside Resolve, each a fresh goroutine
          Probe,      \* probe goroutines, each a fresh one
          Upstream,   \* mu.upstreams
          Threshold   \* 5 in the code

Caller == Query \cup Probe
Multi == Cardinality(Upstream) > 1
Result == {"answer", "refused", "error"}

ASSUME ForwardAssumption == /\ Query \cap Probe = {}
                            /\ IsFiniteSet(Upstream) /\ Upstream # {}
                            /\ Threshold \in Nat \ {0}

VARIABLES alive, failCount, successCount,  \* ForwardStat
          history,                         \* [ok, n]: the last n results were ok, or not
          pc,                              \* where each caller is
          leg,                             \* the leg of a caller to an upstream
          out,                             \* what Exchange returned to a caller
          closer,                          \* the generation's Close
          closed                           \* the upstreams closed

vars == <<alive, failCount, successCount, history, pc, leg, out, closer, closed>>
stat == <<alive, failCount, successCount, history>>

Init == /\ alive = TRUE /\ failCount = 0 /\ successCount = 0
        /\ history = [ok |-> TRUE, n |-> 0]
        /\ pc = [c \in Caller |-> "new"]
        /\ leg = [c \in Caller |-> [u \in Upstream |-> "none"]]
        /\ out = [c \in Caller |-> "none"]
        /\ closer = "serving"
        /\ closed = {}

-----------------------------------------------------------------------------
(* Resolve.                                                                *)

\* isAlive: a live forward is asked, a dead one is only probed.  A query that
\* entered the generation before it was retired may come here after.
Resolve(q) == /\ pc[q] = "new"
              /\ closer \in {"serving", "retired"}
              /\ \/ /\ alive
                    /\ pc' = [pc EXCEPT ![q] = "exchange"]
                 \/ /\ ~alive
                    /\ \E p \in Probe : /\ pc[p] = "new"
                                        /\ pc' = [pc EXCEPT ![q] = "done", ![p] = "exchange"]
              /\ UNCHANGED <<stat, leg, out, closer, closed>>

\* Exchange starts a leg to every upstream; each leg of a race is counted in
\* the wait group before it runs.
Launch(c) == /\ pc[c] = "exchange"
             /\ leg' = [leg EXCEPT ![c] = [u \in Upstream |-> "flying"]]
             /\ pc' = [pc EXCEPT ![c] = "race"]
             /\ UNCHANGED <<stat, out, closer, closed>>

LegEnds(c, u) == /\ leg[c][u] = "flying"
                 /\ \E r \in Result : leg' = [leg EXCEPT ![c][u] = r]
                 /\ UNCHANGED <<stat, pc, out, closer, closed>>

Won(r) == r = "answer" \/ (r = "refused" /\ ~Multi)

\* Nothing is left to wait for when this leg has delivered.
LastFirst(c, u) == TRUE
Last(c, u) == \A v \in Upstream \ {u} : leg[c][v] = "gone"

\* The caller takes a result from the channel: the first success ends the
\* race, a failure does only when it is the last.
Take(c, u) == /\ pc[c] = "race"
              /\ leg[c][u] \in Result
              /\ leg' = [leg EXCEPT ![c][u] = "gone"]
              /\ \/ /\ Won(leg[c][u])
                    /\ out' = [out EXCEPT ![c] = "answer"]
                    /\ pc' = [pc EXCEPT ![c] = "report"]
                 \/ /\ ~Won(leg[c][u]) /\ Last(c, u)
                    /\ out' = [out EXCEPT ![c] = "error"]
                    /\ pc' = [pc EXCEPT ![c] = "report"]
                 \/ /\ ~Won(leg[c][u]) /\ ~Last(c, u)
                    /\ UNCHANGED <<out, pc>>
              /\ UNCHANGED <<stat, closer, closed>>

\* A loser has nobody to send to: the cancelled context lets it go.
NeverCancelled(c) == FALSE
Cancelled(c) == pc[c] \in {"report", "done"}

Lose(c, u) == /\ leg[c][u] \in Result
              /\ Cancelled(c)
              /\ leg' = [leg EXCEPT ![c][u] = "gone"]
              /\ UNCHANGED <<stat, pc, out, closer, closed>>

-----------------------------------------------------------------------------
(* checkStatus.                                                            *)

Reached(n) == n >= Threshold

FailuresKept == failCount
FailuresAfterSuccess == 0

\* A result given to checkStatus, ok or not, in the state the forward is in.
Healthy(ok) ==
    \/ /\ ok
       /\ failCount' = FailuresAfterSuccess
       /\ UNCHANGED <<alive, successCount>>
    \/ /\ ~ok /\ Reached(failCount + 1)
       /\ alive' = FALSE /\ failCount' = 0 /\ successCount' = 0
    \/ /\ ~ok /\ ~Reached(failCount + 1)
       /\ failCount' = failCount + 1
       /\ UNCHANGED <<alive, successCount>>

Sick(ok) ==
    \/ /\ ~ok
       /\ successCount' = 0
       /\ UNCHANGED <<alive, failCount>>
    \/ /\ ok /\ Reached(successCount + 1)
       /\ alive' = TRUE /\ failCount' = 0 /\ successCount' = 0
    \/ /\ ok /\ ~Reached(successCount + 1)
       /\ successCount' = successCount + 1
       /\ UNCHANGED <<alive, failCount>>

CheckStatus(c) == /\ pc[c] = "report"
                  /\ LET ok == (out[c] = "answer")
                     IN  /\ IF alive THEN Healthy(ok) ELSE Sick(ok)
                         /\ history' = [ok |-> ok,
                                        n |-> IF ok # history.ok THEN 1
                                              ELSE IF history.n < Threshold THEN history.n + 1
                                              ELSE Threshold]
                  /\ pc' = [pc EXCEPT ![c] = "done"]
                  /\ UNCHANGED <<leg, out, closer, closed>>

-----------------------------------------------------------------------------
(* Close, called when the last query has left the generation.              *)

Retire == /\ closer = "serving"
          /\ closer' = "retired"
          /\ UNCHANGED <<stat, pc, leg, out, closed>>

\* closeAll runs once no query is inside Resolve; probes are not queries.
CloseBegin == /\ closer = "retired"
              /\ \A q \in Query : pc[q] \in {"new", "done"}
              /\ closer' = "wait"
              /\ UNCHANGED <<stat, pc, leg, out, closed>>

Tracked(c, u) == Multi /\ leg[c][u] \notin {"none", "gone"}
NoWait == TRUE
WaitGroupZero == \A c \in Caller, u \in Upstream : ~Tracked(c, u)

CloseWaited == /\ closer = "wait"
               /\ WaitGroupZero
               /\ closer' = "closing"
               /\ UNCHANGED <<stat, pc, leg, out, closed>>

CloseUpstream == /\ closer = "closing"
                 /\ \E u \in Upstream \ closed : closed' = closed \cup {u}
                 /\ closer' = IF closed' = Upstream THEN "closed" ELSE "closing"
                 /\ UNCHANGED <<stat, pc, leg, out>>

-----------------------------------------------------------------------------
CallerStep(c) == Launch(c) \/ CheckStatus(c)
                 \/ \E u \in Upstream : LegEnds(c, u) \/ Take(c, u) \/ Lose(c, u)
CloseStep == CloseBegin \/ CloseWaited \/ CloseUpstream

Next == \/ \E q \in Query : Resolve(q)
        \/ \E c \in Caller : CallerStep(c)
        \/ Retire \/ CloseStep

\* Every goroutine goes on, and an Exchange of the library ends by its
\* timeout; nothing makes a query or a swap come.
Fairness == /\ \A c \in Caller : WF_vars(CallerStep(c))
            /\ WF_vars(CloseStep)

Spec == Init /\ [][Next]_vars
FairSpec == Spec /\ Fairness

-----------------------------------------------------------------------------
(* Properties.                                                             *)

TypeOK == /\ alive \in BOOLEAN
          /\ failCount \in 0..(Threshold - 1) /\ successCount \in 0..(Threshold - 1)
          /\ history \in [ok : BOOLEAN, n : 0..Threshold]
          /\ pc \in [Caller -> {"new", "exchange", "race", "report", "done"}]
          /\ leg \in [Caller -> [Upstream -> {"none", "flying", "gone"} \cup Result]]
          /\ out \in [Caller -> {"none", "answer", "error"}]
          /\ closer \in {"serving", "retired", "wait", "closing", "closed"}
          /\ closed \subseteq Upstream

\* The losers of a query's race are out of the library before Close closes
\* the upstreams, although the query they raced for has been answered and
\* forgotten (forward.go:144-152).
LosersBeforeClose ==
    \A q \in Query, u \in Upstream : leg[q][u] = "flying" => closed = {}

\* A query fails only when every upstream has: no answer that comes before the
\* last failure is thrown away (forward.go:186-192).
FailsOnlyTogether ==
    [][\A c \in Caller : out'[c] = "error" /\ out[c] = "none"
          => \A u \in Upstream : \/ leg[c][u] = "gone"
                                 \/ leg[c][u] \in Result /\ ~Won(leg[c][u])]_vars

\* The forward is skipped only after Threshold failures in a row, and asked
\* again only after Threshold successes in a row: no count of an earlier spell
\* is left over, however the results of concurrent queries and probes come in
\* (forward.go:100-130, USAGE.md:79).
FlipsAfterRun ==
    [][alive' # alive => history'.ok = alive' /\ history'.n = Threshold]_vars

\* No leg hangs on its channel for ever: each is gone in the end, the losers
\* of a race too (forward.go:178-183).
LegsEnd == \A c \in Caller, u \in Upstream : leg[c][u] = "flying" ~> leg[c][u] = "gone"

\* A retired forward is closed: no leg keeps the wait group up
\* (forward.go:144-152).
CloseEnds == closer = "retired" ~> closer = "closed"

\* "Close() can wait for losers to exit before tearing down the upstream
\* connections (avoids Exchange-after-close)" (forward.go:132-134): nobody is
\* inside Exchange of a closed upstream.
NoExchangeAfterClose ==
    \A c \in Caller, u \in Upstream : leg[c][u] = "flying" => u \notin closed
=============================================================================
