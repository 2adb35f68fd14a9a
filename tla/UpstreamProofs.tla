--------------------------- MODULE UpstreamProofs ---------------------------
(***************************************************************************)
(* The two resolvers that ask the network, with any number of queries.     *)
(*                                                                         *)
(* A forward, with any number of probes and upstreams and any threshold:   *)
(* Close waits for the losers of every query's race, a race fails only as  *)
(* a whole, and the health of the forward changes only at the end of an    *)
(* unbroken run.                                                           *)
(*                                                                         *)
(* The mDNS bridge, with any number of names and packets: nobody waits     *)
(* outside the map without an answer, no query leaves anything in it,      *)
(* every answer is of the name that was asked, and the death of the reader *)
(* is never taken for the absence of a name.                               *)
(***************************************************************************)
EXTENDS Forward, Mdns, FiniteSetTheorems, TLAPS

-----------------------------------------------------------------------------
(* Forward: where the legs of a race are, and what the counts count.       *)

\* A race has no leg before it is launched.
LegsPlaced == \A c \in Caller, u \in Upstream :
                 pc[c] \in {"new", "exchange"} => leg[c][u] = "none"

\* With one upstream there is no loser: the caller runs the only leg itself.
SingleIsOver == ~Multi => \A c \in Caller, u \in Upstream :
                   pc[c] \in {"report", "done"} => leg[c][u] \in {"none", "gone"}

\* Close begins when no query is inside Resolve, and none comes after.
QueriesOut == closer \in {"wait", "closing", "closed"}
                 => \A q \in Query : pc[q] \in {"new", "done"}

\* Behind the wait group no query has a leg left.
LosersOut == closer \in {"closing", "closed"}
                => \A q \in Query, u \in Upstream : leg[q][u] \in {"none", "gone"}

ClosedBehindWait == closed # {} => closer \in {"closing", "closed"}

\* The counter that can flip the forward counts results of the run that
\* checkStatus was given last, and no others.
CountsRun == /\ alive /\ failCount > 0 => ~history.ok /\ history.n >= failCount
             /\ ~alive /\ successCount > 0 => history.ok /\ history.n >= successCount

Legs == LegsPlaced /\ SingleIsOver /\ QueriesOut /\ LosersOut /\ ClosedBehindWait

IndInv == TypeOK /\ Legs /\ CountsRun

-----------------------------------------------------------------------------
\* A caller is a query or a probe.
LEMMA Kinds == Query \subseteq Caller /\ Probe \subseteq Caller /\ Query \cap Probe = {}
  BY ForwardAssumption DEF Caller

\* Without a race there is one upstream.
LEMMA OneUpstream ==
    ASSUME ~Multi, NEW u \in Upstream, NEW v \in Upstream
    PROVE  u = v
  <1>1. IsFiniteSet(Upstream)
    BY ForwardAssumption
  <1>2. Cardinality({u, v}) <= Cardinality(Upstream)
    BY <1>1, FS_Subset
  <1>3. Cardinality(Upstream) \in Nat /\ Cardinality(Upstream) <= 1
    BY <1>1, FS_CardinalityType DEF Multi
  <1>4. u # v => Cardinality({u, v}) = 2
    <2>1. IsFiniteSet({u}) /\ Cardinality({u}) = 1
      BY FS_Singleton
    <2>2. u # v => Cardinality({u} \cup {v}) = 2
      BY <2>1, FS_AddElement
    <2>3. {u, v} = {u} \cup {v}
      OBVIOUS
    <2> QED
      BY <2>2, <2>3
  <1> QED
    BY <1>2, <1>3, <1>4

\* A new forward is alive and nothing flies.
THEOREM InitInv == Init => IndInv
  BY ForwardAssumption, Kinds
     DEF Init, IndInv, TypeOK, Legs, LegsPlaced, SingleIsOver, QueriesOut, LosersOut,
         ClosedBehindWait, CountsRun

-----------------------------------------------------------------------------
(* Every action preserves the invariant.                                   *)

\* Resolve: a query enters before Close begins, or starts a probe.
LEMMA ResolveInv ==
    ASSUME IndInv, NEW q \in Query, Resolve(q)
    PROVE  IndInv'
  <1> USE Kinds DEF IndInv, Resolve, stat
  <1>1. TypeOK'
    BY DEF TypeOK
  <1>2. Legs'
    BY DEF Legs, TypeOK, LegsPlaced, SingleIsOver, QueriesOut, LosersOut, ClosedBehindWait
  <1>3. CountsRun'
    BY DEF CountsRun
  <1> QED
    BY <1>1, <1>2, <1>3

\* Launch: a query that launches is inside Resolve, so that Close has not begun.
LEMMA LaunchInv ==
    ASSUME IndInv, NEW c \in Caller, Launch(c)
    PROVE  IndInv'
  <1> USE Kinds DEF IndInv, Launch, stat
  <1>1. TypeOK'
    BY DEF TypeOK
  <1>2. Legs'
    BY DEF Legs, TypeOK, LegsPlaced, SingleIsOver, QueriesOut, LosersOut, ClosedBehindWait
  <1>3. CountsRun'
    BY DEF CountsRun
  <1> QED
    BY <1>1, <1>2, <1>3

\* LegEnds: a leg that ends was flying.
LEMMA LegEndsInv ==
    ASSUME IndInv, NEW c \in Caller, NEW u \in Upstream, LegEnds(c, u)
    PROVE  IndInv'
  <1> USE Kinds DEF IndInv, LegEnds, stat
  <1>1. TypeOK'
    BY DEF TypeOK
  <1>2. Legs'
    BY DEF Legs, TypeOK, LegsPlaced, SingleIsOver, QueriesOut, LosersOut, ClosedBehindWait,
           Result
  <1>3. CountsRun'
    BY DEF CountsRun
  <1> QED
    BY <1>1, <1>2, <1>3

\* Take: with one upstream the leg that is taken is the only one.
LEMMA TakeInv ==
    ASSUME IndInv, NEW c \in Caller, NEW u \in Upstream, Take(c, u)
    PROVE  IndInv'
  <1> USE Kinds DEF IndInv, Take, stat
  <1>1. TypeOK'
    BY DEF TypeOK
  <1>2. Legs'
    BY OneUpstream DEF Legs, TypeOK, LegsPlaced, SingleIsOver, QueriesOut, LosersOut,
           ClosedBehindWait
  <1>3. CountsRun'
    BY DEF CountsRun
  <1> QED
    BY <1>1, <1>2, <1>3

\* Lose: a loser only leaves.
LEMMA LoseInv ==
    ASSUME IndInv, NEW c \in Caller, NEW u \in Upstream, Lose(c, u)
    PROVE  IndInv'
  <1> USE Kinds DEF IndInv, Lose, stat
  <1>1. TypeOK'
    BY DEF TypeOK
  <1>2. Legs'
    BY DEF Legs, TypeOK, LegsPlaced, SingleIsOver, QueriesOut, LosersOut, ClosedBehindWait,
           Result
  <1>3. CountsRun'
    BY DEF CountsRun
  <1> QED
    BY <1>1, <1>2, <1>3

\* What a result does to the health: it counts in its run, and the other kind
\* sets the counter back.
LEMMA CheckStatusCounts ==
    ASSUME IndInv, NEW c \in Caller, CheckStatus(c)
    PROVE  /\ alive' \in BOOLEAN /\ failCount' \in 0..(Threshold - 1)
           /\ successCount' \in 0..(Threshold - 1)
           /\ history' \in [ok : BOOLEAN, n : 0..Threshold]
           /\ CountsRun'
           /\ alive' # alive => history'.ok = alive' /\ history'.n = Threshold
  <1> DEFINE ok == out[c] = "answer"
             n == IF ok # history.ok THEN 1
                  ELSE IF history.n < Threshold THEN history.n + 1 ELSE Threshold
  <1>1. /\ Threshold \in Nat /\ Threshold >= 1 /\ ok \in BOOLEAN /\ alive \in BOOLEAN
        /\ failCount \in 0..(Threshold - 1) /\ successCount \in 0..(Threshold - 1)
        /\ history.ok \in BOOLEAN /\ history.n \in 0..Threshold
    BY ForwardAssumption DEF IndInv, TypeOK
  <1>2. /\ history' = [ok |-> ok, n |-> n]
        /\ alive => Healthy(ok)
        /\ ~alive => Sick(ok)
    BY DEF CheckStatus
  <1>3. n \in 1..Threshold
    BY <1>1
  <1>4. history'.ok = ok /\ history'.n = n /\ history' \in [ok : BOOLEAN, n : 0..Threshold]
    BY <1>1, <1>2, <1>3
  <1>5. /\ alive /\ ~ok => n >= failCount + 1
        /\ ~alive /\ ok => n >= successCount + 1
    BY <1>1 DEF IndInv, CountsRun
  <1> HIDE DEF ok, n
  <1>6. CASE alive
    <2>1. CASE ok
      <3>1. alive' = TRUE /\ failCount' = 0 /\ successCount' = successCount
        BY <1>1, <1>2, <1>6, <2>1 DEF Healthy, FailuresAfterSuccess
      <3>2. failCount' \in 0..(Threshold - 1) /\ successCount' \in 0..(Threshold - 1)
        BY <1>1, <3>1
      <3>3. CountsRun'
        BY <1>1, <1>4, <3>1 DEF CountsRun
      <3>4. alive' = alive
        BY <1>1, <1>2, <1>6, <2>1 DEF Healthy
      <3>5. alive' \in BOOLEAN
        BY <3>1
      <3> QED
        BY <1>4, <3>2, <3>3, <3>4, <3>5
    <2>2. CASE ~ok /\ Reached(failCount + 1)
      <3>1. alive' = FALSE /\ failCount' = 0 /\ successCount' = 0
        BY <1>2, <1>6, <2>2 DEF Healthy
      <3>2. n = Threshold /\ history'.ok = FALSE
        BY <1>1, <1>3, <1>4, <1>5, <1>6, <2>2 DEF Reached
      <3>3. alive' \in BOOLEAN
        BY <3>1
      <3>6. CountsRun'
        <4>1. ~(failCount' > 0) /\ ~(successCount' > 0)
          BY <3>1
        <4> QED
          BY <4>1 DEF CountsRun
      <3>4. failCount' \in 0..(Threshold - 1) /\ successCount' \in 0..(Threshold - 1)
        BY <1>1, <3>1
      <3>5. history'.ok = alive' /\ history'.n = Threshold
        BY <1>4, <3>1, <3>2
      <3> QED
        BY <1>4, <3>3, <3>4, <3>5, <3>6
    <2>3. CASE ~ok /\ ~Reached(failCount + 1)
      <3>1. alive' = TRUE /\ failCount' = failCount + 1 /\ successCount' = successCount
        BY <1>1, <1>2, <1>6, <2>3 DEF Healthy
      <3>2. failCount + 1 \in 0..(Threshold - 1)
        BY <1>1, <2>3 DEF Reached
      <3> QED
        BY <1>1, <1>4, <1>5, <1>6, <2>3, <3>1, <3>2 DEF CountsRun
    <2> QED
      BY <1>1, <2>1, <2>2, <2>3
  <1>7. CASE ~alive
    <2>1. CASE ~ok
      <3>1. alive' = FALSE /\ failCount' = failCount /\ successCount' = 0
        BY <1>1, <1>2, <1>7, <2>1 DEF Sick
      <3>2. failCount' \in 0..(Threshold - 1) /\ successCount' \in 0..(Threshold - 1)
        BY <1>1, <3>1
      <3>3. CountsRun'
        BY <1>1, <1>4, <3>1 DEF CountsRun
      <3> QED
        BY <1>1, <1>4, <1>7, <3>1, <3>2, <3>3
    <2>2. CASE ok /\ Reached(successCount + 1)
      <3>1. alive' = TRUE /\ failCount' = 0 /\ successCount' = 0
        BY <1>2, <1>7, <2>2 DEF Sick
      <3>2. n = Threshold /\ history'.ok = TRUE
        BY <1>1, <1>3, <1>4, <1>5, <1>7, <2>2 DEF Reached
      <3>3. alive' \in BOOLEAN
        BY <3>1
      <3>6. CountsRun'
        <4>1. ~(failCount' > 0) /\ ~(successCount' > 0)
          BY <3>1
        <4> QED
          BY <4>1 DEF CountsRun
      <3>4. failCount' \in 0..(Threshold - 1) /\ successCount' \in 0..(Threshold - 1)
        BY <1>1, <3>1
      <3>5. history'.ok = alive' /\ history'.n = Threshold
        BY <1>4, <3>1, <3>2
      <3> QED
        BY <1>4, <3>3, <3>4, <3>5, <3>6
    <2>3. CASE ok /\ ~Reached(successCount + 1)
      <3>1. alive' = FALSE /\ failCount' = failCount /\ successCount' = successCount + 1
        BY <1>1, <1>2, <1>7, <2>3 DEF Sick
      <3>2. successCount + 1 \in 0..(Threshold - 1)
        BY <1>1, <2>3 DEF Reached
      <3> QED
        BY <1>1, <1>4, <1>5, <1>7, <2>3, <3>1, <3>2 DEF CountsRun
    <2> QED
      BY <1>1, <2>1, <2>2, <2>3
  <1> QED
    BY <1>6, <1>7

\* CheckStatus: the legs are left alone.
LEMMA CheckStatusInv ==
    ASSUME IndInv, NEW c \in Caller, CheckStatus(c)
    PROVE  IndInv'
  <1>1. /\ pc[c] = "report" /\ pc' = [pc EXCEPT ![c] = "done"]
        /\ UNCHANGED <<leg, out, closer, closed>>
    BY DEF CheckStatus
  <1>2. TypeOK'
    BY <1>1, CheckStatusCounts DEF IndInv, TypeOK
  <1>3. Legs'
    BY <1>1, Kinds DEF IndInv, Legs, TypeOK, LegsPlaced, SingleIsOver, QueriesOut,
           LosersOut,
                       ClosedBehindWait
  <1> QED
    BY <1>2, <1>3, CheckStatusCounts DEF IndInv

\* Close: behind the wait group a race has no leg left, and without a race the
\* queries that are out had none.
LEMMA CloseInv ==
    ASSUME IndInv, Retire \/ CloseStep
    PROVE  IndInv'
  <1> USE Kinds DEF IndInv
  <1>1. UNCHANGED <<alive, failCount, successCount, history, pc, leg, out>>
    BY DEF CloseStep, Retire, CloseBegin, CloseWaited, CloseUpstream, stat
  <1>2. TypeOK'
    BY <1>1 DEF CloseStep, Retire, CloseBegin, CloseWaited, CloseUpstream, TypeOK
  <1>3. LegsPlaced' /\ SingleIsOver' /\ CountsRun'
    BY <1>1 DEF Legs, LegsPlaced, SingleIsOver, CountsRun
  <1>4. CASE Retire \/ CloseBegin
    BY <1>1, <1>2, <1>3, <1>4
       DEF Retire, CloseBegin, Legs, QueriesOut, LosersOut, ClosedBehindWait
  <1>5. CASE CloseWaited
    <2>1. ASSUME NEW q \in Query, NEW u \in Upstream PROVE leg[q][u] \in {"none", "gone"}
      <3>1. CASE Multi
        BY <1>5, <3>1 DEF CloseWaited, WaitGroupZero, Tracked
      <3>2. CASE ~Multi
        BY <1>5, <3>2 DEF CloseWaited, Legs, QueriesOut, LegsPlaced, SingleIsOver
      <3> QED
        BY <3>1, <3>2
    <2> QED
      BY <1>1, <1>2, <1>3, <1>5, <2>1
         DEF CloseWaited, Legs, QueriesOut, LosersOut, ClosedBehindWait
  <1>6. CASE CloseUpstream
    BY <1>1, <1>2, <1>3, <1>6
       DEF CloseUpstream, Legs, QueriesOut, LosersOut, ClosedBehindWait
  <1> QED
    BY <1>4, <1>5, <1>6 DEF CloseStep

\* Every step of the forward preserves the invariant.
THEOREM NextInv == IndInv /\ [Next]_vars => IndInv'
  <1> SUFFICES ASSUME IndInv, [Next]_vars PROVE IndInv'
    OBVIOUS
  <1>1. ASSUME NEW c \in Caller, CallerStep(c) PROVE IndInv'
    BY <1>1, LaunchInv, CheckStatusInv, LegEndsInv, TakeInv, LoseInv DEF CallerStep
  <1>2. CASE UNCHANGED vars
    BY <1>2 DEF vars, IndInv, TypeOK, Legs, LegsPlaced, SingleIsOver, QueriesOut, LosersOut,
                ClosedBehindWait, CountsRun
  <1> QED
    BY <1>1, <1>2, ResolveInv, CloseInv DEF Next

\* The invariant holds in every reachable state.
THEOREM Invariance == Spec => []IndInv
  BY InitInv, NextInv, PTL DEF Spec

-----------------------------------------------------------------------------
(* The results.                                                            *)

\* Close closes no upstream before the losers of every query are out of it.
THEOREM LosersFirst == Spec => []LosersBeforeClose
  <1>1. IndInv => LosersBeforeClose
    BY DEF IndInv, Legs, LosersOut, ClosedBehindWait, LosersBeforeClose
  <1> QED
    BY <1>1, Invariance, PTL

\* A race fails when its last upstream has failed, and all others before.
THEOREM FailuresAreAll == Spec => FailsOnlyTogether
  <1>1. IndInv /\ [Next]_vars
           => [\A c \in Caller : out'[c] = "error" /\ out[c] = "none"
                 => \A u \in Upstream : \/ leg[c][u] = "gone"
                                        \/ leg[c][u] \in Result /\ ~Won(leg[c][u])]_vars
    <2> SUFFICES ASSUME IndInv, Next, NEW c \in Caller, out'[c] = "error", out[c] = "none",
                        NEW u \in Upstream
                 PROVE  leg[c][u] = "gone" \/ (leg[c][u] \in Result /\ ~Won(leg[c][u]))
      BY DEF vars
    <2>1. PICK d \in Caller, v \in Upstream : Take(d, v)
      BY DEF Next, Resolve, CallerStep, Launch, LegEnds, Lose, CheckStatus, Retire,
             CloseStep,
             CloseBegin, CloseWaited, CloseUpstream
    <2>2. d = c /\ ~Won(leg[c][v]) /\ Last(c, v) /\ leg[c][v] \in Result
      BY <2>1 DEF Take, IndInv, TypeOK
    <2> QED
      BY <2>2 DEF Last
  <1> QED
    BY <1>1, Invariance, PTL DEF Spec, FailsOnlyTogether

\* The forward is skipped, and asked again, only after a whole run of results.
THEOREM FlipsNeedRun == Spec => FlipsAfterRun
  <1>1. IndInv /\ [Next]_vars
           => [alive' # alive => history'.ok = alive' /\ history'.n = Threshold]_vars
    <2> SUFFICES ASSUME IndInv, Next, alive' # alive
                 PROVE  history'.ok = alive' /\ history'.n = Threshold
      BY DEF vars
    <2>1. PICK c \in Caller : CheckStatus(c)
      BY DEF Next, Resolve, CallerStep, Launch, LegEnds, Lose, Take, Retire, CloseStep,
             CloseBegin, CloseWaited, CloseUpstream, stat
    <2> QED
      BY <2>1, CheckStatusCounts
  <1> QED
    BY <1>1, Invariance, PTL DEF Spec, FlipsAfterRun

-----------------------------------------------------------------------------
(* Mdns: who is in the map, and what the dead reader leaves behind.        *)

\* Nothing is returned before the end.
NotYet == \A q \in Lookup : stage[q] \in {"new", "alive?", "add", "send", "select", "miss"}
                              => result[q] = "none"

\* A query that was deaf in its window found the reader dead ever after.
DeafInside == \A q \in deaf : dead /\ stage[q] \in {"send", "select", "remove", "done"}

MdnsInv == /\ MdnsTypeOK /\ NoWaiterLeft /\ AnswerIsOwn /\ NobodyPassedBy
           /\ NotYet /\ DeafInside /\ DeafIsNoMiss /\ ClosedIsQuiet

\* Every query has a name.
LEMMA NameType == \A q \in Lookup : AskOf[q] \in Question /\ NameOf(q) \in Name
  BY MdnsAssumption DEF NameOf

\* Nobody asks at first.
THEOREM MdnsInitInv == MdnsInit => MdnsInv
  <1> SUFFICES ASSUME MdnsInit PROVE MdnsInv
    OBVIOUS
  <1>1. MdnsTypeOK
    <2>1. packets \in 0..MaxPackets
      BY MdnsAssumption DEF MdnsInit
    <2>2. inbox \in [Lookup -> SUBSET Name] /\ waiters \in [Name -> SUBSET Lookup]
      BY DEF MdnsInit
    <2>3. sent \in [Lookup -> 0..2]
      BY DEF MdnsInit
    <2>4. /\ negCache \subseteq Question
          /\ heard \subseteq Lookup /\ deaf \subseteq Lookup
      BY DEF MdnsInit
    <2> QED
      BY <2>1, <2>2, <2>3, <2>4 DEF MdnsInit, MdnsTypeOK
  <1>2. NoWaiterLeft /\ AnswerIsOwn /\ NobodyPassedBy
    BY NameType DEF MdnsInit, NoWaiterLeft, AnswerIsOwn, NobodyPassedBy
  <1>3. NotYet /\ DeafInside /\ DeafIsNoMiss /\ ClosedIsQuiet
    BY DEF MdnsInit, NotYet, DeafInside, DeafIsNoMiss, ClosedIsQuiet
  <1> QED
    BY <1>1, <1>2, <1>3 DEF MdnsInv

-----------------------------------------------------------------------------
(* Every action preserves the invariant.                                   *)

\* Resolve: a query that is answered at once never waits.
LEMMA MdnsResolveInv ==
    ASSUME MdnsInv, NEW q \in Lookup, MdnsResolve(q)
    PROVE  MdnsInv'
  <1> USE NameType DEF MdnsInv, MdnsTypeOK, MdnsResolve, Return, Goto, reader
  <1>1. MdnsTypeOK'
    OBVIOUS
  <1>2. NoWaiterLeft'
    BY DEF NoWaiterLeft
  <1>3. AnswerIsOwn'
    BY DEF AnswerIsOwn
  <1>4. NobodyPassedBy'
    BY DEF NobodyPassedBy
  <1>5. NotYet' /\ DeafInside' /\ DeafIsNoMiss'
    BY DEF NotYet, DeafInside, DeafIsNoMiss
  <1>6. ClosedIsQuiet'
    BY DEF ClosedIsQuiet
  <1> QED
    BY <1>1, <1>2, <1>3, <1>4, <1>5, <1>6

\* LoadDead: a reader that is dead already is an answer.
LEMMA LoadDeadInv ==
    ASSUME MdnsInv, NEW q \in Lookup, LoadDead(q)
    PROVE  MdnsInv'
  <1> USE NameType DEF MdnsInv, MdnsTypeOK, LoadDead, Return, Goto, reader
  <1>1. MdnsTypeOK'
    OBVIOUS
  <1>2. NoWaiterLeft'
    BY DEF NoWaiterLeft
  <1>3. AnswerIsOwn'
    BY DEF AnswerIsOwn
  <1>4. NobodyPassedBy'
    BY DEF NobodyPassedBy
  <1>5. NotYet' /\ DeafInside' /\ DeafIsNoMiss'
    BY DEF NotYet, DeafInside, DeafIsNoMiss
  <1>6. ClosedIsQuiet'
    BY DEF ClosedIsQuiet
  <1> QED
    BY <1>1, <1>2, <1>3, <1>4, <1>5, <1>6

\* AddWaiter: a query is in the map before its window opens.
LEMMA AddWaiterInv ==
    ASSUME MdnsInv, NEW q \in Lookup, AddWaiter(q)
    PROVE  MdnsInv'
  <1> USE NameType DEF MdnsInv, MdnsTypeOK, AddWaiter, Goto, reader
  <1>1. MdnsTypeOK'
    OBVIOUS
  <1>2. NoWaiterLeft'
    BY DEF NoWaiterLeft
  <1>3. AnswerIsOwn'
    BY DEF AnswerIsOwn
  <1>4. NobodyPassedBy'
    BY DEF NobodyPassedBy
  <1>5. NotYet' /\ DeafInside' /\ DeafIsNoMiss'
    BY DEF NotYet, DeafInside, DeafIsNoMiss
  <1>6. ClosedIsQuiet'
    BY DEF ClosedIsQuiet
  <1> QED
    BY <1>1, <1>2, <1>3, <1>4, <1>5, <1>6

\* Send: the window opens with the query in the map.
LEMMA SendInv ==
    ASSUME MdnsInv, NEW q \in Lookup, Send(q)
    PROVE  MdnsInv'
  <1> USE NameType DEF MdnsInv, MdnsTypeOK, Send, Return, Goto, reader
  <1>1. MdnsTypeOK'
    OBVIOUS
  <1>2. NoWaiterLeft'
    BY DEF NoWaiterLeft
  <1>3. AnswerIsOwn'
    BY DEF AnswerIsOwn
  <1>4. NobodyPassedBy'
    BY DEF NobodyPassedBy
  <1>5. NotYet' /\ DeafInside' /\ DeafIsNoMiss'
    BY DEF NotYet, DeafInside, DeafIsNoMiss
  <1>6. ClosedIsQuiet'
    BY DEF ClosedIsQuiet
  <1> QED
    BY <1>1, <1>2, <1>3, <1>4, <1>5, <1>6

\* Elapse: a window that is over changes nothing else.
LEMMA ElapseInv ==
    ASSUME MdnsInv, NEW q \in Lookup, Elapse(q)
    PROVE  MdnsInv'
  <1> USE NameType DEF MdnsInv, MdnsTypeOK, Elapse, reader
  <1>1. MdnsTypeOK'
    OBVIOUS
  <1>2. NoWaiterLeft'
    BY DEF NoWaiterLeft
  <1>3. AnswerIsOwn'
    BY DEF AnswerIsOwn
  <1>4. NobodyPassedBy'
    BY DEF NobodyPassedBy
  <1>5. NotYet' /\ DeafInside' /\ DeafIsNoMiss'
    BY DEF NotYet, DeafInside, DeafIsNoMiss
  <1>6. ClosedIsQuiet'
    BY DEF ClosedIsQuiet
  <1> QED
    BY <1>1, <1>2, <1>3, <1>4, <1>5, <1>6

\* Receive: an answer is a hit, since it has the name.
LEMMA ReceiveInv ==
    ASSUME MdnsInv, NEW q \in Lookup, Receive(q)
    PROVE  MdnsInv'
  <1> USE NameType DEF MdnsInv, MdnsTypeOK, Receive, Return, reader
  <1>1. MdnsTypeOK'
    OBVIOUS
  <1>2. NoWaiterLeft'
    BY DEF NoWaiterLeft
  <1>3. AnswerIsOwn'
    BY DEF AnswerIsOwn
  <1>4. NobodyPassedBy'
    BY DEF NobodyPassedBy
  <1>5. NotYet' /\ DeafInside' /\ DeafIsNoMiss'
    BY DEF NotYet, DeafInside, DeafIsNoMiss, AnswerIsOwn
  <1>6. ClosedIsQuiet'
    BY DEF ClosedIsQuiet
  <1> QED
    BY <1>1, <1>2, <1>3, <1>4, <1>5, <1>6

\* Retransmit: once in a window.
LEMMA RetransmitInv ==
    ASSUME MdnsInv, NEW q \in Lookup, Retransmit(q)
    PROVE  MdnsInv'
  <1> USE NameType DEF MdnsInv, MdnsTypeOK, Retransmit, RetransmitDue, reader
  <1>1. MdnsTypeOK'
    OBVIOUS
  <1>2. NoWaiterLeft'
    BY DEF NoWaiterLeft
  <1>3. AnswerIsOwn'
    BY DEF AnswerIsOwn
  <1>4. NobodyPassedBy'
    BY DEF NobodyPassedBy
  <1>5. NotYet' /\ DeafInside' /\ DeafIsNoMiss'
    BY DEF NotYet, DeafInside, DeafIsNoMiss
  <1>6. ClosedIsQuiet'
    BY DEF ClosedIsQuiet
  <1> QED
    BY <1>1, <1>2, <1>3, <1>4, <1>5, <1>6

\* Deadline: a dead reader makes it a break.
LEMMA DeadlineInv ==
    ASSUME MdnsInv, NEW q \in Lookup, Deadline(q)
    PROVE  MdnsInv'
  <1> USE NameType DEF MdnsInv, MdnsTypeOK, Deadline, WindowOver, ReaderDead, Return, Goto,
              reader
  <1>1. MdnsTypeOK'
    OBVIOUS
  <1>2. NoWaiterLeft'
    BY DEF NoWaiterLeft
  <1>3. AnswerIsOwn'
    BY DEF AnswerIsOwn
  <1>4. NobodyPassedBy'
    BY DEF NobodyPassedBy
  <1>5. NotYet' /\ DeafInside' /\ DeafIsNoMiss'
    BY DEF NotYet, DeafInside, DeafIsNoMiss
  <1>6. ClosedIsQuiet'
    BY DEF ClosedIsQuiet
  <1> QED
    BY <1>1, <1>2, <1>3, <1>4, <1>5, <1>6

\* Miss: none of the deaf queries comes here.
LEMMA MissInv ==
    ASSUME MdnsInv, NEW q \in Lookup, Miss(q)
    PROVE  MdnsInv'
  <1> USE NameType DEF MdnsInv, MdnsTypeOK, Miss, Return, reader
  <1>1. MdnsTypeOK'
    OBVIOUS
  <1>2. NoWaiterLeft'
    BY DEF NoWaiterLeft
  <1>3. AnswerIsOwn'
    BY DEF AnswerIsOwn
  <1>4. NobodyPassedBy'
    BY DEF NobodyPassedBy
  <1>5. NotYet' /\ DeafInside' /\ DeafIsNoMiss'
    BY DEF NotYet, DeafInside, DeafIsNoMiss
  <1>6. ClosedIsQuiet'
    BY DEF ClosedIsQuiet
  <1> QED
    BY <1>1, <1>2, <1>3, <1>4, <1>5, <1>6

\* RemoveWaiter: a query takes itself out of the map and nobody else.
LEMMA RemoveWaiterInv ==
    ASSUME MdnsInv, NEW q \in Lookup, RemoveWaiter(q)
    PROVE  MdnsInv'
  <1> USE NameType DEF MdnsInv, MdnsTypeOK, RemoveWaiter, Without, Goto, reader
  <1>1. MdnsTypeOK'
    OBVIOUS
  <1>2. NoWaiterLeft'
    BY DEF NoWaiterLeft
  <1>3. AnswerIsOwn'
    BY DEF AnswerIsOwn
  <1>4. NobodyPassedBy'
    BY DEF NobodyPassedBy
  <1>5. NotYet' /\ DeafInside' /\ DeafIsNoMiss'
    BY DEF NotYet, DeafInside, DeafIsNoMiss
  <1>6. ClosedIsQuiet'
    BY DEF ClosedIsQuiet
  <1> QED
    BY <1>1, <1>2, <1>3, <1>4, <1>5, <1>6

\* NegExpires touches the cache only.
LEMMA NegExpiresInv ==
    ASSUME MdnsInv, NegExpires
    PROVE  MdnsInv'
  <1> USE NameType DEF MdnsInv, MdnsTypeOK, NegExpires, query, reader
  <1>1. MdnsTypeOK'
    OBVIOUS
  <1>2. NoWaiterLeft'
    BY DEF NoWaiterLeft
  <1>3. AnswerIsOwn'
    BY DEF AnswerIsOwn
  <1>4. NobodyPassedBy'
    BY DEF NobodyPassedBy
  <1>5. NotYet' /\ DeafInside' /\ DeafIsNoMiss'
    BY DEF NotYet, DeafInside, DeafIsNoMiss
  <1>6. ClosedIsQuiet'
    BY DEF ClosedIsQuiet
  <1> QED
    BY <1>1, <1>2, <1>3, <1>4, <1>5, <1>6

\* ReadFails: the queries that are deaf have not returned.
LEMMA ReadFailsInv ==
    ASSUME MdnsInv, ReadFails
    PROVE  MdnsInv'
  <1> USE NameType DEF MdnsInv, MdnsTypeOK, ReadFails, InWindow, query
  <1>1. MdnsTypeOK'
    OBVIOUS
  <1>2. NoWaiterLeft'
    BY DEF NoWaiterLeft
  <1>3. AnswerIsOwn'
    BY DEF AnswerIsOwn
  <1>4. NobodyPassedBy'
    BY DEF NobodyPassedBy
  <1>5. NotYet' /\ DeafInside' /\ DeafIsNoMiss'
    BY DEF NotYet, DeafInside, DeafIsNoMiss
  <1>6. ClosedIsQuiet'
    BY DEF ClosedIsQuiet
  <1> QED
    BY <1>1, <1>2, <1>3, <1>4, <1>5, <1>6

\* The end of the reader, and Close, touch no query.
LEMMA CloserInv ==
    ASSUME MdnsInv, ReaderEnds \/ Close \/ CloseReturns
    PROVE  MdnsInv'
  <1> USE NameType DEF MdnsInv, MdnsTypeOK, ReaderEnds, Close, CloseReturns, ReaderDone, query
  <1>1. MdnsTypeOK'
    OBVIOUS
  <1>2. NoWaiterLeft'
    BY DEF NoWaiterLeft
  <1>3. AnswerIsOwn'
    BY DEF AnswerIsOwn
  <1>4. NobodyPassedBy'
    BY DEF NobodyPassedBy
  <1>5. NotYet' /\ DeafInside' /\ DeafIsNoMiss'
    BY DEF NotYet, DeafInside, DeafIsNoMiss
  <1>6. ClosedIsQuiet'
    BY DEF ClosedIsQuiet
  <1> QED
    BY <1>1, <1>2, <1>3, <1>4, <1>5, <1>6

\* Dispatch: whoever leaves the map has its answer.
LEMMA DispatchInv ==
    ASSUME MdnsInv, Dispatch
    PROVE  MdnsInv'
  <1> USE NameType, MdnsAssumption DEF MdnsInv, Dispatch
  <1>1. PICK packet \in SUBSET Name \ {{}} :
           LET told == {q \in WaitersOf(packet) : inbox[q] = {}}
           IN  /\ inbox' = [q \in Lookup |-> IF q \in told THEN packet ELSE inbox[q]]
               /\ waiters' = [n \in Name |-> IF n \in packet THEN {} ELSE waiters[n]]
               /\ heard' = heard \cup {q \in told : InWindow(q)}
    OBVIOUS
  <1>2. \A q : q \in WaitersOf(packet) <=> \E n \in packet : q \in waiters[n]
    BY DEF WaitersOf
  <1>3. MdnsTypeOK'
    <2>1. WaitersOf(packet) \subseteq Lookup
      BY <1>2 DEF MdnsTypeOK
    <2>2. inbox' \in [Lookup -> SUBSET Name] /\ waiters' \in [Name -> SUBSET Lookup]
      BY <1>1 DEF MdnsTypeOK
    <2>3. heard' \subseteq Lookup
      BY <1>1, <2>1 DEF MdnsTypeOK
    <2> QED
      BY <2>2, <2>3 DEF MdnsTypeOK
  <1>4. NoWaiterLeft'
    BY <1>1 DEF MdnsTypeOK, NoWaiterLeft
  <1>5. AnswerIsOwn'
    BY <1>1, <1>2 DEF MdnsTypeOK, AnswerIsOwn, NoWaiterLeft
  <1>6. NobodyPassedBy'
    BY <1>1, <1>2 DEF MdnsTypeOK, NobodyPassedBy
  <1>7. NotYet' /\ DeafInside' /\ DeafIsNoMiss' /\ ClosedIsQuiet'
    BY DEF MdnsTypeOK, NotYet, DeafInside, DeafIsNoMiss, ClosedIsQuiet
  <1> QED
    BY <1>3, <1>4, <1>5, <1>6, <1>7

\* Every step of the bridge preserves the invariant.
THEOREM MdnsNextInv == MdnsInv /\ [MdnsNext]_mdnsVars => MdnsInv'
  <1> SUFFICES ASSUME MdnsInv, [MdnsNext]_mdnsVars PROVE MdnsInv'
    OBVIOUS
  <1>1. ASSUME NEW q \in Lookup, MdnsResolve(q) \/ Step(q) \/ Elapse(q) PROVE MdnsInv'
    BY <1>1, MdnsResolveInv, LoadDeadInv, AddWaiterInv, SendInv, ElapseInv, ReceiveInv,
       RetransmitInv, DeadlineInv, MissInv, RemoveWaiterInv DEF Step
  <1>2. CASE UNCHANGED mdnsVars
    BY <1>2 DEF mdnsVars, query, reader, MdnsInv, MdnsTypeOK, NoWaiterLeft, AnswerIsOwn,
           NobodyPassedBy, NotYet, DeafInside, DeafIsNoMiss, ClosedIsQuiet, InWindow
  <1> QED
    BY <1>1, <1>2, NegExpiresInv, ReadFailsInv, CloserInv, DispatchInv DEF MdnsNext

\* The invariant holds in every reachable state.
THEOREM MdnsInvariance == MdnsSpec => []MdnsInv
  BY MdnsInitInv, MdnsNextInv, PTL DEF MdnsSpec

-----------------------------------------------------------------------------
(* The results.                                                            *)

\* No answer passes by a query that waits, whatever the others do with the map.
THEOREM AllWaitersServed == MdnsSpec => []NobodyPassedBy
  <1>1. MdnsInv => NobodyPassedBy
    BY DEF MdnsInv
  <1> QED
    BY <1>1, MdnsInvariance, PTL

\* The death of the reader is no proof that a name does not exist.
THEOREM DeathIsNoMiss == MdnsSpec => []DeafIsNoMiss
  <1>1. MdnsInv => DeafIsNoMiss
    BY DEF MdnsInv
  <1> QED
    BY <1>1, MdnsInvariance, PTL

\* No query leaves a waiter in the map, and the answer it takes is of its name.
THEOREM MapIsClean == MdnsSpec => [](NoWaiterLeft /\ AnswerIsOwn)
  <1>1. MdnsInv => NoWaiterLeft /\ AnswerIsOwn
    BY DEF MdnsInv
  <1> QED
    BY <1>1, MdnsInvariance, PTL
=============================================================================
