--------------------------- MODULE FleetSyncProofs --------------------------
(***************************************************************************)
(* What the verdicts of FleetSync promise at every moment, for any number  *)
(* of pods and versions, full refreshes and failures included.             *)
(***************************************************************************)
EXTENDS FleetSync, FeedPodsProofs

(* A pod that has got to v does not fall behind it: what it serves, and     *)
(* every copy it is at work on, is of v or later, or the preprocessed one.  *)
Reached(p, v) ==
  /\ v <= version
  /\ served[p].label = 0 \/ v <= served[p].label
  /\ \A t \in Tasks : build[p][t].label = 0 \/ v <= build[p][t].label

(* The version moves from the served copy to the heartbeat row, from the    *)
(* rows to the dispatcher, and from there to the queue.                     *)
BeatInv == \A p \in Pods : Reached(p, beat[p].v)

DecisionInv ==
  \A p \in Pods : decision[p].at = "fire" =>
    /\ decision[p].pods # {}
    /\ \A q \in decision[p].pods : Reached(q, decision[p].v)

DeliveryInv ==
  \A v \in 1 .. MaxVersion : delivery[v].state = "due" =>
    /\ delivery[v].pods # {}
    /\ \A q \in delivery[v].pods : Reached(q, v)

FleetInv == BeatInv /\ DecisionInv /\ DeliveryInv

\* a version a dispatcher has is one a delivery can be of
Versions == 1 .. MaxVersion
DecisionsOfVersions ==
  /\ version > 1 => version <= MaxVersion
  /\ \A p \in Pods : decision[p].at # "none" => decision[p].v \in Versions

-----------------------------------------------------------------------------
(* The tick after the reloads, as FeedPods would see it: nothing it reads   *)
(* moves but the poll loop.                                                 *)
Ticks ==
  /\ UNCHANGED <<db, up, served, work>>
  /\ trouble' \in 0 .. MaxTrouble
  /\ \E p \in Pods : /\ up[p] = "serving"
                     /\ live' = live \/ live' = [live EXCEPT ![p] = NoAnswer]
                     /\ poll' = poll \/ PollTo(p, "sleep") \/ PollTo(p, "tell")

PodsMove == [Next]_podVars \/ Ticks

LEMMA TickKeeps ==
  ASSUME TypeOK, PodInv, Ticks
  PROVE  TypeOK' /\ PodInv'
<1>1. PICK p \in Pods : /\ up[p] = "serving"
                        /\ live' = live \/ live' = [live EXCEPT ![p] = NoAnswer]
                        /\ poll' = poll \/ PollTo(p, "sleep") \/ PollTo(p, "tell")
  BY DEF Ticks
<1>2. /\ UNCHANGED <<source, version, up, served, lock, step, build>>
      /\ trouble' \in 0 .. MaxTrouble
  BY DEF Ticks, db, work
<1>3. live' \in [Pods -> Answer]
  <2>1. NoAnswer \in Answer
    BY DEF NoAnswer, Answer
  <2> QED
    BY <1>1, <2>1 DEF TypeOK
<1>4. /\ poll' \in [Pods -> {"sleep", "plan", "reload", "loading", "revert", "report", "tell"}]
      /\ \A q \in Pods : poll'[q] = poll[q] \/ up[q] = "serving"
  BY <1>1 DEF PollTo, TypeOK
<1>5. TypeOK'
  BY <1>2, <1>3, <1>4 DEF TypeOK
<1>6. PodInv'
  BY <1>2, <1>4, QuietInv DEF TypeOK, PodInv
<1> QED
  BY <1>5, <1>6

LEMMA PodsKeep == TypeOK /\ PodInv /\ PodsMove => TypeOK' /\ PodInv'
BY TypeStep, PodInvStep, TickKeeps DEF PodsMove

\* what a step of the pods can do to what they serve and build
LEMMA VersionMoves ==
  ASSUME TypeOK, PodInv, [Next]_podVars
  PROVE  version' >= version /\ (version' <= version \/ version' <= MaxVersion)
<1>1. version \in Nat /\ MaxVersion \in Nat
  BY BoundsAssumption DEF TypeOK
<1>2. CASE Editor
  BY <1>1, <1>2 DEF Editor, CreateFeed, CommitVersion, PodInv
<1>3. CASE version' = version
  BY <1>1, <1>3
<1>4. Editor \/ version' = version
  BY DEF Next, PodStep, Load, Boot, Booted, ReadVersion, ReadRoutes, ReadStops, FallBack,
         PollRead, PollPlan, Reload, Reloaded, ReloadFails, Revert, EndTick, Refresh,
         Refreshed, RefreshFails, Die, podVars, db
<1> QED
  BY <1>2, <1>3, <1>4

LEMMA ServedMoves ==
  ASSUME TypeOK, [Next]_podVars, NEW q \in Pods
  PROVE  \/ served'[q] = served[q] \/ served'[q] = Preprocessed
         \/ \E t \in Tasks : served'[q] = build[q][t]
<1>1. \/ served' = served
      \/ \E p \in Pods, t \in Tasks : served' = [served EXCEPT ![p] = build[p][t]]
      \/ \E p \in Pods : served' = [served EXCEPT ![p] = Preprocessed]
  BY DEF Next, PodStep, Load, Editor, CreateFeed, CommitVersion, Boot, Booted, ReadVersion,
         ReadRoutes, ReadStops, FallBack, PollRead, PollPlan, Reload, Reloaded, ReloadFails,
         Revert, EndTick, Refresh, Refreshed, RefreshFails, Die, Tasks, podVars
<1> QED
  BY <1>1 DEF TypeOK

LEMMA BuildMoves ==
  ASSUME TypeOK, [Next]_podVars, NEW q \in Pods, NEW u \in Tasks
  PROVE  \/ build'[q][u].label = build[q][u].label
         \/ build'[q][u].label = 0 \/ build'[q][u].label = version
<1>0. build \in [Pods -> [Tasks -> Copy]]
  BY DEF TypeOK
<1>1. build[q][u] \in Copy /\ version \in Nat /\ Preprocessed.label = 0
  BY CopyType DEF TypeOK
<1>2. ASSUME NEW p \in Pods, Load(p)
      PROVE  \/ build'[q][u].label = build[q][u].label
             \/ build'[q][u].label = 0 \/ build'[q][u].label = version
  <2>1. PICK t \in Tasks : ReadVersion(p, t) \/ ReadRoutes(p, t) \/ ReadStops(p, t) \/ FallBack(p, t)
    BY <1>2 DEF Load
  <2>2. build[p][t] \in Copy
    BY DEF TypeOK
  <2>3. PICK b \in Copy : /\ build' = [build EXCEPT ![p][t] = b]
                          /\ b.label = build[p][t].label \/ b.label = 0 \/ b.label = version
    <3>1. CASE ReadVersion(p, t)
      <4> DEFINE b == WithLabel(build[p][t], version)
      <4>1. b \in Copy /\ b.label = version
        BY <1>1, <2>2, FieldRead
      <4>2. build' = [build EXCEPT ![p][t] = b]
        BY <3>1, LoadSteps DEF Loads
      <4> HIDE DEF b
      <4> QED
        BY <4>1, <4>2
    <3>2. CASE ReadRoutes(p, t)
      <4> DEFINE b == WithRoutes(build[p][t], version)
      <4>1. b \in Copy /\ b.label = build[p][t].label
        BY <1>1, <2>2, FieldRead
      <4>2. build' = [build EXCEPT ![p][t] = b]
        BY <3>2, LoadSteps DEF Loads
      <4> HIDE DEF b
      <4> QED
        BY <4>1, <4>2
    <3>3. CASE ReadStops(p, t)
      <4> DEFINE b == WithStops(build[p][t], version)
      <4>1. b \in Copy /\ b.label = build[p][t].label
        BY <1>1, <2>2, FieldRead
      <4>2. build' = [build EXCEPT ![p][t] = b]
        BY <3>3, LoadSteps DEF Loads
      <4> HIDE DEF b
      <4> QED
        BY <4>1, <4>2
    <3>4. CASE FallBack(p, t)
      BY <3>4, LoadSteps, CopyType DEF Loads
    <3> QED
      BY <2>1, <3>1, <3>2, <3>3, <3>4
  <2>4. build'[q][u] = build[q][u] \/ (q = p /\ u = t /\ build'[q][u] = b)
    BY <1>0, <2>3
  <2> QED
    BY <2>3, <2>4
<1>3. ASSUME NEW p \in Pods, NEW t \in Tasks, build' = [build EXCEPT ![p][t] = Preprocessed]
      PROVE  build'[q][u].label = build[q][u].label \/ build'[q][u].label = 0
  <2>1. build'[q][u] = build[q][u] \/ build'[q][u] = Preprocessed
    BY <1>0, <1>3
  <2> QED
    BY <1>1, <2>1
<1>4. ASSUME NEW p \in Pods, build' = [build EXCEPT ![p] = NoBuild]
      PROVE  build'[q][u].label = build[q][u].label \/ build'[q][u].label = 0
  BY <1>1, <1>4, NoLoad DEF TypeOK
<1>5. \/ build' = build \/ \E p \in Pods : Load(p)
      \/ \E p \in Pods, t \in Tasks : build' = [build EXCEPT ![p][t] = Preprocessed]
      \/ \E p \in Pods : build' = [build EXCEPT ![p] = NoBuild]
  BY DEF Next, PodStep, Editor, CreateFeed, CommitVersion, Boot, Booted, PollRead, PollPlan,
         Reload, Reloaded, ReloadFails, Revert, EndTick, Refresh, Refreshed, RefreshFails, Die,
         Ended, Tasks, podVars, work
<1> QED
  BY <1>2, <1>3, <1>4, <1>5

\* nobody falls behind what he has reached
LEMMA ReachedStays ==
  ASSUME TypeOK, PodInv, PodsMove, NEW p \in Pods, NEW v \in Nat, Reached(p, v)
  PROVE  Reached(p, v)'
<1>1. /\ version \in Nat /\ version' \in Nat
      /\ served[p] \in Copy /\ \A t \in Tasks : build[p][t] \in Copy
  BY PodsKeep DEF TypeOK
<1>2. CASE Ticks
  BY <1>2 DEF Ticks, db, work, Reached
<1>3. CASE [Next]_podVars
  <2>1. v <= version'
    BY <1>1, <1>3, VersionMoves DEF Reached
  <2>2. served'[p].label = 0 \/ v <= served'[p].label
    BY <1>3, ServedMoves, CopyType DEF Reached
  <2>3. ASSUME NEW t \in Tasks PROVE build'[p][t].label = 0 \/ v <= build'[p][t].label
    BY <1>3, BuildMoves DEF Reached
  <2> QED
    BY <2>1, <2>2, <2>3 DEF Reached
<1> QED
  BY <1>2, <1>3 DEF PodsMove

-----------------------------------------------------------------------------
(* What a step does to each of the fleet's variables                       *)
LEMMA EachPodsMove == TypeOK /\ [FleetNext]_vars => PodsMove
<1> SUFFICES ASSUME TypeOK, [FleetNext]_vars PROVE PodsMove
  OBVIOUS
<1>1. CASE Edited
  BY <1>1 DEF Edited, PodsMove, Next
<1>2. CASE WaitTooLong
  BY <1>2 DEF WaitTooLong, Clock, PodsMove
<1>3. ASSUME NEW p \in Pods, Moved(p) \/ Died(p) PROVE PodsMove
  BY <1>3 DEF Moved, PodMoves, Died, PodsMove, Next
<1>4. ASSUME NEW p \in Pods, Fade(p) \/ Settle(p) PROVE PodsMove
  BY <1>4 DEF Fade, Settle, Clock, PodsMove
<1>5. trouble \in 0 .. MaxTrouble
  BY DEF TypeOK
<1>6. ASSUME NEW p \in Pods, Heartbeat(p) PROVE PodsMove
  <2>1. /\ up[p] = "serving" /\ UNCHANGED SamePod /\ PollTo(p, "tell")
        /\ trouble' = trouble \/ (trouble < MaxTrouble /\ trouble' = trouble + 1)
    BY <1>6 DEF Heartbeat, PollAt
  <2>2. trouble' \in 0 .. MaxTrouble
    BY <1>5, <2>1, BoundsAssumption
  <2> QED
    BY <2>1, <2>2 DEF SamePod, Ticks, PodsMove
<1>7. ASSUME NEW p \in Pods, Arm(p) \/ Judge(p) \/ Enqueue(p) PROVE PodsMove
  <2>1. up[p] = "serving"
    BY <1>7 DEF Arm, Judge, Enqueue, Deciding, PollAt
  <2>2. SleepAgain(p) \/ UNCHANGED <<SamePod, poll, trouble>>
    BY <1>7 DEF Arm, Judge, Enqueue, Decide
  <2> QED
    BY <1>5, <2>1, <2>2 DEF SleepAgain, SamePod, Ticks, PodsMove
<1>8. CASE UNCHANGED vars
  BY <1>8 DEF vars, PodsMove
<1> QED
  BY <1>1, <1>2, <1>3, <1>4, <1>6, <1>7, <1>8 DEF FleetNext, Tell

\* a row with one field changed
WithFresh(b, fresh) == [b EXCEPT !.fresh = fresh]
WithSettled(b, settled) == [b EXCEPT !.settled = settled]

LEMMA BeatMoves ==
  ASSUME FleetTypeOK, [FleetNext]_vars
  PROVE  \/ beat' = beat
         \/ \E p \in Pods, b \in Beat :
              /\ beat' = [beat EXCEPT ![p] = b]
              /\ b.v = served[p].label \/ b.v = beat[p].v
<1>1. ASSUME NEW p \in Pods, Heartbeat(p), beat' # beat
      PROVE  \E b \in Beat : beat' = [beat EXCEPT ![p] = b] /\ b.v = served[p].label
  <2>1. beat' = [beat EXCEPT ![p] = Row(p)]
    BY <1>1 DEF Heartbeat
  <2>2. Row(p) \in Beat /\ Row(p).v = served[p].label
    <3> DEFINE v == served[p].label
               settled == beat[p].settled /\ beat[p].v = v /\ beat[p].boot = boot[p]
               isDb == v # 0
    <3>1. v \in Nat /\ boot[p] \in Nat
      BY DEF FleetTypeOK, TypeOK, Copy
    <3>2. settled \in BOOLEAN /\ isDb \in BOOLEAN
      BY Zenon DEF settled, isDb
    <3>3. Row(p) = [known |-> TRUE, boot |-> boot[p], v |-> v, db |-> isDb, fresh |-> TRUE,
                    settled |-> settled]
      BY Zenon DEF Row
    <3> HIDE DEF v, settled, isDb
    <3>4. Row(p) \in Beat /\ Row(p).v = v
      BY <3>1, <3>2, <3>3 DEF Beat
    <3> QED
      BY <3>4 DEF v
  <2> QED
    BY <2>1, <2>2
<1>2. ASSUME NEW p \in Pods, Fade(p)
      PROVE  \E b \in Beat : beat' = [beat EXCEPT ![p] = b] /\ b.v = beat[p].v
  <2> DEFINE b == WithFresh(beat[p], FALSE)
  <2>1. beat[p] \in Beat
    BY DEF FleetTypeOK
  <2>2. b \in Beat /\ b.v = beat[p].v
    BY <2>1 DEF WithFresh, Beat
  <2>3. beat' = [beat EXCEPT ![p] = b]
    BY <1>2 DEF Fade, WithFresh, FleetTypeOK
  <2> QED
    BY <2>2, <2>3
<1>3. ASSUME NEW p \in Pods, Settle(p)
      PROVE  \E b \in Beat : beat' = [beat EXCEPT ![p] = b] /\ b.v = beat[p].v
  <2> DEFINE b == WithSettled(beat[p], TRUE)
  <2>1. beat[p] \in Beat
    BY DEF FleetTypeOK
  <2>2. b \in Beat /\ b.v = beat[p].v
    BY <2>1 DEF WithSettled, Beat
  <2>3. beat' = [beat EXCEPT ![p] = b]
    BY <1>3 DEF Settle, WithSettled, FleetTypeOK
  <2> QED
    BY <2>2, <2>3
<1>4. beat' = beat \/ \E p \in Pods : Heartbeat(p) \/ Fade(p) \/ Settle(p)
  BY DEF FleetNext, Edited, WaitTooLong, Moved, Died, Tell, Arm, Judge, Enqueue, Decide,
         SleepAgain, vars, fleetVars
<1> QED
  BY <1>1, <1>2, <1>3, <1>4

\* a decision with one field changed
WithPlace(d, at) == [d EXCEPT !.at = at]
WithVersion(d, v) == [d EXCEPT !.v = v]
WithLate(d, isLate) == [d EXCEPT !.late = isLate]
WithPods(d, pods) == [d EXCEPT !.pods = pods]

LEMMA DecisionField ==
  ASSUME NEW d \in Decision
  PROVE  /\ \A at \in {"none", "armed", "fire", "giveup"} :
              /\ WithPlace(d, at) \in Decision /\ WithPlace(d, at).at = at
              /\ WithPlace(d, at).v = d.v /\ WithPlace(d, at).pods = d.pods
         /\ \A v \in Nat :
              /\ WithVersion(d, v) \in Decision /\ WithVersion(d, v).v = v
              /\ WithVersion(d, v).at = d.at
         /\ \A isLate \in BOOLEAN :
              /\ WithLate(d, isLate) \in Decision /\ WithLate(d, isLate).v = d.v
              /\ WithLate(d, isLate).at = d.at
         /\ \A pods \in SUBSET Pods :
              /\ WithPods(d, pods) \in Decision /\ WithPods(d, pods).pods = pods
              /\ WithPods(d, pods).at = d.at /\ WithPods(d, pods).v = d.v
BY DEF Decision, WithPlace, WithVersion, WithLate, WithPods

LEMMA NoDecisionType == NoDecision \in Decision /\ NoDecision.at = "none"
BY DEF NoDecision, Decision

(* A dispatcher takes up the version it reads, then keeps it; a verdict to  *)
(* fire counts the fleet, all of it at that version.                        *)
Decides(p, d) ==
  /\ decision' = [decision EXCEPT ![p] = d]
  /\ \/ d.at = "none"
     \/ d.at = "armed" /\ d.v = version /\ version > 1
     \/ decision[p].at # "none" /\ d.v = decision[p].v /\ d.at = "giveup"
     \/ /\ decision[p].at # "none" /\ d.v = decision[p].v /\ d.at = "fire"
        /\ d.pods # {} /\ \A q \in d.pods : beat[q].v = d.v

LEMMA DecisionMoves ==
  ASSUME FleetTypeOK, [FleetNext]_vars
  PROVE  decision' = decision \/ \E p \in Pods, d \in Decision : Decides(p, d)
<1>0. \A p \in Pods : decision[p] \in Decision
  BY DEF FleetTypeOK
<1>1. ASSUME NEW p \in Pods, decision' = [decision EXCEPT ![p] = NoDecision]
      PROVE  \E d \in Decision : Decides(p, d)
  BY <1>1, NoDecisionType DEF Decides
<1>2. ASSUME NEW p \in Pods, Arm(p)
      PROVE  \E d \in Decision : Decides(p, d)
  <2>1. CASE version > 1
    <3> DEFINE a == WithPlace(NoDecision, "armed")
               b == WithVersion(a, version)
               c == WithLate(b, late)
    <3>1. version \in Nat /\ late \in BOOLEAN
      BY DEF FleetTypeOK, TypeOK
    <3>2. a \in Decision /\ a.at = "armed"
      BY DecisionField, NoDecisionType
    <3> HIDE DEF a
    <3>3. b \in Decision /\ b.at = "armed" /\ b.v = version
      BY <3>1, <3>2, DecisionField
    <3> HIDE DEF b
    <3>4. c \in Decision /\ c.at = "armed" /\ c.v = version
      BY <3>1, <3>3, DecisionField
    <3> USE DEF a, b
    <3>5. decision' = [decision EXCEPT ![p] = c]
      BY <1>2, <2>1 DEF Arm, Decide, WithPlace, WithVersion, WithLate
    <3> HIDE DEF c
    <3> QED
      BY <2>1, <3>4, <3>5 DEF Decides
  <2>2. CASE ~(version > 1)
    BY <1>1, <1>2, <2>2 DEF Arm, SleepAgain
  <2> QED
    BY <2>1, <2>2
<1>3. ASSUME NEW p \in Pods, Judge(p)
      PROVE  \E d \in Decision : Decides(p, d)
  <2>1. decision[p] \in Decision /\ decision[p].at = "armed"
    BY <1>0, <1>3 DEF Judge, Deciding
  <2>2. CASE Fires(decision[p].v)
    <3> DEFINE b == WithPlace(decision[p], "fire")
               c == WithPods(b, Fleet)
    <3>1. Fleet \in SUBSET Pods
      BY DEF Fleet
    <3>2. b \in Decision /\ b.at = "fire" /\ b.v = decision[p].v
      BY <2>1, DecisionField
    <3> HIDE DEF b
    <3>3. /\ c \in Decision /\ c.at = "fire" /\ c.v = decision[p].v /\ c.pods = Fleet
      BY <3>1, <3>2, DecisionField
    <3> USE DEF b
    <3>4. decision' = [decision EXCEPT ![p] = c]
      BY <1>3, <2>2 DEF Judge, Decide, WithPlace, WithPods
    <3>5. Fleet # {} /\ \A q \in Fleet : beat[q].v = decision[p].v
      BY <2>2 DEF Fires, Laggards
    <3> HIDE DEF c
    <3> QED
      BY <2>1, <3>3, <3>4, <3>5 DEF Decides
  <2>3. CASE ~Fires(decision[p].v) /\ GivesUp(decision[p])
    <3> DEFINE c == WithPlace(decision[p], "giveup")
    <3>1. c \in Decision /\ c.at = "giveup" /\ c.v = decision[p].v
      BY <2>1, DecisionField
    <3>2. decision' = [decision EXCEPT ![p] = c]
      BY <1>3, <2>3 DEF Judge, Decide, WithPlace
    <3> HIDE DEF c
    <3> QED
      BY <2>1, <3>1, <3>2 DEF Decides
  <2>4. CASE ~Fires(decision[p].v) /\ ~GivesUp(decision[p])
    BY <1>1, <1>3, <2>4 DEF Judge, SleepAgain
  <2> QED
    BY <2>2, <2>3, <2>4
<1>4. \/ decision' = decision \/ \E p \in Pods : Arm(p) \/ Judge(p)
      \/ \E p \in Pods : decision' = [decision EXCEPT ![p] = NoDecision]
  BY DEF FleetNext, Edited, WaitTooLong, Moved, Died, Tell, Heartbeat, Fade, Settle, Clock,
         Enqueue, SleepAgain, vars, fleetVars
<1> QED
  BY <1>1, <1>2, <1>3, <1>4

(* A verdict is written only where there is none.                           *)
Inserts(p, v, row) ==
  /\ decision[p].at \in {"fire", "giveup"} /\ v = decision[p].v
  /\ row.pods = decision[p].pods /\ (row.state = "due" => decision[p].at = "fire")
  /\ delivery[v].state = "none" /\ delivery' = [delivery EXCEPT ![v] = row]

LEMMA DeliveryMoves ==
  ASSUME FleetTypeOK, [FleetNext]_vars
  PROVE  \/ delivery' = delivery
         \/ \E p \in Pods, row \in Delivery : Inserts(p, decision[p].v, row)
<1>1. ASSUME NEW p \in Pods, Enqueue(p), delivery' # delivery
      PROVE  \E row \in Delivery : Inserts(p, decision[p].v, row)
  <2> DEFINE state == IF decision[p].at = "fire" THEN "due" ELSE "abandoned"
             row == [state |-> state, pods |-> decision[p].pods]
  <2>1. decision[p].at \in {"fire", "giveup"} /\ Insert(decision[p].v, row)
    BY <1>1 DEF Enqueue
  <2>2. /\ state \in {"none", "due", "abandoned"} /\ (state = "due" => decision[p].at = "fire")
    OBVIOUS
  <2>3. decision[p].pods \in SUBSET Pods
    BY DEF FleetTypeOK, Decision
  <2> HIDE DEF state
  <2>4. row \in Delivery /\ row.state = state /\ row.pods = decision[p].pods
    BY <2>2, <2>3 DEF Delivery
  <2> HIDE DEF row
  <2>5. /\ delivery[decision[p].v].state = "none"
        /\ delivery' = [delivery EXCEPT ![decision[p].v] = row]
    BY <1>1, <2>1 DEF Insert
  <2> QED
    BY <2>1, <2>2, <2>4, <2>5 DEF Inserts
<1>2. delivery' = delivery \/ \E p \in Pods : Enqueue(p)
  BY DEF FleetNext, Edited, WaitTooLong, Moved, Died, Tell, Heartbeat, Fade, Settle, Clock,
         Arm, Judge, Decide, vars, fleetVars
<1> QED
  BY <1>1, <1>2

-----------------------------------------------------------------------------
(* Types                                                                   *)
LEMMA FleetTypeInit == FleetInit => FleetTypeOK /\ DecisionsOfVersions
<1> SUFFICES ASSUME FleetInit PROVE FleetTypeOK /\ DecisionsOfVersions
  OBVIOUS
<1>1. TypeOK
  BY TypeInit DEF FleetInit
<1>2. Silent \in Beat /\ NoDecision \in Decision /\ NoDelivery \in Delivery
  BY DEF Silent, Beat, NoDecision, Decision, NoDelivery, Delivery
<1>3. FleetTypeOK
  BY <1>1, <1>2 DEF FleetInit, FleetTypeOK
<1>4. version \in {0, 1}
  BY DEF FleetInit, Init
<1>5. \A p \in Pods : decision[p].at = "none"
  BY NoDecisionType DEF FleetInit
<1> QED
  BY <1>3, <1>4, <1>5 DEF DecisionsOfVersions

LEMMA FleetTypeStep ==
  FleetTypeOK /\ DecisionsOfVersions /\ PodInv /\ [FleetNext]_vars => FleetTypeOK'
<1> SUFFICES ASSUME FleetTypeOK, DecisionsOfVersions, PodInv, [FleetNext]_vars
             PROVE  FleetTypeOK'
  OBVIOUS
<1>1. TypeOK'
  BY EachPodsMove, PodsKeep DEF FleetTypeOK
<1>2. boot' \in [Pods -> Nat]
  <2>1. boot' = boot \/ \E p \in Pods : boot' = [boot EXCEPT ![p] = @ + 1]
    BY DEF FleetNext, Edited, WaitTooLong, Moved, Died, Tell, Heartbeat, Fade, Settle, Clock,
           Arm, Judge, Enqueue, Decide, SleepAgain, vars, fleetVars
  <2> QED
    BY <2>1 DEF FleetTypeOK
<1>3. beat' \in [Pods -> Beat]
  BY BeatMoves DEF FleetTypeOK
<1>4. late' \in BOOLEAN
  <2>1. late' = late \/ late' = FALSE \/ late' = TRUE
    BY DEF FleetNext, Edited, WaitTooLong, Moved, Died, Tell, Heartbeat, Fade, Settle, Clock,
           Arm, Judge, Enqueue, Decide, SleepAgain, vars, fleetVars
  <2> QED
    BY <2>1 DEF FleetTypeOK
<1>5. decision' \in [Pods -> Decision]
  BY DecisionMoves DEF FleetTypeOK, Decides
<1>6. delivery' \in [1 .. MaxVersion -> Delivery]
  BY DeliveryMoves DEF FleetTypeOK, Inserts
<1> QED
  BY <1>1, <1>2, <1>3, <1>4, <1>5, <1>6 DEF FleetTypeOK

LEMMA DecisionsStep ==
  FleetTypeOK /\ DecisionsOfVersions /\ PodInv /\ [FleetNext]_vars => DecisionsOfVersions'
<1> SUFFICES ASSUME FleetTypeOK, DecisionsOfVersions, PodInv, [FleetNext]_vars
             PROVE  DecisionsOfVersions'
  OBVIOUS
<1>1. TypeOK /\ TypeOK' /\ PodsMove
  BY EachPodsMove, PodsKeep DEF FleetTypeOK
<1>2. version \in Nat /\ version' \in Nat /\ MaxVersion \in Nat
  BY <1>1, BoundsAssumption DEF TypeOK
<1>3. version' <= version \/ version' <= MaxVersion
  <2>1. CASE Ticks
    BY <1>2, <2>1 DEF Ticks, db
  <2>2. CASE [Next]_podVars
    BY <1>1, <2>2, VersionMoves
  <2> QED
    BY <1>1, <2>1, <2>2 DEF PodsMove
<1>4. version' > 1 => version' <= MaxVersion
  BY <1>2, <1>3 DEF DecisionsOfVersions
<1>5. ASSUME NEW q \in Pods, decision'[q].at # "none" PROVE decision'[q].v \in Versions
  <2>1. CASE decision' = decision
    BY <1>5, <2>1 DEF DecisionsOfVersions
  <2>2. ASSUME NEW p \in Pods, NEW d \in Decision, Decides(p, d)
        PROVE  decision'[q].v \in Versions
    <3>1. decision'[p] = d /\ (q # p => decision'[q] = decision[q])
      BY <2>2 DEF Decides, FleetTypeOK
    <3>2. d.at # "none" => d.v \in Versions
      BY <1>2, <2>2 DEF Decides, DecisionsOfVersions, Versions
    <3> QED
      BY <1>5, <3>1, <3>2 DEF DecisionsOfVersions
  <2> QED
    BY <2>1, <2>2, DecisionMoves
<1> QED
  BY <1>4, <1>5 DEF DecisionsOfVersions

-----------------------------------------------------------------------------
(* A counted pod is there                                                  *)

\* a pod has reached what it serves
LEMMA ServedIsReached ==
  ASSUME TypeOK, PodInv, NEW p \in Pods
  PROVE  served[p].label \in Nat /\ Reached(p, served[p].label)
<1>1. served[p] \in Copy /\ version \in Nat /\ \A t \in Tasks : build[p][t] \in Copy
  BY DEF TypeOK
<1>2. served[p].label <= version
  <2>1. served[p] = Preprocessed \/ Floored(served[p])
    BY DEF PodInv
  <2> QED
    BY <1>1, <2>1, CopyType DEF Floored, Copy
<1>3. ASSUME NEW t \in Tasks
      PROVE  build[p][t].label = 0 \/ served[p].label <= build[p][t].label
  <2>1. step[p][t] \in {"none", "version"} \cup Reading
    BY DEF TypeOK, Reading
  <2> QED
    BY <2>1, CopyType DEF PodInv, LoadInv, NewerInv
<1> QED
  BY <1>1, <1>2, <1>3 DEF Reached, Copy

LEMMA FleetInvInit == FleetInit => FleetInv
<1> SUFFICES ASSUME FleetInit PROVE FleetInv
  OBVIOUS
<1>1. ASSUME NEW p \in Pods PROVE Reached(p, beat[p].v)
  <2>1. beat[p].v = 0 /\ version \in {0, 1} /\ served[p] = Preprocessed
    BY DEF FleetInit, Init, Silent
  <2>2. \A t \in Tasks : build[p][t] = Preprocessed
    BY NoLoad DEF FleetInit, Init
  <2> QED
    BY <2>1, <2>2, CopyType DEF Reached
<1>2. DecisionInv
  BY NoDecisionType DEF FleetInit, DecisionInv
<1>3. \A v \in 1 .. MaxVersion : delivery[v].state = "none"
  BY DEF FleetInit, NoDelivery
<1> QED
  BY <1>1, <1>2, <1>3 DEF FleetInv, BeatInv, DeliveryInv

LEMMA FleetInvStep ==
  FleetTypeOK /\ DecisionsOfVersions /\ PodInv /\ FleetInv /\ [FleetNext]_vars => FleetInv'
<1> SUFFICES ASSUME FleetTypeOK, DecisionsOfVersions, PodInv, FleetInv, [FleetNext]_vars
             PROVE  FleetInv'
  OBVIOUS
<1>1. TypeOK /\ PodsMove
  BY EachPodsMove DEF FleetTypeOK
<1>2. ASSUME NEW p \in Pods, NEW v \in Nat, Reached(p, v) PROVE Reached(p, v)'
  BY <1>1, <1>2, ReachedStays
<1>3. /\ \A p \in Pods : /\ beat[p] \in Beat /\ beat[p].v \in Nat
                       /\ decision[p] \in Decision /\ decision[p].v \in Nat
                       /\ decision[p].pods \subseteq Pods
      /\ \A v \in 1 .. MaxVersion : delivery[v].pods \subseteq Pods /\ v \in Nat
  BY DEF FleetTypeOK, Beat, Decision, Delivery
<1>4. BeatInv'
  <2> SUFFICES ASSUME NEW q \in Pods PROVE Reached(q, beat[q].v)'
    BY DEF BeatInv
  <2>1. beat'[q].v = beat[q].v \/ beat'[q].v = served[q].label
    BY BeatMoves DEF FleetTypeOK
  <2>2. beat'[q].v \in Nat /\ Reached(q, beat'[q].v)
    BY <1>1, <1>3, <2>1, ServedIsReached DEF FleetInv, BeatInv
  <2> QED
    BY <1>1, <2>2, ReachedStays DEF Reached
<1>5. DecisionInv'
  <2> SUFFICES ASSUME NEW q \in Pods, decision'[q].at = "fire"
               PROVE  /\ decision'[q].pods # {}
                      /\ \A r \in decision'[q].pods : Reached(r, decision[q].v)'
    BY DEF DecisionInv
  <2>1. decision'[q].v \in Nat /\ decision'[q].pods \subseteq Pods
    <3>1. decision'[q] \in Decision
      BY FleetTypeStep DEF FleetTypeOK
    <3> QED
      BY <3>1 DEF Decision
  <2>2. /\ decision'[q].pods # {}
        /\ \A r \in decision'[q].pods : Reached(r, decision'[q].v)
    <3>1. CASE decision'[q] = decision[q]
      BY <3>1 DEF FleetInv, DecisionInv
    <3>2. ASSUME NEW d \in Decision, Decides(q, d), decision'[q] = d
          PROVE  /\ decision'[q].pods # {}
                 /\ \A r \in decision'[q].pods : Reached(r, decision'[q].v)
      <4>1. d.pods # {} /\ \A r \in d.pods : beat[r].v = d.v
        BY <3>2 DEF Decides
      <4> QED
        BY <2>1, <3>2, <4>1 DEF FleetInv, BeatInv
    <3> QED
      BY <3>1, <3>2, DecisionMoves DEF Decides, FleetTypeOK
  <2>3. ASSUME NEW r \in decision'[q].pods PROVE Reached(r, decision[q].v)'
    BY <1>1, <2>1, <2>2, <2>3, ReachedStays DEF Reached
  <2> QED
    BY <2>2, <2>3
<1>6. DeliveryInv'
  <2> SUFFICES ASSUME NEW v \in 1 .. MaxVersion, delivery'[v].state = "due"
               PROVE  /\ delivery'[v].pods # {}
                      /\ \A r \in delivery'[v].pods : Reached(r, v)'
    BY DEF DeliveryInv
  <2>1. v \in Nat /\ delivery'[v].pods \subseteq Pods
    <3>1. delivery'[v] \in Delivery
      BY FleetTypeStep DEF FleetTypeOK
    <3> QED
      BY <3>1 DEF Delivery
  <2>2. /\ delivery'[v].pods # {}
        /\ \A r \in delivery'[v].pods : Reached(r, v)
    <3>1. CASE delivery'[v] = delivery[v]
      BY <3>1 DEF FleetInv, DeliveryInv
    <3>2. ASSUME NEW p \in Pods, NEW row \in Delivery, Inserts(p, v, row), delivery'[v] = row
          PROVE  /\ delivery'[v].pods # {}
                 /\ \A r \in delivery'[v].pods : Reached(r, v)
      BY <3>2 DEF Inserts, FleetInv, DecisionInv
    <3> QED
      BY <3>1, <3>2, DeliveryMoves DEF Inserts, FleetTypeOK
  <2> QED
    BY <1>2, <2>1, <2>2
<1> QED
  BY <1>4, <1>5, <1>6 DEF FleetInv

LEMMA FleetInductive ==
  FleetSpec => [](FleetTypeOK /\ DecisionsOfVersions /\ PodInv /\ FleetInv)
<1> DEFINE I == FleetTypeOK /\ DecisionsOfVersions /\ PodInv /\ FleetInv
<1>1. FleetInit => I
  BY FleetTypeInit, FleetInvInit, PodInvInit DEF FleetInit
<1>2. I /\ [FleetNext]_vars => I'
  <2> SUFFICES ASSUME I, [FleetNext]_vars PROVE I'
    OBVIOUS
  <2>1. FleetTypeOK' /\ DecisionsOfVersions' /\ FleetInv'
    BY FleetTypeStep, DecisionsStep, FleetInvStep
  <2>2. PodInv'
    BY EachPodsMove, PodsKeep DEF FleetTypeOK
  <2> QED
    BY <2>1, <2>2
<1> QED
  BY <1>1, <1>2, PTL DEF FleetSpec

-----------------------------------------------------------------------------
(* Every variable of the fleet keeps its type: a heartbeat row, a           *)
(* dispatcher's decision and a delivery are what their tables can hold.     *)
THEOREM FleetTypeCorrect == FleetSpec => []FleetTypeOK
BY FleetInductive, PTL

(* A pod that a verdict to fire counted serves that version or a later one  *)
(* from then on, or the preprocessed data, and some pod was counted: for    *)
(* any number of pods, whatever fails, restarts or refreshes.               *)
THEOREM CountedPodsAreThereHolds == FleetSpec => []CountedPodsAreThere
<1>1. FleetTypeOK /\ FleetInv => CountedPodsAreThere
  <2> SUFFICES ASSUME FleetTypeOK, FleetInv, NEW v \in 1 .. MaxVersion, delivery[v].state = "due"
               PROVE  /\ delivery[v].pods # {}
                      /\ \A p \in delivery[v].pods : served[p].label # 0 => served[p].label >= v
    BY DEF CountedPodsAreThere
  <2>1. \A p \in delivery[v].pods : p \in Pods /\ served[p].label \in Nat
    BY DEF FleetTypeOK, TypeOK, Delivery, Copy
  <2> QED
    BY <2>1 DEF FleetInv, DeliveryInv, Reached
<1> QED
  BY <1>1, FleetInductive, PTL
=============================================================================
