--------------------------- MODULE FeedPodsProofs ---------------------------
(***************************************************************************)
(* What FeedPods promises at every moment, for any number of pods,         *)
(* versions, failures and deaths, and whatever the static list says.       *)
(***************************************************************************)
EXTENDS FeedPods, TLAPS

Reading == {"routes", "stops", "swap"}

\* tables read at the version the label names or later
Floored(c) == 0 < c.label /\ c.label <= c.routes /\ c.routes <= c.stops /\ c.stops <= version

(* A load so far: what it has read is in order.                             *)
LoadInv(p, t) ==
  LET b == build[p][t]
  IN  /\ step[p][t] \in {"none", "version"} => b = Preprocessed
      /\ step[p][t] \in {"routes", "stops"} => 0 < b.label /\ b.label <= version
      /\ step[p][t] = "stops" => b.label <= b.routes /\ b.routes <= version
      /\ step[p][t] = "swap" => b = Preprocessed \/ Floored(b)

(* Boot comes before the other tasks, which load under the lock.            *)
Alone(p) ==
  /\ up[p] # "serving" => /\ served[p] = Preprocessed
                          /\ poll[p] = "sleep" /\ lock[p] = "free"
  /\ up[p] = "booting" <=> step[p]["boot"] # "none"
  /\ lock[p] = "poll" <=> step[p]["poll"] # "none"
  /\ lock[p] = "refresh" <=> step[p]["refresh"] # "none"

\* a load has read no older version than the copy it is to replace
NewerInv(p) ==
  \A t \in Tasks : step[p][t] \in Reading =>
    build[p][t].label = 0 \/ served[p].label <= build[p][t].label

PodInv ==
  /\ source = "none" <=> version = 0
  /\ \A p \in Pods, t \in Tasks : LoadInv(p, t)
  /\ \A p \in Pods : Alone(p) /\ NewerInv(p)
  /\ \A p \in Pods : served[p] = Preprocessed \/ Floored(served[p])

-----------------------------------------------------------------------------
(* The parts of a state a step changes                                     *)
Places == {"none", "version", "routes", "stops", "swap"}

LEMMA CopyType == Preprocessed \in Copy /\ Preprocessed.label = 0
BY DEF Preprocessed, Copy

LEMMA NoLoad ==
  /\ NoStep \in [Tasks -> Places] /\ \A t \in Tasks : NoStep[t] = "none"
  /\ NoBuild \in [Tasks -> Copy] /\ \A t \in Tasks : NoBuild[t] = Preprocessed
BY CopyType DEF NoStep, NoBuild, Places

LEMMA LoadsTyped ==
  ASSUME TypeOK
  PROVE  step \in [Pods -> [Tasks -> Places]] /\ build \in [Pods -> [Tasks -> Copy]]
BY DEF TypeOK, Places

\* a copy with one field read
WithLabel(c, v) == [c EXCEPT !.label = v]
WithRoutes(c, v) == [c EXCEPT !.routes = v]
WithStops(c, v) == [c EXCEPT !.stops = v]

LEMMA FieldRead ==
  ASSUME NEW c \in Copy, NEW v \in Nat
  PROVE  /\ WithLabel(c, v) \in Copy /\ WithLabel(c, v).label = v
         /\ WithRoutes(c, v) \in Copy /\ WithRoutes(c, v).routes = v
         /\ WithRoutes(c, v).label = c.label
         /\ WithStops(c, v) \in Copy /\ WithStops(c, v).stops = v
         /\ WithStops(c, v).label = c.label /\ WithStops(c, v).routes = c.routes
BY DEF Copy, WithLabel, WithRoutes, WithStops

(* A load's steps: one task of one pod moves on, with the copy it has then; *)
(* FallBack is the one that gives up on the tables.                         *)
Loads(p, t, s, b) ==
  /\ step' = [step EXCEPT ![p][t] = s]
  /\ build' = [build EXCEPT ![p][t] = b]
  /\ UNCHANGED <<db, up, served, poll, live, lock>>
  /\ trouble' \in 0 .. MaxTrouble

LEMMA LoadSteps ==
  ASSUME TypeOK, NEW p \in Pods, NEW t \in Tasks
  PROVE  /\ ReadVersion(p, t) =>
              /\ Loads(p, t, "routes", WithLabel(build[p][t], version))
              /\ step[p][t] = "version" /\ source # "none"
         /\ ReadRoutes(p, t) =>
              /\ Loads(p, t, "stops", WithRoutes(build[p][t], version))
              /\ step[p][t] = "routes"
         /\ ReadStops(p, t) =>
              /\ Loads(p, t, "swap", WithStops(build[p][t], version))
              /\ step[p][t] = "stops"
         /\ FallBack(p, t) =>
              /\ Loads(p, t, "swap", Preprocessed)
              /\ step[p][t] \in {"version", "routes", "stops"}
<1>1. trouble \in 0 .. MaxTrouble /\ build \in [Pods -> [Tasks -> Copy]]
  BY DEF TypeOK
<1>2. ASSUME ReadVersion(p, t)
      PROVE  Loads(p, t, "routes", WithLabel(build[p][t], version))
             /\ step[p][t] = "version" /\ source # "none"
  BY <1>1, <1>2 DEF ReadVersion, Loads, WithLabel
<1>3. ASSUME ReadRoutes(p, t)
      PROVE  Loads(p, t, "stops", WithRoutes(build[p][t], version)) /\ step[p][t] = "routes"
  BY <1>1, <1>3 DEF ReadRoutes, Loads, WithRoutes
<1>4. ASSUME ReadStops(p, t)
      PROVE  Loads(p, t, "swap", WithStops(build[p][t], version)) /\ step[p][t] = "stops"
  BY <1>1, <1>4 DEF ReadStops, Loads, WithStops
<1>5. ASSUME FallBack(p, t)
      PROVE  Loads(p, t, "swap", Preprocessed) /\ step[p][t] \in {"version", "routes", "stops"}
  BY <1>1, <1>5, BoundsAssumption DEF FallBack, LoadFails, Loads
<1> QED
  BY <1>2, <1>3, <1>4, <1>5

LEMMA LoadsType ==
  ASSUME TypeOK, NEW p \in Pods, NEW t \in Tasks, NEW s \in Places, NEW b \in Copy,
         Loads(p, t, s, b)
  PROVE  TypeOK'
<1>1. step' \in [Pods -> [Tasks -> Places]] /\ build' \in [Pods -> [Tasks -> Copy]]
  BY LoadsTyped DEF Loads
<1> QED
  BY <1>1 DEF Loads, TypeOK, db, Places

LEMMA EndedType ==
  ASSUME TypeOK, NEW p \in Pods, NEW t \in Tasks, Ended(p, t)
  PROVE  /\ step' \in [Pods -> [Tasks -> Places]] /\ build' \in [Pods -> [Tasks -> Copy]]
         /\ lock' \in [Pods -> {"free", "poll", "refresh"}]
         /\ lock'[p] = IF lock[p] = t THEN "free" ELSE lock[p]
         /\ \A q \in Pods \ {p} : lock'[q] = lock[q]
         /\ step'[p][t] = "none" /\ build'[p][t] = Preprocessed
         /\ \A q \in Pods, u \in Tasks : q # p \/ u # t =>
              step'[q][u] = step[q][u] /\ build'[q][u] = build[q][u]
<1>1. "none" \in Places
  BY DEF Places
<1>2. lock \in [Pods -> {"free", "poll", "refresh"}]
  BY DEF TypeOK
<1>3. /\ lock' \in [Pods -> {"free", "poll", "refresh"}]
      /\ lock'[p] = IF lock[p] = t THEN "free" ELSE lock[p]
      /\ \A q \in Pods \ {p} : lock'[q] = lock[q]
  BY <1>2 DEF Ended, Free
<1>4. /\ step' = [step EXCEPT ![p][t] = "none"]
      /\ build' = [build EXCEPT ![p][t] = Preprocessed]
  BY DEF Ended
<1> HIDE DEF Ended
<1>5. /\ step' \in [Pods -> [Tasks -> Places]] /\ step'[p][t] = "none"
      /\ \A q \in Pods, u \in Tasks : q # p \/ u # t => step'[q][u] = step[q][u]
  BY <1>1, <1>4, LoadsTyped
<1>6. /\ build' \in [Pods -> [Tasks -> Copy]] /\ build'[p][t] = Preprocessed
      /\ \A q \in Pods, u \in Tasks : q # p \/ u # t => build'[q][u] = build[q][u]
  BY <1>4, LoadsTyped, CopyType
<1> QED
  BY <1>3, <1>5, <1>6

LEMMA TypeInit == Init => TypeOK
BY NoLoad, CopyType, BoundsAssumption, ConfigAssumption
   DEF Init, TypeOK, NoAnswer, Answer, Places

LEMMA TypeStep == TypeOK /\ [Next]_podVars => TypeOK'
<1> SUFFICES ASSUME TypeOK, [Next]_podVars PROVE TypeOK'
  OBVIOUS
<1> USE BoundsAssumption
<1>1. CASE Editor
  BY <1>1 DEF Editor, CreateFeed, CommitVersion, TypeOK, work, Sources
<1>2. ASSUME NEW p \in Pods, Boot(p) PROVE TypeOK'
  <2>1. step' = [step EXCEPT ![p]["boot"] = FirstStep] /\ FirstStep \in Places
    BY <1>2 DEF Boot, FirstStep, Places
  <2>2. step' \in [Pods -> [Tasks -> Places]]
    BY <2>1, LoadsTyped DEF Tasks
  <2>3. up' = [up EXCEPT ![p] = "booting"] /\ UNCHANGED <<db, served, poll, live, lock, build, trouble>>
    BY <1>2 DEF Boot
  <2> QED
    BY <2>2, <2>3 DEF TypeOK, db, Places
<1>3. ASSUME NEW p \in Pods, Booted(p) PROVE TypeOK'
  <2>1. /\ up' = [up EXCEPT ![p] = "serving"] /\ served' = [served EXCEPT ![p] = build[p]["boot"]]
        /\ Ended(p, "boot") /\ UNCHANGED <<db, poll, live, trouble>>
    BY <1>3 DEF Booted
  <2>2. /\ step' \in [Pods -> [Tasks -> Places]] /\ build' \in [Pods -> [Tasks -> Copy]]
        /\ lock' \in [Pods -> {"free", "poll", "refresh"}]
    BY <2>1, EndedType DEF Tasks
  <2>3. build[p]["boot"] \in Copy
    BY DEF TypeOK, Tasks
  <2> QED
    BY <2>1, <2>2, <2>3 DEF TypeOK, db, Places
<1>4. ASSUME NEW p \in Pods, Load(p) PROVE TypeOK'
  <2>1. PICK t \in Tasks : ReadVersion(p, t) \/ ReadRoutes(p, t) \/ ReadStops(p, t) \/ FallBack(p, t)
    BY <1>4 DEF Load
  <2>2. build[p][t] \in Copy /\ version \in Nat /\ {"routes", "stops", "swap"} \subseteq Places
    BY DEF TypeOK, Places
  <2> QED
    BY <2>1, <2>2, LoadSteps, LoadsType, FieldRead, CopyType
<1>5. ASSUME NEW p \in Pods, PollRead(p) \/ PollPlan(p) \/ EndTick(p) PROVE TypeOK'
  <2>1. UNCHANGED <<db, up, served, work, trouble>>
    BY <1>5 DEF PollRead, PollPlan, EndTick
  <2>2. live' \in [Pods -> Answer]
    <3>1. CASE PollRead(p)
      <4>1. PICK a \in Answer : live' = [live EXCEPT ![p] = a]
        <5> DEFINE listed == source = "db" \/ (source = "none" /\ Listed)
                   v == IF source = "db" THEN version ELSE 0
        <5>1. v \in Nat
          BY DEF TypeOK
        <5>2. listed \in BOOLEAN
          BY Zenon
        <5>3. live' = [live EXCEPT ![p] = [db |-> listed, v |-> v]]
          BY <3>1 DEF PollRead
        <5> HIDE DEF listed, v
        <5> QED
          BY <5>1, <5>2, <5>3 DEF Answer
      <4> QED
        BY <4>1 DEF TypeOK
    <3>2. CASE PollPlan(p)
      BY <3>2 DEF PollPlan, TypeOK
    <3>3. CASE EndTick(p)
      <4>1. NoAnswer \in Answer /\ live' = [live EXCEPT ![p] = NoAnswer]
        BY <3>3 DEF EndTick, NoAnswer, Answer
      <4> QED
        BY <4>1 DEF TypeOK
    <3> QED
      BY <1>5, <3>1, <3>2, <3>3
  <2>3. \E w \in {"sleep", "plan", "reload", "revert", "report"} : PollTo(p, w)
    BY <1>5 DEF PollRead, PollPlan, EndTick
  <2>4. poll' \in [Pods -> {"sleep", "plan", "reload", "loading", "revert", "report", "tell"}]
    BY <2>3 DEF PollTo, TypeOK
  <2> QED
    BY <2>1, <2>2, <2>4 DEF TypeOK, db, work
<1>6. ASSUME NEW p \in Pods, Reload(p) PROVE TypeOK'
  <2>1. /\ step' = [step EXCEPT ![p]["poll"] = "version"] /\ "version" \in Places
        /\ lock' = [lock EXCEPT ![p] = "poll"] /\ poll' = [poll EXCEPT ![p] = "loading"]
        /\ UNCHANGED <<db, up, served, live, build, trouble>>
    BY <1>6 DEF Reload, PollTo, Places
  <2>2. step' \in [Pods -> [Tasks -> Places]]
    BY <2>1, LoadsTyped DEF Tasks
  <2> QED
    BY <2>1, <2>2 DEF TypeOK, db, Places
<1>7. ASSUME NEW p \in Pods, Reloaded(p) PROVE TypeOK'
  <2>1. /\ poll' = [poll EXCEPT ![p] = "report"] /\ served' = [served EXCEPT ![p] = build[p]["poll"]]
        /\ Ended(p, "poll") /\ UNCHANGED <<db, up, live, trouble>>
    BY <1>7 DEF Reloaded, PollTo
  <2>2. /\ step' \in [Pods -> [Tasks -> Places]] /\ build' \in [Pods -> [Tasks -> Copy]]
        /\ lock' \in [Pods -> {"free", "poll", "refresh"}]
    BY <2>1, EndedType DEF Tasks
  <2>3. build[p]["poll"] \in Copy
    BY DEF TypeOK, Tasks
  <2> QED
    BY <2>1, <2>2, <2>3 DEF TypeOK, db, Places
<1>8. ASSUME NEW p \in Pods, ReloadFails(p) PROVE TypeOK'
  <2>1. /\ poll' = [poll EXCEPT ![p] = "report"] /\ Ended(p, "poll") /\ LoadFails(p, "poll")
        /\ UNCHANGED <<db, up, served, live>>
    BY <1>8 DEF ReloadFails, PollTo
  <2>2. /\ step' \in [Pods -> [Tasks -> Places]] /\ build' \in [Pods -> [Tasks -> Copy]]
        /\ lock' \in [Pods -> {"free", "poll", "refresh"}]
    BY <2>1, EndedType DEF Tasks
  <2>3. trouble' \in 0 .. MaxTrouble
    BY <2>1 DEF LoadFails, TypeOK
  <2> QED
    BY <2>1, <2>2, <2>3 DEF TypeOK, db, Places
<1>9. ASSUME NEW p \in Pods, Revert(p) PROVE TypeOK'
  BY <1>9, CopyType DEF Revert, PollTo, TypeOK, db, work
<1>10. ASSUME NEW p \in Pods, Refresh(p) PROVE TypeOK'
  <2>1. /\ step' = [step EXCEPT ![p]["refresh"] = FirstStep] /\ FirstStep \in Places
        /\ lock' = [lock EXCEPT ![p] = "refresh"]
        /\ UNCHANGED <<db, up, served, poll, live, build, trouble>>
    BY <1>10 DEF Refresh, FirstStep, Places
  <2>2. step' \in [Pods -> [Tasks -> Places]]
    BY <2>1, LoadsTyped DEF Tasks
  <2> QED
    BY <2>1, <2>2 DEF TypeOK, db, Places
<1>11. ASSUME NEW p \in Pods, Refreshed(p) PROVE TypeOK'
  <2>1. /\ \/ served' = [served EXCEPT ![p] = build[p]["refresh"]]
           \/ served' = served
        /\ Ended(p, "refresh") /\ UNCHANGED <<db, up, poll, live, trouble>>
    BY <1>11 DEF Refreshed
  <2>2. /\ step' \in [Pods -> [Tasks -> Places]] /\ build' \in [Pods -> [Tasks -> Copy]]
        /\ lock' \in [Pods -> {"free", "poll", "refresh"}]
    BY <2>1, EndedType DEF Tasks
  <2>3. build[p]["refresh"] \in Copy
    BY DEF TypeOK, Tasks
  <2> QED
    BY <2>1, <2>2, <2>3 DEF TypeOK, db, Places
<1>12. ASSUME NEW p \in Pods, RefreshFails(p) PROVE TypeOK'
  <2>1. /\ Ended(p, "refresh") /\ trouble < MaxTrouble /\ trouble' = trouble + 1
        /\ UNCHANGED <<db, up, served, poll, live>>
    BY <1>12 DEF RefreshFails
  <2>2. /\ step' \in [Pods -> [Tasks -> Places]] /\ build' \in [Pods -> [Tasks -> Copy]]
        /\ lock' \in [Pods -> {"free", "poll", "refresh"}]
    BY <2>1, EndedType DEF Tasks
  <2> QED
    BY <2>1, <2>2 DEF TypeOK, db, Places
<1>13. ASSUME NEW p \in Pods, Die(p) PROVE TypeOK'
  BY <1>13, NoLoad, CopyType DEF Die, TypeOK, db, Places, NoAnswer, Answer
<1>14. CASE UNCHANGED podVars
  BY <1>14 DEF podVars, db, work, TypeOK
<1> QED
  BY <1>1, <1>2, <1>3, <1>4, <1>5, <1>6, <1>7, <1>8, <1>9, <1>10, <1>11, <1>12, <1>13, <1>14
     DEF Next, PodStep

(* Every variable of the pods keeps its type, whatever fails and whoever    *)
(* dies.                                                                    *)
THEOREM TypeCorrect == Spec => []TypeOK
BY TypeInit, TypeStep, PTL DEF Spec

-----------------------------------------------------------------------------
(* The invariant, by what a step does to a load                            *)
LEMMA KeptLoad ==
  ASSUME TypeOK, NEW p \in Pods, NEW t \in Tasks, LoadInv(p, t),
         step'[p][t] = step[p][t], build'[p][t] = build[p][t],
         version' \in Nat, version' >= version
  PROVE  LoadInv(p, t)'
<1>1. build[p][t] \in Copy /\ version \in Nat
  BY DEF TypeOK
<1> QED
  BY <1>1 DEF LoadInv, Floored, Copy

LEMMA KeptCopy ==
  ASSUME TypeOK, NEW p \in Pods, served[p] = Preprocessed \/ Floored(served[p]),
         served'[p] = served[p], version' \in Nat, version' >= version
  PROVE  (served[p] = Preprocessed \/ Floored(served[p]))'
<1>1. served[p] \in Copy /\ version \in Nat
  BY DEF TypeOK
<1> QED
  BY <1>1 DEF Floored, Copy

\* a pod that is at work on a load is at work on no other
LEMMA OneLoad ==
  ASSUME TypeOK, NEW p \in Pods, Alone(p), NEW t \in Tasks, NEW u \in Tasks,
         step[p][t] # "none", u # t
  PROVE  step[p][u] = "none"
BY DEF Alone, Tasks

\* a load goes on
LEMMA LoadsInv ==
  ASSUME TypeOK, PodInv, NEW p \in Pods, NEW t \in Tasks, step[p][t] # "none",
         NEW s \in Reading, NEW b \in Copy, Loads(p, t, s, b),
         s \in {"routes", "stops"} => 0 < b.label /\ b.label <= version,
         s = "stops" => b.label <= b.routes /\ b.routes <= version,
         s = "swap" => b = Preprocessed \/ Floored(b),
         b.label = 0 \/ served[p].label <= b.label
  PROVE  PodInv'
<1>1. s \in Places /\ s # "none" /\ s # "version"
  BY DEF Places, Reading
<1>2. /\ step'[p][t] = s /\ build'[p][t] = b
      /\ \A q \in Pods, u \in Tasks : q # p \/ u # t =>
           step'[q][u] = step[q][u] /\ build'[q][u] = build[q][u]
  <2>1. step' = [step EXCEPT ![p][t] = s] /\ build' = [build EXCEPT ![p][t] = b]
    BY DEF Loads
  <2>2. step'[p][t] = s /\ \A q \in Pods, u \in Tasks : q # p \/ u # t => step'[q][u] = step[q][u]
    BY <1>1, <2>1, LoadsTyped
  <2>3. build'[p][t] = b /\ \A q \in Pods, u \in Tasks : q # p \/ u # t => build'[q][u] = build[q][u]
    BY <2>1, LoadsTyped
  <2> QED
    BY <2>2, <2>3
<1>3. /\ source' = source /\ version' = version /\ version \in Nat
      /\ up' = up /\ served' = served /\ poll' = poll /\ lock' = lock
  BY DEF Loads, db, TypeOK
<1>4. ASSUME NEW q \in Pods, NEW u \in Tasks PROVE LoadInv(q, u)'
  <2>1. CASE q = p /\ u = t
    BY <1>1, <1>2, <1>3, <2>1 DEF LoadInv, Floored
  <2>2. CASE ~(q = p /\ u = t)
    BY <1>2, <1>3, <2>2, KeptLoad DEF PodInv
  <2> QED
    BY <2>1, <2>2
<1>5. ASSUME NEW q \in Pods PROVE Alone(q)'
  <2>1. \A u \in Tasks : step'[q][u] # "none" <=> step[q][u] # "none"
    BY <1>1, <1>2
  <2> QED
    BY <1>3, <2>1 DEF PodInv, Alone, Tasks
<1>6. ASSUME NEW q \in Pods PROVE NewerInv(q)'
  BY <1>2, <1>3 DEF PodInv, NewerInv
<1> QED
  BY <1>3, <1>4, <1>5, <1>6 DEF PodInv, Floored

\* a load ends, and what it has built is swapped in or not
LEMMA EndedInv ==
  ASSUME TypeOK, PodInv, NEW p \in Pods, NEW t \in Tasks, step[p][t] # "none",
         Ended(p, t), UNCHANGED db,
         \A q \in Pods \ {p} : served'[q] = served[q] /\ up'[q] = up[q] /\ poll'[q] = poll[q],
         \/ served'[p] = served[p]
         \/ served'[p] = build[p][t] /\ step[p][t] = "swap",
         up'[p] = "serving"
  PROVE  PodInv'
<1>1. /\ lock'[p] = IF lock[p] = t THEN "free" ELSE lock[p]
      /\ \A q \in Pods \ {p} : lock'[q] = lock[q]
      /\ step'[p][t] = "none" /\ build'[p][t] = Preprocessed
      /\ \A q \in Pods, u \in Tasks : q # p \/ u # t =>
           step'[q][u] = step[q][u] /\ build'[q][u] = build[q][u]
  BY EndedType
<1>2. source' = source /\ version' = version /\ version \in Nat
  BY DEF db, TypeOK
<1>3. \A u \in Tasks : step'[p][u] = "none"
  BY <1>1, OneLoad DEF PodInv
<1>4. ASSUME NEW q \in Pods, NEW u \in Tasks PROVE LoadInv(q, u)'
  <2>1. CASE q = p /\ u = t
    BY <1>1, <2>1 DEF LoadInv
  <2>2. CASE ~(q = p /\ u = t)
    BY <1>1, <1>2, <2>2, KeptLoad DEF PodInv
  <2> QED
    BY <2>1, <2>2
<1>5. lock'[p] = "free"
  <2>1. lock[p] \in {"free", "poll", "refresh"} /\ Alone(p)
    BY DEF TypeOK, PodInv
  <2>2. lock[p] = "free" \/ lock[p] = t
    BY <1>1, <2>1, OneLoad DEF Alone, Tasks
  <2> QED
    BY <1>1, <2>2
<1>6. ASSUME NEW q \in Pods PROVE Alone(q)' /\ NewerInv(q)'
  <2>1. CASE q = p
    BY <1>3, <1>5, <2>1 DEF Alone, NewerInv, Tasks, Reading
  <2>2. CASE q # p
    BY <1>1, <2>2 DEF PodInv, Alone, NewerInv, Tasks
  <2> QED
    BY <2>1, <2>2
<1>7. ASSUME NEW q \in Pods PROVE (served[q] = Preprocessed \/ Floored(served[q]))'
  <2>1. CASE served'[q] = served[q]
    BY <1>2, <2>1, KeptCopy DEF PodInv
  <2>2. CASE q = p /\ served'[p] = build[p][t] /\ step[p][t] = "swap"
    BY <1>2, <2>2 DEF PodInv, LoadInv, Floored
  <2> QED
    BY <2>1, <2>2
<1> QED
  BY <1>2, <1>4, <1>6, <1>7 DEF PodInv

\* a load begins, and no other is under way
LEMMA StartInv ==
  ASSUME TypeOK, PodInv, NEW p \in Pods, NEW t \in Tasks,
         \A u \in Tasks : step[p][u] = "none",
         NEW s \in {"version", "swap"}, step' = [step EXCEPT ![p][t] = s],
         UNCHANGED <<db, served, build>>, Alone(p)',
         \A q \in Pods \ {p} : up'[q] = up[q] /\ poll'[q] = poll[q] /\ lock'[q] = lock[q]
  PROVE  PodInv'
<1>1. /\ step'[p][t] = s
      /\ \A q \in Pods, u \in Tasks : q # p \/ u # t => step'[q][u] = step[q][u]
  <2>1. s \in Places
    BY DEF Places
  <2> QED
    BY <2>1, LoadsTyped
<1>2. source' = source /\ version' = version /\ version \in Nat /\ served' = served /\ build' = build
  BY DEF db, TypeOK
<1>3. \A u \in Tasks : build[p][u] = Preprocessed
  BY DEF PodInv, LoadInv
<1>4. ASSUME NEW q \in Pods, NEW u \in Tasks PROVE LoadInv(q, u)'
  <2>1. CASE q = p
    BY <1>1, <1>2, <1>3, <2>1 DEF LoadInv
  <2>2. CASE q # p
    BY <1>1, <1>2, <2>2, KeptLoad DEF PodInv
  <2> QED
    BY <2>1, <2>2
<1>5. ASSUME NEW q \in Pods PROVE Alone(q)' /\ NewerInv(q)'
  <2>1. CASE q = p
    BY <1>2, <1>3, <2>1, CopyType DEF NewerInv
  <2>2. CASE q # p
    BY <1>1, <1>2, <2>2 DEF PodInv, Alone, NewerInv, Tasks
  <2> QED
    BY <2>1, <2>2
<1>6. ASSUME NEW q \in Pods PROVE (served[q] = Preprocessed \/ Floored(served[q]))'
  BY <1>2, KeptCopy DEF PodInv
<1> QED
  BY <1>2, <1>4, <1>5, <1>6 DEF PodInv

\* no load moves; the editor may, and a pod may revert
LEMMA QuietInv ==
  ASSUME TypeOK, PodInv, UNCHANGED <<up, lock, step, build>>,
         version' \in Nat, version' >= version, source' = "none" <=> version' = 0,
         \A q \in Pods : served'[q] = served[q] \/ served'[q] = Preprocessed,
         \A q \in Pods : poll'[q] = poll[q] \/ up[q] = "serving"
  PROVE  PodInv'
<1>1. ASSUME NEW q \in Pods, NEW u \in Tasks PROVE LoadInv(q, u)'
  BY KeptLoad DEF PodInv
<1>2. ASSUME NEW q \in Pods PROVE (served[q] = Preprocessed \/ Floored(served[q]))'
  BY KeptCopy DEF PodInv
<1>3. ASSUME NEW q \in Pods PROVE Alone(q)'
  BY DEF PodInv, Alone
<1>4. ASSUME NEW q \in Pods PROVE NewerInv(q)'
  <2>1. \A u \in Tasks : build[q][u] \in Copy
    BY DEF TypeOK
  <2> QED
    BY <2>1, CopyType DEF PodInv, NewerInv, Copy
<1> QED
  BY <1>1, <1>2, <1>3, <1>4 DEF PodInv

-----------------------------------------------------------------------------
LEMMA PodInvInit == Init => PodInv
<1> SUFFICES ASSUME Init PROVE PodInv
  OBVIOUS
<1>1. \A p \in Pods : \A t \in Tasks : step[p][t] = "none" /\ build[p][t] = Preprocessed
  BY NoLoad DEF Init
<1>2. \A p \in Pods : /\ up[p] = "down" /\ served[p] = Preprocessed
                     /\ poll[p] = "sleep" /\ lock[p] = "free"
  BY DEF Init
<1>3. source = "none" <=> version = 0
  BY DEF Init
<1> QED
  BY <1>1, <1>2, <1>3 DEF PodInv, LoadInv, Alone, NewerInv, Reading, Tasks

\* which pod a task of whose is at a load is serving, and only boots while booting
LEMMA Idle ==
  ASSUME TypeOK, PodInv, NEW p \in Pods
  PROVE  /\ up[p] = "down" => \A u \in Tasks : step[p][u] = "none"
         /\ up[p] = "serving" /\ lock[p] = "free" => \A u \in Tasks : step[p][u] = "none"
         /\ step[p]["refresh"] # "none" => up[p] = "serving"
BY DEF PodInv, Alone, Tasks

LEMMA PodInvStep == TypeOK /\ PodInv /\ [Next]_podVars => PodInv'
<1> SUFFICES ASSUME TypeOK, PodInv, [Next]_podVars PROVE PodInv'
  OBVIOUS
<1>0. version \in Nat /\ {"boot", "poll", "refresh"} = Tasks
  BY DEF TypeOK, Tasks
<1>1. CASE Editor
  <2>1. /\ UNCHANGED <<up, served, poll, live, work, trouble>>
    BY <1>1 DEF Editor, CreateFeed, CommitVersion
  <2>2. version' \in Nat /\ version' >= version /\ (source' = "none" <=> version' = 0)
    BY <1>0, <1>1 DEF Editor, CreateFeed, CommitVersion, PodInv
  <2> QED
    BY <2>1, <2>2, QuietInv DEF work
<1>2. ASSUME NEW p \in Pods, Boot(p) PROVE PodInv'
  <2>1. /\ up[p] = "down" /\ up' = [up EXCEPT ![p] = "booting"]
        /\ step' = [step EXCEPT ![p]["boot"] = FirstStep]
        /\ UNCHANGED <<db, served, poll, live, lock, build, trouble>>
        /\ FirstStep \in {"version", "swap"}
    BY <1>2 DEF Boot, FirstStep
  <2>2. \A u \in Tasks : step[p][u] = "none"
    BY <2>1, Idle
  <2>3. up'[p] = "booting" /\ \A q \in Pods \ {p} : up'[q] = up[q]
    BY <2>1 DEF TypeOK
  <2>4. /\ step'[p]["boot"] # "none"
        /\ step'[p]["poll"] = "none" /\ step'[p]["refresh"] = "none"
    <3>1. FirstStep \in Places
      BY <2>1 DEF Places
    <3> QED
      BY <1>0, <2>1, <2>2, <3>1, LoadsTyped
  <2>5. Alone(p)'
    BY <1>0, <2>1, <2>2, <2>3, <2>4 DEF PodInv, Alone
  <2> QED
    BY <1>0, <2>1, <2>2, <2>3, <2>5, StartInv
<1>3. ASSUME NEW p \in Pods, Booted(p) PROVE PodInv'
  <2>1. /\ step[p]["boot"] = "swap" /\ Ended(p, "boot") /\ UNCHANGED <<db, poll, live, trouble>>
        /\ up' = [up EXCEPT ![p] = "serving"] /\ served' = [served EXCEPT ![p] = build[p]["boot"]]
    BY <1>3 DEF Booted
  <2>2. /\ up'[p] = "serving" /\ served'[p] = build[p]["boot"]
        /\ \A q \in Pods \ {p} : served'[q] = served[q] /\ up'[q] = up[q]
    BY <2>1 DEF TypeOK
  <2> QED
    BY <1>0, <2>1, <2>2, EndedInv
<1>4. ASSUME NEW p \in Pods, Load(p) PROVE PodInv'
  <2>1. PICK t \in Tasks : ReadVersion(p, t) \/ ReadRoutes(p, t) \/ ReadStops(p, t) \/ FallBack(p, t)
    BY <1>4 DEF Load
  <2>2. /\ build[p][t] \in Copy /\ served[p] \in Copy
        /\ {"routes", "stops", "swap"} = Reading
        /\ LoadInv(p, t) /\ NewerInv(p)
        /\ served[p] = Preprocessed \/ Floored(served[p])
    BY DEF TypeOK, Reading, PodInv
  <2>3. CASE ReadVersion(p, t)
    <3> DEFINE b == WithLabel(build[p][t], version)
    <3>1. /\ Loads(p, t, "routes", b) /\ step[p][t] = "version" /\ source # "none"
          /\ b \in Copy /\ b.label = version
      BY <1>0, <2>2, <2>3, LoadSteps, FieldRead
    <3>2. 0 < b.label /\ b.label <= version /\ served[p].label <= b.label
      BY <1>0, <2>2, <3>1, CopyType DEF PodInv, Floored, Copy
    <3> QED
      BY <2>2, <3>1, <3>2, LoadsInv
  <2>4. CASE ReadRoutes(p, t)
    <3> DEFINE b == WithRoutes(build[p][t], version)
    <3>1. /\ Loads(p, t, "stops", b) /\ step[p][t] = "routes"
          /\ b \in Copy /\ b.label = build[p][t].label /\ b.routes = version
      BY <1>0, <2>2, <2>4, LoadSteps, FieldRead
    <3>2. 0 < b.label /\ b.label <= version /\ b.label <= b.routes /\ b.routes <= version
      BY <1>0, <2>2, <3>1 DEF LoadInv
    <3>3. b.label = 0 \/ served[p].label <= b.label
      BY <2>2, <3>1 DEF NewerInv
    <3> QED
      BY <2>2, <3>1, <3>2, <3>3, LoadsInv
  <2>5. CASE ReadStops(p, t)
    <3> DEFINE b == WithStops(build[p][t], version)
    <3>1. /\ Loads(p, t, "swap", b) /\ step[p][t] = "stops"
          /\ b \in Copy /\ b.label = build[p][t].label /\ b.routes = build[p][t].routes
          /\ b.stops = version
      BY <1>0, <2>2, <2>5, LoadSteps, FieldRead
    <3>2. Floored(b)
      BY <1>0, <2>2, <3>1 DEF LoadInv, Floored
    <3>3. b.label = 0 \/ served[p].label <= b.label
      BY <2>2, <3>1 DEF NewerInv
    <3> QED
      BY <2>2, <3>1, <3>2, <3>3, LoadsInv
  <2>6. CASE FallBack(p, t)
    BY <2>2, <2>6, LoadSteps, LoadsInv, CopyType
  <2> QED
    BY <2>1, <2>3, <2>4, <2>5, <2>6
<1>5. ASSUME NEW p \in Pods, PollRead(p) \/ PollPlan(p) \/ EndTick(p) PROVE PodInv'
  <2>1. /\ up[p] = "serving" /\ UNCHANGED <<db, up, served, work>>
        /\ \E w \in {"sleep", "plan", "reload", "revert", "report"} : PollTo(p, w)
    BY <1>5 DEF PollRead, PollPlan, EndTick, PollAt
  <2>2. \A q \in Pods : poll'[q] = poll[q] \/ up[q] = "serving"
    BY <2>1 DEF PollTo, TypeOK
  <2> QED
    BY <1>0, <2>1, <2>2, QuietInv DEF PodInv, db, work
<1>6. ASSUME NEW p \in Pods, Reload(p) PROVE PodInv'
  <2>1. /\ up[p] = "serving" /\ lock[p] = "free" /\ lock' = [lock EXCEPT ![p] = "poll"]
        /\ poll' = [poll EXCEPT ![p] = "loading"]
        /\ step' = [step EXCEPT ![p]["poll"] = "version"]
        /\ UNCHANGED <<db, up, served, live, build, trouble>>
    BY <1>6 DEF Reload, PollAt, PollTo
  <2>2. \A u \in Tasks : step[p][u] = "none"
    BY <2>1, Idle
  <2>3. lock'[p] = "poll" /\ \A q \in Pods \ {p} : lock'[q] = lock[q] /\ poll'[q] = poll[q]
    BY <2>1 DEF TypeOK
  <2>4. /\ step'[p]["poll"] # "none"
        /\ step'[p]["boot"] = "none" /\ step'[p]["refresh"] = "none"
    <3>1. "version" \in Places
      BY DEF Places
    <3> QED
      BY <1>0, <2>1, <2>2, <3>1, LoadsTyped
  <2>5. Alone(p)'
    BY <2>1, <2>3, <2>4 DEF Alone
  <2> QED
    BY <1>0, <2>1, <2>2, <2>3, <2>5, StartInv
<1>7. ASSUME NEW p \in Pods, Reloaded(p) PROVE PodInv'
  <2>1. /\ up[p] = "serving" /\ step[p]["poll"] = "swap" /\ Ended(p, "poll")
        /\ served' = [served EXCEPT ![p] = build[p]["poll"]]
        /\ poll' = [poll EXCEPT ![p] = "report"] /\ UNCHANGED <<db, up, live, trouble>>
    BY <1>7 DEF Reloaded, PollAt, PollTo
  <2>2. /\ served'[p] = build[p]["poll"]
        /\ \A q \in Pods \ {p} : served'[q] = served[q] /\ poll'[q] = poll[q]
    BY <2>1 DEF TypeOK
  <2> QED
    BY <1>0, <2>1, <2>2, EndedInv
<1>8. ASSUME NEW p \in Pods, ReloadFails(p) PROVE PodInv'
  <2>1. /\ up[p] = "serving" /\ step[p]["poll"] # "none" /\ Ended(p, "poll")
        /\ poll' = [poll EXCEPT ![p] = "report"] /\ UNCHANGED <<db, up, served, live>>
    BY <1>8 DEF ReloadFails, LoadFails, PollAt, PollTo
  <2>2. \A q \in Pods \ {p} : poll'[q] = poll[q]
    BY <2>1 DEF TypeOK
  <2> QED
    BY <1>0, <2>1, <2>2, EndedInv
<1>9. ASSUME NEW p \in Pods, Revert(p) PROVE PodInv'
  <2>1. /\ up[p] = "serving" /\ UNCHANGED <<db, up, live, work>>
        /\ poll' = [poll EXCEPT ![p] = "report"]
        /\ served' = [served EXCEPT ![p] = Preprocessed] \/ served' = served
    BY <1>9 DEF Revert, PollAt, PollTo
  <2>2. /\ \A q \in Pods : poll'[q] = poll[q] \/ up[q] = "serving"
        /\ \A q \in Pods : served'[q] = served[q] \/ served'[q] = Preprocessed
    BY <2>1 DEF TypeOK
  <2> QED
    BY <1>0, <2>1, <2>2, QuietInv DEF PodInv, db, work
<1>10. ASSUME NEW p \in Pods, Refresh(p) PROVE PodInv'
  <2>1. /\ up[p] = "serving" /\ lock[p] = "free" /\ lock' = [lock EXCEPT ![p] = "refresh"]
        /\ step' = [step EXCEPT ![p]["refresh"] = FirstStep]
        /\ FirstStep \in {"version", "swap"}
        /\ UNCHANGED <<db, up, served, poll, live, build, trouble>>
    BY <1>10 DEF Refresh, FirstStep
  <2>2. \A u \in Tasks : step[p][u] = "none"
    BY <2>1, Idle
  <2>3. lock'[p] = "refresh" /\ \A q \in Pods \ {p} : lock'[q] = lock[q]
    BY <2>1 DEF TypeOK
  <2>4. /\ step'[p]["refresh"] # "none"
        /\ step'[p]["boot"] = "none" /\ step'[p]["poll"] = "none"
    <3>1. FirstStep \in Places
      BY <2>1 DEF Places
    <3> QED
      BY <1>0, <2>1, <2>2, <3>1, LoadsTyped
  <2>5. Alone(p)'
    BY <2>1, <2>3, <2>4 DEF Alone
  <2> QED
    BY <1>0, <2>1, <2>2, <2>3, <2>5, StartInv
<1>11. ASSUME NEW p \in Pods, Refreshed(p) PROVE PodInv'
  <2>1. /\ step[p]["refresh"] = "swap" /\ Ended(p, "refresh")
        /\ UNCHANGED <<db, up, poll, live, trouble>>
        /\ served' = [served EXCEPT ![p] = build[p]["refresh"]] \/ served' = served
    BY <1>11 DEF Refreshed
  <2>2. /\ served'[p] = served[p] \/ served'[p] = build[p]["refresh"]
        /\ \A q \in Pods \ {p} : served'[q] = served[q]
    BY <2>1 DEF TypeOK
  <2>3. up[p] = "serving"
    BY <2>1, Idle
  <2> QED
    BY <1>0, <2>1, <2>2, <2>3, EndedInv
<1>12. ASSUME NEW p \in Pods, RefreshFails(p) PROVE PodInv'
  <2>1. /\ step[p]["refresh"] # "none" /\ Ended(p, "refresh")
        /\ UNCHANGED <<db, up, served, poll, live>>
    BY <1>12 DEF RefreshFails
  <2>2. up[p] = "serving"
    BY <2>1, Idle
  <2> QED
    BY <1>0, <2>1, <2>2, EndedInv
<1>13. ASSUME NEW p \in Pods, Die(p) PROVE PodInv'
  <2>1. /\ up' = [up EXCEPT ![p] = "down"] /\ served' = [served EXCEPT ![p] = Preprocessed]
        /\ poll' = [poll EXCEPT ![p] = "sleep"] /\ lock' = [lock EXCEPT ![p] = "free"]
        /\ step' = [step EXCEPT ![p] = NoStep] /\ build' = [build EXCEPT ![p] = NoBuild]
        /\ UNCHANGED db
    BY <1>13 DEF Die
  <2>2. /\ up'[p] = "down" /\ served'[p] = Preprocessed /\ poll'[p] = "sleep" /\ lock'[p] = "free"
        /\ \A u \in Tasks : step'[p][u] = "none" /\ build'[p][u] = Preprocessed
    BY <2>1, NoLoad DEF TypeOK
  <2>3. \A q \in Pods \ {p} : /\ up'[q] = up[q] /\ served'[q] = served[q] /\ poll'[q] = poll[q]
                             /\ lock'[q] = lock[q] /\ step'[q] = step[q] /\ build'[q] = build[q]
    BY <2>1 DEF TypeOK
  <2>4. ASSUME NEW q \in Pods, NEW u \in Tasks PROVE LoadInv(q, u)'
    <3>1. CASE q = p
      BY <2>2, <3>1 DEF LoadInv
    <3>2. CASE q # p
      BY <1>0, <2>1, <2>3, <3>2, KeptLoad DEF PodInv, db
    <3> QED
      BY <3>1, <3>2
  <2>5. ASSUME NEW q \in Pods PROVE Alone(q)' /\ NewerInv(q)'
    <3>1. CASE q = p
      BY <2>2, <3>1 DEF Alone, NewerInv, Tasks, Reading
    <3>2. CASE q # p
      BY <2>3, <3>2 DEF PodInv, Alone, NewerInv
    <3> QED
      BY <3>1, <3>2
  <2>6. ASSUME NEW q \in Pods PROVE (served[q] = Preprocessed \/ Floored(served[q]))'
    BY <1>0, <2>1, <2>2, <2>3, KeptCopy DEF PodInv, db
  <2> QED
    BY <2>1, <2>4, <2>5, <2>6 DEF PodInv, db
<1>14. CASE UNCHANGED podVars
  BY <1>0, <1>14, QuietInv DEF podVars, db, work, PodInv
<1> QED
  BY <1>1, <1>2, <1>3, <1>4, <1>5, <1>6, <1>7, <1>8, <1>9, <1>10, <1>11, <1>12, <1>13, <1>14
     DEF Next, PodStep

LEMMA Inductive == Spec => [](TypeOK /\ PodInv)
<1>1. Init => TypeOK /\ PodInv
  BY TypeInit, PodInvInit
<1>2. TypeOK /\ PodInv /\ [Next]_podVars => (TypeOK /\ PodInv)'
  BY TypeStep, PodInvStep
<1> QED
  BY <1>1, <1>2, PTL DEF Spec

-----------------------------------------------------------------------------
(* A served copy holds at least what its label says, whatever the editor    *)
(* commits between two statements of a load.                                *)
THEOREM LabelIsAFloorHolds == Spec => []LabelIsAFloor
<1>1. TypeOK /\ PodInv => LabelIsAFloor
  <2> SUFFICES ASSUME TypeOK, PodInv, NEW p \in Pods
               PROVE  /\ served[p].label <= served[p].routes
                      /\ served[p].routes <= served[p].stops
                      /\ served[p].stops <= version
                      /\ served[p].label = 0 => served[p] = Preprocessed
    BY DEF LabelIsAFloor
  <2>1. version \in Nat /\ served[p] \in Copy
    BY DEF TypeOK
  <2>2. CASE served[p] = Preprocessed
    BY <2>1, <2>2 DEF Preprocessed
  <2>3. CASE Floored(served[p])
    BY <2>1, <2>3 DEF Floored, Copy
  <2> QED
    BY <2>2, <2>3 DEF PodInv
<1> QED
  BY <1>1, Inductive, PTL

(* No swap takes a running pod back to an older version of the feed: poll   *)
(* and refresh load one at a time, and boot comes before both.              *)
THEOREM NeverOlderHolds == Spec => NeverOlder
<1> DEFINE Forward ==
      \A p \in Pods :
        up'[p] = "serving" /\ served'[p].label # 0 => served'[p].label >= served[p].label
<1>1. TypeOK /\ PodInv /\ [Next]_podVars => Forward \/ UNCHANGED podVars
  <2> SUFFICES ASSUME TypeOK, PodInv, Next, NEW q \in Pods,
                      up'[q] = "serving", served'[q].label # 0
               PROVE  served'[q].label >= served[q].label
    OBVIOUS
  <2>1. served[q] \in Copy /\ NewerInv(q)
    BY DEF TypeOK, PodInv
  <2>2. CASE served'[q] = served[q]
    BY <2>1, <2>2 DEF Copy
  <2>3. ASSUME NEW p \in Pods, NEW t \in Tasks, step[p][t] = "swap",
               served' = [served EXCEPT ![p] = build[p][t]]
        PROVE  served'[q].label >= served[q].label
    <3>1. build[p][t] \in Copy
      BY DEF TypeOK
    <3>2. q # p => served'[q] = served[q]
      BY <2>3 DEF TypeOK
    <3>3. q = p => served'[q] = build[q][t]
      BY <2>3 DEF TypeOK
    <3> QED
      BY <2>1, <2>2, <2>3, <3>1, <3>2, <3>3 DEF NewerInv, Reading, Copy
  <2>4. ASSUME NEW p \in Pods, served' = [served EXCEPT ![p] = Preprocessed]
        PROVE  served'[q].label >= served[q].label
    BY <2>2, <2>4, CopyType DEF TypeOK
  <2>5. \/ served' = served
        \/ \E p \in Pods, t \in Tasks :
             step[p][t] = "swap" /\ served' = [served EXCEPT ![p] = build[p][t]]
        \/ \E p \in Pods : served' = [served EXCEPT ![p] = Preprocessed]
    BY DEF Next, PodStep, Load, Editor, CreateFeed, CommitVersion, Boot, Booted, ReadVersion,
           ReadRoutes, ReadStops, FallBack, PollRead, PollPlan, Reload, Reloaded, ReloadFails,
           Revert, EndTick, Refresh, Refreshed, RefreshFails, Die, Tasks
  <2> QED
    BY <2>2, <2>3, <2>4, <2>5
<1>2. Forward \/ UNCHANGED podVars => [Forward]_podVars
  OBVIOUS
<1> QED
  BY <1>1, <1>2, Inductive, PTL DEF Spec, NeverOlder
=============================================================================
