------------------------------ MODULE Repeater ------------------------------
(***************************************************************************)
(* The waybill repeater, src/src/services/operator.rs: the duties of a     *)
(* repeating schedule are made ahead, by a reconciler in every pod and by  *)
(* people who ask for a range of days.                                     *)
(*                                                                         *)
(* Both run one walk over the schedules, each statement of which commits   *)
(* by itself.  A schedule keeps a watermark, the day it has been walked    *)
(* to.  The pods take turns by a lease, a row two columns of which say     *)
(* when it was last claimed and when a sweep last ended.                   *)
(***************************************************************************)
EXTENDS Naturals, FiniteSets

CONSTANTS
  Schedules, Pods, Users,
  LookAhead,   \* repeater_lookahead_days
  Batch,       \* WAYBILL_BULK_INSERT_BATCH_SIZE
  Configs,     \* the repeats people set: the days eligible by window and weekday, or Off
  Off,
  FirstConfigs,\* the repeats there at first, by schedule
  Ranges,      \* the ranges of days people ask for
  FirstDuties, \* the duties there at first, by schedule
  MaxDay,      \* bound: days
  MaxEdits,    \* bound: writes of people other than ranges of days
  MaxTroubles, \* bound: deaths and failed statements
  None         \* no pod

Days    == 1..(MaxDay + LookAhead)
Walkers == Pods \cup Users

VARIABLES
  config,   \* repeat_status, valid_from, valid_until and recurrence_days
  till,     \* generated_till; 0 is NULL
  duties,   \* the days a schedule has a duty on that is not deleted, settled or not
  now,      \* today_ist
  lease,    \* repeater_reconciler_state
  walk,     \* the walks under way
  edits, troubles,
  tainted   \* history: a watermark the code has no grounds for

vars == <<config, till, duties, now, lease, walk, edits, troubles, tainted>>
data == <<config, till, duties, tainted>>

\* running: claimed since the last sweep ended.  due, stuck: enough time has passed
\* since the end of a sweep, since the claim.
FirstLease == [claim |-> None, running |-> FALSE, due |-> TRUE, stuck |-> FALSE]
Idle       == [at |-> "idle"]

Init ==
  /\ config = FirstConfigs
  /\ till = [s \in Schedules |-> 0]
  /\ duties = FirstDuties
  /\ now = 1
  /\ lease = FirstLease
  /\ walk = [w \in Walkers |-> Idle]
  /\ edits = 0 /\ troubles = 0
  /\ tainted = [s \in Schedules |-> FALSE]

Least(D)     == CHOOSE d \in D : \A e \in D : d <= e
Larger(a, b) == IF a > b THEN a ELSE b

-----------------------------------------------------------------------------
(* walk_schedule_trip_repeats                                               *)

\* late: the claim was given up for stuck.  stale: schedules whose repeat or duties
\* were changed under the walk.
Walk(from, to, ids) ==
  [at |-> "trips", from |-> from, to |-> to, ids |-> ids, todo |-> {}, s |-> None,
   missing |-> {}, start |-> 0, stop |-> 0, late |-> FALSE, seen |-> <<>>, stale |-> {}]

Going(w, at)  == walk[w].at = at
Onward(w, at) == walk' = [walk EXCEPT ![w].at = at]

\* The schedules to walk, with their repeat and watermark as they are now.
ReadTrips(w) ==
  /\ Going(w, "trips")
  /\ LET ids == {s \in walk[w].ids : config[s] # Off /\ till[s] < walk[w].to}
     IN  walk' = [walk EXCEPT ![w].at = "pick", ![w].ids = {}, ![w].todo = ids,
                    ![w].seen = [s \in ids |-> [days |-> config[s], till |-> till[s]]]]
  /\ UNCHANGED <<data, now, lease, edits, troubles>>

\* Resume just past the watermark; `from` is still a floor.
Start(w, s) == IF walk[w].seen[s].till = 0 THEN walk[w].from
               ELSE Larger(walk[w].from, walk[w].seen[s].till + 1)

\* The existence check of the next schedule.
FindMissing(w) ==
  /\ Going(w, "pick")
  /\ \E s \in walk[w].todo :
       LET missing == (walk[w].seen[s].days \cap (Start(w, s)..walk[w].to)) \ duties[s]
       IN  walk' = [walk EXCEPT ![w].at = IF missing = {} THEN "mark" ELSE "latest",
                      ![w].todo = @ \ {s}, ![w].s = s, ![w].missing = missing,
                      ![w].start = Start(w, s), ![w].stop = walk[w].to]
  /\ UNCHANGED <<data, now, lease, edits, troubles>>

\* fetch_latest_waybill_fields.  Without a duty to copy, the watermark freezes before
\* the first day missing.
FindLatest(w) ==
  /\ Going(w, "latest")
  /\ LET s == walk[w].s
     IN  IF duties[s] # {} THEN Onward(w, "insert")
         ELSE walk' = [walk EXCEPT ![w].at = "mark", ![w].stop = Least(walk[w].missing) - 1,
                         ![w].missing = {}]
  /\ UNCHANGED <<data, now, lease, edits, troubles>>

\* Mutant of Insert: one chunk is all.
InsertOnce(w) ==
  /\ Going(w, "insert")
  /\ LET first == Least(walk[w].missing)
     IN  duties' = [duties EXCEPT ![walk[w].s] = @ \cup {first}]
  /\ walk' = [walk EXCEPT ![w].at = "mark", ![w].missing = {}]
  /\ UNCHANGED <<config, till, now, lease, edits, troubles, tainted>>

\* create_repeat_waybills_bulk, a chunk at a time; ON CONFLICT DO NOTHING.
Insert(w) ==
  /\ Going(w, "insert")
  /\ \E chunk \in SUBSET walk[w].missing :
       /\ chunk # {} /\ Cardinality(chunk) <= Batch
       /\ Cardinality(chunk) < Batch => chunk = walk[w].missing
       /\ \A d \in chunk, e \in walk[w].missing \ chunk : d < e
       /\ duties' = [duties EXCEPT ![walk[w].s] = @ \cup chunk]
       /\ walk' = [walk EXCEPT ![w].missing = @ \ chunk,
                     ![w].at = IF chunk = walk[w].missing THEN "mark" ELSE "insert"]
  /\ UNCHANGED <<config, till, now, lease, edits, troubles, tainted>>

\* What a walk may not know: an edit or a lost duty since it read the schedule, and
\* days between the watermark, or today, and its first day.
Groundless(w) ==
  LET s == walk[w].s
  IN  \/ s \in walk[w].stale
      \/ walk[w].start > Larger(now, walk[w].seen[s].till + 1)

\* The watermark moves over the days walked, if there are any, whatever became of it
\* and of the repeat since.
Mark(w) ==
  /\ Going(w, "mark")
  /\ LET s == walk[w].s
     IN  IF walk[w].start > walk[w].stop \/ walk[w].stop = walk[w].seen[s].till
         THEN UNCHANGED <<till, tainted>>
         ELSE /\ till' = [till EXCEPT ![s] = walk[w].stop]
              /\ tainted' = [tainted EXCEPT ![s] = @ \/ Groundless(w)]
  /\ walk' = [walk EXCEPT ![w] = [@ EXCEPT !.at = "pick", !.s = None, !.start = 0, !.stop = 0]]
  /\ UNCHANGED <<config, duties, now, lease, edits, troubles>>

\* A walk that is through: a person gets the answer, a sweep has its end to record.
Through(w) == IF w \in Pods THEN [walk[w] EXCEPT !.at = "record", !.seen = <<>>, !.stale = {}]
              ELSE Idle

EndWalk(w) ==
  /\ Going(w, "pick") /\ walk[w].todo = {}
  /\ walk' = [walk EXCEPT ![w] = Through(w)]
  /\ UNCHANGED <<data, now, lease, edits, troubles>>

\* An error ends the walk, the schedules it has not come to included.
Fail(w) ==
  /\ walk[w].at \in {"trips", "pick", "latest", "insert", "mark"} /\ troubles < MaxTroubles
  /\ troubles' = troubles + 1
  /\ walk' = [walk EXCEPT ![w] = Through(w)]
  /\ UNCHANGED <<data, now, lease, edits>>

-----------------------------------------------------------------------------
(* run_repeater_reconciler_tick                                             *)

\* Mutants of Claimable: any pod whose turn is due sweeps; a claim is never given up.
AlwaysClaimable == lease.due
NeverGivenUp == lease.due /\ (lease.claim = None \/ ~lease.running)
Claimable == lease.due /\ (lease.claim = None \/ ~lease.running \/ lease.stuck)

Sweep(p) ==
  /\ Going(p, "idle") /\ Claimable
  /\ lease' = [lease EXCEPT !.claim = p, !.running = TRUE, !.stuck = FALSE]
  /\ walk' = [walk EXCEPT ![p] = Walk(now, now + LookAhead, Schedules)]
  /\ UNCHANGED <<data, now, edits, troubles>>

\* last_run_at, fenced on the claim.  The sweep may have failed: it is over all the same.
Record(p) ==
  /\ Going(p, "record")
  /\ lease' = IF lease.claim = p THEN [lease EXCEPT !.running = FALSE, !.due = FALSE] ELSE lease
  /\ walk' = [walk EXCEPT ![p] = Idle]
  /\ UNCHANGED <<data, now, edits, troubles>>

Due ==
  /\ ~lease.due
  /\ lease' = [lease EXCEPT !.due = TRUE]
  /\ UNCHANGED <<data, now, walk, edits, troubles>>

\* stuck_lock_timeout_secs after a claim.
Stuck ==
  /\ lease.running /\ ~lease.stuck
  /\ lease' = [lease EXCEPT !.stuck = TRUE]
  /\ walk' = [walk EXCEPT ![lease.claim] = IF @ = Idle THEN Idle ELSE [@ EXCEPT !.late = TRUE]]
  /\ UNCHANGED <<data, now, edits, troubles>>

\* The pod ends with its walk; it comes back with none.
Die(p) ==
  /\ ~Going(p, "idle") /\ troubles < MaxTroubles
  /\ troubles' = troubles + 1
  /\ walk' = [walk EXCEPT ![p] = Idle]
  /\ UNCHANGED <<data, now, lease, edits>>

-----------------------------------------------------------------------------
(* What people do.                                                          *)

\* POST waybill-repeats/generate takes any range, for all schedules or some.
Generate(u, from, to, ids) ==
  /\ Going(u, "idle") /\ edits < MaxEdits
  /\ edits' = edits + 1
  /\ walk' = [walk EXCEPT ![u] = Walk(from, to, ids)]
  /\ UNCHANGED <<data, now, lease, troubles>>

Changed(s) ==
  walk' = [w \in Walkers |-> IF walk[w] # Idle /\ s \in DOMAIN walk[w].seen
                             THEN [walk[w] EXCEPT !.stale = @ \cup {s}] ELSE walk[w]]

\* set_schedule_trip_repeat_config: a changed window can bring days back that were
\* passed over, so the watermark goes.
SetConfig(s, c) ==
  /\ edits < MaxEdits
  /\ edits' = edits + 1
  /\ config' = [config EXCEPT ![s] = c]
  /\ till' = [till EXCEPT ![s] = 0]
  /\ tainted' = [tainted EXCEPT ![s] = FALSE]
  /\ Changed(s)
  /\ UNCHANGED <<duties, now, lease, troubles>>

\* A duty made by hand, or deleted.
AddDuty(s, d) ==
  /\ edits < MaxEdits /\ d \notin duties[s]
  /\ edits' = edits + 1
  /\ duties' = [duties EXCEPT ![s] = @ \cup {d}]
  /\ UNCHANGED <<config, till, now, lease, walk, troubles, tainted>>

DeleteDuty(s, d) ==
  /\ edits < MaxEdits /\ d \in duties[s]
  /\ edits' = edits + 1
  /\ duties' = [duties EXCEPT ![s] = @ \ {d}]
  /\ tainted' = [tainted EXCEPT ![s] = TRUE]
  /\ Changed(s)
  /\ UNCHANGED <<config, till, now, lease, troubles>>

Midnight ==
  /\ now < MaxDay
  /\ now' = now + 1
  /\ UNCHANGED <<data, lease, walk, edits, troubles>>

Step(w) ==
  ReadTrips(w) \/ FindMissing(w) \/ FindLatest(w) \/ Insert(w) \/ Mark(w) \/ EndWalk(w)

Next ==
  \/ \E w \in Walkers : Step(w) \/ Fail(w)
  \/ \E p \in Pods : Sweep(p) \/ Record(p) \/ Die(p)
  \/ Due \/ Stuck \/ Midnight
  \/ \E u \in Users, g \in Ranges, ids \in (SUBSET Schedules) \ {{}} : Generate(u, g[1], g[2], ids)
  \/ \E s \in Schedules :
       \/ \E c \in Configs : SetConfig(s, c)
       \/ \E d \in Days : AddDuty(s, d) \/ DeleteDuty(s, d)

\* Every pod's loop ticks, its statements end, and the clock runs.
Sweeps(p) == Step(p) \/ Record(p)
Fairness ==
  /\ \A p \in Pods : WF_vars(Sweeps(p))
  /\ WF_vars(\E p \in Pods : Sweep(p))
  /\ WF_vars(Due) /\ WF_vars(Stuck)

Spec == Init /\ [][Next]_vars /\ Fairness

-----------------------------------------------------------------------------
(* Properties.                                                              *)

TypeOK ==
  /\ config \in [Schedules -> Configs] /\ till \in [Schedules -> 0..(MaxDay + LookAhead)]
  /\ duties \in [Schedules -> SUBSET Days]
  /\ now \in 1..MaxDay /\ edits \in 0..MaxEdits /\ troubles \in 0..MaxTroubles
  /\ lease \in [claim: Pods \cup {None}, running: BOOLEAN, due: BOOLEAN, stuck: BOOLEAN]
  /\ \A u \in Users : walk[u].at # "record"

(* The watermark tells the truth: every day a schedule repeats on, from      *)
(* today to its watermark, has a duty, whoever walks and whatever fails half *)
(* way, unless a range skipped days, a duty was lost, or the repeat was      *)
(* edited under a walk.                                                      *)
WatermarkHonest ==
  \A s \in Schedules :
    ~tainted[s] /\ config[s] # Off =>
      config[s] \cap (now..till[s]) \subseteq duties[s]

(* Two sweeps run at once only if the first has outlived the stuck timeout.  *)
OneSweep ==
  \A p, q \in Pods :
    walk[p] # Idle /\ walk[q] # Idle /\ p # q => walk[p].late \/ walk[q].late

(* The reconciler "fills any missing occurrence": a day ahead that a         *)
(* schedule repeats on gets its duty, though pods die in mid-sweep with the  *)
(* lease, as long as the schedule has a duty to copy and an honest watermark.*)
Missing(s, d) == /\ config[s] # Off /\ d \in config[s] \ duties[s]
                 /\ d \in now..(now + LookAhead)
                 /\ duties[s] # {} /\ ~tainted[s]
EveryDayIsFilled ==
  []<>(\A s \in Schedules, d \in Days : ~Missing(s, d))
=============================================================================
