------------------------------ MODULE Waybills ------------------------------
(***************************************************************************)
(* A crew's duties, src/src/services/fleet_operator.rs, and the            *)
(* dashboard's writes to them, src/src/services/operator.rs.               *)
(*                                                                         *)
(* A waybill is one duty: a crew and a vehicle, a day, and the trips of a  *)
(* schedule (or, flexi, trips of its own).  Which trip runs and which are  *)
(* done is written on the trips, which all waybills of a schedule share.   *)
(* No handler uses a transaction: every statement is a step of its own,    *)
(* and requests of the driver, the conductor and the dashboard interleave. *)
(* The feed is one for which repeater_automation_enabled.                  *)
(***************************************************************************)
EXTENDS Naturals, FiniteSets

CONSTANTS
  Waybills,    \* ids of waybills, there or to come
  Schedules,   \* schedule_trip_ids
  Repeating,   \* the schedules whose repeat is active (on every day)
  Anchors,     \* driver tokens, conductor tokens and vehicle numbers
  Trips,       \* trip_numbers
  Real,        \* by schedule or flexi waybill: the trips neither dead nor inactive
  FirstRows,   \* the waybills there at first: one of these
  Requests,    \* requests under way at once
  Swaps,       \* crews and vehicles the dashboard may put on a waybill
  HandStatuses,\* statuses the dashboard sets
  HandTrips,   \* the schedules and flexi waybills whose trips' rows it may write
  MaxHand,     \* bound: writes of the dashboard
  MaxDay,      \* bound: days
  None         \* no waybill

Statuses == {"online", "upcoming", "new", "processed", "audited", "closed"}
Settled  == {"closed", "audited"}

Row   == [status: Statuses, sched: Schedules, day: 1..MaxDay,
          who: SUBSET Anchors, flexi: BOOLEAN]
NoRow == [status |-> "none"]
Keys  == Schedules \cup Waybills

Acts  == {"look", "start", "end", "reset", "rollback"}
\* Where a request stands: the statement it runs next.
Idle  == [at |-> "idle"]
Busy  == [at: {"resolve", "upcoming", "tripOnline", "crewOnline", "clean", "online",
               "apply", "close", "handBack", "successor", "insert", "resetTrips"},
          act: Acts \cup {"status"}, anchor: Anchors \cup {None}, n: Trips \cup {0},
          w: Waybills \cup {None}]

VARIABLES
  row,      \* waybills_internal
  active,   \* is_active_trip, by schedule or flexi waybill
  done,     \* is_completed
  byHand,   \* history: whose trips a person has said run, and not been wiped since
  today,    \* the day in IST
  hand,     \* how often the dashboard has written
  req,      \* the requests
  overlap   \* history: a duty went online in ways its checks cannot see

vars == <<row, active, done, byHand, today, hand, req, overlap>>

There     == {w \in Waybills : row[w].status # "none"}
Key(w)    == IF row[w].flexi THEN w ELSE row[w].sched
Online    == {w \in There : row[w].status = "online"}

\* uq_waybills_schedule_trip_duty_date_active
Clash(w, r) ==
  \E v \in There \ {w} : /\ r.status \notin Settled /\ row[v].status \notin Settled
                         /\ row[v].sched = r.sched /\ row[v].day = r.day

Init ==
  /\ row \in FirstRows
  /\ active = [k \in Keys |-> {}]
  /\ done = [k \in Keys |-> {}]
  /\ byHand = {}
  /\ today = 1
  /\ hand = 0
  /\ req = [r \in Requests |-> Idle]
  /\ overlap = FALSE

-----------------------------------------------------------------------------
(* A request of the crew.  Of several waybills that fit, the code takes the  *)
(* one updated last; here it may be any.                                     *)

InFlip(q)     == q.at \in {"upcoming", "tripOnline", "crewOnline", "clean", "online"}
Others(r)     == \E o \in Requests \ {r} : req[o].at # "idle"
SomebodyFlips == \E r \in Requests : InFlip(req[r])

Moves(r, to)  == req' = [req EXCEPT ![r].at = to]
Ends(r)       == req' = [req EXCEPT ![r] = Idle]

Call(r, act, a, n) ==
  /\ req[r].at = "idle"
  /\ req' = [req EXCEPT ![r] = [at |-> "resolve", act |-> act, anchor |-> a, n |-> n, w |-> None]]
  /\ overlap' = (overlap \/ SomebodyFlips)
  /\ UNCHANGED <<row, active, done, byHand, today, hand>>

\* validate_trip_exists, which every action but a reset has to pass.
Exists(q, w) == q.act \in {"look", "reset"} \/ q.n \in Real[Key(w)]
\* What a request whose waybill is known goes on to: the answer, a 404, or the action.
Onward(r, w) ==
  req' = [req EXCEPT ![r] = IF @.act = "look" \/ ~Exists(@, w) THEN Idle
                            ELSE [@ EXCEPT !.at = "apply", !.w = w, !.anchor = None]]

Resolve(r) ==
  /\ req[r].at = "resolve"
  /\ LET mine == {w \in Online : req[r].anchor \in row[w].who}
     IN  IF mine = {} THEN Moves(r, "upcoming") ELSE \E w \in mine : Onward(r, w)
  /\ UNCHANGED <<row, active, done, byHand, today, hand, overlap>>

FindUpcoming(r) ==
  /\ req[r].at = "upcoming"
  /\ LET due == {w \in There : /\ row[w].status = "upcoming" /\ row[w].day = today
                               /\ req[r].anchor \in row[w].who}
     IN  IF due = {} THEN Ends(r)
         ELSE \E w \in due :
                req' = [req EXCEPT ![r].w = w, ![r].anchor = None,
                          ![r].at = IF row[w].flexi THEN "crewOnline" ELSE "tripOnline"]
  /\ overlap' = (overlap \/ Others(r))
  /\ UNCHANGED <<row, active, done, byHand, today, hand>>

\* The schedule's trips are shared: no other waybill may be online on them.
CheckTrip(r) ==
  /\ req[r].at = "tripOnline"
  /\ IF \E v \in Online : row[v].sched = row[req[r].w].sched
     THEN Ends(r) ELSE Moves(r, "crewOnline")
  /\ UNCHANGED <<row, active, done, byHand, today, hand, overlap>>

\* Mutant of CheckCrew: the crew is not looked at.
CheckNobody(r) ==
  /\ req[r].at = "crewOnline"
  /\ Moves(r, "clean")
  /\ UNCHANGED <<row, active, done, byHand, today, hand, overlap>>

CheckCrew(r) ==
  /\ req[r].at = "crewOnline"
  /\ IF \E v \in Online \ {req[r].w} : row[v].who \cap row[req[r].w].who # {}
     THEN Ends(r) ELSE Moves(r, "clean")
  /\ UNCHANGED <<row, active, done, byHand, today, hand, overlap>>

Wipe(k) ==
  /\ active' = [active EXCEPT ![k] = {}]
  /\ done' = [done EXCEPT ![k] = {}]
  /\ byHand' = byHand \ {k}

\* Mutant of Clean: only the trip that runs is reset.
CleanActive(r) ==
  /\ req[r].at = "clean"
  /\ active' = [active EXCEPT ![Key(req[r].w)] = {}]
  /\ Moves(r, "online")
  /\ UNCHANGED <<row, done, byHand, today, hand, overlap>>

\* Yesterday's flags must not leak into today's duty.
Clean(r) ==
  /\ req[r].at = "clean"
  /\ Wipe(Key(req[r].w))
  /\ Moves(r, "online")
  /\ UNCHANGED <<row, today, hand, overlap>>

\* The UPDATE looks at the id alone, whatever became of the row since.
Online1(r) ==
  /\ req[r].at = "online"
  /\ LET w == req[r].w
         new == [row[w] EXCEPT !.status = "online"]
     IN  IF Clash(w, new)
         THEN Ends(r) /\ UNCHANGED row
         ELSE /\ row' = [row EXCEPT ![w] = new]
              /\ Onward(r, w)
  /\ UNCHANGED <<active, done, byHand, today, hand, overlap>>

-----------------------------------------------------------------------------
(* apply_trip_action: one UPDATE over the trips; after an end, the closing. *)

\* Mutant of StartedDone: a trip started again stays completed.
StartedDoneAfter(k, D, n) == D \ {m \in Real[k] : m > n}
StartedDone(k, D, n)      == D \ {m \in Real[k] : m >= n}
\* Start looks at running trips only; a row of another kind keeps its flag.
StartedActive(k, A, n)    == (A \ Real[k]) \cup {n}
EndedDone(w, A, D, n)     == IF n \in A /\ ~row[w].flexi THEN D \cup {n} ELSE D

LastTrip(k, n) == \A m \in Real[k] : m <= n

Apply(r) ==
  LET q == req[r]
      k == Key(q.w)
      A == active[k]
      D == done[k]
      Sets(newA, newD) == /\ active' = [active EXCEPT ![k] = newA]
                          /\ done' = [done EXCEPT ![k] = newD]
                          /\ UNCHANGED byHand
  IN  /\ q.at = "apply"
      /\ CASE q.act = "start"    -> Sets(StartedActive(k, A, q.n), StartedDone(k, D, q.n))
           [] q.act = "end"      -> Sets({}, EndedDone(q.w, A, D, q.n))
           [] q.act = "reset"    -> Wipe(k)
           [] q.act = "rollback" -> Sets(A \ {q.n}, D \ {q.n})
      /\ IF q.act = "end" /\ LastTrip(k, q.n)
         THEN req' = [req EXCEPT ![r].at = "close", ![r].n = 0]
         ELSE Ends(r)
      /\ UNCHANGED <<row, today, hand, overlap>>

\* close_waybill_after_last_trip, best effort: an error ends it, and the successor
\* is seen to all the same.
Close(r) ==
  /\ req[r].at = "close"
  /\ row' = [row EXCEPT ![req[r].w].status = "audited"]
  /\ Moves(r, "handBack")
  /\ UNCHANGED <<active, done, byHand, today, hand, overlap>>

HandBack(r) ==
  /\ req[r].at = "handBack"
  /\ Wipe(Key(req[r].w))
  /\ Moves(r, "successor")
  /\ UNCHANGED <<row, today, hand, overlap>>

CloseFails(r) ==
  /\ req[r].at \in {"close", "handBack"}
  /\ Moves(r, "successor")
  /\ UNCHANGED <<row, active, done, byHand, today, hand, overlap>>

\* create_successor_if_repeat_active: its checks, and the insert.  The next flagged
\* day is the next one.
Successor(r) ==
  /\ req[r].at = "successor"
  /\ LET w == row[req[r].w]
     IN  IF \/ w.flexi
            \/ w.sched \notin Repeating
            \/ w.day = MaxDay
            \/ \E v \in There : row[v].sched = w.sched /\ row[v].day = w.day + 1
         THEN Ends(r) ELSE Moves(r, "insert")
  /\ UNCHANGED <<row, active, done, byHand, today, hand, overlap>>

\* fetch_latest_waybill_fields: the crew of the schedule's latest duty.
LatestDuty(s) == {v \in There : row[v].sched = s
                    /\ \A u \in There : row[u].sched = s => row[u].day <= row[v].day}
NextDuty(w, l) == [row[w] EXCEPT !.day = @ + 1, !.status = "upcoming", !.who = row[l].who]

\* INSERT ... ON CONFLICT DO NOTHING
Insert(r) ==
  /\ req[r].at = "insert"
  /\ IF Clash(None, NextDuty(req[r].w, req[r].w))
     THEN UNCHANGED row
     ELSE \E v \in Waybills \ There, l \in LatestDuty(row[req[r].w].sched) :
            /\ row' = [row EXCEPT ![v] = NextDuty(req[r].w, l)]
  /\ Ends(r)
  /\ UNCHANGED <<active, done, byHand, today, hand, overlap>>

-----------------------------------------------------------------------------
(* The dashboard.                                                           *)

\* update_waybill_status and _v2: the status, then, for a settled status or on
\* demand, the flags of the schedule's trips.  Nothing is checked.
SetStatus(r, w, s, reset) ==
  /\ req[r].at = "idle" /\ hand < MaxHand
  /\ ~Clash(w, [row[w] EXCEPT !.status = s])
  /\ row' = [row EXCEPT ![w].status = s]
  /\ hand' = hand + 1
  /\ req' = [req EXCEPT ![r] = IF ~reset THEN Idle
               ELSE [at |-> "resetTrips", act |-> "status", anchor |-> None, n |-> 0,
                     w |-> w]]
  /\ overlap' = (overlap \/ s = "online" \/ SomebodyFlips)
  /\ UNCHANGED <<active, done, byHand, today>>

\* It goes by the schedule, also for a flexi waybill, whose trips are elsewhere.
ResetTrips(r) ==
  /\ req[r].at = "resetTrips"
  /\ Wipe(row[req[r].w].sched)
  /\ Ends(r)
  /\ UNCHANGED <<row, today, hand, overlap>>

\* update_waybill_details and update_waybill_fleet_number: another crew or vehicle.
SetDetails(r, w, who) ==
  /\ req[r].at = "idle" /\ hand < MaxHand
  /\ row' = [row EXCEPT ![w].who = who]
  /\ hand' = hand + 1
  /\ overlap' = (overlap \/ row[w].status = "online" \/ SomebodyFlips)
  /\ UNCHANGED <<active, done, byHand, today, req>>

\* The generic upsert of a trip's row, which has is_active_trip among its columns.
UpsertTrip(k, n, runs) ==
  /\ hand < MaxHand
  /\ active' = [active EXCEPT ![k] = IF runs THEN @ \cup {n} ELSE @ \ {n}]
  /\ byHand' = byHand \cup {k}
  /\ hand' = hand + 1
  /\ overlap' = (overlap \/ SomebodyFlips)
  /\ UNCHANGED <<row, done, today, req>>

Midnight ==
  /\ today < MaxDay
  /\ today' = today + 1
  /\ UNCHANGED <<row, active, done, byHand, hand, req, overlap>>

\* The pod dies, or a statement fails: what was done stays done.
Fails(r) ==
  /\ req[r].at # "idle"
  /\ Ends(r)
  /\ UNCHANGED <<row, active, done, byHand, today, hand, overlap>>

\* A token no waybill has finds nothing, and a trip none has does what a look does.
Next ==
  \/ \E r \in Requests :
       \/ \E act \in Acts, a \in UNION {row[w].who : w \in There} :
            \E n \in IF act \in {"look", "reset"} THEN {0} ELSE UNION {Real[Key(w)] : w \in There} :
              Call(r, act, a, n)
       \/ Resolve(r) \/ FindUpcoming(r) \/ CheckTrip(r) \/ CheckCrew(r)
       \/ Clean(r) \/ Online1(r) \/ Apply(r)
       \/ Close(r) \/ HandBack(r) \/ CloseFails(r) \/ Successor(r) \/ Insert(r)
       \/ \E w \in There, s \in HandStatuses, reset \in BOOLEAN : SetStatus(r, w, s, reset)
       \/ ResetTrips(r)
       \/ \E w \in There, who \in Swaps : SetDetails(r, w, who)
       \/ Fails(r)
  \/ \E k \in HandTrips : \E n \in Real[k], runs \in BOOLEAN : UpsertTrip(k, n, runs)
  \/ Midnight

-----------------------------------------------------------------------------
(* Properties.                                                              *)

TypeOK ==
  /\ row \in [Waybills -> Row \cup {NoRow}]
  /\ active \in [Keys -> SUBSET Trips] /\ done \in [Keys -> SUBSET Trips]
  /\ byHand \subseteq Keys
  /\ today \in 1..MaxDay /\ hand \in 0..MaxHand /\ overlap \in BOOLEAN
  /\ req \in [Requests -> Busy \cup {Idle}]
  /\ \A r \in Requests : req[r].at \notin {"idle", "resolve", "upcoming"} => req[r].w \in There

(* Whatever the driver and the conductor send and the dashboard does to a    *)
(* duty, in whatever order and however their statements interleave: at most  *)
(* one trip of a schedule runs, and the trips done all come before it.  But  *)
(* a person who writes the trips' own rows can have it otherwise, until the  *)
(* flags are wiped (upsert_one_row checks no trip against another).          *)
TripsInOrder ==
  \A k \in Keys \ byHand : \A n \in active[k] : active[k] = {n} /\ \A m \in done[k] : m < n

(* No crew, vehicle or schedule is on two duties at once, unless requests    *)
(* overlapped or the dashboard put it there: the check of                    *)
(* resolve_and_flip_upcoming_waybill is enough for requests one at a time.   *)
OneDutyAtATime ==
  ~overlap => \A v, w \in Online :
                v # w => /\ row[v].who \cap row[w].who = {}
                         /\ row[v].sched = row[w].sched => row[v].flexi \/ row[w].flexi

(* Nothing of an earlier duty shows on one that goes online: its trips have  *)
(* neither run nor been completed.                                           *)
GoesOnlineFresh ==
  ~overlap' => \A w \in Online' \ Online : active'[Key(w)] = {} /\ done'[Key(w)] = {}
FreshDuty == [][GoesOnlineFresh]_vars

Spec == Init /\ [][Next]_vars
=============================================================================
