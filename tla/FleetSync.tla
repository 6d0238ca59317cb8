------------------------------ MODULE FleetSync -----------------------------
(***************************************************************************)
(* The pods of FeedPods with webhooks on: after its reloads each poll tick *)
(* writes the pod's heartbeat row and then decides, on every pod alike,    *)
(* whether the feed_in_sync webhook of the feed's version is due           *)
(* (src/services/webhook.rs; start_db_version_polling,                     *)
(* report_cache_state in src/services/gtfs_service.rs).                    *)
(*                                                                         *)
(* The windows are not measured: a heartbeat may go stale, a pod that has  *)
(* arrived may count as settled, and a version may have waited too long,   *)
(* at any time once the clock of each has started.  The webhook is taken   *)
(* to have been made while the feed was at version 1.                      *)
(***************************************************************************)
EXTENDS FeedPods, FiniteSets

(* A row of gtfs_pod_feed_state; fresh: updated_at is within the staleness  *)
(* window; settled: loaded_at is a settle window ago.                       *)
Beat == [known : BOOLEAN, boot : Nat, v : Nat, db : BOOLEAN,
         fresh : BOOLEAN, settled : BOOLEAN]

(* A dispatcher between its statements: the version it read and whether     *)
(* that had waited too long, then its verdict and the pods it counted.      *)
Decision == [at : {"none", "armed", "fire", "giveup"}, v : Nat, late : BOOLEAN,
             pods : SUBSET Pods]

\* a row of gtfs_webhook_delivery, or that there is none
Delivery == [state : {"none", "due", "abandoned"}, pods : SUBSET Pods]

VARIABLES
  boot,       \* PodIdentity.boot_id: a pod's lives, counted
  beat,       \* gtfs_pod_feed_state
  late,       \* the version moved give_up_after_seconds ago
  decision,   \* what each dispatcher holds
  delivery    \* gtfs_webhook_delivery, by feed_version (its unique index)

fleetVars == <<boot, beat, late, decision, delivery>>
vars == <<podVars, fleetVars>>

Silent == [known |-> FALSE, boot |-> 0, v |-> 0, db |-> FALSE,
           fresh |-> FALSE, settled |-> FALSE]
NoDecision == [at |-> "none", v |-> 0, late |-> FALSE, pods |-> {}]
NoDelivery == [state |-> "none", pods |-> {}]

FleetTypeOK ==
  /\ TypeOK
  /\ boot \in [Pods -> Nat] /\ beat \in [Pods -> Beat] /\ late \in BOOLEAN
  /\ decision \in [Pods -> Decision]
  /\ delivery \in [1 .. MaxVersion -> Delivery]

FleetInit ==
  /\ Init
  /\ boot = [p \in Pods |-> 0] /\ beat = [p \in Pods |-> Silent] /\ late = FALSE
  /\ decision = [p \in Pods |-> NoDecision]
  /\ delivery = [v \in 1 .. MaxVersion |-> NoDelivery]

-----------------------------------------------------------------------------
(* What FeedPods does, seen from here                                      *)

\* the feed row is touched: the give-up window starts again
Edited == Editor /\ late' = FALSE /\ UNCHANGED <<boot, beat, decision, delivery>>

PodMoves(p) == PodStep(p) \/ Refresh(p) \/ RefreshFails(p)

\* a new process has a new boot_id; its row stays as the old one left it
Moved(p) ==
  /\ PodMoves(p)
  /\ boot' = IF up[p] = "down" THEN [boot EXCEPT ![p] = @ + 1] ELSE boot
  /\ UNCHANGED <<beat, late, decision, delivery>>

Died(p) ==
  /\ Die(p)
  /\ decision' = [decision EXCEPT ![p] = NoDecision]
  /\ UNCHANGED <<boot, beat, late, delivery>>

-----------------------------------------------------------------------------
(* The rest of the tick                                                    *)
SamePod == <<db, up, served, live, work>>

\* mutant of Row: the version the pod was reaching for
RowReachedFor(p) ==
  LET v == IF live[p].v # 0 THEN live[p].v ELSE served[p].label
  IN  [known |-> TRUE, boot |-> boot[p], v |-> v, db |-> v # 0, fresh |-> TRUE,
       settled |-> beat[p].settled /\ beat[p].v = v /\ beat[p].boot = boot[p]]

\* heartbeat, for a feed that is loaded from the tables or that live_feeds names
Row(p) ==
  LET old == beat[p]
      v == served[p].label
  IN  [known |-> TRUE, boot |-> boot[p], v |-> v, db |-> v # 0, fresh |-> TRUE,
       settled |-> old.settled /\ old.v = v /\ old.boot = boot[p]]

Reports(p) == served[p].label # 0 \/ live[p].db

Heartbeat(p) ==
  /\ PollAt(p, "report") /\ PollTo(p, "tell")
  /\ \/ /\ beat' = IF Reports(p) THEN [beat EXCEPT ![p] = Row(p)] ELSE beat
        /\ UNCHANGED trouble
     \/ trouble < MaxTrouble /\ trouble' = trouble + 1 /\ UNCHANGED beat
  /\ UNCHANGED <<SamePod, boot, late, decision, delivery>>

Deciding(p, where) == PollAt(p, "tell") /\ decision[p].at = where

Decide(p, d) ==
  /\ decision' = [decision EXCEPT ![p] = d]
  /\ UNCHANGED <<SamePod, poll, trouble, boot, beat, late, delivery>>

SleepAgain(p) ==
  /\ PollTo(p, "sleep")
  /\ live' = [live EXCEPT ![p] = NoAnswer]
  /\ decision' = [decision EXCEPT ![p] = NoDecision]
  /\ UNCHANGED <<db, up, served, work, trouble, boot, beat, late>>

\* load_armed: the version, and since when
Arm(p) ==
  /\ Deciding(p, "none")
  /\ IF version > 1
     THEN Decide(p, [NoDecision EXCEPT !.at = "armed", !.v = version, !.late = late])
     ELSE SleepAgain(p) /\ UNCHANGED delivery

\* fleet_from: the rows that count
Fleet == {p \in Pods : beat[p].known /\ beat[p].fresh /\ beat[p].db}

Laggards(v) == {p \in Fleet : beat[p].v # v}

\* mutant of GivesUp: a fleet of nobody is waited for
GivesUpOnLaggards(d) == Laggards(d.v) # {} /\ d.late

\* in_sync_verdict
Fires(v) == Fleet # {} /\ Laggards(v) = {} /\ \A p \in Fleet : beat[p].settled
GivesUp(d) == (Fleet = {} \/ Laggards(d.v) # {}) /\ d.late

Judge(p) ==
  LET d == decision[p]
  IN  /\ Deciding(p, "armed")
      /\ IF Fires(d.v) THEN Decide(p, [d EXCEPT !.at = "fire", !.pods = Fleet])
         ELSE IF GivesUp(d) THEN Decide(p, [d EXCEPT !.at = "giveup"])
         ELSE SleepAgain(p) /\ UNCHANGED delivery

\* enqueue_one, abandon: ON CONFLICT DO NOTHING
Insert(v, row) == delivery' = IF delivery[v].state = "none"
                              THEN [delivery EXCEPT ![v] = row] ELSE delivery

\* mutant of Enqueue: the verdict is written as the status
EnqueueVerdict(p) ==
  LET d == decision[p]
  IN  /\ PollAt(p, "tell") /\ d.at \in {"fire", "giveup"}
      /\ Insert(d.v, [state |-> d.at, pods |-> d.pods]) /\ SleepAgain(p)

Enqueue(p) ==
  LET d == decision[p]
      row == [state |-> IF d.at = "fire" THEN "due" ELSE "abandoned", pods |-> d.pods]
  IN  /\ PollAt(p, "tell") /\ d.at \in {"fire", "giveup"}
      /\ Insert(d.v, row) /\ SleepAgain(p)

-----------------------------------------------------------------------------
(* Time                                                                    *)
Clock == <<podVars, boot, decision, delivery>>

\* a pod judges at once after it reports, so never finds its own row stale
Fade(p) ==
  /\ beat[p].fresh /\ poll[p] # "tell"
  /\ beat' = [beat EXCEPT ![p].fresh = FALSE]
  /\ UNCHANGED <<Clock, late>>

Settle(p) ==
  /\ beat[p].known /\ ~beat[p].settled
  /\ beat' = [beat EXCEPT ![p].settled = TRUE]
  /\ UNCHANGED <<Clock, late>>

WaitTooLong == ~late /\ version > 1 /\ late' = TRUE /\ UNCHANGED <<Clock, beat>>

Tell(p) == Heartbeat(p) \/ Arm(p) \/ Judge(p) \/ Enqueue(p)

FleetNext ==
  \/ Edited \/ WaitTooLong
  \/ \E p \in Pods : Moved(p) \/ Died(p) \/ Tell(p) \/ Fade(p) \/ Settle(p)

FleetFairness ==
  /\ WF_vars(WaitTooLong)
  /\ \A p \in Pods : PodFairness(p) /\ WF_vars(Tell(p)) /\ WF_vars(Settle(p))

FleetSpec == FleetInit /\ [][FleetNext]_vars
FairFleetSpec == FleetSpec /\ FleetFairness

-----------------------------------------------------------------------------
(* The downstream cache is rebuilt from no older data: a pod counted for a  *)
(* version serves, from then on, that version or a later one, or else the   *)
(* preprocessed data (in_sync_verdict, heartbeat).                          *)
CountedPodsAreThere ==
  \A v \in 1 .. MaxVersion :
    delivery[v].state = "due" =>
      /\ delivery[v].pods # {}
      /\ \A p \in delivery[v].pods : served[p].label # 0 => served[p].label >= v

(* The version the feed stays at is delivered or given up in the end: no    *)
(* dead, silent, lagging or restarting pod holds it back for ever.          *)
LastVersionIsAnswered ==
  \A v \in 2 .. MaxVersion : <>[](version = v) => <>(delivery[v].state # "none")

(* "a restarted pod that has not finished loading is never mistaken for the *)
(* old one that had": the rows a verdict to fire counts were written by the *)
(* processes that run when it is reached.                                   *)
RestartedPodNotMistaken ==
  [][\A p \in Pods :
       decision[p].at # "fire" /\ decision'[p].at = "fire" =>
         \A q \in decision'[p].pods : beat[q].boot = boot[q]]_vars
=============================================================================
