------------------------------ MODULE FeedPods ------------------------------
(***************************************************************************)
(* How the pods follow one feed: each holds it in memory, built from the   *)
(* editor's tables or from the preprocessed files, and swaps in a new copy *)
(* when the database says so (src/services/gtfs_service.rs,                *)
(* src/services/gtfs_db_source.rs).                                        *)
(*                                                                         *)
(* In a pod run the version poll and the full refresh (start_polling, or   *)
(* POST force-refresh), one at a time under reload_lock, and the load at   *)
(* boot, before either.  A load is several statements with no transaction  *)
(* around them: gtfs_feed first, then the rows, of which two tables stand  *)
(* for all.  The database may fail under any of them and a pod may die at  *)
(* any point.                                                              *)
(***************************************************************************)
EXTENDS Integers

CONSTANTS
  Pods,
  Listed,       \* the feed is in gtfs_db_feeds, the static list
  InitSource,   \* what its gtfs_feed row says at first; "none": there is no row
  Refreshing,   \* full refreshes run
  MaxVersion,   \* bound: gtfs_feed.version
  MaxTrouble    \* bound: failed loads and dead pods, together

Sources == {"none", "db", "preprocessed"}

ASSUME ConfigAssumption ==
  Listed \in BOOLEAN /\ Refreshing \in BOOLEAN /\ InitSource \in Sources
ASSUME BoundsAssumption == MaxVersion \in Nat /\ MaxTrouble \in Nat

Tasks == {"boot", "poll", "refresh"}

(* A copy of the feed: the version it is labelled with (db_feed_versions;   *)
(* 0: none, it is the preprocessed one) and the version each table was read *)
(* at.                                                                      *)
Copy == [label : Nat, routes : Nat, stops : Nat]
Preprocessed == [label |-> 0, routes |-> 0, stops |-> 0]

\* what live_feeds answered: the feed is to be served from the tables, at v (0: no row)
Answer == [db : BOOLEAN, v : Nat]

VARIABLES
  source, version,   \* gtfs_feed
  up,                \* each pod: down, booting or serving
  served,            \* GTFSService.data: what requests are answered from
  poll,              \* where the poll loop is
  live,              \* what it last read, before it took the lock
  lock,              \* reload_lock
  step, build,       \* where each task's load is, and the copy it has so far
  trouble            \* failed loads and dead pods so far

db == <<source, version>>
work == <<lock, step, build>>
podVars == <<db, up, served, poll, live, work, trouble>>

TypeOK ==
  /\ source \in Sources /\ version \in Nat
  /\ up \in [Pods -> {"down", "booting", "serving"}]
  /\ served \in [Pods -> Copy]
  /\ poll \in [Pods -> {"sleep", "plan", "reload", "loading", "revert", "report", "tell"}]
  /\ live \in [Pods -> Answer]
  /\ lock \in [Pods -> {"free", "poll", "refresh"}]
  /\ step \in [Pods -> [Tasks -> {"none", "version", "routes", "stops", "swap"}]]
  /\ build \in [Pods -> [Tasks -> Copy]]
  /\ trouble \in 0 .. MaxTrouble

NoStep == [t \in Tasks |-> "none"]
NoBuild == [t \in Tasks |-> Preprocessed]
NoAnswer == [db |-> FALSE, v |-> 0]

Init ==
  /\ source = InitSource /\ version = IF InitSource = "none" THEN 0 ELSE 1
  /\ up = [p \in Pods |-> "down"]
  /\ served = [p \in Pods |-> Preprocessed]
  /\ poll = [p \in Pods |-> "sleep"]
  /\ live = [p \in Pods |-> NoAnswer]
  /\ lock = [p \in Pods |-> "free"]
  /\ step = [p \in Pods |-> NoStep]
  /\ build = [p \in Pods |-> NoBuild]
  /\ trouble = 0

-----------------------------------------------------------------------------
(* The database, moved by the editor                                       *)

\* the first import of a feed makes its row
CreateFeed ==
  /\ source = "none" /\ version < MaxVersion
  /\ source' = "preprocessed" /\ version' = 1
  /\ UNCHANGED <<up, served, poll, live, work, trouble>>

\* a commit moves the rows and the version in one transaction; a feed_config
\* change in it moves data_source too
CommitVersion(src) ==
  /\ source # "none" /\ version < MaxVersion
  /\ source' = src /\ version' = version + 1
  /\ UNCHANGED <<up, served, poll, live, work, trouble>>

-----------------------------------------------------------------------------
(* load_feed, by whichever task                                            *)

ReadVersion(p, t) ==
  /\ step[p][t] = "version" /\ source # "none"
  /\ build' = [build EXCEPT ![p][t].label = version]
  /\ step' = [step EXCEPT ![p][t] = "routes"]
  /\ UNCHANGED <<db, up, served, poll, live, lock, trouble>>

ReadRoutes(p, t) ==
  /\ step[p][t] = "routes"
  /\ build' = [build EXCEPT ![p][t].routes = version]
  /\ step' = [step EXCEPT ![p][t] = "stops"]
  /\ UNCHANGED <<db, up, served, poll, live, lock, trouble>>

\* mutant of ReadStops: the version is read again at the end
ReadStopsThenVersion(p, t) ==
  /\ step[p][t] = "stops"
  /\ build' = [build EXCEPT ![p][t].stops = version, ![p][t].label = version]
  /\ step' = [step EXCEPT ![p][t] = "swap"]
  /\ UNCHANGED <<db, up, served, poll, live, lock, trouble>>

ReadStops(p, t) ==
  /\ step[p][t] = "stops"
  /\ build' = [build EXCEPT ![p][t].stops = version]
  /\ step' = [step EXCEPT ![p][t] = "swap"]
  /\ UNCHANGED <<db, up, served, poll, live, lock, trouble>>

\* the feed has no row, or a statement fails
LoadFails(p, t) ==
  \/ step[p][t] = "version" /\ source = "none" /\ UNCHANGED trouble
  \/ /\ step[p][t] \in {"version", "routes", "stops"}
     /\ trouble < MaxTrouble /\ trouble' = trouble + 1

Free(p, t) == lock' = [lock EXCEPT ![p] = IF @ = t THEN "free" ELSE @]
Ended(p, t) ==
  /\ step' = [step EXCEPT ![p][t] = "none"]
  /\ build' = [build EXCEPT ![p][t] = Preprocessed]
  /\ Free(p, t)

-----------------------------------------------------------------------------
(* Boot: load_initial_data, before any other task of the pod               *)

\* overlay_db_feeds goes by the static list, and by nothing else
FirstStep == IF Listed THEN "version" ELSE "swap"

Boot(p) ==
  /\ up[p] = "down"
  /\ up' = [up EXCEPT ![p] = "booting"]
  /\ step' = [step EXCEPT ![p]["boot"] = FirstStep]
  /\ UNCHANGED <<db, served, poll, live, lock, build, trouble>>

\* "serving its preprocessed data until the next poll"
FallBack(p, t) ==
  /\ t \in {"boot", "refresh"} /\ LoadFails(p, t)
  /\ build' = [build EXCEPT ![p][t] = Preprocessed]
  /\ step' = [step EXCEPT ![p][t] = "swap"]
  /\ UNCHANGED <<db, up, served, poll, live, lock>>

Booted(p) ==
  /\ step[p]["boot"] = "swap"
  /\ up' = [up EXCEPT ![p] = "serving"]
  /\ served' = [served EXCEPT ![p] = build[p]["boot"]]
  /\ Ended(p, "boot")
  /\ UNCHANGED <<db, poll, live, trouble>>

-----------------------------------------------------------------------------
(* The version poll: start_db_version_polling                              *)
PollAt(p, where) == up[p] = "serving" /\ poll[p] = where
PollTo(p, where) == poll' = [poll EXCEPT ![p] = where]

\* mutant of PollRead: a feed without a row is at version -1
PollReadNoRow(p) ==
  /\ PollAt(p, "sleep") /\ PollTo(p, "plan")
  /\ live' = [live EXCEPT ![p] = [db |-> source # "preprocessed",
                                  v |-> IF source = "none" THEN -1 ELSE version]]
  /\ UNCHANGED <<db, up, served, work, trouble>>

\* live_feeds, merge_live_feeds: the row wins over the static list
PollRead(p) ==
  /\ PollAt(p, "sleep") /\ PollTo(p, "plan")
  /\ live' = [live EXCEPT ![p] = [db |-> source = "db" \/ (source = "none" /\ Listed),
                                  v |-> IF source = "db" THEN version ELSE 0]]
  /\ UNCHANGED <<db, up, served, work, trouble>>

\* plan_feed_actions, from an answer and a copy that may both have moved on since
UpToDate(p) == served[p].label # 0 /\ live[p].v # 0 /\ served[p].label = live[p].v

PollPlan(p) ==
  /\ PollAt(p, "plan")
  /\ PollTo(p, CASE live[p].db /\ ~UpToDate(p) -> "reload"
                 [] ~live[p].db /\ served[p].label # 0 -> "revert"
                 [] OTHER -> "report")
  /\ UNCHANGED <<db, up, served, live, work, trouble>>

Reload(p) ==
  /\ PollAt(p, "reload") /\ lock[p] = "free" /\ PollTo(p, "loading")
  /\ lock' = [lock EXCEPT ![p] = "poll"]
  /\ step' = [step EXCEPT ![p]["poll"] = "version"]
  /\ UNCHANGED <<db, up, served, live, build, trouble>>

Reloaded(p) ==
  /\ PollAt(p, "loading") /\ step[p]["poll"] = "swap" /\ PollTo(p, "report")
  /\ served' = [served EXCEPT ![p] = build[p]["poll"]]
  /\ Ended(p, "poll")
  /\ UNCHANGED <<db, up, live, trouble>>

\* mutant of ReloadFails: the lock is kept
ReloadFailsLocked(p) ==
  /\ PollAt(p, "loading") /\ LoadFails(p, "poll") /\ PollTo(p, "report")
  /\ step' = [step EXCEPT ![p]["poll"] = "none"]
  /\ UNCHANGED <<db, up, served, live, lock, build>>

\* "keeping the data it had"
ReloadFails(p) ==
  /\ PollAt(p, "loading") /\ LoadFails(p, "poll") /\ PollTo(p, "report")
  /\ Ended(p, "poll")
  /\ UNCHANGED <<db, up, served, live>>

\* revert_db_feed_to_preprocessed reads files only; it may find none for the feed
Revert(p) ==
  /\ PollAt(p, "revert") /\ lock[p] = "free" /\ PollTo(p, "report")
  /\ \/ served' = [served EXCEPT ![p] = Preprocessed] /\ UNCHANGED trouble
     \/ trouble < MaxTrouble /\ trouble' = trouble + 1 /\ UNCHANGED served
  /\ UNCHANGED <<db, up, live, work>>

\* the end of a tick, with the webhook policy off
EndTick(p) ==
  /\ PollAt(p, "report") /\ PollTo(p, "sleep")
  /\ live' = [live EXCEPT ![p] = NoAnswer]
  /\ UNCHANGED <<db, up, served, work, trouble>>

-----------------------------------------------------------------------------
(* The full refresh: update_data rebuilds everything as a boot would       *)
\* mutant of Refresh: it does not take the lock
RefreshUnlocked(p) ==
  /\ Refreshing /\ up[p] = "serving" /\ step[p]["refresh"] = "none"
  /\ step' = [step EXCEPT ![p]["refresh"] = FirstStep]
  /\ UNCHANGED <<db, up, served, poll, live, lock, build, trouble>>

Refresh(p) ==
  /\ Refreshing /\ up[p] = "serving" /\ lock[p] = "free"
  /\ lock' = [lock EXCEPT ![p] = "refresh"]
  /\ step' = [step EXCEPT ![p]["refresh"] = FirstStep]
  /\ UNCHANGED <<db, up, served, poll, live, build, trouble>>

\* data_hash: of the routes, and of the version of a feed from the tables
Hash(copy) == <<copy.label, copy.routes>>

\* check_for_changes: nothing is swapped in when no feed's hash differs
Refreshed(p) ==
  /\ step[p]["refresh"] = "swap"
  /\ \/ served' = [served EXCEPT ![p] = build[p]["refresh"]]
     \/ Hash(build[p]["refresh"]) = Hash(served[p]) /\ UNCHANGED served
  /\ Ended(p, "refresh")
  /\ UNCHANGED <<db, up, poll, live, trouble>>

\* the preprocessed files or another source cannot be read
RefreshFails(p) ==
  /\ step[p]["refresh"] \in {"version", "swap"}
  /\ trouble < MaxTrouble /\ trouble' = trouble + 1
  /\ Ended(p, "refresh")
  /\ UNCHANGED <<db, up, served, poll, live>>

-----------------------------------------------------------------------------
Die(p) ==
  /\ up[p] # "down" /\ trouble < MaxTrouble
  /\ up' = [up EXCEPT ![p] = "down"]
  /\ served' = [served EXCEPT ![p] = Preprocessed]
  /\ poll' = [poll EXCEPT ![p] = "sleep"]
  /\ live' = [live EXCEPT ![p] = NoAnswer]
  /\ lock' = [lock EXCEPT ![p] = "free"]
  /\ step' = [step EXCEPT ![p] = NoStep]
  /\ build' = [build EXCEPT ![p] = NoBuild]
  /\ trouble' = trouble + 1
  /\ UNCHANGED db

Load(p) ==
  \E t \in Tasks : ReadVersion(p, t) \/ ReadRoutes(p, t) \/ ReadStops(p, t) \/ FallBack(p, t)

\* what a pod does of itself, up to the end of the poll's reloads
PodStep(p) ==
  \/ Boot(p) \/ Booted(p) \/ Load(p)
  \/ PollRead(p) \/ PollPlan(p) \/ Reload(p) \/ Reloaded(p) \/ ReloadFails(p) \/ Revert(p)
  \/ Refreshed(p)

Editor == CreateFeed \/ \E src \in {"db", "preprocessed"} : CommitVersion(src)

Next == Editor \/ \E p \in Pods : PodStep(p) \/ EndTick(p) \/ Refresh(p) \/ RefreshFails(p) \/ Die(p)

(* The poll loop goes round for ever and tokio's mutex is handed out in     *)
(* order, so a reload that asks for it gets it; the loads it waits for end. *)
PodFairness(p) ==
  /\ WF_podVars(Boot(p)) /\ WF_podVars(Booted(p)) /\ WF_podVars(Refreshed(p))
  /\ WF_podVars(Load(p))
  /\ WF_podVars(PollRead(p)) /\ WF_podVars(PollPlan(p))
  /\ SF_podVars(Reload(p)) /\ SF_podVars(Revert(p))
  /\ WF_podVars(Reloaded(p) \/ ReloadFails(p)) /\ WF_podVars(EndTick(p))

Spec == Init /\ [][Next]_podVars
FairSpec == Spec /\ \A p \in Pods : PodFairness(p)

-----------------------------------------------------------------------------
(* A copy claims no more than it holds (load_feed): each table was read at  *)
(* the labelled version or later.  So a copy labelled with the version of   *)
(* the feed is that version, whole: an edit committed in the middle of a    *)
(* load is never missed, only loaded again.                                 *)
LabelIsAFloor ==
  \A p \in Pods : /\ served[p].label <= served[p].routes
                  /\ served[p].routes <= served[p].stops
                  /\ served[p].stops <= version
                  /\ served[p].label = 0 => served[p] = Preprocessed

(* While it runs, a pod never goes back to an older version: whichever of   *)
(* poll and refresh swaps last, what it swaps in was read later.            *)
NeverOlder ==
  [][\A p \in Pods :
       up'[p] = "serving" /\ served'[p].label # 0 => served'[p].label >= served[p].label]_podVars

(* Every pod comes to serve what the row says, and keeps coming back to it  *)
(* after failed loads, restarts and refreshes that drop it.                 *)
Current(p) ==
  up[p] = "serving" /\ served[p].label = IF source = "db" THEN version ELSE 0

ComesBack == \A p \in Pods : []<>Current(p)

(* "Once a row exists, it is authoritative and the static list is ignored   *)
(* for that feed, in both directions": once a pod serves, a copy it changes *)
(* to is of the kind the row says.                                          *)
RowDecides ==
  [][\A p \in Pods :
       up[p] = "serving" /\ up'[p] = "serving" /\ served'[p].label # served[p].label =>
         (served'[p].label # 0 <=> source = "db")]_podVars
=============================================================================
