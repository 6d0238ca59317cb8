------------------------------ MODULE SideBySide -----------------------------
(***************************************************************************)
(* The parts of the system that share no state, beside each other: the     *)
(* pods' fleet verdict, and one part each of the dashboards and the editor.*)
(* A behaviour is of one part, the others stay where they begin; a request *)
(* of a part stands under the pod that takes it.                           *)
(***************************************************************************)
EXTENDS FleetSync

CONSTANTS
  None,
  MaxDay, MaxWeek,
  Waybills, Schedules, Repeating, Anchors, Trips, Real, FirstRows,     \* Waybills
  Swaps, HandStatuses, HandTrips, MaxHand,
  Routes, Ids, DraftSize, MaxMoves, MaxCuts,                           \* GpsSync
  Tags, TagRows, Vehicles, NumberOf,                                   \* VehicleTags
  Stops, MaxPoints, MaxOrder, FirstPoints, RowsByHand, MaxRewrites,    \* RoutePoints
  Rows, Kind, Texts, Spaced, Trimmed, FirstMaster, FirstProd,          \* Migration
  Admins, Takes, MaxVersions, MaxSets,
  Zips, Drafts, MaxFeedVersion, MaxTime, MaxTickets,                   \* FeedReload
  Repeats, Off, FirstRepeats, FirstFilled, Users, Ranges,              \* Repeater
  LookAhead, Batch, MaxEdits, MaxUpsets

ASSUME NoneAssumption == None \notin Pods \cup Ids

ASSUME PointsAssumption ==
  /\ MaxPoints \in Nat /\ MaxOrder \in Nat /\ "none" \notin Stops
  /\ FirstPoints \in [1..MaxPoints ->
       [there: BOOLEAN, order: Nat, stop: Stops]
         \cup {[there |-> FALSE, order |-> 0, stop |-> "none"]}]
  /\ RowsByHand \subseteq [there: BOOLEAN, order: Nat, stop: Stops]

VARIABLES
  part,
  row, active, done, byHand, today, hand, duty, overlap,               \* Waybills
  sets, runs, holder, week, moves, troubles, started, crossed,         \* GpsSync
  tagRow, vehicle, tagger, crossedTags, revived,                       \* VehicleTags
  point, editing, stale, rewrites,                                     \* RoutePoints
  master, prod, wrote, prodVersion, drafts, job,                       \* Migration
  feedVersion, loads, draft, last, time, tickets, confirming,          \* FeedReload
  config, till, filled, now, lease, walk, edits, upsets, tainted       \* Repeater

dutyVars == <<row, active, done, byHand, today, hand, duty, overlap>>
lineVars == <<sets, runs, holder, week, moves, troubles, started, crossed>>
tagVars == <<tagRow, vehicle, tagger, crossedTags, revived>>
pointVars == <<point, editing, stale, rewrites>>
migrationVars == <<master, prod, wrote, prodVersion, drafts, job>>
reloadVars == <<feedVersion, loads, draft, last, time, tickets, confirming>>
sweepVars == <<config, till, filled, now, lease, walk, edits, upsets, tainted>>

W == INSTANCE Waybills WITH Requests <- Pods, req <- duty
G == INSTANCE GpsSync WITH Runners <- Pods, MaxTroubles <- MaxCuts
T == INSTANCE VehicleTags WITH
  Rows <- TagRows, Requests <- Pods, req <- tagger, crossed <- crossedTags
R == INSTANCE RoutePoints WITH Requests <- Pods, req <- editing
M == INSTANCE Migration WITH live <- prod, version <- prodVersion, sets <- drafts
F == INSTANCE FeedReload WITH
  Requests <- Pods, MaxVersion <- MaxFeedVersion, version <- feedVersion, req <- confirming
S == INSTANCE Repeater WITH
  Schedules <- Repeating, Configs <- Repeats, FirstConfigs <- FirstRepeats,
  FirstDuties <- FirstFilled, MaxTroubles <- MaxUpsets, duties <- filled, troubles <- upsets

(* The duties there at first are apart already.                             *)
ASSUME DutiesAssumption ==
  /\ MaxDay \in Nat \ {0} /\ MaxHand \in Nat
  /\ Trips \subseteq Nat /\ Real \in [W!Keys -> SUBSET Trips]
  /\ HandStatuses \subseteq W!Statuses /\ HandTrips \subseteq W!Keys /\ Swaps \subseteq SUBSET Anchors
  /\ \A first \in FirstRows :
       /\ first \in [Waybills -> W!Row \cup {W!NoRow}]
       /\ \A v, w \in Waybills :
            first[v].status = "online" /\ first[w].status = "online" /\ v # w =>
              /\ first[v].who \cap first[w].who = {}
              /\ first[v].sched = first[w].sched => first[v].flexi \/ first[w].flexi

(* An edge space is trimmed away, timetables are there from the start, and   *)
(* lists are never taken out.                                                *)
ASSUME MigrationAssumption ==
  /\ {"absent", "dead"} \cap Texts = {}
  /\ Spaced \subseteq Texts /\ Trimmed \in [Spaced -> Texts \ Spaced]
  /\ Kind \in [Rows -> {"stop", "stage", "list", "timetable"}]
  /\ FirstMaster \in [Rows -> M!Contents] /\ FirstProd \in [Rows -> M!Contents]
  /\ \A k \in M!Timetables : FirstMaster[k] \in Texts /\ FirstProd[k] \in Texts
  /\ \A k \in Rows : Kind[k] = "list" => FirstMaster[k] # "dead" /\ FirstProd[k] # "dead"

(* A repeat is of days or off, and people are not pods.                     *)
ASSUME SweepsAssumption ==
  /\ LookAhead \in Nat /\ Users \cap Pods = {}
  /\ Repeats \subseteq (SUBSET S!Days) \cup {Off}
  /\ FirstRepeats \in [Repeating -> Repeats]
  /\ FirstFilled \in [Repeating -> SUBSET S!Days]
  /\ Ranges \subseteq S!Days \X S!Days

-----------------------------------------------------------------------------
Parts == {"fleet", "duties", "lines", "tags", "points", "migration", "reload", "sweeps"}

PartsInit ==
  /\ part \in Parts
  /\ FleetInit /\ W!Init /\ G!Init /\ T!Init /\ R!Init /\ M!Init /\ F!Init /\ S!Init
  /\ part # "duties" => row = CHOOSE first \in FirstRows : TRUE

PartsNext ==
  /\ UNCHANGED part
  /\ \/ part = "fleet" /\ FleetNext
        /\ UNCHANGED <<dutyVars, lineVars, tagVars, pointVars, migrationVars, reloadVars, sweepVars>>
     \/ part = "duties" /\ W!Next
        /\ UNCHANGED <<vars, lineVars, tagVars, pointVars, migrationVars, reloadVars, sweepVars>>
     \/ part = "lines" /\ G!Next
        /\ UNCHANGED <<vars, dutyVars, tagVars, pointVars, migrationVars, reloadVars, sweepVars>>
     \/ part = "tags" /\ T!Next
        /\ UNCHANGED <<vars, dutyVars, lineVars, pointVars, migrationVars, reloadVars, sweepVars>>
     \/ part = "points" /\ R!Next
        /\ UNCHANGED <<vars, dutyVars, lineVars, tagVars, migrationVars, reloadVars, sweepVars>>
     \/ part = "migration" /\ M!Next
        /\ UNCHANGED <<vars, dutyVars, lineVars, tagVars, pointVars, reloadVars, sweepVars>>
     \/ part = "reload" /\ F!Next
        /\ UNCHANGED <<vars, dutyVars, lineVars, tagVars, pointVars, migrationVars, sweepVars>>
     \/ part = "sweeps" /\ S!Next
        /\ UNCHANGED <<vars, dutyVars, lineVars, tagVars, pointVars, migrationVars, reloadVars>>

partsVars == <<part, vars, dutyVars, lineVars, tagVars, pointVars, migrationVars, reloadVars, sweepVars>>
PartsSpec == PartsInit /\ [][PartsNext]_partsVars

-----------------------------------------------------------------------------
(* The parts' properties, each of its part.                                 *)

(* At most one trip of a schedule runs, after all that are done, but where a *)
(* person has written the trips' own rows.                                   *)
TripsInOrder == part = "duties" => W!TripsInOrder
(* No crew, vehicle or schedule is on two duties at once.                   *)
OneDutyAtATime == part = "duties" => W!OneDutyAtATime
(* A duty goes online with no trip of an earlier one on it.                 *)
FreshDuty == [][part = "duties" => W!GoesOnlineFresh]_partsVars

(* Between runs a route is in one set of the account's.                     *)
OneSetARoute == part = "lines" => G!OneSetARoute
(* One run drafts a week.                                                   *)
OneRunAWeek == part = "lines" => G!OneRunAWeek

(* The tags on a vehicle are active ones.                                   *)
NoDeadTag == part = "tags" => T!NoDeadTag

(* A request changes the order of no stops but from an old read.            *)
OrderKept == [][part = "points" => R!KeepsOrder]_partsVars

(* A migration writes over nothing prod has changed itself.                 *)
OwnEditsKept == [][part = "migration" => M!KeepsOwnEdits]_partsVars
(* Each row a migration commits changes, and none comes back.               *)
EachCommitMoves == [][part = "migration" => M!MovesRows]_partsVars

(* A reload replaces what its check has looked at.                          *)
ReplacesWhatWasChecked == [][part = "reload" => F!LoadsWhatWasChecked]_partsVars
(* An open change set was made against the rows that are there.             *)
DraftsStandOnRows == part = "reload" => F!DraftsStandOnRows

(* Every day up to a schedule's watermark has its duty.                     *)
WatermarkHonest == part = "sweeps" => S!WatermarkHonest
(* Two sweeps run at once only past the stuck timeout.                      *)
OneSweep == part = "sweeps" => S!OneSweep
=============================================================================
