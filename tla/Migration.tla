----------------------------- MODULE Migration -----------------------------
(***************************************************************************)
(* Moving master's work to prod, src/src/editor/migration.rs.  Master      *)
(* writes files: one committed draft (change_set), or the whole feed       *)
(* (full).  An admin reads a file in on prod, where it becomes ordinary    *)
(* drafts, committed or discarded as in ChangeSets; prod edits the same    *)
(* rows itself meanwhile.  A file may be read in late, and again.          *)
(*                                                                         *)
(* A row is a stop, station or route, a stage, a route's list of stages,   *)
(* or its timetable.  A master draft changes one row.  Merges, and the     *)
(* switch to use_stages, are left out.                                     *)
(***************************************************************************)
EXTENDS Naturals, Sequences, FiniteSets

CONSTANTS
  Rows, Kind,  \* "stop", "stage", "list" or "timetable", by row
  Texts,       \* what a live row says
  Spaced,      \* texts with an edge space, which no stage write stores
  Trimmed,     \* by such a text, the text it is stored as
  FirstMaster, \* master's rows at first
  FirstProd,   \* prod's rows at first
  Admins,      \* read-ins under way at once
  Takes,       \* sets of rows whose conflicts an admin takes master's side of
  MaxVersions, \* bound: master's versions
  MaxSets      \* bound: change sets of prod

Contents == Texts \cup {"absent", "dead"}
Stored(c) == IF c \in Spaced THEN Trimmed[c] ELSE c

VARIABLES
  master,  \* master's rows, by version: what its files hold
  live,    \* prod's rows
  wrote,   \* the version that wrote a row last: its row_version
  version, \* prod's version
  sets,    \* prod's change sets, with what gtfs_migration_import records of them
  job      \* read-ins that have let the feed's lock go

vars == <<master, live, wrote, version, sets, job>>

Idle == [at |-> "idle"]
NumbersOfSets == 1..Len(sets)

Init ==
  /\ master = <<FirstMaster>>
  /\ live = FirstProd
  /\ wrote = [k \in Rows |-> IF FirstProd[k] = "absent" THEN 0 ELSE 1]
  /\ version = 1
  /\ sets = <<>>
  /\ job = [a \in Admins |-> Idle]

\* What an edit may make of a row.
Edits(k, c) ==
  IF Kind[k] \in {"list", "timetable"} THEN (Texts \ Spaced) \ {c}
  ELSE CASE c = "dead"   -> {}
         [] c = "absent" -> Texts \ Spaced
         [] OTHER        -> ((Texts \ Spaced) \ {Stored(c)}) \cup {"dead"}

-----------------------------------------------------------------------------
(* Master.                                                                  *)

MasterCommits(k, c) ==
  /\ Len(master) < MaxVersions
  /\ c \in Edits(k, master[Len(master)][k])
  /\ master' = Append(master, [master[Len(master)] EXCEPT ![k] = c])
  /\ UNCHANGED <<live, wrote, version, sets, job>>

-----------------------------------------------------------------------------
(* Prod's change sets.                                                      *)

\* from: "own", "set" or "full", and the file's version.  recorded: it is in
\* gtfs_migration_import.  Each change is based on its row as it is (base_row_version, and
\* before or a hash: seen).  read: prod's version when its history was read.
NewSet(from, n, to, since, read, take, recorded) ==
  [status |-> "open", from |-> from, n |-> n, to |-> to, since |-> since, read |-> read,
   base |-> [k \in DOMAIN to |-> wrote[k]], seen |-> [k \in DOMAIN to |-> live[k]],
   take |-> take, recorded |-> recorded, version |-> 0]

Open        == {i \in NumbersOfSets : sets[i].status = "open"}
Draftable   == Len(sets) < MaxSets
Draft(s)    == sets' = Append(sets, s)

\* conflict_for: a stage is the one the change was made of while its content is
\* (stage_unchanged), and lists and timetables are compared by their hashes.
Moved(s, k) ==
  CASE Kind[k] = "stop"  -> wrote[k] # s.base[k]
    [] Kind[k] = "stage" -> wrote[k] # s.base[k] /\ live[k] # s.seen[k]
    [] OTHER             -> live[k] # s.seen[k]
Conflicts(s) == \E k \in DOMAIN s.to : Moved(s, k)

\* commit: conflict_for every change, then all of them.
Commit(i) ==
  /\ i \in Open /\ ~Conflicts(sets[i])
  /\ live' = [k \in Rows |-> IF k \in DOMAIN sets[i].to THEN sets[i].to[k] ELSE live[k]]
  /\ wrote' = [k \in Rows |-> IF k \in DOMAIN sets[i].to THEN version + 1 ELSE wrote[k]]
  /\ version' = version + 1
  /\ sets' = [sets EXCEPT ![i] = [@ EXCEPT !.status = "committed", !.version = version + 1]]
  /\ UNCHANGED <<master, job>>

Discard(i) ==
  /\ i \in Open
  /\ sets' = [sets EXCEPT ![i].status = "discarded"]
  /\ UNCHANGED <<master, live, wrote, version, job>>

OwnDraft(k, c) ==
  /\ Draftable /\ c \in Edits(k, live[k])
  /\ Draft(NewSet("own", 0, [r \in {k} |-> c], 0, version, {}, FALSE))
  /\ UNCHANGED <<master, live, wrote, version, job>>

-----------------------------------------------------------------------------
(* One draft: import_change_set.                                            *)

Changed(n)  == CHOOSE k \in Rows : master[n + 1][k] # master[n][k]

\* earlier_imports
Brought(n)  == \E i \in NumbersOfSets : /\ sets[i].from = "set" /\ sets[i].n = n
                              /\ sets[i].recorded /\ sets[i].status # "discarded"

\* classify, and what add_and_settle then drops: a create of a row that is there or
\* gone, an update of one that is not.  What changes a row goes in over what master had;
\* a timetable's conflict is taken also where prod has what it makes (by_hash).
GoesIn(kind, before, after, prod, taken) ==
  CASE kind = "timetable" -> prod = before \/ taken
    [] kind = "list"      -> prod = before \/ (taken /\ prod # after)
    [] before = "absent"  -> prod = "absent"
    [] after = "dead"     -> prod \in Texts
    [] OTHER              -> prod \in Texts /\ (prod = before \/ (taken /\ prod # after))

ReadDraft(n, take) ==
  LET k == Changed(n)
  IN  /\ n < Len(master) /\ Draftable /\ ~Brought(n)
      /\ GoesIn(Kind[k], master[n][k], master[n + 1][k], live[k], k \in take)
      /\ Draft(NewSet("set", n, [r \in {k} |-> master[n + 1][k]], 0, version,
                      IF live[k] = master[n][k] THEN {} ELSE {k}, TRUE))
      /\ UNCHANGED <<master, live, wrote, version, job>>

-----------------------------------------------------------------------------
(* The whole feed: import_full.                                             *)

\* read_history: the versions changes of the sets S wrote row k at, and the last of them.
At(S, k) == {sets[i].version : i \in {j \in S : sets[j].status = "committed" /\ k \in DOMAIN sets[j].to}}
LastBy(S, k) ==
  LET at == At(S, k)
  IN  IF at = {} THEN 0 ELSE CHOOSE v \in at : \A u \in at : u <= v

\* A set nothing records is prod's own.
Recorded == {i \in NumbersOfSets : sets[i].recorded}
\* Mutant of ChangedOnProd: what a migration once set is master's.
NeverMigrated(k, base) ==
  LET own == LastBy(NumbersOfSets \ Recorded, k) IN own > base /\ LastBy(Recorded, k) = 0
ChangedOnProd(k, base) ==
  LET own == LastBy(NumbersOfSets \ Recorded, k) IN own > base /\ own > LastBy(Recorded, k)

\* Mutant of Wanted: compared raw.
WantedRaw(n, k) == master[n][k]
\* A stage is compared as it is stored.
Wanted(n, k) == IF Kind[k] = "stage" THEN Stored(master[n][k]) ELSE master[n][k]

\* plan_stops_routes, plan_stages: what prod took out stays out.
Planned(n, k) ==
  CASE live[k] = "dead"   -> FALSE
    [] live[k] = "absent" -> Wanted(n, k) \in Texts
    [] OTHER              -> Wanted(n, k) \notin {live[k], "absent"}

\* The step a change waits for: stages go out with the lists.
StepOf(n, k) ==
  IF Kind[k] = "stop" THEN 1 ELSE IF Kind[k] = "stage" /\ Wanted(n, k) # "dead" THEN 2 ELSE 3

Timetables     == {k \in Rows : Kind[k] = "timetable"}
Kept(k, base, take) == ChangedOnProd(k, base) /\ k \notin take
Taken(base, take)   == {k \in take : ChangedOnProd(k, base)}
MigrationOpen  == Open \cap Recorded # {}

\* What a change of a full migration writes.
Writes(n, D) == [k \in D |-> IF Kind[k] = "stage" THEN Stored(Wanted(n, k)) ELSE Wanted(n, k)]

\* The first step of which prod refuses not all, or, with none, the timetable, for which
\* the feed's lock is let go.  base: the since_version asked for, or the first one named.
ReadFeed(a, n, base, take) ==
  /\ job[a] = Idle /\ n \in 1..Len(master) /\ Draftable
  /\ base \in 1..version
  /\ ~MigrationOpen
  /\ \E left \in SUBSET {k \in Rows \ Timetables : Planned(n, k) /\ ~Kept(k, base, take)} :
       IF left = {}
       THEN /\ job' = [job EXCEPT ![a] = [at |-> "timetables", n |-> n, since |-> base, read |-> version,
                         take |-> Taken(base, take) \cap Timetables,
                         keep |-> {k \in Timetables : Kept(k, base, take)}]]
            /\ UNCHANGED sets
       ELSE LET first == {k \in left : \A o \in left : StepOf(n, k) <= StepOf(n, o)}
            IN  /\ Draft(NewSet("full", n, Writes(n, first), base, version,
                                Taken(base, take) \cap first, TRUE))
                /\ UNCHANGED job
  /\ UNCHANGED <<master, live, wrote, version>>

\* draft_import, in a transaction of its own.
DraftTimetables(a) ==
  /\ job[a].at = "timetables" /\ Draftable
  /\ LET differ == {k \in Timetables \ job[a].keep : Wanted(job[a].n, k) # live[k]}
     IN  IF differ = {}
         THEN job' = [job EXCEPT ![a] = Idle] /\ UNCHANGED sets
         ELSE /\ Draft(NewSet("full", job[a].n, Writes(job[a].n, differ), job[a].since,
                              job[a].read, job[a].take, FALSE))
              /\ job' = [job EXCEPT ![a] = [at |-> "record", id |-> Len(sets) + 1]]
  /\ UNCHANGED <<master, live, wrote, version>>

\* record, on another connection.
Record(a) ==
  /\ job[a].at = "record"
  /\ sets' = [sets EXCEPT ![job[a].id].recorded = TRUE]
  /\ job' = [job EXCEPT ![a] = Idle]
  /\ UNCHANGED <<master, live, wrote, version>>

\* The pod dies, or draft_import fails.
Dies(a) ==
  /\ job[a] # Idle
  /\ job' = [job EXCEPT ![a] = Idle]
  /\ UNCHANGED <<master, live, wrote, version, sets>>

Next ==
  \/ \E k \in Rows, c \in Contents : MasterCommits(k, c) \/ OwnDraft(k, c)
  \/ \E i \in NumbersOfSets : Commit(i) \/ Discard(i)
  \/ \E n \in 1..MaxVersions, take \in Takes : ReadDraft(n, take)
  \/ \E a \in Admins :
       \/ \E n \in 1..MaxVersions, base \in 1..(MaxSets + 1), take \in Takes : ReadFeed(a, n, base, take)
       \/ DraftTimetables(a) \/ Record(a) \/ Dies(a)

Spec == Init /\ [][Next]_vars

-----------------------------------------------------------------------------
(* Properties.                                                              *)

Goes(i) == sets[i].status = "open" /\ sets'[i].status = "committed"

\* The versions prod's own sets have written a row at, after all the others.
Own == {i \in NumbersOfSets : sets[i].from = "own"}
OwnEdits(k, base) ==
  {v \in At(Own, k) : v > base /\ \A u \in At(NumbersOfSets \ Own, k) : u < v}

(* "Prod's own edits are kept" (docs/gtfs-editor.md section 23): when a full   *)
(* migration's set commits a row, prod has not edited it since since_version   *)
(* and the last migration of it, but for edits of a stage, list or timetable   *)
(* since the read-in that leave the row as the set was made on; and one        *)
(* draft's set commits a row only where prod still has what master had.        *)
(* Excepted are rows taken, rows one draft removes, and timetable edits        *)
(* between the two transactions of a read-in, which nothing sees.              *)
KeepsOwnEdits ==
  \A i \in NumbersOfSets : Goes(i) =>
    \A k \in DOMAIN sets[i].to \ sets[i].take :
      /\ sets[i].from = "full" =>
           \A v \in OwnEdits(k, sets[i].since) :
             v > sets[i].read /\ Kind[k] # "stop" /\ live[k] = sets[i].seen[k]
      /\ sets[i].from = "set" => sets[i].to[k] = "dead" \/ live[k] = master[sets[i].n][k]
OwnEditsKept == [][KeepsOwnEdits]_vars

(* A read-in plans nothing that is there already: each row a migration commits *)
(* changes, so that reading the same file in again gets past it ("its commit   *)
(* changes nothing, and the migration never gets past the stages step",        *)
(* migration.rs:2251), and a row prod took out is not brought back.  Excepted  *)
(* is a timetable of one draft that an admin takes where prod has it already.  *)
MovesRows ==
  \A i \in NumbersOfSets : Goes(i) /\ sets[i].from # "own" =>
    \A k \in DOMAIN sets[i].to :
      /\ live[k] # "dead"
      /\ live'[k] # live[k] \/ (sets[i].from = "set" /\ Kind[k] = "timetable" /\ k \in sets[i].take)
EachCommitMoves == [][MovesRows]_vars
=============================================================================
