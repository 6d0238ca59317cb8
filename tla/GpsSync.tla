------------------------------ MODULE GpsSync ------------------------------
(***************************************************************************)
(* The weekly map lines from GPS, src/src/editor/gps_polyline_sync.rs: a   *)
(* run reads what its account's sets hold, looks at every route for hours, *)
(* writes the new lines into drafts, one transaction a draft and one a     *)
(* route, and takes those routes out of the account's earlier drafts.      *)
(* People submit, review and discard the drafts meanwhile.                 *)
(*                                                                         *)
(* What a route's pings say is open: any routes may have a new line.       *)
(***************************************************************************)
EXTENDS Naturals, FiniteSets

CONSTANTS
  Routes,
  Runners,     \* the CronJob's pods, and pods an admin asks for a run
  Ids,         \* change sets of the account, there or to come
  DraftSize,   \* draft_size
  MaxWeek,     \* bound: weeks
  MaxMoves,    \* bound: moves of people
  MaxTroubles, \* bound: runs cut short
  None

VARIABLES
  sets,     \* the account's change sets
  runs,     \* where each runner stands
  holder,   \* pg_try_advisory_lock on the feed
  week, moves, troubles, started,
  crossed   \* history: a run was cut short, a person moved a set during one, or
            \* reopened one

vars == <<sets, runs, holder, week, moves, troubles, started, crossed>>

Waiting == {"submitted", "approved"}
InHand  == {"draft"} \cup Waiting

\* run: the run that made the set.  title: its week, or 0 for a manual run's.
NoSet == [status |-> "none"]
Idle  == [at |-> "idle"]
There == {i \in Ids : sets[i] # NoSet}

Init ==
  /\ sets = [i \in Ids |-> NoSet]
  /\ runs = [r \in Runners |-> Idle]
  /\ holder = None
  /\ week = 1 /\ moves = 0 /\ troubles = 0 /\ started = 0
  /\ crossed = FALSE

-----------------------------------------------------------------------------
(* A run.                                                                   *)

At(r, at)   == runs[r].at = at
ToStep(r, at) == runs' = [runs EXCEPT ![r].at = at]
people      == <<week, moves>>

\* Mutant of MayStart: the lock is not looked at.
StartAnyway(r) == TRUE
\* run_once_with: another run has the lock, and this one is Busy.
MayStart(r) == holder = None

Start(r, manual) ==
  /\ At(r, "idle") /\ MayStart(r) /\ started < MaxWeek + 1
  /\ holder' = r
  /\ started' = started + 1
  /\ runs' = [runs EXCEPT ![r] =
       [at |-> "titles", title |-> IF manual THEN 0 ELSE week, run |-> started + 1,
        todo |-> {}, draft |-> {}, id |-> None, some |-> FALSE,
        created |-> {}, added |-> {}, old |-> {}, touched |-> {}]]
  /\ UNCHANGED <<sets, people, troubles, crossed>>

Over(r) ==
  /\ runs' = [runs EXCEPT ![r] = Idle]
  /\ holder' = IF holder = r THEN None ELSE holder

\* A scheduled week whose drafts were all discarded is not done.
AlreadyDone(r) ==
  /\ runs[r].title # 0
  /\ \E i \in There : sets[i].title = runs[r].title /\ sets[i].status # "discarded"

CheckWeek(r) ==
  /\ At(r, "titles")
  /\ IF AlreadyDone(r) THEN Over(r) ELSE ToStep(r, "held") /\ UNCHANGED holder
  /\ UNCHANGED <<sets, people, troubles, started, crossed>>

\* Routes of a submitted or approved set wait for their review.
Held == UNION {sets[i].routes : i \in {j \in There : sets[j].status \in Waiting}}

\* The routes to look at, and, hours later, the ones with a new line.
ReadHeld(r) ==
  /\ At(r, "held")
  /\ \E found \in SUBSET (Routes \ Held) :
       IF found = {} THEN Over(r)
       ELSE /\ runs' = [runs EXCEPT ![r].at = "create", ![r].todo = found]
            /\ UNCHANGED holder
  /\ UNCHANGED <<sets, people, troubles, started, crossed>>

\* The next draft: create_set, empty at first.
Create(r) ==
  /\ At(r, "create") /\ runs[r].todo # {}
  /\ Ids # There
  /\ \E i \in {CHOOSE j \in Ids \ There : TRUE}, draft \in SUBSET runs[r].todo :
       /\ draft # {} /\ Cardinality(draft) <= DraftSize
       /\ sets' = [sets EXCEPT ![i] = [status |-> "draft", title |-> runs[r].title,
                                       run |-> runs[r].run, routes |-> {}]]
       /\ runs' = [runs EXCEPT ![r].at = "add", ![r].id = i, ![r].some = FALSE,
                     ![r].draft = draft, ![r].todo = @ \ draft]
  /\ UNCHANGED <<holder, people, troubles, started, crossed>>

\* add_change for each route of the draft; one that fails is left out.
Add(r) ==
  /\ At(r, "add") /\ runs[r].draft # {}
  /\ \E n \in runs[r].draft :
       \/ /\ sets[runs[r].id].status = "draft"
          /\ sets' = [sets EXCEPT ![runs[r].id].routes = @ \cup {n}]
          /\ runs' = [runs EXCEPT ![r].draft = @ \ {n}, ![r].added = @ \cup {n}, ![r].some = TRUE]
       \/ /\ sets' = sets
          /\ runs' = [runs EXCEPT ![r].draft = @ \ {n}]
  /\ UNCHANGED <<holder, people, troubles, started, crossed>>

\* A draft with nothing in it is discarded; an error there ends the run.
EndDraft(r) ==
  /\ At(r, "add") /\ runs[r].draft = {}
  /\ LET i == runs[r].id
     IN  IF runs[r].some
         THEN /\ runs' = [runs EXCEPT ![r].at = "create", ![r].created = @ \cup {i}, ![r].id = None]
              /\ UNCHANGED <<sets, holder, crossed>>
         ELSE IF sets[i].status \in InHand
         THEN /\ sets' = [sets EXCEPT ![i].status = "discarded"]
              /\ runs' = [runs EXCEPT ![r].at = "create", ![r].id = None]
              /\ UNCHANGED <<holder, crossed>>
         ELSE Over(r) /\ crossed' = TRUE /\ UNCHANGED sets
  /\ UNCHANGED <<people, troubles, started>>

\* Mutant of FindEarlier: drafts of this week only.
FindEarlierThisWeek(r) ==
  /\ At(r, "create") /\ runs[r].todo = {}
  /\ IF runs[r].created = {} THEN Over(r)
     ELSE /\ runs' = [runs EXCEPT ![r].at = "replace", ![r].old =
                        {c \in (There \ runs[r].created) \X runs[r].added :
                           /\ sets[c[1]].title = runs[r].title
                           /\ sets[c[1]].status = "draft" /\ c[2] \in sets[c[1]].routes}]
          /\ UNCHANGED holder
  /\ UNCHANGED <<sets, people, troubles, started, crossed>>

\* replace_in_earlier_drafts: one query, then a transaction a change.
FindEarlier(r) ==
  /\ At(r, "create") /\ runs[r].todo = {}
  /\ IF runs[r].created = {} THEN Over(r)
     ELSE /\ runs' = [runs EXCEPT ![r].at = "replace", ![r].old =
                        {c \in (There \ runs[r].created) \X runs[r].added :
                           sets[c[1]].status = "draft" /\ c[2] \in sets[c[1]].routes}]
          /\ UNCHANGED holder
  /\ UNCHANGED <<sets, people, troubles, started, crossed>>

TakeOut(r) ==
  /\ At(r, "replace") /\ runs[r].old # {}
  /\ \E c \in runs[r].old :
       IF sets[c[1]].status = "draft" /\ c[2] \in sets[c[1]].routes
       THEN /\ sets' = [sets EXCEPT ![c[1]].routes = @ \ {c[2]}]
            /\ runs' = [runs EXCEPT ![r].old = @ \ {c}, ![r].touched = @ \cup {c[1]}]
            /\ UNCHANGED <<holder, crossed>>
       ELSE Over(r) /\ crossed' = TRUE /\ UNCHANGED sets
  /\ UNCHANGED <<people, troubles, started>>

\* Earlier drafts left with nothing in them.
DiscardEmpty(r) ==
  /\ At(r, "replace") /\ runs[r].old = {}
  /\ IF runs[r].touched = {} THEN Over(r) /\ UNCHANGED <<sets, crossed>>
     ELSE \E i \in runs[r].touched :
            IF sets[i].routes # {}
            THEN /\ runs' = [runs EXCEPT ![r].touched = @ \ {i}]
                 /\ UNCHANGED <<sets, holder, crossed>>
            ELSE IF sets[i].status \in InHand
            THEN /\ sets' = [sets EXCEPT ![i].status = "discarded"]
                 /\ runs' = [runs EXCEPT ![r].touched = @ \ {i}]
                 /\ UNCHANGED <<holder, crossed>>
            ELSE Over(r) /\ crossed' = TRUE /\ UNCHANGED sets
  /\ UNCHANGED <<people, troubles, started>>

\* An error, the run budget, or the end of the pod, whose connection held the lock.
CutShort(r) ==
  /\ ~At(r, "idle") /\ troubles < MaxTroubles
  /\ troubles' = troubles + 1
  /\ crossed' = TRUE
  /\ Over(r)
  /\ UNCHANGED <<sets, people, started>>

-----------------------------------------------------------------------------
(* People: the steps of ChangeSets that move a set.                         *)

Moves ==
  {<<"draft", "submitted">>, <<"submitted", "approved">>, <<"submitted", "rejected">>,
   <<"approved", "committed">>}
    \cup {<<s, "draft">> : s \in {"submitted", "approved", "rejected"}}
    \cup {<<s, "discarded">> : s \in {"draft", "submitted", "approved", "rejected"}}

Move(i, to) ==
  /\ moves < MaxMoves /\ i \in There /\ <<sets[i].status, to>> \in Moves
  /\ to = "submitted" => sets[i].routes # {}
  /\ sets' = [sets EXCEPT ![i].status = to]
  /\ moves' = moves + 1
  /\ crossed' = (crossed \/ holder # None \/ (sets[i].status = "rejected" /\ to = "draft"))
  /\ UNCHANGED <<runs, holder, week, troubles, started>>

NextWeek ==
  /\ week < MaxWeek
  /\ week' = week + 1
  /\ UNCHANGED <<sets, runs, holder, moves, troubles, started, crossed>>

Next ==
  \/ \E r \in Runners :
       \/ \E manual \in BOOLEAN : Start(r, manual)
       \/ CheckWeek(r) \/ ReadHeld(r) \/ Create(r) \/ Add(r) \/ EndDraft(r)
       \/ FindEarlier(r) \/ TakeOut(r) \/ DiscardEmpty(r) \/ CutShort(r)
  \/ \E i \in Ids, to \in {"draft", "submitted", "approved", "rejected", "committed", "discarded"} :
       Move(i, to)
  \/ NextWeek

Spec == Init /\ [][Next]_vars

-----------------------------------------------------------------------------
(* Properties.                                                              *)

(* Between runs a route is in one of the account's sets at most, whether a   *)
(* draft or under review: a run passes over what waits for its review and    *)
(* takes what it drafts anew out of the drafts before it.  Excepted are      *)
(* runs cut short and sets moved under a run.                                *)
OneSetARoute ==
  holder = None /\ ~crossed =>
    \A i, j \in There :
      sets[i].status \in InHand /\ sets[j].status \in InHand /\ i # j =>
        sets[i].routes \cap sets[j].routes = {}

(* One run drafts a week: a second scheduled run stops unless every draft of *)
(* the first was discarded, also when the first has died half way.           *)
OneRunAWeek ==
  \A i, j \in There :
    sets[i].title = sets[j].title /\ sets[i].title # 0
      /\ sets[i].status # "discarded" /\ sets[j].status # "discarded" =>
        sets[i].run = sets[j].run
=============================================================================
