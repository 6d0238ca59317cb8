---------------------------- MODULE VehicleTags ----------------------------
(***************************************************************************)
(* The tags of a feed's vehicles, src/src/services/operator.rs.  A vehicle *)
(* carries tags of vehicle_tag_internal in an array, which no foreign key  *)
(* can watch: the writers of either table check the other one first, and   *)
(* write in a statement of their own.  A deleted vehicle keeps its tags.   *)
(***************************************************************************)
EXTENDS Naturals, FiniteSets

CONSTANTS
  Tags,        \* what a tag says
  Rows,        \* vehicle_tag_ids
  Vehicles,    \* vehicle_ids
  NumberOf,    \* the vehicle_no each is of; one at most of a number is not deleted
  Requests,    \* requests under way at once
  None

VARIABLES
  tagRow,      \* vehicle_tag_internal
  vehicle,     \* vehicles_internal
  req,
  crossed,     \* history: the tags that were deleted while a vehicle was given them
  revived      \* history: the vehicles that came back with a dead tag

vars == <<tagRow, vehicle, req, crossed, revived>>

NoRow  == [tag |-> None, deleted |-> TRUE]
Absent == [is |-> "absent", tags |-> {}]
Idle   == [at |-> "idle"]
There  == {i \in Rows : tagRow[i].tag # None}
Active == {tagRow[i].tag : i \in {j \in There : ~tagRow[j].deleted}}

Init ==
  /\ tagRow = [i \in Rows |-> NoRow]
  /\ vehicle = [v \in Vehicles |-> Absent]
  /\ req = [r \in Requests |-> Idle]
  /\ crossed = {} /\ revived = {}

Live(v)      == vehicle[v].is = "live"
NoneLive(n)  == \A v \in Vehicles : NumberOf[v] = n => ~Live(v)
At(r, at)    == req[r].at = at
Ends(r)      == req' = [req EXCEPT ![r] = Idle]
Begins(r, q) == At(r, "idle") /\ req' = [req EXCEPT ![r] = q]

\* a request is deleting tag t, or giving it to vehicles
Deleting(t) == \E o \in Requests : req[o].at \in {"count", "mark"} /\ req[o].tag = t
Giving(t)   == \E o \in Requests : At(o, "putVehicles") /\ req[o].tags # None /\ t \in req[o].tags

-----------------------------------------------------------------------------
(* upsert_one_row on vehicle_tag_internal: a tag is unique per feed and      *)
(* fixed once made; a deleted row comes back by its id.                      *)

\* tag None: the request leaves the tag out.  The tag is another row's: refused.
TagTaken(id, tag) == \E i \in There : tagRow[i].tag = tag /\ i # id
\* The row has another tag: refused.
TagChanged(id, tag) == id \in There /\ tag # None /\ tagRow[id].tag # tag

\* back: deleted = false is among the columns sent.  A new row gets an id of its own.
UpsertTag(r, id, tag, back) ==
  /\ ~TagTaken(id, tag)
  /\ id \notin There => tag # None /\ \A o \in Requests : req[o] # Idle => req[o].id # id
  /\ Begins(r, [at |-> "stored", id |-> id, tag |-> tag, back |-> back])
  /\ UNCHANGED <<tagRow, vehicle, crossed, revived>>

CheckStored(r) ==
  /\ At(r, "stored")
  /\ IF TagChanged(req[r].id, req[r].tag) THEN Ends(r)
     ELSE req' = [req EXCEPT ![r].at = "putTag"]
  /\ UNCHANGED <<tagRow, vehicle, crossed, revived>>

\* INSERT ... ON CONFLICT (vehicle_tag_id) DO UPDATE with the columns sent; the index
\* over (gtfs_id, tag) has the last word.
PutTag(r) ==
  /\ At(r, "putTag")
  /\ LET q == req[r]
     IN  IF q.tag # None /\ TagTaken(q.id, q.tag) THEN UNCHANGED tagRow
         ELSE tagRow' = [tagRow EXCEPT ![q.id] =
                [tag     |-> IF q.tag = None THEN @.tag ELSE q.tag,
                 deleted |-> @.deleted /\ q.id \in There /\ ~q.back]]
  /\ Ends(r)
  /\ UNCHANGED <<vehicle, crossed, revived>>

-----------------------------------------------------------------------------
(* delete_one_row: read the tag, count the vehicles with it that are not     *)
(* deleted, mark the row.                                                    *)

\* Mutant of InUse: the vehicles are not counted.
InUseNever(tag)  == FALSE
InUse(tag)       == \E v \in Vehicles : Live(v) /\ tag \in vehicle[v].tags

DeleteTag(r, id) ==
  /\ id \in There
  /\ Begins(r, [at |-> IF ~tagRow[id].deleted THEN "count" ELSE "mark", id |-> id,
                tag |-> tagRow[id].tag])
  /\ crossed' = crossed \cup {t \in {tagRow[id].tag} : Giving(t)}
  /\ UNCHANGED <<tagRow, vehicle, revived>>

CountUse(r) ==
  /\ At(r, "count")
  /\ IF InUse(req[r].tag) THEN Ends(r) ELSE req' = [req EXCEPT ![r].at = "mark"]
  /\ UNCHANGED <<tagRow, vehicle, crossed, revived>>

MarkDeleted(r) ==
  /\ At(r, "mark")
  /\ tagRow' = [tagRow EXCEPT ![req[r].id].deleted = TRUE]
  /\ Ends(r)
  /\ UNCHANGED <<vehicle, crossed, revived>>

-----------------------------------------------------------------------------
(* upsert_vehicles: all tags of the batch must be active; then one INSERT,   *)
(* which updates a number's vehicle and makes one where none is live.  The   *)
(* batch is of one shape: every item sends its tags, or none does.           *)

UpsertVehicles(r, numbers, tags) ==
  /\ tags # None => tags \subseteq Active
  /\ Begins(r, [at |-> "putVehicles", id |-> None, batch |-> numbers, tags |-> tags])
  /\ crossed' = crossed \cup {t \in Tags : tags # None /\ t \in tags /\ Deleting(t)}
  /\ UNCHANGED <<tagRow, vehicle, revived>>

\* new: the rows that are made, of vehicle_ids nobody has
PutVehicles(r, new) ==
  LET q == req[r]
      written == new \cup {v \in Vehicles : Live(v) /\ NumberOf[v] \in q.batch}
  IN  /\ At(r, "putVehicles")
      /\ \A v \in new : vehicle[v] = Absent /\ NumberOf[v] \in q.batch /\ NoneLive(NumberOf[v])
      /\ \A n \in q.batch : NoneLive(n) => \E v \in new : new \cap {w \in Vehicles : NumberOf[w] = n} = {v}
      /\ vehicle' = [v \in Vehicles |->
           IF v \in written
           THEN [is |-> "live", tags |-> IF q.tags # None THEN q.tags ELSE vehicle[v].tags]
           ELSE vehicle[v]]
      /\ revived' = IF q.tags # None THEN revived \ written ELSE revived
      /\ Ends(r)
      /\ UNCHANGED <<tagRow, crossed>>

\* delete_vehicle_by_id, delete_one_row, upsert_one_row with deleted = true
DeleteVehicle(v) ==
  /\ Live(v)
  /\ vehicle' = [vehicle EXCEPT ![v].is = "deleted"]
  /\ UNCHANGED <<tagRow, req, crossed, revived>>

\* upsert_one_row on vehicles_internal, with deleted = false where the row is there: no
\* tag is checked, and none can be sent.  An index has one vehicle a number.
UpsertVehicleRow(v) ==
  /\ ~Live(v) /\ NoneLive(NumberOf[v])
  /\ vehicle' = [vehicle EXCEPT ![v].is = "live"]
  /\ revived' = IF vehicle[v].tags \subseteq Active THEN revived \ {v} ELSE revived \cup {v}
  /\ crossed' = crossed \cup {t \in vehicle[v].tags : Deleting(t)}
  /\ UNCHANGED <<tagRow, req>>

Fails(r) ==
  /\ ~At(r, "idle")
  /\ Ends(r)
  /\ UNCHANGED <<tagRow, vehicle, crossed, revived>>

Next ==
  \/ \E r \in Requests :
       \/ \E id \in Rows, tag \in Tags \cup {None}, back \in BOOLEAN : UpsertTag(r, id, tag, back)
       \/ CheckStored(r) \/ PutTag(r)
       \/ \E id \in Rows : DeleteTag(r, id)
       \/ CountUse(r) \/ MarkDeleted(r)
       \/ \E numbers \in (SUBSET {NumberOf[v] : v \in Vehicles}) \ {{}},
             tags \in (SUBSET Tags) \cup {None} : UpsertVehicles(r, numbers, tags)
       \/ \E new \in SUBSET Vehicles : PutVehicles(r, new)
       \/ Fails(r)
  \/ \E v \in Vehicles : DeleteVehicle(v) \/ UpsertVehicleRow(v)

Spec == Init /\ [][Next]_vars

-----------------------------------------------------------------------------
(* "so vehicles_internal never points at a dead tag" (operator.rs:623):      *)
(* whatever requests are under way, a vehicle's tags are active ones.  Two   *)
(* ways around the checks are set aside, in which it does not hold: a tag is *)
(* deleted while it is given to a vehicle, the check of either made before   *)
(* the write of the other; and a deleted vehicle, which the count leaves     *)
(* out, comes back with a tag that is gone.                                  *)
NoDeadTag == \A v \in Vehicles :
  Live(v) /\ v \notin revived => vehicle[v].tags \ crossed \subseteq Active
=============================================================================
