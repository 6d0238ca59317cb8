----------------------------- MODULE DepotProofs ----------------------------
(***************************************************************************)
(* What the depot dashboard's parts of SideBySide promise, for any tags,   *)
(* vehicles, stops and requests: the tags on a vehicle are active ones,    *)
(* and no request changes the order of the stops that stay.                *)
(***************************************************************************)
EXTENDS SideBySide, FiniteSetTheorems, TLAPS

-----------------------------------------------------------------------------
(* Vehicle tags                                                            *)

LEMMA TagsStandAlone == PartsSpec => T!Init /\ [][T!Next]_tagVars
<1>1. PartsInit => T!Init
  BY DEF PartsInit
<1>2. [PartsNext]_partsVars => [T!Next]_tagVars
  BY DEF PartsNext, partsVars, tagVars
<1> QED
  BY <1>1, <1>2, PTL DEF PartsSpec

TagRequests ==
  [at: {"stored", "putTag"}, id: TagRows, tag: Tags \cup {None}, back: BOOLEAN]
    \cup [at: {"count", "mark"}, id: TagRows, tag: Tags \cup {None}]
    \cup [at: {"putVehicles"}, id: {None}, batch: SUBSET {NumberOf[v] : v \in Vehicles},
        tags: (SUBSET Tags) \cup {None}]

TagsTyped ==
  /\ tagRow \in [TagRows -> [tag: Tags \cup {None}, deleted: BOOLEAN]]
  /\ vehicle \in [Vehicles -> [is: {"absent", "live", "deleted"}, tags: SUBSET Tags]]
  /\ tagger \in [Pods -> TagRequests \cup {T!Idle}]

(* A tag is one row's, and a row that is not there yet is of one request.   *)
UniqueTags == \A i, j \in T!There : tagRow[i].tag = tagRow[j].tag => i = j

OwnRows == \A r, o \in Pods :
  /\ r # o /\ tagger[r].at \in {"stored", "putTag"} /\ tagger[o].at \in {"stored", "putTag"}
  /\ tagger[r].id = tagger[o].id
  => tagger[r].id \in T!There

(* What a request has read of a row is still so when it writes.             *)
SameTag == \A r \in Pods :
  tagger[r].at = "putTag" /\ tagger[r].id \in T!There /\ tagger[r].tag # None
    => tagger[r].tag = tagRow[tagger[r].id].tag

KnownTag == \A r \in Pods :
  tagger[r].at \in {"count", "mark"}
    => tagger[r].id \in T!There /\ tagger[r].tag = tagRow[tagger[r].id].tag

(* Of the vehicles it is so but for the tags that crossed.                  *)
NotInUse == \A r \in Pods, v \in Vehicles :
  tagger[r].at = "mark" /\ T!Live(v) /\ v \notin revived /\ tagger[r].tag \in vehicle[v].tags
    => tagger[r].tag \in crossedTags

GivesActive == \A r \in Pods :
  tagger[r].at = "putVehicles" /\ tagger[r].tags # None
    => tagger[r].tags \ crossedTags \subseteq T!Active

Crossings == \A t \in Tags : T!Giving(t) /\ T!Deleting(t) => t \in crossedTags

TagInv ==
  /\ TagsTyped /\ UniqueTags /\ OwnRows /\ SameTag /\ KnownTag /\ NotInUse
  /\ GivesActive /\ Crossings /\ T!NoDeadTag

LEMMA TagInvInitially == T!Init => TagInv
<1> SUFFICES ASSUME T!Init
             PROVE  TagInv
  OBVIOUS
<1>1. TagsTyped
  BY DEF T!Init, TagsTyped, T!NoRow, T!Absent
<1>2. UniqueTags
  BY DEF T!Init, UniqueTags, T!There, T!NoRow
<1>3. OwnRows /\ SameTag /\ KnownTag /\ NotInUse /\ GivesActive
  BY DEF T!Init, OwnRows, SameTag, KnownTag, NotInUse, GivesActive, T!Idle
<1>4. Crossings
  BY DEF T!Init, Crossings, T!Giving, T!At, T!Idle
<1>5. T!NoDeadTag
  BY DEF T!Init, T!NoDeadTag, T!Live, T!Absent
<1> QED
  BY <1>1, <1>2, <1>3, <1>4, <1>5 DEF TagInv

LEMMA TagsStayTyped ==
  ASSUME TagsTyped, [T!Next]_tagVars
  PROVE  TagsTyped'
<1> USE DEF TagsTyped
<1>1. ASSUME NEW r \in Pods, NEW id \in TagRows, NEW tag \in Tags \cup {None}, NEW back \in BOOLEAN,
             T!UpsertTag(r, id, tag, back)
      PROVE  TagsTyped'
  BY <1>1 DEF T!UpsertTag, T!Begins, TagRequests
<1>2. ASSUME NEW r \in Pods, T!CheckStored(r)
      PROVE  TagsTyped'
  BY <1>2 DEF T!CheckStored, T!Ends, T!At, TagRequests, T!Idle
<1>3. ASSUME NEW r \in Pods, T!PutTag(r)
      PROVE  TagsTyped'
  <2> DEFINE q == tagger[r]
             new == [tag     |-> IF q.tag = None THEN tagRow[q.id].tag ELSE q.tag,
                     deleted |-> tagRow[q.id].deleted /\ q.id \in T!There /\ ~q.back]
  <2>1. q.id \in TagRows /\ q.tag \in Tags \cup {None}
    BY <1>3 DEF T!PutTag, T!At, TagRequests, T!Idle
  <2>2. (tagRow[q.id].deleted /\ q.id \in T!There /\ ~q.back) \in BOOLEAN
    BY Zenon
  <2>3. new \in [tag: Tags \cup {None}, deleted: BOOLEAN]
    BY <2>1, <2>2
  <2>4. tagRow' = tagRow \/ tagRow' = [tagRow EXCEPT ![q.id] = new]
    BY <1>3 DEF T!PutTag
  <2>5. tagRow' \in [TagRows -> [tag: Tags \cup {None}, deleted: BOOLEAN]]
    BY <2>1, <2>3, <2>4
  <2> QED
    BY <2>5, <1>3 DEF T!PutTag, T!Ends
<1>4. ASSUME NEW r \in Pods, NEW id \in TagRows, T!DeleteTag(r, id)
      PROVE  TagsTyped'
  BY <1>4 DEF T!DeleteTag, T!Begins, TagRequests
<1>5. ASSUME NEW r \in Pods, T!CountUse(r)
      PROVE  TagsTyped'
  BY <1>5 DEF T!CountUse, T!Ends, T!At, TagRequests, T!Idle
<1>6. ASSUME NEW r \in Pods, T!MarkDeleted(r)
      PROVE  TagsTyped'
  BY <1>6 DEF T!MarkDeleted, T!Ends, T!At, TagRequests, T!Idle
<1>7. ASSUME NEW r \in Pods, NEW numbers \in (SUBSET {NumberOf[v] : v \in Vehicles}) \ {{}},
             NEW tags \in (SUBSET Tags) \cup {None}, T!UpsertVehicles(r, numbers, tags)
      PROVE  TagsTyped'
  BY <1>7 DEF T!UpsertVehicles, T!Begins, TagRequests
<1>8. ASSUME NEW r \in Pods, NEW new \in SUBSET Vehicles, T!PutVehicles(r, new)
      PROVE  TagsTyped'
  <2> DEFINE tags(v) == IF tagger[r].tags # None THEN tagger[r].tags ELSE vehicle[v].tags
  <2>1. \A v \in Vehicles : tags(v) \in SUBSET Tags
    BY <1>8 DEF T!PutVehicles, T!At, TagRequests, T!Idle
  <2>2. PICK written : vehicle' = [v \in Vehicles |->
          IF v \in written THEN [is |-> "live", tags |-> tags(v)] ELSE vehicle[v]]
    BY <1>8 DEF T!PutVehicles
  <2>3. vehicle' \in [Vehicles -> [is: {"absent", "live", "deleted"}, tags: SUBSET Tags]]
    BY <2>1, <2>2
  <2> QED
    BY <1>8, <2>3 DEF T!PutVehicles, T!Ends
<1>9. ASSUME NEW r \in Pods, T!Fails(r)
      PROVE  TagsTyped'
  BY <1>9 DEF T!Fails, T!Ends
<1>10. ASSUME NEW v \in Vehicles, T!DeleteVehicle(v)
       PROVE  TagsTyped'
  BY <1>10 DEF T!DeleteVehicle
<1>11. ASSUME NEW v \in Vehicles, T!UpsertVehicleRow(v)
       PROVE  TagsTyped'
  BY <1>11 DEF T!UpsertVehicleRow
<1>12. CASE UNCHANGED tagVars
  BY <1>12 DEF tagVars
<1> HIDE DEF TagsTyped
<1> QED
  BY <1>1, <1>2, <1>3, <1>4, <1>5, <1>6, <1>7, <1>8, <1>9, <1>10, <1>11, <1>12 DEF T!Next

(* A step of a request that writes no row.                                  *)
LEMMA ReadersKeepTagInv ==
  ASSUME TagInv, TagsTyped', UNCHANGED <<tagRow, vehicle, revived>>, crossedTags \subseteq crossedTags',
         NEW r \in Pods, \A o \in Pods \ {r} : tagger'[o] = tagger[o],
         tagger'[r].at \in {"stored", "putTag"} /\ tagger'[r].id \notin T!There
           => \A o \in Pods \ {r} : tagger[o].at \in {"stored", "putTag"} => tagger[o].id # tagger'[r].id,
         tagger'[r].at = "putTag" /\ tagger'[r].id \in T!There /\ tagger'[r].tag # None
           => tagger'[r].tag = tagRow[tagger'[r].id].tag,
         tagger'[r].at \in {"count", "mark"}
           => tagger'[r].id \in T!There /\ tagger'[r].tag = tagRow[tagger'[r].id].tag,
         \A v \in Vehicles :
           tagger'[r].at = "mark" /\ T!Live(v) /\ v \notin revived /\ tagger'[r].tag \in vehicle[v].tags
             => tagger'[r].tag \in crossedTags',
         tagger'[r].at = "putVehicles" /\ tagger'[r].tags # None
           => tagger'[r].tags \ crossedTags' \subseteq T!Active,
         \A t \in Tags : T!Giving(t)' /\ T!Deleting(t)' => t \in crossedTags'
  PROVE  TagInv'
<1> USE DEF TagInv
<1>1. T!There' = T!There /\ T!Active' = T!Active /\ \A v \in Vehicles : T!Live(v)' = T!Live(v)
  BY DEF T!There, T!Active, T!Live
<1>2. UniqueTags'
  BY <1>1 DEF UniqueTags
<1>3. OwnRows'
  BY <1>1 DEF OwnRows
<1>4. SameTag' /\ KnownTag'
  BY <1>1 DEF SameTag, KnownTag
<1>5. NotInUse'
  BY <1>1 DEF NotInUse
<1>6. GivesActive'
  BY <1>1 DEF GivesActive
<1>7. Crossings'
  BY DEF Crossings
<1>8. T!NoDeadTag'
  BY <1>1 DEF T!NoDeadTag
<1> QED
  BY <1>2, <1>3, <1>4, <1>5, <1>6, <1>7, <1>8

(* A step that writes tag rows, or vehicles, and leaves the requests or ends *)
(* one.                                                                      *)
LEMMA FewerRequests ==
  ASSUME NEW r \in Pods, tagger' = tagger \/ tagger' = [tagger EXCEPT ![r] = T!Idle], TagsTyped
  PROVE  /\ \A o \in Pods : tagger'[o] = tagger[o] \/ tagger'[o] = T!Idle
         /\ \A t : (T!Giving(t)' => T!Giving(t)) /\ (T!Deleting(t)' => T!Deleting(t))
<1>1. \A o \in Pods : tagger'[o] = tagger[o] \/ tagger'[o] = T!Idle
  BY DEF TagsTyped
<1>2. ASSUME NEW t, T!Giving(t)'
      PROVE  T!Giving(t)
  BY <1>1, <1>2 DEF T!Giving, T!At, T!Idle
<1>3. ASSUME NEW t, T!Deleting(t)'
      PROVE  T!Deleting(t)
  BY <1>1, <1>3 DEF T!Deleting, T!Idle
<1> QED
  BY <1>1, <1>2, <1>3

LEMMA UpsertTagKeeps ==
  ASSUME TagInv, TagsTyped', NEW r \in Pods, NEW id \in TagRows, NEW tag \in Tags \cup {None},
         NEW back \in BOOLEAN, T!UpsertTag(r, id, tag, back)
  PROVE  TagInv'
<1> DEFINE q == [at |-> "stored", id |-> id, tag |-> tag, back |-> back]
<1>1. /\ tagger' = [tagger EXCEPT ![r] = q] /\ tagger[r].at = "idle"
      /\ UNCHANGED <<tagRow, vehicle, crossedTags, revived>>
  BY DEF T!UpsertTag, T!Begins, T!At
<1>2. tagger'[r] = q /\ \A o \in Pods \ {r} : tagger'[o] = tagger[o]
  BY <1>1 DEF TagInv, TagsTyped
<1>3. id \notin T!There => \A o \in Pods \ {r} :
        tagger[o].at \in {"stored", "putTag"} => tagger[o].id # id
  BY DEF T!UpsertTag, T!Idle
<1>4. \A t \in Tags : T!Giving(t)' /\ T!Deleting(t)' => T!Giving(t) /\ T!Deleting(t)
  BY <1>2 DEF T!Giving, T!Deleting, T!At
<1>5. \A t \in Tags : T!Giving(t)' /\ T!Deleting(t)' => t \in crossedTags'
  BY <1>1, <1>4 DEF TagInv, Crossings
<1> QED
  BY <1>1, <1>2, <1>3, <1>5, ReadersKeepTagInv

LEMMA CheckStoredKeeps ==
  ASSUME TagInv, TagsTyped', NEW r \in Pods, T!CheckStored(r)
  PROVE  TagInv'
<1>1. /\ \A o \in Pods \ {r} : tagger'[o] = tagger[o]
      /\ UNCHANGED <<tagRow, vehicle, crossedTags, revived>>
  BY DEF T!CheckStored, T!Ends, TagInv, TagsTyped
<1>2. tagger[r] \in [at: {"stored", "putTag"}, id: TagRows, tag: Tags \cup {None}, back: BOOLEAN]
  BY DEF T!CheckStored, T!At, TagInv, TagsTyped, TagRequests, T!Idle
<1>3. \/ tagger'[r] = T!Idle
      \/ /\ tagger'[r] = [tagger[r] EXCEPT !.at = "putTag"]
         /\ ~T!TagChanged(tagger[r].id, tagger[r].tag)
  BY DEF T!CheckStored, T!Ends, TagInv, TagsTyped
<1>4. \/ tagger'[r].at = "idle"
      \/ /\ tagger'[r].at = "putTag" /\ tagger'[r].id = tagger[r].id /\ tagger'[r].tag = tagger[r].tag
         /\ ~T!TagChanged(tagger[r].id, tagger[r].tag)
  BY <1>2, <1>3 DEF T!Idle
<1>5. tagger[r].at = "stored"
  BY DEF T!CheckStored, T!At
<1>6. \A t \in Tags : T!Giving(t)' /\ T!Deleting(t)' => t \in crossedTags'
  <2>1. \A t \in Tags : T!Giving(t)' /\ T!Deleting(t)' => T!Giving(t) /\ T!Deleting(t)
    BY <1>1, <1>4 DEF T!Giving, T!Deleting, T!At
  <2> QED
    BY <1>1, <2>1 DEF TagInv, Crossings
<1>7. tagger'[r].at \in {"stored", "putTag"} /\ tagger'[r].id \notin T!There
        => \A o \in Pods \ {r} : tagger[o].at \in {"stored", "putTag"} => tagger[o].id # tagger'[r].id
  BY <1>4, <1>5 DEF TagInv, OwnRows
<1>8. tagger'[r].at = "putTag" /\ tagger'[r].id \in T!There /\ tagger'[r].tag # None
        => tagger'[r].tag = tagRow[tagger'[r].id].tag
  BY <1>4 DEF T!TagChanged
<1> QED
  BY <1>1, <1>4, <1>6, <1>7, <1>8, ReadersKeepTagInv

LEMMA DeleteTagKeeps ==
  ASSUME TagInv, TagsTyped', NEW r \in Pods, NEW id \in TagRows, T!DeleteTag(r, id)
  PROVE  TagInv'
<1> DEFINE tag == tagRow[id].tag
           q == [at |-> IF ~tagRow[id].deleted THEN "count" ELSE "mark", id |-> id, tag |-> tag]
<1>1. /\ tagger' = [tagger EXCEPT ![r] = q] /\ tagger[r].at = "idle" /\ id \in T!There
      /\ UNCHANGED <<tagRow, vehicle, revived>>
      /\ crossedTags' = crossedTags \cup {t \in {tag} : T!Giving(t)}
  BY DEF T!DeleteTag, T!Begins, T!At
<1>2. tagger'[r] = q /\ \A o \in Pods \ {r} : tagger'[o] = tagger[o]
  BY <1>1 DEF TagInv, TagsTyped
<1>3. q.at \in {"count", "mark"} /\ q.id = id /\ q.tag = tag /\ (q.at = "mark" => tagRow[id].deleted)
  OBVIOUS
<1> HIDE DEF q
<1>4. ASSUME NEW t \in Tags, T!Giving(t)', T!Deleting(t)'
      PROVE  t \in crossedTags'
  <2>1. T!Giving(t)
    BY <1>2, <1>3, <1>4 DEF T!Giving, T!At
  <2>2. T!Deleting(t) \/ t = tag
    BY <1>2, <1>3, <1>4 DEF T!Deleting
  <2> QED
    BY <1>1, <2>1, <2>2 DEF TagInv, Crossings
<1>5. ASSUME NEW v \in Vehicles, q.at = "mark", T!Live(v), v \notin revived, tag \in vehicle[v].tags
      PROVE  tag \in crossedTags
  <2>1. tag \notin T!Active
    BY <1>1, <1>3, <1>5 DEF TagInv, UniqueTags, T!Active
  <2> QED
    BY <1>5, <2>1 DEF TagInv, T!NoDeadTag
<1> QED
  BY <1>1, <1>2, <1>3, <1>4, <1>5, ReadersKeepTagInv

LEMMA CountUseKeeps ==
  ASSUME TagInv, TagsTyped', NEW r \in Pods, T!CountUse(r)
  PROVE  TagInv'
<1>1. /\ \A o \in Pods \ {r} : tagger'[o] = tagger[o]
      /\ UNCHANGED <<tagRow, vehicle, crossedTags, revived>>
  BY DEF T!CountUse, T!Ends, TagInv, TagsTyped
<1>2. tagger[r] \in [at: {"count", "mark"}, id: TagRows, tag: Tags \cup {None}] /\ tagger[r].at = "count"
  BY DEF T!CountUse, T!At, TagInv, TagsTyped, TagRequests, T!Idle
<1>3. \/ tagger'[r] = T!Idle
      \/ tagger'[r] = [tagger[r] EXCEPT !.at = "mark"] /\ ~T!InUse(tagger[r].tag)
  BY DEF T!CountUse, T!Ends, TagInv, TagsTyped
<1>4. \/ tagger'[r].at = "idle"
      \/ /\ tagger'[r].at = "mark" /\ tagger'[r].id = tagger[r].id /\ tagger'[r].tag = tagger[r].tag
         /\ ~T!InUse(tagger[r].tag)
  BY <1>2, <1>3 DEF T!Idle
<1>5. \A t \in Tags : T!Giving(t)' /\ T!Deleting(t)' => t \in crossedTags'
  <2>1. \A t \in Tags : T!Giving(t)' /\ T!Deleting(t)' => T!Giving(t) /\ T!Deleting(t)
    BY <1>1, <1>2, <1>4 DEF T!Giving, T!Deleting, T!At
  <2> QED
    BY <1>1, <2>1 DEF TagInv, Crossings
<1>6. tagger[r].id \in T!There /\ tagger[r].tag = tagRow[tagger[r].id].tag
  BY <1>2 DEF TagInv, KnownTag
<1>7. \A v \in Vehicles : tagger'[r].at = "mark" /\ T!Live(v) => tagger'[r].tag \notin vehicle[v].tags
  BY <1>4 DEF T!InUse
<1> QED
  BY <1>1, <1>4, <1>5, <1>6, <1>7, ReadersKeepTagInv

LEMMA UpsertVehiclesKeeps ==
  ASSUME TagInv, TagsTyped', NEW r \in Pods, NEW numbers, NEW tags \in (SUBSET Tags) \cup {None},
         T!UpsertVehicles(r, numbers, tags)
  PROVE  TagInv'
<1> DEFINE q == [at |-> "putVehicles", id |-> None, batch |-> numbers, tags |-> tags]
<1>1. /\ tagger' = [tagger EXCEPT ![r] = q] /\ tagger[r].at = "idle"
      /\ UNCHANGED <<tagRow, vehicle, revived>> /\ (tags # None => tags \subseteq T!Active)
      /\ crossedTags' = crossedTags \cup {t \in Tags : tags # None /\ t \in tags /\ T!Deleting(t)}
  BY DEF T!UpsertVehicles, T!Begins, T!At
<1>2. tagger'[r] = q /\ \A o \in Pods \ {r} : tagger'[o] = tagger[o]
  BY <1>1 DEF TagInv, TagsTyped
<1>3. q.at = "putVehicles" /\ q.tags = tags
  OBVIOUS
<1> HIDE DEF q
<1>4. ASSUME NEW t \in Tags, T!Giving(t)', T!Deleting(t)'
      PROVE  t \in crossedTags'
  <2>1. T!Deleting(t)
    BY <1>2, <1>3, <1>4 DEF T!Deleting
  <2>2. T!Giving(t) \/ (tags # None /\ t \in tags)
    BY <1>2, <1>3, <1>4 DEF T!Giving, T!At
  <2> QED
    BY <1>1, <2>1, <2>2 DEF TagInv, Crossings
<1> QED
  BY <1>1, <1>2, <1>3, <1>4, ReadersKeepTagInv

LEMMA FailsKeepsTags ==
  ASSUME TagInv, TagsTyped', NEW r \in Pods, T!Fails(r)
  PROVE  TagInv'
<1>1. tagger' = [tagger EXCEPT ![r] = T!Idle] /\ UNCHANGED <<tagRow, vehicle, crossedTags, revived>>
  BY DEF T!Fails, T!Ends
<1>2. tagger'[r].at = "idle" /\ \A o \in Pods \ {r} : tagger'[o] = tagger[o]
  BY <1>1 DEF TagInv, TagsTyped, T!Idle
<1>3. \A t \in Tags : T!Giving(t)' /\ T!Deleting(t)' => t \in crossedTags'
  BY <1>1, FewerRequests DEF TagInv, Crossings
<1> QED
  BY <1>1, <1>2, <1>3, ReadersKeepTagInv

LEMMA PutTagKeeps ==
  ASSUME TagInv, TagsTyped', NEW r \in Pods, T!PutTag(r)
  PROVE  TagInv'
<1> USE DEF TagInv
<1> PICK q : q = tagger[r]
  OBVIOUS
<1> DEFINE new == [tag     |-> IF q.tag = None THEN tagRow[q.id].tag ELSE q.tag,
                   deleted |-> tagRow[q.id].deleted /\ q.id \in T!There /\ ~q.back]
<1>1. /\ tagger' = [tagger EXCEPT ![r] = T!Idle] /\ UNCHANGED <<vehicle, crossedTags, revived>>
      /\ q.at = "putTag" /\ q.id \in TagRows
      /\ tagRow' = tagRow \/ (tagRow' = [tagRow EXCEPT ![q.id] = new]
                              /\ (q.tag # None => ~T!TagTaken(q.id, q.tag)))
  BY DEF T!PutTag, T!Ends, T!At, TagsTyped, TagRequests, T!Idle
<1>2. /\ \A o \in Pods : tagger'[o] = tagger[o] \/ tagger'[o] = T!Idle
      /\ \A t : (T!Giving(t)' => T!Giving(t)) /\ (T!Deleting(t)' => T!Deleting(t))
  BY <1>1, FewerRequests
<1>3. q.id \in T!There /\ q.tag # None => q.tag = tagRow[q.id].tag
  BY <1>1 DEF SameTag
<1>4. new.tag = IF q.tag = None THEN tagRow[q.id].tag ELSE q.tag
  OBVIOUS
<1>5. q.id \in T!There /\ ~tagRow[q.id].deleted => ~new.deleted
  OBVIOUS
<1> HIDE DEF new
<1>6. \A i \in TagRows : i # q.id => tagRow'[i] = tagRow[i]
  BY <1>1 DEF TagsTyped
<1>7. tagRow'[q.id] = tagRow[q.id] \/ tagRow'[q.id] = new
  BY <1>1 DEF TagsTyped
<1>8. ASSUME NEW i \in T!There
      PROVE  i \in T!There' /\ tagRow'[i].tag = tagRow[i].tag
             /\ (~tagRow[i].deleted => ~tagRow'[i].deleted)
  BY <1>3, <1>4, <1>5, <1>6, <1>7, <1>8 DEF T!There
<1>9. T!Active \subseteq T!Active'
  BY <1>8 DEF T!Active
<1>10. T!There' \subseteq T!There \cup {q.id}
  BY <1>6 DEF T!There
<1>11. UniqueTags'
  <2>1. ASSUME NEW j \in T!There', j # q.id, q.id \in T!There'
        PROVE  tagRow'[j].tag # tagRow'[q.id].tag
    <3>1. j \in T!There /\ tagRow'[j].tag = tagRow[j].tag
      BY <1>8, <1>10, <2>1
    <3>2. CASE q.id \in T!There
      BY <1>8, <2>1, <3>1, <3>2 DEF UniqueTags
    <3>3. CASE q.id \notin T!There
      BY <1>1, <1>4, <1>7, <2>1, <3>1, <3>3 DEF T!There, T!TagTaken
    <3> QED
      BY <3>2, <3>3
  <2> QED
    BY <1>8, <1>10, <2>1 DEF UniqueTags
<1>12. OwnRows' /\ KnownTag'
  BY <1>2, <1>8 DEF OwnRows, KnownTag, T!Idle
<1>13. SameTag'
  <2>1. ASSUME NEW o \in Pods, tagger'[o].at = "putTag", tagger'[o].id \notin T!There
        PROVE  tagger'[o].id \notin T!There'
    <3>1. o # r /\ tagger'[o] = tagger[o]
      BY <1>1, <1>2, <2>1 DEF TagsTyped, T!Idle
    <3>2. tagger[o].id # q.id
      BY <1>1, <2>1, <3>1 DEF OwnRows
    <3> QED
      BY <1>10, <2>1, <3>1, <3>2
  <2> QED
    BY <1>2, <1>8, <2>1 DEF SameTag, T!Idle
<1>14. NotInUse'
  BY <1>1, <1>2 DEF NotInUse, T!Live, T!Idle
<1>15. GivesActive'
  BY <1>1, <1>2, <1>9 DEF GivesActive, T!Idle
<1>16. Crossings'
  BY <1>1, <1>2 DEF Crossings
<1>17. T!NoDeadTag'
  BY <1>1, <1>9 DEF T!NoDeadTag, T!Live
<1> QED
  BY <1>11, <1>12, <1>13, <1>14, <1>15, <1>16, <1>17

LEMMA MarkDeletedKeeps ==
  ASSUME TagInv, TagsTyped', NEW r \in Pods, T!MarkDeleted(r)
  PROVE  TagInv'
<1> USE DEF TagInv
<1> PICK q : q = tagger[r]
  OBVIOUS
<1>1. /\ tagger' = [tagger EXCEPT ![r] = T!Idle] /\ UNCHANGED <<vehicle, crossedTags, revived>>
      /\ q.at = "mark" /\ q.id \in TagRows
      /\ tagRow' = [tagRow EXCEPT ![q.id] = [tagRow[q.id] EXCEPT !.deleted = TRUE]]
  BY DEF T!MarkDeleted, T!Ends, T!At, TagsTyped, TagRequests, T!Idle
<1>2. /\ \A o \in Pods : tagger'[o] = tagger[o] \/ tagger'[o] = T!Idle
      /\ \A t : (T!Giving(t)' => T!Giving(t)) /\ (T!Deleting(t)' => T!Deleting(t))
  BY <1>1, FewerRequests
<1>3. q.id \in T!There /\ q.tag = tagRow[q.id].tag
  BY <1>1 DEF KnownTag
<1>4. \A i \in TagRows : tagRow'[i].tag = tagRow[i].tag /\ (i # q.id => tagRow'[i] = tagRow[i])
  BY <1>1 DEF TagsTyped
<1>5. T!There' = T!There
  BY <1>4 DEF T!There
<1>6. T!Active \ {q.tag} \subseteq T!Active'
  BY <1>3, <1>4, <1>5 DEF T!Active, T!There
<1>7. UniqueTags' /\ OwnRows' /\ SameTag' /\ KnownTag'
  BY <1>2, <1>4, <1>5 DEF UniqueTags, OwnRows, SameTag, KnownTag, T!There, T!Idle
<1>8. NotInUse'
  BY <1>1, <1>2 DEF NotInUse, T!Live, T!Idle
<1>9. GivesActive'
  <2>1. ASSUME NEW o \in Pods, tagger'[o].at = "putVehicles", tagger'[o].tags # None
        PROVE  tagger'[o].tags \ crossedTags \subseteq T!Active'
    <3>1. tagger'[o] = tagger[o]
      BY <1>2, <2>1 DEF T!Idle
    <3>2. tagger[o].tags \subseteq Tags
      BY <2>1, <3>1 DEF TagsTyped, TagRequests, T!Idle
    <3>3. q.tag \in tagger[o].tags => q.tag \in crossedTags
      BY <1>1, <2>1, <3>1, <3>2 DEF Crossings, T!Giving, T!Deleting, T!At
    <3> QED
      BY <1>6, <2>1, <3>1, <3>3 DEF GivesActive
  <2> QED
    BY <1>1, <2>1 DEF GivesActive
<1>10. Crossings'
  BY <1>1, <1>2 DEF Crossings
<1>11. T!NoDeadTag'
  <2>1. \A v \in Vehicles : T!Live(v) /\ v \notin revived /\ q.tag \in vehicle[v].tags => q.tag \in crossedTags
    BY <1>1 DEF NotInUse
  <2> QED
    BY <1>1, <1>6, <2>1 DEF T!NoDeadTag, T!Live
<1> QED
  BY <1>7, <1>8, <1>9, <1>10, <1>11

(* A step that writes vehicles: what is on one afterwards is crossed, dead    *)
(* and known to be, or active.                                                *)
LEMMA WritersKeepTagInv ==
  ASSUME TagInv, TagsTyped', UNCHANGED tagRow, crossedTags \subseteq crossedTags',
         NEW r \in Pods, tagger' = tagger \/ tagger' = [tagger EXCEPT ![r] = T!Idle],
         \A v \in Vehicles, t \in Tags :
           T!Live(v)' /\ v \notin revived' /\ t \in vehicle'[v].tags /\ T!Deleting(t)
             => t \in crossedTags' \/ (T!Live(v) /\ v \notin revived /\ t \in vehicle[v].tags),
         \A v \in Vehicles : T!Live(v)' /\ v \notin revived' => vehicle'[v].tags \ crossedTags' \subseteq T!Active
  PROVE  TagInv'
<1> USE DEF TagInv
<1>1. T!There' = T!There /\ T!Active' = T!Active
  BY DEF T!There, T!Active
<1>2. /\ \A o \in Pods : tagger'[o] = tagger[o] \/ tagger'[o] = T!Idle
      /\ \A t : (T!Giving(t)' => T!Giving(t)) /\ (T!Deleting(t)' => T!Deleting(t))
  BY FewerRequests
<1>3. UniqueTags' /\ OwnRows' /\ SameTag' /\ KnownTag'
  BY <1>1, <1>2 DEF UniqueTags, OwnRows, SameTag, KnownTag, T!Idle
<1>4. NotInUse'
  <2>1. ASSUME NEW o \in Pods, NEW v \in Vehicles, tagger'[o].at = "mark", T!Live(v)',
               v \notin revived', tagger'[o].tag \in vehicle'[v].tags
        PROVE  tagger'[o].tag \in crossedTags'
    <3>1. tagger'[o] = tagger[o]
      BY <1>2, <2>1 DEF T!Idle
    <3>2. T!Deleting(tagger[o].tag) /\ tagger[o].tag \in Tags
      BY <2>1, <3>1 DEF T!Deleting, TagsTyped
    <3> QED
      BY <2>1, <3>1, <3>2 DEF NotInUse
  <2> QED
    BY <2>1 DEF NotInUse
<1>5. GivesActive'
  BY <1>1, <1>2 DEF GivesActive, T!Idle
<1>6. Crossings'
  BY <1>2 DEF Crossings
<1>7. T!NoDeadTag'
  BY <1>1 DEF T!NoDeadTag
<1> QED
  BY <1>3, <1>4, <1>5, <1>6, <1>7

LEMMA PutVehiclesKeeps ==
  ASSUME TagInv, TagsTyped', NEW r \in Pods, NEW new \in SUBSET Vehicles, T!PutVehicles(r, new)
  PROVE  TagInv'
<1> DEFINE q == tagger[r]
           written == new \cup {v \in Vehicles : T!Live(v) /\ NumberOf[v] \in q.batch}
<1>1. /\ tagger' = [tagger EXCEPT ![r] = T!Idle] /\ UNCHANGED <<tagRow, crossedTags>>
      /\ q.at = "putVehicles" /\ \A v \in new : vehicle[v] = T!Absent
      /\ revived' = IF q.tags # None THEN revived \ written ELSE revived
      /\ vehicle' = [v \in Vehicles |->
           IF v \in written
           THEN [is |-> "live", tags |-> IF q.tags # None THEN q.tags ELSE vehicle[v].tags]
           ELSE vehicle[v]]
  BY DEF T!PutVehicles, T!Ends, T!At
<1>2. \A v \in written : v \in new \/ T!Live(v)
  OBVIOUS
<1> HIDE DEF written
<1>3. ASSUME NEW v \in Vehicles, T!Live(v)', v \notin revived'
      PROVE  \/ q.tags # None /\ vehicle'[v].tags = q.tags
             \/ vehicle'[v].tags = vehicle[v].tags /\ v \notin revived /\ T!Live(v)
             \/ vehicle'[v].tags = {}
  BY <1>1, <1>2, <1>3 DEF T!Live, T!Absent
<1>4. q.tags # None => q.tags \ crossedTags \subseteq T!Active
  BY <1>1 DEF TagInv, GivesActive
<1>5. \A t \in Tags : q.tags # None /\ t \in q.tags /\ T!Deleting(t) => t \in crossedTags
  BY <1>1 DEF TagInv, Crossings, T!Giving, T!At
<1>6. \A v \in Vehicles, t \in Tags :
        T!Live(v)' /\ v \notin revived' /\ t \in vehicle'[v].tags /\ T!Deleting(t)
          => t \in crossedTags' \/ (T!Live(v) /\ v \notin revived /\ t \in vehicle[v].tags)
  BY <1>1, <1>3, <1>5
<1>7. \A v \in Vehicles : T!Live(v)' /\ v \notin revived' => vehicle'[v].tags \ crossedTags' \subseteq T!Active
  BY <1>1, <1>3, <1>4 DEF TagInv, T!NoDeadTag
<1> QED
  BY <1>1, <1>6, <1>7, WritersKeepTagInv

LEMMA DeleteVehicleKeeps ==
  ASSUME TagInv, TagsTyped', NEW v \in Vehicles, T!DeleteVehicle(v)
  PROVE  TagInv'
<1>1. /\ vehicle' = [vehicle EXCEPT ![v].is = "deleted"]
      /\ UNCHANGED <<tagRow, tagger, crossedTags, revived>>
  BY DEF T!DeleteVehicle
<1>2. \A w \in Vehicles : T!Live(w)' => T!Live(w) /\ vehicle'[w].tags = vehicle[w].tags
  BY <1>1 DEF TagInv, TagsTyped, T!Live
<1>3. T!There' = T!There /\ T!Active' = T!Active /\ \A t : T!Giving(t)' = T!Giving(t) /\ T!Deleting(t)' = T!Deleting(t)
  BY <1>1 DEF T!There, T!Active, T!Giving, T!Deleting, T!At
<1>4. UniqueTags' /\ OwnRows' /\ SameTag' /\ KnownTag' /\ GivesActive' /\ Crossings'
  BY <1>1, <1>3 DEF TagInv, UniqueTags, OwnRows, SameTag, KnownTag, GivesActive, Crossings
<1>5. NotInUse' /\ T!NoDeadTag'
  BY <1>1, <1>2, <1>3 DEF TagInv, NotInUse, T!NoDeadTag
<1> QED
  BY <1>4, <1>5 DEF TagInv

LEMMA UpsertVehicleRowKeeps ==
  ASSUME TagInv, TagsTyped', NEW v \in Vehicles, T!UpsertVehicleRow(v)
  PROVE  TagInv'
<1>1. /\ vehicle' = [vehicle EXCEPT ![v].is = "live"] /\ UNCHANGED <<tagRow, tagger>>
      /\ revived' = IF vehicle[v].tags \subseteq T!Active THEN revived \ {v} ELSE revived \cup {v}
      /\ crossedTags' = crossedTags \cup {t \in vehicle[v].tags : T!Deleting(t)}
  BY DEF T!UpsertVehicleRow
<1>2. /\ \A w \in Vehicles : vehicle'[w].tags = vehicle[w].tags
      /\ \A w \in Vehicles \ {v} : T!Live(w)' = T!Live(w)
  BY <1>1 DEF TagInv, TagsTyped, T!Live
<1>3. T!There' = T!There /\ T!Active' = T!Active /\ \A t : T!Giving(t)' = T!Giving(t) /\ T!Deleting(t)' = T!Deleting(t)
  BY <1>1 DEF T!There, T!Active, T!Giving, T!Deleting, T!At
<1>4. UniqueTags' /\ OwnRows' /\ SameTag' /\ KnownTag' /\ GivesActive' /\ Crossings'
  BY <1>1, <1>3 DEF TagInv, UniqueTags, OwnRows, SameTag, KnownTag, GivesActive, Crossings
<1>5. NotInUse'
  <2>1. ASSUME NEW r \in Pods, tagger[r].at = "mark", tagger[r].tag \in vehicle[v].tags
        PROVE  tagger[r].tag \in crossedTags'
    BY <1>1, <2>1 DEF T!Deleting
  <2> QED
    BY <1>1, <1>2, <2>1 DEF TagInv, NotInUse
<1>6. T!NoDeadTag'
  BY <1>1, <1>2, <1>3 DEF TagInv, T!NoDeadTag
<1> QED
  BY <1>4, <1>5, <1>6 DEF TagInv

LEMMA TagInvKept ==
  ASSUME TagInv, [T!Next]_tagVars
  PROVE  TagInv'
<1>1. TagsTyped'
  BY TagsStayTyped DEF TagInv
<1>2. CASE T!Next
  BY <1>1, <1>2, UpsertTagKeeps, CheckStoredKeeps, PutTagKeeps, DeleteTagKeeps, CountUseKeeps,
     MarkDeletedKeeps, UpsertVehiclesKeeps, PutVehiclesKeeps, FailsKeepsTags, DeleteVehicleKeeps,
     UpsertVehicleRowKeeps DEF T!Next
<1>3. CASE UNCHANGED tagVars
  BY <1>1, <1>3 DEF tagVars, TagInv, UniqueTags, OwnRows, SameTag, KnownTag, NotInUse, GivesActive,
     Crossings, T!NoDeadTag, T!Active, T!There, T!Live, T!Giving, T!Deleting, T!At
<1> QED
  BY <1>2, <1>3

(* The tags of a vehicle are active ones, whatever requests write tags and   *)
(* vehicles at once (upsert_one_row, delete_one_row, upsert_vehicles), but   *)
(* for a tag that was deleted while a vehicle was given it, and the tags of  *)
(* a deleted vehicle that came back.                                         *)
THEOREM NoDeadTagHolds == PartsSpec => []NoDeadTag
<1>1. T!Init /\ [][T!Next]_tagVars => []TagInv
  BY TagInvInitially, TagInvKept, PTL
<1>2. TagInv => NoDeadTag
  BY DEF TagInv, NoDeadTag
<1> QED
  BY <1>1, <1>2, TagsStandAlone, PTL

-----------------------------------------------------------------------------
(* Stops of a route                                                        *)

LEMMA PointsStandAlone == PartsSpec => R!Init /\ [][R!Next]_pointVars
<1>1. PartsInit => R!Init
  BY DEF PartsInit
<1>2. [PartsNext]_partsVars => [R!Next]_pointVars
  BY DEF PartsNext, partsVars, pointVars
<1> QED
  BY <1>1, <1>2, PTL DEF PartsSpec

Inserting == [at: {"insert"}, position: Nat, stop: Stops, behind: SUBSET R!Points]
Replacing == [at: {"collapse", "drop"}, to: Stops, drop: SUBSET R!Points, changed: SUBSET R!Points]
Numbering == [at: {"renumber"}, order: UNION {[D -> Nat] : D \in SUBSET R!Points}]

PointsTyped ==
  /\ point \in [R!Points -> [there: BOOLEAN, order: Nat, stop: Stops \cup {"none"}]]
  /\ editing \in [Pods -> Inserting \cup Replacing \cup Numbering \cup {R!Idle}]
  /\ stale \in SUBSET Pods

(* The stops a new one is to come before stand behind the room made for it. *)
Room ==
  /\ \A p \in R!Live : point[p].stop \in Stops
  /\ \A r \in Pods : editing[r].at = "insert" =>
    \A p \in editing[r].behind : /\ point[p].stop \in Stops
                                 /\ point[p].there => point[p].order > editing[r].position

(* The numbers a request brings are in the order the stops have now, unless *)
(* a stop has gone in or been moved since.                                  *)
NumbersStand ==
  \A r \in Pods \ stale : editing[r].at = "renumber" =>
    /\ R!Live \subseteq DOMAIN editing[r].order
    /\ \A p, q \in R!Live : R!Before(p, q) => editing[r].order[p] < editing[r].order[q]

PointInv == PointsTyped /\ Room /\ NumbersStand

LEMMA BeforeIsTotal ==
  ASSUME PointsTyped, NEW p \in R!Points, NEW q \in R!Points
  PROVE  /\ p # q => R!Before(p, q) \/ R!Before(q, p)
         /\ ~(R!Before(p, q) /\ R!Before(q, p))
         /\ \A o \in R!Points : R!Before(o, p) /\ R!Before(p, q) => R!Before(o, q)
BY PointsAssumption DEF PointsTyped, R!Before, R!Points, R!NoPoint

LEMMA SameCount == ASSUME NEW D PROVE R!Cardinality(D) = Cardinality(D)
BY DEF R!Cardinality, Cardinality

LEMMA AheadGrows ==
  ASSUME PointsTyped, NEW p \in R!Live, NEW q \in R!Live, R!Before(p, q)
  PROVE  Cardinality(R!Ahead(p)) < Cardinality(R!Ahead(q))
<1>1. IsFiniteSet(R!Points)
  BY PointsAssumption, FS_Interval DEF R!Points
<1>2. R!Ahead(q) \subseteq R!Points /\ IsFiniteSet(R!Ahead(q))
  BY <1>1, FS_Subset DEF R!Ahead, R!Live
<1>3. R!Ahead(p) \subseteq R!Ahead(q)
  BY BeforeIsTotal DEF R!Ahead, R!Live
<1>4. p \in R!Ahead(q) /\ p \notin R!Ahead(p)
  BY BeforeIsTotal DEF R!Ahead, R!Live
<1>5. /\ Cardinality(R!Ahead(p)) \in Nat /\ Cardinality(R!Ahead(q)) \in Nat
      /\ Cardinality(R!Ahead(p)) <= Cardinality(R!Ahead(q))
      /\ Cardinality(R!Ahead(p)) # Cardinality(R!Ahead(q))
  BY <1>2, <1>3, <1>4, FS_Subset, FS_CardinalityType
<1> QED
  BY <1>5

LEMMA AheadIsCounted ==
  ASSUME NEW p \in R!Live
  PROVE  Cardinality(R!Ahead(p)) \in Nat
<1>1. IsFiniteSet(R!Points)
  BY PointsAssumption, FS_Interval DEF R!Points
<1> QED
  BY <1>1, FS_Subset, FS_CardinalityType DEF R!Ahead, R!Live

LEMMA PointInvInitially == R!Init => PointInv
<1> SUFFICES ASSUME R!Init
             PROVE  PointInv
  OBVIOUS
<1>1. PointsTyped
  <2>1. ASSUME NEW p \in 1..MaxPoints
        PROVE  /\ FirstPoints[p] \in [there: BOOLEAN, order: Nat, stop: Stops \cup {"none"}]
               /\ FirstPoints[p].there => FirstPoints[p].stop \in Stops
    <3>1. CASE FirstPoints[p] \in [there: BOOLEAN, order: Nat, stop: Stops]
      BY <3>1
    <3>2. CASE FirstPoints[p] = [there |-> FALSE, order |-> 0, stop |-> "none"]
      BY <3>2
    <3> QED
      BY <3>1, <3>2, PointsAssumption
  <2>2. FirstPoints \in [R!Points -> [there: BOOLEAN, order: Nat, stop: Stops \cup {"none"}]]
    BY <2>1, PointsAssumption DEF R!Points
  <2> QED
    BY <2>2 DEF R!Init, PointsTyped
<1>2. \A p \in R!Live : point[p].stop \in Stops
  <2>1. ASSUME NEW p \in R!Live
        PROVE  FirstPoints[p].stop \in Stops
    <3>1. p \in 1..MaxPoints /\ FirstPoints[p].there
      BY DEF R!Live, R!Points, R!Init
    <3> QED
      BY <3>1, PointsAssumption
  <2> QED
    BY <2>1 DEF R!Init
<1>3. \A r \in Pods : editing[r].at = "idle"
  BY DEF R!Init, R!Idle
<1> QED
  BY <1>1, <1>2, <1>3 DEF PointInv, Room, NumbersStand

LEMMA PointsStayTyped ==
  ASSUME PointsTyped, [R!Next]_pointVars
  PROVE  PointsTyped'
<1> USE DEF PointsTyped
<1>1. ASSUME NEW r \in Pods, NEW position \in 1..MaxOrder, NEW stop \in Stops,
             R!Shift(r, position, stop)
      PROVE  PointsTyped'
  <2>1. ASSUME NEW p \in R!Live
        PROVE  [point[p] EXCEPT !.order = @ + 1] \in [there: BOOLEAN, order: Nat, stop: Stops \cup {"none"}]
    BY DEF R!Live
  <2>2. point' \in [R!Points -> [there: BOOLEAN, order: Nat, stop: Stops \cup {"none"}]]
    BY <1>1, <2>1 DEF R!Shift
  <2>3. \E q \in Inserting : R!Begins(r, q)
    BY <1>1, PointsAssumption DEF R!Shift, Inserting, R!Live
  <2> QED
    BY <1>1, <2>2, <2>3 DEF R!Shift, R!Begins
<1>2. ASSUME NEW r \in Pods, R!Insert(r)
      PROVE  PointsTyped'
  <2>1. editing[r] \in Inserting
    BY <1>2 DEF R!Insert, R!At, Inserting, Replacing, Numbering, R!Idle
  <2>2. [there |-> TRUE, order |-> editing[r].position, stop |-> editing[r].stop]
          \in [there: BOOLEAN, order: Nat, stop: Stops]
    BY <2>1 DEF Inserting
  <2> QED
    BY <1>2, <2>2 DEF R!Insert, R!Ends, R!At, R!Outdates
<1>3. ASSUME NEW r \in Pods, NEW from \in (SUBSET Stops) \ {{}}, NEW to \in Stops,
             R!Replace(r, from, to)
      PROVE  PointsTyped'
  <2>1. \E q \in Replacing : R!Begins(r, q)
    BY <1>3 DEF R!Replace, Replacing, R!Live
  <2> QED
    BY <1>3, <2>1 DEF R!Replace, R!Begins
<1>4. ASSUME NEW r \in Pods, R!Collapse(r)
      PROVE  PointsTyped'
  <2>1. editing[r] \in Replacing
    BY <1>4 DEF R!Collapse, R!At, Inserting, Replacing, Numbering, R!Idle
  <2>2. [editing[r] EXCEPT !.at = "drop", !.drop = {p \in R!Live : R!RepeatsStop(r, p)}] \in Replacing
    BY <2>1 DEF Replacing, R!Live
  <2> QED
    BY <1>4, <2>2 DEF R!Collapse
<1>5. ASSUME NEW r \in Pods, R!Replaced(r)
      PROVE  PointsTyped'
  <2>0. R!At(r, "drop")
    BY <1>5 DEF R!Replaced
  <2>1. editing[r] \in Replacing
    BY <2>0 DEF R!At, Inserting, Replacing, Numbering, R!Idle
  <2>2. ASSUME NEW p \in R!Points
        PROVE  [point[p] EXCEPT !.stop = R!Seen(r, p), !.there = @ /\ p \notin editing[r].drop]
                 \in [there: BOOLEAN, order: Nat, stop: Stops \cup {"none"}]
    <3>1. point[p] \in [there: BOOLEAN, order: Nat, stop: Stops \cup {"none"}]
      OBVIOUS
    <3>2. R!Seen(r, p) \in Stops \cup {"none"}
      BY <2>1, <3>1 DEF R!Seen, Replacing
    <3> QED
      BY <3>1, <3>2
  <2> QED
    BY <1>5, <2>2 DEF R!Replaced, R!Ends
<1>6. ASSUME NEW r \in Pods, R!Read(r)
      PROVE  PointsTyped'
  <2>1. R!Numbers \in [R!Live -> Nat]
    <3>1. \A p \in R!Live : Cardinality(R!Ahead(p)) + 1 \in Nat
      BY AheadIsCounted
    <3> QED
      BY <3>1, SameCount DEF R!Numbers
  <2>2. [at |-> "renumber", order |-> R!Numbers] \in Numbering
    BY <2>1 DEF Numbering, R!Live
  <2> QED
    BY <1>6, <2>2 DEF R!Read, R!Begins
<1>7. ASSUME NEW r \in Pods, R!Renumber(r)
      PROVE  PointsTyped'
  <2>1. editing[r] \in Numbering
    BY <1>7 DEF R!Renumber, R!At, Inserting, Replacing, Numbering, R!Idle
  <2>2. \A p \in DOMAIN editing[r].order : editing[r].order[p] \in Nat
    BY <2>1 DEF Numbering
  <2>3. ASSUME NEW p \in R!Points, p \in DOMAIN editing[r].order
        PROVE  [point[p] EXCEPT !.order = editing[r].order[p]]
                 \in [there: BOOLEAN, order: Nat, stop: Stops \cup {"none"}]
    BY <2>2, <2>3 DEF R!NoPoint
  <2> QED
    BY <1>7, <2>3 DEF R!Renumber, R!Ends, R!Outdates
<1>8. ASSUME NEW p \in R!Points, NEW new \in RowsByHand, R!WriteRow(p, new)
      PROVE  PointsTyped'
  <2>1. new \in [there: BOOLEAN, order: Nat, stop: Stops \cup {"none"}]
    BY PointsAssumption
  <2> QED
    BY <1>8, <2>1 DEF R!WriteRow, R!Outdates
<1>9. CASE UNCHANGED pointVars
  BY <1>9 DEF pointVars
<1> HIDE DEF PointsTyped
<1> QED
  BY <1>1, <1>2, <1>3, <1>4, <1>5, <1>6, <1>7, <1>8, <1>9 DEF R!Next

(* Numbers that stood stand after a step that adds no stop and moves none   *)
(* past another.                                                            *)
LEMMA NumbersCarry ==
  ASSUME PointsTyped, PointsTyped', NumbersStand, R!Live' \subseteq R!Live,
         \A p, q \in R!Live' : R!Before(p, q) => R!Before(p, q)',
         NEW r \in Pods \ stale, editing'[r] = editing[r], editing[r].at = "renumber"
  PROVE  /\ R!Live' \subseteq DOMAIN editing'[r].order
         /\ \A p, q \in R!Live' : R!Before(p, q)' => editing'[r].order[p] < editing'[r].order[q]
<1>1. ASSUME NEW p \in R!Live', NEW q \in R!Live', R!Before(p, q)'
      PROVE  R!Before(p, q)
  <2>1. p \in R!Points /\ q \in R!Points
    BY DEF R!Live
  <2>2. ~R!Before(q, p)' /\ p # q
    BY <1>1, <2>1, PointsAssumption DEF PointsTyped, R!Before, R!Points
  <2> QED
    BY <2>1, <2>2, BeforeIsTotal
<1> QED
  BY <1>1 DEF NumbersStand

LEMMA OrderStep ==
  ASSUME PointInv, PointsTyped', [R!Next]_pointVars
  PROVE  Room' /\ NumbersStand' /\ R!KeepsOrder
<1>0. PointsTyped /\ Room /\ NumbersStand
  BY DEF PointInv
<1>1. ASSUME NEW r \in Pods, NEW position \in 1..MaxOrder, NEW stop \in Stops,
             R!Shift(r, position, stop)
      PROVE  Room' /\ NumbersStand' /\ R!KeepsOrder
  <2>1. ASSUME NEW p \in R!Points
        PROVE  /\ point'[p].there = point[p].there /\ point'[p].stop = point[p].stop
               /\ p \in R!Live /\ point[p].order >= position => point'[p].order = point[p].order + 1
               /\ p \in R!Live /\ ~(point[p].order >= position) => point'[p].order = point[p].order
               /\ p \notin R!Live => point'[p].order = point[p].order
    BY <1>0, <1>1 DEF R!Shift, R!Shifted, PointsTyped
  <2>2. R!Live' = R!Live
    BY <2>1 DEF R!Live
  <2>3. ASSUME NEW p \in R!Live, NEW q \in R!Live, R!Before(p, q)
        PROVE  R!Before(p, q)'
    <3>1. /\ point[p].order \in Nat /\ point[q].order \in Nat /\ position \in Nat
          /\ p \in R!Points /\ q \in R!Points
      BY <1>0, PointsAssumption DEF PointsTyped, R!Live
    <3>2. point'[p].order < point'[q].order \/ (point'[p].order = point'[q].order /\ p < q)
      BY <2>1, <2>3, <3>1 DEF R!Before
    <3> QED
      BY <3>2 DEF R!Before
  <2>4. stale' = stale /\ R!Begins(r, [at |-> "insert", position |-> position, stop |-> stop,
                behind |-> {p \in R!Live : point[p].order >= position}])
    BY <1>1 DEF R!Shift
  <2>5. /\ editing'[r].at = "insert" /\ editing'[r].position = position
        /\ editing'[r].behind = {p \in R!Live : point[p].order >= position}
        /\ \A o \in Pods \ {r} : editing'[o] = editing[o]
    BY <1>0, <2>4 DEF R!Begins, PointsTyped
  <2>6. NumbersStand'
    BY <1>0, <2>2, <2>3, <2>4, <2>5, NumbersCarry DEF NumbersStand
  <2>7. \A p \in R!Points : point[p].order \in Nat /\ point'[p].order >= point[p].order
    BY <1>0, <2>1 DEF PointsTyped
  <2>8. ASSUME NEW o \in Pods, editing'[o].at = "insert", NEW p \in editing'[o].behind
        PROVE  point'[p].stop \in Stops /\ (point'[p].there => point'[p].order > editing'[o].position)
    <3>1. CASE o = r
      <4>1. p \in R!Live /\ p \in R!Points /\ point[p].order >= position
        BY <2>5, <2>8, <3>1 DEF R!Live
      <4>2. point'[p].order = point[p].order + 1 /\ position \in Nat
        BY <2>1, <4>1, PointsAssumption
      <4> QED
        BY <1>0, <2>1, <2>5, <2>7, <3>1, <4>1, <4>2 DEF Room
    <3>2. CASE o # r
      <4>1. editing[o] \in Inserting
        BY <1>0, <2>5, <2>8, <3>2 DEF PointsTyped, Inserting, Replacing, Numbering, R!Idle
      <4>2. p \in R!Points /\ editing[o].position \in Nat /\ editing'[o] = editing[o]
        BY <2>5, <2>8, <3>2, <4>1 DEF Inserting
      <4>3. point[p].stop \in Stops /\ (point[p].there => point[p].order > editing[o].position)
        BY <1>0, <2>8, <4>2 DEF Room
      <4> QED
        BY <2>1, <2>7, <4>2, <4>3
    <3> QED
      BY <3>1, <3>2
  <2>9. \A p \in R!Live' : point'[p].stop \in Stops
    BY <1>0, <2>1, <2>2 DEF Room, R!Live
  <2>10. Room'
    BY <2>8, <2>9 DEF Room
  <2>11. R!KeepsOrder
    BY <2>2, <2>3 DEF R!KeepsOrder
  <2> QED
    BY <2>6, <2>10, <2>11
<1>2. ASSUME NEW r \in Pods, R!Insert(r)
      PROVE  Room' /\ NumbersStand' /\ R!KeepsOrder
  <2>1. PICK n \in R!Points :
             /\ point[n] = R!NoPoint
             /\ point' = [point EXCEPT ![n] =
                  [there |-> TRUE, order |-> editing[r].position, stop |-> editing[r].stop]]
    BY <1>2 DEF R!Insert
  <2>2. editing[r] \in Inserting /\ editing[r].at = "insert"
    BY <1>0, <1>2 DEF R!Insert, R!At, PointsTyped, Inserting, Replacing, Numbering, R!Idle
  <2>3. /\ n \notin R!Live /\ R!Live' = R!Live \cup {n}
        /\ \A p \in R!Points \ {n} : point'[p] = point[p]
        /\ point'[n].order = editing[r].position /\ point'[n].stop = editing[r].stop
    BY <1>0, <2>1 DEF R!Live, R!NoPoint, PointsTyped
  <2>4. \A p, q \in R!Live \cap R!Live' : R!Before(p, q) => R!Before(p, q)'
    BY <2>3 DEF R!Before, R!Live
  <2>5. editing' = [editing EXCEPT ![r] = R!Idle]
    BY <1>2 DEF R!Insert, R!Ends
  <2>6. editing'[r].at = "idle" /\ \A o \in Pods \ {r} : editing'[o] = editing[o]
    BY <1>0, <2>5 DEF PointsTyped, R!Idle
  <2>7. NumbersStand'
    <3>1. \A o \in Pods \ stale' : editing[o].at # "renumber"
      BY <1>2 DEF R!Insert, R!At, R!Outdates
    <3> QED
      BY <2>6, <3>1 DEF NumbersStand
  <2>8. ASSUME NEW o \in Pods, editing[o].at = "insert", NEW p \in editing[o].behind
        PROVE  p \in R!Points \ {n}
    <3>1. editing[o] \in Inserting
      BY <1>0, <2>8 DEF PointsTyped, Inserting, Replacing, Numbering, R!Idle
    <3>2. p \in R!Points /\ point[p].stop \in Stops
      BY <1>0, <2>8, <3>1 DEF Room, Inserting
    <3> QED
      BY <2>1, <3>2, PointsAssumption DEF R!NoPoint
  <2>9. Room'
    <3>1. \A p \in R!Live' : point'[p].stop \in Stops
      BY <1>0, <2>2, <2>3 DEF Room, R!Live, Inserting
    <3>2. \A o \in Pods : editing'[o].at = "insert" => o # r /\ editing'[o] = editing[o]
      BY <2>6
    <3> QED
      BY <1>0, <2>3, <2>8, <3>1, <3>2 DEF Room
  <2>10. ASSUME NEW o \in Pods, R!At(o, "insert"), ~R!At(o, "insert")',
               NEW p \in editing[o].behind \cap R!Live, NEW q \in R!Live' \ R!Live
        PROVE  R!Before(q, p)'
    <3>1. o = r /\ q = n
      BY <2>3, <2>6, <2>10 DEF R!At
    <3>2. point[p].order > editing[r].position /\ p \in R!Points \ {n}
      BY <1>0, <2>2, <2>8, <2>10, <3>1 DEF Room, R!Live
    <3>3. point[p].order \in Nat /\ editing[r].position \in Nat
      BY <1>0, <2>2, <3>2 DEF PointsTyped, Inserting
    <3> QED
      BY <2>3, <3>1, <3>2, <3>3 DEF R!Before
  <2>11. R!KeepsOrder
    BY <2>4, <2>10 DEF R!KeepsOrder
  <2> QED
    BY <2>7, <2>9, <2>11
<1>3. ASSUME UNCHANGED <<point, stale>>, NEW r \in Pods,
             \A o \in Pods \ {r} : editing'[o] = editing[o],
             editing'[r].at \in {"collapse", "drop"}
      PROVE  Room' /\ NumbersStand' /\ R!KeepsOrder
  <2>1. R!Live' = R!Live /\ \A p, q \in R!Live : R!Before(p, q)' <=> R!Before(p, q)
    BY <1>3 DEF R!Live, R!Before
  <2>2. \A o \in Pods : editing'[o].at \in {"insert", "renumber"} => editing'[o] = editing[o]
    BY <1>3
  <2>3. Room'
    BY <1>0, <1>3, <2>1, <2>2 DEF Room
  <2>4. NumbersStand'
    BY <1>0, <1>3, <2>1, <2>2 DEF NumbersStand
  <2> QED
    BY <2>1, <2>3, <2>4 DEF R!KeepsOrder
<1>4. ASSUME NEW r \in Pods, NEW from \in (SUBSET Stops) \ {{}}, NEW to \in Stops,
             R!Replace(r, from, to)
      PROVE  Room' /\ NumbersStand' /\ R!KeepsOrder
  <2>1. /\ UNCHANGED <<point, stale>> /\ editing'[r].at = "collapse"
        /\ \A o \in Pods \ {r} : editing'[o] = editing[o]
    BY <1>0, <1>4 DEF R!Replace, R!Begins, PointsTyped
  <2> QED
    BY <1>3, <2>1
<1>5. ASSUME NEW r \in Pods, R!Collapse(r)
      PROVE  Room' /\ NumbersStand' /\ R!KeepsOrder
  <2>0. editing[r].at = "collapse"
    BY <1>5 DEF R!Collapse, R!At
  <2>1. editing[r] \in Replacing
    BY <1>0, <2>0 DEF PointsTyped, Inserting, Replacing, Numbering, R!Idle
  <2>2. [editing[r] EXCEPT !.at = "drop", !.drop = {p \in R!Live : R!RepeatsStop(r, p)}].at = "drop"
    BY <2>1 DEF Replacing
  <2>3. /\ UNCHANGED <<point, stale>> /\ editing'[r].at = "drop"
        /\ \A o \in Pods \ {r} : editing'[o] = editing[o]
    BY <1>0, <1>5, <2>2 DEF R!Collapse, PointsTyped
  <2> QED
    BY <1>3, <2>3
<1>6. ASSUME NEW r \in Pods, R!Replaced(r)
      PROVE  Room' /\ NumbersStand' /\ R!KeepsOrder
  <2>0. editing[r].at = "drop"
    BY <1>6 DEF R!Replaced, R!At
  <2>1. editing[r] \in Replacing
    BY <1>0, <2>0 DEF PointsTyped, Inserting, Replacing, Numbering, R!Idle
  <2>2. ASSUME NEW p \in R!Points
        PROVE  /\ point'[p].order = point[p].order
               /\ point'[p].there => point[p].there
               /\ point[p].stop \in Stops => point'[p].stop \in Stops
    <3>1. point'[p] = [point[p] EXCEPT !.stop = R!Seen(r, p), !.there = @ /\ p \notin editing[r].drop]
      BY <1>6 DEF R!Replaced
    <3>2. point[p] \in [there: BOOLEAN, order: Nat, stop: Stops \cup {"none"}]
      BY <1>0 DEF PointsTyped
    <3>3. point[p].stop \in Stops => R!Seen(r, p) \in Stops
      BY <2>1 DEF R!Seen, Replacing
    <3> QED
      BY <3>1, <3>2, <3>3
  <2>3. /\ R!Live' \subseteq R!Live /\ R!Live \subseteq R!Points
        /\ \A p, q \in R!Points : R!Before(p, q)' <=> R!Before(p, q)
    BY <2>2 DEF R!Live, R!Before
  <2>4. stale' = stale /\ editing' = [editing EXCEPT ![r] = R!Idle]
    BY <1>6 DEF R!Replaced, R!Ends
  <2>5. editing'[r].at = "idle" /\ \A o \in Pods \ {r} : editing'[o] = editing[o]
    BY <1>0, <2>4 DEF PointsTyped, R!Idle
  <2>6. \A o \in Pods : editing'[o].at \in {"insert", "renumber"} => editing'[o] = editing[o]
    BY <2>5
  <2>7. ASSUME NEW o \in Pods, editing[o].at = "insert", NEW p \in editing[o].behind
        PROVE  p \in R!Points
    BY <1>0, <2>7 DEF PointsTyped, Inserting, Replacing, Numbering, R!Idle
  <2>8. Room'
    BY <1>0, <2>2, <2>3, <2>6, <2>7 DEF Room, R!Live
  <2>9. NumbersStand'
    BY <1>0, <2>3, <2>4, <2>6 DEF NumbersStand
  <2>10. R!KeepsOrder
    BY <2>3 DEF R!KeepsOrder
  <2> QED
    BY <2>8, <2>9, <2>10
<1>7. ASSUME NEW r \in Pods, R!Read(r)
      PROVE  Room' /\ NumbersStand' /\ R!KeepsOrder
  <2>1. UNCHANGED point /\ stale' = stale \ {r}
        /\ editing' = [editing EXCEPT ![r] = [at |-> "renumber", order |-> R!Numbers]]
    BY <1>7 DEF R!Read, R!Begins
  <2>2. /\ editing'[r] = [at |-> "renumber", order |-> R!Numbers]
        /\ \A o \in Pods \ {r} : editing'[o] = editing[o]
    BY <1>0, <2>1 DEF PointsTyped
  <2>3. R!Live' = R!Live /\ \A p, q \in R!Live : R!Before(p, q)' <=> R!Before(p, q)
    BY <2>1 DEF R!Live, R!Before
  <2>4. ASSUME NEW p \in R!Live, NEW q \in R!Live, R!Before(p, q)
        PROVE  R!Numbers[p] < R!Numbers[q]
    <3>1. /\ R!Numbers[p] = Cardinality(R!Ahead(p)) + 1
          /\ R!Numbers[q] = Cardinality(R!Ahead(q)) + 1
      BY SameCount DEF R!Numbers
    <3>2. Cardinality(R!Ahead(p)) < Cardinality(R!Ahead(q))
      BY <1>0, <2>4, AheadGrows
    <3>3. Cardinality(R!Ahead(p)) \in Nat /\ Cardinality(R!Ahead(q)) \in Nat
      BY AheadIsCounted
    <3> QED
      BY <3>1, <3>2, <3>3
  <2>5. DOMAIN R!Numbers = R!Live
    BY Zenon DEF R!Numbers
  <2>6. NumbersStand'
    <3>1. ASSUME NEW o \in Pods \ stale', editing'[o].at = "renumber"
          PROVE  /\ R!Live \subseteq DOMAIN editing'[o].order
                 /\ \A p, q \in R!Live : R!Before(p, q) => editing'[o].order[p] < editing'[o].order[q]
      <4>1. CASE o = r
        BY <2>2, <2>4, <2>5, <4>1
      <4>2. CASE o # r
        BY <1>0, <2>1, <2>2, <3>1, <4>2 DEF NumbersStand
      <4> QED
        BY <4>1, <4>2
    <3> QED
      BY <2>1, <2>3, <3>1 DEF NumbersStand
  <2>7. Room'
    <3>1. \A o \in Pods : editing'[o].at = "insert" => editing'[o] = editing[o]
      BY <2>2
    <3> QED
      BY <1>0, <2>1, <2>3, <3>1 DEF Room
  <2>8. R!KeepsOrder
    BY <2>3 DEF R!KeepsOrder
  <2> QED
    BY <2>6, <2>7, <2>8
<1>8. ASSUME NEW r \in Pods, R!Renumber(r)
      PROVE  Room' /\ NumbersStand' /\ R!KeepsOrder
  <2>1. /\ editing[r].at = "renumber" /\ editing' = [editing EXCEPT ![r] = R!Idle]
        /\ (r \notin stale => stale' = stale)
        /\ (r \in stale => stale' = stale \cup {o \in Pods : editing[o].at = "renumber"})
        /\ \A o \in Pods \ {r} : editing[o].at # "insert"
    BY <1>8 DEF R!Renumber, R!At, R!Unlocked, R!Ends, R!Outdates
  <2>2. editing'[r].at = "idle" /\ \A o \in Pods \ {r} : editing'[o] = editing[o]
    BY <1>0, <2>1 DEF PointsTyped, R!Idle
  <2>3. ASSUME NEW p \in R!Points
        PROVE  /\ point'[p].there = point[p].there /\ point'[p].stop = point[p].stop
               /\ p \in DOMAIN editing[r].order => point'[p].order = editing[r].order[p]
    BY <1>0, <1>8 DEF R!Renumber, PointsTyped
  <2>4. R!Live' = R!Live
    BY <2>3 DEF R!Live
  <2>5. ASSUME r \notin stale, NEW p \in R!Live, NEW q \in R!Live, R!Before(p, q)
        PROVE  R!Before(p, q)'
    <3>1. p \in R!Points /\ q \in R!Points /\ p \in DOMAIN editing[r].order /\ q \in DOMAIN editing[r].order
      BY <1>0, <2>1, <2>5 DEF NumbersStand, R!Live
    <3>2. editing[r].order[p] < editing[r].order[q]
      BY <1>0, <2>1, <2>5 DEF NumbersStand
    <3> QED
      BY <2>3, <3>1, <3>2 DEF R!Before
  <2>6. \A o \in Pods : editing'[o].at = "renumber" => editing'[o] = editing[o]
    BY <2>2
  <2>7. NumbersStand'
    <3>1. CASE r \notin stale
      BY <1>0, <2>1, <2>4, <2>5, <2>6, <3>1, NumbersCarry DEF NumbersStand
    <3>2. CASE r \in stale
      BY <2>1, <2>6, <3>2 DEF NumbersStand
    <3> QED
      BY <3>1, <3>2
  <2>8. Room'
    <3>1. \A o \in Pods : editing'[o].at # "insert"
      BY <2>1, <2>2
    <3> QED
      BY <1>0, <2>3, <2>4, <3>1 DEF Room, R!Live
  <2>9. R!KeepsOrder
    BY <2>1, <2>2, <2>4, <2>5 DEF R!KeepsOrder, R!WritesStale, R!At
  <2> QED
    BY <2>7, <2>8, <2>9
<1>9. ASSUME NEW n \in R!Points, NEW new \in RowsByHand, R!WriteRow(n, new)
      PROVE  Room' /\ NumbersStand' /\ R!KeepsOrder
  <2>1. /\ point' = [point EXCEPT ![n] = new] /\ UNCHANGED editing
        /\ stale' = stale \cup {o \in Pods : editing[o].at = "renumber"}
        /\ \A r \in Pods : editing[r].at = "insert" => n \notin editing[r].behind
    BY <1>9 DEF R!WriteRow, R!Outdates, R!Written, R!At
  <2>2. /\ point'[n].stop \in Stops /\ \A p \in R!Points \ {n} : point'[p] = point[p]
        /\ R!Live' \subseteq R!Live \cup {n}
    BY <1>0, <2>1, PointsAssumption DEF PointsTyped, R!Live
  <2>3. ASSUME NEW r \in Pods, editing[r].at = "insert", NEW p \in editing[r].behind
        PROVE  p \in R!Points \ {n}
    BY <1>0, <2>1, <2>3 DEF PointsTyped, Inserting, Replacing, Numbering, R!Idle
  <2>4. Room'
    BY <1>0, <2>1, <2>2, <2>3 DEF Room, R!Live
  <2>5. NumbersStand'
    BY <2>1 DEF NumbersStand
  <2>6. R!KeepsOrder
    BY <2>1 DEF R!KeepsOrder
  <2> QED
    BY <2>4, <2>5, <2>6
<1>10. CASE UNCHANGED pointVars
  BY <1>0, <1>10 DEF pointVars, Room, NumbersStand, R!KeepsOrder, R!Live, R!Before, R!At
<1> QED
  BY <1>1, <1>2, <1>4, <1>5, <1>6, <1>7, <1>8, <1>9, <1>10 DEF R!Next

(* No step of insert_route_stop, bulk_replace_stops or reprocess_routes      *)
(* changes the order in which the stops that stay are served, and a new stop *)
(* comes before those it was to come before, whatever rows are written by    *)
(* themselves in between: but for a renumbering since whose read a stop went *)
(* in or was moved.                                                          *)
THEOREM OrderKeptHolds == PartsSpec => OrderKept
<1>1. R!Init /\ [][R!Next]_pointVars => []PointInv
  <2>1. PointInv /\ [R!Next]_pointVars => PointInv'
    BY PointsStayTyped, OrderStep DEF PointInv
  <2> QED
    BY <2>1, PointInvInitially, PTL
<1>2. PointInv /\ [R!Next]_pointVars => R!KeepsOrder
  BY PointsStayTyped, OrderStep DEF PointInv
<1>3. [][R!KeepsOrder]_pointVars => OrderKept
  <2>1. [R!KeepsOrder]_pointVars => [part = "points" => R!KeepsOrder]_partsVars
    BY DEF partsVars, pointVars, R!KeepsOrder
  <2> QED
    BY <2>1, PTL DEF OrderKept
<1> QED
  BY <1>1, <1>2, <1>3, PointsStandAlone, PTL
=============================================================================
