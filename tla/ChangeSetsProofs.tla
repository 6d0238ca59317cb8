-------------------------- MODULE ChangeSetsProofs --------------------------
(***************************************************************************)
(* Proofs about ChangeSets, for any people, sets, rows and bounds.         *)
(***************************************************************************)
EXTENDS ChangeSets, FiniteSetTheorems, SequenceTheorems, TLAPS

-----------------------------------------------------------------------------
(* The rows a commit writes                                                *)

(* The changes that write a row are finitely many: they have a number.      *)
LEMMA WritesFinite ==
  ASSUME NEW chs \in Seq(Change), NEW W \in SUBSET DOMAIN chs
  PROVE  IsFiniteSet(W) /\ Cardinality(W) \in Nat
<1>1. DOMAIN chs = 1 .. Len(chs) /\ Len(chs) \in Nat
  BY LenProperties
<1>2. IsFiniteSet(1 .. Len(chs))
  BY <1>1, FS_Interval
<1> QED
  BY <1>1, <1>2, FS_Subset, FS_CardinalityType

(* A commit leaves every row a row.                                         *)
LEMMA RowAfterType ==
  ASSUME NEW chs \in Seq(Change), NEW s \in Sets, NEW k \in Keys, row[k] \in Row
  PROVE  RowAfter(chs, s, k) \in Row
<1> DEFINE w == Writes(chs, k)
           sinceCreate == {i \in w : \A j \in Creates(chs, k) : j < i}
<1>1. w \in SUBSET DOMAIN chs /\ sinceCreate \in SUBSET DOMAIN chs
  BY DEF Writes
<1>2. Cardinality(w) \in Nat /\ Cardinality(sinceCreate) \in Nat
  BY <1>1, WritesFinite
<1>3. NoRow \in Row
  BY DEF NoRow, Row
<1>4. row[k].ver \in Nat
  BY DEF Row
<1>5. Alive(chs, Len(chs) + 1, k) \in BOOLEAN
  BY <1>4 DEF Alive, Row
<1> HIDE DEF w, sinceCreate
<1>6. [ver |-> IF Creates(chs, k) = {} THEN row[k].ver + Cardinality(w)
               ELSE 1 + Cardinality(sinceCreate),
       deleted |-> ~Alive(chs, Len(chs) + 1, k), by |-> s] \in Row
  BY <1>2, <1>4, <1>5 DEF Row
<1> QED
  BY <1>3, <1>6 DEF RowAfter, w, sinceCreate

-----------------------------------------------------------------------------
(* Edits of a set's changes                                                *)

(* Taking change i out leaves a sequence, of changes that were there.       *)
LEMMA RemoveType ==
  ASSUME NEW chs \in Seq(Change), NEW i \in DOMAIN chs
  PROVE  LET rest == SubSeq(chs, 1, i - 1) \o SubSeq(chs, i + 1, Len(chs))
         IN  /\ rest \in Seq(Change)
             /\ \A j \in DOMAIN rest : \E m \in DOMAIN chs : rest[j] = chs[m]
<1> DEFINE n == Len(chs)
           before == SubSeq(chs, 1, i - 1)
           after == SubSeq(chs, i + 1, n)
<1>1. n \in Nat /\ DOMAIN chs = 1 .. n /\ i \in 1 .. n
  BY LenProperties
<1>2. \A j \in 1 .. n : chs[j] \in Change
  BY ElementOfSeq
<1>3. /\ before \in Seq(Change) /\ Len(before) = i - 1
      /\ \A j \in 1 .. (i - 1) : before[j] = chs[j]
  <2>1. 1 \in Int /\ i - 1 \in Int /\ \A j \in 1 .. (i - 1) : chs[j] \in Change
    BY <1>1, <1>2
  <2> QED
    BY <1>1, <2>1, SubSeqProperties
<1>4. /\ after \in Seq(Change) /\ Len(after) = n - i
      /\ \A j \in 1 .. (n - i) : after[j] = chs[i + j]
  <2>1. i + 1 \in Int /\ n \in Int /\ \A j \in i + 1 .. n : chs[j] \in Change
    BY <1>1, <1>2
  <2>2. /\ after \in Seq(Change)
        /\ Len(after) = IF i + 1 <= n THEN n - (i + 1) + 1 ELSE 0
        /\ \A j \in 1 .. n - (i + 1) + 1 : after[j] = chs[i + 1 + j - 1]
    BY <2>1, SubSeqProperties
  <2> QED
    BY <1>1, <2>2
<1> HIDE DEF before, after
<1>5. /\ before \o after \in Seq(Change) /\ Len(before \o after) = n - 1
      /\ \A j \in 1 .. (n - 1) :
           (before \o after)[j] = IF j <= i - 1 THEN before[j] ELSE after[j - (i - 1)]
  <2>1. /\ before \o after \in Seq(Change)
        /\ Len(before \o after) = Len(before) + Len(after)
        /\ \A j \in 1 .. Len(before) + Len(after) :
             (before \o after)[j] =
               IF j <= Len(before) THEN before[j] ELSE after[j - Len(before)]
    BY <1>3, <1>4, ConcatProperties
  <2>2. Len(before) + Len(after) = n - 1
    BY <1>1, <1>3, <1>4
  <2> QED
    BY <1>3, <2>1, <2>2
<1>6. DOMAIN (before \o after) = 1 .. (n - 1)
  BY <1>5, LenProperties
<1>7. ASSUME NEW j \in 1 .. (n - 1)
      PROVE  \E m \in DOMAIN chs : (before \o after)[j] = chs[m]
  <2>1. CASE j <= i - 1
    <3>1. j \in 1 .. (i - 1) /\ j \in DOMAIN chs
      BY <1>1, <2>1
    <3>2. (before \o after)[j] = chs[j]
      BY <1>3, <1>5, <2>1, <3>1
    <3> QED
      BY <3>1, <3>2
  <2>2. CASE ~(j <= i - 1)
    <3>1. j - (i - 1) \in 1 .. (n - i) /\ j + 1 \in DOMAIN chs
      BY <1>1, <2>2
    <3>2. (before \o after)[j] = chs[i + (j - (i - 1))]
      BY <1>4, <1>5, <2>2, <3>1
    <3>3. i + (j - (i - 1)) = j + 1
      BY <1>1
    <3> QED
      BY <3>1, <3>2, <3>3
  <2> QED
    BY <2>1, <2>2
<1> QED
  BY <1>5, <1>6, <1>7 DEF before, after

(* Putting another change in place of change i.                             *)
LEMMA ReplaceType ==
  ASSUME NEW chs \in Seq(Change), NEW i \in DOMAIN chs, NEW c \in Change
  PROVE  /\ [chs EXCEPT ![i] = c] \in Seq(Change)
         /\ DOMAIN [chs EXCEPT ![i] = c] = DOMAIN chs
         /\ \A j \in DOMAIN chs : [chs EXCEPT ![i] = c][j] = IF j = i THEN c ELSE chs[j]
<1>1. DOMAIN chs = 1 .. Len(chs)
  BY LenProperties
<1> QED
  BY <1>1, ExceptSeq

(* Putting a change at the end.                                             *)
LEMMA AddType ==
  ASSUME NEW chs \in Seq(Change), NEW c \in Change
  PROVE  /\ Append(chs, c) \in Seq(Change)
         /\ \A j \in DOMAIN Append(chs, c) :
              Append(chs, c)[j] = c \/ (j \in DOMAIN chs /\ Append(chs, c)[j] = chs[j])
<1>1. Len(chs) \in Nat /\ DOMAIN chs = 1 .. Len(chs)
  BY LenProperties
<1>2. /\ Append(chs, c) \in Seq(Change) /\ Len(Append(chs, c)) = Len(chs) + 1
      /\ DOMAIN Append(chs, c) = 1 .. (Len(chs) + 1)
  OBVIOUS
<1>3. \A j \in 1 .. (Len(chs) + 1) :
        Append(chs, c)[j] = IF j = Len(chs) + 1 THEN c ELSE chs[j]
  BY <1>1
<1> QED
  BY <1>1, <1>2, <1>3

-----------------------------------------------------------------------------
(* The new change of AddChange, and the changed one of Rebase and Retarget. *)
Added(op, k, into, keep) ==
  [op |-> op, key |-> k, into |-> into, keep |-> keep,
   base |-> IF op = "create" THEN 0 ELSE row[k].ver,
   intoBase |-> IF op = "merge" THEN row[into].ver ELSE 0,
   seen |-> row[k].by, intoSeen |-> row[into].by]

LEMMA AddedType ==
  ASSUME row \in [Keys -> Row], NEW op \in Ops, NEW k \in Keys, NEW into \in Keys,
         NEW keep \in BOOLEAN
  PROVE  Added(op, k, into, keep) \in Change
BY DEF Added, Change, Row

Rebased(c) == [c EXCEPT !.base = row[c.key].ver, !.seen = row[c.key].by]
Retargeted(c, into) ==
  [c EXCEPT !.into = into, !.intoBase = row[into].ver, !.intoSeen = row[into].by]

LEMMA RebasedType ==
  ASSUME row \in [Keys -> Row], NEW c \in Change, NEW into \in Keys
  PROVE  Rebased(c) \in Change /\ Retargeted(c, into) \in Change
BY DEF Rebased, Retargeted, Change, Row

-----------------------------------------------------------------------------
(* Every variable keeps its type: in particular a set's changes stay a      *)
(* sequence through every edit, and a commit makes rows of rows.            *)
LEMMA TypeStep == TypeOK /\ [Next]_vars => TypeOK'
<1> SUFFICES ASSUME TypeOK, [Next]_vars PROVE TypeOK'
  OBVIOUS
<1> USE KeysAssumption, RolesAssumption DEF TypeOK
<1>1. ASSUME NEW u \in Users, NEW s \in Sets, CreateSet(u, s) PROVE TypeOK'
  BY <1>1 DEF CreateSet, Statuses
<1>2. ASSUME NEW u \in Users, NEW s \in Sets, NEW op \in Ops, NEW k \in Keys,
             NEW into \in Keys, NEW keep \in BOOLEAN, AddChange(u, s, op, k, into, keep)
      PROVE  TypeOK'
  <2>1. changes' = [changes EXCEPT ![s] = Append(@, Added(op, k, into, keep))]
    BY <1>2 DEF AddChange, Added
  <2>2. Append(changes[s], Added(op, k, into, keep)) \in Seq(Change)
    BY AddedType, AddType
  <2> QED
    BY <1>2, <2>1, <2>2 DEF AddChange, people
<1>3. ASSUME NEW u \in Users, NEW s \in Sets, NEW i \in 1 .. MaxChanges, Rebase(u, s, i)
      PROVE  TypeOK'
  <2>1. /\ i \in DOMAIN changes[s]
        /\ changes' = [changes EXCEPT ![s] = [@ EXCEPT ![i] = Rebased(changes[s][i])]]
    BY <1>3 DEF Rebase, Rebased
  <2>2. changes[s][i] \in Change
    BY <2>1
  <2>3. [changes[s] EXCEPT ![i] = Rebased(changes[s][i])] \in Seq(Change)
    <3>1. Rebased(changes[s][i]) \in Change
      BY <2>2, RebasedType DEF Change
    <3> QED
      BY <2>1, <3>1, ReplaceType
  <2> QED
    BY <1>3, <2>1, <2>3 DEF Rebase, people
<1>4. ASSUME NEW u \in Users, NEW s \in Sets, NEW i \in 1 .. MaxChanges,
             NEW into \in SoftKeys, Retarget(u, s, i, into)
      PROVE  TypeOK'
  <2>1. /\ i \in DOMAIN changes[s]
        /\ changes' =
             [changes EXCEPT ![s] = [@ EXCEPT ![i] = Retargeted(changes[s][i], into)]]
    BY <1>4 DEF Retarget, Retargeted
  <2>2. changes[s][i] \in Change
    BY <2>1
  <2>3. [changes[s] EXCEPT ![i] = Retargeted(changes[s][i], into)] \in Seq(Change)
    <3>1. Retargeted(changes[s][i], into) \in Change
      BY <2>2, RebasedType
    <3> QED
      BY <2>1, <3>1, ReplaceType
  <2> QED
    BY <1>4, <2>1, <2>3 DEF Retarget, people
<1>5. ASSUME NEW u \in Users, NEW s \in Sets, NEW i \in 1 .. MaxChanges,
             DeleteChange(u, s, i)
      PROVE  TypeOK'
  <2>1. SubSeq(changes[s], 1, i - 1) \o SubSeq(changes[s], i + 1, Len(changes[s]))
          \in Seq(Change)
    BY <1>5, RemoveType DEF DeleteChange
  <2> QED
    BY <1>5, <2>1 DEF DeleteChange, people
<1>6. ASSUME NEW u \in Users, NEW s \in Sets, Submit(u, s) PROVE TypeOK'
  BY <1>6 DEF Submit, Statuses
<1>7. ASSUME NEW u \in Users, NEW s \in Sets, NEW approve \in BOOLEAN,
             NEW override \in BOOLEAN, Review(u, s, approve, override)
      PROVE  TypeOK'
  BY <1>7 DEF Review, Statuses
<1>8. ASSUME NEW u \in Users, NEW s \in Sets, Reopen(u, s) PROVE TypeOK'
  <2>1. <<>> \in Seq(Change)
    BY EmptySeq
  <2> QED
    BY <1>8, <2>1 DEF Reopen, Statuses
<1>9. ASSUME NEW u \in Users, NEW s \in Sets, Discard(u, s) PROVE TypeOK'
  BY <1>9 DEF Discard, Statuses, people
<1>10. ASSUME NEW u \in Users, NEW s \in Sets, Commit(u, s) PROVE TypeOK'
  <2>1. row' \in [Keys -> Row]
    BY <1>10, RowAfterType DEF Commit
  <2>2. LiveAs \in Nat /\ Append(log, s) \in Seq(Sets)
    BY DEF LiveAs
  <2> QED
    BY <1>10, <2>1, <2>2 DEF Commit, Statuses
<1>14. ASSUME EndCommit PROVE TypeOK'
  BY <1>14 DEF EndCommit, people
<1>11. ASSUME NEW a \in Users, NEW u \in Restless, NEW admin \in BOOLEAN,
              SetAdmin(a, u, admin)
       PROVE  TypeOK'
  BY <1>11 DEF SetAdmin, Roles, people
<1>12. ASSUME NEW a \in Users, NEW u \in Restless, NEW r \in GrantRoles \cup {"none"},
              SetAccess(a, u, r)
       PROVE  TypeOK'
  BY <1>12 DEF SetAccess, Roles, GrantRoles, people
<1>13. CASE UNCHANGED vars
  BY <1>13 DEF vars, people
<1> HIDE DEF TypeOK
<1> QED
  BY <1>1, <1>2, <1>3, <1>4, <1>5, <1>6, <1>7, <1>8, <1>9, <1>10, <1>11, <1>12, <1>13,
     <1>14 DEF Next, Request

LEMMA TypeInit == Init => TypeOK
<1> SUFFICES ASSUME Init PROVE TypeOK
  OBVIOUS
<1>1. NoRow \in Row /\ [NoRow EXCEPT !.ver = 1] \in Row
  BY DEF NoRow, Row
<1>2. <<>> \in Seq(Change)
  BY EmptySeq
<1>3. \A k : Loaded(k) \in Row
  BY <1>1 DEF Loaded
<1> QED
  BY <1>1, <1>2, <1>3, RolesAssumption DEF Init, TypeOK, Statuses

(* Whatever people do and in whatever order, every variable has its type.   *)
THEOREM TypeCorrect == Spec => []TypeOK
BY TypeInit, TypeStep, PTL DEF Spec

-----------------------------------------------------------------------------
(* Maker-checker: a set that is up for review or past it has a submitter.   *)
Signed ==
  \A s \in Sets :
    status[s] \in {"submitted", "approved", "committed"} => submittedBy[s] \in Users

LEMMA SignedStep ==
  TypeOK /\ Signed /\ MakerChecker /\ [Next]_vars => Signed' /\ MakerChecker'
<1> SUFFICES ASSUME TypeOK, Signed, MakerChecker, [Next]_vars
             PROVE  Signed' /\ MakerChecker'
  OBVIOUS
<1> USE DEF TypeOK, Signed, MakerChecker
<1>1. ASSUME NEW u \in Users, NEW s \in Sets, CreateSet(u, s)
      PROVE  Signed' /\ MakerChecker'
  BY <1>1 DEF CreateSet
<1>2. ASSUME UNCHANGED <<status, people>> PROVE Signed' /\ MakerChecker'
  BY <1>2 DEF people
<1>3. ASSUME NEW u \in Users, NEW s \in Sets, Submit(u, s)
      PROVE  Signed' /\ MakerChecker'
  BY <1>3 DEF Submit
<1>4. ASSUME NEW u \in Users, NEW s \in Sets, NEW approve \in BOOLEAN,
             NEW override \in BOOLEAN, Review(u, s, approve, override)
      PROVE  Signed' /\ MakerChecker'
  BY <1>4 DEF Review
<1>5. ASSUME NEW u \in Users, NEW s \in Sets, Reopen(u, s)
      PROVE  Signed' /\ MakerChecker'
  BY <1>5 DEF Reopen
<1>6. ASSUME NEW u \in Users, NEW s \in Sets, Discard(u, s)
      PROVE  Signed' /\ MakerChecker'
  BY <1>6 DEF Discard, people
<1>7. ASSUME NEW u \in Users, NEW s \in Sets, Commit(u, s)
      PROVE  Signed' /\ MakerChecker'
  BY <1>7 DEF Commit, MayCommit
<1>8. ASSUME NEW u \in Users, NEW s \in Sets, NEW op \in Ops, NEW k \in Keys,
             NEW into \in Keys, NEW keep \in BOOLEAN, AddChange(u, s, op, k, into, keep)
      PROVE  Signed' /\ MakerChecker'
  BY <1>2, <1>8 DEF AddChange
<1>9. ASSUME NEW u \in Users, NEW s \in Sets, NEW i \in 1 .. MaxChanges,
             \/ Rebase(u, s, i) \/ DeleteChange(u, s, i)
             \/ \E into \in SoftKeys : Retarget(u, s, i, into)
      PROVE  Signed' /\ MakerChecker'
  BY <1>2, <1>9 DEF Rebase, DeleteChange, Retarget
<1>10. ASSUME NEW a \in Users, NEW u \in Restless,
              \/ \E admin \in BOOLEAN : SetAdmin(a, u, admin)
              \/ \E r \in GrantRoles \cup {"none"} : SetAccess(a, u, r)
       PROVE  Signed' /\ MakerChecker'
  BY <1>2, <1>10 DEF SetAdmin, SetAccess
<1>11. CASE UNCHANGED vars \/ EndCommit
  BY <1>2, <1>11 DEF vars, EndCommit
<1> HIDE DEF TypeOK, Signed, MakerChecker
<1> QED
  BY <1>1, <1>3, <1>4, <1>5, <1>6, <1>7, <1>8, <1>9, <1>10, <1>11 DEF Next, Request

(* What is approved or live was reviewed by somebody, and its submitter     *)
(* neither reviewed nor committed it except by an admin's self-approval,    *)
(* however roles change on the way.                                         *)
THEOREM MakerCheckerHolds == Spec => []MakerChecker
<1>1. Init => Signed /\ MakerChecker
  BY DEF Init, Signed, MakerChecker
<1> QED
  BY <1>1, TypeInit, TypeStep, SignedStep, PTL DEF Spec

(* No edit comes between the review of a set and its commit.                *)
THEOREM ReviewedIsLiveHolds == Spec => []ReviewedIsLive
<1>1. Init => ReviewedIsLive
  BY DEF Init, ReviewedIsLive
<1>2. TypeOK /\ ReviewedIsLive /\ [Next]_vars => ReviewedIsLive'
  <2> SUFFICES ASSUME TypeOK, ReviewedIsLive, [Next]_vars PROVE ReviewedIsLive'
    OBVIOUS
  <2> USE DEF TypeOK, ReviewedIsLive
  <2>1. ASSUME UNCHANGED <<status, changes, reviewed>> PROVE ReviewedIsLive'
    BY <2>1
  <2>2. ASSUME NEW s \in Sets, NEW chs,
               status[s] = "draft", changes' = [changes EXCEPT ![s] = chs],
               UNCHANGED <<status, reviewed>>
        PROVE  ReviewedIsLive'
    BY <2>2
  <2>3. ASSUME NEW u \in Users, NEW s \in Sets,
               \/ CreateSet(u, s) \/ Submit(u, s) \/ Reopen(u, s) \/ Discard(u, s)
        PROVE  ReviewedIsLive'
    BY <2>3 DEF CreateSet, Submit, Reopen, Discard
  <2>4. ASSUME NEW u \in Users, NEW s \in Sets, NEW approve \in BOOLEAN,
               NEW override \in BOOLEAN, Review(u, s, approve, override)
        PROVE  ReviewedIsLive'
    BY <2>4 DEF Review
  <2>5. ASSUME NEW u \in Users, NEW s \in Sets, Commit(u, s) PROVE ReviewedIsLive'
    BY <2>5 DEF Commit
  <2>6. ASSUME NEW u \in Users, NEW s \in Sets, NEW op \in Ops, NEW k \in Keys,
               NEW into \in Keys, NEW keep \in BOOLEAN, AddChange(u, s, op, k, into, keep)
        PROVE  ReviewedIsLive'
    BY <2>2, <2>6 DEF AddChange, Editable
  <2>7. ASSUME NEW u \in Users, NEW s \in Sets, NEW i \in 1 .. MaxChanges,
               \/ Rebase(u, s, i) \/ DeleteChange(u, s, i)
               \/ \E into \in SoftKeys : Retarget(u, s, i, into)
        PROVE  ReviewedIsLive'
    BY <2>2, <2>7 DEF Rebase, DeleteChange, Retarget, Editable
  <2> HIDE DEF TypeOK, ReviewedIsLive
  <2> QED
    BY <2>1, <2>3, <2>4, <2>5, <2>6, <2>7
       DEF Next, Request, vars, SetAdmin, SetAccess, EndCommit
<1> QED
  BY <1>1, <1>2, TypeInit, TypeStep, PTL DEF Spec

-----------------------------------------------------------------------------
(* No lost update.  What a change knows of a row that is never removed is   *)
(* not ahead of the row, and while the row stays at that version it says    *)
(* what it said: a soft row's version only grows, by every write.           *)
KnownOf(rows, k, base, seen) ==
  /\ base <= rows[k].ver
  /\ base # 0 /\ base = rows[k].ver => rows[k].by = seen

BasedOn(rows, c) ==
  /\ c.op # "create" /\ c.key \in SoftKeys => KnownOf(rows, c.key, c.base, c.seen)
  /\ c.op = "merge" => c.into \in SoftKeys /\ KnownOf(rows, c.into, c.intoBase, c.intoSeen)

AllBased == \A s \in Sets : \A i \in DOMAIN changes[s] : BasedOn(row, changes[s][i])

(* A commit leaves a soft row alone or moves its version up, the creation   *)
(* of a row included: it is refused where there is a row already.           *)
LEMMA SoftRowAdvances ==
  ASSUME NEW chs \in Seq(Change), NEW s \in Sets, NEW k \in SoftKeys,
         row[k] \in Row, Clean(chs)
  PROVE  RowAfter(chs, s, k) = row[k] \/ RowAfter(chs, s, k).ver > row[k].ver
<1> DEFINE w == Writes(chs, k)
           sinceCreate == {i \in w : \A j \in Creates(chs, k) : j < i}
<1>1. w \in SUBSET DOMAIN chs /\ sinceCreate \in SUBSET DOMAIN chs
  BY DEF Writes
<1>2. /\ IsFiniteSet(w) /\ Cardinality(w) \in Nat
      /\ Cardinality(sinceCreate) \in Nat
  BY <1>1, WritesFinite
<1>3. row[k].ver \in Nat
  BY DEF Row
<1>4. CASE w = {}
  BY <1>4 DEF RowAfter
<1>5. CASE w # {} /\ Creates(chs, k) = {}
  <2>1. Cardinality(w) > 0
    BY <1>2, <1>5, FS_EmptySet
  <2> HIDE DEF w
  <2>2. row[k].ver + Cardinality(w) > row[k].ver
    BY <1>2, <1>3, <2>1
  <2>3. RowAfter(chs, s, k).ver = row[k].ver + Cardinality(w)
    BY <1>5 DEF RowAfter, w
  <2> QED
    BY <2>2, <2>3
<1>6. CASE w # {} /\ Creates(chs, k) # {}
  <2>1. row[k].ver = 0
    <3>1. PICK j \in DOMAIN chs : chs[j].op = "create" /\ chs[j].key = k
      BY <1>6 DEF Creates
    <3>2. ~(row[k].ver > 0)
      BY <3>1 DEF Clean, Conflict
    <3> QED
      BY <1>3, <3>2
  <2> HIDE DEF w, sinceCreate
  <2>2. 1 + Cardinality(sinceCreate) > row[k].ver
    BY <1>2, <2>1
  <2>3. RowAfter(chs, s, k).ver = 1 + Cardinality(sinceCreate)
    BY <1>6 DEF RowAfter, w, sinceCreate
  <2> QED
    BY <2>2, <2>3
<1> QED
  BY <1>4, <1>5, <1>6

(* So what a change knows stays so through a commit.                        *)
LEMMA StillBased ==
  ASSUME NEW before \in [Keys -> Row], NEW after \in [Keys -> Row],
         \A k \in SoftKeys : after[k] = before[k] \/ after[k].ver > before[k].ver,
         NEW c \in Change, BasedOn(before, c)
  PROVE  BasedOn(after, c)
<1>1. ASSUME NEW k \in SoftKeys, NEW base \in Nat, NEW seen, KnownOf(before, k, base, seen)
      PROVE  KnownOf(after, k, base, seen)
  <2>1. before[k].ver \in Nat /\ after[k].ver \in Nat
    BY KeysAssumption DEF Row
  <2> QED
    BY <1>1, <2>1 DEF KnownOf
<1>2. c.base \in Nat /\ c.intoBase \in Nat
  BY DEF Change
<1> QED
  BY <1>1, <1>2 DEF BasedOn

(* A version read now is the version of the content read with it.           *)
LEMMA ReadNow ==
  ASSUME row \in [Keys -> Row], NEW k \in Keys
  PROVE  KnownOf(row, k, row[k].ver, row[k].by) /\ KnownOf(row, k, 0, row[k].by)
BY DEF KnownOf, Row

LEMMA BasedStep == TypeOK /\ AllBased /\ [Next]_vars => AllBased'
<1> SUFFICES ASSUME TypeOK, AllBased, [Next]_vars PROVE AllBased'
  OBVIOUS
<1> USE KeysAssumption
<1>0. /\ row \in [Keys -> Row] /\ changes \in [Sets -> Seq(Change)]
      /\ \A s \in Sets : \A i \in DOMAIN changes[s] : changes[s][i] \in Change
  BY DEF TypeOK
<1>1. ASSUME UNCHANGED <<changes, row>> PROVE AllBased'
  BY <1>1 DEF AllBased
<1>2. ASSUME NEW s \in Sets, NEW chs, changes' = [changes EXCEPT ![s] = chs],
             \A j \in DOMAIN chs : BasedOn(row, chs[j]), row' = row
      PROVE  AllBased'
  BY <1>0, <1>2 DEF AllBased
<1>3. ASSUME NEW u \in Users, NEW s \in Sets, NEW op \in Ops, NEW k \in Keys,
             NEW into \in Keys, NEW keep \in BOOLEAN, AddChange(u, s, op, k, into, keep)
      PROVE  AllBased'
  <2> DEFINE new == Added(op, k, into, keep)
  <2>1. new \in Change
    BY <1>0, AddedType
  <2>2. BasedOn(row, new)
    <3>1. op = "merge" => into \in SoftKeys
      BY <1>3 DEF AddChange
    <3>2. KnownOf(row, k, row[k].ver, row[k].by) /\ KnownOf(row, into, row[into].ver, row[into].by)
      BY <1>0, ReadNow
    <3> QED
      BY <3>1, <3>2 DEF Added, BasedOn
  <2>3. changes' = [changes EXCEPT ![s] = Append(changes[s], new)] /\ row' = row
    BY <1>3 DEF AddChange, Added
  <2> HIDE DEF new
  <2>4. \A j \in DOMAIN Append(changes[s], new) : BasedOn(row, Append(changes[s], new)[j])
    <3>1. changes[s] \in Seq(Change)
      BY <1>0
    <3> QED
      BY <2>1, <2>2, <3>1, AddType DEF AllBased
  <2> QED
    BY <1>2, <2>3, <2>4
<1>4. ASSUME NEW u \in Users, NEW s \in Sets, NEW i \in 1 .. MaxChanges, Rebase(u, s, i)
      PROVE  AllBased'
  <2> DEFINE c == changes[s][i]
  <2>1. /\ i \in DOMAIN changes[s] /\ c.op # "create" /\ row' = row
        /\ changes' = [changes EXCEPT ![s] = [changes[s] EXCEPT ![i] = Rebased(c)]]
    BY <1>4 DEF Rebase, Rebased
  <2>2. c \in Change /\ BasedOn(row, c) /\ changes[s] \in Seq(Change)
    BY <1>0, <2>1 DEF AllBased
  <2>3. Rebased(c) \in Change
    BY <1>0, <2>2, RebasedType DEF Change
  <2>4. BasedOn(row, Rebased(c))
    <3>1. KnownOf(row, c.key, row[c.key].ver, row[c.key].by)
      BY <1>0, <2>2, ReadNow DEF Change
    <3>2. /\ Rebased(c).op = c.op /\ Rebased(c).key = c.key /\ Rebased(c).into = c.into
          /\ Rebased(c).base = row[c.key].ver /\ Rebased(c).seen = row[c.key].by
          /\ Rebased(c).intoBase = c.intoBase /\ Rebased(c).intoSeen = c.intoSeen
      BY <2>2 DEF Rebased, Change
    <3> QED
      BY <2>2, <3>1, <3>2 DEF BasedOn
  <2> HIDE DEF c
  <2>5. \A j \in DOMAIN [changes[s] EXCEPT ![i] = Rebased(c)] :
          BasedOn(row, [changes[s] EXCEPT ![i] = Rebased(c)][j])
    BY <2>1, <2>2, <2>3, <2>4, ReplaceType DEF AllBased
  <2> QED
    BY <1>2, <2>1, <2>5
<1>5. ASSUME NEW u \in Users, NEW s \in Sets, NEW i \in 1 .. MaxChanges,
             NEW into \in SoftKeys, Retarget(u, s, i, into)
      PROVE  AllBased'
  <2> DEFINE c == changes[s][i]
  <2>1. /\ i \in DOMAIN changes[s] /\ row' = row
        /\ changes' = [changes EXCEPT ![s] = [changes[s] EXCEPT ![i] = Retargeted(c, into)]]
    BY <1>5 DEF Retarget, Retargeted
  <2>2. c \in Change /\ BasedOn(row, c) /\ changes[s] \in Seq(Change)
    BY <1>0, <2>1 DEF AllBased
  <2>3. Retargeted(c, into) \in Change
    BY <1>0, <2>2, RebasedType
  <2>4. BasedOn(row, Retargeted(c, into))
    <3>1. KnownOf(row, into, row[into].ver, row[into].by)
      BY <1>0, ReadNow
    <3>2. /\ Retargeted(c, into).op = c.op /\ Retargeted(c, into).key = c.key
          /\ Retargeted(c, into).base = c.base /\ Retargeted(c, into).seen = c.seen
          /\ Retargeted(c, into).into = into
          /\ Retargeted(c, into).intoBase = row[into].ver
          /\ Retargeted(c, into).intoSeen = row[into].by
      BY <2>2 DEF Retargeted, Change
    <3> QED
      BY <2>2, <3>1, <3>2 DEF BasedOn
  <2> HIDE DEF c
  <2>5. \A j \in DOMAIN [changes[s] EXCEPT ![i] = Retargeted(c, into)] :
          BasedOn(row, [changes[s] EXCEPT ![i] = Retargeted(c, into)][j])
    BY <2>1, <2>2, <2>3, <2>4, ReplaceType DEF AllBased
  <2> QED
    BY <1>2, <2>1, <2>5
<1>6. ASSUME NEW u \in Users, NEW s \in Sets, NEW i \in 1 .. MaxChanges,
             DeleteChange(u, s, i)
      PROVE  AllBased'
  <2> DEFINE rest == SubSeq(changes[s], 1, i - 1)
                       \o SubSeq(changes[s], i + 1, Len(changes[s]))
  <2>1. i \in DOMAIN changes[s] /\ changes' = [changes EXCEPT ![s] = rest] /\ row' = row
    BY <1>6 DEF DeleteChange
  <2>2. \A j \in DOMAIN rest : \E m \in DOMAIN changes[s] : rest[j] = changes[s][m]
    BY <1>0, <2>1, RemoveType
  <2> HIDE DEF rest
  <2>3. \A j \in DOMAIN rest : BasedOn(row, rest[j])
    BY <2>2 DEF AllBased
  <2> QED
    BY <1>2, <2>1, <2>3
<1>7. ASSUME NEW u \in Users, NEW s \in Sets, Commit(u, s) PROVE AllBased'
  <2>1. /\ changes' = changes /\ Clean(changes[s])
        /\ row' = [k \in Keys |-> RowAfter(changes[s], s, k)]
    BY <1>7 DEF Commit
  <2>2. \A k \in SoftKeys : row'[k] = row[k] \/ row'[k].ver > row[k].ver
    BY <1>0, <2>1, SoftRowAdvances
  <2>3. row' \in [Keys -> Row]
    BY <1>0, <2>1, RowAfterType
  <2>4. \A t \in Sets : \A i \in DOMAIN changes[t] : BasedOn(row', changes[t][i])
    BY <1>0, <2>2, <2>3, StillBased DEF AllBased
  <2> QED
    BY <2>1, <2>4 DEF AllBased
<1>8. ASSUME NEW u \in Users, NEW s \in Sets,
             \/ CreateSet(u, s) \/ Submit(u, s) \/ Reopen(u, s) \/ Discard(u, s)
             \/ \E approve \in BOOLEAN, override \in BOOLEAN : Review(u, s, approve, override)
      PROVE  AllBased'
  BY <1>1, <1>8 DEF CreateSet, Submit, Reopen, Discard, Review
<1>9. ASSUME NEW a \in Users, NEW u \in Restless,
             \/ \E admin \in BOOLEAN : SetAdmin(a, u, admin)
             \/ \E r \in GrantRoles \cup {"none"} : SetAccess(a, u, r)
      PROVE  AllBased'
  BY <1>1, <1>9 DEF SetAdmin, SetAccess
<1>10. CASE UNCHANGED vars \/ EndCommit
  BY <1>1, <1>10 DEF vars, EndCommit
<1> QED
  BY <1>3, <1>4, <1>5, <1>6, <1>7, <1>8, <1>9, <1>10 DEF Next, Request

(* The commit itself: what a change was based on is what is there.  A row   *)
(* the set creates itself was not there to be read, so a version of it      *)
(* cannot have been.                                                        *)
LEMMA NothingUnseen ==
  ASSUME TypeOK, AllBased, NEW s \in Sets, Clean(changes[s]),
         NEW i \in DOMAIN changes[s],
         changes[s][i].key \in SoftKeys, Versioned(changes[s][i])
  PROVE  ~Unseen(changes[s][i])
<1> DEFINE chs == changes[s]
           c == chs[i]
<1>1. /\ chs \in Seq(Change) /\ row \in [Keys -> Row] /\ c \in Change /\ BasedOn(row, c)
      /\ c.base \in Nat /\ c.intoBase \in Nat
  <2>1. chs \in Seq(Change) /\ row \in [Keys -> Row] /\ c \in Change
    BY DEF TypeOK
  <2>2. BasedOn(row, c)
    BY DEF AllBased
  <2> HIDE DEF c
  <2> QED
    BY <2>1, <2>2 DEF Change
<1>2. ASSUME NEW k \in SoftKeys, NEW base \in Nat, NEW seen,
             KnownOf(row, k, base, seen), base # 0,
             ~InDraft(chs, i, k) => ~VersionConflict(k, base)
      PROVE  row[k].by = seen
  <2>1. row[k].ver \in Nat
    BY <1>1, KeysAssumption DEF Row
  <2>2. ~InDraft(chs, i, k)
    <3> SUFFICES ASSUME InDraft(chs, i, k) PROVE FALSE
      OBVIOUS
    <3>1. PICK j \in 1 .. (i - 1) : chs[j].op = "create" /\ chs[j].key = k
      BY DEF InDraft
    <3>2. j \in DOMAIN chs
      <4>1. DOMAIN chs = 1 .. Len(chs) /\ Len(chs) \in Nat
        BY <1>1, LenProperties
      <4> QED
        BY <4>1
    <3>3. ~(row[k].ver > 0)
      BY <3>1, <3>2 DEF Clean, Conflict
    <3> QED
      BY <1>2, <2>1, <3>3 DEF KnownOf
  <2>3. base = row[k].ver
    BY <1>2, <2>2 DEF VersionConflict
  <2> QED
    BY <1>2, <2>3 DEF KnownOf
<1>3. ~Conflict(chs, i)
  BY DEF Clean
<1>4. c.op # "create" => row[c.key].by = c.seen
  <2> SUFFICES ASSUME c.op # "create" PROVE row[c.key].by = c.seen
    OBVIOUS
  <2>1. KnownOf(row, c.key, c.base, c.seen) /\ c.base # 0
    BY <1>1 DEF BasedOn, Versioned
  <2>2. ~InDraft(chs, i, c.key) => ~VersionConflict(c.key, c.base)
    BY <1>3 DEF Conflict
  <2> HIDE DEF c, chs
  <2>3. c.key \in SoftKeys
    BY DEF c, chs
  <2> QED
    BY <1>1, <1>2, <2>1, <2>2, <2>3
<1>5. c.op = "merge" => row[c.into].by = c.intoSeen
  <2> SUFFICES ASSUME c.op = "merge" PROVE row[c.into].by = c.intoSeen
    OBVIOUS
  <2>1. c.into \in SoftKeys /\ KnownOf(row, c.into, c.intoBase, c.intoSeen) /\ c.intoBase # 0
    BY <1>1 DEF BasedOn, Versioned
  <2>2. ~InDraft(chs, i, c.into) => ~VersionConflict(c.into, c.intoBase)
    BY <1>3 DEF Conflict
  <2> HIDE DEF c, chs
  <2> QED
    BY <1>1, <1>2, <2>1, <2>2
<1> QED
  BY <1>4, <1>5 DEF Unseen

(* Only a commit makes a set committed.                                     *)
LEMMA CommittingIsCommit ==
  ASSUME TypeOK, [Next]_vars, NEW s \in Sets, Committing(s)
  PROVE  Clean(changes[s])
<1> USE DEF TypeOK, Committing
<1>1. ASSUME NEW u \in Users, NEW t \in Sets,
             \/ CreateSet(u, t) \/ Submit(u, t) \/ Reopen(u, t) \/ Discard(u, t)
             \/ \E approve \in BOOLEAN, override \in BOOLEAN : Review(u, t, approve, override)
      PROVE  FALSE
  BY <1>1 DEF CreateSet, Submit, Reopen, Discard, Review
<1>2. ASSUME NEW u \in Users, NEW t \in Sets,
             \/ \E op \in Ops, k \in Keys, into \in Keys, keep \in BOOLEAN :
                  AddChange(u, t, op, k, into, keep)
             \/ \E i \in 1 .. MaxChanges :
                  \/ Rebase(u, t, i) \/ DeleteChange(u, t, i)
                  \/ \E into \in SoftKeys : Retarget(u, t, i, into)
      PROVE  FALSE
  BY <1>2 DEF AddChange, Rebase, DeleteChange, Retarget
<1>3. ASSUME NEW a \in Users, NEW u \in Restless,
             \/ \E admin \in BOOLEAN : SetAdmin(a, u, admin)
             \/ \E r \in GrantRoles \cup {"none"} : SetAccess(a, u, r)
      PROVE  FALSE
  BY <1>3 DEF SetAdmin, SetAccess
<1>4. ASSUME NEW u \in Users, NEW t \in Sets, Commit(u, t) PROVE Clean(changes[s])
  BY <1>4 DEF Commit
<1>5. CASE UNCHANGED vars \/ EndCommit
  BY <1>5 DEF vars, EndCommit
<1> HIDE DEF TypeOK, Committing
<1> QED
  BY <1>1, <1>2, <1>3, <1>4, <1>5 DEF Next, Request

(* No commit writes over a row that says something else than when the       *)
(* change's version of it was read, whoever commits what in between.        *)
THEOREM NoLostUpdateHolds == Spec => NoLostUpdate
<1>1. Init => AllBased
  BY DEF Init, AllBased
<1>2. TypeOK /\ AllBased /\ [Next]_vars =>
        [\A s \in Sets : Committing(s) =>
           \A i \in DOMAIN changes[s] :
             changes[s][i].key \in SoftKeys /\ Versioned(changes[s][i])
               => ~Unseen(changes[s][i])]_vars
  BY CommittingIsCommit, NothingUnseen
<1> QED
  BY <1>1, <1>2, TypeInit, TypeStep, BasedStep, PTL DEF Spec, NoLostUpdate

(* Committed and discarded sets stay as they are, and the feed's version    *)
(* never goes back.                                                         *)
THEOREM SettledForGoodHolds == Spec => SettledForGood
<1> DEFINE Kept(s) ==
             /\ status'[s] = status[s] /\ changes'[s] = changes[s]
             /\ committedVersion'[s] = committedVersion[s]
             /\ <<submittedBy'[s], reviewedBy'[s], committedBy'[s], selfApproved'[s]>> =
                <<submittedBy[s], reviewedBy[s], committedBy[s], selfApproved[s]>>
           Good == version' >= version /\ \A s \in Sets : Settled(s) => Kept(s)
<1>1. TypeOK /\ [Next]_vars => [Good]_vars
  <2> SUFFICES ASSUME TypeOK, Next PROVE Good
    OBVIOUS
  <2> USE DEF TypeOK, Settled, people
  <2>1. ASSUME NEW t \in Sets, NEW chs, status[t] = "draft",
               changes' = [changes EXCEPT ![t] = chs],
               UNCHANGED <<status, people, committedVersion, version>>
        PROVE  Good
    BY <2>1
  <2>2. ASSUME NEW u \in Users, NEW t \in Sets,
               \/ CreateSet(u, t) \/ Submit(u, t) \/ Reopen(u, t) \/ Discard(u, t)
        PROVE  Good
    BY <2>2 DEF CreateSet, Submit, Reopen, Discard, Editable
  <2>3. ASSUME NEW u \in Users, NEW t \in Sets, NEW approve \in BOOLEAN,
               NEW override \in BOOLEAN, Review(u, t, approve, override)
        PROVE  Good
    BY <2>3 DEF Review
  <2>4. ASSUME NEW u \in Users, NEW t \in Sets, NEW op \in Ops, NEW k \in Keys,
               NEW into \in Keys, NEW keep \in BOOLEAN, AddChange(u, t, op, k, into, keep)
        PROVE  Good
    BY <2>1, <2>4 DEF AddChange, Editable
  <2>5. ASSUME NEW u \in Users, NEW t \in Sets, NEW i \in 1 .. MaxChanges,
               \/ Rebase(u, t, i) \/ DeleteChange(u, t, i)
               \/ \E into \in SoftKeys : Retarget(u, t, i, into)
        PROVE  Good
    BY <2>1, <2>5 DEF Rebase, DeleteChange, Retarget, Editable
  <2>6. ASSUME NEW u \in Users, NEW t \in Sets, Commit(u, t) PROVE Good
    BY <2>6 DEF Commit, LiveAs
  <2>7. ASSUME NEW a \in Users, NEW u \in Restless,
               \/ \E admin \in BOOLEAN : SetAdmin(a, u, admin)
               \/ \E r \in GrantRoles \cup {"none"} : SetAccess(a, u, r)
        PROVE  Good
    BY <2>7 DEF SetAdmin, SetAccess
  <2>8. ASSUME EndCommit PROVE Good
    BY <2>8 DEF EndCommit
  <2> HIDE DEF Good, TypeOK, Settled, people
  <2> QED
    BY <2>2, <2>3, <2>4, <2>5, <2>6, <2>7, <2>8 DEF Next, Request
<1> QED
  BY <1>1, TypeInit, TypeStep, PTL DEF Spec, SettledForGood

-----------------------------------------------------------------------------
(* The live rows are the committed sets, applied one after the other.       *)

\* what LiveIsHistory says of the order in which the sets went live
InOrder(st, at, l, v) ==
  /\ \A s \in Sets : st[s] = "committed" <=> \E i \in DOMAIN l : l[i] = s
  /\ \A i, j \in DOMAIN l : i < j => l[i] # l[j] /\ at[l[i]] <= at[l[j]]
  /\ \A i \in DOMAIN l : at[l[i]] \in 2 .. v

\* and of one row, after the sets of l
RowTold(chs, l, r, k) ==
  /\ (\A i \in DOMAIN l : Writes(chs[l[i]], k) = {}) => r = Loaded(k)
  /\ \A i \in DOMAIN l :
       /\ Writes(chs[l[i]], k) # {}
       /\ \A j \in DOMAIN l : j > i => Writes(chs[l[j]], k) = {}
       => /\ IsLive(r) <=> Leaves(chs[l[i]], k)
          /\ r.ver > 0 => r.by = l[i]

History ==
  /\ version >= 1 /\ (batch # None => version >= 2)
  /\ InOrder(status, committedVersion, log, version)
  /\ \A k \in Keys : RowTold(changes, log, row[k], k)

LEMMA HistorySays == History => LiveIsHistory
BY DEF History, InOrder, RowTold, LiveIsHistory, WritesRow

\* the changes of the sets gone live are all that RowTold looks at
LEMMA ToldAgain ==
  ASSUME NEW k, NEW r, NEW l, NEW a, NEW b,
         \A i \in DOMAIN l : b[l[i]] = a[l[i]], RowTold(a, l, r, k)
  PROVE  RowTold(b, l, r, k)
BY DEF RowTold

\* a step that commits nothing and touches no committed set
LEMMA HistoryKept ==
  ASSUME TypeOK, History, UNCHANGED <<committedVersion, row, version, log>>,
         batch' = batch \/ batch' = None,
         \A s \in Sets : status'[s] = "committed" <=> status[s] = "committed",
         \A s \in Sets : status[s] = "committed" => changes'[s] = changes[s]
  PROVE  History'
<1>1. InOrder(status', committedVersion', log', version')
  BY DEF History, InOrder
<1>2. \A i \in DOMAIN log : changes'[log[i]] = changes[log[i]]
  <2>1. \A i \in DOMAIN log : log[i] \in Sets
    BY DEF TypeOK
  <2> QED
    BY <2>1 DEF History, InOrder
<1>3. \A k \in Keys : RowTold(changes', log', row'[k], k)
  BY <1>2, ToldAgain DEF History
<1>4. version' >= 1 /\ (batch' # None => version' >= 2)
  BY DEF History
<1> QED
  BY <1>1, <1>3, <1>4 DEF History

\* what a commit makes of a row it writes: it is there just as the set leaves it
LEMMA RowAfterSays ==
  ASSUME NEW chs \in Seq(Change), NEW s \in Sets, NEW k \in Keys, row[k] \in Row, Clean(chs)
  PROVE  /\ Writes(chs, k) = {} => RowAfter(chs, s, k) = row[k]
         /\ Writes(chs, k) # {} =>
              /\ IsLive(RowAfter(chs, s, k)) <=> Leaves(chs, k)
              /\ RowAfter(chs, s, k).ver > 0 => RowAfter(chs, s, k).by = s
<1> DEFINE w == Writes(chs, k)
           end == Len(chs) + 1
           e == Existence(chs, end, k)
           sinceCreate == {i \in w : \A j \in Creates(chs, k) : j < i}
           count == IF Creates(chs, k) = {} THEN row[k].ver + Cardinality(w)
                    ELSE 1 + Cardinality(sinceCreate)
<1>1. w = {} => RowAfter(chs, s, k) = row[k]
  BY DEF RowAfter
<1> SUFFICES ASSUME w # {}
             PROVE  /\ IsLive(RowAfter(chs, s, k)) <=> Leaves(chs, k)
                    /\ RowAfter(chs, s, k).ver > 0 => RowAfter(chs, s, k).by = s
  BY <1>1
<1>2. w \in SUBSET DOMAIN chs /\ sinceCreate \in SUBSET DOMAIN chs
  BY DEF Writes
<1>3. /\ IsFiniteSet(w) /\ Cardinality(w) \in Nat /\ Cardinality(sinceCreate) \in Nat
      /\ row[k].ver \in Nat
  BY <1>2, WritesFinite DEF Row
<1>4. Cardinality(w) > 0
  BY <1>3, FS_EmptySet
<1>5. DOMAIN chs = 1 .. Len(chs) /\ Len(chs) \in Nat
  BY LenProperties
<1>6. Alive(chs, end, k) <=> Leaves(chs, k)
  <2>1. CASE e # {}
    BY <2>1 DEF Alive, Leaves
  <2>2. CASE e = {}
    <3>1. PICK i \in DOMAIN chs :
            chs[i].key = k \/ (chs[i].op = "merge" /\ chs[i].keep /\ chs[i].into = k)
      BY DEF Writes
    <3>2. i \in 1 .. (end - 1)
      BY <1>5, <3>1
    <3>3. chs[i] \in Change
      BY ElementOfSeq, <1>5
    <3>4. chs[i].op \notin {"create", "delete", "merge"} \/ chs[i].key # k
      BY <2>2, <3>2 DEF Existence
    <3>5. Existence(chs, i, k) = {}
      BY <1>5, <2>2, <3>1 DEF Existence
    <3>6. Applies(chs, i)
      BY <3>1 DEF Clean
    <3>7. Alive(chs, i, k)
      <4>1. CASE chs[i].op = "merge"
        BY <3>1, <3>4, <3>6, <4>1 DEF Applies
      <4>2. CASE chs[i].op # "merge"
        <5>1. chs[i].key = k /\ chs[i].op # "create"
          BY <3>1, <3>4, <4>2
        <5> QED
          BY <3>6, <4>2, <5>1 DEF Applies
      <4> QED
        BY <4>1, <4>2
    <3>8. row[k].ver > 0 /\ ~row[k].deleted
      BY <3>5, <3>7 DEF Alive
    <3> QED
      BY <2>2, <3>8 DEF Alive, Leaves
  <2> QED
    BY <2>1, <2>2
<1> HIDE DEF w, e, sinceCreate
<1>7. count > 0
  BY <1>3, <1>4
<1>8. RowAfter(chs, s, k) =
        IF k \notin SoftKeys /\ ~Alive(chs, end, k) THEN NoRow
        ELSE [ver |-> count, deleted |-> ~Alive(chs, end, k), by |-> s]
  BY DEF RowAfter, w, sinceCreate
<1> HIDE DEF count, end
<1>9. CASE k \notin SoftKeys /\ ~Alive(chs, end, k)
  BY <1>6, <1>8, <1>9 DEF IsLive, NoRow, end
<1>10. CASE ~(k \notin SoftKeys /\ ~Alive(chs, end, k))
  <2> DEFINE gone == ~Alive(chs, end, k)
  <2>1. RowAfter(chs, s, k) = [ver |-> count, deleted |-> gone, by |-> s]
    BY <1>8, <1>10
  <2>2. gone = ~Leaves(chs, k) /\ gone \in BOOLEAN
    BY <1>6 DEF end
  <2> HIDE DEF gone
  <2>3. /\ RowAfter(chs, s, k).ver = count /\ RowAfter(chs, s, k).by = s
        /\ RowAfter(chs, s, k).deleted = gone
    BY <2>1
  <2> QED
    BY <1>7, <2>2, <2>3 DEF IsLive
<1> QED
  BY <1>9, <1>10

LEMMA HistoryCommit ==
  ASSUME TypeOK, History, NEW u \in Users, NEW s \in Sets, Commit(u, s)
  PROVE  History'
<1> DEFINE n == Len(log)
<1>1. /\ version' = LiveAs /\ version \in Nat /\ changes' = changes
      /\ status[s] = "approved" /\ status' = [status EXCEPT ![s] = "committed"]
      /\ committedVersion' = [committedVersion EXCEPT ![s] = LiveAs]
      /\ log' = Append(log, s) /\ Clean(changes[s]) /\ changes[s] \in Seq(Change)
      /\ row' = [k \in Keys |-> RowAfter(changes[s], s, k)]
  BY DEF Commit, TypeOK
<1>2. LiveAs \in Nat /\ LiveAs >= version /\ LiveAs >= 2
  BY <1>1 DEF LiveAs, History
<1>3. /\ n \in Nat /\ DOMAIN log = 1 .. n /\ DOMAIN log' = 1 .. (n + 1)
      /\ log'[n + 1] = s /\ \A i \in 1 .. n : log'[i] = log[i] /\ log[i] \in Sets
  BY <1>1 DEF TypeOK
<1>4. /\ \A t \in Sets \ {s} : /\ committedVersion'[t] = committedVersion[t]
                               /\ status'[t] = status[t]
      /\ committedVersion'[s] = LiveAs /\ status'[s] = "committed"
  BY <1>1 DEF TypeOK
<1>5. InOrder(status, committedVersion, log, version)
  BY DEF History
<1>6. \A i \in 1 .. n : log[i] # s
  BY <1>1, <1>3, <1>5 DEF InOrder
<1> HIDE DEF n
<1>7. \A t \in Sets : status'[t] = "committed" <=> \E i \in DOMAIN log' : log'[i] = t
  <2>1. ASSUME NEW t \in Sets, t # s
        PROVE  status'[t] = "committed" <=> \E i \in DOMAIN log' : log'[i] = t
    <3>1. (\E i \in 1 .. (n + 1) : log'[i] = t) <=> \E i \in 1 .. n : log[i] = t
      BY <1>3, <2>1
    <3>2. status[t] = "committed" <=> \E i \in 1 .. n : log[i] = t
      BY <1>3, <1>5 DEF InOrder
    <3> QED
      BY <1>3, <1>4, <2>1, <3>1, <3>2
  <2>2. n + 1 \in DOMAIN log'
    BY <1>3
  <2> QED
    BY <1>3, <1>4, <2>1, <2>2
<1>8. ASSUME NEW i \in DOMAIN log' PROVE committedVersion'[log'[i]] \in 2 .. version'
  <2>1. CASE i = n + 1
    BY <1>1, <1>2, <1>3, <1>4, <2>1
  <2>2. CASE i # n + 1
    <3>1. i \in 1 .. n
      BY <1>3, <2>2
    <3>2. committedVersion[log[i]] \in 2 .. version
      BY <1>3, <1>5, <3>1 DEF InOrder
    <3>3. committedVersion'[log'[i]] = committedVersion[log[i]]
      BY <1>3, <1>4, <1>6, <3>1
    <3> QED
      BY <1>1, <1>2, <3>2, <3>3
  <2> QED
    BY <2>1, <2>2
<1>9. ASSUME NEW i \in DOMAIN log', NEW j \in DOMAIN log', i < j
      PROVE  /\ log'[i] # log'[j]
             /\ committedVersion'[log'[i]] <= committedVersion'[log'[j]]
  <2>1. i \in 1 .. n
    BY <1>3, <1>9
  <2>2. committedVersion'[log'[i]] = committedVersion[log[i]] /\ log'[i] = log[i]
    BY <1>3, <1>4, <1>6, <2>1
  <2>3. CASE j = n + 1
    <3>1. committedVersion[log[i]] \in 2 .. version
      BY <1>3, <1>5, <2>1 DEF InOrder
    <3> QED
      BY <1>1, <1>2, <1>3, <1>4, <1>6, <2>1, <2>2, <2>3, <3>1
  <2>4. CASE j # n + 1
    <3>1. j \in 1 .. n
      BY <1>3, <2>4
    <3>2. log[i] # log[j] /\ committedVersion[log[i]] <= committedVersion[log[j]]
      BY <1>3, <1>5, <1>9, <2>1, <3>1 DEF InOrder
    <3> QED
      BY <1>3, <1>4, <1>6, <2>2, <3>1, <3>2
  <2> QED
    BY <2>3, <2>4
<1>10. InOrder(status', committedVersion', log', version')
  BY <1>7, <1>8, <1>9 DEF InOrder
<1>11. ASSUME NEW k \in Keys PROVE RowTold(changes', log', row'[k], k)
  <2>1. row'[k] = RowAfter(changes[s], s, k) /\ row[k] \in Row /\ RowTold(changes, log, row[k], k)
    BY <1>1 DEF TypeOK, History
  <2>2. CASE Writes(changes[s], k) = {}
    <3>1. row'[k] = row[k]
      BY <1>1, <2>1, <2>2, RowAfterSays
    <3>2. \A i \in 1 .. (n + 1) : Writes(changes[log'[i]], k) # {} => i \in 1 .. n
      BY <1>3, <2>2
    <3>3. ASSUME \A i \in DOMAIN log' : Writes(changes[log'[i]], k) = {}
          PROVE  row'[k] = Loaded(k)
      <4>1. \A i \in DOMAIN log : Writes(changes[log[i]], k) = {}
        <5>1. \A i \in 1 .. n : i \in 1 .. (n + 1)
          BY <1>3
        <5> QED
          BY <1>3, <3>3, <5>1
      <4> QED
        BY <2>1, <3>1, <4>1 DEF RowTold
    <3>4. ASSUME NEW i \in DOMAIN log', Writes(changes[log'[i]], k) # {},
                 \A j \in DOMAIN log' : j > i => Writes(changes[log'[j]], k) = {}
          PROVE  /\ IsLive(row'[k]) <=> Leaves(changes[log'[i]], k)
                 /\ row'[k].ver > 0 => row'[k].by = log'[i]
      <4>1. i \in 1 .. n
        BY <1>3, <3>2, <3>4
      <4>2. \A j \in DOMAIN log : j > i => Writes(changes[log[j]], k) = {}
        <5>1. \A j \in 1 .. n : j \in 1 .. (n + 1)
          BY <1>3
        <5> QED
          BY <1>3, <3>4, <5>1
      <4>3. log'[i] = log[i] /\ i \in DOMAIN log
        BY <1>3, <4>1
      <4> QED
        BY <2>1, <3>1, <3>4, <4>2, <4>3 DEF RowTold
    <3> QED
      BY <1>1, <3>3, <3>4 DEF RowTold
  <2>3. CASE Writes(changes[s], k) # {}
    <3>1. /\ IsLive(row'[k]) <=> Leaves(changes[s], k)
          /\ row'[k].ver > 0 => row'[k].by = s
      BY <1>1, <2>1, <2>3, RowAfterSays
    <3>2. n + 1 \in DOMAIN log' /\ Writes(changes[log'[n + 1]], k) # {}
      BY <1>3, <2>3
    <3>3. ASSUME NEW i \in DOMAIN log',
                 \A j \in DOMAIN log' : j > i => Writes(changes[log'[j]], k) = {}
          PROVE  log'[i] = s
      <4>1. ~(n + 1 > i)
        BY <3>2, <3>3
      <4>2. i = n + 1
        BY <1>3, <4>1
      <4> QED
        BY <1>3, <4>2
    <3> QED
      BY <1>1, <3>1, <3>2, <3>3 DEF RowTold
  <2> QED
    BY <2>2, <2>3
<1>12. version' >= 1 /\ version' >= 2
  BY <1>1, <1>2
<1> QED
  BY <1>10, <1>11, <1>12 DEF History

LEMMA HistoryStep == TypeOK /\ History /\ [Next]_vars => History'
<1> SUFFICES ASSUME TypeOK, History, [Next]_vars PROVE History'
  OBVIOUS
<1>1. ASSUME NEW t \in Sets, NEW chs, status[t] = "draft",
             changes' = [changes EXCEPT ![t] = chs],
             UNCHANGED <<status, committedVersion, row, version, batch, log>>
      PROVE  History'
  BY <1>1, HistoryKept DEF TypeOK
<1>2. ASSUME NEW u \in Users, NEW t \in Sets,
             \/ CreateSet(u, t) \/ Submit(u, t) \/ Reopen(u, t) \/ Discard(u, t)
      PROVE  History'
  BY <1>2, HistoryKept DEF CreateSet, Submit, Reopen, Discard, Editable, TypeOK
<1>3. ASSUME NEW u \in Users, NEW t \in Sets, NEW approve \in BOOLEAN,
             NEW override \in BOOLEAN, Review(u, t, approve, override)
      PROVE  History'
  BY <1>3, HistoryKept DEF Review, TypeOK
<1>4. ASSUME NEW u \in Users, NEW t \in Sets, NEW op \in Ops, NEW k \in Keys,
             NEW into \in Keys, NEW keep \in BOOLEAN, AddChange(u, t, op, k, into, keep)
      PROVE  History'
  BY <1>1, <1>4 DEF AddChange, Editable
<1>5. ASSUME NEW u \in Users, NEW t \in Sets, NEW i \in 1 .. MaxChanges,
             \/ Rebase(u, t, i) \/ DeleteChange(u, t, i)
             \/ \E into \in SoftKeys : Retarget(u, t, i, into)
      PROVE  History'
  BY <1>1, <1>5 DEF Rebase, DeleteChange, Retarget, Editable
<1>6. ASSUME NEW u \in Users, NEW t \in Sets, Commit(u, t) PROVE History'
  BY <1>6, HistoryCommit
<1>7. ASSUME NEW a \in Users, NEW u \in Restless,
             \/ \E admin \in BOOLEAN : SetAdmin(a, u, admin)
             \/ \E r \in GrantRoles \cup {"none"} : SetAccess(a, u, r)
      PROVE  History'
  BY <1>7, HistoryKept DEF SetAdmin, SetAccess
<1>8. CASE UNCHANGED vars \/ EndCommit
  BY <1>8, HistoryKept DEF vars, EndCommit
<1> QED
  BY <1>2, <1>3, <1>4, <1>5, <1>6, <1>7, <1>8 DEF Next, Request

(* The live rows are the committed sets, applied one after the other in the *)
(* order of their versions, those of one version in the order of their      *)
(* batch: a row is there, and says what it says, by the last of them that   *)
(* writes it, and a row that none writes is as it was loaded.               *)
THEOREM LiveIsHistoryHolds == Spec => []LiveIsHistory
<1>1. Init => History
  BY DEF Init, History, InOrder, RowTold
<1> QED
  BY <1>1, HistorySays, TypeInit, TypeStep, HistoryStep, PTL DEF Spec
=============================================================================
