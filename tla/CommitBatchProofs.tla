-------------------------- MODULE CommitBatchProofs -------------------------
(***************************************************************************)
(* Proofs about CommitBatch, for any requests, sets, rows and jobs.        *)
(***************************************************************************)
EXTENDS CommitBatch, FiniteSetTheorems, SequenceTheorems, WellFoundedInduction, TLAPS

-----------------------------------------------------------------------------
(* The inductive invariant, in parts                                       *)

\* a running request stands at one of the sets it names
Place ==
  \A r \in Requests :
    pc[r] # "idle" => job[r] \in Jobs /\ at[r] \in 1 .. Len(job[r].ids)

\* at work, it holds the set's row, knows what is committed of it, and has
\* not committed it yet
AtWork ==
  \A r \in Requests :
    pc[r] = "work" => /\ setLock[Cur(r)] = r
                      /\ mine[r].status[Cur(r)] = status[Cur(r)]
                      /\ Cur(r) \notin mine[r].live

\* a set says committed just when it went live
Fate == \A s \in Sets : status[s] = "committed" <=> wentLive[s] # 0

\* the same of a transaction's own view of the sets it holds
OwnFate ==
  \A r \in Requests, s \in Sets :
    /\ s \in mine[r].live => setLock[s] = r /\ wentLive[s] = 0
    /\ setLock[s] = r =>
         (mine[r].status[s] = "committed" <=> s \in mine[r].live \/ wentLive[s] # 0)

\* only a commit puts sets live, and while it holds the feed the next version is its own
Reach ==
  \A r \in Requests :
    /\ mine[r].live # {} => job[r].kind = "commit" /\ pc[r] \in {"set", "work", "end"}
    /\ job[r].kind = "commit" /\ pc[r] \in {"set", "work", "end"} =>
         mine[r].version = version + 1

Filled == {wentLive[s] : s \in Live} = 2 .. version /\ version >= 1


-----------------------------------------------------------------------------
(* Types                                                                   *)
LEMMA NoViewType == NoView \in View
BY DEF NoView, View, Statuses

(* A view stays one through each way a step writes to it; the parts that    *)
(* later proofs look at are what one expects.                               *)
Setting(v, s, st) == [v EXCEPT !.status[s] = st]
Reading(v, n, f) == [v EXCEPT !.version = n, !.rowVer = f]
Knowing(v, s, st, n) == [v EXCEPT !.status[s] = st, !.base[s] = n]
Basing(v, s, n) == [v EXCEPT !.base[s] = n]
Putting(v, s, k) ==
  [v EXCEPT !.status[s] = "committed", !.rowVer[k] = @ + 1, !.live = @ \cup {s}]

LEMMA ViewSetting ==
  ASSUME NEW v \in View, NEW s \in Sets, NEW st \in Statuses
  PROVE  /\ Setting(v, s, st) \in View
         /\ Setting(v, s, st).status = [v.status EXCEPT ![s] = st]
         /\ Setting(v, s, st).live = v.live /\ Setting(v, s, st).version = v.version
BY DEF Setting, View

LEMMA ViewBasing ==
  ASSUME NEW v \in View, NEW s \in Sets, NEW n \in Nat
  PROVE  /\ Basing(v, s, n) \in View
         /\ Basing(v, s, n).status = v.status
         /\ Basing(v, s, n).live = v.live /\ Basing(v, s, n).version = v.version
BY DEF Basing, View

LEMMA ViewReading ==
  ASSUME NEW v \in View, NEW n \in Nat, NEW f \in [Keys -> Nat]
  PROVE  /\ Reading(v, n, f) \in View
         /\ Reading(v, n, f).status = v.status
         /\ Reading(v, n, f).live = v.live /\ Reading(v, n, f).version = n
<1> DEFINE w == [v EXCEPT !.version = n]
<1>1. w \in View /\ w.status = v.status /\ w.live = v.live /\ w.version = n
  BY DEF View
<1>2. Reading(v, n, f) = [w EXCEPT !.rowVer = f]
  BY DEF Reading
<1> HIDE DEF w
<1>3. /\ [w EXCEPT !.rowVer = f] \in View
      /\ [w EXCEPT !.rowVer = f].status = w.status
      /\ [w EXCEPT !.rowVer = f].live = w.live
      /\ [w EXCEPT !.rowVer = f].version = w.version
  BY <1>1 DEF View
<1> QED
  BY <1>1, <1>2, <1>3

LEMMA ViewKnowing ==
  ASSUME NEW v \in View, NEW s \in Sets, NEW st \in Statuses, NEW n \in Nat
  PROVE  /\ Knowing(v, s, st, n) \in View
         /\ Knowing(v, s, st, n).status = [v.status EXCEPT ![s] = st]
         /\ Knowing(v, s, st, n).live = v.live
         /\ Knowing(v, s, st, n).version = v.version
<1>1. Knowing(v, s, st, n) = Basing(Setting(v, s, st), s, n)
  BY DEF Knowing, Basing, Setting
<1> QED
  BY <1>1, ViewSetting, ViewBasing

LEMMA ViewPutting ==
  ASSUME NEW v \in View, NEW s \in Sets, NEW k \in Keys
  PROVE  /\ Putting(v, s, k) \in View
         /\ Putting(v, s, k).status = [v.status EXCEPT ![s] = "committed"]
         /\ Putting(v, s, k).live = v.live \cup {s}
         /\ Putting(v, s, k).version = v.version
<1> DEFINE w == Setting(v, s, "committed")
           x == [w EXCEPT !.rowVer[k] = @ + 1]
<1>1. "committed" \in Statuses
  BY DEF Statuses
<1>2. /\ w \in View /\ w.status = [v.status EXCEPT ![s] = "committed"]
      /\ w.live = v.live /\ w.version = v.version
  BY <1>1, ViewSetting
<1>3. Putting(v, s, k) = [x EXCEPT !.live = @ \cup {s}]
  BY DEF Putting, Setting
<1> HIDE DEF w
<1>4. x \in View /\ x.status = w.status /\ x.live = w.live /\ x.version = w.version
  BY <1>2 DEF View
<1> HIDE DEF x
<1>5. /\ [x EXCEPT !.live = @ \cup {s}] \in View
      /\ [x EXCEPT !.live = @ \cup {s}].status = x.status
      /\ [x EXCEPT !.live = @ \cup {s}].live = x.live \cup {s}
      /\ [x EXCEPT !.live = @ \cup {s}].version = x.version
  BY <1>4 DEF View
<1> QED
  BY <1>2, <1>3, <1>4, <1>5

LEMMA CurType ==
  ASSUME TypeOK, Place, NEW r \in Requests, pc[r] # "idle"
  PROVE  /\ Cur(r) \in Sets /\ KeyOf[Cur(r)] \in Keys
         /\ job[r] \in Jobs /\ job[r].ids \in Seq(Sets) /\ at[r] \in 1 .. Len(job[r].ids)
<1>1. job[r] \in Job /\ at[r] \in 1 .. Len(job[r].ids)
  BY JobsAssumption DEF Place
<1>2. job[r].ids \in Seq(Sets)
  BY <1>1 DEF Job
<1> QED
  BY <1>1, <1>2, ElementOfSeq, KeyAssumption DEF Cur, Place

LEMMA ProceedType ==
  ASSUME TypeOK, Place, NEW r \in Requests, pc[r] = "work", Proceed(r),
         UNCHANGED job
  PROVE  /\ Place' /\ at' \in [Requests -> Nat]
         /\ pc' \in [Requests -> {"idle", "feed", "version", "set", "work", "end"}]
         /\ \A q \in Requests \ {r} : pc'[q] = pc[q] /\ at'[q] = at[q]
         /\ pc'[r] \in {"set", "end"}
<1>1. at[r] \in 1 .. Len(job[r].ids) /\ Len(job[r].ids) \in Nat
  BY CurType, LenProperties
<1> QED
  BY <1>1 DEF Proceed, Place, TypeOK

LEMMA FinishType ==
  ASSUME TypeOK, Place, NEW r \in Requests, Finish(r)
  PROVE  /\ Place'
         /\ feedLock' \in Requests \cup {Free} /\ setLock' \in [Sets -> Requests \cup {Free}]
         /\ pc' \in [Requests -> {"idle", "feed", "version", "set", "work", "end"}]
         /\ job' \in [Requests -> Jobs \cup {NoJob}] /\ at' \in [Requests -> Nat]
         /\ attempt' \in [Requests -> 0 .. MaxAttempts] /\ mine' \in [Requests -> View]
BY NoViewType, AttemptsAssumption DEF TypeOK, Place, Finish

LEMMA TypeStep == TypeOK /\ Place /\ [Next]_vars => TypeOK' /\ Place'
<1> SUFFICES ASSUME TypeOK, Place, [Next]_vars PROVE TypeOK' /\ Place'
  OBVIOUS
<1> USE AttemptsAssumption
<1>1. ASSUME NEW r \in Requests, NEW j \in Jobs, Begin(r, j) PROVE TypeOK' /\ Place'
  <2>1. j.ids # <<>> /\ j.ids \in Seq(Sets)
    BY JobsAssumption DEF Job
  <2>2. 1 \in 1 .. Len(j.ids)
    BY <2>1, EmptySeq
  <2> QED
    BY <1>1, <2>2 DEF Begin, TypeOK, Place, db, locks
<1>2. ASSUME NEW r \in Requests, LockFeed(r) PROVE TypeOK' /\ Place'
  BY <1>2 DEF LockFeed, TypeOK, Place, db
<1>3. ASSUME NEW r \in Requests, ReadVersion(r) PROVE TypeOK' /\ Place'
  <2>1. /\ mine' = [mine EXCEPT ![r] = Reading(mine[r], version + 1, rowVer)]
        /\ pc[r] = "version" /\ pc' = [pc EXCEPT ![r] = "set"]
        /\ UNCHANGED <<db, locks, job, at, attempt>>
    BY <1>3 DEF ReadVersion, Reading
  <2>2. mine[r] \in View /\ version + 1 \in Nat /\ rowVer \in [Keys -> Nat]
    BY DEF TypeOK
  <2>3. Reading(mine[r], version + 1, rowVer) \in View
    BY <2>2, ViewReading
  <2>4. mine' \in [Requests -> View]
    BY <2>1, <2>3 DEF TypeOK
  <2> QED
    BY <2>1, <2>4 DEF TypeOK, Place, db, locks
<1>4. ASSUME NEW r \in Requests, LockSet(r) PROVE TypeOK' /\ Place'
  <2>1. /\ mine' = [mine EXCEPT ![r] = Knowing(mine[r], Cur(r), status[Cur(r)], base[Cur(r)])]
        /\ setLock' = [setLock EXCEPT ![Cur(r)] = r]
        /\ pc[r] = "set" /\ pc' = [pc EXCEPT ![r] = "work"]
        /\ UNCHANGED <<db, feedLock, job, at, attempt>>
    BY <1>4 DEF LockSet, Knowing
  <2>2. Cur(r) \in Sets
    BY <2>1, CurType
  <2>3. mine[r] \in View /\ status[Cur(r)] \in Statuses /\ base[Cur(r)] \in Nat
    BY <2>2 DEF TypeOK
  <2>4. Knowing(mine[r], Cur(r), status[Cur(r)], base[Cur(r)]) \in View
    BY <2>2, <2>3, ViewKnowing
  <2>5. mine' \in [Requests -> View]
    BY <2>1, <2>4 DEF TypeOK
  <2> QED
    BY <2>1, <2>5 DEF TypeOK, Place, db
<1>5. ASSUME NEW r \in Requests, NEW v \in View, pc[r] = "work", Write(r, v)
      PROVE  TypeOK' /\ Place'
  <2>1. mine' \in [Requests -> View]
    BY <1>5 DEF Write, TypeOK
  <2> QED
    BY <1>5, <2>1, ProceedType DEF Write, TypeOK, db, locks
<1>6. ASSUME NEW r \in Requests, Edit(r) PROVE TypeOK' /\ Place'
  <2>1. pc[r] = "work" /\ Write(r, Basing(mine[r], Cur(r), rowVer[KeyOf[Cur(r)]]))
    BY <1>6 DEF Edit, Working, Basing
  <2>2. Cur(r) \in Sets /\ mine[r] \in View /\ rowVer[KeyOf[Cur(r)]] \in Nat
    BY <2>1, CurType DEF TypeOK
  <2> QED
    BY <1>5, <2>1, <2>2, ViewBasing
<1>7. ASSUME NEW r \in Requests, NEW st \in Statuses,
             Write(r, Setting(mine[r], Cur(r), st)), pc[r] = "work"
      PROVE  TypeOK' /\ Place'
  <2>1. Cur(r) \in Sets /\ mine[r] \in View
    BY <1>7, CurType DEF TypeOK
  <2> QED
    BY <1>5, <1>7, <2>1, ViewSetting
<1>8. ASSUME NEW r \in Requests, Submit(r) \/ Approve(r) \/ Reopen(r)
      PROVE  TypeOK' /\ Place'
  BY <1>7, <1>8 DEF Submit, Approve, Reopen, Working, Statuses, Setting
<1>9. ASSUME NEW r \in Requests, CommitSet(r) PROVE TypeOK' /\ Place'
  <2>1. pc[r] = "work" /\ Write(r, Putting(mine[r], Cur(r), KeyOf[Cur(r)]))
    BY <1>9 DEF CommitSet, Working, Putting
  <2>2. Cur(r) \in Sets /\ KeyOf[Cur(r)] \in Keys /\ mine[r] \in View
    BY <2>1, CurType DEF TypeOK
  <2> QED
    BY <1>5, <2>1, <2>2, ViewPutting
<1>10. ASSUME NEW r \in Requests, FailSet(r) PROVE TypeOK' /\ Place'
  <2>1. /\ Knowing(mine[r], Cur(r), "draft", 0) \in View
        /\ Setting(mine[r], Cur(r), "approved") \in View
    <3>1. Cur(r) \in Sets /\ mine[r] \in View
      BY <1>10, CurType DEF FailSet, TypeOK
    <3>2. {"draft", "approved"} \subseteq Statuses /\ 0 \in Nat
      BY DEF Statuses
    <3> QED
      BY <3>1, <3>2, ViewKnowing, ViewSetting
  <2>2. /\ \/ mine' = [mine EXCEPT ![r] = Knowing(mine[r], Cur(r), "draft", 0)]
           \/ mine' = [mine EXCEPT ![r] = Setting(mine[r], Cur(r), "approved")]
        /\ setLock' = [setLock EXCEPT ![Cur(r)] = Free] \/ setLock' = setLock
    BY <1>10 DEF FailSet, Knowing, Setting
  <2>3. mine' \in [Requests -> View] /\ setLock' \in [Sets -> Requests \cup {Free}]
    BY <2>1, <2>2 DEF TypeOK
  <2>4. pc[r] = "work" /\ Proceed(r) /\ UNCHANGED <<db, feedLock, job, attempt>>
    BY <1>10 DEF FailSet
  <2> QED
    BY <2>4, <2>3, ProceedType DEF TypeOK, db
<1>11. ASSUME NEW r \in Requests, Commit(r) PROVE TypeOK' /\ Place'
  <2>1. mine[r] \in View /\ Finish(r)
    BY <1>11 DEF Commit, TypeOK
  <2>2. /\ status' \in [Sets -> Statuses] /\ base' \in [Sets -> Nat]
        /\ wentLive' \in [Sets -> Nat] /\ rowVer' \in [Keys -> Nat] /\ version' \in Nat
    BY <1>11, <2>1 DEF Commit, TypeOK, View
  <2> QED
    BY <2>1, <2>2, FinishType DEF TypeOK
<1>12. ASSUME NEW r \in Requests, Finish(r), UNCHANGED db PROVE TypeOK' /\ Place'
  BY <1>12, FinishType DEF TypeOK, db
<1>13. ASSUME NEW r \in Requests, pc[r] # "idle", attempt[r] # MaxAttempts,
              RunAgain(r, attempt[r] + 1)
       PROVE  TypeOK' /\ Place'
  <2>1. at[r] \in 1 .. Len(job[r].ids) /\ Len(job[r].ids) \in Nat
    BY <1>13, CurType, LenProperties
  <2>2. attempt[r] + 1 \in 0 .. MaxAttempts
    BY <1>13 DEF TypeOK
  <2>3. 1 \in 1 .. Len(job[r].ids)
    BY <2>1
  <2> QED
    BY <1>13, <2>2, <2>3, NoViewType DEF RunAgain, TypeOK, Place, db
<1>14. ASSUME NEW r \in Requests, Victim(r) PROVE TypeOK' /\ Place'
  <2>1. pc[r] # "idle"
    BY <1>14 DEF Victim, Deadlocked, Waits, Holder
  <2> QED
    BY <1>12, <1>13, <1>14, <2>1 DEF Victim
<1>15. CASE UNCHANGED vars
  BY <1>15 DEF vars, db, locks, TypeOK, Place
<1> QED
  BY <1>1, <1>2, <1>3, <1>4, <1>6, <1>8, <1>9, <1>10, <1>11, <1>12, <1>14, <1>15
     DEF Next, Step, Crash

LEMMA TypeInit == Init => TypeOK /\ Place
BY AttemptsAssumption, NoViewType DEF Init, TypeOK, Place, Statuses

(* Every variable keeps its type; in particular no request is tried more    *)
(* than MaxAttempts times (retry_transient).                                *)
THEOREM TypeCorrect == Spec => []TypeOK
BY TypeInit, TypeStep, PTL DEF Spec

-----------------------------------------------------------------------------
(* The other parts, together: each needs some of the others.                *)
Safe == OneReplayAtATime /\ AtWork /\ Fate /\ OwnFate /\ Reach /\ Filled

LEMMA SafeStep == TypeOK /\ Place /\ Safe /\ [Next]_vars => Safe'
<1> SUFFICES ASSUME TypeOK, Place, Safe, [Next]_vars PROVE Safe'
  OBVIOUS
<1> USE FreeAssumption
<1>1. ASSUME NEW r \in Requests, NEW j \in Jobs, Begin(r, j) PROVE Safe'
  <2> USE <1>1 DEF Begin, TypeOK, Safe, db, locks
  <2>1. OneReplayAtATime'
    BY DEF OneReplayAtATime, TakesFeed
  <2>2. AtWork'
    BY DEF AtWork, Cur
  <2>3. Fate' /\ OwnFate' /\ Filled'
    BY DEF Fate, OwnFate, Filled, Live
  <2>4. Reach'
    BY DEF Reach, TakesFeed
  <2> QED
    BY <2>1, <2>2, <2>3, <2>4
<1>2. ASSUME NEW r \in Requests, LockFeed(r) PROVE Safe'
  <2> USE <1>2 DEF LockFeed, TypeOK, Safe, db
  <2>1. OneReplayAtATime'
    BY DEF OneReplayAtATime
  <2>2. AtWork'
    BY DEF AtWork, Cur
  <2>3. Fate' /\ OwnFate' /\ Filled'
    BY DEF Fate, OwnFate, Filled, Live
  <2>4. Reach'
    BY DEF Reach
  <2> QED
    BY <2>1, <2>2, <2>3, <2>4
<1>3. ASSUME NEW r \in Requests, ReadVersion(r) PROVE Safe'
  <2>1. /\ mine' = [mine EXCEPT ![r] = Reading(mine[r], version + 1, rowVer)]
        /\ pc[r] = "version" /\ pc' = [pc EXCEPT ![r] = "set"]
        /\ UNCHANGED <<db, locks, job, at, attempt>>
    BY <1>3 DEF ReadVersion, Reading
  <2>2. mine[r] \in View /\ version + 1 \in Nat /\ rowVer \in [Keys -> Nat]
    BY DEF TypeOK
  <2>3. /\ mine'[r].status = mine[r].status /\ mine'[r].live = mine[r].live
        /\ mine'[r].version = version + 1
        /\ \A q \in Requests \ {r} : mine'[q] = mine[q]
    BY <2>1, <2>2, ViewReading DEF TypeOK
  <2> USE <2>1, <2>3 DEF TypeOK, Safe, db, locks
  <2>4. OneReplayAtATime'
    BY DEF OneReplayAtATime
  <2>5. AtWork'
    BY DEF AtWork, Cur
  <2>6. Fate' /\ Filled'
    BY DEF Fate, Filled, Live
  <2>7. OwnFate'
    BY DEF OwnFate
  <2>8. Reach'
    BY DEF Reach
  <2> QED
    BY <2>4, <2>5, <2>6, <2>7, <2>8
<1>4. ASSUME NEW r \in Requests, LockSet(r) PROVE Safe'
  <2> DEFINE s == Cur(r)
  <2>1. /\ mine' = [mine EXCEPT ![r] = Knowing(mine[r], s, status[s], base[s])]
        /\ setLock[s] = Free /\ setLock' = [setLock EXCEPT ![s] = r]
        /\ pc[r] = "set" /\ pc' = [pc EXCEPT ![r] = "work"]
        /\ UNCHANGED <<db, feedLock, job, at, attempt>>
    BY <1>4 DEF LockSet, Knowing
  <2>2. s \in Sets
    BY <2>1, CurType
  <2>3. mine[r] \in View /\ status[s] \in Statuses /\ base[s] \in Nat
    BY <2>2 DEF TypeOK
  <2>4. /\ mine'[r].status = [mine[r].status EXCEPT ![s] = status[s]]
        /\ mine'[r].live = mine[r].live /\ mine'[r].version = mine[r].version
        /\ \A q \in Requests \ {r} : mine'[q] = mine[q]
    <3>1. /\ mine'[r] = Knowing(mine[r], s, status[s], base[s])
          /\ \A q \in Requests \ {r} : mine'[q] = mine[q]
      BY <2>1 DEF TypeOK
    <3> HIDE DEF s
    <3> QED
      BY <2>2, <2>3, <3>1, ViewKnowing
  <2>5. mine[r].status \in [Sets -> Statuses]
    BY <2>3 DEF View
  <2>6. \A q \in Requests : Cur(q)' = Cur(q)
    BY <2>1 DEF Cur
  <2>7. s \notin mine[r].live
    BY <2>1, <2>2 DEF Safe, OwnFate
  <2> HIDE DEF s
  <2> USE <2>1, <2>2, <2>4, <2>5, <2>7 DEF TypeOK, Safe, db
  <2>8. OneReplayAtATime'
    BY DEF OneReplayAtATime
  <2>9. AtWork'
    BY <2>6 DEF AtWork, s
  <2>10. Fate' /\ Filled'
    BY DEF Fate, Filled, Live
  <2>11. OwnFate'
    BY DEF OwnFate, Fate
  <2>12. Reach'
    BY DEF Reach
  <2> QED
    BY <2>8, <2>9, <2>10, <2>11, <2>12
\* a step that changes neither what r has put live nor whether its set is committed
<1>5. ASSUME NEW r \in Requests, pc[r] = "work", NEW v \in View, Write(r, v),
             v.live = mine[r].live, v.version = mine[r].version,
             \A s \in Sets : v.status[s] = "committed" <=> mine[r].status[s] = "committed"
      PROVE  Safe'
  <2>1. /\ \A q \in Requests \ {r} : pc'[q] = pc[q] /\ at'[q] = at[q]
        /\ pc'[r] \in {"set", "end"}
    BY <1>5, ProceedType DEF Write
  <2>2. mine'[r] = v /\ \A q \in Requests \ {r} : mine'[q] = mine[q]
    BY <1>5 DEF Write, TypeOK
  <2>3. UNCHANGED <<db, locks, job, attempt>>
    BY <1>5 DEF Write
  <2>4. \A q \in Requests \ {r} : Cur(q)' = Cur(q)
    BY <2>1, <2>3 DEF Cur
  <2> USE <1>5, <2>1, <2>2, <2>3 DEF Safe, db, locks
  <2>5. OneReplayAtATime'
    BY DEF OneReplayAtATime
  <2>6. AtWork'
    BY <2>4 DEF AtWork
  <2>7. Fate' /\ Filled'
    BY DEF Fate, Filled, Live
  <2>8. OwnFate'
    BY DEF OwnFate
  <2>9. Reach'
    BY DEF Reach
  <2> QED
    BY <2>5, <2>6, <2>7, <2>8, <2>9
<1>6. ASSUME NEW r \in Requests, Edit(r) PROVE Safe'
  <2>1. pc[r] = "work" /\ Write(r, Basing(mine[r], Cur(r), rowVer[KeyOf[Cur(r)]]))
    BY <1>6 DEF Edit, Working, Basing
  <2>2. Cur(r) \in Sets /\ mine[r] \in View /\ rowVer[KeyOf[Cur(r)]] \in Nat
    BY <2>1, CurType DEF TypeOK
  <2> QED
    BY <1>5, <2>1, <2>2, ViewBasing
<1>7. ASSUME NEW r \in Requests, NEW st \in Statuses \ {"committed"},
             Write(r, Setting(mine[r], Cur(r), st)), pc[r] = "work",
             mine[r].status[Cur(r)] # "committed"
      PROVE  Safe'
  <2>1. Cur(r) \in Sets /\ mine[r] \in View /\ st \in Statuses
    BY <1>7, CurType DEF TypeOK
  <2>2. mine[r].status \in [Sets -> Statuses]
    BY <2>1 DEF View
  <2>3. /\ Setting(mine[r], Cur(r), st) \in View
        /\ Setting(mine[r], Cur(r), st).status = [mine[r].status EXCEPT ![Cur(r)] = st]
        /\ Setting(mine[r], Cur(r), st).live = mine[r].live
        /\ Setting(mine[r], Cur(r), st).version = mine[r].version
    BY <2>1, ViewSetting
  <2>4. \A s \in Sets : Setting(mine[r], Cur(r), st).status[s] = "committed"
                          <=> mine[r].status[s] = "committed"
    BY <1>7, <2>1, <2>2, <2>3
  <2> QED
    BY <1>5, <1>7, <2>3, <2>4
<1>8. ASSUME NEW r \in Requests, Submit(r) \/ Approve(r) \/ Reopen(r) PROVE Safe'
  BY <1>7, <1>8 DEF Submit, Approve, Reopen, Working, Statuses, Setting
<1>9. ASSUME NEW r \in Requests, CommitSet(r) PROVE Safe'
  <2> DEFINE s == Cur(r)
             v == Putting(mine[r], s, KeyOf[s])
  <2>1. /\ pc[r] = "work" /\ Write(r, v) /\ job[r].kind = "commit"
        /\ mine[r].status[s] \in {"submitted", "approved"}
    BY <1>9 DEF CommitSet, Working, Committable, Putting
  <2>2. s \in Sets /\ KeyOf[s] \in Keys /\ mine[r] \in View
    BY <2>1, CurType DEF TypeOK
  <2>3. /\ v.status = [mine[r].status EXCEPT ![s] = "committed"]
        /\ v.live = mine[r].live \cup {s} /\ v.version = mine[r].version
    <3> HIDE DEF s
    <3> QED
      BY <2>2, ViewPutting
  <2>4. mine[r].status \in [Sets -> Statuses]
    BY <2>2 DEF View
  <2>5. setLock[s] = r /\ wentLive[s] = 0
    <3>1. setLock[s] = r /\ status[s] # "committed"
      BY <2>1 DEF Safe, AtWork
    <3> QED
      BY <2>2, <3>1 DEF Safe, Fate
  <2>6. /\ \A q \in Requests \ {r} : pc'[q] = pc[q] /\ at'[q] = at[q]
        /\ pc'[r] \in {"set", "end"}
    BY <2>1, ProceedType DEF Write
  <2>7. UNCHANGED <<db, locks, job, attempt>>
    BY <2>1 DEF Write
  <2>8. mine'[r] = v /\ \A q \in Requests \ {r} : mine'[q] = mine[q]
    BY <2>1 DEF Write, TypeOK
  <2>9. \A q \in Requests \ {r} : Cur(q)' = Cur(q)
    BY <2>6, <2>7 DEF Cur
  <2> HIDE DEF s, v
  <2> USE <2>1, <2>2, <2>3, <2>4, <2>5, <2>6, <2>7, <2>8 DEF Safe, db, locks
  <2>10. OneReplayAtATime'
    BY DEF OneReplayAtATime
  <2>11. AtWork'
    BY <2>9 DEF AtWork
  <2>12. Fate' /\ Filled'
    BY DEF Fate, Filled, Live
  <2>13. OwnFate'
    BY DEF OwnFate
  <2>14. Reach'
    BY DEF Reach
  <2> QED
    BY <2>10, <2>11, <2>12, <2>13, <2>14
<1>10. ASSUME NEW r \in Requests, FailSet(r) PROVE Safe'
  <2> DEFINE s == Cur(r)
  <2>1. pc[r] = "work" /\ Proceed(r) /\ UNCHANGED <<db, feedLock, job, attempt>>
    BY <1>10 DEF FailSet
  <2>2. /\ \A q \in Requests \ {r} : pc'[q] = pc[q] /\ at'[q] = at[q]
        /\ pc'[r] \in {"set", "end"}
    BY <2>1, ProceedType
  <2>3. \A q \in Requests \ {r} : Cur(q)' = Cur(q)
    BY <2>1, <2>2 DEF Cur
  <2>4. s \in Sets /\ mine[r] \in View /\ {"draft", "approved"} \subseteq Statuses
    BY <2>1, CurType DEF TypeOK, Statuses
  <2>5. mine[r].status \in [Sets -> Statuses]
    BY <2>4 DEF View
  <2>6. /\ setLock[s] = r /\ s \notin mine[r].live
        /\ \A q \in Requests \ {r} : pc[q] = "work" => setLock[Cur(q)] = q /\ Cur(q) # s
    BY <2>1 DEF Safe, AtWork
  <2>7. /\ mine'[r].live = mine[r].live /\ mine'[r].version = mine[r].version
        /\ \A q \in Requests \ {r} : mine'[q] = mine[q]
        /\ \A t \in Sets \ {s} : mine'[r].status[t] = mine[r].status[t]
        /\ \/ setLock' = [setLock EXCEPT ![s] = Free]
           \/ /\ setLock' = setLock
              /\ mine'[r].status[s] # "committed" /\ mine[r].status[s] # "committed"
    <3>1. CASE /\ mine' = [mine EXCEPT ![r] = Knowing(mine[r], s, "draft", 0)]
               /\ setLock' = [setLock EXCEPT ![s] = Free]
      <4>1. mine'[r] = Knowing(mine[r], s, "draft", 0)
              /\ \A q \in Requests \ {r} : mine'[q] = mine[q]
        BY <3>1 DEF TypeOK
      <4> HIDE DEF s
      <4>2. /\ mine'[r].status = [mine[r].status EXCEPT ![s] = "draft"]
            /\ mine'[r].live = mine[r].live /\ mine'[r].version = mine[r].version
        BY <2>4, <4>1, ViewKnowing
      <4> QED
        BY <2>5, <3>1, <4>1, <4>2
    <3>2. CASE /\ mine' = [mine EXCEPT ![r] = Setting(mine[r], s, "approved")]
               /\ setLock' = setLock /\ mine[r].status[s] = "submitted"
      <4>1. mine'[r] = Setting(mine[r], s, "approved")
              /\ \A q \in Requests \ {r} : mine'[q] = mine[q]
        BY <3>2 DEF TypeOK
      <4> HIDE DEF s
      <4>2. /\ mine'[r].status = [mine[r].status EXCEPT ![s] = "approved"]
            /\ mine'[r].live = mine[r].live /\ mine'[r].version = mine[r].version
        BY <2>4, <4>1, ViewSetting
      <4> QED
        BY <2>4, <2>5, <3>2, <4>1, <4>2
    <3> QED
      BY <1>10, <3>1, <3>2 DEF FailSet, Knowing, Setting
  <2> HIDE DEF s
  <2> USE <2>1, <2>2, <2>4, <2>6, <2>7 DEF Safe, TypeOK, db
  <2>8. OneReplayAtATime'
    BY DEF OneReplayAtATime
  <2>9. AtWork'
    <3> SUFFICES ASSUME NEW q \in Requests, pc'[q] = "work"
                 PROVE  /\ setLock'[Cur(q)'] = q
                        /\ mine'[q].status[Cur(q)'] = status'[Cur(q)']
                        /\ Cur(q)' \notin mine'[q].live
      BY DEF AtWork
    <3>1. q # r /\ pc[q] = "work" /\ Cur(q)' = Cur(q)
      BY <2>3
    <3>2. Cur(q) \in Sets /\ setLock[Cur(q)] = q
      BY <3>1, CurType DEF AtWork
    <3> QED
      BY <3>1, <3>2 DEF AtWork
  <2>10. Fate' /\ Filled'
    BY DEF Fate, Filled, Live
  <2>11. OwnFate'
    BY DEF OwnFate
  <2>12. Reach'
    BY DEF Reach
  <2> QED
    BY <2>8, <2>9, <2>10, <2>11, <2>12
\* r lets go of everything and forgets what it wrote: an end, or another attempt
<1>11. ASSUME NEW r \in Requests, NEW p \in {"idle", "feed", "set"}, UNCHANGED db,
              feedLock' = IF feedLock = r THEN Free ELSE feedLock,
              setLock' = [s \in Sets |-> IF setLock[s] = r THEN Free ELSE setLock[s]],
              pc' = [pc EXCEPT ![r] = p], mine' = [mine EXCEPT ![r] = NoView],
              \A q \in Requests \ {r} : job'[q] = job[q] /\ at'[q] = at[q],
              p = "set" => ~TakesFeed(job'[r])
       PROVE  Safe'
  <2>1. /\ mine'[r].live = {} /\ pc'[r] = p
        /\ \A q \in Requests \ {r} : mine'[q] = mine[q] /\ pc'[q] = pc[q] /\ Cur(q)' = Cur(q)
    BY <1>11 DEF TypeOK, NoView, Cur
  <2> USE <1>11, <2>1 DEF Safe, TypeOK, db
  <2>2. OneReplayAtATime'
    BY DEF OneReplayAtATime
  <2>3. AtWork'
    BY CurType DEF AtWork
  <2>4. Fate' /\ Filled'
    BY DEF Fate, Filled, Live
  <2>5. OwnFate'
    BY DEF OwnFate
  <2>6. Reach'
    BY DEF Reach, TakesFeed
  <2> QED
    BY <2>2, <2>3, <2>4, <2>5, <2>6
<1>12. ASSUME NEW r \in Requests, Finish(r), UNCHANGED db PROVE Safe'
  BY <1>11, <1>12 DEF Finish, TypeOK
<1>13. ASSUME NEW r \in Requests, Victim(r) PROVE Safe'
  <2>1. CASE Finish(r) /\ UNCHANGED db
    BY <1>12, <2>1
  <2>2. CASE RunAgain(r, attempt[r] + 1)
    BY <1>11, <2>2 DEF RunAgain, TypeOK
  <2> QED
    BY <1>13, <2>1, <2>2 DEF Victim
<1>14. ASSUME NEW r \in Requests, Commit(r) PROVE Safe'
  <2>1. /\ Finish(r) /\ pc[r] = "end" /\ mine[r] \in View /\ version \in Nat
        /\ status' = [s \in Sets |-> IF setLock[s] = r THEN mine[r].status[s] ELSE status[s]]
        /\ wentLive' = [s \in Sets |-> IF s \in mine[r].live THEN mine[r].version
                                                            ELSE wentLive[s]]
        /\ version' = IF mine[r].live # {} THEN mine[r].version ELSE version
    BY <1>14 DEF Commit, TypeOK
  <2>2. /\ \A s \in mine[r].live : s \in Sets /\ setLock[s] = r /\ wentLive[s] = 0
        /\ mine[r].live # {} => job[r].kind = "commit" /\ mine[r].version = version + 1
    BY <2>1 DEF Safe, OwnFate, Reach, View
  <2>3. /\ pc'[r] = "idle" /\ mine'[r].live = {}
        /\ \A q \in Requests \ {r} :
             mine'[q] = mine[q] /\ pc'[q] = pc[q] /\ Cur(q)' = Cur(q) /\ job'[q] = job[q]
        /\ \A s \in Sets : setLock'[s] = IF setLock[s] = r THEN Free ELSE setLock[s]
        /\ feedLock' = IF feedLock = r THEN Free ELSE feedLock
    BY <2>1 DEF Finish, TypeOK, NoView, Cur
  <2>4. \A q \in Requests \ {r}, s \in Sets :
          setLock[s] = q => status'[s] = status[s] /\ wentLive'[s] = wentLive[s]
                            /\ s \notin mine[r].live
    BY <2>1, <2>2
  <2>5. OneReplayAtATime'
    BY <2>3 DEF Safe, OneReplayAtATime
  <2>6. AtWork'
    <3> SUFFICES ASSUME NEW q \in Requests, pc'[q] = "work"
                 PROVE  /\ setLock'[Cur(q)'] = q
                        /\ mine'[q].status[Cur(q)'] = status'[Cur(q)']
                        /\ Cur(q)' \notin mine'[q].live
      BY DEF AtWork
    <3>1. q # r /\ Cur(q)' = Cur(q) /\ mine'[q] = mine[q] /\ pc[q] = "work"
      BY <2>3
    <3>2. Cur(q) \in Sets
      BY <3>1, CurType
    <3> QED
      BY <2>3, <2>4, <3>1, <3>2 DEF Safe, AtWork
  <2>7. Fate'
    <3> SUFFICES ASSUME NEW s \in Sets PROVE status'[s] = "committed" <=> wentLive'[s] # 0
      BY DEF Fate
    <3>1. CASE setLock[s] = r
      BY <2>1, <2>2, <3>1 DEF Safe, OwnFate, Reach
    <3>2. CASE setLock[s] # r
      BY <2>1, <2>2, <3>2 DEF Safe, Fate
    <3> QED
      BY <3>1, <3>2
  <2>8. OwnFate'
    <3> SUFFICES ASSUME NEW q \in Requests, NEW s \in Sets
                 PROVE  /\ s \in mine'[q].live => setLock'[s] = q /\ wentLive'[s] = 0
                        /\ setLock'[s] = q =>
                             (mine'[q].status[s] = "committed"
                                <=> s \in mine'[q].live \/ wentLive'[s] # 0)
      BY DEF OwnFate
    <3>1. CASE q = r
      BY <2>3, <3>1
    <3>2. CASE q # r
      BY <2>3, <2>4, <3>2 DEF Safe, OwnFate
    <3> QED
      BY <3>1, <3>2
  <2>9. Reach'
    <3> SUFFICES ASSUME NEW q \in Requests
                 PROVE  /\ mine'[q].live # {} =>
                             job'[q].kind = "commit" /\ pc'[q] \in {"set", "work", "end"}
                        /\ job'[q].kind = "commit" /\ pc'[q] \in {"set", "work", "end"} =>
                             mine'[q].version = version' + 1
      BY DEF Reach
    <3>1. CASE q = r
      BY <2>3, <3>1
    <3>2. CASE q # r /\ mine[r].live = {}
      BY <2>1, <2>3, <3>2 DEF Safe, Reach
    <3>3. CASE q # r /\ mine[r].live # {}
      <4>1. feedLock = r
        BY <2>1, <2>2, <3>3 DEF Safe, OneReplayAtATime, TakesFeed
      <4>2. ~(job[q].kind = "commit" /\ pc[q] \in {"set", "work", "end"})
        BY <3>3, <4>1 DEF Safe, OneReplayAtATime, TakesFeed
      <4> QED
        BY <2>3, <3>3, <4>2 DEF Safe, Reach
    <3> QED
      BY <3>1, <3>2, <3>3
  <2>10. Filled'
    <3>1. CASE mine[r].live = {}
      <4>1. version' = version /\ \A s \in Sets : wentLive'[s] = wentLive[s]
        BY <2>1, <3>1
      <4> QED
        BY <4>1 DEF Safe, Filled, Live
    <3>2. CASE mine[r].live # {}
      <4>1. version' = version + 1 /\ version >= 1
        BY <2>1, <2>2, <3>2 DEF Safe, Filled
      <4>2. \A s \in Sets :
              wentLive'[s] = IF s \in mine[r].live THEN version + 1 ELSE wentLive[s]
        BY <2>1, <2>2
      <4>3. PICK t \in mine[r].live : TRUE
        BY <3>2
      <4>4. ASSUME NEW s \in Sets, wentLive'[s] # 0 PROVE wentLive'[s] \in 2 .. version'
        <5>1. CASE s \in mine[r].live
          BY <2>1, <4>1, <4>2, <5>1
        <5>2. CASE s \notin mine[r].live
          <6>1. wentLive[s] \in 2 .. version
            BY <4>2, <4>4, <5>2 DEF Safe, Filled, Live
          <6> QED
            BY <2>1, <4>1, <4>2, <5>2, <6>1
        <5> QED
          BY <5>1, <5>2
      <4>5. ASSUME NEW n \in 2 .. version'
            PROVE  \E s \in Sets : wentLive'[s] # 0 /\ n = wentLive'[s]
        <5>1. CASE n = version + 1
          <6>1. t \in Sets /\ wentLive'[t] = n
            BY <2>2, <4>2, <4>3, <5>1
          <6> QED
            BY <4>5, <6>1
        <5>2. CASE n # version + 1
          <6>1. n \in 2 .. version
            BY <2>1, <4>1, <5>2
          <6>2. PICK s \in Sets : wentLive[s] # 0 /\ n = wentLive[s]
            BY <6>1 DEF Safe, Filled, Live
          <6>3. wentLive'[s] = wentLive[s]
            BY <2>2, <4>2, <6>2
          <6> QED
            BY <6>2, <6>3
        <5> QED
          BY <5>1, <5>2
      <4>6. {wentLive'[s] : s \in {u \in Sets : wentLive'[u] # 0}} = 2 .. version'
        BY <4>4, <4>5
      <4> QED
        BY <2>1, <4>1, <4>6 DEF Filled, Live
    <3> QED
      BY <3>1, <3>2
  <2> QED
    BY <2>5, <2>6, <2>7, <2>8, <2>9, <2>10 DEF Safe
<1>15. CASE UNCHANGED vars
  <2> USE <1>15 DEF vars, db, locks, Safe
  <2>1. OneReplayAtATime' /\ Reach'
    BY DEF OneReplayAtATime, Reach
  <2>2. AtWork'
    BY DEF AtWork, Cur
  <2>3. Fate' /\ OwnFate' /\ Filled'
    BY DEF Fate, OwnFate, Filled, Live
  <2> QED
    BY <2>1, <2>2, <2>3
<1> QED
  BY <1>1, <1>2, <1>3, <1>4, <1>6, <1>8, <1>9, <1>10, <1>12, <1>13, <1>14, <1>15
     DEF Next, Step, Crash

LEMMA SafeInit == Init => Safe
<1> SUFFICES ASSUME Init PROVE Safe
  OBVIOUS
<1>1. OneReplayAtATime /\ AtWork /\ Fate /\ OwnFate /\ Reach
  BY FreeAssumption DEF Init, NoView, OneReplayAtATime, AtWork, Fate, OwnFate, Reach
<1>2. Filled
  <2>1. Live = {} /\ version = 1
    BY DEF Init, Live
  <2> QED
    BY <2>1 DEF Filled
<1> QED
  BY <1>1, <1>2 DEF Safe

LEMMA Inductive == Spec => [](TypeOK /\ Place /\ Safe)
BY TypeInit, TypeStep, SafeInit, SafeStep, PTL DEF Spec

(* Every transaction that replays or applies a draft holds its feed's lock  *)
(* from its first row to its end, so it runs alone.                         *)
THEOREM OneReplayAtATimeHolds == Spec => []OneReplayAtATime
BY Inductive, PTL DEF Safe

(* A set says committed just when it went live, and no version is empty.    *)
THEOREM VersionsAreFullHolds == Spec => []VersionsAreFull
<1>1. Safe => VersionsAreFull
  BY DEF Safe, Fate, Filled, VersionsAreFull
<1> QED
  BY <1>1, Inductive, PTL

-----------------------------------------------------------------------------
(* No lost update: what a row's version says of the sets that went live     *)

On(S, k) == {s \in S : KeyOf[s] = k}

Applying(r) == job[r].kind = "commit" /\ pc[r] \in {"set", "work", "end"}

\* a transaction that holds a set knows the base it went live with
Settled ==
  \A r \in Requests, s \in Sets :
    setLock[s] = r /\ wentLive[s] # 0 => mine[r].base[s] = base[s]

\* a row has moved past the base of every set that went live on it
Passed == \A s \in Live : base[s] < rowVer[KeyOf[s]]

\* a commit's own rows have moved on by the sets it has applied, each made
\* against a version of its row that no other set was
OwnBatch ==
  \A r \in Requests : Applying(r) =>
    /\ \A k \in Keys : mine[r].rowVer[k] = rowVer[k] + Cardinality(On(mine[r].live, k))
    /\ \A s \in mine[r].live :
         rowVer[KeyOf[s]] <= mine[r].base[s] /\ mine[r].base[s] < mine[r].rowVer[KeyOf[s]]
    /\ \A s, t \in mine[r].live :
         KeyOf[s] = KeyOf[t] /\ mine[r].base[s] = mine[r].base[t] => s = t

Counted == IsFiniteSet(Live) /\ \A r \in Requests : IsFiniteSet(mine[r].live)

Rows == Counted /\ Settled /\ Passed /\ OwnBatch /\ EachOnTopOfTheLast

LEMMA OnFinite ==
  ASSUME NEW A, IsFiniteSet(A), NEW k
  PROVE  IsFiniteSet(On(A, k)) /\ Cardinality(On(A, k)) \in Nat
<1>1. On(A, k) \subseteq A
  BY DEF On
<1> QED
  BY <1>1, FS_Subset, FS_CardinalityType

LEMMA OnAdded ==
  ASSUME NEW A, IsFiniteSet(A), NEW s, s \notin A, NEW k
  PROVE  /\ IsFiniteSet(A \cup {s})
         /\ Cardinality(On(A \cup {s}, k)) =
              IF KeyOf[s] = k THEN Cardinality(On(A, k)) + 1 ELSE Cardinality(On(A, k))
<1>1. IsFiniteSet(A \cup {s}) /\ IsFiniteSet(On(A, k))
  BY FS_AddElement, OnFinite
<1>2. CASE KeyOf[s] = k
  <2>1. On(A \cup {s}, k) = On(A, k) \cup {s} /\ s \notin On(A, k)
    BY <1>2 DEF On
  <2> QED
    BY <1>1, <1>2, <2>1, FS_AddElement
<1>3. CASE KeyOf[s] # k
  <2>1. On(A \cup {s}, k) = On(A, k)
    BY <1>3 DEF On
  <2> QED
    BY <1>1, <1>3, <2>1
<1> QED
  BY <1>2, <1>3

LEMMA OnJoined ==
  ASSUME NEW A, NEW B, IsFiniteSet(A), IsFiniteSet(B), A \cap B = {}, NEW k
  PROVE  /\ IsFiniteSet(A \cup B)
         /\ Cardinality(On(A \cup B, k)) = Cardinality(On(A, k)) + Cardinality(On(B, k))
<1>1. IsFiniteSet(On(A, k)) /\ IsFiniteSet(On(B, k))
  BY OnFinite
<1>2. On(A \cup B, k) = On(A, k) \cup On(B, k) /\ On(A, k) \cap On(B, k) = {}
  BY DEF On
<1>3. Cardinality(On(A, k) \cup On(B, k))
        = Cardinality(On(A, k)) + Cardinality(On(B, k)) - Cardinality({})
  BY <1>1, <1>2, FS_Union
<1>4. Cardinality({}) = 0
  BY FS_EmptySet
<1>5. Cardinality(On(A, k)) \in Nat /\ Cardinality(On(B, k)) \in Nat
  BY OnFinite
<1>6. IsFiniteSet(A \cup B)
  BY FS_Union
<1>7. Cardinality(On(A, k) \cup On(B, k)) = Cardinality(On(A, k)) + Cardinality(On(B, k))
  BY <1>3, <1>4, <1>5
<1> QED
  BY <1>2, <1>6, <1>7

(* What the same writes do to the bases and rows of a view.                 *)
LEMMA SettingRows ==
  ASSUME NEW v \in View, NEW s \in Sets, NEW st \in Statuses
  PROVE  Setting(v, s, st).base = v.base /\ Setting(v, s, st).rowVer = v.rowVer
BY DEF Setting, View

LEMMA BasingRows ==
  ASSUME NEW v \in View, NEW s \in Sets, NEW n \in Nat
  PROVE  /\ Basing(v, s, n).base = [v.base EXCEPT ![s] = n]
         /\ Basing(v, s, n).rowVer = v.rowVer
BY DEF Basing, View

LEMMA ReadingRows ==
  ASSUME NEW v \in View, NEW n \in Nat, NEW f \in [Keys -> Nat]
  PROVE  Reading(v, n, f).base = v.base /\ Reading(v, n, f).rowVer = f
<1> DEFINE w == [v EXCEPT !.version = n]
<1>1. w \in View /\ w.base = v.base
  BY DEF View
<1>2. Reading(v, n, f) = [w EXCEPT !.rowVer = f]
  BY DEF Reading
<1> HIDE DEF w
<1>3. [w EXCEPT !.rowVer = f].base = w.base /\ [w EXCEPT !.rowVer = f].rowVer = f
  BY <1>1 DEF View
<1> QED
  BY <1>1, <1>2, <1>3

LEMMA KnowingRows ==
  ASSUME NEW v \in View, NEW s \in Sets, NEW st \in Statuses, NEW n \in Nat
  PROVE  /\ Knowing(v, s, st, n) \in View
         /\ Knowing(v, s, st, n).base = [v.base EXCEPT ![s] = n]
         /\ Knowing(v, s, st, n).rowVer = v.rowVer
         /\ Knowing(v, s, st, n).live = v.live
<1> DEFINE w == Setting(v, s, st)
<1>1. Knowing(v, s, st, n) = Basing(w, s, n)
  BY DEF Knowing, Basing, Setting
<1>2. w \in View /\ w.base = v.base /\ w.rowVer = v.rowVer /\ w.live = v.live
  BY ViewSetting, SettingRows
<1> HIDE DEF w
<1>3. Basing(w, s, n).base = [w.base EXCEPT ![s] = n] /\ Basing(w, s, n).rowVer = w.rowVer
  BY <1>2, BasingRows
<1>4. Basing(w, s, n) \in View /\ Basing(w, s, n).live = w.live
  BY <1>2, ViewBasing
<1> QED
  BY <1>1, <1>2, <1>3, <1>4

LEMMA PuttingRows ==
  ASSUME NEW v \in View, NEW s \in Sets, NEW k \in Keys
  PROVE  /\ Putting(v, s, k).base = v.base
         /\ Putting(v, s, k).rowVer = [v.rowVer EXCEPT ![k] = @ + 1]
<1> DEFINE w == Setting(v, s, "committed")
           x == [w EXCEPT !.rowVer[k] = @ + 1]
<1>1. "committed" \in Statuses
  BY DEF Statuses
<1>2. w \in View /\ w.base = v.base /\ w.rowVer = v.rowVer
  BY <1>1, ViewSetting, SettingRows
<1>3. Putting(v, s, k) = [x EXCEPT !.live = @ \cup {s}]
  BY DEF Putting, Setting
<1> HIDE DEF w
<1>4. x \in View /\ x.base = w.base /\ x.rowVer = [w.rowVer EXCEPT ![k] = @ + 1]
  BY <1>2 DEF View
<1> HIDE DEF x
<1>5. /\ [x EXCEPT !.live = @ \cup {s}].base = x.base
      /\ [x EXCEPT !.live = @ \cup {s}].rowVer = x.rowVer
  BY <1>4 DEF View
<1> QED
  BY <1>2, <1>3, <1>4, <1>5

(* What every step before COMMIT but CommitSet does: it leaves the database *)
(* alone, and a batch under way as it was or not begun.                     *)
LEMMA RowsKept ==
  ASSUME TypeOK, Rows, UNCHANGED db, Settled',
         \A r \in Requests : mine'[r].live \in {{}, mine[r].live},
         \A r \in Requests : Applying(r)' =>
           \/ mine'[r].live = {} /\ mine'[r].rowVer = rowVer
           \/ /\ Applying(r)
              /\ mine'[r].live = mine[r].live /\ mine'[r].rowVer = mine[r].rowVer
              /\ \A s \in mine[r].live : mine'[r].base[s] = mine[r].base[s]
  PROVE  Rows'
<1>1. Live' = Live /\ UNCHANGED <<base, rowVer>>
  BY DEF Live, db
<1>2. Counted'
  BY <1>1, FS_EmptySet DEF Rows, Counted
<1>3. Passed' /\ EachOnTopOfTheLast'
  BY <1>1 DEF Rows, Passed, EachOnTopOfTheLast
<1>4. OwnBatch'
  <2> SUFFICES ASSUME NEW r \in Requests, Applying(r)'
               PROVE  /\ \A k \in Keys :
                           mine'[r].rowVer[k] = rowVer'[k] + Cardinality(On(mine'[r].live, k))
                      /\ \A s \in mine'[r].live :
                           /\ rowVer'[KeyOf[s]] <= mine'[r].base[s]
                           /\ mine'[r].base[s] < mine'[r].rowVer[KeyOf[s]]
                      /\ \A s, t \in mine'[r].live :
                           KeyOf[s] = KeyOf[t] /\ mine'[r].base[s] = mine'[r].base[t] => s = t
    BY DEF OwnBatch
  <2>1. CASE mine'[r].live = {} /\ mine'[r].rowVer = rowVer
    <3>1. \A k : On(mine'[r].live, k) = {}
      BY <2>1 DEF On
    <3>2. Cardinality({}) = 0
      BY FS_EmptySet
    <3>3. \A k \in Keys : rowVer[k] \in Nat
      BY DEF TypeOK
    <3>4. \A k \in Keys :
            mine'[r].rowVer[k] = rowVer'[k] + Cardinality(On(mine'[r].live, k))
      BY <1>1, <2>1, <3>1, <3>2, <3>3
    <3> QED
      BY <2>1, <3>4
  <2>2. CASE /\ Applying(r)
             /\ mine'[r].live = mine[r].live /\ mine'[r].rowVer = mine[r].rowVer
             /\ \A s \in mine[r].live : mine'[r].base[s] = mine[r].base[s]
    BY <1>1, <2>2 DEF Rows, OwnBatch
  <2> QED
    BY <2>1, <2>2
<1> QED
  BY <1>2, <1>3, <1>4 DEF Rows

LEMMA RowsStep == TypeOK /\ Place /\ Safe /\ Rows /\ [Next]_vars => Rows'
<1> SUFFICES ASSUME TypeOK, Place, Safe, Rows, [Next]_vars PROVE Rows'
  OBVIOUS
<1> USE FreeAssumption
<1>1. ASSUME NEW r \in Requests, NEW j \in Jobs, Begin(r, j) PROVE Rows'
  <2>1. Settled'
    BY <1>1 DEF Begin, Rows, Settled, db, locks
  <2>2. \A q \in Requests : Applying(q)' => Applying(q)
    BY <1>1 DEF Begin, Applying, TakesFeed, TypeOK
  <2> QED
    BY <1>1, <2>1, <2>2, RowsKept DEF Begin
<1>2. ASSUME NEW r \in Requests, LockFeed(r) PROVE Rows'
  <2>1. Settled'
    BY <1>2 DEF LockFeed, Rows, Settled, db
  <2>2. \A q \in Requests : Applying(q)' => Applying(q)
    BY <1>2 DEF LockFeed, Applying, TypeOK
  <2> QED
    BY <1>2, <2>1, <2>2, RowsKept DEF LockFeed
<1>3. ASSUME NEW r \in Requests, ReadVersion(r) PROVE Rows'
  <2> DEFINE v == Reading(mine[r], version + 1, rowVer)
  <2>1. /\ mine' = [mine EXCEPT ![r] = v]
        /\ pc[r] = "version" /\ pc' = [pc EXCEPT ![r] = "set"]
        /\ UNCHANGED <<db, locks, job, at, attempt>>
    BY <1>3 DEF ReadVersion, Reading
  <2>2. mine[r] \in View /\ version + 1 \in Nat /\ rowVer \in [Keys -> Nat]
    BY DEF TypeOK
  <2>3. v.base = mine[r].base /\ v.rowVer = rowVer /\ v.live = mine[r].live
    BY <2>2, ViewReading, ReadingRows
  <2>4. mine[r].live = {}
    BY <2>1 DEF Safe, Reach
  <2> HIDE DEF v
  <2>5. /\ mine'[r] = v /\ \A q \in Requests \ {r} : mine'[q] = mine[q] /\ pc'[q] = pc[q]
        /\ UNCHANGED <<db, setLock, wentLive, base, job>>
    BY <2>1 DEF TypeOK, db, locks
  <2>6. Settled'
    BY <2>3, <2>5 DEF Rows, Settled
  <2>7. \A q \in Requests \ {r} : Applying(q)' => Applying(q)
    BY <2>5 DEF Applying
  <2> QED
    BY <2>3, <2>4, <2>5, <2>6, <2>7, RowsKept
<1>4. ASSUME NEW r \in Requests, LockSet(r) PROVE Rows'
  <2>1. PICK s \in Sets : s = Cur(r)
    BY <1>4, CurType DEF LockSet
  <2>2. PICK m \in View, st \in Statuses, n \in Nat : m = mine[r] /\ st = status[s] /\ n = base[s]
    BY DEF TypeOK
  <2> DEFINE v == Knowing(m, s, st, n)
  <2>3. /\ mine' = [mine EXCEPT ![r] = v]
        /\ setLock[s] = Free /\ setLock' = [setLock EXCEPT ![s] = r]
        /\ pc[r] = "set" /\ pc' = [pc EXCEPT ![r] = "work"]
        /\ UNCHANGED <<db, feedLock, job, at, attempt>>
    BY <1>4, <2>1, <2>2 DEF LockSet, Knowing
  <2>4. /\ v.base = [mine[r].base EXCEPT ![s] = base[s]] /\ v.rowVer = mine[r].rowVer
        /\ v.live = mine[r].live
    <3>1. /\ v.live = m.live
          /\ v.base = [m.base EXCEPT ![s] = n] /\ v.rowVer = m.rowVer
      BY KnowingRows
    <3> QED
      BY <2>2, <3>1
  <2>5. s \notin mine[r].live
    BY <2>3 DEF Safe, OwnFate
  <2> HIDE DEF v
  <2>6. /\ mine'[r] = v /\ \A q \in Requests \ {r} : mine'[q] = mine[q] /\ pc'[q] = pc[q]
        /\ UNCHANGED <<db, wentLive, base, job>>
    BY <2>3 DEF TypeOK, db
  <2>7. mine[r].base \in [Sets -> Nat]
    BY <2>2 DEF View
  <2>8. \A t \in Sets : v.base[t] = IF t = s THEN base[s] ELSE mine[r].base[t]
    BY <2>4, <2>7
  <2>9. Settled'
    BY <2>3, <2>6, <2>8 DEF Rows, Settled, TypeOK
  <2>10. \A q \in Requests : Applying(q)' => Applying(q)
    BY <2>3 DEF Applying, TypeOK
  <2>11. \A t \in mine[r].live : v.base[t] = mine[r].base[t]
    BY <2>2, <2>5, <2>8 DEF View
  <2> QED
    BY <2>4, <2>6, <2>9, <2>10, <2>11, RowsKept
\* a write of a request that commits nothing
<1>5. ASSUME NEW r \in Requests, NEW v \in View, pc[r] = "work", job[r].kind # "commit",
             Write(r, v), v.live = mine[r].live,
             \A s \in Sets : v.base[s] = mine[r].base[s] \/ wentLive[s] = 0
      PROVE  Rows'
  <2>1. /\ mine'[r] = v /\ \A q \in Requests \ {r} : mine'[q] = mine[q] /\ pc'[q] = pc[q]
        /\ UNCHANGED <<db, setLock, wentLive, base, job>>
    BY <1>5, ProceedType DEF Write, TypeOK, db, locks
  <2>2. Settled'
    BY <1>5, <2>1 DEF Rows, Settled
  <2>3. \A q \in Requests : Applying(q)' => q # r /\ Applying(q)
    BY <1>5, <2>1 DEF Applying
  <2> QED
    BY <1>5, <2>1, <2>2, <2>3, RowsKept
<1>6. ASSUME NEW r \in Requests, Edit(r) PROVE Rows'
  <2>1. PICK s \in Sets : s = Cur(r)
    BY <1>6, CurType DEF Edit, Working
  <2> DEFINE v == Basing(mine[r], s, rowVer[KeyOf[s]])
  <2>2. /\ pc[r] = "work" /\ job[r].kind = "edit" /\ Write(r, v)
        /\ mine[r].status[s] = "draft"
    BY <1>6, <2>1 DEF Edit, Working, Basing
  <2>3. mine[r] \in View /\ rowVer[KeyOf[s]] \in Nat
    BY KeyAssumption DEF TypeOK
  <2>4. v \in View /\ v.live = mine[r].live
    BY <2>3, ViewBasing
  <2>5. v.base = [mine[r].base EXCEPT ![s] = rowVer[KeyOf[s]]]
    BY <2>3, BasingRows
  <2>6. wentLive[s] = 0
    BY <2>1, <2>2 DEF Safe, AtWork, Fate
  <2>7. mine[r].base \in [Sets -> Nat]
    BY <2>3 DEF View
  <2>8. \A t \in Sets : v.base[t] = mine[r].base[t] \/ wentLive[t] = 0
    BY <2>5, <2>6, <2>7
  <2> HIDE DEF v
  <2> QED
    BY <1>5, <2>2, <2>4, <2>8
<1>7. ASSUME NEW r \in Requests, NEW st \in Statuses,
             Write(r, Setting(mine[r], Cur(r), st)), pc[r] = "work", job[r].kind # "commit"
      PROVE  Rows'
  <2>1. PICK s \in Sets : s = Cur(r)
    BY <1>7, CurType
  <2> DEFINE v == Setting(mine[r], s, st)
  <2>2. mine[r] \in View
    BY DEF TypeOK
  <2>3. v \in View /\ v.live = mine[r].live
    BY <2>2, ViewSetting
  <2>4. v.base = mine[r].base
    BY <2>2, SettingRows
  <2>5. Write(r, v)
    BY <1>7, <2>1
  <2> HIDE DEF v
  <2> QED
    BY <1>5, <1>7, <2>3, <2>4, <2>5
<1>8. ASSUME NEW r \in Requests, Submit(r) \/ Approve(r) \/ Reopen(r)
      PROVE  Rows'
  BY <1>7, <1>8 DEF Submit, Approve, Reopen, Working, Statuses, Setting
<1>9. ASSUME NEW r \in Requests, CommitSet(r) PROVE Rows'
  <2>1. PICK s \in Sets, k \in Keys, m \in View : s = Cur(r) /\ k = KeyOf[s] /\ m = mine[r]
    BY <1>9, CurType DEF CommitSet, Working, TypeOK
  <2> DEFINE v == Putting(m, s, k)
  <2>2. /\ pc[r] = "work" /\ job[r].kind = "commit" /\ Write(r, v)
        /\ m.base[s] = m.rowVer[k]
    BY <1>9, <2>1 DEF CommitSet, Working, Putting
  <2>3. v.live = m.live \cup {s}
    BY ViewPutting
  <2>4. v.base = m.base /\ v.rowVer = [m.rowVer EXCEPT ![k] = @ + 1]
    BY PuttingRows
  <2> HIDE DEF v
  <2>5. /\ mine'[r] = v /\ \A q \in Requests \ {r} : mine'[q] = mine[q] /\ pc'[q] = pc[q]
        /\ UNCHANGED <<status, base, wentLive, rowVer, version, setLock, job>>
    BY <2>2, ProceedType DEF Write, TypeOK, db, locks
  <2>6. s \notin m.live /\ KeyOf[s] = k /\ m.live \subseteq Sets
    BY <2>1, <2>2 DEF Safe, AtWork, View
  <2>7. /\ m.rowVer \in [Keys -> Nat] /\ m.base \in [Sets -> Nat] /\ rowVer \in [Keys -> Nat]
        /\ KeyOf \in [Sets -> Keys]
    BY KeyAssumption DEF View, TypeOK
  <2>8. /\ IsFiniteSet(m.live)
        /\ \A l \in Keys : m.rowVer[l] = rowVer[l] + Cardinality(On(m.live, l))
        /\ \A t \in m.live : rowVer[KeyOf[t]] <= m.base[t] /\ m.base[t] < m.rowVer[KeyOf[t]]
        /\ \A t, u \in m.live : KeyOf[t] = KeyOf[u] /\ m.base[t] = m.base[u] => t = u
    BY <2>1, <2>2 DEF Rows, Counted, OwnBatch, Applying
  <2>9. Settled' /\ Passed' /\ EachOnTopOfTheLast'
    BY <2>1, <2>4, <2>5 DEF Rows, Settled, Passed, EachOnTopOfTheLast, Live
  <2>10. Counted'
    <3>1. IsFiniteSet(v.live)
      BY <2>3, <2>8, FS_AddElement
    <3> QED
      BY <2>5, <3>1 DEF Rows, Counted, Live
  <2>11. \A l \in Keys : v.rowVer[l] = rowVer[l] + Cardinality(On(v.live, l))
    <3> SUFFICES ASSUME NEW l \in Keys
                 PROVE  v.rowVer[l] = rowVer[l] + Cardinality(On(v.live, l))
      OBVIOUS
    <3>1. Cardinality(On(v.live, l)) =
            IF k = l THEN Cardinality(On(m.live, l)) + 1 ELSE Cardinality(On(m.live, l))
      <4>1. IsFiniteSet(m.live) /\ s \notin m.live
        BY <2>6, <2>8
      <4>2. Cardinality(On(m.live \cup {s}, l)) =
              IF KeyOf[s] = l THEN Cardinality(On(m.live, l)) + 1 ELSE Cardinality(On(m.live, l))
        BY <4>1, OnAdded
      <4> QED
        BY <2>3, <2>6, <4>2
    <3>2. Cardinality(On(m.live, l)) \in Nat
      BY <2>8, OnFinite
    <3>3. v.rowVer[l] = IF k = l THEN m.rowVer[l] + 1 ELSE m.rowVer[l]
      BY <2>4, <2>7
    <3> QED
      BY <2>7, <2>8, <3>1, <3>2, <3>3
  <2>12. rowVer[k] <= m.rowVer[k]
    <3>1. Cardinality(On(m.live, k)) \in Nat
      BY <2>8, OnFinite
    <3> QED
      BY <2>7, <2>8, <3>1
  <2>13. \A t \in v.live : rowVer[KeyOf[t]] <= v.base[t] /\ v.base[t] < v.rowVer[KeyOf[t]]
    BY <2>2, <2>3, <2>4, <2>6, <2>7, <2>8, <2>12
  <2>14. \A t, u \in v.live : KeyOf[t] = KeyOf[u] /\ v.base[t] = v.base[u] => t = u
    BY <2>2, <2>3, <2>4, <2>6, <2>7, <2>8
  <2>15. OwnBatch'
    <3>1. \A q \in Requests \ {r} : Applying(q)' => Applying(q)
      BY <2>5 DEF Applying
    <3> QED
      BY <2>5, <2>11, <2>13, <2>14, <3>1 DEF Rows, OwnBatch
  <2> QED
    BY <2>9, <2>10, <2>15 DEF Rows
<1>10. ASSUME NEW r \in Requests, FailSet(r) PROVE Rows'
  <2>1. PICK s \in Sets, m \in View : s = Cur(r) /\ m = mine[r]
    BY <1>10, CurType DEF FailSet, TypeOK
  <2>2. pc[r] = "work" /\ Proceed(r) /\ UNCHANGED <<db, feedLock, job, attempt>>
    BY <1>10 DEF FailSet
  <2>3. s \notin m.live /\ setLock[s] = r
    BY <2>1, <2>2 DEF Safe, AtWork
  <2>4. \A q \in Requests : Applying(q)' => Applying(q)
    BY <2>2, ProceedType DEF Applying
  <2>5. PICK v \in View : /\ mine' = [mine EXCEPT ![r] = v] /\ v.live = m.live
                          /\ v.rowVer = m.rowVer /\ \A t \in Sets \ {s} : v.base[t] = m.base[t]
                          /\ \/ setLock' = [setLock EXCEPT ![s] = Free]
                             \/ setLock' = setLock /\ v.base = m.base
    <3>1. CASE /\ mine' = [mine EXCEPT ![r] = Knowing(m, s, "draft", 0)]
               /\ setLock' = [setLock EXCEPT ![s] = Free]
      <4>1. PICK st \in Statuses, n \in Nat : st = "draft" /\ n = 0
        BY DEF Statuses
      <4> DEFINE v == Knowing(m, s, st, n)
      <4>2. v \in View
        BY KnowingRows
      <4>3. v.live = m.live /\ v.base = [m.base EXCEPT ![s] = n] /\ v.rowVer = m.rowVer
        BY KnowingRows
      <4>4. m.base \in [Sets -> Nat] /\ mine' = [mine EXCEPT ![r] = v]
        BY <3>1, <4>1 DEF View
      <4> HIDE DEF v
      <4>5. \A t \in Sets \ {s} : v.base[t] = m.base[t]
        BY <4>3, <4>4
      <4> QED
        BY <3>1, <4>2, <4>3, <4>4, <4>5
    <3>2. CASE /\ mine' = [mine EXCEPT ![r] = Setting(m, s, "approved")]
               /\ setLock' = setLock
      <4> DEFINE v == Setting(m, s, "approved")
      <4>1. "approved" \in Statuses
        BY DEF Statuses
      <4>2. v \in View /\ v.live = m.live
        BY <4>1, ViewSetting
      <4>3. v.base = m.base /\ v.rowVer = m.rowVer
        BY <4>1, SettingRows
      <4>4. mine' = [mine EXCEPT ![r] = v]
        BY <3>2
      <4> HIDE DEF v
      <4> QED
        BY <3>2, <4>2, <4>3, <4>4
    <3> QED
      BY <1>10, <2>1, <3>1, <3>2 DEF FailSet, Knowing, Setting
  <2>6. /\ mine'[r] = v /\ \A q \in Requests \ {r} : mine'[q] = mine[q]
        /\ UNCHANGED <<wentLive, base>>
    BY <2>2, <2>5 DEF TypeOK, db
  <2>7. Settled'
    <3>1. CASE setLock' = [setLock EXCEPT ![s] = Free]
      BY <2>1, <2>3, <2>5, <2>6, <3>1 DEF Rows, Settled, TypeOK
    <3>2. CASE setLock' = setLock /\ v.base = m.base
      BY <2>1, <2>6, <3>2 DEF Rows, Settled
    <3> QED
      BY <2>5, <3>1, <3>2
  <2>8. \A t \in m.live : v.base[t] = m.base[t]
    BY <2>3, <2>5 DEF View
  <2> QED
    BY <2>1, <2>2, <2>4, <2>5, <2>6, <2>7, <2>8, RowsKept
\* r lets go of everything and forgets what it wrote
<1>11. ASSUME NEW r \in Requests, UNCHANGED db,
              setLock' = [s \in Sets |-> IF setLock[s] = r THEN Free ELSE setLock[s]],
              mine' = [mine EXCEPT ![r] = NoView], ~Applying(r)',
              \A q \in Requests \ {r} : job'[q] = job[q] /\ pc'[q] = pc[q]
       PROVE  Rows'
  <2>1. mine'[r].live = {} /\ \A q \in Requests \ {r} : mine'[q] = mine[q]
    BY <1>11 DEF TypeOK, NoView
  <2>2. Settled'
    BY <1>11, <2>1 DEF Rows, Settled, db
  <2>3. \A q \in Requests : Applying(q)' => q # r /\ Applying(q)
    BY <1>11 DEF Applying
  <2> QED
    BY <1>11, <2>1, <2>2, <2>3, RowsKept
<1>12. ASSUME NEW r \in Requests, Finish(r), UNCHANGED db PROVE Rows'
  <2>1. ~Applying(r)' /\ \A q \in Requests \ {r} : job'[q] = job[q] /\ pc'[q] = pc[q]
    BY <1>12 DEF Finish, TypeOK, Applying
  <2> QED
    BY <1>11, <1>12, <2>1 DEF Finish
<1>13. ASSUME NEW r \in Requests, Victim(r) PROVE Rows'
  <2>1. CASE Finish(r) /\ UNCHANGED db
    BY <1>12, <2>1
  <2>2. CASE RunAgain(r, attempt[r] + 1)
    <3>1. ~Applying(r)' /\ \A q \in Requests \ {r} : job'[q] = job[q] /\ pc'[q] = pc[q]
      BY <2>2 DEF RunAgain, TypeOK, Applying, TakesFeed
    <3> QED
      BY <1>11, <2>2, <3>1 DEF RunAgain
  <2> QED
    BY <1>13, <2>1, <2>2 DEF Victim
<1>14. ASSUME NEW r \in Requests, Commit(r) PROVE Rows'
  <2>1. PICK m \in View : m = mine[r]
    BY DEF TypeOK
  <2>2. /\ Finish(r) /\ pc[r] = "end"
        /\ base' = [s \in Sets |-> IF setLock[s] = r THEN m.base[s] ELSE base[s]]
        /\ wentLive' = [s \in Sets |-> IF s \in m.live THEN m.version ELSE wentLive[s]]
        /\ rowVer' = IF m.live # {} THEN m.rowVer ELSE rowVer
    BY <1>14, <2>1 DEF Commit
  <2>3. /\ m.live \subseteq Sets /\ \A s \in m.live : setLock[s] = r /\ wentLive[s] = 0
        /\ m.live # {} => job[r].kind = "commit" /\ m.version # 0
    BY <2>1, <2>2 DEF Safe, OwnFate, Reach, View, TypeOK
  <2>4. \A s \in Live : base'[s] = base[s]
    BY <2>1, <2>2 DEF Rows, Settled, Live, TypeOK
  <2>5. \A s \in m.live : base'[s] = m.base[s]
    BY <2>2, <2>3
  <2>6. Live' = Live \cup m.live /\ Live \cap m.live = {}
    BY <2>2, <2>3 DEF Live
  <2>7. /\ mine'[r].live = {} /\ ~Applying(r)'
        /\ \A q \in Requests \ {r} :
             mine'[q] = mine[q] /\ pc'[q] = pc[q] /\ job'[q] = job[q]
        /\ \A s \in Sets : setLock'[s] = IF setLock[s] = r THEN Free ELSE setLock[s]
    BY <2>2 DEF Finish, TypeOK, NoView, Applying
  <2>8. IsFiniteSet(Live) /\ IsFiniteSet(m.live)
    BY <2>1 DEF Rows, Counted
  <2>9. Counted'
    <3>1. IsFiniteSet(Live')
      BY <2>6, <2>8, FS_Union
    <3>2. \A q \in Requests : IsFiniteSet(mine'[q].live)
      BY <2>7, FS_EmptySet DEF Rows, Counted
    <3> QED
      BY <3>1, <3>2 DEF Counted
  <2>10. Settled'
    <3> SUFFICES ASSUME NEW q \in Requests, NEW s \in Sets, setLock'[s] = q, wentLive'[s] # 0
                 PROVE  mine'[q].base[s] = base'[s]
      BY DEF Settled
    <3>1. q # r /\ setLock[s] = q
      BY <2>7
    <3>2. wentLive[s] # 0 /\ base'[s] = base[s]
      BY <2>2, <2>3, <3>1
    <3> QED
      BY <2>7, <3>1, <3>2 DEF Rows, Settled
  <2>11. CASE m.live = {}
    <3>1. Live' = Live /\ rowVer' = rowVer
      BY <2>2, <2>6, <2>11
    <3>2. Passed'
      BY <2>4, <3>1 DEF Rows, Passed
    <3>3. EachOnTopOfTheLast'
      BY <2>4, <3>1 DEF Rows, EachOnTopOfTheLast
    <3>4. OwnBatch'
      <4>1. \A q \in Requests : Applying(q)' => q # r /\ Applying(q)
        BY <2>7 DEF Applying
      <4> QED
        BY <2>7, <3>1, <4>1 DEF Rows, OwnBatch
    <3> QED
      BY <2>9, <2>10, <3>2, <3>3, <3>4 DEF Rows
  <2>12. CASE m.live # {}
    <3>1. rowVer' = m.rowVer /\ job[r].kind = "commit"
      BY <2>2, <2>3, <2>12
    <3>2. feedLock = r /\ Applying(r)
      BY <2>2, <3>1 DEF Safe, OneReplayAtATime, TakesFeed, Applying
    <3>3. /\ \A l \in Keys : m.rowVer[l] = rowVer[l] + Cardinality(On(m.live, l))
          /\ \A t \in m.live : rowVer[KeyOf[t]] <= m.base[t] /\ m.base[t] < m.rowVer[KeyOf[t]]
          /\ \A t, u \in m.live : KeyOf[t] = KeyOf[u] /\ m.base[t] = m.base[u] => t = u
      BY <2>1, <3>2 DEF Rows, OwnBatch
    <3>4. /\ m.rowVer \in [Keys -> Nat] /\ m.base \in [Sets -> Nat] /\ rowVer \in [Keys -> Nat]
          /\ KeyOf \in [Sets -> Keys] /\ base \in [Sets -> Nat] /\ Live \subseteq Sets
      BY KeyAssumption DEF View, TypeOK, Live
    <3>5. \A l \in Keys : Cardinality(On(m.live, l)) \in Nat /\ Cardinality(On(Live, l)) \in Nat
      BY <2>8, OnFinite
    <3>6. \A t \in Live : base[t] < rowVer[KeyOf[t]]
      BY DEF Rows, Passed
    <3>7. Passed'
      <4>1. \A l \in Keys : rowVer[l] <= m.rowVer[l]
        BY <3>3, <3>4, <3>5
      <4>2. ASSUME NEW t \in Live PROVE base'[t] < m.rowVer[KeyOf[t]]
        BY <2>4, <3>4, <3>6, <4>1
      <4>3. ASSUME NEW t \in m.live PROVE base'[t] < m.rowVer[KeyOf[t]]
        BY <2>5, <3>3
      <4> QED
        BY <2>6, <3>1, <4>2, <4>3 DEF Passed
    <3>8. \A s, t \in Live' : KeyOf[s] = KeyOf[t] /\ base'[s] = base'[t] => s = t
      <4>1. ASSUME NEW s \in Live, NEW t \in m.live, KeyOf[s] = KeyOf[t]
            PROVE  base'[s] # base'[t]
        <5>1. base'[s] = base[s] /\ base'[t] = m.base[t]
          BY <2>4, <2>5
        <5>2. base[s] < rowVer[KeyOf[t]] /\ rowVer[KeyOf[t]] <= m.base[t]
          BY <3>3, <3>6, <4>1
        <5>3. base[s] \in Nat /\ m.base[t] \in Nat /\ rowVer[KeyOf[t]] \in Nat
          BY <2>3, <3>4
        <5> QED
          BY <5>1, <5>2, <5>3
      <4>2. \A s, t \in Live : KeyOf[s] = KeyOf[t] /\ base[s] = base[t] => s = t
        BY DEF Rows, EachOnTopOfTheLast
      <4> QED
        BY <2>4, <2>5, <2>6, <3>3, <4>1, <4>2
    <3>9. ASSUME NEW l \in Keys
          PROVE  rowVer'[l] = 1 + Cardinality(On(Live', l))
      <4>1. Cardinality(On(Live', l)) = Cardinality(On(Live, l)) + Cardinality(On(m.live, l))
        BY <2>6, <2>8, OnJoined
      <4>2. rowVer[l] = 1 + Cardinality(On(Live, l))
        BY DEF Rows, EachOnTopOfTheLast, On
      <4>3. rowVer'[l] = rowVer[l] + Cardinality(On(m.live, l))
        BY <3>1, <3>3
      <4> QED
        BY <3>5, <4>1, <4>2, <4>3
    <3>10. EachOnTopOfTheLast'
      BY <3>8, <3>9 DEF EachOnTopOfTheLast, On
    <3>11. OwnBatch'
      <4>1. \A q \in Requests : ~Applying(q)'
        BY <2>7, <3>2 DEF Safe, OneReplayAtATime, TakesFeed, Applying
      <4> QED
        BY <4>1 DEF OwnBatch
    <3> QED
      BY <2>9, <2>10, <3>7, <3>10, <3>11 DEF Rows
  <2> QED
    BY <2>11, <2>12
<1>15. CASE UNCHANGED vars
  BY <1>15 DEF vars, db, locks, Rows, Counted, Settled, Passed, OwnBatch, Applying,
               EachOnTopOfTheLast, Live
<1> QED
  BY <1>1, <1>2, <1>3, <1>4, <1>6, <1>8, <1>9, <1>10, <1>12, <1>13, <1>14, <1>15
     DEF Next, Step, Crash

LEMMA RowsInit == Init => Rows
<1> SUFFICES ASSUME Init PROVE Rows
  OBVIOUS
<1>1. Live = {} /\ \A r \in Requests : mine[r].live = {} /\ pc[r] = "idle"
  BY DEF Init, Live, NoView
<1>2. Counted
  BY <1>1, FS_EmptySet DEF Counted
<1>3. Settled /\ Passed /\ OwnBatch
  BY <1>1 DEF Settled, Passed, OwnBatch, Applying, Init
<1>4. \A k \in Keys : rowVer[k] = 1 + Cardinality({s \in Live : KeyOf[s] = k})
  <2>1. \A k : {s \in Live : KeyOf[s] = k} = {}
    BY <1>1
  <2>2. Cardinality({}) = 0
    BY FS_EmptySet
  <2> QED
    BY <2>1, <2>2 DEF Init
<1>5. EachOnTopOfTheLast
  BY <1>1, <1>4 DEF EachOnTopOfTheLast
<1> QED
  BY <1>2, <1>3, <1>5 DEF Rows

(* No lost update: two sets that went live on one row were not made against *)
(* the same version of it, and a row has moved once for each set.           *)
THEOREM EachOnTopOfTheLastHolds == Spec => []EachOnTopOfTheLast
<1>1. TypeOK /\ Place /\ Safe /\ Rows /\ [Next]_vars => Rows'
  BY RowsStep
<1>2. Rows => EachOnTopOfTheLast
  BY DEF Rows
<1> QED
  BY <1>1, <1>2, RowsInit, Inductive, PTL DEF Spec

-----------------------------------------------------------------------------
(* Who waits for whom                                                       *)

\* only a feed's request has the feed's lock; with nothing begun a request
\* holds nothing, and at its first set it holds no row
Hands ==
  \A r \in Requests :
    /\ pc[r] = "feed" => TakesFeed(job[r])
    /\ feedLock = r => TakesFeed(job[r]) /\ pc[r] \notin {"idle", "feed"}
    /\ \A s \in Sets : setLock[s] = r =>
         pc[r] \notin {"idle", "feed", "version"} /\ (pc[r] = "set" => at[r] > 1)

LEMMA HandsStep == TypeOK /\ Place /\ Safe /\ Hands /\ [Next]_vars => Hands'
<1> SUFFICES ASSUME TypeOK, Place, Safe, Hands, [Next]_vars PROVE Hands'
  OBVIOUS
<1> USE FreeAssumption
<1>1. ASSUME NEW r \in Requests, NEW j \in Jobs, Begin(r, j) PROVE Hands'
  BY <1>1 DEF Begin, Hands, TypeOK, locks
<1>2. ASSUME NEW r \in Requests, LockFeed(r) PROVE Hands'
  <2>1. TakesFeed(job[r])
    BY <1>2 DEF LockFeed, Hands
  <2> QED
    BY <1>2, <2>1 DEF LockFeed, Hands, TypeOK
<1>3. ASSUME NEW r \in Requests, ReadVersion(r) PROVE Hands'
  BY <1>3 DEF ReadVersion, Hands, TypeOK, locks
<1>4. ASSUME NEW r \in Requests, LockSet(r) PROVE Hands'
  BY <1>4, CurType DEF LockSet, Hands, TypeOK
<1>5. ASSUME NEW r \in Requests, pc[r] = "work", Proceed(r), UNCHANGED <<feedLock, job>>,
             \A s \in Sets : setLock'[s] \in {Free, setLock[s]}
      PROVE  Hands'
  <2>1. at[r] \in 1 .. Len(job[r].ids) /\ Len(job[r].ids) \in Nat
    BY <1>5, CurType, LenProperties
  <2>2. pc'[r] \in {"set", "end"} /\ (pc'[r] = "set" => at'[r] > 1)
    BY <1>5, <2>1 DEF Proceed, TypeOK
  <2>3. \A q \in Requests \ {r} : pc'[q] = pc[q] /\ at'[q] = at[q]
    BY <1>5, ProceedType
  <2> QED
    BY <1>5, <2>2, <2>3 DEF Hands
<1>6. ASSUME NEW r \in Requests,
             Edit(r) \/ Submit(r) \/ Approve(r) \/ Reopen(r) \/ CommitSet(r)
      PROVE  Hands'
  BY <1>5, <1>6 DEF Edit, Submit, Approve, Reopen, CommitSet, Working, Write, locks
<1>7. ASSUME NEW r \in Requests, FailSet(r) PROVE Hands'
  <2>1. \A s \in Sets : setLock'[s] \in {Free, setLock[s]}
    BY <1>7 DEF FailSet, TypeOK
  <2> QED
    BY <1>5, <1>7, <2>1 DEF FailSet
<1>8. ASSUME NEW r \in Requests, Finish(r) \/ RunAgain(r, attempt[r] + 1) PROVE Hands'
  <2>1. /\ feedLock' = IF feedLock = r THEN Free ELSE feedLock
        /\ setLock' = [s \in Sets |-> IF setLock[s] = r THEN Free ELSE setLock[s]]
        /\ \A q \in Requests \ {r} : pc'[q] = pc[q] /\ at'[q] = at[q] /\ job'[q] = job[q]
        /\ pc'[r] = "feed" => TakesFeed(job'[r])
    BY <1>8 DEF Finish, RunAgain, TypeOK
  <2> QED
    BY <2>1 DEF Hands
<1>9. ASSUME NEW r \in Requests, Commit(r) \/ Victim(r) \/ Crash(r) PROVE Hands'
  BY <1>8, <1>9 DEF Commit, Victim, Crash
<1>10. CASE UNCHANGED vars
  BY <1>10 DEF vars, locks, Hands
<1> QED
  BY <1>1, <1>2, <1>3, <1>4, <1>6, <1>7, <1>9, <1>10 DEF Next, Step

LEMMA HandsInit == Init => Hands
BY FreeAssumption DEF Init, Hands

(* A set of numbers has a least one, which is how the chain is followed.    *)
LEMMA LeastOf ==
  ASSUME NEW D \in SUBSET Nat, D # {}
  PROVE  \E d \in D : \A e \in D : d <= e
<1>1. PICK less : /\ \A d, e \in Nat : e < d => <<e, d>> \in less
                  /\ IsWellFoundedOn(less, Nat)
  <2>1. OpToRel(<, Nat) = {dd \in Nat \X Nat : dd[1] < dd[2]}
    BY Zenon DEF OpToRel
  <2>2. IsWellFoundedOn({dd \in Nat \X Nat : dd[1] < dd[2]}, Nat)
    BY <2>1, NatLessThanWellFounded, Zenon
  <2>3. PICK below : below = {dd \in Nat \X Nat : dd[1] < dd[2]}
    OBVIOUS
  <2> HIDE <2>1
  <2>4. IsWellFoundedOn(below, Nat)
    BY <2>2, <2>3, Zenon
  <2>5. \A d, e \in Nat : e < d => <<e, d>> \in below
    BY <2>3
  <2> QED
    BY <2>4, <2>5
<1>2. PICK d \in D : \A e \in D : <<e, d>> \notin less
  BY <1>1, WFMin
<1>3. \A e \in D : ~(e < d)
  BY <1>1, <1>2
<1> QED
  BY <1>3

Along(S) == S \cup {Holder(q) : q \in {p \in S : Waits(p)}}

\* f is what WaitChain follows, as far as its step N
Follows(f, r, N) ==
  f = [n \in 0 .. N |-> IF n = 0 THEN {Holder(r)} \ {r} ELSE Along(f[n - 1])]

LEMMA ChainCanBeFollowed ==
  ASSUME NEW r, NEW N \in Nat
  PROVE  \E f : Follows(f, r, N)
<1> DEFINE Bad == {n \in Nat : ~ \E f : Follows(f, r, n)}
<1>1. ASSUME Bad # {} PROVE FALSE
  <2>1. PICK n \in Bad : \A m \in Bad : n <= m
    BY <1>1, LeastOf
  <2>2. n \in Nat /\ ~ \E f : Follows(f, r, n)
    BY <2>1
  <2>3. CASE n = 0
    <3> DEFINE f == [m \in 0 .. 0 |-> {Holder(r)} \ {r}]
    <3>1. Follows(f, r, 0)
      BY DEF Follows
    <3> QED
      BY <2>2, <2>3, <3>1
  <2>4. CASE n # 0
    <3>1. n - 1 \in Nat /\ n - 1 \notin Bad
      BY <2>1, <2>2, <2>4
    <3>2. PICK g : Follows(g, r, n - 1)
      BY <3>1
    <3> DEFINE f == [m \in 0 .. n |-> IF m = n THEN Along(g[n - 1]) ELSE g[m]]
    <3>3. \A m \in 0 .. n : f[m] = IF m = 0 THEN {Holder(r)} \ {r} ELSE Along(f[m - 1])
      <4>1. \A m \in 0 .. (n - 1) :
              g[m] = IF m = 0 THEN {Holder(r)} \ {r} ELSE Along(g[m - 1])
        BY <3>2, Zenon DEF Follows
      <4>2. \A m \in 0 .. n : m # n => m \in 0 .. (n - 1) /\ f[m] = g[m]
        BY <2>2
      <4>3. f[n] = Along(g[n - 1]) /\ f[n - 1] = g[n - 1]
        BY <2>2, <2>4
      <4>4. \A m \in 0 .. n : m # n /\ m # 0 => m - 1 \in 0 .. n /\ m - 1 # n
        BY <2>2
      <4> HIDE DEF f
      <4>5. ASSUME NEW m \in 0 .. n
            PROVE  f[m] = IF m = 0 THEN {Holder(r)} \ {r} ELSE Along(f[m - 1])
        <5>1. CASE m = n
          BY <2>4, <4>3, <5>1
        <5>2. CASE m # n
          BY <4>1, <4>2, <4>4, <5>2
        <5> QED
          BY <5>1, <5>2
      <4> QED
        BY <4>5
    <3>4. f = [m \in 0 .. n |-> f[m]]
      OBVIOUS
    <3> HIDE DEF f
    <3>5. Follows(f, r, n)
      BY <3>3, <3>4 DEF Follows
    <3> QED
      BY <2>2, <3>5
  <2> QED
    BY <2>3, <2>4
<1> QED
  BY <1>1

LEMMA ChainIsFollowed ==
  ASSUME NEW r
  PROVE  /\ Cardinality(Requests) \in Nat
         /\ \E f : Follows(f, r, Cardinality(Requests))
                   /\ WaitChain(r) = f[Cardinality(Requests)]
<1>1. Cardinality(Requests) \in Nat
  BY RequestsAssumption, FS_CardinalityType
<1> DEFINE step == CHOOSE f : Follows(f, r, Cardinality(Requests))
<1>2. \E f : Follows(f, r, Cardinality(Requests))
  BY <1>1, ChainCanBeFollowed
<1>3. Follows(step, r, Cardinality(Requests))
  BY <1>2, Zenon
<1>4. WaitChain(r) = step[Cardinality(Requests)]
  BY Zenon DEF WaitChain, Follows, Along
<1> HIDE DEF step
<1> QED
  BY <1>1, <1>3, <1>4

(* Everyone on the chain is waited for; its first is there, and is all of   *)
(* it unless it waits.                                                      *)
LEMMA ChainHolds ==
  ASSUME TypeOK, Place, NEW r \in Requests, Waits(r)
  PROVE  /\ \A x \in WaitChain(r) :
              x \in Requests /\ \E p \in Requests : Waits(p) /\ Holder(p) = x
         /\ Holder(r) \in WaitChain(r)
         /\ ~Waits(Holder(r)) => WaitChain(r) = {Holder(r)}
<1> DEFINE Held == {x \in Requests : \E p \in Requests : Waits(p) /\ Holder(p) = x}
           Sound(S) == /\ S \subseteq Held /\ Holder(r) \in S
                       /\ ~Waits(Holder(r)) => S = {Holder(r)}
           N == Cardinality(Requests)
<1>1. \A p \in Requests : Holder(p) \in Requests
  <2> SUFFICES ASSUME NEW p \in Requests PROVE Holder(p) \in Requests
    OBVIOUS
  <2>1. pc[p] = "set" => Cur(p) \in Sets
    BY CurType
  <2>2. feedLock \in Requests \cup {Free} /\ \A s \in Sets : setLock[s] \in Requests \cup {Free}
    BY DEF TypeOK
  <2> QED
    BY <2>1, <2>2 DEF Holder
<1>2. Sound({Holder(r)} \ {r})
  BY <1>1 DEF Waits
<1>3. ASSUME NEW S, Sound(S) PROVE Sound(Along(S))
  <2>1. \A q \in S : q \in Requests
    BY <1>3
  <2>2. Along(S) \subseteq Held
    BY <1>1, <1>3, <2>1 DEF Along
  <2>3. Holder(r) \in Along(S)
    BY <1>3 DEF Along
  <2>4. ~Waits(Holder(r)) => Along(S) = {Holder(r)}
    BY <1>3 DEF Along
  <2> QED
    BY <2>2, <2>3, <2>4
<1>4. N \in Nat
  BY ChainIsFollowed
<1>5. PICK f : Follows(f, r, N) /\ WaitChain(r) = f[N]
  BY ChainIsFollowed
<1> HIDE DEF Sound, N
<1>6. \A n \in 0 .. N : f[n] = IF n = 0 THEN {Holder(r)} \ {r} ELSE Along(f[n - 1])
  BY <1>5, Zenon DEF Follows
<1> DEFINE Bad == {n \in 0 .. N : ~Sound(f[n])}
<1>7. ASSUME Bad # {} PROVE FALSE
  <2>1. PICK n \in Bad : \A m \in Bad : n <= m
    <3>1. Bad \in SUBSET Nat
      BY <1>4
    <3> QED
      BY <1>7, <3>1, LeastOf
  <2>2. n \in 0 .. N /\ ~Sound(f[n])
    BY <2>1
  <2>3. n # 0
    BY <1>2, <1>4, <1>6, <2>2
  <2>4. n - 1 \in 0 .. N /\ n - 1 \notin Bad
    BY <1>4, <2>1, <2>2, <2>3
  <2>5. Sound(f[n - 1])
    BY <2>4
  <2>6. f[n] = Along(f[n - 1])
    BY <1>6, <2>2, <2>3
  <2> QED
    BY <1>3, <2>2, <2>5, <2>6
<1>8. Sound(f[N])
  BY <1>4, <1>7
<1> QED
  BY <1>5, <1>8 DEF Sound

(* The lock order: every cycle of waiting requests has a batch approval in  *)
(* it, since whoever else holds a row and waits for another has the feed,   *)
(* and two cannot have it.                                                  *)
THEOREM OnlyApprovalsDeadlockHolds == Spec => []OnlyApprovalsDeadlock
<1>1. TypeOK /\ Place /\ Safe /\ Hands => OnlyApprovalsDeadlock
  <2> SUFFICES ASSUME TypeOK, Place, Safe, Hands, NEW r \in Requests, Deadlocked(r),
                      \A q \in WaitChain(r) :
                        ~(job[q].kind = "approve" /\ Len(job[q].ids) > 1)
               PROVE  FALSE
    BY DEF OnlyApprovalsDeadlock
  <2>1. ASSUME NEW x \in WaitChain(r), Waits(x) PROVE feedLock = x
    <3>1. PICK p \in Requests : x \in Requests /\ Waits(p) /\ Holder(p) = x
      BY <2>1, ChainHolds DEF Deadlocked
    <3>2. x # Free /\ (feedLock = x \/ \E s \in Sets : setLock[s] = x)
      <4>1. pc[p] = "set" => Cur(p) \in Sets
        BY CurType
      <4> QED
        BY <3>1, <4>1, FreeAssumption DEF Holder, Waits
    <3>3. CASE feedLock # x
      <4>1. PICK s \in Sets : setLock[s] = x
        BY <3>2, <3>3
      <4>2. pc[x] = "set" /\ at[x] > 1
        BY <2>1, <3>1, <4>1 DEF Hands, Waits, Holder
      <4>3. job[x] \in Jobs /\ Len(job[x].ids) > 1
        <5>1. job[x] \in Jobs /\ at[x] \in 1 .. Len(job[x].ids) /\ Len(job[x].ids) \in Nat
          BY <3>1, <4>2, CurType, LenProperties
        <5> QED
          BY <4>2, <5>1
      <4>4. job[x].kind \in {"submit", "commit"}
        <5>1. /\ job[x].kind \in {"edit", "reopen"} => Len(job[x].ids) = 1
              /\ job[x].kind \in Kinds
          BY <4>3, JobsAssumption DEF Job
        <5>2. ~(1 > 1)
          OBVIOUS
        <5> QED
          BY <2>1, <4>3, <5>1, <5>2 DEF Kinds
      <4> QED
        BY <3>1, <4>2, <4>4 DEF Safe, OneReplayAtATime, TakesFeed
    <3> QED
      BY <3>3
  <2>2. r \in WaitChain(r) /\ Waits(r) /\ Holder(r) # r
    BY DEF Deadlocked, Waits
  <2>3. Holder(r) \in WaitChain(r) /\ (~Waits(Holder(r)) => WaitChain(r) = {Holder(r)})
    BY <2>2, ChainHolds
  <2>4. Waits(Holder(r))
    BY <2>2, <2>3
  <2> QED
    BY <2>1, <2>2, <2>3, <2>4
<1>2. TypeOK /\ Place /\ Safe /\ Hands /\ [Next]_vars => Hands'
  BY HandsStep
<1> QED
  BY <1>1, <1>2, HandsInit, Inductive, PTL DEF Spec

(* The editor implements FeedHistory: a COMMIT that put sets live publishes *)
(* them as the one next version, and nothing else that a transaction does,  *)
(* its failures, its retries and its death included, is seen at all.        *)
THEOREM ImplementsHistoryHolds == Spec => ImplementsHistory
<1>1. Init => History!Init
  BY DEF Init, History!Init
<1>2. TypeOK /\ Place /\ Safe /\ [Next]_vars => [History!Next]_<<version, wentLive>>
  <2> SUFFICES ASSUME TypeOK, Place, Safe, [Next]_vars
               PROVE  History!Next \/ UNCHANGED <<version, wentLive>>
    OBVIOUS
  <2>1. ASSUME NEW r \in Requests, Commit(r)
        PROVE  History!Next \/ UNCHANGED <<version, wentLive>>
    <3>1. /\ pc[r] = "end" /\ mine[r] \in View /\ wentLive \in [Sets -> Nat]
          /\ wentLive' = [s \in Sets |-> IF s \in mine[r].live THEN mine[r].version
                                                              ELSE wentLive[s]]
          /\ version' = IF mine[r].live # {} THEN mine[r].version ELSE version
      BY <2>1 DEF Commit, TypeOK
    <3>2. mine[r].live \in SUBSET Sets
      BY <3>1 DEF View
    <3>3. CASE mine[r].live = {}
      BY <3>1, <3>3
    <3>4. CASE mine[r].live # {}
      <4>1. /\ mine[r].version = version + 1
            /\ \A s \in mine[r].live : wentLive[s] = 0
        BY <3>1, <3>2, <3>4 DEF Safe, OwnFate, Reach
      <4>2. History!Publish(mine[r].live)
        BY <3>1, <3>4, <4>1 DEF History!Publish
      <4> QED
        BY <3>2, <4>2 DEF History!Next
    <3> QED
      BY <3>3, <3>4
  <2>2. ASSUME NEW r \in Requests, NEW j \in Jobs, Begin(r, j)
        PROVE  UNCHANGED <<version, wentLive>>
    BY <2>2 DEF Begin, db
  <2>3. ASSUME NEW r \in Requests,
               \/ LockFeed(r) \/ ReadVersion(r) \/ LockSet(r)
               \/ Edit(r) \/ Submit(r) \/ Approve(r) \/ Reopen(r) \/ CommitSet(r)
               \/ FailSet(r)
        PROVE  UNCHANGED <<version, wentLive>>
    BY <2>3 DEF LockFeed, ReadVersion, LockSet, Edit, Submit, Approve, Reopen, CommitSet,
                FailSet, Write, db
  <2>4. ASSUME NEW r \in Requests, Victim(r) \/ Crash(r)
        PROVE  UNCHANGED <<version, wentLive>>
    BY <2>4 DEF Victim, Crash, RunAgain, db
  <2>5. CASE UNCHANGED vars
    BY <2>5 DEF vars, db
  <2> QED
    BY <2>1, <2>2, <2>3, <2>4, <2>5 DEF Next, Step
<1> QED
  BY <1>1, <1>2, Inductive, PTL DEF Spec, ImplementsHistory, History!Spec
=============================================================================
