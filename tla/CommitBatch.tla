---------------------------- MODULE CommitBatch -----------------------------
(***************************************************************************)
(* The editor's transactions on one feed, lock by lock                     *)
(* (src/editor/service.rs, src/editor/feed_lock.rs).                       *)
(*                                                                         *)
(* A request runs one transaction: it takes the feed's advisory lock where *)
(* the code does, then the row of each change set it works on, in the      *)
(* order the caller names them, and its writes are its own until COMMIT.   *)
(* submit_many, approve_many and commit_many settle each set of theirs in  *)
(* a savepoint.  Postgres ends a deadlock by aborting one transaction, and *)
(* retry_transient runs that one again.  A pod may die at any point, which *)
(* rolls its transaction back.                                             *)
(*                                                                         *)
(* Who may approve or commit a set is module ChangeSets; here such a       *)
(* refusal is one of the errors a set can meet (Refuse).                   *)
(***************************************************************************)
EXTENDS Integers, Sequences, FiniteSets

CONSTANTS
  Sets,         \* the change sets of the feed
  Keys,         \* the live rows
  KeyOf,        \* the row each set changes
  Requests,     \* the requests that may be running at once
  Jobs,         \* what a request may ask: [kind, ids, approve]
  Free,         \* holder of a lock nobody holds
  MaxAttempts   \* RETRY_BACKOFF.len() + 1: four in the code

Kinds == {"edit", "submit", "approve", "commit", "reopen"}
Job == [kind : Kinds, ids : Seq(Sets), approve : BOOLEAN]
NoJob == [kind |-> "edit", ids |-> <<>>, approve |-> FALSE]

ASSUME KeyAssumption == KeyOf \in [Sets -> Keys]
ASSUME FreeAssumption == Free \notin Requests
\* batch_ids: at least one set, each once; edits and reopenings do not come in batches
ASSUME JobsAssumption ==
  /\ Jobs \subseteq Job
  /\ \A j \in Jobs : j.ids # <<>> /\ \A m, n \in DOMAIN j.ids : j.ids[m] = j.ids[n] => m = n
  /\ \A j \in Jobs : j.kind \in {"edit", "reopen"} => Len(j.ids) = 1
ASSUME RequestsAssumption == IsFiniteSet(Requests)
ASSUME AttemptsAssumption == MaxAttempts \in Nat \ {0}

Statuses == {"draft", "submitted", "approved", "committed"}

VARIABLES
  \* what is committed in the database
  status, base, wentLive, rowVer, version,
  \* the locks: who holds the advisory lock, and each set's row
  feedLock, setLock,
  \* the running transactions: where each is, and what it has written so far
  pc, job, at, attempt, mine

db == <<status, base, wentLive, rowVer, version>>
locks == <<feedLock, setLock>>
vars == <<db, locks, pc, job, at, attempt, mine>>

(* A transaction's own view: the rows as it has read or written them, the   *)
(* version it would publish and the sets it has committed.                  *)
View == [status : [Sets -> Statuses], base : [Sets -> Nat], rowVer : [Keys -> Nat],
         version : Nat, live : SUBSET Sets]

TypeOK ==
  /\ status \in [Sets -> Statuses] /\ base \in [Sets -> Nat]
  /\ wentLive \in [Sets -> Nat] /\ rowVer \in [Keys -> Nat] /\ version \in Nat
  /\ feedLock \in Requests \cup {Free}
  /\ setLock \in [Sets -> Requests \cup {Free}]
  /\ pc \in [Requests -> {"idle", "feed", "version", "set", "work", "end"}]
  /\ job \in [Requests -> Jobs \cup {NoJob}]
  /\ at \in [Requests -> Nat] /\ attempt \in [Requests -> 0 .. MaxAttempts]
  /\ mine \in [Requests -> View]

NoView == [status |-> [s \in Sets |-> "draft"], base |-> [s \in Sets |-> 0],
           rowVer |-> [k \in Keys |-> 0], version |-> 0, live |-> {}]

Init ==
  /\ status = [s \in Sets |-> "draft"] /\ base = [s \in Sets |-> 1]
  /\ wentLive = [s \in Sets |-> 0]
  /\ rowVer = [k \in Keys |-> 1] /\ version = 1
  /\ feedLock = Free /\ setLock = [s \in Sets |-> Free]
  /\ pc = [r \in Requests |-> "idle"] /\ job = [r \in Requests |-> NoJob]
  /\ at = [r \in Requests |-> 0] /\ attempt = [r \in Requests |-> 0]
  /\ mine = [r \in Requests |-> NoView]

-----------------------------------------------------------------------------
Cur(r) == job[r].ids[at[r]]

\* approve_many, review and reopen lock the sets' rows only
TakesFeed(j) == j.kind \in {"edit", "submit", "commit"}

\* the locks of r are let go of, and it is gone
Finish(r) ==
  /\ feedLock' = IF feedLock = r THEN Free ELSE feedLock
  /\ setLock' = [s \in Sets |-> IF setLock[s] = r THEN Free ELSE setLock[s]]
  /\ pc' = [pc EXCEPT ![r] = "idle"]
  /\ job' = [job EXCEPT ![r] = NoJob]
  /\ at' = [at EXCEPT ![r] = 0]
  /\ attempt' = [attempt EXCEPT ![r] = 0]
  /\ mine' = [mine EXCEPT ![r] = NoView]

-----------------------------------------------------------------------------
(* A request arrives                                                       *)
\* mutant of Begin: a commit does not queue on the feed
BeginWithoutFeed(r, j) ==
  /\ pc[r] = "idle"
  /\ job' = [job EXCEPT ![r] = j]
  /\ at' = [at EXCEPT ![r] = 1] /\ attempt' = [attempt EXCEPT ![r] = 1]
  /\ pc' = [pc EXCEPT ![r] = IF j.kind = "commit" THEN "version" ELSE "set"]
  /\ UNCHANGED <<db, locks, mine>>

Begin(r, j) ==
  /\ pc[r] = "idle"
  /\ job' = [job EXCEPT ![r] = j]
  /\ at' = [at EXCEPT ![r] = 1]
  /\ attempt' = [attempt EXCEPT ![r] = 1]
  /\ pc' = [pc EXCEPT ![r] = IF TakesFeed(j) THEN "feed" ELSE "set"]
  /\ UNCHANGED <<db, locks, mine>>

\* mutant of LockFeed: it does not wait
LockFeedAtOnce(r) ==
  /\ pc[r] = "feed" /\ feedLock' = r
  /\ pc' = [pc EXCEPT ![r] = IF job[r].kind = "commit" THEN "version" ELSE "set"]
  /\ UNCHANGED <<db, setLock, job, at, attempt, mine>>

\* lock_feed, lock_feed_of_set
LockFeed(r) ==
  /\ pc[r] = "feed" /\ feedLock = Free
  /\ feedLock' = r
  /\ pc' = [pc EXCEPT ![r] = IF job[r].kind = "commit" THEN "version" ELSE "set"]
  /\ UNCHANGED <<db, setLock, job, at, attempt, mine>>

\* next_feed_version, under the advisory lock; live rows are read from here on
ReadVersion(r) ==
  /\ pc[r] = "version"
  /\ mine' = [mine EXCEPT ![r] = [@ EXCEPT !.version = version + 1, !.rowVer = rowVer]]
  /\ pc' = [pc EXCEPT ![r] = "set"]
  /\ UNCHANGED <<db, locks, job, at, attempt>>

\* load_set ... FOR UPDATE: waits for the row, then reads what is committed
LockSet(r) ==
  /\ pc[r] = "set" /\ setLock[Cur(r)] = Free
  /\ setLock' = [setLock EXCEPT ![Cur(r)] = r]
  /\ mine' = [mine EXCEPT ![r] = [@ EXCEPT !.status[Cur(r)] = status[Cur(r)],
                                           !.base[Cur(r)] = base[Cur(r)]]]
  /\ pc' = [pc EXCEPT ![r] = "work"]
  /\ UNCHANGED <<db, feedLock, job, at, attempt>>

-----------------------------------------------------------------------------
(* One set's step                                                          *)
Proceed(r) ==
  LET last == at[r] = Len(job[r].ids)
  IN  /\ pc' = [pc EXCEPT ![r] = IF last THEN "end" ELSE "set"]
      /\ at' = [at EXCEPT ![r] = IF last THEN @ ELSE @ + 1]

Working(r, kind) == pc[r] = "work" /\ job[r].kind = kind

Write(r, view) ==
  /\ mine' = [mine EXCEPT ![r] = view]
  /\ Proceed(r)
  /\ UNCHANGED <<db, locks, job, attempt>>

\* add_change, update_change: the change is based on the live row as it is now
Edit(r) ==
  /\ Working(r, "edit") /\ mine[r].status[Cur(r)] = "draft"
  /\ Write(r, [mine[r] EXCEPT !.base[Cur(r)] = rowVer[KeyOf[Cur(r)]]])

\* submit_in: the replay, rolled back, found no conflict
Submit(r) ==
  /\ Working(r, "submit") /\ mine[r].status[Cur(r)] = "draft"
  /\ mine[r].base[Cur(r)] = rowVer[KeyOf[Cur(r)]]
  /\ Write(r, [mine[r] EXCEPT !.status[Cur(r)] = "submitted"])

Approve(r) ==
  /\ Working(r, "approve") /\ mine[r].status[Cur(r)] = "submitted"
  /\ Write(r, [mine[r] EXCEPT !.status[Cur(r)] = "approved"])

Reopen(r) ==
  /\ Working(r, "reopen") /\ mine[r].status[Cur(r)] \in {"submitted", "approved"}
  /\ Write(r, [mine[r] EXCEPT !.status[Cur(r)] = "draft"])

\* the status commit_in needs, once approve_in has run where the batch asks it
Committable(r) == mine[r].status[Cur(r)] = IF job[r].approve THEN "submitted" ELSE "approved"

\* mutant of CommitSet: the row's version is not compared
CommitSetBlindly(r) ==
  /\ Working(r, "commit") /\ Committable(r)
  /\ Write(r, [mine[r] EXCEPT !.status[Cur(r)] = "committed", !.live = @ \cup {Cur(r)},
                              !.rowVer[KeyOf[Cur(r)]] = @ + 1])

\* commit_in: the row is as the change knew it, sets of the batch before included
CommitSet(r) ==
  LET s == Cur(r)
      k == KeyOf[s]
  IN  /\ Working(r, "commit") /\ Committable(r)
      /\ mine[r].base[s] = mine[r].rowVer[k]
      /\ Write(r, [mine[r] EXCEPT !.status[s] = "committed", !.rowVer[k] = @ + 1,
                                  !.live = @ \cup {s}])

(* A set meets an error: the wrong status, a conflict, a failed check, a    *)
(* caller who may not.  A batch of several rolls it back to its savepoint,  *)
(* which lets go of a row lock taken since, and carries on.  The request    *)
(* for one set ends there; with nothing held, its COMMIT changes nothing.   *)
FailSet(r) ==
  LET s == Cur(r)
      keeps == job[r].kind = "commit" /\ job[r].approve /\ mine[r].status[s] = "submitted"
  IN  /\ pc[r] = "work" /\ Proceed(r)
      /\ \/ /\ setLock' = [setLock EXCEPT ![s] = Free]
            /\ mine' = [mine EXCEPT ![r] = [@ EXCEPT !.status[s] = "draft", !.base[s] = 0]]
         \/ \* commit_many's approval of it stays; only the commit is undone
            /\ keeps
            /\ mine' = [mine EXCEPT ![r] = [@ EXCEPT !.status[s] = "approved"]]
            /\ UNCHANGED setLock
      /\ UNCHANGED <<db, feedLock, job, attempt>>

-----------------------------------------------------------------------------
\* COMMIT with the feed's version given
CommitAs(r, v) ==
  LET m == mine[r]
      held == {s \in Sets : setLock[s] = r}
  IN  /\ pc[r] = "end"
      /\ status' = [s \in Sets |-> IF s \in held THEN m.status[s] ELSE status[s]]
      /\ base' = [s \in Sets |-> IF s \in held THEN m.base[s] ELSE base[s]]
      /\ wentLive' = [s \in Sets |-> IF s \in m.live THEN v ELSE wentLive[s]]
      /\ version' = v /\ rowVer' = IF m.live # {} THEN m.rowVer ELSE rowVer
      /\ Finish(r)

\* mutant of Commit: the version moves though every set failed
CommitEvenNothing(r) ==
  CommitAs(r, IF job[r].kind = "commit" THEN mine[r].version ELSE version)

\* mutant of Commit: a version for each set of the batch
CommitVersionEach(r) == CommitAs(r, version + Cardinality(mine[r].live))

(* COMMIT: every row the transaction holds becomes what it made of it.     *)
Commit(r) ==
  LET m == mine[r]
      held == {s \in Sets : setLock[s] = r}
  IN  /\ pc[r] = "end"
      /\ status' = [s \in Sets |-> IF s \in held THEN m.status[s] ELSE status[s]]
      /\ base' = [s \in Sets |-> IF s \in held THEN m.base[s] ELSE base[s]]
      /\ wentLive' = [s \in Sets |-> IF s \in m.live THEN m.version ELSE wentLive[s]]
      /\ IF m.live # {} THEN version' = m.version /\ rowVer' = m.rowVer
                        ELSE UNCHANGED <<version, rowVer>>
      /\ Finish(r)

\* the pod or its connection dies: the transaction never was
Crash(r) == pc[r] # "idle" /\ Finish(r) /\ UNCHANGED db

-----------------------------------------------------------------------------
(* Deadlocks                                                               *)

\* who holds the lock r wants; r itself when r does not wait
Holder(r) ==
  LET h == CASE pc[r] = "feed" -> feedLock
             [] pc[r] = "set" -> setLock[Cur(r)]
             [] OTHER -> Free
  IN  IF h = Free THEN r ELSE h

Waits(r) == Holder(r) # r

\* the requests r waits for, directly or not
WaitChain(r) ==
  LET step[n \in 0 .. Cardinality(Requests)] ==
        IF n = 0 THEN {Holder(r)} \ {r}
        ELSE step[n - 1] \cup {Holder(q) : q \in {p \in step[n - 1] : Waits(p)}}
  IN  step[Cardinality(Requests)]

Deadlocked(r) == Waits(r) /\ r \in WaitChain(r)

\* rolled back, and run again from nothing as attempt n
RunAgain(r, n) ==
  /\ feedLock' = IF feedLock = r THEN Free ELSE feedLock
  /\ setLock' = [s \in Sets |-> IF setLock[s] = r THEN Free ELSE setLock[s]]
  /\ pc' = [pc EXCEPT ![r] = IF TakesFeed(job[r]) THEN "feed" ELSE "set"]
  /\ at' = [at EXCEPT ![r] = 1]
  /\ attempt' = [attempt EXCEPT ![r] = n]
  /\ mine' = [mine EXCEPT ![r] = NoView]
  /\ UNCHANGED <<db, job>>

\* mutant of Victim: attempts are counted, and never run out
VictimUnbounded(r) == Deadlocked(r) /\ RunAgain(r, attempt[r] + 1)

\* mutant of Victim: it is always the first attempt
VictimForever(r) == Deadlocked(r) /\ RunAgain(r, 1)

(* 40P01: the victim is rolled back whole; retry_transient runs it again,   *)
(* up to its last attempt.  A reopen is not run again.                      *)
Victim(r) ==
  /\ Deadlocked(r)
  /\ IF attempt[r] = MaxAttempts \/ job[r].kind = "reopen"
     THEN Finish(r) /\ UNCHANGED db
     ELSE RunAgain(r, attempt[r] + 1)

Step(r) ==
  \/ LockFeed(r) \/ ReadVersion(r) \/ LockSet(r)
  \/ Edit(r) \/ Submit(r) \/ Approve(r) \/ Reopen(r) \/ CommitSet(r) \/ FailSet(r)
  \/ Commit(r) \/ Victim(r)

Next == \E r \in Requests : Step(r) \/ Crash(r) \/ \E j \in Jobs : Begin(r, j)

(* Postgres hands a lock to its waiters in the order they came, so a        *)
(* request that keeps finding its lock free gets it; a request is driven    *)
(* on, and a deadlock is broken, without anybody asking.                    *)
Fairness == \A r \in Requests : WF_vars(Step(r)) /\ SF_vars(LockFeed(r)) /\ SF_vars(LockSet(r))

Spec == Init /\ [][Next]_vars
FairSpec == Spec /\ Fairness

-----------------------------------------------------------------------------
(* Every transaction that replays or applies a draft runs alone on its feed *)
(* (feed_lock.rs): from its first row to its end it holds the feed's lock.  *)
OneReplayAtATime ==
  \A r \in Requests :
    pc[r] \in {"version", "set", "work", "end"} /\ TakesFeed(job[r]) => feedLock = r

(* No lost update, whatever the batches: two sets that went live on one row *)
(* were not made against the same version of it, and the row has moved once *)
(* for each.                                                                *)
Live == {s \in Sets : wentLive[s] # 0}

EachOnTopOfTheLast ==
  /\ \A s, t \in Live : KeyOf[s] = KeyOf[t] /\ base[s] = base[t] => s = t
  /\ \A k \in Keys : rowVer[k] = 1 + Cardinality({s \in Live : KeyOf[s] = k})

(* What the set says and what the feed's history says agree: a set is       *)
(* committed just when it went live, and no version is empty, so no pod     *)
(* reloads and no webhook fires for a batch in which everything failed.     *)
VersionsAreFull ==
  /\ \A s \in Sets : status[s] = "committed" <=> wentLive[s] # 0
  /\ {wentLive[s] : s \in Live} = 2 .. version

(* The lock order (feed_lock.rs): commits, edits and submits, batches of    *)
(* them included, never deadlock among themselves, since each queues on the *)
(* feed holding no row.  Only approve_many, which takes several rows and no *)
(* feed lock, can close a cycle.                                            *)
OnlyApprovalsDeadlock ==
  \A r \in Requests :
    Deadlocked(r) => \E q \in WaitChain(r) : job[q].kind = "approve" /\ Len(job[q].ids) > 1

(* A batch that commits puts live exactly the sets it applied, as one       *)
(* version, and one that fails or dies leaves nothing: the editor as a      *)
(* whole implements FeedHistory.                                            *)
History == INSTANCE FeedHistory WITH Sets <- Sets, version <- version, wentLive <- wentLive
ImplementsHistory == History!Spec

(* Every request is answered: nobody waits for a lock for ever, and a       *)
(* deadlock is retried a bounded number of times.                           *)
EveryRequestEnds == \A r \in Requests : pc[r] # "idle" ~> pc[r] = "idle"
=============================================================================
