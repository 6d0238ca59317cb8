----------------------------- MODULE ChangeSets -----------------------------
(***************************************************************************)
(* The change sets (drafts) of one feed, src/editor/service.rs: who may do *)
(* what to a set, what its changes are based on, and what a commit writes  *)
(* to the live rows.                                                       *)
(*                                                                         *)
(* Every operation here is one database transaction that holds the set's   *)
(* row FOR UPDATE (and, for edits, submits and commits, the feed's         *)
(* advisory lock), so it is one action.  The one transaction of several    *)
(* sets whose effects on rows add up, commit_many, is an action for each   *)
(* set that goes live and one for its end, with nothing in between; the    *)
(* approvals it may begin with, approve_many and submit_many are the same  *)
(* steps as so many requests.  Module CommitBatch opens the transactions   *)
(* up.  An operation the code refuses changes nothing and has no action:   *)
(* the conditions of a refusal are the guards.                             *)
(*                                                                         *)
(* The rows are those of one load of the feed: a reload replaces them all  *)
(* and begins again (module FeedReload).                                   *)
(***************************************************************************)
EXTENDS Integers, Sequences, FiniteSets

CONSTANTS
  Users,        \* the people with an account
  Sets,         \* the ids change sets are created under
  Keys,         \* the ids live rows are kept under
  SoftKeys,     \* stops, stations, routes: a delete marks the row and keeps it
  LiveAtStart,  \* the rows the feed is loaded with
  InitRole,     \* what each person holds on the feed at first
  Restless,     \* bound: the people whose access changes during the run
  None,         \* SQL NULL where a user is expected
  Import,       \* the writer of the rows the feed is loaded with
  MaxChanges,   \* bound: changes in one set
  MaxVersion    \* bound: feed version

GrantRoles == {"viewer", "editor", "approver"}
Roles == GrantRoles \cup {"none", "admin"}

ASSUME BoundsAssumption == MaxChanges \in Nat /\ MaxVersion \in Nat
ASSUME KeysAssumption == SoftKeys \subseteq Keys /\ LiveAtStart \subseteq Keys
ASSUME RolesAssumption == InitRole \in [Users -> Roles] /\ Restless \subseteq Users
ASSUME NamesAssumption == None \notin Users /\ Import \notin Sets

Statuses ==
  {"unused", "draft", "submitted", "approved", "rejected", "committed", "discarded"}
Ops == {"create", "update", "delete", "merge"}

(***************************************************************************)
(* A live row: its row_version (0: no such row), the soft-delete mark, and *)
(* by, the set whose commit wrote what it says now.  by stands for the     *)
(* row's content: two commits never write the same thing.                  *)
(***************************************************************************)
Row == [ver : Nat, deleted : BOOLEAN, by : Sets \cup {Import}]
NoRow == [ver |-> 0, deleted |-> FALSE, by |-> Import]

(***************************************************************************)
(* A change: base and intoBase are base_row_version and into_row_version   *)
(* (0: NULL); keep is a merge that also rewrites the kept row (name,       *)
(* position or station); seen and intoSeen are the content of the rows the *)
(* two versions were read from.                                            *)
(***************************************************************************)
Change == [op : Ops, key : Keys, into : Keys, keep : BOOLEAN,
           base : Nat, intoBase : Nat,
           seen : Sets \cup {Import}, intoSeen : Sets \cup {Import}]

VARIABLES
  role,             \* gtfs_editor_user.role and gtfs_editor_feed_access
  status, createdBy, submittedBy, reviewedBy, selfApproved,
  committedBy, committedVersion,   \* the columns of gtfs_change_set
  changes,          \* gtfs_change: each set's changes by position
  row,              \* the live rows
  version,          \* gtfs_feed.version
  batch,            \* who is in a transaction that has put sets live, None when nobody is
  reviewed,         \* history: the changes a set had when it was last reviewed, empty once reopened
  log               \* history: the sets gone live, as they were applied

people == <<createdBy, submittedBy, reviewedBy, selfApproved, committedBy>>
vars == <<role, status, people, committedVersion, changes, row, version, batch, reviewed, log>>

TypeOK ==
  /\ role \in [Users -> Roles]
  /\ status \in [Sets -> Statuses]
  /\ createdBy \in [Sets -> Users \cup {None}]
  /\ submittedBy \in [Sets -> Users \cup {None}]
  /\ reviewedBy \in [Sets -> Users \cup {None}]
  /\ committedBy \in [Sets -> Users \cup {None}]
  /\ selfApproved \in [Sets -> BOOLEAN]
  /\ committedVersion \in [Sets -> Nat]
  /\ changes \in [Sets -> Seq(Change)]
  /\ row \in [Keys -> Row]
  /\ version \in Nat
  /\ batch \in Users \cup {None}
  /\ reviewed \in [Sets -> Seq(Change)]
  /\ log \in Seq(Sets)

\* row k as the feed is loaded
Loaded(k) == IF k \in LiveAtStart THEN [NoRow EXCEPT !.ver = 1] ELSE NoRow

Init ==
  /\ role = InitRole
  /\ status = [s \in Sets |-> "unused"]
  /\ createdBy = [s \in Sets |-> None]
  /\ submittedBy = [s \in Sets |-> None]
  /\ reviewedBy = [s \in Sets |-> None]
  /\ committedBy = [s \in Sets |-> None]
  /\ selfApproved = [s \in Sets |-> FALSE]
  /\ committedVersion = [s \in Sets |-> 0]
  /\ changes = [s \in Sets |-> <<>>]
  /\ row = [k \in Keys |-> Loaded(k)]
  /\ version = 1
  /\ batch = None
  /\ reviewed = [s \in Sets |-> <<>>]
  /\ log = <<>>

-----------------------------------------------------------------------------
(* Roles are ordered; each includes the ones below.                        *)
IsAdmin(u) == role[u] = "admin"
IsApprover(u) == role[u] \in {"approver", "admin"}
IsEditor(u) == role[u] \in {"editor", "approver", "admin"}

\* mutant of Editable: an approved set can still be changed
NotYetLive(s) == status[s] \in {"draft", "approved"}

Editable(s) == status[s] = "draft"

-----------------------------------------------------------------------------
(* What a sequence of changes does, change i seen after the ones before.   *)

\* an earlier change of the set creates row k
InDraft(chs, i, k) == \E j \in 1 .. (i - 1) : chs[j].op = "create" /\ chs[j].key = k

\* the changes before i that bring row k into being or take it away
Existence(chs, i, k) ==
  {j \in 1 .. (i - 1) : chs[j].key = k /\ chs[j].op \in {"create", "delete", "merge"}}

\* row k is there and not deleted when change i is applied
Alive(chs, i, k) ==
  LET e == Existence(chs, i, k)
  IN  IF e = {} THEN row[k].ver > 0 /\ ~row[k].deleted
      ELSE \E j \in e : chs[j].op = "create" /\ \A m \in e : m <= j

\* the primary key k is taken when change i is applied
Occupied(chs, i, k) ==
  \/ Alive(chs, i, k)
  \/ k \in SoftKeys /\ (row[k].ver > 0 \/ Existence(chs, i, k) # {})

\* mutant of VersionConflict: the base is not compared
OnlyGone(k, base) == row[k].ver = 0

\* version_conflict: the row is gone, or moved on from the version given
VersionConflict(k, base) == row[k].ver = 0 \/ (base # 0 /\ base # row[k].ver)

Conflict(chs, i) ==
  LET c == chs[i]
  IN  \/ c.op = "create" /\ row[c.key].ver > 0
      \/ c.op # "create" /\ ~InDraft(chs, i, c.key) /\ VersionConflict(c.key, c.base)
      \/ c.op = "merge" /\ ~InDraft(chs, i, c.into) /\ VersionConflict(c.into, c.intoBase)

Applies(chs, i) ==
  LET c == chs[i]
  IN  CASE c.op = "create" -> ~Occupied(chs, i, c.key)
        [] c.op = "merge" -> /\ c.key # c.into
                             /\ Alive(chs, i, c.key)
                             /\ Alive(chs, i, c.into)
        [] OTHER -> Alive(chs, i, c.key)

\* evaluate finds neither a conflict nor an error
Clean(chs) == \A i \in DOMAIN chs : ~Conflict(chs, i) /\ Applies(chs, i)

\* the changes that write row k; the gtfs_touch_row trigger counts each
Writes(chs, k) ==
  {i \in DOMAIN chs : chs[i].key = k \/ (chs[i].op = "merge" /\ chs[i].keep /\ chs[i].into = k)}

Creates(chs, k) == {i \in DOMAIN chs : chs[i].op = "create" /\ chs[i].key = k}

\* mutant of RowAfter: a merge leaves its kept row to somebody else
RowAfterOwnKeyOnly(chs, s, k) ==
  IF \E i \in DOMAIN chs : chs[i].key = k
  THEN [ver |-> row[k].ver + 1, deleted |-> ~Alive(chs, Len(chs) + 1, k), by |-> s]
  ELSE row[k]

\* row k once all of chs, set s's changes, are applied
RowAfter(chs, s, k) ==
  LET w == Writes(chs, k)
      end == Len(chs) + 1
      sinceCreate == {i \in w : \A j \in Creates(chs, k) : j < i}
      count == IF Creates(chs, k) = {} THEN row[k].ver + Cardinality(w)
               ELSE 1 + Cardinality(sinceCreate)
  IN  IF w = {} THEN row[k]
      ELSE IF k \notin SoftKeys /\ ~Alive(chs, end, k) THEN NoRow
      ELSE [ver |-> count, deleted |-> ~Alive(chs, end, k), by |-> s]

-----------------------------------------------------------------------------
(* Drafting                                                                *)

CreateSet(u, s) ==
  /\ status[s] = "unused" /\ IsEditor(u)
  /\ status' = [status EXCEPT ![s] = "draft"]
  /\ createdBy' = [createdBy EXCEPT ![s] = u]
  /\ UNCHANGED <<role, submittedBy, reviewedBy, selfApproved, committedBy,
                 committedVersion, changes, row, version, batch, reviewed, log>>

\* snapshot: a live row gives its version, a row of the draft gives none
Known(chs, k) == row[k].ver > 0 \/ InDraft(chs, Len(chs) + 1, k)

AddChange(u, s, op, k, into, keep) ==
  /\ Editable(s) /\ IsEditor(u) /\ Len(changes[s]) < MaxChanges
  /\ op # "create" => Known(changes[s], k)
  /\ op = "merge" => k \in SoftKeys /\ into \in SoftKeys /\ k # into /\ Known(changes[s], into)
  /\ op # "merge" => into = k /\ ~keep
  /\ LET new == [op |-> op, key |-> k, into |-> into, keep |-> keep,
                 base |-> IF op = "create" THEN 0 ELSE row[k].ver,
                 intoBase |-> IF op = "merge" THEN row[into].ver ELSE 0,
                 seen |-> row[k].by, intoSeen |-> row[into].by]
     IN  changes' = [changes EXCEPT ![s] = Append(@, new)]
  /\ UNCHANGED <<role, status, people, committedVersion, row, version, batch,
                 reviewed, log>>

\* update_change that names base_row_version: the editor has read the row again
Rebase(u, s, i) ==
  /\ Editable(s) /\ IsEditor(u) /\ i \in DOMAIN changes[s]
  /\ LET c == changes[s][i]
     IN  /\ c.op # "create" /\ row[c.key].ver > 0
         /\ changes' = [changes EXCEPT ![s] =
                          [@ EXCEPT ![i] = [c EXCEPT !.base = row[c.key].ver,
                                                     !.seen = row[c.key].by]]]
  /\ UNCHANGED <<role, status, people, committedVersion, row, version, batch,
                 reviewed, log>>

\* update_change of a merge that names another kept row: its version is read now
Retarget(u, s, i, into) ==
  /\ Editable(s) /\ IsEditor(u) /\ i \in DOMAIN changes[s]
  /\ LET c == changes[s][i]
     IN  /\ c.op = "merge" /\ into \in SoftKeys \ {c.key, c.into}
         /\ changes' = [changes EXCEPT ![s] =
                          [@ EXCEPT ![i] = [c EXCEPT !.into = into,
                                                     !.intoBase = row[into].ver,
                                                     !.intoSeen = row[into].by]]]
  /\ UNCHANGED <<role, status, people, committedVersion, row, version, batch,
                 reviewed, log>>

\* mutant of DeleteChange: the change is marked, and keeps its position
DeleteMarks(u, s, i) ==
  /\ Editable(s) /\ IsEditor(u) /\ i \in DOMAIN changes[s]
  /\ changes' = [changes EXCEPT ![s][i].op = "deleted"]
  /\ UNCHANGED <<role, status, people, committedVersion, row, version, batch,
                 reviewed, log>>

DeleteChange(u, s, i) ==
  /\ Editable(s) /\ IsEditor(u) /\ i \in DOMAIN changes[s]
  /\ changes' = [changes EXCEPT ![s] =
                   SubSeq(@, 1, i - 1) \o SubSeq(@, i + 1, Len(@))]
  /\ UNCHANGED <<role, status, people, committedVersion, row, version, batch,
                 reviewed, log>>

-----------------------------------------------------------------------------
(* Transitions                                                             *)

Submit(u, s) ==
  /\ Editable(s) /\ IsEditor(u)
  /\ changes[s] # <<>> /\ Clean(changes[s])
  /\ status' = [status EXCEPT ![s] = "submitted"]
  /\ submittedBy' = [submittedBy EXCEPT ![s] = u]
  /\ reviewedBy' = [reviewedBy EXCEPT ![s] = None]
  /\ selfApproved' = [selfApproved EXCEPT ![s] = FALSE]
  /\ UNCHANGED <<role, createdBy, committedBy, committedVersion, changes, row,
                 version, batch, reviewed, log>>

\* own: the caller submitted it; only an admin who says so may approve that
MayReview(u, s, approve, override) ==
  submittedBy[s] = u => approve /\ IsAdmin(u) /\ override

Review(u, s, approve, override) ==
  /\ IsApprover(u) /\ status[s] = "submitted"
  /\ MayReview(u, s, approve, override)
  /\ status' = [status EXCEPT ![s] = IF approve THEN "approved" ELSE "rejected"]
  /\ reviewedBy' = [reviewedBy EXCEPT ![s] = u]
  /\ selfApproved' = [selfApproved EXCEPT ![s] = (submittedBy[s] = u)]
  /\ reviewed' = [reviewed EXCEPT ![s] = changes[s]]
  /\ UNCHANGED <<role, createdBy, submittedBy, committedBy, committedVersion,
                 changes, row, version, batch, log>>

Reopen(u, s) ==
  /\ IsEditor(u) /\ status[s] \in {"submitted", "rejected", "approved"}
  /\ createdBy[s] = u \/ submittedBy[s] = u \/ IsAdmin(u)
  /\ status' = [status EXCEPT ![s] = "draft"]
  /\ submittedBy' = [submittedBy EXCEPT ![s] = None]
  /\ reviewedBy' = [reviewedBy EXCEPT ![s] = None]
  /\ selfApproved' = [selfApproved EXCEPT ![s] = FALSE]
  /\ reviewed' = [reviewed EXCEPT ![s] = <<>>]
  /\ UNCHANGED <<role, createdBy, committedBy, committedVersion, changes, row,
                 version, batch, log>>

\* mutant of Discard: the status is not looked at
DiscardAny(u, s) ==
  /\ IsEditor(u) /\ status[s] # "unused" /\ (createdBy[s] = u \/ IsAdmin(u))
  /\ status' = [status EXCEPT ![s] = "discarded"]
  /\ UNCHANGED <<role, people, committedVersion, changes, row, version, batch,
                 reviewed, log>>

Discard(u, s) ==
  /\ IsEditor(u) /\ status[s] \notin {"unused", "committed", "discarded"}
  /\ createdBy[s] = u \/ IsAdmin(u)
  /\ status' = [status EXCEPT ![s] = "discarded"]
  /\ UNCHANGED <<role, people, committedVersion, changes, row, version, batch,
                 reviewed, log>>

\* mutant of MayCommit: maker-checker stops at the approval
AnybodyCommits(u, s) == TRUE

\* maker-checker covers the commit too
MayCommit(u, s) == submittedBy[s] = u => selfApproved[s] /\ IsAdmin(u)

\* the version a transaction's sets go live as: next_feed_version, once for them all
LiveAs == IF batch = None THEN version + 1 ELSE version

(* commit, and each set of commit_many: on top of the ones before it, which *)
(* the feed shows with it.  A set that fails is left out.                   *)
Commit(u, s) ==
  /\ batch \in {None, u}
  /\ IsApprover(u) /\ status[s] = "approved" /\ MayCommit(u, s)
  /\ Clean(changes[s]) /\ LiveAs <= MaxVersion
  /\ row' = [k \in Keys |-> RowAfter(changes[s], s, k)]
  /\ version' = LiveAs
  /\ status' = [status EXCEPT ![s] = "committed"]
  /\ committedBy' = [committedBy EXCEPT ![s] = u]
  /\ committedVersion' = [committedVersion EXCEPT ![s] = LiveAs]
  /\ batch' = u
  /\ log' = Append(log, s)
  /\ UNCHANGED <<role, createdBy, submittedBy, reviewedBy, selfApproved, changes, reviewed>>

EndCommit ==
  /\ batch # None
  /\ batch' = None
  /\ UNCHANGED <<role, status, people, committedVersion, changes, row, version,
                 reviewed, log>>

-----------------------------------------------------------------------------
(* Access, given and taken by an admin                                     *)

\* update_user: a new admin's grants are superseded, a demoted one holds none
SetAdmin(a, u, admin) ==
  /\ IsAdmin(a) /\ a # u /\ IsAdmin(u) # admin
  /\ role' = [role EXCEPT ![u] = IF admin THEN "admin" ELSE "none"]
  /\ UNCHANGED <<status, people, committedVersion, changes, row, version, batch,
                 reviewed, log>>

\* set_feed_access and revoke_feed_access ("none")
SetAccess(a, u, r) ==
  /\ IsAdmin(a) /\ ~IsAdmin(u) /\ role[u] # r
  /\ role' = [role EXCEPT ![u] = r]
  /\ UNCHANGED <<status, people, committedVersion, changes, row, version, batch,
                 reviewed, log>>

\* one request, while no transaction is open
Request(u, s) ==
  \/ CreateSet(u, s)
  \/ \E op \in Ops, k \in Keys, into \in Keys, keep \in BOOLEAN :
       AddChange(u, s, op, k, into, keep)
  \/ \E i \in 1 .. MaxChanges :
       \/ Rebase(u, s, i)
       \/ \E into \in SoftKeys : Retarget(u, s, i, into)
       \/ DeleteChange(u, s, i)
  \/ Submit(u, s)
  \/ \E approve \in BOOLEAN, override \in BOOLEAN : Review(u, s, approve, override)
  \/ Reopen(u, s)
  \/ Discard(u, s)

Next ==
  \/ /\ batch = None
     /\ \/ \E u \in Users, s \in Sets : Request(u, s)
        \/ \E a \in Users, u \in Restless :
             \/ \E admin \in BOOLEAN : SetAdmin(a, u, admin)
             \/ \E r \in GrantRoles \cup {"none"} : SetAccess(a, u, r)
  \/ \E u \in Users, s \in Sets : Commit(u, s)
  \/ EndCommit

Spec == Init /\ [][Next]_vars

-----------------------------------------------------------------------------
(* Maker-checker: what is approved or live was reviewed, and whoever        *)
(* submitted it neither reviewed nor committed it, except where an admin    *)
(* approved their own set in so many words (review_in, commit_in).          *)
MakerChecker ==
  \A s \in Sets :
    status[s] \in {"approved", "committed"} =>
      /\ {submittedBy[s], reviewedBy[s]} \subseteq Users
      /\ selfApproved[s] <=> reviewedBy[s] = submittedBy[s]
      /\ status[s] = "committed" /\ ~selfApproved[s] => committedBy[s] # submittedBy[s]

(* What goes live is what was reviewed: no edit slips in between a review   *)
(* and the commit, whatever reopens, resubmits or batches come in between.  *)
ReviewedIsLive ==
  \A s \in Sets : status[s] \in {"approved", "committed"} => changes[s] = reviewed[s]

(* The live rows are the committed sets, applied one after the other in the *)
(* order of their versions, those of one version in the order of their      *)
(* batch: a row is there, and says what it says, by the last of them that   *)
(* writes it, and a row that none writes is as it was loaded.               *)
IsLive(r) == r.ver > 0 /\ ~r.deleted

\* row k is there after chs, which are clean and write it
Leaves(chs, k) ==
  LET e == Existence(chs, Len(chs) + 1, k)
  IN  e = {} \/ \E j \in e : chs[j].op = "create" /\ \A m \in e : m <= j

WritesRow(s, k) == Writes(changes[s], k) # {}

LiveIsHistory ==
  /\ \A s \in Sets : status[s] = "committed" <=> \E i \in DOMAIN log : log[i] = s
  /\ \A i, j \in DOMAIN log : i < j =>
       /\ log[i] # log[j]
       /\ committedVersion[log[i]] <= committedVersion[log[j]]
  /\ \A i \in DOMAIN log : committedVersion[log[i]] \in 2 .. version
  /\ \A k \in Keys :
       /\ (\A i \in DOMAIN log : ~WritesRow(log[i], k)) => row[k] = Loaded(k)
       /\ \A i \in DOMAIN log :
            WritesRow(log[i], k) /\ (\A j \in DOMAIN log : j > i => ~WritesRow(log[j], k)) =>
              /\ IsLive(row[k]) <=> Leaves(changes[log[i]], k)
              /\ row[k].ver > 0 => row[k].by = log[i]

(* No lost update (conflict_for): a commit never writes over a row that     *)
(* says something else than when the change's version of it was read.       *)
Unseen(c) == \/ c.op # "create" /\ row[c.key].by # c.seen
             \/ c.op = "merge" /\ row[c.into].by # c.intoSeen

Committing(s) == status[s] # "committed" /\ status'[s] = "committed"

\* every row the change was based on was read with its version
Versioned(c) == c.op # "create" => c.base # 0 /\ (c.op = "merge" => c.intoBase # 0)

NoLostUpdate ==
  [][\A s \in Sets : Committing(s) =>
       \A i \in DOMAIN changes[s] :
         changes[s][i].key \in SoftKeys /\ Versioned(changes[s][i]) => ~Unseen(changes[s][i])]_vars

(* The same of the rows a delete removes (services, geofences, records).    *)
NoLostUpdateOfHardRows ==
  [][\A s \in Sets : Committing(s) =>
       \A i \in DOMAIN changes[s] :
         changes[s][i].key \notin SoftKeys /\ Versioned(changes[s][i]) => ~Unseen(changes[s][i])]_vars

(* The same of a change based on no version: it was made for a row an       *)
(* earlier change of its set creates, so it writes no row from elsewhere.   *)
NoUnversionedOverwrite ==
  [][\A s \in Sets : Committing(s) =>
       \A i \in DOMAIN changes[s] :
         /\ changes[s][i].op = "update" /\ changes[s][i].base = 0
         => ~Unseen(changes[s][i])]_vars

(* Nothing moves a committed or discarded set, its people or its changes,   *)
(* and the version of the feed never goes back.                             *)
Settled(s) == status[s] \in {"committed", "discarded"}

SettledForGood ==
  [][/\ version' >= version
     /\ \A s \in Sets : Settled(s) =>
          /\ status'[s] = status[s] /\ changes'[s] = changes[s]
          /\ committedVersion'[s] = committedVersion[s]
          /\ <<submittedBy'[s], reviewedBy'[s], committedBy'[s], selfApproved'[s]>> =
             <<submittedBy[s], reviewedBy[s], committedBy[s], selfApproved[s]>>]_vars
=============================================================================
