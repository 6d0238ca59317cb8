# TLA+ models of the GTFS in-memory server and editor

The program is one Rust binary that runs as several pods. Each pod answers
queries from feeds it holds in memory, and each serves the GTFS editor, whose
state is a Postgres database all pods share. People change a feed through
reviewed *change sets*; a commit moves the feed's version; every pod polls that
version and reloads; once all pods have it, a webhook tells the caches
downstream. Beside the editor, the binary serves the dashboards of the depots:
crews and their duties, vehicles and their tags, the stops of routes.

These modules specify the path from an edit to the webhook, the three ways rows
reach a feed in bulk (a migration, a reload, a weekly run over GPS), and what
the dashboards do to shared rows. TLC checks them on small instances, and TLAPS
proves the central facts of the first for every instance.

- [The system](#the-system)
- [The modules](#the-modules)
- [The runs](#the-runs)
- [Fairness](#fairness)
- [The proofs](#the-proofs)
- [Where code and text disagree](#where-code-and-text-disagree)
- [Abstractions](#abstractions)
- [Not modelled](#not-modelled)
- [Plan](#plan)

## The system

Paths are relative to `src/`; `E` stands for `src/editor`, `S` for
`src/services`.

| Component | State it keeps | Operations | Talks to |
|---|---|---|---|
| Change sets, `E/service.rs` | `gtfs_change_set` (status, submitter, reviewer, committer), `gtfs_change` (changes by position, with base row versions), the live rows, `gtfs_feed.version` | create set; add, update, rebase, delete a change; submit; review; reopen; discard; commit; batches of the last ones | the live rows (replays a draft against them); audit |
| Feed lock, `E/feed_lock.rs` | an advisory lock per feed, held to the end of a transaction | `lock_feed`, `lock_feed_of_set`, `retry_transient` | every transaction that writes or replays a draft |
| Access, `E/auth.rs`, `E/context.rs` | users, roles, grants by feed | grant, revoke, make admin | every handler |
| Login, `E/jwt.rs`, `E/crypto.rs`, `E/handlers.rs` | sessions, the last TOTP step, failures and lockout | sign in, enrol, sign out; confirm a reload with a code | access; reloads |
| Proposals, position and stage reviews, `E/proposals.rs`, `E/position_reviews.rs`, `E/stage_reviews.rs` | their own rows, each linked to a draft | raise, decide, withdraw | change sets: a decision writes changes into a draft |
| Migration, `E/migration.rs`, `E/draft_import.rs` | `gtfs_migration_import` (which drafts came from which file) | write a file of one draft or of the feed on master; read it in on prod | change sets: what it brings are drafts |
| Imports and reloads, `E/feed_io.rs`, `E/import_jobs.rs` | job rows; tickets, which it seals and does not keep | check a zip, reload a feed from it; start, finish, be taken for lost | a feed's rows and version; open change sets |
| GPS lines, `E/gps_line*.rs`, `E/gps_polyline_sync.rs` | an advisory lock a feed | the weekly run; a run on demand | change sets of its own account |
| Loader, `S/gtfs_db_source.rs` | none | `live_feeds`, `plan_feed_actions`, `load_feed` | the editor's database, read with no transaction |
| In-memory data, `S/gtfs_service.rs` | `data` (swapped whole), `db_feed_versions`, `reload_lock` | boot, poll and reload, revert, full refresh | loader; webhook heartbeat |
| Fleet verdict, `S/webhook.rs` | `gtfs_pod_feed_state` (one row a pod and feed), `gtfs_webhook_delivery` | heartbeat, arm, judge, enqueue or abandon | every pod's row; delivery queue |
| Delivery queue, `S/webhook.rs` | `gtfs_webhook_delivery` (status, attempts, claim) | claim, send, finish, reclaim | receivers |
| Crews' duties, `S/fleet_operator.rs`, `S/operator.rs` | `waybills_internal`; flags of the trips, which the duties of a schedule share | look; start, end, reset, roll back a trip; close; the dashboard's status and details | the repeater (the next duty) |
| Waybill repeater, `S/operator.rs` | per schedule a repeat and a watermark; the lease | sweep in every pod; a person's range; edit a repeat | duties |
| Vehicle tags, `S/operator.rs` | `vehicle_tag_internal`, the array on `vehicles_internal` | create, bring back, delete a tag; write, delete vehicles | - |
| Stops of a route, `S/operator.rs` | `route_point_internal` | put one in, replace many, renumber | - |
| Queries, routing, caches, the other `S/*.rs` and handlers | caches with a time to live | reads | in-memory data, outside services |

What makes it hard, and what "correct" means, by component:

- **Change sets.** A change is made against rows read long before it is
  committed. Other sets commit, reopen and rebase in between, roles come and go,
  and changes of one draft depend on earlier ones. Correct: no lost update,
  nothing goes live that was not reviewed as it is, maker and checker differ,
  live rows are the committed history.
- **Transactions.** Requests lock the feed and several sets' rows, some without
  the feed, and a batch keeps what succeeded and rolls back what did not.
  Correct: replays do not overlap, a version is published whole or not at all,
  never an empty one, and nobody waits for ever.
- **Reloads.** Poll and full refresh both build a copy over seconds of separate
  statements and swap it in; the database may fail, the pod may die. Correct: a
  copy is never labelled newer than it is, a pod does not go back, and it always
  comes to what the row says.
- **Fleet verdict.** Every pod decides by itself from rows the others wrote.
  Correct: the pods a verdict counts really are there, and there always is a
  verdict in the end.
- **Delivery.** Pods die with claims; answers are lost. Correct: one sender at a
  time, no duplicate without a cause, everything queued is settled.
- **Duties.** No handler has a transaction, and the flags of the trips outlive a
  duty. Correct: one trip runs at most, after all that are done; nobody is on
  two duties; a duty starts clean.
- **Repeater.** A walk of many statements may fail at any; every pod runs it and
  people do. Correct: the watermark passes over no day, pods take turns, every
  day is filled in the end.
- **Tags, stops.** A check and a write, or two writes, are statements apart.
  Correct: no vehicle has a tag that is gone; the order of the stops that stay
  is kept.
- **GPS run.** It takes hours, and people review the drafts it is to replace.
  Correct: a week is drafted once, a route is in one draft.
- **Migration.** Two sides edit the same rows and files arrive late or twice.
  Correct: prod's own edits are kept, and each read-in gets somewhere.
- **Reload.** It is confirmed twice, and takes every row away. Correct: what
  goes is what was checked, and no open change set stood on it.

`PROJECT.json` lists each hazard at its line with the properties that cover it.

## The modules

```
ChangeSets                one operation = one action      ChangeSetsProofs
CommitBatch ─implements→ FeedHistory                      CommitBatchProofs
    the same operations, lock by lock
FeedPods                  the pods that follow            FeedPodsProofs
  └ FleetSync               gtfs_feed.version; EXTENDS    FleetSyncProofs
                            FeedPods: heartbeats, verdicts
WebhookDelivery           what becomes of a verdict       WebhookDeliveryProofs

SideBySide                beside each other:
  ├ FleetSync               (EXTENDS)
  ├ Migration, FeedReload, GpsSync   drafts in bulk       EditorPartsProofs
  ├ Waybills, Repeater      duties and their sweeps       DutyProofs
  └ VehicleTags, RoutePoints  the other dashboards        DepotProofs
```

On the right, the modules of theorems; each extends the module beside it.

The components meet in three places: `gtfs_feed.version` (moved by
`ChangeSets!Commit` and `CommitBatch!Commit`, read in `FeedPods` where
`CommitVersion` stands for the editor), the heartbeat rows (`FleetSync`
extends `FeedPods`, each step of which it embeds), and the row a verdict
inserts (`FleetSync!Enqueue`, which is `WebhookDelivery!Queue`).

**ChangeSets** — the columns of `gtfs_change_set` are functions over `Sets`;
`changes[s]` is the sequence of a set's `gtfs_change` rows; `row[k]` is a live
row: its `row_version`, soft-delete mark and `by`, the set that last wrote it,
which stands for its content. `reviewed` and `log` are history variables. Every
handler is an action: `CreateSet`, `AddChange` (`add_change_to`), `Rebase` and
`Retarget` (`update_change`), `DeleteChange`, `Submit` (`submit_in`), `Review`
(`review_in`, with an admin's self-approval), `Reopen`, `Discard`, `Commit`
(`commit_in` and `set_feed_version`), `SetAdmin`, `SetAccess`. `commit_many`
puts several sets live as one version: a `Commit` for each, all at the version
the first took (`LiveAs`), then `EndCommit`, with nothing else in between
(`batch`). The replay of a draft (`evaluate`) is `Clean`, the version
comparison `VersionConflict`, and the effect of a commit on one row `RowAfter`.
A change is one of four operations (create, update, delete, merge) on one row;
keys in `SoftKeys` are stops, stations and routes, where a delete marks the
row; the others are rows a delete removes.

**CommitBatch** — opens the transaction up. A request takes the feed's lock
where the code does, then each set's row, works in its own view `mine`, and
publishes it at `Commit`. Submits, approvals and commits come alone or in
batches (`submit_many`, `approve_many`, `commit_many`). `FailSet` is the
rollback to the savepoint of `settle_set`; it releases the row lock unless an
earlier savepoint of the batch took it. `Victim` is Postgres ending a deadlock
and `retry_transient` running the request again; `Crash` is a pod's death. What
an error is about is left open: `FailSet` may hit any set at work. A change of
a set is abstracted to the row version it is based on.

**FeedHistory** — the editor as anybody outside sees it: each step publishes
the next version with a set of change sets.

**FeedPods** — per pod: what it serves (`served`: the label and the version
each of two tables was read at), the poll loop's place, what it read last
(`live`), `reload_lock`, and the load of each of boot, poll and refresh, one
statement at a time (`ReadVersion`, `ReadRoutes`, `ReadStops`). Two tables stand
for all: the first and the last statement after the version.

**FleetSync** — adds `gtfs_pod_feed_state` (`beat`), process lives (`boot`),
each dispatcher's decision between its statements, and deliveries by version.

**WebhookDelivery** — rows of the queue, the claim each pod holds, and how often
the receiver acted.

The next three meet `ChangeSets` at a change set's status: they carry its steps
(`Commit`, `Move`, `Discard`) with what of a set matters to them.

**Migration** — `master` is the sequence of master's states, each of which a
file may hold; `live` and `wrote` are prod's rows and the version that wrote
them last; `sets` are prod's change sets with where they come from. What a
change is compared by when it is committed is `Moved`: the row's version for
stops and routes, the content for lists and timetables, either for a stage
(`stage_unchanged`). `ReadDraft` is `import_change_set` (`GoesIn` is `classify`
and what `add_and_settle` drops), `ReadFeed` the first transaction of
`import_full` (`ChangedOnProd`, `Planned`, `StepOf`; it goes by the
`since_version` of the request, or the first one recorded), `DraftTimetables`
and `Record` its second and third. A row is a stop, a stage, a route's list of
stages, or its timetable.

**FeedReload** — `tickets` are what checks answered with, `last` the
authenticator's last step, `req` the requests under way: `Begin` reads the
user's row and the version, `UseCode` is `use_code`, `TryLoad` and `Load` are
`reload_zip` rolled back and committed.

**GpsSync** — `sets` are the account's change sets, `runs` where each run
stands, `holder` the advisory lock. The steps of a run are its transactions:
`CheckWeek`, `ReadHeld`, a `Create`, some `Add` and an `EndDraft` for each
draft, then `replace_in_earlier_drafts` as `FindEarlier`, `TakeOut`,
`DiscardEmpty`.

**Waybills** — `row` is `waybills_internal`, `active` and `done` the flags on
the trips, by schedule, or by waybill for a flexi one; each statement of
`resolve_and_flip_upcoming_waybill`, `apply_trip_action`,
`close_waybill_after_last_trip`, `create_successor_if_repeat_active` and of the
dashboard's writes is an action; `UpsertTrip` is the generic upsert of a trip's
row.

**Repeater** — `config`, `till` and `duties` are a schedule's repeat, watermark
and days with a duty; `walk` is where each `walk_schedule_trip_repeats` stands,
a pod's or a person's; `lease` is `repeater_reconciler_state`, with its clock
read as *due* and *stuck*.

**VehicleTags**, **RoutePoints** — the check and the write of each request as
steps of their own; in `RoutePoints` with the row locks that its two
transactions hold. A deleted vehicle keeps its tags, and `UpsertVehicleRow`, the
generic upsert, may bring it back; `WriteRow` is the generic upsert and deletion
of a route's points.

In these seven a history variable says when something happened of which the
code makes no promise (`overlap`, `byHand`, `crossed`, `revived`, `stale`,
`reopened`, `tainted`), and a property names it where it steps aside. What then
goes wrong is listed [below](#where-code-and-text-disagree).

`SideBySide` and `MCPodLoops` put parts that share no state beside each other:
`part` says which one a behaviour is of, the others stay where they begin. Each
part is so checked on the whole of its own state space, not on the product.
`SideBySide` also holds the assumptions on the parts' constants and states their
properties, which the theorems cite. The other modules named `MC...` only give
names to model values, jobs and symmetry.
Operators commented "mutant of" are deliberately wrong variants of the
definition after them, each of which breaks one checked property; no
specification uses them.

## The runs

| Run | Instance | Shows |
|---|---|---|
| `ChangeSets_rows` | 1 admin, 2 sets of up to 2 changes, 3 soft rows (2 there at first) and 1 hard | `TypeOK`; `LiveIsHistory`: live rows are the sets gone live, as they were applied, one or both a version; `NoLostUpdate`: a commit never writes over what its change has not seen |
| `ChangeSets_people` | 3 people, one whose access changes at will, 2 sets of 1 change | `MakerChecker`, `ReviewedIsLive`, `SettledForGood` |
| `CommitBatch_three` | 3 requests at once, 2 sets on one row, jobs that lock in crossing orders, batches of all three kinds | `OneReplayAtATime`; `EachOnTopOfTheLast`: sets of one row went live each on top of the last; `VersionsAreFull`; `OnlyApprovalsDeadlock`: every cycle has a batch approval in it |
| `CommitBatch_live` | 2 requests, 2 sets on a row each, fairness | `ImplementsHistory`: refines `FeedHistory`; `EveryRequestEnds` |
| `FeedPods_pod` | 1 pod, 4 versions, 2 failures or deaths, refreshes, fairness | `LabelIsAFloor`, `NeverOlder`, `ComesBack` |
| `SideBySide_safe`, part fleet | 2 pods, 2 versions, 1 failure or death | `CountedPodsAreThere` |
| - duties | 2 requests; a duty under way and room for its successor, or a duty and a flexi one with the same vehicle; up to 2 trips, 2 days, 1 write of the dashboard, a trip's own row included | `TripsInOrder`: one trip runs, after all that are done; `OneDutyAtATime`, of requests that follow one another; `FreshDuty`: a duty goes online with no flag of an earlier one |
| - sweeps | 2 pods, 1 person, 3 days, 1 edit, 1 trouble | `WatermarkHonest`: no day up to the watermark is missing; `OneSweep`: two at once only past the stuck timeout |
| - tags | 2 requests, 1 tag, 2 rows for it, 2 vehicles of one number | `NoDeadTag` |
| - points | 2 requests, 2 stops and room for one, 1 row written by hand | `OrderKept`: the stops that stay keep their order, a new one stands before those it was put before |
| - lines | 2 runs, 2 routes, 2 weeks, 1 move of a person, 1 trouble | `OneSetARoute`, `OneRunAWeek` |
| - migration | 2 versions of master, 3 change sets of prod, a stage and a timetable | `OwnEditsKept`; `EachCommitMoves`: a row a migration commits changes, and none comes back |
| - reload | 2 requests, 1 zip, 3 versions, 1 change set | `ReplacesWhatWasChecked`, `DraftsStandOnRows` |
| `FleetSync_live` | 2 pods, fairness, either may fall silent or lag, one dies or fails once | `LastVersionIsAnswered` |
| `PodLoops_live`, part queue | 2 pods, 2 deliveries, 2 attempts, 2 troubles, fairness | `OneHolder`, `NoNeedlessDuplicate`, `SettledForGood`, `EveryDeliveryIsSettled` |
| - sweeps | 2 pods, 3 days, 1 edit, 1 trouble, fairness | `EveryDayIsFilled`: a day ahead that a schedule repeats on gets its duty |
| `ChangeSets_aba`, `ChangeSets_unversioned`, `FeedPods_list`, `FleetSync_restart` | as small as shows it | a sentence of the repository that the code does not keep; see below |

**Why the bounds are enough.** A lost update needs a set that read a row and one
that wrote it: two sets. Two changes a set give every pair of operations on one
row, on two, and across a merge; three soft rows let a merge and an update of a
third row meet. Three people are a maker, a checker and one who gains and loses
the right to be either. A deadlock cycle is of two requests; the third waits
behind it or meets the victim's retry. `CrossingJobs` names both orders of two
sets, with the feed's lock (submits and commits) and without (approvals), and an
edit and a reopening that come in between. With `MaxAttempts = 2` (the code: 4)
a victim runs again once and fails for good once. One pod suffices in
`FeedPods`, since pods do not interact there; four versions let a load straddle
two commits with one before and after, two troubles let the retry of a failed
load fail or the pod die in it. In `FleetSync` the heartbeat rows are the only
channel, and two pods are one that decides and one it waits for. Trouble is
bounded in all of them because unbounded failure promises nothing. In the other
parts two requests are one that has looked and one that writes in between. Two
trips tell the last from the others, and two duties the one under way from its
successor; the second duty of the other start is flexi, since a second one of
the schedule and day cannot be. Three days with chunks of one let a walk fail
between two chunks and resume, and the first day, passed over by the second
repeat, come back. Two routes fill one draft or two, and three change sets are a
week's two and one of the week before. On prod, three change sets are a
migration, an edit of prod's own and the migration read in again, or an edit of
prod's there and back under a set; a stage and a timetable are compared each in
its own way and make the read-in's steps. One tag suffices, since a row keeps
its tag and the tags of a vehicle are looked at one by one (the theorem is for
any number), and two vehicles of a number are one deleted and its successor.
Three versions are a check, a commit or reload after it, and one more.
`CHECK_DEADLOCK FALSE` appears where versions run out (`ChangeSets`), everything
is settled (`WebhookDelivery`), or nothing is left within the bounds
(`SideBySide_safe`).

**Symmetry** is over sets, the rows there at first, requests or pods, in runs
without liveness. In `SideBySide_safe` the two pods stand for the two requests
or runs of the other parts as well. `FleetSync_live` cannot use symmetry, since
liveness is checked there: its `TroubledSpec` has the one death or failure
happen to `p1`, which loses nothing because the pods are alike in every other
respect.

## Fairness

- `CommitBatch`: weak fairness of each request's own next step, since a
  transaction that can go on is driven by its task and Postgres breaks
  deadlocks unasked; strong fairness of taking a lock, since Postgres queues
  waiters in order. None for new requests or crashes.
- `FeedPods`: weak fairness of every statement and of the poll loop, which
  `tokio` keeps running; strong fairness of the poll's taking `reload_lock`, a
  tokio mutex that is handed out first in, first out. None for full refreshes,
  edits, failures or deaths; a dead pod is restarted (`Boot` is fair) because
  the deployment does so.
- `FleetSync`: that, and the dispatcher's steps; and time, so that a window
  once open ends (`Settle`, `WaitTooLong`). A heartbeat may go stale but need
  not.
- `WebhookDelivery`: each pod's drain of the queue, and time and `Reclaim` for
  each delivery, since every pod's tick runs `reclaim_stranded`.
- `Repeater`: each pod's walk and its end (`Sweeps`), that some pod takes a
  lease that can be taken, and time (`Due`, `Stuck`). None for people, edits,
  deaths or failures. `LoopsSpec` of `MCPodLoops` says the same of the parts
  side by side.
- The other modules state safety only, and no fairness.

## The proofs

Every invariant and every action property that a passing run checks is also a
theorem. Checked by `tlapm`, for any constants that meet the modules' named
assumptions, each of which TLC evaluates on the instances. Most say no more than
what a constant is (a bound is a natural, `InitSource` a source, `SoftKeys` and
`LiveAtStart` keys, a NULL no person). These say something of the system:

- `JobsAssumption`: a batch names each set once (`batch_ids`), and edits and
  reopenings are of one set, as their handlers are. Submits, approvals and
  commits may be of any number (`submit_many`, `approve_many`, `commit_many`).
- `RequestsAssumption`: finitely many requests are under way.
- `DutiesAssumption`: the duties there at first are apart already. The
  properties are about what the code does to such a table; it does not repair
  another. What the dashboard sends are statuses, crews and schedules.
- `PointsAssumption`: a stop of a route has a number and a name, a free row
  none.
- `MigrationAssumption`: what trimming leaves has no edge space; a route has its
  timetable and its list, perhaps empty ones, as long as there is the route.
- `SweepsAssumption`: a schedule repeats on some of the days, or not at all;
  days are numbered from 1.

**ChangeSetsProofs**

- `TypeCorrect`. The heart is that removing, adding and rebasing keep a set's
  changes a sequence (`RemoveType`, `AddType`, `RebasedType`) and that the row a
  commit leaves is a row (`RowAfterType`, which needs that the writes of a key
  are finite and have a last).
- `MakerCheckerHolds`. `MakerChecker` is not inductive alone: `Signed` adds that
  a submitted set has a submitter.
- `ReviewedIsLiveHolds`, `SettledForGoodHolds`. Directly from the guards, one
  case an action.
- `NoLostUpdateHolds`. The inductive invariant `AllBased` says of each change of
  any set and each soft row it is based on: the version it carries is 0, or the
  row has moved past it, or the row still says what was read. A commit leaves a
  soft row or moves its version up (`SoftRowAdvances`), so what was based stays
  based (`StillBased`). Commit compares versions, so moved past is a conflict,
  and what remains is `NoLostUpdate` (`NothingUnseen`). The argument fails for
  rows a delete removes, whose versions start again, and the run
  `ChangeSets_aba` shows the behaviour.
- `LiveIsHistoryHolds` from `History`, which says it of the log and of each row
  apart (`InOrder`, `RowTold`): a set that goes live is the last of the log, at
  the version of the batch it is in or the next, no earlier than any before
  (`HistoryCommit`); a row it writes says so, and is there just as its changes
  leave it (`RowAfterSays`); and no other step touches a committed set, its
  changes or a row (`HistoryKept`).

**CommitBatchProofs**

- `TypeCorrect`, with `Place`: a running request has a job and stands at one of
  its sets.
- `OneReplayAtATimeHolds`, `VersionsAreFullHolds` and `ImplementsHistoryHolds`
  come from one invariant, `Safe`: `OneReplayAtATime`; `AtWork` (at work it
  holds the set's row, sees its committed status, and has not put it live);
  `Fate` (committed just when gone live); `OwnFate` (the same of the
  transaction's own view, for the sets it holds); `Reach` (only a commit puts
  sets live, and the version it read is still the next); `Filled` (no version is
  empty). `Reach` is why the feed's lock is needed: without it another commit
  would move the version in between. `SafeStep` has a step for each action and
  one for each conjunct under it. `ImplementsHistoryHolds` is the step
  simulation: `Commit` with something live is `Publish`, all else stutters.
- `EachOnTopOfTheLastHolds` is not inductive: within a batch rows move in the
  transaction's own view before anybody sees it. `Rows` adds `OwnBatch` (in a
  commit's view a row stands above the live one by the number of its sets that
  the batch has applied, each at a version of its own in between), `Passed` (a
  row has moved past the base of all that went live on it) and `Settled` (a
  transaction that holds a live set knows the base it went live with). At
  `Commit` the view becomes the table, and the counts of the two disjoint parts
  add up.
- `OnlyApprovalsDeadlockHolds`. `Hands` says what a request may hold where it
  waits: a request that queues on the feed holds nothing, and one that waits for
  a set's row while it holds another is past its first set, so a batch; and a
  batch of submits or commits has the feed. A cycle passes only through requests
  that hold something and wait; two of them cannot both have the feed, so one is
  an approval of many. `WaitChain` is a recursive function; that it has a value
  at all, and that what it collects stays among such requests, is shown by the
  least number at which it would fail (`LeastOf`).

**FeedPodsProofs**

- `TypeCorrect`. Each step of a load is first restated as "one task of one pod
  moves on with this copy" (`LoadSteps`, `EndedType`), which the invariant proof
  uses again.
- `LabelIsAFloorHolds` and `NeverOlderHolds` come from `PodInv`. `LoadInv` says
  of a load at each place that what it has read so far is in order: the label
  first, and each table at that version or later. `Alone` ties `reload_lock` and
  the boot to the loads: a pod is at work on one load at most, and on boot's
  only before it serves. `NewerInv` says that a load past its first statement is
  labelled no older than the copy it is to replace; it holds from then on
  because nobody else swaps (`Alone`) while it runs. A row that is not there has
  version 0, which is why an import of a new feed does not take the version
  back.

**FleetSyncProofs**, on top of FeedPodsProofs

- Every step of the fleet is a step of `FeedPods` or one of the tick after the
  reloads, in which nothing moves that `PodInv` speaks of (`EachPodsMove`,
  `TickKeeps`), so `PodInv` carries over.
- `CountedPodsAreThereHolds`. `Reached(p, v)` says that all a pod serves or is
  at work on is of `v`, later, or preprocessed; no step of the pods undoes it
  (`ReachedStays`). `FleetInv` follows the version along its way: a pod has
  reached what it serves (`ServedIsReached`, from `NewerInv`), so what its
  heartbeat row says, so what a dispatcher's verdict counts, so what the
  delivery says. Neither the age of a row nor the process that wrote it matters
  to it. `Refreshing` is free in the theorem; the runs have it off.

**WebhookDeliveryProofs**

- `TypeCorrect`, with `HandInv`: a pod with a delivery in hand is somewhere with
  it.
- `OneHolderHolds` is inductive with the types: a claim needs `pending`, which
  no held delivery is, and a reclaim needs a claim nobody has in hand
  (`ClaimAges`).
- `SettledForGoodHolds`: who writes to a row holds it, and a held row is
  `in_flight`.
- `NoNeedlessDuplicateHolds` needs `Accounts`: the receiver acted at most once
  for each trouble, and once more where the success is written down or is in the
  hands of the holder (`Earned`). An answer that is lost turns an `Earned`
  delivery into one more trouble, never both.

**DutyProofs**, **DepotProofs**, **EditorPartsProofs**, about the parts of
`SideBySide`. A lemma `...StandsAlone` for each part says that the composition's
steps are the part's or leave it alone; the rest is about the part.

- Duties: `TripsInOrderHolds`, `OneDutyAtATimeHolds`, `FreshDutyHolds` from
  `DutyInv`. A wipe (`FlagsWiped`) ends what a trip's row written by hand began.
  `FlipsAlone` is the strengthening: while no two requests overlap, a request
  that puts a duty online knows at each statement what its checks so far have
  found (no other crew, no other duty of the schedule, flags clean), and it is
  still so. `RequestOK` keeps the trip a request carries one of its waybill's.
- Sweeps: `WatermarkHonestHolds`, `OneSweepHolds` from `SweepInv`. `LeaseHeld`:
  a sweep that has not outlived the timeout has the lease. `WalksHonest` says of
  each walk at each statement what it has read that still holds: the repeat, and
  that the days it has passed have their duties or are on its list of missing
  ones. Edits and lost duties mark the walks they make stale; nothing else takes
  a duty away. That a day's duty is the next to insert needs that a set of days
  has a first, by well-foundedness of the naturals.
- Tags: `NoDeadTagHolds` from `TagInv`: what a request has read of a tag's row
  is still so when it writes (`SameTag`, `KnownTag`), and what it has read of
  the other table is, but for the tags that crossed (`NotInUse`, `GivesActive`).
- Points: `OrderKeptHolds` from `PointInv`: room has been made before a stop
  goes in (`Room`), and the numbers a renumbering brings are in the order the
  stops have, unless it is stale (`NumbersStand`). A row written by hand that a
  transaction has not written leaves its room as it is. Stops with equal numbers
  go by their rows, so that the order is total (`BeforeIsTotal`).
- Reload: `DraftsStandOnRowsHolds`, `ReplacesWhatWasCheckedHolds` from
  `ReloadInv`. `TicketsHonest` follows a ticket from the check that gave it to
  the reload that brings it back: it saw no later version than there is, and its
  code is used up, so the reload's code is another (`ReloadsHonest`).
- Lines: `OneSetARouteHolds`, `OneRunAWeekHolds` from `LineInv`. `Lock`: whoever
  is not idle has the advisory lock. `Apart` follows the routes of a run from
  its list through the draft at hand into its sets: they are shared by nothing
  that waits for a review, and what an earlier draft still has of them is on the
  list of what to take out (`OldKnown`). `WeekClaimed`: past the look at its
  week, all the week's sets are the run's own.
- Migration: `OwnEditsKeptHolds`, `EachCommitMovesHolds` from `MigrationInv`.
  `Stands` says of a set of a migration and each of its rows, as the set saw it:
  the set differs from it, prod has not taken it out, and the read-in is behind
  none of prod's own edits of it (`Respected`; or, for one draft, it is as
  master had it). These are facts about the past, which nothing undoes. `Sees`
  ties them to the present: a row at the version an open set was made on is as
  the set saw it. So a commit that is let through, by version or by content,
  finds the row as the set saw it (`CommitsWhatItSaw`); it moves its rows past
  every version a change is based on (`Fits`, `CommitKeeps`). `ReadIn` is the
  same for what a read-in means to draft after it has let the lock go.
  `RespectedIfUnchanged` is why what the code asks of `gtfs_migration_import` is
  enough: each recorded set is none of prod's own, so the latest own version is
  at most what `changed_on_prod` finds, and the latest recorded one at most that
  of all others. A read-in that dies between its drafts and their record errs on
  prod's side only.

TLC has checked the strengthened invariants on the instances of the runs.

**Model-checked only.** Liveness (`EveryRequestEnds`, `ComesBack`,
`LastVersionIsAnswered`, `EveryDeliveryIsSettled`, `EveryDayIsFilled`), which is
out of the prover's reach. The four disagreements below are counterexamples and
need no proof.

## Where code and text disagree

Each is a run that is expected to end in a counterexample.

- `ChangeSets_aba`. `0023_gtfs_full_spec.sql:585-593` promises that a stale base
  is a conflict. Rows a delete removes start at version 1 when they are created
  again, so a change made for the old row is applied to the new one.
- `ChangeSets_unversioned`. `0001_create_gtfs_editor.sql:158-161` says a commit
  checks each row's version against the base. An update made for a row its own
  draft creates has no base version; delete the create from the draft, let
  another set create the row, and the update goes over it unchecked.
- `FeedPods_list`. `gtfs_service.rs:2680-2684` says a feed's row wins over the
  static list "in both directions". Boot and full refresh go by the list alone,
  so a listed feed whose row says preprocessed is served from the tables until
  the next poll reverts it.
- `FleetSync_restart`. `0013_webhooks.sql:31-33` says a restarted pod that has
  not loaded yet is never mistaken for the old one. The verdict does not compare
  `boot_id`: within the staleness window it counts the row the old process left.

Others have no run:

- The comment at `gtfs_service.rs:2783-2785` says a reverted feed's row will say
  so, but the loop below it visits only feeds `live_feeds` names, which a
  reverted one no longer is; the row goes stale instead.
- `operator.rs:623` refuses to drop a tag in use "so vehicles_internal never
  points at a dead tag". The count and the deletion are two statements, and so
  are a vehicle's check and its write: a tag that is deleted while it is given
  stays on the vehicle. And a deleted vehicle is not counted (`operator.rs:634`)
  but keeps its tags, and the generic upsert, with `deleted` among its columns
  (`operator.rs:403-416`), brings it back with a tag deleted meanwhile.
  `crossed` and `revived` mark the two; of all else `NoDeadTag` says that the
  sentence holds.
- The crew's checks and the update that puts a duty online are statements apart
  (`fleet_operator.rs:563-641`): two first requests at once put one crew on two
  duties (`overlap`).
- `operator.rs:3338-3339` resets the watermark because "a stale watermark must
  not survive the edit". A walk that read the schedule before the edit writes
  its watermark after it (`operator.rs:2590`), and the days between are passed
  over. So are those before a range that begins later than the watermark, which
  `generate` accepts although the reconciler "fills any missing occurrence"
  (`operator.rs:67-72`), and the day of a duty deleted by hand ("every other
  verdict is permanent", `operator.rs:2500`). `tainted` marks all three.
- A sweep whose walk failed records its end all the same (`operator.rs:138-156`)
  and is tried again only when the next is due.
- `reprocess_routes` writes numbers it read before (`operator.rs:4542-4670`); a
  stop put in or moved meanwhile moves. Two replacements at once may leave two
  equal stops side by side (`operator.rs:4385`), each not seeing what the other
  wrote.
- An `end` of the last trip that is sent twice finds the duty closed, puts the
  next one of the day online and, where that number is its last trip too, closes
  it (`fleet_operator.rs:1214`).
- A change set rejected before a reload can be reopened after it
  (`feed_io.rs:801-820` looks at open ones only), on rows at version 1 like
  those it was made for.
- A timetable that prod edits after a read-in has let the feed's lock go and
  before it drafts (`migration.rs:2600-2661`) is drafted over, though "prod's
  own edits are kept".
- An import between whose drafts and record a pod dies
  (`migration.rs:2661-2696`) leaves drafts that count as prod's own, so later
  migrations keep what they brought.

## Abstractions

- A row's content is the set that wrote it. Fields, geometry, validation and
  wording do not appear; a failed check is a refusal, or an error in `FailSet`.
- A person's role is read when an operation runs. The code reads it when the
  request starts, which may be a lock wait earlier.
- In `ChangeSets` an operation is atomic: it holds the set's row, and the feed's
  lock where it reads live rows. `CommitBatch` is what justifies it.
- The rows of `ChangeSets` are those of one load: an import or a reload, which
  also moves the version, replaces them all and begins again. What open change
  sets make of that is `FeedReload`.
- Time is not counted. A heartbeat goes stale, settles, or has waited too long
  by steps of their own, in any order the clocks allow. A pod's own heartbeat
  does not go stale between the two statements of one tick.
- `ClaimAges`: a claim a pod still has in hand does not outlive
  `CLAIM_STALE_SECONDS` (600 s, twice the longest request timeout). This is an
  assumption about a process not being suspended: `finish` checks neither
  claimer nor status, so without it `OneHolder` and `SettledForGood` would not
  hold.
- In `FleetSync` the full refresh is off, and the webhook exists from version 1.
- In `Migration` a master draft changes one row, merges and the switch to
  `use_stages` are left out, and whatever a check of prod refuses is any subset
  of what is planned. Text with an edge space is the one conversion that is
  modelled, because a property is about it (`Stored`).
- In `GpsSync` any routes may have a new line, and a run may end at any
  statement.
- In `Waybills` the request's token finds any of the waybills it fits; the code
  takes the one updated last. Devices and distances are left out. `Real`, which
  trips a schedule has, does not change, and the generic upsert of a waybill is
  taken for `SetStatus` and `SetDetails`: it does not move one to another
  schedule or day.
- In `FeedReload` one admin confirms, the lockout after wrong codes is left out
  (it only refuses), and a background job differs from a request only in that
  its outcome may not be written (`Dies`).

## Not modelled

- Proposals, position reviews, stage reviews and route issues: their rows follow
  the draft their decision wrote. Planned first.
- Sessions, enrolment, the lockout; the first import of a feed; bulk edits (each
  is `ChangeSets!AddChange`); the `feed_reload_failed` event; feed overlays,
  variants and derived trips.
- Validation and draft views (`E/validation.rs`, `E/draft.rs`): reads, which
  appear as refusals.
- Most of `S/operator.rs` and `handlers/routes.rs`: one query a request, with
  filters and formatting.
- GPS geometry, path search, timing: floating-point algorithms with nothing
  beside them. Clients of outside services with caches.
- The `gtfs` library and command line: sequential parsing and writing of files.
- GraphQL, configuration, models, API docs; the browser client.

These last five are by far the larger part of the code's lines; a model of them
would repeat the text of queries and formats and have no property to check. So
the definitions here cover the parts that keep state together, and about a tenth
of all lines. `PROJECT.json` has the reason for each component.

## Plan

1. *Done:* `ChangeSets`, `CommitBatch` with `FeedHistory`, `FeedPods`,
   `FleetSync`, `WebhookDelivery` and the proofs above; `Waybills`, `Repeater`,
   `VehicleTags`, `RoutePoints`, `GpsSync`, `Migration`, `FeedReload`.
2. *Done:* proofs of every invariant and action property of these.
3. `ReviewLinks`: proposals and position reviews over the drafts their decisions
   write, and the order of locks in `proposals.rs:679`.
4. `FleetSync` with full refreshes and `feed_reload_failed`, composed with
   `WebhookDelivery`; `WebhookDelivery` without the `ClaimAges` assumption.
