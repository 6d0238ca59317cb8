---------------------------- MODULE RoutePoints ----------------------------
(***************************************************************************)
(* The stops of a route as the depot dashboard edits them,                 *)
(* src/src/services/operator.rs: rows of route_point_internal, ordered by  *)
(* route_order and then by age, which several handlers renumber and the    *)
(* generic ones write as they are told.                                    *)
(*                                                                         *)
(* Two handlers are transactions.  A statement sees what is committed and  *)
(* its own transaction's writes, and waits for rows another transaction    *)
(* has written.  Stages, names and distances are left out.                 *)
(***************************************************************************)
EXTENDS Naturals, FiniteSets

CONSTANTS
  Stops,
  MaxPoints,   \* bound: points ever made
  MaxOrder,    \* bound: the largest route_order
  FirstPoints, \* the points there at first
  RowsByHand,  \* rows the generic handlers are sent
  MaxRewrites, \* bound: how many they write
  Requests

Points == 1..MaxPoints   \* in order of created_at

VARIABLES
  point,       \* route_point_internal
  req,
  stale,       \* history: the renumberings since whose read a stop went in, or was moved
  rewrites     \* counts against MaxRewrites

vars == <<point, req, stale, rewrites>>

NoPoint == [there |-> FALSE, order |-> 0, stop |-> "none"]
Idle    == [at |-> "idle"]
Live    == {p \in Points : point[p].there}

Init ==
  /\ point = FirstPoints
  /\ req = [r \in Requests |-> Idle]
  /\ stale = {} /\ rewrites = 0

\* ORDER BY route_order, created_at
Before(p, q) == point[p].order < point[q].order \/ (point[p].order = point[q].order /\ p < q)
Ahead(p)     == {q \in Live : Before(q, p)}
\* LAG: the live point just ahead.
Previous(p)  == CHOOSE q \in Ahead(p) : \A o \in Ahead(p) : o = q \/ Before(o, q)

At(r, at)       == req[r].at = at
Begins(r, q)    == At(r, "idle") /\ req' = [req EXCEPT ![r] = q]
Ends(r)         == req' = [req EXCEPT ![r] = Idle]
\* No transaction but r's has written rows of the route.
Unlocked(r, at) == \A o \in Requests \ {r} : ~At(o, at)
\* The renumberings that have read, and not the point that now is where it is.
Outdates        == stale' = stale \cup {r \in Requests : At(r, "renumber")}

-----------------------------------------------------------------------------
(* insert_route_stop: make room, then insert.  A second one that waits for   *)
(* the first's rows moves them on, and does not see the row of the first.    *)

\* Mutant of Shifted: room is made behind the position only.
ShiftedBehind(p, position) == point[p].order > position
Shifted(p, position) == point[p].order >= position

\* behind, for the record: what the new stop is to come before.
Shift(r, position, stop) ==
  /\ Unlocked(r, "drop") /\ Unlocked(r, "collapse")
  /\ \E p \in Points : point[p] = NoPoint
  /\ \A p \in Live : point[p].order < MaxOrder
  /\ point' = [p \in Points |-> IF p \in Live /\ Shifted(p, position)
                                THEN [point[p] EXCEPT !.order = @ + 1] ELSE point[p]]
  /\ Begins(r, [at |-> "insert", position |-> position, stop |-> stop,
                behind |-> {p \in Live : point[p].order >= position}])
  /\ UNCHANGED <<stale, rewrites>>

Insert(r) ==
  /\ At(r, "insert")
  /\ \E p \in Points : /\ point[p] = NoPoint /\ \A q \in 1..(p - 1) : point[q] # NoPoint
                       /\ point' = [point EXCEPT ![p] =
                            [there |-> TRUE, order |-> req[r].position, stop |-> req[r].stop]]
  /\ Outdates
  /\ Ends(r) /\ UNCHANGED rewrites

-----------------------------------------------------------------------------
(* bulk_replace_stops: put one stop for others, then drop every point that   *)
(* repeats the one before it.  Neither shows before the commit.              *)

Replace(r, from, to) ==
  /\ Unlocked(r, "insert")
  /\ \A o \in Requests : req[o].at \in {"collapse", "drop"} =>
       \A p \in Live : point[p].stop \in from \ {to} => p \notin req[o].changed
  /\ \E p \in Live : point[p].stop \in from \ {to}
  /\ Begins(r, [at |-> "collapse", to |-> to, drop |-> {},
                changed |-> {p \in Live : point[p].stop \in from \ {to}}])
  /\ UNCHANGED <<point, stale, rewrites>>

\* The stops as the transaction of r sees them.
Seen(r, p)    == IF p \in req[r].changed THEN req[r].to ELSE point[p].stop
RepeatsStop(r, p) == Ahead(p) # {} /\ Seen(r, Previous(p)) = Seen(r, p)

Collapse(r) ==
  /\ At(r, "collapse")
  /\ req' = [req EXCEPT ![r].at = "drop", ![r].drop = {p \in Live : RepeatsStop(r, p)}]
  /\ UNCHANGED <<point, stale, rewrites>>

Replaced(r) ==
  /\ At(r, "drop")
  /\ point' = [p \in Points |->
       [point[p] EXCEPT !.stop = Seen(r, p), !.there = @ /\ p \notin req[r].drop]]
  /\ Ends(r) /\ UNCHANGED <<stale, rewrites>>

-----------------------------------------------------------------------------
(* reprocess_routes: read the points, number them, and write the numbers     *)
(* back in a transaction that does not look again.                           *)

Numbers == [p \in Live |-> Cardinality(Ahead(p)) + 1]

Read(r) ==
  /\ Live # {}
  /\ Begins(r, [at |-> "renumber", order |-> Numbers])
  /\ stale' = stale \ {r}
  /\ UNCHANGED <<point, rewrites>>

Renumber(r) ==
  /\ At(r, "renumber")
  /\ Unlocked(r, "insert") /\ Unlocked(r, "collapse") /\ Unlocked(r, "drop")
  /\ point' = [p \in Points |-> IF p \in DOMAIN req[r].order
                                THEN [point[p] EXCEPT !.order = req[r].order[p]] ELSE point[p]]
  /\ IF r \in stale THEN Outdates ELSE UNCHANGED stale
  /\ Ends(r) /\ UNCHANGED rewrites

-----------------------------------------------------------------------------
(* upsert_one_row, delete_one_row: one statement writes the columns sent,    *)
(* and looks at no other row.  It waits for a row a transaction has written. *)

Written(r) == CASE At(r, "insert")   -> req[r].behind
                [] At(r, "collapse") -> req[r].changed
                [] At(r, "drop")     -> req[r].changed \cup req[r].drop
                [] OTHER             -> {}

WriteRow(p, row) ==
  /\ rewrites < MaxRewrites /\ rewrites' = rewrites + 1
  /\ point[p] = NoPoint => \A q \in 1..(p - 1) : point[q] # NoPoint
  /\ \A r \in Requests : p \notin Written(r)
  /\ point' = [point EXCEPT ![p] = row]
  /\ Outdates
  /\ UNCHANGED req

Next ==
  \/ \E r \in Requests :
       \/ \E position \in 1..MaxOrder, stop \in Stops : Shift(r, position, stop)
       \/ Insert(r)
       \/ \E from \in (SUBSET Stops) \ {{}}, to \in Stops : Replace(r, from, to)
       \/ Collapse(r) \/ Replaced(r) \/ Read(r) \/ Renumber(r)
  \/ \E p \in Points, row \in RowsByHand : WriteRow(p, row)

Spec == Init /\ [][Next]_vars

-----------------------------------------------------------------------------
\* A renumbering writes what it reckoned from points that have changed.
WritesStale == \E r \in stale : At(r, "renumber") /\ ~At(r, "renumber")'

(* No step of insert_route_stop, bulk_replace_stops or reprocess_routes      *)
(* changes the order in which the stops that stay are served, and a new stop *)
(* comes before all that stood at its position or after, however they and    *)
(* writes of single rows interleave.  Set aside are those writes themselves, *)
(* which put a stop where they are told (no request's step: req is as it     *)
(* was), and the write of a renumbering since whose read a stop went in or   *)
(* was moved, which does change the order.                                   *)
KeepsOrder ==
  req' # req /\ ~WritesStale =>
    /\ \A p, q \in Live \cap Live' : Before(p, q) => Before(p, q)'
    /\ \A r \in Requests : At(r, "insert") /\ ~At(r, "insert")' =>
         \A p \in req[r].behind \cap Live, q \in Live' \ Live : Before(q, p)'
OrderKept == [][KeepsOrder]_vars
=============================================================================
