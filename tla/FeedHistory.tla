----------------------------- MODULE FeedHistory ----------------------------
(***************************************************************************)
(* What the editor promises of a feed: its versions count upward one at a  *)
(* time, each new version puts at least one change set live, all the sets  *)
(* of a version go live in one step, and a set goes live once.  A reader   *)
(* of gtfs_feed.version and of the live rows sees nothing in between.      *)
(***************************************************************************)
EXTENDS Integers

CONSTANT Sets  \* the change sets of the feed

VARIABLES
  version,   \* gtfs_feed.version
  wentLive   \* the version each set went live as; 0 while it has not

TypeOK == version \in Nat \ {0} /\ wentLive \in [Sets -> Nat]

Init == version = 1 /\ wentLive = [s \in Sets |-> 0]

Publish(S) ==
  /\ S # {} /\ \A s \in S : wentLive[s] = 0
  /\ version' = version + 1
  /\ wentLive' = [s \in Sets |-> IF s \in S THEN version + 1 ELSE wentLive[s]]

Next == \E S \in SUBSET Sets : Publish(S)

Spec == Init /\ [][Next]_<<version, wentLive>>
=============================================================================
