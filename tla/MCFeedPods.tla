----------------------------- MODULE MCFeedPods -----------------------------
(* Instances of FeedPods for TLC. *)
EXTENDS FeedPods, TLC

CONSTANTS p1, p2
=============================================================================
