----------------------------- MODULE MCFleetSync ----------------------------
(* Instances of FleetSync for TLC. *)
EXTENDS FleetSync

CONSTANTS p1, p2

(* The pods are alike: the one that dies or fails may as well be p1.         *)
TroubledNext ==
  \/ Edited \/ WaitTooLong \/ Died(p1)
  \/ \E p \in Pods :
       \/ (Moved(p) \/ Tell(p)) /\ (p # p1 => UNCHANGED trouble)
       \/ Fade(p) \/ Settle(p)

TroubledSpec == FleetInit /\ [][TroubledNext]_vars /\ FleetFairness
=============================================================================
