----------------------------- MODULE MCPodLoops -----------------------------
(* Instances for TLC of two loops in every pod that share no state: the     *)
(* queue of webhook deliveries, and the sweeps of the waybill repeater.  A  *)
(* behaviour is of one, and the other stays where it begins.                *)
EXTENDS WebhookDelivery, TLC

CONSTANTS p1, p2, d1, d2, s1, Off

VARIABLES part, config, till, duties, now, lease, walk, edits, troubles, tainted

sweepVars == <<config, till, duties, now, lease, walk, edits, troubles, tainted>>

(* A schedule with a duty to copy, and three days at most: every day or but  *)
(* the first; one edit, one death or failed statement.                       *)
Schedules == {s1}
Users == {}
Configs == {{1, 2, 3}, {2, 3}, Off}
FirstConfigs == [s \in Schedules |-> {1, 2, 3}]
FirstDuties == [s \in Schedules |-> {1}]
Ranges == {}

S == INSTANCE Repeater WITH
  LookAhead <- 1, Batch <- 1, MaxDay <- 2, MaxEdits <- 1, MaxTroubles <- 1

Queueing(A) == part = "queue" /\ A /\ UNCHANGED <<part, sweepVars>>
Sweeping(A) == part = "sweeps" /\ A /\ UNCHANGED <<part, vars>>

LoopsInit == part \in {"queue", "sweeps"} /\ Init /\ S!Init
LoopsNext == Queueing(Next) \/ Sweeping(S!Next)

loopVars == <<part, vars, sweepVars>>

LoopsSpec ==
  /\ LoopsInit /\ [][LoopsNext]_loopVars
  /\ \A p \in Pods : WF_vars(Drain(p))
  /\ \A d \in Deliveries : WF_vars(Tick(d))
  /\ \A p \in Pods : WF_loopVars(Sweeping(S!Sweeps(p)))
  /\ WF_loopVars(Sweeping(\E p \in Pods : S!Sweep(p)))
  /\ WF_loopVars(Sweeping(S!Due)) /\ WF_loopVars(Sweeping(S!Stuck))

(* A day ahead that a schedule repeats on gets its duty.                   *)
EveryDayIsFilled == part = "sweeps" => S!EveryDayIsFilled
=============================================================================
