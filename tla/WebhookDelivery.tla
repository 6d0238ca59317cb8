--------------------------- MODULE WebhookDelivery --------------------------
(***************************************************************************)
(* The queue of webhook deliveries, src/services/webhook.rs: the rows of   *)
(* gtfs_webhook_delivery, claimed, sent and settled by whichever pod gets  *)
(* to them.  A delivery is put there by a feed_in_sync verdict (module     *)
(* FleetSync), a Test or a Release.                                        *)
(*                                                                         *)
(* A pod may die holding a claim, its statement that settles one may fail, *)
(* and an answer may be lost on its way back from a receiver that acted.   *)
(***************************************************************************)
EXTENDS Integers, FiniteSets

CONSTANTS
  Pods,
  Deliveries,
  None,          \* no delivery; nobody
  MaxAttempts,   \* gtfs_webhook.max_attempts
  MaxTrouble     \* bound: deaths, failed statements and lost answers, together

ASSUME NamesAssumption == None \notin Deliveries \cup Pods
ASSUME BoundsAssumption == MaxAttempts \in Nat \ {0} /\ MaxTrouble \in Nat

VARIABLES
  status,     \* "none": not queued yet
  attempts,
  due,        \* next_attempt_at is past
  stranded,   \* claimed_at is CLAIM_STALE_SECONDS ago
  hold,       \* the claim each pod has in hand, and how far it is
  accepted,   \* how often the receiver acted on the delivery
  trouble

row == <<status, attempts, due, stranded>>
vars == <<row, hold, accepted, trouble>>

Claim == [d : Deliveries \cup {None}, attempt : Nat,
          at : {"none", "claimed", "sending", "answered"}, ok : BOOLEAN]
NoClaim == [d |-> None, attempt |-> 0, at |-> "none", ok |-> FALSE]

Statuses == {"none", "pending", "in_flight", "succeeded", "failed"}

TypeOK ==
  /\ status \in [Deliveries -> Statuses]
  /\ attempts \in [Deliveries -> Nat]
  /\ due \in [Deliveries -> BOOLEAN] /\ stranded \in [Deliveries -> BOOLEAN]
  /\ hold \in [Pods -> Claim]
  /\ accepted \in [Deliveries -> Nat]
  /\ trouble \in 0 .. MaxTrouble

Init ==
  /\ status = [d \in Deliveries |-> "none"]
  /\ attempts = [d \in Deliveries |-> 0]
  /\ due = [d \in Deliveries |-> FALSE] /\ stranded = [d \in Deliveries |-> FALSE]
  /\ hold = [p \in Pods |-> NoClaim]
  /\ accepted = [d \in Deliveries |-> 0]
  /\ trouble = 0

-----------------------------------------------------------------------------
Queue(d) ==
  /\ status[d] = "none"
  /\ status' = [status EXCEPT ![d] = "pending"]
  /\ due' = [due EXCEPT ![d] = TRUE]
  /\ UNCHANGED <<attempts, stranded, hold, accepted, trouble>>

\* mutant of ClaimOne: whatever is due, pending or not
ClaimDue(p, d) ==
  /\ hold[p] = NoClaim /\ status[d] # "none" /\ due[d]
  /\ status' = [status EXCEPT ![d] = "in_flight"]
  /\ attempts' = [attempts EXCEPT ![d] = @ + 1]
  /\ stranded' = [stranded EXCEPT ![d] = FALSE]
  /\ hold' = [hold EXCEPT ![p] = [NoClaim EXCEPT !.d = d, !.attempt = attempts[d] + 1,
                                                 !.at = "claimed"]]
  /\ UNCHANGED <<due, accepted, trouble>>

\* claim_one: one statement, FOR UPDATE SKIP LOCKED
ClaimOne(p, d) ==
  /\ hold[p] = NoClaim /\ status[d] = "pending" /\ due[d]
  /\ status' = [status EXCEPT ![d] = "in_flight"]
  /\ attempts' = [attempts EXCEPT ![d] = @ + 1]
  /\ stranded' = [stranded EXCEPT ![d] = FALSE]
  /\ hold' = [hold EXCEPT ![p] = [NoClaim EXCEPT !.d = d, !.attempt = attempts[d] + 1,
                                                 !.at = "claimed"]]
  /\ UNCHANGED <<due, accepted, trouble>>

Send(p) ==
  /\ hold[p].at = "claimed"
  /\ hold' = [hold EXCEPT ![p].at = "sending"]
  /\ UNCHANGED <<row, accepted, trouble>>

\* the receiver's own answer, or an error of the request before it got there
Answer(p, ok) ==
  /\ hold[p].at = "sending"
  /\ hold' = [hold EXCEPT ![p].at = "answered", ![p].ok = ok]
  /\ accepted' = IF ok THEN [accepted EXCEPT ![hold[p].d] = @ + 1] ELSE accepted
  /\ UNCHANGED <<row, trouble>>

\* the receiver acts, and the request times out all the same
AnswerLost(p) ==
  /\ hold[p].at = "sending" /\ trouble < MaxTrouble
  /\ hold' = [hold EXCEPT ![p].at = "answered", ![p].ok = FALSE]
  /\ accepted' = [accepted EXCEPT ![hold[p].d] = @ + 1]
  /\ trouble' = trouble + 1
  /\ UNCHANGED row

\* mutant of Outcome: the attempts are looked at before the answer
AttemptsFirst(c) ==
  IF c.attempt < MaxAttempts THEN "pending" ELSE IF c.ok THEN "succeeded" ELSE "failed"

\* mutant of Outcome: out of attempts is called what giving up on a fleet is
CalledAbandoned(c) ==
  IF c.ok THEN "succeeded" ELSE IF c.attempt >= MaxAttempts THEN "abandoned" ELSE "pending"

\* what finish makes of the delivery: done, out of attempts, or due again later
Outcome(c) ==
  IF c.ok THEN "succeeded" ELSE IF c.attempt >= MaxAttempts THEN "failed" ELSE "pending"

Finish(p) ==
  LET c == hold[p]
  IN  /\ c.at = "answered"
      /\ status' = [status EXCEPT ![c.d] = Outcome(c)]
      /\ due' = [due EXCEPT ![c.d] = FALSE]
      /\ hold' = [hold EXCEPT ![p] = NoClaim]
      /\ UNCHANGED <<attempts, stranded, accepted, trouble>>

\* finish's statement fails, or the pod dies: the claim is nobody's
LoseClaim(p) ==
  /\ hold[p] # NoClaim /\ trouble < MaxTrouble
  /\ hold' = [hold EXCEPT ![p] = NoClaim]
  /\ trouble' = trouble + 1
  /\ UNCHANGED <<row, accepted>>

\* mutant of Reclaim: a delivery out of attempts is left alone
ReclaimWithAttemptsLeft(d) ==
  /\ status[d] = "in_flight" /\ stranded[d] /\ attempts[d] < MaxAttempts
  /\ status' = [status EXCEPT ![d] = "pending"]
  /\ due' = [due EXCEPT ![d] = TRUE]
  /\ UNCHANGED <<attempts, stranded, hold, accepted, trouble>>

\* reclaim_stranded, on every pod's tick; it looks at the clock, not at attempts
Reclaim(d) ==
  /\ status[d] = "in_flight" /\ stranded[d]
  /\ status' = [status EXCEPT ![d] = "pending"]
  /\ due' = [due EXCEPT ![d] = TRUE]
  /\ UNCHANGED <<attempts, stranded, hold, accepted, trouble>>

-----------------------------------------------------------------------------
(* Time.  A claim in hand does not go stale: CLAIM_STALE_SECONDS is twice   *)
(* the longest request timeout.                                             *)
Held(d) == \E p \in Pods : hold[p].d = d

\* mutant of ClaimAges: a request may take longer than CLAIM_STALE_SECONDS
ClaimAgesInHand(d) ==
  /\ status[d] = "in_flight" /\ ~stranded[d]
  /\ stranded' = [stranded EXCEPT ![d] = TRUE]
  /\ UNCHANGED <<status, attempts, due, hold, accepted, trouble>>

ClaimAges(d) ==
  /\ status[d] = "in_flight" /\ ~stranded[d] /\ ~Held(d)
  /\ stranded' = [stranded EXCEPT ![d] = TRUE]
  /\ UNCHANGED <<status, attempts, due, hold, accepted, trouble>>

BackoffEnds(d) ==
  /\ status[d] = "pending" /\ ~due[d]
  /\ due' = [due EXCEPT ![d] = TRUE]
  /\ UNCHANGED <<status, attempts, stranded, hold, accepted, trouble>>

Drain(p) ==
  \/ \E d \in Deliveries : ClaimOne(p, d)
  \/ Send(p) \/ (\E ok \in BOOLEAN : Answer(p, ok)) \/ Finish(p)

Tick(d) == Reclaim(d) \/ ClaimAges(d) \/ BackoffEnds(d)

Next ==
  \/ \E p \in Pods : Drain(p) \/ AnswerLost(p) \/ LoseClaim(p)
  \/ \E d \in Deliveries : Queue(d) \/ Tick(d)

Spec == Init /\ [][Next]_vars

(* Every pod's poll loop runs the dispatcher, and time passes.              *)
FairSpec ==
  /\ Spec
  /\ \A p \in Pods : WF_vars(Drain(p))
  /\ \A d \in Deliveries : WF_vars(Tick(d))

-----------------------------------------------------------------------------
(* A delivery is in one pod's hands at a time (claim_one, reclaim_stranded, *)
(* finish): a request on its way is never sent by another pod too.          *)
OneHolder ==
  /\ \A p, q \in Pods : hold[p].d # None /\ hold[p].d = hold[q].d => p = q
  /\ \A p \in Pods : hold[p].d # None => status[hold[p].d] = "in_flight" /\ ~stranded[hold[p].d]

(* The receiver acts once, and once more for each claim or answer lost:     *)
(* nothing else makes a duplicate, and what is recorded as delivered was.   *)
Excess(d) == IF accepted[d] = 0 THEN 0 ELSE accepted[d] - 1

NoNeedlessDuplicate ==
  /\ \A d \in Deliveries : Excess(d) <= trouble
  /\ \A d \in Deliveries : status[d] = "succeeded" => accepted[d] > 0
  /\ \A d \in Deliveries : status[d] = "failed" => attempts[d] >= MaxAttempts

(* What is settled stays so, and is not sent again.                         *)
SettledForGood ==
  [][\A d \in Deliveries :
       status[d] \in {"succeeded", "failed"} =>
         status'[d] = status[d] /\ accepted'[d] = accepted[d]]_vars

(* A kill costs a retry, not a delivery: whatever is queued is settled.     *)
EveryDeliveryIsSettled ==
  \A d \in Deliveries : status[d] = "pending" ~> status[d] \in {"succeeded", "failed"}
=============================================================================
