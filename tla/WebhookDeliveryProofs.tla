------------------------ MODULE WebhookDeliveryProofs -----------------------
(***************************************************************************)
(* What WebhookDelivery promises of a delivery at every moment, for any    *)
(* number of pods, deliveries and attempts.                                *)
(***************************************************************************)
EXTENDS WebhookDelivery, TLAPS

\* a pod has nothing in hand, or is somewhere with a delivery
HandInv ==
  \A p \in Pods : \/ hold[p] = NoClaim
                  \/ hold[p].d \in Deliveries /\ hold[p].at # "none"

\* p has the receiver's yes for d, and has not written it down
HasYes(p, d) == hold[p].d = d /\ hold[p].at = "answered" /\ hold[p].ok

Earned(d) == status[d] = "succeeded" \/ \E p \in Pods : HasYes(p, d)

(* The receiver acted once for each trouble, and once for the success, if   *)
(* there is one; the attempts a claim knows of were made.                   *)
Accounts ==
  /\ \A d \in Deliveries : accepted[d] <= trouble + 1
  /\ \A d \in Deliveries : ~Earned(d) => accepted[d] <= trouble
  /\ \A d \in Deliveries : Earned(d) => accepted[d] > 0
  /\ \A p \in Pods : hold[p].d # None => hold[p].attempt <= attempts[hold[p].d]
  /\ \A d \in Deliveries : status[d] = "failed" => attempts[d] >= MaxAttempts

-----------------------------------------------------------------------------
(* Types                                                                   *)
LEMMA NoClaimType == NoClaim \in Claim /\ NoClaim.d = None /\ NoClaim.at = "none"
BY DEF NoClaim, Claim

\* a claim with one field changed
WithOf(c, d) == [c EXCEPT !.d = d]
WithAttempt(c, n) == [c EXCEPT !.attempt = n]
WithAt(c, a) == [c EXCEPT !.at = a]
WithOk(c, ok) == [c EXCEPT !.ok = ok]

\* the claim ClaimOne makes
Taken(d, n) == [NoClaim EXCEPT !.d = d, !.attempt = n, !.at = "claimed"]

LEMMA TakenType ==
  ASSUME NEW d \in Deliveries, NEW n \in Nat
  PROVE  /\ Taken(d, n) \in Claim
         /\ Taken(d, n).d = d /\ Taken(d, n).attempt = n /\ Taken(d, n).at = "claimed"
<1>1. Taken(d, n) = WithAt(WithAttempt(WithOf(NoClaim, d), n), "claimed")
  BY DEF Taken, WithOf, WithAttempt, WithAt
<1>2. WithOf(NoClaim, d) \in Claim /\ WithOf(NoClaim, d).d = d
  BY DEF WithOf, NoClaim, Claim
<1>3. ASSUME NEW c \in Claim
      PROVE  WithAttempt(c, n) \in Claim /\ WithAttempt(c, n).d = c.d
             /\ WithAttempt(c, n).attempt = n
  BY DEF WithAttempt, Claim
<1>4. ASSUME NEW c \in Claim
      PROVE  WithAt(c, "claimed") \in Claim /\ WithAt(c, "claimed").d = c.d
             /\ WithAt(c, "claimed").attempt = c.attempt /\ WithAt(c, "claimed").at = "claimed"
  BY DEF WithAt, Claim
<1> QED
  BY <1>1, <1>2, <1>3, <1>4

\* the claim an answer makes of c
Answered(c, ok) == [c EXCEPT !.at = "answered", !.ok = ok]

LEMMA AnsweredType ==
  ASSUME NEW c \in Claim, NEW ok \in BOOLEAN
  PROVE  /\ Answered(c, ok) \in Claim
         /\ Answered(c, ok).d = c.d /\ Answered(c, ok).attempt = c.attempt
         /\ Answered(c, ok).at = "answered" /\ Answered(c, ok).ok = ok
<1>1. Answered(c, ok) = WithOk(WithAt(c, "answered"), ok)
  BY DEF Answered, WithAt, WithOk
<1>2. /\ WithAt(c, "answered") \in Claim /\ WithAt(c, "answered").d = c.d
      /\ WithAt(c, "answered").attempt = c.attempt /\ WithAt(c, "answered").at = "answered"
  BY DEF WithAt, Claim
<1>3. ASSUME NEW e \in Claim
      PROVE  WithOk(e, ok) \in Claim /\ WithOk(e, ok).d = e.d
             /\ WithOk(e, ok).attempt = e.attempt /\ WithOk(e, ok).at = e.at
             /\ WithOk(e, ok).ok = ok
  BY DEF WithOk, Claim
<1> QED
  BY <1>1, <1>2, <1>3

(* Each step of a pod seen as what it makes of its claim.                   *)
LEMMA Claims ==
  ASSUME NEW p \in Pods, NEW d \in Deliveries, TypeOK, HandInv, ClaimOne(p, d)
  PROVE  /\ hold' = [hold EXCEPT ![p] = Taken(d, attempts[d] + 1)]
         /\ hold[p] = NoClaim /\ status[d] = "pending"
BY DEF ClaimOne, Taken

LEMMA Sends ==
  ASSUME NEW p \in Pods, TypeOK, HandInv, Send(p)
  PROVE  /\ hold' = [hold EXCEPT ![p] = [hold[p] EXCEPT !.at = "sending"]]
         /\ hold[p].at = "claimed" /\ hold[p].d \in Deliveries /\ hold[p] \in Claim
BY NoClaimType DEF Send, TypeOK, HandInv

LEMMA Answers ==
  ASSUME NEW p \in Pods, NEW ok \in BOOLEAN, TypeOK, HandInv,
         hold[p].at = "sending",
         hold' = [hold EXCEPT ![p].at = "answered", ![p].ok = ok]
  PROVE  /\ hold' = [hold EXCEPT ![p] = Answered(hold[p], ok)]
         /\ hold[p].d \in Deliveries /\ hold[p] \in Claim
<1>1. hold[p].d \in Deliveries /\ hold[p] \in Claim
  BY NoClaimType DEF TypeOK, HandInv
<1> QED
  BY <1>1 DEF Answered, TypeOK

LEMMA TypeInit == Init => TypeOK /\ HandInv
BY NoClaimType, BoundsAssumption DEF Init, TypeOK, HandInv, Statuses

LEMMA TypeStep == TypeOK /\ HandInv /\ [Next]_vars => TypeOK' /\ HandInv'
<1> SUFFICES ASSUME TypeOK, HandInv, [Next]_vars PROVE TypeOK' /\ HandInv'
  OBVIOUS
<1> USE BoundsAssumption
<1>1. ASSUME NEW p \in Pods, NEW d \in Deliveries, ClaimOne(p, d) PROVE TypeOK' /\ HandInv'
  <2>1. hold' = [hold EXCEPT ![p] = Taken(d, attempts[d] + 1)] /\ attempts[d] + 1 \in Nat
    BY <1>1, Claims DEF TypeOK
  <2> QED
    BY <1>1, <2>1, TakenType DEF ClaimOne, TypeOK, HandInv, Statuses
<1>2. ASSUME NEW p \in Pods, Send(p) PROVE TypeOK' /\ HandInv'
  BY <1>2, Sends DEF Send, TypeOK, HandInv, Claim, row
<1>3. ASSUME NEW p \in Pods, NEW ok \in BOOLEAN, Answer(p, ok) PROVE TypeOK' /\ HandInv'
  <2>1. hold' = [hold EXCEPT ![p] = Answered(hold[p], ok)]
        /\ hold[p].d \in Deliveries /\ hold[p] \in Claim
    BY <1>3, Answers DEF Answer
  <2>2. Answered(hold[p], ok) \in Claim /\ Answered(hold[p], ok).d = hold[p].d
        /\ Answered(hold[p], ok).at = "answered"
    BY <2>1, AnsweredType
  <2>3. HandInv'
    BY <2>1, <2>2 DEF HandInv, TypeOK
  <2>4. /\ accepted' = IF ok THEN [accepted EXCEPT ![hold[p].d] = @ + 1] ELSE accepted
        /\ UNCHANGED <<row, trouble>>
    BY <1>3 DEF Answer
  <2> QED
    BY <2>1, <2>2, <2>3, <2>4 DEF TypeOK, row
<1>4. ASSUME NEW p \in Pods, AnswerLost(p) PROVE TypeOK' /\ HandInv'
  <2>1. hold' = [hold EXCEPT ![p] = Answered(hold[p], FALSE)]
        /\ hold[p].d \in Deliveries /\ hold[p] \in Claim
    BY <1>4, Answers DEF AnswerLost
  <2>2. Answered(hold[p], FALSE) \in Claim /\ Answered(hold[p], FALSE).d = hold[p].d
        /\ Answered(hold[p], FALSE).at = "answered"
    BY <2>1, AnsweredType
  <2>3. HandInv'
    BY <2>1, <2>2 DEF HandInv, TypeOK
  <2>4. /\ accepted' = [accepted EXCEPT ![hold[p].d] = @ + 1] /\ UNCHANGED row
        /\ trouble < MaxTrouble /\ trouble' = trouble + 1
    BY <1>4 DEF AnswerLost
  <2>5. trouble' \in 0 .. MaxTrouble
    BY <2>4 DEF TypeOK
  <2>6. hold' \in [Pods -> Claim]
    BY <2>1, <2>2 DEF TypeOK
  <2>7. accepted' \in [Deliveries -> Nat]
    BY <2>1, <2>4 DEF TypeOK
  <2> QED
    BY <2>3, <2>4, <2>5, <2>6, <2>7 DEF TypeOK, row
<1>5. ASSUME NEW p \in Pods, Finish(p) PROVE TypeOK' /\ HandInv'
  BY <1>5, NoClaimType DEF Finish, Outcome, TypeOK, HandInv, Statuses
<1>6. ASSUME NEW p \in Pods, LoseClaim(p) PROVE TypeOK' /\ HandInv'
  BY <1>6, NoClaimType DEF LoseClaim, TypeOK, HandInv, row
<1>7. ASSUME NEW d \in Deliveries, Queue(d) \/ Tick(d) PROVE TypeOK' /\ HandInv'
  BY <1>7 DEF Queue, Tick, Reclaim, ClaimAges, BackoffEnds, TypeOK, HandInv, Statuses
<1>8. CASE UNCHANGED vars
  BY <1>8 DEF vars, row, TypeOK, HandInv
<1> QED
  BY <1>1, <1>2, <1>3, <1>4, <1>5, <1>6, <1>7, <1>8 DEF Next, Drain

(* Every variable of the queue keeps its type: a delivery is in one of the  *)
(* states the table's check constraint names (finish, reclaim_stranded).    *)
THEOREM TypeCorrect == Spec => []TypeOK
BY TypeInit, TypeStep, PTL DEF Spec

-----------------------------------------------------------------------------
(* One holder                                                              *)
LEMMA OneHolderStep ==
  TypeOK /\ HandInv /\ OneHolder /\ [Next]_vars => OneHolder'
<1> SUFFICES ASSUME TypeOK, HandInv, OneHolder, [Next]_vars PROVE OneHolder'
  OBVIOUS
<1> USE NamesAssumption DEF OneHolder
<1>1. ASSUME NEW p \in Pods, NEW d \in Deliveries, ClaimOne(p, d) PROVE OneHolder'
  <2>1. /\ hold' = [hold EXCEPT ![p] = Taken(d, attempts[d] + 1)] /\ attempts[d] + 1 \in Nat
        /\ status[d] = "pending"
    BY <1>1, Claims DEF TypeOK
  <2>2. hold'[p].d = d /\ \A q \in Pods \ {p} : hold'[q] = hold[q] /\ hold[q].d # d
    BY <2>1, TakenType DEF TypeOK
  <2> QED
    BY <1>1, <2>2 DEF ClaimOne, TypeOK
\* p keeps its delivery and the rows stay
<1>2. ASSUME NEW p \in Pods, NEW c \in Claim, hold' = [hold EXCEPT ![p] = c], c.d = hold[p].d,
             UNCHANGED row
      PROVE  OneHolder'
  BY <1>2 DEF TypeOK, row
<1>3. ASSUME NEW p \in Pods, Send(p) PROVE OneHolder'
  <2>1. [hold[p] EXCEPT !.at = "sending"] \in Claim
        /\ [hold[p] EXCEPT !.at = "sending"].d = hold[p].d
    BY <1>3, Sends DEF Claim
  <2> QED
    BY <1>2, <1>3, <2>1, Sends DEF Send
<1>4. ASSUME NEW p \in Pods, NEW ok \in BOOLEAN, Answer(p, ok) PROVE OneHolder'
  BY <1>2, <1>4, Answers, AnsweredType DEF Answer
<1>5. ASSUME NEW p \in Pods, AnswerLost(p) PROVE OneHolder'
  BY <1>2, <1>5, Answers, AnsweredType DEF AnswerLost
<1>6. ASSUME NEW p \in Pods, Finish(p) PROVE OneHolder'
  <2>1. hold'[p].d = None /\ \A q \in Pods \ {p} : hold'[q] = hold[q]
    BY <1>6, NoClaimType DEF Finish, TypeOK
  <2>2. hold[p].d \in Deliveries
    BY <1>6, NoClaimType DEF Finish, HandInv
  <2> QED
    BY <1>6, <2>1, <2>2 DEF Finish, TypeOK
<1>7. ASSUME NEW p \in Pods, LoseClaim(p) PROVE OneHolder'
  BY <1>7, NoClaimType DEF LoseClaim, TypeOK, row
<1>8. ASSUME NEW d \in Deliveries, Queue(d) \/ Tick(d) PROVE OneHolder'
  <2>1. \A p \in Pods : hold[p].d # None => hold[p].d \in Deliveries
    BY NoClaimType DEF HandInv
  <2>2. CASE Queue(d)
    BY <2>1, <2>2 DEF Queue, TypeOK
  <2>3. CASE Reclaim(d)
    BY <2>1, <2>3 DEF Reclaim, TypeOK
  <2>4. CASE ClaimAges(d)
    BY <2>1, <2>4 DEF ClaimAges, Held, TypeOK
  <2>5. CASE BackoffEnds(d)
    BY <2>1, <2>5 DEF BackoffEnds, TypeOK
  <2> QED
    BY <1>8, <2>2, <2>3, <2>4, <2>5 DEF Tick
<1>9. CASE UNCHANGED vars
  BY <1>9 DEF vars, row
<1> QED
  BY <1>1, <1>3, <1>4, <1>5, <1>6, <1>7, <1>8, <1>9 DEF Next, Drain

LEMMA Held1 == Spec => [](TypeOK /\ HandInv /\ OneHolder)
<1>1. Init => OneHolder
  BY NoClaimType DEF Init, OneHolder
<1> QED
  BY <1>1, TypeInit, TypeStep, OneHolderStep, PTL DEF Spec

(* No two pods hold one delivery, and the row of a held one says in_flight  *)
(* (claim_one, reclaim_stranded, finish).                                   *)
THEOREM OneHolderHolds == Spec => []OneHolder
BY Held1, PTL

-----------------------------------------------------------------------------
(* Settled                                                                 *)

(* A delivery that succeeded or failed is not claimed, sent or settled      *)
(* again: whoever is to write to its row holds it, and a held one is        *)
(* in_flight.                                                               *)
THEOREM SettledForGoodHolds == Spec => SettledForGood
<1> DEFINE Done(d) == status[d] \in {"succeeded", "failed"}
           Kept(d) == status'[d] = status[d] /\ accepted'[d] = accepted[d]
<1>1. ASSUME TypeOK, HandInv, OneHolder, [Next]_vars, NEW d \in Deliveries, Done(d)
      PROVE  Kept(d)
  <2> USE <1>1
  <2>1. \A p \in Pods : hold[p].at # "none" =>
          hold[p].d \in Deliveries /\ status[hold[p].d] = "in_flight"
    BY NoClaimType, NamesAssumption DEF HandInv, OneHolder
  <2>2. ASSUME NEW p \in Pods, NEW e \in Deliveries, ClaimOne(p, e) PROVE Kept(d)
    BY <2>2 DEF ClaimOne, TypeOK
  <2>3. ASSUME NEW p \in Pods, Send(p) PROVE Kept(d)
    BY <2>3 DEF Send, row
  <2>4. ASSUME NEW p \in Pods, NEW ok \in BOOLEAN, Answer(p, ok) PROVE Kept(d)
    <3>1. /\ hold[p].at = "sending" /\ status' = status
          /\ accepted' = IF ok THEN [accepted EXCEPT ![hold[p].d] = @ + 1] ELSE accepted
      BY <2>4 DEF Answer, row
    <3> QED
      BY <2>1, <3>1 DEF TypeOK
  <2>5. ASSUME NEW p \in Pods, AnswerLost(p) PROVE Kept(d)
    <3>1. /\ hold[p].at = "sending" /\ status' = status
          /\ accepted' = [accepted EXCEPT ![hold[p].d] = @ + 1]
      BY <2>5 DEF AnswerLost, row
    <3> QED
      BY <2>1, <3>1 DEF TypeOK
  <2>6. ASSUME NEW p \in Pods, Finish(p) PROVE Kept(d)
    BY <2>1, <2>6 DEF Finish, TypeOK
  <2>7. ASSUME NEW p \in Pods, LoseClaim(p) PROVE Kept(d)
    BY <2>7 DEF LoseClaim, row
  <2>8. ASSUME NEW e \in Deliveries, Queue(e) \/ Tick(e) PROVE Kept(d)
    BY <2>8 DEF Queue, Tick, Reclaim, ClaimAges, BackoffEnds, TypeOK
  <2>9. CASE UNCHANGED vars
    BY <2>9 DEF vars, row
  <2> QED
    BY <2>2, <2>3, <2>4, <2>5, <2>6, <2>7, <2>8, <2>9 DEF Next, Drain
<1>2. TypeOK /\ HandInv /\ OneHolder /\ [Next]_vars =>
        [\A d \in Deliveries : Done(d) => Kept(d)]_vars
  BY <1>1
<1> QED
  BY <1>2, Held1, PTL DEF Spec, SettledForGood
-----------------------------------------------------------------------------
(* Accounts                                                                *)

\* finish calls a delivery succeeded just when the receiver said yes
LEMMA OutcomeSucceeds ==
  ASSUME NEW p \in Pods, TypeOK
  PROVE  Outcome(hold[p]) = "succeeded" <=> hold[p].ok
<1>1. hold[p].ok \in BOOLEAN
  BY DEF TypeOK, Claim
<1>2. CASE hold[p].ok
  BY <1>2 DEF Outcome
<1>3. CASE ~hold[p].ok
  BY <1>3 DEF Outcome
<1> QED
  BY <1>1, <1>2, <1>3

LEMMA AccountsStep ==
  TypeOK /\ HandInv /\ OneHolder /\ Accounts /\ [Next]_vars => Accounts'
<1> SUFFICES ASSUME TypeOK, HandInv, OneHolder, Accounts, [Next]_vars PROVE Accounts'
  OBVIOUS
<1> USE BoundsAssumption, NamesAssumption
<1>1. \A p \in Pods : hold[p].at # "none" =>
        /\ hold[p].d \in Deliveries /\ status[hold[p].d] = "in_flight"
        /\ \A q \in Pods \ {p} : hold[q].d # hold[p].d
  BY NoClaimType DEF HandInv, OneHolder
\* a step after which as many deliveries are earned, and no more were accepted
<1>2. ASSUME \A d \in Deliveries : Earned(d)' <=> Earned(d),
             UNCHANGED <<accepted, trouble>>,
             \A p \in Pods : hold'[p].d # None => hold'[p].attempt <= attempts'[hold'[p].d],
             \A d \in Deliveries : status'[d] = "failed" => attempts'[d] >= MaxAttempts
      PROVE  Accounts'
  BY <1>2 DEF Accounts
\* p, with no yes in hand, comes to hold a claim without one
<1>3. ASSUME NEW p \in Pods, hold[p].at # "answered", NEW c \in Claim,
             hold' = [hold EXCEPT ![p] = c], c.at = "answered" => ~c.ok,
             \A d \in Deliveries : status'[d] = "succeeded" <=> status[d] = "succeeded"
      PROVE  \A d \in Deliveries : Earned(d)' <=> Earned(d)
  <2>1. hold'[p] = c /\ \A q \in Pods \ {p} : hold'[q] = hold[q]
    BY <1>3 DEF TypeOK
  <2>2. \A d \in Deliveries, q \in Pods : HasYes(q, d)' <=> HasYes(q, d)
    BY <1>3, <2>1 DEF HasYes
  <2> QED
    BY <1>3, <2>2 DEF Earned
<1>4. ASSUME NEW p \in Pods, NEW e \in Deliveries, ClaimOne(p, e) PROVE Accounts'
  <2> DEFINE c == Taken(e, attempts[e] + 1)
  <2>0. attempts[e] + 1 \in Nat
    BY DEF TypeOK
  <2>1. /\ hold' = [hold EXCEPT ![p] = c] /\ hold[p] = NoClaim
        /\ c \in Claim /\ c.d = e /\ c.attempt = attempts[e] + 1 /\ c.at = "claimed"
    BY <1>4, <2>0, Claims, TakenType
  <2>2. /\ status[e] = "pending" /\ status' = [status EXCEPT ![e] = "in_flight"]
        /\ attempts' = [attempts EXCEPT ![e] = @ + 1] /\ UNCHANGED <<accepted, trouble>>
    BY <1>4 DEF ClaimOne
  <2>3. \A d \in Deliveries : status'[d] = "succeeded" <=> status[d] = "succeeded"
    BY <2>2 DEF TypeOK
  <2>4. \A d \in Deliveries : Earned(d)' <=> Earned(d)
    <3> HIDE DEF c
    <3> QED
      BY <1>3, <2>1, <2>3, NoClaimType
  <2>5. /\ hold'[p].d = e /\ hold'[p].attempt = attempts[e] + 1
        /\ \A q \in Pods \ {p} : hold'[q] = hold[q] /\ hold[q] \in Claim
    BY <2>1 DEF TypeOK
  <2>6. \A d \in Deliveries : attempts[d] \in Nat /\ attempts'[d] >= attempts[d]
                             /\ attempts'[e] = attempts[e] + 1
    BY <2>2 DEF TypeOK
  <2>7. \A q \in Pods : hold'[q].d # None => hold'[q].attempt <= attempts'[hold'[q].d]
    <3> SUFFICES ASSUME NEW q \in Pods \ {p}, hold[q].d # None
                 PROVE  hold[q].attempt <= attempts'[hold[q].d]
      BY <2>5, <2>6
    <3>1. hold[q].d \in Deliveries /\ hold[q].attempt \in Nat
      BY <2>5 DEF Claim
    <3>2. attempts'[hold[q].d] \in Nat
      BY <2>2, <3>1 DEF TypeOK
    <3> QED
      BY <2>6, <3>1, <3>2 DEF Accounts
  <2>8. \A d \in Deliveries : status'[d] = "failed" => attempts'[d] >= MaxAttempts
    BY <2>2 DEF TypeOK, Accounts
  <2> HIDE DEF c
  <2> QED
    BY <1>2, <2>2, <2>4, <2>7, <2>8
\* a step of p that changes its claim's place and answer only
<1>5. ASSUME NEW p \in Pods, NEW c \in Claim, hold' = [hold EXCEPT ![p] = c],
             c.d = hold[p].d, c.attempt = hold[p].attempt, UNCHANGED row
      PROVE  /\ \A q \in Pods : hold'[q].d # None => hold'[q].attempt <= attempts'[hold'[q].d]
             /\ \A d \in Deliveries : status'[d] = "failed" => attempts'[d] >= MaxAttempts
             /\ \A d \in Deliveries : status'[d] = "succeeded" <=> status[d] = "succeeded"
  BY <1>5 DEF TypeOK, Accounts, row
<1>6. ASSUME NEW p \in Pods, Send(p) PROVE Accounts'
  <2> DEFINE c == WithAt(hold[p], "sending")
  <2>1. hold' = [hold EXCEPT ![p] = c] /\ hold[p].at = "claimed" /\ hold[p] \in Claim
    BY <1>6, Sends DEF WithAt
  <2>2. c \in Claim /\ c.d = hold[p].d /\ c.attempt = hold[p].attempt /\ c.at = "sending"
    BY <2>1 DEF WithAt, Claim
  <2>3. UNCHANGED <<row, accepted, trouble>>
    BY <1>6 DEF Send
  <2> HIDE DEF c
  <2>4. \A d \in Deliveries : Earned(d)' <=> Earned(d)
    BY <1>3, <1>5, <2>1, <2>2, <2>3
  <2> QED
    BY <1>2, <1>5, <2>1, <2>2, <2>3, <2>4
<1>7. ASSUME NEW p \in Pods, NEW ok \in BOOLEAN, hold[p].at = "sending", UNCHANGED row,
             hold' = [hold EXCEPT ![p].at = "answered", ![p].ok = ok]
      PROVE  /\ hold[p].d \in Deliveries
             /\ \A q \in Pods : hold'[q].d # None => hold'[q].attempt <= attempts'[hold'[q].d]
             /\ \A d \in Deliveries : status'[d] = "failed" => attempts'[d] >= MaxAttempts
             /\ \A d \in Deliveries : d # hold[p].d \/ ~ok => (Earned(d)' <=> Earned(d))
             /\ \A d \in Deliveries : d = hold[p].d /\ ok => Earned(d)' /\ ~Earned(d)
  <2> DEFINE c == Answered(hold[p], ok)
  <2>1. hold' = [hold EXCEPT ![p] = c] /\ hold[p].d \in Deliveries /\ hold[p] \in Claim
    BY <1>7, Answers
  <2>2. c \in Claim /\ c.d = hold[p].d /\ c.attempt = hold[p].attempt
        /\ c.at = "answered" /\ c.ok = ok
    BY <2>1, AnsweredType
  <2> HIDE DEF c
  <2>3. hold'[p] = c /\ \A q \in Pods \ {p} : hold'[q] = hold[q]
    BY <2>1 DEF TypeOK
  <2>4. /\ status' = status /\ status[hold[p].d] = "in_flight"
        /\ \A q \in Pods \ {p} : hold[q].d # hold[p].d
    BY <1>1, <1>7 DEF row
  <2>5. \A d \in Deliveries, q \in Pods :
          d # hold[p].d \/ ~ok => (HasYes(q, d)' <=> HasYes(q, d))
    BY <1>7, <2>2, <2>3 DEF HasYes
  <2>6. \A d \in Deliveries : d # hold[p].d \/ ~ok => (Earned(d)' <=> Earned(d))
    BY <2>4, <2>5 DEF Earned
  <2>7. \A d \in Deliveries : d = hold[p].d /\ ok => Earned(d)' /\ ~Earned(d)
    BY <1>7, <2>2, <2>3, <2>4 DEF Earned, HasYes
  <2> QED
    BY <1>5, <1>7, <2>1, <2>2, <2>6, <2>7
<1>8. ASSUME NEW p \in Pods, NEW ok \in BOOLEAN, Answer(p, ok) PROVE Accounts'
  <2> DEFINE e == hold[p].d
  <2>1. /\ hold[p].at = "sending" /\ UNCHANGED <<row, trouble>>
        /\ hold' = [hold EXCEPT ![p].at = "answered", ![p].ok = ok]
        /\ accepted' = IF ok THEN [accepted EXCEPT ![e] = @ + 1] ELSE accepted
    BY <1>8 DEF Answer
  <2>2. /\ e \in Deliveries
        /\ \A q \in Pods : hold'[q].d # None => hold'[q].attempt <= attempts'[hold'[q].d]
        /\ \A d \in Deliveries : status'[d] = "failed" => attempts'[d] >= MaxAttempts
        /\ \A d \in Deliveries : d # e \/ ~ok => (Earned(d)' <=> Earned(d))
        /\ \A d \in Deliveries : d = e /\ ok => Earned(d)' /\ ~Earned(d)
    BY <1>7, <2>1
  <2> HIDE DEF e
  <2>3. \A d \in Deliveries : accepted[d] \in Nat /\ trouble \in Nat
          /\ accepted'[d] = accepted[d] + IF d = e /\ ok THEN 1 ELSE 0
    BY <2>1, <2>2 DEF TypeOK
  <2>4. ASSUME NEW d \in Deliveries
        PROVE  /\ accepted'[d] <= trouble' + 1
               /\ ~Earned(d)' => accepted'[d] <= trouble'
               /\ Earned(d)' => accepted'[d] > 0
    <3>1. trouble' = trouble /\ accepted[d] \in Nat /\ trouble \in Nat
      BY <2>1, <2>3
    <3>2. CASE d = e /\ ok
      <4>1. Earned(d)' /\ ~Earned(d) /\ accepted'[d] = accepted[d] + 1
        BY <2>2, <2>3, <3>2
      <4> QED
        BY <3>1, <4>1 DEF Accounts
    <3>3. CASE ~(d = e /\ ok)
      <4>1. (Earned(d)' <=> Earned(d)) /\ accepted'[d] = accepted[d]
        BY <2>2, <2>3, <3>1, <3>3
      <4> QED
        BY <3>1, <4>1 DEF Accounts
    <3> QED
      BY <3>2, <3>3
  <2> QED
    BY <2>2, <2>4 DEF Accounts
<1>9. ASSUME NEW p \in Pods, AnswerLost(p) PROVE Accounts'
  <2> DEFINE e == hold[p].d
  <2>1. /\ hold[p].at = "sending" /\ UNCHANGED row /\ trouble' = trouble + 1
        /\ hold' = [hold EXCEPT ![p].at = "answered", ![p].ok = FALSE]
        /\ accepted' = [accepted EXCEPT ![e] = @ + 1]
    BY <1>9 DEF AnswerLost
  <2>2. /\ e \in Deliveries
        /\ \A q \in Pods : hold'[q].d # None => hold'[q].attempt <= attempts'[hold'[q].d]
        /\ \A d \in Deliveries : status'[d] = "failed" => attempts'[d] >= MaxAttempts
        /\ \A d \in Deliveries : Earned(d)' <=> Earned(d)
    BY <1>7, <2>1
  <2> HIDE DEF e
  <2>3. \A d \in Deliveries : accepted[d] \in Nat /\ trouble \in Nat
          /\ accepted'[d] = accepted[d] + IF d = e THEN 1 ELSE 0
    BY <2>1, <2>2 DEF TypeOK
  <2>4. ASSUME NEW d \in Deliveries
        PROVE  /\ accepted'[d] <= trouble' + 1
               /\ ~Earned(d)' => accepted'[d] <= trouble'
               /\ Earned(d)' => accepted'[d] > 0
    BY <2>1, <2>2, <2>3 DEF Accounts
  <2> QED
    BY <2>1, <2>2, <2>3, <2>4 DEF Accounts
<1>10. ASSUME NEW p \in Pods, hold' = [hold EXCEPT ![p] = NoClaim]
       PROVE  /\ hold'[p] = NoClaim /\ \A q \in Pods \ {p} : hold'[q] = hold[q]
              /\ \A q \in Pods, d \in Deliveries :
                   HasYes(q, d)' <=> q # p /\ HasYes(q, d)
  <2>1. hold'[p] = NoClaim /\ \A q \in Pods \ {p} : hold'[q] = hold[q]
    BY <1>10 DEF TypeOK
  <2> QED
    BY <2>1, NoClaimType DEF HasYes
<1>11. ASSUME NEW p \in Pods, Finish(p) PROVE Accounts'
  <2> DEFINE e == hold[p].d
  <2>1. /\ hold[p].at = "answered" /\ hold' = [hold EXCEPT ![p] = NoClaim]
        /\ status' = [status EXCEPT ![e] = Outcome(hold[p])]
        /\ UNCHANGED <<attempts, accepted, trouble>>
    BY <1>11 DEF Finish
  <2>2. /\ e \in Deliveries /\ status[e] = "in_flight"
        /\ \A q \in Pods \ {p} : hold[q].d # e
    BY <1>1, <2>1
  <2>3. /\ status'[e] = Outcome(hold[p])
        /\ \A d \in Deliveries \ {e} : status'[d] = status[d]
    BY <2>1, <2>2 DEF TypeOK
  <2>4. Outcome(hold[p]) = "succeeded" <=> hold[p].ok
    BY OutcomeSucceeds
  <2>5. \A d \in Deliveries : Earned(d)' <=> Earned(d)
    <3> SUFFICES ASSUME NEW d \in Deliveries PROVE Earned(d)' <=> Earned(d)
      OBVIOUS
    <3>1. CASE d = e
      <4>1. \A q \in Pods : ~HasYes(q, d)'
        <5>1. \A q \in Pods \ {p} : ~HasYes(q, d)
          BY <2>2, <3>1 DEF HasYes
        <5> QED
          BY <1>10, <2>1, <5>1
      <4>2. Earned(d)' <=> hold[p].ok
        BY <2>3, <2>4, <3>1, <4>1 DEF Earned
      <4>3. Earned(d) <=> hold[p].ok
        BY <2>1, <2>2, <3>1 DEF Earned, HasYes
      <4> QED
        BY <4>2, <4>3
    <3>2. CASE d # e
      <4>1. \A q \in Pods : HasYes(q, d)' <=> HasYes(q, d)
        <5>1. ~HasYes(p, d)
          BY <3>2 DEF HasYes
        <5> QED
          BY <1>10, <2>1, <5>1
      <4> QED
        BY <2>3, <3>2, <4>1 DEF Earned
    <3> QED
      BY <3>1, <3>2
  <2>6. \A q \in Pods : hold'[q].d # None => hold'[q].attempt <= attempts'[hold'[q].d]
    BY <1>10, <2>1, NoClaimType DEF Accounts
  <2>7. hold[p].attempt \in Nat /\ attempts[e] \in Nat /\ hold[p].attempt <= attempts[e]
    BY <2>2 DEF TypeOK, Claim, Accounts
  <2>8. \A d \in Deliveries : status'[d] = "failed" => attempts'[d] >= MaxAttempts
    BY <2>1, <2>3, <2>7 DEF Outcome, Accounts
  <2> QED
    BY <1>2, <2>1, <2>5, <2>6, <2>8
<1>12. ASSUME NEW p \in Pods, LoseClaim(p) PROVE Accounts'
  <2>1. /\ hold' = [hold EXCEPT ![p] = NoClaim] /\ trouble' = trouble + 1
        /\ UNCHANGED <<row, accepted>>
    BY <1>12 DEF LoseClaim
  <2>2. \A d \in Deliveries : Earned(d)' => Earned(d)
    BY <1>10, <2>1 DEF Earned, row
  <2>3. \A q \in Pods : hold'[q].d # None => hold'[q].attempt <= attempts'[hold'[q].d]
    BY <1>10, <2>1, NoClaimType DEF Accounts, row
  <2>4. \A d \in Deliveries : accepted[d] \in Nat /\ trouble \in Nat
    BY DEF TypeOK
  <2> QED
    BY <2>1, <2>2, <2>3, <2>4 DEF Accounts, row
<1>13. ASSUME NEW e \in Deliveries, Queue(e) \/ Tick(e) PROVE Accounts'
  <2>1. /\ UNCHANGED <<attempts, hold, accepted, trouble>>
        /\ \A d \in Deliveries : \/ status'[d] = status[d]
                                 \/ status[d] \in {"none", "in_flight"} /\ status'[d] = "pending"
    <3>1. \/ UNCHANGED status
          \/ status[e] \in {"none", "in_flight"} /\ status' = [status EXCEPT ![e] = "pending"]
      BY <1>13 DEF Queue, Tick, Reclaim, ClaimAges, BackoffEnds
    <3>2. UNCHANGED <<attempts, hold, accepted, trouble>>
      BY <1>13 DEF Queue, Tick, Reclaim, ClaimAges, BackoffEnds
    <3>3. ASSUME NEW d \in Deliveries
          PROVE  \/ status'[d] = status[d]
                 \/ status[d] \in {"none", "in_flight"} /\ status'[d] = "pending"
      <4>1. CASE d = e
        BY <3>1, <4>1 DEF TypeOK
      <4>2. CASE d # e
        BY <3>1, <4>2 DEF TypeOK
      <4> QED
        BY <4>1, <4>2
    <3> QED
      BY <3>2, <3>3
  <2>2. \A d \in Deliveries : Earned(d)' <=> Earned(d)
    BY <2>1 DEF Earned, HasYes
  <2> QED
    BY <2>1, <2>2 DEF Accounts
<1>14. CASE UNCHANGED vars
  BY <1>14 DEF vars, row, Accounts, Earned, HasYes
<1> QED
  BY <1>4, <1>6, <1>8, <1>9, <1>11, <1>12, <1>13, <1>14 DEF Next, Drain

(* The receiver acts once, and once more for each claim or answer lost at   *)
(* most; a delivery called succeeded was taken, and one called failed has   *)
(* had all its attempts (finish).                                           *)
THEOREM NoNeedlessDuplicateHolds == Spec => []NoNeedlessDuplicate
<1>1. Init => Accounts
  BY NoClaimType DEF Init, Accounts, Earned, HasYes
<1>2. TypeOK /\ Accounts => NoNeedlessDuplicate
  <2> SUFFICES ASSUME TypeOK, Accounts PROVE NoNeedlessDuplicate
    OBVIOUS
  <2>1. \A d \in Deliveries : accepted[d] \in Nat /\ trouble \in Nat
    BY BoundsAssumption DEF TypeOK
  <2> QED
    BY <2>1 DEF Accounts, Earned, NoNeedlessDuplicate, Excess
<1> QED
  BY <1>1, <1>2, Held1, AccountsStep, PTL DEF Spec
=============================================================================
