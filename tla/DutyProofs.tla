----------------------------- MODULE DutyProofs -----------------------------
(***************************************************************************)
(* Proofs about duties, for any waybills, schedules, crews and requests:   *)
(* the order of a duty's trips and who is on which duty (Waybills), and    *)
(* what the sweep that makes the days to come promises (Repeater).         *)
(***************************************************************************)
EXTENDS SideBySide, WellFoundedInduction, TLAPS

-----------------------------------------------------------------------------
(* Duties and their trips                                                  *)

LEMMA DutiesStandAlone == PartsSpec => W!Init /\ [][W!Next]_dutyVars
<1>1. PartsInit => W!Init
  BY DEF PartsInit
<1>2. [PartsNext]_partsVars => [W!Next]_dutyVars
  BY DEF PartsNext, partsVars, dutyVars
<1> QED
  BY <1>1, <1>2, PTL DEF PartsSpec

(* Where a request stands: its waybill is there, and a trip it is about to   *)
(* start, end or take back is one of the waybill's.                          *)
RequestOK(q) ==
  /\ q \in W!Busy \cup {W!Idle}
  /\ q.at \notin {"idle", "resetTrips"} => q.act \in W!Acts
  /\ q.at \notin {"idle", "resolve", "upcoming"} => q.w \in W!There
  /\ q.at = "apply" => q.act # "look" /\ (q.act # "reset" => q.n \in Real[W!Key(q.w)])
  /\ q.at = "insert" => row[q.w].day # MaxDay

(* Flags are on trips that are neither dead nor inactive.                   *)
FlagsReal == \A k \in W!Keys : active[k] \subseteq Real[k] /\ done[k] \subseteq Real[k]

(* What a request that puts a duty online knows, if no other one is under    *)
(* way: what its checks found is still so.                                   *)
Flipping == {"tripOnline", "crewOnline", "clean", "online"}
Flip(r) ==
  LET q == duty[r]
  IN  /\ \A o \in Pods \ {r} : duty[o].at = "idle"
      /\ q.at \in {"clean", "online"} =>
           \A v \in W!Online \ {q.w} : row[v].who \cap row[q.w].who = {}
      /\ q.at \in {"crewOnline", "clean", "online"} /\ ~row[q.w].flexi =>
           \A v \in W!Online : row[v].sched # row[q.w].sched
      /\ q.at = "online" => active[W!Key(q.w)] = {} /\ done[W!Key(q.w)] = {}
FlipsAlone == ~overlap => \A r \in Pods : duty[r].at \in Flipping => Flip(r)

DutyInv ==
  /\ W!TypeOK /\ (\A r \in Pods : RequestOK(duty[r]))
  /\ FlagsReal /\ W!TripsInOrder
  /\ FlipsAlone /\ W!OneDutyAtATime

LEMMA DutyInvInitially == W!Init => DutyInv
<1> SUFFICES ASSUME W!Init
             PROVE  DutyInv
  OBVIOUS
<1>1. /\ row \in [Waybills -> W!Row \cup {W!NoRow}]
      /\ \A v, w \in Waybills : row[v].status = "online" /\ row[w].status = "online" /\ v # w =>
           /\ row[v].who \cap row[w].who = {}
           /\ row[v].sched = row[w].sched => row[v].flexi \/ row[w].flexi
  BY DutiesAssumption DEF W!Init
<1>2. W!TypeOK
  <2>1. /\ active \in [W!Keys -> SUBSET Trips] /\ done \in [W!Keys -> SUBSET Trips]
        /\ byHand \subseteq W!Keys
    BY DEF W!Init
  <2>2. today \in 1..MaxDay /\ hand \in 0..MaxHand /\ overlap \in BOOLEAN
    <3>1. MaxDay \in Nat \ {0} /\ MaxHand \in Nat
      BY DutiesAssumption
    <3>2. today = 1 /\ hand = 0 /\ overlap = FALSE
      BY DEF W!Init
    <3>3. 1 \in 1..MaxDay /\ 0 \in 0..MaxHand
      BY <3>1
    <3> QED
      BY <3>2, <3>3
  <2>3. /\ duty \in [Pods -> W!Busy \cup {W!Idle}]
        /\ \A r \in Pods : duty[r].at = "idle"
    BY DEF W!Init, W!Idle
  <2> QED
    BY <1>1, <2>1, <2>2, <2>3 DEF W!TypeOK
<1>3. \A r \in Pods : duty[r] = W!Idle
  BY DEF W!Init
<1>4. \A r \in Pods : RequestOK(duty[r])
  <2>1. RequestOK(W!Idle)
    BY DEF RequestOK, W!Idle
  <2> QED
    BY <1>3, <2>1
<1>5. FlagsReal /\ W!TripsInOrder
  BY DEF W!Init, FlagsReal, W!TripsInOrder
<1>6. FlipsAlone
  BY <1>3 DEF FlipsAlone, Flipping, W!Idle
<1>7. W!OneDutyAtATime
  BY <1>1 DEF W!OneDutyAtATime, W!Online, W!There
<1> QED
  BY <1>2, <1>4, <1>5, <1>6, <1>7 DEF DutyInv

(* Every step keeps the waybills that are there, and what they are of.      *)
RowsKept ==
  \A w \in W!There : /\ w \in W!There' /\ row'[w].flexi = row[w].flexi
                     /\ row'[w].sched = row[w].sched /\ row'[w].day = row[w].day

LEMMA RequestsStand ==
  ASSUME DutyInv, RowsKept, NEW r \in Pods, NEW q, duty' = [duty EXCEPT ![r] = q], RequestOK(q)'
  PROVE  /\ \A o \in Pods : RequestOK(duty[o])'
         /\ duty' \in [Pods -> W!Busy \cup {W!Idle}]
         /\ \A o \in Pods : duty'[o].at \notin {"idle", "resolve", "upcoming"} => duty'[o].w \in W!There'
         /\ duty'[r] = q /\ \A o \in Pods \ {r} : duty'[o] = duty[o]
<1>1. duty \in [Pods -> W!Busy \cup {W!Idle}]
  BY DEF DutyInv, W!TypeOK
<1>2. duty'[r] = q /\ \A o \in Pods \ {r} : duty'[o] = duty[o]
  BY <1>1
<1>3. ASSUME NEW o \in Pods \ {r}
      PROVE  RequestOK(duty[o])'
  <2>1. RequestOK(duty[o]) /\ duty'[o] = duty[o]
    BY <1>2 DEF DutyInv
  <2>2. duty[o].at \notin {"idle", "resolve", "upcoming"} =>
          /\ W!Key(duty[o].w)' = W!Key(duty[o].w) /\ duty[o].w \in W!There'
          /\ row'[duty[o].w].day = row[duty[o].w].day
    BY <2>1, <1>2 DEF RequestOK, RowsKept, W!Key
  <2> QED
    BY <2>1, <2>2 DEF RequestOK
<1>4. \A o \in Pods : RequestOK(duty[o])'
  BY <1>2, <1>3
<1>5. duty' \in [Pods -> W!Busy \cup {W!Idle}]
  BY <1>1 DEF RequestOK
<1> QED
  BY <1>2, <1>4, <1>5 DEF RequestOK

(* A step of a request that does not put a duty online happens while none is *)
(* about to be, or overlap says so.                                          *)
LEMMA NoFlip ==
  ASSUME DutyInv, NEW r \in Pods, NEW q, duty' = [duty EXCEPT ![r] = q], q.at \notin Flipping,
         overlap => overlap',
         duty[r].at # "idle" \/ (~overlap' => ~W!SomebodyFlips)
  PROVE  FlipsAlone'
<1>1. duty'[r] = q /\ \A o \in Pods \ {r} : duty'[o] = duty[o]
  BY DEF DutyInv, W!TypeOK
<1>2. ASSUME ~overlap', NEW o \in Pods, duty'[o].at \in Flipping
      PROVE  FALSE
  <2>1. o # r /\ duty[o].at \in Flipping /\ ~overlap
    BY <1>1, <1>2
  <2>2. duty[r].at = "idle"
    BY <2>1 DEF DutyInv, FlipsAlone, Flip
  <2>3. W!InFlip(duty[o])
    BY <2>1 DEF Flipping, W!InFlip
  <2> QED
    BY <1>2, <2>2, <2>3 DEF W!SomebodyFlips
<1> QED
  BY <1>2 DEF FlipsAlone, Flipping

LEMMA OnlineShrinks ==
  ASSUME DutyInv, overlap => overlap',
         \A w \in W!Online' : /\ w \in W!Online /\ row'[w].who = row[w].who
                             /\ row'[w].sched = row[w].sched /\ row'[w].flexi = row[w].flexi
  PROVE  W!OneDutyAtATime'
BY DEF DutyInv, W!OneDutyAtATime

(* A step that only looks.                                                  *)
LEMMA QuietStep ==
  ASSUME DutyInv, NEW r \in Pods, NEW q, duty' = [duty EXCEPT ![r] = q], RequestOK(q),
         UNCHANGED <<row, active, done, byHand, today, hand>>,
         overlap' \in BOOLEAN, overlap => overlap', FlipsAlone'
  PROVE  DutyInv'
<1>1. RowsKept
  BY DEF RowsKept, W!There
<1>2. RequestOK(q)'
  BY DEF RequestOK, W!There, W!Key
<1>3. /\ \A o \in Pods : RequestOK(duty[o])'
      /\ duty' \in [Pods -> W!Busy \cup {W!Idle}]
      /\ \A o \in Pods : duty'[o].at \notin {"idle", "resolve", "upcoming"} => duty'[o].w \in W!There'
  BY <1>1, <1>2, RequestsStand
<1>4. W!TypeOK'
  BY <1>3 DEF DutyInv, W!TypeOK
<1>5. W!Online' = W!Online
  BY DEF W!Online, W!There
<1>6. W!OneDutyAtATime'
  BY <1>5, OnlineShrinks
<1>7. FlagsReal' /\ W!TripsInOrder'
  BY DEF DutyInv, FlagsReal, W!TripsInOrder
<1> QED
  BY <1>3, <1>4, <1>6, <1>7 DEF DutyInv

LEMMA DutyParts ==
  ASSUME DutyInv
  PROVE  /\ W!TypeOK /\ (\A r \in Pods : RequestOK(duty[r]) /\ duty[r] \in W!Busy \cup {W!Idle})
         /\ FlagsReal /\ W!TripsInOrder /\ FlipsAlone /\ W!OneDutyAtATime
         /\ overlap \in BOOLEAN
         /\ \A w \in W!There : w \in Waybills /\ row[w] \in W!Row /\ W!Key(w) \in W!Keys
BY DEF DutyInv, W!TypeOK, W!There, W!NoRow, W!Key, W!Keys, W!Row

LEMMA Finished == RequestOK(W!Idle) /\ W!Idle.at \notin Flipping
BY DEF RequestOK, W!Idle, Flipping

(* A request whose waybill is known.                                        *)
LEMMA GoesOnward ==
  ASSUME DutyInv, NEW r \in Pods, duty[r].at \in {"resolve", "online"}, NEW w \in W!There,
         W!Onward(r, w)
  PROVE  \E q : duty' = [duty EXCEPT ![r] = q] /\ RequestOK(q) /\ q.at \in {"idle", "apply"}
<1>1. duty[r] \in W!Busy /\ duty[r].act \in W!Acts
  BY DutyParts DEF RequestOK, W!Idle
<1>2. CASE duty[r].act = "look" \/ ~W!Exists(duty[r], w)
  <2>1. duty' = [duty EXCEPT ![r] = W!Idle]
    BY <1>2 DEF W!Onward
  <2>2. W!Idle.at = "idle"
    BY DEF W!Idle
  <2> QED
    BY <2>1, <2>2, Finished
<1>3. CASE ~(duty[r].act = "look" \/ ~W!Exists(duty[r], w))
  <2> DEFINE q == [duty[r] EXCEPT !.at = "apply", !.w = w, !.anchor = None]
  <2>1. duty' = [duty EXCEPT ![r] = q]
    BY <1>3 DEF W!Onward
  <2>2. q \in W!Busy /\ q.at = "apply" /\ q.act = duty[r].act /\ q.w = w /\ q.n = duty[r].n
    BY <1>1 DEF W!Busy, W!There
  <2>3. q.act # "look" /\ (q.act # "reset" => q.n \in Real[W!Key(w)])
    BY <1>3, <2>2 DEF W!Exists
  <2>4. RequestOK(q)
    BY <1>1, <2>2, <2>3 DEF RequestOK
  <2> QED
    BY <2>1, <2>2, <2>4
<1> QED
  BY <1>2, <1>3

(* A request with its statement, and perhaps its waybill, set anew.         *)
LEMMA MovesOn ==
  ASSUME DutyInv, NEW r \in Pods, duty[r].at \notin {"idle", "resetTrips"}, NEW at, W!Moves(r, at),
         at \in {"upcoming", "crewOnline", "clean", "online", "handBack", "successor", "insert"},
         duty[r].at \in {"resolve", "upcoming"} => at = "upcoming",
         at = "insert" => row[duty[r].w].day # MaxDay
  PROVE  \E q : duty' = [duty EXCEPT ![r] = q] /\ RequestOK(q) /\ q.at = at /\ q.w = duty[r].w
<1> DEFINE q == [duty[r] EXCEPT !.at = at]
<1>1. duty[r] \in W!Busy /\ duty[r].act \in W!Acts /\ RequestOK(duty[r])
  BY DutyParts DEF RequestOK, W!Idle
<1>2. q \in W!Busy /\ q.at = at /\ q.w = duty[r].w /\ q.act = duty[r].act
  BY <1>1 DEF W!Busy
<1>3. RequestOK(q)
  BY <1>1, <1>2 DEF RequestOK
<1>4. duty' = [duty EXCEPT ![r] = q]
  BY DEF W!Moves
<1> QED
  BY <1>2, <1>3, <1>4

LEMMA CallKeeps ==
  ASSUME DutyInv, NEW r \in Pods, NEW act \in W!Acts, NEW a \in UNION {row[w].who : w \in W!There},
         NEW n \in IF act \in {"look", "reset"} THEN {0} ELSE UNION {Real[W!Key(w)] : w \in W!There},
         W!Call(r, act, a, n)
  PROVE  DutyInv'
<1> DEFINE q == [at |-> "resolve", act |-> act, anchor |-> a, n |-> n, w |-> None]
<1>1. /\ duty' = [duty EXCEPT ![r] = q] /\ UNCHANGED <<row, active, done, byHand, today, hand>>
      /\ overlap' = (overlap \/ W!SomebodyFlips)
  BY DEF W!Call
<1>2. a \in Anchors
  BY DutyParts DEF W!Row
<1>3. n \in Trips \cup {0}
  <2>1. \A w \in W!There : Real[W!Key(w)] \subseteq Trips
    BY DutyParts, DutiesAssumption
  <2> QED
    BY <2>1
<1>4. RequestOK(q)
  BY <1>2, <1>3 DEF RequestOK, W!Busy
<1>5. FlipsAlone'
  BY <1>1, NoFlip DEF Flipping
<1>6. overlap' \in BOOLEAN
  BY <1>1, DutyParts DEF W!SomebodyFlips
<1> QED
  BY <1>1, <1>4, <1>5, <1>6, QuietStep

LEMMA ResolveKeeps ==
  ASSUME DutyInv, NEW r \in Pods, W!Resolve(r)
  PROVE  DutyInv'
<1>1. duty[r].at = "resolve" /\ UNCHANGED <<row, active, done, byHand, today, hand, overlap>>
  BY DEF W!Resolve
<1>2. \E q : duty' = [duty EXCEPT ![r] = q] /\ RequestOK(q) /\ q.at \in {"idle", "apply", "upcoming"}
  <2>1. CASE W!Moves(r, "upcoming")
    BY <1>1, <2>1, MovesOn
  <2>2. ASSUME NEW w \in W!Online, W!Onward(r, w)
        PROVE  \E q : duty' = [duty EXCEPT ![r] = q] /\ RequestOK(q) /\ q.at \in {"idle", "apply"}
    BY <1>1, <2>2, GoesOnward DEF W!Online
  <2> QED
    BY <2>1, <2>2 DEF W!Resolve
<1>3. PICK q : duty' = [duty EXCEPT ![r] = q] /\ RequestOK(q) /\ q.at \in {"idle", "apply", "upcoming"}
  BY <1>2
<1>4. FlipsAlone'
  BY <1>1, <1>3, NoFlip DEF Flipping
<1> QED
  BY <1>1, <1>3, <1>4, QuietStep, DutyParts

(* A duty that is about to go online, one step on.                          *)
LEMMA FlipGoesOn ==
  ASSUME DutyInv, NEW r \in Pods, NEW q, duty' = [duty EXCEPT ![r] = q], RequestOK(q),
         UNCHANGED <<row, today, hand>>,
         active' \in [W!Keys -> SUBSET Trips], done' \in [W!Keys -> SUBSET Trips],
         byHand' \subseteq W!Keys,
         FlagsReal', W!TripsInOrder',
         overlap' \in BOOLEAN, overlap => overlap',
         ~overlap' => Flip(r)' /\ \A o \in Pods \ {r} : duty[o].at = "idle"
  PROVE  DutyInv'
<1>1. RowsKept
  BY DEF RowsKept, W!There
<1>2. RequestOK(q)'
  BY DEF RequestOK, W!There, W!Key
<1>3. /\ \A o \in Pods : RequestOK(duty[o])'
      /\ duty' \in [Pods -> W!Busy \cup {W!Idle}]
      /\ \A o \in Pods : duty'[o].at \notin {"idle", "resolve", "upcoming"} => duty'[o].w \in W!There'
      /\ \A o \in Pods \ {r} : duty'[o] = duty[o]
  BY <1>1, <1>2, RequestsStand
<1>4. W!TypeOK'
  BY <1>3 DEF DutyInv, W!TypeOK
<1>5. W!Online' = W!Online
  BY DEF W!Online, W!There
<1>6. W!OneDutyAtATime'
  BY <1>5, OnlineShrinks
<1>7. FlipsAlone'
  BY <1>3 DEF FlipsAlone, Flipping
<1> QED
  BY <1>3, <1>4, <1>6, <1>7 DEF DutyInv

LEMMA FindUpcomingKeeps ==
  ASSUME DutyInv, NEW r \in Pods, W!FindUpcoming(r)
  PROVE  DutyInv'
<1>1. /\ duty[r].at = "upcoming" /\ UNCHANGED <<row, active, done, byHand, today, hand>>
      /\ overlap' = (overlap \/ W!Others(r))
  BY DEF W!FindUpcoming
<1>2. overlap' \in BOOLEAN
  BY <1>1, DutyParts DEF W!Others
<1>3. CASE W!Ends(r)
  <2>1. duty' = [duty EXCEPT ![r] = W!Idle]
    BY <1>3 DEF W!Ends
  <2>2. FlipsAlone'
    BY <1>1, <2>1, NoFlip, Finished
  <2> QED
    BY <1>1, <1>2, <2>1, <2>2, QuietStep, Finished
<1>4. ASSUME NEW w \in W!There,
             duty' = [duty EXCEPT ![r].w = w, ![r].anchor = None,
                        ![r].at = IF row[w].flexi THEN "crewOnline" ELSE "tripOnline"]
      PROVE  DutyInv'
  <2> DEFINE q == [duty[r] EXCEPT !.w = w, !.anchor = None,
                                  !.at = IF row[w].flexi THEN "crewOnline" ELSE "tripOnline"]
  <2>1. duty' = [duty EXCEPT ![r] = q]
    BY <1>4
  <2>2. duty[r] \in W!Busy /\ duty[r].act \in W!Acts
    BY <1>1, DutyParts DEF RequestOK, W!Idle
  <2>3. /\ q \in W!Busy /\ q.w = w /\ q.act = duty[r].act
        /\ q.at = IF row[w].flexi THEN "crewOnline" ELSE "tripOnline"
    BY <2>2 DEF W!Busy, W!There
  <2>4. RequestOK(q)
    BY <2>2, <2>3 DEF RequestOK
  <2>5. duty'[r] = q /\ \A o \in Pods \ {r} : duty'[o] = duty[o]
    BY <2>1, DutyParts DEF W!TypeOK
  <2>6. ~overlap' => \A o \in Pods \ {r} : duty[o].at = "idle"
    BY <1>1 DEF W!Others
  <2>7. ~overlap' => Flip(r)'
    BY <1>1, <2>3, <2>5, <2>6 DEF Flip
  <2>8. FlagsReal' /\ W!TripsInOrder'
    BY <1>1, DutyParts DEF FlagsReal, W!TripsInOrder
  <2>9. /\ active' \in [W!Keys -> SUBSET Trips] /\ done' \in [W!Keys -> SUBSET Trips]
        /\ byHand' \subseteq W!Keys
    BY <1>1, DutyParts DEF W!TypeOK
  <2> HIDE DEF q
  <2> QED
    BY <1>1, <1>2, <2>1, <2>4, <2>6, <2>7, <2>8, <2>9, FlipGoesOn
<1> QED
  BY <1>3, <1>4 DEF W!FindUpcoming

(* A request that ends with nothing more to do.                             *)
LEMMA EndsQuietly ==
  ASSUME DutyInv, NEW r \in Pods, duty[r].at # "idle", W!Ends(r),
         UNCHANGED <<row, active, done, byHand, today, hand, overlap>>
  PROVE  DutyInv'
<1>1. duty' = [duty EXCEPT ![r] = W!Idle]
  BY DEF W!Ends
<1>2. FlipsAlone'
  BY <1>1, NoFlip, Finished
<1> QED
  BY <1>1, <1>2, QuietStep, Finished, DutyParts

LEMMA ChecksKeep ==
  ASSUME DutyInv, NEW r \in Pods, W!CheckTrip(r) \/ W!CheckCrew(r)
  PROVE  DutyInv'
<1>1. /\ duty[r].at \in {"tripOnline", "crewOnline"}
      /\ UNCHANGED <<row, active, done, byHand, today, hand, overlap>>
  BY DEF W!CheckTrip, W!CheckCrew
<1>2. CASE W!Ends(r)
  BY <1>1, <1>2, EndsQuietly
<1>3. ~overlap => Flip(r)
  BY <1>1, DutyParts DEF FlipsAlone, Flipping
<1>4. FlagsReal' /\ W!TripsInOrder'
  BY <1>1, DutyParts DEF FlagsReal, W!TripsInOrder
<1>5. /\ active' \in [W!Keys -> SUBSET Trips] /\ done' \in [W!Keys -> SUBSET Trips]
      /\ byHand' \subseteq W!Keys
  BY <1>1, DutyParts DEF W!TypeOK
<1>6. W!Online' = W!Online
  BY <1>1 DEF W!Online, W!There
<1>7. ASSUME NEW at \in {"crewOnline", "clean"}, W!Moves(r, at),
             at = "crewOnline" => \A v \in W!Online : row[v].sched # row[duty[r].w].sched,
             at = "clean" =>
               /\ \A v \in W!Online \ {duty[r].w} : row[v].who \cap row[duty[r].w].who = {}
               /\ duty[r].at = "crewOnline"
      PROVE  DutyInv'
  <2>1. PICK q : duty' = [duty EXCEPT ![r] = q] /\ RequestOK(q) /\ q.at = at /\ q.w = duty[r].w
    BY <1>1, <1>7, MovesOn
  <2>2. duty'[r] = q /\ \A o \in Pods \ {r} : duty'[o] = duty[o]
    BY <2>1, DutyParts DEF W!TypeOK
  <2>3. ~overlap => \A o \in Pods \ {r} : duty[o].at = "idle"
    BY <1>3 DEF Flip
  <2>4. ~overlap => (~row[q.w].flexi => \A v \in W!Online : row[v].sched # row[q.w].sched)
    BY <1>3, <1>7, <2>1 DEF Flip
  <2>5. ~overlap' => Flip(r)'
    BY <1>1, <1>6, <1>7, <2>1, <2>2, <2>3, <2>4 DEF Flip
  <2> QED
    BY <1>1, <1>4, <1>5, <2>1, <2>3, <2>5, FlipGoesOn, DutyParts
<1>8. CASE W!CheckTrip(r)
  <2>1. CASE \E v \in W!Online : row[v].sched = row[duty[r].w].sched
    BY <1>2, <1>8, <2>1 DEF W!CheckTrip
  <2>2. CASE ~\E v \in W!Online : row[v].sched = row[duty[r].w].sched
    BY <1>7, <1>8, <2>2 DEF W!CheckTrip
  <2> QED
    BY <2>1, <2>2
<1>9. CASE W!CheckCrew(r)
  <2>1. CASE \E v \in W!Online \ {duty[r].w} : row[v].who \cap row[duty[r].w].who # {}
    BY <1>2, <1>9, <2>1 DEF W!CheckCrew
  <2>2. CASE ~\E v \in W!Online \ {duty[r].w} : row[v].who \cap row[duty[r].w].who # {}
    BY <1>7, <1>9, <2>2 DEF W!CheckCrew
  <2> QED
    BY <2>1, <2>2
<1> QED
  BY <1>8, <1>9

LEMMA CleanKeeps ==
  ASSUME DutyInv, NEW r \in Pods, W!Clean(r)
  PROVE  DutyInv'
<1>1. /\ duty[r].at = "clean" /\ UNCHANGED <<row, today, hand, overlap>> /\ W!Moves(r, "online")
      /\ active' = [active EXCEPT ![W!Key(duty[r].w)] = {}]
      /\ done' = [done EXCEPT ![W!Key(duty[r].w)] = {}]
      /\ byHand' = byHand \ {W!Key(duty[r].w)}
  BY DEF W!Clean, W!Wipe
<1>2. PICK q : duty' = [duty EXCEPT ![r] = q] /\ RequestOK(q) /\ q.at = "online" /\ q.w = duty[r].w
  BY <1>1, MovesOn
<1>3. duty[r].w \in W!There
  BY <1>1, DutyParts DEF RequestOK
<1>4. W!Key(duty[r].w) \in W!Keys
  BY <1>3, DutyParts
<1>5. /\ active' \in [W!Keys -> SUBSET Trips] /\ done' \in [W!Keys -> SUBSET Trips]
      /\ active'[W!Key(duty[r].w)] = {} /\ done'[W!Key(duty[r].w)] = {}
      /\ \A k \in W!Keys : active'[k] \subseteq active[k] /\ done'[k] \subseteq done[k]
      /\ \A k \in W!Keys \ byHand' : (active'[k] = active[k] /\ k \notin byHand) \/ active'[k] = {}
      /\ byHand' \subseteq W!Keys
  BY <1>1, <1>4, DutyParts DEF W!TypeOK
<1>6. FlagsReal' /\ W!TripsInOrder'
  BY <1>5, DutyParts DEF FlagsReal, W!TripsInOrder
<1>7. ~overlap => Flip(r)
  BY <1>1, DutyParts DEF FlipsAlone, Flipping
<1>8. duty'[r] = q /\ \A o \in Pods \ {r} : duty'[o] = duty[o]
  BY <1>2, DutyParts DEF W!TypeOK
<1>9. W!Online' = W!Online /\ W!Key(q.w)' = W!Key(q.w)
  BY <1>1 DEF W!Online, W!There, W!Key
<1>10. ~overlap => \A o \in Pods \ {r} : duty[o].at = "idle"
  BY <1>7 DEF Flip
<1>11. ~overlap' => Flip(r)'
  BY <1>1, <1>2, <1>5, <1>7, <1>8, <1>9, <1>10 DEF Flip
<1> QED
  BY <1>1, <1>2, <1>5, <1>6, <1>10, <1>11, FlipGoesOn, DutyParts

LEMMA RequestStands ==
  ASSUME RowsKept, NEW q, RequestOK(q)
  PROVE  RequestOK(q)'
<1>1. q.at \notin {"idle", "resolve", "upcoming"} =>
        /\ W!Key(q.w)' = W!Key(q.w) /\ q.w \in W!There' /\ row'[q.w].day = row[q.w].day
  BY DEF RequestOK, RowsKept, W!Key
<1> QED
  BY <1>1 DEF RequestOK

(* A step that writes.                                                      *)
LEMMA WriteKeeps ==
  ASSUME DutyInv, RowsKept, NEW r \in Pods, NEW q, duty' = [duty EXCEPT ![r] = q], RequestOK(q)',
         q.at \notin Flipping,
         row' \in [Waybills -> W!Row \cup {W!NoRow}],
         active' \in [W!Keys -> SUBSET Trips], done' \in [W!Keys -> SUBSET Trips],
         byHand' \subseteq W!Keys,
         today' = today, hand' \in 0..MaxHand, overlap' \in BOOLEAN, overlap => overlap',
         duty[r].at # "idle" \/ (~overlap' => ~W!SomebodyFlips),
         FlagsReal', W!TripsInOrder', W!OneDutyAtATime'
  PROVE  DutyInv'
<1>1. /\ \A o \in Pods : RequestOK(duty[o])'
      /\ duty' \in [Pods -> W!Busy \cup {W!Idle}]
      /\ \A o \in Pods : duty'[o].at \notin {"idle", "resolve", "upcoming"} => duty'[o].w \in W!There'
  BY RequestsStand
<1>2. W!TypeOK'
  BY <1>1 DEF DutyInv, W!TypeOK
<1>3. FlipsAlone'
  BY NoFlip
<1> QED
  BY <1>1, <1>2, <1>3 DEF DutyInv

(* Flags that are wiped.                                                    *)
LEMMA FlagsWiped ==
  ASSUME DutyInv, NEW k \in W!Keys, W!Wipe(k)
  PROVE  /\ active' \in [W!Keys -> SUBSET Trips] /\ done' \in [W!Keys -> SUBSET Trips]
         /\ byHand' \subseteq W!Keys /\ FlagsReal' /\ W!TripsInOrder'
<1>1. /\ active' \in [W!Keys -> SUBSET Trips] /\ done' \in [W!Keys -> SUBSET Trips]
      /\ \A j \in W!Keys : active'[j] \subseteq active[j] /\ done'[j] \subseteq done[j]
      /\ \A j \in W!Keys \ byHand' : (active'[j] = active[j] /\ j \notin byHand) \/ active'[j] = {}
      /\ byHand' \subseteq W!Keys
  BY DutyParts DEF W!TypeOK, W!Wipe
<1> QED
  BY <1>1, DutyParts DEF FlagsReal, W!TripsInOrder

LEMMA FlagsStand ==
  ASSUME DutyInv, UNCHANGED <<active, done, byHand>>
  PROVE  /\ active' \in [W!Keys -> SUBSET Trips] /\ done' \in [W!Keys -> SUBSET Trips]
         /\ byHand' \subseteq W!Keys /\ FlagsReal' /\ W!TripsInOrder'
BY DutyParts DEF FlagsReal, W!TripsInOrder, W!TypeOK

(* A waybill's status or crew set anew.                                     *)
LEMMA RowChanges ==
  ASSUME DutyInv, NEW w \in W!There, NEW new \in W!Row, row' = [row EXCEPT ![w] = new],
         new.flexi = row[w].flexi, new.sched = row[w].sched, new.day = row[w].day
  PROVE  /\ RowsKept /\ row' \in [Waybills -> W!Row \cup {W!NoRow}]
         /\ W!There' = W!There /\ row'[w] = new /\ \A v \in Waybills \ {w} : row'[v] = row[v]
         /\ \A v \in W!There : W!Key(v)' = W!Key(v)
<1>1. /\ row' \in [Waybills -> W!Row \cup {W!NoRow}] /\ w \in Waybills
      /\ row'[w] = new /\ \A v \in Waybills \ {w} : row'[v] = row[v]
  BY DutyParts DEF W!TypeOK
<1>2. new.status # "none"
  BY DEF W!Row, W!Statuses
<1>3. W!There' = W!There
  BY <1>1, <1>2 DEF W!There
<1>4. RowsKept
  BY <1>1, <1>3 DEF RowsKept, W!There
<1> QED
  BY <1>1, <1>3, <1>4 DEF W!Key, RowsKept

LEMMA NewStatus ==
  ASSUME NEW x \in W!Row, NEW s \in W!Statuses
  PROVE  LET new == [x EXCEPT !.status = s]
         IN  /\ new \in W!Row /\ new.status = s /\ new.who = x.who
             /\ new.flexi = x.flexi /\ new.sched = x.sched /\ new.day = x.day
BY DEF W!Row

LEMMA OnlineKeeps ==
  ASSUME DutyInv, NEW r \in Pods, W!Online1(r)
  PROVE  DutyInv' /\ W!GoesOnlineFresh
<1>1. duty[r].at = "online" /\ UNCHANGED <<active, done, byHand, today, hand, overlap>>
  BY DEF W!Online1
<1>2. PICK w \in W!There : w = duty[r].w
  BY <1>1, DutyParts DEF RequestOK
<1>2a. w \in Waybills /\ row[w] \in W!Row
  BY DutyParts
<1> DEFINE new == [row[w] EXCEPT !.status = "online"]
<1>3. /\ new \in W!Row /\ new.status = "online" /\ new.who = row[w].who
      /\ new.flexi = row[w].flexi /\ new.sched = row[w].sched /\ new.day = row[w].day
  BY <1>2a, NewStatus DEF W!Statuses
<1>4. CASE W!Ends(r) /\ row' = row
  <2>1. W!Online' = W!Online
    BY <1>4 DEF W!Online, W!There
  <2>2. DutyInv'
    BY <1>1, <1>4, EndsQuietly
  <2> QED
    BY <2>1, <2>2 DEF W!GoesOnlineFresh
<1>5. CASE row' = [row EXCEPT ![w] = new] /\ W!Onward(r, w)
  <2>1. PICK q : duty' = [duty EXCEPT ![r] = q] /\ RequestOK(q) /\ q.at \in {"idle", "apply"}
    BY <1>1, <1>2, <1>5, GoesOnward
  <2>2. /\ RowsKept /\ row' \in [Waybills -> W!Row \cup {W!NoRow}]
        /\ W!There' = W!There /\ row'[w] = new /\ \A v \in Waybills \ {w} : row'[v] = row[v]
        /\ W!Key(w)' = W!Key(w)
    <3> HIDE DEF new
    <3> QED
      BY <1>3, <1>5, RowChanges
  <2>3. W!Online' = W!Online \cup {w} /\ \A v \in W!Online : v \in Waybills
    <3> HIDE DEF new
    <3>1. /\ \A v \in W!Online : v \in Waybills
          /\ \A v \in W!Online' : v \in Waybills
      BY DEF W!Online, W!There
    <3>2. w \in W!Online'
      BY <1>3, <2>2 DEF W!Online
    <3>3. \A v \in Waybills \ {w} : v \in W!Online' <=> v \in W!Online
      BY <2>2 DEF W!Online
    <3> QED
      BY <1>2a, <3>1, <3>2, <3>3
  <2>4. ~overlap => Flip(r)
    BY <1>1, DutyParts DEF FlipsAlone, Flipping
  <2>5. ~overlap => /\ \A v \in W!Online \ {w} : row[v].who \cap row[w].who = {}
                    /\ ~row[w].flexi => \A v \in W!Online : row[v].sched # row[w].sched
                    /\ active[W!Key(w)] = {} /\ done[W!Key(w)] = {}
    BY <1>1, <1>2, <2>4 DEF Flip
  <2>6. \A v \in Waybills : row'[v].who = row[v].who /\ row'[v].sched = row[v].sched
                              /\ row'[v].flexi = row[v].flexi
    BY <1>3, <2>2
  <2>7. ASSUME ~overlap, NEW u \in W!Online', NEW v \in W!Online', u # v
        PROVE  /\ row[u].who \cap row[v].who = {}
               /\ row[u].sched = row[v].sched => row[u].flexi \/ row[v].flexi
    <3>1. CASE u \in W!Online /\ v \in W!Online
      BY <2>7, <3>1, DutyParts DEF W!OneDutyAtATime
    <3>2. CASE u = w /\ v \in W!Online \ {w}
      BY <2>5, <2>7, <3>2
    <3>3. CASE v = w /\ u \in W!Online \ {w}
      BY <2>5, <2>7, <3>3
    <3> QED
      BY <2>3, <2>7, <3>1, <3>2, <3>3
  <2>8. W!OneDutyAtATime'
    <3>1. \A v \in W!Online' : v \in Waybills
      BY <1>2a, <2>3
    <3> QED
      BY <1>1, <2>6, <2>7, <3>1 DEF W!OneDutyAtATime
  <2>9. RequestOK(q)' /\ q.at \notin Flipping
    BY <2>1, <2>2, RequestStands DEF Flipping
  <2>10. hand' \in 0..MaxHand /\ overlap' \in BOOLEAN
    BY <1>1, DutyParts DEF W!TypeOK
  <2>11. /\ active' \in [W!Keys -> SUBSET Trips] /\ done' \in [W!Keys -> SUBSET Trips]
         /\ byHand' \subseteq W!Keys /\ FlagsReal' /\ W!TripsInOrder'
    BY <1>1, FlagsStand
  <2>12. DutyInv'
    BY <1>1, <2>1, <2>2, <2>8, <2>9, <2>10, <2>11, WriteKeeps
  <2>13. W!GoesOnlineFresh
    BY <1>1, <2>2, <2>3, <2>5 DEF W!GoesOnlineFresh
  <2> QED
    BY <2>12, <2>13
<1>6. CASE W!Clash(w, new)
  BY <1>2, <1>4, <1>6 DEF W!Online1
<1>7. CASE ~W!Clash(w, new)
  BY <1>2, <1>5, <1>7 DEF W!Online1
<1> QED
  BY <1>6, <1>7

LEMMA ApplyKeeps ==
  ASSUME DutyInv, NEW r \in Pods, W!Apply(r)
  PROVE  DutyInv'
<1>1. duty[r].at = "apply" /\ UNCHANGED <<row, today, hand, overlap>>
  BY DEF W!Apply
<1>2. /\ duty[r] \in W!Busy /\ duty[r].act \in W!Acts \ {"look"} /\ duty[r].w \in W!There
      /\ duty[r].act # "reset" => duty[r].n \in Real[W!Key(duty[r].w)]
  BY <1>1, DutyParts DEF RequestOK, W!Idle
<1>3. PICK k \in W!Keys : k = W!Key(duty[r].w)
  BY <1>2, DutyParts
<1>4. PICK n : n = duty[r].n
  OBVIOUS
<1>5. /\ Real[k] \subseteq Trips /\ Trips \subseteq Nat
      /\ active[k] \subseteq Real[k] /\ done[k] \subseteq Real[k]
      /\ k \notin byHand => \A m \in active[k] : active[k] = {m} /\ \A o \in done[k] : o < m
      /\ duty[r].act # "reset" => n \in Real[k]
  BY <1>2, <1>3, <1>4, DutyParts, DutiesAssumption DEF FlagsReal, W!TripsInOrder
<1>6. ASSUME NEW A \in SUBSET Real[k], NEW D \in SUBSET Real[k],
             active' = [active EXCEPT ![k] = A], done' = [done EXCEPT ![k] = D],
             byHand' \in {byHand, byHand \ {k}},
             k \notin byHand' => \A m \in A : A = {m} /\ \A o \in D : o < m
      PROVE  /\ active' \in [W!Keys -> SUBSET Trips] /\ done' \in [W!Keys -> SUBSET Trips]
             /\ byHand' \subseteq W!Keys /\ FlagsReal' /\ W!TripsInOrder'
  <2>1. /\ active' \in [W!Keys -> SUBSET Trips] /\ done' \in [W!Keys -> SUBSET Trips]
        /\ active'[k] = A /\ done'[k] = D
        /\ \A j \in W!Keys \ {k} :
             active'[j] = active[j] /\ done'[j] = done[j] /\ (j \in byHand' <=> j \in byHand)
        /\ byHand' \subseteq W!Keys
    BY <1>5, <1>6, DutyParts DEF W!TypeOK
  <2>2. FlagsReal'
    BY <2>1, DutyParts DEF FlagsReal
  <2>3. W!TripsInOrder'
    BY <1>6, <2>1, DutyParts DEF W!TripsInOrder
  <2> QED
    BY <2>1, <2>2, <2>3
<1>7. /\ active' \in [W!Keys -> SUBSET Trips] /\ done' \in [W!Keys -> SUBSET Trips]
      /\ byHand' \subseteq W!Keys /\ FlagsReal' /\ W!TripsInOrder'
  <2>1. CASE duty[r].act = "start"
    <3>1. /\ active' = [active EXCEPT ![k] = W!StartedActive(k, active[k], n)]
          /\ done' = [done EXCEPT ![k] = W!StartedDone(k, done[k], n)] /\ byHand' = byHand
      BY <1>3, <1>4, <2>1 DEF W!Apply
    <3>2. W!StartedActive(k, active[k], n) = {n}
      BY <1>5, <2>1 DEF W!StartedActive
    <3>3. /\ W!StartedDone(k, done[k], n) \subseteq Real[k]
          /\ \A o \in W!StartedDone(k, done[k], n) : o < n
      <4>1. n \in Nat /\ \A o \in done[k] : o \in Nat /\ o \in Real[k]
        BY <1>5, <2>1
      <4> QED
        BY <4>1 DEF W!StartedDone
    <3>4. {n} \in SUBSET Real[k] /\ W!StartedDone(k, done[k], n) \in SUBSET Real[k]
      BY <1>5, <2>1, <3>3
    <3>5. PICK A \in SUBSET Real[k], D \in SUBSET Real[k] :
            A = {n} /\ D = W!StartedDone(k, done[k], n)
      BY <3>4
    <3>6. active' = [active EXCEPT ![k] = A] /\ done' = [done EXCEPT ![k] = D] /\ byHand' = byHand
      BY <3>1, <3>2, <3>5
    <3>7. \A m \in A : A = {m} /\ \A o \in D : o < m
      BY <3>3, <3>5
    <3> QED
      BY <1>6, <3>6, <3>7
  <2>2. CASE duty[r].act = "end"
    <3>1. /\ active' = [active EXCEPT ![k] = {}]
          /\ done' = [done EXCEPT ![k] = W!EndedDone(duty[r].w, active[k], done[k], n)]
          /\ byHand' = byHand
      BY <1>3, <1>4, <2>2 DEF W!Apply
    <3>2. W!EndedDone(duty[r].w, active[k], done[k], n) \subseteq Real[k]
      BY <1>5, <2>2 DEF W!EndedDone
    <3>3. {} \in SUBSET Real[k] /\ W!EndedDone(duty[r].w, active[k], done[k], n) \in SUBSET Real[k]
      BY <3>2
    <3>4. \A D : \A m \in {} : {} = {m} /\ \A o \in D : o < m
      OBVIOUS
    <3> QED
      BY <1>6, <3>1, <3>3, <3>4
  <2>3. CASE duty[r].act = "reset"
    <3>1. /\ active' = [active EXCEPT ![k] = {}] /\ done' = [done EXCEPT ![k] = {}]
          /\ byHand' = byHand \ {k}
      BY <1>3, <2>3 DEF W!Apply, W!Wipe
    <3>2. {} \in SUBSET Real[k] /\ \A m \in {} : {} = {m} /\ \A o \in {} : o < m
      OBVIOUS
    <3> QED
      BY <1>6, <3>1, <3>2
  <2>4. CASE duty[r].act = "rollback"
    <3>1. /\ active' = [active EXCEPT ![k] = active[k] \ {n}]
          /\ done' = [done EXCEPT ![k] = done[k] \ {n}] /\ byHand' = byHand
      BY <1>3, <1>4, <2>4 DEF W!Apply
    <3>2. k \notin byHand =>
            \A m \in active[k] \ {n} : active[k] \ {n} = {m} /\ \A o \in done[k] \ {n} : o < m
      BY <1>5
    <3> QED
      BY <1>5, <1>6, <3>1, <3>2
  <2> QED
    BY <1>2, <2>1, <2>2, <2>3, <2>4 DEF W!Acts
<1>8. RowsKept
  BY <1>1 DEF RowsKept, W!There
<1>9. PICK q : duty' = [duty EXCEPT ![r] = q] /\ RequestOK(q) /\ q.at \in {"idle", "close"}
  <2>1. CASE duty[r].act = "end" /\ W!LastTrip(W!Key(duty[r].w), duty[r].n)
    <3> DEFINE q == [duty[r] EXCEPT !.at = "close", !.n = 0]
    <3>1. duty' = [duty EXCEPT ![r] = q]
      BY <2>1 DEF W!Apply
    <3>2. q \in W!Busy /\ q.at = "close" /\ q.act = duty[r].act /\ q.w = duty[r].w
      BY <1>2 DEF W!Busy
    <3>3. RequestOK(q)
      BY <1>2, <3>2 DEF RequestOK
    <3> QED
      BY <3>1, <3>2, <3>3
  <2>2. CASE ~(duty[r].act = "end" /\ W!LastTrip(W!Key(duty[r].w), duty[r].n))
    <3>1. duty' = [duty EXCEPT ![r] = W!Idle]
      BY <2>2 DEF W!Apply, W!Ends
    <3>2. W!Idle.at = "idle"
      BY DEF W!Idle
    <3> QED
      BY <3>1, <3>2, Finished
  <2> QED
    BY <2>1, <2>2
<1>10. RequestOK(q)' /\ q.at \notin Flipping
  BY <1>8, <1>9, RequestStands DEF Flipping
<1>11. W!OneDutyAtATime'
  BY <1>1, OnlineShrinks DEF W!Online, W!There
<1>12. /\ hand' \in 0..MaxHand /\ overlap' \in BOOLEAN
       /\ row' \in [Waybills -> W!Row \cup {W!NoRow}]
  BY <1>1, DutyParts DEF W!TypeOK
<1> QED
  BY <1>1, <1>7, <1>8, <1>9, <1>10, <1>11, <1>12, WriteKeeps

LEMMA CloseKeeps ==
  ASSUME DutyInv, NEW r \in Pods, W!Close(r)
  PROVE  DutyInv' /\ W!GoesOnlineFresh
<1>1. /\ duty[r].at = "close" /\ UNCHANGED <<active, done, byHand, today, hand, overlap>>
      /\ W!Moves(r, "handBack")
  BY DEF W!Close
<1>2. PICK w \in W!There : w = duty[r].w
  BY <1>1, DutyParts DEF RequestOK
<1> DEFINE new == [row[w] EXCEPT !.status = "audited"]
<1>3. row' = [row EXCEPT ![w] = new]
  BY <1>2 DEF W!Close
<1>4. /\ new \in W!Row /\ new.status = "audited" /\ new.who = row[w].who
      /\ new.flexi = row[w].flexi /\ new.sched = row[w].sched /\ new.day = row[w].day
  BY DutyParts, NewStatus DEF W!Statuses
<1> HIDE DEF new
<1>5. /\ RowsKept /\ row' \in [Waybills -> W!Row \cup {W!NoRow}]
      /\ W!There' = W!There /\ row'[w] = new /\ \A v \in Waybills \ {w} : row'[v] = row[v]
  BY <1>3, <1>4, RowChanges
<1>6. \A v \in W!Online' : /\ v \in W!Online /\ row'[v].who = row[v].who
                           /\ row'[v].sched = row[v].sched /\ row'[v].flexi = row[v].flexi
  BY <1>4, <1>5 DEF W!Online, W!There
<1>7. W!OneDutyAtATime'
  BY <1>1, <1>6, OnlineShrinks
<1>8. PICK q : duty' = [duty EXCEPT ![r] = q] /\ RequestOK(q) /\ q.at = "handBack"
  BY <1>1, MovesOn
<1>9. RequestOK(q)' /\ q.at \notin Flipping
  BY <1>5, <1>8, RequestStands DEF Flipping
<1>10. /\ active' \in [W!Keys -> SUBSET Trips] /\ done' \in [W!Keys -> SUBSET Trips]
       /\ byHand' \subseteq W!Keys /\ FlagsReal' /\ W!TripsInOrder'
  BY <1>1, FlagsStand
<1>11. hand' \in 0..MaxHand /\ overlap' \in BOOLEAN
  BY <1>1, DutyParts DEF W!TypeOK
<1>12. DutyInv'
  BY <1>1, <1>5, <1>7, <1>8, <1>9, <1>10, <1>11, WriteKeeps
<1> QED
  BY <1>6, <1>12 DEF W!GoesOnlineFresh

LEMMA HandBackKeeps ==
  ASSUME DutyInv, NEW r \in Pods, W!HandBack(r)
  PROVE  DutyInv'
<1>1. /\ duty[r].at = "handBack" /\ UNCHANGED <<row, today, hand, overlap>>
      /\ W!Moves(r, "successor")
  BY DEF W!HandBack
<1>2. PICK k \in W!Keys : k = W!Key(duty[r].w)
  BY <1>1, DutyParts DEF RequestOK
<1>3. /\ active' \in [W!Keys -> SUBSET Trips] /\ done' \in [W!Keys -> SUBSET Trips]
      /\ byHand' \subseteq W!Keys /\ FlagsReal' /\ W!TripsInOrder'
  BY <1>2, FlagsWiped DEF W!HandBack
<1>4. RowsKept
  BY <1>1 DEF RowsKept, W!There
<1>5. PICK q : duty' = [duty EXCEPT ![r] = q] /\ RequestOK(q) /\ q.at = "successor"
  BY <1>1, MovesOn
<1>6. RequestOK(q)' /\ q.at \notin Flipping
  BY <1>4, <1>5, RequestStands DEF Flipping
<1>7. W!OneDutyAtATime'
  BY <1>1, OnlineShrinks DEF W!Online, W!There
<1>8. /\ hand' \in 0..MaxHand /\ overlap' \in BOOLEAN
      /\ row' \in [Waybills -> W!Row \cup {W!NoRow}]
  BY <1>1, DutyParts DEF W!TypeOK
<1> QED
  BY <1>1, <1>3, <1>4, <1>5, <1>6, <1>7, <1>8, WriteKeeps

LEMMA MovesQuietly ==
  ASSUME DutyInv, NEW r \in Pods, duty[r].at \notin {"idle", "resetTrips", "resolve", "upcoming"},
         NEW at \in {"successor", "insert"}, W!Moves(r, at),
         at = "insert" => row[duty[r].w].day # MaxDay,
         UNCHANGED <<row, active, done, byHand, today, hand, overlap>>
  PROVE  DutyInv'
<1>1. PICK q : duty' = [duty EXCEPT ![r] = q] /\ RequestOK(q) /\ q.at = at
  BY MovesOn
<1>2. FlipsAlone'
  BY <1>1, NoFlip DEF Flipping
<1> QED
  BY <1>1, <1>2, QuietStep, DutyParts

LEMMA SuccessorKeeps ==
  ASSUME DutyInv, NEW r \in Pods, W!CloseFails(r) \/ W!Successor(r)
  PROVE  DutyInv'
<1>1. CASE W!CloseFails(r)
  BY <1>1, MovesQuietly DEF W!CloseFails
<1>2. CASE W!Successor(r)
  <2>1. duty[r].at = "successor" /\ UNCHANGED <<row, active, done, byHand, today, hand, overlap>>
    BY <1>2 DEF W!Successor
  <2>2. W!Ends(r) \/ (W!Moves(r, "insert") /\ row[duty[r].w].day # MaxDay)
    BY <1>2 DEF W!Successor
  <2> QED
    BY <2>1, <2>2, EndsQuietly, MovesQuietly
<1> QED
  BY <1>1, <1>2

LEMMA InsertKeeps ==
  ASSUME DutyInv, NEW r \in Pods, W!Insert(r)
  PROVE  DutyInv' /\ W!GoesOnlineFresh
<1>1. /\ duty[r].at = "insert" /\ UNCHANGED <<active, done, byHand, today, hand, overlap>> /\ W!Ends(r)
  BY DEF W!Insert
<1>2. CASE row' = row
  <2>1. W!Online' = W!Online
    BY <1>2 DEF W!Online, W!There
  <2> QED
    BY <1>1, <1>2, <2>1, EndsQuietly DEF W!GoesOnlineFresh
<1>3. ASSUME NEW v \in Waybills \ W!There, NEW l \in W!LatestDuty(row[duty[r].w].sched),
             row' = [row EXCEPT ![v] = W!NextDuty(duty[r].w, l)]
      PROVE  DutyInv' /\ W!GoesOnlineFresh
  <2>1. PICK w \in W!There : w = duty[r].w
    BY <1>1, DutyParts DEF RequestOK
  <2>2. row[w] \in W!Row /\ row[w].day \in 1..MaxDay /\ row[w].day # MaxDay
    BY <1>1, <2>1, DutyParts DEF RequestOK, W!Row
  <2>3. row[l].who \in SUBSET Anchors
    BY DutyParts DEF W!LatestDuty, W!Row
  <2>4. row[w].day + 1 \in 1..MaxDay
    BY <2>2, DutiesAssumption
  <2>5. W!NextDuty(w, l) \in W!Row /\ W!NextDuty(w, l).status = "upcoming"
    BY <2>2, <2>3, <2>4 DEF W!NextDuty, W!Row, W!Statuses
  <2>6. /\ row' \in [Waybills -> W!Row \cup {W!NoRow}]
        /\ row'[v].status = "upcoming" /\ \A u \in Waybills \ {v} : row'[u] = row[u]
    BY <1>3, <2>1, <2>5, DutyParts DEF W!TypeOK
  <2>7. RowsKept
    BY <2>6 DEF RowsKept, W!There
  <2>8. \A u \in W!Online' : /\ u \in W!Online /\ row'[u].who = row[u].who
                             /\ row'[u].sched = row[u].sched /\ row'[u].flexi = row[u].flexi
    BY <2>6 DEF W!Online, W!There
  <2>9. W!OneDutyAtATime'
    BY <1>1, <2>8, OnlineShrinks
  <2>10. duty' = [duty EXCEPT ![r] = W!Idle] /\ RequestOK(W!Idle)' /\ W!Idle.at \notin Flipping
    BY <1>1, <2>7, Finished, RequestStands DEF W!Ends
  <2>11. /\ active' \in [W!Keys -> SUBSET Trips] /\ done' \in [W!Keys -> SUBSET Trips]
         /\ byHand' \subseteq W!Keys /\ FlagsReal' /\ W!TripsInOrder'
    BY <1>1, FlagsStand
  <2>12. hand' \in 0..MaxHand /\ overlap' \in BOOLEAN
    BY <1>1, DutyParts DEF W!TypeOK
  <2>13. DutyInv'
    BY <1>1, <2>6, <2>7, <2>9, <2>10, <2>11, <2>12, WriteKeeps
  <2> QED
    BY <2>8, <2>13 DEF W!GoesOnlineFresh
<1> QED
  BY <1>2, <1>3 DEF W!Insert

LEMMA SetStatusKeeps ==
  ASSUME DutyInv, NEW r \in Pods, NEW w \in W!There, NEW s \in HandStatuses, NEW reset \in BOOLEAN,
         W!SetStatus(r, w, s, reset)
  PROVE  DutyInv' /\ W!GoesOnlineFresh
<1> DEFINE new == [row[w] EXCEPT !.status = s]
<1>1. /\ duty[r].at = "idle" /\ hand < MaxHand /\ hand' = hand + 1 /\ row' = [row EXCEPT ![w] = new]
      /\ UNCHANGED <<active, done, byHand, today>>
      /\ overlap' = (overlap \/ s = "online" \/ W!SomebodyFlips)
  BY DEF W!SetStatus
<1>2. /\ new \in W!Row /\ new.status = s /\ new.who = row[w].who
      /\ new.flexi = row[w].flexi /\ new.sched = row[w].sched /\ new.day = row[w].day
  BY DutyParts, NewStatus, DutiesAssumption
<1> HIDE DEF new
<1>3. /\ RowsKept /\ row' \in [Waybills -> W!Row \cup {W!NoRow}]
      /\ W!There' = W!There /\ row'[w] = new /\ \A v \in Waybills \ {w} : row'[v] = row[v]
  BY <1>1, <1>2, RowChanges
<1>4. s # "online" =>
        \A v \in W!Online' : /\ v \in W!Online /\ row'[v].who = row[v].who
                            /\ row'[v].sched = row[v].sched /\ row'[v].flexi = row[v].flexi
  BY <1>2, <1>3 DEF W!Online, W!There
<1>5. (overlap => overlap') /\ (s = "online" => overlap')
  BY <1>1
<1>6. W!OneDutyAtATime' /\ W!GoesOnlineFresh
  <2>1. CASE s # "online"
    BY <1>4, <1>5, <2>1, OnlineShrinks DEF W!GoesOnlineFresh
  <2>2. CASE s = "online"
    BY <1>5, <2>2 DEF W!OneDutyAtATime, W!GoesOnlineFresh
  <2> QED
    BY <2>1, <2>2
<1>7. PICK q : duty' = [duty EXCEPT ![r] = q] /\ RequestOK(q) /\ q.at \in {"idle", "resetTrips"}
  <2> DEFINE z == [at |-> "resetTrips", act |-> "status", anchor |-> None, n |-> 0, w |-> w]
  <2>1. duty' = [duty EXCEPT ![r] = IF ~reset THEN W!Idle ELSE z]
    BY DEF W!SetStatus
  <2>2. RequestOK(z) /\ z.at = "resetTrips" /\ W!Idle.at = "idle"
    BY DEF RequestOK, W!Busy, W!There, W!Idle
  <2>3. CASE reset
    BY <2>1, <2>2, <2>3
  <2>4. CASE ~reset
    BY <2>1, <2>2, <2>4, Finished
  <2> QED
    BY <2>3, <2>4
<1>8. RequestOK(q)' /\ q.at \notin Flipping
  BY <1>3, <1>7, RequestStands DEF Flipping
<1>9. /\ active' \in [W!Keys -> SUBSET Trips] /\ done' \in [W!Keys -> SUBSET Trips]
      /\ byHand' \subseteq W!Keys /\ FlagsReal' /\ W!TripsInOrder'
  BY <1>1, FlagsStand
<1>10. hand' \in 0..MaxHand
  BY <1>1, DutyParts, DutiesAssumption DEF W!TypeOK
<1>11. overlap' \in BOOLEAN
  BY <1>1, DutyParts DEF W!SomebodyFlips
<1>12. ~overlap' => ~W!SomebodyFlips
  BY <1>1
<1> QED
  BY <1>1, <1>3, <1>5, <1>6, <1>7, <1>8, <1>9, <1>10, <1>11, <1>12, WriteKeeps

LEMMA ResetTripsKeeps ==
  ASSUME DutyInv, NEW r \in Pods, W!ResetTrips(r)
  PROVE  DutyInv'
<1>1. /\ duty[r].at = "resetTrips" /\ UNCHANGED <<row, today, hand, overlap>> /\ W!Ends(r)
  BY DEF W!ResetTrips
<1>2. PICK k \in W!Keys : k = row[duty[r].w].sched
  BY <1>1, DutyParts DEF RequestOK, W!Row, W!Keys
<1>3. /\ active' \in [W!Keys -> SUBSET Trips] /\ done' \in [W!Keys -> SUBSET Trips]
      /\ byHand' \subseteq W!Keys /\ FlagsReal' /\ W!TripsInOrder'
  BY <1>2, FlagsWiped DEF W!ResetTrips
<1>4. RowsKept
  BY <1>1 DEF RowsKept, W!There
<1>5. duty' = [duty EXCEPT ![r] = W!Idle] /\ RequestOK(W!Idle)' /\ W!Idle.at \notin Flipping
  BY <1>1, <1>4, Finished, RequestStands DEF W!Ends
<1>6. W!OneDutyAtATime'
  BY <1>1, OnlineShrinks DEF W!Online, W!There
<1>7. /\ hand' \in 0..MaxHand /\ overlap' \in BOOLEAN
      /\ row' \in [Waybills -> W!Row \cup {W!NoRow}]
  BY <1>1, DutyParts DEF W!TypeOK
<1> QED
  BY <1>1, <1>3, <1>4, <1>5, <1>6, <1>7, WriteKeeps

LEMMA SetDetailsKeeps ==
  ASSUME DutyInv, NEW r \in Pods, NEW w \in W!There, NEW who \in Swaps, W!SetDetails(r, w, who)
  PROVE  DutyInv' /\ W!GoesOnlineFresh
<1> DEFINE new == [row[w] EXCEPT !.who = who]
<1>1. /\ duty[r].at = "idle" /\ hand < MaxHand /\ hand' = hand + 1 /\ row' = [row EXCEPT ![w] = new]
      /\ UNCHANGED <<active, done, byHand, today, duty>>
      /\ overlap' = (overlap \/ row[w].status = "online" \/ W!SomebodyFlips)
  BY DEF W!SetDetails
<1>2. /\ new \in W!Row /\ new.status = row[w].status
      /\ new.flexi = row[w].flexi /\ new.sched = row[w].sched /\ new.day = row[w].day
  BY DutyParts, DutiesAssumption DEF W!Row
<1> HIDE DEF new
<1>3. /\ RowsKept /\ row' \in [Waybills -> W!Row \cup {W!NoRow}]
      /\ W!There' = W!There /\ row'[w] = new /\ \A v \in Waybills \ {w} : row'[v] = row[v]
  BY <1>1, <1>2, RowChanges
<1>4. W!Online' = W!Online
  BY <1>2, <1>3 DEF W!Online, W!There
<1>5. ~overlap' => w \notin W!Online
  BY <1>1 DEF W!Online
<1>6. W!OneDutyAtATime' /\ W!GoesOnlineFresh
  <2>1. \A v \in W!Online : v \in Waybills
    BY DEF W!Online, W!There
  <2>2. ~overlap' => \A v \in W!Online : row'[v] = row[v]
    BY <1>3, <1>5, <2>1
  <2> QED
    BY <1>1, <1>4, <2>2, DutyParts DEF W!OneDutyAtATime, W!GoesOnlineFresh
<1>7. duty' = [duty EXCEPT ![r] = duty[r]] /\ RequestOK(duty[r]) /\ duty[r].at \notin Flipping
  <2>1. duty = [duty EXCEPT ![r] = duty[r]]
    BY DutyParts DEF W!TypeOK
  <2> QED
    BY <1>1, <2>1, DutyParts DEF Flipping
<1>8. \A q : RequestOK(q) => RequestOK(q)'
  BY <1>3, RequestStands
<1>9. /\ active' \in [W!Keys -> SUBSET Trips] /\ done' \in [W!Keys -> SUBSET Trips]
      /\ byHand' \subseteq W!Keys /\ FlagsReal' /\ W!TripsInOrder'
  BY <1>1, FlagsStand
<1>10. hand' \in 0..MaxHand
  BY <1>1, DutyParts, DutiesAssumption DEF W!TypeOK
<1>11. overlap' \in BOOLEAN
  BY <1>1, DutyParts DEF W!SomebodyFlips
<1>12. (overlap => overlap') /\ (~overlap' => ~W!SomebodyFlips)
  BY <1>1
<1>13. PICK q : q = duty[r]
  OBVIOUS
<1> QED
  BY <1>1, <1>3, <1>6, <1>7, <1>8, <1>9, <1>10, <1>11, <1>12, <1>13, WriteKeeps

LEMMA UpsertTripKeeps ==
  ASSUME DutyInv, NEW k \in W!Keys, NEW n \in Real[k], NEW on \in BOOLEAN, W!UpsertTrip(k, n, on)
  PROVE  DutyInv'
<1>1. /\ hand < MaxHand /\ hand' = hand + 1 /\ UNCHANGED <<row, done, today, duty>>
      /\ active' = [active EXCEPT ![k] = IF on THEN @ \cup {n} ELSE @ \ {n}]
      /\ byHand' = byHand \cup {k} /\ overlap' = (overlap \/ W!SomebodyFlips)
  BY DEF W!UpsertTrip
<1>2. W!There' = W!There /\ W!Online' = W!Online /\ \A w : W!Key(w)' = W!Key(w)
  BY <1>1 DEF W!There, W!Online, W!Key
<1>3. /\ active' \in [W!Keys -> SUBSET Trips] /\ active'[k] \subseteq Real[k]
      /\ \A j \in W!Keys \ {k} : active'[j] = active[j]
  <2>1. Real[k] \subseteq Trips /\ active[k] \subseteq Real[k]
    BY DutyParts, DutiesAssumption DEF FlagsReal
  <2> QED
    BY <1>1, <2>1, DutyParts DEF W!TypeOK
<1>4. hand' \in 0..MaxHand /\ byHand' \subseteq W!Keys /\ overlap' \in BOOLEAN
  BY <1>1, DutyParts, DutiesAssumption DEF W!TypeOK, W!SomebodyFlips
<1>5. W!TypeOK'
  BY <1>1, <1>2, <1>3, <1>4, DutyParts DEF W!TypeOK
<1>6. \A r \in Pods : RequestOK(duty[r])'
  BY <1>1, <1>2, DutyParts DEF RequestOK
<1>7. FlagsReal' /\ W!TripsInOrder'
  BY <1>1, <1>3, DutyParts DEF FlagsReal, W!TripsInOrder
<1>8. FlipsAlone'
  BY <1>1 DEF FlipsAlone, Flipping, W!SomebodyFlips, W!InFlip
<1>9. W!OneDutyAtATime'
  BY <1>1, <1>2, DutyParts DEF W!OneDutyAtATime
<1> QED
  BY <1>5, <1>6, <1>7, <1>8, <1>9 DEF DutyInv

(* A step that leaves the waybills alone puts none of them online.          *)
LEMMA NothingGoesOnline ==
  ASSUME row' = row
  PROVE  W!GoesOnlineFresh
<1>1. W!There' = W!There
  BY DEF W!There
<1>2. W!Online' = W!Online
  BY <1>1 DEF W!Online
<1>3. W!Online' \ W!Online = {}
  BY <1>2
<1> QED
  BY <1>3 DEF W!GoesOnlineFresh

LEMMA MidnightKeeps ==
  ASSUME DutyInv, W!Midnight
  PROVE  DutyInv'
<1>1. today' \in 1..MaxDay
  BY DutyParts, DutiesAssumption DEF W!Midnight, W!TypeOK
<1>2. UNCHANGED <<row, active, done, byHand, hand, duty, overlap>>
  BY DEF W!Midnight
<1>3. W!There' = W!There /\ W!Online' = W!Online /\ \A w : W!Key(w)' = W!Key(w)
  BY <1>2 DEF W!There, W!Online, W!Key
<1>4. W!TypeOK'
  BY <1>1, <1>2, <1>3, DutyParts DEF W!TypeOK
<1>5. \A r \in Pods : RequestOK(duty[r])'
  BY <1>2, <1>3, DutyParts DEF RequestOK
<1>6. FlipsAlone'
  BY <1>2, <1>3, DutyParts DEF FlipsAlone, Flip
<1> QED
  BY <1>2, <1>3, <1>4, <1>5, <1>6, DutyParts
  DEF DutyInv, FlagsReal, W!TripsInOrder, W!OneDutyAtATime

LEMMA FailsKeeps ==
  ASSUME DutyInv, NEW r \in Pods, W!Fails(r)
  PROVE  DutyInv'
BY EndsQuietly DEF W!Fails

LEMMA NothingHappens ==
  ASSUME DutyInv, UNCHANGED dutyVars
  PROVE  DutyInv'
<1>1. UNCHANGED <<row, active, done, byHand, today, hand, duty, overlap>>
  BY DEF dutyVars
<1>2. W!There' = W!There /\ W!Online' = W!Online /\ \A w : W!Key(w)' = W!Key(w)
  BY <1>1 DEF W!There, W!Online, W!Key
<1>3. W!TypeOK'
  BY <1>1, <1>2, DutyParts DEF W!TypeOK
<1>4. \A r \in Pods : RequestOK(duty[r])'
  BY <1>1, <1>2, DutyParts DEF RequestOK
<1>5. FlipsAlone'
  BY <1>1, <1>2, DutyParts DEF FlipsAlone, Flip
<1> QED
  BY <1>1, <1>2, <1>3, <1>4, <1>5, DutyParts
  DEF DutyInv, FlagsReal, W!TripsInOrder, W!OneDutyAtATime

LEMMA DutyStep ==
  ASSUME DutyInv, [W!Next]_dutyVars
  PROVE  DutyInv' /\ W!GoesOnlineFresh
<1>1. CASE UNCHANGED dutyVars
  BY <1>1, NothingHappens, NothingGoesOnline DEF dutyVars
<1>2. CASE W!Midnight
  BY <1>2, MidnightKeeps, NothingGoesOnline DEF W!Midnight
<1>3. ASSUME NEW r \in Pods, NEW act \in W!Acts, NEW a \in UNION {row[w].who : w \in W!There},
             NEW n \in IF act \in {"look", "reset"} THEN {0}
                       ELSE UNION {Real[W!Key(w)] : w \in W!There},
             W!Call(r, act, a, n)
      PROVE  DutyInv' /\ W!GoesOnlineFresh
  BY <1>3, CallKeeps, NothingGoesOnline DEF W!Call
<1>4. ASSUME NEW r \in Pods, W!Resolve(r)
      PROVE  DutyInv' /\ W!GoesOnlineFresh
  BY <1>4, ResolveKeeps, NothingGoesOnline DEF W!Resolve
<1>5. ASSUME NEW r \in Pods, W!FindUpcoming(r)
      PROVE  DutyInv' /\ W!GoesOnlineFresh
  BY <1>5, FindUpcomingKeeps, NothingGoesOnline DEF W!FindUpcoming
<1>6. ASSUME NEW r \in Pods, W!CheckTrip(r) \/ W!CheckCrew(r)
      PROVE  DutyInv' /\ W!GoesOnlineFresh
  BY <1>6, ChecksKeep, NothingGoesOnline DEF W!CheckTrip, W!CheckCrew
<1>7. ASSUME NEW r \in Pods, W!Clean(r)
      PROVE  DutyInv' /\ W!GoesOnlineFresh
  BY <1>7, CleanKeeps, NothingGoesOnline DEF W!Clean
<1>8. ASSUME NEW r \in Pods, W!Apply(r)
      PROVE  DutyInv' /\ W!GoesOnlineFresh
  BY <1>8, ApplyKeeps, NothingGoesOnline DEF W!Apply
<1>9. ASSUME NEW r \in Pods, W!HandBack(r)
      PROVE  DutyInv' /\ W!GoesOnlineFresh
  BY <1>9, HandBackKeeps, NothingGoesOnline DEF W!HandBack
<1>10. ASSUME NEW r \in Pods, W!CloseFails(r) \/ W!Successor(r)
       PROVE  DutyInv' /\ W!GoesOnlineFresh
  BY <1>10, SuccessorKeeps, NothingGoesOnline DEF W!CloseFails, W!Successor
<1>11. ASSUME NEW r \in Pods, W!ResetTrips(r)
       PROVE  DutyInv' /\ W!GoesOnlineFresh
  BY <1>11, ResetTripsKeeps, NothingGoesOnline DEF W!ResetTrips
<1>12. ASSUME NEW r \in Pods, W!Fails(r)
       PROVE  DutyInv' /\ W!GoesOnlineFresh
  BY <1>12, FailsKeeps, NothingGoesOnline DEF W!Fails
<1>13. ASSUME NEW k \in HandTrips, NEW n \in Real[k], NEW on \in BOOLEAN, W!UpsertTrip(k, n, on)
       PROVE  DutyInv' /\ W!GoesOnlineFresh
  BY <1>13, UpsertTripKeeps, NothingGoesOnline, DutiesAssumption DEF W!UpsertTrip
<1> QED
  BY <1>1, <1>2, <1>3, <1>4, <1>5, <1>6, <1>7, <1>8, <1>9, <1>10, <1>11, <1>12, <1>13,
     OnlineKeeps, CloseKeeps, InsertKeeps, SetStatusKeeps, SetDetailsKeeps
  DEF W!Next, dutyVars

LEMMA DutyInvHolds == W!Init /\ [][W!Next]_dutyVars => []DutyInv
<1>1. DutyInv /\ [W!Next]_dutyVars => DutyInv'
  BY DutyStep
<1> QED
  BY <1>1, DutyInvInitially, PTL

(* At most one trip of a schedule runs, and the trips done all come before   *)
(* it, however the requests and the dashboard's writes interleave, unless a  *)
(* person wrote the trips' rows: apply_trip_action and the resets around it. *)
THEOREM TripsInOrderHolds == PartsSpec => []TripsInOrder
<1>1. DutyInv => TripsInOrder
  BY DEF DutyInv, TripsInOrder
<1> QED
  BY <1>1, DutiesStandAlone, DutyInvHolds, PTL

(* Requests one at a time never put a crew, a vehicle or a schedule on two   *)
(* duties: the checks of resolve_and_flip_upcoming_waybill are enough.       *)
THEOREM OneDutyAtATimeHolds == PartsSpec => []OneDutyAtATime
<1>1. DutyInv => OneDutyAtATime
  BY DEF DutyInv, OneDutyAtATime
<1> QED
  BY <1>1, DutiesStandAlone, DutyInvHolds, PTL

(* A duty goes online with its flags clean, requests one at a time:          *)
(* resolve_and_flip_upcoming_waybill wipes them ahead of the flip.           *)
THEOREM FreshDutyHolds == PartsSpec => FreshDuty
<1>1. DutyInv /\ [W!Next]_dutyVars => [part = "duties" => W!GoesOnlineFresh]_partsVars
  BY DutyStep
<1> QED
  BY <1>1, DutiesStandAlone, DutyInvHolds, PTL DEF FreshDuty

-----------------------------------------------------------------------------
(* The sweeps that make the duties of the days to come                     *)

LEMMA SweepsStandAlone == PartsSpec => S!Init /\ [][S!Next]_sweepVars
<1>1. PartsInit => S!Init
  BY DEF PartsInit
<1>2. [PartsNext]_partsVars => [S!Next]_sweepVars
  BY DEF PartsNext, partsVars, sweepVars
<1> QED
  BY <1>1, <1>2, PTL DEF PartsSpec

Seens == UNION {[D -> [days: SUBSET Nat, till: Nat]] : D \in SUBSET Repeating}
Walks ==
  [at: {"trips", "pick", "latest", "insert", "mark", "record"}, from: Nat \ {0}, to: Nat,
   ids: SUBSET Repeating, todo: SUBSET Repeating, s: Repeating \cup {None},
   missing: SUBSET (Nat \ {0}), start: Nat, stop: Nat, late: BOOLEAN,
   seen: Seens, stale: SUBSET Repeating]

SweepsTyped ==
  /\ config \in [Repeating -> Repeats] /\ till \in [Repeating -> Nat]
  /\ filled \in [Repeating -> SUBSET Nat] /\ tainted \in [Repeating -> BOOLEAN]
  /\ now \in Nat \ {0}
  /\ lease \in [claim: Pods \cup {None}, running: BOOLEAN, due: BOOLEAN, stuck: BOOLEAN]
  /\ walk \in [S!Walkers -> Walks \cup {S!Idle}]

(* A sweep that has not outlived the timeout has the lease.                 *)
LeaseHeld ==
  \A p \in Pods : walk[p] # S!Idle /\ ~walk[p].late =>
    lease.claim = p /\ lease.running /\ ~lease.stuck

(* What a walk has seen of a schedule still holds, unless the repeat was     *)
(* edited or a duty lost since (stale); and the days it has walked have      *)
(* their duties, but for those it has down as missing.                       *)
Honest(x) ==
  /\ x.at \in {"pick", "latest", "insert", "mark"} => x.todo \subseteq DOMAIN x.seen
  /\ x.at \in {"latest", "insert", "mark"} => x.s \in DOMAIN x.seen
  /\ \A s \in DOMAIN x.seen \ x.stale :
       /\ config[s] # Off /\ config[s] = x.seen[s].days
       /\ ~tainted[s] => config[s] \cap (now..x.seen[s].till) \subseteq filled[s]
  /\ x.at \in {"latest", "insert"} /\ x.s \notin x.stale =>
       (config[x.s] \cap (x.start..x.stop)) \ x.missing \subseteq filled[x.s]
  /\ x.at = "latest" => x.missing # {} /\ x.missing \subseteq x.start..x.stop
  /\ x.at = "mark" /\ x.s \notin x.stale => config[x.s] \cap (x.start..x.stop) \subseteq filled[x.s]
WalksHonest == \A w \in S!Walkers : walk[w] # S!Idle => Honest(walk[w])

SweepInv == SweepsTyped /\ LeaseHeld /\ WalksHonest /\ S!WatermarkHonest

(* The numbers have an order whose every set has a first.                   *)
LEMMA NumbersAreOrdered ==
  \E less : /\ \A d, e \in Nat : e < d => <<e, d>> \in less
            /\ IsWellFoundedOn(less, Nat)
<1>1. OpToRel(<, Nat) = {ss \in Nat \X Nat : ss[1] < ss[2]}
  BY Zenon DEF OpToRel
<1>2. IsWellFoundedOn({ss \in Nat \X Nat : ss[1] < ss[2]}, Nat)
  BY <1>1, NatLessThanWellFounded, Zenon
<1>3. PICK less : less = {ss \in Nat \X Nat : ss[1] < ss[2]}
  OBVIOUS
<1>4. \A d, e \in Nat : e < d => <<e, d>> \in less
  BY <1>3
<1>5. IsWellFoundedOn(less, Nat)
  BY <1>2, <1>3, Zenon
<1> QED
  BY <1>4, <1>5

LEMMA LeastIsLeast ==
  ASSUME NEW D \in SUBSET Nat, D # {}
  PROVE  S!Least(D) \in D /\ \A e \in D : S!Least(D) <= e
<1>1. PICK less : /\ \A d, e \in Nat : e < d => <<e, d>> \in less
                  /\ IsWellFoundedOn(less, Nat)
  BY NumbersAreOrdered
<1>2. PICK d \in D : \A e \in D : <<e, d>> \notin less
  BY <1>1, WFMin
<1>3. \A e \in D : ~(e < d)
  BY <1>1, <1>2
<1>4. \A e \in D : d <= e
  BY <1>3
<1> QED
  BY <1>4 DEF S!Least

LEMMA NothingSeen == <<>> \in Seens /\ DOMAIN <<>> = {}
<1>1. <<>> \in [{} -> [days: SUBSET Nat, till: Nat]]
  OBVIOUS
<1> QED
  BY <1>1 DEF Seens

LEMMA DaysAreNumbers == S!Days \subseteq Nat \ {0} /\ MaxDay \in Nat /\ LookAhead \in Nat
BY DutiesAssumption, SweepsAssumption DEF S!Days

LEMMA SweepInvInitially == S!Init => SweepInv
<1> SUFFICES ASSUME S!Init
             PROVE  SweepInv
  OBVIOUS
<1>1. walk = [w \in S!Walkers |-> S!Idle] /\ Pods \subseteq S!Walkers
  BY DEF S!Init, S!Walkers
<1>2. SweepsTyped
  <2>1. filled \in [Repeating -> SUBSET Nat] /\ config \in [Repeating -> Repeats]
    BY SweepsAssumption, DaysAreNumbers DEF S!Init
  <2>2. till \in [Repeating -> Nat] /\ tainted \in [Repeating -> BOOLEAN] /\ now = 1
    BY DEF S!Init
  <2>3. lease \in [claim: Pods \cup {None}, running: BOOLEAN, due: BOOLEAN, stuck: BOOLEAN]
    BY DEF S!Init, S!FirstLease
  <2> QED
    BY <1>1, <2>1, <2>2, <2>3 DEF SweepsTyped
<1>3. LeaseHeld /\ WalksHonest
  BY <1>1 DEF LeaseHeld, WalksHonest
<1>4. S!WatermarkHonest
  <2>1. now..0 = {}
    BY <1>2 DEF SweepsTyped
  <2> QED
    BY <2>1 DEF S!WatermarkHonest, S!Init
<1> QED
  BY <1>2, <1>3, <1>4 DEF SweepInv

(* What keeps a walk honest.                                                *)
Stands(x, y) ==
  /\ y.at = x.at /\ y.todo = x.todo /\ y.s = x.s /\ y.missing = x.missing
  /\ y.start = x.start /\ y.stop = x.stop /\ y.seen = x.seen /\ x.stale \subseteq y.stale

LEMMA HonestStands ==
  ASSUME SweepsTyped, SweepsTyped', NEW x, NEW y, Honest(x), Stands(x, y),
         \A s \in DOMAIN x.seen : x.seen[s].till \in Nat,
         \A s \in DOMAIN x.seen \ y.stale :
           /\ config'[s] = config[s] /\ (tainted[s] => tainted'[s])
           /\ filled[s] \subseteq filled'[s],
         now <= now'
  PROVE  Honest(y)'
<1>1. \A s \in DOMAIN y.seen \ y.stale : s \in DOMAIN x.seen \ x.stale
  BY DEF Stands
<1>2. ASSUME NEW s \in DOMAIN y.seen \ y.stale
      PROVE  /\ config'[s] # Off /\ config'[s] = y.seen[s].days
             /\ ~tainted'[s] => config'[s] \cap (now'..y.seen[s].till) \subseteq filled'[s]
  <2>1. now'..y.seen[s].till \subseteq now..y.seen[s].till
    BY <1>1, <1>2 DEF SweepsTyped, Stands
  <2> QED
    BY <1>1, <1>2, <2>1 DEF Stands, Honest
<1>3. y.at \in {"latest", "insert", "mark"} /\ y.s \notin y.stale =>
        config'[y.s] = config[y.s] /\ filled[y.s] \subseteq filled'[y.s]
  BY DEF Stands, Honest
<1> QED
  BY <1>2, <1>3 DEF Stands, Honest

LEMMA SweepParts ==
  ASSUME SweepInv
  PROVE  SweepsTyped /\ LeaseHeld /\ WalksHonest /\ S!WatermarkHonest
BY DEF SweepInv

LEMMA AtWork ==
  ASSUME SweepInv, NEW w \in S!Walkers, walk[w].at # "idle"
  PROVE  walk[w] \in Walks /\ walk[w] # S!Idle /\ Honest(walk[w])
<1>1. walk[w] \in Walks \cup {S!Idle} /\ S!Idle.at = "idle"
  BY SweepParts DEF SweepsTyped, S!Idle
<1> QED
  BY <1>1, SweepParts DEF WalksHonest

LEMMA SeenTyped ==
  ASSUME NEW x \in Walks
  PROVE  /\ DOMAIN x.seen \subseteq Repeating
         /\ \A s \in DOMAIN x.seen : x.seen[s].till \in Nat /\ x.seen[s].days \subseteq Nat
<1>1. PICK D \in SUBSET Repeating : x.seen \in [D -> [days: SUBSET Nat, till: Nat]]
  BY DEF Walks, Seens
<1> QED
  BY <1>1

(* One walk moves, the others stay as honest as they were.                  *)
LEMMA OneWalks ==
  ASSUME SweepInv, SweepsTyped', NEW w \in S!Walkers, NEW y, walk' = [walk EXCEPT ![w] = y],
         UNCHANGED <<config, now>>,
         \A s \in Repeating : (tainted[s] => tainted'[s]) /\ filled[s] \subseteq filled'[s],
         y # S!Idle => Honest(y)'
  PROVE  WalksHonest'
<1>1. walk'[w] = y /\ \A v \in S!Walkers \ {w} : walk'[v] = walk[v]
  BY SweepParts DEF SweepsTyped
<1>2. now \in Nat
  BY SweepParts DEF SweepsTyped
<1>3. ASSUME NEW v \in S!Walkers \ {w}, walk[v] # S!Idle
      PROVE  Honest(walk[v])'
  <2>1. PICK x \in Walks : x = walk[v] /\ x = walk'[v]
    BY <1>1, <1>3, SweepParts DEF SweepsTyped
  <2>2. Honest(x)
    BY <1>3, <2>1, SweepParts DEF WalksHonest
  <2>3. Stands(x, x) /\ now <= now'
    BY <1>2 DEF Stands
  <2>4. \A s \in DOMAIN x.seen \ x.stale :
          /\ config'[s] = config[s] /\ (tainted[s] => tainted'[s])
          /\ filled[s] \subseteq filled'[s]
    BY SeenTyped
  <2>5. Honest(x)'
    BY <2>2, <2>3, <2>4, SeenTyped, SweepParts, HonestStands
  <2> QED
    BY <2>1, <2>5
<1> QED
  BY <1>1, <1>3 DEF WalksHonest

LEMMA LeaseStays ==
  ASSUME SweepInv, NEW w \in S!Walkers, NEW y, walk' = [walk EXCEPT ![w] = y], lease' = lease,
         y = S!Idle \/ (walk[w] # S!Idle /\ y.late = walk[w].late)
  PROVE  LeaseHeld'
<1>1. walk'[w] = y /\ \A v \in S!Walkers \ {w} : walk'[v] = walk[v]
  BY SweepParts DEF SweepsTyped
<1> QED
  BY <1>1, SweepParts DEF LeaseHeld, S!Walkers

(* A step of a walk that writes nothing, and its end.                       *)
LEMMA WalkOn ==
  ASSUME SweepInv, NEW w \in S!Walkers, NEW y \in Walks, walk' = [walk EXCEPT ![w] = y],
         walk[w] # S!Idle, y.late = walk[w].late, Honest(y),
         UNCHANGED <<config, till, filled, tainted, now, lease>>
  PROVE  SweepInv'
<1>1. SweepsTyped'
  BY SweepParts DEF SweepsTyped
<1>2. Honest(y)'
  BY DEF Honest
<1>3. WalksHonest'
  BY <1>1, <1>2, OneWalks
<1>4. S!WatermarkHonest'
  BY SweepParts DEF S!WatermarkHonest
<1> QED
  BY <1>1, <1>3, <1>4, LeaseStays DEF SweepInv

LEMMA WalkEnds ==
  ASSUME SweepInv, NEW w \in S!Walkers, walk' = [walk EXCEPT ![w] = S!Idle],
         UNCHANGED <<config, till, filled, tainted, now, lease>>
  PROVE  SweepInv'
<1>1. SweepsTyped'
  BY SweepParts DEF SweepsTyped
<1>2. WalksHonest'
  BY <1>1, OneWalks
<1>3. S!WatermarkHonest'
  BY SweepParts DEF S!WatermarkHonest
<1> QED
  BY <1>1, <1>2, <1>3, LeaseStays DEF SweepInv

LEMMA ReadTripsKeeps ==
  ASSUME SweepInv, NEW w \in S!Walkers, S!ReadTrips(w)
  PROVE  SweepInv'
<1> DEFINE ids == {s \in walk[w].ids : config[s] # Off /\ till[s] < walk[w].to}
           seen == [s \in ids |-> [days |-> config[s], till |-> till[s]]]
           new == [walk[w] EXCEPT !.at = "pick", !.ids = {}, !.todo = ids, !.seen = seen]
<1>1. walk[w].at = "trips" /\ UNCHANGED <<config, till, filled, tainted, now, lease>>
  BY DEF S!ReadTrips, S!Going, S!data
<1>2. walk[w] \in Walks /\ walk[w] # S!Idle /\ Honest(walk[w])
  BY <1>1, AtWork
<1>3. walk' = [walk EXCEPT ![w] = new]
  BY DEF S!ReadTrips
<1>4. ids \in SUBSET Repeating /\ \A s \in ids : config[s] # Off
  BY <1>2 DEF Walks
<1>5. \A s \in ids : config[s] \in SUBSET Nat /\ till[s] \in Nat
  BY <1>4, SweepParts, SweepsAssumption, DaysAreNumbers DEF SweepsTyped
<1>6. seen \in Seens /\ DOMAIN seen = ids
  <2>1. seen \in [ids -> [days: SUBSET Nat, till: Nat]]
    BY <1>5
  <2> QED
    BY <1>4, <2>1 DEF Seens
<1> HIDE DEF ids, seen
<1>7. /\ new \in Walks /\ new.late = walk[w].late /\ new.at = "pick" /\ new.todo = ids
      /\ new.seen = seen
  BY <1>2, <1>4, <1>6 DEF Walks
<1>8. \A s \in ids : /\ seen[s].days = config[s] /\ seen[s].till = till[s]
  BY DEF seen
<1>9. Honest(new)
  BY <1>4, <1>6, <1>7, <1>8, SweepParts DEF Honest, S!WatermarkHonest
<1> HIDE DEF new
<1> QED
  BY <1>1, <1>2, <1>3, <1>7, <1>9, WalkOn

LEMMA StartIsLater ==
  ASSUME NEW w \in S!Walkers, walk[w] \in Walks, NEW s \in DOMAIN walk[w].seen
  PROVE  /\ S!Start(w, s) \in Nat \ {0}
         /\ S!Start(w, s) >= walk[w].from
BY SeenTyped DEF S!Start, S!Larger, Walks

LEMMA FindMissingKeeps ==
  ASSUME SweepInv, NEW w \in S!Walkers, S!FindMissing(w)
  PROVE  SweepInv'
<1>1. walk[w].at = "pick" /\ UNCHANGED <<config, till, filled, tainted, now, lease>>
  BY DEF S!FindMissing, S!Going, S!data
<1>2. walk[w] \in Walks /\ walk[w] # S!Idle /\ Honest(walk[w])
  BY <1>1, AtWork
<1>3. PICK s \in walk[w].todo :
        LET missing == (walk[w].seen[s].days \cap (S!Start(w, s)..walk[w].to)) \ filled[s]
        IN  walk' = [walk EXCEPT ![w].at = IF missing = {} THEN "mark" ELSE "latest",
                       ![w].todo = @ \ {s}, ![w].s = s, ![w].missing = missing,
                       ![w].start = S!Start(w, s), ![w].stop = walk[w].to]
  BY DEF S!FindMissing
<1>4. s \in DOMAIN walk[w].seen /\ s \in Repeating
  BY <1>1, <1>2, SeenTyped DEF Honest
<1> DEFINE start == S!Start(w, s)
           missing == (walk[w].seen[s].days \cap (start..walk[w].to)) \ filled[s]
           new == [walk[w] EXCEPT !.at = IF missing = {} THEN "mark" ELSE "latest",
                     !.todo = @ \ {s}, !.s = s, !.missing = missing,
                     !.start = start, !.stop = walk[w].to]
<1>5. walk' = [walk EXCEPT ![w] = new]
  BY <1>3
<1>6. start \in Nat \ {0} /\ missing \in SUBSET (Nat \ {0})
  BY <1>2, <1>4, StartIsLater, SeenTyped DEF Walks
<1>7. /\ walk[w].seen[s].days \cap (start..walk[w].to) \subseteq missing \cup filled[s]
      /\ missing \subseteq start..walk[w].to
  OBVIOUS
<1> HIDE DEF start, missing
<1>8. /\ new \in Walks /\ new.late = walk[w].late /\ new.todo \subseteq walk[w].todo
      /\ new.at = IF missing = {} THEN "mark" ELSE "latest"
      /\ new.s = s /\ new.missing = missing /\ new.start = start /\ new.stop = walk[w].to
      /\ new.seen = walk[w].seen /\ new.stale = walk[w].stale
  BY <1>2, <1>4, <1>6 DEF Walks
<1> HIDE DEF new
<1>9. new.s \notin new.stale => config[s] = walk[w].seen[s].days
  BY <1>2, <1>4, <1>8 DEF Honest
<1>10. Honest(new)
  BY <1>1, <1>2, <1>4, <1>7, <1>8, <1>9 DEF Honest
<1> QED
  BY <1>1, <1>2, <1>5, <1>8, <1>10, WalkOn

LEMMA FindLatestKeeps ==
  ASSUME SweepInv, NEW w \in S!Walkers, S!FindLatest(w)
  PROVE  SweepInv'
<1>1. walk[w].at = "latest" /\ UNCHANGED <<config, till, filled, tainted, now, lease>>
  BY DEF S!FindLatest, S!Going, S!data
<1>2. walk[w] \in Walks /\ walk[w] # S!Idle /\ Honest(walk[w])
  BY <1>1, AtWork
<1>3. CASE filled[walk[w].s] # {}
  <2> DEFINE new == [walk[w] EXCEPT !.at = "insert"]
  <2>1. walk' = [walk EXCEPT ![w] = new]
    BY <1>3 DEF S!FindLatest, S!Onward
  <2>2. /\ new \in Walks /\ new.late = walk[w].late /\ new.at = "insert" /\ new.s = walk[w].s
        /\ new.todo = walk[w].todo /\ new.missing = walk[w].missing /\ new.start = walk[w].start
        /\ new.stop = walk[w].stop /\ new.seen = walk[w].seen /\ new.stale = walk[w].stale
    BY <1>2 DEF Walks
  <2> HIDE DEF new
  <2>3. Honest(new)
    BY <1>1, <1>2, <2>2 DEF Honest
  <2> QED
    BY <1>1, <1>2, <2>1, <2>2, <2>3, WalkOn
<1>4. CASE filled[walk[w].s] = {}
  <2> DEFINE least == S!Least(walk[w].missing)
             new == [walk[w] EXCEPT !.at = "mark", !.stop = least - 1, !.missing = {}]
  <2>1. walk' = [walk EXCEPT ![w] = new]
    BY <1>4 DEF S!FindLatest
  <2>2. /\ walk[w].missing \in SUBSET Nat /\ walk[w].missing # {}
        /\ walk[w].missing \subseteq Nat \ {0}
    BY <1>1, <1>2 DEF Walks, Honest
  <2>3. least \in walk[w].missing /\ \A d \in walk[w].missing : least <= d
    BY <2>2, LeastIsLeast
  <2>4. least - 1 \in Nat /\ \A d \in walk[w].missing : d \notin walk[w].start..(least - 1)
    BY <1>2, <2>2, <2>3 DEF Walks
  <2> HIDE DEF least
  <2>5. /\ new \in Walks /\ new.late = walk[w].late /\ new.at = "mark" /\ new.s = walk[w].s
        /\ new.todo = walk[w].todo /\ new.start = walk[w].start
        /\ new.stop = least - 1 /\ new.seen = walk[w].seen /\ new.stale = walk[w].stale
    BY <1>2, <2>4 DEF Walks
  <2> HIDE DEF new
  <2>6. PICK stop \in Nat : stop = least - 1
    BY <2>4
  <2>7. walk[w].s \notin walk[w].stale =>
          config[walk[w].s] \cap (walk[w].start..stop) \subseteq filled[walk[w].s]
    <3>1. least \in walk[w].start..walk[w].stop
      BY <1>1, <1>2, <2>3 DEF Honest
    <3>2. \A d \in walk[w].start..stop : d \in walk[w].start..walk[w].stop
      BY <1>2, <2>6, <3>1 DEF Walks
    <3> QED
      BY <1>1, <1>2, <2>4, <2>6, <3>2 DEF Honest
  <2>8. Honest(new)
    BY <1>1, <1>2, <2>5, <2>6, <2>7 DEF Honest
  <2> QED
    BY <1>1, <1>2, <2>1, <2>5, <2>8, WalkOn
<1> QED
  BY <1>3, <1>4

LEMMA ChunkKeeps ==
  ASSUME SweepInv, NEW w \in S!Walkers, S!Insert(w)
  PROVE  SweepInv'
<1>1. walk[w].at = "insert" /\ UNCHANGED <<config, till, now, lease, tainted>>
  BY DEF S!Insert, S!Going
<1>2. walk[w] \in Walks /\ walk[w] # S!Idle /\ Honest(walk[w])
  BY <1>1, AtWork
<1>3. PICK chunk \in SUBSET walk[w].missing :
        /\ filled' = [filled EXCEPT ![walk[w].s] = @ \cup chunk]
        /\ walk' = [walk EXCEPT ![w].missing = @ \ chunk,
                      ![w].at = IF chunk = walk[w].missing THEN "mark" ELSE "insert"]
  BY DEF S!Insert
<1>4. PICK new : new = [walk[w] EXCEPT !.missing = @ \ chunk,
                           !.at = IF chunk = walk[w].missing THEN "mark" ELSE "insert"]
  OBVIOUS
<1>5. walk' = [walk EXCEPT ![w] = new]
  BY <1>3, <1>4
<1>6. /\ new \in Walks /\ new.late = walk[w].late /\ new.s = walk[w].s
      /\ new.todo = walk[w].todo /\ new.missing = walk[w].missing \ chunk
      /\ new.start = walk[w].start /\ new.stop = walk[w].stop
      /\ new.seen = walk[w].seen /\ new.stale = walk[w].stale
      /\ new.at = IF chunk = walk[w].missing THEN "mark" ELSE "insert"
  BY <1>2, <1>3, <1>4 DEF Walks
<1>7. walk[w].s \in DOMAIN walk[w].seen /\ walk[w].s \in Repeating /\ chunk \subseteq Nat
  BY <1>1, <1>2, <1>3, SeenTyped DEF Honest, Walks
<1>8. /\ filled' \in [Repeating -> SUBSET Nat]
      /\ filled'[walk[w].s] = filled[walk[w].s] \cup chunk
      /\ \A s \in Repeating : filled[s] \subseteq filled'[s]
  BY <1>3, <1>7, SweepParts DEF SweepsTyped
<1>9. SweepsTyped'
  BY <1>1, <1>5, <1>6, <1>8, SweepParts DEF SweepsTyped
<1>10. walk[w].s \notin walk[w].stale =>
        (config[walk[w].s] \cap (walk[w].start..walk[w].stop)) \ new.missing \subseteq filled'[walk[w].s]
  BY <1>1, <1>2, <1>6, <1>8 DEF Honest
<1>11. \A s \in DOMAIN walk[w].seen \ walk[w].stale :
         /\ config[s] # Off /\ config[s] = walk[w].seen[s].days
         /\ ~tainted[s] => config[s] \cap (now..walk[w].seen[s].till) \subseteq filled'[s]
  BY <1>2, <1>8, SeenTyped DEF Honest
<1>12. Honest(new)'
  BY <1>1, <1>2, <1>6, <1>7, <1>10, <1>11 DEF Honest
<1>13. WalksHonest'
  BY <1>1, <1>5, <1>8, <1>9, <1>12, OneWalks
<1>14. S!WatermarkHonest'
  BY <1>1, <1>8, SweepParts DEF S!WatermarkHonest
<1> QED
  BY <1>1, <1>2, <1>5, <1>6, <1>9, <1>13, <1>14, LeaseStays DEF SweepInv

(* The watermark moves over days that are all there.                        *)
LEMMA MarkKeeps ==
  ASSUME SweepInv, NEW w \in S!Walkers, S!Mark(w)
  PROVE  SweepInv'
<1>0. PICK new : new = [walk[w] EXCEPT !.at = "pick", !.s = None, !.start = 0, !.stop = 0]
  OBVIOUS
<1>1. /\ walk[w].at = "mark" /\ UNCHANGED <<config, filled, now, lease>>
      /\ walk' = [walk EXCEPT ![w] = new]
  BY <1>0 DEF S!Mark, S!Going
<1>2. walk[w] \in Walks /\ walk[w] # S!Idle /\ Honest(walk[w])
  BY <1>1, AtWork
<1>3. PICK s \in Repeating : s = walk[w].s /\ s \in DOMAIN walk[w].seen
  BY <1>1, <1>2, SeenTyped DEF Honest
<1>4. /\ new \in Walks /\ new.late = walk[w].late /\ new.at = "pick" /\ new.todo = walk[w].todo
      /\ new.seen = walk[w].seen /\ new.stale = walk[w].stale
  BY <1>0, <1>2 DEF Walks
<1>5. CASE UNCHANGED <<till, tainted>>
  <2>1. Honest(new)
    BY <1>1, <1>2, <1>4 DEF Honest
  <2> QED
    BY <1>1, <1>2, <1>4, <1>5, <2>1, WalkOn
<1>6. CASE /\ till' = [till EXCEPT ![s] = walk[w].stop]
           /\ tainted' = [tainted EXCEPT ![s] = @ \/ S!Groundless(w)]
  <2>1. S!Groundless(w) \in BOOLEAN /\ walk[w].stop \in Nat
    BY <1>2 DEF S!Groundless, Walks
  <2>2. /\ till' \in [Repeating -> Nat] /\ tainted' \in [Repeating -> BOOLEAN]
        /\ till'[s] = walk[w].stop /\ tainted'[s] = (tainted[s] \/ S!Groundless(w))
        /\ \A o \in Repeating \ {s} : till'[o] = till[o] /\ tainted'[o] = tainted[o]
    BY <1>6, <2>1, SweepParts DEF SweepsTyped
  <2>3. SweepsTyped'
    BY <1>1, <1>4, <2>2, SweepParts DEF SweepsTyped
  <2>4. \A o \in Repeating : tainted[o] => tainted'[o]
    BY <2>2
  <2>5. Honest(new)'
    BY <1>1, <1>2, <1>4, <2>4, SeenTyped DEF Honest
  <2>6. WalksHonest'
    BY <1>1, <2>3, <2>4, <2>5, OneWalks
  <2>7. ASSUME ~tainted'[s]
        PROVE  config[s] \cap (now..walk[w].stop) \subseteq filled[s]
    <3>1. /\ s \notin walk[w].stale /\ ~tainted[s]
          /\ ~(walk[w].start > S!Larger(now, walk[w].seen[s].till + 1))
      BY <1>3, <2>2, <2>7 DEF S!Groundless
    <3>2. config[s] \cap (now..walk[w].seen[s].till) \subseteq filled[s]
      BY <1>2, <1>3, <3>1 DEF Honest
    <3>3. config[s] \cap (walk[w].start..walk[w].stop) \subseteq filled[s]
      BY <1>1, <1>2, <1>3, <3>1 DEF Honest
    <3>4. PICK t \in Nat : t = walk[w].seen[s].till
      BY <1>2, <1>3, SeenTyped
    <3>5. now \in Nat /\ walk[w].start \in Nat
      BY <1>2, SweepParts DEF SweepsTyped, Walks
    <3>6. \A d \in now..walk[w].stop : d \in now..t \/ d \in walk[w].start..walk[w].stop
      BY <2>1, <3>1, <3>4, <3>5 DEF S!Larger
    <3> QED
      BY <3>2, <3>3, <3>4, <3>6
  <2>8. S!WatermarkHonest'
    BY <1>1, <2>2, <2>7, SweepParts DEF S!WatermarkHonest
  <2> QED
    BY <1>1, <1>2, <1>4, <2>3, <2>6, <2>8, LeaseStays DEF SweepInv
<1> QED
  BY <1>3, <1>5, <1>6 DEF S!Mark

LEMMA ThroughKeeps ==
  ASSUME SweepInv, NEW w \in S!Walkers, walk[w].at # "idle",
         walk' = [walk EXCEPT ![w] = S!Through(w)],
         UNCHANGED <<config, till, filled, tainted, now, lease>>
  PROVE  SweepInv'
<1>1. walk[w] \in Walks /\ walk[w] # S!Idle
  BY AtWork
<1>2. CASE w \in Pods
  <2> DEFINE new == [walk[w] EXCEPT !.at = "record", !.seen = <<>>, !.stale = {}]
  <2>1. walk' = [walk EXCEPT ![w] = new]
    BY <1>2 DEF S!Through
  <2>2. /\ new \in Walks /\ new.late = walk[w].late /\ new.at = "record" /\ DOMAIN new.seen = {}
    BY <1>1, NothingSeen DEF Walks
  <2> HIDE DEF new
  <2>3. Honest(new)
    BY <2>2 DEF Honest
  <2> QED
    BY <1>1, <2>1, <2>2, <2>3, WalkOn
<1>3. CASE w \notin Pods
  BY <1>3, WalkEnds DEF S!Through
<1> QED
  BY <1>2, <1>3

LEMMA EndsKeep ==
  ASSUME SweepInv, NEW w \in S!Walkers, S!EndWalk(w) \/ S!Fail(w)
  PROVE  SweepInv'
<1>1. /\ walk[w].at # "idle" /\ walk' = [walk EXCEPT ![w] = S!Through(w)]
      /\ UNCHANGED <<config, till, filled, tainted, now, lease>>
  BY DEF S!EndWalk, S!Fail, S!Going, S!data
<1> QED
  BY <1>1, ThroughKeeps

LEMMA DieKeeps ==
  ASSUME SweepInv, NEW p \in Pods, S!Die(p)
  PROVE  SweepInv'
BY WalkEnds DEF S!Die, S!data, S!Walkers

(* A walk that begins.                                                      *)
LEMMA WalkBegins ==
  ASSUME NEW from \in Nat \ {0}, NEW to \in Nat, NEW ids \in SUBSET Repeating
  PROVE  LET x == S!Walk(from, to, ids)
         IN  x \in Walks /\ ~x.late /\ Honest(x) /\ Honest(x)'
BY NothingSeen DEF S!Walk, Walks, Honest

LEMMA SweepKeeps ==
  ASSUME SweepInv, NEW p \in Pods, S!Sweep(p)
  PROVE  SweepInv'
<1>1. /\ S!Claimable /\ lease' = [lease EXCEPT !.claim = p, !.running = TRUE, !.stuck = FALSE]
      /\ walk' = [walk EXCEPT ![p] = S!Walk(now, now + LookAhead, Repeating)]
      /\ UNCHANGED <<config, till, filled, tainted, now>> /\ p \in S!Walkers
  BY DEF S!Sweep, S!data, S!Walkers
<1>2. PICK x : x = S!Walk(now, now + LookAhead, Repeating)
  OBVIOUS
<1>3. x \in Walks /\ ~x.late /\ Honest(x)'
  BY <1>2, WalkBegins, SweepParts, DaysAreNumbers DEF SweepsTyped
<1>4. /\ lease'.claim = p /\ lease'.running /\ ~lease'.stuck
      /\ lease' \in [claim: Pods \cup {None}, running: BOOLEAN, due: BOOLEAN, stuck: BOOLEAN]
  BY <1>1, SweepParts DEF SweepsTyped
<1>5. SweepsTyped'
  BY <1>1, <1>2, <1>3, <1>4, SweepParts DEF SweepsTyped
<1>6. WalksHonest'
  BY <1>1, <1>2, <1>3, <1>5, OneWalks
<1>7. LeaseHeld'
  <2>1. \A q \in Pods : walk[q] # S!Idle => walk[q].late
    BY <1>1, NoneAssumption, SweepParts DEF LeaseHeld, S!Claimable
  <2>2. \A q \in Pods \ {p} : walk'[q] = walk[q]
    BY <1>1, SweepParts DEF SweepsTyped, S!Walkers
  <2> QED
    BY <1>4, <2>1, <2>2 DEF LeaseHeld
<1>8. S!WatermarkHonest'
  BY <1>1, SweepParts DEF S!WatermarkHonest
<1> QED
  BY <1>5, <1>6, <1>7, <1>8 DEF SweepInv

LEMMA RecordKeeps ==
  ASSUME SweepInv, NEW p \in Pods, S!Record(p)
  PROVE  SweepInv'
<1>1. /\ lease' = IF lease.claim = p THEN [lease EXCEPT !.running = FALSE, !.due = FALSE] ELSE lease
      /\ walk' = [walk EXCEPT ![p] = S!Idle]
      /\ UNCHANGED <<config, till, filled, tainted, now>> /\ p \in S!Walkers
  BY DEF S!Record, S!data, S!Walkers
<1>2. SweepsTyped'
  BY <1>1, SweepParts DEF SweepsTyped
<1>3. WalksHonest'
  BY <1>1, <1>2, OneWalks
<1>4. LeaseHeld'
  <2>1. walk'[p] = S!Idle /\ \A q \in Pods \ {p} : walk'[q] = walk[q]
    BY <1>1, SweepParts DEF SweepsTyped, S!Walkers
  <2>2. lease.claim # p => lease' = lease
    BY <1>1
  <2> QED
    BY <2>1, <2>2, SweepParts DEF LeaseHeld
<1>5. S!WatermarkHonest'
  BY <1>1, SweepParts DEF S!WatermarkHonest
<1> QED
  BY <1>2, <1>3, <1>4, <1>5 DEF SweepInv

LEMMA DueKeeps ==
  ASSUME SweepInv, S!Due
  PROVE  SweepInv'
<1>1. /\ lease' = [lease EXCEPT !.due = TRUE]
      /\ UNCHANGED <<config, till, filled, tainted, now, walk>>
  BY DEF S!Due, S!data
<1>2. SweepsTyped'
  BY <1>1, SweepParts DEF SweepsTyped
<1>3. LeaseHeld'
  BY <1>1, SweepParts DEF LeaseHeld, SweepsTyped
<1>4. WalksHonest' /\ S!WatermarkHonest'
  BY <1>1, SweepParts DEF WalksHonest, Honest, S!WatermarkHonest
<1> QED
  BY <1>2, <1>3, <1>4 DEF SweepInv

LEMMA StuckKeeps ==
  ASSUME SweepInv, S!Stuck
  PROVE  SweepInv'
<1>1. PICK p \in Pods \cup {None} : p = lease.claim
  BY SweepParts DEF SweepsTyped
<1>2. /\ lease' = [lease EXCEPT !.stuck = TRUE]
      /\ walk' = [walk EXCEPT ![p] = IF @ = S!Idle THEN S!Idle ELSE [@ EXCEPT !.late = TRUE]]
      /\ UNCHANGED <<config, till, filled, tainted, now>>
  BY <1>1 DEF S!Stuck, S!data
<1>3. lease' \in [claim: Pods \cup {None}, running: BOOLEAN, due: BOOLEAN, stuck: BOOLEAN]
  BY <1>2, SweepParts DEF SweepsTyped
<1>4. CASE p \notin S!Walkers
  <2>1. walk' = walk
    BY <1>2, <1>4, SweepParts DEF SweepsTyped
  <2>2. SweepsTyped'
    BY <1>2, <1>3, <2>1, SweepParts DEF SweepsTyped
  <2>3. LeaseHeld'
    BY <1>1, <1>4, <2>1, SweepParts DEF LeaseHeld, S!Walkers
  <2>4. WalksHonest' /\ S!WatermarkHonest'
    BY <1>2, <2>1, SweepParts DEF WalksHonest, Honest, S!WatermarkHonest
  <2> QED
    BY <2>2, <2>3, <2>4 DEF SweepInv
<1>5. CASE p \in S!Walkers
  <2>1. PICK y : y = IF walk[p] = S!Idle THEN S!Idle ELSE [walk[p] EXCEPT !.late = TRUE]
    OBVIOUS
  <2>2. walk' = [walk EXCEPT ![p] = y]
    BY <1>2, <2>1
  <2>3. walk[p] # S!Idle =>
          /\ walk[p] \in Walks /\ Honest(walk[p]) /\ y \in Walks /\ y.late /\ Stands(walk[p], y)
    <3>1. walk[p] # S!Idle => walk[p] \in Walks /\ Honest(walk[p])
      BY <1>5, SweepParts DEF SweepsTyped, WalksHonest
    <3> QED
      BY <2>1, <3>1 DEF Walks, Stands
  <2>4. SweepsTyped'
    BY <1>2, <1>3, <1>5, <2>1, <2>2, <2>3, SweepParts DEF SweepsTyped
  <2>5. y # S!Idle => Honest(y)'
    <3>1. y # S!Idle => walk[p] # S!Idle
      BY <2>1
    <3>2. y # S!Idle => Honest(y)
      BY <2>3, <3>1 DEF Honest, Stands
    <3> QED
      BY <1>2, <3>2 DEF Honest
  <2>6. WalksHonest'
    BY <1>2, <1>5, <2>2, <2>4, <2>5, OneWalks
  <2>7. LeaseHeld'
    <3>1. walk'[p] = y /\ \A q \in Pods \ {p} : walk'[q] = walk[q]
      BY <1>5, <2>2, SweepParts DEF SweepsTyped, S!Walkers
    <3> QED
      BY <1>1, <2>1, <2>3, <3>1, SweepParts DEF LeaseHeld
  <2>8. S!WatermarkHonest'
    BY <1>2, SweepParts DEF S!WatermarkHonest
  <2> QED
    BY <2>4, <2>6, <2>7, <2>8 DEF SweepInv
<1> QED
  BY <1>4, <1>5

LEMMA GenerateKeeps ==
  ASSUME SweepInv, NEW u \in Users, NEW g \in Ranges, NEW ids \in SUBSET Repeating,
         S!Generate(u, g[1], g[2], ids)
  PROVE  SweepInv'
<1>1. /\ walk' = [walk EXCEPT ![u] = S!Walk(g[1], g[2], ids)]
      /\ UNCHANGED <<config, till, filled, tainted, now, lease>> /\ u \in S!Walkers
  BY DEF S!Generate, S!data, S!Walkers
<1>2. g[1] \in Nat \ {0} /\ g[2] \in Nat
  BY SweepsAssumption, DaysAreNumbers
<1>3. PICK x : x = S!Walk(g[1], g[2], ids)
  OBVIOUS
<1>4. x \in Walks /\ Honest(x)'
  BY <1>2, <1>3, WalkBegins
<1>5. SweepsTyped'
  BY <1>1, <1>3, <1>4, SweepParts DEF SweepsTyped
<1>6. WalksHonest'
  BY <1>1, <1>3, <1>4, <1>5, OneWalks
<1>7. LeaseHeld'
  <2>1. \A q \in Pods : walk'[q] = walk[q]
    BY <1>1, SweepParts, SweepsAssumption DEF SweepsTyped, S!Walkers
  <2> QED
    BY <1>1, <2>1, SweepParts DEF LeaseHeld
<1>8. S!WatermarkHonest'
  BY <1>1, SweepParts DEF S!WatermarkHonest
<1> QED
  BY <1>5, <1>6, <1>7, <1>8 DEF SweepInv

(* A schedule whose repeat or duties change is stale to all who have seen it. *)
LEMMA ChangedKeeps ==
  ASSUME SweepInv, NEW s \in Repeating, S!Changed(s), UNCHANGED <<now, lease>>,
         config' \in [Repeating -> Repeats], till' \in [Repeating -> Nat],
         filled' \in [Repeating -> SUBSET Nat], tainted' \in [Repeating -> BOOLEAN],
         \A o \in Repeating \ {s} :
           config'[o] = config[o] /\ filled'[o] = filled[o] /\ tainted'[o] = tainted[o]
  PROVE  SweepsTyped' /\ LeaseHeld' /\ WalksHonest'
<1>1. ASSUME NEW w \in S!Walkers
      PROVE  /\ walk'[w] \in Walks \cup {S!Idle}
             /\ walk[w] = S!Idle => walk'[w] = S!Idle
             /\ walk[w] # S!Idle =>
                  /\ walk[w] \in Walks /\ walk'[w] \in Walks /\ Stands(walk[w], walk'[w])
                  /\ walk'[w].late = walk[w].late
                  /\ s \in DOMAIN walk[w].seen => s \in walk'[w].stale
  <2>1. walk'[w] = IF walk[w] # S!Idle /\ s \in DOMAIN walk[w].seen
                   THEN [walk[w] EXCEPT !.stale = @ \cup {s}] ELSE walk[w]
    BY <1>1 DEF S!Changed
  <2>2. walk[w] # S!Idle => walk[w] \in Walks
    BY <1>1, SweepParts DEF SweepsTyped
  <2> QED
    BY <2>1, <2>2 DEF Walks, Stands
<1>2. SweepsTyped'
  <2>1. walk' \in [S!Walkers -> Walks \cup {S!Idle}]
    BY <1>1 DEF S!Changed
  <2> QED
    BY <2>1, SweepParts DEF SweepsTyped
<1>3. LeaseHeld'
  BY <1>1, SweepParts DEF LeaseHeld, S!Walkers
<1>4. ASSUME NEW w \in S!Walkers, walk'[w] # S!Idle
      PROVE  Honest(walk[w])'
  <2>1. PICK x \in Walks, y \in Walks : x = walk[w] /\ y = walk'[w]
    BY <1>1, <1>4
  <2>2. Honest(x) /\ Stands(x, y) /\ (s \in DOMAIN x.seen => s \in y.stale)
    BY <1>1, <1>4, <2>1, SweepParts DEF WalksHonest
  <2>3. \A o \in DOMAIN x.seen \ y.stale :
          /\ config'[o] = config[o] /\ (tainted[o] => tainted'[o]) /\ filled[o] \subseteq filled'[o]
    BY <2>2, SeenTyped
  <2>4. now <= now'
    BY SweepParts DEF SweepsTyped
  <2>5. Honest(y)'
    BY <1>2, <2>2, <2>3, <2>4, SeenTyped, SweepParts, HonestStands
  <2> QED
    BY <2>1, <2>5
<1> QED
  BY <1>2, <1>3, <1>4 DEF WalksHonest

LEMMA SetConfigKeeps ==
  ASSUME SweepInv, NEW s \in Repeating, NEW c \in Repeats, S!SetConfig(s, c)
  PROVE  SweepInv'
<1>1. /\ config' = [config EXCEPT ![s] = c] /\ till' = [till EXCEPT ![s] = 0]
      /\ tainted' = [tainted EXCEPT ![s] = FALSE] /\ S!Changed(s)
      /\ UNCHANGED <<filled, now, lease>>
  BY DEF S!SetConfig
<1>2. /\ config' \in [Repeating -> Repeats] /\ till' \in [Repeating -> Nat]
      /\ tainted' \in [Repeating -> BOOLEAN] /\ till'[s] = 0
      /\ \A o \in Repeating \ {s} :
           config'[o] = config[o] /\ till'[o] = till[o] /\ tainted'[o] = tainted[o]
  BY <1>1, SweepParts DEF SweepsTyped
<1>3. SweepsTyped' /\ LeaseHeld' /\ WalksHonest'
  BY <1>1, <1>2, ChangedKeeps, SweepParts DEF SweepsTyped
<1>4. now..0 = {}
  BY SweepParts DEF SweepsTyped
<1>5. S!WatermarkHonest'
  BY <1>1, <1>2, <1>4, SweepParts DEF S!WatermarkHonest
<1> QED
  BY <1>3, <1>5 DEF SweepInv

LEMMA AddDutyKeeps ==
  ASSUME SweepInv, NEW s \in Repeating, NEW d \in S!Days, S!AddDuty(s, d)
  PROVE  SweepInv'
<1>1. /\ filled' = [filled EXCEPT ![s] = @ \cup {d}]
      /\ UNCHANGED <<config, till, now, lease, walk, tainted>>
  BY DEF S!AddDuty
<1>2. /\ filled' \in [Repeating -> SUBSET Nat]
      /\ \A o \in Repeating : filled[o] \subseteq filled'[o]
  BY <1>1, DaysAreNumbers, SweepParts DEF SweepsTyped
<1>3. SweepsTyped' /\ now \in Nat
  BY <1>1, <1>2, SweepParts DEF SweepsTyped
<1>4. ASSUME NEW w \in S!Walkers, walk[w] # S!Idle
      PROVE  Honest(walk[w])'
  <2>1. PICK x \in Walks : x = walk[w]
    BY <1>4, SweepParts DEF SweepsTyped
  <2>2. Honest(x) /\ Stands(x, x) /\ now <= now'
    BY <1>1, <1>3, <1>4, <2>1, SweepParts DEF WalksHonest, Stands
  <2>3. \A o \in DOMAIN x.seen \ x.stale :
          /\ config'[o] = config[o] /\ (tainted[o] => tainted'[o]) /\ filled[o] \subseteq filled'[o]
    BY <1>1, <1>2, SeenTyped
  <2>4. Honest(x)'
    BY <1>3, <2>2, <2>3, SeenTyped, SweepParts, HonestStands
  <2> QED
    BY <1>1, <2>1, <2>4
<1>5. S!WatermarkHonest'
  BY <1>1, <1>2, SweepParts DEF S!WatermarkHonest
<1> QED
  BY <1>1, <1>3, <1>4, <1>5, SweepParts DEF SweepInv, LeaseHeld, WalksHonest

LEMMA DeleteDutyKeeps ==
  ASSUME SweepInv, NEW s \in Repeating, NEW d \in S!Days, S!DeleteDuty(s, d)
  PROVE  SweepInv'
<1>1. /\ filled' = [filled EXCEPT ![s] = @ \ {d}] /\ tainted' = [tainted EXCEPT ![s] = TRUE]
      /\ S!Changed(s) /\ UNCHANGED <<config, till, now, lease>>
  BY DEF S!DeleteDuty
<1>2. /\ filled' \in [Repeating -> SUBSET Nat] /\ tainted' \in [Repeating -> BOOLEAN] /\ tainted'[s]
      /\ \A o \in Repeating \ {s} : filled'[o] = filled[o] /\ tainted'[o] = tainted[o]
  BY <1>1, SweepParts DEF SweepsTyped
<1>3. SweepsTyped' /\ LeaseHeld' /\ WalksHonest'
  BY <1>1, <1>2, ChangedKeeps, SweepParts DEF SweepsTyped
<1>4. S!WatermarkHonest'
  BY <1>1, <1>2, SweepParts DEF S!WatermarkHonest
<1> QED
  BY <1>3, <1>4 DEF SweepInv

LEMMA DayGoesBy ==
  ASSUME SweepInv, S!Midnight
  PROVE  SweepInv'
<1>1. now' = now + 1 /\ UNCHANGED <<config, till, filled, tainted, lease, walk>>
  BY DEF S!Midnight, S!data
<1>2. SweepsTyped' /\ now \in Nat /\ now <= now'
  BY <1>1, SweepParts DEF SweepsTyped
<1>3. ASSUME NEW w \in S!Walkers, walk[w] # S!Idle
      PROVE  Honest(walk[w])'
  <2>1. PICK x \in Walks : x = walk[w]
    BY <1>3, SweepParts DEF SweepsTyped
  <2>2. Honest(x) /\ Stands(x, x)
    BY <1>3, <2>1, SweepParts DEF WalksHonest, Stands
  <2>3. Honest(x)'
    BY <1>1, <1>2, <2>2, SeenTyped, SweepParts, HonestStands
  <2> QED
    BY <1>1, <2>1, <2>3
<1>4. S!WatermarkHonest'
  <2>1. \A s \in Repeating : now'..till[s] \subseteq now..till[s]
    BY <1>1, SweepParts DEF SweepsTyped
  <2> QED
    BY <1>1, <2>1, SweepParts DEF S!WatermarkHonest
<1> QED
  BY <1>1, <1>2, <1>3, <1>4, SweepParts DEF SweepInv, LeaseHeld, WalksHonest

LEMMA SweepInvKept ==
  ASSUME SweepInv, [S!Next]_sweepVars
  PROVE  SweepInv'
<1>1. CASE UNCHANGED sweepVars
  BY <1>1, SweepParts
  DEF sweepVars, SweepInv, SweepsTyped, LeaseHeld, WalksHonest, Honest, S!WatermarkHonest
<1>2. ASSUME NEW w \in S!Walkers, S!Step(w) \/ S!Fail(w)
      PROVE  SweepInv'
  BY <1>2, ReadTripsKeeps, FindMissingKeeps, FindLatestKeeps, ChunkKeeps, MarkKeeps, EndsKeep
  DEF S!Step
<1> QED
  BY <1>1, <1>2, SweepKeeps, RecordKeeps, DieKeeps, DueKeeps, StuckKeeps, DayGoesBy, GenerateKeeps,
     SetConfigKeeps, AddDutyKeeps, DeleteDutyKeeps DEF S!Next

LEMMA SweepInvHolds == S!Init /\ [][S!Next]_sweepVars => []SweepInv
BY SweepInvInitially, SweepInvKept, PTL

(* Every day up to a schedule's watermark has its duty, whoever walks and    *)
(* whatever fails half way (walk_schedule_trip_repeats), until a range skips *)
(* days, a duty is lost, or the repeat is edited under a walk.               *)
THEOREM WatermarkHonestHolds == PartsSpec => []WatermarkHonest
<1>1. SweepInv => WatermarkHonest
  BY DEF SweepInv, WatermarkHonest
<1> QED
  BY <1>1, SweepInvHolds, SweepsStandAlone, PTL

(* Two pods sweep at once only if one has outlived the stuck timeout: the    *)
(* claim of run_repeater_reconciler_tick and the fence on its end.           *)
THEOREM OneSweepHolds == PartsSpec => []OneSweep
<1>1. SweepInv => OneSweep
  BY DEF SweepInv, LeaseHeld, OneSweep, S!OneSweep
<1> QED
  BY <1>1, SweepInvHolds, SweepsStandAlone, PTL
=============================================================================
