-------------------------- MODULE EditorPartsProofs --------------------------
(***************************************************************************)
(* Proofs about the editor's parts of SideBySide: reloads of a feed        *)
(* (FeedReload), the lines of GPS accounts (GpsSync), and moving master's  *)
(* work to prod (Migration), for any number of pods, change sets, codes,   *)
(* routes, weeks, runs that die, rows, versions and read-ins.              *)
(***************************************************************************)
EXTENDS SideBySide, FiniteSetTheorems, SequenceTheorems, WellFoundedInduction, TLAPS

-----------------------------------------------------------------------------
(* Reloading a feed                                                        *)

LEMMA ReloadStandsAlone == PartsSpec => F!Init /\ [][F!Next]_reloadVars
<1>1. PartsInit => F!Init
  BY DEF PartsInit
<1>2. [PartsNext]_partsVars => [F!Next]_reloadVars
  BY DEF PartsNext, partsVars, reloadVars
<1> QED
  BY <1>1, <1>2, PTL DEF PartsSpec

Promise == [zip: Zips, version: Nat, code: Nat]
Ticket  == [zip: Zips, version: Nat, code: Nat, saw: Nat]
Confirming(kind, Of) ==
  [at: {"code", "load"}, kind: {kind}, code: Nat, before: Nat, ticket: SUBSET Of]
ChangeSet == [status: F!Open \cup {"rejected", "discarded", "committed"}, on: Nat, reopened: BOOLEAN]

ReloadTyped ==
  /\ feedVersion \in Nat /\ loads \in Nat /\ last \in Nat /\ time \in Nat
  /\ draft \in [Drafts -> ChangeSet \cup {F!NoDraft}]
  /\ tickets \subseteq Ticket
  /\ confirming \in [Pods -> Confirming("signIn", {}) \cup Confirming("check", Promise)
                               \cup Confirming("reload", Ticket) \cup {F!Idle}]

(* A ticket's check saw its feed no older than the ticket says, and its code *)
(* is used up.                                                               *)
TicketsHonest ==
  \A t \in tickets : t.version <= t.saw /\ t.saw <= feedVersion /\ t.code <= last

(* What a check is about to promise; its code is used up before it looks.    *)
ChecksHonest ==
  \A r \in Pods : confirming[r].at # "idle" /\ confirming[r].kind = "check" =>
    \A t \in confirming[r].ticket :
      /\ t.version <= feedVersion /\ t.code = confirming[r].code
      /\ confirming[r].at = "load" => t.code <= last

(* A reload brings a ticket that was honest, and a code newer than its.      *)
ReloadsHonest ==
  \A r \in Pods : confirming[r].at # "idle" /\ confirming[r].kind = "reload" =>
    \A t \in confirming[r].ticket :
      /\ t.version <= t.saw /\ t.saw <= feedVersion /\ t.code <= confirming[r].before
      /\ confirming[r].at = "load" => confirming[r].before < confirming[r].code

ReloadInv ==
  ReloadTyped /\ TicketsHonest /\ ChecksHonest /\ ReloadsHonest /\ F!DraftsStandOnRows

LEMMA ReloadInvInitially == F!Init => ReloadInv
BY DEF F!Init, ReloadInv, ReloadTyped, TicketsHonest, ChecksHonest, ReloadsHonest,
       F!DraftsStandOnRows, F!NoDraft, F!Idle, F!Open

LEMMA CodesAreNumbers == ASSUME ReloadTyped, NEW c \in F!Codes PROVE c \in Nat
BY DEF ReloadTyped, F!Codes

(* A request begins with what it is given and what it reads.                *)
LEMMA BeginsHonest ==
  ASSUME ReloadInv, NEW r \in Pods, NEW kind, NEW code \in Nat, NEW ticket,
         F!Begin(r, kind, code, ticket),
         \/ kind = "signIn" /\ ticket = {}
         \/ kind = "check" /\ ticket \subseteq {t \in Promise : t.version <= feedVersion /\ t.code = code}
         \/ kind = "reload" /\ ticket \subseteq tickets
  PROVE  ReloadInv'
<1> DEFINE new == [at |-> "code", kind |-> kind, code |-> code, before |-> last, ticket |-> ticket]
<1>0. ReloadTyped /\ TicketsHonest /\ ChecksHonest /\ ReloadsHonest /\ F!DraftsStandOnRows
  BY DEF ReloadInv
<1>1. UNCHANGED <<feedVersion, loads, draft, last, time, tickets>> /\ confirming' = [confirming EXCEPT ![r] = new]
  BY DEF F!Begin, F!feed
<1>2. new \in Confirming("signIn", {}) \cup Confirming("check", Promise) \cup Confirming("reload", Ticket)
  BY <1>0 DEF Confirming, ReloadTyped
<1>3. ReloadTyped'
  BY <1>0, <1>1, <1>2 DEF ReloadTyped
<1>4. confirming'[r] = new /\ \A o \in Pods \ {r} : confirming'[o] = confirming[o]
  BY <1>0, <1>1 DEF ReloadTyped
<1>5. ChecksHonest'
  <2>1. kind = "check" => \A t \in ticket : t.version <= feedVersion /\ t.code = code
    OBVIOUS
  <2> QED
    BY <1>0, <1>1, <1>4, <2>1 DEF ChecksHonest
<1>6. ReloadsHonest'
  <2>1. kind = "reload" => \A t \in ticket : t.version <= t.saw /\ t.saw <= feedVersion /\ t.code <= last
    BY <1>0 DEF TicketsHonest
  <2> QED
    BY <1>0, <1>1, <1>4, <2>1 DEF ReloadsHonest
<1> QED
  BY <1>0, <1>1, <1>3, <1>5, <1>6 DEF ReloadInv, TicketsHonest, F!DraftsStandOnRows

(* A request that ends, whatever it has done to the feed, leaves the others. *)
LEMMA EndsHonest ==
  ASSUME ReloadInv, NEW r \in Pods, F!Ends(r), UNCHANGED <<draft, time>>,
         feedVersion' \in Nat, feedVersion <= feedVersion', loads' \in Nat,
         last' \in Nat, last <= last',
         loads' # loads => F!NobodyEdits,
         tickets' \subseteq Ticket,
         \A t \in tickets' : t.version <= t.saw /\ t.saw <= feedVersion /\ t.code <= last
  PROVE  ReloadInv'
<1>0. ReloadTyped /\ TicketsHonest /\ ChecksHonest /\ ReloadsHonest /\ F!DraftsStandOnRows
  BY DEF ReloadInv
<1>1. ReloadTyped'
  BY <1>0 DEF ReloadTyped, F!Ends
<1>2. confirming'[r].at = "idle" /\ \A o \in Pods \ {r} : confirming'[o] = confirming[o]
  BY <1>0 DEF ReloadTyped, F!Ends, F!Idle
<1>3. TicketsHonest'
  BY <1>0 DEF TicketsHonest, ReloadTyped, Ticket
<1>4. ChecksHonest'
  <2>1. ASSUME NEW o \in Pods, confirming'[o].at # "idle", confirming'[o].kind = "check",
               NEW t \in confirming'[o].ticket
        PROVE  /\ t.version <= feedVersion' /\ t.code = confirming'[o].code
               /\ confirming'[o].at = "load" => t.code <= last'
    <3>1. o # r /\ confirming'[o] = confirming[o]
      BY <1>2, <2>1
    <3>2. confirming[o] \in Confirming("check", Promise)
      BY <1>0, <2>1, <3>1 DEF ReloadTyped, Confirming, F!Idle
    <3>3. t.version \in Nat /\ t.code \in Nat
      BY <2>1, <3>1, <3>2 DEF Confirming, Promise
    <3>4. /\ t.version <= feedVersion /\ t.code = confirming[o].code
          /\ confirming[o].at = "load" => t.code <= last
      BY <1>0, <2>1, <3>1 DEF ChecksHonest
    <3> QED
      BY <1>0, <3>1, <3>3, <3>4 DEF ReloadTyped
  <2> QED
    BY <2>1 DEF ChecksHonest
<1>5. ReloadsHonest'
  <2>1. ASSUME NEW o \in Pods, confirming'[o].at # "idle", confirming'[o].kind = "reload",
               NEW t \in confirming'[o].ticket
        PROVE  /\ t.version <= t.saw /\ t.saw <= feedVersion' /\ t.code <= confirming'[o].before
               /\ confirming'[o].at = "load" => confirming'[o].before < confirming'[o].code
    <3>1. o # r /\ confirming'[o] = confirming[o]
      BY <1>2, <2>1
    <3>2. confirming[o] \in Confirming("reload", Ticket)
      BY <1>0, <2>1, <3>1 DEF ReloadTyped, Confirming, F!Idle
    <3>3. t.saw \in Nat
      BY <2>1, <3>1, <3>2 DEF Confirming, Ticket
    <3>4. /\ t.version <= t.saw /\ t.saw <= feedVersion /\ t.code <= confirming[o].before
          /\ confirming[o].at = "load" => confirming[o].before < confirming[o].code
      BY <1>0, <2>1, <3>1 DEF ReloadsHonest
    <3> QED
      BY <1>0, <3>1, <3>3, <3>4 DEF ReloadTyped
  <2> QED
    BY <2>1 DEF ReloadsHonest
<1>6. F!DraftsStandOnRows'
  BY <1>0 DEF F!DraftsStandOnRows, F!NobodyEdits
<1> QED
  BY <1>1, <1>3, <1>4, <1>5, <1>6 DEF ReloadInv

LEMMA ReloadInvKept ==
  ASSUME ReloadInv, [F!Next]_reloadVars
  PROVE  ReloadInv'
<1>0. ReloadTyped /\ TicketsHonest /\ ChecksHonest /\ ReloadsHonest /\ F!DraftsStandOnRows
  BY DEF ReloadInv
<1>1. ASSUME NEW r \in Pods, NEW code \in F!Codes, F!SignIn(r, code)
      PROVE  ReloadInv'
  BY <1>0, <1>1, CodesAreNumbers, BeginsHonest DEF F!SignIn
<1>2. ASSUME NEW r \in Pods, NEW code \in F!Codes, NEW zip \in Zips, F!Check(r, zip, code)
      PROVE  ReloadInv'
  <2> DEFINE promise == [zip |-> zip, version |-> feedVersion, code |-> code]
  <2>1. code \in Nat
    BY <1>0, CodesAreNumbers
  <2>2. {promise} \subseteq {t \in Promise : t.version <= feedVersion /\ t.code = code}
    BY <1>0, <2>1 DEF Promise, ReloadTyped
  <2>3. F!Begin(r, "check", code, {promise})
    BY <1>2 DEF F!Check
  <2> QED
    BY <2>1, <2>2, <2>3, BeginsHonest
<1>3. ASSUME NEW r \in Pods, NEW code \in F!Codes, NEW zip \in Zips, NEW t \in tickets,
             F!Reload(r, zip, code, t)
      PROVE  ReloadInv'
  <2>1. code \in Nat /\ {t} \subseteq tickets
    BY <1>0, CodesAreNumbers
  <2>2. F!Begin(r, "reload", code, {t})
    BY <1>3 DEF F!Reload
  <2> QED
    BY <2>1, <2>2, BeginsHonest
<1>4. ASSUME NEW r \in Pods, F!UseCode(r)
      PROVE  ReloadInv'
  <2> DEFINE q == confirming[r]
  <2>1. UNCHANGED <<feedVersion, loads, draft, time, tickets>> /\ q.at = "code"
    BY <1>4 DEF F!UseCode, F!feed, F!At
  <2>2. ASSUME F!Ends(r), last' = last \/ (F!Accepts(q) /\ last' = q.code)
        PROVE  ReloadInv'
    <3>1. last' \in Nat /\ last <= last'
      BY <1>0, <2>2, CodesAreNumbers DEF ReloadTyped, F!Accepts
    <3>2. \A t \in tickets' : t.version <= t.saw /\ t.saw <= feedVersion /\ t.code <= last
      BY <1>0, <2>1 DEF TicketsHonest
    <3> QED
      BY <1>0, <2>1, <2>2, <3>1, <3>2, EndsHonest DEF ReloadTyped
  <2>3. CASE F!Accepts(q) /\ last' = q.code /\ F!Goes(r, "load")
    <3>1. /\ q.code \in Nat /\ q.before \in Nat /\ last \in Nat
          /\ q.code > q.before /\ q.code > last
      BY <1>0, <2>1, <2>3, CodesAreNumbers DEF F!Accepts, ReloadTyped, Confirming, F!Idle
    <3>2. \A kind, Of : q \in Confirming(kind, Of) =>
            /\ [q EXCEPT !.at = "load"] \in Confirming(kind, Of)
            /\ [q EXCEPT !.at = "load"].kind = q.kind /\ [q EXCEPT !.at = "load"].code = q.code
            /\ [q EXCEPT !.at = "load"].before = q.before /\ [q EXCEPT !.at = "load"].ticket = q.ticket
      BY DEF Confirming
    <3>3. q \in Confirming("signIn", {}) \cup Confirming("check", Promise) \cup Confirming("reload", Ticket)
      BY <1>0, <2>1 DEF ReloadTyped, F!Idle
    <3>4. /\ confirming'[r] = [q EXCEPT !.at = "load"]
          /\ \A o \in Pods \ {r} : confirming'[o] = confirming[o]
      BY <1>0, <2>3 DEF F!Goes, ReloadTyped
    <3>5. ReloadTyped'
      BY <1>0, <2>1, <2>3, <3>1, <3>2, <3>3 DEF ReloadTyped, F!Goes
    <3>6. TicketsHonest'
      BY <1>0, <2>1, <2>3, <3>1 DEF TicketsHonest, ReloadTyped, Ticket
    <3>7. /\ confirming'[r].kind = q.kind /\ confirming'[r].code = q.code
          /\ confirming'[r].before = q.before /\ confirming'[r].ticket = q.ticket
      BY <3>2, <3>3, <3>4
    <3>8. ASSUME NEW o \in Pods, confirming'[o].at # "idle", confirming'[o].kind = "check",
                 NEW t \in confirming'[o].ticket
          PROVE  /\ t.version <= feedVersion' /\ t.code = confirming'[o].code
                 /\ confirming'[o].at = "load" => t.code <= last'
      <4>1. CASE o = r
        BY <1>0, <2>1, <2>3, <3>1, <3>7, <3>8, <4>1 DEF ChecksHonest
      <4>2. CASE o # r
        <5>1. confirming'[o] = confirming[o]
          BY <3>4, <4>2
        <5>2. confirming[o] \in Confirming("check", Promise)
          BY <1>0, <3>8, <5>1 DEF ReloadTyped, Confirming, F!Idle
        <5>3. t.code \in Nat
          BY <3>8, <5>1, <5>2 DEF Confirming, Promise
        <5> QED
          BY <1>0, <2>1, <2>3, <3>1, <3>8, <5>1, <5>3 DEF ChecksHonest
      <4> QED
        BY <4>1, <4>2
    <3>9. ReloadsHonest'
      <4>1. ASSUME NEW o \in Pods, confirming'[o].at # "idle", confirming'[o].kind = "reload",
                   NEW t \in confirming'[o].ticket
            PROVE  /\ t.version <= t.saw /\ t.saw <= feedVersion' /\ t.code <= confirming'[o].before
                   /\ confirming'[o].at = "load" => confirming'[o].before < confirming'[o].code
        <5>1. CASE o = r
          BY <1>0, <2>1, <3>1, <3>7, <4>1, <5>1 DEF ReloadsHonest
        <5>2. CASE o # r
          BY <1>0, <2>1, <3>4, <4>1, <5>2 DEF ReloadsHonest
        <5> QED
          BY <5>1, <5>2
      <4> QED
        BY <4>1 DEF ReloadsHonest
    <3> QED
      BY <1>0, <2>1, <3>5, <3>6, <3>8, <3>9 DEF ReloadInv, ChecksHonest, F!DraftsStandOnRows
  <2>4. CASE F!Accepts(q)
    <3>1. last' = q.code /\ (F!Ends(r) \/ F!Goes(r, "load"))
      BY <1>4, <2>4 DEF F!UseCode
    <3> QED
      BY <2>2, <2>3, <2>4, <3>1
  <2>5. CASE ~F!Accepts(q)
    <3>1. F!Ends(r) /\ last' = last
      BY <1>4, <2>5 DEF F!UseCode
    <3> QED
      BY <2>2, <3>1
  <2> QED
    BY <2>4, <2>5
<1>5. ASSUME NEW r \in Pods, F!TryLoad(r)
      PROVE  ReloadInv'
  <2>1. /\ F!Ends(r) /\ UNCHANGED <<feedVersion, loads, draft, last, time>>
        /\ confirming[r].at = "load" /\ confirming[r].kind = "check"
    BY <1>5 DEF F!TryLoad, F!feed, F!At
  <2>2. confirming[r] \in Confirming("check", Promise)
    BY <1>0, <2>1 DEF ReloadTyped, Confirming, F!Idle
  <2>3. ASSUME NEW t \in tickets'
        PROVE  t \in Ticket /\ t.version <= t.saw /\ t.saw <= feedVersion /\ t.code <= last
    <3>1. CASE t \in tickets
      BY <1>0, <3>1 DEF TicketsHonest, ReloadTyped
    <3>2. CASE t \notin tickets
      <4>1. PICK p \in confirming[r].ticket :
              t = [zip |-> p.zip, version |-> p.version, code |-> p.code, saw |-> feedVersion]
        BY <1>5, <2>3, <3>2 DEF F!TryLoad
      <4>2. p \in Promise
        BY <2>2, <4>1 DEF Confirming
      <4>3. p.version <= feedVersion /\ p.code <= last
        BY <1>0, <2>1, <4>1 DEF ChecksHonest
      <4> QED
        BY <1>0, <4>1, <4>2, <4>3 DEF Promise, Ticket, ReloadTyped
    <3> QED
      BY <3>1, <3>2
  <2> QED
    BY <1>0, <2>1, <2>3, EndsHonest DEF ReloadTyped
<1>6. ASSUME NEW r \in Pods, F!Load(r)
      PROVE  ReloadInv'
  <2>1. F!Ends(r) /\ UNCHANGED <<draft, last, time, tickets>>
    BY <1>6 DEF F!Load
  <2>2. /\ feedVersion' = feedVersion \/ feedVersion' = feedVersion + 1
        /\ loads' = loads \/ (loads' = loads + 1 /\ F!NobodyEdits)
    BY <1>6 DEF F!Load, F!MayLoad
  <2>3. \A t \in tickets' : t.version <= t.saw /\ t.saw <= feedVersion /\ t.code <= last
    BY <1>0, <2>1 DEF TicketsHonest
  <2> QED
    BY <1>0, <2>1, <2>2, <2>3, EndsHonest DEF ReloadTyped
<1>7. ASSUME NEW r \in Pods, F!Dies(r)
      PROVE  ReloadInv'
  <2>1. \A t \in tickets' : t.version <= t.saw /\ t.saw <= feedVersion /\ t.code <= last
    BY <1>0, <1>7 DEF TicketsHonest, F!Dies
  <2> QED
    BY <1>0, <1>7, <2>1, EndsHonest DEF F!Dies, F!feed, ReloadTyped
<1>8. ASSUME NEW t \in tickets, F!Expire(t)
      PROVE  ReloadInv'
  BY <1>0, <1>8 DEF F!Expire, F!feed, ReloadInv, ReloadTyped, TicketsHonest, ChecksHonest, ReloadsHonest,
     F!DraftsStandOnRows
<1>9. ASSUME F!Tick
      PROVE  ReloadInv'
  BY <1>0, <1>9 DEF F!Tick, F!feed, ReloadInv, ReloadTyped, TicketsHonest, ChecksHonest, ReloadsHonest,
     F!DraftsStandOnRows
<1>10. ASSUME NEW d \in Drafts, F!MakeDraft(d)
       PROVE  ReloadInv'
  <2>1. [status |-> "draft", on |-> loads, reopened |-> FALSE] \in ChangeSet
    BY <1>0 DEF ChangeSet, F!Open, ReloadTyped
  <2> QED
    BY <1>0, <1>10, <2>1 DEF F!MakeDraft, ReloadInv, ReloadTyped, TicketsHonest, ChecksHonest, ReloadsHonest,
       F!DraftsStandOnRows
<1>11. ASSUME NEW d \in Drafts, NEW to \in F!Open \cup {"rejected", "discarded"}, F!Move(d, to)
       PROVE  ReloadInv'
  <2> DEFINE moved == [draft[d] EXCEPT !.status = to,
                                       !.reopened = @ \/ draft[d].status = "rejected"]
  <2>1. draft[d] \in ChangeSet /\ (to \in F!Open => draft[d].status \in F!Open \/ draft[d].status = "rejected")
    BY <1>0, <1>11 DEF F!Move, F!Moves, F!Open, F!NoDraft, ReloadTyped
  <2>2. /\ moved \in ChangeSet /\ moved.status = to /\ moved.on = draft[d].on
        /\ moved.reopened = (draft[d].reopened \/ draft[d].status = "rejected")
    BY <2>1 DEF ChangeSet
  <2>3. draft' = [draft EXCEPT ![d] = moved] /\ UNCHANGED <<feedVersion, loads, last, time, tickets, confirming>>
    BY <1>11 DEF F!Move
  <2>4. F!DraftsStandOnRows'
    BY <1>0, <2>1, <2>2, <2>3 DEF F!DraftsStandOnRows, ReloadTyped
  <2> QED
    BY <1>0, <2>2, <2>3, <2>4 DEF ReloadInv, ReloadTyped, TicketsHonest, ChecksHonest, ReloadsHonest
<1>12. ASSUME NEW d \in Drafts, F!Commit(d)
       PROVE  ReloadInv'
  <2>1. draft[d] \in ChangeSet
    BY <1>0, <1>12 DEF F!Commit, F!NoDraft, ReloadTyped
  <2>2. /\ [draft[d] EXCEPT !.status = "committed"] \in ChangeSet
        /\ [draft[d] EXCEPT !.status = "committed"].status = "committed"
    BY <2>1 DEF ChangeSet
  <2>3. draft' = [draft EXCEPT ![d] = [draft[d] EXCEPT !.status = "committed"]]
        /\ feedVersion' = feedVersion + 1 /\ UNCHANGED <<loads, last, time, tickets, confirming>>
    BY <1>12 DEF F!Commit
  <2>4. F!DraftsStandOnRows'
    BY <1>0, <2>2, <2>3 DEF F!DraftsStandOnRows, F!Open, ReloadTyped
  <2>5. ReloadTyped'
    BY <1>0, <2>2, <2>3 DEF ReloadTyped
  <2>6. TicketsHonest'
    BY <1>0, <2>3 DEF TicketsHonest, ReloadTyped, Ticket
  <2>7. ASSUME NEW r \in Pods, confirming[r].at # "idle", NEW t \in confirming[r].ticket
        PROVE  /\ confirming[r].kind = "check" /\ t.version <= feedVersion => t.version <= feedVersion + 1
               /\ confirming[r].kind = "reload" /\ t.saw <= feedVersion => t.saw <= feedVersion + 1
    BY <1>0, <2>7 DEF ReloadTyped, Confirming, F!Idle, Promise, Ticket
  <2>8. ChecksHonest' /\ ReloadsHonest'
    BY <1>0, <2>3, <2>7 DEF ChecksHonest, ReloadsHonest
  <2> QED
    BY <2>4, <2>5, <2>6, <2>8 DEF ReloadInv
<1>13. CASE UNCHANGED reloadVars
  BY <1>0, <1>13 DEF reloadVars, ReloadInv, ReloadTyped, TicketsHonest, ChecksHonest, ReloadsHonest,
     F!DraftsStandOnRows
<1> QED
  BY <1>1, <1>2, <1>3, <1>4, <1>5, <1>6, <1>7, <1>8, <1>9, <1>10, <1>11, <1>12, <1>13 DEF F!Next

LEMMA ReloadInvHolds == F!Init /\ [][F!Next]_reloadVars => []ReloadInv
BY ReloadInvInitially, ReloadInvKept, PTL

(* "A feed somebody is editing is not loaded over" (reload_zip): an open     *)
(* change set was made against the rows that are there.                      *)
THEOREM DraftsStandOnRowsHolds == PartsSpec => []DraftsStandOnRows
<1>1. ReloadInv => DraftsStandOnRows
  BY DEF ReloadInv, DraftsStandOnRows
<1> QED
  BY <1>1, ReloadInvHolds, ReloadStandsAlone, PTL

LEMMA LoadsHonestly ==
  ASSUME ReloadInv, [F!Next]_reloadVars
  PROVE  F!LoadsWhatWasChecked
<1>1. ASSUME NEW r \in Pods, F!Load(r), loads' # loads
      PROVE  F!LoadsWhatWasChecked
  <2>1. confirming[r].at = "load" /\ confirming[r].kind = "reload"
    BY <1>1 DEF F!Load, F!At
  <2>2. PICK t \in confirming[r].ticket : t.version = feedVersion
    BY <1>1 DEF F!Load, F!MayLoad
  <2>3. confirming[r] \in Confirming("reload", Ticket)
    BY <2>1 DEF ReloadInv, ReloadTyped, Confirming, F!Idle
  <2>4. /\ t.saw \in Nat /\ t.code \in Nat /\ feedVersion \in Nat
        /\ confirming[r].before \in Nat /\ confirming[r].code \in Nat
    BY <2>3 DEF Confirming, Ticket, ReloadInv, ReloadTyped
  <2>5. /\ t.version <= t.saw /\ t.saw <= feedVersion /\ t.code <= confirming[r].before
        /\ confirming[r].before < confirming[r].code
    BY <2>1 DEF ReloadInv, ReloadsHonest
  <2>6. t.saw = feedVersion /\ t.code # confirming[r].code
    BY <2>2, <2>4, <2>5
  <2> QED
    BY <2>1, <2>6 DEF F!LoadsWhatWasChecked, F!At
<1>2. CASE UNCHANGED loads
  BY <1>2 DEF F!LoadsWhatWasChecked
<1> QED
  BY <1>1, <1>2 DEF F!Next, F!SignIn, F!Check, F!Reload, F!Begin, F!UseCode, F!TryLoad, F!Dies, F!Expire,
     F!MakeDraft, F!Commit, F!Move, F!Tick, F!feed, reloadVars

(* A reload replaces the version its check tried, and is confirmed by a code *)
(* of its own (feed_reload, use_code, reload_zip), whichever pods take them. *)
THEOREM ReplacesWhatWasCheckedHolds == PartsSpec => ReplacesWhatWasChecked
<1>1. ReloadInv /\ [F!Next]_reloadVars => [part = "reload" => F!LoadsWhatWasChecked]_partsVars
  BY LoadsHonestly
<1> QED
  BY <1>1, ReloadInvHolds, ReloadStandsAlone, PTL DEF ReplacesWhatWasChecked

-----------------------------------------------------------------------------
(* Lines from GPS                                                          *)

LEMMA LinesStandAlone == PartsSpec => G!Init /\ [][G!Next]_lineVars
<1>1. PartsInit => G!Init
  BY DEF PartsInit
<1>2. [PartsNext]_partsVars => [G!Next]_lineVars
  BY DEF PartsNext, partsVars, lineVars
<1> QED
  BY <1>1, <1>2, PTL DEF PartsSpec

LineSet ==
  [status: G!InHand \cup {"rejected", "committed", "discarded"}, title: Nat, run: Nat,
   routes: SUBSET Routes]
Run ==
  [at: {"titles", "held", "create", "add", "replace"}, title: Nat, run: Nat,
   todo: SUBSET Routes, draft: SUBSET Routes, id: Ids \cup {None}, some: BOOLEAN,
   created: SUBSET Ids, added: SUBSET Routes, old: SUBSET (Ids \X Routes), touched: SUBSET Ids]

LinesTyped ==
  /\ sets \in [Ids -> LineSet \cup {G!NoSet}]
  /\ runs \in [Pods -> Run \cup {G!Idle}]
  /\ holder \in Pods \cup {None}
  /\ week \in Nat /\ moves \in Nat /\ troubles \in Nat /\ started \in Nat
  /\ crossed \in BOOLEAN

(* One run at a time, the one that has the lock.                            *)
Lock == \A r \in Pods : runs[r].at # "idle" <=> holder = r

(* What a run has in hand at a step.                                        *)
Stage(q) ==
  /\ q.at \in {"titles", "held"} =>
       q.todo = {} /\ q.draft = {} /\ q.added = {} /\ q.created = {} /\ q.id = None
  /\ q.at \in {"create", "replace"} => q.id = None
  /\ q.at = "add" => q.id \in Ids

(* A run that has looked at its week's sets is the only one to have any.    *)
WeekClaimed ==
  \A r \in Pods : runs[r].at \notin {"idle", "titles"} /\ runs[r].title # 0 =>
    \A i \in G!There : sets[i].title = runs[r].title /\ sets[i].status # "discarded" =>
      sets[i].run = runs[r].run

(* The sets a run has made, and those before it.                            *)
Mine(r)    == runs[r].created \cup ({runs[r].id} \ {None})
Earlier(r) == G!There \ Mine(r)

(* Sets I share no route of those still in hand.                            *)
Disjoint(I) ==
  \A i, j \in I : sets[i].status \in G!InHand /\ sets[j].status \in G!InHand /\ i # j =>
    sets[i].routes \cap sets[j].routes = {}

OwnApart(r) ==
  /\ Mine(r) \subseteq G!There
  /\ \A i \in Mine(r) : sets[i].routes \subseteq runs[r].added
  /\ \A i, j \in Mine(r) : i # j => sets[i].routes \cap sets[j].routes = {}

(* A run's routes are none that wait for a review in a set before it.       *)
WorkApart(r) ==
  /\ runs[r].todo \cap runs[r].draft = {} /\ runs[r].todo \cap runs[r].added = {}
  /\ runs[r].draft \cap runs[r].added = {}
  /\ \A i \in Earlier(r) : sets[i].status \in G!Waiting =>
       sets[i].routes \cap (runs[r].todo \cup runs[r].draft \cup runs[r].added) = {}

(* What is still to be taken out of an earlier draft is on the run's list.  *)
OldKnown(r) ==
  runs[r].at = "replace" =>
    \A i \in Earlier(r) : sets[i].status = "draft" =>
      \A n \in sets[i].routes \cap runs[r].added : <<i, n>> \in runs[r].old

Apart(r) == Disjoint(Earlier(r)) /\ OwnApart(r) /\ WorkApart(r) /\ OldKnown(r)

LinesApart == ~crossed => \A r \in Pods : runs[r].at # "idle" => Apart(r)

LineInv ==
  /\ LinesTyped /\ Lock /\ (\A r \in Pods : Stage(runs[r]))
  /\ WeekClaimed /\ G!OneRunAWeek
  /\ LinesApart /\ G!OneSetARoute

LEMMA LineInvInitially == G!Init => LineInv
<1> SUFFICES ASSUME G!Init
             PROVE  LineInv
  OBVIOUS
<1>1. LinesTyped
  BY DEF G!Init, LinesTyped
<1>2. \A r \in Pods : runs[r].at = "idle"
  BY DEF G!Init, G!Idle
<1>3. G!There = {}
  BY DEF G!Init, G!There
<1> QED
  BY <1>1, <1>2, <1>3, NoneAssumption DEF G!Init, LineInv, Lock, Stage, WeekClaimed, LinesApart, G!OneRunAWeek,
     G!OneSetARoute

(* The run that has the lock goes on; the other runners are idle.           *)
LEMMA RunGoesOn ==
  ASSUME LinesTyped, Lock, NEW r \in Pods, runs[r].at # "idle", NEW q \in Run,
         runs' = [runs EXCEPT ![r] = q], holder' = holder
  PROVE  /\ runs' \in [Pods -> Run \cup {G!Idle}] /\ holder' \in Pods \cup {None}
         /\ Lock' /\ runs'[r] = q
         /\ \A o \in Pods \ {r} : runs[o].at = "idle" /\ runs'[o].at = "idle" /\ runs'[o] = runs[o]
<1>1. runs'[r] = q /\ \A o \in Pods \ {r} : runs'[o] = runs[o]
  BY DEF LinesTyped
<1>2. q.at # "idle" /\ holder = r
  BY DEF Run, Lock
<1> QED
  BY <1>1, <1>2 DEF Lock, LinesTyped

LEMMA RunIsOver ==
  ASSUME LinesTyped, Lock, NEW r \in Pods, runs[r].at # "idle", G!Over(r)
  PROVE  /\ runs' \in [Pods -> Run \cup {G!Idle}] /\ holder' = None
         /\ Lock' /\ \A o \in Pods : runs'[o].at = "idle"
<1>1. runs'[r].at = "idle" /\ \A o \in Pods \ {r} : runs'[o] = runs[o]
  BY DEF LinesTyped, G!Over, G!Idle
<1>2. holder = r /\ holder' = None
  BY DEF G!Over, Lock
<1>3. \A o \in Pods : runs'[o].at = "idle"
  BY <1>1, <1>2 DEF Lock
<1> QED
  BY <1>2, <1>3, NoneAssumption DEF LinesTyped, G!Over, Lock

(* A step that changes no set's week and revives none keeps weeks apart.    *)
LEMMA WeekCarries ==
  ASSUME WeekClaimed, G!OneRunAWeek,
         \A i \in G!There' : /\ i \in G!There /\ sets'[i].title = sets[i].title
                             /\ sets'[i].run = sets[i].run
                             /\ sets'[i].status # "discarded" => sets[i].status # "discarded",
         \A o \in Pods : runs'[o].at \notin {"idle", "titles"} =>
           /\ runs[o].at \notin {"idle", "titles"}
           /\ runs'[o].title = runs[o].title /\ runs'[o].run = runs[o].run
  PROVE  WeekClaimed' /\ G!OneRunAWeek'
BY DEF WeekClaimed, G!OneRunAWeek

(* At its end, a run that was not crossed leaves no route in two sets.      *)
LEMMA RunLeavesApart ==
  ASSUME LinesTyped, NEW r \in Pods, Apart(r),
         Mine(r) = {} \/ (runs[r].at = "replace" /\ runs[r].old = {})
  PROVE  Disjoint(G!There)
<1>1. CASE Mine(r) = {}
  BY <1>1 DEF Apart, Earlier
<1>2. CASE runs[r].at = "replace" /\ runs[r].old = {}
  <2>1. ASSUME NEW i \in Earlier(r), NEW j \in Mine(r), sets[i].status \in G!InHand
        PROVE  sets[i].routes \cap sets[j].routes = {}
    <3>1. sets[j].routes \subseteq runs[r].added
      BY DEF Apart, OwnApart
    <3>2. CASE sets[i].status = "draft"
      BY <1>2, <3>1, <3>2 DEF Apart, OldKnown
    <3>3. CASE sets[i].status \in G!Waiting
      BY <3>1, <3>3 DEF Apart, WorkApart
    <3> QED
      BY <2>1, <3>2, <3>3 DEF G!InHand
  <2>2. \A i, j \in Mine(r) : i # j => sets[i].routes \cap sets[j].routes = {}
    BY DEF Apart, OwnApart
  <2>3. \A i \in G!There : i \in Earlier(r) \/ i \in Mine(r)
    BY DEF Earlier
  <2>4. Disjoint(Earlier(r))
    BY DEF Apart
  <2> QED
    BY <2>1, <2>2, <2>3, <2>4 DEF Disjoint
<1> QED
  BY <1>1, <1>2

(* A run that ends by itself, its sets as they are.                         *)
LEMMA EndsWell ==
  ASSUME LineInv, NEW r \in Pods, runs[r].at # "idle", G!Over(r), sets' = sets,
         UNCHANGED <<week, moves, troubles, started, crossed>>,
         ~crossed => Disjoint(G!There)
  PROVE  LineInv'
<1>0. LinesTyped /\ Lock /\ WeekClaimed /\ G!OneRunAWeek
  BY DEF LineInv
<1>1. /\ runs' \in [Pods -> Run \cup {G!Idle}] /\ holder' = None
      /\ Lock' /\ \A o \in Pods : runs'[o].at = "idle"
  BY <1>0, RunIsOver
<1>2. LinesTyped'
  BY <1>0, <1>1 DEF LinesTyped
<1>3. G!There' = G!There
  BY DEF G!There
<1>4. G!OneRunAWeek' /\ WeekClaimed'
  BY <1>0, <1>1, <1>3, WeekCarries
<1>5. G!OneSetARoute'
  BY <1>3 DEF G!OneSetARoute, Disjoint
<1> QED
  BY <1>1, <1>2, <1>4, <1>5 DEF LineInv, Stage, LinesApart

(* A run that was cut short, or whose sets a person moved.                  *)
LEMMA EndsCrossed ==
  ASSUME LineInv, NEW r \in Pods, runs[r].at # "idle", G!Over(r), sets' = sets,
         UNCHANGED <<week, moves, started>>, troubles' \in Nat, crossed' = TRUE
  PROVE  LineInv'
<1>0. LinesTyped /\ Lock /\ WeekClaimed /\ G!OneRunAWeek
  BY DEF LineInv
<1>1. /\ runs' \in [Pods -> Run \cup {G!Idle}] /\ holder' = None
      /\ Lock' /\ \A o \in Pods : runs'[o].at = "idle"
  BY <1>0, RunIsOver
<1>2. LinesTyped'
  BY <1>0, <1>1 DEF LinesTyped
<1>3. G!There' = G!There
  BY DEF G!There
<1>4. G!OneRunAWeek' /\ WeekClaimed'
  BY <1>0, <1>1, <1>3, WeekCarries
<1> QED
  BY <1>1, <1>2, <1>4 DEF LineInv, Stage, LinesApart, G!OneSetARoute

(* A run that goes on keeps the invariant if its own part of it holds.      *)
LEMMA GoesOn ==
  ASSUME LineInv, NEW r \in Pods, runs[r].at # "idle", NEW q \in Run,
         runs' = [runs EXCEPT ![r] = q], holder' = holder,
         sets' \in [Ids -> LineSet \cup {G!NoSet}],
         UNCHANGED <<week, moves, troubles, started, crossed>>,
         Stage(q),
         WeekClaimed' /\ G!OneRunAWeek',
         ~crossed /\ Apart(r) => Apart(r)'
  PROVE  LineInv'
<1>0. LinesTyped /\ Lock /\ LinesApart /\ \A o \in Pods : Stage(runs[o])
  BY DEF LineInv
<1>1. /\ runs' \in [Pods -> Run \cup {G!Idle}] /\ holder' \in Pods \cup {None}
      /\ Lock' /\ runs'[r] = q
      /\ \A o \in Pods \ {r} : runs[o].at = "idle" /\ runs'[o].at = "idle" /\ runs'[o] = runs[o]
  BY <1>0, RunGoesOn
<1>2. LinesTyped'
  BY <1>0, <1>1 DEF LinesTyped
<1>3. \A o \in Pods : Stage(runs'[o])
  BY <1>1 DEF Stage
<1>4. LinesApart'
  BY <1>0, <1>1 DEF LinesApart
<1>5. G!OneSetARoute'
  BY <1>0, NoneAssumption DEF Lock, G!OneSetARoute
<1> QED
  BY <1>1, <1>2, <1>3, <1>4, <1>5 DEF LineInv

(* The sets as they are, and a run at its next step.                        *)
LEMMA OnlyGoesOn ==
  ASSUME LineInv, NEW r \in Pods, runs[r].at \notin {"idle", "titles"}, NEW q \in Run,
         runs' = [runs EXCEPT ![r] = q], holder' = holder, sets' = sets,
         UNCHANGED <<week, moves, troubles, started, crossed>>,
         Stage(q), q.title = runs[r].title, q.run = runs[r].run,
         ~crossed /\ Apart(r) => Apart(r)'
  PROVE  LineInv'
<1>0. LinesTyped /\ Lock /\ WeekClaimed /\ G!OneRunAWeek
  BY DEF LineInv
<1>1. /\ runs'[r] = q
      /\ \A o \in Pods \ {r} : runs[o].at = "idle" /\ runs'[o].at = "idle"
  BY <1>0, RunGoesOn
<1>2. G!There' = G!There
  BY DEF G!There
<1>3. WeekClaimed' /\ G!OneRunAWeek'
  BY <1>0, <1>1, <1>2, WeekCarries
<1> QED
  BY <1>0, <1>3, GoesOn DEF LinesTyped

LEMMA RunIsTyped ==
  ASSUME LineInv, NEW r \in Pods, runs[r].at # "idle"
  PROVE  runs[r] \in Run /\ holder = r /\ Stage(runs[r]) /\ (~crossed => Apart(r))
BY DEF LineInv, LinesTyped, Lock, LinesApart, G!Idle

LEMMA StartKeeps ==
  ASSUME LineInv, NEW r \in Pods, NEW manual \in BOOLEAN, G!Start(r, manual)
  PROVE  LineInv'
<1>0. /\ LinesTyped /\ Lock /\ WeekClaimed /\ G!OneRunAWeek /\ G!OneSetARoute
      /\ \A o \in Pods : Stage(runs[o])
  BY DEF LineInv
<1> DEFINE q == [at |-> "titles", title |-> IF manual THEN 0 ELSE week, run |-> started + 1,
                 todo |-> {}, draft |-> {}, id |-> None, some |-> FALSE,
                 created |-> {}, added |-> {}, old |-> {}, touched |-> {}]
<1>1. /\ holder = None /\ holder' = r /\ started' = started + 1 /\ runs' = [runs EXCEPT ![r] = q]
      /\ UNCHANGED <<sets, week, moves, troubles, crossed>>
  BY DEF G!Start, G!MayStart, G!people
<1>2. q \in Run /\ Stage(q)
  BY <1>0 DEF Run, LinesTyped, Stage
<1>3. /\ \A o \in Pods : runs[o].at = "idle"
      /\ runs'[r] = q /\ \A o \in Pods \ {r} : runs'[o] = runs[o]
  BY <1>0, <1>1, NoneAssumption DEF Lock, LinesTyped
<1>4. LinesTyped'
  BY <1>0, <1>1, <1>2 DEF LinesTyped
<1>5. Lock'
  BY <1>1, <1>3 DEF Lock
<1>6. G!There' = G!There /\ Mine(r)' = {} /\ Earlier(r)' = G!There
  BY <1>1, <1>3 DEF G!There, Mine, Earlier
<1>7. WeekClaimed' /\ G!OneRunAWeek'
  BY <1>0, <1>1, <1>3, <1>6, WeekCarries
<1>8. ~crossed => Apart(r)'
  BY <1>0, <1>1, <1>3, <1>6 DEF Apart, OwnApart, WorkApart, OldKnown, Disjoint, G!OneSetARoute
<1>9. LinesApart' /\ G!OneSetARoute'
  BY <1>1, <1>3, <1>8, NoneAssumption DEF LinesApart, G!OneSetARoute
<1> QED
  BY <1>0, <1>2, <1>3, <1>4, <1>5, <1>7, <1>9 DEF LineInv

LEMMA CheckWeekKeeps ==
  ASSUME LineInv, NEW r \in Pods, G!CheckWeek(r)
  PROVE  LineInv'
<1>1. /\ runs[r].at = "titles" /\ sets' = sets /\ UNCHANGED <<week, moves, troubles, started, crossed>>
  BY DEF G!CheckWeek, G!At, G!people
<1>2. runs[r] \in Run /\ holder = r /\ Stage(runs[r]) /\ (~crossed => Apart(r))
  BY <1>1, RunIsTyped
<1>3. LinesTyped /\ Lock /\ WeekClaimed /\ G!OneRunAWeek
  BY DEF LineInv
<1>4. Mine(r) = {}
  BY <1>1, <1>2 DEF Mine, Stage
<1>5. CASE G!AlreadyDone(r)
  BY <1>1, <1>2, <1>3, <1>4, <1>5, RunLeavesApart, EndsWell DEF G!CheckWeek
<1>6. CASE ~G!AlreadyDone(r)
  <2> DEFINE q == [runs[r] EXCEPT !.at = "held"]
  <2>1. runs' = [runs EXCEPT ![r] = q] /\ holder' = holder
    BY <1>6 DEF G!CheckWeek, G!ToStep
  <2>2. /\ q \in Run /\ q.at = "held" /\ q.title = runs[r].title /\ q.run = runs[r].run
        /\ q.todo = runs[r].todo /\ q.draft = runs[r].draft /\ q.added = runs[r].added
        /\ q.created = runs[r].created /\ q.id = runs[r].id
    BY <1>2 DEF Run
  <2>3. Stage(q)
    BY <1>1, <1>2, <2>2 DEF Stage
  <2>4. /\ runs'[r] = q
        /\ \A o \in Pods \ {r} : runs'[o].at = "idle"
    BY <1>1, <1>3, <2>1, <2>2, RunGoesOn
  <2>5. G!There' = G!There
    BY <1>1 DEF G!There
  <2>6. WeekClaimed' /\ G!OneRunAWeek'
    <3>1. \A i \in G!There : sets[i].title = runs[r].title /\ runs[r].title # 0
                             => sets[i].status = "discarded"
      BY <1>6 DEF G!AlreadyDone
    <3>2. WeekClaimed'
      <4>1. \A o \in Pods : runs'[o].at # "idle" => o = r
        BY <2>4
      <4>2. runs'[r].title = runs[r].title
        BY <2>2, <2>4
      <4> QED
        BY <1>1, <2>5, <3>1, <4>1, <4>2 DEF WeekClaimed
    <3>3. G!OneRunAWeek'
      BY <1>1, <1>3, <2>5 DEF G!OneRunAWeek
    <3> QED
      BY <3>2, <3>3
  <2>7. Apart(r) => Apart(r)'
    BY <1>1, <2>2, <2>4, <2>5 DEF Apart, OwnApart, WorkApart, OldKnown, Disjoint, Mine, Earlier
  <2> QED
    BY <1>1, <1>3, <2>1, <2>2, <2>3, <2>6, <2>7, GoesOn DEF LinesTyped
<1> QED
  BY <1>5, <1>6

LEMMA ReadHeldKeeps ==
  ASSUME LineInv, NEW r \in Pods, G!ReadHeld(r)
  PROVE  LineInv'
<1>1. /\ runs[r].at = "held" /\ sets' = sets /\ UNCHANGED <<week, moves, troubles, started, crossed>>
  BY DEF G!ReadHeld, G!At, G!people
<1>2. runs[r] \in Run /\ holder = r /\ Stage(runs[r]) /\ (~crossed => Apart(r))
  BY <1>1, RunIsTyped
<1>3. LinesTyped /\ Lock
  BY DEF LineInv
<1>4. Mine(r) = {}
  BY <1>1, <1>2 DEF Mine, Stage
<1>5. CASE G!Over(r)
  BY <1>1, <1>2, <1>3, <1>4, <1>5, RunLeavesApart, EndsWell
<1>6. ASSUME NEW found \in SUBSET (Routes \ G!Held), holder' = holder,
             runs' = [runs EXCEPT ![r].at = "create", ![r].todo = found]
      PROVE  LineInv'
  <2> DEFINE q == [runs[r] EXCEPT !.at = "create", !.todo = found]
  <2>1. runs' = [runs EXCEPT ![r] = q]
    BY <1>6
  <2>2. /\ q \in Run /\ q.at = "create" /\ q.title = runs[r].title /\ q.run = runs[r].run
        /\ q.todo = found /\ q.draft = runs[r].draft /\ q.added = runs[r].added
        /\ q.created = runs[r].created /\ q.id = runs[r].id
    BY <1>2 DEF Run
  <2>3. Stage(q) /\ q.draft = {} /\ q.added = {} /\ q.created = {} /\ q.id = None
    BY <1>1, <1>2, <2>2 DEF Stage
  <2>4. runs'[r] = q
    BY <1>1, <1>3, <1>6, <2>1, <2>2, RunGoesOn
  <2>5. /\ G!There' = G!There /\ Mine(r)' = {} /\ Earlier(r)' = G!There /\ Earlier(r) = G!There
    BY <1>1, <1>4, <2>3, <2>4 DEF G!There, Mine, Earlier
  <2>6. \A i \in G!There : sets[i].status \in G!Waiting => sets[i].routes \cap found = {}
    BY DEF G!Held
  <2>7. Apart(r) => Apart(r)'
    BY <1>1, <2>2, <2>3, <2>4, <2>5, <2>6 DEF Apart, OwnApart, WorkApart, OldKnown, Disjoint
  <2> QED
    BY <1>1, <1>6, <2>1, <2>2, <2>3, <2>7, OnlyGoesOn
<1> QED
  BY <1>5, <1>6 DEF G!ReadHeld

LEMMA CreateKeeps ==
  ASSUME LineInv, NEW r \in Pods, G!Create(r)
  PROVE  LineInv'
<1>1. /\ runs[r].at = "create" /\ holder' = holder /\ UNCHANGED <<week, moves, troubles, started, crossed>>
      /\ Ids # G!There
  BY DEF G!Create, G!At, G!people
<1>2. runs[r] \in Run /\ holder = r /\ Stage(runs[r]) /\ (~crossed => Apart(r))
  BY <1>1, RunIsTyped
<1>3. LinesTyped /\ Lock /\ WeekClaimed /\ G!OneRunAWeek
  BY DEF LineInv
<1>4. PICK i \in {CHOOSE j \in Ids \ G!There : TRUE}, draft_ \in SUBSET runs[r].todo :
        /\ sets' = [sets EXCEPT ![i] = [status |-> "draft", title |-> runs[r].title,
                                        run |-> runs[r].run, routes |-> {}]]
        /\ runs' = [runs EXCEPT ![r].at = "add", ![r].id = i, ![r].some = FALSE,
                      ![r].draft = draft_, ![r].todo = @ \ draft_]
  BY DEF G!Create
<1> DEFINE q == [runs[r] EXCEPT !.at = "add", !.id = i, !.some = FALSE,
                                !.draft = draft_, !.todo = @ \ draft_]
           new == [status |-> "draft", title |-> runs[r].title, run |-> runs[r].run, routes |-> {}]
<1>5. i \in Ids \ G!There
  BY <1>1 DEF G!There
<1>6. runs' = [runs EXCEPT ![r] = q]
  BY <1>4
<1>7. /\ q \in Run /\ q.at = "add" /\ q.title = runs[r].title /\ q.run = runs[r].run
      /\ q.todo = runs[r].todo \ draft_ /\ q.draft = draft_ /\ q.added = runs[r].added
      /\ q.created = runs[r].created /\ q.id = i
  BY <1>2, <1>5 DEF Run
<1>8. Stage(q)
  BY <1>5, <1>7 DEF Stage
<1>9. new \in LineSet /\ new # G!NoSet
  BY <1>2 DEF Run, LineSet, G!InHand, G!NoSet
<1>10. /\ sets' \in [Ids -> LineSet \cup {G!NoSet}] /\ G!There' = G!There \cup {i}
       /\ sets'[i] = new /\ \A j \in Ids \ {i} : sets'[j] = sets[j]
  BY <1>3, <1>4, <1>5, <1>9 DEF LinesTyped, G!There
<1>11. runs'[r] = q /\ \A o \in Pods \ {r} : runs'[o].at = "idle"
  BY <1>1, <1>3, <1>6, <1>7, RunGoesOn
<1>12. runs[r].id = None /\ Mine(r) = runs[r].created
  BY <1>1, <1>2 DEF Stage, Mine
<1>13. /\ Mine(r)' = runs[r].created \cup {i}
       /\ Mine(r) \subseteq G!There => Earlier(r)' = Earlier(r)
  BY <1>5, <1>7, <1>10, <1>11, <1>12, NoneAssumption DEF Mine, Earlier
<1>14. \A j \in G!There : j \in Ids \ {i} /\ sets'[j] = sets[j]
  BY <1>5, <1>10 DEF G!There
<1>15. WeekClaimed'
  <2>1. \A o \in Pods : runs'[o].at # "idle" => o = r
    BY <1>11
  <2>2. runs'[r].title = runs[r].title /\ runs'[r].run = runs[r].run
    BY <1>7, <1>11
  <2>3. ASSUME runs[r].title # 0, NEW j \in G!There', sets'[j].title = runs[r].title,
               sets'[j].status # "discarded"
        PROVE  sets'[j].run = runs[r].run
    <3>1. CASE j = i
      BY <1>10, <3>1
    <3>2. CASE j # i
      <4>1. j \in G!There /\ sets'[j] = sets[j]
        BY <1>10, <1>14, <2>3, <3>2
      <4> QED
        BY <1>1, <1>3, <2>3, <4>1 DEF WeekClaimed
    <3> QED
      BY <3>1, <3>2
  <2> QED
    BY <2>1, <2>2, <2>3 DEF WeekClaimed
<1>16. G!OneRunAWeek'
  <2>1. \A j \in G!There : sets[j].title = new.title /\ new.title # 0 /\ sets[j].status # "discarded"
                            => sets[j].run = new.run
    BY <1>1, <1>3 DEF WeekClaimed
  <2> QED
    BY <1>3, <1>10, <1>14, <2>1 DEF G!OneRunAWeek
<1>17. Apart(r) => Apart(r)'
  <2> SUFFICES ASSUME Apart(r)
               PROVE  Apart(r)'
    OBVIOUS
  <2>1. /\ Earlier(r)' = Earlier(r) /\ Earlier(r) \subseteq G!There /\ Mine(r) \subseteq G!There
        /\ Mine(r)' = Mine(r) \cup {i}
    BY <1>12, <1>13 DEF Apart, OwnApart, Earlier
  <2>2. Disjoint(Earlier(r))'
    BY <1>14, <2>1 DEF Apart, Disjoint
  <2>3. OwnApart(r)'
    BY <1>7, <1>10, <1>11, <1>14, <2>1 DEF Apart, OwnApart
  <2>4. WorkApart(r)'
    BY <1>7, <1>11, <1>14, <2>1 DEF Apart, WorkApart
  <2>5. OldKnown(r)'
    BY <1>7, <1>11 DEF OldKnown
  <2> QED
    BY <2>2, <2>3, <2>4, <2>5 DEF Apart
<1> QED
  BY <1>1, <1>6, <1>7, <1>8, <1>10, <1>15, <1>16, <1>17, GoesOn

LEMMA AddKeeps ==
  ASSUME LineInv, NEW r \in Pods, G!Add(r)
  PROVE  LineInv'
<1>1. /\ runs[r].at = "add" /\ holder' = holder /\ UNCHANGED <<week, moves, troubles, started, crossed>>
  BY DEF G!Add, G!At, G!people
<1>2. runs[r] \in Run /\ holder = r /\ Stage(runs[r]) /\ (~crossed => Apart(r))
  BY <1>1, RunIsTyped
<1>3. LinesTyped /\ Lock /\ WeekClaimed /\ G!OneRunAWeek
  BY DEF LineInv
<1>4. ASSUME NEW n \in runs[r].draft, sets' = sets, runs' = [runs EXCEPT ![r].draft = @ \ {n}]
      PROVE  LineInv'
  <2> DEFINE q == [runs[r] EXCEPT !.draft = @ \ {n}]
  <2>1. /\ q \in Run /\ q.at = "add" /\ q.title = runs[r].title /\ q.run = runs[r].run
        /\ q.todo = runs[r].todo /\ q.draft = runs[r].draft \ {n} /\ q.added = runs[r].added
        /\ q.created = runs[r].created /\ q.id = runs[r].id
    BY <1>1, <1>2 DEF Run
  <2>2. Stage(q) /\ runs' = [runs EXCEPT ![r] = q]
    BY <1>1, <1>2, <1>4, <2>1 DEF Stage
  <2>3. runs'[r] = q
    BY <1>1, <1>3, <2>1, <2>2, RunGoesOn
  <2>4. G!There' = G!There /\ Mine(r)' = Mine(r) /\ Earlier(r)' = Earlier(r)
    BY <1>4, <2>1, <2>3 DEF G!There, Mine, Earlier
  <2>5. Apart(r) => Apart(r)'
    BY <1>1, <1>4, <2>1, <2>3, <2>4 DEF Apart, OwnApart, WorkApart, OldKnown, Disjoint
  <2> QED
    BY <1>1, <1>4, <2>1, <2>2, <2>5, OnlyGoesOn
<1>5. ASSUME NEW n \in runs[r].draft,
             sets' = [sets EXCEPT ![runs[r].id].routes = @ \cup {n}],
             runs' = [runs EXCEPT ![r].draft = @ \ {n}, ![r].added = @ \cup {n}, ![r].some = TRUE],
             sets[runs[r].id].status = "draft"
      PROVE  LineInv'
  <2> DEFINE q == [runs[r] EXCEPT !.draft = @ \ {n}, !.added = @ \cup {n}, !.some = TRUE]
             i == runs[r].id
             more == [sets[i] EXCEPT !.routes = @ \cup {n}]
  <2>1. /\ q \in Run /\ q.at = "add" /\ q.title = runs[r].title /\ q.run = runs[r].run
        /\ q.todo = runs[r].todo /\ q.draft = runs[r].draft \ {n} /\ q.added = runs[r].added \cup {n}
        /\ q.created = runs[r].created /\ q.id = i
    BY <1>1, <1>2 DEF Run
  <2>2. Stage(q) /\ i \in Ids /\ runs' = [runs EXCEPT ![r] = q]
    BY <1>1, <1>2, <1>5, <2>1 DEF Stage
  <2>3. runs'[r] = q /\ \A o \in Pods \ {r} : runs'[o].at = "idle"
    BY <1>1, <1>3, <2>1, <2>2, RunGoesOn
  <2>4. sets[i] \in LineSet /\ n \in Routes
    BY <1>2, <1>3, <1>5, <2>2 DEF LinesTyped, G!NoSet, Run
  <2>5. /\ more \in LineSet /\ more.status = sets[i].status /\ more.title = sets[i].title
        /\ more.run = sets[i].run /\ more.routes = sets[i].routes \cup {n}
    BY <2>4 DEF LineSet
  <2>6. \A s \in LineSet : s # G!NoSet
    BY DEF LineSet, G!NoSet, G!InHand, G!Waiting
  <2>7. sets' = [sets EXCEPT ![i] = more]
    BY <1>5
  <2>8. /\ sets' \in [Ids -> LineSet \cup {G!NoSet}] /\ G!There' = G!There
        /\ sets'[i] = more /\ \A j \in Ids \ {i} : sets'[j] = sets[j]
    BY <1>3, <2>2, <2>4, <2>5, <2>6, <2>7 DEF LinesTyped, G!There
  <2>9. Mine(r)' = Mine(r) /\ Earlier(r)' = Earlier(r) /\ i \in Mine(r) /\ G!There \subseteq Ids
    BY <2>1, <2>2, <2>3, <2>8, NoneAssumption DEF Mine, Earlier, G!There
  <2>10. WeekClaimed' /\ G!OneRunAWeek'
    BY <1>1, <1>3, <2>1, <2>3, <2>5, <2>8, <2>9, WeekCarries
  <2>11. Apart(r) => Apart(r)'
    <3> SUFFICES ASSUME Apart(r)
                 PROVE  Apart(r)'
      OBVIOUS
    <3>1. \A j \in Earlier(r) : sets'[j] = sets[j]
      BY <2>8, <2>9 DEF Earlier
    <3>2. Disjoint(Earlier(r))'
      BY <2>9, <3>1 DEF Apart, Disjoint
    <3>3. OwnApart(r)'
      <4>1. \A j \in Mine(r) : n \notin sets[j].routes
        BY <1>5 DEF Apart, OwnApart, WorkApart
      <4>2. \A j \in Mine(r) : j \in Ids
        BY <2>9 DEF Apart, OwnApart
      <4>3. \A j \in Mine(r) : sets'[j].routes = IF j = i THEN sets[j].routes \cup {n} ELSE sets[j].routes
        BY <2>5, <2>8, <4>2
      <4>4. runs'[r].added = runs[r].added \cup {n}
        BY <2>1, <2>3
      <4>5. \A j \in Mine(r) : sets'[j].routes \subseteq runs'[r].added
        BY <4>3, <4>4 DEF Apart, OwnApart
      <4>6. \A j, k \in Mine(r) : j # k => sets'[j].routes \cap sets'[k].routes = {}
        BY <4>1, <4>3 DEF Apart, OwnApart
      <4>7. Mine(r)' \subseteq G!There'
        BY <2>8, <2>9 DEF Apart, OwnApart
      <4> QED
        BY <2>9, <4>5, <4>6, <4>7 DEF OwnApart
    <3>4. WorkApart(r)'
      <4>1. /\ runs'[r].todo = runs[r].todo /\ runs'[r].draft = runs[r].draft \ {n}
            /\ runs'[r].added = runs[r].added \cup {n} /\ n \in runs[r].draft
        BY <1>5, <2>1, <2>3
      <4>2. /\ runs'[r].todo \cap runs'[r].draft = {} /\ runs'[r].todo \cap runs'[r].added = {}
            /\ runs'[r].draft \cap runs'[r].added = {}
        BY <4>1 DEF Apart, WorkApart
      <4>3. \A j \in Earlier(r) : sets'[j].status \in G!Waiting =>
              sets'[j].routes \cap (runs'[r].todo \cup runs'[r].draft \cup runs'[r].added) = {}
        BY <3>1, <4>1 DEF Apart, WorkApart
      <4> QED
        BY <2>9, <4>2, <4>3 DEF WorkApart, G!Waiting
    <3>5. OldKnown(r)'
      BY <2>1, <2>3 DEF OldKnown
    <3> QED
      BY <3>2, <3>3, <3>4, <3>5 DEF Apart
  <2> QED
    BY <1>1, <2>1, <2>2, <2>8, <2>10, <2>11, GoesOn
<1> QED
  BY <1>4, <1>5 DEF G!Add

(* A run discards a set or takes routes out of it.                          *)
LEMMA SetShrinks ==
  ASSUME LineInv, NEW r \in Pods, runs[r].at \notin {"idle", "titles"},
         NEW q \in Run, runs' = [runs EXCEPT ![r] = q], holder' = holder,
         NEW i \in G!There, NEW s \in LineSet, sets' = [sets EXCEPT ![i] = s],
         UNCHANGED <<week, moves, troubles, started, crossed>>,
         s.title = sets[i].title, s.run = sets[i].run, s.routes \subseteq sets[i].routes,
         s.status = sets[i].status \/ s.status = "discarded",
         Stage(q), q.title = runs[r].title, q.run = runs[r].run,
         q.todo = runs[r].todo, q.draft = runs[r].draft, q.added = runs[r].added,
         q.created = runs[r].created,
         q.id = runs[r].id \/ (runs[r].id = i /\ q.id = None /\ s.status = "discarded"),
         q.at = "replace" =>
           /\ runs[r].at = "replace"
           /\ \A c \in runs[r].old : c \in q.old \/ (c[1] = i /\ c[2] \notin s.routes)
  PROVE  LineInv'
<1>1. LinesTyped /\ Lock /\ WeekClaimed /\ G!OneRunAWeek
  BY DEF LineInv
<1>2. runs'[r] = q /\ \A o \in Pods \ {r} : runs'[o].at = "idle"
  BY <1>1, RunGoesOn
<1>3. \A l \in LineSet : l # G!NoSet
  BY DEF LineSet, G!NoSet, G!InHand, G!Waiting
<1>4. /\ sets' \in [Ids -> LineSet \cup {G!NoSet}] /\ G!There' = G!There
      /\ sets'[i] = s /\ \A j \in G!There \ {i} : sets'[j] = sets[j]
  BY <1>1, <1>3 DEF LinesTyped, G!There
<1>5. \A j \in G!There : /\ sets'[j].routes \subseteq sets[j].routes
                         /\ sets'[j].title = sets[j].title /\ sets'[j].run = sets[j].run
                         /\ sets'[j].status = sets[j].status \/ sets'[j].status = "discarded"
  BY <1>4
<1>6. WeekClaimed' /\ G!OneRunAWeek'
  BY <1>1, <1>2, <1>4, <1>5, WeekCarries
<1>7. Apart(r) => Apart(r)'
  <2> SUFFICES ASSUME Apart(r)
               PROVE  Apart(r)'
    OBVIOUS
  <2>1. /\ Mine(r)' \subseteq Mine(r)
        /\ \A j \in Earlier(r)' : j \in Earlier(r) \/ sets'[j].status = "discarded"
    BY <1>2, <1>4 DEF Mine, Earlier
  <2>2. \A j \in Earlier(r)' : j \in G!There
    BY <1>4 DEF Earlier
  <2>3. \A j \in Earlier(r)' : sets'[j].status \in G!InHand =>
          j \in Earlier(r) /\ sets'[j].routes \subseteq sets[j].routes /\ sets'[j].status = sets[j].status
    BY <1>5, <2>1, <2>2 DEF G!InHand, G!Waiting
  <2>4. Disjoint(Earlier(r))'
    <3>1. ASSUME NEW j \in Earlier(r)', NEW k \in Earlier(r)', j # k,
                 sets'[j].status \in G!InHand, sets'[k].status \in G!InHand
          PROVE  sets'[j].routes \cap sets'[k].routes = {}
      <4>1. sets[j].routes \cap sets[k].routes = {}
        BY <2>3, <3>1 DEF Apart, Disjoint
      <4> QED
        BY <2>3, <3>1, <4>1
    <3> QED
      BY <3>1 DEF Disjoint, G!InHand, G!Waiting
  <2>5. OwnApart(r)'
    <3>1. \A j \in Mine(r) : j \in G!There /\ sets[j].routes \subseteq runs[r].added
      BY DEF Apart, OwnApart
    <3>2. Mine(r)' \subseteq G!There'
      BY <1>4, <2>1, <3>1
    <3>3. \A j \in Mine(r) : sets'[j].routes \subseteq runs'[r].added
      BY <1>2, <1>5, <3>1
    <3>4. \A j, k \in Mine(r) : j # k => sets'[j].routes \cap sets'[k].routes = {}
      <4>1. \A j, k \in Mine(r) : j # k => sets[j].routes \cap sets[k].routes = {}
        BY DEF Apart, OwnApart
      <4> QED
        BY <1>5, <3>1, <4>1
    <3> QED
      BY <2>1, <3>2, <3>3, <3>4 DEF OwnApart
  <2>6. WorkApart(r)'
    <3>1. ASSUME NEW j \in Earlier(r)', sets'[j].status \in G!Waiting
          PROVE  sets'[j].routes \cap (runs'[r].todo \cup runs'[r].draft \cup runs'[r].added) = {}
      <4>1. sets'[j].status \in G!InHand
        BY <3>1 DEF G!InHand
      <4>2. sets[j].routes \cap (runs[r].todo \cup runs[r].draft \cup runs[r].added) = {}
        BY <2>3, <3>1, <4>1 DEF Apart, WorkApart
      <4> QED
        BY <1>2, <2>3, <4>1, <4>2
    <3>2. /\ runs[r].todo \cap runs[r].draft = {} /\ runs[r].todo \cap runs[r].added = {}
          /\ runs[r].draft \cap runs[r].added = {}
      BY DEF Apart, WorkApart
    <3> QED
      BY <1>2, <3>1, <3>2 DEF WorkApart, G!Waiting
  <2>7. OldKnown(r)'
    <3>1. ASSUME q.at = "replace", NEW j \in Earlier(r)', sets'[j].status = "draft",
                 NEW n \in sets'[j].routes \cap runs'[r].added
          PROVE  <<j, n>> \in runs'[r].old
      <4>1. j \in Earlier(r) /\ n \in sets[j].routes /\ sets[j].status = "draft"
        BY <2>3, <3>1 DEF G!InHand
      <4>2. <<j, n>> \in runs[r].old
        BY <1>2, <3>1, <4>1 DEF Apart, OldKnown
      <4>3. <<j, n>> \in q.old \/ (j = i /\ n \notin s.routes)
        BY <3>1, <4>2
      <4> QED
        BY <1>2, <1>4, <3>1, <4>3
    <3> QED
      BY <1>2, <3>1 DEF OldKnown
  <2> QED
    BY <2>4, <2>5, <2>6, <2>7 DEF Apart
<1> QED
  BY <1>4, <1>6, <1>7, GoesOn

LEMMA ShrunkSets ==
  ASSUME NEW s \in LineSet, NEW n
  PROVE  /\ LET d == [s EXCEPT !.status = "discarded"]
            IN  /\ d \in LineSet /\ d.status = "discarded" /\ d.title = s.title /\ d.run = s.run
                /\ d.routes = s.routes
         /\ LET d == [s EXCEPT !.routes = @ \ {n}]
            IN  /\ d \in LineSet /\ d.status = s.status /\ d.title = s.title /\ d.run = s.run
                /\ d.routes = s.routes \ {n}
BY DEF LineSet

LEMMA EndDraftKeeps ==
  ASSUME LineInv, NEW r \in Pods, G!EndDraft(r)
  PROVE  LineInv'
<1>1. runs[r].at = "add" /\ runs[r].draft = {} /\ UNCHANGED <<week, moves, troubles, started>>
  BY DEF G!EndDraft, G!At, G!people
<1>2. runs[r] \in Run /\ holder = r /\ Stage(runs[r]) /\ (~crossed => Apart(r))
  BY <1>1, RunIsTyped
<1>3. LinesTyped /\ Lock
  BY DEF LineInv
<1> DEFINE i == runs[r].id
<1>4. i \in Ids
  BY <1>1, <1>2 DEF Stage
<1>5. ASSUME runs' = [runs EXCEPT ![r].at = "create", ![r].created = @ \cup {i}, ![r].id = None],
             UNCHANGED <<sets, holder, crossed>>
      PROVE  LineInv'
  <2> DEFINE q == [runs[r] EXCEPT !.at = "create", !.created = @ \cup {i}, !.id = None]
  <2>1. /\ q \in Run /\ q.at = "create" /\ q.title = runs[r].title /\ q.run = runs[r].run
        /\ q.todo = runs[r].todo /\ q.draft = runs[r].draft /\ q.added = runs[r].added
        /\ q.created = runs[r].created \cup {i} /\ q.id = None
    BY <1>2, <1>4 DEF Run
  <2>2. Stage(q) /\ runs' = [runs EXCEPT ![r] = q]
    BY <1>5, <2>1 DEF Stage
  <2>3. runs'[r] = q
    BY <1>1, <1>3, <1>5, <2>1, <2>2, RunGoesOn
  <2>4. G!There' = G!There /\ Mine(r)' = Mine(r) /\ Earlier(r)' = Earlier(r)
    BY <1>4, <1>5, <2>1, <2>3, NoneAssumption DEF G!There, Mine, Earlier
  <2>5. Apart(r) => Apart(r)'
    <3> SUFFICES ASSUME Apart(r)
                 PROVE  Apart(r)'
      OBVIOUS
    <3>1. /\ runs'[r].at = "create" /\ runs'[r].todo = runs[r].todo
          /\ runs'[r].draft = runs[r].draft /\ runs'[r].added = runs[r].added
      BY <2>1, <2>3
    <3>2. Disjoint(Earlier(r))'
      BY <1>5, <2>4 DEF Apart, Disjoint
    <3>3. OwnApart(r)'
      BY <1>5, <2>4, <3>1 DEF Apart, OwnApart
    <3>4. WorkApart(r)'
      BY <1>5, <2>4, <3>1 DEF Apart, WorkApart
    <3> QED
      BY <3>1, <3>2, <3>3, <3>4 DEF Apart, OldKnown
  <2> QED
    BY <1>1, <1>5, <2>1, <2>2, <2>5, OnlyGoesOn
<1>6. ASSUME sets[i].status \in G!InHand, sets' = [sets EXCEPT ![i].status = "discarded"],
             runs' = [runs EXCEPT ![r].at = "create", ![r].id = None], UNCHANGED <<holder, crossed>>
      PROVE  LineInv'
  <2> DEFINE q == [runs[r] EXCEPT !.at = "create", !.id = None]
             s == [sets[i] EXCEPT !.status = "discarded"]
  <2>1. /\ q \in Run /\ q.at = "create" /\ q.title = runs[r].title /\ q.run = runs[r].run
        /\ q.todo = runs[r].todo /\ q.draft = runs[r].draft /\ q.added = runs[r].added
        /\ q.created = runs[r].created /\ q.id = None
    BY <1>2 DEF Run
  <2>2. Stage(q) /\ runs' = [runs EXCEPT ![r] = q] /\ sets' = [sets EXCEPT ![i] = s]
    BY <1>6, <2>1 DEF Stage
  <2>3. sets[i] \in LineSet /\ i \in G!There
    BY <1>3, <1>4, <1>6 DEF LinesTyped, G!NoSet, G!There, G!InHand, G!Waiting
  <2>4. /\ s \in LineSet /\ s.status = "discarded" /\ s.title = sets[i].title /\ s.run = sets[i].run
        /\ s.routes = sets[i].routes
    BY <2>3, ShrunkSets
  <2>5. /\ runs[r].at \notin {"idle", "titles"} /\ holder' = holder
        /\ UNCHANGED <<week, moves, troubles, started, crossed>>
        /\ s.routes \subseteq sets[i].routes /\ q.at # "replace"
    BY <1>1, <1>6, <2>1, <2>4
  <2> HIDE DEF q, s
  <2> QED
    BY <2>1, <2>2, <2>3, <2>4, <2>5, SetShrinks
<1>7. CASE G!Over(r) /\ crossed' = TRUE /\ sets' = sets
  BY <1>1, <1>3, <1>7, EndsCrossed DEF LinesTyped
<1> QED
  BY <1>5, <1>6, <1>7 DEF G!EndDraft

LEMMA FindEarlierKeeps ==
  ASSUME LineInv, NEW r \in Pods, G!FindEarlier(r)
  PROVE  LineInv'
<1>1. /\ runs[r].at = "create" /\ UNCHANGED <<sets, week, moves, troubles, started, crossed>>
  BY DEF G!FindEarlier, G!At, G!people
<1>2. runs[r] \in Run /\ holder = r /\ Stage(runs[r]) /\ (~crossed => Apart(r))
  BY <1>1, RunIsTyped
<1>3. LinesTyped /\ Lock
  BY DEF LineInv
<1>4. runs[r].id = None /\ Mine(r) = runs[r].created
  BY <1>1, <1>2 DEF Stage, Mine
<1>5. CASE runs[r].created = {}
  <2>1. G!Over(r)
    BY <1>5 DEF G!FindEarlier
  <2> QED
    BY <1>1, <1>2, <1>3, <1>4, <1>5, <2>1, RunLeavesApart, EndsWell
<1>6. CASE runs[r].created # {}
  <2> DEFINE old_ == {c \in (G!There \ runs[r].created) \X runs[r].added :
                        sets[c[1]].status = "draft" /\ c[2] \in sets[c[1]].routes}
             q == [runs[r] EXCEPT !.at = "replace", !.old = old_]
  <2>1. runs' = [runs EXCEPT ![r] = q] /\ holder' = holder
    BY <1>6 DEF G!FindEarlier
  <2>2. old_ \in SUBSET (Ids \X Routes)
    BY <1>2 DEF Run, G!There
  <2>3. \A j \in G!There \ runs[r].created : sets[j].status = "draft" =>
          \A n \in sets[j].routes \cap runs[r].added : <<j, n>> \in old_
    OBVIOUS
  <2> HIDE DEF old_
  <2>4. /\ q \in Run /\ q.at = "replace" /\ q.title = runs[r].title /\ q.run = runs[r].run
        /\ q.todo = runs[r].todo /\ q.draft = runs[r].draft /\ q.added = runs[r].added
        /\ q.created = runs[r].created /\ q.id = None /\ q.old = old_
    BY <1>2, <1>4, <2>2 DEF Run
  <2>5. Stage(q)
    BY <2>4 DEF Stage
  <2>6. runs'[r] = q
    BY <1>1, <1>3, <2>1, <2>4, RunGoesOn
  <2>7. /\ G!There' = G!There /\ Mine(r)' = Mine(r) /\ Earlier(r)' = Earlier(r)
        /\ Earlier(r) = G!There \ runs[r].created
    BY <1>1, <1>4, <2>4, <2>6 DEF G!There, Mine, Earlier
  <2>8. OldKnown(r)'
    BY <1>1, <2>3, <2>4, <2>6, <2>7 DEF OldKnown
  <2>9. Apart(r) => Apart(r)'
    BY <1>1, <2>4, <2>6, <2>7, <2>8 DEF Apart, OwnApart, WorkApart, Disjoint
  <2> QED
    BY <1>1, <2>1, <2>4, <2>5, <2>9, OnlyGoesOn
<1> QED
  BY <1>5, <1>6

LEMMA TakeOutKeeps ==
  ASSUME LineInv, NEW r \in Pods, G!TakeOut(r)
  PROVE  LineInv'
<1>1. runs[r].at = "replace" /\ UNCHANGED <<week, moves, troubles, started>>
  BY DEF G!TakeOut, G!At, G!people
<1>2. runs[r] \in Run /\ holder = r /\ Stage(runs[r])
  BY <1>1, RunIsTyped
<1>3. LinesTyped /\ Lock
  BY DEF LineInv
<1>4. ASSUME NEW c \in runs[r].old, sets[c[1]].status = "draft", c[2] \in sets[c[1]].routes,
             sets' = [sets EXCEPT ![c[1]].routes = @ \ {c[2]}],
             runs' = [runs EXCEPT ![r].old = @ \ {c}, ![r].touched = @ \cup {c[1]}],
             UNCHANGED <<holder, crossed>>
      PROVE  LineInv'
  <2> DEFINE i == c[1]
             q == [runs[r] EXCEPT !.old = @ \ {c}, !.touched = @ \cup {i}]
             s == [sets[i] EXCEPT !.routes = @ \ {c[2]}]
  <2>1. c \in Ids \X Routes
    BY <1>2 DEF Run
  <2>2. /\ q \in Run /\ q.at = "replace" /\ q.title = runs[r].title /\ q.run = runs[r].run
        /\ q.todo = runs[r].todo /\ q.draft = runs[r].draft /\ q.added = runs[r].added
        /\ q.created = runs[r].created /\ q.id = runs[r].id /\ q.old = runs[r].old \ {c}
    BY <1>1, <1>2, <2>1 DEF Run
  <2>3. Stage(q) /\ runs' = [runs EXCEPT ![r] = q] /\ sets' = [sets EXCEPT ![i] = s]
    BY <1>1, <1>2, <1>4, <2>2 DEF Stage
  <2>4. sets[i] \in LineSet /\ i \in G!There
    BY <1>3, <1>4, <2>1 DEF LinesTyped, G!NoSet, G!There
  <2>5. /\ s \in LineSet /\ s.status = sets[i].status /\ s.title = sets[i].title /\ s.run = sets[i].run
        /\ s.routes = sets[i].routes \ {c[2]}
    BY <2>4, ShrunkSets
  <2>6. /\ runs[r].at \notin {"idle", "titles"} /\ holder' = holder
        /\ UNCHANGED <<week, moves, troubles, started, crossed>>
        /\ s.routes \subseteq sets[i].routes
        /\ \A b \in runs[r].old : b \in q.old \/ (b[1] = i /\ b[2] \notin s.routes)
    BY <1>1, <1>4, <2>2, <2>5
  <2> HIDE DEF q, s, i
  <2> QED
    BY <1>1, <2>2, <2>3, <2>4, <2>5, <2>6, SetShrinks
<1>5. CASE G!Over(r) /\ crossed' = TRUE /\ sets' = sets
  BY <1>1, <1>3, <1>5, EndsCrossed DEF LinesTyped
<1> QED
  BY <1>4, <1>5 DEF G!TakeOut

LEMMA DiscardEmptyKeeps ==
  ASSUME LineInv, NEW r \in Pods, G!DiscardEmpty(r)
  PROVE  LineInv'
<1>1. /\ runs[r].at = "replace" /\ runs[r].old = {} /\ UNCHANGED <<week, moves, troubles, started>>
  BY DEF G!DiscardEmpty, G!At, G!people
<1>2. runs[r] \in Run /\ holder = r /\ Stage(runs[r]) /\ (~crossed => Apart(r))
  BY <1>1, RunIsTyped
<1>3. LinesTyped /\ Lock
  BY DEF LineInv
<1>4. CASE G!Over(r) /\ UNCHANGED <<sets, crossed>>
  BY <1>1, <1>2, <1>3, <1>4, RunLeavesApart, EndsWell
<1>5. CASE G!Over(r) /\ crossed' = TRUE /\ sets' = sets
  BY <1>1, <1>3, <1>5, EndsCrossed DEF LinesTyped
<1>6. ASSUME NEW i \in runs[r].touched, runs' = [runs EXCEPT ![r].touched = @ \ {i}],
             UNCHANGED <<holder, crossed>>,
             \/ sets' = sets
             \/ sets[i].status \in G!InHand /\ sets' = [sets EXCEPT ![i].status = "discarded"]
      PROVE  LineInv'
  <2> DEFINE q == [runs[r] EXCEPT !.touched = @ \ {i}]
             s == [sets[i] EXCEPT !.status = "discarded"]
  <2>1. /\ q \in Run /\ q.at = "replace" /\ q.title = runs[r].title /\ q.run = runs[r].run
        /\ q.todo = runs[r].todo /\ q.draft = runs[r].draft /\ q.added = runs[r].added
        /\ q.created = runs[r].created /\ q.id = runs[r].id /\ q.old = runs[r].old
    BY <1>1, <1>2 DEF Run
  <2>2. Stage(q) /\ runs' = [runs EXCEPT ![r] = q] /\ holder' = holder
    BY <1>1, <1>2, <1>6, <2>1 DEF Stage
  <2>3. /\ runs[r].at \notin {"idle", "titles"}
        /\ UNCHANGED <<week, moves, troubles, started, crossed>>
    BY <1>1, <1>6
  <2>4. runs'[r] = q
    BY <1>3, <2>1, <2>2, <2>3, RunGoesOn
  <2>5. CASE sets' = sets
    <3>1. G!There' = G!There /\ Mine(r)' = Mine(r) /\ Earlier(r)' = Earlier(r)
      BY <2>1, <2>4, <2>5 DEF G!There, Mine, Earlier
    <3>2. /\ runs'[r].at = runs[r].at /\ runs'[r].todo = runs[r].todo /\ runs'[r].old = runs[r].old
          /\ runs'[r].draft = runs[r].draft /\ runs'[r].added = runs[r].added
      BY <1>1, <2>1, <2>4
    <3>3. Apart(r) => Apart(r)'
      BY <2>5, <3>1, <3>2 DEF Apart, OwnApart, WorkApart, OldKnown, Disjoint
    <3> HIDE DEF q
    <3> QED
      BY <2>1, <2>2, <2>3, <2>5, <3>3, OnlyGoesOn
  <2>6. CASE sets[i].status \in G!InHand /\ sets' = [sets EXCEPT ![i].status = "discarded"]
    <3>1. sets' = [sets EXCEPT ![i] = s] /\ i \in Ids
      BY <1>2, <2>6 DEF Run
    <3>2. sets[i] \in LineSet /\ i \in G!There
      BY <1>3, <2>6, <3>1 DEF LinesTyped, G!NoSet, G!There, G!InHand, G!Waiting
    <3>3. /\ s \in LineSet /\ s.status = "discarded" /\ s.title = sets[i].title /\ s.run = sets[i].run
          /\ s.routes \subseteq sets[i].routes
      BY <3>2, ShrunkSets
    <3> HIDE DEF q, s
    <3> QED
      BY <1>1, <2>1, <2>2, <2>3, <3>1, <3>2, <3>3, SetShrinks
  <2> QED
    BY <1>6, <2>5, <2>6
<1>7. CASE runs[r].touched = {}
  BY <1>4, <1>7 DEF G!DiscardEmpty
<1>8. CASE runs[r].touched # {}
  BY <1>5, <1>6, <1>8 DEF G!DiscardEmpty
<1> QED
  BY <1>7, <1>8

LEMMA MoveKeeps ==
  ASSUME LineInv, NEW i \in Ids,
         NEW to \in {"draft", "submitted", "approved", "rejected", "committed", "discarded"},
         G!Move(i, to)
  PROVE  LineInv'
<1>0. /\ LinesTyped /\ Lock /\ WeekClaimed /\ G!OneRunAWeek /\ LinesApart /\ G!OneSetARoute
      /\ \A o \in Pods : Stage(runs[o])
  BY DEF LineInv
<1> DEFINE s == [sets[i] EXCEPT !.status = to]
<1>1. /\ i \in G!There /\ sets' = [sets EXCEPT ![i] = s] /\ moves' = moves + 1
      /\ crossed' = (crossed \/ holder # None \/ (sets[i].status = "rejected" /\ to = "draft"))
      /\ UNCHANGED <<runs, holder, week, troubles, started>>
  BY DEF G!Move
<1>2. sets[i] \in LineSet /\ sets[i].status # "discarded"
  BY <1>0, <1>1 DEF LinesTyped, G!There, G!Move, G!Moves
<1>3. to \in G!InHand => sets[i].status \in G!InHand \/ (sets[i].status = "rejected" /\ to = "draft")
  BY DEF G!Move, G!Moves, G!InHand, G!Waiting
<1>4. /\ s \in LineSet /\ s.status = to /\ s.title = sets[i].title /\ s.run = sets[i].run
      /\ s.routes = sets[i].routes
  BY <1>2 DEF LineSet, G!InHand, G!Waiting
<1>5. \A l \in LineSet : l # G!NoSet
  BY DEF LineSet, G!NoSet, G!InHand, G!Waiting
<1>6. /\ sets' \in [Ids -> LineSet \cup {G!NoSet}] /\ G!There' = G!There
      /\ sets'[i] = s /\ \A j \in G!There \ {i} : sets'[j] = sets[j]
  BY <1>0, <1>1, <1>4, <1>5 DEF LinesTyped, G!There
<1>7. LinesTyped' /\ Lock'
  BY <1>0, <1>1, <1>6 DEF LinesTyped, Lock
<1>8. WeekClaimed' /\ G!OneRunAWeek'
  <2>1. \A j \in G!There' : /\ j \in G!There /\ sets'[j].title = sets[j].title
                            /\ sets'[j].run = sets[j].run
                            /\ sets'[j].status # "discarded" => sets[j].status # "discarded"
    BY <1>2, <1>4, <1>6
  <2> QED
    BY <1>0, <1>1, <2>1, WeekCarries
<1>9. LinesApart'
  BY <1>0, <1>1, NoneAssumption DEF LinesApart, Lock
<1>10. G!OneSetARoute'
  <2>1. ASSUME holder = None, ~crossed'
        PROVE  \A j \in G!There : /\ sets'[j].status \in G!InHand => sets[j].status \in G!InHand
                                 /\ sets'[j].routes = sets[j].routes
    BY <1>1, <1>3, <1>4, <1>6, <2>1
  <2> QED
    BY <1>0, <1>1, <1>6, <2>1 DEF G!OneSetARoute, G!InHand, G!Waiting
<1> QED
  BY <1>0, <1>1, <1>7, <1>8, <1>9, <1>10 DEF LineInv

LEMMA LineInvKept ==
  ASSUME LineInv, [G!Next]_lineVars
  PROVE  LineInv'
<1>1. ASSUME NEW r \in Pods, G!CutShort(r)
      PROVE  LineInv'
  <2>1. runs[r].at # "idle" /\ G!Over(r) /\ sets' = sets /\ UNCHANGED <<week, moves, started>>
        /\ troubles' = troubles + 1 /\ crossed' = TRUE
    BY <1>1 DEF G!CutShort, G!At, G!people
  <2>2. troubles \in Nat
    BY DEF LineInv, LinesTyped
  <2> QED
    BY <2>1, <2>2, EndsCrossed
<1>2. ASSUME G!NextWeek
      PROVE  LineInv'
  BY <1>2 DEF G!NextWeek, LineInv, LinesTyped, Lock, Stage, WeekClaimed, G!OneRunAWeek, G!There, LinesApart,
     Apart, Disjoint, OwnApart, WorkApart, OldKnown, Mine, Earlier, G!OneSetARoute
<1>3. CASE UNCHANGED lineVars
  BY <1>3 DEF lineVars, LineInv, LinesTyped, Lock, Stage, WeekClaimed, G!OneRunAWeek, G!There, LinesApart,
     Apart, Disjoint, OwnApart, WorkApart, OldKnown, Mine, Earlier, G!OneSetARoute
<1> QED
  BY <1>1, <1>2, <1>3, StartKeeps, CheckWeekKeeps, ReadHeldKeeps, CreateKeeps, AddKeeps, EndDraftKeeps,
     FindEarlierKeeps, TakeOutKeeps, DiscardEmptyKeeps, MoveKeeps DEF G!Next

LEMMA LineInvHolds == G!Init /\ [][G!Next]_lineVars => []LineInv
BY LineInvInitially, LineInvKept, PTL

(* Between runs a route is in one of the account's sets in hand at most      *)
(* (read_held, replace_in_earlier_drafts), until a run is cut short or a     *)
(* person moves a set under one.                                             *)
THEOREM OneSetARouteHolds == PartsSpec => []OneSetARoute
<1>1. LineInv => OneSetARoute
  BY DEF LineInv, OneSetARoute
<1> QED
  BY <1>1, LineInvHolds, LinesStandAlone, PTL

(* One run drafts a week: the run that looks whether its week is done has    *)
(* the lock, and whatever dies half way leaves sets that say so.             *)
THEOREM OneRunAWeekHolds == PartsSpec => []OneRunAWeek
<1>1. LineInv => OneRunAWeek
  BY DEF LineInv, OneRunAWeek
<1> QED
  BY <1>1, LineInvHolds, LinesStandAlone, PTL
-----------------------------------------------------------------------------
(* Moving master's work to prod                                            *)

LEMMA MigrationStandsAlone == PartsSpec => M!Init /\ [][M!Next]_migrationVars
<1>1. PartsInit => M!Init
  BY DEF PartsInit
<1>2. [PartsNext]_partsVars => [M!Next]_migrationVars
  BY DEF PartsNext, partsVars, migrationVars
<1> QED
  BY <1>1, <1>2, PTL DEF PartsSpec

MigrationSet ==
  [status: {"open", "committed", "discarded"}, from: {"own", "set", "full"}, n: Nat,
   to: UNION {[D -> M!Contents] : D \in SUBSET Rows}, since: Nat, read: Nat,
   base: UNION {[D -> Nat] : D \in SUBSET Rows}, seen: UNION {[D -> M!Contents] : D \in SUBSET Rows},
   take: SUBSET Rows, recorded: BOOLEAN, version: Nat]

MigrationTyped ==
  /\ master \in Seq([Rows -> M!Contents]) /\ Len(master) >= 1
  /\ prod \in [Rows -> M!Contents] /\ wrote \in [Rows -> Nat]
  /\ prodVersion \in Nat
  /\ drafts \in Seq(MigrationSet)

(* No version of master is the one before it, and lists and timetables are   *)
(* never dead.                                                               *)
Steady == {k \in Rows : Kind[k] \in {"list", "timetable"}}
MasterMoves ==
  /\ \A n \in 1 .. (Len(master) - 1) : \E k \in Rows : master[n + 1][k] # master[n][k]
  /\ \A k \in Steady : prod[k] # "dead" /\ \A n \in 1 .. Len(master) : master[n][k] # "dead"

(* The versions prod's own sets, and the others, have written a row at.      *)
Wrote(i, k) == drafts[i].status = "committed" /\ k \in DOMAIN drafts[i].to
OwnAt(k)   == {drafts[i].version : i \in {j \in M!Own : Wrote(j, k)}}
OtherAt(k) == {drafts[i].version : i \in {j \in M!NumbersOfSets \ M!Own : Wrote(j, k)}}

(* By version read, a migration is behind none of prod's own edits since base. *)
Respected(k, base, read) ==
  \A v \in OwnAt(k) : v > base /\ v <= read => \E u \in OtherAt(k) : v <= u

(* A change set fits its feeds: no change of it is based on a row to come.   *)
Fits(i) ==
  /\ DOMAIN drafts[i].base = DOMAIN drafts[i].to /\ DOMAIN drafts[i].seen = DOMAIN drafts[i].to
  /\ drafts[i].version <= prodVersion /\ drafts[i].read <= prodVersion
  /\ \A k \in DOMAIN drafts[i].to : /\ drafts[i].base[k] <= prodVersion
                                    /\ k \in M!Timetables \/ drafts[i].base[k] <= drafts[i].read
                                    /\ k \in Steady => drafts[i].to[k] # "dead"
  /\ drafts[i].from = "set" => drafts[i].n \in 1 .. (Len(master) - 1)
  /\ drafts[i].recorded => drafts[i].from # "own"

(* A read-in that has let the lock go keeps what prod had edited by then.    *)
ReadIn(a) ==
  /\ job[a].at = "timetables" =>
       /\ job[a].n \in 1 .. Len(master) /\ job[a].since \in Nat /\ job[a].take \subseteq Rows
       /\ job[a].read \in Nat /\ job[a].read <= prodVersion
       /\ \A k \in M!Timetables \ (job[a].keep \cup job[a].take) : Respected(k, job[a].since, job[a].read)
  /\ job[a].at = "record" =>
       job[a].id \in M!NumbersOfSets /\ drafts[job[a].id].from = "full"

(* What a migration's set was made on, and what of prod's own it respects.   *)
Stands(i) ==
  drafts[i].from # "own" =>
    \A k \in DOMAIN drafts[i].to :
      /\ drafts[i].seen[k] # "dead"
      /\ \/ drafts[i].to[k] # drafts[i].seen[k]
         \/ drafts[i].from = "set" /\ Kind[k] = "timetable" /\ k \in drafts[i].take
      /\ drafts[i].from = "full" /\ k \notin drafts[i].take =>
           Respected(k, drafts[i].since, drafts[i].read)
      /\ drafts[i].from = "set" /\ k \notin drafts[i].take =>
           drafts[i].to[k] = "dead" \/ drafts[i].seen[k] = master[drafts[i].n][k]

(* A row whose version is the one an open set was made on is as it saw it.   *)
Sees(i) ==
  drafts[i].status = "open" =>
    \A k \in DOMAIN drafts[i].to : wrote[k] = drafts[i].base[k] => prod[k] = drafts[i].seen[k]

MigrationInv ==
  /\ MigrationTyped /\ MasterMoves
  /\ \A k \in Rows : wrote[k] <= prodVersion /\ \A v \in OwnAt(k) : v <= wrote[k]
  /\ \A i \in M!NumbersOfSets : Fits(i) /\ Stands(i) /\ Sees(i)
  /\ DOMAIN job = Admins /\ \A a \in Admins : ReadIn(a)

LEMMA MigrationInvInitially == M!Init => MigrationInv
<1> SUFFICES ASSUME M!Init PROVE MigrationInv
  OBVIOUS
<1>1. master \in Seq([Rows -> M!Contents]) /\ Len(master) = 1 /\ master[1] = FirstMaster
  BY MigrationAssumption DEF M!Init
<1>2. drafts \in Seq(MigrationSet) /\ Len(drafts) = 0
  BY DEF M!Init
<1>3. MigrationTyped /\ M!NumbersOfSets = {}
  BY <1>1, <1>2, MigrationAssumption DEF MigrationTyped, M!Init, M!NumbersOfSets
<1>4. MasterMoves
  <2>1. \A k \in Steady : FirstMaster[k] # "dead" /\ FirstProd[k] # "dead"
    BY MigrationAssumption DEF Steady, M!Timetables
  <2> QED
    BY <1>1, <2>1 DEF MasterMoves, M!Init
<1>5. \A k \in Rows : wrote[k] <= prodVersion /\ OwnAt(k) = {}
  BY <1>3 DEF M!Init, OwnAt, M!Own
<1> QED
  BY <1>3, <1>4, <1>5 DEF MigrationInv, M!Init, ReadIn, M!Idle

(* The greatest of some versions, 0 of none.                                *)
Top(at) == IF at = {} THEN 0 ELSE CHOOSE v \in at : \A u \in at : u <= v

LEMMA LeastOf ==
  ASSUME NEW D \in SUBSET Nat, D # {}
  PROVE  \E d \in D : \A e \in D : d <= e
<1>1. PICK less : /\ \A d, e \in Nat : e < d => <<e, d>> \in less
                  /\ IsWellFoundedOn(less, Nat)
  <2>1. OpToRel(<, Nat) = {dd \in Nat \X Nat : dd[1] < dd[2]}
    BY Zenon DEF OpToRel
  <2>2. IsWellFoundedOn({dd \in Nat \X Nat : dd[1] < dd[2]}, Nat)
    BY <2>1, NatLessThanWellFounded, Zenon
  <2>3. PICK below : below = {dd \in Nat \X Nat : dd[1] < dd[2]}
    OBVIOUS
  <2> HIDE <2>1
  <2>4. IsWellFoundedOn(below, Nat)
    BY <2>2, <2>3, Zenon
  <2>5. \A d, e \in Nat : e < d => <<e, d>> \in below
    BY <2>3
  <2> QED
    BY <2>4, <2>5
<1>2. PICK d \in D : \A e \in D : <<e, d>> \notin less
  BY <1>1, WFMin
<1>3. \A e \in D : ~(e < d)
  BY <1>1, <1>2
<1> QED
  BY <1>3

LEMMA TopOf ==
  ASSUME NEW b \in Nat, NEW at \in SUBSET (0 .. b)
  PROVE  /\ Top(at) \in 0 .. b /\ \A u \in at : u <= Top(at)
         /\ at # {} => Top(at) \in at
<1>1. CASE at = {}
  BY <1>1 DEF Top
<1>2. CASE at # {}
  <2> DEFINE Above == {m \in Nat : \A u \in at : u <= m}
  <2>1. Above \in SUBSET Nat /\ b \in Above
    OBVIOUS
  <2>2. PICK d \in Above : \A e \in Above : d <= e
    BY <2>1, LeastOf
  <2>3. d \in at
    <3> SUFFICES ASSUME d \notin at PROVE FALSE
      OBVIOUS
    <3>1. d \in Nat /\ \A u \in at : u \in Nat /\ u <= d /\ u # d
      BY <2>1, <2>2
    <3>2. \A u \in at : u <= d - 1
      BY <3>1
    <3>3. PICK u \in at : TRUE
      BY <1>2
    <3>4. d - 1 \in Nat
      BY <3>1, <3>2, <3>3
    <3>5. d - 1 \in Above
      BY <3>2, <3>4
    <3>6. d <= d - 1
      BY <2>2, <3>5, Zenon
    <3> QED
      BY <3>1, <3>6
  <2>4. \E v \in at : \A u \in at : u <= v
    BY <2>2, <2>3
  <2> HIDE DEF Above
  <2>5. Top(at) \in at /\ \A u \in at : u <= Top(at)
    BY <1>2, <2>4 DEF Top
  <2> QED
    BY <2>5
<1> QED
  BY <1>1, <1>2

LEMMA VersionsBounded ==
  ASSUME MigrationInv, NEW some \in SUBSET M!NumbersOfSets, NEW k
  PROVE  prodVersion \in Nat /\ M!At(some, k) \in SUBSET (0 .. prodVersion)
<1>1. prodVersion \in Nat /\ \A i \in M!NumbersOfSets : Fits(i) /\ drafts[i] \in MigrationSet
  BY ElementOfSeq DEF MigrationInv, MigrationTyped, M!NumbersOfSets
<1>2. \A i \in M!NumbersOfSets : drafts[i].version \in 0 .. prodVersion
  BY <1>1 DEF Fits, MigrationSet
<1> QED
  BY <1>1, <1>2 DEF M!At

LEMMA SetAt ==
  ASSUME MigrationInv, NEW i \in M!NumbersOfSets
  PROVE  /\ drafts[i] \in MigrationSet /\ Fits(i) /\ Stands(i) /\ Sees(i) /\ Len(drafts) \in Nat
         /\ DOMAIN drafts[i].to \subseteq Rows
         /\ \A k \in DOMAIN drafts[i].to : drafts[i].to[k] \in M!Contents /\ drafts[i].base[k] \in Nat
<1>1. drafts[i] \in MigrationSet /\ Fits(i) /\ Stands(i) /\ Sees(i) /\ Len(drafts) \in Nat
  BY ElementOfSeq, LenProperties DEF MigrationInv, MigrationTyped, M!NumbersOfSets
<1>2. /\ drafts[i].to \in UNION {[D -> M!Contents] : D \in SUBSET Rows}
      /\ drafts[i].base \in UNION {[D -> Nat] : D \in SUBSET Rows}
      /\ DOMAIN drafts[i].base = DOMAIN drafts[i].to
  BY <1>1 DEF MigrationSet, Fits
<1>3. PICK D \in SUBSET Rows : drafts[i].to \in [D -> M!Contents]
  BY <1>2
<1>4. PICK E \in SUBSET Rows : drafts[i].base \in [E -> Nat]
  BY <1>2
<1> QED
  BY <1>1, <1>2, <1>3, <1>4

(* What a read-in finds not changed on prod it respects: a recorded set is   *)
(* none of prod's own, and the history it reads is whole.                    *)
LEMMA RespectedIfUnchanged ==
  ASSUME MigrationInv, NEW k, NEW base \in Nat, NEW read, ~M!ChangedOnProd(k, base)
  PROVE  Respected(k, base, read)
<1> SUFFICES ASSUME NEW v \in OwnAt(k), v > base, \A u \in OtherAt(k) : ~(v <= u)
             PROVE  FALSE
  BY DEF Respected
<1>1. PICK own, rec, b : /\ own = M!At(M!NumbersOfSets \ M!Recorded, k) /\ rec = M!At(M!Recorded, k)
                         /\ b = prodVersion
  OBVIOUS
<1>2. b \in Nat /\ own \in SUBSET (0 .. b) /\ rec \in SUBSET (0 .. b)
  BY <1>1, VersionsBounded DEF M!Recorded
<1>3. M!Own \subseteq M!NumbersOfSets \ M!Recorded /\ M!Recorded \subseteq M!NumbersOfSets \ M!Own
  BY SetAt DEF M!Own, M!Recorded, Fits
<1>4. v \in own /\ rec \subseteq OtherAt(k)
  BY <1>1, <1>3 DEF OwnAt, OtherAt, M!At, Wrote
<1>5. M!LastBy(M!NumbersOfSets \ M!Recorded, k) = Top(own) /\ M!LastBy(M!Recorded, k) = Top(rec)
  <2>1. \A some : M!LastBy(some, k) = Top(M!At(some, k))
    BY Zenon DEF M!LastBy, Top
  <2> QED
    BY <1>1, <2>1
<1>6. v <= Top(own) /\ Top(own) \in Nat
  BY <1>2, <1>4, TopOf
<1>7. v \in Nat /\ Top(rec) < v
  <2>1. rec = {} => Top(rec) = 0
    BY Zenon DEF Top
  <2>2. rec # {} => Top(rec) \in rec
    BY <1>2, TopOf
  <2>3. v \in Nat /\ base \in Nat
    BY <1>2, <1>4
  <2>4. \A u \in rec : u \in Nat /\ ~(v <= u)
    BY <1>2, <1>4
  <2> QED
    BY <2>1, <2>2, <2>3, <2>4
<1>8. Top(own) > base /\ Top(own) > Top(rec)
  <2>1. Top(rec) \in Nat
    BY <1>2, TopOf
  <2> QED
    BY <1>6, <1>7, <2>1
<1> QED
  BY <1>5, <1>8, Zenon DEF M!ChangedOnProd

(* A step tells of no edit of prod's own but at the next version.            *)
HistoryGrows ==
  \A k : OwnAt(k)' \subseteq OwnAt(k) \cup {prodVersion + 1} /\ OtherAt(k) \subseteq OtherAt(k)'

LEMMA RespectedStays ==
  ASSUME MigrationInv, HistoryGrows, NEW k, NEW base, NEW read \in Nat, read <= prodVersion,
         Respected(k, base, read)
  PROVE  Respected(k, base, read)'
<1>1. PICK b, r : b = base /\ r = read
  OBVIOUS
<1>2. prodVersion \in Nat /\ ~(prodVersion + 1 <= read)
  BY DEF MigrationInv, MigrationTyped
<1>3. \A v \in OwnAt(k)' : v > b /\ v <= r => \E u \in OtherAt(k)' : v <= u
  BY <1>1, <1>2 DEF HistoryGrows, Respected
<1> QED
  BY <1>1, <1>3 DEF Respected

(* Only a commit adds to what has been written.                              *)
LEMMA HistoryStays ==
  ASSUME drafts \in Seq(MigrationSet), Len(drafts') \in Nat, Len(drafts) <= Len(drafts'),
         \A j \in M!NumbersOfSets :
           /\ drafts'[j].from = drafts[j].from /\ drafts'[j].to = drafts[j].to
           /\ drafts'[j].status = "committed" <=> drafts[j].status = "committed"
           /\ drafts'[j].version = drafts[j].version,
         \A j \in (M!NumbersOfSets)' \ M!NumbersOfSets : drafts'[j].status # "committed"
  PROVE  HistoryGrows /\ \A k : OwnAt(k)' = OwnAt(k)
<1> SUFFICES ASSUME NEW k PROVE OwnAt(k)' = OwnAt(k) /\ OtherAt(k)' = OtherAt(k)
  BY DEF HistoryGrows
<1>1. M!NumbersOfSets \subseteq (M!NumbersOfSets)'
  BY DEF M!NumbersOfSets
<1>2. {j \in M!Own' : Wrote(j, k)'} = {j \in M!Own : Wrote(j, k)}
  BY <1>1 DEF M!Own, Wrote
<1>3. {j \in (M!NumbersOfSets)' \ M!Own' : Wrote(j, k)'} = {j \in M!NumbersOfSets \ M!Own : Wrote(j, k)}
  BY <1>1 DEF M!Own, Wrote
<1>4. \A j \in M!NumbersOfSets : drafts'[j].version = drafts[j].version
  OBVIOUS
<1>5. M!Own \subseteq M!NumbersOfSets
  BY DEF M!Own
<1> QED
  BY <1>2, <1>3, <1>4, <1>5 DEF OwnAt, OtherAt

(* A set that stands goes on standing, whatever becomes of it.               *)
LEMMA StandsOn ==
  ASSUME MigrationInv, HistoryGrows,
         \A n \in 1 .. (Len(master) - 1) : master'[n] = master[n],
         NEW i \in M!NumbersOfSets,
         UNCHANGED <<drafts[i].from, drafts[i].to, drafts[i].seen, drafts[i].n>>,
         UNCHANGED <<drafts[i].since, drafts[i].read, drafts[i].take>>
  PROVE  Stands(i)'
<1>1. Fits(i) /\ Stands(i) /\ drafts[i] \in MigrationSet
  BY SetAt
<1>2. PICK s : s = drafts[i]
  OBVIOUS
<1>3. ASSUME s.from # "own", NEW k \in DOMAIN s.to
      PROVE  /\ s.seen[k] # "dead"
             /\ \/ s.to[k] # s.seen[k]
                \/ s.from = "set" /\ Kind[k] = "timetable" /\ k \in s.take
             /\ s.from = "full" /\ k \notin s.take => Respected(k, s.since, s.read)'
             /\ s.from = "set" /\ k \notin s.take => s.to[k] = "dead" \/ s.seen[k] = master'[s.n][k]
  <2>1. /\ s.seen[k] # "dead"
        /\ \/ s.to[k] # s.seen[k]
           \/ s.from = "set" /\ Kind[k] = "timetable" /\ k \in s.take
        /\ s.from = "full" /\ k \notin s.take => Respected(k, s.since, s.read)
        /\ s.from = "set" /\ k \notin s.take => s.to[k] = "dead" \/ s.seen[k] = master[s.n][k]
    BY <1>1, <1>2, <1>3, Zenon DEF Stands
  <2>2. s.from = "set" => master'[s.n] = master[s.n]
    BY <1>1, <1>2 DEF Fits
  <2>3. Respected(k, s.since, s.read) => Respected(k, s.since, s.read)'
    <3>1. PICK base, read : base = s.since /\ read = s.read
      OBVIOUS
    <3>2. read \in Nat /\ read <= prodVersion
      BY <1>1, <1>2, <3>1 DEF Fits, MigrationSet
    <3>3. Respected(k, base, read) => Respected(k, base, read)'
      BY <3>2, RespectedStays
    <3> QED
      BY <3>1, <3>3
  <2> QED
    BY <2>1, <2>2, <2>3
<1>4. /\ drafts'[i].from = s.from /\ drafts'[i].to = s.to /\ drafts'[i].seen = s.seen /\ drafts'[i].n = s.n
      /\ drafts'[i].since = s.since /\ drafts'[i].read = s.read /\ drafts'[i].take = s.take
  BY <1>2
<1> QED
  BY <1>3, <1>4 DEF Stands, Respected

(* A read-in goes on keeping what it kept.                                   *)
LEMMA ReadsOn ==
  ASSUME MigrationInv, HistoryGrows, Len(master') \in Nat, Len(master) <= Len(master'),
         prodVersion' \in Nat, prodVersion <= prodVersion',
         M!NumbersOfSets \subseteq (M!NumbersOfSets)',
         \A j \in M!NumbersOfSets : drafts'[j].from = drafts[j].from,
         NEW a \in Admins, UNCHANGED job[a]
  PROVE  ReadIn(a)'
<1>1. ReadIn(a) /\ Len(master) \in Nat /\ prodVersion \in Nat
  BY DEF MigrationInv, MigrationTyped
<1>2. PICK q : q = job[a]
  OBVIOUS
<1>3. ASSUME q.at = "timetables"
      PROVE  \A k \in M!Timetables \ (q.keep \cup q.take) : Respected(k, q.since, q.read)'
  <2> TAKE k \in M!Timetables \ (q.keep \cup q.take)
  <2>1. PICK base, read : base = q.since /\ read = q.read
    OBVIOUS
  <2>2. Respected(k, base, read) /\ read \in Nat /\ read <= prodVersion
    BY <1>1, <1>2, <1>3, <2>1 DEF ReadIn
  <2>3. Respected(k, base, read)'
    BY <2>2, RespectedStays
  <2> QED
    BY <2>1, <2>3
<1>4. ASSUME q.at = "timetables"
      PROVE  /\ q.n \in 1 .. Len(master') /\ q.since \in Nat /\ q.take \subseteq Rows
             /\ q.read \in Nat /\ q.read <= prodVersion'
  BY <1>1, <1>2, <1>4 DEF ReadIn
<1>5. q.at = "record" => q.id \in (M!NumbersOfSets)' /\ drafts'[q.id].from = "full"
  BY <1>1, <1>2 DEF ReadIn
<1>6. job'[a] = q
  BY <1>2
<1> QED
  BY <1>3, <1>4, <1>5, <1>6 DEF ReadIn, M!Timetables, Respected

(* What a set is when it is made, on rows as they are.                       *)
IsNew(s, from, n, D, to, base, read, take, recorded) ==
  /\ s \in MigrationSet
  /\ s.status = "open" /\ s.from = from /\ s.n = n /\ s.to = to /\ s.since = base /\ s.read = read
  /\ s.base = [k \in D |-> wrote[k]] /\ s.seen = [k \in D |-> prod[k]]
  /\ s.take = take /\ s.recorded = recorded /\ s.version = 0

LEMMA NewSetIs ==
  ASSUME MigrationInv, NEW from \in {"own", "set", "full"}, NEW n \in Nat,
         NEW D \in SUBSET Rows, NEW to \in [D -> M!Contents],
         NEW base \in Nat, NEW read \in Nat, NEW take \in SUBSET Rows, NEW recorded \in BOOLEAN,
         NEW s, s = M!NewSet(from, n, to, base, read, take, recorded)
  PROVE  IsNew(s, from, n, D, to, base, read, take, recorded)
<1>1. wrote \in [Rows -> Nat] /\ prod \in [Rows -> M!Contents]
  BY DEF MigrationInv, MigrationTyped
<1>2. DOMAIN to = D
  OBVIOUS
<1>3. PICK on, saw : on = [k \in D |-> wrote[k]] /\ saw = [k \in D |-> prod[k]]
  OBVIOUS
<1>4. on \in [D -> Nat] /\ saw \in [D -> M!Contents]
  BY <1>1, <1>3
<1>5. /\ on \in UNION {[E -> Nat] : E \in SUBSET Rows}
      /\ saw \in UNION {[E -> M!Contents] : E \in SUBSET Rows}
      /\ to \in UNION {[E -> M!Contents] : E \in SUBSET Rows}
  BY <1>4
<1>6. s = [status |-> "open", from |-> from, n |-> n, to |-> to, since |-> base, read |-> read,
           base |-> on, seen |-> saw, take |-> take, recorded |-> recorded, version |-> 0]
  BY <1>2, <1>3, Zenon DEF M!NewSet
<1>7. /\ s \in MigrationSet
      /\ s.status = "open" /\ s.from = from /\ s.n = n /\ s.to = to /\ s.since = base /\ s.read = read
      /\ s.base = on /\ s.seen = saw /\ s.take = take /\ s.recorded = recorded /\ s.version = 0
  BY <1>5, <1>6 DEF MigrationSet
<1> QED
  BY <1>3, <1>7, Zenon DEF IsNew

(* A read-in goes on, is over, or is about to record the set it has drafted. *)
ReadsGoOn(from) ==
  /\ DOMAIN job' = Admins
  /\ \A a \in Admins : \/ job'[a] = job[a]
                       \/ job'[a].at = "idle"
                       \/ job'[a].at = "record" /\ job'[a].id = Len(drafts) + 1 /\ from = "full"

(* A set is made that stands: on rows as they are, but for a timetable's     *)
(* history, which may be older.                                              *)
MadeToStand(from, n, D, to, base, read, take) ==
  /\ from = "set" => n \in 1 .. (Len(master) - 1)
  /\ \A k \in D : k \in Steady => to[k] # "dead"
  /\ read <= prodVersion /\ (read = prodVersion \/ D \subseteq M!Timetables)
  /\ from # "own" => \A k \in D :
       /\ prod[k] # "dead"
       /\ to[k] # prod[k] \/ (from = "set" /\ Kind[k] = "timetable" /\ k \in take)
       /\ from = "full" /\ k \notin take => Respected(k, base, read)
       /\ from = "set" /\ k \notin take => to[k] = "dead" \/ prod[k] = master[n][k]

(* A new set that stands keeps everything, whoever makes it.                 *)
LEMMA DraftKeeps ==
  ASSUME MigrationInv, NEW from \in {"own", "set", "full"}, NEW n \in Nat,
         NEW D \in SUBSET Rows, NEW to \in [D -> M!Contents],
         NEW base \in Nat, NEW read \in Nat, NEW take \in SUBSET Rows, NEW recorded \in BOOLEAN,
         M!Draft(M!NewSet(from, n, to, base, read, take, recorded)),
         UNCHANGED <<master, prod, wrote, prodVersion>>, recorded => from # "own",
         MadeToStand(from, n, D, to, base, read, take), ReadsGoOn(from)
  PROVE  MigrationInv'
<1>0. PICK m, s : m = Len(drafts) + 1 /\ s = M!NewSet(from, n, to, base, read, take, recorded)
  OBVIOUS
<1>1. /\ s \in MigrationSet
      /\ s.status = "open" /\ s.from = from /\ s.n = n /\ s.to = to /\ s.since = base /\ s.read = read
      /\ s.base = [k \in D |-> wrote[k]] /\ s.seen = [k \in D |-> prod[k]]
      /\ s.take = take /\ s.recorded = recorded /\ s.version = 0
  <2>1. IsNew(s, from, n, D, to, base, read, take, recorded)
    BY <1>0, NewSetIs
  <2> QED
    BY <2>1 DEF IsNew
<1>2. drafts \in Seq(MigrationSet) /\ drafts' = Append(drafts, s)
  BY <1>0 DEF MigrationInv, MigrationTyped, M!Draft
<1>3. /\ drafts' \in Seq(MigrationSet) /\ Len(drafts) \in Nat /\ Len(drafts') = m /\ m = Len(drafts) + 1
      /\ drafts'[m] = s /\ \A j \in M!NumbersOfSets : drafts'[j] = drafts[j]
  BY <1>0, <1>1, <1>2, AppendProperties DEF M!NumbersOfSets
<1>4. (M!NumbersOfSets)' = M!NumbersOfSets \cup {m} /\ m \notin M!NumbersOfSets
  BY <1>3 DEF M!NumbersOfSets
<1>5. HistoryGrows /\ \A k : OwnAt(k)' = OwnAt(k)
  <2>1. Len(drafts') \in Nat /\ Len(drafts) <= Len(drafts')
    BY <1>3
  <2>2. \A j \in M!NumbersOfSets :
          /\ drafts'[j].from = drafts[j].from /\ drafts'[j].to = drafts[j].to
          /\ drafts'[j].status = "committed" <=> drafts[j].status = "committed"
          /\ drafts'[j].version = drafts[j].version
    BY <1>3
  <2>3. \A j \in (M!NumbersOfSets)' \ M!NumbersOfSets : drafts'[j].status # "committed"
    BY <1>1, <1>3, <1>4
  <2> QED
    BY <1>2, <2>1, <2>2, <2>3, HistoryStays
<1>6. prodVersion \in Nat /\ Len(master) \in Nat
  BY DEF MigrationInv, MigrationTyped
<1>7. MigrationTyped' /\ MasterMoves'
  BY <1>3 DEF MigrationInv, MigrationTyped, MasterMoves, Steady
<1>8. \A k \in Rows : wrote'[k] <= prodVersion' /\ \A v \in OwnAt(k)' : v <= wrote'[k]
  BY <1>5 DEF MigrationInv
<1>9. \A i \in M!NumbersOfSets : Fits(i)' /\ Stands(i)' /\ Sees(i)'
  <2> TAKE i \in M!NumbersOfSets
  <2>1. drafts'[i] = drafts[i] /\ Fits(i) /\ Sees(i)
    BY <1>3, SetAt
  <2>2. Fits(i)' /\ Sees(i)'
    BY <2>1 DEF Fits, Sees, M!Timetables, Steady
  <2>3. Stands(i)'
    BY <2>1, <1>5, StandsOn
  <2> QED
    BY <2>2, <2>3
<1>10. Fits(m)' /\ Sees(m)'
  <2>1. \A k \in D : wrote[k] \in Nat /\ wrote[k] <= prodVersion
    BY DEF MigrationInv, MigrationTyped
  <2>2. DOMAIN to = D /\ s.version <= prodVersion /\ s.read <= prodVersion
    BY <1>1, <1>6 DEF MadeToStand
  <2>3. \A k \in D : /\ s.base[k] <= prodVersion /\ (k \in Steady => s.to[k] # "dead")
                     /\ k \in M!Timetables \/ s.base[k] <= s.read
    BY <1>1, <2>1 DEF MadeToStand
  <2>4. DOMAIN s.base = D /\ DOMAIN s.seen = D /\ DOMAIN s.to = D /\ \A k \in D : s.seen[k] = prod[k]
    BY <1>1, <2>2
  <2>5. (s.from = "set" => s.n \in 1 .. (Len(master) - 1)) /\ (s.recorded => s.from # "own")
    BY <1>1 DEF MadeToStand
  <2> QED
    BY <1>3, <2>2, <2>3, <2>4, <2>5 DEF Fits, Sees, M!Timetables, Steady
<1>11. Stands(m)'
  <2>1. ASSUME NEW k \in D, from # "own"
        PROVE  /\ prod[k] # "dead"
               /\ to[k] # prod[k] \/ (from = "set" /\ Kind[k] = "timetable" /\ k \in take)
               /\ from = "full" /\ k \notin take => Respected(k, base, read)'
               /\ from = "set" /\ k \notin take => to[k] = "dead" \/ prod[k] = master[n][k]
    BY <1>5, <2>1, RespectedStays DEF MadeToStand
  <2>2. DOMAIN to = D /\ \A k \in D : s.seen[k] = prod[k]
    BY <1>1
  <2>3. /\ drafts'[m].from = from /\ drafts'[m].to = to /\ drafts'[m].seen = s.seen /\ drafts'[m].n = n
        /\ drafts'[m].since = base /\ drafts'[m].read = read /\ drafts'[m].take = take /\ master' = master
    BY <1>1, <1>3
  <2> QED
    BY <2>1, <2>2, <2>3 DEF Stands, Respected
<1>12. ASSUME NEW a \in Admins
       PROVE  ReadIn(a)'
  <2>0. \/ job'[a] = job[a] \/ job'[a].at = "idle"
        \/ job'[a].at = "record" /\ job'[a].id = m /\ from = "full"
    BY <1>0 DEF ReadsGoOn
  <2>1. CASE job'[a] = job[a]
    BY <1>3, <1>4, <1>5, <1>6, <2>1, ReadsOn
  <2>2. CASE job'[a].at = "idle"
    BY <2>2 DEF ReadIn
  <2>3. CASE job'[a].at = "record" /\ job'[a].id = m /\ from = "full"
    BY <1>1, <1>3, <1>4, <2>3 DEF ReadIn
  <2> QED
    BY <2>0, <2>1, <2>2, <2>3
<1>13. \A i \in (M!NumbersOfSets)' : Fits(i)' /\ Stands(i)' /\ Sees(i)'
  BY <1>4, <1>9, <1>10, <1>11
<1> QED
  BY <1>7, <1>8, <1>12, <1>13 DEF MigrationInv, ReadsGoOn

(* So does a step that writes no row and makes no set.                       *)
LEMMA SetsStay ==
  ASSUME MigrationInv, UNCHANGED <<prod, wrote, prodVersion>>,
         master' \in Seq([Rows -> M!Contents]), Len(master) <= Len(master'), MasterMoves',
         \A n \in 1 .. Len(master) : master'[n] = master[n],
         drafts' \in Seq(MigrationSet), Len(drafts') = Len(drafts),
         \A i \in M!NumbersOfSets :
           /\ UNCHANGED <<drafts[i].from, drafts[i].to, drafts[i].base, drafts[i].seen>>
           /\ UNCHANGED <<drafts[i].n, drafts[i].since, drafts[i].read>>
           /\ UNCHANGED <<drafts[i].take, drafts[i].version>>
           /\ drafts'[i].status = "committed" <=> drafts[i].status = "committed"
           /\ drafts'[i].status = "open" => drafts[i].status = "open"
           /\ drafts'[i].recorded => drafts[i].recorded \/ drafts[i].from # "own",
         DOMAIN job' = Admins,
         \A a \in Admins : job'[a] = job[a] \/ job'[a].at = "idle" \/ ReadIn(a)'
  PROVE  MigrationInv'
<1>1. /\ Len(drafts) \in Nat /\ Len(master) \in Nat /\ Len(master') \in Nat /\ Len(master) >= 1
      /\ prodVersion \in Nat
  BY LenProperties DEF MigrationInv, MigrationTyped
<1>2. (M!NumbersOfSets)' = M!NumbersOfSets
  BY DEF M!NumbersOfSets
<1>3. HistoryGrows /\ \A k : OwnAt(k)' = OwnAt(k)
  <2>1. drafts \in Seq(MigrationSet)
    BY DEF MigrationInv, MigrationTyped
  <2> QED
    BY <1>1, <1>2, <2>1, HistoryStays
<1>4. MigrationTyped' /\ \A k \in Rows : wrote'[k] <= prodVersion' /\ \A v \in OwnAt(k)' : v <= wrote'[k]
  BY <1>1, <1>3 DEF MigrationInv, MigrationTyped
<1>5. ASSUME NEW i \in M!NumbersOfSets
      PROVE  Fits(i)' /\ Stands(i)' /\ Sees(i)'
  <2>1. Fits(i) /\ Sees(i)
    BY SetAt
  <2>2. Fits(i)'
    BY <1>1, <2>1 DEF Fits, M!Timetables, Steady
  <2>3. Sees(i)'
    BY <2>1 DEF Sees
  <2>4. Stands(i)'
    <3>1. \A n \in 1 .. (Len(master) - 1) : master'[n] = master[n]
      BY <1>1
    <3>2. /\ UNCHANGED <<drafts[i].from, drafts[i].to, drafts[i].seen, drafts[i].n>>
          /\ UNCHANGED <<drafts[i].since, drafts[i].read, drafts[i].take>>
      OBVIOUS
    <3> QED
      BY <1>3, <3>1, <3>2, StandsOn, Zenon
  <2> QED
    BY <2>2, <2>3, <2>4
<1>6. ASSUME NEW a \in Admins
      PROVE  ReadIn(a)'
  <2>1. CASE job'[a] = job[a]
    BY <1>1, <1>2, <1>3, <2>1, ReadsOn
  <2>2. CASE job'[a].at = "idle"
    BY <2>2 DEF ReadIn
  <2> QED
    BY <2>1, <2>2
<1> QED
  BY <1>2, <1>4, <1>5, <1>6 DEF MigrationInv

LEMMA StoredIs ==
  ASSUME NEW c \in M!Contents
  PROVE  /\ M!Stored(c) \in M!Contents /\ M!Stored(M!Stored(c)) = M!Stored(c)
         /\ "dead" \notin Texts /\ "absent" \notin Texts
BY MigrationAssumption DEF M!Contents, M!Stored

LEMMA EditsMove ==
  ASSUME NEW k \in Rows, NEW c \in M!Contents, NEW to \in M!Edits(k, c)
  PROVE  to \in M!Contents /\ to # c /\ (k \in Steady => to # "dead")
BY MigrationAssumption DEF M!Contents, M!Stored, M!Edits, Steady

LEMMA WantedIs ==
  ASSUME MigrationInv, NEW n \in 1 .. Len(master), NEW k \in Rows
  PROVE  /\ master[n][k] \in M!Contents /\ M!Wanted(n, k) \in M!Contents
         /\ M!Stored(M!Wanted(n, k)) = M!Wanted(n, k) \/ Kind[k] # "stage"
         /\ k \in Steady => M!Wanted(n, k) # "dead"
<1>1. master[n] \in [Rows -> M!Contents]
  BY ElementOfSeq DEF MigrationInv, MigrationTyped
<1>2. k \in Steady => master[n][k] # "dead" /\ Kind[k] # "stage"
  BY DEF MigrationInv, MasterMoves, Steady
<1> QED
  BY <1>1, <1>2, StoredIs DEF M!Wanted

LEMMA WritesAre ==
  ASSUME MigrationInv, NEW n \in 1 .. Len(master), NEW D \in SUBSET Rows
  PROVE  /\ M!Writes(n, D) \in [D -> M!Contents]
         /\ \A k \in D : M!Writes(n, D)[k] = M!Wanted(n, k)
<1>1. \A k \in D : /\ M!Wanted(n, k) \in M!Contents
                   /\ M!Stored(M!Wanted(n, k)) = M!Wanted(n, k) \/ Kind[k] # "stage"
  BY WantedIs
<1> QED
  BY <1>1 DEF M!Writes

LEMMA MasterCommitsKeeps ==
  ASSUME MigrationInv, NEW k \in Rows, NEW c \in M!Contents, M!MasterCommits(k, c)
  PROVE  MigrationInv'
<1> DEFINE before == master[Len(master)]
           after  == [before EXCEPT ![k] = c]
<1>1. master \in Seq([Rows -> M!Contents]) /\ Len(master) \in Nat /\ Len(master) >= 1
  BY LenProperties DEF MigrationInv, MigrationTyped
<1>2. before \in [Rows -> M!Contents] /\ after \in [Rows -> M!Contents]
  BY <1>1, ElementOfSeq
<1>3. c # before[k] /\ (k \in Steady => c # "dead")
  BY <1>2, EditsMove DEF M!MasterCommits
<1>4. /\ master' \in Seq([Rows -> M!Contents]) /\ Len(master') = Len(master) + 1
      /\ master'[Len(master) + 1] = after
      /\ \A n \in 1 .. Len(master) : master'[n] = master[n]
  BY <1>1, <1>2, AppendProperties DEF M!MasterCommits
<1>5. UNCHANGED <<prod, wrote, prodVersion, drafts, job>>
  BY DEF M!MasterCommits
<1>6. MasterMoves'
  <2>1. after[k] = c /\ \A o \in Rows \ {k} : after[o] = before[o]
    BY <1>2
  <2>2. ASSUME NEW n \in 1 .. Len(master)
        PROVE  \E r \in Rows : master'[n + 1][r] # master'[n][r]
    <3>1. CASE n = Len(master)
      BY <1>3, <1>4, <2>1, <3>1
    <3>2. CASE n # Len(master)
      <4>1. n \in 1 .. (Len(master) - 1) /\ n + 1 \in 1 .. Len(master)
        BY <1>1, <2>2, <3>2
      <4> QED
        BY <1>4, <4>1 DEF MigrationInv, MasterMoves
    <3> QED
      BY <3>1, <3>2
  <2>3. ASSUME NEW o \in Steady
        PROVE  prod'[o] # "dead" /\ \A n \in 1 .. Len(master') : master'[n][o] # "dead"
    <3>1. o \in Rows /\ prod[o] # "dead" /\ \A n \in 1 .. Len(master) : master[n][o] # "dead"
      BY DEF MigrationInv, MasterMoves, Steady
    <3>2. after[o] # "dead"
      BY <1>1, <1>3, <2>1, <3>1
    <3>3. \A n \in 1 .. Len(master') : n \in 1 .. Len(master) \/ n = Len(master) + 1
      BY <1>1, <1>4
    <3> QED
      BY <1>4, <1>5, <3>1, <3>2, <3>3
  <2>4. \A n \in 1 .. (Len(master') - 1) : n \in 1 .. Len(master)
    BY <1>1, <1>4
  <2> QED
    BY <2>2, <2>3, <2>4 DEF MasterMoves, Steady
<1> HIDE DEF after
<1>7. drafts' \in Seq(MigrationSet) /\ DOMAIN job' = Admins
  BY <1>5 DEF MigrationInv, MigrationTyped
<1> QED
  BY <1>1, <1>4, <1>5, <1>6, <1>7, SetsStay

LEMMA OwnDraftKeeps ==
  ASSUME MigrationInv, NEW k \in Rows, NEW c \in M!Contents, M!OwnDraft(k, c)
  PROVE  MigrationInv'
<1>1. prod[k] \in M!Contents /\ prodVersion \in Nat /\ DOMAIN job = Admins
  BY DEF MigrationInv, MigrationTyped
<1>2. k \in Steady => c # "dead"
  BY <1>1, EditsMove DEF M!OwnDraft
<1>3. PICK to, v : to = [r \in {k} |-> c] /\ v = prodVersion
  OBVIOUS
<1>4. /\ to \in [{k} -> M!Contents] /\ {k} \in SUBSET Rows /\ v \in Nat /\ v <= prodVersion
      /\ v = prodVersion \/ {k} \subseteq M!Timetables
  BY <1>1, <1>3
<1>5. /\ M!Draft(M!NewSet("own", 0, to, 0, v, {}, FALSE))
      /\ UNCHANGED <<master, prod, wrote, prodVersion, job>>
  BY <1>3, Zenon DEF M!OwnDraft
<1>6. \A r \in {k} : r \in Steady => to[r] # "dead"
  BY <1>2, <1>3
<1>7. PICK from, none, no, nobody : from = "own" /\ none = 0 /\ no = FALSE /\ nobody = {}
  OBVIOUS
<1>8. M!Draft(M!NewSet(from, none, to, none, v, nobody, no))
  BY <1>5, <1>7, Zenon
<1>9. MadeToStand(from, none, {k}, to, none, v, nobody)
  BY <1>4, <1>6, <1>7 DEF MadeToStand
<1>10. /\ from \in {"own", "set", "full"} /\ none \in Nat /\ nobody \in SUBSET Rows /\ no \in BOOLEAN
       /\ no => from # "own"
  BY <1>7
<1>11. UNCHANGED <<master, prod, wrote, prodVersion>> /\ ReadsGoOn(from)
  BY <1>1, <1>5 DEF ReadsGoOn
<1> QED
  BY <1>4, <1>8, <1>9, <1>10, <1>11, DraftKeeps

LEMMA DiscardKeeps ==
  ASSUME MigrationInv, NEW i \in M!NumbersOfSets, M!Discard(i)
  PROVE  MigrationInv'
<1>1. /\ drafts[i] \in MigrationSet /\ drafts[i].status = "open" /\ drafts \in Seq(MigrationSet)
      /\ \A j \in M!NumbersOfSets : drafts[j] \in MigrationSet
  BY SetAt DEF M!Discard, M!Open, MigrationInv, MigrationTyped
<1>2. PICK s : s = [drafts[i] EXCEPT !.status = "discarded"]
  OBVIOUS
<1>3. /\ s \in MigrationSet /\ s.status = "discarded" /\ s.from = drafts[i].from /\ s.to = drafts[i].to
      /\ s.base = drafts[i].base /\ s.seen = drafts[i].seen /\ s.n = drafts[i].n
      /\ s.since = drafts[i].since /\ s.read = drafts[i].read
      /\ s.take = drafts[i].take /\ s.version = drafts[i].version /\ s.recorded = drafts[i].recorded
  BY <1>1, <1>2 DEF MigrationSet
<1>4. drafts' = [drafts EXCEPT ![i] = s]
  BY <1>1, <1>2 DEF M!Discard
<1>5. /\ drafts' \in Seq(MigrationSet) /\ Len(drafts') = Len(drafts)
      /\ \A j \in M!NumbersOfSets : drafts'[j] = IF j = i THEN s ELSE drafts[j]
  BY <1>1, <1>3, <1>4, ExceptSeq DEF M!NumbersOfSets
<1>6. UNCHANGED <<master, prod, wrote, prodVersion, job>>
  BY DEF M!Discard
<1>7. /\ master' \in Seq([Rows -> M!Contents]) /\ DOMAIN job' = Admins /\ MasterMoves'
      /\ Len(master) \in Nat
  BY <1>6, LenProperties DEF MigrationInv, MigrationTyped, MasterMoves, Steady
<1>8. \A j \in M!NumbersOfSets :
        /\ UNCHANGED <<drafts[j].from, drafts[j].to, drafts[j].base, drafts[j].seen>>
        /\ UNCHANGED <<drafts[j].n, drafts[j].since, drafts[j].read>>
        /\ UNCHANGED <<drafts[j].take, drafts[j].version>>
        /\ drafts'[j].status = "committed" <=> drafts[j].status = "committed"
        /\ drafts'[j].status = "open" => drafts[j].status = "open"
        /\ drafts'[j].recorded => drafts[j].recorded \/ drafts[j].from # "own"
  BY <1>1, <1>3, <1>5
<1> QED
  BY <1>5, <1>6, <1>7, <1>8, SetsStay

LEMMA ReadDraftKeeps ==
  ASSUME MigrationInv, NEW n \in 1 .. MaxVersions, NEW take, M!ReadDraft(n, take)
  PROVE  MigrationInv'
<1>1. PICK k : k = M!Changed(n)
  OBVIOUS
<1>2. master \in Seq([Rows -> M!Contents]) /\ Len(master) \in Nat /\ n < Len(master) /\ prod \in [Rows -> M!Contents]
  BY LenProperties DEF M!ReadDraft, MigrationInv, MigrationTyped
<1>3. n \in 1 .. (Len(master) - 1) /\ n \in 1 .. Len(master) /\ n + 1 \in 1 .. Len(master)
  BY <1>2
<1>4. k \in Rows /\ master[n + 1][k] # master[n][k]
  BY <1>1, <1>3 DEF M!Changed, MigrationInv, MasterMoves
<1>5. master[n] \in [Rows -> M!Contents] /\ master[n + 1] \in [Rows -> M!Contents]
  BY <1>2, <1>3, ElementOfSeq
<1>6. PICK to, keep : to = [r \in {k} |-> master[n + 1][k]]
                      /\ keep = IF prod[k] = master[n][k] THEN {} ELSE {k}
  OBVIOUS
<1>7. to \in [{k} -> M!Contents] /\ to[k] = master[n + 1][k] /\ {k} \in SUBSET Rows /\ keep \in SUBSET Rows
  BY <1>4, <1>5, <1>6
<1>8. /\ M!GoesIn(Kind[k], master[n][k], master[n + 1][k], prod[k], k \in take)
      /\ M!Draft(M!NewSet("set", n, to, 0, prodVersion, keep, TRUE))
      /\ UNCHANGED <<master, prod, wrote, prodVersion, job>>
  BY <1>1, <1>6, Zenon DEF M!ReadDraft
<1>9. k \in Steady => prod[k] # "dead" /\ to[k] # "dead"
  BY <1>3, <1>7 DEF MigrationInv, MasterMoves
<1>10. /\ prod[k] # "dead" /\ (k \notin keep => prod[k] = master[n][k])
       /\ to[k] # prod[k] \/ (Kind[k] = "timetable" /\ k \in keep)
  BY <1>4, <1>5, <1>6, <1>7, <1>8, <1>9, MigrationAssumption DEF M!GoesIn, M!Contents, Steady
<1>11. \A from : ReadsGoOn(from)
  BY <1>8 DEF MigrationInv, ReadsGoOn
<1>12. n \in Nat /\ \A r \in {k} : r \in Steady => to[r] # "dead"
  BY <1>3, <1>9
<1>13. PICK from, none, yes, v : from = "set" /\ none = 0 /\ yes = TRUE /\ v = prodVersion
  OBVIOUS
<1>14. M!Draft(M!NewSet(from, n, to, none, v, keep, yes))
  BY <1>8, <1>13, Zenon
<1>15. /\ from \in {"own", "set", "full"} /\ none \in Nat /\ yes \in BOOLEAN
       /\ yes => from # "own"
       /\ v \in Nat /\ v <= prodVersion
       /\ v = prodVersion \/ {k} \subseteq M!Timetables
  BY <1>13 DEF MigrationInv, MigrationTyped
<1>16. \A r \in {k} :
         /\ prod[r] # "dead"
         /\ to[r] # prod[r] \/ (from = "set" /\ Kind[r] = "timetable" /\ r \in keep)
         /\ from = "full" /\ r \notin keep => Respected(r, none, v)
         /\ from = "set" /\ r \notin keep => to[r] = "dead" \/ prod[r] = master[n][r]
  BY <1>10, <1>13
<1>17. UNCHANGED <<master, prod, wrote, prodVersion>>
  BY <1>8
<1>18. MadeToStand(from, n, {k}, to, none, v, keep)
  BY <1>3, <1>12, <1>15, <1>16 DEF MadeToStand
<1> QED
  BY <1>7, <1>11, <1>12, <1>14, <1>15, <1>17, <1>18, DraftKeeps

(* The lists and stages a read-in plans stand, and so does what it keeps for *)
(* when the lock is gone.                                                    *)
LEMMA ReadFeedKeeps ==
  ASSUME MigrationInv, NEW a \in Admins, NEW n \in 1 .. MaxVersions, NEW base \in 1 .. (MaxSets + 1),
         NEW take \in Takes, M!ReadFeed(a, n, base, take)
  PROVE  MigrationInv'
<1>1. PICK left \in SUBSET {k \in Rows \ M!Timetables : M!Planned(n, k) /\ ~M!Kept(k, base, take)} :
        IF left = {}
        THEN /\ job' = [job EXCEPT ![a] = [at |-> "timetables", n |-> n, since |-> base, read |-> prodVersion,
                          take |-> M!Taken(base, take) \cap M!Timetables,
                          keep |-> {k \in M!Timetables : M!Kept(k, base, take)}]]
             /\ UNCHANGED drafts
        ELSE LET first == {k \in left : \A o \in left : M!StepOf(n, k) <= M!StepOf(n, o)}
             IN  /\ M!Draft(M!NewSet("full", n, M!Writes(n, first), base, prodVersion,
                                     M!Taken(base, take) \cap first, TRUE))
                 /\ UNCHANGED job
  BY Zenon DEF M!ReadFeed
<1>2. /\ n \in 1 .. Len(master) /\ base \in Nat /\ n \in Nat
      /\ UNCHANGED <<master, prod, wrote, prodVersion>>
  BY DEF M!ReadFeed
<1>3. /\ DOMAIN job = Admins /\ prodVersion \in Nat /\ prod \in [Rows -> M!Contents]
      /\ drafts \in Seq(MigrationSet) /\ master \in Seq([Rows -> M!Contents]) /\ Len(master) \in Nat
      /\ Len(drafts) \in Nat
  BY LenProperties DEF MigrationInv, MigrationTyped
<1>4. PICK v : v = prodVersion
  OBVIOUS
<1>5. \A k : ~M!ChangedOnProd(k, base) => Respected(k, base, v)
  BY <1>2, RespectedIfUnchanged
<1>6. CASE left = {}
  <2>1. PICK q : q = [at |-> "timetables", n |-> n, since |-> base, read |-> v,
                      take |-> M!Taken(base, take) \cap M!Timetables,
                      keep |-> {k \in M!Timetables : M!Kept(k, base, take)}]
    OBVIOUS
  <2>2. job' = [job EXCEPT ![a] = q] /\ UNCHANGED drafts
    BY <1>1, <1>4, <1>6, <2>1
  <2>3. /\ DOMAIN job' = Admins /\ job'[a] = q
        /\ \A o \in Admins : o # a => job'[o] = job[o]
    BY <1>3, <2>2
  <2>4. HistoryGrows
    <3>1. (M!NumbersOfSets)' = M!NumbersOfSets
      BY <2>2 DEF M!NumbersOfSets
    <3> QED
      BY <1>3, <2>2, <3>1, HistoryStays
  <2>5. \A k \in M!Timetables \ (q.keep \cup q.take) : Respected(k, base, v)'
    <3> TAKE k \in M!Timetables \ (q.keep \cup q.take)
    <3>1. Respected(k, base, v)
      BY <1>5, <2>1 DEF M!Kept, M!Taken
    <3>2. v \in Nat /\ v <= prodVersion
      BY <1>3, <1>4
    <3> QED
      BY <2>4, <3>1, <3>2, RespectedStays
  <2>6. q.at = "timetables" /\ q.n = n /\ q.since = base /\ q.read = v /\ q.take \subseteq Rows
    BY <2>1 DEF M!Timetables
  <2>7. v \in Nat /\ v <= prodVersion' /\ Len(master') = Len(master)
    BY <1>2, <1>3, <1>4
  <2>8. ReadIn(a)'
    BY <1>2, <2>3, <2>5, <2>6, <2>7 DEF ReadIn, M!Timetables, Respected
  <2>9. MasterMoves'
    BY <1>2, <1>3, <2>2 DEF MigrationInv, MasterMoves, Steady
  <2> QED
    BY <1>2, <1>3, <2>2, <2>3, <2>8, <2>9, SetsStay
<1>7. CASE left # {}
  <2>1. PICK first : first = {k \in left : \A o \in left : M!StepOf(n, k) <= M!StepOf(n, o)}
    OBVIOUS
  <2>2. PICK to, taken : to = M!Writes(n, first) /\ taken = M!Taken(base, take) \cap first
    OBVIOUS
  <2>3. M!Draft(M!NewSet("full", n, to, base, v, taken, TRUE)) /\ UNCHANGED job
    BY <1>1, <1>4, <1>7, <2>1, <2>2, Zenon
  <2>4. /\ first \in SUBSET Rows /\ taken \in SUBSET Rows
        /\ \A k \in first : M!Planned(n, k) /\ ~M!Kept(k, base, take)
    BY <2>1, <2>2
  <2>5. to \in [first -> M!Contents] /\ \A k \in first : to[k] = M!Wanted(n, k)
    BY <1>2, <2>2, <2>4, WritesAre
  <2>6. \A k \in first : /\ to[k] # prod[k] /\ prod[k] # "dead"
                         /\ k \notin taken => Respected(k, base, v)
    <3> TAKE k \in first
    <3>1. to[k] # prod[k] /\ prod[k] # "dead"
      BY <1>3, <2>4, <2>5, MigrationAssumption DEF M!Planned
    <3>2. k \notin taken => Respected(k, base, v)
      BY <1>5, <2>2, <2>4 DEF M!Kept, M!Taken
    <3> QED
      BY <3>1, <3>2
  <2>7. \A k \in first : k \in Steady => to[k] # "dead"
    BY <1>2, <2>4, <2>5, WantedIs
  <2>8. PICK from, yes : from = "full" /\ yes = TRUE
    OBVIOUS
  <2>9. v \in Nat /\ v <= prodVersion /\ (v = prodVersion \/ first \subseteq M!Timetables)
    BY <1>3, <1>4
  <2>10. ReadsGoOn(from)
    BY <1>3, <2>3 DEF ReadsGoOn
  <2>11. MadeToStand(from, n, first, to, base, v, taken)
    BY <2>6, <2>7, <2>8, <2>9 DEF MadeToStand
  <2>12. M!Draft(M!NewSet(from, n, to, base, v, taken, yes))
    BY <2>3, <2>8, Zenon
  <2>13. from \in {"own", "set", "full"} /\ yes \in BOOLEAN /\ (yes => from # "own")
    BY <2>8
  <2> QED
    BY <1>2, <2>4, <2>5, <2>9, <2>10, <2>11, <2>12, <2>13, DraftKeeps
<1> QED
  BY <1>6, <1>7

LEMMA DraftTimetablesKeeps ==
  ASSUME MigrationInv, NEW a \in Admins, M!DraftTimetables(a)
  PROVE  MigrationInv'
<1>1. /\ job[a].at = "timetables" /\ UNCHANGED <<master, prod, wrote, prodVersion>>
      /\ DOMAIN job = Admins /\ prod \in [Rows -> M!Contents]
      /\ drafts \in Seq(MigrationSet) /\ master \in Seq([Rows -> M!Contents]) /\ Len(master) \in Nat
  BY LenProperties DEF M!DraftTimetables, MigrationInv, MigrationTyped
<1>2. PICK n, base, read, take : /\ n = job[a].n /\ base = job[a].since
                                 /\ read = job[a].read /\ take = job[a].take
  OBVIOUS
<1>3. /\ n \in 1 .. Len(master) /\ n \in Nat /\ base \in Nat /\ take \in SUBSET Rows
      /\ read \in Nat /\ read <= prodVersion
      /\ \A k \in M!Timetables \ (job[a].keep \cup take) : Respected(k, base, read)
  BY <1>1, <1>2 DEF MigrationInv, ReadIn
<1>4. PICK differ : differ = {k \in M!Timetables \ job[a].keep : M!Wanted(n, k) # prod[k]}
  OBVIOUS
<1>5. CASE differ = {}
  <2>1. job' = [job EXCEPT ![a] = M!Idle] /\ UNCHANGED drafts
    BY <1>2, <1>4, <1>5, Zenon DEF M!DraftTimetables
  <2>2. DOMAIN job' = Admins /\ job'[a].at = "idle" /\ \A o \in Admins : o # a => job'[o] = job[o]
    BY <1>1, <2>1 DEF M!Idle
  <2>3. MasterMoves'
    BY <1>1 DEF MigrationInv, MasterMoves, Steady
  <2> QED
    BY <1>1, <2>1, <2>2, <2>3, SetsStay
<1>6. CASE differ # {}
  <2>1. PICK to : to = M!Writes(n, differ)
    OBVIOUS
  <2>2. /\ M!Draft(M!NewSet("full", n, to, base, read, take, FALSE))
        /\ job' = [job EXCEPT ![a] = [at |-> "record", id |-> Len(drafts) + 1]]
    BY <1>2, <1>4, <1>6, <2>1, Zenon DEF M!DraftTimetables
  <2>3. DOMAIN job' = Admins /\ \A o \in Admins : o # a => job'[o] = job[o]
    BY <1>1, <2>2
  <2>4. job'[a].at = "record" /\ job'[a].id = Len(drafts) + 1
    BY <1>1, <2>2
  <2>5. /\ differ \in SUBSET Rows /\ differ \subseteq M!Timetables /\ differ \subseteq Steady
        /\ \A k \in differ : k \notin job[a].keep
    BY <1>4 DEF M!Timetables, Steady
  <2>6. to \in [differ -> M!Contents] /\ \A k \in differ : to[k] = M!Wanted(n, k)
    BY <1>3, <2>1, <2>5, WritesAre
  <2>7. \A k \in differ : to[k] # "dead" /\ to[k] # prod[k] /\ prod[k] # "dead"
    <3> TAKE k \in differ
    <3>1. to[k] # prod[k] /\ to[k] # "dead"
      BY <1>3, <1>4, <2>5, <2>6, WantedIs
    <3>2. prod[k] # "dead"
      BY <2>5 DEF MigrationInv, MasterMoves
    <3> QED
      BY <3>1, <3>2
  <2>8. \A k \in differ : k \notin take => Respected(k, base, read)
    BY <1>3, <2>5
  <2>9. PICK from, no : from = "full" /\ no = FALSE
    OBVIOUS
  <2>10. /\ M!Draft(M!NewSet(from, n, to, base, read, take, no))
         /\ from \in {"own", "set", "full"} /\ no \in BOOLEAN
         /\ no => from # "own"
    BY <2>2, <2>9, Zenon
  <2>11. \A k \in differ :
           /\ prod[k] # "dead"
           /\ to[k] # prod[k] \/ (from = "set" /\ Kind[k] = "timetable" /\ k \in take)
           /\ from = "full" /\ k \notin take => Respected(k, base, read)
           /\ from = "set" /\ k \notin take => to[k] = "dead" \/ prod[k] = master[n][k]
    BY <2>7, <2>8, <2>9
  <2>12. \A k \in differ : k \in Steady => to[k] # "dead"
    BY <2>7
  <2>13. ReadsGoOn(from)
    BY <2>3, <2>4, <2>9 DEF ReadsGoOn
  <2>14. /\ differ \in SUBSET Rows /\ to \in [differ -> M!Contents]
         /\ read = prodVersion \/ differ \subseteq M!Timetables
    BY <2>5, <2>6
  <2>15. from = "set" => n \in 1 .. (Len(master) - 1)
    BY <2>9
  <2>16. /\ UNCHANGED <<master, prod, wrote, prodVersion>> /\ n \in Nat /\ base \in Nat
         /\ take \in SUBSET Rows /\ read \in Nat /\ read <= prodVersion
    BY <1>1, <1>3
  <2>17. MadeToStand(from, n, differ, to, base, read, take)
    BY <2>11, <2>12, <2>14, <2>15, <2>16 DEF MadeToStand
  <2> QED
    BY <2>10, <2>13, <2>14, <2>16, <2>17, DraftKeeps
<1> QED
  BY <1>5, <1>6

LEMMA RecordKeeps ==
  ASSUME MigrationInv, NEW a \in Admins, M!Record(a)
  PROVE  MigrationInv'
<1>1. /\ job[a].at = "record" /\ UNCHANGED <<master, prod, wrote, prodVersion>>
      /\ DOMAIN job = Admins /\ drafts \in Seq(MigrationSet)
      /\ master \in Seq([Rows -> M!Contents]) /\ Len(master) \in Nat
  BY LenProperties DEF M!Record, MigrationInv, MigrationTyped
<1>2. PICK i : i = job[a].id
  OBVIOUS
<1>3. i \in M!NumbersOfSets /\ drafts[i].from = "full"
  BY <1>1, <1>2 DEF MigrationInv, ReadIn
<1>4. PICK s : s = [drafts[i] EXCEPT !.recorded = TRUE]
  OBVIOUS
<1>5. drafts[i] \in MigrationSet /\ \A j \in M!NumbersOfSets : drafts[j] \in MigrationSet
  BY <1>3, SetAt
<1>6. /\ s \in MigrationSet /\ s.status = drafts[i].status /\ s.from = drafts[i].from /\ s.to = drafts[i].to
      /\ s.base = drafts[i].base /\ s.seen = drafts[i].seen /\ s.n = drafts[i].n
      /\ s.since = drafts[i].since /\ s.read = drafts[i].read
      /\ s.take = drafts[i].take /\ s.version = drafts[i].version
  BY <1>4, <1>5 DEF MigrationSet
<1>7. drafts' = [drafts EXCEPT ![i] = s]
  BY <1>2, <1>4 DEF M!Record
<1>8. /\ drafts' \in Seq(MigrationSet) /\ Len(drafts') = Len(drafts)
      /\ \A j \in M!NumbersOfSets : drafts'[j] = IF j = i THEN s ELSE drafts[j]
  BY <1>1, <1>3, <1>6, <1>7, ExceptSeq DEF M!NumbersOfSets
<1>9. \A j \in M!NumbersOfSets :
        /\ UNCHANGED <<drafts[j].from, drafts[j].to, drafts[j].base, drafts[j].seen>>
        /\ UNCHANGED <<drafts[j].n, drafts[j].since, drafts[j].read>>
        /\ UNCHANGED <<drafts[j].take, drafts[j].version>>
        /\ drafts'[j].status = "committed" <=> drafts[j].status = "committed"
        /\ drafts'[j].status = "open" => drafts[j].status = "open"
        /\ drafts'[j].recorded => drafts[j].recorded \/ drafts[j].from # "own"
  BY <1>3, <1>6, <1>8
<1>10. DOMAIN job' = Admins /\ job'[a].at = "idle" /\ \A o \in Admins : o # a => job'[o] = job[o]
  BY <1>1 DEF M!Idle, M!Record
<1>11. MasterMoves'
  BY <1>1 DEF MigrationInv, MasterMoves, Steady
<1> QED
  BY <1>1, <1>8, <1>9, <1>10, <1>11, SetsStay

LEMMA DiesKeeps ==
  ASSUME MigrationInv, NEW a \in Admins, M!Dies(a)
  PROVE  MigrationInv'
<1>1. /\ UNCHANGED <<master, prod, wrote, prodVersion, drafts>>
      /\ DOMAIN job = Admins /\ drafts \in Seq(MigrationSet)
      /\ master \in Seq([Rows -> M!Contents]) /\ Len(master) \in Nat
  BY LenProperties DEF M!Dies, MigrationInv, MigrationTyped
<1>2. DOMAIN job' = Admins /\ job'[a].at = "idle" /\ \A o \in Admins : o # a => job'[o] = job[o]
  BY <1>1 DEF M!Idle, M!Dies
<1>3. MasterMoves'
  BY <1>1 DEF MigrationInv, MasterMoves, Steady
<1> QED
  BY <1>1, <1>2, <1>3, SetsStay

LEMMA CommitWrites ==
  ASSUME MigrationInv, NEW i \in M!NumbersOfSets, M!Commit(i)
  PROVE  /\ drafts[i].status = "open" /\ ~M!Conflicts(drafts[i])
         /\ UNCHANGED <<master, job>> /\ prodVersion' = prodVersion + 1 /\ prodVersion \in Nat
         /\ drafts' \in Seq(MigrationSet) /\ Len(drafts') = Len(drafts)
         /\ drafts'[i].status = "committed" /\ drafts'[i].version = prodVersion + 1
         /\ UNCHANGED <<drafts[i].from, drafts[i].to, drafts[i].base, drafts[i].seen, drafts[i].n>>
         /\ UNCHANGED <<drafts[i].since, drafts[i].read, drafts[i].take, drafts[i].recorded>>
         /\ \A j \in M!NumbersOfSets : j # i => drafts'[j] = drafts[j]
         /\ \A k \in Rows : IF k \in DOMAIN drafts[i].to
                            THEN prod'[k] = drafts[i].to[k] /\ wrote'[k] = prodVersion + 1
                            ELSE prod'[k] = prod[k] /\ wrote'[k] = wrote[k]
         /\ prod' \in [Rows -> M!Contents] /\ wrote' \in [Rows -> Nat]
<1>1. /\ drafts[i] \in MigrationSet /\ drafts[i].status = "open" /\ drafts \in Seq(MigrationSet)
      /\ DOMAIN drafts[i].to \subseteq Rows
      /\ \A k \in DOMAIN drafts[i].to : drafts[i].to[k] \in M!Contents
      /\ prodVersion \in Nat /\ prod \in [Rows -> M!Contents] /\ wrote \in [Rows -> Nat]
  BY SetAt DEF M!Commit, M!Open, MigrationInv, MigrationTyped
<1>2. PICK s : s = [drafts[i] EXCEPT !.status = "committed", !.version = prodVersion + 1]
  OBVIOUS
<1>3. PICK v, t : v = prodVersion + 1 /\ t = [drafts[i] EXCEPT !.status = "committed"]
  OBVIOUS
<1>4. v \in Nat
  BY <1>1, <1>3
<1>5. drafts[i] \in MigrationSet /\ t = [drafts[i] EXCEPT !.status = "committed"]
  BY <1>1, <1>3
<1>6. /\ t \in MigrationSet /\ t.status = "committed"
      /\ t.from = drafts[i].from /\ t.to = drafts[i].to /\ t.base = drafts[i].base
      /\ t.n = drafts[i].n /\ t.recorded = drafts[i].recorded /\ t.seen = drafts[i].seen
      /\ t.since = drafts[i].since /\ t.read = drafts[i].read /\ t.take = drafts[i].take
  BY <1>5 DEF MigrationSet
<1>7. s = [t EXCEPT !.version = v]
  BY <1>2, <1>3
<1>8. /\ s \in MigrationSet /\ s.status = "committed" /\ s.version = prodVersion + 1
      /\ s.from = drafts[i].from /\ s.to = drafts[i].to /\ s.base = drafts[i].base
      /\ s.n = drafts[i].n /\ s.recorded = drafts[i].recorded /\ s.seen = drafts[i].seen
      /\ s.since = drafts[i].since /\ s.read = drafts[i].read /\ s.take = drafts[i].take
  <2>1. /\ s \in MigrationSet /\ s.version = v /\ s.status = t.status
        /\ s.from = t.from /\ s.to = t.to /\ s.base = t.base
        /\ s.n = t.n /\ s.recorded = t.recorded /\ s.seen = t.seen
        /\ s.since = t.since /\ s.read = t.read /\ s.take = t.take
    BY <1>6, <1>7, <1>4 DEF MigrationSet
  <2> QED
    BY <1>3, <1>6, <2>1
<1>9. drafts' = [drafts EXCEPT ![i] = s]
  BY <1>1, <1>2 DEF M!Commit
<1>10. /\ drafts' \in Seq(MigrationSet) /\ Len(drafts') = Len(drafts)
      /\ \A j \in M!NumbersOfSets : drafts'[j] = IF j = i THEN s ELSE drafts[j]
  BY <1>1, <1>8, <1>9, ExceptSeq DEF M!NumbersOfSets
<1>11. /\ ~M!Conflicts(drafts[i]) /\ UNCHANGED <<master, job>> /\ prodVersion' = prodVersion + 1
      /\ prod' = [k \in Rows |-> IF k \in DOMAIN drafts[i].to THEN drafts[i].to[k] ELSE prod[k]]
      /\ wrote' = [k \in Rows |-> IF k \in DOMAIN drafts[i].to THEN prodVersion + 1 ELSE wrote[k]]
  BY DEF M!Commit
<1>12. /\ \A k \in Rows : IF k \in DOMAIN drafts[i].to
                         THEN prod'[k] = drafts[i].to[k] /\ wrote'[k] = prodVersion + 1
                         ELSE prod'[k] = prod[k] /\ wrote'[k] = wrote[k]
      /\ prod' \in [Rows -> M!Contents] /\ wrote' \in [Rows -> Nat]
  BY <1>1, <1>11
<1> QED
  BY <1>1, <1>8, <1>10, <1>11, <1>12

LEMMA CommitTold ==
  ASSUME MigrationInv, NEW i \in M!NumbersOfSets, M!Commit(i)
  PROVE  /\ HistoryGrows
         /\ \A k : k \notin DOMAIN drafts[i].to => OwnAt(k)' = OwnAt(k)
<1>1. /\ drafts[i].status = "open" /\ drafts'[i].status = "committed"
      /\ drafts'[i].version = prodVersion + 1
      /\ \A j \in M!NumbersOfSets : /\ drafts'[j].from = drafts[j].from /\ drafts'[j].to = drafts[j].to
                                    /\ j # i => drafts'[j] = drafts[j]
      /\ (M!NumbersOfSets)' = M!NumbersOfSets
  BY CommitWrites DEF M!NumbersOfSets
<1>2. M!Own' = M!Own
  BY <1>1 DEF M!Own
<1>3. \A k : \A j \in M!NumbersOfSets : Wrote(j, k)' <=> Wrote(j, k) \/ (j = i /\ k \in DOMAIN drafts[i].to)
  BY <1>1 DEF Wrote
<1>4. \A k : ~Wrote(i, k)
  BY <1>1 DEF Wrote
<1>5. M!Own \subseteq M!NumbersOfSets
  BY DEF M!Own
<1>6. HistoryGrows
  <2> SUFFICES ASSUME NEW k
               PROVE  OwnAt(k)' \subseteq OwnAt(k) \cup {prodVersion + 1} /\ OtherAt(k) \subseteq OtherAt(k)'
    BY DEF HistoryGrows
  <2>1. \A j \in M!NumbersOfSets : Wrote(j, k) => Wrote(j, k)' /\ drafts'[j].version = drafts[j].version
    BY <1>1, <1>3, <1>4
  <2>2. \A j \in M!NumbersOfSets : Wrote(j, k)' => drafts'[j].version = prodVersion + 1 \/ Wrote(j, k)
    BY <1>1, <1>3
  <2>3. OtherAt(k) \subseteq OtherAt(k)'
    BY <1>1, <1>2, <2>1 DEF OtherAt
  <2>4. OwnAt(k)' \subseteq OwnAt(k) \cup {prodVersion + 1}
    BY <1>1, <1>2, <1>5, <2>1, <2>2 DEF OwnAt
  <2> QED
    BY <2>3, <2>4
<1>7. ASSUME NEW k, k \notin DOMAIN drafts[i].to
      PROVE  OwnAt(k)' = OwnAt(k)
  <2>1. \A j \in M!NumbersOfSets : /\ Wrote(j, k)' <=> Wrote(j, k)
                                   /\ Wrote(j, k) => drafts'[j].version = drafts[j].version
    BY <1>1, <1>3, <1>4, <1>7
  <2>2. {j \in M!Own : Wrote(j, k)'} = {j \in M!Own : Wrote(j, k)}
    BY <1>5, <2>1
  <2> QED
    BY <1>1, <1>2, <1>5, <2>1, <2>2 DEF OwnAt
<1> QED
  BY <1>6, <1>7

(* A commit moves its rows past every base, and tells of them at a version   *)
(* no read-in has read.                                                      *)
LEMMA CommitKeeps ==
  ASSUME MigrationInv, NEW i \in M!NumbersOfSets, M!Commit(i)
  PROVE  MigrationInv'
<1>1. /\ drafts[i].status = "open"
      /\ UNCHANGED <<master, job>> /\ prodVersion' = prodVersion + 1 /\ prodVersion \in Nat
      /\ drafts' \in Seq(MigrationSet) /\ Len(drafts') = Len(drafts)
      /\ drafts'[i].status = "committed" /\ drafts'[i].version = prodVersion + 1
      /\ UNCHANGED <<drafts[i].from, drafts[i].to, drafts[i].base, drafts[i].seen, drafts[i].n>>
      /\ UNCHANGED <<drafts[i].since, drafts[i].read, drafts[i].take, drafts[i].recorded>>
      /\ \A j \in M!NumbersOfSets : j # i => drafts'[j] = drafts[j]
      /\ \A k \in Rows : IF k \in DOMAIN drafts[i].to
                         THEN prod'[k] = drafts[i].to[k] /\ wrote'[k] = prodVersion + 1
                         ELSE prod'[k] = prod[k] /\ wrote'[k] = wrote[k]
      /\ prod' \in [Rows -> M!Contents] /\ wrote' \in [Rows -> Nat]
  BY CommitWrites
<1>2. (M!NumbersOfSets)' = M!NumbersOfSets
  BY <1>1 DEF M!NumbersOfSets
<1>3. MigrationTyped' /\ DOMAIN job' = Admins
  BY <1>1 DEF MigrationInv, MigrationTyped
<1>4. MasterMoves'
  <2>1. ASSUME NEW k \in Steady PROVE prod'[k] # "dead"
    <3>1. k \in Rows /\ prod[k] # "dead"
      BY DEF MigrationInv, MasterMoves, Steady
    <3>2. k \in DOMAIN drafts[i].to => drafts[i].to[k] # "dead"
      BY SetAt DEF Fits
    <3> QED
      BY <1>1, <3>1, <3>2
  <2> QED
    BY <1>1, <2>1 DEF MigrationInv, MasterMoves, Steady
<1>5. HistoryGrows /\ \A k : k \notin DOMAIN drafts[i].to => OwnAt(k)' = OwnAt(k)
  BY CommitTold
<1>6. \A k \in Rows : wrote'[k] <= prodVersion' /\ \A v \in OwnAt(k)' : v <= wrote'[k]
  <2> TAKE k \in Rows
  <2>1. wrote[k] \in Nat /\ wrote[k] <= prodVersion /\ \A v \in OwnAt(k) : v <= wrote[k]
    BY DEF MigrationInv, MigrationTyped
  <2>2. CASE k \in DOMAIN drafts[i].to
    <3>1. \A v \in OwnAt(k) : v \in Nat
      <4>1. M!At(M!Own, k) \in SUBSET (0 .. prodVersion)
        BY VersionsBounded DEF M!Own
      <4>2. M!At(M!Own, k) = OwnAt(k)
        BY DEF OwnAt, M!At, Wrote
      <4> QED
        BY <4>1, <4>2
    <3>2. wrote'[k] = prodVersion + 1
      BY <1>1, <2>2
    <3> QED
      BY <1>1, <1>5, <2>1, <3>1, <3>2 DEF HistoryGrows
  <2>3. CASE k \notin DOMAIN drafts[i].to
    BY <1>1, <1>5, <2>1, <2>3
  <2> QED
    BY <2>2, <2>3
<1>7. ASSUME NEW j \in M!NumbersOfSets
      PROVE  /\ UNCHANGED <<drafts[j].from, drafts[j].to, drafts[j].base, drafts[j].seen, drafts[j].n>>
             /\ UNCHANGED <<drafts[j].since, drafts[j].read, drafts[j].take, drafts[j].recorded>>
  BY <1>1
<1>8. ASSUME NEW j \in M!NumbersOfSets
      PROVE  Fits(j)'
  <2>1. /\ Fits(j) /\ drafts[j] \in MigrationSet
        /\ \A k \in DOMAIN drafts[j].to : drafts[j].base[k] \in Nat
    BY SetAt
  <2>2. drafts'[j].version <= prodVersion' /\ drafts'[j].read <= prodVersion'
    <3>1. /\ drafts[j].version \in Nat /\ drafts[j].version <= prodVersion
          /\ drafts[j].read \in Nat /\ drafts[j].read <= prodVersion
      BY <2>1 DEF Fits, MigrationSet
    <3>2. drafts'[j].version = drafts[j].version \/ drafts'[j].version = prodVersion + 1
      BY <1>1
    <3>3. drafts'[j].read = drafts[j].read
      BY <1>7
    <3> QED
      BY <1>1, <3>1, <3>2, <3>3
  <2>3. \A k \in DOMAIN drafts[j].to : drafts[j].base[k] <= prodVersion'
    BY <1>1, <2>1 DEF Fits
  <2> QED
    BY <1>1, <1>7, <2>1, <2>2, <2>3 DEF Fits, M!Timetables, Steady
<1>9. ASSUME NEW j \in M!NumbersOfSets
      PROVE  Stands(j)'
  <2>1. \A n \in 1 .. (Len(master) - 1) : master'[n] = master[n]
    BY <1>1
  <2> QED
    BY <1>5, <1>7, <2>1, StandsOn
<1>10. ASSUME NEW j \in M!NumbersOfSets
       PROVE  Sees(j)'
  <2>1. CASE j = i
    BY <1>1, <2>1 DEF Sees
  <2>2. CASE j # i
    <3>1. /\ drafts'[j] = drafts[j] /\ Fits(j) /\ Sees(j) /\ DOMAIN drafts[j].to \subseteq Rows
          /\ \A k \in DOMAIN drafts[j].to : drafts[j].base[k] \in Nat
      BY <1>1, <2>2, SetAt
    <3>2. ASSUME NEW k \in DOMAIN drafts[j].to, wrote'[k] = drafts[j].base[k]
          PROVE  prod'[k] = prod[k] /\ wrote'[k] = wrote[k]
      <4>1. k \in Rows /\ drafts[j].base[k] <= prodVersion /\ drafts[j].base[k] \in Nat
        BY <3>1, <3>2 DEF Fits
      <4>2. k \notin DOMAIN drafts[i].to
        BY <1>1, <3>2, <4>1
      <4> QED
        BY <1>1, <4>1, <4>2
    <3> QED
      BY <3>1, <3>2 DEF Sees
  <2> QED
    BY <2>1, <2>2
<1>11. ASSUME NEW a \in Admins
       PROVE  ReadIn(a)'
  <2>1. Len(master') \in Nat /\ Len(master) <= Len(master') /\ prodVersion' \in Nat /\ prodVersion <= prodVersion'
    BY <1>1, LenProperties DEF MigrationInv, MigrationTyped
  <2>2. job'[a] = job[a] /\ \A j \in M!NumbersOfSets : drafts'[j].from = drafts[j].from
    BY <1>1
  <2> QED
    BY <1>2, <1>5, <2>1, <2>2, ReadsOn
<1> QED
  BY <1>2, <1>3, <1>4, <1>6, <1>8, <1>9, <1>10, <1>11 DEF MigrationInv

LEMMA MigrationInvKept ==
  ASSUME MigrationInv, [M!Next]_migrationVars
  PROVE  MigrationInv'
<1>1. CASE UNCHANGED migrationVars
  <2>1. \A a \in Admins : job'[a] = job[a]
    BY <1>1 DEF migrationVars
  <2> QED
    BY <1>1, <2>1, SetsStay DEF MigrationInv, MigrationTyped, MasterMoves, Steady, migrationVars
<1> QED
  BY <1>1, MasterCommitsKeeps, OwnDraftKeeps, CommitKeeps, DiscardKeeps, ReadDraftKeeps, ReadFeedKeeps,
     DraftTimetablesKeeps, RecordKeeps, DiesKeeps DEF M!Next

LEMMA MigrationInvHolds == M!Init /\ [][M!Next]_migrationVars => []MigrationInv
BY MigrationInvInitially, MigrationInvKept, PTL

(* Nothing but its commit commits a set.                                     *)
LEMMA OnlyCommits ==
  ASSUME MigrationInv, [M!Next]_migrationVars, NEW i \in M!NumbersOfSets, M!Goes(i)
  PROVE  M!Commit(i)
<1>1. drafts[i].status = "open" /\ drafts'[i].status = "committed"
  BY DEF M!Goes
<1>2. /\ drafts \in Seq(MigrationSet) /\ DOMAIN drafts = M!NumbersOfSets
      /\ \A j \in M!NumbersOfSets : drafts[j] \in MigrationSet
  BY ElementOfSeq, LenProperties DEF MigrationInv, MigrationTyped, M!NumbersOfSets
<1>3. \A s : M!Draft(s) => drafts'[i] = drafts[i]
  <2> SUFFICES ASSUME NEW s, M!Draft(s) PROVE drafts'[i] = drafts[i]
    OBVIOUS
  <2>1. drafts \in Seq(MigrationSet \cup {s}) /\ s \in MigrationSet \cup {s}
    BY <1>2, SeqMonotonic
  <2> QED
    BY <2>1, AppendProperties DEF M!Draft, M!NumbersOfSets
<1>4. ASSUME NEW j \in M!NumbersOfSets, M!Commit(j) \/ M!Discard(j)
      PROVE  M!Commit(i)
  <2>1. CASE M!Discard(j)
    BY <1>1, <1>2, <2>1 DEF M!Discard, MigrationSet
  <2>2. CASE M!Commit(j)
    BY <1>1, <1>2, <2>2, CommitWrites
  <2> QED
    BY <1>4, <2>1, <2>2
<1>5. ASSUME NEW a \in Admins, M!Record(a)
      PROVE  FALSE
  <2>1. job[a].id \in M!NumbersOfSets /\ drafts[job[a].id] \in MigrationSet
    BY <1>2, <1>5 DEF MigrationInv, ReadIn, M!Record
  <2> QED
    BY <1>1, <1>2, <1>5, <2>1 DEF M!Record, MigrationSet
<1>6. ~(UNCHANGED drafts)
  BY <1>1
<1>7. ASSUME NEW k \in Rows, NEW c \in M!Contents, M!MasterCommits(k, c) \/ M!OwnDraft(k, c)
      PROVE  FALSE
  BY <1>1, <1>3, <1>6, <1>7, Zenon DEF M!MasterCommits, M!OwnDraft
<1>8. ASSUME NEW n \in 1 .. MaxVersions, NEW take \in Takes, M!ReadDraft(n, take)
      PROVE  FALSE
  BY <1>1, <1>3, <1>8, Zenon DEF M!ReadDraft
<1>9. ASSUME NEW a \in Admins, NEW n, NEW base, NEW take, M!ReadFeed(a, n, base, take)
      PROVE  FALSE
  <2>1. UNCHANGED drafts \/ \E s : M!Draft(s)
    BY <1>9, Zenon DEF M!ReadFeed
  <2> QED
    BY <1>1, <1>3, <2>1
<1>10. ASSUME NEW a \in Admins, M!DraftTimetables(a) \/ M!Dies(a)
       PROVE  FALSE
  <2>1. UNCHANGED drafts \/ \E s : M!Draft(s)
    BY <1>10, Zenon DEF M!DraftTimetables, M!Dies
  <2> QED
    BY <1>1, <1>3, <2>1
<1> QED
  BY <1>4, <1>5, <1>6, <1>7, <1>8, <1>9, <1>10 DEF M!Next, migrationVars

(* The rows a commit finds are as its set saw them: by their versions, or by *)
(* what is in them.                                                          *)
LEMMA CommitsWhatItSaw ==
  ASSUME MigrationInv, [M!Next]_migrationVars, NEW i \in M!NumbersOfSets, M!Goes(i),
         NEW k \in DOMAIN drafts[i].to
  PROVE  /\ prod[k] = drafts[i].seen[k] /\ prod'[k] = drafts[i].to[k]
         /\ Kind[k] = "stop" => wrote[k] = drafts[i].base[k]
<1>1. M!Commit(i) /\ Sees(i) /\ k \in Rows
  BY OnlyCommits, SetAt
<1>2. drafts[i].status = "open" /\ ~M!Moved(drafts[i], k) /\ prod'[k] = drafts[i].to[k]
  BY <1>1, CommitWrites DEF M!Conflicts
<1>3. wrote[k] = drafts[i].base[k] => prod[k] = drafts[i].seen[k]
  BY <1>1, <1>2 DEF Sees
<1> QED
  BY <1>2, <1>3 DEF M!Moved

(* A full migration's commit writes over no edit of prod's own but of a      *)
(* stage, list or timetable since the read-in, and that leaves the row as    *)
(* the set saw it; one draft's only over what master had.                    *)
THEOREM OwnEditsKeptHolds == PartsSpec => OwnEditsKept
<1>1. MigrationInv /\ [M!Next]_migrationVars => M!KeepsOwnEdits
  <2> SUFFICES ASSUME MigrationInv, [M!Next]_migrationVars,
                      NEW i \in M!NumbersOfSets, M!Goes(i),
                      NEW k \in DOMAIN drafts[i].to \ drafts[i].take
               PROVE  /\ drafts[i].from = "full" =>
                           \A v \in M!OwnEdits(k, drafts[i].since) :
                             v > drafts[i].read /\ Kind[k] # "stop" /\ prod[k] = drafts[i].seen[k]
                      /\ drafts[i].from = "set" => drafts[i].to[k] = "dead" \/ prod[k] = master[drafts[i].n][k]
    BY Zenon DEF M!KeepsOwnEdits
  <2>1. /\ prod[k] = drafts[i].seen[k] /\ Stands(i) /\ Fits(i) /\ drafts[i] \in MigrationSet /\ k \in Rows
        /\ Kind[k] = "stop" => wrote[k] = drafts[i].base[k]
    BY CommitsWhatItSaw, SetAt
  <2>2. ASSUME drafts[i].from = "full", NEW v \in M!OwnEdits(k, drafts[i].since)
        PROVE  v > drafts[i].read /\ Kind[k] # "stop"
    <3>1. PICK base, read : base = drafts[i].since /\ read = drafts[i].read
      OBVIOUS
    <3>2. v \in OwnAt(k) /\ v > base /\ \A u \in OtherAt(k) : u < v
      BY <2>2, <3>1 DEF M!OwnEdits, M!At, OwnAt, OtherAt, Wrote
    <3>3. prodVersion \in Nat /\ M!At(M!Own, k) \in SUBSET Nat /\ M!At(M!NumbersOfSets \ M!Own, k) \in SUBSET Nat
      BY VersionsBounded DEF M!Own
    <3>4. v \in Nat /\ OtherAt(k) \in SUBSET Nat
      BY <3>2, <3>3 DEF M!At, OwnAt, OtherAt, Wrote
    <3>5. Respected(k, base, read)
      BY <2>1, <2>2, <3>1 DEF Stands
    <3>6. read \in Nat /\ ~(v <= read)
      <4>1. read \in Nat
        BY <2>1, <3>1 DEF MigrationSet
      <4>2. v <= read => \E u \in OtherAt(k) : v <= u
        BY <3>2, <3>5 DEF Respected
      <4> QED
        BY <3>2, <3>4, <4>1, <4>2
    <3>7. ASSUME Kind[k] = "stop" PROVE FALSE
      <4>1. wrote[k] <= read
        BY <2>1, <3>1, <3>7 DEF Fits, M!Timetables
      <4>2. v <= wrote[k] /\ wrote[k] \in Nat
        BY <2>1, <3>2 DEF MigrationInv, MigrationTyped
      <4> QED
        BY <3>4, <3>6, <4>1, <4>2
    <3> QED
      BY <3>1, <3>4, <3>6, <3>7
  <2>3. drafts[i].from = "set" => drafts[i].to[k] = "dead" \/ prod[k] = master[drafts[i].n][k]
    BY <2>1 DEF Stands
  <2> QED
    BY <2>1, <2>2, <2>3
<1> QED
  BY <1>1, MigrationInvHolds, MigrationStandsAlone, PTL DEF OwnEditsKept

(* A migration's commit changes each of its rows, but a timetable taken in   *)
(* one draft, and brings none back that prod took out: what is there already *)
(* is not drafted, and what the set saw is what the commit finds.            *)
THEOREM EachCommitMovesHolds == PartsSpec => EachCommitMoves
<1>1. MigrationInv /\ [M!Next]_migrationVars => M!MovesRows
  <2> SUFFICES ASSUME MigrationInv, [M!Next]_migrationVars,
                      NEW i \in M!NumbersOfSets, M!Goes(i), drafts[i].from # "own",
                      NEW k \in DOMAIN drafts[i].to
               PROVE  /\ prod[k] # "dead"
                      /\ \/ prod'[k] # prod[k]
                         \/ drafts[i].from = "set" /\ Kind[k] = "timetable" /\ k \in drafts[i].take
    BY Zenon DEF M!MovesRows
  <2>1. prod[k] = drafts[i].seen[k] /\ prod'[k] = drafts[i].to[k] /\ Stands(i)
    BY CommitsWhatItSaw, SetAt
  <2> QED
    BY <2>1 DEF Stands
<1> QED
  BY <1>1, MigrationInvHolds, MigrationStandsAlone, PTL DEF EachCommitMoves
=============================================================================
