----------------------------- MODULE FeedReload -----------------------------
(***************************************************************************)
(* Reloading a feed from a GTFS zip: feed_reload of                        *)
(* src/src/editor/handlers.rs, load_zip of feed_io.rs, and the codes of    *)
(* an authenticator that confirm it twice.  The first request checks the   *)
(* zip, by a reload that is rolled back, and answers with a ticket; the    *)
(* second brings the ticket, the same zip and a newer code, and reloads.   *)
(* Every row of the feed goes, so no draft may be open on them.            *)
(*                                                                         *)
(* One admin.  The lockout after wrong codes only refuses, and is left     *)
(* out; so are what a zip holds and resetting an authenticator.            *)
(***************************************************************************)
EXTENDS Naturals, FiniteSets

CONSTANTS
  Zips, Requests,
  Drafts,      \* change sets of the feed, there or to come
  MaxVersion,  \* bound: versions of the feed
  MaxTime,     \* bound: time steps of the authenticator
  MaxTickets   \* bound: tickets given

VARIABLES
  version,     \* of the feed
  loads,       \* history: how often its rows were replaced
  draft,       \* its change sets
  last,        \* totp_last_step; 0: NULL
  time,        \* the authenticator's time step now
  tickets,     \* what checks answered with
  req

vars == <<version, loads, draft, last, time, tickets, req>>
feed == <<version, loads, draft>>

Idle    == [at |-> "idle"]
NoDraft == [status |-> "none"]
Open    == {"draft", "submitted", "approved"}

Init ==
  /\ version = 1 /\ loads = 0
  /\ draft = [d \in Drafts |-> NoDraft]
  /\ last = 0 /\ time = 1
  /\ tickets = {}
  /\ req = [r \in Requests |-> Idle]

At(r, at)    == req[r].at = at
Goes(r, at)  == req' = [req EXCEPT ![r].at = at]
Ends(r)      == req' = [req EXCEPT ![r] = Idle]

-----------------------------------------------------------------------------
(* A request: its user's row and the feed's version as they are, then the    *)
(* code, then the zip.                                                       *)

\* totp_check: a right code is of the step before, of now or the next.
Codes == {c \in (time - 1)..(time + 1) : c > 0}

Begin(r, kind, code, ticket) ==
  /\ At(r, "idle")
  /\ req' = [req EXCEPT ![r] = [at |-> "code", kind |-> kind, code |-> code, before |-> last,
                                ticket |-> ticket]]
  /\ UNCHANGED <<feed, last, time, tickets>>

SignIn(r, code) == Begin(r, "signIn", code, {})

Check(r, zip, code) ==
  /\ Cardinality(tickets) < MaxTickets
  /\ Begin(r, "check", code, {[zip |-> zip, version |-> version, code |-> code]})

\* Its zip is the ticket's, and the feed's version still is.
Reload(r, zip, code, t) ==
  /\ t \in tickets /\ t.zip = zip /\ t.version = version
  /\ Begin(r, "reload", code, {t})

\* use_code: still right, not one read as used, and newer than the last used when it is
\* written.
Accepts(q) == q.code \in Codes /\ q.code > q.before /\ q.code > last

UseCode(r) ==
  LET q == req[r]
  IN  /\ At(r, "code")
      /\ IF ~Accepts(q) THEN Ends(r) /\ UNCHANGED last
         ELSE /\ last' = q.code
              /\ IF q.kind = "signIn" THEN Ends(r) ELSE Goes(r, "load")
      /\ UNCHANGED <<feed, time, tickets>>

\* Mutant of NobodyEdits: what waits for its commit is not looked at.
NobodyDrafts == \A d \in Drafts : draft[d].status # "draft"
NobodyEdits == \A d \in Drafts : draft[d].status \notin Open

\* reload_zip of a check: it would load, and is rolled back.  saw, for the record: the
\* version it would have replaced.
TryLoad(r) ==
  /\ At(r, "load") /\ req[r].kind = "check"
  /\ tickets' = IF NobodyEdits
                THEN tickets \cup {[zip |-> t.zip, version |-> t.version, code |-> t.code,
                                    saw |-> version] : t \in req[r].ticket}
                ELSE tickets
  /\ Ends(r)
  /\ UNCHANGED <<feed, last, time>>

\* Mutant of MayLoad: the version was looked at when the request came in.
MayLoadLate(t) == NobodyEdits
\* reload_zip, in one transaction that holds the feed's lock.
MayLoad(t) == t.version = version /\ NobodyEdits

Load(r) ==
  /\ At(r, "load") /\ req[r].kind = "reload"
  /\ \E t \in req[r].ticket :
       IF MayLoad(t) /\ version < MaxVersion
       THEN version' = version + 1 /\ loads' = loads + 1
       ELSE UNCHANGED <<version, loads>>
  /\ Ends(r)
  /\ UNCHANGED <<draft, last, time, tickets>>

\* The zip does not load, the pod dies, the job's outcome is never written.
Dies(r) ==
  /\ ~At(r, "idle")
  /\ Ends(r)
  /\ UNCHANGED <<feed, last, time, tickets>>

\* Ten minutes on.
Expire(t) ==
  /\ tickets' = tickets \ {t}
  /\ UNCHANGED <<feed, last, time, req>>

Tick ==
  /\ time < MaxTime
  /\ time' = time + 1
  /\ UNCHANGED <<feed, last, tickets, req>>

-----------------------------------------------------------------------------
(* The feed's change sets: the steps of ChangeSets that open and close one.  *)

\* on: the rows it was made against.
MakeDraft(d) ==
  /\ draft[d] = NoDraft
  /\ draft' = [draft EXCEPT ![d] = [status |-> "draft", on |-> loads, reopened |-> FALSE]]
  /\ UNCHANGED <<version, loads, last, time, tickets, req>>

Moves == {<<"draft", "submitted">>, <<"submitted", "approved">>, <<"submitted", "rejected">>}
           \cup (Open \X {"discarded"}) \cup ((Open \cup {"rejected"}) \X {"draft"})

Move(d, to) ==
  /\ <<draft[d].status, to>> \in Moves /\ draft[d].status # to
  /\ draft' = [draft EXCEPT ![d].status = to,
                            ![d].reopened = @ \/ draft[d].status = "rejected"]
  /\ UNCHANGED <<version, loads, last, time, tickets, req>>

Commit(d) ==
  /\ draft[d].status = "approved" /\ version < MaxVersion
  /\ draft' = [draft EXCEPT ![d].status = "committed"]
  /\ version' = version + 1
  /\ UNCHANGED <<loads, last, time, tickets, req>>

Next ==
  \/ \E r \in Requests :
       \/ \E code \in Codes :
            \/ SignIn(r, code)
            \/ \E zip \in Zips : Check(r, zip, code) \/ \E t \in tickets : Reload(r, zip, code, t)
       \/ UseCode(r) \/ TryLoad(r) \/ Load(r) \/ Dies(r)
  \/ \E t \in tickets : Expire(t)
  \/ \E d \in Drafts :
       \/ MakeDraft(d) \/ Commit(d)
       \/ \E to \in Open \cup {"rejected", "discarded"} : Move(d, to)
  \/ Tick

Spec == Init /\ [][Next]_vars

-----------------------------------------------------------------------------
(* Properties.                                                              *)

(* A reload replaces what its check has looked at, whatever was committed      *)
(* before, between and during the two requests, whichever pods take them, and  *)
(* the two were confirmed with a code each.                                    *)
LoadsWhatWasChecked ==
  loads' # loads =>
    \E r \in Requests :
      /\ At(r, "load") /\ req[r].kind = "reload"
      /\ \E t \in req[r].ticket : t.saw = version /\ t.code # req[r].code
ReplacesWhatWasChecked == [][LoadsWhatWasChecked]_vars

(* "A feed somebody is editing is not loaded over" (feed_io.rs:799): an open   *)
(* change set was made against the rows that are there, except one rejected    *)
(* before the reload and opened again after it.                                *)
DraftsStandOnRows ==
  \A d \in Drafts : draft[d].status \in Open /\ ~draft[d].reopened => draft[d].on = loads
=============================================================================
