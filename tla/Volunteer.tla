------------------------------ MODULE Volunteer ------------------------------
(***************************************************************************)
(* Volunteer events: signing up, withdrawing, deciding an applicant,       *)
(* cancelling an event, the hourly sweep that closes ended events, and the *)
(* certificate of completed participations.                                *)
(*                                                                         *)
(* As in Placement, reads are outside the use-case's transaction and each  *)
(* save is guarded by the version read.  The seats taken are counted on    *)
(* the event, the roster is in the signups collection: nothing but the     *)
(* order of the reads and the guards keeps the two together.               *)
(***************************************************************************)
EXTENDS Integers, FiniteSets

CONSTANTS
    Events, Volunteers,
    Workers,      \* requests being served at the same time
    Sweepers,     \* application instances that run the hourly sweep
    Capacity,     \* seats of each event
    MaxSignups,   \* bound: signups ever made
    NoEvent, NoVolunteer

\* What is asked of the constants.
VolunteerAssumption ==
    /\ Capacity \in Nat \ {0}
    /\ NoEvent \notin Events
    /\ MaxSignups \in Nat
    /\ NoVolunteer \notin Volunteers

VARIABLES
    event,        \* the volunteer_events collection
    signup,       \* the volunteer_signups collection
    clock,        \* clock[e]: where now is, in event e's timetable
    txn,          \* txn[w]: what request w is doing and the copies it has read
    sweep,        \* sweep[k]: the copies of ended events sweeper k has to save
    certified     \* the items of every certificate issued

vars == <<event, signup, clock, txn, sweep, certified>>

\* Signups are named in the order they are made; 0 is none.
Signups == 1..MaxSignups

EventStatus == {"OPEN", "CLOSED", "CANCELLED"}
SignupStatus == {"PENDING", "APPROVED", "REJECTED", "WITHDRAWN"}
Clock == {"BEFORE", "STARTED", "ENDED"}

NoEventDoc == [status |-> "ABSENT", signedUpCount |-> 0, version |-> 0]

NoSignupDoc == [event |-> NoEvent, volunteer |-> NoVolunteer,
                status |-> "ABSENT", version |-> 0]

IdleTxn == [op |-> "IDLE", step |-> "none", actor |-> NoVolunteer,
            event |-> NoEvent, signup |-> 0,
            seenEvent |-> NoEventDoc, seenSignup |-> NoSignupDoc]

Init ==
    /\ event = [e \in Events |-> NoEventDoc]
    /\ signup = [s \in Signups |-> NoSignupDoc]
    /\ clock = [e \in Events |-> "BEFORE"]
    /\ txn = [w \in Workers |-> IdleTxn]
    /\ sweep = [k \in Sweepers |-> [e \in Events |-> NoEventDoc]]
    /\ certified = {}

-----------------------------------------------------------------------------
\* Domain rules

IsLive(doc) == doc.status \in {"PENDING", "APPROVED"}

AcceptsSignupsWhenFull(doc, now) ==
    /\ doc.status = "OPEN"
    /\ now = "BEFORE"
    /\ doc.signedUpCount <= Capacity

AcceptsSignups(doc, now) ==
    /\ doc.status = "OPEN"
    /\ now = "BEFORE"
    /\ doc.signedUpCount < Capacity

\* The signups of v for e in one of the given statuses.
SignupsOf(e, v, statuses) ==
    {s \in Signups : /\ signup[s].event = e
                     /\ signup[s].volunteer = v
                     /\ signup[s].status \in statuses}

NextSignup == 1 + Cardinality({s \in Signups : signup[s].status # "ABSENT"})

FindLive(e, v) == SignupsOf(e, v, {"PENDING", "APPROVED"})

-----------------------------------------------------------------------------
\* Guarded saves: the patch writes the status and the count of the copy.

EventFreshNeverChecked(t) == TRUE

EventFresh(t) == t.seenEvent.version = event[t.event].version

SignupFresh(t) == t.seenSignup.version = signup[t.signup].version

SaveEvent(t, status, count) ==
    /\ EventFresh(t)
    /\ event' = [event EXCEPT ![t.event] =
                   [status |-> status, signedUpCount |-> count,
                    version |-> event[t.event].version + 1]]

ReserveSlot(t) == SaveEvent(t, t.seenEvent.status, t.seenEvent.signedUpCount + 1)

\* The count never goes below zero.
ReleaseSlotForgotten(t) == UNCHANGED event

ReleaseSlot(t) ==
    SaveEvent(t, t.seenEvent.status,
              IF t.seenEvent.signedUpCount > 0 THEN t.seenEvent.signedUpCount - 1 ELSE 0)

SavedSignup(t, status) ==
    [t.seenSignup EXCEPT !.status = status, !.version = signup[t.signup].version + 1]

Done(w) == txn' = [txn EXCEPT ![w] = IdleTxn]

At(w, op, step) == txn[w].op = op /\ txn[w].step = step

Begin(w, t) ==
    /\ txn[w] = IdleTxn
    /\ txn' = [txn EXCEPT ![w] = t]
    /\ UNCHANGED <<event, signup, clock, sweep, certified>>

-----------------------------------------------------------------------------
\* Nothing asks that the new event starts in the future.
CreateEvent(e, now) ==
    /\ event[e].status = "ABSENT"
    /\ event' = [event EXCEPT ![e].status = "OPEN"]
    /\ clock' = [clock EXCEPT ![e] = now]
    /\ UNCHANGED <<signup, txn, sweep, certified>>

Pass(e) ==
    /\ event[e].status # "ABSENT"
    /\ clock[e] # "ENDED"
    /\ clock' = [clock EXCEPT ![e] = IF clock[e] = "BEFORE" THEN "STARTED" ELSE "ENDED"]
    /\ UNCHANGED <<event, signup, txn, sweep, certified>>

\* sign-up-for-volunteer: the event, then the member's signups, then the save.
BeginSignUp(w, e, v) ==
    /\ AcceptsSignups(event[e], clock[e])
    /\ Begin(w, [IdleTxn EXCEPT !.op = "SIGN_UP", !.step = "live", !.actor = v,
                                !.event = e, !.seenEvent = event[e]])

CheckLiveSkipped(w) ==
    LET t == txn[w] IN
    /\ At(w, "SIGN_UP", "live")
    /\ clock[t.event] = "BEFORE"
    /\ txn' = [txn EXCEPT ![w].step = "commit"]
    /\ UNCHANGED <<event, signup, clock, sweep, certified>>

\* No live signup; reserveSlot asks again whether the event has started.
CheckLive(w) ==
    LET t == txn[w] IN
    /\ At(w, "SIGN_UP", "live")
    /\ FindLive(t.event, t.actor) = {}
    /\ clock[t.event] = "BEFORE"
    /\ txn' = [txn EXCEPT ![w].step = "commit"]
    /\ UNCHANGED <<event, signup, clock, sweep, certified>>

\* The partial unique index refuses a second PENDING row.
CommitSignUp(w) ==
    LET t == txn[w]
        s == NextSignup
    IN
    /\ At(w, "SIGN_UP", "commit")
    /\ s \in Signups
    /\ SignupsOf(t.event, t.actor, {"PENDING"}) = {}
    /\ ReserveSlot(t)
    /\ signup' = [signup EXCEPT ![s] = [NoSignupDoc EXCEPT !.event = t.event,
                                                           !.volunteer = t.actor,
                                                           !.status = "PENDING"]]
    /\ Done(w)
    /\ UNCHANGED <<clock, sweep, certified>>

\* withdraw-volunteer-signup and decide-volunteer-signup: the signup first.
BeginOnSignup(w, op, s) ==
    /\ op \in {"WITHDRAW", "DECIDE"}
    /\ signup[s].status # "ABSENT"
    /\ op = "WITHDRAW" => IsLive(signup[s])
    /\ Begin(w, [IdleTxn EXCEPT !.op = op, !.step = "event", !.signup = s,
                                !.seenSignup = signup[s]])

\* Then its event; the actor is one of the shelter's staff.
ReadEvent(w) ==
    LET e == txn[w].seenSignup.event IN
    /\ txn[w].step = "event"
    /\ event[e].status # "ABSENT"
    /\ txn' = [txn EXCEPT ![w].step = "commit", ![w].event = e,
                          ![w].seenEvent = event[e]]
    /\ UNCHANGED <<event, signup, clock, sweep, certified>>

SaveSignup(w, status) ==
    LET t == txn[w] IN
    /\ SignupFresh(t)
    /\ signup' = [signup EXCEPT ![t.signup] = SavedSignup(t, status)]
    /\ Done(w)
    /\ UNCHANGED <<clock, sweep, certified>>

CommitWithdraw(w) ==
    /\ At(w, "WITHDRAW", "commit")
    /\ SaveSignup(w, "WITHDRAWN")
    /\ ReleaseSlot(txn[w])

\* An approval saves the signup only: neither the event nor the clock is asked.
CommitApprove(w) ==
    /\ At(w, "DECIDE", "commit")
    /\ txn[w].seenSignup.status = "PENDING"
    /\ SaveSignup(w, "APPROVED")
    /\ UNCHANGED event

CommitReject(w) ==
    /\ At(w, "DECIDE", "commit")
    /\ txn[w].seenSignup.status = "PENDING"
    /\ SaveSignup(w, "REJECTED")
    /\ ReleaseSlot(txn[w])

BeginCancel(w, e) ==
    /\ event[e].status \in {"OPEN", "CLOSED"}
    /\ Begin(w, [IdleTxn EXCEPT !.op = "CANCEL", !.step = "commit",
                                !.event = e, !.seenEvent = event[e]])

\* The signups of a cancelled event stay as they are, and keep their seats.
CommitCancel(w) ==
    LET t == txn[w] IN
    /\ At(w, "CANCEL", "commit")
    /\ SaveEvent(t, "CANCELLED", t.seenEvent.signedUpCount)
    /\ Done(w)
    /\ UNCHANGED <<signup, clock, sweep, certified>>

\* issue-volunteer-certificate: the approved signups, then their events; the
\* certificate is inserted outside any transaction.  One of its items at a time.
BeginCertify(w, s) ==
    /\ signup[s].status = "APPROVED"
    /\ Begin(w, [IdleTxn EXCEPT !.op = "CERTIFY", !.step = "commit", !.signup = s,
                                !.seenSignup = signup[s]])

CertifyStarted(w) ==
    LET e == txn[w].seenSignup.event IN
    /\ At(w, "CERTIFY", "commit")
    /\ clock[e] # "BEFORE"
    /\ event[e].status # "CANCELLED"
    /\ certified' = certified \cup {[event |-> e, volunteer |-> txn[w].seenSignup.volunteer]}
    /\ Done(w)
    /\ UNCHANGED <<event, signup, clock, sweep>>

Certify(w) ==
    LET e == txn[w].seenSignup.event IN
    /\ At(w, "CERTIFY", "commit")
    /\ clock[e] = "ENDED"
    /\ event[e].status # "CANCELLED"
    /\ certified' = certified \cup {[event |-> e, volunteer |-> txn[w].seenSignup.volunteer]}
    /\ Done(w)
    /\ UNCHANGED <<event, signup, clock, sweep>>

Abort(w) ==
    /\ txn[w] # IdleTxn
    /\ Done(w)
    /\ UNCHANGED <<event, signup, clock, sweep, certified>>

-----------------------------------------------------------------------------
\* The hourly sweep: reads the ended events that are open, saves one by one,
\* each save on its own, and skips an event another request saved meanwhile.

IsExpiredOpen(e) == event[e].status = "OPEN" /\ clock[e] = "ENDED"

Swept(k) == \A e \in Events : sweep[k][e] = NoEventDoc

SweepRead(k) ==
    /\ Swept(k)
    /\ \E e \in Events : IsExpiredOpen(e)
    /\ sweep' = [sweep EXCEPT ![k] =
                   [e \in Events |-> IF IsExpiredOpen(e) THEN event[e] ELSE NoEventDoc]]
    /\ UNCHANGED <<event, signup, clock, txn, certified>>

CloseUnsaved(k, e) == UNCHANGED event

CloseIfFresh(k, e) ==
    LET seen == sweep[k][e] IN
    event' = IF seen.version = event[e].version
               THEN [event EXCEPT ![e] = [seen EXCEPT !.status = "CLOSED",
                                                      !.version = seen.version + 1]]
               ELSE event

SweepSave(k, e) ==
    /\ sweep[k][e] # NoEventDoc
    /\ CloseIfFresh(k, e)
    /\ sweep' = [sweep EXCEPT ![k][e] = NoEventDoc]
    /\ UNCHANGED <<signup, clock, txn, certified>>

SweepCrash(k) ==
    /\ ~Swept(k)
    /\ sweep' = [sweep EXCEPT ![k] = [e \in Events |-> NoEventDoc]]
    /\ UNCHANGED <<event, signup, clock, txn, certified>>

-----------------------------------------------------------------------------
BeginStep(w) ==
    \/ \E e \in Events, v \in Volunteers : BeginSignUp(w, e, v)
    \/ \E s \in Signups, op \in {"WITHDRAW", "DECIDE"} : BeginOnSignup(w, op, s)
    \/ \E e \in Events : BeginCancel(w, e)
    \/ \E s \in Signups : BeginCertify(w, s)

ReadStep(w) == CheckLive(w) \/ ReadEvent(w)

CommitStep(w) ==
    \/ CommitSignUp(w)
    \/ CommitWithdraw(w)
    \/ CommitApprove(w)
    \/ CommitReject(w)
    \/ CommitCancel(w)
    \/ Certify(w)

SweepStep(k) ==
    \/ SweepRead(k)
    \/ \E e \in Events : SweepSave(k, e)
    \/ SweepCrash(k)

Next ==
    \/ \E e \in Events : Pass(e) \/ \E now \in Clock : CreateEvent(e, now)
    \/ \E w \in Workers : BeginStep(w) \/ ReadStep(w) \/ CommitStep(w) \/ Abort(w)
    \/ \E k \in Sweepers : SweepStep(k)

Spec == Init /\ [][Next]_vars

\* The cron fires every hour, and not every sweep dies before each save.
Fairness ==
    \A k \in Sweepers :
        /\ WF_vars(SweepRead(k))
        /\ \A e \in Events : SF_vars(SweepSave(k, e))

FairSpec == Spec /\ Fairness

-----------------------------------------------------------------------------
\* Properties

EventDoc ==
    [status : EventStatus \cup {"ABSENT"}, signedUpCount : 0..Capacity, version : Nat]

SignupDoc ==
    [event : Events \cup {NoEvent}, volunteer : Volunteers \cup {NoVolunteer},
     status : SignupStatus \cup {"ABSENT"}, version : Nat]

Txn ==
    [op : {"IDLE", "SIGN_UP", "WITHDRAW", "DECIDE", "CANCEL", "CERTIFY"},
     step : {"none", "live", "event", "commit"},
     actor : Volunteers \cup {NoVolunteer}, event : Events \cup {NoEvent},
     signup : Signups \cup {0}, seenEvent : EventDoc, seenSignup : SignupDoc]

\* Every document and copy has its shape, and no count leaves 0..Capacity.
TypeOK ==
    /\ event \in [Events -> EventDoc]
    /\ signup \in [Signups -> SignupDoc]
    /\ clock \in [Events -> Clock]
    /\ txn \in [Workers -> Txn]
    /\ sweep \in [Sweepers -> [Events -> EventDoc]]
    /\ certified \subseteq [event : Events, volunteer : Volunteers]

LiveSignups(e) == {s \in Signups : signup[s].event = e /\ IsLive(signup[s])}

\* The count on the event is the number of live signups in its roster, whatever
\* withdrawals, rejections, sign-ups, a cancellation and the sweep overlap.
SeatsCounted ==
    \A e \in Events : event[e].signedUpCount = Cardinality(LiveSignups(e))

\* A member has at most one live signup for an event: the event is read before
\* the member's signups and saved with them, so two sign-ups that both saw no
\* live one cannot both commit (the unique index only covers PENDING rows).
OneLiveSignup ==
    \A e \in Events, v \in Volunteers : Cardinality(FindLive(e, v)) <= 1

\* A certified participation is in an event that had ended, by a member whose
\* signup was approved (and withdrawn since, at most).
CertificateEarned ==
    \A c \in certified :
        /\ clock[c.event] = "ENDED"
        /\ SignupsOf(c.event, c.volunteer, {"APPROVED", "WITHDRAWN"}) # {}

\* An event that has ended does not stay open for ever: the sweep closes it,
\* although requests may win against its save again and again.
EndedEventsClose ==
    \A e \in Events : IsExpiredOpen(e) ~> event[e].status # "OPEN"

-----------------------------------------------------------------------------
\* What this implements

Status == [e \in Events |-> event[e].status]

Seated == [e \in Events |-> {signup[s].volunteer : s \in LiveSignups(e)}]

R == INSTANCE Roster WITH status <- Status, seated <- Seated

\* Every behaviour is one of the roster whose operations are single steps: a
\* seat is given once, while the event is open and has room, and a cancelled
\* or closed event is never opened again by a save of an older copy.
RosterSpec == R!Spec
=============================================================================
