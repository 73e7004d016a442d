---------------------------- MODULE VolunteerInv ----------------------------
(***************************************************************************)
(* The inductive invariant of Volunteer.                                   *)
(*                                                                         *)
(* Whether a commit keeps the count and the roster together depends on     *)
(* what its request read before.  Copies says what that is still worth: a  *)
(* copy that has its document's version is the document, and a member who  *)
(* had no live sign-up when it was looked for has none as long as the      *)
(* event's version has not moved, since every sign-up moves it.            *)
(***************************************************************************)
EXTENDS Volunteer

-----------------------------------------------------------------------------
\* Documents

EventsFormed == \A e \in Events : event[e].status = "ABSENT" => event[e] = NoEventDoc

SignupsFormed ==
    \A s \in Signups :
        \/ signup[s] = NoSignupDoc
        \/ /\ signup[s].status # "ABSENT"
           /\ signup[s].event \in Events
           /\ signup[s].volunteer \in Volunteers
           /\ event[signup[s].event].status # "ABSENT"

Numbered ==
    \E n \in 0..MaxSignups : \A s \in Signups : signup[s].status # "ABSENT" <=> s <= n

SameSeat(s1, s2) ==
    /\ IsLive(signup[s1]) /\ IsLive(signup[s2])
    /\ signup[s1].event = signup[s2].event
    /\ signup[s1].volunteer = signup[s2].volunteer

OneSeatEach == \A s1, s2 \in Signups : SameSeat(s1, s2) => s1 = s2

\* What the stored documents say of one another, whoever wrote them.
Documents ==
    /\ EventsFormed
    /\ SignupsFormed
    /\ Numbered
    /\ OneSeatEach
    /\ SeatsCounted
    /\ CertificateEarned

-----------------------------------------------------------------------------
\* Copies

\* doc was read from event e: it is behind the stored document, or equal to it.
EventCopy(e, doc) ==
    doc.status # "ABSENT" =>
        /\ e \in Events
        /\ event[e].status # "ABSENT"
        /\ doc.version <= event[e].version
        /\ doc.version = event[e].version => doc = event[e]

\* What a sign-up is about never changes, and one that was approved is at most
\* withdrawn.
SignupCopy(s, doc) ==
    doc.status # "ABSENT" =>
        /\ s \in Signups
        /\ signup[s].status # "ABSENT"
        /\ doc.event = signup[s].event
        /\ doc.volunteer = signup[s].volunteer
        /\ doc.version <= signup[s].version
        /\ doc.version = signup[s].version => doc = signup[s]
        /\ doc.status = "APPROVED" => signup[s].status \in {"APPROVED", "WITHDRAWN"}

\* Nobody has signed the actor up since the roster was searched in vain.
Unseated(t) == EventFresh(t) => FindLive(t.event, t.actor) = {}

\* What a request holds and has checked, at each of its steps.
Prepared(t) ==
    /\ t.op = "IDLE" => t = IdleTxn
    /\ t.op = "SIGN_UP" =>
          /\ t.actor \in Volunteers
          /\ t.seenEvent.status = "OPEN"
          /\ t.seenEvent.signedUpCount < Capacity
          /\ t.step \in {"live", "commit"}
          /\ t.step = "commit" => Unseated(t)
    /\ t.op \in {"WITHDRAW", "DECIDE"} =>
          /\ t.seenSignup.status # "ABSENT"
          /\ t.op = "WITHDRAW" => IsLive(t.seenSignup)
          /\ t.step \in {"event", "commit"}
          /\ t.step = "commit" => /\ t.event = t.seenSignup.event
                                  /\ t.seenEvent.status # "ABSENT"
    /\ t.op = "CANCEL" => t.seenEvent.status \in {"OPEN", "CLOSED"}
    /\ t.op = "CERTIFY" => t.seenSignup.status = "APPROVED"
    /\ t.step = "event" => t.op \in {"WITHDRAW", "DECIDE"}

Ready(t) ==
    /\ EventCopy(t.event, t.seenEvent)
    /\ SignupCopy(t.signup, t.seenSignup)
    /\ Prepared(t)

Listed(e, doc) == doc # NoEventDoc => doc.status = "OPEN" /\ EventCopy(e, doc)

\* What every request and every sweep in progress holds.
Copies ==
    /\ \A w \in Workers : Ready(txn[w])
    /\ \A k \in Sweepers, e \in Events : Listed(e, sweep[k][e])

\* Count and roster agree, and no save is about to pass the version guard with a
\* copy that is not the document (volunteer-event and volunteer-signup repositories).
IInv == TypeOK /\ Documents /\ Copies
=============================================================================
