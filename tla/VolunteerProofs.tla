--------------------------- MODULE VolunteerProofs ---------------------------
(***************************************************************************)
(* Proofs about Volunteer, for any number of events, members, sign-ups,    *)
(* seats, concurrent requests and sweeps.                                  *)
(***************************************************************************)
EXTENDS VolunteerInv, FiniteSetTheorems, TLAPS

LEMMA IdleReady == ASSUME VolunteerAssumption PROVE IdleTxn \in Txn /\ Ready(IdleTxn)
  BY DEF VolunteerAssumption, IdleTxn, Txn, EventDoc, SignupDoc, EventStatus, SignupStatus, NoEventDoc,
         NoSignupDoc, Ready, EventCopy, SignupCopy, Prepared

\* The initial state: no event, no sign-up.
LEMMA InitIInv == ASSUME VolunteerAssumption, Init PROVE IInv
<1> USE DEF VolunteerAssumption
<1>1. NoEventDoc \in EventDoc /\ NoSignupDoc \in SignupDoc
  BY DEF EventDoc, SignupDoc, NoEventDoc, NoSignupDoc
<1>2. TypeOK
  BY <1>1, IdleReady DEF Init, TypeOK, Clock
<1>3. EventsFormed /\ SignupsFormed /\ OneSeatEach /\ CertificateEarned
  BY DEF Init, EventsFormed, SignupsFormed, OneSeatEach, SameSeat, IsLive, NoSignupDoc,
         CertificateEarned
<1>4. Numbered
  <2>1. 0 \in 0..MaxSignups /\ \A s \in Signups : signup[s].status # "ABSENT" <=> s <= 0
    BY DEF Init, Signups, NoSignupDoc
  <2> QED BY <2>1 DEF Numbered
<1>5. SeatsCounted
  <2> SUFFICES ASSUME NEW e \in Events
               PROVE  event[e].signedUpCount = Cardinality(LiveSignups(e))
    BY DEF SeatsCounted
  <2>1. LiveSignups(e) = {}
    BY DEF Init, LiveSignups, IsLive, NoSignupDoc
  <2> QED BY <2>1, FS_EmptySet DEF Init, NoEventDoc
<1>6. Copies
  BY IdleReady DEF Init, Copies, Listed
<1> QED BY <1>2, <1>3, <1>4, <1>5, <1>6 DEF IInv, Documents

-----------------------------------------------------------------------------
\* Steps that only move a request forward

\* If only request w changes, to a t that is well-typed and holds what it
\* should, the invariant is preserved.
LEMMA OneTxnStep ==
    ASSUME IInv, UNCHANGED <<event, signup, clock, sweep, certified>>,
           NEW w \in Workers, NEW t \in Txn, txn' = [txn EXCEPT ![w] = t], Ready(t)
    PROVE  IInv'
<1>1. TypeOK'
  BY DEF IInv, TypeOK
<1>2. EventsFormed' /\ SignupsFormed' /\ Numbered' /\ OneSeatEach'
  BY DEF IInv, Documents, EventsFormed, SignupsFormed, Numbered, OneSeatEach, SameSeat
<1>3. SeatsCounted' /\ CertificateEarned'
  BY DEF IInv, Documents, SeatsCounted, LiveSignups, CertificateEarned, SignupsOf
<1>4. \A x \in Workers : txn'[x] = IF x = w THEN t ELSE txn[x]
  BY DEF IInv, TypeOK
<1>5. \A x \in Workers : Ready(txn[x])'
  <2> SUFFICES ASSUME NEW x \in Workers PROVE Ready(txn[x])'
    OBVIOUS
  <2>1. PICK c : c = txn'[x]
    OBVIOUS
  <2>2. Ready(c)
    BY <1>4, <2>1 DEF IInv, Copies
  <2>3. Ready(c)'
    BY <2>2 DEF Ready, EventCopy, SignupCopy, Prepared, Unseated, EventFresh, FindLive,
                SignupsOf
  <2> QED BY <2>1, <2>3 DEF Ready, EventCopy, SignupCopy, Prepared, Unseated, EventFresh,
                            FindLive, SignupsOf
<1>6. Copies'
  BY <1>5 DEF IInv, Copies, Listed, EventCopy
<1> QED BY <1>1, <1>2, <1>3, <1>6 DEF IInv, Documents

\* What w holds.
LEMMA Held ==
    ASSUME IInv, NEW w \in Workers
    PROVE  txn[w] \in Txn /\ Ready(txn[w])
  BY DEF IInv, TypeOK, Copies

\* A sign-up that was made is of a member, for an event that exists.
LEMMA SignupNames ==
    ASSUME IInv, NEW s \in Signups, signup[s].status # "ABSENT"
    PROVE  /\ signup[s] \in SignupDoc
           /\ signup[s].event \in Events
           /\ signup[s].volunteer \in Volunteers
           /\ event[signup[s].event].status # "ABSENT"
  BY DEF IInv, TypeOK, Documents, SignupsFormed, NoSignupDoc

LEMMA BeginKeeps ==
    ASSUME VolunteerAssumption, IInv, NEW w \in Workers, BeginStep(w)
    PROVE  IInv'
<1> USE IdleReady
<1>1. ASSUME NEW e \in Events, NEW v \in Volunteers, BeginSignUp(w, e, v) PROVE IInv'
  <2> DEFINE t == [IdleTxn EXCEPT !.op = "SIGN_UP", !.step = "live", !.actor = v,
                                  !.event = e, !.seenEvent = event[e]]
  <2>1. event[e] \in EventDoc
    BY DEF IInv, TypeOK
  <2>2. t \in Txn
    BY <2>1 DEF Txn
  <2>3. Ready(t)
    BY <1>1, <2>1 DEF BeginSignUp, AcceptsSignups, EventDoc, IdleTxn, NoSignupDoc, Ready,
                      EventCopy, SignupCopy, Prepared
  <2> QED BY <1>1, <2>2, <2>3, OneTxnStep DEF BeginSignUp, Begin
<1>2. ASSUME NEW s \in Signups, NEW op \in {"WITHDRAW", "DECIDE"}, BeginOnSignup(w, op, s)
      PROVE  IInv'
  <2> DEFINE t == [IdleTxn EXCEPT !.op = op, !.step = "event", !.signup = s,
                                  !.seenSignup = signup[s]]
  <2>1. signup[s] \in SignupDoc
    BY DEF IInv, TypeOK
  <2>2. t \in Txn
    BY <2>1 DEF Txn
  <2>3. Ready(t)
    BY <1>2, <2>1 DEF BeginOnSignup, SignupDoc, IdleTxn, NoEventDoc, Ready, EventCopy,
                      SignupCopy, Prepared
  <2> QED BY <1>2, <2>2, <2>3, OneTxnStep DEF BeginOnSignup, Begin
<1>3. ASSUME NEW e \in Events, BeginCancel(w, e) PROVE IInv'
  <2> DEFINE t == [IdleTxn EXCEPT !.op = "CANCEL", !.step = "commit",
                                  !.event = e, !.seenEvent = event[e]]
  <2>1. event[e] \in EventDoc
    BY DEF IInv, TypeOK
  <2>2. t \in Txn
    BY <2>1 DEF Txn
  <2>3. Ready(t)
    BY <1>3, <2>1 DEF BeginCancel, EventDoc, IdleTxn, NoSignupDoc, Ready, EventCopy,
                      SignupCopy, Prepared
  <2> QED BY <1>3, <2>2, <2>3, OneTxnStep DEF BeginCancel, Begin
<1>4. ASSUME NEW s \in Signups, BeginCertify(w, s) PROVE IInv'
  <2> DEFINE t == [IdleTxn EXCEPT !.op = "CERTIFY", !.step = "commit", !.signup = s,
                                  !.seenSignup = signup[s]]
  <2>1. signup[s] \in SignupDoc
    BY DEF IInv, TypeOK
  <2>2. t \in Txn
    BY <2>1 DEF Txn
  <2>3. Ready(t)
    BY <1>4, <2>1 DEF BeginCertify, SignupDoc, IdleTxn, NoEventDoc, Ready, EventCopy,
                      SignupCopy, Prepared
  <2> QED BY <1>4, <2>2, <2>3, OneTxnStep DEF BeginCertify, Begin
<1> QED BY <1>1, <1>2, <1>3, <1>4 DEF BeginStep

LEMMA ReadKeeps == ASSUME IInv, NEW w \in Workers, ReadStep(w) PROVE IInv'
<1>1. CASE CheckLive(w)
  <2> DEFINE t == [txn[w] EXCEPT !.step = "commit"]
  <2>1. t \in Txn
    BY Held DEF Txn
  <2>2. Ready(t)
    BY <1>1, Held DEF CheckLive, At, Txn, Ready, EventCopy, SignupCopy, Prepared, Unseated
  <2> QED BY <1>1, <2>1, <2>2, OneTxnStep DEF CheckLive
<1>2. CASE ReadEvent(w)
  <2> DEFINE e == txn[w].seenSignup.event
             t == [txn[w] EXCEPT !.step = "commit", !.event = e, !.seenEvent = event[e]]
  <2>1. txn[w].op \in {"WITHDRAW", "DECIDE"} /\ txn[w].seenSignup.status # "ABSENT"
    BY <1>2, Held DEF ReadEvent, Ready, Prepared
  <2>2. txn[w].signup \in Signups /\ signup[txn[w].signup].status # "ABSENT"
          /\ e = signup[txn[w].signup].event
    BY <2>1, Held DEF Ready, SignupCopy
  <2>3. e \in Events
    BY <2>2, SignupNames
  <2>4. event[e] \in EventDoc
    BY <2>3 DEF IInv, TypeOK
  <2>5. t \in Txn
    BY <2>3, <2>4, Held DEF Txn
  <2>6. Ready(t)
    BY <1>2, <2>1, <2>3, <2>4, Held
       DEF ReadEvent, EventDoc, Txn, Ready, EventCopy, SignupCopy, Prepared, IdleTxn
  <2>7. txn' = [txn EXCEPT ![w] = t]
    BY <1>2 DEF ReadEvent
  <2> QED BY <1>2, <2>5, <2>6, <2>7, OneTxnStep DEF ReadEvent
<1> QED BY <1>1, <1>2 DEF ReadStep

LEMMA AbortKeeps ==
    ASSUME VolunteerAssumption, IInv, NEW w \in Workers, Abort(w)
    PROVE  IInv'
  BY IdleReady, OneTxnStep DEF Abort, Done

-----------------------------------------------------------------------------
\* Steps that save

\* A save of an event moves its version; one that is made was absent.
EventMoves(e) ==
    \/ event'[e] = event[e]
    \/ event[e].status = "ABSENT"
    \/ event'[e].status # "ABSENT" /\ event'[e].version > event[e].version

\* A save of a sign-up moves its version and leaves what it is about; one that
\* was approved or withdrawn is so afterwards.
SignupMoves(s) ==
    \/ signup'[s] = signup[s]
    \/ signup[s].status = "ABSENT"
    \/ /\ signup'[s].status # "ABSENT"
       /\ signup'[s].event = signup[s].event
       /\ signup'[s].volunteer = signup[s].volunteer
       /\ signup'[s].version > signup[s].version
       /\ signup[s].status \in {"APPROVED", "WITHDRAWN"} =>
             signup'[s].status \in {"APPROVED", "WITHDRAWN"}

\* Whoever gains a seat moves the event.
SeatMoves(e, v) ==
    event'[e] = event[e] /\ FindLive(e, v) = {} => FindLive(e, v)' = {}

Moves ==
    /\ \A e \in Events : EventMoves(e)
    /\ \A s \in Signups : SignupMoves(s)
    /\ \A e \in Events, v \in Volunteers : SeatMoves(e, v)

\* After such a save, what others hold is behind the documents, or still equal.
LEMMA CopiesKept ==
    ASSUME VolunteerAssumption, IInv, TypeOK', Moves,
           \A w \in Workers : txn'[w] = txn[w] \/ txn'[w] = IdleTxn,
           \A k \in Sweepers, e \in Events :
               sweep'[k][e] = sweep[k][e] \/ sweep'[k][e] = NoEventDoc
    PROVE  Copies'
<1>1. ASSUME NEW e, NEW doc \in EventDoc, EventCopy(e, doc) PROVE EventCopy(e, doc)'
  <2> SUFFICES ASSUME doc.status # "ABSENT" PROVE EventCopy(e, doc)'
    BY DEF EventCopy
  <2>1. e \in Events /\ EventMoves(e)
    BY <1>1 DEF EventCopy, Moves
  <2>2. event[e] \in EventDoc /\ event'[e] \in EventDoc
    BY <2>1 DEF IInv, TypeOK
  <2> QED BY <1>1, <2>1, <2>2 DEF EventCopy, EventMoves, EventDoc
<1>2. ASSUME NEW s, NEW doc \in SignupDoc, SignupCopy(s, doc) PROVE SignupCopy(s, doc)'
  <2> SUFFICES ASSUME doc.status # "ABSENT" PROVE SignupCopy(s, doc)'
    BY DEF SignupCopy
  <2>1. s \in Signups /\ SignupMoves(s)
    BY <1>2 DEF SignupCopy, Moves
  <2>2. signup[s] \in SignupDoc /\ signup'[s] \in SignupDoc
    BY <2>1 DEF IInv, TypeOK
  <2> QED BY <1>2, <2>1, <2>2 DEF SignupCopy, SignupMoves, SignupDoc
<1>3. ASSUME NEW t \in Txn, Ready(t) PROVE Ready(t)'
  <2>1. EventCopy(t.event, t.seenEvent)' /\ SignupCopy(t.signup, t.seenSignup)'
    BY <1>1, <1>2, <1>3 DEF Ready, Txn
  <2>2. ASSUME t.op = "SIGN_UP", t.step = "commit" PROVE Unseated(t)'
    <3> SUFFICES ASSUME t.seenEvent.version = event'[t.event].version
                 PROVE  FindLive(t.event, t.actor)' = {}
      BY DEF Unseated, EventFresh
    <3>1. /\ t.actor \in Volunteers /\ t.seenEvent.status = "OPEN" /\ Unseated(t)
          /\ t.event \in Events /\ t.seenEvent.version <= event[t.event].version
      BY <1>3, <2>2 DEF Ready, Prepared, EventCopy
    <3>2. event[t.event] \in EventDoc /\ event'[t.event] \in EventDoc /\ t.seenEvent \in EventDoc
      BY <3>1 DEF IInv, TypeOK, Txn
    <3>3. event'[t.event] = event[t.event]
      BY <1>3, <3>1, <3>2 DEF Moves, EventMoves, EventDoc, Ready, EventCopy
    <3>4. FindLive(t.event, t.actor) = {}
      BY <3>1, <3>3 DEF Unseated, EventFresh
    <3> QED BY <3>1, <3>3, <3>4 DEF Moves, SeatMoves
  <2>3. Prepared(t)'
    BY <1>3, <2>2 DEF Ready, Prepared
  <2> QED BY <2>1, <2>3 DEF Ready
<1>4. ASSUME NEW w \in Workers PROVE Ready(txn[w])'
  <2>1. PICK c : c = txn'[w]
    OBVIOUS
  <2>2. c \in Txn /\ Ready(c)
    BY <2>1, IdleReady, Held
  <2>3. Ready(c)'
    BY <1>3, <2>2
  <2> QED BY <2>1, <2>3 DEF Ready, EventCopy, SignupCopy, Prepared, Unseated, EventFresh,
                            FindLive, SignupsOf
<1>5. ASSUME NEW k \in Sweepers, NEW e \in Events PROVE Listed(e, sweep[k][e])'
  <2>1. PICK c : c = sweep'[k][e]
    OBVIOUS
  <2>2. c \in EventDoc /\ Listed(e, c)
    BY <2>1 DEF IInv, TypeOK, Copies, Listed, NoEventDoc
  <2>3. Listed(e, c)'
    BY <1>1, <2>2 DEF Listed
  <2> QED BY <2>1, <2>3 DEF Listed, EventCopy
<1> QED BY <1>4, <1>5 DEF Copies

\* And a certified participation was still earned.
LEMMA CertificatesKept ==
    ASSUME IInv, Moves, UNCHANGED <<clock, certified>> PROVE CertificateEarned'
<1> SUFFICES ASSUME NEW c \in certified
             PROVE  /\ clock[c.event] = "ENDED"
                    /\ SignupsOf(c.event, c.volunteer, {"APPROVED", "WITHDRAWN"})' # {}
  BY DEF CertificateEarned
<1>1. clock[c.event] = "ENDED"
        /\ SignupsOf(c.event, c.volunteer, {"APPROVED", "WITHDRAWN"}) # {}
  BY DEF IInv, Documents, CertificateEarned
<1>2. PICK s \in Signups : /\ signup[s].event = c.event
                           /\ signup[s].volunteer = c.volunteer
                           /\ signup[s].status \in {"APPROVED", "WITHDRAWN"}
  BY <1>1 DEF SignupsOf
<1>3. /\ signup'[s].event = c.event
      /\ signup'[s].volunteer = c.volunteer
      /\ signup'[s].status \in {"APPROVED", "WITHDRAWN"}
  BY <1>2 DEF Moves, SignupMoves
<1> QED BY <1>1, <1>3 DEF SignupsOf

-----------------------------------------------------------------------------
\* What a commit knows: a copy that passes the guard is the document

LEMMA FreshEvent ==
    ASSUME IInv, NEW w \in Workers, txn[w].seenEvent.status # "ABSENT", EventFresh(txn[w])
    PROVE  /\ txn[w].event \in Events
           /\ event[txn[w].event] \in EventDoc
           /\ event[txn[w].event].status # "ABSENT"
           /\ txn[w].seenEvent = event[txn[w].event]
  BY Held DEF Ready, EventCopy, EventFresh, IInv, TypeOK

LEMMA FreshSignup ==
    ASSUME IInv, NEW w \in Workers, txn[w].seenSignup.status # "ABSENT", SignupFresh(txn[w])
    PROVE  /\ txn[w].signup \in Signups
           /\ signup[txn[w].signup] \in SignupDoc
           /\ signup[txn[w].signup].status # "ABSENT"
           /\ txn[w].seenSignup = signup[txn[w].signup]
  BY Held DEF Ready, SignupCopy, SignupFresh, IInv, TypeOK

LEMMA Requests ==
    ASSUME IInv, NEW w \in Workers, txn' = [txn EXCEPT ![w] = IdleTxn]
    PROVE  \A x \in Workers : txn'[x] = txn[x] \/ txn'[x] = IdleTxn
  BY DEF IInv, TypeOK

-----------------------------------------------------------------------------
\* Rosters and their size

LEMMA LiveFinite ==
    ASSUME VolunteerAssumption, NEW e
    PROVE  IsFiniteSet(LiveSignups(e)) /\ Cardinality(LiveSignups(e)) \in Nat
<1>1. IsFiniteSet(Signups)
  BY FS_Interval DEF VolunteerAssumption, Signups
<1>2. LiveSignups(e) \in SUBSET Signups
  BY DEF LiveSignups
<1> QED BY <1>1, <1>2, FS_Subset, FS_CardinalityType

\* A save of an event alone leaves every roster as it is.
LEMMA EventSaved ==
    ASSUME VolunteerAssumption, IInv, TypeOK', CertificateEarned',
           UNCHANGED <<signup, certified>>,
           NEW e \in Events, NEW d, event' = [event EXCEPT ![e] = d],
           d.status # "ABSENT", d.signedUpCount = event[e].signedUpCount,
           event[e].status = "ABSENT" \/ d.version > event[e].version,
           \A w \in Workers : txn'[w] = txn[w] \/ txn'[w] = IdleTxn,
           \A k \in Sweepers, x \in Events :
               sweep'[k][x] = sweep[k][x] \/ sweep'[k][x] = NoEventDoc
    PROVE  IInv'
<1>1. \A x \in Events : event'[x] = IF x = e THEN d ELSE event[x]
  BY DEF IInv, TypeOK
<1>2. EventsFormed' /\ SignupsFormed'
  BY <1>1 DEF IInv, Documents, EventsFormed, SignupsFormed
<1>3. Numbered' /\ OneSeatEach'
  BY DEF IInv, Documents, Numbered, OneSeatEach, SameSeat
<1>4. \A x : LiveSignups(x)' = LiveSignups(x)
  BY DEF LiveSignups
<1>5. SeatsCounted'
  <2> SUFFICES ASSUME NEW x \in Events
               PROVE  event'[x].signedUpCount = Cardinality(LiveSignups(x)')
    BY DEF SeatsCounted
  <2>1. event'[x].signedUpCount = event[x].signedUpCount
    BY <1>1
  <2>2. event[x].signedUpCount = Cardinality(LiveSignups(x))
    BY DEF IInv, Documents, SeatsCounted
  <2>3. Cardinality(LiveSignups(x)') = Cardinality(LiveSignups(x))
    BY <1>4, Zenon
  <2> QED BY <2>1, <2>2, <2>3
<1>6. Moves
  BY <1>1 DEF Moves, EventMoves, SignupMoves, SeatMoves, FindLive, SignupsOf
<1>7. Copies'
  BY <1>6, CopiesKept
<1> QED BY <1>2, <1>3, <1>5, <1>7 DEF IInv, Documents

\* A save of sign-up s that does not revive it.
LEMMA RosterKept ==
    ASSUME IInv, NEW s \in Signups, NEW d, signup' = [signup EXCEPT ![s] = d],
           signup[s].status # "ABSENT", d.status # "ABSENT",
           d.event = signup[s].event, d.volunteer = signup[s].volunteer,
           IsLive(d) => IsLive(signup[s]),
           \A e \in Events : event[e].status # "ABSENT" => event'[e].status # "ABSENT"
    PROVE  /\ SignupsFormed' /\ Numbered' /\ OneSeatEach'
           /\ \A e \in Events, v \in Volunteers : SeatMoves(e, v)
<1>1. \A x \in Signups : signup'[x] = IF x = s THEN d ELSE signup[x]
  BY DEF IInv, TypeOK
<1>2. SignupsFormed'
  BY <1>1, SignupNames DEF IInv, Documents, SignupsFormed
<1>3. Numbered'
  <2>1. PICK n \in 0..MaxSignups : \A x \in Signups : signup[x].status # "ABSENT" <=> x <= n
    BY DEF IInv, Documents, Numbered
  <2>2. \A x \in Signups : signup'[x].status # "ABSENT" <=> x <= n
    BY <1>1, <2>1
  <2> QED BY <2>2 DEF Numbered
<1>4. OneSeatEach'
  <2> SUFFICES ASSUME NEW x \in Signups, NEW y \in Signups, SameSeat(x, y)' PROVE x = y
    BY DEF OneSeatEach
  <2>1. SameSeat(x, y)
    BY <1>1 DEF SameSeat
  <2> QED BY <2>1 DEF IInv, Documents, OneSeatEach
<1>5. ASSUME NEW e \in Events, NEW v \in Volunteers, FindLive(e, v) = {}
      PROVE  FindLive(e, v)' = {}
  <2> SUFFICES ASSUME NEW x \in Signups, signup'[x].event = e, signup'[x].volunteer = v,
                      IsLive(signup'[x])
               PROVE  FALSE
    BY DEF FindLive, SignupsOf, IsLive
  <2>1. signup[x].event = e /\ signup[x].volunteer = v /\ IsLive(signup[x])
    BY <1>1
  <2> QED BY <1>5, <2>1 DEF FindLive, SignupsOf, IsLive
<1> QED BY <1>2, <1>3, <1>4, <1>5 DEF SeatMoves

\* The next sign-up is the first number not taken.
LEMMA NextIsNew ==
    ASSUME VolunteerAssumption, NEW n \in 0..MaxSignups,
           \A s \in Signups : signup[s].status # "ABSENT" <=> s <= n
    PROVE  NextSignup = n + 1
<1>1. {s \in Signups : signup[s].status # "ABSENT"} = 1..n
  BY DEF VolunteerAssumption, Signups
<1>2. Cardinality(1..n) = n
  BY FS_Interval DEF VolunteerAssumption
<1>3. Cardinality({s \in Signups : signup[s].status # "ABSENT"}) = n
  BY <1>1, <1>2
<1> QED BY <1>3 DEF NextSignup

-----------------------------------------------------------------------------
\* What the commits of requests do to the documents

WithCount(doc, count) ==
    [status |-> doc.status, signedUpCount |-> count, version |-> doc.version + 1]

Counted(e, count) == event' = [event EXCEPT ![e] = WithCount(event[e], count)]

WithStatus(doc, status) ==
    [event |-> doc.event, volunteer |-> doc.volunteer, status |-> status,
     version |-> doc.version + 1]

Marked(s, status) == signup' = [signup EXCEPT ![s] = WithStatus(signup[s], status)]

Finished(w) ==
    /\ txn' = [txn EXCEPT ![w] = IdleTxn]
    /\ UNCHANGED <<clock, sweep, certified>>

\* Member v takes a seat of event e with the new sign-up s.
Joins(s, e, v) ==
    /\ s = NextSignup /\ s \in Signups
    /\ e \in Events /\ v \in Volunteers
    /\ event[e].status = "OPEN" /\ event[e].signedUpCount < Capacity
    /\ FindLive(e, v) = {}
    /\ Counted(e, event[e].signedUpCount + 1)
    /\ signup' = [signup EXCEPT ![s] = [NoSignupDoc EXCEPT !.event = e, !.volunteer = v,
                                                           !.status = "PENDING"]]

\* The live sign-up s gives its seat back.
Leaves(s, status) ==
    /\ s \in Signups /\ IsLive(signup[s])
    /\ status = "WITHDRAWN" \/ (status = "REJECTED" /\ signup[s].status = "PENDING")
    /\ event[signup[s].event].signedUpCount > 0
    /\ Counted(signup[s].event, event[signup[s].event].signedUpCount - 1)
    /\ Marked(s, status)

\* The pending sign-up s is approved.
Stays(s) ==
    /\ s \in Signups /\ signup[s].status = "PENDING"
    /\ Marked(s, "APPROVED")
    /\ UNCHANGED event

LEMMA SignUpJoins ==
    ASSUME IInv, NEW w \in Workers, CommitSignUp(w)
    PROVE  Joins(NextSignup, txn[w].event, txn[w].actor) /\ Finished(w)
<1> DEFINE t == txn[w]
<1>1. /\ t.actor \in Volunteers
      /\ t.seenEvent.status = "OPEN"
      /\ t.seenEvent.signedUpCount < Capacity
      /\ Unseated(t)
  BY Held DEF CommitSignUp, At, Ready, Prepared
<1>2. EventFresh(t)
  BY DEF CommitSignUp, ReserveSlot, SaveEvent
<1>3. /\ t.event \in Events
      /\ event[t.event] \in EventDoc
      /\ t.seenEvent = event[t.event]
  BY <1>1, <1>2, FreshEvent
<1>4. FindLive(t.event, t.actor) = {}
  BY <1>1, <1>2 DEF Unseated
<1>5. event' = [event EXCEPT ![t.event] =
                  [status |-> event[t.event].status,
                   signedUpCount |-> event[t.event].signedUpCount + 1,
                   version |-> event[t.event].version + 1]]
  BY <1>3 DEF CommitSignUp, ReserveSlot, SaveEvent
<1>6. Counted(t.event, event[t.event].signedUpCount + 1)
  BY <1>3, <1>5 DEF Counted, WithCount
<1> QED BY <1>1, <1>3, <1>4, <1>6 DEF CommitSignUp, Joins, Finished, Done

\* A seat that is taken is counted.
LEMMA TakenIsCounted ==
    ASSUME VolunteerAssumption, IInv, NEW s \in Signups, IsLive(signup[s])
    PROVE  /\ signup[s].event \in Events
           /\ event[signup[s].event].signedUpCount \in Nat \ {0}
<1>1. signup[s].event \in Events
  BY SignupNames DEF IsLive
<1>2. s \in LiveSignups(signup[s].event)
  BY DEF LiveSignups
<1>3. Cardinality(LiveSignups(signup[s].event)) \in Nat \ {0}
  BY <1>2, LiveFinite, FS_EmptySet
<1> QED BY <1>1, <1>3 DEF IInv, Documents, SeatsCounted

LEMMA SavedIs ==
    ASSUME NEW t, NEW status, t.seenSignup \in SignupDoc, t.seenSignup = signup[t.signup]
    PROVE  SavedSignup(t, status) = WithStatus(signup[t.signup], status)
<1>1. ASSUME NEW c \in SignupDoc, NEW n, NEW d,
             d = [c EXCEPT !.status = status, !.version = n]
      PROVE  d = [event |-> c.event, volunteer |-> c.volunteer, status |-> status, version |-> n]
  BY <1>1 DEF SignupDoc
<1>2. PICK c : c = t.seenSignup
  OBVIOUS
<1>3. SavedSignup(t, status) = [c EXCEPT !.status = status, !.version = c.version + 1]
  BY <1>2, Zenon DEF SavedSignup
<1>4. PICK d : d = SavedSignup(t, status)
  OBVIOUS
<1>5. d = [event |-> c.event, volunteer |-> c.volunteer, status |-> status,
           version |-> c.version + 1]
  BY <1>1, <1>2, <1>3, <1>4
<1> QED BY <1>2, <1>4, <1>5 DEF WithStatus

LEMMA CommitLeaves ==
    ASSUME VolunteerAssumption, IInv, NEW w \in Workers,
           txn[w].op \in {"WITHDRAW", "DECIDE"}, txn[w].step = "commit",
           IsLive(txn[w].seenSignup), NEW status,
           \/ status = "WITHDRAWN"
           \/ status = "REJECTED" /\ txn[w].seenSignup.status = "PENDING",
           SaveSignup(w, status), ReleaseSlot(txn[w])
    PROVE  Leaves(txn[w].signup, status) /\ Finished(w)
<1> DEFINE t == txn[w]
           s == t.signup
           e == t.event
<1>1. /\ t.seenSignup.status # "ABSENT"
      /\ t.seenEvent.status # "ABSENT"
      /\ e = t.seenSignup.event
  BY Held DEF Ready, Prepared
<1>2. SignupFresh(t) /\ EventFresh(t)
  BY DEF SaveSignup, ReleaseSlot, SaveEvent
<1>3. /\ s \in Signups
      /\ signup[s] \in SignupDoc
      /\ t.seenSignup = signup[s]
  BY <1>1, <1>2, FreshSignup
<1>4. /\ e \in Events
      /\ event[e] \in EventDoc
      /\ t.seenEvent = event[e]
  BY <1>1, <1>2, FreshEvent
<1>5. e = signup[s].event /\ event[e].signedUpCount \in Nat \ {0}
  BY <1>1, <1>3, TakenIsCounted
<1>6. event' = [event EXCEPT ![e] =
                  [status |-> event[e].status,
                   signedUpCount |-> event[e].signedUpCount - 1,
                   version |-> event[e].version + 1]]
  <2> DEFINE n == event[e].signedUpCount
  <2>1. (IF n > 0 THEN n - 1 ELSE 0) = n - 1
    BY <1>5
  <2>2. event' = [event EXCEPT ![e] =
                    [status |-> event[e].status,
                     signedUpCount |-> IF n > 0 THEN n - 1 ELSE 0,
                     version |-> event[e].version + 1]]
    BY <1>4 DEF ReleaseSlot, SaveEvent
  <2> HIDE DEF n
  <2>3. event' = [event EXCEPT ![e] =
                    [status |-> event[e].status,
                     signedUpCount |-> n - 1,
                     version |-> event[e].version + 1]]
    BY <2>1, <2>2
  <2> QED BY <2>3 DEF n
<1>7. Counted(e, event[e].signedUpCount - 1)
  BY <1>4, <1>6 DEF Counted, WithCount
<1>8. Marked(s, status)
  BY <1>3, SavedIs DEF SaveSignup, Marked
<1> QED BY <1>3, <1>5, <1>7, <1>8 DEF Leaves, Finished, SaveSignup, Done

LEMMA WithdrawLeaves ==
    ASSUME VolunteerAssumption, IInv, NEW w \in Workers, CommitWithdraw(w)
    PROVE  Leaves(txn[w].signup, "WITHDRAWN") /\ Finished(w)
<1>1. IsLive(txn[w].seenSignup)
  BY Held DEF CommitWithdraw, At, Ready, Prepared
<1> QED BY <1>1, CommitLeaves DEF CommitWithdraw, At

LEMMA RejectLeaves ==
    ASSUME VolunteerAssumption, IInv, NEW w \in Workers, CommitReject(w)
    PROVE  Leaves(txn[w].signup, "REJECTED") /\ Finished(w)
<1>1. IsLive(txn[w].seenSignup)
  BY DEF CommitReject, IsLive
<1> QED BY <1>1, CommitLeaves DEF CommitReject, At

LEMMA ApproveStays ==
    ASSUME IInv, NEW w \in Workers, CommitApprove(w)
    PROVE  Stays(txn[w].signup) /\ Finished(w)
<1>1. SignupFresh(txn[w]) /\ txn[w].seenSignup.status = "PENDING"
  BY DEF CommitApprove, SaveSignup
<1>2. /\ txn[w].signup \in Signups
      /\ signup[txn[w].signup] \in SignupDoc
      /\ txn[w].seenSignup = signup[txn[w].signup]
  BY <1>1, FreshSignup
<1> QED BY <1>1, <1>2, SavedIs DEF CommitApprove, SaveSignup, Marked, Stays, Finished, Done

-----------------------------------------------------------------------------
\* And how rosters change with it

LEMMA JoinsRoster ==
    ASSUME VolunteerAssumption, IInv, NEW s, NEW e, NEW v, Joins(s, e, v)
    PROVE  /\ signup[s].status = "ABSENT"
           /\ s \notin LiveSignups(e)
           /\ \A x : LiveSignups(x)' = IF x = e THEN LiveSignups(x) \cup {s}
                                       ELSE LiveSignups(x)
<1>1. PICK n \in 0..MaxSignups : \A x \in Signups : signup[x].status # "ABSENT" <=> x <= n
  BY DEF IInv, Documents, Numbered
<1>2. s = n + 1
  BY <1>1, NextIsNew DEF Joins
<1>3. signup[s].status = "ABSENT"
  BY <1>1, <1>2 DEF Joins
<1>4. \A x \in Signups : signup'[x] = IF x = s THEN [NoSignupDoc EXCEPT !.event = e,
                                                      !.volunteer = v, !.status = "PENDING"]
                                      ELSE signup[x]
  BY DEF Joins, IInv, TypeOK
<1>5. signup'[s].event = e /\ IsLive(signup'[s]) /\ ~IsLive(signup[s])
  <2>1. signup'[s] = [NoSignupDoc EXCEPT !.event = e, !.volunteer = v, !.status = "PENDING"]
    BY <1>4 DEF Joins
  <2>2. signup'[s].event = e /\ signup'[s].status = "PENDING"
    BY <2>1 DEF NoSignupDoc
  <2> QED BY <1>3, <2>2 DEF IsLive
<1>6. \A x : LiveSignups(x)' = IF x = e THEN LiveSignups(x) \cup {s} ELSE LiveSignups(x)
  BY <1>4, <1>5 DEF LiveSignups, Joins
<1> QED BY <1>3, <1>5, <1>6 DEF LiveSignups

LEMMA LeavesRoster ==
    ASSUME IInv, NEW s, NEW status, Leaves(s, status)
    PROVE  /\ s \in LiveSignups(signup[s].event)
           /\ \A x : LiveSignups(x)' = LiveSignups(x) \ {s}
<1>1. \A x \in Signups : signup'[x] = IF x = s THEN WithStatus(signup[s], status)
                                      ELSE signup[x]
  BY DEF Leaves, Marked, IInv, TypeOK
<1>2. signup[s] \in SignupDoc
  BY DEF Leaves, IInv, TypeOK
<1>3. ~IsLive(signup'[s])
  BY <1>1, <1>2 DEF Leaves, IsLive, WithStatus
<1> QED BY <1>1, <1>3 DEF Leaves, LiveSignups

LEMMA StaysRoster ==
    ASSUME IInv, NEW s, Stays(s)
    PROVE  \A x : LiveSignups(x)' = LiveSignups(x)
<1>1. \A x \in Signups : signup'[x] = IF x = s THEN WithStatus(signup[s], "APPROVED")
                                      ELSE signup[x]
  BY DEF Stays, Marked, IInv, TypeOK
<1>2. signup[s] \in SignupDoc
  BY DEF Stays, IInv, TypeOK
<1>3. IsLive(signup'[s]) /\ IsLive(signup[s]) /\ signup'[s].event = signup[s].event
  BY <1>1, <1>2 DEF Stays, IsLive, WithStatus
<1> QED BY <1>1, <1>3 DEF Stays, LiveSignups

-----------------------------------------------------------------------------
\* Commits preserve the invariant

LEMMA EventUpdated ==
    ASSUME NEW c \in EventDoc, NEW n \in 0..Capacity
    PROVE  /\ WithCount(c, n) \in EventDoc
           /\ WithCount(c, n).status = c.status
           /\ WithCount(c, n).signedUpCount = n
           /\ WithCount(c, n).version = c.version + 1
  BY DEF WithCount, EventDoc

LEMMA SignupUpdated ==
    ASSUME NEW c \in SignupDoc, NEW status \in SignupStatus
    PROVE  /\ WithStatus(c, status) \in SignupDoc
           /\ WithStatus(c, status).status = status
           /\ WithStatus(c, status).event = c.event
           /\ WithStatus(c, status).volunteer = c.volunteer
           /\ WithStatus(c, status).version = c.version + 1
  BY DEF WithStatus, SignupDoc

LEMMA CountedKeeps ==
    ASSUME IInv, NEW e \in Events, NEW n \in 0..Capacity,
           event[e].status # "ABSENT", Counted(e, n)
    PROVE  /\ event' \in [Events -> EventDoc]
           /\ \A x \in Events : event'[x] = IF x = e
                                THEN WithCount(event[e], n)
                                ELSE event[x]
           /\ EventsFormed'
           /\ \A x \in Events : event[x].status # "ABSENT" => event'[x].status # "ABSENT"
           /\ \A x \in Events : EventMoves(x)
           /\ event'[e] # event[e]
<1> DEFINE d == WithCount(event[e], n)
<1>1. event \in [Events -> EventDoc]
  BY DEF IInv, TypeOK
<1>2. event[e] \in EventDoc
  BY <1>1
<1>3. /\ d \in EventDoc
      /\ d.status = event[e].status
      /\ d.signedUpCount = n
      /\ d.version = event[e].version + 1
  BY <1>2, EventUpdated
<1>4. event[e].version \in Nat
  BY <1>2 DEF EventDoc
<1>5. event' = [event EXCEPT ![e] = d]
  BY DEF Counted
<1> HIDE DEF d
<1>6. event' \in [Events -> EventDoc] /\ \A x \in Events : event'[x] = IF x = e THEN d ELSE event[x]
  BY <1>1, <1>3, <1>5
<1>7. EventsFormed' /\ \A x \in Events : event[x].status # "ABSENT" => event'[x].status # "ABSENT"
  BY <1>3, <1>6 DEF IInv, Documents, EventsFormed
<1>8. \A x \in Events : EventMoves(x)
  BY <1>3, <1>4, <1>6 DEF EventMoves
<1>9. event'[e] # event[e]
  BY <1>3, <1>4, <1>6
<1> QED BY <1>6, <1>7, <1>8, <1>9 DEF d

LEMMA MarkedKeeps ==
    ASSUME IInv, NEW s \in Signups, NEW status \in SignupStatus,
           signup[s].status # "ABSENT", Marked(s, status),
           status = "PENDING" \/ status = "REJECTED" => signup[s].status = "PENDING",
           IsLive([status |-> status]) => IsLive(signup[s]),
           \A e \in Events : event[e].status # "ABSENT" => event'[e].status # "ABSENT"
    PROVE  /\ signup' \in [Signups -> SignupDoc]
           /\ SignupsFormed' /\ Numbered' /\ OneSeatEach'
           /\ \A e \in Events, v \in Volunteers : SeatMoves(e, v)
           /\ \A x \in Signups : SignupMoves(x)
<1> DEFINE d == WithStatus(signup[s], status)
<1>1. signup \in [Signups -> SignupDoc]
  BY DEF IInv, TypeOK
<1>2. signup[s] \in SignupDoc
  BY <1>1
<1>3. /\ d \in SignupDoc
      /\ d.status = status
      /\ d.event = signup[s].event
      /\ d.volunteer = signup[s].volunteer
      /\ d.version = signup[s].version + 1
  BY <1>2, SignupUpdated
<1>4. signup[s].version \in Nat /\ status # "ABSENT"
  BY <1>2 DEF SignupDoc, SignupStatus
<1>5. signup' = [signup EXCEPT ![s] = d]
  BY DEF Marked
<1> HIDE DEF d
<1>6. signup' \in [Signups -> SignupDoc]
        /\ \A x \in Signups : signup'[x] = IF x = s THEN d ELSE signup[x]
  BY <1>1, <1>3, <1>5
<1>7. IsLive(d) => IsLive(signup[s])
  BY <1>3 DEF IsLive
<1>8. /\ SignupsFormed' /\ Numbered' /\ OneSeatEach'
      /\ \A e \in Events, v \in Volunteers : SeatMoves(e, v)
  BY <1>3, <1>4, <1>5, <1>7, RosterKept
<1>9. ASSUME NEW x \in Signups PROVE SignupMoves(x)
  <2>1. CASE x # s
    BY <1>6, <2>1 DEF SignupMoves
  <2>2. CASE x = s
    <3>1. signup[s].status \in {"APPROVED", "WITHDRAWN"} => status \in {"APPROVED", "WITHDRAWN"}
      BY DEF SignupStatus
    <3> QED BY <1>3, <1>4, <1>6, <2>2, <3>1 DEF SignupMoves
  <2> QED BY <2>1, <2>2
<1> QED BY <1>6, <1>8, <1>9

\* The rest of a commit.
LEMMA FinishedKeeps ==
    ASSUME VolunteerAssumption, IInv, NEW w \in Workers, Finished(w),
           event' \in [Events -> EventDoc], signup' \in [Signups -> SignupDoc],
           EventsFormed', SignupsFormed', Numbered', OneSeatEach', SeatsCounted', Moves
    PROVE  IInv'
<1>1. TypeOK'
  BY IdleReady DEF Finished, IInv, TypeOK
<1>2. CertificateEarned'
  BY CertificatesKept DEF Finished
<1>3. \A x \in Workers : txn'[x] = txn[x] \/ txn'[x] = IdleTxn
  BY Requests DEF Finished
<1>4. Copies'
  BY <1>1, <1>3, CopiesKept DEF Finished
<1> QED BY <1>1, <1>2, <1>4 DEF IInv, Documents

LEMMA JoinsKeeps ==
    ASSUME VolunteerAssumption, IInv, NEW w \in Workers, Finished(w),
           NEW s, NEW e, NEW v, Joins(s, e, v)
    PROVE  IInv'
<1> DEFINE n == event[e].signedUpCount + 1
           d == [NoSignupDoc EXCEPT !.event = e, !.volunteer = v, !.status = "PENDING"]
<1>1. /\ s \in Signups /\ e \in Events /\ v \in Volunteers
      /\ event[e].status = "OPEN"
      /\ FindLive(e, v) = {}
  BY DEF Joins
<1>2. n \in 0..Capacity
  <2>1. event[e] \in EventDoc
    BY <1>1 DEF IInv, TypeOK
  <2> QED BY <2>1 DEF Joins, EventDoc, VolunteerAssumption
<1>3. /\ event' \in [Events -> EventDoc]
      /\ \A x \in Events : event'[x] = IF x = e
                           THEN WithCount(event[e], n)
                           ELSE event[x]
      /\ EventsFormed'
      /\ \A x \in Events : event[x].status # "ABSENT" => event'[x].status # "ABSENT"
      /\ \A x \in Events : EventMoves(x)
      /\ event'[e] # event[e]
  BY <1>1, <1>2, CountedKeeps DEF Joins
<1>4. /\ signup[s].status = "ABSENT"
      /\ s \notin LiveSignups(e)
      /\ \A x : LiveSignups(x)' = IF x = e THEN LiveSignups(x) \cup {s} ELSE LiveSignups(x)
  BY JoinsRoster
<1>5. /\ d \in SignupDoc
      /\ d.event = e /\ d.volunteer = v /\ d.status = "PENDING"
  BY <1>1 DEF SignupDoc, NoSignupDoc, SignupStatus
<1>6. signup' = [signup EXCEPT ![s] = d]
  BY DEF Joins
<1> HIDE DEF d
<1>7. signup' \in [Signups -> SignupDoc]
        /\ \A x \in Signups : signup'[x] = IF x = s THEN d ELSE signup[x]
  BY <1>1, <1>5, <1>6 DEF IInv, TypeOK
<1>8. SignupsFormed'
  BY <1>1, <1>3, <1>5, <1>7, SignupNames DEF IInv, Documents, SignupsFormed
<1>9. Numbered'
  <2>1. PICK k \in 0..MaxSignups : \A x \in Signups : signup[x].status # "ABSENT" <=> x <= k
    BY DEF IInv, Documents, Numbered
  <2>2. s = k + 1
    BY <2>1, NextIsNew DEF Joins
  <2>3. k + 1 \in 0..MaxSignups
    BY <1>1, <2>2 DEF Signups, VolunteerAssumption
  <2>4. \A x \in Signups : signup'[x].status # "ABSENT" <=> x <= k + 1
    BY <1>5, <1>7, <2>1, <2>2 DEF Signups
  <2> QED BY <2>3, <2>4 DEF Numbered
<1>10. OneSeatEach'
  <2> SUFFICES ASSUME NEW x \in Signups, NEW y \in Signups, SameSeat(x, y)' PROVE x = y
    BY DEF OneSeatEach
  <2>1. ASSUME NEW z \in Signups, z # s PROVE ~SameSeat(z, s)' /\ ~SameSeat(s, z)'
    <3>1. signup'[z] = signup[z] /\ signup'[s] = d
      BY <1>1, <1>7, <2>1
    <3>2. ~(IsLive(signup[z]) /\ signup[z].event = e /\ signup[z].volunteer = v)
      BY <1>1 DEF FindLive, SignupsOf, IsLive
    <3> QED BY <1>5, <3>1, <3>2 DEF SameSeat
  <2>2. CASE x # s /\ y # s
    <3>1. SameSeat(x, y)
      BY <1>7, <2>2 DEF SameSeat
    <3> QED BY <3>1 DEF IInv, Documents, OneSeatEach
  <2> QED BY <2>1, <2>2
<1>11. SeatsCounted'
  <2> SUFFICES ASSUME NEW x \in Events
               PROVE  event'[x].signedUpCount = Cardinality(LiveSignups(x)')
    BY DEF SeatsCounted
  <2>1. event[x].signedUpCount = Cardinality(LiveSignups(x)) /\ event[x] \in EventDoc
    BY DEF IInv, Documents, SeatsCounted, TypeOK
  <2>2. CASE x # e
    <3>1. LiveSignups(x)' = LiveSignups(x)
      BY <1>4, <2>2
    <3>2. event'[x] = event[x]
      BY <1>3, <2>2
    <3>3. Cardinality(LiveSignups(x)') = Cardinality(LiveSignups(x))
      BY <3>1, Zenon
    <3> QED BY <2>1, <3>2, <3>3
  <2>3. CASE x = e
    <3>1. LiveSignups(e)' = LiveSignups(e) \cup {s}
      BY <1>4
    <3>2. Cardinality(LiveSignups(e) \cup {s}) = Cardinality(LiveSignups(e)) + 1
      BY <1>4, LiveFinite, FS_AddElement
    <3>3. Cardinality(LiveSignups(e)') = Cardinality(LiveSignups(e)) + 1
      BY <3>1, <3>2, Zenon
    <3>4. event'[e].signedUpCount = event[e].signedUpCount + 1
      BY <1>3, <2>1, <2>3 DEF WithCount
    <3> QED BY <2>1, <2>3, <3>3, <3>4
  <2> QED BY <2>2, <2>3
<1>12. \A x \in Signups : SignupMoves(x)
  BY <1>4, <1>7 DEF SignupMoves
<1>13. ASSUME NEW x \in Events, NEW u \in Volunteers PROVE SeatMoves(x, u)
  <2> SUFFICES ASSUME event'[x] = event[x], FindLive(x, u) = {},
                      NEW z \in Signups, signup'[z].event = x, signup'[z].volunteer = u,
                      IsLive(signup'[z])
               PROVE  FALSE
    BY DEF SeatMoves, FindLive, SignupsOf, IsLive
  <2>1. x # e
    BY <1>3
  <2>2. z # s
    BY <1>5, <1>7, <2>1
  <2>3. signup'[z] = signup[z]
    BY <1>7, <2>2
  <2> QED BY <2>3 DEF FindLive, SignupsOf, IsLive
<1>14. Moves
  BY <1>3, <1>12, <1>13 DEF Moves
<1> QED BY <1>3, <1>7, <1>8, <1>9, <1>10, <1>11, <1>14, FinishedKeeps

LEMMA LeavesKeeps ==
    ASSUME VolunteerAssumption, IInv, NEW w \in Workers, Finished(w),
           NEW s, NEW status, Leaves(s, status)
    PROVE  IInv'
<1>0. PICK e : e = signup[s].event
  OBVIOUS
<1> DEFINE n == event[e].signedUpCount - 1
<1>1. s \in Signups /\ IsLive(signup[s]) /\ signup[s].status # "ABSENT"
  BY DEF Leaves, IsLive
<1>2. e \in Events /\ event[e].status # "ABSENT"
  BY <1>0, <1>1, SignupNames
<1>3. event[e] \in EventDoc
  BY <1>2 DEF IInv, TypeOK
<1>4. n \in 0..Capacity /\ event[e].signedUpCount > 0
  BY <1>0, <1>3 DEF Leaves, EventDoc, VolunteerAssumption
<1>5. /\ event' \in [Events -> EventDoc]
      /\ \A x \in Events : event'[x] = IF x = e
                           THEN WithCount(event[e], n)
                           ELSE event[x]
      /\ EventsFormed'
      /\ \A x \in Events : event[x].status # "ABSENT" => event'[x].status # "ABSENT"
      /\ \A x \in Events : EventMoves(x)
  BY <1>0, <1>2, <1>4, CountedKeeps DEF Leaves
<1>6. status \in SignupStatus /\ ~IsLive([status |-> status])
        /\ (status = "PENDING" \/ status = "REJECTED" => signup[s].status = "PENDING")
  BY DEF Leaves, SignupStatus, IsLive
<1>7. /\ signup' \in [Signups -> SignupDoc]
      /\ SignupsFormed' /\ Numbered' /\ OneSeatEach'
      /\ \A x \in Events, v \in Volunteers : SeatMoves(x, v)
      /\ \A x \in Signups : SignupMoves(x)
  BY <1>1, <1>5, <1>6, MarkedKeeps DEF Leaves
<1>8. s \in LiveSignups(e) /\ \A x : LiveSignups(x)' = LiveSignups(x) \ {s}
  BY <1>0, LeavesRoster
<1>9. SeatsCounted'
  <2> SUFFICES ASSUME NEW x \in Events
               PROVE  event'[x].signedUpCount = Cardinality(LiveSignups(x)')
    BY DEF SeatsCounted
  <2>1. event[x].signedUpCount = Cardinality(LiveSignups(x))
    BY DEF IInv, Documents, SeatsCounted
  <2>2. CASE x # e
    <3>1. LiveSignups(x)' = LiveSignups(x)
      BY <1>8, <2>2 DEF LiveSignups
    <3>2. event'[x] = event[x]
      BY <1>5, <2>2
    <3>3. Cardinality(LiveSignups(x)') = Cardinality(LiveSignups(x))
      BY <3>1, Zenon
    <3> QED BY <2>1, <3>2, <3>3
  <2>3. CASE x = e
    <3>1. LiveSignups(e)' = LiveSignups(e) \ {s}
      BY <1>8
    <3>2. Cardinality(LiveSignups(e) \ {s}) = Cardinality(LiveSignups(e)) - 1
      BY <1>8, LiveFinite, FS_RemoveElement
    <3>3. Cardinality(LiveSignups(e)') = Cardinality(LiveSignups(e)) - 1
      BY <3>1, <3>2, Zenon
    <3>4. event'[e].signedUpCount = event[e].signedUpCount - 1
      BY <1>3, <1>5, <2>3 DEF WithCount
    <3> QED BY <2>1, <2>3, <3>3, <3>4
  <2> QED BY <2>2, <2>3
<1>10. Moves
  BY <1>5, <1>7 DEF Moves
<1> QED BY <1>5, <1>7, <1>9, <1>10, FinishedKeeps

LEMMA StaysKeeps ==
    ASSUME VolunteerAssumption, IInv, NEW w \in Workers, Finished(w), NEW s, Stays(s)
    PROVE  IInv'
<1>1. s \in Signups /\ signup[s].status = "PENDING" /\ event' = event
  BY DEF Stays
<1>2. /\ signup' \in [Signups -> SignupDoc]
      /\ SignupsFormed' /\ Numbered' /\ OneSeatEach'
      /\ \A x \in Events, v \in Volunteers : SeatMoves(x, v)
      /\ \A x \in Signups : SignupMoves(x)
  BY <1>1, MarkedKeeps DEF Stays, SignupStatus, IsLive
<1>3. \A x : LiveSignups(x)' = LiveSignups(x)
  BY StaysRoster
<1>4. SeatsCounted'
  <2> SUFFICES ASSUME NEW x \in Events
               PROVE  event[x].signedUpCount = Cardinality(LiveSignups(x)')
    BY <1>1 DEF SeatsCounted
  <2>1. event[x].signedUpCount = Cardinality(LiveSignups(x))
    BY DEF IInv, Documents, SeatsCounted
  <2>2. Cardinality(LiveSignups(x)') = Cardinality(LiveSignups(x))
    BY <1>3, Zenon
  <2> QED BY <2>1, <2>2
<1>5. Moves
  BY <1>1, <1>2 DEF Moves, EventMoves
<1>6. EventsFormed' /\ event' \in [Events -> EventDoc]
  BY <1>1 DEF IInv, TypeOK, Documents, EventsFormed
<1> QED BY <1>2, <1>4, <1>5, <1>6, FinishedKeeps

\* A commit of request w: a seat taken, a seat given back, an approval or an
\* event called off.
LEMMA Cancelled ==
    ASSUME IInv, NEW w \in Workers, CommitCancel(w)
    PROVE  /\ txn[w].event \in Events
           /\ event[txn[w].event].status \in {"OPEN", "CLOSED"}
           /\ event[txn[w].event] \in EventDoc
           /\ event' = [event EXCEPT ![txn[w].event] =
                          [status |-> "CANCELLED",
                           signedUpCount |-> event[txn[w].event].signedUpCount,
                           version |-> event[txn[w].event].version + 1]]
<1>1. txn[w].seenEvent.status \in {"OPEN", "CLOSED"} /\ EventFresh(txn[w])
  BY Held DEF CommitCancel, At, Ready, Prepared, SaveEvent
<1>2. /\ txn[w].event \in Events
      /\ event[txn[w].event] \in EventDoc
      /\ txn[w].seenEvent = event[txn[w].event]
  BY <1>1, FreshEvent
<1> QED BY <1>1, <1>2 DEF CommitCancel, SaveEvent

LEMMA CancelKeeps ==
    ASSUME VolunteerAssumption, IInv, NEW w \in Workers, CommitCancel(w)
    PROVE  IInv'
<1>1. PICK e, d :
        /\ e \in Events
        /\ e = txn[w].event
        /\ d = [status |-> "CANCELLED", signedUpCount |-> event[e].signedUpCount,
                version |-> event[e].version + 1]
        /\ event[e] \in EventDoc
        /\ event' = [event EXCEPT ![e] = d]
  BY Cancelled
<1>2. d \in EventDoc /\ d.status = "CANCELLED" /\ d.signedUpCount = event[e].signedUpCount
        /\ d.version > event[e].version
  BY <1>1 DEF EventDoc, EventStatus
<1>3. txn' = [txn EXCEPT ![w] = IdleTxn] /\ UNCHANGED <<signup, clock, sweep, certified>>
  BY DEF CommitCancel, Done
<1>4. TypeOK'
  BY <1>1, <1>2, <1>3, IdleReady DEF IInv, TypeOK
<1>5. CertificateEarned'
  BY <1>3 DEF IInv, Documents, CertificateEarned, SignupsOf
<1>6. \A x \in Workers : txn'[x] = txn[x] \/ txn'[x] = IdleTxn
  BY <1>3, Requests
<1> QED BY <1>1, <1>2, <1>3, <1>4, <1>5, <1>6, EventSaved

\* A step that saves nothing and forgets copies, if any.
LEMMA NothingSaved ==
    ASSUME VolunteerAssumption, IInv, TypeOK', CertificateEarned', UNCHANGED <<event, signup>>,
           \A w \in Workers : txn'[w] = txn[w] \/ txn'[w] = IdleTxn,
           \A k \in Sweepers, e \in Events :
               sweep'[k][e] = sweep[k][e] \/ sweep'[k][e] = NoEventDoc
    PROVE  IInv'
<1>1. EventsFormed' /\ SignupsFormed' /\ Numbered' /\ OneSeatEach'
  BY DEF IInv, Documents, EventsFormed, SignupsFormed, Numbered, OneSeatEach, SameSeat
<1>2. SeatsCounted'
  BY DEF IInv, Documents, SeatsCounted, LiveSignups
<1>3. Moves
  BY DEF Moves, EventMoves, SignupMoves, SeatMoves, FindLive, SignupsOf
<1> QED BY <1>1, <1>2, <1>3, CopiesKept DEF IInv, Documents

LEMMA CertifyKeeps ==
    ASSUME VolunteerAssumption, IInv, NEW w \in Workers, Certify(w)
    PROVE  IInv'
<1> DEFINE t == txn[w]
<1>1. t.seenSignup.status = "APPROVED" /\ SignupCopy(t.signup, t.seenSignup)
  BY Held DEF Certify, At, Ready, Prepared
<1>2. /\ t.signup \in Signups
      /\ signup[t.signup].status \in {"APPROVED", "WITHDRAWN"}
      /\ t.seenSignup.event = signup[t.signup].event
      /\ t.seenSignup.volunteer = signup[t.signup].volunteer
  BY <1>1 DEF SignupCopy
<1>3. t.seenSignup.event \in Events /\ t.seenSignup.volunteer \in Volunteers
  BY <1>2, SignupNames
<1>4. PICK c : /\ c = [event |-> t.seenSignup.event, volunteer |-> t.seenSignup.volunteer]
               /\ certified' = certified \cup {c}
  BY DEF Certify
<1>5. c \in [event : Events, volunteer : Volunteers]
  BY <1>3, <1>4
<1>6. txn' = [txn EXCEPT ![w] = IdleTxn] /\ UNCHANGED <<event, signup, clock, sweep>>
  BY DEF Certify, Done
<1>7. TypeOK'
  BY <1>4, <1>5, <1>6, IdleReady DEF IInv, TypeOK
<1>8. CertificateEarned'
  <2> SUFFICES ASSUME NEW x \in certified'
               PROVE  /\ clock[x.event] = "ENDED"
                      /\ SignupsOf(x.event, x.volunteer, {"APPROVED", "WITHDRAWN"}) # {}
    BY <1>6 DEF CertificateEarned, SignupsOf
  <2>1. CASE x \in certified
    BY <2>1 DEF IInv, Documents, CertificateEarned
  <2>2. CASE x = c
    <3>1. clock[x.event] = "ENDED"
      BY <1>4, <2>2 DEF Certify
    <3>2. t.signup \in SignupsOf(x.event, x.volunteer, {"APPROVED", "WITHDRAWN"})
      BY <1>2, <1>4, <2>2 DEF SignupsOf
    <3> QED BY <3>1, <3>2
  <2> QED BY <1>4, <2>1, <2>2
<1>9. \A x \in Workers : txn'[x] = txn[x] \/ txn'[x] = IdleTxn
  BY <1>6, Requests
<1> QED BY <1>6, <1>7, <1>8, <1>9, NothingSaved

LEMMA CommitKeeps ==
    ASSUME VolunteerAssumption, IInv, NEW w \in Workers, CommitStep(w)
    PROVE  IInv'
<1>1. CASE CommitSignUp(w)
  BY <1>1, SignUpJoins, JoinsKeeps
<1>2. CASE CommitWithdraw(w)
  BY <1>2, WithdrawLeaves, LeavesKeeps
<1>3. CASE CommitReject(w)
  BY <1>3, RejectLeaves, LeavesKeeps
<1>4. CASE CommitApprove(w)
  BY <1>4, ApproveStays, StaysKeeps
<1>5. CASE CommitCancel(w)
  BY <1>5, CancelKeeps
<1>6. CASE Certify(w)
  BY <1>6, CertifyKeeps
<1> QED BY <1>1, <1>2, <1>3, <1>4, <1>5, <1>6 DEF CommitStep

-----------------------------------------------------------------------------
\* Events, the clock and the sweep

LEMMA PassKeeps ==
    ASSUME VolunteerAssumption, IInv, NEW e \in Events, Pass(e)
    PROVE  IInv'
<1>1. UNCHANGED <<event, signup, txn, sweep, certified>>
  BY DEF Pass
<1>2. TypeOK'
  BY DEF Pass, IInv, TypeOK, Clock
<1>3. \A x \in Events : clock[x] = "ENDED" => clock'[x] = "ENDED"
  BY DEF Pass, IInv, TypeOK
<1>4. \A c \in certified : c.event \in Events
  BY DEF IInv, TypeOK
<1>5. CertificateEarned'
  BY <1>1, <1>3, <1>4 DEF IInv, Documents, CertificateEarned, SignupsOf
<1> QED BY <1>1, <1>2, <1>5, NothingSaved

LEMMA CreateKeeps ==
    ASSUME VolunteerAssumption, IInv, NEW e \in Events, NEW now \in Clock, CreateEvent(e, now)
    PROVE  IInv'
<1> DEFINE d == [event[e] EXCEPT !.status = "OPEN"]
<1>1. /\ event' = [event EXCEPT ![e] = d]
      /\ clock' = [clock EXCEPT ![e] = now]
      /\ UNCHANGED <<signup, txn, sweep, certified>>
      /\ event[e].status = "ABSENT"
  BY DEF CreateEvent
<1>2. event[e] \in EventDoc
  BY DEF IInv, TypeOK
<1>3. d \in EventDoc /\ d.status = "OPEN" /\ d.signedUpCount = event[e].signedUpCount
  BY <1>2 DEF EventDoc, EventStatus
<1> HIDE DEF d
<1>4. TypeOK'
  BY <1>1, <1>3 DEF IInv, TypeOK
<1>5. CertificateEarned'
  <2> SUFFICES ASSUME NEW c \in certified
               PROVE  /\ clock'[c.event] = "ENDED"
                      /\ SignupsOf(c.event, c.volunteer, {"APPROVED", "WITHDRAWN"}) # {}
    BY <1>1 DEF CertificateEarned, SignupsOf
  <2>1. /\ clock[c.event] = "ENDED"
        /\ SignupsOf(c.event, c.volunteer, {"APPROVED", "WITHDRAWN"}) # {}
    BY DEF IInv, Documents, CertificateEarned
  <2>2. c.event # e
    <3>1. PICK s \in Signups : /\ signup[s].event = c.event
                               /\ signup[s].status # "ABSENT"
      BY <2>1 DEF SignupsOf
    <3> QED BY <1>1, <3>1, SignupNames
  <2>3. clock'[c.event] = clock[c.event]
    BY <1>1, <2>2 DEF IInv, TypeOK
  <2> QED BY <2>1, <2>3
<1> QED BY <1>1, <1>3, <1>4, <1>5, EventSaved

LEMMA SweptKeeps ==
    ASSUME VolunteerAssumption, IInv, NEW k \in Sweepers, SweepRead(k)
    PROVE  IInv'
<1>1. UNCHANGED <<event, signup, clock, txn, certified>>
  BY DEF SweepRead
<1>2. NoEventDoc \in EventDoc
  BY DEF NoEventDoc, EventDoc, VolunteerAssumption
<1>3. \A e \in Events : event[e] \in EventDoc
  BY DEF IInv, TypeOK
<1>4. TypeOK'
  BY <1>1, <1>2, <1>3 DEF SweepRead, IInv, TypeOK
<1>5. EventsFormed' /\ SignupsFormed' /\ Numbered' /\ OneSeatEach'
  BY <1>1 DEF IInv, Documents, EventsFormed, SignupsFormed, Numbered, OneSeatEach, SameSeat
<1>6. SeatsCounted' /\ CertificateEarned'
  BY <1>1 DEF IInv, Documents, SeatsCounted, LiveSignups, CertificateEarned, SignupsOf
<1>7. \A w \in Workers : Ready(txn[w])'
  BY <1>1 DEF IInv, Copies, Ready, EventCopy, SignupCopy, Prepared, Unseated, EventFresh,
              FindLive, SignupsOf
<1>8. ASSUME NEW x \in Sweepers, NEW e \in Events PROVE Listed(e, sweep[x][e])'
  <2>1. CASE x # k
    <3>1. sweep'[x] = sweep[x]
      BY <2>1 DEF SweepRead, IInv, TypeOK
    <3> QED BY <1>1, <3>1 DEF IInv, Copies, Listed, EventCopy
  <2>2. CASE x = k
    <3>1. sweep'[x][e] = IF IsExpiredOpen(e) THEN event[e] ELSE NoEventDoc
      BY <2>2 DEF SweepRead, IInv, TypeOK
    <3> QED BY <1>1, <1>3, <3>1 DEF Listed, EventCopy, IsExpiredOpen, EventDoc
  <2> QED BY <2>1, <2>2
<1> QED BY <1>4, <1>5, <1>6, <1>7, <1>8 DEF IInv, Documents, Copies

\* A sweep saves the document with the copy's fields, when it is the document.
LEMMA Closed ==
    ASSUME IInv, NEW k \in Sweepers, NEW e \in Events, SweepSave(k, e)
    PROVE  \/ event' = event
           \/ /\ event[e].status = "OPEN"
              /\ event' = [event EXCEPT ![e] =
                             [status |-> "CLOSED", signedUpCount |-> event[e].signedUpCount,
                              version |-> event[e].version + 1]]
<1>1. PICK c : c = sweep[k][e]
  OBVIOUS
<1>2. c \in EventDoc /\ c.status = "OPEN" /\ EventCopy(e, c)
  BY <1>1 DEF SweepSave, IInv, TypeOK, Copies, Listed
<1>3. CASE c.version = event[e].version
  <2>1. c = event[e]
    BY <1>2, <1>3 DEF EventCopy
  <2>2. event' = [event EXCEPT ![e] = [c EXCEPT !.status = "CLOSED", !.version = c.version + 1]]
    BY <1>1, <1>3 DEF SweepSave, CloseIfFresh
  <2>3. PICK d : d = [c EXCEPT !.status = "CLOSED", !.version = c.version + 1]
    OBVIOUS
  <2>4. d = [status |-> "CLOSED", signedUpCount |-> c.signedUpCount, version |-> c.version + 1]
    BY <1>2, <2>3 DEF EventDoc
  <2>5. event' = [event EXCEPT ![e] = d]
    BY <2>2, <2>3, Zenon
  <2> QED BY <1>2, <2>1, <2>4, <2>5
<1>4. CASE c.version # event[e].version
  BY <1>1, <1>4 DEF SweepSave, CloseIfFresh
<1> QED BY <1>3, <1>4

LEMMA SweepKeeps ==
    ASSUME VolunteerAssumption, IInv, NEW k \in Sweepers, SweepStep(k)
    PROVE  IInv'
<1>1. NoEventDoc \in EventDoc
  BY DEF NoEventDoc, EventDoc, VolunteerAssumption
<1>2. ASSUME NEW e \in Events, SweepSave(k, e) PROVE IInv'
  <2>1. /\ sweep' = [sweep EXCEPT ![k][e] = NoEventDoc]
        /\ UNCHANGED <<signup, clock, txn, certified>>
    BY <1>2 DEF SweepSave
  <2>2. \A x \in Sweepers, y \in Events :
          sweep'[x][y] = sweep[x][y] \/ sweep'[x][y] = NoEventDoc
    BY <2>1 DEF IInv, TypeOK
  <2>3. sweep' \in [Sweepers -> [Events -> EventDoc]]
    BY <1>1, <2>1 DEF IInv, TypeOK
  <2>4. CertificateEarned'
    BY <2>1 DEF IInv, Documents, CertificateEarned, SignupsOf
  <2>5. CASE event' = event
    <3>1. TypeOK'
      BY <2>1, <2>3, <2>5 DEF IInv, TypeOK
    <3> QED BY <2>1, <2>2, <2>4, <2>5, <3>1, NothingSaved
  <2>6. CASE event' # event
    <3>1. PICK d : /\ d = [status |-> "CLOSED", signedUpCount |-> event[e].signedUpCount,
                           version |-> event[e].version + 1]
                   /\ event' = [event EXCEPT ![e] = d]
      BY <1>2, <2>6, Closed
    <3>2. event[e] \in EventDoc
      BY DEF IInv, TypeOK
    <3>3. d \in EventDoc /\ d.status = "CLOSED" /\ d.signedUpCount = event[e].signedUpCount
            /\ d.version > event[e].version
      BY <3>1, <3>2 DEF EventDoc, EventStatus
    <3>4. TypeOK'
      BY <2>1, <2>3, <3>1, <3>3 DEF IInv, TypeOK
    <3> QED BY <2>1, <2>2, <2>4, <3>1, <3>3, <3>4, EventSaved
  <2> QED BY <2>5, <2>6
<1>3. CASE SweepCrash(k)
  <2>1. /\ sweep' = [sweep EXCEPT ![k] = [e \in Events |-> NoEventDoc]]
        /\ UNCHANGED <<event, signup, clock, txn, certified>>
    BY <1>3 DEF SweepCrash
  <2>2. \A x \in Sweepers, y \in Events :
          sweep'[x][y] = sweep[x][y] \/ sweep'[x][y] = NoEventDoc
    BY <2>1 DEF IInv, TypeOK
  <2>3. TypeOK'
    BY <1>1, <2>1 DEF IInv, TypeOK
  <2>4. CertificateEarned'
    BY <2>1 DEF IInv, Documents, CertificateEarned, SignupsOf
  <2> QED BY <2>1, <2>2, <2>3, <2>4, NothingSaved
<1> QED BY <1>2, <1>3, SweptKeeps DEF SweepStep

-----------------------------------------------------------------------------
\* The theorems

LEMMA StepKeepsIInv == ASSUME VolunteerAssumption, IInv, [Next]_vars PROVE IInv'
<1>1. CASE UNCHANGED vars
  <2>1. TypeOK' /\ CertificateEarned'
    BY <1>1 DEF vars, IInv, TypeOK, Documents, CertificateEarned, SignupsOf
  <2> QED BY <1>1, <2>1, NothingSaved DEF vars
<1>2. ASSUME NEW w \in Workers, BeginStep(w) \/ ReadStep(w) \/ CommitStep(w) \/ Abort(w)
      PROVE  IInv'
  BY <1>2, BeginKeeps, ReadKeeps, CommitKeeps, AbortKeeps
<1> QED BY <1>1, <1>2, PassKeeps, CreateKeeps, SweepKeeps DEF Next

\* Whatever the number of events, members and requests that overlap, the
\* documents and the copies requests hold stay as IInv says.
THEOREM InvariantHolds == ASSUME VolunteerAssumption PROVE Spec => []IInv
<1>1. Init => IInv
  BY InitIInv
<1>2. IInv /\ [Next]_vars => IInv'
  BY StepKeepsIInv
<1> QED BY <1>1, <1>2, PTL DEF Spec

\* The count on an event is never out of step with its roster.
THEOREM CountMatchesRoster == ASSUME VolunteerAssumption PROVE Spec => []SeatsCounted
<1>1. IInv => SeatsCounted
  BY DEF IInv, Documents
<1> QED BY <1>1, InvariantHolds, PTL

\* A member never has two live sign-ups for an event.
THEOREM OneLive == ASSUME VolunteerAssumption PROVE Spec => []OneLiveSignup
<1>1. ASSUME IInv PROVE OneLiveSignup
  <2> SUFFICES ASSUME NEW e \in Events, NEW v \in Volunteers
               PROVE  Cardinality(FindLive(e, v)) <= 1
    BY DEF OneLiveSignup
  <2>1. CASE FindLive(e, v) = {}
    <3>1. Cardinality(FindLive(e, v)) = 0
      BY <2>1, FS_EmptySet
    <3> QED BY <3>1
  <2>2. CASE FindLive(e, v) # {}
    <3>1. PICK s : s \in FindLive(e, v)
      BY <2>2
    <3>2. \A x \in FindLive(e, v) : x = s
      BY <1>1, <3>1 DEF FindLive, SignupsOf, IInv, Documents, OneSeatEach, SameSeat, IsLive
    <3>3. FindLive(e, v) = {s}
      BY <3>1, <3>2
    <3>4. Cardinality(FindLive(e, v)) = 1
      BY <3>3, FS_Singleton
    <3> QED BY <3>4
  <2> QED BY <2>1, <2>2
<1> QED BY <1>1, InvariantHolds, PTL

\* A certificate only names participations in events that ended, of members
\* who were approved.
THEOREM CertificatesEarned == ASSUME VolunteerAssumption PROVE Spec => []CertificateEarned
<1>1. IInv => CertificateEarned
  BY DEF IInv, Documents
<1> QED BY <1>1, InvariantHolds, PTL

-----------------------------------------------------------------------------
\* Every step is one of the roster's, or none

\* No more members are seated than the event counts.
LEMMA SeatedSize ==
    ASSUME VolunteerAssumption, IInv, NEW e \in Events
    PROVE  Cardinality(Seated[e]) \in Nat
             /\ Cardinality(Seated[e]) <= event[e].signedUpCount
<1> DEFINE L == LiveSignups(e)
           f == [s \in L |-> signup[s].volunteer]
<1>1. Seated[e] = {signup[s].volunteer : s \in L}
  BY DEF Seated
<1>2. f \in Surjection(L, {signup[s].volunteer : s \in L})
  BY DEF Surjection
<1>3. IsFiniteSet(L)
  BY LiveFinite
<1> HIDE DEF f, L
<1>4. /\ IsFiniteSet({signup[s].volunteer : s \in L})
      /\ Cardinality({signup[s].volunteer : s \in L}) <= Cardinality(L)
  BY <1>2, <1>3, FS_Surjection
<1>5. Cardinality({signup[s].volunteer : s \in L}) \in Nat
  BY <1>4, FS_CardinalityType
<1>6. Cardinality(L) = event[e].signedUpCount
  BY DEF L, IInv, Documents, SeatsCounted
<1> QED BY <1>1, <1>4, <1>5, <1>6

\* What a save of one event does to the states of all.
LEMMA StatusMoves ==
    ASSUME IInv, NEW e \in Events, NEW d, event' = [event EXCEPT ![e] = d]
    PROVE  Status' = [Status EXCEPT ![e] = d.status]
  BY DEF Status, IInv, TypeOK

LEMMA RosterStays ==
    ASSUME UNCHANGED signup
    PROVE  UNCHANGED Seated
  BY DEF Seated, LiveSignups

LEMMA JoinsBooks ==
    ASSUME VolunteerAssumption, IInv, NEW s, NEW e \in Events, NEW v \in Volunteers,
           Joins(s, e, v)
    PROVE  R!Book(e, v)
<1> DEFINE n == event[e].signedUpCount + 1
<1>1. event[e] \in EventDoc
  BY DEF IInv, TypeOK
<1>2. event' = [event EXCEPT ![e] = WithCount(event[e], n)]
  BY DEF Joins, Counted
<1>3. WithCount(event[e], n).status = event[e].status
  BY DEF WithCount
<1>4. Status' = Status
  BY <1>2, <1>3, StatusMoves DEF Status
<1>5. Status[e] = "OPEN"
  BY DEF Joins, Status
<1>6. v \notin Seated[e]
  <2> SUFFICES ASSUME v \in Seated[e] PROVE FALSE
    OBVIOUS
  <2>1. PICK x \in LiveSignups(e) : signup[x].volunteer = v
    BY DEF Seated
  <2>2. x \in FindLive(e, v)
    BY <2>1 DEF LiveSignups, FindLive, SignupsOf, IsLive
  <2> QED BY <2>2 DEF Joins
<1>7. Cardinality(Seated[e]) < Capacity
  BY <1>1, SeatedSize DEF Joins, EventDoc, VolunteerAssumption
<1>8. /\ s \notin LiveSignups(e)
      /\ signup[s].status = "ABSENT"
      /\ \A x : LiveSignups(x)' = IF x = e THEN LiveSignups(x) \cup {s} ELSE LiveSignups(x)
  BY JoinsRoster
<1>9. \A x \in Signups : x # s => signup'[x] = signup[x]
  BY DEF Joins, IInv, TypeOK
<1>10. signup'[s].volunteer = v
  BY DEF Joins, NoSignupDoc, IInv, TypeOK
<1>11. Seated' = [Seated EXCEPT ![e] = @ \cup {v}]
  <2>1. ASSUME NEW x \in Events
        PROVE  {signup'[z].volunteer : z \in LiveSignups(x)'}
                 = IF x = e THEN {signup[z].volunteer : z \in LiveSignups(x)} \cup {v}
                   ELSE {signup[z].volunteer : z \in LiveSignups(x)}
    <3>1. \A z \in LiveSignups(x) : signup'[z] = signup[z]
      BY <1>8, <1>9 DEF LiveSignups, IsLive
    <3>2. CASE x = e
      <4>1. LiveSignups(x)' = LiveSignups(x) \cup {s}
        BY <1>8, <3>2
      <4> QED BY <1>10, <3>1, <3>2, <4>1
    <3>3. CASE x # e
      <4>1. LiveSignups(x)' = LiveSignups(x)
        BY <1>8, <3>3
      <4> QED BY <3>1, <3>3, <4>1
    <3> QED BY <3>2, <3>3
  <2> QED BY <2>1 DEF Seated
<1>12. R!Cardinality(Seated[e]) = Cardinality(Seated[e])
  BY Zenon DEF R!Cardinality, Cardinality
<1> QED BY <1>4, <1>5, <1>6, <1>7, <1>11, <1>12 DEF R!Book

LEMMA LeavesLeave ==
    ASSUME VolunteerAssumption, IInv, NEW s, NEW status, Leaves(s, status)
    PROVE  \E e \in Events, v \in Volunteers : R!Leave(e, v)
<1>1. PICK e, v : e = signup[s].event /\ v = signup[s].volunteer
  OBVIOUS
<1>2. s \in Signups /\ IsLive(signup[s])
  BY DEF Leaves
<1>3. e \in Events /\ v \in Volunteers
  BY <1>1, <1>2, SignupNames DEF IsLive
<1>4. s \in LiveSignups(e) /\ \A x : LiveSignups(x)' = LiveSignups(x) \ {s}
  BY <1>1, LeavesRoster
<1>5. v \in Seated[e]
  BY <1>1, <1>3, <1>4 DEF Seated
<1>6. Status' = Status
  <2>1. PICK n : event' = [event EXCEPT ![e] = WithCount(event[e], n)]
    BY <1>1 DEF Leaves, Counted
  <2>2. WithCount(event[e], n).status = event[e].status
    BY DEF WithCount
  <2> QED BY <1>3, <2>1, <2>2, StatusMoves DEF Status
<1>7. \A x \in Signups : x # s => signup'[x] = signup[x]
  BY DEF Leaves, Marked, IInv, TypeOK
<1>8. Seated' = [Seated EXCEPT ![e] = @ \ {v}]
  <2>1. ASSUME NEW x \in Events
        PROVE  {signup'[z].volunteer : z \in LiveSignups(x)'}
                 = IF x = e THEN {signup[z].volunteer : z \in LiveSignups(x)} \ {v}
                   ELSE {signup[z].volunteer : z \in LiveSignups(x)}
    <3>1. \A z \in LiveSignups(x) \ {s} : signup'[z] = signup[z]
      BY <1>7 DEF LiveSignups
    <3>2. CASE x = e
      <4>1. \A z \in LiveSignups(x) \ {s} : signup[z].volunteer # v
        BY <1>1, <1>2, <3>2 DEF LiveSignups, IInv, Documents, OneSeatEach, SameSeat
      <4> QED BY <1>1, <1>4, <3>1, <3>2, <4>1
    <3>3. CASE x # e
      <4>1. LiveSignups(x) \ {s} = LiveSignups(x)
        BY <1>1, <3>3 DEF LiveSignups
      <4> QED BY <1>4, <3>1, <3>3, <4>1
    <3> QED BY <3>2, <3>3
  <2> QED BY <2>1 DEF Seated
<1> QED BY <1>3, <1>5, <1>6, <1>8 DEF R!Leave

LEMMA StaysStutters ==
    ASSUME IInv, NEW s, Stays(s)
    PROVE  UNCHANGED <<Status, Seated>>
<1>1. \A x : LiveSignups(x)' = LiveSignups(x)
  BY StaysRoster
<1>2. signup'[s].volunteer = signup[s].volunteer
        /\ \A x \in Signups : x # s => signup'[x] = signup[x]
  BY DEF Stays, Marked, WithStatus, IInv, TypeOK
<1>3. \A x \in Events :
        {signup'[z].volunteer : z \in LiveSignups(x)'} = {signup[z].volunteer : z \in LiveSignups(x)}
  BY <1>1, <1>2 DEF LiveSignups
<1>4. Seated' = Seated
  BY <1>3 DEF Seated
<1> QED BY <1>4 DEF Stays, Status

LEMMA InitMaps == ASSUME Init PROVE R!Init
<1>1. \A e \in Events : LiveSignups(e) = {}
  BY DEF Init, LiveSignups, IsLive, NoSignupDoc
<1>2. Seated = [e \in Events |-> {}]
  BY <1>1 DEF Seated
<1>3. Status = [e \in Events |-> "ABSENT"]
  BY DEF Init, Status, NoEventDoc
<1> QED BY <1>2, <1>3 DEF R!Init

LEMMA StepMaps ==
    ASSUME VolunteerAssumption, IInv, [Next]_vars
    PROVE  [R!Next]_(R!vars)
<1>1. CASE UNCHANGED <<event, signup>>
  BY <1>1, RosterStays DEF Status, R!vars
<1>2. ASSUME NEW e \in Events, NEW now \in Clock, CreateEvent(e, now) PROVE R!Next
  <2>1. PICK d : /\ d = [event[e] EXCEPT !.status = "OPEN"]
                 /\ event' = [event EXCEPT ![e] = d]
    BY <1>2 DEF CreateEvent
  <2>2. d.status = "OPEN" /\ Status[e] = "ABSENT"
    BY <1>2, <2>1 DEF CreateEvent, IInv, TypeOK, EventDoc, Status
  <2>3. Status' = [Status EXCEPT ![e] = "OPEN"]
    BY <2>1, <2>2, StatusMoves
  <2>4. UNCHANGED Seated
    BY <1>2, RosterStays DEF CreateEvent
  <2>5. R!Move(e, {"ABSENT"}, "OPEN")
    BY <2>2, <2>3, <2>4 DEF R!Move
  <2> QED BY <2>5 DEF R!Next
<1>3. ASSUME NEW w \in Workers, CommitStep(w) PROVE [R!Next]_(R!vars)
  <2>1. CASE CommitSignUp(w)
    <3>1. PICK s, e, v : Joins(s, e, v)
      BY <2>1, SignUpJoins
    <3>2. e \in Events /\ v \in Volunteers
      BY <3>1 DEF Joins
    <3>3. R!Book(e, v)
      BY <3>1, <3>2, JoinsBooks
    <3> QED BY <3>2, <3>3 DEF R!Next
  <2>2. CASE CommitWithdraw(w)
    BY <2>2, WithdrawLeaves, LeavesLeave DEF R!Next
  <2>3. CASE CommitReject(w)
    BY <2>3, RejectLeaves, LeavesLeave DEF R!Next
  <2>4. CASE CommitApprove(w)
    BY <2>4, ApproveStays, StaysStutters DEF R!vars
  <2>5. CASE CommitCancel(w)
    <3>1. PICK e : e = txn[w].event
      OBVIOUS
    <3>2. PICK d : d = [status |-> "CANCELLED", signedUpCount |-> event[e].signedUpCount,
                        version |-> event[e].version + 1]
      OBVIOUS
    <3>3. /\ e \in Events
          /\ event[e].status \in {"OPEN", "CLOSED"}
          /\ event' = [event EXCEPT ![e] = d]
      BY <2>5, <3>1, <3>2, Cancelled
    <3>4. Status[e] \in {"OPEN", "CLOSED"}
      BY <3>3 DEF Status
    <3>5. d.status = "CANCELLED"
      BY <3>2
    <3>6. Status' = [Status EXCEPT ![e] = "CANCELLED"]
      BY <3>3, <3>5, StatusMoves
    <3>7. UNCHANGED Seated
      BY <2>5, RosterStays DEF CommitCancel
    <3>8. R!Move(e, {"OPEN", "CLOSED"}, "CANCELLED")
      BY <3>4, <3>6, <3>7 DEF R!Move
    <3> QED BY <3>3, <3>8 DEF R!Next
  <2>6. CASE Certify(w)
    BY <1>1, <2>6 DEF Certify
  <2> QED BY <1>3, <2>1, <2>2, <2>3, <2>4, <2>5, <2>6 DEF CommitStep
<1>4. ASSUME NEW k \in Sweepers, NEW e \in Events, SweepSave(k, e) PROVE [R!Next]_(R!vars)
  <2>1. UNCHANGED signup
    BY <1>4 DEF SweepSave
  <2>2. CASE event' = event
    BY <1>1, <2>1, <2>2
  <2>3. CASE event' # event
    <3>1. PICK d : /\ event[e].status = "OPEN"
                   /\ d.status = "CLOSED"
                   /\ event' = [event EXCEPT ![e] = d]
      BY <1>4, <2>3, Closed
    <3>2. Status[e] = "OPEN" /\ Status' = [Status EXCEPT ![e] = "CLOSED"]
      BY <3>1, StatusMoves DEF Status
    <3>3. R!Move(e, {"OPEN"}, "CLOSED")
      BY <2>1, <3>2, RosterStays DEF R!Move
    <3> QED BY <3>3 DEF R!Next
  <2> QED BY <2>2, <2>3
<1>5. ASSUME NEW w \in Workers, BeginStep(w) \/ ReadStep(w) \/ Abort(w)
      PROVE  UNCHANGED <<event, signup>>
  BY <1>5 DEF BeginStep, BeginSignUp, BeginOnSignup, BeginCancel, BeginCertify, Begin,
              ReadStep, CheckLive, ReadEvent, Abort
<1>6. ASSUME NEW k \in Sweepers, SweepRead(k) \/ SweepCrash(k)
      PROVE  UNCHANGED <<event, signup>>
  BY <1>6 DEF SweepRead, SweepCrash
<1>7. ASSUME NEW e \in Events, Pass(e) PROVE UNCHANGED <<event, signup>>
  BY <1>7 DEF Pass
<1> QED BY <1>1, <1>2, <1>3, <1>4, <1>5, <1>6, <1>7 DEF Next, SweepStep, vars

\* Every behaviour of the services is a behaviour of the roster: a seat is given
\* once, while the event is open and has room, and no save of an older copy
\* opens an event again.
THEOREM ImplementsRoster == ASSUME VolunteerAssumption PROVE Spec => RosterSpec
<1>1. Init => R!Init
  BY InitMaps
<1>2. IInv /\ [Next]_vars => [R!Next]_(R!vars)
  BY StepMaps
<1> QED BY <1>1, <1>2, InvariantHolds, PTL DEF Spec, RosterSpec, R!Spec
=============================================================================
