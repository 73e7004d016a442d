------------------------------ MODULE Placement ------------------------------
(***************************************************************************)
(* How an animal is placed: adoption and foster applications, the approval *)
(* engine that decides them, and the animal that is held meanwhile.        *)
(*                                                                         *)
(* Every use-case runs in a Mongo transaction, but its reads do not use    *)
(* the session: each findById returns the state committed when it runs.    *)
(* Only the writes are in the transaction, and each save is guarded by the *)
(* version its aggregate was read at.  A use-case is therefore several     *)
(* steps here: one per read, that leaves a copy of the document in the     *)
(* worker's txn, and one commit that writes from the copies if every       *)
(* document it saves still has the version that was read.  A conflict, a   *)
(* domain error, a crash or the driver's retry is Abort: nothing is        *)
(* written, and the use-case may begin again from its first read.          *)
(*                                                                         *)
(* A definition named after another with a slip in it (AnimalFresh and     *)
(* AnimalFreshNeverChecked) is that definition with a plausible bug: the   *)
(* specification does not use it; put in the other's place it must break   *)
(* the property it is listed with.                                         *)
(***************************************************************************)
EXTENDS Integers

CONSTANTS
    Animals,      \* animals of one verified shelter
    Apps,         \* identities of adoption and foster applications
    Members,      \* user accounts
    Active,       \* those whose account is active
    Staff,        \* those with a role at the shelter
    Operators,    \* those who are platform administrators
    Workers,      \* requests being served at the same time
    NoAnimal, NoApp, NoMember,
    MaxVersion    \* bound: saves of one animal

ASSUME PlacementAssumption ==
    /\ Active \subseteq Members
    /\ Staff \subseteq Members
    /\ Operators \subseteq Members
    /\ NoAnimal \notin Animals
    /\ NoApp \notin Apps
    /\ NoMember \notin Members
    /\ MaxVersion \in Nat

VARIABLES
    animal,       \* the animals collection
    app,          \* the adoption and the foster applications
    approval,     \* approval[i]: the request whose subjectRef is application i
    rows,         \* rows[i][t]: insert-only rows about application i
    txn           \* txn[w]: what worker w is doing and the copies it has read

vars == <<animal, app, approval, rows, txn>>

-----------------------------------------------------------------------------
\* Documents

Kinds == {"ADOPTION", "FOSTER"}

AnimalStatus == {"AVAILABLE", "RESERVED", "FOSTERED", "ADOPTED", "RETURNED"}

AppStatus == {"PENDING", "APPROVED", "REJECTED", "RETURNED"}

\* A foster's endedAt and endReason in one field.
Ended == {"NO", "TERMINATED", "CONVERTED"}

ApprovalStatus == {"PENDING", "APPROVED", "REJECTED"}

\* The rows a handler inserts beside its saves: the engine's action trail,
\* the outbox events, and the notifications (one per recipient list).
RowTypes == {"SUBMIT_ACTION", "DECIDE_ACTION",
             "APPROVED_EVENT", "TERMINATED_EVENT",
             "APPLIED_NOTICE", "DECIDED_NOTICE", "TERMINATED_NOTICE"}

NoAnimalDoc == [status |-> "ABSENT", eligible |-> {}, blinded |-> "NO",
                version |-> 0]

NoAppDoc == [kind |-> "NONE", animal |-> NoAnimal, applicant |-> NoMember,
             status |-> "ABSENT", ended |-> "NO", version |-> 0]

NoApprovalDoc == [animal |-> NoAnimal, status |-> "ABSENT", version |-> 0]

IdleTxn == [op |-> "IDLE", step |-> "none", arg |-> "none",
            actor |-> NoMember, app |-> NoApp, animal |-> NoAnimal,
            seenAnimal |-> NoAnimalDoc, seenApp |-> NoAppDoc,
            seenApproval |-> NoApprovalDoc]

Init ==
    /\ animal = [a \in Animals |-> NoAnimalDoc]
    /\ app = [i \in Apps |-> NoAppDoc]
    /\ approval = [i \in Apps |-> NoApprovalDoc]
    /\ rows = [i \in Apps |-> [t \in RowTypes |-> 0]]
    /\ txn = [w \in Workers |-> IdleTxn]

-----------------------------------------------------------------------------
\* Domain rules

\* The animal's transitions: the statuses each one starts from, and its result.
MoveFrom(m) ==
    CASE m = "reserve"      -> {"AVAILABLE"}
      [] m = "release"      -> {"RESERVED"}
      [] m = "markAdopted"  -> {"RESERVED", "FOSTERED"}
      [] m = "markFostered" -> {"RESERVED"}
      [] m = "endFoster"    -> {"FOSTERED"}
      [] m = "markReturned" -> {"ADOPTED"}
      [] m = "relist"       -> {"RETURNED"}

MoveTo(m) ==
    CASE m = "reserve"      -> "RESERVED"
      [] m = "release"      -> "AVAILABLE"
      [] m = "markAdopted"  -> "ADOPTED"
      [] m = "markFostered" -> "FOSTERED"
      [] m = "endFoster"    -> "AVAILABLE"
      [] m = "markReturned" -> "RETURNED"
      [] m = "relist"       -> "AVAILABLE"

AcceptsApplicationFor(doc, kind) ==
    /\ doc.status = "AVAILABLE"
    /\ kind \in doc.eligible

IsActiveFoster(doc) ==
    /\ doc.kind = "FOSTER"
    /\ doc.status = "APPROVED"
    /\ doc.ended = "NO"

CanManageShelter(u) == u \in Staff \cup Operators

-----------------------------------------------------------------------------
\* Saves: a commit writes the copy's fields back, if the copy is current.

AnimalFreshNeverChecked(t) == TRUE

AnimalFresh(t) == t.seenAnimal.version = animal[t.animal].version

AppFresh(t) == t.seenApp.version = app[t.app].version

ApprovalFresh(t) == t.seenApproval.version = approval[t.app].version

SaveAnimalSameVersion(t, status, blinded) ==
    /\ AnimalFresh(t)
    /\ animal[t.animal].version < MaxVersion
    /\ animal' = [animal EXCEPT ![t.animal] =
                    [t.seenAnimal EXCEPT !.status = status, !.blinded = blinded]]

\* The patch names every mutable field, so it carries the copy's status AND
\* its blinded flag; only the version is taken from the stored document.
SaveAnimal(t, status, blinded) ==
    /\ AnimalFresh(t)
    /\ animal[t.animal].version < MaxVersion
    /\ animal' = [animal EXCEPT ![t.animal] =
                    [t.seenAnimal EXCEPT !.status = status,
                                         !.blinded = blinded,
                                         !.version = animal[t.animal].version + 1]]

MoveAnimalFromAnywhere(t, m) == SaveAnimal(t, MoveTo(m), t.seenAnimal.blinded)

MoveAnimal(t, m) ==
    /\ t.seenAnimal.status \in MoveFrom(m)
    /\ SaveAnimal(t, MoveTo(m), t.seenAnimal.blinded)

SavedAppSwapped(t, status, ended) ==
    [t.seenApp EXCEPT !.status = ended,
                      !.ended = status,
                      !.version = app[t.app].version + 1]

\* The application as a save of its copy leaves it.
SavedApp(t, status, ended) ==
    [t.seenApp EXCEPT !.status = status,
                      !.ended = ended,
                      !.version = app[t.app].version + 1]

SaveApprovalForgotten(t, status) ==
    /\ ApprovalFresh(t)
    /\ t.seenApproval.status = "PENDING"
    /\ UNCHANGED approval

SaveApproval(t, status) ==
    /\ ApprovalFresh(t)
    /\ t.seenApproval.status = "PENDING"
    /\ approval' = [approval EXCEPT ![t.app] =
                      [t.seenApproval EXCEPT !.status = status,
                                             !.version = approval[t.app].version + 1]]

Insert(i, types) ==
    rows' = [rows EXCEPT ![i] =
               [r \in RowTypes |-> IF r \in types THEN rows[i][r] + 1
                                                  ELSE rows[i][r]]]

Done(w) == txn' = [txn EXCEPT ![w] = IdleTxn]

AtCommit(w, op) ==
    /\ txn[w].op = op
    /\ txn[w].step = "commit"

-----------------------------------------------------------------------------
\* Reads.  A use-case begins with its first read; the later ones are shared.

Begin(w, t) ==
    /\ txn[w] = IdleTxn
    /\ txn' = [txn EXCEPT ![w] = t]
    /\ UNCHANGED <<animal, app, approval, rows>>

\* Both submit services: the animal first, then the applicant (Authorize).
BeginSubmit(w, kind, a, u) ==
    /\ AcceptsApplicationFor(animal[a], kind)
    /\ Begin(w, [IdleTxn EXCEPT !.op = "SUBMIT", !.step = "actor", !.arg = kind,
                                !.actor = u, !.animal = a,
                                !.seenAnimal = animal[a]])

\* The engine loads the request; the callback loads the rest.
BeginDecide(w, decision, i, u) ==
    /\ approval[i].status # "ABSENT"
    /\ Begin(w, [IdleTxn EXCEPT !.op = "DECIDE", !.step = "actor", !.arg = decision,
                                !.actor = u, !.app = i,
                                !.seenApproval = approval[i]])

\* terminate-foster and convert-foster-to-adoption.
BeginFosterEnd(w, op, i, u) ==
    /\ op \in {"TERMINATE", "CONVERT"}
    /\ IsActiveFoster(app[i])
    /\ Begin(w, [IdleTxn EXCEPT !.op = op, !.step = "actor", !.actor = u,
                                !.app = i, !.seenApp = app[i]])

BeginReturn(w, i, u) ==
    /\ app[i].kind = "ADOPTION"
    /\ Begin(w, [IdleTxn EXCEPT !.op = "RETURN", !.step = "actor", !.actor = u,
                                !.app = i, !.seenApp = app[i]])

\* relist-animal and update-animal-profile.
BeginAnimalEdit(w, op, a, u) ==
    /\ op \in {"RELIST", "EDIT"}
    /\ animal[a].status # "ABSENT"
    /\ Begin(w, [IdleTxn EXCEPT !.op = op, !.step = "actor", !.actor = u,
                                !.animal = a, !.seenAnimal = animal[a]])

\* set-animal-blind looks at the operator before it reads the animal.
BeginBlind(w, flag, a, u) ==
    /\ u \in Operators
    /\ flag \in {"BLIND", "UNBLIND"}
    /\ Begin(w, [IdleTxn EXCEPT !.op = "BLIND", !.step = "animal", !.arg = flag,
                                !.actor = u, !.animal = a])

\* The check of the acting member, on the user document read at this step.
MayAct(t) ==
    CASE t.op = "SUBMIT"    -> t.actor \in Active
      [] t.op = "TERMINATE" -> \/ CanManageShelter(t.actor)
                               \/ t.actor = t.seenApp.applicant
      [] OTHER              -> CanManageShelter(t.actor)

StepAfterActor(op) ==
    CASE op = "DECIDE"                             -> "application"
      [] op \in {"TERMINATE", "CONVERT", "RETURN"} -> "animal"
      [] OTHER                                     -> "commit"

Authorize(w) ==
    /\ txn[w].step = "actor"
    /\ MayAct(txn[w])
    /\ txn' = [txn EXCEPT ![w].step = StepAfterActor(txn[w].op)]
    /\ UNCHANGED <<animal, app, approval, rows>>

\* The callback's loadApplication, after the engine has saved the request.
ReadApplication(w) ==
    /\ txn[w].step = "application"
    /\ app[txn[w].app].status # "ABSENT"
    /\ txn' = [txn EXCEPT ![w].step = "animal", ![w].seenApp = app[txn[w].app]]
    /\ UNCHANGED <<animal, app, approval, rows>>

\* Which animal: the callback takes the id from the request's context, the
\* foster and adoption services from the application.
TargetAnimal(t) ==
    CASE t.op = "DECIDE" -> t.seenApproval.animal
      [] t.op = "BLIND"  -> t.animal
      [] OTHER           -> t.seenApp.animal

ReadAnimal(w) ==
    LET a == TargetAnimal(txn[w]) IN
    /\ txn[w].step = "animal"
    /\ animal[a].status # "ABSENT"
    /\ txn' = [txn EXCEPT ![w].step = "commit", ![w].animal = a,
                          ![w].seenAnimal = animal[a]]
    /\ UNCHANGED <<animal, app, approval, rows>>

-----------------------------------------------------------------------------
\* Commits

Register(a, eligible, u) ==
    /\ CanManageShelter(u)
    /\ animal[a].status = "ABSENT"
    /\ eligible # {}
    /\ animal' = [animal EXCEPT ![a] = [NoAnimalDoc EXCEPT !.status = "AVAILABLE",
                                                           !.eligible = eligible]]
    /\ UNCHANGED <<app, approval, rows, txn>>

CommitSubmit(w, i) ==
    LET t == txn[w] IN
    /\ AtCommit(w, "SUBMIT")
    /\ app[i].status = "ABSENT"
    /\ MoveAnimal(t, "reserve")
    /\ app' = [app EXCEPT ![i] = [NoAppDoc EXCEPT !.kind = t.arg,
                                                  !.animal = t.animal,
                                                  !.applicant = t.actor,
                                                  !.status = "PENDING"]]
    /\ approval' = [approval EXCEPT ![i] = [NoApprovalDoc EXCEPT !.animal = t.animal,
                                                                 !.status = "PENDING"]]
    /\ Insert(i, {"SUBMIT_ACTION", "APPLIED_NOTICE"})
    /\ Done(w)

CommitApprove(w) ==
    LET t == txn[w] IN
    /\ AtCommit(w, "DECIDE")
    /\ t.arg = "APPROVE"
    /\ SaveApproval(t, "APPROVED")
    /\ AppFresh(t)
    /\ t.seenApp.status = "PENDING"
    /\ app' = [app EXCEPT ![t.app] = SavedApp(t, "APPROVED", "NO")]
    /\ MoveAnimal(t, IF t.seenApp.kind = "ADOPTION" THEN "markAdopted" ELSE "markFostered")
    /\ Insert(t.app, {"DECIDE_ACTION", "APPROVED_EVENT", "DECIDED_NOTICE"})
    /\ Done(w)

CommitReject(w) ==
    LET t == txn[w] IN
    /\ AtCommit(w, "DECIDE")
    /\ t.arg = "REJECT"
    /\ SaveApproval(t, "REJECTED")
    /\ AppFresh(t)
    /\ t.seenApp.status = "PENDING"
    /\ app' = [app EXCEPT ![t.app] = SavedApp(t, "REJECTED", "NO")]
    /\ MoveAnimal(t, "release")
    /\ Insert(t.app, {"DECIDE_ACTION", "DECIDED_NOTICE"})
    /\ Done(w)

CommitTerminate(w) ==
    LET t == txn[w] IN
    /\ AtCommit(w, "TERMINATE")
    /\ AppFresh(t)
    /\ app' = [app EXCEPT ![t.app] = SavedApp(t, t.seenApp.status, "TERMINATED")]
    /\ MoveAnimal(t, "endFoster")
    /\ Insert(t.app, {"TERMINATED_EVENT", "TERMINATED_NOTICE"})
    /\ UNCHANGED approval
    /\ Done(w)

\* The fosterer's adoption is inserted already APPROVED, with no request
\* behind it, no event and no notice.
CommitConvert(w, j) ==
    LET t == txn[w] IN
    /\ AtCommit(w, "CONVERT")
    /\ app[j].status = "ABSENT"
    /\ AppFresh(t)
    /\ app' = [app EXCEPT ![t.app] = SavedApp(t, t.seenApp.status, "CONVERTED"),
                          ![j] = [NoAppDoc EXCEPT !.kind = "ADOPTION",
                                                  !.animal = t.seenApp.animal,
                                                  !.applicant = t.seenApp.applicant,
                                                  !.status = "APPROVED"]]
    /\ MoveAnimal(t, "markAdopted")
    /\ UNCHANGED <<approval, rows>>
    /\ Done(w)

CommitReturnKeepsAnimal(w) ==
    LET t == txn[w] IN
    /\ AtCommit(w, "RETURN")
    /\ AppFresh(t)
    /\ t.seenApp.status = "APPROVED"
    /\ app' = [app EXCEPT ![t.app] = SavedApp(t, "RETURNED", "NO")]
    /\ UNCHANGED <<animal, approval, rows>>
    /\ Done(w)

CommitReturn(w) ==
    LET t == txn[w] IN
    /\ AtCommit(w, "RETURN")
    /\ AppFresh(t)
    /\ t.seenApp.status = "APPROVED"
    /\ app' = [app EXCEPT ![t.app] = SavedApp(t, "RETURNED", "NO")]
    /\ MoveAnimal(t, "markReturned")
    /\ UNCHANGED <<approval, rows>>
    /\ Done(w)

CommitRelistUnchecked(w) ==
    /\ AtCommit(w, "RELIST")
    /\ SaveAnimal(txn[w], "AVAILABLE", txn[w].seenAnimal.blinded)
    /\ UNCHANGED <<app, approval, rows>>
    /\ Done(w)

CommitRelist(w) ==
    /\ AtCommit(w, "RELIST")
    /\ MoveAnimal(txn[w], "relist")
    /\ UNCHANGED <<app, approval, rows>>
    /\ Done(w)

\* The profile's own fields are not kept: a save that changes nothing else.
CommitEdit(w) ==
    LET t == txn[w] IN
    /\ AtCommit(w, "EDIT")
    /\ SaveAnimal(t, t.seenAnimal.status, t.seenAnimal.blinded)
    /\ UNCHANGED <<app, approval, rows>>
    /\ Done(w)

CommitBlind(w) ==
    LET t == txn[w] IN
    /\ AtCommit(w, "BLIND")
    /\ SaveAnimal(t, t.seenAnimal.status, IF t.arg = "BLIND" THEN "YES" ELSE "NO")
    /\ UNCHANGED <<app, approval, rows>>
    /\ Done(w)

AbortKeepsTrail(w) ==
    /\ txn[w] # IdleTxn
    /\ Done(w)
    /\ IF txn[w].op = "DECIDE" THEN Insert(txn[w].app, {"DECIDE_ACTION"}) ELSE UNCHANGED rows
    /\ UNCHANGED <<animal, app, approval>>

\* A thrown error, a write conflict, a lost connection or a process crash.
Abort(w) ==
    /\ txn[w] # IdleTxn
    /\ Done(w)
    /\ UNCHANGED <<animal, app, approval, rows>>

-----------------------------------------------------------------------------
BeginStep(w) ==
    \E u \in Members :
        \/ \E a \in Animals, k \in Kinds : BeginSubmit(w, k, a, u)
        \/ \E a \in Animals, op \in {"RELIST", "EDIT"} : BeginAnimalEdit(w, op, a, u)
        \/ \E a \in Animals, f \in {"BLIND", "UNBLIND"} : BeginBlind(w, f, a, u)
        \/ \E i \in Apps, d \in {"APPROVE", "REJECT"} : BeginDecide(w, d, i, u)
        \/ \E i \in Apps, op \in {"TERMINATE", "CONVERT"} : BeginFosterEnd(w, op, i, u)
        \/ \E i \in Apps : BeginReturn(w, i, u)

ReadStep(w) ==
    \/ Authorize(w)
    \/ ReadApplication(w)
    \/ ReadAnimal(w)

CommitStep(w) ==
    \/ \E i \in Apps : CommitSubmit(w, i)
    \/ CommitApprove(w)
    \/ CommitReject(w)
    \/ CommitTerminate(w)
    \/ \E j \in Apps : CommitConvert(w, j)
    \/ CommitReturn(w)
    \/ CommitRelist(w)
    \/ CommitEdit(w)
    \/ CommitBlind(w)

Next ==
    \/ \E a \in Animals, e \in SUBSET Kinds, u \in Members : Register(a, e, u)
    \/ \E w \in Workers : BeginStep(w) \/ ReadStep(w) \/ CommitStep(w) \/ Abort(w)

Spec == Init /\ [][Next]_vars

-----------------------------------------------------------------------------
\* Properties

\* The application keeps its animal from being offered to anyone else: it is
\* under review, or the animal is with the fosterer or with the adopter.
Live(i) ==
    \/ app[i].status = "PENDING"
    \/ app[i].status = "APPROVED" /\ app[i].ended = "NO"

StageOf(doc) ==
    IF doc.status = "PENDING" THEN "RESERVED"
    ELSE IF doc.kind = "FOSTER" THEN "FOSTERED" ELSE "ADOPTED"

AnimalDoc ==
    [status : AnimalStatus \cup {"ABSENT"}, eligible : SUBSET Kinds,
     blinded : {"NO", "YES"}, version : Nat]

AppDoc ==
    [kind : Kinds \cup {"NONE"}, animal : Animals \cup {NoAnimal},
     applicant : Members \cup {NoMember}, status : AppStatus \cup {"ABSENT"},
     ended : Ended, version : Nat]

ApprovalDoc ==
    [animal : Animals \cup {NoAnimal}, status : ApprovalStatus \cup {"ABSENT"},
     version : Nat]

Txn ==
    [op : {"IDLE", "SUBMIT", "DECIDE", "TERMINATE", "CONVERT", "RETURN",
           "RELIST", "EDIT", "BLIND"},
     step : {"none", "actor", "application", "animal", "commit"},
     arg : Kinds \cup {"APPROVE", "REJECT", "BLIND", "UNBLIND", "none"},
     actor : Members \cup {NoMember}, app : Apps \cup {NoApp},
     animal : Animals \cup {NoAnimal},
     seenAnimal : AnimalDoc, seenApp : AppDoc, seenApproval : ApprovalDoc]

\* Every document and every worker's copies have the shape the code gives them.
TypeOK ==
    /\ animal \in [Animals -> AnimalDoc]
    /\ app \in [Apps -> AppDoc]
    /\ approval \in [Apps -> ApprovalDoc]
    /\ rows \in [Apps -> [RowTypes -> Nat]]
    /\ txn \in [Workers -> Txn]

\* Two live applications never hold the same animal, however their requests
\* interleave (the RESERVED state and the version guard of the animal's save).
OneHolder ==
    \A i, j \in Apps :
        /\ Live(i)
        /\ Live(j)
        /\ app[i].animal = app[j].animal
        => i = j

\* A live application's animal is in the stage that application puts it in.
HolderSetsStage ==
    \A i \in Apps :
        Live(i) => /\ app[i].animal \in Animals
                   /\ animal[app[i].animal].status = StageOf(app[i])

\* An animal is never held without a live application behind it.
NoOrphanHold ==
    \A a \in Animals :
        animal[a].status \in {"RESERVED", "FOSTERED", "ADOPTED"} =>
            \E i \in Apps : Live(i) /\ app[i].animal = a

Mirrors(i) ==
    CASE approval[i].status = "ABSENT" ->
             \/ app[i] = NoAppDoc
             \/ /\ app[i].kind = "ADOPTION"
                /\ app[i].status \in {"APPROVED", "RETURNED"}
      [] approval[i].status = "PENDING" ->
             app[i].status = "PENDING" /\ app[i].animal = approval[i].animal
      [] approval[i].status = "APPROVED" ->
             app[i].status \in {"APPROVED", "RETURNED"}
      [] approval[i].status = "REJECTED" -> app[i].status = "REJECTED"

\* The application's status rides the engine's: undecided, approved and
\* rejected together, for the animal of the request; only an adoption that
\* was converted from a foster has no request.
ApprovalMirrorsApplication == \A i \in Apps : Mirrors(i)

\* The rows that the state of an application and of its request calls for.
RowsDue(i) ==
    (IF approval[i].status # "ABSENT"
       THEN {"SUBMIT_ACTION", "APPLIED_NOTICE"} ELSE {})
    \cup (IF approval[i].status \in {"APPROVED", "REJECTED"}
            THEN {"DECIDE_ACTION", "DECIDED_NOTICE"} ELSE {})
    \cup (IF approval[i].status = "APPROVED" THEN {"APPROVED_EVENT"} ELSE {})
    \cup (IF app[i].ended = "TERMINATED"
            THEN {"TERMINATED_EVENT", "TERMINATED_NOTICE"} ELSE {})

TrailComplete(i) ==
    \A r \in RowTypes : rows[i][r] = IF r \in RowsDue(i) THEN 1 ELSE 0

\* Each submission, decision and termination leaves its trail row, its outbox
\* event and its notice exactly once: none lost with an aborted attempt, none
\* doubled by the attempt that replaces it.
EffectsExactlyOnce == \A i \in Apps : TrailComplete(i)

\* Only an operator's moderation changes a listing's blinded flag: no other
\* save, which writes the whole profile back from its copy, undoes it.
ModerationKept ==
    [][\A a \in Animals :
          animal'[a].blinded # animal[a].blinded =>
              \E w \in Workers :
                  /\ txn[w].op = "BLIND"
                  /\ txn[w].animal = a
                  /\ txn'[w] = IdleTxn]_vars

-----------------------------------------------------------------------------
\* What this implements

Stage == [a \in Animals |-> animal[a].status]

Holder == [a \in Animals |-> {i \in Apps : Live(i) /\ app[i].animal = a}]

Spent == {i \in Apps : app[i].status # "ABSENT" /\ ~Live(i)}

C == INSTANCE Custody WITH stage <- Stage, holder <- Holder, spent <- Spent

\* Every behaviour of the services is one of the one-step-at-a-time custody
\* specification: the interleaved reads and saves are invisible in it.
CustodySpec == C!Spec
=============================================================================
