---------------------------- MODULE PlacementInv ----------------------------
(***************************************************************************)
(* The inductive invariant of Placement.  The safety properties are not    *)
(* inductive: they depend on what a request still knows about documents    *)
(* that others may have changed since.  That is what CopiesCurrent says.   *)
(***************************************************************************)
EXTENDS Placement

\* What the fields of one application document say about each other.
AppWellFormed ==
    \A i \in Apps :
        IF app[i].status = "ABSENT"
          THEN app[i] = NoAppDoc /\ approval[i] = NoApprovalDoc
          ELSE /\ app[i].kind \in Kinds
               /\ app[i].animal \in Animals
               /\ app[i].ended # "NO" => app[i].kind = "FOSTER" /\ app[i].status = "APPROVED"
               /\ app[i].status = "RETURNED" => app[i].kind = "ADOPTION"
               /\ approval[i].status # "ABSENT" => approval[i].animal = app[i].animal

\* A copy is of a document that exists, has that document's immutable fields,
\* is never ahead of it, and if it has its version it is equal to it: this is
\* why the version guard is enough.
AnimalCopyCurrent(t) ==
    t.seenAnimal.status # "ABSENT" =>
        /\ t.animal \in Animals
        /\ animal[t.animal].status # "ABSENT"
        /\ t.seenAnimal.version <= animal[t.animal].version
        /\ AnimalFresh(t) => t.seenAnimal = animal[t.animal]

AppCopyCurrent(t) ==
    t.seenApp.status # "ABSENT" =>
        /\ t.app \in Apps
        /\ app[t.app].status # "ABSENT"
        /\ t.seenApp.kind = app[t.app].kind
        /\ t.seenApp.animal = app[t.app].animal
        /\ t.seenApp.version <= app[t.app].version
        /\ AppFresh(t) => t.seenApp = app[t.app]

ApprovalCopyCurrent(t) ==
    t.seenApproval.status # "ABSENT" =>
        /\ t.app \in Apps
        /\ approval[t.app].status # "ABSENT"
        /\ t.seenApproval.animal = approval[t.app].animal
        /\ t.seenApproval.version <= approval[t.app].version
        /\ ApprovalFresh(t) => t.seenApproval = approval[t.app]

CopiesCurrent ==
    \A w \in Workers :
        /\ AnimalCopyCurrent(txn[w])
        /\ AppCopyCurrent(txn[w])
        /\ ApprovalCopyCurrent(txn[w])

\* Which copies a request holds at each of its steps.
Prepared(t) ==
    /\ t.op = "IDLE" => t = IdleTxn
    /\ t.op = "SUBMIT" => t.arg \in Kinds /\ t.actor \in Members
    /\ t.op \in {"SUBMIT", "RELIST", "EDIT"} =>
          t.seenAnimal.status # "ABSENT" /\ t.step \in {"actor", "commit"}
    /\ t.op = "BLIND" => t.animal \in Animals /\ t.step \in {"animal", "commit"}
    /\ t.op = "DECIDE" =>
          /\ t.seenApproval.status # "ABSENT"
          /\ t.arg \in {"APPROVE", "REJECT"}
          /\ t.step \in {"animal", "commit"} => t.seenApp.status # "ABSENT"
    /\ t.op \in {"TERMINATE", "CONVERT"} => IsActiveFoster(t.seenApp)
    /\ t.op = "RETURN" => t.seenApp.kind = "ADOPTION" /\ t.seenApp.status # "ABSENT"
    /\ t.op \in {"TERMINATE", "CONVERT", "RETURN"} => t.step \in {"actor", "animal", "commit"}
    /\ t.step = "application" => t.op = "DECIDE"
    /\ t.step = "commit" =>
          /\ t.seenAnimal.status # "ABSENT"
          /\ t.op \in {"DECIDE", "TERMINATE", "CONVERT", "RETURN"} => t.animal = TargetAnimal(t)

TxnsPrepared == \A w \in Workers : Prepared(txn[w])

\* What the collections say about each other.
Consistent ==
    /\ AppWellFormed
    /\ OneHolder
    /\ HolderSetsStage
    /\ NoOrphanHold
    /\ ApprovalMirrorsApplication
    /\ EffectsExactlyOnce

\* An animal that has not been registered has nothing to show.
AbsentIsBlank == \A a \in Animals : animal[a].status = "ABSENT" => animal[a] = NoAnimalDoc

IInv ==
    /\ TypeOK
    /\ AbsentIsBlank
    /\ Consistent
    /\ CopiesCurrent
    /\ TxnsPrepared
=============================================================================
