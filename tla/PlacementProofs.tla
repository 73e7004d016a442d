-------------------------- MODULE PlacementProofs --------------------------
(***************************************************************************)
(* Proofs about Placement, for any number of animals, applications,        *)
(* members and concurrent requests.                                        *)
(***************************************************************************)
EXTENDS PlacementInv, TLAPS

\* The initial state satisfies the inductive invariant: the collections are
\* empty and no request runs.
LEMMA InitIInv == Init => IInv
<1> SUFFICES ASSUME Init PROVE IInv
  OBVIOUS
<1>1. TypeOK
  BY DEF Init, TypeOK, NoAnimalDoc, NoAppDoc, NoApprovalDoc, IdleTxn, AnimalDoc,
         AppDoc, ApprovalDoc, Txn, Ended, Kinds
<1>2. \A i \in Apps : ~Live(i)
  BY DEF Init, Live, NoAppDoc
<1>3. AppWellFormed
  BY DEF Init, AppWellFormed, NoAppDoc, NoApprovalDoc
<1>4. OneHolder /\ HolderSetsStage
  BY <1>2 DEF OneHolder, HolderSetsStage
<1>5. NoOrphanHold
  BY DEF Init, NoOrphanHold, NoAnimalDoc
<1>6. ApprovalMirrorsApplication
  BY DEF Init, ApprovalMirrorsApplication, Mirrors, NoApprovalDoc
<1>7. EffectsExactlyOnce
  BY DEF Init, EffectsExactlyOnce, TrailComplete, RowsDue, NoApprovalDoc, NoAppDoc
<1>8. CopiesCurrent
  BY DEF Init, CopiesCurrent, AnimalCopyCurrent, AppCopyCurrent, ApprovalCopyCurrent,
         IdleTxn, NoAnimalDoc, NoAppDoc, NoApprovalDoc
<1>9. TxnsPrepared
  BY DEF Init, TxnsPrepared, Prepared, IdleTxn
<1>10. AbsentIsBlank
  BY DEF Init, AbsentIsBlank
<1> QED
  BY <1>1, <1>3, <1>4, <1>5, <1>6, <1>7, <1>8, <1>9, <1>10 DEF IInv, Consistent

-----------------------------------------------------------------------------
\* Steps that only move a request forward

\* If only the requests change, the collections stay consistent.
LEMMA ReadsKeepConsistent ==
    ASSUME Consistent, UNCHANGED <<animal, app, approval, rows>>
    PROVE  Consistent'
<1>1. AppWellFormed' /\ ApprovalMirrorsApplication'
  BY DEF Consistent, AppWellFormed, ApprovalMirrorsApplication, Mirrors
<1>2. OneHolder' /\ HolderSetsStage' /\ NoOrphanHold'
  BY DEF Consistent, OneHolder, HolderSetsStage, NoOrphanHold, Live, StageOf
<1>3. EffectsExactlyOnce'
  BY DEF Consistent, EffectsExactlyOnce, TrailComplete, RowsDue
<1> QED
  BY <1>1, <1>2, <1>3 DEF Consistent

\* If only request w changes, and to a t that is well-typed, current and
\* prepared, then the whole invariant is preserved.
LEMMA OneTxnStep ==
    ASSUME IInv, UNCHANGED <<animal, app, approval, rows>>,
           NEW w \in Workers, NEW t \in Txn,
           txn' = [txn EXCEPT ![w] = t],
           AnimalCopyCurrent(t), AppCopyCurrent(t), ApprovalCopyCurrent(t),
           Prepared(t)
    PROVE  IInv'
<1>1. TypeOK'
  BY DEF IInv, TypeOK
<1>2. Consistent'
  BY ReadsKeepConsistent DEF IInv
<1>3. \A v \in Workers : txn'[v] = IF v = w THEN t ELSE txn[v]
  BY DEF IInv, TypeOK
<1>4. CopiesCurrent'
  BY <1>3 DEF IInv, CopiesCurrent, AnimalCopyCurrent, AppCopyCurrent, ApprovalCopyCurrent,
             AnimalFresh, AppFresh, ApprovalFresh
<1>5. TxnsPrepared'
  BY <1>3 DEF IInv, TxnsPrepared, Prepared
<1>6. AbsentIsBlank'
  BY DEF IInv, AbsentIsBlank
<1> QED
  BY <1>1, <1>2, <1>4, <1>5, <1>6 DEF IInv

\* An idle request knows nothing, so all is well with it.
LEMMA IdleIsFine ==
    /\ IdleTxn \in Txn
    /\ AnimalCopyCurrent(IdleTxn)
    /\ AppCopyCurrent(IdleTxn)
    /\ ApprovalCopyCurrent(IdleTxn)
    /\ Prepared(IdleTxn)
BY DEF IdleTxn, Txn, AnimalDoc, AppDoc, ApprovalDoc, NoAnimalDoc, NoAppDoc, NoApprovalDoc,
       AnimalCopyCurrent, AppCopyCurrent, ApprovalCopyCurrent, Prepared, Kinds, Ended

\* What request w holds, as facts about the documents it is about.
LEMMA HeldCopies ==
    ASSUME IInv, NEW w \in Workers
    PROVE  /\ txn[w] \in Txn
           /\ AnimalCopyCurrent(txn[w])
           /\ AppCopyCurrent(txn[w])
           /\ ApprovalCopyCurrent(txn[w])
           /\ Prepared(txn[w])
BY DEF IInv, TypeOK, CopiesCurrent, TxnsPrepared

\* Taking up a request keeps the invariant: it knows no more than who asked.
LEMMA BeginKeeps ==
    ASSUME IInv, NEW w \in Workers, BeginStep(w)
    PROVE  IInv'
<1>0. PICK u \in Members :
        \/ \E a \in Animals, k \in Kinds : BeginSubmit(w, k, a, u)
        \/ \E a \in Animals, op \in {"RELIST", "EDIT"} : BeginAnimalEdit(w, op, a, u)
        \/ \E a \in Animals, f \in {"BLIND", "UNBLIND"} : BeginBlind(w, f, a, u)
        \/ \E i \in Apps, d \in {"APPROVE", "REJECT"} : BeginDecide(w, d, i, u)
        \/ \E i \in Apps, op \in {"TERMINATE", "CONVERT"} : BeginFosterEnd(w, op, i, u)
        \/ \E i \in Apps : BeginReturn(w, i, u)
  BY DEF BeginStep
<1> DEFINE Copied(t) == AnimalCopyCurrent(t) /\ AppCopyCurrent(t) /\ ApprovalCopyCurrent(t)
<1>1. ASSUME NEW a \in Animals, NEW k \in Kinds, BeginSubmit(w, k, a, u)
      PROVE  IInv'
  <2> DEFINE t == [IdleTxn EXCEPT !.op = "SUBMIT", !.step = "actor", !.arg = k,
                                  !.actor = u, !.animal = a, !.seenAnimal = animal[a]]
  <2>1. t \in Txn
    BY <1>1, IdleIsFine DEF IInv, TypeOK, Txn
  <2>2. Copied(t)
    BY <1>1 DEF BeginSubmit, AcceptsApplicationFor, IInv, TypeOK, AnimalDoc, IdleTxn, NoAnimalDoc, NoAppDoc, NoApprovalDoc,
       AnimalCopyCurrent, AppCopyCurrent, ApprovalCopyCurrent, AnimalFresh, AppFresh, ApprovalFresh
  <2>3. Prepared(t)
    BY <1>1 DEF BeginSubmit, AcceptsApplicationFor, Prepared, IdleTxn
  <2> QED
    BY <1>1, <2>1, <2>2, <2>3, OneTxnStep DEF BeginSubmit, Begin
<1>2. ASSUME NEW a \in Animals, NEW op \in {"RELIST", "EDIT"}, BeginAnimalEdit(w, op, a, u)
      PROVE  IInv'
  <2> DEFINE t == [IdleTxn EXCEPT !.op = op, !.step = "actor", !.actor = u,
                                  !.animal = a, !.seenAnimal = animal[a]]
  <2>1. t \in Txn
    BY <1>2, IdleIsFine DEF IInv, TypeOK, Txn
  <2>2. Copied(t)
    BY <1>2 DEF BeginAnimalEdit, IInv, TypeOK, AnimalDoc, IdleTxn, NoAnimalDoc, NoAppDoc, NoApprovalDoc,
       AnimalCopyCurrent, AppCopyCurrent, ApprovalCopyCurrent, AnimalFresh, AppFresh, ApprovalFresh
  <2>3. Prepared(t)
    BY <1>2 DEF BeginAnimalEdit, Prepared, IdleTxn
  <2> QED
    BY <1>2, <2>1, <2>2, <2>3, OneTxnStep DEF BeginAnimalEdit, Begin
<1>3. ASSUME NEW a \in Animals, NEW f \in {"BLIND", "UNBLIND"}, BeginBlind(w, f, a, u)
      PROVE  IInv'
  <2> DEFINE t == [IdleTxn EXCEPT !.op = "BLIND", !.step = "animal", !.arg = f,
                                  !.actor = u, !.animal = a]
  <2>1. t \in Txn
    BY <1>3, IdleIsFine DEF IInv, TypeOK, Txn
  <2>2. Copied(t)
    BY <1>3 DEF BeginBlind, IInv, TypeOK, AnimalDoc, IdleTxn, NoAnimalDoc, NoAppDoc, NoApprovalDoc,
       AnimalCopyCurrent, AppCopyCurrent, ApprovalCopyCurrent, AnimalFresh, AppFresh, ApprovalFresh
  <2>3. Prepared(t)
    BY <1>3 DEF BeginBlind, Prepared, IdleTxn
  <2> QED
    BY <1>3, <2>1, <2>2, <2>3, OneTxnStep DEF BeginBlind, Begin
<1>4. ASSUME NEW i \in Apps, NEW d \in {"APPROVE", "REJECT"}, BeginDecide(w, d, i, u)
      PROVE  IInv'
  <2> DEFINE t == [IdleTxn EXCEPT !.op = "DECIDE", !.step = "actor", !.arg = d,
                                  !.actor = u, !.app = i, !.seenApproval = approval[i]]
  <2>1. t \in Txn
    BY <1>4, IdleIsFine DEF IInv, TypeOK, Txn
  <2>2. Copied(t)
    BY <1>4 DEF BeginDecide, IInv, TypeOK, ApprovalDoc, IdleTxn, NoAnimalDoc, NoAppDoc, NoApprovalDoc,
       AnimalCopyCurrent, AppCopyCurrent, ApprovalCopyCurrent, AnimalFresh, AppFresh, ApprovalFresh
  <2>3. Prepared(t)
    BY <1>4 DEF BeginDecide, Prepared, IdleTxn
  <2> QED
    BY <1>4, <2>1, <2>2, <2>3, OneTxnStep DEF BeginDecide, Begin
<1>5. ASSUME NEW i \in Apps, NEW op \in {"TERMINATE", "CONVERT"}, BeginFosterEnd(w, op, i, u)
      PROVE  IInv'
  <2> DEFINE t == [IdleTxn EXCEPT !.op = op, !.step = "actor", !.actor = u,
                                  !.app = i, !.seenApp = app[i]]
  <2>1. t \in Txn
    BY <1>5, IdleIsFine DEF IInv, TypeOK, Txn
  <2>2. Copied(t)
    BY <1>5 DEF BeginFosterEnd, IsActiveFoster, IInv, TypeOK, AppDoc, IdleTxn, NoAnimalDoc, NoAppDoc, NoApprovalDoc,
       AnimalCopyCurrent, AppCopyCurrent, ApprovalCopyCurrent, AnimalFresh, AppFresh, ApprovalFresh
  <2>3. Prepared(t)
    BY <1>5 DEF BeginFosterEnd, IsActiveFoster, Prepared, IdleTxn
  <2> QED
    BY <1>5, <2>1, <2>2, <2>3, OneTxnStep DEF BeginFosterEnd, Begin
<1>6. ASSUME NEW i \in Apps, BeginReturn(w, i, u)
      PROVE  IInv'
  <2> DEFINE t == [IdleTxn EXCEPT !.op = "RETURN", !.step = "actor", !.actor = u,
                                  !.app = i, !.seenApp = app[i]]
  <2>0. app[i].status # "ABSENT"
    BY <1>6 DEF IInv, Consistent, AppWellFormed, BeginReturn, NoAppDoc
  <2>1. t \in Txn
    BY <1>6, IdleIsFine DEF IInv, TypeOK, Txn
  <2>2. Copied(t)
    BY <1>6, <2>0 DEF BeginReturn, IInv, TypeOK, AppDoc, IdleTxn, NoAnimalDoc, NoAppDoc, NoApprovalDoc,
       AnimalCopyCurrent, AppCopyCurrent, ApprovalCopyCurrent, AnimalFresh, AppFresh, ApprovalFresh
  <2>3. Prepared(t)
    BY <1>6, <2>0 DEF BeginReturn, Prepared, IdleTxn
  <2> QED
    BY <1>6, <2>1, <2>2, <2>3, OneTxnStep DEF BeginReturn, Begin
<1> QED
  BY <1>0, <1>1, <1>2, <1>3, <1>4, <1>5, <1>6

\* A read keeps the invariant: the copy it takes is the document as stored.
LEMMA ReadKeeps ==
    ASSUME IInv, NEW w \in Workers, ReadStep(w)
    PROVE  IInv'
<1> DEFINE s == txn[w]
<1>1. /\ s \in Txn /\ Prepared(s)
      /\ AnimalCopyCurrent(s) /\ AppCopyCurrent(s) /\ ApprovalCopyCurrent(s)
  BY HeldCopies
<1>2. s.op = "IDLE" => s.step = "none"
  BY <1>1 DEF Prepared, IdleTxn
<1>3. CASE Authorize(w)
  <2> DEFINE t == [s EXCEPT !.step = StepAfterActor(s.op)]
  <2>1. t \in Txn /\ txn' = [txn EXCEPT ![w] = t]
    BY <1>1, <1>3 DEF Authorize, StepAfterActor, Txn, IInv, TypeOK
  <2>2. AnimalCopyCurrent(t) /\ AppCopyCurrent(t) /\ ApprovalCopyCurrent(t)
    BY <1>1 DEF AnimalCopyCurrent, AppCopyCurrent, ApprovalCopyCurrent, AnimalFresh, AppFresh,
                ApprovalFresh, Txn
  <2>3. Prepared(t)
    BY <1>1, <1>2, <1>3 DEF Authorize, StepAfterActor, Prepared, Txn, TargetAnimal
  <2> QED
    BY <1>3, <2>1, <2>2, <2>3, OneTxnStep DEF Authorize
<1>4. CASE ReadApplication(w)
  <2> DEFINE t == [s EXCEPT !.step = "animal", !.seenApp = app[s.app]]
  <2>1. s.op = "DECIDE" /\ s.app \in Apps
    BY <1>1, <1>4 DEF ReadApplication, Prepared, ApprovalCopyCurrent
  <2>2. t \in Txn /\ txn' = [txn EXCEPT ![w] = t]
    BY <1>1, <1>4, <2>1 DEF ReadApplication, Txn, IInv, TypeOK
  <2>3. AnimalCopyCurrent(t) /\ AppCopyCurrent(t) /\ ApprovalCopyCurrent(t)
    BY <1>1, <1>4, <2>1 DEF ReadApplication, AnimalCopyCurrent, AppCopyCurrent,
       ApprovalCopyCurrent, AnimalFresh, AppFresh, ApprovalFresh, Txn, IInv, TypeOK, AppDoc
  <2>4. Prepared(t)
    BY <1>1, <1>4, <2>1 DEF ReadApplication, Prepared, Txn
  <2> QED
    BY <1>4, <2>2, <2>3, <2>4, OneTxnStep DEF ReadApplication
<1>5. CASE ReadAnimal(w)
  <2> DEFINE b == TargetAnimal(s)
             t == [s EXCEPT !.step = "commit", !.animal = b, !.seenAnimal = animal[b]]
  <2>1. s.step = "animal" /\ s.op \in {"DECIDE", "BLIND", "TERMINATE", "CONVERT", "RETURN"}
    BY <1>1, <1>2, <1>5 DEF ReadAnimal, Prepared, Txn
  <2>2. b \in Animals
    <3>1. CASE s.op = "BLIND"
      BY <1>1, <3>1 DEF TargetAnimal, Prepared
    <3>2. CASE s.op = "DECIDE"
      BY <1>1, <3>2 DEF TargetAnimal, Prepared, ApprovalCopyCurrent, IInv, Consistent,
                        AppWellFormed, NoApprovalDoc
    <3>3. CASE s.op \in {"TERMINATE", "CONVERT", "RETURN"}
      BY <1>1, <3>3 DEF TargetAnimal, Prepared, AppCopyCurrent, IsActiveFoster, IInv,
                        Consistent, AppWellFormed
    <3> QED
      BY <2>1, <3>1, <3>2, <3>3
  <2>3. t \in Txn /\ txn' = [txn EXCEPT ![w] = t]
    BY <1>1, <1>5, <2>2 DEF ReadAnimal, Txn, IInv, TypeOK
  <2>4. AnimalCopyCurrent(t) /\ AppCopyCurrent(t) /\ ApprovalCopyCurrent(t)
    BY <1>1, <1>5, <2>2 DEF ReadAnimal, AnimalCopyCurrent, AppCopyCurrent,
       ApprovalCopyCurrent, AnimalFresh, AppFresh, ApprovalFresh, Txn, IInv, TypeOK, AnimalDoc
  <2>5. Prepared(t)
    BY <1>1, <1>5, <2>1, <2>2 DEF ReadAnimal, Prepared, Txn, TargetAnimal
  <2> QED
    BY <1>5, <2>3, <2>4, <2>5, OneTxnStep DEF ReadAnimal
<1> QED
  BY <1>3, <1>4, <1>5 DEF ReadStep

\* An abort keeps the invariant: the request forgets what it held.
LEMMA AbortKeeps ==
    ASSUME IInv, NEW w \in Workers, Abort(w)
    PROVE  IInv'
BY IdleIsFine, OneTxnStep DEF Abort, Done

-----------------------------------------------------------------------------
\* Steps that commit

\* Every document either stays as it is or moves on to a later version of
\* itself; none disappears, and what never changes of it does not change.
Advance ==
    /\ \A a \in Animals :
          \/ animal'[a] = animal[a]
          \/ /\ animal'[a].status # "ABSENT"
             /\ animal[a].status # "ABSENT" => animal'[a].version > animal[a].version
    /\ \A i \in Apps : app[i].status # "ABSENT" =>
          \/ app'[i] = app[i]
          \/ /\ app'[i].status # "ABSENT"
             /\ app'[i].version > app[i].version
             /\ app'[i].kind = app[i].kind
             /\ app'[i].animal = app[i].animal
    /\ \A i \in Apps : approval[i].status # "ABSENT" =>
          \/ approval'[i] = approval[i]
          \/ /\ approval'[i].status # "ABSENT"
             /\ approval'[i].version > approval[i].version
             /\ approval'[i].animal = approval[i].animal

\* When the documents advance, the copies of the requests that do not move
\* stay current: a document with an unchanged version has not changed.
LEMMA AdvanceKeepsCopies ==
    ASSUME IInv, TypeOK', Advance, NEW v \in Workers, txn'[v] = txn[v]
    PROVE  /\ AnimalCopyCurrent(txn[v])'
           /\ AppCopyCurrent(txn[v])'
           /\ ApprovalCopyCurrent(txn[v])'
<1> DEFINE t == txn[v]
<1>1. /\ t \in Txn
      /\ AnimalCopyCurrent(t) /\ AppCopyCurrent(t) /\ ApprovalCopyCurrent(t)
  BY HeldCopies
<1>2. AnimalCopyCurrent(t)'
  <2> SUFFICES ASSUME t.seenAnimal.status # "ABSENT"
               PROVE  /\ t.animal \in Animals
                      /\ animal'[t.animal].status # "ABSENT"
                      /\ t.seenAnimal.version <= animal'[t.animal].version
                      /\ t.seenAnimal.version = animal'[t.animal].version
                           => t.seenAnimal = animal'[t.animal]
    BY DEF AnimalCopyCurrent, AnimalFresh
  <2>1. t.seenAnimal.version \in Nat
    BY <1>1 DEF Txn, AnimalDoc
  <2>2. /\ t.animal \in Animals
        /\ animal[t.animal].version \in Nat
        /\ animal'[t.animal].version \in Nat
    BY <1>1 DEF AnimalCopyCurrent, IInv, TypeOK, AnimalDoc
  <2> QED
    BY <1>1, <2>1, <2>2 DEF AnimalCopyCurrent, AnimalFresh, Advance
<1>3. AppCopyCurrent(t)'
  <2> SUFFICES ASSUME t.seenApp.status # "ABSENT"
               PROVE  /\ t.app \in Apps
                      /\ app'[t.app].status # "ABSENT"
                      /\ t.seenApp.kind = app'[t.app].kind
                      /\ t.seenApp.animal = app'[t.app].animal
                      /\ t.seenApp.version <= app'[t.app].version
                      /\ t.seenApp.version = app'[t.app].version
                           => t.seenApp = app'[t.app]
    BY DEF AppCopyCurrent, AppFresh
  <2>1. t.seenApp.version \in Nat
    BY <1>1 DEF Txn, AppDoc
  <2>2. t.app \in Apps /\ app[t.app].version \in Nat /\ app'[t.app].version \in Nat
    BY <1>1 DEF AppCopyCurrent, IInv, TypeOK, AppDoc
  <2> QED
    BY <1>1, <2>1, <2>2 DEF AppCopyCurrent, AppFresh, Advance
<1>4. ApprovalCopyCurrent(t)'
  <2> SUFFICES ASSUME t.seenApproval.status # "ABSENT"
               PROVE  /\ t.app \in Apps
                      /\ approval'[t.app].status # "ABSENT"
                      /\ t.seenApproval.animal = approval'[t.app].animal
                      /\ t.seenApproval.version <= approval'[t.app].version
                      /\ t.seenApproval.version = approval'[t.app].version
                           => t.seenApproval = approval'[t.app]
    BY DEF ApprovalCopyCurrent, ApprovalFresh
  <2>1. t.seenApproval.version \in Nat
    BY <1>1 DEF Txn, ApprovalDoc
  <2>2. t.app \in Apps /\ approval[t.app].version \in Nat /\ approval'[t.app].version \in Nat
    BY <1>1 DEF ApprovalCopyCurrent, IInv, TypeOK, ApprovalDoc
  <2> QED
    BY <1>1, <2>1, <2>2 DEF ApprovalCopyCurrent, ApprovalFresh, Advance
<1> QED
  BY <1>2, <1>3, <1>4

\* A commit that leaves the collections consistent, only moves documents
\* forward and ends its own request preserves the invariant.
LEMMA CommitStepKeeps ==
    ASSUME IInv, NEW w \in Workers, Done(w), Advance, Consistent',
           animal' \in [Animals -> AnimalDoc], app' \in [Apps -> AppDoc],
           approval' \in [Apps -> ApprovalDoc], rows' \in [Apps -> [RowTypes -> Nat]]
    PROVE  IInv'
<1>1. txn' \in [Workers -> Txn]
  BY IdleIsFine DEF Done, IInv, TypeOK
<1>2. TypeOK'
  BY <1>1 DEF TypeOK
<1>3. \A v \in Workers : txn'[v] = IF v = w THEN IdleTxn ELSE txn[v]
  BY DEF Done, IInv, TypeOK
<1>4. CopiesCurrent'
  <2> SUFFICES ASSUME NEW v \in Workers
               PROVE  /\ AnimalCopyCurrent(txn[v])'
                      /\ AppCopyCurrent(txn[v])'
                      /\ ApprovalCopyCurrent(txn[v])'
    BY DEF CopiesCurrent
  <2>1. CASE v = w
    BY <1>3, <2>1 DEF AnimalCopyCurrent, AppCopyCurrent, ApprovalCopyCurrent, IdleTxn,
                      NoAnimalDoc, NoAppDoc, NoApprovalDoc
  <2>2. CASE v # w
    BY <1>2, <1>3, <2>2, AdvanceKeepsCopies
  <2> QED
    BY <2>1, <2>2
<1>5. TxnsPrepared'
  BY <1>3, IdleIsFine DEF IInv, TxnsPrepared, Prepared
<1>6. AbsentIsBlank'
  BY DEF IInv, AbsentIsBlank, Advance
<1> QED
  BY <1>2, <1>4, <1>5, <1>6 DEF IInv

\* The one animal that moves takes its new status and the next version; its
\* other fields, and all the other animals, stay as they are.
MovedAnimal(a, s) ==
    animal' = [animal EXCEPT ![a] =
                 [animal[a] EXCEPT !.status = s, !.version = animal[a].version + 1]]

\* At a commit, a save that passes its version guard writes from a copy that
\* equals the stored document.
LEMMA MoveAnimalIsCurrent ==
    ASSUME IInv, NEW w \in Workers, txn[w].step = "commit",
           NEW m, MoveAnimal(txn[w], m)
    PROVE  LET a == txn[w].animal IN
           /\ a \in Animals
           /\ txn[w].seenAnimal = animal[a]
           /\ animal[a].status \in MoveFrom(m)
           /\ MovedAnimal(a, MoveTo(m))
<1> DEFINE t == txn[w]
<1>1. t \in Txn /\ AnimalCopyCurrent(t) /\ Prepared(t)
  BY HeldCopies
<1>2. t.seenAnimal.status # "ABSENT" /\ AnimalFresh(t)
  BY <1>1 DEF Prepared, MoveAnimal, SaveAnimal
<1>3. t.animal \in Animals /\ t.seenAnimal = animal[t.animal]
  BY <1>1, <1>2 DEF AnimalCopyCurrent
<1>4. animal[t.animal] \in AnimalDoc
  BY <1>3 DEF IInv, TypeOK
<1>5. [animal[t.animal] EXCEPT !.status = MoveTo(m), !.blinded = animal[t.animal].blinded,
                               !.version = animal[t.animal].version + 1]
      = [animal[t.animal] EXCEPT !.status = MoveTo(m),
                                 !.version = animal[t.animal].version + 1]
  BY <1>4 DEF AnimalDoc
<1> QED
  BY <1>3, <1>5 DEF MoveAnimal, SaveAnimal, MovedAnimal

\* A move leaves the animals well-typed, and no version goes back.
LEMMA MovedAnimalTyped ==
    ASSUME IInv, NEW a \in Animals, NEW s \in AnimalStatus, MovedAnimal(a, s)
    PROVE  /\ animal' \in [Animals -> AnimalDoc]
           /\ \A b \in Animals \ {a} : animal'[b] = animal[b]
           /\ animal'[a].status = s
           /\ animal'[a].blinded = animal[a].blinded
           /\ animal'[a].version > animal[a].version
           /\ s # "ABSENT"
<1>1. animal \in [Animals -> AnimalDoc] /\ animal[a] \in AnimalDoc
  BY DEF IInv, TypeOK
<1> DEFINE v == animal[a].version + 1
           d == [animal[a] EXCEPT !.status = s, !.version = v]
<1>2. v \in Nat /\ v > animal[a].version
  BY <1>1 DEF AnimalDoc
<1>3. animal' = [animal EXCEPT ![a] = d]
  BY DEF MovedAnimal
<1> HIDE DEF v
<1>4. d \in AnimalDoc /\ d.status = s /\ d.blinded = animal[a].blinded /\ d.version = v
  BY <1>1, <1>2 DEF AnimalDoc
<1> HIDE DEF d
<1>5. /\ animal' \in [Animals -> AnimalDoc]
      /\ animal'[a] = d
      /\ \A b \in Animals \ {a} : animal'[b] = animal[b]
  BY <1>1, <1>3, <1>4
<1>6. s # "ABSENT"
  BY DEF AnimalStatus
<1> QED
  BY <1>2, <1>4, <1>5, <1>6

\* A new application leaves the collections well-typed, and no version goes back.
LEMMA InsertTyped ==
    ASSUME IInv, NEW i \in Apps, NEW types, Insert(i, types)
    PROVE  /\ rows' \in [Apps -> [RowTypes -> Nat]]
           /\ \A j \in Apps \ {i} : rows'[j] = rows[j]
           /\ \A r \in RowTypes :
                 rows'[i][r] = IF r \in types THEN rows[i][r] + 1 ELSE rows[i][r]
BY DEF IInv, TypeOK, Insert

\* The one application that is saved: its new status and end, and the next version.
SavedTo(i, status, ended) ==
    [app[i] EXCEPT !.status = status, !.ended = ended, !.version = app[i].version + 1]

\* A saved application is well-typed, and no version goes back.
LEMMA SavedToTyped ==
    ASSUME IInv, NEW i \in Apps, NEW st \in AppStatus, NEW e \in Ended
    PROVE  /\ SavedTo(i, st, e) \in AppDoc
           /\ SavedTo(i, st, e).status = st
           /\ SavedTo(i, st, e).ended = e
           /\ SavedTo(i, st, e).kind = app[i].kind
           /\ SavedTo(i, st, e).animal = app[i].animal
           /\ SavedTo(i, st, e).version > app[i].version
           /\ st # "ABSENT"
<1>1. app[i] \in AppDoc
  BY DEF IInv, TypeOK
<1> DEFINE v == app[i].version + 1
           d == [app[i] EXCEPT !.status = st, !.ended = e, !.version = v]
<1>2. v \in Nat /\ v > app[i].version
  BY <1>1 DEF AppDoc
<1>3. SavedTo(i, st, e) = d
  BY DEF SavedTo
<1> HIDE DEF v
<1>4. /\ d \in AppDoc
      /\ d.status = st /\ d.ended = e /\ d.version = v
      /\ d.kind = app[i].kind /\ d.animal = app[i].animal
  BY <1>1, <1>2 DEF AppDoc
<1> QED
  BY <1>2, <1>3, <1>4 DEF AppStatus

\* The copy that a save of the application is made from equals the document.
LEMMA SavedAppIsCurrent ==
    ASSUME IInv, NEW w \in Workers, txn[w].seenApp.status # "ABSENT", AppFresh(txn[w]),
           NEW st, NEW e
    PROVE  /\ txn[w].app \in Apps
           /\ txn[w].seenApp = app[txn[w].app]
           /\ SavedApp(txn[w], st, e) = SavedTo(txn[w].app, st, e)
<1>1. txn[w].app \in Apps /\ txn[w].seenApp = app[txn[w].app]
  BY HeldCopies DEF AppCopyCurrent
<1> QED
  BY <1>1 DEF SavedApp, SavedTo

\* The same for a decided request.
LEMMA SaveApprovalIsCurrent ==
    ASSUME IInv, NEW w \in Workers, txn[w].seenApproval.status # "ABSENT",
           NEW st \in ApprovalStatus, SaveApproval(txn[w], st)
    PROVE  LET i == txn[w].app IN
           /\ i \in Apps
           /\ txn[w].seenApproval = approval[i]
           /\ approval[i].status = "PENDING"
           /\ approval' \in [Apps -> ApprovalDoc]
           /\ \A j \in Apps \ {i} : approval'[j] = approval[j]
           /\ approval'[i].status = st
           /\ approval'[i].animal = approval[i].animal
           /\ approval'[i].version > approval[i].version
<1> DEFINE i == txn[w].app
<1>1. i \in Apps /\ txn[w].seenApproval = approval[i] /\ approval[i].status = "PENDING"
  BY HeldCopies DEF ApprovalCopyCurrent, SaveApproval
<1>2. approval \in [Apps -> ApprovalDoc] /\ approval[i] \in ApprovalDoc
  BY <1>1 DEF IInv, TypeOK
<1> DEFINE v == approval[i].version + 1
           d == [approval[i] EXCEPT !.status = st, !.version = v]
<1>3. v \in Nat /\ v > approval[i].version
  BY <1>2 DEF ApprovalDoc
<1>4. approval' = [approval EXCEPT ![i] = d]
  BY <1>1 DEF SaveApproval
<1> HIDE DEF v
<1>5. d \in ApprovalDoc /\ d.status = st /\ d.animal = approval[i].animal /\ d.version = v
  BY <1>2, <1>3 DEF ApprovalDoc
<1> HIDE DEF d
<1>6. approval' \in [Apps -> ApprovalDoc] /\ approval'[i] = d
      /\ \A j \in Apps \ {i} : approval'[j] = approval[j]
  BY <1>1, <1>2, <1>4, <1>5
<1> QED
  BY <1>1, <1>3, <1>5, <1>6

\* One animal moves and one application i is answerable for where it goes;
\* every other application stays as it was, and live only for other animals,
\* or lets go of this animal.
LEMMA HolderStep ==
    ASSUME IInv, NEW a \in Animals, NEW i \in Apps,
           app'[i].animal = a,
           \A b \in Animals \ {a} : animal'[b] = animal[b],
           \A j \in Apps \ {i} :
              \/ app'[j] = app[j] /\ (Live(j) => app[j].animal # a)
              \/ ~Live(j)' /\ (Live(j) => app[j].animal = a),
           Live(i) => app[i].animal = a,
           Live(i)' => animal'[a].status = StageOf(app[i])',
           animal'[a].status \in {"RESERVED", "FOSTERED", "ADOPTED"} => Live(i)'
    PROVE  OneHolder' /\ HolderSetsStage' /\ NoOrphanHold'
<1>1. \A j \in Apps \ {i} : Live(j)' =>
         app'[j] = app[j] /\ Live(j) /\ app[j].animal # a
  BY DEF Live
<1>2. OneHolder'
  BY <1>1 DEF IInv, Consistent, OneHolder
<1>3. HolderSetsStage'
  BY <1>1 DEF IInv, Consistent, HolderSetsStage, StageOf
<1>4. NoOrphanHold'
  <2> SUFFICES ASSUME NEW b \in Animals,
                      animal'[b].status \in {"RESERVED", "FOSTERED", "ADOPTED"}
               PROVE  \E j \in Apps : Live(j)' /\ app'[j].animal = b
    BY DEF NoOrphanHold
  <2>1. CASE b = a
    BY <2>1
  <2>2. CASE b # a
    <3>1. PICK j \in Apps : Live(j) /\ app[j].animal = b
      BY <2>2 DEF IInv, Consistent, NoOrphanHold
    <3>2. j # i /\ app'[j] = app[j]
      BY <2>2, <3>1
    <3>3. Live(j)'
      BY <3>1, <3>2 DEF Live
    <3> QED
      BY <3>1, <3>2, <3>3
  <2> QED
    BY <2>1, <2>2
<1> QED
  BY <1>2, <1>3, <1>4

\* A commit that moves animal a and saves its live application i, and perhaps
\* i's request and rows: what is left to show is about i alone.
LEMMA SaveStepKeeps ==
    ASSUME IInv, NEW w \in Workers, Done(w),
           NEW a \in Animals, NEW s \in AnimalStatus, MovedAnimal(a, s),
           NEW i \in Apps, NEW st \in AppStatus, NEW e \in Ended,
           app' = [app EXCEPT ![i] = SavedTo(i, st, e)],
           app[i].animal = a, Live(i),
           e # "NO" => app[i].kind = "FOSTER" /\ st = "APPROVED",
           st = "RETURNED" => app[i].kind = "ADOPTION",
           approval' \in [Apps -> ApprovalDoc],
           \A j \in Apps \ {i} : approval'[j] = approval[j],
           \/ approval'[i] = approval[i]
           \/ /\ approval[i].status # "ABSENT"
              /\ approval'[i].status # "ABSENT"
              /\ approval'[i].version > approval[i].version
              /\ approval'[i].animal = approval[i].animal,
           rows' \in [Apps -> [RowTypes -> Nat]],
           \A j \in Apps \ {i} : rows'[j] = rows[j],
           Live(i)' => s = StageOf(app[i])',
           s \in {"RESERVED", "FOSTERED", "ADOPTED"} => Live(i)',
           Mirrors(i)', TrailComplete(i)'
    PROVE  IInv'
<1> DEFINE d == SavedTo(i, st, e)
<1>1. /\ d \in AppDoc
      /\ d.status = st /\ d.ended = e /\ d.kind = app[i].kind
      /\ d.animal = a /\ d.version > app[i].version /\ st # "ABSENT"
  BY SavedToTyped
<1> HIDE DEF d
<1>2. /\ app' \in [Apps -> AppDoc] /\ app'[i] = d
      /\ \A j \in Apps \ {i} : app'[j] = app[j]
  BY <1>1 DEF d, IInv, TypeOK
<1>3. /\ animal' \in [Animals -> AnimalDoc]
      /\ \A b \in Animals \ {a} : animal'[b] = animal[b]
      /\ animal'[a].status = s /\ animal'[a].version > animal[a].version /\ s # "ABSENT"
  BY MovedAnimalTyped
<1>4. Advance
  BY <1>1, <1>2, <1>3 DEF Advance
<1>5. OneHolder' /\ HolderSetsStage' /\ NoOrphanHold'
  <2>1. \A j \in Apps \ {i} : Live(j) => app[j].animal # a
    BY DEF IInv, Consistent, OneHolder
  <2> QED
    BY <1>1, <1>2, <1>3, <2>1, HolderStep
<1>6. AppWellFormed'
  <2>1. app[i].status # "ABSENT" /\ app[i].kind \in Kinds
    BY DEF Live, IInv, Consistent, AppWellFormed
  <2> QED
    BY <1>1, <1>2, <2>1 DEF IInv, Consistent, AppWellFormed
<1>7. ApprovalMirrorsApplication'
  <2> SUFFICES ASSUME NEW j \in Apps
               PROVE  Mirrors(j)'
    BY DEF ApprovalMirrorsApplication
  <2>1. CASE j = i
    BY <2>1
  <2>2. CASE j # i
    <3>1. Mirrors(j)
      BY DEF IInv, Consistent, ApprovalMirrorsApplication
    <3>2. app'[j] = app[j] /\ approval'[j] = approval[j]
      BY <1>2, <2>2
    <3> QED
      BY <3>1, <3>2 DEF Mirrors
  <2> QED
    BY <2>1, <2>2
<1>8. EffectsExactlyOnce'
  <2> SUFFICES ASSUME NEW j \in Apps
               PROVE  TrailComplete(j)'
    BY DEF EffectsExactlyOnce
  <2>1. CASE j = i
    BY <2>1
  <2>2. CASE j # i
    <3>1. TrailComplete(j)
      BY DEF IInv, Consistent, EffectsExactlyOnce
    <3>2. app'[j] = app[j] /\ approval'[j] = approval[j] /\ rows'[j] = rows[j]
      BY <1>2, <2>2
    <3> QED
      BY <3>1, <3>2 DEF TrailComplete, RowsDue
  <2> QED
    BY <2>1, <2>2
<1> QED
  BY <1>2, <1>3, <1>4, <1>5, <1>6, <1>7, <1>8, CommitStepKeeps DEF Consistent

\* What a decision finds when it commits: the request, its application and its
\* animal as they are stored, and the application still under review.
LEMMA DecisionIsCurrent ==
    ASSUME IInv, NEW w \in Workers, AtCommit(w, "DECIDE"), NEW st \in ApprovalStatus,
           NEW m, SaveApproval(txn[w], st), AppFresh(txn[w]), MoveAnimal(txn[w], m),
           NEW i, i = txn[w].app
    PROVE  /\ i \in Apps /\ approval[i].status = "PENDING" /\ txn[w].seenApp = app[i]
           /\ app[i].status = "PENDING" /\ app[i].ended = "NO" /\ app[i].kind \in Kinds
           /\ app[i].animal \in Animals /\ animal[app[i].animal].status \in MoveFrom(m)
           /\ MovedAnimal(app[i].animal, MoveTo(m))
           /\ \A e : SavedApp(txn[w], st, e) = SavedTo(i, st, e)
           /\ approval' \in [Apps -> ApprovalDoc]
           /\ \A j \in Apps \ {i} : approval'[j] = approval[j]
           /\ approval'[i].status = st
           /\ approval'[i].version > approval[i].version
           /\ approval'[i].animal = approval[i].animal
<1> DEFINE t == txn[w]
<1>1. /\ Prepared(t) /\ t.op = "DECIDE" /\ t.step = "commit"
      /\ t.seenApp.status # "ABSENT" /\ t.seenApproval.status # "ABSENT"
  BY HeldCopies DEF AtCommit, Prepared
<1>2. /\ i \in Apps /\ t.seenApp = app[i]
      /\ \A e : SavedApp(t, st, e) = SavedTo(i, st, e)
  BY <1>1, SavedAppIsCurrent
<1>3. /\ t.seenApproval = approval[i] /\ approval[i].status = "PENDING"
      /\ approval' \in [Apps -> ApprovalDoc]
      /\ \A j \in Apps \ {i} : approval'[j] = approval[j]
      /\ approval'[i].status = st
      /\ approval'[i].animal = approval[i].animal
      /\ approval'[i].version > approval[i].version
  BY <1>1, SaveApprovalIsCurrent
<1>4. app[i].status = "PENDING" /\ app[i].animal = approval[i].animal
  BY <1>2, <1>3 DEF IInv, Consistent, ApprovalMirrorsApplication, Mirrors
<1>5. app[i].kind \in Kinds /\ app[i].ended = "NO" /\ app[i].animal \in Animals
  BY <1>2, <1>4 DEF IInv, Consistent, AppWellFormed
<1>6. /\ t.animal = app[i].animal /\ animal[t.animal].status \in MoveFrom(m)
      /\ MovedAnimal(t.animal, MoveTo(m))
  BY <1>1, <1>3, <1>4, MoveAnimalIsCurrent DEF Prepared, TargetAnimal
<1> QED
  BY <1>2, <1>3, <1>4, <1>5, <1>6

\* An approval keeps the invariant (decide-approval, onApproved).
LEMMA CommitApproveKeeps ==
    ASSUME IInv, NEW w \in Workers, CommitApprove(w)
    PROVE  IInv'
<1>0. PICK i : i = txn[w].app
  OBVIOUS
<1>m. PICK m : m = IF txn[w].seenApp.kind = "ADOPTION" THEN "markAdopted" ELSE "markFostered"
  OBVIOUS
<1>1. /\ AtCommit(w, "DECIDE") /\ SaveApproval(txn[w], "APPROVED") /\ AppFresh(txn[w])
      /\ MoveAnimal(txn[w], m)
      /\ app' = [app EXCEPT ![i] = SavedApp(txn[w], "APPROVED", "NO")]
      /\ Insert(i, {"DECIDE_ACTION", "APPROVED_EVENT", "DECIDED_NOTICE"})
      /\ Done(w)
  BY <1>0, <1>m DEF CommitApprove
<1>d. "APPROVED" \in ApprovalStatus
  BY DEF ApprovalStatus
<1>2. /\ i \in Apps /\ approval[i].status = "PENDING" /\ txn[w].seenApp = app[i]
      /\ app[i].status = "PENDING" /\ app[i].ended = "NO" /\ app[i].kind \in Kinds
      /\ app[i].animal \in Animals
      /\ MovedAnimal(app[i].animal, MoveTo(m))
      /\ SavedApp(txn[w], "APPROVED", "NO") = SavedTo(i, "APPROVED", "NO")
      /\ approval' \in [Apps -> ApprovalDoc]
      /\ \A j \in Apps \ {i} : approval'[j] = approval[j]
      /\ approval'[i].status = "APPROVED"
      /\ approval'[i].version > approval[i].version
      /\ approval'[i].animal = approval[i].animal
  BY <1>0, <1>1, <1>d, DecisionIsCurrent
<1>3. /\ MoveTo(m) = (IF app[i].kind = "ADOPTION" THEN "ADOPTED" ELSE "FOSTERED")
      /\ MoveTo(m) \in AnimalStatus
  BY <1>2, <1>m DEF MoveTo, AnimalStatus
<1>4. /\ app'[i].status = "APPROVED" /\ app'[i].ended = "NO" /\ app'[i].kind = app[i].kind
      /\ "APPROVED" \in AppStatus /\ "NO" \in Ended
  BY <1>1, <1>2, SavedToTyped DEF AppStatus, Ended, IInv, TypeOK
<1>5. /\ rows' \in [Apps -> [RowTypes -> Nat]]
      /\ \A j \in Apps \ {i} : rows'[j] = rows[j]
      /\ \A r \in RowTypes :
            rows'[i][r] = IF r \in {"DECIDE_ACTION", "APPROVED_EVENT", "DECIDED_NOTICE"}
                          THEN rows[i][r] + 1 ELSE rows[i][r]
  BY <1>1, <1>2, InsertTyped
<1>6. Live(i) /\ Live(i)' /\ MoveTo(m) = StageOf(app[i])'
  BY <1>2, <1>3, <1>4 DEF Live, StageOf, Kinds
<1>7. Mirrors(i)'
  BY <1>2, <1>4 DEF Mirrors
<1>8. TrailComplete(i)'
  BY <1>2, <1>4, <1>5 DEF IInv, Consistent, EffectsExactlyOnce, TrailComplete, RowsDue, RowTypes
<1>9. PICK s \in AnimalStatus, a \in Animals :
        s = MoveTo(m) /\ a = app[i].animal /\ MovedAnimal(a, s)
  BY <1>2, <1>3
<1>10. app' = [app EXCEPT ![i] = SavedTo(i, "APPROVED", "NO")]
  BY <1>1, <1>2
<1>11. Done(w) /\ (Live(i)' => s = StageOf(app[i])')
  BY <1>1, <1>6, <1>9
<1>12. approval[i].status # "ABSENT" /\ approval'[i].status # "ABSENT"
  BY <1>2
<1> QED
  BY <1>2, <1>4, <1>5, <1>6, <1>7, <1>8, <1>9, <1>10, <1>11, <1>12, SaveStepKeeps

\* A rejection keeps the invariant (decide-approval, onRejected).
LEMMA CommitRejectKeeps ==
    ASSUME IInv, NEW w \in Workers, CommitReject(w)
    PROVE  IInv'
<1>0. PICK i : i = txn[w].app
  OBVIOUS
<1>1. /\ AtCommit(w, "DECIDE") /\ SaveApproval(txn[w], "REJECTED") /\ AppFresh(txn[w])
      /\ MoveAnimal(txn[w], "release")
      /\ app' = [app EXCEPT ![i] = SavedApp(txn[w], "REJECTED", "NO")]
      /\ Insert(i, {"DECIDE_ACTION", "DECIDED_NOTICE"})
      /\ Done(w)
  BY <1>0 DEF CommitReject
<1>d. "REJECTED" \in ApprovalStatus /\ MoveTo("release") = "AVAILABLE"
  BY DEF ApprovalStatus, MoveTo
<1>2. /\ i \in Apps /\ approval[i].status = "PENDING"
      /\ app[i].status = "PENDING" /\ app[i].ended = "NO"
      /\ app[i].animal \in Animals
      /\ MovedAnimal(app[i].animal, "AVAILABLE")
      /\ SavedApp(txn[w], "REJECTED", "NO") = SavedTo(i, "REJECTED", "NO")
      /\ approval' \in [Apps -> ApprovalDoc]
      /\ \A j \in Apps \ {i} : approval'[j] = approval[j]
      /\ approval'[i].status = "REJECTED"
      /\ approval'[i].version > approval[i].version
      /\ approval'[i].animal = approval[i].animal
  BY <1>0, <1>1, <1>d, DecisionIsCurrent
<1>3. /\ app'[i].status = "REJECTED" /\ app'[i].ended = "NO"
      /\ "REJECTED" \in AppStatus /\ "NO" \in Ended /\ "AVAILABLE" \in AnimalStatus
  BY <1>1, <1>2, SavedToTyped DEF AppStatus, Ended, AnimalStatus, IInv, TypeOK
<1>4. /\ rows' \in [Apps -> [RowTypes -> Nat]]
      /\ \A j \in Apps \ {i} : rows'[j] = rows[j]
      /\ \A r \in RowTypes :
            rows'[i][r] = IF r \in {"DECIDE_ACTION", "DECIDED_NOTICE"}
                          THEN rows[i][r] + 1 ELSE rows[i][r]
  BY <1>1, <1>2, InsertTyped
<1>5. Live(i) /\ ~Live(i)'
  BY <1>2, <1>3 DEF Live
<1>6. Mirrors(i)'
  BY <1>2, <1>3 DEF Mirrors
<1>7. TrailComplete(i)'
  BY <1>2, <1>3, <1>4 DEF IInv, Consistent, EffectsExactlyOnce, TrailComplete, RowsDue, RowTypes
<1>8. PICK a \in Animals : a = app[i].animal /\ MovedAnimal(a, "AVAILABLE")
  BY <1>2
<1>9. app' = [app EXCEPT ![i] = SavedTo(i, "REJECTED", "NO")]
  BY <1>1, <1>2
<1>10. approval[i].status # "ABSENT" /\ approval'[i].status # "ABSENT" /\ Done(w)
  BY <1>1, <1>2
<1> QED
  BY <1>2, <1>3, <1>4, <1>5, <1>6, <1>7, <1>8, <1>9, <1>10, SaveStepKeeps

\* What the end of a foster or a return finds when it commits.
LEMMA EndingIsCurrent ==
    ASSUME IInv, NEW w \in Workers, txn[w].step = "commit",
           txn[w].op \in {"TERMINATE", "CONVERT", "RETURN"},
           NEW m, AppFresh(txn[w]), MoveAnimal(txn[w], m),
           NEW i, i = txn[w].app
    PROVE  /\ i \in Apps /\ txn[w].seenApp = app[i] /\ app[i].status # "ABSENT"
           /\ app[i].kind \in Kinds /\ app[i].animal \in Animals
           /\ txn[w].op \in {"TERMINATE", "CONVERT"} => IsActiveFoster(app[i])
           /\ txn[w].op = "RETURN" => app[i].kind = "ADOPTION"
           /\ MovedAnimal(app[i].animal, MoveTo(m))
           /\ \A st, e : SavedApp(txn[w], st, e) = SavedTo(i, st, e)
<1> DEFINE t == txn[w]
<1>1. /\ Prepared(t) /\ t.seenApp.status # "ABSENT"
      /\ t.op \in {"TERMINATE", "CONVERT"} => IsActiveFoster(t.seenApp)
      /\ t.op = "RETURN" => t.seenApp.kind = "ADOPTION"
  BY HeldCopies DEF Prepared, IsActiveFoster
<1>2. /\ i \in Apps /\ t.seenApp = app[i]
      /\ \A st, e : SavedApp(t, st, e) = SavedTo(i, st, e)
  BY <1>1, SavedAppIsCurrent
<1>3. app[i].kind \in Kinds /\ app[i].animal \in Animals
  BY <1>1, <1>2 DEF IInv, Consistent, AppWellFormed
<1>4. t.animal = app[i].animal /\ MovedAnimal(t.animal, MoveTo(m))
  BY <1>1, <1>2, MoveAnimalIsCurrent DEF Prepared, TargetAnimal
<1> QED
  BY <1>1, <1>2, <1>3, <1>4

\* The end of a foster keeps the invariant (terminate-foster).
LEMMA CommitTerminateKeeps ==
    ASSUME IInv, NEW w \in Workers, CommitTerminate(w)
    PROVE  IInv'
<1>0. PICK i : i = txn[w].app
  OBVIOUS
<1>1. /\ txn[w].op = "TERMINATE" /\ txn[w].step = "commit" /\ AppFresh(txn[w])
      /\ MoveAnimal(txn[w], "endFoster")
      /\ app' = [app EXCEPT ![i] = SavedApp(txn[w], txn[w].seenApp.status, "TERMINATED")]
      /\ Insert(i, {"TERMINATED_EVENT", "TERMINATED_NOTICE"})
      /\ approval' = approval /\ Done(w)
  BY <1>0 DEF CommitTerminate, AtCommit
<1>2. MoveTo("endFoster") = "AVAILABLE"
  BY DEF MoveTo
<1>3. /\ i \in Apps /\ IsActiveFoster(app[i]) /\ app[i].animal \in Animals
      /\ MovedAnimal(app[i].animal, "AVAILABLE")
      /\ txn[w].seenApp = app[i]
      /\ SavedApp(txn[w], app[i].status, "TERMINATED") = SavedTo(i, app[i].status, "TERMINATED")
  BY <1>0, <1>1, <1>2, EndingIsCurrent
<1>4. app[i].kind = "FOSTER" /\ app[i].status = "APPROVED" /\ app[i].ended = "NO"
  BY <1>3 DEF IsActiveFoster
<1>5. app' = [app EXCEPT ![i] = SavedTo(i, "APPROVED", "TERMINATED")]
  BY <1>1, <1>3, <1>4
<1>6. /\ app'[i].status = "APPROVED" /\ app'[i].ended = "TERMINATED"
      /\ app'[i].kind = "FOSTER"
      /\ "APPROVED" \in AppStatus /\ "TERMINATED" \in Ended /\ "AVAILABLE" \in AnimalStatus
  BY <1>3, <1>4, <1>5, SavedToTyped DEF AppStatus, Ended, AnimalStatus, IInv, TypeOK
<1>7. approval[i].status = "APPROVED"
  <2>1. Mirrors(i) /\ app[i] # NoAppDoc
    BY <1>3, <1>4 DEF IInv, Consistent, ApprovalMirrorsApplication, NoAppDoc
  <2>2. approval[i].status \in ApprovalStatus \cup {"ABSENT"}
    BY <1>3 DEF IInv, TypeOK, ApprovalDoc
  <2> QED
    BY <1>4, <2>1, <2>2 DEF Mirrors, ApprovalStatus
<1>8. /\ rows' \in [Apps -> [RowTypes -> Nat]]
      /\ \A j \in Apps \ {i} : rows'[j] = rows[j]
      /\ \A r \in RowTypes :
            rows'[i][r] = IF r \in {"TERMINATED_EVENT", "TERMINATED_NOTICE"}
                          THEN rows[i][r] + 1 ELSE rows[i][r]
  BY <1>1, <1>3, InsertTyped
<1>9. Live(i) /\ ~Live(i)'
  BY <1>4, <1>6 DEF Live
<1>10. Mirrors(i)'
  BY <1>1, <1>6, <1>7 DEF Mirrors
<1>11. TrailComplete(i)'
  BY <1>1, <1>3, <1>4, <1>6, <1>7, <1>8
     DEF IInv, Consistent, EffectsExactlyOnce, TrailComplete, RowsDue, RowTypes
<1>12. PICK a \in Animals : a = app[i].animal /\ MovedAnimal(a, "AVAILABLE")
  BY <1>3
<1>13. /\ approval' \in [Apps -> ApprovalDoc]
       /\ \A j \in Apps : approval'[j] = approval[j]
  BY <1>1 DEF IInv, TypeOK
<1>14. Done(w)
  BY <1>1
<1> QED
  BY <1>3, <1>4, <1>5, <1>6, <1>8, <1>9, <1>10, <1>11, <1>12, <1>13, <1>14, SaveStepKeeps

\* A return keeps the invariant (return-adoption).
LEMMA CommitReturnKeeps ==
    ASSUME IInv, NEW w \in Workers, CommitReturn(w)
    PROVE  IInv'
<1>0. PICK i : i = txn[w].app
  OBVIOUS
<1>1. /\ txn[w].op = "RETURN" /\ txn[w].step = "commit" /\ AppFresh(txn[w])
      /\ MoveAnimal(txn[w], "markReturned") /\ txn[w].seenApp.status = "APPROVED"
      /\ app' = [app EXCEPT ![i] = SavedApp(txn[w], "RETURNED", "NO")]
      /\ approval' = approval /\ rows' = rows /\ Done(w)
  BY <1>0 DEF CommitReturn, AtCommit
<1>2. MoveTo("markReturned") = "RETURNED"
  BY DEF MoveTo
<1>3. /\ i \in Apps /\ app[i].kind = "ADOPTION" /\ app[i].animal \in Animals
      /\ MovedAnimal(app[i].animal, "RETURNED")
      /\ txn[w].seenApp = app[i]
      /\ SavedApp(txn[w], "RETURNED", "NO") = SavedTo(i, "RETURNED", "NO")
  BY <1>0, <1>1, <1>2, EndingIsCurrent
<1>4. app[i].status = "APPROVED" /\ app[i].ended = "NO"
  BY <1>1, <1>3 DEF IInv, Consistent, AppWellFormed, TypeOK, AppDoc
<1>5. app' = [app EXCEPT ![i] = SavedTo(i, "RETURNED", "NO")]
  BY <1>1, <1>3
<1>6. /\ app'[i].status = "RETURNED" /\ app'[i].ended = "NO" /\ app'[i].kind = "ADOPTION"
      /\ "RETURNED" \in AppStatus /\ "NO" \in Ended /\ "RETURNED" \in AnimalStatus
  BY <1>3, <1>5, SavedToTyped DEF AppStatus, Ended, AnimalStatus, IInv, TypeOK
<1>7. Live(i) /\ ~Live(i)'
  BY <1>4, <1>6 DEF Live
<1>8. Mirrors(i)'
  <2>1. Mirrors(i) /\ app[i] # NoAppDoc /\ app'[i] # NoAppDoc
    BY <1>3, <1>4, <1>6 DEF IInv, Consistent, ApprovalMirrorsApplication, NoAppDoc
  <2>2. approval[i].status \in ApprovalStatus \cup {"ABSENT"}
    BY <1>3 DEF IInv, TypeOK, ApprovalDoc
  <2> QED
    BY <1>1, <1>4, <1>6, <2>1, <2>2 DEF Mirrors, ApprovalStatus
<1>9. TrailComplete(i)'
  BY <1>1, <1>3, <1>4, <1>6
     DEF IInv, Consistent, EffectsExactlyOnce, TrailComplete, RowsDue
<1>10. PICK a \in Animals : a = app[i].animal /\ MovedAnimal(a, "RETURNED")
  BY <1>3
<1>11. /\ approval' \in [Apps -> ApprovalDoc] /\ rows' \in [Apps -> [RowTypes -> Nat]]
       /\ \A j \in Apps : approval'[j] = approval[j] /\ rows'[j] = rows[j]
  BY <1>1 DEF IInv, TypeOK
<1>12. Done(w) /\ "RETURNED" \notin {"RESERVED", "FOSTERED", "ADOPTED"}
  BY <1>1
<1> QED
  BY <1>3, <1>4, <1>5, <1>6, <1>7, <1>8, <1>9, <1>10, <1>11, <1>12, SaveStepKeeps

\* A conversion keeps the invariant (convert-foster-to-adoption).
LEMMA CommitConvertKeeps ==
    ASSUME IInv, NEW w \in Workers, NEW j \in Apps, CommitConvert(w, j)
    PROVE  IInv'
<1>0. PICK i : i = txn[w].app
  OBVIOUS
<1> DEFINE new == [NoAppDoc EXCEPT !.kind = "ADOPTION", !.animal = app[i].animal,
                                   !.applicant = app[i].applicant, !.status = "APPROVED"]
           d == SavedTo(i, "APPROVED", "CONVERTED")
<1>1. /\ txn[w].op = "CONVERT" /\ txn[w].step = "commit" /\ AppFresh(txn[w])
      /\ MoveAnimal(txn[w], "markAdopted") /\ app[j].status = "ABSENT"
      /\ approval' = approval /\ rows' = rows /\ Done(w)
  BY DEF CommitConvert, AtCommit
<1>2. MoveTo("markAdopted") = "ADOPTED"
  BY DEF MoveTo
<1>3. /\ i \in Apps /\ IsActiveFoster(app[i]) /\ app[i].animal \in Animals
      /\ MovedAnimal(app[i].animal, "ADOPTED") /\ txn[w].seenApp = app[i]
      /\ SavedApp(txn[w], app[i].status, "CONVERTED") = SavedTo(i, app[i].status, "CONVERTED")
  BY <1>0, <1>1, <1>2, EndingIsCurrent
<1>4. app[i].kind = "FOSTER" /\ app[i].status = "APPROVED" /\ app[i].ended = "NO" /\ i # j
  BY <1>1, <1>3 DEF IsActiveFoster
<1>5. app' = [app EXCEPT ![i] = d, ![j] = new]
  BY <1>0, <1>1, <1>3, <1>4 DEF CommitConvert
<1>6. /\ d \in AppDoc
      /\ d.status = "APPROVED" /\ d.ended = "CONVERTED" /\ d.kind = "FOSTER"
      /\ d.animal = app[i].animal /\ d.version > app[i].version
  BY <1>3, <1>4, SavedToTyped DEF AppStatus, Ended
<1>7. app[i] \in AppDoc
  BY <1>3 DEF IInv, TypeOK
<1>8. /\ new \in AppDoc
      /\ new.status = "APPROVED" /\ new.ended = "NO" /\ new.kind = "ADOPTION"
      /\ new.animal = app[i].animal
  BY <1>7 DEF NoAppDoc, AppDoc, AppStatus, Ended, Kinds
<1> HIDE DEF d, new
<1>9. /\ app' \in [Apps -> AppDoc] /\ app'[i] = d /\ app'[j] = new
      /\ \A k \in Apps \ {i, j} : app'[k] = app[k]
  BY <1>3, <1>4, <1>5, <1>6, <1>8 DEF IInv, TypeOK
<1>10. PICK a \in Animals : a = app[i].animal /\ MovedAnimal(a, "ADOPTED")
  BY <1>3
<1>11. /\ animal' \in [Animals -> AnimalDoc]
       /\ \A b \in Animals \ {a} : animal'[b] = animal[b]
       /\ animal'[a].status = "ADOPTED" /\ animal'[a].version > animal[a].version
  BY <1>10, MovedAnimalTyped DEF AnimalStatus
<1>12. app[j] = NoAppDoc /\ approval[j].status = "ABSENT" /\ ~Live(j)
  BY <1>1 DEF IInv, Consistent, AppWellFormed, NoApprovalDoc, NoAppDoc, Live
<1>13. Live(i) /\ ~Live(i)' /\ Live(j)'
  BY <1>4, <1>6, <1>8, <1>9 DEF Live
<1>14. Advance
  BY <1>1, <1>4, <1>6, <1>9, <1>10, <1>11 DEF Advance
<1>15. OneHolder' /\ HolderSetsStage' /\ NoOrphanHold'
  <2>1. \A k \in Apps \ {i} : Live(k) => app[k].animal # a
    BY <1>3, <1>10, <1>13 DEF IInv, Consistent, OneHolder
  <2>2. \A k \in Apps \ {j} :
          \/ app'[k] = app[k] /\ (Live(k) => app[k].animal # a)
          \/ ~Live(k)' /\ (Live(k) => app[k].animal = a)
    BY <1>9, <1>10, <1>13, <2>1
  <2>3. StageOf(app[j])' = "ADOPTED" /\ app'[j].animal = a
    BY <1>8, <1>9, <1>10 DEF StageOf
  <2> QED
    BY <1>11, <1>12, <1>13, <2>2, <2>3, HolderStep
<1>16. AppWellFormed'
  BY <1>1, <1>3, <1>4, <1>6, <1>8, <1>9, <1>12 DEF IInv, Consistent, AppWellFormed, Kinds
<1>17. ApprovalMirrorsApplication'
  <2>1. \A k \in Apps \ {i, j} : Mirrors(k)'
    BY <1>1, <1>9 DEF IInv, Consistent, ApprovalMirrorsApplication, Mirrors
  <2>2. Mirrors(j)'
    BY <1>1, <1>8, <1>9, <1>12 DEF Mirrors
  <2>3. Mirrors(i) /\ app[i] # NoAppDoc
    BY <1>3, <1>4 DEF IInv, Consistent, ApprovalMirrorsApplication, NoAppDoc
  <2>4. approval[i].status \in ApprovalStatus \cup {"ABSENT"}
    BY <1>3 DEF IInv, TypeOK, ApprovalDoc
  <2>5. Mirrors(i)'
    BY <1>1, <1>4, <1>6, <1>9, <2>3, <2>4 DEF Mirrors, ApprovalStatus
  <2> QED
    BY <2>1, <2>2, <2>5 DEF ApprovalMirrorsApplication
<1>18. EffectsExactlyOnce'
  BY <1>1, <1>4, <1>6, <1>8, <1>9, <1>12
     DEF IInv, Consistent, EffectsExactlyOnce, TrailComplete, RowsDue, NoAppDoc
<1>19. approval' \in [Apps -> ApprovalDoc] /\ rows' \in [Apps -> [RowTypes -> Nat]]
  BY <1>1 DEF IInv, TypeOK
<1>20. Consistent'
  BY <1>15, <1>16, <1>17, <1>18 DEF Consistent
<1> QED
  BY <1>1, <1>9, <1>11, <1>14, <1>19, <1>20, CommitStepKeeps

\* A submission keeps the invariant (submit-adoption, submit-foster).
LEMMA CommitSubmitKeeps ==
    ASSUME IInv, NEW w \in Workers, NEW i \in Apps, CommitSubmit(w, i)
    PROVE  IInv'
<1>0. PICK t : t = txn[w]
  OBVIOUS
<1> DEFINE new == [NoAppDoc EXCEPT !.kind = t.arg, !.animal = t.animal,
                                   !.applicant = t.actor, !.status = "PENDING"]
           req == [NoApprovalDoc EXCEPT !.animal = t.animal, !.status = "PENDING"]
<1>1. /\ txn[w].op = "SUBMIT" /\ txn[w].step = "commit" /\ app[i].status = "ABSENT"
      /\ MoveAnimal(txn[w], "reserve")
      /\ app' = [app EXCEPT ![i] = new] /\ approval' = [approval EXCEPT ![i] = req]
      /\ Insert(i, {"SUBMIT_ACTION", "APPLIED_NOTICE"}) /\ Done(w)
  BY <1>0 DEF CommitSubmit, AtCommit
<1>2. t.arg \in Kinds /\ t.actor \in Members
  BY <1>0, <1>1, HeldCopies DEF Prepared
<1>3. MoveTo("reserve") = "RESERVED" /\ MoveFrom("reserve") = {"AVAILABLE"}
  BY DEF MoveTo, MoveFrom
<1>4. PICK a \in Animals : /\ a = t.animal /\ animal[a].status = "AVAILABLE"
                           /\ MovedAnimal(a, "RESERVED")
  BY <1>0, <1>1, <1>3, MoveAnimalIsCurrent
<1>5. /\ new \in AppDoc
      /\ new.status = "PENDING" /\ new.ended = "NO" /\ new.kind \in Kinds
      /\ new.animal = a
  BY <1>2, <1>4 DEF NoAppDoc, AppDoc, AppStatus, Ended
<1>6. /\ req \in ApprovalDoc /\ req.status = "PENDING" /\ req.animal = a
  BY <1>4 DEF NoApprovalDoc, ApprovalDoc, ApprovalStatus
<1> HIDE DEF new, req
<1>7. /\ app' \in [Apps -> AppDoc] /\ app'[i] = new
      /\ \A k \in Apps \ {i} : app'[k] = app[k]
      /\ approval' \in [Apps -> ApprovalDoc] /\ approval'[i] = req
      /\ \A k \in Apps \ {i} : approval'[k] = approval[k]
  BY <1>1, <1>5, <1>6 DEF IInv, TypeOK
<1>8. /\ animal' \in [Animals -> AnimalDoc]
      /\ \A b \in Animals \ {a} : animal'[b] = animal[b]
      /\ animal'[a].status = "RESERVED" /\ animal'[a].version > animal[a].version
  BY <1>4, MovedAnimalTyped DEF AnimalStatus
<1>9. app[i] = NoAppDoc /\ approval[i].status = "ABSENT" /\ ~Live(i) /\ app[i].ended = "NO"
  BY <1>1 DEF IInv, Consistent, AppWellFormed, NoApprovalDoc, NoAppDoc, Live
<1>10. /\ rows' \in [Apps -> [RowTypes -> Nat]]
       /\ \A j \in Apps \ {i} : rows'[j] = rows[j]
       /\ \A r \in RowTypes :
             rows'[i][r] = IF r \in {"SUBMIT_ACTION", "APPLIED_NOTICE"}
                           THEN rows[i][r] + 1 ELSE rows[i][r]
  BY <1>1, InsertTyped
<1>11. Advance
  BY <1>7, <1>8, <1>9, <1>1 DEF Advance
<1>12. OneHolder' /\ HolderSetsStage' /\ NoOrphanHold'
  <2>0. \A d : StageOf(d) # "AVAILABLE"
    BY DEF StageOf
  <2>1. ASSUME NEW k \in Apps, Live(k), app[k].animal = a PROVE FALSE
    <3>1. animal[app[k].animal].status = StageOf(app[k])
      BY <2>1 DEF IInv, Consistent, HolderSetsStage
    <3> QED
      BY <1>4, <2>0, <2>1, <3>1
  <2>2. app'[i].status = "PENDING" /\ app'[i].animal = a
    BY <1>5, <1>7
  <2>3. Live(i)'
    BY <2>2 DEF Live
  <2>4. StageOf(app[i])' = "RESERVED"
    BY <2>2 DEF StageOf
  <2> QED
    BY <1>7, <1>8, <1>9, <2>1, <2>2, <2>3, <2>4, HolderStep
<1>13. AppWellFormed'
  BY <1>5, <1>6, <1>7 DEF IInv, Consistent, AppWellFormed
<1>14. ApprovalMirrorsApplication'
  <2>1. \A k \in Apps \ {i} : Mirrors(k)'
    BY <1>7 DEF IInv, Consistent, ApprovalMirrorsApplication, Mirrors
  <2>2. Mirrors(i)'
    BY <1>5, <1>6, <1>7 DEF Mirrors
  <2> QED
    BY <2>1, <2>2 DEF ApprovalMirrorsApplication
<1>15. EffectsExactlyOnce'
  BY <1>5, <1>6, <1>7, <1>9, <1>10
     DEF IInv, Consistent, EffectsExactlyOnce, TrailComplete, RowsDue, RowTypes
<1>16. Consistent'
  BY <1>12, <1>13, <1>14, <1>15 DEF Consistent
<1> QED
  BY <1>1, <1>7, <1>8, <1>10, <1>11, <1>16, CommitStepKeeps

\* A step that changes no application, request or row, and moves no animal that
\* is held or comes to be held, keeps the collections consistent.
LEMMA AnimalOnlyKeeps ==
    ASSUME IInv, app' = app, approval' = approval, rows' = rows,
           \A a \in Animals :
              \/ animal'[a].status = animal[a].status
              \/ {animal[a].status, animal'[a].status}
                     \cap {"RESERVED", "FOSTERED", "ADOPTED"} = {}
    PROVE  Consistent'
<1>1. AppWellFormed' /\ OneHolder'
  BY DEF IInv, Consistent, AppWellFormed, OneHolder, Live
<1>2. ApprovalMirrorsApplication' /\ EffectsExactlyOnce'
  BY DEF IInv, Consistent, ApprovalMirrorsApplication, Mirrors, EffectsExactlyOnce,
         TrailComplete, RowsDue
<1>3. \A i \in Apps : Live(i)' <=> Live(i)
  BY DEF Live
<1>4. \A d : StageOf(d) \in {"RESERVED", "FOSTERED", "ADOPTED"}
  BY DEF StageOf
<1>5. HolderSetsStage'
  BY <1>3, <1>4 DEF IInv, Consistent, HolderSetsStage
<1>6. NoOrphanHold'
  BY <1>3 DEF IInv, Consistent, NoOrphanHold
<1> QED
  BY <1>1, <1>2, <1>5, <1>6 DEF Consistent

\* Relisting keeps the invariant (relist-animal).
LEMMA CommitRelistKeeps ==
    ASSUME IInv, NEW w \in Workers, CommitRelist(w)
    PROVE  IInv'
<1>1. /\ txn[w].step = "commit" /\ MoveAnimal(txn[w], "relist") /\ Done(w)
      /\ app' = app /\ approval' = approval /\ rows' = rows
  BY DEF CommitRelist, AtCommit
<1>2. MoveTo("relist") = "AVAILABLE" /\ MoveFrom("relist") = {"RETURNED"}
  BY DEF MoveTo, MoveFrom
<1>3. PICK a \in Animals : animal[a].status = "RETURNED" /\ MovedAnimal(a, "AVAILABLE")
  BY <1>1, <1>2, MoveAnimalIsCurrent
<1>4. /\ animal' \in [Animals -> AnimalDoc]
      /\ \A b \in Animals \ {a} : animal'[b] = animal[b]
      /\ animal'[a].status = "AVAILABLE" /\ animal'[a].version > animal[a].version
  BY <1>3, MovedAnimalTyped DEF AnimalStatus
<1>5. Consistent'
  BY <1>1, <1>3, <1>4, AnimalOnlyKeeps
<1>6. Advance
  BY <1>1, <1>4 DEF Advance
<1>7. /\ app' \in [Apps -> AppDoc] /\ approval' \in [Apps -> ApprovalDoc]
      /\ rows' \in [Apps -> [RowTypes -> Nat]]
  BY <1>1 DEF IInv, TypeOK
<1> QED
  BY <1>1, <1>4, <1>5, <1>6, <1>7, CommitStepKeeps

\* A save that leaves the status alone.
LEMMA ProfileSaveKeeps ==
    ASSUME IInv, NEW w \in Workers, txn[w].step = "commit", Done(w),
           NEW b \in {"NO", "YES"}, SaveAnimal(txn[w], txn[w].seenAnimal.status, b),
           app' = app, approval' = approval, rows' = rows
    PROVE  IInv'
<1>0. PICK a : a = txn[w].animal
  OBVIOUS
<1>1. /\ a \in Animals /\ animal[a].status # "ABSENT" /\ txn[w].seenAnimal = animal[a]
  BY <1>0, HeldCopies DEF Prepared, AnimalCopyCurrent, SaveAnimal
<1> DEFINE v == animal[a].version + 1
           d == [animal[a] EXCEPT !.status = animal[a].status, !.blinded = b, !.version = v]
<1>2. animal[a] \in AnimalDoc /\ v \in Nat /\ v > animal[a].version
  BY <1>1 DEF IInv, TypeOK, AnimalDoc
<1>3. animal' = [animal EXCEPT ![a] = d]
  BY <1>0, <1>1 DEF SaveAnimal
<1> HIDE DEF v
<1>4. d \in AnimalDoc /\ d.status = animal[a].status /\ d.version = v
  BY <1>2 DEF AnimalDoc
<1> HIDE DEF d
<1>5. /\ animal' \in [Animals -> AnimalDoc] /\ animal'[a] = d
      /\ \A c \in Animals \ {a} : animal'[c] = animal[c]
  BY <1>1, <1>3, <1>4 DEF IInv, TypeOK
<1>6. Consistent'
  BY <1>4, <1>5, AnimalOnlyKeeps
<1>7. Advance
  BY <1>1, <1>2, <1>4, <1>5 DEF Advance
<1>8. /\ app' \in [Apps -> AppDoc] /\ approval' \in [Apps -> ApprovalDoc]
      /\ rows' \in [Apps -> [RowTypes -> Nat]]
  BY DEF IInv, TypeOK
<1> QED
  BY <1>5, <1>6, <1>7, <1>8, CommitStepKeeps

\* A profile edit keeps the invariant (update-animal-profile).
LEMMA CommitEditKeeps ==
    ASSUME IInv, NEW w \in Workers, CommitEdit(w)
    PROVE  IInv'
<1>1. txn[w].seenAnimal.blinded \in {"NO", "YES"}
  BY HeldCopies DEF Txn, AnimalDoc
<1> QED
  BY <1>1, ProfileSaveKeeps DEF CommitEdit, AtCommit

\* A blind or its undoing keeps the invariant (set-animal-blind).
LEMMA CommitBlindKeeps ==
    ASSUME IInv, NEW w \in Workers, CommitBlind(w)
    PROVE  IInv'
<1>1. (IF txn[w].arg = "BLIND" THEN "YES" ELSE "NO") \in {"NO", "YES"}
  OBVIOUS
<1> QED
  BY <1>1, ProfileSaveKeeps DEF CommitBlind, AtCommit

\* A registration keeps the invariant (register-animal).
LEMMA RegisterKeeps ==
    ASSUME IInv, NEW a \in Animals, NEW e \in SUBSET Kinds, NEW u \in Members,
           Register(a, e, u)
    PROVE  IInv'
<1> DEFINE d == [NoAnimalDoc EXCEPT !.status = "AVAILABLE", !.eligible = e]
<1>1. /\ animal[a].status = "ABSENT" /\ animal' = [animal EXCEPT ![a] = d]
      /\ app' = app /\ approval' = approval /\ rows' = rows /\ txn' = txn
  BY DEF Register
<1>2. d \in AnimalDoc /\ d.status = "AVAILABLE"
  BY DEF NoAnimalDoc, AnimalDoc, AnimalStatus
<1> HIDE DEF d
<1>3. /\ animal' \in [Animals -> AnimalDoc] /\ animal'[a] = d
      /\ \A b \in Animals \ {a} : animal'[b] = animal[b]
  BY <1>1, <1>2 DEF IInv, TypeOK
<1>4. Consistent'
  BY <1>1, <1>2, <1>3, AnimalOnlyKeeps
<1>5. Advance
  BY <1>1, <1>2, <1>3 DEF Advance
<1>6. TypeOK'
  BY <1>1, <1>3 DEF IInv, TypeOK
<1>7. CopiesCurrent'
  BY <1>1, <1>5, <1>6, AdvanceKeepsCopies DEF CopiesCurrent
<1>8. TxnsPrepared'
  BY <1>1 DEF IInv, TxnsPrepared, Prepared
<1>9. AbsentIsBlank'
  BY <1>5 DEF IInv, AbsentIsBlank, Advance
<1> QED
  BY <1>4, <1>6, <1>7, <1>8, <1>9 DEF IInv

-----------------------------------------------------------------------------
\* The inductive invariant

\* Every step of every request preserves the inductive invariant.
LEMMA NextKeepsIInv == IInv /\ [Next]_vars => IInv'
<1> SUFFICES ASSUME IInv, [Next]_vars PROVE IInv'
  OBVIOUS
<1>1. ASSUME NEW a \in Animals, NEW e \in SUBSET Kinds, NEW u \in Members,
             Register(a, e, u)
      PROVE  IInv'
  BY <1>1, RegisterKeeps
<1>2. ASSUME NEW w \in Workers, CommitStep(w)
      PROVE  IInv'
  <2>1. CASE \E i \in Apps : CommitSubmit(w, i)
    BY <2>1, CommitSubmitKeeps
  <2>2. CASE CommitApprove(w)
    BY <2>2, CommitApproveKeeps
  <2>3. CASE CommitReject(w)
    BY <2>3, CommitRejectKeeps
  <2>4. CASE CommitTerminate(w)
    BY <2>4, CommitTerminateKeeps
  <2>5. CASE \E j \in Apps : CommitConvert(w, j)
    BY <2>5, CommitConvertKeeps
  <2>6. CASE CommitReturn(w)
    BY <2>6, CommitReturnKeeps
  <2>7. CASE CommitRelist(w)
    BY <2>7, CommitRelistKeeps
  <2>8. CASE CommitEdit(w)
    BY <2>8, CommitEditKeeps
  <2>9. CASE CommitBlind(w)
    BY <2>9, CommitBlindKeeps
  <2> QED
    BY <1>2, <2>1, <2>2, <2>3, <2>4, <2>5, <2>6, <2>7, <2>8, <2>9 DEF CommitStep
<1>3. ASSUME NEW w \in Workers, BeginStep(w) \/ ReadStep(w) \/ Abort(w)
      PROVE  IInv'
  BY <1>3, BeginKeeps, ReadKeeps, AbortKeeps
<1>4. CASE UNCHANGED vars
  <2>1. CopiesCurrent' /\ TxnsPrepared'
    BY <1>4 DEF vars, IInv, CopiesCurrent, AnimalCopyCurrent, AppCopyCurrent,
                ApprovalCopyCurrent, AnimalFresh, AppFresh, ApprovalFresh, TxnsPrepared, Prepared
  <2> QED
    BY <1>4, <2>1, ReadsKeepConsistent DEF vars, IInv, TypeOK, AbsentIsBlank
<1> QED
  BY <1>1, <1>2, <1>3, <1>4 DEF Next

\* The inductive invariant holds in every reachable state.
THEOREM InvariantHolds == Spec => []IInv
<1> QED
  BY InitIInv, NextKeepsIInv, PTL DEF Spec

\* Types: no interleaving of requests leaves a document or a request's copies
\* in a shape the code does not give them.
THEOREM TypesHold == Spec => []TypeOK
<1>1. IInv => TypeOK
  BY DEF IInv
<1> QED
  BY <1>1, InvariantHolds, PTL

\* However many requests run at once, an animal is never held for two.
THEOREM AtMostOneHolder == Spec => []OneHolder
<1>1. IInv => OneHolder
  BY DEF IInv, Consistent
<1> QED
  BY <1>1, InvariantHolds, PTL

\* The animal's status is always the one its live application calls for, and
\* an animal that is reserved, fostered or adopted has a live application.
THEOREM HoldsMatch == Spec => [](HolderSetsStage /\ NoOrphanHold)
<1>1. IInv => HolderSetsStage /\ NoOrphanHold
  BY DEF IInv, Consistent
<1> QED
  BY <1>1, InvariantHolds, PTL

\* The approval engine's request and the application never disagree.
THEOREM EngineAgrees == Spec => []ApprovalMirrorsApplication
<1>1. IInv => ApprovalMirrorsApplication
  BY DEF IInv, Consistent
<1> QED
  BY <1>1, InvariantHolds, PTL

\* Aborted and repeated attempts neither lose nor double an event or a notice.
THEOREM TrailIsExact == Spec => []EffectsExactlyOnce
<1>1. IInv => EffectsExactlyOnce
  BY DEF IInv, Consistent
<1> QED
  BY <1>1, InvariantHolds, PTL

-----------------------------------------------------------------------------
\* Moderation

\* A commit either moves its animal through a transition, or is a profile save.
LEMMA CommitMovesOrSaves ==
    ASSUME NEW w \in Workers, CommitStep(w)
    PROVE  /\ txn[w].step = "commit"
           /\ \/ \E m : MoveAnimal(txn[w], m)
              \/ CommitEdit(w)
              \/ CommitBlind(w)
BY DEF CommitStep, CommitSubmit, CommitApprove, CommitReject, CommitTerminate, CommitConvert,
       CommitReturn, CommitRelist, CommitEdit, CommitBlind, AtCommit

\* Only a commit, or a registration, writes an animal.
LEMMA OthersKeepAnimals ==
    ASSUME NEW w \in Workers, BeginStep(w) \/ ReadStep(w) \/ Abort(w)
    PROVE  animal' = animal
<1>1. CASE BeginStep(w)
  <2>1. ASSUME NEW t, Begin(w, t) PROVE animal' = animal
    BY <2>1 DEF Begin
  <2>2. \E t : Begin(w, t)
    BY <1>1 DEF BeginStep, BeginSubmit, BeginDecide, BeginFosterEnd, BeginReturn,
                BeginAnimalEdit, BeginBlind
  <2> QED
    BY <2>1, <2>2
<1>2. CASE ReadStep(w)
  BY <1>2 DEF ReadStep, Authorize, ReadApplication, ReadAnimal
<1>3. CASE Abort(w)
  BY <1>3 DEF Abort
<1> QED
  BY <1>1, <1>2, <1>3

\* A step changes a blind only by the operator's own commit.
LEMMA StepKeepsModeration ==
    ASSUME IInv, [Next]_vars, NEW a \in Animals, animal'[a].blinded # animal[a].blinded
    PROVE  \E w \in Workers : txn[w].op = "BLIND" /\ txn[w].animal = a /\ txn'[w] = IdleTxn
<1>1. animal \in [Animals -> AnimalDoc] /\ txn \in [Workers -> Txn]
  BY DEF IInv, TypeOK
<1>2. ASSUME NEW b \in Animals, NEW e \in SUBSET Kinds, NEW u \in Members, Register(b, e, u)
      PROVE  FALSE
  BY <1>1, <1>2 DEF Register, IInv, AbsentIsBlank, NoAnimalDoc
<1>3. PICK w \in Workers : CommitStep(w)
  BY <1>2, OthersKeepAnimals DEF Next, vars
<1>4. txn[w].step = "commit"
  BY <1>3, CommitMovesOrSaves
<1>5. ASSUME NEW m, MoveAnimal(txn[w], m) PROVE FALSE
  <2>1. PICK b \in Animals : MovedAnimal(b, MoveTo(m))
    BY <1>4, <1>5, MoveAnimalIsCurrent
  <2>2. animal[b] \in AnimalDoc
    BY <1>1
  <2> QED
    BY <1>1, <2>1, <2>2 DEF MovedAnimal, AnimalDoc
<1>6. ASSUME NEW s, NEW f, SaveAnimal(txn[w], s, f)
      PROVE  /\ txn[w].animal = a
             /\ txn[w].seenAnimal = animal[a]
             /\ f # animal[a].blinded
  <2>1. /\ txn[w].animal \in Animals /\ txn[w].seenAnimal = animal[txn[w].animal]
        /\ animal[txn[w].animal] \in AnimalDoc
    BY <1>1, <1>4, <1>6, HeldCopies DEF Prepared, AnimalCopyCurrent, SaveAnimal
  <2> QED
    BY <1>1, <1>6, <2>1 DEF SaveAnimal, AnimalDoc
<1>7. ~CommitEdit(w)
  BY <1>6 DEF CommitEdit
<1>8. CommitBlind(w)
  BY <1>3, <1>5, <1>7, CommitMovesOrSaves
<1> QED
  BY <1>1, <1>6, <1>8 DEF CommitBlind, AtCommit, Done

\* A moderator's blind is never undone by the stale profile that another save
\* writes back: only a moderation request changes the flag.
THEOREM ModerationIsKept == Spec => ModerationKept
<1>1. IInv /\ [Next]_vars =>
        [\A a \in Animals :
          animal'[a].blinded # animal[a].blinded =>
              \E w \in Workers :
                  /\ txn[w].op = "BLIND"
                  /\ txn[w].animal = a
                  /\ txn'[w] = IdleTxn]_vars
  BY StepKeepsModeration
<1> QED
  BY <1>1, InvariantHolds, PTL DEF Spec, ModerationKept

-----------------------------------------------------------------------------
\* Placement implements Custody

\* The animals' stages, after one of them has moved.
LEMMA StageMoves ==
    ASSUME IInv, NEW a \in Animals, NEW s \in AnimalStatus, MovedAnimal(a, s)
    PROVE  Stage' = [Stage EXCEPT ![a] = s]
<1>1. /\ animal'[a].status = s
      /\ \A b \in Animals \ {a} : animal'[b] = animal[b]
  BY MovedAnimalTyped
<1> QED
  BY <1>1 DEF Stage

\* What a save of one application does to it, and that it does nothing else.
LEMMA SavedAppEffect ==
    ASSUME IInv, NEW i \in Apps, NEW st \in AppStatus, NEW e \in Ended,
           app' = [app EXCEPT ![i] = SavedTo(i, st, e)]
    PROVE  /\ app'[i].status = st /\ app'[i].ended = e /\ st # "ABSENT"
           /\ app'[i].animal = app[i].animal
           /\ \A j \in Apps \ {i} : app'[j] = app[j]
BY SavedToTyped DEF IInv, TypeOK

\* The animal stays with its holder and moves to another stage.
LEMMA GrantMaps ==
    ASSUME IInv, NEW a \in Animals, NEW i \in Apps, NEW s \in {"ADOPTED", "FOSTERED"},
           MovedAnimal(a, s), animal[a].status = "RESERVED",
           Live(i), Live(i)', app[i].animal = a, app'[i].animal = a,
           \A j \in Apps \ {i} : app'[j] = app[j]
    PROVE  C!Next
<1>1. Stage' = [Stage EXCEPT ![a] = s] /\ Stage[a] = "RESERVED"
  BY StageMoves DEF AnimalStatus, Stage
<1>2. \A j \in Apps : (Live(j)' <=> Live(j)) /\ app'[j].animal = app[j].animal
  BY DEF Live
<1>3. Holder' = Holder
  BY <1>2 DEF Holder
<1>4. app'[i].status # "ABSENT" /\ app[i].status # "ABSENT"
  BY DEF Live
<1>5. Spent' = Spent
  BY <1>2, <1>4 DEF Spent
<1>6. C!Grant(a)
  BY <1>1, <1>3, <1>5 DEF C!Grant, C!Move
<1> QED
  BY <1>6 DEF C!Next

\* The holder of an animal is its only live application.
LEMMA HolderIsOne ==
    ASSUME IInv, NEW i \in Apps, NEW a \in Animals, Live(i), app[i].animal = a
    PROVE  Holder[a] = {i}
BY DEF IInv, Consistent, OneHolder, Holder

\* The holder lets the animal go.
LEMMA ReleaseMaps ==
    ASSUME IInv, NEW a \in Animals, NEW i \in Apps, NEW s \in AnimalStatus,
           MovedAnimal(a, s),
           \/ animal[a].status \in {"RESERVED", "FOSTERED"} /\ s = "AVAILABLE"
           \/ animal[a].status = "ADOPTED" /\ s = "RETURNED",
           Live(i), ~Live(i)', app[i].animal = a, app'[i].status # "ABSENT",
           \A j \in Apps \ {i} : app'[j] = app[j]
    PROVE  C!Next
<1>1. Stage' = [Stage EXCEPT ![a] = s] /\ Stage[a] = animal[a].status
  BY StageMoves DEF Stage
<1>2. Holder[a] = {i}
  BY HolderIsOne
<1>3. \A j \in Apps \ {i} : (Live(j)' <=> Live(j)) /\ app'[j] = app[j]
  BY DEF Live
<1>4. Holder' = [Holder EXCEPT ![a] = {}]
  <2>1. \A b \in Animals : {j \in Apps : Live(j)' /\ app'[j].animal = b}
                          = IF b = a THEN {} ELSE Holder[b]
    BY <1>2, <1>3 DEF Holder
  <2> QED
    BY <2>1 DEF Holder
<1>5. Spent' = Spent \cup {i}
  BY <1>3 DEF Spent
<1>6. C!Release(a)
  BY <1>1, <1>2, <1>4, <1>5 DEF C!Release, C!LetGo, C!Move
<1> QED
  BY <1>6 DEF C!Next

\* A live application's animal is at that application's stage.
LEMMA StageOfHolder ==
    ASSUME IInv, NEW i \in Apps, Live(i)
    PROVE  app[i].animal \in Animals /\ animal[app[i].animal].status = StageOf(app[i])
BY DEF IInv, Consistent, HolderSetsStage

\* An approval is the custody's grant.
LEMMA ApproveMaps ==
    ASSUME IInv, NEW w \in Workers, CommitApprove(w)
    PROVE  C!Next
<1>0. PICK i : i = txn[w].app
  OBVIOUS
<1>m. PICK m : m = IF txn[w].seenApp.kind = "ADOPTION" THEN "markAdopted" ELSE "markFostered"
  OBVIOUS
<1>1. /\ AtCommit(w, "DECIDE") /\ SaveApproval(txn[w], "APPROVED") /\ AppFresh(txn[w])
      /\ MoveAnimal(txn[w], m)
      /\ app' = [app EXCEPT ![i] = SavedApp(txn[w], "APPROVED", "NO")]
  BY <1>0, <1>m DEF CommitApprove
<1>2. "APPROVED" \in ApprovalStatus
  BY DEF ApprovalStatus
<1>3. /\ i \in Apps /\ app[i].status = "PENDING"
      /\ MovedAnimal(app[i].animal, MoveTo(m))
      /\ SavedApp(txn[w], "APPROVED", "NO") = SavedTo(i, "APPROVED", "NO")
  BY <1>0, <1>1, <1>2, DecisionIsCurrent
<1>4. /\ app'[i].status = "APPROVED" /\ app'[i].ended = "NO"
      /\ app'[i].animal = app[i].animal
      /\ \A j \in Apps \ {i} : app'[j] = app[j]
  BY <1>1, <1>3, SavedAppEffect DEF AppStatus, Ended
<1>5. Live(i) /\ Live(i)'
  BY <1>3, <1>4 DEF Live
<1>6. app[i].animal \in Animals /\ animal[app[i].animal].status = "RESERVED"
  BY <1>3, <1>5, StageOfHolder DEF StageOf
<1>7. PICK s \in {"ADOPTED", "FOSTERED"}, a \in Animals : s = MoveTo(m) /\ a = app[i].animal
  BY <1>m, <1>6 DEF MoveTo
<1> QED
  BY <1>3, <1>4, <1>5, <1>6, <1>7, GrantMaps

\* A rejection lets go of the animal.
LEMMA RejectMaps ==
    ASSUME IInv, NEW w \in Workers, CommitReject(w)
    PROVE  C!Next
<1>0. PICK i : i = txn[w].app
  OBVIOUS
<1>1. /\ AtCommit(w, "DECIDE") /\ SaveApproval(txn[w], "REJECTED") /\ AppFresh(txn[w])
      /\ MoveAnimal(txn[w], "release")
      /\ app' = [app EXCEPT ![i] = SavedApp(txn[w], "REJECTED", "NO")]
  BY <1>0 DEF CommitReject
<1>2. "REJECTED" \in ApprovalStatus /\ MoveTo("release") = "AVAILABLE"
  BY DEF ApprovalStatus, MoveTo
<1>3. /\ i \in Apps /\ app[i].status = "PENDING"
      /\ MovedAnimal(app[i].animal, "AVAILABLE")
      /\ SavedApp(txn[w], "REJECTED", "NO") = SavedTo(i, "REJECTED", "NO")
  BY <1>0, <1>1, <1>2, DecisionIsCurrent
<1>4. /\ app'[i].status = "REJECTED" /\ \A j \in Apps \ {i} : app'[j] = app[j]
  BY <1>1, <1>3, SavedAppEffect DEF AppStatus, Ended
<1>5. Live(i) /\ ~Live(i)'
  BY <1>3, <1>4 DEF Live
<1>6. PICK a \in Animals : a = app[i].animal /\ animal[a].status = "RESERVED"
  BY <1>3, <1>5, StageOfHolder DEF StageOf
<1>7. "AVAILABLE" \in AnimalStatus
  BY DEF AnimalStatus
<1> QED
  BY <1>3, <1>4, <1>5, <1>6, <1>7, ReleaseMaps

\* The end of a foster releases the animal.
LEMMA TerminateMaps ==
    ASSUME IInv, NEW w \in Workers, CommitTerminate(w)
    PROVE  C!Next
<1>0. PICK i : i = txn[w].app
  OBVIOUS
<1>1. /\ txn[w].op = "TERMINATE" /\ txn[w].step = "commit" /\ AppFresh(txn[w])
      /\ MoveAnimal(txn[w], "endFoster")
      /\ app' = [app EXCEPT ![i] = SavedApp(txn[w], txn[w].seenApp.status, "TERMINATED")]
  BY <1>0 DEF CommitTerminate, AtCommit
<1>2. MoveTo("endFoster") = "AVAILABLE" /\ "AVAILABLE" \in AnimalStatus
  BY DEF MoveTo, AnimalStatus
<1>3. /\ i \in Apps /\ IsActiveFoster(app[i]) /\ txn[w].seenApp = app[i]
      /\ MovedAnimal(app[i].animal, "AVAILABLE")
      /\ SavedApp(txn[w], app[i].status, "TERMINATED") = SavedTo(i, app[i].status, "TERMINATED")
  BY <1>0, <1>1, <1>2, EndingIsCurrent
<1>4. app[i].kind = "FOSTER" /\ app[i].status = "APPROVED" /\ app[i].ended = "NO"
  BY <1>3 DEF IsActiveFoster
<1>s. app' = [app EXCEPT ![i] = SavedTo(i, "APPROVED", "TERMINATED")]
  BY <1>1, <1>3, <1>4
<1>5. /\ app'[i].status = "APPROVED" /\ app'[i].ended = "TERMINATED"
      /\ \A j \in Apps \ {i} : app'[j] = app[j]
  BY <1>3, <1>s, SavedAppEffect DEF AppStatus, Ended
<1>6. Live(i) /\ ~Live(i)'
  BY <1>4, <1>5 DEF Live
<1>7. PICK a \in Animals : a = app[i].animal /\ animal[a].status = "FOSTERED"
  BY <1>3, <1>4, <1>6, StageOfHolder DEF StageOf
<1> QED
  BY <1>2, <1>3, <1>5, <1>6, <1>7, ReleaseMaps

\* A return releases the animal.
LEMMA ReturnMaps ==
    ASSUME IInv, NEW w \in Workers, CommitReturn(w)
    PROVE  C!Next
<1>0. PICK i : i = txn[w].app
  OBVIOUS
<1>1. /\ txn[w].op = "RETURN" /\ txn[w].step = "commit" /\ AppFresh(txn[w])
      /\ MoveAnimal(txn[w], "markReturned") /\ txn[w].seenApp.status = "APPROVED"
      /\ app' = [app EXCEPT ![i] = SavedApp(txn[w], "RETURNED", "NO")]
  BY <1>0 DEF CommitReturn, AtCommit
<1>2. MoveTo("markReturned") = "RETURNED" /\ "RETURNED" \in AnimalStatus
  BY DEF MoveTo, AnimalStatus
<1>3. /\ i \in Apps /\ app[i].kind = "ADOPTION" /\ txn[w].seenApp = app[i]
      /\ MovedAnimal(app[i].animal, "RETURNED")
      /\ SavedApp(txn[w], "RETURNED", "NO") = SavedTo(i, "RETURNED", "NO")
  BY <1>0, <1>1, <1>2, EndingIsCurrent
<1>4. app[i].status = "APPROVED" /\ app[i].ended = "NO"
  BY <1>1, <1>3 DEF IInv, Consistent, AppWellFormed, TypeOK, AppDoc
<1>5. app'[i].status = "RETURNED" /\ \A j \in Apps \ {i} : app'[j] = app[j]
  BY <1>1, <1>3, SavedAppEffect DEF AppStatus, Ended
<1>6. Live(i) /\ ~Live(i)'
  BY <1>4, <1>5 DEF Live
<1>7. PICK a \in Animals : a = app[i].animal /\ animal[a].status = "ADOPTED"
  BY <1>3, <1>4, <1>6, StageOfHolder DEF StageOf
<1> QED
  BY <1>2, <1>3, <1>5, <1>6, <1>7, ReleaseMaps

\* A conversion is the custody's.
LEMMA ConvertMaps ==
    ASSUME IInv, NEW w \in Workers, NEW j \in Apps, CommitConvert(w, j)
    PROVE  C!Next
<1>0. PICK i : i = txn[w].app
  OBVIOUS
<1>1. /\ txn[w].op = "CONVERT" /\ txn[w].step = "commit" /\ AppFresh(txn[w])
      /\ MoveAnimal(txn[w], "markAdopted") /\ app[j].status = "ABSENT"
  BY DEF CommitConvert, AtCommit
<1>2. MoveTo("markAdopted") = "ADOPTED" /\ "ADOPTED" \in AnimalStatus
  BY DEF MoveTo, AnimalStatus
<1>3. /\ i \in Apps /\ IsActiveFoster(app[i]) /\ txn[w].seenApp = app[i]
      /\ MovedAnimal(app[i].animal, "ADOPTED")
      /\ SavedApp(txn[w], app[i].status, "CONVERTED") = SavedTo(i, app[i].status, "CONVERTED")
  BY <1>0, <1>1, <1>2, EndingIsCurrent
<1>4. app[i].kind = "FOSTER" /\ app[i].status = "APPROVED" /\ app[i].ended = "NO" /\ i # j
  BY <1>1, <1>3 DEF IsActiveFoster
<1> DEFINE d == SavedTo(i, "APPROVED", "CONVERTED")
           new == [NoAppDoc EXCEPT !.kind = "ADOPTION", !.animal = app[i].animal,
                                   !.applicant = app[i].applicant, !.status = "APPROVED"]
<1>5. app' = [app EXCEPT ![i] = d, ![j] = new]
  BY <1>0, <1>1, <1>3, <1>4 DEF CommitConvert
<1>6. d.status = "APPROVED" /\ d.ended = "CONVERTED"
  BY <1>3, SavedToTyped DEF AppStatus, Ended
<1>7. new.status = "APPROVED" /\ new.ended = "NO" /\ new.animal = app[i].animal
  BY DEF NoAppDoc
<1> HIDE DEF d, new
<1>8. /\ app'[i].status = "APPROVED" /\ app'[i].ended = "CONVERTED"
      /\ app'[j].status = "APPROVED" /\ app'[j].ended = "NO"
      /\ app'[j].animal = app[i].animal
      /\ \A k \in Apps \ {i, j} : app'[k] = app[k]
  BY <1>3, <1>4, <1>5, <1>6, <1>7 DEF IInv, TypeOK
<1>9. Live(i) /\ ~Live(i)' /\ Live(j)' /\ ~Live(j)
  BY <1>1, <1>4, <1>8 DEF Live
<1>10. PICK a \in Animals : /\ a = app[i].animal /\ animal[a].status = "FOSTERED"
                            /\ MovedAnimal(a, "ADOPTED")
  BY <1>3, <1>4, <1>9, StageOfHolder DEF StageOf
<1>11. Stage' = [Stage EXCEPT ![a] = "ADOPTED"] /\ Stage[a] = "FOSTERED"
  BY <1>2, <1>10, StageMoves DEF Stage
<1>12. Holder[a] = {i}
  BY <1>3, <1>9, <1>10, HolderIsOne
<1>13. \A k \in Apps \ {i, j} : (Live(k)' <=> Live(k)) /\ app'[k] = app[k]
  BY <1>8 DEF Live
<1>14. Holder' = [Holder EXCEPT ![a] = {j}]
  <2>1. ASSUME NEW b \in Animals, b # a
        PROVE  {k \in Apps : Live(k)' /\ app'[k].animal = b} = Holder[b]
    <3>1. \A k \in Apps : Live(k)' /\ app'[k].animal = b <=> Live(k) /\ app[k].animal = b
      BY <1>8, <1>9, <1>10, <1>13, <2>1
    <3> QED
      BY <3>1 DEF Holder
  <2>2. {k \in Apps : Live(k)' /\ app'[k].animal = a} = {j}
    <3>1. \A k \in Apps : Live(k) /\ app[k].animal = a => k = i
      BY <1>12 DEF Holder
    <3>2. \A k \in Apps : Live(k)' /\ app'[k].animal = a <=> k = j
      BY <1>8, <1>9, <1>10, <1>13, <3>1
    <3> QED
      BY <3>2
  <2> QED
    BY <2>1, <2>2 DEF Holder
<1>15. Spent' = Spent \cup {i}
  BY <1>1, <1>3, <1>8, <1>9, <1>13 DEF Spent
<1>16. C!Fresh(j)
  BY <1>1, <1>9 DEF C!Fresh, Spent, Holder
<1>17. C!Convert(a, j)
  BY <1>11, <1>12, <1>14, <1>15, <1>16 DEF C!Convert, C!Move
<1> QED
  BY <1>17 DEF C!Next

\* A submission is the custody's application.
LEMMA SubmitMaps ==
    ASSUME IInv, NEW w \in Workers, NEW i \in Apps, CommitSubmit(w, i)
    PROVE  C!Next
<1>0. PICK t : t = txn[w]
  OBVIOUS
<1> DEFINE new == [NoAppDoc EXCEPT !.kind = t.arg, !.animal = t.animal,
                                   !.applicant = t.actor, !.status = "PENDING"]
<1>1. /\ txn[w].step = "commit" /\ app[i].status = "ABSENT" /\ MoveAnimal(txn[w], "reserve")
      /\ app' = [app EXCEPT ![i] = new]
  BY <1>0 DEF CommitSubmit, AtCommit
<1>2. /\ MoveTo("reserve") = "RESERVED" /\ MoveFrom("reserve") = {"AVAILABLE"}
      /\ "RESERVED" \in AnimalStatus
  BY DEF MoveTo, MoveFrom, AnimalStatus
<1>3. PICK a \in Animals : /\ a = t.animal /\ animal[a].status = "AVAILABLE"
                           /\ MovedAnimal(a, "RESERVED")
  BY <1>0, <1>1, <1>2, MoveAnimalIsCurrent
<1>4. new.status = "PENDING" /\ new.animal = a
  BY <1>3 DEF NoAppDoc
<1> HIDE DEF new
<1>5. /\ app'[i].status = "PENDING" /\ app'[i].animal = a
      /\ \A k \in Apps \ {i} : app'[k] = app[k]
  BY <1>1, <1>4 DEF IInv, TypeOK
<1>6. ~Live(i) /\ Live(i)'
  BY <1>1, <1>5 DEF Live
<1>7. Stage' = [Stage EXCEPT ![a] = "RESERVED"] /\ Stage[a] = "AVAILABLE"
  BY <1>2, <1>3, StageMoves DEF Stage
<1>8. \A d : StageOf(d) # "AVAILABLE"
  BY DEF StageOf
<1>9. \A k \in Apps : Live(k) => app[k].animal # a
  BY <1>3, <1>8, StageOfHolder
<1>10. \A k \in Apps \ {i} : (Live(k)' <=> Live(k)) /\ app'[k] = app[k]
  BY <1>5 DEF Live
<1>11. Holder' = [Holder EXCEPT ![a] = {i}]
  <2>1. ASSUME NEW b \in Animals, b # a
        PROVE  {k \in Apps : Live(k)' /\ app'[k].animal = b} = Holder[b]
    BY <1>5, <1>6, <1>10, <2>1 DEF Holder
  <2>2. {k \in Apps : Live(k)' /\ app'[k].animal = a} = {i}
    BY <1>5, <1>6, <1>9, <1>10
  <2> QED
    BY <2>1, <2>2 DEF Holder
<1>12. Spent' = Spent
  BY <1>1, <1>6, <1>10 DEF Spent
<1>13. C!Fresh(i)
  BY <1>1, <1>6 DEF C!Fresh, Spent, Holder
<1>14. C!Apply(a, i)
  BY <1>7, <1>11, <1>12, <1>13 DEF C!Apply, C!Move
<1> QED
  BY <1>14 DEF C!Next

\* A step that leaves the applications alone leaves the holders alone.
LEMMA AppsUnchangedMaps ==
    ASSUME app' = app
    PROVE  Holder' = Holder /\ Spent' = Spent
<1>1. \A i \in Apps : Live(i)' <=> Live(i)
  BY DEF Live
<1> QED
  BY <1>1 DEF Holder, Spent

\* Relisting is the custody's.
LEMMA RelistMaps ==
    ASSUME IInv, NEW w \in Workers, CommitRelist(w)
    PROVE  C!Next
<1>1. txn[w].step = "commit" /\ MoveAnimal(txn[w], "relist") /\ app' = app
  BY DEF CommitRelist, AtCommit
<1>2. /\ MoveTo("relist") = "AVAILABLE" /\ MoveFrom("relist") = {"RETURNED"}
      /\ "AVAILABLE" \in AnimalStatus
  BY DEF MoveTo, MoveFrom, AnimalStatus
<1>3. PICK a \in Animals : animal[a].status = "RETURNED" /\ MovedAnimal(a, "AVAILABLE")
  BY <1>1, <1>2, MoveAnimalIsCurrent
<1>4. Stage' = [Stage EXCEPT ![a] = "AVAILABLE"] /\ Stage[a] = "RETURNED"
  BY <1>2, <1>3, StageMoves DEF Stage
<1>5. C!Relist(a)
  BY <1>1, <1>4, AppsUnchangedMaps DEF C!Relist, C!Move
<1> QED
  BY <1>5 DEF C!Next

\* A registration is the custody's arrival.
LEMMA RegisterMaps ==
    ASSUME IInv, NEW a \in Animals, NEW e \in SUBSET Kinds, NEW u \in Members,
           Register(a, e, u)
    PROVE  C!Next
<1>1. Stage' = [Stage EXCEPT ![a] = "AVAILABLE"] /\ Stage[a] = "ABSENT" /\ app' = app
  BY DEF Register, Stage, NoAnimalDoc, IInv, TypeOK
<1>2. C!Arrive(a)
  BY <1>1, AppsUnchangedMaps DEF C!Arrive, C!Move
<1> QED
  BY <1>2 DEF C!Next

\* A profile save is invisible.
LEMMA ProfileSaveMaps ==
    ASSUME IInv, NEW w \in Workers, CommitEdit(w) \/ CommitBlind(w)
    PROVE  UNCHANGED C!vars
<1>1. PICK b : SaveAnimal(txn[w], txn[w].seenAnimal.status, b)
  BY DEF CommitEdit, CommitBlind
<1>2. txn[w].step = "commit" /\ app' = app
  BY DEF CommitEdit, CommitBlind, AtCommit
<1>3. txn[w].animal \in Animals /\ txn[w].seenAnimal = animal[txn[w].animal]
  BY <1>1, <1>2, HeldCopies DEF Prepared, AnimalCopyCurrent, SaveAnimal
<1>4. animal[txn[w].animal] \in AnimalDoc /\ animal \in [Animals -> AnimalDoc]
  BY <1>3 DEF IInv, TypeOK
<1>5. \A a \in Animals : animal'[a].status = animal[a].status
  BY <1>1, <1>3, <1>4 DEF SaveAnimal, AnimalDoc
<1> QED
  BY <1>2, <1>5, AppsUnchangedMaps DEF Stage, C!vars

\* Every step is a step of the custody of the animals, or none.
LEMMA StepMaps == IInv /\ [Next]_vars => [C!Next]_(C!vars)
<1> SUFFICES ASSUME IInv, [Next]_vars PROVE C!Next \/ UNCHANGED C!vars
  OBVIOUS
<1>1. ASSUME NEW w \in Workers, CommitStep(w)
      PROVE  C!Next \/ UNCHANGED C!vars
  BY <1>1, SubmitMaps, ApproveMaps, RejectMaps, TerminateMaps, ConvertMaps, ReturnMaps,
     RelistMaps, ProfileSaveMaps DEF CommitStep
<1>2. ASSUME NEW w \in Workers, BeginStep(w) \/ ReadStep(w) \/ Abort(w)
      PROVE  animal' = animal /\ app' = app
  BY <1>2 DEF BeginStep, BeginSubmit, BeginDecide, BeginFosterEnd, BeginReturn,
              BeginAnimalEdit, BeginBlind, Begin, ReadStep, Authorize, ReadApplication,
              ReadAnimal, Abort
<1>3. ASSUME animal' = animal, app' = app PROVE UNCHANGED C!vars
  BY <1>3, AppsUnchangedMaps DEF Stage, C!vars
<1> QED
  BY <1>1, <1>2, <1>3, RegisterMaps DEF Next, vars

\* The services, with all their stale reads, guarded saves and retries, do no
\* more than the one-step-at-a-time custody specification allows.
THEOREM ImplementsCustody == Spec => CustodySpec
<1>1. Init => C!Init
  BY DEF Init, C!Init, Stage, Holder, Spent, Live, NoAnimalDoc, NoAppDoc
<1> QED
  BY <1>1, StepMaps, InvariantHolds, PTL DEF Spec, CustodySpec, C!Spec

=============================================================================
