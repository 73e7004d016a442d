---------------------------- MODULE ErasureProofs ----------------------------
(***************************************************************************)
(* The safety of the erasure, for any number of instances, members and     *)
(* destroyers.  The argument: what a run has taken from its list of tasks  *)
(* is gone, and does not come back since the member is not active any      *)
(* more; the bundle with the identity is always the whole rest of the      *)
(* list.  So the tombstone is written when nothing gated is left.          *)
(***************************************************************************)
EXTENDS MCMembers, WellFoundedInduction, TLAPS

Run == [phase : {"NONE", "QUEUED", "CREATED", "RUNNING", "FAILING", "VERIFY", "CLEAN",
                 "UNCLEAN"},
        todo : SUBSET Tasks, done : SUBSET Tasks, status : E!RequestStatus \cup {"NONE"},
        task : [Tasks -> E!TaskStatus]]

\* The invariant in two halves: members, data and runs, and the sweeps with their lock.
DataShapes ==
    /\ subject \in [Users -> E!AccountStatus]
    /\ data \in [Users -> SUBSET Tasks]
    /\ run \in [Instances -> [Users -> Run]]

DataInv == DataShapes /\ E!TombstoneIsLast /\ E!RunsTrue

LockShapes ==
    /\ lock \in [owner : Instances \cup {NoInstance, Dead}, expired : BOOLEAN]
    /\ seen \in [Instances -> SUBSET Users]
    /\ sweeping \subseteq Instances
    /\ full \subseteq sweeping
    /\ overrun \subseteq sweeping
    /\ left \in [Users -> SUBSET E!RequestStatus]

LockInv == LockShapes /\ E!LockHeld

LEMMA Halves == (E!IInv <=> DataInv /\ LockInv) /\ (E!IInv' <=> DataInv' /\ LockInv')
  BY DEF E!IInv, E!TypeOK, DataInv, DataShapes, LockInv, LockShapes, Run

-----------------------------------------------------------------------------
\* The engine

\* The bundle with the identity is the whole rest of the list.
LEMMA IdentityIsLast ==
    ASSUME E!ErasureAssumption, NEW todo \in SUBSET Tasks, Identity \in E!NextBundle(todo)
    PROVE  E!NextBundle(todo) = todo
<1>1. Identity \notin Heavy /\ \A t \in Tasks : Priority[t] <= Priority[Identity]
  BY DEF E!ErasureAssumption
<1>2. E!First(todo) \notin Heavy
  BY <1>1 DEF E!NextBundle
<1>3. E!NextBundle(todo) = {t \in todo : \A s \in todo : Priority[s] <= Priority[t] => s \notin Heavy}
  BY <1>2 DEF E!NextBundle
<1>4. \A s \in todo : s \notin Heavy
  BY <1>1, <1>3
<1> QED BY <1>3, <1>4

\* A list that is not empty has a first task, by priority.
LEMMA FirstIsLeast ==
    ASSUME E!ErasureAssumption, NEW todo \in SUBSET Tasks, todo # {}
    PROVE  E!First(todo) \in todo /\ \A s \in todo : Priority[E!First(todo)] <= Priority[s]
<1>1. PICK ps : ps = {Priority[t] : t \in todo}
  OBVIOUS
<1>2. ps \subseteq Nat /\ ps # {}
  BY <1>1 DEF E!ErasureAssumption
<1>3. PICK less : less = OpToRel(<, Nat)
  OBVIOUS
<1>4. \A m, n \in Nat : <<m, n>> \in less <=> m < n
  BY <1>3 DEF OpToRel
<1>5. \E m \in ps : \A n \in ps : ~(<<n, m>> \in less)
  BY <1>2, <1>3, NatLessThanWellFounded, WFMin
<1>6. PICK m \in ps : \A n \in ps : ~(n < m)
  BY <1>2, <1>4, <1>5
<1>7. \A n \in ps : m <= n
  BY <1>2, <1>6
<1>8. \E t \in todo : \A s \in todo : Priority[t] <= Priority[s]
  BY <1>1, <1>7
<1> QED BY <1>8 DEF E!First

LEMMA BundleTyped ==
    ASSUME E!ErasureAssumption, NEW todo \in SUBSET Tasks, todo # {}
    PROVE  E!NextBundle(todo) \subseteq todo
  BY FirstIsLeast DEF E!NextBundle

LEMMA InitErasure == ASSUME E!ErasureAssumption, E!Init PROVE DataInv
<1>1. E!NoRun \in Run
  BY DEF E!NoRun, Run, E!TaskStatus, E!RequestStatus
<1>2. DataShapes
  BY <1>1 DEF E!Init, DataShapes, E!AccountStatus, E!ErasureAssumption
<1>3. E!TombstoneIsLast
  BY DEF E!Init, E!TombstoneIsLast
<1>4. E!RunsTrue
  <2>1. E!Closed \subseteq Tasks
    BY DEF E!Closed, E!ErasureAssumption
  <2> QED BY <2>1 DEF E!Init, E!RunsTrue, E!RunTrue, E!NoRun
<1> QED BY <1>2, <1>3, <1>4 DEF DataInv

\* A step that changes one run, and leaves the members as they are.
LEMMA RunStep ==
    ASSUME DataInv, UNCHANGED <<subject, data>>, NEW k \in Instances, NEW u \in Users,
           NEW r \in Run, E!Set(k, u, r), E!RunTrue(r, u)
    PROVE  DataInv'
<1>1. run' = [run EXCEPT ![k][u] = r]
  BY DEF E!Set
<1>2. \A x \in Instances, y \in Users : run'[x][y] = IF x = k /\ y = u THEN r ELSE run[x][y]
  BY <1>1 DEF DataInv, DataShapes
<1>3. DataShapes'
  BY <1>1 DEF DataInv, DataShapes
<1>4. E!TombstoneIsLast'
  BY DEF DataInv, E!TombstoneIsLast
<1>5. E!RunsTrue'
  BY <1>2 DEF DataInv, E!RunsTrue, E!RunTrue
<1> QED BY <1>3, <1>4, <1>5 DEF DataInv

\* A bundle is committed: its data goes, and with the identity everything has.
LEMMA BundleStep ==
    ASSUME E!ErasureAssumption, DataInv, NEW k \in Instances, NEW u \in Users,
           run[k][u].phase = "RUNNING", E!CommitBundle(k, u, E!NextBundle(run[k][u].todo)),
           NEW r \in Run, E!Set(k, u, r),
           r.phase = "RUNNING" =>
               r.todo # {} /\ r.todo = run[k][u].todo \ E!NextBundle(run[k][u].todo),
           \A t \in Tasks : r.task[t] = "DONE" =>
               t \in E!NextBundle(run[k][u].todo) \/ run[k][u].task[t] = "DONE"
    PROVE  DataInv'
<1>1. PICK old, bundle : old = run[k][u] /\ bundle = E!NextBundle(old.todo)
  OBVIOUS
<1>2. /\ old \in Run /\ old.phase = "RUNNING" /\ E!RunTrue(old, u)
      /\ subject[u] \in {"DUE", "ERASED"}
  BY <1>1 DEF DataInv, DataShapes, E!RunsTrue, E!RunTrue
<1>3. /\ data' = [data EXCEPT ![u] = @ \ bundle]
      /\ subject' = IF Identity \in bundle THEN [subject EXCEPT ![u] = "ERASED"] ELSE subject
  BY <1>1 DEF E!CommitBundle
<1>4. run' = [run EXCEPT ![k][u] = r]
  BY DEF E!Set
<1>5. /\ \A y \in Users : data'[y] = IF y = u THEN data[u] \ bundle ELSE data[y]
      /\ \A y \in Users : subject'[y] = IF Identity \in bundle /\ y = u THEN "ERASED"
                                        ELSE subject[y]
      /\ \A x \in Instances, y \in Users :
            run'[x][y] = IF x = k /\ y = u THEN r ELSE run[x][y]
  BY <1>3, <1>4 DEF DataInv, DataShapes
<1>6. DataShapes'
  BY <1>3, <1>4 DEF DataInv, DataShapes, E!AccountStatus
<1>7. E!Closed \subseteq Tasks
  BY DEF E!Closed, E!ErasureAssumption
<1>8. E!TombstoneIsLast'
  <2> SUFFICES ASSUME NEW y \in Users, subject'[y] = "ERASED"
               PROVE  data'[y] \cap E!Closed = {}
    BY DEF E!TombstoneIsLast, E!Closed
  <2>1. CASE subject[y] = "ERASED"
    BY <1>5, <2>1 DEF DataInv, E!TombstoneIsLast, E!Closed
  <2>2. CASE subject[y] # "ERASED"
    <3>1. y = u /\ Identity \in bundle
      BY <1>5, <2>2
    <3>2. bundle = old.todo
      BY <1>1, <1>2, <3>1, IdentityIsLast DEF Run
    <3>3. \A t \in E!Closed : t \in old.todo \/ t \notin data[u]
      BY <1>2 DEF E!RunTrue
    <3> QED BY <1>5, <3>1, <3>2, <3>3
  <2> QED BY <2>1, <2>2
<1>9. E!RunTrue(r, u)'
  <2>1. subject'[u] \in {"DUE", "ERASED"}
    BY <1>2, <1>5
  <2>2. \A t \in E!Closed : r.task[t] = "DONE" => t \notin data'[u]
    BY <1>1, <1>2, <1>5, <1>7 DEF E!RunTrue
  <2>3. r.phase = "RUNNING" =>
          r.todo # {} /\ \A t \in E!Closed : t \in r.todo \/ t \notin data'[u]
    BY <1>1, <1>2, <1>5 DEF E!RunTrue
  <2> QED BY <2>1, <2>2, <2>3 DEF E!RunTrue
<1>10. ASSUME NEW x \in Instances, NEW y \in Users, x # k \/ y # u
       PROVE  E!RunTrue(run[x][y], y)'
  <2>1. run'[x][y] = run[x][y] /\ E!RunTrue(run[x][y], y)
    BY <1>5, <1>10 DEF DataInv, E!RunsTrue
  <2>2. data'[y] \subseteq data[y]
    BY <1>5
  <2>3. subject[y] \in {"DUE", "ERASED"} => subject'[y] \in {"DUE", "ERASED"}
    BY <1>5
  <2> QED BY <2>1, <2>2, <2>3 DEF E!RunTrue
<1>11. run'[k][u] = r
  BY <1>5
<1>12. E!RunsTrue'
  <2> SUFFICES ASSUME NEW x \in Instances, NEW y \in Users PROVE E!RunTrue(run[x][y], y)'
    BY DEF E!RunsTrue
  <2>1. CASE x = k /\ y = u
    BY <1>9, <1>11, <2>1 DEF E!RunTrue
  <2> QED BY <1>10, <2>1
<1> QED BY <1>6, <1>8, <1>12 DEF DataInv

LEMMA ClosedAreTasks == ASSUME E!ErasureAssumption PROVE E!Closed \subseteq Tasks
  BY DEF E!Closed, E!ErasureAssumption

LEMMA NoRunTrue ==
    ASSUME E!ErasureAssumption, NEW u PROVE E!NoRun \in Run /\ E!RunTrue(E!NoRun, u)
  BY ClosedAreTasks DEF E!NoRun, Run, E!RequestStatus, E!TaskStatus, E!RunTrue

LEMMA MarkedTyped ==
    ASSUME NEW r \in Run, NEW tasks, NEW mark \in E!TaskStatus
    PROVE  /\ E!Marked(r, tasks, mark) \in [Tasks -> E!TaskStatus]
           /\ \A t \in Tasks : E!Marked(r, tasks, mark)[t] = IF t \in tasks THEN mark
                                                             ELSE r.task[t]
  BY DEF E!Marked, Run

LEMMA NothingErased ==
    ASSUME DataInv, UNCHANGED <<subject, data, run>>
    PROVE  DataInv'
  BY DEF DataInv, DataShapes, E!TombstoneIsLast, E!RunsTrue, E!RunTrue

LEMMA MemberKeepsData ==
    ASSUME E!ErasureAssumption, DataInv, NEW u \in Users, E!MemberStep(u)
    PROVE  DataInv'
<1>1. ASSUME NEW c \in Tasks, E!CreateData(u, c) PROVE DataInv'
  <2>1. /\ c # Identity
        /\ c \in Gated => subject[u] = "ACTIVE"
        /\ data' = [data EXCEPT ![u] = @ \cup {c}]
        /\ UNCHANGED <<subject, run>>
    BY <1>1 DEF E!CreateData
  <2>2. \A y \in Users : data'[y] = IF y = u THEN data[u] \cup {c} ELSE data[y]
    BY <2>1 DEF DataInv, DataShapes
  <2>3. \A y \in Users, t \in E!Closed : t \in data'[y] => t \in data[y] \/ subject[y] = "ACTIVE"
    BY <2>1, <2>2 DEF E!Closed
  <2>4. DataShapes'
    BY <2>1 DEF DataInv, DataShapes
  <2>5. E!TombstoneIsLast'
    BY <2>1, <2>3 DEF DataInv, E!TombstoneIsLast, E!Closed
  <2>6. E!RunsTrue'
    BY <2>1, <2>3 DEF DataInv, E!RunsTrue, E!RunTrue
  <2> QED BY <2>4, <2>5, <2>6 DEF DataInv
<1>2. ASSUME E!Withdraw(u) \/ E!GraceEnds(u) PROVE DataInv'
  <2>1. PICK a \in {"WITHDRAWN", "DUE"} :
          /\ subject[u] \in {"ACTIVE", "WITHDRAWN"}
          /\ subject' = [subject EXCEPT ![u] = a]
          /\ UNCHANGED <<data, run>>
    BY <1>2 DEF E!Withdraw, E!GraceEnds
  <2>2. \A y \in Users : subject'[y] = IF y = u THEN a ELSE subject[y]
    BY <2>1 DEF DataInv, DataShapes
  <2>3. DataShapes'
    BY <2>1 DEF DataInv, DataShapes, E!AccountStatus
  <2>4. E!TombstoneIsLast'
    BY <2>1, <2>2 DEF DataInv, E!TombstoneIsLast
  <2>5. E!RunsTrue'
    BY <2>1, <2>2 DEF DataInv, E!RunsTrue, E!RunTrue
  <2> QED BY <2>3, <2>4, <2>5 DEF DataInv
<1> QED BY <1>1, <1>2 DEF E!MemberStep

\* The runs of one instance begin or are forgotten.
LEMMA RunsReplaced ==
    ASSUME DataInv, UNCHANGED <<subject, data>>, NEW k \in Instances,
           NEW f \in [Users -> Run], \A u \in Users : E!RunTrue(f[u], u),
           run' = [run EXCEPT ![k] = f]
    PROVE  DataInv'
<1>1. DataShapes'
  BY DEF DataInv, DataShapes
<1>2. \A x \in Instances : run'[x] = IF x = k THEN f ELSE run[x]
  BY DEF DataInv, DataShapes
<1>3. E!TombstoneIsLast'
  BY DEF DataInv, E!TombstoneIsLast
<1>4. E!RunsTrue'
  BY <1>2 DEF DataInv, E!RunsTrue, E!RunTrue
<1> QED BY <1>1, <1>3, <1>4 DEF DataInv

LEMMA SweepKeepsData ==
    ASSUME E!ErasureAssumption, DataInv, NEW k \in Instances, E!SweepStep(k)
    PROVE  DataInv'
<1>1. CASE E!StartSweep(k) \/ E!EndSweep(k)
  BY <1>1, NothingErased DEF E!StartSweep, E!EndSweep
<1>2. CASE E!NextPage(k)
  <2>1. PICK page \in E!Pages :
          run' = [run EXCEPT ![k] = [u \in Users |->
                    IF u \in page \ seen[k] THEN [E!NoRun EXCEPT !.phase = "QUEUED"] ELSE E!NoRun]]
    BY <1>2 DEF E!NextPage
  <2>2. PICK queued : queued = [E!NoRun EXCEPT !.phase = "QUEUED"]
    OBVIOUS
  <2>3. /\ queued \in Run
        /\ queued.phase = "QUEUED"
        /\ \A t \in Tasks : queued.task[t] = "PENDING"
    BY <2>2 DEF E!NoRun, Run, E!RequestStatus, E!TaskStatus
  <2>4. PICK f : f = [u \in Users |-> IF u \in page \ seen[k] THEN queued ELSE E!NoRun]
    OBVIOUS
  <2>5. \A u \in page : subject[u] = "DUE"
    BY DEF E!Pages, E!Due
  <2>6. \A u \in Users : u \in page => E!RunTrue(queued, u)
    BY <2>3, <2>5, ClosedAreTasks DEF E!RunTrue
  <2>7. f \in [Users -> Run] /\ \A u \in Users : E!RunTrue(f[u], u)
    BY <2>3, <2>4, <2>6, NoRunTrue
  <2>8. run' = [run EXCEPT ![k] = f]
    BY <2>1, <2>2, <2>4
  <2> QED BY <1>2, <2>7, <2>8, RunsReplaced DEF E!NextPage
<1>3. CASE E!Crash(k)
  <2>1. PICK f : f = [u \in Users |-> E!NoRun]
    OBVIOUS
  <2>2. f \in [Users -> Run] /\ \A u \in Users : E!RunTrue(f[u], u)
    BY <2>1, NoRunTrue
  <2>3. run' = [run EXCEPT ![k] = f]
    BY <1>3, <2>1 DEF E!Crash
  <2> QED BY <1>3, <2>2, <2>3, RunsReplaced DEF E!Crash
<1> QED BY <1>1, <1>2, <1>3 DEF E!SweepStep

\* A run moves on without a commit: what it has marked or taken from the list
\* it had before.
LEMMA RunMoves ==
    ASSUME E!ErasureAssumption, DataInv, UNCHANGED <<subject, data>>,
           NEW k \in Instances, NEW u \in Users, run[k][u].phase # "NONE",
           NEW r \in Run, E!Set(k, u, r),
           \A t \in Tasks : r.task[t] = "DONE" => run[k][u].task[t] = "DONE",
           r.phase = "RUNNING" => r.todo # {} /\ r.todo = Tasks
    PROVE  DataInv'
<1>1. E!RunTrue(run[k][u], u)
  BY DEF DataInv, E!RunsTrue
<1>2. E!RunTrue(r, u)
  BY <1>1, ClosedAreTasks DEF E!RunTrue
<1> QED BY <1>2, RunStep

LEMMA RunForgotten ==
    ASSUME E!ErasureAssumption, DataInv, UNCHANGED <<subject, data>>,
           NEW k \in Instances, NEW u \in Users, E!Set(k, u, E!NoRun)
    PROVE  DataInv'
  BY NoRunTrue, RunStep

LEMMA EngineKeepsData ==
    ASSUME E!ErasureAssumption, DataInv, NEW k \in Instances, NEW u \in Users,
           E!EngineStep(k, u)
    PROVE  DataInv'
<1>0. PICK r : r = run[k][u]
  OBVIOUS
<1>1. r \in Run
  BY <1>0 DEF DataInv, DataShapes
<1>2. CASE E!CreateRequest(k, u)
  <2>1. PICK d : d = [E!NoRun EXCEPT !.phase = "CREATED", !.status = "PENDING"]
    OBVIOUS
  <2>2. d \in Run /\ d.phase = "CREATED" /\ d.task = [t \in Tasks |-> "PENDING"]
    BY <2>1 DEF E!NoRun, Run, E!RequestStatus, E!TaskStatus
  <2>3. E!Set(k, u, d) /\ run[k][u].phase # "NONE"
    BY <1>2, <2>1, Zenon DEF E!CreateRequest
  <2> QED BY <1>2, <2>2, <2>3, RunMoves DEF E!CreateRequest
<1>3. CASE E!ClaimInProgress(k, u)
  <2>1. PICK d : d = [r EXCEPT !.phase = "RUNNING", !.status = "IN_PROGRESS", !.todo = Tasks]
    OBVIOUS
  <2>2. d \in Run /\ d.phase = "RUNNING" /\ d.todo = Tasks /\ d.task = r.task
    BY <1>1, <2>1 DEF Run, E!RequestStatus
  <2>4. Tasks # {}
    BY DEF E!ErasureAssumption
  <2>3. E!Set(k, u, d)
    BY <1>0, <1>3, <2>1, Zenon DEF E!ClaimInProgress
  <2> QED BY <1>0, <1>3, <2>2, <2>3, <2>4, RunMoves DEF E!ClaimInProgress
<1>4. CASE E!RunBundle(k, u)
  <2>1. PICK bundle, marks : /\ bundle = E!NextBundle(r.todo)
                             /\ marks = E!Marked(r, bundle, "DONE")
    OBVIOUS
  <2>2. PICK d : d = [r EXCEPT !.phase = IF bundle = r.todo THEN "VERIFY" ELSE "RUNNING",
                               !.todo = r.todo \ bundle,
                               !.done = r.done \cup bundle,
                               !.task = marks]
    OBVIOUS
  <2>3. /\ marks \in [Tasks -> E!TaskStatus]
        /\ \A t \in Tasks : marks[t] = "DONE" => t \in bundle \/ r.task[t] = "DONE"
    BY <1>1, <2>1, MarkedTyped DEF E!TaskStatus
  <2>4. bundle \subseteq r.todo
    <3>1. r.todo # {}
      BY <1>0, <1>4 DEF E!RunBundle, DataInv, E!RunsTrue, E!RunTrue
    <3> QED BY <1>1, <2>1, <3>1, BundleTyped DEF Run
  <2>5. /\ d \in Run /\ d.todo = r.todo \ bundle /\ d.task = marks
        /\ d.phase = "RUNNING" => d.todo # {}
    BY <1>1, <2>2, <2>3, <2>4 DEF Run
  <2>6. E!Set(k, u, d)
    BY <1>0, <1>4, <2>1, <2>2, Zenon DEF E!RunBundle
  <2> QED BY <1>0, <1>4, <2>1, <2>3, <2>5, <2>6, BundleStep DEF E!RunBundle
<1>5. CASE E!LoseBundle(k, u)
  <2>1. PICK bundle, marks : /\ bundle = E!NextBundle(r.todo)
                             /\ marks = E!Marked(r, bundle, "DONE")
    OBVIOUS
  <2>2. PICK d : d = [r EXCEPT !.phase = "FAILING", !.todo = Tasks \ r.done, !.task = marks]
    OBVIOUS
  <2>3. /\ marks \in [Tasks -> E!TaskStatus]
        /\ \A t \in Tasks : marks[t] = "DONE" => t \in bundle \/ r.task[t] = "DONE"
    BY <1>1, <2>1, MarkedTyped DEF E!TaskStatus
  <2>4. d \in Run /\ d.phase = "FAILING" /\ d.task = marks
    BY <1>1, <2>2, <2>3 DEF Run
  <2>5. E!Set(k, u, d)
    BY <1>0, <1>5, <2>1, <2>2, Zenon DEF E!LoseBundle
  <2> QED BY <1>0, <1>5, <2>1, <2>3, <2>4, <2>5, BundleStep DEF E!LoseBundle
<1>6. CASE E!AbortBundle(k, u)
  <2>1. PICK d : d = [r EXCEPT !.phase = "FAILING", !.todo = Tasks \ r.done]
    OBVIOUS
  <2>2. d \in Run /\ d.phase = "FAILING" /\ d.task = r.task
    BY <1>1, <2>1 DEF Run
  <2>3. E!Set(k, u, d)
    BY <1>0, <1>6, <2>1, Zenon DEF E!AbortBundle
  <2> QED BY <1>0, <1>6, <2>2, <2>3, RunMoves DEF E!AbortBundle
<1>7. CASE E!MarkFailed(k, u)
  <2>1. PICK x, marks : x = E!First(r.todo) /\ marks = E!Marked(r, {x}, "FAILED")
    OBVIOUS
  <2>2. PICK d : d = [r EXCEPT !.todo = r.todo \ {x}, !.task = marks]
    OBVIOUS
  <2>3. /\ marks \in [Tasks -> E!TaskStatus]
        /\ \A t \in Tasks : marks[t] = "DONE" => r.task[t] = "DONE"
    BY <1>1, <2>1, MarkedTyped DEF E!TaskStatus
  <2>4. d \in Run /\ d.phase = r.phase /\ d.task = marks
    BY <1>1, <2>2, <2>3 DEF Run
  <2>5. E!Set(k, u, d)
    BY <1>0, <1>7, <2>1, <2>2, Zenon DEF E!MarkFailed
  <2> QED BY <1>0, <1>7, <2>3, <2>4, <2>5, RunMoves DEF E!MarkFailed
<1>8. CASE E!Scan(k, u)
  <2>1. PICK p \in {"CLEAN", "UNCLEAN"} :
          E!Set(k, u, [r EXCEPT !.phase = p]) /\ r.phase = "VERIFY"
    BY <1>0, <1>8 DEF E!Scan
  <2>2. PICK d : d = [r EXCEPT !.phase = p]
    OBVIOUS
  <2>3. d \in Run /\ d.phase = p /\ d.task = r.task
    BY <1>1, <2>2 DEF Run
  <2>4. E!Set(k, u, d)
    BY <2>1, <2>2, Zenon
  <2> QED BY <1>0, <1>8, <2>1, <2>3, <2>4, RunMoves DEF E!Scan
<1>9. CASE E!FinalizeFailed(k, u) \/ E!FinalizeCompleted(k, u) \/ E!Drop(k, u)
  BY <1>9, RunForgotten DEF E!FinalizeFailed, E!FinalizeCompleted, E!Close, E!Drop
<1> QED BY <1>2, <1>3, <1>4, <1>5, <1>6, <1>7, <1>8, <1>9 DEF E!EngineStep


-----------------------------------------------------------------------------
\* The lock and the sweeps

LEMMA LeftKeeps ==
    ASSUME LockInv, UNCHANGED <<lock, seen, sweeping, full, overrun>>,
           left' \in [Users -> SUBSET E!RequestStatus]
    PROVE  LockInv'
  BY DEF LockInv, LockShapes, E!LockHeld

LEMMA SweepKeepsLock ==
    ASSUME E!ErasureAssumption, LockInv, NEW k \in Instances, E!SweepStep(k)
    PROVE  LockInv'
<1>1. CASE E!StartSweep(k)
  <2>1. /\ lock = E!NoLock \/ lock.expired
        /\ lock' = [owner |-> k, expired |-> FALSE]
        /\ sweeping' = sweeping \cup {k} /\ full' = full \cup {k}
        /\ UNCHANGED <<seen, overrun, left>>
    BY <1>1 DEF E!StartSweep, E!Acquire
  <2>2. \A j \in sweeping : j \in overrun
    BY <2>1 DEF LockInv, LockShapes, E!LockHeld, E!NoLock, E!ErasureAssumption
  <2> QED BY <2>1, <2>2 DEF LockInv, LockShapes, E!LockHeld
<1>2. CASE E!NextPage(k)
  <2>1. PICK page \in E!Pages : seen' = [seen EXCEPT ![k] = @ \cup page]
    BY <1>2 DEF E!NextPage
  <2>2. page \subseteq Users
    BY DEF E!Pages, E!Due
  <2>3. full' \subseteq full /\ UNCHANGED <<lock, sweeping, overrun, left>>
    BY <1>2 DEF E!NextPage
  <2> QED BY <2>1, <2>2, <2>3 DEF LockInv, LockShapes, E!LockHeld
<1>3. CASE E!EndSweep(k)
  <2>1. /\ lock' = IF lock.owner = k THEN E!NoLock ELSE lock
        /\ sweeping' = sweeping \ {k} /\ full' = full \ {k} /\ overrun' = overrun \ {k}
        /\ seen' = [seen EXCEPT ![k] = {}]
        /\ UNCHANGED left
    BY <1>3 DEF E!EndSweep, E!Release
  <2> QED BY <2>1 DEF LockInv, LockShapes, E!LockHeld, E!NoLock, E!ErasureAssumption
<1>4. CASE E!Crash(k)
  <2>1. /\ left' = [u \in Users |-> left[u] \cup ({run[k][u].status} \cap E!RequestStatus)]
        /\ lock' = IF lock.owner = k THEN [lock EXCEPT !.owner = Dead] ELSE lock
        /\ sweeping' = sweeping \ {k} /\ full' = full \ {k} /\ overrun' = overrun \ {k}
        /\ seen' = [seen EXCEPT ![k] = {}]
    BY <1>4 DEF E!Crash
  <2>2. left' \in [Users -> SUBSET E!RequestStatus]
    BY <2>1 DEF LockInv, LockShapes
  <2> QED BY <2>1, <2>2 DEF LockInv, LockShapes, E!LockHeld, E!ErasureAssumption
<1> QED BY <1>1, <1>2, <1>3, <1>4 DEF E!SweepStep

LEMMA EngineKeepsLock ==
    ASSUME LockInv, NEW k \in Instances, NEW u \in Users, E!EngineStep(k, u)
    PROVE  LockInv'
<1>1. UNCHANGED <<lock, seen, sweeping, full, overrun>>
  BY DEF E!EngineStep, E!CreateRequest, E!ClaimInProgress, E!RunBundle, E!LoseBundle,
       E!CommitBundle,
         E!AbortBundle, E!MarkFailed, E!FinalizeFailed, E!Scan, E!FinalizeCompleted,
         E!Drop
<1>2. left' \in [Users -> SUBSET E!RequestStatus]
  <2>1. CASE UNCHANGED left
    BY <2>1 DEF LockInv, LockShapes
  <2>2. ASSUME NEW added \in SUBSET E!RequestStatus,
               left' = [left EXCEPT ![u] = @ \cup added]
        PROVE  left' \in [Users -> SUBSET E!RequestStatus]
    BY <2>2 DEF LockInv, LockShapes
  <2>3. CASE E!FinalizeFailed(k, u) \/ E!FinalizeCompleted(k, u)
    BY <2>2, <2>3 DEF E!FinalizeFailed, E!FinalizeCompleted, E!Close, E!RequestStatus
  <2>4. CASE E!Drop(k, u)
    BY <2>2, <2>4 DEF E!Drop
  <2> QED BY <2>1, <2>3, <2>4 DEF E!EngineStep, E!CreateRequest, E!ClaimInProgress,
       E!RunBundle,
          E!LoseBundle, E!CommitBundle, E!AbortBundle, E!MarkFailed, E!Scan
<1> QED BY <1>1, <1>2, LeftKeeps

LEMMA ExpiryKeepsLock == ASSUME LockInv, E!LockExpires PROVE LockInv'
<1>1. /\ lock' = [lock EXCEPT !.expired = TRUE]
      /\ overrun' = overrun \cup ({lock.owner} \cap Instances)
      /\ UNCHANGED <<seen, sweeping, full, left>>
  BY DEF E!LockExpires
<1>2. /\ lock'.owner = lock.owner
      /\ lock' \in [owner : Instances \cup {NoInstance, Dead}, expired : BOOLEAN]
  BY <1>1 DEF LockInv, LockShapes
<1>3. \A k \in sweeping : k \in overrun'
  BY <1>1 DEF LockInv, LockShapes, E!LockHeld
<1> QED BY <1>1, <1>2, <1>3 DEF LockInv, LockShapes, E!LockHeld

-----------------------------------------------------------------------------
LEMMA ErasureInitially == ASSUME E!ErasureAssumption, E!Init PROVE E!IInv
<1>1. LockInv
  BY DEF E!Init, LockInv, LockShapes, E!LockHeld, E!NoLock, E!ErasureAssumption
<1> QED BY <1>1, InitErasure, Halves

LEMMA ErasureKeeps ==
    ASSUME E!ErasureAssumption, E!IInv, [E!Next]_(E!vars) PROVE E!IInv'
<1>1. DataInv /\ LockInv
  BY Halves
<1>2. CASE UNCHANGED E!vars
  BY <1>1, <1>2, NothingErased, Halves DEF E!vars, LockInv, LockShapes, E!LockHeld
<1>3. ASSUME NEW u \in Users, E!MemberStep(u) PROVE E!IInv'
  <2>1. LockInv'
    BY <1>1, <1>3 DEF E!MemberStep, E!CreateData, E!Withdraw, E!GraceEnds, LockInv,
         LockShapes, E!LockHeld
  <2> QED BY <1>1, <1>3, <2>1, MemberKeepsData, Halves
<1>4. ASSUME NEW k \in Instances, E!SweepStep(k) PROVE E!IInv'
  BY <1>1, <1>4, SweepKeepsData, SweepKeepsLock, Halves
<1>5. ASSUME NEW k \in Instances, NEW u \in Users, E!EngineStep(k, u) PROVE E!IInv'
  BY <1>1, <1>5, EngineKeepsData, EngineKeepsLock, Halves
<1>6. CASE E!LockExpires
  <2>1. DataInv'
    BY <1>1, <1>6, NothingErased DEF E!LockExpires
  <2> QED BY <1>1, <1>6, <2>1, ExpiryKeepsLock, Halves
<1> QED BY <1>2, <1>3, <1>4, <1>5, <1>6 DEF E!Next

-----------------------------------------------------------------------------
\* Whatever the number of instances and members: state and requests have their
\* shape, a sweep in time holds the lock, and what runs have marked or taken from
\* their lists is gone for good.
THEOREM ErasureInvariant == ASSUME E!ErasureAssumption PROVE E!Spec => []E!IInv
<1>1. E!Init => E!IInv
  BY ErasureInitially
<1>2. E!IInv /\ [E!Next]_(E!vars) => E!IInv'
  BY ErasureKeeps
<1> QED BY <1>1, <1>2, PTL DEF E!Spec

\* The component in MCMembers takes its own steps and no other.
LEMMA ErasureMoves == MCSpec => E!Spec
<1>1. MCInit => E!Init
  BY DEF MCInit
<1>2. [MCNext]_allVars => [E!Next]_(E!vars)
  BY DEF MCNext, allVars, erasureVars, E!vars
<1> QED BY <1>1, <1>2, PTL DEF MCSpec, E!Spec

LEMMA ErasureHolds == MCSpec => []E!IInv
<1>1. E!ErasureAssumption
  BY ConstantsFit
<1> QED BY <1>1, ErasureInvariant, ErasureMoves, PTL

\* One instance sweeps at a time, however many there are, unless one outlived its
\* lock: the lease is taken only when free or expired, and given back by its owner.
THEOREM OneSweeper == MCSpec => []OneSweeperUnlessExpired
<1>1. E!IInv => OneSweeperUnlessExpired
  BY DEF E!IInv, E!LockHeld, E!OneSweeperUnlessExpired, OneSweeperUnlessExpired
<1> QED BY <1>1, ErasureHolds, PTL

\* Whatever sweeps overlap, fail or die half way: of a member whose user
\* document is a tombstone nothing is left that only an active one can create.
THEOREM TombstoneLast == MCSpec => []TombstoneIsLast
<1>1. E!IInv => TombstoneIsLast
  BY DEF E!IInv, TombstoneIsLast
<1> QED BY <1>1, ErasureHolds, PTL

\* What a request's document marks as done has been done.
THEOREM MarkersTrue == MCSpec => []MarkersAreTrue
<1>1. E!IInv => MarkersAreTrue
  BY DEF E!IInv, E!RunsTrue, E!RunTrue, E!Closed, E!MarkersAreTrue, MarkersAreTrue
<1> QED BY <1>1, ErasureHolds, PTL
=============================================================================
