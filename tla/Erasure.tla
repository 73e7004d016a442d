-------------------------------- MODULE Erasure --------------------------------
(***************************************************************************)
(* The erasure of withdrawn members: the daily sweep and its distributed   *)
(* lock, and the engine that runs one task per category of personal data.  *)
(*                                                                         *)
(* A request is run by the process that made it and by no other: the tasks *)
(* still to run and the tasks known to be done are in that process's       *)
(* memory, the markers are in the request's document.  Each bundle of      *)
(* tasks commits its deletions with its markers in one transaction; making *)
(* the request, claiming it, each marker of a failure and the final status *)
(* are writes of their own, and the process may die between any two.  What *)
(* is left of a request that no process runs any more is its status.       *)
(*                                                                         *)
(* Subjects of one page run side by side in any order: a superset of the   *)
(* code's chunks of eight.                                                 *)
(***************************************************************************)
EXTENDS Integers, FiniteSets

CONSTANTS
    Users,
    Instances,    \* application processes that run the daily sweep
    Tasks,        \* the registered destroyers
    Identity,     \* the one that turns the user document into a tombstone
    Heavy,        \* those that get a transaction of their own
    Anonymized,   \* those whose disposition is ANONYMIZE: the ones verified
    Gated,        \* those whose data only an active member can create
    Priority,     \* Priority[t]: the order tasks run in
    PageSize,     \* accounts per scan
    MaxPerRun,    \* accounts per sweep, give or take a page
    NoInstance, Dead

\* What is asked of the constants.
ErasureAssumption ==
    /\ Identity \in Anonymized \ Heavy
    /\ Heavy \subseteq Tasks
    /\ Anonymized \subseteq Tasks
    /\ Gated \subseteq Tasks \ {Identity}
    /\ Priority \in [Tasks -> Nat]
    /\ \A s, t \in Tasks : Priority[s] = Priority[t] => s = t
    /\ \A t \in Tasks : Priority[t] <= Priority[Identity]
    /\ PageSize \in Nat \ {0}
    /\ MaxPerRun \in Nat \ {0}
    /\ NoInstance \notin Instances
    /\ Dead \notin Instances \cup {NoInstance}

VARIABLES
    account,      \* account[u]: where member u is on the way out
    data,         \* data[u]: the categories that hold personal data of u
    lock,         \* the lock document of the sweep
    seen,         \* seen[k]: accounts k has taken up in the sweep it runs
    sweeping,     \* instances whose sweep is running
    full,         \* those of them whose last page, if any, was full
    overrun,      \* history: those whose lock has expired meanwhile
    run,          \* run[k][u]: k's run of the engine for u
    left          \* left[u]: statuses of the requests no process runs

vars == <<account, data, lock, seen, sweeping, full, overrun, run, left>>

\* DUE: withdrawn, and the grace period is over.
AccountStatus == {"ACTIVE", "WITHDRAWN", "DUE", "ERASED"}

RequestStatus == {"PENDING", "IN_PROGRESS", "COMPLETED", "FAILED"}

TaskStatus == {"PENDING", "DONE", "FAILED"}

\* todo and done are in memory, status and task in the request's document.
NoRun == [phase |-> "NONE", todo |-> {}, done |-> {}, status |-> "NONE",
          task |-> [t \in Tasks |-> "PENDING"]]

NoLock == [owner |-> NoInstance, expired |-> FALSE]

Init ==
    /\ account = [u \in Users |-> "ACTIVE"]
    /\ data = [u \in Users |-> {Identity}]
    /\ lock = NoLock
    /\ seen = [k \in Instances |-> {}]
    /\ sweeping = {}
    /\ full = {}
    /\ overrun = {}
    /\ run = [k \in Instances |-> [u \in Users |-> NoRun]]
    /\ left = [u \in Users |-> {}]

-----------------------------------------------------------------------------
\* Members

\* Many use-cases never look at the account: its access token outlives it.
CreateData(u, c) ==
    /\ c \in Tasks \ {Identity}
    /\ c \in Gated => account[u] = "ACTIVE"
    /\ data' = [data EXCEPT ![u] = @ \cup {c}]
    /\ UNCHANGED <<account, lock, seen, sweeping, full, overrun, run, left>>

Withdraw(u) ==
    /\ account[u] = "ACTIVE"
    /\ account' = [account EXCEPT ![u] = "WITHDRAWN"]
    /\ UNCHANGED <<data, lock, seen, sweeping, full, overrun, run, left>>

GraceEnds(u) ==
    /\ account[u] = "WITHDRAWN"
    /\ account' = [account EXCEPT ![u] = "DUE"]
    /\ UNCHANGED <<data, lock, seen, sweeping, full, overrun, run, left>>

-----------------------------------------------------------------------------
\* The lock.  Its owner is a process: a process that died owns it as Dead.

AcquireUnheld(k) ==
    /\ lock = NoLock
    /\ lock' = [owner |-> k, expired |-> FALSE]

\* The upsert replaces an expired lock; against a live one it collides.
Acquire(k) ==
    /\ lock = NoLock \/ lock.expired
    /\ lock' = [owner |-> k, expired |-> FALSE]

ReleaseWhoever(k) == lock' = NoLock

Release(k) == lock' = IF lock.owner = k THEN NoLock ELSE lock

LockExpires ==
    /\ lock # NoLock
    /\ ~lock.expired
    /\ lock' = [lock EXCEPT !.expired = TRUE]
    /\ overrun' = overrun \cup ({lock.owner} \cap Instances)
    /\ UNCHANGED <<account, data, seen, sweeping, full, run, left>>

-----------------------------------------------------------------------------
\* The sweep

Due == {u \in Users : account[u] = "DUE"}

\* A scan returns any PageSize of the due accounts: it does not sort them.
Pages == {p \in SUBSET Due : \/ Cardinality(p) = PageSize
                             \/ p = Due /\ Cardinality(p) < PageSize}

\* At three in the morning.
StartSweep(k) ==
    /\ k \notin sweeping
    /\ Acquire(k)
    /\ sweeping' = sweeping \cup {k}
    /\ full' = full \cup {k}
    /\ UNCHANGED <<account, data, seen, overrun, run, left>>

Settled(k) == \A u \in Users : run[k][u] = NoRun

NextPage(k) ==
    /\ k \in full
    /\ Settled(k)
    /\ Cardinality(seen[k]) < MaxPerRun
    /\ \E page \in Pages :
          /\ page \ seen[k] # {}
          /\ full' = IF Cardinality(page) = PageSize THEN full ELSE full \ {k}
          /\ seen' = [seen EXCEPT ![k] = @ \cup page]
          /\ run' = [run EXCEPT ![k] = [u \in Users |->
                       IF u \in page \ seen[k] THEN [NoRun EXCEPT !.phase = "QUEUED"]
                                               ELSE NoRun]]
    /\ UNCHANGED <<account, data, lock, sweeping, overrun, left>>

\* The last page was a partial one, the ceiling is reached, or the next scan
\* finds nothing or only accounts this sweep has tried.
EndSweep(k) ==
    /\ k \in sweeping
    /\ Settled(k)
    /\ \/ k \notin full
       \/ Cardinality(seen[k]) >= MaxPerRun
       \/ \E page \in Pages : page \subseteq seen[k]
    /\ Release(k)
    /\ sweeping' = sweeping \ {k}
    /\ full' = full \ {k}
    /\ overrun' = overrun \ {k}
    /\ seen' = [seen EXCEPT ![k] = {}]
    /\ UNCHANGED <<account, data, run, left>>

-----------------------------------------------------------------------------
\* The engine

Set(k, u, r) == run' = [run EXCEPT ![k][u] = r]

Close(k, u, status) ==
    /\ Set(k, u, NoRun)
    /\ left' = [left EXCEPT ![u] = @ \cup {status}]

CreateRequest(k, u) ==
    /\ run[k][u].phase = "QUEUED"
    /\ Set(k, u, [NoRun EXCEPT !.phase = "CREATED", !.status = "PENDING"])
    /\ UNCHANGED <<account, data, lock, seen, sweeping, full, overrun, left>>

ClaimInProgress(k, u) ==
    /\ run[k][u].phase = "CREATED"
    /\ Set(k, u, [run[k][u] EXCEPT !.phase = "RUNNING", !.status = "IN_PROGRESS",
                                   !.todo = Tasks])
    /\ UNCHANGED <<account, data, lock, seen, sweeping, full, overrun, left>>

First(todo) == CHOOSE t \in todo : \A s \in todo : Priority[t] <= Priority[s]

NextBundleUnflushed(todo) ==
    IF todo \ Heavy # {} THEN todo \ Heavy ELSE {First(todo)}

\* A heavy task alone, or the light ones that come before the next heavy one.
NextBundle(todo) ==
    IF First(todo) \in Heavy
      THEN {First(todo)}
      ELSE {t \in todo : \A s \in todo : Priority[s] <= Priority[t] => s \notin Heavy}

MarkedOther(r, tasks, status) ==
    [t \in Tasks |-> IF t \in tasks THEN "IN_PROGRESS" ELSE r.task[t]]

Marked(r, tasks, status) ==
    [t \in Tasks |-> IF t \in tasks THEN status ELSE r.task[t]]

\* The deletions and the markers of a bundle, in one transaction.
CommitBundle(k, u, bundle) ==
    /\ data' = [data EXCEPT ![u] = @ \ bundle]
    /\ account' = IF Identity \in bundle THEN [account EXCEPT ![u] = "ERASED"]
                                         ELSE account
    /\ UNCHANGED <<lock, seen, sweeping, full, overrun, left>>

RunBundle(k, u) ==
    LET r == run[k][u]
        bundle == NextBundle(r.todo)
    IN
    /\ r.phase = "RUNNING"
    /\ CommitBundle(k, u, bundle)
    /\ Set(k, u, [r EXCEPT !.phase = IF bundle = r.todo THEN "VERIFY" ELSE "RUNNING",
                           !.todo = @ \ bundle,
                           !.done = @ \cup bundle,
                           !.task = Marked(r, bundle, "DONE")])

\* The driver's answer is lost after the commit: the memory does not know.
LoseBundle(k, u) ==
    LET r == run[k][u]
        bundle == NextBundle(r.todo)
    IN
    /\ r.phase = "RUNNING"
    /\ CommitBundle(k, u, bundle)
    /\ Set(k, u, [r EXCEPT !.phase = "FAILING", !.todo = Tasks \ r.done,
                           !.task = Marked(r, bundle, "DONE")])

AbortBundleKeepsMarkers(k, u) ==
    LET r == run[k][u] IN
    /\ r.phase = "RUNNING"
    /\ Set(k, u, [r EXCEPT !.phase = "FAILING", !.todo = Tasks \ r.done,
                           !.task = Marked(r, NextBundle(r.todo), "DONE")])
    /\ UNCHANGED <<account, data, lock, seen, sweeping, full, overrun, left>>

AbortBundle(k, u) ==
    LET r == run[k][u] IN
    /\ r.phase = "RUNNING"
    /\ Set(k, u, [r EXCEPT !.phase = "FAILING", !.todo = Tasks \ r.done])
    /\ UNCHANGED <<account, data, lock, seen, sweeping, full, overrun, left>>

\* fail: a marker at a time, none of them in a transaction.
MarkFailed(k, u) ==
    LET r == run[k][u]
        t == First(r.todo)
    IN
    /\ r.phase = "FAILING"
    /\ r.todo # {}
    /\ Set(k, u, [r EXCEPT !.todo = @ \ {t}, !.task = Marked(r, {t}, "FAILED")])
    /\ UNCHANGED <<account, data, lock, seen, sweeping, full, overrun, left>>

FinalizeFailed(k, u) ==
    /\ \/ run[k][u].phase = "FAILING" /\ run[k][u].todo = {}
       \/ run[k][u].phase = "UNCLEAN"
    /\ Close(k, u, "FAILED")
    /\ UNCHANGED <<account, data, lock, seen, sweeping, full, overrun>>

\* The reconciler looks at the anonymized categories only.
Scan(k, u) ==
    /\ run[k][u].phase = "VERIFY"
    /\ Set(k, u, [run[k][u] EXCEPT
                    !.phase = IF data[u] \cap Anonymized = {} THEN "CLEAN" ELSE "UNCLEAN"])
    /\ UNCHANGED <<account, data, lock, seen, sweeping, full, overrun, left>>

FinalizeCompleted(k, u) ==
    /\ run[k][u].phase = "CLEAN"
    /\ Close(k, u, "COMPLETED")
    /\ UNCHANGED <<account, data, lock, seen, sweeping, full, overrun>>

\* An error outside the tasks: eraseOne logs it, and the request stays as it is.
Drop(k, u) ==
    /\ run[k][u] # NoRun
    /\ Set(k, u, NoRun)
    /\ left' = [left EXCEPT ![u] = @ \cup ({run[k][u].status} \cap RequestStatus)]
    /\ UNCHANGED <<account, data, lock, seen, sweeping, full, overrun>>

\* The process dies and starts again, with another owner id.
Crash(k) ==
    /\ k \in sweeping
    /\ left' = [u \in Users |-> left[u] \cup ({run[k][u].status} \cap RequestStatus)]
    /\ run' = [run EXCEPT ![k] = [u \in Users |-> NoRun]]
    /\ lock' = IF lock.owner = k THEN [lock EXCEPT !.owner = Dead] ELSE lock
    /\ sweeping' = sweeping \ {k}
    /\ full' = full \ {k}
    /\ overrun' = overrun \ {k}
    /\ seen' = [seen EXCEPT ![k] = {}]
    /\ UNCHANGED <<account, data>>

-----------------------------------------------------------------------------
MemberStep(u) ==
    \/ \E c \in Tasks : CreateData(u, c)
    \/ Withdraw(u)
    \/ GraceEnds(u)

SweepStep(k) ==
    \/ StartSweep(k)
    \/ NextPage(k)
    \/ EndSweep(k)
    \/ Crash(k)

EngineStep(k, u) ==
    \/ CreateRequest(k, u)
    \/ ClaimInProgress(k, u)
    \/ RunBundle(k, u)
    \/ LoseBundle(k, u)
    \/ AbortBundle(k, u)
    \/ MarkFailed(k, u)
    \/ FinalizeFailed(k, u)
    \/ Scan(k, u)
    \/ FinalizeCompleted(k, u)
    \/ Drop(k, u)

Next ==
    \/ \E u \in Users : MemberStep(u)
    \/ \E k \in Instances : SweepStep(k) \/ \E u \in Users : EngineStep(k, u)
    \/ LockExpires

Spec == Init /\ [][Next]_vars

RunFrom(k, u, t) ==
    /\ run[k][u].phase = "RUNNING"
    /\ First(run[k][u].todo) = t
    /\ RunBundle(k, u)

\* The cron fires every day; no step of a sweep fails at every attempt
\* (RunFrom: for each task, not just for the first).
Fairness ==
    \A k \in Instances :
        /\ SF_vars(StartSweep(k))
        /\ SF_vars(NextPage(k))
        /\ WF_vars(EndSweep(k))
        /\ \A u \in Users :
              /\ SF_vars(CreateRequest(k, u))
              /\ SF_vars(ClaimInProgress(k, u))
              /\ \A t \in Tasks : SF_vars(RunFrom(k, u, t))
              /\ WF_vars(MarkFailed(k, u))
              /\ WF_vars(FinalizeFailed(k, u))
              /\ WF_vars(Scan(k, u))
              /\ WF_vars(FinalizeCompleted(k, u))

\* And time passes: a lease ends.
FairSpec == Spec /\ WF_vars(LockExpires) /\ Fairness

-----------------------------------------------------------------------------
\* Properties

\* Accounts, lock and runs have the shape the code gives them.
TypeOK ==
    /\ account \in [Users -> AccountStatus]
    /\ data \in [Users -> SUBSET Tasks]
    /\ lock \in [owner : Instances \cup {NoInstance, Dead}, expired : BOOLEAN]
    /\ seen \in [Instances -> SUBSET Users]
    /\ sweeping \subseteq Instances
    /\ full \subseteq sweeping
    /\ overrun \subseteq sweeping
    /\ run \in [Instances -> [Users ->
                  [phase : {"NONE", "QUEUED", "CREATED", "RUNNING", "FAILING",
                            "VERIFY", "CLEAN", "UNCLEAN"},
                   todo : SUBSET Tasks, done : SUBSET Tasks,
                   status : RequestStatus \cup {"NONE"},
                   task : [Tasks -> TaskStatus]]]]
    /\ left \in [Users -> SUBSET RequestStatus]

\* Two instances sweep at the same time only if one has outlived its lock:
\* a sweep that ends late does not free the lock of the one that replaced it.
OneSweeperUnlessExpired ==
    \A j, k \in sweeping \ overrun : j = k

\* The tombstone is the last word: when the user document has become one,
\* nothing a member can only create while active is left, although several
\* sweeps may erase the member at once and each may fail or die half way.
TombstoneIsLast ==
    \A u \in Users :
        account[u] = "ERASED" => data[u] \cap (Gated \cup {Identity}) = {}

\* A task marked DONE has been carried out, whatever became of its request.
MarkersAreTrue ==
    \A k \in Instances, u \in Users, t \in Gated \cup {Identity} :
        run[k][u].task[t] = "DONE" => t \notin data[u]

\* A member whose grace is over is erased in the end: a crashed sweep does not
\* keep the lock, and the next one starts the erasure over.
DueIsErased == \A u \in Users : account[u] = "DUE" ~> account[u] = "ERASED"

\* What a comment claims and the code does not do: that a request "resumes
\* after a crash".
InterruptedRequestsResume ==
    \A u \in Users : "IN_PROGRESS" \in left[u] ~> "IN_PROGRESS" \notin left[u]
=============================================================================
