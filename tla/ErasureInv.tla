------------------------------ MODULE ErasureInv ------------------------------
(***************************************************************************)
(* The inductive invariant of Erasure.  What a run has taken from its list *)
(* of tasks is gone, and does not come back: the member is not active any  *)
(* more.  A sweep that has not outlived its lock holds it.                 *)
(***************************************************************************)
EXTENDS Erasure

\* Nothing of these can be created once the member has withdrawn.
Closed == Gated \cup {Identity}

\* Run r of the engine for u: only for members whose grace is over; what is
\* marked or has left the list is gone, and a run without a list runs no task.
RunTrue(r, u) ==
    /\ r.phase # "NONE" => account[u] \in {"DUE", "ERASED"}
    /\ \A t \in Closed : r.task[t] = "DONE" =>
          t \notin data[u] /\ account[u] \in {"DUE", "ERASED"}
    /\ r.phase = "RUNNING" =>
          r.todo # {} /\ \A t \in Closed : t \in r.todo \/ t \notin data[u]

RunsTrue == \A k \in Instances, u \in Users : RunTrue(run[k][u], u)

\* A sweep that has not outlived its lock holds it, and an instance that holds
\* the lock is sweeping.
LockHeld ==
    /\ \A k \in sweeping \ overrun : lock.owner = k /\ ~lock.expired
    /\ lock.owner \in Instances => lock.owner \in sweeping

IInv ==
    /\ TypeOK
    /\ LockHeld
    /\ TombstoneIsLast
    /\ RunsTrue
=============================================================================
