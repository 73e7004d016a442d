-------------------------------- MODULE MCJobs --------------------------------
(***************************************************************************)
(* What must happen in the end: the sweep of ended events (Volunteer), the *)
(* erasure of withdrawn members (Erasure) and the relay of the outbox      *)
(* (Outbox), each under its fairness.  They share no state, so each        *)
(* behaviour moves one of them, chosen at the beginning.                   *)
(***************************************************************************)
EXTENDS Integers, FiniteSets, TLC, Destroyers

CONSTANTS
    Parts,           \* the components that may be chosen
    Users, Instances, PageSize, MaxPerRun, NoInstance, Dead,
    Events, Volunteers, Workers, Sweepers, Capacity, MaxSignups,
    NoEvent, NoVolunteer,
    MaxRows, BatchLimit, Relays

VARIABLES
    part,            \* the component chosen
    account, data, lock, seen, sweeping, full, overrun, run, left,
    event, signup, clock, txn, sweep, certified,
    row, batch

erasureVars == <<account, data, lock, seen, sweeping, full, overrun, run, left>>
volunteerVars == <<event, signup, clock, txn, sweep, certified>>
outboxVars == <<row, batch>>
vars == <<part, erasureVars, volunteerVars, outboxVars>>

\* As in MCMembers.
Chosen == {FavoriteDestroyer, AdoptionApplicationDestroyer, MessageDestroyer,
           VolunteerPostDestroyer, IdentityDestroyer}
MCTasks == KeysOf(Chosen)
MCIdentity == IdentityDestroyer.key
MCHeavy == HeavyOf(Chosen)
MCGated == GatedOf(Chosen)
MCAnonymized == AnonymizedOf(Chosen)
MCPriority == PriorityOf(Chosen)

E == INSTANCE Erasure
       WITH Tasks <- MCTasks, Identity <- MCIdentity,
            Heavy <- MCHeavy, Gated <- MCGated,
            Anonymized <- MCAnonymized, Priority <- MCPriority
V == INSTANCE Volunteer
O == INSTANCE Outbox

ASSUME ConstantsFit == E!ErasureAssumption /\ V!VolunteerAssumption

Init ==
    /\ part \in Parts
    /\ E!Init
    /\ V!Init
    /\ O!Init

Next ==
    \/ part = "erasure" /\ E!Next /\ UNCHANGED <<part, volunteerVars, outboxVars>>
    \/ part = "volunteer" /\ V!Next /\ UNCHANGED <<part, erasureVars, outboxVars>>
    \/ part = "outbox" /\ O!Next /\ UNCHANGED <<part, erasureVars, volunteerVars>>

\* The fairness of the component that moves; leases end as time passes.
FairSpec ==
    /\ Init /\ [][Next]_vars
    /\ \/ part = "erasure" /\ WF_erasureVars(E!LockExpires) /\ E!Fairness
       \/ part = "volunteer" /\ V!Fairness
       \/ part = "outbox" /\ O!Fairness

-----------------------------------------------------------------------------
\* An ended event does not stay open for ever: see Volunteer.
EndedEventsClose == V!EndedEventsClose

\* A member whose grace is over is erased in the end: see Erasure.
DueIsErased == E!DueIsErased

\* An interrupted request is run again: see Erasure.
InterruptedRequestsResume == E!InterruptedRequestsResume

\* Every row of the outbox is taken up in the end: see Outbox.
NothingStarves == O!NothingStarves
=============================================================================
