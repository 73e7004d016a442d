------------------------------ MODULE MCMembers ------------------------------
(***************************************************************************)
(* Sessions, Access, Erasure and Volunteer on small instances.  They share *)
(* no state, so each behaviour moves one of them, chosen at the beginning, *)
(* and the others stay as they began.  Volunteer is extended, the others   *)
(* are instances.                                                          *)
(***************************************************************************)
EXTENDS TLC, Destroyers, VolunteerInv

CONSTANTS
    Parts,           \* the components that may be chosen
    Tokens, Users, NoToken, NoUser,
    Shelters, Servers, None,
    Instances, Tasks, Identity, Heavy, Gated, Anonymized, Priority,
    PageSize, MaxPerRun, NoInstance, Dead

VARIABLES
    part,            \* the component chosen
    member, token, jwt, req, parent, raced, loggedOut, cleared,
    operators, status, admin, staff, access, refresh, call,
    subject, data, lock, seen, sweeping, full, overrun, run, left

sessionVars == <<member, token, jwt, req, parent, raced, loggedOut, cleared>>
accessVars == <<operators, status, admin, staff, access, refresh, call>>
erasureVars == <<subject, data, lock, seen, sweeping, full, overrun, run, left>>
volunteerVars == vars
allVars == <<part, sessionVars, accessVars, erasureVars, volunteerVars>>

\* Of the twelve destroyers, one of each kind that the engine and the
\* properties tell apart.
Chosen == {FavoriteDestroyer, AdoptionApplicationDestroyer, MessageDestroyer,
           VolunteerPostDestroyer, IdentityDestroyer}
MCTasks == KeysOf(Chosen)
MCIdentity == IdentityDestroyer.key
MCHeavy == HeavyOf(Chosen)
MCGated == GatedOf(Chosen)
MCAnonymized == AnonymizedOf(Chosen)
MCPriority == PriorityOf(Chosen)

S == INSTANCE SessionsInv WITH account <- member
A == INSTANCE AccessInv
E == INSTANCE ErasureInv WITH account <- subject

ASSUME ConstantsFit ==
    /\ S!SessionsAssumption
    /\ A!AccessAssumption
    /\ RegistryFits
    /\ E!ErasureAssumption
    /\ VolunteerAssumption

MCInit ==
    /\ part \in Parts
    /\ S!Init
    /\ A!Init
    /\ part # "access" => operators = {} /\ admin = [u \in Users |-> {}]
    /\ E!Init
    /\ Init

MCNext ==
    \/ part = "sessions" /\ S!Next
         /\ UNCHANGED <<part, accessVars, erasureVars, volunteerVars>>
    \/ part = "access" /\ A!Next
         /\ UNCHANGED <<part, sessionVars, erasureVars, volunteerVars>>
    \/ part = "erasure" /\ E!Next
         /\ UNCHANGED <<part, sessionVars, accessVars, volunteerVars>>
    \/ part = "volunteer" /\ Next
         /\ UNCHANGED <<part, sessionVars, accessVars, erasureVars>>

MCSpec == MCInit /\ [][MCNext]_allVars

Symmetry == Permutations(Tokens) \cup Permutations(Workers)

-----------------------------------------------------------------------------
\* What the component that moves has at every step: the shape of its state, and
\* what its proofs rest on.
Shapes ==
    /\ part = "sessions" => S!IInv
    /\ part = "access" => A!IInv
    /\ part = "erasure" => E!IInv
    /\ part = "volunteer" => IInv

\* A family is one line of tokens unless rotations raced: see Sessions.
OneLineUnlessRaced == part = "sessions" => S!OneLineUnlessRaced

\* A token with a successor never passes for unused: see Sessions.
SuccessorSpendsParent == part = "sessions" => S!SuccessorSpendsParent

\* A log-out no rotation overlaps is final: see Sessions.
LogoutIsFinal == part = "sessions" => S!LogoutIsFinal

\* No session of an erased member comes back: see Sessions.
ErasedStaysOut == S!ErasedStaysOut

\* A spent token presented again revokes its family: see Sessions.
ReuseRevokesFamily == S!ReuseRevokesFamily

\* A token is exchanged for at most one other: see Sessions.
SingleUse == part = "sessions" => S!SingleUse

\* A request is served to who has had the standing it needs: see Access.
RevocationIsImmediate == part = "access" => A!RevocationIsImmediate

\* Suspension blocks a member everywhere: see Access.
SuspendedAreBlocked == part = "access" => A!SuspendedAreBlocked

\* One instance sweeps unless its lock expired: see Erasure.
OneSweeperUnlessExpired == part = "erasure" => E!OneSweeperUnlessExpired

\* The user document is made a tombstone last: see Erasure.
TombstoneIsLast == part = "erasure" => E!TombstoneIsLast

\* A task marked DONE was carried out: see Erasure.
MarkersAreTrue == part = "erasure" => E!MarkersAreTrue
=============================================================================
