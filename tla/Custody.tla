------------------------------- MODULE Custody -------------------------------
(***************************************************************************)
(* What the placement services promise, one animal at a time: it is in one *)
(* stage of its life, at most one application holds it, and an application *)
(* that has let go of an animal never holds one again.  Each operation is  *)
(* one step.  Placement, with its stale reads and its guarded saves,       *)
(* implements this specification.                                          *)
(***************************************************************************)
CONSTANTS Animals, Apps

VARIABLES
    stage,        \* stage[a]: where animal a is in its life
    holder,       \* holder[a]: the application it is held for, as a set
    spent         \* applications that have held an animal and let it go

vars == <<stage, holder, spent>>

Init ==
    /\ stage = [a \in Animals |-> "ABSENT"]
    /\ holder = [a \in Animals |-> {}]
    /\ spent = {}

\* An application that has never held an animal.
Fresh(i) ==
    /\ i \in Apps \ spent
    /\ \A a \in Animals : i \notin holder[a]

Move(a, from, to) ==
    /\ stage[a] \in from
    /\ stage' = [stage EXCEPT ![a] = to]

Arrive(a) ==
    /\ Move(a, {"ABSENT"}, "AVAILABLE")
    /\ UNCHANGED <<holder, spent>>

Apply(a, i) ==
    /\ Fresh(i)
    /\ Move(a, {"AVAILABLE"}, "RESERVED")
    /\ holder' = [holder EXCEPT ![a] = {i}]
    /\ UNCHANGED spent

\* The shelter approves: the same application keeps the animal.
Grant(a) ==
    /\ \/ Move(a, {"RESERVED"}, "ADOPTED")
       \/ Move(a, {"RESERVED"}, "FOSTERED")
    /\ UNCHANGED <<holder, spent>>

LetGo(a) ==
    /\ holder' = [holder EXCEPT ![a] = {}]
    /\ spent' = spent \cup holder[a]

\* Rejected, foster ended, or brought back.
Release(a) ==
    /\ \/ Move(a, {"RESERVED", "FOSTERED"}, "AVAILABLE")
       \/ Move(a, {"ADOPTED"}, "RETURNED")
    /\ LetGo(a)

\* The foster ends and an adoption takes the animal over, in one step.
Convert(a, j) ==
    /\ Fresh(j)
    /\ Move(a, {"FOSTERED"}, "ADOPTED")
    /\ holder' = [holder EXCEPT ![a] = {j}]
    /\ spent' = spent \cup holder[a]

Relist(a) ==
    /\ Move(a, {"RETURNED"}, "AVAILABLE")
    /\ UNCHANGED <<holder, spent>>

Next ==
    \E a \in Animals :
        \/ Arrive(a)
        \/ Grant(a)
        \/ Release(a)
        \/ Relist(a)
        \/ \E i \in Apps : Apply(a, i) \/ Convert(a, i)

Spec == Init /\ [][Next]_vars
=============================================================================
