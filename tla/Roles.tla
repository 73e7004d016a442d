--------------------------------- MODULE Roles ---------------------------------
(***************************************************************************)
(* What the membership services promise: a member's status and grants      *)
(* change one at a time, a grant is only made to an active member, an      *)
(* administrator stays one, and who has withdrawn does not come back.      *)
(***************************************************************************)
CONSTANTS Users, Operators, Shelters

VARIABLES
    status,       \* status[u]: the account of member u
    admin,        \* admin[u]: shelters u administers
    staff         \* staff[u]: shelters u works for

vars == <<status, admin, staff>>

Init ==
    /\ status = [u \in Users |-> "ACTIVE"]
    /\ admin = [u \in Users |-> {}]
    /\ staff = [u \in Users |-> {}]

Move(u, from, to) ==
    /\ status[u] = from
    /\ status' = [status EXCEPT ![u] = to]
    /\ UNCHANGED <<admin, staff>>

\* An operator is never suspended.
Suspend(u) == u \notin Operators /\ Move(u, "ACTIVE", "SUSPENDED")

Reinstate(u) == Move(u, "SUSPENDED", "ACTIVE")

Withdraw(u) == Move(u, "ACTIVE", "WITHDRAWN")

\* A shelter has one administrator.
GrantAdmin(u, s) ==
    /\ status[u] = "ACTIVE"
    /\ \A v \in Users : s \notin admin[v]
    /\ admin' = [admin EXCEPT ![u] = @ \cup {s}]
    /\ UNCHANGED <<status, staff>>

Promote(u, s) ==
    /\ status[u] = "ACTIVE"
    /\ s \notin staff[u]
    /\ staff' = [staff EXCEPT ![u] = @ \cup {s}]
    /\ UNCHANGED <<status, admin>>

Remove(u, s) ==
    /\ s \in staff[u]
    /\ staff' = [staff EXCEPT ![u] = @ \ {s}]
    /\ UNCHANGED <<status, admin>>

Next ==
    \E u \in Users :
       \/ Suspend(u) \/ Reinstate(u) \/ Withdraw(u)
       \/ \E s \in Shelters : GrantAdmin(u, s) \/ Promote(u, s) \/ Remove(u, s)

Spec == Init /\ [][Next]_vars
=============================================================================
