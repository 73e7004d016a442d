-------------------------------- MODULE Roster --------------------------------
(***************************************************************************)
(* What the volunteer services promise: the seats of an event, given and   *)
(* left one at a time.  Volunteer implements this specification.           *)
(***************************************************************************)
EXTENDS Integers, FiniteSets

CONSTANTS Events, Volunteers, Capacity

VARIABLES
    status,       \* status[e]: where event e is in its life
    seated        \* seated[e]: the volunteers who have a seat

vars == <<status, seated>>

Init ==
    /\ status = [e \in Events |-> "ABSENT"]
    /\ seated = [e \in Events |-> {}]

Move(e, from, to) ==
    /\ status[e] \in from
    /\ status' = [status EXCEPT ![e] = to]
    /\ UNCHANGED seated

Book(e, v) ==
    /\ status[e] = "OPEN"
    /\ v \notin seated[e]
    /\ Cardinality(seated[e]) < Capacity
    /\ seated' = [seated EXCEPT ![e] = @ \cup {v}]
    /\ UNCHANGED status

Leave(e, v) ==
    /\ v \in seated[e]
    /\ seated' = [seated EXCEPT ![e] = @ \ {v}]
    /\ UNCHANGED status

Next ==
    \E e \in Events :
        \/ Move(e, {"ABSENT"}, "OPEN")
        \/ Move(e, {"OPEN"}, "CLOSED")
        \/ Move(e, {"OPEN", "CLOSED"}, "CANCELLED")
        \/ \E v \in Volunteers : Book(e, v) \/ Leave(e, v)

Spec == Init /\ [][Next]_vars
=============================================================================
