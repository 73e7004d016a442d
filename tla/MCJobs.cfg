\* One of three independent components moves.  No symmetry: liveness.
\* Erasure: one member and one instance that may crash at every step and start
\* again.  Volunteer: one seat, two members, a request against the sweep.
\* Outbox: three rows, batches of one, two relays.
SPECIFICATION FairSpec
CONSTANTS
    Parts = {"erasure", "volunteer", "outbox"}
    Users = {u1}
    Instances = {k1}
    PageSize = 1
    MaxPerRun = 2
    NoInstance = NoInstance
    Dead = Dead
    Events = {e1}
    Volunteers = {v1, v2}
    Workers = {w1}
    Sweepers = {k1}
    Capacity = 1
    MaxSignups = 3
    NoEvent = NoEvent
    NoVolunteer = NoVolunteer
    MaxRows = 3
    BatchLimit = 1
    Relays = {r1, r2}
PROPERTIES
    EndedEventsClose
    DueIsErased
    NothingStarves
\* The bounds let a behaviour end.
CHECK_DEADLOCK FALSE
