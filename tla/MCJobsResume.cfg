\* A claim of a comment that the code breaks: see the README, "Findings".
SPECIFICATION FairSpec
CONSTANTS
    Parts = {"erasure"}
    Users = {u1}
    Instances = {k1}
    PageSize = 1
    MaxPerRun = 2
    NoInstance = NoInstance
    Dead = Dead
    Events = {e1}
    Volunteers = {v1, v2}
    Workers = {w1}
    Sweepers = {k1}
    Capacity = 1
    MaxSignups = 3
    NoEvent = NoEvent
    NoVolunteer = NoVolunteer
    MaxRows = 3
    BatchLimit = 1
    Relays = {r1, r2}
PROPERTIES
    InterruptedRequestsResume
CHECK_DEADLOCK FALSE
