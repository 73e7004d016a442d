\* A claim of a comment that the code breaks: see the README, "Findings".
SPECIFICATION MCSpec
CONSTANTS
    Parts = {"sessions"}
    Tokens = {t1, t2, t3}
    Users = {u1}
    Workers = {w1, w2}
    NoToken = NoToken
    NoUser = NoUser
    Shelters = {s1, s2}
    Servers = {x1}
    None = None
    Instances = {k1, k2}
    Tasks <- MCTasks
    Identity <- MCIdentity
    Heavy <- MCHeavy
    Gated <- MCGated
    Anonymized <- MCAnonymized
    Priority <- MCPriority
    PageSize = 1
    MaxPerRun = 2
    NoInstance = NoInstance
    Dead = Dead
    Events = {e1}
    Volunteers = {v1, v2}
    Sweepers = {}
    Capacity = 2
    MaxSignups = 2
    NoEvent = NoEvent
    NoVolunteer = NoVolunteer
SYMMETRY Symmetry
INVARIANTS
    SingleUse
CHECK_DEADLOCK FALSE
