\* One of four independent components moves.
\* Sessions: three tokens of one member (a rotation that forks, or two sessions
\* side by side) and two requests.  Access: one member, two shelters.
\* Erasure: two instances, whose runs for one member overlap when the lock
\* expires.  Volunteer: one event with two seats, two members, two signups, two requests.
SPECIFICATION MCSpec
CONSTANTS
    Parts = {"sessions", "access", "erasure", "volunteer"}
    Tokens = {t1, t2, t3}
    Users = {u1}
    Workers = {w1, w2}
    NoToken = NoToken
    NoUser = NoUser
    Shelters = {s1, s2}
    Servers = {x1}
    None = None
    Instances = {k1, k2}
    Tasks <- MCTasks
    Identity <- MCIdentity
    Heavy <- MCHeavy
    Gated <- MCGated
    Anonymized <- MCAnonymized
    Priority <- MCPriority
    PageSize = 1
    MaxPerRun = 2
    NoInstance = NoInstance
    Dead = Dead
    Events = {e1}
    Volunteers = {v1, v2}
    Sweepers = {}
    Capacity = 2
    MaxSignups = 2
    NoEvent = NoEvent
    NoVolunteer = NoVolunteer
SYMMETRY Symmetry
INVARIANTS
    Shapes
    OneLineUnlessRaced
    SuccessorSpendsParent
    LogoutIsFinal
    RevocationIsImmediate
    OneSweeperUnlessExpired
    TombstoneIsLast
    MarkersAreTrue
    SeatsCounted
    OneLiveSignup
    CertificateEarned
PROPERTIES
    ErasedStaysOut
    RosterSpec
\* The bounds let a behaviour end.
CHECK_DEADLOCK FALSE
