\* One shelter, a member and an operator, three approval requests (the
\* verification and two promotions), two requests at a time.
SPECIFICATION Spec
CONSTANTS
    Users = {m1, o1}
    Operators = {o1}
    Shelters = {s1}
    Workers = {w1, w2}
    MaxRequests = 3
    NoUser = NoUser
    NoShelter = NoShelter
SYMMETRY Symmetry
INVARIANTS
    IInv
    VerificationAgrees
    StaffAccounted
    DecisionsTold
PROPERTIES
    SanctionsHold
    RolesSpec
