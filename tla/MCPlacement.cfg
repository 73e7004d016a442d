\* One animal, three applications, two requests at a time. The member applies;
\* the staff member and the operator act for the shelter.
SPECIFICATION Spec
CONSTANTS
    Animals = {a1}
    Apps = {i1, i2, i3}
    Members = {m1, s1}
    Active = {m1}
    Staff = {s1}
    Operators = {s1}
    Workers = {w1, w2}
    NoAnimal = NoAnimal
    NoApp = NoApp
    NoMember = NoMember
    MaxVersion = 4
SYMMETRY Symmetry
INVARIANTS
    OneHolder
    NoOrphanHold
    ApprovalMirrorsApplication
    EffectsExactlyOnce
    IInv
PROPERTIES
    ModerationKept
    CustodySpec
