\* One of six independent components moves, with two requests at a time.
\* Posts: one post, two comments.  Policies: three versions of one policy.
\* Threads: one animal, an active member and a representative, two threads.
\* Editorial: two documents, four texts.  Pages: four rows, pages of one.
\* Records: two applications, two adopters, months of two steps.
SPECIFICATION MCSpec
CONSTANTS
    Parts = {"posts", "policies", "threads", "editorial", "pages", "records"}
    Servers = {w1, w2}
    Clerks = {w1, w2}
    None = None
    PostIds = {p1}
    CommentIds = {c1, c2}
    Members = {m1, m2}
    ActiveMembers = {m1}
    Admins = {m1}
    Types = {k1}
    MaxVersion = 3
    Citizens = {u1}
    NoType = NoType
    NoCitizen = NoCitizen
    Animals = {a1}
    Representatives = {m2}
    MaxThreads = 2
    MaxMessages = 2
    Slots = {d1, d2}
    MaxEdits = 4
    MaxRows = 4
    Limit = 1
    Targets = {1, 2}
    Applications = {f1, f2}
    Adopters = {o1, o2}
    MonthLength = 2
    Offset = 1
    MaxTime = 5
    Trend = 2
SYMMETRY Symmetry
INVARIANTS
    Shapes
    LikesCounted
    CommentsCountedUnlessDoubled
    OneInEffect
    OneThreadUnlessRaced
    ParticipantsTold
    VersionNamesQuestions
    PagesCoverWhatStays
    AdoptionsByMonthUnlessErased
PROPERTIES
    ConsentIsCurrentUnlessOvertaken
    ReadIsFinal
\* The bounds let a behaviour end.
CHECK_DEADLOCK FALSE
