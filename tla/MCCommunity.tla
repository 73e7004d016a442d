------------------------------ MODULE MCCommunity ------------------------------
(***************************************************************************)
(* Posts, Policies, Threads, Editorial, Pages and Records on small         *)
(* instances.  They share no state, so each behaviour moves one of them,   *)
(* chosen at the beginning, and the others stay as they began.  Policies   *)
(* is extended, the others are instances.                                  *)
(***************************************************************************)
EXTENDS Sequences, FiniteSets, TLC, Policies

CONSTANTS
    Parts,           \* the components that may be chosen
    Servers,         \* requests being served at the same time, in each of them
    None,
    PostIds, CommentIds, Members, ActiveMembers, Admins,
    Animals, Representatives, MaxThreads, MaxMessages,
    Slots, MaxEdits,
    MaxRows, Limit, Targets,
    Applications, Adopters, MonthLength, Offset, MaxTime, Trend

VARIABLES
    part,            \* the component chosen
    post, comment, likes, bookmarks, serve, doubled,
    inquiry, message, notice, staff, talk, raced, cutShort,
    kind, doc, edits, hand, answered, past,
    listing, page, made, standing, reader,
    now, application, account, decided

postVars == <<post, comment, likes, bookmarks, serve, doubled>>
threadVars == <<inquiry, message, notice, staff, talk, raced, cutShort>>
editorialVars == <<kind, doc, edits, hand, answered, past>>
pageVars == <<listing, page, made, standing, reader>>
recordVars == <<now, application, account, decided>>
vars == <<part, postVars, policyVars, threadVars, editorialVars, pageVars, recordVars>>

P == INSTANCE PostsInv
T == INSTANCE ThreadsInv
D == INSTANCE EditorialInv WITH Desks <- Servers
L == INSTANCE PagesInv
R == INSTANCE RecordsInv

ASSUME ConstantsFit ==
    /\ PolicyAssumption
    /\ R!RecordsAssumption
    /\ T!ThreadsAssumption
    /\ D!EditorialAssumption
    /\ L!PagesAssumption

\* Only the component that moves begins in more than one way.
MCInit ==
    /\ part \in Parts
    /\ P!Init /\ Init /\ T!Init /\ D!Init /\ L!Init /\ R!Init
    /\ part # "editorial" => kind = D!Announcement
    /\ part # "pages" => listing = L!ReadFeed

MCNext ==
    \/ part = "posts" /\ P!Next
         /\ UNCHANGED <<part, policyVars, threadVars, editorialVars, pageVars, recordVars>>
    \/ part = "policies" /\ Next
         /\ UNCHANGED <<part, postVars, threadVars, editorialVars, pageVars, recordVars>>
    \/ part = "threads" /\ T!Next
         /\ UNCHANGED <<part, postVars, policyVars, editorialVars, pageVars, recordVars>>
    \/ part = "editorial" /\ D!Next
         /\ UNCHANGED <<part, postVars, policyVars, threadVars, pageVars, recordVars>>
    \/ part = "pages" /\ L!Next
         /\ UNCHANGED <<part, postVars, policyVars, threadVars, editorialVars, recordVars>>
    \/ part = "records" /\ R!Next
         /\ UNCHANGED <<part, postVars, policyVars, threadVars, editorialVars, pageVars>>

MCSpec == MCInit /\ [][MCNext]_vars

Symmetry == Permutations(Servers)

-----------------------------------------------------------------------------
\* The shape of the state of the component that moves.
Shapes ==
    /\ part = "posts" => P!IInv
    /\ part = "policies" => TypeOK
    /\ part = "threads" => T!IInv
    /\ part = "editorial" => D!IInv
    /\ part = "pages" => L!IInv
    /\ part = "records" => R!IInv

\* A post's count of likes is the number of its like rows: see Posts.
LikesCounted == part = "posts" => P!LikesCounted

\* A post's count of comments is the number of its comments: see Posts.
CommentsCounted == part = "posts" => P!CommentsCounted

\* The same unless one comment is deleted twice at once: see Posts.
CommentsCountedUnlessDoubled == part = "posts" => P!CommentsCountedUnlessDoubled

\* One thread for a member and an animal: see Threads.
OneThread == part = "threads" => T!OneThread

\* The same unless two requests looked for it at once: see Threads.
OneThreadUnlessRaced == part = "threads" => T!OneThreadUnlessRaced

\* Both sides of a thread are told of what concerns them: see Threads.
ParticipantsTold == part = "threads" => T!ParticipantsTold

\* The first time a notice was read is kept: see Threads.
ReadIsFinal == T!ReadIsFinal

\* A version stands for one text: see Editorial.
VersionNamesQuestions == part = "editorial" => D!VersionNamesQuestions

\* Who reads all pages has seen every row that stayed: see Pages.
PagesCoverWhatStays == part = "pages" => L!PagesCoverWhatStays

\* Each month shows the adoptions decided in it: see Records.
AdoptionsByMonth == part = "records" => R!AdoptionsByMonth

\* The same until an adopter is erased: see Records.
AdoptionsByMonthUnlessErased == part = "records" => R!AdoptionsByMonthUnlessErased
=============================================================================
