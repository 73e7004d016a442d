--------------------------------- MODULE Pages ---------------------------------
(***************************************************************************)
(* A member pages through one of the listings while the rows under it      *)
(* come, change and go.                                                    *)
(*                                                                         *)
(* Every listing uses the same keyset scheme: rows in the order of their   *)
(* identity, one more than the page holds to know whether another page     *)
(* follows, and the last row kept as the cursor.  Each page is a request   *)
(* of its own, which asks again whether the reader may read it; where the  *)
(* rows name documents of another collection those are read afterwards,    *)
(* and a row whose document is gone is left out of the page.               *)
(*                                                                         *)
(* An identity is made before its insert commits, so rows become visible   *)
(* out of order.                                                           *)
(***************************************************************************)
EXTENDS Integers, FiniteSets

CONSTANTS
    MaxRows,       \* bound: identities ever made
    Limit,         \* rows of a page
    Targets        \* what a row of a unique listing is about

\* What is asked of the constants.
PagesAssumption == MaxRows \in Nat /\ Limit \in Nat \ {0}

VARIABLES
    listing,       \* the listing read, which does not change
    page,          \* page[i]: the row with identity i
    made,          \* identities made so far
    standing,      \* the reader may read the listing
    reader         \* the reader's requests

pageVars == <<listing, page, made, standing, reader>>

Ids == 1..MaxRows

-----------------------------------------------------------------------------
\* What each repository's query promises of the rows it pages: their order,
\* whether a row may leave the filter and come back (moves), may be deleted
\* (removable), and is the only one of its owner and target (unique).

Query(order) == [order |-> order, moves |-> FALSE, removable |-> FALSE, unique |-> FALSE]

FavoritesOfUser == [Query("NEWEST") EXCEPT !.removable = TRUE, !.unique = TRUE]
BookmarksOfUser == [Query("NEWEST") EXCEPT !.removable = TRUE, !.unique = TRUE]
NotificationsOfRecipient == Query("NEWEST")
InquiriesByInquirer == Query("NEWEST")
InquiriesByShelter == Query("NEWEST")
SignupsByVolunteer == Query("NEWEST")
EventsByShelter == Query("NEWEST")
ReviewsByShelter == [Query("NEWEST") EXCEPT !.removable = TRUE]
PostsFeed == [Query("NEWEST") EXCEPT !.removable = TRUE]
CommentsOfPost == [Query("OLDEST") EXCEPT !.removable = TRUE]
AdoptionsPage == [Query("NEWEST") EXCEPT !.moves = TRUE]
FostersPage == [Query("NEWEST") EXCEPT !.moves = TRUE]
SheltersVerified == [Query("NEWEST") EXCEPT !.moves = TRUE]
ApprovalsPending == [Query("NEWEST") EXCEPT !.moves = TRUE]
AnimalsByAge(order) == [Query(order) EXCEPT !.moves = TRUE]

\* A listing: the query, whom it answers, and whether it joins other documents.
Listing(query, gate) == [query |-> query, gate |-> gate, joined |-> FALSE]

Joining(query) == [Listing(query, "MEMBER") EXCEPT !.joined = TRUE]

ListFavorites == Listing(FavoritesOfUser, "MEMBER")
ListMyBookmarks == Joining(BookmarksOfUser)
ListMyNotifications == Listing(NotificationsOfRecipient, "MEMBER")
ListMyInquiries == Listing(InquiriesByInquirer, "MEMBER")
ListShelterInquiries == Listing(InquiriesByShelter, "STAFF")
ListMySignups == Joining(SignupsByVolunteer)
ListShelterEvents == Listing(EventsByShelter, "MEMBER")
ListReviews == Listing(ReviewsByShelter, "MEMBER")
ReadFeed == Listing(PostsFeed, "MEMBER")
ListComments == Listing(CommentsOfPost, "MEMBER")
ListMyAdoptions == Listing(AdoptionsPage, "MEMBER")
ListShelterAdoptions == Listing(AdoptionsPage, "STAFF")
ListMyFosters == Listing(FostersPage, "MEMBER")
ListShelterFosters == Listing(FostersPage, "STAFF")
ListShelters == Listing(SheltersVerified, "MEMBER")
ListPendingApprovals == Listing(ApprovalsPending, "OPERATOR")
SearchAnimals == {Listing(AnimalsByAge(o), "MEMBER") : o \in {"NEWEST", "OLDEST"}}

Listings ==
    {ListFavorites, ListMyBookmarks, ListMyNotifications, ListMyInquiries,
     ListShelterInquiries, ListMySignups, ListShelterEvents, ListReviews, ReadFeed,
     ListComments, ListMyAdoptions, ListShelterAdoptions, ListMyFosters,
     ListShelterFosters, ListShelters, ListPendingApprovals} \cup SearchAnimals

\* Listings that nothing tells apart are one.
Kinds == {[l EXCEPT !.gate = IF @ = "MEMBER" THEN "MEMBER" ELSE "ROLE"] : l \in Listings}

-----------------------------------------------------------------------------
\* Rows

NoRow == [state |-> "FREE", target |-> 0, matches |-> TRUE, subject |-> TRUE]

Idle == [stage |-> "IDLE", cursor |-> 0, ids |-> {}, next |-> 0, seen |-> {}, due |-> {}]

There(i) == page[i].state = "THERE"

Visible(i) == There(i) /\ page[i].matches /\ (listing.joined => page[i].subject)

About(t) == {i \in Ids : There(i) /\ page[i].target = t}

Init ==
    /\ listing \in Kinds
    /\ page = [i \in Ids |-> NoRow]
    /\ made = 0
    /\ standing = TRUE
    /\ reader = Idle

\* The row i is no longer what the reader was to see.
Changed(i) == reader' = [reader EXCEPT !.due = @ \ {i}]

\* A request looks for a row of the same target and makes the identity.
Claim(t) ==
    /\ made < MaxRows
    /\ IF listing.query.unique THEN About(t) = {} ELSE t = CHOOSE any \in Targets : TRUE
    /\ made' = made + 1
    /\ page' = [page EXCEPT ![made + 1].state = "CLAIMED", ![made + 1].target = t]
    /\ UNCHANGED <<listing, standing, reader>>

\* Its insert commits, or the unique index refuses it.
Publish(i) ==
    /\ page[i].state = "CLAIMED"
    /\ page' = [page EXCEPT ![i].state =
                  IF listing.query.unique /\ About(page[i].target) # {}
                    THEN "GONE" ELSE "THERE"]
    /\ UNCHANGED <<listing, made, standing, reader>>

RemoveRow(i) ==
    /\ listing.query.removable
    /\ There(i)
    /\ page' = [page EXCEPT ![i].state = "GONE"]
    /\ Changed(i)
    /\ UNCHANGED <<listing, made, standing>>

\* A decision, a verification or a sanction changes what the query filters by.
Move(i) ==
    /\ listing.query.moves
    /\ There(i)
    /\ page' = [page EXCEPT ![i].matches = ~@]
    /\ Changed(i)
    /\ UNCHANGED <<listing, made, standing>>

\* The post of a bookmark is deleted, the event of a signup.
LoseSubject(i) ==
    /\ listing.joined
    /\ There(i)
    /\ page[i].subject
    /\ page' = [page EXCEPT ![i].subject = FALSE]
    /\ Changed(i)
    /\ UNCHANGED <<listing, made, standing>>

LoseStanding ==
    /\ listing.gate # "MEMBER"
    /\ standing
    /\ standing' = FALSE
    /\ UNCHANGED <<listing, page, made, reader>>

-----------------------------------------------------------------------------
\* Pages

Before(i, j) == IF listing.query.order = "NEWEST" THEN i > j ELSE i < j

\* Rows behind the cursor; no cursor is the beginning.
Rows(cursor) ==
    {i \in Ids : /\ There(i) /\ page[i].matches
                /\ (cursor = 0 \/ Before(cursor, i))}

\* The first n of the rows, sorted.
First(n, rows) == {i \in rows : Cardinality({j \in rows : Before(j, i)}) < n}

LastOf(rows) == CHOOSE i \in rows : \A j \in rows : j = i \/ Before(j, i)

CursorPageFromExtra(rows) ==
    LET more == Cardinality(rows) > Limit
    IN  [ids |-> First(Limit, rows), next |-> IF more THEN LastOf(rows) ELSE 0]

\* The page of at most Limit + 1 rows fetched, and the cursor of the next one.
CursorPage(rows) ==
    LET more == Cardinality(rows) > Limit
        kept == First(Limit, rows)
    IN  [ids |-> kept, next |-> IF more THEN LastOf(kept) ELSE 0]

Fetched(cursor) == First(Limit + 1, Rows(cursor))

\* The history of what is due begins with the first page.
Open ==
    /\ reader.stage = "IDLE"
    /\ reader' = [Idle EXCEPT !.stage = "ASK", !.due = {i \in Ids : Visible(i)}]
    /\ UNCHANGED <<listing, page, made, standing>>

Fetch ==
    /\ reader.stage = "ASK"
    /\ standing
    /\ LET fetched == CursorPage(Fetched(reader.cursor))
       IN  reader' = [reader EXCEPT !.stage = "JOIN", !.ids = fetched.ids,
                                    !.next = fetched.next]
    /\ UNCHANGED <<listing, page, made, standing>>

\* The joined documents are read and the page is answered.
Answer ==
    /\ reader.stage = "JOIN"
    /\ LET kept == {i \in reader.ids : listing.joined => page[i].subject}
       IN  reader' = [reader EXCEPT
                        !.seen = @ \cup kept, !.ids = {}, !.next = 0,
                        !.cursor = reader.next,
                        !.stage = IF reader.next = 0 THEN "DONE" ELSE "ASK"]
    /\ UNCHANGED <<listing, page, made, standing>>

\* Refused, or the reader gives up or begins again.
Leave ==
    /\ reader.stage # "IDLE"
    /\ reader' = Idle
    /\ UNCHANGED <<listing, page, made, standing>>

RowStep(i) == Publish(i) \/ RemoveRow(i) \/ Move(i) \/ LoseSubject(i)

Next ==
    \/ \E t \in Targets : Claim(t)
    \/ \E i \in Ids : RowStep(i)
    \/ LoseStanding
    \/ Open \/ Fetch \/ Answer \/ Leave

Spec == Init /\ [][Next]_pageVars

-----------------------------------------------------------------------------
\* Properties

\* The rows and the reader have their shape.
TypeOK ==
    /\ listing \in Kinds
    /\ page \in [Ids -> [state : {"FREE", "CLAIMED", "THERE", "GONE"},
                         target : Targets \cup {0}, matches : BOOLEAN,
                         subject : BOOLEAN]]
    /\ made \in 0..MaxRows
    /\ standing \in BOOLEAN
    /\ reader \in [stage : {"IDLE", "ASK", "JOIN", "DONE"}, cursor : 0..MaxRows,
                   ids : SUBSET Ids, next : 0..MaxRows, seen : SUBSET Ids,
                   due : SUBSET Ids]

\* Whoever reads to the last page has seen each row that was there from the
\* first page on and has not changed, although rows come and go between two
\* pages and a page may be short; each page comes after all that was seen
\* before it, so nothing is seen twice or out of order; and no page lists a
\* favorite or a bookmark twice, although two requests that add it may both
\* have looked for it in vain.
PagesCoverWhatStays ==
    /\ reader.stage = "DONE" => reader.due \subseteq reader.seen
    /\ \A i \in reader.seen, j \in reader.ids : Before(i, j)
    /\ listing.query.unique =>
          \A i, j \in reader.ids : page[i].target = page[j].target => i = j
=============================================================================
