-------------------------------- MODULE PagesInv --------------------------------
(***************************************************************************)
(* The inductive invariant of Pages.  Whatever is due to the reader is     *)
(* seen, on the page, or behind the cursor; what is seen is not.           *)
(***************************************************************************)
EXTENDS Pages

\* The row i is behind the cursor.
Behind(cursor, i) == cursor = 0 \/ Before(cursor, i)

\* The row i is the cursor or comes before it.
UpTo(cursor, i) == cursor # 0 /\ (i = cursor \/ Before(i, cursor))

IdentitiesMade == \A i \in Ids : page[i].state = "FREE" <=> i > made

OneOfTarget ==
    listing.query.unique =>
        \A i, j \in Ids : There(i) /\ There(j) /\ page[i].target = page[j].target => i = j

\* A page is of rows that were made, none before the cursor, and the next
\* cursor is its last.
PageFits ==
    /\ \A i \in reader.ids : page[i].state # "FREE" /\ Behind(reader.cursor, i)
    /\ reader.next # 0 => /\ reader.next \in reader.ids
                          /\ \A i \in reader.ids : UpTo(reader.next, i)
    /\ reader.stage # "JOIN" => reader.ids = {} /\ reader.next = 0

SeenUpToCursor ==
    reader.stage \in {"ASK", "JOIN"} => \A i \in reader.seen : UpTo(reader.cursor, i)

DueIsAhead ==
    \A i \in reader.due :
        /\ Visible(i)
        /\ reader.stage = "ASK" => i \in reader.seen \/ Behind(reader.cursor, i)
        /\ reader.stage = "JOIN" =>
              \/ i \in reader.seen \cup reader.ids
              \/ reader.next # 0 /\ Before(reader.next, i)

IInv ==
    /\ TypeOK
    /\ IdentitiesMade
    /\ OneOfTarget
    /\ PageFits
    /\ SeenUpToCursor
    /\ DueIsAhead
    /\ PagesCoverWhatStays
=============================================================================
