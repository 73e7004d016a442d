------------------------------ MODULE Destroyers ------------------------------
(***************************************************************************)
(* The registered destroyers: each erases the personal data of a member in *)
(* one category.                                                           *)
(*                                                                         *)
(* HARD_DELETE removes the rows.  ANONYMIZE keeps them and blanks the text *)
(* of the member, and is verified afterwards.  A heavy one gets a          *)
(* transaction of its own.  gated: only an active member can add to the    *)
(* category, so nothing is added behind the destroyer's back.              *)
(***************************************************************************)
EXTENDS Naturals

Destroyer(key, priority, disposition) ==
    [key |-> key, priority |-> priority, disposition |-> disposition,
     heavy |-> FALSE, gated |-> FALSE]

\* The rows of refresh tokens; a rotation adds one and does not look at the account.
CredentialsDestroyer == Destroyer("credentials", 10, "HARD_DELETE")

\* Counts each liked post down, then deletes the likes.
LikeDestroyer == [Destroyer("likes", 20, "HARD_DELETE") EXCEPT !.heavy = TRUE]

BookmarkDestroyer == Destroyer("bookmarks", 21, "HARD_DELETE")

FavoriteDestroyer == Destroyer("favorites", 22, "HARD_DELETE")

\* The answers of the member's applications.
AdoptionApplicationDestroyer ==
    [Destroyer("adoptions", 30, "ANONYMIZE") EXCEPT !.gated = TRUE]

FosterApplicationDestroyer ==
    [Destroyer("fosters", 31, "ANONYMIZE") EXCEPT !.gated = TRUE]

\* Bodies of messages, reviews, posts and comments; the rows stay for whoever
\* they concern.  A message or a review asks for no active account.
MessageDestroyer == [Destroyer("messages", 40, "ANONYMIZE") EXCEPT !.heavy = TRUE]

ReviewDestroyer == [Destroyer("reviews", 45, "ANONYMIZE") EXCEPT !.heavy = TRUE]

VolunteerPostDestroyer ==
    [Destroyer("posts", 50, "ANONYMIZE") EXCEPT !.heavy = TRUE, !.gated = TRUE]

VolunteerPostCommentDestroyer ==
    [Destroyer("comments", 55, "ANONYMIZE") EXCEPT !.heavy = TRUE, !.gated = TRUE]

\* The detail of the reports the member has filed.
ReportDestroyer == [Destroyer("reports", 60, "ANONYMIZE") EXCEPT !.gated = TRUE]

\* The user document becomes a tombstone.
IdentityDestroyer == Destroyer("identity", 100, "ANONYMIZE")

Destroyers ==
    {CredentialsDestroyer, LikeDestroyer, BookmarkDestroyer, FavoriteDestroyer,
     AdoptionApplicationDestroyer, FosterApplicationDestroyer, MessageDestroyer,
     ReviewDestroyer, VolunteerPostDestroyer, VolunteerPostCommentDestroyer,
     ReportDestroyer, IdentityDestroyer}

\* What the engine relies on: an order of the destroyers, the tombstone last
\* and in the same transaction as the light ones before it.
RegistryFits ==
    /\ \A s, t \in Destroyers : s.priority = t.priority => s = t
    /\ \A t \in Destroyers : t.priority <= IdentityDestroyer.priority
    /\ ~IdentityDestroyer.heavy

-----------------------------------------------------------------------------
\* A choice D of destroyers as the constants of Erasure.

KeysOf(D) == {t.key : t \in D}

HeavyOf(D) == KeysOf({t \in D : t.heavy})

GatedOf(D) == KeysOf({t \in D : t.gated})

AnonymizedOf(D) == KeysOf({t \in D : t.disposition = "ANONYMIZE"})

PriorityOf(D) ==
    [k \in KeysOf(D) |-> (CHOOSE t \in D : t.key = k).priority]
=============================================================================
