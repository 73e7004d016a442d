------------------------------- MODULE PostsInv -------------------------------
(***************************************************************************)
(* The inductive invariant of Posts.  Rows and requests are of posts that  *)
(* were made, so a new post has none; and a comment that is gone before a  *)
(* deletion of it commits was being deleted twice.                         *)
(***************************************************************************)
EXTENDS Posts

\* Rows are of posts that were made; no post has endless comments.
RowsKnown ==
    /\ \A r \in likes : post[r[1]].status # "ABSENT"
    /\ \A c \in CommentIds : comment[c].status # "ABSENT" =>
          comment[c].post \in PostIds /\ post[comment[c].post].status # "ABSENT"
    /\ IsFiniteSet(likes)
    /\ \A p \in PostIds : IsFiniteSet(Comments(p))

\* So are the rows requests are about.
RequestKnown(t) ==
    t.op # "IDLE" =>
        /\ t.post \in PostIds /\ t.user \in Members
        /\ post[t.post].status # "ABSENT"
        /\ t.op = "DELETE_COMMENT" =>
              /\ t.comment \in CommentIds
              /\ comment[t.comment].status # "ABSENT"
              /\ comment[t.comment].post = t.post
              /\ comment[t.comment].status = "GONE" => t.post \in doubled

RequestsKnown == \A w \in Servers : RequestKnown(serve[w])

\* Of two requests that delete one comment the second has been noticed.
Twice ==
    \A w, x \in Servers :
        /\ w # x
        /\ serve[w].op = "DELETE_COMMENT" /\ serve[x].op = "DELETE_COMMENT"
        /\ serve[w].comment = serve[x].comment
        => serve[w].post \in doubled

IInv ==
    /\ TypeOK
    /\ RowsKnown
    /\ RequestsKnown
    /\ Twice
    /\ LikesCounted
    /\ CommentsCountedUnlessDoubled
=============================================================================
