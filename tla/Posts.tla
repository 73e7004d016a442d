--------------------------------- MODULE Posts ---------------------------------
(***************************************************************************)
(* Volunteer posts, their likes, comments and bookmarks, and the two       *)
(* counters a post keeps beside the rows it counts.                        *)
(*                                                                         *)
(* No document here has a version.  The counters are moved by $inc in the  *)
(* transaction that inserts or deletes the row, so a transaction's writes  *)
(* are one step (an overlapping one conflicts and is run again from its    *)
(* read); but what a use-case reads first, it reads outside, and $inc and  *)
(* deleteOne match nothing without an error when the row is gone.          *)
(***************************************************************************)
EXTENDS Integers, FiniteSets

CONSTANTS
    PostIds, CommentIds,
    Members,
    ActiveMembers,   \* those whose account is active
    Admins,          \* those who are platform administrators
    Servers,         \* requests being served at the same time
    None             \* no post, comment or member

VARIABLES
    post,            \* the volunteer_posts collection
    comment,         \* the volunteer_post_comments collection
    likes,           \* the pairs <<post, member>> of volunteer_post_likes
    bookmarks,       \* the pairs of volunteer_post_bookmarks
    serve,           \* serve[w]: the request w serves and what it has read
    doubled          \* history: posts of comments deleted by two requests at once

postVars == <<post, comment, likes, bookmarks, serve, doubled>>

NoPost == [status |-> "ABSENT", author |-> None, likeCount |-> 0, commentCount |-> 0]

NoComment == [status |-> "ABSENT", post |-> None, author |-> None]

Idle == [op |-> "IDLE", post |-> None, comment |-> None, user |-> None]

Init ==
    /\ post = [p \in PostIds |-> NoPost]
    /\ comment = [c \in CommentIds |-> NoComment]
    /\ likes = {}
    /\ bookmarks = {}
    /\ serve = [w \in Servers |-> Idle]
    /\ doubled = {}

-----------------------------------------------------------------------------
\* Counters.  $inc on a post that was deleted matches nothing.

AdjustLikeCount(ps, delta) ==
    post' = [p \in PostIds |->
               IF p \in ps /\ post[p].status = "LIVE"
                 THEN [post[p] EXCEPT !.likeCount = @ + delta] ELSE post[p]]

AdjustCommentCount(p, delta) ==
    post' = IF post[p].status = "LIVE"
              THEN [post EXCEPT ![p].commentCount = @ + delta] ELSE post

Done(w) == serve' = [serve EXCEPT ![w] = Idle]

-----------------------------------------------------------------------------
\* Posts

CreatePost(p, u) ==
    /\ u \in ActiveMembers
    /\ post[p].status = "ABSENT"
    /\ post' = [post EXCEPT ![p] = [NoPost EXCEPT !.status = "LIVE", !.author = u]]
    /\ UNCHANGED <<comment, likes, bookmarks, serve, doubled>>

MayRemove(u, author) == u = author \/ u \in Admins

\* Reads the post: it must exist, and an author's or an active member's own
\* condition hold.
BeginOnPost(w, op, p, u) ==
    /\ serve[w] = Idle
    /\ post[p].status = "LIVE"
    /\ op = "DELETE_POST" => MayRemove(u, post[p].author)
    /\ op = "COMMENT" => u \in ActiveMembers
    /\ serve' = [serve EXCEPT ![w] = [op |-> op, post |-> p, comment |-> None, user |-> u]]
    /\ UNCHANGED <<post, comment, likes, bookmarks, doubled>>

\* Likes, comments and bookmarks of the post stay.
CommitDeletePost(w) ==
    /\ serve[w].op = "DELETE_POST"
    /\ post' = [post EXCEPT ![serve[w].post].status = "DELETED"]
    /\ Done(w)
    /\ UNCHANGED <<comment, likes, bookmarks, doubled>>

-----------------------------------------------------------------------------
\* Likes and bookmarks: one row per post and member (unique index, upsert).

CommitLikeAlways(w) ==
    LET t == serve[w] IN
    /\ t.op = "LIKE"
    /\ likes' = likes \cup {<<t.post, t.user>>}
    /\ AdjustLikeCount({t.post}, 1)
    /\ Done(w)
    /\ UNCHANGED <<comment, bookmarks, doubled>>

CommitLike(w) ==
    LET t == serve[w]
        row == <<t.post, t.user>>
    IN
    /\ t.op = "LIKE"
    /\ likes' = likes \cup {row}
    /\ AdjustLikeCount(IF row \in likes THEN {} ELSE {t.post}, 1)
    /\ Done(w)
    /\ UNCHANGED <<comment, bookmarks, doubled>>

\* Reads nothing, not even whether the post exists.
Unlike(p, u) ==
    /\ <<p, u>> \in likes
    /\ likes' = likes \ {<<p, u>>}
    /\ AdjustLikeCount({p}, -1)
    /\ UNCHANGED <<comment, bookmarks, serve, doubled>>

CommitBookmark(w) ==
    /\ serve[w].op = "BOOKMARK"
    /\ bookmarks' = bookmarks \cup {<<serve[w].post, serve[w].user>>}
    /\ Done(w)
    /\ UNCHANGED <<post, comment, likes, doubled>>

Unbookmark(p, u) ==
    /\ <<p, u>> \in bookmarks
    /\ bookmarks' = bookmarks \ {<<p, u>>}
    /\ UNCHANGED <<post, comment, likes, serve, doubled>>

\* The destroyers of a withdrawn member's likes and bookmarks.
EraseLikes(u) ==
    LET rows == {r \in likes : r[2] = u} IN
    /\ u \notin ActiveMembers
    /\ rows # {}
    /\ likes' = likes \ rows
    /\ AdjustLikeCount({r[1] : r \in rows}, -1)
    /\ UNCHANGED <<comment, bookmarks, serve, doubled>>

EraseBookmarks(u) ==
    LET rows == {r \in bookmarks : r[2] = u} IN
    /\ u \notin ActiveMembers
    /\ rows # {}
    /\ bookmarks' = bookmarks \ rows
    /\ UNCHANGED <<post, comment, likes, serve, doubled>>

-----------------------------------------------------------------------------
\* Comments

CommitComment(w, c) ==
    LET t == serve[w] IN
    /\ t.op = "COMMENT"
    /\ comment[c].status = "ABSENT"
    /\ comment' = [comment EXCEPT ![c] = [status |-> "LIVE", post |-> t.post,
                                          author |-> t.user]]
    /\ AdjustCommentCount(t.post, 1)
    /\ Done(w)
    /\ UNCHANGED <<likes, bookmarks, doubled>>

\* The comment is read, and the requester is its author or an operator.
BeginDeleteComment(w, c, u) ==
    /\ serve[w] = Idle
    /\ comment[c].status = "LIVE"
    /\ MayRemove(u, comment[c].author)
    /\ serve' = [serve EXCEPT ![w] = [op |-> "DELETE_COMMENT", post |-> comment[c].post,
                                      comment |-> c, user |-> u]]
    /\ doubled' = IF \E x \in Servers : serve[x].comment = c
                    THEN doubled \cup {comment[c].post} ELSE doubled
    /\ UNCHANGED <<post, comment, likes, bookmarks>>

CommitDeleteCommentUncounted(w) ==
    LET t == serve[w] IN
    /\ t.op = "DELETE_COMMENT"
    /\ comment' = [comment EXCEPT ![t.comment].status = "GONE"]
    /\ Done(w)
    /\ UNCHANGED <<post, likes, bookmarks, doubled>>

\* Whether deleteOne deleted anything is not looked at.
CommitDeleteComment(w) ==
    LET t == serve[w] IN
    /\ t.op = "DELETE_COMMENT"
    /\ comment' = [comment EXCEPT ![t.comment].status = "GONE"]
    /\ AdjustCommentCount(t.post, -1)
    /\ Done(w)
    /\ UNCHANGED <<likes, bookmarks, doubled>>

\* A write conflict, an error or a crash: nothing is written.
Abort(w) ==
    /\ serve[w] # Idle
    /\ Done(w)
    /\ UNCHANGED <<post, comment, likes, bookmarks, doubled>>

-----------------------------------------------------------------------------
MemberStep(u) ==
    \/ \E p \in PostIds : CreatePost(p, u) \/ Unlike(p, u) \/ Unbookmark(p, u)
    \/ EraseLikes(u)
    \/ EraseBookmarks(u)

BeginStep(w, u) ==
    \/ \E p \in PostIds, op \in {"LIKE", "BOOKMARK", "COMMENT", "DELETE_POST"} :
          BeginOnPost(w, op, p, u)
    \/ \E c \in CommentIds : BeginDeleteComment(w, c, u)

CommitStep(w) ==
    \/ CommitDeletePost(w)
    \/ CommitLike(w)
    \/ CommitBookmark(w)
    \/ \E c \in CommentIds : CommitComment(w, c)
    \/ CommitDeleteComment(w)

Next ==
    \/ \E u \in Members : MemberStep(u)
    \/ \E w \in Servers, u \in Members : BeginStep(w, u)
    \/ \E w \in Servers : CommitStep(w) \/ Abort(w)

Spec == Init /\ [][Next]_postVars

-----------------------------------------------------------------------------
\* Properties

PostDoc == [status : {"ABSENT", "LIVE", "DELETED"}, author : Members \cup {None},
            likeCount : Nat, commentCount : Int]

CommentDoc == [status : {"ABSENT", "LIVE", "GONE"}, post : PostIds \cup {None},
               author : Members \cup {None}]

\* Documents and requests have their shape, and no post has fewer than no likes.
TypeOK ==
    /\ post \in [PostIds -> PostDoc]
    /\ comment \in [CommentIds -> CommentDoc]
    /\ likes \subseteq PostIds \X Members
    /\ bookmarks \subseteq PostIds \X Members
    /\ serve \in [Servers ->
         [op : {"IDLE", "LIKE", "BOOKMARK", "COMMENT", "DELETE_POST", "DELETE_COMMENT"},
          post : PostIds \cup {None}, comment : CommentIds \cup {None},
          user : Members \cup {None}]]
    /\ doubled \subseteq PostIds

\* A post's count of likes is the number of its like rows, whatever likes,
\* unlikes and erasures of the same member overlap.
LikesCounted ==
    \A p \in PostIds : post[p].status = "LIVE" =>
        post[p].likeCount = Cardinality({r \in likes : r[1] = p})

Comments(p) == {c \in CommentIds : comment[c].status = "LIVE" /\ comment[c].post = p}

\* What the service's comment claims, and the code does not keep: the count
\* stays "in step with the comment write".
CommentsCounted ==
    \A p \in PostIds : post[p].status = "LIVE" =>
        post[p].commentCount = Cardinality(Comments(p))

\* What it does keep: the count is right unless one comment of the post was
\* being deleted by two requests at once, and then it is too low, never too
\* high.
CommentsCountedUnlessDoubled ==
    \A p \in PostIds : post[p].status = "LIVE" =>
        /\ post[p].commentCount <= Cardinality(Comments(p))
        /\ p \notin doubled => post[p].commentCount = Cardinality(Comments(p))
=============================================================================
