---------------------------- MODULE CountsProofs ----------------------------
(***************************************************************************)
(* What is counted and listed is what is there, for any number of rows,    *)
(* members and concurrent requests.                                        *)
(*                                                                         *)
(* Posts: a like or a comment is of a post that was made, so a new post    *)
(* has none; each write of a row moves the counter by what it moves the    *)
(* rows, but for the deletion of a comment that is gone already, which     *)
(* only a second request that began before the first committed can do.     *)
(*                                                                         *)
(* Pages: whatever is due to the reader is seen, on its page or behind its *)
(* cursor.  A page is the first rows behind the cursor, so what it leaves  *)
(* out is behind its last row.                                             *)
(*                                                                         *)
(* Records: until an adopter is erased the last write of a standing        *)
(* adoption is its decision, and the instants of a bucket are those of its *)
(* month.                                                                  *)
(***************************************************************************)
EXTENDS MCCommunity, FiniteSetTheorems, WellFoundedInduction, TLAPS

-----------------------------------------------------------------------------
\* Posts

\* The operators of sets are those of the library in the instance too.
LEMMA PostsSets ==
    \A S : P!Cardinality(S) = Cardinality(S) /\ P!IsFiniteSet(S) = IsFiniteSet(S)
<1> QED BY DEF P!Cardinality, Cardinality, P!IsFiniteSet, IsFiniteSet

\* As PostDoc, before the likes are known to be counted.
CountedPost == [status : {"ABSENT", "LIVE", "DELETED"}, author : Members \cup {None},
                likeCount : Int, commentCount : Int]

PostRequest ==
    [op : {"IDLE", "LIKE", "BOOKMARK", "COMMENT", "DELETE_POST", "DELETE_COMMENT"},
     post : PostIds \cup {None}, comment : CommentIds \cup {None}, user : Members \cup {None}]

PostShapes ==
    /\ post \in [PostIds -> CountedPost]
    /\ comment \in [CommentIds -> P!CommentDoc]
    /\ likes \subseteq PostIds \X Members
    /\ IsFiniteSet(likes)
    /\ serve \in [Servers -> PostRequest]
    /\ \A p \in PostIds : IsFiniteSet(P!Comments(p))

\* What the counters rest on.
PostsCore ==
    /\ PostShapes
    /\ P!RowsKnown
    /\ P!RequestsKnown
    /\ P!Twice
    /\ P!LikesCounted
    /\ P!CommentsCountedUnlessDoubled

LikesOf(p) == {r \in likes : r[1] = p}

-----------------------------------------------------------------------------
LEMMA InitPosts == ASSUME P!Init PROVE PostsCore
<1>1. PostShapes
  <2>1. \A p \in PostIds : P!Comments(p) = {}
    BY DEF P!Init, P!Comments, P!NoComment
  <2>2. IsFiniteSet({})
    BY FS_EmptySet
  <2>3. \A p \in PostIds : IsFiniteSet(P!Comments(p))
    BY <2>1, <2>2
  <2> QED BY <2>2, <2>3
      DEF P!Init, PostShapes, CountedPost, P!NoPost, P!CommentDoc, P!NoComment, PostRequest, P!Idle
<1>2. P!RowsKnown /\ P!RequestsKnown /\ P!Twice
  BY PostsSets, <1>1 DEF P!Init, PostShapes, P!RowsKnown, P!RequestsKnown, P!RequestKnown,
       P!Twice, P!NoComment, P!Idle
<1>3. P!LikesCounted /\ P!CommentsCountedUnlessDoubled
  BY DEF P!Init, P!LikesCounted, P!CommentsCountedUnlessDoubled, P!NoPost
<1> QED BY <1>1, <1>2, <1>3 DEF PostsCore

-----------------------------------------------------------------------------
\* What a step leaves alone

LEMMA LikesKept ==
    ASSUME PostsCore, UNCHANGED likes,
           \A p \in PostIds : post'[p].status = "LIVE" =>
               \/ post[p].status = "LIVE" /\ post'[p].likeCount = post[p].likeCount
               \/ post[p].status = "ABSENT" /\ post'[p].likeCount = 0
    PROVE  P!LikesCounted'
<1> SUFFICES ASSUME NEW p \in PostIds, post'[p].status = "LIVE"
             PROVE  post'[p].likeCount = Cardinality({r \in likes : r[1] = p})
  BY PostsSets DEF P!LikesCounted
<1>1. CASE post[p].status = "LIVE" /\ post'[p].likeCount = post[p].likeCount
  BY PostsSets, <1>1 DEF PostsCore, P!LikesCounted
<1>2. CASE post[p].status = "ABSENT" /\ post'[p].likeCount = 0
  <2>1. {r \in likes : r[1] = p} = {}
    BY <1>2 DEF PostsCore, P!RowsKnown
  <2> QED BY <1>2, <2>1, FS_EmptySet
<1> QED BY <1>1, <1>2

LEMMA CommentsKept ==
    ASSUME PostsCore, UNCHANGED comment, doubled \subseteq doubled',
           \A p \in PostIds : post'[p].status = "LIVE" =>
               \/ post[p].status = "LIVE" /\ post'[p].commentCount = post[p].commentCount
               \/ post[p].status = "ABSENT" /\ post'[p].commentCount = 0
    PROVE  /\ P!CommentsCountedUnlessDoubled'
           /\ \A p \in PostIds : IsFiniteSet(P!Comments(p))'
<1>1. \A p : P!Comments(p)' = P!Comments(p)
  BY DEF P!Comments
<1>2. \A p \in PostIds : IsFiniteSet(P!Comments(p))'
  BY <1>1 DEF PostsCore, PostShapes
<1>3. ASSUME NEW p \in PostIds, post'[p].status = "LIVE"
      PROVE  /\ post'[p].commentCount <= Cardinality(P!Comments(p))
             /\ p \notin doubled' => post'[p].commentCount = Cardinality(P!Comments(p))
  <2>1. CASE post[p].status = "LIVE" /\ post'[p].commentCount = post[p].commentCount
    BY PostsSets, <2>1 DEF PostsCore, P!CommentsCountedUnlessDoubled
  <2>2. CASE post[p].status = "ABSENT" /\ post'[p].commentCount = 0
    <3>1. P!Comments(p) = {}
      BY <2>2 DEF PostsCore, P!RowsKnown, P!Comments
    <3> QED BY <2>2, <3>1, FS_EmptySet
  <2> QED BY <1>3, <2>1, <2>2
<1>4. \A p \in PostIds : Cardinality(P!Comments(p)') = Cardinality(P!Comments(p))
  BY <1>1, Zenon
<1> QED BY PostsSets, <1>2, <1>3, <1>4 DEF P!CommentsCountedUnlessDoubled

LEMMA RequestsKept ==
    ASSUME PostsCore, doubled \subseteq doubled',
           \A w \in Servers : serve'[w] = serve[w] \/ serve'[w] = P!Idle,
           \A p \in PostIds : post[p].status # "ABSENT" => post'[p].status # "ABSENT",
           \A c \in CommentIds : comment[c].status # "ABSENT" => comment'[c] = comment[c]
    PROVE  P!RequestsKnown' /\ P!Twice'
<1>1. ASSUME NEW w \in Servers PROVE P!RequestKnown(serve[w])'
  <2>1. P!RequestKnown(serve[w])
    BY DEF PostsCore, P!RequestsKnown
  <2> QED BY <2>1 DEF P!RequestKnown, P!Idle
<1>2. P!Twice'
  BY DEF PostsCore, P!Twice, P!Idle
<1> QED BY <1>1, <1>2 DEF P!RequestsKnown

LEMMA PostsIdle == P!Idle \in PostRequest
  BY DEF P!Idle, PostRequest

LEMMA PostsDone ==
    ASSUME PostsCore, NEW w \in Servers, P!Done(w)
    PROVE  /\ serve' \in [Servers -> PostRequest]
           /\ \A x \in Servers : serve'[x] = serve[x] \/ serve'[x] = P!Idle
  BY PostsIdle DEF P!Done, PostsCore, PostShapes

\* Posts and rows as they were.
LEMMA PostsUntouched ==
    ASSUME PostsCore, UNCHANGED <<post, comment, likes>>, doubled \subseteq doubled',
           serve' \in [Servers -> PostRequest], P!RequestsKnown', P!Twice'
    PROVE  PostsCore'
<1>1. P!LikesCounted'
  BY DEF PostsCore, P!LikesCounted
<1>2. P!CommentsCountedUnlessDoubled' /\ \A p \in PostIds : IsFiniteSet(P!Comments(p))'
  BY CommentsKept
<1>3. PostShapes' /\ P!RowsKnown'
  BY PostsSets, <1>2 DEF PostsCore, PostShapes, P!RowsKnown
<1> QED BY <1>1, <1>2, <1>3 DEF PostsCore

-----------------------------------------------------------------------------
\* Steps that write no post, like or comment

LEMMA BeginPostKeeps ==
    ASSUME PostsCore, NEW w \in Servers, NEW u \in Members, NEW p \in PostIds,
           NEW op \in {"LIKE", "BOOKMARK", "COMMENT", "DELETE_POST"}, P!BeginOnPost(w, op, p, u)
    PROVE  PostsCore'
<1>1. PICK t : t = [op |-> op, post |-> p, comment |-> None, user |-> u]
  OBVIOUS
<1>2. t \in PostRequest /\ t.op = op /\ t.post = p /\ t.user = u
  BY <1>1 DEF PostRequest
<1>3. serve' = [serve EXCEPT ![w] = t] /\ UNCHANGED <<post, comment, likes, doubled>>
  BY <1>1 DEF P!BeginOnPost
<1>4. serve' \in [Servers -> PostRequest]
        /\ \A x \in Servers : serve'[x] = IF x = w THEN t ELSE serve[x]
  BY <1>2, <1>3 DEF PostsCore, PostShapes
<1>5. P!RequestsKnown'
  <2> SUFFICES ASSUME NEW x \in Servers PROVE P!RequestKnown(serve[x])'
    BY DEF P!RequestsKnown
  <2>1. CASE x = w
    BY <1>2, <1>3, <1>4, <2>1 DEF P!RequestKnown, P!BeginOnPost
  <2>2. CASE x # w
    BY <1>3, <1>4, <2>2 DEF PostsCore, P!RequestsKnown, P!RequestKnown
  <2> QED BY <2>1, <2>2
<1>6. P!Twice'
  BY <1>2, <1>3, <1>4 DEF PostsCore, P!Twice
<1> QED BY <1>3, <1>4, <1>5, <1>6, PostsUntouched

LEMMA BeginDeleteKeeps ==
    ASSUME PostsCore, NEW w \in Servers, NEW u \in Members, NEW c \in CommentIds,
           P!BeginDeleteComment(w, c, u)
    PROVE  PostsCore'
<1>1. PICK t : t = [op |-> "DELETE_COMMENT", post |-> comment[c].post, comment |-> c,
                    user |-> u]
  OBVIOUS
<1>2. /\ comment[c].status = "LIVE"
      /\ comment[c].post \in PostIds /\ post[comment[c].post].status # "ABSENT"
  BY DEF P!BeginDeleteComment, PostsCore, P!RowsKnown
<1>3. t \in PostRequest /\ t.op = "DELETE_COMMENT" /\ t.comment = c /\ t.user = u
        /\ t.post = comment[c].post
  BY <1>1, <1>2 DEF PostRequest
<1>4. serve' = [serve EXCEPT ![w] = t] /\ UNCHANGED <<post, comment, likes>>
  BY <1>1 DEF P!BeginDeleteComment
<1>5. serve' \in [Servers -> PostRequest]
        /\ \A x \in Servers : serve'[x] = IF x = w THEN t ELSE serve[x]
  BY <1>3, <1>4 DEF PostsCore, PostShapes
<1>6. /\ doubled \subseteq doubled'
      /\ (\E x \in Servers : serve[x].comment = c) => comment[c].post \in doubled'
  BY DEF P!BeginDeleteComment
<1>7. P!RequestsKnown'
  <2> SUFFICES ASSUME NEW x \in Servers PROVE P!RequestKnown(serve[x])'
    BY DEF P!RequestsKnown
  <2>1. CASE x = w
    BY <1>2, <1>3, <1>4, <1>5, <2>1 DEF P!RequestKnown
  <2>2. CASE x # w
    BY <1>4, <1>5, <1>6, <2>2 DEF PostsCore, P!RequestsKnown, P!RequestKnown
  <2> QED BY <2>1, <2>2
<1>8. P!Twice'
  <2> SUFFICES ASSUME NEW x \in Servers, NEW y \in Servers, x # y,
                      serve'[x].op = "DELETE_COMMENT", serve'[y].op = "DELETE_COMMENT",
                      serve'[x].comment = serve'[y].comment
               PROVE  serve'[x].post \in doubled'
    BY DEF P!Twice
  <2>1. CASE x # w /\ y # w
    BY <1>5, <1>6, <2>1 DEF PostsCore, P!Twice
  <2>2. CASE x = w
    BY <1>3, <1>5, <1>6, <2>2
  <2>3. CASE y = w
    <3>1. serve[x].comment = c /\ serve[x].op = "DELETE_COMMENT" /\ serve'[x] = serve[x]
      BY <1>3, <1>5, <2>3
    <3>2. comment[c].post = serve[x].post
      BY <3>1 DEF PostsCore, P!RequestsKnown, P!RequestKnown
    <3> QED BY <1>6, <3>1, <3>2
  <2> QED BY <2>1, <2>2, <2>3
<1> QED BY <1>4, <1>5, <1>6, <1>7, <1>8, PostsUntouched

\* Bookmarks, and requests that end without a write.
LEMMA PostsQuiet ==
    ASSUME PostsCore, UNCHANGED <<post, comment, likes, doubled>>,
           serve' = serve \/ \E w \in Servers : P!Done(w)
    PROVE  PostsCore'
<1>1. serve' \in [Servers -> PostRequest]
        /\ \A x \in Servers : serve'[x] = serve[x] \/ serve'[x] = P!Idle
  BY PostsDone DEF PostsCore, PostShapes
<1>2. P!RequestsKnown' /\ P!Twice'
  BY <1>1, RequestsKept
<1> QED BY <1>1, <1>2, PostsUntouched

-----------------------------------------------------------------------------
\* Steps that write posts or likes

\* Comments as they were.
LEMMA LikesWritten ==
    ASSUME PostsCore, UNCHANGED <<comment, doubled>>,
           post' \in [PostIds -> CountedPost],
           serve' \in [Servers -> PostRequest],
           \A x \in Servers : serve'[x] = serve[x] \/ serve'[x] = P!Idle,
           likes' \subseteq PostIds \X Members, IsFiniteSet(likes)',
           \A r \in likes' : post[r[1]].status # "ABSENT" \/ r \in likes,
           P!LikesCounted',
           \A p \in PostIds :
               \/ /\ post[p].status = "ABSENT"
                  /\ post'[p].status = "LIVE" => post'[p].commentCount = 0
               \/ /\ post[p].status # "ABSENT" /\ post'[p].status # "ABSENT"
                  /\ post'[p].status = "LIVE" =>
                        post[p].status = "LIVE" /\ post'[p].commentCount = post[p].commentCount
    PROVE  PostsCore'
<1>1. P!CommentsCountedUnlessDoubled' /\ \A p \in PostIds : IsFiniteSet(P!Comments(p))'
  BY CommentsKept
<1>2. PostShapes'
  BY <1>1 DEF PostsCore, PostShapes
<1>3. P!RowsKnown'
  BY PostsSets, <1>1 DEF PostsCore, PostShapes, P!RowsKnown
<1>4. P!RequestsKnown' /\ P!Twice'
  BY RequestsKept
<1> QED BY <1>1, <1>2, <1>3, <1>4 DEF PostsCore

LEMMA CreatePostKeeps ==
    ASSUME PostsCore, NEW p \in PostIds, NEW u \in Members, P!CreatePost(p, u)
    PROVE  PostsCore'
<1>1. PICK d : d = [P!NoPost EXCEPT !.status = "LIVE", !.author = u]
  OBVIOUS
<1>2. d \in CountedPost /\ d.status = "LIVE" /\ d.likeCount = 0 /\ d.commentCount = 0
  <2>1. d = [status |-> "LIVE", author |-> u, likeCount |-> 0, commentCount |-> 0]
    BY <1>1 DEF P!NoPost
  <2> QED BY <2>1 DEF CountedPost
<1>3. /\ post[p].status = "ABSENT"
      /\ post' = [post EXCEPT ![p] = d]
      /\ UNCHANGED <<comment, likes, serve, doubled>>
  BY <1>1, Zenon DEF P!CreatePost
<1>4. post' \in [PostIds -> CountedPost]
        /\ \A x \in PostIds : post'[x] = IF x = p THEN d ELSE post[x]
  BY <1>2, <1>3 DEF PostsCore, PostShapes
<1>5. P!LikesCounted'
  BY <1>2, <1>3, <1>4, LikesKept
<1> QED BY <1>2, <1>3, <1>4, <1>5, LikesWritten DEF PostsCore, PostShapes

LEMMA DeletePostKeeps ==
    ASSUME PostsCore, NEW w \in Servers, P!CommitDeletePost(w)
    PROVE  PostsCore'
<1>1. PICK p : p = serve[w].post
  OBVIOUS
<1>2. p \in PostIds /\ post[p].status # "ABSENT"
  BY <1>1 DEF P!CommitDeletePost, PostsCore, P!RequestsKnown, P!RequestKnown
<1>3. PICK d : d = [post[p] EXCEPT !.status = "DELETED"]
  OBVIOUS
<1>4. post[p] \in CountedPost
  BY <1>2 DEF PostsCore, PostShapes
<1>5. d \in CountedPost /\ d.status = "DELETED"
  BY <1>3, <1>4 DEF CountedPost
<1>6. post' = [post EXCEPT ![p] = d] /\ P!Done(w) /\ UNCHANGED <<comment, likes, doubled>>
  BY <1>1, <1>3 DEF P!CommitDeletePost
<1>7. post' \in [PostIds -> CountedPost]
        /\ \A x \in PostIds : post'[x] = IF x = p THEN d ELSE post[x]
  BY <1>5, <1>6 DEF PostsCore, PostShapes
<1>8. P!LikesCounted'
  BY <1>5, <1>6, <1>7, LikesKept
<1> QED BY <1>2, <1>5, <1>6, <1>7, <1>8, PostsDone, LikesWritten DEF PostsCore, PostShapes

LEMMA LikesAdjusted ==
    ASSUME PostsCore, NEW ps, NEW delta \in Int, P!AdjustLikeCount(ps, delta)
    PROVE  /\ post' \in [PostIds -> CountedPost]
           /\ \A p \in PostIds :
                 /\ post'[p].status = post[p].status
                 /\ post'[p].commentCount = post[p].commentCount
                 /\ post[p].status = "LIVE" =>
                      post'[p].likeCount = IF p \in ps THEN post[p].likeCount + delta
                                           ELSE post[p].likeCount
<1>1. \A p \in PostIds : post[p] \in CountedPost
  BY DEF PostsCore, PostShapes
<1>2. ASSUME NEW d \in CountedPost
      PROVE  /\ [d EXCEPT !.likeCount = @ + delta] \in CountedPost
             /\ [d EXCEPT !.likeCount = @ + delta].status = d.status
             /\ [d EXCEPT !.likeCount = @ + delta].commentCount = d.commentCount
             /\ [d EXCEPT !.likeCount = @ + delta].likeCount = d.likeCount + delta
  BY <1>2 DEF CountedPost
<1>3. \A p \in PostIds :
        post'[p] = IF p \in ps /\ post[p].status = "LIVE"
                     THEN [post[p] EXCEPT !.likeCount = @ + delta] ELSE post[p]
  BY DEF P!AdjustLikeCount
<1>4. DOMAIN post' = PostIds /\ post' = [p \in PostIds |-> post'[p]]
  BY DEF P!AdjustLikeCount
<1>5. \A p \in PostIds : post'[p] \in CountedPost
  BY <1>1, <1>2, <1>3
<1>6. post' \in [PostIds -> CountedPost]
  BY <1>4, <1>5
<1>7. \A p \in PostIds :
         /\ post'[p].status = post[p].status
         /\ post'[p].commentCount = post[p].commentCount
         /\ post[p].status = "LIVE" =>
              post'[p].likeCount = IF p \in ps THEN post[p].likeCount + delta
                                   ELSE post[p].likeCount
  BY <1>1, <1>2, <1>3
<1> QED BY <1>6, <1>7

LEMMA LikeKeeps ==
    ASSUME PostsCore, NEW w \in Servers, P!CommitLike(w)
    PROVE  PostsCore'
<1>1. PICK p, u, row, ps : /\ p = serve[w].post /\ u = serve[w].user /\ row = <<p, u>>
                           /\ ps = (IF row \in likes THEN {} ELSE {p})
  OBVIOUS
<1>2. p \in PostIds /\ u \in Members /\ post[p].status # "ABSENT"
  BY <1>1 DEF P!CommitLike, PostsCore, P!RequestsKnown, P!RequestKnown
<1>3. /\ likes' = likes \cup {row}
      /\ P!AdjustLikeCount(ps, 1)
      /\ P!Done(w)
      /\ UNCHANGED <<comment, doubled>>
  BY <1>1, Zenon DEF P!CommitLike
<1>4. /\ post' \in [PostIds -> CountedPost]
      /\ \A q \in PostIds :
            /\ post'[q].status = post[q].status
            /\ post'[q].commentCount = post[q].commentCount
            /\ post[q].status = "LIVE" =>
                 post'[q].likeCount = IF q \in ps THEN post[q].likeCount + 1
                                      ELSE post[q].likeCount
  BY <1>3, LikesAdjusted
<1>5. likes' \subseteq PostIds \X Members /\ IsFiniteSet(likes)'
  BY <1>1, <1>2, <1>3, FS_AddElement DEF PostsCore, PostShapes
<1>6. P!LikesCounted'
  <2> SUFFICES ASSUME NEW q \in PostIds, post'[q].status = "LIVE"
               PROVE  post'[q].likeCount = Cardinality({r \in likes' : r[1] = q})
    BY PostsSets DEF P!LikesCounted
  <2>1. /\ post[q].status = "LIVE"
        /\ post[q].likeCount = Cardinality(LikesOf(q))
    BY PostsSets, <1>4 DEF PostsCore, P!LikesCounted, LikesOf
  <2>2. IsFiniteSet(LikesOf(q))
    <3>1. LikesOf(q) \in SUBSET likes
      BY DEF LikesOf
    <3> QED BY <3>1, FS_Subset DEF PostsCore, PostShapes
  <2>3. CASE q \in ps
    <3>1. q = p /\ row \notin likes
      BY <1>1, <2>3
    <3>2. {r \in likes' : r[1] = q} = LikesOf(q) \cup {row}
      BY <1>1, <1>3, <3>1 DEF LikesOf
    <3>3. row \notin LikesOf(q)
      BY <3>1 DEF LikesOf
    <3>4. Cardinality(LikesOf(q) \cup {row}) = Cardinality(LikesOf(q)) + 1
      BY <2>2, <3>3, FS_AddElement
    <3> QED BY <1>4, <2>1, <2>3, <3>2, <3>4
  <2>4. CASE q \notin ps
    <3>1. {r \in likes' : r[1] = q} = LikesOf(q)
      BY <1>1, <1>3, <2>4 DEF LikesOf
    <3> QED BY <1>4, <2>1, <2>4, <3>1
  <2> QED BY <2>3, <2>4
<1> QED BY <1>1, <1>2, <1>3, <1>4, <1>5, <1>6, PostsDone, LikesWritten

\* Of each post at most one row goes, and its counter with it.
LEMMA LikesRemoved ==
    ASSUME PostsCore, UNCHANGED <<comment, serve, doubled>>,
           NEW u \in Members, NEW rows \in SUBSET likes, \A r \in rows : r[2] = u,
           likes' = likes \ rows, P!AdjustLikeCount({r[1] : r \in rows}, -1)
    PROVE  PostsCore'
<1>1. PICK ps : ps = {r[1] : r \in rows}
  OBVIOUS
<1>2. /\ post' \in [PostIds -> CountedPost]
      /\ \A q \in PostIds :
            /\ post'[q].status = post[q].status
            /\ post'[q].commentCount = post[q].commentCount
            /\ post[q].status = "LIVE" =>
                 post'[q].likeCount = IF q \in ps THEN post[q].likeCount + (-1)
                                      ELSE post[q].likeCount
  BY <1>1, LikesAdjusted
<1>3. likes' \subseteq PostIds \X Members /\ IsFiniteSet(likes)'
  BY FS_Subset DEF PostsCore, PostShapes
<1>4. P!LikesCounted'
  <2> SUFFICES ASSUME NEW q \in PostIds, post'[q].status = "LIVE"
               PROVE  post'[q].likeCount = Cardinality({r \in likes' : r[1] = q})
    BY PostsSets DEF P!LikesCounted
  <2>1. /\ post[q].status = "LIVE"
        /\ post[q].likeCount = Cardinality(LikesOf(q))
    BY PostsSets, <1>2 DEF PostsCore, P!LikesCounted, LikesOf
  <2>2. IsFiniteSet(LikesOf(q)) /\ Cardinality(LikesOf(q)) \in Nat
    <3>1. LikesOf(q) \in SUBSET likes
      BY DEF LikesOf
    <3>2. IsFiniteSet(LikesOf(q))
      BY <3>1, FS_Subset DEF PostsCore, PostShapes
    <3> QED BY <3>2, FS_CardinalityType
  <2>3. CASE q \in ps
    <3>1. PICK row \in rows : row[1] = q
      BY <1>1, <2>3
    <3>2. row \in LikesOf(q)
      BY <3>1 DEF LikesOf
    <3>3. \A r \in rows : r[1] = q => r = row
      BY <3>1 DEF PostsCore, PostShapes
    <3>4. {r \in likes' : r[1] = q} = LikesOf(q) \ {row}
      BY <3>1, <3>3 DEF LikesOf
    <3>5. Cardinality(LikesOf(q) \ {row}) = Cardinality(LikesOf(q)) - 1
      BY <2>2, <3>2, FS_RemoveElement
    <3> QED BY <1>2, <2>1, <2>2, <2>3, <3>4, <3>5
  <2>4. CASE q \notin ps
    <3>1. {r \in likes' : r[1] = q} = LikesOf(q)
      BY <1>1, <2>4 DEF LikesOf
    <3> QED BY <1>2, <2>1, <2>4, <3>1
  <2> QED BY <2>3, <2>4
<1> QED BY <1>2, <1>3, <1>4, LikesWritten DEF PostsCore, PostShapes

LEMMA UnlikeKeeps ==
    ASSUME PostsCore, NEW p \in PostIds, NEW u \in Members, P!Unlike(p, u)
    PROVE  PostsCore'
<1>1. PICK rows : rows = {<<p, u>>}
  OBVIOUS
<1>2. rows \in SUBSET likes /\ \A r \in rows : r[2] = u
  BY <1>1 DEF P!Unlike
<1>3. {r[1] : r \in rows} = {p}
  BY <1>1
<1> QED BY <1>1, <1>2, <1>3, LikesRemoved DEF P!Unlike

LEMMA EraseLikesKeeps ==
    ASSUME PostsCore, NEW u \in Members, P!EraseLikes(u)
    PROVE  PostsCore'
<1>1. PICK rows : rows = {r \in likes : r[2] = u}
  OBVIOUS
<1>2. rows \in SUBSET likes /\ \A r \in rows : r[2] = u
  BY <1>1
<1>3. /\ likes' = likes \ rows
      /\ P!AdjustLikeCount({r[1] : r \in rows}, -1)
      /\ UNCHANGED <<comment, serve, doubled>>
  BY <1>1 DEF P!EraseLikes
<1> QED BY <1>2, <1>3, LikesRemoved

-----------------------------------------------------------------------------
\* Steps that write comments

LEMMA CommentCountAdjusted ==
    ASSUME PostsCore, NEW p \in PostIds, NEW delta \in Int, P!AdjustCommentCount(p, delta)
    PROVE  /\ post' \in [PostIds -> CountedPost]
           /\ \A q \in PostIds :
                 /\ post'[q].status = post[q].status
                 /\ post'[q].likeCount = post[q].likeCount
                 /\ post'[q].commentCount =
                      IF q = p /\ post[q].status = "LIVE"
                        THEN post[q].commentCount + delta ELSE post[q].commentCount
<1>1. post[p] \in CountedPost /\ post \in [PostIds -> CountedPost]
  BY DEF PostsCore, PostShapes
<1>2. PICK d : d = [post[p] EXCEPT !.commentCount = @ + delta]
  OBVIOUS
<1>3. /\ d \in CountedPost /\ d.status = post[p].status /\ d.likeCount = post[p].likeCount
      /\ d.commentCount = post[p].commentCount + delta
  BY <1>1, <1>2 DEF CountedPost
<1>4. CASE post[p].status = "LIVE"
  <2>1. post' = [post EXCEPT ![p] = d]
    BY <1>1, <1>2, <1>4 DEF P!AdjustCommentCount
  <2> QED BY <1>1, <1>3, <1>4, <2>1
<1>5. CASE post[p].status # "LIVE"
  BY <1>1, <1>5 DEF P!AdjustCommentCount
<1> QED BY <1>4, <1>5

\* The rows and requests of the other posts are as they were.
LEMMA CommentKeeps ==
    ASSUME PostsCore, NEW w \in Servers, NEW c \in CommentIds, P!CommitComment(w, c)
    PROVE  PostsCore'
<1>1. PICK p, d : /\ p = serve[w].post
                  /\ d = [status |-> "LIVE", post |-> p, author |-> serve[w].user]
  OBVIOUS
<1>2. p \in PostIds /\ serve[w].user \in Members /\ post[p].status # "ABSENT"
  BY <1>1 DEF P!CommitComment, PostsCore, P!RequestsKnown, P!RequestKnown
<1>3. /\ comment[c].status = "ABSENT"
      /\ comment' = [comment EXCEPT ![c] = d]
      /\ P!AdjustCommentCount(p, 1)
      /\ P!Done(w)
      /\ UNCHANGED <<likes, doubled>>
  BY <1>1 DEF P!CommitComment
<1>4. d \in P!CommentDoc /\ d.status = "LIVE" /\ d.post = p
  BY <1>1, <1>2 DEF P!CommentDoc
<1>5. /\ comment' \in [CommentIds -> P!CommentDoc]
      /\ \A x \in CommentIds : comment'[x] = IF x = c THEN d ELSE comment[x]
  BY <1>3, <1>4 DEF PostsCore, PostShapes
<1>6. /\ post' \in [PostIds -> CountedPost]
      /\ \A q \in PostIds :
            /\ post'[q].status = post[q].status
            /\ post'[q].likeCount = post[q].likeCount
            /\ post'[q].commentCount =
                 IF q = p /\ post[q].status = "LIVE"
                   THEN post[q].commentCount + 1 ELSE post[q].commentCount
  BY <1>2, <1>3, CommentCountAdjusted
<1>7. P!Comments(p)' = P!Comments(p) \cup {c} /\ c \notin P!Comments(p)
  BY <1>3, <1>4, <1>5 DEF P!Comments
<1>8. \A q \in PostIds : q # p => P!Comments(q)' = P!Comments(q)
  BY <1>3, <1>4, <1>5 DEF P!Comments
<1>9. \A q \in PostIds : IsFiniteSet(P!Comments(q))
  BY DEF PostsCore, PostShapes
<1>10. /\ IsFiniteSet(P!Comments(p) \cup {c})
       /\ Cardinality(P!Comments(p) \cup {c}) = Cardinality(P!Comments(p)) + 1
       /\ Cardinality(P!Comments(p)) \in Nat
  BY <1>2, <1>7, <1>9, FS_AddElement, FS_CardinalityType
<1>11. PostShapes'
  <2>1. \A q \in PostIds : IsFiniteSet(P!Comments(q)')
    <3> SUFFICES ASSUME NEW q \in PostIds PROVE IsFiniteSet(P!Comments(q)')
      OBVIOUS
    <3>1. CASE q = p
      BY <1>7, <1>10, <3>1
    <3>2. CASE q # p
      BY <1>8, <1>9, <3>2
    <3> QED BY <3>1, <3>2
  <2> QED BY <1>3, <1>5, <1>6, <2>1, PostsDone DEF PostsCore, PostShapes
<1>12. P!RowsKnown'
  <2>1. \A r \in likes' : post'[r[1]].status # "ABSENT"
    BY <1>3, <1>6 DEF PostsCore, PostShapes, P!RowsKnown
  <2>2. \A x \in CommentIds : comment'[x].status # "ABSENT" =>
           comment'[x].post \in PostIds /\ post'[comment'[x].post].status # "ABSENT"
    BY <1>2, <1>4, <1>5, <1>6 DEF PostsCore, P!RowsKnown
  <2> QED BY PostsSets, <1>11, <2>1, <2>2 DEF P!RowsKnown, PostShapes
<1>13. P!RequestsKnown' /\ P!Twice'
  BY <1>3, <1>5, <1>6, PostsDone, RequestsKept
<1>14. P!LikesCounted'
  BY <1>3, <1>6, LikesKept
<1>15. P!CommentsCountedUnlessDoubled'
  <2> SUFFICES ASSUME NEW q \in PostIds, post'[q].status = "LIVE"
               PROVE  /\ post'[q].commentCount <= Cardinality(P!Comments(q)')
                      /\ q \notin doubled' =>
                            post'[q].commentCount = Cardinality(P!Comments(q)')
    BY PostsSets DEF P!CommentsCountedUnlessDoubled
  <2>1. /\ post[q].status = "LIVE" /\ post[q].commentCount \in Int
        /\ post[q].commentCount <= Cardinality(P!Comments(q))
        /\ q \notin doubled => post[q].commentCount = Cardinality(P!Comments(q))
    BY PostsSets, <1>6 DEF PostsCore, PostShapes, CountedPost,
         P!CommentsCountedUnlessDoubled
  <2>2. CASE q = p
    <3>1. Cardinality(P!Comments(q)') = Cardinality(P!Comments(q)) + 1
      BY <1>7, <1>10, <2>2
    <3>2. post'[q].commentCount = post[q].commentCount + 1
      BY <1>6, <2>1, <2>2
    <3> QED BY <1>3, <1>10, <2>1, <2>2, <3>1, <3>2
  <2>3. CASE q # p
    BY <1>3, <1>6, <1>8, <2>1, <2>3
  <2> QED BY <2>2, <2>3
<1> QED BY <1>11, <1>12, <1>13, <1>14, <1>15 DEF PostsCore

LEMMA DeleteCommentKeeps ==
    ASSUME PostsCore, NEW w \in Servers, P!CommitDeleteComment(w)
    PROVE  PostsCore'
<1>1. PICK p, c : p = serve[w].post /\ c = serve[w].comment
  OBVIOUS
<1>2. /\ p \in PostIds /\ post[p].status # "ABSENT"
      /\ c \in CommentIds /\ comment[c].status # "ABSENT" /\ comment[c].post = p
      /\ comment[c].status = "GONE" => p \in doubled
  BY <1>1 DEF P!CommitDeleteComment, PostsCore, P!RequestsKnown, P!RequestKnown
<1>3. PICK d : d = [comment[c] EXCEPT !.status = "GONE"]
  OBVIOUS
<1>4. /\ comment' = [comment EXCEPT ![c] = d]
      /\ serve[w].op = "DELETE_COMMENT"
      /\ P!AdjustCommentCount(p, -1)
      /\ P!Done(w)
      /\ UNCHANGED <<likes, doubled>>
  BY <1>1, <1>3 DEF P!CommitDeleteComment
<1>5. comment[c] \in P!CommentDoc
  BY <1>2 DEF PostsCore, PostShapes
<1>6. d \in P!CommentDoc /\ d.status = "GONE" /\ d.post = p
  BY <1>2, <1>3, <1>5 DEF P!CommentDoc
<1>7. /\ comment' \in [CommentIds -> P!CommentDoc]
      /\ \A x \in CommentIds : comment'[x] = IF x = c THEN d ELSE comment[x]
  BY <1>4, <1>6 DEF PostsCore, PostShapes
<1>8. /\ post' \in [PostIds -> CountedPost]
      /\ \A q \in PostIds :
            /\ post'[q].status = post[q].status
            /\ post'[q].likeCount = post[q].likeCount
            /\ post'[q].commentCount =
                 IF q = p /\ post[q].status = "LIVE"
                   THEN post[q].commentCount + (-1) ELSE post[q].commentCount
  BY <1>2, <1>4, CommentCountAdjusted
<1>9. P!Comments(p)' = P!Comments(p) \ {c}
  BY <1>2, <1>6, <1>7 DEF P!Comments
<1>10. \A q \in PostIds : q # p => P!Comments(q)' = P!Comments(q)
  BY <1>2, <1>6, <1>7 DEF P!Comments
<1>11. \A q \in PostIds : IsFiniteSet(P!Comments(q))
  BY DEF PostsCore, PostShapes
<1>12. /\ IsFiniteSet(P!Comments(p) \ {c})
       /\ Cardinality(P!Comments(p) \ {c}) \in Nat
       /\ Cardinality(P!Comments(p)) \in Nat
       /\ Cardinality(P!Comments(p) \ {c}) =
            IF c \in P!Comments(p) THEN Cardinality(P!Comments(p)) - 1
                                 ELSE Cardinality(P!Comments(p))
  BY <1>2, <1>11, FS_RemoveElement, FS_CardinalityType
<1>13. PostShapes'
  <2>1. \A q \in PostIds : IsFiniteSet(P!Comments(q)')
    <3> SUFFICES ASSUME NEW q \in PostIds PROVE IsFiniteSet(P!Comments(q)')
      OBVIOUS
    <3>1. CASE q = p
      BY <1>9, <1>12, <3>1
    <3>2. CASE q # p
      BY <1>10, <1>11, <3>2
    <3> QED BY <3>1, <3>2
  <2> QED BY <1>4, <1>7, <1>8, <2>1, PostsDone DEF PostsCore, PostShapes
<1>14. P!RowsKnown'
  <2>1. \A r \in likes' : post'[r[1]].status # "ABSENT"
    BY <1>4, <1>8 DEF PostsCore, PostShapes, P!RowsKnown
  <2>2. \A x \in CommentIds : comment'[x].status # "ABSENT" =>
           comment'[x].post \in PostIds /\ post'[comment'[x].post].status # "ABSENT"
    BY <1>2, <1>6, <1>7, <1>8 DEF PostsCore, P!RowsKnown
  <2> QED BY PostsSets, <1>13, <2>1, <2>2 DEF P!RowsKnown, PostShapes
<1>15. \A x \in Servers : serve'[x] = IF x = w THEN P!Idle ELSE serve[x]
  BY <1>4 DEF P!Done, PostsCore, PostShapes
<1>16. P!RequestsKnown'
  <2> SUFFICES ASSUME NEW x \in Servers, x # w PROVE P!RequestKnown(serve[x])'
    BY <1>15 DEF P!RequestsKnown, P!RequestKnown, P!Idle
  <2>1. P!RequestKnown(serve[x]) /\ serve'[x] = serve[x]
    BY <1>15 DEF PostsCore, P!RequestsKnown
  <2>2. CASE serve[x].op = "DELETE_COMMENT" /\ serve[x].comment = c
    <3>1. p \in doubled /\ serve[x].post = p
      BY <1>1, <1>2, <1>4, <2>1, <2>2 DEF PostsCore, P!Twice, P!RequestKnown
    <3> QED BY <1>4, <1>6, <1>7, <1>8, <2>1, <3>1 DEF P!RequestKnown
  <2>3. CASE ~(serve[x].op = "DELETE_COMMENT" /\ serve[x].comment = c)
    BY <1>4, <1>7, <1>8, <2>1, <2>3 DEF P!RequestKnown
  <2> QED BY <2>2, <2>3
<1>17. P!Twice'
  BY <1>4, <1>15 DEF PostsCore, P!Twice, P!Idle
<1>18. P!LikesCounted'
  BY <1>4, <1>8, LikesKept
<1>19. P!CommentsCountedUnlessDoubled'
  <2> SUFFICES ASSUME NEW q \in PostIds, post'[q].status = "LIVE"
               PROVE  /\ post'[q].commentCount <= Cardinality(P!Comments(q)')
                      /\ q \notin doubled' =>
                            post'[q].commentCount = Cardinality(P!Comments(q)')
    BY PostsSets DEF P!CommentsCountedUnlessDoubled
  <2>1. /\ post[q].status = "LIVE" /\ post[q].commentCount \in Int
        /\ post[q].commentCount <= Cardinality(P!Comments(q))
        /\ q \notin doubled => post[q].commentCount = Cardinality(P!Comments(q))
    BY PostsSets, <1>8 DEF PostsCore, PostShapes, CountedPost,
         P!CommentsCountedUnlessDoubled
  <2>2. CASE q = p
    <3>1. post'[q].commentCount = post[q].commentCount - 1
      BY <1>8, <2>1, <2>2
    <3>2. q \notin doubled => c \in P!Comments(q)
      <4>1. q \notin doubled => comment[c].status = "LIVE"
        BY <1>2, <1>5, <2>2 DEF P!CommentDoc
      <4> QED BY <1>2, <2>2, <4>1 DEF P!Comments
    <3>3. /\ Cardinality(P!Comments(q)) \in Nat
          /\ Cardinality(P!Comments(q)') = IF c \in P!Comments(q)
                                           THEN Cardinality(P!Comments(q)) - 1
                                           ELSE Cardinality(P!Comments(q))
      BY <1>9, <1>12, <2>2
    <3> QED BY <1>4, <2>1, <3>1, <3>2, <3>3
  <2>3. CASE q # p
    BY <1>4, <1>8, <1>10, <2>1, <2>3
  <2> QED BY <2>2, <2>3
<1> QED BY <1>13, <1>14, <1>16, <1>17, <1>18, <1>19 DEF PostsCore

-----------------------------------------------------------------------------
LEMMA PostsStep ==
    ASSUME PostsCore, [P!Next]_(P!postVars)
    PROVE  PostsCore'
<1>1. CASE UNCHANGED P!postVars
  BY <1>1, PostsQuiet DEF P!postVars
<1>2. ASSUME NEW u \in Members, P!MemberStep(u) PROVE PostsCore'
  <2>1. ASSUME NEW p \in PostIds, P!Unbookmark(p, u) PROVE PostsCore'
    BY <2>1, PostsQuiet DEF P!Unbookmark
  <2>2. CASE P!EraseBookmarks(u)
    BY <2>2, PostsQuiet DEF P!EraseBookmarks
  <2> QED BY <1>2, <2>1, <2>2, CreatePostKeeps, UnlikeKeeps, EraseLikesKeeps
       DEF P!MemberStep
<1>3. ASSUME NEW w \in Servers, NEW u \in Members, P!BeginStep(w, u) PROVE PostsCore'
  BY <1>3, BeginPostKeeps, BeginDeleteKeeps DEF P!BeginStep
<1>4. ASSUME NEW w \in Servers, P!CommitStep(w) PROVE PostsCore'
  <2>1. CASE P!CommitBookmark(w)
    BY <2>1, PostsQuiet DEF P!CommitBookmark
  <2> QED BY <1>4, <2>1, DeletePostKeeps, LikeKeeps, CommentKeeps, DeleteCommentKeeps
      DEF P!CommitStep
<1>5. ASSUME NEW w \in Servers, P!Abort(w) PROVE PostsCore'
  BY <1>5, PostsQuiet DEF P!Abort
<1> QED BY <1>1, <1>2, <1>3, <1>4, <1>5 DEF P!Next


-----------------------------------------------------------------------------
\* The rest of the shape: no count of likes is below zero, as the rows are
\* counted for a live post and the count of a deleted one does not move.

LEMMA LikesNotNegative ==
    ASSUME PostsCore, P!TypeOK, PostsCore', [P!Next]_(P!postVars)
    PROVE  \A p \in PostIds : post'[p].likeCount \in Nat
<1> SUFFICES ASSUME NEW p \in PostIds PROVE post'[p].likeCount \in Nat
  OBVIOUS
<1>1. post[p] \in P!PostDoc /\ post \in [PostIds -> P!PostDoc]
  BY DEF P!TypeOK
<1>2. CASE post'[p].status = "LIVE"
  <2>1. post'[p].likeCount = Cardinality({r \in likes' : r[1] = p})
    BY PostsSets, <1>2 DEF PostsCore, P!LikesCounted
  <2>2. {r \in likes' : r[1] = p} \subseteq likes' /\ IsFiniteSet(likes')
    BY DEF PostsCore, PostShapes
  <2>3. IsFiniteSet({r \in likes' : r[1] = p})
    BY <2>2, FS_Subset
  <2> QED BY <2>1, <2>3, FS_CardinalityType
<1>3. ASSUME post'[p].status # "LIVE", NEW ps, NEW delta, P!AdjustLikeCount(ps, delta)
      PROVE  post'[p] = post[p]
  <2>1. CASE p \in ps /\ post[p].status = "LIVE"
    <3>1. post'[p] = [post[p] EXCEPT !.likeCount = @ + delta]
      BY <1>3, <2>1 DEF P!AdjustLikeCount
    <3>2. [post[p] EXCEPT !.likeCount = @ + delta].status = "LIVE"
      BY <1>1, <2>1 DEF P!PostDoc
    <3> QED BY <1>3, <3>1, <3>2
  <2> QED BY <1>3, <2>1 DEF P!AdjustLikeCount
<1>4. ASSUME post'[p].status # "LIVE", NEW q, NEW delta, P!AdjustCommentCount(q, delta)
      PROVE  post'[p].likeCount \in Nat
  <2>1. CASE post[q].status = "LIVE"
    <3>1. post' = [post EXCEPT ![q].commentCount = @ + delta]
      BY <1>4, <2>1 DEF P!AdjustCommentCount
    <3>2. post'[p] = IF p = q THEN [post[p] EXCEPT !.commentCount = @ + delta] ELSE post[p]
      BY <1>1, <3>1
    <3>3. [post[p] EXCEPT !.commentCount = @ + delta].likeCount = post[p].likeCount
      BY <1>1 DEF P!PostDoc
    <3> QED BY <1>1, <3>2, <3>3 DEF P!PostDoc
  <2>2. CASE post[q].status # "LIVE"
    BY <1>1, <1>4, <2>2 DEF P!AdjustCommentCount, P!PostDoc
  <2> QED BY <2>1, <2>2
<1>5. CASE post' = post
  BY <1>1, <1>5 DEF P!PostDoc
<1>6. ASSUME post'[p].status # "LIVE", NEW u \in Members, P!MemberStep(u)
      PROVE  post'[p].likeCount \in Nat
  <2>1. ASSUME NEW q \in PostIds, P!CreatePost(q, u) PROVE post'[p].likeCount \in Nat
    <3>1. PICK d : d = [P!NoPost EXCEPT !.status = "LIVE", !.author = u]
      OBVIOUS
    <3>2. post' = [post EXCEPT ![q] = d]
      BY <2>1, <3>1, Zenon DEF P!CreatePost
    <3>3. d = [status |-> "LIVE", author |-> u, likeCount |-> 0, commentCount |-> 0]
      BY <3>1 DEF P!NoPost
    <3>4. post'[p] = IF p = q THEN d ELSE post[p]
      BY <1>1, <3>2
    <3>5. d.likeCount = 0
      BY <3>3
    <3>6. post[p].likeCount \in Nat
      BY <1>1 DEF P!PostDoc
    <3> QED BY <3>4, <3>5, <3>6
  <2>2. ASSUME NEW q \in PostIds, P!Unlike(q, u) PROVE post'[p].likeCount \in Nat
    BY <1>1, <1>3, <1>6, <2>2 DEF P!Unlike, P!PostDoc
  <2>3. CASE P!EraseLikes(u)
    BY <1>1, <1>3, <1>6, <2>3 DEF P!EraseLikes, P!PostDoc
  <2> QED BY <1>5, <1>6, <2>1, <2>2, <2>3 DEF P!MemberStep, P!Unbookmark, P!EraseBookmarks
<1>7. ASSUME NEW w \in Servers, NEW u \in Members, P!BeginStep(w, u)
      PROVE  post'[p].likeCount \in Nat
  BY <1>5, <1>7 DEF P!BeginStep, P!BeginOnPost, P!BeginDeleteComment
<1>8. ASSUME post'[p].status # "LIVE", NEW w \in Servers, P!CommitStep(w)
      PROVE  post'[p].likeCount \in Nat
  <2>1. CASE P!CommitDeletePost(w)
    <3>1. PICK q : q = serve[w].post
      OBVIOUS
    <3>2. post' = [post EXCEPT ![q].status = "DELETED"]
      BY <2>1, <3>1 DEF P!CommitDeletePost
    <3>3. post'[p] = IF p = q THEN [post[p] EXCEPT !.status = "DELETED"] ELSE post[p]
      BY <1>1, <3>2
    <3>4. [post[p] EXCEPT !.status = "DELETED"].likeCount = post[p].likeCount
      BY <1>1 DEF P!PostDoc
    <3> QED BY <1>1, <3>3, <3>4 DEF P!PostDoc
  <2>2. CASE P!CommitLike(w)
    <3>1. PICK ps : P!AdjustLikeCount(ps, 1)
      BY <2>2 DEF P!CommitLike
    <3> QED BY <1>1, <1>3, <1>8, <3>1 DEF P!PostDoc
  <2>3. ASSUME NEW c \in CommentIds, P!CommitComment(w, c) PROVE post'[p].likeCount \in Nat
    BY <1>4, <1>8, <2>3 DEF P!CommitComment
  <2>4. CASE P!CommitDeleteComment(w)
    BY <1>4, <1>8, <2>4 DEF P!CommitDeleteComment
  <2> QED BY <1>5, <1>8, <2>1, <2>2, <2>3, <2>4 DEF P!CommitStep, P!CommitBookmark
<1>9. ASSUME NEW w \in Servers, P!Abort(w) PROVE post'[p].likeCount \in Nat
  BY <1>5, <1>9 DEF P!Abort
<1> QED BY <1>2, <1>5, <1>6, <1>7, <1>8, <1>9 DEF P!Next, P!postVars

LEMMA CoreOfIInv == P!IInv <=> PostsCore /\ P!TypeOK
<1>1. P!TypeOK => post \in [PostIds -> CountedPost]
  <2>1. \A d \in P!PostDoc : d \in CountedPost
    BY DEF P!PostDoc, CountedPost
  <2> QED BY <2>1 DEF P!TypeOK
<1>2. P!TypeOK => serve \in [Servers -> PostRequest]
  BY DEF P!TypeOK, PostRequest
<1> QED BY PostsSets, <1>1, <1>2 DEF P!IInv, PostsCore, PostShapes, P!RowsKnown, P!TypeOK

\* The sides of IInv that PostsCore leaves out.
LEMMA PostsTyped ==
    ASSUME PostsCore, P!TypeOK, PostsCore', [P!Next]_(P!postVars)
    PROVE  P!TypeOK'
<1>1. post' \in [PostIds -> P!PostDoc]
  <2>1. \A p \in PostIds : post'[p] \in CountedPost /\ post'[p].likeCount \in Nat
    BY LikesNotNegative DEF PostsCore, PostShapes
  <2>2. \A p \in PostIds : post'[p] \in P!PostDoc
    BY <2>1 DEF CountedPost, P!PostDoc
  <2> QED BY <2>2 DEF PostsCore, PostShapes
<1>2. bookmarks' \subseteq PostIds \X Members
  <2>1. CASE bookmarks' \subseteq bookmarks
    BY <2>1 DEF P!TypeOK
  <2>2. ASSUME NEW w \in Servers, P!CommitBookmark(w)
        PROVE  bookmarks' \subseteq PostIds \X Members
    <3>1. serve[w].post \in PostIds /\ serve[w].user \in Members
      BY <2>2 DEF P!CommitBookmark, PostsCore, P!RequestsKnown, P!RequestKnown
    <3> QED BY <2>2, <3>1 DEF P!CommitBookmark, P!TypeOK
  <2>3. ASSUME NEW u \in Members, P!MemberStep(u) PROVE bookmarks' \subseteq bookmarks
    BY <2>3 DEF P!MemberStep, P!CreatePost, P!Unlike, P!Unbookmark, P!EraseLikes,
         P!EraseBookmarks
  <2>4. ASSUME NEW w \in Servers, NEW u \in Members, P!BeginStep(w, u)
        PROVE  bookmarks' \subseteq bookmarks
    BY <2>4 DEF P!BeginStep, P!BeginOnPost, P!BeginDeleteComment
  <2>5. ASSUME NEW w \in Servers, P!CommitStep(w), ~P!CommitBookmark(w)
        PROVE  bookmarks' \subseteq bookmarks
    BY <2>5 DEF P!CommitStep, P!CommitDeletePost, P!CommitLike, P!CommitComment,
         P!CommitDeleteComment
  <2>6. ASSUME NEW w \in Servers, P!Abort(w) PROVE bookmarks' \subseteq bookmarks
    BY <2>6 DEF P!Abort
  <2>7. CASE UNCHANGED P!postVars
    BY <2>7 DEF P!postVars, P!TypeOK
  <2> QED BY <2>1, <2>2, <2>3, <2>4, <2>5, <2>6, <2>7 DEF P!Next
<1>3. doubled' \subseteq PostIds
  <2>1. CASE doubled' = doubled
    BY <2>1 DEF P!TypeOK
  <2>2. ASSUME NEW w \in Servers, NEW c \in CommentIds, NEW u \in Members,
               P!BeginDeleteComment(w, c, u)
        PROVE  doubled' \subseteq PostIds
    <3>1. comment[c].post \in PostIds
      BY <2>2 DEF P!BeginDeleteComment, PostsCore, P!RowsKnown
    <3> QED BY <2>2, <3>1 DEF P!BeginDeleteComment, P!TypeOK
  <2>3. ASSUME NEW u \in Members, P!MemberStep(u) PROVE doubled' = doubled
    BY <2>3 DEF P!MemberStep, P!CreatePost, P!Unlike, P!Unbookmark, P!EraseLikes,
         P!EraseBookmarks
  <2>4. ASSUME NEW w \in Servers, NEW u \in Members, P!BeginStep(w, u)
        PROVE  doubled' \subseteq PostIds
    BY <2>1, <2>2, <2>4 DEF P!BeginStep, P!BeginOnPost
  <2>5. ASSUME NEW w \in Servers, P!CommitStep(w) PROVE doubled' = doubled
    BY <2>5 DEF P!CommitStep, P!CommitDeletePost, P!CommitLike, P!CommitBookmark,
         P!CommitComment,
                P!CommitDeleteComment
  <2>6. ASSUME NEW w \in Servers, P!Abort(w) PROVE doubled' = doubled
    BY <2>6 DEF P!Abort
  <2>7. CASE UNCHANGED P!postVars
    BY <2>7 DEF P!postVars, P!TypeOK
  <2> QED BY <2>1, <2>3, <2>4, <2>5, <2>6, <2>7 DEF P!Next
<1> QED BY <1>1, <1>2, <1>3 DEF PostsCore, PostShapes, PostRequest, P!TypeOK

LEMMA PostsInit == P!Init => P!IInv
<1>1. P!Init => P!TypeOK
  <2>1. P!Init => post \in [PostIds -> P!PostDoc]
    BY DEF P!Init, P!PostDoc, P!NoPost
  <2> QED BY <2>1 DEF P!Init, P!TypeOK, P!CommentDoc, P!NoComment, P!Idle
<1> QED BY <1>1, InitPosts, CoreOfIInv

LEMMA PostsNext == P!IInv /\ [P!Next]_(P!postVars) => P!IInv'
<1> SUFFICES ASSUME P!IInv, [P!Next]_(P!postVars) PROVE PostsCore' /\ P!TypeOK'
  <2>1. PostsCore' /\ P!TypeOK' => P!IInv'
    BY DEF P!IInv, PostsCore
  <2> QED BY <2>1
<1>1. PostsCore /\ P!TypeOK
  BY CoreOfIInv
<1>2. PostsCore'
  BY <1>1, PostsStep
<1> QED BY <1>1, <1>2, PostsTyped

\* However likes, comments, deletions and erasures interleave, the rows and the
\* requests under way stay those of posts that were made, and the counters
\* those of the rows.
THEOREM PostsInvariant == P!Spec => []P!IInv
<1> QED BY PostsInit, PostsNext, PTL DEF P!Spec

LEMMA PostsMove == MCSpec => P!Spec
<1>1. MCInit => P!Init
  BY DEF MCInit
<1>2. [MCNext]_vars => [P!Next]_(P!postVars)
  BY DEF MCNext, vars, postVars, P!postVars
<1> QED BY <1>1, <1>2, PTL DEF MCSpec, P!Spec

LEMMA PostsHold == MCSpec => []P!IInv
<1> QED BY PostsInvariant, PostsMove, PTL

\* The count of likes of a post is the number of its like rows, and never
\* negative, however likes, unlikes and erasures interleave.
THEOREM LikesCount == MCSpec => []LikesCounted
<1>1. P!IInv => LikesCounted
  BY DEF P!IInv, LikesCounted
<1> QED BY <1>1, PostsHold, PTL

\* The count of comments of a post is the number of its comments, unless one
\* of them was deleted twice at once.
THEOREM CommentsCount == MCSpec => []CommentsCountedUnlessDoubled
<1>1. P!IInv => CommentsCountedUnlessDoubled
  BY DEF P!IInv, CommentsCountedUnlessDoubled
<1> QED BY <1>1, PostsHold, PTL

-----------------------------------------------------------------------------
\* Pages

\* The operators of sets are those of the library in the instance too.
LEMMA PagesSets ==
    \A S : L!Cardinality(S) = Cardinality(S) /\ L!IsFiniteSet(S) = IsFiniteSet(S)
  BY DEF L!Cardinality, Cardinality, L!IsFiniteSet, IsFiniteSet

\* Rows are in one order.
LEMMA BeforeOrders ==
    /\ \A i, j \in L!Ids : L!Before(i, j) \/ L!Before(j, i) \/ i = j
    /\ \A i, j \in L!Ids : L!Before(i, j) => ~L!Before(j, i) /\ i # j
    /\ \A i, j, k \in L!Ids : L!Before(i, j) /\ L!Before(j, k) => L!Before(i, k)
  BY DEF L!Before, L!Ids

\* A set of numbers has its least.
LEMMA LeastOf ==
    ASSUME NEW S \in SUBSET Nat, S # {} PROVE \E m \in S : \A n \in S : m <= n
<1>1. PICK less : less = OpToRel(<, Nat)
  OBVIOUS
<1>2. \A m, n \in Nat : <<m, n>> \in less <=> m < n
  BY <1>1 DEF OpToRel
<1>3. \E m \in S : \A n \in S : ~(<<n, m>> \in less)
  BY <1>1, NatLessThanWellFounded, WFMin
<1>4. PICK m \in S : \A n \in S : ~(n < m)
  BY <1>2, <1>3
<1> QED BY <1>4

\* Of some rows one comes first, and one last.
LEMMA EndsOf ==
    ASSUME L!PagesAssumption, NEW rows \in SUBSET L!Ids, rows # {}
    PROVE  /\ \E i \in rows : \A j \in rows : j = i \/ L!Before(i, j)
           /\ L!LastOf(rows) \in rows
           /\ \A j \in rows : j = L!LastOf(rows) \/ L!Before(j, L!LastOf(rows))
<1>1. PICK low \in rows : \A j \in rows : low <= j
  BY LeastOf DEF L!Ids
<1>2. \E high \in rows : \A j \in rows : j <= high
  <2>1. PICK S : S = {MaxRows - i : i \in rows}
    OBVIOUS
  <2>2. S \in SUBSET Nat /\ S # {}
    BY <2>1 DEF L!PagesAssumption, L!Ids
  <2>3. PICK m \in S : \A n \in S : m <= n
    BY <2>2, LeastOf
  <2>4. PICK high \in rows : m = MaxRows - high
    BY <2>1
  <2>5. ASSUME NEW j \in rows PROVE j <= high
    <3>1. MaxRows - high <= MaxRows - j
      BY <2>1, <2>3, <2>4
    <3> QED BY <3>1 DEF L!PagesAssumption, L!Ids
  <2> QED BY <2>5
<1>3. PICK high \in rows : \A j \in rows : j <= high
  BY <1>2
<1>4. /\ \E i \in rows : \A j \in rows : j = i \/ L!Before(i, j)
      /\ \E i \in rows : \A j \in rows : j = i \/ L!Before(j, i)
  <2>1. CASE listing.query.order = "NEWEST"
    <3>1. \A j \in rows : (j = high \/ high > j) /\ (j = low \/ j > low)
      BY <1>1, <1>3 DEF L!Ids
    <3> QED BY <2>1, <3>1 DEF L!Before
  <2>2. CASE listing.query.order # "NEWEST"
    <3>1. \A j \in rows : (j = high \/ j < high) /\ (j = low \/ low < j)
      BY <1>1, <1>3 DEF L!Ids
    <3> QED BY <2>2, <3>1 DEF L!Before
  <2> QED BY <2>1, <2>2
<1> QED BY <1>4 DEF L!LastOf

LEMMA RowsCounted ==
    ASSUME L!PagesAssumption, NEW rows \in SUBSET L!Ids
    PROVE  /\ IsFiniteSet(rows) /\ Cardinality(rows) \in Nat
           /\ \A some \in SUBSET rows : /\ IsFiniteSet(some) /\ Cardinality(some) \in Nat
                                        /\ Cardinality(some) <= Cardinality(rows)
<1>1. IsFiniteSet(L!Ids)
  BY FS_Interval DEF L!Ids, L!PagesAssumption
<1> QED BY <1>1, FS_Subset, FS_CardinalityType

\* The first n rows come before the others; they are all if there are no more,
\* and otherwise at least n.
LEMMA FirstOnes ==
    ASSUME L!PagesAssumption, NEW rows \in SUBSET L!Ids, NEW n \in Nat
    PROVE  /\ L!First(n, rows) \subseteq rows
           /\ \A i \in L!First(n, rows), j \in rows \ L!First(n, rows) : L!Before(i, j)
           /\ Cardinality(rows) <= n => L!First(n, rows) = rows
           /\ L!First(n, rows) # rows => Cardinality(L!First(n, rows)) >= n
<1>1. L!First(n, rows) \subseteq rows
  BY DEF L!First
<1>2. ASSUME NEW i \in L!First(n, rows), NEW j \in rows \ L!First(n, rows)
      PROVE  L!Before(i, j)
  <2> SUFFICES ASSUME ~L!Before(i, j) PROVE FALSE
    OBVIOUS
  <2>1. i \in L!Ids /\ j \in L!Ids /\ i # j /\ L!Before(j, i)
    BY <1>1, BeforeOrders
  <2>2. {k \in rows : L!Before(k, j)} \subseteq {k \in rows : L!Before(k, i)}
    BY <2>1, BeforeOrders
  <2>3. {k \in rows : L!Before(k, i)} \in SUBSET L!Ids
    OBVIOUS
  <2>4. Cardinality({k \in rows : L!Before(k, j)}) <= Cardinality({k \in rows : L!Before(k, i)})
    BY <2>2, <2>3, RowsCounted
  <2>5. /\ Cardinality({k \in rows : L!Before(k, i)}) \in Nat
        /\ Cardinality({k \in rows : L!Before(k, j)}) \in Nat
    BY <2>2, <2>3, RowsCounted
  <2>6. /\ Cardinality({k \in rows : L!Before(k, i)}) < n
        /\ ~(Cardinality({k \in rows : L!Before(k, j)}) < n)
    BY PagesSets DEF L!First
  <2> QED BY <2>4, <2>5, <2>6
<1>3. ASSUME Cardinality(rows) <= n, NEW i \in rows PROVE i \in L!First(n, rows)
  <2>1. PICK S : S = {j \in rows : L!Before(j, i)}
    OBVIOUS
  <2>2. S \in SUBSET rows /\ i \notin S /\ S # rows
    BY <2>1, BeforeOrders
  <2>3. rows \in SUBSET L!Ids /\ IsFiniteSet(rows)
    BY RowsCounted
  <2>4. Cardinality(S) # Cardinality(rows)
    BY <2>2, <2>3, FS_Subset
  <2>5. /\ Cardinality(S) \in Nat /\ Cardinality(rows) \in Nat
        /\ Cardinality(S) <= Cardinality(rows)
    BY <2>2, RowsCounted
  <2>6. Cardinality(S) < n
    BY <1>3, <2>4, <2>5
  <2> QED BY <2>1, <2>6, PagesSets DEF L!First
<1>4. ASSUME L!First(n, rows) # rows PROVE Cardinality(L!First(n, rows)) >= n
  <2>1. PICK rest : rest = rows \ L!First(n, rows)
    OBVIOUS
  <2>2. rest \in SUBSET L!Ids /\ rest # {}
    BY <1>1, <1>4, <2>1
  <2>3. PICK i \in rest : \A j \in rest : j = i \/ L!Before(i, j)
    BY <2>2, EndsOf
  <2>4. PICK S : S = {j \in rows : L!Before(j, i)}
    OBVIOUS
  <2>5. S \subseteq L!First(n, rows)
    BY <2>1, <2>2, <2>3, <2>4, BeforeOrders
  <2>6. L!First(n, rows) \in SUBSET L!Ids
    BY <1>1
  <2>7. /\ Cardinality(S) <= Cardinality(L!First(n, rows))
        /\ Cardinality(S) \in Nat /\ Cardinality(L!First(n, rows)) \in Nat
    BY <2>5, <2>6, RowsCounted
  <2>8. ~(Cardinality(S) < n)
    BY <2>1, <2>3, <2>4, PagesSets DEF L!First
  <2> QED BY <2>7, <2>8
<1>5. Cardinality(rows) <= n => L!First(n, rows) = rows
  BY <1>1, <1>3
<1> QED BY <1>1, <1>2, <1>4, <1>5

\* A page leaves no row out: whatever is behind the cursor is on it or behind
\* the next one, and without a next one all is on it.
LEMMA PageOfRows ==
    ASSUME L!PagesAssumption, NEW rows \in SUBSET L!Ids, NEW found,
           found = L!CursorPage(L!First(Limit + 1, rows))
    PROVE  /\ found.ids \subseteq rows /\ found.next \in 0..MaxRows
           /\ found.next = 0 => found.ids = rows
           /\ found.next # 0 =>
                /\ found.next \in found.ids
                /\ \A i \in found.ids : L!UpTo(found.next, i)
                /\ \A i \in rows : i \in found.ids \/ L!Before(found.next, i)
<1>1. PICK all, kept : all = L!First(Limit + 1, rows) /\ kept = L!First(Limit, all)
  OBVIOUS
<1>2. Limit \in Nat /\ Limit + 1 \in Nat /\ Limit >= 1
  BY DEF L!PagesAssumption
<1>3. /\ all \in SUBSET rows /\ all \in SUBSET L!Ids
      /\ \A i \in all, j \in rows \ all : L!Before(i, j)
      /\ all # rows => Cardinality(all) >= Limit + 1
  BY <1>1, <1>2, FirstOnes
<1>4. /\ kept \in SUBSET all /\ kept \in SUBSET L!Ids
      /\ \A i \in kept, j \in all \ kept : L!Before(i, j)
      /\ Cardinality(all) <= Limit => kept = all
  BY <1>1, <1>2, <1>3, FirstOnes
<1>5. Cardinality(all) \in Nat
  BY <1>3, RowsCounted
<1>6. /\ found.ids = kept
      /\ found.next = IF Cardinality(all) > Limit THEN L!LastOf(kept) ELSE 0
  BY <1>1, PagesSets DEF L!CursorPage
<1>7. CASE Cardinality(all) <= Limit
  <2>1. all = rows /\ kept = all
    BY <1>2, <1>3, <1>4, <1>5, <1>7
  <2>2. found.next = 0
    BY <1>2, <1>5, <1>6, <1>7
  <2> QED BY <1>6, <2>1, <2>2 DEF L!PagesAssumption
<1>8. CASE Cardinality(all) > Limit
  <2>1. all # {}
    BY <1>2, <1>8, FS_EmptySet
  <2>2. PICK i \in all : \A j \in all : j = i \/ L!Before(i, j)
    BY <1>3, <2>1, EndsOf
  <2>3. {j \in all : L!Before(j, i)} = {}
    BY <1>3, <2>2, BeforeOrders
  <2>4. Cardinality({j \in all : L!Before(j, i)}) < Limit
    BY <1>2, <2>3, FS_EmptySet
  <2>5. i \in kept
    BY <1>1, <2>2, <2>4, PagesSets DEF L!First
  <2>6. /\ L!LastOf(kept) \in kept
        /\ \A j \in kept : j = L!LastOf(kept) \/ L!Before(j, L!LastOf(kept))
    BY <1>4, <2>5, EndsOf
  <2>7. found.next = L!LastOf(kept)
    BY <1>6, <1>8
  <2>8. found.next \in kept /\ found.next \in L!Ids /\ found.next # 0
    <3>1. found.next \in kept
      BY <2>6, <2>7
    <3>2. found.next \in L!Ids
      BY <1>4, <3>1
    <3>3. found.next # 0
      BY <3>2 DEF L!Ids, L!PagesAssumption
    <3> QED BY <3>1, <3>2, <3>3
  <2>9. ASSUME NEW j \in rows, j \notin kept PROVE L!Before(found.next, j)
    <3>1. CASE j \in all
      BY <1>4, <2>8, <2>9, <3>1
    <3>2. CASE j \notin all
      <4>1. found.next \in all
        BY <1>4, <2>8
      <4> QED BY <1>3, <2>9, <3>2, <4>1
    <3> QED BY <3>1, <3>2
  <2>10. \A j \in kept : L!UpTo(found.next, j)
    BY <2>6, <2>7, <2>8 DEF L!UpTo
  <2>11. found.next \in 0..MaxRows
    BY <2>8 DEF L!Ids, L!PagesAssumption
  <2>12. found.ids = kept /\ found.ids \subseteq rows
    BY <1>3, <1>4, <1>6
  <2> QED BY <2>8, <2>9, <2>10, <2>11, <2>12
<1> QED BY <1>2, <1>5, <1>7, <1>8

-----------------------------------------------------------------------------
\* What each step keeps

Row == [state : {"FREE", "CLAIMED", "THERE", "GONE"}, target : Targets \cup {0},
        matches : BOOLEAN, subject : BOOLEAN]

\* The reader is due nothing in the beginning.
LEMMA PagesInit == ASSUME L!PagesAssumption, L!Init PROVE L!IInv
<1>1. L!TypeOK
  BY DEF L!Init, L!TypeOK, L!NoRow, L!Idle, L!PagesAssumption
<1>2. L!IdentitiesMade /\ L!OneOfTarget
  BY DEF L!Init, L!IdentitiesMade, L!OneOfTarget, L!NoRow, L!There, L!PagesAssumption, L!Ids
<1>3. L!PageFits /\ L!SeenUpToCursor /\ L!DueIsAhead /\ L!PagesCoverWhatStays
  BY DEF L!Init, L!PageFits, L!SeenUpToCursor, L!DueIsAhead, L!PagesCoverWhatStays, L!Idle
<1> QED BY <1>1, <1>2, <1>3 DEF L!IInv

\* One row changes; the reader is no longer due it if it may not see it.
LEMMA RowChanges ==
    ASSUME L!PagesAssumption, L!IInv, NEW i \in L!Ids, NEW r \in Row,
           page' = [page EXCEPT ![i] = r],
           UNCHANGED listing, made' \in 0..MaxRows, standing' \in BOOLEAN,
           NEW gone \in SUBSET {i}, reader' = [reader EXCEPT !.due = @ \ gone],
           page[i].state # "FREE" => r.state # "FREE" /\ r.target = page[i].target,
           L!IdentitiesMade', L!OneOfTarget',
           i \in reader.due \ gone => r.state = "THERE" /\ r.matches = TRUE
                                      /\ (listing.joined => r.subject = TRUE)
    PROVE  L!IInv'
<1>1. /\ page \in [L!Ids -> Row]
      /\ reader \in [stage : {"IDLE", "ASK", "JOIN", "DONE"}, cursor : 0..MaxRows,
                     ids : SUBSET L!Ids, next : 0..MaxRows, seen : SUBSET L!Ids,
                     due : SUBSET L!Ids]
  BY DEF L!IInv, L!TypeOK, Row
<1>2. /\ reader'.stage = reader.stage /\ reader'.cursor = reader.cursor
      /\ reader'.ids = reader.ids /\ reader'.next = reader.next
      /\ reader'.seen = reader.seen /\ reader'.due = reader.due \ gone
      /\ reader' \in [stage : {"IDLE", "ASK", "JOIN", "DONE"}, cursor : 0..MaxRows,
                      ids : SUBSET L!Ids, next : 0..MaxRows, seen : SUBSET L!Ids,
                      due : SUBSET L!Ids]
  BY <1>1
<1>3. page' \in [L!Ids -> Row] /\ \A j \in L!Ids : page'[j] = IF j = i THEN r ELSE page[j]
  BY <1>1
<1>4. L!TypeOK'
  BY <1>2, <1>3 DEF L!IInv, L!TypeOK, Row
<1>5. \A c, j : /\ L!Behind(c, j)' <=> L!Behind(c, j)
                /\ L!UpTo(c, j)' <=> L!UpTo(c, j)
                /\ L!Before(c, j)' <=> L!Before(c, j)
  BY DEF L!Behind, L!UpTo, L!Before
<1>6. L!PageFits'
  <2>1. \A j \in reader.ids : page'[j].state # "FREE"
    BY <1>1, <1>3 DEF L!IInv, L!PageFits
  <2> QED BY <1>2, <1>5, <2>1 DEF L!IInv, L!PageFits
<1>7. L!SeenUpToCursor'
  BY <1>2, <1>5 DEF L!IInv, L!SeenUpToCursor
<1>8. L!DueIsAhead'
  <2> SUFFICES ASSUME NEW j \in reader.due \ gone
               PROVE  /\ L!Visible(j)'
                      /\ reader.stage = "ASK" => j \in reader.seen \/ L!Behind(reader.cursor, j)
                      /\ reader.stage = "JOIN" =>
                            \/ j \in reader.seen \cup reader.ids
                            \/ reader.next # 0 /\ L!Before(reader.next, j)
    BY <1>2, <1>5 DEF L!DueIsAhead
  <2>1. j \in L!Ids /\ L!Visible(j)
    BY <1>1 DEF L!IInv, L!DueIsAhead
  <2>2. L!Visible(j)'
    BY <1>3, <2>1 DEF L!Visible, L!There
  <2> QED BY <2>2 DEF L!IInv, L!DueIsAhead
<1>9. L!PagesCoverWhatStays'
  <2>1. reader'.stage = "DONE" => reader'.due \subseteq reader'.seen
    BY <1>2 DEF L!IInv, L!PagesCoverWhatStays
  <2>2. \A j \in reader'.seen, k \in reader'.ids : L!Before(j, k)'
    BY <1>2, <1>5 DEF L!IInv, L!PagesCoverWhatStays
  <2>3. \A j \in reader.ids : page'[j].target = page[j].target
    BY <1>1, <1>3 DEF L!IInv, L!PageFits
  <2> QED BY <1>2, <2>1, <2>2, <2>3 DEF L!IInv, L!PagesCoverWhatStays
<1> QED BY <1>4, <1>6, <1>7, <1>8, <1>9 DEF L!IInv

LEMMA ClaimKeeps == ASSUME L!PagesAssumption, L!IInv, NEW t \in Targets, L!Claim(t)
                    PROVE  L!IInv'
<1>1. PICK i, r : i = made + 1 /\ r = [page[i] EXCEPT !.state = "CLAIMED", !.target = t]
  OBVIOUS
<1>2. made \in 0..MaxRows /\ made < MaxRows /\ i \in L!Ids /\ made' = made + 1
  BY <1>1 DEF L!IInv, L!TypeOK, L!Claim, L!Ids, L!PagesAssumption
<1>3. /\ page \in [L!Ids -> Row] /\ page[i] \in Row /\ page[i].state = "FREE"
      /\ \A j \in L!Ids : page[j].state = "FREE" <=> j > made
  BY <1>1, <1>2 DEF L!IInv, L!TypeOK, Row, L!IdentitiesMade, L!Ids
<1>4. r \in Row /\ r.state = "CLAIMED"
  BY <1>1, <1>3 DEF Row
<1>5. page' = [page EXCEPT ![i] = r]
  <2>1. page' = [page EXCEPT ![i].state = "CLAIMED", ![i].target = t]
    BY <1>1 DEF L!Claim
  <2> QED BY <1>1, <1>3, <2>1
<1>6. \A j \in L!Ids : page'[j] = IF j = i THEN r ELSE page[j]
  BY <1>3, <1>5
<1>7. L!IdentitiesMade'
  <2>1. \A j \in L!Ids : j > made + 1 <=> j > made /\ j # made + 1
    BY <1>2 DEF L!Ids, L!PagesAssumption
  <2> QED BY <1>1, <1>2, <1>3, <1>4, <1>6, <2>1 DEF L!IdentitiesMade
<1>8. L!OneOfTarget'
  BY <1>4, <1>6 DEF L!IInv, L!OneOfTarget, L!There, L!Claim
<1>9. i \notin reader.due
  BY <1>3 DEF L!IInv, L!DueIsAhead, L!Visible, L!There
<1>10. reader \in [stage : {"IDLE", "ASK", "JOIN", "DONE"}, cursor : 0..MaxRows,
                   ids : SUBSET L!Ids, next : 0..MaxRows, seen : SUBSET L!Ids,
                   due : SUBSET L!Ids] /\ UNCHANGED reader
  BY DEF L!IInv, L!TypeOK, L!Claim
<1>11. PICK gone : gone = {}
  OBVIOUS
<1>12. made' \in 0..MaxRows /\ standing' \in BOOLEAN /\ UNCHANGED listing
  BY <1>2 DEF L!Claim, L!IInv, L!TypeOK, L!PagesAssumption
<1>13. /\ gone \in SUBSET {i} /\ reader' = [reader EXCEPT !.due = @ \ gone]
       /\ i \notin reader.due \ gone
  BY <1>9, <1>10, <1>11
<1> QED BY <1>2, <1>3, <1>4, <1>5, <1>7, <1>8, <1>12, <1>13, RowChanges

\* A row that was made is written over with the same target.
LEMMA RowStepKeeps == ASSUME L!PagesAssumption, L!IInv, NEW i \in L!Ids, L!RowStep(i)
                      PROVE  L!IInv'
<1>1. /\ page \in [L!Ids -> Row] /\ page[i] \in Row /\ made \in 0..MaxRows
      /\ standing \in BOOLEAN
      /\ reader \in [stage : {"IDLE", "ASK", "JOIN", "DONE"}, cursor : 0..MaxRows,
                     ids : SUBSET L!Ids, next : 0..MaxRows, seen : SUBSET L!Ids,
                     due : SUBSET L!Ids]
  BY DEF L!IInv, L!TypeOK, Row
<1>2. UNCHANGED <<listing, made, standing>>
  BY DEF L!RowStep, L!Publish, L!RemoveRow, L!Move, L!LoseSubject
<1>3. ASSUME NEW r \in Row, page' = [page EXCEPT ![i] = r], r.state # "FREE",
             r.target = page[i].target, page[i].state # "FREE"
      PROVE  /\ L!IdentitiesMade'
             /\ (r.state = "THERE" /\ page[i].state # "THERE" /\ listing.query.unique
                   => L!About(r.target) = {}) => L!OneOfTarget'
  <2>1. \A j \in L!Ids : page'[j] = IF j = i THEN r ELSE page[j]
    BY <1>1, <1>3
  <2>2. L!IdentitiesMade'
    BY <1>2, <1>3, <2>1 DEF L!IInv, L!IdentitiesMade
  <2>3. ASSUME r.state = "THERE" /\ page[i].state # "THERE" /\ listing.query.unique
                   => L!About(r.target) = {}
        PROVE  L!OneOfTarget'
    <3> SUFFICES ASSUME listing.query.unique, NEW j \in L!Ids, NEW k \in L!Ids,
                        page'[j].state = "THERE", page'[k].state = "THERE",
                        page'[j].target = page'[k].target, j # k
                 PROVE  FALSE
      BY <1>2 DEF L!OneOfTarget, L!There
    <3>1. \A x, y \in L!Ids : page[x].state = "THERE" /\ page[y].state = "THERE"
              /\ page[x].target = page[y].target => x = y
      BY DEF L!IInv, L!OneOfTarget, L!There
    <3>2. j = i \/ k = i
      BY <2>1, <3>1
    <3>3. page[i].state # "THERE" /\ r.state = "THERE"
      BY <1>3, <2>1, <3>1, <3>2
    <3>4. L!About(r.target) = {}
      BY <2>3, <3>3
    <3> QED BY <2>1, <3>2, <3>4 DEF L!About, L!There
  <2> QED BY <2>2, <2>3
<1>4. CASE L!Publish(i)
  <2>1. PICK s, r : /\ s = IF listing.query.unique /\ L!About(page[i].target) # {}
                             THEN "GONE" ELSE "THERE"
                    /\ r = [page[i] EXCEPT !.state = s]
    OBVIOUS
  <2>2. r \in Row /\ r.state = s /\ s \in {"GONE", "THERE"} /\ r.target = page[i].target
    BY <1>1, <2>1 DEF Row
  <2>3. page' = [page EXCEPT ![i] = r] /\ page[i].state = "CLAIMED" /\ UNCHANGED reader
    BY <1>4, <2>1 DEF L!Publish
  <2>4. i \notin reader.due
    BY <2>3 DEF L!IInv, L!DueIsAhead, L!Visible, L!There
  <2>5. PICK gone : gone = {}
    OBVIOUS
  <2>6. L!IdentitiesMade' /\ L!OneOfTarget'
    BY <1>3, <2>1, <2>2, <2>3
  <2>7. /\ gone \in SUBSET {i} /\ reader' = [reader EXCEPT !.due = @ \ gone]
        /\ i \notin reader.due \ gone
    BY <1>1, <2>3, <2>4, <2>5
  <2> QED BY <1>1, <1>2, <2>2, <2>3, <2>6, <2>7, RowChanges
<1>5. CASE L!RemoveRow(i) \/ L!Move(i) \/ L!LoseSubject(i)
  <2>1. page[i].state = "THERE" /\ reader' = [reader EXCEPT !.due = @ \ {i}]
    BY <1>5 DEF L!RemoveRow, L!Move, L!LoseSubject, L!There, L!Changed
  <2>2. \E r \in Row : /\ page' = [page EXCEPT ![i] = r] /\ r.state # "FREE"
                       /\ r.target = page[i].target
    <3>1. CASE L!RemoveRow(i)
      <4>1. PICK r : r = [page[i] EXCEPT !.state = "GONE"]
        OBVIOUS
      <4>2. r \in Row /\ r.state = "GONE" /\ r.target = page[i].target
        BY <1>1, <4>1 DEF Row
      <4>3. page' = [page EXCEPT ![i] = r]
        BY <3>1, <4>1 DEF L!RemoveRow
      <4> QED BY <4>2, <4>3
    <3>2. CASE L!Move(i)
      <4>1. PICK r : r = [page[i] EXCEPT !.matches = ~@]
        OBVIOUS
      <4>2. r \in Row /\ r.state = "THERE" /\ r.target = page[i].target
        BY <1>1, <2>1, <4>1 DEF Row
      <4>3. page' = [page EXCEPT ![i] = r]
        BY <3>2, <4>1 DEF L!Move
      <4> QED BY <4>2, <4>3
    <3>3. CASE L!LoseSubject(i)
      <4>1. PICK r : r = [page[i] EXCEPT !.subject = FALSE]
        OBVIOUS
      <4>2. r \in Row /\ r.state = "THERE" /\ r.target = page[i].target
        BY <1>1, <2>1, <4>1 DEF Row
      <4>3. page' = [page EXCEPT ![i] = r]
        BY <3>3, <4>1 DEF L!LoseSubject
      <4> QED BY <4>2, <4>3
    <3> QED BY <1>5, <3>1, <3>2, <3>3
  <2>3. PICK r \in Row : /\ page' = [page EXCEPT ![i] = r] /\ r.state # "FREE"
                         /\ r.target = page[i].target
    BY <2>2
  <2>4. L!IdentitiesMade' /\ L!OneOfTarget'
    BY <1>3, <2>1, <2>3
  <2> QED BY <1>1, <1>2, <2>1, <2>3, <2>4, RowChanges
<1> QED BY <1>4, <1>5 DEF L!RowStep

-----------------------------------------------------------------------------
\* The reader

ReaderDoc == [stage : {"IDLE", "ASK", "JOIN", "DONE"}, cursor : 0..MaxRows,
              ids : SUBSET L!Ids, next : 0..MaxRows, seen : SUBSET L!Ids, due : SUBSET L!Ids]

\* What is said of the rows does not depend on the reader.
LEMMA RowsStand ==
    ASSUME L!IInv, UNCHANGED <<listing, page, made, standing>>, reader' \in ReaderDoc
    PROVE  /\ L!TypeOK' /\ L!IdentitiesMade' /\ L!OneOfTarget'
           /\ \A c, j : /\ L!Behind(c, j)' <=> L!Behind(c, j)
                        /\ L!UpTo(c, j)' <=> L!UpTo(c, j)
                        /\ L!Before(c, j)' <=> L!Before(c, j)
           /\ \A j : L!Visible(j)' <=> L!Visible(j)
  BY DEF L!IInv, L!TypeOK, L!IdentitiesMade, L!OneOfTarget, L!Behind, L!UpTo, L!Before,
       L!Visible, L!There,
         ReaderDoc

LEMMA OpenKeeps == ASSUME L!PagesAssumption, L!IInv, L!Open \/ L!Leave PROVE L!IInv'
<1>1. PICK seeing : seeing = {i \in L!Ids : L!Visible(i)}
  OBVIOUS
<1>2. \E due \in SUBSET L!Ids, stage \in {"IDLE", "ASK"} :
         /\ \A i \in due : L!Visible(i)
         /\ reader' = [stage |-> stage, cursor |-> 0, ids |-> {}, next |-> 0, seen |-> {},
                       due |-> due]
  <2>1. CASE L!Open
    <3>1. reader' = [stage |-> "ASK", cursor |-> 0, ids |-> {}, next |-> 0, seen |-> {},
                     due |-> seeing]
      BY <1>1, <2>1 DEF L!Open, L!Idle
    <3>2. seeing \in SUBSET L!Ids /\ \A i \in seeing : L!Visible(i)
      BY <1>1
    <3> QED BY <3>1, <3>2
  <2>2. CASE L!Leave
    BY <2>2 DEF L!Leave, L!Idle
  <2> QED BY <2>1, <2>2
<1>3. PICK due \in SUBSET L!Ids, stage \in {"IDLE", "ASK"} :
         /\ \A i \in due : L!Visible(i)
         /\ reader' = [stage |-> stage, cursor |-> 0, ids |-> {}, next |-> 0, seen |-> {},
                       due |-> due]
  BY <1>2
<1>4. UNCHANGED <<listing, page, made, standing>> /\ reader' \in ReaderDoc
  BY <1>3 DEF L!Open, L!Leave, ReaderDoc, L!PagesAssumption
<1>5. L!PageFits' /\ L!SeenUpToCursor' /\ L!PagesCoverWhatStays'
  BY <1>3 DEF L!PageFits, L!SeenUpToCursor, L!PagesCoverWhatStays
<1>6. L!DueIsAhead'
  BY <1>3, <1>4, RowsStand DEF L!DueIsAhead, L!Behind
<1> QED BY <1>4, <1>5, <1>6, RowsStand DEF L!IInv

LEMMA FetchKeeps == ASSUME L!PagesAssumption, L!IInv, L!Fetch PROVE L!IInv'
<1>1. PICK rows, found : rows = L!Rows(reader.cursor) /\ found = L!CursorPage(L!First(Limit + 1, rows))
  OBVIOUS
<1>2. /\ reader \in ReaderDoc /\ reader.stage = "ASK" /\ reader.ids = {} /\ reader.next = 0
      /\ UNCHANGED <<listing, page, made, standing>>
      /\ reader' = [reader EXCEPT !.stage = "JOIN", !.ids = found.ids, !.next = found.next]
  BY <1>1 DEF L!IInv, L!TypeOK, ReaderDoc, L!PageFits, L!Fetch, L!Fetched
<1>3. rows \in SUBSET L!Ids /\ \A i \in L!Ids : i \in rows <=> L!There(i) /\ page[i].matches
                                                             /\ L!Behind(reader.cursor, i)
  BY <1>1 DEF L!Rows, L!Behind
<1>4. /\ found.ids \subseteq rows /\ found.next \in 0..MaxRows
      /\ found.next = 0 => found.ids = rows
      /\ found.next # 0 => /\ found.next \in found.ids
                           /\ \A i \in found.ids : L!UpTo(found.next, i)
                           /\ \A i \in rows : i \in found.ids \/ L!Before(found.next, i)
  BY <1>1, <1>3, PageOfRows
<1>5. /\ reader'.stage = "JOIN" /\ reader'.cursor = reader.cursor
      /\ reader'.ids = found.ids /\ reader'.next = found.next
      /\ reader'.seen = reader.seen /\ reader'.due = reader.due /\ reader' \in ReaderDoc
  BY <1>2, <1>3, <1>4 DEF ReaderDoc
<1>6. L!PageFits'
  <2>1. \A i \in found.ids : page[i].state # "FREE" /\ L!Behind(reader.cursor, i)
    BY <1>3, <1>4 DEF L!There
  <2> QED BY <1>2, <1>4, <1>5, <2>1, RowsStand DEF L!PageFits
<1>7. L!SeenUpToCursor'
  BY <1>2, <1>5, RowsStand DEF L!IInv, L!SeenUpToCursor
<1>8. L!DueIsAhead'
  <2> SUFFICES ASSUME NEW i \in reader.due
               PROVE  /\ L!Visible(i)
                      /\ \/ i \in reader.seen \cup found.ids
                         \/ found.next # 0 /\ L!Before(found.next, i)
    BY <1>2, <1>5, RowsStand DEF L!DueIsAhead
  <2>1. i \in L!Ids /\ L!Visible(i) /\ (i \in reader.seen \/ L!Behind(reader.cursor, i))
    BY <1>2 DEF L!IInv, L!DueIsAhead, ReaderDoc
  <2>2. i \in reader.seen \/ i \in rows
    BY <1>3, <2>1 DEF L!Visible
  <2> QED BY <1>4, <2>1, <2>2
<1>9. \A i \in reader.seen, j \in found.ids : L!Before(i, j)
  <2> SUFFICES ASSUME NEW i \in reader.seen, NEW j \in found.ids PROVE L!Before(i, j)
    OBVIOUS
  <2>1. /\ i \in L!Ids /\ j \in L!Ids /\ reader.cursor # 0
        /\ (i = reader.cursor \/ L!Before(i, reader.cursor))
    BY <1>2, <1>3, <1>4 DEF L!IInv, L!SeenUpToCursor, L!UpTo, ReaderDoc
  <2>2. L!Before(reader.cursor, j) /\ reader.cursor \in L!Ids
    BY <1>2, <1>3, <1>4, <2>1 DEF L!Behind, ReaderDoc, L!Ids, L!PagesAssumption
  <2> QED BY <2>1, <2>2, BeforeOrders
<1>10. listing.query.unique => \A i, j \in found.ids : page[i].target = page[j].target => i = j
  BY <1>3, <1>4 DEF L!IInv, L!OneOfTarget
<1>11. L!PagesCoverWhatStays'
  BY <1>2, <1>5, <1>9, <1>10, RowsStand DEF L!PagesCoverWhatStays
<1> QED BY <1>2, <1>5, <1>6, <1>7, <1>8, <1>11, RowsStand DEF L!IInv

LEMMA PageAnswerKeeps == ASSUME L!PagesAssumption, L!IInv, L!Answer PROVE L!IInv'
<1>1. PICK kept, stage : /\ kept = {i \in reader.ids : listing.joined => page[i].subject}
                         /\ stage = IF reader.next = 0 THEN "DONE" ELSE "ASK"
  OBVIOUS
<1>2. /\ reader \in ReaderDoc /\ reader.stage = "JOIN"
      /\ UNCHANGED <<listing, page, made, standing>>
      /\ reader' = [reader EXCEPT !.seen = @ \cup kept, !.ids = {}, !.next = 0,
                                  !.cursor = reader.next, !.stage = stage]
  BY <1>1 DEF L!IInv, L!TypeOK, ReaderDoc, L!Answer
<1>3. kept \subseteq reader.ids /\ kept \in SUBSET L!Ids
  BY <1>1, <1>2 DEF ReaderDoc
<1>4. /\ reader'.stage = stage /\ reader'.cursor = reader.next
      /\ reader'.ids = {} /\ reader'.next = 0
      /\ reader'.seen = reader.seen \cup kept /\ reader'.due = reader.due
      /\ reader' \in ReaderDoc
  <2>1. reader' = [stage |-> stage, cursor |-> reader.next, ids |-> {}, next |-> 0,
                   seen |-> reader.seen \cup kept, due |-> reader.due]
    BY <1>2 DEF ReaderDoc
  <2>2. /\ stage \in {"IDLE", "ASK", "JOIN", "DONE"} /\ reader.next \in 0..MaxRows
        /\ reader.seen \cup kept \in SUBSET L!Ids /\ reader.due \in SUBSET L!Ids
        /\ 0 \in 0..MaxRows
    BY <1>1, <1>2, <1>3 DEF ReaderDoc, L!PagesAssumption
  <2> QED BY <2>1, <2>2 DEF ReaderDoc
<1>5. L!PageFits'
  BY <1>4 DEF L!PageFits
<1>6. \A i \in reader.due : /\ L!Visible(i)
                            /\ \/ i \in reader.seen \cup kept
                               \/ reader.next # 0 /\ L!Before(reader.next, i)
  <2> SUFFICES ASSUME NEW i \in reader.due
               PROVE  /\ L!Visible(i)
                      /\ \/ i \in reader.seen \cup kept
                         \/ reader.next # 0 /\ L!Before(reader.next, i)
    OBVIOUS
  <2>1. /\ L!Visible(i)
        /\ \/ i \in reader.seen \cup reader.ids
           \/ reader.next # 0 /\ L!Before(reader.next, i)
    BY <1>2 DEF L!IInv, L!DueIsAhead
  <2>2. i \in reader.ids => i \in kept
    BY <1>1, <2>1 DEF L!Visible
  <2> QED BY <2>1, <2>2
<1>7. reader.next # 0 => \A i \in reader.seen \cup kept : L!UpTo(reader.next, i)
  <2> SUFFICES ASSUME reader.next # 0, NEW i \in reader.seen PROVE L!UpTo(reader.next, i)
    BY <1>3 DEF L!IInv, L!PageFits
  <2>1. reader.next \in reader.ids
    BY DEF L!IInv, L!PageFits
  <2> QED BY <2>1 DEF L!IInv, L!PagesCoverWhatStays, L!UpTo
<1>8. L!SeenUpToCursor'
  BY <1>1, <1>2, <1>4, <1>7, RowsStand DEF L!SeenUpToCursor
<1>9. L!DueIsAhead'
  BY <1>1, <1>2, <1>4, <1>6, RowsStand DEF L!DueIsAhead, L!Behind
<1>10. L!PagesCoverWhatStays'
  BY <1>1, <1>4, <1>6 DEF L!PagesCoverWhatStays
<1> QED BY <1>2, <1>4, <1>5, <1>8, <1>9, <1>10, RowsStand DEF L!IInv

LEMMA PagesNext == ASSUME L!PagesAssumption, L!IInv, [L!Next]_(L!pageVars) PROVE L!IInv'
<1>1. CASE UNCHANGED L!pageVars
  <2>1. /\ UNCHANGED <<listing, page, made, standing>> /\ UNCHANGED reader
        /\ reader' \in ReaderDoc
    BY <1>1 DEF L!pageVars, L!IInv, L!TypeOK, ReaderDoc
  <2> QED BY <2>1, RowsStand DEF L!IInv, L!PageFits, L!SeenUpToCursor, L!DueIsAhead,
                                 L!PagesCoverWhatStays
<1>2. CASE L!LoseStanding
  <2>1. /\ UNCHANGED <<listing, page, made, reader>> /\ standing' \in BOOLEAN
    BY <1>2 DEF L!LoseStanding
  <2> QED BY <2>1 DEF L!IInv, L!TypeOK, L!IdentitiesMade, L!OneOfTarget, L!PageFits,
       L!SeenUpToCursor,
                      L!DueIsAhead, L!PagesCoverWhatStays, L!There, L!Visible, L!Behind, L!UpTo, L!Before
<1> QED BY <1>1, <1>2, ClaimKeeps, RowStepKeeps, OpenKeeps, FetchKeeps, PageAnswerKeeps
     DEF L!Next

\* However rows are made, removed and changed under a reader, and whenever it asks
\* for the next page: what is due to it is seen, on its page or behind its cursor.
THEOREM PagesInvariant == ASSUME L!PagesAssumption PROVE L!Spec => []L!IInv
<1> QED BY PagesInit, PagesNext, PTL DEF L!Spec

LEMMA PagesMove == MCSpec => L!Spec
<1>1. MCInit => L!Init
  BY DEF MCInit
<1>2. [MCNext]_vars => [L!Next]_(L!pageVars)
  BY DEF MCNext, vars, pageVars, L!pageVars
<1> QED BY <1>1, <1>2, PTL DEF MCSpec, L!Spec

LEMMA PagesHold == MCSpec => []L!IInv
<1>1. L!PagesAssumption
  BY ConstantsFit
<1> QED BY <1>1, PagesInvariant, PagesMove, PTL

\* Who reads to the last page has seen each row that was there all the while and
\* has not changed, in order and once.
THEOREM PagesCover == MCSpec => []PagesCoverWhatStays
<1>1. L!IInv => PagesCoverWhatStays
  BY DEF L!IInv, PagesCoverWhatStays
<1> QED BY <1>1, PagesHold, PTL

-----------------------------------------------------------------------------
\* Records

\* The operators of sets are those of the library in the instance too.
LEMMA RecordsSets ==
    \A S : R!Cardinality(S) = Cardinality(S) /\ R!IsFiniteSet(S) = IsFiniteSet(S)
  BY DEF R!Cardinality, Cardinality, R!IsFiniteSet, IsFiniteSet

\* The instants of a bucket are those of its month.
LEMMA BucketIsMonth ==
    ASSUME R!RecordsAssumption, NEW t \in Nat, NEW m \in Int
    PROVE  R!MonthOf(t) \in Int
           /\ (R!MonthOf(t) = m <=> R!Bucket(m).from <= t /\ t < R!Bucket(m).to)
<1>1. PICK n, d, q : n = t + Offset /\ d = MonthLength /\ q = n \div d
  OBVIOUS
<1>2. n \in Nat /\ d \in Nat /\ d > 0 /\ q \in Int
  BY <1>1 DEF R!RecordsAssumption
<1>3. d * q <= n /\ n < d * q + d
  BY <1>1, <1>2
<1>4. ASSUME m < q PROVE d * m + d <= d * q
  <2>1. q - m >= 1 /\ q - m \in Int
    BY <1>2, <1>4
  <2>2. d * (q - m) >= d
    BY <1>2, <2>1
  <2> QED BY <1>2, <2>2
<1>5. ASSUME m > q PROVE d * q + d <= d * m
  <2>1. m - q >= 1 /\ m - q \in Int
    BY <1>2, <1>5
  <2>2. d * (m - q) >= d
    BY <1>2, <2>1
  <2> QED BY <1>2, <2>2
<1>6. d * m \in Int /\ d * q \in Int
  BY <1>2
<1>7. q = m => d * m <= n /\ n < d * m + d
  BY <1>3
<1>11. m < q \/ m > q => ~(d * m <= n /\ n < d * m + d)
  <2>1. PICK x, y : x = d * m /\ y = d * q
    OBVIOUS
  <2>2. CASE m < q
    BY <1>2, <1>3, <1>4, <1>6, <2>1, <2>2
  <2>3. CASE m > q
    BY <1>2, <1>3, <1>5, <1>6, <2>1, <2>3
  <2> QED BY <2>2, <2>3
<1>12. m < q \/ m = q \/ m > q
  BY <1>2
<1>9. Offset \in Int
  BY DEF R!RecordsAssumption
<1>8. R!Bucket(m).from = d * m - Offset /\ R!Bucket(m).to = d * m + d - Offset
  <2>1. m * d = d * m /\ (m + 1) * d = d * m + d
    BY <1>2
  <2>2. R!Bucket(m).from = m * d - Offset /\ R!Bucket(m).to = (m + 1) * d - Offset
    BY <1>1 DEF R!Bucket
  <2> QED BY <1>2, <1>6, <1>9, <2>1, <2>2
<1>10. R!MonthOf(t) = q
  BY <1>1 DEF R!MonthOf
<1> QED BY <1>1, <1>2, <1>6, <1>7, <1>8, <1>9, <1>10, <1>11, <1>12

\* The months of the trend are a run of months, each with its number.
LEMMA TrendMonths ==
    ASSUME R!RecordsAssumption, R!TypeOK, NEW i \in 1..Trend
    PROVE  /\ R!MonthOf(now) \in Int
           /\ R!MonthOf(now) - Trend + i \in Int
           /\ R!MonthlyBuckets(now, Trend)[i] = R!Bucket(R!MonthOf(now) - Trend + i)
           /\ R!MonthlyBuckets(now, Trend)[i].month = R!MonthOf(now) - Trend + i
<1>1. now \in Nat /\ Trend \in Int /\ i \in Int
  BY DEF R!RecordsAssumption, R!TypeOK
<1>2. R!MonthOf(now) \in Int
  BY <1>1, BucketIsMonth
<1>3. R!MonthlyBuckets(now, Trend)[i] = R!Bucket(R!MonthOf(now) - Trend + i)
  BY DEF R!MonthlyBuckets
<1> QED BY <1>1, <1>2, <1>3 DEF R!Bucket

\* A month shows the adoptions last written in it.
LEMMA ShownOfMonth ==
    ASSUME R!RecordsAssumption, R!TypeOK, NEW i \in 1..Trend
    PROVE  R!Shown(i) = {a \in R!WithStatus("APPROVED") :
                         R!MonthOf(application[a].updatedAt) = R!MonthOf(now) - Trend + i}
<1> DEFINE m == R!MonthOf(now) - Trend + i
<1>1. m \in Int /\ R!MonthlyBuckets(now, Trend)[i] = R!Bucket(m)
  BY TrendMonths
<1>2. \A a \in R!WithStatus("APPROVED") : application[a].updatedAt \in Nat
  BY DEF R!WithStatus, R!TypeOK, R!RecordsAssumption
<1> HIDE DEF m
<1>3. \A a \in R!WithStatus("APPROVED") :
        R!MonthOf(application[a].updatedAt) = m
          <=> application[a].updatedAt >= R!Bucket(m).from /\ application[a].updatedAt < R!Bucket(m).to
  <2>1. R!Bucket(m).from \in Int
    BY <1>1 DEF R!Bucket, R!RecordsAssumption
  <2> QED BY <1>1, <1>2, <2>1, BucketIsMonth
<1>4. R!Shown(i) = R!Between("APPROVED", R!Bucket(m).from, R!Bucket(m).to)
  BY <1>1 DEF R!Shown
<1>5. R!Shown(i) = {a \in R!WithStatus("APPROVED") : R!MonthOf(application[a].updatedAt) = m}
  BY <1>3, <1>4 DEF R!Between
<1> QED BY <1>5 DEF m

\* The invariant gives the property.
LEMMA InvariantGivesAdoptions ==
    ASSUME R!RecordsAssumption, R!IInv
    PROVE  R!AdoptionsByMonthUnlessErased
<1> USE DEF R!IInv
<1>1. ASSUME \A u \in Adopters : account[u] # "ERASED" PROVE R!AdoptionsByMonth
  <2>1. ASSUME NEW i \in 1..Trend
        PROVE  R!Shown(i) = R!DecidedIn(R!MonthlyBuckets(now, Trend)[i].month)
    <3>1. \A a \in R!WithStatus("APPROVED") : application[a].updatedAt = decided[a]
      BY <1>1 DEF R!LastWriteDecided
    <3>2. R!MonthlyBuckets(now, Trend)[i].month = R!MonthOf(now) - Trend + i
      BY TrendMonths
    <3> QED BY <3>1, <3>2, ShownOfMonth DEF R!DecidedIn
  <2> QED BY <2>1 DEF R!AdoptionsByMonth, R!MonthlyAdoptions
<1>2. ASSUME NEW i \in 1..Trend, NEW j \in 1..Trend, i # j
      PROVE  R!Shown(i) \cap R!Shown(j) = {}
  <2>1. R!MonthOf(now) - Trend + i # R!MonthOf(now) - Trend + j
    BY <1>2, TrendMonths DEF R!RecordsAssumption
  <2> QED BY <2>1, ShownOfMonth
<1>3. ASSUME NEW i \in 1..Trend, NEW a \in R!Shown(i)
      PROVE  \E u \in Adopters : a \in R!Of(u, "APPROVED")
  <2>1. a \in R!WithStatus("APPROVED")
    BY ShownOfMonth
  <2>2. a \in Applications /\ application[a].status = "APPROVED"
    BY <2>1 DEF R!WithStatus
  <2> QED BY <2>1, <2>2 DEF R!Of, R!ApplicantsKnown
<1> QED BY <1>1, <1>2, <1>3 DEF R!AdoptionsByMonthUnlessErased

\* Never more wait than there are.
LEMMA PendingBounded ==
    ASSUME R!RecordsAssumption
    PROVE  R!PendingApplications <= Cardinality(Applications)
BY FS_Subset, RecordsSets DEF R!RecordsAssumption, R!PendingApplications, R!WithStatus

RecordStatuses == {"ABSENT", "PENDING", "APPROVED", "REJECTED", "RETURNED"}

RecordDoc == [status : RecordStatuses, applicant : Adopters \cup {None}, answers : BOOLEAN,
              updatedAt : 0..MaxTime]

\* A shape without the count.
RecordShape ==
    /\ now \in 0..MaxTime
    /\ application \in [Applications -> RecordDoc]
    /\ account \in [Adopters -> {"ACTIVE", "WITHDRAWN", "ERASED"}]
    /\ decided \in [Applications -> 0..MaxTime]

\* The count adds nothing.
LEMMA ShapeSuffices ==
    R!RecordsAssumption => (R!TypeOK <=> RecordShape)
BY PendingBounded, RecordsSets DEF R!TypeOK, RecordShape, RecordDoc, RecordStatuses

\* The same of the next state.
LEMMA ShapeSufficesNext ==
    R!RecordsAssumption => (R!TypeOK' <=> RecordShape')
<1>1. R!RecordsAssumption => R!PendingApplications' <= Cardinality(Applications)
  BY FS_Subset, RecordsSets DEF R!RecordsAssumption, R!PendingApplications, R!WithStatus
<1> QED BY <1>1, RecordsSets DEF R!TypeOK, RecordShape, RecordDoc, RecordStatuses

\* Nothing is written in the beginning.
LEMMA RecordsInit ==
    ASSUME R!RecordsAssumption, R!Init
    PROVE  R!IInv
<1>1. R!NoApplication \in RecordDoc
  BY DEF R!NoApplication, RecordDoc, RecordStatuses, R!RecordsAssumption
<1>2. RecordShape
  BY <1>1 DEF RecordShape, R!Init, R!RecordsAssumption
<1>3. R!ApplicantsKnown /\ R!LastWriteDecided
  BY DEF R!Init, R!NoApplication, R!ApplicantsKnown, R!LastWriteDecided, R!WithStatus
<1> QED BY <1>2, <1>3, ShapeSuffices DEF R!IInv

\* Any write of one application that stamps it: the invariant stays when the
\* new document names an adopter and an approval is dated now.
LEMMA StampKeeps ==
    ASSUME R!RecordsAssumption, R!IInv, NEW a \in Applications, NEW d \in RecordDoc,
           R!Write(a, d),
           d.status # "ABSENT" => d.applicant \in Adopters,
           decided' = IF d.status = "APPROVED" THEN [decided EXCEPT ![a] = now] ELSE decided
    PROVE  R!IInv'
<1> DEFINE e == [status |-> d.status, applicant |-> d.applicant, answers |-> d.answers,
                 updatedAt |-> now]
<1>1. R!Stamped(d) = e
  BY DEF R!Stamped, RecordDoc
<1>2. application' = [application EXCEPT ![a] = e] /\ now' = now /\ account' = account
  BY <1>1 DEF R!Write
<1>3. RecordShape
  BY ShapeSuffices DEF R!IInv
<1>4. e \in RecordDoc
  BY <1>3 DEF RecordDoc, RecordShape
<1>5. e.status = d.status /\ e.applicant = d.applicant /\ e.updatedAt = now
  OBVIOUS
<1> HIDE DEF e
<1>6. RecordShape'
  BY <1>2, <1>3, <1>4 DEF RecordShape
<1>7. \A x \in Applications : application'[x] = IF x = a THEN e ELSE application[x]
  BY <1>2, <1>3 DEF RecordShape
<1>8. R!ApplicantsKnown'
  BY <1>5, <1>7 DEF R!IInv, R!ApplicantsKnown
<1>9. R!LastWriteDecided'
  <2>1. \A x \in Applications : x # a => decided'[x] = decided[x]
    BY <1>3 DEF RecordShape
  <2>2. d.status = "APPROVED" => decided'[a] = now
    BY <1>3 DEF RecordShape
  <2> QED BY <1>2, <1>5, <1>7, <2>1, <2>2 DEF R!IInv, R!LastWriteDecided, R!WithStatus
<1> QED BY <1>6, <1>8, <1>9, ShapeSufficesNext DEF R!IInv

\* A document with another status.
LEMMA DocWith ==
    ASSUME NEW d \in RecordDoc, NEW s \in RecordStatuses
    PROVE  /\ [d EXCEPT !.status = s] \in RecordDoc
           /\ [d EXCEPT !.status = s].status = s
           /\ [d EXCEPT !.status = s].applicant = d.applicant
BY DEF RecordDoc

\* A document blanked and stamped.
LEMMA DocBlanked ==
    ASSUME NEW d \in RecordDoc, now \in 0..MaxTime
    PROVE  /\ R!Stamped([d EXCEPT !.answers = FALSE]) \in RecordDoc
           /\ R!Stamped([d EXCEPT !.answers = FALSE]).status = d.status
           /\ R!Stamped([d EXCEPT !.answers = FALSE]).applicant = d.applicant
BY DEF R!Stamped, RecordDoc

\* Erasing a member stamps applications, and from then on the months are not
\* compared with the decisions.
LEMMA EraseAnswersKeeps ==
    ASSUME R!RecordsAssumption, R!IInv, NEW u \in Adopters, R!EraseAnswers(u)
    PROVE  R!IInv'
<1>1. RecordShape
  BY ShapeSuffices DEF R!IInv
<1>2. account' \in [Adopters -> {"ACTIVE", "WITHDRAWN", "ERASED"}] /\ account'[u] = "ERASED"
  BY <1>1 DEF RecordShape, R!EraseAnswers
<1>3. \A a \in Applications :
        /\ application'[a] \in RecordDoc
        /\ application'[a].status = application[a].status
        /\ application'[a].applicant = application[a].applicant
  <2> TAKE a \in Applications
  <2>1. application[a] \in RecordDoc
    BY <1>1 DEF RecordShape
  <2>2. application'[a] = IF application[a].applicant = u
                            THEN R!Stamped([application[a] EXCEPT !.answers = FALSE])
                            ELSE application[a]
    BY DEF R!EraseAnswers
  <2> QED BY <1>1, <2>1, <2>2, DocBlanked DEF RecordShape
<1>4. application' \in [Applications -> RecordDoc]
  <2>1. application' = [a \in Applications |-> application'[a]]
    BY DEF R!EraseAnswers
  <2> QED BY <1>3, <2>1
<1>5. RecordShape'
  BY <1>1, <1>2, <1>4 DEF RecordShape, R!EraseAnswers
<1> QED BY <1>2, <1>3, <1>5, ShapeSufficesNext
        DEF R!IInv, R!ApplicantsKnown, R!LastWriteDecided

\* A write by name.
LEMMA RecordSteps ==
    ASSUME R!RecordsAssumption, R!IInv, NEW a \in Applications, NEW u \in Adopters,
           R!Submit(a, u) \/ R!Convert(a, u) \/ R!Approve(a) \/ R!Reject(a) \/ R!Return(a)
    PROVE  R!IInv'
<1>1. application[a] \in RecordDoc
  BY ShapeSuffices DEF R!IInv, RecordShape
<1>0. "PENDING" \in RecordStatuses /\ "APPROVED" \in RecordStatuses
  BY DEF RecordStatuses
<1>2. application[a].status # "ABSENT" => application[a].applicant \in Adopters
  BY DEF R!IInv, R!ApplicantsKnown
<1>3. CASE R!Submit(a, u)
  <2> DEFINE d == [application[a] EXCEPT !.status = "PENDING", !.applicant = u, !.answers = TRUE]
  <2>2. d \in RecordDoc /\ d.status = "PENDING" /\ d.applicant = u
    BY <1>1, <1>0 DEF RecordDoc
  <2>3. R!Write(a, d) /\ decided' = decided
    BY <1>3 DEF R!Submit
  <2> HIDE DEF d
  <2> QED BY <2>2, <2>3, StampKeeps
<1>4. CASE R!Convert(a, u)
  <2> DEFINE d == [application[a] EXCEPT !.status = "APPROVED", !.applicant = u]
  <2>2. d \in RecordDoc /\ d.status = "APPROVED" /\ d.applicant = u
    BY <1>1, <1>0 DEF RecordDoc
  <2>3. R!Write(a, d) /\ decided' = [decided EXCEPT ![a] = now]
    BY <1>4 DEF R!Convert
  <2> HIDE DEF d
  <2> QED BY <2>2, <2>3, StampKeeps
<1>5. ASSUME NEW s \in RecordStatuses, application[a].status # "ABSENT",
             R!Write(a, [application[a] EXCEPT !.status = s]),
             decided' = IF s = "APPROVED" THEN [decided EXCEPT ![a] = now] ELSE decided
      PROVE  R!IInv'
  <2> DEFINE d == [application[a] EXCEPT !.status = s]
  <2>1. d \in RecordDoc /\ d.status = s /\ d.applicant = application[a].applicant
    BY <1>1, DocWith
  <2>2. R!Write(a, d)
    BY <1>5
  <2> HIDE DEF d
  <2> QED BY <1>2, <1>5, <2>1, <2>2, StampKeeps
<1>6. CASE R!Approve(a)
  BY <1>5, <1>6 DEF R!Approve, RecordStatuses
<1>7. CASE R!Reject(a)
  BY <1>5, <1>7 DEF R!Reject, RecordStatuses
<1>8. CASE R!Return(a)
  BY <1>5, <1>8 DEF R!Return, RecordStatuses
<1> QED BY <1>3, <1>4, <1>6, <1>7, <1>8

\* Every step keeps the invariant.
LEMMA RecordsNext ==
    ASSUME R!RecordsAssumption, R!IInv, [R!Next]_(R!recordVars)
    PROVE  R!IInv'
<1>1. RecordShape
  BY ShapeSuffices DEF R!IInv
<1>2. CASE UNCHANGED R!recordVars
  BY <1>1, <1>2, ShapeSufficesNext
  DEF R!recordVars, R!IInv, RecordShape, R!ApplicantsKnown, R!LastWriteDecided, R!WithStatus
<1>3. ASSUME NEW a \in Applications, NEW u \in Adopters, R!Submit(a, u) \/ R!Convert(a, u)
      PROVE  R!IInv'
  BY <1>3, RecordSteps
<1>4. ASSUME NEW a \in Applications, R!Approve(a) \/ R!Reject(a) \/ R!Return(a)
      PROVE  R!IInv'
  <2>1. application[a].applicant \in Adopters
    BY <1>4 DEF R!IInv, R!ApplicantsKnown, R!Approve, R!Reject, R!Return
  <2> QED BY <1>4, <2>1, RecordSteps
<1>5. ASSUME NEW u \in Adopters, R!Withdraw(u)
      PROVE  R!IInv'
  <2>1. account' = [account EXCEPT ![u] = "WITHDRAWN"]
        /\ UNCHANGED <<now, application, decided>> /\ account[u] = "ACTIVE"
    BY <1>5 DEF R!Withdraw
  <2>2. RecordShape'
    BY <1>1, <2>1 DEF RecordShape
  <2>3. \A x \in Adopters : account'[x] # "ERASED" => account[x] # "ERASED"
    BY <1>1, <2>1 DEF RecordShape
  <2> QED BY <2>1, <2>2, <2>3, ShapeSufficesNext
          DEF R!IInv, R!ApplicantsKnown, R!LastWriteDecided, R!WithStatus
<1>6. ASSUME NEW u \in Adopters, R!EraseAnswers(u)
      PROVE  R!IInv'
  BY <1>6, EraseAnswersKeeps
<1>7. CASE R!Tick
  <2>1. RecordShape'
    BY <1>1, <1>7 DEF RecordShape, R!Tick, R!RecordsAssumption
  <2> QED BY <1>7, <2>1, ShapeSufficesNext
          DEF R!Tick, R!IInv, R!ApplicantsKnown, R!LastWriteDecided, R!WithStatus
<1> QED BY <1>2, <1>3, <1>4, <1>5, <1>6, <1>7 DEF R!Next

\* Whatever the applications, the clock and the months: the shapes, the adopter
\* every application names, and the date of a standing adoption.
THEOREM RecordsInvariant == ASSUME R!RecordsAssumption PROVE R!Spec => []R!IInv
<1> QED BY RecordsInit, RecordsNext, PTL DEF R!Spec

LEMMA RecordsMove == MCSpec => R!Spec
<1>1. MCInit => R!Init
  BY DEF MCInit
<1>2. [MCNext]_vars => [R!Next]_(R!recordVars)
  BY DEF MCNext, vars, recordVars, R!recordVars
<1> QED BY <1>1, <1>2, PTL DEF MCSpec, R!Spec

LEMMA RecordsHold == MCSpec => []R!IInv
<1>1. R!RecordsAssumption
  BY ConstantsFit
<1> QED BY <1>1, RecordsInvariant, RecordsMove, PTL

\* Until an adopter is erased each month of the trend shows the adoptions decided
\* in it that still stand, and no adoption is shown in two.
THEOREM AdoptionsByMonths == MCSpec => []AdoptionsByMonthUnlessErased
<1>1. R!RecordsAssumption /\ R!IInv => AdoptionsByMonthUnlessErased
  BY InvariantGivesAdoptions DEF AdoptionsByMonthUnlessErased
<1>2. R!RecordsAssumption
  BY ConstantsFit
<1> QED BY <1>1, <1>2, RecordsHold, PTL
=============================================================================
