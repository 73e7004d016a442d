--------------------------- MODULE MembershipProofs ---------------------------
(***************************************************************************)
(* Proofs about Membership, for any number of members, shelters, approval  *)
(* requests and concurrent use-cases.                                      *)
(***************************************************************************)
EXTENDS MembershipInv, FiniteSetTheorems, TLAPS

\* An idle request knows nothing, so all is well with it.
LEMMA IdleReady == IdleTxn \in Txn /\ Ready(IdleTxn)
  BY MembershipAssumption
     DEF IdleTxn, Txn, UserDoc, ShelterDoc, RequestDoc, UserStatus, NewUserDoc,
         NoShelterDoc, NoRequestDoc, Ready, Current, UserCopy, ShelterCopy,
         RequestCopy, Prepared, AccountOps

\* The initial state: no shelter, no request, nobody has a grant.
LEMMA InitIInv == Init => IInv
<1> SUFFICES ASSUME Init PROVE IInv
  OBVIOUS
<1>1. TypeOK
  BY IdleReady DEF Init, TypeOK, UserDoc, ShelterDoc, RequestDoc, UserStatus, NewUserDoc,
                   NoShelterDoc, NoRequestDoc
<1>2. RequestsFormed
  BY DEF Init, RequestsFormed, RequestFormed
<1>3. OneVerification /\ ShelterAsked /\ OneAdministrator
  BY DEF Init, OneVerification, ShelterAsked, OneAdministrator, IsVerification,
         NoRequestDoc, NoShelterDoc, NewUserDoc
<1>4. Numbered
  <2>1. 0 \in 0..MaxRequests /\ \A r \in Requests : request[r].status # "ABSENT" <=> r <= 0
    BY MembershipAssumption DEF Init, Requests, NoRequestDoc
  <2> QED BY <2>1 DEF Numbered
<1>5. StaffAccounted
  <2> SUFFICES ASSUME NEW u \in Users, NEW s \in Shelters
               PROVE  Cardinality(Promotions(u, s))
                        = removed[u][s] + (IF s \in user[u].staff THEN 1 ELSE 0)
    BY DEF StaffAccounted
  <2>1. Promotions(u, s) = {}
    BY DEF Init, Promotions, NoRequestDoc
  <2> QED BY <2>1, FS_EmptySet DEF Init, NewUserDoc
<1>6. DecisionsTold
  BY DEF Init, DecisionsTold, RowTypes, NoRequestDoc
<1>7. Copies
  BY IdleReady DEF Init, Copies
<1> QED BY <1>1, <1>2, <1>3, <1>4, <1>5, <1>6, <1>7 DEF IInv, Documents

-----------------------------------------------------------------------------
\* Steps that only move a request forward

\* If only request w changes, to a t that is well-typed, current and prepared,
\* the invariant is preserved.
LEMMA OneTxnStep ==
    ASSUME IInv, UNCHANGED <<user, shelter, request, rows, removed>>,
           NEW w \in Workers, NEW t \in Txn, txn' = [txn EXCEPT ![w] = t], Ready(t)
    PROVE  IInv'
<1>1. TypeOK'
  BY DEF IInv, TypeOK
<1>2. RequestsFormed' /\ OneVerification' /\ ShelterAsked' /\ Numbered' /\ OneAdministrator'
  BY DEF IInv, Documents, RequestsFormed, RequestFormed, OneVerification, ShelterAsked,
         Numbered, OneAdministrator, IsVerification
<1>3. StaffAccounted' /\ DecisionsTold'
  BY DEF IInv, Documents, StaffAccounted, DecisionsTold, Promotions
<1>4. \A x \in Workers : txn'[x] = IF x = w THEN t ELSE txn[x]
  BY DEF IInv, TypeOK
<1>5. Copies'
  BY <1>4 DEF IInv, Copies, Ready, Current, UserCopy, ShelterCopy, RequestCopy, Prepared,
              UserFresh, ShelterFresh, RequestFresh
<1> QED BY <1>1, <1>2, <1>3, <1>5 DEF IInv, Documents

\* What w holds.
LEMMA Held ==
    ASSUME IInv, NEW w \in Workers
    PROVE  txn[w] \in Txn /\ Current(txn[w]) /\ Prepared(txn[w])
  BY DEF IInv, TypeOK, Copies, Ready

\* A request that is not absent is one of the two types, of a shelter and of
\* the member who is granted something when it is approved.
LEMMA RequestNames ==
    ASSUME IInv, NEW r \in Requests, request[r].status # "ABSENT"
    PROVE  /\ request[r] \in RequestDoc
           /\ request[r].type \in ApprovalType
           /\ request[r].shelter \in Shelters
           /\ Grantee(request[r]) \in Users
<1>1. request[r] \in RequestDoc
  BY DEF IInv, TypeOK
<1>2. RequestFormed(r) /\ request[r] # NoRequestDoc
  BY DEF IInv, Documents, RequestsFormed, NoRequestDoc
<1> QED BY <1>1, <1>2 DEF RequestFormed, ApprovalType, Grantee

\* Taking up a request keeps the invariant.
LEMMA BeginKeeps ==
    ASSUME IInv, NEW w \in Workers, BeginStep(w)
    PROVE  IInv'
<1> USE MembershipAssumption
<1>1. ASSUME NEW a \in Users, NEW s \in Shelters, BeginEdit(w, a, s)
      PROVE  IInv'
  <2> DEFINE t == [IdleTxn EXCEPT !.op = "EDIT", !.step = "shelter", !.shelter = s]
  <2>1. t \in Txn
    BY IdleReady DEF Txn
  <2>2. Ready(t)
    BY IdleReady DEF IdleTxn, Ready, Current, UserCopy, ShelterCopy, RequestCopy, Prepared,
                     AccountOps
  <2> QED BY <1>1, <2>1, <2>2, OneTxnStep DEF BeginEdit, Begin
<1>2. ASSUME NEW a \in Users, NEW s \in Shelters, BeginPromotion(w, a, s)
      PROVE  IInv'
  <2> DEFINE t == [IdleTxn EXCEPT !.op = "PROMOTE", !.step = "user", !.shelter = s]
  <2>1. t \in Txn
    BY IdleReady DEF Txn
  <2>2. Ready(t)
    BY IdleReady DEF IdleTxn, Ready, Current, UserCopy, ShelterCopy, RequestCopy, Prepared,
                     AccountOps
  <2> QED BY <1>2, <2>1, <2>2, OneTxnStep DEF BeginPromotion, Begin
<1>3. ASSUME NEW a \in Users, NEW s \in Shelters, BeginRemoval(w, a, s)
      PROVE  IInv'
  <2> DEFINE t == [IdleTxn EXCEPT !.op = "REMOVE", !.step = "user", !.shelter = s]
  <2>1. t \in Txn
    BY IdleReady DEF Txn
  <2>2. Ready(t)
    BY IdleReady DEF IdleTxn, Ready, Current, UserCopy, ShelterCopy, RequestCopy, Prepared,
                     AccountOps
  <2> QED BY <1>3, <2>1, <2>2, OneTxnStep DEF BeginRemoval, Begin
<1>4. ASSUME NEW r \in Requests, NEW a \in Users, NEW approve \in BOOLEAN,
             BeginDecide(w, r, a, approve)
      PROVE  IInv'
  <2> DEFINE t == [IdleTxn EXCEPT !.op = "DECIDE", !.step = "actor", !.actor = a,
                                  !.approve = approve, !.request = r,
                                  !.seenRequest = request[r]]
  <2>1. t \in Txn
    BY IdleReady DEF Txn, IInv, TypeOK
  <2>2. Ready(t)
    BY <1>4, IdleReady
       DEF BeginDecide, IdleTxn, Ready, Current, UserCopy, ShelterCopy, RequestCopy,
           RequestFresh, Prepared, AccountOps
  <2> QED BY <1>4, <2>1, <2>2, OneTxnStep DEF BeginDecide, Begin
<1>5. ASSUME NEW op \in AccountOps, NEW u \in Users, user[u].status = StatusBefore(op),
             op = "SANCTION" => u \notin Operators,
             Begin(w, [IdleTxn EXCEPT !.op = op, !.step = "commit", !.user = u,
                                      !.seenUser = user[u]])
      PROVE  IInv'
  <2> DEFINE t == [IdleTxn EXCEPT !.op = op, !.step = "commit", !.user = u,
                                  !.seenUser = user[u]]
  <2>1. t \in Txn
    BY IdleReady DEF Txn, IInv, TypeOK, AccountOps
  <2>2. Ready(t)
    BY <1>5, IdleReady
       DEF IdleTxn, Ready, Current, UserCopy, UserFresh, ShelterCopy, RequestCopy,
           Prepared, AccountOps
  <2> QED BY <1>5, <2>1, <2>2, OneTxnStep DEF Begin
<1>6. ASSUME NEW a \in Users, NEW u \in Users,
             BeginSanction(w, a, u) \/ BeginReinstate(w, a, u)
      PROVE  IInv'
  BY <1>5, <1>6 DEF BeginSanction, BeginReinstate, AccountOps, StatusBefore
<1>7. ASSUME NEW u \in Users, NEW op \in {"WITHDRAW", "RENAME"}, BeginOwn(w, op, u)
      PROVE  IInv'
  BY <1>5, <1>7 DEF BeginOwn, AccountOps, StatusBefore
<1> QED BY <1>1, <1>2, <1>3, <1>4, <1>6, <1>7 DEF BeginStep

\* A read keeps the invariant: the copy it takes is the document as stored.
LEMMA ReadKeeps ==
    ASSUME IInv, NEW w \in Workers, ReadStep(w)
    PROVE  IInv'
<1> USE MembershipAssumption
<1>0. PICK c \in Txn : c = txn[w] /\ Current(c) /\ Prepared(c)
  BY Held
<1>1. ASSUME NEW u \in Users, ReadCandidate(w, u)
      PROVE  IInv'
  <2> DEFINE t == [c EXCEPT !.user = u, !.seenUser = user[u], !.step = "commit"]
  <2>1. t \in Txn
    BY DEF Txn, IInv, TypeOK
  <2>2. Ready(t)
    BY <1>0, <1>1 DEF ReadCandidate, At, Ready, Current, UserCopy, ShelterCopy, RequestCopy,
                      UserFresh, ShelterFresh, RequestFresh, Prepared, AccountOps, Txn
  <2>3. txn' = [txn EXCEPT ![w] = t]
    BY <1>0, <1>1 DEF ReadCandidate, ReadUser, IInv, TypeOK, Txn
  <2> QED BY <1>1, <2>1, <2>2, <2>3, OneTxnStep DEF ReadCandidate, ReadUser
<1>2. ASSUME NEW u \in Users, ReadRemoved(w, u)
      PROVE  IInv'
  <2> DEFINE t == [c EXCEPT !.user = u, !.seenUser = user[u], !.step = "commit"]
  <2>1. t \in Txn
    BY DEF Txn, IInv, TypeOK
  <2>2. Ready(t)
    BY <1>0, <1>2 DEF ReadRemoved, At, Ready, Current, UserCopy, ShelterCopy, RequestCopy,
                      UserFresh, ShelterFresh, RequestFresh, Prepared, AccountOps, Txn
  <2>3. txn' = [txn EXCEPT ![w] = t]
    BY <1>0, <1>2 DEF ReadRemoved, ReadUser, IInv, TypeOK, Txn
  <2> QED BY <1>2, <2>1, <2>2, <2>3, OneTxnStep DEF ReadRemoved, ReadUser
<1>3. ASSUME ReadEdited(w)
      PROVE  IInv'
  <2> DEFINE t == [c EXCEPT !.seenShelter = shelter[c.shelter], !.step = "commit"]
  <2>0. c.shelter \in Shelters /\ shelter[c.shelter].status # "ABSENT" /\ c.op = "EDIT"
    BY <1>0, <1>3 DEF ReadEdited, ReadShelter, At, Prepared
  <2>1. t \in Txn
    BY <2>0 DEF Txn, IInv, TypeOK
  <2>2. Ready(t)
    BY <1>0, <2>0 DEF Ready, Current, UserCopy, ShelterCopy, RequestCopy, NoShelterDoc,
                      UserFresh, ShelterFresh, RequestFresh, Prepared, AccountOps, Txn
  <2>3. txn' = [txn EXCEPT ![w] = t]
    BY <1>0, <1>3 DEF ReadEdited, ReadShelter, IInv, TypeOK, Txn
  <2> QED BY <1>3, <2>1, <2>2, <2>3, OneTxnStep DEF ReadEdited, ReadShelter
<1>4. ASSUME Authorize(w)
      PROVE  IInv'
  <2>0. PICK step \in {"shelter", "user", "commit"} :
           step = IF c.seenRequest.type = "SHELTER_VERIFICATION" THEN "shelter"
                  ELSE IF c.approve THEN "user" ELSE "commit"
    OBVIOUS
  <2> DEFINE t == [c EXCEPT !.actor = NoUser, !.step = step]
  <2>1. t \in Txn
    BY DEF Txn
  <2>2. Ready(t)
    BY <1>0, <1>4, <2>0
       DEF Authorize, At, Ready, Current, UserCopy, ShelterCopy, RequestCopy, Txn,
           UserFresh, ShelterFresh, RequestFresh, Prepared, AccountOps
  <2>3. txn' = [txn EXCEPT ![w] = t]
    BY <1>0, <1>4, <2>0 DEF Authorize, IInv, TypeOK, Txn
  <2> QED BY <1>4, <2>1, <2>2, <2>3, OneTxnStep DEF Authorize
<1>5. ASSUME ReadVerified(w)
      PROVE  IInv'
  <2>0. /\ c.op = "DECIDE" /\ c.step = "shelter"
        /\ c.seenRequest.type = "SHELTER_VERIFICATION"
        /\ c.request \in Requests
        /\ shelter[c.seenRequest.shelter].status = "PENDING_VERIFICATION"
    BY <1>0, <1>5 DEF ReadVerified, At, Prepared
  <2>1. c.seenRequest.shelter \in Shelters
    BY <1>0, <2>0, RequestNames DEF Current, RequestCopy
  <2>2. PICK step \in {"user", "commit"} : step = IF c.approve THEN "user" ELSE "commit"
    OBVIOUS
  <2> DEFINE t == [c EXCEPT !.shelter = c.seenRequest.shelter,
                            !.seenShelter = shelter[c.seenRequest.shelter], !.step = step]
  <2>3. t \in Txn
    BY <2>1 DEF Txn, IInv, TypeOK
  <2>4. Ready(t)
    BY <1>0, <2>0, <2>1, <2>2
       DEF Ready, Current, UserCopy, ShelterCopy, RequestCopy, NoShelterDoc,
           UserFresh, ShelterFresh, RequestFresh, Prepared, AccountOps, Txn
  <2>5. txn' = [txn EXCEPT ![w] = t]
    BY <1>0, <1>5, <2>2 DEF ReadVerified, ReadShelter, IInv, TypeOK, Txn
  <2> QED BY <1>5, <2>3, <2>4, <2>5, OneTxnStep DEF ReadVerified, ReadShelter
<1>6. ASSUME ReadGrantee(w)
      PROVE  IInv'
  <2>0. PICK u : u = Grantee(c.seenRequest)
    OBVIOUS
  <2>1. /\ c.op = "DECIDE" /\ c.step = "user" /\ c.approve
        /\ user[u].status = "ACTIVE"
        /\ c.seenRequest.shelter \notin Grants(c.seenRequest, user[u])
        /\ c.request \in Requests
    BY <1>0, <1>6, <2>0 DEF ReadGrantee, At, Prepared, Grantee, Grants
  <2>2. u \in Users
    BY <1>0, <2>0, <2>1, RequestNames DEF Current, RequestCopy, Grantee
  <2> DEFINE t == [c EXCEPT !.user = u, !.seenUser = user[u], !.step = "commit"]
  <2>3. t \in Txn
    BY <2>2 DEF Txn, IInv, TypeOK
  <2>4. Ready(t)
    BY <1>0, <2>0, <2>1, <2>2
       DEF Ready, Current, UserCopy, ShelterCopy, RequestCopy, Grantee, Grants,
           UserFresh, ShelterFresh, RequestFresh, Prepared, AccountOps, Txn
  <2>5. txn' = [txn EXCEPT ![w] = t]
    BY <1>0, <1>6, <2>0 DEF ReadGrantee, ReadUser, Grantee, IInv, TypeOK, Txn
  <2> QED BY <1>6, <2>3, <2>4, <2>5, OneTxnStep DEF ReadGrantee, ReadUser
<1> QED BY <1>1, <1>2, <1>3, <1>4, <1>5, <1>6 DEF ReadStep

-----------------------------------------------------------------------------
\* Commits: what others hold

\* Two states of one request ask for the same thing.
SameAsked(q, d) ==
    q.type = d.type /\ q.shelter = d.shelter /\ q.subject = d.subject /\ q.requester = d.requester

\* The documents a commit may change: those it saves, and new ones.
Saved(w, docs) ==
    /\ \A u \in Users : user'[u] = user[u] \/ ("user" \in docs /\ u = txn[w].user)
    /\ \A s \in Shelters :
          shelter'[s] = shelter[s] \/ ("shelter" \in docs /\ s = txn[w].shelter)
    /\ \A r \in Requests :
          \/ request'[r] = request[r]
          \/ request[r].status = "ABSENT"
          \/ /\ "request" \in docs
             /\ r = txn[w].request
             /\ SameAsked(request'[r], request[r])
             /\ request'[r].status # "ABSENT"

\* A commit that marks the copies of what it has saved leaves every request
\* ready: a copy it has made stale is one nothing can be saved from.
LEMMA OthersStayReady ==
    ASSUME IInv, NEW w \in Workers, NEW docs \in SUBSET {"user", "shelter", "request"},
           Saved(w, docs), Finish(w, docs)
    PROVE  txn' \in [Workers -> Txn] /\ Copies'
<1>1. txn' \in [Workers -> Txn]
  <2>1. ASSUME NEW x \in Workers PROVE txn'[x] \in Txn
    <3>1. PICK c \in Txn : c = txn[x]
      BY Held
    <3>2. PICK ds \in SUBSET {"user", "shelter", "request"} :
             ds = {d \in docs : Holds(txn[x], d, txn[w])}
      OBVIOUS
    <3>3. [c EXCEPT !.stale = @ \cup ds] \in Txn
      BY DEF Txn
    <3> QED BY <3>1, <3>2, <3>3, IdleReady DEF Finish
  <2> QED BY <2>1 DEF Finish
<1>2. ASSUME NEW x \in Workers
      PROVE  Ready(txn[x])'
  <2>1. PICK c \in Txn : c = txn[x] /\ Current(c) /\ Prepared(c)
    BY Held
  <2>2. PICK t \in Txn : t = txn'[x]
    BY <1>1
  <2>3. CASE t = IdleTxn
    BY <2>2, <2>3, MembershipAssumption
       DEF IdleTxn, Ready, Current, UserCopy, ShelterCopy, RequestCopy, Prepared, AccountOps
  <2>4. CASE t # IdleTxn
    <3>1. t = [c EXCEPT !.stale = @ \cup {d \in docs : Holds(c, d, txn[w])}]
      BY <2>1, <2>2, <2>4 DEF Finish
    <3>2. UserCopy(txn[x])'
      BY <2>1, <2>2, <3>1 DEF Saved, Holds, Current, UserCopy, UserFresh, Txn
    <3>3. ShelterCopy(txn[x])'
      BY <2>1, <2>2, <3>1 DEF Saved, Holds, Current, Prepared, ShelterCopy, ShelterFresh, Txn
    <3>4. RequestCopy(txn[x])'
      <4> SUFFICES ASSUME c.op = "DECIDE"
                   PROVE  RequestCopy(txn[x])'
        BY <2>2, <3>1 DEF RequestCopy, Txn
      <4>1. PICK r \in Requests : r = c.request
        BY <2>1 DEF Prepared
      <4>2. CASE request'[r] = request[r]
        BY <2>1, <2>2, <3>1, <4>1, <4>2 DEF Current, RequestCopy, RequestFresh, Txn
      <4>3. CASE request'[r] # request[r]
        <5>1. request[r].status # "ABSENT"
          BY <2>1, <4>1 DEF Current, RequestCopy
        <5>2. /\ "request" \in docs /\ r = txn[w].request
              /\ SameAsked(request'[r], request[r])
              /\ request'[r].status # "ABSENT"
          BY <4>3, <5>1 DEF Saved
        <5>3. "request" \in t.stale
          BY <3>1, <4>1, <5>2 DEF Holds, Txn
        <5>4. t.request = r /\ t.seenRequest = c.seenRequest
          BY <3>1, <4>1 DEF Txn
        <5>5. /\ t.seenRequest.type = request'[r].type
              /\ t.seenRequest.shelter = request'[r].shelter
              /\ t.seenRequest.subject = request'[r].subject
              /\ t.seenRequest.requester = request'[r].requester
          BY <2>1, <4>1, <5>2, <5>4 DEF Current, RequestCopy, SameAsked
        <5> QED
          BY <2>2, <5>2, <5>3, <5>4, <5>5 DEF RequestCopy, RequestFresh
      <4> QED BY <4>2, <4>3
    <3>5. Prepared(txn[x])'
      BY <2>1, <2>2, <3>1 DEF Prepared, Txn
    <3> QED BY <3>2, <3>3, <3>4, <3>5 DEF Ready, Current
  <2> QED BY <2>3, <2>4
<1> QED BY <1>1, <1>2 DEF Copies

-----------------------------------------------------------------------------
\* Commits: documents

LEMMA DocumentsUntouched ==
    ASSUME Documents, UNCHANGED <<user, shelter, request, rows, removed>>
    PROVE  Documents'
<1>1. RequestsFormed' /\ OneVerification' /\ ShelterAsked' /\ Numbered' /\ OneAdministrator'
  BY DEF Documents, RequestsFormed, RequestFormed, OneVerification, ShelterAsked,
         Numbered, OneAdministrator, IsVerification
<1>2. StaffAccounted' /\ DecisionsTold'
  BY DEF Documents, StaffAccounted, DecisionsTold, Promotions
<1> QED BY <1>1, <1>2 DEF Documents

\* A commit that has saved docs and left the documents in order keeps the invariant.
LEMMA CommitDone ==
    ASSUME IInv, NEW w \in Workers, NEW docs \in SUBSET {"user", "shelter", "request"},
           Saved(w, docs), Finish(w, docs), Documents',
           user' \in [Users -> UserDoc], shelter' \in [Shelters -> ShelterDoc],
           request' \in [Requests -> RequestDoc], rows' \in [Requests -> [RowTypes -> Nat]],
           removed' \in [Users -> [Shelters -> Nat]]
    PROVE  IInv'
<1>1. txn' \in [Workers -> Txn] /\ Copies'
  BY OthersStayReady
<1> QED BY <1>1 DEF IInv, TypeOK

LEMMA PromotionsFinite ==
    ASSUME NEW u, NEW s
    PROVE  IsFiniteSet(Promotions(u, s)) /\ Cardinality(Promotions(u, s)) \in Nat
<1>1. IsFiniteSet(Requests)
  BY MembershipAssumption, FS_Interval DEF Requests
<1>2. Promotions(u, s) \subseteq Requests
  BY DEF Promotions
<1> QED BY <1>1, <1>2, FS_Subset, FS_CardinalityType

\* The rows of one request, against its status.
Trail(q, row) ==
    /\ row["SUBMIT_ACTION"] = IF q.status # "ABSENT" THEN 1 ELSE 0
    /\ row["DECIDE_ACTION"] = IF q.status \in {"APPROVED", "REJECTED"} THEN 1 ELSE 0
    /\ row["APPROVED_EVENT"] = IF q.status = "APPROVED" THEN 1 ELSE 0
    /\ row["DECIDED_NOTICE"] =
          IF \/ q.status = "APPROVED"
             \/ q.status = "REJECTED" /\ q.type = "SHELTER_VERIFICATION" THEN 1 ELSE 0

LEMMA TrailsTold == DecisionsTold <=> \A r \in Requests : Trail(request[r], rows[r])
  BY DEF DecisionsTold, Trail

LEMMA TrailsToldNext ==
    (\A r \in Requests : Trail(request'[r], rows'[r])) => DecisionsTold'
  BY DEF DecisionsTold, Trail

\* Insert adds one row of each type about one request.
LEMMA InsertRows ==
    ASSUME rows \in [Requests -> [RowTypes -> Nat]], NEW r \in Requests, NEW types,
           Insert(r, types)
    PROVE  /\ rows' \in [Requests -> [RowTypes -> Nat]]
           /\ \A q \in Requests : q # r => rows'[q] = rows[q]
           /\ \A t \in RowTypes :
                 rows'[r][t] = IF t \in types THEN rows[r][t] + 1 ELSE rows[r][t]
<1>0. \A t \in RowTypes : rows[r][t] \in Nat
  OBVIOUS
<1>1. PICK row \in [RowTypes -> Nat] :
         row = [t \in RowTypes |-> IF t \in types THEN rows[r][t] + 1 ELSE rows[r][t]]
  <2>1. [t \in RowTypes |-> IF t \in types THEN rows[r][t] + 1 ELSE rows[r][t]]
          \in [RowTypes -> Nat]
    BY <1>0
  <2> QED BY <2>1
<1>2. rows' = [rows EXCEPT ![r] = row]
  BY <1>1 DEF Insert
<1> QED BY <1>1, <1>2

\* The profile of a shelter is data: the save writes its status back.
LEMMA EditKeeps == ASSUME IInv, NEW w \in Workers, CommitEdit(w) PROVE IInv'
<1>1. PICK c \in Txn : c = txn[w] /\ Current(c) /\ Prepared(c)
  BY Held
<1>2. c.shelter \in Shelters /\ c.seenShelter = shelter[c.shelter]
  BY <1>1 DEF CommitEdit, At, SaveShelter, Current, ShelterCopy, Prepared
<1>3. shelter' = shelter
  <2>1. shelter[c.shelter] \in ShelterDoc
    BY <1>2 DEF IInv, TypeOK
  <2>2. [c.seenShelter EXCEPT !.status = c.seenShelter.status] = shelter[c.shelter]
    BY <1>2, <2>1 DEF ShelterDoc
  <2> QED BY <1>1, <1>2, <2>2 DEF CommitEdit, SaveShelter, IInv, TypeOK
<1>4. Saved(w, {"shelter"})
  BY <1>3 DEF CommitEdit, Saved
<1> QED BY <1>3, <1>4, CommitDone, DocumentsUntouched DEF CommitEdit, IInv, TypeOK

\* The save of a member: the copy was the member as stored.
LEMMA UserSaved ==
    ASSUME IInv, NEW w \in Workers, NEW d \in UserDoc, txn[w].user \in Users,
           SaveUser(txn[w], d)
    PROVE  /\ txn[w].seenUser = user[txn[w].user]
           /\ user' \in [Users -> UserDoc]
           /\ user'[txn[w].user] = d
           /\ \A u \in Users : u # txn[w].user => user'[u] = user[u]
<1>1. txn[w].seenUser = user[txn[w].user]
  BY Held, MembershipAssumption DEF SaveUser, Current, UserCopy
<1> QED BY <1>1 DEF SaveUser, IInv, TypeOK

\* Suspending, reinstating, withdrawing and renaming touch no grant.
LEMMA AccountKeeps == ASSUME IInv, NEW w \in Workers, CommitAccount(w) PROVE IInv'
<1>1. PICK c \in Txn : c = txn[w] /\ Current(c) /\ Prepared(c)
  BY Held
<1>2. c.op \in AccountOps /\ c.user \in Users
  BY <1>1 DEF CommitAccount, AccountOps, Prepared
<1>3. StatusAfter(c.op) \in UserStatus
  BY <1>2 DEF StatusAfter, AccountOps, UserStatus
<1>4. PICK d \in UserDoc : d = [c.seenUser EXCEPT !.status = StatusAfter(c.op)]
  BY <1>3 DEF Txn, UserDoc
<1>5. /\ c.seenUser = user[c.user]
      /\ user' \in [Users -> UserDoc]
      /\ user'[c.user] = d
      /\ \A u \in Users : u # c.user => user'[u] = user[u]
  BY <1>1, <1>2, <1>4, UserSaved DEF CommitAccount, Txn
<1>6. \A u \in Users : user'[u].admin = user[u].admin /\ user'[u].staff = user[u].staff
  BY <1>4, <1>5 DEF Txn, UserDoc
<1>7. Documents'
  <2>1. RequestsFormed' /\ OneVerification' /\ ShelterAsked' /\ Numbered' /\ DecisionsTold'
    BY DEF CommitAccount, IInv, Documents, RequestsFormed, RequestFormed, OneVerification,
           ShelterAsked, Numbered, IsVerification, DecisionsTold
  <2>2. OneAdministrator'
    BY <1>6 DEF CommitAccount, IInv, Documents, OneAdministrator
  <2>3. StaffAccounted'
    BY <1>6 DEF CommitAccount, IInv, Documents, StaffAccounted, Promotions
  <2> QED BY <2>1, <2>2, <2>3 DEF Documents
<1>8. Saved(w, {"user"})
  BY <1>1, <1>5 DEF CommitAccount, Saved
<1> QED BY <1>5, <1>7, <1>8, CommitDone DEF CommitAccount, IInv, TypeOK

\* A removal takes one grant away and is counted.
LEMMA RemovalKeeps == ASSUME IInv, NEW w \in Workers, CommitRemoval(w) PROVE IInv'
<1>1. PICK c \in Txn : c = txn[w] /\ Current(c) /\ Prepared(c)
  BY Held
<1>2. PICK u \in Users, s \in Shelters : u = c.user /\ s = c.shelter /\ s \in c.seenUser.staff
  BY <1>1 DEF CommitRemoval, At, Prepared
<1>3. PICK d \in UserDoc : d = [c.seenUser EXCEPT !.staff = @ \ {s}]
  BY DEF Txn, UserDoc
<1>4. /\ c.seenUser = user[u]
      /\ user' \in [Users -> UserDoc]
      /\ user'[u] = d
      /\ \A v \in Users : v # u => user'[v] = user[v]
  BY <1>1, <1>2, <1>3, UserSaved DEF CommitRemoval
<1>5. /\ \A v \in Users : user'[v].admin = user[v].admin
      /\ \A v \in Users : v # u => user'[v].staff = user[v].staff
      /\ user'[u].staff = user[u].staff \ {s}
      /\ s \in user[u].staff
  BY <1>2, <1>3, <1>4 DEF Txn, UserDoc
<1>6. /\ removed' \in [Users -> [Shelters -> Nat]]
      /\ \A v \in Users, z \in Shelters :
            removed'[v][z] = IF v = u /\ z = s THEN removed[v][z] + 1 ELSE removed[v][z]
  BY <1>1, <1>2 DEF CommitRemoval, IInv, TypeOK
<1>7. Documents'
  <2>1. RequestsFormed' /\ OneVerification' /\ ShelterAsked' /\ Numbered' /\ DecisionsTold'
    BY DEF CommitRemoval, IInv, Documents, RequestsFormed, RequestFormed, OneVerification,
           ShelterAsked, Numbered, IsVerification, DecisionsTold
  <2>2. OneAdministrator'
    BY <1>5 DEF CommitRemoval, IInv, Documents, OneAdministrator
  <2>3. StaffAccounted'
    <3> SUFFICES ASSUME NEW v \in Users, NEW z \in Shelters
                 PROVE  Cardinality(Promotions(v, z)')
                          = removed'[v][z] + (IF z \in user'[v].staff THEN 1 ELSE 0)
      BY DEF StaffAccounted
    <3>1. Promotions(v, z)' = Promotions(v, z)
      BY DEF CommitRemoval, Promotions
    <3>2. removed[v][z] \in Nat
      BY DEF IInv, TypeOK
    <3> QED BY <1>5, <1>6, <3>1, <3>2 DEF IInv, Documents, StaffAccounted
  <2> QED BY <2>1, <2>2, <2>3 DEF Documents
<1>8. Saved(w, {"user"})
  BY <1>1, <1>2, <1>4 DEF CommitRemoval, Saved
<1> QED BY <1>4, <1>6, <1>7, <1>8, CommitDone DEF CommitRemoval, IInv, TypeOK

-----------------------------------------------------------------------------
\* Decisions

\* The save of a decided request: it was pending, and only its status changes.
LEMMA RequestDecided ==
    ASSUME IInv, NEW w \in Workers, txn[w].op = "DECIDE",
           NEW st \in {"APPROVED", "REJECTED"}, SaveRequest(txn[w], st),
           NEW r, r = txn[w].request
    PROVE  /\ r \in Requests
           /\ txn[w].seenRequest = request[r]
           /\ request[r].status = "PENDING"
           /\ request' \in [Requests -> RequestDoc]
           /\ request'[r].status = st
           /\ \A q \in Requests :
                 /\ q # r => request'[q] = request[q]
                 /\ SameAsked(request'[q], request[q])
                 /\ request'[q].status = "ABSENT" <=> request[q].status = "ABSENT"
           /\ OneVerification'
           /\ Numbered'
<1>1. PICK c \in Txn : c = txn[w] /\ Current(c) /\ Prepared(c)
  BY Held
<1>2. r \in Requests /\ c.seenRequest = request[r] /\ request[r].status = "PENDING"
  BY <1>1 DEF Prepared, Current, RequestCopy, SaveRequest
<1>3. PICK d \in RequestDoc : d = [request[r] EXCEPT !.status = st]
  BY <1>2 DEF IInv, TypeOK, RequestDoc, ApprovalStatus
<1>4. request' = [request EXCEPT ![r] = d]
  BY <1>1, <1>2, <1>3 DEF SaveRequest
<1>5. request' \in [Requests -> RequestDoc] /\ request'[r] = d
      /\ \A q \in Requests : q # r => request'[q] = request[q]
  BY <1>2, <1>4 DEF IInv, TypeOK
<1>6. /\ d.status = st /\ d.type = request[r].type /\ d.shelter = request[r].shelter
      /\ d.subject = request[r].subject /\ d.requester = request[r].requester
  BY <1>2, <1>3 DEF IInv, TypeOK, RequestDoc
<1>7. ASSUME NEW q \in Requests
      PROVE  /\ SameAsked(request'[q], request[q])
             /\ request'[q].status = "ABSENT" <=> request[q].status = "ABSENT"
  <2>1. CASE q = r
    BY <1>2, <1>3, <1>5, <1>6, <2>1 DEF SameAsked
  <2>2. CASE q # r
    BY <1>5, <2>2 DEF SameAsked
  <2> QED BY <2>1, <2>2
<1>8. OneVerification'
  <2>1. \A q \in Requests : request'[q].type = request[q].type
                             /\ request'[q].shelter = request[q].shelter
    BY <1>7 DEF SameAsked
  <2> QED BY <2>1 DEF IInv, Documents, OneVerification, IsVerification
<1>9. Numbered'
  <2>1. \A q \in Requests : request'[q].status = "ABSENT" <=> request[q].status = "ABSENT"
    BY <1>7
  <2> QED BY <2>1 DEF IInv, Documents, Numbered
<1> QED BY <1>1, <1>2, <1>5, <1>6, <1>7, <1>8, <1>9

\* Members promoted, or not: who is asked for and the requests still approved.
LEMMA PromotionsKept ==
    ASSUME NEW r \in Requests,
           \A q \in Requests : q # r => request'[q] = request[q],
           request[r].type # "STAFF_PROMOTION" \/ request[r].status # "APPROVED",
           request'[r].type # "STAFF_PROMOTION" \/ request'[r].status # "APPROVED",
           NEW u, NEW s
    PROVE  Promotions(u, s)' = Promotions(u, s)
  BY DEF Promotions

\* The approval of a promotion adds one approved request and one grant.
LEMMA PromoteKeeps == ASSUME IInv, NEW w \in Workers, CommitPromote(w) PROVE IInv'
<1>1. PICK c \in Txn : c = txn[w] /\ Current(c) /\ Prepared(c)
  BY Held
<1>2. PICK r : r = c.request
  OBVIOUS
<1>3. c.op = "DECIDE" /\ c.step = "commit" /\ c.approve
      /\ c.seenRequest.type = "STAFF_PROMOTION"
  BY <1>1 DEF CommitPromote, At
<1>4. /\ r \in Requests
      /\ c.seenRequest = request[r]
      /\ request[r].status = "PENDING"
      /\ request' \in [Requests -> RequestDoc]
      /\ request'[r].status = "APPROVED"
      /\ \A q \in Requests :
            /\ q # r => request'[q] = request[q]
            /\ SameAsked(request'[q], request[q])
            /\ request'[q].status = "ABSENT" <=> request[q].status = "ABSENT"
      /\ OneVerification'
      /\ Numbered'
  BY <1>1, <1>2, <1>3, RequestDecided DEF CommitPromote
<1>5. PICK u \in Users, s \in Shelters : u = c.user /\ u = request[r].subject
                                         /\ s = request[r].shelter
  BY <1>1, <1>3, <1>4, RequestNames DEF Prepared, Grantee
<1>6. s \notin c.seenUser.staff
  BY <1>1, <1>3, <1>4, <1>5 DEF Prepared, Grants
<1>7. PICK d \in UserDoc : d = [c.seenUser EXCEPT !.staff = @ \cup {s}]
  BY DEF Txn, UserDoc
<1>8. /\ c.seenUser = user[u]
      /\ user' \in [Users -> UserDoc]
      /\ user'[u] = d
      /\ \A v \in Users : v # u => user'[v] = user[v]
  <2>1. SaveUser(txn[w], d) /\ txn[w].user = u
    BY <1>1, <1>4, <1>5, <1>7 DEF CommitPromote
  <2> QED BY <1>1, <2>1, UserSaved
<1>9. /\ \A v \in Users : user'[v].admin = user[v].admin
      /\ \A v \in Users : v # u => user'[v].staff = user[v].staff
      /\ user'[u].staff = user[u].staff \cup {s}
      /\ s \notin user[u].staff
  BY <1>6, <1>7, <1>8 DEF Txn, UserDoc
<1>10. shelter' = shelter /\ removed' = removed
  BY DEF CommitPromote
<1>11. /\ rows' \in [Requests -> [RowTypes -> Nat]]
       /\ \A q \in Requests : q # r => rows'[q] = rows[q]
       /\ \A t \in RowTypes :
             rows'[r][t] = IF t \in {"DECIDE_ACTION", "APPROVED_EVENT", "DECIDED_NOTICE"}
                             THEN rows[r][t] + 1 ELSE rows[r][t]
  BY <1>1, <1>2, <1>4, InsertRows DEF CommitPromote, IInv, TypeOK
<1>12. Documents'
  <2>1. RequestsFormed'
    <3>1. ASSUME NEW q \in Requests PROVE RequestFormed(q)'
      <4>1. RequestFormed(q)
        BY DEF IInv, Documents, RequestsFormed
      <4>2. CASE q # r
        <5>1. request'[q] = request[q]
          BY <1>4, <4>2
        <5> QED BY <1>10, <4>1, <5>1 DEF RequestFormed
      <4>3. CASE q = r
        <5>1. /\ request'[r].type = "STAFF_PROMOTION" /\ request'[r].status = "APPROVED"
              /\ request'[r].shelter = s /\ request'[r].subject = u
          BY <1>3, <1>4, <1>5 DEF SameAsked
        <5> QED BY <4>3, <5>1 DEF RequestFormed
      <4> QED BY <4>2, <4>3
    <3> QED BY <3>1 DEF RequestsFormed
  <2>2. ShelterAsked'
    BY <1>4, <1>10 DEF IInv, Documents, ShelterAsked, IsVerification, SameAsked
  <2>3. OneAdministrator'
    BY <1>9, <1>10 DEF IInv, Documents, OneAdministrator
  <2>4. StaffAccounted'
    <3> SUFFICES ASSUME NEW v \in Users, NEW z \in Shelters
                 PROVE  Cardinality(Promotions(v, z)')
                          = removed[v][z] + (IF z \in user'[v].staff THEN 1 ELSE 0)
      BY <1>10 DEF StaffAccounted
    <3>1. Cardinality(Promotions(v, z))
             = removed[v][z] + (IF z \in user[v].staff THEN 1 ELSE 0)
      BY DEF IInv, Documents, StaffAccounted
    <3>2. CASE v = u /\ z = s
      <4>1. Promotions(u, s)' = Promotions(u, s) \cup {r} /\ r \notin Promotions(u, s)
        BY <1>3, <1>4, <1>5 DEF Promotions, SameAsked
      <4>2. Cardinality(Promotions(u, s)') = Cardinality(Promotions(u, s)) + 1
        BY <4>1, PromotionsFinite, FS_AddElement
      <4>3. removed[u][s] \in Nat
        BY DEF IInv, TypeOK
      <4> QED BY <1>9, <3>1, <3>2, <4>2, <4>3
    <3>3. CASE ~(v = u /\ z = s)
      <4>1. Promotions(v, z)' = Promotions(v, z)
        BY <1>4, <1>5, <3>3 DEF Promotions, SameAsked
      <4>2. z \in user'[v].staff <=> z \in user[v].staff
        BY <1>9, <3>3
      <4> QED BY <3>1, <4>1, <4>2
    <3> QED BY <3>2, <3>3
  <2>5. DecisionsTold'
    <3>1. ASSUME NEW q \in Requests PROVE Trail(request'[q], rows'[q])
      <4>1. Trail(request[q], rows[q])
        BY TrailsTold DEF IInv, Documents
      <4>2. CASE q # r
        BY <1>4, <1>11, <4>1, <4>2
      <4>3. CASE q = r
        BY <1>4, <1>11, <4>1, <4>3 DEF Trail, RowTypes
      <4> QED BY <4>2, <4>3
    <3> QED BY <3>1, TrailsToldNext
  <2> QED BY <1>4, <2>1, <2>2, <2>3, <2>4, <2>5 DEF Documents
<1>13. Saved(w, {"request", "user"})
  BY <1>1, <1>2, <1>4, <1>5, <1>8, <1>10 DEF Saved
<1> QED BY <1>4, <1>8, <1>10, <1>11, <1>12, <1>13, CommitDone DEF CommitPromote, IInv, TypeOK

\* The saves of a decision on a shelter: it awaited the decision, and the two
\* statuses move together.
LEMMA ShelterDecided ==
    ASSUME IInv, NEW w \in Workers, At(w, "DECIDE", "commit"),
           txn[w].seenRequest.type = "SHELTER_VERIFICATION",
           NEW st \in {"APPROVED", "REJECTED"}, SaveRequest(txn[w], st),
           NEW word, <<st, word>> \in Agree, SaveShelter(txn[w], word),
           NEW r, r = txn[w].request, NEW s, s = txn[w].shelter
    PROVE  /\ s \in Shelters
           /\ request[r].type = "SHELTER_VERIFICATION"
           /\ request[r].shelter = s
           /\ request[r].requester \in Users
           /\ shelter[s].status = "PENDING_VERIFICATION"
           /\ shelter[s].rep = request[r].requester
           /\ shelter' \in [Shelters -> ShelterDoc]
           /\ shelter'[s].status = word
           /\ shelter'[s].rep = shelter[s].rep
           /\ \A z \in Shelters : z # s => shelter'[z] = shelter[z]
           /\ RequestsFormed'
           /\ ShelterAsked'
<1>1. PICK c \in Txn : c = txn[w] /\ Current(c) /\ Prepared(c)
  BY Held
<1>2. /\ r \in Requests /\ c.seenRequest = request[r] /\ request[r].status = "PENDING"
      /\ request'[r].status = st
      /\ \A q \in Requests :
            /\ q # r => request'[q] = request[q]
            /\ request'[q].type = request[q].type
            /\ request'[q].shelter = request[q].shelter
            /\ request'[q].requester = request[q].requester
  BY RequestDecided, <1>1 DEF At, SameAsked
<1>3. request[r].type = "SHELTER_VERIFICATION" /\ request[r].status # "ABSENT"
  BY <1>1, <1>2
<1>4. s = request[r].shelter /\ c.seenShelter.status = "PENDING_VERIFICATION"
  BY <1>1, <1>2, <1>3 DEF Prepared, At
<1>5. s \in Shelters
  BY <1>2, <1>3, <1>4, RequestNames
<1>6. c.seenShelter = shelter[s]
  <2>1. c.seenShelter # NoShelterDoc
    BY <1>4 DEF NoShelterDoc
  <2> QED BY <1>1, <2>1 DEF SaveShelter, Current, ShelterCopy
<1>7. shelter[s].rep = request[r].requester /\ request[r].requester \in Users
  <2>1. RequestFormed(r)
    BY <1>2 DEF IInv, Documents, RequestsFormed
  <2> QED BY <1>3, <1>4, <2>1 DEF RequestFormed, NoRequestDoc
<1>8. PICK d \in ShelterDoc : d = [c.seenShelter EXCEPT !.status = word]
  <2>1. word \in ShelterStatus
    BY DEF Agree, ShelterStatus
  <2> QED BY <2>1 DEF Txn, ShelterDoc
<1>9. d.status = word /\ d.rep = shelter[s].rep
  BY <1>6, <1>8 DEF Txn, ShelterDoc
<1>10. /\ shelter' \in [Shelters -> ShelterDoc]
       /\ shelter'[s] = d
       /\ \A z \in Shelters : z # s => shelter'[z] = shelter[z]
  BY <1>1, <1>5, <1>8 DEF SaveShelter, IInv, TypeOK
<1>11. RequestsFormed'
  <2>1. ASSUME NEW q \in Requests PROVE RequestFormed(q)'
    <3>1. RequestFormed(q)
      BY DEF IInv, Documents, RequestsFormed
    <3>2. CASE q # r
      <4>1. request'[q] = request[q]
        BY <1>2, <3>2
      <4>2. request[q].type = "SHELTER_VERIFICATION" => request[q].shelter # s
        BY <1>2, <1>3, <1>4, <3>2 DEF IInv, Documents, OneVerification, IsVerification
      <4>3. request[q] = NoRequestDoc \/ request[q].shelter \in Shelters
        BY <3>1 DEF RequestFormed
      <4> QED BY <1>10, <3>1, <4>1, <4>2, <4>3 DEF RequestFormed
    <3>3. CASE q = r
      <4>1. /\ request'[r].type = "SHELTER_VERIFICATION" /\ request'[r].status = st
            /\ request'[r].shelter = s /\ request'[r].requester = shelter[s].rep
            /\ request'[r].requester \in Users
        BY <1>2, <1>3, <1>4, <1>7
      <4>2. shelter'[s].rep = shelter[s].rep /\ shelter'[s].status = word
        BY <1>9, <1>10
      <4> QED BY <1>5, <3>3, <4>1, <4>2 DEF RequestFormed
    <3> QED BY <3>2, <3>3
  <2> QED BY <2>1 DEF RequestsFormed
<1>12. ShelterAsked'
  <2>1. ASSUME NEW z \in Shelters, shelter'[z].status # "ABSENT"
        PROVE  \E q \in Requests : request'[q].type = "SHELTER_VERIFICATION"
                                   /\ request'[q].shelter = z
    <3>1. CASE z = s
      BY <1>2, <1>3, <1>4, <3>1
    <3>2. CASE z # s
      <4>1. shelter[z].status # "ABSENT"
        BY <1>10, <2>1, <3>2
      <4> QED BY <1>2, <4>1 DEF IInv, Documents, ShelterAsked, IsVerification
    <3> QED BY <3>1, <3>2
  <2> QED BY <2>1 DEF ShelterAsked, IsVerification
<1> QED BY <1>3, <1>4, <1>5, <1>6, <1>7, <1>9, <1>10, <1>11, <1>12

\* Verification: request, shelter and representative are saved together.
LEMMA VerifyKeeps == ASSUME IInv, NEW w \in Workers, CommitVerify(w) PROVE IInv'
<1>1. PICK c \in Txn : c = txn[w] /\ Current(c) /\ Prepared(c)
  BY Held
<1>2. PICK r, s : r = c.request /\ s = c.shelter
  OBVIOUS
<1>3. At(w, "DECIDE", "commit") /\ c.op = "DECIDE" /\ c.step = "commit" /\ c.approve
      /\ c.seenRequest.type = "SHELTER_VERIFICATION"
  BY <1>1 DEF CommitVerify, At
<1>4. SaveRequest(txn[w], "APPROVED") /\ SaveShelter(txn[w], "VERIFIED")
      /\ <<"APPROVED", "VERIFIED">> \in Agree
  BY DEF CommitVerify, Agree
<1>5. /\ r \in Requests
      /\ c.seenRequest = request[r]
      /\ request[r].status = "PENDING"
      /\ request' \in [Requests -> RequestDoc]
      /\ request'[r].status = "APPROVED"
      /\ request'[r].type = request[r].type
      /\ \A q \in Requests :
            /\ q # r => request'[q] = request[q]
            /\ SameAsked(request'[q], request[q])
            /\ request'[q].status = "ABSENT" <=> request[q].status = "ABSENT"
      /\ OneVerification'
      /\ Numbered'
  BY <1>1, <1>2, <1>3, <1>4, RequestDecided DEF SameAsked
<1>6. /\ s \in Shelters
      /\ request[r].type = "SHELTER_VERIFICATION"
      /\ request[r].shelter = s
      /\ request[r].requester \in Users
      /\ shelter[s].status = "PENDING_VERIFICATION"
      /\ shelter[s].rep = request[r].requester
      /\ shelter' \in [Shelters -> ShelterDoc]
      /\ shelter'[s].status = "VERIFIED"
      /\ shelter'[s].rep = shelter[s].rep
      /\ \A z \in Shelters : z # s => shelter'[z] = shelter[z]
      /\ RequestsFormed'
      /\ ShelterAsked'
  BY <1>1, <1>2, <1>3, <1>4, ShelterDecided
<1>7. PICK u \in Users : u = c.user /\ u = shelter[s].rep
  BY <1>1, <1>3, <1>5, <1>6 DEF Prepared, Grantee
<1>8. PICK d \in UserDoc : d = [c.seenUser EXCEPT !.admin = @ \cup {s}]
  BY <1>6 DEF Txn, UserDoc
<1>9. /\ c.seenUser = user[u]
      /\ user' \in [Users -> UserDoc]
      /\ user'[u] = d
      /\ \A v \in Users : v # u => user'[v] = user[v]
  <2>1. SaveUser(txn[w], d) /\ txn[w].user = u
    BY <1>1, <1>2, <1>7, <1>8 DEF CommitVerify
  <2> QED BY <1>1, <2>1, UserSaved
<1>10. /\ \A v \in Users : user'[v].staff = user[v].staff
       /\ \A v \in Users : v # u => user'[v].admin = user[v].admin
       /\ user'[u].admin = user[u].admin \cup {s}
  BY <1>8, <1>9 DEF Txn, UserDoc
<1>11. /\ rows' \in [Requests -> [RowTypes -> Nat]]
       /\ \A q \in Requests : q # r => rows'[q] = rows[q]
       /\ \A t \in RowTypes :
             rows'[r][t] = IF t \in {"DECIDE_ACTION", "APPROVED_EVENT", "DECIDED_NOTICE"}
                             THEN rows[r][t] + 1 ELSE rows[r][t]
  BY <1>1, <1>2, <1>5, InsertRows DEF CommitVerify, IInv, TypeOK
<1>12. Documents'
  <2>1. OneAdministrator'
    <3>1. ASSUME NEW z \in Shelters, NEW v \in Users
          PROVE  z \in user'[v].admin <=> shelter'[z].status = "VERIFIED" /\ shelter'[z].rep = v
      <4>1. z \in user[v].admin <=> shelter[z].status = "VERIFIED" /\ shelter[z].rep = v
        BY DEF IInv, Documents, OneAdministrator
      <4>2. z \in user'[v].admin <=> z \in user[v].admin \/ (z = s /\ v = u)
        BY <1>10
      <4> QED BY <1>6, <1>7, <4>1, <4>2
    <3> QED BY <3>1 DEF OneAdministrator
  <2>2. StaffAccounted'
    <3>1. \A v, z : Promotions(v, z)' = Promotions(v, z)
      BY <1>5, <1>6, PromotionsKept
    <3> QED BY <1>10, <3>1 DEF CommitVerify, IInv, Documents, StaffAccounted
  <2>3. DecisionsTold'
    <3>1. ASSUME NEW q \in Requests PROVE Trail(request'[q], rows'[q])
      <4>1. Trail(request[q], rows[q])
        BY TrailsTold DEF IInv, Documents
      <4>2. CASE q # r
        BY <1>5, <1>11, <4>1, <4>2
      <4>3. CASE q = r
        BY <1>5, <1>11, <4>1, <4>3 DEF Trail, RowTypes
      <4> QED BY <4>2, <4>3
    <3> QED BY <3>1, TrailsToldNext
  <2> QED BY <1>5, <1>6, <2>1, <2>2, <2>3 DEF Documents
<1>13. Saved(w, {"request", "shelter", "user"})
  BY <1>1, <1>2, <1>5, <1>6, <1>7, <1>9 DEF Saved
<1> QED
  BY <1>5, <1>6, <1>9, <1>11, <1>12, <1>13, CommitDone DEF CommitVerify, IInv, TypeOK

\* A rejection: of a shelter, whose representative becomes nothing, or of a
\* promotion, which changes the request alone.
LEMMA RejectKeeps == ASSUME IInv, NEW w \in Workers, CommitReject(w) PROVE IInv'
<1>1. PICK c \in Txn : c = txn[w] /\ Current(c) /\ Prepared(c)
  BY Held
<1>2. PICK r, s : r = c.request /\ s = c.shelter
  OBVIOUS
<1>3. At(w, "DECIDE", "commit") /\ c.op = "DECIDE" /\ c.step = "commit"
      /\ SaveRequest(txn[w], "REJECTED")
      /\ user' = user /\ removed' = removed
  BY <1>1 DEF CommitReject, At
<1>4. /\ r \in Requests
      /\ c.seenRequest = request[r]
      /\ request[r].status = "PENDING"
      /\ request' \in [Requests -> RequestDoc]
      /\ request'[r].status = "REJECTED"
      /\ request'[r].type = request[r].type
      /\ request'[r].shelter = request[r].shelter
      /\ request'[r].subject = request[r].subject
      /\ \A q \in Requests :
            /\ q # r => request'[q] = request[q]
            /\ SameAsked(request'[q], request[q])
            /\ request'[q].status = "ABSENT" <=> request[q].status = "ABSENT"
      /\ OneVerification'
      /\ Numbered'
  BY <1>1, <1>2, <1>3, RequestDecided DEF SameAsked
<1>5. StaffAccounted'
  <2>1. \A v, z : Promotions(v, z)' = Promotions(v, z)
    BY <1>4, PromotionsKept
  <2> QED BY <1>3, <2>1 DEF IInv, Documents, StaffAccounted
<1>6. CASE request[r].type = "SHELTER_VERIFICATION"
  <2>1. SaveShelter(txn[w], "REJECTED") /\ <<"REJECTED", "REJECTED">> \in Agree
        /\ Insert(r, {"DECIDE_ACTION", "DECIDED_NOTICE"})
    BY <1>1, <1>2, <1>4, <1>6 DEF CommitReject, Agree
  <2>2. /\ s \in Shelters
        /\ shelter[s].status = "PENDING_VERIFICATION"
        /\ shelter' \in [Shelters -> ShelterDoc]
        /\ shelter'[s].status = "REJECTED"
        /\ \A z \in Shelters : z # s => shelter'[z] = shelter[z]
        /\ RequestsFormed'
        /\ ShelterAsked'
    BY <1>1, <1>2, <1>3, <1>4, <1>6, <2>1, ShelterDecided
  <2>3. /\ rows' \in [Requests -> [RowTypes -> Nat]]
        /\ \A q \in Requests : q # r => rows'[q] = rows[q]
        /\ \A t \in RowTypes :
              rows'[r][t] = IF t \in {"DECIDE_ACTION", "DECIDED_NOTICE"}
                              THEN rows[r][t] + 1 ELSE rows[r][t]
    BY <1>4, <2>1, InsertRows DEF IInv, TypeOK
  <2>4. OneAdministrator'
    <3>1. \A z \in Shelters : /\ shelter'[z].status = "VERIFIED" <=> shelter[z].status = "VERIFIED"
                              /\ z # s => shelter'[z].rep = shelter[z].rep
                              /\ z = s => shelter'[z].status # "VERIFIED"
      BY <2>2
    <3> QED BY <1>3, <3>1 DEF IInv, Documents, OneAdministrator
  <2>5. DecisionsTold'
    <3>1. ASSUME NEW q \in Requests PROVE Trail(request'[q], rows'[q])
      <4>1. Trail(request[q], rows[q])
        BY TrailsTold DEF IInv, Documents
      <4>2. CASE q # r
        BY <1>4, <2>3, <4>1, <4>2
      <4>3. CASE q = r
        BY <1>4, <1>6, <2>3, <4>1, <4>3 DEF Trail, RowTypes
      <4> QED BY <4>2, <4>3
    <3> QED BY <3>1, TrailsToldNext
  <2>6. Documents'
    BY <1>4, <1>5, <2>2, <2>4, <2>5 DEF Documents
  <2>7. Saved(w, {"request", "shelter"})
    BY <1>1, <1>2, <1>3, <1>4, <2>2 DEF Saved
  <2> QED BY <1>3, <1>4, <2>2, <2>3, <2>6, <2>7, CommitDone DEF CommitReject, IInv, TypeOK
<1>7. CASE request[r].type # "SHELTER_VERIFICATION"
  <2>1. shelter' = shelter /\ Insert(r, {"DECIDE_ACTION"})
    BY <1>1, <1>2, <1>4, <1>7 DEF CommitReject
  <2>2. /\ rows' \in [Requests -> [RowTypes -> Nat]]
        /\ \A q \in Requests : q # r => rows'[q] = rows[q]
        /\ \A t \in RowTypes :
              rows'[r][t] = IF t \in {"DECIDE_ACTION"} THEN rows[r][t] + 1 ELSE rows[r][t]
    BY <1>4, <2>1, InsertRows DEF IInv, TypeOK
  <2>3. RequestsFormed'
    <3>1. ASSUME NEW q \in Requests PROVE RequestFormed(q)'
      <4>1. RequestFormed(q)
        BY DEF IInv, Documents, RequestsFormed
      <4>2. CASE q # r
        <5>1. request'[q] = request[q]
          BY <1>4, <4>2
        <5> QED BY <2>1, <4>1, <5>1 DEF RequestFormed
      <4>3. CASE q = r
        <5>1. request[r].type = "STAFF_PROMOTION" /\ request[r].shelter \in Shelters
              /\ request[r].subject \in Users
          BY <1>4, <1>7, <4>1, <4>3 DEF RequestFormed, NoRequestDoc
        <5>2. /\ request'[r].type = "STAFF_PROMOTION" /\ request'[r].status = "REJECTED"
              /\ request'[r].shelter \in Shelters /\ request'[r].subject \in Users
          BY <1>4, <5>1
        <5> QED BY <4>3, <5>2 DEF RequestFormed
      <4> QED BY <4>2, <4>3
    <3> QED BY <3>1 DEF RequestsFormed
  <2>4. ShelterAsked'
    <3>1. \A q \in Requests : request'[q].type = request[q].type
                               /\ request'[q].shelter = request[q].shelter
      BY <1>4 DEF SameAsked
    <3> QED BY <2>1, <3>1 DEF IInv, Documents, ShelterAsked, IsVerification
  <2>5. OneAdministrator'
    BY <1>3, <2>1 DEF IInv, Documents, OneAdministrator
  <2>6. DecisionsTold'
    <3>1. ASSUME NEW q \in Requests PROVE Trail(request'[q], rows'[q])
      <4>1. Trail(request[q], rows[q])
        BY TrailsTold DEF IInv, Documents
      <4>2. CASE q # r
        BY <1>4, <2>2, <4>1, <4>2
      <4>3. CASE q = r
        BY <1>4, <1>7, <2>2, <4>1, <4>3 DEF Trail, RowTypes
      <4> QED BY <4>2, <4>3
    <3> QED BY <3>1, TrailsToldNext
  <2>7. Documents'
    BY <1>4, <1>5, <2>3, <2>4, <2>5, <2>6 DEF Documents
  <2>8. Saved(w, {"request", "shelter"})
    BY <1>1, <1>2, <1>3, <1>4, <2>1 DEF Saved
  <2> QED
    BY <1>3, <1>4, <2>1, <2>2, <2>7, <2>8, CommitDone DEF CommitReject, IInv, TypeOK
<1> QED BY <1>6, <1>7

-----------------------------------------------------------------------------
\* Submissions

\* SubmitApproval takes the next number, of which nothing was heard before.
LEMMA Submitted ==
    ASSUME IInv, NEW type \in ApprovalType, NEW s \in Shelters,
           NEW subject \in Users \cup {NoUser}, NEW requester \in Users \cup {NoUser},
           Submit(type, s, subject, requester)
    PROVE  \E r \in Requests :
              /\ request[r] = NoRequestDoc
              /\ request'[r] = [type |-> type, shelter |-> s, subject |-> subject,
                                requester |-> requester, status |-> "PENDING"]
              /\ \A q \in Requests : q # r => request'[q] = request[q]
              /\ request' \in [Requests -> RequestDoc]
              /\ rows' \in [Requests -> [RowTypes -> Nat]]
              /\ Numbered'
              /\ DecisionsTold'
<1>1. PICK n \in 0..MaxRequests : \A q \in Requests : request[q].status # "ABSENT" <=> q <= n
  BY DEF IInv, Documents, Numbered
<1>2. {q \in Requests : request[q].status # "ABSENT"} = 1..n
  BY <1>1, MembershipAssumption DEF Requests
<1>3. Cardinality(1..n) = n
  BY <1>1, FS_Interval
<1>4. PICK r : /\ r = 1 + Cardinality({q \in Requests : request[q].status # "ABSENT"})
               /\ r = 1 + n
  <2>1. Cardinality({q \in Requests : request[q].status # "ABSENT"}) = n
    BY <1>2, <1>3, Zenon
  <2> QED BY <2>1
<1>5. PICK d : d = [type |-> type, shelter |-> s, subject |-> subject,
                    requester |-> requester, status |-> "PENDING"]
  OBVIOUS
<1>6. /\ r = n + 1
      /\ r \in Requests /\ request' = [request EXCEPT ![r] = d] /\ Insert(r, {"SUBMIT_ACTION"})
  <2>1. r = n + 1
    BY <1>1, <1>4
  <2>2. r \in Requests /\ request' = [request EXCEPT ![r] = d] /\ Insert(r, {"SUBMIT_ACTION"})
    BY <1>4, <1>5 DEF Submit
  <2> QED BY <2>1, <2>2
<1>7. request[r].status = "ABSENT"
  BY <1>1, <1>6
<1>8. request[r] = NoRequestDoc
  BY <1>6, <1>7 DEF IInv, Documents, RequestsFormed, RequestFormed
<1>9. d \in RequestDoc
  BY <1>5 DEF RequestDoc, ApprovalStatus
<1>10. /\ request' \in [Requests -> RequestDoc]
       /\ request'[r] = d
       /\ \A q \in Requests : q # r => request'[q] = request[q]
  BY <1>6, <1>9 DEF IInv, TypeOK
<1>11. /\ rows' \in [Requests -> [RowTypes -> Nat]]
       /\ \A q \in Requests : q # r => rows'[q] = rows[q]
       /\ \A t \in RowTypes :
             rows'[r][t] = IF t \in {"SUBMIT_ACTION"} THEN rows[r][t] + 1 ELSE rows[r][t]
  BY <1>6, InsertRows DEF IInv, TypeOK
<1>12. Numbered'
  <2>1. r \in 0..MaxRequests
    BY <1>6, MembershipAssumption DEF Requests
  <2>2. d.status # "ABSENT"
    BY <1>5
  <2>3. ASSUME NEW q \in Requests PROVE request'[q].status # "ABSENT" <=> q <= r
    BY <1>1, <1>6, <1>10, <2>2 DEF Requests
  <2> QED BY <2>1, <2>3 DEF Numbered
<1>13. DecisionsTold'
  <2>1. ASSUME NEW q \in Requests PROVE Trail(request'[q], rows'[q])
    <3>1. Trail(request[q], rows[q])
      BY TrailsTold DEF IInv, Documents
    <3>2. CASE q # r
      BY <1>10, <1>11, <3>1, <3>2
    <3>3. CASE q = r
      BY <1>5, <1>7, <1>10, <1>11, <3>1, <3>3 DEF Trail, RowTypes
    <3> QED BY <3>2, <3>3
  <2> QED BY <2>1, TrailsToldNext
<1> QED BY <1>5, <1>6, <1>8, <1>10, <1>11, <1>12, <1>13

\* A promotion asked for: nothing is saved.
LEMMA PromotionKeeps == ASSUME IInv, NEW w \in Workers, CommitPromotion(w) PROVE IInv'
<1>1. PICK c \in Txn : c = txn[w] /\ Current(c) /\ Prepared(c)
  BY Held
<1>2. c.shelter \in Shelters /\ c.user \in Users
  BY <1>1 DEF CommitPromotion, At, Prepared
<1>3. Submit("STAFF_PROMOTION", c.shelter, c.user, NoUser)
  BY <1>1 DEF CommitPromotion
<1>4. PICK r \in Requests :
         /\ request[r] = NoRequestDoc
         /\ request'[r] = [type |-> "STAFF_PROMOTION", shelter |-> c.shelter,
                           subject |-> c.user, requester |-> NoUser, status |-> "PENDING"]
         /\ \A q \in Requests : q # r => request'[q] = request[q]
         /\ request' \in [Requests -> RequestDoc]
         /\ rows' \in [Requests -> [RowTypes -> Nat]]
         /\ Numbered'
         /\ DecisionsTold'
  BY <1>2, <1>3, Submitted DEF ApprovalType
<1>5. /\ request[r].type = "NONE" /\ request[r].status = "ABSENT"
      /\ request'[r].type = "STAFF_PROMOTION" /\ request'[r].status = "PENDING"
      /\ request'[r].shelter = c.shelter /\ request'[r].subject = c.user
  BY <1>4 DEF NoRequestDoc
<1>6. user' = user /\ shelter' = shelter /\ removed' = removed
  BY DEF CommitPromotion
<1>7. RequestsFormed'
  <2>1. ASSUME NEW q \in Requests PROVE RequestFormed(q)'
    <3>1. CASE q # r
      <4>1. RequestFormed(q) /\ request'[q] = request[q]
        BY <1>4, <3>1 DEF IInv, Documents, RequestsFormed
      <4> QED BY <1>6, <4>1 DEF RequestFormed
    <3>2. CASE q = r
      BY <1>2, <1>5, <3>2 DEF RequestFormed
    <3> QED BY <3>1, <3>2
  <2> QED BY <2>1 DEF RequestsFormed
<1>8. OneVerification' /\ ShelterAsked'
  <2>1. \A q \in Requests : IsVerification(q)' <=> IsVerification(q) /\ q # r
    BY <1>4, <1>5 DEF IsVerification
  <2>2. \A q \in Requests : IsVerification(q) => q # r /\ request'[q] = request[q]
    BY <1>4, <1>5 DEF IsVerification
  <2> QED BY <1>6, <2>1, <2>2 DEF IInv, Documents, OneVerification, ShelterAsked
<1>9. OneAdministrator'
  BY <1>6 DEF IInv, Documents, OneAdministrator
<1>10. StaffAccounted'
  <2>1. \A v, z : Promotions(v, z)' = Promotions(v, z)
    BY <1>4, <1>5, PromotionsKept
  <2> QED BY <1>6, <2>1 DEF IInv, Documents, StaffAccounted
<1>11. Documents'
  BY <1>4, <1>7, <1>8, <1>9, <1>10 DEF Documents
<1>12. Saved(w, {})
  BY <1>4, <1>5, <1>6 DEF Saved
<1> QED BY <1>4, <1>6, <1>11, <1>12, CommitDone DEF CommitPromotion, IInv, TypeOK

\* A shelter registered: it and its verification request are new.
LEMMA RegisterKeeps ==
    ASSUME IInv, NEW u \in Users, NEW s \in Shelters, RegisterShelter(u, s)
    PROVE  IInv'
<1>1. PICK r \in Requests :
         /\ request[r] = NoRequestDoc
         /\ request'[r] = [type |-> "SHELTER_VERIFICATION", shelter |-> s,
                           subject |-> NoUser, requester |-> u, status |-> "PENDING"]
         /\ \A q \in Requests : q # r => request'[q] = request[q]
         /\ request' \in [Requests -> RequestDoc]
         /\ rows' \in [Requests -> [RowTypes -> Nat]]
         /\ Numbered'
         /\ DecisionsTold'
  BY Submitted DEF RegisterShelter, ApprovalType
<1>2. /\ request[r].type = "NONE" /\ request[r].status = "ABSENT"
      /\ request'[r].type = "SHELTER_VERIFICATION" /\ request'[r].status = "PENDING"
      /\ request'[r].shelter = s /\ request'[r].requester = u
  BY <1>1 DEF NoRequestDoc
<1>3. user' = user /\ removed' = removed /\ txn' = txn /\ shelter[s].status = "ABSENT"
  BY DEF RegisterShelter
<1>4. /\ shelter' \in [Shelters -> ShelterDoc]
      /\ shelter'[s] = [status |-> "PENDING_VERIFICATION", rep |-> u]
      /\ \A z \in Shelters : z # s => shelter'[z] = shelter[z]
  <2>1. [status |-> "PENDING_VERIFICATION", rep |-> u] \in ShelterDoc
    BY DEF ShelterDoc, ShelterStatus
  <2> QED BY <2>1 DEF RegisterShelter, IInv, TypeOK
<1>5. shelter'[s].status = "PENDING_VERIFICATION" /\ shelter'[s].rep = u
  BY <1>4
\* No verification request of s can be there: it would agree with its status.
<1>6. \A q \in Requests : IsVerification(q) => request[q].shelter \in Shelters \ {s}
  BY <1>3 DEF IInv, Documents, RequestsFormed, RequestFormed, IsVerification, NoRequestDoc, Agree
<1>7. RequestsFormed'
  <2>1. ASSUME NEW q \in Requests PROVE RequestFormed(q)'
    <3>1. CASE q # r
      <4>1. RequestFormed(q) /\ request'[q] = request[q]
        BY <1>1, <3>1 DEF IInv, Documents, RequestsFormed
      <4>2. request[q].type = "SHELTER_VERIFICATION" =>
               shelter'[request[q].shelter] = shelter[request[q].shelter]
        BY <1>4, <1>6 DEF IsVerification
      <4> QED BY <4>1, <4>2 DEF RequestFormed
    <3>2. CASE q = r
      BY <1>2, <1>5, <3>2 DEF RequestFormed, Agree
    <3> QED BY <3>1, <3>2
  <2> QED BY <2>1 DEF RequestsFormed
<1>8. OneVerification'
  <2>1. ASSUME NEW q1 \in Requests, NEW q2 \in Requests,
               request'[q1].type = "SHELTER_VERIFICATION",
               request'[q2].type = "SHELTER_VERIFICATION",
               request'[q1].shelter = request'[q2].shelter
        PROVE  q1 = q2
    <3>1. CASE q1 # r /\ q2 # r
      BY <1>1, <2>1, <3>1 DEF IInv, Documents, OneVerification, IsVerification
    <3>2. CASE q1 = r \/ q2 = r
      BY <1>1, <1>2, <1>6, <2>1, <3>2 DEF IsVerification
    <3> QED BY <3>1, <3>2
  <2> QED BY <2>1 DEF OneVerification, IsVerification
<1>9. ShelterAsked'
  <2>1. ASSUME NEW z \in Shelters, shelter'[z].status # "ABSENT"
        PROVE  \E q \in Requests : request'[q].type = "SHELTER_VERIFICATION"
                                   /\ request'[q].shelter = z
    <3>1. CASE z = s
      BY <1>2, <3>1
    <3>2. CASE z # s
      <4>1. PICK q \in Requests : IsVerification(q) /\ request[q].shelter = z
        BY <1>4, <2>1, <3>2 DEF IInv, Documents, ShelterAsked
      <4>2. q # r
        BY <1>2, <4>1 DEF IsVerification
      <4> QED BY <1>1, <4>1, <4>2 DEF IsVerification
    <3> QED BY <3>1, <3>2
  <2> QED BY <2>1 DEF ShelterAsked, IsVerification
<1>10. OneAdministrator'
  <2>1. \A z \in Shelters : shelter'[z] = shelter[z]
           \/ (shelter'[z].status # "VERIFIED" /\ shelter[z].status # "VERIFIED")
    BY <1>3, <1>4, <1>5
  <2> QED BY <1>3, <2>1 DEF IInv, Documents, OneAdministrator
<1>11. StaffAccounted'
  <2>1. \A v, z : Promotions(v, z)' = Promotions(v, z)
    BY <1>1, <1>2, PromotionsKept
  <2> QED BY <1>3, <2>1 DEF IInv, Documents, StaffAccounted
<1>12. ASSUME NEW x \in Workers PROVE Ready(txn[x])'
  <2>1. PICK c \in Txn : c = txn[x] /\ Current(c) /\ Prepared(c)
    BY Held
  <2>2. c = txn'[x]
    BY <1>3, <2>1
  <2>3. UserCopy(txn[x])' /\ Prepared(txn[x])'
    BY <1>3, <2>1, <2>2 DEF Current, UserCopy, UserFresh, Prepared
  <2>4. ShelterCopy(txn[x])'
    <3>1. ASSUME c.seenShelter # NoShelterDoc, ShelterFresh(c)
          PROVE  c.seenShelter = shelter'[c.shelter]
      <4>1. c.shelter \in Shelters /\ c.seenShelter = shelter[c.shelter]
            /\ c.seenShelter.status # "ABSENT"
        BY <2>1, <3>1 DEF Current, ShelterCopy, Prepared
      <4> QED BY <1>3, <1>4, <4>1
    <3> QED BY <2>2, <3>1 DEF ShelterCopy, ShelterFresh
  <2>5. RequestCopy(txn[x])'
    <3>1. ASSUME c.op = "DECIDE" PROVE request'[c.request] = request[c.request]
      <4>1. c.request \in Requests /\ request[c.request].status # "ABSENT"
        BY <2>1, <3>1 DEF Current, RequestCopy, Prepared
      <4> QED BY <1>1, <1>2, <4>1
    <3> QED BY <2>1, <2>2, <3>1 DEF Current, RequestCopy, RequestFresh
  <2> QED BY <2>3, <2>4, <2>5 DEF Ready, Current
<1>13. Documents' /\ Copies'
  BY <1>1, <1>7, <1>8, <1>9, <1>10, <1>11, <1>12 DEF Documents, Copies
<1>14. TypeOK'
  BY <1>1, <1>3, <1>4 DEF IInv, TypeOK
<1> QED BY <1>13, <1>14 DEF IInv

-----------------------------------------------------------------------------
\* The invariant and what follows from it

LEMMA StepKeepsIInv == IInv /\ [Next]_vars => IInv'
<1> SUFFICES ASSUME IInv, [Next]_vars PROVE IInv'
  OBVIOUS
<1>1. ASSUME NEW u \in Users, NEW s \in Shelters, RegisterShelter(u, s) PROVE IInv'
  BY <1>1, RegisterKeeps
<1>2. ASSUME NEW w \in Workers, BeginStep(w) PROVE IInv'
  BY <1>2, BeginKeeps
<1>3. ASSUME NEW w \in Workers, ReadStep(w) PROVE IInv'
  BY <1>3, ReadKeeps
<1>4. ASSUME NEW w \in Workers, CommitStep(w) PROVE IInv'
  BY <1>4, EditKeeps, PromotionKeeps, RemovalKeeps, VerifyKeeps, RejectKeeps, PromoteKeeps,
     AccountKeeps DEF CommitStep
<1>5. ASSUME NEW w \in Workers, Abort(w) PROVE IInv'
  BY <1>5, IdleReady, OneTxnStep DEF Abort
<1>6. CASE UNCHANGED vars
  <2>1. Documents'
    BY <1>6, DocumentsUntouched DEF vars, IInv
  <2>2. TypeOK'
    BY <1>6 DEF vars, IInv, TypeOK
  <2>3. Copies'
    BY <1>6 DEF vars, IInv, Copies, Ready, Current, UserCopy, ShelterCopy, RequestCopy,
                UserFresh, ShelterFresh, RequestFresh, Prepared
  <2> QED BY <2>1, <2>2, <2>3 DEF IInv
<1> QED BY <1>1, <1>2, <1>3, <1>4, <1>5, <1>6 DEF Next

\* What the use-cases rely on: copies nobody has saved since are the documents,
\* requests and shelters go together (decide-approval.service.ts and the
\* repositories' version guards).
THEOREM InvariantHolds == Spec => []IInv
<1> QED BY InitIInv, StepKeepsIInv, PTL DEF Spec

\* Documents and transactions keep the code's shape.
THEOREM TypesHold == Spec => []TypeOK
<1>1. IInv => TypeOK
  BY DEF IInv
<1> QED BY <1>1, InvariantHolds, PTL

LEMMA IInvVerified == IInv => VerificationAgrees
<1> SUFFICES ASSUME IInv PROVE VerificationAgrees
  OBVIOUS
<1>1. ASSUME NEW s \in Shelters, shelter[s].status # "ABSENT"
      PROVE  \E r \in Requests :
                /\ request[r].type = "SHELTER_VERIFICATION"
                /\ request[r].shelter = s
                /\ <<request[r].status, shelter[s].status>> \in Agree
  <2>1. PICK r \in Requests : IsVerification(r) /\ request[r].shelter = s
    BY <1>1 DEF IInv, Documents, ShelterAsked
  <2>2. RequestFormed(r)
    BY DEF IInv, Documents, RequestsFormed
  <2> QED BY <2>1, <2>2 DEF IsVerification, RequestFormed, NoRequestDoc
<1> QED BY <1>1 DEF VerificationAgrees, Agree, IInv, Documents, OneAdministrator

\* A shelter, its verification request and its representative's grant agree
\* (shelter-verification.callback.ts): no save of the member or the shelter made
\* meanwhile loses one of them.
THEOREM ShelterAndRequestAgree == Spec => []VerificationAgrees
<1> QED BY IInvVerified, InvariantHolds, PTL

\* Every approved promotion and every removal counts once in the member's grants
\* (staff-promotion.callback.ts, remove-shelter-staff.service.ts).
THEOREM GrantsAreCounted == Spec => []StaffAccounted
<1>1. IInv => StaffAccounted
  BY DEF IInv, Documents
<1> QED BY <1>1, InvariantHolds, PTL

\* Each decision is recorded, announced and notified once, and none that was
\* aborted (decide-approval.service.ts).
THEOREM EachDecisionToldOnce == Spec => []DecisionsTold
<1>1. IInv => DecisionsTold
  BY DEF IInv, Documents
<1> QED BY <1>1, InvariantHolds, PTL

-----------------------------------------------------------------------------
\* What each commit does to members

\* The commits that save a member, each as the change it makes.
LEMMA AccountSaved ==
    ASSUME IInv, NEW w \in Workers, CommitAccount(w)
    PROVE  \E u \in Users, op \in AccountOps :
              /\ op = txn[w].op /\ u = txn[w].user /\ txn'[w] = IdleTxn
              /\ user[u].status = StatusBefore(op)
              /\ op = "SANCTION" => u \notin Operators
              /\ user' = [user EXCEPT ![u] = [user[u] EXCEPT !.status = StatusAfter(op)]]
<1>1. PICK c \in Txn : c = txn[w] /\ Current(c) /\ Prepared(c)
  BY Held
<1>2. c.op \in AccountOps /\ c.user \in Users
  BY <1>1 DEF CommitAccount, AccountOps, Prepared
<1>3. c.seenUser = user[c.user]
  BY <1>1, <1>2, MembershipAssumption DEF CommitAccount, SaveUser, Current, UserCopy
<1>4. user' = [user EXCEPT ![c.user] = [user[c.user] EXCEPT !.status = StatusAfter(c.op)]]
  BY <1>1, <1>3 DEF CommitAccount, SaveUser
<1>5. user[c.user].status = StatusBefore(c.op) /\ (c.op = "SANCTION" => c.user \notin Operators)
  BY <1>1, <1>2, <1>3 DEF Prepared
<1>6. txn'[w] = IdleTxn
  BY DEF CommitAccount, Finish
<1> QED BY <1>1, <1>2, <1>4, <1>5, <1>6

LEMMA RemovalSaved ==
    ASSUME IInv, NEW w \in Workers, CommitRemoval(w)
    PROVE  \E u \in Users, s \in Shelters :
              /\ s \in user[u].staff
              /\ user' = [user EXCEPT ![u] = [user[u] EXCEPT !.staff = user[u].staff \ {s}]]
<1>1. PICK c \in Txn : c = txn[w] /\ Current(c) /\ Prepared(c)
  BY Held
<1>2. c.user \in Users /\ c.shelter \in Shelters /\ c.shelter \in c.seenUser.staff
  BY <1>1 DEF CommitRemoval, At, Prepared
<1>3. c.seenUser = user[c.user]
  BY <1>1, <1>2, MembershipAssumption DEF CommitRemoval, SaveUser, Current, UserCopy
<1>4. user' = [user EXCEPT ![c.user] =
                  [user[c.user] EXCEPT !.staff = user[c.user].staff \ {c.shelter}]]
  BY <1>1, <1>3 DEF CommitRemoval, SaveUser
<1> QED BY <1>2, <1>3, <1>4

LEMMA PromotionSaved ==
    ASSUME IInv, NEW w \in Workers, CommitPromote(w)
    PROVE  \E u \in Users, s \in Shelters :
              /\ user[u].status = "ACTIVE"
              /\ s \notin user[u].staff
              /\ user' = [user EXCEPT ![u] = [user[u] EXCEPT !.staff = user[u].staff \cup {s}]]
<1>1. PICK c \in Txn : c = txn[w] /\ Current(c) /\ Prepared(c)
  BY Held
<1>2. PICK q : q = c.seenRequest
  OBVIOUS
<1>3. c.op = "DECIDE" /\ c.step = "commit" /\ c.approve /\ q.type = "STAFF_PROMOTION"
  BY <1>1, <1>2 DEF CommitPromote, At
<1>4. c.request \in Requests /\ request[c.request] = q /\ request[c.request].status # "ABSENT"
  BY <1>1, <1>2, <1>3 DEF CommitPromote, SaveRequest, Current, RequestCopy, Prepared
<1>5. q.shelter \in Shelters /\ c.user \in Users /\ c.user = Grantee(q)
      /\ c.seenUser.status = "ACTIVE" /\ q.shelter \notin c.seenUser.staff
  BY <1>1, <1>2, <1>3, <1>4, RequestNames DEF Prepared, Grants
<1>6. c.seenUser = user[c.user]
  BY <1>1, <1>5, MembershipAssumption DEF CommitPromote, SaveUser, Current, UserCopy
<1>7. user' = [user EXCEPT ![c.user] =
                  [user[c.user] EXCEPT !.staff = user[c.user].staff \cup {q.shelter}]]
  BY <1>1, <1>2, <1>6 DEF CommitPromote, SaveUser
<1> QED BY <1>5, <1>6, <1>7

LEMMA VerificationSaved ==
    ASSUME IInv, NEW w \in Workers, CommitVerify(w)
    PROVE  \E u \in Users, s \in Shelters :
              /\ user[u].status = "ACTIVE"
              /\ \A v \in Users : s \notin user[v].admin
              /\ user' = [user EXCEPT ![u] = [user[u] EXCEPT !.admin = user[u].admin \cup {s}]]
<1>1. PICK c \in Txn : c = txn[w] /\ Current(c) /\ Prepared(c)
  BY Held
<1>2. PICK q : q = c.seenRequest
  OBVIOUS
<1>3. c.op = "DECIDE" /\ c.step = "commit" /\ c.approve /\ q.type = "SHELTER_VERIFICATION"
  BY <1>1, <1>2 DEF CommitVerify, At
<1>4. c.request \in Requests /\ request[c.request] = q /\ request[c.request].status # "ABSENT"
  BY <1>1, <1>2, <1>3 DEF CommitVerify, SaveRequest, Current, RequestCopy, Prepared
<1>5. q.shelter \in Shelters /\ c.shelter = q.shelter
      /\ c.user \in Users /\ c.seenUser.status = "ACTIVE"
      /\ c.seenShelter.status = "PENDING_VERIFICATION"
  BY <1>1, <1>2, <1>3, <1>4, RequestNames DEF Prepared
<1>6. c.seenUser = user[c.user]
  BY <1>1, <1>5, MembershipAssumption DEF CommitVerify, SaveUser, Current, UserCopy
<1>7. shelter[q.shelter].status = "PENDING_VERIFICATION"
  BY <1>1, <1>5 DEF CommitVerify, SaveShelter, Current, ShelterCopy, NoShelterDoc
<1>8. \A v \in Users : q.shelter \notin user[v].admin
  BY <1>5, <1>7 DEF IInv, Documents, OneAdministrator
<1>9. user' = [user EXCEPT ![c.user] =
                  [user[c.user] EXCEPT !.admin = user[c.user].admin \cup {q.shelter}]]
  BY <1>1, <1>5, <1>6 DEF CommitVerify, SaveUser
<1> QED BY <1>5, <1>6, <1>8, <1>9

\* No other step touches a member.
LEMMA OnlyTheseSave ==
    ASSUME [Next]_vars
    PROVE  \/ user' = user
           \/ \E w \in Workers : \/ CommitAccount(w) \/ CommitRemoval(w)
                                 \/ CommitPromote(w) \/ CommitVerify(w)
<1>1. ASSUME NEW u \in Users, NEW s \in Shelters, RegisterShelter(u, s) PROVE user' = user
  BY <1>1 DEF RegisterShelter
<1>2. ASSUME NEW w \in Workers, BeginStep(w) PROVE user' = user
  BY <1>2 DEF BeginStep, BeginEdit, BeginPromotion, BeginRemoval, BeginDecide, BeginSanction,
              BeginReinstate, BeginOwn, Begin
<1>3. ASSUME NEW w \in Workers, ReadStep(w) PROVE user' = user
  BY <1>3 DEF ReadStep, ReadCandidate, ReadRemoved, ReadEdited, Authorize, ReadVerified,
              ReadGrantee, ReadUser, ReadShelter
<1>4. ASSUME NEW w \in Workers, CommitEdit(w) \/ CommitPromotion(w) \/ CommitReject(w)
      PROVE  user' = user
  BY <1>4 DEF CommitEdit, CommitPromotion, CommitReject
<1>5. ASSUME NEW w \in Workers, Abort(w) PROVE user' = user
  BY <1>5 DEF Abort
<1>6. CASE UNCHANGED vars
  BY <1>6 DEF vars
<1> QED BY <1>1, <1>2, <1>3, <1>4, <1>5, <1>6 DEF Next, CommitStep

\* A suspension ends only by an operator's reinstatement (reinstate-user.service.ts),
\* whatever was read before it and is saved after it.
THEOREM SanctionsStand == Spec => SanctionsHold
<1> DEFINE Holding == \A u \in Users :
              user[u].status = "SUSPENDED" /\ user'[u].status # "SUSPENDED" => Reinstating(u)
<1>1. ASSUME IInv, [Next]_vars PROVE Holding
  <2> SUFFICES ASSUME NEW u \in Users, user[u].status = "SUSPENDED",
                      user'[u].status # "SUSPENDED"
               PROVE  Reinstating(u)
    OBVIOUS
  <2>0. user \in [Users -> UserDoc]
    BY <1>1 DEF IInv, TypeOK
  <2>1. ASSUME NEW w \in Workers, CommitAccount(w) PROVE Reinstating(u)
    <3>1. PICK v \in Users, op \in AccountOps :
             /\ op = txn[w].op /\ v = txn[w].user /\ txn'[w] = IdleTxn
             /\ user[v].status = StatusBefore(op)
             /\ user' = [user EXCEPT ![v] = [user[v] EXCEPT !.status = StatusAfter(op)]]
      BY <1>1, <2>1, AccountSaved
    <3>2. v = u
      BY <2>0, <3>1
    <3>3. op = "REINSTATE"
      BY <3>1, <3>2 DEF StatusBefore
    <3> QED BY <3>1, <3>2, <3>3 DEF Reinstating
  <2>2. ASSUME NEW w \in Workers, CommitRemoval(w) PROVE FALSE
    <3>1. PICK v \in Users, s \in Shelters :
             user' = [user EXCEPT ![v] = [user[v] EXCEPT !.staff = user[v].staff \ {s}]]
      BY <1>1, <2>2, RemovalSaved
    <3> QED BY <2>0, <3>1 DEF UserDoc
  <2>3. ASSUME NEW w \in Workers, CommitPromote(w) PROVE FALSE
    <3>1. PICK v \in Users, s \in Shelters :
             user' = [user EXCEPT ![v] = [user[v] EXCEPT !.staff = user[v].staff \cup {s}]]
      BY <1>1, <2>3, PromotionSaved
    <3> QED BY <2>0, <3>1 DEF UserDoc
  <2>4. ASSUME NEW w \in Workers, CommitVerify(w) PROVE FALSE
    <3>1. PICK v \in Users, s \in Shelters :
             user' = [user EXCEPT ![v] = [user[v] EXCEPT !.admin = user[v].admin \cup {s}]]
      BY <1>1, <2>4, VerificationSaved
    <3> QED BY <2>0, <3>1 DEF UserDoc
  <2> QED BY <1>1, <2>1, <2>2, <2>3, <2>4, OnlyTheseSave
<1>2. IInv /\ [Next]_vars => [Holding]_vars
  BY <1>1
<1> QED BY <1>2, InvariantHolds, PTL DEF Spec, SanctionsHold

\* What the steps look like to Roles: functions of the members.
Statuses == [u \in Users |-> user[u].status]
Admins == [u \in Users |-> user[u].admin]
Staffs == [u \in Users |-> user[u].staff]

LEMMA MemberSave ==
    ASSUME user \in [Users -> UserDoc], NEW u \in Users, NEW d \in UserDoc,
           user' = [user EXCEPT ![u] = d]
    PROVE  /\ Statuses' = [Statuses EXCEPT ![u] = d.status]
           /\ Admins' = [Admins EXCEPT ![u] = d.admin]
           /\ Staffs' = [Staffs EXCEPT ![u] = d.staff]
  BY DEF Statuses, Admins, Staffs

LEMMA NothingMoved ==
    ASSUME Statuses' = Statuses, Admins' = Admins, Staffs' = Staffs
    PROVE  UNCHANGED R!vars
  BY DEF R!vars, Statuses, Admins, Staffs

\* Each step is one of Roles, or none of its variables changes.
LEMMA StepImplementsRoles == IInv /\ [Next]_vars => [R!Next]_(R!vars)
<1> SUFFICES ASSUME IInv, [Next]_vars PROVE R!Next \/ UNCHANGED R!vars
  OBVIOUS
<1>0. user \in [Users -> UserDoc]
  BY DEF IInv, TypeOK
<1>1. CASE user' = user
  BY <1>1, NothingMoved DEF Statuses, Admins, Staffs
<1>2. ASSUME NEW w \in Workers, CommitAccount(w) PROVE R!Next \/ UNCHANGED R!vars
  <2>1. PICK u \in Users, op \in AccountOps :
           /\ user[u].status = StatusBefore(op)
           /\ op = "SANCTION" => u \notin Operators
           /\ user' = [user EXCEPT ![u] = [user[u] EXCEPT !.status = StatusAfter(op)]]
    BY <1>2, AccountSaved
  <2>2. PICK d \in UserDoc : d = [user[u] EXCEPT !.status = StatusAfter(op)]
    <3>1. StatusAfter(op) \in UserStatus
      BY DEF StatusAfter, AccountOps, UserStatus
    <3> QED BY <1>0, <3>1 DEF UserDoc
  <2>3. /\ d.status = StatusAfter(op) /\ d.admin = user[u].admin /\ d.staff = user[u].staff
    BY <1>0, <2>2 DEF UserDoc
  <2>4. /\ Statuses' = [Statuses EXCEPT ![u] = d.status]
        /\ Admins' = [Admins EXCEPT ![u] = d.admin]
        /\ Staffs' = [Staffs EXCEPT ![u] = d.staff]
    BY <1>0, <2>1, <2>2, MemberSave
  <2>5. Admins' = Admins /\ Staffs' = Staffs
    BY <2>3, <2>4 DEF Admins, Staffs
  <2>6. Statuses[u] = StatusBefore(op)
    BY <2>1 DEF Statuses
  <2>7. CASE op = "SANCTION"
    <3>1. R!Suspend(u)
      BY <2>1, <2>3, <2>4, <2>5, <2>6, <2>7
         DEF R!Suspend, R!Move, Statuses, Admins, Staffs, StatusAfter, StatusBefore
    <3> QED BY <3>1 DEF R!Next
  <2>8. CASE op = "REINSTATE"
    <3>1. R!Reinstate(u)
      BY <2>3, <2>4, <2>5, <2>6, <2>8
         DEF R!Reinstate, R!Move, Statuses, Admins, Staffs, StatusAfter, StatusBefore
    <3> QED BY <3>1 DEF R!Next
  <2>9. CASE op = "WITHDRAW"
    <3>1. R!Withdraw(u)
      BY <2>3, <2>4, <2>5, <2>6, <2>9
         DEF R!Withdraw, R!Move, Statuses, Admins, Staffs, StatusAfter, StatusBefore
    <3> QED BY <3>1 DEF R!Next
  <2>10. CASE op = "RENAME"
    <3>1. Statuses' = Statuses
      BY <2>3, <2>4, <2>6, <2>10 DEF Statuses, StatusAfter, StatusBefore
    <3> QED BY <2>5, <3>1, NothingMoved
  <2> QED BY <2>7, <2>8, <2>9, <2>10 DEF AccountOps
<1>3. ASSUME NEW w \in Workers, CommitRemoval(w) PROVE R!Next
  <2>1. PICK u \in Users, s \in Shelters :
           /\ s \in user[u].staff
           /\ user' = [user EXCEPT ![u] = [user[u] EXCEPT !.staff = user[u].staff \ {s}]]
    BY <1>3, RemovalSaved
  <2>2. PICK d \in UserDoc : d = [user[u] EXCEPT !.staff = user[u].staff \ {s}]
    BY <1>0 DEF UserDoc
  <2>3. /\ d.status = user[u].status /\ d.admin = user[u].admin
        /\ d.staff = user[u].staff \ {s}
    BY <1>0, <2>2 DEF UserDoc
  <2>4. /\ Statuses' = [Statuses EXCEPT ![u] = d.status]
        /\ Admins' = [Admins EXCEPT ![u] = d.admin]
        /\ Staffs' = [Staffs EXCEPT ![u] = d.staff]
    BY <1>0, <2>1, <2>2, MemberSave
  <2>5. Statuses' = Statuses /\ Admins' = Admins /\ s \in Staffs[u]
        /\ Staffs' = [Staffs EXCEPT ![u] = @ \ {s}]
    BY <2>1, <2>3, <2>4 DEF Statuses, Admins, Staffs
  <2>6. R!Remove(u, s)
    BY <2>5 DEF R!Remove, Statuses, Admins, Staffs
  <2> QED BY <2>6 DEF R!Next
<1>4. ASSUME NEW w \in Workers, CommitPromote(w) PROVE R!Next
  <2>1. PICK u \in Users, s \in Shelters :
           /\ user[u].status = "ACTIVE"
           /\ s \notin user[u].staff
           /\ user' = [user EXCEPT ![u] = [user[u] EXCEPT !.staff = user[u].staff \cup {s}]]
    BY <1>4, PromotionSaved
  <2>2. PICK d \in UserDoc : d = [user[u] EXCEPT !.staff = user[u].staff \cup {s}]
    BY <1>0 DEF UserDoc
  <2>3. /\ d.status = user[u].status /\ d.admin = user[u].admin
        /\ d.staff = user[u].staff \cup {s}
    BY <1>0, <2>2 DEF UserDoc
  <2>4. /\ Statuses' = [Statuses EXCEPT ![u] = d.status]
        /\ Admins' = [Admins EXCEPT ![u] = d.admin]
        /\ Staffs' = [Staffs EXCEPT ![u] = d.staff]
    BY <1>0, <2>1, <2>2, MemberSave
  <2>5. /\ Statuses' = Statuses /\ Admins' = Admins
        /\ Statuses[u] = "ACTIVE" /\ s \notin Staffs[u]
        /\ Staffs' = [Staffs EXCEPT ![u] = @ \cup {s}]
    BY <2>1, <2>3, <2>4 DEF Statuses, Admins, Staffs
  <2>6. R!Promote(u, s)
    BY <2>5 DEF R!Promote, Statuses, Admins, Staffs
  <2> QED BY <2>6 DEF R!Next
<1>5. ASSUME NEW w \in Workers, CommitVerify(w) PROVE R!Next
  <2>1. PICK u \in Users, s \in Shelters :
           /\ user[u].status = "ACTIVE"
           /\ \A v \in Users : s \notin user[v].admin
           /\ user' = [user EXCEPT ![u] = [user[u] EXCEPT !.admin = user[u].admin \cup {s}]]
    BY <1>5, VerificationSaved
  <2>2. PICK d \in UserDoc : d = [user[u] EXCEPT !.admin = user[u].admin \cup {s}]
    BY <1>0 DEF UserDoc
  <2>3. /\ d.status = user[u].status /\ d.staff = user[u].staff
        /\ d.admin = user[u].admin \cup {s}
    BY <1>0, <2>2 DEF UserDoc
  <2>4. /\ Statuses' = [Statuses EXCEPT ![u] = d.status]
        /\ Admins' = [Admins EXCEPT ![u] = d.admin]
        /\ Staffs' = [Staffs EXCEPT ![u] = d.staff]
    BY <1>0, <2>1, <2>2, MemberSave
  <2>5. /\ Statuses' = Statuses /\ Staffs' = Staffs
        /\ Statuses[u] = "ACTIVE" /\ \A v \in Users : s \notin Admins[v]
        /\ Admins' = [Admins EXCEPT ![u] = @ \cup {s}]
    BY <2>1, <2>3, <2>4 DEF Statuses, Admins, Staffs
  <2>6. R!GrantAdmin(u, s)
    BY <2>5 DEF R!GrantAdmin, Statuses, Admins, Staffs
  <2> QED BY <2>6 DEF R!Next
<1> QED BY <1>1, <1>2, <1>3, <1>4, <1>5, OnlyTheseSave

\* The membership use-cases together implement Roles: statuses and grants change
\* one at a time, a grant only to a member active at that moment.
THEOREM ImplementsRoles == Spec => RolesSpec
<1>1. Init => R!Init
  BY DEF Init, R!Init, NewUserDoc
<1> QED BY <1>1, StepImplementsRoles, InvariantHolds, PTL DEF Spec, RolesSpec, R!Spec
=============================================================================
