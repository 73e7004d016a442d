----------------------------- MODULE MembersProofs -----------------------------
(***************************************************************************)
(* The safety of Sessions and Access, for any number of members, tokens,   *)
(* shelters and concurrent requests, and with ErasureProofs and            *)
(* VolunteerProofs the inductive invariants of all four components.        *)
(*                                                                         *)
(* Sessions: no write looks at what it overwrites, but none makes an       *)
(* issued row unused again.  So a step either issues a token, begins a     *)
(* rotation, or only lets rows age, and the last kind is argued about once.*)
(*                                                                         *)
(* Access: while a request has not read its member yet, whatever would     *)
(* pass now has been witnessed; what it reads is what would pass at that   *)
(* moment, and is never read again.                                        *)
(***************************************************************************)
EXTENDS ErasureProofs, VolunteerProofs

-----------------------------------------------------------------------------
\* Sessions

TokenDoc == [status : S!TokenStatus, family : Tokens \cup {NoToken}, user : Users \cup {NoUser}]

RequestDoc == [op : {"IDLE", "ISSUE", "ROTATE"}, user : Users \cup {NoUser},
               token : Tokens \cup {NoToken}, seen : S!TokenStatus]

\* Row t stays, or an issued one is spent, revoked or deleted.
Ages(t) ==
    \/ token'[t] = token[t]
    \/ /\ S!Issued(t)
       /\ token'[t].family = token[t].family
       /\ token'[t].user = token[t].user
       /\ token'[t].status \in {"ROTATED", "REVOKED", "GONE"}
       /\ S!Stored(t) \/ token'[t].status = "GONE"

\* Worker w goes on, ends its request, or begins to issue a token.
Settles(w) ==
    \/ req'[w] = req[w]
    \/ req'[w] = S!IdleReq
    \/ /\ req'[w].op = "ISSUE" /\ req'[w].token = NoToken /\ req'[w].seen = "UNISSUED"
       /\ req'[w].user \in Users
       /\ member[req'[w].user] \in {"ABSENT", "ACTIVE"}

\* A step that issues no token and begins no rotation.
NothingIssued ==
    /\ member' \in [Users -> S!AccountStatus]
    /\ token' \in [Tokens -> TokenDoc]
    /\ \A t \in Tokens : Ages(t)
    /\ jwt' \in [Tokens -> {"NONE", "VALID", "EXPIRED"}]
    /\ \A t \in Tokens : jwt'[t] # "NONE" => jwt[t] # "NONE"
    /\ req' \in [Workers -> RequestDoc]
    /\ \A w \in Workers : Settles(w)
    /\ UNCHANGED <<parent, raced>>
    /\ loggedOut' \subseteq Tokens
    /\ \A f \in loggedOut' \ loggedOut :
          S!Issued(f) /\ \A t \in S!Family(f) : token'[t].status # "ACTIVE" /\ S!Rotating(t) = {}
    /\ cleared \subseteq cleared' /\ cleared' \subseteq Users
    /\ \A u \in cleared' : member'[u] \in {"WITHDRAWN", "ERASED"}

LEMMA SessionsTyped ==
    ASSUME S!IInv
    PROVE  /\ member \in [Users -> S!AccountStatus]
           /\ token \in [Tokens -> TokenDoc]
           /\ jwt \in [Tokens -> {"NONE", "VALID", "EXPIRED"}]
           /\ req \in [Workers -> RequestDoc]
           /\ parent \in [Tokens -> Tokens \cup {NoToken}]
           /\ raced \subseteq Tokens /\ loggedOut \subseteq Tokens
           /\ cleared \subseteq Users
           /\ \A u \in cleared : member[u] \in {"WITHDRAWN", "ERASED"}
  BY DEF S!IInv, S!TypeOK, S!ClearedWithdrew, TokenDoc, RequestDoc

LEMMA IdleTyped == S!IdleReq \in RequestDoc /\ S!IdleReq.op = "IDLE" /\ S!NoRow \in TokenDoc
  BY DEF S!IdleReq, RequestDoc, S!TokenStatus, S!NoRow, TokenDoc

\* Nothing is rotated after such a step that was not rotated before.
LEMMA RotatingShrinks ==
    ASSUME S!IInv, NothingIssued, NEW t \in Tokens
    PROVE  S!Rotating(t)' \subseteq S!Rotating(t)
  BY IdleTyped DEF NothingIssued, Settles, S!Rotating

LEMMA AgingKeepsInv ==
    ASSUME S!SessionsAssumption, S!IInv, NothingIssued
    PROVE  S!IInv'
<1>1. /\ \A t \in Tokens : /\ token'[t].family = token[t].family
                           /\ token'[t].user = token[t].user
                           /\ S!Issued(t)' <=> S!Issued(t)
                           /\ ~S!Issued(t) => token'[t] = token[t]
                           /\ token'[t].status = "ACTIVE" => token[t].status = "ACTIVE"
      /\ \A t \in Tokens : S!Rotating(t)' \subseteq S!Rotating(t)
  BY RotatingShrinks DEF NothingIssued, Ages, S!Issued
<1>2. S!TypeOK'
  BY SessionsTyped DEF NothingIssued, S!TypeOK, TokenDoc, RequestDoc
<1>3. S!RowsKnown'
  <2>1. S!RowsKnown /\ parent' = parent /\ parent \in [Tokens -> Tokens \cup {NoToken}]
    BY SessionsTyped DEF S!IInv, NothingIssued
  <2>2. \A t \in Tokens : jwt'[t] # "NONE" => jwt[t] # "NONE"
    BY DEF NothingIssued
  <2> QED BY <1>1, <2>1, <2>2 DEF S!RowsKnown
<1>4. S!RequestsKnown'
  <2> SUFFICES ASSUME NEW w \in Workers PROVE S!RequestKnown(req[w])'
    BY DEF S!RequestsKnown
  <2>1. CASE req'[w] = req[w]
    <3>1. S!RequestKnown(req[w])
      BY DEF S!IInv, S!RequestsKnown
    <3> QED BY <1>1, <2>1, <3>1 DEF S!RequestKnown
  <2>2. CASE req'[w] = S!IdleReq
    BY <2>2, IdleTyped DEF S!RequestKnown
  <2>3. CASE /\ req'[w].op = "ISSUE" /\ req'[w].token = NoToken /\ req'[w].seen = "UNISSUED"
             /\ req'[w].user \in Users
    BY <2>3 DEF S!RequestKnown
  <2> QED BY <2>1, <2>2, <2>3 DEF NothingIssued, Settles
<1>5. S!LoggedOutIssued'
  <2>1. \A f \in loggedOut' : f \in Tokens /\ S!Issued(f)
    BY DEF S!IInv, S!LoggedOutIssued, NothingIssued
  <2> QED BY <1>1, <2>1 DEF S!LoggedOutIssued
<1>6. S!ClearedWithdrew'
  BY DEF S!ClearedWithdrew, NothingIssued
<1>7. S!OneLineUnlessRaced'
  <2>1. S!OneLineUnlessRaced /\ raced' = raced
    BY DEF S!IInv, NothingIssued
  <2> QED BY <1>1, <2>1 DEF S!OneLineUnlessRaced
<1>8. S!SuccessorSpendsParent'
  <2>1. /\ S!SuccessorSpendsParent /\ parent' = parent
        /\ parent \in [Tokens -> Tokens \cup {NoToken}]
    BY SessionsTyped DEF S!IInv, NothingIssued
  <2> QED BY <1>1, <2>1 DEF S!SuccessorSpendsParent, S!SessionsAssumption
<1>9. S!LogoutIsFinal'
  <2> SUFFICES ASSUME NEW t \in Tokens, token'[t].family \in loggedOut'
               PROVE  token'[t].status # "ACTIVE" /\ S!Rotating(t)' = {}
    BY DEF S!LogoutIsFinal
  <2>1. CASE token[t].family \in loggedOut
    BY <1>1, <2>1 DEF S!IInv, S!LogoutIsFinal
  <2>2. CASE token[t].family \notin loggedOut
    <3>1. token'[t].status # "ACTIVE" /\ S!Rotating(t) = {}
      BY <1>1, <2>2 DEF NothingIssued, S!Family
    <3> QED BY <1>1, <3>1
  <2> QED BY <2>1, <2>2
<1> QED BY <1>2, <1>3, <1>4, <1>5, <1>6, <1>7, <1>8, <1>9 DEF S!IInv

\* The accounts, the log-outs and what ends requests or sessions.
LEMMA AccountsAge ==
    ASSUME S!SessionsAssumption, S!IInv, NEW u \in Users, S!AccountStep(u)
    PROVE  NothingIssued
<1>1. CASE S!Suspend(u) \/ S!Reinstate(u) \/ S!Withdraw(u) \/ S!EraseIdentity(u)
  <2>1. PICK to \in S!AccountStatus :
          /\ member[u] = "WITHDRAWN" => to = "ERASED"
          /\ member[u] # "ERASED"
          /\ member' = [member EXCEPT ![u] = to]
          /\ UNCHANGED <<token, jwt, req, S!history>>
    BY <1>1 DEF S!Suspend, S!Reinstate, S!Withdraw, S!EraseIdentity, S!Change,
         S!AccountStatus
  <2> QED BY <2>1, SessionsTyped DEF NothingIssued, Ages, Settles, S!history
<1>2. CASE S!EraseCredentials(u)
  <2>1. \A t \in Tokens : /\ token'[t] \in TokenDoc
                          /\ Ages(t)
    <3> SUFFICES ASSUME NEW t \in Tokens PROVE token'[t] \in TokenDoc /\ Ages(t)
      OBVIOUS
    <3>1. CASE t \in S!OwnedBy(u)
      <4>1. PICK r \in TokenDoc : r = token[t]
        BY SessionsTyped
      <4>2. token'[t] = [r EXCEPT !.status = "GONE"]
        BY <1>2, <3>1, <4>1 DEF S!EraseCredentials
      <4>3. S!Issued(t)
        BY <3>1 DEF S!OwnedBy, S!IInv, S!RowsKnown, S!NoRow, S!SessionsAssumption
      <4> QED BY <4>1, <4>2, <4>3 DEF TokenDoc, S!TokenStatus, Ages
    <3>2. CASE t \notin S!OwnedBy(u)
      BY <1>2, <3>2, SessionsTyped DEF S!EraseCredentials, Ages
    <3> QED BY <3>1, <3>2
  <2>2. token' \in [Tokens -> TokenDoc]
    BY <1>2, <2>1 DEF S!EraseCredentials
  <2> QED BY <1>2, <2>1, <2>2, SessionsTyped DEF S!EraseCredentials, NothingIssued,
       Settles
<1> QED BY <1>1, <1>2 DEF S!AccountStep

LEMMA TokensAge ==
    ASSUME S!SessionsAssumption, S!IInv, NEW t \in Tokens, S!TokenStep(t)
    PROVE  NothingIssued
<1>1. CASE S!Logout(t)
  <2>1. PICK f : f = token[t].family
    OBVIOUS
  <2>2. /\ jwt[t] = "VALID" /\ token' = S!Revoked(t, f)
        /\ loggedOut' = IF \A s \in S!Family(f) : S!Rotating(s) = {}
                          THEN loggedOut \cup {f} ELSE loggedOut
        /\ UNCHANGED <<member, jwt, req, parent, raced, cleared>>
    BY <1>1, <2>1 DEF S!Logout
  <2>3. f \in Tokens /\ S!Issued(f)
    BY <2>1, <2>2 DEF S!IInv, S!RowsKnown
  <2>4. ASSUME NEW s \in Tokens
        PROVE  /\ token'[s] \in TokenDoc /\ Ages(s)
               /\ s \in S!Family(f) => token'[s].status # "ACTIVE"
    <3>1. CASE s \in S!Family(f) /\ S!Stored(s)
      <4>1. PICK r \in TokenDoc : r = token[s]
        BY SessionsTyped
      <4>2. token'[s] = [r EXCEPT !.status = "REVOKED"]
        BY <2>2, <3>1, <4>1 DEF S!Revoked
      <4> QED BY <3>1, <4>1, <4>2 DEF TokenDoc, S!TokenStatus, Ages, S!Issued, S!Stored
    <3>2. CASE ~(s \in S!Family(f) /\ S!Stored(s))
      BY <2>2, <3>2, SessionsTyped DEF S!Revoked, Ages, S!Stored
    <3> QED BY <3>1, <3>2
  <2>5. token' \in [Tokens -> TokenDoc]
    BY <2>2, <2>4 DEF S!Revoked
  <2>6. /\ loggedOut' \subseteq Tokens
        /\ \A g \in loggedOut' \ loggedOut :
              g = f /\ \A s \in S!Family(f) : S!Rotating(s) = {}
    BY <2>2, <2>3, SessionsTyped
  <2>7. \A g \in loggedOut' \ loggedOut :
          S!Issued(g) /\ \A s \in S!Family(g) : token'[s].status # "ACTIVE" /\ S!Rotating(s) = {}
    BY <2>3, <2>4, <2>6 DEF S!Family
  <2> QED BY <2>2, <2>4, <2>5, <2>6, <2>7, SessionsTyped DEF NothingIssued, Settles
<1>2. CASE S!Expire(t)
  <2>1. jwt' \in [Tokens -> {"NONE", "VALID", "EXPIRED"}]
        /\ \A s \in Tokens : jwt'[s] # "NONE" => jwt[s] # "NONE"
    BY <1>2, SessionsTyped DEF S!Expire
  <2> QED BY <1>2, <2>1, SessionsTyped DEF S!Expire, S!history, NothingIssued, Ages,
       Settles
<1>3. CASE S!DeleteExpired(t)
  <2>1. PICK r \in TokenDoc : r = token[t]
    BY SessionsTyped
  <2>2. token' = [token EXCEPT ![t] = [r EXCEPT !.status = "GONE"]]
    BY <1>3, <2>1 DEF S!DeleteExpired
  <2>3. [r EXCEPT !.status = "GONE"] \in TokenDoc /\ S!Issued(t)
    BY <1>3 DEF TokenDoc, S!TokenStatus, S!DeleteExpired, S!Stored, S!Issued
  <2>4. token' \in [Tokens -> TokenDoc] /\ \A s \in Tokens : Ages(s)
    BY <2>1, <2>2, <2>3, SessionsTyped DEF TokenDoc, Ages
  <2> QED BY <1>3, <2>4, SessionsTyped DEF S!DeleteExpired, S!history, NothingIssued,
       Settles
<1> QED BY <1>1, <1>2, <1>3 DEF S!TokenStep

\* A request begins to issue, or ends without a new token.
LEMMA RequestsAge ==
    ASSUME S!IInv, NEW w \in Workers,
           \/ \E u \in Users : S!SignUp(w, u) \/ S!Login(w, u)
           \/ S!DetectReuse(w)
           \/ S!Abort(w)
    PROVE  NothingIssued
<1>1. ASSUME NEW u \in Users, S!SignUp(w, u) \/ S!Login(w, u) PROVE NothingIssued
  <2>1. PICK r : r = [S!IdleReq EXCEPT !.op = "ISSUE", !.user = u]
    OBVIOUS
  <2>2. /\ r \in RequestDoc
        /\ r.op = "ISSUE" /\ r.token = NoToken /\ r.seen = "UNISSUED" /\ r.user = u
    BY <2>1 DEF S!IdleReq, RequestDoc, S!TokenStatus
  <2>3. req' = [req EXCEPT ![w] = r] /\ member[u] \in {"ABSENT", "ACTIVE"}
    BY <1>1, <2>1, Zenon DEF S!SignUp, S!Login, S!StartIssue, S!Change
  <2>4. req' \in [Workers -> RequestDoc] /\ \A v \in Workers : Settles(v)
    BY <2>2, <2>3, SessionsTyped DEF Settles
  <2>5. /\ member' \in [Users -> S!AccountStatus]
        /\ \A x \in Users : member[x] \in {"WITHDRAWN", "ERASED"} => member'[x] = member[x]
        /\ UNCHANGED <<token, jwt, S!history>>
    BY <1>1, SessionsTyped DEF S!SignUp, S!Login, S!Change, S!AccountStatus
  <2> QED BY <2>4, <2>5, SessionsTyped DEF NothingIssued, Ages, S!history
<1>2. CASE S!DetectReuse(w) \/ S!Abort(w)
  <2>1. req' = [req EXCEPT ![w] = S!IdleReq] /\ UNCHANGED <<member, token, jwt, S!history>>
    BY <1>2 DEF S!DetectReuse, S!Abort, S!Done
  <2>2. req' \in [Workers -> RequestDoc] /\ \A v \in Workers : Settles(v)
    BY <2>1, SessionsTyped, IdleTyped DEF Settles
  <2> QED BY <2>1, <2>2, SessionsTyped DEF NothingIssued, Ages, S!history
<1> QED BY <1>1, <1>2

\* A token not issued yet is in no family, and no request or row names it.
LEMMA UnissuedUnknown ==
    ASSUME S!SessionsAssumption, S!IInv, NEW t \in Tokens, ~S!Issued(t)
    PROVE  /\ token[t] = S!NoRow /\ parent[t] \in Tokens \cup {NoToken}
           /\ \A s \in Tokens : token[s].family # t /\ parent[s] # t
           /\ \A w \in Workers : req[w].op = "ROTATE" => req[w].token # t
           /\ S!Rotating(t) = {}
           /\ t \notin loggedOut
<1>1. token[t] = S!NoRow /\ parent[t] \in Tokens \cup {NoToken}
  BY SessionsTyped DEF S!IInv, S!RowsKnown
<1>2. \A s \in Tokens : token[s].family # t /\ parent[s] # t
  BY DEF S!IInv, S!RowsKnown, S!NoRow, S!SessionsAssumption
<1>3. \A w \in Workers : req[w].op = "ROTATE" => req[w].token # t
  BY DEF S!IInv, S!RequestsKnown, S!RequestKnown
<1>4. t \notin loggedOut
  BY DEF S!IInv, S!LoggedOutIssued
<1> QED BY <1>1, <1>2, <1>3, <1>4 DEF S!Rotating

LEMMA CommitIssueKeeps ==
    ASSUME S!SessionsAssumption, S!IInv, NEW w \in Workers, NEW t \in Tokens,
           S!CommitIssue(w, t)
    PROVE  S!IInv'
<1>1. PICK u : u = req[w].user
  OBVIOUS
<1>2. u \in Users
  BY <1>1 DEF S!CommitIssue, S!IInv, S!RequestsKnown, S!RequestKnown
<1>3. PICK row : row = S!Row(t, u)
  OBVIOUS
<1>4. /\ row \in TokenDoc
      /\ row.status = "ACTIVE" /\ row.family = t /\ row.user = u
  BY <1>2, <1>3 DEF S!Row, TokenDoc, S!TokenStatus
<1>5. /\ ~S!Issued(t)
      /\ token' = [token EXCEPT ![t] = row]
      /\ jwt' = [jwt EXCEPT ![t] = "VALID"]
      /\ req' = [req EXCEPT ![w] = S!IdleReq]
      /\ UNCHANGED <<member, parent, raced, loggedOut, cleared>>
  BY <1>1, <1>3 DEF S!CommitIssue, S!Issued, S!Done, S!history
<1>6. /\ \A s \in Tokens : token'[s] = IF s = t THEN row ELSE token[s]
      /\ \A s \in Tokens : jwt'[s] = IF s = t THEN "VALID" ELSE jwt[s]
      /\ \A v \in Workers : req'[v] = IF v = w THEN S!IdleReq ELSE req[v]
  BY <1>5, SessionsTyped
<1>7. /\ \A s \in Tokens : S!Issued(s)' <=> s = t \/ S!Issued(s)
      /\ \A s \in Tokens : S!Rotating(s)' \subseteq S!Rotating(s)
      /\ S!Rotating(t)' = {}
  BY <1>4, <1>5, <1>6, IdleTyped, UnissuedUnknown DEF S!Issued, S!Rotating
<1>8. S!TypeOK'
  BY <1>4, <1>5, SessionsTyped, IdleTyped DEF S!TypeOK, TokenDoc, RequestDoc
<1>9. S!RowsKnown'
  BY <1>2, <1>4, <1>5, <1>6, <1>7, SessionsTyped DEF S!IInv, S!RowsKnown,
       S!SessionsAssumption
<1>10. S!RequestsKnown'
  <2> SUFFICES ASSUME NEW v \in Workers PROVE S!RequestKnown(req[v])'
    BY DEF S!RequestsKnown
  <2>1. CASE v = w
    BY <1>6, <2>1, IdleTyped DEF S!RequestKnown
  <2>2. CASE v # w
    <3>1. S!RequestKnown(req[v]) /\ req'[v] = req[v]
      BY <1>6, <2>2 DEF S!IInv, S!RequestsKnown
    <3> QED BY <1>5, <1>6, <1>7, <3>1 DEF S!RequestKnown
  <2> QED BY <2>1, <2>2
<1>11. S!LoggedOutIssued'
  BY <1>5, <1>7, SessionsTyped DEF S!IInv, S!LoggedOutIssued
<1>12. S!ClearedWithdrew'
  BY <1>5 DEF S!IInv, S!ClearedWithdrew
<1>13. S!OneLineUnlessRaced'
  <2> SUFFICES ASSUME NEW x \in Tokens, NEW y \in Tokens,
                      token'[x].family = token'[y].family,
                      token'[x].family \in Tokens \ raced,
                      token'[x].status = "ACTIVE" \/ S!Rotating(x)' # {},
                      token'[y].status = "ACTIVE" \/ S!Rotating(y)' # {}
               PROVE  x = y /\ \A v1, v2 \in S!Rotating(x)' : v1 = v2
    BY <1>5 DEF S!OneLineUnlessRaced
  <2>1. CASE x = t \/ y = t
    BY <1>4, <1>5, <1>6, <1>7, <2>1, UnissuedUnknown
  <2>2. CASE x # t /\ y # t
    <3>1. x = y /\ \A v1, v2 \in S!Rotating(x) : v1 = v2
      BY <1>6, <1>7, <2>2 DEF S!IInv, S!OneLineUnlessRaced
    <3> QED BY <1>7, <3>1
  <2> QED BY <2>1, <2>2
<1>14. S!SuccessorSpendsParent'
  BY <1>5, <1>6, UnissuedUnknown, SessionsTyped DEF S!IInv, S!SuccessorSpendsParent
<1>15. S!LogoutIsFinal'
  <2> SUFFICES ASSUME NEW x \in Tokens, token'[x].family \in loggedOut
               PROVE  token'[x].status # "ACTIVE" /\ S!Rotating(x)' = {}
    BY <1>5 DEF S!LogoutIsFinal
  <2>1. x # t
    BY <1>4, <1>5, <1>6, UnissuedUnknown
  <2> QED BY <1>6, <1>7, <2>1 DEF S!IInv, S!LogoutIsFinal
<1> QED BY <1>8, <1>9, <1>10, <1>11, <1>12, <1>13, <1>14, <1>15 DEF S!IInv

LEMMA PresentKeeps ==
    ASSUME S!SessionsAssumption, S!IInv, NEW w \in Workers, NEW t \in Tokens,
           S!Present(w, t)
    PROVE  S!IInv'
<1>1. PICK row \in TokenDoc : row = token[t]
  BY SessionsTyped
<1>2. PICK r : r = [S!IdleReq EXCEPT !.op = "ROTATE", !.user = row.user, !.token = t,
                                   !.seen = row.status]
  OBVIOUS
<1>3. /\ r \in RequestDoc
      /\ r.op = "ROTATE" /\ r.user = row.user /\ r.token = t /\ r.seen = row.status
  BY <1>1, <1>2 DEF S!IdleReq, RequestDoc, TokenDoc
<1>4. /\ row.status \in {"ACTIVE", "ROTATED"} /\ S!Issued(t)
      /\ req[w] = S!IdleReq
      /\ req' = [req EXCEPT ![w] = r]
      /\ raced' = IF row.status = "ACTIVE" /\ S!Rotating(t) # {}
                    THEN raced \cup {row.family} ELSE raced
      /\ UNCHANGED <<member, token, jwt, parent, loggedOut, cleared>>
  <2>1. req' = [req EXCEPT ![w] = r]
    BY <1>1, <1>2, Zenon DEF S!Present
  <2> QED BY <1>1, <2>1 DEF S!Present, S!Stored, S!Issued
<1>5. \A v \in Workers : req'[v] = IF v = w THEN r ELSE req[v]
  BY <1>4, SessionsTyped
<1>6. /\ \A x \in Tokens : x # t \/ row.status # "ACTIVE" => S!Rotating(x)' = S!Rotating(x)
      /\ row.status = "ACTIVE" => S!Rotating(t)' = S!Rotating(t) \cup {w}
  BY <1>3, <1>4, <1>5, IdleTyped DEF S!Rotating
<1>7. S!TypeOK'
  <2>1. row.family \in Tokens
    BY <1>1, <1>4 DEF S!IInv, S!RowsKnown
  <2>2. raced' \subseteq Tokens
    BY <1>4, <2>1, SessionsTyped
  <2> QED BY <1>3, <1>4, <2>2, SessionsTyped DEF S!TypeOK, TokenDoc, RequestDoc
<1>8. S!RowsKnown'
  BY <1>4 DEF S!IInv, S!RowsKnown, S!Issued
<1>9. S!RequestsKnown'
  <2> SUFFICES ASSUME NEW v \in Workers PROVE S!RequestKnown(req[v])'
    BY DEF S!RequestsKnown
  <2>1. CASE v = w
    BY <1>1, <1>3, <1>4, <1>5, <2>1 DEF S!RequestKnown, S!Issued
  <2>2. CASE v # w
    <3>1. S!RequestKnown(req[v]) /\ req'[v] = req[v]
      BY <1>5, <2>2 DEF S!IInv, S!RequestsKnown
    <3> QED BY <1>4, <3>1 DEF S!RequestKnown, S!Issued
  <2> QED BY <2>1, <2>2
<1>10. S!LoggedOutIssued' /\ S!ClearedWithdrew' /\ S!SuccessorSpendsParent'
  BY <1>4 DEF S!IInv, S!LoggedOutIssued, S!ClearedWithdrew, S!SuccessorSpendsParent,
       S!Issued
<1>11. S!OneLineUnlessRaced'
  <2> SUFFICES ASSUME NEW x \in Tokens, NEW y \in Tokens,
                      token[x].family = token[y].family,
                      token[x].family \in Tokens \ raced',
                      token[x].status = "ACTIVE" \/ S!Rotating(x)' # {},
                      token[y].status = "ACTIVE" \/ S!Rotating(y)' # {}
               PROVE  x = y /\ \A v1, v2 \in S!Rotating(x)' : v1 = v2
    BY <1>4 DEF S!OneLineUnlessRaced
  <2>1. /\ token[x].family \in Tokens \ raced
        /\ token[x].status = "ACTIVE" \/ S!Rotating(x) # {}
        /\ token[y].status = "ACTIVE" \/ S!Rotating(y) # {}
    BY <1>1, <1>4, <1>6
  <2>2. x = y /\ \A v1, v2 \in S!Rotating(x) : v1 = v2
    BY <2>1 DEF S!IInv, S!OneLineUnlessRaced
  <2>3. CASE x = t /\ row.status = "ACTIVE"
    BY <1>1, <1>4, <1>6, <2>2, <2>3
  <2> QED BY <1>6, <2>2, <2>3
<1>12. S!LogoutIsFinal'
  BY <1>1, <1>4, <1>6 DEF S!IInv, S!LogoutIsFinal
<1> QED BY <1>7, <1>8, <1>9, <1>10, <1>11, <1>12 DEF S!IInv

LEMMA CommitRotateKeeps ==
    ASSUME S!SessionsAssumption, S!IInv, NEW w \in Workers, NEW t \in Tokens,
           S!CommitRotate(w, t)
    PROVE  S!IInv'
<1>1. PICK old : old = req[w].token
  OBVIOUS
<1>2. /\ req[w].op = "ROTATE" /\ req[w].seen # "ROTATED" /\ ~S!Issued(t)
      /\ token' = [S!MarkRotated(old) EXCEPT ![t] = S!Row(token[old].family, req[w].user)]
      /\ jwt' = [jwt EXCEPT ![t] = "VALID"]
      /\ parent' = [parent EXCEPT ![t] = old]
      /\ req' = [req EXCEPT ![w] = S!IdleReq]
      /\ UNCHANGED <<member, raced, loggedOut, cleared>>
  BY <1>1 DEF S!CommitRotate, S!Rotate, S!Issued, S!Done
<1>3. /\ old \in Tokens /\ S!Issued(old) /\ old # t
      /\ w \in S!Rotating(old)
      /\ req[w].user = token[old].user
  BY <1>1, <1>2 DEF S!IInv, S!RequestsKnown, S!RequestKnown, S!Rotating
<1>4. PICK f, u : f = token[old].family /\ u = req[w].user
  OBVIOUS
<1>5. f \in Tokens /\ S!Issued(f) /\ f # t /\ u \in Users
  BY <1>2, <1>3, <1>4 DEF S!IInv, S!RowsKnown
<1>6. PICK row : row = S!Row(f, u)
  OBVIOUS
<1>7. /\ row \in TokenDoc
      /\ row.status = "ACTIVE" /\ row.family = f /\ row.user = u
  BY <1>5, <1>6 DEF S!Row, TokenDoc, S!TokenStatus
<1>8. PICK spent \in TokenDoc :
        /\ spent.family = f /\ spent.user = u /\ spent.status \in {"ROTATED", "GONE"}
        /\ S!MarkRotated(old) = [token EXCEPT ![old] = spent]
  <2>1. PICK r \in TokenDoc : r = token[old]
    BY <1>3, SessionsTyped
  <2>2. CASE S!Stored(old)
    <3>1. PICK spent : spent = [r EXCEPT !.status = "ROTATED"]
      OBVIOUS
    <3>2. /\ spent \in TokenDoc
          /\ spent.family = f /\ spent.user = u /\ spent.status = "ROTATED"
      BY <1>3, <1>4, <2>1, <3>1 DEF TokenDoc, S!TokenStatus
    <3>3. S!MarkRotated(old) = [token EXCEPT ![old] = spent]
      BY <2>1, <2>2, <3>1 DEF S!MarkRotated
    <3> QED BY <3>2, <3>3
  <2>3. CASE ~S!Stored(old)
    <3>1. r.status = "GONE" /\ r.family = f /\ r.user = u
      BY <1>3, <1>4, <2>1, <2>3 DEF S!Stored, S!Issued, TokenDoc, S!TokenStatus
    <3>2. S!MarkRotated(old) = [token EXCEPT ![old] = r]
      BY <2>1, <2>3, SessionsTyped DEF S!MarkRotated
    <3> QED BY <3>1, <3>2
  <2> QED BY <2>2, <2>3
<1>9. /\ token' \in [Tokens -> TokenDoc]
      /\ \A s \in Tokens : token'[s] = IF s = t THEN row ELSE IF s = old THEN spent ELSE token[s]
  BY <1>2, <1>3, <1>4, <1>6, <1>7, <1>8, SessionsTyped
<1>10. /\ \A s \in Tokens : jwt'[s] = IF s = t THEN "VALID" ELSE jwt[s]
       /\ \A s \in Tokens : parent'[s] = IF s = t THEN old ELSE parent[s]
       /\ \A v \in Workers : req'[v] = IF v = w THEN S!IdleReq ELSE req[v]
  BY <1>2, SessionsTyped
<1>11. /\ \A s \in Tokens : S!Issued(s)' <=> s = t \/ S!Issued(s)
       /\ \A s \in Tokens : s # t => token'[s].family = token[s].family
                                     /\ token'[s].user = token[s].user
       /\ \A s \in Tokens : s # t /\ token'[s].status = "ACTIVE" =>
             s # old /\ token[s].status = "ACTIVE"
  BY <1>3, <1>4, <1>7, <1>8, <1>9 DEF S!Issued
<1>12. /\ \A s \in Tokens : S!Rotating(s)' \subseteq S!Rotating(s) \ {w}
       /\ S!Rotating(t)' = {}
  BY <1>2, <1>10, IdleTyped, UnissuedUnknown DEF S!Rotating
<1>13. S!TypeOK'
  <2>1. parent' \in [Tokens -> Tokens \cup {NoToken}]
    BY <1>2, <1>3, SessionsTyped
  <2> QED BY <1>2, <1>9, <2>1, SessionsTyped, IdleTyped DEF S!TypeOK, TokenDoc, RequestDoc
<1>14. S!RowsKnown'
  <2> SUFFICES ASSUME NEW s \in Tokens
               PROVE  /\ S!Issued(s)' => /\ token'[s].user \in Users
                                       /\ token'[s].family \in Tokens
                                       /\ S!Issued(token[s].family)'
                      /\ ~S!Issued(s)' => token'[s] = S!NoRow
                      /\ jwt'[s] # "NONE" => S!Issued(s)'
                      /\ parent'[s] # NoToken => S!Issued(parent[s])'
    BY DEF S!RowsKnown
  <2>1. CASE s = t
    BY <1>3, <1>5, <1>7, <1>9, <1>10, <1>11, <2>1
  <2>2. CASE s # t
    <3>1. /\ S!Issued(s) => token[s].user \in Users /\ token[s].family \in Tokens
                          /\ S!Issued(token[s].family)
          /\ ~S!Issued(s) => token[s] = S!NoRow /\ s # old
          /\ jwt[s] # "NONE" => S!Issued(s)
          /\ parent[s] # NoToken => parent[s] \in Tokens /\ S!Issued(parent[s])
      BY <1>3, SessionsTyped DEF S!IInv, S!RowsKnown
    <3>2. ~S!Issued(s)' => token'[s] = S!NoRow
      BY <1>9, <1>11, <2>2, <3>1
    <3> QED BY <1>10, <1>11, <2>2, <3>1, <3>2
  <2> QED BY <2>1, <2>2
<1>15. S!RequestsKnown'
  <2> SUFFICES ASSUME NEW v \in Workers PROVE S!RequestKnown(req[v])'
    BY DEF S!RequestsKnown
  <2>1. CASE v = w
    BY <1>10, <2>1, IdleTyped DEF S!RequestKnown
  <2>2. CASE v # w
    <3>1. S!RequestKnown(req[v]) /\ req'[v] = req[v]
      BY <1>10, <2>2 DEF S!IInv, S!RequestsKnown
    <3>2. req[v].op = "ROTATE" => req[v].token # t
      BY <1>2, UnissuedUnknown
    <3> QED BY <1>11, <3>1, <3>2 DEF S!RequestKnown
  <2> QED BY <2>1, <2>2
<1>16. S!LoggedOutIssued'
  BY <1>2, <1>11, SessionsTyped DEF S!IInv, S!LoggedOutIssued
<1>17. S!ClearedWithdrew'
  BY <1>2 DEF S!IInv, S!ClearedWithdrew
<1>18. S!OneLineUnlessRaced'
  <2> SUFFICES ASSUME NEW x \in Tokens, NEW y \in Tokens,
                      token'[x].family = token'[y].family,
                      token'[x].family \in Tokens \ raced,
                      token'[x].status = "ACTIVE" \/ S!Rotating(x)' # {},
                      token'[y].status = "ACTIVE" \/ S!Rotating(y)' # {}
               PROVE  x = y /\ \A v1, v2 \in S!Rotating(x)' : v1 = v2
    BY <1>2 DEF S!OneLineUnlessRaced
  <2>1. ASSUME NEW z \in Tokens, z # t,
               token'[z].status = "ACTIVE" \/ S!Rotating(z)' # {}
        PROVE  token[z].status = "ACTIVE" \/ S!Rotating(z) # {}
    BY <1>11, <1>12, <2>1
  <2>2. CASE token'[x].family = f
    <3>1. \A v \in S!Rotating(old) : v = w
      BY <1>3, <1>4, <2>2 DEF S!IInv, S!OneLineUnlessRaced
    <3>2. ASSUME NEW z \in Tokens, z # t, token'[z].family = f,
                 token'[z].status = "ACTIVE" \/ S!Rotating(z)' # {}
          PROVE  FALSE
      <4>1. token[z].family = f /\ f \in Tokens \ raced
        BY <1>11, <2>2, <3>2
      <4>2. z = old
        BY <1>3, <1>4, <2>1, <3>2, <4>1 DEF S!IInv, S!OneLineUnlessRaced
      <4> QED BY <1>11, <1>12, <3>1, <3>2, <4>2
    <3>3. x = t /\ y = t
      BY <2>2, <3>2
    <3> QED BY <1>12, <3>3
  <2>3. CASE token'[x].family # f
    <3>1. x # t /\ y # t
      BY <1>7, <1>9, <2>3
    <3>2. x = y /\ \A v1, v2 \in S!Rotating(x) : v1 = v2
      BY <1>11, <2>1, <3>1 DEF S!IInv, S!OneLineUnlessRaced
    <3> QED BY <1>12, <3>2
  <2> QED BY <2>2, <2>3
<1>19. S!SuccessorSpendsParent'
  <2> SUFFICES ASSUME NEW s \in Tokens, parent'[s] # NoToken
               PROVE  token'[parent'[s]].status # "ACTIVE"
    BY DEF S!SuccessorSpendsParent
  <2>1. CASE s = t
    BY <1>3, <1>10, <1>11, <2>1
  <2>2. CASE s # t
    <3>1. parent'[s] = parent[s] /\ parent[s] \in Tokens /\ parent[s] # t
      BY <1>2, <1>10, <2>2, SessionsTyped, UnissuedUnknown
    <3> QED BY <1>11, <3>1 DEF S!IInv, S!SuccessorSpendsParent
  <2> QED BY <2>1, <2>2
<1>20. S!LogoutIsFinal'
  <2> SUFFICES ASSUME NEW x \in Tokens, token'[x].family \in loggedOut
               PROVE  token'[x].status # "ACTIVE" /\ S!Rotating(x)' = {}
    BY <1>2 DEF S!LogoutIsFinal
  <2>1. f \notin loggedOut
    BY <1>3, <1>4 DEF S!IInv, S!LogoutIsFinal
  <2>2. x # t
    BY <1>7, <1>9, <2>1
  <2> QED BY <1>11, <1>12, <2>2 DEF S!IInv, S!LogoutIsFinal
<1> QED BY <1>13, <1>14, <1>15, <1>16, <1>17, <1>18, <1>19, <1>20 DEF S!IInv

LEMMA SessionsInitially == ASSUME S!SessionsAssumption, S!Init PROVE S!IInv
<1>1. S!TypeOK
  BY IdleTyped DEF S!Init, S!TypeOK, S!AccountStatus, TokenDoc, RequestDoc
<1>2. \A t \in Tokens : token[t] = S!NoRow /\ ~S!Issued(t) /\ S!Rotating(t) = {}
  BY IdleTyped DEF S!Init, S!Issued, S!NoRow, S!Rotating
<1>3. S!RowsKnown /\ S!LoggedOutIssued /\ S!ClearedWithdrew
  BY <1>2 DEF S!Init, S!RowsKnown, S!LoggedOutIssued, S!ClearedWithdrew
<1>4. S!RequestsKnown
  BY IdleTyped DEF S!Init, S!RequestsKnown, S!RequestKnown
<1>5. S!OneLineUnlessRaced /\ S!SuccessorSpendsParent /\ S!LogoutIsFinal
  BY <1>2 DEF S!Init, S!OneLineUnlessRaced, S!SuccessorSpendsParent, S!LogoutIsFinal,
     S!NoRow, S!SessionsAssumption
<1> QED BY <1>1, <1>3, <1>4, <1>5 DEF S!IInv

LEMMA SessionsKeep ==
    ASSUME S!SessionsAssumption, S!IInv, [S!Next]_(S!vars) PROVE S!IInv'
<1>1. CASE UNCHANGED S!vars
  BY <1>1, SessionsTyped, AgingKeepsInv DEF S!vars, NothingIssued, Ages, Settles
<1>2. ASSUME NEW w \in Workers, S!RequestStep(w) PROVE S!IInv'
  BY <1>2, RequestsAge, AgingKeepsInv, CommitIssueKeeps, PresentKeeps, CommitRotateKeeps
     DEF S!RequestStep
<1> QED BY <1>1, <1>2, AccountsAge, TokensAge, AgingKeepsInv DEF S!Next

\* A member signed out for good stays so.
LEMMA SignedOutStays ==
    ASSUME S!SessionsAssumption, S!IInv, [S!Next]_(S!vars), NEW u \in Users, S!SignedOut(u)
    PROVE  S!SignedOut(u)'
<1>1. /\ u \in cleared /\ member[u] \in {"WITHDRAWN", "ERASED"}
      /\ \A v \in Workers : req[v].user = u => req[v].op = "IDLE" \/ req[v].seen = "ROTATED"
      /\ \A s \in Tokens : token[s].user = u => ~S!Stored(s)
  BY SessionsTyped DEF S!SignedOut, S!PendingFor, S!OwnedBy
<1>2. ASSUME NothingIssued PROVE S!SignedOut(u)'
  <2>1. u \in cleared'
    BY <1>1, <1>2 DEF NothingIssued
  <2>2. S!PendingFor(u)' = {}
    BY <1>1, <1>2, IdleTyped DEF NothingIssued, Settles, S!PendingFor
  <2>3. \A s \in S!OwnedBy(u)' : ~S!Stored(s)'
    BY <1>1, <1>2 DEF NothingIssued, Ages, S!OwnedBy, S!Stored
  <2> QED BY <2>1, <2>2, <2>3 DEF S!SignedOut
<1>3. ASSUME NEW w \in Workers, NEW t \in Tokens,
             S!CommitIssue(w, t) \/ S!CommitRotate(w, t)
      PROVE  S!SignedOut(u)'
  <2>1. req[w].user # u
    BY <1>1, <1>3 DEF S!CommitIssue, S!CommitRotate, S!Rotate, S!IInv, S!RequestsKnown,
         S!RequestKnown
  <2>2. /\ req' = [req EXCEPT ![w] = S!IdleReq] /\ cleared' = cleared
        /\ token[t].status = "UNISSUED"
    BY <1>3 DEF S!CommitIssue, S!CommitRotate, S!Rotate, S!Done, S!history
  <2>3. S!PendingFor(u)' = {}
    BY <1>1, <2>2, SessionsTyped, IdleTyped DEF S!PendingFor
  <2>4. PICK f \in Tokens \cup {NoToken} :
          \A s \in Tokens : IF s = t THEN token'[s] = S!Row(f, req[w].user)
                            ELSE token'[s].user = token[s].user /\ (S!Stored(s)' => S!Stored(s))
    <3>1. CASE S!CommitIssue(w, t)
      BY <3>1, SessionsTyped DEF S!CommitIssue, S!Stored
    <3>2. CASE S!CommitRotate(w, t)
      <4>1. PICK old : old = req[w].token
        OBVIOUS
      <4>2. old \in Tokens /\ S!Issued(old)
        BY <3>2, <4>1 DEF S!CommitRotate, S!Rotate, S!IInv, S!RequestsKnown,
             S!RequestKnown
      <4>3. token' = [S!MarkRotated(old) EXCEPT ![t] = S!Row(token[old].family, req[w].user)]
        BY <3>2, <4>1 DEF S!CommitRotate, S!Rotate
      <4>4. PICK r \in TokenDoc : r = token[old]
        BY <4>2, SessionsTyped
      <4>5. \A s \in Tokens : s # t =>
              token'[s] = IF s = old /\ S!Stored(old) THEN [r EXCEPT !.status = "ROTATED"]
                          ELSE token[s]
        BY <4>2, <4>3, <4>4, SessionsTyped DEF S!MarkRotated
      <4>6. /\ token'[t] = S!Row(r.family, req[w].user)
            /\ r.family \in Tokens \cup {NoToken}
        BY <4>2, <4>3, <4>4, SessionsTyped DEF S!MarkRotated, TokenDoc
      <4>7. ASSUME NEW s \in Tokens, s # t
            PROVE  token'[s].user = token[s].user /\ (S!Stored(s)' => S!Stored(s))
        BY <4>4, <4>5, <4>7 DEF TokenDoc, S!Stored
      <4> QED BY <4>6, <4>7
    <3> QED BY <1>3, <3>1, <3>2
  <2>5. \A s \in S!OwnedBy(u)' : ~S!Stored(s)'
    BY <1>1, <2>1, <2>4 DEF S!OwnedBy, S!Row
  <2> QED BY <1>1, <2>2, <2>3, <2>5 DEF S!SignedOut
<1>4. ASSUME NEW w \in Workers, NEW t \in Tokens, S!Present(w, t) PROVE S!SignedOut(u)'
  <2>1. /\ token[t].user # u
        /\ UNCHANGED <<token, cleared>>
    BY <1>1, <1>4 DEF S!Present
  <2>2. PICK r : r = [S!IdleReq EXCEPT !.op = "ROTATE", !.user = token[t].user, !.token = t,
                                     !.seen = token[t].status]
    OBVIOUS
  <2>3. r.user = token[t].user
    BY <2>2 DEF S!IdleReq
  <2>4. req' = [req EXCEPT ![w] = r]
    BY <1>4, <2>2, Zenon DEF S!Present
  <2>5. S!PendingFor(u)' = {}
    BY <1>1, <2>1, <2>3, <2>4, SessionsTyped DEF S!PendingFor
  <2> QED BY <1>1, <2>1, <2>5 DEF S!SignedOut, S!OwnedBy, S!Stored
<1>5. CASE UNCHANGED S!vars
  BY <1>2, <1>5, SessionsTyped DEF S!vars, NothingIssued, Ages, Settles
<1>6. ASSUME NEW w \in Workers, S!RequestStep(w) PROVE S!SignedOut(u)'
  BY <1>2, <1>3, <1>4, <1>6, RequestsAge DEF S!RequestStep
<1> QED BY <1>2, <1>5, <1>6, AccountsAge, TokensAge DEF S!Next

\* However rotations, log-outs, expiries and erasures interleave.
THEOREM SessionsInvariant == ASSUME S!SessionsAssumption PROVE S!Spec => []S!IInv
<1>1. S!Init => S!IInv
  BY SessionsInitially
<1>2. S!IInv /\ [S!Next]_(S!vars) => S!IInv'
  BY SessionsKeep
<1> QED BY <1>1, <1>2, PTL DEF S!Spec

LEMMA SessionsMove == MCSpec => S!Spec
<1>1. MCInit => S!Init
  BY DEF MCInit
<1>2. [MCNext]_allVars => [S!Next]_(S!vars)
  BY DEF MCNext, allVars, sessionVars, S!vars
<1> QED BY <1>1, <1>2, PTL DEF MCSpec, S!Spec

LEMMA SessionsHold == MCSpec => []S!IInv
<1>1. S!SessionsAssumption
  BY ConstantsFit
<1> QED BY <1>1, SessionsInvariant, SessionsMove, PTL

\* Rotation forks a family only where two rotations of one token overlap,
\* whatever log-outs, expiries and erasures come between a read and its write.
THEOREM OneLine == MCSpec => []OneLineUnlessRaced
<1>1. S!IInv => OneLineUnlessRaced
  BY DEF S!IInv, OneLineUnlessRaced
<1> QED BY <1>1, SessionsHold, PTL

\* Reuse is seen: a token that has a successor never passes for unused again,
\* although the write that spends it looks at nothing.
THEOREM ReuseIsSeen == MCSpec => []SuccessorSpendsParent
<1>1. S!IInv => SuccessorSpendsParent
  BY DEF S!IInv, SuccessorSpendsParent
<1> QED BY <1>1, SessionsHold, PTL

\* A log-out no rotation overlaps ends the session for good.
THEOREM LogoutFinal == MCSpec => []LogoutIsFinal
<1>1. S!IInv => LogoutIsFinal
  BY DEF S!IInv, LogoutIsFinal
<1> QED BY <1>1, SessionsHold, PTL

\* No step gives a session back to a member whose sessions the erasure deleted
\* while no request of that member was under way.
THEOREM ErasedStayOut == MCSpec => ErasedStaysOut
<1>1. S!SessionsAssumption
  BY ConstantsFit
<1>2. S!IInv /\ [S!Next]_(S!vars) =>
        [\A u \in Users : S!SignedOut(u) => S!SignedOut(u)']_(S!vars)
  BY <1>1, SignedOutStays
<1> QED BY <1>2, SessionsHold, SessionsMove, PTL DEF S!Spec, ErasedStaysOut,
     S!ErasedStaysOut

-----------------------------------------------------------------------------
\* Access

Route == [signed : BOOLEAN, need : SUBSET A!Standing]

LEMMA SignedIsRoute == \A need \in SUBSET A!Standing : A!Signed(need) \in Route
  BY DEF A!Signed, Route

LEMMA NeedsAreStandings ==
    /\ A!Open \in Route
    /\ {A!Member, A!Owner, A!Active, A!Staff, A!ShelterAdmin, A!Operator, A!OwnerOrStaff, A!OwnerOrOperator,
         A!StaffOrOperator, {"OPERATOR", "SOME_SHELTER"}} \subseteq SUBSET A!Standing
  BY DEF A!Open, Route, A!Standing, A!Member, A!Owner, A!Active, A!Staff, A!ShelterAdmin,
       A!Operator,
         A!OwnerOrStaff, A!OwnerOrOperator, A!StaffOrOperator

LEMMA RoutesTyped == A!Routes \subseteq Route
<1>1. A!Range(A!AdopterHistoryController) \subseteq Route
  BY SignedIsRoute, NeedsAreStandings DEF A!Range, A!AdopterHistoryController
<1>2. A!Range(A!AdoptionController) \subseteq Route
  BY SignedIsRoute, NeedsAreStandings DEF A!Range, A!AdoptionController,
       A!GetAdoptionApplication
<1>3. A!Range(A!AnimalController) \subseteq Route
  BY SignedIsRoute, NeedsAreStandings DEF A!Range, A!AnimalController, A!RegisterAnimal
<1>4. A!Range(A!ShelterStatsController) \subseteq Route
  BY SignedIsRoute, NeedsAreStandings DEF A!Range, A!ShelterStatsController,
       A!GetShelterStats
<1>5. A!Range(A!AnnouncementController) \subseteq Route
  BY SignedIsRoute, NeedsAreStandings DEF A!Range, A!AnnouncementController
<1>6. A!Range(A!ApprovalController) \subseteq Route
  BY SignedIsRoute, NeedsAreStandings DEF A!Range, A!ApprovalController,
       A!CountPendingApprovals
<1>7. A!Range(A!AuthController) \subseteq Route
  BY SignedIsRoute, NeedsAreStandings DEF A!Range, A!AuthController
<1>8. A!Range(A!ConsentController) \subseteq Route
  BY SignedIsRoute, NeedsAreStandings DEF A!Range, A!ConsentController, A!ListMyConsents
<1>9. A!Range(A!DsarController) \subseteq Route
  BY SignedIsRoute, NeedsAreStandings DEF A!Range, A!DsarController, A!GetErasureRequest,
       A!ListSubjectErasures, A!ExportPersonalData
<1>10. A!Range(A!FaqController) \subseteq Route
  BY SignedIsRoute, NeedsAreStandings DEF A!Range, A!FaqController
<1>11. A!Range(A!FavoriteController) \subseteq Route
  BY SignedIsRoute, NeedsAreStandings DEF A!Range, A!FavoriteController
<1>12. A!Range(A!FosterController) \subseteq Route
  BY SignedIsRoute, NeedsAreStandings DEF A!Range, A!FosterController,
       A!GetFosterApplication
<1>13. A!Range(A!HealthController) \subseteq Route
  BY SignedIsRoute, NeedsAreStandings DEF A!Range, A!HealthController
<1>14. A!Range(A!InquiryController) \subseteq Route
  BY SignedIsRoute, NeedsAreStandings DEF A!Range, A!InquiryController
<1>15. A!Range(A!MediaController) \subseteq Route
  BY SignedIsRoute, NeedsAreStandings DEF A!Range, A!MediaController, A!CreateUploadUrl
<1>16. A!Range(A!MessageController) \subseteq Route
  BY SignedIsRoute, NeedsAreStandings DEF A!Range, A!MessageController,
       A!ListConversationMessages
<1>17. A!Range(A!NotificationController) \subseteq Route
  BY SignedIsRoute, NeedsAreStandings DEF A!Range, A!NotificationController
<1>18. A!Range(A!AdminPolicyController) \subseteq Route
  BY SignedIsRoute, NeedsAreStandings DEF A!Range, A!AdminPolicyController,
       A!ListPolicyVersions
<1>19. A!Range(A!PolicyController) \subseteq Route
  BY SignedIsRoute, NeedsAreStandings DEF A!Range, A!PolicyController
<1>20. A!Range(A!QuestionnaireController) \subseteq Route
  BY SignedIsRoute, NeedsAreStandings DEF A!Range, A!QuestionnaireController
<1>21. A!Range(A!ReportController) \subseteq Route
  BY SignedIsRoute, NeedsAreStandings DEF A!Range, A!ReportController,
       A!ListPendingReports
<1>22. A!Range(A!ReviewController) \subseteq Route
  BY SignedIsRoute, NeedsAreStandings DEF A!Range, A!ReviewController
<1>23. A!Range(A!AdminStatsController) \subseteq Route
  BY SignedIsRoute, NeedsAreStandings DEF A!Range, A!AdminStatsController
<1>24. A!Range(A!ShelterDashboardController) \subseteq Route
  BY SignedIsRoute, NeedsAreStandings DEF A!Range, A!ShelterDashboardController
<1>25. A!Range(A!ShelterController) \subseteq Route
  BY SignedIsRoute, NeedsAreStandings DEF A!Range, A!ShelterController, A!GetShelterStaff,
       A!ListStaffPromotions
<1>26. A!Range(A!ShelterControllerDetail) \subseteq Route
  BY SignedIsRoute, NeedsAreStandings DEF A!Range, A!ShelterControllerDetail,
       A!GetShelterProfile, A!GetShelterVerification
<1>27. A!Range(A!UserController) \subseteq Route
  BY SignedIsRoute, NeedsAreStandings DEF A!Range, A!UserController
<1>28. A!Range(A!MyBookmarksController) \subseteq Route
  BY SignedIsRoute, NeedsAreStandings DEF A!Range, A!MyBookmarksController
<1>29. A!Range(A!VolunteerPostController) \subseteq Route
  BY SignedIsRoute, NeedsAreStandings DEF A!Range, A!VolunteerPostController
<1>30. A!Range(A!VolunteerPostControllerDetail) \subseteq Route
  BY SignedIsRoute, NeedsAreStandings DEF A!Range, A!VolunteerPostControllerDetail
<1>31. A!Range(A!CertificateVerifyController) \subseteq Route
  BY SignedIsRoute, NeedsAreStandings DEF A!Range, A!CertificateVerifyController
<1>32. A!Range(A!VolunteerCertificateController) \subseteq Route
  BY SignedIsRoute, NeedsAreStandings DEF A!Range, A!VolunteerCertificateController
<1>33. A!Range(A!VolunteerController) \subseteq Route
  BY SignedIsRoute, NeedsAreStandings DEF A!Range, A!VolunteerController,
       A!ReadVolunteerEvents
<1>34. A!Range(A!VolunteerControllerDetail) \subseteq Route
  BY SignedIsRoute, NeedsAreStandings DEF A!Range, A!VolunteerControllerDetail,
       A!ListEventSignups
<1> QED BY <1>1, <1>2, <1>3, <1>4, <1>5, <1>6, <1>7, <1>8, <1>9, <1>10, <1>11, <1>12,
     <1>13, <1>14, <1>15, <1>16, <1>17, <1>18, <1>19, <1>20, <1>21, <1>22, <1>23, <1>24,
     <1>25, <1>26, <1>27, <1>28, <1>29, <1>30, <1>31, <1>32, <1>33, <1>34 DEF A!Routes,
     A!Controllers

\* What the history adds to a request is of its shape.
LEMMA WitnessTyped == ASSUME NEW c \in A!CallDoc PROVE A!Witness(c) \in A!CallDoc
<1>1. CASE c.user = None
  BY <1>1 DEF A!Witness
<1>2. CASE c.user # None
  <2>1. PICK stood \in BOOLEAN, barred \in BOOLEAN :
          /\ stood = (c.stood \/ A!Stands(c))
          /\ barred = (c.barred /\ status'[c.user] = "SUSPENDED")
    BY Zenon
  <2>2. PICK d : d = [c EXCEPT !.stood = stood, !.barred = barred]
    OBVIOUS
  <2>3. d \in A!CallDoc
    BY <2>2 DEF A!CallDoc
  <2>4. A!Witness(c) = d
    BY <1>2, <2>1, <2>2, Zenon DEF A!Witness
  <2> QED BY <2>3, <2>4
<1> QED BY <1>1, <1>2
\* What a use-case would let through is what the history records: the
\* predicates of user.ts say of the document what Stands says of the accounts.
LEMMA WouldPassStands ==
    ASSUME NEW c \in A!CallDoc, operators' = operators, A!WouldPass(c)'
    PROVE  A!Stands(c)
<1> DEFINE u == c.user
           s == c.shelter
           held == {"MEMBER"}
                \cup (IF c.own THEN {"OWNER"} ELSE {})
                \cup (IF status'[u] = "ACTIVE" THEN {"ACTIVE"} ELSE {})
                \cup (IF s \in staff'[u] THEN {"STAFF"} ELSE {})
                \cup (IF s \in admin'[u] THEN {"STAFF", "SHELTER_ADMIN"} ELSE {})
                \cup (IF staff'[u] \cup admin'[u] # {} THEN {"SOME_SHELTER"} ELSE {})
                \cup (IF u \in operators THEN {"STAFF", "SHELTER_ADMIN", "OPERATOR"}
                                         ELSE {})
           d == [c EXCEPT !.actor = A!Actor(c.user)']
<1>1. /\ d.need = c.need /\ d.own = c.own /\ d.shelter = s
      /\ d.actor = [active |-> status'[u] = "ACTIVE", operator |-> u \in operators,
                    admin |-> admin'[u], staff |-> staff'[u]]
  BY DEF A!CallDoc, A!Actor
<1>2. /\ d.actor.active <=> status'[u] = "ACTIVE"
      /\ d.actor.operator <=> u \in operators
      /\ d.actor.admin = admin'[u] /\ d.actor.staff = staff'[u]
  <2>1. PICK a : a = [active |-> status'[u] = "ACTIVE", operator |-> u \in operators,
                      admin |-> admin'[u], staff |-> staff'[u]]
    OBVIOUS
  <2>2. /\ a.active <=> status'[u] = "ACTIVE"
        /\ a.operator <=> u \in operators
        /\ a.admin = admin'[u] /\ a.staff = staff'[u]
    BY <2>1
  <2>3. d.actor = a
    BY <1>1, <2>1
  <2> HIDE DEF d
  <2> QED BY <2>2, <2>3
<1>3. A!Passes(d)
  BY DEF A!WouldPass, A!Passes, A!CanManageShelter, A!HasShelterAdmin,
       A!HasSomeShelterRole
<1> HIDE DEF d
<1>4. c.need \cap held # {}
  <2>1. \/ "MEMBER" \in c.need
        \/ "OWNER" \in c.need /\ c.own
        \/ "ACTIVE" \in c.need /\ status'[u] = "ACTIVE"
        \/ "STAFF" \in c.need /\ (u \in operators \/ s \in admin'[u] \/ s \in staff'[u])
        \/ "SHELTER_ADMIN" \in c.need /\ (u \in operators \/ s \in admin'[u])
        \/ "SOME_SHELTER" \in c.need /\ (admin'[u] # {} \/ staff'[u] # {})
        \/ "OPERATOR" \in c.need /\ u \in operators
    BY <1>1, <1>2, <1>3 DEF A!Passes, A!CanManageShelter, A!HasShelterAdmin,
         A!HasSomeShelterRole
  <2>2. admin'[u] # {} \/ staff'[u] # {} => staff'[u] \cup admin'[u] # {}
    OBVIOUS
  <2>3. CASE "MEMBER" \in c.need
    BY <2>3
  <2>4. CASE "OWNER" \in c.need /\ c.own
    BY <2>4
  <2>5. CASE "ACTIVE" \in c.need /\ status'[u] = "ACTIVE"
    BY <2>5
  <2>6. CASE "STAFF" \in c.need /\ (u \in operators \/ s \in admin'[u] \/ s \in staff'[u])
    BY <2>6
  <2>7. CASE "SHELTER_ADMIN" \in c.need /\ (u \in operators \/ s \in admin'[u])
    BY <2>7
  <2>8. CASE "SOME_SHELTER" \in c.need /\ (admin'[u] # {} \/ staff'[u] # {})
    BY <2>2, <2>8
  <2>9. CASE "OPERATOR" \in c.need /\ u \in operators
    BY <2>9
  <2> QED BY <2>1, <2>3, <2>4, <2>5, <2>6, <2>7, <2>8, <2>9
<1> QED BY <1>4 DEF A!Stands

\* The history of a request that a change of the accounts, or its arrival, witnesses.
LEMMA WitnessFits ==
    ASSUME NEW c \in A!CallDoc, NEW d, d = A!Witness(c), c.user \in Users,
           A!AccessAssumption, operators' = operators
    PROVE  /\ d \in A!CallDoc
           /\ d.stage = c.stage /\ d.user = c.user
           /\ d.signed = c.signed
           /\ A!Passes(d) => A!Passes(c)
           /\ c.stood = TRUE => d.stood = TRUE
           /\ A!WouldPass(d)' => d.stood = TRUE
<1>1. d = [c EXCEPT !.stood = @ \/ A!Stands(c),
                    !.barred = @ /\ status'[c.user] = "SUSPENDED"]
  BY DEF A!Witness, A!AccessAssumption
<1>2. /\ d \in A!CallDoc
      /\ d.stage = c.stage /\ d.user = c.user /\ d.shelter = c.shelter
      /\ d.own = c.own /\ d.need = c.need /\ d.signed = c.signed /\ d.actor = c.actor
  BY <1>1, WitnessTyped DEF A!CallDoc
<1>3. d.stood = (c.stood \/ A!Stands(c))
  BY <1>1 DEF A!CallDoc
<1>4. A!Passes(d) => A!Passes(c)
  BY <1>2 DEF A!Passes
<1>5. c.stood = TRUE => d.stood = TRUE
  BY <1>3
<1>6. A!Stands(c) => d.stood = TRUE
  BY <1>3
<1>7. A!WouldPass(d)' => A!WouldPass(c)'
  <2>1. PICK x, y : x = [d EXCEPT !.actor = A!Actor(d.user)']
                    /\ y = [c EXCEPT !.actor = A!Actor(c.user)']
    OBVIOUS
  <2>2. x.own = y.own /\ x.need = y.need /\ x.shelter = y.shelter
    BY <1>2, <2>1 DEF A!CallDoc
  <2>3. x.actor = y.actor
    <3>1. "actor" \in DOMAIN c /\ "actor" \in DOMAIN d
      BY <1>2 DEF A!CallDoc
    <3>2. x.actor = A!Actor(d.user)' /\ y.actor = A!Actor(c.user)'
      BY <2>1, <3>1
    <3>3. A!Actor(d.user)' = A!Actor(c.user)'
      BY <1>2
    <3> QED BY <3>2, <3>3
  <2>4. A!Passes(x)' => A!Passes(y)'
    BY <2>2, <2>3 DEF A!Passes
  <2>5. (A!WouldPass(d)' <=> A!Passes(x)') /\ (A!WouldPass(c)' <=> A!Passes(y)')
    BY <2>1 DEF A!WouldPass
  <2> QED BY <2>4, <2>5
<1>8. A!WouldPass(c)' => A!Stands(c)
  BY WouldPassStands
<1> QED BY <1>2, <1>4, <1>5, <1>6, <1>7, <1>8

LEMMA StillFits ==
    ASSUME NEW c, A!CallFits(c), UNCHANGED A!accounts
    PROVE  A!CallFits(c)'
<1>1. A!WouldPass(c)' <=> A!WouldPass(c)
  BY DEF A!WouldPass, A!Passes, A!CanManageShelter, A!HasShelterAdmin,
       A!HasSomeShelterRole, A!Actor,
         A!accounts
<1>2. A!Passes(c)' <=> A!Passes(c)
  BY DEF A!Passes, A!CanManageShelter, A!HasShelterAdmin, A!HasSomeShelterRole
<1> QED BY <1>1, <1>2 DEF A!CallFits

\* A step that moves one request and no account.
LEMMA OneCallMoves ==
    ASSUME A!IInv, UNCHANGED <<A!accounts, A!tokens>>, NEW w \in Servers,
           NEW c \in A!CallDoc, A!CallFits(c)', call' = [call EXCEPT ![w] = c]
    PROVE  A!IInv'
<1>1. DOMAIN call' = Servers
  BY DEF A!IInv
<1>2. ASSUME NEW x \in Servers PROVE call'[x] \in A!CallDoc /\ A!CallFits(call[x])'
  <2>1. PICK d : d = call'[x]
    OBVIOUS
  <2>2. CASE x = w
    <3>1. d = c
      BY <2>1, <2>2 DEF A!IInv
    <3>2. A!CallFits(d)'
      BY <3>1
    <3> QED BY <2>1, <3>1, <3>2
  <2>3. CASE x # w
    <3>1. d = call[x]
      BY <2>1, <2>3 DEF A!IInv
    <3>2. d \in A!CallDoc /\ A!CallFits(d)
      BY <3>1 DEF A!IInv, A!TypeOK
    <3>3. A!CallFits(d)'
      BY <3>2, StillFits DEF A!accounts
    <3> QED BY <2>1, <3>2, <3>3
  <2> QED BY <2>2, <2>3
<1>3. A!TypeOK'
  BY <1>2 DEF A!IInv, A!TypeOK, A!accounts, A!tokens
<1> QED BY <1>1, <1>2, <1>3 DEF A!IInv

\* A change of the accounts, which every request under way witnesses.
LEMMA ChangeFits ==
    ASSUME A!IInv, A!AccessAssumption, A!Change, operators' = operators,
           status' \in [Users -> {"ACTIVE", "SUSPENDED", "WITHDRAWN"}],
           admin' \in [Users -> SUBSET Shelters], staff' \in [Users -> SUBSET Shelters]
    PROVE  A!IInv'
<1>1. DOMAIN call' = Servers
  BY DEF A!Change
<1>2. ASSUME NEW w \in Servers PROVE call'[w] \in A!CallDoc /\ A!CallFits(call[w])'
  <2>1. PICK c, d : c = call[w] /\ d = call'[w]
    OBVIOUS
  <2>2. c \in A!CallDoc /\ A!CallFits(c) /\ c.user \in Users \cup {None}
    BY <2>1 DEF A!IInv, A!TypeOK, A!CallDoc
  <2>3. d \in A!CallDoc /\ A!CallFits(d)'
    <3>1. CASE c.stage \in {"ARRIVED", "READ"} /\ c.user \in Users
      <4>1. d = A!Witness(c)
        BY <2>1, <3>1 DEF A!Change
      <4>2. /\ d \in A!CallDoc
            /\ d.stage = c.stage /\ d.user = c.user
            /\ d.signed = c.signed
            /\ A!Passes(d) => A!Passes(c)
            /\ c.stood = TRUE => d.stood = TRUE
            /\ A!WouldPass(d)' => d.stood = TRUE
        BY <2>2, <3>1, <4>1, WitnessFits
      <4>3. A!Passes(d)' <=> A!Passes(d)
        BY DEF A!Passes, A!CanManageShelter, A!HasShelterAdmin, A!HasSomeShelterRole
      <4> QED BY <2>2, <3>1, <4>2, <4>3 DEF A!CallFits
    <3>2. CASE c.stage = "READ" /\ c.user = None
      <4>1. d = c
        BY <2>1, <3>2 DEF A!Change, A!Witness
      <4>2. A!Passes(c)' <=> A!Passes(c)
        BY DEF A!Passes, A!CanManageShelter, A!HasShelterAdmin, A!HasSomeShelterRole
      <4> QED BY <2>2, <3>2, <4>1, <4>2 DEF A!CallFits
    <3>3. CASE c.stage \notin {"ARRIVED", "READ"}
      <4>1. d = c
        BY <2>1, <3>3 DEF A!Change
      <4> QED BY <2>2, <3>3, <4>1 DEF A!CallFits
    <3> QED BY <2>2, <3>1, <3>2, <3>3 DEF A!CallFits
  <2> QED BY <2>1, <2>3
<1>3. A!TypeOK'
  BY <1>2 DEF A!IInv, A!TypeOK, A!Change, A!tokens
<1> QED BY <1>1, <1>2, <1>3 DEF A!IInv

LEMMA TokensMove ==
    ASSUME A!IInv, UNCHANGED <<A!accounts, call>>, access' \subseteq Users,
           refresh' \subseteq Users
    PROVE  A!IInv'
<1>1. A!TypeOK'
  BY DEF A!IInv, A!TypeOK, A!accounts
<1>2. ASSUME NEW w \in Servers PROVE A!CallFits(call[w])'
  <2>1. PICK c : c = call[w]
    OBVIOUS
  <2>2. A!CallFits(c)'
    BY <2>1, StillFits DEF A!IInv
  <2> QED BY <2>1, <2>2
<1> QED BY <1>1, <1>2 DEF A!IInv

LEMMA UserKeeps ==
    ASSUME A!IInv, A!AccessAssumption, NEW u \in Users, A!UserStep(u)
    PROVE  A!IInv'
<1>1. CASE A!Suspend(u) \/ A!Reinstate(u) \/ A!Withdraw(u)
  <2>1. PICK to \in {"ACTIVE", "SUSPENDED", "WITHDRAWN"} :
          /\ status' = [status EXCEPT ![u] = to]
          /\ UNCHANGED <<operators, admin, staff>>
          /\ A!Change
    BY <1>1 DEF A!Suspend, A!Reinstate, A!Withdraw, A!Move
  <2> QED BY <2>1, ChangeFits DEF A!IInv, A!TypeOK
<1>2. ASSUME NEW s \in Shelters, A!Promote(u, s) \/ A!Remove(u, s) PROVE A!IInv'
  <2>1. /\ staff' \in [Users -> SUBSET Shelters]
        /\ UNCHANGED <<operators, status, admin>>
        /\ A!Change
    BY <1>2 DEF A!Promote, A!Remove, A!IInv, A!TypeOK
  <2> QED BY <2>1, ChangeFits DEF A!IInv, A!TypeOK
<1>3. CASE A!Login(u) \/ A!Rotate(u) \/ A!AccessExpires(u) \/ A!EndSession(u)
  <2>1. /\ access' \subseteq Users /\ refresh' \subseteq Users
        /\ UNCHANGED <<A!accounts, call>>
    BY <1>3 DEF A!Login, A!Rotate, A!AccessExpires, A!EndSession, A!IInv, A!TypeOK
  <2> QED BY <2>1, TokensMove
<1> QED BY <1>1, <1>2, <1>3 DEF A!UserStep

LEMMA NoCallFits ==
    /\ A!NoCall \in A!CallDoc
    /\ \A c \in A!CallDoc : c.stage = "IDLE" \/ (c.stage = "READ" /\ c.signed = FALSE)
          => A!CallFits(c)'
<1>1. A!NoCall \in A!CallDoc
  BY DEF A!NoCall, A!CallDoc, A!NoActor
<1>2. \A c \in A!CallDoc : c.stage = "IDLE" \/ (c.stage = "READ" /\ c.signed = FALSE)
          => A!CallFits(c)'
  BY DEF A!CallFits
<1> QED BY <1>1, <1>2

LEMMA ArriveKeeps ==
    ASSUME A!IInv, A!AccessAssumption, NEW w \in Servers, NEW r \in A!Routes,
           NEW u \in Users,
           A!Arrive(w, u, r)
    PROVE  A!IInv'
<1>1. PICK s \in Shelters, own \in BOOLEAN :
        call' = [call EXCEPT ![w] =
                   A!Witness([A!NoCall EXCEPT !.stage = "ARRIVED", !.user = u,
                                          !.shelter = s, !.own = own,
                                          !.need = r.need, !.signed = r.signed,
                                          !.barred = TRUE])]
  BY DEF A!Arrive
<1>2. PICK b, d : /\ b = [A!NoCall EXCEPT !.stage = "ARRIVED", !.user = u,
                                       !.shelter = s, !.own = own,
                                       !.need = r.need, !.signed = r.signed,
                                       !.barred = TRUE]
                  /\ d = A!Witness(b)
  OBVIOUS
<1>3. r \in Route
  BY RoutesTyped
<1>4. b \in A!CallDoc /\ b.user = u /\ b.stage = "ARRIVED"
  <2>1. PICK need \in SUBSET A!Standing, signed \in BOOLEAN :
          need = r.need /\ signed = r.signed
    BY <1>3 DEF Route
  <2>2. b = [stage |-> "ARRIVED", user |-> u, shelter |-> s, own |-> own, need |-> need,
             signed |-> signed, actor |-> A!NoActor, stood |-> FALSE, barred |-> TRUE]
    BY <1>2, <2>1 DEF A!NoCall
  <2>3. A!NoActor \in [active : BOOLEAN, operator : BOOLEAN, admin : SUBSET Shelters,
                     staff : SUBSET Shelters]
    BY DEF A!NoActor
  <2> QED BY <2>2, <2>3 DEF A!CallDoc
<1>5. UNCHANGED <<A!accounts, A!tokens>>
  BY DEF A!Arrive
<1>6. /\ d \in A!CallDoc /\ d.stage = b.stage /\ d.user = b.user
      /\ A!WouldPass(d)' => d.stood = TRUE
  BY <1>2, <1>4, <1>5, WitnessFits DEF A!accounts
<1>7. A!CallFits(d)'
  BY <1>4, <1>6 DEF A!CallFits
<1>8. call' = [call EXCEPT ![w] = d]
  BY <1>1, <1>2, Zenon
<1> QED BY <1>5, <1>6, <1>7, <1>8, OneCallMoves

LEMMA CallKeeps ==
    ASSUME A!IInv, A!AccessAssumption, NEW w \in Servers, A!CallStep(w)
    PROVE  A!IInv'
<1>1. PICK c : c = call[w]
  OBVIOUS
<1>2. c \in A!CallDoc /\ A!CallFits(c)
  BY <1>1 DEF A!IInv, A!TypeOK
<1>3. ASSUME NEW r \in A!Routes, A!ArriveUnsigned(w, r) PROVE A!IInv'
  <2>1. PICK d : d = [A!NoCall EXCEPT !.stage = "READ", !.need = r.need]
    OBVIOUS
  <2>2. r.need \in SUBSET A!Standing
    BY RoutesTyped DEF Route
  <2>3. d \in A!CallDoc /\ d.stage = "READ" /\ d.signed = FALSE
    BY <2>1, <2>2, NoCallFits DEF A!CallDoc, A!NoCall
  <2> QED BY <1>3, <2>1, <2>3, NoCallFits, OneCallMoves DEF A!ArriveUnsigned
<1>4. CASE A!ReadActor(w)
  <2>1. PICK actor : actor = A!Actor(c.user)
    OBVIOUS
  <2>2. PICK d : d = [c EXCEPT !.stage = "READ", !.actor = actor]
    OBVIOUS
  <2>3. UNCHANGED <<A!accounts, A!tokens>> /\ call' = [call EXCEPT ![w] = d]
    BY <1>1, <1>4, <2>1, <2>2 DEF A!ReadActor, A!IInv
  <2>4. c.stage = "ARRIVED" /\ c.user \in Users
    BY <1>1, <1>2, <1>4 DEF A!ReadActor, A!CallFits
  <2>5. actor \in [active : BOOLEAN, operator : BOOLEAN, admin : SUBSET Shelters,
                   staff : SUBSET Shelters]
    BY <2>1, <2>4 DEF A!Actor, A!IInv, A!TypeOK
  <2>6. /\ d \in A!CallDoc /\ d.stage = "READ" /\ d.user = c.user /\ d.stood = c.stood
        /\ d.actor = actor
    BY <1>2, <2>2, <2>5 DEF A!CallDoc
  <2>7. A!Passes(d) => A!WouldPass(c)
    <3>1. PICK e : e = [c EXCEPT !.actor = actor]
      OBVIOUS
    <3>2. d.own = e.own /\ d.need = e.need /\ d.shelter = e.shelter /\ d.actor = e.actor
      BY <1>2, <2>2, <3>1 DEF A!CallDoc
    <3>3. A!Passes(d) => A!Passes(e)
      BY <3>2 DEF A!Passes
    <3> QED BY <2>1, <3>1, <3>3 DEF A!WouldPass
  <2>8. A!CallFits(d)
    BY <1>2, <2>4, <2>6, <2>7 DEF A!CallFits
  <2>9. A!CallFits(d)'
    BY <2>3, <2>8, StillFits
  <2> QED BY <2>3, <2>6, <2>9, OneCallMoves
<1>5. CASE A!Serve(w)
  <2>1. PICK d : d = [c EXCEPT !.stage = "SERVED"]
    OBVIOUS
  <2>2. UNCHANGED <<A!accounts, A!tokens>> /\ call' = [call EXCEPT ![w] = d]
    BY <1>1, <1>5, <2>1 DEF A!Serve, A!IInv
  <2>3. c.stage = "READ" /\ A!Passes(c)
    BY <1>1, <1>5 DEF A!Serve
  <2>4. /\ d \in A!CallDoc /\ d.stage = "SERVED" /\ d.user = c.user
        /\ d.stood = c.stood /\ d.signed = c.signed
    BY <1>2, <2>1 DEF A!CallDoc
  <2>5. A!CallFits(d)
    BY <1>2, <2>3, <2>4 DEF A!CallFits
  <2>6. A!CallFits(d)'
    BY <2>2, <2>5, StillFits
  <2> QED BY <2>2, <2>4, <2>6, OneCallMoves
<1>6. CASE A!Refuse(w) \/ A!Reply(w)
  <2>1. A!CallFits(A!NoCall)'
    BY NoCallFits DEF A!NoCall
  <2> QED BY <1>6, <2>1, NoCallFits, OneCallMoves DEF A!Refuse, A!Reply
<1> QED BY <1>3, <1>4, <1>5, <1>6, ArriveKeeps DEF A!CallStep

LEMMA AccessInitially == ASSUME A!Init PROVE A!IInv
<1>1. A!CallFits(A!NoCall)
  BY DEF A!CallFits, A!NoCall
<1>2. A!TypeOK
  BY NoCallFits DEF A!Init, A!TypeOK
<1> QED BY <1>1, <1>2 DEF A!Init, A!IInv

LEMMA AccessKeeps ==
    ASSUME A!IInv, A!AccessAssumption, [A!Next]_(A!accessVars)
    PROVE  A!IInv'
<1>1. CASE UNCHANGED A!accessVars
  BY <1>1, TokensMove DEF A!accessVars, A!accounts, A!tokens, A!IInv, A!TypeOK
<1> QED BY <1>1, UserKeeps, CallKeeps DEF A!Next

\* However requests arrive, read their member and are served while roles and
\* accounts change and tokens come and go.
THEOREM AccessInvariant == ASSUME A!AccessAssumption PROVE A!Spec => []A!IInv
<1>1. A!Init => A!IInv
  BY AccessInitially
<1>2. A!IInv /\ [A!Next]_(A!accessVars) => A!IInv'
  BY AccessKeeps
<1> QED BY <1>1, <1>2, PTL DEF A!Spec

LEMMA AccessMoves == MCSpec => A!Spec
<1>1. MCInit => A!Init
  BY DEF MCInit
<1>2. [MCNext]_allVars => [A!Next]_(A!accessVars)
  BY DEF MCNext, allVars, accessVars, A!accessVars, A!accounts, A!tokens
<1> QED BY <1>1, <1>2, PTL DEF MCSpec, A!Spec

LEMMA AccessHolds == MCSpec => []A!IInv
<1>1. A!AccessAssumption
  BY ConstantsFit
<1> QED BY <1>1, AccessInvariant, AccessMoves, PTL

\* However roles and accounts change while requests are served, and whatever
\* tokens are about, no signed request is served to a member who has not had
\* the standing it needs at any moment since it arrived.
THEOREM RevocationReachesRequests == MCSpec => []RevocationIsImmediate
<1>1. A!IInv => RevocationIsImmediate
  <2> SUFFICES ASSUME A!IInv, NEW w \in Servers, A!Served(w) PROVE call[w].stood
    BY DEF RevocationIsImmediate, A!RevocationIsImmediate
  <2>1. call[w].signed = FALSE \/ call[w].stood = TRUE
    BY DEF A!IInv, A!CallFits, A!Served
  <2> QED BY <2>1 DEF A!Served
<1> QED BY <1>1, AccessHolds, PTL

-----------------------------------------------------------------------------
\* The four components

LEMMA VolunteerHolds == MCSpec => []IInv
<1>1. VolunteerAssumption
  BY ConstantsFit
<1>2. MCInit => Init
  BY DEF MCInit
<1>3. [MCNext]_allVars => [Next]_vars
  BY DEF MCNext, allVars, volunteerVars
<1> QED BY <1>1, <1>2, <1>3, InvariantHolds, PTL DEF MCSpec, Spec

\* Every state of sessions, requests, erasure and volunteering has its shape and
\* what the proofs rest on, for any number of each.
THEOREM ShapesHold == MCSpec => []Shapes
<1>1. S!IInv /\ A!IInv /\ E!IInv /\ IInv => Shapes
  BY DEF Shapes
<1> QED BY <1>1, SessionsHold, AccessHolds, ErasureHolds, VolunteerHolds, PTL
=============================================================================
