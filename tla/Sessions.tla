------------------------------- MODULE Sessions -------------------------------
(***************************************************************************)
(* Sign-up, login, refresh-token rotation, logout, and what the account    *)
(* and its erasure do to the sessions.                                     *)
(*                                                                         *)
(* A rotation reads the presented token outside its transaction, then      *)
(* writes in one: others may log out, rotate or erase in between, and      *)
(* neither write looks at what it overwrites.  Overlapping transactions on *)
(* the same rows conflict and one is run again from its read, so each      *)
(* transaction's writes are one step.                                      *)
(*                                                                         *)
(* A family is named by the token its login issued.  A definition named    *)
(* after another with a slip in it (CommitRotateReplayed) is that          *)
(* definition with a plausible bug, and is not part of the specification.  *)
(***************************************************************************)
EXTENDS Integers, FiniteSets

CONSTANTS
    Tokens,       \* refresh-token identities (jti)
    Users,
    Workers,      \* requests being served at the same time
    NoToken, NoUser

\* What is asked of the constants.
SessionsAssumption == NoToken \notin Tokens /\ NoUser \notin Users

VARIABLES
    account,      \* account[u]: the status of member u
    token,        \* the refresh_tokens collection
    jwt,          \* jwt[t]: what verifying the signed token t says
    req,          \* req[w]: the request worker w serves
    parent,       \* history: the token whose rotation issued t
    raced,        \* history: families with overlapping rotations of one token
    loggedOut,    \* history: families logged out while none was being rotated
    cleared       \* history: members whose sessions the erasure has deleted

history == <<parent, raced, loggedOut, cleared>>
vars == <<account, token, jwt, req, parent, raced, loggedOut, cleared>>

AccountStatus == {"ABSENT", "ACTIVE", "SUSPENDED", "WITHDRAWN", "ERASED"}

\* UNISSUED: no such jti yet.  GONE: the row was deleted; its jti is not used
\* again, and family and user only say what the row said.
TokenStatus == {"UNISSUED", "ACTIVE", "ROTATED", "REVOKED", "GONE"}

NoRow == [status |-> "UNISSUED", family |-> NoToken, user |-> NoUser]

IdleReq == [op |-> "IDLE", user |-> NoUser, token |-> NoToken, seen |-> "UNISSUED"]

Init ==
    /\ account = [u \in Users |-> "ABSENT"]
    /\ token = [t \in Tokens |-> NoRow]
    /\ jwt = [t \in Tokens |-> "NONE"]
    /\ req = [w \in Workers |-> IdleReq]
    /\ parent = [t \in Tokens |-> NoToken]
    /\ raced = {}
    /\ loggedOut = {}
    /\ cleared = {}

Stored(t) == token[t].status \in {"ACTIVE", "ROTATED", "REVOKED"}

Family(f) == {t \in Tokens : token[t].family = f}

OwnedBy(u) == {t \in Tokens : token[t].user = u}

\* Rotations that will issue a token, for all their request knows.
Rotating(t) == {w \in Workers : req[w].op = "ROTATE" /\ req[w].token = t
                                /\ req[w].seen = "ACTIVE"}

-----------------------------------------------------------------------------
\* Accounts (each a transaction of its own).

Change(u, from, to) ==
    /\ account[u] = from
    /\ account' = [account EXCEPT ![u] = to]

Suspend(u) ==
    /\ Change(u, "ACTIVE", "SUSPENDED")
    /\ UNCHANGED <<token, jwt, req, history>>

Reinstate(u) ==
    /\ Change(u, "SUSPENDED", "ACTIVE")
    /\ UNCHANGED <<token, jwt, req, history>>

Withdraw(u) ==
    /\ Change(u, "ACTIVE", "WITHDRAWN")
    /\ UNCHANGED <<token, jwt, req, history>>

\* The erasure's first task: deletes every session of a withdrawn member.
EraseCredentials(u) ==
    /\ account[u] = "WITHDRAWN"
    /\ token' = [t \in Tokens |->
                   IF t \in OwnedBy(u) THEN [token[t] EXCEPT !.status = "GONE"]
                                       ELSE token[t]]
    /\ cleared' = cleared \cup {u}
    /\ UNCHANGED <<account, jwt, req, parent, raced, loggedOut>>

\* Its last task, a transaction of its own: no login finds the email again.
EraseIdentity(u) ==
    /\ u \in cleared
    /\ Change(u, "WITHDRAWN", "ERASED")
    /\ UNCHANGED <<token, jwt, req, history>>

-----------------------------------------------------------------------------
\* Starting a session

StartIssue(w, u) ==
    /\ req[w] = IdleReq
    /\ req' = [req EXCEPT ![w] = [IdleReq EXCEPT !.op = "ISSUE", !.user = u]]

\* Registers the account and, in another transaction, opens its session.
SignUp(w, u) ==
    /\ Change(u, "ABSENT", "ACTIVE")
    /\ StartIssue(w, u)
    /\ UNCHANGED <<token, jwt, history>>

LoginInactive(w, u) ==
    /\ account[u] \in {"ACTIVE", "SUSPENDED", "WITHDRAWN"}
    /\ StartIssue(w, u)
    /\ UNCHANGED <<account, token, jwt, history>>

\* The account is checked here, before issue's transaction begins.
Login(w, u) ==
    /\ account[u] = "ACTIVE"
    /\ StartIssue(w, u)
    /\ UNCHANGED <<account, token, jwt, history>>

Done(w) == req' = [req EXCEPT ![w] = IdleReq]

RowSwapped(f, u) == [status |-> "ACTIVE", family |-> u, user |-> f]

Row(f, u) == [status |-> "ACTIVE", family |-> f, user |-> u]

CommitIssue(w, t) ==
    /\ req[w].op = "ISSUE"
    /\ token[t].status = "UNISSUED"
    /\ token' = [token EXCEPT ![t] = Row(t, req[w].user)]
    /\ jwt' = [jwt EXCEPT ![t] = "VALID"]
    /\ Done(w)
    /\ UNCHANGED <<account, history>>

-----------------------------------------------------------------------------
\* Rotation

\* Verifies the token and reads its row; the account is not looked at.
Present(w, t) ==
    /\ jwt[t] = "VALID"
    /\ Stored(t)
    /\ token[t].status # "REVOKED"
    /\ req[w] = IdleReq
    /\ req' = [req EXCEPT ![w] = [IdleReq EXCEPT !.op = "ROTATE",
                                                 !.user = token[t].user,
                                                 !.token = t,
                                                 !.seen = token[t].status]]
    /\ raced' = IF token[t].status = "ACTIVE" /\ Rotating(t) # {}
                  THEN raced \cup {token[t].family} ELSE raced
    /\ UNCHANGED <<account, token, jwt, parent, loggedOut, cleared>>

\* markRotated: by jti alone, whatever the row has become; none if deleted.
MarkRotatedForgotten(t) == token

MarkRotated(t) ==
    IF Stored(t) THEN [token EXCEPT ![t].status = "ROTATED"] ELSE token

Rotate(w, t) ==
    LET old == req[w].token IN
    /\ req[w].op = "ROTATE"
    /\ token[t].status = "UNISSUED"
    /\ token' = [MarkRotated(old) EXCEPT ![t] = Row(token[old].family, req[w].user)]
    /\ jwt' = [jwt EXCEPT ![t] = "VALID"]
    /\ parent' = [parent EXCEPT ![t] = old]
    /\ Done(w)
    /\ UNCHANGED <<account, raced, loggedOut, cleared>>

CommitRotateReplayed(w, t) == Rotate(w, t)

CommitRotate(w, t) ==
    /\ req[w].seen # "ROTATED"
    /\ Rotate(w, t)

\* revokeFamily is called in the rotation's transaction, and the error thrown
\* after it aborts that transaction: nothing is revoked.
DetectReuse(w) ==
    /\ req[w].op = "ROTATE"
    /\ req[w].seen = "ROTATED"
    /\ Done(w)
    /\ UNCHANGED <<account, token, jwt, history>>

-----------------------------------------------------------------------------
\* Ending sessions

RevokedOnly(t, f) == [token EXCEPT ![t].status = "REVOKED"]

\* Every row of the family, whatever its status.
Revoked(t, f) ==
    [s \in Tokens |-> IF s \in Family(f) /\ Stored(s)
                        THEN [token[s] EXCEPT !.status = "REVOKED"] ELSE token[s]]

\* The family is the sid claim of the token presented: no row is read.
Logout(t) ==
    LET f == token[t].family IN
    /\ jwt[t] = "VALID"
    /\ token' = Revoked(t, f)
    /\ loggedOut' = IF \A s \in Family(f) : Rotating(s) = {}
                      THEN loggedOut \cup {f} ELSE loggedOut
    /\ UNCHANGED <<account, jwt, req, parent, raced, cleared>>

Expire(t) ==
    /\ jwt[t] = "VALID"
    /\ jwt' = [jwt EXCEPT ![t] = "EXPIRED"]
    /\ UNCHANGED <<account, token, req, history>>

\* The TTL index removes the row some time after it expires.
DeleteExpired(t) ==
    /\ jwt[t] = "EXPIRED"
    /\ Stored(t)
    /\ token' = [token EXCEPT ![t].status = "GONE"]
    /\ UNCHANGED <<account, jwt, req, history>>

\* An error, a crash, or the driver running the transaction again.
Abort(w) ==
    /\ req[w] # IdleReq
    /\ Done(w)
    /\ UNCHANGED <<account, token, jwt, history>>

-----------------------------------------------------------------------------
AccountStep(u) ==
    \/ Suspend(u)
    \/ Reinstate(u)
    \/ Withdraw(u)
    \/ EraseCredentials(u)
    \/ EraseIdentity(u)

RequestStep(w) ==
    \/ \E u \in Users : SignUp(w, u) \/ Login(w, u)
    \/ \E t \in Tokens : CommitIssue(w, t) \/ Present(w, t) \/ CommitRotate(w, t)
    \/ DetectReuse(w)
    \/ Abort(w)

TokenStep(t) ==
    \/ Logout(t)
    \/ Expire(t)
    \/ DeleteExpired(t)

Next ==
    \/ \E u \in Users : AccountStep(u)
    \/ \E w \in Workers : RequestStep(w)
    \/ \E t \in Tokens : TokenStep(t)

Spec == Init /\ [][Next]_vars

-----------------------------------------------------------------------------
\* Properties

\* Every row, signed token and request has the shape the code gives it.
TypeOK ==
    /\ account \in [Users -> AccountStatus]
    /\ token \in [Tokens -> [status : TokenStatus, family : Tokens \cup {NoToken},
                             user : Users \cup {NoUser}]]
    /\ jwt \in [Tokens -> {"NONE", "VALID", "EXPIRED"}]
    /\ req \in [Workers -> [op : {"IDLE", "ISSUE", "ROTATE"},
                            user : Users \cup {NoUser},
                            token : Tokens \cup {NoToken},
                            seen : TokenStatus]]
    /\ parent \in [Tokens -> Tokens \cup {NoToken}]
    /\ raced \subseteq Tokens
    /\ loggedOut \subseteq Tokens
    /\ cleared \subseteq Users

\* A family is one line of tokens: at any time one token of it can be rotated,
\* by one request, unless two rotations of the same token have overlapped.
OneLineUnlessRaced ==
    \A s, t \in Tokens :
        /\ token[s].family = token[t].family
        /\ token[s].family \in Tokens \ raced
        /\ token[s].status = "ACTIVE" \/ Rotating(s) # {}
        /\ token[t].status = "ACTIVE" \/ Rotating(t) # {}
        => s = t /\ \A v, w \in Rotating(s) : v = w

\* A token that has a successor can never pass for unused: presenting it again
\* is always seen as a reuse, even where rotations raced.
SuccessorSpendsParent ==
    \A t \in Tokens : parent[t] # NoToken => token[parent[t]].status # "ACTIVE"

\* A logout that no rotation of the family overlaps ends the session for good:
\* no later refresh, and no request already under way, revives it.
LogoutIsFinal ==
    \A t \in Tokens :
        token[t].family \in loggedOut =>
            token[t].status # "ACTIVE" /\ Rotating(t) = {}

\* Requests under way that will give member u a session.
PendingFor(u) ==
    {w \in Workers : req[w].user = u /\ req[w].op # "IDLE" /\ req[w].seen # "ROTATED"}

SignedOut(u) ==
    /\ u \in cleared
    /\ PendingFor(u) = {}
    /\ \A t \in OwnedBy(u) : ~Stored(t)

\* Once the erasure has deleted a member's sessions and no request of that
\* member is under way, no session of the member can come back, although
\* neither the rotation nor the commit of a login looks at the account.
ErasedStaysOut == [][\A u \in Users : SignedOut(u) => SignedOut(u)']_vars

\* What the comments claim and the code does not do.

\* "the whole family is revoked" when a rotated token is presented again.
ReuseRevokesFamily ==
    [][\A w \in Workers : DetectReuse(w) =>
          \A t \in Family(token[req[w].token].family) : token'[t].status # "ACTIVE"]_vars

\* "single-use rotation": a token is exchanged for at most one other.
SingleUse ==
    \A s, t \in Tokens : parent[s] = parent[t] /\ parent[s] # NoToken => s = t
=============================================================================
