------------------------------ MODULE SessionsInv ------------------------------
(***************************************************************************)
(* The inductive invariant of Sessions.  There are no versions: what a     *)
(* request has read is only worth that the row was issued, and to whom.    *)
(* An issued row never becomes unused again, which is what the properties  *)
(* rest on.                                                                *)
(***************************************************************************)
EXTENDS Sessions

Issued(t) == token[t].status # "UNISSUED"

\* A row belongs to a member and to the family of a token issued before it;
\* a signed token has a row, if only a deleted one.
RowsKnown ==
    \A t \in Tokens :
        /\ Issued(t) => /\ token[t].user \in Users
                        /\ token[t].family \in Tokens /\ Issued(token[t].family)
        /\ ~Issued(t) => token[t] = NoRow
        /\ jwt[t] # "NONE" => Issued(t)
        /\ parent[t] # NoToken => Issued(parent[t])

\* A rotation is of an issued token and for its owner; nothing else has seen a row.
RequestKnown(r) ==
    /\ r.op = "IDLE" => r = IdleReq
    /\ r.op = "ISSUE" => r.user \in Users /\ r.token = NoToken /\ r.seen = "UNISSUED"
    /\ r.op = "ROTATE" => /\ r.token \in Tokens /\ Issued(r.token)
                          /\ r.user = token[r.token].user
                          /\ r.seen \in {"ACTIVE", "ROTATED"}

RequestsKnown == \A w \in Workers : RequestKnown(req[w])

LoggedOutIssued == \A f \in loggedOut : Issued(f)

\* Sessions are erased only of members who have withdrawn, for good.
ClearedWithdrew == \A u \in cleared : account[u] \in {"WITHDRAWN", "ERASED"}

IInv ==
    /\ TypeOK
    /\ RowsKnown
    /\ RequestsKnown
    /\ LoggedOutIssued
    /\ ClearedWithdrew
    /\ OneLineUnlessRaced
    /\ SuccessorSpendsParent
    /\ LogoutIsFinal
=============================================================================
