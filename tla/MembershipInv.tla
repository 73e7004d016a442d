---------------------------- MODULE MembershipInv ----------------------------
(***************************************************************************)
(* The inductive invariant of Membership.                                  *)
(*                                                                         *)
(* It says two things beyond the properties.  Documents: each shelter has  *)
(* one verification request, whose status and the shelter's go together.   *)
(* Copies: one that nobody saved since is the document as stored, and a    *)
(* use-case that is about to commit has checked on its copies what the     *)
(* properties need of the documents.                                       *)
(***************************************************************************)
EXTENDS Membership

-----------------------------------------------------------------------------
\* Documents

IsVerification(r) == request[r].type = "SHELTER_VERIFICATION"

\* The status of a verification request and of its shelter, at any time.
Agree == {<<"PENDING", "PENDING_VERIFICATION">>, <<"APPROVED", "VERIFIED">>,
          <<"REJECTED", "REJECTED">>}

RequestFormed(r) ==
    LET q == request[r] IN
    \/ q = NoRequestDoc
    \/ /\ q.type = "SHELTER_VERIFICATION"
       /\ q.status # "ABSENT"
       /\ q.shelter \in Shelters
       /\ q.requester \in Users
       /\ shelter[q.shelter].rep = q.requester
       /\ <<q.status, shelter[q.shelter].status>> \in Agree
    \/ /\ q.type = "STAFF_PROMOTION"
       /\ q.status # "ABSENT"
       /\ q.shelter \in Shelters
       /\ q.subject \in Users

RequestsFormed == \A r \in Requests : RequestFormed(r)

OneVerification ==
    \A r1, r2 \in Requests :
        IsVerification(r1) /\ IsVerification(r2) /\ request[r1].shelter = request[r2].shelter
          => r1 = r2

ShelterAsked ==
    \A s \in Shelters :
        shelter[s].status # "ABSENT" =>
            \E r \in Requests : IsVerification(r) /\ request[r].shelter = s

Numbered ==
    \E n \in 0..MaxRequests : \A r \in Requests : request[r].status # "ABSENT" <=> r <= n

OneAdministrator ==
    \A s \in Shelters, u \in Users :
        s \in user[u].admin <=> shelter[s].status = "VERIFIED" /\ shelter[s].rep = u

\* What the stored documents say of one another, whoever wrote them.
Documents ==
    /\ RequestsFormed
    /\ OneVerification
    /\ ShelterAsked
    /\ Numbered
    /\ OneAdministrator
    /\ StaffAccounted
    /\ DecisionsTold

-----------------------------------------------------------------------------
\* Copies

UserCopy(t) == t.user # NoUser /\ UserFresh(t) => t.seenUser = user[t.user]

ShelterCopy(t) ==
    t.seenShelter # NoShelterDoc /\ ShelterFresh(t) => t.seenShelter = shelter[t.shelter]

RequestCopy(t) ==
    t.op = "DECIDE" =>
        LET q == request[t.request] IN
        /\ t.seenRequest.type = q.type
        /\ t.seenRequest.shelter = q.shelter
        /\ t.seenRequest.subject = q.subject
        /\ t.seenRequest.requester = q.requester
        /\ q.status # "ABSENT"
        /\ RequestFresh(t) => t.seenRequest = q

Current(t) == UserCopy(t) /\ ShelterCopy(t) /\ RequestCopy(t)

Grantee(q) == IF q.type = "SHELTER_VERIFICATION" THEN q.requester ELSE q.subject

Grants(q, u) == IF q.type = "SHELTER_VERIFICATION" THEN u.admin ELSE u.staff

StatusBefore(op) == IF op = "REINSTATE" THEN "SUSPENDED" ELSE "ACTIVE"

AccountOps == {"SANCTION", "REINSTATE", "WITHDRAW", "RENAME"}

\* What a use-case holds and has checked, at each of its steps.
Prepared(t) ==
    /\ t.seenShelter # NoShelterDoc =>
          t.shelter \in Shelters /\ t.seenShelter.status # "ABSENT"
    /\ t.op = "EDIT" =>
          /\ t.shelter \in Shelters
          /\ t.step = "commit" => t.seenShelter # NoShelterDoc
    /\ t.op = "PROMOTE" =>
          t.shelter \in Shelters /\ (t.step = "commit" => t.user \in Users)
    /\ t.op = "REMOVE" =>
          /\ t.shelter \in Shelters
          /\ t.step = "commit" => t.user \in Users /\ t.shelter \in t.seenUser.staff
    /\ t.op \in AccountOps =>
          /\ t.user \in Users
          /\ t.seenUser.status = StatusBefore(t.op)
          /\ t.op = "SANCTION" => t.user \notin Operators
    /\ t.op = "DECIDE" =>
          LET q == t.seenRequest IN
          /\ t.request \in Requests
          /\ q.status = "PENDING"
          /\ t.step = "shelter" => q.type = "SHELTER_VERIFICATION"
          /\ t.step = "user" => t.approve
          /\ q.type = "SHELTER_VERIFICATION" /\ t.step \in {"user", "commit"} =>
                t.shelter = q.shelter /\ t.seenShelter.status = "PENDING_VERIFICATION"
          /\ t.approve /\ t.step = "commit" =>
                /\ t.user = Grantee(q)
                /\ t.seenUser.status = "ACTIVE"
                /\ q.shelter \notin Grants(q, t.seenUser)

Ready(t) == Current(t) /\ Prepared(t)

\* What every use-case in progress holds.
Copies == \A w \in Workers : Ready(txn[w])

\* Requests, shelters and grants agree, and no use-case is about to save from a copy
\* that passes the version guard and is not the document (decide-approval.service.ts,
\* user-persistence.adapter.ts): what every save of a whole document relies on.
IInv == TypeOK /\ Documents /\ Copies
=============================================================================
