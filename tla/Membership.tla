------------------------------ MODULE Membership ------------------------------
(***************************************************************************)
(* Who may act for a shelter: shelters and their verification, the roles   *)
(* of members, and the sanctions of the operators.                         *)
(*                                                                         *)
(* Transactions are as in Placement: reads of the latest commit, then one  *)
(* commit of guarded saves.  A save of a member writes nickname, roles and *)
(* status back together, so two use-cases that have nothing to do with one *)
(* another compete for one document.  In the place of version numbers a    *)
(* request knows which of its copies somebody has saved since (stale): a   *)
(* save increments the version, and the guard compares for equality, so    *)
(* the guard holds exactly for a copy that is not stale.                   *)
(***************************************************************************)
EXTENDS Integers, FiniteSets

CONSTANTS
    Users,        \* registered members
    Operators,    \* those with the role SYSTEM_ADMIN
    Shelters,
    Workers,      \* requests being served at the same time
    MaxRequests,  \* bound: approval requests
    NoUser, NoShelter

ASSUME MembershipAssumption ==
    /\ Operators \subseteq Users
    /\ MaxRequests \in Nat
    /\ NoUser \notin Users
    /\ NoShelter \notin Shelters

VARIABLES
    user,         \* the users collection
    shelter,      \* the shelters collection
    request,      \* the approval requests, numbered in order of creation
    rows,         \* rows[r][t]: insert-only rows written about request r
    removed,      \* history: removed[u][s], times u was removed from s's staff
    txn           \* txn[w]: what worker w is doing and the copies it has read

vars == <<user, shelter, request, rows, removed, txn>>

Requests == 1..MaxRequests

UserStatus == {"ACTIVE", "SUSPENDED", "WITHDRAWN"}

ShelterStatus == {"PENDING_VERIFICATION", "VERIFIED", "REJECTED"}

ApprovalType == {"SHELTER_VERIFICATION", "STAFF_PROMOTION"}

ApprovalStatus == {"PENDING", "APPROVED", "REJECTED"}

RowTypes == {"SUBMIT_ACTION", "DECIDE_ACTION", "APPROVED_EVENT", "DECIDED_NOTICE"}

\* admin and staff: the shelters of a member's grants of each role.
NewUserDoc == [status |-> "ACTIVE", admin |-> {}, staff |-> {}]

NoShelterDoc == [status |-> "ABSENT", rep |-> NoUser]

NoRequestDoc == [type |-> "NONE", shelter |-> NoShelter, subject |-> NoUser,
                 requester |-> NoUser, status |-> "ABSENT"]

IdleTxn == [op |-> "IDLE", step |-> "none", approve |-> FALSE, actor |-> NoUser,
            user |-> NoUser, shelter |-> NoShelter, request |-> 0,
            seenUser |-> NewUserDoc, seenShelter |-> NoShelterDoc,
            seenRequest |-> NoRequestDoc, stale |-> {}]

Init ==
    /\ user = [u \in Users |-> NewUserDoc]
    /\ shelter = [s \in Shelters |-> NoShelterDoc]
    /\ request = [r \in Requests |-> NoRequestDoc]
    /\ rows = [r \in Requests |-> [t \in RowTypes |-> 0]]
    /\ removed = [u \in Users |-> [s \in Shelters |-> 0]]
    /\ txn = [w \in Workers |-> IdleTxn]

-----------------------------------------------------------------------------
\* Roles

HasAdminRole(u, s) == u \in Operators \/ s \in user[u].admin

CanManageShelter(u, s) == HasAdminRole(u, s) \/ s \in user[u].staff

-----------------------------------------------------------------------------
\* Saves.  Each guard is that of the repository's update.

UserFreshNeverChecked(t) == TRUE

UserFresh(t) == "user" \notin t.stale

ShelterFreshNeverChecked(t) == TRUE

ShelterFresh(t) == "shelter" \notin t.stale

RequestFreshNeverChecked(t) == TRUE

RequestFresh(t) == "request" \notin t.stale

SaveUser(t, doc) ==
    /\ UserFresh(t)
    /\ user' = [user EXCEPT ![t.user] = doc]

SaveShelter(t, status) ==
    /\ ShelterFresh(t)
    /\ shelter' = [shelter EXCEPT ![t.shelter] = [t.seenShelter EXCEPT !.status = status]]

SaveRequest(t, status) ==
    /\ RequestFresh(t)
    /\ request' = [request EXCEPT ![t.request] = [t.seenRequest EXCEPT !.status = status]]

\* Rows inserted about request r, each of types once.
Insert(r, types) ==
    rows' = [rows EXCEPT ![r] = [t \in RowTypes |->
                                   IF t \in types THEN @[t] + 1 ELSE @[t]]]

\* SubmitApproval: a new request, pending, and its first action.
Submit(type, s, subject, requester) ==
    LET r == 1 + Cardinality({q \in Requests : request[q].status # "ABSENT"}) IN
    /\ r \in Requests
    /\ request' = [request EXCEPT ![r] =
                     [type |-> type, shelter |-> s, subject |-> subject,
                      requester |-> requester, status |-> "PENDING"]]
    /\ Insert(r, {"SUBMIT_ACTION"})

\* x holds a copy of the document d that t saves.
Holds(x, d, t) ==
    \/ d = "user" /\ x.user = t.user
    \/ d = "shelter" /\ x.shelter = t.shelter /\ x.seenShelter # NoShelterDoc
    \/ d = "request" /\ x.request = t.request

FinishSameVersion(w, docs) ==
    txn' = [txn EXCEPT ![w] = IdleTxn]

\* w is done and has saved docs: the copies others hold of them are stale.
Finish(w, docs) ==
    txn' = [x \in Workers |->
              IF x = w \/ txn[x].op = "IDLE" THEN IdleTxn
              ELSE [txn[x] EXCEPT !.stale =
                      @ \cup {d \in docs : Holds(txn[x], d, txn[w])}]]

-----------------------------------------------------------------------------
\* Reads.  Each takes the copy its use-case works on.

At(w, op, step) == txn[w].op = op /\ txn[w].step = step

Begin(w, t) ==
    /\ txn[w].op = "IDLE"
    /\ txn' = [txn EXCEPT ![w] = t]
    /\ UNCHANGED <<user, shelter, request, rows, removed>>

ReadUser(w, u, step) ==
    /\ txn' = [txn EXCEPT ![w].user = u, ![w].seenUser = user[u], ![w].step = step]
    /\ UNCHANGED <<user, shelter, request, rows, removed>>

ReadShelter(w, s, step) ==
    /\ shelter[s].status # "ABSENT"
    /\ txn' = [txn EXCEPT ![w].shelter = s, ![w].seenShelter = shelter[s],
                          ![w].step = step]
    /\ UNCHANGED <<user, shelter, request, rows, removed>>

-----------------------------------------------------------------------------
\* Registration of a shelter, and its profile

\* Nothing is read: one commit.  The registrant's status does not matter.
RegisterShelter(u, s) ==
    /\ shelter[s].status = "ABSENT"
    /\ shelter' = [shelter EXCEPT ![s] = [status |-> "PENDING_VERIFICATION", rep |-> u]]
    /\ Submit("SHELTER_VERIFICATION", s, NoUser, u)
    /\ UNCHANGED <<user, removed, txn>>

BeginEdit(w, a, s) ==
    /\ CanManageShelter(a, s)
    /\ Begin(w, [IdleTxn EXCEPT !.op = "EDIT", !.step = "shelter", !.shelter = s])

ReadEdited(w) ==
    /\ At(w, "EDIT", "shelter")
    /\ ReadShelter(w, txn[w].shelter, "commit")

\* The profile is data; the save writes the status back as it was read.
CommitEdit(w) ==
    /\ At(w, "EDIT", "commit")
    /\ SaveShelter(txn[w], txn[w].seenShelter.status)
    /\ Finish(w, {"shelter"})
    /\ UNCHANGED <<user, request, rows, removed>>

-----------------------------------------------------------------------------
\* Staff

BeginPromotion(w, a, s) ==
    /\ HasAdminRole(a, s)
    /\ Begin(w, [IdleTxn EXCEPT !.op = "PROMOTE", !.step = "user", !.shelter = s])

ReadCandidate(w, u) ==
    /\ At(w, "PROMOTE", "user")
    /\ user[u].status = "ACTIVE"
    /\ txn[w].shelter \notin user[u].staff
    /\ u \notin Operators
    /\ ReadUser(w, u, "commit")

\* Nothing is saved that was read: no guard, and nobody looks for a request
\* that is pending already.  Who asked is never looked at again.
CommitPromotion(w) ==
    LET t == txn[w] IN
    /\ At(w, "PROMOTE", "commit")
    /\ Submit("STAFF_PROMOTION", t.shelter, t.user, NoUser)
    /\ Finish(w, {})
    /\ UNCHANGED <<user, shelter, removed>>

BeginRemoval(w, a, s) ==
    /\ HasAdminRole(a, s)
    /\ Begin(w, [IdleTxn EXCEPT !.op = "REMOVE", !.step = "user", !.shelter = s])

ReadRemoved(w, u) ==
    /\ At(w, "REMOVE", "user")
    /\ txn[w].shelter \in user[u].staff
    /\ ReadUser(w, u, "commit")

CommitRemoval(w) ==
    LET t == txn[w] IN
    /\ At(w, "REMOVE", "commit")
    /\ SaveUser(t, [t.seenUser EXCEPT !.staff = @ \ {t.shelter}])
    /\ removed' = [removed EXCEPT ![t.user][t.shelter] = @ + 1]
    /\ Finish(w, {"user"})
    /\ UNCHANGED <<shelter, request, rows>>

-----------------------------------------------------------------------------
\* Decisions, and the callbacks of the two types

\* The request is read first, then the actor.  A request that is decided
\* already ends in an error.
BeginDecide(w, r, a, approve) ==
    /\ request[r].status = "PENDING"
    /\ Begin(w, [IdleTxn EXCEPT !.op = "DECIDE", !.step = "actor", !.actor = a,
                                !.approve = approve, !.request = r,
                                !.seenRequest = request[r]])

\* An operator decides on a shelter; the staff decides on staff, too.
Authorized(t) ==
    IF t.seenRequest.type = "SHELTER_VERIFICATION"
      THEN t.actor \in Operators
      ELSE CanManageShelter(t.actor, t.seenRequest.shelter)

Authorize(w) ==
    LET t == txn[w] IN
    /\ At(w, "DECIDE", "actor")
    /\ Authorized(t)
    /\ txn' = [txn EXCEPT ![w].actor = NoUser, ![w].step =
                 IF t.seenRequest.type = "SHELTER_VERIFICATION" THEN "shelter"
                 ELSE IF t.approve THEN "user" ELSE "commit"]
    /\ UNCHANGED <<user, shelter, request, rows, removed>>

ReadVerified(w) ==
    LET t == txn[w] IN
    /\ At(w, "DECIDE", "shelter")
    /\ shelter[t.seenRequest.shelter].status = "PENDING_VERIFICATION"
    /\ ReadShelter(w, t.seenRequest.shelter, IF t.approve THEN "user" ELSE "commit")

ReadGranteeInactive(w) ==
    LET q == txn[w].seenRequest IN
    /\ At(w, "DECIDE", "user")
    /\ ReadUser(w, IF q.type = "SHELTER_VERIFICATION" THEN q.requester ELSE q.subject,
                "commit")

\* The representative becomes administrator, the candidate staff: an active
\* member who is not one already.
ReadGrantee(w) ==
    LET q == txn[w].seenRequest
        verification == q.type = "SHELTER_VERIFICATION"
        u == IF verification THEN q.requester ELSE q.subject
    IN
    /\ At(w, "DECIDE", "user")
    /\ user[u].status = "ACTIVE"
    /\ q.shelter \notin IF verification THEN user[u].admin ELSE user[u].staff
    /\ ReadUser(w, u, "commit")

CommitVerify(w) ==
    LET t == txn[w] IN
    /\ At(w, "DECIDE", "commit")
    /\ t.approve
    /\ t.seenRequest.type = "SHELTER_VERIFICATION"
    /\ SaveRequest(t, "APPROVED")
    /\ SaveShelter(t, "VERIFIED")
    /\ SaveUser(t, [t.seenUser EXCEPT !.admin = @ \cup {t.shelter}])
    /\ Insert(t.request, {"DECIDE_ACTION", "APPROVED_EVENT", "DECIDED_NOTICE"})
    /\ Finish(w, {"request", "shelter", "user"})
    /\ UNCHANGED removed

CommitReject(w) ==
    LET t == txn[w] IN
    /\ At(w, "DECIDE", "commit")
    /\ ~t.approve
    /\ SaveRequest(t, "REJECTED")
    /\ IF t.seenRequest.type = "SHELTER_VERIFICATION"
         THEN /\ SaveShelter(t, "REJECTED")
              /\ Insert(t.request, {"DECIDE_ACTION", "DECIDED_NOTICE"})
         ELSE /\ UNCHANGED shelter
              /\ Insert(t.request, {"DECIDE_ACTION"})
    /\ Finish(w, {"request", "shelter"})
    /\ UNCHANGED <<user, removed>>

CommitPromote(w) ==
    LET t == txn[w] IN
    /\ At(w, "DECIDE", "commit")
    /\ t.approve
    /\ t.seenRequest.type = "STAFF_PROMOTION"
    /\ SaveRequest(t, "APPROVED")
    /\ SaveUser(t, [t.seenUser EXCEPT !.staff = @ \cup {t.seenRequest.shelter}])
    /\ Insert(t.request, {"DECIDE_ACTION", "APPROVED_EVENT", "DECIDED_NOTICE"})
    /\ Finish(w, {"request", "user"})
    /\ UNCHANGED <<shelter, removed>>

-----------------------------------------------------------------------------
\* The account: one read, one save of the whole document

\* An operator suspends an active member who is not an operator.
BeginSanction(w, a, u) ==
    /\ a \in Operators
    /\ u \notin Operators
    /\ user[u].status = "ACTIVE"
    /\ Begin(w, [IdleTxn EXCEPT !.op = "SANCTION", !.step = "commit", !.user = u,
                                !.seenUser = user[u]])

BeginReinstate(w, a, u) ==
    /\ a \in Operators
    /\ user[u].status = "SUSPENDED"
    /\ Begin(w, [IdleTxn EXCEPT !.op = "REINSTATE", !.step = "commit", !.user = u,
                                !.seenUser = user[u]])

\* A member's own: withdraw, or change the nickname.
BeginOwn(w, op, u) ==
    /\ user[u].status = "ACTIVE"
    /\ Begin(w, [IdleTxn EXCEPT !.op = op, !.step = "commit", !.user = u,
                                !.seenUser = user[u]])

\* The nickname is data: a rename writes the rest back as it was read.
StatusAfter(op) ==
    CASE op = "SANCTION"  -> "SUSPENDED"
      [] op = "REINSTATE" -> "ACTIVE"
      [] op = "WITHDRAW"  -> "WITHDRAWN"
      [] op = "RENAME"    -> "ACTIVE"

CommitAccount(w) ==
    LET t == txn[w] IN
    /\ t.op \in {"SANCTION", "REINSTATE", "WITHDRAW", "RENAME"}
    /\ SaveUser(t, [t.seenUser EXCEPT !.status = StatusAfter(t.op)])
    /\ Finish(w, {"user"})
    /\ UNCHANGED <<shelter, request, rows, removed>>

\* A stale copy, an error of the domain, a crash or the driver's retry.
Abort(w) ==
    /\ txn[w].op # "IDLE"
    /\ txn' = [txn EXCEPT ![w] = IdleTxn]
    /\ UNCHANGED <<user, shelter, request, rows, removed>>

-----------------------------------------------------------------------------
BeginStep(w) ==
    \/ \E u \in Users, s \in Shelters :
          BeginEdit(w, u, s) \/ BeginPromotion(w, u, s) \/ BeginRemoval(w, u, s)
    \/ \E r \in Requests, a \in Users, approve \in BOOLEAN : BeginDecide(w, r, a, approve)
    \/ \E a, u \in Users : BeginSanction(w, a, u) \/ BeginReinstate(w, a, u)
    \/ \E u \in Users, op \in {"WITHDRAW", "RENAME"} : BeginOwn(w, op, u)

ReadStep(w) ==
    \/ \E u \in Users : ReadCandidate(w, u) \/ ReadRemoved(w, u)
    \/ ReadEdited(w) \/ Authorize(w) \/ ReadVerified(w) \/ ReadGrantee(w)

CommitStep(w) ==
    \/ CommitEdit(w) \/ CommitPromotion(w) \/ CommitRemoval(w)
    \/ CommitVerify(w) \/ CommitReject(w) \/ CommitPromote(w) \/ CommitAccount(w)

Next ==
    \/ \E u \in Users, s \in Shelters : RegisterShelter(u, s)
    \/ \E w \in Workers : BeginStep(w) \/ ReadStep(w) \/ CommitStep(w) \/ Abort(w)

Spec == Init /\ [][Next]_vars

-----------------------------------------------------------------------------
\* Properties

UserDoc == [status : UserStatus, admin : SUBSET Shelters, staff : SUBSET Shelters]

ShelterDoc == [status : ShelterStatus \cup {"ABSENT"}, rep : Users \cup {NoUser}]

RequestDoc ==
    [type : ApprovalType \cup {"NONE"}, shelter : Shelters \cup {NoShelter},
     subject : Users \cup {NoUser}, requester : Users \cup {NoUser},
     status : ApprovalStatus \cup {"ABSENT"}]

Txn ==
    [op : {"IDLE", "EDIT", "PROMOTE", "REMOVE", "DECIDE", "SANCTION", "REINSTATE",
           "WITHDRAW", "RENAME"},
     step : {"none", "actor", "shelter", "user", "commit"}, approve : BOOLEAN,
     actor : Users \cup {NoUser}, user : Users \cup {NoUser},
     shelter : Shelters \cup {NoShelter}, request : Requests \cup {0},
     seenUser : UserDoc, seenShelter : ShelterDoc, seenRequest : RequestDoc,
     stale : SUBSET {"user", "shelter", "request"}]

\* Documents and the copies of requests in progress have the code's shape.
TypeOK ==
    /\ user \in [Users -> UserDoc]
    /\ shelter \in [Shelters -> ShelterDoc]
    /\ request \in [Requests -> RequestDoc]
    /\ rows \in [Requests -> [RowTypes -> Nat]]
    /\ removed \in [Users -> [Shelters -> Nat]]
    /\ txn \in [Workers -> Txn]

\* The request, the shelter and the grant agree: a shelter awaits its decision,
\* or it is verified and its representative is its administrator, and nobody
\* else; no save of a member written meanwhile loses the grant, and a profile
\* edit does not take the verification back.
VerificationAgrees ==
    /\ \A s \in Shelters : shelter[s].status # "ABSENT" =>
          \E r \in Requests :
             /\ request[r].type = "SHELTER_VERIFICATION"
             /\ request[r].shelter = s
             /\ <<request[r].status, shelter[s].status>> \in
                   {<<"PENDING", "PENDING_VERIFICATION">>, <<"APPROVED", "VERIFIED">>,
                    <<"REJECTED", "REJECTED">>}
    /\ \A s \in Shelters, u \in Users :
          s \in user[u].admin <=> shelter[s].status = "VERIFIED" /\ shelter[s].rep = u

Promotions(u, s) ==
    {r \in Requests : /\ request[r].type = "STAFF_PROMOTION"
                      /\ request[r].subject = u
                      /\ request[r].shelter = s
                      /\ request[r].status = "APPROVED"}

\* Each approved promotion has put the member on the staff, each removal has
\* taken the member off it: none is lost to another save of the document, and
\* of two requests for the same member only one is approved at a time.
StaffAccounted ==
    \A u \in Users, s \in Shelters :
        Cardinality(Promotions(u, s))
          = removed[u][s] + (IF s \in user[u].staff THEN 1 ELSE 0)

\* A decision is written down, announced and notified once; what was aborted
\* is not.  The rejection of a promotion tells nobody.
DecisionsTold ==
    \A r \in Requests :
        LET q == request[r]
            Once(t, told) == rows[r][t] = IF told THEN 1 ELSE 0
        IN
        /\ Once("SUBMIT_ACTION", q.status # "ABSENT")
        /\ Once("DECIDE_ACTION", q.status \in {"APPROVED", "REJECTED"})
        /\ Once("APPROVED_EVENT", q.status = "APPROVED")
        /\ Once("DECIDED_NOTICE", \/ q.status = "APPROVED"
                                  \/ /\ q.status = "REJECTED"
                                     /\ q.type = "SHELTER_VERIFICATION")

Reinstating(u) ==
    \E w \in Workers : txn[w].op = "REINSTATE" /\ txn[w].user = u /\ txn'[w] = IdleTxn

\* A sanction stands until an operator lifts it: no rename, promotion or
\* verification that read the member before writes the old status back.
SanctionsHold ==
    [][\A u \in Users :
          user[u].status = "SUSPENDED" /\ user'[u].status # "SUSPENDED"
            => Reinstating(u)]_vars

R == INSTANCE Roles WITH
        status <- [u \in Users |-> user[u].status],
        admin <- [u \in Users |-> user[u].admin],
        staff <- [u \in Users |-> user[u].staff]

\* The services implement the roles of members as single steps: a grant is
\* made to a member who is active when it is made, and one thing changes at a
\* time.
RolesSpec == R!Spec
=============================================================================
