-------------------------------- MODULE Access --------------------------------
(***************************************************************************)
(* Signed requests against accounts and roles that change.                 *)
(*                                                                         *)
(* A token says only who the member is.  A use-case reads the member from  *)
(* the store, then what the request is about, and only then decides; in    *)
(* between the member may be suspended, withdrawn, promoted or removed.    *)
(* Neither the guard nor the rotation of tokens looks at the account.      *)
(***************************************************************************)
EXTENDS Routes

CONSTANTS
    Users,
    Shelters,
    Servers,       \* requests being served at the same time
    None

\* What is asked of the constants.
AccessAssumption == None \notin Users

VARIABLES
    operators,     \* members with the role SYSTEM_ADMIN, which nobody gives or takes
    status,        \* status[u]: the account of u
    admin,         \* admin[u]: shelters u administers
    staff,         \* staff[u]: shelters u works for
    access,        \* members who hold an access token that has not expired
    refresh,       \* members who hold a refresh token that can be rotated
    call           \* call[w]: the request w serves

accounts == <<operators, status, admin, staff>>
tokens == <<access, refresh>>
accessVars == <<accounts, tokens, call>>

NoActor == [active |-> FALSE, operator |-> FALSE, admin |-> {}, staff |-> {}]

\* own: the caller is the owner of the document.  actor: what has been read.
\* stood, barred: history, its caller has had the standing it needs at some time
\* since it arrived, has been suspended all the time.
NoCall == [stage |-> "IDLE", user |-> None, shelter |-> None, own |-> FALSE,
           need |-> {}, signed |-> FALSE, actor |-> NoActor, stood |-> FALSE,
           barred |-> FALSE]

Init ==
    /\ operators \in SUBSET Users
    /\ status = [u \in Users |-> "ACTIVE"]
    /\ admin \in [Users -> SUBSET Shelters]
    /\ staff = [u \in Users |-> {}]
    /\ access = {}
    /\ refresh = {}
    /\ call = [w \in Servers |-> NoCall]

-----------------------------------------------------------------------------
\* The user's own predicates

Actor(u) == [active |-> status[u] = "ACTIVE", operator |-> u \in operators,
             admin |-> admin[u], staff |-> staff[u]]

HasShelterAdmin(a, s) == a.operator \/ s \in a.admin

CanManageSomeShelter(a, s) == HasShelterAdmin(a, s) \/ a.staff # {}

CanManageShelter(a, s) == HasShelterAdmin(a, s) \/ s \in a.staff

HasSomeShelterRole(a) == a.admin # {} \/ a.staff # {}

Passes(c) ==
    \/ "MEMBER" \in c.need
    \/ "OWNER" \in c.need /\ c.own
    \/ "ACTIVE" \in c.need /\ c.actor.active
    \/ "STAFF" \in c.need /\ CanManageShelter(c.actor, c.shelter)
    \/ "SHELTER_ADMIN" \in c.need /\ HasShelterAdmin(c.actor, c.shelter)
    \/ "SOME_SHELTER" \in c.need /\ HasSomeShelterRole(c.actor)
    \/ "OPERATOR" \in c.need /\ c.actor.operator

\* The same from the accounts themselves, for the history.
Stands(c) ==
    LET u == c.user
        s == c.shelter
        held == {"MEMBER"}
                \cup (IF c.own THEN {"OWNER"} ELSE {})
                \cup (IF status'[u] = "ACTIVE" THEN {"ACTIVE"} ELSE {})
                \cup (IF s \in staff'[u] THEN {"STAFF"} ELSE {})
                \cup (IF s \in admin'[u] THEN {"STAFF", "SHELTER_ADMIN"} ELSE {})
                \cup (IF staff'[u] \cup admin'[u] # {} THEN {"SOME_SHELTER"} ELSE {})
                \cup (IF u \in operators THEN {"STAFF", "SHELTER_ADMIN", "OPERATOR"}
                                         ELSE {})
    IN  c.need \cap held # {}

Witness(c) ==
    IF c.user = None THEN c
    ELSE [c EXCEPT !.stood = @ \/ Stands(c),
                   !.barred = @ /\ status'[c.user] = "SUSPENDED"]

-----------------------------------------------------------------------------
\* Accounts and roles (see Membership)

Change ==
    /\ call' = [w \in Servers |-> IF call[w].stage \in {"ARRIVED", "READ"}
                                    THEN Witness(call[w]) ELSE call[w]]
    /\ UNCHANGED tokens

Move(u, from, to) ==
    /\ status[u] = from
    /\ status' = [status EXCEPT ![u] = to]
    /\ UNCHANGED <<operators, admin, staff>>
    /\ Change

Suspend(u) == u \notin operators /\ Move(u, "ACTIVE", "SUSPENDED")

Reinstate(u) == Move(u, "SUSPENDED", "ACTIVE")

Withdraw(u) == Move(u, "ACTIVE", "WITHDRAWN")

Promote(u, s) ==
    /\ status[u] = "ACTIVE"
    /\ s \notin staff[u]
    /\ staff' = [staff EXCEPT ![u] = @ \cup {s}]
    /\ UNCHANGED <<operators, status, admin>>
    /\ Change

Remove(u, s) ==
    /\ s \in staff[u]
    /\ staff' = [staff EXCEPT ![u] = @ \ {s}]
    /\ UNCHANGED <<operators, status, admin>>
    /\ Change

-----------------------------------------------------------------------------
\* Tokens (see Sessions)

Login(u) ==
    /\ status[u] = "ACTIVE"
    /\ access' = access \cup {u}
    /\ refresh' = refresh \cup {u}
    /\ UNCHANGED <<accounts, call>>

\* The account is not looked at.
Rotate(u) ==
    /\ u \in refresh
    /\ access' = access \cup {u}
    /\ UNCHANGED <<accounts, refresh, call>>

AccessExpires(u) ==
    /\ access' = access \ {u}
    /\ UNCHANGED <<accounts, refresh, call>>

\* A log-out, or the erasure of a withdrawn member's credentials.
EndSession(u) ==
    /\ refresh' = refresh \ {u}
    /\ UNCHANGED <<accounts, access, call>>

-----------------------------------------------------------------------------
\* Requests

\* A request without a token, which only an open route lets through.
ArriveUnsigned(w, r) ==
    /\ call[w] = NoCall
    /\ ~r.signed
    /\ call' = [call EXCEPT ![w] = [NoCall EXCEPT !.stage = "READ", !.need = r.need]]
    /\ UNCHANGED <<accounts, tokens>>

\* The guard verifies the token and takes the member's id from it.
Arrive(w, u, r) ==
    /\ call[w] = NoCall
    /\ r.signed => u \in access
    /\ UNCHANGED <<accounts, tokens>>
    /\ \E s \in Shelters, own \in BOOLEAN :
          call' = [call EXCEPT ![w] =
                     Witness([NoCall EXCEPT !.stage = "ARRIVED", !.user = u,
                                            !.shelter = s, !.own = own,
                                            !.need = r.need, !.signed = r.signed,
                                            !.barred = TRUE])]

ReadActor(w) ==
    /\ call[w].stage = "ARRIVED"
    /\ call' = [call EXCEPT ![w].stage = "READ",
                            ![w].actor = Actor(call[w].user)]
    /\ UNCHANGED <<accounts, tokens>>

Serve(w) ==
    /\ call[w].stage = "READ"
    /\ Passes(call[w])
    /\ call' = [call EXCEPT ![w].stage = "SERVED"]
    /\ UNCHANGED <<accounts, tokens>>

Refuse(w) ==
    /\ call[w].stage = "READ"
    /\ ~Passes(call[w])
    /\ call' = [call EXCEPT ![w] = NoCall]
    /\ UNCHANGED <<accounts, tokens>>

Reply(w) ==
    /\ call[w].stage = "SERVED"
    /\ call' = [call EXCEPT ![w] = NoCall]
    /\ UNCHANGED <<accounts, tokens>>

-----------------------------------------------------------------------------
UserStep(u) ==
    \/ Suspend(u) \/ Reinstate(u) \/ Withdraw(u)
    \/ \E s \in Shelters : Promote(u, s) \/ Remove(u, s)
    \/ Login(u) \/ Rotate(u) \/ AccessExpires(u) \/ EndSession(u)

CallStep(w) ==
    \/ \E r \in Routes : ArriveUnsigned(w, r) \/ \E u \in Users : Arrive(w, u, r)
    \/ ReadActor(w) \/ Serve(w) \/ Refuse(w) \/ Reply(w)

Next ==
    \/ \E u \in Users : UserStep(u)
    \/ \E w \in Servers : CallStep(w)

Spec == Init /\ [][Next]_accessVars

-----------------------------------------------------------------------------
\* Properties

CallDoc ==
    [stage : {"IDLE", "ARRIVED", "READ", "SERVED"}, user : Users \cup {None},
     shelter : Shelters \cup {None}, own : BOOLEAN, need : SUBSET Standing,
     signed : BOOLEAN, stood : BOOLEAN, barred : BOOLEAN,
     actor : [active : BOOLEAN, operator : BOOLEAN, admin : SUBSET Shelters,
              staff : SUBSET Shelters]]

\* Accounts, tokens and requests have their shape.
TypeOK ==
    /\ operators \subseteq Users
    /\ status \in [Users -> {"ACTIVE", "SUSPENDED", "WITHDRAWN"}]
    /\ admin \in [Users -> SUBSET Shelters]
    /\ staff \in [Users -> SUBSET Shelters]
    /\ access \subseteq Users
    /\ refresh \subseteq Users
    /\ \A w \in Servers : call[w] \in CallDoc

Served(w) == call[w].stage = "SERVED" /\ call[w].signed

\* "Privilege changes take effect immediately rather than lingering until token
\* refresh": a signed request is served only if its caller has had the standing
\* it needs, at the shelter it names, at some moment since it arrived.
RevocationIsImmediate == \A w \in Servers : Served(w) => call[w].stood

\* What the comments on suspension claim ("the existing gates block them
\* everywhere", "blocks all actions") and the shelter gates do not do: they ask
\* for the role and not for the status.
SuspendedAreBlocked ==
    \A w \in Servers :
        Served(w) /\ call[w].need \subseteq {"ACTIVE", "STAFF", "SHELTER_ADMIN"}
            => ~call[w].barred
=============================================================================
