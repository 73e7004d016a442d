------------------------------- MODULE Policies -------------------------------
(***************************************************************************)
(* Publication of the versions of policies, and the members' consents.     *)
(*                                                                         *)
(* The next version is read outside the transaction that archives the one  *)
(* in force and inserts its successor.  Nothing holds a version lock: the  *)
(* unique index on (type, version) is the only guard.                      *)
(***************************************************************************)
EXTENDS Integers

CONSTANTS
    Types,           \* kinds of policies
    MaxVersion,      \* bound: versions of a type
    Citizens,        \* members who consent
    Clerks,          \* requests being served at the same time
    NoType, NoCitizen

PolicyAssumption == MaxVersion \in Nat

VARIABLES
    policy,          \* policy[k][v]: version v of type k
    consent,         \* consent[u][k]: the standing consent of u to k
    desk,            \* desk[w]: the request w serves and what it has read
    overtaken        \* history: grants in whose course a version was published

policyVars == <<policy, consent, desk, overtaken>>

Versions == 1..MaxVersion

NoConsent == [status |-> "NONE", version |-> 0]

Idle == [op |-> "IDLE", type |-> NoType, user |-> NoCitizen, version |-> 0,
         seen |-> NoConsent]

Init ==
    /\ policy = [k \in Types |-> [v \in Versions |-> "ABSENT"]]
    /\ consent = [u \in Citizens |-> [k \in Types |-> NoConsent]]
    /\ desk = [w \in Clerks |-> Idle]
    /\ overtaken = {}

-----------------------------------------------------------------------------
InEffect(k) == {v \in Versions : policy[k][v] = "PUBLISHED"}

Written(k) == {v \in Versions : policy[k][v] # "ABSENT"}

\* One more than the highest.
NextVersion(k) == CHOOSE n \in 1..(MaxVersion + 1) :
                     /\ n = 1 \/ n - 1 \in Written(k)
                     /\ \A v \in Written(k) : v < n

Granting(w) == desk[w].op \in {"GRANT_READ", "GRANT"}

BeginPublish(w, k) ==
    /\ desk[w] = Idle
    /\ NextVersion(k) \in Versions
    /\ desk' = [desk EXCEPT ![w] = [Idle EXCEPT !.op = "PUBLISH", !.type = k,
                                                !.version = NextVersion(k)]]
    /\ UNCHANGED <<policy, consent, overtaken>>

IndexNeverChecked(k, v) == TRUE

\* The unique index on type and version.
IndexFree(k, v) == policy[k][v] = "ABSENT"

\* archiveCurrent, then the insert.
CommitPublish(w) ==
    LET t == desk[w] IN
    /\ t.op = "PUBLISH"
    /\ IndexFree(t.type, t.version)
    /\ policy' = [policy EXCEPT ![t.type] =
                    [v \in Versions |->
                       IF v = t.version THEN "PUBLISHED"
                       ELSE IF @[v] = "PUBLISHED" THEN "ARCHIVED" ELSE @[v]]]
    /\ desk' = [desk EXCEPT ![w] = Idle]
    /\ overtaken' = overtaken \cup {x \in Clerks : Granting(x) /\ desk[x].type = t.type}
    /\ UNCHANGED consent

-----------------------------------------------------------------------------
\* Whatever version was submitted.
BeginGrantOfAny(w, u, k) ==
    /\ desk[w] = Idle
    /\ \E v \in Written(k) :
          desk' = [desk EXCEPT ![w] = [Idle EXCEPT !.op = "GRANT_READ", !.type = k,
                                                   !.user = u, !.version = v]]
    /\ UNCHANGED <<policy, consent, overtaken>>

\* The version submitted must be the one in effect when it is read.
BeginGrant(w, u, k) ==
    /\ desk[w] = Idle
    /\ \E v \in InEffect(k) :
          desk' = [desk EXCEPT ![w] = [Idle EXCEPT !.op = "GRANT_READ", !.type = k,
                                                   !.user = u, !.version = v]]
    /\ UNCHANGED <<policy, consent, overtaken>>

ReadStanding(w) ==
    LET t == desk[w] IN
    /\ t.op = "GRANT_READ"
    /\ desk' = [desk EXCEPT ![w].op = "GRANT", ![w].seen = consent[t.user][t.type]]
    /\ UNCHANGED <<policy, consent, overtaken>>

BeginWithdraw(w, u, k) ==
    /\ desk[w] = Idle
    /\ consent[u][k].status = "GRANTED"
    /\ desk' = [desk EXCEPT ![w] = [op |-> "WITHDRAW", type |-> k, user |-> u,
                                    version |-> consent[u][k].version,
                                    seen |-> consent[u][k]]]
    /\ UNCHANGED <<policy, consent, overtaken>>

\* An insert meets the unique index on member and type; an update overwrites
\* whatever was written since.
CommitConsent(w) ==
    LET t == desk[w]
        written == [status |-> IF t.op = "GRANT" THEN "GRANTED" ELSE "WITHDRAWN",
                    version |-> t.version]
    IN
    /\ t.op \in {"GRANT", "WITHDRAW"}
    /\ t.seen = NoConsent => consent[t.user][t.type] = NoConsent
    /\ consent' = [consent EXCEPT ![t.user][t.type] = written]
    /\ desk' = [desk EXCEPT ![w] = Idle]
    /\ overtaken' = overtaken \ {w}
    /\ UNCHANGED policy

Abort(w) ==
    /\ desk[w] # Idle
    /\ desk' = [desk EXCEPT ![w] = Idle]
    /\ overtaken' = overtaken \ {w}
    /\ UNCHANGED <<policy, consent>>

-----------------------------------------------------------------------------
Next ==
    \E w \in Clerks :
       \/ \E k \in Types : BeginPublish(w, k)
       \/ \E k \in Types, u \in Citizens : BeginGrant(w, u, k) \/ BeginWithdraw(w, u, k)
       \/ ReadStanding(w)
       \/ CommitPublish(w)
       \/ CommitConsent(w)
       \/ Abort(w)

Spec == Init /\ [][Next]_policyVars

-----------------------------------------------------------------------------
\* Properties

StandingConsent == [status : {"NONE", "GRANTED", "WITHDRAWN"}, version : 0..MaxVersion]

\* Documents, consents and requests have their shape.
TypeOK ==
    /\ policy \in [Types -> [Versions -> {"ABSENT", "PUBLISHED", "ARCHIVED"}]]
    /\ consent \in [Citizens -> [Types -> StandingConsent]]
    /\ desk \in [Clerks ->
         [op : {"IDLE", "PUBLISH", "GRANT_READ", "GRANT", "WITHDRAW"},
          type : Types \cup {NoType}, user : Citizens \cup {NoCitizen},
          version : 0..MaxVersion, seen : StandingConsent]]
    /\ overtaken \subseteq Clerks

\* Two operators publish at once, and still exactly one version is in effect:
\* the last one, and no version is skipped or reused.
OneInEffect ==
    \A k \in Types :
        \/ Written(k) = {}
        \/ \E last \in Versions : Written(k) = 1..last /\ InEffect(k) = {last}

\* No consent is recorded to a version that is not in effect, "a stale form
\* can't silently record consent to an outdated document", unless the version
\* was archived while the grant was under way: it is not looked at again.
ConsentIsCurrentUnlessOvertaken ==
    [][\A w \in Clerks :
          desk[w].op = "GRANT" /\ w \notin overtaken /\ consent' # consent /\ desk'[w] = Idle
            => LET t == desk[w] IN
               /\ consent'[t.user][t.type] = [status |-> "GRANTED", version |-> t.version]
               /\ InEffect(t.type) = {t.version}]_policyVars
=============================================================================
