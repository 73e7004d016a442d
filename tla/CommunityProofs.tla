---------------------------- MODULE CommunityProofs ----------------------------
(***************************************************************************)
(* The safety of Policies, Threads and Editorial, for any number of        *)
(* members, operators, documents and concurrent requests, and the shapes   *)
(* of MCCommunity.                                                         *)
(*                                                                         *)
(* Policies: the versions of a type are 1..last and only the last is in    *)
(* effect; a publication under way carries a version all of whose          *)
(* predecessors are written, so the unique index lets it through only when *)
(* it is last + 1.  A grant in whose course nothing is published is to     *)
(* that one.                                                               *)
(*                                                                         *)
(* Threads: who is told of what is counted, so each step is argued about   *)
(* by what it adds to the counts: a message and its notice go together,    *)
(* and a thread that was opened owes one notice to each operator its       *)
(* request has left to alert.                                              *)
(*                                                                         *)
(* Editorial: the history of a document has one text for each version, so  *)
(* a save that matches the version it read writes over the text it read.   *)
(***************************************************************************)
EXTENDS CountsProofs, SequenceTheorems

-----------------------------------------------------------------------------
\* Policies

\* Versions are numbered without gaps, and the last is the one in effect.
Lined(k) ==
    \E last \in Nat : /\ last <= MaxVersion
                      /\ Written(k) = 1..last
                      /\ InEffect(k) = {v \in Versions : v = last}

\* A publication under way has read every version below its own.
PublishesNext(t) ==
    t.op = "PUBLISH" =>
        /\ t.type \in Types
        /\ t.version \in Versions
        /\ \A v \in Versions : v < t.version => v \in Written(t.type)

PolicyDocs == policy \in [Types -> [Versions -> {"ABSENT", "PUBLISHED", "ARCHIVED"}]]

PolicyInv ==
    /\ PolicyDocs
    /\ DOMAIN desk = Clerks
    /\ \A k \in Types : Lined(k)
    /\ \A w \in Clerks : PublishesNext(desk[w])

\* The next version is one more than the last (publish-policy.service.ts reads
\* the highest version and adds one).
LEMMA NextIsSuccessor ==
    ASSUME MaxVersion \in Nat, NEW k \in Types, NEW last \in Nat,
           last <= MaxVersion, Written(k) = 1..last
    PROVE  NextVersion(k) = last + 1
<1>1. last + 1 \in 1..(MaxVersion + 1) /\ (last + 1 = 1 \/ last + 1 - 1 \in Written(k))
        /\ \A v \in Written(k) : v < last + 1
  OBVIOUS
<1>2. ASSUME NEW n \in 1..(MaxVersion + 1), n = 1 \/ n - 1 \in Written(k),
             \A v \in Written(k) : v < n
      PROVE  n = last + 1
  BY <1>2
<1> QED BY <1>1, <1>2 DEF NextVersion

\* What does not touch the policies keeps their versions lined up, and every
\* publication that was under way and still is.
LEMMA PoliciesUntouched ==
    ASSUME PolicyInv, policy' = policy, NEW w \in Clerks, NEW t,
           desk' = [desk EXCEPT ![w] = t], PublishesNext(t)
    PROVE  PolicyInv'
<1>1. \A k : Written(k)' = Written(k) /\ InEffect(k)' = InEffect(k)
  BY DEF Written, InEffect
<1>2. \A k \in Types : Lined(k)'
  BY <1>1 DEF PolicyInv, Lined
<1>3. \A x \in Clerks : PublishesNext(desk'[x])
  BY DEF PolicyInv
<1>4. \A x \in Clerks : PublishesNext(desk[x])'
  BY <1>1, <1>3 DEF PublishesNext
<1> QED BY <1>2, <1>4 DEF PolicyInv, PolicyDocs

LEMMA IdlePublishesNothing == PublishesNext(Idle)
  BY DEF PublishesNext, Idle

\* The step that publishes: archiveCurrent and the insert, under the index.
LEMMA PublishKeepsLine ==
    ASSUME MaxVersion \in Nat, PolicyInv, NEW w \in Clerks, CommitPublish(w)
    PROVE  PolicyInv'
<1>1. PICK k, v : k = desk[w].type /\ v = desk[w].version
  OBVIOUS
<1>2. /\ k \in Types /\ v \in Versions
      /\ \A x \in Versions : x < v => x \in Written(k)
      /\ v \notin Written(k)
  BY <1>1 DEF PolicyInv, CommitPublish, PublishesNext, IndexFree, Written
<1>3. PICK last \in Nat : /\ last <= MaxVersion
                          /\ Written(k) = 1..last
                          /\ InEffect(k) = {x \in Versions : x = last}
  BY <1>2 DEF PolicyInv, Lined
<1>4. v = last + 1
  <2>1. v \in 1..MaxVersion /\ ~(v \in 1..last)
    BY <1>2, <1>3 DEF Versions
  <2>2. ~(last + 1 < v)
    <3> SUFFICES ASSUME last + 1 < v PROVE FALSE
      OBVIOUS
    <3>1. last + 1 \in Versions
      BY <1>2 DEF Versions
    <3> QED BY <1>2, <1>3, <3>1
  <2> QED BY <2>1, <2>2, <1>3
<1>5. policy' = [policy EXCEPT ![k] =
                   [x \in Versions |->
                      IF x = v THEN "PUBLISHED"
                      ELSE IF policy[k][x] = "PUBLISHED" THEN "ARCHIVED"
                      ELSE policy[k][x]]]
  BY <1>1, <1>2 DEF CommitPublish, PolicyInv, PolicyDocs
<1>6. \A j \in Types : j # k => policy'[j] = policy[j]
  BY <1>2, <1>5 DEF PolicyInv, PolicyDocs
<1>7. \A x \in Versions :
         policy'[k][x] = IF x = v THEN "PUBLISHED"
                         ELSE IF policy[k][x] = "PUBLISHED" THEN "ARCHIVED"
                         ELSE policy[k][x]
  BY <1>2, <1>5 DEF PolicyInv, PolicyDocs
<1>8. PolicyDocs'
  BY <1>2, <1>5 DEF PolicyInv, PolicyDocs
<1>9. Written(k)' = Written(k) \cup {v}
  BY <1>2, <1>7 DEF Written
<1>10. InEffect(k)' = {v}
  BY <1>2, <1>7 DEF InEffect
<1>11. \A j \in Types : Lined(j)'
  <2>1. ASSUME NEW j \in Types, j # k PROVE Lined(j)'
    <3>1. Written(j)' = Written(j) /\ InEffect(j)' = InEffect(j)
      BY <1>6, <2>1 DEF Written, InEffect
    <3> QED BY <3>1 DEF PolicyInv, Lined
  <2>2. Lined(k)'
    <3>1. last + 1 \in Nat /\ last + 1 <= MaxVersion
      BY <1>2, <1>4 DEF Versions
    <3>2. Written(k)' = 1..(last + 1)
      BY <1>3, <1>4, <1>9
    <3>3. InEffect(k)' = {x \in Versions : x = last + 1}
      BY <1>2, <1>4, <1>10
    <3> QED BY <3>1, <3>2, <3>3 DEF Lined
  <2> QED BY <2>1, <2>2
<1>12. \A j \in Types : Written(j) \subseteq Written(j)'
  BY <1>6, <1>9 DEF Written
<1>13. desk' = [desk EXCEPT ![w] = Idle]
  BY DEF CommitPublish
<1>14. \A x \in Clerks : PublishesNext(desk[x])'
  BY <1>12, <1>13 DEF PolicyInv, PublishesNext, Idle
<1> QED BY <1>8, <1>11, <1>13, <1>14 DEF PolicyInv

LEMMA PolicyInvInit == ASSUME MaxVersion \in Nat PROVE Init => PolicyInv
<1> SUFFICES ASSUME Init PROVE PolicyInv
  OBVIOUS
<1>1. \A k \in Types : Lined(k)
  <2> SUFFICES ASSUME NEW k \in Types PROVE Lined(k)
    OBVIOUS
  <2>1. Written(k) = 1..0 /\ InEffect(k) = {v \in Versions : v = 0}
    BY DEF Init, Written, InEffect, Versions
  <2> QED BY <2>1 DEF Lined
<1>2. \A w \in Clerks : PublishesNext(desk[w])
  BY IdlePublishesNothing DEF Init
<1> QED BY <1>1, <1>2 DEF Init, PolicyInv, PolicyDocs

LEMMA PolicyInvStep ==
    ASSUME MaxVersion \in Nat
    PROVE  PolicyInv /\ [Next]_policyVars => PolicyInv'
<1> SUFFICES ASSUME PolicyInv, [Next]_policyVars PROVE PolicyInv'
  OBVIOUS
<1>1. CASE UNCHANGED policyVars
  BY <1>1 DEF policyVars, PolicyInv, PolicyDocs, Lined, Written, InEffect, PublishesNext
<1>2. ASSUME NEW w \in Clerks, NEW k \in Types, BeginPublish(w, k)
      PROVE  PolicyInv'
  <2>1. PICK last \in Nat : last <= MaxVersion /\ Written(k) = 1..last
    BY DEF PolicyInv, Lined
  <2>2. NextVersion(k) = last + 1
    BY <2>1, NextIsSuccessor
  <2> DEFINE t == [Idle EXCEPT !.op = "PUBLISH", !.type = k,
                               !.version = NextVersion(k)]
  <2>3. t.type = k /\ t.version = last + 1
    BY <2>2 DEF Idle
  <2>4. last + 1 \in Versions /\ \A v \in Versions : v < last + 1 => v \in Written(k)
    BY <1>2, <2>1, <2>2 DEF BeginPublish, Versions
  <2>5. PublishesNext(t)
    BY <2>3, <2>4 DEF PublishesNext
  <2>6. policy' = policy /\ desk' = [desk EXCEPT ![w] = t]
    BY <1>2 DEF BeginPublish
  <2> HIDE DEF t
  <2> QED BY <2>5, <2>6, PoliciesUntouched
<1>3. ASSUME NEW w \in Clerks, NEW u \in Citizens, NEW k \in Types,
             BeginGrant(w, u, k) \/ BeginWithdraw(w, u, k)
      PROVE  PolicyInv'
  <2>1. CASE BeginGrant(w, u, k)
    <3>1. PICK v : desk' = [desk EXCEPT ![w] = [Idle EXCEPT !.op = "GRANT_READ",
                                       !.type = k, !.user = u, !.version = v]]
      BY <2>1 DEF BeginGrant
    <3> DEFINE t == [Idle EXCEPT !.op = "GRANT_READ", !.type = k, !.user = u,
                                 !.version = v]
    <3>2. PublishesNext(t)
      BY DEF PublishesNext, Idle
    <3>3. policy' = policy /\ desk' = [desk EXCEPT ![w] = t]
      BY <2>1, <3>1 DEF BeginGrant
    <3> HIDE DEF t
    <3> QED BY <3>2, <3>3, PoliciesUntouched
  <2>2. CASE BeginWithdraw(w, u, k)
    <3> DEFINE t == [op |-> "WITHDRAW", type |-> k, user |-> u,
                     version |-> consent[u][k].version, seen |-> consent[u][k]]
    <3>1. PublishesNext(t)
      BY DEF PublishesNext
    <3>2. policy' = policy /\ desk' = [desk EXCEPT ![w] = t]
      BY <2>2 DEF BeginWithdraw
    <3> HIDE DEF t
    <3> QED BY <3>1, <3>2, PoliciesUntouched
  <2> QED BY <1>3, <2>1, <2>2
<1>4. ASSUME NEW w \in Clerks, ReadStanding(w) PROVE PolicyInv'
  <2> DEFINE t == [desk[w] EXCEPT !.op = "GRANT",
                                  !.seen = consent[desk[w].user][desk[w].type]]
  <2>1. policy' = policy
    BY <1>4 DEF ReadStanding
  <2>2. \A x \in Clerks : /\ desk'[x].op = "PUBLISH" => desk'[x] = desk[x]
    BY <1>4 DEF ReadStanding, PolicyInv
  <2>3. DOMAIN desk' = Clerks
    BY <1>4 DEF ReadStanding, PolicyInv
  <2> QED BY <2>1, <2>2, <2>3 DEF PolicyInv, PolicyDocs, Lined, Written, InEffect,
       PublishesNext
<1>5. ASSUME NEW w \in Clerks, CommitPublish(w) PROVE PolicyInv'
  BY <1>5, PublishKeepsLine
<1>6. ASSUME NEW w \in Clerks, CommitConsent(w) \/ Abort(w) PROVE PolicyInv'
  <2>1. policy' = policy /\ desk' = [desk EXCEPT ![w] = Idle]
    BY <1>6 DEF CommitConsent, Abort
  <2> QED BY <2>1, IdlePublishesNothing, PoliciesUntouched
<1> QED BY <1>1, <1>2, <1>3, <1>4, <1>5, <1>6 DEF Next

\* However many operators publish at the same time, the versions of a policy
\* have no gap and no repetition, and exactly the last one is in effect.
THEOREM LastIsInEffect == ASSUME MaxVersion \in Nat PROVE Spec => []OneInEffect
<1>1. PolicyInv => OneInEffect
  <2> SUFFICES ASSUME PolicyInv, NEW k \in Types, Written(k) # {}
               PROVE  \E last \in Versions : Written(k) = 1..last /\ InEffect(k) = {last}
    BY DEF OneInEffect
  <2>1. PICK last \in Nat : /\ last <= MaxVersion
                            /\ Written(k) = 1..last
                            /\ InEffect(k) = {v \in Versions : v = last}
    BY DEF PolicyInv, Lined
  <2>2. last \in Versions
    BY <2>1 DEF Versions
  <2> QED BY <2>1, <2>2
<1>2. PolicyInv /\ [Next]_policyVars => PolicyInv'
  BY PolicyInvStep
<1>3. Init => PolicyInv
  BY PolicyInvInit
<1> QED BY <1>1, <1>2, <1>3, PTL DEF Spec

-----------------------------------------------------------------------------
\* A consent that is under way, and in whose course nothing was published, is
\* to the version in effect.
GrantsCurrent(w) ==
    Granting(w) =>
        /\ desk[w].type \in Types
        /\ desk[w].user \in Citizens
        /\ w \notin overtaken => desk[w].version \in InEffect(desk[w].type)

ConsentDocs ==
    /\ DOMAIN consent = Citizens
    /\ \A u \in Citizens : DOMAIN consent[u] = Types

GrantInv ==
    /\ PolicyInv
    /\ ConsentDocs
    /\ \A w \in Clerks : GrantsCurrent(w)

LEMMA GrantInvInit == ASSUME MaxVersion \in Nat PROVE Init => GrantInv
<1> SUFFICES ASSUME Init PROVE GrantInv
  OBVIOUS
<1>1. PolicyInv
  BY PolicyInvInit
<1>2. ConsentDocs
  BY DEF Init, ConsentDocs
<1>3. \A w \in Clerks : GrantsCurrent(w)
  BY DEF Init, GrantsCurrent, Granting, Idle
<1> QED BY <1>1, <1>2, <1>3 DEF GrantInv

LEMMA GrantInvStep ==
    ASSUME MaxVersion \in Nat
    PROVE  GrantInv /\ [Next]_policyVars => GrantInv'
<1> SUFFICES ASSUME GrantInv, [Next]_policyVars PROVE GrantInv'
  OBVIOUS
<1>1. PolicyInv'
  BY PolicyInvStep DEF GrantInv
<1>2. CASE UNCHANGED policyVars
  BY <1>1, <1>2 DEF policyVars, GrantInv, ConsentDocs, GrantsCurrent, Granting, InEffect
<1>3. ASSUME NEW w \in Clerks, NEW k \in Types, BeginPublish(w, k) PROVE GrantInv'
  <2>1. ConsentDocs'
    BY <1>3 DEF GrantInv, ConsentDocs, BeginPublish
  <2>2. ASSUME NEW x \in Clerks PROVE GrantsCurrent(x)'
    BY <1>3 DEF GrantInv, PolicyInv, GrantsCurrent, Granting, InEffect, BeginPublish, Idle
  <2> QED BY <1>1, <2>1, <2>2 DEF GrantInv
<1>4. ASSUME NEW w \in Clerks, NEW u \in Citizens, NEW k \in Types, BeginGrant(w, u, k)
      PROVE  GrantInv'
  <2>1. ConsentDocs'
    BY <1>4 DEF GrantInv, ConsentDocs, BeginGrant
  <2>2. PICK v \in InEffect(k) :
            desk' = [desk EXCEPT ![w] = [Idle EXCEPT !.op = "GRANT_READ",
                                       !.type = k, !.user = u, !.version = v]]
    BY <1>4 DEF BeginGrant
  <2>3. GrantsCurrent(w)'
    BY <1>4, <2>2 DEF GrantInv, PolicyInv, GrantsCurrent, Granting, InEffect, BeginGrant,
         Idle
  <2>4. ASSUME NEW x \in Clerks, x # w PROVE GrantsCurrent(x)'
    BY <1>4, <2>2, <2>4 DEF GrantInv, PolicyInv, GrantsCurrent, Granting, InEffect,
         BeginGrant
  <2> QED BY <1>1, <2>1, <2>3, <2>4 DEF GrantInv
<1>5. ASSUME NEW w \in Clerks, NEW u \in Citizens, NEW k \in Types, BeginWithdraw(w, u, k)
      PROVE  GrantInv'
  <2>1. ConsentDocs'
    BY <1>5 DEF GrantInv, ConsentDocs, BeginWithdraw
  <2>2. ASSUME NEW x \in Clerks PROVE GrantsCurrent(x)'
    BY <1>5 DEF GrantInv, PolicyInv, GrantsCurrent, Granting, InEffect, BeginWithdraw
  <2> QED BY <1>1, <2>1, <2>2 DEF GrantInv
<1>6. ASSUME NEW w \in Clerks, ReadStanding(w) PROVE GrantInv'
  <2>1. ConsentDocs'
    BY <1>6 DEF GrantInv, ConsentDocs, ReadStanding
  <2>2. \A x \in Clerks : /\ Granting(x)' => Granting(x)
                          /\ desk'[x].type = desk[x].type /\ desk'[x].user = desk[x].user
                          /\ desk'[x].version = desk[x].version
    BY <1>6 DEF GrantInv, PolicyInv, ReadStanding, Granting
  <2>3. ASSUME NEW x \in Clerks PROVE GrantsCurrent(x)'
    BY <1>6, <2>2 DEF GrantInv, GrantsCurrent, InEffect, ReadStanding
  <2> QED BY <1>1, <2>1, <2>3 DEF GrantInv
<1>7. ASSUME NEW w \in Clerks, CommitPublish(w) PROVE GrantInv'
  <2>1. ConsentDocs'
    BY <1>7 DEF GrantInv, ConsentDocs, CommitPublish
  <2>2. ASSUME NEW x \in Clerks, Granting(x)' PROVE GrantsCurrent(x)'
    <3>1. x # w /\ desk'[x] = desk[x]
      BY <1>7, <2>2 DEF GrantInv, PolicyInv, CommitPublish, Granting, Idle
    <3>2. Granting(x)
      BY <2>2, <3>1 DEF Granting
    <3>3. desk[x].type \in Types /\ desk[x].user \in Citizens
      BY <3>2 DEF GrantInv, GrantsCurrent
    <3>4. CASE desk[x].type = desk[w].type
      BY <1>7, <3>1, <3>2, <3>3, <3>4 DEF CommitPublish, GrantsCurrent
    <3>5. CASE desk[x].type # desk[w].type
      <4>1. policy'[desk[x].type] = policy[desk[x].type]
        BY <1>7, <3>3, <3>5 DEF GrantInv, PolicyInv, PolicyDocs, CommitPublish
      <4>2. x \notin overtaken' => x \notin overtaken
        BY <1>7 DEF CommitPublish
      <4> QED BY <3>1, <3>2, <4>1, <4>2 DEF GrantInv, GrantsCurrent, InEffect
    <3> QED BY <3>4, <3>5
  <2> QED BY <1>1, <2>1, <2>2 DEF GrantInv, GrantsCurrent
<1>8. ASSUME NEW w \in Clerks, CommitConsent(w) PROVE GrantInv'
  <2>1. ConsentDocs'
    BY <1>8 DEF GrantInv, ConsentDocs, CommitConsent
  <2>2. ASSUME NEW x \in Clerks PROVE GrantsCurrent(x)'
    BY <1>8 DEF GrantInv, PolicyInv, GrantsCurrent, Granting, InEffect, CommitConsent,
         Idle
  <2> QED BY <1>1, <2>1, <2>2 DEF GrantInv
<1>9. ASSUME NEW w \in Clerks, Abort(w) PROVE GrantInv'
  <2>1. ConsentDocs'
    BY <1>9 DEF GrantInv, ConsentDocs, Abort
  <2>2. ASSUME NEW x \in Clerks PROVE GrantsCurrent(x)'
    BY <1>9 DEF GrantInv, PolicyInv, GrantsCurrent, Granting, InEffect, Abort, Idle
  <2> QED BY <1>1, <2>1, <2>2 DEF GrantInv
<1> QED BY <1>2, <1>3, <1>4, <1>5, <1>6, <1>7, <1>8, <1>9 DEF Next

\* The property of one commit, for the request that makes it.
GrantCommits(w) ==
    desk[w].op = "GRANT" /\ w \notin overtaken /\ consent' # consent /\ desk'[w] = Idle
      => LET t == desk[w] IN
         /\ consent'[t.user][t.type] = [status |-> "GRANTED", version |-> t.version]
         /\ InEffect(t.type) = {t.version}

LEMMA GrantCommitsStep ==
    ASSUME MaxVersion \in Nat, GrantInv, [Next]_policyVars, NEW w \in Clerks
    PROVE  GrantCommits(w)
<1> SUFFICES ASSUME desk[w].op = "GRANT", w \notin overtaken, consent' # consent,
                    desk'[w] = Idle
             PROVE  LET t == desk[w] IN
                    /\ consent'[t.user][t.type] = [status |-> "GRANTED", version |-> t.version]
                    /\ InEffect(t.type) = {t.version}
  BY DEF GrantCommits
<1>1. PICK x \in Clerks : CommitConsent(x)
  BY DEF Next, policyVars, BeginPublish, BeginGrant, BeginWithdraw, ReadStanding,
         CommitPublish, Abort
<1>2. x = w
  BY <1>1 DEF GrantInv, PolicyInv, CommitConsent, Idle
<1>3. /\ desk[w].type \in Types /\ desk[w].user \in Citizens
      /\ desk[w].version \in InEffect(desk[w].type)
  BY DEF GrantInv, GrantsCurrent, Granting
<1>4. PICK last \in Nat : InEffect(desk[w].type) = {v \in Versions : v = last}
  BY <1>3 DEF GrantInv, PolicyInv, Lined
<1>5. InEffect(desk[w].type) = {desk[w].version}
  BY <1>3, <1>4
<1>6. consent'[desk[w].user][desk[w].type]
        = [status |-> "GRANTED", version |-> desk[w].version]
  BY <1>1, <1>2, <1>3 DEF GrantInv, ConsentDocs, CommitConsent
<1> QED BY <1>5, <1>6

\* However consents, withdrawals and publications overlap, a consent in whose
\* course nothing was published is to the version in effect at its commit.
THEOREM ConsentIsCurrent ==
    ASSUME MaxVersion \in Nat PROVE Spec => ConsentIsCurrentUnlessOvertaken
<1>1. Init => GrantInv
  BY GrantInvInit
<1>2. GrantInv /\ [Next]_policyVars => GrantInv'
  BY GrantInvStep
<1>3. GrantInv /\ [Next]_policyVars => [\A w \in Clerks : GrantCommits(w)]_policyVars
  BY GrantCommitsStep
<1>4. [\A w \in Clerks : GrantCommits(w)]_policyVars
        => [\A w \in Clerks :
              desk[w].op = "GRANT" /\ w \notin overtaken /\ consent' # consent /\ desk'[w] = Idle
                => LET t == desk[w] IN
                   /\ consent'[t.user][t.type] = [status |-> "GRANTED", version |-> t.version]
                   /\ InEffect(t.type) = {t.version}]_policyVars
  BY DEF GrantCommits
<1> QED BY <1>1, <1>2, <1>3, <1>4, PTL DEF Spec, ConsentIsCurrentUnlessOvertaken

PolicyTask ==
    [op : {"IDLE", "PUBLISH", "GRANT_READ", "GRANT", "WITHDRAW"},
     type : Types \cup {NoType}, user : Citizens \cup {NoCitizen},
     version : 0..MaxVersion, seen : StandingConsent]

\* A request that begins has its shape.
LEMMA TaskLiterals ==
    ASSUME MaxVersion \in Nat
    PROVE  /\ NoConsent \in StandingConsent
           /\ Idle \in PolicyTask
           /\ \A k \in Types, v \in Versions :
                [Idle EXCEPT !.op = "PUBLISH", !.type = k, !.version = v] \in PolicyTask
           /\ \A u \in Citizens, k \in Types, v \in Versions :
                [Idle EXCEPT !.op = "GRANT_READ", !.type = k, !.user = u, !.version = v]
                  \in PolicyTask
<1>1. NoConsent \in StandingConsent
  BY DEF NoConsent, StandingConsent
<1>2. Idle \in PolicyTask
  BY <1>1 DEF Idle, PolicyTask
<1>3. ASSUME NEW k \in Types, NEW v \in Versions
      PROVE  [Idle EXCEPT !.op = "PUBLISH", !.type = k, !.version = v] \in PolicyTask
  <2>1. PICK d : d = [Idle EXCEPT !.op = "PUBLISH", !.type = k, !.version = v]
    OBVIOUS
  <2>2. d = [op |-> "PUBLISH", type |-> k, user |-> NoCitizen, version |-> v,
             seen |-> NoConsent]
    BY <2>1 DEF Idle
  <2>3. d \in PolicyTask
    BY <1>1, <2>2 DEF PolicyTask, Versions
  <2> QED BY <2>1, <2>3, Zenon
<1>4. ASSUME NEW u \in Citizens, NEW k \in Types, NEW v \in Versions
      PROVE  [Idle EXCEPT !.op = "GRANT_READ", !.type = k, !.user = u, !.version = v]
               \in PolicyTask
  <2>1. PICK d : d = [Idle EXCEPT !.op = "GRANT_READ", !.type = k, !.user = u, !.version = v]
    OBVIOUS
  <2>2. d = [op |-> "GRANT_READ", type |-> k, user |-> u, version |-> v, seen |-> NoConsent]
    BY <2>1 DEF Idle
  <2>3. d \in PolicyTask
    BY <1>1, <2>2 DEF PolicyTask, Versions
  <2> QED BY <2>1, <2>3, Zenon
<1> QED BY <1>1, <1>2, <1>3, <1>4

\* A request that is taken or laid down leaves the rest as it was.
LEMMA TaskKeeps ==
    ASSUME TypeOK, NEW w \in Clerks, NEW t \in PolicyTask,
           desk' = [desk EXCEPT ![w] = t], UNCHANGED <<policy, consent>>,
           overtaken' \subseteq Clerks
    PROVE  TypeOK'
BY DEF TypeOK, PolicyTask

\* Every step keeps the shape, given what a grant under way refers to.
LEMMA PolicyShapeStep ==
    ASSUME MaxVersion \in Nat, GrantInv, TypeOK, [Next]_policyVars
    PROVE  TypeOK'
<1>1. CASE UNCHANGED policyVars
  BY <1>1 DEF policyVars, TypeOK
<1>2. ASSUME NEW w \in Clerks, NEW k \in Types, BeginPublish(w, k) PROVE TypeOK'
  <2>1. [Idle EXCEPT !.op = "PUBLISH", !.type = k, !.version = NextVersion(k)] \in PolicyTask
    BY <1>2, TaskLiterals DEF BeginPublish
  <2> QED BY <1>2, <2>1, TaskKeeps DEF BeginPublish, TypeOK
<1>3. ASSUME NEW w \in Clerks, NEW u \in Citizens, NEW k \in Types, BeginGrant(w, u, k)
      PROVE  TypeOK'
  <2>1. PICK v \in Versions :
          desk' = [desk EXCEPT ![w] = [Idle EXCEPT !.op = "GRANT_READ", !.type = k,
                                                   !.user = u, !.version = v]]
    BY <1>3 DEF BeginGrant, InEffect
  <2>2. [Idle EXCEPT !.op = "GRANT_READ", !.type = k, !.user = u, !.version = v] \in PolicyTask
    BY TaskLiterals
  <2> QED BY <1>3, <2>1, <2>2, TaskKeeps DEF BeginGrant, TypeOK
<1>4. ASSUME NEW w \in Clerks, NEW u \in Citizens, NEW k \in Types, BeginWithdraw(w, u, k)
      PROVE  TypeOK'
  <2>1. consent[u][k] \in StandingConsent
    BY DEF TypeOK
  <2>2. [op |-> "WITHDRAW", type |-> k, user |-> u, version |-> consent[u][k].version,
         seen |-> consent[u][k]] \in PolicyTask
    BY <2>1 DEF PolicyTask, StandingConsent
  <2> QED BY <1>4, <2>2, TaskKeeps DEF BeginWithdraw, TypeOK
<1>5. ASSUME NEW w \in Clerks, ReadStanding(w) PROVE TypeOK'
  <2>1. desk[w].user \in Citizens /\ desk[w].type \in Types
    BY <1>5 DEF ReadStanding, GrantInv, GrantsCurrent, Granting
  <2>2. consent[desk[w].user][desk[w].type] \in StandingConsent
    BY <2>1 DEF TypeOK
  <2>3. [desk[w] EXCEPT !.op = "GRANT", !.seen = consent[desk[w].user][desk[w].type]]
          \in PolicyTask
    BY <2>2 DEF TypeOK, PolicyTask
  <2>4. desk' = [desk EXCEPT ![w] = [desk[w] EXCEPT !.op = "GRANT",
                                       !.seen = consent[desk[w].user][desk[w].type]]]
    BY <1>5 DEF ReadStanding, TypeOK
  <2> QED BY <1>5, <2>3, <2>4, TaskKeeps DEF ReadStanding, TypeOK
<1>6. ASSUME NEW w \in Clerks, CommitPublish(w) PROVE TypeOK'
  <2>1. PolicyDocs'
    BY <1>6, PublishKeepsLine DEF GrantInv, PolicyInv
  <2>2. desk' = [desk EXCEPT ![w] = Idle] /\ consent' = consent /\ overtaken' \subseteq Clerks
    BY <1>6 DEF CommitPublish, TypeOK
  <2> QED BY <2>1, <2>2, TaskLiterals DEF TypeOK, PolicyDocs, PolicyTask
<1>7. ASSUME NEW w \in Clerks, CommitConsent(w) PROVE TypeOK'
  <2>1. PICK x \in StandingConsent :
          consent' = [consent EXCEPT ![desk[w].user][desk[w].type] = x]
    <3>1. desk[w].version \in 0..MaxVersion
      BY DEF TypeOK
    <3>2. \A s \in {"GRANTED", "WITHDRAWN"} :
            [status |-> s, version |-> desk[w].version] \in StandingConsent
      BY <3>1 DEF StandingConsent
    <3> QED BY <1>7, <3>2 DEF CommitConsent
  <2>2. consent' \in [Citizens -> [Types -> StandingConsent]]
    BY <2>1 DEF TypeOK
  <2>3. desk' = [desk EXCEPT ![w] = Idle] /\ policy' = policy /\ overtaken' \subseteq Clerks
    BY <1>7 DEF CommitConsent, TypeOK
  <2> QED BY <2>2, <2>3, TaskLiterals DEF TypeOK, PolicyTask
<1>8. ASSUME NEW w \in Clerks, Abort(w) PROVE TypeOK'
  BY <1>8, TaskLiterals, TaskKeeps DEF Abort, TypeOK
<1> QED BY <1>1, <1>2, <1>3, <1>4, <1>5, <1>6, <1>7, <1>8 DEF Next

\* However operators publish and members consent and withdraw at the same time:
\* the shape of the documents, the consents and the requests.
THEOREM PolicyShape == ASSUME PolicyAssumption PROVE Spec => []TypeOK
<1> USE DEF PolicyAssumption
<1>1. Init => GrantInv /\ TypeOK
  <2>1. ASSUME Init PROVE TypeOK
    <3>1. NoConsent \in StandingConsent /\ Idle \in PolicyTask
      BY TaskLiterals
    <3>2. consent \in [Citizens -> [Types -> StandingConsent]]
      BY <2>1, <3>1 DEF Init
    <3>3. desk \in [Clerks -> PolicyTask]
      BY <2>1, <3>1 DEF Init
    <3> QED BY <2>1, <3>2, <3>3 DEF Init, TypeOK, PolicyTask
  <2> QED BY <2>1, GrantInvInit
<1>2. GrantInv /\ TypeOK /\ [Next]_policyVars => (GrantInv /\ TypeOK)'
  BY GrantInvStep, PolicyShapeStep
<1> QED BY <1>1, <1>2, PTL DEF Spec

LEMMA PoliciesMove == MCSpec => Spec
<1>1. MCInit => Init
  BY DEF MCInit
<1>2. [MCNext]_vars => [Next]_policyVars
  BY DEF MCNext, vars, policyVars
<1> QED BY <1>1, <1>2, PTL DEF MCSpec, Spec

-----------------------------------------------------------------------------
\* Threads

\* Cardinality is that of the library in the instance too.
LEMMA ThreadsCardinality == \A S : T!Cardinality(S) = Cardinality(S)
<1> QED BY DEF T!Cardinality, Cardinality

ThreadRequest ==
    [op : {"IDLE", "LOOK", "OPEN", "ALERT", "POST", "SEND", "MARK"},
     user : Members \cup {None}, animal : Animals \cup {None}, about : Nat,
     role : {"NONE", "APPLICANT", "SHELTER"}, left : SUBSET Representatives]

\* Somebody is about to tell r of the thread i.
Waits(i, r) == \E w \in Servers : talk[w].op = "ALERT" /\ talk[w].about = i
                                  /\ r \in talk[w].left

-----------------------------------------------------------------------------
\* Requests

LEMMA RequestLiterals ==
    /\ T!Idle = [op |-> "IDLE", user |-> None, animal |-> None, about |-> 0,
               role |-> "NONE", left |-> {}]
    /\ \A u, a : [T!Idle EXCEPT !.op = "LOOK", !.user = u, !.animal = a]
                   = [op |-> "LOOK", user |-> u, animal |-> a, about |-> 0,
                      role |-> "NONE", left |-> {}]
    /\ \A n : [T!Idle EXCEPT !.op = "MARK", !.about = n]
                = [op |-> "MARK", user |-> None, animal |-> None, about |-> n,
                   role |-> "NONE", left |-> {}]
    /\ \A u, i : T!Post(u, i) = [op |-> "POST", user |-> u, animal |-> None, about |-> i,
                               role |-> "NONE", left |-> {}]
    /\ \A u, i, rs : rs # {} =>
         T!Alert(u, i, rs) = [op |-> "ALERT", user |-> u, animal |-> None, about |-> i,
                            role |-> "NONE", left |-> rs]
    /\ \A u, i : T!Alert(u, i, {}) = T!Post(u, i)
<1>1. ASSUME NEW u, NEW a
      PROVE  [T!Idle EXCEPT !.op = "LOOK", !.user = u, !.animal = a]
               = [op |-> "LOOK", user |-> u, animal |-> a, about |-> 0, role |-> "NONE",
                  left |-> {}]
  <2>1. PICK d : d = [T!Idle EXCEPT !.op = "LOOK", !.user = u, !.animal = a]
    OBVIOUS
  <2>2. d = [op |-> "LOOK", user |-> u, animal |-> a, about |-> 0, role |-> "NONE",
             left |-> {}]
    BY <2>1 DEF T!Idle
  <2> QED BY <2>1, <2>2, Zenon
<1>2. ASSUME NEW n
      PROVE  [T!Idle EXCEPT !.op = "MARK", !.about = n]
               = [op |-> "MARK", user |-> None, animal |-> None, about |-> n,
                  role |-> "NONE", left |-> {}]
  <2>1. PICK d : d = [T!Idle EXCEPT !.op = "MARK", !.about = n]
    OBVIOUS
  <2>2. d = [op |-> "MARK", user |-> None, animal |-> None, about |-> n, role |-> "NONE",
             left |-> {}]
    BY <2>1 DEF T!Idle
  <2> QED BY <2>1, <2>2, Zenon
<1>3. ASSUME NEW u, NEW i
      PROVE  T!Post(u, i) = [op |-> "POST", user |-> u, animal |-> None, about |-> i,
                           role |-> "NONE", left |-> {}]
  <2>1. PICK d : d = [T!Idle EXCEPT !.op = "POST", !.user = u, !.about = i]
    OBVIOUS
  <2>2. d = [op |-> "POST", user |-> u, animal |-> None, about |-> i, role |-> "NONE",
             left |-> {}]
    BY <2>1 DEF T!Idle
  <2> QED BY <2>1, <2>2, Zenon DEF T!Post
<1>4. ASSUME NEW u, NEW i, NEW rs, rs # {}
      PROVE  T!Alert(u, i, rs) = [op |-> "ALERT", user |-> u, animal |-> None, about |-> i,
                                role |-> "NONE", left |-> rs]
  <2>1. PICK p : p = T!Post(u, i)
    OBVIOUS
  <2>2. p = [op |-> "POST", user |-> u, animal |-> None, about |-> i, role |-> "NONE",
             left |-> {}]
    BY <1>3, <2>1
  <2>3. PICK d : d = [p EXCEPT !.op = "ALERT", !.left = rs]
    OBVIOUS
  <2>4. d = [op |-> "ALERT", user |-> u, animal |-> None, about |-> i, role |-> "NONE",
             left |-> rs]
    BY <2>2, <2>3
  <2> QED BY <1>4, <2>1, <2>3, <2>4, Zenon DEF T!Alert
<1>5. \A u, i : T!Alert(u, i, {}) = T!Post(u, i)
  BY DEF T!Alert
<1> QED BY <1>1, <1>2, <1>3, <1>4, <1>5 DEF T!Idle

LEMMA TalkTyped == T!TypeOK => talk \in [Servers -> ThreadRequest]
  BY DEF T!TypeOK, ThreadRequest

\* ParticipantsTold for the thread i.
ToldOf(i) ==
    /\ T!Told(inquiry[i].inquirer, "NEW_MESSAGE", i) = Cardinality(T!Answers(i))
    /\ \A r \in Representatives :
          IF Waits(i, r) THEN T!Told(r, "NEW_INQUIRY", i) = 0
          ELSE IF i \in cutShort THEN T!Told(r, "NEW_INQUIRY", i) <= 1
          ELSE T!Told(r, "NEW_INQUIRY", i) = 1

LEMMA ToldOfEach ==
    /\ T!ParticipantsTold <=> \A i \in DOMAIN inquiry : ToldOf(i)
    /\ (T!ParticipantsTold <=> \A i \in DOMAIN inquiry : ToldOf(i))'
  BY ThreadsCardinality DEF T!ParticipantsTold, Waits, ToldOf

-----------------------------------------------------------------------------
\* Counting notices and messages

Notices(u, type, i) == {n \in DOMAIN notice : /\ notice[n].recipient = u
                                              /\ notice[n].type = type
                                              /\ notice[n].thread = i}

LEMMA CountsFinite ==
    ASSUME T!TypeOK
    PROVE  /\ \A u, type, i : /\ IsFiniteSet(Notices(u, type, i))
                              /\ T!Told(u, type, i) = Cardinality(Notices(u, type, i))
                              /\ T!Told(u, type, i) \in Nat
           /\ \A i : IsFiniteSet(T!Answers(i)) /\ Cardinality(T!Answers(i)) \in Nat
<1>1. IsFiniteSet(DOMAIN notice) /\ IsFiniteSet(DOMAIN message)
  <2>1. DOMAIN notice = 1..Len(notice) /\ Len(notice) \in Nat
    BY DEF T!TypeOK
  <2>2. DOMAIN message = 1..Len(message) /\ Len(message) \in Nat
    BY DEF T!TypeOK
  <2> QED BY <2>1, <2>2, FS_Interval
<1>2. ASSUME NEW u, NEW type, NEW i
      PROVE  /\ IsFiniteSet(Notices(u, type, i))
             /\ T!Told(u, type, i) = Cardinality(Notices(u, type, i))
             /\ T!Told(u, type, i) \in Nat
  <2>1. Notices(u, type, i) \subseteq DOMAIN notice
    BY DEF Notices
  <2>2. IsFiniteSet(Notices(u, type, i))
    BY <1>1, <2>1, FS_Subset
  <2> QED BY ThreadsCardinality, <2>2, FS_CardinalityType DEF T!Told, Notices
<1>3. ASSUME NEW i PROVE IsFiniteSet(T!Answers(i)) /\ Cardinality(T!Answers(i)) \in Nat
  <2>1. T!Answers(i) \subseteq DOMAIN message
    BY DEF T!Answers, T!Conversation
  <2> QED BY <1>1, <2>1, FS_Subset, FS_CardinalityType
<1> QED BY <1>2, <1>3

\* Reading a notice tells nobody anything.
LEMMA ToldSame ==
    ASSUME DOMAIN notice' = DOMAIN notice,
           \A n \in DOMAIN notice : /\ notice'[n].recipient = notice[n].recipient
                                    /\ notice'[n].type = notice[n].type
                                    /\ notice'[n].thread = notice[n].thread
    PROVE  \A u, type, i : T!Told(u, type, i)' = T!Told(u, type, i)
<1> SUFFICES ASSUME NEW u, NEW type, NEW i
             PROVE  T!Told(u, type, i)' = T!Told(u, type, i)
  OBVIOUS
<1>1. Notices(u, type, i)' = Notices(u, type, i)
  BY DEF Notices
<1> QED BY <1>1 DEF T!Told, Notices

LEMMA AnswersSame ==
    UNCHANGED message => \A i : T!Answers(i)' = T!Answers(i)
  BY DEF T!Answers, T!Conversation

LEMMA ToldOneMore ==
    ASSUME T!TypeOK, NEW d \in T!NoticeDoc, notice' = Append(notice, d),
           NEW u, NEW type, NEW i
    PROVE  T!Told(u, type, i)' = IF d.recipient = u /\ d.type = type /\ d.thread = i
                                 THEN T!Told(u, type, i) + 1 ELSE T!Told(u, type, i)
<1>1. PICK n : n = Len(notice)
  OBVIOUS
<1>2. /\ n \in Nat /\ DOMAIN notice = 1..n /\ DOMAIN notice' = 1..(n + 1)
      /\ notice'[n + 1] = d
      /\ \A k \in 1..n : notice'[k] = notice[k]
  BY <1>1 DEF T!TypeOK
<1>3. CASE d.recipient = u /\ d.type = type /\ d.thread = i
  <2>1. Notices(u, type, i)' = Notices(u, type, i) \cup {n + 1}
    BY <1>2, <1>3 DEF Notices
  <2>2. n + 1 \notin Notices(u, type, i)
    BY <1>2 DEF Notices
  <2>3. Cardinality(Notices(u, type, i) \cup {n + 1}) = Cardinality(Notices(u, type, i)) + 1
    BY <2>2, CountsFinite, FS_AddElement
  <2>4. T!Told(u, type, i)' = Cardinality(Notices(u, type, i)')
    BY ThreadsCardinality DEF T!Told, Notices
  <2> QED BY <1>3, <2>1, <2>3, <2>4, CountsFinite
<1>4. CASE ~(d.recipient = u /\ d.type = type /\ d.thread = i)
  <2>1. Notices(u, type, i)' = Notices(u, type, i)
    BY <1>2, <1>4 DEF Notices
  <2>2. T!Told(u, type, i)' = Cardinality(Notices(u, type, i)')
    BY ThreadsCardinality DEF T!Told, Notices
  <2> QED BY <1>4, <2>1, <2>2, CountsFinite
<1> QED BY <1>3, <1>4

LEMMA AnswersOneMore ==
    ASSUME T!TypeOK, NEW d \in T!MessageDoc, message' = Append(message, d), NEW i
    PROVE  Cardinality(T!Answers(i)') = IF d.thread = i /\ d.role = "SHELTER"
                                        THEN Cardinality(T!Answers(i)) + 1
                                        ELSE Cardinality(T!Answers(i))
<1>1. PICK n : n = Len(message)
  OBVIOUS
<1>2. /\ n \in Nat /\ DOMAIN message = 1..n /\ DOMAIN message' = 1..(n + 1)
      /\ message'[n + 1] = d
      /\ \A k \in 1..n : message'[k] = message[k]
  BY <1>1 DEF T!TypeOK
<1>3. CASE d.thread = i /\ d.role = "SHELTER"
  <2>1. T!Answers(i)' = T!Answers(i) \cup {n + 1}
    BY <1>2, <1>3 DEF T!Answers, T!Conversation
  <2>2. n + 1 \notin T!Answers(i)
    BY <1>2 DEF T!Answers, T!Conversation
  <2> QED BY <1>3, <2>1, <2>2, CountsFinite, FS_AddElement
<1>4. CASE ~(d.thread = i /\ d.role = "SHELTER")
  <2>1. T!Answers(i)' = T!Answers(i)
    BY <1>2, <1>4 DEF T!Answers, T!Conversation
  <2> QED BY <1>4, <2>1
<1> QED BY <1>3, <1>4

-----------------------------------------------------------------------------
\* What a step leaves alone

LEMMA TalkWritten ==
    ASSUME T!TypeOK, NEW w \in Servers, NEW t \in ThreadRequest,
           talk' = [talk EXCEPT ![w] = t]
    PROVE  /\ talk' \in [Servers -> ThreadRequest]
           /\ \A x \in Servers : talk'[x] = IF x = w THEN t ELSE talk[x]
  BY TalkTyped

LEMMA KnownKept ==
    ASSUME T!IInv, DOMAIN inquiry \subseteq DOMAIN inquiry',
           DOMAIN notice \subseteq DOMAIN notice',
           \A x \in Servers : talk'[x] = talk[x] \/ T!RequestKnown(talk[x])'
    PROVE  T!RequestsKnown'
<1> SUFFICES ASSUME NEW x \in Servers PROVE T!RequestKnown(talk[x])'
  BY DEF T!RequestsKnown
<1>1. T!RequestKnown(talk[x])
  BY DEF T!IInv, T!RequestsKnown
<1> QED BY <1>1 DEF T!RequestKnown

LEMMA OpensKept ==
    ASSUME T!IInv, UNCHANGED inquiry, raced \subseteq raced',
           \A x \in Servers : talk'[x] = talk[x] \/ talk'[x].op # "OPEN"
    PROVE  T!OpensAlone' /\ T!NoSecond'
<1>1. T!NoSecond'
  BY DEF T!IInv, T!NoSecond
<1>2. ASSUME NEW w \in Servers, talk'[w].op = "OPEN",
             <<talk'[w].user, talk'[w].animal>> \notin raced'
      PROVE  (/\ T!Threads(talk[w].user, talk[w].animal) = {}
              /\ T!Opening(talk[w].user, talk[w].animal) = {w})'
  <2>1. talk'[w] = talk[w]
    BY <1>2
  <2>2. PICK u, a : u = talk[w].user /\ a = talk[w].animal
    OBVIOUS
  <2>3. T!Threads(u, a) = {} /\ T!Opening(u, a) = {w}
    BY <1>2, <2>1, <2>2 DEF T!IInv, T!OpensAlone
  <2>4. T!Threads(u, a)' = T!Threads(u, a)
    BY DEF T!Threads
  <2>5. T!Opening(u, a)' \subseteq T!Opening(u, a)
    BY DEF T!Opening
  <2>6. w \in T!Opening(u, a)'
    BY <1>2, <2>1, <2>2 DEF T!Opening
  <2>7. T!Opening(u, a)' = {w}
    BY <2>3, <2>5, <2>6
  <2> QED BY <2>1, <2>2, <2>3, <2>4, <2>7
<1> QED BY <1>1, <1>2 DEF T!OpensAlone

LEMMA AlertsKept ==
    ASSUME T!IInv,
           \A x \in Servers : talk'[x].op = "ALERT" =>
               talk[x].op = "ALERT" /\ talk'[x].about = talk[x].about
    PROVE  T!AlertsOnce'
  BY DEF T!IInv, T!AlertsOnce

\* A step that opens no thread, posts no message and tells nobody.
LEMMA ThreadsQuiet ==
    ASSUME T!IInv, UNCHANGED <<inquiry, message, cutShort>>, raced \subseteq raced',
           staff' \subseteq Members, raced' \subseteq Members \X Animals,
           notice' \in Seq(T!NoticeDoc), DOMAIN notice' = DOMAIN notice,
           \A n \in DOMAIN notice : /\ notice'[n].recipient = notice[n].recipient
                                    /\ notice'[n].type = notice[n].type
                                    /\ notice'[n].thread = notice[n].thread,
           talk' \in [Servers -> ThreadRequest],
           \A x \in Servers : \/ talk'[x] = talk[x]
                              \/ /\ talk[x].op # "ALERT" /\ talk'[x].op # "ALERT"
                                 /\ T!RequestKnown(talk[x])',
           T!OpensAlone'
    PROVE  T!IInv'
<1>1. T!TypeOK'
  BY DEF T!IInv, T!TypeOK, ThreadRequest
<1>2. T!RequestsKnown'
  BY KnownKept
<1>3. T!RowsKnown'
  BY DEF T!IInv, T!RowsKnown
<1>4. T!NoSecond'
  BY DEF T!IInv, T!NoSecond
<1>5. T!AlertsOnce'
  BY AlertsKept
<1>6. T!ParticipantsTold'
  <2>1. \A i, r : Waits(i, r)' <=> Waits(i, r)
    BY DEF Waits
  <2>2. \A u, type, i : T!Told(u, type, i)' = T!Told(u, type, i)
    BY ToldSame
  <2>3. \A i : Cardinality(T!Answers(i))' = Cardinality(T!Answers(i))
    BY AnswersSame
  <2>4. ASSUME NEW i \in DOMAIN inquiry PROVE ToldOf(i)'
    BY <2>1, <2>2, <2>3, ToldOfEach DEF T!IInv, ToldOf
  <2> QED BY <2>4, ToldOfEach
<1> QED BY <1>1, <1>2, <1>3, <1>4, <1>5, <1>6 DEF T!IInv

-----------------------------------------------------------------------------
\* Steps that write no thread and no message

LEMMA BeginMarkKeeps ==
    ASSUME T!IInv, NEW w \in Servers, NEW u \in Members, NEW n \in DOMAIN notice,
           T!BeginMark(w, u, n)
    PROVE  T!IInv'
<1>1. PICK t : t = [T!Idle EXCEPT !.op = "MARK", !.about = n]
  OBVIOUS
<1>2. t = [op |-> "MARK", user |-> None, animal |-> None, about |-> n, role |-> "NONE",
           left |-> {}]
  BY <1>1, RequestLiterals
<1>3. n \in Nat
  BY DEF T!IInv, T!TypeOK
<1>4. t \in ThreadRequest /\ t.op = "MARK" /\ t.about = n
  BY <1>2, <1>3 DEF ThreadRequest
<1>5. talk' = [talk EXCEPT ![w] = t] /\ talk[w].op = "IDLE"
  BY <1>1 DEF T!BeginMark, T!Idle
<1>6. UNCHANGED <<inquiry, message, notice, staff, raced, cutShort>>
  BY DEF T!BeginMark
<1>7. /\ talk' \in [Servers -> ThreadRequest]
      /\ \A x \in Servers : talk'[x] = IF x = w THEN t ELSE talk[x]
  BY <1>4, <1>5, TalkWritten DEF T!IInv
<1>8. T!RequestKnown(talk[w])'
  BY <1>4, <1>6, <1>7 DEF T!RequestKnown
<1>9. T!OpensAlone'
  BY <1>4, <1>6, <1>7, OpensKept
<1> QED BY <1>4, <1>5, <1>6, <1>7, <1>8, <1>9, ThreadsQuiet DEF T!IInv, T!TypeOK

\* A request that ends.
LEMMA EndKeeps ==
    ASSUME T!IInv, NEW w \in Servers, talk' = [talk EXCEPT ![w] = T!Idle]
    PROVE  /\ talk' \in [Servers -> ThreadRequest]
           /\ \A x \in Servers : talk'[x] = IF x = w THEN T!Idle ELSE talk[x]
           /\ T!RequestKnown(talk[w])'
           /\ T!Idle.op = "IDLE"
<1>1. PICK t : t = T!Idle
  OBVIOUS
<1>2. t = [op |-> "IDLE", user |-> None, animal |-> None, about |-> 0, role |-> "NONE",
           left |-> {}]
  BY <1>1, RequestLiterals
<1>3. t \in ThreadRequest /\ t.op = "IDLE"
  BY <1>2 DEF ThreadRequest
<1>4. /\ talk' \in [Servers -> ThreadRequest]
      /\ \A x \in Servers : talk'[x] = IF x = w THEN t ELSE talk[x]
  BY <1>1, <1>3, TalkWritten DEF T!IInv
<1> QED BY <1>1, <1>3, <1>4 DEF T!RequestKnown

\* A stamp writes the time, of a notice that had none.
LEMMA StampOf ==
    ASSUME NEW d \in T!NoticeDoc, NEW at \in T!ReadAt
    PROVE  /\ T!Stamp(d, at) \in T!NoticeDoc
           /\ [d EXCEPT !.readAt = at] \in T!NoticeDoc
           /\ \A s \in {T!Stamp(d, at), [d EXCEPT !.readAt = at]} :
                 s.recipient = d.recipient /\ s.type = d.type /\ s.thread = d.thread
           /\ d.readAt # 0 => T!Stamp(d, at) = d
  BY DEF T!Stamp, T!NoticeDoc

\* Writing over a notice, or over all.
LEMMA NoticesStamped ==
    ASSUME T!TypeOK, NEW f \in [DOMAIN notice -> T!NoticeDoc], notice' = f
    PROVE  notice' \in Seq(T!NoticeDoc) /\ DOMAIN notice' = DOMAIN notice
<1>1. PICK n \in Nat : DOMAIN notice = 1..n
  BY DEF T!TypeOK
<1>2. notice' \in [1..n -> T!NoticeDoc]
  BY <1>1
<1> QED BY <1>1, <1>2, SeqDef

LEMMA MarkReadKeeps ==
    ASSUME T!IInv, NEW w \in Servers, T!MarkRead(w)
    PROVE  T!IInv'
<1>1. PICK n : n = talk[w].about
  OBVIOUS
<1>2. n \in DOMAIN notice /\ notice[n] \in T!NoticeDoc /\ talk[w].op = "MARK"
  BY <1>1 DEF T!MarkRead, T!IInv, T!RequestsKnown, T!RequestKnown, T!TypeOK
<1>3. PICK at \in T!ReadAt : notice' = [notice EXCEPT ![n] = T!Stamp(@, at)]
  BY <1>1 DEF T!MarkRead
<1>4. PICK d : d = T!Stamp(notice[n], at)
  OBVIOUS
<1>5. /\ d \in T!NoticeDoc /\ d.recipient = notice[n].recipient
      /\ d.type = notice[n].type /\ d.thread = notice[n].thread
  BY <1>2, <1>4, StampOf
<1>6. notice' = [notice EXCEPT ![n] = d] /\ notice \in [DOMAIN notice -> T!NoticeDoc]
  BY <1>3, <1>4 DEF T!IInv, T!TypeOK
<1>7. notice' \in [DOMAIN notice -> T!NoticeDoc]
  BY <1>2, <1>5, <1>6
<1>8. notice' \in Seq(T!NoticeDoc) /\ DOMAIN notice' = DOMAIN notice
  BY <1>7, NoticesStamped DEF T!IInv
<1>9. /\ talk' = [talk EXCEPT ![w] = T!Idle]
      /\ UNCHANGED <<inquiry, message, staff, raced, cutShort>>
  BY DEF T!MarkRead
<1>10. /\ talk' \in [Servers -> ThreadRequest]
       /\ \A x \in Servers : talk'[x] = IF x = w THEN T!Idle ELSE talk[x]
       /\ T!RequestKnown(talk[w])'
       /\ T!Idle.op = "IDLE"
  BY <1>9, EndKeeps
<1>11. T!OpensAlone'
  BY <1>9, <1>10, OpensKept
<1> QED BY <1>2, <1>5, <1>6, <1>8, <1>9, <1>10, <1>11, ThreadsQuiet DEF T!IInv, T!TypeOK

LEMMA MarkAllKeeps ==
    ASSUME T!IInv, NEW u \in Members, T!MarkAllRead(u)
    PROVE  T!IInv'
<1>1. PICK at \in T!ReadAt :
        notice' = [n \in DOMAIN notice |->
                     IF n \in T!Unread(u) THEN [notice[n] EXCEPT !.readAt = at] ELSE notice[n]]
  BY DEF T!MarkAllRead
<1>2. \A n \in DOMAIN notice : notice[n] \in T!NoticeDoc
  BY DEF T!IInv, T!TypeOK
<1>3. \A n \in DOMAIN notice : /\ notice'[n] \in T!NoticeDoc
                               /\ notice'[n].recipient = notice[n].recipient
                               /\ notice'[n].type = notice[n].type
                               /\ notice'[n].thread = notice[n].thread
  BY <1>1, <1>2, StampOf
<1>4. notice' \in [DOMAIN notice -> T!NoticeDoc]
  BY <1>1, <1>3
<1>5. notice' \in Seq(T!NoticeDoc) /\ DOMAIN notice' = DOMAIN notice
  BY <1>4, NoticesStamped DEF T!IInv
<1>6. UNCHANGED <<inquiry, message, staff, talk, raced, cutShort>>
  BY DEF T!MarkAllRead
<1>7. T!OpensAlone'
  BY <1>6, OpensKept
<1> QED BY <1>3, <1>5, <1>6, <1>7, TalkTyped, ThreadsQuiet DEF T!IInv, T!TypeOK

\* A request that looks, or that will post.
LEMMA ReadKeeps ==
    ASSUME T!IInv, NEW w \in Servers, NEW t \in ThreadRequest,
           talk' = [talk EXCEPT ![w] = t],
           talk[w].op # "ALERT", t.op \notin {"OPEN", "ALERT"}, T!RequestKnown(t),
           UNCHANGED <<inquiry, message, notice, staff, raced, cutShort>>
    PROVE  T!IInv'
<1>1. /\ talk' \in [Servers -> ThreadRequest]
      /\ \A x \in Servers : talk'[x] = IF x = w THEN t ELSE talk[x]
  BY TalkWritten DEF T!IInv
<1>2. T!RequestKnown(talk[w])'
  BY <1>1 DEF T!RequestKnown
<1>3. T!OpensAlone'
  BY <1>1, OpensKept
<1> QED BY <1>1, <1>2, <1>3, ThreadsQuiet DEF T!IInv, T!TypeOK

LEMMA BeginStartKeeps ==
    ASSUME T!IInv, NEW w \in Servers, NEW u \in Members, NEW a \in Animals,
           T!BeginStart(w, u, a)
    PROVE  T!IInv'
<1>1. PICK t : t = [T!Idle EXCEPT !.op = "LOOK", !.user = u, !.animal = a]
  OBVIOUS
<1>2. t = [op |-> "LOOK", user |-> u, animal |-> a, about |-> 0, role |-> "NONE",
           left |-> {}]
  BY <1>1, RequestLiterals
<1>3. t \in ThreadRequest /\ t.op = "LOOK" /\ T!RequestKnown(t)
  BY <1>2 DEF ThreadRequest, T!RequestKnown
<1>4. talk' = [talk EXCEPT ![w] = t] /\ talk[w].op = "IDLE"
  BY <1>1 DEF T!BeginStart, T!Idle
<1> QED BY <1>3, <1>4, ReadKeeps DEF T!BeginStart

LEMMA PostKnown ==
    ASSUME T!IInv, NEW u \in Members, NEW i \in DOMAIN inquiry
    PROVE  /\ T!Post(u, i) \in ThreadRequest /\ T!Post(u, i).op = "POST"
           /\ T!RequestKnown(T!Post(u, i))
<1>1. PICK t : t = T!Post(u, i)
  OBVIOUS
<1>2. t = [op |-> "POST", user |-> u, animal |-> None, about |-> i, role |-> "NONE",
           left |-> {}]
  BY <1>1, RequestLiterals
<1>3. i \in Nat
  BY DEF T!IInv, T!TypeOK
<1>4. t \in ThreadRequest /\ t.op = "POST" /\ T!RequestKnown(t)
  BY <1>2, <1>3 DEF ThreadRequest, T!RequestKnown
<1> QED BY <1>1, <1>4

LEMMA FindThreadKeeps ==
    ASSUME T!IInv, NEW w \in Servers, T!FindThread(w)
    PROVE  T!IInv'
<1>1. talk[w].op = "LOOK" /\ talk[w].user \in Members
  BY DEF T!FindThread, T!IInv, T!RequestsKnown, T!RequestKnown
<1>2. PICK i \in DOMAIN inquiry : talk' = [talk EXCEPT ![w] = T!Post(talk[w].user, i)]
  BY DEF T!FindThread, T!Threads
<1> QED BY <1>1, <1>2, PostKnown, ReadKeeps DEF T!FindThread

LEMMA BeginPostThreadKeeps ==
    ASSUME T!IInv, NEW w \in Servers, NEW u \in Members, NEW i \in DOMAIN inquiry,
           T!BeginPost(w, u, i)
    PROVE  T!IInv'
<1>1. PICK t : t = T!Post(u, i)
  OBVIOUS
<1>2. t \in ThreadRequest /\ t.op = "POST" /\ T!RequestKnown(t)
  BY <1>1, PostKnown
<1>3. /\ talk' = [talk EXCEPT ![w] = t] /\ talk[w].op = "IDLE"
      /\ UNCHANGED <<inquiry, message, notice, staff, raced, cutShort>>
  BY <1>1 DEF T!BeginPost, T!Idle
<1> QED BY <1>2, <1>3, ReadKeeps

LEMMA AuthorizeKeeps ==
    ASSUME T!IInv, NEW w \in Servers, T!Authorize(w)
    PROVE  T!IInv'
<1>1. PICK d, r : d = talk[w] /\ r = T!SenderRole(talk[w].user, talk[w].about)
  OBVIOUS
<1>2. d \in ThreadRequest /\ d.op = "POST" /\ talk \in [Servers -> ThreadRequest]
  BY <1>1, TalkTyped DEF T!Authorize, T!IInv
<1>3. r \in {"APPLICANT", "SHELTER"}
  BY <1>1 DEF T!Authorize, T!SenderRole
<1>4. d.user \in Members /\ d.about \in DOMAIN inquiry
  BY <1>1, <1>2 DEF T!IInv, T!RequestsKnown, T!RequestKnown
<1>5. PICK u, a, i, s, rs : u = d.user /\ a = d.animal /\ i = d.about /\ s = d.role
                            /\ rs = d.left
  OBVIOUS
<1>6. d = [op |-> "POST", user |-> u, animal |-> a, about |-> i, role |-> s, left |-> rs]
  BY <1>2, <1>5 DEF ThreadRequest
<1>7. PICK t : t = [d EXCEPT !.op = "SEND", !.role = r]
  OBVIOUS
<1>8. t = [op |-> "SEND", user |-> u, animal |-> a, about |-> i, role |-> r, left |-> rs]
  BY <1>6, <1>7
<1>9. t \in ThreadRequest /\ t.op = "SEND" /\ T!RequestKnown(t)
  BY <1>2, <1>3, <1>4, <1>5, <1>8 DEF ThreadRequest, T!RequestKnown
<1>10. talk' = [talk EXCEPT ![w].op = "SEND", ![w].role = r]
  BY <1>1 DEF T!Authorize
<1>11. talk' = [talk EXCEPT ![w] = t]
  BY <1>1, <1>2, <1>7, <1>10
<1>12. talk[w].op = "POST" /\ UNCHANGED <<inquiry, message, notice, staff, raced, cutShort>>
  BY DEF T!Authorize
<1> QED BY <1>9, <1>11, <1>12, ReadKeeps

LEMMA ChangeStaffKeeps ==
    ASSUME T!IInv, NEW u \in Members, T!ChangeStaff(u)
    PROVE  T!IInv'
<1>1. /\ UNCHANGED <<inquiry, message, notice, talk, raced, cutShort>>
      /\ staff' \subseteq Members
  BY DEF T!ChangeStaff, T!IInv, T!TypeOK
<1>2. T!OpensAlone'
  BY <1>1, OpensKept
<1> QED BY <1>1, <1>2, TalkTyped, ThreadsQuiet DEF T!IInv, T!TypeOK

\* Only the second request to look while the first is about to open has raced.
LEMMA FindNoThreadKeeps ==
    ASSUME T!IInv, NEW w \in Servers, T!FindNoThread(w)
    PROVE  T!IInv'
<1>1. PICK u, a : u = talk[w].user /\ a = talk[w].animal
  OBVIOUS
<1>2. u \in Members /\ a \in Animals /\ talk[w].op = "LOOK" /\ T!Threads(u, a) = {}
  BY <1>1 DEF T!FindNoThread, T!IInv, T!RequestsKnown, T!RequestKnown
<1>3. PICK t : t = [talk[w] EXCEPT !.op = "OPEN"]
  OBVIOUS
<1>4. talk[w] \in ThreadRequest
  BY TalkTyped DEF T!IInv
<1>5. t \in ThreadRequest /\ t.op = "OPEN" /\ t.user = u /\ t.animal = a
  BY <1>1, <1>3, <1>4 DEF ThreadRequest
<1>6. talk' = [talk EXCEPT ![w] = t]
  BY <1>3 DEF T!FindNoThread
<1>7. /\ talk' \in [Servers -> ThreadRequest]
      /\ \A x \in Servers : talk'[x] = IF x = w THEN t ELSE talk[x]
  BY <1>5, <1>6, TalkWritten DEF T!IInv
<1>8. UNCHANGED <<inquiry, message, notice, staff, cutShort>>
  BY DEF T!FindNoThread
<1>9. /\ raced \subseteq raced' /\ raced' \subseteq Members \X Animals
      /\ T!Opening(u, a) # {} => <<u, a>> \in raced'
  BY <1>1, <1>2 DEF T!FindNoThread, T!IInv, T!TypeOK
<1>10. T!OpensAlone'
  <2> SUFFICES ASSUME NEW x \in Servers, talk'[x].op = "OPEN",
                      <<talk'[x].user, talk'[x].animal>> \notin raced'
               PROVE  (/\ T!Threads(talk[x].user, talk[x].animal) = {}
                       /\ T!Opening(talk[x].user, talk[x].animal) = {x})'
    BY DEF T!OpensAlone
  <2>1. PICK v, b : v = talk'[x].user /\ b = talk'[x].animal
    OBVIOUS
  <2>2. T!Threads(v, b)' = T!Threads(v, b)
    BY <1>8 DEF T!Threads
  <2>3. CASE v = u /\ b = a
    <3>1. T!Opening(u, a) = {}
      BY <1>9, <2>1, <2>3
    <3>2. T!Opening(u, a)' = {w}
      BY <1>5, <1>7, <3>1 DEF T!Opening
    <3>3. x = w
      BY <2>1, <2>3, <3>2 DEF T!Opening
    <3> QED BY <1>2, <2>1, <2>2, <2>3, <3>2, <3>3
  <2>4. CASE ~(v = u /\ b = a)
    <3>1. x # w /\ talk'[x] = talk[x]
      BY <1>5, <1>7, <2>1, <2>4
    <3>2. T!Threads(v, b) = {} /\ T!Opening(v, b) = {x}
      BY <1>9, <2>1, <3>1 DEF T!IInv, T!OpensAlone
    <3>3. T!Opening(v, b)' = T!Opening(v, b)
      BY <1>2, <1>5, <1>7, <2>4 DEF T!Opening
    <3> QED BY <2>1, <2>2, <3>2, <3>3
  <2> QED BY <2>3, <2>4
<1>11. T!RequestKnown(talk[w])'
  BY <1>2, <1>5, <1>7 DEF T!RequestKnown
<1> QED BY <1>2, <1>5, <1>7, <1>8, <1>9, <1>10, <1>11, ThreadsQuiet DEF T!IInv, T!TypeOK

-----------------------------------------------------------------------------
\* Opening a thread and telling of it

LEMMA AlertOf ==
    ASSUME NEW u \in Members, NEW i \in Nat, NEW rs \in SUBSET Representatives
    PROVE  /\ T!Alert(u, i, rs) \in ThreadRequest
           /\ T!Alert(u, i, rs).op = IF rs = {} THEN "POST" ELSE "ALERT"
           /\ T!Alert(u, i, rs).user = u /\ T!Alert(u, i, rs).about = i
           /\ T!Alert(u, i, rs).left = rs
<1>1. PICK t : t = T!Alert(u, i, rs)
  OBVIOUS
<1>2. CASE rs = {}
  <2>1. t = [op |-> "POST", user |-> u, animal |-> None, about |-> i, role |-> "NONE",
             left |-> {}]
    BY <1>1, <1>2, RequestLiterals
  <2> QED BY <1>1, <1>2, <2>1 DEF ThreadRequest
<1>3. CASE rs # {}
  <2>1. \A v, j, qs : qs # {} =>
           T!Alert(v, j, qs) = [op |-> "ALERT", user |-> v, animal |-> None, about |-> j,
                              role |-> "NONE", left |-> qs]
    BY RequestLiterals
  <2>2. T!Alert(u, i, rs) = [op |-> "ALERT", user |-> u, animal |-> None, about |-> i,
                           role |-> "NONE", left |-> rs]
    BY <1>3, <2>1
  <2>3. t = [op |-> "ALERT", user |-> u, animal |-> None, about |-> i, role |-> "NONE",
             left |-> rs]
    BY <1>1, <2>2
  <2> QED BY <1>1, <1>3, <2>3 DEF ThreadRequest
<1> QED BY <1>2, <1>3

LEMMA OpenThreadKeeps ==
    ASSUME T!ThreadsAssumption, T!IInv, NEW w \in Servers, T!OpenThread(w)
    PROVE  T!IInv'
<1>1. PICK u, a, n : u = talk[w].user /\ a = talk[w].animal /\ n = Len(inquiry)
  OBVIOUS
<1>2. /\ talk[w].op = "OPEN" /\ n < MaxThreads
      /\ inquiry' = Append(inquiry, T!Inquiry(u, a))
      /\ UNCHANGED <<message, notice, staff, raced, cutShort>>
  BY <1>1 DEF T!OpenThread
<1>3. u \in Members /\ a \in Animals
  BY <1>1, <1>2 DEF T!IInv, T!RequestsKnown, T!RequestKnown
<1>4. PICK d : d = T!Inquiry(u, a)
  OBVIOUS
<1>5. d \in T!InquiryDoc /\ d.inquirer = u /\ d.animal = a
  BY <1>3, <1>4 DEF T!Inquiry, T!InquiryDoc
<1>6. /\ n \in Nat /\ DOMAIN inquiry = 1..n /\ DOMAIN inquiry' = 1..(n + 1)
      /\ inquiry' \in Seq(T!InquiryDoc) /\ Len(inquiry') = n + 1
      /\ inquiry'[n + 1] = d
      /\ \A k \in 1..n : inquiry'[k] = inquiry[k]
  BY <1>1, <1>2, <1>4, <1>5 DEF T!IInv, T!TypeOK
<1>7. PICK t : t = T!Alert(u, n + 1, Representatives)
  OBVIOUS
<1>8. /\ t \in ThreadRequest /\ t.user = u /\ t.about = n + 1 /\ t.left = Representatives
      /\ t.op = IF Representatives = {} THEN "POST" ELSE "ALERT"
  <2>1. n + 1 \in Nat /\ Representatives \in SUBSET Representatives
    BY <1>6
  <2> QED BY <1>3, <1>7, <2>1, AlertOf
<1>9. talk' = [talk EXCEPT ![w] = t]
  BY <1>1, <1>7 DEF T!OpenThread
<1>10. /\ talk' \in [Servers -> ThreadRequest]
       /\ \A x \in Servers : talk'[x] = IF x = w THEN t ELSE talk[x]
  BY <1>8, <1>9, TalkWritten DEF T!IInv
<1>11. T!TypeOK'
  <2>1. n + 1 <= MaxThreads
    BY <1>2, <1>6 DEF T!ThreadsAssumption
  <2>2. DOMAIN inquiry \subseteq DOMAIN inquiry'
    BY <1>6
  <2>3. talk' \in [Servers -> ThreadRequest]
    BY <1>10
  <2> QED BY <1>2, <1>6, <2>1, <2>2, <2>3 DEF T!IInv, T!TypeOK, ThreadRequest
<1>12. T!RequestsKnown'
  <2>1. T!RequestKnown(talk[w])'
    BY <1>3, <1>6, <1>8, <1>10 DEF T!RequestKnown
  <2> QED BY <1>2, <1>6, <1>10, <2>1, KnownKept
<1>13. T!RowsKnown'
  BY <1>2, <1>6 DEF T!IInv, T!RowsKnown
<1>14. <<u, a>> \notin raced => T!Threads(u, a) = {} /\ T!Opening(u, a) = {w}
  BY <1>1, <1>2 DEF T!IInv, T!OpensAlone
<1>15. T!OpensAlone'
  <2> SUFFICES ASSUME NEW x \in Servers, talk'[x].op = "OPEN",
                      <<talk'[x].user, talk'[x].animal>> \notin raced'
               PROVE  (/\ T!Threads(talk[x].user, talk[x].animal) = {}
                       /\ T!Opening(talk[x].user, talk[x].animal) = {x})'
    BY DEF T!OpensAlone
  <2>1. x # w /\ talk'[x] = talk[x]
    BY <1>8, <1>10
  <2>2. PICK v, b : v = talk[x].user /\ b = talk[x].animal
    OBVIOUS
  <2>3. T!Threads(v, b) = {} /\ T!Opening(v, b) = {x} /\ <<v, b>> \notin raced
    BY <1>2, <2>1, <2>2 DEF T!IInv, T!OpensAlone
  <2>4. ~(v = u /\ b = a)
    BY <1>14, <2>1, <2>3
  <2>5. T!Inquiry(v, b) # d
    <3>1. T!Inquiry(v, b).inquirer = v /\ T!Inquiry(v, b).animal = b
      BY DEF T!Inquiry
    <3> QED BY <1>5, <2>4, <3>1
  <2>6. T!Threads(v, b)' = {}
    <3>1. \A k \in 1..n : inquiry[k] # T!Inquiry(v, b)
      BY <1>6, <2>3 DEF T!Threads
    <3>2. \A k \in 1..(n + 1) : inquiry'[k] # T!Inquiry(v, b)
      <4> SUFFICES ASSUME NEW k \in 1..(n + 1) PROVE inquiry'[k] # T!Inquiry(v, b)
        OBVIOUS
      <4>1. k = n + 1 \/ k \in 1..n
        BY <1>6
      <4> QED BY <1>6, <2>5, <3>1, <4>1
    <3> QED BY <1>6, <3>2 DEF T!Threads
  <2>7. T!Opening(v, b)' = T!Opening(v, b)
    BY <1>1, <1>8, <1>10, <2>4 DEF T!Opening
  <2> QED BY <2>1, <2>2, <2>3, <2>6, <2>7
<1>16. T!NoSecond'
  <2>1. ASSUME NEW j \in 1..n, inquiry[j] = d PROVE <<u, a>> \in raced
    <3>1. j \in T!Threads(u, a)
      BY <1>4, <1>6, <2>1 DEF T!Threads
    <3> QED BY <1>14, <3>1
  <2> SUFFICES ASSUME NEW i \in 1..(n + 1), NEW j \in 1..(n + 1), inquiry'[i] = inquiry'[j],
                      <<inquiry'[i].inquirer, inquiry'[i].animal>> \notin raced
               PROVE  i = j
    BY <1>2, <1>6 DEF T!NoSecond
  <2>2. i \in 1..n \/ i = n + 1
    BY <1>6
  <2>3. j \in 1..n \/ j = n + 1
    BY <1>6
  <2>4. CASE i \in 1..n /\ j \in 1..n
    BY <1>6, <2>4 DEF T!IInv, T!NoSecond
  <2>5. CASE i = n + 1 /\ j \in 1..n
    BY <1>5, <1>6, <2>1, <2>5
  <2>6. CASE j = n + 1 /\ i \in 1..n
    BY <1>5, <1>6, <2>1, <2>6
  <2> QED BY <2>2, <2>3, <2>4, <2>5, <2>6
<1>17. \A x \in Servers : x # w /\ talk[x].op = "ALERT" => talk[x].about \in 1..n
  BY <1>6 DEF T!IInv, T!RequestsKnown, T!RequestKnown
<1>18. T!AlertsOnce'
  <2>1. n + 1 \notin 1..n
    BY <1>6
  <2> SUFFICES ASSUME NEW x \in Servers, NEW y \in Servers, talk'[x].op = "ALERT",
                      talk'[y].op = "ALERT", talk'[x].about = talk'[y].about
               PROVE  x = y
    BY DEF T!AlertsOnce
  <2>2. CASE x # w /\ y # w
    BY <1>10, <2>2 DEF T!IInv, T!AlertsOnce
  <2>3. CASE x = w /\ y # w
    BY <1>8, <1>10, <1>17, <2>1, <2>3
  <2>4. CASE x # w /\ y = w
    BY <1>8, <1>10, <1>17, <2>1, <2>4
  <2> QED BY <2>2, <2>3, <2>4
<1>19. T!ParticipantsTold'
  <2>1. \A v, type, i : T!Told(v, type, i)' = T!Told(v, type, i)
    BY <1>2, ToldSame
  <2>2. \A i : Cardinality(T!Answers(i))' = Cardinality(T!Answers(i))
    BY <1>2, AnswersSame
  <2>3. ASSUME NEW i \in 1..n PROVE ToldOf(i)'
    <3>1. \A r : Waits(i, r)' <=> Waits(i, r)
      BY <1>2, <1>6, <1>8, <1>10 DEF Waits
    <3>2. ToldOf(i)
      BY <1>6, ToldOfEach DEF T!IInv
    <3>3. inquiry'[i] = inquiry[i]
      BY <1>6
    <3> QED BY <1>2, <2>1, <2>2, <3>1, <3>2, <3>3 DEF ToldOf
  <2>4. ToldOf(n + 1)'
    <3>1. n + 1 \notin DOMAIN inquiry
      BY <1>6
    <3>2. \A v, type : Notices(v, type, n + 1) = {}
      BY <3>1 DEF T!IInv, T!RowsKnown, Notices
    <3>3. T!Answers(n + 1) = {}
      BY <3>1 DEF T!IInv, T!RowsKnown, T!Answers, T!Conversation
    <3>4. Cardinality({}) = 0
      BY FS_EmptySet
    <3>5. \A v, type : T!Told(v, type, n + 1)' = 0
      BY <2>1, <3>2, <3>4, CountsFinite DEF T!IInv
    <3>6. Cardinality(T!Answers(n + 1))' = 0
      BY <2>2, <3>3, <3>4
    <3>7. \A r \in Representatives : Waits(n + 1, r)'
      BY <1>8, <1>10 DEF Waits
    <3> QED BY <3>5, <3>6, <3>7 DEF ToldOf
  <2>5. \A i \in DOMAIN inquiry' : ToldOf(i)'
    <3> SUFFICES ASSUME NEW i \in 1..(n + 1) PROVE ToldOf(i)'
      BY <1>6
    <3>1. i \in 1..n \/ i = n + 1
      BY <1>6
    <3> QED BY <2>3, <2>4, <3>1
  <2> QED BY <2>5, ToldOfEach
<1> QED BY <1>11, <1>12, <1>13, <1>15, <1>16, <1>18, <1>19 DEF T!IInv

\* A notice more of a thread there is.
LEMMA NotifyKeeps ==
    ASSUME T!ThreadsAssumption, T!IInv, NEW u \in Members,
           NEW type \in {"NEW_INQUIRY", "NEW_MESSAGE"},
           NEW i \in DOMAIN inquiry, T!Notify(u, type, i)
    PROVE  /\ notice' \in Seq(T!NoticeDoc)
           /\ DOMAIN notice \subseteq DOMAIN notice'
           /\ \A n \in DOMAIN notice' : notice'[n].thread \in DOMAIN inquiry
           /\ \A v, k, j : T!Told(v, k, j)' = IF v = u /\ k = type /\ j = i
                                              THEN T!Told(v, k, j) + 1 ELSE T!Told(v, k, j)
<1>1. PICK d : d = T!Notice(u, type, i)
  OBVIOUS
<1>2. i \in 1..MaxThreads
  BY DEF T!ThreadsAssumption, T!IInv, T!TypeOK
<1>3. d \in T!NoticeDoc /\ d.recipient = u /\ d.type = type /\ d.thread = i
  BY <1>1, <1>2 DEF T!Notice, T!NoticeDoc, T!ReadAt
<1>4. notice' = Append(notice, d)
  BY <1>1 DEF T!Notify
<1>5. \A v, k, j : T!Told(v, k, j)' = IF v = u /\ k = type /\ j = i
                                      THEN T!Told(v, k, j) + 1 ELSE T!Told(v, k, j)
  BY <1>3, <1>4, ToldOneMore DEF T!IInv
<1>6. PICK n : n = Len(notice)
  OBVIOUS
<1>7. /\ n \in Nat /\ DOMAIN notice = 1..n /\ DOMAIN notice' = 1..(n + 1)
      /\ notice' \in Seq(T!NoticeDoc)
      /\ notice'[n + 1] = d
      /\ \A k \in 1..n : notice'[k] = notice[k]
  BY <1>3, <1>4, <1>6 DEF T!IInv, T!TypeOK
<1>8. ASSUME NEW k \in 1..(n + 1) PROVE notice'[k].thread \in DOMAIN inquiry
  <2>1. k = n + 1 \/ k \in 1..n
    BY <1>7
  <2> QED BY <1>3, <1>7, <2>1 DEF T!IInv, T!RowsKnown
<1>9. DOMAIN notice \subseteq DOMAIN notice'
  BY <1>7
<1> QED BY <1>5, <1>7, <1>8, <1>9

LEMMA AlertNextKeeps ==
    ASSUME T!ThreadsAssumption, T!IInv, NEW w \in Servers, T!AlertNext(w)
    PROVE  T!IInv'
<1>1. PICK u, i, rs : u = talk[w].user /\ i = talk[w].about /\ rs = talk[w].left
  OBVIOUS
<1>2. PICK r \in rs : /\ T!Notify(r, "NEW_INQUIRY", i)
                      /\ talk' = [talk EXCEPT ![w] = T!Alert(u, i, rs \ {r})]
  BY <1>1 DEF T!AlertNext
<1>3. talk[w].op = "ALERT" /\ UNCHANGED <<inquiry, message, staff, raced, cutShort>>
  BY DEF T!AlertNext
<1>4. u \in Members /\ i \in DOMAIN inquiry /\ i \in Nat /\ rs \subseteq Representatives
  <2>1. talk[w] \in ThreadRequest
    BY TalkTyped DEF T!IInv
  <2> QED BY <1>1, <1>3, <2>1 DEF T!IInv, T!RequestsKnown, T!RequestKnown, ThreadRequest
<1>5. PICK t : t = T!Alert(u, i, rs \ {r})
  OBVIOUS
<1>6. /\ t \in ThreadRequest /\ t.user = u /\ t.about = i /\ t.left = rs \ {r}
      /\ t.op = IF rs \ {r} = {} THEN "POST" ELSE "ALERT"
  <2>1. rs \ {r} \in SUBSET Representatives
    BY <1>4
  <2> QED BY <1>4, <1>5, <2>1, AlertOf
<1>7. /\ talk' \in [Servers -> ThreadRequest]
      /\ \A x \in Servers : talk'[x] = IF x = w THEN t ELSE talk[x]
  BY <1>2, <1>5, <1>6, TalkWritten DEF T!IInv
<1>8. /\ notice' \in Seq(T!NoticeDoc)
      /\ DOMAIN notice \subseteq DOMAIN notice'
      /\ \A n \in DOMAIN notice' : notice'[n].thread \in DOMAIN inquiry
      /\ \A v, k, j : T!Told(v, k, j)' = IF v = r /\ k = "NEW_INQUIRY" /\ j = i
                                         THEN T!Told(v, k, j) + 1 ELSE T!Told(v, k, j)
  <2>1. r \in Members
    BY <1>2, <1>4 DEF T!ThreadsAssumption
  <2> QED BY <1>2, <1>4, <2>1, NotifyKeeps
<1>9. T!TypeOK'
  BY <1>3, <1>7, <1>8 DEF T!IInv, T!TypeOK, ThreadRequest
<1>10. T!RequestsKnown'
  <2>1. T!RequestKnown(talk[w])'
    BY <1>3, <1>4, <1>6, <1>7 DEF T!RequestKnown
  <2> QED BY <1>3, <1>7, <1>8, <2>1, KnownKept
<1>11. T!RowsKnown'
  BY <1>3, <1>8 DEF T!IInv, T!RowsKnown
<1>12. T!OpensAlone' /\ T!NoSecond'
  BY <1>3, <1>6, <1>7, OpensKept
<1>13. T!AlertsOnce'
  BY <1>1, <1>3, <1>6, <1>7, AlertsKept
<1>14. T!ParticipantsTold'
  <2> SUFFICES ASSUME NEW j \in DOMAIN inquiry PROVE ToldOf(j)'
    BY <1>3, ToldOfEach
  <2>1. ToldOf(j) /\ inquiry'[j] = inquiry[j]
    BY <1>3, ToldOfEach DEF T!IInv
  <2>2. Cardinality(T!Answers(j))' = Cardinality(T!Answers(j))
    BY <1>3, AnswersSame
  <2>3. T!Told(inquiry[j].inquirer, "NEW_MESSAGE", j)'
          = T!Told(inquiry[j].inquirer, "NEW_MESSAGE", j)
    BY <1>8, <1>3
  <2>4. \A q \in Representatives : ~(j = i /\ q = r) =>
           (Waits(j, q)' <=> Waits(j, q)) /\ T!Told(q, "NEW_INQUIRY", j)' = T!Told(q, "NEW_INQUIRY", j)
    <3> SUFFICES ASSUME NEW q \in Representatives, ~(j = i /\ q = r)
                 PROVE  Waits(j, q)' <=> Waits(j, q)
      BY <1>8
    <3>1. ASSUME Waits(j, q) PROVE Waits(j, q)'
      <4>1. PICK x \in Servers : talk[x].op = "ALERT" /\ talk[x].about = j /\ q \in talk[x].left
        BY <3>1 DEF Waits
      <4>2. CASE x = w
        <5>1. q \in rs \ {r}
          BY <1>1, <4>1, <4>2
        <5> QED BY <1>1, <1>6, <1>7, <4>1, <4>2, <5>1 DEF Waits
      <4>3. CASE x # w
        BY <1>7, <4>1, <4>3 DEF Waits
      <4> QED BY <4>2, <4>3
    <3>2. ASSUME Waits(j, q)' PROVE Waits(j, q)
      <4>1. PICK x \in Servers : talk'[x].op = "ALERT" /\ talk'[x].about = j
                                 /\ q \in talk'[x].left
        BY <3>2 DEF Waits
      <4>2. CASE x = w
        <5>1. talk[w].about = j /\ q \in talk[w].left
          BY <1>1, <1>6, <1>7, <4>1, <4>2
        <5> QED BY <1>3, <5>1 DEF Waits
      <4>3. CASE x # w
        BY <1>7, <4>1, <4>3 DEF Waits
      <4> QED BY <4>2, <4>3
    <3> QED BY <3>1, <3>2
  <2>5. ASSUME j = i PROVE T!Told(r, "NEW_INQUIRY", j)' = 1 /\ ~Waits(j, r)'
    <3>1. Waits(j, r)
      BY <1>1, <1>2, <1>3, <2>5 DEF Waits
    <3>2. T!Told(r, "NEW_INQUIRY", j) = 0
      BY <1>2, <1>4, <2>1, <3>1 DEF ToldOf
    <3>3. ASSUME NEW x \in Servers, talk'[x].op = "ALERT", talk'[x].about = j,
                 r \in talk'[x].left
          PROVE  FALSE
      <4>1. x # w
        BY <1>6, <1>7, <3>3
      <4>2. talk[x].op = "ALERT" /\ talk[x].about = talk[w].about
        BY <1>1, <1>7, <2>5, <3>3, <4>1
      <4> QED BY <1>3, <4>1, <4>2 DEF T!IInv, T!AlertsOnce
    <3> QED BY <1>8, <2>5, <3>2, <3>3 DEF Waits
  <2> QED BY <1>3, <2>1, <2>2, <2>3, <2>4, <2>5 DEF ToldOf
<1> QED BY <1>9, <1>10, <1>11, <1>12, <1>13, <1>14 DEF T!IInv

LEMMA SendKeeps ==
    ASSUME T!ThreadsAssumption, T!IInv, NEW w \in Servers, T!Send(w)
    PROVE  T!IInv'
<1>1. PICK i, v, d : i = talk[w].about /\ v = inquiry[i].inquirer /\ d = T!Message(talk[w])
  OBVIOUS
<1>2. /\ talk[w].op = "SEND" /\ Len(message) < MaxMessages /\ message' = Append(message, d)
      /\ IF talk[w].role = "SHELTER" THEN T!Notify(v, "NEW_MESSAGE", i) ELSE UNCHANGED notice
      /\ talk' = [talk EXCEPT ![w] = T!Idle]
      /\ UNCHANGED <<inquiry, staff, raced, cutShort>>
  BY <1>1 DEF T!Send, T!Participants
<1>3. /\ talk[w].user \in Members /\ i \in DOMAIN inquiry /\ i \in 1..MaxThreads
      /\ v \in Members /\ talk[w].role \in {"APPLICANT", "SHELTER"}
  <2>1. talk[w] \in ThreadRequest
    BY TalkTyped DEF T!IInv
  <2>2. talk[w].user \in Members /\ i \in DOMAIN inquiry /\ talk[w].role # "NONE"
    BY <1>1, <1>2 DEF T!IInv, T!RequestsKnown, T!RequestKnown
  <2>3. inquiry[i] \in T!InquiryDoc /\ i \in 1..MaxThreads
    BY <2>2 DEF T!IInv, T!TypeOK, T!ThreadsAssumption
  <2> QED BY <1>1, <2>1, <2>2, <2>3 DEF ThreadRequest, T!InquiryDoc
<1>4. d \in T!MessageDoc /\ d.thread = i /\ d.role = talk[w].role
  BY <1>1, <1>3 DEF T!Message, T!MessageDoc
<1>5. PICK n : n = Len(message)
  OBVIOUS
<1>6. /\ n \in Nat /\ DOMAIN message = 1..n /\ DOMAIN message' = 1..(n + 1)
      /\ message' \in Seq(T!MessageDoc) /\ Len(message') = n + 1
      /\ message'[n + 1] = d
      /\ \A k \in 1..n : message'[k] = message[k]
  BY <1>2, <1>4, <1>5 DEF T!IInv, T!TypeOK
<1>7. /\ notice' \in Seq(T!NoticeDoc)
      /\ DOMAIN notice \subseteq DOMAIN notice'
      /\ \A k \in DOMAIN notice' : notice'[k].thread \in DOMAIN inquiry
      /\ \A u, type, j : T!Told(u, type, j)' =
           IF talk[w].role = "SHELTER" /\ u = v /\ type = "NEW_MESSAGE" /\ j = i
             THEN T!Told(u, type, j) + 1 ELSE T!Told(u, type, j)
  <2>1. CASE talk[w].role = "SHELTER"
    BY <1>2, <1>3, <2>1, NotifyKeeps
  <2>2. CASE talk[w].role # "SHELTER"
    <3>1. \A u, type, j : T!Told(u, type, j)' = T!Told(u, type, j)
      BY <1>2, <2>2, ToldSame
    <3> QED BY <1>2, <2>2, <3>1 DEF T!IInv, T!TypeOK, T!RowsKnown
  <2> QED BY <2>1, <2>2
<1>8. /\ talk' \in [Servers -> ThreadRequest]
      /\ \A x \in Servers : talk'[x] = IF x = w THEN T!Idle ELSE talk[x]
      /\ T!RequestKnown(talk[w])'
      /\ T!Idle.op = "IDLE"
  BY <1>2, EndKeeps
<1>9. T!TypeOK'
  <2>1. n + 1 <= MaxMessages
    BY <1>2, <1>5, <1>6 DEF T!ThreadsAssumption
  <2> QED BY <1>2, <1>6, <1>7, <1>8, <2>1 DEF T!IInv, T!TypeOK, ThreadRequest
<1>10. T!RequestsKnown'
  BY <1>2, <1>7, <1>8, KnownKept
<1>11. T!RowsKnown'
  <2>1. ASSUME NEW k \in 1..(n + 1) PROVE message'[k].thread \in DOMAIN inquiry
    <3>1. k = n + 1 \/ k \in 1..n
      BY <1>6
    <3> QED BY <1>3, <1>4, <1>6, <3>1 DEF T!IInv, T!RowsKnown
  <2> QED BY <1>2, <1>6, <1>7, <2>1 DEF T!RowsKnown
<1>12. T!OpensAlone' /\ T!NoSecond'
  BY <1>2, <1>8, OpensKept
<1>13. T!AlertsOnce'
  BY <1>8, AlertsKept
<1>14. T!ParticipantsTold'
  <2> SUFFICES ASSUME NEW j \in DOMAIN inquiry PROVE ToldOf(j)'
    BY <1>2, ToldOfEach
  <2>1. ToldOf(j) /\ inquiry'[j] = inquiry[j]
    BY <1>2, ToldOfEach DEF T!IInv
  <2>2. \A r : Waits(j, r)' <=> Waits(j, r)
    BY <1>2, <1>8 DEF Waits
  <2>3. \A r : T!Told(r, "NEW_INQUIRY", j)' = T!Told(r, "NEW_INQUIRY", j)
    BY <1>7
  <2>4. Cardinality(T!Answers(j))' = IF talk[w].role = "SHELTER" /\ j = i
                                     THEN Cardinality(T!Answers(j)) + 1
                                     ELSE Cardinality(T!Answers(j))
    BY <1>2, <1>4, AnswersOneMore DEF T!IInv
  <2>5. T!Told(inquiry[j].inquirer, "NEW_MESSAGE", j)'
          = IF talk[w].role = "SHELTER" /\ j = i
              THEN T!Told(inquiry[j].inquirer, "NEW_MESSAGE", j) + 1
              ELSE T!Told(inquiry[j].inquirer, "NEW_MESSAGE", j)
    <3>1. PICK u : u = inquiry[j].inquirer
      OBVIOUS
    <3>2. T!Told(u, "NEW_MESSAGE", j)' = IF talk[w].role = "SHELTER" /\ j = i
                                         THEN T!Told(u, "NEW_MESSAGE", j) + 1
                                         ELSE T!Told(u, "NEW_MESSAGE", j)
      BY <1>1, <1>7, <3>1
    <3> QED BY <1>2, <3>1, <3>2
  <2> QED BY <1>2, <2>1, <2>2, <2>3, <2>4, <2>5 DEF ToldOf
<1> QED BY <1>9, <1>10, <1>11, <1>12, <1>13, <1>14 DEF T!IInv

LEMMA AbortThreadKeeps ==
    ASSUME T!IInv, NEW w \in Servers, T!Abort(w)
    PROVE  T!IInv'
<1>1. /\ talk' = [talk EXCEPT ![w] = T!Idle]
      /\ UNCHANGED <<inquiry, message, notice, staff, raced>>
      /\ cutShort' = IF talk[w].op = "ALERT" THEN cutShort \cup {talk[w].about} ELSE cutShort
  BY DEF T!Abort
<1>2. /\ talk' \in [Servers -> ThreadRequest]
      /\ \A x \in Servers : talk'[x] = IF x = w THEN T!Idle ELSE talk[x]
      /\ T!RequestKnown(talk[w])'
      /\ T!Idle.op = "IDLE"
  BY <1>1, EndKeeps
<1>3. T!OpensAlone' /\ T!NoSecond'
  BY <1>1, <1>2, OpensKept
<1>4. CASE talk[w].op # "ALERT"
  BY <1>1, <1>2, <1>3, <1>4, ThreadsQuiet DEF T!IInv, T!TypeOK
<1>5. CASE talk[w].op = "ALERT"
  <2>1. PICK i : i = talk[w].about
    OBVIOUS
  <2>2. i \in DOMAIN inquiry /\ cutShort' = cutShort \cup {i}
    BY <1>1, <1>5, <2>1 DEF T!IInv, T!RequestsKnown, T!RequestKnown
  <2>3. T!TypeOK'
    BY <1>1, <1>2, <2>2 DEF T!IInv, T!TypeOK, ThreadRequest
  <2>4. T!RequestsKnown' /\ T!RowsKnown'
    BY <1>1, <1>2, KnownKept DEF T!IInv, T!RowsKnown
  <2>5. T!AlertsOnce'
    BY <1>2, AlertsKept
  <2>6. T!ParticipantsTold'
    <3> SUFFICES ASSUME NEW j \in DOMAIN inquiry PROVE ToldOf(j)'
      BY <1>1, ToldOfEach
    <3>1. ToldOf(j) /\ inquiry'[j] = inquiry[j]
      BY <1>1, ToldOfEach DEF T!IInv
    <3>2. \A u, type : T!Told(u, type, j)' = T!Told(u, type, j) /\ T!Told(u, type, j) \in Nat
      BY <1>1, ToldSame, CountsFinite DEF T!IInv
    <3>3. Cardinality(T!Answers(j))' = Cardinality(T!Answers(j))
      BY <1>1, AnswersSame
    <3>4. CASE j # i
      <4>1. \A r : Waits(j, r)' <=> Waits(j, r)
        BY <1>2, <2>1, <3>4 DEF Waits
      <4> QED BY <1>1, <2>2, <3>1, <3>2, <3>3, <3>4, <4>1 DEF ToldOf
    <3>5. CASE j = i
      <4>1. \A r : ~Waits(j, r)'
        BY <1>2, <1>5, <2>1, <3>5 DEF Waits, T!IInv, T!AlertsOnce
      <4>2. \A r \in Representatives : T!Told(r, "NEW_INQUIRY", j) <= 1
        BY <3>1, <3>2 DEF ToldOf
      <4> QED BY <1>1, <2>2, <3>1, <3>2, <3>3, <3>5, <4>1, <4>2 DEF ToldOf
    <3> QED BY <3>4, <3>5
  <2> QED BY <1>3, <2>3, <2>4, <2>5, <2>6 DEF T!IInv
<1> QED BY <1>4, <1>5

-----------------------------------------------------------------------------
LEMMA ThreadsInit == ASSUME T!ThreadsAssumption, T!Init PROVE T!IInv
<1>1. PICK t : t = T!Idle
  OBVIOUS
<1>2. t = [op |-> "IDLE", user |-> None, animal |-> None, about |-> 0, role |-> "NONE",
           left |-> {}]
  BY <1>1, RequestLiterals
<1>3. t \in ThreadRequest /\ t.op = "IDLE"
  BY <1>2 DEF ThreadRequest
<1>4. talk \in [Servers -> ThreadRequest] /\ \A w \in Servers : talk[w].op = "IDLE"
  BY <1>1, <1>3 DEF T!Init
<1>5. inquiry = <<>> /\ DOMAIN inquiry = {} /\ DOMAIN message = {} /\ DOMAIN notice = {}
  BY DEF T!Init
<1>6. T!TypeOK
  BY <1>4, <1>5 DEF T!Init, T!TypeOK, ThreadRequest, T!ThreadsAssumption
<1>7. T!RequestsKnown /\ T!OpensAlone /\ T!AlertsOnce
  BY <1>4 DEF T!RequestsKnown, T!RequestKnown, T!OpensAlone, T!AlertsOnce
<1> QED BY <1>5, <1>6, <1>7 DEF T!IInv, T!RowsKnown, T!NoSecond, T!ParticipantsTold

LEMMA ThreadsNext == ASSUME T!ThreadsAssumption, T!IInv, [T!Next]_(T!threadVars)
                     PROVE  T!IInv'
<1>1. CASE UNCHANGED T!threadVars
  <2>1. T!OpensAlone'
    BY <1>1, OpensKept DEF T!threadVars
  <2> QED BY <1>1, <2>1, TalkTyped, ThreadsQuiet DEF T!threadVars, T!IInv, T!TypeOK
<1>2. ASSUME NEW u \in Members, T!MemberStep(u) PROVE T!IInv'
  BY <1>2, MarkAllKeeps, ChangeStaffKeeps DEF T!MemberStep
<1>3. ASSUME NEW w \in Servers, NEW u \in Members, T!BeginStep(w, u) PROVE T!IInv'
  BY <1>3, BeginStartKeeps, BeginPostThreadKeeps, BeginMarkKeeps DEF T!BeginStep
<1>4. ASSUME NEW w \in Servers, T!ServeStep(w) PROVE T!IInv'
  BY <1>4, FindThreadKeeps, FindNoThreadKeeps, OpenThreadKeeps, AlertNextKeeps,
     AuthorizeKeeps, SendKeeps, MarkReadKeeps, AbortThreadKeeps DEF T!ServeStep
<1> QED BY <1>1, <1>2, <1>3, <1>4 DEF T!Next

LEMMA OneThreadOfInv == T!IInv => T!OneThreadUnlessRaced
<1> SUFFICES ASSUME T!IInv, NEW u \in Members, NEW a \in Animals, <<u, a>> \notin raced
             PROVE  Cardinality(T!Threads(u, a)) <= 1
  BY ThreadsCardinality DEF T!OneThreadUnlessRaced
<1>1. T!Inquiry(u, a).inquirer = u /\ T!Inquiry(u, a).animal = a
  BY DEF T!Inquiry
<1>2. \A i, j \in T!Threads(u, a) : i = j
  BY <1>1 DEF T!IInv, T!NoSecond, T!Threads
<1>3. CASE T!Threads(u, a) = {}
  BY <1>3, FS_EmptySet
<1>4. CASE T!Threads(u, a) # {}
  <2>1. PICK i : i \in T!Threads(u, a)
    BY <1>4
  <2>2. T!Threads(u, a) = {i}
    BY <1>2, <2>1
  <2>3. Cardinality({i}) = 1
    BY FS_Singleton
  <2> QED BY <2>2, <2>3
<1> QED BY <1>3, <1>4

\* A notice is written over only while it is unread.
LEMMA ReadStays ==
    ASSUME T!ThreadsAssumption, T!IInv, T!Next
    PROVE  \A n \in DOMAIN notice : /\ n \in DOMAIN notice'
                                    /\ notice[n].readAt # 0 => notice'[n] = notice[n]
<1> SUFFICES ASSUME NEW n \in DOMAIN notice
             PROVE  n \in DOMAIN notice' /\ (notice[n].readAt # 0 => notice'[n] = notice[n])
  OBVIOUS
<1>1. notice[n] \in T!NoticeDoc /\ notice \in [DOMAIN notice -> T!NoticeDoc]
  BY DEF T!IInv, T!TypeOK
<1>2. CASE UNCHANGED notice
  BY <1>2
<1>3. ASSUME NEW u, NEW type, NEW i, T!Notify(u, type, i)
      PROVE  n \in DOMAIN notice' /\ notice'[n] = notice[n]
  <2>1. PICK d : notice' = Append(notice, d)
    BY <1>3 DEF T!Notify
  <2>2. notice \in Seq(T!NoticeDoc)
    BY DEF T!IInv, T!TypeOK
  <2> QED BY <2>1, <2>2
<1>4. ASSUME NEW u \in Members, T!MemberStep(u)
      PROVE  n \in DOMAIN notice' /\ (notice[n].readAt # 0 => notice'[n] = notice[n])
  <2>1. CASE T!MarkAllRead(u)
    BY <2>1 DEF T!MarkAllRead, T!Unread
  <2>2. CASE T!ChangeStaff(u)
    BY <1>2, <2>2 DEF T!ChangeStaff
  <2> QED BY <1>4, <2>1, <2>2 DEF T!MemberStep
<1>5. ASSUME NEW w \in Servers, NEW u \in Members, T!BeginStep(w, u) PROVE UNCHANGED notice
  BY <1>5 DEF T!BeginStep, T!BeginStart, T!BeginPost, T!BeginMark
<1>6. ASSUME NEW w \in Servers, T!ServeStep(w)
      PROVE  n \in DOMAIN notice' /\ (notice[n].readAt # 0 => notice'[n] = notice[n])
  <2>1. CASE T!MarkRead(w)
    <3>1. PICK at \in T!ReadAt : notice' = [notice EXCEPT ![talk[w].about] = T!Stamp(@, at)]
      BY <2>1 DEF T!MarkRead
    <3>2. notice[n].readAt # 0 => T!Stamp(notice[n], at) = notice[n]
      BY DEF T!Stamp
    <3> QED BY <1>1, <3>1, <3>2
  <2>2. CASE T!Send(w)
    BY <1>2, <1>3, <2>2 DEF T!Send
  <2>3. CASE T!AlertNext(w)
    BY <1>3, <2>3 DEF T!AlertNext
  <2>4. CASE T!FindThread(w) \/ T!FindNoThread(w) \/ T!OpenThread(w) \/ T!Authorize(w) \/ T!Abort(w)
    <3>1. UNCHANGED notice
      BY <2>4 DEF T!FindThread, T!FindNoThread, T!OpenThread, T!Authorize, T!Abort
    <3> QED BY <1>2, <3>1
  <2> QED BY <1>6, <2>1, <2>2, <2>3, <2>4 DEF T!ServeStep
<1> QED BY <1>2, <1>4, <1>5, <1>6 DEF T!Next

\* However requests look for threads, open them, post, read and crash, and
\* staff change.
THEOREM ThreadsInvariant == ASSUME T!ThreadsAssumption PROVE T!Spec => []T!IInv
<1> QED BY ThreadsInit, ThreadsNext, PTL DEF T!Spec

LEMMA ThreadsMove == MCSpec => T!Spec
<1>1. MCInit => T!Init
  BY DEF MCInit
<1>2. [MCNext]_vars => [T!Next]_(T!threadVars)
  BY DEF MCNext, vars, threadVars, T!threadVars
<1> QED BY <1>1, <1>2, PTL DEF MCSpec, T!Spec

LEMMA ThreadsHold == MCSpec => []T!IInv
<1>1. T!ThreadsAssumption
  BY ConstantsFit
<1> QED BY <1>1, ThreadsInvariant, ThreadsMove, PTL

\* A member has one thread about an animal, unless two of its requests looked
\* for it before either had opened it.
THEOREM OneThreadForBoth == MCSpec => []OneThreadUnlessRaced
<1>1. T!IInv => OneThreadUnlessRaced
  BY OneThreadOfInv DEF OneThreadUnlessRaced
<1> QED BY <1>1, ThreadsHold, PTL

\* The inquirer has one notice for each answer, and each operator one alert of
\* each thread, but those its request has left to send or was cut short of.
THEOREM BothAreTold == MCSpec => []ParticipantsTold
<1>1. T!IInv => ParticipantsTold
  BY DEF T!IInv, ParticipantsTold
<1> QED BY <1>1, ThreadsHold, PTL

\* No step changes when a notice was first read, or loses a notice: the write
\* that marks it looks for the notice unread.
THEOREM ReadFinal == MCSpec => ReadIsFinal
<1>1. T!ThreadsAssumption
  BY ConstantsFit
<1>2. T!IInv /\ [T!Next]_(T!threadVars) => [\A n \in DOMAIN notice :
          /\ n \in DOMAIN notice'
          /\ notice[n].readAt # 0 => notice'[n] = notice[n]]_(T!threadVars)
  BY <1>1, ReadStays
<1> QED BY <1>2, ThreadsHold, ThreadsMove, PTL DEF T!Spec, ReadIsFinal, T!ReadIsFinal

-----------------------------------------------------------------------------
\* Editorial

\* Cardinality is that of the library in the instance too.
LEMMA EditorialCardinality == \A S : D!Cardinality(S) = Cardinality(S)
<1> QED BY DEF D!Cardinality, Cardinality

HandDoc == [op : {"IDLE", "WRITE", "EDIT", "REMOVE", "ANSWER"}, doc : Slots \cup {None},
            version : 0..MaxEdits, text : 0..MaxEdits]

SlotDoc == [state : {"ABSENT", "LIVE", "GONE"}, version : 0..MaxEdits, text : 0..MaxEdits]

\* VersionNamesQuestions in two parts: the history, and the answers.
HistoryTrue(d) ==
    ~kind.once => \A n \in D!Later(d) :
        \/ past[d][n].over = past[d][n - 1].text
        \/ kind.erasable /\ past[d][n].over = D!Blank

AnswerTrue(a) ==
    \E d \in Slots : /\ a[1] \in DOMAIN past[d]
                     /\ past[d][a[1]].text = a[2]
                     /\ \A e \in Slots : a[1] \in DOMAIN past[e] => e = d

LEMMA KindLiterals ==
    /\ D!Announcement = [name |-> "ANNOUNCEMENT", keyed |-> FALSE, once |-> FALSE,
                       erasable |-> FALSE]
    /\ D!Faq = [name |-> "FAQ", keyed |-> FALSE, once |-> FALSE,
              erasable |-> FALSE]
    /\ D!Questionnaire = [name |-> "QUESTIONNAIRE", keyed |-> TRUE, once |-> FALSE,
                        erasable |-> FALSE]
    /\ D!Review = [name |-> "REVIEW", keyed |-> TRUE, once |-> FALSE,
                 erasable |-> TRUE]
    /\ D!Report = [name |-> "REPORT", keyed |-> FALSE, once |-> TRUE,
                 erasable |-> TRUE]
<1>1. D!Announcement = [name |-> "ANNOUNCEMENT", keyed |-> FALSE, once |-> FALSE,
                      erasable |-> FALSE]
  BY DEF D!Announcement, D!Kind
<1>2. D!Faq = [name |-> "FAQ", keyed |-> FALSE, once |-> FALSE,
             erasable |-> FALSE]
  BY DEF D!Faq, D!Kind
<1>3. D!Questionnaire = [name |-> "QUESTIONNAIRE", keyed |-> TRUE, once |-> FALSE,
                       erasable |-> FALSE]
  <2>1. PICK k : k = [D!Kind("QUESTIONNAIRE") EXCEPT !.keyed = TRUE]
    OBVIOUS
  <2>2. k = [name |-> "QUESTIONNAIRE", keyed |-> TRUE, once |-> FALSE,
             erasable |-> FALSE]
    BY <2>1 DEF D!Kind
  <2> QED BY <2>1, <2>2, Zenon DEF D!Questionnaire
<1>4. D!Review = [name |-> "REVIEW", keyed |-> TRUE, once |-> FALSE,
                erasable |-> TRUE]
  <2>1. PICK k : k = [D!Kind("REVIEW") EXCEPT !.keyed = TRUE, !.erasable = TRUE]
    OBVIOUS
  <2>2. k = [name |-> "REVIEW", keyed |-> TRUE, once |-> FALSE,
             erasable |-> TRUE]
    BY <2>1 DEF D!Kind
  <2> QED BY <2>1, <2>2, Zenon DEF D!Review
<1>5. D!Report = [name |-> "REPORT", keyed |-> FALSE, once |-> TRUE,
                erasable |-> TRUE]
  <2>1. PICK k : k = [D!Kind("REPORT") EXCEPT !.once = TRUE, !.erasable = TRUE]
    OBVIOUS
  <2>2. k = [name |-> "REPORT", keyed |-> FALSE, once |-> TRUE,
             erasable |-> TRUE]
    BY <2>1 DEF D!Kind
  <2> QED BY <2>1, <2>2, Zenon DEF D!Report
<1> QED BY <1>1, <1>2, <1>3, <1>4, <1>5

LEMMA KindFacts ==
    /\ D!Announcement # D!Questionnaire /\ D!Faq # D!Questionnaire
    /\ D!Review # D!Questionnaire /\ D!Report # D!Questionnaire
    /\ D!Questionnaire.keyed /\ ~D!Questionnaire.once /\ ~D!Questionnaire.erasable
    /\ ~D!Announcement.once /\ ~D!Faq.once /\ ~D!Review.once
<1>1. D!Questionnaire.name = "QUESTIONNAIRE" /\ D!Announcement.name = "ANNOUNCEMENT"
        /\ D!Faq.name = "FAQ" /\ D!Review.name = "REVIEW" /\ D!Report.name = "REPORT"
  BY KindLiterals
<1>2. /\ D!Questionnaire.keyed = TRUE /\ D!Questionnaire.once = FALSE
      /\ D!Questionnaire.erasable = FALSE
  BY KindLiterals
<1>3. D!Announcement.once = FALSE /\ D!Faq.once = FALSE /\ D!Review.once = FALSE
  BY KindLiterals
<1> QED BY <1>1, <1>2, <1>3

LEMMA FirstVersionType == /\ D!FirstVersion \in {0, 1}
                          /\ (kind = D!Questionnaire => D!FirstVersion = 1)
  BY DEF D!FirstVersion

Parted == D!TypeOK /\ (\A d \in Slots : D!DocTrue(d)) =>
             (D!VersionNamesQuestions <=> /\ \A d \in Slots : HistoryTrue(d)
                                        /\ \A a \in answered : AnswerTrue(a))

LEMMA InParts == Parted
<1> SUFFICES ASSUME \A d \in Slots : D!DocTrue(d)
             PROVE  D!VersionNamesQuestions <=> /\ \A d \in Slots : HistoryTrue(d)
                                              /\ \A a \in answered : AnswerTrue(a)
  BY DEF Parted
<1>1. ASSUME NEW d \in Slots, D!Live(d)
      PROVE  Len(past[d]) = doc[d].version - D!FirstVersion + 1
  BY <1>1 DEF D!DocTrue, D!Live, D!Place
<1>2. ASSUME NEW d \in Slots, kind.once PROVE Cardinality(D!Later(d)) <= 1
  <2>1. Len(past[d]) \in Nat /\ Len(past[d]) <= 2
    BY <1>2 DEF D!DocTrue
  <2>2. D!Later(d) = {} \/ D!Later(d) = {2}
    BY <2>1 DEF D!Later
  <2>3. Cardinality({}) = 0 /\ Cardinality({2}) = 1
    BY FS_EmptySet, FS_Singleton
  <2> QED BY <2>2, <2>3
<1> QED BY EditorialCardinality, <1>1, <1>2 DEF D!VersionNamesQuestions, HistoryTrue,
     AnswerTrue

LEMMA InPartsNext == Parted'
  BY InParts, PTL

-----------------------------------------------------------------------------
\* What a step leaves alone

LEMMA HandTyped == D!TypeOK <=> /\ kind \in D!Kinds
                              /\ doc \in [Slots -> SlotDoc]
                              /\ edits \in 0..MaxEdits
                              /\ hand \in [Servers -> HandDoc]
                              /\ answered \subseteq (1..MaxEdits) \X (1..MaxEdits)
  BY DEF D!TypeOK, SlotDoc, HandDoc

LEMMA IdleHand ==
    D!NoHand = [op |-> "IDLE", doc |-> None, version |-> 0, text |-> 0]
  BY DEF D!NoHand, D!Blank

\* A step that only takes or lays down a document.
LEMMA HandsKeep ==
    ASSUME D!EditorialAssumption, D!IInv, NEW w \in Servers, NEW t \in HandDoc,
           hand' = [hand EXCEPT ![w] = t], D!HandTrue(t),
           UNCHANGED <<kind, doc, edits, past>>,
           answered' \subseteq (1..MaxEdits) \X (1..MaxEdits),
           kind # D!Questionnaire => answered' = answered,
           \A a \in answered' : AnswerTrue(a)
    PROVE  D!IInv'
<1>1. /\ hand' \in [Servers -> HandDoc]
      /\ \A x \in Servers : hand'[x] = IF x = w THEN t ELSE hand[x]
  BY HandTyped DEF D!IInv
<1>2. D!TypeOK'
  BY <1>1 DEF D!IInv, D!TypeOK, HandDoc
<1>3. \A d \in Slots : D!DocTrue(d)'
  BY DEF D!IInv, D!DocTrue, D!ReadOf, D!Place, D!FirstVersion
<1>4. ASSUME NEW x \in Servers PROVE D!HandTrue(hand[x])'
  <2>1. D!HandTrue(hand'[x])
    BY <1>1 DEF D!IInv
  <2> QED BY <2>1 DEF D!HandTrue, D!ReadOf, D!Place, D!FirstVersion
<1>5. D!OneOfKey'
  BY DEF D!IInv, D!OneOfKey, D!Live
<1>6. \A d \in Slots : HistoryTrue(d)'
  <2>1. \A d \in Slots : HistoryTrue(d)
    BY InParts DEF D!IInv, Parted
  <2> QED BY <2>1 DEF HistoryTrue, D!Later
<1>7. \A a \in answered' : AnswerTrue(a)'
  BY DEF AnswerTrue
<1>8. D!VersionNamesQuestions'
  BY <1>2, <1>3, <1>6, <1>7, InPartsNext DEF Parted
<1> QED BY <1>2, <1>3, <1>4, <1>5, <1>8 DEF D!IInv

LEMMA AnswersWere == D!IInv => \A a \in answered : AnswerTrue(a)
  BY InParts DEF D!IInv, Parted

LEMMA TakeKeeps ==
    ASSUME D!EditorialAssumption, D!IInv, NEW w \in Servers, NEW t \in HandDoc,
           hand' = [hand EXCEPT ![w] = t], D!HandTrue(t),
           UNCHANGED <<kind, doc, edits, answered, past>>
    PROVE  D!IInv'
<1>1. answered' \subseteq (1..MaxEdits) \X (1..MaxEdits)
  BY HandTyped DEF D!IInv
<1> QED BY <1>1, AnswersWere, HandsKeep

LEMMA ToWriteKeeps ==
    ASSUME D!EditorialAssumption, D!IInv, NEW w \in Servers, NEW k, D!ToWrite(w, k)
    PROVE  D!IInv'
<1>1. hand \in [Servers -> HandDoc] /\ hand[w] = D!NoHand
  BY HandTyped DEF D!IInv, D!ToWrite
<1>2. PICK t : t = [op |-> "WRITE", doc |-> None, version |-> 0, text |-> 0]
  OBVIOUS
<1>3. t \in HandDoc /\ D!HandTrue(t)
  BY <1>2 DEF HandDoc, D!HandTrue, D!EditorialAssumption
<1>4. [D!NoHand EXCEPT !.op = "WRITE"] = t
  BY <1>2, IdleHand
<1>5. hand' = [hand EXCEPT ![w] = t]
  BY <1>1, <1>4 DEF D!ToWrite
<1> QED BY <1>3, <1>5, TakeKeeps DEF D!ToWrite

\* What a request has read.
LEMMA ReadKeepsTrue ==
    ASSUME D!EditorialAssumption, D!IInv, NEW w \in Servers,
           NEW op \in {"EDIT", "REMOVE", "ANSWER"},
           NEW d \in Slots, NEW k, D!Read(w, op, d, k),
           op = "REMOVE" => kind # D!Questionnaire,
           op = "ANSWER" => kind = D!Questionnaire,
           op = "EDIT" /\ kind.once => doc[d].version = D!FirstVersion
    PROVE  D!IInv'
<1>1. PICK t : t = [op |-> op, doc |-> d, version |-> doc[d].version, text |-> doc[d].text]
  OBVIOUS
<1>2. doc[d] \in SlotDoc /\ D!DocTrue(d) /\ doc[d].state = "LIVE"
  BY HandTyped DEF D!IInv, D!Read, D!Live
<1>3. /\ t \in HandDoc /\ t.op = op /\ t.doc = d
      /\ t.version = doc[d].version /\ t.text = doc[d].text
  BY <1>1, <1>2 DEF HandDoc, SlotDoc
<1>4. D!HandTrue(t)
  BY <1>2, <1>3 DEF D!HandTrue, D!DocTrue, SlotDoc
<1>5. hand' = [hand EXCEPT ![w] = t]
  BY <1>1 DEF D!Read
<1> QED BY <1>3, <1>4, <1>5, TakeKeeps DEF D!Read

LEMMA BeginKeeps ==
    ASSUME D!EditorialAssumption, D!IInv, NEW w \in Servers, D!BeginStep(w)
    PROVE  D!IInv'
<1>1. ASSUME NEW d \in Slots,
             D!EditAnnouncement(w, d) \/ D!EditFaq(w, d) \/ D!ReviseReview(w, d)
      PROVE  D!IInv'
  BY <1>1, KindFacts, ReadKeepsTrue DEF D!EditAnnouncement, D!EditFaq, D!ReviseReview,
       D!Read
<1>2. ASSUME NEW d \in Slots,
             D!DeleteAnnouncement(w, d) \/ D!DeleteFaq(w, d) \/ D!DeleteReview(w, d)
      PROVE  D!IInv'
  BY <1>2, KindFacts, ReadKeepsTrue DEF D!DeleteAnnouncement, D!DeleteFaq, D!DeleteReview,
       D!Read
<1>3. ASSUME NEW d \in Slots, D!ResolveReport(w, d) PROVE D!IInv'
  BY <1>3, ReadKeepsTrue DEF D!ResolveReport
<1>4. ASSUME NEW d \in Slots, D!BeginAnswer(w, d) PROVE D!IInv'
  BY <1>4, ReadKeepsTrue DEF D!BeginAnswer, D!Read
<1>5. CASE D!DefineQuestionnaire(w)
  BY <1>5, KindFacts, ToWriteKeeps, ReadKeepsTrue DEF D!DefineQuestionnaire, D!Read
<1>6. CASE D!PostAnnouncement(w) \/ D!PostFaq(w) \/ D!SubmitReview(w) \/ D!SubmitReport(w)
  BY <1>6, ToWriteKeeps DEF D!PostAnnouncement, D!PostFaq, D!SubmitReview, D!SubmitReport
<1> QED BY <1>1, <1>2, <1>3, <1>4, <1>5, <1>6 DEF D!BeginStep

-----------------------------------------------------------------------------
\* A request ends

LEMMA LayDown ==
    ASSUME D!EditorialAssumption, D!IInv, NEW w \in Servers,
           hand' = [hand EXCEPT ![w] = D!NoHand]
    PROVE  /\ D!NoHand \in HandDoc /\ D!HandTrue(D!NoHand)
           /\ hand' \in [Servers -> HandDoc]
           /\ \A x \in Servers : hand'[x] = IF x = w THEN D!NoHand ELSE hand[x]
           /\ D!NoHand.op = "IDLE"
<1>1. PICK t : t = D!NoHand
  OBVIOUS
<1>2. t = [op |-> "IDLE", doc |-> None, version |-> 0, text |-> 0]
  BY <1>1, IdleHand
<1>3. t \in HandDoc /\ t.op = "IDLE"
  BY <1>2 DEF HandDoc, D!EditorialAssumption
<1>4. D!HandTrue(t)
  BY <1>3 DEF D!HandTrue
<1>5. hand' = [hand EXCEPT ![w] = t] /\ hand \in [Servers -> HandDoc]
  BY <1>1, HandTyped DEF D!IInv
<1> QED BY <1>1, <1>3, <1>4, <1>5

LEMMA AbortHandKeeps ==
    ASSUME D!EditorialAssumption, D!IInv, NEW w \in Servers, D!Abort(w)
    PROVE  D!IInv'
  BY LayDown, TakeKeeps DEF D!Abort

LEMMA AnswerKeeps ==
    ASSUME D!EditorialAssumption, D!IInv, NEW w \in Servers, D!Answer(w)
    PROVE  D!IInv'
<1>1. PICK d, v, q : d = hand[w].doc /\ v = hand[w].version /\ q = hand[w].text
  OBVIOUS
<1>2. /\ answered' = answered \cup {<<v, q>>} /\ hand[w].op = "ANSWER"
      /\ hand' = [hand EXCEPT ![w] = D!NoHand]
      /\ UNCHANGED <<kind, doc, edits, past>>
  BY <1>1 DEF D!Answer
<1>3. /\ kind = D!Questionnaire /\ D!FirstVersion = 1 /\ ~kind.once /\ ~kind.erasable
      /\ d \in Slots /\ doc[d].state # "ABSENT"
      /\ v >= 1 /\ v <= doc[d].version /\ q \in D!ReadOf(past[d][D!Place(v)].text)
  BY <1>1, <1>2, KindFacts, FirstVersionType DEF D!IInv, D!HandTrue
<1>4. doc[d] \in SlotDoc /\ hand[w] \in HandDoc
  BY <1>3, HandTyped DEF D!IInv
<1>5. v \in Nat /\ doc[d].version \in Nat
  BY <1>1, <1>4, D!EditorialAssumption DEF HandDoc, SlotDoc
<1>6. D!Place(v) = v /\ D!Place(doc[d].version) = doc[d].version
  BY <1>3, <1>5 DEF D!Place
<1>7. past[d] \in Seq(D!Entry) /\ Len(past[d]) = doc[d].version
  BY <1>3, <1>6 DEF D!IInv, D!DocTrue
<1>8. v \in DOMAIN past[d] /\ past[d][v] \in D!Entry /\ q = past[d][v].text
  BY <1>3, <1>5, <1>6, <1>7 DEF D!ReadOf
<1>9. v \in 1..MaxEdits /\ q \in 1..MaxEdits
  BY <1>1, <1>3, <1>4, <1>8 DEF HandDoc, D!Entry
<1>10. AnswerTrue(<<v, q>>)
  <2>1. ASSUME NEW e \in Slots, v \in DOMAIN past[e] PROVE e = d
    <3>1. past[e] # <<>>
      BY <2>1
    <3>2. doc[e].state # "ABSENT" /\ doc[e] \in SlotDoc
      BY <3>1, HandTyped DEF D!IInv, D!DocTrue
    <3>3. D!Live(e) /\ D!Live(d)
      BY <1>3, <1>4, <3>2 DEF D!Live, D!IInv, D!OneOfKey, SlotDoc
    <3> QED BY <1>3, <3>3 DEF D!IInv, D!OneOfKey
  <2>2. \A e \in Slots : <<v, q>>[1] \in DOMAIN past[e] => e = d
    BY <2>1
  <2> QED BY <1>3, <1>8, <2>2 DEF AnswerTrue
<1>11. \A a \in answered' : AnswerTrue(a)
  BY <1>2, <1>10, AnswersWere
<1>12. answered' \subseteq (1..MaxEdits) \X (1..MaxEdits)
  BY <1>2, <1>9, HandTyped DEF D!IInv
<1> QED BY <1>2, <1>3, <1>11, <1>12, LayDown, HandsKeep

-----------------------------------------------------------------------------
\* Documents are written

\* Later entries leave the earlier ones, so what requests have read stands.
LEMMA HandsStand ==
    ASSUME D!EditorialAssumption, D!IInv, NEW w \in Servers,
           hand' = [hand EXCEPT ![w] = D!NoHand],
           UNCHANGED kind,
           \A d \in Slots : doc[d].state # "ABSENT" =>
               /\ doc'[d].state # "ABSENT" /\ doc'[d].version >= doc[d].version
               /\ \A n \in DOMAIN past[d] : past'[d][n] = past[d][n],
           doc' \in [Slots -> SlotDoc]
    PROVE  \A x \in Servers : D!HandTrue(hand[x])'
<1> SUFFICES ASSUME NEW x \in Servers, x # w PROVE D!HandTrue(hand[x])'
  <2>1. D!HandTrue(hand[w])'
    <3>1. hand'[w].op = "IDLE"
      BY LayDown
    <3> QED BY <3>1 DEF D!HandTrue
  <2> QED BY <2>1
<1>1. hand'[x] = hand[x] /\ D!HandTrue(hand[x]) /\ hand[x] \in HandDoc
  BY LayDown, HandTyped DEF D!IInv
<1>2. D!FirstVersion' = D!FirstVersion /\ D!FirstVersion \in {0, 1}
  BY FirstVersionType DEF D!FirstVersion
<1> SUFFICES ASSUME hand[x].op \in {"EDIT", "REMOVE", "ANSWER"}
             PROVE  D!HandTrue(hand[x])'
  BY <1>1 DEF D!HandTrue
<1>3. PICK d, v : d = hand[x].doc /\ v = hand[x].version
  OBVIOUS
<1>4. d \in Slots /\ doc[d].state # "ABSENT" /\ v >= D!FirstVersion /\ v <= doc[d].version
  BY <1>1, <1>3 DEF D!HandTrue
<1>5. doc[d] \in SlotDoc /\ doc'[d] \in SlotDoc /\ D!DocTrue(d)
  BY <1>4, HandTyped DEF D!IInv
<1>6. v \in Nat /\ doc[d].version \in Nat /\ doc'[d].version \in Nat
  BY <1>1, <1>3, <1>5 DEF HandDoc, SlotDoc, D!EditorialAssumption
<1>7. D!Place(v) \in 1..Len(past[d]) /\ past[d] \in Seq(D!Entry)
  BY <1>2, <1>4, <1>5, <1>6 DEF D!Place, D!DocTrue
<1>8. past'[d][D!Place(v)] = past[d][D!Place(v)]
  BY <1>4, <1>7
<1>9. v <= doc'[d].version /\ doc'[d].state # "ABSENT"
  BY <1>4, <1>6
<1> QED BY <1>1, <1>2, <1>3, <1>4, <1>8, <1>9 DEF D!HandTrue, D!ReadOf, D!Place

LEMMA CommitRemoveKeeps ==
    ASSUME D!EditorialAssumption, D!IInv, NEW w \in Servers, D!CommitRemove(w)
    PROVE  D!IInv'
<1>1. PICK d : d = hand[w].doc
  OBVIOUS
<1>2. /\ hand[w].op = "REMOVE" /\ doc' = [doc EXCEPT ![d].state = "GONE"]
      /\ hand' = [hand EXCEPT ![w] = D!NoHand]
      /\ UNCHANGED <<kind, edits, answered, past>>
  BY <1>1 DEF D!CommitRemove
<1>3. d \in Slots /\ doc[d].state # "ABSENT" /\ kind # D!Questionnaire
  BY <1>1, <1>2 DEF D!IInv, D!HandTrue
<1>4. doc \in [Slots -> SlotDoc] /\ doc[d] \in SlotDoc
  BY <1>3, HandTyped DEF D!IInv
<1>5. PICK c : c = [doc[d] EXCEPT !.state = "GONE"]
  OBVIOUS
<1>6. /\ c \in SlotDoc /\ c.state = "GONE" /\ c.version = doc[d].version
      /\ c.text = doc[d].text
  BY <1>4, <1>5 DEF SlotDoc
<1>7. doc' = [doc EXCEPT ![d] = c]
  BY <1>2, <1>5
<1>8. doc' \in [Slots -> SlotDoc] /\ \A e \in Slots : doc'[e] = IF e = d THEN c ELSE doc[e]
  BY <1>4, <1>6, <1>7
<1>9. D!TypeOK'
  BY <1>2, <1>8, LayDown DEF D!IInv, D!TypeOK, SlotDoc, HandDoc
<1>10. ASSUME NEW e \in Slots PROVE D!DocTrue(e)'
  <2>1. D!DocTrue(e)
    BY DEF D!IInv
  <2> QED BY <1>2, <1>3, <1>6, <1>8, <2>1 DEF D!DocTrue, D!ReadOf, D!Place, D!FirstVersion
<1>11. \A x \in Servers : D!HandTrue(hand[x])'
  <2>1. \A e \in Slots : doc'[e].version >= doc[e].version
    BY <1>4, <1>6, <1>8 DEF SlotDoc, D!EditorialAssumption
  <2> QED BY <1>2, <1>3, <1>6, <1>8, <2>1, HandsStand
<1>12. D!OneOfKey'
  BY <1>2, <1>3 DEF D!IInv, D!OneOfKey
<1>13. \A e \in Slots : HistoryTrue(e)'
  <2>1. \A e \in Slots : HistoryTrue(e)
    BY InParts DEF D!IInv, Parted
  <2> QED BY <1>2, <2>1 DEF HistoryTrue, D!Later
<1>14. \A a \in answered' : AnswerTrue(a)'
  BY <1>2, AnswersWere DEF AnswerTrue
<1> QED BY <1>2, <1>9, <1>10, <1>11, <1>12, <1>13, <1>14, InPartsNext DEF D!IInv, Parted

\* Only what is erasable, hence no questionnaire.
LEMMA EraseTextKeeps ==
    ASSUME D!EditorialAssumption, D!IInv, NEW d \in Slots, D!EraseText(d)
    PROVE  D!IInv'
<1>1. /\ kind.erasable /\ D!Live(d) /\ doc' = [doc EXCEPT ![d].text = D!Blank]
      /\ UNCHANGED <<kind, edits, hand, answered, past>>
  BY DEF D!EraseText
<1>2. kind # D!Questionnaire
  BY <1>1, KindFacts
<1>3. doc \in [Slots -> SlotDoc] /\ doc[d] \in SlotDoc
  BY HandTyped DEF D!IInv
<1>4. PICK c : c = [doc[d] EXCEPT !.text = D!Blank]
  OBVIOUS
<1>5. c \in SlotDoc /\ c.state = doc[d].state /\ c.version = doc[d].version /\ c.text = 0
  BY <1>3, <1>4 DEF SlotDoc, D!Blank, D!EditorialAssumption
<1>6. doc' = [doc EXCEPT ![d] = c]
  BY <1>1, <1>4
<1>7. doc' \in [Slots -> SlotDoc] /\ \A e \in Slots : doc'[e] = IF e = d THEN c ELSE doc[e]
  BY <1>3, <1>5, <1>6
<1>8. D!TypeOK'
  BY <1>1, <1>7 DEF D!IInv, D!TypeOK, SlotDoc
<1>9. ASSUME NEW e \in Slots PROVE D!DocTrue(e)'
  <2>1. D!DocTrue(e) /\ edits \in Nat
    BY DEF D!IInv, D!TypeOK, D!EditorialAssumption
  <2>2. CASE e # d
    BY <1>1, <1>7, <2>1, <2>2 DEF D!DocTrue, D!ReadOf, D!Place, D!FirstVersion
  <2>3. CASE e = d
    BY <1>1, <1>5, <1>7, <2>1, <2>3 DEF D!DocTrue, D!ReadOf, D!Place, D!FirstVersion,
         D!Blank
  <2> QED BY <2>2, <2>3
<1>10. ASSUME NEW x \in Servers PROVE D!HandTrue(hand[x])'
  <2>1. D!HandTrue(hand[x])
    BY DEF D!IInv
  <2> QED BY <1>1, <1>5, <1>7, <2>1 DEF D!HandTrue, D!ReadOf, D!Place, D!FirstVersion
<1>11. D!OneOfKey'
  BY <1>1, <1>2 DEF D!IInv, D!OneOfKey
<1>12. \A e \in Slots : HistoryTrue(e)'
  <2>1. \A e \in Slots : HistoryTrue(e)
    BY InParts DEF D!IInv, Parted
  <2> QED BY <1>1, <2>1 DEF HistoryTrue, D!Later
<1>13. \A a \in answered' : AnswerTrue(a)'
  BY <1>1, AnswersWere DEF AnswerTrue
<1> QED BY <1>1, <1>8, <1>9, <1>10, <1>11, <1>12, <1>13, InPartsNext DEF D!IInv, Parted

\* A text more is written, of the document d.
LEMMA WriteKeeps ==
    ASSUME D!EditorialAssumption, D!IInv, NEW w \in Servers, NEW d \in Slots, D!Write(w, d)
    PROVE  D!IInv'
<1>1. PICK c, h, s : /\ c = [state |-> "LIVE", version |-> D!FirstVersion, text |-> edits + 1]
                     /\ h = [text |-> edits + 1, over |-> D!Blank]
                     /\ s = <<h>>
  OBVIOUS
<1>2. /\ doc[d].state = "ABSENT" /\ (kind.keyed => D!Standing = {}) /\ edits < MaxEdits
      /\ edits' = edits + 1
      /\ doc' = [doc EXCEPT ![d] = c]
      /\ past' = [past EXCEPT ![d] = s]
      /\ hand' = [hand EXCEPT ![w] = D!NoHand]
      /\ UNCHANGED <<kind, answered>>
  BY <1>1 DEF D!Write
<1>3. /\ edits \in Nat /\ edits + 1 \in 1..MaxEdits /\ D!FirstVersion \in {0, 1}
      /\ MaxEdits \in Nat
  BY <1>2, FirstVersionType DEF D!IInv, D!TypeOK, D!EditorialAssumption
<1>4. /\ c \in SlotDoc /\ c.state = "LIVE" /\ c.version = D!FirstVersion
      /\ c.text = edits + 1
      /\ h \in D!Entry /\ h.text = edits + 1
  BY <1>1, <1>3 DEF SlotDoc, D!Entry, D!Blank
<1>5. doc \in [Slots -> SlotDoc] /\ DOMAIN past = Slots
  BY HandTyped DEF D!IInv
<1>6. /\ doc' \in [Slots -> SlotDoc]
      /\ \A e \in Slots : doc'[e] = IF e = d THEN c ELSE doc[e]
      /\ \A e \in Slots : past'[e] = IF e = d THEN s ELSE past[e]
  BY <1>2, <1>4, <1>5
<1>7. D!TypeOK' /\ DOMAIN past' = Slots
  <2>1. hand' \in [Servers -> HandDoc]
    BY <1>2, LayDown
  <2>2. edits' \in 0..MaxEdits
    BY <1>2, <1>3
  <2>3. DOMAIN past' = Slots
    BY <1>2, <1>5
  <2> QED BY <1>2, <1>6, <2>1, <2>2, <2>3 DEF D!IInv, D!TypeOK, SlotDoc, HandDoc
<1>8. kind = D!Questionnaire => answered = {} /\ \A e \in Slots : ~D!Live(e)
  <2> SUFFICES ASSUME kind = D!Questionnaire
               PROVE  answered = {} /\ \A e \in Slots : ~D!Live(e)
    OBVIOUS
  <2>1. \A e \in Slots : ~D!Live(e)
    BY <1>2, KindFacts DEF D!Standing
  <2>2. \A e \in Slots : past[e] = <<>>
    BY <1>5, <2>1 DEF D!IInv, D!OneOfKey, D!Live, D!DocTrue, SlotDoc
  <2>3. ASSUME NEW a \in answered PROVE FALSE
    <3>1. PICK e \in Slots : a[1] \in DOMAIN past[e]
      BY AnswersWere DEF AnswerTrue
    <3> QED BY <2>2, <3>1
  <2> QED BY <2>1, <2>3
<1>9. ASSUME NEW e \in Slots PROVE D!DocTrue(e)' /\ HistoryTrue(e)'
  <2>1. D!DocTrue(e) /\ HistoryTrue(e) /\ doc[e] \in SlotDoc
    BY <1>5, InParts DEF D!IInv, Parted
  <2>2. CASE e # d
    <3>1. doc[e].version <= edits + 1 /\ doc[e].text <= edits + 1
      BY <1>3, <2>1 DEF D!DocTrue, SlotDoc
    <3> QED BY <1>2, <1>6, <2>1, <2>2, <3>1
        DEF D!DocTrue, HistoryTrue, D!Later, D!ReadOf, D!Place, D!FirstVersion, D!Entry
  <2>3. CASE e = d
    <3>1. s \in Seq(D!Entry) /\ Len(s) = 1 /\ s[1] = h
      BY <1>1, <1>4
    <3>2. past'[d] = s /\ doc'[d] = c
      BY <1>6
    <3>3. /\ D!FirstVersion' = D!FirstVersion /\ D!Place(D!FirstVersion)' = 1
          /\ D!FirstVersion <= edits + 1
      BY <1>2, <1>3 DEF D!FirstVersion, D!Place
    <3>4. s[1].text \in D!ReadOf(s[1].text) /\ \A t : D!ReadOf(t)' = D!ReadOf(t)
      BY <1>2 DEF D!ReadOf
    <3>5. D!DocTrue(d)'
      <4>1. past'[d] \in Seq(D!Entry)' /\ Len(past'[d]) = 1 /\ Len(past'[d]) <= 2
        <5>1. past'[d] \in Seq(D!Entry)
          BY <3>1, <3>2
        <5>2. Seq(D!Entry)' = Seq(D!Entry)
          BY Zenon DEF D!Entry
        <5>3. Len(past'[d]) = 1
          BY <3>1, <3>2
        <5>4. Len(past'[d]) <= 2
          BY <5>3
        <5> QED BY <5>1, <5>2, <5>3, <5>4
      <4>2. /\ doc'[d].version <= edits' /\ doc'[d].text <= edits'
            /\ doc'[d].state = "LIVE" /\ doc'[d].state # "ABSENT"
        BY <1>2, <1>3, <1>4, <3>2, <3>3
      <4>3. doc'[d].version >= D!FirstVersion' /\ D!Place(doc[d].version)' = 1
        BY <1>2, <1>3, <1>4, <3>2, <3>3 DEF D!Place, D!FirstVersion
      <4>4. doc'[d].text = edits + 1 /\ past'[d][1].text = edits + 1
        BY <1>4, <3>1, <3>2
      <4>5. doc'[d].text \in D!ReadOf(past[d][Len(past[d])].text)'
        BY <4>1, <4>4, <1>2 DEF D!ReadOf
      <4>6. Len(past'[d]) = D!Place(doc[d].version)'
        BY <4>1, <4>3
      <4>7. doc'[d].state = "ABSENT" => past'[d] = <<>>
        BY <4>2
      <4> QED BY <4>1, <4>2, <4>3, <4>5, <4>6, <4>7, Zenon DEF D!DocTrue
    <3>6. D!Later(d)' = {}
      <4>1. Len(past'[d]) = 1
        BY <3>1, <3>2
      <4>2. D!Later(d)' = 2..Len(past'[d])
        BY DEF D!Later
      <4> QED BY <4>1, <4>2
    <3> QED BY <2>3, <3>5, <3>6 DEF HistoryTrue
  <2> QED BY <2>2, <2>3
<1>10. \A x \in Servers : D!HandTrue(hand[x])'
  <2>1. \A e \in Slots : doc[e].version >= doc[e].version
    BY <1>5 DEF SlotDoc, D!EditorialAssumption
  <2> QED BY <1>2, <1>6, <2>1, HandsStand
<1>11. D!OneOfKey'
  BY <1>2, <1>4, <1>6, <1>8 DEF D!IInv, D!OneOfKey, D!Live
<1>12. \A a \in answered' : AnswerTrue(a)'
  <2> SUFFICES ASSUME NEW a \in answered PROVE FALSE
    BY <1>2
  <2> QED BY <1>8 DEF D!IInv, D!OneOfKey
<1> QED BY <1>7, <1>9, <1>10, <1>11, <1>12, InPartsNext DEF D!IInv, Parted

LEMMA SaveKeeps ==
    ASSUME D!EditorialAssumption, D!IInv, NEW w \in Servers, D!Save(w)
    PROVE  D!IInv'
<1>1. PICK d, v, h, q, s :
        /\ d = hand[w].doc /\ v = hand[w].version
        /\ h = [text |-> edits + 1, over |-> hand[w].text]
        /\ q = IF kind.once THEN doc[d].text ELSE edits + 1
        /\ s = Append(past[d], h)
  OBVIOUS
<1>2. /\ hand[w].op = "EDIT" /\ D!Live(d) /\ doc[d].version = v /\ edits < MaxEdits
      /\ edits' = edits + 1
      /\ past' = [past EXCEPT ![d] = s]
      /\ hand' = [hand EXCEPT ![w] = D!NoHand]
      /\ UNCHANGED <<kind, answered>>
  BY <1>1 DEF D!Save, D!Matches
<1>3. doc' = [doc EXCEPT ![d].version = @ + 1, ![d].text = IF kind.once THEN @ ELSE edits + 1]
  BY <1>1 DEF D!Save
<1>4. /\ d \in Slots /\ hand[w] \in HandDoc /\ doc \in [Slots -> SlotDoc]
      /\ doc[d] \in SlotDoc
      /\ D!DocTrue(d) /\ D!HandTrue(hand[w]) /\ DOMAIN past = Slots
  BY <1>1, <1>2, HandTyped DEF D!IInv, D!HandTrue
<1>5. /\ edits \in Nat /\ edits + 1 \in 1..MaxEdits /\ D!FirstVersion \in {0, 1}
      /\ MaxEdits \in Nat /\ doc[d].version \in Nat /\ doc[d].text \in 0..MaxEdits
      /\ v >= D!FirstVersion /\ v <= edits
  BY <1>1, <1>2, <1>4, FirstVersionType
     DEF D!IInv, D!TypeOK, D!EditorialAssumption, SlotDoc, D!HandTrue, D!DocTrue
<1>6. PICK c : c = [state |-> "LIVE", version |-> v + 1, text |-> q]
  OBVIOUS
<1>7. /\ c \in SlotDoc /\ c.state = "LIVE" /\ c.version = v + 1 /\ c.text = q
      /\ q <= edits + 1
      /\ h \in D!Entry /\ h.text = edits + 1 /\ h.over = hand[w].text
  BY <1>1, <1>2, <1>4, <1>5, <1>6 DEF SlotDoc, D!Entry, HandDoc, D!DocTrue
<1>8. doc' = [doc EXCEPT ![d] = c]
  <2>1. PICK b, r : b = doc[d] /\ r = doc[d].text
    OBVIOUS
  <2>2. b = [state |-> "LIVE", version |-> v, text |-> r]
    BY <1>2, <1>4, <2>1 DEF SlotDoc, D!Live
  <2>3. PICK e : e = [b EXCEPT !.version = v + 1, !.text = q]
    OBVIOUS
  <2>4. e = [state |-> "LIVE", version |-> v + 1, text |-> q]
    BY <2>2, <2>3
  <2>5. doc' = [doc EXCEPT ![d].version = v + 1, ![d].text = q]
    BY <1>1, <1>2, <1>3, <1>4
  <2>6. doc' = [doc EXCEPT ![d] = [b EXCEPT !.version = v + 1, !.text = q]]
    BY <1>4, <2>1, <2>5
  <2> QED BY <1>6, <2>3, <2>4, <2>6
<1>9. /\ doc' \in [Slots -> SlotDoc]
      /\ \A e \in Slots : doc'[e] = IF e = d THEN c ELSE doc[e]
      /\ \A e \in Slots : past'[e] = IF e = d THEN s ELSE past[e]
  BY <1>2, <1>4, <1>7, <1>8
<1>10. D!TypeOK' /\ DOMAIN past' = Slots
  <2>1. hand' \in [Servers -> HandDoc]
    BY <1>2, LayDown
  <2>2. edits' \in 0..MaxEdits
    BY <1>2, <1>5
  <2>3. DOMAIN past' = Slots
    BY <1>2, <1>4
  <2> QED BY <1>2, <1>9, <2>1, <2>2, <2>3 DEF D!IInv, D!TypeOK, SlotDoc, HandDoc
<1>11. PICK n : n = Len(past[d])
  OBVIOUS
<1>12. /\ past[d] \in Seq(D!Entry) /\ n \in Nat /\ n = D!Place(v) /\ n >= 1
       /\ s \in Seq(D!Entry) /\ Len(s) = n + 1 /\ s[n + 1] = h
       /\ DOMAIN past[d] = 1..n /\ DOMAIN s = 1..(n + 1)
       /\ \A k \in 1..n : s[k] = past[d][k]
  <2>1. past[d] \in Seq(D!Entry) /\ n \in Nat /\ n = D!Place(v) /\ n >= 1
    BY <1>2, <1>4, <1>5, <1>11 DEF D!DocTrue, D!Live, D!Place
  <2>2. PICK p : p = past[d]
    OBVIOUS
  <2>3. p \in Seq(D!Entry) /\ n = Len(p) /\ s = Append(p, h)
    BY <1>1, <1>11, <2>1, <2>2
  <2>4. /\ s \in Seq(D!Entry) /\ Len(s) = n + 1 /\ s[n + 1] = h
        /\ DOMAIN p = 1..n /\ DOMAIN s = 1..(n + 1)
        /\ \A k \in 1..n : s[k] = p[k]
    BY <1>7, <2>1, <2>3
  <2> QED BY <2>1, <2>2, <2>4
<1>13. kind.once => n = 1 /\ v = D!FirstVersion
  BY <1>1, <1>2, <1>4, <1>5, <1>12 DEF D!HandTrue, D!Place
<1>14. ASSUME NEW e \in Slots PROVE D!DocTrue(e)'
  <2>1. D!DocTrue(e) /\ doc[e] \in SlotDoc
    BY <1>4 DEF D!IInv
  <2>2. CASE e # d
    <3>1. doc[e].version <= edits + 1 /\ doc[e].text <= edits + 1
      BY <1>5, <2>1 DEF D!DocTrue, SlotDoc
    <3> QED BY <1>2, <1>9, <2>1, <2>2, <3>1 DEF D!DocTrue, D!ReadOf, D!Place,
         D!FirstVersion, D!Entry
  <2>3. CASE e = d
    <3>1. v + 1 >= D!FirstVersion /\ v + 1 <= edits + 1 /\ n + 1 = D!Place(v + 1)
      BY <1>2, <1>5, <1>12 DEF D!Place
    <3>2. ~kind.once => q \in D!ReadOf(edits + 1)
      BY <1>1 DEF D!ReadOf
    <3> QED BY <1>2, <1>7, <1>9, <1>12, <1>13, <2>3, <3>1, <3>2
        DEF D!DocTrue, D!ReadOf, D!Place, D!FirstVersion, D!Entry
  <2> QED BY <2>2, <2>3
<1>15. ASSUME NEW e \in Slots PROVE HistoryTrue(e)'
  <2>1. HistoryTrue(e)
    BY InParts DEF D!IInv, Parted
  <2>2. CASE e # d
    BY <1>2, <1>9, <2>1, <2>2 DEF HistoryTrue, D!Later
  <2>3. CASE e = d /\ ~kind.once
    <3>1. hand[w].text \in D!ReadOf(past[d][n].text)
      BY <1>1, <1>2, <1>4, <1>12, <2>3 DEF D!HandTrue
    <3>2. h.over = past[d][n].text \/ (kind.erasable /\ h.over = D!Blank)
      BY <1>7, <3>1 DEF D!ReadOf
    <3>3. D!Later(d)' = 2..(n + 1)
      <4>1. past'[d] = s
        BY <1>4, <1>9
      <4> QED BY <1>12, <4>1 DEF D!Later
    <3>4. ASSUME NEW k \in 2..(n + 1)
          PROVE  \/ past'[d][k].over = past'[d][k - 1].text
                 \/ kind.erasable /\ past'[d][k].over = D!Blank
      <4>1. CASE k = n + 1
        <5>1. past'[d][k] = h /\ past'[d][k - 1] = past[d][n]
          BY <1>4, <1>9, <1>12, <4>1
        <5> QED BY <3>2, <5>1
      <4>2. CASE k # n + 1
        <5>1. k \in 2..n /\ k \in 1..n /\ k - 1 \in 1..n
          BY <1>12, <4>2
        <5>2. past'[d][k] = past[d][k] /\ past'[d][k - 1] = past[d][k - 1]
          BY <1>4, <1>9, <1>12, <5>1
        <5>3. k \in D!Later(d)
          BY <1>11, <5>1 DEF D!Later
        <5> QED BY <2>1, <2>3, <5>2, <5>3 DEF HistoryTrue
      <4> QED BY <4>1, <4>2
    <3> QED BY <1>2, <2>3, <3>3, <3>4 DEF HistoryTrue
  <2>4. CASE kind.once
    BY <1>2, <2>4 DEF HistoryTrue
  <2> QED BY <2>2, <2>3, <2>4
<1>16. \A x \in Servers : D!HandTrue(hand[x])'
  <2>1. \A e \in Slots : doc[e].version >= doc[e].version
    BY <1>4 DEF SlotDoc, D!EditorialAssumption
  <2>2. v + 1 >= doc[d].version
    BY <1>2, <1>5
  <2>3. \A e \in Slots : doc[e].state # "ABSENT" =>
           /\ doc'[e].state # "ABSENT" /\ doc'[e].version >= doc[e].version
           /\ \A k \in DOMAIN past[e] : past'[e][k] = past[e][k]
    <3>1. DOMAIN past[d] = 1..n
      BY <1>11, <1>12
    <3> QED BY <1>7, <1>9, <1>12, <2>1, <2>2, <3>1
  <2> QED BY <1>2, <1>9, <2>3, HandsStand
<1>17. D!OneOfKey'
  BY <1>2, <1>7, <1>9 DEF D!IInv, D!OneOfKey, D!Live
<1>18. ASSUME NEW a \in answered PROVE AnswerTrue(a)'
  <2>1. kind = D!Questionnaire
    BY <1>18 DEF D!IInv, D!OneOfKey
  <2>2. PICK e \in Slots : /\ a[1] \in DOMAIN past[e] /\ past[e][a[1]].text = a[2]
                           /\ \A x \in Slots : a[1] \in DOMAIN past[x] => x = e
    BY AnswersWere DEF AnswerTrue
  <2>3. e = d
    <3>1. past[e] # <<>>
      BY <2>2
    <3>2. D!Live(e)
      BY <1>4, <2>1, <3>1 DEF D!IInv, D!DocTrue, D!OneOfKey, D!Live, SlotDoc
    <3> QED BY <1>2, <1>4, <2>1, <3>2 DEF D!IInv, D!OneOfKey
  <2>4. a[1] \in 1..n /\ past'[d] = s
    BY <1>4, <1>9, <1>11, <1>12, <2>2, <2>3
  <2>5. a[1] \in DOMAIN past'[d] /\ past'[d][a[1]] = past[d][a[1]]
    BY <1>12, <2>4
  <2>6. \A x \in Slots : a[1] \in DOMAIN past'[x] => x = d
    BY <1>9, <2>2, <2>3
  <2> QED BY <1>4, <2>2, <2>3, <2>5, <2>6 DEF AnswerTrue
<1> QED BY <1>2, <1>10, <1>14, <1>15, <1>16, <1>17, <1>18, InPartsNext DEF D!IInv, Parted

-----------------------------------------------------------------------------
LEMMA EditorialInit == ASSUME D!EditorialAssumption, D!Init PROVE D!IInv
<1>1. PICK t : t = D!NoHand
  OBVIOUS
<1>2. t = [op |-> "IDLE", doc |-> None, version |-> 0, text |-> 0]
  BY <1>1, IdleHand
<1>3. t \in HandDoc /\ t.op = "IDLE"
  BY <1>2 DEF HandDoc, D!EditorialAssumption
<1>4. D!TypeOK
  <2>1. hand \in [Servers -> HandDoc]
    BY <1>1, <1>3 DEF D!Init
  <2>2. doc \in [Slots -> SlotDoc]
    BY DEF D!Init, D!NoDoc, SlotDoc, D!Blank, D!EditorialAssumption
  <2> QED BY <2>1, <2>2, HandTyped DEF D!Init, D!EditorialAssumption
<1>5. \A w \in Servers : D!HandTrue(hand[w])
  BY <1>1, <1>3 DEF D!Init, D!HandTrue
<1>6. ASSUME NEW d \in Slots
      PROVE  D!DocTrue(d) /\ HistoryTrue(d) /\ doc[d].state = "ABSENT"
  <2>1. past[d] = <<>> /\ Len(past[d]) = 0 /\ doc[d] = D!NoDoc /\ edits = 0
    BY DEF D!Init
  <2>2. doc[d].state = "ABSENT" /\ doc[d].version = 0 /\ doc[d].text = 0
    BY <2>1 DEF D!NoDoc, D!Blank
  <2> QED BY <2>1, <2>2 DEF D!DocTrue, HistoryTrue, D!Later
<1>7. D!OneOfKey
  BY <1>6 DEF D!Init, D!OneOfKey, D!Live
<1> QED BY <1>4, <1>5, <1>6, <1>7, InParts DEF D!Init, D!IInv, Parted

LEMMA EditorialNext == ASSUME D!EditorialAssumption, D!IInv, [D!Next]_(D!editorialVars)
                       PROVE  D!IInv'
<1>1. CASE UNCHANGED D!editorialVars
  <2>1. D!TypeOK'
    BY <1>1 DEF D!IInv, D!TypeOK, D!editorialVars
  <2>2. \A d \in Slots : D!DocTrue(d)'
    BY <1>1 DEF D!IInv, D!DocTrue, D!ReadOf, D!Place, D!FirstVersion, D!editorialVars
  <2>3. \A w \in Servers : D!HandTrue(hand[w])'
    BY <1>1 DEF D!IInv, D!HandTrue, D!ReadOf, D!Place, D!FirstVersion, D!editorialVars
  <2>4. D!OneOfKey'
    BY <1>1 DEF D!IInv, D!OneOfKey, D!Live, D!editorialVars
  <2>5. D!VersionNamesQuestions'
    BY <1>1 DEF D!IInv, D!VersionNamesQuestions, D!Live, D!Later, D!FirstVersion,
         D!editorialVars
  <2> QED BY <1>1, <2>1, <2>2, <2>3, <2>4, <2>5 DEF D!IInv, D!editorialVars
<1>2. ASSUME NEW w \in Servers, D!CommitStep(w) PROVE D!IInv'
  BY <1>2, WriteKeeps, SaveKeeps, CommitRemoveKeeps, AnswerKeeps, AbortHandKeeps
     DEF D!CommitStep
<1> QED BY <1>1, <1>2, BeginKeeps, EraseTextKeeps DEF D!Next

\* However requests read, save, remove and answer documents, and authors are
\* erased.
THEOREM EditorialInvariant == ASSUME D!EditorialAssumption PROVE D!Spec => []D!IInv
<1> QED BY EditorialInit, EditorialNext, PTL DEF D!Spec

LEMMA EditorialMoves == MCSpec => D!Spec
<1>1. MCInit => D!Init
  BY DEF MCInit
<1>2. [MCNext]_vars => [D!Next]_(D!editorialVars)
  BY DEF MCNext, vars, editorialVars, D!editorialVars
<1> QED BY <1>1, <1>2, PTL DEF MCSpec, D!Spec

LEMMA EditorialHolds == MCSpec => []D!IInv
<1>1. D!EditorialAssumption
  BY ConstantsFit
<1> QED BY <1>1, EditorialInvariant, EditorialMoves, PTL

\* An edit is made over the edit before it, and the version an application keeps
\* is that of the questions its answers were held against.
THEOREM VersionsNameTexts == MCSpec => []VersionNamesQuestions
<1>1. D!IInv => VersionNamesQuestions
  BY DEF D!IInv, VersionNamesQuestions
<1> QED BY <1>1, EditorialHolds, PTL

-----------------------------------------------------------------------------
\* The components together

\* Whichever component moves, its state keeps its shape, with all that its
\* invariant says of it.
THEOREM CommunityShapes == MCSpec => []Shapes
<1>1. PolicyAssumption
  BY ConstantsFit
<1>2. MCSpec => []TypeOK
  BY <1>1, PolicyShape, PoliciesMove, PTL
<1>3. TypeOK /\ P!IInv /\ T!IInv /\ D!IInv /\ L!IInv /\ R!IInv => Shapes
  BY DEF Shapes
<1> QED BY <1>2, <1>3, PostsHold, ThreadsHold, EditorialHolds, PagesHold, RecordsHold, PTL
=============================================================================
