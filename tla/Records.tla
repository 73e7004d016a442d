-------------------------------- MODULE Records --------------------------------
(***************************************************************************)
(* What the dashboard of a shelter, the operators' figures and the record  *)
(* of an adopter say, against the adoption applications they are counted   *)
(* from.                                                                   *)
(*                                                                         *)
(* No event of a decision is counted.  The figures are queries over the    *)
(* applications as they are now, and the month of an adoption is read off  *)
(* updatedAt, which the driver stamps on every write to the document.      *)
(* Months are months in Korea, some hours ahead of the clock.              *)
(***************************************************************************)
EXTENDS Integers, FiniteSets

CONSTANTS
    Applications,  \* adoption applications to one shelter
    Adopters,
    MonthLength,   \* time steps in a month
    Offset,        \* Korean time is that many steps ahead
    MaxTime,       \* bound: the clock
    Trend,         \* months on a dashboard
    None

\* What is asked of the constants.
RecordsAssumption ==
    /\ IsFiniteSet(Applications)
    /\ MonthLength \in Nat \ {0}
    /\ Offset \in 0..(MonthLength - 1)
    /\ MaxTime \in Nat
    /\ Trend \in Nat \ {0}

VARIABLES
    now,           \* the clock
    application,   \* the adoption_applications collection
    account,       \* account[u]: the adopter's account
    decided        \* history: decided[a], when a was approved

recordVars == <<now, application, account, decided>>

NoApplication == [status |-> "ABSENT", applicant |-> None, answers |-> FALSE,
                  updatedAt |-> 0]

Init ==
    /\ now = 0
    /\ application = [a \in Applications |-> NoApplication]
    /\ account = [u \in Adopters |-> "ACTIVE"]
    /\ decided = [a \in Applications |-> 0]

-----------------------------------------------------------------------------
\* Months

\* The number of the Korean month that holds the instant t.
MonthOf(t) == (t + Offset) \div MonthLength

\* The month m as instants of the clock: from is in it, to is not.
Bucket(m) == [month |-> m, from |-> m * MonthLength - Offset,
              to |-> (m + 1) * MonthLength - Offset]

\* The last count months, the oldest first.
MonthlyBuckets(t, count) == [i \in 1..count |-> Bucket(MonthOf(t) - count + i)]

-----------------------------------------------------------------------------
\* The applications (see Placement and Erasure)

\* Every write stamps the time, whoever makes it.
Stamped(doc) == [doc EXCEPT !.updatedAt = now]

Write(a, doc) ==
    /\ application' = [application EXCEPT ![a] = Stamped(doc)]
    /\ UNCHANGED <<now, account>>

Submit(a, u) ==
    /\ application[a].status = "ABSENT"
    /\ account[u] = "ACTIVE"
    /\ Write(a, [application[a] EXCEPT !.status = "PENDING", !.applicant = u,
                                       !.answers = TRUE])
    /\ UNCHANGED decided

\* A foster placement that becomes an adoption writes an approved application,
\* with no answers.
Convert(a, u) ==
    /\ application[a].status = "ABSENT"
    /\ Write(a, [application[a] EXCEPT !.status = "APPROVED", !.applicant = u])
    /\ decided' = [decided EXCEPT ![a] = now]

Approve(a) ==
    /\ application[a].status = "PENDING"
    /\ Write(a, [application[a] EXCEPT !.status = "APPROVED"])
    /\ decided' = [decided EXCEPT ![a] = now]

Reject(a) ==
    /\ application[a].status = "PENDING"
    /\ Write(a, [application[a] EXCEPT !.status = "REJECTED"])
    /\ UNCHANGED decided

Return(a) ==
    /\ application[a].status = "APPROVED"
    /\ Write(a, [application[a] EXCEPT !.status = "RETURNED"])
    /\ UNCHANGED decided

Withdraw(u) ==
    /\ account[u] = "ACTIVE"
    /\ account' = [account EXCEPT ![u] = "WITHDRAWN"]
    /\ UNCHANGED <<now, application, decided>>

\* Blanks the answers of all the member's applications.  The update matches
\* them whether or not they have any, and stamps each.
EraseAnswers(u) ==
    /\ account[u] \in {"WITHDRAWN", "ERASED"}
    /\ application' = [a \in Applications |->
                         IF application[a].applicant = u
                           THEN Stamped([application[a] EXCEPT !.answers = FALSE])
                           ELSE application[a]]
    /\ account' = [account EXCEPT ![u] = "ERASED"]
    /\ UNCHANGED <<now, decided>>

Tick ==
    /\ now < MaxTime
    /\ now' = now + 1
    /\ UNCHANGED <<application, account, decided>>

-----------------------------------------------------------------------------
\* The figures

WithStatus(status) == {a \in Applications : application[a].status = status}

LateBetween(status, from, to) ==
    {a \in WithStatus(status) : application[a].updatedAt > from /\ application[a].updatedAt <= to}

\* What countByShelterAndStatusBetween counts.
Between(status, from, to) ==
    {a \in WithStatus(status) : application[a].updatedAt >= from /\ application[a].updatedAt < to}

\* The adoptions of the dashboard's months; the operators' figure is the last.
Shown(i) == LET b == MonthlyBuckets(now, Trend)[i] IN Between("APPROVED", b.from, b.to)

MonthlyAdoptions == [i \in 1..Trend |-> Cardinality(Shown(i))]

PendingApplications == Cardinality(WithStatus("PENDING"))

Of(u, status) == {a \in WithStatus(status) : application[a].applicant = u}

\* The record of u, which whoever screens an application reads.
AdopterHistory(u) == [adoptions |-> Cardinality(Of(u, "APPROVED")),
                      returns |-> Cardinality(Of(u, "RETURNED"))]

-----------------------------------------------------------------------------
Next ==
    \/ \E a \in Applications :
          \/ \E u \in Adopters : Submit(a, u) \/ Convert(a, u)
          \/ Approve(a) \/ Reject(a) \/ Return(a)
    \/ \E u \in Adopters : Withdraw(u) \/ EraseAnswers(u)
    \/ Tick

Spec == Init /\ [][Next]_recordVars

-----------------------------------------------------------------------------
\* Properties

\* The clock, the applications and the accounts have their shape.
TypeOK ==
    /\ now \in 0..MaxTime
    /\ application \in [Applications ->
         [status : {"ABSENT", "PENDING", "APPROVED", "REJECTED", "RETURNED"},
          applicant : Adopters \cup {None}, answers : BOOLEAN, updatedAt : 0..MaxTime]]
    /\ account \in [Adopters -> {"ACTIVE", "WITHDRAWN", "ERASED"}]
    /\ decided \in [Applications -> 0..MaxTime]
    /\ PendingApplications <= Cardinality(Applications)

\* Standing adoptions whose decision landed in the month m.
DecidedIn(m) == {a \in WithStatus("APPROVED") : MonthOf(decided[a]) = m}

\* What the comments of both figures claim and an erasure breaks: "adoptions are
\* APPROVED adoption applications by the month their decision landed".
AdoptionsByMonth ==
    \A i \in 1..Trend :
        MonthlyAdoptions[i] = Cardinality(DecidedIn(MonthlyBuckets(now, Trend)[i].month))

\* What is kept.  As long as no adopter has been erased each month of the trend
\* shows the adoptions decided in it that still stand, the months being the
\* Korean ones; and whatever is erased, no adoption is shown in two months, and
\* each is in the record of an adopter.
AdoptionsByMonthUnlessErased ==
    /\ (\A u \in Adopters : account[u] # "ERASED") => AdoptionsByMonth
    /\ \A i, j \in 1..Trend : i # j => Shown(i) \cap Shown(j) = {}
    /\ \A i \in 1..Trend : \A a \in Shown(i) : \E u \in Adopters : a \in Of(u, "APPROVED")
=============================================================================
