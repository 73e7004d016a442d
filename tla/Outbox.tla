-------------------------------- MODULE Outbox --------------------------------
(***************************************************************************)
(* The outbox after a use-case has written to it: a relay polls rows,      *)
(* publishes each and marks it, and two TTL indexes delete what is marked. *)
(* The relay is another program.  It is modelled from the calls this one   *)
(* offers it: it may crash, mark late, or mark what another has marked.    *)
(***************************************************************************)
EXTENDS Integers, FiniteSets

CONSTANTS
    MaxRows,         \* bound: rows ever saved
    BatchLimit,      \* rows a poll returns at most
    Relays

VARIABLES
    row,             \* the outbox, in order of creation
    batch            \* batch[k]: rows k has polled and not marked yet

outboxVars == <<row, batch>>

Rows == 1..MaxRows

OutboxStatus == {"PENDING", "SENT", "FAILED"}

\* sentAt and failedAt: missing, within their retention, or past it.
Stamp == {"NONE", "RECENT", "PAST"}

NoRow == [status |-> "ABSENT", sentAt |-> "NONE", failedAt |-> "NONE"]

Init ==
    /\ row = [e \in Rows |-> NoRow]
    /\ batch = [k \in Relays |-> {}]

-----------------------------------------------------------------------------
Save(e) ==
    /\ row[e].status = "ABSENT"
    /\ \A d \in Rows : d < e => row[d].status # "ABSENT"
    /\ row' = [row EXCEPT ![e].status = "PENDING"]
    /\ UNCHANGED batch

WithStatus(status) == {e \in Rows : row[e].status = status}

\* Oldest first, up to the limit.
Oldest(rows) == {e \in rows : Cardinality({d \in rows : d < e}) < BatchLimit}

\* The relay asks for the rows that wait, or for those to be tried again.
Poll(k, status) ==
    /\ batch[k] = {}
    /\ WithStatus(status) # {}
    /\ batch' = [batch EXCEPT ![k] = Oldest(WithStatus(status))]
    /\ UNCHANGED row

\* Only a row that is PENDING or FAILED is marked: a mark that is late or
\* repeated matches nothing.
MarkableAlways(e) == row[e].status # "ABSENT"

Markable(e) == row[e].status \in {"PENDING", "FAILED"}

Mark(k, e, marked) ==
    /\ e \in batch[k]
    /\ row' = IF Markable(e) THEN [row EXCEPT ![e] = marked] ELSE row
    /\ batch' = [batch EXCEPT ![k] = @ \ {e}]

MarkAsSent(k, e) ==
    Mark(k, e, [row[e] EXCEPT !.status = "SENT", !.sentAt = "RECENT"])

MarkAsFailedInPlace(k, e) ==
    Mark(k, e, [row[e] EXCEPT !.failedAt = "RECENT"])

MarkAsFailed(k, e) ==
    Mark(k, e, [row[e] EXCEPT !.status = "FAILED", !.failedAt = "RECENT"])

\* The relay dies between publishing and marking.
RelayCrash(k) ==
    /\ batch[k] # {}
    /\ batch' = [batch EXCEPT ![k] = {}]
    /\ UNCHANGED row

\* Time passes: a stamp is past its retention.
Age(e) ==
    /\ \/ /\ row[e].sentAt = "RECENT"
          /\ row' = [row EXCEPT ![e].sentAt = "PAST"]
       \/ /\ row[e].failedAt = "RECENT"
          /\ row' = [row EXCEPT ![e].failedAt = "PAST"]
    /\ UNCHANGED batch

\* A TTL index deletes a row whose stamp is past; a missing one is exempt.
Expired(e) == row[e].sentAt = "PAST" \/ row[e].failedAt = "PAST"

Expire(e) ==
    /\ Expired(e)
    /\ row' = [row EXCEPT ![e] = [NoRow EXCEPT !.status = "GONE"]]
    /\ UNCHANGED batch

-----------------------------------------------------------------------------
RelayStep(k) ==
    \/ \E status \in {"PENDING", "FAILED"} : Poll(k, status)
    \/ \E e \in Rows : MarkAsSent(k, e) \/ MarkAsFailed(k, e)
    \/ RelayCrash(k)

Next ==
    \/ \E e \in Rows : Save(e) \/ Age(e) \/ Expire(e)
    \/ \E k \in Relays : RelayStep(k)

Spec == Init /\ [][Next]_outboxVars

\* A relay polls what waits again and again, and marks what it has polled one
\* way or the other, not dying each time before it does.
Fairness ==
    \A k \in Relays :
        /\ SF_outboxVars(Poll(k, "PENDING"))
        /\ \A e \in Rows : SF_outboxVars(MarkAsSent(k, e) \/ MarkAsFailed(k, e))

-----------------------------------------------------------------------------
\* Properties

\* Rows and batches have their shape, and only a marked row has a stamp.
TypeOK ==
    /\ row \in [Rows -> [status : OutboxStatus \cup {"ABSENT", "GONE"},
                         sentAt : Stamp, failedAt : Stamp]]
    /\ batch \in [Relays -> SUBSET Rows]
    /\ \A e \in Rows :
          row[e].status \in {"ABSENT", "PENDING"}
             => row[e].sentAt = "NONE" /\ row[e].failedAt = "NONE"

\* A row that was sent stays sent until its retention is over, although a
\* relay that polled it before reports a failure afterwards; and no row that
\* no relay has taken up is deleted.
SentIsFinal ==
    [][\A e \in Rows :
          /\ row[e].status = "SENT" => row'[e].status \in {"SENT", "GONE"}
          /\ row[e].status = "PENDING" => row'[e].status # "GONE"]_outboxVars

\* No row waits for ever: rows that always fail do not fill every batch, since
\* a failure takes them out of what waits.
NothingStarves ==
    \A e \in Rows : row[e].status = "PENDING" ~> row[e].status # "PENDING"
=============================================================================
