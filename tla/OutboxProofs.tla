----------------------------- MODULE OutboxProofs -----------------------------
(***************************************************************************)
(* What is sent stays sent, for any number of rows and relays, however     *)
(* late, repeated or contradictory their reports are.  The argument: a row *)
(* that waits carries no stamp, so no TTL index reaches it, and a mark is  *)
(* let through only on a row that waits or failed.                         *)
(***************************************************************************)
EXTENDS Outbox, TLAPS

LEMMA TypeOKInit == ASSUME MaxRows \in Nat PROVE Init => TypeOK
  BY DEF Init, TypeOK, NoRow, OutboxStatus, Stamp, Rows

\* A poll takes rows of the outbox.
LEMMA OldestAreRows == ASSUME NEW S \in SUBSET Rows PROVE Oldest(S) \subseteq S
  BY DEF Oldest

LEMMA TypeOKStep == TypeOK /\ [Next]_outboxVars => TypeOK'
<1> SUFFICES ASSUME TypeOK, [Next]_outboxVars PROVE TypeOK'
  OBVIOUS
<1> USE DEF OutboxStatus, Stamp, NoRow
<1>1. CASE UNCHANGED outboxVars
  BY <1>1 DEF TypeOK, outboxVars
<1>2. ASSUME NEW e \in Rows, Save(e) PROVE TypeOK'
  BY <1>2 DEF TypeOK, Save
<1>3. ASSUME NEW e \in Rows, Age(e) PROVE TypeOK'
  BY <1>3 DEF TypeOK, Age
<1>4. ASSUME NEW e \in Rows, Expire(e) PROVE TypeOK'
  BY <1>4 DEF TypeOK, Expire
<1>5. ASSUME NEW k \in Relays, NEW status \in {"PENDING", "FAILED"}, Poll(k, status)
      PROVE  TypeOK'
  <2>1. WithStatus(status) \in SUBSET Rows
    BY DEF WithStatus
  <2>2. Oldest(WithStatus(status)) \subseteq Rows
    BY <2>1, OldestAreRows
  <2> QED BY <1>5, <2>2 DEF TypeOK, Poll
<1>6. ASSUME NEW k \in Relays, NEW e \in Rows, MarkAsSent(k, e) PROVE TypeOK'
  BY <1>6 DEF TypeOK, MarkAsSent, Mark, Markable
<1>7. ASSUME NEW k \in Relays, NEW e \in Rows, MarkAsFailed(k, e) PROVE TypeOK'
  BY <1>7 DEF TypeOK, MarkAsFailed, Mark, Markable
<1>8. ASSUME NEW k \in Relays, RelayCrash(k) PROVE TypeOK'
  BY <1>8 DEF TypeOK, RelayCrash
<1> QED BY <1>1, <1>2, <1>3, <1>4, <1>5, <1>6, <1>7, <1>8 DEF Next, RelayStep

\* What one step may do to one row.
RowMoves(e) ==
    /\ row[e].status = "SENT" => row'[e].status \in {"SENT", "GONE"}
    /\ row[e].status = "PENDING" => row'[e].status # "GONE"

LEMMA RowMovesStep == ASSUME TypeOK, [Next]_outboxVars, NEW e \in Rows PROVE RowMoves(e)
<1>1. CASE UNCHANGED row
  BY <1>1 DEF RowMoves
<1>2. ASSUME NEW d \in Rows, Save(d) PROVE RowMoves(e)
  BY <1>2 DEF TypeOK, Save, RowMoves
<1>3. ASSUME NEW d \in Rows, Age(d) PROVE RowMoves(e)
  BY <1>3 DEF TypeOK, Age, RowMoves
<1>4. ASSUME NEW d \in Rows, Expire(d) PROVE RowMoves(e)
  BY <1>4 DEF TypeOK, Expire, Expired, RowMoves, NoRow
<1>5. ASSUME NEW k \in Relays, NEW d \in Rows, MarkAsSent(k, d) PROVE RowMoves(e)
  BY <1>5 DEF TypeOK, MarkAsSent, Mark, Markable, RowMoves
<1>6. ASSUME NEW k \in Relays, NEW d \in Rows, MarkAsFailed(k, d) PROVE RowMoves(e)
  BY <1>6 DEF TypeOK, MarkAsFailed, Mark, Markable, RowMoves
<1> QED BY <1>1, <1>2, <1>3, <1>4, <1>5, <1>6
        DEF Next, RelayStep, Poll, RelayCrash, outboxVars

\* A row that was sent is never sent again: no late or repeated report takes it
\* back, and it leaves the outbox only by its retention; and no row is lost
\* before a relay has taken it up.
THEOREM SentStaysSent == ASSUME MaxRows \in Nat PROVE Spec => SentIsFinal
<1>1. Init => TypeOK
  BY TypeOKInit
<1>2. TypeOK /\ [Next]_outboxVars => TypeOK'
  BY TypeOKStep
<1>3. TypeOK /\ [Next]_outboxVars => [\A e \in Rows : RowMoves(e)]_outboxVars
  BY RowMovesStep
<1>4. [\A e \in Rows : RowMoves(e)]_outboxVars
        => [\A e \in Rows :
              /\ row[e].status = "SENT" => row'[e].status \in {"SENT", "GONE"}
              /\ row[e].status = "PENDING" => row'[e].status # "GONE"]_outboxVars
  BY DEF RowMoves
<1> QED BY <1>1, <1>2, <1>3, <1>4, PTL DEF Spec, SentIsFinal
=============================================================================
