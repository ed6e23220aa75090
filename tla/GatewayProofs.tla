---------------------------- MODULE GatewayProofs ----------------------------
(***************************************************************************)
(* Theorems about the write path on its tables (WriteGateway), for any     *)
(* actions of one target, runners, persons, leases and claims.             *)
(*                                                                         *)
(* Every transaction moves some rows of the queue, one record and at most  *)
(* one result, or leases one action.  The lemmas say once what a move may  *)
(* do (Moves, LeaseMoves, RecordMoves), then for each transaction which    *)
(* move it is.                                                             *)
(***************************************************************************)
EXTENDS WriteGateway, FiniteSetTheorems, TLAPS

-----------------------------------------------------------------------------
(* The invariant. *)

\* A record whose credential may need revoking.
Open(record) == record # None /\ record.status \notin Cleaned

\* The action of the lease is at it, and has the target.
Held(f) == act[f[1]].epoch = f[2] /\ act[f[1]].status \in Occupying

\* An action whose result is on record.
Resulted == {"FINALIZING", "UNCERTAIN", "SUCCEEDED", "FAILED"}

\* Nobody confirmed yet; one person did; or two, one of them an administrator.
ConfirmsOK(record) ==
  \/ record.confirms = {} /\ record.evidence = None
  \/ /\ record.status = "MANUAL_REQUIRED" /\ record.evidence # None
     /\ \E p \in Persons : record.confirms = {p}
  \/ /\ record.status = "REVOKED" /\ record.evidence # None
     /\ Cardinality(record.confirms) = 2 /\ record.confirms \cap Admins # {}

\* A record and the child it is about.
RecordOK(record, ch) ==
  /\ record # None => /\ record.status \in Cleaned => record.permit = FALSE
                      /\ ConfirmsOK(record)
  /\ ch = "live" => Open(record) /\ record.permit = TRUE /\ record.expired = FALSE

ResultsAreReceived == \A a \in Actions : act[a].status = "FINALIZING" => act[a].done \in CompletionStatuses

OneOccupies ==
  \A a, b \in Actions : act[a].status \in Occupying /\ act[b].status \in Occupying => a = b

OpenRecordsHold == \A f \in Leases : Open(rec[f]) => Held(f)

ResultsStay ==
  \A f \in Leases : result[f] # None => act[f[1]].epoch = f[2] /\ act[f[1]].status \in Resulted

RecordsAreSound == \A f \in Leases : RecordOK(rec[f], child[f])

GatewayInv ==
  /\ TablesTypeOK /\ ResultsAreReceived /\ OneOccupies /\ OpenRecordsHold /\ ResultsStay /\ RecordsAreSound

\* What a transaction may do to the row of an action, with the records and results it leaves.
RowMove(a, row, next, records, results) ==
  /\ next.epoch = row.epoch
  /\ next.status = "FINALIZING" => next.done \in CompletionStatuses
  /\ next.status \in Occupying => row.status \in Occupying
  /\ row.status \in Occupying /\ next.status \notin Occupying => ~Open(records[<<a, row.epoch>>])
  /\ row.status \in Resulted => next.status \in Resulted
  /\ /\ next.status \in {"SUCCEEDED", "FAILED"} /\ ~next.reconciled
     /\ row.status \notin {"LEASED", next.status}
     => results[<<a, next.epoch>>] # None /\ results[<<a, next.epoch>>].status = next.status

\* What a step says of results: the body of ResultStands.
Reported ==
  /\ \A f \in Leases : result[f] # None => result'[f] = result[f]
  /\ \A a \in Actions :
       /\ act'[a].status \in {"SUCCEEDED", "FAILED"} /\ ~act'[a].reconciled
       /\ act[a].status \notin {"LEASED", act'[a].status}
       => LET said == result'[<<a, act'[a].epoch>>]
          IN said # None /\ said.status = act'[a].status

-----------------------------------------------------------------------------
(* Leases and moves. *)

(* A lease is an action and an epoch. *)
LEMMA LeaseParts ==
  ASSUME NEW f \in Leases
  PROVE  /\ f[1] \in Actions /\ f[2] \in Nat /\ f[2] \in 1..Epochs[f[1]] /\ f = <<f[1], f[2]>>
<1>1. PICK a \in Actions : f \in {a} \X (1..Epochs[a])
  BY DEF Leases
<1>2. Epochs[a] \in Nat
  BY WriteAssumption
<1> QED  BY <1>1, <1>2

(* The names of the statuses are apart. *)
LEMMA StatusNames ==
  /\ "QUEUED" \notin Occupying \cup Resulted /\ "ABSENT" \notin Occupying \cup Resulted
  /\ "LEASED" \in Occupying /\ "RUNNING" \in Occupying /\ "FINALIZING" \in Occupying /\ "UNCERTAIN" \in Occupying
  /\ "SUCCEEDED" \notin Occupying /\ "FAILED" \notin Occupying /\ "CANCELLED" \notin Occupying \cup Resulted
  /\ "LEASED" \notin Resulted /\ "RUNNING" \notin Resulted
  /\ {"FINALIZING", "UNCERTAIN", "SUCCEEDED", "FAILED"} = Resulted
  /\ Active \subseteq Occupying /\ CompletionStatuses \subseteq Resulted
BY DEF Occupying, Resulted, Active, CompletionStatuses

(* Rows move, records and results with them, and no action is leased. *)
LEMMA Moves ==
  ASSUME GatewayInv, TablesTypeOK',
         \A a \in Actions : RowMove(a, act[a], act'[a], rec', result'),
         \A f \in Leases : Open(rec'[f]) => Held(f),
         \A f \in Leases : RecordOK(rec'[f], child'[f]),
         \A f \in Leases :
           \/ result'[f] = result[f]
           \/ act[f[1]].status = "RUNNING" /\ act[f[1]].epoch = f[2] /\ act'[f[1]].status \in Resulted
  PROVE  GatewayInv' /\ Reported
<1> USE StatusNames DEF GatewayInv
<1>1. ResultsAreReceived' /\ OneOccupies'
  BY DEF ResultsAreReceived, OneOccupies, RowMove
<1>2. OpenRecordsHold'
  <2> SUFFICES ASSUME NEW f \in Leases, Open(rec'[f]) PROVE act'[f[1]].epoch = f[2] /\ act'[f[1]].status \in Occupying
    BY DEF OpenRecordsHold, Open, Held
  <2>1. f[1] \in Actions /\ f = <<f[1], f[2]>>
    BY LeaseParts
  <2>2. act[f[1]].epoch = f[2] /\ act[f[1]].status \in Occupying
    BY DEF Held
  <2> QED  BY <2>1, <2>2 DEF RowMove
<1>3. ResultsStay' /\ \A f \in Leases : result[f] # None => result'[f] = result[f]
  <2> SUFFICES ASSUME NEW f \in Leases
               PROVE  /\ result[f] # None => result'[f] = result[f]
                      /\ result'[f] # None => act'[f[1]].epoch = f[2] /\ act'[f[1]].status \in Resulted
    BY DEF ResultsStay
  <2>1. f[1] \in Actions /\ RowMove(f[1], act[f[1]], act'[f[1]], rec', result')
    BY LeaseParts
  <2>2. result[f] # None => act[f[1]].epoch = f[2] /\ act[f[1]].status \in Resulted
    BY DEF ResultsStay
  <2> QED  BY <2>1, <2>2 DEF RowMove
<1>4. RecordsAreSound'
  BY DEF RecordsAreSound, RecordOK, Open, ConfirmsOK
<1>5. Reported
  BY <1>3 DEF Reported, RowMove
<1> QED  BY <1>1, <1>2, <1>3, <1>4, <1>5

(* An action is leased: nobody had the target. *)
LEMMA LeaseMoves ==
  ASSUME GatewayInv, NEW rows \in [Actions -> storedAction], NEW a \in Actions, NEW r \in Holders,
         \A b \in Actions : RowMove(b, act[b], rows[b], rec, result),
         Candidate(rows, a, r), LeaseTo(rows, a, r)
  PROVE  GatewayInv' /\ Reported
<1> USE StatusNames
<1> PICK row : row = Leased(rows[a], r)
  OBVIOUS
<1>1. /\ act' = [rows EXCEPT ![a] = row] /\ UNCHANGED <<schema, result, reg, rec, child>>
      /\ holder' = [holder EXCEPT ![<<a, rows[a].epoch + 1>>] = r]
  BY DEF LeaseTo, otherTables
<1>2. row \in storedAction /\ row.status = "LEASED" /\ row.epoch = rows[a].epoch + 1
  <2>1. reg[r] \in 0..Changes /\ 0 \in 0..Beats /\ rows[a] \in storedAction
    BY WriteAssumption DEF GatewayInv, TablesTypeOK
  <2>2. "LEASED" \in Statuses
    BY DEF Statuses
  <2>3. PICK old, rev, epoch : old = rows[a] /\ rev = reg[r] /\ epoch = old.epoch + 1
    OBVIOUS
  <2>4. old \in storedAction /\ rev \in 0..Changes /\ epoch \in Nat
    BY <2>1, <2>3 DEF storedAction
  <2>5. row = [old EXCEPT !.status = "LEASED", !.runner = r, !.rev = rev, !.epoch = epoch, !.live = TRUE, !.seq = 0,
                          !.cancel = FALSE, !.expected = FALSE, !.done = None, !.reconciled = FALSE]
    BY <2>3, <2>4 DEF Leased, storedAction
  <2>6. row \in storedAction
    <3>1. r \in Holders \cup {None} /\ None \in CompletionStatuses \cup {None} /\ Beats \in Nat /\ Changes \in Nat
      BY WriteAssumption
    <3>2. row = [status |-> "LEASED", epoch |-> epoch, runner |-> r, rev |-> rev, live |-> TRUE,
                 authorized |-> old.authorized, expected |-> FALSE, seq |-> 0, cancel |-> FALSE, done |-> None,
                 reconciled |-> FALSE]
      BY <2>4, <2>5 DEF storedAction
    <3>3. old.authorized \in BOOLEAN
      BY <2>4 DEF storedAction
    <3> QED  BY <2>1, <2>2, <2>4, <3>1, <3>2, <3>3 DEF storedAction
  <2>7. row.status = "LEASED" /\ row.epoch = epoch
    BY <2>4, <2>5 DEF storedAction
  <2> QED  BY <2>3, <2>6, <2>7
<1>3. /\ act' \in [Actions -> storedAction] /\ act'[a] = row
      /\ \A b \in Actions : b # a => act'[b] = rows[b]
  BY <1>1, <1>2
<1>4. rows[a].status = "QUEUED" /\ \A b \in Actions : rows[b].status \notin Occupying
  BY DEF Candidate
<1>5. TablesTypeOK'
  <2>1. holder' \in [Leases -> Holders \cup {None}]
    BY <1>1 DEF GatewayInv, TablesTypeOK
  <2> QED  BY <1>1, <1>3, <2>1 DEF GatewayInv, TablesTypeOK
<1>6. ResultsAreReceived' /\ OneOccupies'
  BY <1>2, <1>3, <1>4 DEF ResultsAreReceived, OneOccupies
<1>7. \A f \in Leases : ~Open(rec[f])
  <2> SUFFICES ASSUME NEW f \in Leases, Open(rec[f]) PROVE FALSE
    OBVIOUS
  <2>1. f[1] \in Actions /\ f = <<f[1], f[2]>> /\ Held(f)
    BY LeaseParts DEF GatewayInv, OpenRecordsHold
  <2>2. PICK b \in Actions : b = f[1]
    BY <2>1
  <2>3. act[b].epoch = f[2] /\ act[b].status \in Occupying /\ f = <<b, act[b].epoch>>
    BY <2>1, <2>2 DEF Held
  <2> QED  BY <1>4, <2>3 DEF RowMove
<1>8. OpenRecordsHold'
  BY <1>1, <1>7 DEF OpenRecordsHold, Open
<1>9. ResultsStay'
  <2> SUFFICES ASSUME NEW f \in Leases, result[f] # None
               PROVE  act'[f[1]].epoch = f[2] /\ act'[f[1]].status \in Resulted
    BY <1>1 DEF ResultsStay
  <2>1. f[1] \in Actions /\ act[f[1]].epoch = f[2] /\ act[f[1]].status \in Resulted
    BY LeaseParts DEF GatewayInv, ResultsStay
  <2>2. rows[f[1]].epoch = f[2] /\ rows[f[1]].status \in Resulted
    BY <2>1 DEF RowMove
  <2> QED  BY <1>3, <1>4, <2>1, <2>2
<1>10. RecordsAreSound'
  BY <1>1 DEF GatewayInv, RecordsAreSound, RecordOK, Open, ConfirmsOK
<1>11. Reported
  BY <1>1, <1>2, <1>3 DEF Reported, RowMove
<1> QED  BY <1>5, <1>6, <1>8, <1>9, <1>10, <1>11 DEF GatewayInv

(* One record is changed. *)
LEMMA RecordMoves ==
  ASSUME GatewayInv, NEW f \in Leases, NEW row \in storedRevocation, WithRecord(f, row), UNCHANGED notRecords,
         RecordOK(row, child[f]), Held(f) \/ Open(rec[f])
  PROVE  GatewayInv' /\ Reported
<1>1. UNCHANGED <<schema, act, holder, result, reg, child>> /\ rec' = [rec EXCEPT ![f] = row]
  BY DEF notRecords, WithRecord
<1>2. TablesTypeOK'
  BY <1>1 DEF GatewayInv, TablesTypeOK
<1>3. \A a \in Actions : RowMove(a, act[a], act'[a], rec', result')
  BY <1>1 DEF GatewayInv, ResultsAreReceived, RowMove
<1>4. rec'[f] = row /\ \A g \in Leases : g # f => rec'[g] = rec[g]
  BY <1>1 DEF GatewayInv, TablesTypeOK
<1>5. \A g \in Leases : Open(rec'[g]) => Held(g)
  BY <1>4 DEF GatewayInv, OpenRecordsHold
<1>6. \A g \in Leases : RecordOK(rec'[g], child'[g])
  BY <1>1, <1>4 DEF GatewayInv, RecordsAreSound
<1> QED  BY <1>1, <1>2, <1>3, <1>5, <1>6, Moves

-----------------------------------------------------------------------------
(* The rows of the queue. *)

(* The bounds are numbers, and nothing has happened is among them. *)
LEMMA Bounds == /\ Beats \in Nat /\ Changes \in Nat /\ Claims \in Nat
                /\ 0 \in 0..Beats /\ 0 \in 0..Changes /\ 0 \in 0..Claims
BY WriteAssumption

(* A run that stopped. *)
LEMMA StoppedRow ==
  ASSUME NEW row \in storedAction, NEW status \in Statuses, NEW done \in CompletionStatuses
  PROVE  /\ Stopped(row, status) \in storedAction
         /\ Stopped(row, status).status = status /\ Stopped(row, status).epoch = row.epoch
         /\ Stopped(row, status).done = row.done /\ Stopped(row, status).reconciled = row.reconciled
         /\ Stopped(row, status).rev = row.rev
         /\ [Stopped(row, status) EXCEPT !.done = done] \in storedAction
         /\ [Stopped(row, status) EXCEPT !.done = done].status = status
         /\ [Stopped(row, status) EXCEPT !.done = done].epoch = row.epoch
         /\ [Stopped(row, status) EXCEPT !.done = done].done = done
         /\ [Stopped(row, status) EXCEPT !.done = done].reconciled = row.reconciled
         /\ [Stopped(row, status) EXCEPT !.done = done].rev = row.rev
<1>1. PICK next : next = Stopped(row, status)
  OBVIOUS
<1>2. next = [row EXCEPT !.status = status, !.live = FALSE, !.authorized = TRUE, !.seq = 0, !.cancel = FALSE]
  BY <1>1 DEF Stopped
<1>3. next \in storedAction
  BY <1>2, Bounds DEF storedAction
<1>4. /\ next.status = status /\ next.epoch = row.epoch /\ next.done = row.done /\ next.reconciled = row.reconciled
      /\ next.rev = row.rev
  BY <1>2 DEF storedAction
<1>5. PICK last : last = [next EXCEPT !.done = done]
  OBVIOUS
<1>6. last \in storedAction
  BY <1>3, <1>5 DEF storedAction
<1>7. /\ last.status = status /\ last.epoch = row.epoch /\ last.done = done /\ last.reconciled = row.reconciled
      /\ last.rev = row.rev
  BY <1>3, <1>4, <1>5 DEF storedAction
<1> QED  BY <1>1, <1>3, <1>4, <1>5, <1>6, <1>7

(* An action that is over. *)
LEMMA OverRow ==
  ASSUME NEW row \in storedAction, NEW status \in Statuses
  PROVE  /\ Over(row, status) \in storedAction
         /\ Over(row, status).status = status /\ Over(row, status).epoch = row.epoch
         /\ Over(row, status).done = row.done /\ Over(row, status).reconciled = row.reconciled
<1>1. PICK next : next = Over(row, status)
  OBVIOUS
<1>2. next = [status |-> status, epoch |-> row.epoch, runner |-> None, rev |-> 0, live |-> FALSE,
              authorized |-> TRUE, expected |-> FALSE, seq |-> 0, cancel |-> FALSE, done |-> row.done,
              reconciled |-> row.reconciled]
  BY <1>1 DEF Over, NewAction
<1>3. row.epoch \in Nat /\ row.done \in CompletionStatuses \cup {None} /\ row.reconciled \in BOOLEAN
  BY DEF storedAction
<1>4. next \in storedAction
  BY <1>2, <1>3, Bounds DEF storedAction
<1>5. next.status = status /\ next.epoch = row.epoch /\ next.done = row.done /\ next.reconciled = row.reconciled
  BY <1>2
<1> QED  BY <1>1, <1>4, <1>5

(* A lease that was given up. *)
LEMMA RequeuedRow ==
  ASSUME NEW row \in storedAction
  PROVE  Requeued(row) \in storedAction /\ Requeued(row).status = "QUEUED" /\ Requeued(row).epoch = row.epoch
<1>1. PICK next : next = Requeued(row)
  OBVIOUS
<1>2. next = [status |-> "QUEUED", epoch |-> row.epoch, runner |-> None, rev |-> 0, live |-> FALSE,
              authorized |-> row.authorized, expected |-> FALSE, seq |-> 0, cancel |-> FALSE, done |-> row.done,
              reconciled |-> row.reconciled]
  BY <1>1 DEF Requeued, storedAction
<1>3. /\ row.epoch \in Nat /\ row.done \in CompletionStatuses \cup {None} /\ row.reconciled \in BOOLEAN
      /\ row.authorized \in BOOLEAN
  BY DEF storedAction
<1>4. "QUEUED" \in Statuses
  BY DEF Statuses
<1>5. next \in storedAction
  BY <1>2, <1>3, <1>4, Bounds DEF storedAction
<1> QED  BY <1>1, <1>2, <1>5

(* A result was received; an action ends with it. *)
LEMMA ReceivedRow ==
  ASSUME NEW row \in storedAction, NEW status \in CompletionStatuses
  PROVE  /\ Received(row, status) \in storedAction /\ Received(row, status).status = "FINALIZING"
         /\ Received(row, status).epoch = row.epoch /\ Received(row, status).done = status
         /\ Received(row, status).reconciled = row.reconciled
<1>1. "FINALIZING" \in Statuses
  BY DEF Statuses, Occupying
<1> QED  BY <1>1, StoppedRow DEF Received

LEMMA EndedRow ==
  ASSUME NEW row \in storedAction, NEW status \in CompletionStatuses
  PROVE  /\ Ended(row, status) \in storedAction /\ Ended(row, status).status = status
         /\ Ended(row, status).epoch = row.epoch /\ Ended(row, status).done = row.done
         /\ Ended(row, status).reconciled = row.reconciled
<1>1. status \in Statuses
  BY DEF Statuses, CompletionStatuses, Occupying
<1> QED  BY <1>1, StoppedRow, OverRow DEF Ended

(* A receipt on record says what it says, and is no NULL. *)
LEMMA ReceiptIsARow ==
  ASSUME NEW version \in {1, 2}, NEW status \in CompletionStatuses, NEW rev \in 0..Changes
  PROVE  /\ [version |-> version, status |-> status, rev |-> rev] \in resultReceipt
         /\ [version |-> version, status |-> status, rev |-> rev] # None
<1>1. [version |-> version, status |-> status, rev |-> rev] \in resultReceipt
  BY DEF resultReceipt
<1> QED  BY <1>1, NoneIsNoRow

(* What the sweep does to a row is a move. *)
LEMMA SweptMove ==
  ASSUME GatewayInv, NEW a \in Actions
  PROVE  /\ SweptRow(a, act[a]) \in storedAction
         /\ RowMove(a, act[a], SweptRow(a, act[a]), rec, result)
<1> USE StatusNames
<1>1. PICK row \in storedAction : row = act[a]
  BY DEF GatewayInv, TablesTypeOK
<1>2. PICK next : next = SweptRow(a, row)
  OBVIOUS
<1>3. row.status = "FINALIZING" => row.done \in CompletionStatuses
  BY <1>1 DEF GatewayInv, ResultsAreReceived
<1>4. CASE row.status = "RUNNING" /\ ~row.live
  <2>1. next = [Stopped(row, "UNCERTAIN") EXCEPT !.done = "UNCERTAIN"]
    BY <1>2, <1>4 DEF SweptRow
  <2>2. "UNCERTAIN" \in Statuses /\ "UNCERTAIN" \in CompletionStatuses
    BY DEF Statuses, Occupying, CompletionStatuses
  <2>3. next \in storedAction /\ next.status = "UNCERTAIN" /\ next.epoch = row.epoch
    BY <2>1, <2>2, StoppedRow
  <2> QED  BY <1>1, <1>2, <1>4, <2>3 DEF RowMove
<1>5. CASE /\ row.status = "FINALIZING"
           /\ result[<<a, row.epoch>>] = [version |-> 1, status |-> row.done, rev |-> row.rev]
           /\ row.done = "UNCERTAIN" \/ credentialCleanupStrict(a, row)
  <2>1. next = Ended(row, row.done)
    BY <1>2, <1>5 DEF SweptRow
  <2>2. next \in storedAction /\ next.status = row.done /\ next.epoch = row.epoch
    BY <1>3, <1>5, <2>1, EndedRow
  <2>3. row.done # "UNCERTAIN" => ~Open(rec[<<a, row.epoch>>])
    BY <1>5 DEF credentialCleanupStrict, Cleanup, Open
  <2>4. result[<<a, row.epoch>>] # None /\ result[<<a, row.epoch>>].status = row.done
    <3>1. row.rev \in 0..Changes
      BY DEF storedAction
    <3> QED  BY <1>3, <1>5, <3>1, ReceiptIsARow
  <2>5. row.done \in Resulted /\ row.done # "FINALIZING" /\ (row.done \in Occupying => row.done = "UNCERTAIN")
    BY <1>3, <1>5 DEF CompletionStatuses
  <2> QED  BY <1>1, <1>2, <1>5, <2>2, <2>3, <2>4, <2>5 DEF RowMove
<1>6. CASE row.status = "LEASED" /\ ~row.live /\ credentialCleanupPredicate(a, row)
  <2>1. next = Requeued(row)
    BY <1>2, <1>6 DEF SweptRow
  <2>2. next \in storedAction /\ next.status = "QUEUED" /\ next.epoch = row.epoch
    BY <2>1, RequeuedRow
  <2>3. ~Open(rec[<<a, row.epoch>>])
    BY <1>6 DEF credentialCleanupPredicate, credentialCleanupStrict, Cleanup, Open
  <2> QED  BY <1>1, <1>2, <1>6, <2>2, <2>3 DEF RowMove
<1>7. CASE next = row
  BY <1>1, <1>2, <1>3, <1>7 DEF RowMove
<1> QED  BY <1>2, <1>4, <1>5, <1>6, <1>7 DEF SweptRow

-----------------------------------------------------------------------------
(* The transactions of the queue. *)

(* One row is changed. *)
LEMMA RowMoves ==
  ASSUME GatewayInv, NEW a \in Actions, NEW next \in storedAction, WithRow(a, next),
         RowMove(a, act[a], next, rec, result), UNCHANGED <<schema, holder, result, reg, rec, child>>
  PROVE  GatewayInv' /\ Reported
<1>1. act' = [act EXCEPT ![a] = next]
  BY DEF WithRow
<1>2. TablesTypeOK'
  BY <1>1 DEF GatewayInv, TablesTypeOK
<1>3. act'[a] = next /\ \A b \in Actions : b # a => act'[b] = act[b]
  BY <1>1 DEF GatewayInv, TablesTypeOK
<1>4. \A b \in Actions : RowMove(b, act[b], act'[b], rec', result')
  <2>1. \A b \in Actions : RowMove(b, act[b], act[b], rec, result)
    BY DEF GatewayInv, ResultsAreReceived, RowMove
  <2> QED  BY <1>3, <2>1
<1>5. \A f \in Leases : (Open(rec'[f]) => Held(f)) /\ RecordOK(rec'[f], child'[f])
  BY DEF GatewayInv, OpenRecordsHold, RecordsAreSound
<1> QED  BY <1>2, <1>4, <1>5, Moves

(* A row that goes on: a status is kept, or a lease is started. *)
LEMMA RowGoesOn ==
  ASSUME GatewayInv, NEW a \in Actions, NEW row \in storedAction, row = act[a], NEW next \in storedAction,
         next.epoch = row.epoch, next.done = row.done,
         next.status = row.status \/ (row.status \in Active /\ next.status = "RUNNING")
  PROVE  \A records, results : RowMove(a, act[a], next, records, results)
BY StatusNames DEF GatewayInv, ResultsAreReceived, RowMove, Active

(* A lease that nobody needs is given up: the action is queued again, or is over. *)
LEMMA LeaseGivenUp ==
  ASSUME GatewayInv, NEW a \in Actions, NEW row \in storedAction, row = act[a], NEW next \in storedAction,
         row.status = "LEASED", credentialCleanupPredicate(a, row),
         next.epoch = row.epoch, next.status \in {"QUEUED", "FAILED", "CANCELLED"}
  PROVE  RowMove(a, act[a], next, rec, result)
<1>1. ~Open(rec[<<a, row.epoch>>])
  BY DEF credentialCleanupPredicate, credentialCleanupStrict, Cleanup, Open
<1> QED  BY <1>1, StatusNames DEF RowMove

(* Submit, Start, a heartbeat and the passing of time. *)
LEMMA QueueGoesOn ==
  ASSUME GatewayInv,
         \/ \E a \in Actions : Submit(a) \/ LeaseLapses(a) \/ AuthorizationLapses(a)
         \/ \E r \in Holders, f \in Leases : Start(r, f) \/ HeartbeatExtends(r, f)
  PROVE  GatewayInv' /\ Reported
<1> USE StatusNames
<1>1. ASSUME NEW a \in Actions, Submit(a) \/ LeaseLapses(a) \/ AuthorizationLapses(a)
      PROVE  GatewayInv' /\ Reported
  <2>1. PICK row \in storedAction : row = act[a]
    BY DEF GatewayInv, TablesTypeOK
  <2>2. UNCHANGED <<schema, holder, result, reg, rec, child>>
    BY <1>1 DEF Submit, LeaseLapses, AuthorizationLapses, otherTables
  <2>3. CASE Submit(a)
    <3>1. PICK next : next = [row EXCEPT !.status = "QUEUED"]
      OBVIOUS
    <3>2. WithRow(a, next) /\ row.status = "ABSENT"
      BY <2>1, <2>3, <3>1 DEF Submit
    <3>3. next \in storedAction /\ next.status = "QUEUED" /\ next.epoch = row.epoch
      BY <3>1 DEF storedAction, Statuses
    <3>4. RowMove(a, act[a], next, rec, result)
      BY <2>1, <3>2, <3>3 DEF RowMove
    <3> QED  BY <2>2, <3>2, <3>3, <3>4, RowMoves
  <2>4. CASE LeaseLapses(a)
    <3>1. PICK next : next = [row EXCEPT !.live = FALSE]
      OBVIOUS
    <3>2. WithRow(a, next)
      BY <2>1, <2>4, <3>1 DEF LeaseLapses, WithRow, GatewayInv, TablesTypeOK
    <3>3. next \in storedAction /\ next.status = row.status /\ next.epoch = row.epoch /\ next.done = row.done
      BY <3>1 DEF storedAction
    <3> QED  BY <2>1, <2>2, <3>2, <3>3, RowGoesOn, RowMoves
  <2>5. CASE AuthorizationLapses(a)
    <3>1. PICK next : next = [row EXCEPT !.authorized = FALSE, !.live = FALSE]
      OBVIOUS
    <3>2. WithRow(a, next)
      BY <2>1, <2>5, <3>1 DEF AuthorizationLapses, WithRow, GatewayInv, TablesTypeOK
    <3>3. next \in storedAction /\ next.status = row.status /\ next.epoch = row.epoch /\ next.done = row.done
      BY <3>1 DEF storedAction
    <3> QED  BY <2>1, <2>2, <3>2, <3>3, RowGoesOn, RowMoves
  <2> QED  BY <1>1, <2>3, <2>4, <2>5
<1>2. ASSUME NEW r \in Holders, NEW f \in Leases, Start(r, f) \/ HeartbeatExtends(r, f)
      PROVE  GatewayInv' /\ Reported
  <2>1. PICK a \in Actions : a = f[1]
    BY LeaseParts
  <2>2. PICK row \in storedAction : row = act[a]
    BY DEF GatewayInv, TablesTypeOK
  <2>3. UNCHANGED <<schema, holder, result, reg, rec, child>> /\ row.status \in Active
    BY <1>2, <2>1, <2>2 DEF Start, HeartbeatExtends, otherTables, runnerFenceMatches
  <2>4. CASE Start(r, f)
    <3>1. PICK next : next = [row EXCEPT !.status = "RUNNING"]
      OBVIOUS
    <3>2. WithRow(a, next)
      BY <2>1, <2>2, <2>4, <3>1 DEF Start
    <3>3. next \in storedAction /\ next.status = "RUNNING" /\ next.epoch = row.epoch /\ next.done = row.done
      BY <3>1 DEF storedAction, Statuses, Occupying
    <3> QED  BY <2>2, <2>3, <3>2, <3>3, RowGoesOn, RowMoves
  <2>5. CASE HeartbeatExtends(r, f)
    <3>1. PICK seq : seq = row.seq + 1
      OBVIOUS
    <3>2. PICK next : next = [row EXCEPT !.seq = seq]
      OBVIOUS
    <3>3. WithRow(a, next) /\ row.seq < Beats
      <4>1. [row EXCEPT !.seq = @ + 1] = next
        BY <3>1, <3>2 DEF storedAction
      <4> QED  BY <2>1, <2>2, <2>5, <4>1 DEF HeartbeatExtends
    <3>4. seq \in 0..Beats
      BY <3>1, <3>3, Bounds DEF storedAction
    <3>5. next \in storedAction /\ next.status = row.status /\ next.epoch = row.epoch /\ next.done = row.done
      BY <3>2, <3>4 DEF storedAction
    <3> QED  BY <2>2, <2>3, <3>3, <3>5, RowGoesOn, RowMoves
  <2> QED  BY <1>2, <2>4, <2>5
<1> QED  BY <1>1, <1>2

(* A lease is rejected or returned, an action cancelled. *)
LEMMA QueueGivesUp ==
  ASSUME GatewayInv,
         \/ \E r \in Holders, f \in Leases : Reject(r, f) \/ Returned(r, f)
         \/ \E a \in Actions : Cancel(a)
  PROVE  GatewayInv' /\ Reported
<1> USE StatusNames
<1>0. {"QUEUED", "FAILED", "CANCELLED"} \subseteq Statuses /\ "FAILED" \in CompletionStatuses
  BY DEF Statuses, CompletionStatuses
<1>1. ASSUME NEW r \in Holders, NEW f \in Leases, Reject(r, f) \/ Returned(r, f)
      PROVE  GatewayInv' /\ Reported
  <2>1. PICK a \in Actions : a = f[1]
    BY LeaseParts
  <2>2. PICK row \in storedAction : row = act[a]
    BY DEF GatewayInv, TablesTypeOK
  <2>3. /\ UNCHANGED <<schema, holder, result, reg, rec, child>> /\ row.status = "LEASED"
        /\ credentialCleanupPredicate(a, row)
    BY <1>1, <2>1, <2>2 DEF Reject, Returned, otherTables, runnerFenceMatches
  <2>4. PICK failed : failed = [row EXCEPT !.done = "FAILED"]
    OBVIOUS
  <2>5. failed \in storedAction /\ failed.epoch = row.epoch
    BY <1>0, <2>4 DEF storedAction
  <2>6. PICK next \in storedAction : /\ WithRow(a, next) /\ next.epoch = row.epoch
                                     /\ next.status \in {"QUEUED", "FAILED", "CANCELLED"}
    <3>1. CASE Reject(r, f)
      <4>1. WithRow(a, Over(failed, "FAILED"))
        BY <2>1, <2>2, <2>4, <3>1 DEF Reject
      <4> QED  BY <1>0, <2>5, <4>1, OverRow
    <3>2. CASE Returned(r, f)
      <4>1. WithRow(a, Requeued(row))
        BY <2>1, <2>2, <3>2 DEF Returned
      <4> QED  BY <4>1, RequeuedRow
    <3> QED  BY <1>1, <3>1, <3>2
  <2> QED  BY <2>2, <2>3, <2>6, LeaseGivenUp, RowMoves
<1>2. ASSUME NEW a \in Actions, Cancel(a)
      PROVE  GatewayInv' /\ Reported
  <2>1. PICK row \in storedAction : row = act[a]
    BY DEF GatewayInv, TablesTypeOK
  <2>2. UNCHANGED <<schema, holder, result, reg, rec, child>>
    BY <1>2 DEF Cancel, otherTables
  <2>3. CASE row.status = "RUNNING" /\ WithRow(a, [row EXCEPT !.cancel = TRUE])
    <3>1. PICK next : next = [row EXCEPT !.cancel = TRUE]
      OBVIOUS
    <3>2. next \in storedAction /\ next.status = row.status /\ next.epoch = row.epoch /\ next.done = row.done
      BY <3>1 DEF storedAction
    <3> QED  BY <2>1, <2>2, <2>3, <3>1, <3>2, RowGoesOn, RowMoves
  <2>4. CASE /\ row.status = "QUEUED" \/ (row.status = "LEASED" /\ credentialCleanupPredicate(a, row))
             /\ WithRow(a, Over(row, "CANCELLED"))
    <3>1. PICK next \in storedAction : /\ next = Over(row, "CANCELLED") /\ next.epoch = row.epoch
                                       /\ next.status = "CANCELLED"
      BY <1>0, OverRow
    <3>2. CASE row.status = "QUEUED"
      <4>1. RowMove(a, act[a], next, rec, result)
        BY <2>1, <3>1, <3>2 DEF RowMove
      <4> QED  BY <2>2, <2>4, <3>1, <4>1, RowMoves
    <3>3. CASE row.status = "LEASED" /\ credentialCleanupPredicate(a, row)
      BY <2>1, <2>2, <2>4, <3>1, <3>3, LeaseGivenUp, RowMoves
    <3> QED  BY <2>4, <3>2, <3>3
  <2> QED  BY <1>2, <2>1, <2>3, <2>4 DEF Cancel
<1> QED  BY <1>1, <1>2

(* The sweep, and a claim with it or without. *)
LEMMA QueueSweeps ==
  ASSUME GatewayInv, SweepExpired \/ \E r \in Holders : Claim(r) \/ ClaimRunnerTx(r)
  PROVE  GatewayInv' /\ Reported
<1>1. ASSUME NEW swept
      PROVE  /\ sweepExpired(act, swept) \in [Actions -> storedAction]
             /\ \A a \in Actions : RowMove(a, act[a], sweepExpired(act, swept)[a], rec, result)
  <2>1. \A a \in Actions : act[a] \in storedAction /\ RowMove(a, act[a], act[a], rec, result)
    BY DEF GatewayInv, TablesTypeOK, ResultsAreReceived, RowMove
  <2> QED  BY <2>1, SweptMove DEF sweepExpired
<1>2. CASE SweepExpired
  <2>1. PICK swept : act' = sweepExpired(act, swept)
    BY <1>2 DEF SweepExpired
  <2>2. UNCHANGED <<schema, holder, result, reg, rec, child>>
    BY <1>2 DEF SweepExpired, otherTables
  <2>3. act' \in [Actions -> storedAction] /\ \A a \in Actions : RowMove(a, act[a], act'[a], rec', result')
    BY <1>1, <2>1, <2>2
  <2>4. TablesTypeOK'
    BY <2>2, <2>3 DEF GatewayInv, TablesTypeOK
  <2>5. \A f \in Leases : (Open(rec'[f]) => Held(f)) /\ RecordOK(rec'[f], child'[f]) /\ result'[f] = result[f]
    BY <2>2 DEF GatewayInv, OpenRecordsHold, RecordsAreSound
  <2> QED  BY <2>3, <2>4, <2>5, Moves
<1>3. ASSUME NEW r \in Holders, Claim(r) PROVE GatewayInv' /\ Reported
  <2>1. PICK rows : rows = sweepExpired(act, Actions)
    OBVIOUS
  <2>2. PICK a \in Actions : Candidate(rows, a, r) /\ LeaseTo(rows, a, r)
    BY <1>3, <2>1 DEF Claim
  <2> QED  BY <1>1, <2>1, <2>2, LeaseMoves
<1>4. ASSUME NEW r \in Holders, ClaimRunnerTx(r) PROVE GatewayInv' /\ Reported
  <2>1. PICK rows : rows = act
    OBVIOUS
  <2>2. PICK a \in Actions : Candidate(rows, a, r) /\ LeaseTo(rows, a, r)
    BY <1>4, <2>1 DEF ClaimRunnerTx
  <2>3. rows \in [Actions -> storedAction] /\ \A b \in Actions : RowMove(b, act[b], rows[b], rec, result)
    BY <2>1 DEF GatewayInv, TablesTypeOK, ResultsAreReceived, RowMove
  <2> QED  BY <2>2, <2>3, LeaseMoves
<1> QED  BY <1>2, <1>3, <1>4

(* A received result becomes final, an uncertain one is settled by an operator. *)
LEMMA QueueSettles ==
  ASSUME GatewayInv,
         \/ \E r \in Holders, f \in Leases : Finalize(r, f)
         \/ \E a \in Actions, s \in {"SUCCEEDED", "FAILED"} : Reconcile(a, s)
  PROVE  GatewayInv' /\ Reported
<1> USE StatusNames
<1>1. ASSUME NEW r \in Holders, NEW f \in Leases, Finalize(r, f)
      PROVE  GatewayInv' /\ Reported
  <2>1. PICK a \in Actions : a = f[1]
    BY LeaseParts
  <2>2. PICK row \in storedAction : row = act[a]
    BY DEF GatewayInv, TablesTypeOK
  <2>3. /\ row.status = "FINALIZING" /\ row.done \in CompletionStatuses
        /\ result[<<a, row.epoch>>] = [version |-> 1, status |-> row.done, rev |-> row.rev]
        /\ row.done = "UNCERTAIN" \/ credentialCleanupStrict(a, row)
        /\ WithRow(a, Ended(row, row.done)) /\ UNCHANGED <<schema, holder, result, reg, rec, child>>
    BY <1>1, <2>1, <2>2 DEF Finalize, Finalizable, otherTables, GatewayInv, ResultsAreReceived
  <2>4. SweptRow(a, row) = Ended(row, row.done)
    BY <2>3 DEF SweptRow
  <2> QED  BY <2>2, <2>3, <2>4, SweptMove, RowMoves
<1>2. ASSUME NEW a \in Actions, NEW s \in {"SUCCEEDED", "FAILED"}, Reconcile(a, s)
      PROVE  GatewayInv' /\ Reported
  <2>1. PICK row : row = SweptRow(a, act[a])
    OBVIOUS
  <2>2. row \in storedAction /\ RowMove(a, act[a], row, rec, result)
    BY <2>1, SweptMove
  <2>3. PICK judged : judged = [row EXCEPT !.reconciled = TRUE]
    OBVIOUS
  <2>4. judged \in storedAction /\ judged.epoch = row.epoch /\ judged.reconciled = TRUE
    BY <2>2, <2>3 DEF storedAction
  <2>5. /\ row.status = "UNCERTAIN" /\ credentialCleanupStrict(a, row) /\ WithRow(a, Over(judged, s))
        /\ UNCHANGED <<schema, holder, result, reg, rec, child>>
    BY <1>2, <2>1, <2>3 DEF Reconcile, otherTables
  <2>6. s \in Statuses
    BY DEF Statuses
  <2>7. PICK next \in storedAction : /\ next = Over(judged, s) /\ next.status = s /\ next.epoch = row.epoch
                                     /\ next.reconciled = TRUE
    BY <2>4, <2>6, OverRow
  <2>8. ~Open(rec[<<a, row.epoch>>])
    BY <2>5 DEF credentialCleanupStrict, Cleanup, Open
  <2>9. RowMove(a, act[a], next, rec, result)
    BY <2>2, <2>5, <2>7, <2>8 DEF RowMove
  <2> QED  BY <2>5, <2>7, <2>9, RowMoves
<1> QED  BY <1>1, <1>2

(* The in-process runner reports its result. *)
LEMMA QueueCompletes ==
  ASSUME GatewayInv, NEW r \in Holders, NEW f \in Leases, NEW status \in CompletionStatuses, Complete(r, f, status)
  PROVE  GatewayInv' /\ Reported
<1> USE StatusNames
<1>1. PICK a \in Actions : a = f[1]
  BY LeaseParts
<1>2. PICK row \in storedAction : row = act[a]
  BY DEF GatewayInv, TablesTypeOK
<1>3. PICK next, receipt : next = Received(row, status) /\ receipt = [version |-> 1, status |-> status, rev |-> row.rev]
  OBVIOUS
<1>4. /\ row.status = "RUNNING" /\ row.epoch = f[2] /\ act' = [act EXCEPT ![a] = next]
      /\ result' = [result EXCEPT ![f] = receipt] /\ UNCHANGED <<schema, holder, reg, rec, child>>
  BY <1>1, <1>2, <1>3 DEF Complete, runnerFenceMatches, otherTables, WithRow
<1>5. next \in storedAction /\ next.status = "FINALIZING" /\ next.epoch = row.epoch /\ next.done = status
  BY <1>3, ReceivedRow
<1>6. receipt \in resultReceipt
  <2>1. row.rev \in 0..Changes
    BY DEF storedAction
  <2> QED  BY <1>3, <2>1, ReceiptIsARow
<1>7. TablesTypeOK'
  BY <1>4, <1>5, <1>6 DEF GatewayInv, TablesTypeOK
<1>8. act'[a] = next /\ \A b \in Actions : b # a => act'[b] = act[b]
  BY <1>4 DEF GatewayInv, TablesTypeOK
<1>9. \A b \in Actions : RowMove(b, act[b], act'[b], rec', result')
  <2>1. RowMove(a, act[a], next, rec', result')
    BY <1>2, <1>4, <1>5 DEF RowMove
  <2>2. \A b \in Actions : RowMove(b, act[b], act[b], rec', result')
    BY DEF GatewayInv, ResultsAreReceived, RowMove
  <2> QED  BY <1>8, <2>1, <2>2
<1>10. \A g \in Leases : (Open(rec'[g]) => Held(g)) /\ RecordOK(rec'[g], child'[g])
  BY <1>4 DEF GatewayInv, OpenRecordsHold, RecordsAreSound
<1>11. \A g \in Leases : \/ result'[g] = result[g]
                         \/ act[g[1]].status = "RUNNING" /\ act[g[1]].epoch = g[2] /\ act'[g[1]].status \in Resulted
  BY <1>1, <1>2, <1>4, <1>5, <1>8 DEF GatewayInv, TablesTypeOK
<1> QED  BY <1>7, <1>9, <1>10, <1>11, Moves

-----------------------------------------------------------------------------
(* The records. *)

\* The record goes on: what is known of the child and what people confirmed is kept.
GoesOn(row, next) ==
  /\ next.status \notin Cleaned /\ next.permit = row.permit /\ next.expired = row.expired
  /\ next.evidence = row.evidence /\ next.confirms = row.confirms
  /\ row.status = "MANUAL_REQUIRED" =>
       next.status = "MANUAL_REQUIRED" \/ (row.confirms = {} /\ row.evidence = None)

(* A row is no NULL. *)
LEMMA RecordIsARow == \A row \in storedRevocation : row # None
BY NoneIsNoRow

(* Whoever has a record open has a sound one, and holds its lease. *)
LEMMA OpenRecord ==
  ASSUME GatewayInv, NEW f \in Leases, rec[f] # None
  PROVE  /\ rec[f] \in storedRevocation /\ RecordOK(rec[f], child[f]) /\ ConfirmsOK(rec[f])
         /\ rec[f].status \notin Cleaned => Open(rec[f])
BY DEF GatewayInv, TablesTypeOK, RecordsAreSound, RecordOK, Open

(* A record that goes on stays sound. *)
LEMMA GoesOnIsSound ==
  ASSUME NEW row \in storedRevocation, NEW ch, RecordOK(row, ch), ConfirmsOK(row), row.status \notin Cleaned,
         NEW next \in storedRevocation, GoesOn(row, next)
  PROVE  RecordOK(next, ch)
<1>1. ConfirmsOK(next)
  BY DEF ConfirmsOK, GoesOn, Cleaned
<1>2. Open(next) /\ next.status \notin Cleaned
  BY RecordIsARow DEF GoesOn, Open
<1>3. ch = "live" => next.permit = TRUE /\ next.expired = FALSE
  BY DEF GoesOn, RecordOK
<1> QED  BY <1>1, <1>2, <1>3 DEF RecordOK

LEMMA RecordGoesOn ==
  ASSUME GatewayInv, NEW f \in Leases, Open(rec[f]), NEW next \in storedRevocation, GoesOn(rec[f], next),
         WithRecord(f, next), UNCHANGED notRecords
  PROVE  GatewayInv' /\ Reported
<1>1. PICK row \in storedRevocation, ch \in {child[f]} : row = rec[f] /\ RecordOK(row, ch) /\ ConfirmsOK(row) /\ Open(row)
  BY OpenRecord DEF Open
<1>2. RecordOK(next, ch)
  BY <1>1, GoesOnIsSound DEF Open
<1> QED  BY <1>1, <1>2, RecordMoves

(* A record that is closed, as its child does not live. *)
LEMMA ClosedRow ==
  ASSUME NEW row \in storedRevocation, NEW status \in Cleaned
  PROVE  /\ Closed(row, status) \in storedRevocation /\ Closed(row, status).status = status
         /\ Closed(row, status).permit = FALSE
         /\ Closed(row, status).evidence = row.evidence /\ Closed(row, status).confirms = row.confirms
<1>1. PICK next : next = Closed(row, status)
  OBVIOUS
<1>2. next = [status |-> status, permit |-> FALSE, accessor |-> FALSE, expired |-> FALSE, claim |-> 0,
              claimant |-> None, held |-> FALSE, spent |-> FALSE, said |-> None, evidence |-> row.evidence,
              confirms |-> row.confirms]
  BY <1>1 DEF Closed, Prepared
<1>3. row.evidence \in Evidence \cup {None} /\ row.confirms \in SUBSET Persons /\ status \in RevocationStatuses
  BY DEF storedRevocation, RevocationStatuses
<1>4. next \in storedRevocation
  BY <1>2, <1>3, Bounds DEF storedRevocation
<1> QED  BY <1>1, <1>2, <1>4

LEMMA ClosedIsSound ==
  ASSUME NEW row \in storedRevocation, ConfirmsOK(row), row.status \notin Cleaned \cup {"MANUAL_REQUIRED"},
         NEW status \in Cleaned, NEW ch, ch # "live"
  PROVE  Closed(row, status) \in storedRevocation /\ RecordOK(Closed(row, status), ch)
<1>1. PICK next \in storedRevocation : /\ next = Closed(row, status) /\ next.status = status /\ next.permit = FALSE
                                       /\ next.evidence = row.evidence /\ next.confirms = row.confirms
  BY ClosedRow
<1>2. row.confirms = {} /\ row.evidence = None
  BY DEF ConfirmsOK, Cleaned
<1>3. ConfirmsOK(next)
  BY <1>1, <1>2 DEF ConfirmsOK
<1> QED  BY <1>1, <1>3 DEF RecordOK

LEMMA RecordCloses ==
  ASSUME GatewayInv, NEW f \in Leases, Open(rec[f]), rec[f].status # "MANUAL_REQUIRED", child[f] # "live",
         NEW status \in Cleaned, WithRecord(f, Closed(rec[f], status)), UNCHANGED notRecords
  PROVE  GatewayInv' /\ Reported
<1>1. PICK row \in storedRevocation : row = rec[f] /\ RecordOK(row, child[f]) /\ ConfirmsOK(row) /\ Open(row)
  BY OpenRecord DEF Open
<1>2. PICK ch, next : ch = child[f] /\ next = Closed(row, status)
  OBVIOUS
<1>3. next \in storedRevocation /\ RecordOK(next, ch)
  BY <1>1, <1>2, ClosedIsSound DEF Open
<1> QED  BY <1>1, <1>2, <1>3, RecordMoves

(* The revocation of a child is asked for. *)
LEMMA InvalidatedRow ==
  ASSUME NEW row \in storedRevocation, row.status \notin Cleaned \cup {"MANUAL_REQUIRED"}
  PROVE  requestInvalidatedAnchor(row) \in storedRevocation /\ GoesOn(row, requestInvalidatedAnchor(row))
<1>1. PICK next : next = [row EXCEPT !.status = "REVOCATION_PENDING", !.spent = FALSE]
  OBVIOUS
<1>2. next \in storedRevocation
  BY <1>1 DEF storedRevocation, RevocationStatuses
<1>3. /\ next.status = "REVOCATION_PENDING" /\ next.permit = row.permit /\ next.expired = row.expired
      /\ next.evidence = row.evidence /\ next.confirms = row.confirms
  BY <1>1 DEF storedRevocation
<1> QED  BY <1>1, <1>2, <1>3 DEF GoesOn, Cleaned, requestInvalidatedAnchor

(* The accessor is recorded, the credential activated. *)
LEMMA AnchoredRow ==
  ASSUME NEW row \in storedRevocation, row.status \notin Cleaned \cup {"MANUAL_REQUIRED"},
         NEW next, \/ next = [row EXCEPT !.status = "ANCHORED", !.accessor = TRUE]
                   \/ next = [row EXCEPT !.status = "ACTIVE"]
  PROVE  next \in storedRevocation /\ GoesOn(row, next) /\ next.status \notin Cleaned \cup {"MANUAL_REQUIRED"}
<1>1. next \in storedRevocation
  BY DEF storedRevocation, RevocationStatuses
<1>2. /\ next.status \in {"ANCHORED", "ACTIVE"} /\ next.permit = row.permit /\ next.expired = row.expired
      /\ next.evidence = row.evidence /\ next.confirms = row.confirms
  BY DEF storedRevocation
<1> QED  BY <1>1, <1>2 DEF GoesOn, Cleaned

(* The calls about a child: its permit, its accessor, its activation, its end. *)
LEMMA AnchorSteps ==
  ASSUME GatewayInv, NEW r, NEW f \in Leases,
         \/ AuthorizeChildCreate(r, f) \/ RecordAnchor(r, f) \/ Activate(r, f)
         \/ (recordNoCredential(f) \/ requestRevocation(f)) /\ UNCHANGED notRecords
         \/ recoverManagedCandidate(f) \/ RecoverPrepared(f)
  PROVE  GatewayInv' /\ Reported
<1>0. /\ UNCHANGED notRecords /\ rec[f] # None /\ rec[f].status \in {"PREPARED", "ANCHORED", "ACTIVE"}
  BY DEF AuthorizeChildCreate, RecordAnchor, Activate, recordNoCredential, requestRevocation, Has,
         recoverManagedCandidate, RecoverPrepared
<1>1. Open(rec[f])
  BY <1>0 DEF Open, Cleaned
<1>2. PICK row \in storedRevocation : row = rec[f] /\ RecordOK(row, child[f]) /\ ConfirmsOK(row)
  BY <1>0, OpenRecord
<1>3. row.status \notin Cleaned \cup {"MANUAL_REQUIRED"}
  BY <1>0, <1>2 DEF Cleaned
<1>4. ASSUME WithRecord(f, requestInvalidatedAnchor(row)) PROVE GatewayInv' /\ Reported
  BY <1>0, <1>1, <1>2, <1>3, <1>4, InvalidatedRow, RecordGoesOn
<1>5. CASE AuthorizeChildCreate(r, f)
  <2>1. PICK next : next = [row EXCEPT !.permit = TRUE]
    OBVIOUS
  <2>2. next \in storedRevocation
    BY <2>1 DEF storedRevocation
  <2>3. /\ next.status = row.status /\ next.permit = TRUE /\ next.expired = row.expired
        /\ next.evidence = row.evidence /\ next.confirms = row.confirms
    BY <2>1 DEF storedRevocation
  <2>4. WithRecord(f, next)
    BY <1>2, <1>5, <2>1 DEF AuthorizeChildCreate
  <2>5. ConfirmsOK(next) /\ Open(next)
    BY <1>2, <1>3, <2>2, <2>3, RecordIsARow DEF ConfirmsOK, Open
  <2>6. child[f] = "live" => next.expired = FALSE
    BY <1>2, <2>3 DEF RecordOK
  <2>7. RecordOK(next, child[f])
    BY <2>3, <2>5, <2>6 DEF RecordOK, Open
  <2> QED  BY <1>0, <1>1, <2>2, <2>4, <2>7, RecordMoves
<1>6. CASE RecordAnchor(r, f)
  <2>1. PICK anchored : anchored = IF row.status = "PREPARED"
                                   THEN [row EXCEPT !.status = "ANCHORED", !.accessor = TRUE] ELSE row
    OBVIOUS
  <2>2. anchored \in storedRevocation /\ GoesOn(row, anchored) /\ anchored.status \notin Cleaned \cup {"MANUAL_REQUIRED"}
    BY <1>3, <2>1, AnchoredRow DEF GoesOn
  <2>3. CASE WithRecord(f, anchored)
    BY <1>0, <1>1, <1>2, <2>2, <2>3, RecordGoesOn
  <2>4. CASE WithRecord(f, requestInvalidatedAnchor(anchored))
    <3>1. PICK next \in storedRevocation : next = requestInvalidatedAnchor(anchored) /\ GoesOn(anchored, next)
      BY <2>2, InvalidatedRow
    <3>2. GoesOn(row, next)
      BY <1>3, <2>2, <3>1 DEF GoesOn
    <3> QED  BY <1>0, <1>1, <1>2, <2>4, <3>1, <3>2, RecordGoesOn
  <2> QED  BY <1>2, <1>6, <2>1, <2>3, <2>4 DEF RecordAnchor
<1>7. CASE Activate(r, f)
  <2>1. PICK active : active = [row EXCEPT !.status = "ACTIVE"]
    OBVIOUS
  <2>2. active \in storedRevocation /\ GoesOn(row, active)
    BY <1>3, <2>1, AnchoredRow
  <2>3. CASE WithRecord(f, active)
    BY <1>0, <1>1, <1>2, <2>2, <2>3, RecordGoesOn
  <2> QED  BY <1>2, <1>4, <1>7, <2>1, <2>3 DEF Activate
<1>8. CASE recordNoCredential(f)
  <2>1. child[f] # "live"
    BY <1>2, <1>8 DEF recordNoCredential, RecordOK
  <2> QED  BY <1>0, <1>1, <1>2, <1>3, <1>8, <2>1, RecordCloses DEF recordNoCredential, Cleaned
<1>9. CASE requestRevocation(f) \/ recoverManagedCandidate(f)
  BY <1>2, <1>4, <1>9 DEF requestRevocation, recoverManagedCandidate
<1>10. CASE RecoverPrepared(f)
  <2>1. child[f] # "live"
    BY <1>2, <1>10 DEF RecoverPrepared, RecordOK
  <2> QED  BY <1>0, <1>1, <1>2, <1>3, <1>10, <2>1, RecordCloses DEF RecoverPrepared, Cleaned
<1> QED  BY <1>5, <1>6, <1>7, <1>8, <1>9, <1>10

(* Time passes for a claim, its accessor is lost, its attempts run out, a person gives it
   another try. *)
LEMMA ClaimGoesOn ==
  ASSUME GatewayInv, NEW f \in Leases,
         ClaimLapses(f) \/ AccessorLost(f) \/ RecoverExhausted(f) \/ RequeueManual(f)
  PROVE  GatewayInv' /\ Reported
<1>0. UNCHANGED notRecords /\ rec[f] # None
  BY DEF ClaimLapses, AccessorLost, RecoverExhausted, RequeueManual, Requeueable, Has, notRecords
<1>1. PICK row \in storedRevocation : row = rec[f] /\ RecordOK(row, child[f]) /\ ConfirmsOK(row)
  BY <1>0, OpenRecord
<1>2. /\ row.status \in RevocationStatuses /\ row.accessor \in BOOLEAN /\ row.claim \in 0..Claims
      /\ row.claimant \in Holders \cup {None, "worker"} /\ row.held \in BOOLEAN /\ row.spent \in BOOLEAN
      /\ row.said \in {None, "FAILED", "SYSTEM"}
  BY DEF storedRevocation
<1>3. CASE rec' = [rec EXCEPT ![f].held = FALSE]
  <2>1. PICK next : next = [row EXCEPT !.held = FALSE]
    OBVIOUS
  <2>2. WithRecord(f, next)
    BY <1>1, <1>3, <2>1 DEF WithRecord, GatewayInv, TablesTypeOK
  <2>3. /\ next \in storedRevocation /\ next.status = row.status /\ next.permit = row.permit
        /\ next.expired = row.expired /\ next.evidence = row.evidence /\ next.confirms = row.confirms
    BY <2>1 DEF storedRevocation
  <2>4. RecordOK(next, child[f])
    <3>1. ConfirmsOK(next)
      BY <1>1, <2>3 DEF ConfirmsOK
    <3>2. child[f] = "live" => Open(next)
      BY <1>1, <2>3, RecordIsARow DEF RecordOK, Open
    <3>3. next.status \in Cleaned => next.permit = FALSE
      BY <1>0, <1>1, <2>3 DEF RecordOK
    <3>4. child[f] = "live" => next.permit = TRUE /\ next.expired = FALSE
      BY <1>1, <2>3 DEF RecordOK
    <3> QED  BY <3>1, <3>2, <3>3, <3>4 DEF RecordOK
  <2>5. CASE Open(rec[f])
    BY <1>0, <2>2, <2>3, <2>4, <2>5, RecordMoves
  <2>6. CASE ~Open(rec[f])
    <3>1. ~Open(next)
      BY <1>0, <1>1, <2>3, <2>6 DEF Open
    <3>2. UNCHANGED <<schema, act, holder, result, reg, child>> /\ rec' = [rec EXCEPT ![f] = next]
      BY <1>0, <2>2 DEF notRecords, WithRecord
    <3>3. TablesTypeOK'
      BY <2>3, <3>2 DEF GatewayInv, TablesTypeOK
    <3>4. rec'[f] = next /\ \A g \in Leases : g # f => rec'[g] = rec[g]
      BY <3>2 DEF GatewayInv, TablesTypeOK
    <3>5. \A a \in Actions : RowMove(a, act[a], act'[a], rec', result')
      BY <3>2 DEF GatewayInv, ResultsAreReceived, RowMove
    <3>6. \A g \in Leases : (Open(rec'[g]) => Held(g)) /\ RecordOK(rec'[g], child'[g])
      BY <2>4, <3>1, <3>2, <3>4 DEF GatewayInv, OpenRecordsHold, RecordsAreSound
    <3> QED  BY <3>2, <3>3, <3>5, <3>6, Moves
  <2> QED  BY <2>5, <2>6
<1>4. CASE row.status \in {"REVOCATION_PENDING", "REVOKING"} /\ rec' = [rec EXCEPT ![f].spent = TRUE]
  <2>1. PICK next : next = [row EXCEPT !.spent = TRUE]
    OBVIOUS
  <2>2. WithRecord(f, next)
    BY <1>1, <1>4, <2>1 DEF WithRecord, GatewayInv, TablesTypeOK
  <2>3. Open(rec[f]) /\ row.status # "MANUAL_REQUIRED" /\ row.status \notin Cleaned
    BY <1>0, <1>1, <1>4 DEF Cleaned, Open
  <2>4. /\ next \in storedRevocation /\ next.status = row.status /\ next.permit = row.permit
        /\ next.expired = row.expired /\ next.evidence = row.evidence /\ next.confirms = row.confirms
    BY <2>1 DEF storedRevocation
  <2>5. GoesOn(row, next)
    BY <2>3, <2>4 DEF GoesOn
  <2> QED  BY <1>0, <1>1, <2>2, <2>3, <2>4, <2>5, RecordGoesOn
<1>5. CASE AccessorLost(f)
  <2>1. PICK next : next = [row EXCEPT !.accessor = FALSE]
    OBVIOUS
  <2>2. WithRecord(f, next) /\ row.status \in {"REVOCATION_PENDING", "REVOKING"}
    BY <1>1, <1>5, <2>1 DEF AccessorLost, Has
  <2>3. Open(rec[f]) /\ row.status # "MANUAL_REQUIRED" /\ row.status \notin Cleaned
    BY <1>0, <1>1, <2>2 DEF Cleaned, Open
  <2>4. /\ next \in storedRevocation /\ next.status = row.status /\ next.permit = row.permit
        /\ next.expired = row.expired /\ next.evidence = row.evidence /\ next.confirms = row.confirms
    BY <2>1 DEF storedRevocation
  <2>5. GoesOn(row, next)
    BY <2>3, <2>4 DEF GoesOn
  <2> QED  BY <1>0, <1>1, <2>2, <2>3, <2>4, <2>5, RecordGoesOn
<1>6. CASE RecoverExhausted(f)
  <2>1. PICK said : said = IF row.status = "REVOKING" /\ schema = 9 THEN "SYSTEM" ELSE row.said
    OBVIOUS
  <2>2. PICK next : next = [row EXCEPT !.status = "MANUAL_REQUIRED", !.claimant = None, !.said = said]
    OBVIOUS
  <2>3. [row EXCEPT !.status = "MANUAL_REQUIRED", !.claimant = None,
                    !.said = IF row.status = "REVOKING" /\ schema = 9 THEN "SYSTEM" ELSE @] = next
    BY <2>1, <2>2 DEF storedRevocation
  <2>4. WithRecord(f, next) /\ row.status \in {"REVOCATION_PENDING", "REVOKING"}
    BY <1>1, <1>6, <2>3 DEF RecoverExhausted
  <2>5. Open(rec[f]) /\ row.status # "MANUAL_REQUIRED"
    BY <1>0, <1>1, <2>4 DEF Cleaned, Open
  <2>6. said \in {None, "FAILED", "SYSTEM"}
    BY <1>2, <2>1
  <2>7. /\ next \in storedRevocation /\ next.status = "MANUAL_REQUIRED" /\ next.permit = row.permit
        /\ next.expired = row.expired /\ next.evidence = row.evidence /\ next.confirms = row.confirms
    BY <2>2, <2>6 DEF storedRevocation, RevocationStatuses
  <2>8. GoesOn(row, next)
    BY <2>5, <2>7 DEF GoesOn, Cleaned
  <2> QED  BY <1>0, <1>1, <2>4, <2>5, <2>7, <2>8, RecordGoesOn
<1>7. CASE RequeueManual(f)
  <2>1. PICK next : next = [row EXCEPT !.status = "REVOCATION_PENDING", !.spent = FALSE]
    OBVIOUS
  <2>2. WithRecord(f, next) /\ row.status = "MANUAL_REQUIRED" /\ row.evidence = None /\ row.confirms = {}
    BY <1>1, <1>7, <2>1 DEF RequeueManual, Requeueable, Has
  <2>3. Open(rec[f])
    BY <1>0, <1>1, <2>2 DEF Cleaned, Open
  <2>4. /\ next \in storedRevocation /\ next.status = "REVOCATION_PENDING" /\ next.permit = row.permit
        /\ next.expired = row.expired /\ next.evidence = row.evidence /\ next.confirms = row.confirms
    BY <2>1 DEF storedRevocation, RevocationStatuses
  <2>5. GoesOn(row, next)
    BY <2>2, <2>4 DEF GoesOn, Cleaned
  <2> QED  BY <1>0, <1>1, <2>2, <2>3, <2>4, <2>5, RecordGoesOn
<1> QED  BY <1>1, <1>3, <1>4, <1>5, <1>6, <1>7 DEF ClaimLapses

\* A claim that is taken, or was found without an accessor.
Taken(row, claim, w) ==
  [row EXCEPT !.status = "REVOKING", !.claim = claim, !.claimant = w, !.held = TRUE, !.said = None]
Quarantined(row, claim) ==
  [row EXCEPT !.status = "MANUAL_REQUIRED", !.claim = claim, !.claimant = None, !.held = FALSE, !.said = None]

(* Neither changes what is known of the child. *)
LEMMA TakenRow ==
  ASSUME NEW row \in storedRevocation, NEW claim \in 0..Claims, NEW w \in Holders \cup {None, "worker"}, NEW next,
         next = Taken(row, claim, w) \/ next = Quarantined(row, claim)
  PROVE  /\ next \in storedRevocation /\ next.status \notin Cleaned /\ next.permit = row.permit
         /\ next.expired = row.expired /\ next.evidence = row.evidence /\ next.confirms = row.confirms
<1>1. \E status \in {"REVOKING", "MANUAL_REQUIRED"}, v \in Holders \cup {None, "worker"}, held \in BOOLEAN :
        next = [status |-> status, permit |-> row.permit, accessor |-> row.accessor, expired |-> row.expired,
                claim |-> claim, claimant |-> v, held |-> held, spent |-> row.spent, said |-> None,
                evidence |-> row.evidence, confirms |-> row.confirms]
  <2>1. CASE next = Taken(row, claim, w)
    BY <2>1 DEF Taken, storedRevocation
  <2>2. CASE next = Quarantined(row, claim)
    BY <2>2 DEF Quarantined, storedRevocation
  <2> QED  BY <2>1, <2>2
<1>2. /\ row.permit \in BOOLEAN /\ row.accessor \in BOOLEAN /\ row.expired \in BOOLEAN /\ row.spent \in BOOLEAN
      /\ row.evidence \in Evidence \cup {None} /\ row.confirms \in SUBSET Persons
  BY DEF storedRevocation
<1>3. next \in storedRevocation
  BY <1>1, <1>2 DEF storedRevocation, RevocationStatuses
<1>4. /\ next.status \in {"REVOKING", "MANUAL_REQUIRED"} /\ next.permit = row.permit
      /\ next.expired = row.expired /\ next.evidence = row.evidence /\ next.confirms = row.confirms
  BY <1>1
<1> QED  BY <1>3, <1>4 DEF Cleaned

(* A claim of a revocation: taken, quarantined, failed, or ended with the child. *)
LEMMA ClaimSteps ==
  ASSUME GatewayInv, NEW f \in Leases,
         \/ ClaimRevocations(f) \/ CompleteRevocation(f)
         \/ \E manual \in BOOLEAN : failClaim(f, manual)
         \/ \E r \in Holders : ClaimRevocationRunnerTx(r, f)
         \/ \E r \in Holders, outcome \in {"REVOKED", "FAILED"} : CompleteRevocationRunnerTx(r, f, outcome)
  PROVE  GatewayInv' /\ Reported
<1>0. UNCHANGED notRecords /\ rec[f] # None /\ rec[f].status \in {"REVOCATION_PENDING", "REVOKING"}
  BY DEF ClaimRevocations, CompleteRevocation, failClaim, ClaimRevocationRunnerTx, CompleteRevocationRunnerTx,
         Claimable, claimFence, Has
<1>1. PICK row \in storedRevocation : row = rec[f] /\ RecordOK(row, child[f]) /\ ConfirmsOK(row)
  BY <1>0, OpenRecord
<1>2. Open(rec[f]) /\ row.status # "MANUAL_REQUIRED" /\ row.status \notin Cleaned
  BY <1>0, <1>1 DEF Cleaned, Open
<1>3. ASSUME NEW next \in storedRevocation, WithRecord(f, next), next.status \notin Cleaned,
             next.permit = row.permit, next.expired = row.expired,
             next.evidence = row.evidence, next.confirms = row.confirms
      PROVE  GatewayInv' /\ Reported
  <2>1. GoesOn(row, next)
    BY <1>2, <1>3 DEF GoesOn
  <2> QED  BY <1>0, <1>1, <1>2, <1>3, <2>1, RecordGoesOn
<1>4. ASSUME NEW claim \in 0..Claims, NEW w \in Holders \cup {None, "worker"}, NEW next,
             next = Taken(row, claim, w) \/ next = Quarantined(row, claim), WithRecord(f, next)
      PROVE  GatewayInv' /\ Reported
  BY <1>3, <1>4, TakenRow
<1>5. ASSUME NEW next, NEW said \in {None, "FAILED"}, NEW status \in {"MANUAL_REQUIRED", "REVOCATION_PENDING"},
             \/ next = [row EXCEPT !.claimant = None, !.held = FALSE, !.status = status]
             \/ next = [row EXCEPT !.claimant = None, !.held = FALSE, !.status = status, !.said = said]
      PROVE  /\ next \in storedRevocation /\ next.status \notin Cleaned /\ next.permit = row.permit
             /\ next.expired = row.expired /\ next.evidence = row.evidence /\ next.confirms = row.confirms
  <2>1. next \in storedRevocation
    BY <1>5 DEF storedRevocation, RevocationStatuses
  <2>2. /\ next.status = status /\ next.permit = row.permit
        /\ next.expired = row.expired /\ next.evidence = row.evidence /\ next.confirms = row.confirms
    BY <1>5 DEF storedRevocation
  <2> QED  BY <2>1, <2>2 DEF Cleaned
<1>6. ASSUME NEW w \in Holders \cup {None, "worker"}, Claimable(f)
      PROVE  \E claim \in 0..Claims : ClaimedBy(f, w) = Taken(row, claim, w)
  <2>1. row.claim \in 0..Claims /\ row.claim < Claims
    BY <1>1, <1>6 DEF Claimable, storedRevocation
  <2>2. PICK claim \in 0..Claims : claim = row.claim + 1
    BY <2>1, Bounds
  <2> QED  BY <1>1, <2>2 DEF ClaimedBy, Taken, storedRevocation
<1>7. CASE ClaimRevocations(f)
  <2>1. PICK w \in Holders \cup {None, "worker"} : w = "worker"
    OBVIOUS
  <2>2. PICK claim \in 0..Claims : ClaimedBy(f, w) = Taken(row, claim, w)
    BY <1>6, <1>7 DEF ClaimRevocations
  <2>3. PICK taken, left :
          taken = ClaimedBy(f, w) /\ left = [taken EXCEPT !.status = "MANUAL_REQUIRED", !.claimant = None, !.held = FALSE]
    OBVIOUS
  <2>4. left = Quarantined(row, claim)
    BY <2>2, <2>3 DEF Taken, Quarantined, storedRevocation
  <2>5. WithRecord(f, taken) \/ WithRecord(f, left)
    BY <1>7, <2>1, <2>3 DEF ClaimRevocations
  <2> QED  BY <1>4, <2>2, <2>3, <2>4, <2>5
<1>8. CASE \E r \in Holders : ClaimRevocationRunnerTx(r, f)
  <2>1. PICK r \in Holders : ClaimRevocationRunnerTx(r, f)
    BY <1>8
  <2>2. PICK w \in Holders \cup {None, "worker"} : w = r
    OBVIOUS
  <2>3. PICK claim \in 0..Claims : ClaimedBy(f, w) = Taken(row, claim, w)
    BY <1>6, <2>1 DEF ClaimRevocationRunnerTx
  <2>4. PICK taken : taken = ClaimedBy(f, w)
    OBVIOUS
  <2>5. WithRecord(f, taken)
    BY <2>1, <2>2, <2>4 DEF ClaimRevocationRunnerTx
  <2> QED  BY <1>4, <2>3, <2>4, <2>5
<1>9. ASSUME NEW manual \in BOOLEAN
      PROVE  \E status \in {"MANUAL_REQUIRED", "REVOCATION_PENDING"} :
               FailedRow(rec[f], manual) = [row EXCEPT !.claimant = None, !.held = FALSE, !.status = status]
  BY <1>1 DEF FailedRow, Released, storedRevocation
<1>10. CASE \E manual \in BOOLEAN : failClaim(f, manual)
  <2>1. PICK manual \in BOOLEAN : failClaim(f, manual)
    BY <1>10
  <2>2. PICK status \in {"MANUAL_REQUIRED", "REVOCATION_PENDING"} :
          FailedRow(rec[f], manual) = [row EXCEPT !.claimant = None, !.held = FALSE, !.status = status]
    BY <1>9
  <2>3. PICK next : next = FailedRow(rec[f], manual)
    OBVIOUS
  <2>4. WithRecord(f, next)
    BY <2>1, <2>3 DEF failClaim
  <2> QED  BY <1>3, <1>5, <2>2, <2>3, <2>4
<1>11. ASSUME child[f] # "live", WithRecord(f, RevokedRow(rec[f])) PROVE GatewayInv' /\ Reported
  BY <1>0, <1>1, <1>2, <1>11, RecordCloses DEF RevokedRow, Cleaned
<1>12. CASE CompleteRevocation(f)
  BY <1>11, <1>12 DEF CompleteRevocation
<1>13. CASE \E r \in Holders, outcome \in {"REVOKED", "FAILED"} : CompleteRevocationRunnerTx(r, f, outcome)
  <2>1. PICK r \in Holders, outcome \in {"REVOKED", "FAILED"} : CompleteRevocationRunnerTx(r, f, outcome)
    BY <1>13
  <2>2. CASE outcome = "REVOKED"
    BY <1>11, <2>1, <2>2 DEF CompleteRevocationRunnerTx
  <2>3. CASE outcome = "FAILED"
    <3>1. PICK status \in {"MANUAL_REQUIRED", "REVOCATION_PENDING"} :
            FailedRow(rec[f], FALSE) = [row EXCEPT !.claimant = None, !.held = FALSE, !.status = status]
      BY <1>9
    <3>2. PICK next : next = [FailedRow(rec[f], FALSE) EXCEPT !.said = outcome]
      OBVIOUS
    <3>3. next = [row EXCEPT !.claimant = None, !.held = FALSE, !.status = status, !.said = outcome]
      BY <3>1, <3>2 DEF storedRevocation
    <3>4. WithRecord(f, next)
      BY <2>1, <2>3, <3>2 DEF CompleteRevocationRunnerTx
    <3>5. outcome \in {None, "FAILED"}
      BY <2>3
    <3> QED  BY <1>3, <1>5, <3>3, <3>4, <3>5
  <2> QED  BY <2>1, <2>2, <2>3
<1> QED  BY <1>7, <1>8, <1>10, <1>12, <1>13

(* A person confirms that the child is dead; the second one ends the revocation. *)
LEMMA ConfirmSteps ==
  ASSUME GatewayInv, NEW f \in Leases, NEW p \in Persons, NEW e \in Evidence, ConfirmManagement(f, p, e)
  PROVE  GatewayInv' /\ Reported
<1>0. /\ UNCHANGED notRecords /\ rec[f] # None /\ rec[f].status = "MANUAL_REQUIRED" /\ child[f] # "live"
      /\ mayConfirm(f, p, e) /\ WithRecord(f, Confirmed(rec[f], p, e))
  BY DEF ConfirmManagement, mayConfirm, Has
<1>1. PICK row \in storedRevocation : row = rec[f] /\ ConfirmsOK(row)
  BY <1>0, OpenRecord
<1>2. Open(rec[f]) /\ row.status = "MANUAL_REQUIRED" /\ e # None /\ row.confirms \in SUBSET Persons
  BY <1>0, <1>1, WriteAssumption DEF Cleaned, Open, storedRevocation
<1>3. PICK heard, said : heard = row.confirms \cup {p} /\ said = [row EXCEPT !.evidence = e, !.confirms = heard]
  OBVIOUS
<1>4. said \in storedRevocation /\ said.status = row.status /\ said.evidence = e /\ said.confirms = heard
  BY <1>2, <1>3 DEF storedRevocation
<1>5. Confirmed(row, p, e) = IF Cardinality(heard) = 2 THEN Closed(said, "REVOKED") ELSE said
  <2>1. [row EXCEPT !.evidence = e, !.confirms = @ \cup {p}] = said
    BY <1>3 DEF storedRevocation
  <2> QED  BY <1>4, <2>1 DEF Confirmed
<1>6. CASE row.confirms = {}
  <2>1. heard = {p} /\ Cardinality(heard) = 1
    BY <1>3, <1>6, FS_Singleton
  <2>2. WithRecord(f, said)
    BY <1>0, <1>1, <1>5, <2>1
  <2>3. ConfirmsOK(said)
    BY <1>2, <1>4, <2>1 DEF ConfirmsOK
  <2>4. RecordOK(said, child[f])
    BY <1>0, <1>2, <1>4, <2>3 DEF RecordOK, Cleaned
  <2> QED  BY <1>0, <1>2, <1>4, <2>2, <2>4, RecordMoves
<1>7. CASE row.confirms # {}
  <2>1. PICK q \in Persons : row.confirms = {q}
    BY <1>1, <1>2, <1>7 DEF ConfirmsOK
  <2>2. p # q /\ heard \cap Admins # {}
    BY <1>0, <1>1, <1>3, <2>1 DEF mayConfirm
  <2>3. Cardinality(heard) = 2
    <3>1. IsFiniteSet({q}) /\ Cardinality({q}) = 1
      BY FS_Singleton
    <3>2. Cardinality({q} \cup {p}) = IF p \in {q} THEN Cardinality({q}) ELSE Cardinality({q}) + 1
      BY <3>1, FS_AddElement, Zenon
    <3>3. heard = {q} \cup {p} /\ p \notin {q}
      BY <1>3, <2>1, <2>2
    <3> QED  BY <3>1, <3>2, <3>3
  <2>4. PICK next \in storedRevocation : /\ next = Closed(said, "REVOKED") /\ next.status = "REVOKED"
                                         /\ next.permit = FALSE /\ next.evidence = e /\ next.confirms = heard
    BY <1>4, ClosedRow DEF Cleaned
  <2>5. WithRecord(f, next)
    BY <1>0, <1>1, <1>5, <2>3, <2>4
  <2>6. ConfirmsOK(next)
    BY <1>2, <2>2, <2>3, <2>4 DEF ConfirmsOK
  <2>7. RecordOK(next, child[f])
    BY <1>0, <2>4, <2>6 DEF RecordOK
  <2> QED  BY <1>0, <1>2, <2>4, <2>5, <2>7, RecordMoves
<1> QED  BY <1>6, <1>7

-----------------------------------------------------------------------------
(* The issuer and the operators. *)

(* Records, children or registrations change, and nothing else does. *)
LEMMA WorldMoves ==
  ASSUME GatewayInv, UNCHANGED <<schema, act, holder, result>>, TablesTypeOK',
         \A f \in Leases : (Open(rec'[f]) => Held(f)) /\ RecordOK(rec'[f], child'[f])
  PROVE  GatewayInv' /\ Reported
<1>1. \A a \in Actions : RowMove(a, act[a], act'[a], rec', result')
  BY DEF GatewayInv, ResultsAreReceived, RowMove
<1> QED  BY <1>1, Moves

(* A child is created, revoked or expires; the scope of a runner changes. *)
LEMMA ChildSteps ==
  ASSUME GatewayInv,
         \/ \E f \in Leases : ChildExpires(f) \/ ChildCreated(f) \/ ChildRevoked(f)
         \/ \E r \in Holders : RegistrationChanges(r)
  PROVE  GatewayInv' /\ Reported
<1>1. \A g \in Leases : (Open(rec[g]) => Held(g)) /\ RecordOK(rec[g], child[g])
  BY DEF GatewayInv, OpenRecordsHold, RecordsAreSound
<1>2. ASSUME NEW f \in Leases, ChildExpires(f) PROVE GatewayInv' /\ Reported
  <2>1. PICK row \in storedRevocation : row = rec[f] /\ RecordOK(row, child[f]) /\ ConfirmsOK(row)
    BY <1>2, OpenRecord DEF ChildExpires
  <2>2. PICK next : next = [row EXCEPT !.expired = TRUE]
    OBVIOUS
  <2>3. /\ rec' = [rec EXCEPT ![f] = next] /\ child' = [child EXCEPT ![f] = "dead"]
        /\ UNCHANGED <<schema, act, holder, result, reg>> /\ row.status \notin Cleaned /\ row # None
    BY <1>2, <2>1, <2>2 DEF ChildExpires, GatewayInv, TablesTypeOK
  <2>4. /\ next \in storedRevocation /\ next.status = row.status /\ next.permit = row.permit
        /\ next.evidence = row.evidence /\ next.confirms = row.confirms
    BY <2>2 DEF storedRevocation
  <2>5. TablesTypeOK'
    BY <2>3, <2>4 DEF GatewayInv, TablesTypeOK
  <2>6. /\ rec'[f] = next /\ child'[f] = "dead"
        /\ \A g \in Leases : g # f => rec'[g] = rec[g] /\ child'[g] = child[g]
    BY <2>3 DEF GatewayInv, TablesTypeOK
  <2>7. ConfirmsOK(next)
    BY <2>1, <2>4 DEF ConfirmsOK
  <2>8. RecordOK(next, "dead") /\ Held(f)
    BY <1>1, <2>1, <2>3, <2>4, <2>7 DEF RecordOK, Open
  <2> QED  BY <1>1, <2>3, <2>5, <2>6, <2>8, WorldMoves
<1>3. ASSUME NEW f \in Leases, ChildCreated(f) PROVE GatewayInv' /\ Reported
  <2>1. PICK row \in storedRevocation : row = rec[f] /\ RecordOK(row, child[f]) /\ ConfirmsOK(row)
    BY <1>3, OpenRecord DEF ChildCreated
  <2>2. /\ child' = [child EXCEPT ![f] = "live"] /\ UNCHANGED <<schema, act, holder, result, reg, rec>>
        /\ row.permit /\ ~row.expired /\ row # None
    BY <1>3, <2>1 DEF ChildCreated
  <2>3. TablesTypeOK'
    BY <2>2 DEF GatewayInv, TablesTypeOK
  <2>4. child'[f] = "live" /\ \A g \in Leases : g # f => child'[g] = child[g]
    BY <2>2 DEF GatewayInv, TablesTypeOK
  <2>5. row.permit = TRUE /\ row.expired = FALSE
    BY <2>2 DEF storedRevocation
  <2>6. Open(row)
    BY <2>1, <2>2, <2>5 DEF RecordOK, Open
  <2>7. RecordOK(row, "live")
    BY <2>1, <2>5, <2>6 DEF RecordOK, Open
  <2> QED  BY <1>1, <2>1, <2>2, <2>3, <2>4, <2>7, WorldMoves
<1>4. ASSUME NEW f \in Leases, ChildRevoked(f) PROVE GatewayInv' /\ Reported
  <2>1. child' = [child EXCEPT ![f] = "dead"] /\ UNCHANGED <<schema, act, holder, result, reg, rec>>
    BY <1>4 DEF ChildRevoked, AccessorReleased
  <2>2. TablesTypeOK'
    BY <2>1 DEF GatewayInv, TablesTypeOK
  <2>3. child'[f] = "dead" /\ \A g \in Leases : g # f => child'[g] = child[g]
    BY <2>1 DEF GatewayInv, TablesTypeOK
  <2>4. RecordOK(rec[f], "dead")
    BY <1>1 DEF RecordOK
  <2> QED  BY <1>1, <2>1, <2>2, <2>3, <2>4, WorldMoves
<1>5. ASSUME NEW r \in Holders, RegistrationChanges(r) PROVE GatewayInv' /\ Reported
  <2>1. PICK rev : rev = reg[r] + 1
    OBVIOUS
  <2>2. /\ reg' = [reg EXCEPT ![r] = rev] /\ reg[r] < Changes /\ reg[r] \in 0..Changes
        /\ UNCHANGED <<schema, act, holder, result, rec, child>>
    BY <1>5, <2>1 DEF RegistrationChanges, GatewayInv, TablesTypeOK
  <2>3. rev \in 0..Changes
    BY <2>1, <2>2, Bounds
  <2>4. TablesTypeOK'
    BY <2>2, <2>3 DEF GatewayInv, TablesTypeOK
  <2> QED  BY <1>1, <2>2, <2>4, WorldMoves
<1> QED  BY <1>2, <1>3, <1>4, <1>5

-----------------------------------------------------------------------------
(* The transactions over the queue and the records. *)

(* A record is prepared beside the row of its lease. *)
LEMMA PreparedMoves ==
  ASSUME GatewayInv, NEW f \in Leases, NEW a \in Actions, a = f[1], NEW row \in storedAction, row = act[a],
         row.status \in Active, row.epoch = f[2], NEW next \in storedAction, next.epoch = row.epoch,
         next.done = row.done, next.status = row.status \/ next.status = "RUNNING",
         rec[f] = None, rec' = [rec EXCEPT ![f] = Prepared], WithRow(a, next),
         UNCHANGED <<schema, holder, result, reg, child>>
  PROVE  GatewayInv' /\ Reported
<1> USE StatusNames
<1>1. act' = [act EXCEPT ![a] = next]
  BY DEF WithRow
<1>2. PICK made \in storedRevocation : made = Prepared
  BY Bounds DEF Prepared, storedRevocation, RevocationStatuses
<1>3. TablesTypeOK'
  BY <1>1, <1>2 DEF GatewayInv, TablesTypeOK
<1>4. act'[a] = next /\ \A b \in Actions : b # a => act'[b] = act[b]
  BY <1>1 DEF GatewayInv, TablesTypeOK
<1>5. \A b \in Actions : RowMove(b, act[b], act'[b], rec', result')
  <2>1. RowMove(a, act[a], next, rec', result')
    BY RowGoesOn
  <2>2. \A b \in Actions : RowMove(b, act[b], act[b], rec', result')
    BY DEF GatewayInv, ResultsAreReceived, RowMove
  <2> QED  BY <1>4, <2>1, <2>2
<1>6. rec'[f] = made /\ \A g \in Leases : g # f => rec'[g] = rec[g]
  BY <1>2 DEF GatewayInv, TablesTypeOK
<1>7. Held(f) /\ \A g \in Leases : (Open(rec[g]) => Held(g)) /\ RecordOK(rec[g], child[g])
  BY DEF GatewayInv, OpenRecordsHold, RecordsAreSound, Held
<1>8. RecordOK(made, child[f])
  <2>1. child[f] # "live"
    BY <1>7 DEF RecordOK, Open
  <2>2. made.status = "PREPARED" /\ made.confirms = {} /\ made.evidence = None
    BY <1>2 DEF Prepared
  <2> QED  BY <2>1, <2>2 DEF RecordOK, ConfirmsOK, Cleaned
<1> QED  BY <1>3, <1>5, <1>6, <1>7, <1>8, Moves

LEMMA PrepareSteps ==
  ASSUME GatewayInv, NEW r \in Holders, NEW f \in Leases, Prepare(r, f) \/ StartJob(r, f)
  PROVE  GatewayInv' /\ Reported
<1>1. PICK a \in Actions : a = f[1]
  BY LeaseParts
<1>2. PICK row \in storedAction : row = act[a]
  BY DEF GatewayInv, TablesTypeOK
<1>3. /\ row.status \in Active /\ row.epoch = f[2] /\ UNCHANGED <<schema, holder, result, reg, child>>
  BY <1>1, <1>2 DEF Prepare, StartJob, resolveActionFence, StartRunnerAuthorizedTx, validateRunnerActiveFence,
                    runnerFenceMatches
<1>4. CASE Prepare(r, f)
  <2>1. PICK next : next = [row EXCEPT !.expected = TRUE]
    OBVIOUS
  <2>2. next \in storedAction /\ next.epoch = row.epoch /\ next.done = row.done /\ next.status = row.status
    BY <2>1 DEF storedAction
  <2>3. rec[f] = None /\ rec' = [rec EXCEPT ![f] = Prepared] /\ WithRow(a, next)
    BY <1>1, <1>2, <1>4, <2>1 DEF Prepare, insertPrepared
  <2> QED  BY <1>1, <1>2, <1>3, <2>2, <2>3, PreparedMoves
<1>5. CASE StartJob(r, f)
  <2>1. PICK started : started = [row EXCEPT !.status = "RUNNING"]
    OBVIOUS
  <2>2. PICK next : next = [started EXCEPT !.expected = TRUE]
    OBVIOUS
  <2>3. /\ started \in storedAction /\ started.epoch = row.epoch /\ started.done = row.done
        /\ started.status = "RUNNING"
    BY <2>1 DEF storedAction, Statuses, Occupying
  <2>4. next \in storedAction /\ next.epoch = row.epoch /\ next.done = row.done /\ next.status = "RUNNING"
    BY <2>2, <2>3 DEF storedAction
  <2>5. rec[f] = None /\ rec' = [rec EXCEPT ![f] = Prepared] /\ WithRow(a, next)
    BY <1>1, <1>2, <1>5, <2>1, <2>2 DEF StartJob, insertPrepared
  <2> QED  BY <1>1, <1>2, <1>3, <2>4, <2>5, PreparedMoves
<1> QED  BY <1>4, <1>5

(* The record as a completion leaves it is sound, and open only if it was. *)
LEMMA CleanupRecord ==
  ASSUME GatewayInv, NEW f \in Leases
  PROVE  /\ EnsureCompletionCleanup(f) \in storedRevocation \cup {None}
         /\ RecordOK(EnsureCompletionCleanup(f), child[f])
         /\ Open(EnsureCompletionCleanup(f)) => Open(rec[f])
<1>1. rec[f] \in storedRevocation \cup {None} /\ RecordOK(rec[f], child[f])
  BY DEF GatewayInv, TablesTypeOK, RecordsAreSound
<1>2. PICK record : record = EnsureCompletionCleanup(f)
  OBVIOUS
<1>3. CASE Has(f, {"PREPARED"}) /\ ~rec[f].permit
  <2>1. PICK row \in storedRevocation : row = rec[f] /\ RecordOK(row, child[f]) /\ ConfirmsOK(row)
    BY <1>3, OpenRecord DEF Has
  <2>2. row.status \notin Cleaned \cup {"MANUAL_REQUIRED"} /\ child[f] # "live" /\ Open(rec[f])
    BY <1>3, <2>1 DEF Has, Cleaned, RecordOK, Open
  <2>3. record = Closed(row, "NO_CREDENTIAL")
    BY <1>2, <1>3, <2>1 DEF EnsureCompletionCleanup, Has
  <2>4. "NO_CREDENTIAL" \in Cleaned
    BY DEF Cleaned
  <2>5. PICK ch : ch = child[f]
    OBVIOUS
  <2>6. record \in storedRevocation /\ RecordOK(record, ch)
    BY <2>1, <2>2, <2>3, <2>4, <2>5, ClosedIsSound
  <2> QED  BY <1>2, <2>2, <2>5, <2>6
<1>4. CASE Has(f, {"ANCHORED", "ACTIVE"})
  <2>1. PICK row \in storedRevocation : row = rec[f] /\ RecordOK(row, child[f]) /\ ConfirmsOK(row)
    BY <1>4, OpenRecord DEF Has
  <2>2. row.status \notin Cleaned \cup {"MANUAL_REQUIRED"} /\ Open(rec[f]) /\ row.status # "PREPARED"
    BY <1>4, <2>1 DEF Has, Cleaned, Open
  <2>3. record = requestInvalidatedAnchor(row)
    BY <1>2, <1>4, <2>1, <2>2 DEF EnsureCompletionCleanup, Has
  <2>4. record \in storedRevocation /\ GoesOn(row, record)
    BY <2>2, <2>3, InvalidatedRow
  <2>5. RecordOK(record, child[f])
    BY <2>1, <2>2, <2>4, GoesOnIsSound
  <2> QED  BY <1>2, <2>2, <2>4, <2>5
<1>5. CASE record = rec[f]
  BY <1>1, <1>2, <1>5
<1> QED  BY <1>2, <1>3, <1>4, <1>5 DEF EnsureCompletionCleanup

(* A runner completes: the result, the record and the row. *)
LEMMA CompleteSteps ==
  ASSUME GatewayInv, NEW r \in Holders, NEW f \in Leases, NEW status \in CompletionStatuses, CompleteJob(r, f, status)
  PROVE  GatewayInv' /\ Reported
<1> USE StatusNames
<1>1. PICK a \in Actions : a = f[1] /\ f = <<a, f[2]>>
  BY LeaseParts
<1>2. PICK row \in storedAction : row = act[a]
  BY DEF GatewayInv, TablesTypeOK
<1>3. PICK record : record = EnsureCompletionCleanup(f)
  OBVIOUS
<1>4. PICK received : received = Received(row, status)
  OBVIOUS
<1>5. PICK next : next = FinalizeRunnerTx(received, record)
  OBVIOUS
<1>6. PICK receipt : receipt = [version |-> 2, status |-> status, rev |-> row.rev]
  OBVIOUS
<1>7. /\ row.epoch = f[2] /\ act' = [act EXCEPT ![a] = next] /\ rec' = [rec EXCEPT ![f] = record]
      /\ UNCHANGED <<schema, holder, reg, child>>
      /\ \/ row.status = "RUNNING" /\ result' = [result EXCEPT ![f] = receipt]
         \/ row.status = "FINALIZING" /\ result[f] = receipt /\ UNCHANGED result
  BY <1>1, <1>2, <1>3, <1>4, <1>5, <1>6
     DEF CompleteJob, CompleteRunnerTx, CompletionReplayed, runnerFenceMatches, WithRow
<1>8. /\ record \in storedRevocation \cup {None} /\ RecordOK(record, child[f])
      /\ Open(record) => Open(rec[f])
  BY <1>3, CleanupRecord
<1>9. receipt \in resultReceipt /\ receipt # None /\ receipt.status = status
  <2>1. row.rev \in 0..Changes
    BY DEF storedAction
  <2> QED  BY <1>6, <2>1, ReceiptIsARow
<1>10. /\ received \in storedAction /\ received.status = "FINALIZING" /\ received.epoch = row.epoch
       /\ received.done = status
  BY <1>4, ReceivedRow
<1>11. /\ next \in storedAction /\ next.epoch = row.epoch
       /\ next.done = status /\ next.status \in {"FINALIZING", status}
       /\ next.status \notin Occupying => ~Open(record)
  <2>1. CASE next = received
    BY <1>10, <2>1
  <2>2. CASE (status = "UNCERTAIN" \/ record.status \in Cleaned) /\ next = Ended(received, status)
    <3>1. next \in storedAction /\ next.status = status /\ next.epoch = row.epoch /\ next.done = status
      BY <1>10, <2>2, EndedRow
    <3> QED  BY <2>2, <3>1 DEF Open
  <2> QED  BY <1>5, <1>10, <2>1, <2>2 DEF FinalizeRunnerTx
<1>12. result' \in [Leases -> resultReceipt \cup {None}] /\ result'[f] = receipt
       /\ \A g \in Leases : g # f => result'[g] = result[g]
  BY <1>7, <1>9 DEF GatewayInv, TablesTypeOK
<1>13. TablesTypeOK'
  BY <1>7, <1>8, <1>11, <1>12 DEF GatewayInv, TablesTypeOK
<1>14. act'[a] = next /\ \A b \in Actions : b # a => act'[b] = act[b]
  BY <1>7 DEF GatewayInv, TablesTypeOK
<1>15. rec'[f] = record /\ \A g \in Leases : g # f => rec'[g] = rec[g]
  BY <1>7 DEF GatewayInv, TablesTypeOK
<1>16. \A b \in Actions : RowMove(b, act[b], act'[b], rec', result')
  <2>1. RowMove(a, act[a], next, rec', result')
    <3>1. rec'[<<a, row.epoch>>] = record /\ result'[<<a, row.epoch>>] = receipt
      BY <1>1, <1>7, <1>12, <1>15
    <3>2. row.status \in Occupying /\ next.status \in Resulted
      BY <1>7, <1>11
    <3> QED  BY <1>2, <1>9, <1>11, <3>1, <3>2 DEF RowMove
  <2>2. \A b \in Actions : RowMove(b, act[b], act[b], rec', result')
    BY DEF GatewayInv, ResultsAreReceived, RowMove
  <2> QED  BY <1>14, <2>1, <2>2
<1>17. \A g \in Leases : (Open(rec'[g]) => Held(g)) /\ RecordOK(rec'[g], child'[g])
  BY <1>7, <1>8, <1>15 DEF GatewayInv, OpenRecordsHold, RecordsAreSound
<1>18. \A g \in Leases : \/ result'[g] = result[g]
                         \/ act[g[1]].status = "RUNNING" /\ act[g[1]].epoch = g[2] /\ act'[g[1]].status \in Resulted
  BY <1>1, <1>2, <1>7, <1>11, <1>12, <1>14
<1> QED  BY <1>13, <1>16, <1>17, <1>18, Moves

-----------------------------------------------------------------------------
(* Every step. *)

(* At the start no action is known, and no record or result exists. *)
LEMMA GatewayInit == TablesInit => GatewayInv
<1> SUFFICES ASSUME TablesInit PROVE GatewayInv
  OBVIOUS
<1> USE DEF TablesInit
<1>1. NewAction \in storedAction /\ NewAction.status = "ABSENT"
  BY Bounds DEF NewAction, storedAction, Statuses
<1>2. TablesTypeOK
  BY <1>1, Bounds DEF TablesTypeOK
<1>3. ResultsAreReceived /\ OneOccupies
  BY <1>1 DEF ResultsAreReceived, OneOccupies, Occupying
<1>4. OpenRecordsHold /\ ResultsStay /\ RecordsAreSound
  BY DEF OpenRecordsHold, Open, ResultsStay, RecordsAreSound, RecordOK
<1> QED  BY <1>2, <1>3, <1>4 DEF GatewayInv

(* Nothing happens. *)
LEMMA GatewayStutters == GatewayInv /\ UNCHANGED tableVars => GatewayInv'
BY DEF tableVars, GatewayInv, TablesTypeOK, ResultsAreReceived, OneOccupies, OpenRecordsHold, Open, Held, ResultsStay,
       RecordsAreSound, RecordOK, ConfirmsOK

LEMMA GatewaySteps ==
  ASSUME GatewayInv, GatewayNext
  PROVE  GatewayInv' /\ Reported
<1>1. CASE GatewayStep
  <2>1. PICK r \in Holders :
          \/ LeaseJob(r)
          \/ \E f \in Leases :
               \/ StartJob(r, f) \/ HeartbeatJob(r, f) \/ ReleaseJob(r, f) \/ AnchorCredential(r, f)
               \/ LeaseRevocation(r, f)
               \/ \E s \in CompletionStatuses : CompleteJob(r, f, s)
               \/ \E o \in {"REVOKED", "FAILED"} : FinishRevocation(r, f, o)
    BY <1>1 DEF GatewayStep
  <2>2. CASE LeaseJob(r)
    BY <2>2, QueueSweeps DEF LeaseJob
  <2>3. ASSUME NEW f \in Leases, StartJob(r, f) PROVE GatewayInv' /\ Reported
    BY <2>3, PrepareSteps
  <2>4. ASSUME NEW f \in Leases, HeartbeatJob(r, f) PROVE GatewayInv' /\ Reported
    BY <2>4, QueueGoesOn DEF HeartbeatJob, HeartbeatRunnerTx
  <2>5. ASSUME NEW f \in Leases, ReleaseJob(r, f) PROVE GatewayInv' /\ Reported
    BY <2>5, QueueGivesUp DEF ReleaseJob, ReleaseRunnerTx
  <2>6. ASSUME NEW f \in Leases, AnchorCredential(r, f) PROVE GatewayInv' /\ Reported
    BY <2>6, AnchorSteps DEF AnchorCredential, AuthorizeChildCreateRunnerTx, RecordAnchorRunnerTx, ActivateRunnerTx,
                             runnerActionTransitionTx
  <2>7. ASSUME NEW f \in Leases, LeaseRevocation(r, f) PROVE GatewayInv' /\ Reported
    BY <2>7, ClaimSteps DEF LeaseRevocation
  <2>8. ASSUME NEW f \in Leases, NEW s \in CompletionStatuses, CompleteJob(r, f, s) PROVE GatewayInv' /\ Reported
    BY <2>8, CompleteSteps
  <2>9. ASSUME NEW f \in Leases, NEW o \in {"REVOKED", "FAILED"}, FinishRevocation(r, f, o)
        PROVE  GatewayInv' /\ Reported
    BY <2>9, ClaimSteps DEF FinishRevocation
  <2> QED  BY <2>1, <2>2, <2>3, <2>4, <2>5, <2>6, <2>7, <2>8, <2>9
<1>2. CASE DirectStep
  <2>1. ASSUME NEW r \in Holders, Claim(r) PROVE GatewayInv' /\ Reported
    BY <2>1, QueueSweeps
  <2>2. ASSUME NEW r \in Holders, NEW f \in Leases, Start(r, f) \/ Heartbeat(r, f) PROVE GatewayInv' /\ Reported
    BY <2>2, QueueGoesOn DEF Heartbeat
  <2>3. ASSUME NEW r \in Holders, NEW f \in Leases, Finalize(r, f) PROVE GatewayInv' /\ Reported
    BY <2>3, QueueSettles
  <2>4. ASSUME NEW r \in Holders, NEW f \in Leases, Reject(r, f) \/ Nack(r, f) PROVE GatewayInv' /\ Reported
    BY <2>4, QueueGivesUp DEF Nack
  <2>5. ASSUME NEW r \in Holders, NEW f \in Leases, Prepare(r, f) PROVE GatewayInv' /\ Reported
    BY <2>5, PrepareSteps
  <2>6. ASSUME NEW r \in Holders, NEW f \in Leases, DirectCredential(r, f) \/ actionTransition(r, f)
        PROVE  GatewayInv' /\ Reported
    BY <2>6, AnchorSteps DEF DirectCredential, actionTransition
  <2>7. ASSUME NEW r \in Holders, NEW f \in Leases, NEW s \in CompletionStatuses, Complete(r, f, s)
        PROVE  GatewayInv' /\ Reported
    BY <2>7, QueueCompletes
  <2>8. ASSUME NEW f \in Leases,
               ClaimRevocations(f) \/ CompleteRevocation(f) \/ \E manual \in BOOLEAN : failClaim(f, manual)
        PROVE  GatewayInv' /\ Reported
    BY <2>8, ClaimSteps
  <2> QED  BY <1>2, <2>1, <2>2, <2>3, <2>4, <2>5, <2>6, <2>7, <2>8 DEF DirectStep
<1>3. CASE OperatorStep
  <2>1. CASE SweepExpired
    BY <2>1, QueueSweeps
  <2>2. ASSUME NEW a \in Actions, Submit(a) PROVE GatewayInv' /\ Reported
    BY <2>2, QueueGoesOn
  <2>3. ASSUME NEW a \in Actions, Cancel(a) PROVE GatewayInv' /\ Reported
    BY <2>3, QueueGivesUp
  <2>4. ASSUME NEW a \in Actions, NEW s \in {"SUCCEEDED", "FAILED"}, Reconcile(a, s) PROVE GatewayInv' /\ Reported
    BY <2>4, QueueSettles
  <2>5. ASSUME NEW f \in Leases, RecoverPrepared(f) \/ recoverManagedCandidate(f) PROVE GatewayInv' /\ Reported
    BY <2>5, AnchorSteps
  <2>6. ASSUME NEW f \in Leases, RecoverExhausted(f) \/ RequeueManual(f) PROVE GatewayInv' /\ Reported
    BY <2>6, ClaimGoesOn
  <2>7. ASSUME NEW f \in Leases, NEW p \in Persons, NEW e \in Evidence, ConfirmManagement(f, p, e)
        PROVE  GatewayInv' /\ Reported
    BY <2>7, ConfirmSteps
  <2> QED  BY <1>3, <2>1, <2>2, <2>3, <2>4, <2>5, <2>6, <2>7 DEF OperatorStep
<1>4. CASE WorldStep
  <2>1. ASSUME NEW a \in Actions, LeaseLapses(a) \/ AuthorizationLapses(a) PROVE GatewayInv' /\ Reported
    BY <2>1, QueueGoesOn
  <2>2. ASSUME NEW f \in Leases, ChildExpires(f) \/ ChildCreated(f) \/ ChildRevoked(f) PROVE GatewayInv' /\ Reported
    BY <2>2, ChildSteps
  <2>3. ASSUME NEW f \in Leases, ClaimLapses(f) \/ AccessorLost(f) PROVE GatewayInv' /\ Reported
    BY <2>3, ClaimGoesOn
  <2>4. ASSUME NEW r \in Holders, RegistrationChanges(r) PROVE GatewayInv' /\ Reported
    BY <2>4, ChildSteps
  <2> QED  BY <1>4, <2>1, <2>2, <2>3, <2>4 DEF WorldStep
<1> QED  BY <1>1, <1>2, <1>3, <1>4 DEF GatewayNext

-----------------------------------------------------------------------------
(* The theorems. *)

(* Whatever the runners, the operators, the recovery, the issuer and the clock do, one action
   has the target, whoever has an open record holds it, results stay where they were
   reported, and every record agrees with its child (internal/runnergateway/postgres). *)
THEOREM GatewayInductive == GatewaySpec => []GatewayInv
<1>1. TablesInit => GatewayInv
  BY GatewayInit
<1>2. GatewayInv /\ [GatewayNext]_tableVars => GatewayInv'
  BY GatewaySteps, GatewayStutters
<1> QED  BY <1>1, <1>2, PTL DEF GatewaySpec

(* The rows of the write path keep their types (internal/execution/postgres,
   internal/credential/postgres). *)
THEOREM TablesTyped == GatewaySpec => []TablesTypeOK
<1>1. GatewayInv => TablesTypeOK
  BY DEF GatewayInv
<1> QED  BY <1>1, GatewayInductive, PTL

(* Whoever can still use a credential has the lease its action is at, and no other action has
   the target; a revocation that people ended carries two of them for one piece of evidence,
   one an administrator (credentialCleanupPredicate, ConfirmManagement). *)
THEOREM CredentialsHoldTargets == GatewaySpec => []CredentialSafety
<1>1. GatewayInv => ChildHoldsTarget
  <2> SUFFICES ASSUME GatewayInv, NEW f \in Leases, child[f] = "live"
               PROVE  /\ act[f[1]].epoch = f[2] /\ act[f[1]].status \in Occupying
                      /\ \A b \in Actions \ {f[1]} : act[b].status \notin Occupying
    BY DEF ChildHoldsTarget
  <2>1. Held(f) /\ f[1] \in Actions
    BY LeaseParts DEF GatewayInv, RecordsAreSound, RecordOK, OpenRecordsHold
  <2> QED  BY <2>1 DEF Held, GatewayInv, OneOccupies
<1>2. GatewayInv => ConfirmedByTwo
  BY DEF GatewayInv, RecordsAreSound, RecordOK, ConfirmsOK, ConfirmedByTwo, Has
<1>3. GatewayInv => CredentialSafety
  BY <1>1, <1>2 DEF CredentialSafety
<1> QED  BY <1>3, GatewayInductive, PTL

(* No receipt is replaced, and what an action becomes final as is what its runner reported,
   unless an operator settled it or it was rejected before it started (CompleteRunnerTx,
   FinalizeRunnerTx, sweepExpired, Reconcile). *)
THEOREM ResultsStand == GatewaySpec => ResultStands
<1>1. GatewayInv /\ [GatewayNext]_tableVars => [Reported]_tableVars
  BY GatewaySteps
<1>2. GatewaySpec => [][Reported]_tableVars
  BY <1>1, GatewayInductive, PTL DEF GatewaySpec
<1> QED  BY <1>2, PTL DEF ResultStands, Reported
=============================================================================
