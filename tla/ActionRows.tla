------------------------------ MODULE ActionRows ------------------------------
(***************************************************************************)
(* internal/execution/postgres: the action queue on its tables.  First     *)
(* the repository an in-process runner uses, whose results carry receipts  *)
(* of version 1, which migration 9 no longer admits; then what the         *)
(* gateway's transactions call.                                            *)
(***************************************************************************)
EXTENDS WriteTables

WithRow(a, row) == act' = [act EXCEPT ![a] = row]
otherTables == <<schema, reg, rec, child>>

\* The caller presents the token of lease f: epoch and token of the row are those.
runnerFenceMatches(r, f, statuses) ==
  /\ holder[f] = r
  /\ act[f[1]].epoch = f[2] /\ act[f[1]].runner = r
  /\ act[f[1]].status \in statuses

Active == {"LEASED", "RUNNING"}

\* lockedRunnerRegistration.matches
registrationMatches(a) == act[a].runner # None /\ reg[act[a].runner] = act[a].rev

Cleanup(f) == rec[f] # None /\ rec[f].status \in Cleaned

\* credentialCleanupPredicate, strict and credentialCleanupAllowAbsent, of the current lease.
credentialCleanupStrict(a, row) == Cleanup(<<a, row.epoch>>)
credentialCleanupPredicate(a, row) ==
  \/ ~row.expected /\ rec[<<a, row.epoch>>] = None
  \/ credentialCleanupStrict(a, row)

-----------------------------------------------------------------------------
(* The queue *)

\* An action is queued once; a second submission is a replay or a conflict.
Submit(a) ==
  /\ act[a].status = "ABSENT"
  /\ WithRow(a, [act[a] EXCEPT !.status = "QUEUED"])
  /\ UNCHANGED <<holder, result, otherTables>>

Requeued(row) ==
  [row EXCEPT !.status = "QUEUED", !.runner = None, !.rev = 0, !.live = FALSE, !.seq = 0,
              !.cancel = FALSE, !.expected = FALSE]

\* The row at a terminal status; UNCERTAIN still needs its columns.
Ended(row, status) == IF status = "UNCERTAIN" THEN Stopped(row, status) ELSE Over(row, status)

\* sweepExpired of one row: a lapsed run is uncertain, a receipt whose credential is
\* cleaned up becomes final, a lapsed lease without a credential is released.
SweptRow(a, row) ==
  CASE row.status = "RUNNING" /\ ~row.live ->
         [Stopped(row, "UNCERTAIN") EXCEPT !.done = "UNCERTAIN"]
    [] /\ row.status = "FINALIZING"
       /\ result[<<a, row.epoch>>] = [version |-> 1, status |-> row.done, rev |-> row.rev]
       /\ row.done = "UNCERTAIN" \/ credentialCleanupStrict(a, row) ->
         Ended(row, row.done)
    [] row.status = "LEASED" /\ ~row.live /\ credentialCleanupPredicate(a, row) -> Requeued(row)
    [] OTHER -> row

sweepExpired(rows, swept) == [a \in Actions |-> IF a \in swept THEN SweptRow(a, rows[a]) ELSE rows[a]]

\* SweepExpired sweeps everything, Get (through materialize) the action it reads.
SweepExpired ==
  /\ \E swept \in {Actions} \cup {{a} : a \in Actions} : act' = sweepExpired(act, swept)
  /\ act' # act
  /\ UNCHANGED <<holder, result, otherTables>>

\* The predicates of the claim: queued, authorized, the runner below max_concurrency (1)
\* and no other action on the target.
Candidate(rows, a, r) ==
  /\ rows[a].status = "QUEUED" /\ rows[a].authorized
  /\ rows[a].epoch < Epochs[a]
  /\ \A b \in Actions : rows[b].status \in Occupying => rows[b].runner # r /\ b = a

\* The row leased anew: what the last lease left is cleared, its epoch counts on.
Leased(row, r) ==
  [row EXCEPT !.status = "LEASED", !.runner = r, !.rev = reg[r], !.epoch = @ + 1,
              !.live = TRUE, !.seq = 0, !.cancel = FALSE, !.expected = FALSE, !.done = None,
              !.reconciled = FALSE]

LeaseTo(rows, a, r) ==
  /\ act' = [rows EXCEPT ![a] = Leased(@, r)]
  /\ holder' = [holder EXCEPT ![<<a, rows[a].epoch + 1>>] = r]
  /\ UNCHANGED <<result, otherTables>>

\* Claim sweeps first, in the same transaction.
Claim(r) ==
  /\ schema = 8
  /\ LET rows == sweepExpired(act, Actions)
     IN \E a \in Actions : Candidate(rows, a, r) /\ LeaseTo(rows, a, r)

\* A start is repeatable.  The repository's does not look at cancel_requested_at.
Start(r, f) ==
  LET a == f[1] IN
  /\ schema = 8 /\ a \in Starters
  /\ runnerFenceMatches(r, f, Active) /\ registrationMatches(a)
  /\ act[a].live /\ act[a].authorized
  /\ WithRow(a, [act[a] EXCEPT !.status = "RUNNING"])
  /\ UNCHANGED <<holder, result, otherTables>>

\* heartbeatTimeBoundaries: only a current lease under a current authorization is
\* prolonged, and only by the next sequence; a cancelled one keeps its end.
HeartbeatExtends(r, f) ==
  LET a == f[1] IN
  /\ runnerFenceMatches(r, f, Active)
  /\ act[a].live /\ act[a].authorized /\ act[a].seq < Beats
  /\ WithRow(a, [act[a] EXCEPT !.seq = @ + 1])
  /\ UNCHANGED <<holder, result, otherTables>>

Heartbeat(r, f) == schema = 8 /\ registrationMatches(f[1]) /\ HeartbeatExtends(r, f)

\* The row that has its result.
Received(row, status) == [Stopped(row, "FINALIZING") EXCEPT !.done = status]

\* The receipt and FINALIZING are one transaction.
Complete(r, f, status) ==
  LET a == f[1] IN
  /\ schema = 8
  /\ runnerFenceMatches(r, f, {"RUNNING"}) /\ registrationMatches(a) /\ act[a].live
  /\ WithRow(a, Received(act[a], status))
  /\ result' = [result EXCEPT ![f] = [version |-> 1, status |-> status, rev |-> act[a].rev]]
  /\ UNCHANGED <<holder, otherTables>>

\* A row becomes what its receipt says: at once when that is UNCERTAIN, else when the
\* credential of the lease is cleaned up.
Finalizable(a) ==
  /\ act[a].status = "FINALIZING"
  /\ result[<<a, act[a].epoch>>] = [version |-> 1, status |-> act[a].done, rev |-> act[a].rev]
  /\ act[a].done = "UNCERTAIN" \/ credentialCleanupStrict(a, act[a])

Finalize(r, f) ==
  /\ runnerFenceMatches(r, f, {"FINALIZING"}) /\ Finalizable(f[1])
  /\ WithRow(f[1], Ended(act[f[1]], act[f[1]].done))
  /\ UNCHANGED <<holder, result, otherTables>>

\* An unstarted lease is given up for good, or for a later try.
Reject(r, f) ==
  LET a == f[1] IN
  /\ schema = 8
  /\ runnerFenceMatches(r, f, {"LEASED"}) /\ act[a].live /\ credentialCleanupPredicate(a, act[a])
  /\ WithRow(a, Over([act[a] EXCEPT !.done = "FAILED"], "FAILED"))
  /\ UNCHANGED <<holder, result, otherTables>>

Returned(r, f) ==
  LET a == f[1] IN
  /\ runnerFenceMatches(r, f, {"LEASED"}) /\ act[a].live /\ credentialCleanupPredicate(a, act[a])
  /\ WithRow(a, Requeued(act[a]))
  /\ UNCHANGED <<holder, result, otherTables>>

Nack(r, f) == schema = 8 /\ Returned(r, f)

\* An operator settles an uncertain action, once, when its credential is cleaned up.
Reconcile(a, status) ==
  LET row == SweptRow(a, act[a]) IN
  /\ row.status = "UNCERTAIN" /\ ~row.reconciled
  /\ credentialCleanupStrict(a, row)
  /\ WithRow(a, Over([row EXCEPT !.reconciled = TRUE], status))
  /\ UNCHANGED <<holder, result, otherTables>>

\* A running action is asked to stop; any other is cancelled, once its lease is clean.
Cancel(a) ==
  LET row == act[a] IN
  /\ \/ /\ row.status = "RUNNING" /\ ~row.cancel
        /\ WithRow(a, [row EXCEPT !.cancel = TRUE])
     \/ /\ \/ row.status = "QUEUED"
           \/ row.status = "LEASED" /\ credentialCleanupPredicate(a, row)
        /\ WithRow(a, Over(row, "CANCELLED"))
  /\ UNCHANGED <<holder, result, otherTables>>

-----------------------------------------------------------------------------
(* What the gateway's transactions call, for the authenticated runner r *)

\* runnerScopeMatchesAction: the scope the gateway authenticated is the one of the lease.
runnerScopeMatchesAction(r, a) == act[a].runner = r /\ act[a].rev = reg[r]

validateRunnerActiveFence(r, f) == runnerFenceMatches(r, f, Active) /\ runnerScopeMatchesAction(r, f[1])

\* No sweep here: a lapsed row of another action keeps the target.
ClaimRunnerTx(r) == \E a \in Actions : Candidate(act, a, r) /\ LeaseTo(act, a, r)

StartRunnerAuthorizedTx(r, f) ==
  LET a == f[1] IN
  /\ validateRunnerActiveFence(r, f)
  /\ ~act[a].cancel /\ act[a].live /\ act[a].authorized

HeartbeatRunnerTx(r, f) == validateRunnerActiveFence(r, f) /\ HeartbeatExtends(r, f)

ReleaseRunnerTx(r, f) == validateRunnerActiveFence(r, f) /\ Returned(r, f)

\* Variant: whatever the repeated completion says.
ReplaysAnyResult(r, f, status) ==
  runnerFenceMatches(r, f, {"FINALIZING"}) /\ runnerScopeMatchesAction(r, f[1])

\* A repeated completion must be the one on record, signed in the same scope.
CompletionReplayed(r, f, status) ==
  /\ runnerFenceMatches(r, f, {"FINALIZING"}) /\ runnerScopeMatchesAction(r, f[1])
  /\ result[f] = [version |-> 2, status |-> status, rev |-> act[f[1]].rev]

\* The receipt of a run, or the one on record.
CompleteRunnerTx(r, f, status) ==
  \/ /\ runnerFenceMatches(r, f, {"RUNNING"}) /\ runnerScopeMatchesAction(r, f[1])
     /\ act[f[1]].live
     /\ result' = [result EXCEPT ![f] = [version |-> 2, status |-> status, rev |-> act[f[1]].rev]]
  \/ CompletionReplayed(r, f, status) /\ UNCHANGED result

\* The row of a received result: final when that is UNCERTAIN or the record of the lease is
\* closed.
FinalizeRunnerTx(row, record) ==
  IF row.done = "UNCERTAIN" \/ record.status \in Cleaned THEN Ended(row, row.done) ELSE row
=============================================================================
