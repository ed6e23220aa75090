---------------------------- MODULE DiscoveryQueue ----------------------------
(***************************************************************************)
(* The queue of discovery runs,                                            *)
(* internal/discoveryqueue/postgres/repository.go, with the page committer *)
(* of internal/assetcatalog/postgres and the triggers of the schema.       *)
(*                                                                         *)
(* Every operation is one serializable transaction that judges the lease   *)
(* by the database clock, so time is two flags of a run: live and due.     *)
(* A fence is the epoch of the lease it was issued with (the token and the *)
(* owner are drawn with it); e is the epoch of the caller.  An operation   *)
(* repeated after it took effect finds its own receipt and changes         *)
(* nothing: those steps are stuttering.                                    *)
(***************************************************************************)
EXTENDS AssetSource
LOCAL INSTANCE TLC

\* The idempotency keys of commands are compared only with one another.
KeySymmetry == Permutations(Keys)

Put(r, run) == runs' = [runs EXCEPT ![r] = run]

PutRun(r, run) == Put(r, run) /\ UNCHANGED <<source, revisions>>

Fenced(r, e) ==
  runs[r].status \in Leased /\ runs[r].epoch = e /\ runs[r].live

\* Exactly one of a delay intent and a work result says what comes next.
Settled(run) == run.pending # (run.work # None)

NextLease(run) == [run EXCEPT !.epoch = @ + 1, !.live = TRUE]

FailureIntent(run) ==
  [run EXCEPT !.status = "FINALIZING", !.stage = "CLEANING_UP",
              !.work = "FAILURE_INTENT", !.verdict = "FAILED"]

-----------------------------------------------------------------------------
(* Leases. *)

Claimable(r) ==
  LET run == runs[r] IN
  /\ run.due /\ Admitted(r)
  /\ \/ run.status = "QUEUED" /\ run.cleanup = "NOT_OPENED"
     \/ /\ run.status = "DELAYED" /\ run.cleanup = "REVOKED"
        /\ ~run.pending /\ run.receipt

Claim(r) ==
  /\ Claimable(r) /\ runs[r].epoch < MaxEpoch
  /\ PutRun(r, [NextLease(runs[r]) EXCEPT
       !.status = "RUNNING", !.cleanup = "NOT_OPENED", !.attempt = 0, !.receipt = FALSE,
       !.stage = IF runs[r].kind = "VALIDATION" THEN "VALIDATING" ELSE "READING"])

\* An attempt the last holder left open is cleaned up before anything else.
Reclaim(r) ==
  LET run == runs[r] IN
  /\ run.status = "RUNNING" /\ ~run.live /\ Admitted(r) /\ run.epoch < MaxEpoch
  /\ run.cleanup \in {"NOT_OPENED", "PENDING"} \/ run.receipt
  /\ PutRun(r, [NextLease(run) EXCEPT
       !.stage = IF run.cleanup = "NOT_OPENED" THEN @ ELSE "CLEANING_UP",
       !.pending = @ \/ run.cleanup = "PENDING"])

ReclaimFinalizing(r) ==
  LET run == runs[r] IN
  /\ run.status = "FINALIZING" /\ run.stage = "CLEANING_UP"
  /\ ~run.live /\ run.epoch < MaxEpoch
  /\ run.cleanup \in {"NOT_OPENED", "PENDING"} \/ run.receipt
  /\ PutRun(r, NextLease(run))

\* A run whose source moved on is taken over only to be ended.
ReapDrifted(r) ==
  LET run == runs[r]
      leased == [NextLease(run) EXCEPT !.stage = "CLEANING_UP"]
  IN /\ run.status = "RUNNING" /\ ~run.live /\ ~Admitted(r) /\ run.epoch < MaxEpoch
     /\ run.work = None
     /\ \/ run.cleanup \in {"NOT_OPENED", "PENDING"} /\ ~run.pending
        \/ run.cleanup = "PENDING" /\ run.pending
        \/ run.cleanup = "REVOKED" /\ run.pending /\ run.receipt
     /\ PutRun(r, IF run.pending THEN leased ELSE FailureIntent(leased))

CancelIneligible(r) ==
  /\ Cancellable(r) /\ ~Admitted(r)
  /\ runs[r].kind = "VALIDATION" =>
       revisions[runs[r].rev].status = "VALIDATING" /\ revisions[runs[r].rev].run = r
  /\ Put(r, Cancelled(runs[r]))
  /\ revisions' = IF runs[r].kind = "VALIDATION"
       THEN [revisions EXCEPT ![runs[r].rev].status = "REJECTED"] ELSE revisions
  /\ UNCHANGED source

\* A renewal keeps a lease alive and is refused to a run that drifted.
MayHeartbeat(r, e) == Fenced(r, e) /\ Admitted(r)

\* Time passes: a lease that nobody renewed ends, a delay is over.
LeaseLapses(r) ==
  /\ runs[r].status \in Leased /\ runs[r].live
  /\ PutRun(r, [runs[r] EXCEPT !.live = FALSE])

DelayPasses(r) ==
  /\ runs[r].status = "DELAYED" /\ ~runs[r].due
  /\ PutRun(r, [runs[r] EXCEPT !.due = TRUE])

-----------------------------------------------------------------------------
(* The work of the holder. *)

StageSteps ==
  {<<"READING", "NORMALIZING">>, <<"NORMALIZING", "APPLYING">>, <<"APPLYING", "READING">>}

AdvanceStage(r, e, step) ==
  /\ Fenced(r, e) /\ runs[r].status = "RUNNING" /\ runs[r].stage = step[1] /\ Admitted(r)
  /\ PutRun(r, [runs[r] EXCEPT !.stage = step[2]])

\* The intent to delay is persisted before the credential is given back.
AdvanceToCleanup(r, e) ==
  /\ Fenced(r, e) /\ runs[r].status = "RUNNING" /\ Admitted(r)
  /\ runs[r].stage \in {"VALIDATING", "READING", "NORMALIZING", "APPLYING"}
  /\ runs[r].cleanup = "PENDING" /\ ~runs[r].pending
  /\ PutRun(r, [runs[r] EXCEPT !.stage = "CLEANING_UP", !.pending = TRUE])

ReserveCleanupAttempt(r, e) ==
  /\ Fenced(r, e) /\ runs[r].status = "RUNNING" /\ Admitted(r)
  /\ runs[r].cleanup = "NOT_OPENED"
  /\ PutRun(r, [runs[r] EXCEPT !.cleanup = "PENDING", !.attempt = e])

\* validatePageAdmission: a run that is reading, under the fence, of a source and revision in force.
PageAdmitted(r, e) ==
  /\ Fenced(r, e) /\ runs[r].status = "RUNNING" /\ Admitted(r)
  /\ runs[r].stage \in {"NORMALIZING", "APPLYING"} /\ runs[r].pages < MaxPages

\* ApplyPage: the run and the checkpoint of the source move together; the last
\* page is the work result.  Items that were rejected make it partial.
ApplyPage(r, e, final, complete, rejects) ==
  LET run == runs[r]
      rejected == run.rejected \/ rejects
      next == [run EXCEPT !.pages = @ + 1, !.checkpoint = @ + 1, !.rejected = rejected]
  IN /\ PageAdmitted(r, e)
     /\ Put(r, IF final
          THEN [next EXCEPT !.status = "FINALIZING", !.stage = "CLEANING_UP",
                  !.work = "DATA_PROJECTION", !.complete = complete /\ ~rejected,
                  !.verdict = IF rejected THEN "PARTIAL" ELSE "SUCCEEDED"]
          ELSE [next EXCEPT !.stage = "READING"])
     /\ source' = [source EXCEPT !.checkpoint = @ + 1]
     /\ UNCHANGED revisions

ProposeValidationResult(r, e, outcome) ==
  /\ Fenced(r, e) /\ runs[r].status = "RUNNING" /\ runs[r].kind = "VALIDATION"
  /\ runs[r].cleanup = "PENDING" /\ ~runs[r].pending /\ runs[r].work = None
  /\ Admitted(r)
  /\ PutRun(r, [runs[r] EXCEPT !.status = "FINALIZING", !.stage = "CLEANING_UP",
                               !.work = "VALIDATION_PROOF", !.verdict = outcome])

PrepareFailureIntent(r, e) ==
  /\ Fenced(r, e) /\ runs[r].status = "RUNNING"
  /\ runs[r].work = None /\ ~runs[r].pending
  /\ runs[r].cleanup = "PENDING" \/ (runs[r].cleanup = "NOT_OPENED" /\ ~Admitted(r))
  /\ PutRun(r, FailureIntent(runs[r]))

\* The provider lost the checkpoint: the gate closes on everyone else until
\* this run has read a complete snapshot.
BeginCheckpointLineageRollover(r, e) ==
  /\ Fenced(r, e) /\ runs[r].status = "RUNNING" /\ runs[r].kind # "VALIDATION"
  /\ runs[r].stage \in {"READING", "NORMALIZING", "APPLYING"}
  /\ ~runs[r].rollover /\ runs[r].work = None /\ ~runs[r].pending
  /\ runs[r].cleanup = "PENDING" /\ runs[r].attempt = e /\ Admitted(r)
  /\ Put(r, [runs[r] EXCEPT !.rollover = TRUE])
  /\ source' = [source EXCEPT !.gate = "DEGRADED", !.gateRev = @ + 1]
  /\ UNCHANGED revisions

-----------------------------------------------------------------------------
(* The end of an attempt and of a run. *)

\* What a terminal status does to the revision and the gate.
CloseRevisions(r, status) ==
  IF runs[r].kind = "VALIDATION"
    THEN [revisions EXCEPT ![runs[r].rev].status =
            IF status = "FAILED" THEN "REJECTED" ELSE "VALIDATED"]
    ELSE revisions

CloseSource(r, status, uncertain) ==
  IF uncertain \/ (runs[r].rollover /\ status # "SUCCEEDED")
    THEN Gate(source, "SUSPENDED")
  ELSE IF runs[r].kind = "VALIDATION" \/ status # "SUCCEEDED" THEN source
  ELSE IF runs[r].rollover
    THEN [source EXCEPT !.gate = "AVAILABLE", !.gateRev = @ + 1, !.success = r]
  ELSE [source EXCEPT !.success = r]

\* The constraint triggers a terminal row has to satisfy when it commits.
TerminalGuard(r, status, after) ==
  LET run == runs[r] IN
  /\ run.cleanup = "NOT_OPENED" =>
       /\ ~Admitted(r) /\ run.work = "FAILURE_INTENT"
       /\ run.pages = 0 /\ ~run.rollover
  /\ (run.kind # "VALIDATION" /\ status # "FAILED") =>
       /\ after.published = run.rev
       /\ ~run.rollover => /\ after.status = "ACTIVE" /\ after.gate = "AVAILABLE"
                           /\ after.gateRev = run.gateRev
  /\ (run.rollover /\ status = "SUCCEEDED") => run.complete
  /\ run.rollover => after.gateRev = run.gateRev + 2

CleanedOrPending(r) == runs[r].cleanup \in {"PENDING", "REVOKED"}

Cleaned(r) == runs[r].cleanup = "REVOKED"

Terminate(r, status) ==
  LET after == CloseSource(r, status, FALSE) IN
  /\ TerminalGuard(r, status, after)
  /\ Put(r, [runs[r] EXCEPT !.status = status, !.stage = "COMPLETED", !.live = FALSE])
  /\ revisions' = CloseRevisions(r, status)
  /\ source' = after

Complete(r, e) ==
  /\ Fenced(r, e) /\ runs[r].status = "FINALIZING" /\ runs[r].stage = "CLEANING_UP"
  /\ Cleaned(r)
  /\ runs[r].work \in {"VALIDATION_PROOF", "DATA_PROJECTION"}
  /\ runs[r].verdict \in {"SUCCEEDED", "PARTIAL"}
  /\ runs[r].kind = "VALIDATION" => runs[r].verdict = "SUCCEEDED"
  /\ Terminate(r, runs[r].verdict)

Fail(r, e) ==
  /\ Fenced(r, e) /\ runs[r].status = "FINALIZING" /\ runs[r].stage = "CLEANING_UP"
  /\ runs[r].work \in {"VALIDATION_PROOF", "FAILURE_INTENT"}
  /\ runs[r].verdict = "FAILED"
  /\ Cleaned(r) \/ runs[r].cleanup = "NOT_OPENED"
  /\ Terminate(r, "FAILED")

MayRecordCleanup(r, e, a) ==
  /\ Fenced(r, e) /\ runs[r].cleanup = "PENDING" /\ runs[r].attempt = a
  /\ runs[r].stage = "CLEANING_UP" /\ Settled(runs[r])

RecordRevoked(r, e, a) ==
  /\ MayRecordCleanup(r, e, a)
  /\ PutRun(r, [runs[r] EXCEPT !.cleanup = "REVOKED", !.receipt = TRUE])

\* Nobody knows whether the session is gone: the run fails and the source is
\* suspended in the transaction that records it.
RecordUncertain(r, e, a) ==
  /\ MayRecordCleanup(r, e, a)
  /\ Put(r, [(IF runs[r].work = None THEN FailureIntent(runs[r]) ELSE runs[r]) EXCEPT
       !.cleanup = "UNCERTAIN", !.receipt = TRUE, !.pending = FALSE,
       !.status = "FAILED", !.stage = "COMPLETED", !.live = FALSE])
  /\ revisions' = CloseRevisions(r, "FAILED")
  /\ source' = CloseSource(r, "FAILED", TRUE)

Delay(r, e) ==
  /\ Fenced(r, e) /\ runs[r].status = "RUNNING" /\ runs[r].stage = "CLEANING_UP"
  /\ Cleaned(r) /\ runs[r].pending /\ runs[r].receipt
  /\ PutRun(r, [runs[r] EXCEPT !.status = "DELAYED", !.stage = "DELAYED",
                               !.live = FALSE, !.pending = FALSE, !.due = FALSE])

-----------------------------------------------------------------------------
Lease(r) ==
  Claim(r) \/ Reclaim(r) \/ ReclaimFinalizing(r) \/ ReapDrifted(r)

\* Data is read, validated and given up; an outcome is what the provider said.
Work(r, e) ==
  \/ \E step \in StageSteps : AdvanceStage(r, e, step)
  \/ AdvanceToCleanup(r, e)
  \/ ReserveCleanupAttempt(r, e)
  \/ \E final, complete, rejects \in BOOLEAN : ApplyPage(r, e, final, complete, rejects)
  \/ \E outcome \in {"SUCCEEDED", "FAILED"} : ProposeValidationResult(r, e, outcome)
  \/ PrepareFailureIntent(r, e)
  \/ BeginCheckpointLineageRollover(r, e)

End(r, e) ==
  \/ \E a \in 1..MaxEpoch : RecordRevoked(r, e, a) \/ RecordUncertain(r, e, a)
  \/ Complete(r, e) \/ Fail(r, e) \/ Delay(r, e)

Next ==
  \/ Govern
  \/ \E r \in DOMAIN runs :
       \/ Lease(r) \/ LeaseLapses(r) \/ DelayPasses(r) \/ CancelIneligible(r)
       \/ \E e \in 1..MaxEpoch : Work(r, e) \/ End(r, e)

Spec == SourceInit /\ [][Next]_sourceVars

-----------------------------------------------------------------------------
(* Properties. *)

\* Commands race the workers for days: a run that somebody holds loses its
\* admission only because the source was disabled, never by a validation, a
\* publication, a rollover or the end of another run.
OnlyDisableDrifts ==
  \A r \in DOMAIN runs :
    runs[r].status \in Leased /\ source.status = "ACTIVE" => Admitted(r)

\* The gate is open only on a published revision that its own validation run
\* proved, and that run gave its credential back.
GateNeedsProof ==
  source.gate \in {"AVAILABLE", "DEGRADED"} =>
    /\ source.published # 0
    /\ LET proof == runs[revisions[source.published].run] IN
       /\ proof.kind = "VALIDATION" /\ proof.rev = source.published
       /\ proof.status = "SUCCEEDED"
       /\ proof.cleanup = IF source.kind = "MANUAL" THEN "NO_CREDENTIAL" ELSE "REVOKED"

\* The runs that read data under the published revision.
DataRuns == {r \in DOMAIN runs : runs[r].kind # "VALIDATION" /\ runs[r].rev = source.published}

\* Run r is the next of them after run q.
Follows(r, q) == q < r /\ \A s \in DataRuns : s <= q \/ r <= s

\* Through leases lost, delays and rollovers, the checkpoint of the source has moved once for
\* every page applied under its revision and for nothing else: each run began where the one
\* before it ended, the first at zero, and the source is where the last one is.
CheckpointIsApplied ==
  source.published # 0 =>
    /\ DataRuns = {} => source.checkpoint = 0
    /\ \A r \in DataRuns :
         /\ (\A q \in DataRuns : r <= q) => runs[r].checkpoint = runs[r].pages
         /\ \A q \in DataRuns :
              Follows(r, q) => runs[r].checkpoint = runs[q].checkpoint + runs[r].pages
         /\ (\A q \in DataRuns : q <= r) => source.checkpoint = runs[r].checkpoint

\* A worker means the run to fail, and its lease is not over.
AboutToFail(run) == run.status = "FINALIZING" /\ run.work = "FAILURE_INTENT"

\* Whatever workers, commands and lapses wrote, the source and each of its runs can be
\* read back, except while a run is about to fail: see SourceIsReadable.
RowsAreReadable ==
  /\ \A r \in DOMAIN runs : AboutToFail(runs[r]) \/ decodeSourceRunReadProjection(r)
  /\ \/ source.kind = None \/ decodeSourceReadModel
     \/ \E r \in DOMAIN runs : AboutToFail(runs[r])

\* What the validator of a run says: the row a worker wrote is one that may be read.
SourceIsReadable == source.kind # None => decodeSourceReadModel

\* A command that is repeated after its answer was lost starts nothing again.
OneRunPerCommand ==
  \A r, s \in DOMAIN runs : runs[r].key = runs[s].key => r = s

\* Commands, workers and their repetitions leave the source consistent: who is admitted, what
\* opened the gate, what moved the checkpoint, which run a command started, what can be read.
SourceSafety ==
  /\ OnlyDisableDrifts /\ GateNeedsProof /\ CheckpointIsApplied /\ OneRunPerCommand
  /\ RowsAreReadable

\* A run is over only when its last attempt is accounted for: nothing opened,
\* a receipt of the revocation, or a source that was suspended with it.
RunsEndClean ==
  [][\A r \in DOMAIN runs :
       runs[r].status \in Leased /\ runs'[r].status \in TerminalRun =>
         \/ runs'[r].attempt = 0
         \/ runs'[r].cleanup = "REVOKED" /\ runs'[r].receipt
         \/ runs'[r].status = "FAILED" /\ source'.gate = "SUSPENDED"]_sourceVars
=============================================================================
