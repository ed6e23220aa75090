----------------------------- MODULE AssetSource -----------------------------
(***************************************************************************)
(* The governance of one asset source on PostgreSQL,                       *)
(* internal/assetcatalog/postgres/source_revisions.go: its revisions, the  *)
(* gate that admits runs, and the runs the commands create and cancel.     *)
(* The leases of the runs are DiscoveryQueue.                              *)
(*                                                                         *)
(* A command is one serializable transaction.  It carries the versions the *)
(* operator saw; a stale one changes nothing, so a command is modelled as  *)
(* decided on the current state.  A command is known by its idempotency    *)
(* key: its receipt is found again by the audit record, whatever happened  *)
(* in between.  Digests are the revision numbers they are digests of.      *)
(* An EXTERNAL source is read by workers; a MANUAL one has no provider:    *)
(* its validations and its runs begin and end inside one command.          *)
(***************************************************************************)
EXTENDS Values, Integers, Sequences

CONSTANTS
  Keys,          \* idempotency keys of the commands that create runs
  MaxRevisions,  \* bound on the revisions of the source
  MaxRuns,       \* bound on its runs
  MaxPages,      \* bound on the pages of a run
  MaxEpoch       \* bound on the leases of a run

ASSUME SourceConstants ==
  /\ {MaxRevisions, MaxRuns, MaxPages, MaxEpoch} \subseteq Nat \ {0}
  /\ None \notin Keys

GateStatuses == {"UNAVAILABLE", "VALIDATING", "AVAILABLE", "DEGRADED", "SUSPENDED"}
RevisionStatuses ==
  {"DRAFT", "VALIDATING", "VALIDATED", "REJECTED", "PUBLISHED", "SUPERSEDED"}
Leased == {"RUNNING", "FINALIZING"}
TerminalRun == {"SUCCEEDED", "PARTIAL", "FAILED", "CANCELLED"}
RunStatuses == {"QUEUED", "DELAYED"} \cup Leased \cup TerminalRun
Stages == {"WAITING", "VALIDATING", "READING", "NORMALIZING", "APPLYING",
           "CLEANING_UP", "DELAYED", "COMPLETED"}
WorkKinds == {"VALIDATION_PROOF", "DATA_PROJECTION", "FAILURE_INTENT"}

ASSUME NoneIsNoWork ==
  None \notin WorkKinds \cup {"SUCCEEDED", "PARTIAL", "FAILED", "MANUAL", "EXTERNAL"}

VARIABLES
  source,     \* the row of asset_sources
  revisions,  \* asset_source_revisions, in the order of their numbers
  runs        \* asset_source_runs, in the order of their creation

sourceVars == <<source, revisions, runs>>

\* The checkpoint hash is determined by the revision and the version.
Source ==
  [kind : {"MANUAL", "EXTERNAL", None}, status : {"ACTIVE", "DISABLED"}, gate : GateStatuses, gateRev : Nat,
   published : 0..MaxRevisions, validated : 0..MaxRuns,
   checkpoint : Nat, success : 0..MaxRuns]

Revision == [status : RevisionStatuses, run : 0..MaxRuns]

\* live: the lease has not expired.  due: not_before has passed.
\* attempt: the epoch the open cleanup attempt was reserved under, 0 for none.
\* pending: a persisted delay intent.  receipt: an ATTEMPT_CLEANED audit record
\* of the attempt exists.
Run ==
  [kind : {"VALIDATION", "DISCOVERY", "MANUAL"}, key : Keys, rev : 1..MaxRevisions,
   gateRev : Nat, status : RunStatuses, stage : Stages, due : BOOLEAN,
   epoch : 0..MaxEpoch, live : BOOLEAN, checkpoint : Nat,
   pages : 0..MaxPages, complete : BOOLEAN, rejected : BOOLEAN,
   rollover : BOOLEAN, pending : BOOLEAN, work : WorkKinds \cup {None},
   verdict : {"SUCCEEDED", "PARTIAL", "FAILED", None},
   cleanup : {"NOT_OPENED", "PENDING", "REVOKED", "UNCERTAIN", "NO_CREDENTIAL"},
   attempt : 0..MaxEpoch, receipt : BOOLEAN]

SourceTypeOK ==
  /\ source \in Source
  /\ revisions \in Seq(Revision) /\ Len(revisions) <= MaxRevisions
  /\ runs \in Seq(Run) /\ Len(runs) <= MaxRuns

\* There is no row yet.
SourceInit ==
  /\ source = [kind |-> None, status |-> "ACTIVE", gate |-> "UNAVAILABLE", gateRev |-> 0,
               published |-> 0, validated |-> 0, checkpoint |-> 0, success |-> 0]
  /\ revisions = <<>>
  /\ runs = <<>>

NewRun(kind, key, rev, gateRev, checkpoint) ==
  [kind |-> kind, key |-> key, rev |-> rev, gateRev |-> gateRev,
   status |-> "QUEUED", stage |-> "WAITING", due |-> TRUE, epoch |-> 0,
   live |-> FALSE, checkpoint |-> checkpoint, pages |-> 0, complete |-> FALSE,
   rejected |-> FALSE, rollover |-> FALSE, pending |-> FALSE, work |-> None,
   verdict |-> None, cleanup |-> "NOT_OPENED", attempt |-> 0, receipt |-> FALSE]

\* A run that was claimed, worked, closed without a credential and completed
\* before the transaction that created it committed.
InOneCommand(run, work) ==
  [run EXCEPT !.status = "SUCCEEDED", !.stage = "COMPLETED", !.epoch = 1,
     !.work = work, !.verdict = "SUCCEEDED", !.cleanup = "NO_CREDENTIAL", !.receipt = TRUE]

-----------------------------------------------------------------------------
(* What the commands read. *)

\* The run of the source that is not over; a unique index allows one.
Open == {r \in DOMAIN runs : runs[r].status \notin TerminalRun}

NeverReplayed(key) == FALSE

\* The receipt of an earlier command under the key.
Replayed(key) == \E r \in DOMAIN runs : runs[r].key = key

\* The exact facts a run may be worked on under.
Admitted(r) ==
  LET run == runs[r] IN
  /\ source.status = "ACTIVE"
  /\ IF run.kind = "VALIDATION"
       THEN /\ revisions[run.rev].status = "VALIDATING"
            /\ revisions[run.rev].run = r
            /\ \/ source.gate = "UNAVAILABLE" /\ source.gateRev = run.gateRev
               \/ /\ source.gate = "VALIDATING" /\ source.validated = r
                  /\ source.gateRev = run.gateRev + 1
       ELSE /\ revisions[run.rev].status = "PUBLISHED"
            /\ source.published = run.rev
            /\ source.checkpoint = run.checkpoint
            /\ IF run.rollover
                 THEN source.gate = "DEGRADED" /\ source.gateRev = run.gateRev + 1
                 ELSE source.gate = "AVAILABLE" /\ source.gateRev = run.gateRev

\* A run a command may cancel on its way: nobody holds it and it owes nothing.
Cancellable(r) ==
  \/ runs[r].status = "QUEUED"
  \/ /\ runs[r].status = "DELAYED" /\ runs[r].cleanup = "REVOKED"
     /\ runs[r].work = None /\ ~runs[r].pending

Cancelled(run) == [run EXCEPT !.status = "CANCELLED", !.stage = "COMPLETED"]

ValidationsNotHeld == \A r \in Open : runs[r].kind = "VALIDATION" => Cancellable(r)

NoneHeld == \A r \in Open : Cancellable(r)

\* The runs and revisions after the open run was cancelled, if it may be.
CancelPrelockedRuns(rows) ==
  [r \in DOMAIN rows |->
     IF r \in Open /\ Cancellable(r) THEN Cancelled(rows[r]) ELSE rows[r]]

CancelPrelockedRevisions(rows) ==
  [n \in DOMAIN rows |->
     IF \E r \in Open : /\ runs[r].kind = "VALIDATION" /\ rows[n].run = r
                        /\ Cancellable(r)
       THEN [rows[n] EXCEPT !.status = "REJECTED"] ELSE rows[n]]

\* A change of the gate advances its revision and drops the validation.
Gate(s, status) ==
  [s EXCEPT !.gate = status, !.gateRev = @ + 1, !.validated = 0]

-----------------------------------------------------------------------------
(* What a row has to satisfy to be read back: the validators of             *)
(* internal/assetcatalog/validation.go.  Every read of the management API   *)
(* decodes the rows it projects and answers with an error if one is not.    *)

\* A published revision and a checkpoint go together; an open gate names its proof.
ValidSource(row) ==
  /\ row.published = 0 => row.checkpoint = 0
  /\ row.gate = "AVAILABLE" => row.gateRev > 0 /\ row.published # 0 /\ row.validated # 0

validRevisionValidationClosure(row) == row.status = "DRAFT" <=> row.run = 0

\* A run fails for a reason, from the moment a worker means it to fail.
FailureCode(run) == run.work = "FAILURE_INTENT" \/ run.status = "FAILED"

FinalPage(run) == run.work = "DATA_PROJECTION"

validRunWorkResult(run) ==
  \/ run.work = None /\ run.verdict = None
  \/ /\ run.work = "DATA_PROJECTION" /\ run.kind # "VALIDATION"
     /\ run.verdict \in {"SUCCEEDED", "PARTIAL"}
  \/ /\ run.work = "VALIDATION_PROOF" /\ run.kind = "VALIDATION"
     /\ run.verdict \in {"SUCCEEDED", "FAILED"}
  \/ run.work = "FAILURE_INTENT" /\ run.verdict = "FAILED"

closedCleanup(run) == run.cleanup \in {"REVOKED", "NO_CREDENTIAL"}

validTerminalRun(run) == run.stage = "COMPLETED" /\ run.epoch > 0 /\ run.work # None

zeroCommittedRunProgress(run) == run.pages = 0 /\ ~run.rejected /\ ~run.complete /\ ~FinalPage(run)

zeroRunProjection(run) == zeroCommittedRunProgress(run) /\ run.checkpoint = 0

\* What the status of a run says of the rest of it.
ValidStatus(run) ==
  CASE run.status = "QUEUED" ->
         /\ run.stage = "WAITING" /\ run.epoch = 0 /\ run.work = None
         /\ run.cleanup = "NOT_OPENED" /\ zeroCommittedRunProgress(run)
    [] run.status = "DELAYED" ->
         /\ run.stage = "DELAYED" /\ run.epoch > 0 /\ run.work = None
         /\ closedCleanup(run) \/ run.cleanup = "NOT_OPENED"
    [] run.status = "RUNNING" ->
         /\ run.stage \in {"CLEANING_UP"} \cup
              (IF run.kind = "VALIDATION" THEN {"VALIDATING"}
               ELSE {"READING", "NORMALIZING", "APPLYING"})
         /\ run.stage = "CLEANING_UP" \/ run.cleanup \in {"NOT_OPENED", "PENDING"}
         /\ run.epoch > 0 /\ run.work = None
    [] run.status = "FINALIZING" ->
         run.stage = "CLEANING_UP" /\ run.epoch > 0 /\ run.work # None
    [] run.status = "SUCCEEDED" ->
         validTerminalRun(run) /\ closedCleanup(run) /\ run.verdict = "SUCCEEDED"
    [] run.status = "PARTIAL" ->
         /\ validTerminalRun(run) /\ closedCleanup(run)
         /\ run.work = "DATA_PROJECTION" /\ run.verdict = "PARTIAL"
    [] run.status = "FAILED" ->
         /\ validTerminalRun(run) /\ run.cleanup # "PENDING"
         /\ run.cleanup = "NOT_OPENED" =>
              run.work = "FAILURE_INTENT" /\ zeroCommittedRunProgress(run)
         /\ run.cleanup # "UNCERTAIN" => run.verdict = "FAILED"
    [] run.status = "CANCELLED" ->
         /\ run.stage = "COMPLETED" /\ run.work = None
         /\ \/ run.epoch = 0 /\ run.cleanup = "NOT_OPENED" /\ zeroCommittedRunProgress(run)
            \/ run.epoch > 0 /\ closedCleanup(run)

\* Only a run that failed has a failure code, and only a finished reading is complete.
ValidRun(run) ==
  /\ validRunWorkResult(run) /\ ValidStatus(run)
  /\ FailureCode(run) => run.status = "FAILED"
  /\ run.complete => FinalPage(run) /\ ~run.rejected /\ run.kind # "MANUAL"
  /\ run.kind = "VALIDATION" => zeroRunProjection(run)

\* The run that last succeeded under the published revision, as the read joins it.
LastSuccessfulRun ==
  {r \in DOMAIN runs :
     /\ r = source.success /\ runs[r].kind # "VALIDATION" /\ runs[r].status = "SUCCEEDED"
     /\ runs[r].rev = source.published}

\* A source is shown with its latest and its published revision, the run under way and the
\* run that last succeeded, or not at all.
decodeSourceReadModel ==
  /\ ValidSource(source) /\ revisions # <<>>
  /\ validRevisionValidationClosure(revisions[Len(revisions)])
  /\ source.published # 0 =>
       /\ revisions[source.published].status = "PUBLISHED"
       /\ validRevisionValidationClosure(revisions[source.published])
  /\ \A r \in Open : Open = {r} /\ ValidRun(runs[r])
  /\ source.success # 0 <=> LastSuccessfulRun # {}
  /\ \A r \in LastSuccessfulRun : ValidRun(runs[r])

decodeSourceRunReadProjection(r) ==
  ValidRun(runs[r]) /\ validRevisionValidationClosure(revisions[runs[r].rev])

-----------------------------------------------------------------------------
(* The commands of an operator. *)

\* The source and its first revision; the same command again finds its receipt,
\* also when it raced itself to the unique constraint.
CreateSource(kind) ==
  /\ source.kind = None
  /\ source' = [source EXCEPT !.kind = kind]
  /\ revisions' = << [status |-> "DRAFT", run |-> 0] >>
  /\ UNCHANGED runs

CreateRevision ==
  /\ source.kind # None
  /\ Len(revisions) < MaxRevisions
  /\ source.status # "DISABLED"
  /\ revisions' = Append(revisions, [status |-> "DRAFT", run |-> 0])
  /\ UNCHANGED <<source, runs>>

\* An open gate is closed first, then the run that waits is cancelled, then
\* the validation is queued under the gate revision that was reached.
RequestValidation(key, n) ==
  LET closed == IF source.gate \in {"AVAILABLE", "VALIDATING"}
                  THEN Gate(source, "UNAVAILABLE") ELSE source
      run == Len(runs) + 1
  IN /\ ~Replayed(key) /\ run <= MaxRuns
     /\ source.status = "ACTIVE"
     /\ source.gate \notin {"DEGRADED", "SUSPENDED"}
     /\ revisions[n].status \in {"DRAFT", "REJECTED"}
     /\ NoneHeld
     /\ LET queued == NewRun("VALIDATION", key, n, closed.gateRev, 0) IN
        runs' = Append(CancelPrelockedRuns(runs),
                  IF source.kind = "MANUAL"
                    THEN InOneCommand(queued, "VALIDATION_PROOF") ELSE queued)
     /\ revisions' = [CancelPrelockedRevisions(revisions) EXCEPT
          ![n] = [status |-> IF source.kind = "MANUAL" THEN "VALIDATED" ELSE "VALIDATING",
                  run |-> run]]
     /\ source' = [Gate(closed, "VALIDATING") EXCEPT !.validated = run]

\* The publication of a MANUAL revision opens the gate under its own proof.
PublicationOpensGate == source.kind = "MANUAL"

LineageKept(s, n) == [Gate(s, "UNAVAILABLE") EXCEPT !.published = n, !.success = 0]

\* A publication supersedes the earlier one and starts a new checkpoint
\* lineage behind a closed gate.
FreshLineage(s, n) ==
  [Gate(s, "UNAVAILABLE") EXCEPT !.published = n, !.checkpoint = 0, !.success = 0]

ProofUnderWay(n) == revisions[n].status \in {"VALIDATING", "VALIDATED"}

Proved(n) ==
  revisions[n].status = "VALIDATED" /\ runs[revisions[n].run].status = "SUCCEEDED"

Publish(n) ==
  /\ source.status = "ACTIVE"
  /\ NoneHeld
  /\ Proved(n)
  /\ source.gate = "VALIDATING" /\ source.validated = revisions[n].run
  /\ runs' = CancelPrelockedRuns(runs)
  /\ revisions' = [m \in DOMAIN revisions |->
       IF m = n THEN [revisions[m] EXCEPT !.status = "PUBLISHED"]
       ELSE IF revisions[m].status = "PUBLISHED"
       THEN [revisions[m] EXCEPT !.status = "SUPERSEDED"]
       ELSE CancelPrelockedRevisions(revisions)[m]]
  /\ source' = IF PublicationOpensGate
       THEN [Gate(FreshLineage(source, n), "AVAILABLE") EXCEPT !.validated = revisions[n].run]
       ELSE FreshLineage(source, n)

\* No code of the repository opens the gate of a source that is not MANUAL
\* after its publication; the schema says when it may be opened.
OpenGate ==
  /\ source.kind = "EXTERNAL" /\ source.status = "ACTIVE" /\ source.gate = "UNAVAILABLE"
  /\ source.published # 0
  /\ runs[revisions[source.published].run].gateRev + 2 = source.gateRev
  /\ source' = [Gate(source, "AVAILABLE") EXCEPT !.validated = revisions[source.published].run]
  /\ UNCHANGED <<revisions, runs>>

\* A validation that is under way blocks the command; a data run does not.
Disable ==
  /\ source.kind # None /\ source.status # "DISABLED" /\ source.gate # "DEGRADED"
  /\ \A r \in Open :
       \/ Cancellable(r)
       \/ runs[r].kind # "VALIDATION" /\ runs[r].status \in Leased
  /\ runs' = CancelPrelockedRuns(runs)
  /\ revisions' = CancelPrelockedRevisions(revisions)
  /\ source' = [Gate(source, "UNAVAILABLE") EXCEPT !.status = "DISABLED"]

RequestSync(key) ==
  /\ ~Replayed(key) /\ Len(runs) < MaxRuns
  /\ Open = {} /\ source.kind = "EXTERNAL"
  /\ source.status = "ACTIVE" /\ source.gate = "AVAILABLE" /\ source.published # 0
  /\ runs' = Append(runs, NewRun("DISCOVERY", key, source.published,
                                 source.gateRev, source.checkpoint))
  /\ UNCHANGED <<source, revisions>>

\* The published revision of a MANUAL source behind an open gate, proved by
\* the validation run of that revision.
EligibleManualSource ==
  /\ source.kind = "MANUAL" /\ source.status = "ACTIVE" /\ source.gate = "AVAILABLE"
  /\ source.published # 0 /\ source.validated = revisions[source.published].run

\* The run ends with its checkpoint and is the source's last success.
recordManualSuccess(r) == source' = [source EXCEPT !.checkpoint = @ + 1, !.success = r]

\* An asset entered by hand is a run of one page: queued, claimed, applied and
\* completed by the command.
CreateManualAsset(key) ==
  /\ ~Replayed(key) /\ Len(runs) < MaxRuns /\ EligibleManualSource
  /\ runs' = Append(runs,
       [InOneCommand(NewRun("MANUAL", key, source.published, source.gateRev,
                            source.checkpoint + 1), "DATA_PROJECTION") EXCEPT !.pages = 1])
  /\ recordManualSuccess(Len(runs) + 1)
  /\ UNCHANGED revisions

Govern ==
  \/ \E kind \in {"MANUAL", "EXTERNAL"} : CreateSource(kind)
  \/ \E key \in Keys : CreateManualAsset(key)
  \/ CreateRevision
  \/ \E key \in Keys : RequestSync(key)
  \/ \E key \in Keys, n \in DOMAIN revisions : RequestValidation(key, n)
  \/ \E n \in DOMAIN revisions : Publish(n)
  \/ OpenGate
  \/ Disable
=============================================================================
