----------------------------- MODULE SourceProofs -----------------------------
(***************************************************************************)
(* What commands, workers and lapses keep true of an asset source, for any *)
(* number of revisions, runs, pages and leases.                            *)
(*                                                                         *)
(* The argument rests on two facts the properties do not state: at most    *)
(* one run of the source is open, and an open validation is the one the    *)
(* gate waits for.  With them a step that moves the source while a run is  *)
(* held is a step of that run itself, and every row stays sound.           *)
(*                                                                         *)
(* The second half is about the workers over that queue: which sessions    *)
(* they leave at the provider and which pages they read, for any number of *)
(* processes that die or are overtaken between two steps.                  *)
(***************************************************************************)
EXTENDS DiscoveryWorker, TLAPS

\* What may be read back, or will be once the run has failed; with what the queue keeps to
\* itself: a rejected item was on a page, a revocation has its receipt, an attempt was opened.
SoundRun(run) ==
  /\ validRunWorkResult(run) /\ ValidStatus(run)
  /\ FailureCode(run) => run.status = "FAILED" \/ AboutToFail(run)
  /\ run.complete => FinalPage(run) /\ ~run.rejected /\ run.kind # "MANUAL"
  /\ run.kind = "VALIDATION" => zeroRunProjection(run)
  /\ run.pages = 0 => ~run.rejected
  /\ run.cleanup = "REVOKED" => run.receipt
  /\ run.cleanup = "NOT_OPENED" => run.attempt = 0
  /\ run.status \notin TerminalRun => run.kind # "MANUAL"

RunsAreSound ==
  \A r \in DOMAIN runs :
    /\ SoundRun(runs[r]) /\ runs[r].rev \in DOMAIN revisions
    /\ runs[r].cleanup = "NO_CREDENTIAL" <=> source.kind = "MANUAL"
    /\ runs[r].kind # "VALIDATION" => revisions[runs[r].rev].status \in {"PUBLISHED", "SUPERSEDED"}

\* A revision that is not a draft names its validation.
RevisionsAreSound ==
  \A n \in DOMAIN revisions :
    /\ validRevisionValidationClosure(revisions[n])
    /\ revisions[n].status # "DRAFT" =>
         /\ revisions[n].run \in DOMAIN runs
         /\ runs[revisions[n].run].kind = "VALIDATION" /\ runs[revisions[n].run].rev = n

\* No run is created behind one that is open.
OneIsOpen == \A r \in Open : r = Len(runs)

\* The gate waits for the validation that is open, or for the rollover.
ValidationIsAwaited ==
  \A r \in Open :
    /\ source.kind = "EXTERNAL"
    /\ runs[r].rollover => source.status = "ACTIVE" /\ source.gate = "DEGRADED"
    /\ runs[r].kind = "VALIDATION" =>
         /\ source.status = "ACTIVE" /\ source.gate = "VALIDATING" /\ source.validated = r
         /\ source.gateRev = runs[r].gateRev + 1
         /\ revisions[runs[r].rev].status = "VALIDATING" /\ revisions[runs[r].rev].run = r

\* What is published was proved.
PublishedIsProved ==
  source.published # 0 =>
    /\ source.published \in DOMAIN revisions /\ revisions[source.published].status = "PUBLISHED"
    /\ runs[revisions[source.published].run].status = "SUCCEEDED"

\* The row of the source.
SourceIsSound ==
  /\ source.kind = None <=> revisions = <<>>
  /\ revisions = <<>> => runs = <<>> /\ source.published = 0
  /\ source.gate \in {"AVAILABLE", "DEGRADED"} =>
       source.published # 0 /\ source.validated # 0 /\ source.gateRev > 0
  /\ source.published = 0 => source.checkpoint = 0
  /\ source.success # 0 =>
       /\ source.success \in DOMAIN runs /\ runs[source.success].kind # "VALIDATION"
       /\ runs[source.success].status = "SUCCEEDED" /\ runs[source.success].rev = source.published

SourceInv ==
  /\ SourceTypeOK /\ RunsAreSound /\ RevisionsAreSound /\ OneIsOpen /\ ValidationIsAwaited
  /\ PublishedIsProved /\ SourceIsSound /\ OnlyDisableDrifts /\ OneRunPerCommand /\ CheckpointIsApplied

-----------------------------------------------------------------------------
(* Rows. *)

(* The rows are typed. *)
LEMMA Rows ==
  ASSUME SourceTypeOK
  PROVE  /\ Len(runs) \in Nat /\ DOMAIN runs = 1..Len(runs) /\ Len(revisions) \in Nat
         /\ DOMAIN revisions = 1..Len(revisions)
         /\ \A r \in DOMAIN runs : runs[r] \in Run /\ r \in Nat \ {0}
         /\ \A n \in DOMAIN revisions : revisions[n] \in Revision /\ n \in Nat \ {0}
         /\ source \in Source /\ None \notin Keys
         /\ MaxRuns \in Nat /\ MaxRevisions \in Nat /\ MaxPages \in Nat /\ MaxEpoch \in Nat
         /\ MaxRuns > 0 /\ MaxRevisions > 0 /\ MaxPages > 0 /\ MaxEpoch > 0
BY SourceConstants DEF SourceTypeOK

(* A row of a run replaced by another: the runs are as before but for that one. *)
LEMMA PutRow ==
  ASSUME SourceTypeOK, NEW r \in DOMAIN runs, NEW row \in Run, Put(r, row)
  PROVE  /\ runs' \in Seq(Run) /\ Len(runs') = Len(runs) /\ DOMAIN runs' = DOMAIN runs
         /\ runs'[r] = row /\ \A s \in DOMAIN runs : s # r => runs'[s] = runs[s]
<1>1. runs \in Seq(Run) /\ runs' = [runs EXCEPT ![r] = row]
  BY DEF SourceTypeOK, Put
<1> QED  BY <1>1

\* The row keeps what identifies it and what it is admitted by.
SameRun(row, run) ==
  /\ row.kind = run.kind /\ row.key = run.key /\ row.rev = run.rev /\ row.gateRev = run.gateRev
  /\ row.checkpoint = run.checkpoint /\ row.rollover = run.rollover /\ row.pages = run.pages

(* The checkpoint stays applied when neither it nor what was read under its revision moves. *)
LEMMA CheckpointKept ==
  ASSUME SourceInv, DOMAIN runs \subseteq DOMAIN runs',
         \A s \in DOMAIN runs : /\ runs'[s].kind = runs[s].kind /\ runs'[s].rev = runs[s].rev
                               /\ runs'[s].checkpoint = runs[s].checkpoint /\ runs'[s].pages = runs[s].pages,
         \A s \in DOMAIN runs' \ DOMAIN runs : runs'[s].kind = "VALIDATION",
         source'.published = source.published, source'.checkpoint = source.checkpoint
  PROVE  CheckpointIsApplied'
<1>1. DataRuns' = DataRuns /\ DataRuns \subseteq DOMAIN runs
  BY DEF DataRuns
<1>2. \A r, q \in DataRuns : Follows(r, q)' <=> Follows(r, q)
  BY <1>1 DEF Follows
<1> QED  BY <1>1, <1>2 DEF SourceInv, CheckpointIsApplied

(* The last run reads on, and the source with it. *)
LEMMA CheckpointMoves ==
  ASSUME SourceInv, NEW r \in DataRuns, r = Len(runs), DOMAIN runs' = DOMAIN runs,
         \A s \in DOMAIN runs : s # r => runs'[s] = runs[s],
         runs'[r].kind = runs[r].kind, runs'[r].rev = runs[r].rev,
         NEW d \in Nat, runs'[r].checkpoint = runs[r].checkpoint + d, runs'[r].pages = runs[r].pages + d,
         source'.published = source.published, source'.checkpoint = runs'[r].checkpoint
  PROVE  CheckpointIsApplied'
<1>1. DataRuns' = DataRuns /\ DataRuns \subseteq DOMAIN runs
  BY DEF DataRuns
<1>2. /\ \A s, q \in DataRuns : Follows(s, q)' <=> Follows(s, q)
      /\ \A s \in DataRuns : Follows(s, r) => FALSE
      /\ \A s \in DataRuns : s \in Nat /\ s <= r
      /\ \A s \in DataRuns : runs[s].checkpoint \in Nat /\ runs[s].pages \in Nat
  <2>1. \A s \in DataRuns : s \in Nat /\ s <= r
    BY <1>1, Rows DEF SourceInv
  <2>2. \A s \in DataRuns : runs[s].checkpoint \in Nat /\ runs[s].pages \in Nat
    <3>1. \A s \in DOMAIN runs : runs[s] \in Run
      BY Rows DEF SourceInv
    <3> QED  BY <1>1, <3>1, SourceConstants DEF Run
  <2> QED  BY <1>1, <2>1, <2>2 DEF Follows
<1> SUFFICES ASSUME source.published # 0, NEW s \in DataRuns
             PROVE  /\ (\A q \in DataRuns : s <= q) => runs'[s].checkpoint = runs'[s].pages
                    /\ \A q \in DataRuns :
                         Follows(s, q) => runs'[s].checkpoint = runs'[q].checkpoint + runs'[s].pages
                    /\ (\A q \in DataRuns : q <= s) => source'.checkpoint = runs'[s].checkpoint
  BY <1>1, <1>2 DEF CheckpointIsApplied
<1>3. /\ (\A q \in DataRuns : s <= q) => runs[s].checkpoint = runs[s].pages
      /\ \A q \in DataRuns :
           Follows(s, q) => runs[s].checkpoint = runs[q].checkpoint + runs[s].pages
  BY DEF SourceInv, CheckpointIsApplied
<1>4. (\A q \in DataRuns : s <= q) => runs'[s].checkpoint = runs'[s].pages
  BY <1>1, <1>3
<1>5. ASSUME NEW q \in DataRuns, Follows(s, q) PROVE runs'[s].checkpoint = runs'[q].checkpoint + runs'[s].pages
  <2>1. q # r /\ runs'[q] = runs[q]
    BY <1>1, <1>2, <1>5
  <2>2. runs[s].checkpoint = runs[q].checkpoint + runs[s].pages
    BY <1>3, <1>5
  <2>3. CASE s = r
    <3>1. PICK c, p, b : c = runs[r].checkpoint /\ p = runs[r].pages /\ b = runs[q].checkpoint
      OBVIOUS
    <3>2. c \in Nat /\ p \in Nat /\ b \in Nat /\ c = b + p
      BY <1>2, <2>2, <2>3, <3>1
    <3>3. c + d = b + (p + d)
      BY <3>2
    <3> QED  BY <2>1, <2>3, <3>1, <3>3
  <2>4. CASE s # r
    BY <1>1, <2>1, <2>2, <2>4
  <2> QED  BY <2>3, <2>4
<1>6. (\A q \in DataRuns : q <= s) => source'.checkpoint = runs'[s].checkpoint
  <2> SUFFICES ASSUME \A q \in DataRuns : q <= s PROVE source'.checkpoint = runs'[s].checkpoint
    OBVIOUS
  <2>1. s = r
    BY <1>2
  <2> QED  BY <2>1
<1> QED  BY <1>4, <1>5, <1>6

(* A run is created that begins where the source is. *)
LEMMA CheckpointOfNewRun ==
  ASSUME SourceInv, NEW r, r = Len(runs) + 1, r \in DOMAIN runs', DOMAIN runs' = DOMAIN runs \cup {r},
         \A s \in DOMAIN runs : runs'[s] = runs[s],
         runs'[r].kind # "VALIDATION", runs'[r].rev = source.published,
         runs'[r].checkpoint = source.checkpoint + runs'[r].pages,
         source'.published = source.published, source'.checkpoint = runs'[r].checkpoint,
         runs'[r].pages \in Nat, source.checkpoint \in Nat
  PROVE  CheckpointIsApplied'
<1>1. DataRuns' = DataRuns \cup {r} /\ DataRuns \subseteq DOMAIN runs /\ r \notin DataRuns
  BY Rows DEF DataRuns, SourceInv
<1>2. /\ \A s \in DataRuns : s \in Nat /\ s < r
      /\ r \in Nat
  BY <1>1, Rows DEF SourceInv
<1>3. \A s, q \in DataRuns : Follows(s, q)' => Follows(s, q)
  BY <1>1 DEF Follows
<1> SUFFICES ASSUME source.published # 0, NEW s \in DataRuns \cup {r}
             PROVE  /\ (\A q \in DataRuns' : s <= q) => runs'[s].checkpoint = runs'[s].pages
                    /\ \A q \in DataRuns' :
                         Follows(s, q)' => runs'[s].checkpoint = runs'[q].checkpoint + runs'[s].pages
                    /\ (\A q \in DataRuns' : q <= s) => source'.checkpoint = runs'[s].checkpoint
  BY <1>1 DEF CheckpointIsApplied
<1>4. /\ DataRuns = {} => source.checkpoint = 0
      /\ \A q \in DataRuns : (\A p \in DataRuns : p <= q) => source.checkpoint = runs[q].checkpoint
  BY DEF SourceInv, CheckpointIsApplied
<1>5. CASE s \in DataRuns
  <2>1. /\ (\A q \in DataRuns : s <= q) => runs[s].checkpoint = runs[s].pages
        /\ \A q \in DataRuns :
             Follows(s, q) => runs[s].checkpoint = runs[q].checkpoint + runs[s].pages
    BY <1>5 DEF SourceInv, CheckpointIsApplied
  <2>2. Follows(s, r)' => FALSE
    BY <1>2, <1>5 DEF Follows
  <2>3. ~(r <= s)
    BY <1>2, <1>5
  <2>4. (\A q \in DataRuns' : s <= q) => runs'[s].checkpoint = runs'[s].pages
    BY <1>1, <1>5, <2>1
  <2>5. \A q \in DataRuns' : Follows(s, q)' => runs'[s].checkpoint = runs'[q].checkpoint + runs'[s].pages
    BY <1>1, <1>3, <1>5, <2>1, <2>2
  <2>6. (\A q \in DataRuns' : q <= s) => FALSE
    BY <1>1, <2>3
  <2> QED  BY <2>4, <2>5, <2>6
<1>6. CASE s = r
  <2>1. (\A q \in DataRuns' : s <= q) => runs'[s].checkpoint = runs'[s].pages
    <3> SUFFICES ASSUME \A q \in DataRuns' : s <= q PROVE runs'[s].checkpoint = runs'[s].pages
      OBVIOUS
    <3>1. \A q \in DataRuns : FALSE
      BY <1>1, <1>2, <1>6
    <3>2. source.checkpoint = 0
      BY <1>4, <3>1
    <3> QED  BY <1>6, <3>2
  <2>2. ASSUME NEW q \in DataRuns', Follows(s, q)'
        PROVE  runs'[s].checkpoint = runs'[q].checkpoint + runs'[s].pages
    <3>1. q \in DataRuns /\ \A p \in DataRuns : p <= q
      BY <1>1, <1>2, <1>6, <2>2 DEF Follows
    <3>2. source.checkpoint = runs[q].checkpoint /\ runs'[q] = runs[q]
      BY <1>1, <1>4, <3>1
    <3> QED  BY <1>6, <3>2
  <2> QED  BY <1>6, <2>1, <2>2
<1> QED  BY <1>5, <1>6

(* The statuses. *)
LEMMA StatusNames ==
  /\ \A s \in Leased \cup {"QUEUED", "DELAYED"} : s \notin TerminalRun
  /\ \A s \in RunStatuses : s \in {"QUEUED", "DELAYED", "RUNNING", "FINALIZING"} \cup TerminalRun
  /\ "RUNNING" \in Leased /\ "FINALIZING" \in Leased /\ "QUEUED" \notin Leased /\ "DELAYED" \notin Leased
BY DEF Leased, TerminalRun, RunStatuses

\* No run that is held ends in this step.
HeldRunsGoOn ==
  \A r \in DOMAIN runs : runs[r].status \in Leased => runs'[r].status \notin TerminalRun

(* A step that changes an open run alone, and leaves it open, keeps the invariant if the row
   is sound and no run is held that is not admitted. *)
LEMMA OpenRunMoves ==
  ASSUME SourceInv, NEW r \in DOMAIN runs, runs[r].status \notin TerminalRun,
         NEW row \in Run, PutRun(r, row), SameRun(row, runs[r]), SoundRun(row),
         row.status \notin TerminalRun, row.cleanup # "NO_CREDENTIAL",
         row.status \in Leased /\ source.status = "ACTIVE" => Admitted(r)
  PROVE  SourceInv' /\ HeldRunsGoOn
<1> USE DEF SourceInv
<1>1. /\ UNCHANGED <<source, revisions>>
      /\ runs' \in Seq(Run) /\ Len(runs') = Len(runs) /\ DOMAIN runs' = DOMAIN runs
      /\ runs'[r] = row /\ \A s \in DOMAIN runs : s # r => runs'[s] = runs[s]
  BY PutRow DEF PutRun
<1>2. \A s \in DOMAIN runs : /\ runs'[s].kind = runs[s].kind /\ runs'[s].key = runs[s].key
                             /\ runs'[s].rev = runs[s].rev /\ runs'[s].gateRev = runs[s].gateRev
                             /\ runs'[s].checkpoint = runs[s].checkpoint
                             /\ runs'[s].rollover = runs[s].rollover /\ runs'[s].pages = runs[s].pages
                             /\ runs'[s].status \in TerminalRun => runs'[s] = runs[s]
                             /\ runs[s].status \in TerminalRun => runs'[s] = runs[s]
  BY <1>1 DEF SameRun
<1>3. Open' = Open /\ r \in Open
  BY <1>1, <1>2 DEF Open
<1>4. SourceTypeOK'
  BY <1>1 DEF SourceTypeOK
<1>5. RunsAreSound'
  <2>1. source.kind # "MANUAL"
    BY <1>3 DEF ValidationIsAwaited
  <2> QED  BY <1>1, <1>2, <2>1 DEF RunsAreSound
<1>6. RevisionsAreSound' /\ OneIsOpen' /\ OneRunPerCommand'
  BY <1>1, <1>2, <1>3 DEF RevisionsAreSound, OneIsOpen, OneRunPerCommand
<1>7. ValidationIsAwaited'
  <2>1. Open \subseteq DOMAIN runs
    BY DEF Open
  <2> QED  BY <1>1, <1>2, <1>3, <2>1 DEF ValidationIsAwaited
<1>8. PublishedIsProved'
  <2>1. source.published # 0 => revisions[source.published].run \in DOMAIN runs
    BY DEF PublishedIsProved, RevisionsAreSound
  <2>2. \A s \in DOMAIN runs : runs[s].status = "SUCCEEDED" => runs'[s].status = "SUCCEEDED"
    BY <1>2 DEF TerminalRun
  <2> QED  BY <1>1, <2>1, <2>2 DEF PublishedIsProved
<1>9. SourceIsSound'
  <2>1. \A s \in DOMAIN runs : runs[s].status = "SUCCEEDED" => runs'[s].status = "SUCCEEDED"
    BY <1>2 DEF TerminalRun
  <2>2. runs = <<>> => runs' = <<>>
    BY <1>1, Rows
  <2> QED  BY <1>1, <1>2, <2>1, <2>2 DEF SourceIsSound
<1>10. OnlyDisableDrifts'
  <2> SUFFICES ASSUME NEW s \in DOMAIN runs, runs'[s].status \in Leased, source.status = "ACTIVE"
               PROVE  Admitted(s)'
    BY <1>1 DEF OnlyDisableDrifts
  <2>1. Admitted(s)
    BY <1>1 DEF OnlyDisableDrifts
  <2> QED  BY <1>1, <1>2, <2>1 DEF Admitted
<1>11. CheckpointIsApplied'
  BY <1>1, <1>2, CheckpointKept
<1>12. HeldRunsGoOn
  BY <1>1, StatusNames DEF HeldRunsGoOn
<1> QED  BY <1>4, <1>5, <1>6, <1>7, <1>8, <1>9, <1>10, <1>11, <1>12

-----------------------------------------------------------------------------
(* The steps of a worker that leave its run open. *)

(* The operators that say what a row is, together. *)
LEMMA OpenRow ==
  ASSUME SourceInv, NEW r \in DOMAIN runs, runs[r].status \notin TerminalRun
  PROVE  /\ runs[r] \in Run /\ SoundRun(runs[r]) /\ runs[r].kind \in {"VALIDATION", "DISCOVERY"}
         /\ runs[r].cleanup # "NO_CREDENTIAL"
         /\ runs[r].status \in Leased /\ source.status = "ACTIVE" => Admitted(r)
<1>1. runs[r] \in Run /\ SoundRun(runs[r]) /\ (runs[r].cleanup = "NO_CREDENTIAL" <=> source.kind = "MANUAL")
  BY Rows DEF SourceInv, RunsAreSound
<1>2. source.kind = "EXTERNAL"
  BY DEF SourceInv, ValidationIsAwaited, Open
<1>3. runs[r].kind \in {"VALIDATION", "DISCOVERY"}
  BY <1>1 DEF SoundRun, Run
<1> QED  BY <1>1, <1>2, <1>3 DEF SourceInv, OnlyDisableDrifts

(* What a sound row of each open status says. *)
LEMMA SoundOpen ==
  ASSUME NEW run \in Run, SoundRun(run)
  PROVE  /\ run.status = "QUEUED" =>
              /\ run.stage = "WAITING" /\ run.epoch = 0 /\ run.work = None /\ run.verdict = None
              /\ run.cleanup = "NOT_OPENED" /\ run.pages = 0 /\ ~run.rejected /\ ~run.complete
         /\ run.status = "DELAYED" =>
              /\ run.stage = "DELAYED" /\ run.epoch > 0 /\ run.work = None /\ run.verdict = None
              /\ run.cleanup \in {"REVOKED", "NO_CREDENTIAL", "NOT_OPENED"} /\ ~run.complete
         /\ run.status = "RUNNING" =>
              /\ run.epoch > 0 /\ run.work = None /\ run.verdict = None /\ ~run.complete
              /\ run.stage \in {"CLEANING_UP", "VALIDATING", "READING", "NORMALIZING", "APPLYING"}
              /\ run.stage = "VALIDATING" => run.kind = "VALIDATION"
              /\ run.stage \in {"READING", "NORMALIZING", "APPLYING"} => run.kind # "VALIDATION"
              /\ run.stage = "CLEANING_UP" \/ run.cleanup \in {"NOT_OPENED", "PENDING"}
         /\ run.status = "FINALIZING" =>
              run.stage = "CLEANING_UP" /\ run.epoch > 0 /\ run.work # None
         /\ run.kind = "VALIDATION" => run.pages = 0 /\ ~run.rejected /\ ~run.complete /\ run.checkpoint = 0
                                       /\ run.work # "DATA_PROJECTION"
<1>1. None # "DATA_PROJECTION" /\ None # "VALIDATION_PROOF" /\ None # "FAILURE_INTENT"
  BY NoneIsNoWork DEF WorkKinds
<1> QED
  BY <1>1 DEF SoundRun, ValidStatus, validRunWorkResult, closedCleanup, zeroCommittedRunProgress, zeroRunProjection,
              FinalPage, AboutToFail

(* The failure intent of a running run is a sound row of the same run. *)
LEMMA FailureIntentSound ==
  ASSUME NEW run \in Run, SoundRun(run), run.status = "RUNNING"
  PROVE  /\ FailureIntent(run) \in Run /\ SameRun(FailureIntent(run), run)
         /\ FailureIntent(run).status = "FINALIZING" /\ FailureIntent(run).cleanup = run.cleanup
         /\ FailureIntent(run).receipt = run.receipt /\ FailureIntent(run).attempt = run.attempt
         /\ SoundRun(FailureIntent(run))
<1>1. /\ FailureIntent(run) \in Run /\ SameRun(FailureIntent(run), run)
      /\ FailureIntent(run).status = "FINALIZING" /\ FailureIntent(run).cleanup = run.cleanup
      /\ FailureIntent(run).stage = "CLEANING_UP" /\ FailureIntent(run).work = "FAILURE_INTENT"
      /\ FailureIntent(run).verdict = "FAILED" /\ FailureIntent(run).epoch = run.epoch
      /\ FailureIntent(run).pages = run.pages /\ FailureIntent(run).rejected = run.rejected
      /\ FailureIntent(run).complete = run.complete /\ FailureIntent(run).attempt = run.attempt
      /\ FailureIntent(run).receipt = run.receipt
  BY DEF FailureIntent, Run, SameRun, RunStatuses, Leased, Stages, WorkKinds
<1>2. ~run.complete /\ run.epoch > 0 /\ run.kind # "MANUAL"
  BY SoundOpen DEF SoundRun, TerminalRun
<1>3. SoundRun(FailureIntent(run))
  BY <1>1, <1>2, NoneIsNoWork
  DEF SoundRun, ValidStatus, validRunWorkResult, zeroCommittedRunProgress, zeroRunProjection, FinalPage,
      AboutToFail, FailureCode, SameRun, WorkKinds
<1> QED  BY <1>1, <1>3

\* Two rows that say the same, but for the lease they are held under.
SameButLease(row, run) ==
  /\ SameRun(row, run) /\ row.status = run.status /\ row.stage = run.stage /\ row.work = run.work
  /\ row.verdict = run.verdict /\ row.pages = run.pages /\ row.rejected = run.rejected
  /\ row.complete = run.complete /\ row.cleanup = run.cleanup /\ row.attempt = run.attempt
  /\ row.receipt = run.receipt /\ row.pending = run.pending

(* A row with the lease of another holder. *)
LEMMA LeasedRow ==
  ASSUME NEW run \in Run, run.epoch < MaxEpoch, MaxEpoch \in Nat
  PROVE  /\ NextLease(run) \in Run /\ SameButLease(NextLease(run), run)
         /\ NextLease(run).epoch = run.epoch + 1 /\ NextLease(run).epoch > 0
<1>1. run.epoch + 1 \in 0..MaxEpoch /\ run.epoch + 1 > 0
  BY DEF Run
<1>2. NextLease(run) = [run EXCEPT !.epoch = run.epoch + 1, !.live = TRUE]
  BY DEF NextLease, Run
<1>3. NextLease(run) \in Run /\ NextLease(run).epoch = run.epoch + 1
  BY <1>1, <1>2 DEF Run
<1>4. SameButLease(NextLease(run), run)
  BY <1>2 DEF Run, SameButLease, SameRun
<1> QED  BY <1>1, <1>3, <1>4

(* A row that was leased before and says the same under another lease is sound. *)
LEMMA SoundButLease ==
  ASSUME NEW run \in Run, NEW row \in Run, SoundRun(run), SameButLease(row, run),
         row.epoch > 0, run.epoch > 0
  PROVE  SoundRun(row)
<1>1. validRunWorkResult(row)
  BY DEF SoundRun, validRunWorkResult, SameButLease, SameRun
<1>2. zeroCommittedRunProgress(row) <=> zeroCommittedRunProgress(run)
  BY DEF zeroCommittedRunProgress, FinalPage, SameButLease
<1>3. ValidStatus(row)
  <2>1. ValidStatus(run) /\ run.status \in RunStatuses
    BY DEF SoundRun, Run
  <2>2. /\ row.status = run.status /\ row.stage = run.stage /\ row.work = run.work /\ row.kind = run.kind
        /\ row.verdict = run.verdict /\ row.cleanup = run.cleanup /\ row.epoch \in Nat /\ run.epoch \in Nat
    BY DEF SameButLease, SameRun, Run
  <2>3. CASE run.status = "QUEUED"
    BY <1>2, <2>1, <2>2, <2>3 DEF ValidStatus, closedCleanup, validTerminalRun
  <2>4. CASE run.status = "DELAYED"
    BY <1>2, <2>1, <2>2, <2>4 DEF ValidStatus, closedCleanup, validTerminalRun
  <2>5. CASE run.status = "RUNNING"
    BY <1>2, <2>1, <2>2, <2>5 DEF ValidStatus, closedCleanup, validTerminalRun
  <2>6. CASE run.status = "FINALIZING"
    BY <1>2, <2>1, <2>2, <2>6 DEF ValidStatus, closedCleanup, validTerminalRun
  <2>7. CASE run.status = "SUCCEEDED"
    BY <1>2, <2>1, <2>2, <2>7 DEF ValidStatus, closedCleanup, validTerminalRun
  <2>8. CASE run.status = "PARTIAL"
    BY <1>2, <2>1, <2>2, <2>8 DEF ValidStatus, closedCleanup, validTerminalRun
  <2>9. CASE run.status = "FAILED"
    BY <1>2, <2>1, <2>2, <2>9 DEF ValidStatus, closedCleanup, validTerminalRun
  <2>10. CASE run.status = "CANCELLED"
    BY <1>2, <2>1, <2>2, <2>10 DEF ValidStatus, closedCleanup, validTerminalRun
  <2> QED  BY <2>1, <2>3, <2>4, <2>5, <2>6, <2>7, <2>8, <2>9, <2>10 DEF RunStatuses, Leased, TerminalRun
<1>4. zeroRunProjection(row) <=> zeroRunProjection(run)
  BY <1>2 DEF zeroRunProjection, SameButLease, SameRun
<1> QED  BY <1>1, <1>3, <1>4 DEF SoundRun, FinalPage, AboutToFail, FailureCode, SameButLease, SameRun

(* The row of a running run is sound when its stage fits what the run does. *)
LEMMA SoundRunning ==
  ASSUME NEW run \in Run, SoundRun(run), NEW row \in Run, SameRun(row, run),
         run.status \in {"QUEUED", "DELAYED", "RUNNING"},
         row.status = "RUNNING", row.epoch > 0, row.work = run.work, row.verdict = run.verdict,
         row.pages = run.pages, row.rejected = run.rejected, row.complete = run.complete,
         row.cleanup = "REVOKED" => row.receipt, row.cleanup = "NOT_OPENED" => row.attempt = 0,
         row.stage = "CLEANING_UP" \/ row.cleanup \in {"NOT_OPENED", "PENDING"},
         row.stage \in {"CLEANING_UP"} \cup (IF run.kind = "VALIDATION" THEN {"VALIDATING"}
                                             ELSE {"READING", "NORMALIZING", "APPLYING"})
  PROVE  SoundRun(row)
<1>1. run.work = None /\ run.verdict = None /\ ~run.complete /\ run.kind # "MANUAL"
  BY SoundOpen DEF SoundRun, TerminalRun
<1>2. run.kind = "VALIDATION" => zeroRunProjection(run)
  BY DEF SoundRun
<1>3. run.pages = 0 => ~run.rejected
  BY DEF SoundRun
<1>4. validRunWorkResult(row) /\ ValidStatus(row) /\ ~FailureCode(row) /\ ~row.complete
  BY <1>1, NoneIsNoWork DEF validRunWorkResult, ValidStatus, FailureCode, SameRun, WorkKinds
<1>5. row.kind = "VALIDATION" => zeroRunProjection(row)
  BY <1>2, <1>4 DEF zeroRunProjection, zeroCommittedRunProgress, FinalPage, SameRun
<1> QED  BY <1>1, <1>3, <1>4, <1>5 DEF SoundRun, SameRun

(* A lease is given, taken over or lost. *)
LEMMA LeaseSteps ==
  ASSUME SourceInv, NEW r \in DOMAIN runs, Lease(r) \/ LeaseLapses(r) \/ DelayPasses(r)
  PROVE  SourceInv' /\ HeldRunsGoOn
<1> DEFINE run == runs[r]
<1> USE StatusNames
<1>0. runs[r].status \notin TerminalRun
  <2>1. runs[r].status \in Leased \cup {"QUEUED", "DELAYED"}
    BY DEF Lease, Claim, Claimable, Reclaim, ReclaimFinalizing, ReapDrifted, LeaseLapses, DelayPasses, Leased
  <2> QED  BY <2>1
<1>1. /\ run \in Run /\ SoundRun(run) /\ run.kind \in {"VALIDATION", "DISCOVERY"} /\ run.cleanup # "NO_CREDENTIAL"
      /\ run.status \in Leased /\ source.status = "ACTIVE" => Admitted(r)
  BY <1>0, OpenRow
<1>2. MaxEpoch \in Nat
  BY Rows DEF SourceInv
<1>3. CASE Claim(r)
  <2>1. PICK next : next = NextLease(run)
    OBVIOUS
  <2>2. PICK stage : stage = IF run.kind = "VALIDATION" THEN "VALIDATING" ELSE "READING"
    OBVIOUS
  <2>3. PICK row : row = [next EXCEPT !.status = "RUNNING", !.cleanup = "NOT_OPENED", !.attempt = 0,
                                      !.receipt = FALSE, !.stage = stage]
    OBVIOUS
  <2>4. run.status \in {"QUEUED", "DELAYED"} /\ Admitted(r) /\ run.epoch < MaxEpoch /\ PutRun(r, row)
    BY <1>3, <2>1, <2>2, <2>3 DEF Claim, Claimable
  <2>5. next \in Run /\ SameButLease(next, run) /\ next.epoch > 0
    BY <1>1, <1>2, <2>1, <2>4, LeasedRow
  <2>6. row \in Run
    <3>1. stage \in Stages /\ "RUNNING" \in RunStatuses /\ 0 \in 0..MaxEpoch
      BY <1>2, <2>2 DEF RunStatuses, Stages, Leased
    <3> QED  BY <2>3, <2>5, <3>1 DEF Run
  <2>7. /\ row.status = "RUNNING" /\ row.cleanup = "NOT_OPENED" /\ row.attempt = 0 /\ row.stage = stage
        /\ row.epoch = next.epoch /\ row.work = next.work /\ row.verdict = next.verdict /\ row.pages = next.pages
        /\ row.rejected = next.rejected /\ row.complete = next.complete /\ SameRun(row, next)
    BY <2>3, <2>5 DEF Run, SameRun
  <2> HIDE DEF run
  <2>8. SameRun(row, run)
    BY <2>5, <2>7 DEF SameRun, SameButLease
  <2>9. SoundRun(row)
    <3>1. row.stage \in {"CLEANING_UP"} \cup (IF run.kind = "VALIDATION" THEN {"VALIDATING"}
                                              ELSE {"READING", "NORMALIZING", "APPLYING"})
      BY <2>2, <2>7
    <3>2. /\ row.epoch > 0 /\ row.work = run.work /\ row.verdict = run.verdict
          /\ row.pages = run.pages /\ row.rejected = run.rejected /\ row.complete = run.complete
      BY <2>5, <2>7 DEF SameButLease
    <3> QED  BY <1>1, <2>4, <2>6, <2>7, <2>8, <3>1, <3>2, SoundRunning
  <2> USE DEF run
  <2> QED  BY <1>0, <2>4, <2>6, <2>7, <2>8, <2>9, OpenRunMoves
<1>4. CASE Reclaim(r)
  <2>1. PICK next : next = NextLease(run)
    OBVIOUS
  <2>2. PICK stage, pending : /\ stage = (IF run.cleanup = "NOT_OPENED" THEN next.stage ELSE "CLEANING_UP")
                              /\ pending = (next.pending \/ run.cleanup = "PENDING")
    OBVIOUS
  <2>3. PICK row : row = [next EXCEPT !.stage = stage, !.pending = pending]
    OBVIOUS
  <2>4. run.status = "RUNNING" /\ Admitted(r) /\ run.epoch < MaxEpoch
    BY <1>4 DEF Reclaim
  <2>5. next \in Run /\ SameButLease(next, run) /\ next.epoch > 0
    BY <1>1, <1>2, <2>1, <2>4, LeasedRow
  <2>6. PutRun(r, row)
    <3>1. [next EXCEPT !.stage = IF run.cleanup = "NOT_OPENED" THEN @ ELSE "CLEANING_UP",
                       !.pending = @ \/ run.cleanup = "PENDING"] = row
      BY <2>2, <2>3, <2>5 DEF Run
    <3> QED  BY <1>4, <2>1, <3>1 DEF Reclaim
  <2>7. row \in Run
    <3>1. stage \in Stages /\ pending \in BOOLEAN
      BY <2>2, <2>5 DEF Run, Stages
    <3> QED  BY <2>3, <2>5, <3>1 DEF Run
  <2>8. /\ row.status = next.status /\ row.cleanup = next.cleanup /\ row.attempt = next.attempt /\ row.stage = stage
        /\ row.epoch = next.epoch /\ row.work = next.work /\ row.verdict = next.verdict /\ row.pages = next.pages
        /\ row.rejected = next.rejected /\ row.complete = next.complete /\ SameRun(row, next)
        /\ row.receipt = next.receipt
    BY <2>3, <2>5 DEF Run, SameRun
  <2> HIDE DEF run
  <2>9. SameRun(row, run)
    BY <2>5, <2>8 DEF SameRun, SameButLease
  <2>10. SoundRun(row)
    <3>1. /\ run.stage \in {"CLEANING_UP"} \cup (IF run.kind = "VALIDATION" THEN {"VALIDATING"}
                                                 ELSE {"READING", "NORMALIZING", "APPLYING"})
          /\ run.stage = "CLEANING_UP" \/ run.cleanup \in {"NOT_OPENED", "PENDING"}
          /\ run.cleanup = "REVOKED" => run.receipt
          /\ run.cleanup = "NOT_OPENED" => run.attempt = 0
      BY <1>1, <2>4 DEF SoundRun, ValidStatus
    <3>2. row.stage = (IF run.cleanup = "NOT_OPENED" THEN run.stage ELSE "CLEANING_UP") /\ row.cleanup = run.cleanup
      BY <2>2, <2>5, <2>8 DEF SameButLease
    <3>3. /\ row.epoch > 0 /\ row.work = run.work /\ row.verdict = run.verdict /\ row.attempt = run.attempt
          /\ row.pages = run.pages /\ row.rejected = run.rejected /\ row.complete = run.complete
          /\ row.receipt = run.receipt /\ row.status = "RUNNING"
      BY <2>4, <2>5, <2>8 DEF SameButLease
    <3>4. row.stage \in {"CLEANING_UP"} \cup (IF run.kind = "VALIDATION" THEN {"VALIDATING"}
                                              ELSE {"READING", "NORMALIZING", "APPLYING"})
      BY <3>1, <3>2
    <3>5. row.stage = "CLEANING_UP" \/ row.cleanup \in {"NOT_OPENED", "PENDING"}
      BY <3>1, <3>2
    <3>6. (row.cleanup = "REVOKED" => row.receipt) /\ (row.cleanup = "NOT_OPENED" => row.attempt = 0)
      BY <3>1, <3>2, <3>3
    <3> QED  BY <1>1, <2>4, <2>7, <2>9, <3>3, <3>4, <3>5, <3>6, SoundRunning
  <2>11. row.status = "RUNNING" /\ row.cleanup # "NO_CREDENTIAL"
    BY <1>1, <2>4, <2>5, <2>8 DEF SameButLease
  <2> USE DEF run
  <2> QED  BY <1>0, <2>4, <2>6, <2>7, <2>9, <2>10, <2>11, OpenRunMoves
<1>5. CASE ReclaimFinalizing(r)
  <2>1. PICK row : row = NextLease(run)
    OBVIOUS
  <2>2. run.status = "FINALIZING" /\ run.epoch < MaxEpoch /\ PutRun(r, row)
    BY <1>5, <2>1 DEF ReclaimFinalizing
  <2>3. row \in Run /\ SameButLease(row, run) /\ row.epoch > 0
    BY <1>1, <1>2, <2>1, <2>2, LeasedRow
  <2>4. run.epoch > 0
    BY <1>1, <2>2, SoundOpen
  <2>5. SoundRun(row)
    BY <1>1, <2>3, <2>4, SoundButLease
  <2>6. SameRun(row, run) /\ row.status = run.status /\ row.cleanup = run.cleanup
    BY <2>3 DEF SameButLease
  <2> QED  BY <1>0, <1>1, <2>2, <2>3, <2>5, <2>6, OpenRunMoves
<1>6. CASE ReapDrifted(r)
  <2>1. PICK next : next = NextLease(run)
    OBVIOUS
  <2>2. PICK leased : leased = [next EXCEPT !.stage = "CLEANING_UP"]
    OBVIOUS
  <2>3. PICK row : row = IF run.pending THEN leased ELSE FailureIntent(leased)
    OBVIOUS
  <2>4. run.status = "RUNNING" /\ run.epoch < MaxEpoch /\ PutRun(r, row)
    BY <1>6, <2>1, <2>2, <2>3 DEF ReapDrifted
  <2>5. next \in Run /\ SameButLease(next, run) /\ next.epoch > 0
    BY <1>1, <1>2, <2>1, <2>4, LeasedRow
  <2>6. /\ leased \in Run /\ leased.status = next.status /\ leased.cleanup = next.cleanup
        /\ leased.attempt = next.attempt /\ leased.stage = "CLEANING_UP"
        /\ leased.epoch = next.epoch /\ leased.work = next.work /\ leased.verdict = next.verdict
        /\ leased.pages = next.pages /\ leased.rejected = next.rejected /\ leased.complete = next.complete
        /\ SameRun(leased, next) /\ leased.receipt = next.receipt
    BY <2>2, <2>5 DEF Run, SameRun, Stages
  <2> HIDE DEF run
  <2>7. /\ SameRun(leased, run) /\ leased.status = "RUNNING" /\ leased.cleanup = run.cleanup
        /\ leased.attempt = run.attempt /\ leased.work = run.work /\ leased.verdict = run.verdict
        /\ leased.pages = run.pages /\ leased.rejected = run.rejected /\ leased.complete = run.complete
        /\ leased.receipt = run.receipt
    BY <2>4, <2>5, <2>6 DEF SameRun, SameButLease
  <2>8. SoundRun(leased)
    <3>1. (run.cleanup = "REVOKED" => run.receipt) /\ (run.cleanup = "NOT_OPENED" => run.attempt = 0)
      BY <1>1 DEF SoundRun
    <3> QED  BY <1>1, <2>4, <2>5, <2>6, <2>7, <3>1, SoundRunning
  <2>9. /\ FailureIntent(leased) \in Run /\ SameRun(FailureIntent(leased), leased)
        /\ FailureIntent(leased).status = "FINALIZING" /\ FailureIntent(leased).cleanup = leased.cleanup
        /\ SoundRun(FailureIntent(leased))
    BY <2>6, <2>7, <2>8, FailureIntentSound
  <2>10. SameRun(FailureIntent(leased), run)
    BY <2>7, <2>9 DEF SameRun
  <2>11. /\ row \in Run /\ SameRun(row, run) /\ SoundRun(row) /\ row.status \in {"RUNNING", "FINALIZING"}
         /\ row.cleanup # "NO_CREDENTIAL"
    BY <1>1, <2>3, <2>6, <2>7, <2>8, <2>9, <2>10
  <2> USE DEF run
  <2> QED  BY <1>0, <1>1, <2>4, <2>11, OpenRunMoves
<1>7. CASE LeaseLapses(r)
  <2>1. PICK row : row = [run EXCEPT !.live = FALSE]
    OBVIOUS
  <2>2. PutRun(r, row) /\ row \in Run /\ SameButLease(row, run) /\ row.epoch = run.epoch
    BY <1>1, <1>7, <2>1 DEF LeaseLapses, Run, SameRun, SameButLease
  <2>3. run.epoch > 0
    BY <1>1, <1>7, SoundOpen DEF LeaseLapses, Leased
  <2>4. SoundRun(row) /\ SameRun(row, run) /\ row.status = run.status /\ row.cleanup = run.cleanup
    BY <1>1, <2>2, <2>3, SoundButLease DEF SameButLease
  <2> QED  BY <1>0, <1>1, <2>2, <2>4, OpenRunMoves
<1>8. CASE DelayPasses(r)
  <2>1. PICK row : row = [run EXCEPT !.due = TRUE]
    OBVIOUS
  <2>2. PutRun(r, row) /\ row \in Run /\ SameButLease(row, run) /\ row.epoch = run.epoch
    BY <1>1, <1>8, <2>1 DEF DelayPasses, Run, SameRun, SameButLease
  <2>3. run.epoch > 0
    BY <1>1, <1>8, SoundOpen DEF DelayPasses
  <2>4. SoundRun(row) /\ SameRun(row, run) /\ row.status = run.status /\ row.cleanup = run.cleanup
    BY <1>1, <2>2, <2>3, SoundButLease DEF SameButLease
  <2> QED  BY <1>0, <1>1, <2>2, <2>4, OpenRunMoves
<1> QED  BY <1>3, <1>4, <1>5, <1>6, <1>7, <1>8 DEF Lease

(* A holder gets on with its run and keeps it open. *)
LEMMA WorkSteps ==
  ASSUME SourceInv, NEW r \in DOMAIN runs, NEW e \in 1..MaxEpoch, NEW a \in 1..MaxEpoch,
         NEW step \in StageSteps, NEW outcome \in {"SUCCEEDED", "FAILED"},
         \/ AdvanceStage(r, e, step) \/ AdvanceToCleanup(r, e) \/ ReserveCleanupAttempt(r, e)
         \/ ProposeValidationResult(r, e, outcome) \/ PrepareFailureIntent(r, e)
         \/ RecordRevoked(r, e, a) \/ Delay(r, e)
  PROVE  SourceInv' /\ HeldRunsGoOn
<1> USE StatusNames
<1>0. runs[r].status \in Leased /\ runs[r].epoch = e /\ runs[r].status \notin TerminalRun
  BY DEF AdvanceStage, AdvanceToCleanup, ReserveCleanupAttempt, ProposeValidationResult, PrepareFailureIntent,
         RecordRevoked, MayRecordCleanup, Delay, Fenced
<1>1. PICK run : run = runs[r]
  OBVIOUS
<1>2. /\ run \in Run /\ SoundRun(run) /\ run.kind \in {"VALIDATION", "DISCOVERY"} /\ run.cleanup # "NO_CREDENTIAL"
      /\ run.status \in Leased /\ source.status = "ACTIVE" => Admitted(r)
      /\ run.status \in Leased /\ run.status \notin TerminalRun /\ run.epoch = e
  BY <1>0, <1>1, OpenRow
<1>3. MaxEpoch \in Nat /\ e \in Nat /\ e > 0 /\ e \in 0..MaxEpoch
  BY Rows DEF SourceInv
<1>4. /\ run.cleanup = "REVOKED" => run.receipt
      /\ run.cleanup = "NOT_OPENED" => run.attempt = 0
  BY <1>2 DEF SoundRun
<1>5. CASE AdvanceStage(r, e, step)
  <2>1. PICK stage : stage = step[2]
    OBVIOUS
  <2>2. PICK row : row = [run EXCEPT !.stage = stage]
    OBVIOUS
  <2>3. PutRun(r, row) /\ run.status = "RUNNING" /\ run.stage = step[1]
    BY <1>1, <1>5, <2>1, <2>2 DEF AdvanceStage
  <2>4. run.stage \in {"READING", "NORMALIZING", "APPLYING"} /\ stage \in {"READING", "NORMALIZING", "APPLYING"}
    BY <2>1, <2>3 DEF StageSteps
  <2>5. /\ row \in Run /\ row.stage = stage /\ row.status = "RUNNING" /\ row.cleanup = run.cleanup
        /\ row.epoch = run.epoch /\ row.work = run.work /\ row.verdict = run.verdict /\ row.pages = run.pages
        /\ row.rejected = run.rejected /\ row.complete = run.complete /\ SameRun(row, run)
        /\ row.receipt = run.receipt /\ row.attempt = run.attempt
    BY <1>2, <2>2, <2>3, <2>4 DEF Run, SameRun, Stages
  <2>6. run.kind # "VALIDATION" /\ run.cleanup \in {"NOT_OPENED", "PENDING"}
    BY <1>2, <2>3, <2>4, SoundOpen
  <2>7. row.stage \in {"CLEANING_UP"} \cup (IF run.kind = "VALIDATION" THEN {"VALIDATING"}
                                            ELSE {"READING", "NORMALIZING", "APPLYING"})
    BY <2>4, <2>5, <2>6
  <2>8. SoundRun(row)
    BY <1>2, <1>3, <1>4, <2>3, <2>5, <2>6, <2>7, SoundRunning
  <2> QED  BY <1>1, <1>2, <2>3, <2>5, <2>8, OpenRunMoves
<1>6. CASE AdvanceToCleanup(r, e)
  <2>1. PICK row : row = [run EXCEPT !.stage = "CLEANING_UP", !.pending = TRUE]
    OBVIOUS
  <2>2. PutRun(r, row) /\ run.status = "RUNNING"
    BY <1>1, <1>6, <2>1 DEF AdvanceToCleanup
  <2>3. /\ row \in Run /\ row.stage = "CLEANING_UP" /\ row.status = "RUNNING" /\ row.cleanup = run.cleanup
        /\ row.epoch = run.epoch /\ row.work = run.work /\ row.verdict = run.verdict /\ row.pages = run.pages
        /\ row.rejected = run.rejected /\ row.complete = run.complete /\ SameRun(row, run)
        /\ row.receipt = run.receipt /\ row.attempt = run.attempt
    BY <1>2, <2>1, <2>2 DEF Run, SameRun, Stages
  <2>4. SoundRun(row)
    BY <1>2, <1>3, <1>4, <2>2, <2>3, SoundRunning
  <2> QED  BY <1>1, <1>2, <2>2, <2>3, <2>4, OpenRunMoves
<1>7. CASE ReserveCleanupAttempt(r, e)
  <2>1. PICK row : row = [run EXCEPT !.cleanup = "PENDING", !.attempt = e]
    OBVIOUS
  <2>2. PutRun(r, row) /\ run.status = "RUNNING"
    BY <1>1, <1>7, <2>1 DEF ReserveCleanupAttempt
  <2>3. /\ row \in Run /\ row.stage = run.stage /\ row.status = "RUNNING" /\ row.cleanup = "PENDING"
        /\ row.epoch = run.epoch /\ row.work = run.work /\ row.verdict = run.verdict /\ row.pages = run.pages
        /\ row.rejected = run.rejected /\ row.complete = run.complete /\ SameRun(row, run)
    BY <1>2, <1>3, <2>1, <2>2 DEF Run, SameRun
  <2>4. run.stage \in {"CLEANING_UP"} \cup (IF run.kind = "VALIDATION" THEN {"VALIDATING"}
                                            ELSE {"READING", "NORMALIZING", "APPLYING"})
    BY <1>2, <2>2 DEF SoundRun, ValidStatus
  <2>5. SoundRun(row)
    BY <1>2, <1>3, <2>2, <2>3, <2>4, SoundRunning
  <2> QED  BY <1>1, <1>2, <2>2, <2>3, <2>5, OpenRunMoves
<1>8. CASE ProposeValidationResult(r, e, outcome)
  <2>1. PICK row : row = [run EXCEPT !.status = "FINALIZING", !.stage = "CLEANING_UP",
                                     !.work = "VALIDATION_PROOF", !.verdict = outcome]
    OBVIOUS
  <2>2. PutRun(r, row) /\ run.status = "RUNNING" /\ run.kind = "VALIDATION" /\ run.cleanup = "PENDING"
    BY <1>1, <1>8, <2>1 DEF ProposeValidationResult
  <2>3. /\ row \in Run /\ row.stage = "CLEANING_UP" /\ row.status = "FINALIZING" /\ row.cleanup = "PENDING"
        /\ row.epoch = run.epoch /\ row.work = "VALIDATION_PROOF" /\ row.verdict = outcome /\ row.pages = run.pages
        /\ row.rejected = run.rejected /\ row.complete = run.complete /\ SameRun(row, run)
    BY <1>2, <2>1, <2>2 DEF Run, SameRun, RunStatuses, Leased, Stages, WorkKinds
  <2>4. row.pages = 0 /\ ~row.rejected /\ ~row.complete /\ row.checkpoint = 0 /\ row.kind = "VALIDATION"
    BY <1>2, <2>2, <2>3, SoundOpen DEF SameRun
  <2>5. validRunWorkResult(row) /\ zeroRunProjection(row) /\ ~FailureCode(row)
    BY <2>3, <2>4 DEF validRunWorkResult, zeroRunProjection, zeroCommittedRunProgress, FinalPage, FailureCode
  <2>6. ValidStatus(row)
    BY <1>2, <1>3, <2>3, NoneIsNoWork DEF ValidStatus, WorkKinds
  <2>7. SoundRun(row)
    BY <2>3, <2>4, <2>5, <2>6 DEF SoundRun
  <2> QED  BY <1>1, <1>2, <2>2, <2>3, <2>7, OpenRunMoves
<1>9. CASE PrepareFailureIntent(r, e)
  <2>1. PICK row : row = FailureIntent(run)
    OBVIOUS
  <2>2. PutRun(r, row) /\ run.status = "RUNNING"
    BY <1>1, <1>9, <2>1 DEF PrepareFailureIntent
  <2>3. row \in Run /\ SameRun(row, run) /\ row.status = "FINALIZING" /\ row.cleanup = run.cleanup /\ SoundRun(row)
    BY <1>2, <2>1, <2>2, FailureIntentSound
  <2> QED  BY <1>1, <1>2, <2>2, <2>3, OpenRunMoves
<1>10. CASE RecordRevoked(r, e, a)
  <2>1. PICK row : row = [run EXCEPT !.cleanup = "REVOKED", !.receipt = TRUE]
    OBVIOUS
  <2>2. PutRun(r, row) /\ run.stage = "CLEANING_UP"
    BY <1>1, <1>10, <2>1 DEF RecordRevoked, MayRecordCleanup
  <2>3. /\ row \in Run /\ row.stage = "CLEANING_UP" /\ row.status = run.status /\ row.cleanup = "REVOKED"
        /\ row.epoch = run.epoch /\ row.work = run.work /\ row.verdict = run.verdict /\ row.pages = run.pages
        /\ row.rejected = run.rejected /\ row.complete = run.complete /\ SameRun(row, run) /\ row.receipt
    BY <1>2, <2>1, <2>2 DEF Run, SameRun
  <2>4. SoundRun(row)
    <3>1. CASE run.status = "RUNNING"
      BY <1>2, <1>3, <2>2, <2>3, <3>1, SoundRunning
    <3>2. CASE run.status = "FINALIZING"
      <4>1. run.work # None
        BY <1>2, <3>2, SoundOpen
      <4>2. ValidStatus(row)
        BY <1>2, <1>3, <2>3, <3>2, <4>1 DEF ValidStatus
      <4>3. validRunWorkResult(row) /\ (row.kind = "VALIDATION" => zeroRunProjection(row))
        BY <1>2, <2>3 DEF SoundRun, SameRun, validRunWorkResult, zeroRunProjection, zeroCommittedRunProgress, FinalPage
      <4>4. /\ FailureCode(row) => AboutToFail(row)
            /\ row.complete => FinalPage(row) /\ ~row.rejected /\ row.kind # "MANUAL"
            /\ row.pages = 0 => ~row.rejected
        BY <1>2, <2>3, <3>2 DEF SoundRun, SameRun, FailureCode, AboutToFail, FinalPage
      <4> QED  BY <1>2, <2>3, <4>2, <4>3, <4>4 DEF SoundRun, SameRun
    <3> QED  BY <1>2, <3>1, <3>2 DEF Leased
  <2> QED  BY <1>1, <1>2, <2>2, <2>3, <2>4, OpenRunMoves
<1>11. CASE Delay(r, e)
  <2>1. PICK row : row = [run EXCEPT !.status = "DELAYED", !.stage = "DELAYED",
                                     !.live = FALSE, !.pending = FALSE, !.due = FALSE]
    OBVIOUS
  <2>2. PutRun(r, row) /\ run.status = "RUNNING" /\ run.cleanup = "REVOKED"
    BY <1>1, <1>11, <2>1 DEF Delay, Cleaned
  <2>3. /\ row.stage = "DELAYED" /\ row.status = "DELAYED" /\ row.cleanup = "REVOKED"
        /\ row.epoch = run.epoch /\ row.work = run.work /\ row.verdict = run.verdict /\ row.pages = run.pages
        /\ row.rejected = run.rejected /\ row.complete = run.complete /\ SameRun(row, run) /\ row.receipt = run.receipt
    BY <1>2, <2>1, <2>2 DEF Run, SameRun
  <2>4. row \in Run
    BY <1>2, <2>1 DEF Run, RunStatuses, Stages
  <2>5. SoundRun(row)
    <3>1. run.work = None /\ run.verdict = None /\ ~run.complete
      BY <1>2, <2>2, SoundOpen
    <3>2. validRunWorkResult(row) /\ ValidStatus(row) /\ ~FailureCode(row)
      BY <1>2, <1>3, <2>3, <3>1, NoneIsNoWork DEF validRunWorkResult, ValidStatus, closedCleanup, FailureCode, WorkKinds
    <3>3. (row.kind = "VALIDATION" => zeroRunProjection(row)) /\ (row.pages = 0 => ~row.rejected)
      BY <1>2, <2>3 DEF SoundRun, SameRun, zeroRunProjection, zeroCommittedRunProgress, FinalPage
    <3> QED  BY <1>2, <1>4, <2>2, <2>3, <3>1, <3>2, <3>3 DEF SoundRun, SameRun
  <2> QED  BY <1>1, <1>2, <2>2, <2>3, <2>4, <2>5, OpenRunMoves
<1> QED  BY <1>5, <1>6, <1>7, <1>8, <1>9, <1>10, <1>11

-----------------------------------------------------------------------------
(* The steps of a data run that move the source. *)

(* The one open run reads data: it moves together with its source and stays admitted. *)
LEMMA DataRunMoves ==
  ASSUME SourceInv, NEW r \in DOMAIN runs, runs[r].status \notin TerminalRun, runs[r].kind # "VALIDATION",
         Admitted(r), NEW row \in Run, Put(r, row), UNCHANGED revisions, NEW next \in Source, source' = next,
         row.kind = runs[r].kind, row.key = runs[r].key, row.rev = runs[r].rev, SoundRun(row),
         row.status \notin TerminalRun, row.cleanup # "NO_CREDENTIAL",
         row.rollover => next.gate = "DEGRADED",
         next.kind = source.kind, next.status = source.status, next.published = source.published,
         next.validated = source.validated, next.success = source.success, next.gateRev > 0,
         NEW d \in Nat, row.checkpoint = runs[r].checkpoint + d, row.pages = runs[r].pages + d,
         Admitted(r)'
  PROVE  SourceInv' /\ HeldRunsGoOn
<1> USE DEF SourceInv
<1>1. /\ UNCHANGED revisions
      /\ runs' \in Seq(Run) /\ Len(runs') = Len(runs) /\ DOMAIN runs' = DOMAIN runs
      /\ runs'[r] = row /\ \A s \in DOMAIN runs : s # r => runs'[s] = runs[s]
  BY PutRow
<1>2. \A s \in DOMAIN runs : /\ runs'[s].kind = runs[s].kind /\ runs'[s].key = runs[s].key
                             /\ runs'[s].rev = runs[s].rev
                             /\ runs'[s].status \in TerminalRun => runs'[s] = runs[s]
                             /\ runs[s].status \in TerminalRun => runs'[s] = runs[s]
  BY <1>1
<1>3. Open' = Open /\ r \in Open /\ Open = {r}
  BY <1>1, <1>2 DEF Open, OneIsOpen
<1>4. SourceTypeOK'
  BY <1>1 DEF SourceTypeOK
<1>5. source.kind = "EXTERNAL" /\ source.status = "ACTIVE" /\ source.published # 0 /\ source.validated # 0
  <2>1. source.gate \in {"AVAILABLE", "DEGRADED"} /\ source.status = "ACTIVE"
    BY DEF Admitted
  <2> QED  BY <1>3, <2>1 DEF SourceIsSound, ValidationIsAwaited
<1>6. RunsAreSound'
  BY <1>1, <1>2, <1>5 DEF RunsAreSound
<1>7. RevisionsAreSound' /\ OneIsOpen' /\ OneRunPerCommand'
  BY <1>1, <1>2, <1>3 DEF RevisionsAreSound, OneIsOpen, OneRunPerCommand
<1>8. ValidationIsAwaited'
  <2>1. runs'[r].kind # "VALIDATION" /\ source'.kind = "EXTERNAL" /\ source'.status = "ACTIVE"
    BY <1>1, <1>5
  <2> QED  BY <1>1, <1>3, <2>1 DEF ValidationIsAwaited
<1>9. \A s \in DOMAIN runs : runs[s].status = "SUCCEEDED" => runs'[s].status = "SUCCEEDED"
  BY <1>2 DEF TerminalRun
<1>10. PublishedIsProved'
  <2>1. source.published # 0 => revisions[source.published].run \in DOMAIN runs
    BY DEF PublishedIsProved, RevisionsAreSound
  <2> QED  BY <1>1, <1>9, <2>1 DEF PublishedIsProved
<1>11. SourceIsSound'
  <2>1. revisions # <<>>
    BY <1>5 DEF SourceIsSound
  <2> QED  BY <1>1, <1>2, <1>5, <1>9, <2>1 DEF SourceIsSound
<1>12. OnlyDisableDrifts'
  <2> SUFFICES ASSUME NEW s \in DOMAIN runs, runs'[s].status \in Leased
               PROVE  Admitted(s)'
    BY <1>1 DEF OnlyDisableDrifts
  <2>1. runs'[s].status \notin TerminalRun
    BY StatusNames
  <2>2. s = r
    BY <1>1, <1>3, <2>1 DEF Open
  <2> QED  BY <2>2
<1>13. CheckpointIsApplied'
  <2>1. r \in DataRuns /\ r = Len(runs)
    BY <1>3 DEF DataRuns, Admitted, OneIsOpen
  <2>2. source'.checkpoint = row.checkpoint
    BY <1>1 DEF Admitted
  <2> QED  BY <1>1, <1>2, <2>1, <2>2, CheckpointMoves
<1>14. HeldRunsGoOn
  BY <1>1, StatusNames DEF HeldRunsGoOn
<1> QED  BY <1>4, <1>6, <1>7, <1>8, <1>10, <1>11, <1>12, <1>13, <1>14

(* A page is applied. *)
LEMMA PageSteps ==
  ASSUME SourceInv, NEW r \in DOMAIN runs, NEW e \in 1..MaxEpoch, NEW final \in BOOLEAN,
         NEW complete \in BOOLEAN, NEW rejects \in BOOLEAN, ApplyPage(r, e, final, complete, rejects)
  PROVE  SourceInv' /\ HeldRunsGoOn
<1> USE StatusNames
<1>0. PICK run : run = runs[r]
  OBVIOUS
<1>1. PICK rejected \in BOOLEAN : rejected = (run.rejected \/ rejects)
  OBVIOUS
<1>2. PICK pages, checkpoint : pages = run.pages + 1 /\ checkpoint = run.checkpoint + 1
  OBVIOUS
<1>3. PICK next : next = [run EXCEPT !.pages = pages, !.checkpoint = checkpoint, !.rejected = rejected]
  OBVIOUS
<1>4. PICK after : after = [source EXCEPT !.checkpoint = source.checkpoint + 1]
  OBVIOUS
<1>5. /\ run.status = "RUNNING" /\ Admitted(r) /\ run.stage \in {"NORMALIZING", "APPLYING"} /\ run.pages < MaxPages
      /\ UNCHANGED revisions /\ run.epoch = e /\ run.status \notin TerminalRun
  BY <1>0 DEF ApplyPage, PageAdmitted, Fenced
<1>6. /\ run \in Run /\ SoundRun(run) /\ run.kind \in {"VALIDATION", "DISCOVERY"} /\ run.cleanup # "NO_CREDENTIAL"
  BY <1>0, <1>5, OpenRow
<1>7. /\ run.kind = "DISCOVERY" /\ run.epoch > 0 /\ run.work = None /\ run.verdict = None /\ ~run.complete
      /\ run.cleanup \in {"NOT_OPENED", "PENDING"}
  BY <1>5, <1>6, SoundOpen
<1>8. /\ run.cleanup = "REVOKED" => run.receipt
      /\ run.cleanup = "NOT_OPENED" => run.attempt = 0
  BY <1>6 DEF SoundRun
<1>9. pages \in 0..MaxPages /\ pages # 0 /\ checkpoint \in Nat /\ source \in Source /\ source.checkpoint \in Nat
  <2>1. run.pages \in 0..MaxPages /\ run.checkpoint \in Nat
    BY <1>6 DEF Run
  <2>2. MaxPages \in Nat /\ source \in Source
    BY Rows DEF SourceInv
  <2>3. source.checkpoint \in Nat
    BY <2>2 DEF Source
  <2> QED  BY <1>2, <1>5, <2>1, <2>2, <2>3
<1>10. /\ next \in Run /\ next.pages = pages /\ next.checkpoint = checkpoint /\ next.rejected = rejected
       /\ next.kind = run.kind /\ next.key = run.key /\ next.rev = run.rev /\ next.gateRev = run.gateRev
       /\ next.status = run.status /\ next.stage = run.stage /\ next.epoch = run.epoch /\ next.work = run.work
       /\ next.verdict = run.verdict /\ next.complete = run.complete /\ next.rollover = run.rollover
       /\ next.cleanup = run.cleanup /\ next.attempt = run.attempt /\ next.receipt = run.receipt
  BY <1>1, <1>3, <1>6, <1>9 DEF Run
<1>11. source' = after
  BY <1>4, <1>9 DEF ApplyPage, PageAdmitted, Source
<1>12. /\ after \in Source /\ after.kind = source.kind /\ after.status = source.status /\ after.gate = source.gate
       /\ after.gateRev = source.gateRev /\ after.published = source.published
       /\ after.validated = source.validated /\ after.success = source.success
       /\ after.checkpoint = source.checkpoint + 1
  BY <1>4, <1>9 DEF Source
<1>13. next = [run EXCEPT !.pages = @ + 1, !.checkpoint = @ + 1, !.rejected = rejected]
  BY <1>2, <1>3, <1>6 DEF Run
<1>14. /\ source.checkpoint = run.checkpoint /\ source.gateRev > 0
       /\ run.rollover => source.gate = "DEGRADED"
  <2>1. source.gate \in {"AVAILABLE", "DEGRADED"} /\ source.checkpoint = run.checkpoint
        /\ (run.rollover => source.gate = "DEGRADED")
    BY <1>0, <1>5, <1>7 DEF Admitted
  <2> QED  BY <2>1 DEF SourceInv, SourceIsSound
<1>15. ASSUME NEW row \in Run, Put(r, row), row.status \in {"RUNNING", "FINALIZING"}, row.cleanup = run.cleanup,
              row.kind = run.kind, row.key = run.key, row.rev = run.rev, row.gateRev = run.gateRev,
              row.checkpoint = checkpoint, row.pages = pages, row.rollover = run.rollover, SoundRun(row)
       PROVE  SourceInv' /\ HeldRunsGoOn
  <2>1. runs'[r] = row
    BY <1>15, PutRow DEF SourceInv
  <2>2. Admitted(r)'
    BY <1>0, <1>2, <1>5, <1>7, <1>11, <1>12, <1>14, <1>15, <2>1 DEF Admitted
  <2> QED
    <3>1. row.status \notin TerminalRun /\ row.cleanup # "NO_CREDENTIAL"
      BY <1>6, <1>15
    <3>2. runs[r].status \notin TerminalRun /\ runs[r].kind # "VALIDATION"
      BY <1>0, <1>5, <1>7
    <3>3. /\ row.kind = runs[r].kind /\ row.key = runs[r].key /\ row.rev = runs[r].rev
          /\ row.rollover => after.gate = "DEGRADED"
          /\ after.gateRev > 0
      BY <1>0, <1>12, <1>14, <1>15
    <3>4. PICK d \in Nat : row.checkpoint = runs[r].checkpoint + d /\ row.pages = runs[r].pages + d
      BY <1>0, <1>2, <1>15
    <3> QED  BY <1>5, <1>11, <1>12, <1>15, <2>2, <3>1, <3>2, <3>3, <3>4, DataRunMoves
<1>16. CASE final
  <2>1. PICK done \in BOOLEAN : done = (complete /\ ~rejected)
    OBVIOUS
  <2>2. PICK verdict : verdict = IF rejected THEN "PARTIAL" ELSE "SUCCEEDED"
    OBVIOUS
  <2>3. PICK row : row = [next EXCEPT !.status = "FINALIZING", !.stage = "CLEANING_UP",
                            !.work = "DATA_PROJECTION", !.complete = done, !.verdict = verdict]
    OBVIOUS
  <2>4. Put(r, row)
    BY <1>0, <1>1, <1>13, <1>16, <2>1, <2>2, <2>3 DEF ApplyPage, PageAdmitted
  <2>5. row \in Run
    <3>1. /\ "FINALIZING" \in RunStatuses /\ "CLEANING_UP" \in Stages /\ "DATA_PROJECTION" \in WorkKinds
          /\ verdict \in {"SUCCEEDED", "PARTIAL", "FAILED", None}
      BY <2>2 DEF RunStatuses, Leased, Stages, WorkKinds
    <3> QED  BY <1>10, <2>3, <3>1 DEF Run
  <2>6. /\ row.status = "FINALIZING" /\ row.stage = "CLEANING_UP" /\ row.work = "DATA_PROJECTION" /\ row.complete = done
        /\ row.verdict = verdict
        /\ row.pages = next.pages /\ row.checkpoint = next.checkpoint /\ row.rejected = next.rejected
        /\ row.kind = next.kind /\ row.key = next.key /\ row.rev = next.rev /\ row.gateRev = next.gateRev
        /\ row.epoch = next.epoch /\ row.rollover = next.rollover
        /\ row.cleanup = next.cleanup /\ row.attempt = next.attempt /\ row.receipt = next.receipt
    BY <1>10, <2>3 DEF Run
  <2>7. SoundRun(row)
    <3>1. validRunWorkResult(row) /\ ~FailureCode(row) /\ FinalPage(row)
      BY <1>7, <1>10, <2>2, <2>6 DEF validRunWorkResult, FailureCode, FinalPage
    <3>2. ValidStatus(row)
      BY <1>7, <1>10, <2>6, NoneIsNoWork DEF ValidStatus, WorkKinds
    <3>3. row.complete => ~row.rejected
      BY <1>10, <2>1, <2>6
    <3>4. row.kind = "DISCOVERY" /\ row.pages # 0 /\ row.cleanup # "REVOKED" /\ (row.cleanup = "NOT_OPENED" => row.attempt = 0)
      BY <1>7, <1>8, <1>9, <1>10, <2>6
    <3> QED  BY <3>1, <3>2, <3>3, <3>4 DEF SoundRun
  <2>8. /\ row.status \in {"RUNNING", "FINALIZING"} /\ row.cleanup = run.cleanup
        /\ row.kind = run.kind /\ row.key = run.key /\ row.rev = run.rev /\ row.gateRev = run.gateRev
        /\ row.checkpoint = checkpoint /\ row.pages = pages /\ row.rollover = run.rollover
    BY <1>10, <2>6
  <2> QED  BY <1>15, <2>4, <2>5, <2>7, <2>8
<1>17. CASE ~final
  <2>1. PICK row : row = [next EXCEPT !.stage = "READING"]
    OBVIOUS
  <2>2. Put(r, row)
    BY <1>0, <1>1, <1>13, <1>17, <2>1 DEF ApplyPage, PageAdmitted
  <2>3. /\ row \in Run /\ row.stage = "READING" /\ row.status = next.status /\ row.work = next.work
        /\ row.complete = next.complete /\ row.verdict = next.verdict
        /\ row.pages = next.pages /\ row.checkpoint = next.checkpoint /\ row.rejected = next.rejected
        /\ row.kind = next.kind /\ row.key = next.key /\ row.rev = next.rev /\ row.gateRev = next.gateRev
        /\ row.epoch = next.epoch /\ row.rollover = next.rollover
        /\ row.cleanup = next.cleanup /\ row.attempt = next.attempt /\ row.receipt = next.receipt
    BY <1>10, <2>1 DEF Run, Stages
  <2>4. SoundRun(row)
    <3>1. validRunWorkResult(row) /\ ~FailureCode(row) /\ ~row.complete
      BY <1>5, <1>7, <1>10, <2>3, NoneIsNoWork DEF validRunWorkResult, FailureCode, WorkKinds
    <3>2. ValidStatus(row)
      BY <1>5, <1>7, <1>10, <2>3 DEF ValidStatus
    <3>3. row.kind = "DISCOVERY" /\ row.pages # 0 /\ row.cleanup # "REVOKED" /\ (row.cleanup = "NOT_OPENED" => row.attempt = 0)
      BY <1>7, <1>8, <1>9, <1>10, <2>3
    <3> QED  BY <3>1, <3>2, <3>3 DEF SoundRun
  <2>5. /\ row.status \in {"RUNNING", "FINALIZING"} /\ row.cleanup = run.cleanup
        /\ row.kind = run.kind /\ row.key = run.key /\ row.rev = run.rev /\ row.gateRev = run.gateRev
        /\ row.checkpoint = checkpoint /\ row.pages = pages /\ row.rollover = run.rollover
    BY <1>5, <1>10, <2>3
  <2> QED  BY <1>15, <2>2, <2>3, <2>4, <2>5
<1> QED  BY <1>16, <1>17

(* The provider lost the checkpoint. *)
LEMMA RolloverSteps ==
  ASSUME SourceInv, NEW r \in DOMAIN runs, NEW e \in 1..MaxEpoch, BeginCheckpointLineageRollover(r, e)
  PROVE  SourceInv' /\ HeldRunsGoOn
<1> USE StatusNames
<1>0. PICK run : run = runs[r]
  OBVIOUS
<1>1. PICK row : row = [run EXCEPT !.rollover = TRUE]
  OBVIOUS
<1>2. PICK after : after = [source EXCEPT !.gate = "DEGRADED", !.gateRev = source.gateRev + 1]
  OBVIOUS
<1>3. /\ run.status = "RUNNING" /\ Admitted(r) /\ run.kind # "VALIDATION" /\ ~run.rollover
      /\ UNCHANGED revisions /\ Put(r, row) /\ run.status \notin TerminalRun
  BY <1>0, <1>1 DEF BeginCheckpointLineageRollover
<1>4. run \in Run /\ SoundRun(run) /\ run.cleanup # "NO_CREDENTIAL" /\ run.epoch > 0
  BY <1>0, <1>3, OpenRow, SoundOpen
<1>5. source \in Source /\ source.gateRev \in Nat
  BY Rows DEF SourceInv, Source
<1>6. source' = after
  BY <1>2, <1>5 DEF BeginCheckpointLineageRollover, Source
<1>7. /\ after \in Source /\ after.kind = source.kind /\ after.status = source.status /\ after.gate = "DEGRADED"
      /\ after.gateRev = source.gateRev + 1 /\ after.gateRev > 0 /\ after.published = source.published
      /\ after.validated = source.validated /\ after.success = source.success
      /\ after.checkpoint = source.checkpoint
  <2>1. source.gateRev + 1 \in Nat /\ source.gateRev + 1 > 0 /\ "DEGRADED" \in GateStatuses
    BY <1>5 DEF GateStatuses
  <2>2. after \in Source
    BY <1>2, <1>5, <2>1 DEF Source
  <2> QED  BY <1>2, <1>5, <2>1, <2>2 DEF Source
<1>8. /\ row \in Run /\ row.status = run.status /\ row.stage = run.stage /\ row.epoch = run.epoch
      /\ row.kind = run.kind /\ row.key = run.key /\ row.rev = run.rev /\ row.gateRev = run.gateRev
      /\ row.checkpoint = run.checkpoint /\ row.rollover /\ row.work = run.work /\ row.verdict = run.verdict
      /\ row.pages = run.pages /\ row.rejected = run.rejected /\ row.complete = run.complete
      /\ row.cleanup = run.cleanup /\ row.attempt = run.attempt /\ row.receipt = run.receipt
  BY <1>1, <1>4 DEF Run
<1>9. SoundRun(row)
  <2>1. run.work = None /\ run.verdict = None /\ ~run.complete
    BY <1>3, <1>4, SoundOpen
  <2>2. validRunWorkResult(row) /\ ~FailureCode(row)
    BY <1>3, <1>8, <2>1, NoneIsNoWork DEF validRunWorkResult, FailureCode, WorkKinds
  <2>3. ValidStatus(run) /\ (run.pages = 0 => ~run.rejected) /\ (run.cleanup = "REVOKED" => run.receipt)
        /\ (run.cleanup = "NOT_OPENED" => run.attempt = 0) /\ run.kind # "MANUAL"
    BY <1>3, <1>4 DEF SoundRun
  <2>4. ValidStatus(row)
    BY <1>3, <1>8, <2>3 DEF ValidStatus
  <2> QED  BY <1>3, <1>8, <2>1, <2>2, <2>3, <2>4 DEF SoundRun
<1>10. Admitted(r)'
  <2>1. runs'[r] = row
    BY <1>3, <1>8, PutRow DEF SourceInv
  <2> QED  BY <1>0, <1>3, <1>6, <1>7, <1>8, <2>1 DEF Admitted
<1>11. /\ row.kind = runs[r].kind /\ row.key = runs[r].key /\ row.rev = runs[r].rev
       /\ row.status \notin TerminalRun /\ row.cleanup # "NO_CREDENTIAL"
       /\ runs[r].status \notin TerminalRun /\ runs[r].kind # "VALIDATION"
  BY <1>0, <1>3, <1>4, <1>8
<1>12. PICK d \in Nat : row.checkpoint = runs[r].checkpoint + d /\ row.pages = runs[r].pages + d
  <2>1. run.checkpoint \in Nat /\ run.pages \in Nat
    BY <1>4, SourceConstants DEF Run
  <2>2. row.checkpoint = runs[r].checkpoint + 0 /\ row.pages = runs[r].pages + 0
    BY <1>0, <1>8, <2>1
  <2> QED  BY <2>2
<1> QED  BY <1>3, <1>6, <1>7, <1>8, <1>9, <1>10, <1>11, <1>12, DataRunMoves

-----------------------------------------------------------------------------
(* The end of a run. *)

\* The row is of the same run and says that it read the same.
SameWork(row, run) ==
  /\ row.kind = run.kind /\ row.key = run.key /\ row.rev = run.rev
  /\ row.checkpoint = run.checkpoint /\ row.pages = run.pages

(* The one open run ends: its revision is closed with it, and the gate is not left open on
   anything that was not published and proved. *)
LEMMA RunEnds ==
  ASSUME SourceInv, NEW r \in DOMAIN runs, runs[r].status \notin TerminalRun,
         NEW row \in Run, Put(r, row), SameWork(row, runs[r]),
         SoundRun(row), row.status \in TerminalRun, row.cleanup # "NO_CREDENTIAL",
         NEW verdict \in {"VALIDATED", "REJECTED"},
         revisions' = (IF row.kind = "VALIDATION" THEN [revisions EXCEPT ![row.rev].status = verdict] ELSE revisions),
         NEW next \in Source, source' = next, next.kind = source.kind, next.published = source.published,
         next.checkpoint = source.checkpoint,
         next.gate \in {"AVAILABLE", "DEGRADED"} =>
           source.published # 0 /\ next.validated # 0 /\ next.gateRev > 0,
         \/ next.success = source.success
         \/ /\ next.success = r /\ row.kind # "VALIDATION" /\ row.status = "SUCCEEDED"
            /\ row.rev = source.published
  PROVE  SourceInv'
<1> USE DEF SourceInv, SameWork
<1>1. /\ runs' \in Seq(Run) /\ Len(runs') = Len(runs) /\ DOMAIN runs' = DOMAIN runs
      /\ runs'[r] = row /\ \A s \in DOMAIN runs : s # r => runs'[s] = runs[s]
  BY PutRow
<1>2. \A s \in DOMAIN runs : /\ runs'[s].kind = runs[s].kind /\ runs'[s].key = runs[s].key
                             /\ runs'[s].rev = runs[s].rev /\ runs'[s].pages = runs[s].pages
                             /\ runs'[s].checkpoint = runs[s].checkpoint
                             /\ runs[s].status \in TerminalRun => runs'[s] = runs[s]
  BY <1>1
<1>3. Open = {r} /\ Open' = {} /\ source.kind = "EXTERNAL"
  <2>1. Open = {r}
    BY DEF Open, OneIsOpen
  <2> QED  BY <1>1, <2>1 DEF Open, ValidationIsAwaited
<1>4. row.rev \in DOMAIN revisions /\ revisions \in Seq(Revision)
  BY DEF RunsAreSound, SourceTypeOK
<1>5. /\ revisions' \in Seq(Revision) /\ Len(revisions') = Len(revisions) /\ DOMAIN revisions' = DOMAIN revisions
      /\ \A n \in DOMAIN revisions : revisions'[n].run = revisions[n].run
      /\ \A n \in DOMAIN revisions : revisions'[n] = revisions[n] \/ (row.kind = "VALIDATION" /\ n = row.rev)
      /\ row.kind = "VALIDATION" => revisions'[row.rev].status = verdict
  <2>1. CASE row.kind # "VALIDATION"
    BY <1>4, <2>1
  <2>2. CASE row.kind = "VALIDATION"
    <3>1. PICK rev : rev = [revisions[row.rev] EXCEPT !.status = verdict]
      OBVIOUS
    <3>2. revisions[row.rev] \in Revision
      BY <1>4
    <3>3. rev \in Revision /\ rev.status = verdict /\ rev.run = revisions[row.rev].run
      BY <3>1, <3>2 DEF Revision, RevisionStatuses
    <3>4. revisions' = [revisions EXCEPT ![row.rev] = rev]
      BY <2>2, <3>1
    <3> QED  BY <1>4, <3>3, <3>4
  <2> QED  BY <2>1, <2>2
<1>6. SourceTypeOK'
  BY <1>1, <1>5 DEF SourceTypeOK
<1>7. row.kind = "VALIDATION" => revisions[row.rev].status = "VALIDATING" /\ revisions[row.rev].run = r
  BY <1>3 DEF ValidationIsAwaited
<1>8. RunsAreSound'
  <2>1. \A n \in DOMAIN revisions :
          revisions[n].status \in {"PUBLISHED", "SUPERSEDED"} => revisions'[n] = revisions[n]
    BY <1>5, <1>7
  <2> SUFFICES ASSUME NEW s \in DOMAIN runs
               PROVE  /\ SoundRun(runs'[s]) /\ runs'[s].rev \in DOMAIN revisions'
                      /\ runs'[s].cleanup # "NO_CREDENTIAL" /\ source'.kind # "MANUAL"
                      /\ runs'[s].kind # "VALIDATION" =>
                           revisions'[runs'[s].rev].status \in {"PUBLISHED", "SUPERSEDED"}
    BY <1>1 DEF RunsAreSound
  <2>2. /\ SoundRun(runs[s]) /\ runs[s].rev \in DOMAIN revisions /\ runs[s].cleanup # "NO_CREDENTIAL"
        /\ runs[s].kind # "VALIDATION" => revisions[runs[s].rev].status \in {"PUBLISHED", "SUPERSEDED"}
    BY <1>3 DEF RunsAreSound
  <2> QED  BY <1>1, <1>2, <1>3, <1>5, <2>1, <2>2
<1>9. RevisionsAreSound'
  <2> SUFFICES ASSUME NEW n \in DOMAIN revisions
               PROVE  /\ validRevisionValidationClosure(revisions'[n])
                      /\ revisions'[n].status # "DRAFT" =>
                           /\ revisions'[n].run \in DOMAIN runs'
                           /\ runs'[revisions'[n].run].kind = "VALIDATION" /\ runs'[revisions'[n].run].rev = n
    BY <1>5 DEF RevisionsAreSound
  <2>1. /\ validRevisionValidationClosure(revisions[n])
        /\ revisions[n].status # "DRAFT" =>
             /\ revisions[n].run \in DOMAIN runs
             /\ runs[revisions[n].run].kind = "VALIDATION" /\ runs[revisions[n].run].rev = n
    BY DEF RevisionsAreSound
  <2>2. revisions'[n].run = revisions[n].run /\ (revisions'[n].status # "DRAFT" <=> revisions[n].status # "DRAFT")
    BY <1>5, <1>7
  <2> QED  BY <1>1, <1>2, <2>1, <2>2 DEF validRevisionValidationClosure
<1>10. OneIsOpen' /\ OneRunPerCommand' /\ ValidationIsAwaited'
  BY <1>1, <1>2, <1>3 DEF OneIsOpen, OneRunPerCommand, ValidationIsAwaited
<1>11. \A s \in DOMAIN runs : runs[s].status = "SUCCEEDED" => runs'[s] = runs[s]
  BY <1>2 DEF TerminalRun
<1>12. PublishedIsProved'
  <2>1. source.published # 0 =>
          /\ source.published \in DOMAIN revisions /\ revisions[source.published].status = "PUBLISHED"
          /\ runs[revisions[source.published].run].status = "SUCCEEDED"
          /\ revisions[source.published].run \in DOMAIN runs
    BY DEF PublishedIsProved, RevisionsAreSound
  <2>2. source.published # 0 => revisions'[source.published] = revisions[source.published]
    BY <1>5, <1>7, <2>1
  <2> QED  BY <1>5, <1>11, <2>1, <2>2 DEF PublishedIsProved
<1>13. SourceIsSound'
  <2>1. revisions # <<>> /\ revisions' # <<>> /\ source.kind # None
    BY <1>3, <1>4, <1>5, NoneIsNoWork
  <2>2. source.success # 0 =>
          /\ source.success \in DOMAIN runs /\ runs[source.success].kind # "VALIDATION"
          /\ runs[source.success].status = "SUCCEEDED" /\ runs[source.success].rev = source.published
    BY DEF SourceIsSound
  <2>3. source'.success # 0 =>
          /\ source'.success \in DOMAIN runs' /\ runs'[source'.success].kind # "VALIDATION"
          /\ runs'[source'.success].status = "SUCCEEDED" /\ runs'[source'.success].rev = source'.published
    BY <1>1, <1>11, <2>2
  <2> QED  BY <2>1, <2>3 DEF SourceIsSound
<1>14. OnlyDisableDrifts'
  BY <1>1, <1>3, StatusNames DEF OnlyDisableDrifts, Open
<1>15. CheckpointIsApplied'
  BY <1>1, <1>2, CheckpointKept
<1> QED  BY <1>6, <1>8, <1>9, <1>10, <1>12, <1>13, <1>14, <1>15

(* A run that waits and is cancelled is a sound row. *)
LEMMA CancelledSound ==
  ASSUME NEW run \in Run, SoundRun(run), run.status \in {"QUEUED", "DELAYED"},
         run.status = "DELAYED" => run.cleanup = "REVOKED"
  PROVE  /\ Cancelled(run) \in Run /\ SameRun(Cancelled(run), run) /\ SoundRun(Cancelled(run))
         /\ Cancelled(run).status = "CANCELLED" /\ Cancelled(run).cleanup = run.cleanup
<1>1. PICK row : row = Cancelled(run)
  OBVIOUS
<1>2. row \in Run
  BY <1>1 DEF Cancelled, Run, RunStatuses, TerminalRun, Stages
<1>3. /\ row.status = "CANCELLED" /\ row.stage = "COMPLETED" /\ row.epoch = run.epoch /\ SameRun(row, run)
      /\ row.work = run.work /\ row.verdict = run.verdict
      /\ row.pages = run.pages /\ row.rejected = run.rejected /\ row.complete = run.complete
      /\ row.cleanup = run.cleanup /\ row.attempt = run.attempt /\ row.receipt = run.receipt
  BY <1>1 DEF Cancelled, Run, SameRun
<1>4. /\ run.work = None /\ run.verdict = None /\ ~run.complete
      /\ run.status = "QUEUED" =>
           run.epoch = 0 /\ run.cleanup = "NOT_OPENED" /\ run.pages = 0 /\ ~run.rejected
      /\ run.status = "DELAYED" => run.epoch > 0 /\ run.cleanup = "REVOKED"
  BY SoundOpen
<1>5. validRunWorkResult(row) /\ ~FailureCode(row) /\ ~FinalPage(row)
  BY <1>3, <1>4, NoneIsNoWork DEF validRunWorkResult, FailureCode, FinalPage, WorkKinds
<1>6. ValidStatus(row)
  BY <1>3, <1>4, <1>5 DEF ValidStatus, closedCleanup, zeroCommittedRunProgress
<1>7. row.kind = "VALIDATION" => zeroRunProjection(row)
  BY <1>3, <1>5 DEF SoundRun, SameRun, zeroRunProjection, zeroCommittedRunProgress
<1>8. SoundRun(row)
  BY <1>3, <1>4, <1>5, <1>6, <1>7 DEF SoundRun, SameRun, TerminalRun
<1> QED  BY <1>1, <1>2, <1>3, <1>8

(* A run that is not admitted any more is cancelled where it waits. *)
LEMMA CancelSteps ==
  ASSUME SourceInv, NEW r \in DOMAIN runs, CancelIneligible(r)
  PROVE  SourceInv' /\ HeldRunsGoOn
<1>0. PICK run : run = runs[r]
  OBVIOUS
<1>1. PICK row : row = Cancelled(run)
  OBVIOUS
<1>2. /\ run.status \in {"QUEUED", "DELAYED"} /\ (run.status = "DELAYED" => run.cleanup = "REVOKED")
      /\ run.status \notin TerminalRun /\ Put(r, row) /\ source' = source
      /\ revisions' = IF run.kind = "VALIDATION"
           THEN [revisions EXCEPT ![run.rev].status = "REJECTED"] ELSE revisions
  BY <1>0, <1>1, StatusNames DEF CancelIneligible, Cancellable
<1>3. run \in Run /\ SoundRun(run) /\ run.cleanup # "NO_CREDENTIAL"
  BY <1>0, <1>2, OpenRow
<1>4. row \in Run /\ SameRun(row, run) /\ SoundRun(row) /\ row.status = "CANCELLED" /\ row.cleanup = run.cleanup
  BY <1>1, <1>2, <1>3, CancelledSound
<1>5. /\ SameWork(row, runs[r]) /\ row.status \in TerminalRun
      /\ row.cleanup # "NO_CREDENTIAL" /\ runs[r].status \notin TerminalRun
      /\ revisions' = (IF row.kind = "VALIDATION" THEN [revisions EXCEPT ![row.rev].status = "REJECTED"]
                       ELSE revisions)
  BY <1>0, <1>2, <1>3, <1>4 DEF SameRun, SameWork, TerminalRun
<1>6. /\ source \in Source
      /\ source.gate \in {"AVAILABLE", "DEGRADED"} =>
           source.published # 0 /\ source.validated # 0 /\ source.gateRev > 0
  BY Rows DEF SourceInv, SourceIsSound
<1>7. PICK verdict \in {"VALIDATED", "REJECTED"} : verdict = "REJECTED"
  OBVIOUS
<1>8. HeldRunsGoOn
  <2>1. \A s \in DOMAIN runs : s # r => runs'[s] = runs[s]
    BY <1>2, <1>4, PutRow DEF SourceInv
  <2>2. run.status \notin Leased
    BY <1>2, StatusNames
  <2> QED  BY <1>0, <2>1, <2>2, StatusNames DEF HeldRunsGoOn
<1> QED  BY <1>2, <1>4, <1>5, <1>6, <1>7, <1>8, RunEnds

(* A gate that is moved keeps the rest of the source. *)
LEMMA GateMoves ==
  ASSUME NEW s \in Source, NEW status \in GateStatuses, MaxRuns \in Nat
  PROVE  /\ Gate(s, status) \in Source /\ Gate(s, status).kind = s.kind /\ Gate(s, status).status = s.status
         /\ Gate(s, status).gate = status /\ Gate(s, status).gateRev = s.gateRev + 1 /\ Gate(s, status).gateRev > 0
         /\ Gate(s, status).published = s.published /\ Gate(s, status).checkpoint = s.checkpoint
         /\ Gate(s, status).success = s.success /\ Gate(s, status).validated = 0
<1>1. s.gateRev \in Nat
  BY DEF Source
<1>2. PICK rev : rev = s.gateRev + 1
  OBVIOUS
<1>3. rev \in Nat /\ rev > 0 /\ 0 \in 0..MaxRuns
  BY <1>1, <1>2
<1>4. Gate(s, status) = [s EXCEPT !.gate = status, !.gateRev = rev, !.validated = 0]
  BY <1>2 DEF Gate, Source
<1>5. Gate(s, status) \in Source
  BY <1>3, <1>4 DEF Source
<1>6. /\ Gate(s, status).kind = s.kind /\ Gate(s, status).status = s.status
      /\ Gate(s, status).gate = status /\ Gate(s, status).gateRev = rev
      /\ Gate(s, status).published = s.published /\ Gate(s, status).checkpoint = s.checkpoint
      /\ Gate(s, status).success = s.success /\ Gate(s, status).validated = 0
  BY <1>4 DEF Source
<1> QED  BY <1>2, <1>3, <1>5, <1>6

(* The source a run leaves behind: its gate is closed, or as it was, or open again behind a
   rollover that the source waited for. *)
LEMMA ClosedSource ==
  ASSUME SourceInv, NEW r \in DOMAIN runs, runs[r].status \notin TerminalRun,
         NEW status \in {"SUCCEEDED", "PARTIAL", "FAILED"}, NEW uncertain \in BOOLEAN,
         runs[r].kind # "VALIDATION" /\ status = "SUCCEEDED" => source.published = runs[r].rev,
         NEW next, next = CloseSource(r, status, uncertain)
  PROVE  /\ next \in Source /\ next.kind = source.kind /\ next.published = source.published
         /\ next.checkpoint = source.checkpoint
         /\ next.gate \in {"AVAILABLE", "DEGRADED"} =>
              source.published # 0 /\ next.validated # 0 /\ next.gateRev > 0
         /\ \/ next.success = source.success
            \/ /\ next.success = r /\ runs[r].kind # "VALIDATION" /\ status = "SUCCEEDED"
               /\ runs[r].rev = source.published
         /\ uncertain => next.gate = "SUSPENDED"
<1>1. /\ source \in Source /\ MaxRuns \in Nat /\ r \in 0..MaxRuns /\ source.gateRev \in Nat
      /\ source.gate \in {"AVAILABLE", "DEGRADED"} =>
           source.published # 0 /\ source.validated # 0 /\ source.gateRev > 0
  BY Rows DEF SourceInv, SourceIsSound, SourceTypeOK, Source
<1>2. CASE uncertain \/ (runs[r].rollover /\ status # "SUCCEEDED")
  <2>1. next = Gate(source, "SUSPENDED") /\ "SUSPENDED" \in GateStatuses
    BY <1>2 DEF CloseSource, GateStatuses
  <2>2. /\ next \in Source /\ next.kind = source.kind /\ next.published = source.published
        /\ next.checkpoint = source.checkpoint /\ next.gate = "SUSPENDED" /\ next.success = source.success
    BY <1>1, <2>1, GateMoves
  <2> QED  BY <2>2
<1>3. CASE /\ ~(uncertain \/ (runs[r].rollover /\ status # "SUCCEEDED"))
           /\ runs[r].kind = "VALIDATION" \/ status # "SUCCEEDED"
  <2>1. next = source /\ ~uncertain
    BY <1>3 DEF CloseSource
  <2> QED  BY <1>1, <2>1
<1>4. CASE ~uncertain /\ runs[r].kind # "VALIDATION" /\ status = "SUCCEEDED" /\ runs[r].rollover
  <2>1. PICK rev : rev = source.gateRev + 1
    OBVIOUS
  <2>2. next = [source EXCEPT !.gate = "AVAILABLE", !.gateRev = rev, !.success = r]
    BY <1>1, <1>4, <2>1 DEF CloseSource, Source
  <2>3. rev \in Nat /\ rev > 0 /\ "AVAILABLE" \in GateStatuses
    BY <1>1, <2>1 DEF GateStatuses
  <2>4. next \in Source
    BY <1>1, <2>2, <2>3 DEF Source
  <2>5. /\ next.kind = source.kind /\ next.published = source.published /\ next.checkpoint = source.checkpoint
        /\ next.validated = source.validated /\ next.gateRev = rev /\ next.success = r
    BY <1>1, <2>2 DEF Source
  <2>6. source.published # 0 /\ source.validated # 0
    <3>1. source.gate = "DEGRADED"
      BY <1>4 DEF SourceInv, ValidationIsAwaited, Open
    <3> QED  BY <1>1, <3>1
  <2> QED  BY <1>4, <2>3, <2>4, <2>5, <2>6
<1>5. CASE ~uncertain /\ runs[r].kind # "VALIDATION" /\ status = "SUCCEEDED" /\ ~runs[r].rollover
  <2>1. next = [source EXCEPT !.success = r]
    BY <1>5 DEF CloseSource
  <2>2. /\ next \in Source /\ next.kind = source.kind /\ next.published = source.published
        /\ next.checkpoint = source.checkpoint /\ next.gate = source.gate
        /\ next.validated = source.validated /\ next.gateRev = source.gateRev /\ next.success = r
    BY <1>1, <2>1 DEF Source
  <2> QED  BY <1>1, <1>5, <2>2
<1> QED  BY <1>2, <1>3, <1>4, <1>5

(* A run is over; its last attempt is accounted for. *)
LEMMA EndSteps ==
  ASSUME SourceInv, NEW r \in DOMAIN runs, NEW e \in 1..MaxEpoch, NEW a \in 1..MaxEpoch,
         Complete(r, e) \/ Fail(r, e) \/ RecordUncertain(r, e, a)
  PROVE  /\ SourceInv'
         /\ \A s \in DOMAIN runs : s # r => runs'[s] = runs[s]
         /\ \/ runs'[r].attempt = 0
            \/ runs'[r].cleanup = "REVOKED" /\ runs'[r].receipt
            \/ runs'[r].status = "FAILED" /\ source'.gate = "SUSPENDED"
<1> USE StatusNames
<1>0. PICK run : run = runs[r]
  OBVIOUS
<1>1. run.status \in Leased /\ run.status \notin TerminalRun /\ run.epoch = e
  BY <1>0 DEF Complete, Fail, RecordUncertain, MayRecordCleanup, Fenced
<1>2. run \in Run /\ SoundRun(run) /\ run.cleanup # "NO_CREDENTIAL"
  BY <1>0, <1>1, OpenRow
<1>3. e \in Nat /\ e > 0
  BY Rows DEF SourceInv
<1>4. /\ run.cleanup = "REVOKED" => run.receipt
      /\ run.cleanup = "NOT_OPENED" => run.attempt = 0
      /\ run.pages = 0 => ~run.rejected
      /\ validRunWorkResult(run)
  BY <1>2 DEF SoundRun
<1>5. ASSUME NEW status \in {"SUCCEEDED", "PARTIAL", "FAILED"}, NEW uncertain \in BOOLEAN, NEW row \in Run, Put(r, row),
             SameWork(row, run),
             row.status = status, SoundRun(row), row.cleanup # "NO_CREDENTIAL",
             run.kind # "VALIDATION" /\ status = "SUCCEEDED" => source.published = run.rev,
             revisions' = CloseRevisions(r, status), source' = CloseSource(r, status, uncertain)
      PROVE  /\ SourceInv' /\ runs'[r] = row /\ (uncertain => source'.gate = "SUSPENDED")
             /\ \A s \in DOMAIN runs : s # r => runs'[s] = runs[s]
  <2>1. PICK next : next = CloseSource(r, status, uncertain)
    OBVIOUS
  <2>2. PICK verdict \in {"VALIDATED", "REJECTED"} : verdict = IF status = "FAILED" THEN "REJECTED" ELSE "VALIDATED"
    OBVIOUS
  <2>3. /\ next \in Source /\ next.kind = source.kind /\ next.published = source.published
        /\ next.checkpoint = source.checkpoint
        /\ next.gate \in {"AVAILABLE", "DEGRADED"} =>
             source.published # 0 /\ next.validated # 0 /\ next.gateRev > 0
        /\ \/ next.success = source.success
           \/ /\ next.success = r /\ runs[r].kind # "VALIDATION" /\ status = "SUCCEEDED"
              /\ runs[r].rev = source.published
        /\ uncertain => next.gate = "SUSPENDED"
    BY <1>0, <1>1, <1>5, <2>1, ClosedSource
  <2>4. revisions' = (IF row.kind = "VALIDATION" THEN [revisions EXCEPT ![row.rev].status = verdict] ELSE revisions)
    BY <1>0, <1>5, <2>2 DEF CloseRevisions, SameWork
  <2>5. row.status \in TerminalRun /\ source' = next /\ runs[r].status \notin TerminalRun
    BY <1>0, <1>1, <1>5, <2>1 DEF TerminalRun
  <2>6. /\ SameWork(row, runs[r])
        /\ \/ next.success = source.success
           \/ /\ next.success = r /\ row.kind # "VALIDATION" /\ row.status = "SUCCEEDED"
              /\ row.rev = source.published
    BY <1>0, <1>5, <2>3 DEF SameWork
  <2>7. SourceInv'
    <3>1. row \in Run /\ Put(r, row) /\ SoundRun(row) /\ row.cleanup # "NO_CREDENTIAL"
      BY <1>5
    <3>2. /\ next \in Source /\ next.kind = source.kind /\ next.published = source.published
          /\ next.checkpoint = source.checkpoint
          /\ next.gate \in {"AVAILABLE", "DEGRADED"} =>
               source.published # 0 /\ next.validated # 0 /\ next.gateRev > 0
      BY <2>3
    <3> HIDE <1>5, <2>3
    <3> QED  BY <2>2, <2>4, <2>5, <2>6, <3>1, <3>2, RunEnds
  <2>8. runs'[r] = row /\ \A s \in DOMAIN runs : s # r => runs'[s] = runs[s]
    BY <1>5, PutRow DEF SourceInv
  <2> QED  BY <2>3, <2>5, <2>7, <2>8
<1>6. ASSUME NEW status \in {"SUCCEEDED", "PARTIAL", "FAILED"}, run.status = "FINALIZING",
             run.cleanup = "REVOKED" \/ (run.cleanup = "NOT_OPENED" /\ status = "FAILED"),
             run.verdict = status, status = "PARTIAL" => run.work = "DATA_PROJECTION",
             run.work \in {"VALIDATION_PROOF", "FAILURE_INTENT"} \/ (run.work = "DATA_PROJECTION" /\ status # "FAILED"),
             run.work = "FAILURE_INTENT" => status = "FAILED",
             Terminate(r, status)
      PROVE  /\ SourceInv'
             /\ runs'[r].attempt = 0 \/ (runs'[r].cleanup = "REVOKED" /\ runs'[r].receipt)
             /\ \A s \in DOMAIN runs : s # r => runs'[s] = runs[s]
  <2>1. PICK row : row = [run EXCEPT !.status = status, !.stage = "COMPLETED", !.live = FALSE]
    OBVIOUS
  <2>2. /\ Put(r, row) /\ revisions' = CloseRevisions(r, status) /\ source' = CloseSource(r, status, FALSE)
        /\ TerminalGuard(r, status, CloseSource(r, status, FALSE))
    BY <1>0, <1>6, <2>1 DEF Terminate
  <2>3. row \in Run
    BY <1>2, <2>1 DEF Run, RunStatuses, TerminalRun, Stages
  <2>4. /\ row.status = status /\ row.stage = "COMPLETED" /\ row.epoch = run.epoch /\ SameRun(row, run)
        /\ row.work = run.work /\ row.verdict = run.verdict
        /\ row.pages = run.pages /\ row.rejected = run.rejected /\ row.complete = run.complete
        /\ row.cleanup = run.cleanup /\ row.attempt = run.attempt /\ row.receipt = run.receipt
    BY <1>2, <2>1 DEF Run, SameRun
  <2>5. run.cleanup = "NOT_OPENED" => run.work = "FAILURE_INTENT" /\ run.pages = 0
    BY <1>0, <2>2 DEF TerminalGuard
  <2>6. run.complete => run.work = "DATA_PROJECTION" /\ ~run.rejected /\ run.kind # "MANUAL"
    BY <1>2 DEF SoundRun, FinalPage
  <2>7. SoundRun(row)
    <3>1. validRunWorkResult(row)
      BY <1>4, <2>4 DEF validRunWorkResult, SameRun
    <3>2. zeroCommittedRunProgress(run) => zeroCommittedRunProgress(row)
      BY <2>4 DEF zeroCommittedRunProgress, FinalPage
    <3>3. run.cleanup = "NOT_OPENED" => zeroCommittedRunProgress(row)
      BY <1>4, <2>4, <2>5, <2>6 DEF zeroCommittedRunProgress, FinalPage
    <3>4. validTerminalRun(row)
      BY <1>1, <1>3, <1>6, <2>4, NoneIsNoWork DEF validTerminalRun, WorkKinds
    <3>5. ValidStatus(row)
      <4>1. CASE status = "SUCCEEDED"
        BY <1>6, <2>4, <3>4, <4>1 DEF ValidStatus, closedCleanup
      <4>2. CASE status = "PARTIAL"
        BY <1>6, <2>4, <3>4, <4>2 DEF ValidStatus, closedCleanup
      <4>3. CASE status = "FAILED"
        BY <1>6, <2>4, <2>5, <3>3, <3>4, <4>3 DEF ValidStatus
      <4> QED  BY <4>1, <4>2, <4>3
    <3>6. row.kind = "VALIDATION" => zeroRunProjection(row)
      BY <1>2, <2>4, <3>2 DEF SoundRun, SameRun, zeroRunProjection
    <3>7. FailureCode(row) => row.status = "FAILED"
      BY <1>6, <2>4 DEF FailureCode
    <3>8. row.status \in TerminalRun
      BY <2>4 DEF TerminalRun
    <3> QED  BY <1>4, <2>4, <2>6, <3>1, <3>5, <3>6, <3>7, <3>8 DEF SoundRun, SameRun, FinalPage
  <2>8. run.kind # "VALIDATION" /\ status = "SUCCEEDED" => source.published = run.rev
    <3> SUFFICES ASSUME run.kind # "VALIDATION", status = "SUCCEEDED" PROVE source.published = run.rev
      OBVIOUS
    <3>1. CloseSource(r, status, FALSE).published = run.rev
      BY <1>0, <2>2 DEF TerminalGuard
    <3>2. source \in Source
      BY Rows DEF SourceInv
    <3>3. CloseSource(r, status, FALSE).published = source.published
      BY <1>0, <3>2 DEF CloseSource, Source
    <3> QED  BY <3>1, <3>3
  <2>9. SameWork(row, run) /\ row.cleanup # "NO_CREDENTIAL"
    BY <1>2, <2>4 DEF SameRun, SameWork
  <2>10. /\ SourceInv' /\ runs'[r] = row /\ \A s \in DOMAIN runs : s # r => runs'[s] = runs[s]
    BY <1>5, <2>2, <2>3, <2>4, <2>7, <2>8, <2>9
  <2> QED  BY <1>4, <1>6, <2>4, <2>10
<1>7. CASE Complete(r, e)
  <2>1. PICK status : status = run.verdict
    OBVIOUS
  <2>2. /\ run.status = "FINALIZING" /\ run.cleanup = "REVOKED" /\ run.work \in {"VALIDATION_PROOF", "DATA_PROJECTION"}
        /\ status \in {"SUCCEEDED", "PARTIAL"} /\ (run.kind = "VALIDATION" => status = "SUCCEEDED")
        /\ Terminate(r, status)
    BY <1>0, <1>7, <2>1 DEF Complete, Cleaned
  <2>3. status = "PARTIAL" => run.work = "DATA_PROJECTION"
    BY <1>4, <2>1, <2>2 DEF validRunWorkResult
  <2> QED  BY <1>6, <2>1, <2>2, <2>3
<1>8. CASE Fail(r, e)
  <2>1. /\ run.status = "FINALIZING" /\ run.cleanup \in {"REVOKED", "NOT_OPENED"} /\ run.verdict = "FAILED"
        /\ run.work \in {"VALIDATION_PROOF", "FAILURE_INTENT"} /\ Terminate(r, "FAILED")
    BY <1>0, <1>8 DEF Fail, Cleaned
  <2> QED  BY <1>6, <2>1
<1>9. CASE RecordUncertain(r, e, a)
  <2>1. PICK base : base = IF run.work = None THEN FailureIntent(run) ELSE run
    OBVIOUS
  <2>2. PICK row : row = [base EXCEPT !.cleanup = "UNCERTAIN", !.receipt = TRUE, !.pending = FALSE,
                                      !.status = "FAILED", !.stage = "COMPLETED", !.live = FALSE]
    OBVIOUS
  <2>3. Put(r, row) /\ revisions' = CloseRevisions(r, "FAILED") /\ source' = CloseSource(r, "FAILED", TRUE)
    BY <1>0, <1>9, <2>1, <2>2 DEF RecordUncertain
  <2>4. run.work = None => run.status = "RUNNING"
    BY <1>1, <1>2, SoundOpen DEF Leased
  <2>5. base \in Run /\ SoundRun(base) /\ SameRun(base, run) /\ base.work # None /\ base.epoch = run.epoch
    <3>1. CASE run.work = None
      <4>1. FailureIntent(run).work = "FAILURE_INTENT" /\ FailureIntent(run).epoch = run.epoch
        BY <1>2 DEF FailureIntent, Run
      <4> QED  BY <1>2, <2>1, <2>4, <3>1, <4>1, FailureIntentSound, NoneIsNoWork DEF WorkKinds
    <3>2. CASE run.work # None
      BY <1>2, <2>1, <3>2 DEF SameRun
    <3> QED  BY <3>1, <3>2
  <2>6. row \in Run
    BY <2>2, <2>5 DEF Run, RunStatuses, TerminalRun, Stages
  <2>7. /\ row.status = "FAILED" /\ row.stage = "COMPLETED" /\ row.epoch = base.epoch /\ SameRun(row, base)
        /\ row.work = base.work /\ row.verdict = base.verdict
        /\ row.pages = base.pages /\ row.rejected = base.rejected /\ row.complete = base.complete
        /\ row.cleanup = "UNCERTAIN"
    BY <2>2, <2>5 DEF Run, SameRun
  <2>8. SoundRun(row)
    <3>1. validRunWorkResult(row)
      BY <2>5, <2>7 DEF SoundRun, validRunWorkResult, SameRun
    <3>2. row.kind = "VALIDATION" => zeroRunProjection(row)
      BY <2>5, <2>7 DEF SoundRun, zeroRunProjection, zeroCommittedRunProgress, FinalPage, SameRun
    <3>3. ValidStatus(row)
      BY <1>1, <1>3, <2>5, <2>7 DEF ValidStatus, validTerminalRun
    <3>4. row.complete => FinalPage(row) /\ ~row.rejected /\ row.kind # "MANUAL"
      BY <2>5, <2>7 DEF SoundRun, FinalPage, SameRun
    <3>5. (row.pages = 0 => ~row.rejected) /\ row.status \in TerminalRun
      BY <2>5, <2>7 DEF SoundRun, TerminalRun
    <3> QED  BY <2>7, <3>1, <3>2, <3>3, <3>4, <3>5 DEF SoundRun
  <2>9. SameWork(row, run)
    BY <2>5, <2>7 DEF SameRun, SameWork
  <2>10. PICK uncertain \in BOOLEAN : uncertain
    OBVIOUS
  <2>11. source' = CloseSource(r, "FAILED", uncertain)
    BY <2>3, <2>10
  <2>12. /\ SourceInv' /\ runs'[r] = row /\ source'.gate = "SUSPENDED"
         /\ \A s \in DOMAIN runs : s # r => runs'[s] = runs[s]
    BY <1>5, <2>3, <2>6, <2>7, <2>8, <2>9, <2>10, <2>11
  <2> QED  BY <2>7, <2>12
<1> QED  BY <1>7, <1>8, <1>9

-----------------------------------------------------------------------------
(* The commands of an operator. *)

\* The runs as they are, but that some that waited were cancelled.
Settles(rows) ==
  /\ rows \in Seq(Run) /\ Len(rows) = Len(runs) /\ DOMAIN rows = DOMAIN runs
  /\ \A s \in DOMAIN runs :
       /\ SameRun(rows[s], runs[s]) /\ SoundRun(rows[s]) /\ rows[s].cleanup = runs[s].cleanup
       /\ rows[s] = runs[s] \/ (s \in Open /\ Cancellable(s) /\ rows[s].status = "CANCELLED")

(* The runs that wait are cancelled. *)
LEMMA PrelockedRuns ==
  ASSUME SourceInv, NEW rows, rows = CancelPrelockedRuns(runs)
  PROVE  /\ Settles(rows)
         /\ \A s \in Open : Cancellable(s) => rows[s].status = "CANCELLED"
<1>1. /\ Len(runs) \in Nat /\ DOMAIN runs = 1..Len(runs) /\ \A s \in DOMAIN runs : runs[s] \in Run
      /\ Open \subseteq DOMAIN runs
  BY Rows DEF SourceInv, Open
<1>2. ASSUME NEW s \in Open, Cancellable(s)
      PROVE  /\ rows[s] = Cancelled(runs[s]) /\ rows[s] \in Run /\ SameRun(rows[s], runs[s]) /\ SoundRun(rows[s])
             /\ rows[s].status = "CANCELLED" /\ rows[s].cleanup = runs[s].cleanup
  <2>1. rows[s] = Cancelled(runs[s])
    BY <1>1, <1>2 DEF CancelPrelockedRuns
  <2>2. PICK run : run = runs[s]
    OBVIOUS
  <2>3. run.status \in {"QUEUED", "DELAYED"} /\ (run.status = "DELAYED" => run.cleanup = "REVOKED")
    BY <1>2, <2>2 DEF Cancellable
  <2>4. run \in Run /\ SoundRun(run)
    BY <1>1, <2>2 DEF SourceInv, RunsAreSound
  <2> QED  BY <2>1, <2>2, <2>3, <2>4, CancelledSound
<1>3. ASSUME NEW s \in DOMAIN runs, ~(s \in Open /\ Cancellable(s))
      PROVE  rows[s] = runs[s] /\ rows[s] \in Run /\ SameRun(rows[s], runs[s]) /\ SoundRun(rows[s])
  <2>1. rows[s] = runs[s]
    BY <1>3 DEF CancelPrelockedRuns
  <2> QED  BY <1>1, <2>1 DEF SourceInv, RunsAreSound, SameRun
<1>4. DOMAIN rows = DOMAIN runs /\ \A s \in DOMAIN runs : rows[s] \in Run
  BY <1>2, <1>3 DEF CancelPrelockedRuns
<1>5. rows = [s \in 1..Len(runs) |-> rows[s]]
  BY <1>1 DEF CancelPrelockedRuns
<1>6. rows \in Seq(Run) /\ Len(rows) = Len(runs)
  BY <1>1, <1>4, <1>5
<1> QED  BY <1>2, <1>3, <1>4, <1>6 DEF Settles

(* Nothing is cancelled. *)
LEMMA RunsSettle ==
  ASSUME SourceInv
  PROVE  Settles(runs)
BY DEF Settles, SourceInv, SourceTypeOK, RunsAreSound, SameRun

(* The revisions of validations that were cancelled are rejected, the others are as they were. *)
LEMMA PrelockedRevisions ==
  ASSUME SourceInv, NEW rows, rows = CancelPrelockedRevisions(revisions)
  PROVE  /\ rows \in Seq(Revision) /\ Len(rows) = Len(revisions) /\ DOMAIN rows = DOMAIN revisions
         /\ \A n \in DOMAIN revisions :
              /\ rows[n].run = revisions[n].run
              /\ rows[n] = revisions[n] \/ (rows[n].status = "REJECTED" /\ revisions[n].status = "VALIDATING")
<1>1. /\ Len(revisions) \in Nat /\ DOMAIN revisions = 1..Len(revisions) /\ Open \subseteq DOMAIN runs
      /\ \A n \in DOMAIN revisions : revisions[n] \in Revision
      /\ \A s \in DOMAIN runs : s # 0
  BY Rows DEF SourceInv, Open
<1>2. ASSUME NEW n \in DOMAIN revisions
      PROVE  /\ rows[n] \in Revision /\ rows[n].run = revisions[n].run
             /\ rows[n] = revisions[n] \/ (rows[n].status = "REJECTED" /\ revisions[n].status = "VALIDATING")
  <2>1. CASE \E r \in Open : runs[r].kind = "VALIDATION" /\ revisions[n].run = r /\ Cancellable(r)
    <3>1. PICK r \in Open : runs[r].kind = "VALIDATION" /\ revisions[n].run = r /\ Cancellable(r)
      BY <2>1
    <3>2. rows[n] = [revisions[n] EXCEPT !.status = "REJECTED"]
      BY <3>1 DEF CancelPrelockedRevisions
    <3>3. rows[n] \in Revision /\ rows[n].run = revisions[n].run /\ rows[n].status = "REJECTED"
      BY <1>1, <3>2 DEF Revision, RevisionStatuses
    <3>4. revisions[n].status # "DRAFT"
      BY <1>1, <3>1 DEF SourceInv, RevisionsAreSound, validRevisionValidationClosure
    <3>5. runs[r].rev = n
      BY <3>1, <3>4 DEF SourceInv, RevisionsAreSound
    <3>6. revisions[n].status = "VALIDATING"
      BY <3>1, <3>5 DEF SourceInv, ValidationIsAwaited
    <3> QED  BY <3>3, <3>6
  <2>2. CASE ~ \E r \in Open : runs[r].kind = "VALIDATION" /\ revisions[n].run = r /\ Cancellable(r)
    <3>1. rows[n] = revisions[n]
      BY <2>2 DEF CancelPrelockedRevisions
    <3> QED  BY <1>1, <3>1
  <2> QED  BY <2>1, <2>2
<1>3. DOMAIN rows = DOMAIN revisions /\ rows = [n \in 1..Len(revisions) |-> rows[n]]
  BY <1>1 DEF CancelPrelockedRevisions
<1>4. rows \in Seq(Revision) /\ Len(rows) = Len(revisions)
  BY <1>1, <1>2, <1>3
<1> QED  BY <1>2, <1>3, <1>4

(* A run is created. *)
LEMMA AppendedRun ==
  ASSUME SourceInv, NEW rows, Settles(rows), NEW row \in Run, runs' = Append(rows, row)
  PROVE  /\ runs' \in Seq(Run) /\ Len(runs') = Len(runs) + 1 /\ DOMAIN runs' = DOMAIN runs \cup {Len(runs) + 1}
         /\ Len(runs) + 1 \notin DOMAIN runs /\ runs'[Len(runs) + 1] = row
         /\ \A s \in DOMAIN runs : runs'[s] = rows[s]
<1>1. Len(runs) \in Nat /\ DOMAIN runs = 1..Len(runs)
  BY Rows DEF SourceInv
<1>2. rows \in Seq(Run) /\ Len(rows) = Len(runs)
  BY DEF Settles
<1> QED  BY <1>1, <1>2

\* Nothing was read yet.
Fresh(run) == run.pages = 0 /\ ~run.rejected /\ ~run.complete /\ ~run.rollover

(* The queued run of a command is sound. *)
LEMMA NewRunSound ==
  ASSUME NEW kind \in {"VALIDATION", "DISCOVERY", "MANUAL"}, NEW key \in Keys, NEW rev \in 1..MaxRevisions,
         NEW gateRev \in Nat, NEW checkpoint \in Nat, NEW run, run = NewRun(kind, key, rev, gateRev, checkpoint),
         MaxPages \in Nat, MaxEpoch \in Nat
  PROVE  /\ run \in Run /\ run.kind = kind /\ run.key = key /\ run.rev = rev /\ run.gateRev = gateRev
         /\ run.checkpoint = checkpoint /\ run.status = "QUEUED" /\ run.cleanup = "NOT_OPENED" /\ Fresh(run)
         /\ kind # "MANUAL" /\ (kind = "VALIDATION" => checkpoint = 0) => SoundRun(run)
<1>1. /\ run.kind = kind /\ run.key = key /\ run.rev = rev /\ run.gateRev = gateRev
      /\ run.checkpoint = checkpoint /\ run.status = "QUEUED" /\ run.stage = "WAITING" /\ run.cleanup = "NOT_OPENED"
      /\ run.rollover = FALSE /\ run.pages = 0 /\ run.rejected = FALSE /\ run.complete = FALSE /\ run.attempt = 0
      /\ run.epoch = 0 /\ run.work = None /\ run.verdict = None
  BY DEF NewRun
<1>2. run \in Run
  <2>1. 0 \in 0..MaxPages /\ 0 \in 0..MaxEpoch /\ "QUEUED" \in RunStatuses /\ "WAITING" \in Stages
    BY DEF RunStatuses, Stages
  <2> QED  BY <2>1 DEF NewRun, Run
<1>3. ASSUME kind # "MANUAL", kind = "VALIDATION" => checkpoint = 0 PROVE SoundRun(run)
  <2>1. validRunWorkResult(run) /\ ~FailureCode(run) /\ zeroCommittedRunProgress(run)
    BY <1>1, NoneIsNoWork DEF validRunWorkResult, FailureCode, zeroCommittedRunProgress, FinalPage, WorkKinds
  <2>2. ValidStatus(run)
    BY <1>1, <2>1 DEF ValidStatus
  <2> QED  BY <1>1, <1>3, <2>1, <2>2 DEF SoundRun, zeroRunProjection
<1> QED  BY <1>1, <1>2, <1>3 DEF Fresh

\* What a run of one command read.
WithPages(run, pages) == [run EXCEPT !.pages = pages]

(* The run of a command that begins and ends it is sound. *)
LEMMA InOneCommandSound ==
  ASSUME NEW base \in Run, Fresh(base),
         NEW pages \in {0, 1}, NEW work \in {"VALIDATION_PROOF", "DATA_PROJECTION"},
         work = "VALIDATION_PROOF" => base.kind = "VALIDATION" /\ pages = 0 /\ base.checkpoint = 0,
         work = "DATA_PROJECTION" => base.kind = "MANUAL",
         MaxEpoch \in Nat, MaxEpoch > 0, MaxPages \in Nat, MaxPages > 0,
         NEW run, run = WithPages(InOneCommand(base, work), pages)
  PROVE  /\ run \in Run /\ run.kind = base.kind /\ run.key = base.key /\ run.rev = base.rev
         /\ run.status = "SUCCEEDED" /\ run.cleanup = "NO_CREDENTIAL" /\ ~run.rollover
         /\ run.pages = pages /\ run.checkpoint = base.checkpoint
         /\ SoundRun(run)
<1>1. PICK done : done = InOneCommand(base, work)
  OBVIOUS
<1>2. /\ 1 \in 0..MaxEpoch /\ pages \in 0..MaxPages /\ work \in WorkKinds /\ "SUCCEEDED" \in RunStatuses
      /\ "COMPLETED" \in Stages
  BY DEF WorkKinds, RunStatuses, TerminalRun, Stages
<1>3. done \in Run
  BY <1>1, <1>2 DEF InOneCommand, Run
<1>4. /\ done.status = "SUCCEEDED" /\ done.stage = "COMPLETED" /\ done.epoch = 1 /\ done.work = work
      /\ done.verdict = "SUCCEEDED" /\ done.cleanup = "NO_CREDENTIAL" /\ done.kind = base.kind /\ done.key = base.key
      /\ done.rev = base.rev /\ done.checkpoint = base.checkpoint /\ done.complete = base.complete
      /\ done.rejected = base.rejected /\ done.rollover = base.rollover
  BY <1>1 DEF InOneCommand, Run
<1>5. /\ run \in Run /\ run.pages = pages
      /\ run.status = done.status /\ run.stage = done.stage /\ run.epoch = done.epoch /\ run.work = done.work
      /\ run.verdict = done.verdict /\ run.cleanup = done.cleanup /\ run.kind = done.kind /\ run.key = done.key
      /\ run.rev = done.rev /\ run.checkpoint = done.checkpoint /\ run.complete = done.complete
      /\ run.rejected = done.rejected /\ run.rollover = done.rollover
  BY <1>1, <1>2, <1>3 DEF Run, WithPages
<1>6. validRunWorkResult(run) /\ ~FailureCode(run)
  BY <1>4, <1>5 DEF validRunWorkResult, FailureCode
<1>7. ValidStatus(run)
  <2>1. validTerminalRun(run) /\ closedCleanup(run)
    BY <1>2, <1>4, <1>5, NoneIsNoWork DEF validTerminalRun, closedCleanup
  <2> QED  BY <1>4, <1>5, <2>1 DEF ValidStatus
<1>8. run.kind = "VALIDATION" => zeroRunProjection(run)
  BY <1>4, <1>5 DEF zeroRunProjection, zeroCommittedRunProgress, FinalPage, Fresh
<1>9. SoundRun(run)
  BY <1>4, <1>5, <1>6, <1>7, <1>8 DEF SoundRun, TerminalRun, Fresh
<1> QED  BY <1>4, <1>5, <1>9 DEF Fresh

(* What every command keeps: the rows it does not create are those it found, or cancelled. *)
LEMMA CommandRows ==
  ASSUME SourceInv, NEW rows, Settles(rows),
         runs' \in Seq(Run), Len(runs') <= MaxRuns, DOMAIN runs \subseteq DOMAIN runs',
         \A s \in DOMAIN runs : runs'[s] = rows[s],
         \A s \in DOMAIN runs' \ DOMAIN runs :
           /\ s = Len(runs) + 1 /\ SoundRun(runs'[s]) /\ runs'[s].rev \in DOMAIN revisions'
           /\ runs'[s].cleanup = "NO_CREDENTIAL" <=> source'.kind = "MANUAL"
           /\ \A q \in DOMAIN runs : runs'[s].key # runs[q].key
           /\ runs'[s].kind # "VALIDATION" => revisions'[runs'[s].rev].status \in {"PUBLISHED", "SUPERSEDED"},
         revisions' \in Seq(Revision), Len(revisions') <= MaxRevisions, DOMAIN revisions \subseteq DOMAIN revisions',
         \A n \in DOMAIN revisions' :
           \/ revisions'[n] = [status |-> "DRAFT", run |-> 0]
           \/ /\ n \in DOMAIN revisions /\ revisions'[n].run = revisions[n].run
              /\ revisions'[n].status = "DRAFT" <=> revisions[n].status = "DRAFT"
           \/ /\ revisions'[n].status # "DRAFT" /\ revisions'[n].run \in DOMAIN runs' \ DOMAIN runs
              /\ runs'[revisions'[n].run].kind = "VALIDATION" /\ runs'[revisions'[n].run].rev = n,
         \A n \in DOMAIN revisions :
           revisions[n].status \in {"PUBLISHED", "SUPERSEDED"} => revisions'[n].status \in {"PUBLISHED", "SUPERSEDED"},
         source' \in Source, source'.kind = source.kind, source.kind # None,
         source'.published # 0 =>
           /\ source'.published \in DOMAIN revisions /\ revisions'[source'.published].status = "PUBLISHED"
           /\ revisions'[source'.published].run = revisions[source'.published].run
           /\ runs[revisions[source'.published].run].status = "SUCCEEDED",
         source'.gate \in {"AVAILABLE", "DEGRADED"} =>
           source'.published # 0 /\ source'.validated # 0 /\ source'.gateRev > 0,
         source'.published = 0 => source'.checkpoint = 0,
         \/ source'.success = 0
         \/ source'.success = source.success /\ source'.published = source.published
         \/ /\ source'.success \in DOMAIN runs' \ DOMAIN runs /\ runs'[source'.success].kind # "VALIDATION"
            /\ runs'[source'.success].status = "SUCCEEDED" /\ runs'[source'.success].rev = source'.published
  PROVE  /\ SourceTypeOK' /\ RunsAreSound' /\ RevisionsAreSound' /\ OneRunPerCommand' /\ PublishedIsProved'
         /\ SourceIsSound'
<1> USE DEF SourceInv
<1>1. \A s \in DOMAIN runs : /\ runs'[s].kind = runs[s].kind /\ runs'[s].key = runs[s].key
                             /\ runs'[s].rev = runs[s].rev /\ SoundRun(runs'[s])
                             /\ runs'[s].cleanup = runs[s].cleanup
                             /\ runs[s].status = "SUCCEEDED" => runs'[s] = runs[s]
  BY DEF Settles, SameRun, Open, TerminalRun
<1>2. SourceTypeOK'
  BY DEF SourceTypeOK
<1>3. RunsAreSound'
  <2> SUFFICES ASSUME NEW s \in DOMAIN runs'
               PROVE  /\ SoundRun(runs'[s]) /\ runs'[s].rev \in DOMAIN revisions'
                      /\ runs'[s].cleanup = "NO_CREDENTIAL" <=> source'.kind = "MANUAL"
                      /\ runs'[s].kind # "VALIDATION" =>
                           revisions'[runs'[s].rev].status \in {"PUBLISHED", "SUPERSEDED"}
    BY DEF RunsAreSound, SoundRun, validRunWorkResult, ValidStatus, FailureCode, AboutToFail, FinalPage,
           zeroRunProjection, zeroCommittedRunProgress, closedCleanup, validTerminalRun
  <2>1. CASE s \in DOMAIN runs
    <3>1. /\ runs[s].rev \in DOMAIN revisions /\ (runs[s].cleanup = "NO_CREDENTIAL" <=> source.kind = "MANUAL")
          /\ runs[s].kind # "VALIDATION" => revisions[runs[s].rev].status \in {"PUBLISHED", "SUPERSEDED"}
      BY <2>1 DEF RunsAreSound
    <3> QED  BY <1>1, <2>1, <3>1
  <2>2. CASE s \notin DOMAIN runs
    BY <2>2
  <2> QED  BY <2>1, <2>2
<1>4. RevisionsAreSound'
  <2> SUFFICES ASSUME NEW n \in DOMAIN revisions'
               PROVE  /\ validRevisionValidationClosure(revisions'[n])
                      /\ revisions'[n].status # "DRAFT" =>
                           /\ revisions'[n].run \in DOMAIN runs'
                           /\ runs'[revisions'[n].run].kind = "VALIDATION" /\ runs'[revisions'[n].run].rev = n
    BY DEF RevisionsAreSound, validRevisionValidationClosure
  <2>1. CASE revisions'[n] = [status |-> "DRAFT", run |-> 0]
    BY <2>1 DEF validRevisionValidationClosure
  <2>2. CASE /\ n \in DOMAIN revisions /\ revisions'[n].run = revisions[n].run
             /\ revisions'[n].status = "DRAFT" <=> revisions[n].status = "DRAFT"
    <3>1. /\ validRevisionValidationClosure(revisions[n])
          /\ revisions[n].status # "DRAFT" =>
               /\ revisions[n].run \in DOMAIN runs
               /\ runs[revisions[n].run].kind = "VALIDATION" /\ runs[revisions[n].run].rev = n
      BY <2>2 DEF RevisionsAreSound
    <3> QED  BY <1>1, <2>2, <3>1 DEF validRevisionValidationClosure
  <2>3. CASE /\ revisions'[n].status # "DRAFT" /\ revisions'[n].run \in DOMAIN runs' \ DOMAIN runs
             /\ runs'[revisions'[n].run].kind = "VALIDATION" /\ runs'[revisions'[n].run].rev = n
    <3>1. revisions'[n].run # 0
      BY <2>3
    <3> QED  BY <2>3, <3>1 DEF validRevisionValidationClosure
  <2> QED  BY <2>1, <2>2, <2>3
<1>5. OneRunPerCommand'
  <2> SUFFICES ASSUME NEW s \in DOMAIN runs', NEW q \in DOMAIN runs', runs'[s].key = runs'[q].key PROVE s = q
    BY DEF OneRunPerCommand
  <2>1. CASE s \in DOMAIN runs /\ q \in DOMAIN runs
    BY <1>1, <2>1 DEF OneRunPerCommand
  <2>2. CASE s \notin DOMAIN runs \/ q \notin DOMAIN runs
    BY <1>1, <2>2
  <2> QED  BY <2>1, <2>2
<1>6. PublishedIsProved'
  <2>1. ASSUME source'.published # 0
        PROVE  runs'[revisions'[source'.published].run].status = "SUCCEEDED"
    <3>1. revisions'[source'.published].run = revisions[source'.published].run /\ source'.published \in DOMAIN revisions
          /\ runs[revisions[source'.published].run].status = "SUCCEEDED"
      BY <2>1
    <3>2. revisions'[source'.published].status # "DRAFT" /\ revisions'[source'.published] # [status |-> "DRAFT", run |-> 0]
      BY <2>1
    <3>3. revisions'[source'.published].run \notin DOMAIN runs' \ DOMAIN runs
      <4> SUFFICES ASSUME revisions'[source'.published].run \in DOMAIN runs' \ DOMAIN runs PROVE FALSE
        OBVIOUS
      <4>1. revisions[source'.published].run \notin DOMAIN runs /\ revisions[source'.published].run # 0
        BY <3>1, Rows
      <4> QED  BY <3>1, <4>1 DEF RevisionsAreSound, validRevisionValidationClosure
    <3>4. revisions'[source'.published].run \in DOMAIN runs'
      BY <1>4, <2>1, <3>2 DEF RevisionsAreSound
    <3> QED  BY <1>1, <3>1, <3>3, <3>4
  <2> QED  BY <2>1 DEF PublishedIsProved
<1>7. SourceIsSound'
  <2>1. revisions # <<>> /\ revisions' # <<>>
    <3>1. revisions # <<>>
      BY DEF SourceIsSound
    <3>2. 1 \in DOMAIN revisions
      BY <3>1, Rows
    <3> QED  BY <3>1, <3>2
  <2>2. source.success # 0 =>
          /\ source.success \in DOMAIN runs /\ runs[source.success].kind # "VALIDATION"
          /\ runs[source.success].status = "SUCCEEDED" /\ runs[source.success].rev = source.published
    BY DEF SourceIsSound
  <2>3. source'.success # 0 =>
          /\ source'.success \in DOMAIN runs' /\ runs'[source'.success].kind # "VALIDATION"
          /\ runs'[source'.success].status = "SUCCEEDED" /\ runs'[source'.success].rev = source'.published
    BY <1>1, <2>2
  <2> QED  BY <2>1, <2>3 DEF SourceIsSound
<1> QED  BY <1>2, <1>3, <1>4, <1>5, <1>6, <1>7

(* The source is created. *)
LEMMA CreateSourceStep ==
  ASSUME SourceInv, NEW kind \in {"MANUAL", "EXTERNAL"}, CreateSource(kind)
  PROVE  SourceInv'
<1> USE DEF SourceInv
<1>1. /\ source.kind = None /\ revisions = <<>> /\ runs = <<>> /\ source.published = 0 /\ source \in Source
      /\ runs' = <<>> /\ MaxRevisions \in Nat /\ MaxRevisions > 0 /\ MaxRuns \in Nat
  BY Rows DEF CreateSource, SourceIsSound
<1>2. PICK row : row = [status |-> "DRAFT", run |-> 0]
  OBVIOUS
<1>3. row \in Revision /\ validRevisionValidationClosure(row) /\ row.status = "DRAFT"
  BY <1>1, <1>2 DEF Revision, RevisionStatuses, validRevisionValidationClosure
<1>4. revisions' = <<row>> /\ Len(revisions') = 1 /\ DOMAIN revisions' = {1} /\ revisions'[1] = row
      /\ revisions' \in Seq(Revision)
  BY <1>2, <1>3 DEF CreateSource
<1>5. /\ source' \in Source /\ source'.kind = kind /\ source'.published = 0 /\ source'.gate = source.gate
      /\ source'.checkpoint = source.checkpoint /\ source'.success = source.success
  BY <1>1 DEF CreateSource, Source
<1>6. DOMAIN runs = {} /\ DOMAIN runs' = {} /\ Open' = {} /\ Len(runs') = 0 /\ runs' \in Seq(Run)
  BY <1>1 DEF Open
<1>7. SourceTypeOK'
  BY <1>1, <1>4, <1>5, <1>6 DEF SourceTypeOK
<1>8. RunsAreSound' /\ OneIsOpen' /\ ValidationIsAwaited' /\ OnlyDisableDrifts' /\ OneRunPerCommand'
  BY <1>6 DEF RunsAreSound, OneIsOpen, ValidationIsAwaited, OnlyDisableDrifts, OneRunPerCommand
<1>9. RevisionsAreSound' /\ PublishedIsProved'
  BY <1>3, <1>4, <1>5 DEF RevisionsAreSound, PublishedIsProved, validRevisionValidationClosure
<1>10. SourceIsSound'
  BY <1>1, <1>4, <1>5, <1>6, NoneIsNoWork DEF SourceIsSound
<1>11. CheckpointIsApplied'
  BY <1>5 DEF CheckpointIsApplied
<1> QED  BY <1>7, <1>8, <1>9, <1>10, <1>11

(* The rows behind an open gate and a published revision, as SourceInv says. *)
LEMMA Behind ==
  ASSUME SourceInv
  PROVE  /\ source.published # 0 =>
              /\ source.published \in DOMAIN revisions /\ revisions[source.published].status = "PUBLISHED"
              /\ runs[revisions[source.published].run].status = "SUCCEEDED"
              /\ revisions[source.published].run \in DOMAIN runs /\ revisions[source.published].run # 0
         /\ source.gate \in {"AVAILABLE", "DEGRADED"} =>
              source.published # 0 /\ source.validated # 0 /\ source.gateRev > 0
         /\ source.published = 0 => source.checkpoint = 0
         /\ revisions # <<>> <=> source.kind # None
BY Rows DEF SourceInv, PublishedIsProved, SourceIsSound, RevisionsAreSound

(* A draft is added. *)
LEMMA CreateRevisionStep ==
  ASSUME SourceInv, CreateRevision
  PROVE  SourceInv'
<1>1. /\ Len(revisions) \in Nat /\ DOMAIN revisions = 1..Len(revisions) /\ revisions \in Seq(Revision)
      /\ source \in Source /\ MaxRevisions \in Nat /\ runs \in Seq(Run) /\ Len(runs) <= MaxRuns /\ MaxRuns \in Nat
  BY Rows DEF SourceInv, SourceTypeOK
<1>2. PICK row : row = [status |-> "DRAFT", run |-> 0]
  OBVIOUS
<1>3. row \in Revision
  BY <1>1, <1>2 DEF Revision, RevisionStatuses
<1>4. /\ revisions' = Append(revisions, row) /\ Len(revisions) < MaxRevisions /\ source.kind # None
      /\ source' = source /\ runs' = runs
  BY <1>2 DEF CreateRevision
<1>5. /\ revisions' \in Seq(Revision) /\ Len(revisions') <= MaxRevisions
      /\ DOMAIN revisions' = DOMAIN revisions \cup {Len(revisions) + 1}
      /\ revisions'[Len(revisions) + 1] = row /\ \A n \in DOMAIN revisions : revisions'[n] = revisions[n]
  BY <1>1, <1>3, <1>4
<1>6. \A n \in DOMAIN revisions' :
        \/ revisions'[n] = [status |-> "DRAFT", run |-> 0]
        \/ /\ n \in DOMAIN revisions /\ revisions'[n].run = revisions[n].run
           /\ revisions'[n].status = "DRAFT" <=> revisions[n].status = "DRAFT"
  BY <1>2, <1>5
<1>7. Settles(runs)
  BY RunsSettle
<1>8. source'.published # 0 =>
        /\ source'.published \in DOMAIN revisions /\ revisions'[source'.published].status = "PUBLISHED"
        /\ revisions'[source'.published].run = revisions[source'.published].run
        /\ runs[revisions[source'.published].run].status = "SUCCEEDED"
  BY <1>4, <1>5, Behind
<1>9. /\ SourceTypeOK' /\ RunsAreSound' /\ RevisionsAreSound' /\ OneRunPerCommand' /\ PublishedIsProved'
      /\ SourceIsSound'
  BY <1>1, <1>4, <1>5, <1>6, <1>7, <1>8, Behind, CommandRows
<1>10. Open' = Open /\ Open \subseteq DOMAIN runs
  BY <1>4 DEF Open
<1>11. \A s \in DOMAIN runs : runs[s].rev \in DOMAIN revisions
  BY DEF SourceInv, RunsAreSound
<1>12. OneIsOpen' /\ ValidationIsAwaited'
  BY <1>4, <1>5, <1>10, <1>11 DEF SourceInv, OneIsOpen, ValidationIsAwaited
<1>13. OnlyDisableDrifts'
  BY <1>4, <1>5, <1>11 DEF SourceInv, OnlyDisableDrifts, Admitted
<1>14. CheckpointIsApplied'
  BY <1>4, CheckpointKept
<1> QED  BY <1>9, <1>12, <1>13, <1>14 DEF SourceInv

(* A run of discovery is queued behind an open gate. *)
LEMMA RequestSyncStep ==
  ASSUME SourceInv, NEW key \in Keys, RequestSync(key)
  PROVE  SourceInv'
<1>1. /\ Len(runs) \in Nat /\ source \in Source /\ MaxRuns \in Nat /\ MaxPages \in Nat /\ MaxEpoch \in Nat
      /\ revisions \in Seq(Revision) /\ Len(revisions) <= MaxRevisions /\ MaxRevisions \in Nat
      /\ Len(revisions) \in Nat /\ DOMAIN revisions = 1..Len(revisions)
  BY Rows DEF SourceInv, SourceTypeOK
<1>2. PICK row : row = NewRun("DISCOVERY", key, source.published, source.gateRev, source.checkpoint)
  OBVIOUS
<1>3. /\ \A q \in DOMAIN runs : runs[q].key # key
      /\ Len(runs) < MaxRuns /\ Open = {} /\ source.kind = "EXTERNAL" /\ source.published # 0
      /\ runs' = Append(runs, row) /\ source' = source /\ revisions' = revisions
  BY <1>2 DEF RequestSync, Replayed
<1>4. source.published \in DOMAIN revisions /\ source.gateRev \in Nat /\ source.checkpoint \in Nat
  BY <1>1, <1>3, Behind DEF Source
<1>5. /\ row \in Run /\ row.kind = "DISCOVERY" /\ row.key = key /\ row.rev = source.published
      /\ row.status = "QUEUED" /\ row.cleanup = "NOT_OPENED" /\ ~row.rollover /\ SoundRun(row)
      /\ row.checkpoint = source.checkpoint /\ row.pages = 0
  <2>1. source.published \in 1..MaxRevisions
    BY <1>1, <1>4
  <2>2. PICK kind \in {"VALIDATION", "DISCOVERY", "MANUAL"} : kind = "DISCOVERY"
    OBVIOUS
  <2>3. PICK rev \in 1..MaxRevisions, gateRev \in Nat, checkpoint \in Nat :
          rev = source.published /\ gateRev = source.gateRev /\ checkpoint = source.checkpoint
    BY <1>4, <2>1
  <2>4. row = NewRun(kind, key, rev, gateRev, checkpoint) /\ MaxPages \in Nat /\ MaxEpoch \in Nat
    BY <1>1, <1>2, <2>2, <2>3
  <2>5. /\ row \in Run /\ row.kind = kind /\ row.key = key /\ row.rev = rev
        /\ row.status = "QUEUED" /\ row.cleanup = "NOT_OPENED" /\ Fresh(row) /\ row.checkpoint = checkpoint
    BY <2>4, NewRunSound
  <2>6. kind # "MANUAL" /\ kind # "VALIDATION"
    BY <2>2
  <2>7. SoundRun(row)
    BY <2>4, <2>6, NewRunSound
  <2> QED  BY <2>2, <2>3, <2>5, <2>7 DEF Fresh
<1>6. Settles(runs)
  BY RunsSettle
<1>7. /\ runs' \in Seq(Run) /\ Len(runs') = Len(runs) + 1 /\ DOMAIN runs' = DOMAIN runs \cup {Len(runs) + 1}
      /\ Len(runs) + 1 \notin DOMAIN runs /\ runs'[Len(runs) + 1] = row
      /\ \A s \in DOMAIN runs : runs'[s] = runs[s]
  BY <1>3, <1>5, <1>6, AppendedRun
<1>8. Len(runs') <= MaxRuns /\ source.kind # "MANUAL" /\ source.kind # None
  BY <1>1, <1>3, <1>7, NoneIsNoWork
<1>9. \A s \in DOMAIN runs' \ DOMAIN runs :
        /\ s = Len(runs) + 1 /\ SoundRun(runs'[s]) /\ runs'[s].rev \in DOMAIN revisions'
        /\ runs'[s].cleanup = "NO_CREDENTIAL" <=> source'.kind = "MANUAL"
        /\ \A q \in DOMAIN runs : runs'[s].key # runs[q].key
        /\ runs'[s].kind # "VALIDATION" => revisions'[runs'[s].rev].status \in {"PUBLISHED", "SUPERSEDED"}
  BY <1>3, <1>4, <1>5, <1>7, <1>8, Behind
<1>10. /\ SourceTypeOK' /\ RunsAreSound' /\ RevisionsAreSound' /\ OneRunPerCommand' /\ PublishedIsProved'
       /\ SourceIsSound'
  BY <1>1, <1>3, <1>6, <1>7, <1>8, <1>9, Behind, CommandRows
<1>11. Open' = {Len(runs) + 1}
  BY <1>3, <1>5, <1>7, StatusNames DEF Open
<1>12. OneIsOpen' /\ ValidationIsAwaited'
  BY <1>3, <1>5, <1>7, <1>11 DEF OneIsOpen, ValidationIsAwaited
<1>13. OnlyDisableDrifts'
  <2>1. \A s \in DOMAIN runs' : runs'[s].status \notin Leased
    BY <1>3, <1>5, <1>7, StatusNames DEF Open
  <2> QED  BY <2>1 DEF OnlyDisableDrifts
<1>14. CheckpointIsApplied'
  <2>1. PICK r : r = Len(runs) + 1
    OBVIOUS
  <2>2. /\ r \in DOMAIN runs' /\ DOMAIN runs' = DOMAIN runs \cup {r} /\ \A s \in DOMAIN runs : runs'[s] = runs[s]
        /\ runs'[r].kind # "VALIDATION" /\ runs'[r].rev = source.published /\ runs'[r].pages \in Nat
        /\ runs'[r].checkpoint = source.checkpoint + runs'[r].pages
        /\ source'.published = source.published /\ source'.checkpoint = runs'[r].checkpoint
    BY <1>3, <1>4, <1>5, <1>7, <2>1
  <2> QED  BY <1>4, <2>1, <2>2, CheckpointOfNewRun
<1> QED  BY <1>10, <1>12, <1>13, <1>14 DEF SourceInv

(* An asset is entered by hand: a run of one page begins and ends. *)
LEMMA CreateManualAssetStep ==
  ASSUME SourceInv, NEW key \in Keys, CreateManualAsset(key)
  PROVE  SourceInv'
<1>1. /\ Len(runs) \in Nat /\ source \in Source /\ MaxRuns \in Nat /\ MaxPages \in Nat /\ MaxEpoch \in Nat
      /\ MaxPages > 0 /\ MaxEpoch > 0
      /\ revisions \in Seq(Revision) /\ Len(revisions) <= MaxRevisions /\ MaxRevisions \in Nat
      /\ Len(revisions) \in Nat /\ DOMAIN revisions = 1..Len(revisions)
  BY Rows DEF SourceInv, SourceTypeOK
<1>2. PICK checkpoint, r : checkpoint = source.checkpoint + 1 /\ r = Len(runs) + 1
  OBVIOUS
<1>3. PICK base : base = NewRun("MANUAL", key, source.published, source.gateRev, checkpoint)
  OBVIOUS
<1>4. PICK row, after : /\ row = [InOneCommand(base, "DATA_PROJECTION") EXCEPT !.pages = 1]
                        /\ after = [source EXCEPT !.checkpoint = checkpoint, !.success = r]
  OBVIOUS
<1>5. /\ \A q \in DOMAIN runs : runs[q].key # key
      /\ Len(runs) < MaxRuns /\ source.kind = "MANUAL" /\ source.published # 0
      /\ runs' = Append(runs, row) /\ revisions' = revisions
      /\ source' = [source EXCEPT !.checkpoint = @ + 1, !.success = r]
  BY <1>2, <1>3, <1>4 DEF CreateManualAsset, recordManualSuccess, Replayed, EligibleManualSource
<1>6. source.published \in DOMAIN revisions /\ source.gateRev \in Nat /\ source.checkpoint \in Nat /\ checkpoint \in Nat
      /\ source.published \in 1..MaxRevisions /\ r \in 0..MaxRuns
  BY <1>1, <1>2, <1>5, Behind DEF Source
<1>7. base \in Run /\ base.kind = "MANUAL" /\ base.key = key /\ base.rev = source.published
      /\ Fresh(base) /\ base.checkpoint = checkpoint
  <2>1. PICK kind \in {"VALIDATION", "DISCOVERY", "MANUAL"} : kind = "MANUAL"
    OBVIOUS
  <2>2. PICK rev \in 1..MaxRevisions, gateRev \in Nat : rev = source.published /\ gateRev = source.gateRev
    BY <1>6
  <2>3. base = NewRun(kind, key, rev, gateRev, checkpoint)
    BY <1>3, <2>1, <2>2
  <2>4. base \in Run /\ base.kind = kind /\ base.key = key /\ base.rev = rev
        /\ Fresh(base) /\ base.checkpoint = checkpoint
    <3>1. MaxPages \in Nat /\ MaxEpoch \in Nat /\ checkpoint \in Nat
      BY <1>1, <1>6
    <3> QED  BY <2>3, <3>1, NewRunSound
  <2> QED  BY <2>1, <2>2, <2>4
<1>8. /\ row \in Run /\ row.kind = "MANUAL" /\ row.key = key /\ row.rev = source.published
      /\ row.status = "SUCCEEDED" /\ row.cleanup = "NO_CREDENTIAL" /\ SoundRun(row)
      /\ row.pages = 1 /\ row.checkpoint = checkpoint
  <2>1. PICK work \in {"VALIDATION_PROOF", "DATA_PROJECTION"} : work = "DATA_PROJECTION"
    OBVIOUS
  <2>2. PICK pages \in {0, 1} : pages = 1
    OBVIOUS
  <2>3. /\ row = WithPages(InOneCommand(base, work), pages)
        /\ work = "VALIDATION_PROOF" => base.kind = "VALIDATION" /\ pages = 0 /\ base.checkpoint = 0
        /\ work = "DATA_PROJECTION" => base.kind = "MANUAL"
    BY <1>4, <1>7, <2>1, <2>2 DEF WithPages
  <2>4. /\ row \in Run /\ row.kind = base.kind /\ row.key = base.key /\ row.rev = base.rev
        /\ row.status = "SUCCEEDED" /\ row.cleanup = "NO_CREDENTIAL" /\ SoundRun(row)
        /\ row.pages = pages /\ row.checkpoint = base.checkpoint
    <3>1. MaxEpoch \in Nat /\ MaxEpoch > 0 /\ MaxPages \in Nat /\ MaxPages > 0
      BY <1>1
    <3> QED  BY <1>7, <2>3, <3>1, InOneCommandSound
  <2> QED  BY <1>7, <2>2, <2>4
<1>9. Settles(runs)
  BY RunsSettle
<1>10. /\ runs' \in Seq(Run) /\ Len(runs') = Len(runs) + 1 /\ DOMAIN runs' = DOMAIN runs \cup {Len(runs) + 1}
       /\ Len(runs) + 1 \notin DOMAIN runs /\ runs'[Len(runs) + 1] = row
       /\ \A s \in DOMAIN runs : runs'[s] = runs[s]
  BY <1>5, <1>8, <1>9, AppendedRun
<1>11. Len(runs') <= MaxRuns /\ source.kind # None
  BY <1>1, <1>5, <1>10, NoneIsNoWork
<1>12. \A s \in DOMAIN runs' \ DOMAIN runs :
         /\ s = Len(runs) + 1 /\ SoundRun(runs'[s]) /\ runs'[s].rev \in DOMAIN revisions'
         /\ runs'[s].cleanup = "NO_CREDENTIAL"
         /\ \A q \in DOMAIN runs : runs'[s].key # runs[q].key
         /\ runs'[s].kind # "VALIDATION" => revisions'[runs'[s].rev].status \in {"PUBLISHED", "SUPERSEDED"}
  BY <1>5, <1>6, <1>8, <1>10, Behind
<1>13. /\ source' \in Source /\ source'.kind = source.kind /\ source'.published = source.published
       /\ source'.gate = source.gate /\ source'.validated = source.validated /\ source'.gateRev = source.gateRev
       /\ source'.success = r /\ source'.checkpoint = checkpoint
  <2>1. source' = after
    BY <1>1, <1>2, <1>4, <1>5 DEF Source
  <2>2. after \in Source
    BY <1>1, <1>4, <1>6 DEF Source
  <2> QED  BY <1>1, <1>4, <2>1, <2>2 DEF Source
<1>14. /\ source'.success \in DOMAIN runs' \ DOMAIN runs /\ runs'[source'.success].kind # "VALIDATION"
       /\ runs'[source'.success].status = "SUCCEEDED" /\ runs'[source'.success].rev = source'.published
  BY <1>2, <1>8, <1>10, <1>13
<1>15. /\ SourceTypeOK' /\ RunsAreSound' /\ RevisionsAreSound' /\ OneRunPerCommand' /\ PublishedIsProved'
       /\ SourceIsSound'
  BY <1>1, <1>5, <1>9, <1>10, <1>11, <1>12, <1>13, <1>14, Behind, CommandRows
<1>16. Open = {}
  BY <1>5 DEF SourceInv, ValidationIsAwaited
<1>17. Open' = {}
  BY <1>8, <1>10, <1>16 DEF Open, TerminalRun
<1>18. OneIsOpen' /\ ValidationIsAwaited' /\ OnlyDisableDrifts'
  BY <1>17, StatusNames DEF OneIsOpen, ValidationIsAwaited, OnlyDisableDrifts, Open
<1>19. CheckpointIsApplied'
  <2>1. /\ r \in DOMAIN runs' /\ DOMAIN runs' = DOMAIN runs \cup {r} /\ \A s \in DOMAIN runs : runs'[s] = runs[s]
        /\ runs'[r].kind # "VALIDATION" /\ runs'[r].rev = source.published /\ runs'[r].pages \in Nat
        /\ runs'[r].checkpoint = source.checkpoint + runs'[r].pages
        /\ source'.published = source.published /\ source'.checkpoint = runs'[r].checkpoint
    BY <1>2, <1>6, <1>8, <1>10, <1>13
  <2> QED  BY <1>2, <1>6, <2>1, CheckpointOfNewRun
<1> QED  BY <1>15, <1>18, <1>19 DEF SourceInv

(* The gate is opened behind a publication. *)
LEMMA OpenGateStep ==
  ASSUME SourceInv, OpenGate
  PROVE  SourceInv'
<1>1. /\ source \in Source /\ MaxRuns \in Nat /\ Len(runs) \in Nat /\ DOMAIN runs = 1..Len(runs)
      /\ runs \in Seq(Run) /\ Len(runs) <= MaxRuns /\ revisions \in Seq(Revision) /\ Len(revisions) <= MaxRevisions
  BY Rows DEF SourceInv, SourceTypeOK
<1>2. PICK proof : proof = revisions[source.published].run
  OBVIOUS
<1>3. PICK gated : gated = Gate(source, "AVAILABLE")
  OBVIOUS
<1>4. /\ source.kind = "EXTERNAL" /\ source.status = "ACTIVE" /\ source.gate = "UNAVAILABLE" /\ source.published # 0
      /\ source' = [gated EXCEPT !.validated = proof] /\ revisions' = revisions /\ runs' = runs
  BY <1>2, <1>3 DEF OpenGate
<1>5. proof \in 0..MaxRuns /\ proof # 0
  BY <1>1, <1>2, <1>4, Behind
<1>6. /\ gated \in Source /\ gated.kind = source.kind /\ gated.status = source.status /\ gated.gateRev > 0
      /\ gated.published = source.published /\ gated.checkpoint = source.checkpoint /\ gated.success = source.success
  BY <1>1, <1>3, GateMoves DEF GateStatuses
<1>7. /\ source' \in Source /\ source'.kind = source.kind /\ source'.status = source.status /\ source'.gateRev > 0
      /\ source'.published = source.published /\ source'.checkpoint = source.checkpoint
      /\ source'.success = source.success /\ source'.validated # 0
  BY <1>4, <1>5, <1>6 DEF Source
<1>8. Settles(runs) /\ source.kind # None
  BY <1>4, RunsSettle, NoneIsNoWork
<1>9. /\ SourceTypeOK' /\ RunsAreSound' /\ RevisionsAreSound' /\ OneRunPerCommand' /\ PublishedIsProved'
      /\ SourceIsSound'
  BY <1>1, <1>4, <1>7, <1>8, Behind, CommandRows
<1>10. Open' = Open /\ Open \subseteq DOMAIN runs
  BY <1>4 DEF Open
<1>11. \A s \in DOMAIN runs : runs[s].status \notin Leased
  <2> SUFFICES ASSUME NEW s \in DOMAIN runs, runs[s].status \in Leased PROVE FALSE
    OBVIOUS
  <2>1. Admitted(s) /\ s \in Open
    BY <1>4, StatusNames DEF SourceInv, OnlyDisableDrifts, Open
  <2> QED  BY <1>4, <2>1 DEF Admitted, SourceInv, ValidationIsAwaited
<1>12. OneIsOpen' /\ ValidationIsAwaited'
  BY <1>4, <1>7, <1>10 DEF SourceInv, OneIsOpen, ValidationIsAwaited
<1>13. OnlyDisableDrifts'
  BY <1>4, <1>11 DEF OnlyDisableDrifts
<1>14. CheckpointIsApplied'
  BY <1>4, <1>7, CheckpointKept
<1> QED  BY <1>9, <1>12, <1>13, <1>14 DEF SourceInv

(* The source is disabled; who holds a data run keeps it. *)
LEMMA DisableStep ==
  ASSUME SourceInv, Disable
  PROVE  SourceInv'
<1>1. /\ source \in Source /\ MaxRuns \in Nat /\ Len(runs) \in Nat /\ DOMAIN runs = 1..Len(runs)
      /\ Len(runs) <= MaxRuns /\ Len(revisions) <= MaxRevisions
  BY Rows DEF SourceInv, SourceTypeOK
<1>2. PICK rows, revs, gated : /\ rows = CancelPrelockedRuns(runs) /\ revs = CancelPrelockedRevisions(revisions)
                               /\ gated = Gate(source, "UNAVAILABLE")
  OBVIOUS
<1>3. /\ source.kind # None /\ source.gate # "DEGRADED" /\ runs' = rows /\ revisions' = revs
      /\ \A r \in Open : Cancellable(r) \/ (runs[r].kind # "VALIDATION" /\ runs[r].status \in Leased)
      /\ source' = [gated EXCEPT !.status = "DISABLED"]
  BY <1>2 DEF Disable
<1>4. Settles(rows) /\ \A s \in Open : Cancellable(s) => rows[s].status = "CANCELLED"
  BY <1>2, PrelockedRuns
<1>5. /\ revs \in Seq(Revision) /\ Len(revs) = Len(revisions) /\ DOMAIN revs = DOMAIN revisions
      /\ \A n \in DOMAIN revisions :
           /\ revs[n].run = revisions[n].run
           /\ revs[n] = revisions[n] \/ (revs[n].status = "REJECTED" /\ revisions[n].status = "VALIDATING")
  BY <1>2, PrelockedRevisions
<1>6. /\ gated \in Source /\ gated.kind = source.kind /\ gated.gate = "UNAVAILABLE"
      /\ gated.published = source.published /\ gated.checkpoint = source.checkpoint /\ gated.success = source.success
  BY <1>1, <1>2, GateMoves DEF GateStatuses
<1>7. /\ source' \in Source /\ source'.kind = source.kind /\ source'.status = "DISABLED" /\ source'.gate = "UNAVAILABLE"
      /\ source'.published = source.published /\ source'.checkpoint = source.checkpoint
      /\ source'.success = source.success
  BY <1>3, <1>6 DEF Source
<1>8. /\ runs' \in Seq(Run) /\ Len(runs') <= MaxRuns /\ DOMAIN runs' = DOMAIN runs
      /\ \A s \in DOMAIN runs : runs'[s] = rows[s]
  BY <1>1, <1>3, <1>4 DEF Settles
<1>9. /\ revisions' \in Seq(Revision) /\ Len(revisions') <= MaxRevisions /\ DOMAIN revisions' = DOMAIN revisions
      /\ \A n \in DOMAIN revisions' :
           /\ n \in DOMAIN revisions /\ revisions'[n].run = revisions[n].run
           /\ revisions'[n].status = "DRAFT" <=> revisions[n].status = "DRAFT"
  BY <1>1, <1>3, <1>5
<1>10. source'.published # 0 =>
         /\ source'.published \in DOMAIN revisions /\ revisions'[source'.published].status = "PUBLISHED"
         /\ revisions'[source'.published].run = revisions[source'.published].run
         /\ runs[revisions[source'.published].run].status = "SUCCEEDED"
  BY <1>3, <1>5, <1>7, Behind
<1>11. /\ SourceTypeOK' /\ RunsAreSound' /\ RevisionsAreSound' /\ OneRunPerCommand' /\ PublishedIsProved'
       /\ SourceIsSound'
  <2>1. /\ source'.published = 0 => source'.checkpoint = 0
        /\ source'.gate \notin {"AVAILABLE", "DEGRADED"}
        /\ DOMAIN runs' \ DOMAIN runs = {} /\ source.kind # None
    BY <1>3, <1>7, <1>8, Behind
  <2>2. \A n \in DOMAIN revisions :
          revisions[n].status \in {"PUBLISHED", "SUPERSEDED"} => revisions'[n].status \in {"PUBLISHED", "SUPERSEDED"}
    BY <1>3, <1>5
  <2> QED  BY <1>4, <1>7, <1>8, <1>9, <1>10, <2>1, <2>2, CommandRows
<1>12. /\ Open' \subseteq Open
       /\ \A s \in Open' : runs[s].kind # "VALIDATION" /\ runs'[s] = runs[s]
  <2>1. \A s \in DOMAIN runs : rows[s] = runs[s] \/ (s \in Open /\ Cancellable(s) /\ rows[s].status = "CANCELLED")
    BY <1>4 DEF Settles
  <2>2. \A s \in Open' : s \in Open /\ runs'[s] = runs[s]
    BY <1>8, <2>1 DEF Open, TerminalRun
  <2>3. \A s \in Open' : ~Cancellable(s)
    BY <1>4, <1>8, <2>2 DEF Open, TerminalRun
  <2> QED  BY <1>3, <2>2, <2>3
<1>13. OneIsOpen'
  <2>1. Len(runs') = Len(runs)
    BY <1>3, <1>4 DEF Settles
  <2> QED  BY <1>12, <2>1 DEF SourceInv, OneIsOpen
<1>14. ValidationIsAwaited'
  <2>1. \A s \in Open : source.kind = "EXTERNAL" /\ ~runs[s].rollover
    BY <1>3 DEF SourceInv, ValidationIsAwaited
  <2> QED  BY <1>7, <1>12, <2>1 DEF ValidationIsAwaited
<1>15. OnlyDisableDrifts'
  BY <1>7 DEF OnlyDisableDrifts
<1>16. CheckpointIsApplied'
  <2>1. \A s \in DOMAIN runs : /\ runs'[s].kind = runs[s].kind /\ runs'[s].rev = runs[s].rev
                              /\ runs'[s].checkpoint = runs[s].checkpoint /\ runs'[s].pages = runs[s].pages
    BY <1>4, <1>8 DEF Settles, SameRun
  <2> QED  BY <1>7, <1>8, <2>1, CheckpointKept
<1> QED  BY <1>11, <1>13, <1>14, <1>15, <1>16 DEF SourceInv

(* A publication supersedes what was published and cancels what waits. *)
LEMMA PublishStep ==
  ASSUME SourceInv, NEW n \in DOMAIN revisions, Publish(n)
  PROVE  SourceInv'
<1>1. /\ source \in Source /\ MaxRuns \in Nat /\ Len(runs) \in Nat /\ DOMAIN runs = 1..Len(runs)
      /\ Len(runs) <= MaxRuns /\ Len(revisions) <= MaxRevisions /\ Len(revisions) \in Nat /\ MaxRevisions \in Nat
      /\ DOMAIN revisions = 1..Len(revisions) /\ \A m \in DOMAIN revisions : revisions[m] \in Revision
  BY Rows DEF SourceInv, SourceTypeOK
<1>2. PICK rows, revs, proof : /\ rows = CancelPrelockedRuns(runs) /\ revs = CancelPrelockedRevisions(revisions)
                               /\ proof = revisions[n].run
  OBVIOUS
<1>3. PICK after : after = [m \in DOMAIN revisions |->
         IF m = n THEN [revisions[m] EXCEPT !.status = "PUBLISHED"]
         ELSE IF revisions[m].status = "PUBLISHED" THEN [revisions[m] EXCEPT !.status = "SUPERSEDED"]
         ELSE revs[m]]
  OBVIOUS
<1>4. /\ NoneHeld /\ revisions[n].status = "VALIDATED" /\ runs[proof].status = "SUCCEEDED"
      /\ runs' = rows /\ revisions' = after
      /\ source' = IF source.kind = "MANUAL"
           THEN [Gate(FreshLineage(source, n), "AVAILABLE") EXCEPT !.validated = proof]
           ELSE FreshLineage(source, n)
  BY <1>2, <1>3 DEF Publish, Proved, PublicationOpensGate
<1>5. Settles(rows) /\ \A s \in Open : Cancellable(s) => rows[s].status = "CANCELLED"
  BY <1>2, PrelockedRuns
<1>6. /\ revs \in Seq(Revision) /\ Len(revs) = Len(revisions) /\ DOMAIN revs = DOMAIN revisions
      /\ \A m \in DOMAIN revisions :
           /\ revs[m].run = revisions[m].run
           /\ revs[m] = revisions[m] \/ (revs[m].status = "REJECTED" /\ revisions[m].status = "VALIDATING")
  BY <1>2, PrelockedRevisions
<1>7. proof \in DOMAIN runs /\ proof # 0 /\ proof \in 0..MaxRuns /\ n \in 0..MaxRevisions /\ n # 0 /\ source.kind # None
  <2>1. proof \in DOMAIN runs
    BY <1>2, <1>4 DEF SourceInv, RevisionsAreSound
  <2>2. revisions # <<>>
    BY <1>1
  <2> QED  BY <1>1, <2>1, <2>2, Behind
<1>8. ASSUME NEW m \in DOMAIN revisions
      PROVE  /\ after[m] \in Revision /\ after[m].run = revisions[m].run
             /\ after[m].status = "DRAFT" <=> revisions[m].status = "DRAFT"
             /\ m = n => after[m].status = "PUBLISHED"
             /\ revisions[m].status \in {"PUBLISHED", "SUPERSEDED"} => after[m].status \in {"PUBLISHED", "SUPERSEDED"}
  <2>1. CASE m = n
    <3>1. after[m] = [revisions[m] EXCEPT !.status = "PUBLISHED"]
      BY <1>3, <2>1
    <3>2. revisions[m].status # "DRAFT"
      BY <1>4, <2>1
    <3> QED  BY <1>1, <3>1, <3>2 DEF Revision, RevisionStatuses
  <2>2. CASE m # n /\ revisions[m].status = "PUBLISHED"
    <3>1. after[m] = [revisions[m] EXCEPT !.status = "SUPERSEDED"]
      BY <1>3, <2>2
    <3> QED  BY <1>1, <2>2, <3>1 DEF Revision, RevisionStatuses
  <2>3. CASE m # n /\ revisions[m].status # "PUBLISHED"
    <3>1. after[m] = revs[m]
      BY <1>3, <2>3
    <3>2. revs[m] \in Revision
      BY <1>1, <1>6
    <3> QED  BY <1>6, <2>3, <3>1, <3>2
  <2> QED  BY <2>1, <2>2, <2>3
<1>9. after \in Seq(Revision) /\ Len(after) = Len(revisions) /\ DOMAIN after = DOMAIN revisions
  <2>1. DOMAIN after = DOMAIN revisions /\ after = [m \in 1..Len(revisions) |-> after[m]]
    BY <1>1, <1>3
  <2> QED  BY <1>1, <1>8, <2>1
<1>10. /\ runs' \in Seq(Run) /\ Len(runs') <= MaxRuns /\ DOMAIN runs' = DOMAIN runs
       /\ \A s \in DOMAIN runs : runs'[s] = rows[s]
  BY <1>1, <1>4, <1>5 DEF Settles
<1>11. /\ revisions' \in Seq(Revision) /\ Len(revisions') <= MaxRevisions /\ DOMAIN revisions' = DOMAIN revisions
       /\ \A m \in DOMAIN revisions' :
            /\ m \in DOMAIN revisions /\ revisions'[m].run = revisions[m].run
            /\ revisions'[m].status = "DRAFT" <=> revisions[m].status = "DRAFT"
       /\ revisions'[n].status = "PUBLISHED"
  BY <1>1, <1>4, <1>8, <1>9
<1>12. /\ source' \in Source /\ source'.kind = source.kind /\ source'.published = n /\ source'.success = 0
       /\ source'.checkpoint = 0
       /\ source'.gate \in {"AVAILABLE", "DEGRADED"} => source'.validated # 0 /\ source'.gateRev > 0
  <2>1. PICK gated : gated = Gate(source, "UNAVAILABLE")
    OBVIOUS
  <2>2. gated \in Source /\ gated.kind = source.kind /\ gated.gate = "UNAVAILABLE"
    BY <1>1, <2>1, GateMoves DEF GateStatuses
  <2>3. PICK fresh : fresh = [gated EXCEPT !.published = n, !.checkpoint = 0, !.success = 0]
    OBVIOUS
  <2>4. fresh = FreshLineage(source, n)
    BY <2>1, <2>3 DEF FreshLineage
  <2>5. /\ fresh \in Source /\ fresh.kind = source.kind /\ fresh.published = n /\ fresh.success = 0
        /\ fresh.gate = "UNAVAILABLE" /\ fresh.checkpoint = 0
    <3>1. 0 \in 0..MaxRuns
      BY <1>1
    <3> QED  BY <1>7, <2>2, <2>3, <3>1 DEF Source
  <2>6. PICK opened : opened = Gate(fresh, "AVAILABLE")
    OBVIOUS
  <2>7. /\ opened \in Source /\ opened.kind = fresh.kind /\ opened.published = fresh.published
        /\ opened.success = fresh.success /\ opened.gateRev > 0 /\ opened.checkpoint = fresh.checkpoint
    BY <1>1, <2>5, <2>6, GateMoves DEF GateStatuses
  <2>8. PICK shown : shown = [opened EXCEPT !.validated = proof]
    OBVIOUS
  <2>9. /\ shown \in Source /\ shown.kind = opened.kind /\ shown.published = opened.published
        /\ shown.success = opened.success /\ shown.checkpoint = opened.checkpoint /\ shown.gateRev = opened.gateRev /\ shown.validated = proof
    BY <1>7, <2>7, <2>8 DEF Source
  <2>10. source' = IF source.kind = "MANUAL" THEN shown ELSE fresh
    BY <1>4, <2>4, <2>6, <2>8
  <2>11. CASE source.kind = "MANUAL"
    BY <1>7, <2>5, <2>7, <2>9, <2>10, <2>11
  <2>12. CASE source.kind # "MANUAL"
    BY <2>5, <2>10, <2>12
  <2> QED  BY <2>11, <2>12
<1>13. /\ SourceTypeOK' /\ RunsAreSound' /\ RevisionsAreSound' /\ OneRunPerCommand' /\ PublishedIsProved'
       /\ SourceIsSound'
  <2>1. /\ source'.published # 0 /\ source'.published \in DOMAIN revisions
        /\ revisions'[source'.published].status = "PUBLISHED"
        /\ revisions'[source'.published].run = revisions[source'.published].run
        /\ runs[revisions[source'.published].run].status = "SUCCEEDED"
    BY <1>2, <1>4, <1>7, <1>11, <1>12
  <2>2. DOMAIN runs' \ DOMAIN runs = {}
    BY <1>10
  <2>3. \A m \in DOMAIN revisions :
          revisions[m].status \in {"PUBLISHED", "SUPERSEDED"} => revisions'[m].status \in {"PUBLISHED", "SUPERSEDED"}
    BY <1>4, <1>8
  <2> QED  BY <1>5, <1>7, <1>10, <1>11, <1>12, <2>1, <2>2, <2>3, CommandRows
<1>14. Open' = {}
  <2>1. \A s \in DOMAIN runs : rows[s].status \in TerminalRun
    BY <1>4, <1>5 DEF NoneHeld, Settles, Open, TerminalRun
  <2> QED  BY <1>10, <2>1 DEF Open
<1>15. OneIsOpen' /\ ValidationIsAwaited' /\ OnlyDisableDrifts'
  BY <1>14, StatusNames DEF OneIsOpen, ValidationIsAwaited, OnlyDisableDrifts, Open
<1>16. CheckpointIsApplied'
  <2>1. DataRuns' = {}
    <3>1. \A s \in DOMAIN runs : runs'[s].kind = runs[s].kind /\ runs'[s].rev = runs[s].rev
      BY <1>5, <1>10 DEF Settles, SameRun
    <3>2. \A s \in DOMAIN runs : runs[s].kind # "VALIDATION" => runs[s].rev # n
      BY <1>4 DEF SourceInv, RunsAreSound
    <3> QED  BY <1>10, <1>12, <3>1, <3>2 DEF DataRuns
  <2> QED  BY <1>12, <2>1 DEF CheckpointIsApplied
<1> QED  BY <1>13, <1>15, <1>16 DEF SourceInv

(* A validation closes the gate, cancels what waits and is queued, or ends at once. *)
LEMMA RequestValidationStep ==
  ASSUME SourceInv, NEW key \in Keys, NEW n \in DOMAIN revisions, RequestValidation(key, n)
  PROVE  SourceInv'
<1>1. /\ source \in Source /\ MaxRuns \in Nat /\ Len(runs) \in Nat /\ DOMAIN runs = 1..Len(runs)
      /\ Len(runs) <= MaxRuns /\ Len(revisions) <= MaxRevisions /\ Len(revisions) \in Nat /\ MaxRevisions \in Nat
      /\ DOMAIN revisions = 1..Len(revisions) /\ MaxPages \in Nat /\ MaxEpoch \in Nat /\ MaxPages > 0 /\ MaxEpoch > 0
  BY Rows DEF SourceInv, SourceTypeOK
<1>2. PICK rows, revs, r : /\ rows = CancelPrelockedRuns(runs) /\ revs = CancelPrelockedRevisions(revisions)
                           /\ r = Len(runs) + 1
  OBVIOUS
<1>3. PICK closed : closed = IF source.gate \in {"AVAILABLE", "VALIDATING"} THEN Gate(source, "UNAVAILABLE") ELSE source
  OBVIOUS
<1>4. PICK queued : queued = NewRun("VALIDATION", key, n, closed.gateRev, 0)
  OBVIOUS
<1>5. PICK row, rev : /\ row = (IF source.kind = "MANUAL" THEN InOneCommand(queued, "VALIDATION_PROOF") ELSE queued)
                      /\ rev = [status |-> IF source.kind = "MANUAL" THEN "VALIDATED" ELSE "VALIDATING", run |-> r]
  OBVIOUS
<1>6. PICK gated : gated = Gate(closed, "VALIDATING")
  OBVIOUS
<1>7. /\ \A q \in DOMAIN runs : runs[q].key # key
      /\ r <= MaxRuns /\ source.status = "ACTIVE" /\ revisions[n].status \in {"DRAFT", "REJECTED"} /\ NoneHeld
      /\ runs' = Append(rows, row) /\ revisions' = [revs EXCEPT ![n] = rev]
      /\ source' = [gated EXCEPT !.validated = r]
  BY <1>2, <1>3, <1>4, <1>5, <1>6 DEF RequestValidation, Replayed
<1>8. Settles(rows) /\ \A s \in Open : Cancellable(s) => rows[s].status = "CANCELLED"
  BY <1>2, PrelockedRuns
<1>9. /\ revs \in Seq(Revision) /\ Len(revs) = Len(revisions) /\ DOMAIN revs = DOMAIN revisions
      /\ \A m \in DOMAIN revisions :
           /\ revs[m].run = revisions[m].run
           /\ revs[m] = revisions[m] \/ (revs[m].status = "REJECTED" /\ revisions[m].status = "VALIDATING")
  BY <1>2, PrelockedRevisions
<1>10. /\ closed \in Source /\ closed.kind = source.kind /\ closed.status = source.status
       /\ closed.published = source.published /\ closed.checkpoint = source.checkpoint
       /\ closed.success = source.success /\ closed.gateRev \in Nat
  <2>1. /\ closed \in Source /\ closed.kind = source.kind /\ closed.status = source.status
        /\ closed.published = source.published /\ closed.checkpoint = source.checkpoint
        /\ closed.success = source.success
    BY <1>1, <1>3, GateMoves DEF GateStatuses
  <2> QED  BY <2>1 DEF Source
<1>11. /\ gated \in Source /\ gated.kind = source.kind /\ gated.status = source.status
       /\ gated.published = source.published /\ gated.checkpoint = source.checkpoint
       /\ gated.success = source.success /\ gated.gate = "VALIDATING" /\ gated.gateRev = closed.gateRev + 1
  BY <1>1, <1>6, <1>10, GateMoves DEF GateStatuses
<1>12. r \in 0..MaxRuns /\ r # 0 /\ n \in 1..MaxRevisions
  BY <1>1, <1>2, <1>7
<1>13. /\ source' \in Source /\ source'.kind = source.kind /\ source'.status = source.status
       /\ source'.published = source.published /\ source'.checkpoint = source.checkpoint
       /\ source'.success = source.success /\ source'.gate = "VALIDATING" /\ source'.gateRev = closed.gateRev + 1
       /\ source'.validated = r
  BY <1>7, <1>11, <1>12 DEF Source
<1>14. /\ queued \in Run /\ queued.kind = "VALIDATION" /\ queued.key = key /\ queued.rev = n
       /\ queued.gateRev = closed.gateRev /\ queued.checkpoint = 0 /\ queued.status = "QUEUED"
       /\ queued.cleanup = "NOT_OPENED" /\ Fresh(queued) /\ SoundRun(queued)
  <2>1. PICK kind \in {"VALIDATION", "DISCOVERY", "MANUAL"} : kind = "VALIDATION"
    OBVIOUS
  <2>2. PICK gateRev \in Nat, checkpoint \in Nat : gateRev = closed.gateRev /\ checkpoint = 0
    BY <1>10
  <2>3. queued = NewRun(kind, key, n, gateRev, checkpoint) /\ MaxPages \in Nat /\ MaxEpoch \in Nat
    BY <1>1, <1>4, <2>1, <2>2
  <2>4. /\ queued \in Run /\ queued.kind = kind /\ queued.key = key /\ queued.rev = n
        /\ queued.gateRev = gateRev /\ queued.checkpoint = checkpoint /\ queued.status = "QUEUED"
        /\ queued.cleanup = "NOT_OPENED" /\ Fresh(queued)
    BY <1>12, <2>3, NewRunSound
  <2>5. kind # "MANUAL" /\ checkpoint = 0
    BY <2>1, <2>2
  <2>6. SoundRun(queued)
    BY <1>12, <2>3, <2>5, NewRunSound
  <2> QED  BY <2>1, <2>2, <2>4, <2>6
<1>15. /\ row \in Run /\ row.kind = "VALIDATION" /\ row.key = key /\ row.rev = n /\ ~row.rollover /\ SoundRun(row)
       /\ source.kind = "MANUAL" => row.cleanup = "NO_CREDENTIAL" /\ row.status \in TerminalRun
       /\ source.kind # "MANUAL" => row = queued
  <2>1. CASE source.kind # "MANUAL"
    BY <1>5, <1>14, <2>1 DEF Fresh
  <2>2. CASE source.kind = "MANUAL"
    <3>1. PICK work \in {"VALIDATION_PROOF", "DATA_PROJECTION"} : work = "VALIDATION_PROOF"
      OBVIOUS
    <3>2. PICK pages \in {0, 1} : pages = 0
      OBVIOUS
    <3>3. row = WithPages(InOneCommand(queued, work), pages)
      <4>1. row = InOneCommand(queued, work) /\ queued.pages = 0
        BY <1>5, <1>14, <2>2, <3>1 DEF Fresh
      <4>2. InOneCommand(queued, work).pages = 0
        BY <1>14, <4>1 DEF InOneCommand, Run
      <4>3. WithPages(InOneCommand(queued, work), 0) = InOneCommand(queued, work)
        BY <1>14, <4>2 DEF InOneCommand, Run, WithPages
      <4> QED  BY <3>2, <4>1, <4>3
    <3>4. /\ work = "VALIDATION_PROOF" => queued.kind = "VALIDATION" /\ pages = 0 /\ queued.checkpoint = 0
          /\ work = "DATA_PROJECTION" => queued.kind = "MANUAL"
      BY <1>14, <3>1, <3>2
    <3>5. queued \in Run /\ Fresh(queued) /\ MaxEpoch \in Nat /\ MaxEpoch > 0 /\ MaxPages \in Nat /\ MaxPages > 0
      BY <1>1, <1>14
    <3>6. /\ row \in Run /\ row.kind = queued.kind /\ row.key = queued.key /\ row.rev = queued.rev
          /\ row.status = "SUCCEEDED" /\ row.cleanup = "NO_CREDENTIAL" /\ SoundRun(row)
      BY <3>3, <3>4, <3>5, InOneCommandSound
    <3>7. ~row.rollover
      BY <3>3, <3>4, <3>5, InOneCommandSound
    <3> QED  BY <1>14, <2>2, <3>6, <3>7 DEF TerminalRun
  <2> QED  BY <2>1, <2>2
<1>16. /\ runs' \in Seq(Run) /\ Len(runs') = Len(runs) + 1 /\ DOMAIN runs' = DOMAIN runs \cup {r}
       /\ r \notin DOMAIN runs /\ runs'[r] = row /\ \A s \in DOMAIN runs : runs'[s] = rows[s]
  <2>1. Settles(rows) /\ row \in Run /\ runs' = Append(rows, row)
    BY <1>7, <1>8, <1>15
  <2>2. /\ runs' \in Seq(Run) /\ Len(runs') = Len(runs) + 1 /\ DOMAIN runs' = DOMAIN runs \cup {Len(runs) + 1}
        /\ Len(runs) + 1 \notin DOMAIN runs /\ runs'[Len(runs) + 1] = row
        /\ \A s \in DOMAIN runs : runs'[s] = rows[s]
    BY <2>1, AppendedRun
  <2> QED  BY <1>2, <2>2
<1>17. /\ rev \in Revision /\ rev.run = r
       /\ rev.status = (IF source.kind = "MANUAL" THEN "VALIDATED" ELSE "VALIDATING")
  BY <1>5, <1>12 DEF Revision, RevisionStatuses
<1>18. /\ revisions' \in Seq(Revision) /\ Len(revisions') = Len(revisions) /\ DOMAIN revisions' = DOMAIN revisions
       /\ revisions'[n] = rev /\ \A m \in DOMAIN revisions : m # n => revisions'[m] = revs[m]
  BY <1>7, <1>9, <1>17
<1>19. source.kind # None
  BY <1>1, Behind
<1>20. /\ SourceTypeOK' /\ RunsAreSound' /\ RevisionsAreSound' /\ OneRunPerCommand' /\ PublishedIsProved'
       /\ SourceIsSound'
  <2>1. \A s \in DOMAIN runs' \ DOMAIN runs :
          /\ s = Len(runs) + 1 /\ SoundRun(runs'[s]) /\ runs'[s].rev \in DOMAIN revisions'
          /\ runs'[s].cleanup = "NO_CREDENTIAL" <=> source'.kind = "MANUAL"
          /\ \A q \in DOMAIN runs : runs'[s].key # runs[q].key
    BY <1>2, <1>7, <1>13, <1>14, <1>15, <1>16, <1>18
  <2>2. \A m \in DOMAIN revisions' :
          \/ /\ m \in DOMAIN revisions /\ revisions'[m].run = revisions[m].run
             /\ revisions'[m].status = "DRAFT" <=> revisions[m].status = "DRAFT"
          \/ /\ revisions'[m].status # "DRAFT" /\ revisions'[m].run \in DOMAIN runs' \ DOMAIN runs
             /\ runs'[revisions'[m].run].kind = "VALIDATION" /\ runs'[revisions'[m].run].rev = m
    BY <1>9, <1>15, <1>16, <1>17, <1>18
  <2>3. source'.published # 0 =>
          /\ source'.published \in DOMAIN revisions /\ revisions'[source'.published].status = "PUBLISHED"
          /\ revisions'[source'.published].run = revisions[source'.published].run
          /\ runs[revisions[source'.published].run].status = "SUCCEEDED"
    <3> SUFFICES ASSUME source.published # 0
                 PROVE  /\ source.published \in DOMAIN revisions /\ revisions'[source.published].status = "PUBLISHED"
                        /\ revisions'[source.published].run = revisions[source.published].run
                        /\ runs[revisions[source.published].run].status = "SUCCEEDED"
      BY <1>13
    <3>1. source.published \in DOMAIN revisions /\ revisions[source.published].status = "PUBLISHED"
          /\ runs[revisions[source.published].run].status = "SUCCEEDED"
      BY Behind
    <3>2. source.published # n
      BY <1>7, <3>1
    <3> QED  BY <1>9, <1>18, <3>1, <3>2
  <2>4. Len(runs') <= MaxRuns /\ Len(revisions') <= MaxRevisions /\ (source'.published = 0 => source'.checkpoint = 0)
        /\ source'.gate \notin {"AVAILABLE", "DEGRADED"} /\ DOMAIN runs \subseteq DOMAIN runs'
        /\ source'.kind = source.kind /\ source' \in Source
        /\ source'.success = source.success /\ source'.published = source.published
    BY <1>1, <1>2, <1>7, <1>13, <1>16, <1>18, Behind
  <2>5. /\ runs' \in Seq(Run) /\ \A s \in DOMAIN runs : runs'[s] = rows[s]
    BY <1>16
  <2>6. revisions' \in Seq(Revision) /\ DOMAIN revisions \subseteq DOMAIN revisions'
    BY <1>18
  <2>7. \A m \in DOMAIN revisions :
          revisions[m].status \in {"PUBLISHED", "SUPERSEDED"} => revisions'[m].status \in {"PUBLISHED", "SUPERSEDED"}
    BY <1>7, <1>9, <1>18
  <2>8. \A s \in DOMAIN runs' \ DOMAIN runs : runs'[s].kind = "VALIDATION"
    BY <1>15, <1>16
  <2> QED  BY <1>8, <1>19, <2>1, <2>2, <2>3, <2>4, <2>5, <2>6, <2>7, <2>8, CommandRows
<1>21. \A s \in DOMAIN runs : runs'[s].status \in TerminalRun
  BY <1>7, <1>8, <1>16 DEF NoneHeld, Settles, Open, TerminalRun
<1>22. Open' \subseteq {r} /\ (source.kind = "MANUAL" => Open' = {})
  BY <1>15, <1>16, <1>21 DEF Open
<1>23. OneIsOpen'
  BY <1>2, <1>16, <1>22 DEF OneIsOpen
<1>24. ValidationIsAwaited'
  <2>1. source.kind # "MANUAL" => source.kind = "EXTERNAL"
    BY <1>1, <1>19 DEF Source
  <2> QED  BY <1>7, <1>13, <1>14, <1>15, <1>16, <1>17, <1>18, <1>22, <2>1 DEF ValidationIsAwaited
<1>25. OnlyDisableDrifts'
  <2>1. \A s \in DOMAIN runs' : runs'[s].status \notin Leased
    BY <1>14, <1>15, <1>16, <1>21, StatusNames
  <2> QED  BY <2>1 DEF OnlyDisableDrifts
<1>26. CheckpointIsApplied'
  <2>1. \A s \in DOMAIN runs : /\ runs'[s].kind = runs[s].kind /\ runs'[s].rev = runs[s].rev
                              /\ runs'[s].checkpoint = runs[s].checkpoint /\ runs'[s].pages = runs[s].pages
    BY <1>8, <1>16 DEF Settles, SameRun
  <2>2. \A s \in DOMAIN runs' \ DOMAIN runs : runs'[s].kind = "VALIDATION"
    BY <1>15, <1>16
  <2> QED  BY <1>13, <1>16, <2>1, <2>2, CheckpointKept
<1> QED  BY <1>20, <1>23, <1>24, <1>25, <1>26 DEF SourceInv

-----------------------------------------------------------------------------
(* Every step. *)

(* A command never touches a run somebody holds. *)
LEMMA HeldRunsStay ==
  ASSUME SourceInv, Govern
  PROVE  \A s \in DOMAIN runs : runs[s].status \in Leased => runs'[s] = runs[s]
<1>1. PICK rows : rows = CancelPrelockedRuns(runs)
  OBVIOUS
<1>2. \A s \in DOMAIN runs : runs[s].status \in Leased => rows[s] = runs[s]
  BY <1>1, PrelockedRuns DEF Settles, Cancellable, Leased
<1>3. CASE \E kind \in {"MANUAL", "EXTERNAL"} : CreateSource(kind)
  BY <1>3 DEF CreateSource
<1>4. CASE \E key \in Keys : CreateManualAsset(key)
  <2>1. PICK row : runs' = Append(runs, row)
    BY <1>4 DEF CreateManualAsset, recordManualSuccess
  <2> QED  BY <2>1, Rows DEF SourceInv, SourceTypeOK
<1>5. CASE CreateRevision \/ OpenGate
  BY <1>5 DEF CreateRevision, OpenGate
<1>6. CASE \E key \in Keys : RequestSync(key)
  <2>1. PICK row : runs' = Append(runs, row)
    BY <1>6 DEF RequestSync
  <2> QED  BY <2>1, Rows DEF SourceInv, SourceTypeOK
<1>7. CASE \E key \in Keys, n \in DOMAIN revisions : RequestValidation(key, n)
  <2>1. PICK row : runs' = Append(rows, row)
    BY <1>1, <1>7 DEF RequestValidation
  <2>2. rows \in Seq(Run) /\ Len(rows) = Len(runs) /\ DOMAIN runs = 1..Len(runs) /\ Len(runs) \in Nat
    BY <1>1, PrelockedRuns, Rows DEF Settles, SourceInv
  <2>3. \A s \in DOMAIN runs : runs'[s] = rows[s]
    BY <2>1, <2>2
  <2> QED  BY <1>2, <2>3
<1>8. CASE Disable \/ \E n \in DOMAIN revisions : Publish(n)
  BY <1>1, <1>2, <1>8 DEF Disable, Publish
<1> QED  BY <1>3, <1>4, <1>5, <1>6, <1>7, <1>8 DEF Govern

(* Commands keep the invariant. *)
LEMMA CommandSteps ==
  ASSUME SourceInv, Govern
  PROVE  SourceInv'
BY CreateSourceStep, CreateManualAssetStep, CreateRevisionStep, RequestSyncStep, RequestValidationStep,
   PublishStep, OpenGateStep, DisableStep DEF Govern

(* The end of a run that is held, or its next step. *)
LEMMA HolderSteps ==
  ASSUME SourceInv, NEW r \in DOMAIN runs, NEW e \in 1..MaxEpoch, Work(r, e) \/ End(r, e)
  PROVE  SourceInv'
<1>1. PICK step \in StageSteps, outcome \in {"SUCCEEDED", "FAILED"}, a \in 1..MaxEpoch : TRUE
  BY DEF StageSteps
<1>2. CASE \/ \E s \in StageSteps : AdvanceStage(r, e, s)
           \/ AdvanceToCleanup(r, e) \/ ReserveCleanupAttempt(r, e)
           \/ \E o \in {"SUCCEEDED", "FAILED"} : ProposeValidationResult(r, e, o)
           \/ PrepareFailureIntent(r, e) \/ Delay(r, e)
           \/ \E b \in 1..MaxEpoch : RecordRevoked(r, e, b)
  BY <1>1, <1>2, WorkSteps
<1>3. CASE \E final, complete, rejects \in BOOLEAN : ApplyPage(r, e, final, complete, rejects)
  BY <1>3, PageSteps
<1>4. CASE BeginCheckpointLineageRollover(r, e)
  BY <1>4, RolloverSteps
<1>5. CASE Complete(r, e) \/ Fail(r, e) \/ \E b \in 1..MaxEpoch : RecordUncertain(r, e, b)
  BY <1>1, <1>5, EndSteps
<1> QED  BY <1>2, <1>3, <1>4, <1>5 DEF Work, End

(* A step that changes nothing. *)
LEMMA SourceRests ==
  ASSUME SourceInv, UNCHANGED sourceVars
  PROVE  SourceInv'
<1>1. UNCHANGED <<source, revisions, runs>>
  BY DEF sourceVars
<1> USE DEF SourceInv
<1>2. Open' = Open /\ Open \subseteq DOMAIN runs
  BY <1>1 DEF Open
<1>3. SourceTypeOK' /\ OneIsOpen' /\ OneRunPerCommand' /\ PublishedIsProved' /\ SourceIsSound'
  BY <1>1, <1>2 DEF SourceTypeOK, OneIsOpen, OneRunPerCommand, PublishedIsProved, SourceIsSound
<1>4. RunsAreSound' /\ RevisionsAreSound'
  BY <1>1 DEF RunsAreSound, RevisionsAreSound
<1>5. ValidationIsAwaited'
  BY <1>1, <1>2 DEF ValidationIsAwaited
<1>6. OnlyDisableDrifts'
  BY <1>1 DEF OnlyDisableDrifts, Admitted
<1>7. CheckpointIsApplied'
  BY <1>1, CheckpointKept
<1> QED  BY <1>3, <1>4, <1>5, <1>6, <1>7

(* There is no source yet. *)
LEMMA SourceStarts ==
  ASSUME SourceInit
  PROVE  SourceInv
<1>1. /\ revisions = <<>> /\ runs = <<>> /\ source.kind = None /\ source.published = 0 /\ source.gate = "UNAVAILABLE"
      /\ source.checkpoint = 0 /\ source.success = 0
  BY DEF SourceInit
<1>2. SourceTypeOK
  BY <1>1, SourceConstants DEF SourceInit, SourceTypeOK, Source, GateStatuses
<1>3. DOMAIN runs = {} /\ DOMAIN revisions = {} /\ Open = {}
  BY <1>1 DEF Open
<1> QED  BY <1>1, <1>2, <1>3 DEF SourceInv, RunsAreSound, RevisionsAreSound, OneIsOpen, ValidationIsAwaited,
                                 PublishedIsProved, SourceIsSound, OnlyDisableDrifts, OneRunPerCommand,
                                 CheckpointIsApplied

(* At most one run of a source is open, the gate waits for it if it is a validation or a
   rollover, and every row is sound: through commands of operators, leases that are lost and
   taken over, delays, rollovers and failures. *)
THEOREM SourceInductive == Spec => []SourceInv
<1>1. SourceInit => SourceInv
  BY SourceStarts
<1>2. SourceInv /\ [Next]_sourceVars => SourceInv'
  <2> SUFFICES ASSUME SourceInv, [Next]_sourceVars PROVE SourceInv'
    OBVIOUS
  <2>1. CASE Govern
    BY <2>1, CommandSteps
  <2>2. ASSUME NEW r \in DOMAIN runs, Lease(r) \/ LeaseLapses(r) \/ DelayPasses(r) PROVE SourceInv'
    BY <2>2, LeaseSteps
  <2>3. ASSUME NEW r \in DOMAIN runs, CancelIneligible(r) PROVE SourceInv'
    BY <2>3, CancelSteps
  <2>4. ASSUME NEW r \in DOMAIN runs, NEW e \in 1..MaxEpoch, Work(r, e) \/ End(r, e) PROVE SourceInv'
    BY <2>4, HolderSteps
  <2>5. CASE UNCHANGED sourceVars
    BY <2>5, SourceRests
  <2> QED  BY <2>1, <2>2, <2>3, <2>4, <2>5 DEF Next
<1> QED  BY <1>1, <1>2, PTL DEF Spec

(* The rows of the source are typed. *)
THEOREM SourceTyped == Spec => []SourceTypeOK
<1>1. SourceInv => SourceTypeOK
  BY DEF SourceInv
<1> QED  BY <1>1, SourceInductive, PTL

(* A sound row can be read unless the run is about to fail. *)
LEMMA SoundIsReadable ==
  ASSUME SourceInv
  PROVE  GateNeedsProof /\ RowsAreReadable
<1>1. GateNeedsProof
  <2> SUFFICES ASSUME source.gate \in {"AVAILABLE", "DEGRADED"}
               PROVE  /\ source.published # 0
                      /\ runs[revisions[source.published].run].kind = "VALIDATION"
                      /\ runs[revisions[source.published].run].rev = source.published
                      /\ runs[revisions[source.published].run].status = "SUCCEEDED"
                      /\ runs[revisions[source.published].run].cleanup =
                           IF source.kind = "MANUAL" THEN "NO_CREDENTIAL" ELSE "REVOKED"
    BY DEF GateNeedsProof
  <2>1. PICK r : r = revisions[source.published].run
    OBVIOUS
  <2>2. /\ source.published # 0 /\ source.published \in DOMAIN revisions
        /\ revisions[source.published].status = "PUBLISHED" /\ runs[r].status = "SUCCEEDED" /\ r \in DOMAIN runs
    BY <2>1, Behind
  <2>3. runs[r].kind = "VALIDATION" /\ runs[r].rev = source.published
    BY <2>1, <2>2 DEF SourceInv, RevisionsAreSound
  <2>4. SoundRun(runs[r]) /\ (runs[r].cleanup = "NO_CREDENTIAL" <=> source.kind = "MANUAL")
    BY <2>2 DEF SourceInv, RunsAreSound
  <2>5. runs[r].cleanup \in {"REVOKED", "NO_CREDENTIAL"}
    BY <2>2, <2>4 DEF SoundRun, ValidStatus, closedCleanup
  <2> QED  BY <2>1, <2>2, <2>3, <2>4, <2>5
<1>2. ASSUME NEW r \in DOMAIN runs PROVE AboutToFail(runs[r]) \/ ValidRun(runs[r])
  BY DEF SourceInv, RunsAreSound, SoundRun, ValidRun
<1>3. ASSUME NEW r \in DOMAIN runs PROVE validRevisionValidationClosure(revisions[runs[r].rev])
  BY DEF SourceInv, RunsAreSound, RevisionsAreSound
<1>4. ASSUME source.kind # None, \A r \in DOMAIN runs : ~AboutToFail(runs[r])
      PROVE  decodeSourceReadModel
  <2>1. ValidSource(source) /\ revisions # <<>>
    BY <1>4, Behind DEF ValidSource
  <2>2. Len(revisions) \in DOMAIN revisions
    BY <2>1, Rows DEF SourceInv
  <2>3. validRevisionValidationClosure(revisions[Len(revisions)])
    BY <2>2 DEF SourceInv, RevisionsAreSound
  <2>4. source.published # 0 =>
          /\ revisions[source.published].status = "PUBLISHED"
          /\ validRevisionValidationClosure(revisions[source.published])
    BY Behind DEF SourceInv, RevisionsAreSound
  <2>5. \A r \in Open : Open = {r} /\ ValidRun(runs[r])
    BY <1>2, <1>4 DEF SourceInv, OneIsOpen, Open
  <2>6. source.success # 0 <=> LastSuccessfulRun # {}
    <3>1. 0 \notin DOMAIN runs
      BY Rows DEF SourceInv
    <3>2. source.success # 0 => source.success \in LastSuccessfulRun
      BY DEF SourceInv, SourceIsSound, LastSuccessfulRun
    <3>3. \A r \in LastSuccessfulRun : r = source.success /\ r \in DOMAIN runs
      BY DEF LastSuccessfulRun
    <3> QED  BY <3>1, <3>2, <3>3
  <2>7. \A r \in LastSuccessfulRun : ValidRun(runs[r])
    BY <1>2, <1>4 DEF LastSuccessfulRun
  <2> QED  BY <2>1, <2>3, <2>4, <2>5, <2>6, <2>7 DEF decodeSourceReadModel
<1> QED  BY <1>1, <1>2, <1>3, <1>4 DEF RowsAreReadable, decodeSourceRunReadProjection

(* What the commands, the leases and the work of a holder leave behind is what the
   invariant says. *)
THEOREM SourceIsSafe == Spec => []SourceSafety
<1>1. SourceInv => SourceSafety
  BY SoundIsReadable DEF SourceInv, SourceSafety
<1> QED  BY <1>1, SourceInductive, PTL

(* A step of a holder ends its run cleanly, or does not end it. *)
LEMMA HolderEnds ==
  ASSUME SourceInv, NEW r \in DOMAIN runs, NEW e \in 1..MaxEpoch, Work(r, e) \/ End(r, e)
  PROVE  \/ HeldRunsGoOn
         \/ /\ \A s \in DOMAIN runs : s # r => runs'[s] = runs[s]
            /\ \/ runs'[r].attempt = 0
               \/ runs'[r].cleanup = "REVOKED" /\ runs'[r].receipt
               \/ runs'[r].status = "FAILED" /\ source'.gate = "SUSPENDED"
<1>1. PICK step \in StageSteps, outcome \in {"SUCCEEDED", "FAILED"}, a \in 1..MaxEpoch : TRUE
  BY DEF StageSteps
<1>2. CASE \/ \E s \in StageSteps : AdvanceStage(r, e, s)
           \/ AdvanceToCleanup(r, e) \/ ReserveCleanupAttempt(r, e)
           \/ \E o \in {"SUCCEEDED", "FAILED"} : ProposeValidationResult(r, e, o)
           \/ PrepareFailureIntent(r, e) \/ Delay(r, e)
           \/ \E b \in 1..MaxEpoch : RecordRevoked(r, e, b)
  BY <1>1, <1>2, WorkSteps
<1>3. CASE \E final, complete, rejects \in BOOLEAN : ApplyPage(r, e, final, complete, rejects)
  BY <1>3, PageSteps
<1>4. CASE BeginCheckpointLineageRollover(r, e)
  BY <1>4, RolloverSteps
<1>5. CASE Complete(r, e) \/ Fail(r, e) \/ \E b \in 1..MaxEpoch : RecordUncertain(r, e, b)
  BY <1>1, <1>5, EndSteps
<1> QED  BY <1>2, <1>3, <1>4, <1>5 DEF Work, End

(* However often the holder of a run is replaced, the run is over only when its last attempt
   is accounted for. *)
THEOREM RunsEndCleanly == Spec => RunsEndClean
<1> DEFINE Clean ==
     \A r \in DOMAIN runs :
       runs[r].status \in Leased /\ runs'[r].status \in TerminalRun =>
         \/ runs'[r].attempt = 0
         \/ runs'[r].cleanup = "REVOKED" /\ runs'[r].receipt
         \/ runs'[r].status = "FAILED" /\ source'.gate = "SUSPENDED"
<1>1. SourceInv /\ [Next]_sourceVars => [Clean]_sourceVars
  <2> SUFFICES ASSUME SourceInv, Next PROVE Clean
    OBVIOUS
  <2> USE StatusNames
  <2>1. CASE Govern
    BY <2>1, HeldRunsStay
  <2>2. ASSUME NEW r \in DOMAIN runs,
               Lease(r) \/ LeaseLapses(r) \/ DelayPasses(r) \/ CancelIneligible(r)
        PROVE  Clean
    BY <2>2, LeaseSteps, CancelSteps DEF HeldRunsGoOn
  <2>3. ASSUME NEW r \in DOMAIN runs, NEW e \in 1..MaxEpoch, Work(r, e) \/ End(r, e)
        PROVE  Clean
    BY <2>3, HolderEnds DEF HeldRunsGoOn
  <2> QED  BY <2>1, <2>2, <2>3 DEF Next
<1> QED  BY <1>1, SourceInductive, PTL DEF Spec, RunsEndClean

-----------------------------------------------------------------------------
(* What the workers know, and what is left at the provider.               *)

\* The run still answers for the session of the attempt.
Owes(run, e) ==
  /\ run.attempt = e
  /\ \/ run.cleanup = "PENDING" /\ run.status \in Leased
     \/ run.cleanup = "UNCERTAIN" /\ run.status = "FAILED"

\* The session of attempt e of run r was closed.
Gone(sess, r, e) == sess[<<r, e>>] = "CLOSED"

\* The fence of a worker, on rows that need not be those of this state.
Holds(worker, run) ==
  run.status \in Leased /\ run.epoch = worker.epoch /\ run.live

\* A worker has an attempt in hand, and one may apply the next page.
Attempting == {"open", "provide", "propose", "apply", "commit", "settle", "postpone", "abort",
               "reopen", "revoke", "record"}
Reading == {"acquire", "reserve", "open", "provide", "propose", "apply", "commit"}

\* What a worker knows of its claim: a lease it was given, an attempt whose session is gone or
\* owed, the next page as long as it holds the fence, and a revocation only of a session that
\* is gone.
SoundWorker(worker, rows, sess) ==
  worker.pc # "idle" =>
    /\ worker.run \in DOMAIN rows /\ worker.epoch \in 1..rows[worker.run].epoch
    /\ worker.attempt # 0 =>
         Gone(sess, worker.run, worker.attempt) \/ Owes(rows[worker.run], worker.attempt)
    /\ worker.pc \in Attempting \/ worker.handle # "none" => worker.attempt # 0
    /\ worker.pc \in Reading /\ Holds(worker, rows[worker.run]) => worker.page = rows[worker.run].pages
    /\ worker.pc = "record" /\ worker.proof = "REVOKED" => Gone(sess, worker.run, worker.attempt)

\* SessionAccounted, of runs there are.
OpenIsOwed ==
  \A a \in Attempts : sessions[a] = "OPEN" => a[1] \in DOMAIN runs /\ Owes(runs[a[1]], a[2])

\* A run that says its attempt is revoked is right.
RevokedIsGone ==
  \A r \in DOMAIN runs :
    runs[r].status \in Leased =>
      /\ runs[r].cleanup \in {"NOT_OPENED", "PENDING", "REVOKED"}
      /\ runs[r].cleanup = "REVOKED" /\ runs[r].attempt # 0 => Gone(sessions, r, runs[r].attempt)

\* A lease is given once.
OneHolder ==
  \A v, w \in Workers :
    (/\ workers[v].pc # "idle" /\ workers[w].pc # "idle"
     /\ workers[v].run = workers[w].run /\ workers[v].epoch = workers[w].epoch) => v = w

WorkersAreSound == \A w \in Workers : SoundWorker(workers[w], runs, sessions)

WorkerInv ==
  SourceInv /\ WorkerTypeOK /\ OpenIsOwed /\ RevokedIsGone /\ OneHolder /\ WorkersAreSound

-----------------------------------------------------------------------------
(* The workers begin. *)

\* A validation that was worked, revoked and completed.
Validated(base) ==
  [base EXCEPT !.status = "SUCCEEDED", !.stage = "COMPLETED", !.epoch = 1,
     !.work = "VALIDATION_PROOF", !.verdict = "SUCCEEDED",
     !.cleanup = "REVOKED", !.attempt = 1, !.receipt = TRUE]

(* A validation that succeeded is a sound row. *)
LEMMA FinishedValidation ==
  ASSUME NEW key \in Keys, NEW base, base = NewRun("VALIDATION", key, 1, 0, 0), NEW run, run = Validated(base)
  PROVE  /\ run \in Run /\ SoundRun(run) /\ run.kind = "VALIDATION" /\ run.key = key /\ run.rev = 1
         /\ run.status = "SUCCEEDED" /\ run.cleanup = "REVOKED"
<1>1. /\ "VALIDATION" \in {"VALIDATION", "DISCOVERY", "MANUAL"}
      /\ 1 \in 1..MaxRevisions /\ 1 \in 0..MaxEpoch /\ MaxPages \in Nat /\ MaxEpoch \in Nat /\ 0 \in Nat
  BY SourceConstants
<1>2. base \in Run /\ base.kind = "VALIDATION" /\ base.key = key /\ base.rev = 1 /\ base.checkpoint = 0 /\ Fresh(base)
  BY <1>1, NewRunSound
<1>3. /\ "SUCCEEDED" \in RunStatuses /\ "COMPLETED" \in Stages /\ "VALIDATION_PROOF" \in WorkKinds
  BY DEF RunStatuses, TerminalRun, Stages, WorkKinds
<1>4. run \in Run
  BY <1>1, <1>2, <1>3 DEF Run, Validated
<1>5. /\ run.status = "SUCCEEDED" /\ run.stage = "COMPLETED" /\ run.epoch = 1 /\ run.work = "VALIDATION_PROOF"
      /\ run.verdict = "SUCCEEDED" /\ run.cleanup = "REVOKED" /\ run.receipt = TRUE
      /\ run.kind = base.kind /\ run.key = base.key /\ run.rev = base.rev /\ run.checkpoint = base.checkpoint
      /\ run.complete = base.complete /\ run.rejected = base.rejected /\ run.pages = base.pages
  BY <1>2 DEF Run, Validated
<1>6. validRunWorkResult(run) /\ ~FailureCode(run)
  BY <1>2, <1>5 DEF validRunWorkResult, FailureCode
<1>7. validTerminalRun(run) /\ closedCleanup(run)
  BY <1>3, <1>5, NoneIsNoWork DEF validTerminalRun, closedCleanup
<1>8. ValidStatus(run)
  BY <1>5, <1>7 DEF ValidStatus
<1>9. zeroRunProjection(run)
  BY <1>2, <1>5 DEF zeroRunProjection, zeroCommittedRunProgress, FinalPage, Fresh
<1> QED  BY <1>2, <1>4, <1>5, <1>6, <1>8, <1>9 DEF SoundRun, TerminalRun, Fresh

(* A published source with a sync queued is a state the queue may be in. *)
LEMMA PublishedStarts ==
  ASSUME Published
  PROVE  SourceInv /\ DOMAIN runs = {1, 2} /\ \A r \in DOMAIN runs : runs[r].status \notin Leased
<1>1. {MaxRevisions, MaxRuns, MaxPages, MaxEpoch} \subseteq Nat \ {0} /\ MaxRuns > 1
  BY SourceConstants, TwoCommands
<1>2. PICK k : k = CHOOSE m \in Keys : TRUE
  OBVIOUS
<1>3. PICK l : l = CHOOSE m \in Keys : m # k
  OBVIOUS
<1>4. k \in Keys /\ l \in Keys /\ l # k
  <2>1. k \in Keys
    BY <1>2, TwoCommands
  <2>2. \E m \in Keys : m # k
    BY TwoCommands
  <2> QED  BY <1>3, <2>1, <2>2
<1>5. PICK base : base = NewRun("VALIDATION", k, 1, 0, 0)
  OBVIOUS
<1>6. PICK proof : proof = Validated(base)
  OBVIOUS
<1>7. PICK queued : queued = NewRun("DISCOVERY", l, 1, 3, 0)
  OBVIOUS
<1>8. runs = <<proof, queued>>
  BY <1>2, <1>3, <1>5, <1>6, <1>7 DEF Published, Validated
<1>9. /\ proof \in Run /\ SoundRun(proof) /\ proof.kind = "VALIDATION" /\ proof.key = k /\ proof.rev = 1
      /\ proof.status = "SUCCEEDED" /\ proof.cleanup = "REVOKED"
  BY <1>4, <1>5, <1>6, FinishedValidation
<1>10. /\ queued \in Run /\ SoundRun(queued) /\ queued.kind = "DISCOVERY" /\ queued.key = l /\ queued.rev = 1
       /\ queued.status = "QUEUED" /\ queued.cleanup = "NOT_OPENED" /\ queued.pages = 0 /\ queued.checkpoint = 0
       /\ queued.rollover = FALSE
  <2>1. 1 \in 1..MaxRevisions
    BY <1>1
  <2> QED  BY <1>1, <1>4, <1>7, <2>1, NewRunSound DEF Fresh
<1>11. /\ revisions = << [status |-> "PUBLISHED", run |-> 1] >> /\ Len(revisions) = 1 /\ DOMAIN revisions = {1}
       /\ revisions[1].status = "PUBLISHED" /\ revisions[1].run = 1
       /\ Len(runs) = 2 /\ DOMAIN runs = {1, 2} /\ runs[1] = proof /\ runs[2] = queued /\ runs \in Seq(Run)
  BY <1>8, <1>9, <1>10 DEF Published
<1>12. /\ source.kind = "EXTERNAL" /\ source.status = "ACTIVE" /\ source.gate = "AVAILABLE" /\ source.gateRev = 3
       /\ source.published = 1 /\ source.validated = 1 /\ source.checkpoint = 0 /\ source.success = 0
  BY DEF Published
<1>13. SourceTypeOK
  <2>1. source \in Source
    BY <1>1 DEF Published, Source, GateStatuses
  <2>2. [status |-> "PUBLISHED", run |-> 1] \in Revision
    BY <1>1 DEF Revision, RevisionStatuses
  <2> QED  BY <1>1, <1>11, <2>1, <2>2 DEF SourceTypeOK
<1>14. Open = {2}
  BY <1>9, <1>10, <1>11 DEF Open, TerminalRun
<1>15. RunsAreSound /\ RevisionsAreSound
  BY <1>9, <1>10, <1>11, <1>12 DEF RunsAreSound, RevisionsAreSound, validRevisionValidationClosure
<1>16. OneIsOpen /\ ValidationIsAwaited /\ PublishedIsProved /\ OneRunPerCommand
  BY <1>4, <1>9, <1>10, <1>11, <1>12, <1>14 DEF OneIsOpen, ValidationIsAwaited, PublishedIsProved, OneRunPerCommand
<1>17. SourceIsSound
  BY <1>9, <1>10, <1>11, <1>12, NoneIsNoWork DEF SourceIsSound
<1>18. OnlyDisableDrifts /\ \A r \in DOMAIN runs : runs[r].status \notin Leased
  BY <1>9, <1>10, <1>11 DEF OnlyDisableDrifts, Leased
<1>19. CheckpointIsApplied
  <2>1. DataRuns = {2}
    BY <1>9, <1>10, <1>11, <1>12 DEF DataRuns
  <2> QED  BY <1>10, <1>11, <1>12, <2>1 DEF CheckpointIsApplied, Follows
<1> QED  BY <1>11, <1>13, <1>15, <1>16, <1>17, <1>18, <1>19 DEF SourceInv

(* So is a draft whose validation is queued. *)
LEMMA ValidatingStarts ==
  ASSUME Validating
  PROVE  SourceInv /\ DOMAIN runs = {1} /\ \A r \in DOMAIN runs : runs[r].status \notin Leased
<1>1. {MaxRevisions, MaxRuns, MaxPages, MaxEpoch} \subseteq Nat \ {0}
  BY SourceConstants
<1>2. PICK k : k = CHOOSE m \in Keys : TRUE
  OBVIOUS
<1>3. k \in Keys
  BY <1>2, TwoCommands
<1>4. PICK queued : queued = NewRun("VALIDATION", k, 1, 0, 0)
  OBVIOUS
<1>5. runs = <<queued>>
  BY <1>2, <1>4 DEF Validating
<1>6. /\ queued \in Run /\ SoundRun(queued) /\ queued.kind = "VALIDATION" /\ queued.key = k /\ queued.rev = 1
      /\ queued.status = "QUEUED" /\ queued.cleanup = "NOT_OPENED" /\ queued.gateRev = 0
      /\ queued.rollover = FALSE
  <2>1. 1 \in 1..MaxRevisions
    BY <1>1
  <2> QED  BY <1>1, <1>3, <1>4, <2>1, NewRunSound DEF Fresh
<1>7. /\ revisions = << [status |-> "VALIDATING", run |-> 1] >> /\ Len(revisions) = 1 /\ DOMAIN revisions = {1}
      /\ revisions[1].status = "VALIDATING" /\ revisions[1].run = 1
      /\ Len(runs) = 1 /\ DOMAIN runs = {1} /\ runs[1] = queued /\ runs \in Seq(Run)
  BY <1>5, <1>6 DEF Validating
<1>8. /\ source.kind = "EXTERNAL" /\ source.status = "ACTIVE" /\ source.gate = "VALIDATING" /\ source.gateRev = 1
      /\ source.published = 0 /\ source.validated = 1 /\ source.checkpoint = 0 /\ source.success = 0
  BY DEF Validating
<1>9. SourceTypeOK
  <2>1. source \in Source
    BY <1>1 DEF Validating, Source, GateStatuses
  <2>2. [status |-> "VALIDATING", run |-> 1] \in Revision
    BY <1>1 DEF Revision, RevisionStatuses
  <2> QED  BY <1>1, <1>7, <2>1, <2>2 DEF SourceTypeOK
<1>10. Open = {1}
  BY <1>6, <1>7 DEF Open, TerminalRun
<1>11. RunsAreSound /\ RevisionsAreSound
  BY <1>6, <1>7, <1>8 DEF RunsAreSound, RevisionsAreSound, validRevisionValidationClosure
<1>12. OneIsOpen /\ ValidationIsAwaited /\ PublishedIsProved /\ OneRunPerCommand
  BY <1>6, <1>7, <1>8, <1>10 DEF OneIsOpen, ValidationIsAwaited, PublishedIsProved, OneRunPerCommand
<1>13. SourceIsSound /\ CheckpointIsApplied
  BY <1>6, <1>7, <1>8, NoneIsNoWork DEF SourceIsSound, CheckpointIsApplied
<1>14. OnlyDisableDrifts /\ \A r \in DOMAIN runs : runs[r].status \notin Leased
  BY <1>6, <1>7 DEF OnlyDisableDrifts, Leased
<1> QED  BY <1>7, <1>9, <1>11, <1>12, <1>13, <1>14 DEF SourceInv

(* No process has claimed anything yet, and no session was opened. *)
LEMMA WorkersStart ==
  ASSUME WorkerInit
  PROVE  WorkerInv
<1>1. SourceInv /\ \A r \in DOMAIN runs : runs[r].status \notin Leased
  BY PublishedStarts, ValidatingStarts DEF WorkerInit
<1>2. /\ workers = [w \in Workers |-> Idle] /\ Idle.pc = "idle"
      /\ sessions = [a \in Attempts |-> "NONE"] /\ permits = {}
  BY DEF WorkerInit, Idle
<1>3. Idle \in Worker
  BY SourceConstants DEF Idle, Worker
<1>4. WorkerTypeOK
  BY <1>1, <1>2, <1>3 DEF WorkerTypeOK, SourceInv
<1>5. OpenIsOwed /\ RevokedIsGone
  BY <1>1, <1>2 DEF OpenIsOwed, RevokedIsGone
<1>6. OneHolder /\ WorkersAreSound
  BY <1>2 DEF OneHolder, WorkersAreSound, SoundWorker
<1> QED  BY <1>1, <1>4, <1>5, <1>6 DEF WorkerInv

-----------------------------------------------------------------------------
(* What a step leaves. *)

\* What no step takes back: a lease is never given again, a session that is gone stays gone,
\* and one that a run owes is owed until it is gone.
RunsGoOn(rows, next, sess, after) ==
  \A r \in DOMAIN rows :
    /\ r \in DOMAIN next /\ rows[r].epoch <= next[r].epoch
    /\ \A e \in 1..MaxEpoch :
         /\ Gone(sess, r, e) => Gone(after, r, e)
         /\ Owes(rows[r], e) => Owes(next[r], e) \/ Gone(after, r, e)

\* Who holds a run after the step held it before, and no page was applied for it.
StillHolds(worker, rows, next) ==
  Holds(worker, next[worker.run]) =>
    Holds(worker, rows[worker.run]) /\ next[worker.run].pages = rows[worker.run].pages

(* What the invariant says of a worker that holds a claim. *)
LEMMA WorkerRow ==
  ASSUME WorkerInv, NEW w \in Workers
  PROVE  /\ workers[w] \in Worker /\ SoundWorker(workers[w], runs, sessions)
         /\ SourceInv /\ SourceTypeOK /\ MaxEpoch \in Nat /\ MaxRuns \in Nat /\ MaxPages \in Nat
         /\ workers[w].pc # "idle" =>
              /\ workers[w].run \in DOMAIN runs /\ workers[w].run \in 1..MaxRuns
              /\ workers[w].epoch \in 1..MaxEpoch /\ workers[w].epoch <= runs[workers[w].run].epoch
              /\ runs[workers[w].run] \in Run
<1>1. /\ workers[w] \in Worker /\ SoundWorker(workers[w], runs, sessions) /\ SourceInv /\ SourceTypeOK
  BY DEF WorkerInv, WorkerTypeOK, WorkersAreSound, SourceInv
<1>2. /\ MaxEpoch \in Nat /\ MaxRuns \in Nat /\ MaxPages \in Nat /\ Len(runs) <= MaxRuns /\ Len(runs) \in Nat
      /\ DOMAIN runs = 1..Len(runs) /\ \A r \in DOMAIN runs : runs[r] \in Run
  BY <1>1, Rows DEF SourceTypeOK
<1>3. ASSUME workers[w].pc # "idle"
      PROVE  /\ workers[w].run \in DOMAIN runs /\ workers[w].epoch \in 1..runs[workers[w].run].epoch
  BY <1>1, <1>3 DEF SoundWorker
<1>4. ASSUME workers[w].pc # "idle" PROVE runs[workers[w].run].epoch \in 0..MaxEpoch /\ runs[workers[w].run] \in Run
  BY <1>2, <1>3, <1>4 DEF Run
<1> QED  BY <1>1, <1>2, <1>3, <1>4

(* A worker that took no part in a step knows as much as before. *)
LEMMA SoundKept ==
  ASSUME NEW worker \in Worker, NEW rows, NEW next, NEW sess, NEW after, SoundWorker(worker, rows, sess),
         RunsGoOn(rows, next, sess, after), MaxEpoch \in Nat,
         \A r \in DOMAIN rows : rows[r].epoch \in Nat, \A r \in DOMAIN next : next[r].epoch \in Nat,
         worker.pc # "idle" => StillHolds(worker, rows, next)
  PROVE  SoundWorker(worker, next, after)
<1> SUFFICES ASSUME worker.pc # "idle"
             PROVE  /\ worker.run \in DOMAIN next /\ worker.epoch \in 1..next[worker.run].epoch
                    /\ worker.attempt # 0 =>
                         Gone(after, worker.run, worker.attempt) \/ Owes(next[worker.run], worker.attempt)
                    /\ worker.pc \in Attempting \/ worker.handle # "none" => worker.attempt # 0
                    /\ worker.pc \in Reading /\ Holds(worker, next[worker.run]) =>
                         worker.page = next[worker.run].pages
                    /\ worker.pc = "record" /\ worker.proof = "REVOKED" => Gone(after, worker.run, worker.attempt)
  BY DEF SoundWorker
<1>1. PICK r, e, a : r = worker.run /\ e = worker.epoch /\ a = worker.attempt
  OBVIOUS
<1>2. /\ r \in DOMAIN rows /\ e \in 1..rows[r].epoch
      /\ a # 0 => Gone(sess, r, a) \/ Owes(rows[r], a)
      /\ worker.pc \in Attempting \/ worker.handle # "none" => a # 0
      /\ worker.pc \in Reading /\ Holds(worker, rows[r]) => worker.page = rows[r].pages
      /\ worker.pc = "record" /\ worker.proof = "REVOKED" => Gone(sess, r, a)
  BY <1>1 DEF SoundWorker
<1>3. a \in 0..MaxEpoch /\ (a # 0 => a \in 1..MaxEpoch)
  BY <1>1 DEF Worker
<1>4. /\ r \in DOMAIN next /\ rows[r].epoch <= next[r].epoch
      /\ a # 0 => (Gone(sess, r, a) => Gone(after, r, a))
      /\ a # 0 => (Owes(rows[r], a) => Owes(next[r], a) \/ Gone(after, r, a))
  BY <1>2, <1>3 DEF RunsGoOn
<1>5. e \in 1..next[r].epoch
  BY <1>2, <1>4
<1>6. worker.pc = "record" => a # 0
  BY <1>2 DEF Attempting
<1>7. worker.pc \in Reading /\ Holds(worker, next[r]) => worker.page = next[r].pages
  BY <1>1, <1>2 DEF StillHolds
<1> QED  BY <1>1, <1>2, <1>4, <1>5, <1>6, <1>7

\* No other worker has the claim.
Alone(w, state) ==
  \A v \in Workers \ {w} :
    workers[v].pc # "idle" => workers[v].run # state.run \/ workers[v].epoch # state.epoch

\* The two parts of WorkerTypeOK that are not of the queue or of one worker.
SessionsTyped == sessions \in [Attempts -> {"NONE", "OPEN", "CLOSED"}]

PermitsTyped == permits \subseteq [run : 1..MaxRuns, epoch : 1..MaxEpoch, page : 1..MaxPages]

(* A step of one worker: what it leaves of the runs and the sessions, what the worker knows
   afterwards, and that no other worker has its claim. *)
LEMMA OneMoves ==
  ASSUME WorkerInv, NEW w \in Workers, NEW state \in Worker, Put1(w, state),
         SourceInv', SessionsTyped', PermitsTyped', OpenIsOwed', RevokedIsGone',
         RunsGoOn(runs, runs', sessions, sessions'),
         \A v \in Workers \ {w} : workers[v].pc # "idle" => StillHolds(workers[v], runs, runs'),
         SoundWorker(state, runs', sessions'),
         state.pc # "idle" => Alone(w, state)
  PROVE  WorkerInv'
<1>1. /\ workers \in [Workers -> Worker] /\ workers' = [workers EXCEPT ![w] = state]
  BY DEF WorkerInv, WorkerTypeOK, Put1
<1>2. /\ workers' \in [Workers -> Worker] /\ workers'[w] = state
      /\ \A v \in Workers \ {w} : workers'[v] = workers[v]
  BY <1>1
<1>3. WorkerTypeOK'
  BY <1>2 DEF WorkerTypeOK, SourceInv, SessionsTyped, PermitsTyped
<1>4. /\ MaxEpoch \in Nat /\ \A r \in DOMAIN runs : runs[r].epoch \in Nat
      /\ \A r \in DOMAIN runs' : runs'[r].epoch \in Nat
  <2>1. SourceTypeOK /\ SourceTypeOK' /\ MaxEpoch \in Nat
    BY SourceConstants DEF WorkerInv, SourceInv
  <2>2. \A r \in DOMAIN runs : runs[r] \in Run
    BY <2>1, Rows
  <2>3. \A r \in DOMAIN runs' : runs'[r] \in Run
    BY <2>1 DEF SourceTypeOK
  <2> QED  BY <2>1, <2>2, <2>3 DEF Run
<1>5. WorkersAreSound'
  <2> SUFFICES ASSUME NEW v \in Workers PROVE SoundWorker(workers'[v], runs', sessions')
    BY DEF WorkersAreSound
  <2>1. CASE v = w
    BY <1>2, <2>1
  <2>2. CASE v # w
    <3>1. PICK worker : worker = workers[v]
      OBVIOUS
    <3>2. /\ worker \in Worker /\ SoundWorker(worker, runs, sessions)
          /\ worker.pc # "idle" => StillHolds(worker, runs, runs')
      BY <1>1, <2>2, <3>1 DEF WorkerInv, WorkersAreSound
    <3>3. SoundWorker(worker, runs', sessions')
      BY <1>4, <3>2, SoundKept
    <3> QED  BY <1>2, <2>2, <3>1, <3>3
  <2> QED  BY <2>1, <2>2
<1>6. OneHolder'
  BY <1>2 DEF WorkerInv, OneHolder, Alone
<1> QED  BY <1>3, <1>5, <1>6 DEF WorkerInv

-----------------------------------------------------------------------------
(* Steps that leave the runs alone. *)

\* A step of a worker that neither claims nor reserves: it is idle again, or goes on with
\* its claim.
GoesOn(worker, state) ==
  \/ state.pc = "idle"
  \/ /\ state.run = worker.run /\ state.epoch = worker.epoch /\ state.attempt = worker.attempt
     /\ state.pc \in Attempting \/ state.handle # "none" => worker.attempt # 0

(* A session opens, is found again or is closed only under an attempt that is gone or owed. *)
LEMMA SessionsMove ==
  ASSUME WorkerInv, NEW w \in Workers, workers[w].pc # "idle", UNCHANGED sourceVars,
         \/ UNCHANGED sessions
         \/ /\ workers[w].attempt # 0
            /\ sessions' \in {OpenOrRecover(Attempt(w)), RevokeSession(Attempt(w))}
  PROVE  /\ SourceInv' /\ SessionsTyped' /\ OpenIsOwed' /\ RevokedIsGone'
         /\ RunsGoOn(runs, runs', sessions, sessions')
         /\ \A v \in Workers : StillHolds(workers[v], runs, runs')
<1>1. UNCHANGED <<source, revisions, runs>> /\ SourceInv'
  BY SourceRests DEF WorkerInv, sourceVars
<1>2. PICK r, n, a : r = workers[w].run /\ n = workers[w].attempt /\ a = <<r, n>>
  OBVIOUS
<1>3. sessions \in [Attempts -> {"NONE", "OPEN", "CLOSED"}]
  BY DEF WorkerInv, WorkerTypeOK
<1>4. CASE UNCHANGED sessions
  <2>1. SessionsTyped' /\ OpenIsOwed' /\ RevokedIsGone'
    BY <1>1, <1>3, <1>4 DEF WorkerInv, SessionsTyped, OpenIsOwed, RevokedIsGone
  <2>2. \A s \in DOMAIN runs : runs[s].epoch \in Nat
    BY Rows DEF Run, WorkerInv, SourceInv
  <2> QED  BY <1>1, <1>4, <2>1, <2>2 DEF RunsGoOn, StillHolds
<1>5. CASE /\ n # 0
           /\ sessions' \in {OpenOrRecover(a), RevokeSession(a)}
  <2>1. /\ r \in DOMAIN runs /\ r \in 1..MaxRuns /\ n \in 1..MaxEpoch
        /\ Gone(sessions, r, n) \/ Owes(runs[r], n)
    <3>1. n \in 1..MaxEpoch /\ MaxEpoch \in Nat
      BY <1>2, <1>5, WorkerRow DEF Worker
    <3> QED  BY <1>2, <1>5, <3>1, WorkerRow DEF SoundWorker
  <2>2. a \in Attempts /\ a[1] = r /\ a[2] = n
    BY <1>2, <2>1 DEF Attempts
  <2>3. /\ SessionsTyped' /\ \A b \in Attempts : b # a => sessions'[b] = sessions[b]
        /\ sessions[a] = "CLOSED" => sessions'[a] = "CLOSED"
        /\ sessions'[a] = "OPEN" => sessions[a] # "CLOSED"
    <3>1. CASE sessions' = OpenOrRecover(a)
      BY <1>3, <2>2, <3>1 DEF OpenOrRecover, SessionsTyped
    <3>2. CASE sessions' = RevokeSession(a)
      BY <1>3, <2>2, <3>2 DEF RevokeSession, SessionsTyped
    <3> QED  BY <1>5, <3>1, <3>2
  <2>4. \A b \in Attempts : sessions[b] = "CLOSED" => sessions'[b] = "CLOSED"
    BY <2>3
  <2>5. OpenIsOwed'
    <3> SUFFICES ASSUME NEW b \in Attempts, sessions'[b] = "OPEN"
                 PROVE  b[1] \in DOMAIN runs /\ Owes(runs[b[1]], b[2])
      BY <1>1 DEF OpenIsOwed
    <3>1. CASE b = a
      BY <1>2, <2>1, <2>2, <2>3, <3>1 DEF Gone
    <3>2. CASE b # a
      BY <2>3, <3>2 DEF WorkerInv, OpenIsOwed
    <3> QED  BY <3>1, <3>2
  <2>6. DOMAIN runs \subseteq 1..MaxRuns /\ \A s \in DOMAIN runs : runs[s] \in Run /\ runs[s].epoch \in Nat
    BY Rows DEF Run, WorkerInv, SourceInv, SourceTypeOK
  <2>7. \A s \in DOMAIN runs, e \in 1..MaxEpoch : Gone(sessions, s, e) => Gone(sessions', s, e)
    BY <2>4, <2>6 DEF Gone, Attempts
  <2>8. RevokedIsGone'
    <3> SUFFICES ASSUME NEW s \in DOMAIN runs, runs[s].status \in Leased
                 PROVE  /\ runs[s].cleanup \in {"NOT_OPENED", "PENDING", "REVOKED"}
                        /\ runs[s].cleanup = "REVOKED" /\ runs[s].attempt # 0 =>
                             Gone(sessions', s, runs[s].attempt)
      BY <1>1 DEF RevokedIsGone
    <3>1. runs[s].attempt # 0 => runs[s].attempt \in 1..MaxEpoch
      BY <2>6 DEF Run
    <3> QED  BY <2>7, <3>1 DEF WorkerInv, RevokedIsGone
  <2> QED  BY <1>1, <2>3, <2>5, <2>6, <2>7, <2>8 DEF RunsGoOn, StillHolds
<1> QED  BY <1>2, <1>4, <1>5 DEF Attempt

(* Two workers never have the same claim. *)
LEMMA HolderIsAlone ==
  ASSUME WorkerInv, NEW w \in Workers, workers[w].pc # "idle", NEW state,
         state.run = workers[w].run, state.epoch = workers[w].epoch
  PROVE  Alone(w, state)
BY DEF WorkerInv, OneHolder, Alone

(* A step of a worker that leaves the runs alone. *)
LEMMA WorkerTurns ==
  ASSUME WorkerInv, NEW w \in Workers, workers[w].pc # "idle", UNCHANGED sourceVars,
         \/ UNCHANGED sessions
         \/ /\ workers[w].attempt # 0
            /\ sessions' \in {OpenOrRecover(Attempt(w)), RevokeSession(Attempt(w))},
         PermitsTyped', NEW state \in Worker, Put1(w, state), GoesOn(workers[w], state),
         state.pc \in Reading => workers[w].pc \in Reading /\ state.page = workers[w].page,
         state.pc = "record" /\ state.proof = "REVOKED" => sessions'[Attempt(w)] = "CLOSED"
  PROVE  WorkerInv'
<1>1. /\ SourceInv' /\ SessionsTyped' /\ OpenIsOwed' /\ RevokedIsGone'
      /\ RunsGoOn(runs, runs', sessions, sessions')
      /\ \A v \in Workers : StillHolds(workers[v], runs, runs')
  BY SessionsMove
<1>2. state.pc # "idle" => Alone(w, state)
  BY HolderIsAlone DEF GoesOn
<1>3. SoundWorker(state, runs', sessions')
  <2> SUFFICES ASSUME state.pc # "idle" PROVE SoundWorker(state, runs', sessions')
    BY DEF SoundWorker
  <2>1. PICK worker : worker = workers[w]
    OBVIOUS
  <2>2. worker \in Worker /\ SoundWorker(worker, runs, sessions) /\ worker.pc # "idle" /\ runs' = runs
    BY <2>1, WorkerRow DEF sourceVars
  <2>3. /\ state.run = worker.run /\ state.epoch = worker.epoch /\ state.attempt = worker.attempt
        /\ state.pc \in Attempting \/ state.handle # "none" => worker.attempt # 0
        /\ state.pc \in Reading => worker.pc \in Reading /\ state.page = worker.page
    BY <2>1 DEF GoesOn
  <2>4. MaxEpoch \in Nat /\ \A r \in DOMAIN runs : runs[r].epoch \in Nat
    BY Rows DEF Run, WorkerInv, SourceInv
  <2>5. SoundWorker(worker, runs', sessions')
    BY <1>1, <2>1, <2>2, <2>4, SoundKept
  <2>6. state.pc = "record" /\ state.proof = "REVOKED" => Gone(sessions', state.run, state.attempt)
    BY <2>1, <2>3 DEF Attempt, Gone
  <2> QED  BY <2>2, <2>3, <2>5, <2>6 DEF SoundWorker, Holds
<1> QED  BY <1>1, <1>2, <1>3, OneMoves

-----------------------------------------------------------------------------
(* Steps of the holder of a run. *)

\* The row of run r changes, and what the run owes is kept.
RowKeeps(r) ==
  /\ DOMAIN runs' = DOMAIN runs /\ \A s \in DOMAIN runs : s # r => runs'[s] = runs[s]
  /\ runs[r].epoch <= runs'[r].epoch
  /\ \A e \in 1..MaxEpoch : Owes(runs[r], e) => Owes(runs'[r], e) \/ Gone(sessions, r, e)
  /\ runs'[r].status \in Leased =>
       /\ runs'[r].cleanup \in {"NOT_OPENED", "PENDING", "REVOKED"}
       /\ runs'[r].cleanup = "REVOKED" /\ runs'[r].attempt # 0 => Gone(sessions, r, runs'[r].attempt)

\* So under the same lease.
RowMoves(r) == RowKeeps(r) /\ runs'[r].epoch = runs[r].epoch

\* So, and no page was applied.
RowRests(r) == RowMoves(r) /\ runs'[r].pages = runs[r].pages

(* A row that keeps what its run owes keeps what is said of the sessions. *)
LEMMA RowGoesOn ==
  ASSUME WorkerInv, NEW r \in DOMAIN runs, RowKeeps(r), UNCHANGED sessions
  PROVE  SessionsTyped' /\ OpenIsOwed' /\ RevokedIsGone' /\ RunsGoOn(runs, runs', sessions, sessions')
<1>1. SessionsTyped' /\ SessionsTyped
  BY DEF WorkerInv, WorkerTypeOK, SessionsTyped
<1>2. \A s \in DOMAIN runs : runs[s].epoch \in Nat
  BY Rows DEF Run, WorkerInv, SourceInv
<1>3. OpenIsOwed'
  <2> SUFFICES ASSUME NEW a \in Attempts, sessions[a] = "OPEN"
               PROVE  a[1] \in DOMAIN runs' /\ Owes(runs'[a[1]], a[2])
    BY DEF OpenIsOwed
  <2>1. a[1] \in DOMAIN runs /\ Owes(runs[a[1]], a[2]) /\ a[2] \in 1..MaxEpoch /\ a = <<a[1], a[2]>>
    BY DEF WorkerInv, OpenIsOwed, Attempts
  <2>2. ~Gone(sessions, a[1], a[2])
    BY <2>1 DEF Gone
  <2> QED  BY <2>1, <2>2 DEF RowKeeps
<1>4. RevokedIsGone'
  BY DEF WorkerInv, RevokedIsGone, RowKeeps
<1>5. RunsGoOn(runs, runs', sessions, sessions')
  BY <1>2 DEF RunsGoOn, RowKeeps
<1> QED  BY <1>1, <1>3, <1>4, <1>5

(* While a worker holds the fence of a run, nobody else does. *)
LEMMA OthersHoldNothing ==
  ASSUME WorkerInv, NEW w \in Workers, workers[w].pc # "idle", NEW r, r = workers[w].run,
         RowMoves(r), Fenced(r, workers[w].epoch)
  PROVE  \A v \in Workers \ {w} : workers[v].pc # "idle" => StillHolds(workers[v], runs, runs')
<1> SUFFICES ASSUME NEW v \in Workers \ {w}, workers[v].pc # "idle"
             PROVE  StillHolds(workers[v], runs, runs')
  OBVIOUS
<1>1. workers[v].run \in DOMAIN runs
  BY WorkerRow
<1>2. CASE workers[v].run # r
  BY <1>1, <1>2 DEF RowMoves, RowKeeps, StillHolds
<1>3. CASE workers[v].run = r
  <2>1. workers[v].epoch # workers[w].epoch
    BY <1>3 DEF WorkerInv, OneHolder
  <2> QED  BY <1>3, <2>1 DEF RowMoves, RowKeeps, StillHolds, Holds, Fenced
<1> QED  BY <1>2, <1>3

(* A step of the holder of a run. *)
LEMMA HolderMoves ==
  ASSUME WorkerInv, NEW w \in Workers, workers[w].pc # "idle", NEW r, r = workers[w].run,
         RowMoves(r), Fenced(r, workers[w].epoch), SourceInv', UNCHANGED sessions, PermitsTyped',
         NEW state \in Worker, Put1(w, state), SoundWorker(state, runs', sessions),
         state.pc # "idle" => state.run = r /\ state.epoch = workers[w].epoch
  PROVE  WorkerInv'
<1>1. r \in DOMAIN runs
  BY WorkerRow
<1>2. SessionsTyped' /\ OpenIsOwed' /\ RevokedIsGone' /\ RunsGoOn(runs, runs', sessions, sessions')
  BY <1>1, RowGoesOn DEF RowMoves
<1>3. \A v \in Workers \ {w} : workers[v].pc # "idle" => StillHolds(workers[v], runs, runs')
  BY OthersHoldNothing
<1>4. state.pc # "idle" => Alone(w, state)
  BY HolderIsAlone
<1>5. SoundWorker(state, runs', sessions')
  OBVIOUS
<1> QED  BY <1>2, <1>3, <1>4, <1>5, OneMoves

(* A step of the holder of a run that goes on with its claim. *)
LEMMA HolderGoesOn ==
  ASSUME WorkerInv, NEW w \in Workers, workers[w].pc # "idle", NEW r, r = workers[w].run,
         RowMoves(r), Fenced(r, workers[w].epoch), SourceInv', UNCHANGED sessions, PermitsTyped',
         NEW state \in Worker, Put1(w, state), GoesOn(workers[w], state), state.pc # "record",
         state.pc \in Reading => state.page = runs'[r].pages
  PROVE  WorkerInv'
<1>1. PICK worker : worker = workers[w]
  OBVIOUS
<1>2. worker \in Worker /\ SoundWorker(worker, runs, sessions) /\ worker.pc # "idle" /\ r \in DOMAIN runs
  BY <1>1, WorkerRow
<1>3. ASSUME state.pc # "idle"
      PROVE  /\ state.run = r /\ state.epoch = worker.epoch /\ state.attempt = worker.attempt
             /\ state.pc \in Attempting \/ state.handle # "none" => state.attempt # 0
  BY <1>1, <1>3 DEF GoesOn
<1>4. r \in DOMAIN runs' /\ worker.epoch \in 1..runs'[r].epoch
  BY <1>1, <1>2 DEF RowMoves, RowKeeps, SoundWorker
<1>5. worker.attempt # 0 => Gone(sessions, r, worker.attempt) \/ Owes(runs'[r], worker.attempt)
  <2>1. worker.attempt # 0 => worker.attempt \in 1..MaxEpoch
    BY <1>2, SourceConstants DEF Worker
  <2> QED  BY <1>1, <1>2, <2>1 DEF RowMoves, RowKeeps, SoundWorker
<1>6. SoundWorker(state, runs', sessions)
  BY <1>3, <1>4, <1>5 DEF SoundWorker
<1> QED  BY <1>1, <1>3, <1>6, HolderMoves

-----------------------------------------------------------------------------
(* The rows a holder writes. *)

(* Rows a holder writes keep what the run owes when they say one of these. *)
LEMMA RowPut ==
  ASSUME WorkerInv, NEW r \in DOMAIN runs, NEW row, Put(r, row), NEW run, run = runs[r],
         run.status \in Leased, row.epoch = run.epoch, row.attempt = run.attempt,
         \/ row.status \in Leased /\ row.cleanup = run.cleanup
         \/ row.status \in Leased /\ row.cleanup = "REVOKED" /\ Gone(sessions, r, run.attempt)
         \/ row.status \notin Leased /\ run.cleanup # "PENDING"
         \/ row.status = "FAILED" /\ row.cleanup = "UNCERTAIN"
  PROVE  RowMoves(r) /\ (row.pages = run.pages => RowRests(r)) /\ runs'[r] = row
<1>1. runs' = [runs EXCEPT ![r] = row] /\ runs \in Seq(Run) /\ "FAILED" \notin Leased
  BY DEF Put, WorkerInv, SourceInv, SourceTypeOK, Leased
<1>2. DOMAIN runs' = DOMAIN runs /\ runs'[r] = row /\ \A s \in DOMAIN runs : s # r => runs'[s] = runs[s]
  BY <1>1
<1>3. /\ run.cleanup \in {"NOT_OPENED", "PENDING", "REVOKED"}
      /\ run.cleanup = "REVOKED" /\ run.attempt # 0 => Gone(sessions, r, run.attempt)
  BY DEF WorkerInv, RevokedIsGone
<1>4. \A e \in 1..MaxEpoch : Owes(run, e) => Owes(row, e) \/ Gone(sessions, r, e)
  BY <1>1, <1>3 DEF Owes
<1>5. row.status \in Leased =>
        /\ row.cleanup \in {"NOT_OPENED", "PENDING", "REVOKED"}
        /\ row.cleanup = "REVOKED" /\ row.attempt # 0 => Gone(sessions, r, row.attempt)
  BY <1>1, <1>3
<1>6. run.epoch \in Nat
  BY Rows DEF WorkerInv, SourceInv, Run
<1> QED  BY <1>2, <1>4, <1>5, <1>6 DEF RowMoves, RowKeeps, RowRests

(* Stages, intents, results and receipts keep what the run owes: a revocation is recorded only
   when the session is gone. *)
LEMMA HeldRow ==
  ASSUME WorkerInv, NEW r \in DOMAIN runs, NEW e \in 1..MaxEpoch, NEW a \in 1..MaxEpoch,
         NEW step, NEW outcome,
         \/ AdvanceStage(r, e, step) \/ AdvanceToCleanup(r, e) \/ ProposeValidationResult(r, e, outcome)
         \/ PrepareFailureIntent(r, e) \/ Delay(r, e) \/ Complete(r, e) \/ Fail(r, e)
         \/ RecordUncertain(r, e, a) \/ (RecordRevoked(r, e, a) /\ Gone(sessions, r, a))
  PROVE  RowRests(r) /\ Fenced(r, e)
<1>1. PICK run : run = runs[r]
  OBVIOUS
<1>2. Fenced(r, e) /\ run.status \in Leased
  BY <1>1 DEF AdvanceStage, AdvanceToCleanup, ProposeValidationResult, PrepareFailureIntent, Delay,
              Complete, Fail, RecordUncertain, RecordRevoked, MayRecordCleanup, Fenced
<1>3. run \in Run /\ {"RUNNING", "FINALIZING"} = Leased
  BY <1>1, Rows DEF WorkerInv, SourceInv, Leased
<1>4. CASE AdvanceStage(r, e, step)
  <2>1. PICK row : row = [run EXCEPT !.stage = step[2]]
    OBVIOUS
  <2>2. /\ Put(r, row) /\ row.status = run.status /\ row.epoch = run.epoch /\ row.attempt = run.attempt
        /\ row.cleanup = run.cleanup /\ row.pages = run.pages
    BY <1>1, <1>3, <1>4, <2>1 DEF AdvanceStage, PutRun, Run
  <2> QED  BY <1>1, <1>2, <2>2, RowPut
<1>5. CASE AdvanceToCleanup(r, e)
  <2>1. PICK row : row = [run EXCEPT !.stage = "CLEANING_UP", !.pending = TRUE]
    OBVIOUS
  <2>2. /\ Put(r, row) /\ row.status = run.status /\ row.epoch = run.epoch /\ row.attempt = run.attempt
        /\ row.cleanup = run.cleanup /\ row.pages = run.pages
    BY <1>1, <1>3, <1>5, <2>1 DEF AdvanceToCleanup, PutRun, Run
  <2> QED  BY <1>1, <1>2, <2>2, RowPut
<1>6. CASE ProposeValidationResult(r, e, outcome)
  <2>1. PICK row : row = [run EXCEPT !.status = "FINALIZING", !.stage = "CLEANING_UP",
                                     !.work = "VALIDATION_PROOF", !.verdict = outcome]
    OBVIOUS
  <2>2. /\ Put(r, row) /\ row.status = "FINALIZING" /\ row.epoch = run.epoch /\ row.attempt = run.attempt
        /\ row.cleanup = run.cleanup /\ row.pages = run.pages
    BY <1>1, <1>3, <1>6, <2>1 DEF ProposeValidationResult, PutRun, Run
  <2> QED  BY <1>1, <1>2, <1>3, <2>2, RowPut
<1>7. CASE PrepareFailureIntent(r, e)
  <2>1. PICK row : row = FailureIntent(run)
    OBVIOUS
  <2>2. /\ Put(r, row) /\ row.status = "FINALIZING" /\ row.epoch = run.epoch /\ row.attempt = run.attempt
        /\ row.cleanup = run.cleanup /\ row.pages = run.pages
    BY <1>1, <1>3, <1>7, <2>1 DEF PrepareFailureIntent, FailureIntent, PutRun, Run
  <2> QED  BY <1>1, <1>2, <1>3, <2>2, RowPut
<1>8. CASE Delay(r, e)
  <2>1. PICK row : row = [run EXCEPT !.status = "DELAYED", !.stage = "DELAYED",
                                     !.live = FALSE, !.pending = FALSE, !.due = FALSE]
    OBVIOUS
  <2>2. /\ Put(r, row) /\ row.status = "DELAYED" /\ row.epoch = run.epoch /\ row.attempt = run.attempt
        /\ run.cleanup = "REVOKED" /\ row.pages = run.pages
    BY <1>1, <1>3, <1>8, <2>1 DEF Delay, Cleaned, PutRun, Run
  <2>3. row.status \notin Leased
    BY <2>2 DEF Leased
  <2> QED  BY <1>1, <1>2, <2>2, <2>3, RowPut
<1>9. CASE Complete(r, e) \/ Fail(r, e)
  <2>1. PICK status : /\ Terminate(r, status) /\ status \in {"SUCCEEDED", "PARTIAL", "FAILED"}
                      /\ run.cleanup \in {"REVOKED", "NOT_OPENED"}
    BY <1>1, <1>9 DEF Complete, Fail, Cleaned
  <2>2. PICK row : row = [run EXCEPT !.status = status, !.stage = "COMPLETED", !.live = FALSE]
    OBVIOUS
  <2>3. /\ Put(r, row) /\ row.status = status /\ row.epoch = run.epoch /\ row.attempt = run.attempt
        /\ row.pages = run.pages
    BY <1>1, <1>3, <2>1, <2>2 DEF Terminate, Run
  <2>4. row.status \notin Leased
    BY <2>1, <2>3 DEF Leased
  <2> QED  BY <1>1, <1>2, <2>1, <2>3, <2>4, RowPut
<1>10. CASE RecordUncertain(r, e, a)
  <2>1. PICK base : base = IF run.work = None THEN FailureIntent(run) ELSE run
    OBVIOUS
  <2>2. PICK row : row = [base EXCEPT !.cleanup = "UNCERTAIN", !.receipt = TRUE, !.pending = FALSE,
                                      !.status = "FAILED", !.stage = "COMPLETED", !.live = FALSE]
    OBVIOUS
  <2>3. /\ DOMAIN base = DOMAIN run /\ base.epoch = run.epoch /\ base.attempt = run.attempt /\ base.pages = run.pages
    BY <1>3, <2>1 DEF FailureIntent, Run
  <2>4. /\ row.status = "FAILED" /\ row.cleanup = "UNCERTAIN" /\ row.epoch = run.epoch
        /\ row.attempt = run.attempt /\ row.pages = run.pages
    BY <1>3, <2>2, <2>3 DEF Run
  <2>5. Put(r, row)
    BY <1>1, <1>10, <2>1, <2>2 DEF RecordUncertain
  <2> QED  BY <1>1, <1>2, <2>4, <2>5, RowPut
<1>11. CASE RecordRevoked(r, e, a) /\ Gone(sessions, r, a)
  <2>1. PICK row : row = [run EXCEPT !.cleanup = "REVOKED", !.receipt = TRUE]
    OBVIOUS
  <2>2. /\ Put(r, row) /\ row.status = run.status /\ row.epoch = run.epoch /\ row.attempt = run.attempt
        /\ row.cleanup = "REVOKED" /\ row.pages = run.pages /\ run.attempt = a
    BY <1>1, <1>3, <1>11, <2>1 DEF RecordRevoked, MayRecordCleanup, PutRun, Run
  <2> QED  BY <1>1, <1>2, <1>11, <2>2, RowPut
<1> QED  BY <1>2, <1>4, <1>5, <1>6, <1>7, <1>8, <1>9, <1>10, <1>11

(* An attempt that is reserved is owed. *)
LEMMA ReservedRow ==
  ASSUME WorkerInv, NEW r \in DOMAIN runs, NEW e \in 1..MaxEpoch, ReserveCleanupAttempt(r, e)
  PROVE  RowRests(r) /\ Fenced(r, e) /\ Owes(runs'[r], e)
<1>1. PICK run, row : run = runs[r] /\ row = [run EXCEPT !.cleanup = "PENDING", !.attempt = e]
  OBVIOUS
<1>2. run \in Run /\ {"RUNNING", "FINALIZING"} = Leased /\ runs \in Seq(Run) /\ e # 0
  BY <1>1, Rows DEF WorkerInv, SourceInv, SourceTypeOK, Leased
<1>3. /\ Fenced(r, e) /\ run.status = "RUNNING" /\ run.cleanup = "NOT_OPENED" /\ runs' = [runs EXCEPT ![r] = row]
  BY <1>1 DEF ReserveCleanupAttempt, PutRun, Put
<1>4. /\ row.status = "RUNNING" /\ row.epoch = run.epoch /\ row.attempt = e
      /\ row.cleanup = "PENDING" /\ row.pages = run.pages
  BY <1>1, <1>2, <1>3 DEF Run
<1>5. DOMAIN runs' = DOMAIN runs /\ runs'[r] = row /\ \A s \in DOMAIN runs : s # r => runs'[s] = runs[s]
  BY <1>2, <1>3
<1>6. \A n \in 1..MaxEpoch : ~Owes(run, n)
  BY <1>3 DEF Owes
<1>7. Owes(row, e)
  BY <1>2, <1>4 DEF Owes
<1>8. row.cleanup = "PENDING" /\ row.epoch = run.epoch /\ row.pages = run.pages /\ run.epoch \in Nat
  BY <1>2, <1>4 DEF Run
<1>9. RowKeeps(r)
  BY <1>1, <1>5, <1>6, <1>8 DEF RowKeeps
<1> QED  BY <1>1, <1>3, <1>5, <1>7, <1>8, <1>9 DEF RowMoves, RowRests

(* A page that is applied keeps what the run owes. *)
LEMMA PageRow ==
  ASSUME WorkerInv, NEW r \in DOMAIN runs, NEW e \in 1..MaxEpoch, NEW final \in BOOLEAN,
         NEW complete \in BOOLEAN, NEW rejects \in BOOLEAN, ApplyPage(r, e, final, complete, rejects)
  PROVE  /\ RowMoves(r) /\ Fenced(r, e) /\ runs[r].pages < MaxPages
         /\ runs'[r].pages = runs[r].pages + 1
<1>1. PICK run : run = runs[r]
  OBVIOUS
<1>2. PICK rejected : rejected = (run.rejected \/ rejects)
  OBVIOUS
<1>3. PICK pages, checkpoint : pages = run.pages + 1 /\ checkpoint = run.checkpoint + 1
  OBVIOUS
<1>4. PICK next : next = [run EXCEPT !.pages = pages, !.checkpoint = checkpoint, !.rejected = rejected]
  OBVIOUS
<1>5. PICK row : row = IF final
                       THEN [next EXCEPT !.status = "FINALIZING", !.stage = "CLEANING_UP",
                               !.work = "DATA_PROJECTION", !.complete = complete /\ ~rejected,
                               !.verdict = IF rejected THEN "PARTIAL" ELSE "SUCCEEDED"]
                       ELSE [next EXCEPT !.stage = "READING"]
  OBVIOUS
<1>6. run \in Run /\ {"RUNNING", "FINALIZING"} = Leased
  BY <1>1, Rows DEF WorkerInv, SourceInv, Leased
<1>7. next = [run EXCEPT !.pages = run.pages + 1, !.checkpoint = run.checkpoint + 1, !.rejected = rejected]
  BY <1>3, <1>4
<1>8. /\ Fenced(r, e) /\ run.status = "RUNNING" /\ run.pages < MaxPages /\ Put(r, row)
  BY <1>1, <1>2, <1>5, <1>7 DEF ApplyPage, PageAdmitted
<1>9. /\ next.status = run.status /\ next.epoch = run.epoch /\ next.attempt = run.attempt
      /\ next.cleanup = run.cleanup /\ next.pages = pages /\ DOMAIN next = DOMAIN run
  BY <1>4, <1>6 DEF Run
<1>10. /\ row.status \in Leased /\ row.epoch = run.epoch /\ row.attempt = run.attempt
       /\ row.cleanup = run.cleanup /\ row.pages = pages
  BY <1>5, <1>6, <1>8, <1>9 DEF Run
<1>11. RowMoves(r) /\ runs'[r] = row
  BY <1>1, <1>6, <1>8, <1>10, RowPut
<1> QED  BY <1>1, <1>3, <1>8, <1>10, <1>11

-----------------------------------------------------------------------------
(* The steps of a worker. *)

(* A permit is released. *)
LEMMA PermitsGoBack ==
  ASSUME WorkerInv, NEW w \in Workers, permits' = Released(w) \/ UNCHANGED permits
  PROVE  PermitsTyped'
BY DEF WorkerInv, WorkerTypeOK, PermitsTyped, Released

(* A worker that stops, whatever it was about to do, leaves nothing unanswered. *)
LEMMA Exits ==
  ASSUME WorkerInv, NEW w \in Workers, workers[w].pc # "idle", Exit(w),
         UNCHANGED sessions, permits' = Released(w) \/ UNCHANGED permits,
         \/ UNCHANGED sourceVars
         \/ RowMoves(workers[w].run) /\ Fenced(workers[w].run, workers[w].epoch) /\ SourceInv'
  PROVE  WorkerInv'
<1>1. Idle \in Worker /\ Idle.pc = "idle" /\ Put1(w, Idle)
  BY SourceConstants DEF Idle, Worker, Exit
<1>2. PermitsTyped' /\ GoesOn(workers[w], Idle) /\ "idle" \notin Reading
  BY <1>1, PermitsGoBack DEF GoesOn, Reading
<1>3. CASE UNCHANGED sourceVars
  BY <1>1, <1>2, <1>3, WorkerTurns
<1>4. CASE RowMoves(workers[w].run) /\ Fenced(workers[w].run, workers[w].epoch) /\ SourceInv'
  BY <1>1, <1>2, <1>4, HolderGoesOn
<1> QED  BY <1>3, <1>4

(* So does one that takes the abort path. *)
LEMMA GivesUp ==
  ASSUME WorkerInv, NEW w \in Workers, workers[w].pc \in Attempting, GiveUp(w),
         \/ UNCHANGED sourceVars
         \/ RowMoves(workers[w].run) /\ Fenced(workers[w].run, workers[w].epoch) /\ SourceInv'
  PROVE  WorkerInv'
<1>1. PICK worker : worker = workers[w]
  OBVIOUS
<1>2. PICK state : state = [worker EXCEPT !.pc = "abort", !.permit = FALSE]
  OBVIOUS
<1>3. Put1(w, state) /\ UNCHANGED sessions /\ PermitsTyped'
  BY <1>1, <1>2, PermitsGoBack DEF GiveUp
<1>4. worker \in Worker /\ worker.pc # "idle" /\ worker.attempt # 0
  BY <1>1, WorkerRow DEF SoundWorker, Attempting
<1>5. /\ state \in Worker /\ state.pc = "abort" /\ state.run = worker.run /\ state.epoch = worker.epoch
      /\ state.attempt = worker.attempt
  BY <1>2, <1>4 DEF Worker
<1>6. GoesOn(worker, state) /\ "abort" \notin Reading
  BY <1>4, <1>5 DEF GoesOn, Reading
<1>7. CASE UNCHANGED sourceVars
  BY <1>1, <1>3, <1>4, <1>5, <1>6, <1>7, WorkerTurns
<1>8. CASE RowMoves(workers[w].run) /\ Fenced(workers[w].run, workers[w].epoch) /\ SourceInv'
  BY <1>1, <1>3, <1>4, <1>5, <1>6, <1>8, HolderGoesOn
<1> QED  BY <1>7, <1>8

(* A permit is granted or refused. *)
LEMMA AcquireStep ==
  ASSUME WorkerInv, NEW w \in Workers, Acquire(w)
  PROVE  WorkerInv'
<1>1. PICK worker : worker = workers[w]
  OBVIOUS
<1>2. /\ worker \in Worker /\ worker.pc = "acquire" /\ worker.page < MaxPages /\ UNCHANGED <<sourceVars, sessions>>
      /\ worker.run \in 1..MaxRuns /\ worker.epoch \in 1..MaxEpoch /\ MaxPages \in Nat
      /\ worker.handle # "none" => worker.attempt # 0
  BY <1>1, WorkerRow DEF Acquire, SoundWorker
<1>3. CASE /\ Grant(w)
           /\ Put1(w, [worker EXCEPT !.permit = TRUE,
                         !.pc = IF worker.handle = "none" THEN "reserve" ELSE "provide"])
  <2>1. PICK state : state = [worker EXCEPT !.permit = TRUE,
                                !.pc = IF worker.handle = "none" THEN "reserve" ELSE "provide"]
    OBVIOUS
  <2>2. /\ state \in Worker /\ state.run = worker.run /\ state.epoch = worker.epoch /\ state.attempt = worker.attempt
        /\ state.page = worker.page /\ state.handle = worker.handle
        /\ state.pc = IF worker.handle = "none" THEN "reserve" ELSE "provide"
    BY <1>2, <2>1 DEF Worker
  <2>3. PermitsTyped'
    <3>1. worker.page + 1 \in 1..MaxPages
      BY <1>2 DEF Worker
    <3>2. Permit(w) \in [run : 1..MaxRuns, epoch : 1..MaxEpoch, page : 1..MaxPages]
      BY <1>1, <1>2, <3>1 DEF Permit
    <3> QED  BY <1>3, <3>2 DEF WorkerInv, WorkerTypeOK, PermitsTyped, Grant
  <2>4. GoesOn(worker, state) /\ worker.pc \in Reading /\ state.pc # "record"
    BY <1>2, <2>2 DEF GoesOn, Attempting, Reading
  <2> QED  BY <1>1, <1>2, <1>3, <2>1, <2>2, <2>3, <2>4, WorkerTurns
<1>4. CASE Exit(w) /\ UNCHANGED permits
  BY <1>1, <1>2, <1>4, Exits
<1>5. CASE worker.handle # "none" /\ To(w, "abort") /\ UNCHANGED permits
  <2>1. PICK state : state = [worker EXCEPT !.pc = "abort"]
    OBVIOUS
  <2>2. /\ state \in Worker /\ state.run = worker.run /\ state.epoch = worker.epoch /\ state.attempt = worker.attempt
        /\ state.pc = "abort" /\ Put1(w, state)
    BY <1>1, <1>2, <1>5, <2>1 DEF Worker, To
  <2>3. GoesOn(worker, state) /\ state.pc \notin Reading
    BY <1>2, <1>5, <2>2 DEF GoesOn, Reading
  <2> QED  BY <1>1, <1>2, <1>5, <2>2, <2>3, PermitsGoBack, WorkerTurns
<1> QED  BY <1>1, <1>3, <1>4, <1>5 DEF Acquire

(* An attempt is reserved, or the worker stops, whether it was reserved or not. *)
LEMMA ReserveStep ==
  ASSUME WorkerInv, NEW w \in Workers, Reserve(w)
  PROVE  WorkerInv'
<1>1. PICK worker, r, e : worker = workers[w] /\ r = worker.run /\ e = worker.epoch
  OBVIOUS
<1>2. /\ worker \in Worker /\ worker.pc = "reserve" /\ r \in DOMAIN runs /\ e \in 1..MaxEpoch
      /\ SoundWorker(worker, runs, sessions) /\ SourceInv /\ UNCHANGED sessions
  BY <1>1, WorkerRow DEF Reserve
<1>3. ASSUME ReserveCleanupAttempt(r, e)
      PROVE  RowRests(r) /\ Fenced(r, e) /\ Owes(runs'[r], e) /\ SourceInv'
  <2>1. SourceInv'
    BY <1>2, <1>3, HolderSteps DEF Work
  <2> QED  BY <1>2, <1>3, <2>1, ReservedRow
<1>4. CASE /\ ReserveCleanupAttempt(r, e) /\ UNCHANGED permits
           /\ Put1(w, [worker EXCEPT !.pc = "open", !.attempt = e])
  <2>1. PICK state : state = [worker EXCEPT !.pc = "open", !.attempt = e]
    OBVIOUS
  <2>2. /\ state \in Worker /\ state.run = r /\ state.epoch = e /\ state.attempt = e /\ state.pc = "open"
        /\ state.page = worker.page
    BY <1>1, <1>2, <2>1 DEF Worker
  <2>3. /\ RowMoves(r) /\ Fenced(r, e) /\ Owes(runs'[r], e) /\ SourceInv' /\ runs'[r].pages = runs[r].pages
    BY <1>3, <1>4 DEF RowRests
  <2>4. worker.page = runs[r].pages
    BY <1>1, <1>2, <2>3 DEF SoundWorker, Holds, Fenced, Reading
  <2>5. r \in DOMAIN runs' /\ e \in 1..runs'[r].epoch
    BY <1>1, <1>2, <2>3 DEF RowMoves, RowKeeps, SoundWorker
  <2>6. SoundWorker(state, runs', sessions)
    BY <1>2, <2>2, <2>3, <2>4, <2>5 DEF SoundWorker
  <2> QED  BY <1>1, <1>2, <1>4, <2>1, <2>2, <2>3, <2>6, PermitsGoBack, HolderMoves
<1>5. CASE UNCHANGED sourceVars /\ Exit(w) /\ permits' = Released(w)
  BY <1>1, <1>2, <1>5, Exits
<1>6. CASE ReserveCleanupAttempt(r, e) /\ Exit(w) /\ permits' = Released(w)
  BY <1>1, <1>2, <1>3, <1>6, Exits DEF RowRests
<1> QED  BY <1>1, <1>4, <1>5, <1>6 DEF Reserve

(* The session of an attempt is opened, opened again or closed. *)
LEMMA SessionSteps ==
  ASSUME WorkerInv, NEW w \in Workers, OpenAttempt(w) \/ Reopen(w) \/ Revoke(w)
  PROVE  WorkerInv'
<1>1. PICK worker, a : worker = workers[w] /\ a = Attempt(w)
  OBVIOUS
<1>2. /\ worker \in Worker /\ worker.pc \in {"open", "reopen", "revoke"} /\ UNCHANGED <<sourceVars, permits>>
      /\ worker.attempt # 0 /\ PermitsTyped'
  <2>1. worker.pc \in {"open", "reopen", "revoke"} /\ UNCHANGED <<sourceVars, permits>>
    BY <1>1 DEF OpenAttempt, Reopen, Revoke
  <2> QED  BY <1>1, <2>1, WorkerRow, PermitsGoBack DEF SoundWorker, Attempting
<1>3. /\ "abort" \notin Reading /\ "postpone" \notin Reading /\ "revoke" \notin Reading /\ "record" \notin Reading
      /\ "open" \in Reading
  BY DEF Reading
<1>4. CASE OpenAttempt(w)
  <2>1. PICK pc \in {"provide", "abort", "postpone"}, handle \in {"opened", "failed"} :
          /\ Put1(w, [worker EXCEPT !.handle = handle, !.pc = pc])
          /\ worker.pc = "open"
          /\ sessions' = sessions \/ sessions' = OpenOrRecover(a)
    BY <1>1, <1>4 DEF OpenAttempt, OpenUnknown, OpenFails
  <2>2. PICK state : state = [worker EXCEPT !.handle = handle, !.pc = pc]
    OBVIOUS
  <2>3. /\ state \in Worker /\ state.run = worker.run /\ state.epoch = worker.epoch /\ state.attempt = worker.attempt
        /\ state.page = worker.page /\ state.pc = pc /\ Put1(w, state)
    BY <1>2, <2>1, <2>2 DEF Worker
  <2>4. GoesOn(worker, state)
    BY <1>2, <2>3 DEF GoesOn
  <2> QED  BY <1>1, <1>2, <1>3, <2>1, <2>3, <2>4, WorkerTurns
<1>5. CASE Reopen(w)
  <2>1. PICK handle \in {"opened", "failed"} :
          /\ Put1(w, [worker EXCEPT !.pc = "revoke", !.handle = handle])
          /\ sessions' = sessions \/ sessions' = OpenOrRecover(a)
    BY <1>1, <1>5 DEF Reopen, OpenFails
  <2>2. PICK state : state = [worker EXCEPT !.pc = "revoke", !.handle = handle]
    OBVIOUS
  <2>3. /\ state \in Worker /\ state.run = worker.run /\ state.epoch = worker.epoch /\ state.attempt = worker.attempt
        /\ state.pc = "revoke" /\ Put1(w, state)
    BY <1>2, <2>1, <2>2 DEF Worker
  <2>4. GoesOn(worker, state)
    BY <1>2, <2>3 DEF GoesOn
  <2> QED  BY <1>1, <1>2, <1>3, <2>1, <2>3, <2>4, WorkerTurns
<1>6. CASE Revoke(w)
  <2>1. PICK proof \in {"REVOKED", "UNCERTAIN"} :
          /\ Put1(w, [worker EXCEPT !.pc = "record", !.proof = proof])
          /\ sessions' = sessions \/ sessions' = RevokeSession(a)
          /\ proof = "REVOKED" => sessions' = RevokeSession(a)
    BY <1>1, <1>6 DEF Revoke
  <2>2. PICK state : state = [worker EXCEPT !.pc = "record", !.proof = proof]
    OBVIOUS
  <2>3. /\ state \in Worker /\ state.run = worker.run /\ state.epoch = worker.epoch /\ state.attempt = worker.attempt
        /\ state.pc = "record" /\ state.proof = proof /\ Put1(w, state)
    BY <1>2, <2>1, <2>2 DEF Worker
  <2>4. GoesOn(worker, state)
    BY <1>2, <2>3 DEF GoesOn
  <2>5. a \in Attempts
    <3>1. worker.run \in 1..MaxRuns /\ worker.attempt \in 1..MaxEpoch
      BY <1>1, <1>2, WorkerRow DEF Worker
    <3> QED  BY <1>1, <3>1 DEF Attempt, Attempts
  <2>6. sessions' = RevokeSession(a) => sessions'[a] = "CLOSED"
    BY <2>5 DEF RevokeSession, WorkerInv, WorkerTypeOK
  <2> QED  BY <1>1, <1>2, <1>3, <2>1, <2>3, <2>4, <2>6, WorkerTurns
<1> QED  BY <1>4, <1>5, <1>6

(* The provider is called. *)
LEMMA ProvideStep ==
  ASSUME WorkerInv, NEW w \in Workers, Provide(w)
  PROVE  WorkerInv'
<1>1. PICK worker : worker = workers[w]
  OBVIOUS
<1>2. worker \in Worker /\ worker.pc = "provide" /\ worker.attempt # 0
  BY <1>1, WorkerRow DEF Provide, SoundWorker, Attempting
<1>3. CASE GiveUp(w) /\ UNCHANGED sourceVars
  BY <1>1, <1>2, <1>3, GivesUp DEF Attempting
<1>4. CASE /\ UNCHANGED <<sourceVars, sessions, permits>>
           /\ \E pc \in {"propose", "apply", "postpone"}, final \in BOOLEAN :
                Put1(w, [worker EXCEPT !.pc = pc, !.final = final])
  <2>1. PICK pc \in {"propose", "apply", "postpone"}, final \in BOOLEAN :
          Put1(w, [worker EXCEPT !.pc = pc, !.final = final])
    BY <1>4
  <2>2. PICK state : state = [worker EXCEPT !.pc = pc, !.final = final]
    OBVIOUS
  <2>3. /\ state \in Worker /\ state.run = worker.run /\ state.epoch = worker.epoch /\ state.attempt = worker.attempt
        /\ state.page = worker.page /\ state.pc = pc /\ Put1(w, state)
    BY <1>2, <2>1, <2>2 DEF Worker
  <2>4. GoesOn(worker, state) /\ worker.pc \in Reading
    BY <1>2, <2>3 DEF GoesOn, Reading
  <2> QED  BY <1>1, <1>2, <1>4, <2>3, <2>4, PermitsGoBack, WorkerTurns
<1>5. \A pc \in {"propose", "postpone"} : [worker EXCEPT !.pc = pc] = [worker EXCEPT !.pc = pc, !.final = worker.final]
  BY <1>2 DEF Worker
<1>6. worker.final \in BOOLEAN
  BY <1>2 DEF Worker
<1>7. ASSUME NEW pc \in {"propose", "postpone"}, To(w, pc)
      PROVE  Put1(w, [worker EXCEPT !.pc = pc, !.final = worker.final])
  BY <1>1, <1>5, <1>7 DEF To
<1> QED  BY <1>1, <1>3, <1>4, <1>6, <1>7 DEF Provide

(* The result of a validation is proposed. *)
LEMMA ProposeStep ==
  ASSUME WorkerInv, NEW w \in Workers, Propose(w)
  PROVE  WorkerInv'
<1>1. PICK worker, r, e : worker = workers[w] /\ r = worker.run /\ e = worker.epoch
  OBVIOUS
<1>2. /\ worker \in Worker /\ worker.pc = "propose" /\ worker.attempt # 0 /\ r \in DOMAIN runs /\ e \in 1..MaxEpoch
      /\ SourceInv
  BY <1>1, WorkerRow DEF Propose, SoundWorker, Attempting
<1>3. CASE GiveUp(w) /\ UNCHANGED sourceVars
  BY <1>1, <1>2, <1>3, GivesUp DEF Attempting
<1>4. ASSUME NEW outcome \in {"SUCCEEDED", "FAILED"}, ProposeValidationResult(r, e, outcome),
             NEW known \in BOOLEAN, permits' = Released(w), UNCHANGED sessions,
             Put1(w, [worker EXCEPT !.pc = IF known THEN "revoke" ELSE "abort", !.permit = FALSE, !.work = known])
      PROVE  WorkerInv'
  <2>1. PICK state : state = [worker EXCEPT !.pc = IF known THEN "revoke" ELSE "abort",
                                            !.permit = FALSE, !.work = known]
    OBVIOUS
  <2>2. /\ state \in Worker /\ state.run = r /\ state.epoch = e /\ state.attempt = worker.attempt
        /\ state.pc \in {"revoke", "abort"} /\ Put1(w, state)
    BY <1>1, <1>2, <1>4, <2>1 DEF Worker
  <2>3. GoesOn(worker, state) /\ state.pc \notin Reading
    BY <1>1, <1>2, <2>2 DEF GoesOn, Reading
  <2>4. SourceInv'
    BY <1>2, <1>4, HolderSteps DEF Work
  <2>5. RowRests(r) /\ Fenced(r, e)
    BY <1>2, <1>4, HeldRow
  <2> QED  BY <1>1, <1>2, <1>4, <2>2, <2>3, <2>4, <2>5, PermitsGoBack, HolderGoesOn DEF RowRests
<1> QED  BY <1>1, <1>3, <1>4 DEF Propose

(* A page is normalised. *)
LEMMA ApplyStep ==
  ASSUME WorkerInv, NEW w \in Workers, Apply(w)
  PROVE  WorkerInv'
<1>1. PICK worker, r, e : worker = workers[w] /\ r = worker.run /\ e = worker.epoch
  OBVIOUS
<1>2. /\ worker \in Worker /\ worker.pc = "apply" /\ worker.attempt # 0 /\ r \in DOMAIN runs /\ e \in 1..MaxEpoch
      /\ SourceInv /\ SoundWorker(worker, runs, sessions)
  BY <1>1, WorkerRow DEF Apply, SoundWorker, Attempting
<1>3. CASE GiveUp(w) /\ UNCHANGED sourceVars
  BY <1>1, <1>2, <1>3, GivesUp DEF Attempting
<1>4. CASE /\ AdvanceStage(r, e, <<"READING", "NORMALIZING">>)
           /\ To(w, "commit") /\ UNCHANGED <<sessions, permits>>
  <2>1. PICK state : state = [worker EXCEPT !.pc = "commit"]
    OBVIOUS
  <2>2. /\ state \in Worker /\ state.run = r /\ state.epoch = e /\ state.attempt = worker.attempt
        /\ state.page = worker.page /\ state.pc = "commit" /\ Put1(w, state)
    BY <1>1, <1>2, <1>4, <2>1 DEF Worker, To
  <2>3. GoesOn(worker, state)
    BY <1>1, <1>2, <2>2 DEF GoesOn
  <2>4. SourceInv'
    BY <1>2, <1>4, HolderSteps DEF Work, StageSteps
  <2>5. PICK step : step = <<"READING", "NORMALIZING">>
    OBVIOUS
  <2>6. RowRests(r) /\ Fenced(r, e)
    BY <1>2, <1>4, <2>5, HeldRow
  <2>7. state.page = runs'[r].pages
    BY <1>1, <1>2, <2>2, <2>6 DEF SoundWorker, Holds, Fenced, Reading, RowRests
  <2> QED  BY <1>1, <1>2, <1>4, <2>2, <2>3, <2>4, <2>6, <2>7, PermitsGoBack, HolderGoesOn DEF RowRests
<1> QED  BY <1>1, <1>3, <1>4 DEF Apply

(* A page is committed: it was the next page of the run, and the worker knows the one after it. *)
LEMMA CommitStep ==
  ASSUME WorkerInv, NEW w \in Workers, Commit(w)
  PROVE  WorkerInv'
<1>1. PICK worker, r, e : worker = workers[w] /\ r = worker.run /\ e = worker.epoch
  OBVIOUS
<1>2. /\ worker \in Worker /\ worker.pc = "commit" /\ worker.attempt # 0 /\ r \in DOMAIN runs /\ e \in 1..MaxEpoch
      /\ SourceInv /\ SoundWorker(worker, runs, sessions) /\ MaxPages \in Nat /\ runs[r] \in Run /\ worker.final \in BOOLEAN
  <2>1. /\ worker \in Worker /\ worker.pc = "commit" /\ worker.attempt # 0 /\ r \in DOMAIN runs /\ e \in 1..MaxEpoch
        /\ SourceInv /\ SoundWorker(worker, runs, sessions) /\ MaxPages \in Nat /\ runs[r] \in Run
    BY <1>1, WorkerRow DEF Commit, PageApplies, SoundWorker, Attempting
  <2> QED  BY <2>1 DEF Worker
<1>3. CASE GiveUp(w) /\ UNCHANGED sourceVars
  BY <1>1, <1>2, <1>3, GivesUp DEF Attempting
<1>4. ASSUME NEW complete \in BOOLEAN, NEW rejects \in BOOLEAN, ApplyPage(r, e, worker.final, complete, rejects)
      PROVE  /\ SourceInv' /\ RowMoves(r) /\ Fenced(r, e) /\ worker.page < MaxPages
             /\ runs'[r].pages = worker.page + 1
  <2>1. SourceInv'
    BY <1>2, <1>4, HolderSteps DEF Work
  <2>2. PICK final \in BOOLEAN : final = worker.final
    BY <1>2
  <2>3. RowMoves(r) /\ Fenced(r, e) /\ runs[r].pages < MaxPages /\ runs'[r].pages = runs[r].pages + 1
    BY <1>2, <1>4, <2>2, PageRow
  <2>4. worker.page = runs[r].pages
    BY <1>1, <1>2, <2>3 DEF SoundWorker, Holds, Fenced, Reading
  <2> QED  BY <2>1, <2>3, <2>4
<1>5. ASSUME NEW complete \in BOOLEAN, NEW rejects \in BOOLEAN, ApplyPage(r, e, worker.final, complete, rejects),
             GiveUp(w)
      PROVE  WorkerInv'
  BY <1>1, <1>2, <1>4, <1>5, GivesUp DEF Attempting
<1>6. ASSUME NEW complete \in BOOLEAN, NEW rejects \in BOOLEAN, ApplyPage(r, e, worker.final, complete, rejects),
             To(w, "settle"), UNCHANGED <<sessions, permits>>
      PROVE  WorkerInv'
  <2>1. PICK state : state = [worker EXCEPT !.pc = "settle"]
    OBVIOUS
  <2>2. /\ state \in Worker /\ state.run = r /\ state.epoch = e /\ state.attempt = worker.attempt
        /\ state.pc = "settle" /\ Put1(w, state)
    BY <1>1, <1>2, <1>6, <2>1 DEF Worker, To
  <2>3. GoesOn(worker, state) /\ state.pc \notin Reading
    BY <1>1, <1>2, <2>2 DEF GoesOn, Reading
  <2>4. SourceInv' /\ RowMoves(r) /\ Fenced(r, e)
    BY <1>4, <1>6
  <2> QED  BY <1>1, <1>2, <1>6, <2>2, <2>3, <2>4, PermitsGoBack, HolderGoesOn
<1>7. ASSUME NEW complete \in BOOLEAN, NEW rejects \in BOOLEAN, ApplyPage(r, e, worker.final, complete, rejects),
             permits' = Released(w), UNCHANGED sessions,
             Put1(w, [worker EXCEPT !.pc = "acquire", !.page = worker.page + 1, !.permit = FALSE])
      PROVE  WorkerInv'
  <2>1. PICK state : state = [worker EXCEPT !.pc = "acquire", !.page = worker.page + 1, !.permit = FALSE]
    OBVIOUS
  <2>2. /\ SourceInv' /\ RowMoves(r) /\ Fenced(r, e) /\ worker.page + 1 \in 0..MaxPages
        /\ runs'[r].pages = worker.page + 1
    BY <1>2, <1>4, <1>7 DEF Worker
  <2>3. /\ state \in Worker /\ state.run = r /\ state.epoch = e /\ state.attempt = worker.attempt
        /\ state.page = worker.page + 1 /\ state.pc = "acquire" /\ Put1(w, state)
    BY <1>1, <1>2, <1>7, <2>1, <2>2 DEF Worker
  <2>4. GoesOn(worker, state)
    BY <1>1, <1>2, <2>3 DEF GoesOn
  <2> QED  BY <1>1, <1>2, <1>7, <2>2, <2>3, <2>4, PermitsGoBack, HolderGoesOn
<1>8. CASE \E complete, rejects \in BOOLEAN : ApplyPage(r, e, worker.final, complete, rejects)
  <2>1. PICK complete \in BOOLEAN, rejects \in BOOLEAN : ApplyPage(r, e, worker.final, complete, rejects)
    BY <1>8
  <2>2. \/ To(w, "settle") /\ UNCHANGED <<sessions, permits>>
        \/ /\ permits' = Released(w) /\ UNCHANGED sessions
           /\ Put1(w, [worker EXCEPT !.pc = "acquire", !.page = worker.page + 1, !.permit = FALSE])
        \/ GiveUp(w)
    BY <1>1, <1>2 DEF Commit, PageApplies, Worker
  <2> QED  BY <1>5, <1>6, <1>7, <2>1, <2>2
<1> QED  BY <1>1, <1>3, <1>8 DEF Commit, PageApplies

(* The worker reads its work result. *)
LEMMA SettleStep ==
  ASSUME WorkerInv, NEW w \in Workers, Settle(w)
  PROVE  WorkerInv'
<1>1. PICK worker : worker = workers[w]
  OBVIOUS
<1>2. worker \in Worker /\ worker.pc = "settle" /\ worker.attempt # 0 /\ UNCHANGED sourceVars
  BY <1>1, WorkerRow DEF Settle, SoundWorker, Attempting
<1>3. CASE GiveUp(w)
  BY <1>1, <1>2, <1>3, GivesUp DEF Attempting
<1>4. CASE /\ permits' = Released(w) /\ UNCHANGED sessions
           /\ Put1(w, [worker EXCEPT !.pc = "revoke", !.permit = FALSE, !.work = TRUE])
  <2>1. PICK state : state = [worker EXCEPT !.pc = "revoke", !.permit = FALSE, !.work = TRUE]
    OBVIOUS
  <2>2. /\ state \in Worker /\ state.run = worker.run /\ state.epoch = worker.epoch /\ state.attempt = worker.attempt
        /\ state.pc = "revoke" /\ Put1(w, state)
    BY <1>2, <1>4, <2>1 DEF Worker
  <2>3. GoesOn(worker, state) /\ state.pc \notin Reading
    BY <1>2, <2>2 DEF GoesOn, Reading
  <2> QED  BY <1>1, <1>2, <1>4, <2>2, <2>3, PermitsGoBack, WorkerTurns
<1> QED  BY <1>1, <1>3, <1>4 DEF Settle

(* The intent to delay is persisted. *)
LEMMA PostponeStep ==
  ASSUME WorkerInv, NEW w \in Workers, Postpone(w)
  PROVE  WorkerInv'
<1>1. PICK worker, r, e : worker = workers[w] /\ r = worker.run /\ e = worker.epoch
  OBVIOUS
<1>2. /\ worker \in Worker /\ worker.pc = "postpone" /\ worker.attempt # 0 /\ r \in DOMAIN runs /\ e \in 1..MaxEpoch
      /\ SourceInv
  BY <1>1, WorkerRow DEF Postpone, SoundWorker, Attempting
<1>3. CASE GiveUp(w) /\ UNCHANGED sourceVars
  BY <1>1, <1>2, <1>3, GivesUp DEF Attempting
<1>4. ASSUME AdvanceToCleanup(r, e) PROVE RowMoves(r) /\ Fenced(r, e) /\ SourceInv'
  <2>1. SourceInv'
    BY <1>2, <1>4, HolderSteps DEF Work
  <2> QED  BY <1>2, <1>4, <2>1, HeldRow DEF RowRests
<1>5. CASE AdvanceToCleanup(r, e) /\ GiveUp(w)
  BY <1>1, <1>2, <1>4, <1>5, GivesUp DEF Attempting
<1>6. CASE /\ AdvanceToCleanup(r, e) /\ permits' = Released(w) /\ UNCHANGED sessions
           /\ Put1(w, [worker EXCEPT !.pc = "revoke", !.permit = FALSE, !.delay = TRUE])
  <2>1. PICK state : state = [worker EXCEPT !.pc = "revoke", !.permit = FALSE, !.delay = TRUE]
    OBVIOUS
  <2>2. /\ state \in Worker /\ state.run = r /\ state.epoch = e /\ state.attempt = worker.attempt
        /\ state.pc = "revoke" /\ Put1(w, state)
    BY <1>1, <1>2, <1>6, <2>1 DEF Worker
  <2>3. GoesOn(worker, state) /\ state.pc \notin Reading
    BY <1>1, <1>2, <2>2 DEF GoesOn, Reading
  <2> QED  BY <1>1, <1>2, <1>4, <1>6, <2>2, <2>3, PermitsGoBack, HolderGoesOn
<1> QED  BY <1>1, <1>3, <1>5, <1>6 DEF Postpone, delayPermit

(* The intent to fail is persisted, or not. *)
LEMMA AbortStep ==
  ASSUME WorkerInv, NEW w \in Workers, Abort(w)
  PROVE  WorkerInv'
<1>1. PICK worker, r, e : worker = workers[w] /\ r = worker.run /\ e = worker.epoch
  OBVIOUS
<1>2. /\ worker \in Worker /\ worker.pc = "abort" /\ worker.attempt # 0 /\ r \in DOMAIN runs /\ e \in 1..MaxEpoch
      /\ SourceInv /\ UNCHANGED <<sessions, permits>>
  BY <1>1, WorkerRow DEF Abort, prepareFailureIntent, SoundWorker, Attempting
<1>3. PICK work \in BOOLEAN :
        /\ Put1(w, [worker EXCEPT !.pc = "revoke", !.work = work])
        /\ PrepareFailureIntent(r, e) \/ UNCHANGED sourceVars
  <2>1. CASE PrepareFailureIntent(r, e) /\ Put1(w, [worker EXCEPT !.pc = "revoke", !.work = TRUE])
    BY <2>1
  <2>2. CASE To(w, "revoke") /\ UNCHANGED sourceVars
    <3>1. worker.work \in BOOLEAN /\ [worker EXCEPT !.pc = "revoke"] = [worker EXCEPT !.pc = "revoke", !.work = worker.work]
      BY <1>2 DEF Worker
    <3>2. Put1(w, [worker EXCEPT !.pc = "revoke", !.work = worker.work])
      BY <1>1, <2>2, <3>1 DEF To
    <3> QED  BY <2>2, <3>1, <3>2
  <2> QED  BY <1>1, <2>1, <2>2 DEF Abort, prepareFailureIntent
<1>4. PICK state : state = [worker EXCEPT !.pc = "revoke", !.work = work]
  OBVIOUS
<1>5. /\ state \in Worker /\ state.run = r /\ state.epoch = e /\ state.attempt = worker.attempt
      /\ state.pc = "revoke" /\ Put1(w, state)
  BY <1>1, <1>2, <1>3, <1>4 DEF Worker
<1>6. GoesOn(worker, state) /\ state.pc \notin Reading /\ PermitsTyped'
  BY <1>1, <1>2, <1>5, PermitsGoBack DEF GoesOn, Reading
<1>7. CASE UNCHANGED sourceVars
  BY <1>1, <1>2, <1>5, <1>6, <1>7, WorkerTurns
<1>8. CASE PrepareFailureIntent(r, e)
  <2>1. SourceInv'
    BY <1>2, <1>8, HolderSteps DEF Work
  <2>2. RowRests(r) /\ Fenced(r, e)
    BY <1>2, <1>8, HeldRow
  <2> QED  BY <1>1, <1>2, <1>5, <1>6, <2>1, <2>2, HolderGoesOn DEF RowRests
<1> QED  BY <1>3, <1>7, <1>8

(* The receipt of the attempt is recorded. *)
LEMMA RecordStep ==
  ASSUME WorkerInv, NEW w \in Workers, Record(w)
  PROVE  WorkerInv'
<1>1. PICK worker, r, e, a : worker = workers[w] /\ r = worker.run /\ e = worker.epoch /\ a = worker.attempt
  OBVIOUS
<1>2. /\ worker \in Worker /\ worker.pc = "record" /\ a # 0 /\ r \in DOMAIN runs /\ e \in 1..MaxEpoch
      /\ SourceInv /\ UNCHANGED <<sessions, permits>> /\ MaxEpoch \in Nat
      /\ worker.proof = "REVOKED" => Gone(sessions, r, a)
  BY <1>1, WorkerRow DEF Record, SoundWorker, Attempting
<1>3. a \in 1..MaxEpoch
  BY <1>1, <1>2 DEF Worker
<1>4. CASE Exit(w) /\ UNCHANGED sourceVars
  BY <1>1, <1>2, <1>4, Exits
<1>5. CASE RecordUncertain(r, e, a) /\ Exit(w)
  <2>1. SourceInv'
    BY <1>2, <1>3, <1>5, HolderSteps DEF End
  <2>2. RowRests(r) /\ Fenced(r, e)
    BY <1>2, <1>3, <1>5, HeldRow
  <2> QED  BY <1>1, <1>2, <1>5, <2>1, <2>2, Exits DEF RowRests
<1>6. CASE /\ worker.proof = "REVOKED" /\ To(w, "finish")
           /\ RecordRevoked(r, e, a) \/ UNCHANGED sourceVars
  <2>1. PICK state : state = [worker EXCEPT !.pc = "finish"]
    OBVIOUS
  <2>2. /\ state \in Worker /\ state.run = r /\ state.epoch = e /\ state.attempt = worker.attempt
        /\ state.pc = "finish" /\ Put1(w, state)
    BY <1>1, <1>2, <1>6, <2>1 DEF Worker, To
  <2>3. GoesOn(worker, state) /\ state.pc \notin Reading /\ PermitsTyped'
    BY <1>1, <1>2, <2>2, PermitsGoBack DEF GoesOn, Reading
  <2>4. CASE UNCHANGED sourceVars
    BY <1>1, <1>2, <2>2, <2>3, <2>4, WorkerTurns
  <2>5. CASE RecordRevoked(r, e, a)
    <3>1. SourceInv'
      BY <1>2, <1>3, <2>5, HolderSteps DEF End
    <3>2. RowRests(r) /\ Fenced(r, e)
      BY <1>2, <1>3, <1>6, <2>5, HeldRow
    <3> QED  BY <1>1, <1>2, <2>2, <2>3, <3>1, <3>2, HolderGoesOn DEF RowRests
  <2> QED  BY <1>6, <2>4, <2>5
<1> QED  BY <1>1, <1>4, <1>5, <1>6 DEF Record

(* The run is delayed or ends. *)
LEMMA FinishStep ==
  ASSUME WorkerInv, NEW w \in Workers, Finish(w)
  PROVE  WorkerInv'
<1>1. PICK worker, r, e : worker = workers[w] /\ r = worker.run /\ e = worker.epoch
  OBVIOUS
<1>2. /\ worker.pc = "finish" /\ r \in DOMAIN runs /\ e \in 1..MaxEpoch
      /\ SourceInv /\ UNCHANGED <<sessions, permits>> /\ Exit(w)
  BY <1>1, WorkerRow DEF Finish
<1>3. CASE UNCHANGED sourceVars
  BY <1>1, <1>2, <1>3, Exits
<1>4. CASE Delay(r, e) \/ Complete(r, e) \/ Fail(r, e)
  <2>1. SourceInv'
    BY <1>2, <1>4, HolderSteps DEF End
  <2>2. RowRests(r) /\ Fenced(r, e)
    BY <1>2, <1>4, HeldRow
  <2> QED  BY <1>1, <1>2, <2>1, <2>2, Exits DEF RowRests
<1> QED  BY <1>1, <1>3, <1>4 DEF Finish

(* A worker dies. *)
LEMMA CrashStep ==
  ASSUME WorkerInv, NEW w \in Workers, Crash(w)
  PROVE  WorkerInv'
BY Exits DEF Crash

-----------------------------------------------------------------------------
(* Claims. *)

(* A claim is a lease nobody had before. *)
LEMMA ClaimedRow ==
  ASSUME WorkerInv, NEW r \in DOMAIN runs, Claims(r)
  PROVE  /\ RowKeeps(r) /\ runs'[r].epoch = runs[r].epoch + 1 /\ runs'[r].status \in Leased /\ SourceInv'
         /\ runs'[r] \in Run /\ SoundRun(runs'[r])
<1>1. PICK run : run = runs[r]
  OBVIOUS
<1>2. SourceInv'
  BY LeaseSteps DEF WorkerInv, Claims, Lease
<1>3. /\ run \in Run /\ {"RUNNING", "FINALIZING"} = Leased /\ runs \in Seq(Run) /\ run.epoch < MaxEpoch
      /\ MaxEpoch \in Nat /\ run.epoch \in Nat
  <2>1. run \in Run /\ runs \in Seq(Run) /\ MaxEpoch \in Nat
    BY <1>1, Rows DEF WorkerInv, SourceInv, SourceTypeOK
  <2>2. run.epoch < MaxEpoch
    BY <1>1 DEF Claims, Claim, Reclaim, ReclaimFinalizing
  <2> QED  BY <2>1, <2>2 DEF Run, Leased
<1>4. PICK next : next = NextLease(run)
  OBVIOUS
<1>5. /\ next \in Run /\ next.epoch = run.epoch + 1 /\ next.status = run.status /\ next.cleanup = run.cleanup
      /\ next.attempt = run.attempt
  <2>1. next \in Run /\ next.epoch = run.epoch + 1
    BY <1>3, <1>4, LeasedRow
  <2>2. next = [run EXCEPT !.epoch = run.epoch + 1, !.live = TRUE]
    BY <1>3, <1>4 DEF NextLease, Run
  <2> QED  BY <1>3, <2>1, <2>2 DEF Run
<1>6. PICK row : /\ Put(r, row) /\ row.epoch = run.epoch + 1 /\ row.status \in Leased
                 /\ \/ row.cleanup = "NOT_OPENED" /\ run.status \in {"QUEUED", "DELAYED"}
                    \/ row.cleanup = run.cleanup /\ row.attempt = run.attempt /\ run.status \in Leased
  <2>1. CASE Claim(r)
    <3>1. PICK stage : stage = IF run.kind = "VALIDATION" THEN "VALIDATING" ELSE "READING"
      OBVIOUS
    <3>2. PICK row : row = [next EXCEPT !.status = "RUNNING", !.cleanup = "NOT_OPENED", !.attempt = 0,
                                        !.receipt = FALSE, !.stage = stage]
      OBVIOUS
    <3>3. Put(r, row) /\ run.status \in {"QUEUED", "DELAYED"}
      BY <1>1, <1>4, <2>1, <3>1, <3>2 DEF Claim, Claimable, PutRun
    <3>4. row.epoch = run.epoch + 1 /\ row.status = "RUNNING" /\ row.cleanup = "NOT_OPENED"
      BY <1>5, <3>2 DEF Run
    <3> QED  BY <1>3, <3>3, <3>4
  <2>2. CASE Reclaim(r)
    <3>1. PICK row : row = [next EXCEPT
             !.stage = IF run.cleanup = "NOT_OPENED" THEN next.stage ELSE "CLEANING_UP",
             !.pending = next.pending \/ run.cleanup = "PENDING"]
      OBVIOUS
    <3>2. Put(r, row) /\ run.status = "RUNNING"
      BY <1>1, <1>4, <1>5, <2>2, <3>1 DEF Reclaim, PutRun, Run
    <3>3. /\ row.epoch = run.epoch + 1 /\ row.status = run.status /\ row.cleanup = run.cleanup
          /\ row.attempt = run.attempt
      BY <1>5, <3>1 DEF Run
    <3> QED  BY <1>3, <3>2, <3>3
  <2>3. CASE ReclaimFinalizing(r)
    <3>1. Put(r, next) /\ run.status = "FINALIZING"
      BY <1>1, <1>4, <2>3 DEF ReclaimFinalizing, PutRun
    <3> QED  BY <1>3, <1>5, <3>1
  <2> QED  BY <2>1, <2>2, <2>3 DEF Claims
<1>7. DOMAIN runs' = DOMAIN runs /\ runs'[r] = row /\ \A s \in DOMAIN runs : s # r => runs'[s] = runs[s]
  BY <1>3, <1>6 DEF Put
<1>8. \A e \in 1..MaxEpoch : Owes(run, e) => Owes(row, e)
  BY <1>3, <1>6 DEF Owes
<1>9. /\ row.cleanup \in {"NOT_OPENED", "PENDING", "REVOKED"}
      /\ row.cleanup = "REVOKED" /\ row.attempt # 0 => Gone(sessions, r, row.attempt)
  BY <1>1, <1>6 DEF WorkerInv, RevokedIsGone
<1>10. row \in Run /\ SoundRun(row)
  BY <1>2, <1>7 DEF SourceInv, SourceTypeOK, RunsAreSound
<1> QED  BY <1>1, <1>2, <1>3, <1>6, <1>7, <1>8, <1>9, <1>10 DEF RowKeeps

(* A worker claims a run: what it has to open again is gone or still owed. *)
LEMMA ClaimStep ==
  ASSUME WorkerInv, NEW w \in Workers, NextClaim(w)
  PROVE  WorkerInv'
<1>1. PICK r \in DOMAIN runs : Claims(r) /\ Put1(w, Claimed(r, runs'[r]))
  BY DEF NextClaim
<1>2. UNCHANGED <<sessions, permits>> /\ PermitsTyped'
  BY PermitsGoBack DEF NextClaim
<1>3. /\ RowKeeps(r) /\ runs'[r].epoch = runs[r].epoch + 1 /\ runs'[r].status \in Leased /\ SourceInv'
      /\ runs'[r] \in Run /\ SoundRun(runs'[r])
  BY <1>1, ClaimedRow
<1>4. SessionsTyped' /\ OpenIsOwed' /\ RevokedIsGone' /\ RunsGoOn(runs, runs', sessions, sessions')
  BY <1>2, <1>3, RowGoesOn
<1>5. PICK row, state : row = runs'[r] /\ state = Claimed(r, row)
  OBVIOUS
<1>6. r \in 1..MaxRuns /\ r \in DOMAIN runs' /\ runs[r].epoch \in Nat /\ MaxEpoch \in Nat
  <2>1. r \in 1..MaxRuns /\ runs[r] \in Run /\ MaxEpoch \in Nat
    BY Rows DEF WorkerInv, SourceInv, SourceTypeOK
  <2> QED  BY <1>3, <2>1 DEF RowKeeps, Run
<1>7. ClaimMode(row) \in {"acquire", "finish", "reopen"} /\ (ClaimMode(row) = "reopen" => row.attempt # 0)
  BY DEF ClaimMode
<1>8. /\ state.pc = ClaimMode(row) /\ state.run = r /\ state.epoch = row.epoch /\ state.attempt = row.attempt
      /\ state.page = row.pages /\ state.handle = "none" /\ state \in Worker
  <2>1. /\ row.epoch \in 0..MaxEpoch /\ row.attempt \in 0..MaxEpoch /\ row.pages \in 0..MaxPages
        /\ row.pending \in BOOLEAN
    BY <1>3, <1>5 DEF Run
  <2>2. state = [pc |-> ClaimMode(row), run |-> r, epoch |-> row.epoch, attempt |-> row.attempt, page |-> row.pages,
                 handle |-> "none", permit |-> FALSE, final |-> FALSE, delay |-> row.pending,
                 work |-> (row.work # None), proof |-> None]
    BY <1>5 DEF Claimed, Idle
  <2> QED  BY <1>6, <1>7, <2>1, <2>2 DEF Worker
<1>9. row.attempt # 0 => Gone(sessions, r, row.attempt) \/ Owes(row, row.attempt)
  <2>1. row.cleanup = "NOT_OPENED" => row.attempt = 0
    BY <1>3, <1>5 DEF SoundRun
  <2>2. /\ row.cleanup \in {"NOT_OPENED", "PENDING", "REVOKED"}
        /\ row.cleanup = "REVOKED" /\ row.attempt # 0 => Gone(sessions, r, row.attempt)
    BY <1>3, <1>5 DEF RowKeeps
  <2> QED  BY <1>3, <1>5, <2>1, <2>2 DEF Owes
<1>10. SoundWorker(state, runs', sessions')
  <2>1. row.epoch \in 1..row.epoch
    BY <1>3, <1>5, <1>6
  <2>2. state.pc \in Attempting => state.pc = "reopen"
    BY <1>7, <1>8 DEF Attempting
  <2>3. state.pc # "record"
    BY <1>7, <1>8
  <2> QED  BY <1>2, <1>5, <1>6, <1>7, <1>8, <1>9, <2>1, <2>2, <2>3 DEF SoundWorker
<1>11. ASSUME NEW v \in Workers \ {w}, workers[v].pc # "idle"
       PROVE  /\ StillHolds(workers[v], runs, runs')
              /\ workers[v].run # state.run \/ workers[v].epoch # state.epoch
  <2>1. workers[v].run \in DOMAIN runs /\ workers[v].epoch <= runs[workers[v].run].epoch /\ workers[v].epoch \in Nat
    BY <1>11, WorkerRow
  <2>2. CASE workers[v].run # r
    BY <1>3, <1>8, <2>1, <2>2 DEF RowKeeps, StillHolds
  <2>3. CASE workers[v].run = r
    BY <1>3, <1>5, <1>6, <1>8, <2>1, <2>3 DEF StillHolds, Holds
  <2> QED  BY <2>2, <2>3
<1>12. Alone(w, state)
  BY <1>11 DEF Alone
<1> QED  BY <1>1, <1>2, <1>3, <1>4, <1>5, <1>8, <1>10, <1>11, <1>12, OneMoves

-----------------------------------------------------------------------------
(* The world around the workers. *)

(* A step of no worker. *)
LEMMA WorldMoves ==
  ASSUME WorkerInv, UNCHANGED workers,
         SourceInv', SessionsTyped', PermitsTyped', OpenIsOwed', RevokedIsGone',
         RunsGoOn(runs, runs', sessions, sessions'),
         \A v \in Workers : workers[v].pc # "idle" => StillHolds(workers[v], runs, runs')
  PROVE  WorkerInv'
<1>1. SourceTypeOK /\ SourceTypeOK' /\ MaxEpoch \in Nat /\ workers \in [Workers -> Worker]
  BY SourceConstants DEF WorkerInv, SourceInv, WorkerTypeOK
<1>2. \A r \in DOMAIN runs : runs[r].epoch \in Nat
  BY <1>1, Rows DEF Run
<1>3. \A r \in DOMAIN runs' : runs'[r].epoch \in Nat
  <2>1. \A r \in DOMAIN runs' : runs'[r] \in Run
    BY <1>1 DEF SourceTypeOK
  <2> QED  BY <1>1, <2>1 DEF Run
<1>4. WorkersAreSound'
  <2> SUFFICES ASSUME NEW v \in Workers PROVE SoundWorker(workers[v], runs', sessions')
    BY DEF WorkersAreSound
  <2>1. PICK worker : worker = workers[v]
    OBVIOUS
  <2>2. /\ worker \in Worker /\ SoundWorker(worker, runs, sessions)
        /\ worker.pc # "idle" => StillHolds(worker, runs, runs')
    BY <1>1, <2>1 DEF WorkerInv, WorkersAreSound
  <2> QED  BY <1>1, <1>2, <1>3, <2>1, <2>2, SoundKept
<1>5. OneHolder' /\ WorkerTypeOK'
  BY <1>1 DEF WorkerInv, OneHolder, WorkerTypeOK, SessionsTyped, PermitsTyped
<1> QED  BY <1>4, <1>5 DEF WorkerInv

(* A lease ends or a delay is over. *)
LEMMA TimePasses ==
  ASSUME WorkerInv, Passes, UNCHANGED <<workers, sessions, permits>>
  PROVE  WorkerInv'
<1>1. PICK r \in DOMAIN runs : LeaseLapses(r) \/ DelayPasses(r)
  BY DEF Passes
<1>2. SourceInv' /\ SourceTypeOK
  BY <1>1, LeaseSteps DEF WorkerInv, SourceInv
<1>3. PICK run : run = runs[r]
  OBVIOUS
<1>4. run \in Run /\ runs \in Seq(Run) /\ run.epoch \in Nat
  <2>1. run \in Run /\ runs \in Seq(Run) /\ MaxEpoch \in Nat
    BY <1>2, <1>3, Rows DEF SourceTypeOK
  <2> QED  BY <2>1 DEF Run
<1>5. PICK row : /\ Put(r, row) /\ row.epoch = run.epoch /\ row.attempt = run.attempt /\ row.cleanup = run.cleanup
                 /\ row.status = run.status /\ (row.status \notin Leased \/ row.live = FALSE)
  <2>1. CASE LeaseLapses(r)
    <3>1. PICK row : row = [run EXCEPT !.live = FALSE]
      OBVIOUS
    <3>2. /\ row.epoch = run.epoch /\ row.attempt = run.attempt /\ row.cleanup = run.cleanup
          /\ row.status = run.status /\ row.live = FALSE
      BY <1>4, <3>1 DEF Run
    <3> QED  BY <1>3, <2>1, <3>1, <3>2 DEF LeaseLapses, PutRun
  <2>2. CASE DelayPasses(r)
    <3>1. PICK row : row = [run EXCEPT !.due = TRUE]
      OBVIOUS
    <3>2. /\ row.epoch = run.epoch /\ row.attempt = run.attempt /\ row.cleanup = run.cleanup
          /\ row.status = run.status
      BY <1>4, <3>1 DEF Run
    <3>3. run.status \notin Leased
      BY <1>3, <2>2 DEF DelayPasses, Leased
    <3> QED  BY <1>3, <2>2, <3>1, <3>2, <3>3 DEF DelayPasses, PutRun
  <2> QED  BY <1>1, <2>1, <2>2
<1>6. DOMAIN runs' = DOMAIN runs /\ runs'[r] = row /\ \A s \in DOMAIN runs : s # r => runs'[s] = runs[s]
  BY <1>4, <1>5 DEF Put
<1>7. \A e \in 1..MaxEpoch : Owes(run, e) => Owes(row, e)
  BY <1>5 DEF Owes
<1>8. row.status \in Leased =>
        /\ row.cleanup \in {"NOT_OPENED", "PENDING", "REVOKED"}
        /\ row.cleanup = "REVOKED" /\ row.attempt # 0 => Gone(sessions, r, row.attempt)
  BY <1>3, <1>5 DEF WorkerInv, RevokedIsGone
<1>9. RowKeeps(r)
  BY <1>3, <1>4, <1>5, <1>6, <1>7, <1>8 DEF RowKeeps
<1>10. SessionsTyped' /\ OpenIsOwed' /\ RevokedIsGone' /\ RunsGoOn(runs, runs', sessions, sessions')
  BY <1>9, RowGoesOn
<1>11. \A v \in Workers : workers[v].pc # "idle" => StillHolds(workers[v], runs, runs')
  BY <1>5, <1>6, WorkerRow DEF StillHolds, Holds
<1>12. PermitsTyped'
  BY DEF WorkerInv, WorkerTypeOK, PermitsTyped
<1> QED  BY <1>2, <1>10, <1>11, <1>12, WorldMoves

(* The source is disabled, whoever holds its runs. *)
LEMMA DisabledWhileHeld ==
  ASSUME WorkerInv, Disable, UNCHANGED <<workers, sessions, permits>>
  PROVE  WorkerInv'
<1>1. SourceInv /\ SourceInv' /\ PermitsTyped' /\ SessionsTyped'
  BY DisableStep DEF WorkerInv, WorkerTypeOK, PermitsTyped, SessionsTyped
<1>2. /\ runs' = CancelPrelockedRuns(runs) /\ runs \in Seq(Run)
      /\ \A s \in DOMAIN runs : runs[s] \in Run
  BY <1>1, Rows DEF Disable, SourceInv, SourceTypeOK
<1>3. DOMAIN runs' = DOMAIN runs
  BY <1>2 DEF CancelPrelockedRuns
<1>4. ASSUME NEW s \in DOMAIN runs
      PROVE  /\ runs'[s] = runs[s] \/ (runs[s].status \in {"QUEUED", "DELAYED"} /\ runs'[s].status = "CANCELLED")
             /\ runs'[s].epoch = runs[s].epoch /\ runs[s].epoch \in Nat
  <2>1. CASE s \in Open /\ Cancellable(s)
    <3>1. runs'[s] = Cancelled(runs[s])
      BY <1>2, <2>1 DEF CancelPrelockedRuns
    <3>2. PICK run : run = runs[s]
      OBVIOUS
    <3>3. run \in Run /\ run.status \in {"QUEUED", "DELAYED"}
      BY <1>2, <2>1, <3>2 DEF Cancellable
    <3>4. Cancelled(run).status = "CANCELLED" /\ Cancelled(run).epoch = run.epoch /\ run.epoch \in Nat
      BY <3>3 DEF Cancelled, Run
    <3> QED  BY <3>1, <3>2, <3>3, <3>4
  <2>2. CASE ~(s \in Open /\ Cancellable(s))
    <3>1. runs'[s] = runs[s]
      BY <1>2, <2>2 DEF CancelPrelockedRuns
    <3> QED  BY <1>2, <3>1 DEF Run
  <2> QED  BY <2>1, <2>2
<1>5. "CANCELLED" \notin Leased /\ "QUEUED" \notin Leased /\ "DELAYED" \notin Leased
  BY DEF Leased
<1>6. \A s \in DOMAIN runs, e \in 1..MaxEpoch : Owes(runs[s], e) => Owes(runs'[s], e)
  <2> SUFFICES ASSUME NEW s \in DOMAIN runs, NEW e \in 1..MaxEpoch, Owes(runs[s], e) PROVE Owes(runs'[s], e)
    OBVIOUS
  <2>1. runs[s].status \notin {"QUEUED", "DELAYED"}
    BY <1>5 DEF Owes
  <2> QED  BY <1>4, <2>1
<1>7. RunsGoOn(runs, runs', sessions, sessions')
  BY <1>3, <1>4, <1>6 DEF RunsGoOn
<1>8. OpenIsOwed'
  <2> SUFFICES ASSUME NEW a \in Attempts, sessions[a] = "OPEN"
               PROVE  a[1] \in DOMAIN runs' /\ Owes(runs'[a[1]], a[2])
    BY DEF OpenIsOwed
  <2>1. a[1] \in DOMAIN runs /\ Owes(runs[a[1]], a[2]) /\ a[2] \in 1..MaxEpoch
    BY DEF WorkerInv, OpenIsOwed, Attempts
  <2> QED  BY <1>3, <1>6, <2>1
<1>9. RevokedIsGone'
  BY <1>3, <1>4, <1>5 DEF WorkerInv, RevokedIsGone
<1>10. \A v \in Workers : workers[v].pc # "idle" => StillHolds(workers[v], runs, runs')
  <2> SUFFICES ASSUME NEW v \in Workers, workers[v].pc # "idle" PROVE StillHolds(workers[v], runs, runs')
    OBVIOUS
  <2>1. workers[v].run \in DOMAIN runs
    BY WorkerRow
  <2> QED  BY <1>4, <1>5, <2>1 DEF StillHolds, Holds
<1> QED  BY <1>1, <1>7, <1>8, <1>9, <1>10, WorldMoves

(* A permit expires, or nothing happens. *)
LEMMA WorkersRest ==
  ASSUME WorkerInv, UNCHANGED <<sourceVars, workers, sessions>>, permits' \subseteq permits
  PROVE  WorkerInv'
<1>1. UNCHANGED <<source, revisions, runs>> /\ SourceInv'
  BY SourceRests DEF WorkerInv, sourceVars
<1>2. SessionsTyped' /\ OpenIsOwed' /\ RevokedIsGone' /\ PermitsTyped'
  BY <1>1 DEF WorkerInv, WorkerTypeOK, SessionsTyped, OpenIsOwed, RevokedIsGone, PermitsTyped
<1>3. \A s \in DOMAIN runs : runs[s].epoch \in Nat
  BY Rows DEF Run, WorkerInv, SourceInv
<1>4. RunsGoOn(runs, runs', sessions, sessions') /\ \A v \in Workers : StillHolds(workers[v], runs, runs')
  BY <1>1, <1>3 DEF RunsGoOn, StillHolds
<1> QED  BY <1>1, <1>2, <1>4, WorldMoves

(* Between any two steps of any number of workers, processes may die, leases may end and the
   source may be disabled: what a worker that wakes up late does is under an attempt that is
   gone for good or still owed by its run (worker.go, attempt_session.go). *)
THEOREM WorkersInductive == WorkerSafetySpec => []WorkerInv
<1>1. WorkerInit => WorkerInv
  BY WorkersStart
<1>2. WorkerInv /\ [WorkerNext]_workerVars => WorkerInv'
  <2> SUFFICES ASSUME WorkerInv, [WorkerNext]_workerVars PROVE WorkerInv'
    OBVIOUS
  <2>1. ASSUME NEW w \in Workers, NextClaim(w) \/ Step(w) \/ Crash(w) PROVE WorkerInv'
    BY <2>1, ClaimStep, AcquireStep, ReserveStep, SessionSteps, ProvideStep, ProposeStep, ApplyStep, CommitStep,
       SettleStep, PostponeStep, AbortStep, RecordStep, FinishStep, CrashStep DEF Step
  <2>2. CASE (Passes \/ Disable) /\ UNCHANGED <<workers, sessions, permits>>
    BY <2>2, TimePasses, DisabledWhileHeld
  <2>3. ASSUME NEW p \in permits, PermitExpires(p) PROVE WorkerInv'
    BY <2>3, WorkersRest DEF PermitExpires
  <2>4. CASE UNCHANGED workerVars
    BY <2>4, WorkersRest DEF workerVars
  <2> QED  BY <2>1, <2>2, <2>3, <2>4 DEF WorkerNext
<1> QED  BY <1>1, <1>2, PTL DEF WorkerSafetySpec

(* What the workers, the sessions and the permits may be. *)
THEOREM WorkersTyped == WorkerSafetySpec => []WorkerTypeOK
<1>1. WorkerInv => WorkerTypeOK
  BY DEF WorkerInv
<1> QED  BY <1>1, WorkersInductive, PTL

(* However many processes die or are overtaken, no session is left at the provider that no run
   answers for, and no page is read twice: for any number of workers, runs, leases and pages. *)
THEOREM AttemptsAreSafe == WorkerSafetySpec => []AttemptSafety
<1>1. WorkerInv => AttemptSafety
  <2> SUFFICES ASSUME WorkerInv PROVE SessionAccounted /\ PageInStep
    BY DEF AttemptSafety
  <2>1. SessionAccounted
    BY DEF WorkerInv, OpenIsOwed, Owes, SessionAccounted
  <2>2. PageInStep
    <3> SUFFICES ASSUME NEW w \in Workers, workers[w].pc = "commit", Fenced(workers[w].run, workers[w].epoch)
                 PROVE  workers[w].page = runs[workers[w].run].pages
      BY DEF PageInStep
    <3> QED  BY DEF WorkerInv, WorkersAreSound, SoundWorker, Holds, Fenced, Reading
  <2> QED  BY <2>1, <2>2
<1> QED  BY <1>1, WorkersInductive, PTL

(* The workers use the queue as its operations are meant: the source stays consistent. *)
THEOREM WorkersKeepTheSource == WorkerSafetySpec => []SourceSafety
<1>1. WorkerInv => SourceSafety
  BY SoundIsReadable DEF WorkerInv, SourceInv, SourceSafety
<1> QED  BY <1>1, WorkersInductive, PTL
=============================================================================
