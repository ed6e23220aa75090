---------------------------- MODULE DiscoveryWorker ----------------------------
(***************************************************************************)
(* The discovery workers, internal/discoveryworker/worker.go, over the     *)
(* queue of DiscoveryQueue, with the cleanup broker and the attempt        *)
(* sessions (internal/discoverycleanup), the session transport             *)
(* (internal/discoveryruntime) and the limiter                             *)
(* (internal/discoverylimit/postgres).                                     *)
(*                                                                         *)
(* A worker holds one claim.  Between two calls anything may happen to the *)
(* run it holds, and the worker may die; what it knows is lost then, what  *)
(* it opened at the provider is not.  A session at the provider belongs to *)
(* one cleanup attempt <<run, epoch>>, is found again under it, and stays  *)
(* closed once it is closed.  A worker whose Run returned an error is      *)
(* started again by its supervisor: it is idle.                            *)
(***************************************************************************)
EXTENDS DiscoveryQueue, FiniteSets

CONSTANTS
  Workers,   \* worker processes
  Rate       \* permits that may be out at once

ASSUME WorkerConstants == Rate \in Nat \ {0} /\ None \notin Workers

\* The source has two runs to begin with, each of a command of its own.
ASSUME TwoCommands == MaxRuns > 1 /\ \E k, l \in Keys : k # l

VARIABLES
  workers,   \* what each process knows of its claim
  sessions,  \* the sessions at the provider, by attempt
  permits    \* permits that are neither released nor expired

workerVars == <<sourceVars, workers, sessions, permits>>

Attempts == (1..MaxRuns) \X (1..MaxEpoch)

\* handle: what OpenAttempt returned.  delay, work: the intent this process
\* knows to be persisted.  proof: what RevokeAttempt signed.
Worker ==
  [pc : {"idle", "acquire", "reserve", "open", "provide", "propose", "apply",
         "commit", "settle", "postpone", "abort", "reopen", "revoke", "record", "finish"},
   run : 0..MaxRuns, epoch : 0..MaxEpoch, attempt : 0..MaxEpoch, page : 0..MaxPages,
   handle : {"none", "opened", "failed"}, permit : BOOLEAN, final : BOOLEAN,
   delay : BOOLEAN, work : BOOLEAN, proof : {"REVOKED", "UNCERTAIN", None}]

WorkerTypeOK ==
  /\ SourceTypeOK
  /\ workers \in [Workers -> Worker]
  /\ sessions \in [Attempts -> {"NONE", "OPEN", "CLOSED"}]
  /\ permits \subseteq [run : 1..MaxRuns, epoch : 1..MaxEpoch, page : 1..MaxPages]

Idle == [pc |-> "idle", run |-> 0, epoch |-> 0, attempt |-> 0, page |-> 0,
         handle |-> "none", permit |-> FALSE, final |-> FALSE, delay |-> FALSE,
         work |-> FALSE, proof |-> None]

\* A source that was published, with a sync queued, or a draft whose
\* validation is queued.
Published ==
  /\ source = [kind |-> "EXTERNAL", status |-> "ACTIVE", gate |-> "AVAILABLE",
               gateRev |-> 3, published |-> 1, validated |-> 1, checkpoint |-> 0,
               success |-> 0]
  /\ revisions = << [status |-> "PUBLISHED", run |-> 1] >>
  /\ LET k == CHOOSE k \in Keys : TRUE
         l == CHOOSE l \in Keys : l # k
     IN runs = << [NewRun("VALIDATION", k, 1, 0, 0) EXCEPT
                       !.status = "SUCCEEDED", !.stage = "COMPLETED", !.epoch = 1,
                       !.work = "VALIDATION_PROOF", !.verdict = "SUCCEEDED",
                       !.cleanup = "REVOKED", !.attempt = 1, !.receipt = TRUE],
                    NewRun("DISCOVERY", l, 1, 3, 0) >>

Validating ==
  /\ source = [kind |-> "EXTERNAL", status |-> "ACTIVE", gate |-> "VALIDATING",
               gateRev |-> 1, published |-> 0, validated |-> 1, checkpoint |-> 0,
               success |-> 0]
  /\ revisions = << [status |-> "VALIDATING", run |-> 1] >>
  /\ runs = << NewRun("VALIDATION", CHOOSE k \in Keys : TRUE, 1, 0, 0) >>

WorkerInit ==
  /\ Published \/ Validating
  /\ workers = [w \in Workers |-> Idle]
  /\ sessions = [a \in Attempts |-> "NONE"]
  /\ permits = {}

-----------------------------------------------------------------------------
Put1(w, state) == workers' = [workers EXCEPT ![w] = state]

To(w, pc) == Put1(w, [workers[w] EXCEPT !.pc = pc])

Exit(w) == Put1(w, Idle)

\* The permit of the claim; the same request finds the same permit.
Permit(w) ==
  [run |-> workers[w].run, epoch |-> workers[w].epoch, page |-> workers[w].page + 1]

Released(w) == IF workers[w].permit THEN permits \ {Permit(w)} ELSE permits

OwnAttempt(w) == <<workers[w].run, workers[w].epoch>>

\* The attempt of the claim: its own, or the one an earlier holder reserved.
Attempt(w) == <<workers[w].run, workers[w].attempt>>

\* A call was refused, or its answers were lost: give the permit back and
\* take the abort path, which sees only what this process knows.
GiveUp(w) ==
  /\ permits' = Released(w)
  /\ Put1(w, [workers[w] EXCEPT !.pc = "abort", !.permit = FALSE])
  /\ UNCHANGED sessions

-----------------------------------------------------------------------------
(* Leases and permits. *)

\* What a claim asks for: work, or the cleanup of what an earlier holder left.
ClaimMode(run) ==
  IF run.status = "RUNNING" /\ run.cleanup = "NOT_OPENED" /\ ~run.pending
    THEN "acquire" ELSE IF run.attempt = 0 THEN "finish" ELSE "reopen"

ClaimedFromStart(r, run) ==
  [Idle EXCEPT !.pc = ClaimMode(run), !.run = r, !.epoch = run.epoch,
     !.attempt = run.attempt, !.delay = run.pending, !.work = run.work # None]

\* The claim as the worker remembers it.
Claimed(r, run) ==
  [Idle EXCEPT !.pc = ClaimMode(run), !.run = r, !.epoch = run.epoch,
     !.attempt = run.attempt, !.page = run.pages,
     !.delay = run.pending, !.work = run.work # None]

FreshClaims(r) == Claim(r) \/ ReclaimFinalizing(r)

Claims(r) == Claim(r) \/ Reclaim(r) \/ ReclaimFinalizing(r)

NextClaim(w) ==
  /\ workers[w].pc = "idle"
  /\ \E r \in DOMAIN runs :
       /\ Claims(r)
       /\ Put1(w, Claimed(r, runs'[r]))
  /\ UNCHANGED <<sessions, permits>>

\* The limiter looks at the run and not at the fence of the caller.
MayAcquire(w) ==
  LET run == runs[workers[w].run] IN
  /\ run.status = "RUNNING" /\ run.live /\ Admitted(workers[w].run)
  /\ run.stage \in {"VALIDATING", "READING"}

Limited == Cardinality(permits) >= Rate

Grant(w) == MayAcquire(w) /\ ~Limited /\ permits' = permits \cup {Permit(w)}

\* A refusal, also because the next token of a bucket is not due yet: the
\* worker does not wait for it.

Acquire(w) ==
  /\ workers[w].pc = "acquire" /\ workers[w].page < MaxPages
  /\ \/ /\ Grant(w)
        /\ Put1(w, [workers[w] EXCEPT !.permit = TRUE,
             !.pc = IF workers[w].handle = "none" THEN "reserve" ELSE "provide"])
     \/ /\ IF workers[w].handle = "none" THEN Exit(w) ELSE To(w, "abort")
        /\ UNCHANGED <<permits>>
  /\ UNCHANGED <<sourceVars, sessions>>

PermitExpires(p) ==
  /\ p \in permits
  /\ permits' = permits \ {p}
  /\ UNCHANGED <<sourceVars, workers, sessions>>

-----------------------------------------------------------------------------
(* Opening the attempt. *)

Reserve(w) ==
  LET r == workers[w].run  e == workers[w].epoch IN
  /\ workers[w].pc = "reserve"
  /\ \/ /\ ReserveCleanupAttempt(r, e)
        /\ Put1(w, [workers[w] EXCEPT !.pc = "open", !.attempt = e])
        /\ UNCHANGED permits
     \/ /\ UNCHANGED sourceVars \/ ReserveCleanupAttempt(r, e)
        /\ Exit(w) /\ permits' = Released(w)
  /\ UNCHANGED sessions

\* The transport opens the session of the attempt or finds it; a closed one
\* stays closed.
OpenOrRecover(a) == [sessions EXCEPT ![a] = IF @ = "NONE" THEN "OPEN" ELSE @]

\* The answer says whether this call opened the session: only such a handle has a runtime.
Initial(a) == sessions[a] = "NONE"

\* No runtime can be bound to a session that an earlier process opened.
BindsRuntime(a) == Initial(a)

\* The request may or may not have reached the provider.
OpenFails(a) == sessions' \in {sessions, OpenOrRecover(a)}

\* Any failure is reported as an attempt of unknown outcome, and put off.
OpenUnknown(w) ==
  /\ OpenFails(Attempt(w))
  /\ Put1(w, [workers[w] EXCEPT !.handle = "failed", !.pc = "postpone"])

OpenAttempt(w) ==
  LET a == Attempt(w) IN
  /\ workers[w].pc = "open"
  /\ \/ /\ sessions[a] # "CLOSED"
        /\ sessions' = OpenOrRecover(a)
        /\ Put1(w, [workers[w] EXCEPT !.handle = "opened",
             !.pc = IF BindsRuntime(a) THEN "provide" ELSE "abort"])
     \/ OpenUnknown(w)
  /\ UNCHANGED <<sourceVars, permits>>

\* A cleanup claim opens the attempt again only to revoke it.
Reopen(w) ==
  LET a == Attempt(w) IN
  /\ workers[w].pc = "reopen"
  /\ \/ /\ sessions' = OpenOrRecover(a)
        /\ Put1(w, [workers[w] EXCEPT !.pc = "revoke", !.handle = "opened"])
     \/ /\ OpenFails(a)
        /\ Put1(w, [workers[w] EXCEPT !.pc = "revoke", !.handle = "failed"])
  /\ UNCHANGED <<sourceVars, permits>>

-----------------------------------------------------------------------------
(* Work. *)

\* The provider is called between two heartbeats: the second is part of the
\* call that follows.
Provide(w) ==
  LET r == workers[w].run IN
  /\ workers[w].pc = "provide"
  /\ \/ /\ MayHeartbeat(r, workers[w].epoch)
        /\ \/ runs[r].kind = "VALIDATION" /\ To(w, "propose")
           \/ /\ runs[r].kind = "DISCOVERY"
              /\ \E final \in BOOLEAN :
                   /\ final \/ workers[w].page + 1 < MaxPages
                   /\ Put1(w, [workers[w] EXCEPT !.pc = "apply", !.final = final])
           \/ runs[r].kind = "DISCOVERY" /\ To(w, "postpone")
        /\ UNCHANGED <<sourceVars, sessions, permits>>
     \/ GiveUp(w) /\ UNCHANGED sourceVars

\* The permit is released first; one that expired meanwhile ends the run.
Propose(w) ==
  LET r == workers[w].run  e == workers[w].epoch IN
  /\ workers[w].pc = "propose"
  /\ \/ /\ Permit(w) \in permits
        /\ \E outcome \in {"SUCCEEDED", "FAILED"} : ProposeValidationResult(r, e, outcome)
        /\ permits' = Released(w)
        /\ \E known \in BOOLEAN :
             Put1(w, [workers[w] EXCEPT !.pc = IF known THEN "revoke" ELSE "abort",
                                        !.permit = FALSE, !.work = known])
        /\ UNCHANGED sessions
     \/ GiveUp(w) /\ UNCHANGED sourceVars

Apply(w) ==
  /\ workers[w].pc = "apply"
  /\ \/ /\ AdvanceStage(workers[w].run, workers[w].epoch, <<"READING", "NORMALIZING">>)
        /\ To(w, "commit") /\ UNCHANGED <<sessions, permits>>
     \/ GiveUp(w) /\ UNCHANGED sourceVars

\* A commit without an answer is looked up by its receipt, and never sent again.
PageApplies(w) ==
  \E complete, rejects \in BOOLEAN :
    ApplyPage(workers[w].run, workers[w].epoch, workers[w].final, complete, rejects)

\* A page that is not the last needs a new permit; after the last one a
\* heartbeat tells the worker what the work result is.
Commit(w) ==
  /\ workers[w].pc = "commit"
  /\ \/ /\ PageApplies(w)
        /\ \/ /\ workers[w].final /\ To(w, "settle")
              /\ UNCHANGED <<sessions, permits>>
           \/ /\ ~workers[w].final /\ Permit(w) \in permits
              /\ permits' = Released(w)
              /\ Put1(w, [workers[w] EXCEPT !.pc = "acquire", !.page = @ + 1,
                                            !.permit = FALSE])
              /\ UNCHANGED sessions
           \/ GiveUp(w)
     \/ GiveUp(w) /\ UNCHANGED sourceVars

Settle(w) ==
  /\ workers[w].pc = "settle"
  /\ \/ /\ MayHeartbeat(workers[w].run, workers[w].epoch) /\ Permit(w) \in permits
        /\ permits' = Released(w)
        /\ Put1(w, [workers[w] EXCEPT !.pc = "revoke", !.permit = FALSE, !.work = TRUE])
        /\ UNCHANGED sessions
     \/ GiveUp(w)
  /\ UNCHANGED sourceVars

\* A permit that has not expired is given back with the pause.
delayPermit(w) == Permit(w) \in permits /\ permits' = Released(w)

\* The provider asked for a pause, or the attempt did not open.
Postpone(w) ==
  LET r == workers[w].run  e == workers[w].epoch IN
  /\ workers[w].pc = "postpone"
  /\ \/ /\ AdvanceToCleanup(r, e)
        /\ \/ /\ delayPermit(w)
              /\ Put1(w, [workers[w] EXCEPT !.pc = "revoke", !.permit = FALSE, !.delay = TRUE])
              /\ UNCHANGED sessions
           \/ GiveUp(w)
     \/ GiveUp(w) /\ UNCHANGED sourceVars

prepareFailureIntent(w) ==
  /\ PrepareFailureIntent(workers[w].run, workers[w].epoch)
  /\ Put1(w, [workers[w] EXCEPT !.pc = "revoke", !.work = TRUE])

\* The deferred cleanup: a failure is persisted unless something else is known
\* to be, and the attempt is revoked whether that worked or not.
Abort(w) ==
  /\ workers[w].pc = "abort"
  /\ \/ ~(workers[w].delay \/ workers[w].work) /\ prepareFailureIntent(w)
     \/ To(w, "revoke") /\ UNCHANGED sourceVars
  /\ UNCHANGED <<sessions, permits>>

-----------------------------------------------------------------------------
(* Closing the attempt. *)

\* The transport tells the provider to end the session.
RevokeSession(a) == [sessions EXCEPT ![a] = "CLOSED"]

\* RevokeAttempt signs REVOKED only for a session that opened and that the
\* provider said is gone.
Revoke(w) ==
  LET a == Attempt(w) IN
  /\ workers[w].pc = "revoke"
  /\ \/ /\ workers[w].handle = "opened" /\ sessions' = RevokeSession(a)
        /\ Put1(w, [workers[w] EXCEPT !.pc = "record", !.proof = "REVOKED"])
     \/ /\ sessions' \in {sessions, RevokeSession(a)}
        /\ Put1(w, [workers[w] EXCEPT !.pc = "record", !.proof = "UNCERTAIN"])
  /\ UNCHANGED <<sourceVars, permits>>

\* An equal receipt answers again; another one is a conflict.
Record(w) ==
  LET r == workers[w].run  e == workers[w].epoch  a == workers[w].attempt
      replayed == /\ Fenced(r, e) /\ runs[r].cleanup = "REVOKED" /\ runs[r].attempt = a
                  /\ UNCHANGED sourceVars
  IN /\ workers[w].pc = "record"
     /\ \/ /\ workers[w].proof = "REVOKED"
           /\ RecordRevoked(r, e, a) \/ replayed
           /\ To(w, "finish")
        \/ workers[w].proof = "UNCERTAIN" /\ RecordUncertain(r, e, a) /\ Exit(w)
        \/ Exit(w) /\ UNCHANGED sourceVars
     /\ UNCHANGED <<sessions, permits>>

Finish(w) ==
  LET r == workers[w].run  e == workers[w].epoch IN
  /\ workers[w].pc = "finish"
  /\ \/ workers[w].delay /\ Delay(r, e)
     \/ workers[w].work /\ (Complete(r, e) \/ Fail(r, e))
     \/ UNCHANGED sourceVars
  /\ Exit(w) /\ UNCHANGED <<sessions, permits>>

Crash(w) ==
  /\ workers[w].pc # "idle"
  /\ Exit(w) /\ UNCHANGED <<sourceVars, sessions, permits>>

-----------------------------------------------------------------------------
Step(w) ==
  \/ Acquire(w) \/ Reserve(w) \/ OpenAttempt(w) \/ Reopen(w) \/ Provide(w)
  \/ Propose(w) \/ Apply(w) \/ Commit(w) \/ Settle(w) \/ Postpone(w)
  \/ Abort(w) \/ Revoke(w) \/ Record(w) \/ Finish(w)

Passes ==
  \E r \in DOMAIN runs : LeaseLapses(r) \/ DelayPasses(r)

WorkerNext ==
  \/ \E w \in Workers : NextClaim(w) \/ Step(w) \/ Crash(w)
  \/ (Passes \/ Disable) /\ UNCHANGED <<workers, sessions, permits>>
  \/ \E p \in permits : PermitExpires(p)

WorkerSafetySpec == WorkerInit /\ [][WorkerNext]_workerVars

\* A process that runs takes its next step, idle ones poll, and time passes.
WorkerSpec ==
  /\ WorkerSafetySpec
  /\ \A w \in Workers : WF_workerVars(NextClaim(w) \/ Step(w))
  /\ WF_workerVars(Passes /\ UNCHANGED <<workers, sessions, permits>>)

-----------------------------------------------------------------------------
(* Properties. *)

\* Whatever processes died or were overtaken, a session at the provider is
\* owed by a run that is not over and knows its attempt, or the source was
\* told that nobody can say.
SessionAccounted ==
  \A a \in Attempts : sessions[a] = "OPEN" =>
    LET run == runs[a[1]] IN
    /\ run.attempt = a[2]
    /\ \/ run.cleanup = "PENDING" /\ run.status \in Leased
       \/ run.cleanup = "UNCERTAIN" /\ run.status = "FAILED"

\* Work is read once: the page a worker is about to commit under a live fence
\* is the next page of the run.
PageInStep ==
  \A w \in Workers :
    workers[w].pc = "commit" /\ Fenced(workers[w].run, workers[w].epoch) =>
      workers[w].page = runs[workers[w].run].pages

\* A session that nobody is known to have lost, of a source that is not
\* disabled and a run with leases left in the model.
Dangling ==
  \E r \in DOMAIN runs, e \in 1..MaxEpoch :
    /\ sessions[<<r, e>>] = "OPEN" /\ runs[r].cleanup # "UNCERTAIN"
    /\ source.status = "ACTIVE" /\ runs[r].epoch < MaxEpoch

\* Processes that die or are overtaken between any two steps of an attempt leave
\* neither a session nobody answers for nor a page read twice (attempt_session.go).
AttemptSafety == SessionAccounted /\ PageInStep
=============================================================================
