---------------------------- MODULE RunnerService ----------------------------
(***************************************************************************)
(* The runner side of a write, internal/execution/service.go: RunNext      *)
(* claims one action from the queue (ActionQueue, which this module        *)
(* extends), checks it, prepares its credential, starts it, hands it to a  *)
(* typed executor under a heartbeat session, reports the result, gives the *)
(* credential back and finalizes.                                          *)
(*                                                                         *)
(* One service per runner.  Three threads matter: RunNext itself, the      *)
(* heartbeat loop and the executor's goroutine, which outlives RunNext     *)
(* when its context ends before it does.  A remote call either takes       *)
(* effect or not, and either answer may be lost; a call that no other      *)
(* thread of the service can overtake is one step, a heartbeat of the loop *)
(* and Complete are a step for the effect and one for the answer.          *)
(*                                                                         *)
(* The broker is used through its contract: Prepare makes the record of    *)
(* the lease, RecordNoCredential ends it, RequestRevocation may end it at  *)
(* once or leave it to the revocation worker (GateMoves).                  *)
(***************************************************************************)
EXTENDS ActionQueue

VARIABLES
  svc,      \* the state of RunNext and of its heartbeat session, per runner
  entered,  \* history: the leases whose executor was entered
  running,  \* the leases whose executor has not returned
  warned    \* history: the leases that were cancelled before their executor returned

serviceVars == <<svc, entered, running, warned>>
runnerVars == <<vars, serviceVars>>

\* The places of RunNext between two calls.
Places ==
  {"idle", "leased", "prepared", "started", "unstarted", "session", "issued", "gate",
   "running", "reporting", "completing", "answered", "failed", "acknowledged", "stopping",
   "stopped", "finalizing"}

\* `ctx' is executorContext; `loop' is the heartbeat goroutine, which holds
\* beatMu while an answer is under way; a result of None is an executorErr.
Service ==
  [pc : Places, lease : Lease \cup {None}, next : 0..(MaxSequence + 3), failure : BOOLEAN,
   acked : BOOLEAN, ctx : {"live", "done"}, loop : {"off", "waiting", "ok", "lost", "closed"},
   issued : BOOLEAN, result : Summaries \cup {None}]

NoRun ==
  [pc |-> "idle", lease |-> None, next |-> 0, failure |-> FALSE, acked |-> FALSE,
   ctx |-> "live", loop |-> "off", issued |-> FALSE, result |-> None]

RunnerInit ==
  /\ Init
  /\ svc = [r \in Runners |-> NoRun]
  /\ entered = {} /\ running = {} /\ warned = {}

-----------------------------------------------------------------------------
(* Heartbeats *)

\* heartbeatOnce answered and the directive is to go on.  A number the queue has
\* already seen is answered without a renewal.
BeatContinues(l, seq) ==
  /\ jobs[l.action].status = "RUNNING" /\ ~jobs[l.action].cancel
  /\ \/ \E ext \in Durations : Heartbeat(l, seq, clock, ext)
     \/ /\ CurrentFence(jobs[l.action], l, clock) /\ Valid(jobs[l.action], clock)
        /\ seq = jobs[l.action].sequence
        /\ UNCHANGED vars

\* heartbeatOnce failed: the scope changed, the call or its answer was lost, the
\* queue refused it or told the run to stop.
BeatFails(l, seq) ==
  \/ UNCHANGED vars
  \/ \E ext \in Durations : Heartbeat(l, seq, clock, ext)

\* DispatchError(ctx): the session has failed or its context is over.
DispatchError(s) == s.failure \/ s.ctx = "done"

\* Mutant: the checks of the two threads are not serialized.
BeatUnlocked(s) == TRUE

\* beatMu is free.
BeatFree(s) == s.loop \notin {"ok", "lost"}

\* Mutant: the session fails even though Complete was acknowledged.
FailAlways(s) == [s EXCEPT !.failure = TRUE, !.ctx = "done"]

\* session.fail: the first failure cancels the executor, unless Complete was
\* acknowledged.
Fail(s) == IF s.failure \/ s.acked THEN s ELSE [s EXCEPT !.failure = TRUE, !.ctx = "done"]

\* checkpoint(ctx) by RunNext: continue with `good' or with `bad'.
Checkpoint(r, good, bad) ==
  LET s == svc[r] IN
  /\ BeatFree(s)
  /\ \/ /\ DispatchError(s)
        /\ svc' = [svc EXCEPT ![r] = bad]
        /\ UNCHANGED vars
     \/ /\ ~DispatchError(s)
        /\ BeatContinues(s.lease, s.next)
        /\ svc' = [svc EXCEPT ![r] = [good EXCEPT !.next = @ + 1]]
     \/ /\ ~DispatchError(s)
        /\ BeatFails(s.lease, s.next)
        /\ svc' = [svc EXCEPT ![r] = Fail(bad)]

\* The ticker of heartbeatLoop fires: the heartbeat takes its effect ...
\* (MaxSequence bounds the numbers the loop uses.)
LoopBeat(r) ==
  LET s == svc[r] IN
  /\ s.loop = "waiting" /\ ~DispatchError(s)
  /\ s.next <= MaxSequence
  /\ s.pc # "stopping"
  /\ \/ BeatContinues(s.lease, s.next) /\ svc' = [svc EXCEPT ![r].loop = "ok"]
     \/ BeatFails(s.lease, s.next) /\ svc' = [svc EXCEPT ![r].loop = "lost"]
  /\ UNCHANGED <<entered, running, warned>>

\* ... and its answer is dealt with.  A failed heartbeat ends the loop, and the
\* session too unless the context ended first.
LoopSettle(r) ==
  LET s == svc[r] IN
  /\ \/ s.loop = "ok" /\ svc' = [svc EXCEPT ![r] = [s EXCEPT !.loop = "waiting", !.next = @ + 1]]
     \/ /\ s.loop = "lost"
        /\ svc' = [svc EXCEPT ![r] =
             [(IF s.ctx = "live" /\ s.pc # "stopping" THEN Fail(s) ELSE s)
                EXCEPT !.loop = "closed"]]
  /\ UNCHANGED <<vars, entered, running, warned>>

\* The loop notices that its context is over, by cancelExecution or by Stop.
LoopStops(r) ==
  /\ svc[r].loop = "waiting"
  /\ DispatchError(svc[r]) \/ svc[r].pc = "stopping"
  /\ svc' = [svc EXCEPT ![r].loop = "closed"]
  /\ UNCHANGED <<vars, entered, running, warned>>

\* The deadline of the run or of its credential passes, or the caller gives up.
ContextEnds(r) ==
  /\ svc[r].loop # "off" /\ svc[r].ctx = "live"
  /\ svc' = [svc EXCEPT ![r].ctx = "done"]
  /\ UNCHANGED <<vars, entered, running, warned>>

-----------------------------------------------------------------------------
(* RunNext, before the run *)

Step(r, s) == svc' = [svc EXCEPT ![r] = s] /\ UNCHANGED <<entered, running, warned>>
Return(r) == Step(r, NoRun)
Goto(r, pc) == Step(r, [svc[r] EXCEPT !.pc = pc])

\* Safety, scope and Claim.  An answer that is lost leaves a lease nobody uses.
ClaimNext(r) ==
  /\ svc[r].pc = "idle"
  /\ \E c \in Scopes, heard \in SUBSET Actions, dur \in Durations :
       c.runner = r /\ c.pool = "WRITE" /\ Claim(c, clock, heard, dur)
  /\ \/ \E l \in leases' \ leases : Step(r, [NoRun EXCEPT !.pc = "leased", !.lease = l])
     \/ Return(r)

\* The claim contradicts its envelope, or Reject or Nack failed: RunNext leaves
\* the lease to expire.
AbandonClaim(r) == svc[r].pc = "leased" /\ Return(r) /\ UNCHANGED vars

\* A bad signature, a drifted environment, a denied policy or a passed deadline.
RejectClaim(r) ==
  /\ svc[r].pc = "leased"
  /\ \E reason \in Reasons : Reject(svc[r].lease, clock, reason)
  /\ Return(r)

\* A dependency that does not answer, claims that are disabled, a stale snapshot.
NackClaim(r) ==
  /\ svc[r].pc = "leased"
  /\ \E delay \in Durations : Nack(svc[r].lease, clock, delay)
  /\ Return(r)

\* All checks passed.  Prepare may have committed although its answer was lost:
\* then the lease is kept.
Prepare(r) ==
  LET l == svc[r].lease IN
  /\ svc[r].pc = "leased"
  /\ Valid(jobs[l.action], clock)
  /\ cleanup[l.action][l.epoch] = "MISSING"
  /\ cleanup' = [cleanup EXCEPT ![l.action][l.epoch] = "PENDING"]
  /\ Goto(r, "prepared") \/ Return(r)
  /\ UNCHANGED <<jobs, order, clock, nextToken, leases, starts, acks>>

StartRun(r) ==
  /\ svc[r].pc = "prepared"
  /\ \/ Start(svc[r].lease, clock) /\ (Goto(r, "started") \/ Goto(r, "unstarted"))
     \/ UNCHANGED vars /\ Goto(r, "unstarted")

\* The first heartbeat, then the deadlines; the session starts with number two.
FirstBeat(r) ==
  LET s == svc[r] IN
  /\ s.pc = "started"
  /\ \/ /\ BeatContinues(s.lease, 1)
        /\ \/ Step(r, [s EXCEPT !.pc = "session", !.next = 2, !.loop = "waiting"])
           \/ Goto(r, "unstarted")
     \/ BeatFails(s.lease, 1) /\ Goto(r, "unstarted")

\* recordNoCredential: nothing was issued, and nothing will be.
RecordNoCredential(r) ==
  LET l == svc[r].lease IN
  /\ svc[r].pc = "unstarted"
  /\ Return(r)
  /\ \/ /\ cleanup[l.action][l.epoch] = "PENDING"
        /\ cleanup' = [cleanup EXCEPT ![l.action][l.epoch] = "TERMINAL"]
     \/ UNCHANGED cleanup
  /\ UNCHANGED <<jobs, order, clock, nextToken, leases, starts, acks>>

-----------------------------------------------------------------------------
(* RunNext, the run *)

\* Issue; a credential that fails validation was issued all the same.
Issue(r) ==
  LET s == svc[r] IN
  /\ s.pc = "session"
  /\ \/ Step(r, [s EXCEPT !.pc = "issued", !.issued = TRUE])
     \/ Step(r, [s EXCEPT !.pc = "reporting", !.issued = TRUE])
     \/ Step(r, [s EXCEPT !.pc = "reporting"])
  /\ UNCHANGED vars

CheckBefore(r) ==
  /\ svc[r].pc = "issued"
  /\ Checkpoint(r, [svc[r] EXCEPT !.pc = "gate"], [svc[r] EXCEPT !.pc = "reporting"])
  /\ UNCHANGED <<entered, running, warned>>

\* Mutant: the failure is not looked at again before the executor is entered.
DispatchUnchecked(r) ==
  LET s == svc[r] IN
  /\ s.pc = "gate" /\ BeatFree(s)
  /\ svc' = [svc EXCEPT ![r].pc = "running"]
  /\ entered' = entered \cup {s.lease} /\ running' = running \cup {s.lease}
  /\ UNCHANGED <<vars, warned>>

\* dispatchWithHeartbeat up to the unlock of beatMu.
Dispatch(r) ==
  LET s == svc[r] IN
  /\ s.pc = "gate" /\ BeatFree(s)
  /\ \/ /\ DispatchError(s)
        /\ Goto(r, "reporting")
     \/ /\ ~DispatchError(s)
        /\ svc' = [svc EXCEPT ![r].pc = "running"]
        /\ entered' = entered \cup {s.lease} /\ running' = running \cup {s.lease}
        /\ UNCHANGED warned
  /\ UNCHANGED vars

\* The executor returns; nothing makes it do so.
ExecutorReturns(l) ==
  /\ l \in running
  /\ running' = running \ {l}
  /\ warned' = IF jobs[l.action].cancel /\ jobs[l.action].epoch = l.epoch
               THEN warned \cup {l} ELSE warned
  /\ UNCHANGED <<vars, svc, entered>>

\* Mutant: RunNext waits for the executor, however long it takes.
SelectExecutor(r) ==
  LET s == svc[r] IN
  /\ s.pc = "running"
  /\ s.lease \notin running
  /\ \E m \in Summaries \cup {None} : Step(r, [s EXCEPT !.pc = "reporting", !.result = m])
  /\ UNCHANGED vars

\* The select of dispatchWithHeartbeat: a result counts only when neither the
\* context nor the session has ended.
Select(r) ==
  LET s == svc[r] IN
  /\ s.pc = "running"
  /\ \/ /\ s.lease \notin running
        /\ IF DispatchError(s) THEN Goto(r, "reporting")
           ELSE \E m \in Summaries \cup {None} :
                  Step(r, [s EXCEPT !.pc = "reporting", !.result = m])
     \/ s.loop = "closed" /\ Goto(r, "reporting")
     \/ s.ctx = "done" /\ Goto(r, "reporting")
  /\ UNCHANGED vars

-----------------------------------------------------------------------------
(* RunNext, after the run *)

\* Mutant: the result is reported without asking the queue once more.
CheckAfterSkipped(r) ==
  /\ svc[r].pc = "reporting"
  /\ Goto(r, "completing")
  /\ UNCHANGED vars

\* The lease must still be good after the executor returned.
CheckAfter(r) ==
  /\ svc[r].pc = "reporting"
  /\ Checkpoint(r, [svc[r] EXCEPT !.pc = "completing"],
                   [svc[r] EXCEPT !.pc = "completing", !.result = None])
  /\ UNCHANGED <<entered, running, warned>>

\* classifyResult: an error is an uncertain outcome.
Classified(m) ==
  IF m = None THEN CHOOSE x \in Summaries : x.outcome = "UNCERTAIN" ELSE m

CompleteRun(r) ==
  LET s == svc[r] IN
  /\ s.pc = "completing"
  /\ \/ Complete(s.lease, clock, Classified(s.result)) /\ (Goto(r, "answered") \/ Goto(r, "failed"))
     \/ UNCHANGED vars /\ Goto(r, "failed")

\* AcknowledgeComplete: a heartbeat that met the finished run does not count.
AcknowledgeComplete(r) ==
  /\ svc[r].pc = "answered"
  /\ Step(r, [svc[r] EXCEPT !.pc = "acknowledged", !.acked = TRUE, !.failure = FALSE])
  /\ UNCHANGED vars

\* Stop cancels the context of the loop ...
Stop(r) ==
  /\ svc[r].pc \in {"acknowledged", "failed"}
  /\ Goto(r, "stopping")
  /\ UNCHANGED vars

\* ... and returns when the loop has ended.
StopReturns(r) ==
  /\ svc[r].pc = "stopping"
  /\ svc[r].loop = "closed"
  /\ Goto(r, "stopped")
  /\ UNCHANGED vars

\* requestRevocation, and whether there is anything left to finalize.
RequestRevocation(r) ==
  LET s == svc[r]
      l == s.lease
      Finalizes(g) ==
        s.acked /\ (Classified(s.result).outcome = "UNCERTAIN" \/ ~s.issued \/ g = "TERMINAL")
  IN
  /\ s.pc = "stopped"
  /\ \/ \* Complete failed, or the request was refused, unanswered, left to the worker
        (s.issued \/ ~s.acked) /\ UNCHANGED cleanup /\ Return(r)
     \/ /\ UNCHANGED cleanup
        /\ Finalizes(cleanup[l.action][l.epoch]) /\ Goto(r, "finalizing")
     \/ /\ s.issued /\ cleanup[l.action][l.epoch] = "PENDING"
        /\ cleanup' = [cleanup EXCEPT ![l.action][l.epoch] = "TERMINAL"]
        /\ IF Finalizes("TERMINAL") THEN Goto(r, "finalizing") ELSE Return(r)
  /\ UNCHANGED <<jobs, order, clock, nextToken, leases, starts, acks>>

FinalizeRun(r) ==
  /\ svc[r].pc = "finalizing"
  /\ Finalize(svc[r].lease) \/ UNCHANGED vars
  /\ Return(r)

\* The runner's process dies, its executor with it.
Crash(r) ==
  /\ svc[r].pc # "idle"
  /\ svc' = [svc EXCEPT ![r] = NoRun]
  /\ running' = {l \in running : l.runner # r}
  /\ UNCHANGED <<vars, entered, warned>>

-----------------------------------------------------------------------------

MainStep(r) ==
  \/ AbandonClaim(r) \/ RejectClaim(r) \/ NackClaim(r) \/ Prepare(r) \/ StartRun(r)
  \/ FirstBeat(r) \/ RecordNoCredential(r) \/ Issue(r) \/ CheckBefore(r) \/ Dispatch(r)
  \/ Select(r) \/ CheckAfter(r) \/ CompleteRun(r) \/ AcknowledgeComplete(r) \/ Stop(r)
  \/ StopReturns(r) \/ RequestRevocation(r) \/ FinalizeRun(r)

LoopStep(r) == LoopBeat(r) \/ LoopSettle(r) \/ LoopStops(r)

\* Everybody else who uses the queue.
Others ==
  \/ \E s \in Submissions : Submit(s)
  \/ \E a \in Actions : Cancel(a, clock, Actions)
  \/ \E a \in Actions, q \in Reconciliations : Reconcile(a, clock, Actions, q)
  \/ SweepExpired(clock, Actions)
  \/ Tick
  \/ \E a \in Actions, ep \in 1..MaxEpoch :
       cleanup[a][ep] = "PENDING" /\ GateMoves(a, ep, "TERMINAL")

RunnerServiceNext ==
  \/ \E r \in Runners :
       ClaimNext(r) \/ MainStep(r) \/ LoopStep(r) \/ ContextEnds(r) \/ Crash(r)
  \/ \E l \in running : ExecutorReturns(l)
  \/ Others /\ UNCHANGED serviceVars

RunnerSpec == RunnerInit /\ [][RunnerServiceNext]_runnerVars

-----------------------------------------------------------------------------
(* Properties *)

RunnerTypeOK ==
  /\ svc \in [Runners -> Service]
  /\ entered \subseteq leases /\ running \subseteq entered /\ warned \subseteq entered
  /\ \A r \in Runners : svc[r].lease = None <=> svc[r].pc = "idle"

\* An executor is entered at most once for an action, whatever answers were
\* lost, leases expired and runners died on the way: neither a second RunNext
\* nor a second runner repeats a write.
DispatchedOnce == \A k, l \in entered : k.action = l.action => k = l

\* A receipt that says succeeded or failed is the word of an executor that was
\* entered under that lease, has returned, and was not asked to stop while it ran.
CertainMeansReturned ==
  \A k \in acks :
    k.result.outcome # "UNCERTAIN"
      => \E l \in entered \ (running \cup warned) :
           l.action = k.action /\ l.epoch = k.epoch

\* The two threads that send heartbeats never make a gap: while the session is
\* sound its next number is the one the queue waits for, so a lease is never
\* lost to a number out of turn.
SequenceInStep ==
  \A r \in Runners :
    LET s == svc[r] IN
    s.loop \in {"waiting", "ok"} /\ ~s.failure /\ s.ctx = "live"
      /\ jobs[s.lease.action].status = "RUNNING" /\ SameFence(jobs[s.lease.action], s.lease)
      => jobs[s.lease.action].sequence = IF s.loop = "ok" THEN s.next ELSE s.next - 1

\* An executor is only entered while the heartbeat loop that can cancel it is
\* alive and no lost heartbeat is waiting to be noticed.
EnteredUnderSupervision ==
  [][\A r \in Runners :
       svc'[r].pc = "running" /\ svc[r].pc # "running"
         => ~svc[r].failure /\ svc[r].loop = "waiting"]_runnerVars

\* A completion that was acknowledged is not turned into a failure by a
\* heartbeat that met the finished run.
AckSurvivesHeartbeats == \A r \in Runners : svc[r].acked => ~svc[r].failure

\* RunNext never waits without a deadline: until it returns, one of its threads
\* or its context can go on, although the executor may never return and the queue
\* never answer.
RunNeverWaits ==
  \A r \in Runners : svc[r].pc # "idle" =>
    (ENABLED MainStep(r)) \/ (ENABLED LoopStep(r)) \/ (ENABLED ContextEnds(r))

\* RunNext on the way from a lease to an answer: one dispatch, a receipt that is
\* the executor's word, heartbeats in turn, and no waiting (service.go).
RunnerSafety ==
  DispatchedOnce /\ CertainMeansReturned /\ SequenceInStep /\ AckSurvivesHeartbeats
    /\ RunNeverWaits
=============================================================================
