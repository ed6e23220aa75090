------------------------------- MODULE ReadTask -------------------------------
(***************************************************************************)
(* The READ tasks of one investigation, from the workflow that asks for    *)
(* them to the receipt that ends them:                                     *)
(*   internal/readtask/postgres      the attempts, their leases, receipts  *)
(*   internal/readgateway            one transaction per request           *)
(*   internal/readrunnerclient       the lease as the runner holds it      *)
(*   internal/readrunneractivity     one activity, one attempt at most     *)
(*   internal/investigationworkflow  rounds of activities and recovery     *)
(*   internal/investigation/postgres the parent: model, finalize, fail     *)
(*                                                                         *)
(* A gateway request is one transaction under the row locks of its task,   *)
(* attempt and parent.  A lease lapses at any moment after it was granted; *)
(* an activity the workflow has given up lives on, and so does the last    *)
(* request it sent.                                                        *)
(***************************************************************************)
EXTENDS Values, Integers, Sequences, FiniteSets

CONSTANTS
  MaxTasks,        \* bound on the tasks of the investigation
  MaxRounds,       \* MaximumReadTaskRounds, bounded by the number of tasks
  Runners,         \* registered READ runners
  MaxConcurrency,  \* attempts a runner may hold
  MaxBeats,        \* bound on the heartbeats of an activity, by its round
  Outcomes         \* what an execution may report, of EVIDENCE, FAILED, CANCELLED

ASSUME ReadConstants ==
  /\ {MaxTasks, MaxConcurrency} \subseteq Nat \ {0}
  /\ MaxRounds \in [1..MaxTasks -> Nat \ {0}]
  /\ MaxBeats \in Seq(Nat)
  /\ Outcomes \subseteq {"EVIDENCE", "FAILED", "CANCELLED"}
  /\ None \notin Outcomes

VARIABLES
  count,     \* the tasks the planner gave the investigation
  task,      \* tool_invocations.status
  attempts,  \* investigation_task_attempts of a task, by epoch
  receipt,   \* the runner_evidence_receipts row of a task
  parent,    \* investigations.status
  model,     \* investigations.model_status
  act,       \* the runner activity of a task and round
  wire,      \* the request or the reply of an activity
  flow       \* the workflow

readVars == <<count, task, attempts, receipt, parent, model, act, wire, flow>>

Tasks == 1..count
Rounds == 1..MaxRounds[count]
Activities == Tasks \X Rounds

Open == {"QUEUED", "RUNNING"}
Terminal == {"EVIDENCE", "FAILED", "CANCELLED"}
Active == {"LEASED", "RUNNING"}

\* current: scope revision and certificate are still those of the claim.
\* live: held and not lapsed.  fresh: it became terminal within releaseRetryDelay.
Attempt ==
  [status : Active \cup {"COMPLETED", "RELEASED", "EXPIRED", "CANCELLED"},
   runner : Runners, current : BOOLEAN, seq : Nat, live : BOOLEAN, fresh : BOOLEAN]

Receipt == [epoch : Nat, outcome : Outcomes]

Phases ==
  {"unborn", "claiming", "preparing", "releasing", "starting", "reading", "beating",
   "stopping", "completing", "ended"}

\* said: the state the activity returned.
Activity ==
  [phase : Phases, runner : Runners \cup {None}, epoch : Nat, seq : Nat,
   answer : Outcomes \cup {None, "ready"},
   said : {None, "NOT_CLAIMED", "RECOVERY_REQUIRED", "COMPLETE_ACKNOWLEDGED"}]

Message ==
  [op : {"claim", "start", "heartbeat", "release", "complete",
         "lease", "empty", "ok", "terminate", "refused"},
   epoch : Nat, seq : Nat, outcome : Outcomes \cup {None}]

\* report: what recovery proved of the tasks already passed.
Flow ==
  [position : 1..(count + 1), round : Rounds, stage : {"run", "first", "second", "done", "failed"},
   acked : BOOLEAN, error : {None, "ACK_PENDING", "PENDING", "INTEGRITY"},
   report : Seq([state : {"COMMITTED", "CONTROL_CANCELLED"}, receipt : Receipt \cup {None}])]

ReadTypeOK ==
  /\ count \in 1..MaxTasks
  /\ task \in [Tasks -> Open \cup Terminal]
  /\ \A t \in Tasks : attempts[t] \in Seq(Attempt)
  /\ receipt \in [Tasks -> Receipt \cup {None}]
  /\ parent \in Open \cup {"COMPLETED", "PARTIAL", "FAILED", "CANCELLED"}
  /\ model \in {"PENDING", "RUNNING", "COMPLETED", "FAILED", "SKIPPED", "CANCELLED"}
  /\ act \in [Activities -> Activity]
  /\ wire \in [Activities -> Message \cup {None}]
  /\ flow \in Flow

Unborn == [phase |-> "unborn", runner |-> None, epoch |-> 0, seq |-> 0, answer |-> None, said |-> None]

\* CreateOrGetInvestigation left the tasks QUEUED and the model PENDING.
ReadInit ==
  /\ count \in 1..MaxTasks
  /\ task = [t \in Tasks |-> "QUEUED"]
  /\ attempts = [t \in Tasks |-> <<>>]
  /\ receipt = [t \in Tasks |-> None]
  /\ parent = "QUEUED"
  /\ model = "PENDING"
  /\ act = [a \in Activities |-> Unborn]
  /\ wire = [a \in Activities |-> None]
  /\ flow = [position |-> 1, round |-> 1, stage |-> "run", acked |-> FALSE, error |-> None,
             report |-> <<>>]

-----------------------------------------------------------------------------
(* The gateway.  Every handler answers the request of one activity. *)

taskVars == <<task, attempts, receipt, parent>>
idle == <<count, model, act, flow>>

\* The answer goes out, or is lost and the request comes again: every operation is
\* meant to be replayed.  Only a waiting activity hears it.
Reply(a, op, epoch) ==
  \/ wire' = [wire EXCEPT ![a] =
       IF act[a].phase = "ended" THEN None
       ELSE [op |-> op, epoch |-> epoch, seq |-> 0, outcome |-> None]]
  \/ act[a].phase # "ended" /\ UNCHANGED wire

Asked(a, op) == wire[a] # None /\ wire[a].op = op

\* The request carries the token of its epoch, the connection the runner's certificate.
fenceMatchesAttempt(a) == wire[a].epoch \in 1..Len(attempts[a[1]])
LockedAttempt(a) == attempts[a[1]][wire[a].epoch]
attemptIdentityCurrent(row) == row.current

WithAttempt(a, row) == attempts' = [attempts EXCEPT ![a[1]][wire[a].epoch] = row]
Ends(row, status) == [row EXCEPT !.status = status, !.live = FALSE, !.fresh = TRUE]

\* A request may be refused before any transaction: admission closed, certificate
\* unknown, a canceled context, a database that does not answer.
authenticatedTransaction(a) ==
  /\ \E op \in {"claim", "start", "heartbeat", "release", "complete"} : Asked(a, op)
  /\ Reply(a, "refused", 0)
  /\ UNCHANGED <<taskVars, idle>>

\* The sweep of a claim: the lapsed attempts of its task expire, terminal as of now.
ExpireLapsed(rows) ==
  [e \in 1..Len(rows) |->
    IF rows[e].status \in Active /\ ~rows[e].live THEN Ends(rows[e], "EXPIRED") ELSE rows[e]]

Held(r) ==
  Cardinality({<<t, e>> \in Tasks \X Rounds :
    /\ e \in 1..Len(attempts[t])
    /\ attempts[t][e].runner = r /\ attempts[t][e].status \in Active /\ attempts[t][e].live})

ClaimIgnoresLeases(t, r, rows) ==
  \/ task[t] \notin Open \/ parent \notin Open
  \/ \E e \in 1..Len(rows) : rows[e].fresh

\* What refuses a claim, read after the sweep.
NoClaimAvailable(t, r, rows) ==
  \/ task[t] \notin Open \/ parent \notin Open
  \/ \E e \in 1..Len(rows) : rows[e].status \in Active
  \/ Held(r) >= MaxConcurrency
  \/ \E e \in 1..Len(rows) : rows[e].fresh

\* ErrNoClaimAvailable rolls the transaction back, the sweep with it.
ClaimRunnerTx(a) ==
  LET t == a[1]
      r == act[a].runner
      swept == ExpireLapsed(attempts[t])
      leased == [status |-> "LEASED", runner |-> r, current |-> TRUE, seq |-> 0,
                 live |-> TRUE, fresh |-> FALSE]
  IN /\ Asked(a, "claim")
     /\ IF NoClaimAvailable(t, r, swept)
        THEN /\ Reply(a, "empty", 0)
             /\ UNCHANGED attempts
        ELSE /\ attempts' = [attempts EXCEPT ![t] = Append(swept, leased)]
             /\ Reply(a, "lease", Len(swept) + 1)
     /\ UNCHANGED <<task, receipt, parent, idle>>

\* An attempt already RUNNING is a replay; the first start also moves task and parent.
StartAllowed(a, authorized) ==
  /\ fenceMatchesAttempt(a)
  /\ attemptIdentityCurrent(LockedAttempt(a))
  /\ LockedAttempt(a).live /\ LockedAttempt(a).status \in Active
  /\ task[a[1]] \in Open /\ parent \in Open
  /\ authorized

StartRunnerTx(a, authorized) ==
  /\ Asked(a, "start")
  /\ IF StartAllowed(a, authorized)
     THEN /\ WithAttempt(a, [LockedAttempt(a) EXCEPT !.status = "RUNNING"])
          /\ task' = [task EXCEPT ![a[1]] = "RUNNING"]
          /\ parent' = "RUNNING"
          /\ Reply(a, "ok", wire[a].epoch)
     ELSE /\ Reply(a, "refused", 0)
          /\ UNCHANGED <<task, attempts, parent>>
  /\ UNCHANGED <<receipt, idle>>

ShouldTerminate(a, authorized) ==
  \/ ~attemptIdentityCurrent(LockedAttempt(a))
  \/ ~authorized
  \/ task[a[1]] # "RUNNING" \/ parent # "RUNNING"

\* The sequence the attempt already has: the same answer, unless it must end by now.
HeartbeatReplay(a, authorized) ==
  LET row == LockedAttempt(a) IN
  /\ wire[a].seq = row.seq
  /\ \/ /\ row.status = "CANCELLED"
        /\ Reply(a, "terminate", wire[a].epoch)
        /\ UNCHANGED attempts
     \/ /\ row.status = "RUNNING" /\ row.live
        /\ IF ShouldTerminate(a, authorized)
           THEN /\ WithAttempt(a, Ends(row, "CANCELLED"))
                /\ Reply(a, "terminate", wire[a].epoch)
           ELSE /\ Reply(a, "ok", wire[a].epoch)
                /\ UNCHANGED attempts
     \/ /\ row.status # "CANCELLED" /\ ~(row.status = "RUNNING" /\ row.live)
        /\ Reply(a, "refused", 0)
        /\ UNCHANGED attempts

\* A new sequence: the next one of a RUNNING attempt whose lease holds.
HeartbeatNext(a, authorized) ==
  LET row == LockedAttempt(a) IN
  /\ wire[a].seq # row.seq
  /\ IF row.status = "RUNNING" /\ row.live /\ wire[a].seq = row.seq + 1
     THEN IF ShouldTerminate(a, authorized)
          THEN /\ WithAttempt(a, [Ends(row, "CANCELLED") EXCEPT !.seq = wire[a].seq])
               /\ Reply(a, "terminate", wire[a].epoch)
          ELSE /\ WithAttempt(a, [row EXCEPT !.seq = wire[a].seq])
               /\ Reply(a, "ok", wire[a].epoch)
     ELSE /\ Reply(a, "refused", 0)
          /\ UNCHANGED attempts

HeartbeatRunnerTx(a, authorized) ==
  /\ Asked(a, "heartbeat") /\ fenceMatchesAttempt(a)
  /\ HeartbeatReplay(a, authorized) \/ HeartbeatNext(a, authorized)
  /\ UNCHANGED <<task, receipt, parent, idle>>

\* Before the start only, and without the admission check of the other requests.
ReleaseRunnerTx(a) ==
  LET row == LockedAttempt(a) IN
  /\ Asked(a, "release") /\ fenceMatchesAttempt(a)
  /\ IF attemptIdentityCurrent(row)
        /\ (row.status = "RELEASED" \/ (row.status = "LEASED" /\ row.live))
     THEN /\ WithAttempt(a, IF row.status = "RELEASED" THEN row ELSE Ends(row, "RELEASED"))
          /\ Reply(a, "ok", wire[a].epoch)
     ELSE /\ Reply(a, "refused", 0)
          /\ UNCHANGED attempts
  /\ UNCHANGED <<task, receipt, parent, idle>>

\* Completion as it would be if only the attempt were looked at.
CompletesUnderAnyParent(a, authorized) ==
  LockedAttempt(a).status = "RUNNING" /\ LockedAttempt(a).live

CompletionAllowed(a, authorized) ==
  /\ LockedAttempt(a).status = "RUNNING" /\ LockedAttempt(a).live
  /\ task[a[1]] = "RUNNING" /\ parent = "RUNNING"
  /\ wire[a].outcome = "EVIDENCE" => authorized

\* A COMPLETED attempt repeats its answer to the same request, and conflicts with another.
CompletionReplayed(a) ==
  LockedAttempt(a).status = "COMPLETED" /\ receipt[a[1]].outcome = wire[a].outcome

CompleteRunnerTx(a, authorized) ==
  LET t == a[1] IN
  /\ Asked(a, "complete") /\ fenceMatchesAttempt(a)
  /\ \/ /\ attemptIdentityCurrent(LockedAttempt(a))
        /\ LockedAttempt(a).status # "COMPLETED" /\ CompletionAllowed(a, authorized)
        /\ WithAttempt(a, Ends(LockedAttempt(a), "COMPLETED"))
        /\ task' = [task EXCEPT ![t] = wire[a].outcome]
        /\ receipt' = [receipt EXCEPT ![t] = [epoch |-> wire[a].epoch, outcome |-> wire[a].outcome]]
        /\ Reply(a, "ok", wire[a].epoch)
     \/ /\ attemptIdentityCurrent(LockedAttempt(a)) /\ CompletionReplayed(a)
        /\ Reply(a, "ok", wire[a].epoch)
        /\ UNCHANGED <<task, attempts, receipt>>
     \/ /\ \/ ~attemptIdentityCurrent(LockedAttempt(a))
           \/ ~CompletionReplayed(a) /\ ~(LockedAttempt(a).status # "COMPLETED" /\ CompletionAllowed(a, authorized))
        /\ Reply(a, "refused", 0)
        /\ UNCHANGED <<task, attempts, receipt>>
  /\ UNCHANGED <<parent, idle>>

\* Time and administration.
LeaseLapses(t, e) ==
  /\ e \in 1..Len(attempts[t])
  /\ attempts[t][e].status \in Active /\ attempts[t][e].live
  /\ attempts' = [attempts EXCEPT ![t][e].live = FALSE]
  /\ UNCHANGED <<task, receipt, parent, wire, idle>>

RetryDelayPasses(t, e) ==
  /\ e \in 1..Len(attempts[t])
  /\ attempts[t][e].fresh /\ task[t] \in Open
  /\ attempts' = [attempts EXCEPT ![t][e].fresh = FALSE]
  /\ UNCHANGED <<task, receipt, parent, wire, idle>>

\* Another scope revision or certificate for the runner.
ScopeRevised(r) ==
  /\ \E t \in Tasks : \E e \in 1..Len(attempts[t]) :
       attempts[t][e].runner = r /\ attempts[t][e].status \in Active /\ attempts[t][e].current
  /\ attempts' = [t \in Tasks |-> [e \in 1..Len(attempts[t]) |->
       IF attempts[t][e].runner = r THEN [attempts[t][e] EXCEPT !.current = FALSE] ELSE attempts[t][e]]]
  /\ UNCHANGED <<task, receipt, parent, wire, idle>>

-----------------------------------------------------------------------------
(* The parent investigation. *)

AllTerminal == \A t \in Tasks : task[t] \in Terminal
CancelOpenTasks == task' = [t \in Tasks |-> IF task[t] \in Open THEN "CANCELLED" ELSE task[t]]

StartModel ==
  /\ AllTerminal /\ parent = "RUNNING" /\ model = "PENDING"
  /\ model' = "RUNNING"
  /\ UNCHANGED <<count, taskVars, act, wire, flow>>

validPostgresModelFinalization(to) ==
  CASE to \in {"COMPLETED", "FAILED"} -> model = "RUNNING"
    [] to = "SKIPPED" -> model = "PENDING"
    [] to = "CANCELLED" -> model \in {"PENDING", "RUNNING"}

DerivesCompleted == "COMPLETED"
deriveInvestigationStatus ==
  IF \E t \in Tasks : task[t] \in {"FAILED", "CANCELLED"} THEN "PARTIAL" ELSE "COMPLETED"

\* COMPLETED and PARTIAL close what ran to its end; CANCELLED also what did not.
FinalizeInvestigation(status, to) ==
  /\ parent \in Open
  /\ validPostgresModelFinalization(to)
  /\ \/ /\ status = "CANCELLED" /\ to = "CANCELLED"
        /\ CancelOpenTasks
     \/ /\ parent = "RUNNING" /\ AllTerminal
        /\ status = deriveInvestigationStatus /\ to # "CANCELLED"
        /\ UNCHANGED task
  /\ parent' = status /\ model' = to
  /\ UNCHANGED <<count, attempts, receipt, act, wire, flow>>

FailInvestigation ==
  /\ parent \in Open
  /\ parent' = "FAILED" /\ model' = "CANCELLED"
  /\ CancelOpenTasks
  /\ UNCHANGED <<count, attempts, receipt, act, wire, flow>>

-----------------------------------------------------------------------------
(* The activity on a runner, with the lease its client holds. *)

rows == <<count, taskVars, model>>

Send(a, op, seq, outcome) ==
  wire' = [wire EXCEPT ![a] = [op |-> op, epoch |-> act'[a].epoch, seq |-> seq, outcome |-> outcome]]

Moves(a, phase) == act' = [act EXCEPT ![a].phase = phase]
\* The lease and the answer are destroyed; what was acknowledged is kept for the proofs.
EndsSaying(a, state) ==
  act' = [act EXCEPT ![a] =
    IF state = "COMPLETE_ACKNOWLEDGED" THEN [@ EXCEPT !.phase = "ended", !.said = state]
    ELSE [Unborn EXCEPT !.phase = "ended", !.runner = act[a].runner, !.said = state]]

\* A reply consumed by the activity that waits for it.
HeardBy(a, phase, op) == act[a].phase = phase /\ Asked(a, op)
Consumed(a) == wire' = [wire EXCEPT ![a] = None]

\* A runner polls the queue of the bundle and claims the task of its input.
ExecuteActivity(a, r) ==
  /\ flow.stage = "run" /\ a = <<flow.position, flow.round>>
  /\ act[a].phase = "unborn"
  /\ act' = [act EXCEPT ![a].phase = "claiming", ![a].runner = r]
  /\ Send(a, "claim", 0, None)
  /\ UNCHANGED <<rows, flow>>

Claimed(a) ==
  /\ \/ /\ HeardBy(a, "claiming", "lease")
        /\ act' = [act EXCEPT ![a].phase = "preparing", ![a].epoch = wire[a].epoch]
     \/ /\ HeardBy(a, "claiming", "empty")
        /\ EndsSaying(a, "NOT_CLAIMED")
     \/ /\ HeardBy(a, "claiming", "refused")
        /\ EndsSaying(a, "RECOVERY_REQUIRED")
  /\ Consumed(a)
  /\ UNCHANGED <<rows, flow>>

\* The runtime prepares, or cannot, or the context ended meanwhile.
Prepare(a) ==
  /\ act[a].phase = "preparing"
  /\ \/ Moves(a, "starting") /\ Send(a, "start", 0, None)
     \/ Moves(a, "releasing") /\ Send(a, "release", 0, None)
  /\ UNCHANGED <<rows, flow>>

releaseBeforeStart(a) ==
  /\ \/ HeardBy(a, "releasing", "ok") /\ EndsSaying(a, "NOT_CLAIMED")
     \/ HeardBy(a, "releasing", "refused") /\ EndsSaying(a, "RECOVERY_REQUIRED")
  /\ Consumed(a)
  /\ UNCHANGED <<rows, flow>>

Started(a) ==
  /\ \/ HeardBy(a, "starting", "ok") /\ Moves(a, "reading")
     \/ HeardBy(a, "starting", "refused") /\ EndsSaying(a, "RECOVERY_REQUIRED")
  /\ Consumed(a)
  /\ UNCHANGED <<rows, flow>>

\* The execution runs beside the heartbeats and ends once; nobody looks at what it
\* returned before the activity takes it.
ExecutionReturns(a) ==
  /\ act[a].phase \in {"reading", "beating", "stopping"} /\ act[a].answer = None
  /\ act' = [act EXCEPT ![a].answer = "ready"]
  /\ UNCHANGED <<rows, wire, flow>>

Heartbeat(a) ==
  /\ act[a].phase = "reading" /\ act[a].seq < MaxBeats[a[2]]
  /\ Moves(a, "beating")
  /\ Send(a, "heartbeat", act[a].seq + 1, None)
  /\ UNCHANGED <<rows, flow>>

HeartbeatAnswered(a) ==
  /\ \/ /\ HeardBy(a, "beating", "ok")
        /\ act' = [act EXCEPT ![a].phase = "reading", ![a].seq = @ + 1]
     \/ HeardBy(a, "beating", "terminate") /\ Moves(a, "stopping")
     \/ HeardBy(a, "beating", "refused") /\ Moves(a, "stopping")
  /\ Consumed(a)
  /\ UNCHANGED <<rows, flow>>

\* An outcome goes to the gateway; an execution error does not.
Complete(a, answer) ==
  /\ act[a].phase = "reading" /\ act[a].answer # None
  /\ IF answer = "error"
     THEN EndsSaying(a, "RECOVERY_REQUIRED") /\ UNCHANGED wire
     ELSE /\ act' = [act EXCEPT ![a].phase = "completing", ![a].answer = answer]
          /\ Send(a, "complete", 0, answer)
  /\ UNCHANGED <<rows, flow>>

ConflictTakenForReplay(a) ==
  /\ \E op \in {"ok", "refused"} : HeardBy(a, "completing", op)
  /\ EndsSaying(a, "COMPLETE_ACKNOWLEDGED")
  /\ Consumed(a)
  /\ UNCHANGED <<rows, flow>>

CompleteAnswered(a) ==
  /\ \/ HeardBy(a, "completing", "ok") /\ EndsSaying(a, "COMPLETE_ACKNOWLEDGED")
     \/ HeardBy(a, "completing", "refused") /\ EndsSaying(a, "RECOVERY_REQUIRED")
  /\ Consumed(a)
  /\ UNCHANGED <<rows, flow>>

\* The context of a started activity ends: the execution is canceled and awaited.
ContextDone(a) ==
  /\ act[a].phase = "reading"
  /\ Moves(a, "stopping")
  /\ UNCHANGED <<rows, wire, flow>>

Stopped(a) ==
  /\ act[a].phase = "stopping" /\ act[a].answer # None
  /\ EndsSaying(a, "RECOVERY_REQUIRED")
  /\ UNCHANGED <<rows, wire, flow>>

\* No usable answer in time: the client destroys the lease and never asks again, but
\* the request may still arrive.
GiveUp(a) ==
  /\ act[a].phase \in {"claiming", "releasing", "starting", "beating", "completing"}
  /\ IF act[a].phase = "beating" THEN Moves(a, "stopping") ELSE EndsSaying(a, "RECOVERY_REQUIRED")
  /\ UNCHANGED <<rows, wire, flow>>

\* The process dies; to the workflow an activity that failed or timed out is one that
\* asked for recovery.
RunnerLost(a) ==
  /\ act[a].phase \notin {"unborn", "ended"}
  /\ EndsSaying(a, "RECOVERY_REQUIRED")
  /\ UNCHANGED <<rows, wire, flow>>

-----------------------------------------------------------------------------
(* The workflow. *)

validRecoveryTaskState(t) ==
  CASE task[t] = "QUEUED" -> parent \in Open
    [] task[t] = "RUNNING" -> parent = "RUNNING"
    [] task[t] = "EVIDENCE" -> parent \in {"RUNNING", "PARTIAL", "COMPLETED", "FAILED", "CANCELLED"}
    [] task[t] \in {"FAILED", "CANCELLED"} -> parent \in {"RUNNING", "PARTIAL", "FAILED", "CANCELLED"}

\* The receipt names the epoch whose attempt must be COMPLETED.
validateRecoveredCommit(t) ==
  /\ receipt[t].outcome = task[t]
  /\ receipt[t].epoch \in 1..Len(attempts[t])
  /\ attempts[t][receipt[t].epoch].status = "COMPLETED"

Recover(t) ==
  CASE ~validRecoveryTaskState(t) -> "INTEGRITY"
    [] validRecoveryTaskState(t) /\ task[t] \in Open -> "PENDING"
    [] validRecoveryTaskState(t) /\ task[t] \in Terminal /\ receipt[t] = None ->
         IF task[t] = "CANCELLED" THEN "CONTROL_CANCELLED" ELSE "INTEGRITY"
    [] OTHER -> IF validateRecoveredCommit(t) THEN "COMMITTED" ELSE "INTEGRITY"

\* The activity answered, failed or ran into a timeout: recovery looks either way.
ActivityOver ==
  LET a == <<flow.position, flow.round>> IN
  /\ flow.stage = "run"
  /\ flow' = [flow EXCEPT !.stage = "first",
                          !.acked = act[a].phase = "ended" /\ act[a].said = "COMPLETE_ACKNOWLEDGED"]
  /\ UNCHANGED <<rows, act, wire>>

Fails(error) == [flow EXCEPT !.stage = "failed", !.error = error]

NextTask(t) ==
  [flow EXCEPT !.position = t + 1, !.round = 1, !.acked = FALSE,
               !.stage = IF t = count THEN "done" ELSE "run",
               !.report = Append(@, [state |-> Recover(t), receipt |-> receipt[t]])]

RoundRepeats == [flow EXCEPT !.stage = "first"]
PendingForgedCancelled == IF flow.round = MaxRounds[count] THEN
  [flow EXCEPT !.stage = "done", !.report = Append(@, [state |-> "CONTROL_CANCELLED", receipt |-> None])]
  ELSE [flow EXCEPT !.round = @ + 1, !.stage = "run", !.acked = FALSE]

\* Pending after the wait: the next round, while the budget lasts.
NextRound ==
  IF flow.round = MaxRounds[count] THEN Fails("PENDING")
  ELSE [flow EXCEPT !.round = @ + 1, !.stage = "run", !.acked = FALSE]

executeRecoveryV1 ==
  LET t == flow.position IN
  /\ flow.stage \in {"first", "second"}
  /\ flow' = CASE Recover(t) = "INTEGRITY" -> Fails("INTEGRITY")
               [] Recover(t) \in {"COMMITTED", "CONTROL_CANCELLED"} -> NextTask(t)
               [] Recover(t) = "PENDING" /\ flow.stage = "first" ->
                    IF flow.acked THEN Fails("ACK_PENDING") ELSE [flow EXCEPT !.stage = "second"]
               [] OTHER -> NextRound
  /\ UNCHANGED <<rows, act, wire>>

\* Every step but an activity's beginning leaves what is over alone.
WorkflowOver == flow.stage \in {"done", "failed"} /\ UNCHANGED readVars

-----------------------------------------------------------------------------
GatewayStep(a) ==
  \/ authenticatedTransaction(a)
  \/ ClaimRunnerTx(a)
  \/ \E authorized \in BOOLEAN :
       \/ StartRunnerTx(a, authorized)
       \/ HeartbeatRunnerTx(a, authorized)
       \/ CompleteRunnerTx(a, authorized)
  \/ ReleaseRunnerTx(a)

ActivityStep(a) ==
  \/ \E r \in Runners : ExecuteActivity(a, r)
  \/ Claimed(a) \/ Prepare(a) \/ releaseBeforeStart(a) \/ Started(a)
  \/ ExecutionReturns(a)
  \/ Heartbeat(a) \/ HeartbeatAnswered(a)
  \/ \E answer \in Outcomes \cup {"error"} : Complete(a, answer)
  \/ CompleteAnswered(a)
  \/ ContextDone(a) \/ Stopped(a) \/ GiveUp(a) \/ RunnerLost(a)

ControlStep ==
  \/ StartModel
  \/ \E status \in {"COMPLETED", "PARTIAL", "CANCELLED"},
        to \in {"COMPLETED", "FAILED", "SKIPPED", "CANCELLED"} : FinalizeInvestigation(status, to)
  \/ FailInvestigation

TimeStep ==
  \/ \E t \in Tasks, e \in Rounds : LeaseLapses(t, e) \/ RetryDelayPasses(t, e)
  \/ \E r \in Runners : ScopeRevised(r)

WorkflowStep == ActivityOver \/ executeRecoveryV1

ReadNext ==
  \/ \E a \in Activities : GatewayStep(a) \/ ActivityStep(a)
  \/ ControlStep
  \/ TimeStep
  \/ WorkflowStep
  \/ WorkflowOver

ReadSpec == ReadInit /\ [][ReadNext]_readVars /\ WF_readVars(WorkflowStep)

-----------------------------------------------------------------------------
(* Properties *)

\* Recovery never meets facts that contradict each other, and never finds pending what
\* an activity was told is complete, whatever late requests, cancellations and failed
\* investigations were served in between.
RecoveryAgrees ==
  /\ \A t \in Tasks : Recover(t) # "INTEGRITY"
  /\ flow.error \notin {"ACK_PENDING", "INTEGRITY"}

\* What the workflow reported of a task stays true: no late request of an activity it
\* had given up ends the task again or exchanges its receipt.
ReportStands ==
  \A t \in 1..Len(flow.report) :
    flow.report[t].state = Recover(t) /\ flow.report[t].receipt = receipt[t]

\* One attempt of a task at a time may act, and a runner holds no more leases than its
\* registration allows, however claims and lapses interleave.
LeasesBounded ==
  /\ \A t \in Tasks :
       Cardinality({e \in 1..Len(attempts[t]) : attempts[t][e].status \in Active}) <= 1
  /\ \A r \in Runners : Held(r) <= MaxConcurrency

\* An acknowledged completion is the receipt of its own attempt and names its outcome.
AcknowledgedIsReceipt ==
  \A a \in Activities :
    act[a].said = "COMPLETE_ACKNOWLEDGED" =>
      receipt[a[1]] = [epoch |-> act[a].epoch, outcome |-> act[a].answer]

\* The four promises of the READ queue: what recovery reads agrees, what was reported
\* stands, leases keep their bounds, and an acknowledgement is a receipt.
ReadTaskSafety == RecoveryAgrees /\ ReportStands /\ LeasesBounded /\ AcknowledgedIsReceipt

\* A closed investigation is not reopened and its tasks stay as they were closed: a
\* runner that has not heard of it neither starts nor completes anything.
ClosedStaysClosed ==
  parent \notin Open => UNCHANGED <<parent, model, task, receipt>>

\* Every workflow ends: all tasks terminal, or handed to an operator after the rounds.
WorkflowEnds == <>(flow.stage \in {"done", "failed"})

\* A claim finds the lapsed attempt of its task expired and does not wait for it: "LEASED
\* and RUNNING may become EXPIRED" (the READ Attempt row of the runtime's state table).
LapsedAttemptExpires ==
  [][\A a \in Activities :
       /\ Asked(a, "claim") /\ task[a[1]] \in Open /\ parent \in Open
       /\ wire'[a] # wire[a] /\ wire'[a] # None /\ wire'[a].op = "empty"
       => \A e \in 1..Len(attempts[a[1]]) :
            attempts[a[1]][e].status \in Active /\ ~attempts[a[1]][e].live
              => attempts'[a[1]][e].status = "EXPIRED"]_readVars
=============================================================================
