----------------------------- MODULE ActionQueue -----------------------------
(***************************************************************************)
(* The in-memory action queue, internal/execution/action_queue.go: typed   *)
(* actions are submitted, claimed by runners under a fenced lease, run,    *)
(* completed with a receipt and finalized once the child credential of a   *)
(* write is known to be cleaned up.                                        *)
(*                                                                         *)
(* A method body under queue.mu is one step.  Every method reads the clock *)
(* before it takes the mutex, so `now' is a reading and may be older than  *)
(* the state; Claim reads the clock once more under the mutex.             *)
(*                                                                         *)
(* Runners are modelled by the leases they were handed: any lease ever     *)
(* issued may be presented at any later time (a paused runner, a delayed   *)
(* request, a retry after a lost answer).                                  *)
(*                                                                         *)
(* The CredentialFinalizationGate is the variable `cleanup': what          *)
(* InspectCleanup answers for an action and lease epoch.  Here it moves as *)
(* its contract allows; WriteExecution replaces it by the real repository. *)
(***************************************************************************)
EXTENDS Values, Integers, Sequences, FiniteSets

CONSTANTS
  Actions,          \* action identifiers
  Targets,          \* target keys
  Runners,          \* runner identifiers
  Submissions,      \* the submissions clients may send
  Scopes,           \* the runner scopes a claim may carry
  Summaries,        \* executor results a runner may report
  Reasons,          \* rejection reasons
  Reconciliations,  \* reconciliation requests an operator may send
  Durations,        \* lease durations, extensions and retry delays, in ticks
  MaxClock,         \* bound on the clock
  MaxLag,           \* bound on how long a call waits for the mutex
  MaxEpoch,         \* the largest lease epoch (math.MaxInt64 in the code)
  MaxSequence,      \* bound on heartbeat sequence numbers
  Expired           \* expiredRunningResultHash()

Pools == {"READ", "WRITE"}
Outcomes == {"SUCCEEDED", "FAILED", "UNCERTAIN"}
Verdicts == {"SUCCEEDED", "FAILED"}
\* Execution.Terminal()
Terminal == {"SUCCEEDED", "FAILED", "CANCELLED", "UNCERTAIN"}
\* actionLeaseActive: the statuses that hold a target and a runner slot.
Active == {"LEASED", "RUNNING", "FINALIZING", "UNCERTAIN"}
Statuses == {"ABSENT", "QUEUED"} \cup Active \cup Terminal
Gate == {"MISSING", "PENDING", "TERMINAL"}

\* key: workspace and idempotency key; semantics: RequestSemanticHash, which
\* covers everything but the action identifier; zone: workspace and environment.
Submission ==
  [id : Actions, key : STRING, semantics : STRING, target : Targets, pool : Pools,
   production : BOOLEAN, zone : STRING, expires : Nat \ {0}]

Scope == [runner : Runners, pool : Pools, max : Nat, zones : SUBSET STRING]

ASSUME ConstantsOK ==
  /\ \A s \in Submissions :
       /\ s.id \in Actions /\ s.target \in Targets /\ s.pool \in Pools
       /\ s.production \in BOOLEAN /\ s.expires \in Nat \ {0}
  /\ \A c \in Scopes : c.runner \in Runners /\ c.pool \in Pools /\ c.max \in Nat
  /\ \A m \in Summaries : m.outcome \in Outcomes
  /\ \A q \in Reconciliations : q.verdict \in Verdicts
  /\ IsFiniteSet(Actions)
  /\ Durations \subseteq Nat \ {0}
  /\ MaxClock \in Nat \ {0} /\ MaxLag \in Nat /\ MaxSequence \in Nat
  /\ MaxEpoch \in Nat \ {0}
  /\ None \notin Runners \cup Summaries \cup Reasons \cup Reconciliations \cup Submissions
  /\ Expired \notin Summaries \cup Reasons

VARIABLES
  jobs,       \* the map of records; status "ABSENT" is a missing key
  order,      \* action identifiers in the order they were submitted
  clock,      \* the wall clock
  nextToken,  \* the next value of the token source
  cleanup,    \* what InspectCleanup answers, per action and lease epoch
  leases,     \* every lease handed to a runner
  starts,     \* history: the leases whose Start succeeded
  acks        \* history: the completions that were answered with success

vars == <<jobs, order, clock, nextToken, cleanup, leases, starts, acks>>

Lease == [action : Actions, runner : Runners, epoch : 1..MaxEpoch, token : Nat]
Results == Summaries \cup Reasons \cup {Expired}

\* `done' is the completed fence (completedTokenHash, completedEpoch), `receipt'
\* says whether the result came with a runner receipt.
Job ==
  [status : Statuses, sub : Submissions \cup {None}, runner : Runners \cup {None},
   epoch : 0..MaxEpoch, token : Nat, expires : Nat, sequence : Nat,
   cancel : BOOLEAN, completion : Outcomes \cup {None}, result : Results \cup {None},
   receipt : BOOLEAN, done : [token : Nat, epoch : 0..MaxEpoch],
   reconciled : Reconciliations \cup {None}, notBefore : Nat]

NoFence == [token |-> 0, epoch |-> 0]

Blank ==
  [status |-> "ABSENT", sub |-> None, runner |-> None, epoch |-> 0, token |-> 0,
   expires |-> 0, sequence |-> 0, cancel |-> FALSE, completion |-> None,
   result |-> None, receipt |-> FALSE, done |-> NoFence, reconciled |-> None,
   notBefore |-> 0]

Init ==
  /\ jobs = [a \in Actions |-> Blank]
  /\ order = <<>>
  /\ clock = 1
  /\ nextToken = 1
  /\ cleanup = [a \in Actions |-> [ep \in 1..MaxEpoch |-> "MISSING"]]
  /\ leases = {} /\ starts = {} /\ acks = {}

-----------------------------------------------------------------------------
(* Fences, expiry and the credential gate *)

\* The times a call may have read before it got the mutex.
Readings == {t \in 1..clock : clock <= t + MaxLag}

Earlier(s, t) == IF s < t THEN s ELSE t

\* The envelope of job j is still valid.
Valid(j, now) == now < j.sub.expires

SameFence(j, l) == j.runner = l.runner /\ j.token = l.token /\ j.epoch = l.epoch

CurrentFence(j, l, now) == SameFence(j, l) /\ now < j.expires

\* The fence a completion left behind, as long as no operator reconciled.
CompletedFence(j, l) ==
  /\ j.reconciled = None
  /\ j.runner = l.runner
  /\ j.done = [token |-> l.token, epoch |-> l.epoch]

\* Mutant: a missing record is always good enough.
CredentialTerminalOrMissing(a, j, allowMissing, heard) ==
  j.sub.pool = "WRITE" => heard /\ cleanup[a][j.epoch] \in {"TERMINAL", "MISSING"}

\* Mutant: before a run there is nothing to clean up.
CredentialTerminalAfterRun(a, j, allowMissing, heard) ==
  \/ j.sub.pool # "WRITE" \/ allowMissing
  \/ heard /\ cleanup[a][j.epoch] = "TERMINAL"

\* requireCredentialTerminal: only the write pool has credentials to clean up.
\* `heard' says whether InspectCleanup answered; its failure counts as pending.
CredentialTerminal(a, j, allowMissing, heard) ==
  \/ j.sub.pool # "WRITE"
  \/ /\ heard
     /\ \/ cleanup[a][j.epoch] = "TERMINAL"
        \/ allowMissing /\ cleanup[a][j.epoch] = "MISSING"

\* Every completion but an uncertain one gives the target back.
ReleasesTargetLock(st) == st \in {"SUCCEEDED", "FAILED", "CANCELLED", "QUEUED"}

\* A receipt may become the final status.
MayFinalize(a, j, heard) ==
  /\ j.status = "FINALIZING"
  /\ j.receipt
  /\ ReleasesTargetLock(j.completion) => CredentialTerminal(a, j, FALSE, heard)

\* A lease that was never set or was cleared does not lapse.
Lapsed(j, now) == j.expires # 0 /\ j.expires <= now

Unleased(j, notBefore) ==
  [j EXCEPT !.status = "QUEUED", !.runner = None, !.token = 0, !.expires = 0,
            !.sequence = 0, !.cancel = FALSE, !.notBefore = notBefore]

\* Mutant: an expired run is queued again.
ExpireRequeues(a, j, now, heard) ==
  IF j.status \in {"LEASED", "RUNNING"} /\ Lapsed(j, now)
     /\ CredentialTerminal(a, j, TRUE, heard)
  THEN Unleased(j, 0) ELSE j

\* Mutant: only leases expire; a receipt waits for its runner.
ExpireLeasesOnly(a, j, now, heard) ==
  CASE j.status = "LEASED" /\ Lapsed(j, now) ->
         IF CredentialTerminal(a, j, TRUE, heard) THEN Unleased(j, 0) ELSE j
    [] j.status = "RUNNING" /\ Lapsed(j, now) ->
         [j EXCEPT !.status = "UNCERTAIN", !.completion = "UNCERTAIN",
                   !.result = Expired, !.token = 0, !.expires = 0]
    [] OTHER -> j

\* One record after expireLocked(now).
Expire(a, j, now, heard) ==
  CASE j.status = "FINALIZING" ->
         IF ~Valid(j, now) /\ MayFinalize(a, j, heard)
         THEN [j EXCEPT !.status = j.completion] ELSE j
    [] j.status = "LEASED" /\ Lapsed(j, now) ->
         IF CredentialTerminal(a, j, TRUE, heard) THEN Unleased(j, 0) ELSE j
    [] j.status = "RUNNING" /\ Lapsed(j, now) ->
         [j EXCEPT !.status = "UNCERTAIN", !.completion = "UNCERTAIN",
                   !.result = Expired, !.token = 0, !.expires = 0]
    [] OTHER -> j

\* The gate answers for the actions in `heard'.
AfterExpiry(now, heard) ==
  [a \in Actions |-> Expire(a, jobs[a], now, a \in heard)]

\* Mutant: a target is free as soon as its run has ended.
TargetActiveUntilResult(js, a) ==
  \E b \in Actions \ {a} :
    js[b].status \in {"LEASED", "RUNNING"} /\ js[b].sub.target = js[a].sub.target

TargetActive(js, a) ==
  \E b \in Actions \ {a} :
    js[b].status \in Active /\ js[b].sub.target = js[a].sub.target

\* Mutant: an uncertain run does not take a slot of its runner.
RunnerActiveIfCertain(js, r) ==
  Cardinality({a \in Actions : js[a].runner = r /\ js[a].status \in Active \ {"UNCERTAIN"}})

RunnerActive(js, r) ==
  Cardinality({a \in Actions : js[a].runner = r /\ js[a].status \in Active})

Claimable(js, a, c, now) ==
  /\ js[a].status = "QUEUED"
  /\ js[a].sub.pool = c.pool
  /\ ~(js[a].sub.pool = "WRITE" /\ js[a].sub.production)
  /\ js[a].notBefore <= now
  /\ Valid(js[a], now)
  /\ js[a].sub.zone \in c.zones
  /\ ~TargetActive(js, a)

\* A lease epoch is left; the last one makes the whole Claim fail.
EpochLeft(j) == j.epoch < MaxEpoch

\* The position Claim picks.  The first claimable record gets a token and is
\* looked at again with a fresh clock; when its envelope ran out meanwhile the
\* loop goes on with the fresh reading.
Picks(js, c, now, i) ==
  LET First(k, t) == \A m \in 1..(k - 1) : ~Claimable(js, order[m], c, t)
      At(k, t) == Claimable(js, order[k], c, t)
  IN \/ At(i, now) /\ First(i, now) /\ Valid(js[order[i]], clock)
     \/ \E k \in 1..(i - 1) :
          /\ At(k, now) /\ First(k, now) /\ ~Valid(js[order[k]], clock)
          /\ EpochLeft(js[order[k]])
          /\ At(i, clock)
          /\ \A m \in (k + 1)..(i - 1) : ~Claimable(js, order[m], c, clock)

-----------------------------------------------------------------------------
(* Operations *)

\* A repeated submission, by identifier or by idempotency key, is answered from
\* the record and changes nothing; a conflicting one is refused.
Submit(s) ==
  /\ jobs[s.id].status = "ABSENT"
  /\ \A a \in Actions : jobs[a].status # "ABSENT" => jobs[a].sub.key # s.key
  /\ jobs' = [jobs EXCEPT ![s.id] = [Blank EXCEPT !.status = "QUEUED", !.sub = s]]
  /\ order' = Append(order, s.id)
  /\ UNCHANGED <<clock, nextToken, cleanup, leases, starts, acks>>

Claim(c, now, heard, dur) ==
  LET js == AfterExpiry(now, heard) IN
  /\ RunnerActive(js, c.runner) < c.max
  /\ \E i \in 1..Len(order) :
       LET a == order[i]
           l == [action |-> a, runner |-> c.runner, epoch |-> js[a].epoch + 1,
                 token |-> nextToken]
       IN
       /\ Picks(js, c, now, i)
       /\ EpochLeft(js[a])
       /\ jobs' = [js EXCEPT ![a] =
            [@ EXCEPT !.status = "LEASED", !.runner = l.runner, !.epoch = l.epoch,
                      !.token = l.token, !.sequence = 0, !.cancel = FALSE,
                      !.expires = Earlier(clock + dur, js[a].sub.expires)]]
       /\ leases' = leases \cup {l}
  /\ nextToken' = nextToken + 1
  /\ UNCHANGED <<order, clock, cleanup, starts, acks>>

Start(l, now) ==
  LET j == jobs[l.action] IN
  /\ Valid(j, now)
  /\ CurrentFence(j, l, now)
  /\ j.status \in {"LEASED", "RUNNING"}
  /\ jobs' = [jobs EXCEPT ![l.action].status = "RUNNING"]
  /\ starts' = starts \cup {l}
  /\ UNCHANGED <<order, clock, nextToken, cleanup, leases, acks>>

\* The next heartbeat in sequence renews the lease unless a cancellation was
\* requested; a repeated one is only answered.
Heartbeat(l, seq, now, ext) ==
  LET j == jobs[l.action] IN
  /\ CurrentFence(j, l, now)
  /\ j.status \in {"LEASED", "RUNNING"}
  /\ Valid(j, now)
  /\ seq = j.sequence + 1
  /\ jobs' = [jobs EXCEPT ![l.action] =
       [@ EXCEPT !.sequence = seq,
                 !.expires = IF j.cancel THEN j.expires ELSE Earlier(now + ext, j.sub.expires)]]
  /\ UNCHANGED <<order, clock, nextToken, cleanup, leases, starts, acks>>

Ack(l, m) == [action |-> l.action, epoch |-> l.epoch, result |-> m]

Complete(l, now, m) ==
  LET j == jobs[l.action] IN
  /\ j.status \notin Terminal \cup {"FINALIZING"}
  /\ CurrentFence(j, l, now)
  /\ j.status = "RUNNING"
  /\ jobs' = [jobs EXCEPT ![l.action] =
       [@ EXCEPT !.status = "FINALIZING", !.completion = m.outcome, !.result = m,
                 !.receipt = TRUE, !.expires = 0, !.token = 0,
                 !.done = [token |-> l.token, epoch |-> l.epoch]]]
  /\ acks' = acks \cup {Ack(l, m)}
  /\ UNCHANGED <<order, clock, nextToken, cleanup, leases, starts>>

\* A completion that arrives again is acknowledged when it repeats the receipt.
ReplayComplete(l, m) ==
  LET j == jobs[l.action] IN
  /\ j.status \in Terminal \cup {"FINALIZING"}
  /\ CompletedFence(j, l)
  /\ j.receipt /\ j.result = m /\ j.completion = m.outcome
  /\ acks' = acks \cup {Ack(l, m)}
  /\ UNCHANGED <<jobs, order, clock, nextToken, cleanup, leases, starts>>

Finalize(l) ==
  LET j == jobs[l.action] IN
  /\ CompletedFence(j, l)
  /\ MayFinalize(l.action, j, TRUE)
  /\ jobs' = [jobs EXCEPT ![l.action].status = j.completion]
  /\ UNCHANGED <<order, clock, nextToken, cleanup, leases, starts, acks>>

Reject(l, now, reason) ==
  LET j == jobs[l.action] IN
  /\ CurrentFence(j, l, now)
  /\ j.status = "LEASED"
  /\ CredentialTerminal(l.action, j, TRUE, TRUE)
  /\ jobs' = [jobs EXCEPT ![l.action] =
       [@ EXCEPT !.status = "FAILED", !.completion = "FAILED", !.result = reason,
                 !.expires = 0, !.token = 0,
                 !.done = [token |-> l.token, epoch |-> l.epoch]]]
  /\ UNCHANGED <<order, clock, nextToken, cleanup, leases, starts, acks>>

Nack(l, now, delay) ==
  LET j == jobs[l.action] IN
  /\ CurrentFence(j, l, now)
  /\ j.status = "LEASED"
  /\ CredentialTerminal(l.action, j, TRUE, TRUE)
  /\ jobs' = [jobs EXCEPT ![l.action] = Unleased(j, now + delay)]
  /\ UNCHANGED <<order, clock, nextToken, cleanup, leases, starts, acks>>

Reconcile(a, now, heard, q) ==
  LET js == AfterExpiry(now, heard) IN
  /\ js[a].reconciled = None
  /\ js[a].status = "UNCERTAIN"
  /\ CredentialTerminal(a, js[a], FALSE, TRUE)
  /\ \A b \in Actions \ {a} : js[b].reconciled # None => js[b].reconciled.id # q.id
  /\ jobs' = [js EXCEPT ![a] = [@ EXCEPT !.status = q.verdict, !.reconciled = q]]
  /\ UNCHANGED <<order, clock, nextToken, cleanup, leases, starts, acks>>

\* Mutant: an action that waits for finalization is cancelled like a queued one.
CancelFinalizing(a, now, heard) ==
  LET js == AfterExpiry(now, heard) IN
  /\ js[a].status \in {"QUEUED", "LEASED", "RUNNING", "FINALIZING"}
  /\ js[a].status \in {"LEASED", "FINALIZING"} => CredentialTerminal(a, js[a], TRUE, TRUE)
  /\ jobs' = [js EXCEPT ![a] =
       IF @.status = "RUNNING" THEN [@ EXCEPT !.cancel = TRUE]
       ELSE [@ EXCEPT !.status = "CANCELLED", !.runner = None, !.token = 0, !.expires = 0]]
  /\ UNCHANGED <<order, clock, nextToken, cleanup, leases, starts, acks>>

\* A run is only asked to stop; a queued or leased action is cancelled.
Cancel(a, now, heard) ==
  LET js == AfterExpiry(now, heard) IN
  /\ js[a].status \in {"QUEUED", "LEASED", "RUNNING"}
  /\ js[a].status = "LEASED" => CredentialTerminal(a, js[a], TRUE, TRUE)
  /\ jobs' = [js EXCEPT ![a] =
       IF @.status = "RUNNING" THEN [@ EXCEPT !.cancel = TRUE]
       ELSE [@ EXCEPT !.status = "CANCELLED", !.runner = None, !.token = 0, !.expires = 0]]
  /\ UNCHANGED <<order, clock, nextToken, cleanup, leases, starts, acks>>

\* SweepExpired, Get, and every call that sweeps first and then fails.
SweepExpired(now, heard) ==
  /\ jobs' = AfterExpiry(now, heard)
  /\ UNCHANGED <<order, clock, nextToken, cleanup, leases, starts, acks>>

Tick ==
  /\ clock < MaxClock
  /\ clock' = clock + 1
  /\ UNCHANGED <<jobs, order, nextToken, cleanup, leases, starts, acks>>

\* The contract of the gate: a record appears for a lease that was issued, and
\* once its cleanup is terminal it stays so.  Only write runners have credentials.
GateMoves(a, ep, g) ==
  /\ ep \in 1..jobs[a].epoch
  /\ jobs[a].sub.pool = "WRITE"
  /\ <<cleanup[a][ep], g>> \in
       {<<"MISSING", "PENDING">>, <<"MISSING", "TERMINAL">>, <<"PENDING", "TERMINAL">>}
  /\ cleanup' = [cleanup EXCEPT ![a][ep] = g]
  /\ UNCHANGED <<jobs, order, clock, nextToken, leases, starts, acks>>

RunnerNext(l, now) ==
  \/ Start(l, now)
  \/ \E seq \in 1..MaxSequence, ext \in Durations : Heartbeat(l, seq, now, ext)
  \/ \E m \in Summaries : Complete(l, now, m)
  \/ \E reason \in Reasons : Reject(l, now, reason)
  \/ \E delay \in Durations : Nack(l, now, delay)

\* The calls that sweep before they do their own work.
SweepingNext(now, heard) ==
  \/ \E c \in Scopes, dur \in Durations : Claim(c, now, heard, dur)
  \/ \E a \in Actions, q \in Reconciliations : Reconcile(a, now, heard, q)
  \/ \E a \in Actions : Cancel(a, now, heard)
  \/ SweepExpired(now, heard)

QueueNext ==
  \/ \E s \in Submissions : Submit(s)
  \/ \E now \in Readings, l \in leases : RunnerNext(l, now)
  \/ \E now \in Readings, heard \in SUBSET Actions : SweepingNext(now, heard)
  \/ \E l \in leases : Finalize(l) \/ \E m \in Summaries : ReplayComplete(l, m)

Next ==
  \/ QueueNext
  \/ Tick
  \/ \E a \in Actions, ep \in 1..MaxEpoch, g \in Gate : GateMoves(a, ep, g)

Spec == Init /\ [][Next]_vars

-----------------------------------------------------------------------------
(* Properties *)

TypeOK ==
  /\ jobs \in [Actions -> Job]
  /\ order \in Seq(Actions)
  /\ clock \in Nat \ {0} /\ nextToken \in Nat \ {0}
  /\ cleanup \in [Actions -> [1..MaxEpoch -> Gate]]
  /\ leases \subseteq Lease /\ starts \subseteq Lease
  /\ acks \subseteq [action : Actions, epoch : 1..MaxEpoch, result : Summaries]

\* At most one action holds a target, from its lease to the end of finalization
\* and for as long as its outcome is uncertain.
TargetExclusive ==
  \A a, b \in Actions :
    a # b /\ jobs[a].status \in Active /\ jobs[b].status \in Active
      => jobs[a].sub.target # jobs[b].sub.target

\* No action is started under two leases.
StartedOnce == \A k, l \in starts : k.action = l.action => k = l

\* What a runner was told is recorded is what the action ends with, whoever
\* finalizes it; only the reconciliation of an uncertain outcome replaces it.
AckedResultKept ==
  \A k \in acks :
    LET j == jobs[k.action] IN
    /\ j.result = k.result
    /\ \/ j.status \in {"FINALIZING", k.result.outcome}
       \/ k.result.outcome = "UNCERTAIN" /\ j.reconciled # None

PhaseOf(st) ==
  CASE st = "ABSENT" -> "absent"
    [] st = "QUEUED" -> "waiting"
    [] st = "LEASED" -> "held"
    [] st \in {"RUNNING", "FINALIZING", "UNCERTAIN"} -> "running"
    [] OTHER -> "done"

Abstract ==
  INSTANCE ExclusiveRun
    WITH Works <- Actions, Targets <- Targets \cup {None},
         phase <- [a \in Actions |-> PhaseOf(jobs[a].status)],
         target <- [a \in Actions |-> IF jobs[a].sub = None THEN None ELSE jobs[a].sub.target]

\* Every behaviour of the queue, seen through the statuses of its jobs, is a
\* behaviour of the abstract queue: finalization, late results and
\* reconciliation included, a job that ran never waits again and its target is
\* never shared.
ImplementsExclusiveRun == Abstract!Spec

\* The target of a write that was started is given back only in a state in
\* which the credential of that run is cleaned up for good.
ReleaseNeedsCleanup ==
  \A l \in starts :
    /\ jobs[l.action].sub.pool = "WRITE"
    /\ jobs[l.action].status \in Active
    /\ jobs'[l.action].status \notin Active
    => cleanup[l.action][l.epoch] = "TERMINAL"

\* A lease that ends without a run never leaves a credential in the making
\* behind: an action is queued, or claimed again by the call that swept it, only
\* when nothing of the last lease is pending.
RequeueNeedsCleanup ==
  \A a \in Actions :
    /\ jobs[a].status = "LEASED" /\ jobs[a].sub.pool = "WRITE"
    /\ jobs'[a].status = "QUEUED" \/ jobs'[a].epoch # jobs[a].epoch
    => cleanup[a][jobs[a].epoch] # "PENDING"

\* Credentials end before targets are given back: after a run for good, before
\* one unless there never was a record (requireCredentialTerminal).
CleanupFirst == [][ReleaseNeedsCleanup /\ RequeueNeedsCleanup]_vars

\* The actions that take a slot of runner r.
Held(r) == {a \in Actions : jobs[a].runner = r /\ jobs[a].status \in Active}

\* A runner never holds more actions than a scope it claims with allows, those
\* with an uncertain outcome included.
WithinConcurrency ==
  \A r \in Runners :
    Held(r) # {} => \E c \in Scopes : c.runner = r /\ Cardinality(Held(r)) <= c.max

=============================================================================
