--------------------------- MODULE ExecutionLease ---------------------------
(***************************************************************************)
(* The in-memory execution lease repository,                               *)
(* internal/executionlease/memory.go: a FIFO of executions that runners    *)
(* claim under a time-limited, fenced lease.  Every exported method reads  *)
(* the clock BEFORE it takes the mutex, so the time a method works with    *)
(* may be older than the state it finds; the body under the mutex is one   *)
(* atomic step here.                                                       *)
(*                                                                         *)
(* Runners are modelled by the leases they have been handed: any lease     *)
(* ever issued may be presented again at any later time, which covers a    *)
(* paused runner, a request delayed in the network and a retry of a call   *)
(* whose answer was lost.                                                  *)
(***************************************************************************)
EXTENDS Values, Naturals, Sequences

CONSTANTS
  Executions,        \* execution identifiers
  Targets,           \* target keys
  Runners,           \* runner identifiers
  Results,           \* result hashes
  ReconciliationIds, \* reconciliation identifiers
  Actors,            \* operators that reconcile
  Requests,          \* the enqueue requests clients may send
  Durations,         \* lease durations and heartbeat extensions, in ticks
  MaxClock,          \* bound on the clock
  MaxLag,            \* bound on how long a call waits for the mutex
  MaxTokens,         \* bound on the number of claims
  MaxEpoch           \* the largest lease epoch (math.MaxInt64 in the code)

Pools == {"READ", "WRITE"}
Completions == {"SUCCEEDED", "FAILED", "UNCERTAIN"}
Verdicts == {"SUCCEEDED", "FAILED"}
\* The statuses terminalStatus accepts.
Terminal == {"SUCCEEDED", "FAILED", "CANCELLED", "UNCERTAIN"}
\* The statuses that make a target unavailable to another execution.
Holding == {"LEASED", "RUNNING", "UNCERTAIN"}
Statuses == {"ABSENT", "QUEUED"} \cup Holding \cup Terminal

Request == [id : Executions, target : Targets, pool : Pools, production : BOOLEAN]

ASSUME ConstantsOK ==
  /\ Requests \subseteq Request
  /\ Durations \subseteq Nat \ {0}
  /\ MaxClock \in Nat /\ MaxLag \in Nat /\ MaxTokens \in Nat
  /\ MaxEpoch \in Nat \ {0}
  /\ None \notin Runners \cup Results \cup ReconciliationIds \cup Actors \cup Targets

VARIABLES
  executions,   \* the map of executions; "ABSENT" is a missing key
  leaseFences,  \* the map of lease fences; NoFence is a missing key
  order,        \* execution identifiers in the order they were enqueued
  clock,        \* the wall clock
  nextToken,    \* the next value of the token source
  leases,       \* every lease identity ever handed to a runner
  starts,       \* history: the leases whose Start was answered with success
  acks          \* history: the completions that were answered with success

vars == <<executions, leaseFences, order, clock, nextToken, leases, starts, acks>>

Execution ==
  [status : Statuses, target : Targets \cup {None}, pool : Pools \cup {None},
   production : BOOLEAN, runner : Runners \cup {None}, epoch : 0..MaxEpoch,
   expires : Nat, result : Results \cup {None},
   reconciliation : ReconciliationIds \cup {None},
   actor : Actors \cup {None}, verdict : Results \cup {None}]

Fence == [runner : Runners, epoch : 1..MaxEpoch, token : Nat]
NoFence == [runner |-> None, epoch |-> 0, token |-> 0]
Lease == [execution : Executions, runner : Runners, epoch : 1..MaxEpoch, token : Nat]
Ack == [execution : Executions, epoch : 1..MaxEpoch, status : Completions, result : Results]

Absent ==
  [status |-> "ABSENT", target |-> None, pool |-> None, production |-> FALSE,
   runner |-> None, epoch |-> 0, expires |-> 0, result |-> None,
   reconciliation |-> None, actor |-> None, verdict |-> None]

Init ==
  /\ executions = [e \in Executions |-> Absent]
  /\ leaseFences = [e \in Executions |-> NoFence]
  /\ order = <<>>
  /\ clock = 1
  /\ nextToken = 1
  /\ leases = {} /\ starts = {} /\ acks = {}

-----------------------------------------------------------------------------
(* Time and leases *)

\* The times a call may have read before it got the mutex.
Readings == {t \in 1..clock : clock <= t + MaxLag}

Lapsed(x, now) ==
  /\ x.expires # 0
  /\ x.expires <= now
  /\ x.status \in {"LEASED", "RUNNING"}

\* Mutant: an expired run goes back to the queue like an expired lease.
ExpireRequeuesRuns(x, now) ==
  IF Lapsed(x, now)
  THEN [x EXCEPT !.status = "QUEUED", !.runner = None, !.expires = 0]
  ELSE x

\* One execution after expireLeases(now).
Expire(x, now) ==
  IF ~Lapsed(x, now) THEN x
  ELSE IF x.status = "LEASED"
       THEN [x EXCEPT !.status = "QUEUED", !.runner = None, !.expires = 0]
       ELSE [x EXCEPT !.status = "UNCERTAIN", !.expires = 0]

AfterExpiry(now) == [e \in Executions |-> Expire(executions[e], now)]

FencesAfterExpiry(now) ==
  [e \in Executions |->
     IF Lapsed(executions[e], now) THEN NoFence ELSE leaseFences[e]]

Matches(f, l) == f.runner = l.runner /\ f.epoch = l.epoch /\ f.token = l.token

CurrentLease(l, now) ==
  LET x == executions[l.execution] IN
  /\ l.runner = x.runner
  /\ Matches(leaseFences[l.execution], l)
  /\ l.epoch = x.epoch
  /\ x.status \in {"LEASED", "RUNNING"}
  /\ now < x.expires

\* Mutant: an execution whose outcome is unknown does not hold its target.
TargetUnavailableUnlessUncertain(xs, e) ==
  \E d \in Executions \ {e} :
    xs[d].target = xs[e].target /\ xs[d].status \in Holding \ {"UNCERTAIN"}

TargetUnavailable(xs, e) ==
  \E d \in Executions \ {e} :
    xs[d].target = xs[e].target /\ xs[d].status \in Holding

Claimable(xs, e, pool) ==
  /\ xs[e].status = "QUEUED"
  /\ xs[e].pool = pool
  /\ ~TargetUnavailable(xs, e)
  /\ ~(xs[e].pool = "WRITE" /\ xs[e].production)

-----------------------------------------------------------------------------
(* Operations *)

Enqueue(q) ==
  /\ executions[q.id].status = "ABSENT"
  /\ executions' = [executions EXCEPT ![q.id] =
       [Absent EXCEPT !.status = "QUEUED", !.target = q.target,
                      !.pool = q.pool, !.production = q.production]]
  /\ order' = Append(order, q.id)
  /\ UNCHANGED <<leaseFences, clock, nextToken, leases, starts, acks>>

\* Expired leases are collected first; the first claimable execution in the
\* order of enqueueing is leased.  When that one has exhausted its epochs the
\* call fails: later executions are not tried.
Claim(pool, r, now, dur) ==
  LET xs == AfterExpiry(now) IN
  /\ nextToken <= MaxTokens
  /\ \E i \in 1..Len(order) :
       LET e == order[i]
           ep == xs[e].epoch + 1
       IN
       /\ Claimable(xs, e, pool)
       /\ \A j \in 1..(i - 1) : ~Claimable(xs, order[j], pool)
       /\ xs[e].epoch < MaxEpoch
       /\ executions' = [xs EXCEPT ![e] =
            [@ EXCEPT !.status = "LEASED", !.runner = r, !.epoch = ep,
                      !.expires = now + dur]]
       /\ leaseFences' = [FencesAfterExpiry(now) EXCEPT ![e] =
            [runner |-> r, epoch |-> ep, token |-> nextToken]]
       /\ leases' = leases \cup
            {[execution |-> e, runner |-> r, epoch |-> ep, token |-> nextToken]}
  /\ nextToken' = nextToken + 1
  /\ UNCHANGED <<order, clock, starts, acks>>

\* SweepExpired, Get, and a Claim that finds nothing or is blocked.
SweepExpired(now) ==
  /\ executions' = AfterExpiry(now)
  /\ leaseFences' = FencesAfterExpiry(now)
  /\ UNCHANGED <<order, clock, nextToken, leases, starts, acks>>

Start(l, now) ==
  /\ CurrentLease(l, now)
  /\ executions' = [executions EXCEPT ![l.execution].status = "RUNNING"]
  /\ starts' = starts \cup {l}
  /\ UNCHANGED <<leaseFences, order, clock, nextToken, leases, acks>>

Heartbeat(l, now, ext) ==
  /\ CurrentLease(l, now)
  /\ executions' = [executions EXCEPT ![l.execution].expires = now + ext]
  /\ UNCHANGED <<leaseFences, order, clock, nextToken, leases, starts, acks>>

\* A first completion of a running execution.
Complete(l, now, st, res) ==
  /\ executions[l.execution].status \notin Terminal
  /\ CurrentLease(l, now)
  /\ executions[l.execution].status = "RUNNING"
  /\ executions' = [executions EXCEPT ![l.execution] =
       [@ EXCEPT !.status = st, !.result = res, !.expires = 0]]
  /\ acks' = acks \cup
       {[execution |-> l.execution, epoch |-> l.epoch, status |-> st, result |-> res]}
  /\ UNCHANGED <<leaseFences, order, clock, nextToken, leases, starts>>

\* A completion of an execution that is already terminal is answered with
\* success when it repeats what was recorded under the same fence.
ReplayComplete(l, st, res) ==
  LET x == executions[l.execution] IN
  /\ x.status \in Terminal
  /\ x.reconciliation = None
  /\ leaseFences[l.execution] # NoFence
  /\ Matches(leaseFences[l.execution], l)
  /\ x.status = st /\ x.result = res
  /\ acks' = acks \cup
       {[execution |-> l.execution, epoch |-> l.epoch, status |-> st, result |-> res]}
  /\ UNCHANGED <<executions, leaseFences, order, clock, nextToken, leases, starts>>

Reconcile(e, now, id, actor, verdict, res) ==
  LET xs == AfterExpiry(now) IN
  /\ xs[e].reconciliation = None
  /\ xs[e].status = "UNCERTAIN"
  /\ \A d \in Executions \ {e} : xs[d].reconciliation # id
  /\ executions' = [xs EXCEPT ![e] =
       [@ EXCEPT !.status = verdict, !.verdict = res,
                 !.reconciliation = id, !.actor = actor]]
  /\ leaseFences' = [FencesAfterExpiry(now) EXCEPT ![e] = NoFence]
  /\ UNCHANGED <<order, clock, nextToken, leases, starts, acks>>

\* Mutant: no early return for a terminal execution, and the fence is blanked
\* in place instead of being deleted.
CancelAnyStatus(e) ==
  /\ executions[e].status # "ABSENT"
  /\ executions' = [executions EXCEPT ![e] =
       IF @.status = "RUNNING"
       THEN [@ EXCEPT !.status = "UNCERTAIN", !.expires = 0]
       ELSE [@ EXCEPT !.status = "CANCELLED", !.runner = None, !.expires = 0]]
  /\ leaseFences' = [leaseFences EXCEPT ![e].runner = None]
  /\ UNCHANGED <<order, clock, nextToken, leases, starts, acks>>

\* Mutant: a running execution is cancelled like a queued one.
CancelRunning(e) ==
  /\ executions[e].status \notin Terminal \cup {"ABSENT"}
  /\ executions' = [executions EXCEPT ![e] =
       [@ EXCEPT !.status = "CANCELLED", !.runner = None, !.expires = 0]]
  /\ leaseFences' = [leaseFences EXCEPT ![e] = NoFence]
  /\ UNCHANGED <<order, clock, nextToken, leases, starts, acks>>

\* Cancel does not collect expired leases.
Cancel(e) ==
  /\ executions[e].status \notin Terminal \cup {"ABSENT"}
  /\ executions' = [executions EXCEPT ![e] =
       IF @.status = "RUNNING"
       THEN [@ EXCEPT !.status = "UNCERTAIN", !.expires = 0]
       ELSE [@ EXCEPT !.status = "CANCELLED", !.runner = None, !.expires = 0]]
  /\ leaseFences' = [leaseFences EXCEPT ![e] = NoFence]
  /\ UNCHANGED <<order, clock, nextToken, leases, starts, acks>>

Tick ==
  /\ clock < MaxClock
  /\ clock' = clock + 1
  /\ UNCHANGED <<executions, leaseFences, order, nextToken, leases, starts, acks>>

Next ==
  \/ \E q \in Requests : Enqueue(q)
  \/ \E now \in Readings :
       \/ \E pool \in Pools, r \in Runners, dur \in Durations : Claim(pool, r, now, dur)
       \/ SweepExpired(now)
       \/ \E l \in leases :
            \/ Start(l, now)
            \/ \E ext \in Durations : Heartbeat(l, now, ext)
            \/ \E st \in Completions, res \in Results : Complete(l, now, st, res)
       \/ \E e \in Executions, id \in ReconciliationIds, actor \in Actors,
             verdict \in Verdicts, res \in Results :
            Reconcile(e, now, id, actor, verdict, res)
  \/ \E l \in leases, st \in Completions, res \in Results : ReplayComplete(l, st, res)
  \/ \E e \in Executions : Cancel(e)
  \/ Tick

Spec == Init /\ [][Next]_vars

-----------------------------------------------------------------------------
(* Properties *)

TypeOK ==
  /\ executions \in [Executions -> Execution]
  /\ leaseFences \in [Executions -> Fence \cup {NoFence}]
  /\ order \in Seq(Executions)
  /\ clock \in Nat \ {0} /\ nextToken \in Nat \ {0}
  /\ leases \subseteq Lease
  /\ starts \subseteq Lease
  /\ acks \subseteq Ack

\* At most one execution of a target is leased, running or uncertain, however
\* claims, expiries, completions, cancellations and reconciliations interleave
\* (targetUnavailable is evaluated on the state after expireLeases).
TargetExclusive ==
  \A d, e \in Executions :
    d # e /\ executions[d].status \in Holding /\ executions[e].status \in Holding
      => executions[d].target # executions[e].target

\* An execution is started under one lease only: once a runner was told it may
\* run, the execution is never handed to another one, whatever expires.
StartedOnce ==
  \A k, l \in starts : k.execution = l.execution => k = l

\* A run that started never vanishes without an outcome: its target stays held
\* until the runner's completion was acknowledged or an operator reconciled it
\* (Cancel and expireLeases turn a running execution into an uncertain one).
StartedRunAccounted ==
  \A l \in starts :
    LET x == executions[l.execution] IN
    \/ x.status \in Holding
    \/ x.reconciliation # None
    \/ \E a \in acks : a.execution = l.execution /\ a.epoch = l.epoch

\* What a runner was told is recorded stays recorded, and no two runners or
\* retries are told different outcomes; only a reconciliation replaces it.
AckedResultKept ==
  \A a \in acks :
    LET x == executions[a.execution] IN
    /\ x.result = a.result
    /\ x.status = a.status \/ (a.status = "UNCERTAIN" /\ x.reconciliation # None)

-----------------------------------------------------------------------------
(* The abstract queue this repository implements *)

PhaseOf(st) ==
  CASE st = "ABSENT" -> "absent"
    [] st = "QUEUED" -> "waiting"
    [] st = "LEASED" -> "held"
    [] st \in {"RUNNING", "UNCERTAIN"} -> "running"
    [] OTHER -> "done"

Abstract ==
  INSTANCE ExclusiveRun
    WITH Works <- Executions, Targets <- Targets \cup {None},
         phase <- [e \in Executions |-> PhaseOf(executions[e].status)],
         target <- [e \in Executions |-> executions[e].target]

\* Every behaviour of the repository, seen through the statuses of its
\* executions, is a behaviour of the abstract queue; a run that is cancelled or
\* expires keeps its target until its outcome is settled.
ImplementsExclusiveRun == Abstract!Spec

-----------------------------------------------------------------------------
(* The inductive invariant behind StartedOnce, AckedResultKept and           *)
(* StartedRunAccounted.  TargetExclusive is inductive on its own.            *)

\* Epochs fence: a lease is named by its execution and epoch, the epoch of an
\* execution is never behind a lease issued for it.
LeasesFenced ==
  /\ \A l \in leases : l.epoch <= executions[l.execution].epoch
  /\ \A k, l \in leases :
       k.execution = l.execution /\ k.epoch = l.epoch => k = l

\* A started execution stays at the epoch it was started with and never goes
\* back to the queue.
StartedStays ==
  /\ starts \subseteq leases
  /\ \A l \in starts :
       /\ executions[l.execution].epoch = l.epoch
       /\ executions[l.execution].status \in {"RUNNING"} \cup Terminal

\* An acknowledged completion is the last one of its execution.
AckedStays ==
  \A a \in acks :
    LET x == executions[a.execution] IN
    /\ x.epoch = a.epoch
    /\ x.status \in Terminal
    /\ x.result = a.result
    /\ x.status = a.status \/ (a.status = "UNCERTAIN" /\ x.reconciliation # None)

\* A missing key holds nothing of an earlier execution.
AbsentBlank ==
  \A e \in Executions : executions[e].status = "ABSENT" => executions[e] = Absent

\* A fence that is kept is the fence of the latest lease.
FenceCurrent ==
  \A e \in Executions :
    leaseFences[e] # NoFence => leaseFences[e].epoch = executions[e].epoch

IInv ==
  /\ TypeOK
  /\ FenceCurrent
  /\ AbsentBlank
  /\ LeasesFenced
  /\ StartedStays
  /\ AckedStays
  /\ StartedRunAccounted
=============================================================================
