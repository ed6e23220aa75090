--------------------------- MODULE WriteExecution ---------------------------
(***************************************************************************)
(* The write path put together: the action queue (ActionQueue) and the     *)
(* credential ledger with its brokers, workers and Vault                   *)
(* (CredentialIssuance).  Each is the other's environment:                 *)
(*   - the queue's CredentialFinalizationGate is the ledger's              *)
(*     InspectCleanup;                                                     *)
(*   - the ledger's AtomicActionFenceSource is the queue: the lease,       *)
(*     status and cancellation of an action.                               *)
(* Both parts were specified against a contract of the other; here the     *)
(* contracts are properties.  The parts are taken from the modules with    *)
(* their proofs, so that what holds of a part can be cited of the whole.   *)
(***************************************************************************)
EXTENDS Integers, Sequences, FiniteSets

CONSTANTS
  Actions, Targets, Runners, Submissions, Scopes, Summaries, Reasons,
  Reconciliations, Durations, MaxClock, MaxLag, MaxEpoch, MaxSequence, Expired,
  Ids, Workers, Subjects, Admins, Evidence, Lifetimes, CredentialTTL,
  Reserve, CreateBudget, RemoteTimeout, PrepareWindow, PostWindow,
  Quantum, MinTTL, PreparedGrace, AnchorGrace, ClaimLease, RetryDelays,
  MaxAttempts, MaxElapsed, MaxClaims, MaxTickets, None

ASSUME QueueConstants ==
  /\ \A s \in Submissions :
       /\ s.id \in Actions /\ s.target \in Targets
       /\ s.production \in BOOLEAN /\ s.expires \in Nat \ {0}
  /\ \A c \in Scopes : c.runner \in Runners /\ c.pool \in {"READ", "WRITE"} /\ c.max \in Nat
  /\ \A m \in Summaries : m.outcome \in {"SUCCEEDED", "FAILED", "UNCERTAIN"}
  /\ \A q \in Reconciliations : q.verdict \in {"SUCCEEDED", "FAILED"}
  /\ IsFiniteSet(Actions)
  /\ Durations \subseteq Nat \ {0}
  /\ MaxClock \in Nat \ {0} /\ MaxLag \in Nat /\ MaxSequence \in Nat
  /\ MaxEpoch \in Nat \ {0}
  /\ None \notin Runners \cup Summaries \cup Reasons \cup Reconciliations \cup Submissions
  /\ Expired \notin Summaries \cup Reasons

ASSUME LedgerConstants ==
  /\ Admins \subseteq Subjects
  /\ Lifetimes \subseteq Nat \ {0} /\ RetryDelays \subseteq Nat \ {0}
  /\ {CredentialTTL, Reserve, PrepareWindow, PostWindow, PreparedGrace, AnchorGrace,
      MaxElapsed, MaxTickets, CreateBudget, RemoteTimeout} \subseteq Nat
  /\ {Quantum, MinTTL, ClaimLease, MaxAttempts, MaxClaims} \subseteq Nat \ {0}
  /\ None \notin Actions \cup Workers \cup Evidence
  /\ CreateBudget <= Reserve

\* Only the actions of the write pool have credentials; those are the ones here.
ASSUME WritesOnly == \A s \in Submissions : s.pool = "WRITE"

VARIABLES clock, jobs, order, nextToken, leases, starts, acks,
          tickets, records, broker, child, work,
          cleanup  \* always Cleanup, the answers of the ledger

queueOwn == <<jobs, order, nextToken, leases, starts, acks>>
ledgerOwn == <<tickets, records, broker, child, work>>
vars == <<clock, queueOwn, ledgerOwn, cleanup>>

\* What the queue tells the ledger of an action (ActionMetadata).
ViewOf(j) ==
  [status |-> IF j.status \in {"LEASED", "RUNNING"} THEN j.status
              ELSE IF j.status \in {"ABSENT", "QUEUED"} THEN "QUEUED" ELSE "OVER",
   epoch |-> j.epoch,
   expires |-> j.expires,
   auth |-> IF j.epoch = 0 THEN 0 ELSE j.sub.expires,
   barred |-> j.cancel]

Ledger ==
  INSTANCE CredentialProofs
    WITH LeaseTimes <- Durations, AuthTimes <- {s.expires : s \in Submissions},
         actions <- [a \in Actions |-> ViewOf(jobs[a])]

\* What the ledger answers the queue for every lease of every action.
Cleanup == [a \in Actions |-> [e \in 1..MaxEpoch |-> Ledger!CleanupState(a, e)]]

Queue == INSTANCE ActionQueueProofs

Init ==
  /\ clock = 1
  /\ jobs = [a \in Actions |-> Queue!Blank]
  /\ order = <<>> /\ nextToken = 1 /\ leases = {} /\ starts = {} /\ acks = {}
  /\ tickets = {}
  /\ records = [i \in Ids |-> Ledger!Absent]
  /\ broker = [i \in Ids |-> "none"]
  /\ child = [i \in Ids |-> Ledger!NoChild]
  /\ work = [w \in Workers |-> Ledger!Idle]
  /\ cleanup = Cleanup

QueueStep == UNCHANGED ledgerOwn /\ Queue!QueueNext

LedgerStep ==
  /\ UNCHANGED queueOwn
  /\ \/ \E i \in Ids : Ledger!VaultCreates(i)
     \/ \E now \in Ledger!Readings :
          \/ Ledger!BrokerNext(now)
          \/ \E w \in Workers : Ledger!WorkerNext(w, now)
          \/ Ledger!OperatorMoves(now) /\ UNCHANGED <<broker, child, work>>
  /\ cleanup' = Cleanup'

Next ==
  \/ QueueStep
  \/ LedgerStep
  \/ Queue!Tick /\ UNCHANGED ledgerOwn

Spec == Init /\ [][Next]_vars

\* Time passes; somebody polls the queue, which sweeps first; and a revocation
\* worker runs RunOnce again and again.  Runners, brokers and operators owe nothing.
Recording(step) == UNCHANGED queueOwn /\ step /\ cleanup' = Cleanup'

Fairness ==
  /\ WF_vars(UNCHANGED ledgerOwn /\ Queue!Tick)
  /\ WF_vars(UNCHANGED ledgerOwn /\ Queue!SweepExpired(clock, Actions))
  /\ \A w \in Workers, i \in Ids :
       /\ WF_vars(Recording(Ledger!WorkerRecoversPrepared(w, i, clock)))
       /\ WF_vars(Recording(Ledger!WorkerRecoversManaged(w, i, clock)))
       /\ WF_vars(Recording(Ledger!WorkerRecoversExhausted(w, i, clock)))
       /\ WF_vars(Recording(Ledger!WorkerClaims(w, i, clock)))
  /\ \A w \in Workers :
       WF_vars(Recording(\/ Ledger!WorkerCompletes(w, clock) \/ Ledger!WorkerFails(w, clock)
                         \/ Ledger!WorkerDefers(w)))

FairSpec == Spec /\ Fairness

-----------------------------------------------------------------------------
(* Properties *)

\* The child of record i can be used, and nobody vouched that it is gone.
Armed(i) == Ledger!Live(i) /\ ~Ledger!Vouched(i)

\* While a child token can be used, its action holds the target under the
\* lease the token was issued for, whoever crashed: every way to leave the
\* active statuses waits for the ledger.
LiveChildHoldsTarget ==
  \A i \in Ids : Armed(i) =>
    /\ jobs[records[i].action].status \in Queue!Active
    /\ jobs[records[i].action].epoch = records[i].epoch

\* The purpose of it all: no action is handed out, or runs, against a target
\* that a token of another action can still change.
NoSecondWriter ==
  \A i \in Ids, b \in Actions :
    /\ Armed(i)
    /\ b # records[i].action
    /\ jobs[b].status \in Queue!Active
    => jobs[b].sub.target # jobs[records[i].action].sub.target

\* The ledger keeps the contract under which ActionQueue was checked: the
\* answers of InspectCleanup move forward only, and only for issued leases.
QueueContract == Queue!Spec

\* The queue keeps the contract under which CredentialIssuance was checked:
\* the leases of an action follow one another, with growing epochs.
LedgerContract == Ledger!Spec

\* Queue and ledger are each the environment the other was specified against
\* (CredentialFinalizationGate, AtomicActionFenceSource).
ContractsHold == QueueContract /\ LedgerContract

\* The retry cycle of record i does not fit in the modelled time.
ClockRunsOut(i) == records[i].cycleAt + MaxElapsed + RemoteTimeout + ClaimLease > MaxClock

\* Wherever a runner stops, a write does not hold its target for ever without
\* anybody being told: its lease ends, its result becomes final, its outcome is
\* recorded as uncertain, or its credential is handed to people (expireLocked,
\* RecoverPrepared, RecoverManaged, RecoverExhausted).  Only a result without any
\* record of a credential waits (requireCredentialTerminal).
TargetComesBack ==
  \A a \in Actions :
    jobs[a].status \in {"LEASED", "RUNNING", "FINALIZING"} ~>
      \/ jobs[a].status \notin {"LEASED", "RUNNING", "FINALIZING"}
      \/ jobs[a].status = "FINALIZING" /\ cleanup[a][jobs[a].epoch] = "MISSING"
      \/ \E i \in Ids : records[i].status = "MANUAL_REQUIRED" \/ ClockRunsOut(i)

-----------------------------------------------------------------------------
(* An instance: one write, one slot of one runner, one outcome of each kind. *)

OneWrite ==
  {[id |-> a, key |-> "k1", semantics |-> "s", target |-> t, pool |-> "WRITE",
    production |-> FALSE, zone |-> "z", expires |-> 4] : a \in Actions, t \in Targets}
OneSlot == {[runner |-> r, pool |-> "WRITE", max |-> 1, zones |-> {"z"}] : r \in Runners}
OneSuccess == {[outcome |-> "SUCCEEDED", code |-> "x"]}
OneVerdict == {[id |-> "c1", actor |-> "o", verdict |-> "FAILED", digest |-> "d"]}
=============================================================================
