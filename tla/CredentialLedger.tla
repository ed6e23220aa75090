-------------------------- MODULE CredentialLedger --------------------------
(***************************************************************************)
(* The in-memory revocation ledger, internal/credential/memory.go: one     *)
(* record for every credential a runner may be given, from the intent to   *)
(* issue it to the proof that it is gone.                                  *)
(*                                                                         *)
(* The ledger consults an action source (the queue) for the lease that     *)
(* authorises a record; the source is the variable actions here.  Three    *)
(* operations inspect it under its own lock (withLockedActionInspection),  *)
(* so that inspection and update are one step.  Prepare and the fenced     *)
(* transitions resolve the action BEFORE they take the ledger's mutex:     *)
(* that is two steps, with a ticket in between.                            *)
(*                                                                         *)
(* A claim of an action draws a fresh epoch, token and runner together,    *)
(* and so does a claim of a revocation with its worker: comparing epochs   *)
(* compares them all.  Times are ticks; 0 is the zero time.Time.           *)
(***************************************************************************)
EXTENDS Values, Integers, FiniteSets

CONSTANTS
  Ids,            \* revocation identifiers
  Actions,        \* action identifiers
  Workers,        \* revocation workers
  Subjects,       \* operators
  Admins,         \* the operators that are platform administrators
  Evidence,       \* evidence hashes
  LeaseTimes,     \* the durations of action leases
  Lifetimes,      \* the credential lifetimes a Prepare may ask for
  CredentialTTL,  \* the signed lifetime of an action's credential
  AuthTimes,      \* when the authorization of an action may expire
  Reserve,        \* ChildCreateExpiryReserve
  PrepareWindow,  \* MinPrepareFenceWindow
  PostWindow,     \* MinPostChildFenceWindow
  Quantum,        \* VaultTTLQuantum
  MinTTL,         \* MinChildCreateTTL
  PreparedGrace,  \* PreparedRecoveryGrace
  AnchorGrace,    \* ManagedAnchorRecoveryGrace
  ClaimLease,     \* RevocationClaimLease
  RetryDelays,    \* the delays a retry may ask for
  MaxAttempts,    \* MaxRevocationAttempts
  MaxElapsed,     \* MaxRevocationElapsed
  MaxClaims,      \* the largest claim epoch (math.MaxInt64 in the code)
  MaxEpoch,       \* bound on the leases of an action
  MaxTickets,     \* bound on the calls between resolution and mutex
  MaxClock,       \* bound on the clock
  MaxLag          \* bound on how long a call waits for the mutex

ASSUME LedgerConstants ==
  /\ Admins \subseteq Subjects
  /\ LeaseTimes \subseteq Nat \ {0} /\ Lifetimes \subseteq Nat \ {0} /\ AuthTimes \subseteq Nat
  /\ RetryDelays \subseteq Nat \ {0}
  /\ {CredentialTTL, Reserve, PrepareWindow, PostWindow,
      PreparedGrace, AnchorGrace, MaxElapsed, MaxEpoch, MaxTickets,
      MaxClock, MaxLag} \subseteq Nat
  /\ {Quantum, MinTTL, ClaimLease, MaxAttempts, MaxClaims} \subseteq Nat \ {0}
  /\ None \notin Actions \cup Workers \cup Evidence

Statuses == {"ABSENT", "PREPARED", "ANCHORED", "ACTIVE", "REVOCATION_PENDING",
             "REVOKING", "MANUAL_REQUIRED", "REVOKED", "NO_CREDENTIAL"}
\* The statuses in which the credential may be in use.
Managed == {"ANCHORED", "ACTIVE"}
\* The statuses from which a revocation has been asked for.
Requested == {"REVOCATION_PENDING", "REVOKING", "MANUAL_REQUIRED", "REVOKED"}
Terminal == {"REVOKED", "NO_CREDENTIAL"}

VARIABLES
  clock,    \* the wall clock
  actions,  \* the leases of the actions, as the action source answers
  tickets,  \* calls that have resolved their action and await the mutex
  records   \* the ledger; "ABSENT" is a missing key

ledgerVars == <<clock, actions, tickets, records>>

ActionView ==
  [status : {"QUEUED", "LEASED", "RUNNING", "OVER"}, epoch : 0..MaxEpoch,
   expires : Nat, auth : Nat, barred : BOOLEAN]

Record ==
  [status : Statuses, action : Actions \cup {None}, epoch : 0..MaxEpoch,
   expires : Nat, authorizedAt : Nat, ttl : Nat, anchoredAt : Nat,
   availableAt : Nat, cycleAt : Nat, base : 0..MaxClaims,
   worker : Workers \cup {None}, claimEpoch : 0..MaxClaims, claimExpires : Nat,
   completed : 0..MaxClaims, evidence : Evidence \cup {None},
   confirmations : SUBSET Subjects]

Ticket ==
  [kind : {"prepare", "nothing"}, id : Ids, action : Actions,
   epoch : 1..MaxEpoch, expires : Nat]

Absent ==
  [status |-> "ABSENT", action |-> None, epoch |-> 0, expires |-> 0,
   authorizedAt |-> 0, ttl |-> 0, anchoredAt |-> 0, availableAt |-> 0,
   cycleAt |-> 0, base |-> 0, worker |-> None, claimEpoch |-> 0,
   claimExpires |-> 0, completed |-> 0, evidence |-> None, confirmations |-> {}]

LedgerInit ==
  /\ clock = 1
  /\ actions = [a \in Actions |->
       [status |-> "QUEUED", epoch |-> 0, expires |-> 0,
        auth |-> 0, barred |-> FALSE]]
  /\ tickets = {}
  /\ records = [i \in Ids |-> Absent]

\* The times a call may have read before it got the mutex.
Readings == {t \in 1..clock : clock <= t + MaxLag}

Put(i, r) ==
  /\ records' = [records EXCEPT ![i] = r]
  /\ UNCHANGED <<clock, actions>>

-----------------------------------------------------------------------------
(* The action source.  Its own behaviour is ActionQueue; here it is any    *)
(* history of leases whose epochs grow.                                    *)

\* A lease that ends before its run goes back to the queue; a run that ends is over.
Ended(v) ==
  CASE v.status = "LEASED" -> [v EXCEPT !.status = "QUEUED", !.expires = 0, !.barred = FALSE]
    [] v.status = "RUNNING" -> [v EXCEPT !.status = "OVER", !.expires = 0]
    [] OTHER -> v

\* Most calls at the source first sweep the leases that have lapsed.
Swept(lapsed) == [a \in Actions |-> IF a \in lapsed THEN Ended(actions[a]) ELSE actions[a]]

SetActions(views) == actions' = views /\ UNCHANGED <<clock, tickets, records>>

SetAction(a, view) == SetActions([actions EXCEPT ![a] = view])

\* A lease ends with the authorization at the latest.
LeaseEnd(from, d, auth) == IF from + d < auth THEN from + d ELSE auth

LeaseAction(lapsed, a, d, auth) ==
  LET v == Swept(lapsed)[a] IN
  /\ v.status = "QUEUED"
  /\ v.epoch < MaxEpoch
  /\ SetActions([Swept(lapsed) EXCEPT ![a] =
       [status |-> "LEASED", epoch |-> v.epoch + 1, expires |-> LeaseEnd(clock, d, auth),
        auth |-> auth, barred |-> FALSE]])

StartAction(a) ==
  /\ actions[a].status = "LEASED"
  /\ SetAction(a, [actions[a] EXCEPT !.status = "RUNNING"])

RenewAction(a, now, d) ==
  /\ actions[a].status \in {"LEASED", "RUNNING"}
  /\ ~actions[a].barred
  /\ now < actions[a].expires
  /\ SetAction(a, [actions[a] EXCEPT !.expires = LeaseEnd(now, d, actions[a].auth)])

\* The run is cancelled, or its runner is disabled, moved to another pool or
\* given another scope: runnerAuthorizationCurrent no longer holds.
BarAction(lapsed, a) ==
  LET v == Swept(lapsed)[a] IN
  /\ v.status \in {"LEASED", "RUNNING"}
  /\ SetActions([Swept(lapsed) EXCEPT ![a] = [v EXCEPT !.barred = TRUE]])

\* An action is cancelled, rejected or completed.
FinishAction(lapsed, a) ==
  SetActions([Swept(lapsed) EXCEPT ![a] = [@ EXCEPT !.status = "OVER", !.expires = 0]])

ActionMoves(now) ==
  \/ \E a \in Actions : StartAction(a) \/ \E d \in LeaseTimes : RenewAction(a, now, d)
  \/ \E lapsed \in SUBSET Actions :
       \/ SetActions(Swept(lapsed))
       \/ \E a \in Actions :
            \/ BarAction(lapsed, a) \/ FinishAction(lapsed, a)
            \/ \E d \in LeaseTimes, auth \in AuthTimes : LeaseAction(lapsed, a, d, auth)

\* resolveAction: the lease an operation names is the current one.
Resolved(a, now) ==
  /\ actions[a].status \in {"LEASED", "RUNNING"}
  /\ now < actions[a].expires
  /\ now < actions[a].auth

\* inspectionFenceCurrent: the run that a record was prepared for goes on,
\* and will for a while.
FenceCurrent(r, now, window) ==
  /\ actions[r.action].status = "RUNNING"
  /\ ~actions[r.action].barred
  /\ actions[r.action].epoch = r.epoch
  /\ now + window < actions[r.action].expires
  /\ now + window < actions[r.action].auth
  /\ now + window < r.expires

-----------------------------------------------------------------------------
(* Issuing *)

\* The first half of Prepare: both resolutions of the action.  The clock was
\* read before the first of them.
ResolvePrepare(i, a, now, expires) ==
  /\ Cardinality(tickets) < MaxTickets
  /\ now < expires
  /\ expires <= actions[a].auth
  /\ expires <= now + CredentialTTL
  /\ Resolved(a, clock)
  /\ clock + PrepareWindow <= actions[a].expires
  /\ clock + PrepareWindow <= actions[a].auth
  /\ tickets' = tickets \cup
       {[kind |-> "prepare", id |-> i, action |-> a,
         epoch |-> actions[a].epoch, expires |-> expires]}
  /\ UNCHANGED <<clock, actions, records>>

\* The action epoch, or the identifier, already has its record.
GrantTaken(t) ==
  \/ records[t.id].status # "ABSENT"
  \/ \E i \in Ids : /\ records[i].status # "ABSENT"
                    /\ records[i].action = t.action
                    /\ records[i].epoch = t.epoch

\* The second half of Prepare, which elects the creator: only a call that
\* inserts the record is given the permit.
Prepare(t) ==
  /\ t \in tickets /\ t.kind = "prepare"
  /\ ~GrantTaken(t)
  /\ tickets' = tickets \ {t}
  /\ Put(t.id, [Absent EXCEPT !.status = "PREPARED", !.action = t.action,
                              !.epoch = t.epoch, !.expires = t.expires])

\* A replay, or a conflict: there is a record already, and no permit for
\* this caller.
PrepareAgain(t) ==
  /\ t \in tickets /\ t.kind = "prepare"
  /\ GrantTaken(t)
  /\ tickets' = tickets \ {t}
  /\ UNCHANGED <<clock, actions, records>>

\* Mutant: the whole remaining lifetime goes to the child.
ChildTTLWithoutReserve(r, now) == ((r.expires - now) \div Quantum) * Quantum

\* The lifetime left for a child created after an authorization at now.
ChildTTL(r, now) == ((r.expires - now - Reserve) \div Quantum) * Quantum

AuthorizeChildCreate(i, now) ==
  LET r == records[i] IN
  /\ r.status = "PREPARED"
  /\ r.authorizedAt = 0
  /\ r.expires <= actions[r.action].auth
  /\ FenceCurrent(r, now, 0)
  /\ now + Reserve + PostWindow <= actions[r.action].expires
  /\ now + Reserve + PostWindow <= actions[r.action].auth
  /\ MinTTL <= ChildTTL(r, now)
  /\ Put(i, [r EXCEPT !.authorizedAt = now, !.ttl = ChildTTL(r, now)])
  /\ UNCHANGED tickets

\* applyRequestRevocation, which leaves a requested revocation alone.
Asked(r, now) ==
  IF r.status \in Managed
  THEN [r EXCEPT !.status = "REVOCATION_PENDING", !.availableAt = now,
                 !.base = r.claimEpoch, !.cycleAt = now]
  ELSE r

AskedUnless(current, r, now) == IF current THEN r ELSE Asked(r, now)

\* Mutant: an anchor is welcome after the intent was given up, too.
RecordAnchorLate(i, now) ==
  LET anchored == [records[i] EXCEPT !.status = "ANCHORED", !.anchoredAt = clock] IN
  /\ records[i].status \in {"PREPARED", "NO_CREDENTIAL"}
  /\ records[i].authorizedAt # 0
  /\ Put(i, AskedUnless(FenceCurrent(records[i], clock, PostWindow), anchored, clock))
  /\ UNCHANGED tickets

\* The accessor of the child is stored, whatever became of the lease; when
\* the lease is no longer good the revocation starts at once.
RecordAnchor(i, now) ==
  LET r == records[i]
      anchored == [r EXCEPT !.status = "ANCHORED", !.anchoredAt = clock]
      current == FenceCurrent(r, now, 0) /\ FenceCurrent(r, clock, PostWindow)
  IN /\ r.status = "PREPARED"
     /\ r.authorizedAt # 0
     /\ Put(i, AskedUnless(current, anchored, clock))
     /\ UNCHANGED tickets

\* A repeated RecordAnchor with the same accessor.
RecordAnchorAgain(i, now) ==
  LET r == records[i]
      current == FenceCurrent(r, now, 0) /\ FenceCurrent(r, clock, PostWindow)
  IN /\ r.status \in Managed
     /\ ~current
     /\ Put(i, Asked(r, clock))
     /\ UNCHANGED tickets

\* Mutant: activation overrides a revocation somebody else requested.
ActivateAnyway(i, now) ==
  LET r == records[i] IN
  /\ r.status \in {"ANCHORED", "REVOCATION_PENDING"}
  /\ FenceCurrent(r, now, 0)
  /\ Put(i, [r EXCEPT !.status = "ACTIVE"])
  /\ UNCHANGED tickets

\* Mutant: activation goes by the time read before the locks were taken.
ActivateByEarlyClock(i, now) ==
  LET r == records[i] IN
  /\ r.status \in Managed
  /\ Put(i, AskedUnless(FenceCurrent(r, now, PostWindow),
                        [r EXCEPT !.status = "ACTIVE"], now))
  /\ UNCHANGED tickets

Activate(i, now) ==
  LET r == records[i] IN
  /\ r.status \in Managed
  /\ Put(i, IF r.status = "ANCHORED" /\ ~FenceCurrent(r, now, 0)
            THEN Asked(r, now)
            ELSE AskedUnless(FenceCurrent(r, clock, PostWindow),
                             [r EXCEPT !.status = "ACTIVE"], clock))
  /\ UNCHANGED tickets

\* RecordNoCredential: the action is resolved first, then the record changed.
ResolveNoCredential(i, now) ==
  LET r == records[i] IN
  /\ Cardinality(tickets) < MaxTickets
  /\ r.status # "ABSENT"
  /\ actions[r.action].epoch = r.epoch
  /\ Resolved(r.action, now)
  /\ tickets' = tickets \cup
       {[kind |-> "nothing", id |-> i, action |-> r.action,
         epoch |-> r.epoch, expires |-> r.expires]}
  /\ UNCHANGED <<clock, actions, records>>

RecordNoCredential(t) ==
  /\ t \in tickets /\ t.kind = "nothing"
  /\ records[t.id].status = "PREPARED"
  /\ records[t.id].authorizedAt = 0
  /\ tickets' = tickets \ {t}
  /\ Put(t.id, [records[t.id] EXCEPT !.status = "NO_CREDENTIAL"])

\* The record moved on since the action was resolved.
RecordNoCredentialRefused(t) ==
  /\ t \in tickets /\ t.kind = "nothing"
  /\ records[t.id].status # "PREPARED" \/ records[t.id].authorizedAt # 0
  /\ tickets' = tickets \ {t}
  /\ UNCHANGED <<clock, actions, records>>

\* RequestRevocation in its system form, which needs no fence: credential
\* cleanup outlives the lease.  The fenced form has the same effect.
RequestRevocation(i, now) ==
  /\ records[i].status \in Managed
  /\ Put(i, Asked(records[i], now))
  /\ UNCHANGED tickets

-----------------------------------------------------------------------------
(* Recovery, run by the revocation workers.  A batch changes each record   *)
(* by itself; the model takes one record per step.                         *)

\* Mutant: an intent is given up with the lease it was made under.
RecoverPreparedWithLease(i, now) ==
  /\ records[i].status = "PREPARED"
  /\ ~FenceCurrent(records[i], now, 0)
  /\ Put(i, [records[i] EXCEPT !.status = "NO_CREDENTIAL"])
  /\ UNCHANGED tickets

\* An intent whose child, if there is one, has died of its own accord.
RecoverPrepared(i, now) ==
  /\ records[i].status = "PREPARED"
  /\ records[i].expires + PreparedGrace <= now
  /\ Put(i, [records[i] EXCEPT !.status = "NO_CREDENTIAL"])
  /\ UNCHANGED tickets

\* Mutant: an anchor nobody activates is left alone.
RecoverManagedActive(i, now) ==
  /\ records[i].status = "ACTIVE"
  /\ ~FenceCurrent(records[i], now, PostWindow)
  /\ Put(i, Asked(records[i], now))
  /\ UNCHANGED tickets

\* A credential whose run is over, or whose activation never came.
RecoverManaged(i, now) ==
  LET r == records[i] IN
  /\ r.status \in Managed
  /\ \/ ~FenceCurrent(r, now, PostWindow)
     \/ r.status = "ANCHORED" /\ r.anchoredAt + AnchorGrace <= now
  /\ Put(i, Asked(r, now))
  /\ UNCHANGED tickets

\* Mutant: one attempt too many.
ExhaustedLate(r, now) ==
  \/ r.claimEpoch - r.base > MaxAttempts
  \/ r.cycleAt = 0
  \/ r.cycleAt + MaxElapsed <= now

\* memoryRevocationExhausted; the claim epoch counts the attempts too.
Exhausted(r, now) ==
  \/ r.claimEpoch - r.base >= MaxAttempts
  \/ r.cycleAt = 0
  \/ r.cycleAt + MaxElapsed <= now

ClaimLapsed(r, now) == r.status = "REVOKING" /\ r.claimExpires <= now

Unclaimed(r) == [r EXCEPT !.worker = None, !.claimExpires = 0]

Manual(r) == [Unclaimed(r) EXCEPT !.status = "MANUAL_REQUIRED"]

RecoverExhausted(i, now) ==
  LET r == records[i] IN
  /\ r.status = "REVOCATION_PENDING" \/ ClaimLapsed(r, now)
  /\ Exhausted(r, now)
  /\ Put(i, Manual(r))
  /\ UNCHANGED tickets

-----------------------------------------------------------------------------
(* Revoking *)

Claimable(r, now) ==
  /\ \/ r.status = "REVOCATION_PENDING" /\ r.availableAt <= now
     \/ ClaimLapsed(r, now)
  /\ ~Exhausted(r, now)

\* The claim limit is one: the record that has been available longest.
NextToClaim(i, now) ==
  /\ Claimable(records[i], now)
  /\ \A j \in Ids : Claimable(records[j], now) =>
       records[i].availableAt <= records[j].availableAt

EpochLeft(r) == r.claimEpoch < MaxClaims

Claimed(r, w, now) ==
  [r EXCEPT !.status = "REVOKING", !.worker = w, !.claimEpoch = @ + 1,
            !.claimExpires = now + ClaimLease]

ClaimRevocations(i, w, now) ==
  /\ NextToClaim(i, now)
  /\ EpochLeft(records[i])
  /\ Put(i, Claimed(records[i], w, now))
  /\ UNCHANGED tickets

\* The stored accessor cannot be decrypted: nobody can revoke by it.
ClaimPoisoned(i, w, now) ==
  /\ NextToClaim(i, now)
  /\ EpochLeft(records[i])
  /\ Put(i, Manual(Claimed(records[i], w, now)))
  /\ UNCHANGED tickets

\* matchesMemoryClaim
MatchesClaim(r, w, e, now) ==
  /\ r.status = "REVOKING"
  /\ r.worker = w
  /\ r.claimEpoch = e
  /\ now < r.claimExpires

Heartbeat(i, w, e, now) ==
  /\ MatchesClaim(records[i], w, e, now)
  /\ Put(i, [records[i] EXCEPT !.claimExpires = now + ClaimLease])
  /\ UNCHANGED tickets

CompleteRevocation(i, w, e, now) ==
  /\ MatchesClaim(records[i], w, e, now)
  /\ Put(i, [Unclaimed(records[i]) EXCEPT !.status = "REVOKED", !.completed = e])
  /\ UNCHANGED tickets

RetryRevocation(i, w, e, now, delay) ==
  /\ MatchesClaim(records[i], w, e, now)
  /\ Put(i, IF Exhausted(records[i], now)
            THEN Manual(records[i])
            ELSE [Unclaimed(records[i]) EXCEPT !.status = "REVOCATION_PENDING",
                                               !.availableAt = now + delay])
  /\ UNCHANGED tickets

RequireManual(i, w, e, now) ==
  /\ MatchesClaim(records[i], w, e, now)
  /\ Put(i, Manual(records[i]))
  /\ UNCHANGED tickets

-----------------------------------------------------------------------------
(* Operators *)

\* Mutant: confirmations in progress do not stop a requeue.
RequeueConfirmed(i, now) ==
  /\ records[i].status = "MANUAL_REQUIRED"
  /\ Put(i, [records[i] EXCEPT !.status = "REVOCATION_PENDING", !.availableAt = now,
                               !.base = records[i].claimEpoch, !.cycleAt = now])
  /\ UNCHANGED tickets

RequeueManual(i, now) ==
  LET r == records[i] IN
  /\ r.status = "MANUAL_REQUIRED"
  /\ r.evidence = None
  /\ r.confirmations = {}
  /\ Put(i, [r EXCEPT !.status = "REVOCATION_PENDING", !.availableAt = now,
                      !.base = r.claimEpoch, !.cycleAt = now])
  /\ UNCHANGED tickets

\* Mutant: an administrator needs no second person.
EnoughConfirmationsByAdmin(s) == s \cap Admins # {}

EnoughConfirmations(s) == Cardinality(s) >= 2 /\ s \cap Admins # {}

\* An operator attests that the credential is gone.  The second attestation
\* must name the same evidence, and one of the two an administrator.
SubmitExternalConfirmation(i, s, h) ==
  LET r == records[i]
      confirmed == [r EXCEPT !.evidence = h, !.confirmations = @ \cup {s}]
  IN /\ r.status = "MANUAL_REQUIRED"
     /\ r.evidence \in {None, h}
     /\ s \notin r.confirmations
     /\ r.confirmations # {} => (r.confirmations \cup {s}) \cap Admins # {}
     /\ Put(i, IF EnoughConfirmations(confirmed.confirmations)
               THEN [confirmed EXCEPT !.status = "REVOKED"]
               ELSE confirmed)
     /\ UNCHANGED tickets

\* InspectCleanup, the answer the action queue's gate hears.
CleanupState(a, e) ==
  LET held == {i \in Ids : /\ records[i].status # "ABSENT"
                           /\ records[i].action = a /\ records[i].epoch = e}
  IN IF held = {} THEN "MISSING"
     ELSE IF \A i \in held : records[i].status \in Terminal THEN "TERMINAL" ELSE "PENDING"

-----------------------------------------------------------------------------
(* The ledger under any callers *)

Tick ==
  /\ clock < MaxClock
  /\ clock' = clock + 1
  /\ UNCHANGED <<actions, tickets, records>>

IssueMoves(now) ==
  \/ \E i \in Ids, a \in Actions, d \in Lifetimes : ResolvePrepare(i, a, now, now + d)
  \/ \E t \in tickets : Prepare(t) \/ PrepareAgain(t)
                        \/ RecordNoCredential(t) \/ RecordNoCredentialRefused(t)
  \/ \E i \in Ids : \/ AuthorizeChildCreate(i, now) \/ RecordAnchor(i, now)
                    \/ RecordAnchorAgain(i, now) \/ Activate(i, now)
                    \/ ResolveNoCredential(i, now) \/ RequestRevocation(i, now)

RecoveryMoves(now) ==
  \E i \in Ids :
    \/ RecoverPrepared(i, now) \/ RecoverManaged(i, now) \/ RecoverExhausted(i, now)

RevocationMoves(now) ==
  \E i \in Ids, w \in Workers :
    \/ ClaimRevocations(i, w, now) \/ ClaimPoisoned(i, w, now)
    \/ \E e \in 1..MaxClaims :
         \/ Heartbeat(i, w, e, now) \/ CompleteRevocation(i, w, e, now)
         \/ RequireManual(i, w, e, now)
         \/ \E d \in RetryDelays : RetryRevocation(i, w, e, now, d)

OperatorMoves(now) ==
  \E i \in Ids :
    \/ RequeueManual(i, now)
    \/ \E s \in Subjects, h \in Evidence : SubmitExternalConfirmation(i, s, h)

LedgerNext ==
  \/ Tick
  \/ \E now \in Readings :
       \/ ActionMoves(now)
       \/ IssueMoves(now) \/ RecoveryMoves(now)
       \/ RevocationMoves(now) \/ OperatorMoves(now)

LedgerSpec == LedgerInit /\ [][LedgerNext]_ledgerVars

-----------------------------------------------------------------------------
(* Properties *)

\* The ledger keeps its declared shape; in particular the claim epoch never
\* passes its largest value, which ClaimRevocations checks.
TypeOK ==
  /\ clock \in Nat
  /\ actions \in [Actions -> ActionView]
  /\ tickets \subseteq Ticket
  /\ records \in [Ids -> Record]

\* A record ends REVOKED only by the completion of a claim or by the word of
\* two operators, one of them an administrator, whatever retries, requeues
\* and manual steps came before (CompleteRevocation and
\* SubmitExternalConfirmation are the only ways in).
TwoPersonRule ==
  \A i \in Ids : records[i].status = "REVOKED" =>
    \/ records[i].completed # 0
    \/ /\ Cardinality(records[i].confirmations) >= 2
       /\ records[i].confirmations \cap Admins # {}

\* Between two decisions of people (request or requeue) a revocation is tried
\* at most MaxAttempts times, lapsed claims included: RetryRevocation,
\* ClaimRevocations and RecoverExhausted agree on where the limit is.
RetryBounded ==
  \A i \in Ids : records[i].claimEpoch - records[i].base \in 0..MaxAttempts

\* A requested revocation is never taken back, and an intent given up is
\* never issued: late calls of a broker (RecordAnchor, Activate) cannot undo
\* what recovery or an operator decided.
RevocationIsForever ==
  \A i \in Ids :
    /\ records[i].status \in Requested => records'[i].status \in Requested
    /\ records[i].status \in Terminal => records'[i] = records[i]

\* Once an operator has confirmed, the machine does not touch the record
\* again: evidence collected for one state of the credential is never used
\* for another (RequeueManual is refused).
ConfirmationsHold ==
  \A i \in Ids : records[i].confirmations # {} =>
    /\ records'[i].claimEpoch = records[i].claimEpoch
    /\ records'[i].status \in {"MANUAL_REQUIRED", "REVOKED"}
    /\ records'[i].evidence = records[i].evidence

\* How a record may end: by a completed claim or two operators, within the
\* attempts (CompleteRevocation, SubmitExternalConfirmation, Exhausted).
LedgerSafety == TwoPersonRule /\ RetryBounded

\* What no call undoes: a requested revocation, a final status, and an
\* operator's confirmation.
LedgerSteps == [][RevocationIsForever /\ ConfirmationsHold]_ledgerVars
=============================================================================
