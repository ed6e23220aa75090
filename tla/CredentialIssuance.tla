------------------------- MODULE CredentialIssuance -------------------------
(***************************************************************************)
(* The revocation ledger with the three parties that use it:               *)
(*   - brokers (credential/durable_broker.go), which prepare a record, ask *)
(*     Vault for a child token, anchor it, activate it, hand it to a run   *)
(*     and ask for its revocation; a broker may stop at any point;         *)
(*   - revocation workers (credential/revocationworker/worker.go), which   *)
(*     recover abandoned records and revoke accessors under a claim;       *)
(*   - Vault, whose child tokens live for their TTL unless revoked.        *)
(* A call to Vault and the call that records it are separate steps, so a   *)
(* party can be lost between them, and its answer can come late.           *)
(***************************************************************************)
EXTENDS CredentialLedger

CONSTANTS
  CreateBudget,   \* ChildCreateVaultCallBudget
  RemoteTimeout   \* RevocationRemoteTimeout

\* A request for a child reaches Vault before the reserve is used up.
ASSUME BudgetWithinReserve == CreateBudget \in Nat /\ CreateBudget <= Reserve
ASSUME RemoteTimeoutOK == RemoteTimeout \in Nat

VARIABLES
  broker,  \* how far the call that drew a revocation identifier has come
  child,   \* the child token of each record, at Vault
  work      \* the claim each worker is processing

vars == <<clock, actions, tickets, records, broker, child, work>>

BrokerPhases == {"none", "preparing", "ready", "declining", "issuing",
                 "anchored", "holding", "gone"}
Child == [state : {"none", "asked", "live", "revoked"}, expires : Nat]
NoChild == [state |-> "none", expires |-> 0]
Job == [id : Ids, epoch : 1..MaxClaims, since : Nat, revoked : BOOLEAN]
Idle == [id |-> None, epoch |-> 0, since |-> 0, revoked |-> FALSE]

Init ==
  /\ LedgerInit
  /\ broker = [i \in Ids |-> "none"]
  /\ child = [i \in Ids |-> NoChild]
  /\ work = [w \in Workers |-> Idle]

\* The child can be used.
Live(i) == child[i].state = "live" /\ clock < child[i].expires

\* Two operators confirmed that the child is gone.
Vouched(i) == Cardinality(records[i].confirmations) >= 2

-----------------------------------------------------------------------------
(* Brokers *)

BrokerTo(i, phase) == broker' = [broker EXCEPT ![i] = phase] /\ UNCHANGED work

\* durableCredentialExpiry: the lifetime leaves room for a child.
WorthIssuing(lifetime) == lifetime >= Reserve + MinTTL

\* DurableBroker.Prepare draws a fresh identifier and calls the repository.
BrokerPrepare(i, a, now) ==
  /\ broker[i] = "none"
  /\ \E d \in Lifetimes : WorthIssuing(d) /\ ResolvePrepare(i, a, now, now + d)
  /\ BrokerTo(i, "preparing")
  /\ UNCHANGED child

\* Only the creator of the record gets a handle (Created and a permit).
BrokerPrepared(t) ==
  /\ broker[t.id] = "preparing"
  /\ \/ Prepare(t) /\ BrokerTo(t.id, "ready")
     \/ PrepareAgain(t) /\ BrokerTo(t.id, "gone")
  /\ UNCHANGED child

\* DurableBroker.RecordNoCredential consumes the handle.
BrokerDeclines(i, now) ==
  /\ broker[i] = "ready"
  /\ ResolveNoCredential(i, now)
  /\ BrokerTo(i, "declining")
  /\ UNCHANGED child

BrokerDeclined(t) ==
  /\ broker[t.id] \in {"declining", "gone"}
  /\ RecordNoCredential(t) \/ RecordNoCredentialRefused(t)
  /\ BrokerTo(t.id, "gone")
  /\ UNCHANGED child

\* DurableBroker.Issue: authorization, then the request to Vault.
BrokerAuthorizes(i, now) ==
  /\ broker[i] = "ready"
  /\ AuthorizeChildCreate(i, now)
  /\ BrokerTo(i, "issuing")
  /\ child' = [child EXCEPT ![i].state = "asked"]

\* Vault creates the child, within the budget of the call, whether or not
\* the broker is still there to hear of it.
VaultCreates(i) ==
  /\ child[i].state = "asked"
  /\ clock <= records[i].authorizedAt + CreateBudget
  /\ child' = [child EXCEPT ![i] = [state |-> "live", expires |-> clock + records[i].ttl]]
  /\ UNCHANGED <<clock, actions, tickets, records, broker, work>>

\* Only an ANCHORED answer lets the broker go on.
BrokerAnchors(i, now) ==
  /\ broker[i] = "issuing"
  /\ child[i].state = "live"
  /\ RecordAnchor(i, now)
  /\ BrokerTo(i, IF records'[i].status = "ANCHORED" THEN "anchored" ELSE "gone")
  /\ UNCHANGED child

\* The child is inspected and the dynamic secret issued (read-only for the
\* ledger); then the record is activated.  Only an ACTIVE answer hands the
\* credential over.
BrokerActivates(i, now) ==
  /\ broker[i] = "anchored"
  /\ Activate(i, now)
  /\ BrokerTo(i, IF records'[i].status = "ACTIVE" THEN "holding" ELSE "gone")
  /\ UNCHANGED child

\* persistRevocationIntent after a failure behind the anchor, and
\* DurableBroker.RequestRevocation after the run.
BrokerGivesBack(i, now) ==
  /\ broker[i] \in {"anchored", "holding"}
  /\ RequestRevocation(i, now)
  /\ BrokerTo(i, "gone")
  /\ UNCHANGED child

\* A call fails or is refused, or the process dies, and nothing is recorded.
BrokerStops(i) ==
  /\ broker[i] \notin {"none", "gone"}
  /\ BrokerTo(i, "gone")
  /\ UNCHANGED <<clock, actions, tickets, records, child>>

\* A ticket outlives the caller that waited for its answer.
BrokerAbsent(t) ==
  /\ broker[t.id] = "gone"
  /\ Prepare(t) \/ PrepareAgain(t)
  /\ UNCHANGED <<broker, child, work>>

BrokerNext(now) ==
  \/ \E i \in Ids : \/ \E a \in Actions : BrokerPrepare(i, a, now)
                    \/ BrokerDeclines(i, now) \/ BrokerAuthorizes(i, now)
                    \/ BrokerAnchors(i, now) \/ BrokerActivates(i, now)
                    \/ BrokerGivesBack(i, now) \/ BrokerStops(i)
  \/ \E t \in tickets : BrokerPrepared(t) \/ BrokerDeclined(t) \/ BrokerAbsent(t)

-----------------------------------------------------------------------------
(* Workers.  RunOnce recovers first and then claims one record.            *)

WorkerTo(w, j) == work' = [work EXCEPT ![w] = j] /\ UNCHANGED broker

WorkerRecoversPrepared(w, i, now) ==
  work[w] = Idle /\ RecoverPrepared(i, now) /\ UNCHANGED <<broker, child, work>>

WorkerRecoversManaged(w, i, now) ==
  work[w] = Idle /\ RecoverManaged(i, now) /\ UNCHANGED <<broker, child, work>>

WorkerRecoversExhausted(w, i, now) ==
  work[w] = Idle /\ RecoverExhausted(i, now) /\ UNCHANGED <<broker, child, work>>

WorkerClaims(w, i, now) ==
  /\ work[w] = Idle
  /\ \/ /\ ClaimRevocations(i, w, now)
        /\ WorkerTo(w, [id |-> i, epoch |-> records[i].claimEpoch + 1,
                          since |-> clock, revoked |-> FALSE])
     \/ /\ ClaimPoisoned(i, w, now)
        /\ WorkerTo(w, Idle)
  /\ UNCHANGED child

\* The heartbeat goes on while the remote call does, and no longer.
WorkerHeartbeats(w, now) ==
  /\ work[w] # Idle
  /\ clock < work[w].since + RemoteTimeout
  /\ Heartbeat(work[w].id, w, work[w].epoch, now)
  /\ UNCHANGED <<broker, child, work>>

\* RevokeAccessor succeeds at Vault, and the answer arrives.
VaultRevokes(w) ==
  /\ work[w] # Idle /\ ~work[w].revoked
  /\ child' = [child EXCEPT ![work[w].id].state = "revoked"]
  /\ WorkerTo(w, [work[w] EXCEPT !.revoked = TRUE])
  /\ UNCHANGED <<clock, actions, tickets, records>>

\* Vault acted, and its answer was lost or came after the timeout.
VaultRevokesUnheard(w) ==
  /\ work[w] # Idle /\ ~work[w].revoked
  /\ child[work[w].id].state = "live"
  /\ child' = [child EXCEPT ![work[w].id].state = "revoked"]
  /\ UNCHANGED <<clock, actions, tickets, records, broker, work>>

\* Mutant: a timeout is taken for an answer.
WorkerCompletesUnheard(w, now) ==
  /\ work[w] # Idle
  /\ CompleteRevocation(work[w].id, w, work[w].epoch, now)
  /\ WorkerTo(w, Idle)
  /\ UNCHANGED child

WorkerCompletes(w, now) ==
  /\ work[w] # Idle /\ work[w].revoked
  /\ CompleteRevocation(work[w].id, w, work[w].epoch, now)
  /\ WorkerTo(w, Idle)
  /\ UNCHANGED child

\* ackFailure after an error, a timeout or an unresolved revoker.
WorkerFails(w, now) ==
  /\ work[w] # Idle /\ ~work[w].revoked
  /\ \/ \E d \in RetryDelays : RetryRevocation(work[w].id, w, work[w].epoch, now, d)
     \/ RequireManual(work[w].id, w, work[w].epoch, now)
  /\ WorkerTo(w, Idle)
  /\ UNCHANGED child

\* ErrClaimDeferred: the heartbeat or the acknowledgement failed, the
\* context ended, or the process died.  The claim is left to lapse.
WorkerDefers(w) ==
  /\ work[w] # Idle
  /\ WorkerTo(w, Idle)
  /\ UNCHANGED <<clock, actions, tickets, records, child>>

WorkerNext(w, now) ==
  \/ \E i \in Ids :
       \/ WorkerRecoversPrepared(w, i, now) \/ WorkerRecoversManaged(w, i, now)
       \/ WorkerRecoversExhausted(w, i, now) \/ WorkerClaims(w, i, now)
  \/ WorkerHeartbeats(w, now) \/ WorkerCompletes(w, now)
  \/ WorkerFails(w, now) \/ WorkerDefers(w)
  \/ VaultRevokes(w) \/ VaultRevokesUnheard(w)

-----------------------------------------------------------------------------
Surroundings ==
  /\ \/ Tick
     \/ \E now \in Readings : OperatorMoves(now) \/ ActionMoves(now)
  /\ UNCHANGED <<broker, child, work>>

Next ==
  \/ Surroundings
  \/ \E i \in Ids : VaultCreates(i)
  \/ \E now \in Readings :
       BrokerNext(now) \/ \E w \in Workers : WorkerNext(w, now)

Spec == Init /\ [][Next]_vars

-----------------------------------------------------------------------------
(* Properties *)

\* The parties keep the declared shape of their state.
IssuanceTypeOK ==
  /\ TypeOK
  /\ broker \in [Ids -> BrokerPhases]
  /\ child \in [Ids -> Child]
  /\ work \in [Workers -> Job \cup {Idle}]

\* The promise of the ledger: when a record says that its credential is gone
\* (which lets the queue give the target to another run), the child token is
\* dead at Vault, whoever crashed in between and whichever answers were lost;
\* except that two operators may vouch for it.
TerminalMeansDead ==
  \A i \in Ids : records[i].status \in Terminal =>
    ~Live(i) \/ Vouched(i)

\* No child outlives the deadline that was recorded before it was asked for,
\* however long the call to Vault took: the reserve in AuthorizeChildCreate
\* covers the call.
ChildWithinDeadline ==
  \A i \in Ids : child[i].state = "live" => child[i].expires <= records[i].expires

\* What Vault still honours is what the ledger answers for: a record that says
\* its credential is gone is right, and no child outlives its recorded deadline
\* (InspectCleanup, AuthorizeChildCreate).
ChildrenAccounted == TerminalMeansDead /\ ChildWithinDeadline

\* A credential is handed to a run only while the lease it was prepared under
\* is running, not cancelled, and good for a while, although the broker read
\* the clock before it got the locks: Activate looks again before it answers.
HandoverIsFenced ==
  \A i \in Ids : broker[i] # "holding" /\ broker'[i] = "holding" =>
    FenceCurrent(records[i], clock, PostWindow)

\* What no late call of a broker, a worker or an operator does: take back what the
\* ledger decided, or hand over a credential behind its lease.
CredentialSteps == [][RevocationIsForever /\ ConfirmationsHold /\ HandoverIsFenced]_vars
=============================================================================
