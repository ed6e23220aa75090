----------------------------- MODULE WriteGateway -----------------------------
(***************************************************************************)
(* internal/runnergateway/postgres: the requests of the runners, each one  *)
(* transaction over the queue and the revocations, beside the operators'   *)
(* and the recovery's calls; and the in-process runner of a database that  *)
(* has not been migrated.                                                  *)
(***************************************************************************)
EXTENDS RevocationRows, TLC

\* authenticatedTransaction: certificate and registration are read in the transaction.
authenticated(r) == schema = 9 /\ r \in DOMAIN reg

LeaseJob(r) == authenticated(r) /\ ClaimRunnerTx(r)

\* The start and the record of its credential commit together, or neither does; so a start
\* whose answer was lost cannot be repeated.
StartJob(r, f) ==
  /\ authenticated(r) /\ f[1] \in Starters /\ StartRunnerAuthorizedTx(r, f)
  /\ insertPrepared(f, [act[f[1]] EXCEPT !.status = "RUNNING"])
  /\ UNCHANGED <<schema, holder, result, reg, child>>

HeartbeatJob(r, f) == authenticated(r) /\ HeartbeatRunnerTx(r, f)
ReleaseJob(r, f) == authenticated(r) /\ ReleaseRunnerTx(r, f)

\* EnsureCompletionCleanupRunnerTx: the record as the completion leaves it.
EnsureCompletionCleanup(f) ==
  CASE Has(f, {"PREPARED"}) /\ ~rec[f].permit -> Closed(rec[f], "NO_CREDENTIAL")
    [] Has(f, {"ANCHORED", "ACTIVE"}) -> requestInvalidatedAnchor(rec[f])
    [] OTHER -> rec[f]

\* The result, the end of its credential, and the final status if that allows it: now, or
\* when the runner completes once more.
CompleteJob(r, f, status) ==
  LET a == f[1]
      record == EnsureCompletionCleanup(f)
  IN
  /\ authenticated(r) /\ act[a].expected
  /\ CompleteRunnerTx(r, f, status)
  /\ rec' = [rec EXCEPT ![f] = record]
  /\ WithRow(a, FinalizeRunnerTx(Received(act[a], status), record))
  /\ UNCHANGED <<schema, holder, reg, child>>

\* The phases of AnchorCredential.
AnchorCredential(r, f) ==
  /\ authenticated(r)
  /\ \/ AuthorizeChildCreateRunnerTx(r, f)
     \/ RecordAnchorRunnerTx(r, f)
     \/ ActivateRunnerTx(r, f)
     \/ runnerActionTransitionTx(r, f)

LeaseRevocation(r, f) == authenticated(r) /\ ClaimRevocationRunnerTx(r, f)
FinishRevocation(r, f, outcome) == authenticated(r) /\ CompleteRevocationRunnerTx(r, f, outcome)

\* The in-process runner and worker.
DirectCredential(r, f) ==
  /\ schema = 8
  /\ AuthorizeChildCreate(r, f) \/ RecordAnchor(r, f) \/ Activate(r, f)

-----------------------------------------------------------------------------
GatewayStep ==
  \E r \in Holders :
    \/ LeaseJob(r)
    \/ \E f \in Leases :
         \/ StartJob(r, f) \/ HeartbeatJob(r, f) \/ ReleaseJob(r, f) \/ AnchorCredential(r, f)
         \/ LeaseRevocation(r, f)
         \/ \E s \in CompletionStatuses : CompleteJob(r, f, s)
         \/ \E o \in {"REVOKED", "FAILED"} : FinishRevocation(r, f, o)

DirectStep ==
  \/ \E r \in Holders :
       \/ Claim(r)
       \/ \E f \in Leases :
            \/ Start(r, f) \/ Heartbeat(r, f) \/ Finalize(r, f) \/ Reject(r, f) \/ Nack(r, f)
            \/ Prepare(r, f) \/ DirectCredential(r, f) \/ actionTransition(r, f)
            \/ \E s \in CompletionStatuses : Complete(r, f, s)
  \/ \E f \in Leases :
       \/ ClaimRevocations(f) \/ CompleteRevocation(f)
       \/ \E manual \in BOOLEAN : failClaim(f, manual)

OperatorStep ==
  \/ SweepExpired
  \/ \E a \in Actions :
       \/ Submit(a) \/ Cancel(a)
       \/ \E s \in {"SUCCEEDED", "FAILED"} : Reconcile(a, s)
  \/ \E f \in Leases :
       \/ RecoverPrepared(f) \/ recoverManagedCandidate(f) \/ RecoverExhausted(f)
       \/ RequeueManual(f)
       \/ \E p \in Persons, e \in Evidence : ConfirmManagement(f, p, e)

WorldStep ==
  \/ \E a \in Actions : LeaseLapses(a) \/ AuthorizationLapses(a)
  \/ \E f \in Leases :
       ChildExpires(f) \/ ClaimLapses(f) \/ ChildCreated(f) \/ ChildRevoked(f) \/ AccessorLost(f)
  \/ \E r \in Holders : RegistrationChanges(r)

GatewayNext == GatewayStep \/ DirectStep \/ OperatorStep \/ WorldStep

GatewaySpec == TablesInit /\ [][GatewayNext]_tableVars

-----------------------------------------------------------------------------
(* A credential that can still be used belongs to the lease its action is at, and that
   action still occupies the target: sweeps, cancellations, releases, reconciliations and
   late anchors, in whatever order, never let a second action in beside it
   (credentialCleanupPredicate, RecoverPrepared, EnsureCompletionCleanupRunnerTx). *)
ChildHoldsTarget ==
  \A f \in Leases : child[f] = "live" =>
    /\ act[f[1]].epoch = f[2] /\ act[f[1]].status \in Occupying
    /\ \A b \in Actions \ {f[1]} : act[b].status \notin Occupying

(* What an action became final as is what its runner reported for that lease, unless an
   operator reconciled it or it was rejected before it started; and no receipt is ever
   replaced (CompleteRunnerTx, FinalizeRunnerTx, sweepExpired, Reconcile). *)
ResultStands ==
  [][/\ \A f \in Leases : result[f] # None => result'[f] = result[f]
     /\ \A a \in Actions :
          /\ act'[a].status \in {"SUCCEEDED", "FAILED"} /\ ~act'[a].reconciled
          /\ act[a].status \notin {"LEASED", act'[a].status}
          => LET said == result'[<<a, act'[a].epoch>>]
             IN said # None /\ said.status = act'[a].status]_tableVars

(* A revocation that a person's word ended carries two, one of them an administrator's, for
   one piece of evidence, and none that a runner ended does (mayConfirm, RequeueManual). *)
ConfirmedByTwo ==
  \A f \in Leases : Has(f, {"REVOKED"}) =>
    \/ rec[f].confirms = {} /\ rec[f].evidence = None
    \/ Cardinality(rec[f].confirms) = 2 /\ rec[f].confirms \cap Admins # {} /\ rec[f].evidence # None

(* Whoever holds a credential holds the target, and a credential ends by what a runner did or
   by the word of two. *)
CredentialSafety == ChildHoldsTarget /\ ConfirmedByTwo

-----------------------------------------------------------------------------
(* An instance: the actions that are started have two leases, the others one. *)

TwoIfStarted == [a \in Actions |-> IF a \in Starters THEN 2 ELSE 1]
Alike == Permutations(Holders) \cup Permutations(Persons \ Admins)
=============================================================================
