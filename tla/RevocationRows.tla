---------------------------- MODULE RevocationRows ----------------------------
(***************************************************************************)
(* internal/credential/postgres: the credential revocations on their       *)
(* table.  Every operation locks the action before the revocation, so it   *)
(* sees the lease and the record of one moment.                            *)
(***************************************************************************)
EXTENDS ActionRows

WithRecord(f, row) == rec' = [rec EXCEPT ![f] = row]
Has(f, statuses) == rec[f] # None /\ rec[f].status \in statuses
notRecords == <<schema, act, holder, result, reg, child>>

\* resolveActionFenceWithWindow: the lease of the caller, current and authorized; neither a
\* cancellation nor the runner's registration is looked at.
resolveActionFence(r, f, statuses) ==
  runnerFenceMatches(r, f, statuses) /\ act[f[1]].live /\ act[f[1]].authorized

\* resolveChildCreateActionFence, with its read of the registration: the running action
\* besides is not cancelled, its runner still in scope.
resolveChildCreateActionFence(r, f) ==
  resolveActionFence(r, f, {"RUNNING"}) /\ ~act[f[1]].cancel /\ registrationMatches(f[1])

\* storedInspectionFenceCurrent at the database's time and again MinPostChildFenceWindow
\* ahead: a lease close to its end may be found wanting.
storedInspectionFenceCurrent(f) ==
  {FALSE} \cup {c \in {TRUE} : resolveChildCreateActionFence(holder[f], f) /\ ~rec[f].expired}

\* requestInvalidatedAnchor and transitionRequestRevocation: a new retry cycle.
requestInvalidatedAnchor(row) == [row EXCEPT !.status = "REVOCATION_PENDING", !.spent = FALSE]

-----------------------------------------------------------------------------
(* The lease's side *)

\* The record, and credential_expected of its action, in one transaction; one per lease.
insertPrepared(f, row) ==
  /\ rec[f] = None
  /\ rec' = [rec EXCEPT ![f] = Prepared]
  /\ WithRow(f[1], [row EXCEPT !.expected = TRUE])

Prepare(r, f) ==
  /\ schema = 8 /\ f[1] \in Starters
  /\ resolveActionFence(r, f, Active)
  /\ insertPrepared(f, act[f[1]])
  /\ UNCHANGED <<schema, holder, result, reg, child>>

\* The permit is good once.  The caller learns of it only if the commit was quick enough;
\* it may never create the child.
AuthorizeChildCreate(r, f) ==
  /\ resolveChildCreateActionFence(r, f)
  /\ Has(f, {"PREPARED"}) /\ ~rec[f].permit /\ ~rec[f].expired
  /\ WithRecord(f, [rec[f] EXCEPT !.permit = TRUE])
  /\ UNCHANGED notRecords

\* The accessor is kept whatever became of the lease; unless that is still current, the
\* revocation is asked for in the same transaction.
RecordAnchor(r, f) ==
  /\ holder[f] = r /\ child[f] # "none"
  /\ Has(f, {"PREPARED", "ANCHORED", "ACTIVE"}) /\ rec[f].permit
  /\ \E current \in storedInspectionFenceCurrent(f) :
       LET row == IF rec[f].status = "PREPARED"
                  THEN [rec[f] EXCEPT !.status = "ANCHORED", !.accessor = TRUE] ELSE rec[f]
       IN WithRecord(f, IF current THEN row ELSE requestInvalidatedAnchor(row))
  /\ UNCHANGED notRecords

Activate(r, f) ==
  /\ holder[f] = r
  /\ Has(f, {"ANCHORED", "ACTIVE"})
  /\ \E current \in storedInspectionFenceCurrent(f) :
       WithRecord(f, IF current THEN [rec[f] EXCEPT !.status = "ACTIVE"]
                     ELSE requestInvalidatedAnchor(rec[f]))
  /\ UNCHANGED notRecords

\* actionTransition: there is no child, as the permit was never used; or there is one and
\* it is to be revoked.
recordNoCredential(f) ==
  /\ Has(f, {"PREPARED"}) /\ ~rec[f].permit
  /\ WithRecord(f, Closed(rec[f], "NO_CREDENTIAL"))
requestRevocation(f) ==
  /\ Has(f, {"ANCHORED", "ACTIVE"})
  /\ WithRecord(f, requestInvalidatedAnchor(rec[f]))

\* The revocation may also be asked for without a fence, whatever became of the lease.
actionTransition(r, f) ==
  /\ schema = 8
  /\ \/ resolveActionFence(r, f, Active) /\ recordNoCredential(f)
     \/ requestRevocation(f)
  /\ UNCHANGED notRecords

\* Through the gateway: the runner the lease is at, and for what is not only recorded its
\* scope of the lease too.
runnerScopeIdentifiesMetadata(r, f) == act[f[1]].runner = r
runnerScopeAuthorizesMetadata(r, f) == runnerScopeIdentifiesMetadata(r, f) /\ act[f[1]].rev = reg[r]

AuthorizeChildCreateRunnerTx(r, f) == runnerScopeAuthorizesMetadata(r, f) /\ AuthorizeChildCreate(r, f)
RecordAnchorRunnerTx(r, f) == runnerScopeIdentifiesMetadata(r, f) /\ RecordAnchor(r, f)
ActivateRunnerTx(r, f) == runnerScopeIdentifiesMetadata(r, f) /\ Activate(r, f)

runnerActionTransitionTx(r, f) ==
  /\ runnerScopeAuthorizesMetadata(r, f)
  /\ resolveChildCreateActionFence(r, f)
  /\ recordNoCredential(f) \/ requestRevocation(f)
  /\ UNCHANGED notRecords

-----------------------------------------------------------------------------
(* Recovery *)

\* Variant: does not wait until the credential cannot live any more.
RecoversEarly(f) ==
  /\ Has(f, {"PREPARED"})
  /\ WithRecord(f, Closed(rec[f], "NO_CREDENTIAL"))
  /\ UNCHANGED notRecords

\* A prepared record whose credential cannot live any more had none that needs revoking.
RecoverPrepared(f) ==
  /\ Has(f, {"PREPARED"}) /\ rec[f].expired
  /\ WithRecord(f, Closed(rec[f], "NO_CREDENTIAL"))
  /\ UNCHANGED notRecords

\* A credential whose lease ended or is about to, or that was anchored long ago and never
\* activated.
recoverManagedCandidate(f) ==
  /\ Has(f, {"ANCHORED", "ACTIVE"})
  /\ Has(f, {"ANCHORED"}) \/ FALSE \in storedInspectionFenceCurrent(f)
  /\ WithRecord(f, requestInvalidatedAnchor(rec[f]))
  /\ UNCHANGED notRecords

\* A revocation out of attempts or out of time; from migration 9 on an abandoned claim
\* gets the system's receipt.
RecoverExhausted(f) ==
  /\ rec[f] # None /\ rec[f].spent
  /\ rec[f].status = "REVOCATION_PENDING" \/ (rec[f].status = "REVOKING" /\ ~rec[f].held)
  /\ WithRecord(f, [rec[f] EXCEPT !.status = "MANUAL_REQUIRED", !.claimant = None,
       !.said = IF rec[f].status = "REVOKING" /\ schema = 9 THEN "SYSTEM" ELSE @])
  /\ UNCHANGED notRecords

\* The key that protects the accessor is gone.
AccessorLost(f) ==
  /\ Has(f, {"REVOCATION_PENDING", "REVOKING"}) /\ rec[f].accessor
  /\ WithRecord(f, [rec[f] EXCEPT !.accessor = FALSE])
  /\ UNCHANGED notRecords

-----------------------------------------------------------------------------
(* The claims of a revocation, by the in-process worker or by a runner *)

Claimable(f) ==
  /\ rec[f] # None /\ ~rec[f].spent /\ rec[f].claim < Claims
  /\ rec[f].status = "REVOCATION_PENDING" \/ (rec[f].status = "REVOKING" /\ ~rec[f].held)

ClaimedBy(f, w) ==
  [rec[f] EXCEPT !.status = "REVOKING", !.claim = @ + 1, !.claimant = w, !.held = TRUE, !.said = None]

\* A claim whose accessor cannot be opened is quarantined.
ClaimRevocations(f) ==
  /\ schema = 8 /\ Claimable(f)
  /\ WithRecord(f, IF rec[f].accessor THEN ClaimedBy(f, "worker")
                   ELSE [ClaimedBy(f, "worker") EXCEPT !.status = "MANUAL_REQUIRED",
                                                       !.claimant = None, !.held = FALSE])
  /\ UNCHANGED notRecords

\* validateRunnerRevocationFence, lockRunnerRevocationClaim: the latest claim, not lapsed.
claimFence(w, f) == Has(f, {"REVOKING"}) /\ rec[f].claimant = w /\ rec[f].held

\* The accessor is only released after the claim is committed.
AccessorReleased(f) == Has(f, {"REVOKING"}) /\ rec[f].accessor

\* Whoever has the accessor revokes the child; a claim may lapse meanwhile.
ChildRevoked(f) ==
  /\ AccessorReleased(f) /\ child[f] = "live"
  /\ child' = [child EXCEPT ![f] = "dead"]
  /\ UNCHANGED <<schema, act, holder, result, reg, rec>>

\* A claim ends with the child dead, or failed: another attempt or a person's turn.
Released(row) == [row EXCEPT !.claimant = None, !.held = FALSE]
RevokedRow(row) == Closed(row, "REVOKED")
FailedRow(row, manual) ==
  [Released(row) EXCEPT !.status = IF manual \/ row.spent THEN "MANUAL_REQUIRED" ELSE "REVOCATION_PENDING"]

CompleteRevocation(f) ==
  /\ schema = 8 /\ claimFence("worker", f) /\ child[f] # "live"
  /\ WithRecord(f, RevokedRow(rec[f]))
  /\ UNCHANGED notRecords

failClaim(f, manual) ==
  /\ schema = 8 /\ claimFence("worker", f)
  /\ WithRecord(f, FailedRow(rec[f], manual))
  /\ UNCHANGED notRecords

\* The claim commits whether or not the accessor can be opened: then it is left to lapse.
ClaimRevocationRunnerTx(r, f) ==
  /\ Claimable(f)
  /\ WithRecord(f, ClaimedBy(f, r))
  /\ UNCHANGED notRecords

\* One receipt per claim, and the state it stands for.
CompleteRevocationRunnerTx(r, f, outcome) ==
  /\ claimFence(r, f) /\ rec[f].accessor
  /\ outcome = "REVOKED" => child[f] # "live"
  /\ rec[f].said = None
  /\ WithRecord(f, IF outcome = "REVOKED" THEN RevokedRow(rec[f])
                   ELSE [FailedRow(rec[f], FALSE) EXCEPT !.said = outcome])
  /\ UNCHANGED notRecords

-----------------------------------------------------------------------------
(* People *)

\* RequeueManagement may give up only what nobody has confirmed.
Requeueable(f) == Has(f, {"MANUAL_REQUIRED"}) /\ rec[f].evidence = None /\ rec[f].confirms = {}

RequeueManual(f) ==
  /\ Requeueable(f)
  /\ WithRecord(f, [rec[f] EXCEPT !.status = "REVOCATION_PENDING", !.spent = FALSE])
  /\ UNCHANGED notRecords

\* Variant: any two persons will do.
ConfirmsWithoutAdmin(f, p, evidence) ==
  /\ Has(f, {"MANUAL_REQUIRED"})
  /\ p \notin rec[f].confirms /\ Cardinality(rec[f].confirms) < 2
  /\ rec[f].evidence \in {None, evidence}

\* A second person confirms the evidence of the first; one of the two is an administrator.
mayConfirm(f, p, evidence) ==
  /\ Has(f, {"MANUAL_REQUIRED"})
  /\ p \notin rec[f].confirms /\ Cardinality(rec[f].confirms) < 2
  /\ rec[f].evidence \in {None, evidence}
  /\ rec[f].confirms # {} => (rec[f].confirms \cup {p}) \cap Admins # {}

\* The first confirmation fixes the evidence, the second ends the revocation.
Confirmed(row, p, evidence) ==
  LET said == [row EXCEPT !.evidence = evidence, !.confirms = @ \cup {p}]
  IN IF Cardinality(said.confirms) = 2 THEN Closed(said, "REVOKED") ELSE said

\* They vouch for what they saw: the child is dead.
ConfirmManagement(f, p, evidence) ==
  /\ mayConfirm(f, p, evidence) /\ child[f] # "live"
  /\ WithRecord(f, Confirmed(rec[f], p, evidence))
  /\ UNCHANGED notRecords
=============================================================================
