----------------------------- MODULE WriteTables -----------------------------
(***************************************************************************)
(* The PostgreSQL rows of the write path and what changes them from        *)
(* outside: the clock, the registrations of the runners, the issuer of     *)
(* the child credentials.                                                  *)
(*   action_queue, runner_result_receipts    internal/execution/postgres   *)
(*   credential_revocations                  internal/credential/postgres  *)
(*   runner_registrations                    read by both                  *)
(*                                                                         *)
(* All actions have one target.  A transaction is one step: every one      *)
(* locks the rows it decides on.  A time in a row is the fact the code     *)
(* compares it for, and lapses at any moment.                              *)
(***************************************************************************)
EXTENDS Values, Integers, FiniteSets

CONSTANTS
  Actions,      \* action ids, all of one target
  Holders,      \* ids of the registered WRITE runners
  Epochs,       \* bound: the leases of each action
  Starters,     \* bound: the actions that get beyond a lease
  Beats,        \* bound on the heartbeats of a lease
  Claims,       \* bound on the claims of a revocation
  Persons,      \* who may confirm a revocation by hand
  Admins,       \* those of them who are platform administrators
  Evidence,     \* evidence hashes
  Changes       \* bound on the changes of registrations

ASSUME WriteAssumption ==
  /\ Epochs \in [Actions -> Nat \ {0}]
  /\ {Beats, Claims, Changes} \subseteq Nat
  /\ Admins \subseteq Persons
  /\ None \notin Holders \cup Persons \cup Evidence

VARIABLES
  schema,   \* the migration the tables are at: 8, or 9 of the Runner Gateway
  act,      \* action_queue
  holder,   \* who was given the token of a lease
  result,   \* runner_result_receipts, by lease
  reg,      \* runner_registrations: scope_revision
  rec,      \* credential_revocations, by lease
  child     \* the child credential of a lease, at the issuer

tableVars == <<schema, act, holder, result, reg, rec, child>>

Leases == UNION {{a} \X (1..Epochs[a]) : a \in Actions}

Occupying == {"LEASED", "RUNNING", "FINALIZING", "UNCERTAIN"}
Statuses == Occupying \cup {"ABSENT", "QUEUED", "SUCCEEDED", "FAILED", "CANCELLED"}
CompletionStatuses == {"SUCCEEDED", "FAILED", "UNCERTAIN"}
\* Terminal() of an execution: UNCERTAIN is, though it occupies its target.
terminalStatus == {"SUCCEEDED", "FAILED", "CANCELLED", "UNCERTAIN"}

\* live: the lease has not lapsed.  authorized: authorization_expires_at is ahead.
storedAction ==
  [status : Statuses, epoch : Nat, runner : Holders \cup {None}, rev : 0..Changes,
   live : BOOLEAN, authorized : BOOLEAN, expected : BOOLEAN, seq : 0..Beats,
   cancel : BOOLEAN, done : CompletionStatuses \cup {None}, reconciled : BOOLEAN]

resultReceipt == [version : {1, 2}, status : CompletionStatuses, rev : 0..Changes]

Cleaned == {"REVOKED", "NO_CREDENTIAL"}
RevocationStatuses ==
  Cleaned \cup {"PREPARED", "ANCHORED", "ACTIVE", "REVOCATION_PENDING", "REVOKING", "MANUAL_REQUIRED"}

\* permit: child_create_authorized_at is set.  claim, claimant, held: the revocation
\* claim, who has it, and that it has not lapsed.  spent: the retry budget of the cycle is
\* used up.  said: the receipt of the latest claim.
storedRevocation ==
  [status : RevocationStatuses, permit : BOOLEAN, accessor : BOOLEAN, expired : BOOLEAN,
   claim : 0..Claims, claimant : Holders \cup {None, "worker"}, held : BOOLEAN, spent : BOOLEAN,
   said : {None, "FAILED", "SYSTEM"},
   evidence : Evidence \cup {None}, confirms : SUBSET Persons]

\* No row is NULL.
ASSUME NoneIsNoRow == None \notin resultReceipt \cup storedRevocation

TablesTypeOK ==
  /\ schema \in {8, 9}
  /\ act \in [Actions -> storedAction]
  /\ holder \in [Leases -> Holders \cup {None}]
  /\ result \in [Leases -> resultReceipt \cup {None}]
  /\ reg \in [Holders -> 0..Changes]
  /\ rec \in [Leases -> storedRevocation \cup {None}]
  /\ child \in [Leases -> {"none", "live", "dead"}]

NewAction ==
  [status |-> "ABSENT", epoch |-> 0, runner |-> None, rev |-> 0, live |-> FALSE,
   authorized |-> TRUE, expected |-> FALSE, seq |-> 0, cancel |-> FALSE, done |-> None,
   reconciled |-> FALSE]

\* A run that stopped, an action that is over, a record that is: what nobody reads again
\* is dropped.
Stopped(row, status) ==
  [row EXCEPT !.status = status, !.live = FALSE, !.authorized = TRUE, !.seq = 0, !.cancel = FALSE]
Over(row, status) ==
  [NewAction EXCEPT !.status = status, !.epoch = row.epoch, !.done = row.done, !.reconciled = row.reconciled]

Prepared ==
  [status |-> "PREPARED", permit |-> FALSE, accessor |-> FALSE, expired |-> FALSE, claim |-> 0,
   claimant |-> None, held |-> FALSE, spent |-> FALSE, said |-> None, evidence |-> None, confirms |-> {}]

Closed(row, status) ==
  [Prepared EXCEPT !.status = status, !.evidence = row.evidence, !.confirms = row.confirms]

TablesInit ==
  /\ schema \in {8, 9}
  /\ act = [a \in Actions |-> NewAction]
  /\ holder = [f \in Leases |-> None]
  /\ result = [f \in Leases |-> None]
  /\ reg = [r \in Holders |-> 0]
  /\ rec = [f \in Leases |-> None]
  /\ child = [f \in Leases |-> "none"]

-----------------------------------------------------------------------------
(* The clock and the operators *)

\* lease_expires_at passes.
LeaseLapses(a) ==
  /\ act[a].live
  /\ act' = [act EXCEPT ![a].live = FALSE]
  /\ UNCHANGED <<schema, holder, result, reg, rec, child>>

\* authorization_expires_at passes; no lease reaches beyond it.
AuthorizationLapses(a) ==
  /\ act[a].authorized /\ act[a].status \in {"QUEUED", "LEASED", "RUNNING"}
  /\ act' = [act EXCEPT ![a].authorized = FALSE, ![a].live = FALSE]
  /\ UNCHANGED <<schema, holder, result, reg, rec, child>>

\* credential_expires_at and a minute pass: the issuer has dropped the child.
ChildExpires(f) ==
  /\ rec[f] # None /\ rec[f].status \notin Cleaned /\ ~rec[f].expired
  /\ rec' = [rec EXCEPT ![f].expired = TRUE]
  /\ child' = [child EXCEPT ![f] = "dead"]
  /\ UNCHANGED <<schema, act, holder, result, reg>>

\* claim_expires_at passes, or the attempts and the time of a retry cycle run out.
ClaimLapses(f) ==
  /\ rec[f] # None
  /\ \/ rec[f].held /\ rec' = [rec EXCEPT ![f].held = FALSE]
     \/ /\ rec[f].status \in {"REVOCATION_PENDING", "REVOKING"} /\ ~rec[f].spent
        /\ rec' = [rec EXCEPT ![f].spent = TRUE]
  /\ UNCHANGED <<schema, act, holder, result, reg, child>>

\* An operator changes the scope of a runner: a new scope_revision.  A disabled runner is
\* one whose scope changed and that is never heard of again.
RegistrationChanges(r) ==
  /\ \E a \in Actions : act[a].runner = r /\ act[a].status \in Occupying
  /\ \A h \in Holders : reg[h] < Changes
  /\ reg' = [reg EXCEPT ![r] = @ + 1]
  /\ UNCHANGED <<schema, act, holder, result, rec, child>>

\* A runner whose permit was accepted creates the child; it may do so late, but the
\* issuer gives the child no life beyond credential_expires_at.
ChildCreated(f) ==
  /\ rec[f] # None /\ rec[f].permit /\ child[f] = "none" /\ ~rec[f].expired
  /\ child' = [child EXCEPT ![f] = "live"]
  /\ UNCHANGED <<schema, act, holder, result, reg, rec>>
=============================================================================
