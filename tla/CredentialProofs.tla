-------------------------- MODULE CredentialProofs --------------------------
(***************************************************************************)
(* Proofs about the revocation ledger, for any callers (LedgerSpec) and    *)
(* with its brokers, workers and Vault (Spec), for every number of         *)
(* records, workers and operators and all times: how a record may end,     *)
(* what no call undoes, and that what a record says of its child token is  *)
(* true at Vault.                                                          *)
(*                                                                         *)
(* A call of the ledger changes one record.  The proof finds the moves of  *)
(* one record, shows that every step is such a move (LedgerMoves), and     *)
(* then reasons about moves.  With Vault, a second invariant relates each  *)
(* record to its child and each claim in work to its record.               *)
(***************************************************************************)
EXTENDS CredentialIssuance, FiniteSetTheorems, TLAPS

-----------------------------------------------------------------------------
(* The moves of one record *)

\* s is for the grant of r and its child, and people have said the same of it.
SameGrant(r, s) ==
  /\ s.action = r.action /\ s.epoch = r.epoch /\ s.expires = r.expires
  /\ s.authorizedAt = r.authorizedAt /\ s.ttl = r.ttl
SamePeople(r, s) == s.confirmations = r.confirmations /\ s.evidence = r.evidence
SameClaims(r, s) == s.claimEpoch = r.claimEpoch /\ s.base = r.base

Grants(r, s) ==
  /\ r.status = "ABSENT" /\ s.status = "PREPARED" /\ s.action \in Actions
  /\ s.authorizedAt = 0 /\ s.claimEpoch = 0 /\ s.base = 0 /\ s.confirmations = {}

Authorizes(r, s) ==
  /\ r.status = "PREPARED" /\ s.status = "PREPARED"
  /\ s.action = r.action /\ s.epoch = r.epoch /\ s.expires = r.expires
  /\ r.authorizedAt = 0 /\ s.authorizedAt # 0
  /\ s.authorizedAt + Reserve + s.ttl <= s.expires
  /\ actions[s.action].status = "RUNNING" /\ actions[s.action].epoch = s.epoch
  /\ SamePeople(r, s) /\ SameClaims(r, s)

Anchors(r, s) ==
  /\ r.status = "PREPARED" /\ s.status \in {"ANCHORED", "REVOCATION_PENDING"}
  /\ r.authorizedAt # 0
  /\ SameGrant(r, s) /\ SamePeople(r, s)
  /\ s.claimEpoch = r.claimEpoch /\ s.base \in {r.base, r.claimEpoch}

\* Activation, or the request to revoke.
Manages(r, s) ==
  /\ r.status \in Managed /\ s.status \in Managed \cup {"REVOCATION_PENDING"}
  /\ SameGrant(r, s) /\ SamePeople(r, s)
  /\ s.claimEpoch = r.claimEpoch /\ s.base \in {r.base, r.claimEpoch}

\* No credential: none was asked for, or it has died of its own accord.
Declines(r, s) ==
  /\ r.status = "PREPARED" /\ s.status = "NO_CREDENTIAL"
  /\ r.authorizedAt = 0 \/ r.expires <= clock
  /\ SameGrant(r, s) /\ SamePeople(r, s) /\ SameClaims(r, s)

Takes(r, s) ==
  /\ r.status \in {"REVOCATION_PENDING", "REVOKING"} /\ s.status \in {"REVOKING", "MANUAL_REQUIRED"}
  /\ r.claimEpoch - r.base < MaxAttempts
  /\ s.claimEpoch = r.claimEpoch + 1 /\ s.base = r.base
  /\ SameGrant(r, s) /\ SamePeople(r, s)

Tries(r, s) ==
  /\ r.status \in {"REVOCATION_PENDING", "REVOKING"}
  /\ s.status \in {"REVOCATION_PENDING", "REVOKING", "MANUAL_REQUIRED"}
  /\ SameGrant(r, s) /\ SamePeople(r, s) /\ SameClaims(r, s)

Completes(r, s) ==
  /\ r.status = "REVOKING" /\ s.status = "REVOKED" /\ s.completed # 0
  /\ SameGrant(r, s) /\ SamePeople(r, s) /\ SameClaims(r, s)

Requeues(r, s) ==
  /\ r.status = "MANUAL_REQUIRED" /\ r.confirmations = {} /\ s.status = "REVOCATION_PENDING"
  /\ SameGrant(r, s) /\ SamePeople(r, s)
  /\ s.claimEpoch = r.claimEpoch /\ s.base = r.claimEpoch

Confirms(r, s) ==
  /\ r.status = "MANUAL_REQUIRED" /\ s.status \in {"MANUAL_REQUIRED", "REVOKED"}
  /\ s.evidence # None /\ (r.evidence # None => s.evidence = r.evidence)
  /\ s.status = "REVOKED" => EnoughConfirmations(s.confirmations)
  /\ SameGrant(r, s) /\ SameClaims(r, s)

Move(r, s) ==
  \/ Grants(r, s) \/ Authorizes(r, s) \/ Anchors(r, s) \/ Manages(r, s) \/ Declines(r, s)
  \/ Takes(r, s) \/ Tries(r, s) \/ Completes(r, s) \/ Requeues(r, s) \/ Confirms(r, s)

-----------------------------------------------------------------------------
(* The invariant of the ledger *)

\* A record names its action; the attempts since the last decision of people are
\* bounded; operators confirm only what is theirs to confirm; only a completed
\* claim or enough operators end a revocation; and the child that was
\* authorized fits into the recorded lifetime, the call to Vault included.
Sound(r) ==
  /\ r.status # "ABSENT" => r.action \in Actions
  /\ r.status = "ABSENT" => r.authorizedAt = 0
  /\ r.claimEpoch - r.base \in 0..MaxAttempts
  /\ r.confirmations # {} => r.status \in {"MANUAL_REQUIRED", "REVOKED"} /\ r.evidence # None
  /\ r.status = "REVOKED" => r.completed # 0 \/ EnoughConfirmations(r.confirmations)
  /\ r.authorizedAt # 0 => r.authorizedAt + Reserve + r.ttl <= r.expires

LedgerInv ==
  /\ TypeOK
  /\ \A a \in Actions : actions[a].status \in {"LEASED", "RUNNING"} => actions[a].epoch # 0
  /\ \A i \in Ids : Sound(records[i])

\* Every move keeps a record sound.
LEMMA MoveSound ==
  ASSUME NEW r \in Record, NEW s \in Record, Sound(r), Move(r, s) PROVE Sound(s)
<1> USE DEF Sound, Managed
<1>0. /\ r.claimEpoch \in Nat /\ r.base \in Nat /\ s.claimEpoch \in Nat /\ s.base \in Nat
      /\ MaxAttempts \in Nat /\ Reserve \in Nat
  BY LedgerConstants DEF Record
<1>1. CASE Grants(r, s)
  BY <1>0, <1>1 DEF Grants
<1>2. CASE Authorizes(r, s)
  BY <1>0, <1>2 DEF Authorizes, SamePeople, SameClaims
<1>3. CASE Anchors(r, s)
  BY <1>0, <1>3 DEF Anchors, SameGrant, SamePeople
<1>4. CASE Manages(r, s)
  BY <1>0, <1>4 DEF Manages, SameGrant, SamePeople
<1>5. CASE Declines(r, s)
  BY <1>0, <1>5 DEF Declines, SameGrant, SamePeople, SameClaims
<1>6. CASE Takes(r, s)
  BY <1>0, <1>6 DEF Takes, SameGrant, SamePeople
<1>7. CASE Tries(r, s)
  BY <1>0, <1>7 DEF Tries, SameGrant, SamePeople, SameClaims
<1>8. CASE Completes(r, s)
  BY <1>0, <1>8 DEF Completes, SameGrant, SamePeople, SameClaims
<1>9. CASE Requeues(r, s)
  BY <1>0, <1>9 DEF Requeues, SameGrant, SamePeople
<1>10. CASE Confirms(r, s)
  BY <1>0, <1>10 DEF Confirms, SameGrant, SameClaims
<1>11. QED
  BY <1>1, <1>2, <1>3, <1>4, <1>5, <1>6, <1>7, <1>8, <1>9, <1>10 DEF Move

\* Assigning one field keeps the shape of a record.
LEMMA FieldType ==
  ASSUME NEW r \in Record
  PROVE  /\ \A v \in Statuses : [r EXCEPT !.status = v] \in Record
         /\ \A v \in Actions \cup {None} : [r EXCEPT !.action = v] \in Record
         /\ \A v \in 0..MaxEpoch : [r EXCEPT !.epoch = v] \in Record
         /\ \A v \in Nat : [r EXCEPT !.expires = v] \in Record
         /\ \A v \in Nat : [r EXCEPT !.authorizedAt = v] \in Record
         /\ \A v \in Nat : [r EXCEPT !.ttl = v] \in Record
         /\ \A v \in Nat : [r EXCEPT !.anchoredAt = v] \in Record
         /\ \A v \in Nat : [r EXCEPT !.availableAt = v] \in Record
         /\ \A v \in Nat : [r EXCEPT !.cycleAt = v] \in Record
         /\ \A v \in 0..MaxClaims : [r EXCEPT !.base = v] \in Record
         /\ \A v \in Workers \cup {None} : [r EXCEPT !.worker = v] \in Record
         /\ \A v \in 0..MaxClaims : [r EXCEPT !.claimEpoch = v] \in Record
         /\ \A v \in Nat : [r EXCEPT !.claimExpires = v] \in Record
         /\ \A v \in 0..MaxClaims : [r EXCEPT !.completed = v] \in Record
         /\ \A v \in Evidence \cup {None} : [r EXCEPT !.evidence = v] \in Record
         /\ \A v \in SUBSET Subjects : [r EXCEPT !.confirmations = v] \in Record
  BY DEF Record

LEMMA StatusNames ==
  /\ {"ABSENT", "PREPARED", "ANCHORED", "ACTIVE", "REVOCATION_PENDING", "REVOKING",
      "MANUAL_REQUIRED", "REVOKED", "NO_CREDENTIAL"} \subseteq Statuses
  BY DEF Statuses

LEMMA AbsentType == Absent \in Record
  BY LedgerConstants DEF Absent, Record, Statuses

LEMMA ReadingsType == TypeOK => /\ Readings \subseteq Nat \ {0} /\ clock \in Nat
                                /\ \A now \in Readings : now <= clock
  BY DEF Readings, TypeOK

\* What the child is given never exceeds what is left behind the reserve.
LEMMA QuantaFit ==
  ASSUME NEW x \in Int, NEW q \in Nat \ {0}
  PROVE  (x \div q) * q \in Int /\ (x \div q) * q <= x
  OBVIOUS

-----------------------------------------------------------------------------
(* Every call of the ledger is a move *)

\* What becomes of the records: one moves, or none.
AllMoved == /\ records' \in [Ids -> Record]
            /\ \A i \in Ids : records'[i] = records[i] \/ Move(records[i], records'[i])

LEMMA PutMoves ==
  ASSUME TypeOK, NEW i \in Ids, NEW s \in Record, Put(i, s), Move(records[i], s)
  PROVE  AllMoved
  BY DEF TypeOK, Put, AllMoved

LEMMA AskedMoves ==
  ASSUME NEW r \in Record, NEW now \in Nat, r.status \in Managed
  PROVE  /\ Asked(r, now) \in Record /\ Manages(r, Asked(r, now))
         /\ Asked(r, now).status = "REVOCATION_PENDING"
<1>1. /\ Asked(r, now) = [r EXCEPT !.status = "REVOCATION_PENDING", !.availableAt = now,
                                   !.base = r.claimEpoch, !.cycleAt = now]
      /\ r.claimEpoch \in 0..MaxClaims
  BY DEF Asked, Record
<1>2. Asked(r, now) \in Record /\ Asked(r, now).status = "REVOCATION_PENDING"
  BY <1>1 DEF Record, Statuses
<1>3. Manages(r, Asked(r, now))
  BY <1>1 DEF Record, Manages, SameGrant, SamePeople, Managed
<1>4. QED
  BY <1>2, <1>3

LEMMA UnclaimedMoves ==
  ASSUME NEW r \in Record
  PROVE  /\ Unclaimed(r) \in Record
         /\ SameGrant(r, Unclaimed(r)) /\ SamePeople(r, Unclaimed(r)) /\ SameClaims(r, Unclaimed(r))
<1>1. [r EXCEPT !.worker = None] \in Record
  BY FieldType
<1>2. [[r EXCEPT !.worker = None] EXCEPT !.claimExpires = 0] \in Record
  BY <1>1, FieldType
<1>3. Unclaimed(r) \in Record
  BY <1>2 DEF Unclaimed
<1>4. SameGrant(r, Unclaimed(r)) /\ SamePeople(r, Unclaimed(r)) /\ SameClaims(r, Unclaimed(r))
  BY DEF Unclaimed, Record, SameGrant, SamePeople, SameClaims
<1>5. QED
  BY <1>3, <1>4

LEMMA ManualMoves ==
  ASSUME NEW r \in Record, r.status \in {"REVOCATION_PENDING", "REVOKING"}
  PROVE  Manual(r) \in Record /\ Tries(r, Manual(r))
<1> DEFINE u == Unclaimed(r)
<1>1. u \in Record /\ SameGrant(r, u) /\ SamePeople(r, u) /\ SameClaims(r, u)
  BY UnclaimedMoves
<1>2. Manual(r) = [u EXCEPT !.status = "MANUAL_REQUIRED"]
  BY DEF Manual
<1> HIDE DEF u
<1>3. Manual(r) \in Record
  BY <1>1, <1>2 DEF Record, Statuses
<1>4. Tries(r, Manual(r))
  BY <1>1, <1>2 DEF Record, Tries, SameGrant, SamePeople, SameClaims
<1>5. QED
  BY <1>3, <1>4

LEMMA ClaimMoves ==
  ASSUME NEW r \in Record, NEW w \in Workers, NEW now \in Nat, Claimable(r, now), EpochLeft(r)
  PROVE  /\ Claimed(r, w, now) \in Record /\ Takes(r, Claimed(r, w, now))
         /\ Manual(Claimed(r, w, now)) \in Record /\ Takes(r, Manual(Claimed(r, w, now)))
<1> DEFINE s == Claimed(r, w, now)
<1>1. r.claimEpoch + 1 \in 0..MaxClaims /\ now + ClaimLease \in Nat
  BY LedgerConstants DEF EpochLeft, Record
<1>2. /\ r.status \in {"REVOCATION_PENDING", "REVOKING"}
      /\ r.claimEpoch - r.base < MaxAttempts
  BY LedgerConstants DEF Claimable, ClaimLapsed, Exhausted, Record
<1>3. s \in Record /\ s.status = "REVOKING"
  BY <1>1 DEF Claimed, Record, Statuses
<1>4. Takes(r, s)
  BY <1>2 DEF Takes, Claimed, SameGrant, SamePeople, Record
<1> HIDE DEF s
<1>5. Manual(s) \in Record /\ Tries(s, Manual(s)) /\ Manual(s).status = "MANUAL_REQUIRED"
  BY <1>3, ManualMoves DEF Manual, Unclaimed, Record
<1>6. Takes(r, Manual(s))
  BY <1>4, <1>5 DEF Takes, Tries, SameGrant, SamePeople, SameClaims
<1>7. QED
  BY <1>3, <1>4, <1>5, <1>6 DEF s

LEMMA GrantMoves ==
  ASSUME LedgerInv, NEW t \in tickets, Prepare(t) PROVE AllMoved
<1> DEFINE s == [Absent EXCEPT !.status = "PREPARED", !.action = t.action,
                               !.epoch = t.epoch, !.expires = t.expires]
<1>1. /\ t.id \in Ids /\ t.action \in Actions /\ t.epoch \in 0..MaxEpoch /\ t.expires \in Nat
      /\ Put(t.id, s) /\ records[t.id].status = "ABSENT" /\ TypeOK
  BY LedgerConstants DEF LedgerInv, TypeOK, Ticket, Prepare, GrantTaken
<1>2. /\ s.status = "PREPARED" /\ s.action = t.action /\ s.authorizedAt = 0
      /\ s.claimEpoch = 0 /\ s.base = 0 /\ s.confirmations = {}
  BY DEF Absent
<1>3. [Absent EXCEPT !.status = "PREPARED"] \in Record
  BY AbsentType, FieldType, StatusNames
<1>4. [[Absent EXCEPT !.status = "PREPARED"] EXCEPT !.action = t.action] \in Record
  BY <1>1, <1>3, FieldType
<1>5. [[[Absent EXCEPT !.status = "PREPARED"] EXCEPT !.action = t.action]
         EXCEPT !.epoch = t.epoch] \in Record
  BY <1>1, <1>4, FieldType
<1>6. s \in Record
  BY <1>1, <1>5, FieldType
<1>7. Grants(records[t.id], s)
  BY <1>1, <1>2 DEF Grants
<1> HIDE DEF s
<1>8. QED
  BY <1>1, <1>6, <1>7, PutMoves DEF Move

LEMMA AuthorizeMoves ==
  ASSUME LedgerInv, NEW i \in Ids, NEW now \in Readings, AuthorizeChildCreate(i, now)
  PROVE  AllMoved
<1> DEFINE r == records[i]
           n == ChildTTL(r, now)
           s == [r EXCEPT !.authorizedAt = now, !.ttl = n]
<1>1. /\ r \in Record /\ r.expires \in Nat /\ now \in Nat \ {0} /\ TypeOK
      /\ Reserve \in Nat /\ MinTTL \in Nat /\ Quantum \in Nat \ {0}
  BY LedgerConstants, ReadingsType DEF LedgerInv, TypeOK, Record
<1>2. /\ r.status = "PREPARED" /\ r.authorizedAt = 0 /\ MinTTL <= n /\ Put(i, s)
      /\ actions[r.action].status = "RUNNING" /\ actions[r.action].epoch = r.epoch
  BY DEF AuthorizeChildCreate, FenceCurrent
<1>3. n \in Int /\ n <= r.expires - now - Reserve
  <2> DEFINE x == r.expires - now - Reserve
  <2>1. x \in Int
    BY <1>1
  <2>2. n = (x \div Quantum) * Quantum
    BY DEF ChildTTL
  <2> HIDE DEF x, n
  <2>3. n \in Int /\ n <= x
    BY <1>1, <2>1, <2>2, QuantaFit
  <2>4. QED
    BY <2>3 DEF x
<1>4. n \in Nat /\ now + Reserve + n <= r.expires
  <2> HIDE DEF r, n
  <2> QED BY <1>1, <1>2, <1>3
<1> HIDE DEF r, n
<1>5. s \in Record
  BY <1>1, <1>4 DEF Record
<1>6. Authorizes(r, s)
  BY <1>1, <1>2, <1>4 DEF Authorizes, SamePeople, SameClaims, Record
<1> HIDE DEF s
<1>7. QED
  BY <1>1, <1>2, <1>5, <1>6, PutMoves DEF Move, r

LEMMA AnchorMoves ==
  ASSUME LedgerInv, NEW i \in Ids, NEW now \in Readings, RecordAnchor(i, now)
  PROVE  AllMoved
<1> DEFINE r == records[i]
           anchored == [r EXCEPT !.status = "ANCHORED", !.anchoredAt = clock]
           asked == Asked(anchored, clock)
<1>1. r \in Record /\ clock \in Nat /\ TypeOK
  BY DEF LedgerInv, TypeOK
<1>2. /\ r.status = "PREPARED" /\ r.authorizedAt # 0
      /\ Put(i, anchored) \/ Put(i, asked)
  BY DEF RecordAnchor, AskedUnless
<1> HIDE DEF r
<1>3. anchored \in Record /\ anchored.status = "ANCHORED" /\ anchored.status \in Managed
  BY <1>1 DEF Record, Statuses, Managed
<1>4. Anchors(r, anchored) /\ SameClaims(r, anchored)
  BY <1>1, <1>2 DEF Anchors, SameGrant, SamePeople, SameClaims, Record
<1> HIDE DEF anchored
<1>5. asked \in Record /\ Manages(anchored, asked) /\ asked.status = "REVOCATION_PENDING"
  BY <1>1, <1>3, AskedMoves
<1> HIDE DEF asked
<1>6. Anchors(r, asked)
  BY <1>2, <1>4, <1>5 DEF Anchors, Manages, SameGrant, SamePeople, SameClaims
<1>7. QED
  BY <1>1, <1>2, <1>3, <1>4, <1>5, <1>6, PutMoves DEF Move, r

LEMMA ActivateMoves ==
  ASSUME LedgerInv, NEW i \in Ids, NEW now \in Readings, Activate(i, now)
  PROVE  AllMoved
<1> DEFINE r == records[i]
           active == [r EXCEPT !.status = "ACTIVE"]
           asked == Asked(active, clock)
<1>1. r \in Record /\ clock \in Nat /\ now \in Nat /\ TypeOK
  BY ReadingsType DEF LedgerInv, TypeOK
<1>2. r.status \in Managed /\ (Put(i, active) \/ Put(i, asked) \/ Put(i, Asked(r, now)))
  BY DEF Activate, AskedUnless
<1> HIDE DEF r
<1>3. active \in Record /\ active.status \in Managed
  BY <1>1 DEF Record, Statuses, Managed
<1>4. Manages(r, active) /\ SameClaims(r, active)
  BY <1>1, <1>2 DEF Manages, SameGrant, SamePeople, SameClaims, Managed, Record
<1> HIDE DEF active
<1>5. asked \in Record /\ Manages(active, asked)
  BY <1>1, <1>3, AskedMoves
<1> HIDE DEF asked
<1>6. Manages(r, asked)
  BY <1>2, <1>4, <1>5 DEF Manages, SameGrant, SamePeople, SameClaims
<1>7. Asked(r, now) \in Record /\ Manages(r, Asked(r, now))
  BY <1>1, <1>2, AskedMoves
<1>8. QED
  BY <1>1, <1>2, <1>3, <1>4, <1>5, <1>6, <1>7, PutMoves DEF Move, r

LEMMA RequestMoves ==
  ASSUME LedgerInv, NEW i \in Ids, NEW now \in Nat, records[i].status \in Managed,
         Put(i, Asked(records[i], now))
  PROVE  AllMoved
<1>1. records[i] \in Record /\ TypeOK
  BY DEF LedgerInv, TypeOK
<1>2. QED
  BY <1>1, AskedMoves, PutMoves DEF Move

LEMMA DeclineMoves ==
  ASSUME LedgerInv, NEW i \in Ids, records[i].status = "PREPARED",
         records[i].authorizedAt = 0 \/ records[i].expires <= clock,
         Put(i, [records[i] EXCEPT !.status = "NO_CREDENTIAL"])
  PROVE  AllMoved
<1> DEFINE r == records[i]
           s == [r EXCEPT !.status = "NO_CREDENTIAL"]
<1>1. r \in Record /\ TypeOK
  BY DEF LedgerInv, TypeOK
<1>2. s \in Record
  BY <1>1 DEF Record, Statuses
<1>3. Declines(r, s)
  BY <1>1 DEF Declines, SameGrant, SamePeople, SameClaims, Record
<1> HIDE DEF s
<1>4. QED
  BY <1>1, <1>2, <1>3, PutMoves DEF Move, s

LEMMA ExhaustMoves ==
  ASSUME LedgerInv, NEW i \in Ids, records[i].status \in {"REVOCATION_PENDING", "REVOKING"},
         Put(i, Manual(records[i]))
  PROVE  AllMoved
<1>1. records[i] \in Record /\ TypeOK
  BY DEF LedgerInv, TypeOK
<1>2. QED
  BY <1>1, ManualMoves, PutMoves DEF Move

LEMMA TakeMoves ==
  ASSUME LedgerInv, NEW i \in Ids, NEW w \in Workers, NEW now \in Nat,
         ClaimRevocations(i, w, now) \/ ClaimPoisoned(i, w, now)
  PROVE  AllMoved
<1>1. records[i] \in Record /\ TypeOK
  BY DEF LedgerInv, TypeOK
<1>2. /\ Claimable(records[i], now) /\ EpochLeft(records[i])
      /\ Put(i, Claimed(records[i], w, now)) \/ Put(i, Manual(Claimed(records[i], w, now)))
  BY DEF ClaimRevocations, ClaimPoisoned, NextToClaim
<1>3. QED
  BY <1>1, <1>2, ClaimMoves, PutMoves DEF Move

LEMMA HeartbeatMoves ==
  ASSUME LedgerInv, NEW i \in Ids, NEW w, NEW e, NEW now \in Nat, Heartbeat(i, w, e, now)
  PROVE  AllMoved
<1> DEFINE r == records[i]
           s == [r EXCEPT !.claimExpires = now + ClaimLease]
<1>1. r \in Record /\ TypeOK /\ r.status = "REVOKING" /\ Put(i, s)
  BY DEF LedgerInv, TypeOK, Heartbeat, MatchesClaim
<1>2. now + ClaimLease \in Nat
  BY LedgerConstants
<1>3. s \in Record
  BY <1>1, <1>2, FieldType
<1>4. Tries(r, s)
  BY <1>1 DEF Tries, SameGrant, SamePeople, SameClaims, Record
<1> HIDE DEF s
<1>5. QED
  BY <1>1, <1>3, <1>4, PutMoves DEF Move

LEMMA CompleteMoves ==
  ASSUME LedgerInv, NEW i \in Ids, NEW w, NEW e \in 1..MaxClaims, NEW now \in Nat,
         CompleteRevocation(i, w, e, now)
  PROVE  AllMoved
<1> DEFINE r == records[i]
           u == Unclaimed(r)
           s == [u EXCEPT !.status = "REVOKED", !.completed = e]
<1>1. r \in Record /\ TypeOK /\ r.status = "REVOKING" /\ Put(i, s)
  BY DEF LedgerInv, TypeOK, CompleteRevocation, MatchesClaim
<1>2. u \in Record /\ SameGrant(r, u) /\ SamePeople(r, u) /\ SameClaims(r, u)
  BY <1>1, UnclaimedMoves
<1> HIDE DEF u
<1>3. e \in 0..MaxClaims /\ e # 0
  BY LedgerConstants
<1>4. [u EXCEPT !.status = "REVOKED"] \in Record
  BY <1>2, FieldType, StatusNames
<1>5. s \in Record
  BY <1>3, <1>4, FieldType
<1>6. Completes(r, s)
  BY <1>1, <1>2, <1>3 DEF Completes, SameGrant, SamePeople, SameClaims, Record
<1> HIDE DEF s
<1>7. QED
  BY <1>1, <1>5, <1>6, PutMoves DEF Move

LEMMA RetryMoves ==
  ASSUME LedgerInv, NEW i \in Ids, NEW w, NEW e, NEW now \in Nat, NEW d \in RetryDelays,
         RetryRevocation(i, w, e, now, d)
  PROVE  AllMoved
<1> DEFINE r == records[i]
           u == Unclaimed(r)
           s == [u EXCEPT !.status = "REVOCATION_PENDING", !.availableAt = now + d]
<1>1. /\ r \in Record /\ TypeOK /\ r.status = "REVOKING"
      /\ Put(i, Manual(r)) \/ Put(i, s)
  BY DEF LedgerInv, TypeOK, RetryRevocation, MatchesClaim
<1>2. u \in Record /\ SameGrant(r, u) /\ SamePeople(r, u) /\ SameClaims(r, u)
  BY <1>1, UnclaimedMoves
<1> HIDE DEF u
<1>3. now + d \in Nat
  BY LedgerConstants
<1>4. [u EXCEPT !.status = "REVOCATION_PENDING"] \in Record
  BY <1>2, FieldType, StatusNames
<1>5. s \in Record
  BY <1>3, <1>4, FieldType
<1>6. Tries(r, s)
  BY <1>1, <1>2 DEF Tries, SameGrant, SamePeople, SameClaims, Record
<1> HIDE DEF s
<1>7. QED
  BY <1>1, <1>5, <1>6, ManualMoves, PutMoves DEF Move

LEMMA RequeueMoves ==
  ASSUME LedgerInv, NEW i \in Ids, NEW now \in Nat, RequeueManual(i, now)
  PROVE  AllMoved
<1> DEFINE r == records[i]
           s == [r EXCEPT !.status = "REVOCATION_PENDING", !.availableAt = now,
                          !.base = r.claimEpoch, !.cycleAt = now]
<1>1. /\ r \in Record /\ TypeOK /\ r.status = "MANUAL_REQUIRED" /\ r.confirmations = {}
      /\ Put(i, s)
  BY DEF LedgerInv, TypeOK, RequeueManual
<1>2. r.claimEpoch \in 0..MaxClaims
  BY <1>1 DEF Record
<1>3. s \in Record
  BY <1>1, <1>2 DEF Record, Statuses
<1>4. Requeues(r, s)
  BY <1>1 DEF Requeues, SameGrant, SamePeople, Record
<1> HIDE DEF s
<1>5. QED
  BY <1>1, <1>3, <1>4, PutMoves DEF Move

LEMMA ConfirmMoves ==
  ASSUME LedgerInv, NEW i \in Ids, NEW s \in Subjects, NEW h \in Evidence,
         SubmitExternalConfirmation(i, s, h)
  PROVE  AllMoved
<1> DEFINE r == records[i]
           confirmed == [r EXCEPT !.evidence = h, !.confirmations = r.confirmations \cup {s}]
           revoked == [confirmed EXCEPT !.status = "REVOKED"]
<1>1. /\ r \in Record /\ TypeOK /\ r.status = "MANUAL_REQUIRED" /\ r.evidence \in {None, h}
      /\ \/ Put(i, confirmed)
         \/ Put(i, revoked) /\ EnoughConfirmations(confirmed.confirmations)
  BY DEF LedgerInv, TypeOK, SubmitExternalConfirmation
<1>2. r.confirmations \cup {s} \in SUBSET Subjects
  BY <1>1 DEF Record
<1> HIDE DEF r
<1>3. [r EXCEPT !.evidence = h] \in Record
  BY <1>1, FieldType
<1>4. confirmed \in Record
  BY <1>2, <1>3, FieldType
<1>5. /\ confirmed.status = r.status /\ confirmed.evidence = h
      /\ SameGrant(r, confirmed) /\ SameClaims(r, confirmed)
  BY <1>1 DEF SameGrant, SameClaims, Record
<1>6. Confirms(r, confirmed)
  BY <1>1, <1>5, LedgerConstants DEF Confirms
<1> HIDE DEF confirmed
<1>7. revoked \in Record
  BY <1>4, FieldType, StatusNames
<1>8. /\ revoked.status = "REVOKED" /\ revoked.evidence = h
      /\ revoked.confirmations = confirmed.confirmations
      /\ SameGrant(r, revoked) /\ SameClaims(r, revoked)
  BY <1>4, <1>5 DEF SameGrant, SameClaims, Record
<1>9. EnoughConfirmations(confirmed.confirmations) => Confirms(r, revoked)
  BY <1>1, <1>8, LedgerConstants DEF Confirms
<1> HIDE DEF revoked
<1>10. QED
  BY <1>1, <1>4, <1>6, <1>7, <1>9, PutMoves DEF Move, r

-----------------------------------------------------------------------------
(* The ledger under any callers *)

\* What the action source answers: a lease has an epoch.
SourceOK ==
  /\ actions \in [Actions -> ActionView]
  /\ \A a \in Actions : actions[a].status \in {"LEASED", "RUNNING"} => actions[a].epoch # 0

\* What the source may show of an action.
GoodView(v) == v \in ActionView /\ (v.status \in {"LEASED", "RUNNING"} => v.epoch # 0)

LEMMA ViewOfAction ==
  ASSUME NEW v, NEW views \in [Actions -> ActionView], \A b \in Actions : GoodView(views[b]),
         NEW a \in Actions, SetActions([views EXCEPT ![a] = v]), GoodView(v)
  PROVE  SourceOK' /\ UNCHANGED <<clock, tickets, records>>
  BY DEF SourceOK, SetActions, GoodView

LEMMA SweptIsGood ==
  ASSUME SourceOK, NEW lapsed \in SUBSET Actions
  PROVE  /\ Swept(lapsed) \in [Actions -> ActionView]
         /\ \A a \in Actions : GoodView(Swept(lapsed)[a])
<1>1. ASSUME NEW a \in Actions PROVE GoodView(actions[a]) /\ GoodView(Ended(actions[a]))
  BY <1>1 DEF SourceOK, GoodView, Ended, ActionView
<1>2. QED
  BY <1>1 DEF Swept, GoodView

LEMMA SourceKept ==
  ASSUME LedgerInv, NEW now \in Readings, ActionMoves(now)
  PROVE  SourceOK' /\ UNCHANGED <<clock, tickets, records>>
<1>1. SourceOK /\ now \in Nat /\ clock \in Nat
  BY ReadingsType DEF LedgerInv, TypeOK, SourceOK
<1>2. \A t \in Nat, d \in LeaseTimes, x \in Nat : LeaseEnd(t, d, x) \in Nat
  BY LedgerConstants DEF LeaseEnd
<1>3. actions \in [Actions -> ActionView] /\ \A a \in Actions : GoodView(actions[a])
  BY <1>1 DEF SourceOK, GoodView
<1>4. ASSUME NEW a \in Actions, NEW d \in LeaseTimes, RenewAction(a, now, d)
      PROVE  SourceOK' /\ UNCHANGED <<clock, tickets, records>>
  <2> DEFINE v == actions[a]
             u == [v EXCEPT !.expires = LeaseEnd(now, d, v.auth)]
  <2>1. LeaseEnd(now, d, v.auth) \in Nat
    BY <1>1, <1>2, <1>3 DEF ActionView
  <2>2. GoodView(u) /\ SetActions([actions EXCEPT ![a] = u])
    BY <1>3, <1>4, <2>1 DEF RenewAction, SetAction, ActionView, GoodView
  <2>3. QED
    BY <1>3, <2>2, ViewOfAction
<1>5. ASSUME NEW a \in Actions, StartAction(a)
      PROVE  SourceOK' /\ UNCHANGED <<clock, tickets, records>>
  <2> DEFINE u == [actions[a] EXCEPT !.status = "RUNNING"]
  <2>1. GoodView(u) /\ SetActions([actions EXCEPT ![a] = u])
    BY <1>3, <1>5 DEF StartAction, SetAction, ActionView, GoodView
  <2>2. QED
    BY <1>3, <2>1, ViewOfAction
<1>6. ASSUME NEW lapsed \in SUBSET Actions, SetActions(Swept(lapsed))
      PROVE  SourceOK' /\ UNCHANGED <<clock, tickets, records>>
  BY <1>1, <1>6, SweptIsGood DEF SetActions, SourceOK, GoodView
<1>7. ASSUME NEW lapsed \in SUBSET Actions, NEW a \in Actions,
             \/ BarAction(lapsed, a) \/ FinishAction(lapsed, a)
             \/ \E d \in LeaseTimes, auth \in AuthTimes : LeaseAction(lapsed, a, d, auth)
      PROVE  SourceOK' /\ UNCHANGED <<clock, tickets, records>>
  <2> DEFINE views == Swept(lapsed)
             v == views[a]
  <2>1. views \in [Actions -> ActionView] /\ (\A b \in Actions : GoodView(views[b])) /\ v \in ActionView
    BY <1>1, SweptIsGood
  <2>2. CASE BarAction(lapsed, a)
    <3> DEFINE u == [v EXCEPT !.barred = TRUE]
    <3>1. GoodView(u) /\ SetActions([views EXCEPT ![a] = u])
      BY <2>1, <2>2 DEF BarAction, ActionView, GoodView
    <3>2. QED
      BY <2>1, <3>1, ViewOfAction
  <2>3. CASE FinishAction(lapsed, a)
    <3> DEFINE u == [v EXCEPT !.status = "OVER", !.expires = 0]
    <3>1. GoodView(u) /\ SetActions([views EXCEPT ![a] = u])
      BY <2>1, <2>3 DEF FinishAction, ActionView, GoodView
    <3>2. QED
      BY <2>1, <3>1, ViewOfAction
  <2>4. ASSUME NEW d \in LeaseTimes, NEW auth \in AuthTimes, LeaseAction(lapsed, a, d, auth)
        PROVE  SourceOK' /\ UNCHANGED <<clock, tickets, records>>
    <3> DEFINE u == [status |-> "LEASED", epoch |-> v.epoch + 1,
                     expires |-> LeaseEnd(clock, d, auth), auth |-> auth, barred |-> FALSE]
    <3>1. v.epoch + 1 \in 0..MaxEpoch /\ v.epoch + 1 # 0 /\ auth \in Nat
      BY <2>1, <2>4, LedgerConstants DEF LeaseAction, ActionView
    <3>2. LeaseEnd(clock, d, auth) \in Nat
      BY <1>1, <1>2, <3>1
    <3>3. GoodView(u)
      BY <3>1, <3>2 DEF ActionView, GoodView
    <3>4. SetActions([views EXCEPT ![a] = u])
      BY <2>4 DEF LeaseAction
    <3>5. QED
      BY <2>1, <3>3, <3>4, ViewOfAction
  <2>5. QED
    BY <1>7, <2>2, <2>3, <2>4
<1>8. QED
  BY <1>4, <1>5, <1>6, <1>7 DEF ActionMoves

\* A step that leaves the source alone, moves the records and keeps the
\* tickets well formed keeps the invariant.
LEMMA MovesKeep ==
  ASSUME LedgerInv, AllMoved, SourceOK', clock' \in Nat, tickets' \subseteq Ticket
  PROVE  LedgerInv'
<1>1. ASSUME NEW i \in Ids PROVE Sound(records'[i])
  <2>1. records[i] \in Record /\ records'[i] \in Record /\ Sound(records[i])
    BY DEF LedgerInv, TypeOK, AllMoved
  <2>2. QED
    BY <2>1, MoveSound DEF AllMoved
<1>2. QED
  BY <1>1 DEF LedgerInv, TypeOK, AllMoved, SourceOK

\* A call that resolves its action leaves a ticket for a lease with an epoch.
LEMMA TicketsKept ==
  ASSUME LedgerInv, NEW now \in Readings, NEW i \in Ids,
         \/ \E a \in Actions, d \in Lifetimes : ResolvePrepare(i, a, now, now + d)
         \/ ResolveNoCredential(i, now)
  PROVE  tickets' \subseteq Ticket /\ UNCHANGED <<clock, actions, records>>
<1>1. now \in Nat /\ SourceOK /\ tickets \subseteq Ticket /\ records[i] \in Record /\ Sound(records[i])
  BY ReadingsType DEF LedgerInv, TypeOK, SourceOK
<1>2. \A a \in Actions : \A t : Resolved(a, t) => actions[a].epoch \in 1..MaxEpoch
  BY <1>1, LedgerConstants DEF Resolved, SourceOK, ActionView
<1>3. ASSUME NEW a \in Actions, NEW d \in Lifetimes, ResolvePrepare(i, a, now, now + d)
      PROVE  tickets' \subseteq Ticket /\ UNCHANGED <<clock, actions, records>>
  <2>1. actions[a].epoch \in 1..MaxEpoch /\ now + d \in Nat
    BY <1>1, <1>2, <1>3, LedgerConstants DEF ResolvePrepare
  <2>2. QED
    BY <1>1, <1>3, <2>1 DEF ResolvePrepare, Ticket
<1>4. CASE ResolveNoCredential(i, now)
  <2>1. records[i].action \in Actions /\ records[i].expires \in Nat
    BY <1>1, <1>4 DEF ResolveNoCredential, Sound, Record
  <2>2. records[i].epoch \in 1..MaxEpoch
    BY <1>2, <1>4, <2>1 DEF ResolveNoCredential
  <2>3. QED
    BY <1>1, <1>4, <2>1, <2>2 DEF ResolveNoCredential, Ticket
<1>5. QED
  BY <1>3, <1>4

LEMMA IssueStep ==
  ASSUME LedgerInv, NEW now \in Readings, IssueMoves(now)
  PROVE  AllMoved /\ tickets' \subseteq Ticket /\ UNCHANGED <<clock, actions>>
<1>1. now \in Nat /\ tickets \subseteq Ticket /\ TypeOK
  BY ReadingsType DEF LedgerInv, TypeOK
<1>2. ASSUME NEW i \in Ids, NEW a \in Actions, NEW d \in Lifetimes,
             ResolvePrepare(i, a, now, now + d)
      PROVE  AllMoved /\ tickets' \subseteq Ticket /\ UNCHANGED <<clock, actions>>
  BY <1>1, <1>2, TicketsKept DEF AllMoved, TypeOK
<1>3. ASSUME NEW t \in tickets,
             Prepare(t) \/ PrepareAgain(t) \/ RecordNoCredential(t) \/ RecordNoCredentialRefused(t)
      PROVE  AllMoved /\ tickets' \subseteq Ticket /\ UNCHANGED <<clock, actions>>
  <2>1. t.id \in Ids
    BY <1>1 DEF Ticket
  <2>2. CASE Prepare(t)
    BY <1>1, <2>2, GrantMoves DEF Prepare, Put
  <2>3. CASE PrepareAgain(t) \/ RecordNoCredentialRefused(t)
    BY <1>1, <2>3 DEF PrepareAgain, RecordNoCredentialRefused, AllMoved, TypeOK
  <2>4. CASE RecordNoCredential(t)
    BY <1>1, <2>1, <2>4, DeclineMoves DEF RecordNoCredential, Put
  <2>5. QED
    BY <1>3, <2>2, <2>3, <2>4
<1>4. ASSUME NEW i \in Ids,
             \/ AuthorizeChildCreate(i, now) \/ RecordAnchor(i, now) \/ RecordAnchorAgain(i, now)
             \/ Activate(i, now) \/ ResolveNoCredential(i, now) \/ RequestRevocation(i, now)
      PROVE  AllMoved /\ tickets' \subseteq Ticket /\ UNCHANGED <<clock, actions>>
  <2>1. CASE AuthorizeChildCreate(i, now)
    BY <1>1, <2>1, AuthorizeMoves DEF AuthorizeChildCreate, Put
  <2>2. CASE RecordAnchor(i, now)
    BY <1>1, <2>2, AnchorMoves DEF RecordAnchor, Put
  <2>3. CASE RecordAnchorAgain(i, now)
    BY <1>1, <2>3, RequestMoves DEF RecordAnchorAgain, Put, TypeOK
  <2>4. CASE Activate(i, now)
    BY <1>1, <2>4, ActivateMoves DEF Activate, Put
  <2>5. CASE ResolveNoCredential(i, now)
    BY <1>1, <2>5, TicketsKept DEF AllMoved, TypeOK
  <2>6. CASE RequestRevocation(i, now)
    BY <1>1, <2>6, RequestMoves DEF RequestRevocation, Put
  <2>7. QED
    BY <1>4, <2>1, <2>2, <2>3, <2>4, <2>5, <2>6
<1>5. QED
  BY <1>2, <1>3, <1>4 DEF IssueMoves

LEMMA RevocationStep ==
  ASSUME LedgerInv, NEW now \in Readings,
         RecoveryMoves(now) \/ RevocationMoves(now) \/ OperatorMoves(now)
  PROVE  AllMoved /\ UNCHANGED <<clock, actions, tickets>>
<1>1. now \in Nat /\ now <= clock /\ clock \in Nat
  BY ReadingsType DEF LedgerInv
<1>2. ASSUME NEW i \in Ids,
             RecoverPrepared(i, now) \/ RecoverManaged(i, now) \/ RecoverExhausted(i, now)
      PROVE  AllMoved /\ UNCHANGED <<clock, actions, tickets>>
  <2>1. CASE RecoverPrepared(i, now)
    <3>1. records[i].expires <= clock
      BY <1>1, <2>1, LedgerConstants DEF RecoverPrepared, LedgerInv, TypeOK, Record
    <3>2. QED
      BY <2>1, <3>1, DeclineMoves DEF RecoverPrepared, Put
  <2>2. CASE RecoverManaged(i, now)
    BY <1>1, <2>2, RequestMoves DEF RecoverManaged, Put
  <2>3. CASE RecoverExhausted(i, now)
    BY <2>3, ExhaustMoves DEF RecoverExhausted, ClaimLapsed, Put
  <2>4. QED
    BY <1>2, <2>1, <2>2, <2>3
<1>3. ASSUME NEW i \in Ids, NEW w \in Workers,
             ClaimRevocations(i, w, now) \/ ClaimPoisoned(i, w, now)
      PROVE  AllMoved /\ UNCHANGED <<clock, actions, tickets>>
  BY <1>1, <1>3, TakeMoves DEF ClaimRevocations, ClaimPoisoned, Put
<1>4. ASSUME NEW i \in Ids, NEW w \in Workers, NEW e \in 1..MaxClaims,
             \/ Heartbeat(i, w, e, now) \/ CompleteRevocation(i, w, e, now)
             \/ RequireManual(i, w, e, now)
             \/ \E d \in RetryDelays : RetryRevocation(i, w, e, now, d)
      PROVE  AllMoved /\ UNCHANGED <<clock, actions, tickets>>
  <2>1. CASE Heartbeat(i, w, e, now)
    BY <1>1, <2>1, HeartbeatMoves DEF Heartbeat, Put
  <2>2. CASE CompleteRevocation(i, w, e, now)
    BY <1>1, <2>2, CompleteMoves DEF CompleteRevocation, Put
  <2>3. CASE RequireManual(i, w, e, now)
    BY <2>3, ExhaustMoves DEF RequireManual, MatchesClaim, Put
  <2>4. ASSUME NEW d \in RetryDelays, RetryRevocation(i, w, e, now, d)
        PROVE  AllMoved /\ UNCHANGED <<clock, actions, tickets>>
    BY <1>1, <2>4, RetryMoves DEF RetryRevocation, Put
  <2>5. QED
    BY <1>4, <2>1, <2>2, <2>3, <2>4
<1>5. ASSUME NEW i \in Ids, RequeueManual(i, now)
      PROVE  AllMoved /\ UNCHANGED <<clock, actions, tickets>>
  BY <1>1, <1>5, RequeueMoves DEF RequeueManual, Put
<1>6. ASSUME NEW i \in Ids, NEW s \in Subjects, NEW h \in Evidence,
             SubmitExternalConfirmation(i, s, h)
      PROVE  AllMoved /\ UNCHANGED <<clock, actions, tickets>>
  BY <1>6, ConfirmMoves DEF SubmitExternalConfirmation, Put
<1>7. QED
  BY <1>2, <1>3, <1>4, <1>5, <1>6 DEF RecoveryMoves, RevocationMoves, OperatorMoves

\* Every step of the ledger keeps the invariant, moves no record but by a
\* move, and never turns the clock back.
LEMMA LedgerStep ==
  ASSUME LedgerInv, [LedgerNext]_ledgerVars
  PROVE  LedgerInv' /\ AllMoved /\ clock' \in Nat /\ clock <= clock'
<1>1. TypeOK /\ SourceOK /\ clock \in Nat
  BY DEF LedgerInv, TypeOK, SourceOK
<1>2. CASE UNCHANGED ledgerVars
  <2>1. AllMoved /\ SourceOK'
    BY <1>1, <1>2 DEF ledgerVars, AllMoved, TypeOK, SourceOK
  <2>2. QED
    BY <1>1, <1>2, <2>1, MovesKeep DEF ledgerVars, TypeOK
<1>3. CASE Tick
  <2>1. AllMoved /\ SourceOK' /\ tickets' = tickets /\ clock' = clock + 1
    BY <1>1, <1>3 DEF Tick, AllMoved, TypeOK, SourceOK
  <2>2. QED
    BY <1>1, <2>1, MovesKeep DEF TypeOK
<1>4. ASSUME NEW now \in Readings, ActionMoves(now)
      PROVE  LedgerInv' /\ AllMoved /\ clock' \in Nat /\ clock <= clock'
  <2>1. SourceOK' /\ UNCHANGED <<clock, tickets, records>>
    BY <1>4, SourceKept
  <2>2. AllMoved
    BY <1>1, <2>1 DEF AllMoved, TypeOK
  <2>3. QED
    BY <1>1, <2>1, <2>2, MovesKeep DEF TypeOK
<1>5. ASSUME NEW now \in Readings, IssueMoves(now)
      PROVE  LedgerInv' /\ AllMoved /\ clock' \in Nat /\ clock <= clock'
  <2>1. AllMoved /\ tickets' \subseteq Ticket /\ UNCHANGED <<clock, actions>>
    BY <1>5, IssueStep
  <2>2. SourceOK'
    BY <1>1, <2>1 DEF SourceOK
  <2>3. QED
    BY <1>1, <2>1, <2>2, MovesKeep
<1>6. ASSUME NEW now \in Readings,
             RecoveryMoves(now) \/ RevocationMoves(now) \/ OperatorMoves(now)
      PROVE  LedgerInv' /\ AllMoved /\ clock' \in Nat /\ clock <= clock'
  <2>1. AllMoved /\ UNCHANGED <<clock, actions, tickets>>
    BY <1>6, RevocationStep
  <2>2. SourceOK'
    BY <1>1, <2>1 DEF SourceOK
  <2>3. QED
    BY <1>1, <2>1, <2>2, MovesKeep DEF TypeOK
<1>7. QED
  BY <1>2, <1>3, <1>4, <1>5, <1>6 DEF LedgerNext

LEMMA LedgerStart == LedgerInit => LedgerInv
<1> SUFFICES ASSUME LedgerInit PROVE LedgerInv
  OBVIOUS
<1>1. records \in [Ids -> Record] /\ \A i \in Ids : records[i] = Absent
  BY AbsentType DEF LedgerInit
<1>2. SourceOK
  BY LedgerConstants DEF LedgerInit, SourceOK, ActionView
<1>3. Sound(Absent)
  BY LedgerConstants DEF Sound, Absent
<1>4. QED
  BY <1>1, <1>2, <1>3 DEF LedgerInit, LedgerInv, TypeOK, SourceOK

\* The invariant says what the run checks.
LEMMA LedgerInvSafe == LedgerInv => LedgerSafety
  BY DEF LedgerInv, Sound, LedgerSafety, TwoPersonRule, RetryBounded, EnoughConfirmations

\* A move takes back no requested revocation, no final status and no confirmation.
LEMMA MovesHold == LedgerInv /\ AllMoved => RevocationIsForever /\ ConfirmationsHold
<1> SUFFICES ASSUME LedgerInv, AllMoved, NEW i \in Ids
             PROVE  /\ records[i].status \in Requested => records'[i].status \in Requested
                    /\ records[i].status \in Terminal => records'[i] = records[i]
                    /\ records[i].confirmations # {} =>
                         /\ records'[i].claimEpoch = records[i].claimEpoch
                         /\ records'[i].status \in {"MANUAL_REQUIRED", "REVOKED"}
                         /\ records'[i].evidence = records[i].evidence
  BY DEF RevocationIsForever, ConfirmationsHold
<1> DEFINE r == records[i]
           s == records'[i]
<1>1. Sound(r) /\ (s = r \/ Move(r, s))
  BY DEF LedgerInv, AllMoved
<1> HIDE DEF r, s
<1>2. SUFFICES /\ r.status \in Requested => s.status \in Requested
               /\ r.status \in Terminal => s = r
               /\ r.confirmations # {} => /\ s.claimEpoch = r.claimEpoch
                                          /\ s.status \in {"MANUAL_REQUIRED", "REVOKED"}
                                          /\ s.evidence = r.evidence
  BY DEF r, s
<1>3. CASE s = r
  BY <1>1, <1>3 DEF Sound
<1>4. CASE Grants(r, s) \/ Authorizes(r, s) \/ Anchors(r, s) \/ Manages(r, s) \/ Declines(r, s)
  BY <1>1, <1>4 DEF Sound, Grants, Authorizes, Anchors, Manages, Declines, Managed, Requested, Terminal
<1>5. CASE Takes(r, s) \/ Tries(r, s) \/ Completes(r, s)
  BY <1>1, <1>5 DEF Sound, Takes, Tries, Completes, Requested, Terminal
<1>6. CASE Requeues(r, s)
  BY <1>1, <1>6 DEF Sound, Requeues, Requested, Terminal
<1>7. CASE Confirms(r, s)
  BY <1>1, <1>7 DEF Sound, Confirms, SameClaims, Requested, Terminal
<1>8. QED
  BY <1>1, <1>3, <1>4, <1>5, <1>6, <1>7 DEF Move

LEMMA LedgerInvariant == LedgerSpec => []LedgerInv
<1>1. LedgerInv /\ [LedgerNext]_ledgerVars => LedgerInv'
  BY LedgerStep
<1>2. QED
  BY <1>1, LedgerStart, PTL DEF LedgerSpec

\* Under any callers the ledger ends a revocation only by a completed claim or by
\* two operators with an administrator among them, and within its attempts
\* (CompleteRevocation, SubmitExternalConfirmation, Exhausted).
THEOREM LedgerIsSafe == LedgerSpec => []LedgerSafety
  BY LedgerInvariant, LedgerInvSafe, PTL

\* Under any callers no call takes back a requested revocation, a final status
\* or an operator's confirmation (RecordAnchor, Activate, RequeueManual).
THEOREM LedgerHolds == LedgerSpec => LedgerSteps
<1>1. LedgerInv /\ [LedgerNext]_ledgerVars => [RevocationIsForever /\ ConfirmationsHold]_ledgerVars
  BY LedgerStep, MovesHold
<1>2. QED
  BY <1>1, LedgerInvariant, PTL DEF LedgerSpec, LedgerSteps

-----------------------------------------------------------------------------
(* One record per lease, and what InspectCleanup answers *)

Present(r) == r.status # "ABSENT"

\* No two of the records rs are for one lease.
Unique(rs) ==
  \A i, k \in Ids :
    /\ Present(rs[i]) /\ Present(rs[k])
    /\ rs[i].action = rs[k].action /\ rs[i].epoch = rs[k].epoch
    => i = k

\* Records and calls are for leases that were given, and no lease has two records.
GrantInv ==
  /\ \A i \in Ids : Present(records[i]) => records[i].epoch \in 1..actions[records[i].action].epoch
  /\ \A t \in tickets : t.epoch \in 1..actions[t.action].epoch
  /\ Unique(records)

\* The leases of an action follow one another.
LEMMA EpochsGrow ==
  ASSUME LedgerInv, [LedgerNext]_ledgerVars, NEW a \in Actions
  PROVE  actions'[a].epoch \in Nat /\ actions[a].epoch <= actions'[a].epoch
<1>1. /\ actions \in [Actions -> ActionView] /\ actions[a].epoch \in Nat
      /\ \A b \in Actions : actions[b] \in ActionView
  BY LedgerConstants DEF LedgerInv, TypeOK, ActionView
<1>2. ASSUME NEW lapsed \in SUBSET Actions, NEW b \in Actions
      PROVE  Swept(lapsed)[b] \in ActionView /\ Swept(lapsed)[b].epoch = actions[b].epoch
  BY <1>1 DEF Swept, Ended, ActionView
<1>3. ASSUME NEW now \in Readings, ActionMoves(now)
      PROVE  actions'[a].epoch \in {actions[a].epoch, actions[a].epoch + 1}
  <2>1. ASSUME NEW b \in Actions, NEW d \in LeaseTimes, StartAction(b) \/ RenewAction(b, now, d)
        PROVE  actions'[a].epoch = actions[a].epoch
    BY <1>1, <2>1 DEF StartAction, RenewAction, SetAction, SetActions, ActionView
  <2>2. ASSUME NEW b \in Actions, StartAction(b) PROVE actions'[a].epoch = actions[a].epoch
    BY <1>1, <2>2 DEF StartAction, SetAction, SetActions, ActionView
  <2>3. ASSUME NEW lapsed \in SUBSET Actions, SetActions(Swept(lapsed))
        PROVE  actions'[a].epoch = actions[a].epoch
    BY <1>2, <2>3 DEF SetActions
  <2>4. ASSUME NEW lapsed \in SUBSET Actions, NEW b \in Actions,
               \/ BarAction(lapsed, b) \/ FinishAction(lapsed, b)
               \/ \E d \in LeaseTimes, auth \in AuthTimes : LeaseAction(lapsed, b, d, auth)
        PROVE  actions'[a].epoch \in {actions[a].epoch, actions[a].epoch + 1}
    <3> DEFINE views == Swept(lapsed)
    <3>1. DOMAIN views = Actions
      BY DEF Swept
    <3>2. PICK v : actions' = [views EXCEPT ![b] = v] /\ v.epoch \in {views[b].epoch, views[b].epoch + 1}
      <4> DEFINE bar == [views[b] EXCEPT !.barred = TRUE]
                 fin == [views[b] EXCEPT !.status = "OVER", !.expires = 0]
                 new(d, auth) ==
                   [status |-> "LEASED", epoch |-> views[b].epoch + 1,
                    expires |-> LeaseEnd(clock, d, auth), auth |-> auth, barred |-> FALSE]
      <4>1. bar.epoch = views[b].epoch /\ fin.epoch = views[b].epoch
        BY <1>2 DEF ActionView
      <4>2. CASE BarAction(lapsed, b)
        <5>1. actions' = [views EXCEPT ![b] = bar]
          BY <4>2 DEF BarAction, SetActions
        <5>2. QED
          BY <4>1, <5>1
      <4>3. CASE FinishAction(lapsed, b)
        <5>1. actions' = [views EXCEPT ![b] = fin]
          BY <4>3 DEF FinishAction, SetActions
        <5>2. QED
          BY <4>1, <5>1
      <4>4. ASSUME NEW d \in LeaseTimes, NEW auth \in AuthTimes, LeaseAction(lapsed, b, d, auth)
            PROVE  \E v : actions' = [views EXCEPT ![b] = v] /\ v.epoch = views[b].epoch + 1
        <5>1. actions' = [views EXCEPT ![b] = new(d, auth)]
          BY <4>4 DEF LeaseAction, SetActions
        <5>2. new(d, auth).epoch = views[b].epoch + 1
          OBVIOUS
        <5>3. QED
          BY <5>1, <5>2
      <4>5. QED
        BY <2>4, <4>2, <4>3, <4>4
    <3>3. views[a].epoch = actions[a].epoch
      BY <1>2
    <3> HIDE DEF views
    <3>4. QED
      BY <3>1, <3>2, <3>3
  <2>5. QED
    BY <1>3, <2>1, <2>2, <2>3, <2>4 DEF ActionMoves
<1>4. CASE actions' = actions
  BY <1>1, <1>4
<1>5. ASSUME NEW now \in Readings, IssueMoves(now) PROVE actions' = actions
  BY <1>5, IssueStep
<1>6. ASSUME NEW now \in Readings,
             RecoveryMoves(now) \/ RevocationMoves(now) \/ OperatorMoves(now)
      PROVE  actions' = actions
  BY <1>6, RevocationStep
<1>7. QED
  BY <1>1, <1>3, <1>4, <1>5, <1>6 DEF LedgerNext, Tick, ledgerVars

\* A step changes one record at most, and only Prepare makes one.
LEMMA OneChanges ==
  ASSUME LedgerInv, [LedgerNext]_ledgerVars
  PROVE  \/ records' = records
         \/ \E t \in tickets : Prepare(t)
         \/ \E i \in Ids : Present(records[i]) /\ \A k \in Ids \ {i} : records'[k] = records[k]
<1> DEFINE Only(i) == Present(records[i]) /\ \A k \in Ids \ {i} : records'[k] = records[k]
<1>1. \A i \in Ids : \A r : Put(i, r) => \A k \in Ids \ {i} : records'[k] = records[k]
  BY DEF Put, LedgerInv, TypeOK
<1>2. ASSUME NEW now \in Readings, ActionMoves(now) PROVE records' = records
  BY <1>2, SourceKept
<1>3. ASSUME NEW now \in Readings, IssueMoves(now)
      PROVE  \/ records' = records \/ \E t \in tickets : Prepare(t)
             \/ \E i \in Ids : Only(i)
  <2>1. ASSUME NEW t \in tickets, RecordNoCredential(t) PROVE Only(t.id) /\ t.id \in Ids
    BY <1>1, <2>1 DEF RecordNoCredential, Present, LedgerInv, TypeOK, Ticket
  <2>2. ASSUME NEW i \in Ids, \/ AuthorizeChildCreate(i, now) \/ RecordAnchor(i, now)
                              \/ RecordAnchorAgain(i, now) \/ Activate(i, now)
                              \/ RequestRevocation(i, now)
        PROVE  Only(i)
    BY <1>1, <2>2 DEF AuthorizeChildCreate, RecordAnchor, RecordAnchorAgain, Activate,
                      RequestRevocation, Present, Managed
  <2>3. QED
    BY <1>3, <2>1, <2>2 DEF IssueMoves, ResolvePrepare, PrepareAgain, RecordNoCredentialRefused,
                            ResolveNoCredential
<1>4. ASSUME NEW now \in Readings, NEW i \in Ids,
             RecoverPrepared(i, now) \/ RecoverManaged(i, now) \/ RecoverExhausted(i, now)
      PROVE  Only(i)
  BY <1>1, <1>4 DEF RecoverPrepared, RecoverManaged, RecoverExhausted, ClaimLapsed, Present, Managed
<1>5. ASSUME NEW now \in Readings, NEW i \in Ids, NEW w \in Workers,
             \/ ClaimRevocations(i, w, now) \/ ClaimPoisoned(i, w, now)
             \/ \E e \in 1..MaxClaims :
                  \/ Heartbeat(i, w, e, now) \/ CompleteRevocation(i, w, e, now)
                  \/ RequireManual(i, w, e, now)
                  \/ \E d \in RetryDelays : RetryRevocation(i, w, e, now, d)
      PROVE  Only(i)
  <2>1. \A r : Claimable(r, now) => Present(r)
    BY DEF Claimable, ClaimLapsed, Present
  <2>2. QED
    BY <1>1, <1>5, <2>1 DEF ClaimRevocations, ClaimPoisoned, NextToClaim, Heartbeat,
           CompleteRevocation, RequireManual, RetryRevocation, MatchesClaim, Present
<1>6. ASSUME NEW now \in Readings, NEW i \in Ids,
             \/ RequeueManual(i, now)
             \/ \E s \in Subjects, h \in Evidence : SubmitExternalConfirmation(i, s, h)
      PROVE  Only(i)
  BY <1>1, <1>6 DEF RequeueManual, SubmitExternalConfirmation, Present
<1>7. QED
  BY <1>2, <1>3, <1>4, <1>5, <1>6
     DEF LedgerNext, Tick, ledgerVars, RecoveryMoves, RevocationMoves, OperatorMoves

\* A new call is for the lease its action has.
LEMMA NewTickets ==
  ASSUME LedgerInv, [LedgerNext]_ledgerVars, NEW t \in tickets', t \notin tickets
  PROVE  t.action \in Actions /\ t.epoch \in 1..actions[t.action].epoch
<1>1. PICK now \in Readings : IssueMoves(now)
  BY SourceKept, RevocationStep DEF LedgerNext, Tick, ledgerVars
<1>2. SourceOK /\ \A i \in Ids : records[i] \in Record /\ Sound(records[i])
  BY DEF LedgerInv, TypeOK, SourceOK
<1>3. \A a \in Actions : \A u : Resolved(a, u) => actions[a].epoch \in 1..actions[a].epoch
  BY <1>2, LedgerConstants DEF Resolved, SourceOK, ActionView
<1>4. ASSUME NEW i \in Ids, NEW a \in Actions, NEW d \in Lifetimes, ResolvePrepare(i, a, now, now + d)
      PROVE  t.action \in Actions /\ t.epoch \in 1..actions[t.action].epoch
  BY <1>3, <1>4 DEF ResolvePrepare
<1>5. ASSUME NEW i \in Ids, ResolveNoCredential(i, now)
      PROVE  t.action \in Actions /\ t.epoch \in 1..actions[t.action].epoch
  <2>1. records[i].action \in Actions
    BY <1>2, <1>5 DEF ResolveNoCredential, Sound
  <2>2. QED
    BY <1>3, <1>5, <2>1 DEF ResolveNoCredential
<1>6. QED
  BY <1>1, <1>4, <1>5 DEF IssueMoves, Prepare, PrepareAgain, RecordNoCredential, Put,
       RecordNoCredentialRefused, AuthorizeChildCreate, RecordAnchor, RecordAnchorAgain, Activate,
       RequestRevocation

\* A record that is there stays with its lease.
LEMMA GrantStays ==
  ASSUME NEW r, NEW s, Present(r), s = r \/ Move(r, s)
  PROVE  Present(s) /\ s.action = r.action /\ s.epoch = r.epoch
  BY DEF Present, Move, Grants, Authorizes, Anchors, Manages, Declines, Takes, Tries,
         Completes, Requeues, Confirms, SameGrant, Managed

\* What Prepare puts into the ledger.
LEMMA PrepareMakes ==
  ASSUME LedgerInv, NEW t \in tickets, Prepare(t)
  PROVE  /\ t.id \in Ids /\ t.action \in Actions /\ ~Present(records[t.id])
         /\ \A k \in Ids \ {t.id} : records'[k] = records[k]
         /\ records'[t.id].status = "PREPARED"
         /\ records'[t.id].action = t.action /\ records'[t.id].epoch = t.epoch
         /\ \A k \in Ids : Present(records[k]) =>
              records[k].action # t.action \/ records[k].epoch # t.epoch
  BY DEF LedgerInv, TypeOK, Ticket, Prepare, GrantTaken, Put, Absent, Present

LEMMA GrantStep == LedgerInv /\ GrantInv /\ [LedgerNext]_ledgerVars => GrantInv'
<1> SUFFICES ASSUME LedgerInv, GrantInv, [LedgerNext]_ledgerVars PROVE GrantInv'
  OBVIOUS
<1>1. \A a \in Actions : /\ actions[a].epoch \in Nat /\ actions'[a].epoch \in Nat
                         /\ actions[a].epoch <= actions'[a].epoch
  BY EpochsGrow, LedgerConstants DEF LedgerInv, TypeOK, ActionView
<1>2. \A a \in Actions : 1..actions[a].epoch \subseteq 1..actions'[a].epoch
  BY <1>1
<1>3. AllMoved /\ tickets \subseteq Ticket /\ \A i \in Ids : Sound(records[i])
  BY LedgerStep DEF LedgerInv, TypeOK
<1>4. \A t \in tickets' : t.epoch \in 1..actions'[t.action].epoch
  <2>1. \A t \in tickets' : t.action \in Actions /\ t.epoch \in 1..actions[t.action].epoch
    BY <1>3, NewTickets DEF GrantInv, Ticket
  <2>2. QED
    BY <1>2, <2>1
<1>5. ASSUME NEW i \in Ids, Present(records[i])
      PROVE  /\ Present(records'[i]) /\ records'[i].action = records[i].action
             /\ records'[i].epoch = records[i].epoch
             /\ records'[i].epoch \in 1..actions'[records'[i].action].epoch
  <2>1. /\ Present(records'[i]) /\ records'[i].action = records[i].action
        /\ records'[i].epoch = records[i].epoch
    BY <1>3, <1>5, GrantStays DEF AllMoved
  <2>2. records[i].action \in Actions /\ records[i].epoch \in 1..actions[records[i].action].epoch
    BY <1>3, <1>5 DEF Sound, GrantInv, Present
  <2>3. QED
    BY <1>2, <2>1, <2>2
<1>6. ASSUME NEW t \in tickets, Prepare(t) PROVE GrantInv'
  <2>1. /\ t.id \in Ids /\ t.action \in Actions /\ ~Present(records[t.id])
        /\ \A k \in Ids \ {t.id} : records'[k] = records[k]
        /\ records'[t.id].action = t.action /\ records'[t.id].epoch = t.epoch
        /\ \A k \in Ids : Present(records[k]) =>
             records[k].action # t.action \/ records[k].epoch # t.epoch
    BY <1>6, PrepareMakes
  <2>2. t.epoch \in 1..actions'[t.action].epoch
    BY <1>2, <2>1 DEF GrantInv
  <2>3. Unique(records')
    BY <2>1 DEF Unique, GrantInv
  <2>4. \A i \in Ids : Present(records'[i]) => records'[i].epoch \in 1..actions'[records'[i].action].epoch
    BY <1>5, <2>1, <2>2
  <2>5. QED
    BY <1>4, <2>3, <2>4 DEF GrantInv, Unique
<1>7. ASSUME \A i \in Ids : Present(records'[i]) => Present(records[i]) PROVE GrantInv'
  <2>1. Unique(records')
    BY <1>5, <1>7 DEF Unique, GrantInv
  <2>2. QED
    BY <1>4, <1>5, <1>7, <2>1 DEF GrantInv, Unique
<1>8. QED
  BY <1>6, <1>7, OneChanges

LEMMA GrantStart == LedgerInit => GrantInv
  BY DEF LedgerInit, GrantInv, Unique, Present, Absent

\* A lease never has two records, however often Prepare is repeated and whoever
\* resolved the action before (GrantTaken), and every record is for a lease that was
\* given.
THEOREM OneRecordPerLease == LedgerSpec => []GrantInv
  BY LedgerInvariant, GrantStart, GrantStep, PTL DEF LedgerSpec

\* A child that is authorized and not yet accounted for was authorized before, for
\* the same lease, or is now, under a run (FenceCurrent).
LEMMA AuthorizedUnderRun ==
  ASSUME LedgerInv, [LedgerNext]_ledgerVars, NEW i \in Ids,
         records'[i].authorizedAt # 0, records'[i].status \notin Terminal
  PROVE  /\ records'[i].action \in Actions
         /\ \/ /\ records[i].authorizedAt # 0 /\ records[i].status \notin Terminal
               /\ records'[i].action = records[i].action /\ records'[i].epoch = records[i].epoch
            \/ /\ actions[records'[i].action].status = "RUNNING"
               /\ actions[records'[i].action].epoch = records'[i].epoch
<1> DEFINE r == records[i]
           s == records'[i]
<1>1. Sound(r) /\ Sound(s) /\ (s = r \/ Move(r, s))
  BY LedgerStep DEF LedgerInv, AllMoved
<1> HIDE DEF r, s
<1>2. s.authorizedAt # 0 /\ s.status \notin Terminal
  BY DEF s
<1>3. s.action \in Actions
  BY <1>1, <1>2 DEF Sound
<1>4. \/ /\ r.authorizedAt # 0 /\ r.status \notin Terminal
         /\ s.action = r.action /\ s.epoch = r.epoch
      \/ actions[s.action].status = "RUNNING" /\ actions[s.action].epoch = s.epoch
  BY <1>1, <1>2 DEF Move, Grants, Authorizes, Anchors, Manages, Declines, Takes, Tries,
         Completes, Requeues, Confirms, SameGrant, Managed, Terminal
<1>5. QED
  BY <1>3, <1>4 DEF r, s

-----------------------------------------------------------------------------
(* What the gate of the queue is told *)

\* The records for lease e of action a in ledger rs, and the answer they give.
HeldIn(rs, a, e) == {i \in Ids : Present(rs[i]) /\ rs[i].action = a /\ rs[i].epoch = e}
AnswerIn(rs, a, e) ==
  IF HeldIn(rs, a, e) = {} THEN "MISSING"
  ELSE IF \A i \in HeldIn(rs, a, e) : rs[i].status \in Terminal THEN "TERMINAL" ELSE "PENDING"

LEMMA AnswersOf ==
  \A a, e : /\ CleanupState(a, e) = AnswerIn(records, a, e)
            /\ CleanupState(a, e)' = AnswerIn(records', a, e)
  BY DEF CleanupState, AnswerIn, HeldIn, Present

LEMMA OneAnswers ==
  ASSUME NEW rs, Unique(rs), NEW i \in Ids, Present(rs[i])
  PROVE  AnswerIn(rs, rs[i].action, rs[i].epoch)
           = IF rs[i].status \in Terminal THEN "TERMINAL" ELSE "PENDING"
<1>1. HeldIn(rs, rs[i].action, rs[i].epoch) = {i}
  BY DEF HeldIn, Unique
<1>2. QED
  BY <1>1 DEF AnswerIn

LEMMA SameAnswers ==
  ASSUME NEW rs, NEW ss, NEW a, NEW e,
         \A i \in Ids : i \in HeldIn(rs, a, e) <=> i \in HeldIn(ss, a, e),
         \A i \in HeldIn(rs, a, e) : rs[i].status \in Terminal <=> ss[i].status \in Terminal
  PROVE  AnswerIn(ss, a, e) = AnswerIn(rs, a, e)
<1>1. HeldIn(ss, a, e) = HeldIn(rs, a, e)
  BY DEF HeldIn
<1>2. QED
  BY <1>1 DEF AnswerIn

\* Answer b, d moves as the contract of the gate allows, and no other does.
OneAnswerMoves(b, d) ==
  /\ <<CleanupState(b, d), CleanupState(b, d)'>> \in
       {<<"MISSING", "PENDING">>, <<"PENDING", "TERMINAL">>}
  /\ \A a \in Actions, e \in 1..MaxEpoch :
       a # b \/ e # d => CleanupState(a, e)' = CleanupState(a, e)

\* The answers move one at a time and forward only: a record appears for a lease
\* that was given, and what is terminal stays so.
LEMMA AnswerStep ==
  ASSUME LedgerInv, GrantInv, [LedgerNext]_ledgerVars
  PROVE  \/ \A a \in Actions, e \in 1..MaxEpoch : CleanupState(a, e)' = CleanupState(a, e)
         \/ \E b \in Actions : \E d \in 1..actions[b].epoch : OneAnswerMoves(b, d)
<1>1. CASE records' = records
  BY <1>1, AnswersOf
<1>2. ASSUME NEW t \in tickets, Prepare(t)
      PROVE  \E b \in Actions : \E d \in 1..actions[b].epoch : OneAnswerMoves(b, d)
  <2>1. /\ t.id \in Ids /\ t.action \in Actions /\ ~Present(records[t.id])
        /\ \A k \in Ids \ {t.id} : records'[k] = records[k]
        /\ records'[t.id].status = "PREPARED"
        /\ records'[t.id].action = t.action /\ records'[t.id].epoch = t.epoch
        /\ \A k \in Ids : Present(records[k]) =>
             records[k].action # t.action \/ records[k].epoch # t.epoch
    BY <1>2, PrepareMakes
  <2>2. t.epoch \in 1..actions[t.action].epoch
    BY DEF GrantInv
  <2>3. AnswerIn(records, t.action, t.epoch) = "MISSING"
    BY <2>1 DEF AnswerIn, HeldIn
  <2>4. AnswerIn(records', t.action, t.epoch) = "PENDING"
    BY <2>1 DEF AnswerIn, HeldIn, Present, Terminal
  <2>5. ASSUME NEW a \in Actions, NEW e \in 1..MaxEpoch, a # t.action \/ e # t.epoch
        PROVE  AnswerIn(records', a, e) = AnswerIn(records, a, e)
    <3>1. \A k \in Ids : k \in HeldIn(records, a, e) <=> k \in HeldIn(records', a, e)
      BY <2>1, <2>5 DEF HeldIn
    <3>2. \A k \in HeldIn(records, a, e) : records'[k] = records[k]
      BY <2>1 DEF HeldIn
    <3>3. QED
      BY <3>1, <3>2, SameAnswers
  <2>6. OneAnswerMoves(t.action, t.epoch)
    BY <2>3, <2>4, <2>5, AnswersOf DEF OneAnswerMoves
  <2>7. QED
    BY <2>1, <2>2, <2>6
<1>3. ASSUME NEW i \in Ids, Present(records[i]), \A k \in Ids \ {i} : records'[k] = records[k]
      PROVE  \/ \A a \in Actions, e \in 1..MaxEpoch : CleanupState(a, e)' = CleanupState(a, e)
             \/ \E b \in Actions : \E d \in 1..actions[b].epoch : OneAnswerMoves(b, d)
  <2>0. PICK b, d : b = records[i].action /\ d = records[i].epoch
    OBVIOUS
  <2>1. /\ AllMoved /\ b \in Actions /\ d \in 1..actions[b].epoch
        /\ RevocationIsForever /\ GrantInv'
    BY <1>3, <2>0, LedgerStep, MovesHold, GrantStep DEF LedgerInv, GrantInv, Sound, Present
  <2>2. /\ Present(records'[i]) /\ records'[i].action = b /\ records'[i].epoch = d
    BY <1>3, <2>0, <2>1, GrantStays DEF AllMoved
  <2>3. \A a, e : \A k \in Ids : k \in HeldIn(records, a, e) <=> k \in HeldIn(records', a, e)
    BY <1>3, <2>0, <2>2 DEF HeldIn
  <2>4. CASE records[i].status \in Terminal <=> records'[i].status \in Terminal
    <3>1. \A a, e : \A k \in HeldIn(records, a, e) :
            records[k].status \in Terminal <=> records'[k].status \in Terminal
      BY <1>3, <2>4 DEF HeldIn
    <3>2. QED
      BY <2>3, <3>1, SameAnswers, AnswersOf
  <2>5. CASE ~(records[i].status \in Terminal <=> records'[i].status \in Terminal)
    <3>1. records[i].status \notin Terminal /\ records'[i].status \in Terminal
      BY <2>1, <2>5 DEF RevocationIsForever
    <3>2. AnswerIn(records, b, d) = "PENDING"
      BY <1>3, <2>0, <3>1, OneAnswers DEF GrantInv
    <3>3. AnswerIn(records', b, d) = "TERMINAL"
      <4>1. Unique(records')
        BY <2>1 DEF GrantInv, Unique
      <4>2. QED
        BY <2>2, <3>1, <4>1, OneAnswers
    <3>4. ASSUME NEW a \in Actions, NEW e \in 1..MaxEpoch, a # b \/ e # d
          PROVE  AnswerIn(records', a, e) = AnswerIn(records, a, e)
      <4>1. \A k \in HeldIn(records, a, e) : records'[k] = records[k]
        BY <1>3, <2>0, <3>4 DEF HeldIn
      <4>2. QED
        BY <2>3, <4>1, SameAnswers
    <3>5. OneAnswerMoves(b, d)
      BY <3>2, <3>3, <3>4, AnswersOf DEF OneAnswerMoves
    <3>6. QED
      BY <2>1, <3>5
  <2>6. QED
    BY <2>4, <2>5
<1>4. QED
  BY <1>1, <1>2, <1>3, OneChanges

\* A record that is not final is answered for as pending.
LEMMA PendingAnswer ==
  ASSUME GrantInv, NEW i \in Ids, Present(records[i]), records[i].status \notin Terminal
  PROVE  CleanupState(records[i].action, records[i].epoch) = "PENDING"
  BY OneAnswers, AnswersOf DEF GrantInv

-----------------------------------------------------------------------------
(* With brokers, workers and Vault: what a record says of its child *)

\* Child c stands behind record r at time t.  Every child was authorized; a
\* credential in use or under revocation was created; a live child ends with its
\* record; an intent was given up too late for its child to be alive; and a
\* revocation is done at Vault or vouched for by two.
Backed(c, r, t) ==
  /\ c.state # "none" => r.authorizedAt # 0
  /\ r.status \in Managed \cup Requested => c.state \in {"live", "revoked"}
  /\ c.state = "live" => c.expires <= r.expires
  /\ r.status = "NO_CREDENTIAL" /\ r.authorizedAt # 0 => r.expires <= t
  /\ r.status = "REVOKED" => c.state = "revoked" \/ Cardinality(r.confirmations) >= 2

\* A worker works only on what is to be revoked, and what it reports as revoked is.
Working(j) ==
  j # Idle => /\ records[j.id].status \in Requested
              /\ j.revoked => child[j.id].state = "revoked"

IssuanceInv ==
  /\ LedgerInv
  /\ IssuanceTypeOK
  /\ \A i \in Ids : Backed(child[i], records[i], clock)
  /\ \A w \in Workers : Working(work[w])

\* What a step does to a child c that becomes d while its record r becomes s.
Follows(c, d, r, s) ==
  \/ d = c /\ (Anchors(r, s) => c.state = "live") /\ (Completes(r, s) => c.state = "revoked")
  \/ /\ c.state = "none" /\ d.state = "asked"
     /\ s.status = "PREPARED" /\ s.authorizedAt # 0
  \/ s = r /\ c.state = "asked" /\ d.state = "live" /\ d.expires <= r.expires
  \/ s = r /\ c.state # "none" /\ d.state = "revoked"

\* What a move leaves of an authorized grant.
LEMMA GrantKept ==
  ASSUME NEW r, NEW s, Sound(r), Move(r, s), r.authorizedAt # 0
  PROVE  s.authorizedAt = r.authorizedAt /\ s.expires = r.expires /\ s.ttl = r.ttl
  BY DEF Sound, Move, Grants, Authorizes, Anchors, Manages, Declines, Takes, Tries,
         Completes, Requeues, Confirms, SameGrant

LEMMA BackedKept ==
  ASSUME NEW r \in Record, NEW s \in Record, NEW c \in Child, NEW d \in Child,
         NEW t \in Nat, clock \in Nat, clock <= t,
         Sound(r), s = r \/ Move(r, s), Backed(c, r, clock), Follows(c, d, r, s)
  PROVE  Backed(d, s, t)
<1>0. r.expires \in Nat /\ s.expires \in Nat /\ c.expires \in Nat /\ d.expires \in Nat
  BY DEF Record, Child
<1>1. CASE d = c /\ s = r
  BY <1>0, <1>1 DEF Backed
<1>2. CASE d = c /\ Move(r, s) /\ (Anchors(r, s) => c.state = "live")
                 /\ (Completes(r, s) => c.state = "revoked")
  <2>1. c.state # "none" => s.authorizedAt = r.authorizedAt /\ s.expires = r.expires
                            /\ s.authorizedAt # 0
    BY <1>2, GrantKept DEF Backed
  <2>2. s.status \in Managed \cup Requested => r.status \in Managed \cup Requested \/ Anchors(r, s)
    BY <1>2 DEF Move, Grants, Authorizes, Manages, Declines, Takes, Tries,
                Completes, Requeues, Confirms, Managed, Requested
  <2>3. s.status = "NO_CREDENTIAL" /\ s.authorizedAt # 0 => s.expires <= clock
    BY <1>2 DEF Move, Grants, Authorizes, Anchors, Manages, Declines, Takes, Tries,
                Completes, Requeues, Confirms, Managed, SameGrant
  <2>4. s.status = "REVOKED" => Completes(r, s) \/ Cardinality(s.confirmations) >= 2
    BY <1>2 DEF Move, Grants, Authorizes, Anchors, Manages, Declines, Takes, Tries,
                Requeues, Confirms, Managed, EnoughConfirmations
  <2>5. s.status = "NO_CREDENTIAL" /\ s.authorizedAt # 0 => s.expires <= t
    BY <1>0, <2>3
  <2>6. QED
    BY <1>2, <2>1, <2>2, <2>4, <2>5 DEF Backed
<1>3. CASE d.state = "asked" /\ s.status = "PREPARED" /\ s.authorizedAt # 0
  BY <1>3 DEF Backed, Managed, Requested
<1>4. CASE s = r /\ c.state # "none" /\ d.state \in {"live", "revoked"}
           /\ (d.state = "live" => d.expires <= r.expires /\ c.state = "asked")
  <2>1. r.status = "NO_CREDENTIAL" /\ r.authorizedAt # 0 => r.expires <= t
    BY <1>0 DEF Backed
  <2>2. QED
    BY <1>4, <2>1 DEF Backed, Requested
<1>5. QED
  BY <1>1, <1>2, <1>3, <1>4 DEF Follows

\* A backed record that is final has no live child, unless two operators vouch for it.
LEMMA InvAccounts == IssuanceInv => ChildrenAccounted
<1> SUFFICES ASSUME IssuanceInv, NEW i \in Ids
             PROVE  /\ records[i].status \in Terminal =>
                         ~Live(i) \/ Cardinality(records[i].confirmations) >= 2
                    /\ child[i].state = "live" => child[i].expires <= records[i].expires
  BY DEF ChildrenAccounted, Vouched, TerminalMeansDead, ChildWithinDeadline
<1>1. Backed(child[i], records[i], clock)
  BY DEF IssuanceInv
<1>2. child[i].expires \in Nat /\ records[i].expires \in Nat /\ clock \in Nat
  BY DEF IssuanceInv, IssuanceTypeOK, TypeOK, Child, Record
<1>3. QED
  BY <1>1, <1>2 DEF Backed, Live, Terminal

-----------------------------------------------------------------------------
(* Each party calls the ledger as any caller would *)

LEMMA BrokerCalls ==
  ASSUME NEW now \in Readings, BrokerNext(now)
  PROVE  IssueMoves(now) \/ UNCHANGED ledgerVars
<1>1. ASSUME NEW i \in Ids, NEW a \in Actions, BrokerPrepare(i, a, now)
      PROVE  IssueMoves(now)
  BY <1>1 DEF BrokerPrepare, IssueMoves
<1>2. ASSUME NEW i \in Ids,
             \/ BrokerDeclines(i, now) \/ BrokerAuthorizes(i, now) \/ BrokerAnchors(i, now)
             \/ BrokerActivates(i, now) \/ BrokerGivesBack(i, now)
      PROVE  IssueMoves(now)
  BY <1>2 DEF BrokerDeclines, BrokerAuthorizes, BrokerAnchors, BrokerActivates,
              BrokerGivesBack, IssueMoves
<1>3. ASSUME NEW i \in Ids, BrokerStops(i) PROVE UNCHANGED ledgerVars
  BY <1>3 DEF BrokerStops, ledgerVars
<1>4. ASSUME NEW t \in tickets, BrokerPrepared(t) \/ BrokerDeclined(t) \/ BrokerAbsent(t)
      PROVE  IssueMoves(now)
  BY <1>4 DEF BrokerPrepared, BrokerDeclined, BrokerAbsent, IssueMoves
<1>5. QED
  BY <1>1, <1>2, <1>3, <1>4 DEF BrokerNext

LEMMA WorkerCalls ==
  ASSUME IssuanceTypeOK, NEW now \in Readings, NEW w \in Workers, WorkerNext(w, now)
  PROVE  RecoveryMoves(now) \/ RevocationMoves(now) \/ UNCHANGED ledgerVars
<1>1. work[w] # Idle => work[w].id \in Ids /\ work[w].epoch \in 1..MaxClaims
  BY DEF IssuanceTypeOK, Job
<1>2. ASSUME NEW i \in Ids, \/ WorkerRecoversPrepared(w, i, now) \/ WorkerRecoversManaged(w, i, now)
                            \/ WorkerRecoversExhausted(w, i, now)
      PROVE  RecoveryMoves(now)
  BY <1>2 DEF WorkerRecoversPrepared, WorkerRecoversManaged, WorkerRecoversExhausted, RecoveryMoves
<1>3. ASSUME NEW i \in Ids, WorkerClaims(w, i, now) PROVE RevocationMoves(now)
  BY <1>3 DEF WorkerClaims, RevocationMoves
<1>4. CASE WorkerHeartbeats(w, now) \/ WorkerCompletes(w, now) \/ WorkerFails(w, now)
  BY <1>1, <1>4 DEF WorkerHeartbeats, WorkerCompletes, WorkerFails, RevocationMoves
<1>5. CASE WorkerDefers(w) \/ VaultRevokes(w) \/ VaultRevokesUnheard(w)
  BY <1>5 DEF WorkerDefers, VaultRevokes, VaultRevokesUnheard, ledgerVars
<1>6. QED
  BY <1>2, <1>3, <1>4, <1>5 DEF WorkerNext

LEMMA StepCalls == IssuanceTypeOK /\ [Next]_vars => [LedgerNext]_ledgerVars
<1> SUFFICES ASSUME IssuanceTypeOK, [Next]_vars PROVE [LedgerNext]_ledgerVars
  OBVIOUS
<1>1. CASE UNCHANGED vars
  BY <1>1 DEF vars, ledgerVars
<1>2. CASE Surroundings
  BY <1>2 DEF Surroundings, LedgerNext
<1>3. ASSUME NEW i \in Ids, VaultCreates(i) PROVE UNCHANGED ledgerVars
  BY <1>3 DEF VaultCreates, ledgerVars
<1>4. ASSUME NEW now \in Readings, BrokerNext(now) PROVE LedgerNext \/ UNCHANGED ledgerVars
  BY <1>4, BrokerCalls DEF LedgerNext
<1>5. ASSUME NEW now \in Readings, NEW w \in Workers, WorkerNext(w, now)
      PROVE  LedgerNext \/ UNCHANGED ledgerVars
  BY <1>5, WorkerCalls DEF LedgerNext
<1>6. QED
  BY <1>1, <1>2, <1>3, <1>4, <1>5 DEF Next

-----------------------------------------------------------------------------
(* What each step means at Vault *)

\* No record is anchored and none completed in this step.
Calm == \A i \in Ids : ~Anchors(records[i], records'[i]) /\ ~Completes(records[i], records'[i])

LEMMA CalmPut ==
  ASSUME TypeOK, NEW i \in Ids, NEW s, Put(i, s),
         ~(records[i].status = "PREPARED" /\ s.status \in {"ANCHORED", "REVOCATION_PENDING"}),
         ~(records[i].status = "REVOKING" /\ s.status = "REVOKED")
  PROVE  Calm
<1>1. \A j \in Ids : records'[j] = IF j = i THEN s ELSE records[j]
  BY DEF TypeOK, Put
<1>2. QED
  BY <1>1 DEF Calm, Anchors, Completes

LEMMA CalmSame == TypeOK /\ records' = records => Calm
  BY DEF Calm, Anchors, Completes

LEMMA CalmIssue ==
  ASSUME LedgerInv, NEW now \in Readings, NEW i \in Ids,
         \/ AuthorizeChildCreate(i, now) \/ Activate(i, now) \/ RequestRevocation(i, now)
         \/ RecoverPrepared(i, now) \/ RecoverManaged(i, now)
  PROVE  Calm
<1>1. TypeOK /\ records[i] \in Record
  BY DEF LedgerInv, TypeOK
<1>2. CASE AuthorizeChildCreate(i, now)
  <2>1. [records[i] EXCEPT !.authorizedAt = now, !.ttl = ChildTTL(records[i], now)].status
          = records[i].status
    BY <1>1 DEF Record
  <2>2. QED
    BY <1>1, <1>2, <2>1, CalmPut DEF AuthorizeChildCreate
<1>3. CASE Activate(i, now)
  <2>1. PICK s : Put(i, s)
    BY <1>3 DEF Activate
  <2>2. QED
    BY <1>1, <1>3, <2>1, CalmPut DEF Activate, Managed
<1>4. CASE RequestRevocation(i, now) \/ RecoverManaged(i, now)
  BY <1>1, <1>4, CalmPut DEF RequestRevocation, RecoverManaged, Managed
<1>5. CASE RecoverPrepared(i, now)
  <2>1. [records[i] EXCEPT !.status = "NO_CREDENTIAL"].status = "NO_CREDENTIAL"
    BY <1>1 DEF Record
  <2>2. QED
    BY <1>1, <1>5, <2>1, CalmPut DEF RecoverPrepared
<1>6. QED
  BY <1>2, <1>3, <1>4, <1>5

LEMMA CalmTickets ==
  ASSUME LedgerInv, NEW t \in tickets,
         Prepare(t) \/ PrepareAgain(t) \/ RecordNoCredential(t) \/ RecordNoCredentialRefused(t)
  PROVE  Calm
<1>1. TypeOK /\ t.id \in Ids /\ records[t.id] \in Record
  BY DEF LedgerInv, TypeOK, Ticket
<1>2. CASE Prepare(t)
  <2>1. PICK s : Put(t.id, s)
    BY <1>2 DEF Prepare
  <2>2. QED
    BY <1>1, <1>2, <2>1, CalmPut DEF Prepare, GrantTaken
<1>3. CASE PrepareAgain(t) \/ RecordNoCredentialRefused(t)
  BY <1>1, <1>3, CalmSame DEF PrepareAgain, RecordNoCredentialRefused
<1>4. CASE RecordNoCredential(t)
  <2>1. [records[t.id] EXCEPT !.status = "NO_CREDENTIAL"].status = "NO_CREDENTIAL"
    BY <1>1 DEF Record
  <2>2. QED
    BY <1>1, <1>4, <2>1, CalmPut DEF RecordNoCredential
<1>5. QED
  BY <1>2, <1>3, <1>4

LEMMA CalmRevocation ==
  ASSUME LedgerInv, NEW now \in Readings, NEW i \in Ids,
         \/ RecoverExhausted(i, now)
         \/ \E w \in Workers :
              \/ ClaimRevocations(i, w, now) \/ ClaimPoisoned(i, w, now)
              \/ \E e \in 1..MaxClaims :
                   \/ Heartbeat(i, w, e, now) \/ RequireManual(i, w, e, now)
                   \/ \E d \in RetryDelays : RetryRevocation(i, w, e, now, d)
  PROVE  Calm
<1> DEFINE r == records[i]
<1>1. TypeOK /\ r \in Record /\ now \in Nat
  BY ReadingsType DEF LedgerInv, TypeOK
<1>2. r.status \in {"REVOCATION_PENDING", "REVOKING"} => Manual(r).status = "MANUAL_REQUIRED"
  BY <1>1, UnclaimedMoves DEF Manual, Record
<1>3. CASE RecoverExhausted(i, now)
  BY <1>1, <1>2, <1>3, CalmPut DEF RecoverExhausted, ClaimLapsed
<1>4. ASSUME NEW w \in Workers, ClaimRevocations(i, w, now) \/ ClaimPoisoned(i, w, now)
      PROVE  Calm
  <2> DEFINE s == Claimed(r, w, now)
  <2>1. Claimable(r, now) /\ EpochLeft(r) /\ (Put(i, s) \/ Put(i, Manual(s)))
    BY <1>4 DEF ClaimRevocations, ClaimPoisoned, NextToClaim
  <2>2. Takes(r, s) /\ Takes(r, Manual(s))
    BY <1>1, <2>1, ClaimMoves
  <2> HIDE DEF s
  <2>3. QED
    BY <1>1, <2>1, <2>2, CalmPut DEF Takes
<1>5. ASSUME NEW w \in Workers, NEW e \in 1..MaxClaims, Heartbeat(i, w, e, now) PROVE Calm
  <2>1. [r EXCEPT !.claimExpires = now + ClaimLease].status = r.status
    BY <1>1 DEF Record
  <2>2. QED
    BY <1>1, <1>5, <2>1, CalmPut DEF Heartbeat, MatchesClaim
<1>6. ASSUME NEW w \in Workers, NEW e \in 1..MaxClaims, RequireManual(i, w, e, now) PROVE Calm
  BY <1>1, <1>2, <1>6, CalmPut DEF RequireManual, MatchesClaim
<1>7. ASSUME NEW w \in Workers, NEW e \in 1..MaxClaims, NEW d \in RetryDelays,
             RetryRevocation(i, w, e, now, d)
      PROVE  Calm
  <2> DEFINE s == [Unclaimed(r) EXCEPT !.status = "REVOCATION_PENDING", !.availableAt = now + d]
  <2>1. s.status = "REVOCATION_PENDING"
    BY <1>1, UnclaimedMoves DEF Record
  <2>2. r.status = "REVOKING" /\ (Put(i, Manual(r)) \/ Put(i, s))
    BY <1>7 DEF RetryRevocation, MatchesClaim
  <2> HIDE DEF s
  <2>3. QED
    BY <1>1, <1>2, <2>1, <2>2, CalmPut
<1>8. QED
  BY <1>3, <1>4, <1>5, <1>6, <1>7

LEMMA CalmOperators ==
  ASSUME LedgerInv, NEW now \in Readings, OperatorMoves(now) PROVE Calm
<1>1. ASSUME NEW i \in Ids, RequeueManual(i, now) PROVE Calm
  <2>1. TypeOK /\ records[i].status = "MANUAL_REQUIRED" /\ \E s : Put(i, s)
    BY <1>1 DEF LedgerInv, RequeueManual
  <2>2. QED
    BY <2>1, CalmPut
<1>2. ASSUME NEW i \in Ids, NEW s \in Subjects, NEW h \in Evidence, SubmitExternalConfirmation(i, s, h)
      PROVE  Calm
  <2>1. TypeOK /\ records[i].status = "MANUAL_REQUIRED" /\ \E u : Put(i, u)
    BY <1>2 DEF LedgerInv, SubmitExternalConfirmation
  <2>2. QED
    BY <2>1, CalmPut
<1>3. QED
  BY <1>1, <1>2 DEF OperatorMoves

AllFollow == \A i \in Ids : Follows(child[i], child'[i], records[i], records'[i])

PartiesTyped ==
  broker \in [Ids -> BrokerPhases] /\ child \in [Ids -> Child] /\ work \in [Workers -> Job \cup {Idle}]

\* A worker goes on with its claim, drops it, or has taken or heard something new.
WorkStep ==
  \A w \in Workers :
    \/ work'[w] \in {work[w], Idle}
    \/ /\ work'[w].id \in Ids
       /\ records'[work'[w].id].status \in Requested
       /\ work'[w].revoked => child'[work'[w].id].state = "revoked"

LEMMA CalmFollows == Calm /\ child' = child => AllFollow
  BY DEF Calm, AllFollow, Follows

LEMMA BrokerTyped ==
  ASSUME PartiesTyped, NEW i, NEW p \in BrokerPhases, BrokerTo(i, p), child' \in [Ids -> Child]
  PROVE  PartiesTyped' /\ WorkStep
  BY DEF PartiesTyped, BrokerTo, WorkStep

LEMMA BrokerStep ==
  ASSUME IssuanceInv, NEW now \in Readings, BrokerNext(now)
  PROVE  AllFollow /\ PartiesTyped' /\ WorkStep
<1>1. LedgerInv /\ TypeOK /\ PartiesTyped /\ child \in [Ids -> Child]
  BY DEF IssuanceInv, IssuanceTypeOK, PartiesTyped, LedgerInv
<1>2. {"none", "preparing", "ready", "declining", "issuing",
       "anchored", "holding", "gone"} = BrokerPhases
  BY DEF BrokerPhases
<1>3. ASSUME NEW i \in Ids, NEW a \in Actions, BrokerPrepare(i, a, now)
      PROVE  AllFollow /\ PartiesTyped' /\ WorkStep
  <2>1. records' = records /\ child' = child /\ BrokerTo(i, "preparing")
    BY <1>3 DEF BrokerPrepare, ResolvePrepare
  <2>2. QED
    BY <1>1, <1>2, <2>1, CalmSame, CalmFollows, BrokerTyped
<1>4. ASSUME NEW i \in Ids, BrokerDeclines(i, now)
      PROVE  AllFollow /\ PartiesTyped' /\ WorkStep
  <2>1. records' = records /\ child' = child /\ BrokerTo(i, "declining")
    BY <1>4 DEF BrokerDeclines, ResolveNoCredential
  <2>2. QED
    BY <1>1, <1>2, <2>1, CalmSame, CalmFollows, BrokerTyped
<1>5. ASSUME NEW i \in Ids, BrokerAuthorizes(i, now)
      PROVE  AllFollow /\ PartiesTyped' /\ WorkStep
  <2>1. /\ AuthorizeChildCreate(i, now) /\ BrokerTo(i, "issuing")
        /\ child' = [child EXCEPT ![i].state = "asked"]
    BY <1>5 DEF BrokerAuthorizes
  <2>2. Calm
    BY <1>1, <2>1, CalmIssue
  <2>3. /\ child[i] \in Child /\ child'[i].state = "asked" /\ child'[i] \in Child
        /\ \A j \in Ids : j # i => child'[j] = child[j]
        /\ child' \in [Ids -> Child]
    BY <1>1, <2>1 DEF Child
  <2>4. child[i].state = "none"
    BY <2>1 DEF IssuanceInv, Backed, AuthorizeChildCreate
  <2>5. records'[i].status = "PREPARED" /\ records'[i].authorizedAt # 0
    BY <1>1, <2>1, ReadingsType DEF AuthorizeChildCreate, Put, TypeOK, Record
  <2>6. AllFollow
    BY <2>2, <2>3, <2>4, <2>5 DEF AllFollow, Follows, Calm
  <2>7. QED
    BY <1>1, <1>2, <2>1, <2>3, <2>6, BrokerTyped
<1>6. ASSUME NEW i \in Ids, BrokerAnchors(i, now)
      PROVE  AllFollow /\ PartiesTyped' /\ WorkStep
  <2>1. /\ child[i].state = "live" /\ child' = child /\ RecordAnchor(i, now)
        /\ BrokerTo(i, "anchored") \/ BrokerTo(i, "gone")
    BY <1>6 DEF BrokerAnchors
  <2>2. PICK s : Put(i, s) /\ records[i].status = "PREPARED"
    BY <2>1 DEF RecordAnchor
  <2>3. \A j \in Ids : j # i => records'[j] = records[j]
    BY <1>1, <2>2 DEF Put, TypeOK
  <2>4. AllFollow
    BY <2>1, <2>2, <2>3 DEF AllFollow, Follows, Anchors, Completes
  <2>5. QED
    BY <1>1, <1>2, <2>1, <2>4, BrokerTyped
<1>7. ASSUME NEW i \in Ids, BrokerActivates(i, now)
      PROVE  AllFollow /\ PartiesTyped' /\ WorkStep
  <2>1. /\ child' = child /\ Activate(i, now)
        /\ BrokerTo(i, "holding") \/ BrokerTo(i, "gone")
    BY <1>7 DEF BrokerActivates
  <2>2. QED
    BY <1>1, <1>2, <2>1, CalmIssue, CalmFollows, BrokerTyped
<1>8. ASSUME NEW i \in Ids, BrokerGivesBack(i, now)
      PROVE  AllFollow /\ PartiesTyped' /\ WorkStep
  <2>1. child' = child /\ RequestRevocation(i, now) /\ BrokerTo(i, "gone")
    BY <1>8 DEF BrokerGivesBack
  <2>2. QED
    BY <1>1, <1>2, <2>1, CalmIssue, CalmFollows, BrokerTyped
<1>9. ASSUME NEW i \in Ids, BrokerStops(i)
      PROVE  AllFollow /\ PartiesTyped' /\ WorkStep
  <2>1. child' = child /\ records' = records /\ BrokerTo(i, "gone")
    BY <1>9 DEF BrokerStops
  <2>2. QED
    BY <1>1, <1>2, <2>1, CalmSame, CalmFollows, BrokerTyped
<1>10. ASSUME NEW t \in tickets, BrokerPrepared(t) \/ BrokerDeclined(t)
      PROVE  AllFollow /\ PartiesTyped' /\ WorkStep
  <2>1. /\ child' = child /\ \E p \in BrokerPhases : BrokerTo(t.id, p)
        /\ Prepare(t) \/ PrepareAgain(t) \/ RecordNoCredential(t) \/ RecordNoCredentialRefused(t)
    BY <1>2, <1>10 DEF BrokerPrepared, BrokerDeclined
  <2>2. QED
    BY <1>1, <2>1, CalmTickets, CalmFollows, BrokerTyped
<1>11. ASSUME NEW t \in tickets, BrokerAbsent(t)
      PROVE  AllFollow /\ PartiesTyped' /\ WorkStep
  <2>1. UNCHANGED <<broker, child, work>> /\ (Prepare(t) \/ PrepareAgain(t))
    BY <1>11 DEF BrokerAbsent
  <2>2. PartiesTyped' /\ WorkStep
    BY <1>1, <2>1 DEF PartiesTyped, WorkStep
  <2>3. QED
    BY <1>1, <2>1, <2>2, CalmTickets, CalmFollows
<1>12. QED
  BY <1>3, <1>4, <1>5, <1>6, <1>7, <1>8, <1>9, <1>10, <1>11 DEF BrokerNext

LEMMA WorkTyped ==
  ASSUME PartiesTyped, NEW w \in Workers, NEW j \in Job \cup {Idle}, WorkerTo(w, j),
         child' \in [Ids -> Child],
         \/ j = Idle
         \/ /\ records'[j.id].status \in Requested
            /\ j.revoked => child'[j.id].state = "revoked"
  PROVE  PartiesTyped' /\ WorkStep
<1>1. \A v \in Workers : work'[v] = IF v = w THEN j ELSE work[v]
  BY DEF PartiesTyped, WorkerTo
<1>2. PartiesTyped'
  BY DEF PartiesTyped, WorkerTo
<1>3. j = Idle \/ j.id \in Ids
  BY DEF Job
<1>4. WorkStep
  BY <1>1, <1>3 DEF WorkStep
<1>5. QED
  BY <1>2, <1>4

LEMMA WorkerStep ==
  ASSUME IssuanceInv, NEW now \in Readings, NEW w \in Workers, WorkerNext(w, now)
  PROVE  AllFollow /\ PartiesTyped' /\ WorkStep
<1> DEFINE j == work[w]
<1>1. /\ LedgerInv /\ TypeOK /\ PartiesTyped /\ child \in [Ids -> Child] /\ now \in Nat
      /\ clock \in Nat
  BY ReadingsType DEF IssuanceInv, IssuanceTypeOK, PartiesTyped, LedgerInv
<1>2. j # Idle => /\ j \in Job /\ j.id \in Ids /\ j.epoch \in 1..MaxClaims
                  /\ records[j.id].status \in Requested
                  /\ j.revoked => child[j.id].state = "revoked"
  BY DEF IssuanceInv, IssuanceTypeOK, Job, Working
<1>3. UNCHANGED <<broker, child, work>> => PartiesTyped' /\ WorkStep
  BY <1>1 DEF PartiesTyped, WorkStep
<1>4. ASSUME NEW i \in Ids, \/ WorkerRecoversPrepared(w, i, now) \/ WorkerRecoversManaged(w, i, now)
                            \/ WorkerRecoversExhausted(w, i, now)
      PROVE  AllFollow /\ PartiesTyped' /\ WorkStep
  <2>1. /\ UNCHANGED <<broker, child, work>>
        /\ RecoverPrepared(i, now) \/ RecoverManaged(i, now) \/ RecoverExhausted(i, now)
    BY <1>4 DEF WorkerRecoversPrepared, WorkerRecoversManaged, WorkerRecoversExhausted
  <2>2. Calm
    BY <1>1, <2>1, CalmIssue, CalmRevocation
  <2>3. QED
    BY <1>3, <2>1, <2>2, CalmFollows
<1>5. ASSUME NEW i \in Ids, WorkerClaims(w, i, now)
      PROVE  AllFollow /\ PartiesTyped' /\ WorkStep
  <2> DEFINE k == [id |-> i, epoch |-> records[i].claimEpoch + 1,
                   since |-> clock, revoked |-> FALSE]
  <2>1. child' = child /\ (ClaimRevocations(i, w, now) \/ ClaimPoisoned(i, w, now))
    BY <1>5 DEF WorkerClaims
  <2>2. AllFollow
    BY <1>1, <2>1, CalmRevocation, CalmFollows
  <2>3. CASE WorkerTo(w, Idle)
    BY <1>1, <2>1, <2>2, <2>3, WorkTyped
  <2>4. CASE ClaimRevocations(i, w, now) /\ WorkerTo(w, k)
    <3>1. records[i] \in Record /\ EpochLeft(records[i]) /\ Put(i, Claimed(records[i], w, now))
      BY <1>1, <2>4 DEF TypeOK, ClaimRevocations
    <3>2. records[i].claimEpoch + 1 \in 1..MaxClaims
      BY <3>1, LedgerConstants DEF EpochLeft, Record
    <3>3. k \in Job /\ k.id = i /\ ~k.revoked
      BY <1>1, <3>2 DEF Job
    <3>4. Claimed(records[i], w, now).status = "REVOKING"
      BY <3>1 DEF Claimed, Record
    <3>5. records'[i].status \in Requested
      BY <1>1, <3>1, <3>4 DEF Put, TypeOK, Requested
    <3> HIDE DEF k
    <3>6. QED
      BY <1>1, <2>1, <2>2, <2>4, <3>3, <3>5, WorkTyped
  <2>5. QED
    BY <1>5, <2>3, <2>4 DEF WorkerClaims
<1>6. CASE WorkerHeartbeats(w, now)
  <2>1. j # Idle /\ Heartbeat(j.id, w, j.epoch, now) /\ UNCHANGED <<broker, child, work>>
    BY <1>6 DEF WorkerHeartbeats
  <2>2. QED
    BY <1>1, <1>2, <1>3, <2>1, CalmRevocation, CalmFollows
<1>7. CASE WorkerFails(w, now)
  <2>1. /\ j # Idle /\ WorkerTo(w, Idle) /\ child' = child
        /\ \/ \E d \in RetryDelays : RetryRevocation(j.id, w, j.epoch, now, d)
           \/ RequireManual(j.id, w, j.epoch, now)
    BY <1>7 DEF WorkerFails
  <2>2. Calm
    BY <1>1, <1>2, <2>1, CalmRevocation
  <2>3. QED
    BY <1>1, <2>1, <2>2, CalmFollows, WorkTyped
<1>8. CASE WorkerCompletes(w, now)
  <2>1. /\ j # Idle /\ j.revoked /\ WorkerTo(w, Idle) /\ child' = child
        /\ CompleteRevocation(j.id, w, j.epoch, now)
    BY <1>8 DEF WorkerCompletes
  <2>2. PICK s : Put(j.id, s) /\ records[j.id].status = "REVOKING"
    BY <2>1 DEF CompleteRevocation, MatchesClaim
  <2>3. \A i \in Ids : i # j.id => records'[i] = records[i]
    BY <1>1, <1>2, <2>1, <2>2 DEF Put, TypeOK
  <2>4. AllFollow
    BY <1>2, <2>1, <2>2, <2>3 DEF AllFollow, Follows, Anchors, Completes
  <2>5. QED
    BY <1>1, <2>1, <2>4, WorkTyped
<1>9. CASE WorkerDefers(w)
  <2>1. WorkerTo(w, Idle) /\ child' = child /\ records' = records
    BY <1>9 DEF WorkerDefers
  <2>2. QED
    BY <1>1, <2>1, CalmSame, CalmFollows, WorkTyped
<1>10. CASE VaultRevokes(w) \/ VaultRevokesUnheard(w)
  <2>1. /\ j # Idle /\ records' = records
        /\ child' = [child EXCEPT ![j.id].state = "revoked"]
    BY <1>10 DEF VaultRevokes, VaultRevokesUnheard
  <2>2. /\ child[j.id] \in Child /\ child'[j.id].state = "revoked" /\ child' \in [Ids -> Child]
        /\ \A i \in Ids : i # j.id => child'[i] = child[i]
    BY <1>1, <1>2, <2>1 DEF Child
  <2>3. child[j.id].state # "none"
    BY <1>2, <2>1 DEF IssuanceInv, Backed
  <2>4. Calm
    BY <1>1, <2>1, CalmSame
  <2>5. AllFollow
    BY <2>1, <2>2, <2>3, <2>4 DEF AllFollow, Follows, Calm
  <2>6. CASE VaultRevokesUnheard(w)
    <3>1. broker' = broker /\ work' = work
      BY <2>6 DEF VaultRevokesUnheard
    <3>2. QED
      BY <1>1, <2>2, <2>5, <3>1 DEF PartiesTyped, WorkStep
  <2>7. CASE VaultRevokes(w)
    <3> DEFINE k == [j EXCEPT !.revoked = TRUE]
    <3>1. WorkerTo(w, k)
      BY <2>7 DEF VaultRevokes
    <3>2. k \in Job /\ k.id = j.id
      BY <1>2, <2>1 DEF Job
    <3> HIDE DEF k
    <3>3. QED
      BY <1>1, <1>2, <2>1, <2>2, <2>5, <3>1, <3>2, WorkTyped
  <2>8. QED
    BY <1>10, <2>6, <2>7
<1>11. QED
  BY <1>4, <1>5, <1>6, <1>7, <1>8, <1>9, <1>10 DEF WorkerNext

\* Vault answers in time: a child ends with its record, the call to Vault included.
LEMMA CreateStep ==
  ASSUME IssuanceInv, NEW i \in Ids, VaultCreates(i)
  PROVE  AllFollow /\ PartiesTyped' /\ WorkStep
<1> DEFINE r == records[i]
<1>1. /\ TypeOK /\ PartiesTyped /\ child \in [Ids -> Child] /\ clock \in Nat
      /\ r \in Record /\ Sound(r) /\ Backed(child[i], r, clock)
  BY DEF IssuanceInv, IssuanceTypeOK, PartiesTyped, LedgerInv, TypeOK
<1>2. /\ child[i].state = "asked" /\ clock <= r.authorizedAt + CreateBudget
      /\ child' = [child EXCEPT ![i] = [state |-> "live", expires |-> clock + r.ttl]]
      /\ UNCHANGED <<records, broker, work>>
  BY DEF VaultCreates
<1>3. r.authorizedAt \in Nat /\ r.ttl \in Nat /\ r.expires \in Nat /\ Reserve \in Nat
  BY <1>1, LedgerConstants DEF Record
<1>4. r.authorizedAt + Reserve + r.ttl <= r.expires
  BY <1>1, <1>2 DEF Backed, Sound
<1>5. clock + r.ttl <= r.expires /\ clock + r.ttl \in Nat
  <2> HIDE DEF r
  <2> QED BY <1>1, <1>2, <1>3, <1>4, BudgetWithinReserve
<1>6. /\ child'[i] = [state |-> "live", expires |-> clock + r.ttl]
      /\ child' \in [Ids -> Child]
      /\ \A j \in Ids : j # i => child'[j] = child[j]
  BY <1>1, <1>2, <1>5 DEF Child
<1>7. Calm
  BY <1>1, <1>2, CalmSame
<1>8. AllFollow
  BY <1>2, <1>5, <1>6, <1>7 DEF AllFollow, Follows, Calm
<1>9. QED
  BY <1>1, <1>2, <1>6, <1>8 DEF PartiesTyped, WorkStep

LEMMA SurroundingsStep ==
  ASSUME IssuanceInv, Surroundings \/ UNCHANGED vars
  PROVE  AllFollow /\ PartiesTyped' /\ WorkStep
<1>1. LedgerInv /\ TypeOK /\ PartiesTyped
  BY DEF IssuanceInv, IssuanceTypeOK, PartiesTyped, LedgerInv
<1>2. UNCHANGED <<broker, child, work>>
  BY DEF Surroundings, vars
<1>3. Calm
  <2>1. CASE Tick \/ UNCHANGED vars
    BY <1>1, <2>1, CalmSame DEF Tick, vars
  <2>2. ASSUME NEW now \in Readings, ActionMoves(now) PROVE Calm
    BY <1>1, <2>2, SourceKept, CalmSame
  <2>3. ASSUME NEW now \in Readings, OperatorMoves(now) PROVE Calm
    BY <1>1, <2>3, CalmOperators
  <2>4. QED
    BY <2>1, <2>2, <2>3 DEF Surroundings
<1>4. QED
  BY <1>1, <1>2, <1>3, CalmFollows DEF PartiesTyped, WorkStep

LEMMA IssuanceStep == IssuanceInv /\ [Next]_vars => IssuanceInv'
<1> SUFFICES ASSUME IssuanceInv, [Next]_vars PROVE IssuanceInv'
  OBVIOUS
<1>1. LedgerInv /\ IssuanceTypeOK
  BY DEF IssuanceInv
<1>2. LedgerInv' /\ AllMoved /\ clock' \in Nat /\ clock <= clock'
  BY <1>1, StepCalls, LedgerStep
<1>3. AllFollow /\ PartiesTyped' /\ WorkStep
  BY SurroundingsStep, CreateStep, BrokerStep, WorkerStep DEF Next
<1>4. IssuanceTypeOK'
  BY <1>2, <1>3 DEF LedgerInv, IssuanceTypeOK, PartiesTyped
<1>5. ASSUME NEW i \in Ids PROVE Backed(child'[i], records'[i], clock')
  <2>1. /\ records[i] \in Record /\ records'[i] \in Record /\ child[i] \in Child
        /\ child'[i] \in Child /\ clock \in Nat /\ Sound(records[i])
        /\ Backed(child[i], records[i], clock)
    BY <1>1, <1>4 DEF IssuanceInv, LedgerInv, IssuanceTypeOK, TypeOK
  <2>2. QED
    BY <1>2, <1>3, <2>1, BackedKept DEF AllMoved, AllFollow
<1>6. \A i \in Ids : /\ records[i].status \in Requested => records'[i].status \in Requested
                     /\ child[i].state = "revoked" => child'[i].state = "revoked"
  BY <1>1, <1>2, <1>3, MovesHold DEF RevocationIsForever, AllFollow, Follows
<1>7. ASSUME NEW w \in Workers PROVE Working(work[w])'
  <2>1. Working(work[w]) /\ (work[w] # Idle => work[w].id \in Ids)
    BY <1>1 DEF IssuanceInv, IssuanceTypeOK, Job
  <2>2. QED
    BY <1>3, <1>6, <2>1 DEF WorkStep, Working
<1>8. QED
  BY <1>2, <1>4, <1>5, <1>7 DEF IssuanceInv

LEMMA IssuanceStart == Init => IssuanceInv
<1> SUFFICES ASSUME Init PROVE IssuanceInv
  OBVIOUS
<1>1. LedgerInv /\ TypeOK
  BY LedgerStart DEF Init, LedgerInv
<1>2. IssuanceTypeOK
  BY <1>1 DEF Init, IssuanceTypeOK, BrokerPhases, Child, NoChild
<1>3. \A i \in Ids : Backed(child[i], records[i], clock)
  BY DEF Init, LedgerInit, Backed, NoChild, Absent, Managed, Requested
<1>4. \A w \in Workers : Working(work[w])
  BY DEF Init, Working
<1>5. QED
  BY <1>1, <1>2, <1>3, <1>4 DEF IssuanceInv

LEMMA IssuanceInvariant == Spec => []IssuanceInv
  BY IssuanceStart, IssuanceStep, PTL DEF Spec

-----------------------------------------------------------------------------
(* Handing over *)

LEMMA HandoverStep == IssuanceInv /\ [Next]_vars => HandoverIsFenced
<1> SUFFICES ASSUME IssuanceInv, [Next]_vars, NEW i \in Ids,
                    broker[i] # "holding", broker'[i] = "holding"
             PROVE  FenceCurrent(records[i], clock, PostWindow)
  BY DEF HandoverIsFenced
<1> DEFINE r == records[i]
           active == [r EXCEPT !.status = "ACTIVE"]
<1>1. LedgerInv /\ TypeOK /\ broker \in [Ids -> BrokerPhases] /\ r \in Record /\ clock \in Nat
  BY DEF IssuanceInv, IssuanceTypeOK, LedgerInv, TypeOK
<1>2. \A j, p : BrokerTo(j, p) => i = j /\ p = "holding"
  BY <1>1 DEF BrokerTo
<1>3. PICK now \in Readings : BrokerActivates(i, now)
  <2>1. ~(Surroundings \/ UNCHANGED vars) /\ (\A j : ~VaultCreates(j))
    BY DEF Surroundings, VaultCreates, vars
  <2>2. ASSUME NEW now \in Readings, NEW w \in Workers, WorkerNext(w, now) PROVE FALSE
    <3>1. broker' = broker
      BY <2>2 DEF WorkerNext, WorkerRecoversPrepared, WorkerRecoversManaged,
                  WorkerRecoversExhausted, WorkerClaims, WorkerHeartbeats, WorkerCompletes,
                  WorkerFails, WorkerDefers, VaultRevokes, VaultRevokesUnheard, WorkerTo
    <3>2. QED
      BY <3>1
  <2>3. ASSUME NEW now \in Readings, BrokerNext(now) PROVE BrokerActivates(i, now)
    <3>1. ASSUME NEW t \in tickets, BrokerPrepared(t) \/ BrokerDeclined(t) \/ BrokerAbsent(t)
          PROVE  FALSE
      BY <1>2, <3>1 DEF BrokerPrepared, BrokerDeclined, BrokerAbsent
    <3>2. ASSUME NEW j \in Ids,
                 \/ \E a \in Actions : BrokerPrepare(j, a, now)
                 \/ BrokerDeclines(j, now) \/ BrokerAuthorizes(j, now) \/ BrokerGivesBack(j, now)
                 \/ BrokerStops(j)
          PROVE  FALSE
      BY <1>2, <3>2 DEF BrokerPrepare, BrokerDeclines, BrokerAuthorizes, BrokerGivesBack, BrokerStops
    <3>3. ASSUME NEW j \in Ids, BrokerAnchors(j, now) PROVE FALSE
      BY <1>2, <3>3 DEF BrokerAnchors
    <3>4. ASSUME NEW j \in Ids, BrokerActivates(j, now) PROVE i = j
      BY <1>2, <3>4 DEF BrokerActivates
    <3>5. QED
      BY <2>3, <3>1, <3>2, <3>3, <3>4 DEF BrokerNext
  <2>4. QED
    BY <2>1, <2>2, <2>3 DEF Next
<1>4. Activate(i, now) /\ records'[i].status = "ACTIVE"
  BY <1>2, <1>3 DEF BrokerActivates
<1>5. now \in Nat /\ r.status \in Managed
  BY <1>1, <1>4, ReadingsType DEF Activate
<1>6. active \in Record /\ active.status \in Managed
  BY <1>1 DEF Record, Statuses, Managed
<1>7. Asked(r, now).status # "ACTIVE" /\ Asked(active, clock).status # "ACTIVE"
  <2> HIDE DEF r, active
  <2> QED BY <1>1, <1>5, <1>6, AskedMoves
<1>8. records'[i] \in {Asked(r, now), AskedUnless(FenceCurrent(r, clock, PostWindow), active, clock)}
  BY <1>1, <1>4 DEF Activate, Put, TypeOK
<1>9. QED
  BY <1>4, <1>7, <1>8 DEF AskedUnless

-----------------------------------------------------------------------------
(* The theorems about the ledger with its parties *)

\* Brokers, workers, operators and Vault only ever use the ledger's own calls:
\* what is proved of the ledger under any callers holds of it here.
THEOREM PartiesUseTheLedger == Spec => LedgerSpec
<1>1. Init => LedgerInit
  BY DEF Init
<1>2. IssuanceInv => IssuanceTypeOK
  BY DEF IssuanceInv
<1>3. QED
  BY <1>1, <1>2, StepCalls, IssuanceInvariant, PTL DEF Spec, LedgerSpec

\* The records, calls, brokers, children and claims in work keep their shape; a
\* claim epoch never passes its largest value.
THEOREM TypeCorrect == Spec => []IssuanceTypeOK
<1>1. IssuanceInv => IssuanceTypeOK
  BY DEF IssuanceInv
<1>2. QED
  BY <1>1, IssuanceInvariant, PTL

\* A revocation ends by a completed claim or by two operators with an
\* administrator among them, and within its attempts.
THEOREM RecordsEndProperly == Spec => []LedgerSafety
  BY PartiesUseTheLedger, LedgerIsSafe, PTL

\* When a record says that its credential is gone, its child is dead at Vault or
\* two operators vouch for it; and no child outlives the deadline its record
\* was given before Vault was asked (InspectCleanup, AuthorizeChildCreate),
\* whichever party crashed and whichever answer was lost.
THEOREM ChildrenAreAccounted == Spec => []ChildrenAccounted
  BY IssuanceInvariant, InvAccounts, PTL

\* No late call takes back a requested revocation, a final status or an operator's
\* confirmation, and no credential is handed to a run behind its lease
\* (RecordAnchor, Activate, RequeueManual).
THEOREM LateCallsChangeNothing == Spec => CredentialSteps
<1>1. IssuanceInv /\ [Next]_vars => [RevocationIsForever /\ ConfirmationsHold /\ HandoverIsFenced]_vars
  <2> SUFFICES ASSUME IssuanceInv, [Next]_vars
               PROVE  RevocationIsForever /\ ConfirmationsHold /\ HandoverIsFenced
    OBVIOUS
  <2>1. LedgerInv /\ IssuanceTypeOK
    BY DEF IssuanceInv
  <2>2. AllMoved
    BY <2>1, StepCalls, LedgerStep
  <2>3. QED
    BY <2>1, <2>2, MovesHold, HandoverStep
<1>2. QED
  BY <1>1, IssuanceInvariant, PTL DEF Spec, CredentialSteps
=============================================================================
