------------------------ MODULE ExecutionLeaseProofs ------------------------
(***************************************************************************)
(* Proofs that the execution lease repository keeps its types, excludes    *)
(* two holders of one target, starts an execution once, keeps what it      *)
(* acknowledged and never loses a started run, for every set of            *)
(* executions, runners and targets and every clock.                        *)
(***************************************************************************)
EXTENDS ExecutionLease, TLAPS

-----------------------------------------------------------------------------
(* Type correctness *)

LEMMA InitTypeOK == Init => TypeOK
  BY ConstantsOK DEF Init, TypeOK, Absent, Execution, NoFence, Fence, Lease, Ack,
     Statuses, Holding, Terminal, Pools

\* Assigning one field keeps the shape of an execution.
LEMMA FieldType ==
  ASSUME NEW x \in Execution
  PROVE  /\ \A v \in Statuses : [x EXCEPT !.status = v] \in Execution
         /\ \A v \in Targets \cup {None} : [x EXCEPT !.target = v] \in Execution
         /\ \A v \in Pools \cup {None} : [x EXCEPT !.pool = v] \in Execution
         /\ \A v \in BOOLEAN : [x EXCEPT !.production = v] \in Execution
         /\ \A v \in Runners \cup {None} : [x EXCEPT !.runner = v] \in Execution
         /\ \A v \in 0..MaxEpoch : [x EXCEPT !.epoch = v] \in Execution
         /\ \A v \in Nat : [x EXCEPT !.expires = v] \in Execution
         /\ \A v \in Results \cup {None} : [x EXCEPT !.result = v] \in Execution
         /\ \A v \in ReconciliationIds \cup {None} :
              [x EXCEPT !.reconciliation = v] \in Execution
         /\ \A v \in Actors \cup {None} : [x EXCEPT !.actor = v] \in Execution
         /\ \A v \in Results \cup {None} : [x EXCEPT !.verdict = v] \in Execution
  BY DEF Execution

LEMMA StatusNames ==
  /\ Completions \subseteq Statuses /\ Verdicts \subseteq Statuses
  /\ {"QUEUED", "LEASED", "RUNNING", "UNCERTAIN", "CANCELLED"} \subseteq Statuses
  BY DEF Completions, Verdicts, Statuses, Holding, Terminal

LEMMA AbsentType == Absent \in Execution
  BY ConstantsOK DEF Absent, Execution, Statuses

\* expireLeases keeps the shape of the two maps.
LEMMA ExpiryType ==
  ASSUME TypeOK, NEW now \in Nat
  PROVE  /\ AfterExpiry(now) \in [Executions -> Execution]
         /\ FencesAfterExpiry(now) \in [Executions -> Fence \cup {NoFence}]
<1>1. ASSUME NEW e \in Executions
      PROVE Expire(executions[e], now) \in Execution
  <2> DEFINE x == executions[e]
  <2>1. x \in Execution
    BY DEF TypeOK
  <2>2. [x EXCEPT !.status = "QUEUED", !.runner = None, !.expires = 0] \in Execution
    BY <2>1, FieldType, StatusNames, 0 \in Nat
  <2>3. [x EXCEPT !.status = "UNCERTAIN", !.expires = 0] \in Execution
    BY <2>1, FieldType, StatusNames, 0 \in Nat
  <2>4. QED
    BY <2>1, <2>2, <2>3 DEF Expire
<1>2. QED
  BY <1>1 DEF AfterExpiry, FencesAfterExpiry, TypeOK

LEMMA StepTypeOK == TypeOK /\ [Next]_vars => TypeOK'
<1> SUFFICES ASSUME TypeOK, [Next]_vars PROVE TypeOK'
  OBVIOUS
<1> USE ConstantsOK
<1>a. Readings \subseteq Nat
  BY DEF Readings, TypeOK
<1>1. ASSUME NEW q \in Requests, Enqueue(q) PROVE TypeOK'
  <2>1. q \in Request
    OBVIOUS
  <2>2. [Absent EXCEPT !.status = "QUEUED", !.target = q.target,
           !.pool = q.pool, !.production = q.production] \in Execution
    BY <2>1, AbsentType, FieldType, StatusNames DEF Request
  <2>3. executions' \in [Executions -> Execution]
    BY <1>1, <2>1, <2>2 DEF Enqueue, TypeOK, Request
  <2>4. order' \in Seq(Executions)
    BY <1>1, <2>1 DEF Enqueue, TypeOK, Request
  <2>5. QED
    BY <1>1, <2>3, <2>4 DEF Enqueue, TypeOK
<1>2. ASSUME NEW now \in Readings, NEW pool \in Pools, NEW r \in Runners,
             NEW dur \in Durations, Claim(pool, r, now, dur)
      PROVE TypeOK'
  <2> DEFINE xs == AfterExpiry(now)
             fs == FencesAfterExpiry(now)
  <2>1. xs \in [Executions -> Execution] /\ fs \in [Executions -> Fence \cup {NoFence}]
    BY <1>a, ExpiryType
  <2>2. PICK i \in 1..Len(order) :
       /\ xs[order[i]].epoch < MaxEpoch
       /\ executions' = [xs EXCEPT ![order[i]] =
            [@ EXCEPT !.status = "LEASED", !.runner = r, !.epoch = xs[order[i]].epoch + 1,
                      !.expires = now + dur]]
       /\ leaseFences' = [fs EXCEPT ![order[i]] =
            [runner |-> r, epoch |-> xs[order[i]].epoch + 1, token |-> nextToken]]
       /\ leases' = leases \cup
            {[execution |-> order[i], runner |-> r, epoch |-> xs[order[i]].epoch + 1,
              token |-> nextToken]}
    BY <1>2 DEF Claim
  <2>3. order[i] \in Executions
    BY <2>2 DEF TypeOK
  <2>4. xs[order[i]] \in Execution
    BY <2>1, <2>3
  <2>5. xs[order[i]].epoch + 1 \in 1..MaxEpoch
    BY <2>2, <2>4 DEF Execution
  <2>6. [xs[order[i]] EXCEPT !.status = "LEASED", !.runner = r,
            !.epoch = xs[order[i]].epoch + 1, !.expires = now + dur] \in Execution
    BY <2>4, <2>5, <1>a, FieldType, StatusNames, now + dur \in Nat, 1..MaxEpoch \subseteq 0..MaxEpoch
  <2>7. executions' \in [Executions -> Execution]
    BY <2>1, <2>2, <2>3, <2>6
  <2>8. leaseFences' \in [Executions -> Fence \cup {NoFence}]
    BY <2>1, <2>2, <2>3, <2>5 DEF Fence, TypeOK
  <2>9. leases' \subseteq Lease
    BY <2>2, <2>3, <2>5 DEF Lease, TypeOK
  <2>10. QED
    BY <1>2, <2>7, <2>8, <2>9 DEF Claim, TypeOK
<1>3. ASSUME NEW now \in Readings, SweepExpired(now) PROVE TypeOK'
  BY <1>3, <1>a, ExpiryType DEF SweepExpired, TypeOK
<1>4. ASSUME NEW l \in leases, NEW now \in Readings, Start(l, now) PROVE TypeOK'
  <2>1. l \in Lease /\ l.execution \in Executions
    BY DEF TypeOK, Lease
  <2>2. executions' \in [Executions -> Execution]
    BY <1>4, <2>1, FieldType, StatusNames DEF Start, TypeOK
  <2>3. QED
    BY <1>4, <2>1, <2>2 DEF Start, TypeOK
<1>5. ASSUME NEW l \in leases, NEW now \in Readings, NEW ext \in Durations,
             Heartbeat(l, now, ext)
      PROVE TypeOK'
  <2>1. l.execution \in Executions /\ now + ext \in Nat
    BY <1>a DEF TypeOK, Lease
  <2>2. executions' \in [Executions -> Execution]
    BY <1>5, <2>1, FieldType DEF Heartbeat, TypeOK
  <2>3. QED
    BY <1>5, <2>2 DEF Heartbeat, TypeOK
<1>6. ASSUME NEW l \in leases, NEW now \in Readings, NEW st \in Completions,
             NEW res \in Results, Complete(l, now, st, res)
      PROVE TypeOK'
  <2>1. l.execution \in Executions /\ l.epoch \in 1..MaxEpoch
    BY DEF TypeOK, Lease
  <2>2. executions' \in [Executions -> Execution]
    BY <1>6, <2>1, FieldType, StatusNames DEF Complete, TypeOK
  <2>3. acks' \subseteq Ack
    BY <1>6, <2>1 DEF Complete, TypeOK, Ack
  <2>4. QED
    BY <1>6, <2>2, <2>3 DEF Complete, TypeOK
<1>7. ASSUME NEW l \in leases, NEW st \in Completions, NEW res \in Results,
             ReplayComplete(l, st, res)
      PROVE TypeOK'
  <2>1. l.execution \in Executions /\ l.epoch \in 1..MaxEpoch
    BY DEF TypeOK, Lease
  <2>2. acks' \subseteq Ack
    BY <1>7, <2>1 DEF ReplayComplete, TypeOK, Ack
  <2>3. QED
    BY <1>7, <2>2 DEF ReplayComplete, TypeOK
<1>8. ASSUME NEW e \in Executions, NEW now \in Readings, NEW id \in ReconciliationIds,
             NEW actor \in Actors, NEW verdict \in Verdicts, NEW res \in Results,
             Reconcile(e, now, id, actor, verdict, res)
      PROVE TypeOK'
  <2> DEFINE xs == AfterExpiry(now)
             fs == FencesAfterExpiry(now)
  <2>1. xs \in [Executions -> Execution] /\ fs \in [Executions -> Fence \cup {NoFence}]
    BY <1>a, ExpiryType
  <2>2. [xs[e] EXCEPT !.status = verdict, !.verdict = res, !.reconciliation = id,
           !.actor = actor] \in Execution
    BY <2>1, FieldType, StatusNames
  <2>3. executions' \in [Executions -> Execution]
    BY <1>8, <2>1, <2>2 DEF Reconcile
  <2>4. leaseFences' \in [Executions -> Fence \cup {NoFence}]
    BY <1>8, <2>1 DEF Reconcile
  <2>5. QED
    BY <1>8, <2>3, <2>4 DEF Reconcile, TypeOK
<1>9. ASSUME NEW e \in Executions, Cancel(e) PROVE TypeOK'
  <2>1. executions' \in [Executions -> Execution]
    BY <1>9, FieldType, StatusNames DEF Cancel, TypeOK
  <2>2. leaseFences' \in [Executions -> Fence \cup {NoFence}]
    BY <1>9 DEF Cancel, TypeOK
  <2>3. QED
    BY <1>9, <2>1, <2>2 DEF Cancel, TypeOK
<1>10. CASE Tick
  BY <1>10 DEF Tick, TypeOK
<1>11. CASE UNCHANGED vars
  BY <1>11 DEF vars, TypeOK
<1>12. QED
  BY <1>1, <1>2, <1>3, <1>4, <1>5, <1>6, <1>7, <1>8, <1>9, <1>10, <1>11 DEF Next

\* Every state the repository reaches has its declared shape: epochs stay within
\* the width of the counter and a fence is either complete or deleted.
THEOREM TypeCorrect == Spec => []TypeOK
<1>1. QED
  BY InitTypeOK, StepTypeOK, PTL DEF Spec

-----------------------------------------------------------------------------
(* What a step may do to one execution *)

\* expireLeases returns an expired lease to the queue, makes an expired run
\* uncertain and leaves the target, the epoch, the recorded result and the
\* reconciliation alone.
LEMMA ExpiryEffect ==
  ASSUME TypeOK, NEW now \in Nat, NEW e \in Executions
  PROVE  LET x == executions[e]
             y == AfterExpiry(now)[e]
         IN /\ y.target = x.target /\ y.epoch = x.epoch /\ y.result = x.result
            /\ y.reconciliation = x.reconciliation
            /\ \/ y = x
               \/ x.status = "LEASED" /\ y.status = "QUEUED"
               \/ x.status = "RUNNING" /\ y.status = "UNCERTAIN"
<1> DEFINE x == executions[e]
<1>1. x \in Execution
  BY DEF TypeOK
<1>2. AfterExpiry(now)[e] = Expire(x, now)
  BY DEF AfterExpiry
<1>3. QED
  BY <1>1, <1>2 DEF Expire, Lapsed, Execution

-----------------------------------------------------------------------------
(* One holder per target *)

\* A step after which every holder already held the same target before keeps
\* targets exclusive.
LEMMA NoNewHolder ==
  ASSUME TargetExclusive,
         \A e \in Executions :
           executions'[e].status \in Holding =>
             /\ executions[e].status \in Holding
             /\ executions'[e].target = executions[e].target
  PROVE  TargetExclusive'
  BY DEF TargetExclusive

LEMMA StepExclusive == TypeOK /\ TargetExclusive /\ [Next]_vars => TargetExclusive'
<1> SUFFICES ASSUME TypeOK, TargetExclusive, [Next]_vars PROVE TargetExclusive'
  OBVIOUS
<1>a. Readings \subseteq Nat
  BY DEF Readings, TypeOK
<1>b. ASSUME NEW e \in Executions PROVE executions[e] \in Execution
  BY <1>b DEF TypeOK
<1>1. ASSUME NEW q \in Requests, Enqueue(q) PROVE TargetExclusive'
  <2>1. q.id \in Executions
    BY ConstantsOK DEF Request
  <2>2. executions'[q.id].status = "QUEUED"
    BY <1>1, <2>1 DEF Enqueue, TypeOK, Absent
  <2>3. \A e \in Executions \ {q.id} : executions'[e] = executions[e]
    BY <1>1, <2>1 DEF Enqueue, TypeOK
  <2>4. QED
    BY <2>2, <2>3, NoNewHolder DEF Holding
<1>2. ASSUME NEW now \in Readings, NEW pool \in Pools, NEW r \in Runners,
             NEW dur \in Durations, Claim(pool, r, now, dur)
      PROVE TargetExclusive'
  <2> DEFINE xs == AfterExpiry(now)
  <2>1. PICK i \in 1..Len(order) :
       /\ Claimable(xs, order[i], pool)
       /\ executions' = [xs EXCEPT ![order[i]] =
            [@ EXCEPT !.status = "LEASED", !.runner = r, !.epoch = xs[order[i]].epoch + 1,
                      !.expires = now + dur]]
    BY <1>2 DEF Claim
  <2> DEFINE e == order[i]
  <2>2. e \in Executions
    BY <2>1 DEF TypeOK
  <2>3. xs \in [Executions -> Execution]
    BY <1>a, ExpiryType
  <2>4. executions'[e].target = xs[e].target
    BY <2>1, <2>2, <2>3 DEF Execution
  <2>5. \A d \in Executions \ {e} : executions'[d] = xs[d]
    BY <2>1, <2>2, <2>3
  <2>6. \A d \in Executions \ {e} : xs[d].target = xs[e].target => xs[d].status \notin Holding
    BY <2>1 DEF Claimable, TargetUnavailable
  <2>7. \A d \in Executions : /\ xs[d].target = executions[d].target
                              /\ xs[d].status \in Holding => executions[d].status \in Holding
    BY <1>a, ExpiryEffect DEF Holding
  <2>8. ASSUME NEW c \in Executions, NEW d \in Executions, c # d,
               executions'[c].status \in Holding, executions'[d].status \in Holding
        PROVE executions'[c].target # executions'[d].target
    <3>1. CASE c = e
      BY <2>4, <2>5, <2>6, <2>8, <3>1
    <3>2. CASE d = e
      BY <2>4, <2>5, <2>6, <2>8, <3>2
    <3>3. CASE c # e /\ d # e
      BY <2>5, <2>7, <2>8, <3>3 DEF TargetExclusive
    <3>4. QED
      BY <3>1, <3>2, <3>3
  <2>9. QED
    BY <2>8 DEF TargetExclusive
<1>3. ASSUME NEW now \in Readings, SweepExpired(now) PROVE TargetExclusive'
  BY <1>3, <1>a, ExpiryEffect, NoNewHolder DEF SweepExpired, Holding
<1>4. ASSUME NEW l \in leases, NEW now \in Readings, Start(l, now) PROVE TargetExclusive'
  <2>1. l.execution \in Executions
    BY DEF TypeOK, Lease
  <2>2. executions[l.execution].status \in Holding
    BY <1>4 DEF Start, CurrentLease, Holding
  <2>3. executions'[l.execution].target = executions[l.execution].target
    BY <1>4, <1>b, <2>1 DEF Start, TypeOK, Execution
  <2>4. \A e \in Executions \ {l.execution} : executions'[e] = executions[e]
    BY <1>4, <2>1 DEF Start, TypeOK
  <2>5. QED
    BY <2>2, <2>3, <2>4, NoNewHolder
<1>5. ASSUME NEW l \in leases, NEW now \in Readings, NEW ext \in Durations,
             Heartbeat(l, now, ext)
      PROVE TargetExclusive'
  <2>1. l.execution \in Executions
    BY DEF TypeOK, Lease
  <2>2. executions'[l.execution].target = executions[l.execution].target
        /\ executions'[l.execution].status = executions[l.execution].status
    BY <1>5, <1>b, <2>1 DEF Heartbeat, TypeOK, Execution
  <2>3. \A e \in Executions \ {l.execution} : executions'[e] = executions[e]
    BY <1>5, <2>1 DEF Heartbeat, TypeOK
  <2>4. QED
    BY <2>2, <2>3, NoNewHolder
<1>6. ASSUME NEW l \in leases, NEW now \in Readings, NEW st \in Completions,
             NEW res \in Results, Complete(l, now, st, res)
      PROVE TargetExclusive'
  <2>1. l.execution \in Executions
    BY DEF TypeOK, Lease
  <2>2. executions'[l.execution].target = executions[l.execution].target
        /\ executions[l.execution].status \in Holding
    BY <1>6, <1>b, <2>1 DEF Complete, TypeOK, Execution, Holding
  <2>3. \A e \in Executions \ {l.execution} : executions'[e] = executions[e]
    BY <1>6, <2>1 DEF Complete, TypeOK
  <2>4. QED
    BY <2>2, <2>3, NoNewHolder
<1>7. ASSUME NEW l \in leases, NEW st \in Completions, NEW res \in Results,
             ReplayComplete(l, st, res)
      PROVE TargetExclusive'
  BY <1>7 DEF ReplayComplete, TargetExclusive
<1>8. ASSUME NEW e \in Executions, NEW now \in Readings, NEW id \in ReconciliationIds,
             NEW actor \in Actors, NEW verdict \in Verdicts, NEW res \in Results,
             Reconcile(e, now, id, actor, verdict, res)
      PROVE TargetExclusive'
  <2> DEFINE xs == AfterExpiry(now)
  <2>1. xs \in [Executions -> Execution]
    BY <1>a, ExpiryType
  <2>2. executions'[e].status = verdict
    BY <1>8, <2>1 DEF Reconcile, Execution
  <2>3. \A d \in Executions \ {e} : executions'[d] = xs[d]
    BY <1>8, <2>1 DEF Reconcile
  <2>4. \A d \in Executions : /\ xs[d].target = executions[d].target
                              /\ xs[d].status \in Holding => executions[d].status \in Holding
    BY <1>a, ExpiryEffect DEF Holding
  <2>5. QED
    BY <2>2, <2>3, <2>4, NoNewHolder DEF Verdicts, Holding
<1>9. ASSUME NEW e \in Executions, Cancel(e) PROVE TargetExclusive'
  <2>1. executions'[e].target = executions[e].target
        /\ (executions'[e].status \in Holding => executions[e].status \in Holding)
    BY <1>9, <1>b DEF Cancel, TypeOK, Execution, Holding
  <2>2. \A d \in Executions \ {e} : executions'[d] = executions[d]
    BY <1>9 DEF Cancel, TypeOK
  <2>3. QED
    BY <2>1, <2>2, NoNewHolder
<1>10. CASE Tick
  BY <1>10 DEF Tick, TargetExclusive
<1>11. CASE UNCHANGED vars
  BY <1>11 DEF vars, TargetExclusive
<1>12. QED
  BY <1>1, <1>2, <1>3, <1>4, <1>5, <1>6, <1>7, <1>8, <1>9, <1>10, <1>11 DEF Next

\* Two executions never hold the same target at once, even when a claim works
\* with a clock reading older than the state it finds.
THEOREM TargetIsExclusive == Spec => []TargetExclusive
<1>1. Init => TargetExclusive
  BY DEF Init, TargetExclusive, Absent, Holding
<1>2. QED
  BY <1>1, StepExclusive, TypeCorrect, PTL DEF Spec

-----------------------------------------------------------------------------
(* Fencing: started once, acknowledged for good, never lost *)

\* The parts of the inductive invariant other than TypeOK survive any step
\* that issues no lease, starts nothing, acknowledges nothing and moves every
\* execution along the arrows below.
Quiet(x, y) ==
  /\ y.epoch = x.epoch
  /\ y.result = x.result
  /\ y.status = "ABSENT" => y = x
  /\ \/ y.status = x.status /\ y.reconciliation = x.reconciliation
     \/ /\ y.reconciliation = x.reconciliation
        /\ <<x.status, y.status>> \in
             {<<"ABSENT", "QUEUED">>, <<"LEASED", "QUEUED">>, <<"LEASED", "RUNNING">>,
              <<"QUEUED", "CANCELLED">>, <<"LEASED", "CANCELLED">>,
              <<"RUNNING", "UNCERTAIN">>}
     \/ x.status \in {"RUNNING", "UNCERTAIN"} /\ y.status \in Verdicts
        /\ y.reconciliation # None

LEMMA QuietStep ==
  ASSUME IInv, TypeOK', UNCHANGED <<leases, starts, acks>>,
         \A e \in Executions : Quiet(executions[e], executions'[e]),
         \A e \in Executions : leaseFences'[e] \in {leaseFences[e], NoFence}
  PROVE  IInv'
<1>1. \A l \in leases : l.execution \in Executions
  BY DEF IInv, TypeOK, Lease
<1>2. \A a \in acks : a.execution \in Executions
  BY DEF IInv, TypeOK, Ack
<1>3. LeasesFenced'
  BY <1>1 DEF IInv, LeasesFenced, Quiet
<1>4. StartedStays'
  BY <1>1 DEF IInv, StartedStays, Quiet, Terminal, Verdicts
<1>5. AckedStays'
  <2> SUFFICES ASSUME NEW a \in acks
               PROVE  LET y == executions'[a.execution] IN
                      /\ y.epoch = a.epoch /\ y.status \in Terminal
                      /\ y.result = a.result
                      /\ \/ y.status = a.status
                         \/ a.status = "UNCERTAIN" /\ y.reconciliation # None
    BY DEF AckedStays
  <2> DEFINE x == executions[a.execution]
             y == executions'[a.execution]
  <2>1. Quiet(x, y)
    BY <1>2
  <2>2. /\ x.epoch = a.epoch /\ x.status \in Terminal /\ x.result = a.result
        /\ x.status = a.status \/ (a.status = "UNCERTAIN" /\ x.reconciliation # None)
    BY DEF IInv, AckedStays
  <2>3. QED
    BY <2>1, <2>2 DEF Quiet, Terminal, Verdicts
<1>6. StartedRunAccounted'
  <2> SUFFICES ASSUME NEW l \in starts
               PROVE  \/ executions'[l.execution].status \in Holding
                      \/ executions'[l.execution].reconciliation # None
                      \/ \E a \in acks : a.execution = l.execution /\ a.epoch = l.epoch
    BY DEF StartedRunAccounted
  <2>1. Quiet(executions[l.execution], executions'[l.execution])
    BY <1>1 DEF IInv, StartedStays
  <2>2. executions[l.execution].status \in {"RUNNING"} \cup Terminal
    BY DEF IInv, StartedStays
  <2>3. QED
    BY <2>1, <2>2 DEF IInv, StartedRunAccounted, Quiet, Holding, Terminal
<1>7. AbsentBlank'
  <2> SUFFICES ASSUME NEW e \in Executions, executions'[e].status = "ABSENT"
               PROVE executions'[e] = Absent
    BY DEF AbsentBlank
  <2>1. executions'[e] = executions[e]
    BY DEF Quiet
  <2>2. QED
    BY <2>1 DEF IInv, AbsentBlank
<1>8. FenceCurrent'
  BY DEF IInv, FenceCurrent, Quiet
<1>9. QED
  BY <1>3, <1>4, <1>5, <1>6, <1>7, <1>8 DEF IInv

LEMMA StepIInv == IInv /\ [Next]_vars => IInv'
<1> SUFFICES ASSUME IInv, [Next]_vars PROVE IInv'
  OBVIOUS
<1>a. TypeOK /\ TypeOK'
  BY StepTypeOK DEF IInv
<1>b. Readings \subseteq Nat
  BY <1>a DEF Readings, TypeOK
<1>c. \A e \in Executions : executions[e] \in Execution
  BY <1>a DEF TypeOK
<1>d. \A l \in leases : l \in Lease /\ l.execution \in Executions
  BY <1>a DEF TypeOK, Lease
<1>e. \A now \in Readings, e \in Executions :
        Quiet(executions[e], AfterExpiry(now)[e])
  BY <1>a, <1>b, ExpiryEffect DEF Quiet
<1>f. \A now \in Readings, e \in Executions :
        FencesAfterExpiry(now)[e] \in {leaseFences[e], NoFence}
  BY DEF FencesAfterExpiry
<1>1. ASSUME NEW q \in Requests, Enqueue(q) PROVE IInv'
  <2>1. q.id \in Executions
    BY ConstantsOK DEF Request
  <2>2. executions[q.id].status = "ABSENT"
    BY <1>1 DEF Enqueue
  <2>3. executions[q.id] = Absent
    BY <2>1, <2>2 DEF IInv, AbsentBlank
  <2>4. /\ executions'[q.id].status = "QUEUED" /\ executions'[q.id].epoch = Absent.epoch
        /\ executions'[q.id].result = Absent.result
        /\ executions'[q.id].reconciliation = Absent.reconciliation
    BY <1>1, <1>a, <2>1 DEF Enqueue, TypeOK, Absent
  <2>5. \A e \in Executions \ {q.id} : executions'[e] = executions[e]
    BY <1>1, <1>a, <2>1 DEF Enqueue, TypeOK
  <2>6. \A e \in Executions : Quiet(executions[e], executions'[e])
    BY <2>2, <2>3, <2>4, <2>5 DEF Quiet
  <2>7. QED
    BY <1>1, <1>a, <2>6, QuietStep DEF Enqueue
<1>2. ASSUME NEW now \in Readings, NEW pool \in Pools, NEW r \in Runners,
             NEW dur \in Durations, Claim(pool, r, now, dur)
      PROVE IInv'
  <2> DEFINE xs == AfterExpiry(now)
  <2>1. PICK i \in 1..Len(order) :
       /\ Claimable(xs, order[i], pool)
       /\ executions' = [xs EXCEPT ![order[i]] =
            [@ EXCEPT !.status = "LEASED", !.runner = r, !.epoch = xs[order[i]].epoch + 1,
                      !.expires = now + dur]]
       /\ leaseFences' = [FencesAfterExpiry(now) EXCEPT ![order[i]] =
            [runner |-> r, epoch |-> xs[order[i]].epoch + 1, token |-> nextToken]]
       /\ leases' = leases \cup
            {[execution |-> order[i], runner |-> r, epoch |-> xs[order[i]].epoch + 1,
              token |-> nextToken]}
    BY <1>2 DEF Claim
  <2> DEFINE e == order[i]
             new == [execution |-> e, runner |-> r, epoch |-> xs[e].epoch + 1,
                     token |-> nextToken]
  <2>2. e \in Executions
    BY <1>a, <2>1 DEF TypeOK
  <2>3. xs \in [Executions -> Execution]
    BY <1>a, <1>b, ExpiryType
  <2>4. executions'[e].epoch = xs[e].epoch + 1 /\ executions'[e].status = "LEASED"
    BY <2>1, <2>2, <2>3 DEF Execution
  <2>5. \A d \in Executions \ {e} : executions'[d] = xs[d]
    BY <2>1, <2>2, <2>3
  <2>6. \A d \in Executions : Quiet(executions[d], xs[d])
    BY <1>e
  <2>7. xs[e].status = "QUEUED" /\ xs[e].epoch = executions[e].epoch
    BY <2>1, <2>2, <2>6 DEF Claimable, Quiet
  <2>8. executions[e].status \in {"ABSENT", "QUEUED", "LEASED"}
    BY <2>2, <2>6, <2>7 DEF Quiet, Verdicts
  <2>9. \A l \in starts : l.execution # e
    BY <2>8 DEF IInv, StartedStays, Terminal
  <2>10. \A a \in acks : a.execution # e
    BY <2>8 DEF IInv, AckedStays, Terminal
  <2>11. \A l \in leases : l.execution = e => l.epoch < new.epoch
    BY <1>c, <1>d, <2>2, <2>7 DEF IInv, LeasesFenced, Execution, Lease
  <2>12. LeasesFenced'
    <3>1. \A l \in leases : l.epoch <= executions'[l.execution].epoch
      <4>1. ASSUME NEW l \in leases PROVE l.epoch <= executions'[l.execution].epoch
        <5>1. CASE l.execution = e
          BY <1>c, <1>d, <2>2, <2>4, <2>7, <2>11, <5>1 DEF Execution, Lease
        <5>2. CASE l.execution # e
          BY <1>d, <2>5, <2>6, <5>2 DEF IInv, LeasesFenced, Quiet
        <5>3. QED
          BY <5>1, <5>2
      <4>2. QED
        BY <4>1
    <3>2. new.epoch <= executions'[new.execution].epoch
      BY <1>c, <2>2, <2>4, <2>7 DEF Execution
    <3>3. \A k, l \in leases : k.execution = l.execution /\ k.epoch = l.epoch => k = l
      BY DEF IInv, LeasesFenced
    <3>4. \A l \in leases : ~(l.execution = new.execution /\ l.epoch = new.epoch)
      BY <1>d, <2>11 DEF Lease
    <3>5. leases' = leases \cup {new}
      BY <2>1
    <3> HIDE DEF new
    <3>6. QED
      BY <3>1, <3>2, <3>3, <3>4, <3>5 DEF LeasesFenced
  <2>13. starts' = starts /\ acks' = acks
    BY <1>2 DEF Claim
  <2>14. \A d \in Executions \ {e} : Quiet(executions[d], executions'[d])
    BY <2>5, <2>6
  <2>15. StartedStays'
    <3>1. starts' \subseteq leases'
      BY <2>1, <2>13 DEF IInv, StartedStays
    <3>2. \A l \in starts : Quiet(executions[l.execution], executions'[l.execution])
      BY <1>d, <2>9, <2>14 DEF IInv, StartedStays
    <3>3. QED
      BY <3>1, <3>2, <2>13 DEF IInv, StartedStays, Quiet, Terminal, Verdicts
  <2>16. AckedStays'
    <3>1. ASSUME NEW a \in acks
          PROVE LET y == executions'[a.execution] IN
                /\ y.epoch = a.epoch /\ y.status \in Terminal
                /\ y.result = a.result
                /\ \/ y.status = a.status
                   \/ a.status = "UNCERTAIN" /\ y.reconciliation # None
      <4>1. Quiet(executions[a.execution], executions'[a.execution])
        BY <1>a, <2>10, <2>14 DEF TypeOK, Ack
      <4>2. /\ executions[a.execution].epoch = a.epoch
            /\ executions[a.execution].status \in Terminal
            /\ executions[a.execution].result = a.result
            /\ \/ executions[a.execution].status = a.status
               \/ a.status = "UNCERTAIN" /\ executions[a.execution].reconciliation # None
        BY DEF IInv, AckedStays
      <4>3. QED
        BY <4>1, <4>2 DEF Quiet, Terminal, Verdicts
    <3>2. QED
      BY <2>13, <3>1 DEF AckedStays
  <2>17. StartedRunAccounted'
    <3>1. ASSUME NEW l \in starts
          PROVE \/ executions'[l.execution].status \in Holding
                \/ executions'[l.execution].reconciliation # None
                \/ \E a \in acks : a.execution = l.execution /\ a.epoch = l.epoch
      <4>1. Quiet(executions[l.execution], executions'[l.execution])
        BY <1>d, <2>9, <2>14 DEF IInv, StartedStays
      <4>2. executions[l.execution].status \in {"RUNNING"} \cup Terminal
        BY DEF IInv, StartedStays
      <4>3. QED
        BY <4>1, <4>2 DEF IInv, StartedRunAccounted, Quiet, Holding, Terminal
    <3>2. QED
      BY <2>13, <3>1 DEF StartedRunAccounted
  <2>18. AbsentBlank'
    <3>1. ASSUME NEW d \in Executions, executions'[d].status = "ABSENT"
          PROVE executions'[d] = Absent
      <4>1. d # e /\ executions'[d] = executions[d]
        BY <2>4, <2>14, <3>1 DEF Quiet
      <4>2. QED
        BY <3>1, <4>1 DEF IInv, AbsentBlank
    <3>2. QED
      BY <3>1 DEF AbsentBlank
  <2>19. FenceCurrent'
    <3>1. leaseFences' = [FencesAfterExpiry(now) EXCEPT ![e] =
            [runner |-> r, epoch |-> xs[e].epoch + 1, token |-> nextToken]]
      BY <2>1
    <3>2. leaseFences'[e].epoch = executions'[e].epoch
      BY <1>a, <1>b, <2>2, <2>4, <3>1, ExpiryType
    <3>3. \A d \in Executions \ {e} : leaseFences'[d] \in {leaseFences[d], NoFence}
      BY <1>a, <1>b, <1>f, <2>2, <3>1, ExpiryType
    <3>4. QED
      BY <2>14, <3>2, <3>3 DEF IInv, FenceCurrent, Quiet
  <2>20. QED
    BY <1>a, <2>19, <2>12, <2>15, <2>16, <2>17, <2>18 DEF IInv
<1>3. ASSUME NEW now \in Readings, SweepExpired(now) PROVE IInv'
  BY <1>3, <1>a, <1>e, <1>f, QuietStep DEF SweepExpired
<1>4. ASSUME NEW l \in leases, NEW now \in Readings, Start(l, now) PROVE IInv'
  <2> DEFINE e == l.execution
  <2>1. /\ executions'[e].epoch = executions[e].epoch
        /\ executions'[e].result = executions[e].result
        /\ executions'[e].reconciliation = executions[e].reconciliation
        /\ executions'[e].status = "RUNNING"
        /\ executions[e].status \in {"LEASED", "RUNNING"}
    BY <1>4, <1>a, <1>c, <1>d DEF Start, CurrentLease, TypeOK, Execution
  <2>2. \A d \in Executions \ {e} : executions'[d] = executions[d]
    BY <1>4, <1>a, <1>d DEF Start, TypeOK
  <2>3. \A d \in Executions : Quiet(executions[d], executions'[d])
    BY <2>1, <2>2 DEF Quiet
  <2>4. starts' = starts \cup {l} /\ leases' = leases /\ acks' = acks
    BY <1>4 DEF Start
  <2>5. l.epoch = executions[e].epoch
    BY <1>4 DEF Start, CurrentLease
  <2>6. LeasesFenced'
    BY <1>d, <2>3, <2>4 DEF IInv, LeasesFenced, Quiet
  <2>7. StartedStays'
    <3>1. \A k \in starts : /\ executions'[k.execution].epoch = k.epoch
                            /\ executions'[k.execution].status \in {"RUNNING"} \cup Terminal
      BY <1>d, <2>3 DEF IInv, StartedStays, Quiet, Terminal, Verdicts
    <3>2. QED
      BY <2>1, <2>4, <2>5, <3>1 DEF IInv, StartedStays
  <2>8. AckedStays'
    <3>1. \A a \in acks : a.execution \in Executions
      BY <1>a DEF TypeOK, Ack
    <3>2. \A a \in acks : a.execution # e
      BY <2>1 DEF IInv, AckedStays, Terminal
    <3>3. \A a \in acks : executions'[a.execution] = executions[a.execution]
      BY <2>2, <3>1, <3>2
    <3>4. QED
      BY <2>4, <3>3 DEF IInv, AckedStays
  <2>9. StartedRunAccounted'
    <3>1. \A k \in starts : k.execution = e \/ executions'[k.execution] = executions[k.execution]
      BY <1>d, <2>2 DEF IInv, StartedStays
    <3>2. QED
      BY <2>1, <2>4, <3>1 DEF IInv, StartedRunAccounted, Holding
  <2>10. AbsentBlank'
    BY <2>1, <2>2 DEF IInv, AbsentBlank
  <2>11. FenceCurrent'
    BY <1>4, <2>1, <2>2 DEF Start, IInv, FenceCurrent
  <2>12. QED
    BY <1>a, <2>6, <2>7, <2>8, <2>9, <2>10, <2>11 DEF IInv
<1>5. ASSUME NEW l \in leases, NEW now \in Readings, NEW ext \in Durations,
             Heartbeat(l, now, ext)
      PROVE IInv'
  <2> DEFINE e == l.execution
  <2>1. /\ executions'[e].epoch = executions[e].epoch
        /\ executions'[e].result = executions[e].result
        /\ executions'[e].reconciliation = executions[e].reconciliation
        /\ executions'[e].status = executions[e].status
        /\ executions[e].status # "ABSENT"
    BY <1>5, <1>a, <1>c, <1>d DEF Heartbeat, CurrentLease, TypeOK, Execution
  <2>2. \A d \in Executions \ {e} : executions'[d] = executions[d]
    BY <1>5, <1>a, <1>d DEF Heartbeat, TypeOK
  <2>3. \A d \in Executions : Quiet(executions[d], executions'[d])
    BY <2>1, <2>2 DEF Quiet
  <2>4. QED
    BY <1>5, <1>a, <2>3, QuietStep DEF Heartbeat
<1>6. ASSUME NEW l \in leases, NEW now \in Readings, NEW st \in Completions,
             NEW res \in Results, Complete(l, now, st, res)
      PROVE IInv'
  <2> DEFINE e == l.execution
             new == [execution |-> e, epoch |-> l.epoch, status |-> st, result |-> res]
  <2>1. /\ executions'[e].epoch = executions[e].epoch
        /\ executions'[e].result = res
        /\ executions'[e].status = st
        /\ executions[e].status = "RUNNING"
        /\ executions[e].epoch = l.epoch
    BY <1>6, <1>a, <1>c, <1>d DEF Complete, CurrentLease, TypeOK, Execution
  <2>2. \A d \in Executions \ {e} : executions'[d] = executions[d]
    BY <1>6, <1>a, <1>d DEF Complete, TypeOK
  <2>3. starts' = starts /\ leases' = leases /\ acks' = acks \cup {new}
    BY <1>6 DEF Complete
  <2>4. st \in Terminal
    BY DEF Completions, Terminal
  <2>5. LeasesFenced'
    BY <1>d, <2>1, <2>2, <2>3 DEF IInv, LeasesFenced
  <2>6. StartedStays'
    BY <1>d, <2>1, <2>2, <2>3, <2>4 DEF IInv, StartedStays
  <2>7. AckedStays'
    <3>1. \A a \in acks : a.execution \in Executions
      BY <1>a DEF TypeOK, Ack
    <3>2. \A a \in acks : a.execution # e
      BY <2>1 DEF IInv, AckedStays, Terminal
    <3>3. \A a \in acks : executions'[a.execution] = executions[a.execution]
      BY <2>2, <3>1, <3>2
    <3>4. QED
      BY <2>1, <2>3, <2>4, <3>3 DEF IInv, AckedStays
  <2>8. StartedRunAccounted'
    <3>1. \A k \in starts : k.execution = e => k.epoch = new.epoch
      BY <2>1 DEF IInv, StartedStays
    <3>2. \A k \in starts : k.execution = e \/ executions'[k.execution] = executions[k.execution]
      BY <1>d, <2>2 DEF IInv, StartedStays
    <3>3. \A k \in starts :
            \/ executions'[k.execution].status \in Holding
            \/ executions'[k.execution].reconciliation # None
            \/ \E a \in acks' : a.execution = k.execution /\ a.epoch = k.epoch
      BY <2>3, <3>1, <3>2 DEF IInv, StartedRunAccounted
    <3>4. QED
      BY <2>3, <3>3 DEF StartedRunAccounted
  <2>9. AbsentBlank'
    BY <2>1, <2>2, <2>4 DEF IInv, AbsentBlank, Terminal
  <2>10. FenceCurrent'
    BY <1>6, <2>1, <2>2 DEF Complete, IInv, FenceCurrent
  <2>11. QED
    BY <1>a, <2>5, <2>6, <2>7, <2>8, <2>9, <2>10 DEF IInv
<1>7. ASSUME NEW l \in leases, NEW st \in Completions, NEW res \in Results,
             ReplayComplete(l, st, res)
      PROVE IInv'
  <2> DEFINE e == l.execution
             new == [execution |-> e, epoch |-> l.epoch, status |-> st, result |-> res]
  <2>1. /\ executions[e].status \in Terminal
        /\ executions[e].status = st
        /\ executions[e].result = res
    BY <1>7 DEF ReplayComplete
  <2>2. /\ UNCHANGED <<executions, leases, starts>>
        /\ acks' = acks \cup {new}
    BY <1>7 DEF ReplayComplete
  <2>3. executions[e].epoch = l.epoch
    BY <1>7, <1>d DEF ReplayComplete, Matches, IInv, FenceCurrent
  <2>4. FenceCurrent'
    BY <1>7 DEF ReplayComplete, IInv, FenceCurrent
  <2>5. QED
    BY <1>a, <2>1, <2>2, <2>3, <2>4
       DEF IInv, LeasesFenced, StartedStays, AckedStays, StartedRunAccounted, AbsentBlank
<1>8. ASSUME NEW e \in Executions, NEW now \in Readings, NEW id \in ReconciliationIds,
             NEW actor \in Actors, NEW verdict \in Verdicts, NEW res \in Results,
             Reconcile(e, now, id, actor, verdict, res)
      PROVE IInv'
  <2> DEFINE xs == AfterExpiry(now)
  <2>1. xs \in [Executions -> Execution]
    BY <1>a, <1>b, ExpiryType
  <2>2. /\ executions'[e].epoch = xs[e].epoch
        /\ executions'[e].result = xs[e].result
        /\ executions'[e].status = verdict
        /\ executions'[e].reconciliation = id
        /\ xs[e].status = "UNCERTAIN"
    BY <1>8, <2>1 DEF Reconcile, Execution
  <2>3. \A d \in Executions \ {e} : executions'[d] = xs[d]
    BY <1>8, <2>1 DEF Reconcile
  <2>4. \A d \in Executions : Quiet(executions[d], xs[d])
    BY <1>e
  <2>5. id # None
    BY ConstantsOK
  <2>6. Quiet(executions[e], executions'[e])
    BY <2>2, <2>4, <2>5 DEF Quiet, Verdicts
  <2>7. \A d \in Executions : Quiet(executions[d], executions'[d])
    BY <2>3, <2>4, <2>6
  <2>8. \A d \in Executions : leaseFences'[d] \in {leaseFences[d], NoFence}
    BY <1>8, <1>a, <1>b, <1>f, ExpiryType DEF Reconcile
  <2>9. QED
    BY <1>8, <1>a, <2>7, <2>8, QuietStep DEF Reconcile
<1>9. ASSUME NEW e \in Executions, Cancel(e) PROVE IInv'
  <2>1. /\ executions'[e].epoch = executions[e].epoch
        /\ executions'[e].result = executions[e].result
        /\ executions'[e].reconciliation = executions[e].reconciliation
        /\ executions'[e].status =
             IF executions[e].status = "RUNNING" THEN "UNCERTAIN" ELSE "CANCELLED"
    BY <1>9, <1>a, <1>c DEF Cancel, TypeOK, Execution
  <2>2. executions[e].status \in {"QUEUED", "LEASED", "RUNNING"}
    BY <1>9, <1>c DEF Cancel, Execution, Statuses, Holding, Terminal
  <2>3. \A d \in Executions \ {e} : executions'[d] = executions[d]
    BY <1>9, <1>a DEF Cancel, TypeOK
  <2>4. \A d \in Executions : Quiet(executions[d], executions'[d])
    BY <2>1, <2>2, <2>3 DEF Quiet
  <2>5. \A d \in Executions : leaseFences'[d] \in {leaseFences[d], NoFence}
    BY <1>9, <1>a DEF Cancel, TypeOK
  <2>6. QED
    BY <1>9, <1>a, <2>4, <2>5, QuietStep DEF Cancel
<1>10. CASE Tick
  BY <1>10, <1>a DEF Tick, IInv, LeasesFenced, StartedStays, AckedStays,
     StartedRunAccounted, AbsentBlank, FenceCurrent
<1>11. CASE UNCHANGED vars
  BY <1>11, <1>a DEF vars, IInv, LeasesFenced, StartedStays, AckedStays,
     StartedRunAccounted, AbsentBlank, FenceCurrent
<1>12. QED
  BY <1>1, <1>2, <1>3, <1>4, <1>5, <1>6, <1>7, <1>8, <1>9, <1>10, <1>11 DEF Next

\* The inductive invariant holds throughout.
THEOREM Inductive == Spec => []IInv
<1>1. Init => IInv
  BY InitTypeOK DEF Init, IInv, LeasesFenced, StartedStays, AckedStays,
     StartedRunAccounted, AbsentBlank, FenceCurrent
<1>2. QED
  BY <1>1, StepIInv, PTL DEF Spec

\* No execution is started under two leases: a runner that was told to run is
\* the only one ever told so, however long it pauses and whoever claims next.
THEOREM StartsOnce == Spec => []StartedOnce
<1>1. IInv => StartedOnce
  BY DEF IInv, StartedOnce, StartedStays, LeasesFenced
<1>2. QED
  BY <1>1, Inductive, PTL

\* An acknowledged completion is never lost or contradicted; only a
\* reconciliation of an uncertain outcome replaces its status.
THEOREM AcksAreKept == Spec => []AckedResultKept
<1>1. IInv => AckedResultKept
  BY DEF IInv, AckedStays, AckedResultKept
<1>2. QED
  BY <1>1, Inductive, PTL

\* A started run holds its target until it is acknowledged or reconciled.
THEOREM RunsAreAccounted == Spec => []StartedRunAccounted
<1>1. IInv => StartedRunAccounted
  BY DEF IInv
<1>2. QED
  BY <1>1, Inductive, PTL

-----------------------------------------------------------------------------
(* The repository implements the abstract queue *)

\* The ways of an execution, seen through its status, and its target.
Arrow(x, y) ==
  /\ x.status # "ABSENT" => y.target = x.target
  /\ \/ y.status = x.status
     \/ <<x.status, y.status>> \in
          {<<"ABSENT", "QUEUED">>, <<"QUEUED", "LEASED">>, <<"LEASED", "QUEUED">>,
           <<"LEASED", "RUNNING">>, <<"QUEUED", "CANCELLED">>, <<"LEASED", "CANCELLED">>}
     \/ x.status \in {"RUNNING", "UNCERTAIN"}
        /\ y.status \in {"UNCERTAIN", "SUCCEEDED", "FAILED"}

\* Every step moves every execution along these ways.
LEMMA StepArrow ==
  ASSUME TypeOK, [Next]_vars, NEW c \in Executions
  PROVE  Arrow(executions[c], executions'[c])
<1>a. Readings \subseteq Nat
  BY DEF Readings, TypeOK
<1>b. executions[c] \in Execution
  BY DEF TypeOK
<1>c. ASSUME NEW now \in Readings PROVE Arrow(executions[c], AfterExpiry(now)[c])
  BY <1>a, <1>b, <1>c, ExpiryEffect DEF Arrow
<1>d. ASSUME executions'[c] = executions[c] PROVE Arrow(executions[c], executions'[c])
  BY <1>d DEF Arrow
<1>1. ASSUME NEW q \in Requests, Enqueue(q) PROVE Arrow(executions[c], executions'[c])
  <2>1. q.id \in Executions
    BY ConstantsOK DEF Request
  <2>2. CASE c = q.id
    <3>1. executions[c].status = "ABSENT" /\ executions'[c].status = "QUEUED"
      BY <1>1, <2>1, <2>2 DEF Enqueue, TypeOK, Absent
    <3>2. QED
      BY <3>1 DEF Arrow
  <2>3. CASE c # q.id
    BY <1>1, <1>d, <2>1, <2>3 DEF Enqueue, TypeOK
  <2>4. QED
    BY <2>2, <2>3
<1>2. ASSUME NEW now \in Readings, NEW pool \in Pools, NEW r \in Runners,
             NEW dur \in Durations, Claim(pool, r, now, dur)
      PROVE Arrow(executions[c], executions'[c])
  <2> DEFINE xs == AfterExpiry(now)
  <2>1. PICK i \in 1..Len(order) :
       /\ Claimable(xs, order[i], pool)
       /\ executions' = [xs EXCEPT ![order[i]] =
            [@ EXCEPT !.status = "LEASED", !.runner = r, !.epoch = xs[order[i]].epoch + 1,
                      !.expires = now + dur]]
    BY <1>2 DEF Claim
  <2>2. xs \in [Executions -> Execution]
    BY <1>a, ExpiryType
  <2>3. CASE c = order[i]
    <3>1. xs[c].status = "QUEUED"
      BY <2>1, <2>3 DEF Claimable
    <3>2. executions'[c].status = "LEASED" /\ executions'[c].target = xs[c].target
      BY <2>1, <2>2, <2>3 DEF Execution
    <3>3. executions[c].status \in {"QUEUED", "LEASED"} /\ xs[c].target = executions[c].target
      BY <1>a, <3>1, ExpiryEffect
    <3>4. QED
      BY <3>2, <3>3 DEF Arrow
  <2>4. CASE c # order[i]
    <3>1. executions'[c] = xs[c]
      BY <2>1, <2>2, <2>4
    <3>2. QED
      BY <1>c, <3>1
  <2>5. QED
    BY <2>3, <2>4
<1>3. ASSUME NEW now \in Readings, SweepExpired(now) PROVE Arrow(executions[c], executions'[c])
  BY <1>3, <1>c DEF SweepExpired
<1>4. ASSUME NEW l \in leases, NEW now \in Readings, Start(l, now)
      PROVE Arrow(executions[c], executions'[c])
  <2>1. CASE c = l.execution
    <3>1. /\ executions'[c].status = "RUNNING" /\ executions'[c].target = executions[c].target
          /\ executions[c].status \in {"LEASED", "RUNNING"}
      BY <1>4, <1>b, <2>1 DEF Start, CurrentLease, TypeOK, Execution
    <3>2. QED
      BY <3>1 DEF Arrow
  <2>2. CASE c # l.execution
    BY <1>4, <1>d, <2>2 DEF Start, TypeOK
  <2>3. QED
    BY <2>1, <2>2
<1>5. ASSUME NEW l \in leases, NEW now \in Readings, NEW ext \in Durations,
             Heartbeat(l, now, ext)
      PROVE Arrow(executions[c], executions'[c])
  <2>1. CASE c = l.execution
    <3>1. /\ executions'[c].status = executions[c].status
          /\ executions'[c].target = executions[c].target
      BY <1>5, <1>b, <2>1 DEF Heartbeat, TypeOK, Execution
    <3>2. QED
      BY <3>1 DEF Arrow
  <2>2. CASE c # l.execution
    BY <1>5, <1>d, <2>2 DEF Heartbeat, TypeOK
  <2>3. QED
    BY <2>1, <2>2
<1>6. ASSUME NEW l \in leases, NEW now \in Readings, NEW st \in Completions,
             NEW res \in Results, Complete(l, now, st, res)
      PROVE Arrow(executions[c], executions'[c])
  <2>1. CASE c = l.execution
    <3>1. /\ executions'[c].status = st /\ executions'[c].target = executions[c].target
          /\ executions[c].status = "RUNNING"
      BY <1>6, <1>b, <2>1 DEF Complete, TypeOK, Execution
    <3>2. QED
      BY <3>1 DEF Arrow, Completions
  <2>2. CASE c # l.execution
    BY <1>6, <1>d, <2>2 DEF Complete, TypeOK
  <2>3. QED
    BY <2>1, <2>2
<1>7. ASSUME NEW l \in leases, NEW st \in Completions, NEW res \in Results,
             ReplayComplete(l, st, res)
      PROVE Arrow(executions[c], executions'[c])
  BY <1>7, <1>d DEF ReplayComplete
<1>8. ASSUME NEW e \in Executions, NEW now \in Readings, NEW id \in ReconciliationIds,
             NEW actor \in Actors, NEW verdict \in Verdicts, NEW res \in Results,
             Reconcile(e, now, id, actor, verdict, res)
      PROVE Arrow(executions[c], executions'[c])
  <2> DEFINE xs == AfterExpiry(now)
  <2>1. xs \in [Executions -> Execution]
    BY <1>a, ExpiryType
  <2>2. CASE c = e
    <3>1. /\ executions'[c].status = verdict /\ executions'[c].target = xs[c].target
          /\ xs[c].status = "UNCERTAIN"
      BY <1>8, <2>1, <2>2 DEF Reconcile, Execution
    <3>2. executions[c].status \in {"RUNNING", "UNCERTAIN"} /\ xs[c].target = executions[c].target
      BY <1>a, <3>1, ExpiryEffect
    <3>3. QED
      BY <3>1, <3>2 DEF Arrow, Verdicts
  <2>3. CASE c # e
    <3>1. executions'[c] = xs[c]
      BY <1>8, <2>1, <2>3 DEF Reconcile
    <3>2. QED
      BY <1>c, <3>1
  <2>4. QED
    BY <2>2, <2>3
<1>9. ASSUME NEW e \in Executions, Cancel(e) PROVE Arrow(executions[c], executions'[c])
  <2>1. CASE c = e
    <3>1. /\ executions'[c].target = executions[c].target
          /\ executions[c].status \in {"QUEUED", "LEASED", "RUNNING"}
          /\ executions'[c].status =
               IF executions[c].status = "RUNNING" THEN "UNCERTAIN" ELSE "CANCELLED"
      BY <1>9, <1>b, <2>1 DEF Cancel, TypeOK, Execution, Statuses, Holding, Terminal
    <3>2. QED
      BY <3>1 DEF Arrow
  <2>2. CASE c # e
    BY <1>9, <1>d, <2>2 DEF Cancel, TypeOK
  <2>3. QED
    BY <2>1, <2>2
<1>10. CASE Tick
  BY <1>10, <1>d DEF Tick
<1>11. CASE UNCHANGED vars
  BY <1>11, <1>d DEF vars
<1>12. QED
  BY <1>1, <1>2, <1>3, <1>4, <1>5, <1>6, <1>7, <1>8, <1>9, <1>10, <1>11 DEF Next

\* The refinement mapping takes these ways to moves of the abstract queue.
LEMMA ArrowMaps ==
  ASSUME NEW x \in Execution, NEW y \in Execution, Arrow(x, y)
  PROVE  /\ \/ PhaseOf(y.status) = PhaseOf(x.status)
            \/ <<PhaseOf(x.status), PhaseOf(y.status)>> \in Abstract!Moves
         /\ PhaseOf(x.status) # "absent" => y.target = x.target
         /\ PhaseOf(x.status) \in Abstract!Phases
         /\ PhaseOf(x.status) \in Abstract!Holding <=> x.status \in Holding
<1>1. x.status \in Statuses /\ y.status \in Statuses
  BY DEF Execution
<1>2. \A st \in Statuses :
        /\ PhaseOf(st) \in Abstract!Phases
        /\ PhaseOf(st) \in Abstract!Holding <=> st \in Holding
        /\ PhaseOf(st) = "absent" <=> st = "ABSENT"
  BY DEF PhaseOf, Statuses, Holding, Terminal, Abstract!Phases, Abstract!Holding
<1>3. \/ PhaseOf(y.status) = PhaseOf(x.status)
      \/ <<PhaseOf(x.status), PhaseOf(y.status)>> \in Abstract!Moves
  BY <1>1 DEF Arrow, PhaseOf, Abstract!Moves, Statuses, Holding, Terminal
<1>4. QED
  BY <1>1, <1>2, <1>3 DEF Arrow

LEMMA StepRefines ==
  TypeOK /\ TypeOK' /\ TargetExclusive' /\ [Next]_vars => [Abstract!Step]_(Abstract!vars)
<1> SUFFICES ASSUME TypeOK, TypeOK', TargetExclusive', [Next]_vars PROVE Abstract!Step
  OBVIOUS
<1> DEFINE ph == [e \in Executions |-> PhaseOf(executions[e].status)]
           tg == [e \in Executions |-> executions[e].target]
<1>1. ASSUME NEW e \in Executions
      PROVE /\ executions[e] \in Execution /\ executions'[e] \in Execution
            /\ Arrow(executions[e], executions'[e])
            /\ Arrow(executions'[e], executions'[e])
  BY StepArrow DEF TypeOK, Arrow
<1>2. ph' \in [Executions -> Abstract!Phases] /\ tg' \in [Executions -> Targets \cup {None}]
  BY <1>1, ArrowMaps DEF Execution
<1>3. ASSUME NEW e \in Executions
      PROVE /\ ph'[e] = ph[e] \/ <<ph[e], ph'[e]>> \in Abstract!Moves
            /\ ph[e] # "absent" => tg'[e] = tg[e]
  BY <1>1, ArrowMaps
<1>4. ASSUME NEW e \in Executions, ph'[e] \in Abstract!Holding,
             NEW d \in Executions \ {e}, ph'[d] \in Abstract!Holding
      PROVE tg'[d] # tg'[e]
  BY <1>1, <1>4, ArrowMaps DEF TargetExclusive
<1>5. QED
  BY <1>2, <1>3, <1>4 DEF Abstract!Step, Abstract!Alone

\* Every behaviour of the repository is one of the abstract queue, for every
\* set of executions, targets and runners: sweeps that move many executions at
\* once, late calls and reconciliations included.
THEOREM Refines == Spec => ImplementsExclusiveRun
<1>1. Init => Abstract!Init
  BY ConstantsOK DEF Init, Abstract!Init, Absent, PhaseOf
<1>2. QED
  BY <1>1, StepRefines, TypeCorrect, TargetIsExclusive, PTL
     DEF Spec, ImplementsExclusiveRun, Abstract!Spec
=============================================================================
