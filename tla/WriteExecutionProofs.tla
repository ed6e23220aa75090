------------------------ MODULE WriteExecutionProofs ------------------------
(***************************************************************************)
(* Proofs about the write path: the queue and the ledger are each the      *)
(* environment the other was specified against, and so what was proved of  *)
(* each part alone holds of the whole; from both together, a credential    *)
(* that can still be used always has its target to itself.                 *)
(*                                                                         *)
(* A step of the queue is, seen by the ledger, a step of its action source *)
(* (QueueMoves); a step of the ledger is, seen by the queue, a step of its *)
(* gate (LedgerMoves).  Both need the invariants of both parts.            *)
(***************************************************************************)
EXTENDS WriteExecution, TLAPS

-----------------------------------------------------------------------------
(* The parts are instantiated as they assume *)

LEMMA QueueAssumed == Queue!ConstantsOK
  BY QueueConstants, WritesOnly
     DEF Queue!ConstantsOK, Queue!Pools, Queue!Outcomes, Queue!Verdicts, IsFiniteSet, Queue!IsFiniteSet

LEMMA LedgerAssumed == Ledger!LedgerConstants
  BY QueueConstants, LedgerConstants DEF Ledger!LedgerConstants

LEMMA BudgetAssumed == Ledger!BudgetWithinReserve
  BY LedgerConstants DEF Ledger!BudgetWithinReserve

LEMMA TimeoutAssumed == Ledger!RemoteTimeoutOK
  BY LedgerConstants DEF Ledger!RemoteTimeoutOK

-----------------------------------------------------------------------------
(* What the ledger sees of a step of the queue *)

ViewMap(js) == [c \in Actions |-> ViewOf(js[c])]

\* The action source of the ledger moves, or nothing it sees has changed.
Mirrored(now) == Ledger!ActionMoves(now) \/ ViewMap(jobs') = ViewMap(jobs)

\* What a sweep does to a record is nothing, or ends its lease.
LEMMA ExpireView ==
  ASSUME NEW c \in Actions, NEW j \in Queue!Job, Queue!Sound(c, j), NEW now, NEW h
  PROVE  ViewOf(Queue!Expire(c, j, now, h)) \in {ViewOf(j), Ledger!Ended(ViewOf(j))}
<1>0. PICK k : k = Queue!Expire(c, j, now, h)
  OBVIOUS
<1> SUFFICES ViewOf(k) \in {ViewOf(j), Ledger!Ended(ViewOf(j))}
  BY <1>0
<1>1. CASE k = j
  BY <1>1
<1>2. CASE j.status = "FINALIZING" /\ j.receipt /\ k = [j EXCEPT !.status = j.completion]
  <2>1. j.completion \in {"SUCCEEDED", "FAILED", "UNCERTAIN"}
    BY <1>2 DEF Queue!Sound, Queue!Outcomes
  <2>2. k.status = j.completion /\ k.epoch = j.epoch /\ k.expires = j.expires /\ k.sub = j.sub
        /\ k.cancel = j.cancel
    BY <1>2 DEF Queue!Job
  <2>3. QED
    BY <1>2, <2>1, <2>2 DEF ViewOf
<1>3. CASE j.status = "LEASED" /\ k = Queue!Unleased(j, 0)
  <2>1. /\ k.status = "QUEUED" /\ k.epoch = j.epoch /\ k.expires = 0 /\ k.sub = j.sub
        /\ k.cancel = FALSE
    BY <1>3 DEF Queue!Job, Queue!Unleased
  <2>2. QED
    BY <1>3, <2>1 DEF ViewOf, Ledger!Ended
<1>4. CASE /\ j.status = "RUNNING"
           /\ k = [j EXCEPT !.status = "UNCERTAIN", !.completion = "UNCERTAIN",
                            !.result = Expired, !.token = 0, !.expires = 0]
  <2>1. /\ k.status = "UNCERTAIN" /\ k.epoch = j.epoch /\ k.expires = 0 /\ k.sub = j.sub
        /\ k.cancel = j.cancel
    BY <1>4 DEF Queue!Job
  <2>2. QED
    BY <1>4, <2>1 DEF ViewOf, Ledger!Ended
<1>5. QED
  BY <1>0, <1>1, <1>2, <1>3, <1>4 DEF Queue!Expire, Queue!MayFinalize

LEMMA SweepView ==
  ASSUME Queue!QueueInv, NEW now, NEW heard
  PROVE  \E lapsed \in SUBSET Actions :
           ViewMap(Queue!AfterExpiry(now, heard)) = Ledger!Swept(lapsed)
<1> DEFINE js == Queue!AfterExpiry(now, heard)
           lapsed == {c \in Actions : ViewOf(js[c]) # ViewOf(jobs[c])}
<1>1. ASSUME NEW c \in Actions
      PROVE  ViewOf(js[c]) = IF c \in lapsed THEN Ledger!Ended(ViewOf(jobs[c])) ELSE ViewOf(jobs[c])
  <2>1. js[c] = Queue!Expire(c, jobs[c], now, c \in heard)
    BY DEF Queue!AfterExpiry
  <2>2. jobs[c] \in Queue!Job /\ Queue!Sound(c, jobs[c])
    BY DEF Queue!QueueInv, Queue!TypeOK
  <2>3. QED
    BY <2>1, <2>2, ExpireView
<1>2. ViewMap(js) = Ledger!Swept(lapsed)
  BY <1>1 DEF ViewMap, Ledger!Swept
<1>3. QED
  BY <1>2

\* The views after one record is replaced.
LEMMA ReplaceView ==
  ASSUME NEW js \in [Actions -> Queue!Job], NEW a \in Actions, NEW e, jobs' = [js EXCEPT ![a] = e]
  PROVE  ViewMap(jobs') = [ViewMap(js) EXCEPT ![a] = ViewOf(e)]
  BY DEF ViewMap

LEMMA NoSweepView == Ledger!Swept({}) = ViewMap(jobs)
  BY DEF Ledger!Swept, ViewMap

LEMMA OneSweepView ==
  ASSUME NEW a \in Actions
  PROVE  Ledger!Swept({a}) = [ViewMap(jobs) EXCEPT ![a] = Ledger!Ended(ViewOf(jobs[a]))]
  BY DEF Ledger!Swept, ViewMap

\* The lease a call names is of an action that was submitted.
LEMMA LeasedJob ==
  ASSUME Queue!QueueInv, NEW l \in leases
  PROVE  l.action \in Actions /\ jobs[l.action] \in Queue!Job /\ Queue!Sound(l.action, jobs[l.action])
         /\ jobs \in [Actions -> Queue!Job]
  BY DEF Queue!QueueInv, Queue!TypeOK, Queue!Lease

LEMMA StartView ==
  ASSUME Queue!QueueInv, UNCHANGED <<tickets, records>>, NEW now, NEW l \in leases,
         Queue!Start(l, now)
  PROVE  Mirrored(now)
<1>0. PICK j, k : j = jobs[l.action] /\ k = [j EXCEPT !.status = "RUNNING"]
  OBVIOUS
<1>1. /\ l.action \in Actions /\ j \in Queue!Job /\ jobs \in [Actions -> Queue!Job]
      /\ j.status \in {"LEASED", "RUNNING"} /\ jobs' = [jobs EXCEPT ![l.action] = k] /\ clock' = clock
  BY <1>0, LeasedJob DEF Queue!Start
<1>2. /\ k.status = "RUNNING" /\ k.epoch = j.epoch /\ k.expires = j.expires
      /\ k.sub = j.sub /\ k.cancel = j.cancel
  BY <1>0, <1>1 DEF Queue!Job
<1>3. ViewMap(jobs') = [ViewMap(jobs) EXCEPT ![l.action] = ViewOf(k)]
  BY <1>1, ReplaceView
<1>4. ViewMap(jobs)[l.action] = ViewOf(j)
  BY <1>0, <1>1 DEF ViewMap
<1>5. CASE j.status = "RUNNING"
  <2>1. ViewOf(k) = ViewOf(j)
    BY <1>2, <1>5 DEF ViewOf
  <2>2. QED
    BY <1>3, <1>4, <2>1 DEF Mirrored, ViewMap
<1>6. CASE j.status = "LEASED"
  <2>1. ViewOf(j).status = "LEASED" /\ ViewOf(k) = [ViewOf(j) EXCEPT !.status = "RUNNING"]
    BY <1>2, <1>6 DEF ViewOf
  <2>2. Ledger!StartAction(l.action)
    BY <1>1, <1>3, <1>4, <2>1 DEF Ledger!StartAction, Ledger!SetAction, Ledger!SetActions, ViewMap
  <2>3. QED
    BY <1>1, <2>2 DEF Mirrored, Ledger!ActionMoves
<1>7. QED
  BY <1>1, <1>5, <1>6

LEMMA HeartbeatView ==
  ASSUME Queue!QueueInv, Ledger!LedgerInv, UNCHANGED <<tickets, records>>, NEW now, NEW l \in leases,
         NEW seq, NEW ext \in Durations, Queue!Heartbeat(l, seq, now, ext)
  PROVE  Mirrored(now)
<1>0. PICK j, t, k :
        /\ j = jobs[l.action]
        /\ t = IF j.cancel THEN j.expires ELSE Queue!Earlier(now + ext, j.sub.expires)
        /\ k = [j EXCEPT !.sequence = seq, !.expires = t]
  OBVIOUS
<1>1. /\ l.action \in Actions /\ j \in Queue!Job /\ jobs \in [Actions -> Queue!Job]
      /\ j.status \in {"LEASED", "RUNNING"} /\ now < j.expires
      /\ jobs' = [jobs EXCEPT ![l.action] = k] /\ clock' = clock
  BY <1>0, LeasedJob DEF Queue!Heartbeat, Queue!CurrentFence
<1>2. /\ k.status = j.status /\ k.epoch = j.epoch /\ k.expires = t
      /\ k.sub = j.sub /\ k.cancel = j.cancel /\ j.cancel \in BOOLEAN
  BY <1>0, <1>1 DEF Queue!Job
<1>3. ViewMap(jobs') = [ViewMap(jobs) EXCEPT ![l.action] = ViewOf(k)]
  BY <1>1, ReplaceView
<1>4. ViewMap(jobs)[l.action] = ViewOf(j)
  BY <1>0, <1>1 DEF ViewMap
<1>5. j.epoch # 0
  <2>1. ViewOf(j).status \in {"LEASED", "RUNNING"} => ViewOf(j).epoch # 0
    BY <1>0, <1>1 DEF Ledger!LedgerInv
  <2>2. QED
    BY <1>1, <2>1 DEF ViewOf
<1>6. CASE j.cancel
  <2>1. t = j.expires
    BY <1>0, <1>6
  <2>2. ViewOf(k) = ViewOf(j)
    BY <1>2, <2>1 DEF ViewOf
  <2>3. QED
    BY <1>3, <1>4, <2>2 DEF Mirrored, ViewMap
<1>7. CASE ~j.cancel
  <2>1. t = Queue!Earlier(now + ext, j.sub.expires)
    BY <1>0, <1>7
  <2>2. /\ ViewOf(j).status \in {"LEASED", "RUNNING"} /\ ~ViewOf(j).barred
        /\ now < ViewOf(j).expires /\ ViewOf(j).auth = j.sub.expires
    BY <1>1, <1>5, <1>7 DEF ViewOf
  <2>3. ViewOf(k) = [ViewOf(j) EXCEPT !.expires = Ledger!LeaseEnd(now, ext, j.sub.expires)]
    BY <1>2, <2>1 DEF ViewOf, Ledger!LeaseEnd, Queue!Earlier
  <2>4. Ledger!RenewAction(l.action, now, ext)
    BY <1>1, <1>3, <1>4, <2>2, <2>3
       DEF Ledger!RenewAction, Ledger!SetAction, Ledger!SetActions, ViewMap
  <2>5. QED
    BY <1>1, <2>4 DEF Mirrored, Ledger!ActionMoves
<1>8. QED
  BY <1>2, <1>6, <1>7

\* Record k is record j with its lease or run over.
Over(j, k) ==
  /\ k.status \notin {"ABSENT", "QUEUED", "LEASED", "RUNNING"} /\ k.expires = 0
  /\ k.epoch = j.epoch /\ k.sub = j.sub /\ k.cancel = j.cancel

LEMMA OverView ==
  ASSUME NEW j, NEW k, Over(j, k)
  PROVE  ViewOf(k) = [ViewOf(j) EXCEPT !.status = "OVER", !.expires = 0]
<1>1. PICK v : v = [ViewOf(j) EXCEPT !.status = "OVER", !.expires = 0]
  OBVIOUS
<1>2. ViewOf(k) = v
  BY <1>1 DEF ViewOf, Over
<1>3. QED
  BY <1>1, <1>2

LEMMA FinishView ==
  ASSUME NEW lapsed \in SUBSET Actions, UNCHANGED <<clock, tickets, records>>, NEW now,
         NEW js \in [Actions -> Queue!Job], ViewMap(js) = Ledger!Swept(lapsed),
         NEW a \in Actions, NEW k, jobs' = [js EXCEPT ![a] = k], Over(js[a], k)
  PROVE  Mirrored(now)
<1>1. ViewMap(jobs') = [ViewMap(js) EXCEPT ![a] = ViewOf(k)]
  BY ReplaceView
<1>2. ViewMap(js)[a] = ViewOf(js[a])
  BY DEF ViewMap
<1>3. ViewOf(k) = [ViewOf(js[a]) EXCEPT !.status = "OVER", !.expires = 0]
  BY OverView
<1>4. Ledger!FinishAction(lapsed, a)
  BY <1>1, <1>2, <1>3 DEF Ledger!FinishAction, Ledger!SetActions, ViewMap
<1>5. QED
  BY <1>4 DEF Mirrored, Ledger!ActionMoves

LEMMA CompleteView ==
  ASSUME Queue!QueueInv, UNCHANGED <<tickets, records>>, NEW now, NEW l \in leases,
         \/ \E m \in Summaries : Queue!Complete(l, now, m)
         \/ \E reason \in Reasons : Queue!Reject(l, now, reason)
  PROVE  Mirrored(now)
<1>1. /\ l.action \in Actions /\ jobs[l.action] \in Queue!Job /\ jobs \in [Actions -> Queue!Job]
      /\ clock' = clock
  BY LeasedJob DEF Queue!Complete, Queue!Reject
<1>2. ASSUME NEW m \in Summaries, Queue!Complete(l, now, m)
      PROVE  \E k : jobs' = [jobs EXCEPT ![l.action] = k] /\ Over(jobs[l.action], k)
  <2>1. PICK k : k = [jobs[l.action] EXCEPT !.status = "FINALIZING", !.completion = m.outcome,
                        !.result = m, !.receipt = TRUE, !.expires = 0, !.token = 0,
                        !.done = [token |-> l.token, epoch |-> l.epoch]]
    OBVIOUS
  <2>2. jobs' = [jobs EXCEPT ![l.action] = k]
    BY <1>2, <2>1 DEF Queue!Complete
  <2>3. Over(jobs[l.action], k)
    BY <1>1, <2>1 DEF Queue!Job, Over
  <2>4. QED
    BY <2>2, <2>3
<1>3. ASSUME NEW reason \in Reasons, Queue!Reject(l, now, reason)
      PROVE  \E k : jobs' = [jobs EXCEPT ![l.action] = k] /\ Over(jobs[l.action], k)
  <2>1. PICK k : k = [jobs[l.action] EXCEPT !.status = "FAILED", !.completion = "FAILED",
                        !.result = reason, !.expires = 0, !.token = 0,
                        !.done = [token |-> l.token, epoch |-> l.epoch]]
    OBVIOUS
  <2>2. jobs' = [jobs EXCEPT ![l.action] = k]
    BY <1>3, <2>1 DEF Queue!Reject
  <2>3. Over(jobs[l.action], k)
    BY <1>1, <2>1 DEF Queue!Job, Over
  <2>4. QED
    BY <2>2, <2>3
<1>4. PICK k : jobs' = [jobs EXCEPT ![l.action] = k] /\ Over(jobs[l.action], k)
  BY <1>2, <1>3
<1>5. QED
  BY <1>1, <1>4, NoSweepView, FinishView

LEMMA NackView ==
  ASSUME Queue!QueueInv, UNCHANGED <<tickets, records>>, NEW now, NEW l \in leases,
         NEW delay, Queue!Nack(l, now, delay)
  PROVE  Mirrored(now)
<1>0. PICK j, k : j = jobs[l.action] /\ k = Queue!Unleased(j, now + delay)
  OBVIOUS
<1>1. /\ l.action \in Actions /\ j \in Queue!Job /\ jobs \in [Actions -> Queue!Job]
      /\ j.status = "LEASED" /\ jobs' = [jobs EXCEPT ![l.action] = k] /\ clock' = clock
  BY <1>0, LeasedJob DEF Queue!Nack
<1>2. /\ k.status = "QUEUED" /\ k.epoch = j.epoch /\ k.expires = 0
      /\ k.sub = j.sub /\ k.cancel = FALSE
  BY <1>0, <1>1 DEF Queue!Job, Queue!Unleased
<1>3. ViewMap(jobs') = [ViewMap(jobs) EXCEPT ![l.action] = ViewOf(k)]
  BY <1>1, ReplaceView
<1>4. ViewOf(k) = Ledger!Ended(ViewOf(j))
  BY <1>1, <1>2 DEF ViewOf, Ledger!Ended
<1>5. ViewMap(jobs') = Ledger!Swept({l.action})
  BY <1>0, <1>1, <1>3, <1>4, OneSweepView
<1>6. Ledger!SetActions(Ledger!Swept({l.action}))
  BY <1>1, <1>5 DEF Ledger!SetActions, ViewMap
<1>7. QED
  BY <1>1, <1>6 DEF Mirrored, Ledger!ActionMoves

\* A result becomes the status, or is acknowledged again: for the ledger the
\* action was over before.
LEMMA FinalizeView ==
  ASSUME Queue!QueueInv, NEW now, NEW l \in leases,
         Queue!Finalize(l) \/ \E m \in Summaries : Queue!ReplayComplete(l, m)
  PROVE  Mirrored(now)
<1>1. CASE Queue!Finalize(l)
  <2>0. PICK j, k : j = jobs[l.action] /\ k = [j EXCEPT !.status = j.completion]
    OBVIOUS
  <2>1. /\ l.action \in Actions /\ j \in Queue!Job /\ jobs \in [Actions -> Queue!Job]
        /\ j.status = "FINALIZING" /\ jobs' = [jobs EXCEPT ![l.action] = k]
        /\ j.completion \in {"SUCCEEDED", "FAILED", "UNCERTAIN"}
    BY <1>1, <2>0, LeasedJob DEF Queue!Finalize, Queue!MayFinalize, Queue!Sound, Queue!Outcomes
  <2>2. /\ k.status = j.completion /\ k.epoch = j.epoch /\ k.expires = j.expires
        /\ k.sub = j.sub /\ k.cancel = j.cancel
    BY <2>0, <2>1 DEF Queue!Job
  <2>3. ViewOf(k) = ViewOf(j)
    BY <2>1, <2>2 DEF ViewOf
  <2>4. QED
    BY <2>0, <2>1, <2>3, ReplaceView DEF Mirrored, ViewMap
<1>2. ASSUME NEW m \in Summaries, Queue!ReplayComplete(l, m) PROVE Mirrored(now)
  BY <1>2 DEF Queue!ReplayComplete, Mirrored
<1>3. QED
  BY <1>1, <1>2

LEMMA SubmitView ==
  ASSUME Queue!QueueInv, NEW now, NEW s \in Submissions, Queue!Submit(s)
  PROVE  Mirrored(now)
<1>0. PICK k : k = [Queue!Blank EXCEPT !.status = "QUEUED", !.sub = s]
  OBVIOUS
<1>1. /\ s.id \in Actions /\ jobs \in [Actions -> Queue!Job]
      /\ jobs[s.id] = Queue!Blank /\ jobs' = [jobs EXCEPT ![s.id] = k]
  BY <1>0, QueueConstants DEF Queue!Submit, Queue!QueueInv, Queue!TypeOK, Queue!Sound
<1>2. ViewOf(k) = ViewOf(Queue!Blank)
  BY <1>0 DEF ViewOf, Queue!Blank
<1>3. QED
  BY <1>1, <1>2, ReplaceView DEF Mirrored, ViewMap

LEMMA SweptTyped ==
  ASSUME Queue!QueueInv, NEW now \in Queue!Readings, NEW heard, NEW a \in Actions,
         NEW js, js = Queue!AfterExpiry(now, heard)
  PROVE  js \in [Actions -> Queue!Job] /\ js[a] \in Queue!Job /\ Queue!Sound(a, js[a])
<1>1. now \in Nat
  BY QueueAssumed, Queue!ReadingsType DEF Queue!QueueInv
<1>2. Queue!Swept(js)
  BY <1>1, QueueAssumed, Queue!ExpiryIsSwept
<1>3. QED
  BY <1>2, QueueAssumed, Queue!SweptSound DEF Queue!Swept

\* The calls that sweep: their own change comes on top of the swept views.
LEMMA ClaimView ==
  ASSUME Queue!QueueInv, UNCHANGED <<tickets, records>>, NEW c \in Scopes,
         NEW now \in Queue!Readings, NEW heard, NEW dur \in Durations, Queue!Claim(c, now, heard, dur)
  PROVE  Mirrored(now)
<1>0. PICK js : js = Queue!AfterExpiry(now, heard)
  OBVIOUS
<1>1. PICK lapsed \in SUBSET Actions : ViewMap(js) = Ledger!Swept(lapsed)
  BY <1>0, SweepView
<1>2. PICK i \in 1..Len(order) :
        /\ Queue!Picks(js, c, now, i) /\ Queue!EpochLeft(js[order[i]])
        /\ jobs' = [js EXCEPT ![order[i]] =
             [js[order[i]] EXCEPT !.status = "LEASED", !.runner = c.runner,
                       !.epoch = js[order[i]].epoch + 1,
                       !.token = nextToken, !.sequence = 0, !.cancel = FALSE,
                       !.expires = Queue!Earlier(clock + dur, js[order[i]].sub.expires)]]
  BY <1>0 DEF Queue!Claim
<1>3. PICK a : a = order[i]
  OBVIOUS
<1>4. a \in Actions
  BY <1>2, <1>3 DEF Queue!QueueInv, Queue!TypeOK
<1>5. /\ js \in [Actions -> Queue!Job] /\ js[a] \in Queue!Job /\ Queue!Sound(a, js[a])
      /\ clock' = clock
  BY <1>0, <1>4, SweptTyped DEF Queue!Claim
<1>6. js[a].status = "QUEUED" /\ js[a].epoch < MaxEpoch /\ js[a].epoch \in Nat
      /\ js[a].sub \in Submissions
  <2>1. Queue!Claimable(js, a, c, now) \/ Queue!Claimable(js, a, c, clock)
    BY <1>2, <1>3 DEF Queue!Picks
  <2>2. js[a].status = "QUEUED"
    BY <2>1 DEF Queue!Claimable
  <2>3. js[a].epoch < MaxEpoch
    BY <1>2, <1>3 DEF Queue!EpochLeft
  <2>4. QED
    BY <1>5, <2>2, <2>3, QueueConstants DEF Queue!Job, Queue!Sound
<1>7. PICK auth \in {s.expires : s \in Submissions} : auth = js[a].sub.expires
  BY <1>6
<1>8. PICK k : k = [js[a] EXCEPT !.status = "LEASED", !.runner = c.runner, !.epoch = js[a].epoch + 1,
                      !.token = nextToken, !.sequence = 0, !.cancel = FALSE,
                      !.expires = Queue!Earlier(clock + dur, auth)]
  OBVIOUS
<1>9. jobs' = [js EXCEPT ![a] = k]
  BY <1>2, <1>3, <1>7, <1>8
<1>10. /\ k.status = "LEASED" /\ k.epoch = js[a].epoch + 1 /\ k.sub = js[a].sub
       /\ k.cancel = FALSE /\ k.expires = Queue!Earlier(clock + dur, auth)
  BY <1>5, <1>8 DEF Queue!Job
<1>11. ViewOf(k) = [status |-> "LEASED", epoch |-> js[a].epoch + 1,
                    expires |-> Ledger!LeaseEnd(clock, dur, auth), auth |-> auth, barred |-> FALSE]
  <2>1. k.epoch # 0
    BY <1>6, <1>10
  <2>2. QED
    BY <1>7, <1>10, <2>1 DEF ViewOf, Ledger!LeaseEnd, Queue!Earlier
<1>12. ViewMap(js)[a].status = "QUEUED" /\ ViewMap(js)[a].epoch = js[a].epoch
  BY <1>4, <1>6 DEF ViewMap, ViewOf
<1>13. ViewMap(jobs') = [ViewMap(js) EXCEPT ![a] = ViewOf(k)]
  BY <1>4, <1>5, <1>9, ReplaceView
<1>14. Ledger!LeaseAction(lapsed, a, dur, auth)
  <2>1. Ledger!Swept(lapsed)[a].status = "QUEUED" /\ Ledger!Swept(lapsed)[a].epoch = js[a].epoch
    BY <1>1, <1>12
  <2>2. ViewMap(jobs') =
          [Ledger!Swept(lapsed) EXCEPT ![a] =
             [status |-> "LEASED", epoch |-> Ledger!Swept(lapsed)[a].epoch + 1,
              expires |-> Ledger!LeaseEnd(clock, dur, auth), auth |-> auth, barred |-> FALSE]]
    BY <1>1, <1>11, <1>13, <2>1
  <2>3. QED
    BY <1>5, <1>6, <2>1, <2>2 DEF Ledger!LeaseAction, Ledger!SetActions, ViewMap
<1>15. QED
  BY <1>4, <1>14 DEF Mirrored, Ledger!ActionMoves

LEMMA ReconcileView ==
  ASSUME Queue!QueueInv, UNCHANGED <<tickets, records>>, NEW a \in Actions,
         NEW now \in Queue!Readings, NEW heard, NEW q \in Reconciliations,
         Queue!Reconcile(a, now, heard, q)
  PROVE  Mirrored(now)
<1>0. PICK js : js = Queue!AfterExpiry(now, heard)
  OBVIOUS
<1>1. PICK lapsed \in SUBSET Actions : ViewMap(js) = Ledger!Swept(lapsed)
  BY <1>0, SweepView
<1>2. PICK k : k = [js[a] EXCEPT !.status = q.verdict, !.reconciled = q]
  OBVIOUS
<1>3. js \in [Actions -> Queue!Job] /\ js[a] \in Queue!Job
  BY <1>0, SweptTyped
<1>4. /\ js[a].status = "UNCERTAIN" /\ jobs' = [js EXCEPT ![a] = k] /\ clock' = clock
  BY <1>0, <1>2 DEF Queue!Reconcile
<1>5. /\ k.status \in {"SUCCEEDED", "FAILED"} /\ k.epoch = js[a].epoch /\ k.expires = js[a].expires
      /\ k.sub = js[a].sub /\ k.cancel = js[a].cancel
  BY <1>2, <1>3, QueueConstants DEF Queue!Job
<1>6. ViewOf(k) = ViewOf(js[a])
  BY <1>4, <1>5 DEF ViewOf
<1>7. ViewMap(jobs') = Ledger!Swept(lapsed)
  BY <1>1, <1>3, <1>4, <1>6, ReplaceView DEF ViewMap
<1>8. Ledger!SetActions(Ledger!Swept(lapsed))
  BY <1>4, <1>7 DEF Ledger!SetActions, ViewMap
<1>9. QED
  BY <1>8 DEF Mirrored, Ledger!ActionMoves

LEMMA CancelView ==
  ASSUME Queue!QueueInv, UNCHANGED <<tickets, records>>, NEW a \in Actions,
         NEW now \in Queue!Readings, NEW heard, Queue!Cancel(a, now, heard)
  PROVE  Mirrored(now)
<1>0. PICK js : js = Queue!AfterExpiry(now, heard)
  OBVIOUS
<1>1. PICK lapsed \in SUBSET Actions : ViewMap(js) = Ledger!Swept(lapsed)
  BY <1>0, SweepView
<1>2. js \in [Actions -> Queue!Job] /\ js[a] \in Queue!Job
  BY <1>0, SweptTyped
<1>3. PICK stop, drop :
        /\ stop = [js[a] EXCEPT !.cancel = TRUE]
        /\ drop = [js[a] EXCEPT !.status = "CANCELLED", !.runner = None, !.token = 0, !.expires = 0]
  OBVIOUS
<1>4. /\ jobs' = [js EXCEPT ![a] = IF js[a].status = "RUNNING" THEN stop ELSE drop]
      /\ clock' = clock
  BY <1>0, <1>3 DEF Queue!Cancel
<1>5. CASE js[a].status = "RUNNING"
  <2>1. jobs' = [js EXCEPT ![a] = stop]
    BY <1>4, <1>5
  <2>2. /\ stop.status = "RUNNING" /\ stop.epoch = js[a].epoch /\ stop.expires = js[a].expires
        /\ stop.sub = js[a].sub /\ stop.cancel = TRUE
    BY <1>2, <1>3, <1>5 DEF Queue!Job
  <2>3. PICK v : v = [ViewOf(js[a]) EXCEPT !.barred = TRUE]
    OBVIOUS
  <2>4. ViewOf(stop) = v /\ ViewOf(js[a]).status = "RUNNING"
    BY <1>5, <2>2, <2>3 DEF ViewOf
  <2>5. ViewMap(js)[a] = ViewOf(js[a]) /\ ViewMap(jobs') = [ViewMap(js) EXCEPT ![a] = v]
    BY <1>2, <2>1, <2>4, ReplaceView DEF ViewMap
  <2>6. Ledger!BarAction(lapsed, a)
    BY <1>1, <1>4, <2>3, <2>4, <2>5 DEF Ledger!BarAction, Ledger!SetActions, ViewMap
  <2>7. QED
    BY <2>6 DEF Mirrored, Ledger!ActionMoves
<1>6. CASE js[a].status # "RUNNING"
  <2>1. jobs' = [js EXCEPT ![a] = drop]
    BY <1>4, <1>6
  <2>2. Over(js[a], drop)
    BY <1>2, <1>3 DEF Queue!Job, Over
  <2>3. QED
    BY <1>1, <1>2, <1>4, <2>1, <2>2, FinishView
<1>7. QED
  BY <1>5, <1>6

LEMMA SweepExpiredView ==
  ASSUME Queue!QueueInv, UNCHANGED <<tickets, records>>, NEW now, NEW heard,
         Queue!SweepExpired(now, heard)
  PROVE  Mirrored(now)
<1>1. PICK lapsed \in SUBSET Actions :
        ViewMap(Queue!AfterExpiry(now, heard)) = Ledger!Swept(lapsed)
  BY SweepView
<1>2. Ledger!SetActions(Ledger!Swept(lapsed))
  BY <1>1 DEF Queue!SweepExpired, Ledger!SetActions, ViewMap
<1>3. QED
  BY <1>2 DEF Mirrored, Ledger!ActionMoves

\* Every step of the queue is a step of the ledger's action source.
LEMMA QueueMoves ==
  ASSUME Queue!QueueInv, Ledger!LedgerInv, Queue!QueueNext, UNCHANGED <<tickets, records>>
  PROVE  \E now \in Ledger!Readings : Mirrored(now)
<1>1. Queue!Readings = Ledger!Readings
  BY DEF Queue!Readings, Ledger!Readings
<1>2. clock \in Ledger!Readings
  BY QueueConstants DEF Queue!QueueInv, Queue!TypeOK, Ledger!Readings
<1>3. ASSUME NEW now \in Queue!Readings, NEW l \in leases, Queue!RunnerNext(l, now)
      PROVE  Mirrored(now)
  BY <1>3, StartView, HeartbeatView, CompleteView, NackView DEF Queue!RunnerNext
<1>4. ASSUME NEW now \in Queue!Readings, NEW heard \in SUBSET Actions, Queue!SweepingNext(now, heard)
      PROVE  Mirrored(now)
  BY <1>4, ClaimView, ReconcileView, CancelView, SweepExpiredView DEF Queue!SweepingNext
<1>5. QED
  BY <1>1, <1>2, <1>3, <1>4, SubmitView, FinalizeView DEF Queue!QueueNext

-----------------------------------------------------------------------------
(* The invariant *)

\* A child that was authorized, and that no record says is gone, belongs to a
\* write that was started under the lease of the child and is not given back.
Held ==
  \A i \in Ids :
    /\ records[i].authorizedAt # 0
    /\ records[i].status \notin Ledger!Terminal
    => /\ jobs[records[i].action].status \in Queue!Started
       /\ jobs[records[i].action].epoch = records[i].epoch

\* Each part keeps its invariants, and the gate answers what the ledger knows.
PathInv ==
  /\ Queue!QueueInv /\ Queue!TargetExclusive
  /\ Ledger!IssuanceInv /\ Ledger!GrantInv
  /\ cleanup = Cleanup
  /\ Held

LEMMA SameCleanup == records' = records => Cleanup' = Cleanup
  BY DEF Cleanup, Ledger!CleanupState

LEMMA QueueKeeps ==
  ASSUME Queue!QueueNext PROVE UNCHANGED <<clock, cleanup>>
<1>1. ASSUME NEW l, NEW now, Queue!RunnerNext(l, now) PROVE UNCHANGED <<clock, cleanup>>
  BY <1>1 DEF Queue!RunnerNext, Queue!Start, Queue!Heartbeat, Queue!Complete, Queue!Reject, Queue!Nack
<1>2. ASSUME NEW heard, NEW now, Queue!SweepingNext(now, heard) PROVE UNCHANGED <<clock, cleanup>>
  BY <1>2 DEF Queue!SweepingNext, Queue!Claim, Queue!Reconcile, Queue!Cancel, Queue!SweepExpired
<1>3. QED
  BY <1>1, <1>2 DEF Queue!QueueNext, Queue!Submit, Queue!Finalize, Queue!ReplayComplete

LEMMA LedgerKeeps ==
  ASSUME Ledger!IssuanceInv, LedgerStep
  PROVE  /\ [Ledger!Next]_(Ledger!vars) /\ [Ledger!LedgerNext]_(Ledger!ledgerVars)
         /\ UNCHANGED <<clock, queueOwn>> /\ cleanup' = Cleanup'
<1>1. Ledger!LedgerInv /\ Ledger!IssuanceTypeOK
  BY DEF Ledger!IssuanceInv
<1>2. UNCHANGED queueOwn /\ cleanup' = Cleanup'
  BY DEF LedgerStep
<1>3. ASSUME NEW i \in Ids, Ledger!VaultCreates(i) PROVE Ledger!Next /\ clock' = clock
  BY <1>3 DEF Ledger!Next, Ledger!VaultCreates
<1>4. ASSUME NEW now \in Ledger!Readings, Ledger!BrokerNext(now)
      PROVE  Ledger!Next /\ clock' = clock
  <2>1. Ledger!IssueMoves(now) \/ UNCHANGED Ledger!ledgerVars
    BY <1>4, LedgerAssumed, BudgetAssumed, TimeoutAssumed, Ledger!BrokerCalls
  <2>2. clock' = clock
    BY <1>1, <2>1, LedgerAssumed, BudgetAssumed, TimeoutAssumed, Ledger!IssueStep
       DEF Ledger!ledgerVars
  <2>3. QED
    BY <1>4, <2>2 DEF Ledger!Next
<1>5. ASSUME NEW now \in Ledger!Readings, NEW w \in Workers, Ledger!WorkerNext(w, now)
      PROVE  Ledger!Next /\ clock' = clock
  <2>1. \/ Ledger!RecoveryMoves(now) \/ Ledger!RevocationMoves(now)
        \/ UNCHANGED Ledger!ledgerVars
    BY <1>1, <1>5, LedgerAssumed, BudgetAssumed, TimeoutAssumed, Ledger!WorkerCalls
  <2>2. clock' = clock
    BY <1>1, <2>1, LedgerAssumed, BudgetAssumed, TimeoutAssumed, Ledger!RevocationStep
       DEF Ledger!ledgerVars
  <2>3. QED
    BY <1>5, <2>2 DEF Ledger!Next
<1>6. ASSUME NEW now \in Ledger!Readings, Ledger!OperatorMoves(now), UNCHANGED <<broker, child, work>>
      PROVE  Ledger!Next /\ clock' = clock
  <2>1. clock' = clock
    BY <1>1, <1>6, LedgerAssumed, BudgetAssumed, TimeoutAssumed, Ledger!RevocationStep
  <2>2. QED
    BY <1>6, <2>1 DEF Ledger!Next, Ledger!Surroundings
<1>7. Ledger!Next /\ clock' = clock
  BY <1>3, <1>4, <1>5, <1>6 DEF LedgerStep
<1>8. [Ledger!LedgerNext]_(Ledger!ledgerVars)
  BY <1>1, <1>7, LedgerAssumed, BudgetAssumed, TimeoutAssumed, Ledger!StepCalls
<1>9. QED
  BY <1>2, <1>7, <1>8

\* What the ledger answers moves as the gate's contract says.
LEMMA LedgerMoves ==
  ASSUME PathInv, LedgerStep PROVE [Queue!Next]_(Queue!vars)
<1>1. Ledger!LedgerInv /\ Ledger!GrantInv /\ Queue!QueueInv /\ cleanup = Cleanup
  BY DEF PathInv, Ledger!IssuanceInv
<1>2. /\ [Ledger!LedgerNext]_(Ledger!ledgerVars)
      /\ UNCHANGED <<clock, jobs, order, nextToken, leases, starts, acks>> /\ cleanup' = Cleanup'
  BY LedgerKeeps DEF PathInv, queueOwn
<1>3. \/ \A a \in Actions, e \in 1..MaxEpoch : Ledger!CleanupState(a, e)' = Ledger!CleanupState(a, e)
      \/ \E b \in Actions : \E d \in 1..ViewOf(jobs[b]).epoch : Ledger!OneAnswerMoves(b, d)
  BY <1>1, <1>2, LedgerAssumed, BudgetAssumed, TimeoutAssumed, Ledger!AnswerStep
<1>4. CASE \A a \in Actions, e \in 1..MaxEpoch :
             Ledger!CleanupState(a, e)' = Ledger!CleanupState(a, e)
  <2>1. cleanup' = cleanup
    BY <1>1, <1>2, <1>4 DEF Cleanup
  <2>2. QED
    BY <1>2, <2>1 DEF Queue!vars
<1>5. ASSUME NEW b \in Actions, NEW d \in 1..ViewOf(jobs[b]).epoch, Ledger!OneAnswerMoves(b, d)
      PROVE  Queue!Next
  <2>1. /\ jobs[b] \in Queue!Job /\ Queue!Sound(b, jobs[b])
        /\ d \in 1..jobs[b].epoch /\ d \in 1..MaxEpoch
    <3>1. jobs[b] \in Queue!Job /\ Queue!Sound(b, jobs[b]) /\ d \in 1..jobs[b].epoch
      BY <1>1 DEF Queue!QueueInv, Queue!TypeOK, ViewOf
    <3>2. jobs[b].epoch \in 0..MaxEpoch
      BY <3>1 DEF Queue!Job
    <3>3. QED
      BY <3>1, <3>2, QueueConstants
  <2>2. jobs[b].sub.pool = "WRITE"
    <3>1. jobs[b].status # "ABSENT"
      BY <2>1 DEF Queue!Sound, Queue!Blank
    <3>2. QED
      BY <2>1, <3>1, WritesOnly DEF Queue!Sound
  <2>3. PICK g : g = Ledger!CleanupState(b, d)'
    OBVIOUS
  <2>4. <<cleanup[b][d], g>> \in {<<"MISSING", "PENDING">>, <<"PENDING", "TERMINAL">>}
    BY <1>1, <1>5, <2>1, <2>3 DEF Ledger!OneAnswerMoves, Cleanup
  <2>5. cleanup' = [cleanup EXCEPT ![b][d] = g]
    BY <1>1, <1>2, <1>5, <2>1, <2>3 DEF Ledger!OneAnswerMoves, Cleanup
  <2>6. Queue!GateMoves(b, d, g) /\ g \in Queue!Gate
    BY <1>2, <2>1, <2>2, <2>4, <2>5 DEF Queue!GateMoves, Queue!Gate
  <2>7. QED
    BY <2>1, <2>6 DEF Queue!Next
<1>6. QED
  BY <1>3, <1>4, <1>5

\* A step of the queue, or of time, is one that the ledger allows.
LEMMA OthersMove ==
  ASSUME PathInv, QueueStep \/ (Queue!Tick /\ UNCHANGED ledgerOwn)
  PROVE  [Queue!Next]_(Queue!vars) /\ [Ledger!Next]_(Ledger!vars) /\ cleanup' = Cleanup'
<1>1. Queue!QueueInv /\ Ledger!LedgerInv /\ cleanup = Cleanup
  BY DEF PathInv, Ledger!IssuanceInv
<1>2. UNCHANGED <<tickets, records, broker, child, work>>
  BY DEF QueueStep, ledgerOwn
<1>3. Cleanup' = Cleanup
  BY <1>2, SameCleanup
<1>4. CASE QueueStep
  <2>1. Queue!QueueNext /\ UNCHANGED <<clock, cleanup>>
    BY <1>4, QueueKeeps DEF QueueStep
  <2>2. PICK now \in Ledger!Readings : Mirrored(now)
    BY <1>1, <1>2, <2>1, QueueMoves
  <2>3. CASE Ledger!ActionMoves(now)
    <3>1. Ledger!Next
      BY <1>2, <2>2, <2>3 DEF Ledger!Next, Ledger!Surroundings
    <3>2. QED
      BY <1>1, <1>3, <2>1, <3>1 DEF Queue!Next
  <2>4. CASE ViewMap(jobs') = ViewMap(jobs)
    <3>1. UNCHANGED Ledger!vars
      BY <1>2, <2>1, <2>4 DEF Ledger!vars, ViewMap
    <3>2. QED
      BY <1>1, <1>3, <2>1, <3>1 DEF Queue!Next
  <2>5. QED
    BY <2>2, <2>3, <2>4 DEF Mirrored
<1>5. CASE Queue!Tick
  <2>1. jobs' = jobs /\ cleanup' = cleanup /\ clock < MaxClock /\ clock' = clock + 1
    BY <1>5 DEF Queue!Tick
  <2>2. Ledger!Tick
    BY <1>2, <2>1 DEF Ledger!Tick
  <2>3. Ledger!Next
    BY <1>2, <2>2 DEF Ledger!Next, Ledger!Surroundings
  <2>4. QED
    BY <1>1, <1>3, <1>5, <2>1, <2>3 DEF Queue!Next
<1>6. QED
  BY <1>4, <1>5

\* Every step of the whole is a step, or none, of either part.
LEMMA StepMaps ==
  ASSUME PathInv, [Next]_vars
  PROVE  [Queue!Next]_(Queue!vars) /\ [Ledger!Next]_(Ledger!vars) /\ cleanup' = Cleanup'
<1>1. CASE UNCHANGED vars
  <2>1. /\ UNCHANGED <<clock, jobs, order, nextToken, leases, starts, acks, cleanup>>
        /\ UNCHANGED <<tickets, records, broker, child, work>>
    BY <1>1 DEF vars, queueOwn, ledgerOwn
  <2>2. UNCHANGED Queue!vars /\ UNCHANGED Ledger!vars
    BY <2>1 DEF Queue!vars, Ledger!vars
  <2>3. cleanup' = Cleanup'
    BY <2>1, SameCleanup DEF PathInv
  <2>4. QED
    BY <2>2, <2>3
<1>2. CASE LedgerStep
  <2>1. [Queue!Next]_(Queue!vars)
    BY <1>2, LedgerMoves
  <2>2. [Ledger!Next]_(Ledger!vars) /\ cleanup' = Cleanup'
    BY <1>2, LedgerKeeps DEF PathInv
  <2>3. QED
    BY <2>1, <2>2
<1>3. CASE QueueStep \/ (Queue!Tick /\ UNCHANGED ledgerOwn)
  BY <1>3, OthersMove
<1>4. QED
  BY <1>1, <1>2, <1>3 DEF Next

\* An authorized child keeps its action where it is, and is authorized only under
\* a run.
LEMMA HeldStep ==
  ASSUME PathInv, [Next]_vars PROVE Held'
<1> SUFFICES ASSUME NEW i \in Ids, records'[i].authorizedAt # 0,
                    records'[i].status \notin Ledger!Terminal
             PROVE  /\ jobs'[records'[i].action].status \in Queue!Started
                    /\ jobs'[records'[i].action].epoch = records'[i].epoch
  BY DEF Held, Queue!Started, Ledger!Terminal
<1>1. /\ Queue!QueueInv /\ Ledger!LedgerInv /\ Ledger!GrantInv /\ Ledger!IssuanceTypeOK
      /\ cleanup = Cleanup /\ Held
  BY DEF PathInv, Ledger!IssuanceInv
<1>2. /\ [Queue!Next]_(Queue!vars) /\ [Ledger!Next]_(Ledger!vars)
  BY StepMaps
<1>3. [Ledger!LedgerNext]_(Ledger!ledgerVars)
  BY <1>1, <1>2, LedgerAssumed, BudgetAssumed, TimeoutAssumed, Ledger!StepCalls
<1>4. PICK a, e : a = records'[i].action /\ e = records'[i].epoch
  OBVIOUS
<1>5. a \in Actions /\ jobs[a] \in Queue!Job /\ Queue!Sound(a, jobs[a])
  <2>1. a \in Actions
    BY <1>1, <1>3, <1>4, LedgerAssumed, BudgetAssumed, TimeoutAssumed, Ledger!AuthorizedUnderRun
  <2>2. QED
    BY <1>1, <2>1 DEF Queue!QueueInv, Queue!TypeOK
<1>6. CASE /\ records[i].authorizedAt # 0 /\ records[i].status \notin Ledger!Terminal
           /\ a = records[i].action /\ e = records[i].epoch
  <2>1. jobs[a].status \in Queue!Started /\ jobs[a].epoch = e
    BY <1>1, <1>6 DEF Held
  <2>2. jobs[a].sub.pool = "WRITE"
    <3>1. jobs[a].sub \in Submissions
      BY <1>5, <2>1 DEF Queue!Sound, Queue!Started
    <3>2. QED
      BY <3>1, WritesOnly
  <2>3. cleanup[a][e] = "PENDING"
    <3>1. Ledger!Present(records[i])
      BY <1>1, <1>6 DEF Ledger!LedgerInv, Ledger!Sound, Ledger!Present
    <3>2. Ledger!CleanupState(a, e) = "PENDING"
      BY <1>1, <1>6, <3>1, LedgerAssumed, BudgetAssumed, TimeoutAssumed, Ledger!PendingAnswer
    <3>3. e \in 1..MaxEpoch
      <4>1. e \in 0..MaxEpoch
        BY <1>5, <2>1 DEF Queue!Job
      <4>2. e \in 1..ViewOf(jobs[a]).epoch
        BY <1>1, <1>5, <1>6, <3>1 DEF Ledger!GrantInv
      <4>3. QED
        BY <4>1, <4>2, <2>1, QueueConstants DEF ViewOf
    <3>4. QED
      BY <1>1, <1>5, <3>2, <3>3 DEF Cleanup
  <2>4. jobs'[a].status \in Queue!Started /\ jobs'[a].epoch = jobs[a].epoch
    BY <1>1, <1>2, <1>5, <2>1, <2>2, <2>3, QueueAssumed, Queue!PendingHolds
  <2>5. QED
    BY <1>4, <2>1, <2>4
<1>7. CASE ViewOf(jobs[a]).status = "RUNNING" /\ ViewOf(jobs[a]).epoch = e
  \* The step is one of the ledger: another leaves the records alone.
  <2>1. jobs[a].status = "RUNNING" /\ jobs[a].epoch = e
    BY <1>7 DEF ViewOf
  <2>2. CASE records' = records
    <3>1. QED
      BY <1>4, <1>6, <2>2
  <2>3. CASE records' # records
    <3>1. LedgerStep
      BY <2>3 DEF Next, vars, QueueStep, ledgerOwn
    <3>2. jobs' = jobs
      BY <3>1 DEF LedgerStep, queueOwn
    <3>3. QED
      BY <1>4, <2>1, <3>2 DEF Queue!Started
  <2>4. QED
    BY <2>2, <2>3
<1>8. QED
  <2>1. \/ /\ records[i].authorizedAt # 0 /\ records[i].status \notin Ledger!Terminal
           /\ a = records[i].action /\ e = records[i].epoch
        \/ ViewOf(jobs[a]).status = "RUNNING" /\ ViewOf(jobs[a]).epoch = e
    BY <1>1, <1>3, <1>4, <1>5, LedgerAssumed, BudgetAssumed, TimeoutAssumed,
       Ledger!AuthorizedUnderRun
  <2>2. QED
    BY <1>6, <1>7, <2>1

LEMMA PathStep == PathInv /\ [Next]_vars => PathInv'
<1> SUFFICES ASSUME PathInv, [Next]_vars PROVE PathInv'
  OBVIOUS
<1>1. /\ Queue!QueueInv /\ Queue!TargetExclusive /\ Ledger!IssuanceInv /\ Ledger!GrantInv
      /\ Ledger!LedgerInv /\ Ledger!IssuanceTypeOK
  BY DEF PathInv, Ledger!IssuanceInv
<1>2. [Queue!Next]_(Queue!vars) /\ [Ledger!Next]_(Ledger!vars) /\ cleanup' = Cleanup'
  BY StepMaps
<1>3. Queue!QueueInv' /\ Queue!TargetExclusive'
  BY <1>1, <1>2, QueueAssumed, Queue!NextInv, Queue!NextApart
<1>4. Ledger!IssuanceInv'
  BY <1>1, <1>2, LedgerAssumed, BudgetAssumed, TimeoutAssumed, Ledger!IssuanceStep
<1>5. [Ledger!LedgerNext]_(Ledger!ledgerVars)
  BY <1>1, <1>2, LedgerAssumed, BudgetAssumed, TimeoutAssumed, Ledger!StepCalls
<1>6. Ledger!GrantInv'
  BY <1>1, <1>5, LedgerAssumed, BudgetAssumed, TimeoutAssumed, Ledger!GrantStep
<1>7. QED
  BY <1>2, <1>3, <1>4, <1>6, HeldStep DEF PathInv

LEMMA Starts == Init => Queue!Init /\ Ledger!Init /\ PathInv
<1> SUFFICES ASSUME Init PROVE Queue!Init /\ Ledger!Init /\ PathInv
  OBVIOUS
<1>1. \A i \in Ids : records[i].status = "ABSENT" /\ records[i].authorizedAt = 0
  BY DEF Init, Ledger!Absent
<1>2. Cleanup = [a \in Actions |-> [e \in 1..MaxEpoch |-> "MISSING"]]
  BY <1>1 DEF Cleanup, Ledger!CleanupState
<1>3. Queue!Init
  BY <1>2 DEF Init, Queue!Init
<1>4. \A a \in Actions : ViewOf(jobs[a]) = [status |-> "QUEUED", epoch |-> 0, expires |-> 0,
                                            auth |-> 0, barred |-> FALSE]
  BY DEF Init, ViewOf, Queue!Blank
<1>5. Ledger!Init
  BY <1>4 DEF Init, Ledger!Init, Ledger!LedgerInit
<1>6. Queue!QueueInv /\ Queue!TargetExclusive
  <2>1. Queue!TargetExclusive
    BY <1>3 DEF Queue!Init, Queue!TargetExclusive, Queue!Blank, Queue!Active
  <2>2. QED
    BY <1>3, <2>1, QueueAssumed, Queue!InitInv
<1>7. Ledger!IssuanceInv
  BY <1>5, LedgerAssumed, BudgetAssumed, TimeoutAssumed, Ledger!IssuanceStart
<1>8. Ledger!GrantInv
  BY <1>5, LedgerAssumed, BudgetAssumed, TimeoutAssumed, Ledger!GrantStart DEF Ledger!Init
<1>9. Held
  BY <1>1 DEF Held
<1>10. QED
  BY <1>3, <1>5, <1>6, <1>7, <1>8, <1>9 DEF PathInv, Init

LEMMA PathInvariant == Spec => []PathInv
  BY Starts, PathStep, PTL DEF Spec

-----------------------------------------------------------------------------
(* Theorems *)

\* The queue and the ledger keep the contracts they were specified against: what
\* InspectCleanup answers moves as CredentialFinalizationGate promises, and the
\* actions of the queue move as AtomicActionFenceSource promises, so that every
\* theorem about either part holds of the two together.
THEOREM PartsFit == Spec => ContractsHold
<1>1. PathInv /\ [Next]_vars => [Queue!Next]_(Queue!vars) /\ [Ledger!Next]_(Ledger!vars)
  BY StepMaps
<1>2. Spec => Queue!Spec /\ Ledger!Spec
  BY <1>1, Starts, PathInvariant, PTL DEF Spec, Queue!Spec, Ledger!Spec
<1>3. QED
  BY <1>2 DEF ContractsHold, QueueContract, LedgerContract

\* A child that can be used and that nobody vouched for has a record that is not final.
LEMMA ArmedIsPending ==
  ASSUME PathInv, NEW i \in Ids, Armed(i)
  PROVE  records[i].authorizedAt # 0 /\ records[i].status \notin Ledger!Terminal
<1>1. Ledger!IssuanceInv
  BY DEF PathInv
<1>2. records[i].authorizedAt # 0
  BY <1>1 DEF Armed, Ledger!Live, Ledger!IssuanceInv, Ledger!Backed
<1>3. records[i].status \notin Ledger!Terminal
  <2>1. Ledger!TerminalMeansDead
    BY <1>1, LedgerAssumed, BudgetAssumed, TimeoutAssumed, Ledger!InvAccounts
       DEF Ledger!ChildrenAccounted
  <2>2. QED
    BY <2>1 DEF Armed, Ledger!TerminalMeansDead
<1>4. QED
  BY <1>2, <1>3

\* As long as Vault honours a child, its action holds the target under the lease
\* the child was issued for: a lost lease, a late result, an operator's verdict or
\* a cancellation gives the target back only after the ledger (AuthorizeChildCreate,
\* InspectCleanup, requireCredentialTerminal).
THEOREM LiveChildrenHoldTargets == Spec => []LiveChildHoldsTarget
<1>1. PathInv => LiveChildHoldsTarget
  BY ArmedIsPending DEF PathInv, Held, LiveChildHoldsTarget, Queue!Started, Queue!Active
<1>2. QED
  BY <1>1, PathInvariant, PTL

\* No action is leased or runs against a target that a live child of another
\* action can still change (Claim, targetActiveLocked).
THEOREM OneWriterPerTarget == Spec => []NoSecondWriter
<1>1. PathInv => NoSecondWriter
  <2> SUFFICES ASSUME PathInv, NEW i \in Ids, NEW b \in Actions, Armed(i),
                      b # records[i].action, jobs[b].status \in Queue!Active
               PROVE  jobs[b].sub.target # jobs[records[i].action].sub.target
    BY DEF NoSecondWriter
  <2>1. records[i].authorizedAt # 0 /\ records[i].status \notin Ledger!Terminal
    BY ArmedIsPending
  <2>2. records[i].action \in Actions
    BY <2>1 DEF PathInv, Ledger!IssuanceInv, Ledger!LedgerInv, Ledger!Sound
  <2>3. jobs[records[i].action].status \in Queue!Active
    BY <2>1 DEF PathInv, Held, Queue!Started, Queue!Active
  <2>4. QED
    BY <2>2, <2>3 DEF PathInv, Queue!TargetExclusive
<1>2. QED
  BY <1>1, PathInvariant, PTL

\* Put together, queue and ledger still run each write once, one at a time on a
\* target (ExclusiveRun), end credentials before targets are given back, and
\* account for every child: what the parts promised alone.
THEOREM PromisesHold ==
  Spec => /\ Queue!ImplementsExclusiveRun
          /\ Queue!CleanupFirst
          /\ []Queue!AckedResultKept
          /\ []Ledger!ChildrenAccounted
          /\ Ledger!CredentialSteps
<1>1. Spec => Queue!Spec /\ Ledger!Spec
  BY PartsFit DEF ContractsHold, QueueContract, LedgerContract
<1>2. Queue!Spec => /\ Queue!ImplementsExclusiveRun /\ Queue!CleanupFirst
                    /\ []Queue!AckedResultKept
  BY QueueAssumed, Queue!Refines, Queue!CredentialsEndFirst, Queue!AckedResultStands
<1>3. Ledger!Spec => []Ledger!ChildrenAccounted /\ Ledger!CredentialSteps
  BY LedgerAssumed, BudgetAssumed, TimeoutAssumed, Ledger!ChildrenAreAccounted,
     Ledger!LateCallsChangeNothing
<1>4. QED
  BY <1>1, <1>2, <1>3
=============================================================================
