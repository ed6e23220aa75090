-------------------------- MODULE ActionQueueProofs --------------------------
(***************************************************************************)
(* Proofs about the action queue, for every set of actions, targets,       *)
(* runners and scopes, every clock and every number of lease epochs:       *)
(* targets and runner slots are exclusive, an action is started once, an   *)
(* acknowledged result stands, credentials are cleaned up before targets   *)
(* are given back, and the queue implements ExclusiveRun.                  *)
(*                                                                         *)
(* All but the two exclusions are facts about one record.  So the proof    *)
(* first finds the moves of one record (Sweep for what expireLocked does   *)
(* to it, Move for what a method does to it afterwards), shows once that   *)
(* every step of the queue is a sweep followed by moves, and then reasons  *)
(* about moves only.                                                       *)
(***************************************************************************)
EXTENDS ActionQueue, FiniteSetTheorems, TLAPS

-----------------------------------------------------------------------------
(* The moves of one record *)

\* k has the submission, the lease and the result of j.
SameRun(j, k) ==
  /\ k.sub = j.sub /\ k.epoch = j.epoch /\ k.runner = j.runner
  /\ k.completion = j.completion /\ k.result = j.result
  /\ k.receipt = j.receipt /\ k.reconciled = j.reconciled

Stays(j, k) ==
  /\ k.status = j.status /\ k.token = j.token /\ SameRun(j, k)
  /\ j.status = "ABSENT" => k = j

Starts(j, k) ==
  j.status = "LEASED" /\ k.status = "RUNNING" /\ k.token = j.token /\ SameRun(j, k)

Requeues(a, j, k) ==
  /\ j.status = "LEASED" /\ k.status = "QUEUED"
  /\ k.sub = j.sub /\ k.epoch = j.epoch
  /\ k.completion = j.completion /\ k.result = j.result
  /\ k.receipt = j.receipt /\ k.reconciled = j.reconciled
  /\ j.sub.pool = "WRITE" => cleanup[a][j.epoch] \in {"MISSING", "TERMINAL"}

TakesLease(j, k) ==
  /\ j.status = "QUEUED" /\ k.status = "LEASED"
  /\ k.sub = j.sub
  /\ k.completion = j.completion /\ k.result = j.result
  /\ k.receipt = j.receipt /\ k.reconciled = j.reconciled

Lapses(j, k) ==
  /\ j.status = "RUNNING" /\ k.status = "UNCERTAIN"
  /\ k.sub = j.sub /\ k.epoch = j.epoch /\ k.runner = j.runner
  /\ k.receipt = j.receipt /\ k.reconciled = j.reconciled

Receives(j, k) ==
  /\ j.status = "RUNNING" /\ k.status = "FINALIZING"
  /\ k.sub = j.sub /\ k.epoch = j.epoch /\ k.runner = j.runner
  /\ k.receipt = TRUE /\ k.completion \in Outcomes /\ k.reconciled = j.reconciled

Settles(a, j, k) ==
  /\ j.status = "FINALIZING" /\ k.status = j.completion /\ j.receipt = TRUE
  /\ SameRun(j, k)
  /\ ReleasesTargetLock(j.completion) /\ j.sub.pool = "WRITE"
       => cleanup[a][j.epoch] = "TERMINAL"

Drops(j, k) ==
  /\ j.status \in {"QUEUED", "LEASED"} /\ k.status \in {"CANCELLED", "FAILED"}
  /\ k.sub = j.sub /\ k.epoch = j.epoch
  /\ k.receipt = j.receipt /\ k.reconciled = j.reconciled

Judged(a, j, k) ==
  /\ j.status = "UNCERTAIN" /\ k.status \in Verdicts
  /\ k.sub = j.sub /\ k.epoch = j.epoch
  /\ k.completion = j.completion /\ k.result = j.result
  /\ k.receipt = j.receipt /\ j.reconciled = None /\ k.reconciled # None
  /\ j.sub.pool = "WRITE" => cleanup[a][j.epoch] = "TERMINAL"

Enters(j, k) ==
  /\ j.status = "ABSENT" /\ k.status = "QUEUED"
  /\ k.sub \in Submissions /\ k.receipt = FALSE /\ k.reconciled = None

\* What expireLocked does to the record of action a.
Sweep(a, j, k) == k = j \/ Requeues(a, j, k) \/ Lapses(j, k) \/ Settles(a, j, k)

\* What a method other than Claim does to a record, once the queue is swept.
Act(a, j, k) ==
  \/ Stays(j, k) \/ Starts(j, k) \/ Requeues(a, j, k) \/ Lapses(j, k) \/ Receives(j, k)
  \/ Settles(a, j, k) \/ Drops(j, k) \/ Judged(a, j, k) \/ Enters(j, k)

Move(a, j, k) == Act(a, j, k) \/ TakesLease(j, k)

-----------------------------------------------------------------------------
(* The inductive invariant *)

\* What holds of the record j of action a: its submission is there, and nothing
\* before it was submitted; a receipt
\* leads to the status it reports, unless an uncertain one was reconciled; an
\* operator's verdict is final; a started lease is the last lease, and the
\* current fence while the action runs; an acknowledged result is the recorded one.
Sound(a, j) ==
  /\ j.status # "ABSENT" => j.sub \in Submissions
  /\ j.status = "ABSENT" => j = Blank
  /\ j.receipt => /\ j.completion \in Outcomes
                  /\ \/ j.status \in {"FINALIZING", j.completion}
                     \/ j.completion = "UNCERTAIN" /\ j.reconciled # None
  /\ j.reconciled # None => j.status \in Verdicts
  /\ \A l \in starts : l.action = a =>
       /\ l.epoch = j.epoch
       /\ j.status \in {"RUNNING", "FINALIZING", "UNCERTAIN", "SUCCEEDED", "FAILED"}
       /\ j.status = "RUNNING" => SameFence(j, l)
  /\ \A k \in acks : k.action = a =>
       j.receipt /\ j.result = k.result /\ j.completion = k.result.outcome

QueueInv ==
  /\ TypeOK
  /\ \A a \in Actions : Sound(a, jobs[a])
  /\ StartedOnce

-----------------------------------------------------------------------------
(* The shape of records *)

\* Assigning one field keeps the shape of a record.
LEMMA FieldType ==
  ASSUME NEW j \in Job
  PROVE  /\ \A v \in Statuses : [j EXCEPT !.status = v] \in Job
         /\ \A v \in Submissions \cup {None} : [j EXCEPT !.sub = v] \in Job
         /\ \A v \in Runners \cup {None} : [j EXCEPT !.runner = v] \in Job
         /\ \A v \in 0..MaxEpoch : [j EXCEPT !.epoch = v] \in Job
         /\ \A v \in Nat : [j EXCEPT !.token = v] \in Job
         /\ \A v \in Nat : [j EXCEPT !.expires = v] \in Job
         /\ \A v \in Nat : [j EXCEPT !.sequence = v] \in Job
         /\ \A v \in BOOLEAN : [j EXCEPT !.cancel = v] \in Job
         /\ \A v \in Outcomes \cup {None} : [j EXCEPT !.completion = v] \in Job
         /\ \A v \in Results \cup {None} : [j EXCEPT !.result = v] \in Job
         /\ \A v \in BOOLEAN : [j EXCEPT !.receipt = v] \in Job
         /\ \A v \in [token : Nat, epoch : 0..MaxEpoch] : [j EXCEPT !.done = v] \in Job
         /\ \A v \in Reconciliations \cup {None} : [j EXCEPT !.reconciled = v] \in Job
         /\ \A v \in Nat : [j EXCEPT !.notBefore = v] \in Job
  BY DEF Job

LEMMA StatusNames ==
  /\ Outcomes \subseteq Statuses /\ Verdicts \subseteq Statuses
  /\ {"ABSENT", "QUEUED", "LEASED", "RUNNING", "FINALIZING", "UNCERTAIN", "CANCELLED",
      "FAILED"} \subseteq Statuses
  BY DEF Outcomes, Verdicts, Statuses, Active, Terminal

LEMMA BlankType == Blank \in Job
  BY ConstantsOK DEF Blank, Job, NoFence, Statuses

LEMMA ReadingsType == TypeOK => Readings \subseteq Nat \ {0}
  BY DEF Readings, TypeOK

\* Unleased keeps the shape of a record.
LEMMA UnleasedType ==
  ASSUME NEW j \in Job, NEW t \in Nat PROVE Unleased(j, t) \in Job
  BY FieldType, StatusNames, 0 \in Nat, None \in Runners \cup {None} DEF Unleased

-----------------------------------------------------------------------------
(* What the calls do to records *)

\* expireLocked sweeps every record, and every record keeps its shape.
LEMMA ExpirySweeps ==
  ASSUME QueueInv, NEW now \in Nat, NEW heard, NEW c \in Actions
  PROVE  /\ AfterExpiry(now, heard)[c] \in Job
         /\ Sweep(c, jobs[c], AfterExpiry(now, heard)[c])
<1> DEFINE j == jobs[c]
           k == AfterExpiry(now, heard)[c]
<1>1. j \in Job /\ Sound(c, j)
  BY DEF QueueInv, TypeOK
<1>2. k = Expire(c, j, now, c \in heard)
  BY DEF AfterExpiry
<1> SUFFICES k \in Job /\ Sweep(c, j, k)
  OBVIOUS
<1> HIDE DEF j, k
<1>3. CASE k = j
  BY <1>1, <1>3 DEF Sweep
<1>4. CASE /\ j.status = "FINALIZING" /\ MayFinalize(c, j, c \in heard)
           /\ k = [j EXCEPT !.status = j.completion]
  <2>1. j.completion \in Outcomes /\ j.receipt = TRUE
    BY <1>1, <1>4 DEF MayFinalize, Sound, Job
  <2>2. k \in Job
    BY <1>1, <1>4, <2>1, FieldType, StatusNames
  <2>3. k.status = j.completion /\ SameRun(j, k)
    BY <1>1, <1>4 DEF Job, SameRun
  <2>4. Settles(c, j, k)
    BY <1>4, <2>1, <2>3 DEF Settles, MayFinalize, CredentialTerminal
  <2>5. QED
    BY <2>2, <2>4 DEF Sweep
<1>5. CASE j.status = "LEASED" /\ CredentialTerminal(c, j, TRUE, c \in heard) /\ k = Unleased(j, 0)
  <2>1. k \in Job
    BY <1>1, <1>5, UnleasedType, 0 \in Nat
  <2>2. /\ k.status = "QUEUED" /\ k.sub = j.sub /\ k.epoch = j.epoch
        /\ k.completion = j.completion /\ k.result = j.result
        /\ k.receipt = j.receipt /\ k.reconciled = j.reconciled
    BY <1>1, <1>5 DEF Unleased, Job
  <2>3. Requeues(c, j, k)
    BY <1>5, <2>2 DEF Requeues, CredentialTerminal
  <2>4. QED
    BY <2>1, <2>3 DEF Sweep
<1>6. CASE /\ j.status = "RUNNING"
           /\ k = [j EXCEPT !.status = "UNCERTAIN", !.completion = "UNCERTAIN",
                            !.result = Expired, !.token = 0, !.expires = 0]
  <2>1. k \in Job
    BY <1>1, <1>6, FieldType, StatusNames, 0 \in Nat, "UNCERTAIN" \in Outcomes \cup {None},
       Expired \in Results \cup {None} DEF Outcomes, Results
  <2>2. Lapses(j, k)
    BY <1>1, <1>6 DEF Lapses, Job
  <2>3. QED
    BY <2>1, <2>2 DEF Sweep
<1>7. QED
  BY <1>1, <1>2, <1>3, <1>4, <1>5, <1>6 DEF Expire

\* Every move keeps a record sound.
LEMMA MoveSound ==
  ASSUME NEW a \in Actions, NEW j \in Job, NEW k \in Job, Sound(a, j), Move(a, j, k)
  PROVE  Sound(a, k)
<1> USE DEF Sound
<1>1. CASE Stays(j, k)
  BY <1>1 DEF Stays, SameRun, SameFence
<1>2. CASE Starts(j, k)
  BY <1>2 DEF Starts, SameRun, Outcomes, Verdicts
<1>3. CASE Requeues(a, j, k)
  BY <1>3 DEF Requeues, Outcomes, Verdicts
<1>4. CASE TakesLease(j, k)
  BY <1>4 DEF TakesLease, Outcomes, Verdicts
<1>5. CASE Lapses(j, k)
  BY <1>5 DEF Lapses, Outcomes, Verdicts
<1>6. CASE Receives(j, k)
  BY <1>6 DEF Receives, Outcomes, Verdicts
<1>7. CASE Settles(a, j, k)
  BY <1>7 DEF Settles, SameRun, Outcomes, Verdicts
<1>8. CASE Drops(j, k)
  BY <1>8 DEF Drops, Outcomes, Verdicts
<1>9. CASE Judged(a, j, k)
  BY <1>9 DEF Judged, Outcomes, Verdicts
<1>10. CASE Enters(j, k)
  BY <1>10 DEF Enters, Outcomes, Verdicts
<1>11. QED
  BY <1>1, <1>2, <1>3, <1>4, <1>5, <1>6, <1>7, <1>8, <1>9, <1>10 DEF Move, Act

\* A sweep is a move.
LEMMA SweepIsMove ==
  ASSUME NEW a, NEW j, NEW k, Sweep(a, j, k)
  PROVE  Move(a, j, k)
  BY DEF Sweep, Move, Act, Stays, SameRun

\* The records js are what a sweep makes of the queue.
Swept(js) == js \in [Actions -> Job] /\ \A c \in Actions : Sweep(c, jobs[c], js[c])

\* In the records js, action a may be leased as record e: it waits, nobody holds
\* its target, and the runner has a slot left.
Granted(js, a, e) ==
  /\ TakesLease(js[a], e)
  /\ ~TargetActive(js, a)
  /\ \E c \in Scopes : c.runner = e.runner /\ RunnerActive(js, c.runner) < c.max

\* The step takes the records js along moves, and leases at most one of them.
Moved(js) ==
  /\ jobs' \in [Actions -> Job]
  /\ \/ \A c \in Actions : Act(c, js[c], jobs'[c])
     \/ \E a \in Actions, e \in Job : Granted(js, a, e) /\ jobs' = [js EXCEPT ![a] = e]

LEMMA UnsweptIsSwept == TypeOK => Swept(jobs)
  BY DEF TypeOK, Swept, Sweep

LEMMA ExpiryIsSwept ==
  ASSUME QueueInv, NEW now \in Nat, NEW heard PROVE Swept(AfterExpiry(now, heard))
<1>1. AfterExpiry(now, heard) = [c \in Actions |-> AfterExpiry(now, heard)[c]]
  BY DEF AfterExpiry
<1>2. QED
  BY <1>1, ExpirySweeps DEF Swept

\* The records of a swept queue are sound, and have the submission and the epoch they had.
LEMMA SweptSound ==
  ASSUME QueueInv, NEW js, Swept(js), NEW c \in Actions
  PROVE  /\ js[c] \in Job /\ Sound(c, js[c])
         /\ js[c].sub = jobs[c].sub /\ js[c].epoch = jobs[c].epoch
<1>1. jobs[c] \in Job /\ Sound(c, jobs[c]) /\ js[c] \in Job /\ Sweep(c, jobs[c], js[c])
  BY DEF QueueInv, TypeOK, Swept
<1>2. Sound(c, js[c])
  BY <1>1, SweepIsMove, MoveSound
<1>3. js[c].sub = jobs[c].sub /\ js[c].epoch = jobs[c].epoch
  BY <1>1 DEF Sweep, Requeues, Lapses, Settles, SameRun
<1>4. QED
  BY <1>1, <1>2, <1>3

\* A step that assigns one record.
LEMMA OneMoves ==
  ASSUME NEW js \in [Actions -> Job], NEW a \in Actions, NEW e \in Job,
         Act(a, js[a], e), jobs' = [js EXCEPT ![a] = e]
  PROVE  Moved(js)
<1>1. jobs' \in [Actions -> Job] /\ jobs'[a] = e
  OBVIOUS
<1>2. ASSUME NEW c \in Actions, c # a PROVE Act(c, js[c], jobs'[c])
  <2>1. jobs'[c] = js[c]
    BY <1>2
  <2>2. QED
    BY <2>1 DEF Act, Stays, SameRun
<1>3. QED
  BY <1>1, <1>2 DEF Moved

\* A step that assigns none.
LEMMA NoneMoves ==
  ASSUME NEW js \in [Actions -> Job], jobs' = js PROVE Moved(js)
  BY DEF Moved, Act, Stays, SameRun

LEMMA LeaseType ==
  ASSUME TypeOK, NEW l \in leases
  PROVE  /\ l \in Lease /\ l.action \in Actions /\ l.runner \in Runners
         /\ l.epoch \in 1..MaxEpoch /\ l.token \in Nat
         /\ jobs[l.action] \in Job
         /\ [token |-> l.token, epoch |-> l.epoch] \in [token : Nat, epoch : 0..MaxEpoch]
<1>1. l \in Lease /\ 1..MaxEpoch \subseteq 0..MaxEpoch
  BY ConstantsOK DEF TypeOK
<1>2. /\ l.action \in Actions /\ l.runner \in Runners /\ l.epoch \in 1..MaxEpoch /\ l.token \in Nat
  BY <1>1 DEF Lease
<1>3. jobs[l.action] \in Job
  BY <1>2 DEF TypeOK
<1>4. QED
  BY <1>1, <1>2, <1>3

LEMMA SubmitMoves ==
  ASSUME QueueInv, NEW s \in Submissions, Submit(s) PROVE Moved(jobs)
<1> DEFINE e == [Blank EXCEPT !.status = "QUEUED", !.sub = s]
<1>1. s.id \in Actions /\ jobs \in [Actions -> Job]
  BY ConstantsOK DEF QueueInv, TypeOK
<1>2. e \in Job
  BY BlankType, FieldType, StatusNames
<1>3. Enters(jobs[s.id], e)
  BY DEF Submit, Enters, Blank
<1>4. jobs' = [jobs EXCEPT ![s.id] = e]
  BY DEF Submit
<1> HIDE DEF e
<1>5. QED
  BY <1>1, <1>2, <1>3, <1>4, OneMoves DEF Act

\* What Claim leases: one waiting action whose target nobody holds in the swept queue.
LEMMA ClaimEffect ==
  ASSUME QueueInv, NEW c \in Scopes, NEW now \in Nat, NEW heard, NEW dur \in Durations,
         Claim(c, now, heard, dur)
  PROVE  \E a \in Actions, e \in Job :
           /\ TakesLease(AfterExpiry(now, heard)[a], e)
           /\ ~TargetActive(AfterExpiry(now, heard), a)
           /\ e.runner = c.runner /\ e.epoch \in 1..MaxEpoch
           /\ RunnerActive(AfterExpiry(now, heard), c.runner) < c.max
           /\ jobs' = [AfterExpiry(now, heard) EXCEPT ![a] = e]
           /\ leases' = leases \cup {[action |-> a, runner |-> c.runner, epoch |-> e.epoch,
                                      token |-> nextToken]}
<1> DEFINE js == AfterExpiry(now, heard)
<1>1. Swept(js)
  BY ExpiryIsSwept
<1>2. PICK i \in 1..Len(order) :
        /\ Picks(js, c, now, i)
        /\ EpochLeft(js[order[i]])
        /\ jobs' = [js EXCEPT ![order[i]] =
             [@ EXCEPT !.status = "LEASED", !.runner = c.runner, !.epoch = js[order[i]].epoch + 1,
                       !.token = nextToken, !.sequence = 0, !.cancel = FALSE,
                       !.expires = Earlier(clock + dur, js[order[i]].sub.expires)]]
        /\ leases' = leases \cup {[action |-> order[i], runner |-> c.runner,
                                   epoch |-> js[order[i]].epoch + 1, token |-> nextToken]}
  BY DEF Claim
<1> DEFINE a == order[i]
           j == js[a]
           e == [j EXCEPT !.status = "LEASED", !.runner = c.runner, !.epoch = j.epoch + 1,
                          !.token = nextToken, !.sequence = 0, !.cancel = FALSE,
                          !.expires = Earlier(clock + dur, j.sub.expires)]
<1>3. a \in Actions /\ nextToken \in Nat /\ clock \in Nat
  BY DEF QueueInv, TypeOK
<1>4. j \in Job /\ Sound(a, j)
  BY <1>1, <1>3, SweptSound
<1> HIDE DEF js
<1>5. j.status = "QUEUED" /\ ~TargetActive(js, a)
  BY <1>2 DEF Picks, Claimable
<1>a. RunnerActive(js, c.runner) < c.max
  BY DEF Claim, js
<1>6. j.sub \in Submissions /\ j.sub.expires \in Nat
  BY <1>4, <1>5, ConstantsOK DEF Sound
<1>7. j.epoch + 1 \in 1..MaxEpoch /\ j.epoch + 1 \in 0..MaxEpoch
  <2>1. j.epoch \in 0..MaxEpoch
    BY <1>4 DEF Job
  <2>2. j.epoch < MaxEpoch
    BY <1>2 DEF EpochLeft
  <2> HIDE DEF j
  <2>3. QED
    BY <2>1, <2>2, ConstantsOK
<1>8. Earlier(clock + dur, j.sub.expires) \in Nat /\ c.runner \in Runners
  <2>1. dur \in Nat /\ c.runner \in Runners
    BY ConstantsOK
  <2>2. QED
    BY <1>3, <1>6, <2>1 DEF Earlier
<1>9. e \in Job
  BY <1>3, <1>4, <1>7, <1>8, FieldType, StatusNames, 0 \in Nat
<1>10. /\ e.status = "LEASED" /\ e.sub = j.sub /\ e.completion = j.completion
       /\ e.result = j.result /\ e.receipt = j.receipt /\ e.reconciled = j.reconciled
       /\ e.runner = c.runner /\ e.epoch = j.epoch + 1
  BY <1>4 DEF Job
<1>11. TakesLease(j, e)
  BY <1>5, <1>10 DEF TakesLease
<1>12. jobs' = [js EXCEPT ![a] = e]
  BY <1>2
<1> HIDE DEF e
<1>13. QED
  BY <1>2, <1>3, <1>5, <1>a, <1>7, <1>9, <1>10, <1>11, <1>12 DEF js

LEMMA ClaimMoves ==
  ASSUME QueueInv, NEW c \in Scopes, NEW now \in Nat, NEW heard, NEW dur \in Durations,
         Claim(c, now, heard, dur)
  PROVE  Moved(AfterExpiry(now, heard))
<1> DEFINE js == AfterExpiry(now, heard)
<1>1. PICK a \in Actions, e \in Job :
        /\ TakesLease(js[a], e) /\ ~TargetActive(js, a)
        /\ e.runner = c.runner /\ RunnerActive(js, c.runner) < c.max
        /\ jobs' = [js EXCEPT ![a] = e]
  BY ClaimEffect
<1>2. js \in [Actions -> Job]
  BY ExpiryIsSwept DEF Swept
<1> HIDE DEF js
<1>3. Moved(js)
  BY <1>1, <1>2 DEF Moved, Granted
<1>4. QED
  BY <1>3 DEF js

LEMMA StartMoves ==
  ASSUME QueueInv, NEW l \in leases, NEW now, Start(l, now) PROVE Moved(jobs)
<1> DEFINE j == jobs[l.action]
           e == [j EXCEPT !.status = "RUNNING"]
<1>1. l.action \in Actions /\ j \in Job /\ jobs \in [Actions -> Job]
  BY LeaseType DEF QueueInv, TypeOK
<1>2. e \in Job
  BY <1>1, FieldType, StatusNames
<1>3. e.status = "RUNNING" /\ e.token = j.token /\ SameRun(j, e)
  BY <1>1 DEF Job, SameRun
<1>4. Stays(j, e) \/ Starts(j, e)
  BY <1>3 DEF Start, Stays, Starts
<1>5. jobs' = [jobs EXCEPT ![l.action] = e]
  BY DEF Start
<1> HIDE DEF e
<1>6. QED
  BY <1>1, <1>2, <1>4, <1>5, OneMoves DEF Act

LEMMA HeartbeatMoves ==
  ASSUME QueueInv, NEW l \in leases, NEW now \in Nat, NEW seq \in 1..MaxSequence,
         NEW ext \in Durations, Heartbeat(l, seq, now, ext)
  PROVE  Moved(jobs)
<1> DEFINE j == jobs[l.action]
           t == IF j.cancel THEN j.expires ELSE Earlier(now + ext, j.sub.expires)
           e == [j EXCEPT !.sequence = seq, !.expires = t]
<1>1. l.action \in Actions /\ j \in Job /\ jobs \in [Actions -> Job] /\ Sound(l.action, j)
  BY LeaseType DEF QueueInv, TypeOK
<1>2. j.sub \in Submissions
  BY <1>1 DEF Heartbeat, Sound
<1>3. t \in Nat /\ seq \in Nat
  <2>1. ext \in Nat /\ j.sub.expires \in Nat
    BY <1>2, ConstantsOK
  <2>2. j.expires \in Nat
    BY <1>1 DEF Job
  <2>3. QED
    BY <2>1, <2>2 DEF Earlier
<1>4. jobs' = [jobs EXCEPT ![l.action] = e]
  BY <1>1 DEF Heartbeat, Job
<1> HIDE DEF t
<1>5. e \in Job
  BY <1>1, <1>3, FieldType
<1>6. Stays(j, e)
  BY <1>1 DEF Heartbeat, Job, Stays, SameRun
<1> HIDE DEF e
<1>7. QED
  BY <1>1, <1>4, <1>5, <1>6, OneMoves DEF Act

LEMMA CompleteMoves ==
  ASSUME QueueInv, NEW l \in leases, NEW now, NEW m \in Summaries, Complete(l, now, m)
  PROVE  Moved(jobs)
<1> DEFINE j == jobs[l.action]
           f == [token |-> l.token, epoch |-> l.epoch]
           e == [j EXCEPT !.status = "FINALIZING", !.completion = m.outcome, !.result = m,
                          !.receipt = TRUE, !.expires = 0, !.token = 0, !.done = f]
<1>1. l.action \in Actions /\ j \in Job /\ jobs \in [Actions -> Job]
  BY LeaseType DEF QueueInv, TypeOK
<1>2. f \in [token : Nat, epoch : 0..MaxEpoch]
  BY LeaseType DEF QueueInv
<1>3. m.outcome \in Outcomes /\ m \in Results \cup {None}
  BY ConstantsOK DEF Results
<1>4. jobs' = [jobs EXCEPT ![l.action] = e]
  BY DEF Complete
<1> HIDE DEF f
<1>5. e \in Job
  BY <1>1, <1>2, <1>3, FieldType, StatusNames, 0 \in Nat
<1>6. Receives(j, e)
  <2>1. /\ e.status = "FINALIZING" /\ e.sub = j.sub /\ e.epoch = j.epoch /\ e.runner = j.runner
        /\ e.receipt = TRUE /\ e.completion = m.outcome /\ e.reconciled = j.reconciled
    BY <1>1 DEF Job
  <2>2. j.status = "RUNNING"
    BY DEF Complete
  <2>3. QED
    BY <1>3, <2>1, <2>2 DEF Receives
<1> HIDE DEF e
<1>7. QED
  BY <1>1, <1>4, <1>5, <1>6, OneMoves DEF Act

LEMMA FinalizeMoves ==
  ASSUME QueueInv, NEW l \in leases, Finalize(l) PROVE Moved(jobs)
<1> DEFINE j == jobs[l.action]
           e == [j EXCEPT !.status = j.completion]
<1>1. l.action \in Actions /\ j \in Job /\ jobs \in [Actions -> Job] /\ Sound(l.action, j)
  BY LeaseType DEF QueueInv, TypeOK
<1>2. j.completion \in Outcomes /\ j.receipt = TRUE
  BY <1>1 DEF Finalize, MayFinalize, Sound, Job
<1>3. e \in Job
  BY <1>1, <1>2, FieldType, StatusNames
<1>4. e.status = j.completion /\ SameRun(j, e)
  BY <1>1 DEF Job, SameRun
<1>5. Settles(l.action, j, e)
  BY <1>2, <1>4 DEF Finalize, Settles, MayFinalize, CredentialTerminal
<1>6. jobs' = [jobs EXCEPT ![l.action] = e]
  BY DEF Finalize
<1> HIDE DEF e
<1>7. QED
  BY <1>1, <1>3, <1>5, <1>6, OneMoves DEF Act

LEMMA RejectMoves ==
  ASSUME QueueInv, NEW l \in leases, NEW now, NEW reason \in Reasons, Reject(l, now, reason)
  PROVE  Moved(jobs)
<1> DEFINE j == jobs[l.action]
           f == [token |-> l.token, epoch |-> l.epoch]
           e == [j EXCEPT !.status = "FAILED", !.completion = "FAILED", !.result = reason,
                          !.expires = 0, !.token = 0, !.done = f]
<1>1. l.action \in Actions /\ j \in Job /\ jobs \in [Actions -> Job]
  BY LeaseType DEF QueueInv, TypeOK
<1>2. f \in [token : Nat, epoch : 0..MaxEpoch]
  BY LeaseType DEF QueueInv
<1>3. "FAILED" \in Outcomes /\ reason \in Results \cup {None}
  BY DEF Results, Outcomes
<1>4. jobs' = [jobs EXCEPT ![l.action] = e]
  BY DEF Reject
<1> HIDE DEF f
<1>5. e \in Job
  BY <1>1, <1>2, <1>3, FieldType, StatusNames, 0 \in Nat
<1>6. Drops(j, e)
  <2>1. /\ e.status = "FAILED" /\ e.sub = j.sub /\ e.epoch = j.epoch
        /\ e.receipt = j.receipt /\ e.reconciled = j.reconciled
    BY <1>1 DEF Job
  <2>2. j.status = "LEASED"
    BY DEF Reject
  <2>3. QED
    BY <2>1, <2>2 DEF Drops
<1> HIDE DEF e
<1>7. QED
  BY <1>1, <1>4, <1>5, <1>6, OneMoves DEF Act

LEMMA NackMoves ==
  ASSUME QueueInv, NEW l \in leases, NEW now \in Nat, NEW delay \in Durations,
         Nack(l, now, delay)
  PROVE  Moved(jobs)
<1> DEFINE j == jobs[l.action]
           e == Unleased(j, now + delay)
<1>1. l.action \in Actions /\ j \in Job /\ jobs \in [Actions -> Job] /\ now + delay \in Nat
  BY LeaseType, ConstantsOK DEF QueueInv, TypeOK
<1>2. e \in Job
  BY <1>1, UnleasedType
<1>3. /\ e.status = "QUEUED" /\ e.sub = j.sub /\ e.epoch = j.epoch
      /\ e.completion = j.completion /\ e.result = j.result
      /\ e.receipt = j.receipt /\ e.reconciled = j.reconciled
  BY <1>1 DEF Unleased, Job
<1>4. Requeues(l.action, j, e)
  BY <1>3 DEF Nack, Requeues, CredentialTerminal
<1>5. jobs' = [jobs EXCEPT ![l.action] = e]
  BY DEF Nack
<1> HIDE DEF e
<1>6. QED
  BY <1>1, <1>2, <1>4, <1>5, OneMoves DEF Act

LEMMA ReconcileMoves ==
  ASSUME QueueInv, NEW a \in Actions, NEW now \in Nat, NEW heard, NEW q \in Reconciliations,
         Reconcile(a, now, heard, q)
  PROVE  Moved(AfterExpiry(now, heard))
<1> DEFINE js == AfterExpiry(now, heard)
           j == js[a]
           e == [j EXCEPT !.status = q.verdict, !.reconciled = q]
<1>1. js \in [Actions -> Job] /\ j \in Job
  BY ExpiryIsSwept DEF Swept
<1>2. /\ j.reconciled = None /\ j.status = "UNCERTAIN" /\ CredentialTerminal(a, j, FALSE, TRUE)
      /\ jobs' = [js EXCEPT ![a] = e]
  BY DEF Reconcile
<1>3. q.verdict \in Verdicts /\ q # None
  BY ConstantsOK
<1> HIDE DEF js
<1>4. e \in Job
  BY <1>1, <1>3, FieldType, StatusNames
<1>5. /\ e.status = q.verdict /\ e.sub = j.sub /\ e.epoch = j.epoch /\ e.completion = j.completion
      /\ e.result = j.result /\ e.receipt = j.receipt /\ e.reconciled = q
  BY <1>1 DEF Job
<1>6. Judged(a, j, e)
  BY <1>2, <1>3, <1>5 DEF Judged, CredentialTerminal
<1> HIDE DEF e
<1>7. Moved(js)
  BY <1>1, <1>2, <1>4, <1>6, OneMoves DEF Act
<1>8. QED
  BY <1>7 DEF js

LEMMA CancelMoves ==
  ASSUME QueueInv, NEW a \in Actions, NEW now \in Nat, NEW heard, Cancel(a, now, heard)
  PROVE  Moved(AfterExpiry(now, heard))
<1> DEFINE js == AfterExpiry(now, heard)
           j == js[a]
           stop == [j EXCEPT !.cancel = TRUE]
           drop == [j EXCEPT !.status = "CANCELLED", !.runner = None, !.token = 0, !.expires = 0]
<1>1. js \in [Actions -> Job] /\ j \in Job
  BY ExpiryIsSwept DEF Swept
<1>2. /\ j.status \in {"QUEUED", "LEASED", "RUNNING"}
      /\ jobs' = [js EXCEPT ![a] = IF j.status = "RUNNING" THEN stop ELSE drop]
  BY DEF Cancel
<1> HIDE DEF js
<1>3. stop \in Job /\ drop \in Job
  BY <1>1, FieldType, StatusNames, 0 \in Nat, None \in Runners \cup {None}
<1>4. Stays(j, stop)
  BY <1>1, <1>2 DEF Job, Stays, SameRun
<1>5. j.status # "RUNNING" => Drops(j, drop)
  BY <1>1, <1>2 DEF Job, Drops
<1> HIDE DEF stop, drop
<1>6. Moved(js)
  BY <1>1, <1>2, <1>3, <1>4, <1>5, OneMoves DEF Act
<1>7. QED
  BY <1>6 DEF js

\* Every step of the queue sweeps and then moves.
LEMMA StepMoves ==
  ASSUME QueueInv, [Next]_vars PROVE \E js : Swept(js) /\ Moved(js)
<1>a. Readings \subseteq Nat /\ jobs \in [Actions -> Job] /\ Swept(jobs)
  BY ReadingsType, UnsweptIsSwept DEF QueueInv, TypeOK
<1>1. ASSUME NEW s \in Submissions, Submit(s) PROVE Moved(jobs)
  BY <1>1, SubmitMoves
<1>2. ASSUME NEW now \in Readings, NEW l \in leases, RunnerNext(l, now) PROVE Moved(jobs)
  BY <1>2, <1>a, StartMoves, HeartbeatMoves, CompleteMoves, RejectMoves, NackMoves DEF RunnerNext
<1>3. ASSUME NEW now \in Readings, NEW heard \in SUBSET Actions, SweepingNext(now, heard)
      PROVE Swept(AfterExpiry(now, heard)) /\ Moved(AfterExpiry(now, heard))
  <2>1. Swept(AfterExpiry(now, heard))
    BY <1>a, ExpiryIsSwept
  <2>2. CASE SweepExpired(now, heard)
    BY <2>1, <2>2, NoneMoves DEF SweepExpired, Swept
  <2>3. QED
    BY <1>3, <1>a, <2>1, <2>2, ClaimMoves, ReconcileMoves, CancelMoves DEF SweepingNext
<1>4. ASSUME NEW l \in leases, Finalize(l) PROVE Moved(jobs)
  BY <1>4, FinalizeMoves
<1>5. ASSUME NEW l \in leases, NEW m \in Summaries, ReplayComplete(l, m) PROVE Moved(jobs)
  BY <1>5, <1>a, NoneMoves DEF ReplayComplete
<1>6. CASE Tick
  BY <1>6, <1>a, NoneMoves DEF Tick
<1>7. ASSUME NEW a \in Actions, NEW ep \in 1..MaxEpoch, NEW g \in Gate, GateMoves(a, ep, g)
      PROVE Moved(jobs)
  BY <1>7, <1>a, NoneMoves DEF GateMoves
<1>8. CASE UNCHANGED vars
  BY <1>8, <1>a, NoneMoves DEF vars
<1>9. QED
  BY <1>a, <1>1, <1>2, <1>3, <1>4, <1>5, <1>6, <1>7, <1>8 DEF Next, QueueNext

LEMMA MovedIsMove ==
  ASSUME NEW js \in [Actions -> Job], Moved(js), NEW c \in Actions
  PROVE  jobs'[c] \in Job /\ Move(c, js[c], jobs'[c])
<1>1. CASE \A d \in Actions : Act(d, js[d], jobs'[d])
  BY <1>1 DEF Moved, Move
<1>2. ASSUME NEW a \in Actions, NEW e \in Job, Granted(js, a, e), jobs' = [js EXCEPT ![a] = e]
      PROVE Move(c, js[c], jobs'[c])
  <2>1. CASE c = a
    BY <1>2, <2>1 DEF Granted, Move
  <2>2. CASE c # a
    BY <1>2, <2>2 DEF Move, Act, Stays, SameRun
  <2>3. QED
    BY <2>1, <2>2
<1>3. QED
  BY <1>1, <1>2 DEF Moved

-----------------------------------------------------------------------------
(* The invariant is inductive *)

LEMMA InitInv == Init => QueueInv
<1> SUFFICES ASSUME Init PROVE QueueInv
  OBVIOUS
<1>1. TypeOK
  BY BlankType DEF Init, TypeOK, Gate
<1>2. ASSUME NEW a \in Actions PROVE Sound(a, jobs[a])
  BY DEF Init, Sound, Blank
<1>3. StartedOnce
  BY DEF Init, StartedOnce
<1>4. QED
  BY <1>1, <1>2, <1>3 DEF QueueInv

\* Records stay sound as far as the leases started and the results acknowledged
\* before the step go.
LEMMA RecordsStaySound ==
  ASSUME QueueInv, [Next]_vars, NEW c \in Actions
  PROVE  jobs'[c] \in Job /\ Sound(c, jobs'[c])
<1>1. PICK js : Swept(js) /\ Moved(js)
  BY StepMoves
<1>2. js \in [Actions -> Job] /\ js[c] \in Job /\ Sound(c, js[c])
  BY <1>1, SweptSound DEF Swept
<1>3. jobs'[c] \in Job /\ Move(c, js[c], jobs'[c])
  BY <1>1, <1>2, MovedIsMove
<1>4. QED
  BY <1>2, <1>3, MoveSound

\* What a step does to the rest of the state.
LEMMA RestStaysTyped ==
  ASSUME QueueInv, [Next]_vars
  PROVE  /\ order' \in Seq(Actions) /\ clock' \in Nat \ {0} /\ nextToken' \in Nat \ {0}
         /\ cleanup' \in [Actions -> [1..MaxEpoch -> Gate]] /\ leases' \subseteq Lease
<1> USE DEF QueueInv, TypeOK
<1>a. Readings \subseteq Nat
  BY ReadingsType
<1>1. ASSUME NEW s \in Submissions, Submit(s)
      PROVE order' \in Seq(Actions) /\ UNCHANGED <<clock, nextToken, cleanup, leases>>
  BY <1>1, ConstantsOK DEF Submit
<1>2. ASSUME NEW now \in Readings, NEW l \in leases, RunnerNext(l, now)
      PROVE UNCHANGED <<order, clock, nextToken, cleanup, leases>>
  BY <1>2 DEF RunnerNext, Start, Heartbeat, Complete, Reject, Nack
<1>3. ASSUME NEW now \in Readings, NEW heard, NEW c \in Scopes, NEW dur \in Durations,
             Claim(c, now, heard, dur)
      PROVE /\ leases' \subseteq Lease /\ nextToken' \in Nat \ {0}
            /\ UNCHANGED <<order, clock, cleanup>>
  <2>1. PICK a \in Actions, e \in Job :
          /\ e.epoch \in 1..MaxEpoch
          /\ leases' = leases \cup {[action |-> a, runner |-> c.runner, epoch |-> e.epoch,
                                     token |-> nextToken]}
    BY <1>3, <1>a, ClaimEffect
  <2>2. c.runner \in Runners
    BY ConstantsOK
  <2>3. leases' \subseteq Lease
    BY <2>1, <2>2 DEF Lease
  <2>4. QED
    BY <1>3, <2>3 DEF Claim
<1>4. ASSUME NEW now \in Readings, NEW heard,
             \/ \E a \in Actions, q \in Reconciliations : Reconcile(a, now, heard, q)
             \/ \E a \in Actions : Cancel(a, now, heard)
             \/ SweepExpired(now, heard)
      PROVE UNCHANGED <<order, clock, nextToken, cleanup, leases>>
  BY <1>4 DEF Reconcile, Cancel, SweepExpired
<1>5. ASSUME NEW l \in leases, Finalize(l) \/ \E m \in Summaries : ReplayComplete(l, m)
      PROVE UNCHANGED <<order, clock, nextToken, cleanup, leases>>
  BY <1>5 DEF Finalize, ReplayComplete
<1>6. CASE Tick
  BY <1>6 DEF Tick
<1>7. ASSUME NEW a \in Actions, NEW ep \in 1..MaxEpoch, NEW g \in Gate, GateMoves(a, ep, g)
      PROVE /\ cleanup' \in [Actions -> [1..MaxEpoch -> Gate]]
            /\ UNCHANGED <<order, clock, nextToken, leases>>
  BY <1>7 DEF GateMoves
<1>8. CASE UNCHANGED vars
  BY <1>8 DEF vars
<1>9. QED
  BY <1>1, <1>2, <1>3, <1>4, <1>5, <1>6, <1>7, <1>8 DEF Next, QueueNext, SweepingNext

\* Only Start, Complete and the replay of a completion add to the histories.
LEMMA HistorySteps ==
  ASSUME [Next]_vars
  PROVE  \/ starts' = starts /\ acks' = acks
         \/ \E l \in leases, now \in Readings : Start(l, now)
         \/ \E l \in leases, now \in Readings, m \in Summaries : Complete(l, now, m)
         \/ \E l \in leases, m \in Summaries : ReplayComplete(l, m)
<1>1. ASSUME NEW s \in Submissions, Submit(s) PROVE starts' = starts /\ acks' = acks
  BY <1>1 DEF Submit
<1>2. ASSUME NEW now \in Readings, NEW l \in leases,
             \/ \E seq \in 1..MaxSequence, ext \in Durations : Heartbeat(l, seq, now, ext)
             \/ \E reason \in Reasons : Reject(l, now, reason)
             \/ \E delay \in Durations : Nack(l, now, delay)
      PROVE starts' = starts /\ acks' = acks
  BY <1>2 DEF Heartbeat, Reject, Nack
<1>3. ASSUME NEW now \in Readings, NEW heard \in SUBSET Actions, SweepingNext(now, heard)
      PROVE starts' = starts /\ acks' = acks
  BY <1>3 DEF SweepingNext, Claim, Reconcile, Cancel, SweepExpired
<1>4. ASSUME NEW l \in leases, Finalize(l) PROVE starts' = starts /\ acks' = acks
  BY <1>4 DEF Finalize
<1>5. CASE Tick
  BY <1>5 DEF Tick
<1>6. ASSUME NEW a \in Actions, NEW ep \in 1..MaxEpoch, NEW g \in Gate, GateMoves(a, ep, g)
      PROVE starts' = starts /\ acks' = acks
  BY <1>6 DEF GateMoves
<1>7. CASE UNCHANGED vars
  BY <1>7 DEF vars
<1>8. QED
  BY <1>1, <1>2, <1>3, <1>4, <1>5, <1>6, <1>7 DEF Next, QueueNext, RunnerNext

LEMMA NextInv == QueueInv /\ [Next]_vars => QueueInv'
<1> SUFFICES ASSUME QueueInv, [Next]_vars PROVE QueueInv'
  OBVIOUS
<1>1. \A c \in Actions : jobs'[c] \in Job /\ Sound(c, jobs'[c])
  BY RecordsStaySound
<1>2. jobs' \in [Actions -> Job]
  BY StepMoves DEF Moved
<1>3. CASE starts' = starts /\ acks' = acks
  <2>1. TypeOK'
    BY <1>2, <1>3, RestStaysTyped DEF QueueInv, TypeOK
  <2>2. \A c \in Actions : Sound(c, jobs[c])'
    BY <1>1, <1>3 DEF Sound
  <2>3. StartedOnce'
    BY <1>3 DEF QueueInv, StartedOnce
  <2>4. QED
    BY <2>1, <2>2, <2>3 DEF QueueInv
<1>4. ASSUME NEW l \in leases, NEW now \in Readings, Start(l, now) PROVE QueueInv'
  <2> DEFINE j == jobs[l.action]
  <2>1. /\ l \in Lease /\ l.action \in Actions /\ j \in Job /\ Sound(l.action, j)
    BY LeaseType DEF QueueInv
  <2>2. /\ SameFence(j, l) /\ j.status \in {"LEASED", "RUNNING"}
        /\ jobs' = [jobs EXCEPT ![l.action] = [j EXCEPT !.status = "RUNNING"]]
        /\ starts' = starts \cup {l} /\ acks' = acks
    BY <1>4 DEF Start, CurrentFence
  <2>3. TypeOK'
    BY <1>2, <2>1, <2>2, RestStaysTyped DEF QueueInv, TypeOK
  <2>4. jobs'[l.action].status = "RUNNING" /\ SameFence(jobs'[l.action], l)
    BY <2>1, <2>2 DEF QueueInv, TypeOK, Job, SameFence
  <2>5. ASSUME NEW c \in Actions PROVE Sound(c, jobs[c])'
    BY <1>1, <2>2, <2>4 DEF Sound, SameFence
  <2>6. ASSUME NEW k \in starts, k.action = l.action PROVE k = l
    <3>1. SameFence(j, k) /\ k \in Lease
      BY <2>1, <2>2, <2>6 DEF Sound, QueueInv, TypeOK
    <3>2. \A x \in Lease :
            x = [action |-> x.action, runner |-> x.runner, epoch |-> x.epoch, token |-> x.token]
      BY DEF Lease
    <3>3. k.runner = l.runner /\ k.epoch = l.epoch /\ k.token = l.token
      BY <2>2, <3>1 DEF SameFence
    <3>4. QED
      BY <2>1, <2>6, <3>1, <3>2, <3>3
  <2>7. StartedOnce'
    BY <2>2, <2>6 DEF StartedOnce, QueueInv
  <2>8. QED
    BY <2>3, <2>5, <2>7 DEF QueueInv
<1>5. ASSUME NEW l \in leases, NEW m \in Summaries,
             \/ \E now \in Readings : Complete(l, now, m)
             \/ ReplayComplete(l, m)
      PROVE QueueInv'
  <2> DEFINE j == jobs[l.action]
             k == jobs'[l.action]
             new == Ack(l, m)
  <2>1. l.action \in Actions /\ l.epoch \in 1..MaxEpoch /\ j \in Job
    BY LeaseType DEF QueueInv
  <2>2. starts' = starts /\ acks' = acks \cup {new}
    BY <1>5 DEF Complete, ReplayComplete
  <2>3. k.receipt /\ k.result = m /\ k.completion = m.outcome
    <3>1. ASSUME NEW now \in Readings, Complete(l, now, m) PROVE <2>3
      <4>1. k = [j EXCEPT !.status = "FINALIZING", !.completion = m.outcome, !.result = m,
                          !.receipt = TRUE, !.expires = 0, !.token = 0,
                          !.done = [token |-> l.token, epoch |-> l.epoch]]
        BY <2>1, <3>1 DEF Complete, QueueInv, TypeOK
      <4> HIDE DEF k
      <4>2. QED
        BY <2>1, <4>1 DEF Job
    <3>2. CASE ReplayComplete(l, m)
      BY <3>2 DEF ReplayComplete
    <3>3. QED
      BY <1>5, <3>1, <3>2
  <2>4. new.action = l.action /\ new.result = m /\ new.epoch = l.epoch
    BY DEF Ack
  <2>5. new \in [action : Actions, epoch : 1..MaxEpoch, result : Summaries]
    BY <2>1 DEF Ack
  <2> HIDE DEF new
  <2>6. TypeOK'
    BY <1>2, <2>2, <2>5, RestStaysTyped DEF QueueInv, TypeOK
  <2>7. ASSUME NEW c \in Actions PROVE Sound(c, jobs[c])'
    BY <1>1, <2>2, <2>3, <2>4 DEF Sound
  <2>8. StartedOnce'
    BY <2>2 DEF QueueInv, StartedOnce
  <2>9. QED
    BY <2>6, <2>7, <2>8 DEF QueueInv
<1>6. QED
  BY <1>3, <1>4, <1>5, HistorySteps

LEMMA Inductive == Spec => []QueueInv
  BY InitInv, NextInv, PTL DEF Spec

-----------------------------------------------------------------------------
(* Theorems *)

\* The records, the order, the leases and the histories keep their shape, in
\* particular a final status is always one of the completions a runner may report.
THEOREM TypeCorrect == Spec => []TypeOK
<1>1. QueueInv => TypeOK
  BY DEF QueueInv
<1>2. QED
  BY <1>1, Inductive, PTL

\* No action is ever started under two leases (Start, under the fence of Claim).
THEOREM StartedAtMostOnce == Spec => []StartedOnce
<1>1. QueueInv => StartedOnce
  BY DEF QueueInv
<1>2. QED
  BY <1>1, Inductive, PTL

\* A result that Complete acknowledged, once or again, is the one the action ends
\* with, whoever finalizes it, unless an operator settles an uncertain one.
THEOREM AckedResultStands == Spec => []AckedResultKept
<1>1. QueueInv => AckedResultKept
  BY DEF QueueInv, AckedResultKept, Sound, TypeOK
<1>2. QED
  BY <1>1, Inductive, PTL

-----------------------------------------------------------------------------
(* Credentials end first *)

LEMMA StepCleansUp == QueueInv /\ [Next]_vars => ReleaseNeedsCleanup /\ RequeueNeedsCleanup
<1> SUFFICES ASSUME QueueInv, [Next]_vars PROVE ReleaseNeedsCleanup /\ RequeueNeedsCleanup
  OBVIOUS
<1>1. PICK js : Swept(js) /\ Moved(js)
  BY StepMoves
<1>2. ASSUME NEW c \in Actions
      PROVE /\ Sound(c, jobs[c]) /\ Sound(c, js[c])
            /\ js[c].sub = jobs[c].sub /\ js[c].epoch = jobs[c].epoch
            /\ Sweep(c, jobs[c], js[c]) /\ Move(c, js[c], jobs'[c])
  BY <1>1, SweptSound, MovedIsMove DEF Swept, QueueInv
<1>3. ASSUME NEW l \in starts, jobs[l.action].sub.pool = "WRITE",
             jobs[l.action].status \in Active, jobs'[l.action].status \notin Active
      PROVE cleanup[l.action][l.epoch] = "TERMINAL"
  <2> DEFINE c == l.action
             j == jobs[c]
             x == js[c]
             k == jobs'[c]
  <2>1. c \in Actions
    BY DEF QueueInv, TypeOK, Lease
  <2>2. l.epoch = j.epoch /\ j.status \in {"RUNNING", "FINALIZING", "UNCERTAIN"}
    BY <1>2, <1>3, <2>1 DEF Sound, Active
  <2>3. CASE x.status \notin Active
    <3>1. Settles(c, j, x) /\ j.completion \in Outcomes
      BY <1>2, <2>1, <2>2, <2>3, <1>3 DEF Sweep, Requeues, Lapses, Settles, Active, Sound
    <3>2. QED
      BY <1>3, <2>2, <2>3, <3>1 DEF Settles, ReleasesTargetLock, Outcomes, Active
  <2>4. CASE x.status \in Active
    <3>1. x.status \in {"RUNNING", "FINALIZING", "UNCERTAIN"}
      BY <1>2, <2>1, <2>2, <2>4 DEF Sweep, Requeues, Lapses, Settles, Active, Sound, Outcomes
    <3>2. Settles(c, x, k) \/ Judged(c, x, k)
      BY <1>2, <1>3, <2>1, <3>1
         DEF Move, Act, Stays, Starts, Requeues, TakesLease, Lapses, Receives, Drops, Enters, Active
    <3>3. CASE Settles(c, x, k)
      <4>1. x.completion \in Outcomes
        BY <1>2, <2>1, <3>3 DEF Settles, Sound
      <4>2. QED
        BY <1>2, <1>3, <2>1, <2>2, <3>3, <4>1 DEF Settles, ReleasesTargetLock, Outcomes, Active
    <3>4. CASE Judged(c, x, k)
      BY <1>2, <1>3, <2>1, <2>2, <3>4 DEF Judged
    <3>5. QED
      BY <3>2, <3>3, <3>4
  <2>5. QED
    BY <2>3, <2>4
<1>4. ASSUME NEW c \in Actions, jobs[c].status = "LEASED", jobs[c].sub.pool = "WRITE",
             jobs'[c].status = "QUEUED" \/ jobs'[c].epoch # jobs[c].epoch
      PROVE cleanup[c][jobs[c].epoch] # "PENDING"
  <2>1. js[c] = jobs[c] \/ Requeues(c, jobs[c], js[c])
    BY <1>2, <1>4 DEF Sweep, Lapses, Settles
  <2>2. CASE js[c] = jobs[c]
    <3>1. Requeues(c, js[c], jobs'[c])
      BY <1>2, <1>4, <2>2
         DEF Move, Act, Stays, Starts, TakesLease, Lapses, Receives, Settles, Drops, Judged,
             Enters, SameRun
    <3>2. QED
      BY <1>4, <2>2, <3>1 DEF Requeues
  <2>3. CASE Requeues(c, jobs[c], js[c])
    BY <1>4, <2>3 DEF Requeues
  <2>4. QED
    BY <2>1, <2>2, <2>3
<1>5. QED
  BY <1>3, <1>4 DEF ReleaseNeedsCleanup, RequeueNeedsCleanup

\* The statuses of an action that was started and not yet given back.
Started == {"RUNNING", "FINALIZING", "UNCERTAIN"}

\* As long as the credential of its lease is pending, a started write stays where
\* it is: no sweep, result, verdict or cancellation moves it on.
LEMMA PendingHolds ==
  ASSUME QueueInv, [Next]_vars, NEW c \in Actions, jobs[c].status \in Started,
         jobs[c].sub.pool = "WRITE", cleanup[c][jobs[c].epoch] = "PENDING"
  PROVE  jobs'[c].status \in Started /\ jobs'[c].epoch = jobs[c].epoch
<1>1. PICK js : Swept(js) /\ Moved(js)
  BY StepMoves
<1>2. /\ Sound(c, jobs[c]) /\ Sound(c, js[c])
      /\ js[c].sub = jobs[c].sub /\ js[c].epoch = jobs[c].epoch
      /\ Sweep(c, jobs[c], js[c]) /\ Move(c, js[c], jobs'[c])
  BY <1>1, SweptSound, MovedIsMove DEF Swept, QueueInv
<1>3. js[c].status \in Started
  BY <1>2 DEF Sweep, Requeues, Lapses, Settles, Sound, Started, Outcomes, ReleasesTargetLock
<1>4. CASE Settles(c, js[c], jobs'[c])
  BY <1>2, <1>3, <1>4 DEF Settles, SameRun, Sound, Started, Outcomes, ReleasesTargetLock
<1>5. CASE Judged(c, js[c], jobs'[c])
  BY <1>2, <1>5 DEF Judged
<1>6. QED
  BY <1>2, <1>3, <1>4, <1>5
     DEF Move, Act, Stays, Starts, Requeues, TakesLease, Lapses, Receives, Drops, Enters,
         SameRun, Started

\* Whatever the gate answers or fails to answer and whoever sweeps, finalizes,
\* rejects or reconciles: the target of a started write is given back only after
\* its credential is cleaned up, and a lease that ended without a run is queued
\* or leased again only when no credential of it is pending.
THEOREM CredentialsEndFirst == Spec => CleanupFirst
  BY StepCleansUp, Inductive, PTL DEF Spec, CleanupFirst

-----------------------------------------------------------------------------
(* Targets and slots *)

\* From records f to records g, nobody comes to hold a target or a slot.
Shrinks(f, g) ==
  \A c \in Actions : g[c].status \in Active =>
    f[c].status \in Active /\ g[c].sub = f[c].sub /\ g[c].runner = f[c].runner

LEMMA ActShrinks ==
  ASSUME NEW a, NEW j, NEW k, Act(a, j, k), k.status \in Active
  PROVE  j.status \in Active /\ k.sub = j.sub /\ k.runner = j.runner
  BY DEF Act, Stays, Starts, Requeues, Lapses, Receives, Settles, Drops, Judged, Enters, SameRun,
         Active, Verdicts

LEMMA SweptShrinks ==
  ASSUME NEW js, Swept(js) PROVE Shrinks(jobs, js)
<1>1. ASSUME NEW c \in Actions PROVE js[c] = jobs[c] \/ Act(c, jobs[c], js[c])
  BY <1>1 DEF Swept, Sweep, Act
<1>2. QED
  BY <1>1, ActShrinks DEF Shrinks

LEMMA MovedShrinks ==
  ASSUME NEW js, \A c \in Actions : Act(c, js[c], jobs'[c]) PROVE Shrinks(js, jobs')
  BY ActShrinks DEF Shrinks

\* TargetExclusive, of any records.
Apart(f) ==
  \A a, b \in Actions :
    a # b /\ f[a].status \in Active /\ f[b].status \in Active => f[a].sub.target # f[b].sub.target

LEMMA ShrinksApart ==
  ASSUME NEW f, NEW g, Apart(f), Shrinks(f, g) PROVE Apart(g)
  BY DEF Apart, Shrinks

LEMMA NextApart == QueueInv /\ TargetExclusive /\ [Next]_vars => TargetExclusive'
<1> SUFFICES ASSUME QueueInv, TargetExclusive, [Next]_vars PROVE Apart(jobs')
  BY DEF TargetExclusive, Apart
<1>1. PICK js : Swept(js) /\ Moved(js)
  BY StepMoves
<1>2. Apart(jobs)
  BY DEF TargetExclusive, Apart
<1>3. Apart(js)
  BY <1>1, <1>2, SweptShrinks, ShrinksApart
<1>4. CASE \A c \in Actions : Act(c, js[c], jobs'[c])
  BY <1>3, <1>4, MovedShrinks, ShrinksApart
<1>5. ASSUME NEW a \in Actions, NEW e \in Job, Granted(js, a, e), jobs' = [js EXCEPT ![a] = e]
      PROVE Apart(jobs')
  <2>1. js \in [Actions -> Job]
    BY <1>1 DEF Swept
  <2>2. jobs'[a].sub = js[a].sub /\ \A b \in Actions \ {a} : jobs'[b] = js[b]
    BY <1>5, <2>1 DEF Granted, TakesLease
  <2>3. \A b \in Actions \ {a} : js[b].status \in Active => js[b].sub.target # js[a].sub.target
    BY <1>5 DEF Granted, TargetActive
  <2>4. QED
    BY <1>3, <2>2, <2>3 DEF Apart
<1>6. QED
  BY <1>1, <1>4, <1>5 DEF Moved

\* At no time do two actions that are leased, running, finalizing or uncertain
\* have the same target (Claim under targetActiveLocked).
THEOREM TargetIsExclusive == Spec => []TargetExclusive
<1>1. Init => TargetExclusive
  BY DEF Init, TargetExclusive, Blank, Active
<1>2. QED
  BY <1>1, NextApart, Inductive, PTL DEF Spec

\* The actions that take a slot of runner r in records f.
HeldIn(f, r) == {a \in Actions : f[a].runner = r /\ f[a].status \in Active}

\* At most one more action held makes the count grow by at most one.
LEMMA FewerHeld ==
  ASSUME NEW f, NEW g, NEW r, NEW more,
         HeldIn(g, r) \subseteq HeldIn(f, r) \cup more, more = {} \/ \E x : more = {x}
  PROVE  /\ IsFiniteSet(HeldIn(g, r)) /\ Cardinality(HeldIn(g, r)) \in Nat
         /\ Cardinality(HeldIn(f, r)) \in Nat
         /\ more = {} => Cardinality(HeldIn(g, r)) <= Cardinality(HeldIn(f, r))
         /\ Cardinality(HeldIn(g, r)) <= Cardinality(HeldIn(f, r)) + 1
<1>1. IsFiniteSet(HeldIn(f, r)) /\ IsFiniteSet(HeldIn(g, r))
  BY ConstantsOK, FS_Subset DEF HeldIn
<1>2. Cardinality(HeldIn(f, r)) \in Nat /\ Cardinality(HeldIn(g, r)) \in Nat
  BY <1>1, FS_CardinalityType
<1>3. CASE more = {}
  BY <1>1, <1>2, <1>3, FS_Subset
<1>4. ASSUME NEW x, more = {x} PROVE Cardinality(HeldIn(g, r)) <= Cardinality(HeldIn(f, r)) + 1
  <2> DEFINE S == HeldIn(f, r) \cup {x}
  <2>1. /\ IsFiniteSet(S) /\ Cardinality(S) \in Nat
        /\ Cardinality(S) <= Cardinality(HeldIn(f, r)) + 1
    <3>1. /\ IsFiniteSet(S)
          /\ Cardinality(S) = Cardinality(HeldIn(f, r)) \/ Cardinality(S) = Cardinality(HeldIn(f, r)) + 1
      BY <1>1, FS_AddElement
    <3>2. QED
      BY <1>2, <3>1
  <2>2. Cardinality(HeldIn(g, r)) <= Cardinality(S)
    BY <1>4, <2>1, FS_Subset
  <2> HIDE DEF S
  <2>3. QED
    BY <1>2, <2>1, <2>2
<1>5. QED
  BY <1>1, <1>2, <1>3, <1>4

\* WithinConcurrency, of any records.
Fits(f) ==
  \A r \in Runners :
    HeldIn(f, r) # {} => \E c \in Scopes : c.runner = r /\ Cardinality(HeldIn(f, r)) <= c.max

LEMMA ShrinksFits ==
  ASSUME NEW f, NEW g, Fits(f), Shrinks(f, g) PROVE Fits(g)
<1> SUFFICES ASSUME NEW r \in Runners, HeldIn(g, r) # {}
             PROVE \E c \in Scopes : c.runner = r /\ Cardinality(HeldIn(g, r)) <= c.max
  BY DEF Fits
<1>1. HeldIn(g, r) \subseteq HeldIn(f, r)
  BY DEF HeldIn, Shrinks
<1>2. PICK c \in Scopes : c.runner = r /\ Cardinality(HeldIn(f, r)) <= c.max
  BY <1>1 DEF Fits
<1>3. /\ Cardinality(HeldIn(g, r)) \in Nat /\ Cardinality(HeldIn(f, r)) \in Nat
      /\ Cardinality(HeldIn(g, r)) <= Cardinality(HeldIn(f, r))
  BY <1>1, FewerHeld
<1>4. c.max \in Nat
  BY ConstantsOK
<1>5. QED
  BY <1>2, <1>3, <1>4

LEMMA NextFits == QueueInv /\ WithinConcurrency /\ [Next]_vars => WithinConcurrency'
<1>a. WithinConcurrency <=> Fits(jobs)
  BY DEF WithinConcurrency, Held, Fits, HeldIn
<1>b. WithinConcurrency' <=> Fits(jobs')
  BY DEF WithinConcurrency, Held, Fits, HeldIn
<1> SUFFICES ASSUME QueueInv, Fits(jobs), [Next]_vars PROVE Fits(jobs')
  BY <1>a, <1>b
<1>1. PICK js : Swept(js) /\ Moved(js)
  BY StepMoves
<1>2. Fits(js)
  BY <1>1, SweptShrinks, ShrinksFits
<1>3. CASE \A c \in Actions : Act(c, js[c], jobs'[c])
  BY <1>2, <1>3, MovedShrinks, ShrinksFits
<1>4. ASSUME NEW a \in Actions, NEW e \in Job, Granted(js, a, e), jobs' = [js EXCEPT ![a] = e]
      PROVE Fits(jobs')
  <2> SUFFICES ASSUME NEW r \in Runners, HeldIn(jobs', r) # {}
               PROVE \E c \in Scopes : c.runner = r /\ Cardinality(HeldIn(jobs', r)) <= c.max
    BY DEF Fits
  <2>1. js \in [Actions -> Job]
    BY <1>1 DEF Swept
  <2>2. jobs'[a] = e /\ \A b \in Actions \ {a} : jobs'[b] = js[b]
    BY <1>4, <2>1
  <2>3. CASE r = e.runner
    <3>1. PICK c \in Scopes : c.runner = r /\ RunnerActive(js, c.runner) < c.max
      BY <1>4, <2>3 DEF Granted
    <3>2. RunnerActive(js, c.runner) = Cardinality(HeldIn(js, r))
      BY <3>1 DEF RunnerActive, HeldIn
    <3>3. HeldIn(jobs', r) \subseteq HeldIn(js, r) \cup {a}
      BY <2>2 DEF HeldIn
    <3>4. /\ Cardinality(HeldIn(jobs', r)) \in Nat /\ Cardinality(HeldIn(js, r)) \in Nat
          /\ Cardinality(HeldIn(jobs', r)) <= Cardinality(HeldIn(js, r)) + 1
      BY <3>3, FewerHeld
    <3>5. c.max \in Nat
      BY ConstantsOK
    <3>6. Cardinality(HeldIn(jobs', r)) <= c.max
      BY <3>1, <3>2, <3>4, <3>5
    <3>7. QED
      BY <3>1, <3>6
  <2>4. CASE r # e.runner
    <3>1. HeldIn(jobs', r) \subseteq HeldIn(js, r) \cup {}
      BY <2>2, <2>4 DEF HeldIn
    <3>2. PICK c \in Scopes : c.runner = r /\ Cardinality(HeldIn(js, r)) <= c.max
      BY <1>2, <3>1 DEF Fits
    <3>3. /\ Cardinality(HeldIn(jobs', r)) \in Nat /\ Cardinality(HeldIn(js, r)) \in Nat
          /\ Cardinality(HeldIn(jobs', r)) <= Cardinality(HeldIn(js, r))
      BY <3>1, FewerHeld
    <3>4. c.max \in Nat
      BY ConstantsOK
    <3>5. Cardinality(HeldIn(jobs', r)) <= c.max
      BY <3>2, <3>3, <3>4
    <3>6. QED
      BY <3>2, <3>5
  <2>5. QED
    BY <2>3, <2>4
<1>5. QED
  BY <1>1, <1>3, <1>4 DEF Moved

\* A runner never holds more actions, leased, running, finalizing or uncertain,
\* than a scope it claims with allows (runnerActiveCountLocked in Claim).
THEOREM ConcurrencyIsBounded == Spec => []WithinConcurrency
<1>1. Init => WithinConcurrency
  <2> SUFFICES ASSUME Init, NEW r \in Runners PROVE Held(r) = {}
    BY DEF WithinConcurrency
  <2>1. \A a \in Actions : jobs[a].status = "ABSENT"
    BY DEF Init, Blank
  <2>2. QED
    BY <2>1 DEF Held, Active
<1>2. QED
  BY <1>1, NextFits, Inductive, PTL DEF Spec

-----------------------------------------------------------------------------
(* The queue implements the abstract queue *)

\* The ways of a job, seen through its status, and its submission.
Arrow(j, k) ==
  /\ j.status # "ABSENT" => k.sub = j.sub
  /\ \/ k.status = j.status
     \/ <<j.status, k.status>> \in
          {<<"ABSENT", "QUEUED">>, <<"QUEUED", "LEASED">>, <<"LEASED", "QUEUED">>,
           <<"LEASED", "RUNNING">>}
     \/ j.status \in {"QUEUED", "LEASED"} /\ k.status \in {"CANCELLED", "FAILED"}
     \/ j.status \in {"RUNNING", "FINALIZING", "UNCERTAIN"}
        /\ k.status \in {"FINALIZING", "UNCERTAIN", "SUCCEEDED", "FAILED"}

LEMMA MoveArrow ==
  ASSUME NEW a, NEW j, NEW k, Sound(a, j), Move(a, j, k) PROVE Arrow(j, k)
  BY DEF Move, Act, Stays, Starts, Requeues, TakesLease, Lapses, Receives, Settles, Drops, Judged,
         Enters, SameRun, Sound, Outcomes, Verdicts, Arrow

\* Every step moves every job along these ways, the sweep and the move together.
LEMMA StepArrow ==
  ASSUME QueueInv, [Next]_vars, NEW c \in Actions PROVE Arrow(jobs[c], jobs'[c])
<1>1. PICK js : Swept(js) /\ Moved(js)
  BY StepMoves
<1> DEFINE j == jobs[c]
           x == js[c]
           k == jobs'[c]
<1>2. Sound(c, j) /\ Sound(c, x) /\ x.sub = j.sub /\ Sweep(c, j, x) /\ Move(c, x, k)
  BY <1>1, SweptSound, MovedIsMove DEF Swept, QueueInv
<1>3. Arrow(x, k)
  BY <1>2, MoveArrow
<1>4. \/ x = j
      \/ j.status = "LEASED" /\ x.status = "QUEUED"
      \/ j.status \in {"RUNNING", "FINALIZING"} /\ x.status \in {"UNCERTAIN", "SUCCEEDED", "FAILED"}
  BY <1>2 DEF Sweep, Requeues, Lapses, Settles, Sound, Outcomes
<1>5. QED
  BY <1>2, <1>3, <1>4 DEF Arrow

\* The refinement mapping takes these ways to moves of the abstract queue.
LEMMA ArrowMaps ==
  ASSUME NEW j \in Job, NEW k \in Job, Arrow(j, k)
  PROVE  /\ \/ PhaseOf(k.status) = PhaseOf(j.status)
            \/ <<PhaseOf(j.status), PhaseOf(k.status)>> \in Abstract!Moves
         /\ PhaseOf(j.status) # "absent" => k.sub = j.sub
         /\ PhaseOf(j.status) \in Abstract!Phases
         /\ PhaseOf(j.status) \in Abstract!Holding <=> j.status \in Active
<1>1. j.status \in Statuses /\ k.status \in Statuses
  BY DEF Job
<1>2. \A st \in Statuses :
        /\ PhaseOf(st) \in Abstract!Phases
        /\ PhaseOf(st) \in Abstract!Holding <=> st \in Active
        /\ PhaseOf(st) = "absent" <=> st = "ABSENT"
  BY DEF PhaseOf, Statuses, Active, Terminal, Abstract!Phases, Abstract!Holding
<1>3. \/ PhaseOf(k.status) = PhaseOf(j.status)
      \/ <<PhaseOf(j.status), PhaseOf(k.status)>> \in Abstract!Moves
  BY <1>1 DEF Arrow, PhaseOf, Abstract!Moves, Statuses, Active, Terminal
<1>4. QED
  BY <1>1, <1>2, <1>3 DEF Arrow

LEMMA StepRefines ==
  QueueInv /\ QueueInv' /\ TargetExclusive' /\ [Next]_vars => [Abstract!Step]_(Abstract!vars)
<1> SUFFICES ASSUME QueueInv, QueueInv', TargetExclusive', [Next]_vars PROVE Abstract!Step
  OBVIOUS
<1> DEFINE ph == [a \in Actions |-> PhaseOf(jobs[a].status)]
           tg == [a \in Actions |-> IF jobs[a].sub = None THEN None ELSE jobs[a].sub.target]
<1>1. ASSUME NEW a \in Actions
      PROVE /\ jobs[a] \in Job /\ jobs'[a] \in Job
            /\ Arrow(jobs[a], jobs'[a]) /\ Arrow(jobs'[a], jobs'[a])
            /\ jobs'[a].status # "ABSENT" => jobs'[a].sub \in Submissions
            /\ jobs'[a].sub \in Submissions \cup {None}
  <2>1. jobs[a] \in Job /\ jobs'[a] \in Job /\ Sound(a, jobs[a]) /\ Sound(a, jobs[a])'
    BY DEF QueueInv, TypeOK
  <2>2. Arrow(jobs[a], jobs'[a]) /\ Arrow(jobs'[a], jobs'[a])
    BY <2>1, StepArrow DEF Arrow
  <2>3. jobs'[a].status # "ABSENT" => jobs'[a].sub \in Submissions
    BY <2>1 DEF Sound
  <2>4. QED
    BY <2>1, <2>2, <2>3 DEF Job
<1>2. \A s \in Submissions : s.target \in Targets /\ s # None
  BY ConstantsOK
<1>3. ph' \in [Actions -> Abstract!Phases] /\ tg' \in [Actions -> Targets \cup {None}]
  BY <1>1, <1>2, ArrowMaps
<1>4. ASSUME NEW a \in Actions
      PROVE /\ ph'[a] = ph[a] \/ <<ph[a], ph'[a]>> \in Abstract!Moves
            /\ ph[a] # "absent" => tg'[a] = tg[a]
  BY <1>1, ArrowMaps
<1>5. ASSUME NEW a \in Actions, ph'[a] \in Abstract!Holding,
             NEW b \in Actions \ {a}, ph'[b] \in Abstract!Holding
      PROVE tg'[b] # tg'[a]
  <2>1. jobs'[a].status \in Active /\ jobs'[b].status \in Active
    BY <1>1, <1>5, ArrowMaps
  <2>2. jobs'[a].sub # None /\ jobs'[b].sub # None
    BY <1>1, <1>2, <2>1 DEF Active
  <2>3. jobs'[a].sub.target # jobs'[b].sub.target
    BY <2>1 DEF TargetExclusive
  <2>4. QED
    BY <2>2, <2>3
<1>6. QED
  BY <1>3, <1>4, <1>5 DEF Abstract!Step, Abstract!Alone

\* Every behaviour of the queue, with its receipts, finalization, sweeps, late
\* calls and reconciliations, is one of the abstract queue, for every set of
\* actions, targets and runners.
THEOREM Refines == Spec => ImplementsExclusiveRun
<1>1. Init => Abstract!Init
  BY DEF Init, Abstract!Init, Blank, PhaseOf
<1>2. QED
  BY <1>1, StepRefines, Inductive, TargetIsExclusive, PTL
     DEF Spec, ImplementsExclusiveRun, Abstract!Spec
=============================================================================
