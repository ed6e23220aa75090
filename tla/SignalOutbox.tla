---------------------------- MODULE SignalOutbox ----------------------------
(* From an alert to a Temporal workflow: the webhook records a signal and its outbox event in
   one transaction, and dispatchers claim events, start the workflow of each and acknowledge
   or reschedule it.  What the workflow then does is Investigation. *)
EXTENDS Values, Naturals, Sequences, FiniteSets, SequencesExt, FiniteSetTheorems, TLAPS

CONSTANTS Alerts,         \* what a provider may send
          EventOf, HashOf,  \* the event an alert reports, and the hash of its contents
          Batches,        \* the payloads it sends them in
          MaxDeliveries,  \* bound on payloads
          LastManifest,   \* bound on roll-outs of the control plane
          MaxFaults,      \* bound on failed calls, stops and claims outlived
          Dispatchers, BatchSize

ASSUME OutboxAssumption ==
  /\ MaxFaults \in Nat /\ {MaxDeliveries, BatchSize, LastManifest} \subseteq Nat \ {0}
  /\ IsFiniteSet(Alerts) /\ None \notin Alerts \cup Dispatchers
  /\ \A batch \in Batches : batch \in Seq(Alerts)

VARIABLES
  inbox, deliveries,  \* the alerts of the current payload still to record
  signal,             \* event -> the alert recorded for it
  outbox,             \* event -> its outbox row
  manifest,           \* the manifest starters use
  disp,               \* dispatcher -> its claimed batch
  started,            \* event -> the manifest of the Temporal workflow of that ID
  faults

outboxVars == <<inbox, deliveries, signal, outbox, manifest, disp, started, faults>>

Events == {EventOf[a] : a \in Alerts}

\* holder: the dispatcher whose claim has not expired.  ready: available_at has passed.
OutboxRow == [holder : Dispatchers \cup {None}, ready : BOOLEAN, delivered : BOOLEAN]

Batch == [events : Seq(Events), step : {"start", "ack", "retry"}]

OutboxTypeOK ==
  /\ inbox \in Seq(Alerts) /\ deliveries \in 0..MaxDeliveries
  /\ signal \in [Events -> Alerts \cup {None}]
  /\ outbox \in [Events -> OutboxRow]
  /\ manifest \in 1..LastManifest
  /\ disp \in [Dispatchers -> Batch]
  /\ started \in [Events -> 0..LastManifest]
  /\ faults \in 0..MaxFaults

Resting == [events |-> <<>>, step |-> "start"]

OutboxInit ==
  /\ inbox = <<>> /\ deliveries = 0
  /\ signal = [e \in Events |-> None]
  /\ outbox = [e \in Events |-> [holder |-> None, ready |-> TRUE, delivered |-> FALSE]]
  /\ manifest = 1
  /\ disp = [d \in Dispatchers |-> Resting]
  /\ started = [e \in Events |-> 0]
  /\ faults = 0

Fault == faults < MaxFaults /\ faults' = faults + 1

-----------------------------------------------------------------------------
(* The webhook and the signal store. *)

\* A provider sends a payload, again or for the first time.
Ingest(batch) ==
  /\ inbox = <<>> /\ deliveries < MaxDeliveries
  /\ inbox' = batch /\ deliveries' = deliveries + 1
  /\ UNCHANGED <<signal, outbox, manifest, disp, started, faults>>

\* One transaction inserts the signal and its event, or finds the event recorded.
CreateSignal ==
  LET a == Head(inbox)
      e == EventOf[a]
      stored == signal[e]
  IN /\ inbox # <<>>
     /\ IF stored = None
        THEN signal' = [signal EXCEPT ![e] = a] /\ inbox' = Tail(inbox)
        ELSE /\ UNCHANGED signal
             /\ inbox' = IF HashOf[stored] = HashOf[a] THEN Tail(inbox) ELSE <<>>
     /\ UNCHANGED <<deliveries, outbox, manifest, disp, started, faults>>

\* The transaction or the request fails: the rest of the payload is not recorded.
IngestFails ==
  /\ inbox # <<>> /\ inbox' = <<>> /\ Fault
  /\ UNCHANGED <<deliveries, signal, outbox, manifest, disp, started>>

-----------------------------------------------------------------------------
(* The outbox and its dispatchers. *)

dispatchIdle == <<inbox, deliveries, signal, manifest>>

Deliverable(e) ==
  signal[e] # None /\ ~outbox[e].delivered /\ outbox[e].ready /\ outbox[e].holder = None

\* As many as the batch holds; the order in which they are returned is not said.
ClaimOutbox(d) ==
  /\ disp[d].events = <<>>
  /\ \E E \in SUBSET {e \in Events : Deliverable(e)} :
       /\ E # {} /\ Cardinality(E) <= BatchSize
       /\ Cardinality(E) = BatchSize \/ \A e \in Events \ E : ~Deliverable(e)
       /\ \E order \in SetToSeqs(E) : disp' = [disp EXCEPT ![d] = [events |-> order, step |-> "start"]]
       /\ outbox' = [e \in Events |-> IF e \in E THEN [outbox[e] EXCEPT !.holder = d] ELSE outbox[e]]
  /\ UNCHANGED <<dispatchIdle, started, faults>>

\* A claim expires, and its token acknowledges nothing any more: of a batch that was given
\* up, or of one that takes too long.
ClaimExpires(e) ==
  LET d == outbox[e].holder
  IN /\ d # None
     /\ IF e \in Range(disp[d].events) THEN Fault ELSE UNCHANGED faults
     /\ outbox' = [outbox EXCEPT ![e].holder = None]
     /\ UNCHANGED <<dispatchIdle, disp, started>>

\* The workflow that exists is the one this starter would have started, and it runs, completed
\* or failed: nobody here terminates or cancels one.
proveStarted(found) == found = manifest

Then(d, step) == disp' = [disp EXCEPT ![d].step = step]

AcksFailedStart(d) ==
  LET e == Head(disp[d].events)
      executed == [started EXCEPT ![e] = IF @ = 0 THEN manifest ELSE @]
  IN /\ disp[d].events # <<>> /\ disp[d].step = "start"
     /\ \/ /\ started' \in {started, executed}
           /\ Fault
        \/ started' = executed /\ UNCHANGED faults
     /\ Then(d, "ack")
     /\ UNCHANGED <<dispatchIdle, outbox>>

\* The ID is the event's and duplicates are rejected.  Temporal may fail before or after it
\* started the workflow, and the proof may fail.
Start(d) ==
  LET e == Head(disp[d].events)
      executed == [started EXCEPT ![e] = IF @ = 0 THEN manifest ELSE @]
  IN /\ disp[d].events # <<>> /\ disp[d].step = "start"
     /\ \/ /\ started' \in {started, executed}
           /\ Fault /\ Then(d, "retry")
        \/ /\ started' = executed
           /\ Then(d, IF proveStarted(executed[e]) THEN "ack" ELSE "retry")
           /\ UNCHANGED faults
     /\ UNCHANGED <<dispatchIdle, outbox>>

\* The next event of the batch, or the end of it when the answer was lost.
NextEvent(d) ==
  \/ /\ disp' = [disp EXCEPT ![d] = [events |-> Tail(@.events), step |-> "start"]]
     /\ UNCHANGED faults
  \/ disp' = [disp EXCEPT ![d] = Resting] /\ Fault

\* ErrStaleClaim ends the batch.
SettleRow(d, row) ==
  LET e == Head(disp[d].events)
  IN /\ IF outbox[e].holder = d
        THEN outbox' = [outbox EXCEPT ![e] = row] /\ NextEvent(d)
        ELSE disp' = [disp EXCEPT ![d] = Resting] /\ UNCHANGED <<outbox, faults>>
     /\ UNCHANGED <<dispatchIdle, started>>

AckOutbox(d) ==
  /\ disp[d].events # <<>> /\ disp[d].step = "ack"
  /\ SettleRow(d, [holder |-> None, ready |-> TRUE, delivered |-> TRUE])

RetryOutbox(d) ==
  /\ disp[d].events # <<>> /\ disp[d].step = "retry"
  /\ SettleRow(d, [holder |-> None, ready |-> FALSE, delivered |-> FALSE])

\* The context ends, the process does, or the database.
DispatcherStops(d) ==
  /\ disp[d].events # <<>> /\ Fault
  /\ disp' = [disp EXCEPT ![d] = Resting]
  /\ UNCHANGED <<dispatchIdle, outbox, started>>

BacksOffForever(e) == ~outbox[e].ready /\ UNCHANGED outboxVars
backoff(e) ==
  /\ ~outbox[e].ready
  /\ outbox' = [outbox EXCEPT ![e].ready = TRUE]
  /\ UNCHANGED <<dispatchIdle, disp, started, faults>>

\* The control plane is rolled out with the next manifest; dispatchers start anew.
Rollout ==
  /\ manifest < LastManifest
  /\ manifest' = manifest + 1
  /\ disp' = [d \in Dispatchers |-> Resting]
  /\ UNCHANGED <<inbox, deliveries, signal, outbox, started, faults>>

-----------------------------------------------------------------------------
DispatcherStep(d) ==
  ClaimOutbox(d) \/ Start(d) \/ AckOutbox(d) \/ RetryOutbox(d)

OutboxNext ==
  \/ \E batch \in Batches : Ingest(batch)
  \/ CreateSignal \/ IngestFails \/ Rollout
  \/ \E d \in Dispatchers : DispatcherStep(d) \/ DispatcherStops(d)
  \/ \E e \in Events : ClaimExpires(e) \/ backoff(e)

\* Dispatchers poll and finish their batches, claims and back-offs are finite.
OutboxSpec ==
  /\ OutboxInit /\ [][OutboxNext]_outboxVars
  /\ \A d \in Dispatchers : WF_outboxVars(DispatcherStep(d))
  /\ \A e \in Events : WF_outboxVars(ClaimExpires(e)) /\ WF_outboxVars(backoff(e))

-----------------------------------------------------------------------------
\* An event acknowledged by a dispatcher has a workflow, whatever starts failed, claims
\* expired and batches were cut short on the way, and only recorded signals have one.
AcknowledgedIsStarted ==
  \A e \in Events :
    (outbox[e].delivered => started[e] # 0) /\ (started[e] # 0 => signal[e] # None)

\* An event nobody acknowledged yet.  A roll-out between its start and its acknowledgement
\* makes the starter refuse the workflow it finds, for good: that one is given up here.
Undelivered ==
  \E e \in Events :
    signal[e] # None /\ ~outbox[e].delivered /\ started[e] \notin 1..(manifest - 1)

-----------------------------------------------------------------------------
(* The proof that what is acknowledged was started. *)

\* A dispatcher is about to acknowledge only what has a workflow, and has claimed only
\* recorded events.
BatchesAreReal ==
  \A d \in Dispatchers :
    /\ disp[d].events # <<>> /\ disp[d].step = "ack" => started[Head(disp[d].events)] # 0
    /\ \A i \in 1..Len(disp[d].events) : signal[disp[d].events[i]] # None

OutboxInv == OutboxTypeOK /\ AcknowledgedIsStarted /\ BatchesAreReal

(* The sequences of a finite set of events are sequences of events of that set. *)
LEMMA ClaimedInOrder ==
  ASSUME NEW E \in SUBSET Events, NEW order \in SetToSeqs(E)
  PROVE  order \in Seq(Events) /\ \A i \in 1..Len(order) : order[i] \in E
<1>1. IsFiniteSet(Events)
  <2>1. [a \in Alerts |-> EventOf[a]] \in Surjection(Alerts, Events)
    BY DEF Surjection, Events
  <2> QED  BY <2>1, OutboxAssumption, FS_Surjection
<1>2. Cardinality(E) \in Nat
  BY <1>1, FS_Subset, FS_CardinalityType
<1>3. order \in [1..Cardinality(E) -> E]
  BY DEF SetToSeqs
<1> QED  BY <1>2, <1>3

(* A step of a dispatcher that leaves the signals, and that only adds workflows. *)
LEMMA BatchesStayReal ==
  ASSUME OutboxInv, UNCHANGED signal, NEW d \in Dispatchers, NEW batch \in Batch,
         disp' = [disp EXCEPT ![d] = batch],
         \A e \in Events : started[e] # 0 => started'[e] # 0,
         batch.events # <<>> /\ batch.step = "ack" => started'[Head(batch.events)] # 0,
         \A i \in 1..Len(batch.events) : signal[batch.events[i]] # None
  PROVE  BatchesAreReal'
<1>1. disp \in [Dispatchers -> Batch]
  BY DEF OutboxInv, OutboxTypeOK
<1> SUFFICES ASSUME NEW c \in Dispatchers
             PROVE  /\ disp'[c].events # <<>> /\ disp'[c].step = "ack" => started'[Head(disp'[c].events)] # 0
                    /\ \A i \in 1..Len(disp'[c].events) : signal'[disp'[c].events[i]] # None
  BY DEF BatchesAreReal
<1>2. CASE c = d
  BY <1>1, <1>2
<1>3. CASE c # d
  <2>1. disp'[c] = disp[c] /\ disp[c].events \in Seq(Events)
    BY <1>1, <1>3 DEF Batch
  <2>2. disp[c].events # <<>> => Head(disp[c].events) \in Events
    BY <2>1
  <2> QED  BY <2>1, <2>2 DEF OutboxInv, BatchesAreReal
<1> QED  BY <1>2, <1>3

(* What a dispatcher does next with its batch is a batch of recorded events. *)
LEMMA RestOfBatch ==
  ASSUME OutboxInv, NEW d \in Dispatchers, disp[d].events # <<>>
  PROVE  /\ Resting \in Batch
         /\ [events |-> Tail(disp[d].events), step |-> "start"] \in Batch
         /\ \A i \in 1..Len(Tail(disp[d].events)) : signal[Tail(disp[d].events)[i]] # None
         /\ \A step \in {"start", "ack", "retry"} : [disp[d] EXCEPT !.step = step] \in Batch
         /\ Head(disp[d].events) \in Events /\ signal[Head(disp[d].events)] # None
<1>1. disp[d] \in Batch /\ disp[d].events \in Seq(Events)
  BY DEF OutboxInv, OutboxTypeOK, Batch
<1>2. \A i \in 1..Len(disp[d].events) : signal[disp[d].events[i]] # None
  BY DEF OutboxInv, BatchesAreReal
<1>3. Resting \in Batch /\ [events |-> Tail(disp[d].events), step |-> "start"] \in Batch
  BY <1>1 DEF Resting, Batch
<1>4. \A step \in {"start", "ack", "retry"} : [disp[d] EXCEPT !.step = step] \in Batch
  BY <1>1 DEF Batch
<1>5. \A i \in 1..Len(Tail(disp[d].events)) :
        i + 1 \in 1..Len(disp[d].events) /\ Tail(disp[d].events)[i] = disp[d].events[i + 1]
  BY <1>1
<1>6. Head(disp[d].events) \in Events /\ Head(disp[d].events) = disp[d].events[1] /\ 1 \in 1..Len(disp[d].events)
  BY <1>1
<1> QED  BY <1>2, <1>3, <1>4, <1>5, <1>6

(* The invariant is inductive: only Start makes an event one to acknowledge, and it has then
   proved the workflow; a stale claim acknowledges nothing. *)
THEOREM OutboxInductive == OutboxInv /\ [OutboxNext]_outboxVars => OutboxInv'
<1> SUFFICES ASSUME OutboxInv, [OutboxNext]_outboxVars
             PROVE  OutboxInv'
  OBVIOUS
<1>0. /\ inbox \in Seq(Alerts) /\ signal \in [Events -> Alerts \cup {None}] /\ outbox \in [Events -> OutboxRow]
      /\ manifest \in 1..LastManifest /\ disp \in [Dispatchers -> Batch] /\ started \in [Events -> 0..LastManifest]
      /\ LastManifest \in Nat /\ MaxFaults \in Nat /\ faults \in 0..MaxFaults
  BY OutboxAssumption DEF OutboxInv, OutboxTypeOK
<1>1. CASE UNCHANGED outboxVars
  BY <1>1 DEF outboxVars, OutboxInv, OutboxTypeOK, AcknowledgedIsStarted, BatchesAreReal
<1>2. ASSUME NEW batch \in Batches, Ingest(batch)
      PROVE  OutboxInv'
  BY <1>2, OutboxAssumption DEF Ingest, OutboxInv, OutboxTypeOK, AcknowledgedIsStarted, BatchesAreReal
<1>3. CASE CreateSignal
  <2>0. inbox # <<>> /\ (inbox' = Tail(inbox) \/ inbox' = <<>>)
    BY <1>3 DEF CreateSignal
  <2>1. inbox # <<>> /\ Head(inbox) \in Alerts /\ inbox' \in Seq(Alerts)
    <3>1. Head(inbox) \in Alerts /\ Tail(inbox) \in Seq(Alerts)
      BY <1>0, <2>0
    <3>2. <<>> \in Seq(Alerts)
      OBVIOUS
    <3> QED  BY <2>0, <3>1, <3>2
  <2>2. EventOf[Head(inbox)] \in Events
    BY <2>1 DEF Events
  <2>3. \/ signal' = signal
        \/ signal' = [signal EXCEPT ![EventOf[Head(inbox)]] = Head(inbox)]
    BY <1>3 DEF CreateSignal
  <2>4. signal' \in [Events -> Alerts \cup {None}] /\ \A e \in Events : signal[e] # None => signal'[e] # None
    BY <1>0, <2>1, <2>2, <2>3, OutboxAssumption
  <2>5. UNCHANGED <<deliveries, outbox, manifest, disp, started, faults>>
    BY <1>3 DEF CreateSignal
  <2>6. OutboxTypeOK' /\ AcknowledgedIsStarted'
    BY <2>1, <2>4, <2>5 DEF OutboxInv, OutboxTypeOK, AcknowledgedIsStarted
  <2>7. \A d \in Dispatchers : \A i \in 1..Len(disp[d].events) : disp[d].events[i] \in Events
    BY <1>0 DEF Batch
  <2>8. BatchesAreReal'
    BY <2>4, <2>5, <2>7 DEF OutboxInv, BatchesAreReal
  <2> QED  BY <2>6, <2>8 DEF OutboxInv
<1>4. CASE IngestFails
  BY <1>0, <1>4 DEF IngestFails, Fault, OutboxInv, OutboxTypeOK, AcknowledgedIsStarted, BatchesAreReal
<1>5. CASE Rollout
  <2>1. Resting \in Batch /\ Resting.events = <<>>
    BY DEF Resting, Batch
  <2>2. OutboxTypeOK' /\ AcknowledgedIsStarted'
    BY <1>0, <1>5, <2>1 DEF Rollout, OutboxInv, OutboxTypeOK, AcknowledgedIsStarted
  <2>3. \A d \in Dispatchers : disp'[d].events = <<>>
    BY <1>5, <2>1 DEF Rollout
  <2> QED  BY <2>2, <2>3 DEF OutboxInv, BatchesAreReal
<1>6. ASSUME NEW d \in Dispatchers, ClaimOutbox(d)
      PROVE  OutboxInv'
  <2>0. PICK E \in SUBSET {e \in Events : Deliverable(e)} :
          /\ \E order \in SetToSeqs(E) : disp' = [disp EXCEPT ![d] = [events |-> order, step |-> "start"]]
          /\ outbox' = [e \in Events |-> IF e \in E THEN [outbox[e] EXCEPT !.holder = d] ELSE outbox[e]]
    BY <1>6 DEF ClaimOutbox
  <2>1. PICK order \in SetToSeqs(E) :
          /\ disp' = [disp EXCEPT ![d] = [events |-> order, step |-> "start"]]
          /\ outbox' = [e \in Events |-> IF e \in E THEN [outbox[e] EXCEPT !.holder = d] ELSE outbox[e]]
    BY <2>0
  <2>2. UNCHANGED <<inbox, deliveries, signal, manifest, started, faults>>
    BY <1>6 DEF ClaimOutbox, dispatchIdle
  <2>3. order \in Seq(Events) /\ \A i \in 1..Len(order) : signal[order[i]] # None
    BY <2>1, ClaimedInOrder DEF Deliverable
  <2>4. PICK batch : batch = [events |-> order, step |-> "start"]
    OBVIOUS
  <2>5. batch \in Batch
    BY <2>3, <2>4 DEF Batch
  <2>6. \A e \in Events : [outbox[e] EXCEPT !.holder = d] \in OutboxRow
                          /\ [outbox[e] EXCEPT !.holder = d].delivered = outbox[e].delivered
    BY <1>0 DEF OutboxRow
  <2>7. OutboxTypeOK' /\ AcknowledgedIsStarted'
    BY <1>0, <2>1, <2>2, <2>4, <2>5, <2>6 DEF OutboxInv, OutboxTypeOK, AcknowledgedIsStarted
  <2>8. BatchesAreReal'
    BY <2>1, <2>2, <2>3, <2>4, <2>5, BatchesStayReal
  <2> QED  BY <2>7, <2>8 DEF OutboxInv
<1>7. ASSUME NEW d \in Dispatchers, Start(d)
      PROVE  OutboxInv'
  <2> DEFINE e == Head(disp[d].events)
             executed == [started EXCEPT ![e] = IF started[e] = 0 THEN manifest ELSE started[e]]
  <2>1. disp[d].events # <<>> /\ UNCHANGED <<inbox, deliveries, signal, manifest, outbox>>
    BY <1>7 DEF Start, dispatchIdle
  <2>2. e \in Events /\ signal[e] # None
    BY <2>1, RestOfBatch
  <2>3. PICK step \in {"ack", "retry"} :
          /\ disp' = [disp EXCEPT ![d].step = step]
          /\ started' = started \/ started' = executed
          /\ step = "ack" => started' = executed
          /\ faults' \in 0..MaxFaults
    BY <1>0, <1>7 DEF Start, Then, Fault
  <2>4. executed \in [Events -> 0..LastManifest] /\ executed[e] # 0
        /\ \A f \in Events : f # e => executed[f] = started[f]
    BY <1>0, <2>2
  <2>5. PICK batch : batch = [disp[d] EXCEPT !.step = step]
    OBVIOUS
  <2>6. batch \in Batch /\ batch.events = disp[d].events /\ batch.step = step
        /\ disp' = [disp EXCEPT ![d] = batch]
    BY <1>0, <2>3, <2>5 DEF Batch
  <2> HIDE DEF executed
  <2>7. /\ started' \in [Events -> 0..LastManifest]
        /\ \A f \in Events : started[f] # 0 => started'[f] # 0
        /\ \A f \in Events : started'[f] # 0 => started[f] # 0 \/ f = e
    BY <1>0, <2>3, <2>4
  <2>8. OutboxTypeOK'
    BY <1>0, <2>1, <2>3, <2>6, <2>7 DEF OutboxInv, OutboxTypeOK
  <2>9. AcknowledgedIsStarted'
    BY <2>1, <2>2, <2>7 DEF OutboxInv, AcknowledgedIsStarted
  <2>10. BatchesAreReal'
    <3>1. batch.events # <<>> /\ batch.step = "ack" => started'[Head(batch.events)] # 0
      BY <2>3, <2>4, <2>6
    <3>2. \A i \in 1..Len(batch.events) : signal[batch.events[i]] # None
      BY <2>6 DEF OutboxInv, BatchesAreReal
    <3> QED  BY <2>1, <2>6, <2>7, <3>1, <3>2, BatchesStayReal
  <2> QED  BY <2>8, <2>9, <2>10 DEF OutboxInv
<1>8. ASSUME NEW d \in Dispatchers, NEW row \in OutboxRow, disp[d].events # <<>>, SettleRow(d, row),
             row.delivered => started[Head(disp[d].events)] # 0
      PROVE  OutboxInv'
  <2> DEFINE e == Head(disp[d].events)
  <2>1. UNCHANGED <<inbox, deliveries, signal, manifest, started>>
    BY <1>8 DEF SettleRow, dispatchIdle
  <2>2. e \in Events
    BY <1>8, RestOfBatch
  <2>3. outbox' = outbox \/ outbox' = [outbox EXCEPT ![e] = row]
    BY <1>8 DEF SettleRow
  <2>4. PICK batch : /\ batch \in {Resting, [events |-> Tail(disp[d].events), step |-> "start"]}
                     /\ disp' = [disp EXCEPT ![d] = batch]
    BY <1>8 DEF SettleRow, NextEvent
  <2>5. batch \in Batch /\ batch.step = "start" /\ \A i \in 1..Len(batch.events) : signal[batch.events[i]] # None
    <3>1. CASE batch = Resting
      <4>1. Resting \in Batch /\ Resting.step = "start" /\ Resting.events = <<>> /\ Len(Resting.events) = 0
        BY <1>8, RestOfBatch DEF Resting
      <4> QED  BY <3>1, <4>1
    <3>2. CASE batch = [events |-> Tail(disp[d].events), step |-> "start"]
      BY <1>8, <3>2, RestOfBatch
    <3> QED  BY <2>4, <3>1, <3>2
  <2>6. faults' \in 0..MaxFaults
    BY <1>0, <1>8 DEF SettleRow, NextEvent, Fault
  <2>7. OutboxTypeOK' /\ AcknowledgedIsStarted'
    BY <1>0, <1>8, <2>1, <2>2, <2>3, <2>4, <2>5, <2>6 DEF OutboxInv, OutboxTypeOK, AcknowledgedIsStarted
  <2>8. BatchesAreReal'
    BY <2>1, <2>4, <2>5, BatchesStayReal
  <2> QED  BY <2>7, <2>8 DEF OutboxInv
<1>9. ASSUME NEW d \in Dispatchers, AckOutbox(d)
      PROVE  OutboxInv'
  <2>1. PICK row : row = [holder |-> None, ready |-> TRUE, delivered |-> TRUE]
    OBVIOUS
  <2>2. row \in OutboxRow
    BY <2>1 DEF OutboxRow
  <2> QED  BY <1>8, <1>9, <2>1, <2>2 DEF AckOutbox, OutboxInv, BatchesAreReal
<1>10. ASSUME NEW d \in Dispatchers, RetryOutbox(d)
       PROVE  OutboxInv'
  <2>1. PICK row : row = [holder |-> None, ready |-> FALSE, delivered |-> FALSE]
    OBVIOUS
  <2>2. row \in OutboxRow /\ ~row.delivered
    BY <2>1 DEF OutboxRow
  <2> QED  BY <1>8, <1>10, <2>1, <2>2 DEF RetryOutbox
<1>11. ASSUME NEW d \in Dispatchers, DispatcherStops(d)
       PROVE  OutboxInv'
  <2>1. /\ disp[d].events # <<>> /\ disp' = [disp EXCEPT ![d] = Resting]
        /\ UNCHANGED <<inbox, deliveries, signal, manifest, outbox, started>> /\ faults' \in 0..MaxFaults
    BY <1>0, <1>11 DEF DispatcherStops, Fault, dispatchIdle
  <2>2. Resting \in Batch /\ Resting.events = <<>> /\ Len(Resting.events) = 0
    BY DEF Resting, Batch
  <2>3. OutboxTypeOK' /\ AcknowledgedIsStarted'
    BY <1>0, <2>1, <2>2 DEF OutboxInv, OutboxTypeOK, AcknowledgedIsStarted
  <2>4. PICK batch : batch = Resting
    OBVIOUS
  <2>5. /\ \A e \in Events : started[e] # 0 => started'[e] # 0
        /\ \A i \in 1..Len(batch.events) : signal[batch.events[i]] # None
    BY <2>1, <2>2, <2>4
  <2>6. BatchesAreReal'
    BY <2>1, <2>2, <2>4, <2>5, BatchesStayReal
  <2> QED  BY <2>3, <2>6 DEF OutboxInv
<1>12. ASSUME NEW e \in Events, ClaimExpires(e) \/ backoff(e)
       PROVE  OutboxInv'
  <2>1. /\ UNCHANGED <<inbox, deliveries, signal, manifest, disp, started>> /\ faults' \in 0..MaxFaults
        /\ outbox' = [outbox EXCEPT ![e].holder = None] \/ outbox' = [outbox EXCEPT ![e].ready = TRUE]
    BY <1>0, <1>12 DEF ClaimExpires, backoff, Fault, dispatchIdle
  <2>2. \A f \in Events : \/ outbox'[f] = outbox[f]
                          \/ outbox'[f] = [outbox[f] EXCEPT !.holder = None]
                          \/ outbox'[f] = [outbox[f] EXCEPT !.ready = TRUE]
    BY <1>0, <2>1
  <2>3. \A f \in Events : outbox'[f] \in OutboxRow /\ outbox'[f].delivered = outbox[f].delivered
    <3> SUFFICES ASSUME NEW f \in Events
                 PROVE  outbox'[f] \in OutboxRow /\ outbox'[f].delivered = outbox[f].delivered
      OBVIOUS
    <3>1. outbox[f] \in OutboxRow
      BY <1>0
    <3>2. [outbox[f] EXCEPT !.holder = None] \in OutboxRow /\ [outbox[f] EXCEPT !.ready = TRUE] \in OutboxRow
      BY <3>1 DEF OutboxRow
    <3>3. /\ [outbox[f] EXCEPT !.holder = None].delivered = outbox[f].delivered
          /\ [outbox[f] EXCEPT !.ready = TRUE].delivered = outbox[f].delivered
      BY <3>1 DEF OutboxRow
    <3> QED  BY <2>2, <3>1, <3>2, <3>3
  <2>4. outbox' \in [Events -> OutboxRow]
    BY <1>0, <2>1, <2>3
  <2> QED  BY <2>1, <2>3, <2>4 DEF OutboxInv, OutboxTypeOK, AcknowledgedIsStarted, BatchesAreReal
<1> QED
  BY <1>1, <1>2, <1>3, <1>4, <1>5, <1>6, <1>7, <1>9, <1>10, <1>11, <1>12
  DEF OutboxNext, DispatcherStep, outboxVars

(* Whatever starts fail, claims expire and dispatchers stop, an event acknowledged by one of
   any number of dispatchers has a workflow, and it is that of a recorded signal
   (dispatcher.go, Start and AckOutbox). *)
THEOREM NothingAcknowledgedUnstarted == OutboxSpec => []AcknowledgedIsStarted
<1>1. OutboxInit => OutboxInv
  <2> SUFFICES ASSUME OutboxInit PROVE OutboxInv
    OBVIOUS
  <2>1. Resting \in Batch /\ Resting.events = <<>>
    BY DEF Resting, Batch
  <2>2. [holder |-> None, ready |-> TRUE, delivered |-> FALSE] \in OutboxRow
    BY DEF OutboxRow
  <2>3. OutboxTypeOK
    BY <2>1, <2>2, OutboxAssumption DEF OutboxInit, OutboxTypeOK
  <2>4. AcknowledgedIsStarted /\ BatchesAreReal
    BY <2>1, <2>2 DEF OutboxInit, AcknowledgedIsStarted, BatchesAreReal
  <2> QED  BY <2>3, <2>4 DEF OutboxInv
<1>2. OutboxInv => AcknowledgedIsStarted
  BY DEF OutboxInv
<1> QED  BY <1>1, <1>2, OutboxInductive, PTL DEF OutboxSpec
=============================================================================
