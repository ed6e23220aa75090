------------------------------ MODULE MCWorkers ------------------------------
(* Two loops that work off a table while processes die and claims expire, each by itself: two
   discovery workers with two runs, and two dispatchers with an outbox of two events, one of
   which is sent again with other contents. *)
EXTENDS DiscoveryWorker, SignalOutbox
VARIABLE part
allVars == <<part, workerVars, outboxVars>>

MCEventOf == [a1 |-> "e1", a1changed |-> "e1", a2 |-> "e2"]
MCHashOf == [a1 |-> "h1", a1changed |-> "h2", a2 |-> "h3"]
MCAlerts == DOMAIN MCEventOf
MCBatches == {<<"a1">>, <<"a1changed", "a2">>}

MCInit == part \in {"discovery", "outbox"} /\ WorkerInit /\ OutboxInit

Discovery(step) == part = "discovery" /\ step /\ UNCHANGED <<part, outboxVars>>
Outbox(step) == part = "outbox" /\ step /\ UNCHANGED <<part, workerVars>>

MCNext == Discovery(WorkerNext) \/ Outbox(OutboxNext)

\* The fairness of WorkerSpec and of OutboxSpec.
MCSpec ==
  /\ MCInit /\ [][MCNext]_allVars
  /\ \A w \in Workers : WF_allVars(Discovery(NextClaim(w) \/ Step(w)))
  /\ WF_allVars(Discovery(Passes /\ UNCHANGED <<workers, sessions, permits>>))
  /\ \A d \in Dispatchers : WF_allVars(Outbox(DispatcherStep(d)))
  /\ \A e \in Events : WF_allVars(Outbox(ClaimExpires(e))) /\ WF_allVars(Outbox(backoff(e)))

\* No process that dies and no claim that expires leaves work behind for good.  A session does
\* not stay open at the provider: the next holder of the run finds it and closes it.  And the
\* events of recorded signals are all acknowledged in the end, except for those whose workflow
\* a roll-out overtook between its start and its acknowledgement, which are refused for good
\* (Undelivered).  A run that has used up MaxEpoch has no lease to be taken up by and is not
\* counted (Dangling).  (Only one of the two can be true in a part.)
WorkIsTakenUp == (Dangling \/ Undelivered) ~> ~(Dangling \/ Undelivered)
=============================================================================
