--------------------------- MODULE MCInvestigation ---------------------------
(* Two parts of an investigation, each by itself: the workflows of two signals of one
   fingerprint, and the READ tasks of an investigation, one in two rounds or two in one. *)
EXTENDS Investigation, ReadTask, TLC
CONSTANT Parts

VARIABLE part
vars == <<part, intakeVars, readVars>>

MCMaxRounds == IF MaxTasks = 1 THEN <<2>> ELSE <<2, 1>>
MCMaxBeats == <<1, 0>>
NoBeats == <<0, 0>>

MCSignal(id, status, labels) ==
  [id |-> id, fingerprint |-> "f", status |-> status, labels |-> labels]
MCFact ==
  [s1 |-> MCSignal("e1", "firing", 1 :> "x"),
   s2 |-> MCSignal("e2", "firing", (1 :> "y") @@ (2 :> "x")),
   s2same |-> MCSignal("e2", "firing", 1 :> "x"),
   s2resolved |-> MCSignal("e2", "resolved", 1 :> "x")]
MCSignals == DOMAIN MCFact
MCManifests == <<{1 :> "x", (1 :> "y") @@ (2 :> "x")}, {1 :> "x"}>>
MCMaxTries == [e1 |-> 2, e2 |-> 1]

MCInit ==
  /\ part \in Parts
  /\ IntakeInit /\ ReadInit
  /\ part # "tasks" => count = 1

MCNext ==
  /\ UNCHANGED part
  /\ \/ part = "workflows" /\ IntakeNext /\ UNCHANGED readVars
     \/ part = "tasks" /\ ReadNext /\ UNCHANGED intakeVars

\* The fairness of ReadSpec.
MCSpec ==
  /\ MCInit /\ [][MCNext]_vars
  /\ WF_vars(part = "tasks" /\ WorkflowStep /\ UNCHANGED <<part, intakeVars>>)

\* What is closed stays closed, and what was found to be the cause stays the cause, whatever
\* runners and operators still say.
HistoryStands == [][ClosedStaysClosed /\ RootCauseStands]_vars

\* The workflow of an investigation does not wait for its runners for ever.
TasksEnd == part = "tasks" => WorkflowEnds
=============================================================================
