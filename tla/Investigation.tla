---------------------------- MODULE Investigation ----------------------------
(* From a workflow to an investigation: the prepare activity of each workflow correlates its
   signal with an incident and creates or joins an investigation; operators judge what the
   investigation found.  SignalOutbox starts the workflows, ReadTask runs the READ tasks. *)
EXTENDS Values, Naturals, Sequences, FiniteSets

(* The planner of investigations: which profile of a manifest answers a signal, which
   manifests are admitted, and which incident a signal belongs to.  A profile is the
   labels it asks for; scope, integration and provider are one. *)
CONSTANTS LabelKeys, LabelValues, NoPlan

\* Keys are compared as integers, as the code compares the bytes of their names.
ASSUME LabelKeysAssumption == LabelKeys \subseteq Nat

Labels == UNION {[K -> LabelValues] : K \in SUBSET LabelKeys}

\* The labels of a profile in the order of their keys: key and value of the n-th one.
compileProfile(labels) ==
  [n \in 1..Cardinality(DOMAIN labels) |->
    LET key == CHOOSE k \in DOMAIN labels :
                 Cardinality({other \in DOMAIN labels : other < k}) = n - 1
    IN <<key, labels[key]>>]

ComparesInStep(left, right) ==
  LET l == compileProfile(left)
      r == compileProfile(right)
  IN \A i \in 1..Len(l) : i <= Len(r) => l[i] = r[i]

\* Two ordered lists are walked together; the value of a shared key decides.
profilesCanMatchSameSignal(left, right) ==
  LET l == compileProfile(left)
      r == compileProfile(right)
      walk[i \in 1..(Len(l) + 1), j \in 1..(Len(r) + 1)] ==
        IF i > Len(l) \/ j > Len(r) THEN TRUE
        ELSE IF l[i][1] < r[j][1] THEN walk[i + 1, j]
        ELSE IF l[i][1] > r[j][1] THEN walk[i, j + 1]
        ELSE l[i][2] = r[j][2] /\ walk[i + 1, j + 1]
  IN walk[1, 1]

profilesOverlap(profiles) ==
  \E left, right \in profiles : left # right /\ profilesCanMatchSameSignal(left, right)

\* A manifest the planner accepts.
New(profiles) ==
  /\ profiles # {} /\ \A profile \in profiles : DOMAIN profile # {}
  /\ ~profilesOverlap(profiles)

profileMatches(profile, labels) ==
  \A key \in DOMAIN profile : key \in DOMAIN labels /\ labels[key] = profile[key]

Matches(profiles, labels) == {profile \in profiles : profileMatches(profile, labels)}

\* One profile, or the signal is not mapped.
Resolve(profiles, labels) ==
  IF Cardinality(Matches(profiles, labels)) = 1
  THEN CHOOSE profile \in Matches(profiles, labels) : TRUE
  ELSE NoPlan

\* The key of an incident names the scope and the fingerprint, never the profile.
correlationKey(fingerprint) == fingerprint

-----------------------------------------------------------------------------

CONSTANTS Signals, Fact,  \* recorded signals: workflow ID, fingerprint, status and labels
          Manifests,      \* the manifests rolled out, one after the other
          MaxTries,       \* workflow ID -> bound on tries of its prepare activity
          FeedbackKeys    \* idempotency keys of operators

ASSUME InvestigationAssumption ==
  /\ Fact \in [Signals -> [id : STRING, fingerprint : STRING, status : {"firing", "resolved"},
                           labels : Labels]]
  /\ \A n \in 1..Len(Manifests) : New(Manifests[n])

VARIABLES
  workflow,           \* ID -> the Temporal workflow
  tries,              \* ID -> the tries of its prepare activity
  correlation,        \* ID -> the incident of its signal, 0 for a resolved signal without one
  incident, investigation,
  bound,              \* ID -> the investigation of its idempotency key
  feedback            \* key -> what it recorded

recordsVars == <<correlation, incident, investigation, bound, feedback>>
intakeVars == <<workflow, tries, recordsVars>>

IDs == {Fact[s].id : s \in Signals}
ActiveIncident == {"OPEN", "INVESTIGATING", "MITIGATING"}
ActiveInvestigation == {"QUEUED", "RUNNING"}

\* stage: what the prepare activity told the workflow.
Workflow == [signal : Signals, manifest : 1..Len(Manifests),
             stage : {"preparing", "prepared", "nothing", "rejected"}]

Try == [phase : {"planning", "planned", "correlated", "bound", "over"},
        incident : Nat, investigation : Nat]

Incident == [key : STRING, status : ActiveIncident \cup {"RESOLVED"}, count : Nat, confirmed : Nat]

\* by: the event whose try inserted the row.
InvestigationRow ==
  [incident : Nat, plan : Labels \X (1..Len(Manifests)), by : IDs,
   status : ActiveInvestigation \cup {"COMPLETED", "PARTIAL", "FAILED", "CANCELLED"},
   hypothesis : {None, "PROPOSED", "CONFIRMED", "REJECTED"}]

IntakeTypeOK ==
  /\ workflow \in [IDs -> Workflow \cup {None}]
  /\ tries \in [IDs -> Seq(Try)]
  /\ correlation \in [IDs -> Nat \cup {None}]
  /\ incident \in Seq(Incident)
  /\ investigation \in Seq(InvestigationRow)
  /\ bound \in [IDs -> Nat]
  /\ feedback \in [FeedbackKeys -> [investigation : Nat, verdict : STRING] \cup {None}]

IntakeInit ==
  /\ workflow = [e \in IDs |-> None]
  /\ tries = [e \in IDs |-> <<>>]
  /\ correlation = [e \in IDs |-> None]
  /\ incident = <<>> /\ investigation = <<>>
  /\ bound = [e \in IDs |-> 0]
  /\ feedback = [k \in FeedbackKeys |-> None]

-----------------------------------------------------------------------------
(* SignalOutbox in one step: a recorded signal has a workflow, pinned to a manifest. *)
WorkflowStarts(e, s, m) ==
  /\ workflow[e] = None /\ Fact[s].id = e
  /\ workflow' = [workflow EXCEPT ![e] = [signal |-> s, manifest |-> m, stage |-> "preparing"]]
  /\ UNCHANGED <<tries, recordsVars>>

-----------------------------------------------------------------------------
(* The prepare activity.  Temporal tries it until it answers; a try it gave up on may still
   be running. *)

PlanOf(e) == Resolve(Manifests[workflow[e].manifest], Fact[workflow[e].signal].labels)
KeyOf(e) == correlationKey(Fact[workflow[e].signal].fingerprint)
RequestHash(e, i) == <<i, <<PlanOf(e), workflow[e].manifest>>>>
StoredHash(j) == <<investigation[j].incident, investigation[j].plan>>

NewTry(e) ==
  /\ workflow[e] # None /\ workflow[e].stage = "preparing"
  /\ Len(tries[e]) < MaxTries[e]
  /\ tries' = [tries EXCEPT ![e] = Append(@, [phase |-> "planning", incident |-> 0, investigation |-> 0])]
  /\ UNCHANGED <<workflow, recordsVars>>

Advance(e, n, phase, i, j) ==
  /\ tries' = [tries EXCEPT ![e][n] = [phase |-> phase, incident |-> i, investigation |-> j]]
  /\ UNCHANGED workflow

\* Temporal listens to the last try only.
Answer(e, n, stage) ==
  /\ tries' = [tries EXCEPT ![e][n].phase = "over"]
  /\ workflow' = IF n = Len(tries[e]) /\ workflow[e].stage = "preparing"
                 THEN [workflow EXCEPT ![e].stage = stage] ELSE workflow

prepare(e, n) ==
  /\ tries[e][n].phase = "planning"
  /\ IF PlanOf(e) = NoPlan THEN Answer(e, n, "rejected") ELSE Advance(e, n, "planned", 0, 0)
  /\ UNCHANGED <<recordsVars>>

lockActiveCorrelationIncident(key) ==
  {i \in 1..Len(incident) : incident[i].key = key /\ incident[i].status \in ActiveIncident}

insertCorrelationIncident(e) ==
  /\ incident' = Append(incident, [key |-> KeyOf(e), status |-> "OPEN", count |-> 1, confirmed |-> 0])
  /\ correlation' = [correlation EXCEPT ![e] = Len(incident) + 1]

updateCorrelationIncidentAggregate(e, i) ==
  /\ incident' = [incident EXCEPT ![i].count = @ + 1]
  /\ correlation' = [correlation EXCEPT ![e] = i]

readsNoCorrelation(e) == FALSE
readCorrelationReplay(e) == correlation[e] # None

CorrelateSignal(e, n) ==
  LET active == lockActiveCorrelationIncident(KeyOf(e))
      i == IF active = {} THEN Len(incident) + 1 ELSE CHOOSE i \in active : TRUE
      kept == IF correlation[e] = None THEN 0 ELSE correlation[e]
  IN /\ tries[e][n].phase = "planned"
     /\ IF readCorrelationReplay(e)
        THEN /\ IF kept = 0 THEN Answer(e, n, "nothing") ELSE Advance(e, n, "correlated", kept, 0)
             /\ UNCHANGED <<incident, correlation>>
        ELSE IF active = {} /\ Fact[workflow[e].signal].status = "resolved"
        THEN /\ Answer(e, n, "nothing")
             /\ correlation' = [correlation EXCEPT ![e] = 0]
             /\ UNCHANGED incident
        ELSE /\ Advance(e, n, "correlated", i, 0)
             /\ IF active = {} THEN insertCorrelationIncident(e)
                ELSE updateCorrelationIncidentAggregate(e, i)
     /\ UNCHANGED <<investigation, bound, feedback>>

lockActiveInvestigation(i) ==
  {j \in 1..Len(investigation) :
    investigation[j].incident = i /\ investigation[j].status \in ActiveInvestigation}

insertRuntimeInvestigation(e, i) ==
  /\ investigation' = Append(investigation,
       [incident |-> i, plan |-> <<PlanOf(e), workflow[e].manifest>>, by |-> e,
        status |-> "QUEUED", hypothesis |-> None])
  /\ incident' = [incident EXCEPT ![i].status = IF @ = "OPEN" THEN "INVESTIGATING" ELSE @]

readsNoReplay(e) == FALSE
\* The key is looked up once outside and once under its lock.
readCreateInvestigationReplay(e) == bound[e] # 0

createOrBindInvestigation(e, n) ==
  LET i == tries[e][n].incident
      active == lockActiveInvestigation(i)
      j == CHOOSE j \in active : TRUE
      same == {k \in {bound[e]} \ {0} : StoredHash(k) = RequestHash(e, i)}
  IN /\ tries[e][n].phase = "correlated"
     /\ IF readCreateInvestigationReplay(e)
        THEN /\ IF same = {} THEN Answer(e, n, "rejected") ELSE Advance(e, n, "bound", i, bound[e])
             /\ UNCHANGED <<investigation, incident, bound>>
        ELSE IF active # {}
        THEN /\ IF StoredHash(j) = RequestHash(e, i)
                THEN Advance(e, n, "bound", i, j) /\ bound' = [bound EXCEPT ![e] = j]
                ELSE Answer(e, n, "rejected") /\ UNCHANGED bound
             /\ UNCHANGED <<investigation, incident>>
        ELSE IF incident[i].status \notin ActiveIncident
        THEN Answer(e, n, "rejected") /\ UNCHANGED <<investigation, incident, bound>>
        ELSE /\ insertRuntimeInvestigation(e, i)
             /\ bound' = [bound EXCEPT ![e] = Len(investigation) + 1]
             /\ Advance(e, n, "bound", i, Len(investigation) + 1)
     /\ UNCHANGED <<correlation, feedback>>

\* Incident, investigation and tasks are read back and compared with the plan.
validInvestigationProjection(e, n) ==
  LET t == tries[e][n] IN
    incident[t.incident].key = KeyOf(e) /\ StoredHash(t.investigation) = RequestHash(e, t.incident)

prepareV2(e, n) ==
  /\ tries[e][n].phase = "bound"
  /\ Answer(e, n, IF validInvestigationProjection(e, n) THEN "prepared" ELSE "rejected")
  /\ UNCHANGED <<recordsVars>>

-----------------------------------------------------------------------------
(* What ends investigations and incidents, and what operators say of them. *)

aroundRecords == <<workflow, tries, correlation, bound>>

\* ReadTask in one step; what was found is proposed.
InvestigationEnds(j) ==
  /\ investigation[j].status \in ActiveInvestigation
  /\ \E status \in {"COMPLETED", "PARTIAL", "FAILED", "CANCELLED"}, found \in {None, "PROPOSED"} :
       /\ found # None => status \in {"COMPLETED", "PARTIAL"}
       /\ investigation' = [investigation EXCEPT ![j].status = status, ![j].hypothesis = found]
  /\ UNCHANGED <<aroundRecords, incident, feedback>>

\* Somebody works on the incident itself, or is done with it.
IncidentMoves(i) ==
  /\ incident[i].status \in ActiveIncident
  /\ \E status \in {"MITIGATING", "RESOLVED"} \ {incident[i].status} :
       incident' = [incident EXCEPT ![i].status = status]
  /\ UNCHANGED <<aroundRecords, investigation, feedback>>

ConfirmsEach(i) == TRUE
Unconfirmed(i) == incident[i].confirmed = 0

projectFeedbackHypothesis(j, status) ==
  investigation' = [investigation EXCEPT ![j].hypothesis = status]

RecordFeedback(k, j, verdict) ==
  /\ feedback[k] = None
  /\ investigation[j].status \in {"COMPLETED", "PARTIAL"} /\ investigation[j].hypothesis # None
  /\ verdict # "INCONCLUSIVE" => investigation[j].hypothesis = "PROPOSED"
  /\ verdict = "CONFIRMED" => Unconfirmed(investigation[j].incident)
  /\ feedback' = [feedback EXCEPT ![k] = [investigation |-> j, verdict |-> verdict]]
  /\ IF verdict = "INCONCLUSIVE" THEN UNCHANGED investigation
     ELSE projectFeedbackHypothesis(j, verdict)
  /\ incident' = IF verdict = "CONFIRMED"
                 THEN [incident EXCEPT ![investigation[j].incident].confirmed = j] ELSE incident
  /\ UNCHANGED aroundRecords

-----------------------------------------------------------------------------
TryStep(e, n) ==
  prepare(e, n) \/ CorrelateSignal(e, n) \/ createOrBindInvestigation(e, n) \/ prepareV2(e, n)

IntakeNext ==
  \/ \E e \in IDs :
       \/ \E s \in Signals, m \in 1..Len(Manifests) : WorkflowStarts(e, s, m)
       \/ NewTry(e)
       \/ \E n \in 1..Len(tries[e]) : TryStep(e, n)
  \/ \E j \in 1..Len(investigation) :
       \/ InvestigationEnds(j)
       \/ \E k \in FeedbackKeys, verdict \in {"CONFIRMED", "REJECTED", "INCONCLUSIVE"} :
            RecordFeedback(k, j, verdict)
  \/ \E i \in 1..Len(incident) : IncidentMoves(i)

IntakeSpec == IntakeInit /\ [][IntakeNext]_intakeVars

-----------------------------------------------------------------------------
\* An admitted manifest never finds two profiles for one signal: the walk along two lists of
\* labels misses no pair of profiles that a signal could match (ErrPlannerIntegrity).
PlanIsUnambiguous ==
  \A left, right \in Labels :
    New({left, right}) =>
      \A labels \in Labels : Cardinality(Matches({left, right}, labels)) <= 1

\* One active incident per key, one active investigation per incident, and an incident
\* counts the signals correlated with it, each once, however often a try was repeated.
OneOfEach ==
  /\ \A i, j \in 1..Len(incident) :
       incident[i].key = incident[j].key /\ {incident[i].status, incident[j].status} \subseteq ActiveIncident
         => i = j
  /\ \A i \in 1..Len(incident) :
       /\ Cardinality(lockActiveInvestigation(i)) <= 1
       /\ incident[i].count = Cardinality({e \in IDs : correlation[e] = i})

\* A try that Temporal gave up on never opens a second investigation for its event: what one
\* event created, another one may join, but it is created once.
CreatedOncePerEvent ==
  /\ \A j, k \in 1..Len(investigation) : investigation[j].by = investigation[k].by => j = k
  /\ \A e \in IDs :
       workflow[e] # None /\ workflow[e].stage = "prepared" =>
         bound[e] # 0 /\ investigation[bound[e]].incident = correlation[e]

\* Incidents and investigations stay one for one cause, under a plan that is not ambiguous.
CorrelationSafety == PlanIsUnambiguous /\ OneOfEach /\ CreatedOncePerEvent

\* An incident has one confirmed root cause, of one of its own investigations, for good.
RootCauseStands ==
  /\ \A i \in 1..Len(incident) :
       incident[i].confirmed # 0 => incident'[i].confirmed = incident[i].confirmed
  /\ \A j \in 1..Len(investigation) :
       investigation'[j].hypothesis = "CONFIRMED" =>
         incident'[investigation[j].incident].confirmed = j
=============================================================================
