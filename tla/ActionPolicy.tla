---------------------------- MODULE ActionPolicy ----------------------------
(* The policy engine's gate in front of a write: at plan submission, before a credential
   is issued and before the executor runs.  One evaluation takes the time once and then
   reads the switches, the target, the risk, the limits, the approvals and the people
   behind them one after another, while operators turn switches, targets change, people
   decide and lose roles, keys are replaced and time passes.  A reader answers with any
   snapshot of the past, or not at all.

   What is judged is an action envelope: a plan names one target, one set of parameters
   and one observed state, all of the kind its action type asks for; Seal hashes and signs
   it, and Verify accepts it only unchanged, in its window and under a key in force.  A
   plan is a content and its requester; its hash is the plan, the signature of a message
   the message and its key: both tell any two apart. *)
EXTENDS Integers, Sequences, FiniteSets, Values

CONSTANTS
  Contents,       \* the contents a plan may have, each under a name
  Keys,           \* the signing keys
  MaxWindow,      \* the longest validity of an envelope
  MaxTTL,         \* the longest life of a credential
  MaxAWXHosts,    \* the most hosts of an AWX restart
  Subjects,       \* the identities people sign in with
  PersonOf,       \* the person behind each identity
  FirstFacts,     \* the facts at the start
  OtherFacts,     \* for each fact, the other values it may take
  OtherPeople,    \* what may become of a person: active, and the roles
  OtherRecords,   \* what a key's record may be replaced by
  Permitted,      \* the types and stages the compiled policy allows
  PolicyVersion,  \* the version of the engine's policy
  MaxSafetySnapshotAge, MaxTargetSnapshotAge, maxClockSkew,
  MaxTime, MaxPolicyChanges, MaxDecisions, MaxEvaluations   \* bounds

ASSUME PolicyTimesAssumption ==
  {MaxSafetySnapshotAge, MaxTargetSnapshotAge, maxClockSkew, MaxTime} \subseteq Nat

VARIABLES
  clock, policyChanges, evaluations,
  past,      \* for each fact, the values it had and when
  presentFacts,     \* for each fact, its value now
  people,    \* for each person: active, and the roles held
  keys,      \* the key records in force
  approvals, \* the decisions on record
  sealed,    \* the envelopes that were sealed
  ev,        \* the evaluation under way
  ever,      \* the roles each person held, while active, at some moment of the evaluation
  decision   \* the last decision

policyVars == <<clock, policyChanges, evaluations, past, presentFacts, people, keys, approvals, sealed, ev, ever, decision>>

FactNames == {"global", "scoped", "target", "risk", "limits"}
ApproverRoles == {"SRE", "SERVICE_OWNER", "APPROVER"}
Stages == {"PLAN_SUBMISSION", "CREDENTIAL_ISSUE", "PRE_EXECUTION"}
Persons == {PersonOf[s] : s \in Subjects}
NoDecision == [outcome |-> "NONE"]
HeldBy(p) == IF people[p].active THEN people[p].roles ELSE {}

PolicyInit ==
  /\ clock = 0 /\ policyChanges = 0 /\ evaluations = 0
  /\ presentFacts = FirstFacts /\ past = [f \in FactNames |-> {<<0, FirstFacts[f]>>}]
  /\ people \in [Persons -> [active : {TRUE}, roles : SUBSET ApproverRoles \ {{}}]]
  /\ keys = [k \in Keys |-> [revoked |-> FALSE, activeAt |-> 0, retireAt |-> 0]]
  /\ approvals = {} /\ sealed = {} /\ ev = None /\ decision = NoDecision
  /\ ever = [p \in Persons |-> {}]

-----------------------------------------------------------------------------
(* The envelope. *)

ActionTypes == {"RESTART", "SCALE", "REVERT", "AWX"}

\* What a type asks for: the kind of target and observed state, the verification and the permission.
KindOf(type) == IF type \in {"RESTART", "SCALE"} THEN "kubernetes" ELSE IF type = "REVERT" THEN "gitops" ELSE "awx"
ModeOf(type) == CASE KindOf(type) = "kubernetes" -> "ROLLOUT" [] type = "REVERT" -> "ARGO" [] OTHER -> "SERVICE"

\* target, parameters and observed are the parts of the three unions that are present.
validateTimes(plan) == plan.expires - plan.notBefore \in 1..MaxWindow

validateScope(plan) == plan.ttl \in 1..MaxTTL /\ plan.ttl <= plan.expires - plan.notBefore

SortedOnce(seq) == \A i \in 2..Len(seq) : seq[i - 1] < seq[i]

validateRisk(plan) ==
  plan.level \in {"LOW", "MEDIUM", "HIGH"} /\ Len(plan.reasons) > 0 /\ SortedOnce(plan.reasons)

strictlyIncreasingPositive(hosts) == (\A i \in DOMAIN hosts : hosts[i] > 0) /\ SortedOnce(hosts)

\* The credential is for this type's operation on this very target.
validateCredentialBinding(plan, resource) == plan.permission = plan.type /\ plan.resource = resource

validateDeploymentState(state) ==
  /\ state.generation > 0 /\ state.replicas >= 0
  /\ state.available \in 0..state.replicas /\ state.updated \in 0..state.replicas

validateKubernetesRestart(plan) ==
  /\ plan.reason # "" /\ validateDeploymentState(plan.state)
  /\ plan.expectedVersion = plan.version /\ plan.expectedHead = 0
  /\ plan.verification = ModeOf(plan.type)
  /\ validateCredentialBinding(plan, plan.place)

validateKubernetesScale(plan) ==
  /\ 0 <= plan.scale.min /\ plan.scale.replicas \in plan.scale.min..plan.scale.max
  /\ plan.scale.checked /\ validateDeploymentState(plan.state)
  /\ plan.expectedVersion = plan.version
  /\ plan.verification = ModeOf(plan.type)
  /\ validateCredentialBinding(plan, plan.place)

validateGitOpsRevert(plan) ==
  /\ plan.head = plan.state.desired /\ plan.head = plan.expectedHead /\ plan.expectedVersion = 0
  /\ plan.verification = ModeOf(plan.type)
  /\ validateCredentialBinding(plan, plan.place)

validateAWXRestart(plan) ==
  /\ Len(plan.hosts) \in 1..MaxAWXHosts /\ strictlyIncreasingPositive(plan.hosts) /\ plan.serial = 1
  /\ plan.state.count = Len(plan.hosts) /\ plan.state.snapshot = plan.version
  /\ plan.expectedVersion = 0 /\ plan.expectedHead = 0
  /\ plan.verification = ModeOf(plan.type)
  /\ validateCredentialBinding(plan, plan.place)

ValidateEnvelope(plan) ==
  /\ validateTimes(plan) /\ plan.exact /\ plan.listed
  /\ validateScope(plan) /\ validateRisk(plan)
  /\ Cardinality(plan.target) = 1 /\ Cardinality(plan.parameters) = 1 /\ Cardinality(plan.observed) = 1
  /\ plan.type \in ActionTypes
  /\ plan.target = {KindOf(plan.type)} /\ plan.parameters = {plan.type} /\ plan.observed = {KindOf(plan.type)}
  /\ CASE plan.type = "RESTART" -> validateKubernetesRestart(plan)
       [] plan.type = "SCALE" -> validateKubernetesScale(plan)
       [] plan.type = "REVERT" -> validateGitOpsRevert(plan)
       [] plan.type = "AWX" -> validateAWXRestart(plan)

Content(plan) == Contents[plan.content]
calculatePlanHash(plan) == plan
canonicalSigningMessage(plan, hash, key) == <<plan, hash, key>>
Signed(plan, hash, key, message) == [plan |-> plan, hash |-> hash, key |-> key, signature |-> <<key, message>>]

\* The requester is the authenticated one, whether the proposal named him or nobody.
Seal(content, named, authenticatedRequester, key) ==
  LET plan == [content |-> content, requester |-> authenticatedRequester]
      hash == calculatePlanHash(plan) IN
  IF named \notin {None, authenticatedRequester} \/ ~ValidateEnvelope(Contents[content])
  THEN None
  ELSE Signed(plan, hash, key, canonicalSigningMessage(plan, hash, key))

\* records gives the keys: revoked or not, and when each starts and retires (0: never).
cloneKeyRecords(records) ==
  \A k \in DOMAIN records : (records[k].retireAt # 0 /\ records[k].activeAt # 0) => records[k].activeAt < records[k].retireAt

KeyInForce(records, key, now) ==
  /\ key \in DOMAIN records /\ ~records[key].revoked /\ records[key].activeAt <= now
  /\ records[key].retireAt = 0 \/ now < records[key].retireAt

InWindow(plan, now) == Content(plan).notBefore <= now /\ now < Content(plan).expires

Verify(envelope, records, now) ==
  /\ ValidateEnvelope(Content(envelope.plan)) /\ InWindow(envelope.plan, now)
  /\ envelope.hash = calculatePlanHash(envelope.plan)
  /\ KeyInForce(records, envelope.key, now)
  /\ envelope.signature = <<envelope.key, canonicalSigningMessage(envelope.plan, envelope.hash, envelope.key)>>

-----------------------------------------------------------------------------
(* Around the engine. *)

PolicyTick ==
  /\ clock < MaxTime /\ clock' = clock + 1
  /\ past' = [f \in FactNames |-> past[f] \union {<<clock + 1, presentFacts[f]>>}]
  /\ UNCHANGED <<policyChanges, evaluations, presentFacts, people, keys, approvals, sealed, ev, ever, decision>>

PolicyChanges == policyChanges < MaxPolicyChanges /\ policyChanges' = policyChanges + 1

\* A switch is turned, the target is changed, its risk or its limits are set anew.
FactChanges(f, v) ==
  /\ PolicyChanges /\ v # presentFacts[f]
  /\ presentFacts' = [presentFacts EXCEPT ![f] = v] /\ past' = [past EXCEPT ![f] = @ \union {<<clock, v>>}]
  /\ UNCHANGED <<clock, evaluations, people, keys, approvals, sealed, ev, ever, decision>>

PersonChanges(p, other) ==
  /\ PolicyChanges /\ people[p] # other /\ people' = [people EXCEPT ![p] = other]
  /\ ever' = [ever EXCEPT ![p] = IF ev # None /\ other.active THEN @ \union other.roles ELSE @]
  /\ UNCHANGED <<clock, evaluations, past, presentFacts, keys, approvals, sealed, ev, decision>>

\* RotatingKeySet.Replace: all records at once, or none when one of them is not well formed.
ReplaceKeys(records) ==
  /\ PolicyChanges /\ cloneKeyRecords(records) /\ keys' = records
  /\ UNCHANGED <<clock, evaluations, past, presentFacts, people, approvals, sealed, ev, ever, decision>>

TargetDigest(plan) ==
  <<plan.type, plan.place, plan.version, plan.state, plan.scale, plan.hosts, plan.head>>

\* Somebody decides on a sealed plan, as he was shown it; the digest is that of its content.
Decides(subject, verdict, e, expiresAt) ==
  /\ Cardinality(approvals) < MaxDecisions
  /\ approvals' = approvals \union
       {[subject |-> subject, verdict |-> verdict, hash |-> e.hash, shown |-> e.plan.content,
         decidedAt |-> clock, expiresAt |-> expiresAt]}
  /\ UNCHANGED <<clock, policyChanges, evaluations, past, presentFacts, people, keys, sealed, ev, ever, decision>>

Propose(content, named, requester, key) ==
  LET e == Seal(content, named, requester, key) IN
  /\ sealed = {} /\ e # None /\ sealed' = {e}
  /\ UNCHANGED <<clock, policyChanges, evaluations, past, presentFacts, people, keys, approvals, ev, ever, decision>>

-----------------------------------------------------------------------------
(* One evaluation. *)

\* An engine that reuses what it has, however old.
freshEnough(now, at, age) == at <= now + maxClockSkew

fresh(now, at, age) == at <= now + maxClockSkew /\ now - at <= age

\* The envelope as it was sealed, or as a carrier spoilt it: other contents, its hash made to match or not.
Carried(e) ==
  LET Other(c) == [e.plan EXCEPT !.content = c] IN
  {e} \union {[e EXCEPT !.plan = Other(c)] : c \in DOMAIN Contents}
      \union {[e EXCEPT !.plan = Other(c), !.hash = Other(c)] : c \in DOMAIN Contents}

Evaluate(stage, e) ==
  /\ ev = None /\ evaluations < MaxEvaluations /\ evaluations' = evaluations + 1
  /\ ev' = [stage |-> stage, envelope |-> e, now |-> clock, at |-> "global",
            pending |-> {}, requester |-> None, valid |-> {}, rejected |-> FALSE]
  /\ ever' = [p \in Persons |-> HeldBy(p)] /\ decision' = NoDecision
  /\ UNCHANGED <<clock, policyChanges, past, presentFacts, people, keys, approvals, sealed>>

Outside == <<clock, policyChanges, evaluations, past, presentFacts, people, keys, approvals, sealed>>

Decided(outcome, expires) ==
  /\ decision' = IF outcome = "ALLOW"
                 THEN [outcome |-> outcome, envelope |-> ev.envelope, now |-> ev.now, expires |-> expires]
                 ELSE [NoDecision EXCEPT !.outcome = outcome]
  /\ ev' = None /\ UNCHANGED ever /\ UNCHANGED Outside

withReasons(outcome) == Decided(outcome, 0)
Proceeds(next) == ev' = [ev EXCEPT !.at = next] /\ UNCHANGED <<ever, decision>> /\ UNCHANGED Outside

Passes(ok, next) == (ok /\ Proceeds(next)) \/ (~ok /\ withReasons("DENY"))

\* A reader answers with a value the fact had, or fails; scoped readers may answer for another place.
AtStep(step) == ev # None /\ ev.at = step
Readings(f) == past[f]
Places == {Contents[c].place : c \in DOMAIN Contents}
PlanOf == Content(ev.envelope.plan)

ReaderFails == ev # None /\ ev.at \in FactNames /\ withReasons("DENY")

ReadGlobal(r) ==
  /\ AtStep("global")
  /\ Passes(/\ fresh(ev.now, r[1], MaxSafetySnapshotAge) /\ r[2]
            /\ PlanOf.policy = PolicyVersion /\ Verify(ev.envelope, keys, ev.now), "scoped")

ReadScoped(r, place) ==
  /\ AtStep("scoped")
  /\ Passes(/\ fresh(ev.now, r[1], MaxSafetySnapshotAge) /\ place = PlanOf.place
            /\ r[2] = {"environment", "connector", "action"}, "target")

SameStateOnly(snapshot, plan) == snapshot.kind = KindOf(plan.type) /\ snapshot.state = plan.state

\* The target's facts are those of the plan, and of no other kind.  A GitOps application is told
\* by its head and its revisions alone: its version is not compared.  checked stands for what a
\* scale asks of the autoscaler, the disruption budget and the quota.
targetMatchesEnvelope(snapshot, plan) ==
  /\ snapshot.kind = KindOf(plan.type) /\ snapshot.state = plan.state
  /\ snapshot.kind # "gitops" => snapshot.version = plan.version
  /\ snapshot.kind = "gitops" => snapshot.head = plan.head
  /\ snapshot.kind = "awx" => snapshot.hosts = plan.hosts
  /\ snapshot.kind = "kubernetes" => snapshot.checked = (plan.type = "SCALE" /\ plan.scale.checked)

ReadTarget(r, place) ==
  /\ AtStep("target")
  /\ Passes(/\ fresh(ev.now, r[1], MaxTargetSnapshotAge) /\ place = PlanOf.place
            /\ r[2].exact /\ r[2].listed /\ targetMatchesEnvelope(r[2], PlanOf), "risk")

ReadRisk(r) ==
  /\ AtStep("risk")
  /\ Passes(/\ fresh(ev.now, r[1], MaxTargetSnapshotAge)
            /\ r[2].place = PlanOf.place /\ r[2].action = PlanOf.id /\ r[2].hash = ev.envelope.hash
            /\ r[2].digest = TargetDigest(PlanOf) /\ r[2].policy = PlanOf.policy
            /\ r[2].level = PlanOf.level /\ r[2].reasons = PlanOf.reasons, "limits")

LimitsAreLimits(limits, plan) ==
  plan.type = "SCALE" => 0 <= limits.min /\ limits.min <= limits.max

limitsMatchEnvelope(limits, plan) ==
  CASE plan.type = "SCALE" -> /\ 0 <= limits.min /\ limits.min <= limits.max
                              /\ plan.scale.min = limits.min /\ plan.scale.max = limits.max
    [] plan.type = "AWX" -> limits.hosts \in 1..MaxAWXHosts /\ Len(plan.hosts) <= limits.hosts
    [] OTHER -> limits = [min |-> 0, max |-> 0, hosts |-> 0]

\* The limits, and then the compiled policy on what was read.
ReadLimits(r, place) ==
  /\ AtStep("limits")
  /\ Passes(/\ fresh(ev.now, r[1], MaxTargetSnapshotAge) /\ place = PlanOf.place
            /\ limitsMatchEnvelope(r[2], PlanOf)
            /\ <<PlanOf.type, ev.stage>> \in Permitted, "approvals")

\* What the approvals do not satisfy is asked for at submission, and denied later.
Unsatisfied == withReasons(IF ev.stage = "PLAN_SUBMISSION" THEN "REQUIRE_APPROVAL" ELSE "DENY")

ListApprovals ==
  /\ AtStep("approvals")
  /\ ev' = [ev EXCEPT !.at = "requester", !.pending = {a \in approvals : Contents[a.shown].id = PlanOf.id}]
  /\ UNCHANGED <<ever, decision>> /\ UNCHANGED Outside

ApprovalsUnavailable == AtStep("approvals") /\ Unsatisfied

ResolveRequester ==
  /\ AtStep("requester")
  /\ LET p == PersonOf[ev.envelope.plan.requester] IN
     \/ people[p].active /\ ev' = [ev EXCEPT !.at = "people", !.requester = p] /\ UNCHANGED <<ever, decision>> /\ UNCHANGED Outside
     \/ ~people[p].active /\ Unsatisfied

RequesterUnavailable == AtStep("requester") /\ Unsatisfied

approvalBindingValid(a, e, now) ==
  LET plan == Content(e.plan) IN
  /\ a.hash = e.hash /\ Contents[a.shown].policy = plan.policy /\ TargetDigest(Contents[a.shown]) = TargetDigest(plan)
  /\ a.decidedAt \in plan.notBefore..now /\ now < a.expiresAt /\ a.expiresAt <= plan.expires

\* The identity an approver is counted under.
CanonicalID(subject) == PersonOf[subject]

hasAnyRole(roles, expected) == roles \intersect expected # {}
validRoles(roles) == roles # {} /\ roles \subseteq ApproverRoles

Qualified(a) ==
  /\ approvalBindingValid(a, ev.envelope, ev.now)
  /\ people[PersonOf[a.subject]].active /\ CanonicalID(a.subject) # ev.requester
  /\ validRoles(people[PersonOf[a.subject]].roles)

\* The next approval of the list: passed over, a rejection, or one more approver with his roles.
ResolveApprover(a) ==
  /\ AtStep("people") /\ a \in ev.pending
  /\ LET counted == {v[1] : v \in ev.valid} IN
     ev' = [ev EXCEPT !.pending = @ \ {a},
                      !.rejected = @ \/ (Qualified(a) /\ a.verdict = "REJECTED"),
                      !.valid = IF Qualified(a) /\ a.verdict = "APPROVED" /\ CanonicalID(a.subject) \notin counted
                                THEN @ \union {<<CanonicalID(a.subject), people[PersonOf[a.subject]].roles>>} ELSE @]
  /\ UNCHANGED <<ever, decision>> /\ UNCHANGED Outside

\* Who gave a valid approval cannot be told now: it is passed over.
ApproverUnavailable(a) ==
  /\ AtStep("people") /\ a \in ev.pending /\ approvalBindingValid(a, ev.envelope, ev.now)
  /\ ev' = [ev EXCEPT !.pending = @ \ {a}]
  /\ UNCHANGED <<ever, decision>> /\ UNCHANGED Outside

\* One person in both roles would do.
SatisfiedByRoles(type, valid) ==
  IF type # "REVERT" THEN valid # {}
  ELSE \E s, o \in valid : hasAnyRole(s[2], {"SRE"}) /\ hasAnyRole(o[2], {"SERVICE_OWNER"})

Satisfied(type, valid) ==
  IF type # "REVERT" THEN valid # {}
  ELSE \E s, o \in valid : s[1] # o[1] /\ hasAnyRole(s[2], {"SRE"}) /\ hasAnyRole(o[2], {"SERVICE_OWNER"})

Earlier(x, y) == IF x < y THEN x ELSE y

\* A credential lives no longer than the envelope.
CredentialExpiry == IF ev.stage = "CREDENTIAL_ISSUE" THEN Earlier(ev.now + PlanOf.ttl, PlanOf.expires) ELSE 0

JudgeApprovals ==
  /\ AtStep("people") /\ ev.pending = {}
  /\ \/ ev.rejected /\ withReasons("DENY")
     \/ ~ev.rejected /\ ~Satisfied(PlanOf.type, ev.valid) /\ Unsatisfied
     \/ ~ev.rejected /\ Satisfied(PlanOf.type, ev.valid) /\ Decided("ALLOW", CredentialExpiry)

PolicyNext ==
  \/ PolicyTick
  \/ \E f \in FactNames : \E v \in OtherFacts[f] \union {FirstFacts[f]} : FactChanges(f, v)
  \/ \E p \in Persons, other \in OtherPeople : PersonChanges(p, other)
  \/ \E records \in [Keys -> OtherRecords] : ReplaceKeys(records)
  \/ \E s \in Subjects, verdict \in {"APPROVED", "REJECTED"}, e \in sealed : \E t \in {clock + 1, Content(e.plan).expires} : Decides(s, verdict, e, t)
  \/ \E c \in DOMAIN Contents, named \in Subjects \union {None}, s \in Subjects, k \in Keys : Propose(c, named, s, k)
  \/ \E stage \in Stages, e \in sealed : \E c \in Carried(e) : Evaluate(stage, c)
  \/ ReaderFails \/ ListApprovals \/ ApprovalsUnavailable \/ ResolveRequester \/ RequesterUnavailable \/ JudgeApprovals
  \/ \E r \in Readings("global") : ReadGlobal(r)
  \/ \E r \in Readings("scoped"), place \in Places : ReadScoped(r, place)
  \/ \E r \in Readings("target"), place \in Places : ReadTarget(r, place)
  \/ \E r \in Readings("risk") : ReadRisk(r)
  \/ \E r \in Readings("limits"), place \in Places : ReadLimits(r, place)
  \/ \E a \in approvals : ResolveApprover(a) \/ ApproverUnavailable(a)

PolicySpec == PolicyInit /\ [][PolicyNext]_policyVars

-----------------------------------------------------------------------------
(* Properties. *)

Allowed == decision.outcome = "ALLOW"

\* What is allowed was so: each switch was on, the target was listed, mapped exactly and in the
\* state of the plan (its version too, but for a GitOps application, which has its head), and its
\* risk and limits those of the plan, a scale within them, each at some moment no older than the age a snapshot of
\* it may have when the evaluation took the time (Engine.evaluate, fresh).
AllowIsCurrent ==
  Allowed => LET plan == Content(decision.envelope.plan)
                 Was(f, age, P(_)) == \E t \in (decision.now - age)..(decision.now + maxClockSkew) :
                                        \E v \in {x[2] : x \in {y \in past[f] : y[1] = t}} : P(v) IN
    /\ Was("global", MaxSafetySnapshotAge, LAMBDA v : v)
    /\ Was("scoped", MaxSafetySnapshotAge, LAMBDA v : Cardinality(v) = 3)
    /\ Was("target", MaxTargetSnapshotAge,
           LAMBDA v : /\ v.listed /\ v.exact /\ v.state = plan.state
                      /\ IF plan.type = "REVERT" THEN v.head = plan.head ELSE v.version = plan.version)
    /\ Was("risk", MaxTargetSnapshotAge, LAMBDA v : v.level = plan.level)
    /\ Was("limits", MaxTargetSnapshotAge, LAMBDA v : plan.type = "SCALE" => plan.scale.replicas \in v.min..v.max)

\* The people who decided on the plan this way and are not the one who asked for it.
Deciders(verdict, plan) ==
  {PersonOf[a.subject] : a \in {x \in approvals : x.verdict = verdict /\ x.hash = plan}} \ {PersonOf[plan.requester]}

\* Nobody's write is allowed on his own word: another person approved this very plan, and a
\* revert has two, one who was an SRE and one who was a service owner while it was evaluated,
\* under whatever names they signed in (evaluateApprovals).
AllowedByOthers ==
  Allowed => LET plan == decision.envelope.plan
                 Approvers == Deciders("APPROVED", plan) IN
    /\ \E p \in Approvers : ever[p] # {}
    /\ Content(plan).type = "REVERT" =>
         \E p, q \in Approvers : p # q /\ "SRE" \in ever[p] /\ "SERVICE_OWNER" \in ever[q]

=============================================================================
