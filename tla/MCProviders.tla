----------------------------- MODULE MCProviders -----------------------------
(* Parts that share nothing, each by itself: the catalog of an external CMDB, a Proxmox
   cluster, the validation of a vCenter, the READ executor, and the policy engine. *)
EXTENDS CmdbCatalog, ProxmoxCluster, VsphereProbe, ReadExecutor, ActionPolicy

VARIABLE half
vars == <<half, cmdbVars, clusterVars, probeVars, executorReadVars, policyVars>>

\* Two assets and a relation, and one asset that breaks a rule.
Good(at, id) == [at |-> at, id |-> id, text |-> 1, sound |-> "accepted"]
Unsound == [Good(2, 2) EXCEPT !.sound = "SCHEMA"]
MCStock == {Good(1, 1), Good(2, 2), Unsound}
Shelf(assets, whole) == [assets |-> assets, relations |-> <<Good(1, 1)>>, whole |-> whole]
MCShelves ==
  {[s \in Snapshots |-> IF s = <<1, 1>> THEN Shelf(<<Good(1, 1), Good(2, 2)>>, TRUE) ELSE Shelf(<<Good(2, 2)>>, w)] : w \in BOOLEAN}
  \cup {[s \in Snapshots |-> Shelf(<<Unsound>>, TRUE)]}
Plainest == \A s \in Snapshots : shelf[s].whole /\ Unsound \notin Objects(shelf[s].assets)
CatalogInit ==
  \/ honest /\ pulls = MaxPulls /\ verdict.outcome = "NONE"
  \/ ~honest /\ Plainest /\ <<verdict.outcome, pulls>> \in {<<"NONE", 0>>, <<"EARLIER", 3>>}

Policy(scope, prefixes) == [scope |-> scope, host |-> "a", prefixes |-> prefixes]
Target(kind) == [scope |-> 1, host |-> "a", kind |-> kind]
MCBundles ==
  {[policies |-> {Policy(1, {{1}, {2}}), Policy(2, {{3}})}, targets |-> {Target("prometheus"), Target("victorialogs")}],
   [policies |-> {Policy(1, {{1, 4}})}, targets |-> {Target("prometheus")}],
   [policies |-> {Policy(2, {{3}})}, targets |-> {Target("prometheus")}]}
Asked(kind, bind, shape) == [task |-> 1, scope |-> 1, kind |-> kind, bound |-> bind, shape |-> shape]
MCTasks ==
  {Asked("prometheus", "this", "sound"), Asked("victorialogs", "this", "sound"), Asked("prometheus", "other", "sound"),
   Asked("prometheus", "this", "overlong"), Asked("prometheus", "this", "malformed")}
MCStarts == [task : {1}, epoch : {1, 2}] \cup {[task |-> 2, epoch |-> 1]}
Reply(points) == [tls |-> TRUE, status |-> 200, typed |-> TRUE, rows |-> points]
Point(key, t) == [key |-> key, at |-> t]
MCReplies ==
  {Reply(<<>>), Reply(<<Point(1, 2), Point(2, 4)>>), Reply(<<Point(2, 3), Point(1, 2)>>), Reply(<<Point(2, 2), Point(1, 2)>>),
   Reply(<<Point(0, 2)>>), Reply(<<Point(1, 2), Point(2, 2), Point(3, 2)>>),
   [Reply(<<>>) EXCEPT !.tls = FALSE], [Reply(<<>>) EXCEPT !.status = 503], [Reply(<<>>) EXCEPT !.typed = FALSE]}

-----------------------------------------------------------------------------
(* A revert and a scale, requested by R under the first of his two names.  A has two names too. *)

Revert ==
  [id |-> "act", type |-> "REVERT", target |-> {"gitops"}, parameters |-> {"REVERT"}, observed |-> {"gitops"},
   version |-> 0, expectedVersion |-> 0, expectedHead |-> 7, head |-> 7, state |-> [desired |-> 7],
   place |-> "here", resource |-> "here", permission |-> "REVERT", verification |-> "ARGO",
   scale |-> 0, hosts |-> <<>>, serial |-> 0, reason |-> "", level |-> "LOW", reasons |-> <<1>>,
   exact |-> TRUE, listed |-> TRUE, notBefore |-> 0, expires |-> 2, ttl |-> 1, policy |-> 1]
Scale ==
  [Revert EXCEPT !.type = "SCALE", !.target = {"kubernetes"}, !.parameters = {"SCALE"}, !.observed = {"kubernetes"},
   !.version = 3, !.expectedVersion = 3, !.expectedHead = 0, !.permission = "SCALE", !.verification = "ROLLOUT",
   !.state = [generation |-> 1, replicas |-> 2, available |-> 2, updated |-> 1],
   !.scale = [min |-> 1, max |-> 3, replicas |-> 3, checked |-> TRUE]]
MCContents ==
  [revert |-> Revert, scale |-> Scale, longer |-> [Revert EXCEPT !.ttl = 2],
   mixed |-> [Scale EXCEPT !.target = {"awx", "kubernetes"}, !.place = "there"]]
MCPersonOf == [r1 |-> "R", r2 |-> "R", a1 |-> "A", a2 |-> "A", b |-> "B"]
MCFirst ==
  [global |-> TRUE, scoped |-> {"environment", "connector", "action"},
   target |-> [kind |-> "gitops", exact |-> TRUE, listed |-> TRUE, version |-> 0, state |-> Revert.state, head |-> 7,
               hosts |-> <<>>, checked |-> FALSE],
   risk |-> [place |-> "here", action |-> "act", hash |-> [content |-> "revert", requester |-> "r1"],
             digest |-> TargetDigest(Revert), policy |-> 1, level |-> "LOW", reasons |-> <<1>>],
   limits |-> [min |-> 0, max |-> 0, hosts |-> 0]]
ScaleFacts ==
  [MCFirst EXCEPT
     !.target = [@ EXCEPT !.kind = "kubernetes", !.version = 3, !.state = Scale.state, !.head = 0, !.checked = TRUE],
     !.risk = [@ EXCEPT !.hash = [content |-> "scale", requester |-> "r1"], !.digest = TargetDigest(Scale)],
     !.limits = [min |-> 1, max |-> 3, hosts |-> 0]]

\* Drifts of both targets.  The other version of the application is one the gate does not look at.
MCOther ==
  [global |-> {FALSE}, scoped |-> {{"environment", "action"}},
   target |-> {[MCFirst.target EXCEPT !.version = 1], [MCFirst.target EXCEPT !.head = 8, !.state = [desired |-> 8]],
               [ScaleFacts.target EXCEPT !.version = 4], [ScaleFacts.target EXCEPT !.state.available = 1]},
   risk |-> {[MCFirst.risk EXCEPT !.level = "HIGH"], [ScaleFacts.risk EXCEPT !.level = "HIGH"]},
   limits |-> {[min |-> 0, max |-> 1, hosts |-> 0], [min |-> 1, max |-> 2, hosts |-> 0]}]
MCPermitted == ActionTypes \X Stages
MCPeople == {[active |-> FALSE, roles |-> {"SRE"}], [active |-> TRUE, roles |-> {"SERVICE_OWNER"}]}
Record(revoked, activeAt, retireAt) == [revoked |-> revoked, activeAt |-> activeAt, retireAt |-> retireAt]
MCRecords == {Record(TRUE, 0, 0), Record(FALSE, 1, 1), Record(FALSE, 0, 1), Record(FALSE, 1, 2)}

Begun(content) == Seal(content, None, "r1", CHOOSE k \in Keys : TRUE)
Voted(s, content, t) ==
  [subject |-> s, verdict |-> "APPROVED", hash |-> Begun(content).hash, shown |-> content, decidedAt |-> 0, expiresAt |-> t]
World(facts) == presentFacts = facts /\ past = [f \in FactNames |-> {<<0, facts[f]>>}]

\* The facts are those of the plan, or one of them was another before anybody looked.
AnyWorld(facts, drifts) == World(facts) \/ \E d \in drifts : World([facts EXCEPT ![d[1]] = d[2]])

\* Nothing proposed yet; or all approvals of a revert or of a scale given, and the world may change;
\* or one of a revert given, and people decide.
GateInit ==
  /\ clock = 0
  /\ keys = [k \in Keys |-> Record(FALSE, 0, 0)]
  /\ ev = None /\ decision = NoDecision /\ ever = [p \in Persons |-> {}]
  /\ people \in [Persons -> [active : {TRUE}, roles : {{"SRE"}, {"SRE", "SERVICE_OWNER"}, {"SERVICE_OWNER"}}]]
  /\ people["R"].roles = {"SRE"}
  /\ \/ /\ sealed = {} /\ policyChanges = MaxPolicyChanges /\ evaluations = MaxEvaluations
        /\ approvals = {Voted("a1", "revert", 2), Voted("b", "revert", 1)} /\ World(FirstFacts)
        /\ people["A"].roles = {"SRE"} /\ people["B"].roles = {"SERVICE_OWNER"}
     \/ /\ sealed = {Begun("revert")} /\ policyChanges = 0 /\ evaluations = 0
        /\ AnyWorld(FirstFacts, {<<"target", [MCFirst.target EXCEPT !.head = 8, !.state = [desired |-> 8]]>>})
        /\ approvals = {Voted("a1", "revert", 2), Voted("b", "revert", 2)}
        /\ people["A"].roles = {"SRE"} /\ people["B"].roles = {"SERVICE_OWNER"}
     \/ /\ sealed = {Begun("scale")} /\ policyChanges = 0 /\ evaluations = 0
        /\ AnyWorld(ScaleFacts, {<<"limits", [min |-> 1, max |-> 2, hosts |-> 0]>>,
                                 <<"target", [ScaleFacts.target EXCEPT !.version = 4]>>})
        /\ approvals = {Voted("a1", "scale", 2), Voted("b", "scale", 2)}
        /\ people["A"].roles = {"SRE"} /\ people["B"].roles = {"SERVICE_OWNER"}
     \/ /\ sealed = {Begun("revert")} /\ policyChanges = MaxPolicyChanges /\ evaluations = 0 /\ World(FirstFacts)
        /\ approvals = {Voted("a1", "revert", 2)}

-----------------------------------------------------------------------------
OneOf(S) == CHOOSE x \in S : TRUE

\* The parts that do not move are in one state.
MCInit ==
  /\ half \in {"cmdb", "cluster", "probe", "executor", "policy"}
  /\ CmdbInit /\ CatalogInit /\ ClusterInit /\ ProbeInit /\ ExecutorReadInit /\ GateInit
  /\ half # "cmdb" => ~honest /\ pulls = 0
  /\ half # "cluster" => views[1].members[OneOf(Hosts)] = "online"
  /\ half # "executor" => bundle = OneOf(Bundles)
  /\ half # "policy" => sealed = {}

MCNext ==
  /\ UNCHANGED half
  /\ \/ half = "cmdb" /\ CmdbNext /\ UNCHANGED <<clusterVars, probeVars, executorReadVars, policyVars>>
     \/ half = "cluster" /\ ClusterNext /\ UNCHANGED <<cmdbVars, probeVars, executorReadVars, policyVars>>
     \/ half = "probe" /\ ProbeNext /\ UNCHANGED <<cmdbVars, clusterVars, executorReadVars, policyVars>>
     \/ half = "executor" /\ ExecutorReadNext /\ UNCHANGED <<cmdbVars, clusterVars, probeVars, policyVars>>
     \/ half = "policy" /\ PolicyNext /\ UNCHANGED <<cmdbVars, clusterVars, probeVars, executorReadVars>>

\* What sources say of themselves can be believed: whole snapshots of one catalog and of one
\* cluster, and proofs that leave nothing behind.
SourcesSafety ==
  /\ CompleteIsWhole /\ NeverStepsBack /\ ValidatedCanBeRead
  /\ PageOfOneCluster /\ ProofLeavesNoSession

\* A READ execution keeps its token inside the policy, sends once, and answers for its own.
ReadingSafety == TokenStaysInPolicy /\ PreparedSendsOnce /\ CompletionIsOwn

\* A write is allowed on current facts and on the word of others.
AllowSafety == AllowIsCurrent /\ AllowedByOthers

MCSpec == MCInit /\ [][MCNext]_vars
=============================================================================
