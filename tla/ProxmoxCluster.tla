--------------------------- MODULE ProxmoxCluster ---------------------------
(* The provider of a Proxmox cluster: four reads in a fixed order, version, cluster
   status, nodes and machines, make one page, whole or of the nodes alone, or a proof for
   the validation of a source.  The cluster changes between the reads, and a read may be
   answered by another node of it, which has not yet heard of the change. *)
EXTENDS Integers, FiniteSets, Values

CONSTANTS
  Hosts,          \* the names of nodes
  Machines,       \* the virtual machines
  MaxPageItems,   \* Limits.MaxPageItems
  MaxChanges,     \* bound on what happens to the cluster
  MaxCalls        \* bound on the provider's calls

VARIABLES
  views,     \* what each of the two nodes that answer knows: [gen, name, members, on]
  membersOf, \* the members of each generation
  query,     \* the call under way
  offer,     \* the page returned and not yet committed
  place,     \* the committed checkpoint, None before the first
  proof,     \* what the last validation said
  changes, calls

clusterVars == <<views, membersOf, query, offer, place, proof, changes, calls>>

Answerers == {1, 2}
NoQuery == [at |-> "none", mode |-> "none", peer |-> 0, status |-> None, nodes |-> None]
Members(v) == {h \in Hosts : v.members[h] # "absent"}
Located(v) == {m \in Machines : v.on[m] # None}

ClusterInit ==
  /\ \E first \in Hosts :
       views = [p \in Answerers |->
                  [gen |-> 1, name |-> 1, members |-> [h \in Hosts |-> IF h = first THEN "online" ELSE "absent"],
                   on |-> [m \in Machines |-> None]]]
  /\ membersOf = [g \in {1} |-> Members(views[1])]
  /\ query = NoQuery /\ offer = None /\ place = None /\ proof = None /\ changes = 0 /\ calls = 0

-----------------------------------------------------------------------------
(* The cluster: the first node knows at once, the second when it hears of it. *)

Changes(v) ==
  /\ changes < MaxChanges /\ changes' = changes + 1
  /\ views' = [views EXCEPT ![1] = v]
  /\ UNCHANGED <<query, offer, place, proof, calls>>

\* Nodes come and go: that is a new generation.
MembershipChanges(h) ==
  LET now == views[1]
      status == IF now.members[h] = "absent" THEN "online" ELSE "absent"
      v == [now EXCEPT !.gen = @ + 1, !.members[h] = status]
  IN  /\ \A m \in Machines : now.on[m] # h
      /\ Members(v) # {}
      /\ Changes(v)
      /\ membersOf' = [g \in 1..v.gen |-> IF g = v.gen THEN Members(v) ELSE membersOf[g]]

NodeTurns(h) ==
  /\ views[1].members[h] # "absent"
  /\ Changes([views[1] EXCEPT !.members[h] = IF @ = "online" THEN "offline" ELSE "online"])
  /\ UNCHANGED membersOf
MachineMoves(m, h) ==
  /\ views[1].on[m] # h /\ (h # None => h \in Members(views[1]))
  /\ Changes([views[1] EXCEPT !.on[m] = h])
  /\ UNCHANGED membersOf
ClusterRenamed == Changes([views[1] EXCEPT !.name = 3 - @]) /\ UNCHANGED membersOf

Replicated ==
  /\ views[2] # views[1]
  /\ views' = [views EXCEPT ![2] = views[1]]
  /\ UNCHANGED <<membersOf, query, offer, place, proof, changes, calls>>

-----------------------------------------------------------------------------
(* The client: a fixed sequence of requests on verified connections. *)

\* What may be wrong with an answer: its status, its size, or its content.
readAndValidateResponse == {"credential", "busy", "incomplete", "network", "budget"}
validateWireEnvelope == {"protocol", "dlp"}
FaultsOf == readAndValidateResponse \cup validateWireEnvelope \cup {"context"}

\* The certificate of the first connection is the certificate of all; another one
\* reaches the caller as a failure of the network.
observe(p) == query.peer \in {0, p}
sanitizeTransportError(p, fault) == IF observe(p) THEN fault ELSE "network"

\* The path the request is for is the next of the sequence.
validateRequest(at) == query.at = at

open(mode) ==
  /\ query.at = "none" /\ offer = None /\ calls < MaxCalls
  /\ query' = [NoQuery EXCEPT !.at = "version", !.mode = mode]
  /\ calls' = calls + 1
  /\ UNCHANGED <<views, membersOf, offer, place, proof, changes>>

CloseSession == query' = NoQuery
Goes(at, p) == query' = [query EXCEPT !.at = at, !.peer = p]

-----------------------------------------------------------------------------
(* What is checked. *)

validClusterStatus(v) == Members(v) # {}
clusterIdentityDigest(status) == status.name

\* Nodes are the members of the status, in the same state; machines are on these nodes.
NoInventoryCheck(status, nodes, machines) == TRUE
validateInventory(status, nodes, machines) ==
  /\ DOMAIN nodes = Members(status)
  /\ \A h \in DOMAIN nodes : nodes[h] = status.members[h]
  /\ \A m \in DOMAIN machines : machines[m] \in DOMAIN nodes

ListNodes(v) == [h \in Members(v) |-> v.members[h]]
ListClusterResources(v) == [m \in Located(v) |-> v.on[m]]

AnyCheckpoint(status) == TRUE
CheckpointStands(status) ==
  place # None => place.name = clusterIdentityDigest(status) /\ place.gen <= status.gen

-----------------------------------------------------------------------------
(* Pages. *)

normalizeResource(machines) == DOMAIN machines
normalizeNode(nodes) == DOMAIN nodes
\* Each machine runs on its node, which contains it.
normalizeClusterRelation(machines) == UNION {{<<m, machines[m], "runs_on">>, <<machines[m], m, "contains">>} : m \in DOMAIN machines}
normalizeInventory(nodes, machines) ==
  IF Cardinality(DOMAIN nodes) + Cardinality(DOMAIN machines) > MaxPageItems THEN None
  ELSE [nodes |-> normalizeNode(nodes), machines |-> normalizeResource(machines), relations |-> normalizeClusterRelation(machines)]

encodeProviderCheckpoint(status) == [name |-> clusterIdentityDigest(status), gen |-> status.gen]

PageOf(facts, next, complete, held) == [facts |-> facts, next |-> next, complete |-> complete, gen |-> query.status.gen, held |-> held]

\* The machines could not be read: the nodes go alone, and the checkpoint stays.
partialPage(held) ==
  LET facts == normalizeInventory(query.nodes, <<>>)
  IN  offer' = IF facts = None \/ ~validateInventory(query.status, query.nodes, <<>>) THEN None
               ELSE PageOf(facts, place, FALSE, held)
wholePage(machines, held) ==
  LET facts == normalizeInventory(query.nodes, machines)
  IN  offer' = IF facts = None \/ ~validateInventory(query.status, query.nodes, machines) THEN None
               ELSE PageOf(facts, encodeProviderCheckpoint(query.status), TRUE, held)

PartialFaults == {"network", "incomplete"}

-----------------------------------------------------------------------------
(* The calls. *)

\* A proof for a fault, or none when the fault says nothing about the source.
validationResultForError(fault) ==
  CASE fault \in {"context", "busy"} -> None
    [] OTHER -> [outcome |-> "FAILED", check |-> fault, gen |-> 0, nodes |-> {}]
checkedValidationFailure(check) == [outcome |-> "FAILED", check |-> check, gen |-> 0, nodes |-> {}]
Succeeded == [outcome |-> "SUCCEEDED", check |-> "none", gen |-> query.status.gen, nodes |-> DOMAIN query.nodes]

Validating == query.mode = "validate"
\* The call ends without a page; a delay asks to be called again.
clusterFailureOrDelay(fault) ==
  /\ CloseSession /\ offer' = None
  /\ IF Validating /\ validationResultForError(fault) # None
     THEN proof' = validationResultForError(fault) ELSE UNCHANGED proof
  /\ UNCHANGED <<views, membersOf, place, changes, calls>>

\* One request of the sequence, answered by p with a fault, or soundly.
Faulty(at, p, fault) == validateRequest(at) /\ sanitizeTransportError(p, fault) # "none"
Fine(at, p) == validateRequest(at) /\ observe(p)
Kept == UNCHANGED <<views, membersOf, offer, place, proof, changes, calls>>

Version(p, fault) ==
  \/ Faulty("version", p, fault) /\ clusterFailureOrDelay(sanitizeTransportError(p, fault))
  \/ fault = "none" /\ Fine("version", p) /\ Goes("status", p) /\ Kept

ClusterStatus(p, fault) ==
  \/ Faulty("status", p, fault) /\ clusterFailureOrDelay(sanitizeTransportError(p, fault))
  \/ /\ fault = "none" /\ Fine("status", p)
     /\ IF validClusterStatus(views[p]) /\ (Validating \/ CheckpointStands(views[p]))
        THEN query' = [query EXCEPT !.at = "nodes", !.peer = p, !.status = views[p]] /\ Kept
        ELSE clusterFailureOrDelay("identity")

Nodes(p, fault) ==
  \/ Faulty("nodes", p, fault) /\ clusterFailureOrDelay(sanitizeTransportError(p, fault))
  \/ /\ fault = "none" /\ Fine("nodes", p)
     /\ query' = [query EXCEPT !.at = "machines", !.peer = p, !.nodes = ListNodes(views[p])]
     /\ Kept

Machinery(p, fault) ==
  \/ /\ Faulty("machines", p, fault)
     /\ IF ~Validating /\ sanitizeTransportError(p, fault) \in PartialFaults
        THEN /\ CloseSession /\ partialPage(Located(views[p]))
             /\ UNCHANGED <<views, membersOf, place, proof, changes, calls>>
        ELSE clusterFailureOrDelay(sanitizeTransportError(p, fault))
  \/ /\ fault = "none" /\ Fine("machines", p) /\ ~Validating
     /\ CloseSession /\ wholePage(ListClusterResources(views[p]), Located(views[p]))
     /\ UNCHANGED <<views, membersOf, place, proof, changes, calls>>

ValidateCluster(p) ==
  /\ Fine("machines", p) /\ Validating /\ CloseSession
  /\ proof' = IF validateInventory(query.status, query.nodes, ListClusterResources(views[p])) THEN Succeeded
              ELSE checkedValidationFailure("identity")
  /\ UNCHANGED <<views, membersOf, offer, place, changes, calls>>

\* The page is committed with its checkpoint, or lost.
PageCommitted ==
  /\ offer # None /\ place' = offer.next /\ offer' = None
  /\ UNCHANGED <<views, membersOf, query, proof, changes, calls>>
PageLost ==
  /\ offer # None /\ offer' = None
  /\ UNCHANGED <<views, membersOf, query, place, proof, changes, calls>>

ClusterMoves ==
  \/ \E h \in Hosts : MembershipChanges(h) \/ NodeTurns(h)
  \/ \E m \in Machines, h \in Hosts \cup {None} : MachineMoves(m, h)
  \/ ClusterRenamed
  \/ Replicated

ClusterNext ==
  \/ ClusterMoves
  \/ \E mode \in {"discover", "validate"} : open(mode)
  \/ \E p \in Answerers, fault \in FaultsOf \cup {"none"} :
       Version(p, fault) \/ ClusterStatus(p, fault) \/ Nodes(p, fault) \/ Machinery(p, fault)
  \/ \E p \in Answerers : ValidateCluster(p)
  \/ PageCommitted
  \/ PageLost

-----------------------------------------------------------------------------
(* Properties. *)

\* A page names exactly the members of the generation its checkpoint records, though
\* status, nodes and machines are read one after the other while the cluster changes; its
\* relations join objects of the page; only a whole page may make the catalog retire
\* what it does not list, and it lists every machine its answerer knew (validateInventory,
\* peerDigestTracker.observe, partialPage).  The same holds of the nodes of a proof.
PageOfOneCluster ==
  /\ offer # None =>
       /\ offer.facts.nodes = membersOf[offer.gen]
       /\ \A r \in offer.facts.relations : {r[1], r[2]} \subseteq offer.facts.nodes \cup offer.facts.machines
       /\ IF offer.complete THEN offer.facts.machines = offer.held ELSE offer.next = place
  /\ proof # None => (proof.outcome = "SUCCEEDED" => proof.nodes = membersOf[proof.gen])

\* The committed checkpoint never goes back to an earlier generation of the cluster or on
\* to another cluster, whichever node answers (Discover's check of the checkpoint).
PlaceNeverFalls == [][place # None => place'.gen >= place.gen /\ place'.name = place.name]_clusterVars
=============================================================================
