------------------------------- MODULE MCLeases -------------------------------
(* Parts that share nothing, each by itself: the repository of execution leases; the authority
   over the material of a CMDB attempt; the reading of a vCenter of two roots by an attempt and
   its successor; what is made of the references of one root, those about machines or those
   about hosts and pools; and the asset inventory, with two objects of one source, one of them
   twin to an object of another. *)
EXTENDS ExecutionLease, RuntimeAuthority, VsphereInventory, VsphereTopology, AssetInventory

CONSTANTS e1, e2, t1, x1, x2, y1, sx, sy

MCRequests ==
  {[id |-> e1, target |-> t1, pool |-> "READ", production |-> FALSE],
   [id |-> e2, target |-> t1, pool |-> "READ", production |-> FALSE],
   [id |-> e2, target |-> t1, pool |-> "WRITE", production |-> TRUE]}

MCThings == {"r", "v", "w"}
MCContainment == {<<"r", "v">>}
MCRootOf == [r |-> 1, v |-> 1, w |-> 2]
MCRootThing == <<"r", "w">>

MCNodeType ==
  [d1 |-> "Datacenter", d2 |-> "Datacenter", f1 |-> "Folder", f2 |-> "Folder", f3|-> "Folder",
   v |-> "VirtualMachine", c |-> "ComputeResource", h |-> "HostSystem", p |-> "ResourcePool",
   q |-> "ResourcePool"]
MCNodes == DOMAIN MCNodeType
In(from, property, tos) == {<<from, property, to>> : to \in tos}
MachineReferences ==
  In("d1", "vmFolder", {"f1", "f3"}) \cup In("d2", "vmFolder", {"f2", "f3"})
  \cup In("f1", "childEntity", {"f2", "f3"}) \cup In("f2", "childEntity", {"f3", "v"})
  \cup In("f3", "childEntity", {"f1", "f2", "v"})
HostReferences ==
  In("f1", "childEntity", {"c", "p"}) \cup In("f2", "childEntity", {"c"}) \cup In("c", "host", {"h"})
  \cup In("c", "resourcePool", {"p"}) \cup In("d1", "hostFolder", {"f1"})
  \cup In("p", "resourcePool", {"q"}) \cup In("q", "resourcePool", {"p", "q"})
  \cup In("v", "resourcePool", {"q"}) \cup In("v", "runtime.host", {"h"}) \cup In("h", "vm", {"v"})
MCInventories == {<<MCNodes \ {"c", "h", "p", "q"}, MachineReferences>>, <<MCNodes, HostReferences>>}

MCSourceOf == [o \in Objects |-> IF o = y1 THEN sy ELSE sx]
MCMaxRuns == [s \in Sources |-> IF s = sx THEN 3 ELSE 1]
MCMaxOrder == [s \in Sources |-> IF s = sx THEN 2 ELSE 1]
MCEdges == {<<x1, x2, 1>>, <<x1, x2, 2>>}
MCSequenced == {<<x1, x2, 1>>}
MCFingerprint == [o \in Objects |-> IF o = x2 THEN 2 ELSE 1]

\* The inventory is taken three ways: everything together, under one revision and order and with one
\* conflict and path; revisions, orders and paths two of each, of a source alone; and two conflicts at once.
OneOfEach ==
  /\ \A s \in Sources : run'[s].rev = 1 /\ run'[s].n <= 2
  /\ \A x \in observations' : x.order = 1
  /\ \A e \in Edges : e \notin Sequenced => edges'[e] = None
  /\ Len(conflicts') <= 1
OneSource ==
  /\ run'[sy].n = 0 /\ run'[sx].n + run'[sx].rev <= 4
  /\ run'[sx].n = 3 => UNCHANGED observations
  /\ \A o \in Objects : assets'[o] # None => assets'[o].life \in {"DISCOVERED", "ACTIVE", "STALE"}
TwinsOnly ==
  /\ UNCHANGED edges /\ run'[sx].n <= 2 /\ \A x \in observations' : x.object # x2 /\ x.order = 1

VARIABLE half
vcenterVars == <<readVars, topologyVars>>
allVars == <<half, vars, rtVars, vcenterVars, inventoryVars>>

MCInit ==
  /\ half \in {"leases", "authority", "reading", "topology", "inventory", "orders", "conflicts"}
  /\ Init /\ RtInit /\ ReadInit /\ TopologyInit /\ InventoryInit
  /\ half # "topology" => present = MCNodes /\ fields = {}

MCNext ==
  /\ UNCHANGED half
  /\ \/ half = "leases" /\ Next /\ UNCHANGED <<rtVars, vcenterVars, inventoryVars>>
     \/ half = "authority" /\ RtNext /\ UNCHANGED <<vars, vcenterVars, inventoryVars>>
     \/ half = "reading" /\ ReadNext /\ UNCHANGED <<vars, rtVars, topologyVars, inventoryVars>>
     \/ half = "topology" /\ TopologyNext /\ UNCHANGED <<vars, rtVars, readVars, inventoryVars>>
     \/ /\ half \in {"inventory", "orders", "conflicts"} /\ InventoryNext
        /\ half = "inventory" => OneOfEach
        /\ half = "orders" => OneSource
        /\ half = "conflicts" => TwinsOnly
        /\ UNCHANGED <<vars, rtVars, vcenterVars>>

\* What a discovery reads of a vCenter is one inventory, read to its end, and it leaves no
\* session behind.
VcenterSafety == ReadingSafety /\ TopologySafety

MCSpec == MCInit /\ [][MCNext]_allVars
=============================================================================
