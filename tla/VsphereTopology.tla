--------------------------- MODULE VsphereTopology ---------------------------
(***************************************************************************)
(* internal/assetsource/vsphere: what becomes of the references between    *)
(* the objects of one authority root once all of it has been read: the     *)
(* relations they stand for, the checks that these form trees, the         *)
(* ComputeResources that are looked through, and which datacenter each     *)
(* virtual machine is in.  The walks over the folders are done step by     *)
(* step, with the loops and stacks of the code.                            *)
(***************************************************************************)
EXTENDS Values, Integers, Sequences, FiniteSets, SequencesExt

CONSTANTS
  Nodes,        \* managed objects
  NodeType,     \* [Nodes -> managed object types]
  Inventories   \* what a root may hold: its objects, and the properties they may have
                \* (<<object, property, object>>)

VARIABLES
  present,   \* seenObjects: the objects of the root, all of them read
  fields,    \* the properties they have
  relations, \* topologyRelations
  derived,   \* the relations added for what is looked through and for the machines
  phase,     \* the check under way, or the verdict
  colors,    \* the walk's marks: nodes being visited, and visited
  stack,     \* the walk's frames: a node, and its children still to look at
  members,   \* folderMembership and vmMembership
  roots      \* the vmRoots still to walk from

topologyVars == <<present, fields, relations, derived, phase, colors, stack, members, roots>>

Type(n) == NodeType[n]

inventoryPropertyAllowed(type, property) ==
  \/ type \in {"ComputeResource", "ClusterComputeResource"} /\ property \in {"host", "resourcePool"}
  \/ type = "Folder" /\ property = "childEntity"
  \/ type = "Datacenter" /\ property \in {"vmFolder", "hostFolder"}
  \/ type = "ResourcePool" /\ property \in {"resourcePool", "vm"}
  \/ type = "VirtualMachine" /\ property \in {"runtime.host", "resourcePool"}

isTransparentInventoryObjectType(type) == type = "ComputeResource"

inventoryRelation(from, to, type, path) == [from |-> from, to |-> to, type |-> type, path |-> path]
InContains(from, to, path) == inventoryRelation(from, to, "CONTAINS", path)

\* A reference as a relation: a machine is in its pool, and runs on its host.
decodeInventoryObject(f) ==
  CASE Type(f[1]) = "VirtualMachine" /\ f[2] = "runtime.host" -> inventoryRelation(f[1], f[3], "RUNS_ON", None)
    [] Type(f[1]) = "VirtualMachine" /\ f[2] = "resourcePool" -> InContains(f[3], f[1], None)
    [] f[2] = "childEntity" -> InContains(f[1], f[3], "FOLDER_CHILD")
    [] f[2] = "vmFolder" -> InContains(f[1], f[3], "DATACENTER_VM_ROOT")
    [] OTHER -> InContains(f[1], f[3], None)

\* relationKeys tells relations apart by their ends and type: the path is that of whichever
\* was decoded first.
decodeInventoryResult(fs) ==
  LET all == {decodeInventoryObject(f) : f \in fs}
      same(r) == {q \in all : <<q.from, q.to, q.type>> = <<r.from, r.to, r.type>>}
  IN {pick \in SUBSET all : \A r \in all : Cardinality(pick \cap same(r)) = 1}

Along(path) == {r \in relations : r.path = path}
Between(rs, froms, tos) == {r \in rs : Type(r.from) \in froms /\ Type(r.to) \in tos /\ r.type = "CONTAINS"}
FolderChildren == {r \in Along("FOLDER_CHILD") : Type(r.from) = "Folder" /\ r.type = "CONTAINS"}
Compute == {"ComputeResource", "ClusterComputeResource"}
ComputeOwned == Between(relations, Compute, {"HostSystem", "ResourcePool"})
PoolOwned == Between(relations, Compute \cup {"ResourcePool"}, {"ResourcePool"})

recordUniqueInventoryOwner(rs) == \A q, r \in rs : q.to = r.to => q.from = r.from

\* The owners of validateContainmentTopology.
validOwners ==
  /\ recordUniqueInventoryOwner(FolderChildren)
  /\ recordUniqueInventoryOwner(ComputeOwned)
  /\ recordUniqueInventoryOwner(PoolOwned)
  /\ {r.to : r \in FolderChildren} \cap {r.to : r \in ComputeOwned} = {}

\* The graphs that must be free of cycles.
folderGraph == {<<r.from, r.to>> : r \in Between(FolderChildren, {"Folder"}, {"Folder"})}
resourcePoolGraph == {<<r.from, r.to>> : r \in Between(PoolOwned, {"ResourcePool"}, {"ResourcePool"})}

TopologyInit ==
  /\ \E holds \in Inventories : present = holds[1] /\ fields \in SUBSET holds[2]
  /\ relations = {} /\ derived = {} /\ phase = "decode"
  /\ colors = [n \in Nodes |-> "new"] /\ stack = <<>>
  /\ members = [n \in Nodes |-> None] /\ roots = {}

Decided(verdict) ==
  /\ phase' = verdict
  /\ UNCHANGED <<present, fields, relations, derived, colors, stack, members, roots>>

Decode ==
  /\ phase = "decode"
  /\ IF \A f \in fields : inventoryPropertyAllowed(Type(f[1]), f[2])
     THEN /\ \E rs \in decodeInventoryResult(fields) : relations' = rs
          /\ phase' = "owners"
          /\ UNCHANGED <<present, fields, derived, colors, stack, members, roots>>
     ELSE Decided("rejected")

validateContainmentTopology ==
  phase = "owners" /\ Decided(IF validOwners THEN "folders" ELSE "rejected")

-----------------------------------------------------------------------------
(* inventoryDirectedGraphAcyclic *)

Graph == IF phase = "folders" THEN folderGraph ELSE resourcePoolGraph
EdgeNodes(graph) == {e[1] : e \in graph} \cup {e[2] : e \in graph}
Children(graph, n) == {e[2] : e \in {e \in graph : e[1] = n}}
Frame(graph, n) == <<n, Children(graph, n)>>
Push(graph, n) ==
  /\ colors' = [colors EXCEPT ![n] = "visiting"]
  /\ stack' = Append(stack, Frame(graph, n))
Top == Last(stack)
TopLooksAt(child) == stack' = [stack EXCEPT ![Len(stack)] = <<Top[1], Top[2] \ {child}>>]

WalkStarts ==
  /\ phase \in {"folders", "pools"} /\ stack = <<>>
  /\ \E n \in EdgeNodes(Graph) : colors[n] = "new" /\ Push(Graph, n)
  /\ UNCHANGED <<present, fields, relations, derived, phase, members, roots>>

\* Variant: a visited child is taken for a cycle.
TakesVisitedForCycle(child) == colors[child] # "new"

meetsCycle(child) == colors[child] = "visiting"

WalkChild ==
  /\ phase \in {"folders", "pools"} /\ stack # <<>>
  /\ \E child \in Top[2] :
       IF meetsCycle(child) THEN Decided("rejected")
       ELSE /\ IF colors[child] = "new"
               THEN /\ colors' = [colors EXCEPT ![child] = "visiting"]
                    /\ stack' = Append([stack EXCEPT ![Len(stack)] = <<Top[1], Top[2] \ {child}>>],
                                       Frame(Graph, child))
               ELSE TopLooksAt(child) /\ UNCHANGED colors
            /\ UNCHANGED <<present, fields, relations, derived, phase, members, roots>>

Popped ==
  /\ colors' = [colors EXCEPT ![Top[1]] = "visited"]
  /\ stack' = Front(stack)

WalkReturns ==
  /\ phase \in {"folders", "pools"} /\ stack # <<>> /\ Top[2] = {}
  /\ Popped
  /\ UNCHANGED <<present, fields, relations, derived, phase, members, roots>>

\* Every node is visited: the other graph, or what is derived.
WalkEnds ==
  /\ phase \in {"folders", "pools"} /\ stack = <<>>
  /\ \A e \in Graph : {colors[e[1]], colors[e[2]]} = {"visited"}
  /\ phase' = IF phase = "folders" THEN "pools" ELSE "transparent"
  /\ colors' = [n \in Nodes |-> "new"]
  /\ UNCHANGED <<present, fields, relations, derived, stack, members, roots>>

-----------------------------------------------------------------------------
(* What is looked through *)

Transparent == {n \in present : isTransparentInventoryObjectType(Type(n))}
Parents(n) == {r \in relations : r.to = n}
Offspring(n) == {r \in relations : r.from = n}

validTransparent(n) ==
  /\ Cardinality(Parents(n)) = 1
  /\ \A r \in Parents(n) : r.type = "CONTAINS" /\ Type(r.from) = "Folder"
  /\ Offspring(n) # {}
  /\ \A r \in Offspring(n) : r.type = "CONTAINS" /\ Type(r.to) \in {"HostSystem", "ResourcePool"}

LookedThrough == {InContains(p.from, c.to, None) : <<p, c>> \in
  {<<p, c>> \in relations \X relations : p.to \in Transparent /\ p.to = c.from}}

Key(r) == <<r.from, r.to, r.type>>

\* A relation that is already there, or two nodes that give the same one, is an error.
finalizeTransparentTopology ==
  /\ phase = "transparent"
  /\ IF /\ \A n \in Transparent : validTransparent(n)
        /\ {Key(r) : r \in LookedThrough} \cap {Key(r) : r \in relations} = {}
     THEN /\ derived' = LookedThrough
          /\ phase' = "machines"
          /\ roots' = Along("DATACENTER_VM_ROOT")
          /\ UNCHANGED <<present, fields, relations, colors, stack, members>>
     ELSE Decided("rejected")

-----------------------------------------------------------------------------
(* finalizeDatacenterVMTopology *)

MachineGraph == {<<r.from, r.to>> : r \in Along("FOLDER_CHILD")}

validVMRoots ==
  /\ \A r \in Along("DATACENTER_VM_ROOT") : Type(r.from) = "Datacenter" /\ Type(r.to) = "Folder"
  /\ recordUniqueInventoryOwner(Along("DATACENTER_VM_ROOT"))
  /\ \A r \in Along("FOLDER_CHILD") : Type(r.from) = "Folder"

RootsRejected == phase = "machines" /\ stack = <<>> /\ roots # {} /\ ~validVMRoots /\ Decided("rejected")

\* The next datacenter's folder of machines: it has no folder above it.
MachinesFrom(r) ==
  /\ phase = "machines" /\ stack = <<>> /\ r \in roots /\ validVMRoots
  /\ IF \/ \E p \in Along("FOLDER_CHILD") : p.to = r.to
        \/ members[r.to] \notin {None, r.from}
     THEN Decided("rejected")
     ELSE /\ roots' = roots \ {r}
          /\ members' = [members EXCEPT ![r.to] = r.from]
          /\ IF colors[r.to] = "visited" THEN UNCHANGED <<colors, stack>> ELSE Push(MachineGraph, r.to)
          /\ UNCHANGED <<present, fields, relations, derived, phase>>

Datacenter == members[Top[1]]

MachinesChild ==
  /\ phase = "machines" /\ stack # <<>>
  /\ \E child \in Top[2] :
       IF \/ members[child] \notin {None, Datacenter}
          \/ Type(child) \notin {"Folder", "VirtualMachine"}
          \/ Type(child) = "Folder" /\ meetsCycle(child)
       THEN Decided("rejected")
       ELSE /\ members' = [members EXCEPT ![child] = Datacenter]
            /\ IF Type(child) = "Folder" /\ colors[child] = "new"
               THEN /\ colors' = [colors EXCEPT ![child] = "visiting"]
                    /\ stack' = Append([stack EXCEPT ![Len(stack)] = <<Top[1], Top[2] \ {child}>>],
                                       Frame(MachineGraph, child))
               ELSE TopLooksAt(child) /\ UNCHANGED colors
            /\ UNCHANGED <<present, fields, relations, derived, phase, roots>>

MachinesReturn ==
  /\ phase = "machines" /\ stack # <<>> /\ Top[2] = {}
  /\ Popped
  /\ UNCHANGED <<present, fields, relations, derived, phase, members, roots>>

\* Variant: only those directly in the datacenter's folder.
TopLevelMachines == {InContains(members[n], n, None) :
  n \in {n \in Nodes : /\ Type(n) = "VirtualMachine" /\ members[n] # None
                       /\ \E r \in Along("DATACENTER_VM_ROOT") : <<r.to, n>> \in MachineGraph}}

Machines == {InContains(members[n], n, None) :
  n \in {n \in Nodes : Type(n) = "VirtualMachine" /\ members[n] # None}}

\* Each machine in its datacenter, unless that relation is there already.
MachinesEnd ==
  /\ phase = "machines" /\ stack = <<>> /\ roots = {}
  /\ derived' = derived \cup {r \in Machines : Key(r) \notin {Key(q) : q \in relations \cup derived}}
  /\ phase' = "accepted"
  /\ UNCHANGED <<present, fields, relations, colors, stack, members, roots>>

TopologyNext ==
  \/ Decode \/ validateContainmentTopology
  \/ WalkStarts \/ WalkChild \/ WalkReturns \/ WalkEnds
  \/ finalizeTransparentTopology
  \/ RootsRejected \/ (\E r \in roots : MachinesFrom(r)) \/ MachinesChild \/ MachinesReturn \/ MachinesEnd

TopologySpec == TopologyInit /\ [][TopologyNext]_topologyVars

-----------------------------------------------------------------------------
\* A graph has a cycle when some of its nodes each have a child among them.
Cyclic(graph) ==
  \E S \in SUBSET EdgeNodes(graph) \ {{}} : \A n \in S : Children(graph, n) \cap S # {}

\* What folders lead to from a datacenter's folder: in every set that is closed under them.
BelowRoot(r) ==
  LET closed == {S \in SUBSET EdgeNodes(MachineGraph) :
        /\ Children(MachineGraph, r.to) \subseteq S
        /\ \A n \in S : Children(MachineGraph, n) \subseteq S}
  IN {n \in EdgeNodes(MachineGraph) : \A S \in closed : n \in S}

(* The references are accepted if and only if they are trees: nothing has two owners, no
   folder or pool is inside itself, what is looked through has a folder and something in it,
   and under a datacenter's machine folder there are only folders and machines, of no other
   datacenter (validateContainmentTopology, inventoryDirectedGraphAcyclic,
   finalizeTransparentTopology, finalizeDatacenterVMTopology). *)
AcceptsTrees ==
  phase \in {"accepted", "rejected"} =>
    LET vm == Along("DATACENTER_VM_ROOT") IN
    (phase = "accepted") =
      (/\ \A f \in fields : inventoryPropertyAllowed(Type(f[1]), f[2])
       /\ \A n \in Nodes : \A rs \in {FolderChildren, ComputeOwned, PoolOwned, vm} :
            Cardinality({r.from : r \in {r \in rs : r.to = n}}) <= 1
       /\ \A n \in Nodes : ~(\E q \in FolderChildren, r \in ComputeOwned : q.to = n /\ r.to = n)
       /\ ~Cyclic(folderGraph) /\ ~Cyclic(resourcePoolGraph)
       /\ \A n \in Transparent : validTransparent(n)
       /\ \A p, c \in relations : p.to \in Transparent /\ c.from = p.to =>
            ~\E r \in relations : r.from = p.from /\ r.to = c.to /\ r.type = "CONTAINS"
       /\ \A r \in vm :
            /\ Type(r.from) = "Datacenter" /\ Type(r.to) = "Folder"
            /\ ~\E p \in FolderChildren : p.to = r.to
            /\ \A n \in BelowRoot(r) : Type(n) \in {"Folder", "VirtualMachine"}
            /\ \A q \in vm : q.from # r.from => BelowRoot(q) \cap BelowRoot(r) = {})

(* A machine is found in exactly the datacenter whose folders lead to it
   (finalizeDatacenterVMTopology). *)
MachineInItsDatacenter ==
  phase = "accepted" =>
    \A d \in Nodes, n \in Nodes : Type(d) = "Datacenter" /\ Type(n) = "VirtualMachine" =>
      (InContains(d, n, None) \in derived) = (\E r \in Along("DATACENTER_VM_ROOT") : r.from = d /\ n \in BelowRoot(r))

(* What is made of the references of an inventory: trees only, and every machine where its
   folders put it (finalizeTransparentTopology, finalizeDatacenterVMTopology). *)
TopologySafety == AcceptsTrees /\ MachineInItsDatacenter
=============================================================================
