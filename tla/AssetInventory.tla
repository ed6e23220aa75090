---------------------------- MODULE AssetInventory ----------------------------
(***************************************************************************)
(* The inventory discovery writes and operators govern:                    *)
(* internal/assetcatalog/postgres page_projection.go, assets.go and        *)
(* mappings.go.  A page of a run and a command are each one serializable   *)
(* transaction; a refused page or command changes nothing and is a         *)
(* stuttering step.                                                        *)
(*                                                                         *)
(* An object is what a provider reports under one identity (source,        *)
(* provider kind, external id); its asset has the same identity.  A fact   *)
(* stands for the digest of everything a provider said of an object, Gone  *)
(* for a tombstone.  Document revisions, display names and governance      *)
(* fields are left out: no decision reads them.                            *)
(***************************************************************************)
EXTENDS Values, Integers, Sequences, FiniteSets

CONSTANTS
  Objects,       \* identities the providers report
  Sources,       \* asset sources
  SourceOf,      \* the source of an object
  Fingerprint,   \* the fingerprint digest an object is reported with
  Edges,         \* relations: two objects of one source, and the path code they were found under
  Sequenced,     \* the relations whose freshness is a catalog or checkpoint sequence, not a time
  Facts,         \* what may be said of an object that exists
  Gone,          \* a tombstone
  Services,      \* services an asset may be bound to
  MaxRuns,       \* bound on the runs of each source
  MaxRevision,   \* bound on the published revisions of a source
  MaxOrder,      \* bound on the freshness orders of each source
  MaxConflicts   \* bound on the conflicts

ASSUME InventoryConstants ==
  /\ SourceOf \in [Objects -> Sources]
  /\ \A e \in Edges : e \in Objects \X Objects \X Nat /\ SourceOf[e[1]] = SourceOf[e[2]]
  /\ Sequenced \subseteq Edges
  /\ {MaxRuns, MaxOrder} \subseteq [Sources -> Nat]
  /\ MaxRevision \in Nat \ {0} /\ MaxConflicts \in Nat
  /\ Gone \notin Facts

VARIABLES
  run,           \* run[s]: the latest data run of the source
  observations,  \* asset_observations, append only
  assets,        \* assets, by identity
  edges,         \* asset_relationships, by their two ends
  conflicts,     \* asset_conflicts, in the order they were opened
  bindings       \* the ACTIVE rows of service_asset_bindings

inventoryVars == <<run, observations, assets, edges, conflicts, bindings>>

Lifecycles == {"DISCOVERED", "ACTIVE", "STALE", "QUARANTINED", "RETIRED"}
Mappings == {"UNRESOLVED", "AMBIGUOUS", "EXACT"}
Said == Facts \cup {Gone}

\* open: pages may still come.  rejected: a page of the run rejected something.
\* complete: its last page claimed the whole inventory and nothing was rejected.
RunRow ==
  [n : Nat, rev : 1..MaxRevision, open : BOOLEAN, rejected : BOOLEAN,
   complete : BOOLEAN]

\* projected: an asset pointed to it; a rejected item leaves only its observation.
Observation ==
  [object : Objects, run : Nat, rev : 1..MaxRevision, order : Nat, fact : Said,
   projected : BOOLEAN]

\* The row with the observation it points to: rev, order, fact and run are its.
Asset ==
  [life : Lifecycles, mapping : Mappings, rev : 1..MaxRevision, order : Nat,
   fact : Said, run : Nat]

Edge ==
  [active : BOOLEAN, rev : 1..MaxRevision, order : Nat, run : Nat]

ASSUME NoneIsNoRow == None \notin Asset \cup Edge

Conflict == [asset : Objects, status : {"OPEN", "RESOLVED", "REJECTED"}]

InventoryTypeOK ==
  /\ run \in [Sources -> RunRow]
  /\ observations \subseteq Observation
  /\ assets \in [Objects -> Asset \cup {None}]
  /\ edges \in [Edges -> Edge \cup {None}]
  /\ conflicts \in Seq(Conflict) /\ Len(conflicts) <= MaxConflicts
  /\ bindings \subseteq Services \X Objects

InventoryInit ==
  /\ run = [s \in Sources |-> [n |-> 0, rev |-> 1, open |-> FALSE, rejected |-> FALSE,
                          complete |-> FALSE]]
  /\ observations = {}
  /\ assets = [o \in Objects |-> None]
  /\ edges = [e \in Edges |-> None]
  /\ conflicts = <<>>
  /\ bindings = {}

-----------------------------------------------------------------------------
(* What a page is judged by. *)

Known(o) == assets[o] # None

\* The run of the source has an observation of the object.
ObservedInRun(o) ==
  \E obs \in observations : obs.object = o /\ obs.run = run[SourceOf[o]].n

AcceptsEqualOrder(rev, order, fact, prior) ==
  rev > prior.rev \/ (rev = prior.rev /\ order >= prior.order)

AcceptsOlderOrder(rev, order, fact, prior) ==
  rev > prior.rev \/ (rev = prior.rev /\ (order = prior.order => fact = prior.fact))

\* A higher revision opens a new order of freshness.  Within one, an older order
\* is refused and an equal one must repeat what was said.
pageFreshnessAccepts(rev, order, fact, prior) ==
  \/ rev > prior.rev
  \/ rev = prior.rev /\ order > prior.order
  \/ rev = prior.rev /\ order = prior.order /\ fact = prior.fact

\* What is said of an edge carries no fact of its own here: it is there.
relationFreshnessAccepts(rev, order, prior) ==
  rev > prior.rev \/ (rev = prior.rev /\ order >= prior.order)

\* An asset of another source last observed with the same fingerprint.
FingerprintCandidates(o) ==
  {c \in Objects : /\ SourceOf[c] # SourceOf[o] /\ Fingerprint[c] = Fingerprint[o]
                   /\ Known(c) /\ assets[c].fact # Gone}

\* The candidate the query returns: the first in a fixed order.
FingerprintCandidate(o) == CHOOSE c \in FingerprintCandidates(o) : TRUE

-----------------------------------------------------------------------------
(* One page.  An item is an object with an order and a fact, a relation an  *)
(* edge with an order.  A page has at most one of each.                      *)

ItemAdmitted(o, order, fact) ==
  /\ ~ObservedInRun(o)
  /\ Known(o) => /\ assets[o].run # run[SourceOf[o]].n
                 /\ pageFreshnessAccepts(run[SourceOf[o]].rev, order, fact, assets[o])

\* A tombstone of what was never there, or the twin of another source's asset.
ItemRejected(o, fact) ==
  ~Known(o) /\ (fact = Gone \/ FingerprintCandidates(o) # {})

Observe(o, order, fact) ==
  IF ~Known(o) /\ fact = Gone THEN observations
  ELSE observations \cup
    {[object |-> o, run |-> run[SourceOf[o]].n, rev |-> run[SourceOf[o]].rev,
      order |-> order, fact |-> fact, projected |-> ~ItemRejected(o, fact)]}

\* A tombstone makes an active asset stale; a stale one that comes back waits.
LifecycleAfter(life, fact) ==
  IF fact = Gone /\ life = "ACTIVE" THEN "STALE" ELSE life

Pointed(row, r, order, fact) ==
  [row EXCEPT !.rev = r.rev, !.order = order, !.fact = fact, !.run = r.n,
              !.life = LifecycleAfter(row.life, fact)]

NewAsset(r, order, fact) ==
  [life |-> "DISCOVERED", mapping |-> "UNRESOLVED", rev |-> r.rev, order |-> order,
   fact |-> fact, run |-> r.n]

\* The assets after the item, before the closure of the run.
ProjectItem(o, order, fact) ==
  LET r == run[SourceOf[o]] IN
  CASE Known(o) -> [assets EXCEPT ![o] = Pointed(assets[o], r, order, fact)]
    [] ItemRejected(o, fact) /\ fact # Gone ->
         [assets EXCEPT ![FingerprintCandidate(o)].mapping = "AMBIGUOUS"]
    [] ItemRejected(o, fact) /\ fact = Gone -> assets
    [] OTHER -> [assets EXCEPT ![o] = NewAsset(r, order, fact)]

OpenConflict(o, fact) ==
  IF ItemRejected(o, fact) /\ fact # Gone
    THEN Append(conflicts, [asset |-> FingerprintCandidate(o), status |-> "OPEN"])
    ELSE conflicts

\* The two assets are already related, under another path code.
Collides(e) ==
  \E f \in Edges \ {e} : f[1] = e[1] /\ f[2] = e[2] /\ edges[f] # None /\ edges[f].active

\* Both ends are assets (of this page or of an earlier one), neither a tombstone
\* of this page, no other relation of theirs is active, and this one was not seen
\* in the run.  Every relation has the one policy reference.
RelationAdmitted(e, order, after, gone) ==
  LET r == run[SourceOf[e[1]]] IN
  /\ after[e[1]] # None /\ after[e[2]] # None
  /\ gone \cap {e[1], e[2]} = {} /\ ~Collides(e)
  /\ edges[e] # None => /\ edges[e].run # r.n
                        /\ relationFreshnessAccepts(r.rev, order, edges[e])

ProjectRelation(e, order) ==
  LET r == run[SourceOf[e[1]]] IN
  [edges EXCEPT ![e] = [active |-> TRUE, rev |-> r.rev, order |-> order, run |-> r.n]]

\* An edge of this run at a tombstoned asset refuses the page.
TombstonesAdmitted(rows, gone, r) ==
  \A e \in Edges : /\ rows[e] # None /\ rows[e].active /\ {e[1], e[2]} \cap gone # {}
                   => rows[e].run # r.n

\* An ended relation takes the page's order if its own is a sequence.
Inactivated(rows, which, r, order) ==
  [e \in Edges |->
     IF rows[e] # None /\ rows[e].active /\ rows[e].run # r.n /\ e \in which
       THEN [rows[e] EXCEPT !.active = FALSE, !.rev = r.rev, !.run = r.n,
                            !.order = IF e \in Sequenced THEN order ELSE @] ELSE rows[e]]

inactivatePageRelationships(rows, gone, r, order) ==
  Inactivated(rows, {e \in Edges : {e[1], e[2]} \cap gone # {}}, r, order)

PageWithoutRejects(s, rejects) == ~rejects

\* The run saw everything there is: its last page says so and nothing was rejected.
ClosesMembership(s, rejects) == ~run[s].rejected /\ ~rejects

CloseNeverObserved(rows, obs, s) ==
  [o \in Objects |->
     IF /\ SourceOf[o] = s /\ rows[o] # None /\ rows[o].life = "ACTIVE"
        /\ ~\E x \in obs : x.object = o
       THEN [rows[o] EXCEPT !.life = "STALE"] ELSE rows[o]]

\* Active assets the run has no observation of go stale.
closeMissingPageAssets(rows, obs, s) ==
  [o \in Objects |->
     IF /\ SourceOf[o] = s /\ rows[o] # None /\ rows[o].life = "ACTIVE"
        /\ ~\E x \in obs : x.object = o /\ x.run = run[s].n
       THEN [rows[o] EXCEPT !.life = "STALE"] ELSE rows[o]]

SourceEdges(s) == {e \in Edges : SourceOf[e[1]] = s}

\* A page of the source's open run, of one order.  item and relation may be None; the last
\* page of a run ends it, and a complete one closes the membership.
ApplyPage(s, order, item, relation, final, complete) ==
  LET rejects == item # None /\ ItemRejected(item.object, item.fact)
      obs == IF item = None THEN observations
             ELSE Observe(item.object, item.order, item.fact)
      rows == IF item = None THEN assets
              ELSE ProjectItem(item.object, item.order, item.fact)
      gone == IF item # None /\ item.fact = Gone /\ Known(item.object)
                THEN {item.object} ELSE {}
      related == IF relation = None THEN edges
                 ELSE ProjectRelation(relation.edge, relation.order)
      ended == inactivatePageRelationships(related, gone, run[s], order)
      closes == final /\ complete /\ ClosesMembership(s, rejects)
  IN /\ run[s].open
     /\ complete => final
     /\ (item # None \/ relation # None \/ complete)
     /\ item # None =>
          /\ SourceOf[item.object] = s
          /\ ItemAdmitted(item.object, item.order, item.fact)
          /\ rejects => Len(conflicts) < MaxConflicts
     /\ relation # None =>
          /\ SourceOf[relation.edge[1]] = s
          /\ RelationAdmitted(relation.edge, relation.order, rows, gone)
     /\ TombstonesAdmitted(related, gone, run[s])
     /\ observations' = obs
     /\ assets' = IF closes THEN closeMissingPageAssets(rows, obs, s) ELSE rows
     /\ edges' = IF closes THEN Inactivated(ended, SourceEdges(s), run[s], order) ELSE ended
     /\ conflicts' = IF item = None THEN conflicts ELSE OpenConflict(item.object, item.fact)
     /\ run' = [run EXCEPT ![s].open = ~final, ![s].rejected = @ \/ rejects,
                            ![s].complete = closes]
     /\ UNCHANGED bindings

\* The queue claims the next run of the source, perhaps under a new revision.
\* A run may also end without a last page.
StartRun(s, rev) ==
  /\ run[s].n < MaxRuns[s] /\ rev \in {run[s].rev, run[s].rev + 1} \cap 1..MaxRevision
  /\ run' = [run EXCEPT ![s] = [n |-> @.n + 1, rev |-> rev, open |-> TRUE, rejected |-> FALSE,
                               complete |-> FALSE]]
  /\ UNCHANGED <<observations, assets, edges, conflicts, bindings>>

-----------------------------------------------------------------------------
(* Commands. *)

IsLifecycleEdge(from, to) ==
  CASE from = "DISCOVERED"  -> to \in {"ACTIVE", "QUARANTINED", "RETIRED"}
    [] from = "ACTIVE"      -> to \in {"STALE", "QUARANTINED", "RETIRED"}
    [] from = "STALE"       -> to \in {"ACTIVE", "QUARANTINED", "RETIRED"}
    [] from = "QUARANTINED" -> to \in {"ACTIVE", "RETIRED"}
    [] OTHER -> FALSE

Transition(o, to) ==
  /\ Known(o) /\ to \in {"QUARANTINED", "RETIRED"}
  /\ IsLifecycleEdge(assets[o].life, to)
  /\ assets' = [assets EXCEPT ![o].life = to]
  /\ UNCHANGED <<run, observations, edges, conflicts, bindings>>

\* The publication of a connection, which the schema's lifecycle guard is ready
\* for and no code here performs, makes an asset active.
Activate(o) ==
  /\ Known(o) /\ assets[o].life \in {"DISCOVERED", "STALE"}
  /\ IsLifecycleEdge(assets[o].life, "ACTIVE")
  /\ assets' = [assets EXCEPT ![o].life = "ACTIVE"]
  /\ UNCHANGED <<run, observations, edges, conflicts, bindings>>

Bindable(o) == assets[o].life \notin {"RETIRED", "QUARANTINED"}

\* One ACTIVE row per service, asset and role.
InsertBinding(b) == b \notin bindings /\ bindings' = bindings \cup {b}

CreateBinding(service, o) ==
  /\ Known(o) /\ assets[o].mapping = "EXACT" /\ Bindable(o)
  /\ InsertBinding(<<service, o>>)
  /\ UNCHANGED <<run, observations, assets, edges, conflicts>>

DeleteBinding(b) ==
  /\ b \in bindings /\ bindings' = bindings \ {b}
  /\ UNCHANGED <<run, observations, assets, edges, conflicts>>

OpenFor(o, except) ==
  {k \in DOMAIN conflicts : k # except /\ conflicts[k].asset = o /\ conflicts[k].status = "OPEN"}

Decide(k, status) ==
  /\ conflicts' = [conflicts EXCEPT ![k].status = status]
  /\ UNCHANGED <<run, observations, edges>>

\* An undecided conflict of an asset that is not retired.
MayDecide(k) ==
  conflicts[k].status = "OPEN" /\ assets[conflicts[k].asset].life # "RETIRED"

ConfirmExact(k, service) ==
  LET o == conflicts[k].asset IN
  /\ MayDecide(k) /\ assets[o].life # "QUARANTINED"
  /\ assets' = [assets EXCEPT ![o].mapping = "EXACT"]
  /\ InsertBinding(<<service, o>>)
  /\ Decide(k, "RESOLVED")

RejectAsIs(k) ==
  /\ MayDecide(k) /\ Decide(k, "REJECTED") /\ UNCHANGED <<assets, bindings>>

RejectCandidate(k) ==
  LET o == conflicts[k].asset IN
  /\ MayDecide(k)
  /\ assets' = [assets EXCEPT ![o].mapping =
       IF OpenFor(o, k) # {} THEN "AMBIGUOUS" ELSE "UNRESOLVED"]
  /\ Decide(k, "REJECTED") /\ UNCHANGED bindings

KeepUnresolved(k) ==
  /\ MayDecide(k)
  /\ assets' = [assets EXCEPT ![conflicts[k].asset].mapping = "UNRESOLVED"]
  /\ Decide(k, "RESOLVED") /\ UNCHANGED bindings

QuarantineAsset(k) ==
  /\ MayDecide(k) /\ assets[conflicts[k].asset].life # "QUARANTINED"
  /\ assets' = [assets EXCEPT ![conflicts[k].asset].life = "QUARANTINED"]
  /\ Decide(k, "RESOLVED") /\ UNCHANGED bindings

-----------------------------------------------------------------------------
\* The item and the relation of one page carry one order.
Items(s, order) ==
  {None} \cup [object : {o \in Objects : SourceOf[o] = s}, order : {order}, fact : Said]

Relations(s, order) == {None} \cup [edge : SourceEdges(s), order : {order}]

InventoryNext ==
  \/ \E s \in Sources, final, complete \in BOOLEAN :
       \E order \in 1..MaxOrder[s] :
         \E item \in Items(s, order), relation \in Relations(s, order) :
           ApplyPage(s, order, item, relation, final, complete)
  \/ \E s \in Sources, rev \in 1..MaxRevision : StartRun(s, rev)
  \/ \E o \in Objects, to \in Lifecycles : Transition(o, to)
  \/ \E o \in Objects : Activate(o)
  \/ \E service \in Services, o \in Objects : CreateBinding(service, o)
  \/ \E b \in bindings : DeleteBinding(b)
  \/ \E k \in DOMAIN conflicts, service \in Services : ConfirmExact(k, service)
  \/ \E k \in DOMAIN conflicts : RejectCandidate(k) \/ KeepUnresolved(k) \/ QuarantineAsset(k)

InventorySpec == InventoryInit /\ [][InventoryNext]_inventoryVars

-----------------------------------------------------------------------------
(* Properties. *)

\* An asset points to the newest thing its source said under the newest revision
\* it was seen in, and a revision never says two things at one order, whatever
\* order pages and runs brought them in.
PointsToNewest ==
  \A o \in Objects : Known(o) =>
    \A x \in observations : x.object = o /\ x.projected =>
      /\ x.rev <= assets[o].rev
      /\ x.rev = assets[o].rev => /\ x.order <= assets[o].order
                                  /\ x.order = assets[o].order => x.fact = assets[o].fact

\* An ambiguous asset that may still be used has an open conflict: there is always
\* a decision left that can settle it.
AmbiguousIsDecidable ==
  \A o \in Objects :
    /\ Known(o) /\ assets[o].mapping = "AMBIGUOUS" /\ Bindable(o)
    => OpenFor(o, 0) # {}

\* What pages, runs and decisions leave behind is the newest fact, and open to a decision
\* where it is ambiguous.
InventorySafety == PointsToNewest /\ AmbiguousIsDecidable

\* Discovery takes an asset out of service only on proof: it said the asset is
\* gone, or a whole run without a single reject went by without it.  It never
\* brings one into service.
LifecycleByProof ==
  \A o \in Objects :
    /\ Known(o) /\ assets'[o].life # assets[o].life
    /\ observations' # observations \/ run' # run
    => /\ assets[o].life = "ACTIVE" /\ assets'[o].life = "STALE"
       /\ \/ assets'[o].fact = Gone /\ assets'[o].run = run[SourceOf[o]].n
          \/ /\ ~run'[SourceOf[o]].rejected /\ ~run'[SourceOf[o]].open
             /\ ~\E x \in observations' : x.object = o /\ x.run = run[SourceOf[o]].n

\* When a run that saw the whole inventory ends, what its source still has in
\* service is what the run saw, on whichever of its pages: every active asset was
\* observed in it and every active edge was reported in it.
SnapshotCloses ==
  \A s \in Sources :
    run'[s].complete /\ run[s].open
    => /\ \A o \in Objects :
            /\ SourceOf[o] = s /\ Known(o)' /\ assets'[o].life = "ACTIVE"
            => ObservedInRun(o)'
       /\ \A e \in SourceEdges(s) :
            edges'[e] # None /\ edges'[e].active => edges'[e].run = run[s].n

\* Discovery changes what is in service by what it has seen, no more and no less.
ServiceFollowsProof == [][LifecycleByProof /\ SnapshotCloses]_inventoryVars
=============================================================================
