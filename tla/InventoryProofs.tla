--------------------------- MODULE InventoryProofs ---------------------------
(***************************************************************************)
(* What pages and decisions keep true of the inventory, for any objects,   *)
(* sources, orders and runs.  The proof goes over the rows a page leaves   *)
(* before the closure of its run (PageRows); the closure changes only      *)
(* lifecycles.                                                             *)
(***************************************************************************)
EXTENDS AssetInventory, TLAPS

\* An object that is no asset has no observation an asset could have pointed to.
UnknownIsUnseen ==
  \A o \in Objects : ~Known(o) =>
    \A x \in observations : x.object = o => ~x.projected

\* A conflict is about an asset.
ConflictsAreKnown == \A k \in DOMAIN conflicts : Known(conflicts[k].asset)

\* A run that closed the membership takes no more pages.
CompleteIsClosed == \A s \in Sources : run[s].complete => ~run[s].open

InventoryInv ==
  InventoryTypeOK /\ InventorySafety /\ UnknownIsUnseen /\ ConflictsAreKnown /\ CompleteIsClosed

\* An item of a page.
Item(s) == [object : {o \in Objects : SourceOf[o] = s}, order : Nat, fact : Said]

PageRows(item) ==
  IF item = None THEN assets ELSE ProjectItem(item.object, item.order, item.fact)
PageObservations(item) ==
  IF item = None THEN observations ELSE Observe(item.object, item.order, item.fact)
PageConflicts(item) ==
  IF item = None THEN conflicts ELSE OpenConflict(item.object, item.fact)

\* What the closure of a run may do to a row.
Staled(before, after) ==
  \/ after = before
  \/ before # None /\ before.life = "ACTIVE" /\ after = [before EXCEPT !.life = "STALE"]

-----------------------------------------------------------------------------
(* Rows. *)

(* What Pointed and NewAsset make is a row, and the closure keeps rows rows. *)
LEMMA RowsAreRows ==
  ASSUME NEW r \in RunRow, NEW order \in Nat, NEW fact \in Said
  PROVE  /\ NewAsset(r, order, fact) \in Asset
         /\ \A row \in Asset : Pointed(row, r, order, fact) \in Asset
         /\ \A row \in Asset : [row EXCEPT !.life = "STALE"] \in Asset
         /\ \A row \in Asset, m \in Mappings : [row EXCEPT !.mapping = m] \in Asset
         /\ \A row \in Asset, l \in Lifecycles : [row EXCEPT !.life = l] \in Asset
<1>1. NewAsset(r, order, fact) \in Asset
  BY DEF NewAsset, Asset, RunRow, Lifecycles, Mappings
<1>2. ASSUME NEW row \in Asset
      PROVE  Pointed(row, r, order, fact) \in Asset
  <2>1. LifecycleAfter(row.life, fact) \in Lifecycles
    BY DEF LifecycleAfter, Asset, Lifecycles
  <2> QED  BY <2>1 DEF Pointed, Asset, RunRow
<1>3. \A row \in Asset, m \in Mappings : [row EXCEPT !.mapping = m] \in Asset
  BY DEF Asset
<1>4. \A row \in Asset, l \in Lifecycles : [row EXCEPT !.life = l] \in Asset
  BY DEF Asset
<1> QED  BY <1>1, <1>2, <1>3, <1>4 DEF Lifecycles

(* The candidate of a rejected twin is an asset. *)
LEMMA CandidateIsKnown ==
  ASSUME NEW o \in Objects, FingerprintCandidates(o) # {}
  PROVE  FingerprintCandidate(o) \in Objects /\ Known(FingerprintCandidate(o))
<1>1. FingerprintCandidate(o) \in FingerprintCandidates(o)
  BY DEF FingerprintCandidate
<1> QED  BY <1>1 DEF FingerprintCandidates

(* Conflicts are about objects. *)
LEMMA ConflictRows ==
  ASSUME InventoryTypeOK
  PROVE  \A k \in DOMAIN conflicts :
           k # 0 /\ conflicts[k] \in Conflict /\ conflicts[k].asset \in Objects
<1>1. \A k \in DOMAIN conflicts : k # 0 /\ conflicts[k] \in Conflict
  BY DEF InventoryTypeOK
<1> QED  BY <1>1 DEF Conflict

(* A page with an item does one of four things. *)
LEMMA ItemCases ==
  ASSUME InventoryTypeOK, NEW s \in Sources, NEW item \in Item(s), item # None
  PROVE  LET o == item.object
             c == FingerprintCandidate(o)
             r == run[s]
             Seen(projected) ==
               observations \cup {[object |-> o, run |-> r.n, rev |-> r.rev, order |-> item.order,
                                   fact |-> item.fact, projected |-> projected]}
         IN \/ /\ Known(o)
               /\ PageRows(item) = [assets EXCEPT ![o] = Pointed(assets[o], r, item.order, item.fact)]
               /\ PageObservations(item) = Seen(TRUE) /\ PageConflicts(item) = conflicts
            \/ /\ ~Known(o) /\ item.fact = Gone
               /\ PageRows(item) = assets
               /\ PageObservations(item) = observations /\ PageConflicts(item) = conflicts
            \/ /\ ~Known(o) /\ ItemRejected(o, item.fact)
               /\ c \in Objects /\ Known(c) /\ SourceOf[c] # s
               /\ PageRows(item) = [assets EXCEPT ![c].mapping = "AMBIGUOUS"]
               /\ PageObservations(item) = Seen(FALSE)
               /\ PageConflicts(item) = Append(conflicts, [asset |-> c, status |-> "OPEN"])
            \/ /\ ~Known(o)
               /\ PageRows(item) = [assets EXCEPT ![o] = NewAsset(r, item.order, item.fact)]
               /\ PageObservations(item) = Seen(TRUE) /\ PageConflicts(item) = conflicts
<1> DEFINE o == item.object
           c == FingerprintCandidate(o)
<1>1. o \in Objects /\ SourceOf[o] = s /\ item.fact \in Said
  BY DEF Item
<1>2. CASE Known(o)
  <2>1. ~ItemRejected(o, item.fact)
    BY <1>2 DEF ItemRejected
  <2> QED
    BY <1>1, <1>2, <2>1 DEF PageRows, PageObservations, PageConflicts, ProjectItem, Observe, OpenConflict
<1>3. CASE ~Known(o) /\ item.fact = Gone
  <2>1. ItemRejected(o, item.fact)
    BY <1>3 DEF ItemRejected
  <2> QED
    BY <1>1, <1>3, <2>1 DEF PageRows, PageObservations, PageConflicts, ProjectItem, Observe, OpenConflict
<1>4. CASE ~Known(o) /\ item.fact # Gone /\ FingerprintCandidates(o) # {}
  <2>1. ItemRejected(o, item.fact)
    BY <1>4 DEF ItemRejected
  <2>2. c \in Objects /\ Known(c) /\ SourceOf[c] # s
    <3>1. c \in FingerprintCandidates(o)
      BY <1>4 DEF FingerprintCandidate
    <3> QED  BY <1>1, <3>1 DEF FingerprintCandidates
  <2> QED
    BY <1>1, <1>4, <2>1, <2>2 DEF PageRows, PageObservations, PageConflicts, ProjectItem, Observe, OpenConflict
<1>5. CASE ~Known(o) /\ item.fact # Gone /\ FingerprintCandidates(o) = {}
  <2>1. ~ItemRejected(o, item.fact)
    BY <1>5 DEF ItemRejected
  <2> QED
    BY <1>1, <1>5, <2>1 DEF PageRows, PageObservations, PageConflicts, ProjectItem, Observe, OpenConflict
<1> QED  BY <1>2, <1>3, <1>4, <1>5

(* The closure of a run keeps a row and all of it but its lifecycle. *)
LEMMA StaledKeeps ==
  ASSUME NEW before \in Asset \cup {None}, NEW after, Staled(before, after)
  PROVE  /\ after \in Asset \cup {None}
         /\ after = None <=> before = None
         /\ before # None =>
              /\ after.rev = before.rev /\ after.order = before.order /\ after.fact = before.fact
              /\ after.run = before.run /\ after.mapping = before.mapping
              /\ after.life \in {"RETIRED", "QUARANTINED"} <=> before.life \in {"RETIRED", "QUARANTINED"}
              /\ after.life # before.life => before.life = "ACTIVE" /\ after.life = "STALE"
<1>1. CASE after = before
  BY <1>1
<1>2. CASE before # None /\ before.life = "ACTIVE" /\ after = [before EXCEPT !.life = "STALE"]
  <2>1. before \in Asset
    BY <1>2
  <2>2. after \in Asset
    BY <1>2, <2>1 DEF Asset, Lifecycles
  <2> QED  BY <1>2, <2>1, <2>2, NoneIsNoRow DEF Asset
<1> QED  BY <1>1, <1>2 DEF Staled

(* A page: the item's effect, then perhaps the closure. *)
LEMMA PageShape ==
  ASSUME InventoryTypeOK, NEW s \in Sources, NEW final \in BOOLEAN, NEW complete \in BOOLEAN,
         NEW order \in 1..MaxOrder[s], NEW item \in Items(s, order), NEW relation \in Relations(s, order),
         ApplyPage(s, order, item, relation, final, complete)
  PROVE  /\ item # None => /\ item \in Item(s)
                           /\ ItemAdmitted(item.object, item.order, item.fact)
                           /\ ItemRejected(item.object, item.fact) => Len(conflicts) < MaxConflicts
         /\ observations' = PageObservations(item)
         /\ conflicts' = PageConflicts(item)
         /\ bindings' = bindings
         /\ PageRows(item) \in [Objects -> Asset \cup {None}]
         /\ DOMAIN assets' = Objects /\ assets' = [o \in Objects |-> assets'[o]]
         /\ \A o \in Objects : Staled(PageRows(item)[o], assets'[o])
<1>1. order \in Nat /\ run[s] \in RunRow
  BY InventoryConstants DEF InventoryTypeOK
<1>2. item # None => item \in Item(s)
  BY <1>1 DEF Items, Item
<1>3. item # None => /\ ItemAdmitted(item.object, item.order, item.fact)
                     /\ ItemRejected(item.object, item.fact) => Len(conflicts) < MaxConflicts
  BY DEF ApplyPage
<1>4. observations' = PageObservations(item) /\ conflicts' = PageConflicts(item) /\ bindings' = bindings
  BY DEF ApplyPage, PageObservations, PageConflicts
<1>5. PageRows(item) \in [Objects -> Asset \cup {None}]
  <2>1. CASE item = None
    BY <2>1 DEF PageRows, InventoryTypeOK
  <2>2. CASE item # None
    <3> DEFINE o == item.object
               c == FingerprintCandidate(o)
    <3>1. item \in Item(s) /\ o \in Objects /\ item.order \in Nat /\ item.fact \in Said
      BY <1>2, <2>2 DEF Item
    <3>2. assets \in [Objects -> Asset \cup {None}]
      BY DEF InventoryTypeOK
    <3>3. CASE Known(o) /\ PageRows(item) = [assets EXCEPT ![o] = Pointed(assets[o], run[s], item.order, item.fact)]
      <4>1. assets[o] \in Asset
        BY <3>1, <3>2, <3>3 DEF Known
      <4>2. Pointed(assets[o], run[s], item.order, item.fact) \in Asset
        BY <1>1, <3>1, <4>1, RowsAreRows
      <4> QED  BY <3>1, <3>2, <3>3, <4>2
    <3>4. CASE PageRows(item) = assets
      BY <3>2, <3>4
    <3>5. CASE /\ c \in Objects /\ Known(c)
               /\ PageRows(item) = [assets EXCEPT ![c].mapping = "AMBIGUOUS"]
      <4>1. assets[c] \in Asset
        BY <3>2, <3>5 DEF Known
      <4>2. [assets[c] EXCEPT !.mapping = "AMBIGUOUS"] \in Asset
        BY <4>1 DEF Asset, Mappings
      <4> QED  BY <3>2, <3>5, <4>2
    <3>6. CASE PageRows(item) = [assets EXCEPT ![o] = NewAsset(run[s], item.order, item.fact)]
      <4>1. NewAsset(run[s], item.order, item.fact) \in Asset
        BY <1>1, <3>1, RowsAreRows
      <4> QED  BY <3>1, <3>2, <3>6, <4>1
    <3> HIDE DEF o, c
    <3> QED  BY <2>2, <3>1, <3>3, <3>4, <3>5, <3>6, ItemCases DEF o, c
  <2> QED  BY <2>1, <2>2
<1>6. \/ assets' = PageRows(item)
      \/ assets' = closeMissingPageAssets(PageRows(item), PageObservations(item), s)
  BY DEF ApplyPage, PageRows, PageObservations
<1>7. DOMAIN assets' = Objects /\ assets' = [o \in Objects |-> assets'[o]]
  BY <1>5, <1>6 DEF closeMissingPageAssets
<1>8. \A o \in Objects : Staled(PageRows(item)[o], assets'[o])
  BY <1>5, <1>6 DEF closeMissingPageAssets, Staled
<1> QED  BY <1>2, <1>3, <1>4, <1>5, <1>7, <1>8

-----------------------------------------------------------------------------
(* The type invariant. *)

(* An edge's row stays a row when a page reports it or takes it out of use. *)
LEMMA EdgesAreEdges ==
  ASSUME InventoryTypeOK, NEW s \in Sources, NEW rows \in [Edges -> Edge \cup {None}], NEW which,
         NEW order \in Nat
  PROVE  Inactivated(rows, which, run[s], order) \in [Edges -> Edge \cup {None}]
<1>1. run[s] \in RunRow
  BY DEF InventoryTypeOK
<1>2. \A e \in Edges : rows[e] # None =>
        [rows[e] EXCEPT !.active = FALSE, !.rev = run[s].rev, !.run = run[s].n,
                        !.order = IF e \in Sequenced THEN order ELSE @] \in Edge
  BY <1>1 DEF RunRow, Edge
<1> QED  BY <1>2 DEF Inactivated

(* A page keeps the types. *)
LEMMA PageTyped ==
  ASSUME InventoryTypeOK, NEW s \in Sources, NEW final \in BOOLEAN, NEW complete \in BOOLEAN,
         NEW order \in 1..MaxOrder[s], NEW item \in Items(s, order), NEW relation \in Relations(s, order),
         ApplyPage(s, order, item, relation, final, complete)
  PROVE  InventoryTypeOK'
<1>1. run[s] \in RunRow /\ order \in Nat
  BY InventoryConstants DEF InventoryTypeOK
<1>2. run' \in [Sources -> RunRow]
  <2>1. PICK rejects \in BOOLEAN, closes \in BOOLEAN :
          run' = [run EXCEPT ![s].open = ~final, ![s].rejected = @ \/ rejects, ![s].complete = closes]
    BY DEF ApplyPage, ItemRejected, ClosesMembership
  <2> QED  BY <1>1, <2>1 DEF RunRow, InventoryTypeOK
<1>3. observations' \subseteq Observation
  <2>1. observations' = PageObservations(item) /\ (item # None => item \in Item(s))
    BY PageShape
  <2>2. CASE item = None
    BY <2>1, <2>2 DEF PageObservations, InventoryTypeOK
  <2>3. CASE item # None
    <3>1. item.object \in Objects /\ SourceOf[item.object] = s /\ item.order \in Nat /\ item.fact \in Said
      BY <2>1, <2>3 DEF Item
    <3>2. (~ItemRejected(item.object, item.fact)) \in BOOLEAN
      BY DEF ItemRejected
    <3>3. [object |-> item.object, run |-> run[s].n, rev |-> run[s].rev, order |-> item.order,
           fact |-> item.fact, projected |-> ~ItemRejected(item.object, item.fact)] \in Observation
      BY <1>1, <3>1, <3>2 DEF Observation, RunRow
    <3> QED  BY <2>1, <2>3, <3>1, <3>3 DEF PageObservations, Observe, InventoryTypeOK
  <2> QED  BY <2>2, <2>3
<1>4. assets' \in [Objects -> Asset \cup {None}]
  BY PageShape, StaledKeeps
<1>5. edges' \in [Edges -> Edge \cup {None}]
  <2> DEFINE related == IF relation = None THEN edges ELSE ProjectRelation(relation.edge, relation.order)
  <2>1. related \in [Edges -> Edge \cup {None}]
    <3>1. edges \in [Edges -> Edge \cup {None}]
      BY DEF InventoryTypeOK
    <3>2. ASSUME relation # None
          PROVE  ProjectRelation(relation.edge, relation.order) \in [Edges -> Edge \cup {None}]
      <4>1. relation.edge \in Edges /\ SourceOf[relation.edge[1]] = s /\ relation.order = order
        BY <3>2 DEF Relations, SourceEdges
      <4>2. [active |-> TRUE, rev |-> run[s].rev, order |-> order, run |-> run[s].n] \in Edge
        BY <1>1 DEF RunRow, Edge
      <4> QED  BY <3>1, <4>1, <4>2 DEF ProjectRelation
    <3> QED  BY <3>1, <3>2
  <2>2. PICK gone : LET ended == inactivatePageRelationships(related, gone, run[s], order)
                    IN edges' = ended \/ edges' = Inactivated(ended, SourceEdges(s), run[s], order)
    BY DEF ApplyPage
  <2> HIDE DEF related
  <2>3. inactivatePageRelationships(related, gone, run[s], order) \in [Edges -> Edge \cup {None}]
    BY <1>1, <2>1, EdgesAreEdges DEF inactivatePageRelationships
  <2> QED  BY <1>1, <2>2, <2>3, EdgesAreEdges
<1>6. conflicts' \in Seq(Conflict) /\ Len(conflicts') <= MaxConflicts
  <2>1. CASE item = None
    BY <2>1, PageShape DEF PageConflicts, InventoryTypeOK
  <2>2. CASE item # None
    <3>1. conflicts' = OpenConflict(item.object, item.fact) /\ item.object \in Objects
          /\ (ItemRejected(item.object, item.fact) => Len(conflicts) < MaxConflicts)
      BY <2>2, PageShape DEF PageConflicts, Item
    <3>2. CASE ItemRejected(item.object, item.fact) /\ item.fact # Gone
      <4>1. FingerprintCandidate(item.object) \in Objects
        BY <3>1, <3>2, CandidateIsKnown DEF ItemRejected
      <4>2. [asset |-> FingerprintCandidate(item.object), status |-> "OPEN"] \in Conflict
        BY <4>1 DEF Conflict
      <4> QED  BY <3>1, <3>2, <4>2, InventoryConstants DEF OpenConflict, InventoryTypeOK
    <3>3. CASE ~(ItemRejected(item.object, item.fact) /\ item.fact # Gone)
      BY <3>1, <3>3 DEF OpenConflict, InventoryTypeOK
    <3> QED  BY <3>2, <3>3
  <2> QED  BY <2>1, <2>2
<1>7. bindings' \subseteq Services \X Objects
  BY PageShape DEF InventoryTypeOK
<1> QED  BY <1>2, <1>3, <1>4, <1>5, <1>6, <1>7 DEF InventoryTypeOK

(* Every step keeps the types. *)
LEMMA StepTyped ==
  ASSUME InventoryTypeOK, ConflictsAreKnown, InventoryNext
  PROVE  InventoryTypeOK'
<1> USE DEF InventoryTypeOK
<1>1. ASSUME NEW s \in Sources, NEW rev \in 1..MaxRevision, StartRun(s, rev)
      PROVE  InventoryTypeOK'
  <2>1. [n |-> run[s].n + 1, rev |-> rev, open |-> TRUE, rejected |-> FALSE, complete |-> FALSE] \in RunRow
    BY DEF RunRow
  <2> QED  BY <1>1, <2>1 DEF StartRun
<1>2. ASSUME NEW o \in Objects, NEW to \in Lifecycles, Transition(o, to)
      PROVE  InventoryTypeOK'
  <2>1. assets[o] \in Asset
    BY <1>2 DEF Transition, Known
  <2>2. [assets[o] EXCEPT !.life = to] \in Asset
    BY <2>1 DEF Asset
  <2> QED  BY <1>2, <2>2 DEF Transition
<1>3. ASSUME NEW o \in Objects, Activate(o)
      PROVE  InventoryTypeOK'
  <2>1. assets[o] \in Asset
    BY <1>3 DEF Activate, Known
  <2>2. [assets[o] EXCEPT !.life = "ACTIVE"] \in Asset
    BY <2>1 DEF Asset, Lifecycles
  <2> QED  BY <1>3, <2>2 DEF Activate
<1>4. ASSUME NEW service \in Services, NEW o \in Objects, CreateBinding(service, o)
      PROVE  InventoryTypeOK'
  BY <1>4 DEF CreateBinding, InsertBinding
<1>5. ASSUME NEW b \in bindings, DeleteBinding(b)
      PROVE  InventoryTypeOK'
  BY <1>5 DEF DeleteBinding
<1>6. ASSUME NEW k \in DOMAIN conflicts
      PROVE  /\ conflicts[k].asset \in Objects /\ assets[conflicts[k].asset] \in Asset
             /\ \A m \in Mappings : [assets EXCEPT ![conflicts[k].asset].mapping = m] \in [Objects -> Asset \cup {None}]
             /\ \A l \in Lifecycles : [assets EXCEPT ![conflicts[k].asset].life = l] \in [Objects -> Asset \cup {None}]
             /\ \A st \in {"RESOLVED", "REJECTED"} :
                  Decide(k, st) => conflicts' \in Seq(Conflict) /\ Len(conflicts') <= MaxConflicts
  <2>1. conflicts[k] \in Conflict
    OBVIOUS
  <2>2. conflicts[k].asset \in Objects /\ assets[conflicts[k].asset] \in Asset
    BY <2>1 DEF Conflict, ConflictsAreKnown, Known
  <2>3. \A m \in Mappings : [assets[conflicts[k].asset] EXCEPT !.mapping = m] \in Asset
    BY <2>2 DEF Asset
  <2>4. \A l \in Lifecycles : [assets[conflicts[k].asset] EXCEPT !.life = l] \in Asset
    BY <2>2 DEF Asset
  <2>5. ASSUME NEW st \in {"RESOLVED", "REJECTED"}, Decide(k, st)
        PROVE  conflicts' \in Seq(Conflict) /\ Len(conflicts') <= MaxConflicts
    <3>1. [conflicts[k] EXCEPT !.status = st] \in Conflict
      BY <2>1 DEF Conflict
    <3> QED  BY <2>5, <3>1 DEF Decide
  <2> QED  BY <2>2, <2>3, <2>4, <2>5
<1>7. ASSUME NEW k \in DOMAIN conflicts, NEW service \in Services, ConfirmExact(k, service)
      PROVE  InventoryTypeOK'
  <2>1. /\ assets' = [assets EXCEPT ![conflicts[k].asset].mapping = "EXACT"] /\ Decide(k, "RESOLVED")
        /\ bindings' = bindings \cup {<<service, conflicts[k].asset>>}
    BY <1>7 DEF ConfirmExact, InsertBinding
  <2>2. assets' \in [Objects -> Asset \cup {None}]
    BY <1>6, <2>1 DEF Mappings
  <2>3. conflicts' \in Seq(Conflict) /\ Len(conflicts') <= MaxConflicts
    BY <1>6, <2>1
  <2>4. bindings' \subseteq Services \X Objects
    BY <1>6, <2>1
  <2>5. UNCHANGED <<run, observations, edges>>
    BY <2>1 DEF Decide
  <2> QED  BY <2>2, <2>3, <2>4, <2>5
<1>8. ASSUME NEW k \in DOMAIN conflicts, RejectCandidate(k)
      PROVE  InventoryTypeOK'
  <2>1. PICK m \in Mappings : assets' = [assets EXCEPT ![conflicts[k].asset].mapping = m]
    BY <1>8 DEF RejectCandidate, Mappings
  <2>2. Decide(k, "REJECTED") /\ bindings' = bindings
    BY <1>8 DEF RejectCandidate
  <2> QED  BY <1>6, <2>1, <2>2 DEF Decide
<1>9. ASSUME NEW k \in DOMAIN conflicts, KeepUnresolved(k)
      PROVE  InventoryTypeOK'
  <2>1. /\ assets' = [assets EXCEPT ![conflicts[k].asset].mapping = "UNRESOLVED"]
        /\ Decide(k, "RESOLVED") /\ bindings' = bindings
    BY <1>9 DEF KeepUnresolved
  <2> QED  BY <1>6, <2>1 DEF Decide, Mappings
<1>10. ASSUME NEW k \in DOMAIN conflicts, QuarantineAsset(k)
       PROVE  InventoryTypeOK'
  <2>1. /\ assets' = [assets EXCEPT ![conflicts[k].asset].life = "QUARANTINED"]
        /\ Decide(k, "RESOLVED") /\ bindings' = bindings
    BY <1>10 DEF QuarantineAsset
  <2> QED  BY <1>6, <2>1 DEF Decide, Lifecycles
<1> QED
  BY <1>1, <1>2, <1>3, <1>4, <1>5, <1>7, <1>8, <1>9, <1>10, PageTyped DEF InventoryNext

-----------------------------------------------------------------------------
(* The invariant. *)

(* A page keeps the newest facts: what it admits is newer than what the asset points to, or
   repeats it (pageFreshnessAccepts). *)
LEMMA PageKeepsNewest ==
  ASSUME InventoryInv, NEW s \in Sources, NEW final \in BOOLEAN, NEW complete \in BOOLEAN,
         NEW order \in 1..MaxOrder[s], NEW item \in Items(s, order), NEW relation \in Relations(s, order),
         ApplyPage(s, order, item, relation, final, complete)
  PROVE  PointsToNewest' /\ UnknownIsUnseen' /\ (\A p \in Objects : Known(p) => Known(p)')
<1> USE DEF InventoryInv
<1> DEFINE rows == PageRows(item)
<1>1. /\ rows \in [Objects -> Asset \cup {None}]
      /\ \A p \in Objects : Staled(rows[p], assets'[p])
      /\ observations' = PageObservations(item)
      /\ item # None => item \in Item(s) /\ ItemAdmitted(item.object, item.order, item.fact)
  BY PageShape
<1>2. run[s] \in RunRow /\ assets \in [Objects -> Asset \cup {None}] /\ observations \subseteq Observation
  BY DEF InventoryTypeOK
<1>3. \A p \in Objects :
        /\ assets'[p] = None <=> rows[p] = None
        /\ rows[p] # None => /\ assets'[p].rev = rows[p].rev /\ assets'[p].order = rows[p].order
                             /\ assets'[p].fact = rows[p].fact
  <2> SUFFICES ASSUME NEW p \in Objects
               PROVE  /\ assets'[p] = None <=> rows[p] = None
                      /\ rows[p] # None => /\ assets'[p].rev = rows[p].rev /\ assets'[p].order = rows[p].order
                                           /\ assets'[p].fact = rows[p].fact
    OBVIOUS
  <2>1. rows[p] \in Asset \cup {None} /\ Staled(rows[p], assets'[p])
    BY <1>1
  <2> HIDE DEF rows
  <2> QED  BY <2>1, StaledKeeps
<1> SUFFICES ASSUME NEW p \in Objects
             PROVE  /\ rows[p] # None => \A x \in observations' : x.object = p /\ x.projected =>
                         /\ x.rev <= rows[p].rev
                         /\ x.rev = rows[p].rev => /\ x.order <= rows[p].order
                                                   /\ x.order = rows[p].order => x.fact = rows[p].fact
                    /\ rows[p] = None => \A x \in observations' : x.object = p => ~x.projected
                    /\ Known(p) => rows[p] # None
  <2> HIDE DEF rows
  <2> QED  BY <1>3 DEF PointsToNewest, UnknownIsUnseen, Known
<1>4. CASE item = None
  BY <1>1, <1>4 DEF PageRows, PageObservations, InventorySafety, PointsToNewest, UnknownIsUnseen, Known
<1>5. CASE item # None
  <2> DEFINE o == item.object
             c == FingerprintCandidate(o)
             Seen(projected) ==
               [object |-> o, run |-> run[s].n, rev |-> run[s].rev, order |-> item.order,
                fact |-> item.fact, projected |-> projected]
  <2>1. item \in Item(s) /\ o \in Objects /\ item.order \in Nat /\ SourceOf[o] = s
    BY <1>1, <1>5 DEF Item
  <2>2. CASE /\ Known(o)
             /\ rows = [assets EXCEPT ![o] = Pointed(assets[o], run[s], item.order, item.fact)]
             /\ observations' = observations \cup {Seen(TRUE)}
    <3>1. pageFreshnessAccepts(run[s].rev, item.order, item.fact, assets[o])
      BY <1>1, <1>5, <2>1, <2>2 DEF ItemAdmitted
    <3>2. CASE p # o
      <4>1. rows[p] = assets[p]
        BY <1>2, <2>2, <3>2
      <4>2. \A x \in observations' : x.object = p => x \in observations
        BY <2>2, <3>2
      <4> QED  BY <4>1, <4>2 DEF InventorySafety, PointsToNewest, UnknownIsUnseen, Known
    <3>3. CASE p = o
      <4>1. assets[o] \in Asset
        BY <1>2, <2>1, <2>2 DEF Known
      <4>2. rows[p] = Pointed(assets[o], run[s], item.order, item.fact)
        BY <1>2, <2>1, <2>2, <3>3
      <4>3. rows[p] \in Asset /\ rows[p] # None
        BY <1>2, <2>1, <4>1, <4>2, RowsAreRows, NoneIsNoRow DEF Item
      <4>4. rows[p].rev = run[s].rev /\ rows[p].order = item.order /\ rows[p].fact = item.fact
        BY <4>1, <4>2 DEF Pointed, Asset
      <4>5. ASSUME NEW x \in observations, x.object = o, x.projected
            PROVE  /\ x.rev <= run[s].rev
                   /\ x.rev = run[s].rev => /\ x.order <= item.order
                                            /\ x.order = item.order => x.fact = item.fact
        <5>1. /\ x.rev <= assets[o].rev
              /\ x.rev = assets[o].rev => /\ x.order <= assets[o].order
                                          /\ x.order = assets[o].order => x.fact = assets[o].fact
          BY <2>1, <2>2, <4>5 DEF InventorySafety, PointsToNewest
        <5>2. x.rev \in Int /\ x.order \in Int /\ assets[o].rev \in Int /\ assets[o].order \in Int
              /\ run[s].rev \in Int
          BY <1>2, <4>1, InventoryConstants DEF Observation, Asset, RunRow
        <5> QED  BY <2>1, <3>1, <5>1, <5>2 DEF pageFreshnessAccepts
      <4>6. run[s].rev \in Int
        BY <1>2, InventoryConstants DEF RunRow
      <4> HIDE DEF rows
      <4> QED  BY <2>1, <2>2, <3>3, <4>3, <4>4, <4>5, <4>6
    <3> QED  BY <3>2, <3>3
  <2>3. CASE ~Known(o) /\ rows = assets /\ observations' = observations
    BY <2>3 DEF InventorySafety, PointsToNewest, UnknownIsUnseen, Known
  <2>4. CASE /\ ~Known(o) /\ c \in Objects /\ Known(c)
             /\ rows = [assets EXCEPT ![c].mapping = "AMBIGUOUS"]
             /\ observations' = observations \cup {Seen(FALSE)}
    <3>1. assets[c] \in Asset
      BY <1>2, <2>4 DEF Known
    <3>2. /\ rows[p] # None <=> Known(p)
          /\ Known(p) => rows[p].rev = assets[p].rev /\ rows[p].order = assets[p].order /\ rows[p].fact = assets[p].fact
      <4>1. CASE p = c
        <5>1. rows[p] = [assets[c] EXCEPT !.mapping = "AMBIGUOUS"]
          BY <1>2, <2>4, <4>1
        <5>2. rows[p] \in Asset
          BY <3>1, <5>1 DEF Asset, Mappings
        <5> QED  BY <2>4, <3>1, <4>1, <5>1, <5>2, NoneIsNoRow DEF Asset
      <4>2. CASE p # c
        <5>1. rows[p] = assets[p]
          BY <1>2, <2>4, <4>2
        <5> QED  BY <5>1 DEF Known
      <4> QED  BY <4>1, <4>2
    <3>3. \A x \in observations' : x.projected => x \in observations
      BY <2>4
    <3> HIDE DEF rows, c
    <3> QED  BY <2>4, <3>2, <3>3 DEF InventorySafety, PointsToNewest, UnknownIsUnseen
  <2>5. CASE /\ ~Known(o)
             /\ rows = [assets EXCEPT ![o] = NewAsset(run[s], item.order, item.fact)]
             /\ observations' = observations \cup {Seen(TRUE)}
    <3>1. CASE p # o
      <4>1. rows[p] = assets[p]
        BY <1>2, <2>5, <3>1
      <4>2. \A x \in observations' : x.object = p => x \in observations
        BY <2>5, <3>1
      <4> QED  BY <4>1, <4>2 DEF InventorySafety, PointsToNewest, UnknownIsUnseen, Known
    <3>2. CASE p = o
      <4>1. rows[p] = NewAsset(run[s], item.order, item.fact)
        BY <1>2, <2>1, <2>5, <3>2
      <4>2. rows[p] # None
        BY <1>2, <2>1, <4>1, RowsAreRows, NoneIsNoRow DEF Item
      <4>3. rows[p].rev = run[s].rev /\ rows[p].order = item.order /\ rows[p].fact = item.fact
        BY <4>1 DEF NewAsset
      <4>4. \A x \in observations : x.object = o => ~x.projected
        BY <2>1, <2>5 DEF UnknownIsUnseen
      <4>5. run[s].rev \in Int
        BY <1>2, InventoryConstants DEF RunRow
      <4> HIDE DEF rows
      <4> QED  BY <2>1, <2>5, <3>2, <4>2, <4>3, <4>4, <4>5
    <3> QED  BY <3>1, <3>2
  <2>6. \/ Known(o) /\ rows = [assets EXCEPT ![o] = Pointed(assets[o], run[s], item.order, item.fact)]
           /\ observations' = observations \cup {Seen(TRUE)}
        \/ ~Known(o) /\ rows = assets /\ observations' = observations
        \/ ~Known(o) /\ c \in Objects /\ Known(c) /\ rows = [assets EXCEPT ![c].mapping = "AMBIGUOUS"]
           /\ observations' = observations \cup {Seen(FALSE)}
        \/ ~Known(o) /\ rows = [assets EXCEPT ![o] = NewAsset(run[s], item.order, item.fact)]
           /\ observations' = observations \cup {Seen(TRUE)}
    BY <1>1, <1>5, <2>1, ItemCases
  <2> HIDE DEF rows, o, c, Seen
  <2> QED  BY <2>2, <2>3, <2>4, <2>5, <2>6
<1> QED  BY <1>4, <1>5

(* A page keeps ambiguous assets decidable: the page that makes one ambiguous opens the
   conflict (insertPageConflict), and no page decides one. *)
LEMMA PageKeepsDecidable ==
  ASSUME InventoryInv, NEW s \in Sources, NEW final \in BOOLEAN, NEW complete \in BOOLEAN,
         NEW order \in 1..MaxOrder[s], NEW item \in Items(s, order), NEW relation \in Relations(s, order),
         ApplyPage(s, order, item, relation, final, complete)
  PROVE  AmbiguousIsDecidable' /\ ConflictsAreKnown'
<1> USE DEF InventoryInv
<1> DEFINE rows == PageRows(item)
           c == FingerprintCandidate(item.object)
<1>1. /\ rows \in [Objects -> Asset \cup {None}]
      /\ \A p \in Objects : Staled(rows[p], assets'[p])
      /\ conflicts' = PageConflicts(item)
      /\ item # None => item \in Item(s)
  BY PageShape
<1>2. assets \in [Objects -> Asset \cup {None}] /\ conflicts \in Seq(Conflict) /\ run[s] \in RunRow
  BY DEF InventoryTypeOK
<1>3. ASSUME NEW p \in Objects
      PROVE  /\ assets'[p] = None <=> rows[p] = None
             /\ rows[p] # None => /\ assets'[p].mapping = rows[p].mapping
                                  /\ Bindable(p)' <=> rows[p].life \notin {"RETIRED", "QUARANTINED"}
  <2>1. rows[p] \in Asset \cup {None} /\ Staled(rows[p], assets'[p])
    BY <1>1
  <2> HIDE DEF rows
  <2> QED  BY <2>1, StaledKeeps DEF Bindable
<1>4. \/ /\ conflicts' = conflicts
         /\ \A p \in Objects : \/ rows[p] = assets[p]
                               \/ rows[p] # None /\ rows[p].mapping = "UNRESOLVED"
                               \/ /\ Known(p) /\ rows[p] # None /\ rows[p].mapping = assets[p].mapping
                                  /\ rows[p].life \in {"RETIRED", "QUARANTINED"} <=> ~Bindable(p)
      \/ /\ conflicts' = Append(conflicts, [asset |-> c, status |-> "OPEN"])
         /\ c \in Objects /\ rows[c] # None
         /\ \A p \in Objects \ {c} : rows[p] = assets[p]
  <2>1. CASE item = None
    BY <1>1, <2>1 DEF PageRows, PageConflicts
  <2>2. CASE item # None
    <3>1. item \in Item(s) /\ item.object \in Objects /\ item.order \in Nat /\ item.fact \in Said
      BY <1>1, <2>2 DEF Item
    <3>2. CASE /\ Known(item.object) /\ PageConflicts(item) = conflicts
               /\ rows = [assets EXCEPT ![item.object] = Pointed(assets[item.object], run[s], item.order, item.fact)]
      <4>1. assets[item.object] \in Asset
        BY <1>2, <3>1, <3>2 DEF Known
      <4>2. rows[item.object] = Pointed(assets[item.object], run[s], item.order, item.fact)
        BY <1>2, <3>1, <3>2
      <4>3. rows[item.object] \in Asset
        BY <1>2, <3>1, <4>1, <4>2, RowsAreRows
      <4>4. /\ rows[item.object].mapping = assets[item.object].mapping
            /\ rows[item.object].life = LifecycleAfter(assets[item.object].life, item.fact)
        BY <4>1, <4>2 DEF Pointed, Asset
      <4>5. /\ rows[item.object] # None
            /\ rows[item.object].life \in {"RETIRED", "QUARANTINED"} <=> ~Bindable(item.object)
        BY <4>1, <4>3, <4>4, NoneIsNoRow DEF LifecycleAfter, Bindable, Asset
      <4>6. \A p \in Objects \ {item.object} : rows[p] = assets[p]
        BY <1>2, <3>2
      <4> HIDE DEF rows
      <4> QED  BY <1>1, <3>2, <4>4, <4>5, <4>6
    <3>3. CASE rows = assets /\ PageConflicts(item) = conflicts
      BY <1>1, <3>3
    <3>4. CASE /\ c \in Objects /\ Known(c)
               /\ rows = [assets EXCEPT ![c].mapping = "AMBIGUOUS"]
               /\ PageConflicts(item) = Append(conflicts, [asset |-> c, status |-> "OPEN"])
      <4>1. assets[c] \in Asset /\ rows[c] = [assets[c] EXCEPT !.mapping = "AMBIGUOUS"]
        BY <1>2, <3>4 DEF Known
      <4>2. rows[c] \in Asset
        BY <4>1 DEF Asset, Mappings
      <4>3. \A p \in Objects \ {c} : rows[p] = assets[p]
        BY <1>2, <3>4
      <4> QED  BY <1>1, <3>4, <4>2, <4>3, NoneIsNoRow
    <3>5. CASE /\ PageConflicts(item) = conflicts
               /\ rows = [assets EXCEPT ![item.object] = NewAsset(run[s], item.order, item.fact)]
      <4>1. rows[item.object] = NewAsset(run[s], item.order, item.fact)
        BY <1>2, <3>1, <3>5
      <4>2. rows[item.object] # None /\ rows[item.object].mapping = "UNRESOLVED"
        BY <1>2, <3>1, <4>1, RowsAreRows, NoneIsNoRow DEF NewAsset
      <4>3. \A p \in Objects \ {item.object} : rows[p] = assets[p]
        BY <1>2, <3>5
      <4> QED  BY <1>1, <3>5, <4>2, <4>3
    <3> HIDE DEF rows, c
    <3> QED  BY <2>2, <3>1, <3>2, <3>3, <3>4, <3>5, ItemCases DEF rows, c
  <2> QED  BY <2>1, <2>2
<1> HIDE DEF rows, c
<1>5. CASE /\ conflicts' = conflicts
           /\ \A p \in Objects : \/ rows[p] = assets[p]
                                 \/ rows[p] # None /\ rows[p].mapping = "UNRESOLVED"
                                 \/ /\ Known(p) /\ rows[p] # None /\ rows[p].mapping = assets[p].mapping
                                    /\ rows[p].life \in {"RETIRED", "QUARANTINED"} <=> ~Bindable(p)
  <2>1. AmbiguousIsDecidable'
    <3> SUFFICES ASSUME NEW p \in Objects, (Known(p) /\ assets[p].mapping = "AMBIGUOUS" /\ Bindable(p))'
                 PROVE  OpenFor(p, 0)' # {}
      BY DEF AmbiguousIsDecidable
    <3>1. Known(p) /\ assets[p].mapping = "AMBIGUOUS" /\ Bindable(p)
      BY <1>3, <1>5 DEF Known, Bindable
    <3> QED  BY <1>5, <3>1 DEF InventorySafety, AmbiguousIsDecidable, OpenFor
  <2>2. ConflictsAreKnown'
    <3>1. \A k \in DOMAIN conflicts : conflicts[k].asset \in Objects
      BY ConflictRows
    <3> QED  BY <1>3, <1>5, <3>1 DEF ConflictsAreKnown, Known
  <2> QED  BY <2>1, <2>2
<1>6. CASE /\ conflicts' = Append(conflicts, [asset |-> c, status |-> "OPEN"])
           /\ c \in Objects /\ rows[c] # None
           /\ \A p \in Objects \ {c} : rows[p] = assets[p]
  <2>1. /\ \A k \in DOMAIN conflicts : k \in DOMAIN conflicts' /\ conflicts'[k] = conflicts[k] /\ k # 0
        /\ Len(conflicts) + 1 \in DOMAIN conflicts' /\ Len(conflicts) + 1 # 0
        /\ conflicts'[Len(conflicts) + 1] = [asset |-> c, status |-> "OPEN"]
        /\ \A k \in DOMAIN conflicts' : k \in DOMAIN conflicts \/ k = Len(conflicts) + 1
    BY <1>2, <1>6
  <2>2. AmbiguousIsDecidable'
    <3> SUFFICES ASSUME NEW p \in Objects, (Known(p) /\ assets[p].mapping = "AMBIGUOUS" /\ Bindable(p))'
                 PROVE  OpenFor(p, 0)' # {}
      BY DEF AmbiguousIsDecidable
    <3>1. CASE p = c
      BY <2>1, <3>1 DEF OpenFor
    <3>2. CASE p # c
      <4>1. Known(p) /\ assets[p].mapping = "AMBIGUOUS" /\ Bindable(p)
        BY <1>3, <1>6, <3>2 DEF Known, Bindable
      <4>2. PICK k \in DOMAIN conflicts : conflicts[k].asset = p /\ conflicts[k].status = "OPEN"
        BY <4>1 DEF InventorySafety, AmbiguousIsDecidable, OpenFor
      <4> QED  BY <2>1, <4>2 DEF OpenFor
    <3> QED  BY <3>1, <3>2
  <2>3. ConflictsAreKnown'
    <3>1. \A k \in DOMAIN conflicts : conflicts[k].asset \in Objects
      BY ConflictRows
    <3>2. \A p \in Objects : (p = c \/ Known(p)) => Known(p)'
      BY <1>3, <1>6 DEF Known
    <3> QED  BY <1>6, <2>1, <3>1, <3>2 DEF ConflictsAreKnown
  <2> QED  BY <2>2, <2>3
<1> QED  BY <1>4, <1>5, <1>6

(* Commands and the starts of runs keep the newest facts: they change no observation and, of
   a row, only its lifecycle or its mapping. *)
LEMMA CommandKeepsNewest ==
  ASSUME InventoryInv, observations' = observations, NEW o \in Objects, Known(o),
         NEW row \in Asset, assets' = [assets EXCEPT ![o] = row],
         row.rev = assets[o].rev, row.order = assets[o].order, row.fact = assets[o].fact
  PROVE  PointsToNewest' /\ UnknownIsUnseen' /\ (\A p \in Objects : Known(p)' <=> Known(p))
<1>1. assets \in [Objects -> Asset \cup {None}]
  BY DEF InventoryInv, InventoryTypeOK
<1>2. \A p \in Objects : p # o => assets'[p] = assets[p]
  BY <1>1
<1>3. assets'[o] = row /\ row # None
  BY <1>1, NoneIsNoRow
<1>4. \A p \in Objects : Known(p)' <=> Known(p)
  BY <1>2, <1>3 DEF Known
<1>5. \A p \in Objects : Known(p) =>
        assets'[p].rev = assets[p].rev /\ assets'[p].order = assets[p].order /\ assets'[p].fact = assets[p].fact
  BY <1>2, <1>3
<1>6. PointsToNewest'
  BY <1>4, <1>5 DEF InventoryInv, InventorySafety, PointsToNewest
<1>7. UnknownIsUnseen'
  BY <1>4 DEF InventoryInv, UnknownIsUnseen
<1> QED  BY <1>4, <1>6, <1>7

(* A decision settles one conflict of one asset, which it leaves decidable: the others keep
   theirs. *)
LEMMA DecisionKeepsDecidable ==
  ASSUME InventoryInv, NEW k \in DOMAIN conflicts, NEW st \in {"RESOLVED", "REJECTED"}, Decide(k, st),
         NEW row \in Asset, assets' = [assets EXCEPT ![conflicts[k].asset] = row],
         \/ row.mapping # "AMBIGUOUS"
         \/ row.life \in {"RETIRED", "QUARANTINED"}
         \/ OpenFor(conflicts[k].asset, k) # {},
         row.rev = assets[conflicts[k].asset].rev, row.order = assets[conflicts[k].asset].order,
         row.fact = assets[conflicts[k].asset].fact
  PROVE  PointsToNewest' /\ UnknownIsUnseen' /\ AmbiguousIsDecidable' /\ ConflictsAreKnown'
<1> DEFINE o == conflicts[k].asset
<1>1. conflicts[k] \in Conflict /\ o \in Objects /\ Known(o)
  BY ConflictRows DEF InventoryInv, ConflictsAreKnown
<1>2. assets \in [Objects -> Asset \cup {None}] /\ conflicts \in Seq(Conflict)
  BY DEF InventoryInv, InventoryTypeOK
<1>3. observations' = observations /\ conflicts' = [conflicts EXCEPT ![k].status = st]
  BY DEF Decide
<1>4. PointsToNewest' /\ UnknownIsUnseen' /\ \A p \in Objects : Known(p)' <=> Known(p)
  <2> HIDE DEF o
  <2> QED  BY <1>1, <1>3, CommandKeepsNewest DEF o
<1>5. /\ DOMAIN conflicts' = DOMAIN conflicts
      /\ \A j \in DOMAIN conflicts : j # k => conflicts'[j] = conflicts[j]
      /\ conflicts'[k].asset = o
  BY <1>1, <1>2, <1>3 DEF Conflict
<1>6. ConflictsAreKnown'
  <2>1. \A j \in DOMAIN conflicts : conflicts'[j].asset = conflicts[j].asset
    BY <1>5
  <2> QED  BY <1>4, <1>5, <2>1, ConflictRows DEF InventoryInv, ConflictsAreKnown
<1>7. AmbiguousIsDecidable'
  <2> SUFFICES ASSUME NEW p \in Objects, (Known(p) /\ assets[p].mapping = "AMBIGUOUS" /\ Bindable(p))'
               PROVE  OpenFor(p, 0)' # {}
    BY DEF AmbiguousIsDecidable
  <2>1. CASE p = o
    <3>1. assets'[p] = row
      BY <1>1, <1>2, <2>1
    <3>2. PICK j \in DOMAIN conflicts : j # k /\ conflicts[j].asset = o /\ conflicts[j].status = "OPEN"
      BY <3>1 DEF Bindable, OpenFor
    <3> QED  BY <1>5, <2>1, <3>2, ConflictRows DEF OpenFor, InventoryInv
  <2>2. CASE p # o
    <3>1. assets'[p] = assets[p]
      BY <1>1, <1>2, <2>2
    <3>2. Known(p) /\ assets[p].mapping = "AMBIGUOUS" /\ Bindable(p)
      BY <3>1 DEF Known, Bindable
    <3>3. PICK j \in DOMAIN conflicts : conflicts[j].asset = p /\ conflicts[j].status = "OPEN"
      BY <3>2 DEF InventoryInv, InventorySafety, AmbiguousIsDecidable, OpenFor
    <3> QED  BY <1>5, <2>2, <3>3, ConflictRows DEF OpenFor, InventoryInv
  <2> QED  BY <2>1, <2>2
<1> QED  BY <1>4, <1>6, <1>7

(* A lifecycle command leaves what is ambiguous decidable: it brings no quarantined or retired
   asset back. *)
LEMMA LifecycleKeepsDecidable ==
  ASSUME InventoryInv, UNCHANGED <<observations, conflicts>>, NEW o \in Objects, Known(o),
         NEW to \in Lifecycles, assets' = [assets EXCEPT ![o].life = to],
         to \in {"QUARANTINED", "RETIRED"} \/ Bindable(o)
  PROVE  PointsToNewest' /\ UnknownIsUnseen' /\ AmbiguousIsDecidable' /\ ConflictsAreKnown'
<1>1. assets \in [Objects -> Asset \cup {None}] /\ assets[o] \in Asset
  BY DEF InventoryInv, InventoryTypeOK, Known
<1>2. PICK row : row = [assets[o] EXCEPT !.life = to]
  OBVIOUS
<1>3. /\ row \in Asset /\ assets' = [assets EXCEPT ![o] = row]
      /\ row.rev = assets[o].rev /\ row.order = assets[o].order /\ row.fact = assets[o].fact
      /\ row.mapping = assets[o].mapping /\ row.life = to
  BY <1>1, <1>2 DEF Asset
<1>4. PointsToNewest' /\ UnknownIsUnseen' /\ \A p \in Objects : Known(p)' <=> Known(p)
  BY <1>3, CommandKeepsNewest
<1>5. ConflictsAreKnown'
  BY <1>4, ConflictRows DEF InventoryInv, ConflictsAreKnown
<1>6. AmbiguousIsDecidable'
  <2> SUFFICES ASSUME NEW p \in Objects, (Known(p) /\ assets[p].mapping = "AMBIGUOUS" /\ Bindable(p))'
               PROVE  OpenFor(p, 0)' # {}
    BY DEF AmbiguousIsDecidable
  <2>1. p # o => assets'[p] = assets[p]
    BY <1>1, <1>3
  <2>2. p = o => assets'[p] = row
    BY <1>1, <1>3
  <2>3. Known(p) /\ assets[p].mapping = "AMBIGUOUS" /\ Bindable(p)
    BY <1>3, <2>1, <2>2 DEF Known, Bindable
  <2> QED  BY <2>3 DEF InventoryInv, InventorySafety, AmbiguousIsDecidable, OpenFor
<1> QED  BY <1>4, <1>5, <1>6

(* The run of a source closes when its last page is complete. *)
LEMMA StepKeepsClosed ==
  ASSUME InventoryInv, InventoryNext
  PROVE  CompleteIsClosed'
<1> SUFFICES ASSUME NEW t \in Sources
             PROVE  run'[t].complete => ~run'[t].open
  BY DEF CompleteIsClosed
<1>1. run \in [Sources -> RunRow] /\ (run[t].complete => ~run[t].open)
  BY DEF InventoryInv, InventoryTypeOK, CompleteIsClosed
<1>2. ASSUME NEW s \in Sources, NEW final \in BOOLEAN, NEW complete \in BOOLEAN,
             NEW order \in 1..MaxOrder[s], NEW item \in Items(s, order), NEW relation \in Relations(s, order),
             ApplyPage(s, order, item, relation, final, complete)
      PROVE  run'[t].complete => ~run'[t].open
  <2>1. PICK rejects \in BOOLEAN, closes \in BOOLEAN :
          /\ run' = [run EXCEPT ![s].open = ~final, ![s].rejected = @ \/ rejects, ![s].complete = closes]
          /\ closes => final
    BY <1>2 DEF ApplyPage, ItemRejected, ClosesMembership
  <2> QED  BY <1>1, <2>1 DEF RunRow
<1>3. ASSUME NEW s \in Sources, NEW rev \in 1..MaxRevision, StartRun(s, rev)
      PROVE  run'[t].complete => ~run'[t].open
  BY <1>1, <1>3 DEF StartRun
<1>4. CASE UNCHANGED run
  BY <1>1, <1>4
<1> QED
  BY <1>2, <1>3, <1>4
  DEF InventoryNext, Transition, Activate, CreateBinding, DeleteBinding, ConfirmExact, RejectCandidate,
      KeepUnresolved, QuarantineAsset, Decide

(* The invariant is inductive. *)
THEOREM InventoryInductive == InventoryInv /\ [InventoryNext]_inventoryVars => InventoryInv'
<1> SUFFICES ASSUME InventoryInv, [InventoryNext]_inventoryVars
             PROVE  InventoryInv'
  OBVIOUS
<1>1. CASE UNCHANGED inventoryVars
  <2>1. UNCHANGED <<run, observations, assets, edges, conflicts, bindings>>
    BY <1>1 DEF inventoryVars
  <2> QED
    BY <2>1 DEF InventoryInv, InventoryTypeOK, InventorySafety, PointsToNewest, AmbiguousIsDecidable,
                UnknownIsUnseen, ConflictsAreKnown, CompleteIsClosed, Known, Bindable, OpenFor
<1>2. CASE InventoryNext
  <2> SUFFICES PointsToNewest' /\ UnknownIsUnseen' /\ AmbiguousIsDecidable' /\ ConflictsAreKnown'
    BY <1>2, StepTyped, StepKeepsClosed DEF InventoryInv, InventorySafety
  <2>1. ASSUME NEW s \in Sources, NEW final \in BOOLEAN, NEW complete \in BOOLEAN,
               NEW order \in 1..MaxOrder[s], NEW item \in Items(s, order), NEW relation \in Relations(s, order),
               ApplyPage(s, order, item, relation, final, complete)
        PROVE  PointsToNewest' /\ UnknownIsUnseen' /\ AmbiguousIsDecidable' /\ ConflictsAreKnown'
    BY <2>1, PageKeepsNewest, PageKeepsDecidable
  <2>2. CASE UNCHANGED <<observations, assets, conflicts>>
    BY <2>2 DEF InventoryInv, InventorySafety, PointsToNewest, AmbiguousIsDecidable,
                UnknownIsUnseen, ConflictsAreKnown, Known, Bindable, OpenFor
  <2>3. ASSUME NEW o \in Objects, NEW to \in Lifecycles, Transition(o, to)
        PROVE  PointsToNewest' /\ UnknownIsUnseen' /\ AmbiguousIsDecidable' /\ ConflictsAreKnown'
    BY <2>3, LifecycleKeepsDecidable DEF Transition
  <2>4. ASSUME NEW o \in Objects, Activate(o)
        PROVE  PointsToNewest' /\ UnknownIsUnseen' /\ AmbiguousIsDecidable' /\ ConflictsAreKnown'
    <3>1. Bindable(o) /\ "ACTIVE" \in Lifecycles
      BY <2>4 DEF Activate, Bindable, Lifecycles
    <3> QED  BY <2>4, <3>1, LifecycleKeepsDecidable DEF Activate
  <2>5. ASSUME NEW k \in DOMAIN conflicts
        PROVE  /\ conflicts[k].asset \in Objects /\ assets[conflicts[k].asset] \in Asset
               /\ assets \in [Objects -> Asset \cup {None}]
    BY <2>5, ConflictRows DEF InventoryInv, InventoryTypeOK, ConflictsAreKnown, Known
  <2>6. ASSUME NEW k \in DOMAIN conflicts, NEW m \in Mappings, NEW st \in {"RESOLVED", "REJECTED"}, Decide(k, st),
               assets' = [assets EXCEPT ![conflicts[k].asset].mapping = m],
               m # "AMBIGUOUS" \/ OpenFor(conflicts[k].asset, k) # {}
        PROVE  PointsToNewest' /\ UnknownIsUnseen' /\ AmbiguousIsDecidable' /\ ConflictsAreKnown'
    <3>1. PICK row : row = [assets[conflicts[k].asset] EXCEPT !.mapping = m]
      OBVIOUS
    <3>2. row \in Asset /\ assets' = [assets EXCEPT ![conflicts[k].asset] = row]
      BY <2>5, <2>6, <3>1 DEF Asset
    <3>3. /\ row.rev = assets[conflicts[k].asset].rev /\ row.order = assets[conflicts[k].asset].order
          /\ row.fact = assets[conflicts[k].asset].fact /\ row.mapping = m
      BY <2>5, <3>1 DEF Asset
    <3> QED  BY <2>6, <3>2, <3>3, DecisionKeepsDecidable
  <2>7. ASSUME NEW k \in DOMAIN conflicts, NEW service \in Services, ConfirmExact(k, service)
        PROVE  PointsToNewest' /\ UnknownIsUnseen' /\ AmbiguousIsDecidable' /\ ConflictsAreKnown'
    <3>1. Decide(k, "RESOLVED") /\ assets' = [assets EXCEPT ![conflicts[k].asset].mapping = "EXACT"]
      BY <2>7 DEF ConfirmExact
    <3> QED  BY <2>6, <3>1 DEF Mappings
  <2>8. ASSUME NEW k \in DOMAIN conflicts, RejectCandidate(k)
        PROVE  PointsToNewest' /\ UnknownIsUnseen' /\ AmbiguousIsDecidable' /\ ConflictsAreKnown'
    <3>1. PICK m \in Mappings : /\ assets' = [assets EXCEPT ![conflicts[k].asset].mapping = m]
                                /\ m # "AMBIGUOUS" \/ OpenFor(conflicts[k].asset, k) # {}
      BY <2>8 DEF RejectCandidate, Mappings
    <3>2. Decide(k, "REJECTED")
      BY <2>8 DEF RejectCandidate
    <3> QED  BY <2>6, <3>1, <3>2
  <2>9. ASSUME NEW k \in DOMAIN conflicts, KeepUnresolved(k)
        PROVE  PointsToNewest' /\ UnknownIsUnseen' /\ AmbiguousIsDecidable' /\ ConflictsAreKnown'
    <3>1. Decide(k, "RESOLVED") /\ assets' = [assets EXCEPT ![conflicts[k].asset].mapping = "UNRESOLVED"]
      BY <2>9 DEF KeepUnresolved
    <3> QED  BY <2>6, <3>1 DEF Mappings
  <2>10. ASSUME NEW k \in DOMAIN conflicts, QuarantineAsset(k)
         PROVE  PointsToNewest' /\ UnknownIsUnseen' /\ AmbiguousIsDecidable' /\ ConflictsAreKnown'
    <3>1. Decide(k, "RESOLVED") /\ assets' = [assets EXCEPT ![conflicts[k].asset].life = "QUARANTINED"]
      BY <2>10 DEF QuarantineAsset
    <3>2. PICK row : row = [assets[conflicts[k].asset] EXCEPT !.life = "QUARANTINED"]
      OBVIOUS
    <3>3. row \in Asset /\ assets' = [assets EXCEPT ![conflicts[k].asset] = row]
      BY <2>5, <3>1, <3>2 DEF Asset, Lifecycles
    <3>4. /\ row.rev = assets[conflicts[k].asset].rev /\ row.order = assets[conflicts[k].asset].order
          /\ row.fact = assets[conflicts[k].asset].fact /\ row.life = "QUARANTINED"
      BY <2>5, <3>2 DEF Asset
    <3> QED  BY <3>1, <3>3, <3>4, DecisionKeepsDecidable
  <2> QED
    BY <1>2, <2>1, <2>2, <2>3, <2>4, <2>7, <2>8, <2>9, <2>10
    DEF InventoryNext, StartRun, CreateBinding, DeleteBinding
<1> QED  BY <1>1, <1>2 DEF inventoryVars

(* The empty inventory satisfies it. *)
LEMMA InventoryInitially == InventoryInit => InventoryInv
<1> SUFFICES ASSUME InventoryInit PROVE InventoryInv
  OBVIOUS
<1>1. InventoryTypeOK
  <2>1. [n |-> 0, rev |-> 1, open |-> FALSE, rejected |-> FALSE, complete |-> FALSE] \in RunRow
    BY InventoryConstants DEF RunRow
  <2> QED  BY <2>1, InventoryConstants DEF InventoryInit, InventoryTypeOK
<1>2. \A o \in Objects : ~Known(o)
  BY DEF InventoryInit, Known
<1>3. InventorySafety /\ UnknownIsUnseen /\ ConflictsAreKnown /\ CompleteIsClosed
  BY <1>2 DEF InventoryInit, InventorySafety, PointsToNewest, AmbiguousIsDecidable, UnknownIsUnseen,
              ConflictsAreKnown, CompleteIsClosed
<1> QED  BY <1>1, <1>3 DEF InventoryInv

(* The rows have their types, whatever pages, runs and commands come (page_projection.go,
   assets.go, mappings.go). *)
THEOREM InventoryTyped == InventorySpec => []InventoryTypeOK
<1>1. InventoryInv => InventoryTypeOK
  BY DEF InventoryInv
<1> QED  BY <1>1, InventoryInitially, InventoryInductive, PTL DEF InventorySpec

(* Whatever order pages and runs come in, an asset points to the newest fact of its newest
   revision (pageFreshnessAccepts), and what is ambiguous and in use can still be decided
   (insertPageConflict, DecideConflict). *)
THEOREM InventoryIsSafe == InventorySpec => []InventorySafety
<1>1. InventoryInv => InventorySafety
  BY DEF InventoryInv
<1> QED  BY <1>1, InventoryInitially, InventoryInductive, PTL DEF InventorySpec

-----------------------------------------------------------------------------
(* What discovery takes out of service. *)

(* The lifecycle of an asset before the closure: only a tombstone of its own changes it. *)
LEMMA RowLifecycle ==
  ASSUME InventoryInv, NEW s \in Sources, NEW item, item # None => item \in Item(s),
         NEW p \in Objects, Known(p)
  PROVE  /\ PageRows(item)[p] # None
         /\ PageRows(item)[p].life # assets[p].life =>
              /\ SourceOf[p] = s
              /\ assets[p].life = "ACTIVE" /\ PageRows(item)[p].life = "STALE"
              /\ PageRows(item)[p].fact = Gone /\ PageRows(item)[p].run = run[s].n
<1> DEFINE rows == PageRows(item)
<1>1. assets \in [Objects -> Asset \cup {None}] /\ assets[p] \in Asset /\ run[s] \in RunRow
  BY DEF InventoryInv, InventoryTypeOK, Known
<1>2. CASE rows[p] = assets[p]
  BY <1>2 DEF Known
<1>3. CASE item # None
  <2> DEFINE o == item.object
             c == FingerprintCandidate(o)
  <2>1. item \in Item(s) /\ o \in Objects /\ SourceOf[o] = s /\ item.order \in Nat /\ item.fact \in Said
    BY <1>3 DEF Item
  <2>2. CASE Known(o) /\ rows = [assets EXCEPT ![o] = Pointed(assets[o], run[s], item.order, item.fact)]
    <3>1. CASE p # o
      BY <1>1, <1>2, <2>2, <3>1
    <3>2. CASE p = o
      <4>1. rows[p] = Pointed(assets[p], run[s], item.order, item.fact)
        BY <1>1, <2>1, <2>2, <3>2
      <4>2. rows[p] \in Asset
        BY <1>1, <2>1, <4>1, RowsAreRows
      <4>3. /\ rows[p].life = LifecycleAfter(assets[p].life, item.fact)
            /\ rows[p].fact = item.fact /\ rows[p].run = run[s].n
        BY <1>1, <4>1 DEF Pointed, Asset
      <4> QED  BY <2>1, <3>2, <4>2, <4>3, NoneIsNoRow DEF LifecycleAfter
    <3> QED  BY <3>1, <3>2
  <2>3. CASE rows = assets
    BY <1>2, <2>3
  <2>4. CASE c \in Objects /\ Known(c) /\ rows = [assets EXCEPT ![c].mapping = "AMBIGUOUS"]
    <3>1. CASE p # c
      BY <1>1, <1>2, <2>4, <3>1
    <3>2. CASE p = c
      <4>1. rows[p] = [assets[p] EXCEPT !.mapping = "AMBIGUOUS"]
        BY <1>1, <2>4, <3>2
      <4>2. rows[p] \in Asset /\ rows[p].life = assets[p].life
        BY <1>1, <4>1 DEF Asset, Mappings
      <4> QED  BY <4>2, NoneIsNoRow
    <3> QED  BY <3>1, <3>2
  <2>5. CASE ~Known(o) /\ rows = [assets EXCEPT ![o] = NewAsset(run[s], item.order, item.fact)]
    BY <1>1, <1>2, <2>5
  <2> HIDE DEF rows, o, c
  <2> QED  BY <1>3, <2>1, <2>2, <2>3, <2>4, <2>5, ItemCases DEF rows, o, c, InventoryInv
<1>4. CASE item = None
  BY <1>2, <1>4 DEF PageRows
<1> QED  BY <1>3, <1>4

(* What the closure of a run adds: a page either leaves the rows as the item left them, or it
   was the last of a run without a reject, and then what the run has not seen goes stale. *)
LEMMA PageCloses ==
  ASSUME InventoryInv, NEW s \in Sources, NEW final \in BOOLEAN, NEW complete \in BOOLEAN,
         NEW order \in 1..MaxOrder[s], NEW item \in Items(s, order), NEW relation \in Relations(s, order),
         ApplyPage(s, order, item, relation, final, complete)
  PROVE  /\ \A t \in Sources : run'[t].n = run[t].n /\ (t # s => run'[t] = run[t])
         /\ \/ ~run'[s].complete /\ assets' = PageRows(item)
            \/ /\ ~run'[s].rejected /\ ~run'[s].open /\ run'[s].complete
               /\ assets' = closeMissingPageAssets(PageRows(item), observations', s)
               /\ \E ended \in [Edges -> Edge \cup {None}] :
                    edges' = Inactivated(ended, SourceEdges(s), run[s], order)
<1>1. run \in [Sources -> RunRow] /\ order \in Nat
  BY InventoryConstants DEF InventoryInv, InventoryTypeOK
<1> DEFINE rejects == item # None /\ ItemRejected(item.object, item.fact)
           closes == final /\ complete /\ ClosesMembership(s, rejects)
           related == IF relation = None THEN edges ELSE ProjectRelation(relation.edge, relation.order)
           gone == IF item # None /\ item.fact = Gone /\ Known(item.object) THEN {item.object} ELSE {}
           ended == inactivatePageRelationships(related, gone, run[s], order)
<1>2. /\ run' = [run EXCEPT ![s].open = ~final, ![s].rejected = @ \/ rejects, ![s].complete = closes]
      /\ assets' = IF closes THEN closeMissingPageAssets(PageRows(item), PageObservations(item), s) ELSE PageRows(item)
      /\ edges' = IF closes THEN Inactivated(ended, SourceEdges(s), run[s], order) ELSE ended
  BY DEF ApplyPage, PageRows, PageObservations
<1>3. observations' = PageObservations(item)
  BY PageShape DEF InventoryInv
<1>4. ended \in [Edges -> Edge \cup {None}]
  <2>1. related \in [Edges -> Edge \cup {None}]
    <3>1. edges \in [Edges -> Edge \cup {None}]
      BY DEF InventoryInv, InventoryTypeOK
    <3>2. ASSUME relation # None
          PROVE  ProjectRelation(relation.edge, relation.order) \in [Edges -> Edge \cup {None}]
      <4>1. relation.edge \in Edges /\ SourceOf[relation.edge[1]] = s /\ relation.order = order
        BY <3>2 DEF Relations, SourceEdges
      <4>2. [active |-> TRUE, rev |-> run[s].rev, order |-> order, run |-> run[s].n] \in Edge
        BY <1>1 DEF RunRow, Edge
      <4> QED  BY <3>1, <4>1, <4>2 DEF ProjectRelation
    <3> QED  BY <3>1, <3>2
  <2> HIDE DEF related, gone
  <2> QED  BY <1>1, <2>1, EdgesAreEdges DEF inactivatePageRelationships, InventoryInv
<1>5. rejects \in BOOLEAN /\ closes \in BOOLEAN /\ (closes => final /\ ~run[s].rejected /\ ~rejects)
  BY DEF ItemRejected, ClosesMembership
<1> HIDE DEF rejects, closes, related, gone, ended
<1>6. \A t \in Sources : run'[t].n = run[t].n /\ (t # s => run'[t] = run[t])
  BY <1>1, <1>2 DEF RunRow
<1>7. run'[s].complete = closes /\ run'[s].open = ~final /\ run'[s].rejected = (run[s].rejected \/ rejects)
  BY <1>1, <1>2 DEF RunRow
<1> QED  BY <1>2, <1>3, <1>4, <1>5, <1>6, <1>7

(* A page takes an asset out of service only on proof. *)
LEMMA PageLifecycleByProof ==
  ASSUME InventoryInv, NEW s \in Sources, NEW final \in BOOLEAN, NEW complete \in BOOLEAN,
         NEW order \in 1..MaxOrder[s], NEW item \in Items(s, order), NEW relation \in Relations(s, order),
         ApplyPage(s, order, item, relation, final, complete)
  PROVE  LifecycleByProof
<1> SUFFICES ASSUME NEW o \in Objects, Known(o), assets'[o].life # assets[o].life
             PROVE  /\ assets[o].life = "ACTIVE" /\ assets'[o].life = "STALE"
                    /\ \/ assets'[o].fact = Gone /\ assets'[o].run = run[SourceOf[o]].n
                       \/ /\ ~run'[SourceOf[o]].rejected /\ ~run'[SourceOf[o]].open
                          /\ ~\E x \in observations' : x.object = o /\ x.run = run[SourceOf[o]].n
  BY DEF LifecycleByProof
<1> DEFINE row == PageRows(item)[o]
<1>1. /\ row # None
      /\ row.life # assets[o].life =>
           /\ SourceOf[o] = s
           /\ assets[o].life = "ACTIVE" /\ row.life = "STALE" /\ row.fact = Gone /\ row.run = run[s].n
  BY PageShape, RowLifecycle DEF InventoryInv
<1>2. row \in Asset
  BY <1>1, PageShape DEF InventoryInv
<1>3. CASE assets'[o] = row
  BY <1>1, <1>3
<1>4. CASE /\ ~run'[s].rejected /\ ~run'[s].open /\ SourceOf[o] = s /\ row.life = "ACTIVE"
           /\ ~\E x \in observations' : x.object = o /\ x.run = run[s].n
           /\ assets'[o] = [row EXCEPT !.life = "STALE"]
  <2>1. assets'[o].life = "STALE"
    BY <1>2, <1>4 DEF Asset
  <2> HIDE DEF row
  <2> QED  BY <1>1, <1>4, <2>1
<1>5. \/ assets'[o] = row
      \/ /\ ~run'[s].rejected /\ ~run'[s].open /\ SourceOf[o] = s /\ row.life = "ACTIVE"
         /\ ~\E x \in observations' : x.object = o /\ x.run = run[s].n
         /\ assets'[o] = [row EXCEPT !.life = "STALE"]
  <2>1. CASE assets' = PageRows(item)
    BY <2>1
  <2>2. CASE ~run'[s].rejected /\ ~run'[s].open /\ assets' = closeMissingPageAssets(PageRows(item), observations', s)
    BY <2>2 DEF closeMissingPageAssets
  <2> QED  BY <2>1, <2>2, PageCloses
<1> QED  BY <1>3, <1>4, <1>5

(* The page that completes a run leaves in service what the run has seen. *)
LEMMA PageSnapshotCloses ==
  ASSUME InventoryInv, NEW s \in Sources, NEW final \in BOOLEAN, NEW complete \in BOOLEAN,
         NEW order \in 1..MaxOrder[s], NEW item \in Items(s, order), NEW relation \in Relations(s, order),
         ApplyPage(s, order, item, relation, final, complete)
  PROVE  SnapshotCloses
<1> SUFFICES ASSUME NEW t \in Sources, run'[t].complete, run[t].open
             PROVE  /\ \A o \in Objects :
                         /\ SourceOf[o] = t /\ Known(o)' /\ assets'[o].life = "ACTIVE"
                         => ObservedInRun(o)'
                    /\ \A e \in SourceEdges(t) :
                         edges'[e] # None /\ edges'[e].active => edges'[e].run = run[t].n
  BY DEF SnapshotCloses
<1>1. t = s
  BY PageCloses DEF InventoryInv, CompleteIsClosed
<1>2. /\ assets' = closeMissingPageAssets(PageRows(item), observations', s) /\ run'[s].n = run[s].n
      /\ \E ended \in [Edges -> Edge \cup {None}] : edges' = Inactivated(ended, SourceEdges(s), run[s], order)
  BY <1>1, PageCloses
<1>3. ASSUME NEW o \in Objects, SourceOf[o] = t, assets'[o] # None, assets'[o].life = "ACTIVE"
      PROVE  ObservedInRun(o)'
  <2>1. PageRows(item)[o] \in Asset \cup {None}
    BY PageShape DEF InventoryInv
  <2>2. CASE /\ PageRows(item)[o] # None /\ PageRows(item)[o].life = "ACTIVE"
             /\ ~\E x \in observations' : x.object = o /\ x.run = run[s].n
    <3>1. assets'[o] = [PageRows(item)[o] EXCEPT !.life = "STALE"]
      BY <1>1, <1>2, <1>3, <2>2 DEF closeMissingPageAssets
    <3>2. assets'[o].life = "STALE"
      BY <2>1, <2>2, <3>1 DEF Asset
    <3> QED  BY <1>3, <3>2
  <2>3. CASE ~(/\ PageRows(item)[o] # None /\ PageRows(item)[o].life = "ACTIVE"
               /\ ~\E x \in observations' : x.object = o /\ x.run = run[s].n)
    <3>1. assets'[o] = PageRows(item)[o]
      BY <1>2, <1>3, <2>3 DEF closeMissingPageAssets
    <3>2. \E x \in observations' : x.object = o /\ x.run = run[s].n
      BY <1>3, <2>3, <3>1
    <3> QED  BY <1>1, <1>2, <1>3, <3>2 DEF ObservedInRun
  <2> QED  BY <2>2, <2>3
<1>4. ASSUME NEW e \in SourceEdges(t), edges'[e] # None, edges'[e].active
      PROVE  edges'[e].run = run[t].n
  <2>1. PICK ended \in [Edges -> Edge \cup {None}] : edges' = Inactivated(ended, SourceEdges(s), run[s], order)
    BY <1>2
  <2>2. e \in Edges
    BY DEF SourceEdges
  <2>3. CASE ended[e] # None /\ ended[e].active /\ ended[e].run # run[s].n
    <3>1. edges'[e] = [ended[e] EXCEPT !.active = FALSE, !.rev = run[s].rev, !.run = run[s].n,
                                       !.order = IF e \in Sequenced THEN order ELSE @]
      BY <1>1, <2>1, <2>2, <2>3 DEF Inactivated
    <3>2. ended[e] \in Edge
      BY <2>2, <2>3
    <3> QED  BY <1>1, <3>1, <3>2 DEF Edge
  <2>4. CASE ~(ended[e] # None /\ ended[e].active /\ ended[e].run # run[s].n)
    <3>1. edges'[e] = ended[e]
      BY <2>1, <2>2, <2>4 DEF Inactivated
    <3> QED  BY <1>1, <1>4, <2>4, <3>1
  <2> QED  BY <2>3, <2>4
<1> QED  BY <1>3, <1>4 DEF Known

(* Discovery changes what is in service by what it has seen: an asset goes stale only on its
   tombstone or on a whole run without a reject that did not see it, and a whole run leaves
   nothing in service that it did not see (closeMissingPageAssets,
   inactivatePageRelationships). *)
THEOREM DiscoveryActsOnProof == InventorySpec => ServiceFollowsProof
<1>1. ASSUME InventoryInv, InventoryNext
      PROVE  LifecycleByProof /\ SnapshotCloses
  <2>1. ASSUME NEW s \in Sources, NEW final \in BOOLEAN, NEW complete \in BOOLEAN,
               NEW order \in 1..MaxOrder[s], NEW item \in Items(s, order), NEW relation \in Relations(s, order),
               ApplyPage(s, order, item, relation, final, complete)
        PROVE  LifecycleByProof /\ SnapshotCloses
    BY <1>1, <2>1, PageLifecycleByProof, PageSnapshotCloses
  <2> DEFINE Quiet == /\ assets' = assets \/ UNCHANGED <<run, observations>>
                      /\ \A t \in Sources : ~(run'[t].complete /\ run[t].open)
  <2>2. CASE Quiet
    BY <2>2 DEF LifecycleByProof, SnapshotCloses
  <2>3. ASSUME NEW s \in Sources, NEW rev \in 1..MaxRevision, StartRun(s, rev)
        PROVE  Quiet
    BY <1>1, <2>3 DEF StartRun, InventoryInv, InventoryTypeOK, CompleteIsClosed
  <2>4. UNCHANGED <<run, observations>> => Quiet
    BY <1>1 DEF InventoryInv, CompleteIsClosed
  <2> HIDE DEF Quiet
  <2> QED
    BY <1>1, <2>1, <2>2, <2>3, <2>4
    DEF InventoryNext, Transition, Activate, CreateBinding, DeleteBinding, ConfirmExact, RejectCandidate,
        KeepUnresolved, QuarantineAsset, Decide
<1>2. InventoryInv /\ [InventoryNext]_inventoryVars => [LifecycleByProof /\ SnapshotCloses]_inventoryVars
  BY <1>1
<1> QED  BY <1>2, InventoryInitially, InventoryInductive, PTL DEF InventorySpec, ServiceFollowsProof
=============================================================================
