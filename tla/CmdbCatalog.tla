---------------------------- MODULE CmdbCatalog ----------------------------
(* The provider of an external CMDB: it reads a paged catalog, first the assets and then
   the relations, one page for each call, and carries what it has read in a checkpoint
   that is committed with the page.  The catalog may publish a new snapshot between two
   calls, the runtime may be bound to another catalog between two runs, and a catalog
   that is not honest may answer with anything that parses. *)
EXTENDS Integers, Sequences, FiniteSets, Values

CONSTANTS
  Stock,       \* the objects a catalog can hold: [at, id, text, sound]
  Shelves,     \* what the snapshots may hold: [assets, relations, whole] for each
  MaxPulls,    \* bound on the calls of the provider
  MaxSnapshots \* bound on the snapshots a catalog publishes

VARIABLES
  honest,  \* the catalog serves what it holds, in order, and names its snapshot
  shelf,   \* what each snapshot holds
  bound,   \* the catalog the runtime is bound to
  current, \* the snapshot each catalog serves now
  mark,    \* the committed checkpoint
  pull,    \* the call under way
  haul,    \* what has been committed since the traversal began
  told,    \* what the last final page said of the haul
  verdict, \* the proof of the last validation and the snapshot it is about
  refused, \* the snapshots whose first page was refused
  pulls    \* the calls still to come

cmdbVars == <<honest, shelf, bound, current, mark, pull, haul, told, verdict, refused, pulls>>
world == <<honest, shelf, bound, current>>

Catalogs == {1, 2}
Snapshots == Catalogs \X (1..MaxSnapshots)
Cursors == 0..2      \* 0 is no cursor

Start == [phase |-> "CAPABILITIES", authority |-> 0, epoch |-> 0, cursor |-> 0,
          assetLast |-> None, relationLast |-> None, assetsComplete |-> FALSE]
Idle == [at |-> "idle", work |-> Start, fresh |-> FALSE, out |-> None]
NoHaul == [from |-> {}, assets |-> <<>>, relations |-> <<>>]

CmdbInit ==
  /\ honest \in BOOLEAN /\ shelf \in Shelves
  /\ bound = 1 /\ current = [c \in Catalogs |-> 1]
  /\ mark = Start /\ pull = Idle /\ haul = NoHaul /\ told = None
  /\ verdict \in [outcome : {"NONE", "EARLIER"}, of : {<<0, 0>>}] /\ refused = {} /\ pulls \in 0..MaxPulls

-----------------------------------------------------------------------------
(* The catalog.  A cursor of an honest catalog counts the objects already served, and a
   page may begin with the object the last one ended with. *)

Served(list, cursor, replay) ==
  LET first == IF replay THEN cursor ELSE cursor + 1
  IN  IF cursor >= Len(list) THEN <<>> ELSE SubSeq(list, first, cursor + 1)

HonestPage(list, cursor, whole, replay) ==
  LET final == cursor + 1 >= Len(list)
  IN  [items |-> Served(list, cursor, replay), next |-> IF final THEN 0 ELSE cursor + 1,
       final |-> final, complete |-> final /\ whole, epoch |-> current[bound]]

AnyPages ==
  [items : {<<>>} \cup {<<a>> : a \in Stock} \cup {<<a, b>> : a, b \in Stock},
   next : Cursors, final : BOOLEAN, complete : BOOLEAN, epoch : 1..MaxSnapshots]

\* The pages the catalog may answer with.
Answers(kind, cursor) ==
  IF honest
  THEN LET now == shelf[<<bound, current[bound]>>]
       IN  {HonestPage(now[kind], cursor, now.whole, r) : r \in {FALSE, cursor > 0}}
  ELSE AnyPages

Capabilities == [authority : Catalogs, permitted : BOOLEAN, inStep : BOOLEAN, epoch : 1..MaxSnapshots]
CapabilityAnswers ==
  IF honest THEN {[authority |-> bound, permitted |-> TRUE, inStep |-> TRUE, epoch |-> current[bound]]}
            ELSE Capabilities

\* A new snapshot is published; one that is not honest names any snapshot anyway.
Publish ==
  /\ honest /\ current[bound] < MaxSnapshots
  /\ current' = [current EXCEPT ![bound] = @ + 1]
  /\ UNCHANGED <<honest, shelf, bound, mark, pull, haul, told, verdict, refused, pulls>>

\* A later attempt is bound to another catalog.
Rebind ==
  /\ pull.at = "idle" /\ bound = 1 /\ bound' = 2
  /\ UNCHANGED <<honest, shelf, current, mark, pull, haul, told, verdict, refused, pulls>>

-----------------------------------------------------------------------------
(* What the provider checks. *)

validateCapabilities(c) == c.authority = bound /\ c.permitted /\ c.inStep

AnyEpoch(p, work) ==
  /\ p.complete => p.final
  /\ p.final <=> p.next = 0
  /\ ~p.final => p.next # work.cursor
validateCatalogPageEnvelope(p, work) ==
  /\ p.epoch = work.epoch
  /\ p.complete => p.final
  /\ p.final <=> p.next = 0
  /\ ~p.final => p.next # work.cursor

Later(a, b) == a.at > b.at \/ (a.at = b.at /\ a.id > b.id)

validateOrderPosition(last, a, boundary) == last # None => Later(a, last) \/ (a = last /\ boundary)
Regressing(last, items) == \A i \in DOMAIN items : i > 1 => validateOrderPosition(items[i - 1], items[i], FALSE)
InOrder(last, items) ==
  \A i \in DOMAIN items :
    validateOrderPosition(IF i = 1 THEN last ELSE items[i - 1], items[i], i = 1 /\ last # None)

\* What schema, type and secrecy rules make of one object.
validateCatalogAssetSchema(a) == a.sound
normalizeAsset(a) == a.sound = "accepted"
normalizeRelation(a) == a.sound = "accepted"

\* No object twice in one page.
ValidateFacts(items) == Cardinality({items[i].id : i \in DOMAIN items}) = Len(items)

validateCMDBCheckpoint(work) ==
  CASE work.phase = "ASSETS" -> work.cursor # 0 /\ work.assetLast # None /\ work.relationLast = None /\ ~work.assetsComplete
    [] work.phase = "RELATIONS" -> (work.cursor # 0) <=> (work.relationLast # None)
    [] work.phase = "COMPLETE" -> work.cursor = 0

\* The page a call returns: its objects, the checkpoint to commit with it, and what it says of the run.
Outcome(kind, p, work) ==
  [kind |-> kind, items |-> p.items, next |-> work, final |-> kind = "relations" /\ p.final,
   complete |-> kind = "relations" /\ p.final /\ p.complete, from |-> <<bound, p.epoch>>]

LastOf(items, last) == IF items = <<>> THEN last ELSE items[Len(items)]

-----------------------------------------------------------------------------
(* A call of Discover. *)

\* A checkpoint of another catalog is refused before anything is asked.
authorityMatches == mark.phase = "CAPABILITIES" \/ mark.authority = bound

Discover ==
  /\ pull.at = "idle" /\ pulls > 0 /\ pulls' = pulls - 1
  /\ authorityMatches
  /\ pull' = [Idle EXCEPT !.work = mark, !.fresh = mark.phase \in {"CAPABILITIES", "COMPLETE"},
                          !.at = CASE mark.phase \in {"CAPABILITIES", "COMPLETE"} -> "capabilities"
                                   [] mark.phase = "ASSETS" -> "assets"
                                   [] mark.phase = "RELATIONS" -> "relations"]
  /\ UNCHANGED <<world, mark, haul, told, verdict, refused>>

\* The capabilities are read; a traversal begins in their snapshot.
discoverCapabilities ==
  /\ pull.at = "capabilities"
  /\ \E c \in CapabilityAnswers :
       /\ validateCapabilities(c)
       /\ pull' = [pull EXCEPT !.at = "assets",
                     !.work = [Start EXCEPT !.phase = "ASSETS", !.authority = c.authority, !.epoch = c.epoch]]
  /\ UNCHANGED <<world, mark, haul, told, verdict, refused, pulls>>

AssetPageStands(p, work) ==
  /\ validateCatalogPageEnvelope(p, work)
  /\ InOrder(work.assetLast, p.items)
  /\ \A i \in DOMAIN p.items : validateCatalogAssetSchema(p.items[i]) = "accepted" /\ normalizeAsset(p.items[i])
  /\ p.items = <<>> => p.final
  /\ ValidateFacts(p.items)

AfterAssets(p, work) ==
  [work EXCEPT !.assetLast = LastOf(p.items, @), !.cursor = p.next,
               !.phase = IF p.final THEN "RELATIONS" ELSE "ASSETS",
               !.assetsComplete = p.final /\ p.complete]

\* A page of assets; a last page without any goes on to the relations in the same call.
discoverAssetPage ==
  /\ pull.at = "assets"
  /\ \E p \in Answers("assets", pull.work.cursor) :
       /\ AssetPageStands(p, pull.work)
       /\ LET next == AfterAssets(p, pull.work)
          IN  IF p.final /\ p.items = <<>>
              THEN pull' = [pull EXCEPT !.at = "relations", !.work = next]
              ELSE /\ validateCMDBCheckpoint(next)
                   /\ pull' = [pull EXCEPT !.at = "page", !.work = next, !.out = Outcome("assets", p, next)]
  /\ UNCHANGED <<world, mark, haul, told, verdict, refused, pulls>>

RelationPageStands(p, work) ==
  /\ validateCatalogPageEnvelope(p, work)
  /\ p.final => p.complete = work.assetsComplete
  /\ InOrder(work.relationLast, p.items)
  /\ \A i \in DOMAIN p.items : normalizeRelation(p.items[i])
  /\ p.items = <<>> => p.final /\ p.complete
  /\ ValidateFacts(p.items)

AfterRelations(p, work) ==
  [work EXCEPT !.relationLast = LastOf(p.items, @), !.cursor = p.next,
               !.phase = IF p.final THEN "COMPLETE" ELSE "RELATIONS"]

discoverRelationPage ==
  /\ pull.at = "relations"
  /\ \E p \in Answers("relations", pull.work.cursor) :
       /\ RelationPageStands(p, pull.work)
       /\ LET next == AfterRelations(p, pull.work)
          IN  /\ validateCMDBCheckpoint(next)
              /\ pull' = [pull EXCEPT !.at = "page", !.work = next, !.out = Outcome("relations", p, next)]
  /\ UNCHANGED <<world, mark, haul, told, verdict, refused, pulls>>

\* A page or the capabilities are refused, the catalog asks to wait, or the caller has gone:
\* the call ends without a page and the checkpoint stays.
discoverFailureOrDelay ==
  /\ pull.at \in {"capabilities", "assets", "relations"}
  /\ pull' = Idle
  /\ \/ UNCHANGED refused
     \/ /\ honest /\ pull.at = "assets" /\ pull.work.cursor = 0 /\ pull.work.epoch = current[bound]
        /\ \E p \in Answers("assets", 0) : ~AssetPageStands(p, pull.work)
        /\ refused' = refused \cup {<<bound, current[bound]>>}
  /\ UNCHANGED <<world, mark, haul, told, verdict, pulls>>

\* The page and its checkpoint are committed together, see DiscoveryQueue.
CommitPage ==
  /\ pull.at = "page"
  /\ LET out == pull.out
         base == IF pull.fresh THEN NoHaul ELSE haul
     IN  /\ mark' = out.next
         /\ haul' = [base EXCEPT ![out.kind] = @ \o out.items, !.from = @ \cup {out.from}]
         /\ told' = IF out.final THEN [complete |-> out.complete] ELSE None
  /\ pull' = Idle
  /\ UNCHANGED <<world, verdict, refused, pulls>>

\* The worker is gone before it has committed the page.
LosePage ==
  /\ pull.at = "page" /\ pull' = Idle
  /\ UNCHANGED <<world, mark, haul, told, verdict, refused, pulls>>

-----------------------------------------------------------------------------
(* A validation of the source: the capabilities and a probe of the first page. *)

Proof(outcome) == verdict' = [outcome |-> outcome, of |-> <<bound, pull.work.epoch>>]

Validate ==
  /\ pull.at = "idle" /\ verdict.outcome = "NONE" /\ mark = Start
  /\ pull' = [Idle EXCEPT !.at = "probing"]
  /\ UNCHANGED <<world, mark, haul, told, verdict, refused, pulls>>

proofForCapabilityFailure(c) ==
  CASE c.authority # bound -> "IDENTITY" [] ~c.permitted -> "FIXED_PROBE" [] OTHER -> "IDENTITY"

validateIdentity ==
  /\ pull.at = "probing"
  /\ \/ \E c \in CapabilityAnswers :
          IF validateCapabilities(c)
          THEN /\ pull' = [pull EXCEPT !.at = "probe", !.work.epoch = c.epoch, !.work.authority = c.authority]
               /\ UNCHANGED verdict
          ELSE pull' = Idle /\ Proof(proofForCapabilityFailure(c))
     \/ pull' = Idle /\ Proof("NETWORK")
  /\ UNCHANGED <<world, mark, haul, told, refused, pulls>>

EnvelopeOnly(p, epoch) == IF p.epoch # epoch \/ (p.complete /\ ~p.final) THEN "SCHEMA" ELSE "SUCCEEDED"
\* Which check of the probed page fails, if any.
validateAssetProbe(p, epoch) ==
  IF p.epoch # epoch \/ (p.complete /\ ~p.final) THEN "SCHEMA"
  ELSE IF \E i \in DOMAIN p.items : ~normalizeAsset(p.items[i])
  THEN validateCatalogAssetSchema(p.items[CHOOSE i \in DOMAIN p.items : ~normalizeAsset(p.items[i])])
  ELSE "SUCCEEDED"

validateProbe ==
  /\ pull.at = "probe" /\ pull' = Idle
  /\ \/ \E p \in Answers("assets", 0) : Proof(validateAssetProbe(p, pull.work.epoch))
     \/ Proof("BUDGET")
  /\ UNCHANGED <<world, mark, haul, told, refused, pulls>>

CmdbNext ==
  \/ Publish \/ Rebind
  \/ Discover \/ discoverCapabilities \/ discoverAssetPage \/ discoverRelationPage
  \/ discoverFailureOrDelay \/ CommitPage \/ LosePage
  \/ Validate \/ validateIdentity \/ validateProbe

CmdbSpec == CmdbInit /\ [][CmdbNext]_cmdbVars

-----------------------------------------------------------------------------
(* Properties. *)

Objects(s) == {s[i] : i \in DOMAIN s}

\* A run that says it has read a complete snapshot has committed every asset and every relation of one
\* snapshot of one catalog and nothing else, though snapshots were published between its pages,
\* pages were lost or repeated, and the runtime was bound anew (Discover, discoverRelationPage).
CompleteIsWhole ==
  (honest /\ told # None /\ told.complete) =>
    \E s \in Snapshots : /\ haul.from = {s}
                         /\ Objects(haul.assets) = Objects(shelf[s].assets)
                         /\ Objects(haul.relations) = Objects(shelf[s].relations)

\* Whatever the catalog answers, the pages committed in one traversal never step back: an object follows
\* only an earlier one or, at the start of a page, is the very object the last page ended with
\* (validateOrderPosition), so no fact of an object is ever replaced by an older one.
NeverStepsBack ==
  \A kind \in {"assets", "relations"} : \A i, j \in DOMAIN haul[kind] :
    i < j => Later(haul[kind][j], haul[kind][i]) \/ haul[kind][i] = haul[kind][j]

\* A source whose catalog passed the validation can be read: the first page of that snapshot is not refused
\* by the discovery (validateAssetProbe and discoverAssetPage judge alike).
ValidatedCanBeRead == (honest /\ verdict.outcome = "SUCCEEDED") => verdict.of \notin refused
=============================================================================
