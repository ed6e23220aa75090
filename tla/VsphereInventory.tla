--------------------------- MODULE VsphereInventory ---------------------------
(***************************************************************************)
(* internal/assetsource/vsphere: the full inventory of a vCenter, read in  *)
(* pages by an attempt, and the handoff of a half read inventory to a      *)
(* second attempt when the first one's session has to be given up.         *)
(*                                                                         *)
(* The lock of an attempt is let go while a remote call runs, so revoking, *)
(* destroying and handing off interleave with every call.  Attempt 1 is    *)
(* governed by a rollover authority, attempt 2 its successor: a successor  *)
(* has no successor.                                                       *)
(***************************************************************************)
EXTENDS Values, Integers, Sequences, FiniteSets

CONSTANTS
  Things,      \* managed objects
  Containment,    \* relations: pairs of objects of one root
  RootOf,      \* [Things -> authority roots, numbered from 1]
  RootThing,   \* [1..roots -> Things]: the object each root is
  Variants,    \* bound on the contents an object may have
  PageItems    \* request.Limits.MaxPageItems, and MaxPageRelations

ASSUME InventoryReadAssumption ==
  /\ Containment \subseteq Things \X Things
  /\ RootThing \in Seq(Things) /\ RootOf \in [Things -> DOMAIN RootThing]
  /\ {Variants, PageItems} \subseteq Nat \ {0}

VsphereAttempts == {1, 2}
PageLimit == Cardinality(Things) + Cardinality(Containment) + 2

VARIABLES
  content,  \* what the vCenter has of each object
  live,     \* the session of each attempt at the vCenter: none, one it was told of, or a stray one
  at,       \* fullInventoryAttemptState
  op,       \* fullInventoryOperation: the remote call that runs
  rv,       \* finalizeRevoke, the goroutine that revokes
  seal,     \* fullInventoryRolloverRevocation of attempt 1
  auth,     \* fullInventoryRolloverAuthority, and how far BeginHandoff is
  handoff,  \* FullInventoryRolloverHandoff
  ck,       \* the checkpoint the run has committed
  got,      \* the page Discover returned last
  sent      \* every page returned, by its sequence

readVars == <<content, live, at, op, rv, seal, auth, handoff, ck, got, sent>>

Digests == Things \X (1..Variants)   \* inventoryObjectRolloverDigest
fullInventoryCheckpoint ==
  [snap : VsphereAttempts, seq : 1..PageLimit, tok : Nat \cup {None}]
Page ==
  [seq : 1..PageLimit, items : SUBSET Digests, relations : SUBSET Containment,
   next : fullInventoryCheckpoint, final : BOOLEAN]

\* reads numbers the tokens; soap: the vCenter gave the token, and has more of this root.
fullInventoryAttemptState ==
  [bound : BOOLEAN, started : BOOLEAN, completed : BOOLEAN, failed : BOOLEAN,
   handoffFrozen : BOOLEAN, revokeStart : BOOLEAN, revokeErr : BOOLEAN, destroyed : BOOLEAN,
   client : BOOLEAN, sequence : 0..PageLimit, rolloverSeed : fullInventoryCheckpoint \cup {None},
   reads : Nat, token : Nat \cup {None}, soap : BOOLEAN, rootIndex : Nat,
   seen : SUBSET Digests, items : SUBSET Digests, relations : SUBSET Containment,
   emittedObjects : SUBSET Digests, emittedRelations : SUBSET Containment,
   rolloverObjects : SUBSET Digests, rolloverRelations : SUBSET Containment,
   lastCheckpoint : fullInventoryCheckpoint \cup {None},
   replay : [input : fullInventoryCheckpoint \cup {None}, page : Page] \cup {None}]

ReadTypeOK ==
  /\ content \in [Things -> 1..Variants]
  /\ live \in [VsphereAttempts -> {"none", "session", "stray"}]
  /\ at \in [VsphereAttempts -> fullInventoryAttemptState \cup {None}]
  /\ op \in [VsphereAttempts -> {None, "opening", "opened", "reading", "discarding"}]
  /\ rv \in [VsphereAttempts -> {"idle", "waiting", "closing", "done"}]
  /\ seal \in [revoked : BOOLEAN, destroyed : BOOLEAN, err : BOOLEAN]
  /\ auth.registered \in {None, "open", "closed"} /\ auth.inFlight \in BOOLEAN
  /\ auth.step \in {"idle", "prepared", "begun"}
  /\ handoff \in [checkpoint : fullInventoryCheckpoint, objects : SUBSET Digests,
                  relations : SUBSET Containment] \cup {None}
  /\ ck \in fullInventoryCheckpoint \cup {None}
  /\ got \in Page \cup {None}
  /\ sent \in [1..PageLimit -> Page \cup {None}]

newFullInventoryAttempt(seed, objects, relations) ==
  [bound |-> FALSE, started |-> FALSE, completed |-> FALSE, failed |-> FALSE,
   handoffFrozen |-> FALSE, revokeStart |-> FALSE, revokeErr |-> FALSE, destroyed |-> FALSE,
   client |-> FALSE, sequence |-> 0, rolloverSeed |-> seed,
   reads |-> 0, token |-> None, soap |-> FALSE, rootIndex |-> 1,
   seen |-> {}, items |-> {}, relations |-> {},
   emittedObjects |-> objects, emittedRelations |-> relations,
   rolloverObjects |-> objects, rolloverRelations |-> relations,
   lastCheckpoint |-> seed, replay |-> None]

\* registered: None, "open" or "closed" (closeRegistration).  pending: what preparePending
\* froze.  step: where BeginHandoff has let the lock go.
NoAuthority == [registered |-> None, pending |-> None, inFlight |-> FALSE, step |-> "idle"]

ReadInit ==
  /\ content = [o \in Things |-> 1]
  /\ live = [x \in VsphereAttempts |-> "none"]
  /\ at = [x \in VsphereAttempts |-> None]
  /\ op = [x \in VsphereAttempts |-> None]
  /\ rv = [x \in VsphereAttempts |-> "idle"]
  /\ seal = [revoked |-> FALSE, destroyed |-> FALSE, err |-> FALSE]
  /\ auth = NoAuthority
  /\ handoff = None
  /\ ck = None /\ got = None
  /\ sent = [n \in 1..PageLimit |-> None]

\* The vCenter's inventory changes while it is read.
ObjectChanges(o) ==
  /\ content[o] < Variants
  /\ content' = [content EXCEPT ![o] = @ + 1]
  /\ UNCHANGED <<live, at, op, rv, seal, auth, handoff, ck, got, sent>>

-----------------------------------------------------------------------------
(* The attempt *)

NewAttempt ==
  /\ at[1] = None
  /\ at' = [at EXCEPT ![1] = newFullInventoryAttempt(None, {}, {})]
  /\ auth' = [auth EXCEPT !.registered = "open"]
  /\ UNCHANGED <<content, live, op, rv, seal, handoff, ck, got, sent>>

\* Not destroyed, revoked, failed or frozen, and no operation holds the barrier.
Usable(x) ==
  /\ at[x] # None /\ op[x] = None
  /\ ~at[x].destroyed /\ ~at[x].revokeStart /\ ~at[x].failed /\ ~at[x].handoffFrozen

BindRuntime(x) ==
  /\ Usable(x) /\ ~at[x].bound
  /\ at' = [at EXCEPT ![x].bound = TRUE]
  /\ UNCHANGED <<content, live, op, rv, seal, auth, handoff, ck, got, sent>>

\* Nothing to hand out, and more to read: a further page of this root or a further root.
NeedsRead(s) == s.items = {} /\ s.relations = {} /\ s.rootIndex <= Len(RootThing)

Ends(r) == {r[1], r[2]}
Refs(digests) == {d[1] : d \in digests}

\* The final page has no token: the next run starts anew from its checkpoint.
newFullInventoryCheckpoint(x, seq, token) == [snap |-> x, seq |-> seq, tok |-> token]

\* Up to PageItems of the lowest objects or, once there are none, of the relations; fewer as
\* long as the page is too large.  Which are lowest does not matter here, so they are any.
Portions(set) ==
  {p \in SUBSET set : (p # {} /\ Cardinality(p) <= PageItems) \/ set = {}}

\* The pages buildPage may make of what is left to hand out.
buildPage(x, s, items, relations) ==
  LET final == s.rootIndex > Len(RootThing) /\ items = s.items /\ relations = s.relations
  IN [seq |-> s.sequence + 1, items |-> items, relations |-> relations, final |-> final,
      next |-> newFullInventoryCheckpoint(x, s.sequence + 1, IF final THEN None ELSE s.token)]

\* The attempt once the page is handed out; rememberReplay keeps it for a repeated request.
Emitted(s, input, page) ==
  [s EXCEPT !.sequence = page.seq, !.items = @ \ page.items, !.relations = @ \ page.relations,
            !.emittedObjects = @ \cup page.items, !.emittedRelations = @ \cup page.relations,
            !.lastCheckpoint = page.next, !.completed = page.final,
            !.token = IF page.final THEN None ELSE @,
            !.replay = [input |-> input, page |-> page]]

Returned(page) ==
  /\ got' = page
  /\ sent' = [sent EXCEPT ![page.seq] = page]

\* discover goes on with attempt state s: another call, or a page.  What the predecessor
\* handed out and this reading has not met again is an error once all is read.
Proceed(x, s) ==
  \/ /\ NeedsRead(s)
     /\ at' = [at EXCEPT ![x] = [s EXCEPT !.token = None]]
     /\ op' = [op EXCEPT ![x] = "reading"]
     /\ UNCHANGED <<got, sent>>
  \/ /\ ~NeedsRead(s)
     /\ op' = [op EXCEPT ![x] = None]
     /\ IF s.rootIndex > Len(RootThing) /\ s.rolloverObjects \cup s.rolloverRelations # {}
        THEN at' = [at EXCEPT ![x] = [s EXCEPT !.failed = TRUE]] /\ UNCHANGED <<got, sent>>
        ELSE \E items \in Portions(s.items) :
             \E relations \in IF items = {} THEN Portions(s.relations) ELSE {{}} :
               LET page == buildPage(x, s, items, relations)
               IN at' = [at EXCEPT ![x] = Emitted(s, ck, page)] /\ Returned(page)

matchesInput(x) == at[x].replay # None /\ at[x].replay.input = ck

\* The checkpoint of the caller is the one the attempt is at.
checkpointMatches(x) ==
  /\ ck # None
  /\ ck = newFullInventoryCheckpoint(x, at[x].sequence, at[x].token)

\* A new attempt starts from nothing or from a finished snapshot; only a successor from an
\* unfinished one, and that one only from where its predecessor stopped.
startable(x) ==
  IF at[x].rolloverSeed # None THEN ck = at[x].rolloverSeed ELSE ck # None => ck.tok = None

replayPage(x) ==
  /\ Usable(x) /\ at[x].bound /\ matchesInput(x)
  /\ Returned(at[x].replay.page)
  /\ UNCHANGED <<content, live, at, op, rv, seal, auth, handoff, ck>>

start(x) ==
  /\ Usable(x) /\ at[x].bound /\ ~at[x].started /\ ~matchesInput(x) /\ startable(x)
  /\ at' = [at EXCEPT ![x].sequence = IF ck = None THEN 0 ELSE ck.seq, ![x].rolloverSeed = None]
  /\ op' = [op EXCEPT ![x] = "opening"]
  /\ UNCHANGED <<content, live, rv, seal, auth, handoff, ck, got, sent>>

discover(x) ==
  /\ Usable(x) /\ at[x].bound /\ at[x].started /\ ~at[x].completed
  /\ ~matchesInput(x) /\ checkpointMatches(x)
  /\ Proceed(x, at[x])
  /\ UNCHANGED <<content, live, rv, seal, auth, handoff, ck>>

\* A request the attempt cannot serve, or a client whose identity changed, ends it.
discoverRejected(x) ==
  /\ Usable(x) /\ at[x].bound /\ ~at[x].completed
  /\ \E replay \in {None, at[x].replay} : at' = [at EXCEPT ![x].failed = TRUE, ![x].replay = replay]
  /\ UNCHANGED <<content, live, op, rv, seal, auth, handoff, ck, got, sent>>

\* The page is committed; its checkpoint is the next request's.
PageCommitted ==
  /\ \A x \in VsphereAttempts : op[x] = None
  /\ got # None /\ got.seq = (IF ck = None THEN 1 ELSE ck.seq + 1)
  /\ ck' = got.next /\ got' = None
  /\ UNCHANGED <<content, live, at, op, rv, seal, auth, handoff, sent>>

-----------------------------------------------------------------------------
(* Remote calls: runOperationLocked *)

\* What the state became while the lock was free.
terminal(x) == at[x].destroyed \/ at[x].revokeStart \/ at[x].failed \/ at[x].handoffFrozen

\* Variant: the revocation's end does not say that a call was still running.
seedsNothing(s) == s

\* seedCleanupUncertaintyLocked, before the revocation is over.
seedCleanupUncertainty(s) == [s EXCEPT !.revokeErr = TRUE]
Uncertain(x) == IF rv[x] = "done" THEN at[x] ELSE seedCleanupUncertainty(at[x])

openInventoryPageClient(x) ==
  /\ op[x] = "opening"
  /\ live' = [live EXCEPT ![x] = "session"]
  /\ op' = [op EXCEPT ![x] = "opened"]
  /\ UNCHANGED <<content, at, rv, seal, auth, handoff, ck, got, sent>>

\* The login failed; or it was carried out and not answered, and no client is left that could end its
\* session: the error of the opener's own Close is dropped, and no uncertainty reported.
LoginFails(x) ==
  /\ op[x] = "opening"
  /\ op' = [op EXCEPT ![x] = None]
  /\ \E left \in {"none", "stray"} : live' = [live EXCEPT ![x] = left]
  /\ at' = [at EXCEPT ![x].failed = TRUE]
  /\ UNCHANGED <<content, rv, seal, auth, handoff, ck, got, sent>>

\* What was opened is refused, and closed again.
VsphereOpenFails(x) ==
  /\ op[x] = "opened"
  /\ op' = [op EXCEPT ![x] = None]
  /\ \E closed \in BOOLEAN :
       /\ live' = [live EXCEPT ![x] = IF closed THEN "none" ELSE @]
       /\ at' = [at EXCEPT ![x] = [(IF closed THEN at[x] ELSE Uncertain(x)) EXCEPT !.failed = TRUE]]
  /\ UNCHANGED <<content, rv, seal, auth, handoff, ck, got, sent>>

OpenReturns(x) ==
  /\ op[x] = "opened"
  /\ IF terminal(x)
     THEN op' = [op EXCEPT ![x] = "discarding"] /\ UNCHANGED <<at, got, sent>>
     ELSE Proceed(x, [at[x] EXCEPT !.client = TRUE, !.started = TRUE])
  /\ UNCHANGED <<content, live, rv, seal, auth, handoff, ck>>

\* A client nobody wants any more is closed by the call that opened it.
discard(x) ==
  /\ op[x] = "discarding"
  /\ op' = [op EXCEPT ![x] = None]
  /\ \E closed \in BOOLEAN :
       /\ live' = [live EXCEPT ![x] = IF closed THEN "none" ELSE @]
       /\ at' = [at EXCEPT ![x] = [(IF closed THEN at[x] ELSE Uncertain(x)) EXCEPT !.failed = TRUE]]
  /\ UNCHANGED <<content, rv, seal, auth, handoff, ck, got, sent>>

\* Variant: hands out again what the predecessor did.
AcceptsAll(s, page) ==
  LET seen == s.seen \cup page
      met == {r \in Containment : Ends(r) \subseteq Refs(seen) /\ ~(Ends(r) \subseteq Refs(s.seen))}
  IN [s EXCEPT !.seen = seen, !.items = @ \cup page, !.relations = @ \cup met,
               !.rolloverObjects = @ \ page, !.rolloverRelations = @ \ met]

\* The objects and the relations whose ends have both been met; what the predecessor handed
\* out, unchanged, is only checked off.
acceptResult(s, page) ==
  LET seen == s.seen \cup page
      met == {r \in Containment : Ends(r) \subseteq Refs(seen) /\ ~(Ends(r) \subseteq Refs(s.seen))}
  IN [s EXCEPT !.seen = seen,
               !.items = @ \cup (page \ s.rolloverObjects),
               !.relations = @ \cup (met \ s.rolloverRelations),
               !.rolloverObjects = @ \ page, !.rolloverRelations = @ \ met]

hasPending(s) == \E r \in Containment : r[1] \in Refs(s.seen) /\ r[2] \notin Refs(s.seen)

\* The end of a root: the root itself was met, and nothing that was only referred to.
RootRead(s, more) ==
  IF more THEN [s EXCEPT !.soap = TRUE]
  ELSE [s EXCEPT !.soap = FALSE, !.rootIndex = @ + 1,
                 !.failed = RootThing[s.rootIndex] \notin Refs(s.seen) \/ hasPending(s)]

\* A page of the current root, with a token if the vCenter says there is more.
retrieve(x, page, more) ==
  /\ op[x] = "reading" /\ ~terminal(x)
  /\ page \subseteq {<<o, content[o]>> : o \in {o \in Things : RootOf[o] = at[x].rootIndex}}
  /\ Refs(page) \cap Refs(at[x].seen) = {}
  /\ more => \E o \in Things : RootOf[o] = at[x].rootIndex /\ o \notin Refs(at[x].seen \cup page)
  /\ at[x].soap /\ ~more => page # {}
  /\ more => page # {}
  /\ LET read == [acceptResult(at[x], page) EXCEPT !.reads = @ + 1, !.token = at[x].reads + 1]
         s == RootRead(read, more)
     IN IF s.failed
        THEN /\ at' = [at EXCEPT ![x] = s] /\ op' = [op EXCEPT ![x] = None]
             /\ UNCHANGED <<got, sent>>
        ELSE Proceed(x, s)
  /\ UNCHANGED <<content, live, rv, seal, auth, handoff, ck>>

\* An error, an object named twice, or a state that ended meanwhile.
retrieveFails(x) ==
  /\ op[x] = "reading"
  /\ op' = [op EXCEPT ![x] = None]
  /\ at' = [at EXCEPT ![x].failed = TRUE]
  /\ UNCHANGED <<content, live, rv, seal, auth, handoff, ck, got, sent>>

-----------------------------------------------------------------------------
(* Revocation *)

revoking(x) == [at EXCEPT ![x].revokeStart = TRUE]

\* Revoke, or the runtime being cleared: a goroutine does it, once.
startRevoke(x) ==
  /\ at[x] # None /\ ~at[x].revokeStart
  /\ at' = revoking(x)
  /\ rv' = [rv EXCEPT ![x] = "waiting"]
  /\ UNCHANGED <<content, live, op, seal, auth, handoff, ck, got, sent>>

\* detachForRevokeLocked: the attempt is emptied; its client is the goroutine's to close.
detachForRevoke(s) ==
  [s EXCEPT !.failed = TRUE, !.token = None, !.soap = FALSE,
            !.items = {}, !.relations = {}, !.seen = {}, !.rolloverObjects = {},
            !.rolloverRelations = {}, !.replay = None, !.rolloverSeed = None, !.bound = FALSE]

finalizeRevoke(x) ==
  /\ rv[x] = "waiting" /\ op[x] = None
  /\ at' = [at EXCEPT ![x] = detachForRevoke(@)]
  /\ rv' = [rv EXCEPT ![x] = "closing"]
  /\ UNCHANGED <<content, live, op, seal, auth, handoff, ck, got, sent>>

\* Variant: waits for the call, however long it takes.
WaitsForOperation(x) == FALSE /\ UNCHANGED readVars

\* The call has not come back within sessionCleanupTimeout.
operationTimedOut(x) ==
  /\ rv[x] = "waiting" /\ op[x] # None
  /\ at' = [at EXCEPT ![x] = detachForRevoke(seedCleanupUncertainty(@))]
  /\ rv' = [rv EXCEPT ![x] = "closing"]
  /\ UNCHANGED <<content, live, op, seal, auth, handoff, ck, got, sent>>

\* The client is closed, which may fail; the handoff learns how it went, unless it knows.
finishRevoke(x) ==
  /\ rv[x] = "closing"
  /\ rv' = [rv EXCEPT ![x] = "done"]
  /\ \E closed \in BOOLEAN :
       /\ ~at[x].client => closed
       /\ live' = [live EXCEPT ![x] = IF at[x].client /\ closed THEN "none" ELSE @]
       /\ LET err == at[x].revokeErr \/ ~closed IN
          /\ at' = [at EXCEPT ![x].revokeErr = err, ![x].client = FALSE]
          /\ seal' = IF x = 1 /\ ~seal.revoked THEN [seal EXCEPT !.revoked = TRUE, !.err = err] ELSE seal
  /\ UNCHANGED <<content, op, auth, handoff, ck, got, sent>>

\* A caller gave up waiting for the goroutine.
sealCanceledRolloverRevocation ==
  /\ at[1] # None /\ at[1].revokeStart
  /\ ~seal.err
  /\ seal' = [seal EXCEPT !.revoked = TRUE, !.err = TRUE]
  /\ UNCHANGED <<content, live, at, op, rv, auth, handoff, ck, got, sent>>

\* Destroy: the registration goes first, then it is a revocation.
destroy(x) ==
  /\ at[x] # None /\ ~at[x].destroyed
  /\ at' = [at EXCEPT ![x].destroyed = TRUE, ![x].revokeStart = TRUE]
  /\ rv' = [rv EXCEPT ![x] = IF @ = "idle" THEN "waiting" ELSE @]
  /\ auth' = IF x = 1 THEN [auth EXCEPT !.registered = None, !.pending = None] ELSE auth
  /\ UNCHANGED <<content, live, op, seal, handoff, ck, got, sent>>

\* Its end: the revocation is over or was given up on, and the handoff may know.
finishDestroy ==
  /\ at[1] # None /\ at[1].destroyed /\ ~seal.destroyed /\ seal.revoked
  /\ at' = [at EXCEPT ![1].emittedObjects = {}, ![1].emittedRelations = {}, ![1].lastCheckpoint = None]
  /\ seal' = [seal EXCEPT !.destroyed = TRUE]
  /\ UNCHANGED <<content, live, op, rv, auth, handoff, ck, got, sent>>

-----------------------------------------------------------------------------
(* Rollover *)

\* validRolloverAttemptLocked
validRolloverAttempt(frozen) ==
  /\ at[1] # None /\ op[1] = None /\ auth.registered = "open"
  /\ ~at[1].destroyed /\ ~at[1].revokeStart /\ at[1].handoffFrozen = frozen /\ ~at[1].completed
  /\ ck # None /\ at[1].lastCheckpoint = ck
  /\ at[1].replay # None /\ at[1].replay.page.next = ck

\* BeginHandoff freezes the attempt at the committed checkpoint, or repeats what it began.
preparePending ==
  /\ auth.step = "idle" /\ ck # None /\ ck.tok # None
  /\ \/ auth.pending = None /\ validRolloverAttempt(FALSE)
     \/ auth.pending # None /\ auth.pending.checkpoint = ck /\ ~auth.inFlight /\ validRolloverAttempt(TRUE)
  /\ at' = [at EXCEPT ![1].handoffFrozen = TRUE]
  /\ auth' = [auth EXCEPT !.inFlight = TRUE, !.step = "prepared",
       !.pending = [checkpoint |-> ck, objects |-> at[1].emittedObjects, relations |-> at[1].emittedRelations]]
  /\ UNCHANGED <<content, live, op, rv, seal, handoff, ck, got, sent>>

\* The queue refuses: to be repeated.  The cleanup attempt is no longer the reserved one:
\* closeRegistration, for good.
HandoffFails ==
  /\ auth.step # "idle"
  /\ \/ auth.step = "prepared" /\ auth' = [auth EXCEPT !.step = "idle", !.inFlight = FALSE]
     \/ auth' = [auth EXCEPT !.step = "idle", !.pending = None,
                             !.registered = IF @ = None THEN None ELSE "closed"]
  /\ UNCHANGED <<content, live, at, op, rv, seal, handoff, ck, got, sent>>

\* Queue.BeginCheckpointLineageRollover, which has the authority verify what is pending.
VerifyCheckpointLineageRollover ==
  /\ auth.step = "prepared" /\ auth.pending # None
  /\ auth' = [auth EXCEPT !.step = "begun"]
  /\ UNCHANGED <<content, live, at, op, rv, seal, handoff, ck, got, sent>>

\* matchesAttemptLocked holds after all that, or nothing is issued.
BeginHandoff ==
  /\ auth.step = "begun"
  /\ IF /\ auth.pending # None /\ validRolloverAttempt(TRUE)
        /\ at[1].emittedObjects = auth.pending.objects /\ at[1].emittedRelations = auth.pending.relations
     THEN /\ handoff' = auth.pending
          /\ auth' = NoAuthority
     ELSE auth' = [auth EXCEPT !.step = "idle"] /\ UNCHANGED handoff
  /\ UNCHANGED <<content, live, at, op, rv, seal, ck, got, sent>>

\* Variant: only asks whether the predecessor is gone.
RevokedAnyhow == seal.revoked /\ seal.destroyed

\* fullInventoryRolloverRevocation.result: over, and without an error.
revocationResult == seal.revoked /\ seal.destroyed /\ ~seal.err

\* The handoff is good once, whether or not the cleanup attempt is still the reserved one.
NewSuccessor ==
  /\ handoff # None /\ revocationResult
  /\ handoff' = None
  /\ \/ /\ ck = handoff.checkpoint
        /\ at' = [at EXCEPT ![2] = newFullInventoryAttempt(handoff.checkpoint, handoff.objects, handoff.relations)]
     \/ UNCHANGED at
  /\ UNCHANGED <<content, live, op, rv, seal, auth, ck, got, sent>>

-----------------------------------------------------------------------------
AttemptStep(x) ==
  \/ BindRuntime(x) \/ replayPage(x) \/ start(x) \/ discover(x) \/ discoverRejected(x)
  \/ openInventoryPageClient(x) \/ LoginFails(x) \/ VsphereOpenFails(x) \/ OpenReturns(x) \/ discard(x)
  \/ \E page \in SUBSET {<<o, content[o]>> : o \in Things}, more \in BOOLEAN : retrieve(x, page, more)
  \/ retrieveFails(x)

RevokeStep(x) == finalizeRevoke(x) \/ operationTimedOut(x) \/ finishRevoke(x)

ReadNext ==
  \/ \E o \in Things : ObjectChanges(o)
  \/ NewAttempt \/ PageCommitted
  \/ \E x \in VsphereAttempts : AttemptStep(x) \/ startRevoke(x) \/ RevokeStep(x) \/ destroy(x)
  \/ sealCanceledRolloverRevocation \/ finishDestroy
  \/ preparePending \/ HandoffFails \/ VerifyCheckpointLineageRollover \/ BeginHandoff
  \/ NewSuccessor

ReadSpec == ReadInit /\ [][ReadNext]_readVars

-----------------------------------------------------------------------------
(* A revocation that reports no error left no session at the vCenter the attempt was told of,
   and no call that could still open one (runOperationLocked, finalizeRevoke, finishRevoke). *)
RevokedMeansClosed ==
  \A x \in VsphereAttempts : rv[x] = "done" /\ ~at[x].revokeErr => live[x] # "session" /\ op[x] = None

(* The one session a revocation may leave unreported is that of a login without an answer: its
   attempt is over, and has neither read nor handed out anything, now or later
   (openGovmomiValidationClient, openInventoryPageClient). *)
StrayReadNothing ==
  \A x \in VsphereAttempts : live[x] = "stray" =>
    /\ at[x].failed /\ ~at[x].started /\ ~at[x].client /\ op[x] = None
    /\ at[x].seen = {} /\ at[x].replay = None
    /\ \A n \in 1..PageLimit : sent[n] # None => sent[n].next.snap # x

(* A successor reads only when its predecessor's session is closed for certain; one whose login
   was never answered has no successor (fullInventoryRolloverRevocation.result, NewSuccessor). *)
OneSessionPerLineage == live[2] # "none" => live[1] = "none" /\ op[1] = None

(* When the last page of an inventory is out, the pages together hold every object and every
   relation of one complete reading, each of them once: also when a successor finished what
   another attempt had begun, and whatever changed in between (acceptResult, buildPage). *)
SnapshotIsExact ==
  \A x \in VsphereAttempts : at[x] # None /\ at[x].completed /\ ~at[x].revokeStart =>
    LET pages == {n \in 1..PageLimit : sent[n] # None} IN
    /\ UNION {sent[n].items : n \in pages} = at[x].seen
    /\ UNION {sent[n].relations : n \in pages} = {r \in Containment : Ends(r) \subseteq Refs(at[x].seen)}
    /\ \A m, n \in pages : m # n =>
         sent[m].items \cap sent[n].items = {} /\ sent[m].relations \cap sent[n].relations = {}

(* A revocation that waits can go on by itself, although the remote call it interrupts may
   never come back (finalizeRevoke, sessionCleanupTimeout). *)
RevokeNeverWaits == \A x \in VsphereAttempts : rv[x] = "waiting" => ENABLED RevokeStep(x)

(* The reading of a vCenter by attempts that are revoked, replaced and repeated: its sessions
   are closed, its pages are one snapshot (inventory.go, rollover_handoff.go). *)
ReadingSafety ==
  RevokedMeansClosed /\ StrayReadNothing /\ OneSessionPerLineage /\ SnapshotIsExact /\ RevokeNeverWaits
=============================================================================
