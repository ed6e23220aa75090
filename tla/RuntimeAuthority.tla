-------------------------- MODULE RuntimeAuthority --------------------------
(* The runtimes of external CMDB attempts: a binding is resolved from the database, the
   credential material is obtained inside an admission transaction, bound to a runtime
   and handed out once; the provider uses it, and the worker closes the runtime or
   revokes and destroys the material, while the process may take the whole authority
   down. *)
EXTENDS Integers, Sequences, FiniteSets, Values

CONSTANT Attempts

Hands == {"opener", "closer", "keeper", "user", "authority"}
Nobody == [pc |-> "idle", todo |-> <<>>, said |-> "none"]

VARIABLES
  facts,    \* what the database says of each attempt: is it leased, may a runtime be opened, and for what
  cells,    \* the authority's cell of each attempt, None before it is resolved
  mats,     \* the material of each attempt and the runtime it is bound to
  hands,    \* who is doing what with an attempt's material
  reader,   \* a resolution that has read the facts and not yet applied them
  taking,   \* the authority's own destruction: up, waiting, or the material it is destroying
  snapshot  \* what the opener works from

rtVars == <<facts, cells, mats, hands, reader, taking, snapshot>>

NoMaterial == [made |-> FALSE, wiped |-> FALSE, bound |-> FALSE, active |-> FALSE, lock |-> "none", revoking |-> FALSE, tries |-> 0,
               revoked |-> "no", destroying |-> FALSE, destroyed |-> FALSE, release |-> FALSE, remote |-> "none"]

RtInit ==
  /\ facts = [a \in Attempts |-> [leased |-> TRUE, allowed |-> TRUE, value |-> 1]] /\ cells = [a \in Attempts |-> None]
  /\ mats = [a \in Attempts |-> NoMaterial]
  /\ hands = [a \in Attempts |-> [h \in Hands |-> Nobody]]
  /\ reader = None /\ taking = "up" /\ snapshot = [a \in Attempts |-> None]

-----------------------------------------------------------------------------
(* The database. *)

\* The admission transaction holds its rows FOR SHARE.
InAdmission(a) == hands[a]["opener"].pc \in {"admitted", "resolved"}

RunMovesOn(a) ==
  /\ facts[a].leased /\ ~InAdmission(a)
  /\ \/ facts[a].value = 1 /\ facts' = [facts EXCEPT ![a].value = 2]
     \/ facts[a].allowed /\ facts' = [facts EXCEPT ![a].allowed = FALSE]
  /\ UNCHANGED <<cells, mats, hands, reader, taking, snapshot>>

\* Time does not wait for the transaction.
LeaseLapses(a) ==
  /\ facts[a].leased
  /\ facts' = [facts EXCEPT ![a].leased = FALSE]
  /\ UNCHANGED <<cells, mats, hands, reader, taking, snapshot>>

\* The row of a leased attempt, and what is made of it.
Row(a) == IF facts[a].leased THEN facts[a] ELSE None
SnapshotOf(row) == IF row = None THEN None ELSE [allowed |-> row.allowed, value |-> row.value]
loadExternalCMDBAttempt(a) == SnapshotOf(Row(a))
valid(s) == s # None
same(s, t) == s = t

-----------------------------------------------------------------------------
(* The resolution of a binding. *)

\* Whether the authority still takes operations.
begin == taking = "up"

resolveExternalCMDBAttempt(a) ==
  /\ begin /\ reader = None
  /\ reader' = [attempt |-> a, read |-> loadExternalCMDBAttempt(a)]
  /\ UNCHANGED <<facts, cells, mats, hands, taking, snapshot>>

NewCell(v) == [snap |-> v, rejected |-> FALSE, resolving |-> FALSE, opened |-> FALSE, claimed |-> FALSE, held |-> FALSE]
Rejected(c) == [c EXCEPT !.rejected = TRUE]

\* Nothing valid was read: every attempt of the run is rejected.
rejectRelated == [b \in Attempts |-> IF cells[b] = None THEN None ELSE Rejected(cells[b])]

ResolveRuntimeBinding ==
  /\ reader # None /\ reader' = None
  /\ LET a == reader.attempt  v == reader.read
     IN  cells' = IF ~valid(v) THEN rejectRelated
                  ELSE IF cells[a] = None THEN [cells EXCEPT ![a] = NewCell(v)]
                  ELSE IF cells[a].rejected \/ ~same(cells[a].snap, v) THEN [cells EXCEPT ![a] = Rejected(@)]
                  ELSE cells
  /\ UNCHANGED <<facts, mats, hands, taking, snapshot>>

-----------------------------------------------------------------------------
(* What is done with a material: each hand has a list of things to do. *)

At(a, h) == IF hands[a][h].todo = <<>> THEN "nothing" ELSE Head(hands[a][h].todo)
Did(a, h) == [hands EXCEPT ![a][h].todo = Tail(@)]
Became(a, h, pc) == [hands EXCEPT ![a][h].pc = pc]
Mat(a, m) == mats' = [mats EXCEPT ![a] = m]
resting == <<facts, reader, taking, snapshot>>

\* Clear: a runtime that is still active is made inactive, under its lock.
ClearRuntime(a, h) ==
  /\ At(a, h) = "clear" /\ mats[a].lock = "none"
  /\ Mat(a, [mats[a] EXCEPT !.active = FALSE, !.wiped = @ \/ mats[a].active])
  /\ hands' = Did(a, h)
  /\ UNCHANGED <<resting, cells>>

\* Revoke: one call at a time, its outcome remembered; refused once the destruction has begun.
RevokeSettled(a, h) ==
  /\ At(a, h) = "revoke" /\ hands[a][h].pc # "revoking"
  /\ mats[a].revoked # "no" \/ mats[a].destroying \/ mats[a].destroyed
  /\ hands' = [Did(a, h) EXCEPT ![a][h].said = IF mats[a].revoked # "no" THEN mats[a].revoked ELSE "refused"]
  /\ UNCHANGED <<resting, cells, mats>>

\* The time of a cleanup is what was left of the caller's when that is less than the cleanup timeout, so it
\* may be over while a hand waits for another's revocation, or before it has begun one of its own: it then
\* returns, with nothing tried (newExternalCMDBCleanupContext).
RevokeTimesOut(a, h) ==
  /\ At(a, h) = "revoke" /\ hands[a][h].pc # "revoking"
  /\ mats[a].revoked = "no" /\ ~mats[a].destroying /\ ~mats[a].destroyed
  /\ hands' = [Did(a, h) EXCEPT ![a][h].said = "timeout"]
  /\ UNCHANGED <<resting, cells, mats>>

ForgetsOutcome(a, h) ==
  /\ At(a, h) = "revoke" /\ hands[a][h].pc # "revoking"
  /\ ~mats[a].revoking /\ ~mats[a].destroying /\ ~mats[a].destroyed
  /\ Mat(a, [mats[a] EXCEPT !.revoking = TRUE, !.tries = @ + 1])
  /\ hands' = Became(a, h, "revoking")
  /\ UNCHANGED <<resting, cells>>
RevokeBegins(a, h) ==
  /\ At(a, h) = "revoke" /\ hands[a][h].pc # "revoking"
  /\ ~mats[a].revoking /\ mats[a].revoked = "no" /\ ~mats[a].destroying /\ ~mats[a].destroyed
  /\ Mat(a, [mats[a] EXCEPT !.revoking = TRUE, !.tries = @ + 1])
  /\ hands' = Became(a, h, "revoking")
  /\ UNCHANGED <<resting, cells>>

\* The credential's issuer answers, or the answer is lost or does not come in time.
RevokeReturns(a, h) ==
  /\ hands[a][h].pc = "revoking"
  /\ \E ok \in BOOLEAN, reached \in BOOLEAN :
       /\ ok => reached
       /\ Mat(a, [mats[a] EXCEPT !.revoking = FALSE, !.revoked = IF ok THEN "ok" ELSE "failed",
                                 !.remote = IF reached THEN "revoked" ELSE @])
       /\ hands' = [Did(a, h) EXCEPT ![a][h].pc = "idle", ![a][h].said = IF ok THEN "ok" ELSE "failed"]
  /\ UNCHANGED <<resting, cells>>

\* destroy: another's destruction is waited for, except under the runtime's lock; so is a revocation.
WaitsUnderLock(a, h) == mats[a].destroyed /\ ~mats[a].destroying
ReturnsAtOnce(a, h) == (mats[a].destroying /\ At(a, h) = "destroyLocked") \/ (mats[a].destroyed /\ ~mats[a].destroying)

DestroyDone(a, h) ==
  /\ At(a, h) \in {"destroy", "destroyLocked"} /\ hands[a][h].pc = "idle"
  /\ ReturnsAtOnce(a, h)
  /\ hands' = Did(a, h)
  /\ UNCHANGED <<resting, cells, mats>>

DestroyBegins(a, h) ==
  /\ At(a, h) \in {"destroy", "destroyLocked"} /\ hands[a][h].pc = "idle"
  /\ ~mats[a].destroying /\ ~mats[a].destroyed /\ ~mats[a].revoking
  /\ Mat(a, [mats[a] EXCEPT !.destroying = TRUE])
  /\ hands' = Became(a, h, IF At(a, h) = "destroy" THEN "clearing" ELSE "wiping")
  /\ UNCHANGED <<resting, cells>>

ClearsWithoutLock(a, h) ==
  /\ hands[a][h].pc = "clearing"
  /\ Mat(a, [mats[a] EXCEPT !.active = FALSE])
  /\ hands' = Became(a, h, "wiping")
  /\ UNCHANGED <<resting, cells>>
DestroyClears(a, h) ==
  /\ hands[a][h].pc = "clearing" /\ mats[a].lock = "none"
  /\ Mat(a, [mats[a] EXCEPT !.active = FALSE])
  /\ hands' = Became(a, h, "wiping")
  /\ UNCHANGED <<resting, cells>>

DestroyWipes(a, h) ==
  /\ hands[a][h].pc = "wiping"
  /\ Mat(a, [mats[a] EXCEPT !.destroyed = TRUE, !.bound = FALSE, !.wiped = TRUE])
  /\ hands' = Became(a, h, "releasing")
  /\ UNCHANGED <<resting, cells>>

\* The cell gives the material up, if it still holds it.
releaseMaterial(a) ==
  IF mats[a].release /\ cells[a].held
  THEN [cells EXCEPT ![a] = [@ EXCEPT !.snap = None, !.held = FALSE, !.resolving = FALSE, !.opened = FALSE,
                                      !.claimed = FALSE, !.rejected = TRUE]]
  ELSE cells

DestroyReleases(a, h) ==
  /\ hands[a][h].pc = "releasing"
  /\ cells' = releaseMaterial(a)
  /\ Mat(a, [mats[a] EXCEPT !.destroying = FALSE, !.release = FALSE])
  /\ hands' = [Did(a, h) EXCEPT ![a][h].pc = "idle"]
  /\ UNCHANGED resting

\* Close ends: the runtime's own copy is cleared and its lock given back.
Unlock(a, h) ==
  /\ At(a, h) = "unlock"
  /\ Mat(a, [mats[a] EXCEPT !.lock = "none", !.wiped = TRUE])
  /\ hands' = Did(a, h)
  /\ UNCHANGED <<resting, cells>>

\* The opener's cell is rejected after its material is gone.
RejectCell(a, h) ==
  /\ At(a, h) = "reject"
  /\ cells' = [cells EXCEPT ![a] = [@ EXCEPT !.snap = None, !.resolving = FALSE, !.rejected = TRUE]]
  /\ hands' = [Did(a, h) EXCEPT ![a][h].pc = "failed"]
  /\ UNCHANGED <<resting, mats>>

Work(a, h) ==
  \/ ClearRuntime(a, h) \/ RevokeSettled(a, h) \/ RevokeTimesOut(a, h) \/ RevokeBegins(a, h) \/ RevokeReturns(a, h)
  \/ DestroyDone(a, h) \/ DestroyBegins(a, h) \/ DestroyClears(a, h) \/ DestroyWipes(a, h) \/ DestroyReleases(a, h)
  \/ Unlock(a, h) \/ RejectCell(a, h)

-----------------------------------------------------------------------------
(* materialize: the initial runtime of an attempt. *)

UndoUnrevoked == <<"clear", "destroy", "reject">>
Undo == <<"clear", "revoke", "destroy", "reject">>
OpenerGoes(a, pc) == hands' = Became(a, "opener", pc)
Undoing(a) == hands' = [hands EXCEPT ![a]["opener"] = [Nobody EXCEPT !.todo = Undo]]

\* One opener, once, for a cell that was resolved and not rejected.
OpenInitialRuntime(a) ==
  /\ begin /\ hands[a]["opener"] = Nobody /\ cells[a] # None
  /\ ~cells[a].rejected /\ ~cells[a].resolving /\ ~cells[a].opened /\ cells[a].snap.allowed
  /\ cells' = [cells EXCEPT ![a].resolving = TRUE]
  /\ snapshot' = [snapshot EXCEPT ![a] = cells[a].snap]
  /\ OpenerGoes(a, "marked")
  /\ UNCHANGED <<facts, mats, reader, taking>>

\* The admission transaction reads the facts again.
admitExternalCMDBMaterial(a) ==
  /\ hands[a]["opener"].pc = "marked"
  /\ IF same(snapshot[a], loadExternalCMDBAttempt(a))
     THEN OpenerGoes(a, "admitted")
     ELSE hands' = [hands EXCEPT ![a]["opener"] = [Nobody EXCEPT !.todo = <<"reject">>]]
  /\ UNCHANGED <<facts, cells, mats, reader, taking, snapshot>>

\* The material is obtained and bound; or it comes to nothing, or comes spoilt.
ResolveExternalCMDB(a) ==
  /\ hands[a]["opener"].pc = "admitted"
  /\ \/ /\ Mat(a, [NoMaterial EXCEPT !.made = TRUE, !.bound = TRUE, !.active = TRUE, !.remote = "live"])
        /\ OpenerGoes(a, "resolved")
     \/ /\ Mat(a, [NoMaterial EXCEPT !.made = TRUE, !.remote = "live"]) /\ Undoing(a)
     \/ /\ hands' = [hands EXCEPT ![a]["opener"] = [Nobody EXCEPT !.todo = <<"reject">>]] /\ UNCHANGED mats
  /\ UNCHANGED <<facts, cells, reader, taking, snapshot>>

StillWanted(a) == /\ taking = "up" /\ ~cells[a].rejected /\ cells[a].resolving
                  /\ ~cells[a].opened /\ same(cells[a].snap, snapshot[a])

\* The facts are read once more and the transaction commits, unless the caller has gone meanwhile.
CommitAdmission(a) ==
  /\ hands[a]["opener"].pc = "resolved"
  /\ \/ StillWanted(a) /\ same(snapshot[a], loadExternalCMDBAttempt(a)) /\ OpenerGoes(a, "committed")
     \/ Undoing(a)
  /\ UNCHANGED <<facts, cells, mats, reader, taking, snapshot>>

\* The cell takes the material, unless it was rejected or the authority taken down since.
FinishOpening(a) ==
  /\ hands[a]["opener"].pc = "committed"
  /\ IF StillWanted(a)
     THEN /\ cells' = [cells EXCEPT ![a].resolving = FALSE, ![a].opened = TRUE, ![a].held = TRUE]
          /\ OpenerGoes(a, "opened")
     ELSE /\ cells' = [cells EXCEPT ![a].snap = None, ![a].resolving = FALSE, ![a].rejected = TRUE]
          /\ Undoing(a)
  /\ UNCHANGED <<facts, mats, reader, taking, snapshot>>

installRelease(a) ==
  /\ hands[a]["opener"].pc = "opened"
  /\ Mat(a, [mats[a] EXCEPT !.release = TRUE])
  /\ OpenerGoes(a, "handed")
  /\ UNCHANGED <<facts, cells, reader, taking, snapshot>>

Opening(a) ==
  \/ OpenInitialRuntime(a) \/ admitExternalCMDBMaterial(a) \/ ResolveExternalCMDB(a) \/ CommitAdmission(a)
  \/ FinishOpening(a) \/ installRelease(a)

\* The provider's components are issued once for an opened cell, whatever comes of them.
ResolveClaimRuntime(a) ==
  /\ begin /\ cells[a] # None /\ cells[a].opened
  /\ ~cells[a].rejected /\ ~cells[a].resolving /\ ~cells[a].claimed
  /\ cells' = [cells EXCEPT ![a].claimed = TRUE]
  /\ UNCHANGED <<facts, mats, hands, reader, taking, snapshot>>

-----------------------------------------------------------------------------
(* The holders of what was handed out. *)

HandedOut(a) == hands[a]["opener"].pc = "handed"

\* The provider opens a session from the material, under the runtime's lock.
WithRuntime(a) ==
  /\ HandedOut(a) /\ hands[a]["user"] = Nobody /\ cells[a] # None
  /\ mats[a].active /\ mats[a].lock = "none"
  /\ Mat(a, [mats[a] EXCEPT !.lock = "user"])
  /\ hands' = Became(a, "user", "using")
  /\ UNCHANGED <<resting, cells>>

SessionOpened(a) ==
  /\ hands[a]["user"].pc = "using"
  /\ Mat(a, [mats[a] EXCEPT !.lock = "none"])
  /\ hands' = Became(a, "user", "idle")
  /\ UNCHANGED <<resting, cells>>

\* Close of the runtime: the first one revokes and destroys under the lock.
CloseRuntime(a) ==
  /\ HandedOut(a) /\ hands[a]["closer"] = Nobody /\ mats[a].lock = "none"
  /\ IF mats[a].active
     THEN /\ Mat(a, [mats[a] EXCEPT !.active = FALSE, !.lock = "closer"])
          /\ hands' = [hands EXCEPT ![a]["closer"].todo = <<"revoke", "destroyLocked", "unlock">>]
     ELSE UNCHANGED <<mats, hands>>
  /\ UNCHANGED <<resting, cells>>

\* The worker's own end of the material: it revokes and then destroys it.
KeeperEnds(a) ==
  /\ HandedOut(a) /\ hands[a]["keeper"] = Nobody
  /\ hands' = [hands EXCEPT ![a]["keeper"].todo = <<"revoke", "destroy">>]
  /\ UNCHANGED <<resting, cells, mats>>

-----------------------------------------------------------------------------
(* The end of the authority. *)

Destroy ==
  /\ taking = "up" /\ taking' = "waiting"
  /\ UNCHANGED <<facts, cells, mats, hands, reader, snapshot>>

OperationUnderWay(a) == hands[a]["opener"].pc \in {"marked", "admitted", "resolved", "committed", "opened"}
                        \/ hands[a]["opener"].todo # <<>>

\* Every operation has ended: the cells are emptied and their materials destroyed, unrevoked if need be.
DestroyCells ==
  /\ taking = "waiting" /\ reader = None /\ \A a \in Attempts : ~OperationUnderWay(a)
  /\ cells' = [a \in Attempts |-> IF cells[a] = None THEN None
                 ELSE [Rejected(cells[a]) EXCEPT !.snap = None, !.held = FALSE, !.opened = FALSE, !.resolving = FALSE]]
  /\ hands' = [a \in Attempts |-> IF cells[a] # None /\ cells[a].held
                 THEN [hands[a] EXCEPT !["authority"].todo = <<"destroy">>] ELSE hands[a]]
  /\ taking' = "down"
  /\ UNCHANGED <<facts, mats, reader, snapshot>>

Authority ==
  \/ ResolveRuntimeBinding \/ Destroy \/ DestroyCells
  \/ \E a \in Attempts : resolveExternalCMDBAttempt(a) \/ Opening(a) \/ ResolveClaimRuntime(a)
Holders == \E a \in Attempts : WithRuntime(a) \/ SessionOpened(a) \/ CloseRuntime(a) \/ KeeperEnds(a)
RtNext ==
  \/ Authority \/ Holders
  \/ \E a \in Attempts : RunMovesOn(a) \/ LeaseLapses(a)
  \/ \E a \in Attempts, h \in Hands : Work(a, h)

RtSpec == RtInit /\ [][RtNext]_rtVars

-----------------------------------------------------------------------------
(* Properties. *)

\* Material that was obtained and not handed out, because of a failure, a rejection, a lapsed lease or the
\* end of the authority between any two steps, is destroyed when its operation has ended; its revocation was
\* tried before, unless the time for it was over first, and then nobody has it and it ends by its own lifetime
\* only (materialize, Revoke).
UnheldIsRevoked ==
  \A a \in Attempts :
    (hands[a]["opener"].pc = "failed" /\ mats[a].made) =>
      /\ mats[a].destroyed /\ (cells[a] # None => ~cells[a].held)
      /\ mats[a].revoked = "no" => hands[a]["opener"].said = "timeout" /\ mats[a].remote = "live"

\* However many of the opener, Close, the worker and the authority end a material, and however their waits
\* end, the issuer is asked at most once, and never with a material that is being wiped (Revoke, destroy).
RevokedByOne ==
  \A a \in Attempts :
    /\ mats[a].tries <= 1
    /\ mats[a].revoking => mats[a].tries = 1 /\ ~mats[a].destroying /\ ~mats[a].destroyed

\* Whoever uses the material under the runtime's lock finds it intact, whichever of Close, Revoke and
\* Destroy of the worker and of the authority run meanwhile (WithRuntime, destroy).
UsedIsIntact == \A a \in Attempts : hands[a]["user"].pc = "using" => ~mats[a].wiped

\* Close, which calls destroy under the runtime's lock, and Destroy, which takes that lock, never wait for
\* each other: while something is left to be done with a material, one of those who hold it can go on.
HandsNeverBlock ==
  \A a \in Attempts :
    (\E h \in Hands : hands[a][h].todo # <<>>) =>
      (ENABLED SessionOpened(a)) \/ \E h \in Hands : ENABLED Work(a, h)

\* The material of an attempt: ended if not handed out, revoked by one, intact while used, and never waited
\* for in a circle (materialize, WithRuntime, Close, Destroy).
AuthoritySafety == UnheldIsRevoked /\ RevokedByOne /\ UsedIsIntact /\ HandsNeverBlock
=============================================================================
