------------------------------ MODULE AssetApi ------------------------------
(***************************************************************************)
(* The management API of the asset catalog: internal/httpapi (assets.go,   *)
(* asset_conflicts.go, service_asset_bindings.go), the authorization of    *)
(* internal/assetcatalog/management.go and the transactions of             *)
(* internal/assetcatalog/postgres (assets.go, mappings.go) it ends in.     *)
(*                                                                         *)
(* An operator reads a resource and its ETag, sends a change under an      *)
(* idempotency key and may never see the answer; the same request may be   *)
(* sent again, and a key may be used again for something else.  Meanwhile  *)
(* discovery writes the same rows.  A request is authenticated and         *)
(* authorized first, with the claims of the token it came with, and        *)
(* committed later in one serializable transaction, which looks for the    *)
(* receipt of its key before anything else.  Listing walks pages by keyset *)
(* cursors.  There is one service, and one conflict of an asset is open at *)
(* a time: what a decision does beside another open one is in              *)
(* AssetInventory.  A request's hash is the request.                       *)
(***************************************************************************)
EXTENDS Values, Integers, Sequences, FiniteSets

CONSTANTS
  Operators,   \* the people, or browsers, that change something
  Readers,     \* those that only list
  Assets,      \* the assets, as numbers: the order of their identifiers
  Begins,      \* how far assets have come when the requests begin
  ApiKeys,     \* idempotency keys
  Names,       \* display names, as numbers: their order
  Roles,       \* the roles an operator's token may carry
  Resolutions, \* the decisions on a conflict
  MaxRequests, \* bound on the requests operators send
  MaxDrifts    \* bound on what changes without them

ASSUME ApiConstants ==
  /\ Assets \cup Names \cup {MaxRequests, MaxDrifts} \subseteq Nat
  /\ Begins \subseteq {"absent", "found", "disputed", "bound", "released"}
  /\ Roles \subseteq {"ADMIN", "SERVICE_OWNER", "VIEWER"}
  /\ Resolutions \subseteq {"CONFIRM_EXACT", "REJECT_CANDIDATE", "KEEP_UNRESOLVED", "QUARANTINE_ASSET"}

VARIABLES
  rows,      \* assets: version 0 is no row
  bindings,  \* the last service binding of an asset, id 0 is none
  disputes,  \* the last conflict about an asset, id 0 is none
  audits,    \* audit_records by request_id: the receipts
  manual,    \* a MANUAL source admits assets entered by hand
  tokens,    \* what the operators' tokens say, None for one that expired
  views,     \* what an operator looks at before a change
  calls,     \* the request of an operator that is under way
  unsure,    \* the last request whose answer never arrived
  walks,     \* the listing a reader walks through
  effects,   \* the changes committed so far, in order
  left,      \* how many requests may still be sent
  drifts     \* how much changed without the operators

apiVars == <<rows, bindings, disputes, audits, manual, tokens, views, calls,
             unsure, walks, effects, left, drifts>>

Row == [version : Nat, name : Names,
        lifecycle : {"DISCOVERED", "ACTIVE", "STALE", "QUARANTINED", "RETIRED"},
        mapping : {"EXACT", "AMBIGUOUS", "UNRESOLVED"}]

NewRow(name) ==
  [version |-> 1, name |-> name, lifecycle |-> "DISCOVERED", mapping |-> "UNRESOLVED"]

NoBinding == [id |-> 0, version |-> 0, active |-> FALSE]

NoDispute == [id |-> 0, version |-> 0, status |-> None]

\* How far an asset may have come: not there, found, disputed, then bound to
\* the service by the decision, or bound and released since.
Stages(name) ==
  LET new == NewRow(name)
      decided == [id |-> 1, version |-> 2, status |-> "RESOLVED"]
      exact == [version |-> 3, name |-> name, lifecycle |-> "ACTIVE", mapping |-> "EXACT"]
      once == [id |-> 1, version |-> 1, active |-> TRUE]
  IN [absent |-> [row |-> [new EXCEPT !.version = 0], binding |-> NoBinding, dispute |-> NoDispute],
      found |-> [row |-> new, binding |-> NoBinding, dispute |-> NoDispute],
      disputed |-> [row |-> [new EXCEPT !.version = 2, !.mapping = "AMBIGUOUS"],
                    binding |-> NoBinding, dispute |-> [id |-> 1, version |-> 1, status |-> "OPEN"]],
      bound |-> [row |-> exact, binding |-> once, dispute |-> decided],
      released |-> [row |-> exact, dispute |-> decided,
                    binding |-> [once EXCEPT !.version = 2, !.active = FALSE]]]

ApiInit ==
  /\ \E name \in [Assets -> Names], stage \in [Assets -> Begins] :
       /\ rows = [a \in Assets |-> Stages(name[a])[stage[a]].row]
       /\ bindings = [a \in Assets |-> Stages(name[a])[stage[a]].binding]
       /\ disputes = [a \in Assets |-> Stages(name[a])[stage[a]].dispute]
  /\ audits = [k \in ApiKeys |-> None]
  /\ manual = TRUE
  /\ tokens \in [Operators \cup Readers -> Roles]
  /\ views = [o \in Operators |-> None]
  /\ calls = [o \in Operators |-> None]
  /\ unsure = [o \in Operators |-> None]
  /\ walks = [r \in Readers |-> None]
  /\ effects = <<>>
  /\ left \in 1 .. MaxRequests
  /\ drifts = 0

-----------------------------------------------------------------------------
(* Who may do what. *)

Permission(op) ==
  CASE op = "bind" -> "ASSET_BIND"
    [] op = "resolve" -> "ASSET_CONFLICT_RESOLVE"
    [] OTHER -> "ASSET_MANAGE"

\* The one service is the service owner's.
roleAllows(role, permission) ==
  \/ role = "ADMIN"
  \/ role = "SERVICE_OWNER" /\ permission = "ASSET_BIND"

\* A service owner sees the assets bound to the service, the others all.
AccessForPrincipal(role) == IF role = "SERVICE_OWNER" THEN "bound" ELSE "all"

Visible(a, access) == rows[a].version # 0 /\ (access = "bound" => bindings[a].active)

-----------------------------------------------------------------------------
(* What an operator does. *)

Snapshot(a) == [on |-> a, row |-> rows[a], binding |-> bindings[a], dispute |-> disputes[a]]

\* The asset, its bindings and its conflicts with their ETags.
Look(o, a) ==
  /\ left > 0 /\ tokens[o] # None /\ calls[o] = None /\ Visible(a, AccessForPrincipal(tokens[o]))
  /\ views' = [views EXCEPT ![o] = Snapshot(a)]
  /\ UNCHANGED <<rows, bindings, disputes, audits, manual, tokens, calls, unsure, walks, effects, drifts, left>>

\* The part of a snapshot the ETag of a request is about.
Subject(op, seen) ==
  CASE op = "unbind" -> seen.binding
    [] op = "resolve" -> seen.dispute
    [] op \in {"update", "quarantine", "retire"} -> seen.row
    [] OTHER -> None

\* The binding or the conflict a request names.
IdOf(op, subject) == IF op \in {"unbind", "resolve"} THEN subject.id ELSE 0

Request(op, a, key, body, id, match) ==
  [op |-> op, on |-> a, key |-> key, body |-> body, id |-> id, match |-> match]

Decides(request, decision) == request.op = "resolve" /\ request.body[2] = decision

\* What a request will be remembered for: the state its ETag came from.
Call(request, saw) ==
  [request |-> request, saw |-> saw, step |-> "sent", answer |-> None, version |-> 0]

Sends == left > 0 /\ left' = left - 1

\* If-Match carries the version the operator saw; what was never there has no
\* version and the request is refused before it gets anywhere.
Change(o, op, key, body) ==
  /\ Sends
  /\ calls[o] = None /\ views[o] # None
  /\ LET subject == Subject(op, views[o]) IN
     /\ subject # None => subject.version # 0
     /\ calls' = [calls EXCEPT ![o] =
          Call(Request(op, views[o].on, key, body, IdOf(op, subject),
                       IF subject = None THEN 0 ELSE subject.version), subject)]
  /\ views' = [views EXCEPT ![o] = None]
  /\ UNCHANGED <<rows, bindings, disputes, audits, manual, tokens, unsure, walks, effects, drifts>>

PatchAsset(o, key) == \E n \in Names : Change(o, "update", key, <<"name", n>>)

QuarantineAsset(o, key) == Change(o, "quarantine", key, None)

RetireAsset(o, key) == Change(o, "retire", key, None)

CreateBinding(o, key) == Change(o, "bind", key, None)

DeleteBinding(o, key) == Change(o, "unbind", key, None)

DecideConflict(o, key) ==
  \E d \in Resolutions : Change(o, "resolve", key, <<"decision", d>>)

Enter(o, a, key) ==
  /\ Sends
  /\ calls[o] = None
  /\ \E name \in Names :
       calls' = [calls EXCEPT ![o] = Call(Request("create", a, key, <<"name", name>>, 0, 0), None)]
  /\ UNCHANGED <<rows, bindings, disputes, audits, manual, tokens, views, unsure, walks, effects, drifts>>

Repeat(o) ==
  /\ Sends
  /\ calls[o] = None /\ unsure[o] # None
  /\ calls' = [calls EXCEPT ![o] = Call(unsure[o].request, unsure[o].saw)]
  /\ unsure' = [unsure EXCEPT ![o] = None]
  /\ UNCHANGED <<rows, bindings, disputes, audits, manual, tokens, views, walks, effects, drifts>>

Answered(o, answer, version) ==
  calls' = [calls EXCEPT ![o].step = "answered", ![o].answer = answer, ![o].version = version]

\* The claims of the token, while it lasts.
Authenticated(o) == tokens[o] # None

\* Authentication, then authorization, by what the token says at that time.
Authorize(o) ==
  /\ calls[o] # None /\ calls[o].step = "sent"
  /\ IF Authenticated(o) /\ roleAllows(tokens[o], Permission(calls[o].request.op))
       THEN calls' = [calls EXCEPT ![o].step = "authorized"]
       ELSE Answered(o, "forbidden", 0)
  /\ UNCHANGED <<rows, bindings, disputes, audits, manual, tokens, views, unsure, walks, effects, drifts, left>>

Receive(o) ==
  /\ calls[o] # None /\ calls[o].step = "answered"
  /\ calls' = [calls EXCEPT ![o] = None]
  /\ UNCHANGED <<rows, bindings, disputes, audits, manual, tokens, views, unsure, walks, effects, drifts, left>>

\* The connection is gone; what was sent goes on or has already happened.
LoseAnswer(o) ==
  /\ left > 0 /\ calls[o] # None /\ calls[o].step = "answered"
  /\ unsure' = [unsure EXCEPT ![o] = calls[o]]
  /\ calls' = [calls EXCEPT ![o] = None]
  /\ UNCHANGED <<rows, bindings, disputes, audits, manual, tokens, views, walks, effects, drifts, left>>

-----------------------------------------------------------------------------
(* The transaction: a receipt under the key is a replay, or refused. *)

AnyActor(o, receipt) == receipt.request = calls[o].request

validateMutationReceiptIdentity(o, receipt) ==
  receipt.actor = o /\ receipt.request = calls[o].request

Bindable(a) ==
  rows[a].mapping = "EXACT" /\ rows[a].lifecycle \notin {"RETIRED", "QUARANTINED"}

\* The row is still what the receipt says it became.
lockMutationReplayAsset(a, after) ==
  rows[a].version = after.row.version /\ rows[a].lifecycle = after.row.lifecycle

\* A row of its own, as it was left; one that was followed by another stays as it is.
StillThere(row, was) == row.id > was.id \/ row = was

replayConflictDecision(a, after) ==
  /\ StillThere(disputes[a], after.dispute)
  /\ [rows[a] EXCEPT !.name = None] = [after.row EXCEPT !.name = None]
  /\ after.binding.id # 0 => bindings[a] = after.binding

StillAsAudited(receipt) ==
  LET a == receipt.request.on
      op == receipt.request.op
  IN CASE op = "create" -> manual /\ lockMutationReplayAsset(a, receipt.after)
       [] op \in {"update", "quarantine", "retire"} -> lockMutationReplayAsset(a, receipt.after)
       [] op = "bind" -> Bindable(a) /\ bindings[a] = receipt.after.binding
       [] op = "unbind" -> StillThere(bindings[a], receipt.after.binding)
       [] op = "resolve" -> replayConflictDecision(a, receipt.after)

Replay(o) ==
  LET receipt == audits[calls[o].request.key] IN
  /\ calls[o] # None /\ calls[o].step = "authorized" /\ receipt # None
  /\ IF ~validateMutationReceiptIdentity(o, receipt) THEN Answered(o, "idempotency_conflict", 0)
     ELSE IF StillAsAudited(receipt) THEN Answered(o, "ok", receipt.version)
     ELSE Answered(o, "state_conflict", 0)
  /\ UNCHANGED <<rows, bindings, disputes, audits, manual, tokens, views, unsure, walks, effects, drifts, left>>

IsLifecycleEdge(from, to) ==
  \/ to = "RETIRED" /\ from # "RETIRED"
  \/ to = "QUARANTINED" /\ from \notin {"QUARANTINED", "RETIRED"}

SubjectNow(request) ==
  Subject(request.op, [row |-> rows[request.on], binding |-> bindings[request.on],
                       dispute |-> disputes[request.on]])

AnyVersion(request) == TRUE

\* The version the operator saw is the version of the locked row.  A binding or a conflict
\* that was followed by another ended before, and with a later version.
VersionMatches(request) ==
  LET subject == SubjectNow(request) IN
  subject # None => subject.version = request.match /\ IdOf(request.op, subject) = request.id

Target(op) == IF op = "retire" THEN "RETIRED" ELSE "QUARANTINED"

\* The state a change needs, apart from the version.
Admits(request) ==
  LET a == request.on
      row == rows[a]
  IN CASE request.op = "create" -> manual /\ row.version = 0
       [] request.op = "update" -> TRUE
       [] request.op \in {"quarantine", "retire"} -> IsLifecycleEdge(row.lifecycle, Target(request.op))
       [] request.op = "bind" -> Bindable(a) /\ ~bindings[a].active
       [] request.op = "unbind" -> bindings[a].active
       [] request.op = "resolve" ->
            /\ disputes[a].status = "OPEN" /\ row.lifecycle # "RETIRED"
            /\ Decides(request, "CONFIRM_EXACT") => row.lifecycle # "QUARANTINED" /\ ~bindings[a].active
            /\ Decides(request, "QUARANTINE_ASSET") => row.lifecycle # "QUARANTINED"

Bumped(row) == [row EXCEPT !.version = @ + 1]

Governed(row, name) == [Bumped(row) EXCEPT !.name = name]

Transitioned(row, lifecycle) == [Bumped(row) EXCEPT !.lifecycle = lifecycle]

Decided(row, request) ==
  CASE Decides(request, "CONFIRM_EXACT") -> [Bumped(row) EXCEPT !.mapping = "EXACT"]
    [] Decides(request, "QUARANTINE_ASSET") -> [Bumped(row) EXCEPT !.lifecycle = "QUARANTINED"]
    [] OTHER -> [Bumped(row) EXCEPT !.mapping = "UNRESOLVED"]

RowAfter(request) ==
  LET row == rows[request.on]
  IN CASE request.op = "create" -> NewRow(request.body[2])
       [] request.op = "update" -> Governed(row, request.body[2])
       [] request.op \in {"quarantine", "retire"} -> Transitioned(row, Target(request.op))
       [] request.op = "resolve" -> Decided(row, request)
       [] OTHER -> row

Bound(binding) == [id |-> binding.id + 1, version |-> 1, active |-> TRUE]

Unbound(binding) == [binding EXCEPT !.version = @ + 1, !.active = FALSE]

BindingAfter(request) ==
  LET binding == bindings[request.on]
  IN CASE request.op = "bind" \/ Decides(request, "CONFIRM_EXACT") -> Bound(binding)
       [] request.op = "unbind" -> Unbound(binding)
       [] OTHER -> binding

DisputeAfter(request) ==
  IF request.op # "resolve" THEN disputes[request.on]
  ELSE [id |-> disputes[request.on].id, version |-> disputes[request.on].version + 1,
        status |-> IF Decides(request, "REJECT_CANDIDATE") THEN "REJECTED" ELSE "RESOLVED"]

\* A listing under way no longer owes what moved or came into or out of sight.
Moved(a, row, binding) ==
  [o \in Readers |->
     IF /\ walks[o] # None
        /\ \/ row.name # rows[a].name
           \/ (row.version = 0) # (rows[a].version = 0)
           \/ binding.active # bindings[a].active
       THEN [walks[o] EXCEPT !.owed = @ \ {a}] ELSE walks[o]]

\* Only a decision remembers the binding it made.
Remembered(request, row, binding, dispute) ==
  [row |-> row, dispute |-> dispute,
   binding |-> IF request.op = "resolve" /\ ~Decides(request, "CONFIRM_EXACT")
                 THEN NoBinding ELSE binding]

ResultVersion(request, after) ==
  CASE request.op \in {"bind", "unbind"} -> after.binding.version
    [] request.op = "resolve" -> after.dispute.version
    [] OTHER -> after.row.version

\* The change, its audit record and its event, or nothing.
Commit(o) ==
  LET request == calls[o].request
      a == request.on
      row == RowAfter(request)
      binding == BindingAfter(request)
      dispute == DisputeAfter(request)
      after == Remembered(request, row, binding, dispute)
      version == ResultVersion(request, after)
  IN /\ calls[o] # None /\ calls[o].step = "authorized" /\ audits[request.key] = None
     /\ VersionMatches(request) /\ Admits(request)
     /\ rows' = [rows EXCEPT ![a] = row]
     /\ bindings' = [bindings EXCEPT ![a] = binding]
     /\ disputes' = [disputes EXCEPT ![a] = dispute]
     /\ audits' = [audits EXCEPT ![request.key] =
          [actor |-> o, request |-> request, after |-> after, version |-> version]]
     /\ effects' = Append(effects,
          [actor |-> o, request |-> request, saw |-> calls[o].saw,
           replaced |-> SubjectNow(request), version |-> version])
     /\ walks' = Moved(a, row, binding)
     /\ Answered(o, "ok", version)
     /\ UNCHANGED <<manual, tokens, views, unsure, drifts, left>>

\* classifyAssetCAS and the guards of the rows.
Refuse(o) ==
  LET request == calls[o].request IN
  /\ calls[o] # None /\ calls[o].step = "authorized" /\ audits[request.key] = None
  /\ ~(VersionMatches(request) /\ Admits(request))
  /\ Answered(o, IF VersionMatches(request) THEN "state_conflict" ELSE "version_conflict", 0)
  /\ UNCHANGED <<rows, bindings, disputes, audits, manual, tokens, views, unsure, walks, effects, drifts, left>>

-----------------------------------------------------------------------------
(* Listing. *)

Before(a, b) ==
  rows[a].name < rows[b].name \/ (rows[a].name = rows[b].name /\ a < b)

AfterCursor(cursor, a) ==
  rows[a].name > cursor.value \/ (rows[a].name = cursor.value /\ a > cursor.id)

\* Beyond the cursor, in order; one row more than the page says whether to go on.
Beyond(cursor, access) ==
  {a \in Assets : Visible(a, access) /\ (cursor # None => AfterCursor(cursor, a))}

\* A page of one row.
Page(beyond) == {a \in beyond : \A b \in beyond \ {a} : Before(a, b)}

AnyDigest(cursor, access) == TRUE

\* The cursor is good for the query, the scope and the access it was made for.
SameQuery(cursor, access) == cursor # None => cursor.digest = access

Walked(walk, access) ==
  LET beyond == Beyond(walk.cursor, access)
      page == Page(beyond)
  IN [walk EXCEPT
       !.seen = @ \cup page, !.again = @ \cup (walk.seen \cap page),
       !.done = beyond = page,
       !.cursor = IF beyond = page THEN @
                  ELSE LET last == CHOOSE a \in page : TRUE IN
                       [digest |-> access, value |-> rows[last].name, id |-> last]]

BeginList(o) ==
  LET access == AccessForPrincipal(tokens[o]) IN
  /\ tokens[o] # None /\ walks[o] = None
  /\ walks' = [walks EXCEPT ![o] =
       Walked([cursor |-> None, seen |-> {}, again |-> {}, done |-> FALSE,
               owed |-> {a \in Assets : Visible(a, access)}], access)]
  /\ UNCHANGED <<rows, bindings, disputes, audits, manual, tokens, views, calls, unsure, effects, drifts, left>>

\* A cursor of another query is refused, and the operator begins again.
NextPage(o) ==
  LET access == AccessForPrincipal(tokens[o]) IN
  /\ tokens[o] # None /\ walks[o] # None /\ ~walks[o].done
  /\ walks' = [walks EXCEPT ![o] =
       IF SameQuery(walks[o].cursor, access) THEN Walked(walks[o], access) ELSE None]
  /\ UNCHANGED <<rows, bindings, disputes, audits, manual, tokens, views, calls, unsure, effects, drifts, left>>

-----------------------------------------------------------------------------
(* What happens without the operators. *)

Drift == drifts < MaxDrifts /\ drifts' = drifts + 1

Noticed(row) == Bumped(row)

\* Discovery renames an asset or finds it missing.
Observe(a) ==
  /\ Drift /\ rows[a].version # 0 /\ rows[a].lifecycle # "RETIRED"
  /\ \E row \in {[Noticed(rows[a]) EXCEPT !.name = n] : n \in Names \ {rows[a].name}} \cup
                {[Noticed(rows[a]) EXCEPT !.lifecycle = "STALE"] : x \in {"ACTIVE"} \cap {rows[a].lifecycle}} :
       /\ rows' = [rows EXCEPT ![a] = row]
       /\ walks' = Moved(a, row, bindings[a])
  /\ UNCHANGED <<bindings, disputes, audits, manual, tokens, views, calls, unsure, effects, left>>

\* Two objects with one fingerprint: the asset becomes ambiguous.
Collide(a) ==
  /\ Drift /\ rows[a].version # 0 /\ disputes[a].status # "OPEN"
  /\ rows' = [rows EXCEPT ![a] = [Bumped(@) EXCEPT !.mapping = "AMBIGUOUS"]]
  /\ disputes' = [disputes EXCEPT ![a] = [id |-> @.id + 1, version |-> 1, status |-> "OPEN"]]
  /\ UNCHANGED <<bindings, audits, manual, tokens, views, calls, unsure, walks, effects, left>>

SourceCloses ==
  /\ Drift /\ manual /\ manual' = FALSE
  /\ UNCHANGED <<rows, bindings, disputes, audits, tokens, views, calls, unsure, walks, effects, left>>

\* A token expires or is replaced by one that says something else.
TokenChanges(o) ==
  /\ Drift
  /\ \E role \in (Roles \cup {None}) \ {tokens[o]} : tokens' = [tokens EXCEPT ![o] = role]
  /\ UNCHANGED <<rows, bindings, disputes, audits, manual, views, calls, unsure, walks, effects, left>>

RequestNext ==
  \/ \E o \in Operators, a \in Assets : Look(o, a)
  \/ \E o \in Operators, key \in ApiKeys : PatchAsset(o, key)
  \/ \E o \in Operators, key \in ApiKeys : QuarantineAsset(o, key)
  \/ \E o \in Operators, key \in ApiKeys : RetireAsset(o, key)
  \/ \E o \in Operators, key \in ApiKeys : CreateBinding(o, key)
  \/ \E o \in Operators, key \in ApiKeys : DeleteBinding(o, key)
  \/ \E o \in Operators, key \in ApiKeys : DecideConflict(o, key)
  \/ \E o \in Operators, a \in Assets, key \in ApiKeys : Enter(o, a, key)
  \/ \E o \in Operators : Repeat(o)
  \/ \E o \in Operators : Authorize(o)
  \/ \E o \in Operators : Receive(o)
  \/ \E o \in Operators : LoseAnswer(o)
  \/ \E o \in Operators : Replay(o)
  \/ \E o \in Operators : Commit(o)
  \/ \E o \in Operators : Refuse(o)

ListNext ==
  \/ \E r \in Readers : BeginList(r)
  \/ \E r \in Readers : NextPage(r)

DriftNext ==
  \/ \E a \in Assets : Observe(a)
  \/ \E a \in Assets : Collide(a)
  \/ SourceCloses
  \/ \E o \in Operators \cup Readers : TokenChanges(o)

ApiNext == RequestNext \/ ListNext \/ DriftNext

ApiSpec == ApiInit /\ [][ApiNext]_apiVars

-----------------------------------------------------------------------------

\* A change replaces exactly what its author saw: no write of another operator
\* or of discovery comes in between unnoticed, however late or repeated the
\* request is (If-Match to the version compare-and-swap).
NoLostUpdate ==
  \A i \in DOMAIN effects : effects[i].saw = effects[i].replaced

\* A key has one effect, and whoever is told that a request succeeded is told
\* of the effect of that very request of their own, with its version.
SuccessIsOwnEffect ==
  /\ \A i, j \in DOMAIN effects :
       effects[i].request.key = effects[j].request.key => i = j
  /\ \A o \in Operators :
       calls[o] # None /\ calls[o].answer = "ok" =>
         \E i \in DOMAIN effects :
           /\ effects[i].actor = o /\ effects[i].request = calls[o].request
           /\ effects[i].version = calls[o].version

\* A listing that came to its end has shown everything that was in sight and
\* kept its place all the while, and nothing of it twice.
ListIsComplete ==
  \A o \in Readers :
    walks[o] # None => /\ walks[o].done => walks[o].owed \subseteq walks[o].seen
                       /\ walks[o].owed \cap walks[o].again = {}

\* The management API of assets: no update lost, every success its own, every
\* listing complete (management.go, assets.go, read_models.go).
AssetApiSafety == NoLostUpdate /\ SuccessIsOwnEffect /\ ListIsComplete
=============================================================================
