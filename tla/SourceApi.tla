------------------------------ MODULE SourceApi ------------------------------
(***************************************************************************)
(* The management API of an asset source: internal/httpapi/asset_sources.go *)
(* and the source half of internal/assetcatalog/management.go, down to the *)
(* receipts of postgres/source_revisions.go.  What the commands do to the  *)
(* runs is AssetSource; here is what an operator is told about them.       *)
(*                                                                         *)
(* The strong ETag an operator sends back holds the version of the source, *)
(* and for a revision also the version of the revision.  The service reads *)
(* the source first, to authorize against it and to complete the command   *)
(* with facts the operator did not send: the digests, the validation, the  *)
(* published revision and the checkpoint.  These facts are part of the     *)
(* request's hash.  The transaction comes later, and workers go on in      *)
(* between.  One EXTERNAL source; digests are what they are digests of.    *)
(***************************************************************************)
EXTENDS Values, Integers, Sequences

CONSTANTS
  Managers,  \* operators that may manage sources
  AskKeys,   \* idempotency keys
  MaxPlans,  \* bound on the revisions
  MaxAsks,   \* bound on the requests sent
  MaxTurns   \* bound on what workers and tokens do meanwhile

ASSUME SourceApiConstants == {MaxPlans, MaxAsks, MaxTurns} \subseteq Nat

VARIABLES
  entry,    \* asset_sources
  plans,    \* asset_source_revisions by number
  jobs,     \* asset_source_runs in the order of creation
  notes,    \* audit_records by request_id
  badges,   \* an operator's token: of a recent login, of an old one, None
  glances,  \* what an operator looks at before a request
  asks,     \* the request of an operator that is under way
  retries,  \* the last request whose answer was lost
  works,    \* the effects, in order
  room,     \* requests that may still be sent
  turns     \* what workers and tokens have done

sourceApiVars ==
  <<entry, plans, jobs, notes, badges, glances, asks, retries, works, room, turns>>

\* The first revision is a draft, or validated, or published behind an open gate.
SourceApiInit ==
  /\ \E stage \in {"DRAFT", "VALIDATED", "PUBLISHED"} :
       LET proof == IF stage = "DRAFT" THEN 0 ELSE 1 IN
       /\ entry = [version |-> 1, status |-> "ACTIVE", checkpoint |-> 0, proof |-> proof,
                   published |-> IF stage = "PUBLISHED" THEN 1 ELSE 0,
                   gate |-> [DRAFT |-> "UNAVAILABLE", VALIDATED |-> "VALIDATING",
                             PUBLISHED |-> "AVAILABLE"][stage]]
       /\ plans = << [version |-> 1, proof |-> proof, status |-> stage] >>
       /\ jobs = [j \in 1 .. proof |->
                    [kind |-> "VALIDATION", plan |-> 1, checkpoint |-> 0, stage |-> "OVER"]]
  /\ notes = [k \in AskKeys |-> None]
  /\ badges \in [Managers -> {"recent", "old"}]
  /\ glances = [o \in Managers |-> None]
  /\ asks = [o \in Managers |-> None]
  /\ retries = [o \in Managers |-> None]
  /\ works = <<>>
  /\ room = MaxAsks
  /\ turns = 0

-----------------------------------------------------------------------------
(* The operator. *)

GetSource(o) ==
  /\ room > 0 /\ badges[o] # None /\ asks[o] = None
  /\ glances' = [glances EXCEPT ![o] = [entry |-> entry, plans |-> plans]]
  /\ UNCHANGED <<entry, plans, jobs, notes, badges, asks, retries, works, room, turns>>

CanValidate(saw) ==
  /\ saw.entry.gate \notin {"DEGRADED", "SUSPENDED"}
  /\ saw.plans[Len(saw.plans)].status \in {"DRAFT", "REJECTED"}

CanPublish(saw) ==
  LET latest == saw.plans[Len(saw.plans)] IN
  /\ saw.entry.gate = "VALIDATING" /\ latest.status = "VALIDATED"
  /\ latest.proof # 0 /\ saw.entry.proof = latest.proof


CanSync(saw) == saw.entry.published # 0 /\ saw.entry.gate = "AVAILABLE"

\* What the view of the source offers, to those who are authorized.
sourceActions(saw) ==
  IF saw.entry.status = "DISABLED" THEN {}
  ELSE {"revise", "disable"}
       \cup (IF CanValidate(saw) THEN {"validate"} ELSE {})
       \cup (IF CanPublish(saw) THEN {"publish"} ELSE {})
       \cup (IF CanSync(saw) THEN {"sync"} ELSE {})

\* Only these carry the ETag of a revision.
OnRevision(op) == op \in {"validate", "publish"}

Ask(request, saw) ==
  [request |-> request, saw |-> saw, step |-> "sent", facts |-> None, answer |-> None, job |-> 0]

AskFor(o, op, key) ==
  LET saw == glances[o] IN
  /\ room > 0 /\ room' = room - 1 /\ asks[o] = None /\ saw # None
  /\ \E n \in IF OnRevision(op) THEN DOMAIN saw.plans ELSE {0} :
       asks' = [asks EXCEPT ![o] =
         Ask([op |-> op, plan |-> n, key |-> key, sv |-> saw.entry.version,
              rv |-> IF n = 0 THEN 0 ELSE saw.plans[n].version], saw)]
  /\ glances' = [glances EXCEPT ![o] = None]
  /\ UNCHANGED <<entry, plans, jobs, notes, badges, retries, works, turns>>

AskAgain(o) ==
  /\ room > 0 /\ room' = room - 1 /\ asks[o] = None /\ retries[o] # None
  /\ asks' = [asks EXCEPT ![o] = Ask(retries[o].request, retries[o].saw)]
  /\ retries' = [retries EXCEPT ![o] = None]
  /\ UNCHANGED <<entry, plans, jobs, notes, badges, glances, works, turns>>

AnswerArrives(o) ==
  /\ asks[o] # None /\ asks[o].step = "answered"
  /\ asks' = [asks EXCEPT ![o] = None]
  /\ \/ UNCHANGED retries
     \/ room > 0 /\ retries' = [retries EXCEPT ![o] = asks[o]]
  /\ UNCHANGED <<entry, plans, jobs, notes, badges, glances, works, room, turns>>

Tell(o, answer, job) ==
  asks' = [asks EXCEPT ![o].step = "answered", ![o].answer = answer, ![o].job = job]

-----------------------------------------------------------------------------
(* Before the transaction. *)

\* What may not be undone easily needs a login of the last minutes.
RequireRecentAuthentication(op) == op \in {"publish", "disable"}

\* What the service adds to the command from the source as it is now.
PublishFacts == <<plans[Len(plans)].proof, 0>>

SyncFacts == <<entry.published, entry.checkpoint>>

Facts(op) ==
  CASE op = "publish" -> PublishFacts [] op = "sync" -> SyncFacts [] OTHER -> <<0, 0>>

\* A revision is validated and published as the latest.
NotLatest(request) == OnRevision(request.op) /\ Len(plans) # request.plan

loadSourceForMutation(o) ==
  LET request == asks[o].request IN
  /\ asks[o] # None /\ asks[o].step = "sent"
  /\ IF badges[o] = None \/ (RequireRecentAuthentication(request.op) /\ badges[o] = "old")
       THEN Tell(o, "forbidden", 0)
     ELSE IF NotLatest(request)
       THEN Tell(o, "version_conflict", 0)
     ELSE asks' = [asks EXCEPT ![o].step = "loaded", ![o].facts = Facts(request.op)]
  /\ UNCHANGED <<entry, plans, jobs, notes, badges, glances, retries, works, room, turns>>

-----------------------------------------------------------------------------
(* The transaction. *)

AnyActorsAudit(o, note) == note.request = asks[o].request /\ note.facts = asks[o].facts

validateSourceMutationAudit(o, note) ==
  note.actor = o /\ note.request = asks[o].request /\ note.facts = asks[o].facts

\* A run is found again whatever became of it; a row only as it was left.
ReplayStands(note) ==
  CASE note.request.op \in {"validate", "sync"} -> TRUE
    [] note.request.op = "disable" -> entry.version = note.sv /\ entry.status = "DISABLED"
    [] note.request.op = "revise" -> entry.version = note.sv /\ plans[note.plan].version = note.rv
    [] note.request.op = "publish" ->
         entry.version = note.sv /\ plans[note.plan].version = note.rv
         /\ plans[note.plan].status = "PUBLISHED"

ReplayMutation(o) ==
  LET note == notes[asks[o].request.key] IN
  /\ asks[o] # None /\ asks[o].step = "loaded" /\ note # None
  /\ IF ~validateSourceMutationAudit(o, note) THEN Tell(o, "idempotency_conflict", 0)
     ELSE IF ReplayStands(note) THEN Tell(o, "ok", note.job)
     ELSE Tell(o, "state_conflict", 0)
  /\ UNCHANGED <<entry, plans, jobs, notes, badges, glances, retries, works, room, turns>>

NoPrecondition(request) == TRUE

\* If-Match, both halves of it, against the locked rows.
ExpectedVersions(request) ==
  /\ entry.version = request.sv
  /\ OnRevision(request.op) => plans[request.plan].version = request.rv

\* A run that is not over: somebody works on it, or it waits (QUEUED, or DELAYED and clean).
OpenJob == {j \in DOMAIN jobs : jobs[j].stage # "OVER"}
BusyJob == {j \in OpenJob : jobs[j].stage = "RUNNING"}

MayDo(request, facts) ==
  CASE request.op = "revise" -> entry.status # "DISABLED"
    [] request.op = "validate" ->
         /\ entry.status = "ACTIVE" /\ entry.gate \notin {"DEGRADED", "SUSPENDED"}
         /\ plans[request.plan].status \in {"DRAFT", "REJECTED"} /\ BusyJob = {}
    [] request.op = "publish" ->
         /\ entry.status = "ACTIVE" /\ BusyJob = {} /\ plans[request.plan].status = "VALIDATED"
         /\ plans[request.plan].proof = facts[1]
         /\ entry.gate = "VALIDATING" /\ entry.proof = facts[1]
    [] request.op = "disable" ->
         /\ entry.status # "DISABLED" /\ entry.gate # "DEGRADED"
         /\ \A j \in BusyJob : jobs[j].kind # "VALIDATION"
    [] request.op = "sync" ->
         /\ entry.status = "ACTIVE" /\ entry.gate = "AVAILABLE" /\ OpenJob = {}
         /\ entry.published # 0 /\ facts = <<entry.published, entry.checkpoint>>

Touched(row) == [row EXCEPT !.version = @ + 1]

\* cancelPrelockedSourceRun: the waiting run these commands cancel, and the revision that run
\* was to validate.
Cancelled(request) ==
  IF request.op \in {"validate", "publish", "disable"} THEN OpenJob \ BusyJob ELSE {}

JobsLeft(request) ==
  [j \in DOMAIN jobs |-> IF j \in Cancelled(request) THEN [jobs[j] EXCEPT !.stage = "OVER"] ELSE jobs[j]]

PlansLeft(request) ==
  [n \in DOMAIN plans |->
     IF \E j \in Cancelled(request) : jobs[j].kind = "VALIDATION" /\ jobs[j].plan = n
     THEN [Touched(plans[n]) EXCEPT !.status = "REJECTED", !.proof = 0] ELSE plans[n]]

EntryAfter(request) ==
  CASE request.op = "revise" -> Touched(entry)
    [] request.op = "validate" ->
         [Touched(entry) EXCEPT !.gate = "VALIDATING", !.proof = Len(jobs) + 1]
    [] request.op = "publish" ->
         [Touched(entry) EXCEPT !.gate = "UNAVAILABLE", !.proof = 0, !.checkpoint = 0,
                                !.published = request.plan]
    [] request.op = "disable" ->
         [Touched(entry) EXCEPT !.status = "DISABLED", !.gate = "UNAVAILABLE", !.proof = 0]
    [] request.op = "sync" -> entry

PlansAfter(request) ==
  LET left == PlansLeft(request) IN
  CASE request.op = "revise" -> Append(left, [version |-> 1, proof |-> 0, status |-> "DRAFT"])
    [] request.op = "validate" ->
         [left EXCEPT ![request.plan] = [Touched(@) EXCEPT !.status = "VALIDATING"]]
    [] request.op = "publish" ->
         [n \in DOMAIN left |->
            IF n = request.plan THEN [Touched(left[n]) EXCEPT !.status = "PUBLISHED"]
            ELSE IF left[n].status = "PUBLISHED" THEN [Touched(left[n]) EXCEPT !.status = "SUPERSEDED"]
            ELSE left[n]]
    [] OTHER -> left

NewJob(kind, n, checkpoint) ==
  [kind |-> kind, plan |-> n, checkpoint |-> checkpoint, stage |-> "QUEUED"]

JobsAfter(request) ==
  LET left == JobsLeft(request) IN
  CASE request.op = "validate" -> Append(left, NewJob("VALIDATION", request.plan, 0))
    [] request.op = "sync" -> Append(left, NewJob("DISCOVERY", entry.published, entry.checkpoint))
    [] OTHER -> left

\* The revision a receipt is about, and the run.
PlanOf(request) == IF request.op = "revise" THEN Len(plans) + 1 ELSE request.plan

JobOf(request) == IF request.op \in {"validate", "sync"} THEN Len(jobs) + 1 ELSE 0

MutateSource(o) ==
  LET request == asks[o].request
      n == PlanOf(request)
  IN /\ asks[o] # None /\ asks[o].step = "loaded" /\ notes[request.key] = None
     /\ request.op = "revise" => Len(plans) < MaxPlans
     /\ ExpectedVersions(request) /\ MayDo(request, asks[o].facts)
     /\ entry' = EntryAfter(request) /\ plans' = PlansAfter(request) /\ jobs' = JobsAfter(request)
     /\ notes' = [notes EXCEPT ![request.key] =
          [actor |-> o, request |-> request, facts |-> asks[o].facts, plan |-> n,
           sv |-> entry'.version, rv |-> IF n = 0 THEN 0 ELSE plans'[n].version,
           job |-> JobOf(request)]]
     /\ works' = Append(works,
          [actor |-> o, request |-> request, saw |-> asks[o].saw, job |-> JobOf(request),
           replaced |-> [entry |-> entry, plans |-> plans]])
     /\ Tell(o, "ok", JobOf(request))
     /\ UNCHANGED <<badges, glances, retries, room, turns>>

RefuseMutation(o) ==
  LET request == asks[o].request IN
  /\ asks[o] # None /\ asks[o].step = "loaded" /\ notes[request.key] = None
  /\ ~(ExpectedVersions(request) /\ MayDo(request, asks[o].facts))
  /\ Tell(o, IF ExpectedVersions(request) THEN "state_conflict" ELSE "version_conflict", 0)
  /\ UNCHANGED <<entry, plans, jobs, notes, badges, glances, retries, works, room, turns>>

-----------------------------------------------------------------------------
(* Workers, the schema's gate and the identity provider. *)

Turn == turns < MaxTurns /\ turns' = turns + 1

\* Every statement on the source advances its version.
EntryUpdated(row) == Touched(row)

RunClaimed ==
  /\ \E j \in OpenJob \ BusyJob : jobs' = [jobs EXCEPT ![j].stage = "RUNNING"]
  /\ entry.status = "ACTIVE"
  /\ UNCHANGED <<entry, plans, notes, badges, glances, asks, retries, works, room, turns>>

\* The end of a validation is the revision's; the source is left as it is.
ValidationCompletes ==
  /\ Turn
  /\ \E j \in BusyJob, accepted \in BOOLEAN :
       /\ jobs[j].kind = "VALIDATION"
       /\ jobs' = [jobs EXCEPT ![j].stage = "OVER"]
       /\ plans' = [plans EXCEPT ![jobs[j].plan] =
            [Touched(@) EXCEPT !.status = IF accepted THEN "VALIDATED" ELSE "REJECTED",
                               !.proof = IF accepted THEN j ELSE 0]]
  /\ UNCHANGED <<entry, notes, badges, glances, asks, retries, works, room>>

\* The credentials of a run are not known to be revoked: the source is suspended.
RunUncertain ==
  /\ Turn
  /\ \E j \in BusyJob :
       /\ jobs' = [jobs EXCEPT ![j].stage = "OVER"]
       /\ plans' = IF jobs[j].kind = "VALIDATION"
            THEN [plans EXCEPT ![jobs[j].plan] = [Touched(@) EXCEPT !.status = "REJECTED", !.proof = 0]]
            ELSE plans
       /\ entry.status = "ACTIVE"
       /\ entry' = [EntryUpdated(entry) EXCEPT !.gate = "SUSPENDED"]
  /\ UNCHANGED <<notes, badges, glances, asks, retries, works, room>>

\* A run lost its checkpoint and reads on from the start.
RunRollsOver ==
  /\ Turn
  /\ \E j \in BusyJob : jobs[j].kind = "DISCOVERY"
  /\ entry.gate = "AVAILABLE"
  /\ entry' = [EntryUpdated(entry) EXCEPT !.gate = "DEGRADED"]
  /\ UNCHANGED <<plans, jobs, notes, badges, glances, asks, retries, works, room>>

GateOpens ==
  /\ Turn /\ entry.status = "ACTIVE" /\ entry.gate = "UNAVAILABLE" /\ entry.published # 0
  /\ entry' = [EntryUpdated(entry) EXCEPT !.gate = "AVAILABLE"]
  /\ UNCHANGED <<plans, jobs, notes, badges, glances, asks, retries, works, room>>

PageCommits ==
  /\ Turn
  /\ \E j \in BusyJob :
       /\ jobs[j].kind = "DISCOVERY" /\ entry.status = "ACTIVE"
       /\ jobs' = [jobs EXCEPT ![j].stage = "OVER"]
       /\ entry' = [EntryUpdated(entry) EXCEPT !.checkpoint = @ + 1, !.gate = "AVAILABLE"]
  /\ UNCHANGED <<plans, notes, badges, glances, asks, retries, works, room>>

TokenAges(o) ==
  /\ Turn
  /\ badges' = [badges EXCEPT ![o] = IF @ = "recent" THEN "old" ELSE None]
  /\ badges[o] # None
  /\ UNCHANGED <<entry, plans, jobs, notes, glances, asks, retries, works, room>>

SourceApiNext ==
  \/ \E o \in Managers : GetSource(o)
  \/ \E o \in Managers, key \in AskKeys,
        op \in {"revise", "validate", "publish", "disable", "sync"} : AskFor(o, op, key)
  \/ \E o \in Managers : AskAgain(o)
  \/ \E o \in Managers : AnswerArrives(o)
  \/ \E o \in Managers : loadSourceForMutation(o)
  \/ \E o \in Managers : ReplayMutation(o)
  \/ \E o \in Managers : MutateSource(o)
  \/ \E o \in Managers : RefuseMutation(o)
  \/ RunClaimed
  \/ ValidationCompletes
  \/ RunUncertain
  \/ RunRollsOver
  \/ GateOpens
  \/ PageCommits
  \/ \E o \in Managers : TokenAges(o)

SourceApiSpec == SourceApiInit /\ [][SourceApiNext]_sourceApiVars

-----------------------------------------------------------------------------

\* A command takes effect on the source its author looked at, whatever the
\* service read for it later: what is published is the revision with the very
\* proof that was seen, what is synchronized or disabled is where it was.
CommandIsOnWhatWasSeen ==
  \A i \in DOMAIN works :
    LET work == works[i] IN
    /\ work.saw.entry = work.replaced.entry
    /\ OnRevision(work.request.op) =>
         work.saw.plans[work.request.plan] = work.replaced.plans[work.request.plan]

\* A run that stands in the way of a command; one that waits is only in that of another run.
\* A source is degraded as long as the run that lost its checkpoint is open.
InTheWay(op) ==
  BusyJob # {} \/ (op = "sync" /\ OpenJob # {})

\* What the view offered is not refused for its state unless the source changed
\* since or a run is in the way: the view's conditions are the transaction's.
OfferedIsAdmitted ==
  \A o \in Managers :
    LET request == asks[o].request IN
    /\ asks[o] # None /\ asks[o].step = "loaded" /\ notes[request.key] = None
    /\ request.op \in sourceActions(asks[o].saw)
    /\ asks[o].saw = [entry |-> entry, plans |-> plans]
    => MayDo(request, asks[o].facts) \/ InTheWay(request.op)

\* A key starts one run at most, and an operator who is told of success is told
\* of the run that this very request of theirs started.
RunIsOwn ==
  /\ \A i, j \in DOMAIN works : works[i].request.key = works[j].request.key => i = j
  /\ \A o \in Managers :
       asks[o] # None /\ asks[o].answer = "ok" =>
         \E i \in DOMAIN works :
           works[i].actor = o /\ works[i].request = asks[o].request /\ works[i].job = asks[o].job

\* The management API of sources: commands on what was seen, offers that are kept,
\* and one run of one's own per key (management.go, source_revisions.go).
SourceApiSafety == CommandIsOnWhatWasSeen /\ OfferedIsAdmitted /\ RunIsOwn
=============================================================================
