---------------------------- MODULE ReadExecutor ----------------------------
(* The executor of READ tasks: a task is prepared against the bundle of connectors,
   targets and network policies, started with the capability of its lease, and executed
   once: the target's name is resolved, one connection is made to an address the policy
   allows, the credential source lends a token for one request, and the answer becomes
   evidence bound to the start.  Names, peers, the credential source and the context may
   do what they like meanwhile. *)
EXTENDS Integers, Sequences, SequencesExt, Values

CONSTANTS
  Addresses,   \* the addresses a name may resolve to
  Denied,      \* the addresses no policy may contain
  Bundles,     \* what may be deployed: policies, each [scope, host, prefixes], and targets, each [scope, host, kind]
  Tasks,       \* the descriptors: [task, scope, kind, bound, shape]
  Starts,      \* the capabilities of leases: [task, epoch]
  Replies,     \* what a target may answer: [tls, status, typed, rows]
  Callers,     \* the threads that execute
  MaxAnswers,  \* MaximumDNSAnswers
  MaxItems     \* the limit of the query

VARIABLES
  bundle,     \* what is deployed
  prepared,   \* the prepared execution: None, or [task, epoch, claim, status]
  ctx,        \* the context of each caller
  doing,      \* what each caller is doing
  uses,       \* the callbacks of each caller's credential source
  sent,       \* the requests that left with a token
  delivered   \* the completions handed to the gateway client

executorReadVars == <<bundle, prepared, ctx, doing, uses, sent, delivered>>

Resting == [pc |-> "idle", start |-> None, task |-> None, addresses |-> {}, source |-> "none",
            active |-> FALSE, count |-> 0, dialed |-> FALSE, err |-> "none", result |-> None]

ExecutorReadInit ==
  /\ bundle \in Bundles /\ prepared = None
  /\ ctx = [x \in Callers |-> "live"] /\ doing = [x \in Callers |-> Resting]
  /\ uses = [x \in Callers |-> [u \in 1..2 |-> "none"]]
  /\ sent = <<>> /\ delivered = {}

-----------------------------------------------------------------------------
(* Policies and the bundle. *)

validAllowedPrefix(prefix) == prefix # {} /\ prefix \cap Denied = {}
compileEgressPolicy(p) ==
  /\ p.prefixes # {} /\ \A prefix \in p.prefixes : validAllowedPrefix(prefix)
  /\ \A q, r \in p.prefixes : q # r => q \cap r = {}
hardDeniedAddress(a) == a \in Denied
allows(p, a) == ~hardDeniedAddress(a) /\ \E prefix \in p.prefixes : a \in prefix
NewEgressRegistry(policies) == policies # {} /\ \A p \in policies : compileEgressPolicy(p)

\* The policy of a target: of its scope, for its host.
ResolveTarget(policies, t) == {p \in policies : p.scope = t.scope /\ p.host = t.host}

validateDependencyGraph(b) == \A t \in b.targets : ResolveTarget(b.policies, t) # {}
NewBundle(b) == NewEgressRegistry(b.policies) /\ validateDependencyGraph(b)

\* The target of a descriptor that is bound to what is deployed.
resolveDescriptor(d) == {t \in bundle.targets : t.scope = d.scope /\ t.kind = d.kind /\ d.bound = "this"}
PolicyOf(d) == UNION {ResolveTarget(bundle.policies, t) : t \in resolveDescriptor(d)}

validExecutionSpecShape(d) == d.shape # "malformed"
BundlePrepare(d, s) ==
  /\ prepared = None /\ s.task = d.task
  /\ NewBundle(bundle) /\ PolicyOf(d) # {} /\ validExecutionSpecShape(d)
  /\ prepared' = [task |-> d, epoch |-> s.epoch, claim |-> "ready", status |-> "ready"]
  /\ UNCHANGED <<bundle, ctx, doing, uses, sent, delivered>>

-----------------------------------------------------------------------------
(* Results. *)

FailedWith(code) == [outcome |-> IF code = "CANCELLED" THEN "CANCELLED" ELSE "FAILED", code |-> code, rows |-> <<>>, bound |-> None]
newEvidenceResult(rows) == [outcome |-> "EVIDENCE", code |-> "none", rows |-> rows, bound |-> None]
bindResult(r, s) == [r EXCEPT !.bound = s]
AnyStart(r, s) == r.bound # None
boundTo(r, s) == r.bound = s

contextFailure(x, fallback) ==
  CASE ctx[x] = "cancelled" -> "CANCELLED" [] ctx[x] = "expired" -> "TIMEOUT" [] OTHER -> fallback

\* A caller returns a result bound to its start, or an error; what it held is let go.
Returns(x, r) == doing' = [doing EXCEPT ![x] = [Resting EXCEPT !.pc = "done", !.start = doing[x].start, !.task = doing[x].task,
                                                               !.source = IF doing[x].source = "none" THEN "none" ELSE "over", !.result = r]]
ReturnsFailure(x, code) == Returns(x, bindResult(FailedWith(code), doing[x].start))
ErrExecutionRejected(x) == Returns(x, None)

-----------------------------------------------------------------------------
(* Execute. *)

ContextEnds(x, how) ==
  /\ ctx[x] = "live" /\ doing[x].pc # "done"
  /\ ctx' = [ctx EXCEPT ![x] = how]
  /\ UNCHANGED <<bundle, prepared, doing, uses, sent, delivered>>

NeverSpent(word) == TRUE
\* What a compare-and-swap finds: the bundle has one for what it prepared, the executor
\* another.
Unspent(word) == word = "ready"

\* Bundle.Execute: claimFor, whatever comes of it; then the executor compares the task before
\* it consumes the execution.
Execute(x, s) ==
  /\ doing[x].pc = "idle" /\ prepared # None
  /\ prepared' = [prepared EXCEPT !.claim = "spent"]
  /\ IF Unspent(prepared.claim) /\ Unspent(prepared.status) /\ s.task = prepared.task.task
     THEN doing' = [doing EXCEPT ![x].pc = "consuming", ![x].start = s,
                                 ![x].err = contextFailure(x, "none")]
     ELSE doing' = [doing EXCEPT ![x].pc = "done", ![x].start = s]
  /\ UNCHANGED <<bundle, ctx, uses, sent, delivered>>

\* The state is compared and swapped; then epochs are compared.
consume(x) ==
  /\ doing[x].pc = "consuming"
  /\ prepared' = [prepared EXCEPT !.status = "spent"]
  /\ IF ~Unspent(prepared.status) \/ doing[x].start.epoch # prepared.epoch
     THEN ErrExecutionRejected(x)
     ELSE IF doing[x].err # "none"
     THEN ReturnsFailure(x, doing[x].err)
     ELSE doing' = [doing EXCEPT ![x].pc = "resolving", ![x].task = prepared.task]
  /\ UNCHANGED <<bundle, ctx, uses, sent, delivered>>

\* Every answer must be allowed; the order is that of the addresses.
AcceptedAnswers(d, answers) == {a \in answers : \E p \in PolicyOf(d) : allows(p, a)} = answers
resolveAddresses(x, answers) ==
  /\ doing[x].pc = "resolving"
  /\ IF answers = None
     THEN ReturnsFailure(x, contextFailure(x, "CONNECTOR_UNAVAILABLE"))
     ELSE IF answers = {} \/ Cardinality(answers) > MaxAnswers \/ ~AcceptedAnswers(doing[x].task, answers)
     THEN ReturnsFailure(x, "RESULT_REJECTED")
     ELSE doing' = [doing EXCEPT ![x].pc = "building", ![x].addresses = answers]
  /\ UNCHANGED <<bundle, prepared, ctx, uses, sent, delivered>>

\* A form too long for a request ends the execution without a result.
buildRequest(x) ==
  /\ doing[x].pc = "building"
  /\ IF doing[x].task.shape = "overlong" THEN ErrExecutionRejected(x)
     ELSE doing' = [doing EXCEPT ![x].pc = "lending", ![x].active = TRUE, ![x].source = "running"]
  /\ UNCHANGED <<bundle, prepared, ctx, uses, sent, delivered>>

-----------------------------------------------------------------------------
(* The credential source: it may call back once, twice, never, from another thread, or
   when it has already returned. *)

SourceCalls(x, u) ==
  /\ doing[x].pc \in {"lending", "done"} /\ doing[x].source # "none" /\ uses[x][u] = "none"
  /\ u = 2 => uses[x][1] # "none"
  /\ uses' = [uses EXCEPT ![x][u] = "waiting"]
  /\ UNCHANGED <<bundle, prepared, ctx, doing, sent, delivered>>

\* It returns a failure, nothing, something that is no failure, or it panics.
SourceReturns(x, said) ==
  /\ doing[x].pc = "lending" /\ doing[x].source = "running"
  /\ doing' = [doing EXCEPT ![x].source = said]
  /\ UNCHANGED <<bundle, prepared, ctx, uses, sent, delivered>>

\* The callbacks of one execution exclude each other.
Locked(x) == \E u \in 1..2 : uses[x][u] \in {"dialing", "posted"}
Callable(x) == doing[x].active

\* The callback: it does nothing any more, or is one too many, or the token is no
\* token, or the request goes out.
BearerCallback(x, u, token) ==
  /\ uses[x][u] = "waiting" /\ ~Locked(x)
  /\ IF ~Callable(x)
     THEN uses' = [uses EXCEPT ![x][u] = "over"] /\ UNCHANGED doing
     ELSE IF doing[x].count # 0 \/ token = "malformed"
     THEN /\ uses' = [uses EXCEPT ![x][u] = "over"]
          /\ doing' = [doing EXCEPT ![x].count = @ + 1, ![x].err = "AUTHENTICATION"]
     ELSE /\ uses' = [uses EXCEPT ![x][u] = "dialing"]
          /\ doing' = [doing EXCEPT ![x].count = @ + 1]
  /\ UNCHANGED <<bundle, prepared, ctx, sent, delivered>>

AnyRemote(remote, a) == remote # None
remoteAddressMatches(remote, a) == remote = a
\* Each address is tried in turn, and only a connection that ends there is kept.
Reached(x, net) ==
  LET good == {a \in doing[x].addresses : remoteAddressMatches(net[a], a)}
  IN  IF good = {} THEN None ELSE net[CHOOSE a \in good : \A b \in good : a <= b]

\* The transport dials at most once.
newTransport(x, u, net) ==
  /\ uses[x][u] = "dialing"
  /\ IF Reached(x, net) = None \/ doing[x].dialed
     THEN /\ uses' = [uses EXCEPT ![x][u] = "over"] /\ UNCHANGED sent
          /\ doing' = [doing EXCEPT ![x].dialed = TRUE, ![x].err = contextFailure(x, "CONNECTOR_UNAVAILABLE")]
     ELSE /\ uses' = [uses EXCEPT ![x][u] = "posted"]
          /\ sent' = Append(sent, [by |-> x, to |-> Reached(x, net), task |-> doing[x].task, start |-> doing[x].start,
                                   quiet |-> doing[x].pc = "done"])
          /\ doing' = [doing EXCEPT ![x].dialed = TRUE]
  /\ UNCHANGED <<bundle, prepared, ctx, delivered>>

-----------------------------------------------------------------------------
(* The answer.  The task was collected at 4 and looks back to 2; steps are 2 long. *)

statusFailure(status) ==
  CASE status = 200 -> "none"
    [] status = 401 -> "AUTHENTICATION"
    [] status = 403 -> "PERMISSION_DENIED"
    [] status \in {408, 503, 504} -> "TIMEOUT"
    [] status = 429 -> "RATE_LIMITED"
    [] status = 422 -> "RESULT_REJECTED"
    [] status \in (500..599) \ {503, 504} -> "CONNECTOR_UNAVAILABLE"
    [] OTHER -> "INVALID_RESPONSE"

prometheusSampleGridFailure(row) == row.at < 2 \/ row.at > 4 \/ row.at % 2 # 0
parsePrometheusResponse(rows) ==
  IF \/ Len(rows) > MaxItems
     \/ \E i \in DOMAIN rows : prometheusSampleGridFailure(rows[i]) \/ (i > 1 /\ rows[i].key <= rows[i - 1].key)
  THEN None ELSE rows

boundedVictoriaLogLines(rows) == Len(rows) <= MaxItems
RowBefore(a, b) == a.at < b.at \/ (a.at = b.at /\ a.key <= b.key)
parseVictoriaLogsResponse(rows) ==
  IF ~boundedVictoriaLogLines(rows) \/ \E i \in DOMAIN rows : rows[i].at < 2 \/ rows[i].at >= 4
  THEN None ELSE SortSeq(rows, RowBefore)

evidenceContainsBearer(rows) == \E i \in DOMAIN rows : rows[i].key = 0
Parsed(d, rows) == IF d.kind = "prometheus" THEN parsePrometheusResponse(rows) ELSE parseVictoriaLogsResponse(rows)
consumeResponse(x, reply) ==
  IF ~reply.tls THEN FailedWith("INVALID_RESPONSE")
  ELSE IF statusFailure(reply.status) # "none" THEN FailedWith(statusFailure(reply.status))
  ELSE IF ~reply.typed THEN FailedWith("INVALID_RESPONSE")
  ELSE IF ctx[x] # "live" THEN FailedWith(contextFailure(x, "none"))
  ELSE LET rows == Parsed(doing[x].task, reply.rows)
       IN  IF rows = None \/ evidenceContainsBearer(rows) THEN FailedWith("RESULT_REJECTED")
           ELSE newEvidenceResult(rows)

\* The target answers, or the connection breaks.
Answered(x, u, reply) ==
  /\ uses[x][u] = "posted"
  /\ uses' = [uses EXCEPT ![x][u] = "over"]
  /\ doing' = IF reply = None
              THEN [doing EXCEPT ![x].err = contextFailure(x, "CONNECTOR_UNAVAILABLE")]
              ELSE [doing EXCEPT ![x].result = consumeResponse(x, reply)]
  /\ UNCHANGED <<bundle, prepared, ctx, sent, delivered>>

-----------------------------------------------------------------------------
(* The end of an execution, and the completion. *)

validCredentialFailure(said) == said \in {"RATE_LIMITED"}

\* The source has returned and no callback is under way: from now on none does anything.
roundTripWithBearer(x) ==
  /\ doing[x].pc = "lending" /\ doing[x].source # "running" /\ ~Locked(x)
  /\ LET said == doing[x].source
         failure == IF said = "panics" THEN "UNKNOWN"
                    ELSE IF doing[x].count # 1 \/ said # "none"
                    THEN (IF validCredentialFailure(said) THEN said ELSE "UNKNOWN")
                    ELSE IF doing[x].err # "none" THEN doing[x].err
                    ELSE IF doing[x].result = None THEN "UNKNOWN" ELSE "none"
     IN  IF failure # "none" THEN ReturnsFailure(x, failure)
         ELSE Returns(x, bindResult(doing[x].result, doing[x].start))
  /\ UNCHANGED <<bundle, prepared, ctx, uses, sent, delivered>>

\* The activity turns its result into a completion for a start it holds.
Completion(x, s) ==
  /\ doing[x].pc = "done" /\ doing[x].result # None /\ boundTo(doing[x].result, s)
  /\ \A c \in delivered : c.by # x
  /\ delivered' = delivered \cup {[by |-> x, start |-> s, result |-> doing[x].result]}
  /\ UNCHANGED <<bundle, prepared, ctx, doing, uses, sent>>

Lending(x) ==
  \/ \E u \in 1..2 : SourceCalls(x, u)
  \/ \E said \in {"none", "RATE_LIMITED", "nonsense", "panics"} : SourceReturns(x, said)
  \/ \E u \in 1..2, token \in {"sound", "malformed"} : BearerCallback(x, u, token)
  \/ \E u \in 1..2, net \in [doing[x].addresses -> Addresses \cup {None}] : newTransport(x, u, net)
  \/ \E u \in 1..2, reply \in Replies \cup {None} : Answered(x, u, reply)

ExecutorReadNext ==
  \/ \E d \in Tasks, s \in Starts : BundlePrepare(d, s)
  \/ \E x \in Callers :
       \/ \E how \in {"cancelled", "expired"} : ContextEnds(x, how)
       \/ \E s \in Starts : Execute(x, s) \/ Completion(x, s)
       \/ consume(x)
       \/ \E answers \in SUBSET Addresses \cup {None} : resolveAddresses(x, answers)
       \/ buildRequest(x)
       \/ Lending(x)
       \/ roundTripWithBearer(x)

-----------------------------------------------------------------------------
(* Properties. *)

\* A token leaves only for an address the policy of the task's own scope allows, whatever
\* the name resolved to and whoever accepted the connection (resolveAddresses,
\* newTransport).
TokenStaysInPolicy ==
  \A i \in DOMAIN sent : \E p \in bundle.policies :
    p.scope = sent[i].task.scope /\ sent[i].to \notin Denied /\ \E prefix \in p.prefixes : sent[i].to \in prefix

\* A prepared execution sends one request at most, whoever executes it and however often
\* the credential source calls back, and none after Execute has returned
\* (Prepared.consume, roundTripWithBearer).
PreparedSendsOnce == Len(sent) <= 1 /\ \A i \in DOMAIN sent : ~sent[i].quiet

\* A completion for a start carries what the execution prepared for that task and epoch
\* obtained: evidence comes from the request this start sent, lies in the task's window in
\* a fixed order, and does not hold the token (bindResult, boundTo, consumeResponse).
CompletionIsOwn ==
  \A c \in delivered :
    /\ c.start = doing[c.by].start /\ c.start.epoch = prepared.epoch /\ c.start.task = prepared.task.task
    /\ c.result.outcome = "EVIDENCE" =>
         /\ \E i \in DOMAIN sent : sent[i].by = c.by /\ sent[i].start = c.start
         /\ Len(c.result.rows) <= MaxItems
         /\ \A i \in DOMAIN c.result.rows :
              /\ c.result.rows[i].key # 0 /\ c.result.rows[i].at \in 2..4
              /\ i > 1 => IF prepared.task.kind = "prometheus" THEN c.result.rows[i].key > c.result.rows[i - 1].key
                          ELSE RowBefore(c.result.rows[i - 1], c.result.rows[i])
=============================================================================
