--------------------------- MODULE WorkerSupervisor ---------------------------
(***************************************************************************)
(* internal/workerprocess: the control worker runs as a child of its       *)
(* supervisor.  A first helper process loads the configuration the child   *)
(* inherits; once the child has built its snapshot it reports secret ready *)
(* on a status pipe, a second helper writes the secrets into pipes the     *)
(* child reads, the child binds them and reports ready.  From the first to *)
(* the last moment the child may exit, hang, die, write nonsense or too    *)
(* much, and leave processes in its group.                                 *)
(*                                                                         *)
(* The supervisor, the goroutines that read the status pipe and wait for   *)
(* the exit, the supply of secrets and the processes interleave.           *)
(***************************************************************************)
EXTENDS Values, Integers, Sequences, SequencesExt

CONSTANTS
  MaxStray   \* bound on status bytes that are not the protocol's

VARIABLES
  sup,     \* the supervisor: where it is, and why it ends
  loader,  \* the helper process, of the configuration or of the secrets
  supply,  \* controlWorkerSecretSupplyOperation
  kid,     \* the child and its process group
  status,  \* ChildStatus
  pipe,    \* the status pipe
  events   \* what monitorChildStatus made of it: a channel

supervisorVars == <<sup, loader, supply, kid, status, pipe, events>>

Causes == {"start", "startup", "exit", "fatal", "protocol", "output"}   \* errChildStart...
Ended == Causes \cup {"stop", "nil"}                                    \* errChildStop
Bytes == {"secretReady", "ready", "fatal", "stray"}

SupervisorTypeOK ==
  /\ sup \in [at : {"open", "start", "startup", "ready", "stopSupply", "preflight", "term",
                    "contain", "kill", "reap", "returned"},
              cause : Ended \cup {None}, next : {None, "contain", "preflight"},
              clean : {None, "startup", "nil"}, result : Ended \cup {None},
              cancelled : BOOLEAN, late : BOOLEAN, writers : BOOLEAN, supplied : BOOLEAN]
  /\ loader \in [proc : {"none", "running", "exited", "gone"}, kill : BOOLEAN, left : BOOLEAN]
  /\ supply \in {None, "running", "cancelled", "ok", "failed"}
  /\ kid \in [leader : {"none", "running", "exited", "reaped"}, code : {0, 1}, member : BOOLEAN,
              exit : {None, "trusted", "untrusted"}, term : BOOLEAN, killed : BOOLEAN,
              overflow : BOOLEAN, secrets : BOOLEAN]
  /\ status \in [state : {"open", "secretReady", "secretsBound", "ready", "closed"}, built : BOOLEAN]
  /\ pipe \in [bytes : Seq(Bytes), closed : BOOLEAN, stray : 0..MaxStray]
  /\ events \in [queue : Seq(Bytes \cup {"statusClosed"}), closed : BOOLEAN, seen : {"open", "secretReady", "ready", "closed"}]

SupervisorInit ==
  /\ sup = [at |-> "open", cause |-> None, next |-> None, clean |-> None, result |-> None,
            cancelled |-> FALSE, late |-> FALSE, writers |-> TRUE, supplied |-> FALSE]
  /\ loader = [proc |-> "running", kill |-> FALSE, left |-> FALSE]
  /\ supply = None
  /\ kid = [leader |-> "none", code |-> 0, member |-> FALSE, exit |-> None, term |-> FALSE,
            killed |-> FALSE, overflow |-> FALSE, secrets |-> FALSE]
  /\ status = [state |-> "open", built |-> FALSE]
  /\ pipe = [bytes |-> <<>>, closed |-> FALSE, stray |-> 0]
  /\ events = [queue |-> <<>>, closed |-> FALSE, seen |-> "open"]

-----------------------------------------------------------------------------
(* The helper processes *)

\* A helper ends; it may leave a process in its group.
LoaderExits ==
  /\ loader.proc = "running" /\ sup.at # "returned"
  /\ \E left \in BOOLEAN : loader' = [loader EXCEPT !.proc = "exited", !.left = left /\ ~loader.kill]
  /\ UNCHANGED <<sup, supply, kid, status, pipe, events>>

\* finalizeSourceLoader: the helper's exit was observed and its group is empty; a group that
\* was not is killed and waited for, and counts as a failure like anything that was killed.
finalizeSourceLoader(ok) ==
  /\ loader.proc = "exited"
  /\ ok => ~loader.kill /\ ~loader.left
  /\ loader' = [loader EXCEPT !.proc = "gone", !.left = FALSE]

\* The timeout, the context or a broken configuration: the group is killed.
KillLoader ==
  /\ loader.proc = "running" /\ ~loader.kill
  /\ sup.at = "open" \/ supply \in {"running", "cancelled"}
  /\ loader' = [loader EXCEPT !.kill = TRUE]
  /\ UNCHANGED <<sup, supply, kid, status, pipe, events>>

ReturnWith(result) ==
  [sup EXCEPT !.at = "returned", !.result = result, !.cause = None, !.next = None, !.clean = None,
              !.late = FALSE, !.writers = FALSE]

\* loadControlWorkerSourceFromCommand: the configuration came, and its helper is gone.
SourceLoaded ==
  /\ sup.at = "open"
  /\ \E ok \in BOOLEAN :
       /\ finalizeSourceLoader(ok)
       /\ sup' = IF ok /\ ~sup.cancelled /\ ~sup.late THEN [sup EXCEPT !.at = "start"] ELSE ReturnWith("start")
  /\ UNCHANGED <<supply, kid, status, pipe, events>>

\* The helper's end could not be confirmed: nothing is started.
SourceUnconfirmed ==
  /\ sup.at = "open" /\ loader.kill
  /\ sup' = ReturnWith("start")
  /\ UNCHANGED <<loader, supply, kid, status, pipe, events>>

-----------------------------------------------------------------------------
(* Starting *)

\* StartChild; a child that started although something failed is killed and reaped.
startControlWorker ==
  /\ sup.at = "start"
  /\ \/ /\ kid' = [kid EXCEPT !.leader = "running"]
        /\ sup' = [sup EXCEPT !.at = "startup"]
     \/ /\ kid' = [kid EXCEPT !.leader = "running", !.killed = TRUE]
        /\ sup' = [sup EXCEPT !.at = "kill", !.cause = "start", !.writers = FALSE]
     \/ sup' = ReturnWith("start") /\ UNCHANGED kid
  /\ UNCHANGED <<loader, supply, status, pipe, events>>

Cancelled == sup.cancelled
StopSignal ==
  /\ ~sup.cancelled /\ sup.at # "returned"
  /\ sup' = [sup EXCEPT !.cancelled = TRUE]
  /\ UNCHANGED <<loader, supply, kid, status, pipe, events>>

StartupTimeout ==
  /\ ~sup.late /\ sup.at \in {"open", "start", "startup"}
  /\ sup' = [sup EXCEPT !.late = TRUE]
  /\ UNCHANGED <<loader, supply, kid, status, pipe, events>>

\* Both ways to end first stop the supply and close the secret pipes.
rejectStartup(cause) ==
  sup' = [sup EXCEPT !.at = "stopSupply", !.next = "contain", !.cause = cause, !.writers = supply # None,
                     !.late = FALSE, !.supplied = FALSE]
terminateStartup(clean) ==
  sup' = [sup EXCEPT !.at = "stopSupply", !.next = "preflight", !.clean = clean, !.cause = "startup",
                     !.writers = supply # None, !.late = FALSE, !.supplied = FALSE]
rejectAfterContainment(cause) ==
  sup' = [sup EXCEPT !.at = "contain", !.cause = cause, !.clean = None, !.writers = FALSE, !.supplied = FALSE]

TakeEvent == events' = [events EXCEPT !.queue = Tail(@)]

\* The result of the supply, once.
SupplyEnded(ok) == sup' = [sup EXCEPT !.supplied = ok, !.writers = FALSE]

\* Variant: ready is taken at its word.
AcceptsReady ==
  IF sup.late THEN terminateStartup("startup") /\ UNCHANGED supply
  ELSE sup' = [sup EXCEPT !.at = "ready", !.writers = FALSE] /\ supply' = None

\* A child that says it is ready has had its secrets, and the supply knows that already.
childEventReady ==
  IF sup.late THEN terminateStartup("startup") /\ UNCHANGED supply
  ELSE IF sup.supplied \/ supply = "ok"
       THEN sup' = [sup EXCEPT !.at = "ready", !.supplied = TRUE, !.writers = FALSE] /\ supply' = None
       ELSE rejectStartup(IF supply = "failed" THEN "start" ELSE "protocol") /\ UNCHANGED supply

\* beginControlWorkerSecretSupply: another helper, for the secrets.
childEventSecretReady ==
  IF supply # None \/ sup.supplied THEN rejectStartup("protocol") /\ UNCHANGED <<supply, loader>>
  ELSE IF Cancelled THEN terminateStartup("nil") /\ UNCHANGED <<supply, loader>>
  ELSE IF sup.late THEN terminateStartup("startup") /\ UNCHANGED <<supply, loader>>
  ELSE /\ supply' = "running"
       /\ loader' = [proc |-> "running", kill |-> FALSE, left |-> FALSE]
       /\ UNCHANGED sup

StartupEvent ==
  /\ sup.at = "startup"
  /\ \/ /\ events.queue # <<>> /\ TakeEvent
        /\ CASE Head(events.queue) = "secretReady" -> childEventSecretReady
             [] Head(events.queue) = "ready" -> childEventReady /\ UNCHANGED loader
             [] Head(events.queue) = "fatal" -> rejectStartup("fatal") /\ UNCHANGED <<supply, loader>>
             [] OTHER -> rejectStartup("protocol") /\ UNCHANGED <<supply, loader>>
     \/ /\ events.queue = <<>> /\ events.closed
        /\ rejectStartup("protocol") /\ UNCHANGED <<supply, loader, events>>
  /\ UNCHANGED <<kid, status, pipe>>

\* classifyExitedControlWorker: what the child had said before, if it is there in time.
classifyExited(fallback) ==
  (IF kid.overflow THEN {"output"} ELSE {}) \cup {fallback}
  \cup {IF "fatal" \in Range(events.queue) THEN "fatal" ELSE "protocol" :
          e \in Range(events.queue) \ {"ready"}}

StartupEnds ==
  /\ sup.at = "startup"
  /\ \/ kid.overflow /\ rejectStartup("output")
     \/ kid.exit # None /\ \E cause \in classifyExited("startup") : rejectStartup(cause)
     \/ sup.late /\ terminateStartup("startup")
     \/ Cancelled /\ terminateStartup("nil")
  /\ UNCHANGED <<loader, supply, kid, status, pipe, events>>

SupplyResult ==
  /\ sup.at = "startup" /\ supply \in {"ok", "failed"}
  /\ supply' = None
  /\ IF supply = "failed" THEN sup' = [sup EXCEPT !.at = "contain", !.cause = "start", !.writers = FALSE]
     ELSE IF sup.late THEN sup' = [sup EXCEPT !.at = "preflight", !.clean = "startup", !.cause = "startup", !.writers = FALSE]
     ELSE SupplyEnded(TRUE)
  /\ UNCHANGED <<loader, kid, status, pipe, events>>

\* cancelAndWait
stopSecretSupply ==
  /\ sup.at = "stopSupply"
  /\ IF supply = "running" THEN supply' = "cancelled" /\ UNCHANGED sup
     ELSE /\ supply \in {None, "ok", "failed"}
          /\ supply' = None
          /\ sup' = [sup EXCEPT !.at = sup.next, !.next = None, !.writers = FALSE]
  /\ UNCHANGED <<loader, kid, status, pipe, events>>

\* supplyControlWorkerSecrets: the helper wrote all of them and is gone.
supplySecrets ==
  /\ supply \in {"running", "cancelled"}
  /\ \E ok \in BOOLEAN :
       /\ finalizeSourceLoader(ok)
       /\ supply = "cancelled" => ~ok
       /\ supply' = IF ok THEN "ok" ELSE "failed"
       \* The child may have all of it even when the supply is then held to have failed.
       /\ \E all \in BOOLEAN : (ok => all) /\ kid' = [kid EXCEPT !.secrets = @ \/ all]
  /\ UNCHANGED <<sup, status, pipe, events>>

\* What the helper writes arrives before it is known how the helper ended.
SecretsArrive ==
  /\ supply # None /\ loader.proc = "exited" /\ ~kid.secrets
  /\ kid' = [kid EXCEPT !.secrets = TRUE]
  /\ UNCHANGED <<sup, loader, supply, status, pipe, events>>

SupplyUnconfirmed ==
  /\ supply \in {"running", "cancelled"} /\ loader.kill
  /\ supply' = "failed"
  /\ UNCHANGED <<sup, loader, kid, status, pipe, events>>

superviseReadyControlWorker ==
  /\ sup.at = "ready"
  /\ \/ /\ events.queue # <<>> /\ TakeEvent
        /\ rejectAfterContainment(IF Head(events.queue) = "fatal" THEN "fatal" ELSE "protocol")
     \/ /\ UNCHANGED events
        /\ \/ events.queue = <<>> /\ events.closed /\ rejectAfterContainment("protocol")
           \/ kid.overflow /\ rejectAfterContainment("output")
           \/ kid.exit # None /\ \E cause \in classifyExited("exit") : rejectAfterContainment(cause)
           \/ Cancelled /\ sup' = [sup EXCEPT !.at = "preflight", !.clean = "nil", !.cause = "exit"]
  /\ UNCHANGED <<loader, supply, kid, status, pipe>>

-----------------------------------------------------------------------------
(* Ending *)

\* terminationPreflight: what happened before we told it to stop; only then SIGTERM.
preflight ==
  /\ sup.at = "preflight"
  /\ \/ \E e \in Range(events.queue) \ {"secretReady", "ready"} :
          rejectAfterContainment(IF e = "fatal" THEN "fatal" ELSE "protocol") /\ UNCHANGED kid
     \/ events.closed /\ events.queue = <<>> /\ rejectAfterContainment("protocol") /\ UNCHANGED kid
     \/ kid.overflow /\ rejectAfterContainment("output") /\ UNCHANGED kid
     \/ kid.exit # None /\ UNCHANGED kid
        /\ \E cause \in classifyExited(sup.cause) : rejectAfterContainment(cause)
     \/ /\ ~kid.overflow /\ kid.exit = None /\ ~(events.closed /\ events.queue = <<>>)
        /\ Range(events.queue) \subseteq {"secretReady", "ready"}
        /\ \/ kid' = [kid EXCEPT !.term = TRUE] /\ sup' = [sup EXCEPT !.at = "term", !.writers = FALSE]
           \/ kid' = [kid EXCEPT !.killed = TRUE] /\ sup' = [sup EXCEPT !.at = "kill", !.cause = "stop"]
  /\ events' = [events EXCEPT !.queue = <<>>]
  /\ UNCHANGED <<loader, supply, status, pipe>>

\* Variant: a member of the group is nobody's concern.
OnlyTheLeader == kid.exit = "trusted" /\ kid.leader \in {"exited", "reaped"}

\* The exit was observed and nothing else is in the group.
groupContained == kid.exit = "trusted" /\ kid.leader \in {"exited", "reaped"} /\ ~kid.member

Reaped == kid' = [kid EXCEPT !.leader = "reaped"]

\* Variant: a child that was told to stop has stopped cleanly.
StoppedIsClean == sup.clean

\* classifyTerminatedControlWorker
stopResult == IF kid.overflow THEN "output" ELSE IF kid.code = 0 THEN sup.clean ELSE "stop"

\* The loop of terminateControlWorker after SIGTERM.
terminateControlWorker ==
  /\ sup.at = "term"
  /\ \/ /\ groupContained
        /\ ~\E e \in Range(events.queue) : e \in {"fatal", "stray"}
        /\ events.closed
        /\ Reaped
        /\ sup' = ReturnWith(stopResult)
     \/ /\ groupContained /\ ~events.closed       \* not closed within exitClassificationGrace
        /\ rejectAfterContainment("protocol") /\ UNCHANGED kid
     \/ \E e \in Range(events.queue) \cap {"fatal", "stray"} :
          rejectAfterContainment(IF e = "fatal" THEN "fatal" ELSE "protocol") /\ UNCHANGED kid
     \/ kid.overflow /\ rejectAfterContainment("output") /\ UNCHANGED kid
     \/ kid' = [kid EXCEPT !.killed = TRUE] /\ sup' = [sup EXCEPT !.at = "kill", !.cause = "stop"]
  /\ UNCHANGED <<loader, supply, status, pipe, events>>

\* containWithoutTerm: the child may end by itself within anomalyGrace.
containWithoutTerm ==
  /\ sup.at = "contain"
  /\ \/ groupContained /\ sup' = [sup EXCEPT !.at = "reap"] /\ UNCHANGED kid
     \/ kid' = [kid EXCEPT !.killed = TRUE] /\ sup' = [sup EXCEPT !.at = "kill"]
  /\ UNCHANGED <<loader, supply, status, pipe, events>>

\* Variant: waits for the group's end, however long it takes.
WaitsForTheGroup ==
  /\ sup.at = "kill"
  /\ groupContained /\ sup' = [sup EXCEPT !.at = "reap"] /\ UNCHANGED kid
  /\ UNCHANGED <<loader, supply, status, pipe, events>>

\* forceKillAndReap: contained within killConfirm, or errChildStop.
forceKillAndReap ==
  /\ sup.at = "kill"
  /\ \/ groupContained /\ sup' = [sup EXCEPT !.at = "reap"] /\ UNCHANGED kid
     \/ sup' = ReturnWith(IF sup.cause = "start" THEN "start" ELSE "stop") /\ UNCHANGED kid
  /\ UNCHANGED <<loader, supply, status, pipe, events>>

reapWithin ==
  /\ sup.at = "reap"
  /\ Reaped
  /\ sup' = ReturnWith(sup.cause)
  /\ UNCHANGED <<loader, supply, status, pipe, events>>

-----------------------------------------------------------------------------
(* monitorChildStatus, and the goroutine that waits for the exit *)

EventOf(byte) ==
  CASE byte = "secretReady" /\ events.seen = "open" -> byte
    [] byte = "ready" /\ events.seen = "secretReady" -> byte
    [] byte = "fatal" /\ events.seen # "closed" -> byte
    [] OTHER -> "stray"

\* Nobody receives what comes once the child is only waited for.
monitorChildStatus ==
  /\ ~events.closed /\ sup.at \notin {"contain", "kill", "reap", "returned"}
  /\ \/ /\ pipe.bytes # <<>> /\ pipe' = [pipe EXCEPT !.bytes = Tail(@)]
        /\ LET e == EventOf(Head(pipe.bytes)) IN
           events' = [queue |-> Append(events.queue, e), closed |-> e = "stray",
                      seen |-> IF e \in {"secretReady", "ready"} THEN e ELSE "closed"]
     \/ /\ pipe.bytes = <<>> /\ pipe.closed /\ UNCHANGED pipe
        /\ events' = [events EXCEPT !.closed = TRUE,
             !.queue = IF events.seen = "closed" THEN @ ELSE Append(@, "statusClosed")]
  /\ UNCHANGED <<sup, loader, supply, kid, status>>

waitPIDFD ==
  /\ kid.leader \in {"running", "exited"} /\ kid.exit = None /\ sup.at # "returned"
  /\ \/ kid.leader = "exited" /\ kid' = [kid EXCEPT !.exit = "trusted"]
     \/ kid' = [kid EXCEPT !.exit = "untrusted"]
  /\ UNCHANGED <<sup, loader, supply, status, pipe, events>>

-----------------------------------------------------------------------------
(* The child *)

\* With the supervisor everything else is over: Pdeathsig.
Alive == kid.leader = "running" /\ sup.at # "returned"
Writes(byte) == pipe' = [pipe EXCEPT !.bytes = Append(@, byte)]

BuildControlWorkerSnapshot ==
  /\ Alive /\ status.state = "open" /\ ~status.built
  /\ status' = [status EXCEPT !.built = TRUE]
  /\ UNCHANGED <<sup, loader, supply, kid, pipe, events>>

ReportControlWorkerSecretReady ==
  /\ Alive /\ status.state = "open" /\ status.built
  /\ Writes("secretReady") /\ status' = [status EXCEPT !.state = "secretReady"]
  /\ UNCHANGED <<sup, loader, supply, kid, events>>

\* Secrets that did not all come make it close its end.
BindControlWorkerSecrets ==
  /\ Alive /\ status.state = "secretReady" /\ (kid.secrets \/ ~sup.writers)
  /\ IF kid.secrets THEN status' = [status EXCEPT !.state = "secretsBound"] /\ UNCHANGED pipe
     ELSE status' = [status EXCEPT !.state = "closed"] /\ pipe' = [pipe EXCEPT !.closed = TRUE]
  /\ UNCHANGED <<sup, loader, supply, kid, events>>

ReportControlWorkerReady ==
  /\ Alive /\ status.state = "secretsBound"
  /\ Writes("ready") /\ status' = [status EXCEPT !.state = "ready"]
  /\ UNCHANGED <<sup, loader, supply, kid, events>>

\* The process ends: the kernel closes its end of the pipe.
KidExits(code) ==
  /\ kid' = [kid EXCEPT !.leader = "exited", !.code = code,
                        !.member = @ /\ ~kid.killed]
  /\ pipe' = [pipe EXCEPT !.closed = TRUE]

ExitControlWorkerFatal ==
  /\ Alive /\ status.state # "closed"
  /\ status' = [status EXCEPT !.state = "closed"]
  /\ kid' = [kid EXCEPT !.leader = "exited", !.code = 1]
  /\ pipe' = [pipe EXCEPT !.bytes = Append(@, "fatal"), !.closed = TRUE]
  /\ UNCHANGED <<sup, loader, supply, events>>

\* It closes its status and returns, when it is told to or by itself.
CloseControlWorkerChild ==
  /\ Alive
  /\ status' = [status EXCEPT !.state = "closed"]
  /\ KidExits(0)
  /\ UNCHANGED <<sup, loader, supply, events>>

KidDies ==
  /\ Alive
  /\ KidExits(1)
  /\ UNCHANGED <<sup, loader, supply, status, events>>

MemberForks ==
  /\ Alive /\ ~kid.member /\ ~kid.killed
  /\ kid' = [kid EXCEPT !.member = TRUE]
  /\ UNCHANGED <<sup, loader, supply, status, pipe, events>>

MemberGoes ==
  /\ kid.member /\ sup.at # "returned"
  /\ kid' = [kid EXCEPT !.member = FALSE]
  /\ UNCHANGED <<sup, loader, supply, status, pipe, events>>

Overflow ==
  /\ Alive /\ ~kid.overflow
  /\ kid' = [kid EXCEPT !.overflow = TRUE]
  /\ UNCHANGED <<sup, loader, supply, status, pipe, events>>

StrayByte ==
  /\ Alive /\ ~pipe.closed /\ pipe.stray < MaxStray
  /\ \E byte \in Bytes : pipe' = [pipe EXCEPT !.bytes = Append(@, byte), !.stray = @ + 1]
  /\ UNCHANGED <<sup, loader, supply, kid, status, events>>

-----------------------------------------------------------------------------
SupervisorStep ==
  \/ SourceLoaded \/ SourceUnconfirmed \/ startControlWorker \/ StartupTimeout
  \/ StartupEvent \/ StartupEnds \/ SupplyResult \/ stopSecretSupply
  \/ superviseReadyControlWorker \/ preflight \/ terminateControlWorker
  \/ containWithoutTerm \/ forceKillAndReap \/ reapWithin
LoaderStep == KillLoader \/ supplySecrets \/ SupplyUnconfirmed

KidStep ==
  \/ BuildControlWorkerSnapshot \/ ReportControlWorkerSecretReady \/ BindControlWorkerSecrets
  \/ ReportControlWorkerReady \/ ExitControlWorkerFatal \/ CloseControlWorkerChild \/ KidDies
  \/ MemberForks \/ MemberGoes \/ Overflow \/ StrayByte

SupervisorNext ==
  \/ StopSignal \/ SupervisorStep \/ LoaderStep \/ LoaderExits \/ SecretsArrive
  \/ monitorChildStatus \/ waitPIDFD \/ KidStep

SupervisorSpec == SupervisorInit /\ [][SupervisorNext]_supervisorVars

-----------------------------------------------------------------------------
(* Unless Run says that it could not stop the child (errChildStop), or that it could not start
   it, nothing of the child is left when it returns (rejectAfterContainment, reapWithin). *)
ReturnedMeansGone ==
  sup.result \in (Causes \ {"start"}) \cup {"nil"} => kid.leader = "reaped" /\ ~kid.member

(* Run returns without an error only when it was asked to stop and the child then ended by
   itself, cleanly and without having failed (terminationPreflight, terminateControlWorker). *)
CleanStopIsClean == sup.result = "nil" => sup.cancelled /\ kid.term /\ kid.code = 0

(* A child is taken to be ready only with its secrets, all from a helper that is gone and left
   nothing behind (childEventReady, finalizeSourceLoader). *)
ReadyHasSecrets == sup.at = "ready" => kid.secrets /\ loader.proc = "gone" /\ ~loader.left

(* A supervisor that was told to stop waits for neither the child nor the helpers without a
   timeout: until it has returned, it or the supply of secrets can go on by itself
   (cancelAndWait, containWithoutTerm, forceKillAndReap). *)
StopNeverWaits ==
  sup.cancelled /\ sup.at # "returned" => (ENABLED SupervisorStep) \/ (ENABLED LoaderStep)

(* Run of the control worker's supervisor: ready means with secrets, returned means gone, no
   error means a clean stop, and a stop never waits (runControlWorkerSupervisor). *)
SupervisorSafety == ReturnedMeansGone /\ CleanStopIsClean /\ ReadyHasSecrets /\ StopNeverWaits
=============================================================================
