--------------------------- MODULE IsolatedExecutor ---------------------------
(***************************************************************************)
(* internal/isolatedexec and internal/executoripc: a write is executed by  *)
(* a process of its own, which is told to prepare, says that it is ready,  *)
(* is sent the credential (GO) and answers with a result.  Whatever goes   *)
(* wrong, the supervisor ends the process and its process group, and says  *)
(* whether it is certain of that and whether GO may have been sent.        *)
(*                                                                         *)
(* Pipes are written and read by goroutines: GO may still be written after *)
(* the caller gave up waiting, until the pipes are closed.                 *)
(***************************************************************************)
EXTENDS Values, Integers, FiniteSets

CONSTANTS
  Jobs,      \* sessions: Prepared
  ExecutorResults    \* what an executor may find

VARIABLES
  boundary,  \* runtimeBoundary
  session,   \* Prepared, and the call that works on it
  proc,      \* childProcess and its group
  serve      \* executoripc.Serve, in the child

executorVars == <<boundary, session, proc, serve>>

\* went: GO was or may have been sent.
completion(result, went, confirmed) == [result |-> result, went |-> went, confirmed |-> confirmed]
uncertainResult == "uncertain"
SafeToRelease(c) == ~c.went /\ c.confirmed

Answers == [result : ExecutorResults \cup {uncertainResult}, went : BOOLEAN, confirmed : BOOLEAN]
AfterEnd == {"reject", "abort", "beforeGO", "afterGO", "forced"}

\* step: what the call waits for.  "term" and "kill" are the two waits of terminate, "clean"
\* that of awaitCleanExit; then says what terminate was called for.
Prepared ==
  [state : {None, "preparing", "ready", "executing", "completed", "aborted"},
   step : {None, "ready", "result", "clean", "term", "kill"}, then : AfterEnd \cup {None},
   result : ExecutorResults \cup {uncertainResult, None}, answer : Answers \cup {None}]

\* leader: the executor; member: another process of its group, which the supervisor adopts
\* when the leader is gone.  pollFailed: the exit could not be observed.  directory: stillborn is
\* one that was made, found unfit and not removed, in which no executor was ever started.
childProcess ==
  [leader : {"none", "running", "exited", "reaped"}, failed : BOOLEAN,
   member : {"none", "running", "zombie"}, pollFailed : BOOLEAN, killed : BOOLEAN,
   pipes : {"none", "open", "closed"}, directory : {"none", "job", "stillborn"}, cleanupErr : BOOLEAN,
   overflow : BOOLEAN]

ExecutorTypeOK ==
  /\ boundary \in [active : 0..1, closed : BOOLEAN]
  /\ session \in [Jobs -> Prepared]
  /\ proc \in [Jobs -> childProcess]
  /\ serve \in [Jobs -> [at : {"prepare", "waiting", "working", "over"},
                         response : {None, "ready"} \cup ExecutorResults \cup {uncertainResult},
                         go : BOOLEAN, done : ExecutorResults \cup {None}]]

ExecutorInit ==
  /\ boundary = [active |-> 0, closed |-> FALSE]
  /\ session = [x \in Jobs |-> [state |-> None, step |-> None, then |-> None, result |-> None, answer |-> None]]
  /\ proc = [x \in Jobs |-> [leader |-> "none", failed |-> FALSE, member |-> "none", pollFailed |-> FALSE,
                             killed |-> FALSE, pipes |-> "none", directory |-> "none",
                             cleanupErr |-> FALSE, overflow |-> FALSE]]
  /\ serve = [x \in Jobs |-> [at |-> "prepare", response |-> None, go |-> FALSE, done |-> None]]

-----------------------------------------------------------------------------
(* The supervisor *)

\* One job at a time, and none once it is closed.
reserveJob == ~boundary.closed /\ boundary.active = 0

\* The directory is made and the process started.  If no fit directory can be made the reservation
\* goes, whether or not the unfit one could be removed; if the start fails, the directory goes and
\* the reservation with it, unless it cannot be removed.
startProcess(x) ==
  /\ session[x].state = None /\ reserveJob
  /\ \/ /\ boundary' = [boundary EXCEPT !.active = 1]
        /\ session' = [session EXCEPT ![x].state = "preparing", ![x].step = "ready"]
        /\ proc' = [proc EXCEPT ![x].leader = "running", ![x].pipes = "open", ![x].directory = "job"]
     \/ \E left \in {"none", "stillborn"} :
          /\ proc' = [proc EXCEPT ![x].directory = left]
          /\ session' = [session EXCEPT ![x].state = "aborted",
               ![x].answer = completion(uncertainResult, FALSE, TRUE)]
          /\ UNCHANGED boundary
     \/ \E removed \in BOOLEAN :
          /\ boundary' = [boundary EXCEPT !.active = IF removed THEN 0 ELSE 1]
          /\ proc' = [proc EXCEPT ![x].directory = IF removed THEN "none" ELSE "job"]
          /\ session' = [session EXCEPT ![x].state = "aborted",
               ![x].answer = completion(uncertainResult, FALSE, removed)]
  /\ UNCHANGED serve

Close ==
  /\ ~boundary.closed /\ boundary.active = 0
  /\ boundary' = [boundary EXCEPT !.closed = TRUE]
  /\ UNCHANGED <<session, proc, serve>>

\* terminate: the pipes are closed and the group is sent SIGTERM.
terminate(x, then) ==
  /\ session' = [session EXCEPT ![x].step = "term", ![x].then = then]
  /\ proc' = [proc EXCEPT ![x].pipes = "closed"]

\* ReadReady
PrepareExecutor(x) ==
  /\ session[x].step = "ready" /\ serve[x].response = "ready" /\ proc[x].pipes = "open"
  /\ session' = [session EXCEPT ![x].state = "ready", ![x].step = None]
  /\ serve' = [serve EXCEPT ![x].response = None]
  /\ UNCHANGED <<boundary, proc>>

\* It took too long, the process ended or wrote too much.
rejectPreparation(x) ==
  /\ session[x].step = "ready"
  /\ terminate(x, "reject")
  /\ UNCHANGED <<boundary, serve>>

Abort(x) ==
  /\ session[x].state = "ready"
  /\ session' = [session EXCEPT ![x].state = "aborted", ![x].step = "term", ![x].then = "abort"]
  /\ proc' = [proc EXCEPT ![x].pipes = "closed"]
  /\ UNCHANGED <<boundary, serve>>

\* The grant is bound to this very request, or nothing is sent.
Execute(x) ==
  /\ session[x].state = "ready"
  /\ \/ /\ session' = [session EXCEPT ![x].state = "executing", ![x].step = "result"]
        /\ UNCHANGED proc
     \/ /\ session' = [session EXCEPT ![x].state = "executing", ![x].step = "term", ![x].then = "beforeGO"]
        /\ proc' = [proc EXCEPT ![x].pipes = "closed"]
  /\ UNCHANGED <<boundary, serve>>

\* The goroutine that sends the credential, while the pipe is open.
WriteGo(x) ==
  /\ session[x].state = "executing" /\ session[x].then # "beforeGO"
  /\ proc[x].pipes = "open" /\ ~serve[x].go
  /\ serve' = [serve EXCEPT ![x].go = TRUE]
  /\ UNCHANGED <<boundary, session, proc>>

\* The deadline, a broken or foreign answer, too much output.
uncertainAfterGO(x) ==
  /\ session[x].step = "result"
  /\ terminate(x, "afterGO")
  /\ UNCHANGED <<boundary, serve>>

ReadResult(x) ==
  /\ session[x].step = "result" /\ serve[x].go /\ proc[x].pipes = "open"
  /\ serve[x].response \in ExecutorResults \cup {uncertainResult}
  /\ session' = [session EXCEPT ![x].result = serve[x].response, ![x].step = "clean"]
  /\ proc' = [proc EXCEPT ![x].pipes = "closed"]
  /\ UNCHANGED <<boundary, serve>>

-----------------------------------------------------------------------------
(* The end of the process *)

\* The leader's exit was observed and nothing else is in its group; what was adopted is
\* reaped only after SIGKILL.
terminationConfirmed(x, reapAdopted) ==
  /\ proc[x].leader \in {"exited", "reaped"} /\ ~proc[x].pollFailed
  /\ proc[x].member = "none" \/ (reapAdopted /\ proc[x].member = "zombie")

\* Variant: the place is free although the directory is still there.
ReleasesAnyway(x, removed) ==
  /\ removed => ~proc[x].cleanupErr
  /\ proc' = [proc EXCEPT ![x].leader = "reaped", ![x].member = "none",
                          ![x].directory = IF removed THEN "none" ELSE @, ![x].cleanupErr = ~removed]
  /\ boundary' = [boundary EXCEPT !.active = 0]

\* cleanup: the directory is removed, and the job's place is free; or it stays taken, and
\* that is not tried again.
cleaned(x, removed) ==
  /\ removed => ~proc[x].cleanupErr
  /\ proc' = [proc EXCEPT ![x].leader = "reaped", ![x].member = "none",
                          ![x].directory = IF removed THEN "none" ELSE @, ![x].cleanupErr = ~removed]
  /\ boundary' = IF removed /\ proc[x].directory = "job" THEN [boundary EXCEPT !.active = 0] ELSE boundary

\* What the caller, or every caller, is told.
Answer(x, c) ==
  session' = [session EXCEPT ![x].step = None, ![x].answer = c,
    ![x].state = IF @ = "executing" THEN "completed" ELSE "aborted"]

\* After terminate; nothing is known of the result.
Terminated(x, confirmed) ==
  Answer(x, completion(uncertainResult, session[x].then \in {"afterGO", "forced"}, confirmed))

waitForTermination(x) ==
  /\ session[x].step \in {"term", "kill"}
  /\ terminationConfirmed(x, session[x].step = "kill")
  /\ \E removed \in BOOLEAN : cleaned(x, removed) /\ Terminated(x, removed)
  /\ UNCHANGED serve

\* termGrace is over: SIGKILL to the group.
Kill(x) ==
  /\ session[x].step = "term"
  /\ session' = [session EXCEPT ![x].step = "kill"]
  /\ proc' = [proc EXCEPT ![x].killed = TRUE]
  /\ UNCHANGED <<boundary, serve>>

\* killConfirmTimeout is over: the job's place and its directory stay taken.
Unconfirmed(x) ==
  /\ session[x].step = "kill"
  /\ Terminated(x, FALSE)
  /\ UNCHANGED <<boundary, proc, serve>>

\* Variant: takes the result without looking at how the process ended.
TakesResult(x) ==
  /\ session[x].step = "clean"
  /\ Answer(x, completion(session[x].result, TRUE, TRUE))
  /\ UNCHANGED <<boundary, proc, serve>>

\* The result stands only if the executor then ended by itself, without an error, in time,
\* and left nothing behind.
awaitCleanExit(x) ==
  /\ session[x].step = "clean" /\ terminationConfirmed(x, FALSE)
  /\ \E removed, late \in BOOLEAN :
       /\ cleaned(x, removed)
       /\ IF removed /\ ~late /\ ~proc[x].failed /\ ~proc[x].overflow
          THEN Answer(x, completion(session[x].result, TRUE, TRUE))
          ELSE IF removed THEN Answer(x, completion(uncertainResult, TRUE, TRUE))
          ELSE session' = [session EXCEPT ![x].step = "term", ![x].then = "forced"]
  /\ UNCHANGED serve

\* exitTimeout or the deadline.
NoCleanExit(x) ==
  /\ session[x].step = "clean"
  /\ terminate(x, "forced")
  /\ UNCHANGED <<boundary, serve>>

-----------------------------------------------------------------------------
(* The executor: Serve *)

Running(x) == proc[x].leader = "running"

\* The request is well formed, current and one its handler takes.
ServeReady(x) ==
  /\ Running(x) /\ serve[x].at = "prepare" /\ proc[x].pipes = "open"
  /\ serve' = [serve EXCEPT ![x].at = "waiting", ![x].response = "ready"]
  /\ UNCHANGED <<boundary, session, proc>>

\* The credential is read and the handler called.
ServeGo(x) ==
  /\ Running(x) /\ serve[x].at = "waiting" /\ serve[x].go
  /\ serve' = [serve EXCEPT ![x].at = "working"]
  /\ UNCHANGED <<boundary, session, proc>>

\* The handler's result; an error, a panic or a cancelled context make it unknown.
executeSafely(x) ==
  /\ Running(x) /\ serve[x].at = "working"
  /\ \E result \in ExecutorResults, unknown \in BOOLEAN :
       serve' = [serve EXCEPT ![x].at = "over", ![x].done = result,
         ![x].response = IF unknown THEN uncertainResult ELSE result]
  /\ UNCHANGED <<boundary, session, proc>>

\* The process ends, by itself or because it is told to.
ProcessExits(x) ==
  /\ Running(x)
  /\ \E failed \in BOOLEAN :
       proc' = [proc EXCEPT ![x].leader = "exited", ![x].failed = failed,
         ![x].member = IF @ = "running" /\ proc[x].killed THEN "zombie" ELSE @]
  /\ UNCHANGED <<boundary, session, serve>>

MemberStarts(x) ==
  /\ Running(x) /\ proc[x].member = "none" /\ ~proc[x].killed
  /\ proc' = [proc EXCEPT ![x].member = "running"]
  /\ UNCHANGED <<boundary, session, serve>>

MemberExits(x) ==
  /\ proc[x].member = "running"
  /\ \E left \in {"none", "zombie"} :
       (left = "none" => Running(x)) /\ proc' = [proc EXCEPT ![x].member = left]
  /\ UNCHANGED <<boundary, session, serve>>

PollFails(x) ==
  /\ proc[x].leader \in {"running", "exited"} /\ ~proc[x].pollFailed /\ session[x].answer = None
  /\ proc' = [proc EXCEPT ![x].pollFailed = TRUE]
  /\ UNCHANGED <<boundary, session, serve>>

\* outputBudget
Overflows(x) ==
  /\ Running(x) /\ ~proc[x].overflow
  /\ proc' = [proc EXCEPT ![x].overflow = TRUE]
  /\ UNCHANGED <<boundary, session, serve>>

-----------------------------------------------------------------------------
CallStep(x) ==
  \/ rejectPreparation(x) \/ uncertainAfterGO(x) \/ Kill(x) \/ Unconfirmed(x) \/ NoCleanExit(x)
  \/ waitForTermination(x) \/ awaitCleanExit(x)

ExecutorNext ==
  \/ Close
  \/ \E x \in Jobs :
       \/ startProcess(x) \/ PrepareExecutor(x) \/ Abort(x) \/ Execute(x) \/ WriteGo(x) \/ ReadResult(x)
       \/ CallStep(x)
       \/ ServeReady(x) \/ ServeGo(x) \/ executeSafely(x)
       \/ ProcessExits(x) \/ MemberStarts(x) \/ MemberExits(x) \/ PollFails(x) \/ Overflows(x)

ExecutorSpec == ExecutorInit /\ [][ExecutorNext]_executorVars

-----------------------------------------------------------------------------
(* What is released as untouched never reached its handler, and never will: the executor did
   not get the credential and none of its processes is left (SafeToRelease, terminate). *)
ReleasedIsUntouched ==
  \A x \in Jobs : session[x].answer # None /\ SafeToRelease(session[x].answer) =>
    /\ serve[x].at \notin {"working", "over"} /\ serve[x].done = None
    /\ proc[x].leader \in {"none", "reaped"} /\ proc[x].member = "none"

(* A certain result is the one the handler returned, and nothing of the executor runs on
   (executeSafely, ReadResult, awaitCleanExit). *)
CertainResultIsFinal ==
  \A x \in Jobs : session[x].answer # None /\ session[x].answer.result # uncertainResult =>
    /\ serve[x].done = session[x].answer.result
    /\ proc[x].leader = "reaped" /\ proc[x].member = "none" /\ proc[x].directory = "none"

\* Something of a job is left: a process, or the directory it was started in.
Remains(x) == proc[x].leader \notin {"none", "reaped"} \/ proc[x].member # "none" \/ proc[x].directory = "job"

(* The place of a job is free only when nothing of the last one is left, neither process nor
   directory, and so executors never run side by side; what may be left is a directory that was
   found unfit before anything was started in it (reserveJob, startProcess, cleaned). *)
PlaceIsFree ==
  /\ boundary.active = 0 => \A x \in Jobs : ~Remains(x)
  /\ \A x, y \in Jobs : Remains(x) /\ Remains(y) => x = y
  /\ \A x \in Jobs : proc[x].directory = "stillborn" => proc[x].leader = "none" /\ serve[x].done = None

(* What the runner is told of an isolated job holds of its processes: nothing was touched, the
   result is final, or the place stays taken (session.go, process.go). *)
ExecutorSafety == ReleasedIsUntouched /\ CertainResultIsFinal /\ PlaceIsFree
=============================================================================
