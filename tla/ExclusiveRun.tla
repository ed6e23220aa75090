---------------------------- MODULE ExclusiveRun ----------------------------
(***************************************************************************)
(* What a queue of leased work promises its clients, whatever its leases,  *)
(* clocks, retries and sweeps do: the items that are on hold or running    *)
(* never share a target, an item that runs never goes back to the queue    *)
(* and is never run again, and an item that is done stays done.            *)
(*                                                                         *)
(* One step may move several items: a call of the queue first collects     *)
(* what has expired and then does its own work.                            *)
(***************************************************************************)

CONSTANTS
  Works,    \* identifiers of work items
  Targets   \* what they work on

VARIABLES
  phase,    \* where each item is
  target    \* the target of each item, fixed when it is submitted

vars == <<phase, target>>

Phases == {"absent", "waiting", "held", "running", "done"}
Holding == {"held", "running"}

\* The ways of an item through the queue.
Moves ==
  {<<"absent", "waiting">>,
   <<"waiting", "held">>, <<"held", "waiting">>, <<"held", "running">>,
   <<"waiting", "done">>, <<"held", "done">>, <<"running", "done">>}

Init ==
  /\ phase = [w \in Works |-> "absent"]
  /\ target \in [Works -> Targets]

\* Nothing else holds the target of w when the step is over.
Alone(w) ==
  \A v \in Works \ {w} : phase'[v] \in Holding => target'[v] # target'[w]

Step ==
  /\ phase' \in [Works -> Phases]
  /\ target' \in [Works -> Targets]
  /\ \A w \in Works :
       /\ phase'[w] = phase[w] \/ <<phase[w], phase'[w]>> \in Moves
       /\ phase[w] # "absent" => target'[w] = target[w]
       /\ phase[w] \notin Holding /\ phase'[w] \in Holding => Alone(w)

Spec == Init /\ [][Step]_vars

\* The promise in one sentence: two items at work have different targets.
Exclusive ==
  \A v, w \in Works :
    v # w /\ phase[v] \in Holding /\ phase[w] \in Holding => target[v] # target[w]
=============================================================================
