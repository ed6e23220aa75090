---------------------------- MODULE VsphereProbe ----------------------------
(* The validation of a vSphere source: one session with the vCenter, in which its
   identity, the session's user, the privileges on the roots of the source and the roots
   themselves are read, and which is closed before the proof is returned.  Calls fail,
   time out on either side of their effect, and the caller may give up. *)
EXTENDS Integers, FiniteSets, Values

CONSTANTS
  Roots,      \* the roots of the source's authority
  Foreign,    \* other entities a vCenter may speak of
  MaxProbes   \* bound on the validations

VARIABLES
  sessions,  \* the sessions the vCenter holds
  probe,     \* the validation under way
  logins,    \* the sessions ever opened
  strays,    \* sessions whose login was never answered
  answered,  \* the last validation's proof, None for an error, and its session
  probes

probeVars == <<sessions, probe, logins, strays, answered, probes>>

Privileges == {"read", "view", "write"}
requiredReadPrivileges == {"read", "view"}
NoProbe == [at |-> "none", peer |-> 0, session |-> 0, proof |-> None, gone |-> FALSE]

Said(proof, session) == [proof |-> proof, session |-> session]

ProbeInit == sessions = {} /\ probe = NoProbe /\ logins = 0 /\ strays = {} /\ answered = Said(None, 0) /\ probes = 0

FailedCheck(check) == [outcome |-> "FAILED", check |-> check]
SucceededProof == [outcome |-> "SUCCEEDED", check |-> "none"]

\* What a failed opening says of the source; some failures say nothing.
validationFailureForClientError(stage) ==
  IF stage \in {"identity", "trust", "network", "credential"} THEN FailedCheck(stage) ELSE None

-----------------------------------------------------------------------------
(* Opening. *)

ValidateVsphere ==
  /\ probe.at = "none" /\ probes < MaxProbes
  /\ probe' = [NoProbe EXCEPT !.at = "content"] /\ probes' = probes + 1
  /\ UNCHANGED <<sessions, logins, strays, answered>>

CallerGivesUp ==
  /\ probe.at # "none" /\ ~probe.gone
  /\ probe' = [probe EXCEPT !.gone = TRUE]
  /\ UNCHANGED <<sessions, logins, strays, answered, probes>>

Ends(proof) ==
  /\ answered' = Said(proof, 0) /\ probe' = NoProbe
  /\ UNCHANGED <<sessions, logins, strays, probes>>

\* A failed opening: no session was handed over, so the logout that is tried ends none.
OpeningFails(stage) == Ends(IF probe.gone THEN None ELSE validationFailureForClientError(stage))

\* The certificate of the first connection must be that of every other.
SamePeer(p) == probe.peer \in {0, p}

\* The service content: over a trusted connection, complete, of the right vCenter.
RetrieveServiceContent(p, fault) ==
  /\ probe.at = "content"
  /\ IF fault # "none" THEN OpeningFails(fault)
     ELSE /\ probe' = [probe EXCEPT !.at = "login", !.peer = p]
          /\ UNCHANGED <<sessions, logins, strays, answered, probes>>

\* Refused, answered, or carried out without an answer.
Login(p, how) ==
  /\ probe.at = "login"
  /\ IF ~SamePeer(p) THEN OpeningFails("trust")
     ELSE IF how = "refused" THEN OpeningFails("credential")
     ELSE LET id == logins + 1
          IN  /\ logins' = id /\ sessions' = sessions \cup {id} /\ UNCHANGED probes
              /\ IF how = "answered"
                 THEN /\ probe' = [probe EXCEPT !.at = "user", !.session = id]
                      /\ UNCHANGED <<strays, answered>>
                 ELSE /\ strays' = strays \cup {id} /\ probe' = NoProbe
                      /\ answered' = Said(IF probe.gone THEN None ELSE FailedCheck("credential"), id)

-----------------------------------------------------------------------------
(* The reads. *)

\* A read is over: the next one, or the end of the session with what there is to say.
Reads(at, next) ==
  /\ probe.at = at
  /\ probe' = IF probe.gone THEN [probe EXCEPT !.at = "closing", !.proof = None] ELSE next
  /\ UNCHANGED <<sessions, logins, strays, answered, probes>>
Concludes(proof) == [probe EXCEPT !.at = "closing", !.proof = proof]
Continues(at) == [probe EXCEPT !.at = at]

CurrentSession(p, known) ==
  Reads("user", IF known /\ SamePeer(p) THEN Continues("privileges") ELSE Concludes(FailedCheck("credential")))

\* The privileges on exactly the roots, the required ones among them.
validatePrivilegeSnapshots(snapshots) ==
  /\ DOMAIN snapshots = Roots
  /\ \A r \in Roots : requiredReadPrivileges \subseteq snapshots[r]
EffectivePrivileges(p, snapshots) ==
  Reads("privileges", IF snapshots = None \/ ~SamePeer(p) THEN Concludes(None)
                      ELSE IF validatePrivilegeSnapshots(snapshots) THEN Continues("roots")
                      ELSE Concludes(FailedCheck("fixed_probe")))

validateRootProbe(objects) == objects = Roots
ProbeRoots(p, objects) ==
  Reads("roots", IF objects = None \/ ~SamePeer(p) THEN Concludes(None)
                 ELSE IF validateRootProbe(objects) THEN Concludes(SucceededProof)
                 ELSE Concludes(FailedCheck("fixed_probe")))

-----------------------------------------------------------------------------
(* Closing: under a context of its own, whatever became of the caller's. *)

ProofAnyway(proof, logout) == proof
\* A session that may still be open takes the proof with it.
Closed(proof, logout) == IF logout = "done" THEN proof ELSE None

Close(logout) ==
  /\ probe.at = "closing"
  /\ answered' = Said(Closed(probe.proof, logout), probe.session)
  /\ sessions' = IF logout = "refused" THEN sessions ELSE sessions \ {probe.session}
  /\ probe' = NoProbe
  /\ UNCHANGED <<logins, strays, probes>>

\* Idle sessions end by themselves.
SessionExpires ==
  /\ \E s \in sessions \ {probe.session} : sessions' = sessions \ {s}
  /\ UNCHANGED <<probe, logins, strays, answered, probes>>

RootSnapshots == UNION {[E -> SUBSET Privileges] : E \in {Roots} \cup {Roots \ {r} : r \in Roots} \cup {Roots \cup Foreign}}

ProbeNext ==
  \/ ValidateVsphere
  \/ CallerGivesUp
  \/ \E p \in {1, 2} :
       \/ \E fault \in {"none", "identity", "trust", "network", "protocol"} : RetrieveServiceContent(p, fault)
       \/ \E how \in {"refused", "answered", "unanswered"} : Login(p, how)
       \/ \E known \in BOOLEAN : CurrentSession(p, known)
       \/ \E snapshots \in RootSnapshots \cup {None} : EffectivePrivileges(p, snapshots)
       \/ \E objects \in SUBSET (Roots \cup Foreign) \cup {None} : ProbeRoots(p, objects)
  \/ \E logout \in {"done", "unanswered", "refused"} : Close(logout)
  \/ SessionExpires

-----------------------------------------------------------------------------
(* Properties. *)

\* Once a validation has returned a proof the vCenter holds no session of it, whatever
\* failed and whether or not the caller was still there; the one exception is a login
\* that was carried out and never answered, whose session nobody can name (Validate's
\* deferred Close, Close).
ProofLeavesNoSession == answered.proof # None => answered.session \notin sessions \ strays
=============================================================================
