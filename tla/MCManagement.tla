---------------------------- MODULE MCManagement ----------------------------
(* Parts that share nothing, each by itself.  The management API: two operators and one asset,
   in any stage, with two requests; a reader that lists two assets while one request is under
   way; and two managers of one source with three requests.  And the credential ledger with a
   broker, Vault, a revocation worker and two operators. *)
EXTENDS AssetApi, SourceApi, CredentialIssuance, TLC

VARIABLE half
allVars == <<half, apiVars, sourceApiVars, vars>>

\* Only one part is given room to begin with anything but its plainest state.
Plain(a) == rows[a].version = 0 /\ rows[a].name = 1

WriteInit == left = 2 /\ (\A r \in Readers : tokens[r] = "ADMIN") /\ Plain(2) /\ rows[1].name = 1

ListInit ==
  /\ left = 1 /\ (\E a \in Assets : rows[a].name = 1)
  /\ \A a \in Assets : /\ rows[a].version # 0 /\ disputes[a].status # "OPEN"
                       /\ bindings[a].id = 1 => bindings[a].active

IdleApi ==
  /\ left = 1 /\ (\A r \in Readers : tokens[r] = "ADMIN") /\ \A a \in Assets : Plain(a)

MCInit ==
  /\ half \in {"write", "list", "source", "credentials"}
  /\ Init /\ ApiInit /\ \A o \in Operators : tokens[o] = "ADMIN"
  /\ SourceApiInit /\ \A o \in Managers : badges[o] = "recent"
  /\ half # "source" => plans[1].status = "DRAFT"
  /\ CASE half = "write" -> WriteInit
       [] half = "list" -> ListInit
       [] half \in {"source", "credentials"} -> IdleApi

MCNext ==
  /\ UNCHANGED half
  /\ \/ half \in {"write", "list"} /\ RequestNext /\ UNCHANGED <<sourceApiVars, vars>>
     \/ half \in {"write", "list"} /\ DriftNext /\ UNCHANGED <<sourceApiVars, vars>>
     \/ half = "list" /\ ListNext /\ UNCHANGED <<sourceApiVars, vars>>
     \/ half = "source" /\ SourceApiNext /\ UNCHANGED <<apiVars, vars>>
     \/ half = "credentials" /\ Next /\ UNCHANGED <<apiVars, sourceApiVars>>

MCSpec == MCInit /\ [][MCNext]_allVars


\* The managers are the operators and the keys the same keys.
MCSymmetry == Permutations(Operators) \cup Permutations(ApiKeys)
=============================================================================
