---------------------------- MODULE MCActionQueue ----------------------------
EXTENDS ActionQueue

CONSTANTS a1, a2, t1, t2, r1, r2, n1

Sub(id, key, target, pool, expires) ==
  [id |-> id, key |-> key, semantics |-> "s", target |-> target, pool |-> pool,
   production |-> FALSE, zone |-> "z", expires |-> expires]
Scp(r, pool) == [runner |-> r, pool |-> pool, max |-> 1, zones |-> {"z"}]

\* A write, and a second job: a write of the same target or of another, a
\* production write, which no runner may claim, or a read that presents the
\* idempotency key of the first.
ContendedSubmissions ==
  {Sub(a1, "k1", t1, "WRITE", 4), Sub(a2, "k2", t1, "WRITE", 3),
   Sub(a2, "k2", t2, "WRITE", 3), Sub(a2, "k1", t2, "READ", 3),
   [Sub(a2, "k3", t1, "WRITE", 3) EXCEPT !.production = TRUE]}
ContendedScopes == {Scp(r1, "WRITE"), Scp(r2, "WRITE"), Scp(r2, "READ")}

MCSummaries ==
  {[outcome |-> "SUCCEEDED", code |-> "x"], [outcome |-> "UNCERTAIN", code |-> "x"]}
MCReconciliations == {[id |-> "c1", actor |-> "o", verdict |-> "FAILED", digest |-> "d"]}
=============================================================================
