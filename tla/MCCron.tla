------------------------------- MODULE MCCron -------------------------------
(* Small instances of Cron for TLC. *)
EXTENDS Cron, TLC

CONSTANTS s1, s2, j1, j2

\* Fire times 1 and 2 for the first job, 2 for the second; then never again.
MCNextFire ==
  (j1 :> [t \in Times |-> IF t < 1 THEN 1 ELSE IF t < 2 THEN 2 ELSE Never]) @@
  (j2 :> [t \in Times |-> IF t < 2 THEN 2 ELSE Never])

OneJobNextFire == [j \in {j1} |-> MCNextFire[j]]
=============================================================================
