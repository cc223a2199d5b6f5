---------------------------- MODULE MCResilience ----------------------------
(* Small instances of HyperResilience for TLC. *)
EXTENDS HyperResilience, TLC

CONSTANTS a, t1, t2

OneService == {a}
AddressableServices == {a}
TwoThreads == {t1, t2}
=============================================================================
