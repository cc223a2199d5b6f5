---------------------------- MODULE AdmissionGate ----------------------------
(***************************************************************************)
(* What DrainGuard promises of requests and SpawnGuard of sub-agents,      *)
(* without permits, queues, counters and notifications: at most Capacity   *)
(* guests are inside at a time, each comes in once, none comes in once the *)
(* gate is closing, and the gate is drained only when the last one inside  *)
(* has left. Several guests may go at once.                                *)
(***************************************************************************)
EXTENDS Integers, FiniteSets

CONSTANTS Guests, Capacity

VARIABLES
  phase,   \* "open", "closing" or "drained"
  inside,  \* guests who have been let in and have not left
  past     \* guests who have left or were turned away

gateVars == <<phase, inside, past>>

GateInit ==
  /\ phase = "open"
  /\ inside = {}
  /\ past = {}

Enter(g) ==
  /\ phase = "open"
  /\ g \notin inside \cup past
  /\ Cardinality(inside) < Capacity
  /\ inside' = inside \cup {g}
  /\ UNCHANGED <<phase, past>>

\* Those of gs who are inside leave, the others are turned away.
Depart(gs) ==
  /\ inside' = inside \ gs
  /\ past' = past \cup gs
  /\ UNCHANGED phase

Close ==
  /\ phase = "open"
  /\ phase' = "closing"
  /\ UNCHANGED <<inside, past>>

Drain ==
  /\ phase = "closing"
  /\ inside = {}
  /\ phase' = "drained"
  /\ UNCHANGED <<inside, past>>

GateNext ==
  \/ \E g \in Guests : Enter(g)
  \/ \E gs \in SUBSET Guests : Depart(gs)
  \/ Close
  \/ Drain

GateSpec == GateInit /\ [][GateNext]_gateVars
=============================================================================
