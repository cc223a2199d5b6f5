--------------------------- MODULE SubAgentsProofs ---------------------------
(***************************************************************************)
(* The safety of the sub-agents for any number of calls and batches and    *)
(* any limits: the budget counts, the breaker is honoured, and the agent   *)
(* tree follows the spawns.                                                *)
(***************************************************************************)
EXTENDS SubAgents, FiniteSetTheorems, TLAPS

\* Stages of a call that counts in the budget.
Held == Guarded \cup {"rollback"}

\* What a stage says of the spawn's node and inbox: a spawn is registered, gets
\* its inbox, is activated, reaches its end and loses both, in this order.
Tracks(stage, outcome, n, inboxed) ==
  /\ stage \in {"queued", "gate", "rollback", "lookup"} => n = NoNode /\ ~inboxed
  /\ stage = "delegate" => n = "Registered" /\ ~inboxed
  /\ stage = "activate" => n = "Registered" /\ inboxed
  /\ stage \in {"chat", "completed", "errored"} => n = "Active" /\ inboxed
  /\ stage = "unregister" => n \in Terminal /\ inboxed
  /\ stage = "inbox" => n = NoNode /\ inboxed
  /\ stage \in {"report"} \cup Over /\ outcome # "abandoned" => n = NoNode /\ ~inboxed

StagesTracked ==
  \A p \in Calls : Tracks(call[p].at, call[p].outcome, node[p], p \in inboxes)

\* The inductive invariant.
Inv ==
  /\ TypeOK
  /\ GuardsCounted
  /\ StagesTracked
  /\ BreakerHonoured

CallStates == [at : {"queued"} \cup Running \cup Over, hung : BOOLEAN,
               retries : 0..MaxRetries, outcome : Outcomes]

-----------------------------------------------------------------------------
(* Steps *)

\* Everything a call does by itself, before its result is collected.
OwnStep(p) == Admit(p) \/ SpawnStep(p) \/ TimesOut(p) \/ Hangs(p)

\* A call that takes a turn: where it is afterwards, and the others.
LEMMA Turned ==
  ASSUME TypeOK, NEW p \in Calls, NEW c \in CallStates, call' = [call EXCEPT ![p] = c]
  PROVE  /\ call' \in [Calls -> CallStates]
         /\ call'[p] = c
         /\ \A q \in Calls \ {p} : call'[q] = call[q]
BY DEF TypeOK, CallStates

\* A turn to a stage of the machine is a state of a call.
LEMMA TurnTyped ==
  ASSUME TypeOK, NEW p \in Calls, NEW s \in {"queued"} \cup Running \cup Over,
         NEW o \in Outcomes
  PROVE  /\ Turn(s, o) \in CallStates
         /\ Turn(s, o).at = s /\ Turn(s, o).outcome = o
         /\ call[p].outcome \in Outcomes
BY BoundAssumption DEF TypeOK, CallStates, Turn

\* What a call that goes on does to itself and to the others.
Advances(p, from, s) ==
  /\ call[p].at = from /\ call'[p].at = s
  /\ call' \in [Calls -> CallStates]
  /\ \A q \in Calls \ {p} : call'[q] = call[q]

LEMMA GoesTo ==
  ASSUME TypeOK, NEW p \in Calls, NEW s \in {"queued"} \cup Running \cup Over, GoTo(p, s)
  PROVE  Advances(p, call[p].at, s) /\ call'[p].outcome = call[p].outcome
<1>1. call[p].outcome \in Outcomes
  BY DEF TypeOK
<1>2. /\ Turn(s, call[p].outcome) \in CallStates
      /\ Turn(s, call[p].outcome).at = s
      /\ Turn(s, call[p].outcome).outcome = call[p].outcome
  BY <1>1, TurnTyped
<1>3. call' = [call EXCEPT ![p] = Turn(s, call[p].outcome)]
  BY DEF GoTo
<1>4. /\ call' \in [Calls -> CallStates] /\ call'[p] = Turn(s, call[p].outcome)
      /\ \A q \in Calls \ {p} : call'[q] = call[q]
  BY <1>2, <1>3, Turned
<1>5. QED
  BY <1>2, <1>4 DEF Advances

LEMMA EndsWith ==
  ASSUME TypeOK, NEW p \in Calls, NEW s \in {"queued"} \cup Running \cup Over,
         NEW o \in Outcomes, EndWith(p, s, o)
  PROVE  Advances(p, call[p].at, s) /\ call'[p].outcome = o
<1>1. /\ Turn(s, o) \in CallStates
      /\ Turn(s, o).at = s /\ Turn(s, o).outcome = o
  BY BoundAssumption DEF TypeOK, CallStates, Turn
<1>2. call' = [call EXCEPT ![p] = Turn(s, o)]
  BY DEF EndWith
<1>3. QED
  BY <1>1, <1>2, Turned DEF Advances

\* The table of a spawn's own steps: from which stage to which, and what becomes
\* of the budget, the node and the inbox.
LEMMA OwnSteps ==
  ASSUME TypeOK, NEW p \in Calls, OwnStep(p)
  PROVE  /\ failures' = failures
         /\ \E from \in {"queued"} \cup Running, s \in Running :
              /\ Advances(p, from, s)
              /\ \/ /\ budget' = budget
                    /\ from \in Held <=> s \in Held
                    /\ from \in Guarded <=> s \in Guarded
                 \/ /\ budget' = budget + 1
                    /\ from = "gate"
                    /\ \/ s = "rollback"
                       \/ s = "lookup" /\ budget < MaxSpawns
                 \/ budget' = budget - 1 /\ from \in Held /\ s = "report"
<1> USE DEF Running, Guarded, Held, Over, Outcomes, At
<1>1. ASSUME NEW s \in Running, GoTo(p, s) PROVE Advances(p, call[p].at, s)
  BY <1>1, GoesTo
<1>2. ASSUME NEW s \in Running, NEW o \in Outcomes, EndWith(p, s, o)
      PROVE  Advances(p, call[p].at, s)
  BY <1>2, EndsWith
<1>3. CASE Admit(p)
  BY <1>1, <1>3 DEF Admit
<1>4. CASE TimesOut(p) \/ Rollback(p) \/ AgentMissing(p)
  BY <1>2, <1>4 DEF TimesOut, Rollback, AgentMissing, NotSpawned
<1>5. CASE TryReserve(p)
  BY <1>1, <1>5, BoundAssumption DEF TryReserve, TypeOK
<1>6. CASE RegisterAgent(p) \/ SendDelegate(p) \/ Activate(p)
  BY <1>1, <1>6 DEF RegisterAgent, SendDelegate, Activate
<1>7. CASE ChatSucceeds(p) \/ ChatFails(p)
  BY <1>2, <1>7 DEF ChatSucceeds, ChatFails
<1>8. CASE ChatRetries(p)
  <2> DEFINE c == [at |-> "chat", hung |-> FALSE, retries |-> call[p].retries + 1,
                   outcome |-> call[p].outcome]
  <2>1. c \in CallStates
    BY <1>8, BoundAssumption DEF ChatRetries, TypeOK, CallStates
  <2>2. call' = [call EXCEPT ![p] = c] /\ call[p].at = "chat"
    BY <1>8 DEF ChatRetries
  <2> HIDE DEF c
  <2>3. call' \in [Calls -> CallStates] /\ call'[p] = c /\ \A q \in Calls \ {p} : call'[q] = call[q]
    BY <2>1, <2>2, Turned
  <2>4. Advances(p, "chat", "chat")
    BY <2>2, <2>3 DEF Advances, c
  <2>5. QED
    BY <1>8, <2>4 DEF ChatRetries
<1>9. CASE MarkCompleted(p) \/ MarkErrored(p) \/ RemoveAgent(p) \/ RemoveInbox(p)
  BY <1>1, <1>9 DEF MarkCompleted, MarkErrored, RemoveAgent, RemoveInbox
<1>10. CASE Hangs(p)
  <2> DEFINE c == [call[p] EXCEPT !.hung = TRUE]
  <2>1. c \in CallStates /\ c.at = call[p].at
    BY DEF TypeOK, CallStates
  <2>2. /\ call' = [call EXCEPT ![p] = c] /\ call[p].at \in {"gate", "report"}
        /\ failures' = failures /\ budget' = budget
    BY <1>10 DEF Hangs
  <2> HIDE DEF c
  <2>3. call' \in [Calls -> CallStates] /\ call'[p] = c /\ \A q \in Calls \ {p} : call'[q] = call[q]
    BY <2>1, <2>2, Turned
  <2>4. Advances(p, call[p].at, call[p].at)
    BY <2>1, <2>3 DEF Advances
  <2>5. QED
    BY <2>2, <2>4
<1>11. QED
  BY <1>3, <1>4, <1>5, <1>6, <1>7, <1>8, <1>9, <1>10, OwnStep(p) DEF OwnStep, SpawnStep

-----------------------------------------------------------------------------
(* Collecting a result *)

\* The failures of p's batch once p's result is in, and the peers this drops.
CountWith(p, outcome) ==
  IF outcome = "succeeded" THEN failures[BatchOf[p]] ELSE failures[BatchOf[p]] + 1

CutWith(p, outcome) ==
  IF Trips(CountWith(p, outcome)) THEN Peers(p) \ In(Over) ELSE {}

\* The steps that collect a result: call p was at the gate, or has reported.
Collects(p, outcome) ==
  /\ call[p].at \in {"gate", "report"}
  /\ Collect(p, outcome)
  /\ UNCHANGED <<node, inboxes>>

LEMMA CollectSteps ==
  ASSUME TypeOK, NEW p \in Calls, Reject(p) \/ Report(p)
  PROVE  \E outcome \in Outcomes :
           /\ Collects(p, outcome)
           /\ call[p].at = "gate" \/ outcome = call[p].outcome
<1>1. CASE Reject(p)
  BY <1>1 DEF Reject, Collects, At, Outcomes
<1>2. CASE Report(p)
  <2>1. call[p].outcome \in Outcomes
    BY DEF TypeOK
  <2>2. QED
    BY <1>2, <2>1 DEF Report, Collects, At
<1>3. QED
  BY <1>1, <1>2

\* Who is where afterwards.
LEMMA Collected ==
  ASSUME TypeOK, NEW p \in Calls, NEW outcome \in Outcomes, Collects(p, outcome)
  PROVE  /\ failures' = [failures EXCEPT ![BatchOf[p]] = CountWith(p, outcome)]
         /\ budget' = budget - Cardinality(CutWith(p, outcome) \cap In(Guarded))
         /\ CutWith(p, outcome) \subseteq Peers(p) \ In(Over)
         /\ call' \in [Calls -> CallStates]
         /\ call'[p].at = "ended" /\ call'[p].outcome = outcome
         /\ \A q \in CutWith(p, outcome) :
              /\ call'[q].at = "dropped"
              /\ call'[q].outcome = IF call[q].at = "report" THEN call[q].outcome
                                                             ELSE "abandoned"
         /\ \A q \in Calls \ (CutWith(p, outcome) \cup {p}) : call'[q] = call[q]
<1> DEFINE cut == CutWith(p, outcome)
           new(q) == IF q = p THEN Turn("ended", outcome)
                     ELSE IF q \in cut THEN Cut(q) ELSE call[q]
<1>1. /\ failures' = [failures EXCEPT ![BatchOf[p]] = CountWith(p, outcome)]
      /\ budget' = budget - Cardinality(cut \cap In(Guarded))
      /\ call' = [q \in Calls |-> new(q)]
  BY DEF Collects, Collect, CountWith, CutWith
<1>2. cut \subseteq Peers(p) \ In(Over) /\ cut \subseteq Calls /\ p \notin cut
  BY DEF CutWith, Peers
<1> HIDE DEF cut
<1>3. {"ended", "dropped"} \subseteq {"queued"} \cup Running \cup Over /\ "abandoned" \in Outcomes
  BY DEF Over, Outcomes
<1>4. /\ Turn("ended", outcome) \in CallStates
      /\ Turn("ended", outcome).at = "ended" /\ Turn("ended", outcome).outcome = outcome
  BY <1>3, TurnTyped
<1>5. ASSUME NEW q \in Calls
      PROVE  /\ Cut(q) \in CallStates /\ Cut(q).at = "dropped"
             /\ Cut(q).outcome = IF call[q].at = "report" THEN call[q].outcome
                                                          ELSE "abandoned"
  <2> DEFINE o == IF At(q, "report") THEN call[q].outcome ELSE "abandoned"
  <2>1. o \in Outcomes
    BY <1>3 DEF TypeOK
  <2>2. Cut(q) = Turn("dropped", o)
    BY DEF Cut
  <2>3. o = IF call[q].at = "report" THEN call[q].outcome ELSE "abandoned"
    BY DEF At
  <2> HIDE DEF o
  <2>4. QED
    BY <1>3, <2>1, <2>2, <2>3, TurnTyped
<1>6. \A q \in Calls : call[q] \in CallStates
  BY DEF TypeOK, CallStates
<1>7. \A q \in Calls : call'[q] = new(q)
  BY <1>1
<1>8. \A q \in Calls : new(q) \in CallStates
  BY <1>4, <1>5, <1>6
<1>9. call' \in [Calls -> CallStates]
  BY <1>1, <1>8
<1>10. call'[p].at = "ended" /\ call'[p].outcome = outcome
  BY <1>4, <1>7
<1>11. \A q \in cut : call'[q] = Cut(q)
  BY <1>2, <1>7
<1>12. \A q \in Calls \ (cut \cup {p}) : call'[q] = call[q]
  BY <1>7
<1>13. \A q \in cut :
         /\ call'[q].at = "dropped"
         /\ call'[q].outcome = IF call[q].at = "report" THEN call[q].outcome ELSE "abandoned"
  BY <1>2, <1>5, <1>11
<1> HIDE DEF new
<1>14. /\ failures' = [failures EXCEPT ![BatchOf[p]] = CountWith(p, outcome)]
       /\ budget' = budget - Cardinality(cut \cap In(Guarded))
       /\ cut \subseteq Peers(p) \ In(Over)
  BY <1>1, <1>2
<1>15. QED
  BY <1>9, <1>10, <1>12, <1>13, <1>14 DEF cut

\* Every step is a call's own or collects a result, and is taken by the call that
\* its task polls.
LEMMA TwoKinds ==
  ASSUME Next
  PROVE  \E p \in Calls : Polled(p) /\ (OwnStep(p) \/ Reject(p) \/ Report(p))
BY DEF Next, CallStep, OwnStep

-----------------------------------------------------------------------------
(* The budget *)

\* Sets of calls are finite.
LEMMA CallsFinite ==
  ASSUME NEW S \in SUBSET Calls
  PROVE  /\ IsFiniteSet(S) /\ Cardinality(S) \in Nat
         /\ Cardinality(S) <= Cardinality(Calls) /\ Cardinality(Calls) \in Nat
BY BatchAssumption, FS_Subset, FS_CardinalityType

\* An own step takes a slot, gives one back, or leaves the budget as it is.
LEMMA OwnCounts ==
  ASSUME TypeOK, GuardsCounted, NEW p \in Calls, OwnStep(p)
  PROVE  GuardsCounted'
<1>1. PICK from \in {"queued"} \cup Running, s \in Running :
        /\ Advances(p, from, s)
        /\ \/ /\ budget' = budget
              /\ from \in Held <=> s \in Held
              /\ from \in Guarded <=> s \in Guarded
           \/ /\ budget' = budget + 1
              /\ from = "gate"
              /\ \/ s = "rollback"
                 \/ s = "lookup" /\ budget < MaxSpawns
           \/ budget' = budget - 1 /\ from \in Held /\ s = "report"
  BY OwnSteps
<1>2. /\ call[p].at = from /\ call'[p].at = s
      /\ \A q \in Calls \ {p} : call'[q] = call[q]
  BY <1>1 DEF Advances
<1>3. /\ IsFiniteSet(In(Held)) /\ Cardinality(In(Held)) \in Nat
      /\ IsFiniteSet(In(Guarded)) /\ Cardinality(In(Guarded)) \in Nat
      /\ In(Held) \in SUBSET Calls /\ In(Guarded) \in SUBSET Calls
      /\ In(Guarded)' \in SUBSET Calls
  BY CallsFinite DEF In
<1>4. /\ budget = Cardinality(In(Held)) /\ Cardinality(In(Guarded)) <= MaxSpawns
      /\ In(Guarded) \subseteq In(Held)
  BY DEF GuardsCounted, Held, In
<1>5. SUFFICES budget' = Cardinality(In(Held)') /\ Cardinality(In(Guarded)') <= MaxSpawns
  BY DEF GuardsCounted, Held
<1>6. Cardinality(In(Guarded)) <= Cardinality(In(Held))
  BY <1>3, <1>4, FS_Subset
<1>7. CASE budget' = budget /\ (from \in Held <=> s \in Held) /\ (from \in Guarded <=> s \in Guarded)
  <2>1. In(Held)' = In(Held) /\ In(Guarded)' = In(Guarded)
    BY <1>2, <1>7 DEF In
  <2>2. QED
    BY <1>4, <1>7, <2>1
<1>8. CASE budget' = budget + 1 /\ from = "gate" /\ s = "rollback"
  <2>1. p \notin In(Held) /\ In(Held)' = In(Held) \cup {p} /\ In(Guarded)' = In(Guarded)
    BY <1>2, <1>8 DEF In, Held, Guarded
  <2>2. Cardinality(In(Held)') = Cardinality(In(Held)) + 1
    BY <1>3, <2>1, FS_AddElement
  <2>3. QED
    BY <1>4, <1>8, <2>1, <2>2
<1>9. CASE budget' = budget + 1 /\ from = "gate" /\ s = "lookup" /\ budget < MaxSpawns
  <2>1. /\ p \notin In(Held) /\ In(Held)' = In(Held) \cup {p}
        /\ p \notin In(Guarded) /\ In(Guarded)' = In(Guarded) \cup {p}
    BY <1>2, <1>9 DEF In, Held, Guarded
  <2>2. Cardinality(In(Held)') = Cardinality(In(Held)) + 1
    BY <1>3, <2>1, FS_AddElement
  <2>3. Cardinality(In(Guarded)') = Cardinality(In(Guarded)) + 1
    BY <1>3, <2>1, FS_AddElement
  <2>4. QED
    BY <1>3, <1>4, <1>6, <1>9, <2>2, <2>3, BoundAssumption
<1>10. CASE budget' = budget - 1 /\ from \in Held /\ s = "report"
  <2>1. /\ p \in In(Held) /\ In(Held)' = In(Held) \ {p}
        /\ In(Guarded)' \in SUBSET In(Guarded)
    BY <1>2, <1>10 DEF In, Held, Guarded
  <2>2. Cardinality(In(Held)') = Cardinality(In(Held)) - 1
    BY <1>3, <2>1, FS_RemoveElement
  <2>3. Cardinality(In(Guarded)') <= Cardinality(In(Guarded))
    BY <1>3, <2>1, FS_Subset
  <2>4. Cardinality(In(Guarded)') \in Nat
    BY <1>3, CallsFinite
  <2>5. QED
    BY <1>3, <1>4, <1>10, <2>2, <2>3, <2>4, BoundAssumption
<1>11. QED
  BY <1>1, <1>7, <1>8, <1>9, <1>10

\* A tripped breaker gives back the slot of every guard that is dropped, and of
\* nothing else: no peer is between the increment and taking it back.
LEMMA CollectCounts ==
  ASSUME TypeOK, GuardsCounted, NEW p \in Calls, Polled(p), NEW outcome \in Outcomes,
         Collects(p, outcome)
  PROVE  GuardsCounted'
<1> DEFINE cut == CutWith(p, outcome)
<1>1. /\ budget' = budget - Cardinality(cut \cap In(Guarded))
      /\ cut \subseteq Peers(p)
      /\ call'[p].at = "ended"
      /\ \A q \in cut : call'[q].at = "dropped"
      /\ \A q \in Calls \ (cut \cup {p}) : call'[q] = call[q]
  BY Collected
<1>2. call[p].at \in {"gate", "report"}
  BY DEF Collects
<1> HIDE DEF cut
<1>3. cut \subseteq Calls /\ \A q \in cut : call[q].at # "rollback"
  BY <1>1 DEF Polled, Peers, At
<1>4. In(Held) \cap cut = cut \cap In(Guarded)
  BY <1>3 DEF In, Held
<1>5. In(Held)' = In(Held) \ cut
  BY <1>1, <1>2, <1>3 DEF In, Held, Guarded
<1>6. In(Guarded)' \in SUBSET In(Guarded)
  BY <1>1, <1>2, <1>3 DEF In, Guarded
<1>7. /\ IsFiniteSet(In(Held)) /\ IsFiniteSet(In(Guarded))
      /\ In(Guarded)' \in SUBSET Calls
      /\ Cardinality(In(Guarded)) \in Nat
  BY CallsFinite DEF In
<1>8. Cardinality(In(Guarded)') \in Nat /\ Cardinality(In(Guarded)') <= Cardinality(In(Guarded))
  BY <1>6, <1>7, FS_Subset, CallsFinite
<1>9. Cardinality(In(Held)') = Cardinality(In(Held)) - Cardinality(cut \cap In(Guarded))
  BY <1>4, <1>5, <1>7, FS_Difference
<1>10. budget = Cardinality(In(Held)) /\ Cardinality(In(Guarded)) <= MaxSpawns
  BY DEF GuardsCounted, Held
<1>11. budget' = Cardinality(In(Held)') /\ Cardinality(In(Guarded)') <= MaxSpawns
  BY <1>1, <1>7, <1>8, <1>9, <1>10, BoundAssumption
<1>12. QED
  BY <1>11 DEF GuardsCounted, Held

-----------------------------------------------------------------------------
(* The agent tree and the inboxes *)

\* A step of p that leaves the nodes, the inboxes and the calls of others alone.
LEMMA TrackOne ==
  ASSUME StagesTracked, NEW p \in Calls,
         \A q \in Calls \ {p} : /\ call'[q] = call[q] /\ node'[q] = node[q]
                                /\ q \in inboxes' <=> q \in inboxes,
         Tracks(call'[p].at, call'[p].outcome, node'[p], p \in inboxes')
  PROVE  StagesTracked'
BY DEF StagesTracked, Tracks

\* An own step of a spawn takes its node and its inbox along.
LEMMA OwnTracked ==
  ASSUME TypeOK, StagesTracked, NEW p \in Calls, OwnStep(p)
  PROVE  StagesTracked'
<1>1. Tracks(call[p].at, call[p].outcome, node[p], p \in inboxes)
  BY DEF StagesTracked
<1>2. ASSUME NEW s \in Running, GoTo(p, s)
      PROVE  /\ call'[p].at = s /\ call'[p].outcome = call[p].outcome
             /\ \A q \in Calls \ {p} : call'[q] = call[q]
  <2>1. s \in {"queued"} \cup Running \cup Over
    OBVIOUS
  <2>2. QED
    BY <1>2, <2>1, GoesTo DEF Advances
<1>3. ASSUME NEW s \in Running, NEW o \in Outcomes, EndWith(p, s, o)
      PROVE  /\ call'[p].at = s /\ call'[p].outcome = o
             /\ \A q \in Calls \ {p} : call'[q] = call[q]
  <2>1. s \in {"queued"} \cup Running \cup Over
    OBVIOUS
  <2>2. QED
    BY <1>3, <2>1, EndsWith DEF Advances
<1>4. /\ {"gate", "rollback", "report"} \subseteq Running /\ Guarded \subseteq Running
      /\ {"succeeded", "failed", "abandoned"} \subseteq Outcomes
  BY DEF Running, Outcomes
<1>5. CASE Admit(p)
  <2>1. /\ call[p].at = "queued" /\ call'[p].at = "gate" /\ node' = node /\ inboxes' = inboxes
        /\ \A q \in Calls \ {p} : call'[q] = call[q]
    BY <1>2, <1>4, <1>5 DEF Admit, At
  <2>2. QED
    BY <1>1, <2>1, TrackOne DEF Tracks, Over
<1>6. CASE TimesOut(p)
  <2>1. /\ call'[p].at = "report" /\ call'[p].outcome = "abandoned"
        /\ node' = node /\ inboxes' = inboxes
        /\ \A q \in Calls \ {p} : call'[q] = call[q]
    BY <1>3, <1>4, <1>6 DEF TimesOut
  <2>2. QED
    BY <2>1, TrackOne DEF Tracks, Over
<1>7. CASE Rollback(p) \/ AgentMissing(p)
  <2>1. /\ call[p].at \in {"rollback", "lookup"} /\ EndWith(p, "report", "failed")
        /\ node' = node /\ inboxes' = inboxes
    BY <1>7 DEF Rollback, AgentMissing, NotSpawned, At
  <2>2. call'[p].at = "report" /\ \A q \in Calls \ {p} : call'[q] = call[q]
    BY <1>3, <1>4, <2>1
  <2>3. QED
    BY <1>1, <2>1, <2>2, TrackOne DEF Tracks, Over
<1>8. CASE TryReserve(p)
  <2>1. /\ call[p].at = "gate" /\ \E s \in {"rollback", "lookup"} : GoTo(p, s)
        /\ node' = node /\ inboxes' = inboxes
    BY <1>8 DEF TryReserve, At
  <2>2. call'[p].at \in {"rollback", "lookup"} /\ \A q \in Calls \ {p} : call'[q] = call[q]
    BY <1>2, <1>4, <2>1 DEF Guarded
  <2>3. QED
    BY <1>1, <2>1, <2>2, TrackOne DEF Tracks, Over
<1>9. CASE RegisterAgent(p)
  <2>1. /\ call[p].at = "lookup" /\ GoTo(p, "delegate") /\ inboxes' = inboxes
        /\ node'[p] = "Registered" /\ \A q \in Calls \ {p} : node'[q] = node[q]
    BY <1>9 DEF RegisterAgent, At, TypeOK
  <2>2. call'[p].at = "delegate" /\ \A q \in Calls \ {p} : call'[q] = call[q]
    BY <1>2, <1>4, <2>1 DEF Guarded
  <2>3. QED
    BY <1>1, <2>1, <2>2, TrackOne DEF Tracks, Over
<1>10. CASE SendDelegate(p)
  <2>1. /\ call[p].at = "delegate" /\ GoTo(p, "activate") /\ node' = node
        /\ inboxes' = inboxes \cup {p}
    BY <1>10 DEF SendDelegate, At
  <2>2. call'[p].at = "activate" /\ \A q \in Calls \ {p} : call'[q] = call[q]
    BY <1>2, <1>4, <2>1 DEF Guarded
  <2>3. QED
    BY <1>1, <2>1, <2>2, TrackOne DEF Tracks, Over
<1>11. CASE Activate(p)
  <2>1. /\ call[p].at = "activate" /\ GoTo(p, "chat") /\ inboxes' = inboxes
        /\ node'[p] = IF node[p] = NoNode THEN NoNode ELSE "Active"
        /\ \A q \in Calls \ {p} : node'[q] = node[q]
    BY <1>11 DEF Activate, At, TypeOK, SetLifecycle
  <2>2. call'[p].at = "chat" /\ \A q \in Calls \ {p} : call'[q] = call[q]
    BY <1>2, <1>4, <2>1 DEF Guarded
  <2>3. QED
    BY <1>1, <2>1, <2>2, TrackOne DEF Tracks, Over, NoNode
<1>12. CASE ChatSucceeds(p) \/ ChatFails(p)
  <2>1. /\ call[p].at = "chat" /\ node' = node /\ inboxes' = inboxes
        /\ EndWith(p, "completed", "succeeded") \/ EndWith(p, "errored", "failed")
    BY <1>12 DEF ChatSucceeds, ChatFails, At
  <2>2. call'[p].at \in {"completed", "errored"} /\ \A q \in Calls \ {p} : call'[q] = call[q]
    BY <1>3, <1>4, <2>1 DEF Guarded
  <2>3. QED
    BY <1>1, <2>1, <2>2, TrackOne DEF Tracks, Over
<1>13. CASE ChatRetries(p)
  <2>1. /\ call[p].at = "chat" /\ call'[p].at = "chat" /\ node' = node /\ inboxes' = inboxes
        /\ \A q \in Calls \ {p} : call'[q] = call[q]
    BY <1>13 DEF ChatRetries, At, TypeOK
  <2>2. QED
    BY <1>1, <2>1, TrackOne DEF Tracks, Over
<1>14. CASE MarkCompleted(p) \/ MarkErrored(p)
  <2>1. /\ call[p].at \in {"completed", "errored"} /\ GoTo(p, "unregister")
        /\ inboxes' = inboxes
        /\ SetLifecycle(p, "Completed") \/ SetLifecycle(p, "Errored")
    BY <1>14 DEF MarkCompleted, MarkErrored, At
  <2>2. /\ node[p] # NoNode => node'[p] \in Terminal
        /\ \A q \in Calls \ {p} : node'[q] = node[q]
    BY <2>1 DEF SetLifecycle, TypeOK, Terminal
  <2>3. call'[p].at = "unregister" /\ \A q \in Calls \ {p} : call'[q] = call[q]
    BY <1>2, <1>4, <2>1 DEF Guarded
  <2>4. QED
    BY <1>1, <2>1, <2>2, <2>3, TrackOne DEF Tracks, Over, NoNode
<1>15. CASE RemoveAgent(p)
  <2>1. /\ call[p].at = "unregister" /\ GoTo(p, "inbox") /\ inboxes' = inboxes
        /\ node'[p] = NoNode /\ \A q \in Calls \ {p} : node'[q] = node[q]
    BY <1>15 DEF RemoveAgent, At, TypeOK
  <2>2. call'[p].at = "inbox" /\ \A q \in Calls \ {p} : call'[q] = call[q]
    BY <1>2, <1>4, <2>1 DEF Guarded
  <2>3. QED
    BY <1>1, <2>1, <2>2, TrackOne DEF Tracks, Over
<1>16. CASE RemoveInbox(p)
  <2>1. /\ call[p].at = "inbox" /\ GoTo(p, "report") /\ node' = node
        /\ inboxes' = inboxes \ {p}
    BY <1>16 DEF RemoveInbox, At
  <2>2. call'[p].at = "report" /\ \A q \in Calls \ {p} : call'[q] = call[q]
    BY <1>2, <1>4, <2>1
  <2>3. QED
    BY <1>1, <2>1, <2>2, TrackOne DEF Tracks, Over
<1>17. CASE Hangs(p)
  <2>1. /\ call'[p].at = call[p].at /\ call'[p].outcome = call[p].outcome
        /\ node' = node /\ inboxes' = inboxes
        /\ \A q \in Calls \ {p} : call'[q] = call[q]
    BY <1>17 DEF Hangs, TypeOK
  <2>2. QED
    BY <1>1, <2>1, TrackOne
<1>18. QED
  BY <1>5, <1>6, <1>7, <1>8, <1>9, <1>10, <1>11, <1>12, <1>13, <1>14, <1>15, <1>16, <1>17,
     OwnStep(p) DEF OwnStep, SpawnStep

\* A result that is collected has no node or inbox, unless its spawn was
\* abandoned; a peer that is dropped is abandoned, or has left neither.
LEMMA CollectTracked ==
  ASSUME TypeOK, StagesTracked, NEW p \in Calls, NEW outcome \in Outcomes,
         Collects(p, outcome), call[p].at = "gate" \/ outcome = call[p].outcome
  PROVE  StagesTracked'
<1> SUFFICES ASSUME NEW q \in Calls
             PROVE  Tracks(call'[q].at, call'[q].outcome, node'[q], q \in inboxes')
  BY DEF StagesTracked
<1>1. Tracks(call[q].at, call[q].outcome, node[q], q \in inboxes)
  BY DEF StagesTracked
<1>2. node' = node /\ inboxes' = inboxes /\ call[p].at \in {"gate", "report"}
  BY DEF Collects
<1>3. CASE q = p
  <2>1. call'[p].at = "ended" /\ call'[p].outcome = outcome
    BY Collected
  <2>2. QED
    BY <1>1, <1>2, <1>3, <2>1 DEF Tracks, Over
<1>4. CASE q \in CutWith(p, outcome)
  <2>1. /\ call'[q].at = "dropped"
        /\ call'[q].outcome = IF call[q].at = "report" THEN call[q].outcome ELSE "abandoned"
    BY <1>4, Collected
  <2>2. QED
    BY <1>1, <1>2, <2>1 DEF Tracks, Over
<1>5. CASE q \in Calls \ (CutWith(p, outcome) \cup {p})
  <2>1. call'[q] = call[q]
    BY <1>5, Collected
  <2>2. QED
    BY <1>1, <1>2, <2>1
<1>6. QED
  BY <1>3, <1>4, <1>5

-----------------------------------------------------------------------------
(* The breaker of a batch *)

\* The collected calls of a batch that did not succeed.
FailedIn(b) ==
  {p \in {q \in Calls : BatchOf[q] = b} \cap In({"ended"}) : call[p].outcome # "succeeded"}

\* BreakerHonoured for one batch.
Honoured(b) ==
  /\ failures[b] = Cardinality(FailedIn(b))
  /\ Limit > 0 => failures[b] <= Limit
  /\ Limit > 0 /\ failures[b] = Limit =>
       \A p \in Calls : BatchOf[p] = b => call[p].at \in Over

\* In the state before a step and in the state after it.
LEMMA HonouredByAll ==
  /\ BreakerHonoured <=> \A b \in Batches : Honoured(b)
  /\ BreakerHonoured' <=> \A b \in Batches : Honoured(b)'
<1>1. BreakerHonoured <=> \A b \in Batches : Honoured(b)
  BY DEF BreakerHonoured, Honoured, FailedIn, In
<1>2. BreakerHonoured' <=> \A b \in Batches : Honoured(b)'
  BY DEF BreakerHonoured, Honoured, FailedIn, In
<1>3. QED
  BY <1>1, <1>2

\* A batch that keeps its count and its collected calls, and in which no call
\* that is over goes on.
LEMMA HonouredRests ==
  ASSUME NEW b \in Batches, Honoured(b), failures'[b] = failures[b],
         \A p \in Calls : BatchOf[p] = b =>
           /\ call[p].at = "ended" <=> call'[p].at = "ended"
           /\ call[p].at = "ended" => call'[p].outcome = call[p].outcome
           /\ call[p].at \in Over => call'[p].at \in Over
  PROVE  Honoured(b)'
<1>1. FailedIn(b)' = FailedIn(b)
  BY DEF FailedIn, In
<1>2. QED
  BY <1>1 DEF Honoured

LEMMA OwnHonours ==
  ASSUME TypeOK, BreakerHonoured, NEW p \in Calls, OwnStep(p)
  PROVE  BreakerHonoured'
<1>1. /\ failures' = failures
      /\ call[p].at \notin Over /\ call'[p].at \notin Over
      /\ \A q \in Calls \ {p} : call'[q] = call[q]
  BY OwnSteps DEF Advances, Running, Guarded, Over
<1>2. ASSUME NEW b \in Batches PROVE Honoured(b)'
  <2>1. Honoured(b)
    BY HonouredByAll
  <2>2. \A q \in Calls : /\ call[q].at = "ended" <=> call'[q].at = "ended"
                         /\ call[q].at = "ended" => call'[q].outcome = call[q].outcome
                         /\ call[q].at \in Over => call'[q].at \in Over
    BY <1>1 DEF Over
  <2>3. QED
    BY <1>1, <2>1, <2>2, HonouredRests
<1>3. QED
  BY <1>2, HonouredByAll

\* A result that is collected finds its batch below the limit, since the call was
\* not over; if it reaches the limit, the rest of the batch is dropped.
LEMMA CollectHonours ==
  ASSUME TypeOK, BreakerHonoured, NEW p \in Calls, NEW outcome \in Outcomes,
         Collects(p, outcome)
  PROVE  BreakerHonoured'
<1> DEFINE cut == CutWith(p, outcome)
           count == CountWith(p, outcome)
           mine == BatchOf[p]
<1>1. /\ failures' = [failures EXCEPT ![mine] = count]
      /\ cut \subseteq Peers(p) \ In(Over)
      /\ call'[p].at = "ended" /\ call'[p].outcome = outcome
      /\ \A q \in cut : call'[q].at = "dropped"
      /\ \A q \in Calls \ (cut \cup {p}) : call'[q] = call[q]
  BY Collected
<1>2. /\ call[p].at \notin Over /\ mine \in Batches
  BY BatchAssumption DEF Collects, Over
<1>3. /\ failures[mine] \in Nat
      /\ count = IF outcome = "succeeded" THEN failures[mine] ELSE failures[mine] + 1
  BY <1>2 DEF TypeOK, CountWith
<1>4. cut = IF Trips(count) THEN Peers(p) \ In(Over) ELSE {}
  BY DEF CutWith
<1> HIDE DEF cut, count
<1>5. \A q \in cut : q \in Calls /\ BatchOf[q] = mine /\ q # p /\ call[q].at \notin Over
  BY <1>1 DEF Peers, In
<1>6. ASSUME NEW b \in Batches, b # mine PROVE Honoured(b)'
  <2>1. failures'[b] = failures[b]
    BY <1>1, <1>6 DEF TypeOK
  <2>2. \A q \in Calls : BatchOf[q] = b => call'[q] = call[q]
    BY <1>1, <1>5, <1>6
  <2>3. Honoured(b)
    BY HonouredByAll
  <2>4. QED
    BY <2>1, <2>2, <2>3, HonouredRests
<1>7. Honoured(mine)'
  <2>1. Honoured(mine)
    BY <1>2, HonouredByAll
  <2>2. failures'[mine] = count
    BY <1>1, <1>2 DEF TypeOK
  <2>3. Limit > 0 => failures[mine] < Limit
    BY <1>2, <1>3, <2>1, BoundAssumption DEF Honoured
  <2>4. count = Cardinality(FailedIn(mine)')
    <3>1. p \notin FailedIn(mine) /\ FailedIn(mine) \in SUBSET Calls
      BY <1>2 DEF FailedIn, In, Over
    <3>2. IsFiniteSet(FailedIn(mine)) /\ Cardinality(FailedIn(mine)) \in Nat
      BY <3>1, CallsFinite
    <3>3. CASE outcome = "succeeded"
      <4>1. FailedIn(mine)' = FailedIn(mine)
        BY <1>1, <1>2, <1>5, <3>3 DEF FailedIn, In, Over
      <4>2. QED
        BY <1>3, <2>1, <3>3, <4>1 DEF Honoured
    <3>4. CASE outcome # "succeeded"
      <4>1. FailedIn(mine)' = FailedIn(mine) \cup {p}
        BY <1>1, <1>2, <1>5, <3>4 DEF FailedIn, In, Over
      <4>2. Cardinality(FailedIn(mine)') = Cardinality(FailedIn(mine)) + 1
        BY <3>1, <3>2, <4>1, FS_AddElement
      <4>3. QED
        BY <1>3, <2>1, <3>4, <4>2 DEF Honoured
    <3>5. QED
      BY <3>3, <3>4
  <2>5. ASSUME Limit > 0, count = Limit
        PROVE  \A q \in Calls : BatchOf[q] = mine => call'[q].at \in Over
    <3>1. cut = Peers(p) \ In(Over)
      BY <1>4, <2>5, BoundAssumption DEF Trips
    <3>2. QED
      BY <1>1, <3>1 DEF Peers, In, Over
  <2>6. Limit > 0 => count <= Limit
    BY <1>3, <2>3, BoundAssumption
  <2>7. QED
    BY <2>2, <2>4, <2>5, <2>6 DEF Honoured
<1>8. \A b \in Batches : Honoured(b)'
  BY <1>6, <1>7
<1>9. QED
  BY <1>8, HonouredByAll

-----------------------------------------------------------------------------
(* The theorems *)

\* The counters stay in their ranges because of what they count.
LEMMA SubAgentsTypeNext ==
  ASSUME TypeOK, [Next]_vars, GuardsCounted', BreakerHonoured' PROVE TypeOK'
<1>1. call' \in [Calls -> CallStates] /\ failures' \in [Batches -> Int]
  <2>1. ASSUME NEW p \in Calls, OwnStep(p)
        PROVE  call' \in [Calls -> CallStates] /\ failures' = failures
    BY <2>1, OwnSteps DEF Advances
  <2>2. ASSUME NEW p \in Calls, NEW outcome \in Outcomes, Collects(p, outcome)
        PROVE  /\ call' \in [Calls -> CallStates]
               /\ failures' = [failures EXCEPT ![BatchOf[p]] = CountWith(p, outcome)]
               /\ CountWith(p, outcome) \in Int
    <3>1. CountWith(p, outcome) \in Int
      BY BatchAssumption DEF CountWith, TypeOK
    <3>2. QED
      BY <2>2, <3>1, Collected
  <2>3. failures \in [Batches -> Int] /\ call \in [Calls -> CallStates]
    BY DEF TypeOK, CallStates
  <2>4. CASE Next
    <3>1. PICK p \in Calls : OwnStep(p) \/ Reject(p) \/ Report(p)
      BY <2>4, TwoKinds
    <3>2. CASE OwnStep(p)
      BY <2>1, <2>3, <3>2
    <3>3. CASE Reject(p) \/ Report(p)
      <4>1. PICK outcome \in Outcomes : Collects(p, outcome)
        BY <3>3, CollectSteps
      <4>2. QED
        BY <2>2, <2>3, <4>1
    <3>4. QED
      BY <3>1, <3>2, <3>3
  <2>5. CASE UNCHANGED vars
    BY <2>3, <2>5 DEF vars
  <2>6. QED
    BY <2>4, <2>5
<1>2. ASSUME NEW b \in Batches PROVE failures'[b] \in 0..Cardinality(Calls)
  <2>1. FailedIn(b)' \in SUBSET Calls
    BY DEF FailedIn
  <2>2. Honoured(b)'
    BY HonouredByAll
  <2>3. failures'[b] = Cardinality(FailedIn(b)')
    BY <2>2 DEF Honoured
  <2>4. /\ Cardinality(FailedIn(b)') \in Nat /\ Cardinality(Calls) \in Nat
        /\ Cardinality(FailedIn(b)') <= Cardinality(Calls)
    BY <2>1, CallsFinite
  <2>5. QED
    BY <2>3, <2>4
<1>3. budget' \in 0..Cardinality(Calls)
  <2>1. In(Guarded \cup {"rollback"})' \in SUBSET Calls
    BY DEF In
  <2>2. /\ Cardinality(In(Guarded \cup {"rollback"})') \in Nat /\ Cardinality(Calls) \in Nat
        /\ Cardinality(In(Guarded \cup {"rollback"})') <= Cardinality(Calls)
    BY <2>1, CallsFinite
  <2>3. QED
    BY <2>2 DEF GuardsCounted
<1>4. node' \in [Calls -> Lifecycles] /\ inboxes' \subseteq Calls
  <2> USE DEF TypeOK, Lifecycles, Terminal
  <2>1. ASSUME NEW p \in Calls, OwnStep(p)
        PROVE  node' \in [Calls -> Lifecycles] /\ inboxes' \subseteq Calls
    BY <2>1 DEF OwnStep, Admit, TimesOut, Hangs, SpawnStep, TryReserve, Rollback, AgentMissing,
       NotSpawned, RegisterAgent, SendDelegate, Activate, SetLifecycle, ChatSucceeds,
       ChatRetries, ChatFails, MarkCompleted, MarkErrored, RemoveAgent, RemoveInbox
  <2>2. ASSUME NEW p \in Calls, Reject(p) \/ Report(p) PROVE UNCHANGED <<node, inboxes>>
    BY <2>2 DEF Reject, Report
  <2>3. QED
    BY <2>1, <2>2, TwoKinds DEF vars
<1>5. failures' \in [Batches -> 0..Cardinality(Calls)]
  BY <1>1, <1>2
<1>6. QED
  BY <1>1, <1>3, <1>4, <1>5 DEF TypeOK, CallStates

\* Nothing has begun.
LEMMA SubAgentsInit == Init => Inv
<1> SUFFICES ASSUME Init PROVE Inv
  OBVIOUS
<1>1. Cardinality(Calls) \in Nat
  BY CallsFinite
<1>2. TypeOK
  <2>1. \A p \in Calls : call[p] \in CallStates
    BY BoundAssumption DEF Init, CallStates, Outcomes
  <2>2. call \in [Calls -> CallStates]
    BY <2>1 DEF Init
  <2>3. QED
    BY <1>1, <2>2 DEF Init, TypeOK, CallStates, Lifecycles
<1>3. \A p \in Calls : call[p].at = "queued"
  BY DEF Init
<1>4. GuardsCounted
  <2>1. In(Guarded \cup {"rollback"}) = {} /\ In(Guarded) = {}
    BY <1>3 DEF In, Guarded
  <2>2. budget = 0
    BY DEF Init
  <2>3. QED
    BY <2>1, <2>2, FS_EmptySet, BoundAssumption DEF GuardsCounted
<1>5. StagesTracked
  BY <1>3 DEF StagesTracked, Tracks, Init, Over
<1>6. BreakerHonoured
  <2>1. ASSUME NEW b \in Batches PROVE Honoured(b)
    <3>1. FailedIn(b) = {}
      BY <1>3 DEF FailedIn, In
    <3>2. failures[b] = 0 /\ Cardinality(FailedIn(b)) = 0
      BY <3>1, FS_EmptySet DEF Init
    <3>3. QED
      BY <3>2, BoundAssumption DEF Honoured
  <2>2. QED
    BY <2>1, HonouredByAll
<1>7. QED
  BY <1>2, <1>4, <1>5, <1>6 DEF Inv

\* The invariant, in every interleaving of the batches and their calls.
THEOREM SubAgentsInvariance == Spec => []Inv
<1>1. Inv /\ [Next]_vars => Inv'
  <2> SUFFICES ASSUME Inv, [Next]_vars PROVE Inv'
    OBVIOUS
  <2>1. TypeOK /\ GuardsCounted /\ StagesTracked /\ BreakerHonoured
    BY DEF Inv
  <2>2. CASE Next
    <3>1. PICK p \in Calls : Polled(p) /\ (OwnStep(p) \/ Reject(p) \/ Report(p))
      BY <2>2, TwoKinds
    <3>2. CASE OwnStep(p)
      <4>1. GuardsCounted' /\ StagesTracked' /\ BreakerHonoured'
        BY <2>1, <3>2, OwnCounts, OwnTracked, OwnHonours
      <4>2. QED
        BY <2>1, <4>1, SubAgentsTypeNext DEF Inv
    <3>3. CASE Reject(p) \/ Report(p)
      <4>1. PICK outcome \in Outcomes :
              Collects(p, outcome) /\ (call[p].at = "gate" \/ outcome = call[p].outcome)
        BY <2>1, <3>3, CollectSteps
      <4>2. GuardsCounted' /\ StagesTracked' /\ BreakerHonoured'
        BY <2>1, <3>1, <4>1, CollectCounts, CollectTracked, CollectHonours
      <4>3. QED
        BY <2>1, <4>2, SubAgentsTypeNext DEF Inv
    <3>4. QED
      BY <3>1, <3>2, <3>3
  <2>3. CASE UNCHANGED vars
    BY <2>1, <2>3 DEF vars, Inv, TypeOK, GuardsCounted, StagesTracked, BreakerHonoured, In
  <2>4. QED
    BY <2>2, <2>3
<1>2. QED
  BY <1>1, SubAgentsInit, PTL DEF Spec

\* The types; the budget, an unsigned atomic, never drops below zero.
THEOREM SubAgentsTypeCorrect == Spec => []TypeOK
<1>1. Inv => TypeOK
  BY DEF Inv
<1>2. QED
  BY <1>1, SubAgentsInvariance, PTL

\* SPAWN_BUDGET counts the guards and the increments not yet taken back, on every
\* error return, timeout and tripped breaker, and bounds the running sub-agents.
THEOREM BudgetCounts == Spec => []GuardsCounted
<1>1. Inv => GuardsCounted
  BY DEF Inv
<1>2. QED
  BY <1>1, SubAgentsInvariance, PTL

\* A sub-agent that talks has its node and its inbox, and an execute_spawn that
\* came to its end has left neither.
THEOREM TreeTracksSpawns == Spec => []NodeTracksSpawn
<1>1. Inv => NodeTracksSpawn
  BY DEF Inv, StagesTracked, Tracks, NodeTracksSpawn, At
<1>2. QED
  BY <1>1, SubAgentsInvariance, PTL

\* failure_count counts the failures collected, never passes circuit_breaker_limit,
\* and nothing of a batch that has reached it goes on.
THEOREM BatchBreaker == Spec => []BreakerHonoured
<1>1. Inv => BreakerHonoured
  BY DEF Inv
<1>2. QED
  BY <1>1, SubAgentsInvariance, PTL

\* set_lifecycle never leaves a terminal state, and cleanup_agent removes a node
\* only in one.
THEOREM LifecyclesAreFinal == Spec => LifecycleIsFinal
<1> DEFINE Final(p) == /\ node[p] \in Terminal => node'[p] \in {node[p], NoNode}
                       /\ node[p] # NoNode /\ node'[p] = NoNode => node[p] \in Terminal
<1>1. ASSUME Inv, Next PROVE \A p \in Calls : Final(p)
  <2>1. PICK q \in Calls : OwnStep(q) \/ Reject(q) \/ Report(q)
    BY <1>1, TwoKinds
  <2>2. TypeOK /\ Tracks(call[q].at, call[q].outcome, node[q], q \in inboxes)
    BY <1>1 DEF Inv, StagesTracked
  <2>3. CASE node' = node
    BY <2>3
  <2>4. CASE RegisterAgent(q)
    BY <2>2, <2>4 DEF RegisterAgent, At, Tracks, TypeOK, Terminal, NoNode
  <2>5. CASE Activate(q)
    BY <2>2, <2>5 DEF Activate, SetLifecycle, At, Tracks, TypeOK, Terminal, NoNode
  <2>6. CASE MarkCompleted(q) \/ MarkErrored(q)
    BY <2>2, <2>6 DEF MarkCompleted, MarkErrored, SetLifecycle, At, Tracks, TypeOK, Terminal,
       NoNode
  <2>7. CASE RemoveAgent(q)
    BY <2>2, <2>7 DEF RemoveAgent, At, Tracks, TypeOK, Terminal, NoNode
  <2>8. QED
    BY <2>1, <2>3, <2>4, <2>5, <2>6, <2>7 DEF OwnStep, SpawnStep, Admit, TimesOut, Hangs, TryReserve,
       Rollback, AgentMissing, NotSpawned, SendDelegate, ChatSucceeds, ChatRetries, ChatFails,
       RemoveInbox, Reject, Report
<1>2. Inv /\ [Next]_vars => [\A p \in Calls : Final(p)]_vars
  BY <1>1
<1>3. QED
  BY <1>2, SubAgentsInvariance, PTL DEF Spec, LifecycleIsFinal
\* Between the increment of try_reserve and taking it back there is no await, so a
\* call finds none of its own batch there, and an overshoot of another's is the only
\* reason to be refused below capacity.
THEOREM RefusalsAreExplained == Spec => RefusalsExplained
<1> DEFINE Explained(p) ==
             At(p, "gate") /\ call'[p].at = "rollback" =>
               \/ Cardinality(In(Guarded)) = MaxSpawns
               \/ \E q \in In({"rollback"}) : BatchOf[q] # BatchOf[p]
<1>1. ASSUME Inv, Next, NEW p \in Calls PROVE Explained(p)
  <2> SUFFICES ASSUME call[p].at = "gate", call'[p].at = "rollback",
                      \A q \in In({"rollback"}) : BatchOf[q] = BatchOf[p]
               PROVE  Cardinality(In(Guarded)) = MaxSpawns
    BY DEF At
  <2>1. TypeOK /\ GuardsCounted
    BY <1>1 DEF Inv
  <2>2. PICK r \in Calls : Polled(r) /\ (OwnStep(r) \/ Reject(r) \/ Report(r))
    BY <1>1, TwoKinds
  <2>3. r = p /\ OwnStep(p)
    <3>1. ASSUME OwnStep(r) PROVE r = p
      BY <2>1, <3>1, OwnSteps DEF Advances
    <3>2. ASSUME Reject(r) \/ Report(r) PROVE FALSE
      <4>1. PICK outcome \in Outcomes : Collects(r, outcome)
        BY <2>1, <3>2, CollectSteps
      <4>2. /\ call'[r].at = "ended"
            /\ \A q \in CutWith(r, outcome) : call'[q].at = "dropped"
            /\ \A q \in Calls \ (CutWith(r, outcome) \cup {r}) : call'[q] = call[q]
        BY <2>1, <4>1, Collected
      <4>3. QED
        BY <4>2
    <3>3. QED
      BY <2>2, <3>1, <3>2
  <2>4. budget >= MaxSpawns
    <3>1. ASSUME NEW s \in Running, s # "rollback", GoTo(p, s) PROVE FALSE
      BY <2>1, <3>1, GoesTo DEF Advances
    <3>2. ~Hangs(p)
      BY <2>1 DEF Hangs, TypeOK
    <3>3. TryReserve(p)
      BY <2>3, <3>1, <3>2 DEF OwnStep, SpawnStep, Admit, TimesOut, Rollback, AgentMissing, RegisterAgent,
         SendDelegate, Activate, ChatSucceeds, ChatRetries, ChatFails, MarkCompleted,
         MarkErrored, RemoveAgent, RemoveInbox, At, Guarded
    <3>4. QED
      BY <3>1, <3>3 DEF TryReserve, Running, Guarded
  <2>5. In(Held) = In(Guarded)
    <3>1. \A q \in Calls : call[q].at # "rollback"
      BY <2>2, <2>3 DEF In, Polled, Peers, At
    <3>2. QED
      BY <3>1 DEF In, Held
  <2>6. budget = Cardinality(In(Guarded)) /\ Cardinality(In(Guarded)) <= MaxSpawns
    BY <2>1, <2>5 DEF GuardsCounted, Held
  <2>7. QED
    BY <2>1, <2>4, <2>6, BoundAssumption DEF TypeOK
<1>2. Inv /\ [Next]_vars => [\A p \in Calls : Explained(p)]_vars
  BY <1>1
<1>3. QED
  BY <1>2, SubAgentsInvariance, PTL DEF Spec, RefusalsExplained

-----------------------------------------------------------------------------
(* The refinement *)

\* The calls whose execute_spawn is over, or that never came to it.
Gone == In({"report"} \cup Over)

\* A step that the gate does not see.
LEMMA GateRests ==
  ASSUME In(Guarded)' = In(Guarded), Gone' = Gone
  PROVE  [SpawnGate!GateNext]_(SpawnGate!gateVars)
BY DEF SpawnGate!gateVars, Gone

\* One call or several go.
LEMMA GateLeft ==
  ASSUME NEW gs \in SUBSET Calls, In(Guarded)' = In(Guarded) \ gs, Gone' = Gone \cup gs
  PROVE  [SpawnGate!GateNext]_(SpawnGate!gateVars)
<1>1. SpawnGate!Depart(gs)
  BY DEF SpawnGate!Depart, Gone
<1>2. QED
  BY <1>1 DEF SpawnGate!GateNext

\* try_reserve lets a call in: the counter, which is never below the number of
\* guards, had room.
LEMMA ReserveRefines ==
  ASSUME GuardsCounted, budget < MaxSpawns, NEW p \in Calls, Advances(p, "gate", "lookup")
  PROVE  [SpawnGate!GateNext]_(SpawnGate!gateVars)
<1>1. /\ p \notin In(Guarded) \cup Gone
      /\ In(Guarded)' = In(Guarded) \cup {p}
      /\ Gone' = Gone
  BY DEF Advances, In, Guarded, Gone, Over
<1>2. Cardinality(In(Guarded)) < MaxSpawns
  <2>1. /\ In(Guarded) \in SUBSET In(Held) /\ In(Held) \in SUBSET Calls
        /\ In(Guarded) \in SUBSET Calls
    BY DEF In, Held
  <2>2. /\ IsFiniteSet(In(Held)) /\ Cardinality(In(Held)) \in Nat
        /\ Cardinality(In(Guarded)) \in Nat
    BY <2>1, CallsFinite
  <2>3. Cardinality(In(Guarded)) <= Cardinality(In(Held))
    BY <2>1, <2>2, FS_Subset
  <2>4. budget = Cardinality(In(Held))
    BY DEF GuardsCounted, Held
  <2>5. QED
    BY <2>2, <2>3, <2>4, BoundAssumption
<1>3. SpawnGate!Cardinality(In(Guarded)) = Cardinality(In(Guarded))
  BY Zenon DEF SpawnGate!Cardinality, Cardinality
<1>4. SpawnGate!Enter(p)
  BY <1>1, <1>2, <1>3 DEF SpawnGate!Enter, Gone
<1>5. QED
  BY <1>4 DEF SpawnGate!GateNext

\* Of a call's own steps the gate sees the one that reserves and the one that ends
\* execute_spawn or takes an increment back.
LEMMA OwnRefines ==
  ASSUME TypeOK, GuardsCounted, NEW p \in Calls, OwnStep(p)
  PROVE  [SpawnGate!GateNext]_(SpawnGate!gateVars)
<1>1. PICK from \in {"queued"} \cup Running, s \in Running :
        /\ Advances(p, from, s)
        /\ \/ /\ budget' = budget
              /\ from \in Held <=> s \in Held
              /\ from \in Guarded <=> s \in Guarded
           \/ /\ budget' = budget + 1
              /\ from = "gate"
              /\ \/ s = "rollback"
                 \/ s = "lookup" /\ budget < MaxSpawns
           \/ budget' = budget - 1 /\ from \in Held /\ s = "report"
  BY OwnSteps
<1>2. /\ call[p].at = from /\ call'[p].at = s
      /\ \A q \in Calls \ {p} : call'[q] = call[q]
  BY <1>1 DEF Advances
<1>3. CASE from = "gate" /\ s = "lookup" /\ budget < MaxSpawns
  BY <1>1, <1>3, ReserveRefines
<1>4. CASE s = "report"
  <2>1. In(Guarded)' = In(Guarded) \ {p}
    BY <1>2, <1>4 DEF In, Guarded
  <2>2. Gone' = Gone \cup {p}
    BY <1>2, <1>4 DEF In, Gone, Over
  <2>3. {p} \in SUBSET Calls
    OBVIOUS
  <2>4. QED
    BY <2>1, <2>2, <2>3, GateLeft
<1>5. CASE (from \in Guarded <=> s \in Guarded) /\ from # "report" /\ s # "report"
  <2>1. In(Guarded)' = In(Guarded)
    BY <1>2, <1>5 DEF In
  <2>2. from \notin {"report"} \cup Over /\ s \notin {"report"} \cup Over
    BY <1>5 DEF Running, Guarded, Over
  <2>3. Gone' = Gone
    BY <1>2, <2>2 DEF In, Gone
  <2>4. QED
    BY <2>1, <2>3, GateRests
<1>6. CASE from = "report" /\ s # "report"
  <2>1. ~Hangs(p)
    BY <1>2, <1>6 DEF Hangs, TypeOK
  <2>2. QED
    BY <1>2, <1>6, <2>1, OwnStep(p) DEF OwnStep, SpawnStep, Admit, TimesOut, TryReserve, Rollback,
     AgentMissing, RegisterAgent, SendDelegate, Activate, ChatSucceeds, ChatRetries, ChatFails,
     MarkCompleted, MarkErrored, RemoveAgent, RemoveInbox, At, Guarded
<1>7. QED
  BY <1>1, <1>3, <1>4, <1>5, <1>6 DEF Guarded

\* A result that is collected takes its call, and those dropped with it, away.
LEMMA CollectRefines ==
  ASSUME TypeOK, NEW p \in Calls, NEW outcome \in Outcomes, Collects(p, outcome)
  PROVE  [SpawnGate!GateNext]_(SpawnGate!gateVars)
<1> DEFINE gs == CutWith(p, outcome) \cup {p}
<1>1. /\ CutWith(p, outcome) \subseteq Peers(p)
      /\ call'[p].at = "ended"
      /\ \A q \in CutWith(p, outcome) : call'[q].at = "dropped"
      /\ \A q \in Calls \ gs : call'[q] = call[q]
  BY Collected
<1>2. gs \in SUBSET Calls /\ \A q \in gs : call'[q].at \in Over
  BY <1>1 DEF Peers, Over
<1> HIDE DEF gs
<1>3. In(Guarded)' = In(Guarded) \ gs
  BY <1>1, <1>2 DEF In, Guarded, Over
<1>4. Gone' = Gone \cup gs
  BY <1>1, <1>2 DEF In, Gone
<1>5. QED
  BY <1>2, <1>3, <1>4, GateLeft

\* SpawnGuard implements the gate of AdmissionGate: whatever increments are about
\* to be taken back, a sub-agent enters only where there is room for it, once, and
\* leaves for good, also when its call is timed out or dropped with its batch.
THEOREM BudgetRefinement == Spec => BudgetKept
<1>1. Init => SpawnGate!GateInit
  <2> SUFFICES ASSUME Init PROVE SpawnGate!GateInit
    OBVIOUS
  <2>1. In(Guarded) = {} /\ Gone = {}
    BY DEF Init, In, Guarded, Gone, Over
  <2>2. QED
    BY <2>1 DEF SpawnGate!GateInit, Gone
<1>2. Inv /\ [Next]_vars => [SpawnGate!GateNext]_(SpawnGate!gateVars)
  <2> SUFFICES ASSUME Inv, [Next]_vars PROVE [SpawnGate!GateNext]_(SpawnGate!gateVars)
    OBVIOUS
  <2>1. TypeOK /\ GuardsCounted
    BY DEF Inv
  <2>2. CASE Next
    <3>1. PICK p \in Calls : OwnStep(p) \/ Reject(p) \/ Report(p)
      BY <2>2, TwoKinds
    <3>2. CASE OwnStep(p)
      BY <2>1, <3>2, OwnRefines
    <3>3. CASE Reject(p) \/ Report(p)
      BY <2>1, <3>3, CollectSteps, CollectRefines
    <3>4. QED
      BY <3>1, <3>2, <3>3
  <2>3. CASE UNCHANGED vars
    <3>1. In(Guarded)' = In(Guarded) /\ Gone' = Gone
      BY <2>3 DEF vars, In, Gone
    <3>2. QED
      BY <3>1, GateRests
  <2>4. QED
    BY <2>2, <2>3
<1>3. QED
  BY <1>1, <1>2, SubAgentsInvariance, PTL DEF Spec, BudgetKept, SpawnGate!GateSpec

-----------------------------------------------------------------------------
(* Where nothing accumulates *)

\* The comment of unregister_spawned_agent, "so neither accumulates entries per
\* spawn", holds of every call while none has been abandoned: dropping
\* execute_spawn before its end, by a timeout or a tripped breaker, is the only
\* way to leave a node or an inbox behind.
THEOREM OnlyAbandonedAccumulate ==
  Spec => []((\A p \in Calls : call[p].outcome # "abandoned") => NothingAccumulates)
<1>1. Inv => ((\A p \in Calls : call[p].outcome # "abandoned") => NothingAccumulates)
  BY DEF Inv, StagesTracked, Tracks, NothingAccumulates
<1>2. QED
  BY <1>1, SubAgentsInvariance, PTL
==============================================================================
