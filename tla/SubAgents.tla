------------------------------ MODULE SubAgents ------------------------------
(***************************************************************************)
(* Sub-agents: spawn_agent calls run by the tool executor in batches        *)
(* (orchestration/tool/executor.rs, execute_tools_concurrent), each of them *)
(* execute_spawn (orchestration/tool/extended/spawn_agent.rs) on the shared *)
(* SpawnGuard budget, agent tree and messenger (agents/communication).      *)
(*                                                                         *)
(* The calls of a batch are futures of one task: they interleave at their  *)
(* awaits, and a result is collected in the step that completes it. Batches *)
(* of different sessions run on different threads, and interleave at every  *)
(* access to what they share. Dropping a future runs the destructors of its *)
(* guards and nothing else of it.                                          *)
(***************************************************************************)
EXTENDS Integers, FiniteSets

CONSTANTS
  Calls,       \* spawn_agent tool calls
  Batches,     \* execute_tools_concurrent runs
  BatchOf,     \* the batch of a call
  Permits,     \* ToolExecConfig.max_concurrency
  Limit,       \* ToolExecConfig.circuit_breaker_limit, 0 = disabled
  MaxSpawns,   \* DEFAULT_MAX_CONCURRENCY of the budget
  MaxRetries   \* MAX_RETRIES

ASSUME BatchAssumption == BatchOf \in [Calls -> Batches] /\ IsFiniteSet(Calls)
ASSUME BoundAssumption ==
  Permits \in Nat \ {0} /\ Limit \in Nat /\ MaxSpawns \in Nat /\ MaxRetries \in Nat

VARIABLES
  call,      \* each call: its stage, whether it hangs there, its chat retries so
             \* far, and its outcome
  failures,  \* failure_count of each batch
  budget,    \* SPAWN_BUDGET, an AtomicU64
  node,      \* AgentTree: the lifecycle of the spawn's node, or NoNode
  inboxes    \* AgentMessenger: the spawns that have an inbox

vars == <<call, failures, budget, node, inboxes>>

\* Stages during which the call holds its SpawnGuard.
Guarded == {"lookup", "delegate", "activate", "chat", "completed", "errored",
            "unregister", "inbox"}

\* Stages during which it holds a permit of its batch.
Running == Guarded \cup {"gate", "rollback", "report"}

\* Collected, or dropped with its batch.
Over == {"ended", "dropped"}

\* "abandoned": execute_spawn was dropped before it came to its end.
Outcomes == {"none", "succeeded", "failed", "abandoned"}

NoNode == "None"
Terminal == {"Completed", "Errored"}
Lifecycles == {NoNode, "Registered", "Active"} \cup Terminal

TypeOK ==
  /\ call \in [Calls -> [at : {"queued"} \cup Running \cup Over,
                         hung : BOOLEAN,
                         retries : 0..MaxRetries,
                         outcome : Outcomes]]
  /\ failures \in [Batches -> 0..Cardinality(Calls)]
  /\ budget \in 0..Cardinality(Calls)
  /\ node \in [Calls -> Lifecycles]
  /\ inboxes \subseteq Calls

Init ==
  /\ call = [p \in Calls |-> [at |-> "queued", hung |-> FALSE, retries |-> 0,
                          outcome |-> "none"]]
  /\ failures = [b \in Batches |-> 0]
  /\ budget = 0
  /\ node = [p \in Calls |-> NoNode]
  /\ inboxes = {}

-----------------------------------------------------------------------------
At(p, stage) == call[p].at = stage

\* The attempts are counted in the chat's loop only.
Turn(stage, outcome) ==
  [at |-> stage, hung |-> FALSE, retries |-> 0, outcome |-> outcome]

GoTo(p, stage) == call' = [call EXCEPT ![p] = Turn(stage, call[p].outcome)]

EndWith(p, stage, outcome) == call' = [call EXCEPT ![p] = Turn(stage, outcome)]

In(stages) == {p \in Calls : call[p].at \in stages}

Peers(p) == {q \in Calls : BatchOf[q] = BatchOf[p]} \ {p}

\* p's task runs p: none of its peers is between two steps without an await.
Polled(p) == \A q \in Peers(p) : ~At(q, "rollback")

\* Mutant: the limit is compared with > instead of >=.
TripsLate(count) == Limit > 0 /\ count > Limit

\* The breaker of a batch: failures in total, successes do not reset them.
Trips(count) == Limit > 0 /\ count >= Limit

\* A peer is dropped: an execute_spawn that had begun is abandoned, the result of
\* one that had ended is thrown away.
Cut(q) ==
  Turn("dropped", IF At(q, "report") THEN call[q].outcome ELSE "abandoned")

\* Call p's result is collected. When the breaker trips the rest of the batch is
\* dropped, and with it the guards it holds.
Collect(p, outcome) ==
  LET b == BatchOf[p]
      count == IF outcome = "succeeded" THEN failures[b] ELSE failures[b] + 1
      cut == IF Trips(count) THEN Peers(p) \ In(Over) ELSE {}
  IN /\ failures' = [failures EXCEPT ![b] = count]
     /\ call' = [q \in Calls |-> IF q = p THEN Turn("ended", outcome)
                                 ELSE IF q \in cut THEN Cut(q)
                                 ELSE call[q]]
     /\ budget' = budget - Cardinality(cut \cap In(Guarded))

-----------------------------------------------------------------------------
(* execute_single_tool *)

\* A permit of the batch's semaphore.
Admit(p) ==
  /\ At(p, "queued")
  /\ Cardinality(Peers(p) \cap In(Running)) < Permits
  /\ GoTo(p, "gate")
  /\ UNCHANGED <<failures, budget, node, inboxes>>

\* What a call awaits without a timeout, before execute_spawn and after it: the
\* end of a permission hook's stdout, and the writes of the permission request and
\* of the tool's updates to a client that has stopped reading. A wait that ends
\* after all is a step that was slow; one that hangs ends only when the call is
\* dropped with its batch.
Hangs(p) ==
  /\ call[p].at \in {"gate", "report"}
  /\ ~call[p].hung
  /\ call' = [call EXCEPT ![p].hung = TRUE]
  /\ UNCHANGED <<failures, budget, node, inboxes>>

\* Invalid arguments, the permission gate, a listener or a hook: the tool is not
\* run.
Reject(p) ==
  /\ At(p, "gate")
  /\ Collect(p, "failed")
  /\ UNCHANGED <<node, inboxes>>

\* The profile's timeout: the executor abandons execute_spawn at an await.
TimesOut(p) ==
  /\ call[p].at \in Guarded
  /\ EndWith(p, "report", "abandoned")
  /\ budget' = budget - 1
  /\ UNCHANGED <<failures, node, inboxes>>

\* The completion is notified; the result returns to the batch.
Report(p) ==
  /\ At(p, "report")
  /\ Collect(p, call[p].outcome)
  /\ UNCHANGED <<node, inboxes>>

-----------------------------------------------------------------------------
(* execute_spawn *)

\* A spawn that is refused after all.
NotSpawned(p) ==
  /\ EndWith(p, "report", "failed")
  /\ budget' = budget - 1
  /\ UNCHANGED <<failures, node, inboxes>>

\* Mutant: the budget is compared with the increment of this call in it.
TryReserveEarly(p) ==
  /\ At(p, "gate")
  /\ budget' = budget + 1
  /\ GoTo(p, IF budget + 1 >= MaxSpawns THEN "rollback" ELSE "lookup")
  /\ UNCHANGED <<failures, node, inboxes>>

\* Mutant: the budget is compared with > instead of >=.
TryReserveLate(p) ==
  /\ At(p, "gate")
  /\ budget' = budget + 1
  /\ GoTo(p, IF budget > MaxSpawns THEN "rollback" ELSE "lookup")
  /\ UNCHANGED <<failures, node, inboxes>>

\* SpawnGuard::try_reserve adds first and looks afterwards.
TryReserve(p) ==
  /\ At(p, "gate")
  /\ budget' = budget + 1
  /\ GoTo(p, IF budget >= MaxSpawns THEN "rollback" ELSE "lookup")
  /\ UNCHANGED <<failures, node, inboxes>>

\* Mutant: the increment is not taken back.
RollbackForgotten(p) ==
  /\ At(p, "rollback")
  /\ EndWith(p, "report", "failed")
  /\ UNCHANGED <<failures, budget, node, inboxes>>

\* Over capacity: the increment is taken back and the spawn fails.
Rollback(p) == At(p, "rollback") /\ NotSpawned(p)

\* No such agent: the error return drops the guard.
AgentMissing(p) == At(p, "lookup") /\ NotSpawned(p)

RegisterAgent(p) ==
  /\ At(p, "lookup")
  /\ node' = [node EXCEPT ![p] = "Registered"]
  /\ GoTo(p, "delegate")
  /\ UNCHANGED <<failures, budget, inboxes>>

\* The Delegate message: its only target is this spawn's node, whose fresh inbox
\* cannot be full.
SendDelegate(p) ==
  /\ At(p, "delegate")
  /\ inboxes' = inboxes \cup {p}
  /\ GoTo(p, "activate")
  /\ UNCHANGED <<failures, budget, node>>

\* set_lifecycle changes a node that is there.
SetLifecycle(p, state) ==
  node' = [node EXCEPT ![p] = IF node[p] = NoNode THEN NoNode ELSE state]

Activate(p) ==
  /\ At(p, "activate")
  /\ SetLifecycle(p, "Active")
  /\ GoTo(p, "chat")
  /\ UNCHANGED <<failures, budget, inboxes>>

ChatSucceeds(p) ==
  /\ At(p, "chat")
  /\ EndWith(p, "completed", "succeeded")
  /\ UNCHANGED <<failures, budget, node, inboxes>>

\* Mutant: attempts are not counted.
ChatRetriesForEver(p) ==
  /\ At(p, "chat")
  /\ call' = [call EXCEPT ![p] = [at |-> "chat", hung |-> FALSE, outcome |-> call[p].outcome,
         retries |-> IF call[p].retries < MaxRetries THEN call[p].retries + 1 ELSE 0]]
  /\ UNCHANGED <<failures, budget, node, inboxes>>

\* A transient failure, or a timeout of the attempt: try again.
ChatRetries(p) ==
  /\ At(p, "chat")
  /\ call[p].retries < MaxRetries
  /\ call' = [call EXCEPT ![p] = [at |-> "chat", hung |-> FALSE,
                                 retries |-> call[p].retries + 1,
                                 outcome |-> call[p].outcome]]
  /\ UNCHANGED <<failures, budget, node, inboxes>>

\* Mutant: the node is not marked before it is removed.
ChatFailsUnmarked(p) ==
  /\ At(p, "chat")
  /\ EndWith(p, "unregister", "failed")
  /\ UNCHANGED <<failures, budget, node, inboxes>>

\* A failure that is not transient, or the last attempt's.
ChatFails(p) ==
  /\ At(p, "chat")
  /\ EndWith(p, "errored", "failed")
  /\ UNCHANGED <<failures, budget, node, inboxes>>

MarkCompleted(p) ==
  /\ At(p, "completed")
  /\ SetLifecycle(p, "Completed")
  /\ GoTo(p, "unregister")
  /\ UNCHANGED <<failures, budget, inboxes>>

\* Mutant: the error path returns without unregistering.
MarkErroredOnly(p) ==
  /\ At(p, "errored")
  /\ SetLifecycle(p, "Errored")
  /\ GoTo(p, "report")
  /\ budget' = budget - 1
  /\ UNCHANGED <<failures, inboxes>>

MarkErrored(p) ==
  /\ At(p, "errored")
  /\ SetLifecycle(p, "Errored")
  /\ GoTo(p, "unregister")
  /\ UNCHANGED <<failures, budget, inboxes>>

\* cleanup_agent: the node first,
RemoveAgent(p) ==
  /\ At(p, "unregister")
  /\ node' = [node EXCEPT ![p] = NoNode]
  /\ GoTo(p, "inbox")
  /\ UNCHANGED <<failures, budget, inboxes>>

\* then the inbox; execute_spawn returns and drops its guard.
RemoveInbox(p) ==
  /\ At(p, "inbox")
  /\ inboxes' = inboxes \ {p}
  /\ GoTo(p, "report")
  /\ budget' = budget - 1
  /\ UNCHANGED <<failures, node>>

-----------------------------------------------------------------------------
SpawnStep(p) ==
  \/ TryReserve(p)
  \/ Rollback(p)
  \/ AgentMissing(p)
  \/ RegisterAgent(p)
  \/ SendDelegate(p)
  \/ Activate(p)
  \/ ChatSucceeds(p)
  \/ ChatRetries(p)
  \/ ChatFails(p)
  \/ MarkCompleted(p)
  \/ MarkErrored(p)
  \/ RemoveAgent(p)
  \/ RemoveInbox(p)

CallStep(p) ==
  Polled(p) /\ ~call[p].hung /\ (Admit(p) \/ Reject(p) \/ SpawnStep(p) \/ Report(p))

Next == \E p \in Calls : CallStep(p) \/ (Polled(p) /\ (TimesOut(p) \/ Hangs(p)))

Spec == Init /\ [][Next]_vars

\* Futures are polled, and every attempt's chat is cut off by its own timeout;
\* nothing is assumed of the executor's timeout.
FairSpec == Spec /\ \A p \in Calls : WF_vars(CallStep(p))

-----------------------------------------------------------------------------
(* Safety *)

\* The budget counts the guards held and the increments not yet taken back, so
\* no error return, timeout or tripped breaker leaks a slot or frees one twice,
\* and never more than MaxSpawns sub-agents run.
GuardsCounted ==
  /\ budget = Cardinality(In(Guarded \cup {"rollback"}))
  /\ Cardinality(In(Guarded)) <= MaxSpawns

\* A sub-agent that talks is in the tree, active and with an inbox; an
\* execute_spawn that came to its end, whichever way, left neither node nor inbox.
NodeTracksSpawn ==
  \A p \in Calls :
    /\ At(p, "chat") => node[p] = "Active" /\ p \in inboxes
    /\ At(p, "unregister") => node[p] \in Terminal
    /\ call[p].at \in {"report"} \cup Over /\ call[p].outcome # "abandoned" =>
         node[p] = NoNode /\ p \notin inboxes

\* failure_count counts the collected calls that did not succeed, abandoned ones
\* included, whatever order they complete in; a batch never gets past its limit,
\* and nothing of a batch that reached it goes on.
BreakerHonoured ==
  \A b \in Batches :
    LET batch == {p \in Calls : BatchOf[p] = b}
    IN /\ failures[b] = Cardinality({p \in batch \cap In({"ended"}) :
                                       call[p].outcome # "succeeded"})
       /\ Limit > 0 => failures[b] <= Limit
       /\ Limit > 0 /\ failures[b] = Limit => batch \subseteq In(Over)

\* A node's lifecycle ends before the node goes, and a terminal state is never
\* left.
LifecycleIsFinal ==
  [][\A p \in Calls :
       /\ node[p] \in Terminal => node'[p] \in {node[p], NoNode}
       /\ node[p] # NoNode /\ node'[p] = NoNode => node[p] \in Terminal]_vars

\* A spawn is refused only while MaxSpawns sub-agents run, or while a call of
\* another batch is about to take its increment back: an overshoot, which makes
\* try_reserve refuse below capacity, never comes from the call's own batch and
\* never outlives the call that made it.
RefusalsExplained ==
  [][\A p \in Calls :
       At(p, "gate") /\ call'[p].at = "rollback" =>
         \/ Cardinality(In(Guarded)) = MaxSpawns
         \/ \E q \in In({"rollback"}) : BatchOf[q] # BatchOf[p]]_vars

(* What the guard promises, implemented with an atomic counter *)

SpawnGate == INSTANCE AdmissionGate WITH
  Guests <- Calls,
  Capacity <- MaxSpawns,
  phase <- "open",
  inside <- In(Guarded),
  past <- In({"report"} \cup Over)

\* SpawnGuard is a gate for MaxSpawns sub-agents: one enters when there is room
\* for it, increments about to be taken back notwithstanding, only once per call,
\* and leaves, alone or with the batch it is dropped with, for good.
BudgetKept == SpawnGate!GateSpec

(* Liveness *)

\* Calls that hang hold every permit of p's batch.
Starved(p) ==
  /\ At(p, "queued")
  /\ Cardinality({q \in Peers(p) : call[q].hung}) >= Permits

\* Every call of every batch is answered or abandoned, whatever the agents do,
\* except those that hang at the gate or at their report, and those of the same
\* batch that wait for a permit these keep: a call that hangs stops no other one,
\* of its batch or of another, as long as a permit is left.
CallsEnd ==
  <>[](\A p \in Calls : call[p].at \in Over \/ call[p].hung \/ Starved(p))

-----------------------------------------------------------------------------
(* What the code's documentation claims *)

\* "so neither accumulates entries per spawn": only calls in progress have a
\* node in the tree or an inbox.
NothingAccumulates ==
  \A p \in Calls : node[p] # NoNode \/ p \in inboxes => call[p].at \notin Over
=============================================================================
