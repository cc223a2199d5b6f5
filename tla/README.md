# A TLA+ verification of go-on's concurrent core

go-on is a Rust server that runs AI agents for editors, chat platforms and
schedules. Most of it is text processing and HTTP; what is hard to test is a
number of components in which several tasks, threads, processes or messages
meet on shared state. This directory models those components in TLA+, checks
small instances with TLC and proves the main safety results for every value of
the constants with TLAPS.

Paths below are relative to the crate's `src/` directory.

## Inventory

Modelled:

| Component | State | Operations | What makes it hard | What makes it correct |
|---|---|---|---|---|
| Hyper-resilience engine (`resilience/hyper_resilience`) | circuit breakers, outcome counters, health status, each map behind its own mutex | record outcome / execution / failure / success, availability, recovery, healing, a background health-check task | operations take the mutexes one after the other; probes are awaited between a decision and its effect | a breaker trips at its threshold and leaves Open only through its timeout or a reset; counters agree; an open breaker is retried |
| Gateway (`gateway`) | turn leases per chat (memory), delivery ledger (SQLite) | webhook request: dedup, claim, turn, record, reply | concurrent deliveries and redeliveries, turns that hang, expiry, lost replies, crashes | one turn per chat, no second turn for a delivered message, no reply that is not recorded, no chat blocked for ever |
| User-level cron (`orchestration/schedule/cron.rs`, `acp/background.rs`, `cli/cron.rs`) | job and run tables (SQLite), running set (memory, per process) | tick, claim, run, finish, recover, add / remove / enable / disable | crashes between statements, failing statements, panics, several processes on one database | no overlap, the schedule ahead of the last completion, nothing lost silently, due jobs run |
| Sub-agents (`orchestration/tool/executor.rs`, `orchestration/tool/extended/spawn_agent.rs`, `agents/communication`) | permits and failure count per batch, spawn budget (atomic), agent tree, inboxes | batch of tool calls, spawn, retry, lifecycle, cleanup | futures dropped at any await, batches on different threads, an atomic that overshoots | slots neither leaked nor freed twice, the batch stops at its limit, finished spawns leave nothing behind, every call ends that nothing un-timed holds up |
| Permission gate (`orchestration/tool/executor.rs`, `governance_gate.rs`, `governance/approval_chain.rs`, `acp/server.rs`) | cache of verdicts per session and tool, senders of pending client requests | ask cache, hooks, client; answer, timeout, drop | concurrent requests of one tool, answers late, repeated or missing, hooks and writes that hang, a lock held across a write | a verdict once cached stays, an answer reaches the call that waits, no sender is left behind, every call is decided that nothing un-timed holds up |
| ACP terminals (`acp/impl/request/protocol_pack/terminal.rs`) | bounded map of processes, output buffer and read offset of each | create, output, kill, release, wait_for_exit; two reader threads each | making room and inserting are separate, the buffer's front moves, a terminal goes while it is waited for | offsets stay in the buffer, no process outlives its entry unkilled, the map is bounded, waits end |
| ACP server (`acp/impl/runtime.rs`, `acp/impl/request/mod.rs`, `acp/server.rs`, `shared/tcp_accept_loop.rs`) | shutdown flag, two `Notify`s, semaphore of requests in flight, gauge, cancellation marks | stdio and HTTP loops, admission, drain, cancel, shutdown | flag and notification are separate, permits are awaited while the drain begins, panics | no permit lost, nothing admitted after the drain, a request for shutdown is honoured, no mark without a target |
| File tools and tool locks (`orchestration/tool/lock.rs`, `builtin_tools.rs`, `extended/filesystem.rs`) | reader-writer lock per path, the file | read_file, write_file (both modes), edit_file, tools that take no lock | read-modify-write, writes that go on after their future is dropped | an edit loses no update, a locked read sees no half-written file |

Not modelled, with the reason in `PROJECT.json`: bulkhead, execution governor
and multi-target messages, chat fallback, council, hot failover, fault
tolerance, rate limiting, state synchronisation, planner and DAG execution,
event bus, governance rules, memory, intelligence, provider clients, command
line, GUI, SDKs. See also *Not modelled* below.

How they interact: the executor asks the permission gate before every tool call
and reports every outcome to the resilience engine (`report_tool_execution`);
the gateway runs its intercepted tool calls, `spawn_agent` among them, through
the executor while it holds a turn lease; cron runs workflows through the ACP
server's executor; the answers of the client to permission requests come in
through the ACP server's loop; the health-check task and the cron loop are
started once per server process by `start_background_tasks`. What one component
sees of another is an outcome - a tool call that succeeds, fails, hangs or is
dropped, a request that ends or panics - and each module lets every outcome
happen.

## Modules

**`CircuitBreaker`** - one breaker and the pure functions of `state.rs`. Failure
count and time since the last failure saturate at the only values the code
compares them with, so the module needs no clock and is finite for every
setting. It also defines what a sound breaker and a legal change are.

**`HyperResilience`** - the engine. One action is one critical section; what an
operation carries from one section to the next is in `task[t]`. The
health-check task is a state machine of its own (`cycle`): it snapshots the
names, probes each, assesses, collects the open ones and heals them, with every
TCP probe as a point where others run. A probe connects or not by
nondeterministic choice, and never for a name that is not `host:port`.
`RecordSpec` restricts the engine to the recording paths, for the one run that
checks a claim about them.

**`Gateway`** - handlers are connection tasks; actions are the stretches of
`handle_webhook_request` between two points where another task can run. The
lease map stores the age of each claim. `sent` and `overran` are history
variables. `Crash` loses handlers and leases and keeps the ledger.

**`TurnDelivery`** - what the gateway promises, with no leases, clock or stages:
a message is accepted if it is not recorded, a turn is claimed if the chat has
none (or one that takes too long), a reply goes out for a recorded message.
`Gateway` implements it (`DeliveryKept`); the refinement mapping reads accepted
messages and turns off the stages of the handlers.

**`Cron`** - the store statement by statement: SQLite makes a statement atomic,
and an operation of two statements is two actions with the process's mutex held
in between. `NextFire` is the schedule as an arbitrary function whose values lie
after their argument, which is all the code needs of the cron expression
library. `leaked` and `raced` are history variables that name the two ways in
which the store departs from its own discipline: a run that ended without
releasing its marker, and a schedule overwritten by a stale command.

**`SubAgents`** - calls are futures of their batch's task: they interleave at
awaits, and calls of different batches at every access to shared state. The one
stretch without an await that is split (`TryReserve` / `Rollback`, an atomic
add and subtract) is kept from same-batch interleavings by `Polled`. Dropping a
future is `TimesOut` and `Cut`: the guard is released, nothing else happens.
`Hangs` is a wait that never ends: the executor's timeout covers `execute_spawn`
only, not the permission gate before it nor the updates written to the client
before and after it. A call that hangs keeps its permit of the batch until the
batch drops it.
The budget implements `AdmissionGate` (`BudgetKept`).

**`Permission`** - a call goes through cache, hooks and client; each await is a
point where it may be dropped. The registry of senders, the message in the
serve loop's hands and the oneshot channel are separate state, because the
timeout, the answer and the drop of the call race each other there; answers to
different calls are delivered concurrently, as the HTTP connections do. A hook
fails, is killed by its timeout, has no opinion or decides. What is awaited
without a timeout may also hang (`Untimed`, `Hangs`): the read of a hook's stdout,
which a process that the hook left behind keeps open, and every write to the
client - the request and its notification, and the update that tells the client
of a rejection. When the request has timed out that update is written with the
registry's lock held (stage "expiring", `server.rs:1561-1569`), and meanwhile
nobody registers, withdraws, expires or answers a request (`RegistryFree`).

**`Terminal`** - an action is a critical section of the terminal map or of one
output buffer. Bytes are numbered in the order of their arrival, so a buffer is
its length and the number of its last byte.

**`AcpServer`** - the loop of either transport, the tasks of the requests, the
drain waiter. The two `Notify` objects are modelled by what they do:
`notify_waiters` reaches whoever is in its `select!` and nobody else
(`heard`), `notify_one` stores one notification (`stored`). The semaphore is
first come, first served. A stdio line that is no request is seen to by the loop
itself (`OtherLine`): the error written for a malformed one, and the registry's
lock an answer waits for, have no timeout, so the loop may hang there, or end
when the write fails.

**`AdmissionGate`** - bounded admission with no permits, queue, counter or
notifications: at most so many guests are inside, each comes in once, none
once the gate is closing, and the gate is drained only when it is empty.
Two components implement it. `AcpServer` does with `DrainGuard`
(`AdmissionKept`), for the JSON-RPC requests of `handle_request`, the only ones
that ask for a permit: the refinement mapping reads the phase off the drain flag
and the waiter, and who is inside off the stages of the requests. `SubAgents`
does with `SpawnGuard` (`BudgetKept`): the gate is never closed, inside are the
calls that hold a guard, and several leave at once when a batch is cut off
(`Depart`).

**`FileTools`** - several calls on one path. The content of the file is the set
of calls whose text is in it, which is enough to say that an update was lost,
or "torn" between truncation and write. A write of the blocking pool goes on
when the future that started it is gone. `raced` and `spoilt` are history
variables: they name the edits and the reads that an unlocked writer hit.

**`MC*`** instantiate them. `MCServer` holds the last four modules: they share
no variable, so every behaviour there is a behaviour of one of them (`focus`),
with the others in their initial states; an interleaving of two would add
states and no new behaviour of either. `*Proofs` hold the theorems. Operators
marked *Mutant* or *Mutation* in a module are plausible bugs used to show that
each property can fail; no specification refers to them.

## Runs

| Run | Checks | Bounds and why they suffice |
|---|---|---|
| `resilience` | `TypeOK`, `TripsAtThreshold`, `CountersSane`, `NeverDegraded`, `BreakerSteps`, `OpenIsRetried` | one service, two callers and the health-check task, threshold 2, timeout 2 ticks, 3 requests: two callers reach every pairwise interleaving of the multi-lock operations; services share no state but the health-check's count (946 000 states) |
| `resilience_drift` | violates `NeverDrift` | two concurrent recordings of one service, a failure and a success |
| `gateway` | `TypeOK`, `LeaseTracksHolder`, `SentIsRecorded`, `SettledForGood`, `ChatsReopen`, `DeliveryKept` | two handlers, two messages of one chat and one of another, a lease of 2 ticks: redelivery of a message, competition for a chat, and expiry all occur |
| `gateway_lease` | violates `LeaseRespected` | three handlers |
| `cron` | `TypeOK`, `MarkerTracksRun`, `ScheduleAhead`, `RunsAreRecoverable`, `DueJobsRun` | one server, two jobs of which one fires twice, clock up to 2 |
| `cron_overlap` | violates `NeverTwiceAtOnce` | two servers, one job |
| `subagents` | `GuardsCounted`, `NodeTracksSpawn`, `BreakerHonoured`, `LifecycleIsFinal`, `RefusalsExplained`, `BudgetKept`, `CallsEnd` | a batch of three calls with two permits and a limit of one, a call of another session, a budget of one, one retry: refusal, overshoot, a refusal below capacity because of it, a trip with a call in flight, and a call that finds both permits in the hands of calls that hang (247 000 states) |
| `subagents_leak` | violates `NothingAccumulates` | one call, dropped right after its node was registered |
| `server`, terminals | `ReadOffsetSound`, `NoneOrphaned`, `TerminalsBounded`, `WaitsEnd` | three terminals, two workers, a map of 1 and a buffer of 2 bytes, one process that writes 3: concurrent creates pass the bound, an eviction meets a wait, the buffer overflows |
| `server`, server loop | `PermitsConserved`, `DrainNoticed`, `ActiveCounted`, `MarksHaveTargets`, `AdmissionKept`, `ShutdownHonoured` | three requests, two with one id, one in flight, two connections, one mark: a queue, a full registry, a drain with a request between its two looks. Admission is that of JSON-RPC requests only: the HTTP chat and `/v1` routes (`acp/impl/runtime/http.rs:664,754,846,967`) take no permit of `DrainGuard`, and `AdmissionKept` says nothing of them |
| `server`, permission gate | `AnswerCanArrive`, `NoStaleSender`, `VerdictStable`, `CallsDecided` | two calls of one tool and one of another, one hook, a cache of one entry: a race for one key, an eviction, a call that hangs with the registry's lock and one that waits for it |
| `server`, file tools | `EditsKeepUpdates`, `LockedReadsWhole` | one call of each kind of access (the four together: 362 000 states) |
| `terminal_output` | violates `NewOutputReturned` | the instance of `server`; the trace needs one terminal |
| `accept_loop` | violates `AcceptLoopStops` | the instance of `server`; the trace needs one request and a shutdown |
| `permission_errors` | violates `ErrorsNotCached` | the instance of `server`; the trace needs one call |

Deadlock is checked except where everything comes to its end: in the
`subagents` and `server` runs, calls, requests and terminals are used once.
`MaxRequests`, `MaxTime` and `MaxBytes` are the only bounds in guards; the
proofs hold for every value of them. The types of the sub-agents, the server,
the permission gate, the terminals and the file tools are proved and not part of
a run.

**Fairness.** `resilience`: the clock advances and the health-check task is
polled; callers owe nothing. `gateway`: only time passes - a turn may hang, and
the lease must expire all the same. `cron`: the loop keeps ticking, the
synchronous end of `finish_run` completes, and a claim that can be made again
and again is not refused for ever (strong fairness: the store may fail, not
always); runs may hang and servers stay down. `subagents`: every future is
polled, and each attempt's chat is cut off by its own timeout (120 s), the wait
for the client's answer by its 15 s. No fairness is assumed where nothing is
timed: a call at the gate or at its report may hang (`Hangs`), and takes no step
then. `CallsEnd` excepts the calls that hang and those that wait for a permit
while calls that hang hold all of their batch's. Nothing is assumed of the
executor's own timeout. `server`: the poll timer of `wait_for_exit` fires; the
serve loop is polled, its 200 ms timer fires and a notification it has heard
wakes it, but it may hang in a write or at the registry's lock, which
`ShutdownHonoured` excepts; the future of a tool call is polled and its timers
fire, but a hook's stdout and the writes to the client have none: `CallsDecided`
excepts the calls that hang there, and those that need the registry while one of
them has hung with its lock. The exceptions are needed: without the one for
permits TLC finds `CallsEnd` violated, without the one for the lock
`CallsDecided`. Processes, reader threads, clients, hooks,
signals and requests owe nothing.

## Where code and comments disagree

Each of these but the last is a run that TLC finds violated, on a trace of what
the code does.

1. `engine.rs:245`, "breaker and health can never drift": an outcome is given to
   the counters under one lock and to the breaker under another, and
   `record_execution` takes them in the opposite order of `record_outcome`. Of a
   failure and a success recorded at once the counters may have one last and the
   breaker the other. For the same reason the stored status may be older than the
   counters (`StatusCurrent`, which no run checks). Both are true as long as
   recordings of one service do not overlap (`SerialNeverDrifts`, proved).
2. `session.rs:26-31`, one turn per chat, "`try_claim` succeeds only when no
   unexpired lease exists": the guard of a turn that outlived its lease removes
   the lease of its successor. A turn may take 600 s of streaming - the lease's
   whole duration - plus joining and tools.
3. `cron.rs:281`, "can never fire twice concurrently": true within a process
   (`MarkerTracksRun`) and of a server alone on its directory
   (`LoneServerNeverOverlaps`, both proved), not across server processes.
4. `spawn_agent.rs:664-669`, "neither accumulates entries per spawn": true while
   no spawn is abandoned (`OnlyAbandonedAccumulate`, proved), not of those the
   executor's timeout drops: in the trace at the first await after the node was
   registered, so that the node stays in the tree. The inbox, made by the next
   step, is removed by the same cleanup only.
5. `terminal.rs:130`, "only the output accumulated since the previous call":
   once the buffer is full and has been read to its end, `read_offset` stays at
   the cap while old bytes are dropped, and later output is never returned.
6. `tcp_accept_loop.rs:51`, "loops until ... `shutdown_notify` fires": a request
   for shutdown that comes while the loop hands over a connection notifies
   nobody. The stdio loop polls the flag and stops (`ShutdownHonoured`).
7. `executor.rs:757`, "only cache definitive allow/deny, not errors": an error or
   a timeout is cached as an approval.
8. `types.rs:83`, "Success-rate threshold below which a service is classified
   Degraded" (0.8): such a service has an error rate above 0.1 and the code
   (`engine.rs:213-219`) asks for that first, so it is Unhealthy, and no service
   is ever Degraded. This one is a property that holds of the code,
   `NeverDegraded` in the run `resilience`, and is proved (`DegradedIsDead`).

Noted while reading, and not the subject of a run:

- The gateway records before it sends (`webhook.rs:209`; `SentIsRecorded` is what
  that order buys), so a reply lost on the way is never repeated.
- `edit_file` "cannot interleave" (`filesystem.rs:288-291`): with locked tools
  only. A `write_file` whose future was dropped, or in append mode (the tokio
  `File` returns before the bytes are on disk and is not flushed), writes after
  its lock has gone; `apply_patch` and `apply_code_action` take no lock, though
  `lock.rs:3` names `apply_patch`. `EditsKeepUpdates` holds for the edits that
  none of these hit. A read that finds the file write-locked goes on without the
  lock (`builtin_tools.rs:270`) and may see it truncated.
- "Reading stdout cannot hang" (`approval_chain.rs:265`): it does when a process
  that the hook started keeps it open.
- "A shutdown is honored within 200ms in every interleaving"
  (`acp/impl/runtime.rs:172-176`): of the loop in its `select!`. A loop that writes
  an error to a client that has stopped reading, or waits for the registry's lock
  behind such a write, does not look at the flag (`ShutdownHonoured` excepts it).
- The rejected update after a timed-out permission request is written with the
  lock of `pending_client_requests` held (`server.rs:1561-1569`): one client that
  has stopped reading holds up the permission requests of all sessions.
- The client is offered "AllowOnce" and "RejectOnce" (`server.rs:1488-1497`), and
  the verdict is cached for the session (`executor.rs:636-638`).
- A fire time may be run again when the advance of the schedule fails after the
  run's row was finished, when the server dies before it, or when a second server
  claims the job; `ScheduleAhead` is about completions that were recorded.
- The HTTP chat and `/v1` routes are neither counted nor refused by `DrainGuard`: a
  drain does not wait for them.
- When a permission request fails the client is told "rejected" and the tool is
  allowed. `session/cancel` says that it clears granted permissions; the cache
  of verdicts keeps them.
- A `$/cancel_request` that comes after its request ended leaves a mark
  (`request/mod.rs:944`) that a later request with this id meets; ids are shared
  by all HTTP clients; the registry evicts an arbitrary mark, not the oldest.
- A request refused between its two looks at the drain flag drops its bare permit
  and notifies nobody (`server.rs:192`); when it is the last, the drain waiter
  sleeps on until its timeout. `DrainNoticed` excepts this case by the history
  variable `silent` and shows that there is no other.
- Evicted terminals are killed and not waited for.
- `start_health_checks` called twice starts two tasks; `PromoteReplica` may
  promote the leader that failed; `send_at_least_once` repeats a message to the
  targets before a full inbox; a child registered before its parent is never
  linked. Nothing in the program calls these that way today.
- `ToolExecConfig.circuit_breaker_limit` counts failures in total where its
  comment says consecutive.

## Proofs

Each proof module extends its component and proves, for every value of the
constants that meets the named assumptions, `Init => Inv`, `Inv /\ [Next]_vars
=> Inv'` and the properties from `Inv`. There is one lemma per action or group
of actions.

- **`HyperResilienceProofs`** (services finite and not empty, threshold and
  timeout naturals, zero included). `Inv` is the type invariant, the soundness
  of every breaker, the counters' inequality, and that no status in flight or
  stored is Degraded. `TripsAtThreshold` alone is not inductive without the
  type of the saturating count; `NeverDegraded` needs the counters, because the
  status is computed in one section and stored in another. The action property
  `BreakerSteps` follows from the type invariant and the lemmas on the pure
  functions. `SerialNeverDrifts` says what is true of the comment that run
  `resilience_drift` refutes: in every behaviour of the recording paths
  (`RecordSpec`) in which no two tasks record the same service at once
  (`Serial`), the breaker's count (`NeverDrift`) and the stored status
  (`StatusCurrent`) agree with the counters whenever none does. Its
  invariant `Agreeing` follows a recording section by section - which of the
  three maps already has the outcome and which status the task carries - for
  either order in which the code takes them, and asks nothing of tasks that
  record other services.
- **`GatewayProofs`** (each message has a chat, the lease time is positive).
  `Inv` adds to `LeaseTracksHolder` that a holder's age is the lease's while the
  chat has not overrun and that a holder whose age reached the lease time marks
  its chat as overrun - which is what lets a claim on an expired lease keep
  exclusivity - and to `SentIsRecorded` that whoever is about to reply has been
  recorded. `SettledForGood` is an action property. `Refinement` shows that
  `Gateway` implements `TurnDelivery`: with `Inv`, every handler step, tick and
  crash is an abstract step or a stutter. The one step that needs the invariant
  in full is the claim: that the lease is free has to mean that nobody runs a
  turn of the chat, or that the chat has overrun.
- **`CronProofs`** (schedules fire strictly later, any number of servers). `Inv`
  relates tasks, markers, leaks and ticks of each server, bounds completion
  times by the clock, and carries the command's half-done update; `ScheduleAhead`
  rests on the last two. `RunsAreRecoverable` needs that a server that is down
  has no tasks and that two unfinished runs of a job cannot share a row.
  `SnapshotHolds`: the jobs a tick found due, and has not come to yet, are not
  running in this server, although `due_jobs` and `begin_run` take the mutex
  separately and runs end, panic and restart in between; so `begin_run`'s own
  look at the running set never refuses, and a claim fails only when its INSERT
  does. `LoneServerNeverOverlaps` has the single server as its hypothesis, which
  the run `cron_overlap` does not meet.
- **`SubAgentsProofs`** (finitely many calls, a batch for each, at least one
  permit; limit, budget and retries may be zero). The budget is a cardinality:
  each step is shown to change the set of calls that count by the one element by
  which it changes the atomic, and the type of the counter - that it never wraps
  below zero - follows from what it counts. `NodeTracksSpawn` is not inductive;
  `StagesTracked` says for every stage of `execute_spawn` what the tree and the
  inboxes hold, which is also what the action property `LifecycleIsFinal` needs.
  `BreakerHonoured` needs, besides the count of collected failures, that a trip
  cuts every call of its batch that runs - and that none of them is between its
  atomic add and subtract then (`Polled`), or the budget would lose an increment.
  `RefusalsExplained`, an action property, follows from the same two facts: a
  call that is refused finds nobody of its own batch in between, so without an
  overshoot of another batch the counter is the number of guards.
  `BudgetRefinement` shows that `SubAgents` implements `AdmissionGate`; the step
  that needs the invariant is the reservation, where the counter, which may be
  above the number of guards and never below it, stands for the guests inside.
- **`AcpServerProofs`** (finitely many requests, any assignment of ids, limits
  of at least one). `ServerInv` adds to the checked properties that the queue
  holds each waiting request once (`QueueFits`: without it a permit handed over
  could be counted twice), that the drain has begun before the waiter looks
  (`DrainStarted`), that the drained server is quiet (`DrainedIsQuiet`), and
  that a panicked task has nothing left but its permit (`PanicsOver`).
  `AdmissionRefinement` shows that `AcpServer` implements `AdmissionGate`. Two
  steps need the invariant: an admission stays within the capacity because
  permits are conserved, and the drain ends with nobody inside because every
  permit is back.
- **`PermissionProofs`** (any calls, tools and number of hooks, a cache of at
  least one entry). `AnswerCanArrive` does not say that the sender in the serve
  loop's hands is the last one of its call; the invariant says where the sender
  of each call is, and that it is used once. The registry part is then shown of
  every way in which a request to the client ends; only the drop of a call leaves
  its sender, which is what `NoStaleSender` excepts. `VerdictStable` needs that a
  key occurs once in the shard (`KeysDistinct`), hence that the second of two
  concurrent inserts of a key finds the first.
- **`TerminalProofs`** (finitely many terminals, at least one worker, bounds of
  at least one). `ReadOffsetSound` rests on `BuffersSound`, what a buffer holds
  of what was appended. `NoneOrphaned` needs that a terminal not yet in the map
  is in the hands of a worker (`ProcessesHeld`). `TerminalsBounded` needs
  `RoomCounted`: terminals in the map and room made for more, together, stay
  below the bound plus the number of workers.
- **`FileToolsProofs`** (finitely many calls, of any tools). `LockExact` says that
  the lock entry and the handles agree, `HandlesFit` which handle each stage of
  each tool has; from them, that the file is as an edit has read it when the edit
  writes (`EditsKeepUpdates`) and that a torn file is being written by a call that holds
  the lock, or by one that holds none (`TornIsLocked`).

Only model-checked: liveness (`OpenIsRetried`, `ChatsReopen`, `DueJobsRun`,
`CallsEnd`, `WaitsEnd`, `ShutdownHonoured`, `CallsDecided`), which the prover
does not handle. The properties of the runs that TLC finds violated are false;
for three of them a theorem says under which condition they hold
(`SerialNeverDrifts`, `LoneServerNeverOverlaps`, `OnlyAbandonedAccumulate`), and
what remains of two more is part of a proved invariant: leases are exclusive in a
chat without an overrun (`LeaseTracksHolder`), and output is complete until the
buffer overflows (`ReadOffsetSound`).

## Not modelled

The greater part of the repository by lines has no state that several actors
share or that outlives a call: parsing and rendering, provider clients, rule
tables, views. A model of it would restate it. Council, fault tolerance, rate
limiting and learning are arithmetic on floating-point numbers behind one mutex
each. Failover groups, multi-target messages and the agent tree's links have no
caller in the program, so their states are not reachable.

## Plan

1. An abstract job (`due`, `running`, `done`) that one server's `Cron`
   implements.
2. Further components: the DAG scheduler, chat fallback, the bulkhead.
