------------------------------ MODULE AcpServer ------------------------------
(***************************************************************************)
(* The ACP server's serve loop, request admission and shutdown: the stdio  *)
(* loop (acp/impl/runtime.rs), the HTTP accept loop                        *)
(* (shared/tcp_accept_loop.rs, acp/impl/runtime/http_server.rs),           *)
(* handle_request (acp/impl/request/mod.rs) and DrainGuard                 *)
(* (acp/server.rs).                                                        *)
(*                                                                         *)
(* Every request is a task of its own; tasks, the loop and the drain       *)
(* waiter interleave at every access to what they share: the shutdown      *)
(* flag, the two Notify objects, the semaphore of in-flight requests, the  *)
(* active-request gauge and the registry of cancelled request ids. A       *)
(* request that is answered before it reaches the gauge changes nothing.   *)
(* A panicking task unwinds: its permit is dropped, the rest of            *)
(* handle_request is not run.                                              *)
(***************************************************************************)
EXTENDS Integers, FiniteSets, Sequences

CONSTANTS
  Requests,        \* requests that arrive
  IdOf,            \* the JSON-RPC id of a request
  MaxInflight,     \* DrainGuard.max_permits
  MaxConnections,  \* max_connections of the accept loop
  MaxMarks         \* MAX_CANCELLED_REQUESTS

Ids == {IdOf[r] : r \in Requests}

ASSUME RequestsAssumption ==
  /\ IsFiniteSet(Requests)
  /\ IdOf \in [Requests -> Ids]
  /\ MaxInflight \in Nat \ {0}
  /\ MaxConnections \in Nat \ {0}
  /\ MaxMarks \in Nat \ {0}

VARIABLES
  transport,  \* "stdio" or "http": which loop this server runs
  flag,       \* lifecycle_state.shutdown_requested
  loop,       \* where the serve loop, and after it the shutdown, stands
  heard,      \* shutdown_notify has reached the notified() of this select!
  draining,   \* DrainGuard.draining
  free,       \* available permits of DrainGuard.inflight
  queue,      \* requests waiting for a permit, first come first served
  stored,     \* the notification that notify_drain has stored
  req,        \* the stage of each request
  active,     \* metrics.active_requests
  marks,      \* ids marked by $/cancel_request
  stray,      \* history: marks of ids that had no request in flight
  panicked,   \* history: requests whose task panicked
  silent      \* history: a permit has come back unannounced since the last
              \* notify_one

loopVars == <<transport, flag, loop, heard>>
drainVars == <<draining, free, queue, stored, silent>>
requestVars == <<req, active, marks, stray, panicked>>
serverVars == <<loopVars, drainVars, requestVars>>

\* The loop reads input, then start_drain and wait_for_drain follow. "hung": it
\* waits for ever for what the handling of a line awaits.
LoopStages == {"top", "select", "busy", "hung", "stopped", "check", "waiting",
               "drained", "timedout", "exited"}

\* Stages in which a request holds a permit of the semaphore,
Holding == {"granted", "running", "notify", "finish", "release"}

\* and in which handle_request works on it with a DrainPermit.
Handled == {"running", "notify", "finish"}

RequestStages == {"new", "taken", "arrived", "acquire", "queued", "refused",
                  "wake", "done"} \cup Holding

At(stages) == {r \in Requests : req[r] \in stages}

\* Counted by active_requests.
Counted == {"acquire", "queued", "refused", "granted"} \cup Handled

\* Cancelling the id of such a request is cancelling the request.
InFlight == {"arrived", "acquire", "queued", "refused", "granted"} \cup Handled

ServerTypeOK ==
  /\ transport \in {"stdio", "http"}
  /\ flag \in BOOLEAN
  /\ loop \in LoopStages
  /\ heard \in BOOLEAN
  /\ draining \in BOOLEAN
  /\ free \in 0..MaxInflight
  /\ queue \in Seq(Requests)
  /\ stored \in BOOLEAN
  /\ req \in [Requests -> RequestStages]
  /\ active \in Nat
  /\ marks \subseteq Ids
  /\ stray \subseteq Ids
  /\ panicked \subseteq Requests
  /\ silent \in BOOLEAN

ServerInit ==
  /\ transport \in {"stdio", "http"}
  /\ flag = FALSE
  /\ loop = "top"
  /\ heard = FALSE
  /\ draining = FALSE
  /\ free = MaxInflight
  /\ queue = <<>>
  /\ stored = FALSE
  /\ req = [r \in Requests |-> "new"]
  /\ active = 0
  /\ marks = {}
  /\ stray = {}
  /\ panicked = {}
  /\ silent = FALSE

-----------------------------------------------------------------------------
(* The serve loop *)

\* Notify::notify_waiters: only a notified() that exists hears it.
NotifyWaiters == heard' = (heard \/ loop = "select")

\* A new iteration: the stdio loop looks at the flag; select! makes its futures.
LoopTop ==
  /\ loop = "top"
  /\ loop' = IF transport = "stdio" /\ flag THEN "stopped" ELSE "select"
  /\ heard' = FALSE
  /\ UNCHANGED <<transport, flag, drainVars, requestVars>>

\* shutdown_notify, SIGINT or SIGTERM, or the end of stdin.
LoopBreaks ==
  /\ loop = "select"
  /\ loop' = "stopped"
  /\ UNCHANGED <<transport, flag, heard, drainVars, requestVars>>

\* Mutant: the 200 ms branch goes round without a look at the flag, and so does
\* the top of the loop.
PollFlagNever ==
  /\ loop = "select"
  /\ transport = "stdio"
  /\ loop' = "select"
  /\ heard' = FALSE
  /\ UNCHANGED <<transport, flag, drainVars, requestVars>>

\* The 200 ms branch of the stdio loop.
PollFlag ==
  /\ loop = "select"
  /\ transport = "stdio"
  /\ loop' = IF flag THEN "stopped" ELSE "top"
  /\ UNCHANGED <<transport, flag, heard, drainVars, requestVars>>

\* A line, or a connection: select! is over and its notified() dropped.
Input(r) ==
  /\ loop = "select"
  /\ req[r] = "new"
  /\ loop' = "busy"
  /\ req' = [req EXCEPT ![r] = "taken"]
  /\ UNCHANGED <<transport, flag, heard, drainVars, active, marks, stray, panicked>>

\* stdio: the request is spawned, unless shutdown was requested meanwhile.
DispatchLine(r) ==
  /\ loop = "busy" /\ transport = "stdio"
  /\ req[r] = "taken"
  /\ loop' = IF flag THEN "stopped" ELSE "top"
  /\ req' = [req EXCEPT ![r] = IF flag THEN "done" ELSE "arrived"]
  /\ UNCHANGED <<transport, flag, heard, drainVars, active, marks, stray, panicked>>

\* stdio: a line that is no request, seen to in the loop itself and without a
\* timeout. What is malformed is answered with an error, which a client that has
\* stopped reading holds up and a closed pipe turns into the end of the loop; the
\* answer to a permission request waits for the registry, whose lock Permission's
\* Expire holds while it writes.
OtherLine(r) ==
  /\ loop = "busy" /\ transport = "stdio"
  /\ req[r] = "taken"
  /\ ~flag
  /\ loop' \in {"top", "hung", "exited"}
  /\ req' = [req EXCEPT ![r] = "done"]
  /\ UNCHANGED <<transport, flag, heard, drainVars, active, marks, stray, panicked>>

\* HTTP: the connection is spawned once fewer than MaxConnections are open
\* (should_stop, that is draining, cannot hold while the loop runs).
DispatchConnection(r) ==
  /\ loop = "busy" /\ transport = "http"
  /\ req[r] = "taken"
  /\ Cardinality(At(RequestStages \ {"new", "taken", "done"})) < MaxConnections
  /\ loop' = "top"
  /\ req' = [req EXCEPT ![r] = "arrived"]
  /\ UNCHANGED <<transport, flag, heard, drainVars, active, marks, stray, panicked>>

-----------------------------------------------------------------------------
(* Shutdown *)

\* stdio: begin_shutdown and notify_waiters; nobody waits for the requests.
StdioShutdown ==
  /\ loop = "stopped" /\ transport = "stdio"
  /\ flag' = TRUE
  /\ loop' = "exited"
  /\ UNCHANGED <<transport, heard, drainVars, requestVars>>

StartDrain ==
  /\ loop = "stopped" /\ transport = "http"
  /\ draining' = TRUE
  /\ loop' = "check"
  /\ UNCHANGED <<transport, flag, heard, free, queue, stored, silent, requestVars>>

\* wait_for_drain looks at the permits, first and after every notification.
CheckDrained ==
  /\ loop = "check"
  /\ loop' = IF free = MaxInflight THEN "drained" ELSE "waiting"
  /\ UNCHANGED <<transport, flag, heard, drainVars, requestVars>>

DrainNotified ==
  /\ loop = "waiting"
  /\ stored
  /\ stored' = FALSE
  /\ loop' = "check"
  /\ UNCHANGED <<transport, flag, heard, draining, free, queue, silent, requestVars>>

\* drain_timeout has passed.
DrainTimesOut ==
  /\ loop = "waiting"
  /\ loop' = "timedout"
  /\ UNCHANGED <<transport, flag, heard, drainVars, requestVars>>

-----------------------------------------------------------------------------
(* handle_request: admission *)

Move(r, stage) == req' = [req EXCEPT ![r] = stage]

\* A semaphore permit comes back: to the first in the queue, or to the pool.
\* Request r itself goes on to stage.
Return(r, stage) ==
  IF queue = <<>>
  THEN /\ free' = free + 1
       /\ queue' = queue
       /\ Move(r, stage)
  ELSE /\ free' = free
       /\ queue' = Tail(queue)
       /\ req' = [req EXCEPT ![r] = stage, ![Head(queue)] = "granted"]

\* inc_active_requests, and the first look of DrainGuard::acquire.
Begin(r) ==
  /\ req[r] = "arrived"
  /\ active' = active + 1
  /\ Move(r, IF draining THEN "refused" ELSE "acquire")
  /\ UNCHANGED <<loopVars, drainVars, marks, stray, panicked>>

\* acquire_owned
Acquire(r) ==
  /\ req[r] = "acquire"
  /\ IF free > 0
     THEN free' = free - 1 /\ queue' = queue /\ Move(r, "granted")
     ELSE free' = free /\ queue' = Append(queue, r) /\ Move(r, "queued")
  /\ UNCHANGED <<loopVars, draining, stored, silent, active, marks, stray, panicked>>

\* Mutant: no second look.
AdmitUnchecked(r) ==
  /\ req[r] = "granted"
  /\ Move(r, "running")
  /\ UNCHANGED <<loopVars, drainVars, active, marks, stray, panicked>>

\* The second look: not draining.
Admit(r) ==
  /\ req[r] = "granted"
  /\ ~draining
  /\ Move(r, "running")
  /\ UNCHANGED <<loopVars, drainVars, active, marks, stray, panicked>>

\* Mutant: the permit is forgotten.
RaceRefusedLeaking(r) ==
  /\ req[r] = "granted"
  /\ draining
  /\ Move(r, "refused")
  /\ UNCHANGED <<loopVars, drainVars, active, marks, stray, panicked>>

\* Draining has started since: the bare permit is dropped, which notifies nobody.
RaceRefused(r) ==
  /\ req[r] = "granted"
  /\ draining
  /\ Return(r, "refused")
  /\ silent' = TRUE
  /\ UNCHANGED <<loopVars, draining, stored, active, marks, stray, panicked>>

\* A mark that outlives its request is a stray one.
Abandoned(r) == stray \cup (marks \cap {IdOf[r]})

\* Mutant: the early return skips the accounting.
RefuseUncounted(r) ==
  /\ req[r] = "refused"
  /\ Move(r, "done")
  /\ stray' = Abandoned(r)
  /\ UNCHANGED <<loopVars, drainVars, active, marks, panicked>>

\* "Server is shutting down"
Refuse(r) ==
  /\ req[r] = "refused"
  /\ active' = active - 1
  /\ Move(r, "done")
  /\ stray' = Abandoned(r)
  /\ UNCHANGED <<loopVars, drainVars, marks, panicked>>

-----------------------------------------------------------------------------
(* handle_request: dispatch and completion *)

\* The handler returns.
Complete(r) ==
  /\ req[r] = "running"
  /\ Move(r, "finish")
  /\ UNCHANGED <<loopVars, drainVars, active, marks, stray, panicked>>

\* A token loop finds the request's id marked and gives up.
Abort(r) ==
  /\ req[r] = "running"
  /\ IdOf[r] \in marks
  /\ Move(r, "finish")
  /\ UNCHANGED <<loopVars, drainVars, active, marks, stray, panicked>>

\* mark_acp_request_cancelled makes room by dropping an arbitrary mark.
Marked(i, dropped) ==
  (IF Cardinality(marks) >= MaxMarks THEN marks \ {dropped} ELSE marks) \cup {i}

\* r is a $/cancel_request of id i.
CancelRequest(r, i, dropped) ==
  /\ req[r] = "running"
  /\ Cardinality(marks) >= MaxMarks => dropped \in marks
  /\ marks' = Marked(i, dropped)
  /\ stray' = (stray \cap marks') \cup
                (IF \E q \in At(InFlight) : IdOf[q] = i THEN {} ELSE {i})
  /\ Move(r, "finish")
  /\ UNCHANGED <<loopVars, drainVars, active, panicked>>

\* r is a shutdown or runtime restart: the flag first,
Shutdown(r) ==
  /\ req[r] = "running"
  /\ flag' = TRUE
  /\ Move(r, "notify")
  /\ UNCHANGED <<transport, loop, heard, drainVars, active, marks, stray, panicked>>

\* then shutdown_notify.
ShutdownNotify(r) ==
  /\ req[r] = "notify"
  /\ NotifyWaiters
  /\ Move(r, "finish")
  /\ UNCHANGED <<transport, flag, loop, drainVars, active, marks, stray, panicked>>

\* Mutant: the mark is left to the registry's bound.
FinishUncleared(r) ==
  /\ req[r] = "finish"
  /\ active' = active - 1
  /\ Move(r, "release")
  /\ UNCHANGED <<loopVars, drainVars, marks, stray, panicked>>

\* The tail: clear_acp_request_cancelled and dec_active_requests.
Finish(r) ==
  /\ req[r] = "finish"
  /\ marks' = marks \ {IdOf[r]}
  /\ stray' = stray \ {IdOf[r]}
  /\ active' = active - 1
  /\ Move(r, "release")
  /\ UNCHANGED <<loopVars, drainVars, panicked>>

\* The handler panics: the tail is not run.
Panic(r) ==
  /\ req[r] = "running"
  /\ panicked' = panicked \cup {r}
  /\ stray' = Abandoned(r)
  /\ Move(r, "release")
  /\ UNCHANGED <<loopVars, drainVars, active, marks>>

\* Mutant: the inner permit is taken out and dropped, as into_inner allows.
DropInner(r) ==
  /\ req[r] = "release"
  /\ Return(r, "done")
  /\ UNCHANGED <<loopVars, draining, stored, silent, active, marks, stray, panicked>>

\* Drop of DrainPermit: the permit first,
DropPermit(r) ==
  /\ req[r] = "release"
  /\ Return(r, "wake")
  /\ UNCHANGED <<loopVars, draining, stored, silent, active, marks, stray, panicked>>

\* then notify_one.
NotifyDrain(r) ==
  /\ req[r] = "wake"
  /\ stored' = TRUE
  /\ silent' = FALSE
  /\ Move(r, "done")
  /\ UNCHANGED <<loopVars, draining, free, queue, active, marks, stray, panicked>>

-----------------------------------------------------------------------------
LoopStep ==
  \/ LoopTop
  \/ PollFlag
  \/ \E r \in Requests : DispatchLine(r) \/ OtherLine(r) \/ DispatchConnection(r)
  \/ StdioShutdown
  \/ StartDrain
  \/ CheckDrained
  \/ DrainNotified

RequestStep(r) ==
  \/ Begin(r)
  \/ Acquire(r)
  \/ Admit(r)
  \/ RaceRefused(r)
  \/ Refuse(r)
  \/ Complete(r)
  \/ Abort(r)
  \/ \E i, dropped \in Ids : CancelRequest(r, i, dropped)
  \/ Shutdown(r)
  \/ ShutdownNotify(r)
  \/ Finish(r)
  \/ Panic(r)
  \/ DropPermit(r)
  \/ NotifyDrain(r)

ServerNext ==
  \/ LoopStep
  \/ LoopBreaks
  \/ \E r \in Requests : Input(r)
  \/ DrainTimesOut
  \/ \E r \in Requests : RequestStep(r)

ServerSpec == ServerInit /\ [][ServerNext]_serverVars

-----------------------------------------------------------------------------
(* Safety *)

\* Every permit is free or held by one request, and nobody queues while one is
\* free: handing over, refusing in the race with a drain and panics neither
\* leak a permit nor make one up.
PermitsConserved ==
  /\ free + Cardinality(At(Holding)) = MaxInflight
  /\ queue # <<>> => free = 0

\* A drain waiter does not sleep on when the last request is done: while it waits
\* with every permit back, a notification is stored or about to be, unless the
\* last permit came back from a request refused in the race with the drain.
DrainNoticed ==
  loop = "waiting" /\ free = MaxInflight => stored \/ silent \/ At({"wake"}) # {}

\* active_requests counts the requests in handle_request, on every path through
\* admission; only a panic leaves one in it for good.
ActiveCounted == active = Cardinality(At(Counted) \cup panicked)

\* A cancellation mark belongs to a request in flight, so that a later request
\* with the same id is not cancelled by it; a cancellation that came too late,
\* and one whose request never got to its tail, are the exceptions.
MarksHaveTargets == marks \subseteq {IdOf[r] : r \in At(InFlight)} \cup stray

(* Refinement *)

\* What the drain has come to.
Phase ==
  CASE loop = "drained" -> "drained"
    [] loop # "drained" /\ draining -> "closing"
    [] OTHER -> "open"

Admission == INSTANCE AdmissionGate WITH
  Guests <- Requests, Capacity <- MaxInflight,
  phase <- Phase, inside <- At(Handled), past <- At({"release", "wake", "done"})

\* The semaphore, its queue and the two looks of DrainGuard::acquire implement the
\* gate: however requests, panics and the drain race, at most MaxInflight requests
\* are handled at once, none is admitted once draining has begun, not even one
\* that passed the first look before, and wait_for_drain returns true only when
\* none is being handled.
AdmissionKept == Admission!GateSpec

(* Liveness *)

\* The stdio loop honours a shutdown request in every interleaving, although
\* notify_waiters may find nobody listening, unless the handling of a line that is
\* no request hangs.
ShutdownHonoured ==
  (flag /\ transport = "stdio") ~> loop \in {"exited", "hung"}

-----------------------------------------------------------------------------
(* What the code's documentation claims *)

\* "Loops until a shutdown signal (SIGINT/SIGTERM) or shutdown_notify fires":
\* once it has fired for a shutdown request, the accept loop does not go on
\* waiting for connections.
AcceptLoopStops ==
  ~ /\ transport = "http"
    /\ flag /\ At({"notify"}) = {}
    /\ loop = "select" /\ ~heard
=============================================================================
