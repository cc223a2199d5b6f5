--------------------------- MODULE AcpServerProofs ---------------------------
(***************************************************************************)
(* The safety of the ACP server's admission, drain and cancellation for    *)
(* any number of requests, any limits and any assignment of request ids.   *)
(***************************************************************************)
EXTENDS AcpServer, FiniteSetTheorems, TLAPS

\* The semaphore's queue holds waiting requests, each of them once.
QueueFits ==
  /\ \A i \in 1..Len(queue) : req[queue[i]] = "queued"
  /\ \A i, j \in 1..Len(queue) : i # j => queue[i] # queue[j]

\* start_drain comes before everything wait_for_drain does.
DrainStarted == loop \in {"check", "waiting", "drained", "timedout"} => draining

\* Once wait_for_drain has returned true no request is being handled, and none
\* ever is again.
DrainedIsQuiet == loop = "drained" => At(Handled) = {}

\* A task that panicked was being handled, and has nothing left but its permit.
PanicsOver == panicked \subseteq At({"release", "wake", "done"})

\* The inductive invariant: each property with what it rests on.
ServerInv ==
  /\ ServerTypeOK
  /\ QueueFits
  /\ PermitsConserved
  /\ DrainStarted
  /\ DrainedIsQuiet
  /\ DrainNoticed
  /\ PanicsOver
  /\ ActiveCounted
  /\ MarksHaveTargets

-----------------------------------------------------------------------------
(* Steps *)

\* The steps that touch the semaphore.
PermitStep(r) == Acquire(r) \/ RaceRefused(r) \/ DropPermit(r)

\* A request that moves: where it is afterwards, and where the others are.
LEMMA Moved ==
  ASSUME ServerTypeOK, NEW r \in Requests, NEW s \in RequestStages, Move(r, s)
  PROVE  /\ req' \in [Requests -> RequestStages]
         /\ req'[r] = s
         /\ \A q \in Requests \ {r} : req'[q] = req[q]
BY DEF ServerTypeOK, Move

\* The first request in the queue is a waiting request.
LEMMA QueueHead ==
  ASSUME ServerTypeOK, QueueFits, queue # <<>>
  PROVE  /\ Head(queue) \in Requests /\ req[Head(queue)] = "queued"
         /\ 1 \in 1..Len(queue) /\ Head(queue) = queue[1]
<1>1. Len(queue) \in Nat /\ Len(queue) # 0
  BY DEF ServerTypeOK
<1>2. 1 \in 1..Len(queue)
  BY <1>1
<1>3. Head(queue) = queue[1] /\ queue[1] \in Requests
  BY <1>2 DEF ServerTypeOK
<1>4. QED
  BY <1>2, <1>3 DEF QueueFits

\* A permit that comes back to the pool: nobody waited for it.
Pooled(r, stage) ==
  /\ queue = <<>> /\ queue' = queue
  /\ free' = free + 1
  /\ req'[r] = stage
  /\ \A q \in Requests \ {r} : req'[q] = req[q]

\* A permit that goes to the first in the queue.
HandedTo(h, r, stage) ==
  /\ queue # <<>> /\ h = Head(queue) /\ queue' = Tail(queue)
  /\ free' = free
  /\ h # r /\ req[h] = "queued" /\ req'[h] = "granted"
  /\ req'[r] = stage
  /\ \A q \in Requests \ {r, h} : req'[q] = req[q]

LEMMA Returned ==
  ASSUME ServerTypeOK, QueueFits, NEW r \in Requests, req[r] # "queued",
         NEW stage \in RequestStages, Return(r, stage)
  PROVE  /\ req' \in [Requests -> RequestStages]
         /\ Pooled(r, stage) \/ \E h \in Requests : HandedTo(h, r, stage)
<1>1. CASE queue = <<>>
  <2>1. Move(r, stage) /\ free' = free + 1 /\ queue' = queue
    BY <1>1 DEF Return
  <2>2. QED
    BY <1>1, <2>1, Moved DEF Pooled
<1>2. CASE queue # <<>>
  <2> DEFINE h == Head(queue)
  <2>1. h \in Requests /\ req[h] = "queued" /\ h # r
    BY <1>2, QueueHead
  <2>2. /\ free' = free /\ queue' = Tail(queue)
        /\ req' = [req EXCEPT ![r] = stage, ![h] = "granted"]
    BY <1>2 DEF Return
  <2>3. "granted" \in RequestStages
    BY DEF RequestStages, Holding
  <2> HIDE DEF h
  <2>4. /\ req' \in [Requests -> RequestStages] /\ req'[h] = "granted" /\ req'[r] = stage
        /\ \A q \in Requests \ {r, h} : req'[q] = req[q]
    BY <2>1, <2>2, <2>3 DEF ServerTypeOK
  <2>5. HandedTo(h, r, stage)
    BY <1>2, <2>1, <2>2, <2>4 DEF HandedTo, h
  <2>6. QED
    BY <2>1, <2>4, <2>5
<1>3. QED
  BY <1>1, <1>2

\* The stages a request moves through outside the semaphore.
LEMMA OtherSteps ==
  ASSUME ServerTypeOK, NEW r \in Requests, RequestStep(r), ~PermitStep(r)
  PROVE  /\ UNCHANGED <<free, queue>>
         /\ (stored => stored') /\ (silent => silent' \/ stored')
         /\ \E s \in RequestStages :
              /\ Move(r, s)
              /\ s # "queued" /\ req[r] # "queued"
              /\ s \in Holding <=> (req[r] \in Holding \/ s = "running")
              /\ s = "running" => req[r] = "granted" /\ ~draining
              /\ s \in Handled => req[r] \in Handled \/ s = "running"
              /\ req[r] = "wake" => s = "done" /\ stored'
<1> USE DEF drainVars, Holding, Handled, RequestStages
<1>1. CASE Begin(r)
  BY <1>1 DEF Begin
<1>2. CASE Admit(r)
  BY <1>2 DEF Admit
<1>3. CASE Refuse(r)
  BY <1>3 DEF Refuse
<1>4. CASE Complete(r) \/ Abort(r)
  BY <1>4 DEF Complete, Abort
<1>5. ASSUME NEW i \in Ids, NEW dropped \in Ids, CancelRequest(r, i, dropped)
      PROVE  /\ UNCHANGED <<free, queue, stored, silent>>
             /\ Move(r, "finish") /\ req[r] = "running"
  BY <1>5 DEF CancelRequest
<1>6. CASE Shutdown(r)
  BY <1>6 DEF Shutdown
<1>7. CASE ShutdownNotify(r)
  BY <1>7 DEF ShutdownNotify
<1>8. CASE Finish(r)
  BY <1>8 DEF Finish
<1>9. CASE Panic(r)
  BY <1>9 DEF Panic
<1>10. CASE NotifyDrain(r)
  BY <1>10 DEF NotifyDrain
<1>11. CASE \E i, dropped \in Ids : CancelRequest(r, i, dropped)
  <2>1. /\ UNCHANGED <<free, queue, stored, silent>>
        /\ Move(r, "finish") /\ req[r] = "running"
    BY <1>5, <1>11
  <2>2. QED
    BY <2>1
<1>12. QED
  BY <1>1, <1>2, <1>3, <1>4, <1>6, <1>7, <1>8, <1>9, <1>10, <1>11
     DEF RequestStep, PermitStep

\* What the serve loop and the shutdown do.
LoopSide == LoopStep \/ LoopBreaks \/ (\E r \in Requests : Input(r)) \/ DrainTimesOut

\* A request that the loop moves has not come to handle_request; the loop leaves
\* the semaphore, the gauge and the marks alone.
LEMMA LoopSteps ==
  ASSUME ServerTypeOK, LoopSide
  PROVE  /\ UNCHANGED <<free, queue, silent, active, marks, stray, panicked>>
         /\ req' \in [Requests -> RequestStages]
         /\ \A q \in Requests :
              \/ req'[q] = req[q]
              \/ req[q] \in {"new", "taken"} /\ req'[q] \in {"taken", "arrived", "done"}
<1> USE DEF drainVars, requestVars
<1>1. ASSUME NEW r \in Requests, Input(r) \/ DispatchLine(r) \/ OtherLine(r) \/ DispatchConnection(r)
      PROVE  /\ UNCHANGED <<free, queue, silent, active, marks, stray, panicked>>
             /\ req[r] \in {"new", "taken"}
             /\ \E s \in {"taken", "arrived", "done"} : Move(r, s)
  BY <1>1 DEF Input, DispatchLine, OtherLine, DispatchConnection, Move
<1>2. ASSUME NEW r \in Requests, Input(r) \/ DispatchLine(r) \/ OtherLine(r) \/ DispatchConnection(r)
      PROVE  /\ req' \in [Requests -> RequestStages]
             /\ \A q \in Requests :
                  \/ req'[q] = req[q]
                  \/ req[q] \in {"new", "taken"} /\ req'[q] \in {"taken", "arrived", "done"}
  <2>1. PICK s \in {"taken", "arrived", "done"} : Move(r, s)
    BY <1>1, <1>2
  <2>2. s \in RequestStages
    BY DEF RequestStages
  <2>3. QED
    BY <1>1, <1>2, <2>1, <2>2, Moved
<1>3. CASE \E r \in Requests : Input(r) \/ DispatchLine(r) \/ OtherLine(r) \/ DispatchConnection(r)
  BY <1>1, <1>2, <1>3
<1>4. CASE LoopTop \/ PollFlag \/ LoopBreaks
  BY <1>4 DEF LoopTop, PollFlag, LoopBreaks, ServerTypeOK
<1>5. CASE StdioShutdown \/ StartDrain \/ CheckDrained \/ DrainNotified \/ DrainTimesOut
  BY <1>5 DEF StdioShutdown, StartDrain, CheckDrained, DrainNotified, DrainTimesOut, ServerTypeOK
<1>6. QED
  BY <1>3, <1>4, <1>5 DEF LoopSide, LoopStep

\* Every step is one of the loop's or one of a request's.
LEMMA TwoSides ==
  ServerNext <=> LoopSide \/ \E r \in Requests : RequestStep(r)
BY DEF ServerNext, LoopSide

-----------------------------------------------------------------------------
(* The permits *)

\* What is counted is finite.
LEMMA CountsTyped ==
  ASSUME NEW S \in SUBSET Requests
  PROVE  IsFiniteSet(S) /\ Cardinality(S) \in Nat
BY RequestsAssumption, FS_Subset, FS_CardinalityType

\* The semaphore, as long as it is not touched.
LEMMA PermitsRest ==
  ASSUME QueueFits, PermitsConserved, ServerTypeOK, UNCHANGED <<free, queue>>,
         \A q \in Requests : /\ req[q] = "queued" => req'[q] = "queued"
                             /\ req[q] \in Holding <=> req'[q] \in Holding
  PROVE  QueueFits' /\ PermitsConserved'
<1>1. At(Holding)' = At(Holding)
  BY DEF At
<1>2. PermitsConserved'
  BY <1>1 DEF PermitsConserved
<1>3. \A i \in 1..Len(queue) : queue[i] \in Requests
  BY DEF ServerTypeOK
<1>4. QueueFits'
  BY <1>3 DEF QueueFits
<1>5. QED
  BY <1>2, <1>4

\* A permit that comes back is free or has one new holder.
LEMMA ReturnConserves ==
  ASSUME ServerTypeOK, QueueFits, PermitsConserved, NEW r \in Requests, req[r] \in Holding,
         NEW stage \in RequestStages \ (Holding \cup {"queued"}), Return(r, stage)
  PROVE  QueueFits' /\ PermitsConserved'
<1>1. req[r] # "queued"
  BY DEF Holding
<1>2. Pooled(r, stage) \/ \E h \in Requests : HandedTo(h, r, stage)
  BY <1>1, Returned
<1>3. /\ At(Holding) \in SUBSET Requests /\ r \in At(Holding) /\ IsFiniteSet(At(Holding))
      /\ Cardinality(At(Holding)) \in Nat
      /\ IsFiniteSet(At(Holding) \ {r}) /\ Cardinality(At(Holding) \ {r}) \in Nat
  BY CountsTyped DEF At
<1>4. Cardinality(At(Holding) \ {r}) = Cardinality(At(Holding)) - 1
  BY <1>3, FS_RemoveElement
<1>5. CASE Pooled(r, stage)
  <2>1. At(Holding)' = At(Holding) \ {r}
    BY <1>5 DEF Pooled, At
  <2>2. QueueFits'
    BY <1>5 DEF Pooled, QueueFits
  <2>3. PermitsConserved'
    BY <1>3, <1>4, <1>5, <2>1 DEF Pooled, PermitsConserved, ServerTypeOK
  <2>4. QED
    BY <2>2, <2>3
<1>6. ASSUME NEW h \in Requests, HandedTo(h, r, stage) PROVE QueueFits' /\ PermitsConserved'
  <2>1. h \notin At(Holding) \ {r}
    BY <1>6 DEF HandedTo, At, Holding
  <2>2. At(Holding)' = (At(Holding) \ {r}) \cup {h}
    BY <1>6 DEF HandedTo, At, Holding
  <2>3. Cardinality(At(Holding)') = Cardinality(At(Holding))
    <3>1. Cardinality((At(Holding) \ {r}) \cup {h}) = Cardinality(At(Holding) \ {r}) + 1
      BY <1>3, <2>1, FS_AddElement
    <3>2. QED
      BY <1>3, <1>4, <2>2, <3>1
  <2>4. PermitsConserved'
    BY <1>6, <2>3 DEF HandedTo, PermitsConserved
  <2>5. /\ Len(queue') = Len(queue) - 1 /\ Len(queue) \in Nat
        /\ \A i \in 1..Len(queue') : i + 1 \in 1..Len(queue) /\ queue'[i] = queue[i + 1]
    BY <1>6 DEF HandedTo, ServerTypeOK
  <2>6. 1 \in 1..Len(queue) /\ h = queue[1]
    BY <1>6, QueueHead DEF HandedTo
  <2>7. ASSUME NEW i \in 1..Len(queue') PROVE req'[queue'[i]] = "queued"
    <3>1. /\ i + 1 \in 1..Len(queue) /\ queue'[i] = queue[i + 1] /\ i + 1 # 1
      BY <2>5
    <3>2. req[queue[i + 1]] = "queued" /\ queue[i + 1] \in Requests /\ queue[i + 1] # h
      BY <2>6, <3>1 DEF QueueFits, ServerTypeOK
    <3>3. QED
      BY <1>1, <1>6, <3>1, <3>2 DEF HandedTo
  <2>8. ASSUME NEW i \in 1..Len(queue'), NEW j \in 1..Len(queue'), i # j
        PROVE  queue'[i] # queue'[j]
    <3>1. /\ i + 1 \in 1..Len(queue) /\ j + 1 \in 1..Len(queue) /\ i + 1 # j + 1
          /\ queue'[i] = queue[i + 1] /\ queue'[j] = queue[j + 1]
      BY <2>5, <2>8
    <3>2. QED
      BY <3>1 DEF QueueFits
  <2>9. QueueFits'
    BY <2>7, <2>8 DEF QueueFits
  <2>10. QED
    BY <2>4, <2>9
<1>7. QED
  BY <1>2, <1>5, <1>6

\* acquire_owned takes a free permit or a place in the queue.
LEMMA AcquireConserves ==
  ASSUME ServerTypeOK, QueueFits, PermitsConserved, NEW r \in Requests, Acquire(r)
  PROVE  QueueFits' /\ PermitsConserved'
<1>1. /\ At(Holding) \in SUBSET Requests /\ r \notin At(Holding) /\ IsFiniteSet(At(Holding))
      /\ Cardinality(At(Holding)) \in Nat
  BY CountsTyped DEF At, Acquire, Holding
<1>2. \A i \in 1..Len(queue) : queue[i] \in Requests /\ queue[i] # r
  BY DEF ServerTypeOK, QueueFits, Acquire
<1>3. "granted" \in RequestStages /\ "queued" \in RequestStages
  BY DEF RequestStages, Holding
<1>4. CASE free > 0
  <2>1. /\ queue = <<>> /\ queue' = queue /\ free' = free - 1
        /\ Move(r, "granted")
    BY <1>4 DEF Acquire, PermitsConserved
  <2>2. At(Holding)' = At(Holding) \cup {r}
    BY <1>3, <2>1, Moved DEF At, Holding
  <2>3. Cardinality(At(Holding)') = Cardinality(At(Holding)) + 1
    BY <1>1, <2>2, FS_AddElement
  <2>4. PermitsConserved'
    BY <1>1, <2>1, <2>3 DEF PermitsConserved, ServerTypeOK
  <2>5. QueueFits'
    BY <2>1 DEF QueueFits
  <2>6. QED
    BY <2>4, <2>5
<1>5. CASE ~(free > 0)
  <2>1. /\ queue' = Append(queue, r) /\ free' = free /\ free = 0 /\ Move(r, "queued")
    BY <1>5 DEF Acquire, ServerTypeOK
  <2>2. req'[r] = "queued" /\ \A q \in Requests \ {r} : req'[q] = req[q]
    BY <1>3, <2>1, Moved
  <2>3. At(Holding)' = At(Holding)
    BY <2>2 DEF At, Holding, Acquire
  <2>4. PermitsConserved'
    BY <2>1, <2>3 DEF PermitsConserved
  <2>5. /\ Len(queue) \in Nat /\ Len(queue') = Len(queue) + 1
        /\ queue'[Len(queue) + 1] = r
        /\ \A i \in 1..Len(queue) : queue'[i] = queue[i]
    BY <2>1 DEF ServerTypeOK
  <2>6. \A i \in 1..Len(queue') : i \in 1..Len(queue) \/ i = Len(queue) + 1
    BY <2>5
  <2>7. ASSUME NEW i \in 1..Len(queue') PROVE req'[queue'[i]] = "queued"
    BY <1>2, <2>2, <2>5, <2>6 DEF QueueFits
  <2>8. ASSUME NEW i \in 1..Len(queue'), NEW j \in 1..Len(queue'), i # j
        PROVE  queue'[i] # queue'[j]
    BY <1>2, <2>5, <2>6, <2>8 DEF QueueFits
  <2>9. QueueFits'
    BY <2>7, <2>8 DEF QueueFits
  <2>10. QED
    BY <2>4, <2>9
<1>6. QED
  BY <1>4, <1>5

\* No step leaks a permit or makes one up.
LEMMA PermitsNext ==
  ASSUME ServerTypeOK, QueueFits, PermitsConserved, [ServerNext]_serverVars
  PROVE  QueueFits' /\ PermitsConserved'
<1>1. CASE LoopSide
  <2>1. \A q \in Requests : /\ req[q] = "queued" => req'[q] = "queued"
                            /\ req[q] \in Holding <=> req'[q] \in Holding
    BY <1>1, LoopSteps DEF Holding
  <2>2. UNCHANGED <<free, queue>>
    BY <1>1, LoopSteps
  <2>3. QED
    BY <2>1, <2>2, PermitsRest
<1>2. ASSUME NEW r \in Requests, RequestStep(r), ~PermitStep(r)
      PROVE  QueueFits' /\ PermitsConserved'
  <2>1. PICK s \in RequestStages :
          /\ Move(r, s)
          /\ s # "queued" /\ req[r] # "queued"
          /\ s \in Holding <=> (req[r] \in Holding \/ s = "running")
          /\ s = "running" => req[r] = "granted"
    BY <1>2, OtherSteps
  <2>2. \A q \in Requests : /\ req[q] = "queued" => req'[q] = "queued"
                            /\ req[q] \in Holding <=> req'[q] \in Holding
    BY <2>1, Moved DEF Holding
  <2>3. UNCHANGED <<free, queue>>
    BY <1>2, OtherSteps
  <2>4. QED
    BY <2>2, <2>3, PermitsRest
<1>3. ASSUME NEW r \in Requests, RaceRefused(r) PROVE QueueFits' /\ PermitsConserved'
  <2>1. "refused" \in RequestStages \ (Holding \cup {"queued"}) /\ req[r] \in Holding
    BY <1>3 DEF RaceRefused, RequestStages, Holding
  <2>2. Return(r, "refused")
    BY <1>3 DEF RaceRefused
  <2>3. QED
    BY <2>1, <2>2, ReturnConserves
<1>4. ASSUME NEW r \in Requests, DropPermit(r) PROVE QueueFits' /\ PermitsConserved'
  <2>1. "wake" \in RequestStages \ (Holding \cup {"queued"}) /\ req[r] \in Holding
    BY <1>4 DEF DropPermit, RequestStages, Holding
  <2>2. Return(r, "wake")
    BY <1>4 DEF DropPermit
  <2>3. QED
    BY <2>1, <2>2, ReturnConserves
<1>5. CASE UNCHANGED serverVars
  BY <1>5, PermitsRest DEF serverVars, drainVars, requestVars
<1>6. QED
  BY <1>1, <1>2, <1>3, <1>4, <1>5, AcquireConserves, TwoSides DEF PermitStep

-----------------------------------------------------------------------------
(* The drain *)

\* A request knows nothing of the loop and does not start a drain.
LEMMA RequestKeepsLoop ==
  ASSUME NEW r \in Requests, RequestStep(r) PROVE UNCHANGED <<transport, loop, draining>>
BY DEF RequestStep, loopVars, drainVars, Begin, Acquire, Admit, RaceRefused, Refuse, Complete,
   Abort, CancelRequest, Shutdown, ShutdownNotify, Finish, Panic, DropPermit, NotifyDrain

\* Where the loop can be after its own step.
LEMMA LoopGoesOn ==
  ASSUME ServerTypeOK, LoopSide
  PROVE  /\ draining => draining'
         /\ loop' \in {"check", "waiting", "drained", "timedout"} => draining'
              \/ loop \in {"check", "waiting", "drained", "timedout"}
         /\ loop' \in {"waiting", "drained"} => CheckDrained
BY DEF LoopSide, LoopStep, LoopTop, PollFlag, LoopBreaks, Input, DispatchLine,
   OtherLine, DispatchConnection, StdioShutdown, StartDrain, CheckDrained, DrainNotified, DrainTimesOut,
   drainVars

\* With every permit back, no request holds one.
LEMMA AllBack ==
  ASSUME PermitsConserved, free = MaxInflight PROVE At(Holding) = {}
<1>1. IsFiniteSet(At(Holding)) /\ Cardinality(At(Holding)) \in Nat
  BY CountsTyped DEF At
<1>2. Cardinality(At(Holding)) = 0
  BY <1>1, RequestsAssumption DEF PermitsConserved
<1>3. QED
  BY <1>1, <1>2, FS_EmptySet

\* The stages of the requests after a step that touches the semaphore: none is
\* handled that was not, and none goes on from "wake".
LEMMA PermitStages ==
  ASSUME ServerTypeOK, QueueFits, NEW r \in Requests, PermitStep(r)
  PROVE  /\ req' \in [Requests -> RequestStages]
         /\ queue' \in Seq(Requests)
         /\ \A q \in Requests :
              \/ req'[q] = req[q]
              \/ req[q] \in {"acquire", "queued", "granted"}
                   /\ req'[q] \in {"queued", "granted", "refused"}
              \/ req[q] = "release" /\ req'[q] = "wake"
<1>1. CASE Acquire(r)
  <2>1. \E s \in {"granted", "queued"} : Move(r, s)
    BY <1>1 DEF Acquire
  <2>2. {"granted", "queued"} \subseteq RequestStages
    BY DEF RequestStages, Holding
  <2>3. queue' = queue \/ queue' = Append(queue, r)
    BY <1>1 DEF Acquire
  <2>4. queue' \in Seq(Requests)
    BY <2>3 DEF ServerTypeOK
  <2>5. QED
    BY <1>1, <2>1, <2>2, <2>4, Moved DEF Acquire
<1>2. ASSUME NEW stage \in RequestStages, Return(r, stage), req[r] # "queued",
             \/ req[r] = "release" /\ stage = "wake"
             \/ req[r] = "granted" /\ stage = "refused"
      PROVE  /\ req' \in [Requests -> RequestStages]
             /\ queue' \in Seq(Requests)
             /\ \A q \in Requests :
                  \/ req'[q] = req[q]
                  \/ req[q] \in {"acquire", "queued", "granted"}
                       /\ req'[q] \in {"queued", "granted", "refused"}
                  \/ req[q] = "release" /\ req'[q] = "wake"
  <2>1. /\ req' \in [Requests -> RequestStages]
        /\ Pooled(r, stage) \/ \E h \in Requests : HandedTo(h, r, stage)
    BY <1>2, Returned
  <2>2. CASE Pooled(r, stage)
    BY <1>2, <2>1, <2>2 DEF Pooled, ServerTypeOK
  <2>3. ASSUME NEW h \in Requests, HandedTo(h, r, stage)
        PROVE  /\ queue' \in Seq(Requests)
               /\ \A q \in Requests :
                    \/ req'[q] = req[q]
                    \/ req[q] \in {"acquire", "queued", "granted"}
                         /\ req'[q] \in {"queued", "granted", "refused"}
                    \/ req[q] = "release" /\ req'[q] = "wake"
    <3>1. queue' \in Seq(Requests)
      BY <2>3 DEF HandedTo, ServerTypeOK
    <3>2. QED
      BY <1>2, <2>3, <3>1 DEF HandedTo
  <2>4. QED
    BY <2>1, <2>2, <2>3
<1>3. "wake" \in RequestStages /\ "refused" \in RequestStages
  BY DEF RequestStages
<1>4. CASE RaceRefused(r)
  <2>1. Return(r, "refused") /\ req[r] = "granted"
    BY <1>4 DEF RaceRefused
  <2>2. QED
    BY <1>2, <1>3, <2>1
<1>5. CASE DropPermit(r)
  <2>1. Return(r, "wake") /\ req[r] = "release" /\ req[r] # "queued"
    BY <1>5 DEF DropPermit
  <2>2. QED
    BY <1>2, <1>3, <2>1
<1>6. QED
  BY <1>1, <1>4, <1>5 DEF PermitStep

\* A drain that is over stays over, and one that goes on is told when to look.
LEMMA DrainNext ==
  ASSUME ServerTypeOK, QueueFits, PermitsConserved, DrainStarted, DrainedIsQuiet, DrainNoticed,
         [ServerNext]_serverVars
  PROVE  DrainStarted' /\ DrainedIsQuiet' /\ DrainNoticed'
<1>1. CASE LoopSide
  <2>1. DrainStarted'
    BY <1>1, LoopGoesOn DEF DrainStarted
  <2>2. free' = free
    BY <1>1, LoopSteps
  <2>3. ASSUME loop' = "drained" PROVE At(Handled)' = {}
    <3>1. CheckDrained
      BY <1>1, <2>3, LoopGoesOn
    <3>2. free = MaxInflight /\ req' = req
      BY <2>3, <3>1 DEF CheckDrained, requestVars
    <3>3. At(Holding) = {}
      BY <3>2, AllBack
    <3>4. QED
      BY <3>2, <3>3 DEF At, Holding, Handled
  <2>4. ASSUME loop' = "waiting", free' = MaxInflight PROVE FALSE
    <3>1. CheckDrained
      BY <1>1, <2>4, LoopGoesOn
    <3>2. QED
      BY <2>2, <2>4, <3>1 DEF CheckDrained
  <2>5. QED
    BY <2>1, <2>3, <2>4 DEF DrainedIsQuiet, DrainNoticed
<1>2. ASSUME NEW r \in Requests, RequestStep(r), ~PermitStep(r)
      PROVE  DrainedIsQuiet' /\ DrainNoticed'
  <2>1. UNCHANGED <<loop, draining, free>> /\ (stored => stored') /\ (silent => silent' \/ stored')
    BY <1>2, OtherSteps, RequestKeepsLoop
  <2>2. PICK s \in RequestStages :
          /\ Move(r, s)
          /\ s = "running" => req[r] = "granted" /\ ~draining
          /\ s \in Handled => req[r] \in Handled \/ s = "running"
          /\ req[r] = "wake" => s = "done" /\ stored'
    BY <1>2, OtherSteps
  <2>3. req'[r] = s /\ \A q \in Requests \ {r} : req'[q] = req[q]
    BY <2>2, Moved
  <2>4. DrainedIsQuiet'
    BY <2>1, <2>2, <2>3 DEF DrainedIsQuiet, DrainStarted, At
  <2>5. DrainNoticed'
    BY <2>1, <2>2, <2>3 DEF DrainNoticed, At
  <2>6. QED
    BY <2>4, <2>5
<1>3. ASSUME NEW r \in Requests, RequestStep(r), PermitStep(r)
      PROVE  DrainedIsQuiet' /\ DrainNoticed'
  <2>1. UNCHANGED <<loop, draining>>
    BY <1>3, RequestKeepsLoop
  <2>2. DrainedIsQuiet'
    BY <1>3, <2>1, PermitStages DEF DrainedIsQuiet, At, Handled
  <2>3. CASE Acquire(r)
    <3>1. free' # MaxInflight
      BY <2>3, RequestsAssumption DEF Acquire, ServerTypeOK
    <3>2. QED
      BY <2>2, <3>1 DEF DrainNoticed
  <2>4. CASE RaceRefused(r)
    BY <2>2, <2>4 DEF RaceRefused, DrainNoticed
  <2>5. CASE DropPermit(r)
    <3>1. Return(r, "wake") /\ req[r] = "release" /\ "wake" \in RequestStages
      BY <2>5 DEF DropPermit, RequestStages
    <3>2. req'[r] = "wake"
      BY <3>1, Returned DEF Pooled, HandedTo
    <3>3. QED
      BY <2>2, <3>2 DEF DrainNoticed, At
  <2>6. QED
    BY <1>3, <2>3, <2>4, <2>5 DEF PermitStep
<1>4. ASSUME NEW r \in Requests, RequestStep(r) PROVE DrainStarted'
  BY <1>4, RequestKeepsLoop DEF DrainStarted
<1>5. CASE UNCHANGED serverVars
  BY <1>5 DEF serverVars, loopVars, drainVars, requestVars, DrainStarted, DrainedIsQuiet,
     DrainNoticed, At
<1>6. QED
  BY <1>1, <1>2, <1>3, <1>4, <1>5, TwoSides

-----------------------------------------------------------------------------
(* The gauge of active requests *)

\* The requests that active_requests counts.
Gauged == At(Counted) \cup panicked

\* A step that moves no request into the count or out of it.
LEMMA GaugeRests ==
  ASSUME ActiveCounted, UNCHANGED <<active, panicked>>,
         \A q \in Requests : req[q] \in Counted <=> req'[q] \in Counted
  PROVE  ActiveCounted'
<1>1. At(Counted)' = At(Counted)
  BY DEF At
<1>2. QED
  BY <1>1 DEF ActiveCounted

\* Requests that have panicked stay on their way out.
LEMMA PanicsRest ==
  ASSUME ServerTypeOK, PanicsOver, panicked' = panicked,
         \A q \in Requests : req[q] \in {"release", "wake", "done"} =>
                               req'[q] \in {"release", "wake", "done"}
  PROVE  PanicsOver'
BY DEF PanicsOver, At

\* Every way through handle_request counts the request once, and only Begin,
\* Refuse and Finish change the gauge.
LEMMA GaugeNext ==
  ASSUME ServerTypeOK, QueueFits, PanicsOver, ActiveCounted, [ServerNext]_serverVars
  PROVE  PanicsOver' /\ ActiveCounted'
<1> USE DEF Counted, Handled
<1>1. CASE LoopSide
  <2>1. \A q \in Requests :
          /\ req[q] \in Counted <=> req'[q] \in Counted
          /\ req[q] \in {"release", "wake", "done"} => req'[q] \in {"release", "wake", "done"}
    BY <1>1, LoopSteps
  <2>2. UNCHANGED <<active, panicked>>
    BY <1>1, LoopSteps
  <2> HIDE DEF Counted, Handled
  <2>3. QED
    BY <2>1, <2>2, GaugeRests, PanicsRest
<1>2. ASSUME NEW r \in Requests, PermitStep(r) PROVE PanicsOver' /\ ActiveCounted'
  <2>1. \A q \in Requests :
          /\ req[q] \in Counted <=> req'[q] \in Counted
          /\ req[q] \in {"release", "wake", "done"} => req'[q] \in {"release", "wake", "done"}
    BY <1>2, PermitStages
  <2>2. UNCHANGED <<active, panicked>>
    BY <1>2 DEF PermitStep, Acquire, RaceRefused, DropPermit
  <2> HIDE DEF Counted, Handled
  <2>3. QED
    BY <2>1, <2>2, GaugeRests, PanicsRest
<1>3. /\ IsFiniteSet(Gauged) /\ Cardinality(Gauged) \in Nat
      /\ active = Cardinality(Gauged)
  <2>1. Gauged \in SUBSET Requests
    BY DEF Gauged, At, ServerTypeOK
  <2>2. QED
    BY <2>1, CountsTyped DEF ActiveCounted, Gauged
<1>4. ASSUME NEW r \in Requests, Begin(r) PROVE PanicsOver' /\ ActiveCounted'
  <2>1. \E s \in {"refused", "acquire"} : Move(r, s)
    BY <1>4 DEF Begin
  <2>2. {"refused", "acquire"} \subseteq RequestStages
    BY DEF RequestStages
  <2>3. /\ req[r] = "arrived" /\ req'[r] \in {"refused", "acquire"}
        /\ \A q \in Requests \ {r} : req'[q] = req[q]
    BY <1>4, <2>1, <2>2, Moved DEF Begin
  <2>4. active' = active + 1 /\ panicked' = panicked
    BY <1>4 DEF Begin
  <2>5. r \notin Gauged /\ Gauged' = Gauged \cup {r}
    BY <2>3, <2>4 DEF Gauged, At, PanicsOver
  <2>6. Cardinality(Gauged') = Cardinality(Gauged) + 1
    BY <1>3, <2>5, FS_AddElement
  <2>7. PanicsOver'
    BY <2>3, <2>4, PanicsRest
  <2>8. QED
    BY <1>3, <2>4, <2>6, <2>7 DEF ActiveCounted, Gauged
<1>5. ASSUME NEW r \in Requests, Refuse(r) \/ Finish(r) PROVE PanicsOver' /\ ActiveCounted'
  <2>1. \E s \in {"done", "release"} : Move(r, s)
    BY <1>5 DEF Refuse, Finish
  <2>2. {"done", "release"} \subseteq RequestStages
    BY DEF RequestStages, Holding
  <2>3. /\ req[r] \in {"refused", "finish"} /\ req'[r] \in {"done", "release"}
        /\ \A q \in Requests \ {r} : req'[q] = req[q]
    BY <1>5, <2>1, <2>2, Moved DEF Refuse, Finish
  <2>4. active' = active - 1 /\ panicked' = panicked
    BY <1>5 DEF Refuse, Finish
  <2>5. r \in Gauged /\ Gauged' = Gauged \ {r}
    BY <2>3, <2>4 DEF Gauged, At, PanicsOver
  <2>6. Cardinality(Gauged') = Cardinality(Gauged) - 1
    BY <1>3, <2>5, FS_RemoveElement
  <2>7. PanicsOver'
    BY <2>3, <2>4, PanicsRest
  <2>8. QED
    BY <1>3, <2>4, <2>6, <2>7 DEF ActiveCounted, Gauged
<1>6. ASSUME NEW r \in Requests, Panic(r) PROVE PanicsOver' /\ ActiveCounted'
  <2>1. Move(r, "release") /\ "release" \in RequestStages
    BY <1>6 DEF Panic, RequestStages, Holding
  <2>2. /\ req[r] = "running" /\ req'[r] = "release"
        /\ \A q \in Requests \ {r} : req'[q] = req[q]
    BY <1>6, <2>1, Moved DEF Panic
  <2>3. active' = active /\ panicked' = panicked \cup {r}
    BY <1>6 DEF Panic
  <2>4. Gauged' = Gauged
    BY <2>2, <2>3 DEF Gauged, At
  <2>5. PanicsOver'
    BY <2>2, <2>3 DEF PanicsOver, At
  <2>6. QED
    BY <1>3, <2>3, <2>4, <2>5 DEF ActiveCounted, Gauged
<1>7. ASSUME NEW r \in Requests, NEW s \in RequestStages, Move(r, s),
             req[r] \in Counted <=> s \in Counted,
             req[r] \in {"release", "wake", "done"} => s \in {"release", "wake", "done"},
             UNCHANGED <<active, panicked>>
      PROVE  PanicsOver' /\ ActiveCounted'
  <2> HIDE DEF Counted, Handled
  <2>1. req'[r] = s /\ \A q \in Requests \ {r} : req'[q] = req[q]
    BY <1>7, Moved
  <2>2. \A q \in Requests :
          /\ req[q] \in Counted <=> req'[q] \in Counted
          /\ req[q] \in {"release", "wake", "done"} => req'[q] \in {"release", "wake", "done"}
    BY <1>7, <2>1
  <2>3. QED
    BY <1>7, <2>2, GaugeRests, PanicsRest
<1>8. ASSUME NEW r \in Requests, RequestStep(r), ~PermitStep(r), ~Begin(r), ~Refuse(r),
             ~Finish(r), ~Panic(r)
      PROVE  PanicsOver' /\ ActiveCounted'
  <2>1. /\ UNCHANGED <<active, panicked>>
        /\ \E s \in RequestStages :
             /\ Move(r, s)
             /\ req[r] \in Counted <=> s \in Counted
             /\ req[r] \in {"release", "wake", "done"} => s \in {"release", "wake", "done"}
    BY <1>8 DEF RequestStep, PermitStep, Admit, Complete, Abort, CancelRequest, Shutdown,
       ShutdownNotify, NotifyDrain, RequestStages, Holding
  <2> HIDE DEF Counted, Handled
  <2>2. QED
    BY <1>7, <2>1
<1>9. CASE UNCHANGED serverVars
  BY <1>9 DEF serverVars, requestVars, PanicsOver, ActiveCounted, At
<1>10. QED
  BY <1>1, <1>2, <1>4, <1>5, <1>6, <1>8, <1>9, TwoSides

-----------------------------------------------------------------------------
(* The cancellation marks *)

\* Marks that stay, of requests that stay in flight.
LEMMA MarksRest ==
  ASSUME MarksHaveTargets, marks' = marks, stray' = stray,
         \A q \in Requests : req[q] \in InFlight => req'[q] \in InFlight
  PROVE  MarksHaveTargets'
BY DEF MarksHaveTargets, At

\* Marks that stay, when one request goes and its mark becomes a stray one.
LEMMA MarksAbandoned ==
  ASSUME MarksHaveTargets, NEW r \in Requests, marks' = marks, stray' = Abandoned(r),
         \A q \in Requests \ {r} : req'[q] = req[q]
  PROVE  MarksHaveTargets'
BY DEF MarksHaveTargets, At, Abandoned

\* A mark is put on a request in flight or is stray from the start, and it goes,
\* or becomes stray, with its request.
LEMMA MarksNext ==
  ASSUME ServerTypeOK, QueueFits, MarksHaveTargets, [ServerNext]_serverVars
  PROVE  MarksHaveTargets'
<1> USE DEF InFlight, Handled
<1>1. CASE LoopSide
  <2>1. \A q \in Requests : req[q] \in InFlight => req'[q] \in InFlight
    BY <1>1, LoopSteps
  <2>2. marks' = marks /\ stray' = stray
    BY <1>1, LoopSteps
  <2>3. QED
    BY <2>1, <2>2, MarksRest
<1>2. ASSUME NEW r \in Requests, PermitStep(r) PROVE MarksHaveTargets'
  <2>1. \A q \in Requests : req[q] \in InFlight => req'[q] \in InFlight
    BY <1>2, PermitStages
  <2>2. marks' = marks /\ stray' = stray
    BY <1>2 DEF PermitStep, Acquire, RaceRefused, DropPermit
  <2>3. QED
    BY <2>1, <2>2, MarksRest
<1>3. ASSUME NEW r \in Requests, Refuse(r) \/ Panic(r) PROVE MarksHaveTargets'
  <2>1. \E s \in {"done", "release"} : Move(r, s)
    BY <1>3 DEF Refuse, Panic
  <2>2. {"done", "release"} \subseteq RequestStages
    BY DEF RequestStages, Holding
  <2>3. \A q \in Requests \ {r} : req'[q] = req[q]
    BY <2>1, <2>2, Moved
  <2>4. marks' = marks /\ stray' = Abandoned(r)
    BY <1>3 DEF Refuse, Panic
  <2>5. QED
    BY <2>3, <2>4, MarksAbandoned
<1>4. ASSUME NEW r \in Requests, Finish(r) PROVE MarksHaveTargets'
  <2>1. Move(r, "release") /\ "release" \in RequestStages
    BY <1>4 DEF Finish, RequestStages, Holding
  <2>2. \A q \in Requests \ {r} : req'[q] = req[q]
    BY <2>1, Moved
  <2>3. marks' = marks \ {IdOf[r]} /\ stray' = stray \ {IdOf[r]}
    BY <1>4 DEF Finish
  <2> HIDE DEF InFlight, Handled
  <2>4. QED
    BY <2>2, <2>3 DEF MarksHaveTargets, At
<1>5. ASSUME NEW r \in Requests, NEW i \in Ids, NEW dropped \in Ids,
             CancelRequest(r, i, dropped)
      PROVE  MarksHaveTargets'
  <2>1. Move(r, "finish") /\ "finish" \in RequestStages /\ req[r] = "running"
    BY <1>5 DEF CancelRequest, RequestStages, Holding
  <2>2. req'[r] = "finish" /\ \A q \in Requests \ {r} : req'[q] = req[q]
    BY <2>1, Moved
  <2>3. \A q \in Requests : req[q] \in InFlight => req'[q] \in InFlight
    BY <2>1, <2>2
  <2>4. marks' \subseteq marks \cup {i}
    BY <1>5 DEF CancelRequest, Marked
  <2>5. stray \cap marks' \subseteq stray'
    BY <1>5 DEF CancelRequest
  <2>6. i \in stray' \/ \E q \in At(InFlight) : IdOf[q] = i
    BY <1>5 DEF CancelRequest
  <2> HIDE DEF InFlight, Handled
  <2>7. QED
    BY <2>3, <2>4, <2>5, <2>6 DEF MarksHaveTargets, At
<1>6. ASSUME NEW r \in Requests, NEW s \in RequestStages, Move(r, s),
             req[r] \in InFlight => s \in InFlight, UNCHANGED <<marks, stray>>
      PROVE  MarksHaveTargets'
  <2> HIDE DEF InFlight, Handled
  <2>1. req'[r] = s /\ \A q \in Requests \ {r} : req'[q] = req[q]
    BY <1>6, Moved
  <2>2. QED
    BY <1>6, <2>1, MarksRest
<1>7. ASSUME NEW r \in Requests, RequestStep(r), ~PermitStep(r), ~Refuse(r), ~Panic(r),
             ~Finish(r), ~\E i, dropped \in Ids : CancelRequest(r, i, dropped)
      PROVE  MarksHaveTargets'
  <2>1. /\ UNCHANGED <<marks, stray>>
        /\ \E s \in RequestStages : Move(r, s) /\ (req[r] \in InFlight => s \in InFlight)
    BY <1>7 DEF RequestStep, PermitStep, Begin, Admit, Complete, Abort, Shutdown,
       ShutdownNotify, NotifyDrain, RequestStages, Holding
  <2> HIDE DEF InFlight, Handled
  <2>2. QED
    BY <1>6, <2>1
<1>8. CASE UNCHANGED serverVars
  BY <1>8 DEF serverVars, requestVars, MarksHaveTargets, At
<1>9. QED
  BY <1>1, <1>2, <1>3, <1>4, <1>5, <1>7, <1>8, TwoSides

-----------------------------------------------------------------------------
(* Types *)

\* The loop's variables, the flags of the drain and the marks.
LEMMA FlagsTyped ==
  ASSUME ServerTypeOK, [ServerNext]_serverVars
  PROVE  /\ transport' \in {"stdio", "http"} /\ flag' \in BOOLEAN /\ loop' \in LoopStages
         /\ heard' \in BOOLEAN /\ draining' \in BOOLEAN /\ stored' \in BOOLEAN
         /\ silent' \in BOOLEAN
         /\ marks' \subseteq Ids /\ stray' \subseteq Ids /\ panicked' \subseteq Requests
<1> USE DEF ServerTypeOK, loopVars, drainVars, requestVars
<1>1. CASE LoopSide
  <2>1. UNCHANGED <<silent, marks, stray, panicked>>
    BY <1>1, LoopSteps
  <2>2. CASE LoopTop \/ PollFlag \/ LoopBreaks
    BY <2>1, <2>2 DEF LoopTop, PollFlag, LoopBreaks, LoopStages
  <2>3. ASSUME NEW r \in Requests, Input(r) \/ DispatchLine(r) \/ OtherLine(r) \/ DispatchConnection(r)
        PROVE  UNCHANGED <<transport, flag, heard, draining, stored>> /\ loop' \in LoopStages
    BY <2>3 DEF Input, DispatchLine, OtherLine, DispatchConnection, LoopStages
  <2>4. CASE StdioShutdown \/ StartDrain \/ CheckDrained \/ DrainNotified \/ DrainTimesOut
    BY <2>1, <2>4 DEF StdioShutdown, StartDrain, CheckDrained, DrainNotified, DrainTimesOut,
       LoopStages
  <2>5. QED
    BY <1>1, <2>1, <2>2, <2>3, <2>4 DEF LoopSide, LoopStep
<1>2. ASSUME NEW r \in Requests, RequestStep(r)
      PROVE  /\ UNCHANGED <<transport, loop, draining>>
             /\ flag' \in BOOLEAN /\ heard' \in BOOLEAN /\ stored' \in BOOLEAN
             /\ silent' \in BOOLEAN
             /\ marks' \subseteq Ids /\ stray' \subseteq Ids /\ panicked' \subseteq Requests
  <2>1. UNCHANGED <<transport, loop, draining>>
    BY <1>2, RequestKeepsLoop
  <2>2. Abandoned(r) \subseteq Ids
    BY DEF Abandoned
  <2>3. ASSUME NEW i \in Ids, NEW dropped \in Ids, CancelRequest(r, i, dropped)
        PROVE  /\ UNCHANGED <<flag, heard, stored, silent, panicked>>
               /\ marks' \subseteq Ids /\ stray' \subseteq Ids
    BY <2>3 DEF CancelRequest, Marked
  <2>4. CASE Begin(r) \/ Acquire(r) \/ Admit(r) \/ RaceRefused(r) \/ Complete(r) \/ Abort(r)
    BY <2>1, <2>4 DEF Begin, Acquire, Admit, RaceRefused, Complete, Abort
  <2>5. CASE Refuse(r) \/ Panic(r)
    BY <2>1, <2>2, <2>5 DEF Refuse, Panic
  <2>6. CASE Shutdown(r) \/ ShutdownNotify(r)
    BY <2>1, <2>6 DEF Shutdown, ShutdownNotify, NotifyWaiters
  <2>7. CASE Finish(r) \/ DropPermit(r) \/ NotifyDrain(r)
    BY <2>1, <2>7 DEF Finish, DropPermit, NotifyDrain
  <2>8. QED
    BY <1>2, <2>1, <2>3, <2>4, <2>5, <2>6, <2>7 DEF RequestStep
<1>3. CASE UNCHANGED serverVars
  BY <1>3 DEF serverVars
<1>4. QED
  BY <1>1, <1>2, <1>3, TwoSides

\* The requests and the queue.
LEMMA RequestsTyped ==
  ASSUME ServerTypeOK, QueueFits, [ServerNext]_serverVars
  PROVE  req' \in [Requests -> RequestStages] /\ queue' \in Seq(Requests) /\ free' \in Int
<1>1. CASE LoopSide
  BY <1>1, LoopSteps DEF ServerTypeOK
<1>2. ASSUME NEW r \in Requests, RequestStep(r), ~PermitStep(r)
      PROVE  req' \in [Requests -> RequestStages] /\ queue' \in Seq(Requests) /\ free' \in Int
  <2>1. UNCHANGED <<free, queue>> /\ \E s \in RequestStages : Move(r, s)
    BY <1>2, OtherSteps
  <2>2. req' \in [Requests -> RequestStages]
    BY <2>1, Moved
  <2>3. QED
    BY <2>1, <2>2 DEF ServerTypeOK
<1>3. ASSUME NEW r \in Requests, PermitStep(r)
      PROVE  req' \in [Requests -> RequestStages] /\ queue' \in Seq(Requests) /\ free' \in Int
  <2>1. free' \in Int
    BY <1>3 DEF PermitStep, Acquire, RaceRefused, DropPermit, Return, ServerTypeOK
  <2>2. QED
    BY <1>3, <2>1, PermitStages
<1>4. CASE UNCHANGED serverVars
  BY <1>4 DEF serverVars, drainVars, requestVars, ServerTypeOK
<1>5. QED
  BY <1>1, <1>2, <1>3, <1>4, TwoSides

\* A permit is taken only when there is one.
LEMMA FreeNotNegative ==
  ASSUME ServerTypeOK, QueueFits, [ServerNext]_serverVars PROVE free' >= 0
<1>1. CASE LoopSide
  BY <1>1, LoopSteps DEF ServerTypeOK
<1>2. ASSUME NEW r \in Requests, RequestStep(r) PROVE free' >= 0
  <2>1. CASE PermitStep(r)
    BY <2>1 DEF PermitStep, Acquire, RaceRefused, DropPermit, Return, ServerTypeOK
  <2>2. CASE ~PermitStep(r)
    BY <1>2, <2>2, OtherSteps DEF ServerTypeOK
  <2>3. QED
    BY <2>1, <2>2
<1>3. CASE UNCHANGED serverVars
  BY <1>3 DEF serverVars, drainVars, ServerTypeOK
<1>4. QED
  BY <1>1, <1>2, <1>3, TwoSides

\* The bounds of the two counters follow from what they count.
LEMMA ServerTypeNext ==
  ASSUME ServerTypeOK, QueueFits, [ServerNext]_serverVars, PermitsConserved', ActiveCounted'
  PROVE  ServerTypeOK'
<1>1. At(Holding)' \in SUBSET Requests /\ At(Counted)' \in SUBSET Requests
  BY DEF At
<1>2. Cardinality(At(Holding)') \in Nat
  BY <1>1, CountsTyped
<1>3. (At(Counted) \cup panicked)' \in SUBSET Requests
  BY <1>1, FlagsTyped
<1>4. active' \in Nat
  BY <1>3, CountsTyped DEF ActiveCounted
<1>5. free' \in 0..MaxInflight
  BY <1>2, RequestsTyped, FreeNotNegative, RequestsAssumption DEF PermitsConserved
<1>6. QED
  BY <1>4, <1>5, FlagsTyped, RequestsTyped DEF ServerTypeOK

-----------------------------------------------------------------------------
(* The theorems *)

\* The invariant holds when the server starts.
LEMMA ServerInitInv == ServerInit => ServerInv
<1> SUFFICES ASSUME ServerInit PROVE ServerInv
  OBVIOUS
<1> USE RequestsAssumption
<1>1. ServerTypeOK
  <2>1. queue \in Seq(Requests) /\ req \in [Requests -> RequestStages]
    BY DEF ServerInit, RequestStages
  <2>2. free \in 0..MaxInflight /\ active \in Nat
    BY DEF ServerInit
  <2>3. flag \in BOOLEAN /\ heard \in BOOLEAN /\ draining \in BOOLEAN /\ stored \in BOOLEAN
    BY DEF ServerInit
  <2>4. silent \in BOOLEAN /\ marks \subseteq Ids /\ stray \subseteq Ids
    BY DEF ServerInit
  <2>5. panicked \subseteq Requests /\ loop \in LoopStages /\ transport \in {"stdio", "http"}
    BY DEF ServerInit, LoopStages
  <2>6. QED
    BY <2>1, <2>2, <2>3, <2>4, <2>5 DEF ServerTypeOK
<1>2. QueueFits /\ DrainStarted /\ DrainedIsQuiet /\ DrainNoticed
  <2>1. QueueFits
    <3>1. Len(queue) = 0
      BY DEF ServerInit
    <3>2. 1..Len(queue) = {}
      BY <3>1
    <3>3. QED
      BY <3>2 DEF QueueFits
  <2>2. QED
    BY <2>1 DEF ServerInit, DrainStarted, DrainedIsQuiet, DrainNoticed
<1>3. At(Holding) = {} /\ At(Counted) \cup panicked = {}
  BY DEF ServerInit, At, Holding, Counted, Handled
<1>4. PermitsConserved /\ ActiveCounted
  <2>1. Cardinality(At(Holding)) = 0 /\ Cardinality(At(Counted) \cup panicked) = 0
    BY <1>3, FS_EmptySet
  <2>2. free = MaxInflight /\ queue = <<>> /\ active = 0
    BY DEF ServerInit
  <2>3. QED
    BY <2>1, <2>2 DEF PermitsConserved, ActiveCounted
<1>5. PanicsOver /\ MarksHaveTargets
  BY DEF ServerInit, PanicsOver, MarksHaveTargets
<1>6. QED
  BY <1>1, <1>2, <1>4, <1>5 DEF ServerInv

\* The server's invariant, in every interleaving of its loop, the drain and the
\* requests.
THEOREM ServerInvariance == ServerSpec => []ServerInv
<1>1. ServerInv /\ [ServerNext]_serverVars => ServerInv'
  <2> SUFFICES ASSUME ServerInv, [ServerNext]_serverVars PROVE ServerInv'
    OBVIOUS
  <2>1. /\ ServerTypeOK /\ QueueFits /\ PermitsConserved /\ DrainStarted /\ DrainedIsQuiet
        /\ DrainNoticed /\ PanicsOver /\ ActiveCounted /\ MarksHaveTargets
    BY DEF ServerInv
  <2>2. QueueFits' /\ PermitsConserved'
    BY <2>1, PermitsNext
  <2>3. DrainStarted' /\ DrainedIsQuiet' /\ DrainNoticed'
    BY <2>1, DrainNext
  <2>4. PanicsOver' /\ ActiveCounted'
    BY <2>1, GaugeNext
  <2>5. MarksHaveTargets'
    BY <2>1, MarksNext
  <2>6. ServerTypeOK'
    BY <2>1, <2>2, <2>4, ServerTypeNext
  <2>7. QED
    BY <2>2, <2>3, <2>4, <2>5, <2>6 DEF ServerInv
<1>2. QED
  BY <1>1, ServerInitInv, PTL DEF ServerSpec

\* The types of the server's state; in particular neither the semaphore nor the
\* gauge of active requests leaves its range.
THEOREM ServerTypeCorrect == ServerSpec => []ServerTypeOK
<1>1. ServerInv => ServerTypeOK
  BY DEF ServerInv
<1>2. QED
  BY <1>1, ServerInvariance, PTL

\* No permit of DrainGuard is leaked or made up, and nobody waits for a free one.
THEOREM PermitsAreConserved == ServerSpec => []PermitsConserved
<1>1. ServerInv => PermitsConserved
  BY DEF ServerInv
<1>2. QED
  BY <1>1, ServerInvariance, PTL

\* wait_for_drain is told when the last DrainPermit is dropped.
THEOREM DrainIsTold == ServerSpec => []DrainNoticed
<1>1. ServerInv => DrainNoticed
  BY DEF ServerInv
<1>2. QED
  BY <1>1, ServerInvariance, PTL

\* inc_active_requests and dec_active_requests are paired on every path but a panic.
THEOREM GaugeCounts == ServerSpec => []ActiveCounted
<1>1. ServerInv => ActiveCounted
  BY DEF ServerInv
<1>2. QED
  BY <1>1, ServerInvariance, PTL

\* A mark of $/cancel_request belongs to a request in flight, but for the stray
\* ones: of cancellations that came too late and of requests without a tail.
THEOREM MarksAreAimed == ServerSpec => []MarksHaveTargets
<1>1. ServerInv => MarksHaveTargets
  BY DEF ServerInv
<1>2. QED
  BY <1>1, ServerInvariance, PTL

-----------------------------------------------------------------------------
(* The refinement *)

\* The requests that have left handle_request.
Past == At({"release", "wake", "done"})

\* A step that the gate does not see.
LEMMA GateRests ==
  ASSUME Phase' = Phase, At(Handled)' = At(Handled), Past' = Past
  PROVE  [Admission!GateNext]_(Admission!gateVars)
BY DEF Admission!gateVars, Past

\* The phase is a matter of the loop.
LEMMA PhaseRests ==
  ASSUME UNCHANGED <<loop, draining>> PROVE Phase' = Phase
BY DEF Phase

\* The loop closes the gate and finds it drained; a request it does not spawn is
\* turned away.
LEMMA LoopRefines ==
  ASSUME ServerInv, LoopSide PROVE [Admission!GateNext]_(Admission!gateVars)
<1>1. ServerTypeOK /\ PermitsConserved /\ DrainStarted
  BY DEF ServerInv
<1>2. ASSUME NEW r \in Requests, Input(r) \/ DispatchLine(r) \/ OtherLine(r) \/ DispatchConnection(r)
      PROVE  [Admission!GateNext]_(Admission!gateVars)
  <2>1. /\ loop \in {"select", "busy"} /\ loop' \in {"busy", "hung", "top", "stopped", "exited"}
        /\ draining' = draining
        /\ req[r] \in {"new", "taken"}
        /\ \E s \in {"taken", "arrived", "done"} : Move(r, s)
    BY <1>2 DEF Input, DispatchLine, OtherLine, DispatchConnection, Move, drainVars
  <2>2. PICK s \in {"taken", "arrived", "done"} : Move(r, s)
    BY <2>1
  <2>3. s \in RequestStages
    BY DEF RequestStages
  <2>4. req'[r] = s /\ \A q \in Requests \ {r} : req'[q] = req[q]
    BY <1>1, <2>2, <2>3, Moved
  <2>5. Phase' = Phase
    BY <2>1 DEF Phase
  <2>6. At(Handled)' = At(Handled) /\ r \notin At(Handled)
    BY <2>1, <2>4 DEF At, Handled
  <2>7. CASE s = "done"
    <3>1. Past' = Past \cup {r}
      BY <2>4, <2>7 DEF Past, At
    <3>2. Admission!Depart({r})
      BY <2>5, <2>6, <3>1 DEF Admission!Depart, Past
    <3>3. QED
      BY <3>2 DEF Admission!GateNext
  <2>8. CASE s # "done"
    <3>1. Past' = Past
      BY <2>1, <2>4, <2>8 DEF Past, At
    <3>2. QED
      BY <2>5, <2>6, <3>1, GateRests
  <2>9. QED
    BY <2>7, <2>8
<1>3. ASSUME req' = req PROVE At(Handled)' = At(Handled) /\ Past' = Past
  BY <1>3 DEF At, Past
<1>4. CASE LoopTop \/ PollFlag \/ LoopBreaks \/ StdioShutdown
  <2>1. /\ loop \notin {"drained"} /\ loop' \notin {"drained"}
        /\ draining' = draining /\ req' = req
    BY <1>4 DEF LoopTop, PollFlag, LoopBreaks, StdioShutdown, drainVars, requestVars
  <2>2. Phase' = Phase
    BY <2>1 DEF Phase
  <2>3. QED
    BY <1>3, <2>1, <2>2, GateRests
<1>5. CASE DrainNotified \/ DrainTimesOut
  <2>1. /\ loop = "waiting" /\ loop' \in {"check", "timedout"}
        /\ draining' = draining /\ req' = req
    BY <1>5 DEF DrainNotified, DrainTimesOut, drainVars, requestVars
  <2>2. Phase' = Phase
    BY <2>1 DEF Phase
  <2>3. QED
    BY <1>3, <2>1, <2>2, GateRests
<1>6. CASE StartDrain
  <2>1. /\ loop = "stopped" /\ loop' = "check" /\ draining' /\ req' = req
    BY <1>6 DEF StartDrain, requestVars
  <2>2. Phase' = "closing" /\ Phase \in {"open", "closing"}
    BY <2>1 DEF Phase
  <2>3. At(Handled)' = At(Handled) /\ Past' = Past
    BY <1>3, <2>1
  <2>4. CASE Phase = "closing"
    BY <2>2, <2>3, <2>4, GateRests
  <2>5. CASE Phase = "open"
    <3>1. Admission!Close
      BY <2>2, <2>3, <2>5 DEF Admission!Close, Past
    <3>2. QED
      BY <3>1 DEF Admission!GateNext
  <2>6. QED
    BY <2>2, <2>4, <2>5
<1>7. CASE CheckDrained
  <2>1. /\ loop = "check" /\ draining /\ draining' = draining /\ req' = req
        /\ loop' = IF free = MaxInflight THEN "drained" ELSE "waiting"
    BY <1>1, <1>7 DEF CheckDrained, DrainStarted, drainVars, requestVars
  <2>2. At(Handled)' = At(Handled) /\ Past' = Past
    BY <1>3, <2>1
  <2>3. CASE free = MaxInflight
    <3>1. At(Holding) = {}
      BY <1>1, <2>3, AllBack
    <3>2. At(Handled) = {}
      BY <3>1 DEF At, Holding, Handled
    <3>3. Phase = "closing" /\ Phase' = "drained"
      BY <2>1, <2>3 DEF Phase
    <3>4. Admission!Drain
      BY <2>2, <3>2, <3>3 DEF Admission!Drain, Past
    <3>5. QED
      BY <3>4 DEF Admission!GateNext
  <2>4. CASE free # MaxInflight
    <3>1. Phase' = Phase
      BY <2>1, <2>4 DEF Phase
    <3>2. QED
      BY <2>2, <3>1, GateRests
  <2>5. QED
    BY <2>3, <2>4
<1>8. QED
  BY <1>2, <1>4, <1>5, <1>6, <1>7 DEF LoopSide, LoopStep

\* A request enters with the second look, holding a permit of its own; the others
\* who are inside hold the rest.
LEMMA AdmitRefines ==
  ASSUME ServerInv, NEW r \in Requests, Admit(r) PROVE [Admission!GateNext]_(Admission!gateVars)
<1>1. ServerTypeOK /\ PermitsConserved /\ DrainStarted
  BY DEF ServerInv
<1>2. Move(r, "running") /\ req[r] = "granted" /\ ~draining /\ UNCHANGED <<loop, draining>>
  BY DEF Admit, loopVars, drainVars
<1>3. "running" \in RequestStages
  BY DEF RequestStages, Holding
<1>4. req'[r] = "running" /\ \A q \in Requests \ {r} : req'[q] = req[q]
  BY <1>1, <1>2, <1>3, Moved
<1>5. Phase = "open" /\ Phase' = Phase
  BY <1>1, <1>2 DEF Phase, DrainStarted
<1>6. /\ r \notin At(Handled) \cup Past
      /\ At(Handled)' = At(Handled) \cup {r}
      /\ Past' = Past
  BY <1>2, <1>4 DEF At, Past, Handled
<1>7. Cardinality(At(Handled)) < MaxInflight
  <2>1. /\ At(Holding) \in SUBSET Requests /\ At(Handled) \in SUBSET Requests
        /\ At(Handled) \cup {r} \in SUBSET At(Holding)
    BY <1>2 DEF At, Holding, Handled
  <2>2. /\ IsFiniteSet(At(Holding)) /\ Cardinality(At(Holding)) \in Nat
        /\ IsFiniteSet(At(Handled)) /\ Cardinality(At(Handled)) \in Nat
    BY <2>1, CountsTyped
  <2>3. r \notin At(Handled)
    BY <1>6
  <2>4. Cardinality(At(Handled) \cup {r}) = Cardinality(At(Handled)) + 1
    BY <2>2, <2>3, FS_AddElement
  <2>5. Cardinality(At(Handled) \cup {r}) <= Cardinality(At(Holding))
    BY <2>1, <2>2, FS_Subset
  <2>6. Cardinality(At(Holding)) <= MaxInflight
    BY <1>1, <2>2, RequestsAssumption DEF PermitsConserved, ServerTypeOK
  <2>7. QED
    BY <2>2, <2>4, <2>5, <2>6, RequestsAssumption
<1>8. Admission!Cardinality(At(Handled)) = Cardinality(At(Handled))
  BY Zenon DEF Admission!Cardinality, Cardinality
<1>9. Admission!Enter(r)
  BY <1>5, <1>6, <1>7, <1>8 DEF Admission!Enter, Past
<1>10. QED
  BY <1>9 DEF Admission!GateNext

\* A request leaves with its tail or its panic, and a refused one is turned away;
\* nothing else that a request does is seen.
LEMMA RequestRefines ==
  ASSUME ServerInv, NEW r \in Requests, RequestStep(r)
  PROVE  [Admission!GateNext]_(Admission!gateVars)
<1>1. ServerTypeOK /\ QueueFits
  BY DEF ServerInv
<1>2. Phase' = Phase
  BY RequestKeepsLoop, PhaseRests
<1>3. CASE PermitStep(r)
  <2>1. At(Handled)' = At(Handled) /\ Past' = Past
    BY <1>1, <1>3, PermitStages DEF At, Handled, Past
  <2>2. QED
    BY <1>2, <2>1, GateRests
<1>4. CASE Finish(r) \/ Panic(r)
  <2>1. /\ Move(r, "release") /\ req[r] \in {"finish", "running"}
        /\ "release" \in RequestStages
    BY <1>4 DEF Finish, Panic, RequestStages, Holding
  <2>2. req'[r] = "release" /\ \A q \in Requests \ {r} : req'[q] = req[q]
    BY <1>1, <2>1, Moved
  <2>3. r \in At(Handled) /\ At(Handled)' = At(Handled) \ {r} /\ Past' = Past \cup {r}
    BY <2>1, <2>2 DEF At, Handled, Past
  <2>4. Admission!Depart({r})
    BY <1>2, <2>3 DEF Admission!Depart, Past
  <2>5. QED
    BY <2>4 DEF Admission!GateNext
<1>5. CASE Refuse(r)
  <2>1. Move(r, "done") /\ req[r] = "refused" /\ "done" \in RequestStages
    BY <1>5 DEF Refuse, RequestStages
  <2>2. req'[r] = "done" /\ \A q \in Requests \ {r} : req'[q] = req[q]
    BY <1>1, <2>1, Moved
  <2>3. r \notin At(Handled) /\ At(Handled)' = At(Handled) /\ Past' = Past \cup {r}
    BY <2>1, <2>2 DEF At, Handled, Past
  <2>4. Admission!Depart({r})
    BY <1>2, <2>3 DEF Admission!Depart, Past
  <2>5. QED
    BY <2>4 DEF Admission!GateNext
<1>6. ASSUME NEW s \in RequestStages, Move(r, s), req[r] \in Handled <=> s \in Handled,
             req[r] \in {"release", "wake", "done"} <=> s \in {"release", "wake", "done"}
      PROVE  [Admission!GateNext]_(Admission!gateVars)
  <2>1. req'[r] = s /\ \A q \in Requests \ {r} : req'[q] = req[q]
    BY <1>1, <1>6, Moved
  <2>2. At(Handled)' = At(Handled) /\ Past' = Past
    BY <1>6, <2>1 DEF At, Past
  <2>3. QED
    BY <1>2, <2>2, GateRests
<1>7. CASE ~PermitStep(r) /\ ~Finish(r) /\ ~Panic(r) /\ ~Refuse(r) /\ ~Admit(r)
  <2>1. \E s \in RequestStages :
          /\ Move(r, s)
          /\ req[r] \in Handled <=> s \in Handled
          /\ req[r] \in {"release", "wake", "done"} <=> s \in {"release", "wake", "done"}
    BY <1>7, RequestStep(r) DEF RequestStep, PermitStep, Begin, Complete, Abort, CancelRequest,
       Shutdown, ShutdownNotify, NotifyDrain, RequestStages, Holding, Handled
  <2>2. QED
    BY <1>6, <2>1
<1>8. QED
  BY <1>3, <1>4, <1>5, <1>7, AdmitRefines

\* DrainGuard implements the gate of AdmissionGate: at most max_permits requests are
\* handled at once, none is admitted after start_drain, and wait_for_drain returns
\* true only when none is being handled.
THEOREM AdmissionRefinement == ServerSpec => AdmissionKept
<1>1. ServerInit => Admission!GateInit
  BY DEF ServerInit, Admission!GateInit, Phase, At, Handled
<1>2. ServerInv /\ [ServerNext]_serverVars => [Admission!GateNext]_(Admission!gateVars)
  <2>1. ASSUME UNCHANGED serverVars PROVE [Admission!GateNext]_(Admission!gateVars)
    <3>1. /\ Phase' = Phase /\ At(Handled)' = At(Handled) /\ Past' = Past
      BY <2>1 DEF serverVars, loopVars, drainVars, requestVars, Phase, At, Past
    <3>2. QED
      BY <3>1, GateRests
  <2>2. QED
    BY <2>1, LoopRefines, RequestRefines, TwoSides
<1>3. QED
  BY ServerInvariance, <1>1, <1>2, PTL DEF ServerSpec, AdmissionKept, Admission!GateSpec
==============================================================================
