------------------------------ MODULE Permission ------------------------------
(***************************************************************************)
(* The tool permission gate: ensure_tool_permission                        *)
(* (orchestration/tool/executor.rs) in front of every tool call, the       *)
(* governance cache of verdicts (orchestration/tool/governance_gate.rs),   *)
(* the permission hooks (governance/approval_chain.rs) and the request to  *)
(* the ACP client with its pending-request registry (acp/server.rs).       *)
(*                                                                         *)
(* Tool calls are concurrent futures. Each may be dropped at an await,     *)
(* when the batch's breaker trips or a timeout above it fires. The client  *)
(* may answer a request it has been sent at any time, again and again, and *)
(* over several connections at once. Modelled is the gate in force         *)
(* (governance enabled, mode active, a session); otherwise it allows at    *)
(* once. The cache is one shard: keys of different shards do not meet.     *)
(***************************************************************************)
EXTENDS Integers, Sequences, FiniteSets

CONSTANTS
  ToolCalls,   \* tool calls that reach the gate
  KeyOf,       \* the cache key, "session:tool", of a call
  Hooks,       \* number of configured permission hooks
  MaxEntries   \* entries of a cache shard

Keys == {KeyOf[c] : c \in ToolCalls}

ASSUME PermissionAssumption ==
  /\ KeyOf \in [ToolCalls -> Keys]
  /\ Hooks \in Nat
  /\ MaxEntries \in Nat \ {0}

VARIABLES
  gate,      \* each call: its stage, whether it hangs there, the hook it is at,
             \* the verdict it reached
  cache,     \* a shard of the governance cache, oldest entry first
  pending,   \* pending_client_requests: calls with a registered sender
  asked,     \* calls whose request the client has been sent
  delivery,  \* the answer to each call that is being delivered, its sender
             \* already taken out
  channel    \* what has been sent to each call's oneshot receiver

permissionVars == <<gate, cache, pending, asked, delivery, channel>>

\* What ends a request to the client: an answer, an error answer, no answer.
Answers == {"approve", "deny", "error"}

\* Where a verdict comes from.
Origins == {"none", "cache", "hook", "user", "error"}

\* "failed" and "expired": the sender is to be taken out of the registry;
\* "expiring" and "tell": the client is told of the rejection, with the registry's
\* lock held and without.
GateStages == {"new", "hooks", "register", "write", "failed", "wait", "expired",
               "expiring", "tell", "insert", "done", "dropped"}

\* Stages that await what has no timeout: the end of a hook's stdout, and writes to
\* the client.
Untimed == {"hooks", "write", "expiring", "tell"}

Gate == [at : GateStages, hung : BOOLEAN, hook : Nat, allow : BOOLEAN, from : Origins]

\* from is history: the code keeps the verdict only.
Entry == [key : Keys, allow : BOOLEAN, from : Origins]

PermissionTypeOK ==
  /\ gate \in [ToolCalls -> Gate]
  /\ cache \in Seq(Entry)
  /\ pending \subseteq ToolCalls
  /\ asked \subseteq ToolCalls
  /\ delivery \in [ToolCalls -> Answers \cup {"none"}]
  /\ channel \in [ToolCalls -> Answers \cup {"empty"}]

PermissionInit ==
  /\ gate = [c \in ToolCalls |->
               [at |-> "new", hung |-> FALSE, hook |-> 1, allow |-> FALSE,
                from |-> "none"]]
  /\ cache = <<>>
  /\ pending = {}
  /\ asked = {}
  /\ delivery = [c \in ToolCalls |-> "none"]
  /\ channel = [c \in ToolCalls |-> "empty"]

-----------------------------------------------------------------------------
GateAt(c, stage) == gate[c].at = stage

Proceed(c, stage, hook) ==
  gate' = [gate EXCEPT ![c] = [at |-> stage, hung |-> FALSE, hook |-> hook,
                               allow |-> gate[c].allow, from |-> gate[c].from]]

Decide(c, stage, allow, from) ==
  gate' = [gate EXCEPT ![c] = [at |-> stage, hung |-> FALSE, hook |-> gate[c].hook,
                               allow |-> allow, from |-> from]]

\* An error of whatever kind allows the tool.
Unavailable(c) == Decide(c, "insert", TRUE, "error")

CachedKeys == {cache[i].key : i \in DOMAIN cache}

\* The lock of pending_client_requests: no call holds it across an await.
RegistryFree == \A c \in ToolCalls : ~GateAt(c, "expiring")

\* The n-th hook is to run next, or the client to be asked.
HookOrAsk(n) == IF n <= Hooks THEN "hooks" ELSE "register"

-----------------------------------------------------------------------------
(* ensure_tool_permission: the cache and the hooks *)

CacheHit(c, i) ==
  /\ GateAt(c, "new")
  /\ i \in DOMAIN cache
  /\ cache[i].key = KeyOf[c]
  /\ Decide(c, "done", cache[i].allow, "cache")
  /\ UNCHANGED <<cache, pending, asked, delivery, channel>>

CacheMiss(c) ==
  /\ GateAt(c, "new")
  /\ KeyOf[c] \notin CachedKeys
  /\ Proceed(c, HookOrAsk(1), 1)
  /\ UNCHANGED <<cache, pending, asked, delivery, channel>>

\* The first hook with an opinion decides.
HookDecides(c, allow) ==
  /\ GateAt(c, "hooks")
  /\ Decide(c, "insert", allow, "hook")
  /\ UNCHANGED <<cache, pending, asked, delivery, channel>>

\* No opinion, an error, or killed after the hook timeout.
HookSilent(c) ==
  /\ GateAt(c, "hooks")
  /\ Proceed(c, HookOrAsk(gate[c].hook + 1), gate[c].hook + 1)
  /\ UNCHANGED <<cache, pending, asked, delivery, channel>>

\* The hook has exited, but a process it has left behind keeps its stdout open; or
\* the client has stopped reading. A wait that ends after all is a step that was
\* slow; one that hangs ends only when the call is dropped.
Hangs(c) ==
  /\ gate[c].at \in Untimed
  /\ ~gate[c].hung
  /\ gate' = [gate EXCEPT ![c].hung = TRUE]
  /\ UNCHANGED <<cache, pending, asked, delivery, channel>>

-----------------------------------------------------------------------------
(* request_client_permission *)

\* Mutant: the registry has one slot for a key.
RegisterByKey(c) ==
  /\ GateAt(c, "register")
  /\ RegistryFree
  /\ pending' = {p \in pending : KeyOf[p] # KeyOf[c]} \cup {c}
  /\ Proceed(c, "write", gate[c].hook)
  /\ UNCHANGED <<cache, asked, delivery, channel>>

Register(c) ==
  /\ GateAt(c, "register")
  /\ RegistryFree
  /\ pending' = pending \cup {c}
  /\ Proceed(c, "write", gate[c].hook)
  /\ UNCHANGED <<cache, asked, delivery, channel>>

WriteRequest(c) ==
  /\ GateAt(c, "write")
  /\ asked' = asked \cup {c}
  /\ Proceed(c, "wait", gate[c].hook)
  /\ UNCHANGED <<cache, pending, delivery, channel>>

\* No transport, or the write fails,
WriteFails(c) ==
  /\ GateAt(c, "write")
  /\ Proceed(c, "failed", gate[c].hook)
  /\ UNCHANGED <<cache, pending, asked, delivery, channel>>

\* and the sender is taken out again.
Withdraw(c) ==
  /\ GateAt(c, "failed")
  /\ RegistryFree
  /\ pending' = pending \ {c}
  /\ Unavailable(c)
  /\ UNCHANGED <<cache, asked, delivery, channel>>

\* The answer is there in time; the client hears of its own error.
Receive(c) ==
  /\ GateAt(c, "wait")
  /\ channel[c] # "empty"
  /\ IF channel[c] = "error"
     THEN Proceed(c, "tell", gate[c].hook)
     ELSE Decide(c, "insert", channel[c] = "approve", "user")
  /\ channel' = [channel EXCEPT ![c] = "empty"]
  /\ UNCHANGED <<cache, pending, asked, delivery>>

\* Mutant: the request is awaited without a timeout.
TimesOutNever(c) ==
  /\ GateAt(c, "wait")
  /\ c \notin asked
  /\ Proceed(c, "expired", gate[c].hook)
  /\ UNCHANGED <<cache, pending, asked, delivery, channel>>

\* Fifteen seconds without one: the receiver is dropped,
TimesOut(c) ==
  /\ GateAt(c, "wait")
  /\ channel[c] = "empty"
  /\ Proceed(c, "expired", gate[c].hook)
  /\ UNCHANGED <<cache, pending, asked, delivery, channel>>

\* Mutant: the sender is left in the registry.
ExpireKeeping(c) ==
  /\ GateAt(c, "expired")
  /\ RegistryFree
  /\ Proceed(c, "expiring", gate[c].hook)
  /\ UNCHANGED <<cache, pending, asked, delivery, channel>>

\* and the sender taken out of the registry; its lock is kept while the client is
\* told.
Expire(c) ==
  /\ GateAt(c, "expired")
  /\ RegistryFree
  /\ pending' = pending \ {c}
  /\ Proceed(c, "expiring", gate[c].hook)
  /\ UNCHANGED <<cache, asked, delivery, channel>>

\* The rejection is written, or writing it has failed; a lock is given back.
Told(c) ==
  /\ gate[c].at \in {"tell", "expiring"}
  /\ Unavailable(c)
  /\ UNCHANGED <<cache, pending, asked, delivery, channel>>

-----------------------------------------------------------------------------
(* resolve_pending_client_response, in the serve loop or for a connection *)

\* An answer with no sender registered is logged as unmatched.
Respond(c, answer) ==
  /\ c \in asked \cap pending
  /\ RegistryFree
  /\ pending' = pending \ {c}
  /\ delivery' = [delivery EXCEPT ![c] = answer]
  /\ UNCHANGED <<gate, cache, asked, channel>>

\* sender.send: in vain when the receiver is gone.
SendAnswer(c) ==
  /\ delivery[c] # "none"
  /\ channel' = IF GateAt(c, "wait") THEN [channel EXCEPT ![c] = delivery[c]]
                ELSE channel
  /\ delivery' = [delivery EXCEPT ![c] = "none"]
  /\ UNCHANGED <<gate, cache, pending, asked>>

-----------------------------------------------------------------------------
(* GovernanceCache::insert *)

\* Mutant: a later verdict replaces an earlier one.
InsertedOver(e) ==
  IF e.key \in CachedKeys
  THEN [i \in DOMAIN cache |-> IF cache[i].key = e.key THEN e ELSE cache[i]]
  ELSE LET longer == Append(cache, e)
       IN IF Len(longer) > MaxEntries THEN Tail(longer) ELSE longer

\* A key that is there keeps its verdict; the oldest entry makes room.
Inserted(e) ==
  IF e.key \in CachedKeys THEN cache
  ELSE LET longer == Append(cache, e)
       IN IF Len(longer) > MaxEntries THEN Tail(longer) ELSE longer

InsertVerdict(c) ==
  /\ GateAt(c, "insert")
  /\ cache' = Inserted([key |-> KeyOf[c], allow |-> gate[c].allow, from |-> gate[c].from])
  /\ Proceed(c, "done", gate[c].hook)
  /\ UNCHANGED <<pending, asked, delivery, channel>>

\* The call's future is dropped at an await. Its sender stays registered; a lock it
\* holds is given back.
DropCall(c) ==
  /\ gate[c].at \in {"register", "failed", "wait", "expired"} \cup Untimed
  /\ Proceed(c, "dropped", gate[c].hook)
  /\ UNCHANGED <<cache, pending, asked, delivery, channel>>

-----------------------------------------------------------------------------
GateStep(c) ==
  /\ ~gate[c].hung
  /\ \/ CacheMiss(c)
     \/ \E i \in DOMAIN cache : CacheHit(c, i)
     \/ \E allow \in BOOLEAN : HookDecides(c, allow)
     \/ HookSilent(c)
     \/ Register(c)
     \/ WriteRequest(c)
     \/ WriteFails(c)
     \/ Withdraw(c)
     \/ Receive(c)
     \/ TimesOut(c)
     \/ Expire(c)
     \/ Told(c)
     \/ InsertVerdict(c)

PermissionNext ==
  \E c \in ToolCalls :
    \/ GateStep(c)
    \/ Hangs(c)
    \/ DropCall(c)
    \/ \E answer \in Answers : Respond(c, answer)
    \/ SendAnswer(c)

PermissionSpec == PermissionInit /\ [][PermissionNext]_permissionVars

-----------------------------------------------------------------------------
(* Safety *)

\* A call that waits can still be answered, by one answer only: its sender is
\* registered, or about to be used, or the answer is in its channel. A
\* request of the same tool, a late, repeated or stray answer cannot take it.
AnswerCanArrive ==
  \A c \in ToolCalls : GateAt(c, "wait") =>
    /\ c \in pending \/ delivery[c] # "none" \/ channel[c] # "empty"
    /\ channel[c] # "empty" => c \notin pending

\* No path of a request leaves its sender in the registry, but dropping the call.
NoStaleSender ==
  \A c \in pending : gate[c].at \in {"write", "failed", "wait", "expired", "dropped"}

\* Between two calls of one tool a verdict never changes: it is the first one
\* inserted until it is the oldest entry of a full shard and goes.
VerdictStable ==
  [][\A i \in DOMAIN cache :
       \/ \E j \in DOMAIN cache' : cache'[j] = cache[i]
       \/ i = 1 /\ Len(cache) = MaxEntries /\ cache[i].key \notin CachedKeys']_permissionVars

(* Liveness *)

\* c waits for the lock of the registry, which a call that hangs will not give back.
Blocked(c) ==
  /\ gate[c].at \in {"register", "failed", "expired"}
  /\ \E d \in ToolCalls : GateAt(d, "expiring") /\ gate[d].hung

\* Every tool call gets its verdict, whether the client answers or not and however
\* slow a hook is. Excepted are the calls that hang, because a hook has left its
\* stdout to another process or the client has stopped reading, and those that need
\* the registry after one of them has hung with its lock: nothing else waits for a
\* call that hangs. Again and again no other call is at the gate (a decided one
\* does not come back).
CallsDecided ==
  []<>(\A c \in ToolCalls : \/ gate[c].at \in {"new", "done", "dropped"}
                             \/ gate[c].hung
                             \/ Blocked(c))

-----------------------------------------------------------------------------
(* What the code's documentation claims *)

\* "only cache definitive allow/deny, not errors".
ErrorsNotCached == \A i \in DOMAIN cache : cache[i].from # "error"
=============================================================================
