------------------------------- MODULE Gateway -------------------------------
(***************************************************************************)
(* The multi-platform gateway (src/gateway): webhook deliveries handled    *)
(* concurrently, one agent turn per chat at a time guarded by TurnLease,   *)
(* redeliveries deduplicated by the SQLite DeliveryLedger.                 *)
(*                                                                         *)
(* A handler is one spawned handle_connection task. Its actions are the    *)
(* stretches of handle_webhook_request between two points where another    *)
(* task can run: the ledger and lease mutexes and the awaits of the turn.  *)
(* The platform may deliver any message at any time and as often as it     *)
(* likes; the process may crash and restart, which loses handlers and      *)
(* leases and keeps the ledger. Unroutable and malformed requests, and a   *)
(* failing ledger query, answer at once and change nothing.                *)
(***************************************************************************)
EXTENDS Integers

CONSTANTS
  Handlers,   \* connection tasks that may be in flight together
  Messages,   \* inbound payloads (identical payloads share their hash)
  Chats,      \* (platform, chat_id) sessions
  ChatOf,     \* the chat a message belongs to
  LeaseTime   \* DEFAULT_LEASE_DURATION, in clock ticks

ASSUME ChatAssumption == ChatOf \in [Messages -> Chats] /\ Messages # {}
ASSUME LeaseAssumption == LeaseTime \in Nat \ {0}

VARIABLES
  lease,    \* TurnLease.active: chat -> time since claimed_at, or NoLease
  ledger,   \* DeliveryLedger: messages recorded as delivered (persistent)
  handler,  \* what each connection task is doing
  sent,     \* history: messages whose reply was written to a socket
  overran   \* history: chats one of whose turns outlived its lease since the
            \* last restart

vars == <<lease, ledger, handler, sent, overran>>

NoLease == -1

\* Time since a claim, saturating at LeaseTime: nobody looks beyond expiry.
Ages == 0..LeaseTime

Stages == {"idle", "claim", "stream", "tools", "record", "release", "respond"}

\* A handler holds a TurnLeaseGuard from its claim until the guard is dropped.
Holding == {"stream", "tools", "record", "release"}

Holds(h, c) == handler[h].at \in Holding /\ ChatOf[handler[h].msg] = c

Idle == [at |-> "idle", msg |-> CHOOSE m \in Messages : TRUE, age |-> 0]

TypeOK ==
  /\ lease \in [Chats -> {NoLease} \cup Ages]
  /\ ledger \subseteq Messages
  /\ handler \in [Handlers -> [at : Stages, msg : Messages, age : Ages]]
  /\ sent \subseteq Messages
  /\ overran \subseteq Chats

Init ==
  /\ lease = [c \in Chats |-> NoLease]
  /\ ledger = {}
  /\ handler = [h \in Handlers |-> Idle]
  /\ sent = {}
  /\ overran = {}

-----------------------------------------------------------------------------
At(h, stage) == handler[h].at = stage

GoTo(h, stage) == handler' = [handler EXCEPT ![h].at = stage]

Return(h) == handler' = [handler EXCEPT ![h] = Idle]

\* Mutant: a lease never expires.
UnexpiredForEver(age) == age # NoLease

\* Mutant: a lease expires a tick too early.
UnexpiredShort(age) == age # NoLease /\ age < LeaseTime - 1

\* A lease blocks others while it is younger than LeaseTime.
Unexpired(age) == age # NoLease /\ age < LeaseTime

\* Drop of TurnLeaseGuard: removes the chat's entry, whoever claimed it.
DropGuard(h) == lease' = [lease EXCEPT ![ChatOf[handler[h].msg]] = NoLease]

-----------------------------------------------------------------------------
(* handle_webhook_request *)

\* Mutant: the dedup check is left out.
ReceiveUnchecked(h, m) ==
  /\ At(h, "idle")
  /\ handler' = [handler EXCEPT ![h] = [at |-> "claim", msg |-> m, age |-> 0]]
  /\ UNCHANGED <<lease, ledger, sent, overran>>

\* The dedup check: a recorded message is answered 200 with an empty body.
Receive(h, m) ==
  /\ At(h, "idle")
  /\ m \notin ledger
  /\ handler' = [handler EXCEPT ![h] = [at |-> "claim", msg |-> m, age |-> 0]]
  /\ UNCHANGED <<lease, ledger, sent, overran>>

\* 409: a turn holds an unexpired lease for this chat.
Busy(h) ==
  /\ At(h, "claim")
  /\ Unexpired(lease[ChatOf[handler[h].msg]])
  /\ Return(h)
  /\ UNCHANGED <<lease, ledger, sent, overran>>

TryClaim(h) ==
  LET c == ChatOf[handler[h].msg] IN
  /\ At(h, "claim")
  /\ ~Unexpired(lease[c])
  /\ lease' = [lease EXCEPT ![c] = 0]
  /\ GoTo(h, "stream")
  /\ UNCHANGED <<ledger, sent, overran>>

\* collect_turn_response: the agent's stream ended well; intercepted tool calls
\* are executed next, for as long as they take.
StreamEnds(h) ==
  /\ At(h, "stream")
  /\ GoTo(h, "tools")
  /\ UNCHANGED <<lease, ledger, sent, overran>>

\* The turn timed out, was cut off or failed: the error return drops the guard.
TurnFails(h) ==
  /\ At(h, "stream")
  /\ DropGuard(h)
  /\ Return(h)
  /\ UNCHANGED <<ledger, sent, overran>>

\* Tools done and the reply rendered.
TurnSucceeds(h) ==
  /\ At(h, "tools")
  /\ GoTo(h, "record")
  /\ UNCHANGED <<lease, ledger, sent, overran>>

\* Mutant: the delivery is recorded under the chat instead of the message.
RecordDeliveryOfChat(h) ==
  /\ At(h, "record")
  /\ ledger' = ledger \cup {ChatOf[handler[h].msg]}
  /\ GoTo(h, "release")
  /\ UNCHANGED <<lease, sent, overran>>

RecordDelivery(h) ==
  /\ At(h, "record")
  /\ ledger' = ledger \cup {handler[h].msg}
  /\ GoTo(h, "release")
  /\ UNCHANGED <<lease, sent, overran>>

\* Mutant: the error return leaves the lease entry behind.
RecordFailsLeaking(h) ==
  /\ At(h, "record")
  /\ Return(h)
  /\ UNCHANGED <<lease, ledger, sent, overran>>

\* Mutant: a failing record is logged and the reply sent all the same.
RecordFailsReplying(h) ==
  /\ At(h, "record")
  /\ GoTo(h, "release")
  /\ UNCHANGED <<lease, ledger, sent, overran>>

\* Rendering or recording failed: 500, the guard is dropped.
RecordFails(h) ==
  /\ At(h, "record")
  /\ DropGuard(h)
  /\ Return(h)
  /\ UNCHANGED <<ledger, sent, overran>>

\* handle_webhook_request returns the reply; its guard goes out of scope.
Release(h) ==
  /\ At(h, "release")
  /\ DropGuard(h)
  /\ GoTo(h, "respond")
  /\ UNCHANGED <<ledger, sent, overran>>

\* write_response, to a socket that may be gone.
Respond(h, written) ==
  /\ At(h, "respond")
  /\ sent' = IF written THEN sent \cup {handler[h].msg} ELSE sent
  /\ Return(h)
  /\ UNCHANGED <<lease, ledger, overran>>

-----------------------------------------------------------------------------
Older(age) == IF age < LeaseTime THEN age + 1 ELSE age

Tick ==
  LET holders == {h \in Handlers : handler[h].at \in Holding} IN
  /\ lease' = [c \in Chats |-> IF lease[c] = NoLease THEN NoLease ELSE Older(lease[c])]
  /\ handler' = [h \in Handlers |->
                   IF h \in holders
                   THEN [handler[h] EXCEPT !.age = Older(@)] ELSE handler[h]]
  /\ overran' = overran \cup
       {ChatOf[handler[h].msg] : h \in {g \in holders : Older(handler[g].age) = LeaseTime}}
  /\ UNCHANGED <<ledger, sent>>

\* The gateway process dies and is started again.
Crash ==
  /\ lease' = [c \in Chats |-> NoLease]
  /\ handler' = [h \in Handlers |-> Idle]
  /\ overran' = {}
  /\ UNCHANGED <<ledger, sent>>

HandlerStep(h) ==
  \/ \E m \in Messages : Receive(h, m)
  \/ Busy(h)
  \/ TryClaim(h)
  \/ StreamEnds(h)
  \/ TurnFails(h)
  \/ TurnSucceeds(h)
  \/ RecordDelivery(h)
  \/ RecordFails(h)
  \/ Release(h)
  \/ \E written \in BOOLEAN : Respond(h, written)

Next == (\E h \in Handlers : HandlerStep(h)) \/ Tick \/ Crash

Spec == Init /\ [][Next]_vars

\* Time passes; a turn may hang for ever.
FairSpec == Spec /\ WF_vars(Tick)

-----------------------------------------------------------------------------
(* Safety *)

\* As long as no turn of a chat has outlived its lease, the lease entry and the
\* guards agree: at most one handler holds one, it is the one the entry was made
\* for, and an entry is there only while a handler holds it (no error path
\* leaks it).
LeaseTracksHolder ==
  \A c \in Chats \ overran :
    /\ \A g, h \in Handlers : Holds(g, c) /\ Holds(h, c) => g = h
    /\ \A h \in Handlers : Holds(h, c) => lease[c] = handler[h].age
    /\ lease[c] # NoLease => \E h \in Handlers : Holds(h, c)

\* A reply reaches a socket only after the ledger has it: a crash between the
\* turn and the reply can never make the platform see a reply the ledger would
\* let be produced again.
SentIsRecorded == sent \subseteq ledger

\* Message m is recorded and no handler that looked before the record remains.
Settled(m) ==
  /\ m \in ledger
  /\ \A h \in Handlers :
       handler[h].msg = m => handler[h].at \in {"idle", "release", "respond"}

\* Once a delivered message is settled, no redelivery starts another agent turn
\* for it, in this process or after a restart.
SettledForGood ==
  [][\A m \in Messages : Settled(m) => Settled(m)']_vars

\* The message each handler is to run a turn for, and the one it runs a turn for.
Accepted == [h \in Handlers |-> IF At(h, "claim") THEN {handler[h].msg} ELSE {}]
Turns ==
  [h \in Handlers |-> IF handler[h].at \in Holding THEN {handler[h].msg} ELSE {}]

Delivery == INSTANCE TurnDelivery WITH
  accepted <- Accepted, turn <- Turns, late <- overran,
  recorded <- ledger, answered <- sent

\* The lease, the ledger and the order of handle_webhook_request implement
\* TurnDelivery: turns of a chat exclude each other until one of them outlives its
\* lease, recorded messages are not accepted again, and replies follow records.
DeliveryKept == Delivery!DeliverySpec

(* Liveness *)

\* A wedged turn cannot block its chat for ever: again and again the chat can be
\* claimed, because the lease is released or expires.
ChatsReopen == \A c \in Chats : []<>~Unexpired(lease[c])

-----------------------------------------------------------------------------
(* What the code's documentation claims *)

\* "try_claim succeeds only when no unexpired lease exists for the session": two
\* turns of one chat are never in flight together with both of their leases
\* unexpired.
LeaseRespected ==
  \A c \in Chats : \A g, h \in Handlers :
    /\ g # h
    /\ Holds(g, c) /\ Holds(h, c)
    => handler[g].age = LeaseTime \/ handler[h].age = LeaseTime
=============================================================================
