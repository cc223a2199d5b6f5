----------------------------- MODULE TurnDelivery -----------------------------
(***************************************************************************)
(* What the gateway promises, without leases, clocks and stages of a turn: *)
(* a chat has one agent turn at a time, unless one of its turns takes too  *)
(* long; a message that is recorded as delivered is not accepted again;    *)
(* and a reply goes out only for a recorded message.                       *)
(***************************************************************************)
CONSTANTS Handlers, Messages, Chats, ChatOf

VARIABLES
  accepted,  \* the message each handler has accepted and not begun, if any
  turn,      \* the message each handler runs a turn for, if any
  late,      \* chats with a turn that takes too long
  recorded,  \* messages recorded as delivered
  answered   \* messages whose reply went out

deliveryVars == <<accepted, turn, late, recorded, answered>>

None == [h \in Handlers |-> {}]

\* The handlers that run a turn of chat c.
HeldBy(c) == {h \in Handlers : \E m \in turn[h] : ChatOf[m] = c}

Start ==
  /\ accepted = None
  /\ turn = None
  /\ late = {}
  /\ recorded = {}
  /\ answered = {}

Accept(h, m) ==
  /\ accepted[h] = {} /\ turn[h] = {}
  /\ m \notin recorded
  /\ accepted' = [accepted EXCEPT ![h] = {m}]
  /\ UNCHANGED <<turn, late, recorded, answered>>

Refuse(h) ==
  /\ accepted' = [accepted EXCEPT ![h] = {}]
  /\ UNCHANGED <<turn, late, recorded, answered>>

Claim(h, m) ==
  /\ m \in accepted[h]
  /\ HeldBy(ChatOf[m]) = {} \/ ChatOf[m] \in late
  /\ accepted' = [accepted EXCEPT ![h] = {}]
  /\ turn' = [turn EXCEPT ![h] = {m}]
  /\ UNCHANGED <<late, recorded, answered>>

Record(h) ==
  /\ recorded' = recorded \cup turn[h]
  /\ UNCHANGED <<accepted, turn, late, answered>>

EndTurn(h) ==
  /\ turn' = [turn EXCEPT ![h] = {}]
  /\ UNCHANGED <<accepted, late, recorded, answered>>

Answer(m) ==
  /\ m \in recorded
  /\ answered' = answered \cup {m}
  /\ UNCHANGED <<accepted, turn, late, recorded>>

\* Only a chat with a turn can become late.
TakeTooLong ==
  /\ late \subseteq late'
  /\ late' \subseteq late \cup {c \in Chats : HeldBy(c) # {}}
  /\ UNCHANGED <<accepted, turn, recorded, answered>>

\* What is not recorded is lost.
Restart ==
  /\ accepted' = None
  /\ turn' = None
  /\ late' = {}
  /\ UNCHANGED <<recorded, answered>>

Deliver ==
  \/ \E h \in Handlers :
       \/ \E m \in Messages : Accept(h, m) \/ Claim(h, m)
       \/ Refuse(h)
       \/ Record(h)
       \/ EndTurn(h)
  \/ \E m \in Messages : Answer(m)
  \/ TakeTooLong
  \/ Restart

DeliverySpec == Start /\ [][Deliver]_deliveryVars
=============================================================================
