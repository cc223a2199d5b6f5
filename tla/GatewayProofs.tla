--------------------------- MODULE GatewayProofs ---------------------------
(***************************************************************************)
(* The safety of the gateway for any number of connections, messages and   *)
(* chats and any lease time.                                               *)
(***************************************************************************)
EXTENDS Gateway, TLAPS

\* A handler that has not claimed yet has age 0, so that a fresh lease and its
\* holder start together.
ClaimersAreYoung == \A h \in Handlers : At(h, "claim") => handler[h].age = 0

\* A turn that reached the end of its lease marks its chat as overran, so the
\* holder of any other chat is inside its lease: nobody can reclaim it.
HoldersAreInTime ==
  \A h \in Handlers :
    \A c \in Chats \ overran : Holds(h, c) => handler[h].age < LeaseTime

\* What is about to be answered has been recorded.
RepliesAreRecorded ==
  \A h \in Handlers : handler[h].at \in {"release", "respond"} => handler[h].msg \in ledger

\* The inductive invariant: LeaseTracksHolder alone does not exclude that a
\* holder's entry has expired and is claimed again, and SentIsRecorded does not
\* say what a handler may send next.
Inv ==
  /\ TypeOK
  /\ LeaseTracksHolder
  /\ ClaimersAreYoung
  /\ HoldersAreInTime
  /\ SentIsRecorded
  /\ RepliesAreRecorded

-----------------------------------------------------------------------------
\* The idle task is a task.
LEMMA IdleTyped == Idle \in [at : Stages, msg : Messages, age : Ages] /\ Idle.at = "idle"
<1>1. (CHOOSE m \in Messages : TRUE) \in Messages
  BY ChatAssumption
<1>2. QED
  BY <1>1, LeaseAssumption DEF Idle, Stages, Ages

\* The gateway starts with nothing claimed, recorded or sent.
LEMMA InvInit == Init => Inv
BY IdleTyped, LeaseAssumption
   DEF Init, Inv, TypeOK, LeaseTracksHolder, ClaimersAreYoung, HoldersAreInTime,
       SentIsRecorded, RepliesAreRecorded, Holds, Holding, At, NoLease, Ages

\* Every action keeps the types.
LEMMA TypeNext == TypeOK /\ [Next]_vars => TypeOK'
<1> SUFFICES ASSUME TypeOK, [Next]_vars PROVE TypeOK'
  OBVIOUS
<1> USE ChatAssumption, LeaseAssumption, IdleTyped DEF TypeOK, Ages, NoLease, Stages
<1>1. ASSUME NEW h \in Handlers, HandlerStep(h) PROVE TypeOK'
  <2>1. ASSUME NEW m \in Messages, Receive(h, m) PROVE TypeOK'
    BY <2>1 DEF Receive
  <2>2. CASE Busy(h)
    BY <2>2 DEF Busy, Return
  <2>3. CASE TryClaim(h)
    BY <2>3 DEF TryClaim, GoTo
  <2>4. CASE StreamEnds(h)
    BY <2>4 DEF StreamEnds, GoTo
  <2>5. CASE TurnFails(h)
    BY <2>5 DEF TurnFails, DropGuard, Return
  <2>6. CASE TurnSucceeds(h)
    BY <2>6 DEF TurnSucceeds, GoTo
  <2>7. CASE RecordDelivery(h)
    BY <2>7 DEF RecordDelivery, GoTo
  <2>8. CASE RecordFails(h)
    BY <2>8 DEF RecordFails, DropGuard, Return
  <2>9. CASE Release(h)
    BY <2>9 DEF Release, DropGuard, GoTo
  <2>10. ASSUME NEW written \in BOOLEAN, Respond(h, written) PROVE TypeOK'
    BY <2>10 DEF Respond, Return
  <2>11. QED
    BY <1>1, <2>1, <2>2, <2>3, <2>4, <2>5, <2>6, <2>7, <2>8, <2>9, <2>10 DEF HandlerStep
<1>2. CASE Tick
  BY <1>2 DEF Tick, Older
<1>3. CASE Crash
  BY <1>3 DEF Crash
<1>4. CASE UNCHANGED vars
  BY <1>4 DEF vars
<1>5. QED
  BY <1>1, <1>2, <1>3, <1>4 DEF Next

-----------------------------------------------------------------------------
(* The lease and its holder *)

\* LeaseTracksHolder, chat by chat, with what makes it inductive.
Tracked(c) ==
  /\ \A g, h \in Handlers : Holds(g, c) /\ Holds(h, c) => g = h
  /\ \A h \in Handlers : Holds(h, c) => lease[c] = handler[h].age /\ handler[h].age < LeaseTime
  /\ lease[c] # NoLease => \E h \in Handlers : Holds(h, c)

LeaseInv == ClaimersAreYoung /\ \A c \in Chats \ overran : Tracked(c)

\* A claim of a chat in time finds no holder: an entry that is there is its
\* holder's, and its holder is inside the lease.
LEMMA ClaimFindsNobody ==
  ASSUME TypeOK, LeaseInv, NEW h \in Handlers, TryClaim(h),
         ChatOf[handler[h].msg] \notin overran
  PROVE  \A g \in Handlers : ~Holds(g, ChatOf[handler[h].msg])
<1> DEFINE c == ChatOf[handler[h].msg]
<1>1. c \in Chats
  BY ChatAssumption DEF TypeOK
<1>2. Tracked(c)
  BY <1>1 DEF LeaseInv
<1>3. lease[c] = NoLease \/ ~(lease[c] < LeaseTime)
  BY DEF TryClaim, Unexpired
<1>4. ASSUME NEW g \in Handlers, Holds(g, c) PROVE FALSE
  BY <1>2, <1>3, <1>4, LeaseAssumption DEF Tracked, TypeOK, NoLease, Ages
<1>5. QED
  BY <1>4

\* Every action keeps the lease entries and their holders together.
LEMMA LeaseNext == TypeOK /\ LeaseInv /\ [Next]_vars => LeaseInv'
<1> SUFFICES ASSUME TypeOK, LeaseInv, [Next]_vars PROVE LeaseInv'
  OBVIOUS
<1> USE ChatAssumption, LeaseAssumption, IdleTyped
<1>1. ASSUME NEW h \in Handlers, HandlerStep(h) PROVE LeaseInv'
  <2>1. ASSUME NEW m \in Messages, Receive(h, m) PROVE LeaseInv'
    <3>1. ClaimersAreYoung'
      BY <2>1 DEF Receive, LeaseInv, ClaimersAreYoung, TypeOK, At
    <3>2. ASSUME NEW c \in Chats \ overran' PROVE Tracked(c)'
      <4>1. c \in Chats \ overran /\ Tracked(c)
        BY <2>1 DEF Receive, LeaseInv
      <4>2. QED
        BY <2>1, <4>1 DEF Receive, Tracked, Holds, Holding, TypeOK, At, Ages, NoLease
    <3>3. QED
      BY <3>1, <3>2 DEF LeaseInv
  <2>2. CASE Busy(h)
    <3>1. ClaimersAreYoung'
      BY <2>2 DEF Busy, Return, LeaseInv, ClaimersAreYoung, TypeOK, At
    <3>2. ASSUME NEW c \in Chats \ overran' PROVE Tracked(c)'
      <4>1. c \in Chats \ overran /\ Tracked(c)
        BY <2>2 DEF Busy, Return, LeaseInv
      <4>2. QED
        BY <2>2, <4>1 DEF Busy, Return, Tracked, Holds, Holding, TypeOK, At, Ages, NoLease
    <3>3. QED
      BY <3>1, <3>2 DEF LeaseInv
  <2>3. CASE TryClaim(h)
    <3>1. ClaimersAreYoung'
      BY <2>3 DEF TryClaim, GoTo, LeaseInv, ClaimersAreYoung, TypeOK, At
    <3>2. ASSUME NEW c \in Chats \ overran' PROVE Tracked(c)'
      <4>1. c \in Chats \ overran /\ Tracked(c)
        BY <2>3 DEF TryClaim, GoTo, LeaseInv
      <4>2. \A g \in Handlers \ {h} : handler'[g] = handler[g]
        BY <2>3 DEF TryClaim, GoTo, TypeOK
      <4>3. /\ handler'[h].at = "stream"
            /\ handler'[h].msg = handler[h].msg
            /\ handler'[h].age = 0
        BY <2>3 DEF TryClaim, GoTo, TypeOK, LeaseInv, ClaimersAreYoung, At
      <4>4. CASE c = ChatOf[handler[h].msg]
        <5>1. \A g \in Handlers : ~Holds(g, c)
          BY <2>3, <4>1, <4>4, ClaimFindsNobody
        <5>2. \A g \in Handlers : Holds(g, c)' <=> g = h
          BY <4>2, <4>3, <4>4, <5>1 DEF Holds, Holding
        <5>3. lease'[c] = 0
          BY <2>3, <4>1, <4>4 DEF TryClaim, TypeOK
        <5>4. QED
          BY <4>3, <5>2, <5>3 DEF Tracked, NoLease
      <4>5. CASE c # ChatOf[handler[h].msg]
        <5>1. lease'[c] = lease[c]
          BY <2>3, <4>1, <4>5 DEF TryClaim, TypeOK
        <5>2. \A g \in Handlers : /\ Holds(g, c)' <=> Holds(g, c)
                                  /\ Holds(g, c) => handler'[g] = handler[g]
          BY <2>3, <4>2, <4>3, <4>5 DEF Holds, Holding, TryClaim, At
        <5>3. QED
          BY <4>1, <5>1, <5>2 DEF Tracked, NoLease
      <4>6. QED
        BY <4>4, <4>5
    <3>3. QED
      BY <3>1, <3>2 DEF LeaseInv
  <2>4. CASE StreamEnds(h)
    <3>1. ClaimersAreYoung'
      BY <2>4 DEF StreamEnds, GoTo, LeaseInv, ClaimersAreYoung, TypeOK, At
    <3>2. ASSUME NEW c \in Chats \ overran' PROVE Tracked(c)'
      <4>1. c \in Chats \ overran /\ Tracked(c)
        BY <2>4 DEF StreamEnds, GoTo, LeaseInv
      <4>2. QED
        BY <2>4, <4>1 DEF StreamEnds, GoTo, Tracked, Holds, Holding, TypeOK, At, Ages, NoLease
    <3>3. QED
      BY <3>1, <3>2 DEF LeaseInv
  <2>5. CASE TurnFails(h)
    <3>1. ClaimersAreYoung'
      BY <2>5 DEF TurnFails, DropGuard, Return, LeaseInv, ClaimersAreYoung, TypeOK, At
    <3>2. ASSUME NEW c \in Chats \ overran' PROVE Tracked(c)'
      <4>1. c \in Chats \ overran /\ Tracked(c)
        BY <2>5 DEF TurnFails, DropGuard, Return, LeaseInv
      <4>2. QED
        BY <2>5, <4>1 DEF TurnFails, DropGuard, Return, Tracked, Holds, Holding, TypeOK, At, Ages, NoLease
    <3>3. QED
      BY <3>1, <3>2 DEF LeaseInv
  <2>6. CASE TurnSucceeds(h)
    <3>1. ClaimersAreYoung'
      BY <2>6 DEF TurnSucceeds, GoTo, LeaseInv, ClaimersAreYoung, TypeOK, At
    <3>2. ASSUME NEW c \in Chats \ overran' PROVE Tracked(c)'
      <4>1. c \in Chats \ overran /\ Tracked(c)
        BY <2>6 DEF TurnSucceeds, GoTo, LeaseInv
      <4>2. QED
        BY <2>6, <4>1 DEF TurnSucceeds, GoTo, Tracked, Holds, Holding, TypeOK, At, Ages, NoLease
    <3>3. QED
      BY <3>1, <3>2 DEF LeaseInv
  <2>7. CASE RecordDelivery(h)
    <3>1. ClaimersAreYoung'
      BY <2>7 DEF RecordDelivery, GoTo, LeaseInv, ClaimersAreYoung, TypeOK, At
    <3>2. ASSUME NEW c \in Chats \ overran' PROVE Tracked(c)'
      <4>1. c \in Chats \ overran /\ Tracked(c)
        BY <2>7 DEF RecordDelivery, GoTo, LeaseInv
      <4>2. QED
        BY <2>7, <4>1 DEF RecordDelivery, GoTo, Tracked, Holds, Holding, TypeOK, At, Ages, NoLease
    <3>3. QED
      BY <3>1, <3>2 DEF LeaseInv
  <2>8. CASE RecordFails(h)
    <3>1. ClaimersAreYoung'
      BY <2>8 DEF RecordFails, DropGuard, Return, LeaseInv, ClaimersAreYoung, TypeOK, At
    <3>2. ASSUME NEW c \in Chats \ overran' PROVE Tracked(c)'
      <4>1. c \in Chats \ overran /\ Tracked(c)
        BY <2>8 DEF RecordFails, DropGuard, Return, LeaseInv
      <4>2. QED
        BY <2>8, <4>1 DEF RecordFails, DropGuard, Return, Tracked, Holds, Holding, TypeOK, At, Ages, NoLease
    <3>3. QED
      BY <3>1, <3>2 DEF LeaseInv
  <2>9. CASE Release(h)
    <3>1. ClaimersAreYoung'
      BY <2>9 DEF Release, DropGuard, GoTo, LeaseInv, ClaimersAreYoung, TypeOK, At
    <3>2. ASSUME NEW c \in Chats \ overran' PROVE Tracked(c)'
      <4>1. c \in Chats \ overran /\ Tracked(c)
        BY <2>9 DEF Release, DropGuard, GoTo, LeaseInv
      <4>2. QED
        BY <2>9, <4>1 DEF Release, DropGuard, GoTo, Tracked, Holds, Holding, TypeOK, At, Ages, NoLease
    <3>3. QED
      BY <3>1, <3>2 DEF LeaseInv
  <2>10. ASSUME NEW written \in BOOLEAN, Respond(h, written) PROVE LeaseInv'
    <3>1. ClaimersAreYoung'
      BY <2>10 DEF Respond, Return, LeaseInv, ClaimersAreYoung, TypeOK, At
    <3>2. ASSUME NEW c \in Chats \ overran' PROVE Tracked(c)'
      <4>1. c \in Chats \ overran /\ Tracked(c)
        BY <2>10 DEF Respond, Return, LeaseInv
      <4>2. QED
        BY <2>10, <4>1 DEF Respond, Return, Tracked, Holds, Holding, TypeOK, At, Ages, NoLease
    <3>3. QED
      BY <3>1, <3>2 DEF LeaseInv
  <2>11. QED
    BY <1>1, <2>1, <2>2, <2>3, <2>4, <2>5, <2>6, <2>7, <2>8, <2>9, <2>10 DEF HandlerStep
<1>2. CASE Tick
  <2>1. ClaimersAreYoung'
    BY <1>2 DEF Tick, LeaseInv, ClaimersAreYoung, Holding, TypeOK, At
  <2>2. ASSUME NEW c \in Chats \ overran' PROVE Tracked(c)'
    <3>1. c \in Chats \ overran /\ Tracked(c)
      BY <1>2 DEF Tick, LeaseInv
    <3>2. \A h \in Handlers : /\ Holds(h, c)' <=> Holds(h, c)
                              /\ Holds(h, c) => handler'[h].age = Older(handler[h].age)
      BY <1>2 DEF Tick, Holds, Holding, TypeOK
    <3>3. \A h \in Handlers : Holds(h, c) => Older(handler[h].age) # LeaseTime
      BY <1>2 DEF Tick, Holds
    <3>4. lease'[c] = IF lease[c] = NoLease THEN NoLease ELSE Older(lease[c])
      BY <1>2 DEF Tick
    <3>5. \A h \in Handlers : Holds(h, c) =>
             lease'[c] = handler'[h].age /\ handler'[h].age < LeaseTime
      <4> SUFFICES ASSUME NEW h \in Handlers, Holds(h, c)
                   PROVE  lease'[c] = handler'[h].age /\ handler'[h].age < LeaseTime
        OBVIOUS
      <4>1. lease[c] = handler[h].age /\ handler[h].age < LeaseTime /\ handler[h].age \in 0..LeaseTime
        BY <3>1 DEF Tracked, TypeOK, Ages
      <4>2. QED
        BY <4>1, <3>2, <3>3, <3>4 DEF Older, NoLease
    <3>6. QED
      BY <3>1, <3>2, <3>4, <3>5 DEF Tracked, NoLease
  <2>3. QED
    BY <2>1, <2>2 DEF LeaseInv
<1>3. CASE Crash
  BY <1>3 DEF Crash, LeaseInv, ClaimersAreYoung, Tracked, Holds, Holding, At, NoLease
<1>4. CASE UNCHANGED vars
  BY <1>4 DEF vars, LeaseInv, ClaimersAreYoung, Tracked, Holds, At
<1>5. QED
  BY <1>1, <1>2, <1>3, <1>4 DEF Next

-----------------------------------------------------------------------------
(* The ledger and the replies *)

\* Nothing is answered, and nothing about to be answered, that is not recorded:
\* only RecordDelivery leads to an answer.
LEMMA ReplyNext ==
  TypeOK /\ SentIsRecorded /\ RepliesAreRecorded /\ [Next]_vars
    => SentIsRecorded' /\ RepliesAreRecorded'
<1> SUFFICES ASSUME TypeOK, SentIsRecorded, RepliesAreRecorded, [Next]_vars
             PROVE  SentIsRecorded' /\ RepliesAreRecorded'
  OBVIOUS
<1> USE IdleTyped DEF TypeOK, SentIsRecorded, RepliesAreRecorded
<1>1. ASSUME NEW h \in Handlers, HandlerStep(h) PROVE SentIsRecorded' /\ RepliesAreRecorded'
  <2>1. ASSUME NEW m \in Messages, Receive(h, m) PROVE SentIsRecorded' /\ RepliesAreRecorded'
    BY <2>1 DEF Receive
  <2>2. CASE Busy(h)
    BY <2>2 DEF Busy, Return
  <2>3. CASE TryClaim(h)
    BY <2>3 DEF TryClaim, GoTo
  <2>4. CASE StreamEnds(h)
    BY <2>4 DEF StreamEnds, GoTo
  <2>5. CASE TurnFails(h)
    BY <2>5 DEF TurnFails, Return
  <2>6. CASE TurnSucceeds(h)
    BY <2>6 DEF TurnSucceeds, GoTo
  <2>7. CASE RecordDelivery(h)
    BY <2>7 DEF RecordDelivery, GoTo
  <2>8. CASE RecordFails(h)
    BY <2>8 DEF RecordFails, Return
  <2>9. CASE Release(h)
    BY <2>9 DEF Release, GoTo, At
  <2>10. ASSUME NEW written \in BOOLEAN, Respond(h, written)
         PROVE  SentIsRecorded' /\ RepliesAreRecorded'
    BY <2>10 DEF Respond, Return, At
  <2>11. QED
    BY <1>1, <2>1, <2>2, <2>3, <2>4, <2>5, <2>6, <2>7, <2>8, <2>9, <2>10 DEF HandlerStep
<1>2. CASE Tick
  BY <1>2 DEF Tick
<1>3. CASE Crash
  BY <1>3 DEF Crash
<1>4. CASE UNCHANGED vars
  BY <1>4 DEF vars
<1>5. QED
  BY <1>1, <1>2, <1>3, <1>4 DEF Next

\* The ledger only grows, and the dedup check keeps a settled message from
\* entering a handler again.
LEMMA SettledNext ==
  ASSUME TypeOK, [Next]_vars, NEW m \in Messages, Settled(m)
  PROVE  Settled(m)'
<1> USE IdleTyped DEF TypeOK, Settled
<1>1. ASSUME NEW h \in Handlers, HandlerStep(h) PROVE Settled(m)'
  <2>1. ASSUME NEW n \in Messages, Receive(h, n) PROVE Settled(m)'
    BY <2>1 DEF Receive
  <2>2. CASE Busy(h)
    BY <2>2 DEF Busy, Return
  <2>3. CASE TryClaim(h)
    BY <2>3 DEF TryClaim, GoTo, At
  <2>4. CASE StreamEnds(h)
    BY <2>4 DEF StreamEnds, GoTo, At
  <2>5. CASE TurnFails(h)
    BY <2>5 DEF TurnFails, Return
  <2>6. CASE TurnSucceeds(h)
    BY <2>6 DEF TurnSucceeds, GoTo, At
  <2>7. CASE RecordDelivery(h)
    BY <2>7 DEF RecordDelivery, GoTo
  <2>8. CASE RecordFails(h)
    BY <2>8 DEF RecordFails, Return
  <2>9. CASE Release(h)
    BY <2>9 DEF Release, GoTo
  <2>10. ASSUME NEW written \in BOOLEAN, Respond(h, written) PROVE Settled(m)'
    BY <2>10 DEF Respond, Return
  <2>11. QED
    BY <1>1, <2>1, <2>2, <2>3, <2>4, <2>5, <2>6, <2>7, <2>8, <2>9, <2>10 DEF HandlerStep
<1>2. CASE Tick
  BY <1>2 DEF Tick
<1>3. CASE Crash
  BY <1>3 DEF Crash
<1>4. CASE UNCHANGED vars
  BY <1>4 DEF vars
<1>5. QED
  BY <1>1, <1>2, <1>3, <1>4 DEF Next

-----------------------------------------------------------------------------
(* Theorems *)

\* The chat-by-chat form is the invariant's.
LEMMA InvParts ==
  Inv <=> TypeOK /\ LeaseInv /\ SentIsRecorded /\ RepliesAreRecorded
BY DEF Inv, LeaseInv, Tracked, LeaseTracksHolder, HoldersAreInTime

\* The gateway's inductive invariant holds in every reachable state.
THEOREM Invariance == Spec => []Inv
<1>1. Inv /\ [Next]_vars => Inv'
  <2>1. TypeOK /\ [Next]_vars => TypeOK'
    BY TypeNext
  <2>2. Inv' <=> (TypeOK /\ LeaseInv /\ SentIsRecorded /\ RepliesAreRecorded)'
    BY InvParts, PTL
  <2>3. QED
    BY <2>1, <2>2, InvParts, LeaseNext, ReplyNext
<1>2. QED
  BY InvInit, <1>1, PTL DEF Spec

\* Type correctness of the gateway's state.
THEOREM TypeCorrect == Spec => []TypeOK
BY Invariance, PTL DEF Inv

\* While no turn of a chat has outlived its lease, at most one handler runs a
\* turn for it, the lease entry is that handler's, and no path leaks an entry:
\* TurnLease's promise, with the condition it depends on.
THEOREM LeaseIsExclusive == Spec => []LeaseTracksHolder
BY Invariance, PTL DEF Inv

\* A reply is written only after record_delivery.
THEOREM RecordedBeforeSent == Spec => []SentIsRecorded
BY Invariance, PTL DEF Inv

\* A settled message never starts a turn again, crashes and redeliveries
\* included.
THEOREM NoSecondTurn == Spec => SettledForGood
<1>1. Inv /\ [Next]_vars => [\A m \in Messages : Settled(m) => Settled(m)']_vars
  BY SettledNext DEF Inv
<1>2. QED
  BY Invariance, <1>1, PTL DEF Spec, SettledForGood

-----------------------------------------------------------------------------
(* Refinement *)

\* A step of one handler changes what it has accepted and runs, nobody else's.
LEMMA OthersStay ==
  ASSUME TypeOK, NEW h \in Handlers, HandlerStep(h)
  PROVE  /\ Accepted' = [Accepted EXCEPT ![h] = Accepted'[h]]
         /\ Turns' = [Turns EXCEPT ![h] = Turns'[h]]
<1>1. PICK r : handler' = [handler EXCEPT ![h] = r]
  <2>1. ASSUME NEW m \in Messages, Receive(h, m)
        PROVE  \E r : handler' = [handler EXCEPT ![h] = r]
    BY <2>1 DEF Receive
  <2>2. ASSUME NEW stage, GoTo(h, stage)
        PROVE  \E r : handler' = [handler EXCEPT ![h] = r]
    BY <2>2 DEF GoTo
  <2>3. ASSUME Return(h) PROVE \E r : handler' = [handler EXCEPT ![h] = r]
    BY <2>3 DEF Return
  <2>4. QED
    BY <2>1, <2>2, <2>3
       DEF HandlerStep, Busy, TryClaim, StreamEnds, TurnFails, TurnSucceeds,
           RecordDelivery, RecordFails, Release, Respond
<1>2. QED
  BY <1>1 DEF Accepted, Turns, At, TypeOK

\* A handler runs a turn of a chat in the abstract iff it holds the chat's guard.
LEMMA HeldIsHolding ==
  ASSUME NEW c PROVE Delivery!HeldBy(c) = {h \in Handlers : Holds(h, c)}
BY DEF Delivery!HeldBy, Turns, Holds

\* Every step of a handler is a step of TurnDelivery, or none.
LEMMA HandlerRefines ==
  ASSUME Inv, NEW h \in Handlers, HandlerStep(h)
  PROVE  [Delivery!Deliver]_(Delivery!deliveryVars)
<1>1. TypeOK /\ handler[h] \in [at : Stages, msg : Messages, age : Ages]
  BY DEF Inv, TypeOK
<1>2. /\ Accepted' = [Accepted EXCEPT ![h] = Accepted'[h]]
      /\ Turns' = [Turns EXCEPT ![h] = Turns'[h]]
  BY <1>1, OthersStay
<1>3. /\ Accepted'[h] = IF handler'[h].at = "claim" THEN {handler'[h].msg} ELSE {}
      /\ Turns'[h] = IF handler'[h].at \in Holding THEN {handler'[h].msg} ELSE {}
  BY DEF Accepted, Turns, At
<1>4. /\ Accepted[h] = IF handler[h].at = "claim" THEN {handler[h].msg} ELSE {}
      /\ Turns[h] = IF handler[h].at \in Holding THEN {handler[h].msg} ELSE {}
  BY DEF Accepted, Turns, At
<1>5. /\ Accepted'[h] = Accepted[h] => Accepted' = Accepted
      /\ Turns'[h] = Turns[h] => Turns' = Turns
  BY <1>2 DEF Accepted, Turns
<1>6. ASSUME NEW m \in Messages, Receive(h, m) PROVE Delivery!Deliver
  <2>1. handler[h].at = "idle" /\ handler'[h].at = "claim" /\ handler'[h].msg = m
    BY <1>1, <1>6 DEF Receive, At, TypeOK
  <2>2. Accepted'[h] = {m} /\ Accepted[h] = {} /\ Turns'[h] = {} /\ Turns[h] = {}
    BY <1>3, <1>4, <2>1 DEF Holding
  <2>3. Delivery!Accept(h, m)
    BY <1>2, <1>5, <1>6, <2>2 DEF Receive, Delivery!Accept
  <2>4. QED
    BY <2>3 DEF Delivery!Deliver
<1>7. CASE Busy(h)
  <2>1. handler[h].at = "claim" /\ handler'[h].at = "idle"
    BY <1>1, <1>7, IdleTyped DEF Busy, Return, At, TypeOK
  <2>2. Accepted'[h] = {} /\ Turns'[h] = {} /\ Turns[h] = {}
    BY <1>3, <1>4, <2>1 DEF Holding
  <2>3. Delivery!Refuse(h)
    BY <1>2, <1>5, <1>7, <2>2 DEF Busy, Delivery!Refuse
  <2>4. QED
    BY <2>3 DEF Delivery!Deliver
<1>8. CASE TryClaim(h)
  <2> DEFINE m == handler[h].msg
  <2>1. /\ m \in Messages /\ handler[h].at = "claim"
        /\ handler'[h].at = "stream" /\ handler'[h].msg = m
    BY <1>1, <1>8 DEF TryClaim, GoTo, At, TypeOK
  <2>2. Accepted[h] = {m} /\ Accepted'[h] = {} /\ Turns'[h] = {m}
    BY <1>3, <1>4, <2>1 DEF Holding
  <2>3. Delivery!HeldBy(ChatOf[m]) = {} \/ ChatOf[m] \in overran
    BY <1>1, <1>8, InvParts, ClaimFindsNobody, HeldIsHolding
  <2>4. Delivery!Claim(h, m)
    BY <1>2, <1>8, <2>2, <2>3 DEF TryClaim, Delivery!Claim
  <2>5. QED
    BY <2>1, <2>4 DEF Delivery!Deliver
<1>9. ASSUME handler[h].at \in Holding, handler'[h].at \in Holding,
             handler'[h].msg = handler[h].msg
      PROVE  Accepted' = Accepted /\ Turns' = Turns
  BY <1>3, <1>4, <1>5, <1>9 DEF Holding
<1>10. CASE StreamEnds(h)
  <2>1. /\ handler[h].at = "stream" /\ handler'[h].at = "tools"
        /\ handler'[h].msg = handler[h].msg
    BY <1>1, <1>10 DEF StreamEnds, GoTo, At, TypeOK
  <2>2. Accepted' = Accepted /\ Turns' = Turns
    BY <1>9, <2>1 DEF Holding
  <2>3. QED
    BY <1>10, <2>2 DEF StreamEnds, Delivery!deliveryVars
<1>11. CASE TurnSucceeds(h)
  <2>1. /\ handler[h].at = "tools" /\ handler'[h].at = "record"
        /\ handler'[h].msg = handler[h].msg
    BY <1>1, <1>11 DEF TurnSucceeds, GoTo, At, TypeOK
  <2>2. Accepted' = Accepted /\ Turns' = Turns
    BY <1>9, <2>1 DEF Holding
  <2>3. QED
    BY <1>11, <2>2 DEF TurnSucceeds, Delivery!deliveryVars
<1>12. CASE RecordDelivery(h)
  <2>1. /\ handler[h].at = "record" /\ handler'[h].at = "release"
        /\ handler'[h].msg = handler[h].msg
    BY <1>1, <1>12 DEF RecordDelivery, GoTo, At, TypeOK
  <2>2. Accepted' = Accepted /\ Turns' = Turns /\ Turns[h] = {handler[h].msg}
    BY <1>4, <1>9, <2>1 DEF Holding
  <2>3. Delivery!Record(h)
    BY <1>12, <2>2 DEF RecordDelivery, Delivery!Record
  <2>4. QED
    BY <2>3 DEF Delivery!Deliver
<1>13. ASSUME handler[h].at \in Holding, handler'[h].at \in {"idle", "respond"},
              UNCHANGED <<ledger, sent, overran>>
       PROVE  Delivery!Deliver
  <2>1. Accepted[h] = {} /\ Accepted'[h] = {} /\ Turns'[h] = {}
    BY <1>3, <1>4, <1>13 DEF Holding
  <2>2. Delivery!EndTurn(h)
    BY <1>2, <1>5, <1>13, <2>1 DEF Delivery!EndTurn
  <2>3. QED
    BY <2>2 DEF Delivery!Deliver
<1>14. CASE TurnFails(h)
  <2>1. handler[h].at = "stream" /\ handler'[h].at = "idle"
    BY <1>1, <1>14, IdleTyped DEF TurnFails, At, Return, TypeOK
  <2>2. QED
    BY <1>13, <1>14, <2>1 DEF TurnFails, Holding
<1>15. CASE RecordFails(h)
  <2>1. handler[h].at = "record" /\ handler'[h].at = "idle"
    BY <1>1, <1>15, IdleTyped DEF RecordFails, At, Return, TypeOK
  <2>2. QED
    BY <1>13, <1>15, <2>1 DEF RecordFails, Holding
<1>16. CASE Release(h)
  <2>1. handler[h].at = "release" /\ handler'[h].at = "respond"
    BY <1>1, <1>16 DEF Release, GoTo, At, TypeOK
  <2>2. QED
    BY <1>13, <1>16, <2>1 DEF Release, Holding
<1>17. ASSUME NEW written \in BOOLEAN, Respond(h, written)
       PROVE  [Delivery!Deliver]_(Delivery!deliveryVars)
  <2>1. handler[h].at = "respond" /\ handler'[h].at = "idle"
    BY <1>1, <1>17, IdleTyped DEF Respond, Return, At, TypeOK
  <2>2. Accepted' = Accepted /\ Turns' = Turns
    BY <1>3, <1>4, <1>5, <2>1 DEF Holding
  <2>3. CASE written
    <3>1. handler[h].msg \in Messages /\ handler[h].msg \in ledger
      BY <1>1, <2>1 DEF Inv, RepliesAreRecorded
    <3>2. Delivery!Answer(handler[h].msg)
      BY <1>17, <2>2, <2>3, <3>1 DEF Respond, Delivery!Answer
    <3>3. QED
      BY <3>1, <3>2 DEF Delivery!Deliver
  <2>4. CASE ~written
    BY <1>17, <2>2, <2>4 DEF Respond, Delivery!deliveryVars
  <2>5. QED
    BY <2>3, <2>4
<1>18. QED
  BY <1>6, <1>7, <1>8, <1>10, <1>11, <1>12, <1>14, <1>15, <1>16, <1>17 DEF HandlerStep

\* Time makes late only chats that have a turn.
LEMMA TickRefines ==
  ASSUME Inv, Tick PROVE Delivery!Deliver
<1>1. \A h \in Handlers : handler'[h].at = handler[h].at /\ handler'[h].msg = handler[h].msg
  BY DEF Tick, Inv, TypeOK
<1>2. Accepted' = Accepted /\ Turns' = Turns
  BY <1>1 DEF Accepted, Turns, At
<1>3. overran \subseteq overran'
  BY DEF Tick
<1>4. ASSUME NEW c \in overran', c \notin overran
      PROVE  c \in Chats /\ Delivery!HeldBy(c) # {}
  <2>1. PICK h \in Handlers : Holds(h, c)
    BY <1>4 DEF Tick, Holds
  <2>2. c \in Chats
    BY <2>1, ChatAssumption DEF Holds, Inv, TypeOK
  <2>3. QED
    BY <2>1, <2>2, HeldIsHolding
<1>5. Delivery!TakeTooLong
  BY <1>2, <1>3, <1>4 DEF Tick, Delivery!TakeTooLong
<1>6. QED
  BY <1>5 DEF Delivery!Deliver

\* A crash is a restart.
LEMMA CrashRefines ==
  ASSUME Crash PROVE Delivery!Deliver
<1>1. Accepted' = [h \in Handlers |-> {}] /\ Turns' = [h \in Handlers |-> {}]
  BY IdleTyped DEF Crash, Accepted, Turns, At, Holding
<1>2. QED
  BY <1>1 DEF Crash, Delivery!Deliver, Delivery!Restart, Delivery!None

\* The gateway implements TurnDelivery, for any handlers, messages, chats and lease
\* time: the lease excludes other turns of its chat until it is overrun, the ledger
\* keeps recorded messages out, and no reply goes out before its record.
THEOREM Refinement == Spec => DeliveryKept
<1>1. Init => Delivery!Start
  BY IdleTyped DEF Init, Delivery!Start, Delivery!None, Accepted, Turns, At, Holding
<1>2. Inv /\ [Next]_vars => [Delivery!Deliver]_(Delivery!deliveryVars)
  <2>1. ASSUME UNCHANGED vars PROVE UNCHANGED Delivery!deliveryVars
    BY <2>1 DEF vars, Delivery!deliveryVars, Accepted, Turns, At
  <2>2. QED
    BY <2>1, HandlerRefines, TickRefines, CrashRefines DEF Next
<1>3. QED
  BY Invariance, <1>1, <1>2, PTL DEF Spec, DeliveryKept, Delivery!DeliverySpec
=============================================================================
