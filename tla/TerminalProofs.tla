---------------------------- MODULE TerminalProofs ----------------------------
(***************************************************************************)
(* The safety of the ACP terminals for any number of terminals and worker  *)
(* threads, any bound of the map and any size of the buffers.              *)
(***************************************************************************)
EXTENDS Terminal, FiniteSetTheorems, TLAPS

\* A buffer: what it holds is the end of what was appended, within the cap,
\* and all of it until it has overflowed.
BuffersSound ==
  \A t \in Terminals :
    LET b == buf[t] IN
    /\ b.held <= b.total /\ b.held <= MaxHeld
    /\ ~b.truncated => b.held = b.total

\* A running process is somewhere, and a terminal that is not in the map yet is
\* in the hands of a worker.
ProcessesHeld ==
  \A t \in Terminals :
    /\ child[t] = "running" => place[t] \in {"created", "listed", "released"}
    /\ place[t] = "created" => \E w \in Workers : create[w] # NoCreate /\ create[w].term = t

\* The workers that have made room and not inserted yet.
Rooms == {w \in Workers : create[w].at = "room"}

\* The map's bound counts the insertions to come: room that was made is still
\* there, or taken by a worker that made its own.
RoomCounted ==
  Cardinality(Listed) + Cardinality(Rooms) < MaxTerminals + Cardinality(Workers)

\* The inductive invariant: each property with what it rests on.
TerminalInv ==
  /\ TerminalTypeOK
  /\ BuffersSound
  /\ ReadOffsetSound
  /\ ProcessesHeld
  /\ RoomCounted

-----------------------------------------------------------------------------
(* Types *)

\* A worker in the middle of a create has a terminal.
LEMMA CreateHasTerm ==
  ASSUME TerminalTypeOK, NEW w \in Workers, create[w].at \in {"spawned", "room"}
  PROVE  create[w] # NoCreate /\ create[w].term \in Terminals
BY DEF TerminalTypeOK, Creates, NoCreate

\* The reader's extend and drain keep the type of a buffer.
LEMMA ExtendedTyped ==
  ASSUME NEW b \in Buffers, NEW n \in Nat
  PROVE  Extended(b, n) \in Buffers
BY TerminalAssumption DEF Extended, Buffers

\* Every action keeps the types.
LEMMA TerminalTypeNext ==
  TerminalTypeOK /\ [TerminalNext]_terminalVars => TerminalTypeOK'
<1> SUFFICES ASSUME TerminalTypeOK, [TerminalNext]_terminalVars PROVE TerminalTypeOK'
  OBVIOUS
<1>1. ASSUME NEW w \in Workers, CreateStep(w) PROVE TerminalTypeOK'
  <2> USE DEF TerminalTypeOK, Creates, Places, Children
  <2>1. ASSUME NEW t \in Terminals, Spawn(w, t) PROVE TerminalTypeOK'
    BY <2>1 DEF Spawn
  <2>2. ASSUME NEW e \in Terminals, Evict(w, e) PROVE TerminalTypeOK'
    <3>1. create[w].term \in Terminals
      BY <2>2, CreateHasTerm DEF Evict
    <3>2. QED
      BY <2>2, <3>1 DEF Evict, InRoom, Killed
  <2>3. CASE RoomLeft(w)
    <3>1. create[w].term \in Terminals
      BY <2>3, CreateHasTerm DEF RoomLeft
    <3>2. QED
      BY <2>3, <3>1 DEF RoomLeft, InRoom
  <2>4. CASE Insert(w)
    <3>1. create[w].term \in Terminals
      BY <2>4, CreateHasTerm DEF Insert
    <3>2. QED
      BY <2>4, <3>1 DEF Insert
  <2>5. QED
    BY <1>1, <2>1, <2>2, <2>3, <2>4 DEF CreateStep
<1>2. ASSUME NEW t \in Terminals, TerminalStep(t) PROVE TerminalTypeOK'
  <2> USE DEF TerminalTypeOK
  <2>1. ASSUME NEW n \in 1..MaxRead, PipeReader(t, n) PROVE TerminalTypeOK'
    <3>1. n \in Nat
      BY TerminalAssumption
    <3>2. Extended(buf[t], n) \in Buffers
      BY <3>1, ExtendedTyped
    <3>3. QED
      BY <2>1, <3>2 DEF PipeReader
  <2>2. CASE Output(t)
    BY <2>2 DEF Output, Buffers
  <2>3. CASE ChildEnds(t) \/ Kill(t)
    BY <2>3 DEF ChildEnds, Kill, Killed, Children
  <2>4. CASE ReleaseTerminal(t) \/ ReleaseKill(t)
    BY <2>4 DEF ReleaseTerminal, ReleaseKill, Killed, Children, Places
  <2>5. CASE WaitForExit(t) \/ WaitPoll(t) \/ WaitTimesOut(t)
    BY <2>5 DEF WaitForExit, WaitPoll, WaitTimesOut
  <2>6. QED
    BY <1>2, <2>1, <2>2, <2>3, <2>4, <2>5 DEF TerminalStep
<1>3. CASE UNCHANGED terminalVars
  BY <1>3 DEF terminalVars, TerminalTypeOK
<1>4. QED
  BY <1>1, <1>2, <1>3 DEF TerminalNext

-----------------------------------------------------------------------------
(* The buffers *)

Offsets == BuffersSound /\ ReadOffsetSound

\* What Offsets says of one terminal: its buffer and the last byte read of it.
Fits(b, g) ==
  /\ b.held <= b.total /\ b.held <= MaxHeld
  /\ ~b.truncated => b.held = b.total
  /\ b.offset <= b.held
  /\ g <= ReadUpTo(b)
  /\ ~b.truncated => g = ReadUpTo(b)

LEMMA FitsTerminals ==
  ASSUME Offsets PROVE \A t \in Terminals : Fits(buf[t], got[t])
BY DEF Offsets, BuffersSound, ReadOffsetSound, Fits

\* A buffer that overflows loses its beginning: read_offset then stands further
\* on in the output, and never past the end of what is held.
LEMMA ExtendedFits ==
  ASSUME NEW b \in Buffers, NEW n \in Nat, NEW g \in Nat, Fits(b, g)
  PROVE  Fits(Extended(b, n), g)
<1> DEFINE c == Extended(b, n)
<1>1. /\ b.total \in Nat /\ b.held \in Nat /\ b.offset \in Nat
      /\ c.total = b.total + n /\ c.offset = b.offset
  BY DEF Buffers, Extended
<1>2. CASE b.held + n > MaxHeld
  <2>1. c.held = MaxHeld /\ c.truncated
    BY <1>2 DEF Extended
  <2>2. QED
    BY <1>1, <1>2, <2>1, TerminalAssumption DEF Fits, ReadUpTo
<1>3. CASE ~(b.held + n > MaxHeld)
  <2>1. c.held = b.held + n /\ (~c.truncated => ~b.truncated)
    BY <1>3 DEF Extended
  <2> HIDE DEF c
  <2>2. Fits(c, g)
    BY <1>1, <1>3, <2>1, TerminalAssumption DEF Fits, ReadUpTo
  <2>3. QED
    BY <2>2 DEF c
<1>4. QED
  BY <1>2, <1>3

\* The buffers and what has been read of them change only when a reader thread
\* appends and when terminal/output reads; both keep the offsets sound.
LEMMA OffsetsNext ==
  TerminalTypeOK /\ Offsets /\ [TerminalNext]_terminalVars => Offsets'
<1> SUFFICES ASSUME TerminalTypeOK, Offsets, [TerminalNext]_terminalVars PROVE Offsets'
  OBVIOUS
<1>1. ASSUME NEW t \in Terminals, NEW n \in 1..MaxRead, PipeReader(t, n) PROVE Offsets'
  <2>1. n \in Nat /\ buf[t] \in Buffers /\ got[t] \in Nat
    BY TerminalAssumption DEF TerminalTypeOK
  <2>2. /\ buf'[t] = Extended(buf[t], n) /\ got' = got
        /\ \A u \in Terminals \ {t} : buf'[u] = buf[u]
    BY <1>1 DEF PipeReader, TerminalTypeOK
  <2>3. Fits(Extended(buf[t], n), got[t])
    BY <2>1, FitsTerminals, ExtendedFits
  <2>4. \A u \in Terminals : Fits(buf'[u], got'[u])
    BY <2>2, <2>3, FitsTerminals
  <2>5. QED
    BY <2>4 DEF Fits, Offsets, BuffersSound, ReadOffsetSound
<1>2. ASSUME NEW t \in Terminals, Output(t) PROVE Offsets'
  <2> DEFINE b == [total |-> buf[t].total, held |-> buf[t].held, offset |-> buf[t].held,
                   truncated |-> buf[t].truncated]
             g == IF buf[t].offset < buf[t].held THEN buf[t].total ELSE got[t]
  <2>1. buf[t] \in Buffers /\ got[t] \in Nat
    BY DEF TerminalTypeOK
  <2>2. /\ buf'[t] = b /\ got'[t] = g
        /\ \A u \in Terminals \ {t} : buf'[u] = buf[u] /\ got'[u] = got[u]
    BY <1>2 DEF Output, TerminalTypeOK
  <2>3. Fits(b, g)
    <3>1. Fits(buf[t], got[t])
      BY FitsTerminals
    <3>2. QED
      BY <2>1, <3>1 DEF Fits, ReadUpTo, Buffers
  <2>4. \A u \in Terminals : Fits(buf'[u], got'[u])
    BY <2>2, <2>3, FitsTerminals
  <2>5. QED
    BY <2>4 DEF Fits, Offsets, BuffersSound, ReadOffsetSound
<1>3. CASE UNCHANGED <<buf, got>>
  BY <1>3 DEF Offsets, BuffersSound, ReadOffsetSound
<1>4. QED
  BY <1>1, <1>2, <1>3 DEF TerminalNext, CreateStep, TerminalStep, terminalVars, Spawn, Evict,
     RoomLeft, Insert, ChildEnds, Kill, ReleaseTerminal, ReleaseKill, WaitForExit, WaitPoll,
     WaitTimesOut

-----------------------------------------------------------------------------
(* The processes *)

\* Worker w is between the spawn and the insertion of terminal t.
Holds(w, t) == create[w] # NoCreate /\ create[w].term = t

\* A worker that makes room keeps the terminal it holds, and so do the others.
LEMMA RoomKeepsHeld ==
  ASSUME TerminalTypeOK, NEW w \in Workers, create[w].at = "spawned", InRoom(w),
         NEW v \in Workers, NEW t \in Terminals, Holds(v, t)
  PROVE  Holds(v, t)'
BY DEF TerminalTypeOK, InRoom, Holds, NoCreate

\* No step leaves a running process, or a terminal yet to be inserted, behind.
LEMMA HeldNext ==
  TerminalTypeOK /\ ProcessesHeld /\ [TerminalNext]_terminalVars => ProcessesHeld'
<1> SUFFICES ASSUME TerminalTypeOK, ProcessesHeld, [TerminalNext]_terminalVars,
                    NEW t \in Terminals
             PROVE  /\ child'[t] = "running" => place'[t] \in {"created", "listed", "released"}
                    /\ place'[t] = "created" => \E v \in Workers : Holds(v, t)'
  BY DEF ProcessesHeld, Holds
<1>0. /\ child[t] = "running" => place[t] \in {"created", "listed", "released"}
      /\ place[t] = "created" => \E v \in Workers : Holds(v, t)
      /\ place[t] \in Places /\ child[t] \in Children
  BY DEF ProcessesHeld, Holds, TerminalTypeOK
<1>1. ASSUME NEW w \in Workers, NEW u \in Terminals, Spawn(w, u)
      PROVE  /\ child'[t] = "running" => place'[t] \in {"created", "listed", "released"}
             /\ place'[t] = "created" => \E v \in Workers : Holds(v, t)'
  <2>1. CASE t = u
    BY <1>1, <2>1 DEF Spawn, TerminalTypeOK, Holds, NoCreate
  <2>2. CASE t # u
    <3>1. \A v \in Workers : Holds(v, t) => Holds(v, t)'
      BY <1>1 DEF Spawn, TerminalTypeOK, Holds
    <3>2. QED
      BY <1>0, <1>1, <2>2, <3>1 DEF Spawn, TerminalTypeOK
  <2>3. QED
    BY <2>1, <2>2
<1>2. ASSUME NEW w \in Workers, NEW e \in Terminals, Evict(w, e)
      PROVE  /\ child'[t] = "running" => place'[t] \in {"created", "listed", "released"}
             /\ place'[t] = "created" => \E v \in Workers : Holds(v, t)'
  <2>1. \A v \in Workers : Holds(v, t) => Holds(v, t)'
    BY <1>2, RoomKeepsHeld DEF Evict
  <2>2. QED
    BY <1>0, <1>2, <2>1 DEF Evict, TerminalTypeOK, Killed
<1>3. ASSUME NEW w \in Workers, RoomLeft(w)
      PROVE  /\ child'[t] = "running" => place'[t] \in {"created", "listed", "released"}
             /\ place'[t] = "created" => \E v \in Workers : Holds(v, t)'
  <2>1. \A v \in Workers : Holds(v, t) => Holds(v, t)'
    BY <1>3, RoomKeepsHeld DEF RoomLeft
  <2>2. QED
    BY <1>0, <1>3, <2>1 DEF RoomLeft
<1>4. ASSUME NEW w \in Workers, Insert(w)
      PROVE  /\ child'[t] = "running" => place'[t] \in {"created", "listed", "released"}
             /\ place'[t] = "created" => \E v \in Workers : Holds(v, t)'
  <2>1. CASE t = create[w].term
    BY <1>4, <2>1 DEF Insert, TerminalTypeOK
  <2>2. CASE t # create[w].term
    <3>1. \A v \in Workers : Holds(v, t) => Holds(v, t)'
      BY <1>4, <2>2 DEF Insert, TerminalTypeOK, Holds
    <3>2. QED
      BY <1>0, <1>4, <2>2, <3>1 DEF Insert, TerminalTypeOK
  <2>3. QED
    BY <2>1, <2>2
<1>5. ASSUME NEW u \in Terminals, TerminalStep(u) \/ UNCHANGED terminalVars
      PROVE  /\ child'[t] = "running" => place'[t] \in {"created", "listed", "released"}
             /\ place'[t] = "created" => \E v \in Workers : Holds(v, t)'
  <2>1. \A v \in Workers : Holds(v, t) => Holds(v, t)'
    BY <1>5 DEF Holds, TerminalStep, terminalVars, PipeReader, Output, ChildEnds, Kill,
       ReleaseTerminal, ReleaseKill, WaitForExit, WaitPoll, WaitTimesOut
  <2>2. CASE ReleaseTerminal(u)
    BY <1>0, <2>1, <2>2 DEF ReleaseTerminal, Listed, TerminalTypeOK
  <2>3. CASE ReleaseKill(u)
    BY <1>0, <2>1, <2>3 DEF ReleaseKill, Killed, TerminalTypeOK
  <2>4. CASE ChildEnds(u) \/ Kill(u)
    BY <1>0, <2>1, <2>4 DEF ChildEnds, Kill, Killed, TerminalTypeOK
  <2>5. CASE UNCHANGED <<place, child>>
    BY <1>0, <2>1, <2>5
  <2>6. QED
    BY <1>5, <2>2, <2>3, <2>4, <2>5 DEF TerminalStep, terminalVars, PipeReader, Output,
       WaitForExit, WaitPoll, WaitTimesOut
<1>6. QED
  BY <1>1, <1>2, <1>3, <1>4, <1>5 DEF TerminalNext, CreateStep

-----------------------------------------------------------------------------
(* The bound of the map *)

\* The two sets that are counted are finite.
LEMMA CountsTyped ==
  /\ IsFiniteSet(Listed) /\ IsFiniteSet(Rooms) /\ IsFiniteSet(Workers)
  /\ Cardinality(Listed) \in Nat /\ Cardinality(Rooms) \in Nat /\ Cardinality(Workers) \in Nat
  /\ Cardinality(Rooms) <= Cardinality(Workers)
<1>1. Listed \subseteq Terminals /\ Rooms \subseteq Workers
  BY DEF Listed, Rooms
<1>2. QED
  BY <1>1, TerminalAssumption, FS_Subset, FS_CardinalityType

\* A worker that has just made room was not counted before.
LEMMA RoomMade ==
  ASSUME TerminalTypeOK, NEW w \in Workers, create[w].at = "spawned", InRoom(w)
  PROVE  Cardinality(Rooms') = Cardinality(Rooms) + 1
<1>1. Rooms' = Rooms \cup {w} /\ w \notin Rooms
  BY DEF TerminalTypeOK, InRoom, Rooms
<1>2. QED
  BY <1>1, CountsTyped, FS_AddElement

\* Evicting trades a terminal for room, inserting room for a terminal: no step
\* but RoomLeft adds to the sum, and it finds the map below its bound.
LEMMA RoomNext ==
  TerminalTypeOK /\ RoomCounted /\ [TerminalNext]_terminalVars => RoomCounted'
<1> SUFFICES ASSUME TerminalTypeOK, RoomCounted, [TerminalNext]_terminalVars
             PROVE  RoomCounted'
  OBVIOUS
<1> USE CountsTyped, TerminalAssumption
<1>1. ASSUME NEW w \in Workers, NEW u \in Terminals, Spawn(w, u) PROVE RoomCounted'
  <2>1. Listed' = Listed /\ Rooms' = Rooms
    BY <1>1 DEF Spawn, Listed, Rooms, TerminalTypeOK, NoCreate
  <2>2. QED
    BY <2>1 DEF RoomCounted
<1>2. ASSUME NEW w \in Workers, NEW e \in Terminals, Evict(w, e) PROVE RoomCounted'
  <2>1. Listed' = Listed \ {e} /\ e \in Listed
    BY <1>2 DEF Evict, Listed, TerminalTypeOK
  <2>2. Cardinality(Listed') = Cardinality(Listed) - 1
    BY <2>1, FS_RemoveElement
  <2>3. Cardinality(Rooms') = Cardinality(Rooms) + 1
    BY <1>2, RoomMade DEF Evict
  <2>4. QED
    BY <2>2, <2>3 DEF RoomCounted
<1>3. ASSUME NEW w \in Workers, RoomLeft(w) PROVE RoomCounted'
  <2>1. Listed' = Listed /\ Cardinality(Listed) < MaxTerminals
    BY <1>3 DEF RoomLeft, Listed
  <2>2. Rooms' \subseteq Workers
    BY DEF Rooms
  <2>3. Cardinality(Rooms') \in Nat /\ Cardinality(Rooms') <= Cardinality(Workers)
    BY <2>2, FS_Subset, FS_CardinalityType
  <2>4. QED
    BY <2>1, <2>3 DEF RoomCounted
<1>4. ASSUME NEW w \in Workers, Insert(w) PROVE RoomCounted'
  <2>1. create[w].term \in Terminals
    BY <1>4, CreateHasTerm DEF Insert
  <2>2. Listed' = Listed \cup {create[w].term}
    BY <1>4, <2>1 DEF Insert, Listed, TerminalTypeOK
  <2>3. Cardinality(Listed') \in Nat /\ Cardinality(Listed') <= Cardinality(Listed) + 1
    <3>1. CASE create[w].term \in Listed
      <4>1. Listed' = Listed
        BY <2>2, <3>1
      <4>2. QED
        BY <4>1
    <3>2. CASE create[w].term \notin Listed
      <4>1. Cardinality(Listed') = Cardinality(Listed) + 1
        BY <2>2, <3>2, FS_AddElement
      <4>2. QED
        BY <4>1
    <3>3. QED
      BY <3>1, <3>2
  <2>4. Rooms' = Rooms \ {w} /\ w \in Rooms
    BY <1>4 DEF Insert, Rooms, TerminalTypeOK, NoCreate
  <2>5. Cardinality(Rooms') = Cardinality(Rooms) - 1
    BY <2>4, FS_RemoveElement
  <2>6. QED
    BY <2>3, <2>5 DEF RoomCounted
<1>5. ASSUME (\E u \in Terminals : TerminalStep(u)) \/ UNCHANGED terminalVars
      PROVE  RoomCounted'
  <2>1. Rooms' = Rooms
    BY <1>5 DEF Rooms, TerminalStep, terminalVars, PipeReader, Output, ChildEnds, Kill,
       ReleaseTerminal, ReleaseKill, WaitForExit, WaitPoll, WaitTimesOut
  <2>2. Listed' \subseteq Listed
    BY <1>5 DEF Listed, TerminalTypeOK, TerminalStep, terminalVars, PipeReader, Output,
       ChildEnds, Kill, ReleaseTerminal, ReleaseKill, WaitForExit, WaitPoll, WaitTimesOut
  <2>3. Cardinality(Listed') \in Nat /\ Cardinality(Listed') <= Cardinality(Listed)
    BY <2>2, FS_Subset, FS_CardinalityType
  <2>4. QED
    BY <2>1, <2>3 DEF RoomCounted
<1>6. QED
  BY <1>1, <1>2, <1>3, <1>4, <1>5 DEF TerminalNext, CreateStep

-----------------------------------------------------------------------------
(* The theorems *)

\* The invariant holds before the first request.
LEMMA TerminalInitInv == TerminalInit => TerminalInv
<1> SUFFICES ASSUME TerminalInit PROVE TerminalInv
  OBVIOUS
<1> USE TerminalAssumption
<1>1. TerminalTypeOK
  BY DEF TerminalInit, TerminalTypeOK, Creates, Places, Children, Buffers
<1>2. BuffersSound /\ ReadOffsetSound
  BY DEF TerminalInit, BuffersSound, ReadOffsetSound, ReadUpTo
<1>3. ProcessesHeld
  BY DEF TerminalInit, ProcessesHeld
<1>4. RoomCounted
  <2>1. Listed = {} /\ Rooms = {}
    BY DEF TerminalInit, Listed, Rooms, NoCreate
  <2>2. Cardinality(Listed) = 0 /\ Cardinality(Rooms) = 0
    BY <2>1, FS_EmptySet
  <2>3. QED
    BY <2>2, CountsTyped DEF RoomCounted
<1>5. QED
  BY <1>1, <1>2, <1>3, <1>4 DEF TerminalInv

\* The terminals' invariant, in every state that any interleaving of requests,
\* reader threads and ending processes reaches.
THEOREM TerminalInvariance == TerminalSpec => []TerminalInv
<1>1. TerminalInv /\ [TerminalNext]_terminalVars => TerminalInv'
  BY TerminalTypeNext, OffsetsNext, HeldNext, RoomNext DEF TerminalInv, Offsets
<1>2. QED
  BY <1>1, TerminalInitInv, PTL DEF TerminalSpec

\* The types of the terminal map, the processes and the buffers.
THEOREM TerminalTypeCorrect == TerminalSpec => []TerminalTypeOK
<1>1. TerminalInv => TerminalTypeOK
  BY DEF TerminalInv
<1>2. QED
  BY <1>1, TerminalInvariance, PTL

\* terminal/output never slices past the end of the buffer, returns nothing twice,
\* and skips nothing until spawn_pipe_reader has drained an overflowing buffer.
THEOREM OutputSound == TerminalSpec => []ReadOffsetSound
<1>1. TerminalInv => ReadOffsetSound
  BY DEF TerminalInv
<1>2. QED
  BY <1>1, TerminalInvariance, PTL

\* Neither make_room_for_terminal nor terminal/release loses a running process.
THEOREM ProcessesReachable == TerminalSpec => []NoneOrphaned
<1>1. TerminalInv => NoneOrphaned
  BY DEF TerminalInv, ProcessesHeld, NoneOrphaned
<1>2. QED
  BY <1>1, TerminalInvariance, PTL

\* However creates race between make_room_for_terminal and the insertion, the map
\* passes MAX_ACP_TERMINALS by less than the number of worker threads.
THEOREM TerminalMapBounded == TerminalSpec => []TerminalsBounded
<1>1. TerminalInv => TerminalsBounded
  BY CountsTyped, TerminalAssumption DEF TerminalInv, RoomCounted, TerminalsBounded
<1>2. QED
  BY <1>1, TerminalInvariance, PTL
===============================================================================
