------------------------------- MODULE Terminal -------------------------------
(***************************************************************************)
(* ACP terminals (acp/impl/request/protocol_pack/terminal.rs and mod.rs):  *)
(* child processes kept in a bounded map, each with an output buffer that  *)
(* its two reader threads fill and terminal/output drains.                 *)
(*                                                                         *)
(* An action is one critical section of the terminal map or of an output   *)
(* buffer. terminal/create and terminal/release do not await between       *)
(* theirs, so a create in progress occupies a worker thread of the         *)
(* runtime. Bytes are numbered in the order the readers append them: a     *)
(* buffer of length held has the last held of the total bytes appended.    *)
(*                                                                         *)
(* A reader may get its end of file at any time, which only means that     *)
(* nothing more is appended; a grandchild may keep a pipe open and append  *)
(* after the child is gone. A failing spawn, and a request for a terminal  *)
(* that is not in the map, change nothing. TerminalProcess.exited and      *)
(* exit_code are left out: they copy what try_wait returns of a process    *)
(* that has ended, now and ever after.                                     *)
(***************************************************************************)
EXTENDS Integers, FiniteSets

CONSTANTS
  Terminals,     \* terminal ids (generate_terminal_id never repeats one)
  Workers,       \* worker threads of the tokio runtime
  MaxTerminals,  \* MAX_ACP_TERMINALS
  MaxHeld,       \* MAX_TERMINAL_OUTPUT_BYTES
  MaxRead,       \* bytes a reader gets at once, at most
  MaxBytes       \* bound: bytes the process of a terminal writes

ASSUME TerminalAssumption ==
  /\ IsFiniteSet(Terminals)
  /\ IsFiniteSet(Workers) /\ Workers # {}
  /\ MaxTerminals \in Nat \ {0}
  /\ MaxHeld \in Nat \ {0}
  /\ MaxRead \in Nat \ {0}
  /\ MaxBytes \in [Terminals -> Nat]

VARIABLES
  create,  \* the terminal/create each worker is in the middle of
  place,   \* where the TerminalProcess of a terminal is
  child,   \* the process itself
  buf,     \* output_buffer, truncated and read_offset
  got,     \* history: the last byte that terminal/output returned
  waiter   \* the terminal whose exit a terminal/wait_for_exit polls for

terminalVars == <<create, place, child, buf, got, waiter>>

NoWaiter == "None"

NoCreate == [at |-> "idle"]
Creates == {NoCreate} \cup [at : {"spawned", "room"}, term : Terminals]

\* "created": owned by terminal/create, not yet in the map.
Places == {"unborn", "created", "listed", "released", "gone"}

Children == {"none", "running", "ended"}

Buffers == [total : Nat, held : Nat, offset : Nat, truncated : BOOLEAN]

Listed == {t \in Terminals : place[t] = "listed"}

TerminalTypeOK ==
  /\ create \in [Workers -> Creates]
  /\ place \in [Terminals -> Places]
  /\ child \in [Terminals -> Children]
  /\ buf \in [Terminals -> Buffers]
  /\ got \in [Terminals -> Nat]
  /\ waiter \in Terminals \cup {NoWaiter}

TerminalInit ==
  /\ create = [w \in Workers |-> NoCreate]
  /\ place = [t \in Terminals |-> "unborn"]
  /\ child = [t \in Terminals |-> "none"]
  /\ buf = [t \in Terminals |->
              [total |-> 0, held |-> 0, offset |-> 0, truncated |-> FALSE]]
  /\ got = [t \in Terminals |-> 0]
  /\ waiter = NoWaiter

-----------------------------------------------------------------------------
(* The process and its readers *)

\* Child::kill: SIGKILL to a process that has not ended yet.
Killed(state) == IF state = "running" THEN "ended" ELSE state

ChildEnds(t) ==
  /\ child[t] = "running"
  /\ child' = [child EXCEPT ![t] = "ended"]
  /\ UNCHANGED <<create, place, buf, got, waiter>>

\* Mutant: the reader empties a buffer that has overflowed.
ExtendedCleared(b, n) ==
  LET len == b.held + n IN
  [total     |-> b.total + n,
   held      |-> IF len > MaxHeld THEN 0 ELSE len,
   offset    |-> b.offset,
   truncated |-> b.truncated \/ len > MaxHeld]

\* extend_from_slice, then drain of what is over the cap. read_offset stays.
Extended(b, n) ==
  LET len == b.held + n IN
  [total     |-> b.total + n,
   held      |-> IF len > MaxHeld THEN MaxHeld ELSE len,
   offset    |-> b.offset,
   truncated |-> b.truncated \/ len > MaxHeld]

\* spawn_pipe_reader: one round of the loop of either reader thread.
PipeReader(t, n) ==
  /\ place[t] \in {"created", "listed"}
  /\ buf[t].total + n <= MaxBytes[t]
  /\ buf' = [buf EXCEPT ![t] = Extended(buf[t], n)]
  /\ UNCHANGED <<create, place, child, got, waiter>>

-----------------------------------------------------------------------------
(* terminal/create *)

Spawn(w, t) ==
  /\ create[w] = NoCreate
  /\ place[t] = "unborn"
  /\ create' = [create EXCEPT ![w] = [at |-> "spawned", term |-> t]]
  /\ place' = [place EXCEPT ![t] = "created"]
  /\ child' = [child EXCEPT ![t] = "running"]
  /\ UNCHANGED <<buf, got, waiter>>

InRoom(w) ==
  create' = [create EXCEPT ![w] = [at |-> "room", term |-> create[w].term]]

\* Mutant: the evicted process is dropped and not killed.
EvictOnly(w, e) ==
  /\ create[w].at = "spawned"
  /\ Cardinality(Listed) >= MaxTerminals
  /\ e \in Listed
  /\ place' = [place EXCEPT ![e] = "gone"]
  /\ InRoom(w)
  /\ UNCHANGED <<child, buf, got, waiter>>

\* make_room_for_terminal, map full: an arbitrary terminal is removed and killed.
Evict(w, e) ==
  /\ create[w].at = "spawned"
  /\ Cardinality(Listed) >= MaxTerminals
  /\ e \in Listed
  /\ place' = [place EXCEPT ![e] = "gone"]
  /\ child' = [child EXCEPT ![e] = Killed(child[e])]
  /\ InRoom(w)
  /\ UNCHANGED <<buf, got, waiter>>

\* Mutant: room is made only for more than MaxTerminals terminals.
RoomLeftLate(w) ==
  /\ create[w].at = "spawned"
  /\ Cardinality(Listed) <= MaxTerminals
  /\ InRoom(w)
  /\ UNCHANGED <<place, child, buf, got, waiter>>

\* make_room_for_terminal, map not full.
RoomLeft(w) ==
  /\ create[w].at = "spawned"
  /\ Cardinality(Listed) < MaxTerminals
  /\ InRoom(w)
  /\ UNCHANGED <<place, child, buf, got, waiter>>

\* The map is locked again for the insertion.
Insert(w) ==
  /\ create[w].at = "room"
  /\ place' = [place EXCEPT ![create[w].term] = "listed"]
  /\ create' = [create EXCEPT ![w] = NoCreate]
  /\ UNCHANGED <<child, buf, got, waiter>>

-----------------------------------------------------------------------------
(* terminal/output, release, kill and wait_for_exit *)

\* The position in the whole output up to which it has been returned or dropped.
ReadUpTo(b) == b.total - b.held + b.offset

\* Returns guard[read_offset..].
Output(t) ==
  LET b == buf[t] IN
  /\ t \in Listed
  /\ buf' = [buf EXCEPT ![t] =
               [total |-> b.total, held |-> b.held, offset |-> b.held,
                truncated |-> b.truncated]]
  /\ got' = [got EXCEPT ![t] = IF b.offset < b.held THEN b.total ELSE got[t]]
  /\ UNCHANGED <<create, place, child, waiter>>

Kill(t) ==
  /\ t \in Listed
  /\ child' = [child EXCEPT ![t] = Killed(child[t])]
  /\ UNCHANGED <<create, place, buf, got, waiter>>

\* The terminal leaves the map,
ReleaseTerminal(t) ==
  /\ t \in Listed
  /\ place' = [place EXCEPT ![t] = "released"]
  /\ UNCHANGED <<create, child, buf, got, waiter>>

\* and then its process is killed and waited for, without the lock.
ReleaseKill(t) ==
  /\ place[t] = "released"
  /\ place' = [place EXCEPT ![t] = "gone"]
  /\ child' = [child EXCEPT ![t] = Killed(child[t])]
  /\ UNCHANGED <<create, buf, got, waiter>>

\* One wait at a time: waits do not touch anything.
WaitForExit(t) ==
  /\ place[t] # "unborn"
  /\ waiter = NoWaiter
  /\ waiter' = t
  /\ UNCHANGED <<create, place, child, buf, got>>

\* Mutant: a terminal that is not in the map is polled again.
WaitPollListed(t) ==
  /\ waiter = t
  /\ t \in Listed
  /\ child[t] # "running"
  /\ waiter' = NoWaiter
  /\ UNCHANGED <<create, place, child, buf, got>>

\* A poll that ends the wait: the process has ended, or its terminal is not in
\* the map (any more). Otherwise it sleeps and polls again.
WaitPoll(t) ==
  /\ waiter = t
  /\ t \in Listed => child[t] # "running"
  /\ waiter' = NoWaiter
  /\ UNCHANGED <<create, place, child, buf, got>>

\* MAX_TIMEOUT_SECS have passed.
WaitTimesOut(t) ==
  /\ waiter = t
  /\ t \in Listed
  /\ child[t] = "running"
  /\ waiter' = NoWaiter
  /\ UNCHANGED <<create, place, child, buf, got>>

-----------------------------------------------------------------------------
CreateStep(w) ==
  \/ \E t \in Terminals : Spawn(w, t)
  \/ \E e \in Terminals : Evict(w, e)
  \/ RoomLeft(w)
  \/ Insert(w)

TerminalStep(t) ==
  \/ ChildEnds(t)
  \/ \E n \in 1..MaxRead : PipeReader(t, n)
  \/ Output(t)
  \/ Kill(t)
  \/ ReleaseTerminal(t)
  \/ ReleaseKill(t)
  \/ WaitForExit(t)
  \/ WaitPoll(t)
  \/ WaitTimesOut(t)

TerminalNext ==
  (\E w \in Workers : CreateStep(w)) \/ (\E t \in Terminals : TerminalStep(t))

TerminalSpec == TerminalInit /\ [][TerminalNext]_terminalVars

-----------------------------------------------------------------------------
(* Safety *)

\* However reads, overflowing buffers and requests interleave, read_offset stays
\* inside the buffer (slicing at it never panics), nothing is returned twice or
\* out of order, and until the buffer has overflowed nothing is skipped.
ReadOffsetSound ==
  \A t \in Terminals :
    LET b == buf[t] IN
    /\ b.offset <= b.held
    /\ got[t] <= ReadUpTo(b)
    /\ ~b.truncated => got[t] = ReadUpTo(b)

\* A process that runs is in the map, or a request that holds it is about to put
\* it there or to kill it: neither eviction nor release leaves one behind that
\* nobody can reach.
NoneOrphaned ==
  \A t \in Terminals :
    child[t] = "running" =>
      \/ place[t] \in {"listed", "released"}
      \/ \E w \in Workers : create[w] # NoCreate /\ create[w].term = t

\* make_room and insert are two critical sections, so the map can pass its
\* bound; but only by the creates the other workers can be in at once, however
\* often creates race.
TerminalsBounded ==
  Cardinality(Listed) < MaxTerminals + Cardinality(Workers)

(* Liveness *)

\* A wait_for_exit on a process that has ended, or whose terminal is released or
\* evicted by another request, is answered before its time is up.
WaitsEnd ==
  (waiter # NoWaiter /\ child[waiter] # "running") ~> waiter = NoWaiter

-----------------------------------------------------------------------------
(* What the code's documentation claims *)

\* "Returns only the output accumulated since the previous terminal/output call
\* (incremental semantics)": what is still in the buffer and has not been
\* returned will be.
NewOutputReturned ==
  \A t \in Terminals :
    LET b == buf[t] IN got[t] < b.total => ReadUpTo(b) < b.total
=============================================================================
