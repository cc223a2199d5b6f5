------------------------------ MODULE FileTools ------------------------------
(***************************************************************************)
(* Concurrent tool calls on one file, and the lock manager between them    *)
(* (orchestration/tool/lock.rs): read_file and write_file                  *)
(* (orchestration/tool/builtin_tools.rs), edit_file                        *)
(* (extended/filesystem.rs), and the tools that read and rewrite a file    *)
(* without a lock: apply_code_action (extended/lsp.rs) and apply_patch,    *)
(* where git does it. Paths are canonical, and other paths do not meet.    *)
(*                                                                         *)
(* The content of the file is the set of calls whose text is in it; it is  *)
(* torn between the truncation and the write of a std::fs::write. A call   *)
(* that finds the lock taken fails at once; the executor's retry is a      *)
(* later call. write_file is a future, and its writes are tasks of the     *)
(* blocking pool, which go on when the future is dropped (by the           *)
(* executor's timeout, or with its batch); the other writers are blocking  *)
(* tasks as a whole. Hashes and change events follow and are not modelled. *)
(***************************************************************************)
EXTENDS Integers, FiniteSets

CONSTANTS
  FileCalls,  \* tool calls on the file
  ToolOf      \* the tool of a call: for write_file its mode, for the tools
              \* that take no lock "rewrite"

Tools == {"read_file", "overwrite", "append", "edit_file", "rewrite"}

ASSUME FileAssumption ==
  /\ IsFiniteSet(FileCalls)
  /\ ToolOf \in [FileCalls -> Tools]

VARIABLES
  lockEntry,  \* the LockEntry of the path; one without holders is none
  op,         \* each call: its stage, the handle it holds, the text it read
  disk,       \* the file
  raced,      \* history: edits that an unlocked write hit after their read
  spoilt      \* history: a torn file that no lock protects

fileVars == <<lockEntry, op, disk, raced, spoilt>>

NoLock == [readers |-> 0, writer |-> FALSE]

OpStages == {"new", "read", "prepare", "load", "truncate", "fill", "append",
             "written", "done"}

FileTypeOK ==
  /\ lockEntry \in [readers : Nat, writer : BOOLEAN]
  /\ op \in [FileCalls -> [at : OpStages, holds : {"None", "Read", "Write"},
                           seen : SUBSET FileCalls]]
  /\ disk \in [text : SUBSET FileCalls, torn : BOOLEAN]
  /\ raced \subseteq FileCalls
  /\ spoilt \in BOOLEAN

FileInit ==
  /\ lockEntry = NoLock
  /\ op = [c \in FileCalls |-> [at |-> "new", holds |-> "None", seen |-> {}]]
  /\ disk = [text |-> {}, torn |-> FALSE]
  /\ raced = {}
  /\ spoilt = FALSE

OpAt(c, stage) == op[c].at = stage

\* Call c goes on to stage, with the handle and the text given.
Become(c, stage, holds, seen) ==
  op' = [op EXCEPT ![c] = [at |-> stage, holds |-> holds, seen |-> seen]]

Stage(c, stage) == Become(c, stage, op[c].holds, op[c].seen)

-----------------------------------------------------------------------------
(* ToolLockManager *)

LockMode(c) == IF ToolOf[c] = "read_file" THEN "Read" ELSE "Write"

\* Mutant: a reader does not look for a writer.
AvailableToReaders(mode) ==
  mode = "Write" => lockEntry.readers = 0 /\ ~lockEntry.writer

\* try_acquire_inner
Available(mode) ==
  /\ ~lockEntry.writer
  /\ mode = "Write" => lockEntry.readers = 0

Locked(mode) ==
  IF mode = "Read"
  THEN [readers |-> lockEntry.readers + 1, writer |-> lockEntry.writer]
  ELSE [readers |-> lockEntry.readers, writer |-> TRUE]

\* release
Released(mode) ==
  IF mode = "Read"
  THEN [readers |-> IF lockEntry.readers = 0 THEN 0 ELSE lockEntry.readers - 1,
        writer |-> lockEntry.writer]
  ELSE [readers |-> lockEntry.readers, writer |-> FALSE]

\* The handle of c, if any, is dropped and c goes on to stage.
DropHandle(c, stage) ==
  /\ lockEntry' = IF op[c].holds = "None" THEN lockEntry ELSE Released(op[c].holds)
  /\ Become(c, stage, "None", IF stage = "done" THEN {} ELSE op[c].seen)

-----------------------------------------------------------------------------
(* The tools: taking the lock *)

FirstStage(c) ==
  CASE ToolOf[c] = "read_file" -> "read"
    [] ToolOf[c] \in {"overwrite", "append"} -> "prepare"
    [] OTHER -> "load"

TakeLock(c) ==
  /\ OpAt(c, "new")
  /\ ToolOf[c] # "rewrite"
  /\ Available(LockMode(c))
  /\ lockEntry' = Locked(LockMode(c))
  /\ Become(c, FirstStage(c), LockMode(c), op[c].seen)
  /\ UNCHANGED <<disk, raced, spoilt>>

\* apply_code_action and apply_patch; and a read_file that cannot have its lock
\* reads without.
GoUnlocked(c) ==
  /\ OpAt(c, "new")
  /\ \/ ToolOf[c] = "rewrite"
     \/ ToolOf[c] = "read_file" /\ ~Available("Read")
  /\ Stage(c, FirstStage(c))
  /\ UNCHANGED <<lockEntry, disk, raced, spoilt>>

\* "write lock contended"
Contended(c) ==
  /\ OpAt(c, "new")
  /\ ToolOf[c] \in {"overwrite", "append", "edit_file"}
  /\ ~Available("Write")
  /\ Stage(c, "done")
  /\ UNCHANGED <<lockEntry, disk, raced, spoilt>>

-----------------------------------------------------------------------------
(* The tools: their work *)

ReadContent(c) ==
  /\ OpAt(c, "read")
  /\ DropHandle(c, "done")
  /\ UNCHANGED <<disk, raced, spoilt>>

\* write_file: the directory is there, the write goes to the blocking pool.
Prepare(c) ==
  /\ OpAt(c, "prepare")
  /\ Stage(c, IF ToolOf[c] = "append" THEN "append" ELSE "truncate")
  /\ UNCHANGED <<lockEntry, disk, raced, spoilt>>

\* Mutant: edit_file drops its handle once it has read.
LoadReleasing(c) ==
  /\ OpAt(c, "load")
  /\ lockEntry' = IF op[c].holds = "None" THEN lockEntry ELSE Released("Write")
  /\ Become(c, "truncate", "None", disk.text)
  /\ UNCHANGED <<disk, raced, spoilt>>

\* edit_file and the rewriting tools read the file and make the new text.
Load(c) ==
  /\ OpAt(c, "load")
  /\ Become(c, "truncate", op[c].holds, disk.text)
  /\ UNCHANGED <<lockEntry, disk, raced, spoilt>>

\* No directory; no file, no single match, a text too long; or write_file's
\* future is dropped before its write has begun.
GiveUp(c) ==
  /\ op[c].at \in {"prepare", "load"}
  /\ DropHandle(c, "done")
  /\ UNCHANGED <<disk, raced, spoilt>>

\* The file changes under edits that have read it, if c holds no lock.
Races(c) ==
  IF op[c].holds = "Write" THEN raced
  ELSE raced \cup {e \in FileCalls \ {c} : ToolOf[e] = "edit_file" /\ OpAt(e, "truncate")}

\* std::fs::write opens the file with O_TRUNC,
Truncate(c) ==
  /\ OpAt(c, "truncate")
  /\ disk' = [text |-> {}, torn |-> TRUE]
  /\ Stage(c, "fill")
  /\ raced' = Races(c)
  /\ spoilt' = (op[c].holds = "None")
  /\ UNCHANGED lockEntry

\* and then writes.
Fill(c) ==
  /\ OpAt(c, "fill")
  /\ disk' = [text |-> op[c].seen \cup {c}, torn |-> FALSE]
  /\ Stage(c, "written")
  /\ raced' = Races(c)
  /\ spoilt' = FALSE
  /\ UNCHANGED lockEntry

AppendText(c) ==
  /\ OpAt(c, "append")
  /\ disk' = [text |-> disk.text \cup {c}, torn |-> disk.torn]
  /\ Stage(c, "written")
  /\ raced' = Races(c)
  /\ UNCHANGED <<lockEntry, spoilt>>

\* The file cannot be opened, or the disk is full.
DiskFails(c) ==
  /\ op[c].at \in {"truncate", "fill", "append"}
  /\ Stage(c, "written")
  /\ spoilt' = (spoilt \/ OpAt(c, "fill"))
  /\ UNCHANGED <<lockEntry, disk, raced>>

\* The handle of write_file goes before its write is over: the future is
\* dropped, or, in mode append, returns as soon as the text is in the buffer of
\* the tokio File.
ReleaseEarly(c) ==
  /\ ToolOf[c] \in {"overwrite", "append"}
  /\ op[c].at \in {"truncate", "fill", "append"}
  /\ op[c].holds = "Write"
  /\ DropHandle(c, op[c].at)
  /\ spoilt' = (spoilt \/ OpAt(c, "fill"))
  /\ UNCHANGED <<disk, raced>>

EndWrite(c) ==
  /\ OpAt(c, "written")
  /\ DropHandle(c, "done")
  /\ raced' = raced \ {c}
  /\ UNCHANGED <<disk, spoilt>>

FileStep(c) ==
  \/ TakeLock(c)
  \/ GoUnlocked(c)
  \/ Contended(c)
  \/ ReadContent(c)
  \/ Prepare(c)
  \/ Load(c)
  \/ GiveUp(c)
  \/ Truncate(c)
  \/ Fill(c)
  \/ AppendText(c)
  \/ DiskFails(c)
  \/ ReleaseEarly(c)
  \/ EndWrite(c)

FileNext == \E c \in FileCalls : FileStep(c)

FileSpec == FileInit /\ [][FileNext]_fileVars

-----------------------------------------------------------------------------
(* Safety *)

\* edit_file loses no update: when it writes, the file is as it has read it, in
\* every interleaving with reads, writes and edits that hold their lock. Only a
\* write that no lock covers can come in between.
EditsKeepUpdates ==
  \A c \in FileCalls :
    ToolOf[c] = "edit_file" /\ OpAt(c, "truncate") => op[c].seen = disk.text \/ c \in raced

\* A read_file that has its lock does not see a file that is being written; only
\* what a failed or an unlocked write has left can be torn.
LockedReadsWhole ==
  \A c \in FileCalls : OpAt(c, "read") /\ op[c].holds = "Read" => ~disk.torn \/ spoilt
=============================================================================
