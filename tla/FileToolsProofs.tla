--------------------------- MODULE FileToolsProofs ---------------------------
(***************************************************************************)
(* The tool locks and what they protect, for any number of concurrent tool *)
(* calls on a file.                                                        *)
(***************************************************************************)
EXTENDS FileTools, FiniteSetTheorems, TLAPS

\* What is known of a call.
OpRecords ==
  [at : OpStages, holds : {"None", "Read", "Write"}, seen : SUBSET FileCalls]

Holders(mode) == {c \in FileCalls : op[c].holds = mode}

\* The LockEntry and the handles agree: one handle for a writer, readers counted,
\* never both.
LockExact ==
  /\ \A c \in Holders("Write") : lockEntry.writer
  /\ \A c, d \in Holders("Write") : c = d
  /\ lockEntry.readers = Cardinality(Holders("Read"))
  /\ lockEntry.writer => lockEntry.readers = 0

\* Which handle a call holds, by its tool and its stage.
HandlesFit ==
  \A c \in FileCalls :
    /\ op[c].at \in {"new", "done"} => op[c].holds = "None"
    /\ op[c].at = "read" <=> ToolOf[c] = "read_file" /\ op[c].at \notin {"new", "done"}
    /\ op[c].at \in {"prepare", "append"} => ToolOf[c] \in {"overwrite", "append"}
    /\ op[c].holds = "Read" => ToolOf[c] = "read_file"
    /\ op[c].holds = "Write" => ToolOf[c] # "read_file"
    /\ ToolOf[c] = "edit_file" /\ op[c].at \notin {"new", "done"} => op[c].holds = "Write"

\* A torn file is being written under the lock, unless nothing protects it.
TornIsLocked ==
  disk.torn /\ ~spoilt => \E c \in Holders("Write") : OpAt(c, "fill")

\* The inductive invariant: what the properties say of the file rests on who
\* holds the lock.
FileInv == FileTypeOK /\ LockExact /\ HandlesFit /\ EditsKeepUpdates /\ TornIsLocked

-----------------------------------------------------------------------------
(* The lock *)

\* A reader and a writer do not hold the lock together.
LEMMA NoReadersBesideWriter ==
  ASSUME FileTypeOK, LockExact, NEW c \in Holders("Write")
  PROVE  Holders("Read") = {}
<1>1. IsFiniteSet(Holders("Read"))
  BY FileAssumption, FS_Subset DEF Holders
<1>2. Cardinality(Holders("Read")) = 0
  BY DEF LockExact
<1>3. QED
  BY <1>1, <1>2, FS_EmptySet

\* A step that touches neither handles nor entry keeps them exact.
LEMMA SameHandles ==
  ASSUME LockExact, lockEntry' = lockEntry,
         \A c \in FileCalls : op'[c].holds = op[c].holds
  PROVE  LockExact'
<1>1. Holders("Write")' = Holders("Write") /\ Holders("Read")' = Holders("Read")
  BY DEF Holders
<1>2. QED
  BY <1>1 DEF LockExact

\* try_acquire keeps them exact: it looks at the entry and changes it under the
\* manager's mutex.
LEMMA LockTaken ==
  ASSUME FileTypeOK, LockExact, HandlesFit, NEW c \in FileCalls, TakeLock(c)
  PROVE  FileTypeOK' /\ LockExact'
<1> DEFINE mode == LockMode(c)
<1>1. /\ op[c].holds = "None"
      /\ op'[c].holds = mode
      /\ \A d \in FileCalls \ {c} : op'[d] = op[d]
  BY DEF TakeLock, Become, OpAt, HandlesFit, FileTypeOK
<1>2. FileTypeOK'
  <2>1. mode \in {"Read", "Write"} /\ FirstStage(c) \in OpStages
    BY DEF LockMode, FirstStage, OpStages
  <2>2. lockEntry' \in [readers : Nat, writer : BOOLEAN]
    BY DEF TakeLock, Locked, FileTypeOK
  <2>3. op' \in [FileCalls -> OpRecords]
    BY <2>1 DEF TakeLock, Become, FileTypeOK, OpRecords
  <2>4. QED
    BY <2>2, <2>3 DEF TakeLock, FileTypeOK, OpRecords
<1>3. CASE ToolOf[c] = "read_file"
  <2>1. mode = "Read" /\ ~lockEntry.writer
    BY <1>3 DEF LockMode, TakeLock, Available
  <2>2. lockEntry'.readers = lockEntry.readers + 1 /\ lockEntry'.writer = lockEntry.writer
    BY <2>1 DEF TakeLock, Locked, FileTypeOK
  <2>3. Holders("Write")' = Holders("Write")
    BY <1>1, <2>1 DEF Holders
  <2>4. Holders("Read")' = Holders("Read") \cup {c} /\ c \notin Holders("Read")
    BY <1>1, <2>1 DEF Holders
  <2>5. IsFiniteSet(Holders("Read"))
    BY FileAssumption, FS_Subset DEF Holders
  <2>6. Cardinality(Holders("Read"))' = Cardinality(Holders("Read")) + 1
    BY <2>4, <2>5, FS_AddElement
  <2>7. QED
    BY <1>2, <2>1, <2>2, <2>3, <2>6 DEF LockExact
<1>4. CASE ToolOf[c] # "read_file"
  <2>1. mode = "Write" /\ ~lockEntry.writer /\ lockEntry.readers = 0
    BY <1>4 DEF LockMode, TakeLock, Available
  <2>2. lockEntry'.readers = 0 /\ lockEntry'.writer
    BY <2>1 DEF TakeLock, Locked, FileTypeOK
  <2>3. Holders("Write")' = {c}
    BY <1>1, <2>1 DEF Holders, LockExact
  <2>4. Holders("Read")' = Holders("Read")
    BY <1>1, <2>1 DEF Holders
  <2>5. QED
    BY <1>2, <2>1, <2>2, <2>3, <2>4 DEF LockExact
<1>5. QED
  BY <1>3, <1>4

\* So does release: a handle is dropped once, by the call that has it.
LEMMA HandleDropped ==
  ASSUME FileTypeOK, LockExact, NEW c \in FileCalls, NEW stage \in OpStages,
         DropHandle(c, stage)
  PROVE  /\ LockExact'
         /\ lockEntry' \in [readers : Nat, writer : BOOLEAN]
         /\ op' \in [FileCalls -> OpRecords]
         /\ op'[c].at = stage /\ op'[c].holds = "None"
         /\ \A d \in FileCalls \ {c} : op'[d] = op[d]
<1> DEFINE kept == IF stage = "done" THEN {} ELSE op[c].seen
<1>0. op \in [FileCalls -> OpRecords] /\ kept \in SUBSET FileCalls
  BY DEF FileTypeOK, OpRecords
<1>1. /\ op' \in [FileCalls -> OpRecords]
      /\ op'[c].at = stage /\ op'[c].holds = "None"
      /\ \A d \in FileCalls \ {c} : op'[d] = op[d]
  BY <1>0 DEF DropHandle, Become, OpRecords, kept
<1>2. lockEntry' \in [readers : Nat, writer : BOOLEAN]
  BY DEF DropHandle, Released, FileTypeOK
<1>3. CASE op[c].holds = "None"
  <2>1. lockEntry' = lockEntry
    BY <1>3 DEF DropHandle
  <2>2. LockExact'
    BY <1>1, <1>3, <2>1, SameHandles
  <2>3. QED
    BY <1>1, <1>2, <2>2
<1>4. CASE op[c].holds = "Read"
  <2>1. Holders("Write")' = Holders("Write")
    BY <1>1, <1>4 DEF Holders
  <2>2. Holders("Read")' = Holders("Read") \ {c} /\ c \in Holders("Read")
    BY <1>1, <1>4 DEF Holders
  <2>3. IsFiniteSet(Holders("Read"))
    BY FileAssumption, FS_Subset DEF Holders
  <2>4. Cardinality(Holders("Read")') = Cardinality(Holders("Read")) - 1
    BY <2>2, <2>3, FS_RemoveElement
  <2>5. lockEntry.readers # 0
    BY <2>2, <2>3, FS_EmptySet DEF LockExact
  <2>6. lockEntry'.readers = lockEntry.readers - 1 /\ lockEntry'.writer = lockEntry.writer
    BY <1>4, <2>5 DEF DropHandle, Released, FileTypeOK
  <2>7. QED
    BY <1>1, <1>2, <2>1, <2>4, <2>5, <2>6 DEF LockExact, FileTypeOK
<1>5. CASE op[c].holds = "Write"
  <2>1. Holders("Write")' = {}
    BY <1>1, <1>5 DEF Holders, LockExact
  <2>2. Holders("Read")' = Holders("Read")
    BY <1>1, <1>5 DEF Holders
  <2>3. lockEntry'.readers = lockEntry.readers /\ ~lockEntry'.writer
    BY <1>5 DEF DropHandle, Released, FileTypeOK
  <2>4. QED
    BY <1>1, <1>2, <2>1, <2>2, <2>3 DEF LockExact
<1>6. QED
  BY <1>3, <1>4, <1>5 DEF FileTypeOK

\* A call that goes on with the handle it has.
LEMMA HandleKept ==
  ASSUME FileTypeOK, LockExact, NEW c \in FileCalls, NEW stage \in OpStages,
         NEW seen \in SUBSET FileCalls, Become(c, stage, op[c].holds, seen),
         lockEntry' = lockEntry
  PROVE  /\ LockExact'
         /\ op' \in [FileCalls -> OpRecords]
         /\ op'[c].at = stage /\ op'[c].holds = op[c].holds /\ op'[c].seen = seen
         /\ \A d \in FileCalls \ {c} : op'[d] = op[d]
<1>1. /\ op' \in [FileCalls -> OpRecords]
      /\ op'[c].at = stage /\ op'[c].holds = op[c].holds /\ op'[c].seen = seen
      /\ \A d \in FileCalls \ {c} : op'[d] = op[d]
  BY DEF Become, FileTypeOK, OpRecords
<1>2. \A d \in FileCalls : op'[d].holds = op[d].holds
  BY <1>1
<1>3. QED
  BY <1>1, <1>2, SameHandles

LEMMA StageKept ==
  ASSUME FileTypeOK, LockExact, NEW c \in FileCalls, NEW stage \in OpStages,
         Stage(c, stage), lockEntry' = lockEntry
  PROVE  /\ LockExact'
         /\ op' \in [FileCalls -> OpRecords]
         /\ op'[c].at = stage /\ op'[c].holds = op[c].holds /\ op'[c].seen = op[c].seen
         /\ \A d \in FileCalls \ {c} : op'[d] = op[d]
<1>1. op[c].seen \in SUBSET FileCalls
  BY DEF FileTypeOK
<1>2. Become(c, stage, op[c].holds, op[c].seen)
  BY DEF Stage
<1>3. QED
  BY <1>1, <1>2, HandleKept

-----------------------------------------------------------------------------
(* The file *)

\* A call that writes the file keeps the updates of the edits in progress: with
\* the lock it is the only one, without it raced has the others.
LEMMA EditsAfterWrite ==
  ASSUME FileTypeOK, LockExact, HandlesFit, EditsKeepUpdates, NEW c \in FileCalls,
         op[c].at \in {"truncate", "fill", "append"},
         op'[c].at # "truncate", raced' = Races(c),
         \A d \in FileCalls \ {c} : op'[d] = op[d]
  PROVE  EditsKeepUpdates'
<1> SUFFICES ASSUME NEW e \in FileCalls, ToolOf[e] = "edit_file", op'[e].at = "truncate"
             PROVE  e \in raced'
  BY DEF EditsKeepUpdates, OpAt
<1>1. e # c /\ op[e].at = "truncate"
  OBVIOUS
<1>2. op[e].holds = "Write" /\ e \in Holders("Write")
  BY <1>1 DEF HandlesFit, Holders
<1>3. op[c].holds # "Write"
  BY <1>1, <1>2 DEF Holders, LockExact
<1>4. QED
  BY <1>1, <1>3 DEF Races, OpAt

\* A call that does not write leaves an edit's view of the file as it is.
LEMMA EditsUndisturbed ==
  ASSUME FileTypeOK, EditsKeepUpdates, NEW c \in FileCalls,
         ToolOf[c] # "edit_file" \/ op'[c].at # "truncate",
         disk' = disk, raced \ {c} \subseteq raced',
         \A d \in FileCalls \ {c} : op'[d] = op[d]
  PROVE  EditsKeepUpdates'
BY DEF EditsKeepUpdates, OpAt

\* A call that is not at its write has no part in the tearing of the file.
LEMMA TearsUndisturbed ==
  ASSUME FileTypeOK, TornIsLocked, NEW c \in FileCalls, op[c].at # "fill",
         disk' = disk, spoilt' = spoilt,
         \A d \in FileCalls \ {c} : op'[d] = op[d]
  PROVE  TornIsLocked'
BY DEF TornIsLocked, Holders, OpAt

\* The tools keep the invariant while they take the lock.
LEMMA AcquireKeeps ==
  ASSUME FileInv, NEW c \in FileCalls, TakeLock(c) \/ GoUnlocked(c) \/ Contended(c)
  PROVE  FileInv'
<1> USE DEF FileInv
<1>1. CASE TakeLock(c)
  <2>1. FileTypeOK' /\ LockExact'
    BY <1>1, LockTaken
  <2>2. /\ op[c].at = "new" /\ ToolOf[c] # "rewrite"
        /\ op'[c].at = FirstStage(c) /\ op'[c].holds = LockMode(c)
        /\ \A d \in FileCalls \ {c} : op'[d] = op[d]
    BY <1>1 DEF TakeLock, Become, OpAt, FileTypeOK
  <2>3. FirstStage(c) # "truncate" /\ FirstStage(c) \notin {"new", "done"}
    BY DEF FirstStage
  <2>4. /\ FirstStage(c) = "read" <=> ToolOf[c] = "read_file"
        /\ FirstStage(c) = "prepare" => ToolOf[c] \in {"overwrite", "append"}
        /\ FirstStage(c) # "append"
    BY DEF FirstStage
  <2>5. HandlesFit'
    BY <2>2, <2>3, <2>4 DEF HandlesFit, LockMode
  <2>6. EditsKeepUpdates' /\ TornIsLocked'
    BY <1>1, <2>2, <2>3, EditsUndisturbed, TearsUndisturbed DEF TakeLock
  <2>7. QED
    BY <2>1, <2>5, <2>6
<1>2. CASE GoUnlocked(c)
  <2>1. FirstStage(c) \in OpStages /\ FirstStage(c) # "truncate" /\ FirstStage(c) \notin {"new", "done"}
    BY DEF FirstStage, OpStages
  <2>2. /\ FirstStage(c) = "read" <=> ToolOf[c] = "read_file"
        /\ FirstStage(c) = "prepare" => ToolOf[c] \in {"overwrite", "append"}
        /\ FirstStage(c) # "append"
    BY DEF FirstStage
  <2>3. /\ LockExact' /\ op' \in [FileCalls -> OpRecords]
        /\ op'[c].at = FirstStage(c) /\ op'[c].holds = op[c].holds
        /\ \A d \in FileCalls \ {c} : op'[d] = op[d]
    BY <1>2, <2>1, StageKept DEF GoUnlocked
  <2>4. FileTypeOK'
    BY <1>2, <2>3 DEF GoUnlocked, FileTypeOK, OpRecords
  <2>5. HandlesFit'
    BY <1>2, <2>1, <2>2, <2>3 DEF GoUnlocked, HandlesFit, OpAt
  <2>6. EditsKeepUpdates' /\ TornIsLocked'
    BY <1>2, <2>1, <2>3, EditsUndisturbed, TearsUndisturbed DEF GoUnlocked, OpAt
  <2>7. QED
    BY <2>3, <2>4, <2>5, <2>6
<1>3. CASE Contended(c)
  <2>1. /\ LockExact' /\ op' \in [FileCalls -> OpRecords]
        /\ op'[c].at = "done" /\ op'[c].holds = op[c].holds
        /\ \A d \in FileCalls \ {c} : op'[d] = op[d]
    <3>1. "done" \in OpStages /\ Stage(c, "done") /\ lockEntry' = lockEntry
      BY <1>3 DEF Contended, OpStages
    <3>2. QED
      BY <3>1, StageKept
  <2>2. FileTypeOK'
    BY <1>3, <2>1 DEF Contended, FileTypeOK, OpRecords
  <2>3. HandlesFit'
    BY <1>3, <2>1 DEF Contended, HandlesFit, OpAt
  <2>4. EditsKeepUpdates' /\ TornIsLocked'
    BY <1>3, <2>1, EditsUndisturbed, TearsUndisturbed DEF Contended, OpAt
  <2>5. QED
    BY <2>1, <2>2, <2>3, <2>4
<1>4. QED
  BY <1>1, <1>2, <1>3

\* and while they read, prepare and give up,
LEMMA ReadingKeeps ==
  ASSUME FileInv, NEW c \in FileCalls,
         ReadContent(c) \/ Prepare(c) \/ Load(c) \/ GiveUp(c)
  PROVE  FileInv'
<1> USE DEF FileInv
<1>1. CASE ReadContent(c) \/ GiveUp(c)
  <2>0. op[c].at \in {"read", "prepare", "load"} /\ DropHandle(c, "done")
        /\ UNCHANGED <<disk, raced, spoilt>>
    BY <1>1 DEF ReadContent, GiveUp, OpAt
  <2>1. /\ LockExact' /\ op' \in [FileCalls -> OpRecords]
        /\ lockEntry' \in [readers : Nat, writer : BOOLEAN]
        /\ op'[c].at = "done" /\ op'[c].holds = "None"
        /\ \A d \in FileCalls \ {c} : op'[d] = op[d]
    BY <2>0, HandleDropped DEF OpStages
  <2>2. FileTypeOK'
    BY <2>0, <2>1 DEF FileTypeOK, OpRecords
  <2>3. HandlesFit'
    BY <2>1 DEF HandlesFit
  <2>4. EditsKeepUpdates' /\ TornIsLocked'
    BY <2>0, <2>1, EditsUndisturbed, TearsUndisturbed
  <2>5. QED
    BY <2>1, <2>2, <2>3, <2>4
<1>2. CASE Prepare(c)
  <2> DEFINE next == IF ToolOf[c] = "append" THEN "append" ELSE "truncate"
  <2>0. op[c].at = "prepare" /\ op[c].seen \in SUBSET FileCalls
        /\ next \in OpStages /\ next \in {"append", "truncate"} /\ (next = "append" => ToolOf[c] = "append")
        /\ ToolOf[c] \notin {"read_file", "edit_file"}
    BY <1>2 DEF Prepare, OpAt, OpStages, HandlesFit, FileTypeOK
  <2> HIDE DEF next
  <2>1. /\ LockExact' /\ op' \in [FileCalls -> OpRecords]
        /\ op'[c].at = next /\ op'[c].holds = op[c].holds
        /\ \A d \in FileCalls \ {c} : op'[d] = op[d]
    BY <1>2, <2>0, StageKept DEF Prepare, next
  <2>2. FileTypeOK'
    BY <1>2, <2>1 DEF Prepare, FileTypeOK, OpRecords
  <2>3. HandlesFit'
    BY <2>0, <2>1 DEF HandlesFit
  <2>4. EditsKeepUpdates' /\ TornIsLocked'
    BY <1>2, <2>0, <2>1, EditsUndisturbed, TearsUndisturbed DEF Prepare
  <2>5. QED
    BY <2>1, <2>2, <2>3, <2>4
<1>3. CASE Load(c)
  <2>0. op[c].at = "load" /\ disk.text \in SUBSET FileCalls /\ disk' = disk /\ raced' = raced
    BY <1>3 DEF Load, OpAt, FileTypeOK
  <2>1. /\ LockExact' /\ op' \in [FileCalls -> OpRecords]
        /\ op'[c].at = "truncate" /\ op'[c].holds = op[c].holds /\ op'[c].seen = disk.text
        /\ \A d \in FileCalls \ {c} : op'[d] = op[d]
    <3>1. /\ "truncate" \in OpStages /\ lockEntry' = lockEntry
          /\ Become(c, "truncate", op[c].holds, disk.text)
      BY <1>3 DEF Load, OpStages
    <3>2. QED
      BY <2>0, <3>1, HandleKept
  <2>2. FileTypeOK'
    BY <1>3, <2>1 DEF Load, FileTypeOK, OpRecords
  <2>3. HandlesFit'
    BY <2>0, <2>1 DEF HandlesFit
  <2>4. EditsKeepUpdates'
    BY <2>0, <2>1 DEF EditsKeepUpdates, OpAt
  <2>5. TornIsLocked'
    BY <1>3, <2>0, <2>1, TearsUndisturbed DEF Load
  <2>6. QED
    BY <2>1, <2>2, <2>3, <2>4, <2>5
<1>4. QED
  BY <1>1, <1>2, <1>3

\* and while they write, whether it succeeds or fails, with or without the lock.
LEMMA WritingKeeps ==
  ASSUME FileInv, NEW c \in FileCalls,
         Truncate(c) \/ Fill(c) \/ AppendText(c) \/ DiskFails(c)
  PROVE  FileInv'
<1> USE DEF FileInv
<1>0. op[c].at \in {"truncate", "fill", "append"} /\ ToolOf[c] # "read_file"
      /\ op[c].holds \in {"None", "Write"}
  BY DEF Truncate, Fill, AppendText, DiskFails, OpAt, HandlesFit, FileTypeOK
<1>1. PICK stage \in {"fill", "written"} : Stage(c, stage) /\ lockEntry' = lockEntry
  BY DEF Truncate, Fill, AppendText, DiskFails
<1>2. /\ LockExact' /\ op' \in [FileCalls -> OpRecords]
      /\ op'[c].at = stage /\ op'[c].holds = op[c].holds
      /\ \A d \in FileCalls \ {c} : op'[d] = op[d]
  <2>1. stage \in OpStages
    BY DEF OpStages
  <2>2. QED
    BY <1>1, <2>1, StageKept
<1>3. HandlesFit'
  BY <1>0, <1>2 DEF HandlesFit
<1>4. Races(c) \subseteq FileCalls /\ op[c].seen \subseteq FileCalls
  BY DEF Races, FileTypeOK
<1>5. CASE Truncate(c)
  <2>1. FileTypeOK'
    BY <1>1, <1>2, <1>4, <1>5 DEF Truncate, FileTypeOK, OpRecords
  <2>2. EditsKeepUpdates'
    BY <1>0, <1>2, <1>5, EditsAfterWrite DEF Truncate
  <2>3. TornIsLocked'
    <3>1. op'[c].at = "fill"
      BY <1>5 DEF Truncate, Stage, Become, FileTypeOK
    <3>2. spoilt' = (op[c].holds = "None")
      BY <1>5 DEF Truncate
    <3>3. QED
      BY <1>0, <1>2, <3>1, <3>2 DEF TornIsLocked, Holders, OpAt
  <2>4. QED
    BY <1>2, <1>3, <2>1, <2>2, <2>3
<1>6. CASE Fill(c)
  <2>1. FileTypeOK'
    BY <1>1, <1>2, <1>4, <1>6 DEF Fill, FileTypeOK, OpRecords
  <2>2. EditsKeepUpdates'
    BY <1>0, <1>2, <1>6, EditsAfterWrite DEF Fill
  <2>3. TornIsLocked'
    BY <1>6 DEF Fill, TornIsLocked
  <2>4. QED
    BY <1>2, <1>3, <2>1, <2>2, <2>3
<1>7. CASE AppendText(c)
  <2>1. FileTypeOK'
    BY <1>1, <1>2, <1>4, <1>7 DEF AppendText, FileTypeOK, OpRecords
  <2>2. EditsKeepUpdates'
    BY <1>0, <1>2, <1>7, EditsAfterWrite DEF AppendText
  <2>3. TornIsLocked'
    BY <1>2, <1>7 DEF AppendText, TornIsLocked, Holders, OpAt
  <2>4. QED
    BY <1>2, <1>3, <2>1, <2>2, <2>3
<1>8. CASE DiskFails(c)
  <2>0. op'[c].at = "written"
    BY <1>8 DEF DiskFails, Stage, Become, FileTypeOK
  <2>1. FileTypeOK'
    BY <1>1, <1>2, <1>8 DEF DiskFails, FileTypeOK, OpRecords, OpAt
  <2>2. EditsKeepUpdates'
    BY <1>2, <1>8, <2>0, EditsUndisturbed DEF DiskFails
  <2>3. TornIsLocked'
    BY <1>2, <1>8 DEF DiskFails, TornIsLocked, Holders, OpAt, FileTypeOK
  <2>4. QED
    BY <1>2, <1>3, <2>1, <2>2, <2>3
<1>9. QED
  BY <1>5, <1>6, <1>7, <1>8

\* The end of a write, and a handle that goes before it, keep the invariant.
LEMMA ReleaseKeeps ==
  ASSUME FileInv, NEW c \in FileCalls, ReleaseEarly(c) \/ EndWrite(c)
  PROVE  FileInv'
<1> USE DEF FileInv
<1>1. CASE ReleaseEarly(c)
  <2>0. /\ ToolOf[c] \in {"overwrite", "append"}
        /\ op[c].at \in {"truncate", "fill", "append"} /\ op[c].at \in OpStages
        /\ disk' = disk /\ raced' = raced /\ spoilt' = (spoilt \/ op[c].at = "fill")
    BY <1>1 DEF ReleaseEarly, OpAt, OpStages
  <2>1. /\ LockExact' /\ op' \in [FileCalls -> OpRecords]
        /\ lockEntry' \in [readers : Nat, writer : BOOLEAN]
        /\ op'[c].at = op[c].at /\ op'[c].holds = "None"
        /\ \A d \in FileCalls \ {c} : op'[d] = op[d]
    BY <1>1, <2>0, HandleDropped DEF ReleaseEarly
  <2>2. FileTypeOK'
    BY <2>0, <2>1 DEF FileTypeOK, OpRecords
  <2>3. HandlesFit'
    BY <2>0, <2>1 DEF HandlesFit
  <2>4. EditsKeepUpdates'
    BY <2>0, <2>1, EditsUndisturbed
  <2>5. TornIsLocked'
    BY <2>0, <2>1 DEF TornIsLocked, Holders, OpAt, FileTypeOK
  <2>6. QED
    BY <2>1, <2>2, <2>3, <2>4, <2>5
<1>2. CASE EndWrite(c)
  <2>0. /\ op[c].at = "written" /\ "done" \in OpStages /\ DropHandle(c, "done")
        /\ disk' = disk /\ raced' = raced \ {c} /\ spoilt' = spoilt
    BY <1>2 DEF EndWrite, OpAt, OpStages
  <2>1. /\ LockExact' /\ op' \in [FileCalls -> OpRecords]
        /\ lockEntry' \in [readers : Nat, writer : BOOLEAN]
        /\ op'[c].at = "done" /\ op'[c].holds = "None"
        /\ \A d \in FileCalls \ {c} : op'[d] = op[d]
    BY <2>0, HandleDropped
  <2>2. FileTypeOK'
    BY <2>0, <2>1 DEF FileTypeOK, OpRecords
  <2>3. HandlesFit'
    BY <2>0, <2>1 DEF HandlesFit
  <2>4. EditsKeepUpdates' /\ TornIsLocked'
    BY <2>0, <2>1, EditsUndisturbed, TearsUndisturbed
  <2>5. QED
    BY <2>1, <2>2, <2>3, <2>4
<1>3. QED
  BY <1>1, <1>2

-----------------------------------------------------------------------------
\* The inductive invariant holds at the start and through every step.
LEMMA FileInvInit == FileInit => FileInv
<1> SUFFICES ASSUME FileInit PROVE FileInv
  OBVIOUS
<1>1. FileTypeOK
  BY DEF FileInit, FileTypeOK, NoLock, OpStages
<1>2. LockExact
  <2>1. Holders("Read") = {} /\ Holders("Write") = {}
    BY DEF FileInit, Holders
  <2>2. QED
    BY <2>1, FS_EmptySet DEF FileInit, LockExact, NoLock
<1>3. HandlesFit /\ EditsKeepUpdates /\ TornIsLocked
  BY DEF FileInit, HandlesFit, EditsKeepUpdates, TornIsLocked, OpAt
<1>4. QED
  BY <1>1, <1>2, <1>3 DEF FileInv

LEMMA FileInvNext == FileInv /\ [FileNext]_fileVars => FileInv'
<1> SUFFICES ASSUME FileInv, [FileNext]_fileVars PROVE FileInv'
  OBVIOUS
<1>1. ASSUME NEW c \in FileCalls, FileStep(c) PROVE FileInv'
  BY <1>1, AcquireKeeps, ReadingKeeps, WritingKeeps, ReleaseKeeps DEF FileStep
<1>2. CASE UNCHANGED fileVars
  BY <1>2 DEF fileVars, FileInv, FileTypeOK, LockExact, HandlesFit, EditsKeepUpdates,
              TornIsLocked, Holders, OpAt, Available
<1>3. QED
  BY <1>1, <1>2 DEF FileNext

\* The invariant of the tool locks and the file, for any number of calls.
THEOREM FileInvariance == FileSpec => []FileInv
BY FileInvInit, FileInvNext, PTL DEF FileSpec

\* The lock entry, the calls and the file keep their types.
THEOREM FileTypeCorrect == FileSpec => []FileTypeOK
<1>1. FileInv => FileTypeOK
  BY DEF FileInv
<1>2. QED
  BY <1>1, FileInvariance, PTL

\* edit_file writes over the text it has read, unless a write that no lock covers
\* came in between.
THEOREM NoLostUpdate == FileSpec => []EditsKeepUpdates
<1>1. FileInv => EditsKeepUpdates
  BY DEF FileInv
<1>2. QED
  BY <1>1, FileInvariance, PTL

\* read_file under its lock does not see a file in the middle of a locked write.
THEOREM ReadsAreWhole == FileSpec => []LockedReadsWhole
<1>1. FileInv => LockedReadsWhole
  <2> SUFFICES ASSUME FileInv, NEW c \in FileCalls, op[c].holds = "Read", disk.torn, ~spoilt
               PROVE  FALSE
    BY DEF LockedReadsWhole
  <2>1. PICK d \in Holders("Write") : OpAt(d, "fill")
    BY DEF FileInv, TornIsLocked
  <2>2. Holders("Read") = {}
    BY <2>1, NoReadersBesideWriter DEF FileInv
  <2>3. QED
    BY <2>2 DEF Holders
<1>2. QED
  BY <1>1, FileInvariance, PTL
===============================================================================
