----------------------------- MODULE FilesProofs -----------------------------
(***************************************************************************)
(* Proofs about what has to survive a crash on disk, for every value of    *)
(* the constants: the Agent's state file keeps its inductive invariant and *)
(* implements AtomicCell, as do its authentication file and the desktop's  *)
(* Vault file; the state of an engine's packages; the archives of a cold   *)
(* backup; and the restore of a Silo's directory.                          *)
(***************************************************************************)
EXTENDS MCFiles, Sequences, TLAPS

-----------------------------------------------------------------------------
(* DurableFile: the inductive invariant, and the refinement *)

USE DEF Names, WritePcs, RecoverPcs, Exists

\* The invariant holds of a store that was never opened.
LEMMA InitIInv == Init => IInv
  BY ContentAssumption
  DEF Init, IInv, TypeOK, NothingTorn, FlagsInv, TemporaryInv, LiveInv,
      FirstWriteInv, CommittedInv

\* open and recover_interrupted_write keep the invariant, whatever a crash left.
LEMMA OpenStep == IInv /\ OpenNext => IInv'
<1> SUFFICES ASSUME IInv, OpenNext PROVE IInv'
  OBVIOUS
<1> USE ContentAssumption
    DEF IInv, TypeOK, NothingTorn, FlagsInv, TemporaryInv, LiveInv,
        FirstWriteInv, CommittedInv, FsUnchanged, SyncDir, SetDir, Remove,
        Rename, Goto, ReturnError
<1>1. CASE Start
  BY <1>1 DEF Start
<1>2. CASE RecoverFromBackup
  <2>1. TypeOK' /\ dir' \in disk' /\ NothingTorn'
    BY <1>2 DEF RecoverFromBackup
  <2>2. FlagsInv' /\ TemporaryInv' /\ LiveInv' /\ FirstWriteInv'
    BY <1>2 DEF RecoverFromBackup
  <2>3. CommittedInv'
    BY <1>2 DEF RecoverFromBackup
  <2>4. QED
    BY <2>1, <2>2, <2>3
<1>3. CASE RecoverDropBackup
  <2>1. TypeOK' /\ dir' \in disk' /\ NothingTorn'
    BY <1>3 DEF RecoverDropBackup
  <2>2. FlagsInv' /\ TemporaryInv' /\ LiveInv' /\ FirstWriteInv'
    BY <1>3 DEF RecoverDropBackup
  <2>3. CommittedInv'
    BY <1>3 DEF RecoverDropBackup
  <2>4. QED
    BY <2>1, <2>2, <2>3
<1>4. CASE RecoverNothing
  BY <1>4 DEF RecoverNothing
<1>5. CASE RecoverSync
  <2>1. TypeOK' /\ dir' \in disk' /\ NothingTorn'
    BY <1>5 DEF RecoverSync
  <2>2. FlagsInv' /\ TemporaryInv' /\ LiveInv' /\ FirstWriteInv'
    BY <1>5 DEF RecoverSync
  <2>3. CommittedInv'
    BY <1>5 DEF RecoverSync
  <2>4. QED
    BY <2>1, <2>2, <2>3
<1>6. CASE LoadExisting
  BY <1>6 DEF LoadExisting
<1>7. CASE LoadDefault
  <2>1. TypeOK' /\ dir' \in disk' /\ NothingTorn'
    BY <1>7 DEF LoadDefault
  <2>2. FlagsInv' /\ TemporaryInv' /\ LiveInv' /\ FirstWriteInv'
    BY <1>7 DEF LoadDefault
  <2>3. CommittedInv'
    BY <1>7 DEF LoadDefault
  <2>4. QED
    BY <2>1, <2>2, <2>3
<1>8. QED
  BY <1>1, <1>2, <1>3, <1>4, <1>5, <1>6, <1>7 DEF OpenNext

\* persist works on the temporary file only.
LEMMA PersistStep == IInv /\ PersistNext => IInv'
<1> SUFFICES ASSUME IInv, PersistNext PROVE IInv'
  OBVIOUS
<1> USE ContentAssumption
    DEF IInv, TypeOK, NothingTorn, FlagsInv, TemporaryInv, LiveInv,
        FirstWriteInv, CommittedInv, FsUnchanged, SetDir, Remove, Goto,
        ReturnError
<1>1. CASE CreateTemporary
  <2>1. CASE /\ SetDir([dir EXCEPT !["tmp"] = Torn])
             /\ Goto("write")
    BY <1>1, <2>1 DEF CreateTemporary
  <2>2. CASE FsUnchanged /\ ReturnError
    BY <1>1, <2>2 DEF CreateTemporary
  <2>3. QED
    BY <1>1, <2>1, <2>2 DEF CreateTemporary
<1>2. CASE WriteTemporary
  BY <1>2 DEF WriteTemporary
<1>3. CASE Discard
  BY <1>3 DEF Discard
<1>4. QED
  BY <1>1, <1>2, <1>3 DEF PersistNext

\* replace_file: at each of its steps one of the three names holds a good state.
LEMMA ReplaceStep == IInv /\ ReplaceNext => IInv'
<1> SUFFICES ASSUME IInv, ReplaceNext PROVE IInv'
  OBVIOUS
<1> USE ContentAssumption
    DEF IInv, TypeOK, NothingTorn, FlagsInv, TemporaryInv, LiveInv,
        FirstWriteInv, CommittedInv, FsUnchanged, SyncDir, SetDir, Remove,
        Rename, Goto, ReturnOk
<1>1. CASE PurgeBackup
  BY <1>1 DEF PurgeBackup
<1>2. CASE PurgeSync
  BY <1>2 DEF PurgeSync
<1>3. CASE MoveAside
  BY <1>3 DEF MoveAside
<1>4. CASE AsideSync
  BY <1>4 DEF AsideSync
<1>5. CASE Install
  BY <1>5 DEF Install
<1>6. CASE Restore
  BY <1>6 DEF Restore
<1>7. CASE RestoreSync
  BY <1>7 DEF RestoreSync
<1>8. CASE CommitSync
  BY <1>8 DEF CommitSync, Recovered
<1>9. CASE CleanupBackup
  BY <1>9 DEF CleanupBackup, Recovered
<1>10. CASE CleanupSync
  BY <1>10 DEF CleanupSync
<1>11. QED
  BY <1>1, <1>2, <1>3, <1>4, <1>5, <1>6, <1>7, <1>8, <1>9, <1>10
  DEF ReplaceNext

\* A kill keeps the file system; a power loss undoes unsynced operations.
LEMMA StopStep == IInv /\ (Kill \/ PowerLoss) => IInv'
<1> SUFFICES ASSUME IInv, Kill \/ PowerLoss PROVE IInv'
  OBVIOUS
<1> USE ContentAssumption
    DEF IInv, TypeOK, NothingTorn, FlagsInv, TemporaryInv, LiveInv,
        FirstWriteInv, CommittedInv, StopWith
<1>0. \A d \in disk : /\ WithoutTemporary(d) \in [Names -> Values \cup {Torn, Absent}]
                      /\ WithoutTemporary(d)["dest"] # Torn
                      /\ WithoutTemporary(d)["bak"] # Torn
  BY DEF WithoutTemporary
<1>1. CASE Kill
  BY <1>0, <1>1, ZenonT(30) DEF Kill
<1>2. CASE PowerLoss
  BY <1>0, <1>2, ZenonT(30) DEF PowerLoss
<1>3. QED
  BY <1>1, <1>2

\* Every step keeps the invariant.
LEMMA StepIInv == IInv /\ [Next]_vars => IInv'
<1> SUFFICES ASSUME IInv, [Next]_vars PROVE IInv'
  OBVIOUS
<1>1. CASE OpenNext
  BY <1>1, OpenStep
<1>2. ASSUME NEW v \in Values, Mutate(v) PROVE IInv'
  BY <1>2, ContentAssumption
  DEF Mutate, FsUnchanged, IInv, TypeOK, NothingTorn, FlagsInv, TemporaryInv,
      LiveInv, FirstWriteInv, CommittedInv
<1>3. CASE PersistNext
  BY <1>3, PersistStep
<1>4. CASE ReplaceNext
  BY <1>4, ReplaceStep
<1>5. CASE Kill \/ PowerLoss
  BY <1>5, StopStep
<1>6. CASE UNCHANGED vars
  BY <1>6
  DEF vars, IInv, TypeOK, NothingTorn, FlagsInv, TemporaryInv, LiveInv,
      FirstWriteInv, CommittedInv, Recovered
<1>7. QED
  BY <1>1, <1>2, <1>3, <1>4, <1>5, <1>6 DEF Next

\* The invariant that says, for every file-system call, what the directory
\* holds before it; DurableAgentStore's persist and replace_file keep it
\* through every error, kill and power loss.
THEOREM InductiveInvariant == Spec => []IInv
<1>1. QED
  BY InitIInv, StepIInv, PTL DEF Spec

\* No crash leaves a file that open would fail to parse.
THEOREM NeverTorn == Spec => []NothingTorn
<1>1. IInv => NothingTorn
  BY DEF IInv
<1>2. QED
  BY <1>1, InductiveInvariant, PTL
-----------------------------------------------------------------------------
(* The refinement *)

\* A directory operation that recovers to something already recoverable adds
\* nothing to what a restart may read.
LEMMA SetDirRecoverable ==
  ASSUME NEW d, SetDir(d), Recovered(d) \in Recoverable
  PROVE  Recoverable' = Recoverable
  BY DEF SetDir, Recoverable, Recovered

\* A directory sync can only narrow what a restart may read.
LEMMA SyncRecoverable ==
  ASSUME dir \in disk, SyncDir
  PROVE  /\ Recoverable' \in (SUBSET Recoverable) \ {{}}
         /\ Recoverable' = {Recovered(dir)}
<1>1. Recoverable' = {Recovered(dir)}
  BY DEF SyncDir, Recoverable, Recovered
<1>2. Recovered(dir) \in Recoverable
  BY DEF Recoverable
<1>3. QED
  BY <1>1, <1>2

\* What a restart may read depends on the file system alone.
LEMMA SameRecoverable ==
  ASSUME FsUnchanged
  PROVE  Recoverable' = Recoverable
  BY DEF FsUnchanged, Recoverable, Recovered

\* The current directory is one of the things a restart may read.
LEMMA DirRecoverable ==
  ASSUME IInv
  PROVE  Recovered(dir) \in Recoverable
  BY DEF IInv, Recoverable

\* The abstract status of each program counter.
LEMMA StatusCases ==
  ASSUME IInv
  PROVE  /\ pc = "down" \/ caller = "open" => Status = "down"
         /\ pc = "idle" /\ poisoned => Status = "poisoned"
         /\ pc = "idle" /\ ~poisoned => Status = "ready"
         /\ caller = "mutate" => Status = "writing"
  BY DEF IInv, TypeOK, FlagsInv, Status

\* The abstract status after a step.
LEMMA StatusCasesNext ==
  ASSUME IInv'
  PROVE  /\ pc' = "down" \/ caller' = "open" => Status' = "down"
         /\ pc' = "idle" /\ poisoned' => Status' = "poisoned"
         /\ pc' = "idle" /\ ~poisoned' => Status' = "ready"
         /\ caller' = "mutate" => Status' = "writing"
  BY DEF IInv, TypeOK, FlagsInv, Status

\* An empty store is the initial cell.
LEMMA RefineInit == Init => Cell!Init
<1> SUFFICES ASSUME Init PROVE Cell!Init
  OBVIOUS
<1>1. Status = "down"
  BY DEF Init, Status
<1>2. Recoverable = {Default}
  BY DEF Init, Recoverable, Recovered
<1>3. QED
  BY <1>1, <1>2 DEF Init, Cell!Init, Attempted

\* A step inside open or mutate that keeps memory, the attempt and what a
\* restart may read is invisible.
LEMMA InvisibleStep ==
  ASSUME IInv, IInv', NEW label, Goto(label), caller # "none",
         Recoverable' = Recoverable
  PROVE  UNCHANGED Cell!vars
<1>1. caller' = caller /\ caller \in {"open", "mutate"}
  BY DEF Goto, IInv, TypeOK
<1>2. Status' = Status
  BY <1>1, StatusCases, StatusCasesNext
<1>3. QED
  BY <1>2 DEF Cell!vars, Attempted, Goto

\* So is a directory sync, which may settle what a restart reads.
LEMMA SyncStep ==
  ASSUME IInv, IInv', NEW label, Goto(label), caller # "none", SyncDir
  PROVE  Cell!Settle
<1>1. caller' = caller /\ caller \in {"open", "mutate"}
  BY DEF Goto, IInv, TypeOK
<1>2. Status' = Status
  BY <1>1, StatusCases, StatusCasesNext
<1>3. Recoverable' \in (SUBSET Recoverable) \ {{}}
  BY SyncRecoverable DEF IInv
<1>4. QED
  BY <1>2, <1>3 DEF Cell!Settle, Attempted, Goto

\* open fails silently; mutate's failure refuses the attempt.
LEMMA ErrorStep ==
  ASSUME IInv, IInv', ReturnError, caller # "none", Recoverable' = Recoverable
  PROVE  Cell!Refuse \/ UNCHANGED Cell!vars
<1>1. CASE caller = "open"
  <2>1. Status = "down" /\ Status' = "down"
    BY <1>1, StatusCases, StatusCasesNext DEF ReturnError
  <2>2. QED
    BY <2>1 DEF Cell!vars, Attempted, ReturnError
<1>2. CASE caller = "mutate"
  <2>1. Status = "writing" /\ Status' = "poisoned"
    BY <1>2, StatusCases, StatusCasesNext DEF ReturnError
  <2>2. QED
    BY <2>1 DEF Cell!Refuse, Attempted, ReturnError
<1>3. QED
  BY <1>1, <1>2 DEF IInv, TypeOK

\* A successful persist opens the store, or commits the attempt.
LEMMA OkStep ==
  ASSUME IInv, IInv', ReturnOk, pc \in {"cleanup", "cleanup_sync"},
         Recoverable' = Recoverable
  PROVE  Cell!Open \/ Cell!Commit
<1>1. Recoverable = {prospective}
  BY DEF IInv, CommittedInv, Recoverable
<1>2. Status' = "ready"
  BY StatusCasesNext DEF ReturnOk, IInv, FlagsInv
<1>3. CASE caller = "open"
  <2>1. Status = "down"
    BY <1>3, StatusCases
  <2>2. QED
    BY <1>1, <1>2, <2>1 DEF Cell!Open, Attempted, ReturnOk
<1>4. CASE caller = "mutate"
  <2>1. Status = "writing"
    BY <1>4, StatusCases
  <2>2. QED
    BY <1>1, <1>2, <2>1 DEF Cell!Commit, Attempted, ReturnOk
<1>5. QED
  BY <1>3, <1>4 DEF IInv, TypeOK, FlagsInv

\* A directory operation other than Install recovers to what dir does.
LEMMA HarmlessOperation ==
  ASSUME IInv, NEW d, SetDir(d), Recovered(d) = Recovered(dir)
  PROVE  Recoverable' = Recoverable
  BY SetDirRecoverable, DirRecoverable

\* Purging the temporary file leaves what a restart reads.
LEMMA RemoveTemporary ==
  ASSUME IInv, Remove("tmp")
  PROVE  Recoverable' = Recoverable
<1>1. Recovered([dir EXCEPT !["tmp"] = Absent]) = Recovered(dir)
  BY DEF IInv, TypeOK, Recovered
<1>2. QED
  BY <1>1, HarmlessOperation DEF Remove

\* So does removing the backup once the file itself is in place.
LEMMA RemoveBackup ==
  ASSUME IInv, Remove("bak"), dir["dest"] # Absent
  PROVE  Recoverable' = Recoverable
<1>1. Recovered([dir EXCEPT !["bak"] = Absent]) = Recovered(dir)
  BY DEF IInv, TypeOK, Recovered
<1>2. QED
  BY <1>1, HarmlessOperation DEF Remove

\* The steps of open are steps of the cell, or invisible.
LEMMA RefineOpen ==
  ASSUME IInv, IInv', OpenNext
  PROVE  [Cell!Next]_Cell!vars
<1>1. CASE Start
  <2>1. Status = "down" /\ Status' = "down"
    BY <1>1, StatusCases, StatusCasesNext DEF Start
  <2>2. QED
    BY <1>1, <2>1, SameRecoverable DEF Start, Cell!vars, Attempted
<1>2. CASE RecoverFromBackup
  <2>1. CASE Rename("bak", "dest") /\ Goto("recover_sync")
    <3>1. Recovered([dir EXCEPT !["dest"] = dir["bak"], !["bak"] = Absent])
             = Recovered(dir)
      BY <1>2 DEF RecoverFromBackup, IInv, TypeOK, Recovered
    <3>2. QED
      BY <1>2, <2>1, <3>1, HarmlessOperation, InvisibleStep
      DEF RecoverFromBackup, Rename, IInv, FlagsInv
  <2>2. CASE FsUnchanged /\ ReturnError
    BY <1>2, <2>2, SameRecoverable, ErrorStep
    DEF RecoverFromBackup, IInv, FlagsInv, Cell!Next
  <2>3. QED
    BY <1>2, <2>1, <2>2 DEF RecoverFromBackup
<1>3. CASE RecoverDropBackup
  <2>1. CASE Remove("bak") /\ Goto("recover_sync")
    BY <1>3, <2>1, RemoveBackup, InvisibleStep
    DEF RecoverDropBackup, IInv, FlagsInv
  <2>2. CASE FsUnchanged /\ ReturnError
    BY <1>3, <2>2, SameRecoverable, ErrorStep
    DEF RecoverDropBackup, IInv, FlagsInv, Cell!Next
  <2>3. QED
    BY <1>3, <2>1, <2>2 DEF RecoverDropBackup
<1>4. CASE RecoverNothing
  BY <1>4, SameRecoverable, InvisibleStep DEF RecoverNothing, IInv, FlagsInv
<1>5. CASE RecoverSync
  <2>1. CASE SyncDir /\ Goto("load")
    BY <1>5, <2>1, SyncStep DEF RecoverSync, IInv, FlagsInv, Cell!Next
  <2>2. CASE FsUnchanged /\ ReturnError
    BY <1>5, <2>2, SameRecoverable, ErrorStep
    DEF RecoverSync, IInv, FlagsInv, Cell!Next
  <2>3. QED
    BY <1>5, <2>1, <2>2 DEF RecoverSync
<1>6. CASE LoadExisting
  <2>1. dir["dest"] # Torn
    BY DEF IInv, NothingTorn
  <2>2. Status = "down" /\ Status' = "ready"
    BY <1>6, <2>1, StatusCases, StatusCasesNext
    DEF LoadExisting, IInv, FlagsInv, LiveInv
  <2>3. mem' = Recovered(dir)
    BY <1>6, <2>1 DEF LoadExisting, Recovered
  <2>4. Recoverable' = Recoverable
    BY <1>6, SameRecoverable DEF LoadExisting
  <2>5. Cell!Open
    BY <2>2, <2>3, <2>4, DirRecoverable DEF Cell!Open, Attempted
  <2>6. QED
    BY <2>5 DEF Cell!Next
<1>7. CASE LoadDefault
  <2>1. Status = "down" /\ Status' = "down"
    BY <1>7, StatusCases, StatusCasesNext DEF LoadDefault, IInv, FlagsInv
  <2>2. QED
    BY <1>7, <2>1, SameRecoverable DEF LoadDefault, Cell!vars, Attempted
<1>8. QED
  BY <1>1, <1>2, <1>3, <1>4, <1>5, <1>6, <1>7 DEF OpenNext

\* mutate begins an attempt.
LEMMA RefineMutate ==
  ASSUME IInv, IInv', NEW v \in Values, Mutate(v)
  PROVE  Cell!Attempt(v)
<1>1. Status = "ready" /\ Status' = "writing"
  BY StatusCases, StatusCasesNext DEF Mutate
<1>2. QED
  BY <1>1, SameRecoverable DEF Mutate, Cell!Attempt, Attempted

\* The steps of persist are invisible until one of them fails.
LEMMA RefinePersist ==
  ASSUME IInv, IInv', PersistNext
  PROVE  [Cell!Next]_Cell!vars
<1>1. pc \in {"create", "write", "discard"} /\ caller # "none"
  BY DEF PersistNext, CreateTemporary, WriteTemporary, Discard, IInv, FlagsInv
<1>2. ASSUME NEW content, SetDir([dir EXCEPT !["tmp"] = content])
      PROVE  Recoverable' = Recoverable
  <2>1. Recovered([dir EXCEPT !["tmp"] = content]) = Recovered(dir)
    BY DEF IInv, TypeOK, Recovered
  <2>2. QED
    BY <1>2, <2>1, HarmlessOperation
<1>3. CASE CreateTemporary
  BY <1>1, <1>2, <1>3, SameRecoverable, InvisibleStep, ErrorStep
  DEF CreateTemporary, Cell!Next
<1>4. CASE WriteTemporary
  BY <1>1, <1>2, <1>4, SameRecoverable, InvisibleStep DEF WriteTemporary
<1>5. CASE Discard
  BY <1>1, <1>5, RemoveTemporary, ErrorStep DEF Discard, Cell!Next
<1>6. QED
  BY <1>3, <1>4, <1>5 DEF PersistNext

\* The steps of replace_file commit the attempt once, at the install.
LEMMA RefineReplace ==
  ASSUME IInv, IInv', ReplaceNext
  PROVE  [Cell!Next]_Cell!vars
<1>1. caller # "none"
  BY DEF ReplaceNext, PurgeBackup, PurgeSync, MoveAside, AsideSync, Install,
         Restore, RestoreSync, CommitSync, CleanupBackup, CleanupSync, IInv,
         FlagsInv
<1>2. ASSUME NEW label, FsUnchanged, Goto(label)
      PROVE  UNCHANGED Cell!vars
  BY <1>1, <1>2, SameRecoverable, InvisibleStep
<1>3. ASSUME NEW label, SyncDir, Goto(label)
      PROVE  Cell!Settle
  BY <1>1, <1>3, SyncStep
<1>4. CASE PurgeBackup
  <2>1. CASE Exists("bak") /\ Remove("bak") /\ Goto("purge_sync")
    BY <1>1, <1>4, <2>1, RemoveBackup, InvisibleStep
    DEF PurgeBackup, IInv, LiveInv
  <2>2. QED
    BY <1>2, <1>4, <2>1 DEF PurgeBackup
<1>5. CASE PurgeSync
  BY <1>2, <1>3, <1>5 DEF PurgeSync, Cell!Next
<1>6. CASE MoveAside
  <2>1. CASE Exists("dest") /\ Rename("dest", "bak") /\ Goto("aside_sync")
    <3>1. Recovered([dir EXCEPT !["bak"] = dir["dest"], !["dest"] = Absent])
             = Recovered(dir)
      BY <2>1 DEF IInv, TypeOK, Recovered
    <3>2. QED
      BY <1>1, <2>1, <3>1, HarmlessOperation, InvisibleStep DEF Rename
  <2>2. QED
    BY <1>2, <1>6, <2>1 DEF MoveAside
<1>7. CASE AsideSync
  BY <1>2, <1>3, <1>7 DEF AsideSync, Cell!Next
<1>8. CASE Install
  <2> DEFINE moved == [dir EXCEPT !["dest"] = dir["tmp"], !["tmp"] = Absent]
  <2>1. CASE SetDir(moved) /\ Goto("commit_sync")
    <3>1. Recovered(moved) = prospective
      BY <1>8, ContentAssumption
      DEF Install, IInv, TypeOK, TemporaryInv, Recovered
    <3>2. Recoverable' = Recoverable \cup {prospective}
      BY <2>1, <3>1 DEF SetDir, Recoverable, Recovered
    <3>3. CASE caller = "mutate"
      <4>1. Status = "writing" /\ Status' = "writing"
        BY <2>1, <3>3, StatusCases, StatusCasesNext DEF Goto
      <4>2. Cell!Expose
        BY <2>1, <3>2, <4>1 DEF Cell!Expose, Attempted, Goto
      <4>3. QED
        BY <4>2 DEF Cell!Next
    <3>4. CASE caller = "open"
      <4>1. Recovered(dir) = prospective
        BY <1>8, <3>4 DEF Install, IInv, FirstWriteInv, Recovered
      <4>2. Recoverable' = Recoverable
        BY <3>2, <4>1, DirRecoverable
      <4>3. QED
        BY <1>1, <2>1, <4>2, InvisibleStep
    <3>5. QED
      BY <1>1, <3>3, <3>4 DEF IInv, TypeOK
  <2>2. QED
    BY <1>2, <1>8, <2>1 DEF Install, Rename
<1>9. CASE Restore
  <2>1. CASE Exists("bak") /\ Rename("bak", "dest") /\ Goto("restore_sync")
    <3>1. Recovered([dir EXCEPT !["dest"] = dir["bak"], !["bak"] = Absent])
             = Recovered(dir)
      BY <1>9, <2>1 DEF Restore, IInv, TypeOK, LiveInv, Recovered
    <3>2. QED
      BY <1>1, <2>1, <3>1, HarmlessOperation, InvisibleStep DEF Rename
  <2>2. QED
    BY <1>2, <1>9, <2>1 DEF Restore
<1>10. CASE RestoreSync
  BY <1>2, <1>3, <1>10 DEF RestoreSync, Cell!Next
<1>11. CASE CommitSync
  BY <1>2, <1>3, <1>11 DEF CommitSync, Cell!Next
<1>12. CASE CleanupBackup
  <2>1. CASE Exists("bak") /\ Remove("bak") /\ Goto("cleanup_sync")
    <3>1. dir["dest"] # Absent
      BY <1>12, ContentAssumption DEF CleanupBackup, IInv, TypeOK, LiveInv
    <3>2. QED
      BY <1>1, <2>1, <3>1, RemoveBackup, InvisibleStep
  <2>2. CASE FsUnchanged /\ ReturnOk
    BY <1>12, <2>2, SameRecoverable, OkStep DEF CleanupBackup, Cell!Next
  <2>3. QED
    BY <1>12, <2>1, <2>2 DEF CleanupBackup
<1>13. CASE CleanupSync
  <2>1. Recoverable' = Recoverable
    <3>1. CASE SyncDir
      BY <1>13, <3>1, SyncRecoverable
      DEF CleanupSync, IInv, CommittedInv, Recoverable
    <3>2. CASE FsUnchanged
      BY <3>2, SameRecoverable
    <3>3. QED
      BY <1>13, <3>1, <3>2 DEF CleanupSync
  <2>2. QED
    BY <1>13, <2>1, OkStep DEF CleanupSync, Cell!Next
<1>14. QED
  BY <1>4, <1>5, <1>6, <1>7, <1>8, <1>9, <1>10, <1>11, <1>12, <1>13
  DEF ReplaceNext

\* A crash settles the cell on a state it may recover to.
LEMMA RefineStop ==
  ASSUME IInv, IInv', Kill \/ PowerLoss
  PROVE  Cell!Stop
<1>1. Status' = "down"
  BY StatusCasesNext DEF Kill, PowerLoss, StopWith
<1>2. \A d \in disk : Recovered(WithoutTemporary(d)) = Recovered(d)
  BY DEF IInv, TypeOK, Recovered, WithoutTemporary
<1>3. Recoverable' \in (SUBSET Recoverable) \ {{}}
  <2>1. CASE Kill
    BY <1>2, <2>1 DEF Kill, Recoverable, Recovered, IInv
  <2>2. CASE PowerLoss
    BY <1>2, <2>2 DEF PowerLoss, Recoverable, Recovered
  <2>3. QED
    BY <2>1, <2>2
<1>4. QED
  BY <1>1, <1>3 DEF Cell!Stop, Attempted, Kill, PowerLoss, StopWith

\* DurableAgentStore implements the atomic cell: acknowledged states survive
\* every crash, and a crash never yields a state nobody attempted.
THEOREM Refinement == Spec => ImplementsAtomicCell
<1>1. IInv /\ IInv' /\ [Next]_vars => [Cell!Next]_Cell!vars
  <2> SUFFICES ASSUME IInv, IInv', [Next]_vars PROVE [Cell!Next]_Cell!vars
    OBVIOUS
  <2>1. CASE UNCHANGED vars
    BY <2>1 DEF vars, Cell!vars, Attempted, Status, Recoverable, Recovered
  <2>2. CASE Next
    BY <2>2, RefineOpen, RefineMutate, RefinePersist, RefineReplace, RefineStop
    DEF Next, Cell!Next
  <2>3. QED
    BY <2>1, <2>2
<1>2. QED
  BY <1>1, RefineInit, InductiveInvariant, PTL
  DEF Spec, ImplementsAtomicCell, Cell!Spec

HIDE DEF Names, WritePcs, RecoverPcs, Exists

-----------------------------------------------------------------------------
(* AuthFile: the inductive invariant *)

AuthReading == {"recover", "promoted", "load"}

\* Which call may be in progress with which flags.
AuthFlags == /\ authPc \in AuthReading => authCaller = "open"
             /\ authCaller = "none" <=> authPc \in {"down", "idle"}
             /\ authPoisoned => authPc = "idle"

\* A live file parses, and where it is missing nothing but the default was ever written.
AuthLive == /\ \A d \in authDisk : /\ d.live # Torn
                                   /\ d.live = Absent => d.tmp \in {Default, Torn, Absent}
            /\ authDir.live = Absent => \A d \in authDisk : d.live = Absent

\* The temporary file holds the prospective state from its sync to its move.
AuthMoves == /\ authPc = "rename" => authDir.tmp = authProspective
             /\ authPc = "sync" => authDir.live = authProspective
             /\ authPc = "promoted" \/ (authPc = "idle" /\ ~authPoisoned)
                \/ authCaller = "commit" => authDir.live # Absent

\* open writes only the default, and only where there was nothing.
AuthFirstWrite == authCaller = "open" /\ authPc \notin AuthReading =>
                     /\ authProspective = Default
                     /\ \A d \in authDisk : d.live \in {Absent, Default}

AuthInv == /\ Auth!TypeOK
           /\ authDir \in authDisk
           /\ AuthFlags /\ AuthLive /\ AuthMoves /\ AuthFirstWrite

\* A file of the directory as it is now, and of the directories it may be after a crash.
LEMMA AuthFacts ==
  ASSUME AuthInv
  PROVE /\ authDir \in [live : Auth!Contents, tmp : Auth!Contents]
        /\ \A d \in authDisk : d \in [live : Auth!Contents, tmp : Auth!Contents]
        /\ Default \in Values /\ Torn \notin Values /\ Absent \notin Values /\ Torn # Absent
        /\ authDir.live # Torn
BY AuthFileAssumption DEF AuthInv, Auth!TypeOK, AuthLive, Auth!ContentAssumption

LEMMA AuthStarts == ASSUME Auth!Init PROVE AuthInv
<1>1. Default \in Values /\ Torn \notin Values /\ Absent \notin Values /\ Torn # Absent
  BY AuthFileAssumption DEF Auth!ContentAssumption
<1>2. /\ authDir \in [live : Auth!Contents, tmp : Auth!Contents]
      /\ authDir.live = Absent /\ authDir.tmp = Absent /\ authDisk = {authDir}
  BY DEF Auth!Init, Auth!Contents
<1>3. Auth!TypeOK
  BY <1>1, <1>2 DEF Auth!Init, Auth!TypeOK
<1> QED BY <1>1, <1>2, <1>3
        DEF Auth!Init, AuthInv, AuthFlags, AuthLive, AuthMoves, AuthFirstWrite, AuthReading

AuthEntries == [live : Auth!Contents, tmp : Auth!Contents]

\* What holds of all directories that a crash may leave.
AuthDirs == /\ authDisk \in SUBSET AuthEntries
            /\ authDir \in authDisk
            /\ AuthLive

\* A directory operation that leaves no torn file where recovery reads one.
LEMMA AuthSetDir ==
  ASSUME AuthInv, NEW d \in AuthEntries, Auth!SetDir(d), d.live # Torn,
         d.live = Absent => authDir.live = Absent /\ d.tmp \in {Default, Torn, Absent}
  PROVE AuthDirs' /\ authDir' = d
BY AuthFacts DEF AuthDirs, AuthEntries, AuthInv, Auth!TypeOK, AuthLive, Auth!SetDir

LEMMA AuthRemove ==
  ASSUME AuthInv, Auth!RemoveTemporary
  PROVE AuthDirs' /\ authDir'.live = authDir.live
<1> DEFINE d == [authDir EXCEPT !.tmp = Absent]
<1>1. d \in AuthEntries /\ d.live = authDir.live /\ d.tmp = Absent /\ d.live # Torn
  BY AuthFacts DEF AuthEntries, Auth!Contents
<1>2. Auth!SetDir(d)
  BY DEF Auth!RemoveTemporary
<1> HIDE DEF d
<1> QED BY <1>1, <1>2, AuthSetDir

\* The temporary file is created, or written: content that recovery may read is the default.
LEMMA AuthWrites ==
  ASSUME AuthInv, NEW v \in Values \cup {Torn}, Auth!SetDir([authDir EXCEPT !.tmp = v]),
         authDir.live = Absent => v \in {Default, Torn}
  PROVE AuthDirs' /\ authDir'.live = authDir.live /\ authDir'.tmp = v
<1> DEFINE d == [authDir EXCEPT !.tmp = v]
<1>1. d \in AuthEntries /\ d.live = authDir.live /\ d.tmp = v /\ d.live # Torn
  BY AuthFacts DEF AuthEntries, Auth!Contents
<1>2. Auth!SetDir(d)
  OBVIOUS
<1> HIDE DEF d
<1> QED BY <1>1, <1>2, AuthSetDir

LEMMA AuthMoved ==
  ASSUME AuthInv, Auth!MoveIntoPlace, authDir.tmp \in Values
  PROVE AuthDirs' /\ authDir'.live = authDir.tmp /\ authDir'.tmp = Absent
<1> DEFINE d == [live |-> authDir.tmp, tmp |-> Absent]
<1>1. d \in AuthEntries /\ d.live = authDir.tmp /\ d.tmp = Absent
  BY AuthFacts DEF AuthEntries, Auth!Contents
<1>2. d.live # Torn /\ d.live # Absent
  BY <1>1, AuthFacts
<1>3. Auth!SetDir(d)
  BY DEF Auth!MoveIntoPlace
<1> HIDE DEF d
<1> QED BY <1>1, <1>2, <1>3, AuthSetDir

LEMMA AuthSynced ==
  ASSUME AuthInv, Auth!SyncDir
  PROVE AuthDirs' /\ authDir' = authDir /\ authDisk' = {authDir}
BY AuthFacts DEF AuthDirs, AuthEntries, AuthInv, AuthLive, Auth!SyncDir

LEMMA AuthSame ==
  ASSUME AuthInv, Auth!FsUnchanged
  PROVE AuthDirs' /\ authDir' = authDir /\ authDisk' = authDisk
BY AuthFacts DEF AuthDirs, AuthEntries, AuthInv, Auth!TypeOK, AuthLive, Auth!FsUnchanged

\* The rest of the invariant, once the directories are settled.
AuthRest == /\ authMem \in Values /\ authProspective \in Values /\ authPoisoned \in BOOLEAN
            /\ authCaller \in {"none", "open", "commit"}
            /\ authPc \in {"down", "idle", "recover", "promoted", "load", "stale",
                           "create", "write", "discard", "rename", "sync"}
            /\ AuthFlags /\ AuthMoves /\ AuthFirstWrite

LEMMA AuthParts == AuthInv <=> AuthDirs /\ AuthRest
BY DEF AuthInv, AuthDirs, AuthRest, Auth!TypeOK, AuthEntries

LEMMA AuthOpenKeeps == ASSUME AuthInv, Auth!OpenNext PROVE AuthInv'
<1> SUFFICES AuthDirs' /\ AuthRest'
  BY AuthParts DEF AuthInv, AuthDirs, AuthRest, Auth!TypeOK, AuthEntries
<1> USE AuthFacts, AuthParts DEF AuthRest, AuthFlags, AuthMoves, AuthFirstWrite, AuthReading,
        Auth!Goto, Auth!ReturnError
<1>1. CASE Auth!Start
  BY <1>1, AuthSame DEF Auth!Start
<1>2. CASE Auth!RecoverLive
  <2>1. CASE Auth!RemoveTemporary /\ Auth!Goto("load")
    BY <1>2, <2>1, AuthRemove DEF Auth!RecoverLive
  <2>2. CASE Auth!FsUnchanged /\ Auth!ReturnError
    BY <1>2, <2>2, AuthSame DEF Auth!RecoverLive
  <2> QED BY <1>2, <2>1, <2>2 DEF Auth!RecoverLive
<1>3. CASE Auth!RecoverPromote
  <2>1. CASE authDir.tmp # Torn /\ Auth!MoveIntoPlace /\ Auth!Goto("promoted")
    <3>1. authDir.tmp \in Values
      BY <1>3, <2>1 DEF Auth!RecoverPromote, Auth!Contents
    <3>2. AuthDirs' /\ authDir'.live # Absent
      BY <2>1, <3>1, AuthMoved
    <3> QED BY <1>3, <2>1, <3>2 DEF Auth!RecoverPromote
  <2>2. CASE Auth!FsUnchanged /\ Auth!ReturnError
    BY <1>3, <2>2, AuthSame DEF Auth!RecoverPromote
  <2> QED BY <1>3, <2>1, <2>2 DEF Auth!RecoverPromote
<1>4. CASE Auth!RecoverSync
  <2>1. CASE Auth!SyncDir /\ Auth!Goto("load")
    BY <1>4, <2>1, AuthSynced DEF Auth!RecoverSync
  <2>2. CASE Auth!FsUnchanged /\ Auth!ReturnError
    BY <1>4, <2>2, AuthSame DEF Auth!RecoverSync
  <2> QED BY <1>4, <2>1, <2>2 DEF Auth!RecoverSync
<1>5. CASE Auth!RecoverNothing
  BY <1>5, AuthSame DEF Auth!RecoverNothing
<1>6. CASE Auth!LoadExisting
  <2>1. authDir.live \in Values
    BY <1>6 DEF Auth!LoadExisting, Auth!Contents
  <2> QED BY <1>6, <2>1, AuthSame DEF Auth!LoadExisting
<1>7. CASE Auth!LoadDefault
  <2>1. \A d \in authDisk : d.live = Absent
    BY <1>7 DEF Auth!LoadDefault, AuthInv, AuthLive
  <2> QED BY <1>7, <2>1, AuthSame DEF Auth!LoadDefault
<1> QED BY <1>1, <1>2, <1>3, <1>4, <1>5, <1>6, <1>7 DEF Auth!OpenNext

\* While a write that open began is under way, no file of it holds anything else.
LEMMA AuthFirst ==
  ASSUME AuthInv, authPc \in {"stale", "create", "write", "discard", "rename", "sync"}
  PROVE /\ authCaller \in {"open", "commit"}
        /\ authCaller = "commit" => authDir.live # Absent
        /\ authCaller = "open" => /\ authProspective = Default
                                  /\ \A d \in authDisk : d.live \in {Absent, Default}
                                  /\ authDir.live \in {Absent, Default}
BY DEF AuthInv, Auth!TypeOK, AuthFlags, AuthMoves, AuthFirstWrite, AuthReading

\* A step inside a persist.
LEMMA AuthGoes ==
  ASSUME AuthInv, NEW l \in {"create", "write", "discard", "rename", "sync"}, Auth!Goto(l),
         authPc \in {"stale", "create", "write", "rename"}, AuthDirs',
         authCaller = "commit" => authDir'.live # Absent,
         authDisk' \in {authDisk, authDisk \cup {authDir'}},
         authDir'.live \in {authDir.live, authProspective},
         l = "rename" => authDir'.tmp = authProspective,
         l = "sync" => authDir'.live = authProspective
  PROVE AuthInv'
<1>1. authCaller = "open" => \A d \in authDisk' : d.live \in {Absent, Default}
  BY AuthFirst
<1>2. AuthRest'
  BY <1>1, AuthFirst, AuthParts
  DEF AuthRest, AuthFlags, AuthMoves, AuthFirstWrite, AuthReading, Auth!Goto
<1> QED BY <1>2 DEF AuthInv, AuthDirs, AuthRest, Auth!TypeOK, AuthEntries

\* It ends with an error.
LEMMA AuthErrs ==
  ASSUME AuthInv, Auth!ReturnError, authCaller # "none", AuthDirs'
  PROVE AuthInv'
<1>1. AuthRest'
  BY AuthParts DEF AuthRest, AuthFlags, AuthMoves, AuthFirstWrite, AuthReading, Auth!ReturnError
<1> QED BY <1>1 DEF AuthInv, AuthDirs, AuthRest, Auth!TypeOK, AuthEntries

LEMMA AuthPersistKeeps == ASSUME AuthInv, Auth!PersistNext PROVE AuthInv'
<1>1. authPc \in {"stale", "create", "write", "discard", "rename", "sync"}
  BY DEF Auth!PersistNext, Auth!RemoveStale, Auth!CreateTemporary, Auth!WriteTemporary,
         Auth!Discard, Auth!Rename, Auth!ModeAndSync
<1>2. /\ authCaller \in {"open", "commit"} /\ authProspective \in Values
      /\ authCaller = "commit" => authDir.live # Absent
      /\ authCaller = "open" => authProspective = Default
  BY <1>1, AuthFirst DEF AuthInv, Auth!TypeOK
<1>3. ASSUME Auth!FsUnchanged, Auth!ReturnError PROVE AuthInv'
  BY <1>2, <1>3, AuthSame, AuthErrs
<1>4. CASE Auth!RemoveStale
  <2>1. CASE Auth!RemoveTemporary /\ Auth!Goto("create")
    <3>1. authDisk' = authDisk \cup {authDir'}
      BY <2>1 DEF Auth!RemoveTemporary, Auth!SetDir
    <3> QED BY <1>2, <1>4, <2>1, <3>1, AuthRemove, AuthGoes DEF Auth!RemoveStale
  <2> QED BY <1>3, <1>4, <2>1 DEF Auth!RemoveStale
<1>5. CASE Auth!CreateTemporary
  <2>1. CASE Auth!SetDir([authDir EXCEPT !.tmp = Torn]) /\ Auth!Goto("write")
    <3>1. authDisk' = authDisk \cup {authDir'}
      BY <2>1 DEF Auth!SetDir
    <3>2. AuthDirs' /\ authDir'.live = authDir.live
      BY <2>1, AuthWrites
    <3> QED BY <1>2, <1>5, <2>1, <3>1, <3>2, AuthGoes DEF Auth!CreateTemporary
  <2> QED BY <1>3, <1>5, <2>1 DEF Auth!CreateTemporary
<1>6. CASE Auth!WriteTemporary
  <2>1. CASE Auth!SetDir([authDir EXCEPT !.tmp = authProspective]) /\ Auth!Goto("rename")
    <3>1. authDisk' = authDisk \cup {authDir'}
      BY <2>1 DEF Auth!SetDir
    <3>2. authDir.live = Absent => authProspective = Default
      BY <1>2
    <3>3. AuthDirs' /\ authDir'.live = authDir.live /\ authDir'.tmp = authProspective
      BY <1>2, <2>1, <3>2, AuthWrites
    <3> QED BY <1>2, <1>6, <2>1, <3>1, <3>3, AuthGoes DEF Auth!WriteTemporary
  <2>2. CASE Auth!FsUnchanged /\ Auth!Goto("discard")
    BY <1>2, <1>6, <2>2, AuthSame, AuthGoes DEF Auth!WriteTemporary
  <2> QED BY <1>6, <2>1, <2>2 DEF Auth!WriteTemporary
<1>7. CASE Auth!Discard
  BY <1>2, <1>3, <1>7, AuthRemove, AuthErrs DEF Auth!Discard
<1>8. CASE Auth!Rename
  <2>1. CASE Auth!MoveIntoPlace /\ Auth!Goto("sync")
    <3>1. authDisk' = authDisk \cup {authDir'}
      BY <2>1 DEF Auth!MoveIntoPlace, Auth!SetDir
    <3>2. authDir.tmp = authProspective
      BY <1>8 DEF Auth!Rename, AuthInv, AuthMoves
    <3>3. AuthDirs' /\ authDir'.live = authProspective
      BY <1>2, <2>1, <3>2, AuthMoved
    <3>4. authDir'.live # Absent
      BY <1>2, <3>3, AuthFacts
    <3> QED BY <1>2, <1>8, <2>1, <3>1, <3>3, <3>4, AuthGoes DEF Auth!Rename
  <2> QED BY <1>3, <1>8, <2>1 DEF Auth!Rename
<1>9. CASE Auth!ModeAndSync
  <2>1. CASE Auth!SyncDir /\ authMem' = authProspective /\ authCaller' = "none"
             /\ authPc' = "idle" /\ UNCHANGED <<authProspective, authPoisoned>>
    <3>1. authDir.live = authProspective /\ authDir.live # Absent
      BY <1>2, <1>9, AuthFacts DEF Auth!ModeAndSync, AuthInv, AuthMoves
    <3>2. AuthRest'
      BY <1>2, <2>1, <3>1, AuthSynced, AuthParts
      DEF AuthRest, AuthFlags, AuthMoves, AuthFirstWrite, AuthReading
    <3> QED BY <2>1, <3>2, AuthSynced DEF AuthInv, AuthDirs, AuthRest, Auth!TypeOK, AuthEntries
  <2> QED BY <1>3, <1>9, <2>1 DEF Auth!ModeAndSync
<1> QED BY <1>4, <1>5, <1>6, <1>7, <1>8, <1>9 DEF Auth!PersistNext

LEMMA AuthStep == ASSUME AuthInv, [Auth!Next]_Auth!vars PROVE AuthInv'
<1> USE AuthFacts DEF AuthInv, Auth!TypeOK, Auth!Contents, AuthFlags, AuthLive, AuthMoves,
        AuthFirstWrite, AuthReading
<1>1. ASSUME NEW v \in Values, Auth!Commit(v) PROVE AuthInv'
  BY <1>1 DEF Auth!Commit, Auth!FsUnchanged
<1>2. CASE Auth!Kill
  BY <1>2 DEF Auth!Kill, Auth!Stop, Auth!FsUnchanged
<1>3. CASE Auth!PowerLoss
  BY <1>3 DEF Auth!PowerLoss, Auth!Stop
<1>4. CASE UNCHANGED Auth!vars
  BY <1>4 DEF Auth!vars
<1> QED BY <1>1, <1>2, <1>3, <1>4, AuthOpenKeeps, AuthPersistKeeps DEF Auth!Next

\* For every set of contents the authentication file keeps AuthInv.
THEOREM AuthenticationFileInvariant == Auth!Spec => []AuthInv
BY AuthStarts, AuthStep, PTL DEF Auth!Spec
-----------------------------------------------------------------------------
(* AuthFile implements AtomicCell *)

\* What a restart reads from a directory of the disk.
LEMMA AuthRecovers ==
  ASSUME AuthInv
  PROVE /\ \A d \in authDisk : Auth!Recovered(d) = IF d.live # Absent THEN d.live ELSE Default
        /\ Auth!Recoverable = {Auth!Recovered(d) : d \in authDisk}
        /\ Auth!Recovered(authDir) \in Auth!Recoverable
BY AuthFacts DEF AuthInv, AuthLive, Auth!Recovered, Auth!Recoverable

LEMMA AuthRecoversNext ==
  ASSUME AuthInv'
  PROVE /\ \A d \in authDisk' : Auth!Recovered(d) = IF d.live # Absent THEN d.live ELSE Default
        /\ Auth!Recoverable' = {Auth!Recovered(d) : d \in authDisk'}
BY AuthFileAssumption DEF AuthInv, AuthLive, Auth!Recovered, Auth!Recoverable,
   Auth!ContentAssumption

LEMMA AuthStatus ==
  ASSUME AuthInv
  PROVE /\ authPc = "down" \/ authCaller = "open" => Auth!Status = "down"
        /\ authPc = "idle" /\ authPoisoned => Auth!Status = "poisoned"
        /\ authPc = "idle" /\ ~authPoisoned => Auth!Status = "ready"
        /\ authCaller = "commit" => Auth!Status = "writing"
        /\ Auth!Attempted = IF Auth!Status = "writing" THEN authProspective ELSE Default
BY DEF AuthInv, Auth!TypeOK, AuthFlags, Auth!Status, Auth!Attempted

LEMMA AuthStatusNext ==
  ASSUME AuthInv'
  PROVE /\ authPc' = "down" \/ authCaller' = "open" => Auth!Status' = "down"
        /\ authPc' = "idle" /\ authPoisoned' => Auth!Status' = "poisoned"
        /\ authPc' = "idle" /\ ~authPoisoned' => Auth!Status' = "ready"
        /\ authCaller' = "commit" => Auth!Status' = "writing"
        /\ Auth!Attempted' = IF Auth!Status' = "writing" THEN authProspective' ELSE Default
BY DEF AuthInv, Auth!TypeOK, AuthFlags, Auth!Status, Auth!Attempted

LEMMA AuthRefinesStart == ASSUME Auth!Init PROVE Auth!Cell!Init
<1>1. AuthInv
  BY AuthStarts
<1>2. Auth!Status = "down" /\ Auth!Attempted = Default
  BY <1>1, AuthStatus DEF Auth!Init
<1>3. Auth!Recoverable = {Default}
  BY <1>1, AuthRecovers DEF Auth!Init
<1> QED BY <1>2, <1>3 DEF Auth!Init, Auth!Cell!Init

\* A directory that recovers to the same adds nothing to what a restart may read.
LEMMA AuthHarmless ==
  ASSUME AuthInv, AuthInv', authDisk' \in {authDisk, authDisk \cup {authDir'}},
         authDir' \in authDisk' \ authDisk =>
            Auth!Recovered(authDir') = Auth!Recovered(authDir)
  PROVE Auth!Recoverable' = Auth!Recoverable
BY AuthRecovers, AuthRecoversNext DEF AuthInv

LEMMA AuthFewer ==
  ASSUME AuthInv, AuthInv', authDisk' \subseteq authDisk
  PROVE Auth!Recoverable' \in (SUBSET Auth!Recoverable) \ {{}}
BY AuthRecovers, AuthRecoversNext DEF AuthInv

\* A step within open or commit that keeps what a restart may read.
LEMMA AuthInvisible ==
  ASSUME AuthInv, AuthInv', NEW l, Auth!Goto(l), authCaller # "none",
         Auth!Recoverable' = Auth!Recoverable
  PROVE [Auth!Cell!Next]_Auth!Cell!vars
<1>1. authCaller' = authCaller /\ authCaller \in {"open", "commit"}
  BY DEF Auth!Goto, AuthInv, Auth!TypeOK
<1>2. Auth!Status' = Auth!Status /\ Auth!Attempted' = Auth!Attempted
  BY <1>1, AuthStatus, AuthStatusNext DEF Auth!Goto
<1> QED BY <1>2 DEF Auth!Cell!vars, Auth!Goto

LEMMA AuthSettles ==
  ASSUME AuthInv, AuthInv', NEW l, Auth!Goto(l), authCaller # "none", Auth!SyncDir
  PROVE [Auth!Cell!Next]_Auth!Cell!vars
<1>1. authCaller' = authCaller /\ authCaller \in {"open", "commit"}
  BY DEF Auth!Goto, AuthInv, Auth!TypeOK
<1>2. Auth!Status' = Auth!Status /\ Auth!Attempted' = Auth!Attempted
  BY <1>1, AuthStatus, AuthStatusNext DEF Auth!Goto
<1>3. Auth!Recoverable' \in (SUBSET Auth!Recoverable) \ {{}}
  BY AuthFewer DEF Auth!SyncDir, AuthInv
<1> QED BY <1>2, <1>3 DEF Auth!Cell!Settle, Auth!Cell!Next, Auth!Goto

LEMMA AuthRefuses ==
  ASSUME AuthInv, AuthInv', Auth!ReturnError, authCaller # "none",
         Auth!Recoverable' = Auth!Recoverable
  PROVE [Auth!Cell!Next]_Auth!Cell!vars
<1>1. CASE authCaller = "open"
  <2>1. Auth!Status = "down" /\ Auth!Status' = "down"
    BY <1>1, AuthStatus, AuthStatusNext DEF Auth!ReturnError
  <2> QED BY <2>1, AuthStatus, AuthStatusNext DEF Auth!ReturnError, Auth!Cell!vars
<1>2. CASE authCaller = "commit"
  <2>1. Auth!Status = "writing" /\ Auth!Status' = "poisoned"
    BY <1>2, AuthStatus, AuthStatusNext DEF Auth!ReturnError
  <2> QED BY <2>1, AuthStatus, AuthStatusNext
          DEF Auth!ReturnError, Auth!Cell!Refuse, Auth!Cell!Next
<1> QED BY <1>1, <1>2 DEF AuthInv, Auth!TypeOK

LEMMA AuthFailsQuietly ==
  ASSUME AuthInv, AuthInv', Auth!FsUnchanged, Auth!ReturnError, authCaller # "none"
  PROVE [Auth!Cell!Next]_Auth!Cell!vars
BY AuthHarmless, AuthRefuses DEF Auth!FsUnchanged

\* The temporary file is nothing to a restart that finds a live one, or the default.
LEMMA AuthTemporary ==
  ASSUME AuthInv, AuthInv', authDir'.live = authDir.live,
         authDisk' = authDisk \cup {authDir'}
  PROVE Auth!Recoverable' = Auth!Recoverable
<1>1. Auth!Recovered(authDir') = Auth!Recovered(authDir)
  BY AuthRecovers, AuthRecoversNext DEF AuthInv
<1> QED BY <1>1, AuthHarmless

LEMMA AuthRefinesOpen ==
  ASSUME AuthInv, AuthInv', Auth!OpenNext
  PROVE [Auth!Cell!Next]_Auth!Cell!vars
<1>1. CASE Auth!Start
  <2>1. Auth!Status = "down" /\ Auth!Status' = "down"
    BY <1>1, AuthStatus, AuthStatusNext DEF Auth!Start
  <2>2. Auth!Recoverable' = Auth!Recoverable
    BY <1>1, AuthHarmless DEF Auth!Start, Auth!FsUnchanged
  <2> QED BY <1>1, <2>1, <2>2, AuthStatus, AuthStatusNext DEF Auth!Start, Auth!Cell!vars
<1> SUFFICES ASSUME ~Auth!Start PROVE [Auth!Cell!Next]_Auth!Cell!vars
  BY <1>1
<1>2. authCaller = "open" /\ authCaller # "none"
  BY DEF Auth!OpenNext, Auth!RecoverLive, Auth!RecoverPromote, Auth!RecoverSync,
         Auth!RecoverNothing, Auth!LoadExisting, Auth!LoadDefault, AuthInv, AuthFlags, AuthReading
<1>3. ASSUME NEW l, Auth!FsUnchanged, Auth!Goto(l) PROVE [Auth!Cell!Next]_Auth!Cell!vars
  BY <1>2, <1>3, AuthHarmless, AuthInvisible DEF Auth!FsUnchanged
<1>4. CASE Auth!RecoverLive
  <2>1. CASE Auth!RemoveTemporary /\ Auth!Goto("load")
    <3>1. Auth!Recoverable' = Auth!Recoverable
      BY <2>1, AuthRemove, AuthTemporary DEF Auth!RemoveTemporary, Auth!SetDir
    <3> QED BY <1>2, <2>1, <3>1, AuthInvisible
  <2> QED BY <1>2, <1>4, <2>1, AuthFailsQuietly DEF Auth!RecoverLive
<1>5. CASE Auth!RecoverPromote
  <2>1. CASE authDir.tmp # Torn /\ Auth!MoveIntoPlace /\ Auth!Goto("promoted")
    <3>1. authDir.tmp \in Values /\ authDir.live = Absent /\ authDir.tmp = Default
      BY <1>5, <2>1, AuthFacts DEF Auth!RecoverPromote, Auth!Contents, AuthInv, AuthLive
    <3>2. authDir'.live = Default /\ authDisk' = authDisk \cup {authDir'}
      BY <2>1, <3>1, AuthMoved DEF Auth!MoveIntoPlace, Auth!SetDir
    <3>3. Auth!Recovered(authDir') = Auth!Recovered(authDir)
      BY <3>1, <3>2, AuthRecovers, AuthRecoversNext, AuthFacts DEF AuthInv
    <3> QED BY <1>2, <2>1, <3>2, <3>3, AuthHarmless, AuthInvisible
  <2> QED BY <1>2, <1>5, <2>1, AuthFailsQuietly DEF Auth!RecoverPromote
<1>6. CASE Auth!RecoverSync
  BY <1>2, <1>6, AuthSettles, AuthFailsQuietly DEF Auth!RecoverSync
<1>7. CASE Auth!RecoverNothing
  BY <1>3, <1>7 DEF Auth!RecoverNothing
<1>8. CASE Auth!LoadExisting
  <2>1. authDir.live # Torn
    BY AuthFacts
  <2>2. Auth!Status = "down" /\ Auth!Status' = "ready"
    BY <1>2, <1>8, <2>1, AuthStatus, AuthStatusNext
    DEF Auth!LoadExisting, AuthInv, AuthFlags
  <2>3. Auth!Recoverable' = Auth!Recoverable /\ authMem' \in Auth!Recoverable
    BY <1>8, <2>1, AuthHarmless, AuthRecovers DEF Auth!LoadExisting, Auth!FsUnchanged, AuthInv
  <2> QED BY <2>2, <2>3, AuthStatus, AuthStatusNext DEF Auth!Cell!Open, Auth!Cell!Next
<1>9. CASE Auth!LoadDefault
  <2>1. Auth!Status = "down" /\ Auth!Status' = "down"
    BY <1>2, <1>9, AuthStatus, AuthStatusNext DEF Auth!LoadDefault
  <2>2. Auth!Recoverable' = Auth!Recoverable
    BY <1>9, AuthHarmless DEF Auth!LoadDefault, Auth!FsUnchanged
  <2> QED BY <1>9, <2>1, <2>2, AuthStatus, AuthStatusNext DEF Auth!LoadDefault, Auth!Cell!vars
<1> QED BY <1>4, <1>5, <1>6, <1>7, <1>8, <1>9 DEF Auth!OpenNext

LEMMA AuthRefinesPersist ==
  ASSUME AuthInv, AuthInv', Auth!PersistNext
  PROVE [Auth!Cell!Next]_Auth!Cell!vars
<1>1. authPc \in {"stale", "create", "write", "discard", "rename", "sync"}
  BY DEF Auth!PersistNext, Auth!RemoveStale, Auth!CreateTemporary, Auth!WriteTemporary,
         Auth!Discard, Auth!Rename, Auth!ModeAndSync
<1>2. authCaller \in {"open", "commit"} /\ authCaller # "none"
  BY <1>1, AuthFirst
<1>3. ASSUME NEW l, Auth!FsUnchanged, Auth!Goto(l) PROVE [Auth!Cell!Next]_Auth!Cell!vars
  BY <1>2, <1>3, AuthHarmless, AuthInvisible DEF Auth!FsUnchanged
<1>4. Auth!RemoveTemporary => Auth!Recoverable' = Auth!Recoverable
  BY AuthRemove, AuthTemporary DEF Auth!RemoveTemporary, Auth!SetDir
<1>5. ASSUME NEW v \in Values \cup {Torn}, NEW l,
             Auth!SetDir([authDir EXCEPT !.tmp = v]), Auth!Goto(l)
      PROVE [Auth!Cell!Next]_Auth!Cell!vars
  <2>1. authDir'.live = authDir.live /\ authDisk' = authDisk \cup {authDir'}
    BY <1>5, AuthFacts DEF Auth!SetDir
  <2> QED BY <1>2, <1>5, <2>1, AuthTemporary, AuthInvisible
<1>6. CASE Auth!RemoveStale
  BY <1>2, <1>4, <1>6, AuthInvisible, AuthFailsQuietly DEF Auth!RemoveStale
<1>7. CASE Auth!CreateTemporary
  BY <1>2, <1>5, <1>7, AuthFailsQuietly DEF Auth!CreateTemporary
<1>8. CASE Auth!WriteTemporary
  BY <1>3, <1>5, <1>8 DEF Auth!WriteTemporary, AuthInv, Auth!TypeOK
<1>9. CASE Auth!Discard
  BY <1>2, <1>4, <1>9, AuthRefuses, AuthFailsQuietly DEF Auth!Discard
<1>10. CASE Auth!Rename
  <2>1. CASE Auth!MoveIntoPlace /\ Auth!Goto("sync")
    <3>1. /\ authDir'.live = authProspective /\ authDir' \in authDisk'
          /\ authDisk' = authDisk \cup {authDir'} /\ authProspective \in Values
      BY <1>10, <2>1 DEF Auth!Rename, Auth!MoveIntoPlace, Auth!SetDir, AuthInv, AuthMoves,
         Auth!TypeOK
    <3>2. Auth!Recovered(authDir') = authProspective
      BY <3>1, AuthRecoversNext, AuthFacts
    <3>3. Auth!Recoverable' = Auth!Recoverable \cup {authProspective}
      BY <3>1, <3>2, AuthRecovers, AuthRecoversNext
    <3>4. CASE authCaller = "open"
      <4>1. authProspective = Auth!Recovered(authDir)
        BY <1>1, <3>4, AuthFirst, AuthRecovers DEF AuthInv
      <4> QED BY <1>2, <2>1, <3>3, <4>1, AuthRecovers, AuthInvisible
    <3>5. CASE authCaller = "commit"
      <4>1. Auth!Status = "writing" /\ Auth!Status' = "writing"
        BY <2>1, <3>5, AuthStatus, AuthStatusNext DEF Auth!Goto
      <4> QED BY <2>1, <3>3, <4>1, AuthStatus, AuthStatusNext
              DEF Auth!Goto, Auth!Cell!Expose, Auth!Cell!Next
    <3> QED BY <1>2, <3>4, <3>5
  <2> QED BY <1>2, <1>10, <2>1, AuthFailsQuietly DEF Auth!Rename
<1>11. CASE Auth!ModeAndSync
  <2>1. CASE Auth!SyncDir /\ authMem' = authProspective /\ authCaller' = "none"
             /\ authPc' = "idle" /\ UNCHANGED <<authProspective, authPoisoned>>
    <3>1. /\ authDir.live = authProspective /\ authProspective \in Values
          /\ authPoisoned' = FALSE /\ authDir \in authDisk /\ authDisk' = {authDir}
      BY <1>11, <2>1 DEF Auth!ModeAndSync, Auth!SyncDir, AuthInv, AuthMoves, AuthFlags, Auth!TypeOK
    <3>2. Auth!Recovered(authDir) = authProspective
      BY <3>1, AuthRecovers, AuthFacts
    <3>3. authProspective \in Auth!Recoverable /\ Auth!Recoverable' = {authProspective}
      BY <3>1, <3>2, AuthRecovers, AuthRecoversNext
    <3>4. Auth!Status' = "ready"
      BY <2>1, <3>1, AuthStatusNext
    <3>5. CASE authCaller = "open"
      <4>1. Auth!Recoverable = {authProspective}
        BY <1>1, <3>3, <3>5, AuthFirst, AuthRecovers
      <4>2. Auth!Status = "down"
        BY <3>5, AuthStatus
      <4> QED BY <2>1, <3>3, <3>4, <4>1, <4>2, AuthStatus, AuthStatusNext
              DEF Auth!Cell!Open, Auth!Cell!Next
    <3>6. CASE authCaller = "commit"
      <4>1. Auth!Status = "writing"
        BY <3>6, AuthStatus
      <4> QED BY <2>1, <3>3, <3>4, <4>1, AuthStatus, AuthStatusNext
              DEF Auth!Cell!Commit, Auth!Cell!Next
    <3> QED BY <1>2, <3>5, <3>6
  <2> QED BY <1>2, <1>11, <2>1, AuthFailsQuietly DEF Auth!ModeAndSync
<1> QED BY <1>6, <1>7, <1>8, <1>9, <1>10, <1>11 DEF Auth!PersistNext

\* AuthStore's file is one atomic cell too: a restart reads the state last acknowledged,
\* or one whose commit was never answered.
THEOREM AuthenticationFileRefinement == Auth!Spec => Auth!ImplementsAtomicCell
<1>1. ASSUME AuthInv, AuthInv', [Auth!Next]_Auth!vars PROVE [Auth!Cell!Next]_Auth!Cell!vars
  <2>1. ASSUME NEW v \in Values, Auth!Commit(v) PROVE Auth!Cell!Next
    <3>1. Auth!Status = "ready" /\ Auth!Status' = "writing"
      BY <1>1, <2>1, AuthStatus, AuthStatusNext DEF Auth!Commit
    <3>2. Auth!Recoverable' = Auth!Recoverable
      BY <1>1, <2>1, AuthHarmless DEF Auth!Commit, Auth!FsUnchanged
    <3>3. Auth!Cell!Attempt(v)
      BY <1>1, <2>1, <3>1, <3>2, AuthStatus, AuthStatusNext DEF Auth!Commit, Auth!Cell!Attempt
    <3> QED BY <3>3 DEF Auth!Cell!Next
  <2>2. CASE Auth!Kill \/ Auth!PowerLoss
    <3>1. authDisk' \subseteq authDisk /\ authPc' = "down" /\ authMem' = authMem
      BY <2>2 DEF Auth!Kill, Auth!PowerLoss, Auth!Stop, Auth!FsUnchanged
    <3>2. Auth!Status' = "down" /\ Auth!Attempted' = Default
      BY <1>1, <3>1, AuthStatusNext
    <3>3. Auth!Cell!Stop
      BY <1>1, <3>1, <3>2, AuthFewer DEF Auth!Cell!Stop
    <3> QED BY <3>3 DEF Auth!Cell!Next
  <2>3. CASE UNCHANGED Auth!vars
    BY <2>3 DEF Auth!vars, Auth!Cell!vars, Auth!Status, Auth!Attempted, Auth!Recoverable,
       Auth!Recovered
  <2> QED BY <1>1, <2>1, <2>2, <2>3, AuthRefinesOpen, AuthRefinesPersist DEF Auth!Next
<1> QED BY <1>1, AuthRefinesStart, AuthenticationFileInvariant, PTL
        DEF Auth!Spec, Auth!ImplementsAtomicCell, Auth!Cell!Spec
-----------------------------------------------------------------------------
(* VaultFile: the inductive invariant *)

\* What recovery reads parses, and the live file is what was written to the temporary one.
VaultDirs == /\ vaultDir \in vaultDisk
             /\ \A d \in vaultDisk : d.live # Torn /\ d.bak # Torn
             /\ vaultPc = "rename" => vaultDir.tmp = envelope
             /\ vaultPc \in {"sync", "publish"} => vaultDir.live = envelope

\* What an operation needs is there until it has used it.
VaultAsks == /\ vaultPc \in Vault!Persisting \cup {"publish"} => envelope # Absent
             /\ vaultPc = "recover" /\ ask.op \in {"edit", "backup"} => envelope # Absent
             /\ vaultPc \in {"recover", "read"} =>
                   /\ ask.op = "initialize" => ask.pass # Absent
                   /\ ask.op = "change" => ask.to # Absent
                   /\ ask.op = "restore" => vaultCopy # Absent

VaultInv == Vault!TypeOK /\ VaultDirs /\ VaultAsks

\* VaultInv in two halves: the directories, and the operation in progress.
VaultDisk == /\ vaultDisk \in SUBSET Vault!Directories
             /\ vaultDir \in vaultDisk
             /\ \A d \in vaultDisk : d.live # Torn /\ d.bak # Torn

VaultCalls == [op : {"none", "initialize", "unlock", "change", "edit", "backup", "restore"},
               pass : Passphrases \cup {Absent}, to : Passphrases \cup {Absent}, data : Data]

VaultRest == /\ vaultMem \in Vault!Envelopes \cup {Locked}
             /\ ask \in VaultCalls
             /\ envelope \in Vault!Envelopes \cup {Absent}
             /\ vaultPc \in {"idle", "recover", "read", "publish"} \cup Vault!Persisting
             /\ minted \in 0..MaxKeys
             /\ vaultCopy \in Vault!Envelopes \cup {Absent}
             /\ calls \in 0..MaxCalls /\ vaultFailures \in 0..MaxFailures
             /\ vaultPc = "rename" => vaultDir.tmp = envelope
             /\ vaultPc \in {"sync", "publish"} => vaultDir.live = envelope
             /\ VaultAsks

LEMMA VaultParts == VaultInv <=> vaultDir \in Vault!Directories /\ VaultDisk /\ VaultRest
BY DEF VaultInv, VaultDirs, VaultDisk, VaultRest, VaultCalls, Vault!TypeOK

LEMMA VaultPartsNext == VaultDisk' /\ VaultRest' => VaultInv'
BY DEF VaultInv, VaultDirs, VaultDisk, VaultRest, VaultCalls, Vault!TypeOK

LEMMA VaultFacts ==
  ASSUME VaultInv
  PROVE /\ VaultDisk /\ VaultRest
        /\ vaultDir \in [live : Vault!Contents, tmp : Vault!Contents, bak : Vault!Contents]
        /\ vaultDir.live \in Vault!Envelopes \cup {Absent}
        /\ vaultDir.bak \in Vault!Envelopes \cup {Absent}
        /\ Absent # Torn /\ Absent # Locked /\ Absent \notin Passphrases
        /\ Empty \in Data /\ MaxKeys \in Nat \ {0} /\ MaxCalls \in Nat /\ MaxFailures \in Nat
        /\ Absent \notin Vault!Envelopes /\ Torn \notin Vault!Envelopes
        /\ Locked \notin Vault!Envelopes
BY VaultFileAssumption, VaultParts
DEF Vault!Directories, Vault!Contents, VaultDisk, Vault!VaultAssumption, Vault!Envelopes

LEMMA VaultSame ==
  ASSUME VaultInv, Vault!FsUnchanged
  PROVE VaultDisk' /\ vaultDir' = vaultDir /\ vaultDisk' = vaultDisk
BY VaultFacts DEF Vault!FsUnchanged, VaultDisk

LEMMA VaultSetDir ==
  ASSUME VaultInv, NEW d \in Vault!Directories, Vault!SetDir(d), d.live # Torn, d.bak # Torn
  PROVE VaultDisk' /\ vaultDir' = d /\ vaultDisk' = vaultDisk \cup {d}
BY VaultFacts DEF Vault!SetDir, VaultDisk

\* The steps of the protocol change the entries that they name.
LEMMA VaultEntries ==
  ASSUME VaultInv
  PROVE /\ Vault!SetDir([vaultDir EXCEPT !.live = vaultDir.bak, !.bak = Absent]) =>
             /\ VaultDisk' /\ vaultDisk' = vaultDisk \cup {vaultDir'}
             /\ vaultDir'.live = vaultDir.bak /\ vaultDir'.bak = Absent
        /\ Vault!SetDir([vaultDir EXCEPT !.bak = Absent]) =>
             /\ VaultDisk' /\ vaultDisk' = vaultDisk \cup {vaultDir'}
             /\ vaultDir'.live = vaultDir.live /\ vaultDir'.bak = Absent
        /\ \A v \in Vault!Contents : Vault!SetDir([vaultDir EXCEPT !.tmp = v]) =>
             /\ VaultDisk' /\ vaultDisk' = vaultDisk \cup {vaultDir'}
             /\ vaultDir'.live = vaultDir.live /\ vaultDir'.bak = vaultDir.bak
             /\ vaultDir'.tmp = v
        /\ vaultDir.tmp # Torn /\ Vault!SetDir([vaultDir EXCEPT !.live = vaultDir.tmp, !.tmp = Absent]) =>
             /\ VaultDisk' /\ vaultDisk' = vaultDisk \cup {vaultDir'}
             /\ vaultDir'.live = vaultDir.tmp /\ vaultDir'.bak = vaultDir.bak
<1> DEFINE back == [vaultDir EXCEPT !.live = vaultDir.bak, !.bak = Absent]
           drop == [vaultDir EXCEPT !.bak = Absent]
           move == [vaultDir EXCEPT !.live = vaultDir.tmp, !.tmp = Absent]
<1>1. Absent \in Vault!Contents /\ vaultDir.live # Torn /\ vaultDir.bak # Torn
  BY VaultFacts DEF Vault!Contents
<1>2. /\ back \in Vault!Directories /\ back.live = vaultDir.bak /\ back.bak = Absent
      /\ drop \in Vault!Directories /\ drop.live = vaultDir.live /\ drop.bak = Absent
      /\ move \in Vault!Directories /\ move.live = vaultDir.tmp /\ move.bak = vaultDir.bak
  BY <1>1, VaultFacts DEF Vault!Directories
<1>3. Absent # Torn
  BY VaultFacts
<1>4. Vault!SetDir(back) => /\ VaultDisk' /\ vaultDisk' = vaultDisk \cup {vaultDir'}
                            /\ vaultDir'.live = vaultDir.bak /\ vaultDir'.bak = Absent
  <2> HIDE DEF back
  <2> QED BY <1>1, <1>2, <1>3, VaultSetDir
<1>5. Vault!SetDir(drop) => /\ VaultDisk' /\ vaultDisk' = vaultDisk \cup {vaultDir'}
                            /\ vaultDir'.live = vaultDir.live /\ vaultDir'.bak = Absent
  <2> HIDE DEF drop
  <2> QED BY <1>1, <1>2, <1>3, VaultSetDir
<1>6. vaultDir.tmp # Torn /\ Vault!SetDir(move) =>
         /\ VaultDisk' /\ vaultDisk' = vaultDisk \cup {vaultDir'}
         /\ vaultDir'.live = vaultDir.tmp /\ vaultDir'.bak = vaultDir.bak
  <2> HIDE DEF move
  <2> QED BY <1>1, <1>2, <1>3, VaultSetDir
<1>7. ASSUME NEW v \in Vault!Contents, Vault!SetDir([vaultDir EXCEPT !.tmp = v])
      PROVE /\ VaultDisk' /\ vaultDisk' = vaultDisk \cup {vaultDir'}
            /\ vaultDir'.live = vaultDir.live /\ vaultDir'.bak = vaultDir.bak
            /\ vaultDir'.tmp = v
  <2> DEFINE d == [vaultDir EXCEPT !.tmp = v]
  <2>1. /\ d \in Vault!Directories /\ d.live = vaultDir.live /\ d.bak = vaultDir.bak
        /\ d.tmp = v
    BY <1>1, VaultFacts DEF Vault!Directories
  <2>2. Vault!SetDir(d)
    BY <1>7
  <2> HIDE DEF d
  <2> QED BY <1>1, <2>1, <2>2, VaultSetDir
<1> QED BY <1>4, <1>5, <1>6, <1>7

LEMMA VaultStarts == ASSUME Vault!Init PROVE VaultInv
<1>1. /\ Absent # Torn /\ Absent # Locked /\ Absent \notin Passphrases
      /\ Empty \in Data /\ MaxKeys \in Nat \ {0} /\ MaxCalls \in Nat /\ MaxFailures \in Nat
      /\ Torn \notin Vault!Envelopes
  BY VaultFileAssumption DEF Vault!VaultAssumption, Vault!Envelopes
<1>2. ASSUME NEW p \in Passphrases
      PROVE /\ [data |-> Empty, pass |-> p, key |-> 0] \in Vault!Envelopes
            /\ [[data |-> Empty, pass |-> p, key |-> 0] EXCEPT !.key = 1] \in Vault!Envelopes
  BY <1>1 DEF Vault!Envelopes
<1>3. /\ vaultDir \in Vault!Directories /\ vaultDir.live # Torn /\ vaultDir.bak # Torn
  <2>1. PICK p \in Passphrases :
          LET old == [data |-> Empty, pass |-> p, key |-> 0]
              first == [old EXCEPT !.key = 1]
          IN vaultDir \in {[live |-> Absent, tmp |-> Absent, bak |-> Absent],
                           [live |-> old, tmp |-> Absent, bak |-> Absent],
                           [live |-> Absent, tmp |-> Torn, bak |-> old],
                           [live |-> first, tmp |-> Absent, bak |-> old]}
    BY DEF Vault!Init
  <2> DEFINE old == [data |-> Empty, pass |-> p, key |-> 0]
             first == [old EXCEPT !.key = 1]
  <2>2. old \in Vault!Envelopes /\ first \in Vault!Envelopes
    BY <1>2
  <2>3. vaultDir \in {[live |-> Absent, tmp |-> Absent, bak |-> Absent],
                      [live |-> old, tmp |-> Absent, bak |-> Absent],
                      [live |-> Absent, tmp |-> Torn, bak |-> old],
                      [live |-> first, tmp |-> Absent, bak |-> old]}
    BY <2>1
  <2> HIDE DEF old, first
  <2> QED BY <1>1, <2>2, <2>3 DEF Vault!Directories, Vault!Contents
<1>4. vaultDisk = {vaultDir}
  BY DEF Vault!Init
<1>5. VaultDisk
  BY <1>3, <1>4 DEF VaultDisk
<1>6. VaultRest
  BY <1>1 DEF Vault!Init, VaultRest, VaultAsks, VaultCalls, Vault!NoCall, Vault!Persisting
<1> QED BY <1>3, <1>5, <1>6, VaultParts

\* An operation goes on.
LEMMA VaultGoes ==
  ASSUME VaultInv, VaultDisk', NEW l \in {"read", "publish"} \cup Vault!Persisting, Vault!Goto(l),
         l = "read" => vaultPc = "recover",
         l # "read" => envelope # Absent,
         l = "rename" => vaultDir'.tmp = envelope,
         l \in {"sync", "publish"} => vaultDir'.live = envelope
  PROVE VaultInv'
<1>1. VaultRest'
  BY VaultFacts DEF VaultRest, VaultAsks, Vault!Goto, Vault!Working, Vault!Persisting
<1> QED BY <1>1, VaultPartsNext

\* An operation ends.
LEMMA VaultEnds ==
  ASSUME VaultInv, VaultDisk', Vault!Return, vaultMem' \in Vault!Envelopes \cup {Locked},
         UNCHANGED <<minted, calls>>, vaultFailures' \in 0..MaxFailures,
         vaultCopy' \in Vault!Envelopes \cup {Absent}
  PROVE VaultInv'
<1>1. Vault!NoCall \in VaultCalls /\ Vault!NoCall.op = "none"
  BY VaultFacts DEF Vault!NoCall, VaultCalls
<1>2. VaultRest'
  BY <1>1, VaultFacts DEF VaultRest, VaultAsks, Vault!Return, Vault!Persisting
<1> QED BY <1>2, VaultPartsNext

LEMMA VaultFails == ASSUME VaultInv, Vault!Fails PROVE VaultInv'
<1>1. vaultFailures' \in 0..MaxFailures
  BY VaultFacts DEF Vault!Fails, VaultRest
<1>2. /\ Vault!Return /\ UNCHANGED <<minted, vaultCopy, calls>> /\ Vault!FsUnchanged
      /\ vaultMem' \in {vaultMem, Locked}
  BY DEF Vault!Fails, Vault!ReturnError
<1> QED BY <1>1, <1>2, VaultFacts, VaultSame, VaultEnds DEF VaultRest

\* Recovery puts the old copy back or drops it: what a restart reads stays.
LEMMA VaultRecovers ==
  ASSUME VaultInv, NEW l, NEW n, Vault!Recover(l, n)
  PROVE /\ vaultPc = l
        /\ \/ Vault!Fails
           \/ /\ Vault!Goto(n) /\ VaultDisk'
              /\ vaultDisk' \in {vaultDisk, vaultDisk \cup {vaultDir'}}
              /\ \/ vaultDir' = vaultDir
                 \/ vaultDir.live # Absent /\ vaultDir'.live = vaultDir.live
                 \/ /\ vaultDir.live = Absent /\ vaultDir'.live = vaultDir.bak
                    /\ vaultDir.bak # Absent
<1>1. CASE Vault!FsUnchanged
  BY <1>1, VaultSame DEF Vault!Recover
<1>2. CASE Vault!SetDir([vaultDir EXCEPT !.live = vaultDir.bak, !.bak = Absent])
           /\ vaultDir.live = Absent /\ vaultDir.bak # Absent
  BY <1>2, VaultEntries DEF Vault!Recover
<1>3. CASE Vault!SetDir([vaultDir EXCEPT !.bak = Absent]) /\ vaultDir.live # Absent
  BY <1>3, VaultEntries DEF Vault!Recover
<1> QED BY <1>1, <1>2, <1>3 DEF Vault!Recover, Vault!Fails

LEMMA VaultRecoveryKeeps ==
  ASSUME VaultInv, Vault!RecoverFirst \/ Vault!RecoverAgain
  PROVE VaultInv'
<1>1. CASE ask.op \notin {"edit", "backup"} /\ Vault!Recover("recover", "read")
  BY <1>1, VaultRecovers, VaultFails, VaultGoes
<1>2. CASE ask.op \in {"edit", "backup"} /\ Vault!Recover("recover", "create")
  <2>1. vaultPc = "recover" /\ envelope # Absent
    BY <1>2, VaultRecovers, VaultFacts DEF VaultRest, VaultAsks
  <2> QED BY <1>2, <2>1, VaultRecovers, VaultFails, VaultGoes DEF Vault!Persisting
<1>3. CASE Vault!RecoverAgain
  <2>1. vaultPc = "again" /\ envelope # Absent
    BY <1>3, VaultRecovers, VaultFacts
    DEF Vault!RecoverAgain, VaultRest, VaultAsks, Vault!Persisting
  <2> QED BY <1>3, <2>1, VaultRecovers, VaultFails, VaultGoes
          DEF Vault!RecoverAgain, Vault!Persisting
<1> QED BY <1>1, <1>2, <1>3 DEF Vault!RecoverFirst

\* An operation begins with what it needs.
LEMMA VaultBegins ==
  ASSUME VaultInv, NEW c \in VaultCalls, ask' = c, vaultPc' = "recover", Vault!Called,
         Vault!FsUnchanged, UNCHANGED <<vaultMem, minted, vaultCopy>>,
         envelope' \in Vault!Envelopes \cup {Absent},
         c.op \in {"edit", "backup"} => envelope' # Absent,
         c.op = "initialize" => c.pass # Absent,
         c.op = "change" => c.to # Absent,
         c.op = "restore" => vaultCopy # Absent
  PROVE VaultInv'
<1>1. calls' \in 0..MaxCalls /\ vaultFailures' = vaultFailures
  BY VaultFacts DEF Vault!Called, VaultRest
<1>2. VaultRest'
  BY <1>1, VaultFacts DEF VaultRest, VaultAsks, Vault!Persisting
<1> QED BY <1>2, VaultSame, VaultPartsNext

LEMMA VaultCallsKeep == ASSUME VaultInv, Vault!Calls PROVE VaultInv'
<1> USE DEF Vault!Begin
<1>1. /\ vaultMem \in Vault!Envelopes \cup {Locked}
      /\ envelope \in Vault!Envelopes \cup {Absent} /\ Absent \notin Passphrases
      /\ Empty \in Data /\ Absent \notin Vault!Envelopes
  BY VaultFacts DEF VaultRest
<1>2. ASSUME NEW p \in Passphrases, Vault!Initialize(p) PROVE VaultInv'
  <2> DEFINE c == [Vault!NoCall EXCEPT !.op = "initialize", !.pass = p]
  <2>1. c \in VaultCalls /\ c.op = "initialize" /\ c.pass = p
    BY <1>1 DEF VaultCalls, Vault!NoCall
  <2>2. Vault!Begin(c)
    BY <1>2 DEF Vault!Initialize
  <2> HIDE DEF c
  <2> QED BY <1>1, <2>1, <2>2, VaultBegins
<1>3. ASSUME NEW p \in Passphrases, Vault!Unlock(p) PROVE VaultInv'
  <2> DEFINE c == [Vault!NoCall EXCEPT !.op = "unlock", !.pass = p]
  <2>1. c \in VaultCalls /\ c.op = "unlock"
    BY <1>1 DEF VaultCalls, Vault!NoCall
  <2>2. Vault!Begin(c)
    BY <1>3 DEF Vault!Unlock
  <2> HIDE DEF c
  <2> QED BY <1>1, <2>1, <2>2, VaultBegins
<1>4. ASSUME NEW p \in Passphrases, NEW q \in Passphrases, Vault!ChangePassphrase(p, q)
      PROVE VaultInv'
  <2> DEFINE c == [Vault!NoCall EXCEPT !.op = "change", !.pass = p, !.to = q]
  <2>1. c \in VaultCalls /\ c.op = "change" /\ c.to = q
    BY <1>1 DEF VaultCalls, Vault!NoCall
  <2>2. Vault!Begin(c)
    BY <1>4 DEF Vault!ChangePassphrase
  <2> HIDE DEF c
  <2> QED BY <1>1, <2>1, <2>2, VaultBegins
<1>5. ASSUME NEW d \in Data, Vault!Edit(d) PROVE VaultInv'
  <2> DEFINE c == [Vault!NoCall EXCEPT !.op = "edit"]
  <2>1. c \in VaultCalls /\ c.op = "edit"
    BY <1>1 DEF VaultCalls, Vault!NoCall
  <2>2. /\ ask' = c /\ vaultPc' = "recover" /\ Vault!Called /\ Vault!FsUnchanged
        /\ UNCHANGED <<vaultMem, minted, vaultCopy>>
    BY <1>5 DEF Vault!Edit
  <2>3. envelope' \in Vault!Envelopes
    BY <1>1, <1>5 DEF Vault!Edit, Vault!Envelopes
  <2> HIDE DEF c
  <2> QED BY <1>1, <2>1, <2>2, <2>3, VaultBegins
<1>6. ASSUME Vault!Backup PROVE VaultInv'
  <2> DEFINE c == [Vault!NoCall EXCEPT !.op = "backup"]
  <2>1. c \in VaultCalls /\ c.op = "backup"
    BY <1>1 DEF VaultCalls, Vault!NoCall
  <2>2. /\ ask' = c /\ vaultPc' = "recover" /\ Vault!Called /\ Vault!FsUnchanged
        /\ UNCHANGED <<vaultMem, minted, vaultCopy>>
    BY <1>6 DEF Vault!Backup
  <2>3. envelope' \in Vault!Envelopes
    BY <1>1, <1>6 DEF Vault!Backup
  <2> HIDE DEF c
  <2> QED BY <1>1, <2>1, <2>2, <2>3, VaultBegins
<1>7. ASSUME NEW p \in Passphrases, NEW d \in Data, Vault!Restore(p, d) PROVE VaultInv'
  <2> DEFINE c == [Vault!NoCall EXCEPT !.op = "restore", !.pass = p, !.data = d]
  <2>1. c \in VaultCalls /\ c.op = "restore"
    BY <1>1 DEF VaultCalls, Vault!NoCall
  <2>2. Vault!Begin(c) /\ vaultCopy # Absent
    BY <1>7 DEF Vault!Restore
  <2> HIDE DEF c
  <2> QED BY <1>1, <2>1, <2>2, VaultBegins
<1> QED BY <1>2, <1>3, <1>4, <1>5, <1>6, <1>7 DEF Vault!Calls

\* What Persist writes is a whole envelope.
LEMMA VaultPersists ==
  ASSUME VaultInv, vaultPc = "read", NEW e \in Vault!Envelopes, Vault!Persist(e),
         Vault!FsUnchanged, minted' \in 0..MaxKeys
  PROVE VaultInv'
<1>1. ask' \in VaultCalls /\ vaultPc' = "again" /\ envelope' = e /\ e # Absent
  BY VaultFacts DEF Vault!Persist, Vault!NoCall, VaultRest, VaultCalls
<1>2. VaultRest'
  BY <1>1, VaultFacts DEF VaultRest, VaultAsks, Vault!Persist, Vault!Working, Vault!Persisting
<1> QED BY <1>2, VaultSame, VaultPartsNext

\* A fresh key is one that an envelope may have.
LEMMA VaultMints ==
  ASSUME VaultInv, Vault!Mint
  PROVE /\ minted' \in 0..MaxKeys /\ minted + 1 \in 0..MaxKeys
        /\ \A e \in Vault!Envelopes : Vault!Fresh(e) \in Vault!Envelopes
<1>1. minted + 1 \in 0..MaxKeys /\ minted' = minted + 1
  BY VaultFacts DEF Vault!Mint, VaultRest
<1> QED BY <1>1 DEF Vault!Fresh, Vault!Envelopes

LEMMA VaultReadKeeps == ASSUME VaultInv, Vault!Read PROVE VaultInv'
<1>1. /\ vaultPc = "read" /\ Vault!FsUnchanged
      /\ vaultMem \in Vault!Envelopes \cup {Locked} /\ ask \in VaultCalls
      /\ vaultCopy \in Vault!Envelopes \cup {Absent} /\ minted \in 0..MaxKeys
      /\ vaultFailures \in 0..MaxFailures
      /\ ask.op = "initialize" => ask.pass # Absent
      /\ ask.op = "change" => ask.to # Absent
      /\ ask.op = "restore" => vaultCopy # Absent
      /\ ask.pass \in Passphrases \cup {Absent} /\ ask.to \in Passphrases \cup {Absent}
      /\ ask.data \in Data
  BY VaultFacts DEF Vault!Read, VaultRest, VaultAsks, VaultCalls
<1>2. Vault!Opened => vaultDir.live \in Vault!Envelopes
  BY VaultFacts DEF Vault!Opened
<1>3. CASE ask.op = "initialize" /\ Vault!Mint
           /\ Vault!Persist([data |-> Empty, pass |-> ask.pass, key |-> minted + 1])
  <2>1. [data |-> Empty, pass |-> ask.pass, key |-> minted + 1] \in Vault!Envelopes
    BY <1>1, <1>3, VaultMints, VaultFacts DEF Vault!Envelopes
  <2> QED BY <1>1, <1>3, <2>1, VaultMints, VaultPersists
<1>4. CASE Vault!Opened /\ vaultMem' = vaultDir.live /\ Vault!Return /\ Vault!Working
           /\ UNCHANGED <<minted, vaultCopy>>
  BY <1>1, <1>2, <1>4, VaultSame, VaultEnds DEF Vault!Working
<1>5. CASE Vault!Opened /\ Vault!Persist(Vault!Fresh(vaultDir.live)) /\ Vault!Mint
  BY <1>1, <1>2, <1>5, VaultMints, VaultPersists
<1>6. CASE ask.op = "change" /\ vaultMem # Locked /\ Vault!Mint
           /\ Vault!Persist(Vault!Fresh([vaultMem EXCEPT !.pass = ask.to]))
  <2>1. [vaultMem EXCEPT !.pass = ask.to] \in Vault!Envelopes
    BY <1>1, <1>6 DEF Vault!Envelopes
  <2> QED BY <1>1, <1>6, <2>1, VaultMints, VaultPersists
<1>7. CASE ask.op = "restore" /\ Vault!Persist([vaultCopy EXCEPT !.data = ask.data])
           /\ UNCHANGED minted
  <2>1. [vaultCopy EXCEPT !.data = ask.data] \in Vault!Envelopes
    BY <1>1, <1>7 DEF Vault!Envelopes
  <2> QED BY <1>1, <1>7, <2>1, VaultPersists
<1>8. CASE Vault!Refused
  <2>1. /\ vaultMem' \in {vaultMem, Locked} /\ Vault!Return
        /\ UNCHANGED <<minted, vaultCopy, calls, vaultFailures>>
    BY <1>8 DEF Vault!Refused, Vault!ReturnError
  <2> QED BY <1>1, <2>1, VaultSame, VaultEnds
<1> QED BY <1>3, <1>4, <1>5, <1>6, <1>7, <1>8 DEF Vault!Read

LEMMA VaultWritesKeep ==
  ASSUME VaultInv, Vault!CreateTemporary \/ Vault!WriteTemporary \/ Vault!Rename
                   \/ Vault!SyncDirectory \/ Vault!Publish
  PROVE VaultInv'
<1>1. /\ vaultPc \in {"create", "write", "rename", "sync", "publish"}
      /\ envelope \in Vault!Envelopes /\ envelope # Absent /\ envelope # Torn
      /\ envelope \in Vault!Contents /\ Torn \in Vault!Contents
      /\ vaultMem \in Vault!Envelopes \cup {Locked}
      /\ vaultCopy \in Vault!Envelopes \cup {Absent}
      /\ vaultFailures \in 0..MaxFailures
      /\ vaultPc = "rename" => vaultDir.tmp = envelope
      /\ vaultPc \in {"sync", "publish"} => vaultDir.live = envelope
  BY VaultFacts DEF Vault!CreateTemporary, Vault!WriteTemporary, Vault!Rename,
     Vault!SyncDirectory, Vault!Publish, VaultRest, VaultAsks, Vault!Persisting, Vault!Contents
<1>2. CASE Vault!CreateTemporary
  BY <1>1, <1>2, VaultEntries, VaultGoes, VaultFails DEF Vault!CreateTemporary, Vault!Persisting
<1>3. CASE Vault!WriteTemporary
  BY <1>1, <1>3, VaultEntries, VaultGoes, VaultFails DEF Vault!WriteTemporary, Vault!Persisting
<1>4. CASE Vault!Rename
  BY <1>1, <1>4, VaultEntries, VaultGoes, VaultFails DEF Vault!Rename, Vault!Persisting
<1>5. CASE Vault!SyncDirectory
  <2>1. CASE vaultDir' = vaultDir /\ vaultDisk' = {vaultDir} /\ Vault!Keep
    <3>1. VaultDisk'
      BY <2>1, VaultFacts DEF VaultDisk
    <3>2. CASE Vault!Goto("publish")
      BY <1>1, <1>5, <2>1, <3>1, <3>2, VaultGoes DEF Vault!SyncDirectory
    <3>3. CASE vaultMem' \in {envelope, Locked} /\ Vault!Return /\ Vault!Working
               /\ UNCHANGED <<minted, vaultCopy>>
      BY <1>1, <3>1, <3>3, VaultEnds DEF Vault!Working
    <3> QED BY <2>1, <3>2, <3>3 DEF Vault!Keep
  <2> QED BY <1>5, <2>1, VaultFails DEF Vault!SyncDirectory
<1>6. CASE Vault!Publish
  <2>1. vaultCopy' \in Vault!Envelopes \cup {Absent}
    BY <1>1, <1>6 DEF Vault!Publish
  <2> QED BY <1>1, <1>6, <2>1, VaultSame, VaultEnds DEF Vault!Publish, Vault!Working
<1> QED BY <1>2, <1>3, <1>4, <1>5, <1>6

LEMMA VaultStep == ASSUME VaultInv, [Vault!Next]_Vault!vars PROVE VaultInv'
<1>1. CASE Vault!Lock
  <2>1. VaultDisk' /\ vaultDir' = vaultDir
    BY <1>1, VaultSame DEF Vault!Lock
  <2>2. VaultRest'
    BY <1>1, <2>1, VaultFacts DEF Vault!Lock, VaultRest, VaultAsks, Vault!Working
  <2> QED BY <2>1, <2>2, VaultPartsNext
<1>2. ASSUME VaultDisk', Vault!Stop PROVE VaultInv'
  BY <1>2, VaultFacts, VaultEnds DEF Vault!Stop, Vault!Working, VaultRest
<1>3. CASE Vault!Kill
  BY <1>2, <1>3, VaultSame DEF Vault!Kill
<1>4. CASE Vault!PowerLoss
  <2>1. VaultDisk'
    BY <1>4, VaultFacts DEF Vault!PowerLoss, VaultDisk
  <2> QED BY <1>2, <1>4, <2>1 DEF Vault!PowerLoss
<1>5. CASE UNCHANGED Vault!vars
  <2>1. VaultDisk' /\ VaultRest'
    BY <1>5, VaultFacts DEF Vault!vars, VaultDisk, VaultRest, VaultAsks
  <2> QED BY <2>1, VaultPartsNext
<1> QED BY <1>1, <1>3, <1>4, <1>5, VaultCallsKeep, VaultRecoveryKeeps, VaultReadKeeps,
           VaultWritesKeep DEF Vault!Next

\* The Vault file, for every set of data and passphrases: see VaultInv.
THEOREM VaultFileInvariant == Vault!Spec => []VaultInv
BY VaultStarts, VaultStep, PTL DEF Vault!Spec
-----------------------------------------------------------------------------
(* VaultFile implements VaultCell *)

\* What the next unlock may read, and the write in progress, of the abstract cell.
VaultReads == {Vault!Recovered(d) : d \in vaultDisk}
VaultNext == IF vaultPc \in Vault!Persisting \cup {"create"} THEN envelope ELSE Absent
VaultStatus == IF vaultPc \in Vault!Persisting THEN "writing" ELSE "idle"

LEMMA VaultReadsFacts ==
  ASSUME VaultInv
  PROVE /\ Vault!Recovered(vaultDir) \in VaultReads
        /\ vaultDir.live # Absent => vaultDir.live \in VaultReads
        /\ \A d : Vault!Recovered(d) = IF d.live # Absent THEN d.live ELSE d.bak
BY VaultFacts DEF VaultReads, Vault!Recovered, VaultDisk

\* A directory that recovers to the same adds nothing to what a restart may read.
LEMMA VaultHarmless ==
  ASSUME VaultInv, vaultDisk' \in {vaultDisk, vaultDisk \cup {vaultDir'}},
         \/ vaultDir' = vaultDir
         \/ Vault!Recovered(vaultDir') = Vault!Recovered(vaultDir)
  PROVE VaultReads' = VaultReads
<1>1. VaultReads' = {Vault!Recovered(d) : d \in vaultDisk'}
  BY DEF VaultReads, Vault!Recovered
<1> QED BY <1>1, VaultReadsFacts DEF VaultReads

LEMMA VaultFewer ==
  ASSUME VaultInv, vaultDisk' \subseteq vaultDisk, vaultDisk' # {}
  PROVE VaultReads' \in (SUBSET VaultReads) \ {{}}
<1>1. VaultReads' = {Vault!Recovered(d) : d \in vaultDisk'}
  BY DEF VaultReads, Vault!Recovered
<1> QED BY <1>1 DEF VaultReads

\* The actions of the cell, in these terms.
LEMMA VaultCellActions ==
  /\ /\ UNCHANGED vaultMem /\ VaultNext' = VaultNext /\ VaultStatus' = VaultStatus
     /\ VaultReads' = VaultReads
     => UNCHANGED Vault!Cell!vars
  /\ /\ VaultStatus = "idle" /\ vaultMem' \in VaultReads \ {Absent}
     /\ VaultNext' = VaultNext /\ VaultStatus' = VaultStatus /\ VaultReads' = VaultReads
     => Vault!Cell!Next
  /\ \A v \in Vault!Envelopes :
        /\ VaultStatus = "idle" /\ VaultStatus' = "writing" /\ VaultNext' = v
        /\ UNCHANGED vaultMem /\ VaultReads' = VaultReads
        => Vault!Cell!Next
  /\ /\ VaultStatus = "writing" /\ VaultReads' = VaultReads \cup {VaultNext}
     /\ UNCHANGED vaultMem /\ VaultNext' = VaultNext /\ VaultStatus' = VaultStatus
     => Vault!Cell!Next
  /\ /\ VaultStatus = "writing" /\ VaultNext \in VaultReads /\ VaultReads' = {VaultNext}
     /\ vaultMem' \in {VaultNext, vaultMem, Locked} /\ VaultNext' = Absent
     /\ VaultStatus' = "idle"
     => Vault!Cell!Next
  /\ /\ VaultStatus = "writing" /\ vaultMem' \in {vaultMem, Locked} /\ VaultNext' = Absent
     /\ VaultStatus' = "idle" /\ VaultReads' = VaultReads
     => Vault!Cell!Next
  /\ /\ vaultMem' = Locked /\ VaultNext' = Absent /\ VaultStatus' = "idle"
     /\ VaultReads' \in (SUBSET VaultReads) \ {{}}
     => Vault!Cell!Next
<1>1. Vault!Cell!Next <=> \/ Vault!Cell!Unlock \/ (\E v \in Vault!Envelopes : Vault!Cell!Attempt(v))
                          \/ Vault!Cell!Expose \/ Vault!Cell!Settle \/ Vault!Cell!Commit
                          \/ Vault!Cell!Refuse \/ Vault!Cell!Close
  BY DEF Vault!Cell!Next
<1> USE <1>1 DEF VaultReads, VaultNext, VaultStatus
<1>2. /\ UNCHANGED vaultMem /\ VaultNext' = VaultNext /\ VaultStatus' = VaultStatus
      /\ VaultReads' = VaultReads
      => UNCHANGED Vault!Cell!vars
  BY DEF Vault!Cell!vars
<1>3. /\ VaultStatus = "idle" /\ vaultMem' \in VaultReads \ {Absent}
      /\ VaultNext' = VaultNext /\ VaultStatus' = VaultStatus /\ VaultReads' = VaultReads
      => Vault!Cell!Next
  BY DEF Vault!Cell!Unlock
<1>4. \A v \in Vault!Envelopes :
        /\ VaultStatus = "idle" /\ VaultStatus' = "writing" /\ VaultNext' = v
        /\ UNCHANGED vaultMem /\ VaultReads' = VaultReads
        => Vault!Cell!Next
  BY DEF Vault!Cell!Attempt
<1>5. /\ VaultStatus = "writing" /\ VaultReads' = VaultReads \cup {VaultNext}
      /\ UNCHANGED vaultMem /\ VaultNext' = VaultNext /\ VaultStatus' = VaultStatus
      => Vault!Cell!Next
  BY DEF Vault!Cell!Expose
<1>6. /\ VaultStatus = "writing" /\ VaultNext \in VaultReads /\ VaultReads' = {VaultNext}
      /\ vaultMem' \in {VaultNext, vaultMem, Locked} /\ VaultNext' = Absent
      /\ VaultStatus' = "idle"
      => Vault!Cell!Next
  BY DEF Vault!Cell!Commit
<1>7. /\ VaultStatus = "writing" /\ vaultMem' \in {vaultMem, Locked} /\ VaultNext' = Absent
      /\ VaultStatus' = "idle" /\ VaultReads' = VaultReads
      => Vault!Cell!Next
  BY DEF Vault!Cell!Refuse
<1>8. /\ vaultMem' = Locked /\ VaultNext' = Absent /\ VaultStatus' = "idle"
      /\ VaultReads' \in (SUBSET VaultReads) \ {{}}
      => Vault!Cell!Next
  BY DEF Vault!Cell!Close
<1> QED BY <1>2, <1>3, <1>4, <1>5, <1>6, <1>7, <1>8

\* A failed call is a refused write, or nothing.
LEMMA VaultFailure ==
  ASSUME VaultInv, Vault!FsUnchanged, Vault!ReturnError
  PROVE [Vault!Cell!Next]_Vault!Cell!vars
<1>1. VaultReads' = VaultReads
  BY VaultHarmless DEF Vault!FsUnchanged
<1>2. VaultNext' = Absent /\ VaultStatus' = "idle" /\ vaultMem' \in {vaultMem, Locked}
  BY DEF Vault!ReturnError, Vault!Return, VaultNext, VaultStatus, Vault!Persisting
<1>3. CASE vaultPc \in Vault!Persisting
  <2>1. VaultStatus = "writing"
    BY <1>3 DEF VaultStatus
  <2> QED BY <1>1, <1>2, <2>1, VaultCellActions
<1>4. CASE vaultPc \notin Vault!Persisting
  <2>1. VaultStatus = "idle" /\ VaultNext = Absent /\ vaultMem' = vaultMem
    BY <1>4 DEF VaultStatus, VaultNext, Vault!ReturnError, Vault!Persisting
  <2> QED BY <1>1, <1>2, <2>1, VaultCellActions
<1> QED BY <1>3, <1>4

LEMMA VaultRefinesRecovery ==
  ASSUME VaultInv, Vault!RecoverFirst \/ Vault!RecoverAgain
  PROVE [Vault!Cell!Next]_Vault!Cell!vars
<1>1. ASSUME NEW l, NEW n, Vault!Recover(l, n), ~Vault!Fails
      PROVE Vault!Goto(n) /\ vaultPc = l /\ VaultReads' = VaultReads
  <2>1. vaultPc = l /\ Vault!Goto(n) /\ vaultDisk' \in {vaultDisk, vaultDisk \cup {vaultDir'}}
    BY <1>1, VaultRecovers
  <2>2. vaultDir' = vaultDir \/ Vault!Recovered(vaultDir') = Vault!Recovered(vaultDir)
    BY <1>1, VaultRecovers, VaultReadsFacts
  <2> QED BY <2>1, <2>2, VaultHarmless
<1>2. CASE Vault!Fails
  BY <1>2, VaultFailure DEF Vault!Fails
<1>3. CASE ask.op \notin {"edit", "backup"} /\ Vault!Recover("recover", "read") /\ ~Vault!Fails
  <2>1. /\ Vault!Goto("read") /\ vaultPc = "recover" /\ VaultReads' = VaultReads
    BY <1>1, <1>3
  <2>2. VaultNext' = VaultNext /\ VaultStatus' = VaultStatus /\ UNCHANGED vaultMem
    BY <2>1 DEF Vault!Goto, VaultNext, VaultStatus, Vault!Persisting
  <2> QED BY <2>1, <2>2, VaultCellActions
<1>4. CASE ask.op \in {"edit", "backup"} /\ Vault!Recover("recover", "create") /\ ~Vault!Fails
  <2>1. /\ Vault!Goto("create") /\ vaultPc = "recover" /\ VaultReads' = VaultReads
    BY <1>1, <1>4
  <2>2. envelope \in Vault!Envelopes
    BY <1>4, <2>1, VaultFacts DEF VaultRest, VaultAsks
  <2>3. /\ VaultStatus = "idle" /\ VaultStatus' = "writing" /\ VaultNext' = envelope
        /\ UNCHANGED vaultMem
    BY <2>1 DEF Vault!Goto, VaultNext, VaultStatus, Vault!Persisting
  <2> QED BY <2>1, <2>2, <2>3, VaultCellActions
<1>5. CASE Vault!RecoverAgain /\ ~Vault!Fails
  <2>1. /\ Vault!Goto("create") /\ vaultPc = "again" /\ VaultReads' = VaultReads
    BY <1>1, <1>5 DEF Vault!RecoverAgain
  <2>2. VaultNext' = VaultNext /\ VaultStatus' = VaultStatus /\ UNCHANGED vaultMem
    BY <2>1 DEF Vault!Goto, VaultNext, VaultStatus, Vault!Persisting
  <2> QED BY <2>1, <2>2, VaultCellActions
<1> QED BY <1>2, <1>3, <1>4, <1>5 DEF Vault!RecoverFirst

LEMMA VaultRefinesRead == ASSUME VaultInv, Vault!Read PROVE [Vault!Cell!Next]_Vault!Cell!vars
<1>1. vaultPc = "read" /\ Vault!FsUnchanged
  BY DEF Vault!Read
<1>2. VaultReads' = VaultReads /\ VaultStatus = "idle" /\ VaultNext = Absent
  BY <1>1, VaultHarmless DEF Vault!FsUnchanged, VaultStatus, VaultNext, Vault!Persisting
<1>3. ASSUME NEW e, Vault!Persist(e) PROVE [Vault!Cell!Next]_Vault!Cell!vars
  <2>1. VaultInv'
    BY VaultReadKeeps
  <2>2. envelope' = e /\ vaultPc' = "again" /\ UNCHANGED vaultMem
    BY <1>3 DEF Vault!Persist
  <2>3. e \in Vault!Envelopes
    BY <2>1, <2>2 DEF VaultInv, Vault!TypeOK, VaultAsks, Vault!Persisting
  <2>4. VaultStatus' = "writing" /\ VaultNext' = e
    BY <2>2 DEF VaultStatus, VaultNext, Vault!Persisting
  <2> QED BY <1>2, <2>2, <2>3, <2>4, VaultCellActions
<1>4. CASE Vault!Opened /\ vaultMem' = vaultDir.live /\ Vault!Return
  <2>1. vaultMem' \in VaultReads \ {Absent}
    BY <1>4, VaultReadsFacts DEF Vault!Opened
  <2>2. VaultStatus' = "idle" /\ VaultNext' = Absent
    BY <1>4 DEF Vault!Return, VaultStatus, VaultNext, Vault!Persisting
  <2> QED BY <1>2, <2>1, <2>2, VaultCellActions
<1>5. CASE Vault!Refused
  BY <1>5, VaultFailure DEF Vault!Refused
<1> QED BY <1>3, <1>4, <1>5 DEF Vault!Read

LEMMA VaultRefinesWrites ==
  ASSUME VaultInv, Vault!CreateTemporary \/ Vault!WriteTemporary \/ Vault!Rename
                   \/ Vault!SyncDirectory \/ Vault!Publish
  PROVE [Vault!Cell!Next]_Vault!Cell!vars
<1>1. /\ vaultPc \in {"create", "write", "rename", "sync", "publish"}
      /\ envelope \in Vault!Envelopes /\ envelope # Absent /\ envelope # Torn
      /\ envelope \in Vault!Contents /\ Torn \in Vault!Contents
      /\ vaultPc = "rename" => vaultDir.tmp = envelope
      /\ vaultPc \in {"sync", "publish"} => vaultDir.live = envelope
  BY VaultFacts DEF Vault!CreateTemporary, Vault!WriteTemporary, Vault!Rename,
     Vault!SyncDirectory, Vault!Publish, VaultRest, VaultAsks, Vault!Persisting, Vault!Contents
<1>2. vaultPc # "publish" => VaultStatus = "writing" /\ VaultNext = envelope
  BY <1>1 DEF VaultStatus, VaultNext, Vault!Persisting
<1>3. Vault!Fails => [Vault!Cell!Next]_Vault!Cell!vars
  BY VaultFailure DEF Vault!Fails
<1>4. ASSUME NEW l \in Vault!Persisting, Vault!Goto(l), vaultPc # "publish"
      PROVE VaultStatus' = VaultStatus /\ VaultNext' = VaultNext /\ UNCHANGED vaultMem
  BY <1>2, <1>4 DEF Vault!Goto, VaultStatus, VaultNext
<1>5. ASSUME NEW v \in Vault!Contents, Vault!SetDir([vaultDir EXCEPT !.tmp = v])
      PROVE VaultReads' = VaultReads
  <2>1. /\ vaultDisk' = vaultDisk \cup {vaultDir'}
        /\ vaultDir'.live = vaultDir.live /\ vaultDir'.bak = vaultDir.bak
    BY <1>5, VaultEntries
  <2> QED BY <2>1, VaultReadsFacts, VaultHarmless
<1>6. CASE Vault!CreateTemporary
  BY <1>1, <1>3, <1>4, <1>5, <1>6, VaultCellActions DEF Vault!CreateTemporary, Vault!Persisting
<1>7. CASE Vault!WriteTemporary
  BY <1>1, <1>3, <1>4, <1>5, <1>7, VaultCellActions DEF Vault!WriteTemporary, Vault!Persisting
<1>8. CASE Vault!Rename
  <2>1. CASE Vault!SetDir([vaultDir EXCEPT !.live = vaultDir.tmp, !.tmp = Absent])
             /\ Vault!Goto("sync")
    <3>1. vaultDisk' = vaultDisk \cup {vaultDir'} /\ vaultDir'.live = envelope
      BY <1>1, <1>8, <2>1, VaultEntries DEF Vault!Rename
    <3>2. VaultReads' = VaultReads \cup {envelope}
      BY <1>1, <3>1 DEF VaultReads, Vault!Recovered
    <3>3. vaultPc # "publish"
      BY <1>8 DEF Vault!Rename
    <3>4. VaultStatus' = VaultStatus /\ VaultNext' = VaultNext /\ UNCHANGED vaultMem
      BY <1>4, <2>1, <3>3 DEF Vault!Persisting
    <3> QED BY <1>2, <3>2, <3>3, <3>4, VaultCellActions
  <2> QED BY <1>3, <1>8, <2>1 DEF Vault!Rename
<1>9. CASE Vault!SyncDirectory
  <2>1. CASE vaultDir' = vaultDir /\ vaultDisk' = {vaultDir} /\ Vault!Keep
    <3>1. vaultPc = "sync" /\ vaultDir.live = envelope
      BY <1>1, <1>9 DEF Vault!SyncDirectory
    <3>2. envelope \in VaultReads /\ VaultReads' = {envelope}
      BY <1>1, <2>1, <3>1, VaultReadsFacts DEF VaultReads, Vault!Recovered
    <3>3. /\ VaultStatus' = "idle" /\ VaultNext' = Absent
          /\ vaultMem' \in {envelope, vaultMem, Locked}
      BY <2>1 DEF Vault!Keep, Vault!Goto, Vault!Return, VaultStatus, VaultNext, Vault!Persisting
    <3> QED BY <1>2, <3>1, <3>2, <3>3, VaultCellActions
  <2> QED BY <1>3, <1>9, <2>1 DEF Vault!SyncDirectory
<1>10. CASE Vault!Publish
  <2>1. VaultReads' = VaultReads
    BY <1>10, VaultHarmless DEF Vault!Publish, Vault!FsUnchanged
  <2>2. VaultStatus' = VaultStatus /\ VaultNext' = VaultNext /\ UNCHANGED vaultMem
    BY <1>10 DEF Vault!Publish, Vault!Return, VaultStatus, VaultNext, Vault!Persisting
  <2> QED BY <2>1, <2>2, VaultCellActions
<1> QED BY <1>6, <1>7, <1>8, <1>9, <1>10

LEMMA VaultRefinesCalls == ASSUME VaultInv, Vault!Calls PROVE [Vault!Cell!Next]_Vault!Cell!vars
<1>1. vaultPc = "idle" /\ vaultPc' = "recover" /\ Vault!FsUnchanged /\ UNCHANGED vaultMem
  BY DEF Vault!Calls, Vault!Initialize, Vault!Unlock, Vault!ChangePassphrase, Vault!Edit,
         Vault!Backup, Vault!Restore, Vault!Begin
<1>2. VaultReads' = VaultReads
  BY <1>1, VaultHarmless DEF Vault!FsUnchanged
<1>3. VaultStatus' = VaultStatus /\ VaultNext' = VaultNext
  BY <1>1 DEF VaultStatus, VaultNext, Vault!Persisting
<1> QED BY <1>1, <1>2, <1>3, VaultCellActions

\* An unlock reads the Vault last acknowledged, whole, or one whose write was refused or
\* never answered, whatever failed and crashed.
THEOREM VaultFileRefinement == Vault!Spec => Vault!ImplementsVaultCell
<1>1. ASSUME VaultInv, [Vault!Next]_Vault!vars PROVE [Vault!Cell!Next]_Vault!Cell!vars
  <2>1. CASE Vault!Lock
    <3>1. VaultReads' = VaultReads /\ VaultReads # {}
      BY <1>1, <2>1, VaultHarmless, VaultReadsFacts DEF Vault!Lock, Vault!FsUnchanged
    <3>2. vaultMem' = Locked /\ VaultStatus' = "idle" /\ VaultNext' = Absent
      BY <2>1 DEF Vault!Lock, VaultStatus, VaultNext, Vault!Persisting
    <3> QED BY <3>1, <3>2, VaultCellActions
  <2>2. CASE Vault!Kill \/ Vault!PowerLoss
    <3>1. vaultDisk' \subseteq vaultDisk /\ vaultDisk' # {} /\ Vault!Stop
      BY <1>1, <2>2, VaultFacts
      DEF Vault!Kill, Vault!PowerLoss, Vault!FsUnchanged, VaultDisk
    <3>2. vaultMem' = Locked /\ VaultStatus' = "idle" /\ VaultNext' = Absent
      BY <3>1 DEF Vault!Stop, Vault!Return, VaultStatus, VaultNext, Vault!Persisting
    <3> QED BY <1>1, <3>1, <3>2, VaultFewer, VaultCellActions
  <2>3. CASE UNCHANGED Vault!vars
    BY <2>3, VaultCellActions DEF Vault!vars, VaultReads, VaultNext, VaultStatus, Vault!Recovered
  <2> QED BY <1>1, <2>1, <2>2, <2>3, VaultRefinesCalls, VaultRefinesRecovery,
             VaultRefinesRead, VaultRefinesWrites DEF Vault!Next
<1>2. Vault!Init => Vault!Cell!Init
  <2> SUFFICES ASSUME Vault!Init PROVE Vault!Cell!Init
    OBVIOUS
  <2>1. VaultInv /\ vaultDisk = {vaultDir}
    BY VaultStarts DEF Vault!Init
  <2>2. /\ VaultReads = {Vault!Recovered(vaultDir)}
        /\ Vault!Recovered(vaultDir) \in Vault!Envelopes \cup {Absent}
    BY <2>1, VaultReadsFacts, VaultFacts DEF VaultReads
  <2> QED BY <2>2 DEF Vault!Init, Vault!Cell!Init, VaultReads, Vault!Persisting
<1> QED BY <1>1, <1>2, VaultFileInvariant, PTL
        DEF Vault!Spec, Vault!ImplementsVaultCell, Vault!Cell!Spec

\* A behaviour of the bench is one of each part, or leaves it alone.
THEOREM FilesRunParts == FilesSpec => Auth!Spec /\ Vault!Spec
<1>1. FilesInit => Auth!Init /\ Vault!Init
  BY DEF FilesInit
<1>2. [FilesNext]_filesVars => [Auth!Next]_Auth!vars
  BY DEF FilesNext, filesVars, authVars, Auth!vars
<1>3. [FilesNext]_filesVars => [Vault!Next]_Vault!vars
  BY DEF FilesNext, filesVars, vaultVars, Vault!vars
<1> QED BY <1>1, <1>2, <1>3, PTL DEF FilesSpec, Auth!Spec, Vault!Spec

\* Both files promise what their cells do, through every crash and failed call.
THEOREM FilesAreCells == FilesSpec => FilesImplementCells
BY FilesRunParts, AuthenticationFileRefinement, VaultFileRefinement, PTL
DEF FilesImplementCells
-----------------------------------------------------------------------------
(* EnginePackages: the inductive invariant *)

EngineBusy == Engine!BusyWith(Engine!Exclusive \cup Engine!Shared)

\* A maintenance command runs alone, and with no browser.
EngineAlone ==
  /\ \A c \in Engine!BusyWith(Engine!Exclusive) : EngineBusy = {c}
  /\ Engine!BusyWith(Engine!Exclusive) # {} => browser = {}

\* What was found good stays so: the packages of a state are accepted, and a rollback
\* returns to another version.
Chosen(s) == /\ s.active # None => s.active \in accepted
             /\ s.previous # None => /\ s.previous.version # s.active.version
                                     /\ s.previous \in accepted

\* What a command under way has read and will write.
CommandHolds(k) ==
  /\ Engine!ValidState(k.adapter) /\ Chosen(k.adapter)
  /\ k.next # None => Engine!ValidState(k.next) /\ Chosen(k.next)
  /\ k.at # "loaded" => k.next # None /\ k.op # "launch"
  /\ k.op \in {"install", "update"} /\ ~camoufox => k.package # None
  /\ k.op = "disable" /\ k.next # None => k.next.disabled
  /\ k.op \in Engine!Exclusive /\ k.at = "sync" => engineDisk = k.next
  /\ killed => /\ k.op # "enable" /\ k.adapter.disabled
               /\ k.next # None => k.next.disabled

EngineInv == /\ Engine!TypeOK
             /\ EngineAlone
             /\ \A c \in EngineBusy : CommandHolds(command[c])
             /\ \A s \in possible : Chosen(s) /\ (killed => s.disabled)

LEMMA EngineFacts ==
  ASSUME EngineInv
  PROVE /\ camoufox \in BOOLEAN /\ builtin \in Roots /\ trees \in [Roots -> Engine!Trees]
        /\ engineDisk \in possible /\ \A s \in possible : Engine!ValidState(s)
        /\ command \in [Callers -> Engine!Working \cup {Engine!Idle}]
        /\ browser \subseteq Engine!Packages /\ accepted \subseteq Engine!Packages
        /\ killed \in BOOLEAN /\ changes \in 0..MaxChanges
        /\ engineFailures \in 0..MaxEngineFailures
        /\ None \notin Engine!Packages /\ None \notin Engine!States
        /\ None \notin [version : Engine!Versions, intact : BOOLEAN]
        /\ MaxVersion \in Nat \ {0} /\ MaxChanges \in Nat /\ MaxEngineFailures \in Nat
        /\ EngineBusy = {c \in Callers : command[c] \in Engine!Working}
        /\ \A O : Engine!BusyWith(O) = {c \in Callers : command[c] # Engine!Idle /\ command[c].op \in O}
        /\ Engine!Idle \notin Engine!Working
        /\ \A k \in Engine!Working : k.op \in Engine!Exclusive \cup Engine!Shared
<1>1. Engine!Idle \notin Engine!Working
  BY DEF Engine!Idle, Engine!Working
<1>2. \A k \in Engine!Working : k.op \in Engine!Exclusive \cup Engine!Shared
  BY DEF Engine!Working
<1>3. command \in [Callers -> Engine!Working \cup {Engine!Idle}]
  BY DEF EngineInv, Engine!TypeOK
<1>4. EngineBusy = {c \in Callers : command[c] \in Engine!Working}
  BY <1>1, <1>2, <1>3 DEF EngineBusy, Engine!BusyWith
<1>5. \A O : Engine!BusyWith(O) = {c \in Callers : command[c] # Engine!Idle /\ command[c].op \in O}
  BY DEF Engine!BusyWith
<1> QED BY <1>1, <1>2, <1>3, <1>4, <1>5, PackagesAssumption
        DEF EngineInv, Engine!TypeOK, Engine!EngineAssumption

LEMMA ChosenStays ==
  ASSUME NEW s, Chosen(s), accepted \subseteq accepted'
  PROVE Chosen(s)'
BY DEF Chosen

\* A command that rests keeps what it holds.
LEMMA CommandStays ==
  ASSUME NEW d, CommandHolds(command[d]), command'[d] = command[d], camoufox' = camoufox,
         accepted \subseteq accepted', killed' => killed, engineDisk' = engineDisk
  PROVE CommandHolds(command[d])'
BY DEF CommandHolds, Chosen

\* The fields of a command under way.
LEMMA WorkingFields ==
  ASSUME NEW k \in Engine!Working
  PROVE /\ k.at \in {"loaded", "persist", "rename", "sync"}
        /\ k.op \in Engine!Exclusive \cup Engine!Shared
        /\ k.package \in Engine!Packages \cup {None} /\ k.adapter \in Engine!States
        /\ k.next \in Engine!States \cup {None}
        /\ \A a \in {"loaded", "persist", "rename", "sync"} :
              /\ [k EXCEPT !.at = a] \in Engine!Working
              /\ [k EXCEPT !.at = a].at = a
              /\ [k EXCEPT !.at = a].op = k.op /\ [k EXCEPT !.at = a].package = k.package
              /\ [k EXCEPT !.at = a].adapter = k.adapter /\ [k EXCEPT !.at = a].next = k.next
BY DEF Engine!Working

\* A command goes on.
LEMMA EngineGoes ==
  ASSUME EngineInv, NEW c \in EngineBusy, NEW k \in Engine!Working, k.op = command[c].op,
         command' = [command EXCEPT ![c] = k],
         UNCHANGED <<camoufox, builtin, trees, browser, killed, changes, engineFailures>>,
         accepted \subseteq accepted', accepted' \subseteq Engine!Packages,
         CommandHolds(k)', engineDisk' \in possible',
         \A d \in EngineBusy \ {c} : CommandHolds(command[d])',
         \A s \in possible' : Engine!ValidState(s) /\ Chosen(s)' /\ (killed => s.disabled)
  PROVE EngineInv'
<1>1. c \in Callers /\ command[c] \in Engine!Working /\ command' \in [Callers -> Engine!Working \cup {Engine!Idle}]
  BY EngineFacts
<1>2. /\ EngineBusy' = EngineBusy
      /\ Engine!BusyWith(Engine!Exclusive)' = Engine!BusyWith(Engine!Exclusive)
  BY <1>1, EngineFacts DEF EngineBusy, Engine!BusyWith
<1>3. EngineAlone'
  BY <1>2 DEF EngineInv, EngineAlone
<1>4. Engine!TypeOK'
  BY <1>1, EngineFacts DEF Engine!TypeOK
<1>5. \A d \in EngineBusy' : CommandHolds(command[d])'
  <2> SUFFICES ASSUME NEW d \in EngineBusy PROVE CommandHolds(command[d])'
    BY <1>2
  <2>1. CASE d = c
    <3>1. command'[d] = k
      BY <1>1, <2>1, EngineFacts
    <3> QED BY <3>1 DEF CommandHolds, Chosen
  <2> QED BY <2>1
<1>6. \A s \in possible' : Chosen(s)' /\ (killed' => s.disabled)
  OBVIOUS
<1> QED BY <1>3, <1>4, <1>5, <1>6 DEF EngineInv

\* A command ends.
LEMMA EngineEnds ==
  ASSUME EngineInv, NEW c \in EngineBusy, Engine!Return(c),
         UNCHANGED <<camoufox, builtin, trees, engineDisk, accepted, changes>>,
         engineFailures' \in 0..MaxEngineFailures,
         browser' \subseteq Engine!Packages,
         browser' # browser => command[c].op \in Engine!Shared,
         possible' \subseteq possible, engineDisk \in possible', killed' \in BOOLEAN,
         killed' # killed => /\ command[c].op \in Engine!Exclusive
                             /\ \A s \in possible' : s.disabled
  PROVE EngineInv'
<1>1. /\ c \in Callers /\ command[c] \in Engine!Working
      /\ command' = [command EXCEPT ![c] = Engine!Idle]
      /\ command' \in [Callers -> Engine!Working \cup {Engine!Idle}]
  BY EngineFacts DEF Engine!Return
<1>2. /\ EngineBusy' = EngineBusy \ {c}
      /\ Engine!BusyWith(Engine!Exclusive)' = Engine!BusyWith(Engine!Exclusive) \ {c}
  BY <1>1, EngineFacts DEF EngineBusy, Engine!BusyWith
<1>3. command[c].op \in Engine!Exclusive => EngineBusy = {c}
  BY <1>1, EngineFacts DEF EngineInv, EngineAlone
<1>4. EngineAlone'
  <2>1. CASE Engine!BusyWith(Engine!Exclusive) = {}
    BY <1>2, <2>1 DEF EngineAlone
  <2>2. CASE Engine!BusyWith(Engine!Exclusive) # {}
    <3>1. PICK d \in Engine!BusyWith(Engine!Exclusive) : EngineBusy = {d}
      BY <2>2 DEF EngineInv, EngineAlone
    <3>2. d = c
      BY <3>1
    <3>3. Engine!BusyWith(Engine!Exclusive) \subseteq {c}
      BY <3>1, <3>2 DEF EngineInv, EngineAlone
    <3> QED BY <1>2, <3>3 DEF EngineAlone
  <2> QED BY <2>1, <2>2
<1>5. Engine!TypeOK'
  BY <1>1, EngineFacts DEF Engine!TypeOK
<1>6. \A d \in EngineBusy' : CommandHolds(command[d])'
  <2> SUFFICES ASSUME NEW d \in EngineBusy, d # c PROVE CommandHolds(command[d])'
    BY <1>2
  <2>1. command'[d] = command[d] /\ CommandHolds(command[d]) /\ killed' = killed
    BY <1>1, <1>3, EngineFacts DEF EngineInv
  <2> QED BY <2>1, CommandStays
<1>7. \A s \in possible' : Chosen(s)' /\ (killed' => s.disabled)
  BY ChosenStays DEF EngineInv
<1> QED BY <1>4, <1>5, <1>6, <1>7 DEF EngineInv

\* A command begins.
LEMMA EngineBegins ==
  ASSUME EngineInv, NEW c \in Callers, NEW op \in Engine!Exclusive \cup Engine!Shared,
         NEW p \in Engine!Packages \cup {None}, Engine!Begin(c, op, p)
  PROVE EngineInv'
<1> PICK k : k = [at |-> "loaded", op |-> op, package |-> p, adapter |-> engineDisk,
                  next |-> None]
  OBVIOUS
<1>1. /\ command[c] = Engine!Idle /\ command' = [command EXCEPT ![c] = k]
      /\ UNCHANGED <<camoufox, builtin, trees, engineDisk, possible, browser, accepted,
                     changes, engineFailures>>
      /\ killed' = (killed /\ op # "enable")
  BY DEF Engine!Begin
<1>2. Engine!ValidState(engineDisk) /\ Chosen(engineDisk) /\ (killed => engineDisk.disabled)
  BY EngineFacts DEF EngineInv
<1>3. k \in Engine!Working
  BY <1>2 DEF Engine!Working, Engine!ValidState
<1>4. k.at = "loaded" /\ k.op = op /\ k.package = p /\ k.adapter = engineDisk /\ k.next = None
  OBVIOUS
<1>5. op \in {"install", "update"} /\ ~camoufox => p # None
  BY DEF Engine!Begin
<1>6. CommandHolds(k)'
  BY <1>1, <1>2, <1>4, <1>5 DEF CommandHolds, Chosen
<1>7. command'[c] = k /\ command' \in [Callers -> Engine!Working \cup {Engine!Idle}]
  BY <1>1, <1>3, EngineFacts
<1>8. EngineBusy' = EngineBusy \cup {c} /\ c \notin EngineBusy
  BY <1>1, <1>3, <1>7, EngineFacts DEF EngineBusy, Engine!BusyWith
<1>9. Engine!BusyWith(Engine!Exclusive) = {}
  BY DEF Engine!Begin, Engine!Reserve
<1>10. op \in Engine!Exclusive => EngineBusy = {} /\ browser = {}
  <2> SUFFICES ASSUME op \in Engine!Exclusive PROVE EngineBusy = {} /\ browser = {}
    OBVIOUS
  <2>1. Engine!BusyWith(Engine!Shared) = {} /\ browser = {}
    BY DEF Engine!Begin, Engine!Reserve
  <2> QED BY <1>9, <2>1 DEF EngineBusy, Engine!BusyWith
<1>11. Engine!BusyWith(Engine!Exclusive)' = IF op \in Engine!Exclusive THEN {c} ELSE {}
  <2>1. \A d \in Callers : d # c => command'[d] = command[d]
    BY <1>1, EngineFacts
  <2>2. Engine!BusyWith(Engine!Exclusive)' =
          {d \in Callers : command'[d] # Engine!Idle /\ command'[d].op \in Engine!Exclusive}
    BY DEF Engine!BusyWith
  <2>3. Engine!BusyWith(Engine!Exclusive) =
          {d \in Callers : command[d] # Engine!Idle /\ command[d].op \in Engine!Exclusive}
    BY DEF Engine!BusyWith
  <2> QED BY <1>3, <1>4, <1>7, <1>9, <2>1, <2>2, <2>3, EngineFacts
<1>12. EngineAlone'
  BY <1>1, <1>8, <1>10, <1>11 DEF EngineAlone
<1>13. Engine!TypeOK'
  BY <1>1, <1>7, EngineFacts DEF Engine!TypeOK
<1>14. \A d \in EngineBusy' : CommandHolds(command[d])'
  <2> SUFFICES ASSUME NEW d \in EngineBusy' PROVE CommandHolds(command[d])'
    OBVIOUS
  <2>1. CASE d = c
    <3>1. command'[d] = k
      BY <1>7, <2>1
    <3> QED BY <1>6, <3>1 DEF CommandHolds, Chosen
  <2>2. CASE d # c
    <3>1. d \in EngineBusy /\ command'[d] = command[d] /\ CommandHolds(command[d])
      BY <1>1, <1>8, <2>2, EngineFacts DEF EngineInv
    <3>2. killed' => killed
      BY <1>1
    <3> QED BY <1>1, <3>1, <3>2, CommandStays
  <2> QED BY <2>1, <2>2
<1>15. \A s \in possible' : Chosen(s)' /\ (killed' => s.disabled)
  <2>1. killed' => killed
    BY <1>1
  <2> QED BY <1>1, <2>1, ChosenStays DEF EngineInv
<1> QED BY <1>12, <1>13, <1>14, <1>15 DEF EngineInv

\* What a command makes of the state that it has loaded: the package is one that it has
\* found good, the switch only moves for its own two commands.
LEMMA EngineOutcome ==
  ASSUME EngineInv, NEW k \in Engine!Working, CommandHolds(k), k.op # "launch",
         NEW n, n = Engine!Outcome(k.op, k.adapter, k.package), n # None,
         NEW A, accepted \subseteq A, n.active # None => n.active \in A
  PROVE /\ Engine!ValidState(n)
        /\ n.previous # None => /\ n.previous.version # n.active.version
                                /\ n.previous \in A
        /\ k.op = "disable" => n.disabled
        /\ k.op # "enable" /\ k.adapter.disabled => n.disabled
<1> DEFINE s == k.adapter
           p == k.package
<1>1. /\ s \in Engine!States /\ (s.active = None => s.previous = None) /\ Chosen(s)
      /\ s.active \in Engine!Packages \cup {None} /\ s.previous \in Engine!Packages \cup {None}
      /\ s.disabled \in BOOLEAN
  BY DEF CommandHolds, Engine!ValidState, Engine!States
<1>2. p \in Engine!Packages \cup {None} /\ (k.op \in {"install", "update"} /\ ~camoufox => p # None)
  BY WorkingFields DEF CommandHolds
<1>3. ASSUME NEW q \in Engine!Packages, NEW o \in Engine!Packages \cup {None},
             n = Engine!Activate(s, q, o), q \in A,
             o # None => o.version # q.version /\ o \in A
      PROVE /\ n \in Engine!States /\ n.active = q /\ n.previous = o /\ n.disabled = s.disabled
            /\ n.active # None
  BY <1>1, <1>3, EngineFacts DEF Engine!Activate, Engine!States
<1>4. ASSUME NEW q \in Engine!Packages, NEW o \in Engine!Packages \cup {None},
             n = Engine!Activate(s, q, o)
      PROVE n.active = q /\ n.active # None /\ q \in A
  BY <1>1, <1>4, EngineFacts DEF Engine!Activate, Engine!States
<1>5. \A q \in Engine!Packages : q.version \in Nat
  BY EngineFacts DEF Engine!Packages, Engine!Versions
<1>6. s.active # None => s.active \in Engine!Packages /\ s.active \in A
  BY <1>1 DEF Chosen
<1>7. CASE n = Engine!EnsureBuiltin(s) /\ k.op \notin {"disable", "enable"}
  <2>1. trees[builtin] # None
    BY <1>7 DEF Engine!EnsureBuiltin
  <2>2. Engine!BuiltinPackage \in Engine!Packages
    BY <2>1, EngineFacts DEF Engine!BuiltinPackage, Engine!Packages, Engine!Trees
  <2> DEFINE b == Engine!BuiltinPackage
  <2>3. \/ n = Engine!Activate(s, b, None)
        \/ n = s
        \/ /\ s.active # None /\ n = Engine!Activate(s, b, s.active)
           /\ Engine!Newer(b, s.active)
    BY <1>7, <2>1 DEF Engine!EnsureBuiltin
  <2> HIDE DEF b
  <2>4. CASE n = Engine!Activate(s, b, None)
    BY <1>3, <1>4, <1>7, <2>2, <2>4 DEF Engine!ValidState, b
  <2>5. CASE n = s
    BY <1>1, <1>7, <2>5 DEF Engine!ValidState, Chosen
  <2>6. CASE s.active # None /\ n = Engine!Activate(s, b, s.active) /\ Engine!Newer(b, s.active)
    <3>1. b \in Engine!Packages
      BY <2>2 DEF b
    <3>2. s.active.version # b.version
      BY <1>5, <1>6, <2>6, <3>1 DEF Engine!Newer
    <3> QED BY <1>3, <1>4, <1>6, <1>7, <2>6, <3>1, <3>2 DEF Engine!ValidState
  <2> QED BY <2>3, <2>4, <2>5, <2>6
<1>8. CASE n = Engine!Install(s, p) /\ k.op = "install" /\ ~camoufox
  BY <1>2, <1>3, <1>4, <1>8 DEF Engine!Install, Engine!ValidState
<1>9. CASE n = Engine!Update(s, p) /\ k.op = "update" /\ ~camoufox
  <2>1. n = Engine!Activate(s, p, s.active) /\ s.active # None /\ Engine!Newer(p, s.active)
    BY <1>9 DEF Engine!Update
  <2>2. p \in Engine!Packages
    BY <1>2, <1>9
  <2>3. s.active.version # p.version
    BY <1>5, <1>6, <2>1, <2>2 DEF Engine!Newer
  <2> QED BY <1>3, <1>4, <1>6, <1>9, <2>1, <2>2, <2>3 DEF Engine!ValidState
<1>10. CASE n = Engine!Rollback(s) /\ k.op = "rollback"
  <2>1. n = Engine!Activate(s, s.previous, s.active) /\ s.active # None /\ s.previous # None
    BY <1>10 DEF Engine!Rollback
  <2>2. s.previous \in Engine!Packages /\ s.active.version # s.previous.version
    BY <1>1, <2>1 DEF Chosen
  <2> QED BY <1>3, <1>4, <1>6, <1>10, <2>1, <2>2 DEF Engine!ValidState
<1>11. CASE n = Engine!Disable(s) /\ k.op = "disable"
  <2>1. /\ n \in Engine!States /\ n.active = s.active /\ n.previous = s.previous
        /\ n.disabled = TRUE
    BY <1>1, <1>11 DEF Engine!Disable, Engine!States
  <2> QED BY <1>1, <1>11, <2>1 DEF Engine!ValidState, Chosen
<1>12. CASE n = Engine!Enable(s) /\ k.op = "enable"
  <2>1. /\ n \in Engine!States /\ n.active = s.active /\ n.previous = s.previous
    BY <1>1, <1>12 DEF Engine!Enable, Engine!States
  <2> QED BY <1>1, <1>12, <2>1 DEF Engine!ValidState, Chosen
<1>13. k.op \in Engine!Exclusive \cup Engine!Shared
  BY WorkingFields
<1> QED BY <1>7, <1>8, <1>9, <1>10, <1>11, <1>12, <1>13
        DEF Engine!Outcome, Engine!Exclusive, Engine!Shared

\* The checks of a command: it goes on with a state that may be written, or ends.
LEMMA EngineDecides ==
  ASSUME EngineInv, NEW c \in Callers, Engine!Decide(c)
  PROVE EngineInv'
<1> PICK k : k = command[c]
  OBVIOUS
<1> PICK n : n = Engine!Outcome(k.op, k.adapter, k.package)
  OBVIOUS
<1>1. /\ k.at = "loaded" /\ k.op # "launch"
      /\ UNCHANGED <<camoufox, builtin, trees, engineDisk, possible, browser, killed, changes,
                     engineFailures>>
  BY DEF Engine!Decide
<1>2. c \in EngineBusy /\ k \in Engine!Working /\ CommandHolds(k)
  <2>1. command[c] # Engine!Idle
    BY <1>1 DEF Engine!Decide, Engine!Idle
  <2> QED BY <2>1, EngineFacts DEF EngineInv
<1>3. CASE n = None \/ (n = k.adapter /\ k.op \notin {"disable", "enable"})
  <2>1. Engine!Return(c) /\ UNCHANGED accepted
    BY <1>3 DEF Engine!Decide
  <2> QED BY <1>1, <1>2, <2>1, EngineEnds, EngineFacts
<1>4. CASE ~(n = None \/ (n = k.adapter /\ k.op \notin {"disable", "enable"}))
  <2> PICK j : j = [k EXCEPT !.at = "persist", !.next = n]
    OBVIOUS
  <2> PICK A : A = IF n.active \in {k.adapter.active, None} THEN accepted
                   ELSE accepted \cup {n.active}
    OBVIOUS
  <2>1. n # None /\ accepted' = A /\ command' = [command EXCEPT ![c] = j]
    <3>1. n # None
      BY <1>4
    <3>2. /\ command' = [command EXCEPT ![c].at = "persist", ![c].next = n]
          /\ accepted' = A
      BY <1>4 DEF Engine!Decide
    <3>3. command' = [command EXCEPT ![c] = j]
      BY <1>2, <3>2, EngineFacts
    <3> QED BY <3>1, <3>2, <3>3
  <2>2. accepted \subseteq A /\ (n.active # None => n.active \in A)
    BY <1>2 DEF CommandHolds, Chosen
  <2>3. /\ Engine!ValidState(n)
        /\ n.previous # None => /\ n.previous.version # n.active.version
                                /\ n.previous \in A
        /\ k.op = "disable" => n.disabled
        /\ k.op # "enable" /\ k.adapter.disabled => n.disabled
    BY <1>1, <1>2, <2>1, <2>2, EngineOutcome
  <2>4. j \in Engine!Working /\ j.at = "persist" /\ j.next = n /\ j.op = k.op
        /\ j.package = k.package /\ j.adapter = k.adapter
    BY <1>2, <2>3 DEF Engine!Working, Engine!ValidState
  <2>5. A \subseteq Engine!Packages
    BY <2>3, EngineFacts DEF Engine!ValidState, Engine!States
  <2>6. CommandHolds(j)'
    <3>1. Engine!ValidState(j.adapter) /\ Chosen(j.adapter)'
      BY <1>2, <2>1, <2>2, <2>4, ChosenStays DEF CommandHolds
    <3>2. Engine!ValidState(j.next) /\ Chosen(j.next)'
      BY <2>1, <2>2, <2>3, <2>4 DEF Chosen
    <3>3. killed' => j.op # "enable" /\ j.adapter.disabled /\ j.next.disabled
      BY <1>1, <1>2, <2>3, <2>4 DEF CommandHolds
    <3> QED BY <1>1, <1>2, <2>1, <2>3, <2>4, <3>1, <3>2, <3>3 DEF CommandHolds, Chosen
  <2>7. \A d \in EngineBusy \ {c} : CommandHolds(command[d])'
    <3> SUFFICES ASSUME NEW d \in EngineBusy, d # c PROVE CommandHolds(command[d])'
      OBVIOUS
    <3>1. CommandHolds(command[d]) /\ command'[d] = command[d]
      BY <2>1, EngineFacts DEF EngineInv
    <3> QED BY <1>1, <2>1, <2>2, <3>1, CommandStays
  <2>8. \A s \in possible' : Engine!ValidState(s) /\ Chosen(s)' /\ (killed => s.disabled)
    BY <1>1, <2>1, <2>2, ChosenStays, EngineFacts DEF EngineInv
  <2> QED BY <1>1, <1>2, <2>1, <2>2, <2>4, <2>5, <2>6, <2>7, <2>8, EngineGoes, EngineFacts
<1> QED BY <1>3, <1>4

\* A step of a command that is not idle.
LEMMA EngineAt ==
  ASSUME EngineInv, NEW c \in Callers, command[c].at \in {"loaded", "persist", "rename", "sync"}
  PROVE c \in EngineBusy /\ command[c] \in Engine!Working /\ CommandHolds(command[c])
<1>1. command[c] # Engine!Idle
  BY DEF Engine!Idle
<1> QED BY <1>1, EngineFacts DEF EngineInv

LEMMA EngineLaunches ==
  ASSUME EngineInv, NEW c \in Callers, Engine!Launch(c)
  PROVE EngineInv'
<1>1. c \in EngineBusy /\ command[c] \in Engine!Working /\ CommandHolds(command[c])
  BY EngineAt DEF Engine!Launch
<1> PICK s : s = command[c].adapter
  OBVIOUS
<1>2. /\ Engine!Return(c) /\ command[c].op \in Engine!Shared
      /\ UNCHANGED <<camoufox, builtin, trees, engineDisk, possible, accepted, killed, changes,
                     engineFailures>>
      /\ browser' = IF ~s.disabled /\ Engine!Usable(s) THEN browser \cup {s.active} ELSE browser
  BY DEF Engine!Launch, Engine!Shared
<1>3. browser' \subseteq Engine!Packages
  BY <1>1, <1>2, EngineFacts DEF CommandHolds, Engine!ValidState, Engine!States, Engine!Usable
<1> QED BY <1>1, <1>2, <1>3, EngineEnds, EngineFacts

LEMMA EngineWritesTemporary ==
  ASSUME EngineInv, NEW c \in Callers, Engine!WriteTemporary(c)
  PROVE EngineInv'
<1> PICK k : k = command[c]
  OBVIOUS
<1> PICK j : j = [k EXCEPT !.at = "rename"]
  OBVIOUS
<1>1. c \in EngineBusy /\ k \in Engine!Working /\ CommandHolds(k)
  BY EngineAt DEF Engine!WriteTemporary
<1>2. /\ k.at = "persist"
      /\ UNCHANGED <<camoufox, builtin, trees, engineDisk, possible, browser, accepted, killed,
                     changes, engineFailures>>
      /\ command' = [command EXCEPT ![c].at = "rename"]
  BY DEF Engine!WriteTemporary
<1>3. command' = [command EXCEPT ![c] = j]
  BY <1>1, <1>2, EngineFacts
<1>4. j \in Engine!Working /\ j.at = "rename" /\ j.op = k.op /\ j.package = k.package
      /\ j.adapter = k.adapter /\ j.next = k.next
  BY <1>1 DEF Engine!Working
<1>5. CommandHolds(j)'
  BY <1>1, <1>2, <1>4 DEF CommandHolds, Chosen
<1>6. \A d \in EngineBusy \ {c} : CommandHolds(command[d])'
  <2> SUFFICES ASSUME NEW d \in EngineBusy, d # c PROVE CommandHolds(command[d])'
    OBVIOUS
  <2>1. CommandHolds(command[d]) /\ command'[d] = command[d]
    BY <1>3, EngineFacts DEF EngineInv
  <2> QED BY <1>2, <2>1, CommandStays
<1>7. \A s \in possible' : Engine!ValidState(s) /\ Chosen(s)' /\ (killed => s.disabled)
  BY <1>2, ChosenStays, EngineFacts DEF EngineInv
<1> QED BY <1>1, <1>2, <1>3, <1>4, <1>5, <1>6, <1>7, EngineGoes, EngineFacts

LEMMA EngineRenames ==
  ASSUME EngineInv, NEW c \in Callers, Engine!Rename(c)
  PROVE EngineInv'
<1> PICK k : k = command[c]
  OBVIOUS
<1> PICK j : j = [k EXCEPT !.at = "sync"]
  OBVIOUS
<1>1. c \in EngineBusy /\ k \in Engine!Working /\ CommandHolds(k)
  BY EngineAt DEF Engine!Rename
<1>2. /\ k.at = "rename" /\ engineDisk' = k.next /\ possible' = possible \cup {k.next}
      /\ UNCHANGED <<camoufox, builtin, trees, browser, accepted, killed, changes,
                     engineFailures>>
      /\ command' = [command EXCEPT ![c].at = "sync"]
  BY DEF Engine!Rename
<1>3. command' = [command EXCEPT ![c] = j]
  BY <1>1, <1>2, EngineFacts
<1>4. j \in Engine!Working /\ j.at = "sync" /\ j.op = k.op /\ j.package = k.package
      /\ j.adapter = k.adapter /\ j.next = k.next
  BY <1>1 DEF Engine!Working
<1>5. /\ Engine!ValidState(k.next) /\ Chosen(k.next) /\ k.next # None
      /\ killed => k.next.disabled
  BY <1>1, <1>2 DEF CommandHolds
<1>6. CommandHolds(j)'
  BY <1>1, <1>2, <1>4, <1>5 DEF CommandHolds, Chosen
<1>7. \A d \in EngineBusy \ {c} : CommandHolds(command[d])'
  <2> SUFFICES ASSUME NEW d \in EngineBusy, d # c PROVE CommandHolds(command[d])'
    OBVIOUS
  <2>1. /\ CommandHolds(command[d]) /\ command'[d] = command[d]
        /\ d \in Callers /\ command[d] \in Engine!Working
    BY <1>3, EngineFacts DEF EngineInv
  <2>2. command[d].op \notin Engine!Exclusive
    <3>1. command[d].op \in Engine!Exclusive => d \in Engine!BusyWith(Engine!Exclusive)
      BY <2>1, EngineFacts
    <3> QED BY <1>1, <3>1 DEF EngineInv, EngineAlone
  <2> QED BY <1>2, <2>1, <2>2 DEF CommandHolds, Chosen
<1>8. \A s \in possible' : Engine!ValidState(s) /\ Chosen(s)' /\ (killed => s.disabled)
  BY <1>2, <1>5, ChosenStays, EngineFacts DEF EngineInv
<1> QED BY <1>1, <1>2, <1>3, <1>4, <1>6, <1>7, <1>8, EngineGoes, EngineFacts

LEMMA EngineSyncs ==
  ASSUME EngineInv, NEW c \in Callers, Engine!SyncDirectory(c)
  PROVE EngineInv'
<1> PICK k : k = command[c]
  OBVIOUS
<1>1. c \in EngineBusy /\ k \in Engine!Working /\ CommandHolds(k)
  BY EngineAt DEF Engine!SyncDirectory
<1>2. /\ k.at = "sync" /\ possible' = {engineDisk} /\ Engine!Return(c)
      /\ killed' = IF k.op = "disable" THEN TRUE ELSE killed
      /\ UNCHANGED <<camoufox, builtin, trees, engineDisk, browser, accepted, changes,
                     engineFailures>>
  BY DEF Engine!SyncDirectory, Engine!Acknowledge
<1>3. killed' \in BOOLEAN
  BY <1>2, EngineFacts
<1>4. ASSUME k.op = "disable" PROVE k.op \in Engine!Exclusive /\ engineDisk.disabled
  BY <1>1, <1>2, <1>4 DEF CommandHolds, Engine!Exclusive
<1>5. killed' # killed => k.op \in Engine!Exclusive /\ \A s \in possible' : s.disabled
  BY <1>2, <1>4
<1> QED BY <1>1, <1>2, <1>3, <1>5, EngineEnds, EngineFacts

LEMMA EngineFails ==
  ASSUME EngineInv, NEW c \in Callers, Engine!Fail(c)
  PROVE EngineInv'
<1>1. c \in EngineBusy
  BY EngineAt DEF Engine!Fail
<1>2. engineFailures' \in 0..MaxEngineFailures
  BY EngineFacts DEF Engine!Fail
<1> QED BY <1>1, <1>2, EngineEnds, EngineFacts DEF Engine!Fail

\* What happens around the commands: a browser exits, packages and the application move.
LEMMA EngineRests ==
  ASSUME EngineInv,
         UNCHANGED <<camoufox, engineDisk, possible, command, accepted, killed>>,
         builtin' \in Roots, trees' \in [Roots -> Engine!Trees], browser' \subseteq browser,
         changes' \in 0..MaxChanges, engineFailures' \in 0..MaxEngineFailures
  PROVE EngineInv'
<1>1. /\ EngineBusy' = EngineBusy
      /\ Engine!BusyWith(Engine!Exclusive)' = Engine!BusyWith(Engine!Exclusive)
  BY DEF EngineBusy, Engine!BusyWith
<1>2. EngineAlone'
  BY <1>1 DEF EngineInv, EngineAlone
<1>3. Engine!TypeOK'
  BY EngineFacts DEF Engine!TypeOK
<1>4. \A d \in EngineBusy' : CommandHolds(command[d])'
  BY <1>1, CommandStays DEF EngineInv
<1>5. \A s \in possible' : Chosen(s)' /\ (killed' => s.disabled)
  BY ChosenStays DEF EngineInv
<1> QED BY <1>2, <1>3, <1>4, <1>5 DEF EngineInv

LEMMA EngineSurroundings ==
  ASSUME EngineInv,
         (\E p \in browser : Engine!Exit(p)) \/ (\E r \in Roots : Engine!ChangeTree(r)) \/ Engine!Move
  PROVE EngineInv'
<1>1. ASSUME NEW p \in browser, Engine!Exit(p) PROVE EngineInv'
  BY <1>1, EngineRests, EngineFacts DEF Engine!Exit
<1>2. ASSUME NEW r \in Roots, Engine!ChangeTree(r) PROVE EngineInv'
  <2>1. PICK t \in Engine!Trees : trees' = [trees EXCEPT ![r] = t]
    BY <1>2 DEF Engine!ChangeTree
  <2>2. trees' \in [Roots -> Engine!Trees]
    BY <2>1, EngineFacts
  <2>3. changes' \in 0..MaxChanges
    BY <1>2, EngineFacts DEF Engine!ChangeTree
  <2> QED BY <1>2, <2>2, <2>3, EngineRests, EngineFacts DEF Engine!ChangeTree
<1>3. ASSUME Engine!Move PROVE EngineInv'
  <2>1. changes' \in 0..MaxChanges
    BY <1>3, EngineFacts DEF Engine!Move
  <2> QED BY <1>3, <2>1, EngineRests, EngineFacts DEF Engine!Move
<1> QED BY <1>1, <1>2, <1>3

\* After a crash nobody is at work, and the file is one that it might have been.
LEMMA EngineCrashes ==
  ASSUME EngineInv, Engine!Crash
  PROVE EngineInv'
<1>1. /\ command' = [c \in Callers |-> Engine!Idle]
      /\ UNCHANGED <<camoufox, builtin, trees, accepted, killed, changes>>
  BY DEF Engine!Crash
<1>2. engineFailures' \in 0..MaxEngineFailures
  BY EngineFacts DEF Engine!Crash
<1>3. engineDisk' \in possible' /\ possible' \subseteq possible /\ browser' \subseteq browser
  BY EngineFacts DEF Engine!Crash
<1>4. EngineBusy' = {}
  BY <1>1 DEF EngineBusy, Engine!BusyWith
<1>5. Engine!BusyWith(Engine!Exclusive)' = {}
  BY <1>1 DEF Engine!BusyWith
<1>6. EngineAlone'
  BY <1>5 DEF EngineAlone
<1>7. Engine!TypeOK'
  BY <1>1, <1>2, <1>3, EngineFacts DEF Engine!TypeOK
<1>8. \A s \in possible' : Chosen(s)' /\ (killed' => s.disabled)
  BY <1>1, <1>3, ChosenStays DEF EngineInv
<1> QED BY <1>4, <1>6, <1>7, <1>8 DEF EngineInv

LEMMA EngineStep == EngineInv /\ [Engine!Next]_Engine!vars => EngineInv'
<1> SUFFICES ASSUME EngineInv, [Engine!Next]_Engine!vars PROVE EngineInv'
  OBVIOUS
<1>1. ASSUME NEW c \in Callers, NEW op \in Engine!Exclusive \cup Engine!Shared,
             NEW p \in Engine!Packages \cup {None}, Engine!Begin(c, op, p)
      PROVE EngineInv'
  BY <1>1, EngineBegins
<1>2. ASSUME NEW c \in Callers,
             \/ Engine!Decide(c) \/ Engine!Launch(c) \/ Engine!WriteTemporary(c)
             \/ Engine!Rename(c) \/ Engine!SyncDirectory(c) \/ Engine!Fail(c)
      PROVE EngineInv'
  BY <1>2, EngineDecides, EngineLaunches, EngineWritesTemporary, EngineRenames, EngineSyncs,
     EngineFails
<1>3. CASE UNCHANGED Engine!vars
  <2>1. UNCHANGED <<camoufox, builtin, trees, engineDisk, possible, command, browser, accepted,
                    killed, changes, engineFailures>>
    BY <1>3 DEF Engine!vars
  <2> QED BY <2>1, EngineRests, EngineFacts
<1> QED BY <1>1, <1>2, <1>3, EngineSurroundings, EngineCrashes DEF Engine!Next

LEMMA EngineStarts == Engine!Init => EngineInv
<1> SUFFICES ASSUME Engine!Init PROVE EngineInv
  OBVIOUS
<1> PICK s : s = Engine!NoState
  OBVIOUS
<1>1. Engine!ValidState(s) /\ s.active = None /\ s.previous = None
  BY DEF Engine!NoState, Engine!ValidState, Engine!States
<1>2. engineDisk = s /\ possible = {s} /\ browser = {} /\ accepted = {} /\ killed = FALSE
      /\ command = [c \in Callers |-> Engine!Idle]
  BY DEF Engine!Init
<1>3. EngineBusy = {} /\ Engine!BusyWith(Engine!Exclusive) = {}
  BY <1>2 DEF EngineBusy, Engine!BusyWith
<1>4. trees \in [Roots -> Engine!Trees]
  <2>1. [version : {1}, intact : {TRUE}] \subseteq Engine!Trees
    <3>1. 1 \in Engine!Versions
      BY PackagesAssumption DEF Engine!Versions, Engine!EngineAssumption
    <3>2. ASSUME NEW t \in [version : {1}, intact : {TRUE}] PROVE t \in Engine!Trees
      BY <3>1 DEF Engine!Trees
    <3> QED BY <3>2
  <2>2. trees \in [Roots -> [version : {1}, intact : {TRUE}]]
    BY DEF Engine!Init
  <2> QED BY <2>1, <2>2
<1>5. Engine!TypeOK
  <2>1. /\ camoufox \in BOOLEAN /\ builtin \in Roots
        /\ changes = 0 /\ engineFailures = 0
    BY DEF Engine!Init
  <2>2. changes \in 0..MaxChanges /\ engineFailures \in 0..MaxEngineFailures
    BY <2>1, PackagesAssumption DEF Engine!EngineAssumption
  <2>3. command \in [Callers -> Engine!Working \cup {Engine!Idle}]
    BY <1>2
  <2> QED BY <1>1, <1>2, <1>4, <2>1, <2>2, <2>3 DEF Engine!TypeOK
<1>6. EngineAlone
  BY <1>2, <1>3 DEF EngineAlone
<1> QED BY <1>1, <1>2, <1>3, <1>5, <1>6 DEF EngineInv, Chosen

\* Maintenance runs alone; every state that the file may hold, or a command has read, is made
\* of packages that were found good, and is disabled while the switch is set.
THEOREM EngineInvariant == Engine!Spec => []EngineInv
BY EngineStarts, EngineStep, PTL DEF Engine!Spec

\* The invariant says what the run checks of a state.
LEMMA EngineSafe == EngineInv => Engine!SwitchStaysSet /\ Engine!RollbackIsAnother
<1> SUFFICES ASSUME EngineInv PROVE Engine!SwitchStaysSet /\ Engine!RollbackIsAnother
  OBVIOUS
<1>1. Engine!SwitchStaysSet
  BY DEF EngineInv, Engine!SwitchStaysSet
<1>2. ASSUME NEW s \in possible, s.previous # None
      PROVE s.previous.version # s.active.version /\ {s.active, s.previous} \subseteq accepted
  BY <1>2, EngineFacts DEF EngineInv, Chosen, Engine!ValidState
<1> QED BY <1>1, <1>2 DEF Engine!RollbackIsAnother

\* While the switch is set no launch reads a state that is not disabled.
LEMMA NothingLaunchesWhenKilled ==
  ASSUME EngineInv, [Engine!Next]_Engine!vars, killed, killed'
  PROVE browser' \subseteq browser
<1>1. ASSUME NEW c \in Callers, Engine!Launch(c) PROVE browser' = browser
  <2>1. CommandHolds(command[c])
    BY <1>1, EngineAt DEF Engine!Launch
  <2>2. command[c].adapter.disabled
    BY <2>1 DEF CommandHolds
  <2> QED BY <1>1, <2>2 DEF Engine!Launch
<1>2. ASSUME NEW c \in Callers,
             \/ Engine!Decide(c) \/ Engine!WriteTemporary(c)
             \/ Engine!Rename(c) \/ Engine!SyncDirectory(c) \/ Engine!Fail(c)
      PROVE browser' = browser
  BY <1>2 DEF Engine!Decide, Engine!WriteTemporary, Engine!Rename, Engine!SyncDirectory,
              Engine!Fail
<1>3. ASSUME NEW c \in Callers, NEW op, NEW p, Engine!Begin(c, op, p) PROVE browser' = browser
  BY <1>3 DEF Engine!Begin
<1>4. CASE (\E p \in browser : Engine!Exit(p)) \/ (\E r \in Roots : Engine!ChangeTree(r))
           \/ Engine!Move \/ Engine!Crash
  BY <1>4 DEF Engine!Exit, Engine!ChangeTree, Engine!Move, Engine!Crash
<1>5. CASE UNCHANGED Engine!vars
  BY <1>5 DEF Engine!vars
<1> QED BY <1>1, <1>2, <1>3, <1>4, <1>5 DEF Engine!Next

\* The package moves only at a rename or a loss of power: the one of a maintenance command has
\* no browser, the other leaves none.
LEMMA PackageMovesAlone ==
  ASSUME EngineInv, [Engine!Next]_Engine!vars, engineDisk'.active # engineDisk.active,
         browser \cap browser' # {}
  PROVE Engine!BusyWith({"provision"}) # {}
<1>1. ASSUME NEW c \in Callers, Engine!Rename(c) PROVE Engine!BusyWith({"provision"}) # {}
  <2>1. c \in EngineBusy /\ command[c] \in Engine!Working /\ CommandHolds(command[c])
    BY <1>1, EngineAt DEF Engine!Rename
  <2>2. command[c].op \notin Engine!Exclusive
    <3>1. browser # {}
      OBVIOUS
    <3>2. Engine!BusyWith(Engine!Exclusive) = {}
      BY <3>1 DEF EngineInv, EngineAlone
    <3> QED BY <2>1, <3>2, EngineFacts
  <2>3. command[c].op # "launch"
    BY <1>1, <2>1 DEF Engine!Rename, CommandHolds
  <2> QED BY <2>1, <2>2, <2>3, EngineFacts DEF Engine!Shared, Engine!Exclusive
<1>2. ASSUME NEW c \in Callers,
             \/ Engine!Decide(c) \/ Engine!Launch(c) \/ Engine!WriteTemporary(c)
             \/ Engine!SyncDirectory(c) \/ Engine!Fail(c)
      PROVE engineDisk' = engineDisk
  BY <1>2 DEF Engine!Decide, Engine!Launch, Engine!WriteTemporary, Engine!SyncDirectory,
              Engine!Fail
<1>3. ASSUME NEW c \in Callers, NEW op, NEW p, Engine!Begin(c, op, p)
      PROVE engineDisk' = engineDisk
  BY <1>3 DEF Engine!Begin
<1>4. CASE (\E p \in browser : Engine!Exit(p)) \/ (\E r \in Roots : Engine!ChangeTree(r))
           \/ Engine!Move
  BY <1>4 DEF Engine!Exit, Engine!ChangeTree, Engine!Move
<1>5. CASE Engine!Crash
  BY <1>5 DEF Engine!Crash
<1>6. CASE UNCHANGED Engine!vars
  BY <1>6 DEF Engine!vars
<1> QED BY <1>1, <1>2, <1>3, <1>4, <1>5, <1>6 DEF Engine!Next

\* A behaviour of the bench is one of the engine packages, or leaves them alone.
THEOREM FilesRunEngine == FilesSpec => Engine!Spec
<1>1. FilesInit => Engine!Init
  BY DEF FilesInit
<1>2. [FilesNext]_filesVars => [Engine!Next]_Engine!vars
  BY DEF FilesNext, filesVars, engineVars, Engine!vars
<1> QED BY <1>1, <1>2, PTL DEF FilesSpec, Engine!Spec

\* Once the command to disable the engine has succeeded, no write, crash or loss of power
\* brings the switch back, and no browser starts before somebody asks to lift it.
THEOREM EngineKeepsDisabled == FilesSpec => EngineStaysDisabled
<1>1. EngineInv /\ [Engine!Next]_Engine!vars
        => [killed /\ killed' => browser' \subseteq browser]_Engine!vars
  BY NothingLaunchesWhenKilled
<1>2. EngineInv => (part = "engine" => Engine!SwitchStaysSet)
  BY EngineSafe
<1>3. Engine!Spec => Engine!NoLaunchWhenKilled
  BY <1>1, EngineInvariant, PTL DEF Engine!Spec, Engine!NoLaunchWhenKilled
<1> QED BY <1>2, <1>3, EngineInvariant, FilesRunEngine, PTL DEF EngineStaysDisabled

\* A rollback returns to another version that was found good, and the package stays as it is
\* below a browser that goes on running, but while an identity is made.
THEOREM EnginePackagesAreChosen == FilesSpec => PackagesAreChosen
<1>1. EngineInv /\ [Engine!Next]_Engine!vars
        => [engineDisk'.active # engineDisk.active /\ browser \cap browser' # {}
            => Engine!BusyWith({"provision"}) # {}]_Engine!vars
  BY PackageMovesAlone
<1>2. EngineInv => (part = "engine" => Engine!RollbackIsAnother)
  BY EngineSafe
<1>3. Engine!Spec => Engine!ChangesWithoutBrowsers
  BY <1>1, EngineInvariant, PTL DEF Engine!Spec, Engine!ChangesWithoutBrowsers
<1> QED BY <1>2, <1>3, EngineInvariant, FilesRunEngine, PTL DEF PackagesAreChosen
-----------------------------------------------------------------------------
(* ColdBackup: the inductive invariant *)

\* What a chunk may carry: a copied file whose halves fit, or one of the marks.
ColdItems ==
  [kind : {"metadata"}, what : {Cold!Cardinality(c) : c \in SUBSET Files}]
  \cup {i \in [kind : {"file"}, what : [name : Files, stamp : Nat, first : Nat \cup {None},
                                        second : Nat \cup {None}]] :
           i.what.first = i.what.second}
  \cup [kind : {"end", "final"}, what : {None}]
ColdChunks == [archive : Nat, counter : Nat, item : ColdItems, final : BOOLEAN]

\* The items of a finished archive: the final one is the last.
Complete(w) == /\ w \in Seq(ColdItems) /\ Len(w) > 0
               /\ \A k \in 1..Len(w) : w[k].kind = "final" <=> k = Len(w)

\* A chunk of the archive with the items w: the counter says which item it carries.
Carrying(w) == {c \in ColdChunks : c.counter + 1 \in 1..Len(w) /\ c.item = w[c.counter + 1]}

BackingUp == {"count", "walk", "first", "second", "check", "finish", "publish"}
Copying == {"first", "second", "check"}
Reading == {"inspect", "restore"}

\* What was copied is what the file is, unless its stamp moved.
CopyIsTrue ==
  backupPc \in Copying =>
    /\ copy \in [name : Files, stamp : Nat, first : Nat \cup {None}, second : Nat \cup {None}]
    /\ copy.stamp <= edits
    /\ stamp[copy.name] = copy.stamp =>
         /\ backupPc \in {"second", "check"} => copy.first = files[copy.name]
         /\ backupPc = "check" => copy.second = files[copy.name]

\* The temporary archive.
Temporary ==
  /\ backupPc \in BackingUp => backups \in 1..MaxBackups /\ target = None
  /\ backupPc \in BackingUp \ {"count"} =>
       /\ out \in Seq(ColdChunks) /\ \A k \in 1..Len(out) : out[k].counter = k - 1
  /\ backupPc \in BackingUp \ {"count", "finish", "publish"} =>
       \A k \in 1..Len(out) : out[k].item.kind # "final"
  /\ backupPc \in {"finish", "publish"} =>
       Len(out) > 0 /\ \A k \in 1..Len(out) : out[k].item.kind = "final" <=> k = Len(out)
  /\ backupPc = "publish" => written[backups] = [k \in DOMAIN out |-> out[k].item]

\* Only a finished archive is written.
Written == /\ written \in [1..MaxBackups -> Seq(ColdItems)]
           /\ \A k \in 1..MaxBackups :
                 k > backups \/ (k = backups /\ backupPc \in BackingUp \ {"publish"})
                   => written[k] = <<>>

Published == target # None =>
  \E b \in 1..MaxBackups : Complete(written[b]) /\ target \in Seq(Carrying(written[b]))

\* A reader has heard the chunks of one archive, from its first on.
Heard == backupPc \in Reading =>
  \E b \in 1..MaxBackups :
     /\ Complete(written[b])
     /\ target # None => target \in Seq(Carrying(written[b]))
     /\ heard \in Seq(Carrying(written[b]))
     /\ \A k \in 1..Len(heard) : heard[k].counter = k - 1
     /\ got \in Seq(ColdItems) /\ Len(got) = Len(heard)
     /\ \A k \in 1..Len(heard) : got[k] = heard[k].item

\* The order of inspection and restore.
Confirmed == /\ backupPc = "inspect" => inspected = None
             /\ backupPc = "restore" => inspected # None
             /\ restored # None => inspected # None

RestoredIsOne ==
  restored # None => \E b \in 1..MaxBackups : Complete(written[b]) /\ restored = written[b]

ColdInv == /\ Cold!TypeOK /\ \A f \in Files : stamp[f] <= edits
           /\ backups \in 0..MaxBackups
           /\ heard \in Seq(ColdChunks) /\ Len(got) \in Nat
           /\ CopyIsTrue /\ Temporary /\ Written /\ Published /\ Heard /\ Confirmed
           /\ RestoredIsOne /\ Cold!RestoredWasConfirmed

LEMMA ColdFacts ==
  ASSUME ColdInv
  PROVE /\ \A f \in Files : files[f] \in Nat \cup {None} /\ stamp[f] \in Nat /\ stamp[f] <= edits
        /\ stamp \in [Files -> Nat] /\ counted \subseteq Files \ Excluded /\ todo \subseteq Files
        /\ backupPc \in {"idle"} \cup BackingUp \cup Reading
        /\ pos = Len(heard) /\ Len(got) <= Len(heard) /\ Len(got) \in Nat
        /\ edits \in Nat /\ damage \in Nat /\ backups \in 0..MaxBackups /\ MaxBackups \in Nat
        /\ heard \in Seq(ColdChunks)
        /\ written \in [1..MaxBackups -> Seq(ColdItems)]
<1>1. MaxBackups \in Nat
  BY BackupAssumption DEF Cold!BackupAssumption
<1> QED BY <1>1 DEF ColdInv, Cold!TypeOK, BackingUp, Reading, Written

\* A step of a backup: it touches neither the published archive nor a reader.
LEMMA ColdBacksUp ==
  ASSUME ColdInv, backupPc \notin Reading, backupPc' \in {"idle"} \cup BackingUp,
         UNCHANGED <<files, stamp, target, pos, heard, got, inspected, restored, edits, damage>>,
         \A b \in 1..MaxBackups : Complete(written[b]) => written'[b] = written[b],
         counted' \subseteq Files \ Excluded, todo' \subseteq Files, backups' \in 0..MaxBackups,
         CopyIsTrue', Temporary', Written'
  PROVE ColdInv'
<1>1. Cold!TypeOK' /\ \A f \in Files : stamp'[f] <= edits'
  BY ColdFacts DEF Cold!TypeOK, BackingUp
<1>2. Published'
  BY DEF ColdInv, Published
<1>3. Heard'
  BY DEF Heard, BackingUp, Reading
<1>4. RestoredIsOne'
  BY DEF ColdInv, RestoredIsOne
<1>5. Confirmed' /\ Cold!RestoredWasConfirmed'
  BY DEF ColdInv, Confirmed, Cold!RestoredWasConfirmed, BackingUp
<1> QED BY <1>1, <1>2, <1>3, <1>4, <1>5, ColdFacts DEF ColdInv

\* The parts that a step leaves alone when it keeps the temporary archive.
LEMMA ColdWrittenStays ==
  ASSUME ColdInv, UNCHANGED <<written, backups>>,
         backupPc' \in BackingUp \ {"publish"} => backupPc \in BackingUp \ {"publish"}
  PROVE Written'
BY DEF ColdInv, Written

LEMMA ColdBegins ==
  ASSUME ColdInv, Cold!Backup \/ Cold!Count
  PROVE ColdInv'
<1>1. CASE Cold!Backup
  <2>1. /\ backupPc = "idle" /\ backupPc' = "count" /\ target = None /\ backups' = backups + 1
        /\ UNCHANGED <<files, stamp, counted, todo, copy, out, target, pos, heard, got, inspected,
                       restored, written, edits, damage>>
    BY <1>1 DEF Cold!Backup, Cold!treeVars, Cold!writeVars, Cold!readVars
  <2>2. backups' \in 1..MaxBackups
    BY <1>1, ColdFacts DEF Cold!Backup
  <2>3. Written'
    <3>1. \A k \in 1..MaxBackups : k >= backups' => k > backups
      BY <2>1, ColdFacts
    <3>2. \A k \in 1..MaxBackups : k > backups' \/ k = backups' => k >= backups'
      BY <2>2
    <3> QED BY <2>1, <3>1, <3>2 DEF ColdInv, Written
  <2>4. CopyIsTrue' /\ Temporary'
    BY <2>1, <2>2 DEF CopyIsTrue, Temporary, Copying, BackingUp
  <2> QED BY <2>1, <2>2, <2>3, <2>4, ColdBacksUp, ColdFacts DEF BackingUp, Reading
<1>2. CASE Cold!Count
  <2>1. PICK item : item = Cold!Item("metadata", Cold!Cardinality(counted'))
    OBVIOUS
  <2>2. /\ backupPc = "count" /\ backupPc' = "walk" /\ counted' = Cold!Present \ Excluded
        /\ todo' = Files
        /\ UNCHANGED <<files, stamp, copy, target, pos, heard, got, inspected,
                       restored, written, backups, edits, damage>>
    BY <1>2 DEF Cold!Count, Cold!treeVars, Cold!readVars
  <2>3. counted' \subseteq Files \ Excluded
    BY <2>2 DEF Cold!Present
  <2>4. item \in ColdItems /\ item.kind = "metadata"
    BY <2>1, <2>3 DEF Cold!Item, ColdItems
  <2>5. PICK chunk \in ColdChunks : chunk.counter = 0 /\ chunk.item = item /\ out' = <<chunk>>
    <3>1. PICK chunk : chunk = [archive |-> backups, counter |-> 0, item |-> item,
                                final |-> FALSE]
      OBVIOUS
    <3>2. chunk \in ColdChunks /\ chunk.counter = 0 /\ chunk.item = item
      BY <2>4, <3>1, ColdFacts DEF ColdChunks
    <3>3. out' = <<chunk>>
      BY <1>2, <2>1, <3>1 DEF Cold!Count, Cold!Chunk
    <3> QED BY <3>2, <3>3
  <2>6. out' \in Seq(ColdChunks) /\ Len(out') = 1 /\ out'[1] = chunk
    BY <2>5
  <2>7. Temporary'
    BY <2>2, <2>4, <2>5, <2>6 DEF ColdInv, Temporary, BackingUp
  <2>8. CopyIsTrue' /\ Written'
    BY <2>2, ColdWrittenStays DEF CopyIsTrue, Copying, BackingUp
  <2> QED BY <2>2, <2>3, <2>7, <2>8, ColdBacksUp, ColdFacts DEF BackingUp, Reading
<1> QED BY <1>1, <1>2

\* The walk and the copy of one file.
LEMMA ColdCopies ==
  ASSUME ColdInv,
         (\E f \in Files : Cold!Visit(f)) \/ Cold!CopyFirst \/ Cold!CopySecond
  PROVE ColdInv'
<1> DEFINE Copies == [name : Files, stamp : Nat, first : Nat \cup {None}, second : Nat \cup {None}]
<1>1. /\ backupPc \in {"walk", "first", "second"}
      /\ backupPc' \in {"walk", "first", "second", "check", "idle"}
      /\ UNCHANGED <<files, stamp, counted, target, pos, heard, got, inspected,
                     restored, written, backups, edits, damage>>
  BY DEF Cold!Visit, Cold!CopyFirst, Cold!CopySecond, Cold!Abandon, Cold!treeVars,
         Cold!readVars
<1>2. todo' \subseteq Files
  BY ColdFacts DEF Cold!Visit, Cold!CopyFirst, Cold!CopySecond
<1>3. backupPc' # "idle" => out' = out
  BY DEF Cold!Visit, Cold!CopyFirst, Cold!CopySecond, Cold!Abandon
<1>4. Temporary'
  BY <1>1, <1>3 DEF ColdInv, Temporary, BackingUp
<1>5. Written'
  BY <1>1, ColdWrittenStays DEF BackingUp
<1>6. CopyIsTrue'
  <2>1. ASSUME NEW f \in Files, Cold!Visit(f) PROVE CopyIsTrue'
    <3>1. CASE files[f] = None \/ f \in Excluded
      BY <2>1, <3>1 DEF Cold!Visit, CopyIsTrue, Copying
    <3>2. CASE ~(files[f] = None \/ f \in Excluded)
      <4>1. /\ copy' = [name |-> f, stamp |-> stamp[f], first |-> None, second |-> None]
            /\ backupPc' = "first"
        BY <2>1, <3>2 DEF Cold!Visit
      <4>2. copy' \in Copies /\ copy'.stamp <= edits
        BY <4>1, ColdFacts
      <4> QED BY <1>1, <4>1, <4>2 DEF CopyIsTrue
    <3> QED BY <3>1, <3>2
  <2>2. CASE Cold!CopyFirst
    <3>1. CASE Cold!Abandon
      BY <3>1 DEF Cold!Abandon, CopyIsTrue, Copying
    <3>2. CASE ~Cold!Abandon
      <4>1. /\ copy' = [copy EXCEPT !.first = files[copy.name]]
            /\ backupPc = "first" /\ backupPc' = "second"
        BY <2>2, <3>2 DEF Cold!CopyFirst
      <4>2. copy \in Copies /\ copy.stamp <= edits
        BY <4>1 DEF ColdInv, CopyIsTrue, Copying
      <4>3. files[copy.name] \in Nat \cup {None}
        BY <4>2, ColdFacts
      <4>4. /\ copy' \in Copies /\ copy'.stamp = copy.stamp /\ copy'.name = copy.name
            /\ copy'.first = files[copy.name]
        BY <4>1, <4>2, <4>3
      <4> QED BY <1>1, <4>1, <4>2, <4>4 DEF CopyIsTrue
    <3> QED BY <3>1, <3>2
  <2>3. CASE Cold!CopySecond
    <3>1. CASE Cold!Abandon
      BY <3>1 DEF Cold!Abandon, CopyIsTrue, Copying
    <3>2. CASE ~Cold!Abandon
      <4>1. /\ copy' = [copy EXCEPT !.second = files[copy.name]]
            /\ backupPc = "second" /\ backupPc' = "check"
        BY <2>3, <3>2 DEF Cold!CopySecond
      <4>2. /\ copy \in Copies /\ copy.stamp <= edits
            /\ stamp[copy.name] = copy.stamp => copy.first = files[copy.name]
        BY <4>1 DEF ColdInv, CopyIsTrue, Copying
      <4>3. files[copy.name] \in Nat \cup {None}
        BY <4>2, ColdFacts
      <4>4. /\ copy' \in Copies /\ copy'.stamp = copy.stamp /\ copy'.name = copy.name
            /\ copy'.first = copy.first /\ copy'.second = files[copy.name]
        BY <4>1, <4>2, <4>3
      <4> QED BY <1>1, <4>1, <4>2, <4>4 DEF CopyIsTrue
    <3> QED BY <3>1, <3>2
  <2> QED BY <2>1, <2>2, <2>3
<1> QED BY <1>1, <1>2, <1>4, <1>5, <1>6, ColdBacksUp, ColdFacts DEF BackingUp, Reading

\* One more chunk.
LEMMA ColdAppends ==
  ASSUME NEW old \in Seq(ColdChunks), \A k \in 1..Len(old) : old[k].counter = k - 1,
         NEW chunk \in ColdChunks, chunk.counter = Len(old),
         NEW new, new = Append(old, chunk)
  PROVE /\ new \in Seq(ColdChunks) /\ Len(new) = Len(old) + 1
        /\ \A k \in 1..Len(new) : new[k].counter = k - 1
        /\ new[Len(new)] = chunk
        /\ \A k \in 1..Len(old) : new[k] = old[k]
<1>1. /\ new \in Seq(ColdChunks) /\ Len(new) = Len(old) + 1
      /\ \A k \in 1..Len(old) : new[k] = old[k]
      /\ new[Len(old) + 1] = chunk
  OBVIOUS
<1>2. \A k \in 1..Len(new) : k \in 1..Len(old) \/ k = Len(old) + 1
  BY <1>1
<1>3. \A k \in 1..Len(new) : new[k].counter = k - 1
  BY <1>1, <1>2
<1> QED BY <1>1, <1>3

LEMMA ColdChecks ==
  ASSUME ColdInv, Cold!Check
  PROVE ColdInv'
<1>1. /\ backupPc = "check"
      /\ UNCHANGED <<files, stamp, counted, todo, target, pos, heard, got, inspected,
                     restored, written, backups, edits, damage>>
  BY DEF Cold!Check, Cold!treeVars, Cold!readVars
<1>2. CASE ~Cold!Unchanged(copy.name)
  <2>1. backupPc' = "idle"
    BY <1>2 DEF Cold!Check, Cold!Abandon
  <2>2. CopyIsTrue' /\ Temporary' /\ Written'
    BY <1>1, <2>1, ColdWrittenStays DEF CopyIsTrue, Temporary, Copying, BackingUp
  <2> QED BY <1>1, <2>1, <2>2, ColdBacksUp, ColdFacts DEF BackingUp, Reading
<1>3. CASE Cold!Unchanged(copy.name)
  <2>1. backupPc' = "walk"
    BY <1>3 DEF Cold!Check
  <2>2. copy.first = copy.second
    BY <1>1, <1>3 DEF Cold!Unchanged, ColdInv, CopyIsTrue, Copying
  <2>3. Cold!Item("file", copy) \in ColdItems /\ Cold!Item("file", copy).kind = "file"
    BY <1>1, <2>2 DEF Cold!Item, ColdItems, ColdInv, CopyIsTrue, Copying
  <2>4. /\ out \in Seq(ColdChunks) /\ \A k \in 1..Len(out) : out[k].counter = k - 1
        /\ \A k \in 1..Len(out) : out[k].item.kind # "final"
        /\ backups \in 1..MaxBackups /\ target = None
    BY <1>1 DEF ColdInv, Temporary, BackingUp
  <2>5. /\ out' \in Seq(ColdChunks) /\ Len(out') = Len(out) + 1
        /\ \A k \in 1..Len(out') : out'[k].counter = k - 1
        /\ out'[Len(out')].item = Cold!Item("file", copy)
        /\ \A k \in 1..Len(out) : out'[k] = out[k]
    <3>1. Len(out) \in Nat
      BY <2>4
    <3>2. PICK chunk : chunk = [archive |-> backups, counter |-> Len(out),
                                item |-> Cold!Item("file", copy), final |-> FALSE]
      OBVIOUS
    <3>3. chunk \in ColdChunks /\ chunk.counter = Len(out) /\ chunk.item = Cold!Item("file", copy)
      BY <2>3, <3>1, <3>2, ColdFacts DEF ColdChunks
    <3>4. out' = Append(out, chunk)
      BY <1>3, <3>2 DEF Cold!Check, Cold!Chunk
    <3> QED BY <2>4, <3>3, <3>4, ColdAppends
  <2>6. \A k \in 1..Len(out') : out'[k].item.kind # "final"
    <3>1. \A k \in 1..Len(out') : k \in 1..Len(out) \/ k = Len(out')
      BY <2>4, <2>5
    <3> QED BY <2>3, <2>4, <2>5, <3>1
  <2>7. Temporary'
    BY <1>1, <2>1, <2>4, <2>5, <2>6 DEF Temporary, BackingUp
  <2>8. CopyIsTrue' /\ Written'
    BY <1>1, <2>1, ColdWrittenStays DEF CopyIsTrue, Copying, BackingUp
  <2> QED BY <1>1, <2>1, <2>7, <2>8, ColdBacksUp, ColdFacts DEF BackingUp, Reading
<1> QED BY <1>2, <1>3

LEMMA ColdFinishes ==
  ASSUME ColdInv, Cold!Finish
  PROVE ColdInv'
<1>1. /\ backupPc = "walk" /\ backupPc' = "finish"
      /\ UNCHANGED <<files, stamp, counted, todo, copy, target, pos, heard, got, inspected,
                     restored, written, backups, edits, damage>>
  BY DEF Cold!Finish, Cold!treeVars, Cold!readVars
<1>2. /\ out \in Seq(ColdChunks) /\ \A k \in 1..Len(out) : out[k].counter = k - 1
      /\ \A k \in 1..Len(out) : out[k].item.kind # "final"
      /\ backups \in 1..MaxBackups /\ target = None /\ Len(out) \in Nat
  BY <1>1 DEF ColdInv, Temporary, BackingUp
<1>3. /\ Cold!Item("end", None) \in ColdItems /\ Cold!Item("end", None).kind = "end"
      /\ Cold!Item("final", None) \in ColdItems /\ Cold!Item("final", None).kind = "final"
  BY DEF Cold!Item, ColdItems
<1> PICK itemE : itemE = Cold!Item("end", None)
  OBVIOUS
<1> PICK itemF : itemF = Cold!Item("final", None)
  OBVIOUS
<1>4. PICK mark, end :
        /\ mark \in ColdChunks /\ mark.counter = Len(out) /\ mark.item = itemE
        /\ end = Append(out, mark)
        /\ out' = Append(end, [archive |-> backups, counter |-> Len(end), item |-> itemF,
                              final |-> TRUE])
  <2>1. PICK mark : mark = [archive |-> backups, counter |-> Len(out), item |-> itemE,
                            final |-> FALSE]
    OBVIOUS
  <2>2. mark \in ColdChunks /\ mark.counter = Len(out) /\ mark.item = itemE
    BY <1>2, <1>3, <2>1, ColdFacts DEF ColdChunks
  <2>3. PICK end : end = Append(out, mark)
    OBVIOUS
  <2>4. out' = Append(end, [archive |-> backups, counter |-> Len(end), item |-> itemF,
                            final |-> TRUE])
    BY <2>1, <2>3 DEF Cold!Finish, Cold!Chunk
  <2> QED BY <2>2, <2>3, <2>4
<1>5. /\ end \in Seq(ColdChunks) /\ Len(end) = Len(out) + 1
      /\ \A k \in 1..Len(end) : end[k].counter = k - 1
      /\ end[Len(end)].item = itemE
      /\ \A k \in 1..Len(out) : end[k] = out[k]
  <2>1. mark \in ColdChunks /\ mark.counter = Len(out) /\ mark.item = itemE
        /\ end = Append(out, mark)
    BY <1>4
  <2> QED BY <1>2, <2>1, ColdAppends
<1>6. PICK last \in ColdChunks : /\ last.counter = Len(end)
                                /\ last.item = itemF /\ out' = Append(end, last)
  <2>1. Len(end) \in Nat
    BY <1>5
  <2>2. PICK last : last = [archive |-> backups, counter |-> Len(end), item |-> itemF,
                            final |-> TRUE]
    OBVIOUS
  <2>3. last \in ColdChunks /\ last.counter = Len(end) /\ last.item = itemF
    BY <1>3, <2>1, <2>2, ColdFacts DEF ColdChunks
  <2> QED BY <1>4, <2>2, <2>3
<1>7. /\ out' \in Seq(ColdChunks) /\ Len(out') = Len(end) + 1
      /\ \A k \in 1..Len(out') : out'[k].counter = k - 1
      /\ out'[Len(out')].item = itemF
      /\ \A k \in 1..Len(end) : out'[k] = end[k]
  BY <1>5, <1>6, ColdAppends
<1>8. \A k \in 1..Len(out') : k \in 1..Len(out) \/ k = Len(end) \/ k = Len(out')
  BY <1>2, <1>5, <1>7
<1>9. ASSUME NEW k \in 1..Len(out') PROVE out'[k].item.kind = "final" <=> k = Len(out')
  <2>1. CASE k = Len(out')
    BY <1>3, <1>7, <2>1
  <2>2. CASE k \in 1..Len(out)
    <3>1. k \in 1..Len(end) /\ k # Len(out')
      BY <1>2, <1>5, <1>7, <2>2
    <3> QED BY <1>2, <1>5, <1>7, <2>2, <3>1
  <2>3. CASE k = Len(end)
    <3>1. k \in 1..Len(end) /\ k # Len(out')
      BY <1>2, <1>5, <1>7, <2>3
    <3> QED BY <1>3, <1>5, <1>7, <2>3, <3>1
  <2> QED BY <1>8, <2>1, <2>2, <2>3
<1>10. Len(out') > 0
  BY <1>2, <1>5, <1>7
<1>11. Temporary'
  BY <1>1, <1>2, <1>7, <1>9, <1>10 DEF Temporary, BackingUp
<1>12. CopyIsTrue' /\ Written'
  BY <1>1, ColdWrittenStays DEF CopyIsTrue, Copying, BackingUp
<1> QED BY <1>1, <1>11, <1>12, ColdBacksUp, ColdFacts DEF BackingUp, Reading

\* The items of a sequence of chunks.
LEMMA ColdItemsOf ==
  ASSUME NEW chunks \in Seq(ColdChunks), NEW items,
         items = [k \in DOMAIN chunks |-> chunks[k].item]
  PROVE /\ items \in Seq(ColdItems) /\ Len(items) = Len(chunks)
        /\ \A k \in 1..Len(chunks) : items[k] = chunks[k].item
<1>1. DOMAIN chunks = 1..Len(chunks) /\ Len(chunks) \in Nat
  OBVIOUS
<1>2. \A k \in 1..Len(chunks) : chunks[k].item \in ColdItems
  <2>1. \A c \in ColdChunks : c.item \in ColdItems
    BY DEF ColdChunks
  <2> QED BY <2>1
<1>3. items = [k \in 1..Len(chunks) |-> chunks[k].item]
  BY <1>1
<1>4. items \in [1..Len(chunks) -> ColdItems]
  BY <1>2, <1>3
<1>5. items \in Seq(ColdItems) /\ Len(items) = Len(chunks)
  BY <1>1, <1>3, <1>4
<1> QED BY <1>3, <1>5

LEMMA ColdCompares ==
  ASSUME ColdInv, Cold!Compare
  PROVE ColdInv'
<1>1. /\ backupPc = "finish" /\ backupPc' \in {"publish", "idle"}
      /\ UNCHANGED <<files, stamp, counted, todo, target, pos, heard, got, inspected, restored,
                     backups, edits, damage>>
  BY DEF Cold!Compare, Cold!Abandon, Cold!treeVars, Cold!readVars
<1>2. /\ out \in Seq(ColdChunks) /\ backups \in 1..MaxBackups /\ target = None
      /\ written[backups] = <<>>
  BY <1>1 DEF ColdInv, Temporary, Written, BackingUp
<1>3. CopyIsTrue'
  BY <1>1 DEF CopyIsTrue, Copying
<1>4. CASE backupPc' = "idle"
  <2>1. UNCHANGED written
    BY <1>4 DEF Cold!Compare
  <2>2. Temporary' /\ Written'
    BY <1>1, <1>4, <2>1, ColdWrittenStays DEF Temporary, BackingUp
  <2> QED BY <1>1, <1>3, <1>4, <2>1, <2>2, ColdBacksUp, ColdFacts DEF BackingUp, Reading
<1>5. CASE backupPc' = "publish"
  <2>1. PICK items : items = [k \in DOMAIN out |-> out[k].item]
    OBVIOUS
  <2>2. written' = [written EXCEPT ![backups] = items] /\ out' = out
    BY <1>5, <2>1 DEF Cold!Compare, Cold!Abandon
  <2>3. items \in Seq(ColdItems)
    BY <1>2, <2>1, ColdItemsOf
  <2>4. Written'
    BY <1>1, <1>2, <1>5, <2>2, <2>3, ColdFacts DEF ColdInv, Written
  <2>5. written'[backups] = [k \in DOMAIN out |-> out[k].item]
    BY <1>2, <2>1, <2>2, ColdFacts
  <2>6. Temporary'
    BY <1>1, <1>2, <1>5, <2>2, <2>5 DEF ColdInv, Temporary, BackingUp
  <2>7. ASSUME NEW b \in 1..MaxBackups, Complete(written[b]) PROVE written'[b] = written[b]
    <3>1. b # backups
      BY <1>2, <2>7 DEF Complete
    <3> QED BY <2>2, <3>1, ColdFacts
  <2> QED BY <1>1, <1>3, <1>5, <2>4, <2>6, <2>7, ColdBacksUp, ColdFacts DEF BackingUp, Reading
<1> QED BY <1>1, <1>4, <1>5

\* The published archive is a finished one.
LEMMA ColdPublishes ==
  ASSUME ColdInv, Cold!Publish
  PROVE ColdInv'
<1>0. target = None
  BY DEF Cold!Publish, ColdInv, Temporary, BackingUp
<1>1. /\ backupPc = "publish" /\ backupPc' = "idle" /\ target' = out
      /\ UNCHANGED <<files, stamp, counted, todo, copy, pos, heard, got, inspected, restored,
                     written, backups, edits, damage>>
  BY <1>0 DEF Cold!Publish, Cold!treeVars, Cold!readVars
<1>2. /\ backups \in 1..MaxBackups
      /\ out \in Seq(ColdChunks) /\ \A k \in 1..Len(out) : out[k].counter = k - 1
      /\ Len(out) > 0 /\ \A k \in 1..Len(out) : out[k].item.kind = "final" <=> k = Len(out)
      /\ written[backups] = [k \in DOMAIN out |-> out[k].item]
  BY <1>1 DEF ColdInv, Temporary, BackingUp
<1>3. PICK w : w = written[backups]
  OBVIOUS
<1>4. /\ w \in Seq(ColdItems) /\ Len(w) = Len(out)
      /\ \A k \in 1..Len(out) : w[k] = out[k].item
  BY <1>2, <1>3, ColdItemsOf
<1>5. Complete(w)
  BY <1>2, <1>4 DEF Complete
<1>6. \A k \in 1..Len(out) : out[k] \in Carrying(w)
  <2> SUFFICES ASSUME NEW k \in 1..Len(out) PROVE out[k] \in Carrying(w)
    OBVIOUS
  <2>1. out[k].counter + 1 = k /\ out[k] \in ColdChunks
    BY <1>2
  <2> QED BY <1>4, <2>1 DEF Carrying
<1>7. out \in Seq(Carrying(w))
  <2>1. DOMAIN out = 1..Len(out) /\ Len(out) \in Nat /\ out \in [1..Len(out) -> ColdChunks]
    BY <1>2
  <2>2. out \in [1..Len(out) -> Carrying(w)]
    BY <1>6, <2>1
  <2> QED BY <2>1, <2>2
<1>8. Published'
  BY <1>1, <1>2, <1>3, <1>5, <1>7 DEF Published
<1>9. CopyIsTrue' /\ Temporary' /\ Heard' /\ Confirmed'
  BY <1>1 DEF CopyIsTrue, Temporary, Heard, Confirmed, Copying, BackingUp, Reading, ColdInv
<1>10. Written'
  BY <1>1, ColdWrittenStays DEF BackingUp
<1>11. RestoredIsOne' /\ Cold!RestoredWasConfirmed'
  BY <1>1 DEF ColdInv, RestoredIsOne, Cold!RestoredWasConfirmed
<1>12. Cold!TypeOK' /\ \A f \in Files : stamp'[f] <= edits'
  BY <1>1, ColdFacts DEF Cold!TypeOK
<1> QED BY <1>1, <1>8, <1>9, <1>10, <1>11, <1>12, ColdFacts DEF ColdInv

\* A reader starts with the header of the archive.
LEMMA ColdOpens ==
  ASSUME ColdInv, Cold!Inspect \/ Cold!Restore
  PROVE ColdInv'
<1>1. /\ backupPc = "idle" /\ backupPc' \in Reading /\ target # None
      /\ pos' = 0 /\ heard' = <<>> /\ got' = <<>>
      /\ UNCHANGED <<files, stamp, counted, todo, copy, out, target, inspected, restored, written,
                     backups, edits, damage>>
  BY DEF Cold!Inspect, Cold!Restore, Cold!Open, Cold!treeVars, Cold!writeVars, Reading
<1>2. PICK b \in 1..MaxBackups :
         Complete(written[b]) /\ target \in Seq(Carrying(written[b]))
  BY <1>1 DEF ColdInv, Published
<1>3. heard' \in Seq(Carrying(written[b])) /\ got' \in Seq(ColdItems) /\ heard' \in Seq(ColdChunks)
      /\ Len(heard') = 0 /\ Len(got') = 0
  BY <1>1
<1>4. Heard'
  BY <1>1, <1>2, <1>3 DEF Heard
<1>5. Confirmed'
  BY <1>1 DEF ColdInv, Confirmed, Cold!Inspect, Cold!Restore, Cold!Open
<1>6. CopyIsTrue' /\ Temporary'
  BY <1>1 DEF CopyIsTrue, Temporary, Copying, BackingUp, Reading
<1>7. Written'
  BY <1>1, ColdWrittenStays DEF BackingUp, Reading
<1>8. Published' /\ RestoredIsOne' /\ Cold!RestoredWasConfirmed'
  BY <1>1 DEF ColdInv, Published, RestoredIsOne, Cold!RestoredWasConfirmed
<1>9. Cold!TypeOK' /\ \A f \in Files : stamp'[f] <= edits'
  BY <1>1, <1>3, ColdFacts DEF Cold!TypeOK, Reading
<1> QED BY <1>1, <1>3, <1>4, <1>5, <1>6, <1>7, <1>8, <1>9, ColdFacts DEF ColdInv

\* What a step leaves alone that moves only a reader.
LEMMA ColdReads ==
  ASSUME ColdInv, backupPc \in Reading, backupPc' \in {backupPc, "idle"},
         UNCHANGED <<files, stamp, counted, todo, copy, out, target, written, backups, edits,
                     damage>>,
         pos' = Len(heard'), Len(got') <= Len(heard'), Len(got') \in Nat,
         heard' \in Seq(ColdChunks),
         Heard', Confirmed', RestoredIsOne', Cold!RestoredWasConfirmed'
  PROVE ColdInv'
<1>1. CopyIsTrue' /\ Temporary'
  BY DEF CopyIsTrue, Temporary, Copying, BackingUp, Reading
<1>2. Written'
  BY ColdWrittenStays DEF BackingUp, Reading
<1>3. Published'
  BY DEF ColdInv, Published
<1>4. Cold!TypeOK' /\ \A f \in Files : stamp'[f] <= edits'
  BY ColdFacts DEF Cold!TypeOK, Reading
<1> QED BY <1>1, <1>2, <1>3, <1>4, ColdFacts DEF ColdInv

LEMMA ColdReadsChunk ==
  ASSUME ColdInv, Cold!ReadChunk
  PROVE ColdInv'
<1>1. /\ backupPc \in Reading /\ backupPc' \in {backupPc, "idle"} /\ target # None
      /\ UNCHANGED <<files, stamp, counted, todo, copy, out, target, inspected, restored, written,
                     backups, edits, damage>>
  BY DEF Cold!ReadChunk, Cold!treeVars, Cold!writeVars, Cold!readVars, Reading
<1>2. PICK b \in 1..MaxBackups :
         /\ Complete(written[b]) /\ target \in Seq(Carrying(written[b]))
         /\ heard \in Seq(Carrying(written[b]))
         /\ \A k \in 1..Len(heard) : heard[k].counter = k - 1
         /\ got \in Seq(ColdItems) /\ Len(got) = Len(heard)
         /\ \A k \in 1..Len(heard) : got[k] = heard[k].item
  BY <1>1 DEF ColdInv, Heard
<1>3. Confirmed' /\ RestoredIsOne' /\ Cold!RestoredWasConfirmed'
  BY <1>1 DEF ColdInv, Confirmed, RestoredIsOne, Cold!RestoredWasConfirmed, Reading
<1>4. CASE UNCHANGED <<pos, heard, got>>
  <2>1. Heard'
    BY <1>1, <1>2, <1>4 DEF Heard
  <2> QED BY <1>1, <1>3, <1>4, <2>1, ColdReads, ColdFacts
<1>5. CASE ~UNCHANGED <<pos, heard, got>>
  <2>1. PICK chunk : chunk = target[pos + 1]
    OBVIOUS
  <2>2. /\ pos < Len(target) /\ Cold!Opens(chunk)
        /\ pos' = pos + 1 /\ heard' = Append(heard, chunk) /\ got' = Append(got, chunk.item)
    BY <1>5, <2>1 DEF Cold!ReadChunk, Cold!readVars
  <2>3. pos + 1 \in 1..Len(target) /\ pos = Len(heard)
    BY <1>2, <2>2, ColdFacts
  <2>4. chunk \in Carrying(written[b]) /\ chunk.counter = Len(heard)
    BY <1>2, <2>1, <2>2, <2>3 DEF Cold!Opens
  <2>5. chunk \in ColdChunks /\ chunk.item \in ColdItems
    BY <2>4 DEF Carrying, ColdChunks
  <2>6. /\ heard' \in Seq(Carrying(written[b])) /\ Len(heard') = Len(heard) + 1
        /\ \A k \in 1..Len(heard) : heard'[k] = heard[k]
        /\ heard'[Len(heard) + 1] = chunk
    BY <1>2, <2>2, <2>4
  <2>7. /\ got' \in Seq(ColdItems) /\ Len(got') = Len(got) + 1
        /\ \A k \in 1..Len(got) : got'[k] = got[k]
        /\ got'[Len(got) + 1] = chunk.item
    BY <1>2, <2>2, <2>5
  <2>8. heard' \in Seq(ColdChunks)
    BY <2>2, <2>5, ColdFacts
  <2>9. \A k \in 1..Len(heard') : k \in 1..Len(heard) \/ k = Len(heard) + 1
    BY <2>6, ColdFacts
  <2>10. \A k \in 1..Len(heard') : heard'[k].counter = k - 1 /\ got'[k] = heard'[k].item
    <3> SUFFICES ASSUME NEW k \in 1..Len(heard')
                 PROVE heard'[k].counter = k - 1 /\ got'[k] = heard'[k].item
      OBVIOUS
    <3>1. CASE k \in 1..Len(heard)
      BY <1>2, <2>6, <2>7, <3>1
    <3>2. CASE k = Len(heard) + 1
      <4>1. heard'[k] = chunk /\ got'[k] = chunk.item
        BY <1>2, <2>6, <2>7, <3>2
      <4>2. Len(heard) = k - 1
        BY <3>2, ColdFacts
      <4> QED BY <2>4, <4>1, <4>2
    <3> QED BY <2>9, <3>1, <3>2
  <2>11. Heard'
    BY <1>1, <1>2, <2>6, <2>7, <2>10 DEF Heard
  <2>12. pos' = Len(heard') /\ Len(got') <= Len(heard') /\ Len(got') \in Nat
    BY <1>2, <2>2, <2>3, <2>6, <2>7, ColdFacts
  <2> QED BY <1>1, <1>3, <2>8, <2>11, <2>12, ColdReads
<1> QED BY <1>4, <1>5

\* The chunks that a reader has heard to the end are all of the archive.
LEMMA ColdHeardAll ==
  ASSUME ColdInv, backupPc \in Reading, Cold!Finished
  PROVE \E b \in 1..MaxBackups : Complete(written[b]) /\ got = written[b]
<1>1. PICK b \in 1..MaxBackups :
         /\ Complete(written[b])
         /\ heard \in Seq(Carrying(written[b]))
         /\ \A k \in 1..Len(heard) : heard[k].counter = k - 1
         /\ got \in Seq(ColdItems) /\ Len(got) = Len(heard)
         /\ \A k \in 1..Len(heard) : got[k] = heard[k].item
  BY DEF ColdInv, Heard
<1>2. PICK w : w = written[b]
  OBVIOUS
<1>3. \A k \in 1..Len(heard) : k \in 1..Len(w) /\ got[k] = w[k]
  <2> SUFFICES ASSUME NEW k \in 1..Len(heard) PROVE k \in 1..Len(w) /\ got[k] = w[k]
    OBVIOUS
  <2>1. heard[k] \in Carrying(w) /\ heard[k].counter + 1 = k
    BY <1>1, <1>2
  <2> QED BY <1>1, <2>1 DEF Carrying
<1>4. Len(got) \in Nat /\ Len(got) > 0 /\ got[Len(got)].kind = "final"
  BY <1>1 DEF Cold!Finished, Cold!Last
<1>5. /\ w \in Seq(ColdItems)
      /\ \A k \in 1..Len(w) : w[k].kind = "final" <=> k = Len(w)
  BY <1>1, <1>2 DEF Complete
<1>6. Len(got) = Len(w)
  BY <1>1, <1>3, <1>4, <1>5
<1>7. got = w
  BY <1>1, <1>3, <1>5, <1>6
<1> QED BY <1>1, <1>2, <1>7

LEMMA ColdAccepts ==
  ASSUME ColdInv, Cold!Accept
  PROVE ColdInv'
<1>1. /\ backupPc \in Reading /\ backupPc' = "idle" /\ Cold!Finished
      /\ UNCHANGED <<files, stamp, counted, todo, copy, out, target, pos, heard, got, written,
                     backups, edits, damage>>
  BY DEF Cold!Accept, Cold!treeVars, Cold!writeVars, Cold!readVars, Reading
<1>2. Heard'
  BY <1>1 DEF Heard, Reading
<1>3. CASE UNCHANGED <<inspected, restored>>
  <2>1. Confirmed' /\ RestoredIsOne' /\ Cold!RestoredWasConfirmed'
    BY <1>1, <1>3 DEF ColdInv, Confirmed, RestoredIsOne, Cold!RestoredWasConfirmed
  <2> QED BY <1>1, <1>2, <2>1, ColdReads, ColdFacts
<1>4. CASE backupPc = "inspect" /\ inspected' = heard /\ UNCHANGED restored
  <2>1. inspected = None /\ restored = None
    BY <1>4 DEF ColdInv, Confirmed
  <2>2. Confirmed' /\ RestoredIsOne' /\ Cold!RestoredWasConfirmed'
    BY <1>1, <1>4, <2>1 DEF Confirmed, RestoredIsOne, Cold!RestoredWasConfirmed
  <2> QED BY <1>1, <1>2, <2>2, ColdReads, ColdFacts
<1>5. CASE backupPc = "restore" /\ heard = inspected /\ restored' = got /\ UNCHANGED inspected
  <2>1. inspected # None
    BY <1>5 DEF ColdInv, Confirmed
  <2>2. RestoredIsOne'
    BY <1>1, <1>5, ColdHeardAll DEF RestoredIsOne
  <2>3. Cold!RestoredWasConfirmed'
    <3>1. /\ heard \in Seq(ColdChunks) /\ got \in Seq(ColdItems) /\ Len(got) = Len(heard)
          /\ \A k \in 1..Len(heard) : got[k] = heard[k].item
      BY <1>5, ColdFacts DEF ColdInv, Heard, Reading
    <3>2. PICK items : items = [k \in DOMAIN heard |-> heard[k].item]
      OBVIOUS
    <3>3. /\ items \in Seq(ColdItems) /\ Len(items) = Len(heard)
          /\ \A k \in 1..Len(heard) : items[k] = heard[k].item
      BY <3>1, <3>2, ColdItemsOf
    <3>4. got = items
      BY <3>1, <3>3
    <3> QED BY <1>5, <3>2, <3>4 DEF Cold!RestoredWasConfirmed
  <2>4. Confirmed'
    BY <1>1, <1>5, <2>1 DEF Confirmed
  <2> QED BY <1>1, <1>2, <2>2, <2>3, <2>4, ColdReads, ColdFacts
<1> QED BY <1>3, <1>4, <1>5 DEF Cold!Accept

\* An edit moves the stamp of its file past the one that a copy has seen.
LEMMA ColdEdits ==
  ASSUME ColdInv, NEW f \in Files, Cold!Edit(f)
  PROVE ColdInv'
<1>1. /\ edits' = edits + 1 /\ stamp' = [stamp EXCEPT ![f] = edits + 1]
      /\ UNCHANGED <<backupPc, counted, todo, copy, out, target, pos, heard, got, inspected,
                     restored, written, backups, damage>>
  BY DEF Cold!Edit, Cold!writeVars, Cold!readVars
<1>2. PICK v \in {edits + 1, None} : files' = [files EXCEPT ![f] = v]
  BY DEF Cold!Edit
<1>3. \A g \in Files : /\ stamp'[g] = IF g = f THEN edits + 1 ELSE stamp[g]
                       /\ g # f => files'[g] = files[g]
                       /\ files'[g] \in Nat \cup {None}
  BY <1>1, <1>2, ColdFacts
<1>4. CopyIsTrue'
  <2> SUFFICES ASSUME backupPc \in Copying PROVE CopyIsTrue'
    BY <1>1 DEF CopyIsTrue
  <2>1. copy.name \in Files /\ copy.stamp \in Nat /\ copy.stamp <= edits
    BY DEF ColdInv, CopyIsTrue
  <2>2. copy.stamp <= edits' /\ copy.stamp # edits + 1
    BY <1>1, <2>1, ColdFacts
  <2>3. stamp'[copy.name] = copy.stamp => stamp[copy.name] = copy.stamp /\ copy.name # f
    BY <1>3, <2>1, <2>2
  <2> QED BY <1>1, <1>3, <2>1, <2>2, <2>3 DEF ColdInv, CopyIsTrue
<1>5. Temporary' /\ Published' /\ Heard' /\ Confirmed'
  BY <1>1 DEF ColdInv, Temporary, Published, Heard, Confirmed
<1>6. Written' /\ RestoredIsOne' /\ Cold!RestoredWasConfirmed'
  BY <1>1 DEF ColdInv, Written, RestoredIsOne, Cold!RestoredWasConfirmed
<1>7. \A g \in Files : stamp'[g] \in Nat /\ stamp'[g] <= edits'
  BY <1>1, <1>3, ColdFacts
<1>8. Cold!TypeOK'
  <2>1. stamp' \in [Files -> Nat] /\ edits' \in Nat
    BY <1>1, ColdFacts
  <2> QED BY <1>1, <1>3, <2>1, ColdFacts DEF ColdInv, Cold!TypeOK
<1> QED BY <1>1, <1>4, <1>5, <1>6, <1>7, <1>8, ColdFacts DEF ColdInv

\* Whatever befalls a file, its chunks stay the ones of one archive.
LEMMA ColdDamaged ==
  ASSUME ColdInv, NEW w, NEW file \in Seq(Carrying(w)), NEW d \in Cold!Damaged(file), d # None
  PROVE d \in Seq(Carrying(w))
<1>1. ASSUME NEW k \in 0..(Len(file) - 1), d = SubSeq(file, 1, k)
      PROVE d \in Seq(Carrying(w))
  BY <1>1
<1>2. ASSUME NEW k \in 1..Len(file), d = Cold!RemoveAt(file, k)
      PROVE d \in Seq(Carrying(w))
  <2>1. SubSeq(file, 1, k - 1) \in Seq(Carrying(w)) /\ SubSeq(file, k + 1, Len(file)) \in Seq(Carrying(w))
    OBVIOUS
  <2> QED BY <1>2, <2>1 DEF Cold!RemoveAt
<1>3. ASSUME NEW k \in 1..Len(file), d = Cold!InsertAt(file, k, file[k])
      PROVE d \in Seq(Carrying(w))
  <2>1. /\ SubSeq(file, 1, k - 1) \in Seq(Carrying(w))
        /\ SubSeq(file, k, Len(file)) \in Seq(Carrying(w))
        /\ <<file[k]>> \in Seq(Carrying(w))
    OBVIOUS
  <2> QED BY <1>3, <2>1 DEF Cold!InsertAt
<1>4. ASSUME NEW j \in 1..Len(file), NEW k \in 1..Len(file), d = Cold!SwapElement(file, j, k)
      PROVE d \in Seq(Carrying(w))
  BY <1>4 DEF Cold!SwapElement
<1>5. ASSUME NEW k \in 1..Len(file), NEW a \in 1..backups, d = [file EXCEPT ![k].archive = a]
      PROVE d \in Seq(Carrying(w))
  <2>1. PICK c : c = [file[k] EXCEPT !.archive = a]
    OBVIOUS
  <2>2. file[k] \in Carrying(w)
    OBVIOUS
  <2>3. a \in Nat
    BY ColdFacts
  <2>4. c \in ColdChunks /\ c.counter = file[k].counter /\ c.item = file[k].item
    BY <2>1, <2>2, <2>3 DEF Carrying, ColdChunks
  <2>5. c \in Carrying(w)
    BY <2>2, <2>4 DEF Carrying
  <2>6. d = [file EXCEPT ![k] = c]
    BY <1>5, <2>1
  <2> QED BY <2>5, <2>6
<1>6. DOMAIN file = 1..Len(file)
  OBVIOUS
<1> QED BY <1>1, <1>2, <1>3, <1>4, <1>5, <1>6 DEF Cold!Damaged

LEMMA ColdIsDamaged ==
  ASSUME ColdInv, Cold!Damage
  PROVE ColdInv'
<1>1. /\ target # None /\ target' \in Cold!Damaged(target) /\ damage' = damage + 1
      /\ backupPc \in {"idle"} \cup Reading
      /\ UNCHANGED <<files, stamp, backupPc, counted, todo, copy, out, pos, heard, got, inspected,
                     restored, written, backups, edits>>
  BY DEF Cold!Damage, Cold!treeVars, Cold!writeVars, Cold!readVars, Reading
<1>2. ASSUME NEW b \in 1..MaxBackups, target \in Seq(Carrying(written[b])), target' # None
      PROVE target' \in Seq(Carrying(written[b]))
  BY <1>1, <1>2, ColdDamaged
<1>3. Published'
  BY <1>1, <1>2 DEF ColdInv, Published
<1>4. Heard'
  <2> SUFFICES ASSUME backupPc \in Reading PROVE Heard'
    BY <1>1 DEF Heard
  <2>1. PICK b \in 1..MaxBackups :
          /\ Complete(written[b]) /\ target \in Seq(Carrying(written[b]))
          /\ heard \in Seq(Carrying(written[b]))
          /\ \A k \in 1..Len(heard) : heard[k].counter = k - 1
          /\ got \in Seq(ColdItems) /\ Len(got) = Len(heard)
          /\ \A k \in 1..Len(heard) : got[k] = heard[k].item
    BY <1>1 DEF ColdInv, Heard
  <2>2. target' # None => target' \in Seq(Carrying(written[b]))
    BY <1>2, <2>1
  <2> QED BY <1>1, <2>1, <2>2 DEF Heard
<1>5. CopyIsTrue' /\ Temporary'
  BY <1>1 DEF CopyIsTrue, Temporary, Copying, BackingUp, Reading
<1>6. Confirmed' /\ Written' /\ RestoredIsOne' /\ Cold!RestoredWasConfirmed'
  BY <1>1 DEF ColdInv, Confirmed, Written, RestoredIsOne, Cold!RestoredWasConfirmed
<1>7. Cold!TypeOK' /\ \A f \in Files : stamp'[f] <= edits'
  BY <1>1, ColdFacts DEF ColdInv, Cold!TypeOK
<1> QED BY <1>1, <1>3, <1>4, <1>5, <1>6, <1>7, ColdFacts DEF ColdInv

LEMMA ColdStep == ColdInv /\ [Cold!Next]_Cold!vars => ColdInv'
<1> SUFFICES ASSUME ColdInv, [Cold!Next]_Cold!vars PROVE ColdInv'
  OBVIOUS
<1>1. CASE Cold!BackupNext
  BY <1>1, ColdBegins, ColdCopies, ColdChecks, ColdFinishes, ColdCompares, ColdPublishes
  DEF Cold!BackupNext
<1>2. CASE UNCHANGED Cold!vars
  <2>1. UNCHANGED <<files, stamp, backupPc, counted, todo, copy, out, target, pos, heard, got,
                    inspected, restored, written, backups, edits, damage>>
    BY <1>2 DEF Cold!vars
  <2>2. Cold!TypeOK' /\ \A f \in Files : stamp'[f] <= edits'
    BY <2>1, ColdFacts DEF ColdInv, Cold!TypeOK
  <2>3. CopyIsTrue' /\ Temporary' /\ Written' /\ Published'
    BY <2>1 DEF ColdInv, CopyIsTrue, Temporary, Written, Published
  <2>4. Heard' /\ Confirmed' /\ RestoredIsOne' /\ Cold!RestoredWasConfirmed'
    BY <2>1 DEF ColdInv, Heard, Confirmed, RestoredIsOne, Cold!RestoredWasConfirmed
  <2> QED BY <2>1, <2>2, <2>3, <2>4, ColdFacts DEF ColdInv
<1> QED BY <1>1, <1>2, ColdOpens, ColdReadsChunk, ColdAccepts, ColdEdits, ColdIsDamaged
        DEF Cold!Next

LEMMA ColdStarts == Cold!Init => ColdInv
<1> SUFFICES ASSUME Cold!Init PROVE ColdInv
  OBVIOUS
<1>1. /\ files \in [Files -> {0, None}] /\ stamp = [f \in Files |-> 0] /\ backupPc = "idle"
      /\ counted = {} /\ todo = {} /\ target = None /\ pos = 0 /\ heard = <<>> /\ got = <<>>
      /\ inspected = None /\ restored = None /\ written = [k \in 1..MaxBackups |-> <<>>]
      /\ backups = 0 /\ edits = 0 /\ damage = 0
  BY DEF Cold!Init
<1>2. MaxBackups \in Nat
  BY BackupAssumption DEF Cold!BackupAssumption
<1>3. heard \in Seq(ColdChunks) /\ Len(heard) = 0 /\ Len(got) = 0
  BY <1>1
<1>4. Cold!TypeOK /\ \A f \in Files : stamp[f] <= edits
  BY <1>1, <1>3 DEF Cold!TypeOK
<1>5. CopyIsTrue /\ Temporary /\ Published /\ Heard /\ Confirmed /\ RestoredIsOne
      /\ Cold!RestoredWasConfirmed
  BY <1>1 DEF CopyIsTrue, Temporary, Published, Heard, Confirmed, RestoredIsOne,
              Cold!RestoredWasConfirmed, Copying, BackingUp, Reading
<1>6. Written
  BY <1>1 DEF Written
<1> QED BY <1>1, <1>2, <1>3, <1>4, <1>5, <1>6 DEF ColdInv

\* At every moment: the temporary archive, the published one and the one being read hold the
\* items of one backup in their order, and what was copied is what the file was.
THEOREM ColdBackupInvariant == Cold!Spec => []ColdInv
BY ColdStarts, ColdStep, PTL DEF Cold!Spec

\* The invariant says what the run checks.
LEMMA ColdSafe == ColdInv => BackupIsTrue
<1> SUFFICES ASSUME ColdInv PROVE BackupIsTrue
  OBVIOUS
<1>1. Cold!RestoredWasWritten
  BY DEF ColdInv, RestoredIsOne, Cold!RestoredWasWritten
<1>2. Cold!FilesAreWhole
  <2> SUFFICES ASSUME target # None, NEW k \in DOMAIN target, target[k].item.kind = "file"
               PROVE target[k].item.what.first = target[k].item.what.second
    BY DEF Cold!FilesAreWhole
  <2>1. PICK b \in 1..MaxBackups : target \in Seq(Carrying(written[b]))
    BY DEF ColdInv, Published
  <2>2. target[k] \in Carrying(written[b])
    BY <2>1
  <2>3. target[k].item \in ColdItems
    BY <2>2 DEF Carrying, ColdChunks
  <2> QED BY <2>3 DEF ColdItems
<1>3. Cold!RestoredWasConfirmed
  BY DEF ColdInv
<1> QED BY <1>1, <1>2, <1>3 DEF BackupIsTrue

\* A behaviour of the bench is one of the backup, or leaves it alone.
THEOREM FilesRunBackup == FilesSpec => Cold!Spec
<1>1. FilesInit => Cold!Init
  BY DEF FilesInit
<1>2. [FilesNext]_filesVars => [Cold!Next]_Cold!vars
  BY DEF FilesNext, filesVars, backupVars, Cold!vars
<1> QED BY <1>1, <1>2, PTL DEF FilesSpec, Cold!Spec

\* A restore installs exactly the items one backup wrote, whatever happened to the archive
\* before and between inspection and restore; they are what was confirmed; and every file of a
\* published archive was copied as it was at one moment.
THEOREM BackupsAreTrue == FilesSpec => []BackupIsTrue
BY ColdBackupInvariant, ColdSafe, FilesRunBackup, PTL
-----------------------------------------------------------------------------
(* ManagedRestore: the inductive invariant *)

OwnTrees == Nat \cup {Missing}
Transition == journal.prepared /\ ~journal.committed
Undoing == {"setAside", "putBack", "removeRestored", "copyBack", "replaceVault", "dropDiscarded",
            "unprepare"}

SiloTyped == /\ Silo!TypeOK
             /\ journal.staged \in OwnTrees /\ journal.discarded \in OwnTrees
             /\ ~journal.open => journal = Silo!NoJournal

\* Who called, and whether the Vault is open.
SiloCallers ==
  /\ restorePc \in Silo!Recovering \cup Silo!Cleaning <=> restoreCaller # "none"
  /\ restoreCaller = "unlock" => opened = Locked
  /\ restoreCaller \in {"restore", "abandon", "rollback", "finish"} => opened # Locked
  /\ restorePc \in Silo!Preparing \cup Silo!Switching => opened # Locked

\* Which parts of the journal are there at which step, a torn marker or not.
JournalFits ==
  /\ journal.old # Missing => ~journal.oldMissing
  /\ journal.prepared => journal.vault \in Silo!VaultData
  /\ restorePc \in Silo!Preparing \ {"journal"} => ~journal.prepared /\ ~journal.committed
                                                   /\ journal.open
  /\ restorePc \in (Silo!Preparing \ {"journal"}) \cup {"moveAside"} =>
       journal.old = Missing /\ (hadTree => ~journal.oldMissing)
  /\ restorePc \in {"rewrite", "copyVault", "markMissing", "prepare", "moveAside", "install"} =>
       journal.staged = restores
  /\ restorePc \in {"markMissing", "prepare"} => journal.vault \in Silo!VaultData
  /\ restorePc \in Silo!Switching \cup Undoing => Transition /\ journal.open
  /\ restorePc \in {"setAside", "putBack"} => journal.old # Missing
  /\ restorePc = "removeRestored" => journal.old = Missing /\ journal.oldMissing
  /\ restorePc \in {"copyBack", "replaceVault", "dropDiscarded", "unprepare"} =>
       journal.old = Missing /\ (journal.oldMissing => managed = Missing)
  /\ restorePc \in {"cleanOld", "cleanDiscarded", "cleanStaged", "cleanPrepared"} =>
       journal.committed
  /\ restorePc = "cleanCommitted" => journal.committed /\ ~journal.prepared
  /\ restorePc \in {"cleanDirectory", "dropJournal"} => ~journal.committed /\ ~journal.prepared

\* The tree of another process stands where the staged tree was to go, or is the Silo's own.
ForeignStands ==
  /\ managed = Foreign /\ Transition =>
       journal.staged # Missing \/ (journal.old = Missing /\ ~journal.oldMissing)
  /\ restorePc \in {"setAside", "removeRestored"} => managed # Foreign
  /\ restorePc = "putBack" => managed = Missing

\* Nobody is in the middle of a transition: the open Vault is the one on disk.
Settled == opened = vault /\ Silo!Agree(managed, opened) /\ ~Transition

\* What recovery from here ends with: a transition is taken back.
RecoveryKeeps ==
  IF Transition
  THEN /\ journal.vault.edits >= saved.edits
       /\ IF journal.old # Missing THEN Silo!Agree(journal.old, journal.vault)
          ELSE IF journal.oldMissing THEN journal.vault.tree = Missing
          ELSE Silo!Agree(managed, journal.vault)
  ELSE vault.edits >= saved.edits /\ Silo!Agree(managed, vault)

SiloKept ==
  /\ RecoveryKeeps
  /\ restorePc = "idle" /\ opened # Locked => Settled
  /\ restoreCaller \in {"restore", "abandon", "finish"} => Settled
  /\ restorePc \in Silo!Preparing =>
       /\ Settled
       /\ IF hadTree THEN managed # Missing ELSE opened.tree = Missing
  /\ restoreCaller = "rollback" =>
       /\ ~journal.committed
       /\ IF journal.prepared THEN journal.vault = opened
                              ELSE vault = opened /\ Silo!Agree(managed, opened)
  /\ restorePc \in {"dropDiscarded", "unprepare"} => vault = journal.vault
  /\ restorePc \in {"markMissing", "prepare"} \cup Silo!Switching => journal.vault = opened
  /\ restorePc \in {"prepare", "moveAside"} => journal.oldMissing = ~hadTree
  /\ restorePc = "moveAside" => IF hadTree THEN managed # Missing ELSE opened.tree = Missing
  /\ restorePc \in {"moveAside", "install", "commitVault"} => vault = opened
  /\ restorePc = "install" => journal.old # Missing \/ journal.oldMissing
  /\ restorePc \in {"commitVault", "commit"} => managed = restores
  /\ restorePc = "commit" => vault = Silo!Restored

SiloInv == SiloTyped /\ SiloCallers /\ JournalFits /\ ForeignStands /\ (~torn => SiloKept)

Journals == [open : BOOLEAN, staged : Silo!Trees, old : Silo!Trees, discarded : Silo!Trees,
             vault : Silo!VaultData \cup {Locked}, oldMissing : BOOLEAN, prepared : BOOLEAN,
             committed : BOOLEAN]

\* The journal changes in these parts at most.
SameBut(parts) ==
  /\ "open" \in parts \/ journal'.open = journal.open
  /\ "staged" \in parts \/ journal'.staged = journal.staged
  /\ "old" \in parts \/ journal'.old = journal.old
  /\ "discarded" \in parts \/ journal'.discarded = journal.discarded
  /\ "vault" \in parts \/ journal'.vault = journal.vault
  /\ "oldMissing" \in parts \/ journal'.oldMissing = journal.oldMissing
  /\ "prepared" \in parts \/ journal'.prepared = journal.prepared
  /\ "committed" \in parts \/ journal'.committed = journal.committed

LEMMA SiloFacts ==
  ASSUME SiloInv
  PROVE /\ managed \in Silo!Trees /\ vault \in Silo!VaultData /\ saved \in Silo!VaultData
        /\ opened \in Silo!VaultData \cup {Locked} /\ Locked \notin Silo!VaultData
        /\ hadTree \in BOOLEAN /\ torn \in BOOLEAN
        /\ restores \in Nat /\ failures \in Nat /\ crashes \in Nat
        /\ journal \in Journals
        /\ journal.open \in BOOLEAN /\ journal.oldMissing \in BOOLEAN
        /\ journal.prepared \in BOOLEAN /\ journal.committed \in BOOLEAN
        /\ journal.staged \in OwnTrees /\ journal.discarded \in OwnTrees
        /\ journal.old \in Silo!Trees /\ journal.vault \in Silo!VaultData \cup {Locked}
        /\ Missing \notin Nat /\ Foreign \notin Nat /\ Missing # Foreign
        /\ restoreCaller \in {"none", "unlock", "restore", "abandon", "rollback", "finish"}
        /\ Missing \in OwnTrees /\ Nat \subseteq OwnTrees
<1>1. /\ Missing \notin Nat /\ Foreign \notin Nat /\ Missing # Foreign
      /\ Locked \notin Silo!VaultData
  BY RestoreAssumption DEF Silo!RestoreAssumption, Silo!VaultData
<1>2. journal \in Journals
  BY DEF SiloInv, SiloTyped, Silo!TypeOK, Journals
<1>3. Missing \in OwnTrees /\ Nat \subseteq OwnTrees
  BY DEF OwnTrees
<1> QED BY <1>1, <1>2, <1>3 DEF SiloInv, SiloTyped, Silo!TypeOK, Journals

USE DEF Silo!Cleaning, Silo!Recovering, Silo!Preparing, Silo!Switching, Undoing, Transition, SameBut

LEMMA SiloTypedStays ==
  ASSUME SiloInv, managed' \in Silo!Trees, journal' \in Journals,
         journal'.staged \in OwnTrees, journal'.discarded \in OwnTrees,
         journal'.open \/ journal' = Silo!NoJournal,
         vault' \in Silo!VaultData, saved' \in Silo!VaultData,
         opened' \in Silo!VaultData \cup {Locked},
         restoreCaller' \in {"none", "unlock", "restore", "abandon", "rollback", "finish"},
         restorePc' \in {"idle"} \cup Silo!Preparing \cup Silo!Switching \cup Silo!Recovering
                        \cup Silo!Cleaning,
         hadTree' \in BOOLEAN, torn' \in BOOLEAN, restores' \in Nat, failures' \in Nat,
         crashes' \in Nat
  PROVE SiloTyped'
BY DEF SiloTyped, Silo!TypeOK, Journals


\* At rest only the open Vault matters.
LEMMA SiloRests ==
  ASSUME restorePc' = "idle", restoreCaller' = "none", RecoveryKeeps', opened' # Locked => Settled'
  PROVE SiloKept'
BY DEF SiloKept

\* A recovery or a cleanup has come to its end.
LEMMA SiloAnswers ==
  ASSUME SiloInv, Silo!RecoverOk, restoreCaller # "none", UNCHANGED <<managed, vault, torn>>,
         failures' \in Nat,
         \/ journal' = journal /\ (restorePc \in Silo!Cleaning \/ ~journal.open)
         \/ journal' = Silo!NoJournal /\ restorePc \in {"cleanDirectory", "dropJournal"}
  PROVE SiloInv'
<1>1. ~Transition
  BY SiloFacts DEF SiloInv, SiloTyped, JournalFits, Silo!NoJournal
<1>2. /\ journal' \in Journals /\ journal'.staged \in OwnTrees /\ journal'.discarded \in OwnTrees
      /\ journal'.open \/ journal' = Silo!NoJournal
      /\ ~Transition'
      /\ journal'.old # Missing => ~journal'.oldMissing
      /\ journal'.prepared => journal'.vault \in Silo!VaultData
  <2>1. CASE journal' = journal
    BY <1>1, <2>1, SiloFacts DEF SiloInv, SiloTyped, JournalFits
  <2>2. CASE journal' = Silo!NoJournal
    BY <2>2 DEF Silo!NoJournal, Journals, Silo!Trees, OwnTrees
  <2> QED BY <2>1, <2>2
<1>3. UNCHANGED <<saved, restores, crashes>> /\ hadTree' \in BOOLEAN
  BY SiloFacts DEF Silo!RecoverOk, Silo!Return
<1>4. restorePc \in Silo!Cleaning \cup Silo!Recovering
  BY DEF SiloInv, SiloCallers
<1>5. CASE restorePc' = "idle"
  <2>1. /\ restoreCaller' = "none"
        /\ opened' = IF restoreCaller = "unlock" THEN vault ELSE opened
    BY <1>5 DEF Silo!RecoverOk, Silo!Return
  <2>2. ~torn => Silo!Agree(managed, vault) /\ vault.edits >= saved.edits
    BY <1>1 DEF SiloInv, SiloKept, RecoveryKeeps
  <2>3. ~torn => RecoveryKeeps'
    BY <1>2, <1>3, <2>2 DEF RecoveryKeeps, Silo!Agree
  <2>4. ~torn /\ opened' # Locked => Settled'
    <3> SUFFICES ASSUME ~torn, opened' # Locked PROVE Settled'
      OBVIOUS
    <3>1. CASE restoreCaller = "unlock"
      BY <1>2, <2>1, <2>2, <3>1 DEF Settled, Silo!Agree
    <3>2. CASE restoreCaller \in {"restore", "abandon", "finish"}
      BY <1>2, <2>1, <3>2 DEF SiloInv, SiloKept, Settled, Silo!Agree
    <3>3. CASE restoreCaller = "rollback"
      BY <1>1, <1>2, <2>1, <3>3 DEF SiloInv, SiloKept, Settled, Silo!Agree
    <3> QED BY <3>1, <3>2, <3>3 DEF SiloInv, SiloTyped, Silo!TypeOK
  <2>11. SiloTyped'
    BY <1>1, <1>2, <1>3, <1>5, <2>1, <2>2, SiloFacts, SiloTypedStays
    DEF SiloInv, SiloTyped, JournalFits, SiloCallers, Silo!NoJournal
  <2>12. SiloCallers'
    BY <1>1, <1>2, <1>3, <1>5, <2>1, <2>2 DEF SiloInv, SiloCallers
  <2>13. JournalFits' /\ ForeignStands'
    BY <1>2, <1>5, SiloFacts DEF SiloInv, JournalFits, ForeignStands
  <2>14. ~torn' => SiloKept'
    BY <1>5, <2>1, <2>3, <2>4, SiloRests
  <2> QED BY <2>11, <2>12, <2>13, <2>14 DEF SiloInv
<1>6. CASE restorePc' = "journal"
  <2>1. /\ restoreCaller = "restore" /\ restoreCaller' = "none" /\ opened' = opened
        /\ hadTree' = (managed # Missing)
    BY <1>6 DEF Silo!RecoverOk, Silo!Return
  <2>2. ~torn => Settled /\ Silo!Agree(managed, vault) /\ vault.edits >= saved.edits
    BY <1>1, <2>1 DEF SiloInv, SiloKept, RecoveryKeeps
  <2>3. ~torn /\ ~hadTree' => opened.tree = Missing
    BY <2>1, <2>2, SiloFacts DEF Settled, Silo!Agree
  <2>4. hadTree' => managed # Missing
    BY <2>1
  <2>11. SiloTyped'
    BY <1>1, <1>2, <1>3, <1>6, <2>1, <2>2, <2>3, <2>4, SiloFacts, SiloTypedStays
    DEF SiloInv, SiloTyped, JournalFits, SiloCallers, Silo!NoJournal
  <2>12. SiloCallers'
    BY <1>1, <1>2, <1>3, <1>6, <2>1, <2>2, <2>3, <2>4 DEF SiloInv, SiloCallers
  <2>13. JournalFits' /\ ForeignStands'
    BY <1>1, <1>2, <1>3, <1>6, <2>1, <2>2, <2>3, <2>4, SiloFacts
    DEF SiloInv, JournalFits, ForeignStands
  <2>14. ~torn' => SiloKept'
    BY <1>1, <1>2, <1>3, <1>6, <2>1, <2>2, <2>3, <2>4, SiloFacts
    DEF SiloInv, SiloCallers, SiloKept, JournalFits, RecoveryKeeps, Settled, Silo!Agree,
        Silo!Restored
  <2> QED BY <2>11, <2>12, <2>13, <2>14 DEF SiloInv
<1> QED BY <1>5, <1>6 DEF Silo!RecoverOk, Silo!Return

\* What becomes of a Vault whose rollback failed, and of another call that an error ends.
LEMMA SiloGivesUp ==
  ASSUME SiloInv, Silo!RecoverError, restoreCaller # "none", UNCHANGED <<vault, torn>>,
         failures' \in Nat, managed' \in Silo!Trees, journal' \in Journals,
         journal'.staged \in OwnTrees, journal'.discarded \in OwnTrees,
         journal'.open \/ journal' = Silo!NoJournal,
         journal'.old # Missing => ~journal'.oldMissing,
         journal'.prepared => journal'.vault \in Silo!VaultData,
         managed' = Foreign /\ Transition' =>
           journal'.staged # Missing \/ (journal'.old = Missing /\ ~journal'.oldMissing),
         ~torn => RecoveryKeeps',
         Transition' => Transition, restoreCaller # "rollback" /\ ~torn /\ ~Transition =>
                                      managed' = managed
  PROVE SiloInv'
<1>1. /\ restorePc' = "idle" /\ restoreCaller' = "none" /\ UNCHANGED <<hadTree, saved, restores,
                                                                       crashes>>
      /\ opened' = IF restoreCaller = "rollback" THEN Locked ELSE opened
  BY DEF Silo!RecoverError, Silo!Return
<1>2. SiloTyped'
  BY <1>1, SiloFacts, SiloTypedStays
<1>3. SiloCallers'
  BY <1>1 DEF SiloCallers
<1>4. JournalFits' /\ ForeignStands'
  BY <1>1 DEF JournalFits, ForeignStands
<1>5. ASSUME ~torn, opened' # Locked PROVE Settled'
  <2>1. restoreCaller \in {"restore", "abandon", "finish"}
    BY <1>1, <1>5 DEF SiloInv, SiloCallers, SiloTyped, Silo!TypeOK
  <2>2. Settled
    BY <1>5, <2>1 DEF SiloInv, SiloKept
  <2>3. managed' = managed
    BY <1>5, <2>1, <2>2 DEF Settled
  <2> QED BY <1>1, <2>1, <2>2, <2>3 DEF Settled, Silo!Agree
<1>6. ~torn' => SiloKept'
  BY <1>1, <1>5, SiloRests
<1> QED BY <1>2, <1>3, <1>4, <1>6 DEF SiloInv

\* Nothing on disk has moved.
LEMMA SiloErrors ==
  ASSUME SiloInv, Silo!RecoverError, restoreCaller # "none",
         UNCHANGED <<managed, journal, vault, torn>>, failures' \in Nat
  PROVE SiloInv'
<1>1. /\ UNCHANGED saved
  BY DEF Silo!RecoverError, Silo!Return
<1>2. ~torn => RecoveryKeeps'
  BY <1>1 DEF SiloInv, SiloKept, RecoveryKeeps, Silo!Agree
<1>3. Transition' <=> Transition
  OBVIOUS
<1>4. managed = Foreign /\ Transition =>
        journal.staged # Missing \/ (journal.old = Missing /\ ~journal.oldMissing)
  BY DEF SiloInv, ForeignStands
<1>5. /\ journal.open \/ journal = Silo!NoJournal
      /\ journal.old # Missing => ~journal.oldMissing
      /\ journal.prepared => journal.vault \in Silo!VaultData
  BY DEF SiloInv, SiloTyped, JournalFits
<1> QED BY <1>2, <1>3, <1>4, <1>5, SiloFacts, SiloGivesUp

\* An error before the transition: whatever recovery then does is ignored.
LEMMA SiloAbandons ==
  ASSUME SiloInv, restorePc \in Silo!Preparing \ {"journal"}, Silo!Recover("abandon"),
         UNCHANGED <<managed, journal, vault, torn>>, failures' \in Nat
  PROVE SiloInv'
<1>1. /\ restorePc' = "recover" /\ restoreCaller' = "abandon"
      /\ UNCHANGED <<opened, hadTree, saved, restores, crashes>>
  BY DEF Silo!Recover
<1>11. SiloTyped'
  BY <1>1, SiloFacts, SiloTypedStays
  DEF SiloInv, SiloTyped, JournalFits, SiloCallers, Silo!NoJournal
<1>12. SiloCallers'
  BY <1>1 DEF SiloInv, SiloCallers
<1>13. JournalFits' /\ ForeignStands'
  BY <1>1, SiloFacts DEF SiloInv, JournalFits, ForeignStands
<1>14. ~torn' => SiloKept'
  BY <1>1, SiloFacts
  DEF SiloInv, SiloCallers, SiloKept, JournalFits, RecoveryKeeps, Settled, Silo!Agree, Silo!Restored
<1> QED BY <1>11, <1>12, <1>13, <1>14 DEF SiloInv

\* An error during the transition, before or after the Vault file was replaced.
LEMMA SiloRollsBack ==
  ASSUME SiloInv, restorePc \in Silo!Switching, Silo!Recover("rollback"),
         UNCHANGED <<managed, journal, torn>>, vault' \in Silo!VaultData, failures' \in Nat
  PROVE SiloInv'
<1>1. /\ restorePc' = "recover" /\ restoreCaller' = "rollback"
      /\ UNCHANGED <<opened, hadTree, saved, restores, crashes>>
  BY DEF Silo!Recover
<1>11. SiloTyped'
  BY <1>1, SiloFacts, SiloTypedStays
  DEF SiloInv, SiloTyped, JournalFits, SiloCallers, Silo!NoJournal
<1>12. SiloCallers'
  BY <1>1 DEF SiloInv, SiloCallers
<1>13. JournalFits' /\ ForeignStands'
  BY <1>1, SiloFacts DEF SiloInv, JournalFits, ForeignStands
<1>14. ~torn' => SiloKept'
  BY <1>1, SiloFacts
  DEF SiloInv, SiloCallers, SiloKept, JournalFits, RecoveryKeeps, Settled, Silo!Agree, Silo!Restored
<1> QED BY <1>11, <1>12, <1>13, <1>14 DEF SiloInv

\* An incomplete marker counts for recovery only.
LEMMA SiloTears ==
  ASSUME SiloInv, Silo!Recover("abandon") \/ Silo!Recover("rollback"),
         restorePc \in {"markMissing", "prepare", "commit"},
         UNCHANGED <<managed, vault>>, torn' = TRUE, failures' \in Nat,
         \/ SameBut({"oldMissing"}) /\ restorePc = "markMissing" /\ ~hadTree /\ journal' \in Journals
         \/ SameBut({"prepared"}) /\ restorePc = "prepare" /\ journal' \in Journals
         \/ SameBut({"committed"}) /\ restorePc = "commit" /\ journal' \in Journals
  PROVE SiloInv'
<1>1. /\ restorePc' = "recover" /\ restoreCaller' \in {"abandon", "rollback"}
      /\ UNCHANGED <<opened, hadTree, saved, restores, crashes>>
  BY DEF Silo!Recover
<1>11. SiloTyped'
  BY <1>1, SiloFacts, SiloTypedStays
  DEF SiloInv, SiloTyped, JournalFits, SiloCallers, Silo!NoJournal
<1>12. SiloCallers'
  BY <1>1 DEF SiloInv, SiloCallers
<1>13. JournalFits' /\ ForeignStands'
  BY <1>1, SiloFacts DEF SiloInv, JournalFits, ForeignStands
<1>14. ~torn' => SiloKept'
  BY <1>1, SiloFacts
  DEF SiloInv, SiloCallers, SiloKept, JournalFits, RecoveryKeeps, Settled, Silo!Agree, Silo!Restored
<1> QED BY <1>11, <1>12, <1>13, <1>14 DEF SiloInv

\* cleanup_committed
LEMMA SiloCleanOld ==
  ASSUME SiloInv, Silo!CleanOld
  PROVE SiloInv'
<1>1. CASE /\ Silo!SetJournal([journal EXCEPT !.old = Missing])
           /\ Silo!Succeed /\ Silo!Goto("cleanDiscarded")
  <2>1. journal' \in Journals /\ SameBut({"old"}) /\ journal'.old = Missing
    BY <1>1, SiloFacts DEF Silo!SetJournal, Silo!Trees, Journals
  <2>2. /\ UNCHANGED <<managed, vault, opened, restoreCaller, hadTree, saved, restores, crashes,
                       torn, failures>>
        /\ restorePc' = "cleanDiscarded" /\ restorePc = "cleanOld"
    BY <1>1 DEF Silo!SetJournal, Silo!Goto, Silo!Succeed, Silo!CleanOld, Silo!CleanStep
  <2>11. SiloTyped'
    BY <2>1, <2>2, SiloFacts, SiloTypedStays
    DEF SiloInv, SiloTyped, JournalFits, SiloCallers, Silo!NoJournal
  <2>12. SiloCallers'
    BY <2>1, <2>2 DEF SiloInv, SiloCallers
  <2>13. JournalFits' /\ ForeignStands'
    BY <2>1, <2>2, SiloFacts DEF SiloInv, JournalFits, ForeignStands
  <2>14. ~torn' => SiloKept'
    BY <2>1, <2>2, SiloFacts
    DEF SiloInv, SiloCallers, SiloKept, JournalFits, RecoveryKeeps, Settled, Silo!Agree,
        Silo!Restored
  <2> QED BY <2>11, <2>12, <2>13, <2>14 DEF SiloInv
<1>2. CASE UNCHANGED Silo!fsVars /\ Silo!FailUntorn /\ Silo!RecoverOk
  <2>1. /\ restoreCaller # "none" /\ restorePc \in Silo!Cleaning
        /\ UNCHANGED <<managed, journal, vault, torn>> /\ failures' \in Nat
    BY <1>2, SiloFacts DEF SiloInv, SiloCallers, Silo!fsVars, Silo!FailUntorn, Silo!Fail,
                           Silo!CleanOld, Silo!CleanStep
  <2> QED BY <1>2, <2>1, SiloAnswers
<1> QED BY <1>1, <1>2 DEF Silo!CleanOld, Silo!CleanStep

LEMMA SiloCleanDiscarded ==
  ASSUME SiloInv, Silo!CleanDiscarded
  PROVE SiloInv'
<1>1. CASE /\ Silo!SetJournal([journal EXCEPT !.discarded = Missing])
           /\ Silo!Succeed /\ Silo!Goto("cleanStaged")
  <2>1. journal' \in Journals /\ SameBut({"discarded"}) /\ journal'.discarded = Missing
    BY <1>1, SiloFacts DEF Silo!SetJournal, Silo!Trees, Journals
  <2>2. /\ UNCHANGED <<managed, vault, opened, restoreCaller, hadTree, saved, restores, crashes,
                       torn, failures>>
        /\ restorePc' = "cleanStaged" /\ restorePc = "cleanDiscarded"
    BY <1>1 DEF Silo!SetJournal, Silo!Goto, Silo!Succeed, Silo!CleanDiscarded, Silo!CleanStep
  <2>11. SiloTyped'
    BY <2>1, <2>2, SiloFacts, SiloTypedStays
    DEF SiloInv, SiloTyped, JournalFits, SiloCallers, Silo!NoJournal
  <2>12. SiloCallers'
    BY <2>1, <2>2 DEF SiloInv, SiloCallers
  <2>13. JournalFits' /\ ForeignStands'
    BY <2>1, <2>2, SiloFacts DEF SiloInv, JournalFits, ForeignStands
  <2>14. ~torn' => SiloKept'
    BY <2>1, <2>2, SiloFacts
    DEF SiloInv, SiloCallers, SiloKept, JournalFits, RecoveryKeeps, Settled, Silo!Agree,
        Silo!Restored
  <2> QED BY <2>11, <2>12, <2>13, <2>14 DEF SiloInv
<1>2. CASE UNCHANGED Silo!fsVars /\ Silo!FailUntorn /\ Silo!RecoverOk
  <2>1. /\ restoreCaller # "none" /\ restorePc \in Silo!Cleaning
        /\ UNCHANGED <<managed, journal, vault, torn>> /\ failures' \in Nat
    BY <1>2, SiloFacts DEF SiloInv, SiloCallers, Silo!fsVars, Silo!FailUntorn, Silo!Fail,
                           Silo!CleanDiscarded, Silo!CleanStep
  <2> QED BY <1>2, <2>1, SiloAnswers
<1> QED BY <1>1, <1>2 DEF Silo!CleanDiscarded, Silo!CleanStep

LEMMA SiloCleanStaged ==
  ASSUME SiloInv, Silo!CleanStaged
  PROVE SiloInv'
<1>1. CASE /\ Silo!SetJournal([journal EXCEPT !.staged = Missing])
           /\ Silo!Succeed /\ Silo!Goto("cleanPrepared")
  <2>1. journal' \in Journals /\ SameBut({"staged"}) /\ journal'.staged = Missing
    BY <1>1, SiloFacts DEF Silo!SetJournal, Silo!Trees, Journals
  <2>2. /\ UNCHANGED <<managed, vault, opened, restoreCaller, hadTree, saved, restores, crashes,
                       torn, failures>>
        /\ restorePc' = "cleanPrepared" /\ restorePc = "cleanStaged"
    BY <1>1 DEF Silo!SetJournal, Silo!Goto, Silo!Succeed, Silo!CleanStaged, Silo!CleanStep
  <2>11. SiloTyped'
    BY <2>1, <2>2, SiloFacts, SiloTypedStays
    DEF SiloInv, SiloTyped, JournalFits, SiloCallers, Silo!NoJournal
  <2>12. SiloCallers'
    BY <2>1, <2>2 DEF SiloInv, SiloCallers
  <2>13. JournalFits' /\ ForeignStands'
    BY <2>1, <2>2, SiloFacts DEF SiloInv, JournalFits, ForeignStands
  <2>14. ~torn' => SiloKept'
    BY <2>1, <2>2, SiloFacts
    DEF SiloInv, SiloCallers, SiloKept, JournalFits, RecoveryKeeps, Settled, Silo!Agree,
        Silo!Restored
  <2> QED BY <2>11, <2>12, <2>13, <2>14 DEF SiloInv
<1>2. CASE UNCHANGED Silo!fsVars /\ Silo!FailUntorn /\ Silo!RecoverOk
  <2>1. /\ restoreCaller # "none" /\ restorePc \in Silo!Cleaning
        /\ UNCHANGED <<managed, journal, vault, torn>> /\ failures' \in Nat
    BY <1>2, SiloFacts DEF SiloInv, SiloCallers, Silo!fsVars, Silo!FailUntorn, Silo!Fail,
                           Silo!CleanStaged, Silo!CleanStep
  <2> QED BY <1>2, <2>1, SiloAnswers
<1> QED BY <1>1, <1>2 DEF Silo!CleanStaged, Silo!CleanStep

LEMMA SiloCleanPrepared ==
  ASSUME SiloInv, Silo!CleanPrepared
  PROVE SiloInv'
<1>1. CASE /\ Silo!SetJournal([journal EXCEPT !.prepared = FALSE])
           /\ Silo!Succeed /\ Silo!Goto("cleanCommitted")
  <2>1. journal' \in Journals /\ SameBut({"prepared"}) /\ journal'.prepared = FALSE
    BY <1>1, SiloFacts DEF Silo!SetJournal, Silo!Trees, Journals
  <2>2. /\ UNCHANGED <<managed, vault, opened, restoreCaller, hadTree, saved, restores, crashes,
                       torn, failures>>
        /\ restorePc' = "cleanCommitted" /\ restorePc = "cleanPrepared"
    BY <1>1 DEF Silo!SetJournal, Silo!Goto, Silo!Succeed, Silo!CleanPrepared, Silo!CleanStep
  <2>11. SiloTyped'
    BY <2>1, <2>2, SiloFacts, SiloTypedStays
    DEF SiloInv, SiloTyped, JournalFits, SiloCallers, Silo!NoJournal
  <2>12. SiloCallers'
    BY <2>1, <2>2 DEF SiloInv, SiloCallers
  <2>13. JournalFits' /\ ForeignStands'
    BY <2>1, <2>2, SiloFacts DEF SiloInv, JournalFits, ForeignStands
  <2>14. ~torn' => SiloKept'
    BY <2>1, <2>2, SiloFacts
    DEF SiloInv, SiloCallers, SiloKept, JournalFits, RecoveryKeeps, Settled, Silo!Agree,
        Silo!Restored
  <2> QED BY <2>11, <2>12, <2>13, <2>14 DEF SiloInv
<1>2. CASE UNCHANGED Silo!fsVars /\ Silo!FailUntorn /\ Silo!RecoverOk
  <2>1. /\ restoreCaller # "none" /\ restorePc \in Silo!Cleaning
        /\ UNCHANGED <<managed, journal, vault, torn>> /\ failures' \in Nat
    BY <1>2, SiloFacts DEF SiloInv, SiloCallers, Silo!fsVars, Silo!FailUntorn, Silo!Fail,
                           Silo!CleanPrepared, Silo!CleanStep
  <2> QED BY <1>2, <2>1, SiloAnswers
<1> QED BY <1>1, <1>2 DEF Silo!CleanPrepared, Silo!CleanStep

LEMMA SiloCleanCommitted ==
  ASSUME SiloInv, Silo!CleanCommitted
  PROVE SiloInv'
<1>1. CASE /\ Silo!SetJournal([journal EXCEPT !.committed = FALSE])
           /\ Silo!Succeed /\ Silo!Goto("cleanDirectory")
  <2>1. journal' \in Journals /\ SameBut({"committed"}) /\ journal'.committed = FALSE
    BY <1>1, SiloFacts DEF Silo!SetJournal, Silo!Trees, Journals
  <2>2. /\ UNCHANGED <<managed, vault, opened, restoreCaller, hadTree, saved, restores, crashes,
                       torn, failures>>
        /\ restorePc' = "cleanDirectory" /\ restorePc = "cleanCommitted"
    BY <1>1 DEF Silo!SetJournal, Silo!Goto, Silo!Succeed, Silo!CleanCommitted, Silo!CleanStep
  <2>11. SiloTyped'
    BY <2>1, <2>2, SiloFacts, SiloTypedStays
    DEF SiloInv, SiloTyped, JournalFits, SiloCallers, Silo!NoJournal
  <2>12. SiloCallers'
    BY <2>1, <2>2 DEF SiloInv, SiloCallers
  <2>13. JournalFits' /\ ForeignStands'
    BY <2>1, <2>2, SiloFacts DEF SiloInv, JournalFits, ForeignStands
  <2>14. ~torn' => SiloKept'
    BY <2>1, <2>2, SiloFacts
    DEF SiloInv, SiloCallers, SiloKept, JournalFits, RecoveryKeeps, Settled, Silo!Agree,
        Silo!Restored
  <2> QED BY <2>11, <2>12, <2>13, <2>14 DEF SiloInv
<1>2. CASE UNCHANGED Silo!fsVars /\ Silo!FailUntorn /\ Silo!RecoverOk
  <2>1. /\ restoreCaller # "none" /\ restorePc \in Silo!Cleaning
        /\ UNCHANGED <<managed, journal, vault, torn>> /\ failures' \in Nat
    BY <1>2, SiloFacts DEF SiloInv, SiloCallers, Silo!fsVars, Silo!FailUntorn, Silo!Fail,
                           Silo!CleanCommitted, Silo!CleanStep
  <2> QED BY <1>2, <2>1, SiloAnswers
<1> QED BY <1>1, <1>2 DEF Silo!CleanCommitted, Silo!CleanStep

LEMMA SiloCleanDirectory ==
  ASSUME SiloInv, Silo!CleanDirectory
  PROVE SiloInv'
<1>1. /\ restoreCaller # "none" /\ restorePc = "cleanDirectory" /\ restorePc \in Silo!Cleaning
      /\ UNCHANGED <<managed, vault, torn>> /\ failures' \in Nat
      /\ journal' = journal \/ journal' = Silo!NoJournal
  BY SiloFacts DEF SiloInv, SiloCallers, Silo!fsVars, Silo!FailUntorn, Silo!Fail, Silo!Succeed,
                   Silo!SetJournal, Silo!CleanDirectory
<1> QED BY <1>1, SiloAnswers DEF Silo!CleanDirectory

\* recover_one_under_lease: the transition is taken back.
LEMMA SiloSetAside ==
  ASSUME SiloInv, Silo!SetAside
  PROVE SiloInv'
<1>1. CASE /\ journal' = [journal EXCEPT !.discarded = managed] /\ managed' = Missing
           /\ UNCHANGED vault /\ Silo!Succeed /\ Silo!Goto("putBack")
  <2>1. managed # Foreign /\ managed \in OwnTrees
    BY SiloFacts DEF SiloInv, ForeignStands, Silo!SetAside, Silo!RecoverStep, Silo!Step, OwnTrees,
                     Silo!Trees
  <2>2. journal' \in Journals /\ SameBut({"discarded"}) /\ journal'.discarded = managed
    BY <1>1, SiloFacts DEF Journals
  <2>3. /\ UNCHANGED <<vault, opened, restoreCaller, hadTree, saved, restores, crashes, torn,
                       failures>> /\ managed' = Missing
        /\ restorePc' = "putBack" /\ restorePc = "setAside"
    BY <1>1 DEF Silo!Goto, Silo!Succeed, Silo!SetAside, Silo!RecoverStep, Silo!Step
  <2>4. managed' \in Silo!Trees
    BY <2>3 DEF Silo!Trees
  <2>11. SiloTyped'
    BY <2>1, <2>2, <2>3, <2>4, SiloFacts, SiloTypedStays
    DEF SiloInv, SiloTyped, JournalFits, SiloCallers, Silo!NoJournal
  <2>12. SiloCallers'
    BY <2>1, <2>2, <2>3, <2>4 DEF SiloInv, SiloCallers
  <2>13. JournalFits' /\ ForeignStands'
    BY <2>1, <2>2, <2>3, <2>4, SiloFacts DEF SiloInv, JournalFits, ForeignStands
  <2>14. ~torn' => SiloKept'
    BY <2>1, <2>2, <2>3, <2>4, SiloFacts
    DEF SiloInv, SiloCallers, SiloKept, JournalFits, RecoveryKeeps, Settled, Silo!Agree,
        Silo!Restored
  <2> QED BY <2>11, <2>12, <2>13, <2>14 DEF SiloInv
<1>2. CASE UNCHANGED Silo!fsVars /\ Silo!FailUntorn /\ Silo!RecoverError
  <2>1. /\ restoreCaller # "none"
        /\ UNCHANGED <<managed, journal, vault, torn>> /\ failures' \in Nat
    BY <1>2, SiloFacts DEF SiloInv, SiloCallers, Silo!fsVars, Silo!FailUntorn, Silo!Fail,
                           Silo!SetAside, Silo!RecoverStep, Silo!Step
  <2> QED BY <1>2, <2>1, SiloErrors
<1> QED BY <1>1, <1>2 DEF Silo!SetAside, Silo!RecoverStep, Silo!Step

LEMMA SiloPutBack ==
  ASSUME SiloInv, Silo!PutBack
  PROVE SiloInv'
<1>1. /\ restorePc = "putBack" /\ restoreCaller # "none" /\ Transition /\ journal.open
      /\ journal.old # Missing /\ ~journal.oldMissing /\ managed = Missing
  BY DEF SiloInv, SiloCallers, JournalFits, ForeignStands, Silo!PutBack
<1>2. CASE /\ managed' = journal.old /\ journal' = [journal EXCEPT !.old = Missing]
           /\ UNCHANGED vault /\ Silo!Succeed /\ Silo!Goto("copyBack")
  <2>1. journal' \in Journals /\ SameBut({"old"}) /\ journal'.old = Missing
    BY <1>2, SiloFacts DEF Journals, Silo!Trees
  <2>2. /\ UNCHANGED <<vault, opened, restoreCaller, hadTree, saved, restores, crashes, torn,
                       failures>> /\ managed' = journal.old
        /\ restorePc' = "copyBack"
    BY <1>2 DEF Silo!Goto, Silo!Succeed
  <2>3. journal.old \in Silo!Trees
    BY SiloFacts
  <2>11. SiloTyped'
    BY <1>1, <2>1, <2>2, <2>3, SiloFacts, SiloTypedStays
    DEF SiloInv, SiloTyped, JournalFits, SiloCallers, Silo!NoJournal
  <2>12. SiloCallers'
    BY <1>1, <2>1, <2>2, <2>3 DEF SiloInv, SiloCallers
  <2>13. JournalFits' /\ ForeignStands'
    BY <1>1, <2>1, <2>2, <2>3, SiloFacts DEF SiloInv, JournalFits, ForeignStands
  <2>14. ~torn' => SiloKept'
    BY <1>1, <2>1, <2>2, <2>3, SiloFacts
    DEF SiloInv, SiloCallers, SiloKept, JournalFits, RecoveryKeeps, Settled, Silo!Agree,
        Silo!Restored
  <2> QED BY <2>11, <2>12, <2>13, <2>14 DEF SiloInv
<1>3. CASE UNCHANGED Silo!fsVars /\ Silo!FailUntorn /\ Silo!RecoverError
  <2>1. UNCHANGED <<managed, journal, vault, torn>> /\ failures' \in Nat
    BY <1>3, SiloFacts DEF Silo!fsVars, Silo!FailUntorn, Silo!Fail
  <2> QED BY <1>1, <1>3, <2>1, SiloErrors
<1>4. CASE /\ Silo!FailUntorn /\ Silo!RecoverError
           /\ journal.discarded # Missing /\ managed' = journal.discarded
           /\ journal' = [journal EXCEPT !.discarded = Missing] /\ UNCHANGED vault
  <2>1. journal' \in Journals /\ SameBut({"discarded"}) /\ journal'.discarded = Missing
    BY <1>4, SiloFacts DEF Journals, Silo!Trees
  <2>2. UNCHANGED <<vault, torn, saved>> /\ failures' \in Nat
    BY <1>4, SiloFacts DEF Silo!FailUntorn, Silo!Fail, Silo!RecoverError, Silo!Return
  <2>3. managed' \in OwnTrees /\ managed' \in Silo!Trees /\ managed' # Foreign
    BY <1>4, SiloFacts DEF OwnTrees, Silo!Trees
  <2>4. ~torn => RecoveryKeeps'
    BY <1>1, <2>1, <2>2 DEF SiloInv, SiloKept, RecoveryKeeps, Silo!Agree
  <2>5. /\ journal'.staged \in OwnTrees /\ journal'.discarded \in OwnTrees /\ journal'.open
        /\ journal'.old # Missing => ~journal'.oldMissing
        /\ journal'.prepared => journal'.vault \in Silo!VaultData
    BY <1>1, <2>1, SiloFacts DEF SiloInv, JournalFits, OwnTrees
  <2> QED BY <1>1, <1>4, <2>2, <2>1, <2>3, <2>4, <2>5, SiloGivesUp
<1> QED BY <1>2, <1>3, <1>4 DEF Silo!PutBack

LEMMA SiloRemoveRestored ==
  ASSUME SiloInv, Silo!RemoveRestored
  PROVE SiloInv'
<1>1. CASE managed' = Missing /\ UNCHANGED <<journal, vault>>
                              /\ Silo!Succeed /\ Silo!Goto("copyBack")
  <2>1. /\ journal' = journal /\ journal \in Journals /\ UNCHANGED <<vault, opened, restoreCaller,
                                                                     hadTree, saved, restores,
                                                                     crashes, torn, failures>>
        /\ managed' = Missing /\ restorePc' = "copyBack" /\ restorePc = "removeRestored"
    BY <1>1, SiloFacts DEF Silo!Goto, Silo!Succeed, Silo!RemoveRestored, Silo!RecoverStep,
                           Silo!Step
  <2>2. managed' \in Silo!Trees
    BY <2>1 DEF Silo!Trees
  <2>11. SiloTyped'
    BY <2>1, <2>2, SiloFacts, SiloTypedStays
    DEF SiloInv, SiloTyped, JournalFits, SiloCallers, Silo!NoJournal
  <2>12. SiloCallers'
    BY <2>1, <2>2 DEF SiloInv, SiloCallers
  <2>13. JournalFits' /\ ForeignStands'
    BY <2>1, <2>2, SiloFacts DEF SiloInv, JournalFits, ForeignStands
  <2>14. ~torn' => SiloKept'
    BY <2>1, <2>2, SiloFacts
    DEF SiloInv, SiloCallers, SiloKept, JournalFits, RecoveryKeeps, Settled, Silo!Agree,
        Silo!Restored
  <2> QED BY <2>11, <2>12, <2>13, <2>14 DEF SiloInv
<1>2. CASE UNCHANGED Silo!fsVars /\ Silo!FailUntorn /\ Silo!RecoverError
  <2>1. /\ restoreCaller # "none"
        /\ UNCHANGED <<managed, journal, vault, torn>> /\ failures' \in Nat
    BY <1>2, SiloFacts DEF SiloInv, SiloCallers, Silo!fsVars, Silo!FailUntorn, Silo!Fail,
                           Silo!RemoveRestored, Silo!RecoverStep, Silo!Step
  <2> QED BY <1>2, <2>1, SiloErrors
<1> QED BY <1>1, <1>2 DEF Silo!RemoveRestored, Silo!RecoverStep, Silo!Step

LEMMA SiloCopyBack ==
  ASSUME SiloInv, Silo!CopyBack
  PROVE SiloInv'
<1>1. CASE UNCHANGED Silo!fsVars /\ Silo!Succeed /\ Silo!Goto("replaceVault")
  <2>1. /\ journal' = journal /\ journal \in Journals /\ UNCHANGED <<managed, vault, opened,
                                                                     restoreCaller, hadTree,
                                                                     saved, restores, crashes,
                                                                     torn, failures>>
        /\ restorePc' = "replaceVault" /\ restorePc = "copyBack"
    BY <1>1, SiloFacts DEF Silo!fsVars, Silo!Goto, Silo!Succeed, Silo!CopyBack, Silo!RecoverStep,
                           Silo!Step
  <2>11. SiloTyped'
    BY <2>1, SiloFacts, SiloTypedStays
    DEF SiloInv, SiloTyped, JournalFits, SiloCallers, Silo!NoJournal
  <2>12. SiloCallers'
    BY <2>1 DEF SiloInv, SiloCallers
  <2>13. JournalFits' /\ ForeignStands'
    BY <2>1, SiloFacts DEF SiloInv, JournalFits, ForeignStands
  <2>14. ~torn' => SiloKept'
    BY <2>1, SiloFacts
    DEF SiloInv, SiloCallers, SiloKept, JournalFits, RecoveryKeeps, Settled, Silo!Agree,
        Silo!Restored
  <2> QED BY <2>11, <2>12, <2>13, <2>14 DEF SiloInv
<1>2. CASE UNCHANGED Silo!fsVars /\ Silo!FailUntorn /\ Silo!RecoverError
  <2>1. /\ restoreCaller # "none"
        /\ UNCHANGED <<managed, journal, vault, torn>> /\ failures' \in Nat
    BY <1>2, SiloFacts DEF SiloInv, SiloCallers, Silo!fsVars, Silo!FailUntorn, Silo!Fail,
                           Silo!CopyBack, Silo!RecoverStep, Silo!Step
  <2> QED BY <1>2, <2>1, SiloErrors
<1> QED BY <1>1, <1>2 DEF Silo!CopyBack, Silo!RecoverStep, Silo!Step

LEMMA SiloReplaceVault ==
  ASSUME SiloInv, Silo!ReplaceVault
  PROVE SiloInv'
<1>1. CASE /\ vault' = journal.vault /\ UNCHANGED <<managed, journal>>
           /\ Silo!Succeed /\ Silo!Goto("dropDiscarded")
  <2>1. /\ journal' = journal /\ journal \in Journals /\ UNCHANGED <<managed, opened,
                                                                     restoreCaller, hadTree,
                                                                     saved, restores, crashes,
                                                                     torn, failures>>
        /\ vault' = journal.vault
        /\ restorePc' = "dropDiscarded" /\ restorePc = "replaceVault"
    BY <1>1, SiloFacts DEF Silo!Goto, Silo!Succeed, Silo!ReplaceVault, Silo!RecoverStep, Silo!Step
  <2>11. SiloTyped'
    BY <2>1, SiloFacts, SiloTypedStays
    DEF SiloInv, SiloTyped, JournalFits, SiloCallers, Silo!NoJournal
  <2>12. SiloCallers'
    BY <2>1 DEF SiloInv, SiloCallers
  <2>13. JournalFits' /\ ForeignStands'
    BY <2>1, SiloFacts DEF SiloInv, JournalFits, ForeignStands
  <2>14. ~torn' => SiloKept'
    BY <2>1, SiloFacts
    DEF SiloInv, SiloCallers, SiloKept, JournalFits, RecoveryKeeps, Settled, Silo!Agree,
        Silo!Restored
  <2> QED BY <2>11, <2>12, <2>13, <2>14 DEF SiloInv
<1>2. CASE UNCHANGED Silo!fsVars /\ Silo!FailUntorn /\ Silo!RecoverError
  <2>1. /\ restoreCaller # "none"
        /\ UNCHANGED <<managed, journal, vault, torn>> /\ failures' \in Nat
    BY <1>2, SiloFacts DEF SiloInv, SiloCallers, Silo!fsVars, Silo!FailUntorn, Silo!Fail,
                           Silo!ReplaceVault, Silo!RecoverStep, Silo!Step
  <2> QED BY <1>2, <2>1, SiloErrors
<1> QED BY <1>1, <1>2 DEF Silo!ReplaceVault, Silo!RecoverStep, Silo!Step

LEMMA SiloDropDiscarded ==
  ASSUME SiloInv, Silo!DropDiscarded
  PROVE SiloInv'
<1>1. CASE /\ Silo!SetJournal([journal EXCEPT !.discarded = Missing])
           /\ Silo!Succeed /\ Silo!Goto("unprepare")
  <2>1. journal' \in Journals /\ SameBut({"discarded"}) /\ journal'.discarded = Missing
    BY <1>1, SiloFacts DEF Silo!SetJournal, Silo!Trees, Journals
  <2>2. /\ UNCHANGED <<managed, vault, opened, restoreCaller, hadTree, saved, restores, crashes,
                       torn, failures>>
        /\ restorePc' = "unprepare" /\ restorePc = "dropDiscarded"
    BY <1>1 DEF Silo!SetJournal, Silo!Goto, Silo!Succeed, Silo!DropDiscarded, Silo!RecoverStep,
                Silo!Step
  <2>11. SiloTyped'
    BY <2>1, <2>2, SiloFacts, SiloTypedStays
    DEF SiloInv, SiloTyped, JournalFits, SiloCallers, Silo!NoJournal
  <2>12. SiloCallers'
    BY <2>1, <2>2 DEF SiloInv, SiloCallers
  <2>13. JournalFits' /\ ForeignStands'
    BY <2>1, <2>2, SiloFacts DEF SiloInv, JournalFits, ForeignStands
  <2>14. ~torn' => SiloKept'
    BY <2>1, <2>2, SiloFacts
    DEF SiloInv, SiloCallers, SiloKept, JournalFits, RecoveryKeeps, Settled, Silo!Agree,
        Silo!Restored
  <2> QED BY <2>11, <2>12, <2>13, <2>14 DEF SiloInv
<1>2. CASE UNCHANGED Silo!fsVars /\ Silo!FailUntorn /\ Silo!RecoverError
  <2>1. /\ restoreCaller # "none"
        /\ UNCHANGED <<managed, journal, vault, torn>> /\ failures' \in Nat
    BY <1>2, SiloFacts DEF SiloInv, SiloCallers, Silo!fsVars, Silo!FailUntorn, Silo!Fail,
                           Silo!DropDiscarded, Silo!RecoverStep, Silo!Step
  <2> QED BY <1>2, <2>1, SiloErrors
<1> QED BY <1>1, <1>2 DEF Silo!DropDiscarded, Silo!RecoverStep, Silo!Step

LEMMA SiloUnprepare ==
  ASSUME SiloInv, Silo!Unprepare
  PROVE SiloInv'
<1>1. CASE /\ Silo!SetJournal([journal EXCEPT !.prepared = FALSE])
           /\ Silo!Succeed /\ Silo!Goto("dropJournal")
  <2>1. journal' \in Journals /\ SameBut({"prepared"}) /\ journal'.prepared = FALSE
    BY <1>1, SiloFacts DEF Silo!SetJournal, Silo!Trees, Journals
  <2>2. /\ UNCHANGED <<managed, vault, opened, restoreCaller, hadTree, saved, restores, crashes,
                       torn, failures>>
        /\ restorePc' = "dropJournal" /\ restorePc = "unprepare"
    BY <1>1 DEF Silo!SetJournal, Silo!Goto, Silo!Succeed, Silo!Unprepare, Silo!RecoverStep,
                Silo!Step
  <2>11. SiloTyped'
    BY <2>1, <2>2, SiloFacts, SiloTypedStays
    DEF SiloInv, SiloTyped, JournalFits, SiloCallers, Silo!NoJournal
  <2>12. SiloCallers'
    BY <2>1, <2>2 DEF SiloInv, SiloCallers
  <2>13. JournalFits' /\ ForeignStands'
    BY <2>1, <2>2, SiloFacts DEF SiloInv, JournalFits, ForeignStands
  <2>14. ~torn' => SiloKept'
    BY <2>1, <2>2, SiloFacts
    DEF SiloInv, SiloCallers, SiloKept, JournalFits, RecoveryKeeps, Settled, Silo!Agree,
        Silo!Restored
  <2> QED BY <2>11, <2>12, <2>13, <2>14 DEF SiloInv
<1>2. CASE UNCHANGED Silo!fsVars /\ Silo!FailUntorn /\ Silo!RecoverError
  <2>1. /\ restoreCaller # "none"
        /\ UNCHANGED <<managed, journal, vault, torn>> /\ failures' \in Nat
    BY <1>2, SiloFacts DEF SiloInv, SiloCallers, Silo!fsVars, Silo!FailUntorn, Silo!Fail,
                           Silo!Unprepare, Silo!RecoverStep, Silo!Step
  <2> QED BY <1>2, <2>1, SiloErrors
<1> QED BY <1>1, <1>2 DEF Silo!Unprepare, Silo!RecoverStep, Silo!Step

LEMMA SiloDropJournal ==
  ASSUME SiloInv, Silo!DropJournal
  PROVE SiloInv'
<1>1. /\ restoreCaller # "none" /\ restorePc = "dropJournal"
      /\ UNCHANGED <<managed, vault, torn>> /\ failures' \in Nat
  BY SiloFacts DEF SiloInv, SiloCallers, Silo!fsVars, Silo!FailUntorn, Silo!Fail, Silo!Succeed,
                   Silo!SetJournal, Silo!DropJournal
<1>2. CASE Silo!SetJournal(Silo!NoJournal) /\ Silo!Succeed /\ Silo!RecoverOk
  BY <1>1, <1>2, SiloAnswers DEF Silo!SetJournal
<1>3. CASE UNCHANGED Silo!fsVars /\ Silo!FailUntorn /\ Silo!RecoverError
  BY <1>1, <1>3, SiloErrors DEF Silo!fsVars
<1> QED BY <1>2, <1>3 DEF Silo!DropJournal

\* recover_one: what the journal says to do
LEMMA SiloRecoverStart ==
  ASSUME SiloInv, Silo!RecoverStart
  PROVE SiloInv'
<1>1. /\ restoreCaller # "none" /\ restorePc = "recover"
      /\ UNCHANGED <<managed, journal, vault>>
  BY DEF SiloInv, SiloCallers, Silo!fsVars, Silo!RecoverStart
<1>2. CASE ~journal.open /\ Silo!Succeed /\ Silo!RecoverOk
  BY <1>1, <1>2, SiloFacts, SiloAnswers DEF Silo!Succeed
<1>3. CASE journal.open /\ Silo!FailUntorn /\ Silo!RecoverError
  BY <1>1, <1>3, SiloFacts, SiloErrors DEF Silo!FailUntorn, Silo!Fail
<1>4. CASE journal.committed /\ Silo!Succeed /\ Silo!Goto("cleanOld")
  <2>1. /\ journal' = journal /\ journal \in Journals /\ UNCHANGED <<managed, vault, opened,
                                                                     restoreCaller, hadTree,
                                                                     saved, restores, crashes,
                                                                     torn, failures>>
        /\ restorePc' = "cleanOld"
    BY <1>1, <1>4, SiloFacts DEF Silo!Goto, Silo!Succeed
  <2>11. SiloTyped'
    BY <1>1, <1>4, <2>1, SiloFacts, SiloTypedStays
    DEF SiloInv, SiloTyped, JournalFits, SiloCallers, Silo!NoJournal
  <2>12. SiloCallers'
    BY <1>1, <1>4, <2>1 DEF SiloInv, SiloCallers
  <2>13. JournalFits' /\ ForeignStands'
    BY <1>1, <1>4, <2>1, SiloFacts DEF SiloInv, JournalFits, ForeignStands
  <2>14. ~torn' => SiloKept'
    BY <1>1, <1>4, <2>1, SiloFacts
    DEF SiloInv, SiloCallers, SiloKept, JournalFits, RecoveryKeeps, Settled, Silo!Agree,
        Silo!Restored
  <2> QED BY <2>11, <2>12, <2>13, <2>14 DEF SiloInv
<1>5. CASE /\ journal.open /\ ~journal.committed /\ ~journal.prepared
           /\ Silo!Succeed /\ Silo!Goto("dropJournal")
  <2>1. /\ journal' = journal /\ journal \in Journals /\ UNCHANGED <<managed, vault, opened,
                                                                     restoreCaller, hadTree,
                                                                     saved, restores, crashes,
                                                                     torn, failures>>
        /\ restorePc' = "dropJournal"
    BY <1>1, <1>5, SiloFacts DEF Silo!Goto, Silo!Succeed
  <2>11. SiloTyped'
    BY <1>1, <1>5, <2>1, SiloFacts, SiloTypedStays
    DEF SiloInv, SiloTyped, JournalFits, SiloCallers, Silo!NoJournal
  <2>12. SiloCallers'
    BY <1>1, <1>5, <2>1 DEF SiloInv, SiloCallers
  <2>13. JournalFits' /\ ForeignStands'
    BY <1>1, <1>5, <2>1, SiloFacts DEF SiloInv, JournalFits, ForeignStands
  <2>14. ~torn' => SiloKept'
    BY <1>1, <1>5, <2>1, SiloFacts
    DEF SiloInv, SiloCallers, SiloKept, JournalFits, RecoveryKeeps, Settled, Silo!Agree,
        Silo!Restored
  <2> QED BY <2>11, <2>12, <2>13, <2>14 DEF SiloInv
<1>6. CASE ~journal.committed /\ journal.prepared /\ Silo!Succeed /\ Silo!Conflict /\ Silo!RecoverError
  BY <1>1, <1>6, SiloFacts, SiloErrors DEF Silo!Succeed
<1>7. CASE /\ ~journal.committed /\ journal.prepared /\ Silo!Succeed
           /\ ~Silo!Conflict /\ Silo!Goto(Silo!RollbackStart)
  <2>1. /\ journal' = journal /\ journal \in Journals /\ UNCHANGED <<managed, vault, opened,
                                                                     restoreCaller, hadTree,
                                                                     saved, restores, crashes,
                                                                     torn, failures>>
        /\ Transition /\ journal.open
    BY <1>1, <1>7, SiloFacts DEF SiloInv, SiloTyped, Silo!NoJournal, Silo!Goto, Silo!Succeed
  <2>2. managed = Foreign => journal.old = Missing /\ ~journal.oldMissing
    BY <1>7, <2>1, SiloFacts DEF SiloInv, ForeignStands, Silo!Conflict
  <2>3. CASE journal.old # Missing /\ managed # Missing /\ restorePc' = "setAside"
    <3>11. SiloTyped'
      BY <1>1, <2>1, <2>2, <2>3, SiloFacts, SiloTypedStays
      DEF SiloInv, SiloTyped, JournalFits, SiloCallers, Silo!NoJournal
    <3>12. SiloCallers'
      BY <1>1, <2>1, <2>2, <2>3 DEF SiloInv, SiloCallers
    <3>13. JournalFits' /\ ForeignStands'
      BY <1>1, <2>1, <2>2, <2>3, SiloFacts DEF SiloInv, JournalFits, ForeignStands
    <3>14. ~torn' => SiloKept'
      BY <1>1, <2>1, <2>2, <2>3, SiloFacts
      DEF SiloInv, SiloCallers, SiloKept, JournalFits, RecoveryKeeps, Settled, Silo!Agree,
          Silo!Restored
    <3> QED BY <3>11, <3>12, <3>13, <3>14 DEF SiloInv
  <2>4. CASE journal.old # Missing /\ managed = Missing /\ restorePc' = "putBack"
    <3>11. SiloTyped'
      BY <1>1, <2>1, <2>2, <2>4, SiloFacts, SiloTypedStays
      DEF SiloInv, SiloTyped, JournalFits, SiloCallers, Silo!NoJournal
    <3>12. SiloCallers'
      BY <1>1, <2>1, <2>2, <2>4 DEF SiloInv, SiloCallers
    <3>13. JournalFits' /\ ForeignStands'
      BY <1>1, <2>1, <2>2, <2>4, SiloFacts DEF SiloInv, JournalFits, ForeignStands
    <3>14. ~torn' => SiloKept'
      BY <1>1, <2>1, <2>2, <2>4, SiloFacts
      DEF SiloInv, SiloCallers, SiloKept, JournalFits, RecoveryKeeps, Settled, Silo!Agree,
          Silo!Restored
    <3> QED BY <3>11, <3>12, <3>13, <3>14 DEF SiloInv
  <2>5. CASE journal.old = Missing /\ journal.oldMissing /\ restorePc' = "removeRestored"
    <3>11. SiloTyped'
      BY <1>1, <2>1, <2>2, <2>5, SiloFacts, SiloTypedStays
      DEF SiloInv, SiloTyped, JournalFits, SiloCallers, Silo!NoJournal
    <3>12. SiloCallers'
      BY <1>1, <2>1, <2>2, <2>5 DEF SiloInv, SiloCallers
    <3>13. JournalFits' /\ ForeignStands'
      BY <1>1, <2>1, <2>2, <2>5, SiloFacts DEF SiloInv, JournalFits, ForeignStands
    <3>14. ~torn' => SiloKept'
      BY <1>1, <2>1, <2>2, <2>5, SiloFacts
      DEF SiloInv, SiloCallers, SiloKept, JournalFits, RecoveryKeeps, Settled, Silo!Agree,
          Silo!Restored
    <3> QED BY <3>11, <3>12, <3>13, <3>14 DEF SiloInv
  <2>6. CASE journal.old = Missing /\ ~journal.oldMissing /\ restorePc' = "copyBack"
    <3>11. SiloTyped'
      BY <1>1, <2>1, <2>2, <2>6, SiloFacts, SiloTypedStays
      DEF SiloInv, SiloTyped, JournalFits, SiloCallers, Silo!NoJournal
    <3>12. SiloCallers'
      BY <1>1, <2>1, <2>2, <2>6 DEF SiloInv, SiloCallers
    <3>13. JournalFits' /\ ForeignStands'
      BY <1>1, <2>1, <2>2, <2>6, SiloFacts DEF SiloInv, JournalFits, ForeignStands
    <3>14. ~torn' => SiloKept'
      BY <1>1, <2>1, <2>2, <2>6, SiloFacts
      DEF SiloInv, SiloCallers, SiloKept, JournalFits, RecoveryKeeps, Settled, Silo!Agree,
          Silo!Restored
    <3> QED BY <3>11, <3>12, <3>13, <3>14 DEF SiloInv
  <2>7. restorePc' = Silo!RollbackStart
    BY <1>7 DEF Silo!Goto
  <2> QED BY <2>3, <2>4, <2>5, <2>6, <2>7 DEF Silo!RollbackStart
<1> QED BY <1>2, <1>3, <1>4, <1>5, <1>6, <1>7 DEF Silo!RecoverStart

\* VaultRuntime's own operations
LEMMA SiloUnlock ==
  ASSUME SiloInv, Silo!Unlock
  PROVE SiloInv'
<1>1. /\ journal' = journal /\ journal \in Journals
      /\ UNCHANGED <<managed, vault, hadTree, saved, restores, crashes, torn,
                     failures>> /\ opened' = opened
      /\ restorePc = "idle" /\ opened = Locked
      /\ restorePc' = "recover" /\ restoreCaller' = "unlock"
  BY SiloFacts DEF Silo!fsVars, Silo!Succeed, Silo!Recover, Silo!Unlock
<1>11. SiloTyped'
  BY <1>1, SiloFacts, SiloTypedStays
  DEF SiloInv, SiloTyped, JournalFits, SiloCallers, Silo!NoJournal
<1>12. SiloCallers'
  BY <1>1 DEF SiloInv, SiloCallers
<1>13. JournalFits' /\ ForeignStands'
  BY <1>1, SiloFacts DEF SiloInv, JournalFits, ForeignStands
<1>14. ~torn' => SiloKept'
  BY <1>1, SiloFacts
  DEF SiloInv, SiloCallers, SiloKept, JournalFits, RecoveryKeeps, Settled, Silo!Agree, Silo!Restored
<1> QED BY <1>11, <1>12, <1>13, <1>14 DEF SiloInv

LEMMA SiloLock ==
  ASSUME SiloInv, Silo!Lock
  PROVE SiloInv'
<1>1. /\ journal' = journal /\ journal \in Journals
      /\ UNCHANGED <<managed, vault, restoreCaller, hadTree, saved, restores, crashes, torn,
                     failures>>
      /\ restorePc = "idle" /\ restorePc' = "idle" /\ opened' = Locked
  BY SiloFacts DEF Silo!fsVars, Silo!Lock
<1>11. SiloTyped'
  BY <1>1, SiloFacts, SiloTypedStays
  DEF SiloInv, SiloTyped, JournalFits, SiloCallers, Silo!NoJournal
<1>12. SiloCallers'
  BY <1>1 DEF SiloInv, SiloCallers
<1>13. JournalFits' /\ ForeignStands'
  BY <1>1, SiloFacts DEF SiloInv, JournalFits, ForeignStands
<1>14. ~torn' => SiloKept'
  BY <1>1, SiloFacts
  DEF SiloInv, SiloCallers, SiloKept, JournalFits, RecoveryKeeps, Settled, Silo!Agree, Silo!Restored
<1> QED BY <1>11, <1>12, <1>13, <1>14 DEF SiloInv

LEMMA SiloEdit ==
  ASSUME SiloInv, Silo!Edit
  PROVE SiloInv'
<1>1. /\ journal' = journal /\ journal \in Journals
      /\ UNCHANGED <<managed, restoreCaller, hadTree, restores, crashes, torn, failures>>
      /\ restorePc = "idle" /\ restorePc' = "idle" /\ opened # Locked
      /\ vault' = opened' /\ saved' = opened'
  BY SiloFacts DEF Silo!Edit
<1>2. /\ opened' \in Silo!VaultData /\ opened'.tree = opened.tree
  BY SiloFacts DEF Silo!Edit, Silo!VaultData
<1>3. opened'.edits >= saved'.edits
  BY <1>1, <1>2 DEF Silo!VaultData
<1>4. opened' # Locked
  BY <1>2, SiloFacts
<1>11. SiloTyped'
  BY <1>1, <1>2, <1>3, <1>4, SiloFacts, SiloTypedStays
  DEF SiloInv, SiloTyped, JournalFits, SiloCallers, Silo!NoJournal
<1>12. SiloCallers'
  BY <1>1, <1>2, <1>3, <1>4 DEF SiloInv, SiloCallers
<1>13. JournalFits' /\ ForeignStands'
  BY <1>1, <1>2, <1>3, <1>4, SiloFacts DEF SiloInv, JournalFits, ForeignStands
<1>14. ~torn' => SiloKept'
  BY <1>1, <1>2, <1>3, <1>4, SiloFacts
  DEF SiloInv, SiloCallers, SiloKept, JournalFits, RecoveryKeeps, Settled, Silo!Agree, Silo!Restored
<1> QED BY <1>11, <1>12, <1>13, <1>14 DEF SiloInv

LEMMA SiloRestoreManaged ==
  ASSUME SiloInv, Silo!RestoreManaged
  PROVE SiloInv'
<1>1. /\ journal' = journal /\ journal \in Journals
      /\ UNCHANGED <<managed, vault, opened, hadTree, saved, crashes, torn, failures>>
      /\ restores' \in Nat
      /\ restorePc = "idle" /\ opened # Locked
      /\ restorePc' = "recover" /\ restoreCaller' = "restore"
  BY SiloFacts DEF Silo!fsVars, Silo!RestoreManaged
<1>11. SiloTyped'
  BY <1>1, SiloFacts, SiloTypedStays
  DEF SiloInv, SiloTyped, JournalFits, SiloCallers, Silo!NoJournal
<1>12. SiloCallers'
  BY <1>1 DEF SiloInv, SiloCallers
<1>13. JournalFits' /\ ForeignStands'
  BY <1>1, SiloFacts DEF SiloInv, JournalFits, ForeignStands
<1>14. ~torn' => SiloKept'
  BY <1>1, SiloFacts
  DEF SiloInv, SiloCallers, SiloKept, JournalFits, RecoveryKeeps, Settled, Silo!Agree, Silo!Restored
<1> QED BY <1>11, <1>12, <1>13, <1>14 DEF SiloInv

\* restore_managed_silo_backup: the preparation
LEMMA SiloCreateJournal ==
  ASSUME SiloInv, Silo!CreateJournal
  PROVE SiloInv'
<1>1. restorePc = "journal" /\ restoreCaller = "none" /\ opened # Locked
  BY DEF SiloInv, SiloTyped, SiloCallers, Silo!CreateJournal
<1>2. CASE /\ ~journal.open /\ Silo!SetJournal([Silo!NoJournal EXCEPT !.open = TRUE])
           /\ Silo!Succeed /\ Silo!Goto("stage")
  <2>1. /\ journal'.open /\ journal'.staged = Missing /\ journal'.old = Missing
        /\ journal'.discarded = Missing /\ ~journal'.oldMissing /\ ~journal'.prepared
        /\ ~journal'.committed
    BY <1>2 DEF Silo!SetJournal, Silo!NoJournal
  <2>2. journal' \in Journals
    BY <1>2 DEF Silo!SetJournal, Silo!NoJournal, Journals, Silo!Trees
  <2>3. /\ UNCHANGED <<managed, vault, opened, restoreCaller, hadTree, saved, restores, crashes,
                       torn, failures>>
        /\ restorePc' = "stage"
    BY <1>2 DEF Silo!SetJournal, Silo!Goto, Silo!Succeed
  <2>11. SiloTyped'
    BY <1>1, <2>1, <2>2, <2>3, SiloFacts, SiloTypedStays
    DEF SiloInv, SiloTyped, JournalFits, SiloCallers, Silo!NoJournal
  <2>12. SiloCallers'
    BY <1>1, <2>1, <2>2, <2>3 DEF SiloInv, SiloCallers
  <2>13. JournalFits' /\ ForeignStands'
    BY <1>1, <2>1, <2>2, <2>3, SiloFacts DEF SiloInv, JournalFits, ForeignStands
  <2>14. ~torn' => SiloKept'
    BY <1>1, <2>1, <2>2, <2>3, SiloFacts
    DEF SiloInv, SiloCallers, SiloKept, JournalFits, RecoveryKeeps, Settled, Silo!Agree,
        Silo!Restored
  <2> QED BY <2>11, <2>12, <2>13, <2>14 DEF SiloInv
<1>3. CASE /\ UNCHANGED <<managed, journal, vault, torn, opened>>
           /\ failures' \in Nat /\ Silo!Return
  <2>1. /\ journal' = journal /\ journal \in Journals /\ failures' \in Nat
        /\ UNCHANGED <<managed, vault, opened, hadTree, saved, restores, crashes, torn>>
        /\ restorePc' = "idle" /\ restoreCaller' = "none"
    BY <1>3, SiloFacts DEF Silo!Return
  <2>11. SiloTyped'
    BY <1>1, <2>1, SiloFacts, SiloTypedStays
    DEF SiloInv, SiloTyped, JournalFits, SiloCallers, Silo!NoJournal
  <2>12. SiloCallers'
    BY <1>1, <2>1 DEF SiloInv, SiloCallers
  <2>13. JournalFits' /\ ForeignStands'
    BY <1>1, <2>1, SiloFacts DEF SiloInv, JournalFits, ForeignStands
  <2>14. ~torn' => SiloKept'
    BY <1>1, <2>1, SiloFacts
    DEF SiloInv, SiloCallers, SiloKept, JournalFits, RecoveryKeeps, Settled, Silo!Agree,
        Silo!Restored
  <2> QED BY <2>11, <2>12, <2>13, <2>14 DEF SiloInv
<1> QED BY <1>2, <1>3, SiloFacts DEF Silo!CreateJournal, Silo!fsVars, Silo!FailUntorn, Silo!Fail,
                                     Silo!Succeed

LEMMA SiloStage ==
  ASSUME SiloInv, Silo!Stage
  PROVE SiloInv'
<1>1. /\ journal' \in Journals /\ SameBut({"staged"}) /\ journal'.staged = restores
      /\ UNCHANGED <<managed, vault>> /\ restorePc = "stage"
  <2>1. journal' = [journal EXCEPT !.staged = restores] /\ restores \in Silo!Trees
    BY SiloFacts DEF Silo!Stage, Silo!SetJournal, Silo!Trees
  <2> QED BY <2>1, SiloFacts DEF Silo!Stage, Silo!SetJournal, Journals
<1>2. restores \in OwnTrees
  BY SiloFacts
<1>3. CASE Silo!Succeed /\ Silo!Goto("rewrite")
  <2>1. /\ UNCHANGED <<managed, vault, opened, restoreCaller, hadTree, saved, restores, crashes,
                       torn, failures>>
        /\ restorePc' = "rewrite"
    BY <1>1, <1>3 DEF Silo!Goto, Silo!Succeed
  <2>11. SiloTyped'
    BY <1>1, <1>2, <2>1, SiloFacts, SiloTypedStays
    DEF SiloInv, SiloTyped, JournalFits, SiloCallers, Silo!NoJournal
  <2>12. SiloCallers'
    BY <1>1, <1>2, <2>1 DEF SiloInv, SiloCallers
  <2>13. JournalFits' /\ ForeignStands'
    BY <1>1, <1>2, <2>1, SiloFacts DEF SiloInv, JournalFits, ForeignStands
  <2>14. ~torn' => SiloKept'
    BY <1>1, <1>2, <2>1, SiloFacts
    DEF SiloInv, SiloCallers, SiloKept, JournalFits, RecoveryKeeps, Settled, Silo!Agree,
        Silo!Restored
  <2> QED BY <2>11, <2>12, <2>13, <2>14 DEF SiloInv
<1>4. CASE Silo!FailUntorn /\ Silo!Recover("abandon")
  <2>1. /\ UNCHANGED <<managed, vault, opened, hadTree, saved, restores, crashes, torn>>
        /\ failures' \in Nat /\ restorePc' = "recover" /\ restoreCaller' = "abandon"
    BY <1>1, <1>4, SiloFacts DEF Silo!FailUntorn, Silo!Fail, Silo!Recover
  <2>11. SiloTyped'
    BY <1>1, <1>2, <2>1, SiloFacts, SiloTypedStays
    DEF SiloInv, SiloTyped, JournalFits, SiloCallers, Silo!NoJournal
  <2>12. SiloCallers'
    BY <1>1, <1>2, <2>1 DEF SiloInv, SiloCallers
  <2>13. JournalFits' /\ ForeignStands'
    BY <1>1, <1>2, <2>1, SiloFacts DEF SiloInv, JournalFits, ForeignStands
  <2>14. ~torn' => SiloKept'
    BY <1>1, <1>2, <2>1, SiloFacts
    DEF SiloInv, SiloCallers, SiloKept, JournalFits, RecoveryKeeps, Settled, Silo!Agree,
        Silo!Restored
  <2> QED BY <2>11, <2>12, <2>13, <2>14 DEF SiloInv
<1> QED BY <1>3, <1>4 DEF Silo!Stage

LEMMA SiloRewrite ==
  ASSUME SiloInv, Silo!Rewrite
  PROVE SiloInv'
<1>1. CASE /\ vault' = opened /\ UNCHANGED <<managed, journal>>
           /\ Silo!Succeed /\ Silo!Goto("copyVault")
  <2>1. /\ journal' = journal /\ journal \in Journals /\ vault' = opened
        /\ UNCHANGED <<managed, opened, restoreCaller, hadTree, saved, restores, crashes, torn,
                       failures>>
        /\ restorePc = "rewrite" /\ restorePc' = "copyVault"
    BY <1>1, SiloFacts DEF Silo!Goto, Silo!Succeed, Silo!Rewrite, Silo!Step
  <2>2. opened \in Silo!VaultData
    BY <2>1, SiloFacts DEF SiloInv, SiloCallers
  <2>3. ~torn => vault = opened
    BY <2>1 DEF SiloInv, SiloKept, Settled
  <2>11. SiloTyped'
    BY <2>1, <2>2, <2>3, SiloFacts, SiloTypedStays
    DEF SiloInv, SiloTyped, JournalFits, SiloCallers, Silo!NoJournal
  <2>12. SiloCallers'
    BY <2>1, <2>2, <2>3 DEF SiloInv, SiloCallers
  <2>13. JournalFits' /\ ForeignStands'
    BY <2>1, <2>2, <2>3, SiloFacts DEF SiloInv, JournalFits, ForeignStands
  <2>14. ~torn' => SiloKept'
    BY <2>1, <2>2, <2>3, SiloFacts
    DEF SiloInv, SiloCallers, SiloKept, JournalFits, RecoveryKeeps, Settled, Silo!Agree,
        Silo!Restored
  <2> QED BY <2>11, <2>12, <2>13, <2>14 DEF SiloInv
<1>2. CASE UNCHANGED Silo!fsVars /\ Silo!FailUntorn /\ Silo!Recover("abandon")
  <2>1. /\ restorePc \in Silo!Preparing \ {"journal"}
        /\ UNCHANGED <<managed, journal, vault, torn>> /\ failures' \in Nat
    BY <1>2, SiloFacts DEF Silo!fsVars, Silo!FailUntorn, Silo!Fail, Silo!Rewrite, Silo!Step
  <2> QED BY <1>2, <2>1, SiloAbandons
<1> QED BY <1>1, <1>2 DEF Silo!Rewrite, Silo!Step

LEMMA SiloCopyVault ==
  ASSUME SiloInv, Silo!CopyVault
  PROVE SiloInv'
<1>1. CASE /\ Silo!SetJournal([journal EXCEPT !.vault = vault])
           /\ Silo!Succeed /\ Silo!Goto("markMissing")
  <2>1. journal' \in Journals /\ SameBut({"vault"}) /\ journal'.vault = vault
    BY <1>1, SiloFacts DEF Silo!SetJournal, Journals
  <2>2. /\ UNCHANGED <<managed, vault, opened, restoreCaller, hadTree, saved, restores, crashes,
                       torn, failures>>
        /\ restorePc' = "markMissing" /\ restorePc = "copyVault"
    BY <1>1 DEF Silo!SetJournal, Silo!Goto, Silo!Succeed, Silo!CopyVault, Silo!Step
  <2>11. SiloTyped'
    BY <2>1, <2>2, SiloFacts, SiloTypedStays
    DEF SiloInv, SiloTyped, JournalFits, SiloCallers, Silo!NoJournal
  <2>12. SiloCallers'
    BY <2>1, <2>2 DEF SiloInv, SiloCallers
  <2>13. JournalFits' /\ ForeignStands'
    BY <2>1, <2>2, SiloFacts DEF SiloInv, JournalFits, ForeignStands
  <2>14. ~torn' => SiloKept'
    BY <2>1, <2>2, SiloFacts
    DEF SiloInv, SiloCallers, SiloKept, JournalFits, RecoveryKeeps, Settled, Silo!Agree,
        Silo!Restored
  <2> QED BY <2>11, <2>12, <2>13, <2>14 DEF SiloInv
<1>2. CASE UNCHANGED Silo!fsVars /\ Silo!FailUntorn /\ Silo!Recover("abandon")
  <2>1. /\ restorePc \in Silo!Preparing \ {"journal"}
        /\ UNCHANGED <<managed, journal, vault, torn>> /\ failures' \in Nat
    BY <1>2, SiloFacts DEF Silo!fsVars, Silo!FailUntorn, Silo!Fail, Silo!CopyVault, Silo!Step
  <2> QED BY <1>2, <2>1, SiloAbandons
<1> QED BY <1>1, <1>2 DEF Silo!CopyVault, Silo!Step

LEMMA SiloMarkMissing ==
  ASSUME SiloInv, Silo!MarkMissing
  PROVE SiloInv'
<1> DEFINE marked == [journal EXCEPT !.oldMissing = ~hadTree]
<1>1. marked \in Journals /\ marked.oldMissing = ~hadTree
  BY SiloFacts DEF Journals
<1>2. Silo!SetJournal(marked) => /\ journal' \in Journals /\ SameBut({"oldMissing"})
                                 /\ journal'.oldMissing = ~hadTree
                                 /\ UNCHANGED <<managed, vault>>
  BY <1>1, SiloFacts DEF Silo!SetJournal, Journals
<1> HIDE DEF marked
<1>3. restorePc = "markMissing" /\ restorePc \in Silo!Preparing \ {"journal"}
  BY DEF Silo!MarkMissing
<1>4. CASE Silo!SetJournal(marked) /\ Silo!Succeed /\ Silo!Goto("prepare")
  <2>1. /\ UNCHANGED <<managed, vault, opened, restoreCaller, hadTree, saved, restores, crashes,
                       torn, failures>>
        /\ restorePc' = "prepare"
    BY <1>2, <1>4 DEF Silo!Goto, Silo!Succeed
  <2>11. SiloTyped'
    BY <1>2, <1>3, <1>4, <2>1, SiloFacts, SiloTypedStays
    DEF SiloInv, SiloTyped, JournalFits, SiloCallers, Silo!NoJournal
  <2>12. SiloCallers'
    BY <1>2, <1>3, <1>4, <2>1 DEF SiloInv, SiloCallers
  <2>13. JournalFits' /\ ForeignStands'
    BY <1>2, <1>3, <1>4, <2>1, SiloFacts DEF SiloInv, JournalFits, ForeignStands
  <2>14. ~torn' => SiloKept'
    BY <1>2, <1>3, <1>4, <2>1, SiloFacts
    DEF SiloInv, SiloCallers, SiloKept, JournalFits, RecoveryKeeps, Settled, Silo!Agree,
        Silo!Restored
  <2> QED BY <2>11, <2>12, <2>13, <2>14 DEF SiloInv
<1>5. CASE ~hadTree /\ Silo!MarkerFails(marked) /\ Silo!Recover("abandon")
  <2>1. failures' \in Nat
    BY <1>5, SiloFacts DEF Silo!MarkerFails, Silo!Fail
  <2>2. CASE UNCHANGED <<Silo!fsVars, torn>>
    BY <1>3, <1>5, <2>1, <2>2, SiloAbandons DEF Silo!fsVars
  <2>3. CASE Silo!SetJournal(marked) /\ torn' = TRUE
    BY <1>2, <1>3, <1>5, <2>1, <2>3, SiloTears
  <2> QED BY <1>5, <2>2, <2>3 DEF Silo!MarkerFails
<1> QED BY <1>4, <1>5 DEF Silo!MarkMissing, marked

LEMMA SiloPrepare ==
  ASSUME SiloInv, Silo!Prepare
  PROVE SiloInv'
<1> DEFINE marked == [journal EXCEPT !.prepared = TRUE]
<1>1. Silo!SetJournal(marked) => /\ journal' \in Journals /\ SameBut({"prepared"})
                                 /\ journal'.prepared
                                 /\ UNCHANGED <<managed, vault>>
  BY SiloFacts DEF Silo!SetJournal, Journals
<1> HIDE DEF marked
<1>2. restorePc = "prepare" /\ restorePc \in Silo!Preparing \ {"journal"}
  BY DEF Silo!Prepare
<1>3. CASE Silo!SetJournal(marked) /\ Silo!Succeed /\ Silo!Goto("moveAside")
  <2>1. /\ UNCHANGED <<managed, vault, opened, restoreCaller, hadTree, saved, restores, crashes,
                       torn, failures>>
        /\ restorePc' = "moveAside"
    BY <1>1, <1>3 DEF Silo!Goto, Silo!Succeed
  <2>11. SiloTyped'
    BY <1>1, <1>2, <1>3, <2>1, SiloFacts, SiloTypedStays
    DEF SiloInv, SiloTyped, JournalFits, SiloCallers, Silo!NoJournal
  <2>12. SiloCallers'
    BY <1>1, <1>2, <1>3, <2>1 DEF SiloInv, SiloCallers
  <2>13. JournalFits' /\ ForeignStands'
    BY <1>1, <1>2, <1>3, <2>1, SiloFacts DEF SiloInv, JournalFits, ForeignStands
  <2>14. ~torn' => SiloKept'
    BY <1>1, <1>2, <1>3, <2>1, SiloFacts
    DEF SiloInv, SiloCallers, SiloKept, JournalFits, RecoveryKeeps, Settled, Silo!Agree,
        Silo!Restored
  <2> QED BY <2>11, <2>12, <2>13, <2>14 DEF SiloInv
<1>4. CASE Silo!MarkerFails(marked) /\ Silo!Recover("abandon")
  <2>1. failures' \in Nat
    BY <1>4, SiloFacts DEF Silo!MarkerFails, Silo!Fail
  <2>2. CASE UNCHANGED <<Silo!fsVars, torn>>
    BY <1>2, <1>4, <2>1, <2>2, SiloAbandons DEF Silo!fsVars
  <2>3. CASE Silo!SetJournal(marked) /\ torn' = TRUE
    BY <1>1, <1>2, <1>4, <2>1, <2>3, SiloTears
  <2> QED BY <1>4, <2>2, <2>3 DEF Silo!MarkerFails
<1> QED BY <1>3, <1>4 DEF Silo!Prepare, marked

\* restore_managed_silo_backup: the transition
LEMMA SiloMoveAside ==
  ASSUME SiloInv, Silo!MoveAside
  PROVE SiloInv'
<1>1. restorePc = "moveAside"
  BY DEF Silo!MoveAside, Silo!Step
<1>2. CASE /\ hadTree /\ managed' = Missing /\ journal' = [journal EXCEPT !.old = managed]
           /\ UNCHANGED vault /\ Silo!Succeed /\ Silo!Goto("install")
  <2>1. journal' \in Journals /\ SameBut({"old"}) /\ journal'.old = managed
    BY <1>2, SiloFacts DEF Journals
  <2>2. /\ hadTree /\ managed' = Missing /\ managed' \in Silo!Trees
        /\ UNCHANGED <<vault, opened, restoreCaller, hadTree, saved, restores, crashes, torn,
                       failures>>
        /\ restorePc' = "install"
    BY <1>2 DEF Silo!Goto, Silo!Succeed, Silo!Trees
  <2>11. SiloTyped'
    BY <1>1, <2>1, <2>2, SiloFacts, SiloTypedStays
    DEF SiloInv, SiloTyped, JournalFits, SiloCallers, Silo!NoJournal
  <2>12. SiloCallers'
    BY <1>1, <2>1, <2>2 DEF SiloInv, SiloCallers
  <2>13. JournalFits' /\ ForeignStands'
    BY <1>1, <2>1, <2>2, SiloFacts DEF SiloInv, JournalFits, ForeignStands
  <2>14. ~torn' => SiloKept'
    BY <1>1, <2>1, <2>2, SiloFacts
    DEF SiloInv, SiloCallers, SiloKept, JournalFits, RecoveryKeeps, Settled, Silo!Agree,
        Silo!Restored
  <2> QED BY <2>11, <2>12, <2>13, <2>14 DEF SiloInv
<1>3. CASE ~hadTree /\ UNCHANGED Silo!fsVars /\ Silo!Succeed /\ Silo!Goto("install")
  <2>1. /\ journal' = journal /\ journal \in Journals /\ ~hadTree
        /\ UNCHANGED <<managed, vault, opened, restoreCaller, hadTree, saved, restores, crashes,
                       torn, failures>>
        /\ restorePc' = "install"
    BY <1>3, SiloFacts DEF Silo!fsVars, Silo!Goto, Silo!Succeed
  <2>11. SiloTyped'
    BY <1>1, <2>1, SiloFacts, SiloTypedStays
    DEF SiloInv, SiloTyped, JournalFits, SiloCallers, Silo!NoJournal
  <2>12. SiloCallers'
    BY <1>1, <2>1 DEF SiloInv, SiloCallers
  <2>13. JournalFits' /\ ForeignStands'
    BY <1>1, <2>1, SiloFacts DEF SiloInv, JournalFits, ForeignStands
  <2>14. ~torn' => SiloKept'
    BY <1>1, <2>1, SiloFacts
    DEF SiloInv, SiloCallers, SiloKept, JournalFits, RecoveryKeeps, Settled, Silo!Agree,
        Silo!Restored
  <2> QED BY <2>11, <2>12, <2>13, <2>14 DEF SiloInv
<1>4. CASE UNCHANGED Silo!fsVars /\ Silo!FailUntorn /\ Silo!Recover("rollback")
  <2>1. /\ restorePc \in Silo!Switching /\ vault' \in Silo!VaultData
        /\ UNCHANGED <<managed, journal, torn>> /\ failures' \in Nat
    BY <1>1, <1>4, SiloFacts DEF Silo!fsVars, Silo!FailUntorn, Silo!Fail
  <2> QED BY <1>4, <2>1, SiloRollsBack
<1> QED BY <1>2, <1>3, <1>4 DEF Silo!MoveAside, Silo!Step

LEMMA SiloInstall ==
  ASSUME SiloInv, Silo!Install
  PROVE SiloInv'
<1>1. restorePc = "install" /\ journal.staged = restores /\ journal.staged \in Nat
  BY SiloFacts DEF SiloInv, JournalFits, Silo!Install
<1>2. CASE /\ managed = Missing /\ managed' = journal.staged
           /\ journal' = [journal EXCEPT !.staged = Missing]
           /\ UNCHANGED vault /\ Silo!Succeed /\ Silo!Goto("commitVault")
  <2>1. journal' \in Journals /\ SameBut({"staged"}) /\ journal'.staged = Missing
    BY <1>2, SiloFacts DEF Journals, Silo!Trees
  <2>2. /\ managed' = journal.staged /\ managed' \in Silo!Trees /\ managed' # Foreign
        /\ UNCHANGED <<vault, opened, restoreCaller, hadTree, saved, restores, crashes, torn,
                       failures>>
        /\ restorePc' = "commitVault"
    BY <1>1, <1>2, SiloFacts DEF Silo!Goto, Silo!Succeed, Silo!Trees
  <2>11. SiloTyped'
    BY <1>1, <2>1, <2>2, SiloFacts, SiloTypedStays
    DEF SiloInv, SiloTyped, JournalFits, SiloCallers, Silo!NoJournal
  <2>12. SiloCallers'
    BY <1>1, <2>1, <2>2 DEF SiloInv, SiloCallers
  <2>13. JournalFits' /\ ForeignStands'
    BY <1>1, <2>1, <2>2, SiloFacts DEF SiloInv, JournalFits, ForeignStands
  <2>14. ~torn' => SiloKept'
    BY <1>1, <2>1, <2>2, SiloFacts
    DEF SiloInv, SiloCallers, SiloKept, JournalFits, RecoveryKeeps, Settled, Silo!Agree,
        Silo!Restored
  <2> QED BY <2>11, <2>12, <2>13, <2>14 DEF SiloInv
<1>3. CASE /\ UNCHANGED <<managed, journal, vault, torn>> /\ failures' \in Nat
           /\ Silo!Recover("rollback")
  <2>1. restorePc \in Silo!Switching /\ vault' \in Silo!VaultData
    BY <1>1, <1>3, SiloFacts
  <2> QED BY <1>3, <2>1, SiloRollsBack
<1> QED BY <1>2, <1>3, SiloFacts DEF Silo!Install, Silo!fsVars, Silo!FailUntorn, Silo!Fail,
                                     Silo!Succeed

LEMMA SiloCommitVault ==
  ASSUME SiloInv, Silo!CommitVault
  PROVE SiloInv'
<1>1. /\ restorePc = "commitVault" /\ restorePc \in Silo!Switching /\ opened \in Silo!VaultData
      /\ UNCHANGED <<managed, journal>>
  BY SiloFacts DEF SiloInv, SiloCallers, Silo!CommitVault
<1>2. /\ Silo!Restored \in Silo!VaultData
  BY <1>1, SiloFacts DEF Silo!Restored, Silo!VaultData
<1>3. CASE vault' = Silo!Restored /\ Silo!Succeed /\ Silo!Goto("commit")
  <2>1. /\ journal' = journal /\ journal \in Journals /\ vault' \in Silo!VaultData
        /\ UNCHANGED <<managed, opened, restoreCaller, hadTree, saved, restores, crashes, torn,
                       failures>>
        /\ restorePc' = "commit" /\ vault' = [opened EXCEPT !.tree = restores]
    BY <1>1, <1>2, <1>3, SiloFacts DEF Silo!Goto, Silo!Succeed, Silo!Restored
  <2>11. SiloTyped'
    BY <1>1, <2>1, SiloFacts, SiloTypedStays
    DEF SiloInv, SiloTyped, JournalFits, SiloCallers, Silo!NoJournal
  <2>12. SiloCallers'
    BY <1>1, <2>1 DEF SiloInv, SiloCallers
  <2>13. JournalFits' /\ ForeignStands'
    BY <1>1, <2>1, SiloFacts DEF SiloInv, JournalFits, ForeignStands
  <2>14. ~torn' => SiloKept'
    BY <1>1, <2>1, SiloFacts
    DEF SiloInv, SiloCallers, SiloKept, JournalFits, RecoveryKeeps, Settled, Silo!Agree,
        Silo!Restored
  <2> QED BY <2>11, <2>12, <2>13, <2>14 DEF SiloInv
<1>4. CASE vault' \in {vault, Silo!Restored} /\ Silo!FailUntorn /\ Silo!Recover("rollback")
  BY <1>1, <1>2, <1>4, SiloFacts, SiloRollsBack DEF Silo!FailUntorn, Silo!Fail
<1> QED BY <1>3, <1>4 DEF Silo!CommitVault

LEMMA SiloCommit ==
  ASSUME SiloInv, Silo!Commit
  PROVE SiloInv'
<1> DEFINE marked == [journal EXCEPT !.committed = TRUE]
<1>1. Silo!SetJournal(marked) => /\ journal' \in Journals /\ SameBut({"committed"})
                                 /\ journal'.committed
                                 /\ UNCHANGED <<managed, vault>>
  BY SiloFacts DEF Silo!SetJournal, Journals
<1> HIDE DEF marked
<1>2. restorePc = "commit" /\ restorePc \in Silo!Switching /\ opened \in Silo!VaultData
  BY SiloFacts DEF SiloInv, SiloCallers, Silo!Commit
<1>3. CASE /\ Silo!SetJournal(marked) /\ Silo!Succeed
           /\ opened' = Silo!Restored /\ saved' = Silo!Restored
           /\ restorePc' = "cleanOld" /\ restoreCaller' = "finish"
           /\ UNCHANGED <<hadTree, restores, crashes>>
  <2>1. /\ Silo!Restored \in Silo!VaultData /\ Silo!Restored.tree = restores
        /\ Silo!Restored.edits >= Silo!Restored.edits
    BY <1>2, SiloFacts DEF Silo!Restored, Silo!VaultData
  <2>2. opened' # Locked
    BY <1>3, <2>1, SiloFacts
  <2>3. ~torn => vault = Silo!Restored /\ managed = restores
    BY <1>2 DEF SiloInv, SiloKept
  <2> HIDE DEF Silo!Restored
  <2>4. /\ UNCHANGED <<managed, vault, hadTree, restores, crashes, torn, failures>>
        /\ opened' = Silo!Restored /\ saved' = Silo!Restored
        /\ restorePc' = "cleanOld" /\ restoreCaller' = "finish"
    BY <1>1, <1>3 DEF Silo!Succeed
  <2>11. SiloTyped'
    BY <1>1, <1>2, <1>3, <2>1, <2>2, <2>3, <2>4, SiloFacts, SiloTypedStays
    DEF SiloInv, SiloTyped, JournalFits, SiloCallers, Silo!NoJournal
  <2>12. SiloCallers'
    BY <1>1, <1>2, <1>3, <2>1, <2>2, <2>3, <2>4 DEF SiloInv, SiloCallers
  <2>13. JournalFits' /\ ForeignStands'
    BY <1>1, <1>2, <1>3, <2>1, <2>2, <2>3, <2>4, SiloFacts DEF SiloInv, JournalFits, ForeignStands
  <2>14. ~torn' => SiloKept'
    BY <1>1, <1>2, <1>3, <2>1, <2>2, <2>3, <2>4, SiloFacts
    DEF SiloInv, SiloCallers, SiloKept, JournalFits, RecoveryKeeps, Settled, Silo!Agree,
        Silo!Restored
  <2> QED BY <2>11, <2>12, <2>13, <2>14 DEF SiloInv
<1>4. CASE Silo!MarkerFails(marked) /\ Silo!Recover("rollback")
  <2>1. failures' \in Nat
    BY <1>4, SiloFacts DEF Silo!MarkerFails, Silo!Fail
  <2>2. CASE UNCHANGED <<Silo!fsVars, torn>>
    BY <1>2, <1>4, <2>1, <2>2, SiloFacts, SiloRollsBack DEF Silo!fsVars
  <2>3. CASE Silo!SetJournal(marked) /\ torn' = TRUE
    BY <1>1, <1>2, <1>4, <2>1, <2>3, SiloTears
  <2> QED BY <1>4, <2>2, <2>3 DEF Silo!MarkerFails
<1> QED BY <1>3, <1>4 DEF Silo!Commit, marked

\* the process is killed, and another process creates the directory
LEMMA SiloKill ==
  ASSUME SiloInv, Silo!Kill
  PROVE SiloInv'
<1>1. /\ journal' = journal /\ journal \in Journals
      /\ UNCHANGED <<managed, vault, hadTree, saved, restores, torn, failures>>
      /\ opened' = Locked /\ restorePc' = "idle" /\ restoreCaller' = "none" /\ crashes' \in Nat
  BY SiloFacts DEF Silo!Kill, Silo!fsVars
<1>11. SiloTyped'
  BY <1>1, SiloFacts, SiloTypedStays
  DEF SiloInv, SiloTyped, JournalFits, SiloCallers, Silo!NoJournal
<1>12. SiloCallers'
  BY <1>1 DEF SiloInv, SiloCallers
<1>13. JournalFits' /\ ForeignStands'
  BY <1>1, SiloFacts DEF SiloInv, JournalFits, ForeignStands
<1>14. ~torn' => SiloKept'
  BY <1>1, SiloFacts
  DEF SiloInv, SiloCallers, SiloKept, JournalFits, RecoveryKeeps, Settled, Silo!Agree, Silo!Restored
<1> QED BY <1>11, <1>12, <1>13, <1>14 DEF SiloInv

LEMMA SiloCreateForeign ==
  ASSUME SiloInv, Silo!CreateForeign
  PROVE SiloInv'
<1>1. /\ journal' = journal /\ journal \in Journals /\ journal.staged # Missing
      /\ UNCHANGED <<vault, opened, restoreCaller, hadTree, saved, restores, crashes, torn,
                     failures>>
      /\ restorePc' = restorePc /\ restorePc \notin Silo!Recovering
      /\ managed = Missing /\ managed' = Foreign /\ managed' \in Silo!Trees
  BY SiloFacts DEF Silo!CreateForeign, Silo!Trees
<1>2. restorePc' \in {"idle"} \cup Silo!Preparing \cup Silo!Switching \cup Silo!Recovering
                        \cup Silo!Cleaning
  BY <1>1 DEF SiloInv, SiloTyped, Silo!TypeOK
<1>11. SiloTyped'
  BY <1>1, <1>2, SiloFacts, SiloTypedStays
  DEF SiloInv, SiloTyped, JournalFits, SiloCallers, Silo!NoJournal
<1>12. SiloCallers'
  BY <1>1, <1>2 DEF SiloInv, SiloCallers
<1>13. JournalFits' /\ ForeignStands'
  BY <1>1, <1>2, SiloFacts DEF SiloInv, JournalFits, ForeignStands
<1>14. ~torn' => SiloKept'
  BY <1>1, <1>2, SiloFacts
  DEF SiloInv, SiloCallers, SiloKept, JournalFits, RecoveryKeeps, Settled, Silo!Agree, Silo!Restored
<1> QED BY <1>11, <1>12, <1>13, <1>14 DEF SiloInv

LEMMA SiloStarts == Silo!Init => SiloInv
<1> SUFFICES ASSUME Silo!Init PROVE SiloInv
  OBVIOUS
<1>1. /\ managed \in {0, Missing} /\ journal = Silo!NoJournal /\ opened = Locked
      /\ vault = [tree |-> managed, edits |-> 0] /\ saved = vault
      /\ restoreCaller = "none" /\ restorePc = "idle" /\ hadTree = FALSE /\ torn = FALSE
      /\ restores = 0 /\ failures = 0 /\ crashes = 0
  BY DEF Silo!Init
<1>2. Missing \notin Nat /\ Foreign \notin Nat /\ Missing # Foreign
  BY RestoreAssumption DEF Silo!RestoreAssumption
<1>3. /\ journal.staged = Missing /\ journal.old = Missing /\ journal.discarded = Missing
      /\ journal.oldMissing = FALSE /\ journal.prepared = FALSE /\ journal.committed = FALSE
  BY <1>1 DEF Silo!NoJournal
<1>4. journal \in Journals
  BY <1>1 DEF Silo!NoJournal, Journals, Silo!Trees
<1>5. vault \in Silo!VaultData
  BY <1>1 DEF Silo!VaultData
<1>6. Silo!TypeOK
  <2>1. managed \in Silo!Trees
    BY <1>1 DEF Silo!Trees
  <2>2. saved \in Silo!VaultData
    BY <1>1, <1>5
  <2>3. {hadTree, torn} \subseteq BOOLEAN
    BY <1>1
  <2>4. {restores, failures, crashes} \subseteq Nat
    BY <1>1
  <2>5. /\ opened = Locked /\ restoreCaller = "none" /\ restorePc = "idle"
    BY <1>1
  <2> QED BY <1>4, <1>5, <2>1, <2>2, <2>3, <2>4, <2>5 DEF Silo!TypeOK, Journals
<1>7. SiloTyped
  BY <1>1, <1>3, <1>6 DEF SiloTyped, OwnTrees
<1>8. SiloCallers
  BY <1>1 DEF SiloCallers
<1>9. JournalFits /\ ForeignStands
  BY <1>1, <1>2, <1>3 DEF JournalFits, ForeignStands
<1>10. RecoveryKeeps
  BY <1>1, <1>3 DEF RecoveryKeeps, Silo!Agree
<1>11. SiloKept
  BY <1>1, <1>10 DEF SiloKept
<1> QED BY <1>7, <1>8, <1>9, <1>11 DEF SiloInv

LEMMA SiloStep == SiloInv /\ [Silo!Next]_Silo!vars => SiloInv'
<1> SUFFICES ASSUME SiloInv, [Silo!Next]_Silo!vars PROVE SiloInv'
  OBVIOUS
<1>1. CASE Silo!Unlock \/ Silo!Lock \/ Silo!Edit \/ Silo!Kill \/ Silo!CreateForeign
  BY <1>1, SiloUnlock, SiloLock, SiloEdit, SiloKill, SiloCreateForeign
<1>2. CASE Silo!RestoreNext
  BY <1>2, SiloRestoreManaged, SiloCreateJournal, SiloStage, SiloRewrite, SiloCopyVault,
     SiloMarkMissing, SiloPrepare, SiloMoveAside, SiloInstall, SiloCommitVault, SiloCommit
  DEF Silo!RestoreNext
<1>3. CASE Silo!CleanupNext
  BY <1>3, SiloCleanOld, SiloCleanDiscarded, SiloCleanStaged, SiloCleanPrepared,
     SiloCleanCommitted, SiloCleanDirectory
  DEF Silo!CleanupNext
<1>4. CASE Silo!RecoverNext
  BY <1>4, SiloRecoverStart, SiloSetAside, SiloPutBack, SiloRemoveRestored, SiloCopyBack,
     SiloReplaceVault, SiloDropDiscarded, SiloUnprepare, SiloDropJournal
  DEF Silo!RecoverNext
<1>5. CASE UNCHANGED Silo!vars
  <2> USE <1>5 DEF Silo!vars
  <2>1. SiloTyped'
    BY DEF SiloInv, SiloTyped, Silo!TypeOK
  <2>2. SiloCallers'
    BY DEF SiloInv, SiloCallers
  <2>3. JournalFits' /\ ForeignStands'
    BY DEF SiloInv, JournalFits, ForeignStands
  <2>4. ~torn' => SiloKept'
    BY DEF SiloInv, SiloKept, RecoveryKeeps, Settled, Silo!Agree, Silo!Restored
  <2> QED BY <2>1, <2>2, <2>3, <2>4 DEF SiloInv
<1> QED BY <1>1, <1>2, <1>3, <1>4, <1>5 DEF Silo!Next

\* Every step of a restore, of its rollback, of the cleanup after it and of recovery, a kill
\* between any two of them, a failing call and another process's directory keep it.
THEOREM ManagedRestoreInvariant == Silo!Spec => []SiloInv
BY SiloStarts, SiloStep, PTL DEF Silo!Spec

LEMMA SiloSafe ==
  SiloInv => Silo!RecoversToOneRestore /\ Silo!MemoryMatchesDisk /\ Silo!EditsSurviveRecovery
<1> SUFFICES ASSUME SiloInv, ~torn
             PROVE /\ Silo!Agree(Silo!RecoveredTree, Silo!RecoveredVault)
                   /\ restorePc = "idle" /\ opened # Locked =>
                        Silo!Agree(managed, opened) /\ vault = opened
                   /\ Silo!RecoveredVault.edits >= saved.edits
  BY DEF Silo!RecoversToOneRestore, Silo!MemoryMatchesDisk, Silo!EditsSurviveRecovery
<1>1. RecoveryKeeps /\ (restorePc = "idle" /\ opened # Locked => Settled)
  BY DEF SiloInv, SiloKept
<1>2. CASE ~Transition
  BY <1>1, <1>2 DEF RecoveryKeeps, Settled, Silo!RecoveredTree, Silo!RecoveredVault
<1>3. CASE Transition /\ journal.old # Missing
  <2>1. Silo!RecoveredTree = journal.old /\ Silo!RecoveredVault = journal.vault
    BY <1>3, SiloFacts DEF Silo!RecoveredTree, Silo!RecoveredVault
  <2> QED BY <1>1, <1>3, <2>1 DEF RecoveryKeeps, Settled
<1>4. CASE Transition /\ journal.old = Missing
  <2>1. /\ Silo!RecoveredTree = IF journal.oldMissing THEN Missing ELSE managed
        /\ Silo!RecoveredVault = journal.vault
    BY <1>4, SiloFacts DEF Silo!RecoveredTree, Silo!RecoveredVault
  <2> QED BY <1>1, <1>4, <2>1 DEF RecoveryKeeps, Settled, Silo!Agree
<1> QED BY <1>2, <1>3, <1>4

\* Recovery moves only a tree that the restore put there.
LEMMA SiloLeavesForeign ==
  ASSUME SiloInv, [Silo!Next]_Silo!vars, restorePc \in Silo!Recovering, managed = Foreign
  PROVE managed' = Foreign
<1>1. /\ restorePc \notin Silo!Preparing \cup Silo!Switching \cup Silo!Cleaning
      /\ restorePc # "idle"
  OBVIOUS
<1>2. restorePc \notin {"setAside", "putBack", "removeRestored"}
  BY SiloFacts DEF SiloInv, ForeignStands
<1>3. CASE Silo!Unlock \/ Silo!Lock \/ Silo!Edit \/ Silo!CreateForeign \/ Silo!RestoreManaged
  BY <1>1, <1>3 DEF Silo!Unlock, Silo!Lock, Silo!Edit, Silo!CreateForeign, Silo!RestoreManaged
<1>4. CASE Silo!Kill
  BY <1>4 DEF Silo!Kill, Silo!fsVars
<1>5. CASE Silo!RestoreNext /\ ~Silo!RestoreManaged
  BY <1>1, <1>5 DEF Silo!RestoreNext, Silo!CreateJournal, Silo!Stage, Silo!Rewrite,
                    Silo!CopyVault, Silo!MarkMissing, Silo!Prepare, Silo!MoveAside, Silo!Install,
                    Silo!CommitVault, Silo!Commit, Silo!Step
<1>6. CASE Silo!CleanupNext
  BY <1>1, <1>6 DEF Silo!CleanupNext, Silo!CleanOld, Silo!CleanDiscarded, Silo!CleanStaged,
                    Silo!CleanPrepared, Silo!CleanCommitted, Silo!CleanDirectory, Silo!CleanStep
<1>7. CASE Silo!RecoverNext
  <2>1. CASE Silo!RecoverStart \/ Silo!DropJournal
    BY <2>1 DEF Silo!RecoverStart, Silo!DropJournal, Silo!SetJournal, Silo!fsVars
  <2>2. CASE Silo!CopyBack \/ Silo!ReplaceVault \/ Silo!DropDiscarded \/ Silo!Unprepare
    BY <2>2 DEF Silo!CopyBack, Silo!ReplaceVault, Silo!DropDiscarded, Silo!Unprepare,
                Silo!RecoverStep, Silo!Step, Silo!SetJournal, Silo!fsVars
  <2>3. CASE Silo!SetAside \/ Silo!PutBack \/ Silo!RemoveRestored
    BY <1>2, <2>3 DEF Silo!SetAside, Silo!PutBack, Silo!RemoveRestored, Silo!RecoverStep,
                      Silo!Step
  <2> QED BY <1>7, <2>1, <2>2, <2>3 DEF Silo!RecoverNext
<1>8. CASE UNCHANGED Silo!vars
  BY <1>8 DEF Silo!vars
<1> QED BY <1>3, <1>4, <1>5, <1>6, <1>7, <1>8 DEF Silo!Next, Silo!RestoreNext

\* The bench's behaviours are behaviours of the restore.
THEOREM FilesRunRestore == FilesSpec => Silo!Spec
<1>1. FilesInit => Silo!Init
  BY DEF FilesInit
<1>2. [FilesNext]_filesVars => [Silo!Next]_Silo!vars
  BY DEF FilesNext, filesVars, restoreVars, Silo!vars
<1> QED BY <1>1, <1>2, PTL DEF FilesSpec, Silo!Spec

\* Unless a failed write_marker left its file behind: from every step of a restore recovery ends
\* with the directory and the record of one and the same restore and with every acknowledged
\* edit, an idle open Vault describes what is on disk, and recovery leaves the directory that
\* another process created where it is.
THEOREM RestoresLoseNothing == FilesSpec => RestoreLosesNothing
<1> DEFINE Kept == (restorePc \in Silo!Recovering /\ managed = Foreign) => managed' = Foreign
<1>1. SiloInv /\ [Silo!Next]_Silo!vars => [Kept]_Silo!vars
  BY SiloLeavesForeign DEF Kept
<1>2. Silo!Spec => []Silo!RecoversToOneRestore /\ [](Silo!MemoryMatchesDisk /\ Silo!EditsSurviveRecovery)
  BY ManagedRestoreInvariant, SiloSafe, PTL
<1>3. Silo!Spec => [][Kept]_Silo!vars
  <2> HIDE DEF Kept
  <2> QED BY <1>1, ManagedRestoreInvariant, PTL DEF Silo!Spec
<1>4. Silo!Spec => RestoreLosesNothing
  BY <1>2, <1>3, PTL DEF RestoreLosesNothing, Silo!ForeignTreeKept, Kept
<1> QED BY <1>4, FilesRunRestore, PTL

HIDE DEF Silo!Cleaning, Silo!Recovering, Silo!Preparing, Silo!Switching, Undoing, Transition, SameBut

-----------------------------------------------------------------------------
(* The files run's type invariant *)

\* The bench's behaviours are behaviours of the Agent's state file.
THEOREM FilesRunState == FilesSpec => Spec
<1>1. FilesInit => Init
  BY DEF FilesInit
<1>2. [FilesNext]_filesVars => [Next]_vars
  BY DEF FilesNext, filesVars, vars
<1> QED BY <1>1, <1>2, PTL DEF FilesSpec, Spec

\* Every part is well formed, and the Agent's state file keeps its inductive invariant.
THEOREM FilesAreWellFormed == FilesSpec => []FilesTypeOK
<1>1. /\ (AuthInv => Auth!TypeOK) /\ (VaultInv => Vault!TypeOK)
      /\ (EngineInv => Engine!TypeOK) /\ (ColdInv => Cold!TypeOK) /\ (SiloInv => Silo!TypeOK)
  BY DEF AuthInv, VaultInv, EngineInv, ColdInv, SiloInv, SiloTyped
<1>2. IInv /\ AuthInv /\ VaultInv /\ EngineInv /\ ColdInv /\ SiloInv => FilesTypeOK
  BY <1>1 DEF FilesTypeOK
<1> QED BY <1>2, FilesRunState, InductiveInvariant, FilesRunParts, AuthenticationFileInvariant,
           VaultFileInvariant, FilesRunEngine, EngineInvariant, FilesRunBackup,
           ColdBackupInvariant, FilesRunRestore, ManagedRestoreInvariant, PTL
=============================================================================
