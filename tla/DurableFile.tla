----------------------------- MODULE DurableFile ----------------------------
(***************************************************************************)
(* The on-disk protocol of DurableAgentStore (durable_store.rs): write a   *)
(* fresh temporary file, move the live file aside, move the temporary file *)
(* into place, drop the old copy, with a directory sync after each move.   *)
(*                                                                         *)
(* dir is the directory the running system sees; disk is the set of        *)
(* directories a power loss may leave: every state since the last          *)
(* successful directory sync.  A killed process leaves dir as it is.  The  *)
(* content of the file is one of Values; a file that was created but not   *)
(* yet synced holds Torn.                                                  *)
(***************************************************************************)
EXTENDS Naturals

CONSTANTS Values, Default, Torn, Absent

ASSUME ContentAssumption == /\ Default \in Values
                            /\ Torn \notin Values
                            /\ Absent \notin Values
                            /\ Torn # Absent

VARIABLES dir,          \* directory entries as the process sees them
          disk,         \* directories a power loss may leave
          mem,          \* DurableAgentStore.state
          prospective,  \* the state being persisted
          poisoned,     \* DurableAgentStore.poisoned
          caller,       \* which of open and mutate is in progress
          pc            \* the next file-system call

vars == <<dir, disk, mem, prospective, poisoned, caller, pc>>

Names == {"dest", "bak", "tmp"}

WritePcs == {"create", "write", "purge", "purge_sync", "aside", "aside_sync",
             "install", "commit_sync", "cleanup", "cleanup_sync",
             "restore", "restore_sync", "discard"}

RecoverPcs == {"recover", "recover_sync", "load"}

TypeOK == /\ dir \in [Names -> Values \cup {Torn, Absent}]
          /\ disk \in SUBSET [Names -> Values \cup {Torn, Absent}]
          /\ mem \in Values
          /\ prospective \in Values
          /\ poisoned \in BOOLEAN
          /\ caller \in {"none", "open", "mutate"}
          /\ pc \in {"down", "idle"} \cup WritePcs \cup RecoverPcs

\* A machine on which the Agent has never run.
Init == /\ dir = [n \in Names |-> Absent]
        /\ disk = {dir}
        /\ mem = Default
        /\ prospective = Default
        /\ poisoned = FALSE
        /\ caller = "none"
        /\ pc = "down"
-----------------------------------------------------------------------------
Exists(n) == dir[n] # Absent

\* A directory operation: visible at once, durable at the next sync.
SetDir(d) == /\ dir' = d
             /\ disk' = disk \cup {d}

Remove(n) == SetDir([dir EXCEPT ![n] = Absent])

Rename(from, to) == SetDir([dir EXCEPT ![to] = dir[from], ![from] = Absent])

SyncDir == /\ disk' = {dir}
           /\ dir' = dir

FsUnchanged == UNCHANGED <<dir, disk>>

Goto(label) == /\ pc' = label
               /\ UNCHANGED <<mem, prospective, poisoned, caller>>

\* Mutant: a failed mutate forgets to poison the store.
ReturnErrorUnpoisoned ==
    /\ pc' = IF caller = "open" THEN "down" ELSE "idle"
    /\ caller' = "none"
    /\ UNCHANGED <<mem, prospective, poisoned>>

\* An error leaves open without a store, and mutate with a poisoned one.
ReturnError == /\ IF caller = "open" THEN pc' = "down" /\ poisoned' = FALSE
                             ELSE pc' = "idle" /\ poisoned' = TRUE
               /\ caller' = "none"
               /\ UNCHANGED <<mem, prospective>>

ReturnOk == /\ pc' = "idle"
            /\ mem' = prospective
            /\ caller' = "none"
            /\ UNCHANGED <<prospective, poisoned>>
-----------------------------------------------------------------------------
(* DurableAgentStore::open *)

Start == /\ pc = "down"
         /\ FsUnchanged
         /\ pc' = "recover"
         /\ poisoned' = FALSE
         /\ caller' = "open"
         /\ UNCHANGED <<mem, prospective>>

RecoverFromBackup == /\ pc = "recover"
                     /\ ~Exists("dest") /\ Exists("bak")
                     /\ \/ Rename("bak", "dest") /\ Goto("recover_sync")
                        \/ FsUnchanged /\ ReturnError

RecoverDropBackup == /\ pc = "recover"
                     /\ Exists("dest") /\ Exists("bak")
                     /\ \/ Remove("bak") /\ Goto("recover_sync")
                        \/ FsUnchanged /\ ReturnError

RecoverNothing == /\ pc = "recover"
                  /\ ~Exists("bak")
                  /\ FsUnchanged
                  /\ Goto("load")

RecoverSync == /\ pc = "recover_sync"
               /\ \/ SyncDir /\ Goto("load")
                  \/ FsUnchanged /\ ReturnError

\* An existing file is parsed, and one cut short is refused.
LoadExisting == /\ pc = "load"
                /\ Exists("dest")
                /\ FsUnchanged
                /\ IF dir["dest"] = Torn
                   THEN ReturnError
                   ELSE /\ mem' = dir["dest"]
                        /\ caller' = "none"
                        /\ pc' = "idle"
                        /\ UNCHANGED <<prospective, poisoned>>

\* No file: the default state is written before open returns.
LoadDefault == /\ pc = "load"
               /\ ~Exists("dest")
               /\ FsUnchanged
               /\ prospective' = Default
               /\ pc' = "create"
               /\ UNCHANGED <<mem, poisoned, caller>>
-----------------------------------------------------------------------------
(* DurableAgentStore::mutate, for a change that validate_state accepts *)

Mutate(v) == /\ pc = "idle"
             /\ ~poisoned
             /\ FsUnchanged
             /\ prospective' = v
             /\ caller' = "mutate"
             /\ pc' = "create"
             /\ UNCHANGED <<mem, poisoned>>

(* DurableAgentStore::persist *)

\* Fails when the state is too long, or the file cannot be created.
CreateTemporary == /\ pc = "create"
                   /\ \/ /\ SetDir([dir EXCEPT !["tmp"] = Torn])
                         /\ Goto("write")
                      \/ FsUnchanged /\ ReturnError

\* Mutant: the contents are not synced before the file is moved.
WriteTemporaryUnsynced == /\ pc = "write"
                          /\ FsUnchanged
                          /\ Goto("purge")

WriteTemporary == /\ pc = "write"
                  /\ \/ /\ SetDir([dir EXCEPT !["tmp"] = prospective])
                        /\ Goto("purge")
                     \/ FsUnchanged /\ Goto("discard")

\* persist's error path.  The temporary file is removed if it can be; its
\* name is a fresh UUID, so one left behind is never looked at again.
Discard == /\ pc = "discard"
           /\ Remove("tmp")
           /\ ReturnError
-----------------------------------------------------------------------------
(* replace_file *)

PurgeBackup == /\ pc = "purge"
               /\ IF Exists("bak")
                  THEN \/ Remove("bak") /\ Goto("purge_sync")
                       \/ FsUnchanged /\ Goto("discard")
                  ELSE FsUnchanged /\ Goto("aside")

PurgeSync == /\ pc = "purge_sync"
             /\ \/ SyncDir /\ Goto("aside")
                \/ FsUnchanged /\ Goto("discard")

MoveAside == /\ pc = "aside"
             /\ IF Exists("dest")
                THEN \/ Rename("dest", "bak") /\ Goto("aside_sync")
                     \/ FsUnchanged /\ Goto("discard")
                ELSE FsUnchanged /\ Goto("install")

AsideSync == /\ pc = "aside_sync"
             /\ \/ SyncDir /\ Goto("install")
                \/ FsUnchanged /\ Goto("discard")

Install == /\ pc = "install"
           /\ \/ Rename("tmp", "dest") /\ Goto("commit_sync")
              \/ FsUnchanged /\ Goto("restore")

Restore == /\ pc = "restore"
           /\ \/ Exists("bak") /\ Rename("bak", "dest") /\ Goto("restore_sync")
              \/ FsUnchanged /\ Goto("discard")

RestoreSync == /\ pc = "restore_sync"
               /\ SyncDir \/ FsUnchanged
               /\ Goto("discard")

\* Mutant: a failed directory sync is ignored.
CommitSyncIgnored == /\ pc = "commit_sync"
                     /\ SyncDir \/ FsUnchanged
                     /\ Goto("cleanup")

\* The commit point.
CommitSync == /\ pc = "commit_sync"
              /\ \/ SyncDir /\ Goto("cleanup")
                 \/ FsUnchanged /\ Goto("discard")

\* Dropping the old copy is best effort.
CleanupBackup == /\ pc = "cleanup"
                 /\ \/ Exists("bak") /\ Remove("bak") /\ Goto("cleanup_sync")
                    \/ FsUnchanged /\ ReturnOk

CleanupSync == /\ pc = "cleanup_sync"
               /\ SyncDir \/ FsUnchanged
               /\ ReturnOk
-----------------------------------------------------------------------------
(* The environment *)

StopWith == /\ pc # "down"
            /\ pc' = "down"
            /\ poisoned' = FALSE
            /\ caller' = "none"
            /\ UNCHANGED <<mem, prospective>>

\* The temporary file of a run that ended is never looked at again.
WithoutTemporary(d) == [d EXCEPT !["tmp"] = Absent]

Kill == /\ StopWith
        /\ dir' = WithoutTemporary(dir)
        /\ disk' = {WithoutTemporary(d) : d \in disk}

PowerLoss == /\ StopWith
             /\ \E d \in disk : dir' = WithoutTemporary(d)
             /\ disk' = {dir'}

OpenNext == \/ Start \/ RecoverFromBackup \/ RecoverDropBackup
            \/ RecoverNothing \/ RecoverSync \/ LoadExisting \/ LoadDefault

PersistNext == \/ CreateTemporary \/ WriteTemporary \/ Discard

ReplaceNext == \/ PurgeBackup \/ PurgeSync \/ MoveAside \/ AsideSync \/ Install
               \/ Restore \/ RestoreSync \/ CommitSync \/ CleanupBackup
               \/ CleanupSync

Next == \/ OpenNext
        \/ \E v \in Values : Mutate(v)
        \/ PersistNext
        \/ ReplaceNext
        \/ Kill
        \/ PowerLoss

Spec == Init /\ [][Next]_vars
-----------------------------------------------------------------------------
\* What open would return from directory d.
Recovered(d) == IF d["dest"] # Absent THEN d["dest"]
                ELSE IF d["bak"] # Absent THEN d["bak"] ELSE Default

Recoverable == {Recovered(d) : d \in disk}

Status == CASE pc = "down" \/ caller = "open" -> "down"
            [] pc = "idle" /\ poisoned -> "poisoned"
            [] pc = "idle" /\ ~poisoned -> "ready"
            [] OTHER -> "writing"

\* Whatever the file system answers and whenever the process or the machine
\* stops, the store behaves as one atomic cell: a restart reads the last
\* acknowledged state or a state whose write was never answered, never a
\* mixture and never an older one, and a refused write is the last one.
Attempted == IF Status = "writing" THEN prospective ELSE Default

Cell == INSTANCE AtomicCell WITH next <- Attempted, status <- Status,
                                 recoverable <- Recoverable

ImplementsAtomicCell == Cell!Spec

\* No crash can leave a live or set-aside file that a restart cannot parse:
\* contents are synced before any directory entry that recovery reads names
\* them.
NothingTorn == \A d \in disk : d["dest"] # Torn /\ d["bak"] # Torn
-----------------------------------------------------------------------------
(* The inductive invariant behind the refinement *)

\* Which call may be in progress with which flags.
FlagsInv == /\ pc \in RecoverPcs => caller = "open"
            /\ caller = "none" <=> pc \in {"down", "idle"}
            /\ poisoned => pc = "idle"

\* The temporary file holds the prospective state from its sync to its move.
TemporaryInv == pc \in {"purge", "purge_sync", "aside", "aside_sync", "install"}
                => dir["tmp"] = prospective

\* The live file is missing only when it never existed or was just set aside.
LiveInv == /\ pc = "idle" /\ ~poisoned => dir["dest"] # Absent
           /\ pc = "recover_sync" => dir["dest"] # Absent
           /\ pc \in {"load", "create", "write", "purge", "purge_sync", "aside"}
              => (dir["dest"] = Absent => dir["bak"] = Absent)
           /\ pc \in {"aside_sync", "install", "restore"} => dir["dest"] = Absent
           /\ pc \in {"commit_sync", "cleanup", "cleanup_sync"}
              => dir["dest"] = prospective

\* open writes only the default, and only where there was nothing.
FirstWriteInv == caller = "open" /\ pc \in WritePcs
                 => /\ prospective = Default
                    /\ pc \in {"create", "write", "purge", "purge_sync", "aside",
                              "aside_sync", "install", "restore"}
                       => dir["bak"] = Absent /\ dir["dest"] = Absent

\* Past the commit point every crash leaves the new state.
CommittedInv == pc \in {"cleanup", "cleanup_sync"}
                => \A d \in disk : Recovered(d) = prospective

IInv == /\ TypeOK
        /\ dir \in disk
        /\ NothingTorn
        /\ FlagsInv
        /\ TemporaryInv
        /\ LiveInv
        /\ FirstWriteInv
        /\ CommittedInv
=============================================================================
