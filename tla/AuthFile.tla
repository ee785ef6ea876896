------------------------------ MODULE AuthFile ------------------------------
(***************************************************************************)
(* The on-disk protocol of AuthStore (auth_store.rs): write the state into *)
(* a temporary file whose name never changes, rename it over the live one, *)
(* tighten its mode and sync the directory.                                *)
(*                                                                         *)
(* dir and disk are as in DurableFile: what the process sees, and what a   *)
(* power loss may leave.  Here recovery does read the temporary file, when *)
(* there is no live one.  The advisory lock that keeps a second process    *)
(* out is pc: there is one program counter.                                *)
(***************************************************************************)
EXTENDS Naturals

CONSTANTS Values, Default, Torn, Absent

ContentAssumption == /\ Default \in Values
                     /\ Torn \notin Values
                     /\ Absent \notin Values
                     /\ Torn # Absent

VARIABLES dir,          \* [live, tmp] as the process sees them
          disk,         \* directories a power loss may leave
          mem,          \* AuthStore.state
          prospective,  \* the state being persisted
          poisoned,     \* AuthStore.poisoned
          caller,       \* which of open and commit is in progress
          pc            \* the next file-system call

vars == <<dir, disk, mem, prospective, poisoned, caller, pc>>

Contents == Values \cup {Torn, Absent}

TypeOK == /\ dir \in [live : Contents, tmp : Contents]
          /\ disk \in SUBSET [live : Contents, tmp : Contents]
          /\ mem \in Values
          /\ prospective \in Values
          /\ poisoned \in BOOLEAN
          /\ caller \in {"none", "open", "commit"}
          /\ pc \in {"down", "idle", "recover", "promoted", "load", "stale",
                     "create", "write", "discard", "rename", "sync"}

Init == /\ dir = [live |-> Absent, tmp |-> Absent]
        /\ disk = {dir}
        /\ mem = Default
        /\ prospective = Default
        /\ poisoned = FALSE
        /\ caller = "none"
        /\ pc = "down"
-----------------------------------------------------------------------------
SetDir(d) == /\ dir' = d
             /\ disk' = disk \cup {d}

RemoveTemporary == SetDir([dir EXCEPT !.tmp = Absent])

\* rename replaces the live file in one step.
MoveIntoPlace == SetDir([live |-> dir.tmp, tmp |-> Absent])

SyncDir == /\ disk' = {dir}
           /\ dir' = dir

FsUnchanged == UNCHANGED <<dir, disk>>

Goto(label) == /\ pc' = label
               /\ UNCHANGED <<mem, prospective, poisoned, caller>>

\* An error leaves open without a store, and commit with a poisoned one.
ReturnError == /\ IF caller = "open" THEN pc' = "down" /\ poisoned' = FALSE
                                     ELSE pc' = "idle" /\ poisoned' = TRUE
               /\ caller' = "none"
               /\ UNCHANGED <<mem, prospective>>
-----------------------------------------------------------------------------
(* AuthStore::open and recover_interrupted_write *)

Start == /\ pc = "down"
         /\ FsUnchanged
         /\ pc' = "recover"
         /\ caller' = "open"
         /\ UNCHANGED <<mem, prospective, poisoned>>

\* The live file wins; the removal of the temporary one is not synced.
RecoverLive == /\ pc = "recover"
               /\ dir.live # Absent
               /\ \/ RemoveTemporary /\ Goto("load")
                  \/ dir.tmp # Absent /\ FsUnchanged /\ ReturnError

\* A temporary file alone must parse before it becomes the live one.
RecoverPromote == /\ pc = "recover"
                  /\ dir.live = Absent /\ dir.tmp # Absent
                  /\ \/ dir.tmp # Torn /\ MoveIntoPlace /\ Goto("promoted")
                     \/ FsUnchanged /\ ReturnError

RecoverSync == /\ pc = "promoted"
               /\ \/ SyncDir /\ Goto("load")
                  \/ FsUnchanged /\ ReturnError

RecoverNothing == /\ pc = "recover"
                  /\ dir.live = Absent /\ dir.tmp = Absent
                  /\ FsUnchanged
                  /\ Goto("load")

\* Mutant: a missing file is read as if it were there.
LoadExistingMissing == /\ pc = "load"
                       /\ FsUnchanged
                       /\ mem' = dir.live
                       /\ caller' = "none"
                       /\ pc' = "idle"
                       /\ UNCHANGED <<prospective, poisoned>>

LoadExisting == /\ pc = "load"
                /\ dir.live # Absent
                /\ FsUnchanged
                /\ IF dir.live = Torn
                   THEN ReturnError
                   ELSE /\ mem' = dir.live
                        /\ caller' = "none"
                        /\ pc' = "idle"
                        /\ UNCHANGED <<prospective, poisoned>>

LoadDefault == /\ pc = "load"
               /\ dir.live = Absent
               /\ FsUnchanged
               /\ prospective' = Default
               /\ pc' = "stale"
               /\ UNCHANGED <<mem, poisoned, caller>>
-----------------------------------------------------------------------------
(* AuthStore::commit, for a state that validate_state accepts, and persist *)

Commit(v) == /\ pc = "idle"
             /\ ~poisoned
             /\ FsUnchanged
             /\ prospective' = v
             /\ caller' = "commit"
             /\ pc' = "stale"
             /\ UNCHANGED <<mem, poisoned>>

\* Fails when the state is too long, or the old temporary file stays.
RemoveStale == /\ pc = "stale"
               /\ \/ RemoveTemporary /\ Goto("create")
                  \/ FsUnchanged /\ ReturnError

CreateTemporary == /\ pc = "create"
                   /\ \/ SetDir([dir EXCEPT !.tmp = Torn]) /\ Goto("write")
                      \/ FsUnchanged /\ ReturnError

WriteTemporary == /\ pc = "write"
                  /\ \/ SetDir([dir EXCEPT !.tmp = prospective]) /\ Goto("rename")
                     \/ FsUnchanged /\ Goto("discard")

\* Removing the partial file is best effort.
Discard == /\ pc = "discard"
           /\ RemoveTemporary \/ FsUnchanged
           /\ ReturnError

\* A failed rename leaves the complete temporary file behind.
Rename == /\ pc = "rename"
          /\ \/ MoveIntoPlace /\ Goto("sync")
             \/ FsUnchanged /\ ReturnError

\* Mutant: the answer does not wait for the directory sync.
ModeAndSyncEarly == /\ pc = "sync"
                    /\ SyncDir \/ FsUnchanged
                    /\ mem' = prospective
                    /\ caller' = "none"
                    /\ pc' = "idle"
                    /\ UNCHANGED <<prospective, poisoned>>

\* chmod and the directory sync: the answer is given only after both.
ModeAndSync == /\ pc = "sync"
               /\ \/ /\ SyncDir
                     /\ mem' = prospective
                     /\ caller' = "none"
                     /\ pc' = "idle"
                     /\ UNCHANGED <<prospective, poisoned>>
                  \/ FsUnchanged /\ ReturnError
-----------------------------------------------------------------------------
Stop == /\ pc # "down"
        /\ pc' = "down"
        /\ poisoned' = FALSE
        /\ caller' = "none"
        /\ UNCHANGED <<mem, prospective>>

Kill == Stop /\ FsUnchanged

PowerLoss == /\ Stop
             /\ dir' \in disk
             /\ disk' = {dir'}

OpenNext == \/ Start \/ RecoverLive \/ RecoverPromote \/ RecoverSync
            \/ RecoverNothing \/ LoadExisting \/ LoadDefault

PersistNext == \/ RemoveStale \/ CreateTemporary \/ WriteTemporary \/ Discard
               \/ Rename \/ ModeAndSync

Next == \/ OpenNext
        \/ \E v \in Values : Commit(v)
        \/ PersistNext
        \/ Kill
        \/ PowerLoss

Spec == Init /\ [][Next]_vars
-----------------------------------------------------------------------------
\* What open would return from directory d, if it returns.
Recovered(d) == CASE d.live # Absent -> d.live
                  [] d.live = Absent /\ d.tmp \in Values -> d.tmp
                  [] OTHER -> Default

Recoverable == {Recovered(d) : d \in disk}

Status == CASE pc = "down" \/ caller = "open" -> "down"
            [] pc = "idle" /\ poisoned -> "poisoned"
            [] pc = "idle" /\ ~poisoned -> "ready"
            [] OTHER -> "writing"

Attempted == IF Status = "writing" THEN prospective ELSE Default

\* The auth state file behaves as one atomic cell too: a restart reads the
\* last acknowledged state or one whose commit was never answered, so no
\* crash can set a response sequence, a consumed token or a revocation back.
Cell == INSTANCE AtomicCell WITH next <- Attempted, status <- Status,
                                 recoverable <- Recoverable

ImplementsAtomicCell == Cell!Spec
=============================================================================
