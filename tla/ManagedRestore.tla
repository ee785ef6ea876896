--------------------------- MODULE ManagedRestore ---------------------------
(***************************************************************************)
(* Restoring one Managed Silo from a cold backup (vault/managed_backup.rs):*)
(* the profile tree and its Vault record change together, under a journal  *)
(* directory that recovery reads after a crash or a failure.               *)
(*                                                                         *)
(* A profile tree is the number of the restore that installed it, 0 for    *)
(* the one that was there first; the Vault holds the tree its record       *)
(* belongs to, Missing when that tree was lost, and the number of other    *)
(* edits, made to any Silo.  The Vault file is the cell of VaultFile.      *)
(* Archive parsing and encryption, leases and link checks are the failure  *)
(* outcome of the step they belong to.                                     *)
(* The process may be killed at any step; a power loss that reorders       *)
(* directory updates is outside this module.                               *)
(***************************************************************************)
EXTENDS Naturals

CONSTANTS Missing,     \* there is no such tree
          Foreign,     \* a tree that another process created
          Locked,      \* the Vault is not in memory
          MaxRestores, \* bound on the restores
          MaxEdits,    \* bound on the other Vault edits
          MaxFailures, \* bound on failed file-system calls
          MaxCrashes   \* bound on crashes

RestoreAssumption ==
    /\ Missing \notin Nat /\ Foreign \notin Nat /\ Missing # Foreign
    /\ Locked \notin [tree : Nat \cup {Missing}, edits : Nat]
    /\ {MaxRestores, MaxEdits, MaxFailures, MaxCrashes} \subseteq Nat

VARIABLES managed,   \* the Silo's directory
          journal,   \* the restore journal directory
          vault,     \* the Vault file
          mem,       \* the Vault in memory
          caller,    \* what called the recovery or the cleanup in progress
          pc,        \* the next file-system call
          hadTree,   \* old_exists: the Silo had a directory when it began
          saved,     \* ghost: the last Vault whose write was acknowledged
          torn,      \* ghost: a failed write_marker left its file behind
          restores, failures, crashes

fsVars == <<managed, journal, vault>>
vars == <<managed, journal, vault, mem, caller, pc, hadTree, saved, torn,
          restores, failures, crashes>>

Trees == Nat \cup {Missing, Foreign}
VaultData == [tree : Nat \cup {Missing}, edits : Nat]

NoJournal == [open |-> FALSE, staged |-> Missing, old |-> Missing,
              discarded |-> Missing, vault |-> Locked, oldMissing |-> FALSE,
              prepared |-> FALSE, committed |-> FALSE]

Preparing == {"journal", "stage", "rewrite", "copyVault", "markMissing", "prepare"}
Switching == {"moveAside", "install", "commitVault", "commit"}
Recovering == {"recover", "setAside", "putBack", "removeRestored", "copyBack",
               "replaceVault", "dropDiscarded", "unprepare", "dropJournal"}
Cleaning == {"cleanOld", "cleanDiscarded", "cleanStaged", "cleanPrepared",
             "cleanCommitted", "cleanDirectory"}

TypeOK == /\ managed \in Trees
          /\ journal \in [open : BOOLEAN, staged : Trees, old : Trees,
                          discarded : Trees, vault : VaultData \cup {Locked},
                          oldMissing : BOOLEAN, prepared : BOOLEAN,
                          committed : BOOLEAN]
          /\ {vault, saved} \subseteq VaultData
          /\ mem \in VaultData \cup {Locked}
          /\ caller \in {"none", "unlock", "restore", "abandon", "rollback", "finish"}
          /\ pc \in {"idle"} \cup Preparing \cup Switching \cup Recovering \cup Cleaning
          /\ {hadTree, torn} \subseteq BOOLEAN
          /\ {restores, failures, crashes} \subseteq Nat

\* The Silo's directory may have been lost: that is what backups are for.
Init == /\ managed \in {0, Missing}
        /\ journal = NoJournal
        /\ vault = [tree |-> managed, edits |-> 0]
        /\ mem = Locked
        /\ caller = "none"
        /\ pc = "idle"
        /\ hadTree = FALSE
        /\ saved = vault
        /\ torn = FALSE
        /\ restores = 0 /\ failures = 0 /\ crashes = 0
-----------------------------------------------------------------------------
Goto(label) == /\ pc' = label
               /\ UNCHANGED <<mem, caller, hadTree, saved, restores, crashes>>

Succeed == UNCHANGED <<torn, failures>>

\* A file-system call, or a check made with it, fails.
Fail == /\ failures < MaxFailures
        /\ failures' = failures + 1

FailUntorn == Fail /\ UNCHANGED torn

Return == /\ pc' = "idle"
          /\ caller' = "none"
          /\ UNCHANGED <<hadTree, saved, restores, crashes>>

\* Mutant: a rollback that fails leaves the Vault unlocked.
RecoverErrorUnlocked == Return /\ UNCHANGED mem

\* What the callers of recover_one do with an error: a rollback that fails
\* locks the Vault, an abandoned preparation ignores it.
RecoverError == /\ Return
                /\ mem' = IF caller = "rollback" THEN Locked ELSE mem

\* unlock reads the Vault file; restore goes on to its own journal.
RecoverOk ==
    \/ /\ caller = "unlock"
       /\ mem' = vault
       /\ Return
    \/ /\ caller = "restore"
       /\ pc' = "journal"
       /\ hadTree' = (managed # Missing)
       /\ caller' = "none"
       /\ UNCHANGED <<mem, saved, restores, crashes>>
    \/ /\ caller \in {"abandon", "rollback", "finish"}
       /\ Return
       /\ UNCHANGED mem

SetJournal(j) == journal' = j /\ UNCHANGED <<managed, vault>>

\* One step of a sequence that an error sends to recovery.
Step(label, effect, next, onError) ==
    /\ pc = label
    /\ \/ effect /\ Succeed /\ Goto(next)
       \/ UNCHANGED fsVars /\ FailUntorn /\ onError

\* An error before the transition is answered whatever recover_one returns; one
\* during it makes recover_one_under_lease decide.
Recover(who) == /\ pc' = "recover"
                /\ caller' = who
                /\ UNCHANGED <<mem, hadTree, saved, restores, crashes>>
-----------------------------------------------------------------------------
(* VaultRuntime::unlock, lock and the other edits *)

Unlock == /\ pc = "idle" /\ mem = Locked
          /\ Recover("unlock")
          /\ UNCHANGED fsVars /\ Succeed

Lock == /\ pc = "idle" /\ mem # Locked
        /\ mem' = Locked
        /\ UNCHANGED <<fsVars, caller, pc, hadTree, saved, torn, restores,
                       failures, crashes>>

Edit == /\ pc = "idle" /\ mem # Locked
        /\ mem.edits < MaxEdits
        /\ mem' = [mem EXCEPT !.edits = @ + 1]
        /\ vault' = mem'
        /\ saved' = mem'
        /\ UNCHANGED <<managed, journal, caller, pc, hadTree, torn, restores,
                       failures, crashes>>
-----------------------------------------------------------------------------
(* restore_managed_silo_backup: preparation *)

RestoreManaged == /\ pc = "idle" /\ mem # Locked
                  /\ restores < MaxRestores
                  /\ restores' = restores + 1
                  /\ caller' = "restore"
                  /\ pc' = "recover"
                  /\ UNCHANGED <<fsVars, mem, hadTree, saved, torn, failures, crashes>>

CreateJournal ==
    /\ pc = "journal"
    /\ \/ /\ ~journal.open
          /\ SetJournal([NoJournal EXCEPT !.open = TRUE])
          /\ Succeed /\ Goto("stage")
       \/ journal.open /\ UNCHANGED <<fsVars, mem>> /\ Succeed /\ Return
       \/ UNCHANGED <<fsVars, mem>> /\ FailUntorn /\ Return

\* Reads the archive into the staged tree; every check may still refuse it.
Stage ==
    /\ pc = "stage"
    /\ SetJournal([journal EXCEPT !.staged = restores])
    /\ \/ Succeed /\ Goto("rewrite")
       \/ FailUntorn /\ Recover("abandon")

Rewrite == Step("rewrite", vault' = mem /\ UNCHANGED <<managed, journal>>,
                "copyVault", Recover("abandon"))

CopyVault == Step("copyVault", SetJournal([journal EXCEPT !.vault = vault]),
                  "markMissing", Recover("abandon"))

\* write_marker: a failure after create_new leaves an incomplete marker, and
\* only its existence is ever tested.
MarkerFails(marked) == /\ Fail
                       /\ \/ UNCHANGED <<fsVars, torn>>
                          \/ SetJournal(marked) /\ torn' = TRUE

MarkMissing ==
    /\ pc = "markMissing"
    /\ LET marked == [journal EXCEPT !.oldMissing = ~hadTree]
       IN \/ SetJournal(marked) /\ Succeed /\ Goto("prepare")
          \/ ~hadTree /\ MarkerFails(marked) /\ Recover("abandon")

Prepare ==
    /\ pc = "prepare"
    /\ LET marked == [journal EXCEPT !.prepared = TRUE]
       IN \/ SetJournal(marked) /\ Succeed /\ Goto("moveAside")
          \/ MarkerFails(marked) /\ Recover("abandon")
-----------------------------------------------------------------------------
(* restore_managed_silo_backup: transition *)

MoveAside ==
    Step("moveAside",
         IF hadTree THEN /\ managed' = Missing
                         /\ journal' = [journal EXCEPT !.old = managed]
                         /\ UNCHANGED vault
                    ELSE UNCHANGED fsVars,
         "install", Recover("rollback"))

\* rename does not replace a directory with something in it.
Install ==
    /\ pc = "install"
    /\ \/ /\ managed = Missing
          /\ managed' = journal.staged
          /\ journal' = [journal EXCEPT !.staged = Missing]
          /\ UNCHANGED vault
          /\ Succeed /\ Goto("commitVault")
       \/ managed # Missing /\ UNCHANGED fsVars /\ Succeed /\ Recover("rollback")
       \/ UNCHANGED fsVars /\ FailUntorn /\ Recover("rollback")

Restored == [mem EXCEPT !.tree = restores]

\* persist_data may fail before or after its rename.
CommitVault ==
    /\ pc = "commitVault"
    /\ UNCHANGED <<managed, journal>>
    /\ \/ vault' = Restored /\ Succeed /\ Goto("commit")
       \/ vault' \in {vault, Restored} /\ FailUntorn /\ Recover("rollback")

\* Mutant: memory takes the restored Vault without the commit marker.
CommitUnmarked ==
    /\ pc = "commit"
    /\ mem' = Restored /\ saved' = Restored
    /\ pc' = "cleanOld" /\ caller' = "finish"
    /\ UNCHANGED <<fsVars, torn, failures, hadTree, restores, crashes>>

\* The commit marker, the restored Vault in memory, and then the cleanup.
Commit ==
    /\ pc = "commit"
    /\ LET marked == [journal EXCEPT !.committed = TRUE]
       IN \/ /\ SetJournal(marked) /\ Succeed
             /\ mem' = Restored /\ saved' = Restored
             /\ pc' = "cleanOld" /\ caller' = "finish"
             /\ UNCHANGED <<hadTree, restores, crashes>>
          \/ MarkerFails(marked) /\ Recover("rollback")
-----------------------------------------------------------------------------
(* cleanup_committed, whose errors are ignored *)

CleanStep(label, effect, next) ==
    /\ pc = label
    /\ \/ effect /\ Succeed /\ Goto(next)
       \/ UNCHANGED fsVars /\ FailUntorn /\ RecoverOk

CleanOld == CleanStep("cleanOld", SetJournal([journal EXCEPT !.old = Missing]),
                      "cleanDiscarded")

CleanDiscarded == CleanStep("cleanDiscarded",
                            SetJournal([journal EXCEPT !.discarded = Missing]),
                            "cleanStaged")

CleanStaged == CleanStep("cleanStaged",
                         SetJournal([journal EXCEPT !.staged = Missing]),
                         "cleanPrepared")

\* Mutant: the commit marker goes before the marker it overrides.
CleanCommittedFirst ==
    CleanStep("cleanPrepared", SetJournal([journal EXCEPT !.committed = FALSE]),
              "cleanCommitted")

CleanPrepared == CleanStep("cleanPrepared",
                           SetJournal([journal EXCEPT !.prepared = FALSE]),
                           "cleanCommitted")

CleanCommitted == CleanStep("cleanCommitted",
                            SetJournal([journal EXCEPT !.committed = FALSE]),
                            "cleanDirectory")

CleanDirectory ==
    /\ pc = "cleanDirectory"
    /\ \/ SetJournal(NoJournal) /\ Succeed
       \/ UNCHANGED fsVars /\ FailUntorn
    /\ RecoverOk

CleanupNext == \/ CleanOld \/ CleanDiscarded \/ CleanStaged \/ CleanPrepared
               \/ CleanCommitted \/ CleanDirectory
-----------------------------------------------------------------------------
(* recover_one and recover_one_under_lease *)

\* Mutant: the directory is always taken for the restored tree.
NoConflict == FALSE

\* The directory may be another process's: the staged tree was not moved yet.
Conflict == /\ journal.staged # Missing
            /\ managed # Missing
            /\ journal.old # Missing \/ journal.oldMissing

\* Where an uncommitted transition is taken back from.
RollbackStart == CASE journal.old # Missing /\ managed # Missing -> "setAside"
                   [] journal.old # Missing /\ managed = Missing -> "putBack"
                   [] journal.old = Missing /\ journal.oldMissing -> "removeRestored"
                   [] OTHER -> "copyBack"

\* Mutant: the prepared marker is not asked for.
RecoverUnprepared ==
    /\ pc = "recover"
    /\ UNCHANGED fsVars
    /\ Succeed
    /\ IF journal.open THEN Goto(RollbackStart) ELSE RecoverOk

RecoverStart ==
    /\ pc = "recover"
    /\ UNCHANGED fsVars
    /\ \/ ~journal.open /\ Succeed /\ RecoverOk
       \/ journal.open /\ FailUntorn /\ RecoverError
       \/ journal.committed /\ Succeed /\ Goto("cleanOld")
       \/ /\ journal.open /\ ~journal.committed /\ ~journal.prepared
          /\ Succeed /\ Goto("dropJournal")
       \/ /\ ~journal.committed /\ journal.prepared
          /\ Succeed
          /\ \/ Conflict /\ RecoverError
             \/ ~Conflict /\ Goto(RollbackStart)

RecoverStep(label, effect, next) == Step(label, effect, next, RecoverError)

SetAside ==
    RecoverStep("setAside",
                /\ journal' = [journal EXCEPT !.discarded = managed]
                /\ managed' = Missing
                /\ UNCHANGED vault,
                "putBack")

\* A failed rename tries to put the set-aside tree back.
PutBack ==
    /\ pc = "putBack"
    /\ \/ /\ managed' = journal.old
          /\ journal' = [journal EXCEPT !.old = Missing]
          /\ UNCHANGED vault
          /\ Succeed /\ Goto("copyBack")
       \/ /\ FailUntorn /\ RecoverError
          /\ \/ UNCHANGED fsVars
             \/ /\ journal.discarded # Missing
                /\ managed' = journal.discarded
                /\ journal' = [journal EXCEPT !.discarded = Missing]
                /\ UNCHANGED vault

RemoveRestored == RecoverStep("removeRestored",
                              managed' = Missing /\ UNCHANGED <<journal, vault>>,
                              "copyBack")

\* Copies the saved envelope beside the Vault file's replacement.
CopyBack == RecoverStep("copyBack", UNCHANGED fsVars, "replaceVault")

\* Mutant: only the tree is rolled back.
ReplaceVaultSkipped == RecoverStep("replaceVault", UNCHANGED fsVars, "dropDiscarded")

ReplaceVault == RecoverStep("replaceVault",
                            vault' = journal.vault /\ UNCHANGED <<managed, journal>>,
                            "dropDiscarded")

DropDiscarded == RecoverStep("dropDiscarded",
                             SetJournal([journal EXCEPT !.discarded = Missing]),
                             "unprepare")

Unprepare == RecoverStep("unprepare",
                         SetJournal([journal EXCEPT !.prepared = FALSE]),
                         "dropJournal")

DropJournal ==
    /\ pc = "dropJournal"
    /\ \/ SetJournal(NoJournal) /\ Succeed /\ RecoverOk
       \/ UNCHANGED fsVars /\ FailUntorn /\ RecoverError

RecoverNext == \/ RecoverStart \/ SetAside \/ PutBack \/ RemoveRestored
               \/ CopyBack \/ ReplaceVault \/ DropDiscarded \/ Unprepare
               \/ DropJournal
-----------------------------------------------------------------------------
Kill == /\ mem # Locked \/ pc # "idle"
        /\ crashes < MaxCrashes
        /\ crashes' = crashes + 1
        /\ mem' = Locked
        /\ pc' = "idle"
        /\ caller' = "none"
        /\ UNCHANGED <<fsVars, hadTree, saved, torn, restores, failures>>

\* Another process creates the directory before the staged tree is moved there,
\* and not in the instant between recovery's check of it and its next call.
CreateForeign == /\ managed = Missing
                 /\ pc \notin Recovering
                 /\ journal.staged # Missing
                 /\ managed' = Foreign
                 /\ UNCHANGED <<journal, vault, mem, caller, pc, hadTree, saved,
                                torn, restores, failures, crashes>>

RestoreNext == \/ RestoreManaged \/ CreateJournal \/ Stage \/ Rewrite \/ CopyVault
               \/ MarkMissing \/ Prepare \/ MoveAside \/ Install \/ CommitVault
               \/ Commit

Next == \/ Unlock \/ Lock \/ Edit
        \/ RestoreNext
        \/ CleanupNext
        \/ RecoverNext
        \/ Kill
        \/ CreateForeign

Spec == Init /\ [][Next]_vars
-----------------------------------------------------------------------------
\* The tree and the Vault that recovery, let run to its end, would leave.
RecoveredTree ==
    CASE journal.committed \/ ~journal.prepared -> managed
      [] journal.prepared /\ ~journal.committed /\ journal.old # Missing -> journal.old
      [] OTHER -> IF journal.oldMissing THEN Missing ELSE managed

RecoveredVault ==
    IF journal.committed \/ ~journal.prepared THEN vault ELSE journal.vault

Agree(tree, data) == tree # Foreign => tree = data.tree

\* "Ordinary failures and an interrupted process must keep the original data or
\* leave a clear state that can be recovered" (cold backup v1, scope): at every
\* step of the restore, of its rollback, of the cleanup and of recovery itself,
\* recovery from here ends with the tree and the Vault record of one and the
\* same restore, unless a failed write_marker left its file behind.
RecoversToOneRestore == ~torn => Agree(RecoveredTree, RecoveredVault)

\* An unlocked Vault that is doing nothing describes the tree on disk, and the
\* Vault file says the same: no failed restore leaves half of itself behind.
MemoryMatchesDisk ==
    (~torn /\ pc = "idle" /\ mem # Locked) => /\ Agree(managed, mem)
                                              /\ vault = mem

\* A restore touches nothing but its own Silo: recovery never takes the Vault
\* back behind an edit that was acknowledged.
EditsSurviveRecovery == ~torn => RecoveredVault.edits >= saved.edits

\* "Never classify that path as ours and delete it": recovery leaves a tree
\* that another process created before the stage rename where it is.
ForeignTreeKept ==
    [][(pc \in Recovering /\ managed = Foreign) => managed' = Foreign]_vars

\* The last promise without the exception: a marker whose write failed after
\* its creation counts as written for recovery, and as failed for the caller.
OtherSilosUntouched == RecoveredVault.edits >= saved.edits
=============================================================================
