------------------------------ MODULE MCFiles ------------------------------
(***************************************************************************)
(* What has to survive a crash on disk: the files that are replaced whole, *)
(* namely the Agent's state (DurableFile), its authentication state        *)
(* (AuthFile), the desktop's Vault (VaultFile) and the state of an engine  *)
(* (EnginePackages); the restore of a Silo's directory (ManagedRestore)    *)
(* and the archives that it starts from (ColdBackup).  A behaviour runs    *)
(* one of them and the others rest.                                        *)
(***************************************************************************)
EXTENDS DurableFile, TLC

CONSTANTS Data, Empty, Passphrases, Locked, MaxKeys, MaxCalls, MaxFailures,
          Missing, Foreign, MaxRestores, MaxEdits, MaxCrashes,
          Files, Excluded, None, MaxDamage, MaxBackups,
          Roots, Callers, MaxVersion, MaxChanges, MaxEngineFailures

VARIABLES part,
          authDir, authDisk, authMem, authProspective, authPoisoned, authCaller, authPc,
          vaultDir, vaultDisk, vaultMem, ask, envelope, vaultPc, minted, vaultCopy, calls,
          vaultFailures,
          managed, journal, vault, opened, restoreCaller, restorePc, hadTree, saved, torn,
          restores, failures, crashes,
          files, stamp, backupPc, counted, todo, copy, out, target, pos, heard, got,
          inspected, restored, written, backups, edits, damage,
          camoufox, builtin, trees, engineDisk, possible, command, browser, accepted, killed,
          changes, engineFailures

authVars == <<authDir, authDisk, authMem, authProspective, authPoisoned, authCaller, authPc>>
vaultVars == <<vaultDir, vaultDisk, vaultMem, ask, envelope, vaultPc, minted, vaultCopy,
               calls, vaultFailures>>
restoreVars == <<managed, journal, vault, opened, restoreCaller, restorePc, hadTree, saved,
                 torn, restores, failures, crashes>>
backupVars == <<files, stamp, backupPc, counted, todo, copy, out, target, pos, heard, got,
                inspected, restored, written, backups, edits, damage>>
engineVars == <<camoufox, builtin, trees, engineDisk, possible, command, browser, accepted,
                killed, changes, engineFailures>>
filesVars == <<part, vars, authVars, vaultVars, restoreVars, backupVars,
               engineVars>>

Auth == INSTANCE AuthFile
        WITH dir <- authDir, disk <- authDisk, mem <- authMem,
             prospective <- authProspective, poisoned <- authPoisoned,
             caller <- authCaller, pc <- authPc

Engine == INSTANCE EnginePackages
          WITH disk <- engineDisk, caller <- command, failures <- engineFailures,
               MaxFailures <- MaxEngineFailures

Vault == INSTANCE VaultFile
         WITH dir <- vaultDir, disk <- vaultDisk, mem <- vaultMem, copy <- vaultCopy,
              prospective <- envelope, pc <- vaultPc, failures <- vaultFailures

Silo == INSTANCE ManagedRestore
           WITH mem <- opened, caller <- restoreCaller, pc <- restorePc

Cold == INSTANCE ColdBackup WITH pc <- backupPc

ASSUME AuthFileAssumption == Auth!ContentAssumption
ASSUME VaultFileAssumption == Vault!VaultAssumption
ASSUME RestoreAssumption == Silo!RestoreAssumption
ASSUME BackupAssumption == Cold!BackupAssumption
ASSUME PackagesAssumption == Engine!EngineAssumption

CallerSymmetry == Permutations(Callers)

\* The part that rests starts in one state.
Rests(p, condition) == part # p => condition

FilesInit ==
    /\ part \in {"state", "authentication", "vault", "restore", "backup", "engine"}
    /\ Init /\ Auth!Init /\ Vault!Init /\ Silo!Init /\ Cold!Init
    /\ Engine!Init
    /\ Rests("vault", \A name \in DOMAIN vaultDir : vaultDir[name] = Absent)
    /\ Rests("restore", managed = Missing)
    /\ Rests("backup", \A f \in Files : files[f] = None)
    /\ Rests("engine", camoufox /\ builtin = CHOOSE r \in Roots : TRUE)

FilesNext ==
    /\ \/ /\ part = "state" /\ Next
          /\ UNCHANGED <<authVars, vaultVars, restoreVars, backupVars, engineVars>>
       \/ /\ part = "authentication" /\ Auth!Next
          /\ UNCHANGED <<vars, vaultVars, restoreVars, backupVars, engineVars>>
       \/ /\ part = "vault" /\ Vault!Next
          /\ UNCHANGED <<vars, authVars, restoreVars, backupVars, engineVars>>
       \/ /\ part = "restore" /\ Silo!Next
          /\ UNCHANGED <<vars, authVars, vaultVars, backupVars, engineVars>>
       \/ /\ part = "backup" /\ Cold!Next
          /\ UNCHANGED <<vars, authVars, vaultVars, restoreVars, engineVars>>
       \/ /\ part = "engine" /\ Engine!Next
          /\ UNCHANGED <<vars, authVars, vaultVars, restoreVars, backupVars>>
    /\ UNCHANGED part

FilesSpec == FilesInit /\ [][FilesNext]_filesVars
-----------------------------------------------------------------------------
(* The parts are well formed: the inductive invariant of DurableFile, and  *)
(* the TypeOK of the others.                                               *)
FilesTypeOK == /\ IInv /\ Auth!TypeOK /\ Vault!TypeOK /\ Silo!TypeOK /\ Cold!TypeOK
               /\ Engine!TypeOK

(* AuthFile: a restart reads the authentication state last acknowledged.   *)
(* VaultFile: an unlock reads the Vault last acknowledged, or a doubted    *)
(* one.                                                                    *)
FilesImplementCells == Auth!ImplementsAtomicCell /\ Vault!ImplementsVaultCell

(* EnginePackages: a disabled engine stays disabled, and starts no         *)
(* browser, until somebody asks to lift the switch.                        *)
EngineStaysDisabled == /\ [](part = "engine" => Engine!SwitchStaysSet)
                       /\ Engine!NoLaunchWhenKilled

(* EnginePackages: a rollback returns to another version that was found    *)
(* good, and packages change while no browser runs.                        *)
PackagesAreChosen == /\ [](part = "engine" => Engine!RollbackIsAnother)
                     /\ Engine!ChangesWithoutBrowsers

(* ManagedRestore: recovery ends with tree and record of one and the same  *)
(* restore, no failed restore leaves half of itself behind, recovery never *)
(* takes the Vault back behind an acknowledged edit, and a tree that       *)
(* another process created stays where it is.                              *)
RestoreLosesNothing == /\ []Silo!RecoversToOneRestore
                       /\ [](Silo!MemoryMatchesDisk /\ Silo!EditsSurviveRecovery)
                       /\ Silo!ForeignTreeKept

(* ColdBackup: a restore installs exactly the items one backup wrote, they *)
(* are what the user saw and confirmed, and every file was copied as it    *)
(* was at one moment.                                                      *)
BackupIsTrue == Cold!RestoredWasWritten /\ Cold!RestoredWasConfirmed /\ Cold!FilesAreWhole
=============================================================================
