---------------------------- MODULE DesktopLocks ----------------------------
(***************************************************************************)
(* The locks that the commands of the desktop take (application/*.rs), as  *)
(* programs of LockOrder.  AllCommands run on the threads of a pool and of    *)
(* the local API, next to each other.                                      *)
(*                                                                         *)
(* A lock that is held only while nothing else is asked for is a Leaf; a   *)
(* try_lock of that kind never waits nor is worth waiting for, and is left *)
(* out, as are the locks inside a slot (its snapshot, its watchdog), which *)
(* are held over nothing that waits.                                       *)
(***************************************************************************)
EXTENDS Naturals, Sequences, SequencesExt, Functions

CONSTANTS Silos, Everything, Nobody,
          SlotOrder \* the managed slots, in the order of their registry

LocalControl == "local_control.reservation"

(* DesktopCore, in the order that its locks are meant to be taken; slots   *)
(* is the registry of managed slots, and each Silo has the lock of its     *)
(* manager.                                                                *)
Named == <<LocalControl, "remote_control", "runtime_status_publish", "vault", "runtime",
           "environments", "environment_runtime">>
Mutexes == (Range(Named) \ {LocalControl}) \cup Silos \cup {"slots"}
RankOf == [l \in Mutexes \cup {LocalControl} |->
           CASE l \in Silos -> Len(Named) + 1
             [] l = "slots" -> Len(Named) + 2
             [] OTHER -> CHOOSE i \in 1..Len(Named) : Named[i] = l]

(***************************************************************************)
(* Steps.                                                                  *)
(***************************************************************************)
Step(kind, lock, silo, skip) == [kind |-> kind, lock |-> lock, silo |-> silo, skip |-> skip]

(* A guard, and what happens in its scope. *)
Under(lock, body) ==
  <<Step("take", lock, Nobody, 0)>> \o body \o <<Step("give", lock, Nobody, 0)>>
IfFree(lock, body) ==
  <<Step("try", lock, Nobody, Len(body) + 1)>> \o body \o <<Step("give", lock, Nobody, 0)>>
Leaf(lock) == Under(lock, <<>>)
Maybe(body) == <<Step("maybe", Nobody, Nobody, Len(body))>> \o body
EachSlot(Body(_)) == FlattenSeq([i \in 1..Len(SlotOrder) |-> Body(SlotOrder[i])])

(* LocalEnvironmentControl. *)
Reserve(silo) == <<Step("take", LocalControl, silo, 0)>>
ReserveAll == Reserve(Everything)
TryReserveAll(body) == <<Step("try", LocalControl, Everything, Len(body))>> \o body

(***************************************************************************)
(* What the commands share.                                                *)
(***************************************************************************)
Vault == "vault"
Runtime == "runtime" \* the manager of the sessions that are not in a slot
Environments == "environments"
EnvironmentRuntime == "environment_runtime"
Registry == Leaf("slots")

(* revoke_all_for_vault_lock, snapshots, update, get, entries, has_occupied *)
(* and their kind lock only the registry; slots are tried.                  *)
RevokeAll == Registry
IsActive == Registry \o Maybe(Leaf(EnvironmentRuntime))

PublishRuntimeStatus ==
  Under("runtime_status_publish", Leaf(Vault) \o Registry \o IfFree(Runtime, Registry))
    \o Maybe(RevokeAll)

CollectRuntimeSessions ==
  Registry \o IfFree(Runtime, Registry) \o Leaf(EnvironmentRuntime)

ReconcileLocalRuntimes == Registry \o EachSlot(LAMBDA s : Maybe(Leaf(Vault) \o Registry))

PrepareWslDistribution == Leaf(EnvironmentRuntime) \o Leaf(Environments)
UseWslDistribution == PrepareWslDistribution \o Leaf(Environments)

StopEnvironmentForVaultLock ==
  Leaf(EnvironmentRuntime) \o Maybe(UseWslDistribution \o Leaf(EnvironmentRuntime))

(* reconcile_environment_runtime_if_needed; an identity lock that cannot   *)
(* be written is noted with the Vault still held.                          *)
ReconcileEnvironment ==
  Leaf(EnvironmentRuntime)
    \o Maybe(Maybe(Leaf(Environments))
               \o Maybe(UseWslDistribution
                          \o Maybe(Under(Vault, Maybe(Leaf(EnvironmentRuntime))))
                          \o Maybe(UseWslDistribution))
               \o Leaf(EnvironmentRuntime))

SaveRecentRun == Leaf(Vault)
SaveRecentRunFromStatus == Maybe(Leaf(Runtime)) \o Leaf(Vault)
SaveRecentRunFromSession == Maybe(Registry) \o Leaf(Vault)

(***************************************************************************)
(* The Vault (application/vault.rs).                                       *)
(***************************************************************************)
ReadVault == Leaf(Vault) \* a list, a look-up, a backup: the Vault and nothing else
InitializeOrUnlock == Under(Vault, Leaf(Runtime)) \o ReconcileLocalRuntimes
                        \o PublishRuntimeStatus
LockVault ==
  ReserveAll
    \o Under("remote_control",
             StopEnvironmentForVaultLock
               \o Under(Vault, Leaf(Runtime))
               \o Registry
               \o EachSlot(LAMBDA s : Leaf(s) \o Registry)
               \o PublishRuntimeStatus)
ChangePassphrase == Leaf(Vault) \o Leaf(Runtime) \o PublishRuntimeStatus
RestoreVault ==
  ReserveAll
    \o Under("remote_control",
             Registry
               \o Registry
               \o EachSlot(LAMBDA s : Leaf(s))
               \o Under(Vault, Under(Runtime, Leaf(Environments)))
               \o EachSlot(LAMBDA s : Leaf(s) \o Registry)
               \o PublishRuntimeStatus)

(***************************************************************************)
(* Status (application/runtime.rs).                                        *)
(***************************************************************************)
VaultIsLocked == RevokeAll \o Leaf(Runtime) \o StopEnvironmentForVaultLock
                   \o Leaf(EnvironmentRuntime)
EffectiveActivation == Maybe(Leaf(EnvironmentRuntime))
DesktopStatus ==
  Leaf(Runtime) \o Leaf(Vault) \o Leaf(Runtime) \o Leaf(Vault)
    \o Maybe(ReconcileEnvironment)
    \o Leaf(Vault)
    \o Maybe(VaultIsLocked)
    \o EffectiveActivation
    \o PublishRuntimeStatus
    \o Maybe(Leaf(Vault) \o Maybe(Registry)) \* the inbox of the companion
    \o Leaf(Runtime) \o Leaf(Vault)
    \o Under(Runtime, EffectiveActivation)
    \o Leaf(Vault)
    \o Maybe(VaultIsLocked)
    \o EffectiveActivation
    \o CollectRuntimeSessions
    \o Maybe(Leaf(Runtime) \o Maybe(SaveRecentRunFromStatus) \o Registry
               \o Maybe(SaveRecentRunFromSession))
    \o Registry \* unique_activation
    \o PublishRuntimeStatus

ListRuntimeSessions == Leaf(Vault) \o Maybe(RevokeAll) \o CollectRuntimeSessions
GetSiloRuntime == Leaf(Vault) \o Maybe(RevokeAll) \o Registry \o Registry \o Maybe(Leaf(Vault))
DiagnosticStatus(s) ==
  Reserve(s) \o Leaf(Vault) \o Registry \o Maybe(Registry) \o Leaf(Vault) \o Maybe(RevokeAll)
    \o GetSiloRuntime \o Maybe(SaveRecentRun) \o PublishRuntimeStatus \o Registry
DiagnoseSilo(s) == Leaf(Vault) \o DiagnosticStatus(s) \o Maybe(Leaf(Vault))

(***************************************************************************)
(* Sessions (application/runtime.rs).  The manager m of a command is that  *)
(* of the slot, or the shared one.                                         *)
(***************************************************************************)
RecheckBrowser(s) == Reserve(s) \o Under(Vault, IsActive)

WithManager(m) == Registry \o Leaf(m) \o Registry
RecheckLocal(s, m) ==
  Reserve(s) \o Leaf(Vault) \o WithManager(m) \o SaveRecentRun \o PublishRuntimeStatus
RebindMihomo(s, m) == RecheckLocal(s, m)
StopManaged(s, m) ==
  Reserve(s) \o Leaf(Vault) \o WithManager(m) \o Maybe(SaveRecentRun) \o PublishRuntimeStatus

(* The end of a command on a Linux environment: the guard of its state is  *)
(* still held while the status is published.                               *)
PublishUnderEnvironmentRuntime == Under(EnvironmentRuntime, PublishRuntimeStatus)
RecheckWsl(s) ==
  Reserve(s) \o Under(Vault, Leaf(EnvironmentRuntime)) \o UseWslDistribution
    \o Maybe(UseWslDistribution) \o PublishUnderEnvironmentRuntime
StopWsl(s) ==
  Reserve(s) \o Under(Vault, Leaf(EnvironmentRuntime)) \o UseWslDistribution
    \o PublishUnderEnvironmentRuntime

(* The guard of a reserved slot is dropped on every way out of a launch,   *)
(* before the one of the Vault if that is still held.                      *)
DropStartGuard(s) == IfFree(s, Registry)
LaunchEnds(m) ==
  Leaf(Vault) \o Maybe(RevokeAll \o Leaf(m) \o PublishRuntimeStatus)
    \o SaveRecentRun \o PublishRuntimeStatus
LaunchManaged(s) ==
  Leaf(Vault) \o Reserve(s)
    \o Under(Vault, Registry \o Maybe(Leaf(EnvironmentRuntime)) \o Maybe(DropStartGuard(s)))
    \o Leaf(s) \o Registry \o DropStartGuard(s) \o LaunchEnds(s)
LaunchExclusive ==
  Leaf(Vault) \o ReserveAll
    \o Under(Vault, Registry \o Leaf(EnvironmentRuntime))
    \o Leaf(Runtime) \o Registry \o LaunchEnds(Runtime)
LaunchWsl ==
  Leaf(Vault) \o ReserveAll
    \o Under(Vault, Registry \o Leaf(Runtime) \o Leaf(EnvironmentRuntime))
    \o UseWslDistribution
    \o Maybe(Leaf(Vault) \o Leaf(Environments))
    \o Maybe(UseWslDistribution)
    \o PublishUnderEnvironmentRuntime

(***************************************************************************)
(* Silos and identities (application/silos.rs, identity.rs).               *)
(***************************************************************************)
PageAction(s, m) == Reserve(s) \o Leaf(Vault) \o Registry \o Leaf(m)
CreateSilo == ReserveAll \o Maybe(PrepareWslDistribution) \o Leaf(Vault)
CreateManagedSilo == ReserveAll \o Leaf(Vault) \o Leaf(Vault)
EditSilo(s) == Reserve(s) \o Under(Vault, IsActive)
RenameSilo == Under(Vault, IsActive)
(* The new identity is made between the two looks at the Vault. *)
RebindManaged(s) == EditSilo(s) \o Maybe(Under(Vault, IsActive))
DeleteSilo(s) == EditSilo(s) \o Maybe(UseWslDistribution) \o Under(Vault, IsActive)
BackupManaged(s) == Reserve(s) \o IsActive \o Leaf(Vault)
RestoreManaged(s, m) == BackupManaged(s) \o WithManager(m) \o PublishRuntimeStatus

(***************************************************************************)
(* Environments, engines, the remote environment, and the end.             *)
(***************************************************************************)
EnvironmentStatuses == Leaf(Environments)
SelectDistribution == ReserveAll \o PrepareWslDistribution
ExecuteEnvironment ==
  Maybe(Leaf(Vault)) \o ReserveAll
    \o Under(Vault, Under(Runtime, IsActive))
    \o Maybe(PrepareWslDistribution)
    \o Under(Environments, Maybe(Leaf(EnvironmentRuntime)))
LegacyArtifacts == ReserveAll \o Leaf(Vault)
MaintainEngine == ReserveAll \o IsActive
ListEngines == TryReserveAll(IsActive)
UseRemote == Under("remote_control", Leaf(Vault))
ExitFromTray == ReserveAll \o Leaf(Runtime) \o Registry
                  \o EachSlot(LAMBDA s : Under(s, Registry))

(* A watchdog and a revoker hold a manager while they work on it. *)
WorkOnManager(m) == Leaf(m)

(***************************************************************************)
(* All commands.  Those that take the same locks share a name.             *)
(***************************************************************************)
ForAll == [ReadVault |-> ReadVault, InitializeOrUnlock |-> InitializeOrUnlock,
           LockVault |-> LockVault, ChangePassphrase |-> ChangePassphrase,
           RestoreVault |-> RestoreVault, DesktopStatus |-> DesktopStatus,
           ListRuntimeSessions |-> ListRuntimeSessions, GetSiloRuntime |-> GetSiloRuntime,
           LaunchExclusive |-> LaunchExclusive, LaunchWsl |-> LaunchWsl,
           CreateSilo |-> CreateSilo, CreateManagedSilo |-> CreateManagedSilo,
           RenameSilo |-> RenameSilo, EnvironmentStatuses |-> EnvironmentStatuses,
           SelectDistribution |-> SelectDistribution,
           ExecuteEnvironment |-> ExecuteEnvironment, LegacyArtifacts |-> LegacyArtifacts,
           MaintainEngine |-> MaintainEngine, ListEngines |-> ListEngines,
           UseRemote |-> UseRemote, ExitFromTray |-> ExitFromTray,
           WorkOnManager |-> WorkOnManager(Runtime)]
ForSilo(s) == [DiagnoseSilo |-> DiagnoseSilo(s), RecheckBrowser |-> RecheckBrowser(s),
               RecheckWsl |-> RecheckWsl(s), StopWsl |-> StopWsl(s),
               LaunchManaged |-> LaunchManaged(s), EditSilo |-> EditSilo(s),
               RebindManaged |-> RebindManaged(s), DeleteSilo |-> DeleteSilo(s),
               BackupManaged |-> BackupManaged(s), WorkOnManager |-> WorkOnManager(s)]
ForSiloAnd(s, m) == [RecheckLocal |-> RecheckLocal(s, m), RebindMihomo |-> RebindMihomo(s, m),
                     StopManaged |-> StopManaged(s, m), PageAction |-> PageAction(s, m),
                     RestoreManaged |-> RestoreManaged(s, m)]

ProgramOf ==
  LET all == ForAll
      of == [s \in Silos |-> ForSilo(s)]
      with == [s \in Silos |-> [m \in {s, Runtime} |-> ForSiloAnd(s, m)]]
  IN [c \in {<<n>> : n \in DOMAIN all} |-> all[c[1]]]
     @@ [c \in UNION {(DOMAIN of[s]) \X {s} : s \in Silos} |-> of[c[2]][c[1]]]
     @@ [c \in UNION {(DOMAIN with[s][s]) \X {s} \X {s, Runtime} : s \in Silos} |->
           with[c[2]][c[3]][c[1]]]
AllCommands == DOMAIN ProgramOf

(* The commands that end with PublishUnderEnvironmentRuntime. *)
OutOfOrder == {c \in AllCommands : c[1] \in {"LaunchWsl", "StopWsl", "RecheckWsl"}}
=============================================================================
