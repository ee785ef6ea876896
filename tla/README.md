# VeriSilo: a verification project

TLA+ models of VeriSilo, the TLC runs that check them on small instances, and
proofs that TLAPS checks for every instance.  Paths are relative to the
repository; `RB/` stands for `crates/verisilo-remote-backend/src/` and `DT/` for
`apps/desktop/src-tauri/src/`.

1. [The system](#1-the-system)
2. [How the project is laid out](#2-how-the-project-is-laid-out)
3. [The modules and the code](#3-the-modules-and-the-code)
4. [What the runs check](#4-what-the-runs-check)
5. [What is proved](#5-what-is-proved)
6. [Where the code and its documents disagree](#6-where-the-code-and-its-documents-disagree)
7. [What is not modelled, and what is left](#7-what-is-not-modelled-and-what-is-left)

## 1. The system

VeriSilo keeps browser identities ("Silos").  A desktop application stores them
in an encrypted Vault and runs browsers for them: as local processes, in a WSL
distribution, in Windows Sandbox, in a Hyper-V machine, or on a node the user
operates.  On that node runs the Remote Agent, one daemon that owns paid-for
resources (compute, an encrypted volume, keys) through a provider.

| Part | State it keeps | Operations | What is hard | What makes it correct |
|---|---|---|---|---|
| Agent lifecycle core, `RB/agent.rs` | environments, deletion proofs, request claims (in the store) | create, lifecycle commands, destroy, sweep of expired environments, recovery at start | crashes and failed writes between the provider's effect and its record; a provider that fails after it took effect; retries | no resource without a record, one create per Silo, a proof that is never lost, expiry that really happens |
| Agent state file, `RB/durable_store.rs` | one JSON file, its backup, `poisoned` | open, mutate, persist, replace_file, recover | kill or power loss between renames and directory syncs; errors after the effect | an acknowledged write survives, a restart never reads a mixture |
| Authentication state, `RB/auth_store.rs` | pairing token, credentials, replay windows, pin rotations, response sequence | issue token, redeem, authorise rotation, authenticate, revoke all, reserve sequence | replays after eviction or restart, expiry in mid-rotation, revocation, bounded windows | nothing is accepted twice, response numbers only grow, a bound token stays bound |
| Authentication state file, `RB/auth_store.rs` | live and temporary file, lock | open, commit, persist, recover | as above, with a temporary file that recovery reads | as above |
| Agent service, `RB/agent_service.rs` | suspension flag | agent requests, maintenance tick | which failures suspend the service and what still works then | no service while the state is in doubt |
| HTTPS listener, `RB/https_server.rs` | connection permits, ready queue | accept, a worker per connection, dispatch, maintenance, stop | one dispatch thread shared by requests and sweeps; deadlines | bounded admission, a sweep in every interval, an end |
| Provider bridge, `RB/provider_bridge.rs` | one child process per call | exchange with a time limit | pipes held by a grandchild | every call ends |
| Agent daemon, `RB/bin/verisilo-remote-agent.rs` | configuration | init-token, revoke-all, serve | operator commands next to a daemon | exclusive use of the state |
| Remote client, `RB/lib.rs`, `DT/application/remote.rs` | pairing, binding, last response sequence, orphan receipts (in the Vault) | pair, operate, rotate pin, revoke, force-detach, restore | lost answers, saves that fail in doubt, older Vaults | the environment stays known, pin, credential and binding agree, nothing burned comes back |
| Vault, `DT/vault.rs` | encrypted file, unlocked data, leases, Profile directories | create, unlock, persist, Silo life cycle, identities, backup and restore | failed persist after the rename, restore over live state | memory and file agree, secrets and Profiles are neither lost nor orphaned, a used identity keeps its lock |
| Managed backup, `DT/vault/managed_backup.rs` | archives, restore journal | cold backup, inspect, restore, recover | crash between tree, record and journal; files that change while copied | a restore ends whole, an archive is what was there |
| Runtime launcher, `DT/launcher.rs`, `DT/runtime_watchdog.rs` | active runtime, process records, leases | launch, stop, refresh, watchdog, recover, fail closed | processes that outlive the application, stop against launch | what runs is known and stopped at lock, no traffic outside its path |
| Engine packages, `DT/engine.rs`, `DT/application/engines.rs` | installed versions, active version, emergency switch | install, update, rollback, disable, provision | several processes on one state file, crash between move and record | the active version was verified, a disabled engine stays disabled |
| Environment backends, `DT/environment_backend.rs`, `scripts/*` | per-Silo bindings, what guest and host keep | configure, launch, stop, health, destroy | external tools that fail half-way, go on after the time limit, or are killed | nothing runs or stays that the host does not know of |
| Local runtimes and local API, `DT/local_runtimes.rs`, `DT/local_api.rs` | a slot per managed Silo, watchdogs, pending revocations | reserve, launch, poll, stop, lock | status polls next to launches; mutexes that are busy when the Vault locks | never more than the limit, a lock revokes every session |
| Application layer, `DT/application/*` | eight kinds of lock over all of the above | every user command | several commands at once | no circular wait |
| Network cores, `DT/mihomo.rs`, `DT/proxy_relay.rs` | relay and controller sessions | start, verify, stop | failure while a browser runs | fail closed (as seen by the launcher) |
| Native messaging host, `DT/native_host.rs` | inbox files | accept, persist, consume | two processes on one directory | no observation is used twice |
| Domain types, website identity, Camoufox Host, browser extension, site, scripts | none that is shared, or build time only | – | – | – |

The desktop sends requests over HTTPS to the Agent's listener; a worker parses
each one and hands it to the single dispatch thread, which authenticates it
(`AuthStore`), claims it and executes it (`AgentCore` over the durable store and
the provider).  The same thread runs maintenance between requests.  So the Agent
has no data races; its difficulty is failure: each of those calls may fail, or
the process may die, after any effect.  The desktop is the opposite: commands run
on a pool of threads and share the Vault, the runtime managers and the slots
behind locks; watchdogs and status polls run next to them; and everything they
start outlives them.

## 2. How the project is laid out

One module models one component and knows nothing of the others.  Where a
component relies on another, it relies on what that one was shown to provide:
`AuthStore` and `AgentCore` write through an atomic cell (`AtomicCell`) that
`AuthFile` and `DurableFile` implement, `VaultSilos`, `ManagedRestore` and
`RemoteClient` through the Vault's cell (`VaultCell`) that `VaultFile`
implements, and `AgentCore` takes a maintenance tick that comes again and again,
which `AgentServer` delivers.

A **bench** (an `MC` module) puts the components that answer one question next
to each other.  Its variable `part` is chosen at the start: a behaviour runs one
part and the others rest in their initial state, so a bench costs the sum of its
parts' states and not the product.  A property of a bench is a conjunction of
named properties, one or more per part.  The proofs are about the benches'
specifications, and so about each part.

| Bench | Parts | Question |
|---|---|---|
| `MCAuthStore` | `AuthStore` | Can traffic, failures and restarts make the Agent accept or number anything twice, or refuse pairing for ever? |
| `MCEnvironments` | `AgentCore`, `RemoteClient`, `WslGuest` (twice), `SandboxGuest`, `HyperVGuest` | Is every resource outside the desktop known to its keeper? |
| `MCAgentDaemon` | `AgentCore`, `AgentServer` | Does the Agent's one thread do in the end all that it has to? |
| `MCFiles` | `DurableFile`, `AuthFile`, `VaultFile`, `EnginePackages`, `ManagedRestore`, `ColdBackup` | What is left after a crash? |
| `MCDesktop` | `LockOrder` with the programs of `DesktopLocks`, `VaultSilos`, `LocalSlots` (twice) | Do concurrent commands agree? |
| `MCSessions` | `LocalRuntime`, `WslRuntime`, `LocalSlots` (twice) | Are browsers known, watched and ended? |

`AtomicCell`, `VaultCell` and `LockOrder` are abstract specifications:
`DurableFile` and `AuthFile` implement the first, `VaultFile` the second (with
refinement mappings, as properties of `files`, and proved); `LockOrder` is about
any set of programs, and `DesktopLocks` gives it those of the desktop.

## 3. The modules and the code

`PROJECT.json` maps every definition to the lines it stands for.  This section
says how state and actions correspond, and what was abstracted.

**AtomicCell, DurableFile (`RB/durable_store.rs`).**  `dir` maps the three names
(live file, `.bak`, temporary file) to contents, as the process sees them; `disk`
is the set of directories a power loss may leave, namely every state since the
last directory sync that succeeded.  `pc` names the next file-system call: one
action per call of `open`, `recover_interrupted_write`, `persist` and
`replace_file`, with the outcome "fails" wherever the code handles an error.
Contents are model values; a file created but not synced is `Torn`.  `Kill` keeps
`dir`; `PowerLoss` picks any element of `disk`.  A temporary file left behind has
a fresh UUID in its name and is forgotten.

**AuthFile (`RB/auth_store.rs`).**  The same with the other protocol: a temporary
file with a fixed name, an atomic rename over the live file, and a recovery that
promotes a complete temporary file when there is no live one.

**AuthStore (`RB/auth_store.rs`).**  `state` and `disk` hold the persisted record:
response sequence, the one outstanding token, credentials with expiry,
revocation and last sequence, the replay windows, the pending rotations.  One
action per operation, each with its commit, its refusal when poisoned, and its
failure in doubt.  Operator commands run only while the daemon does not hold the
lock.  `history` is what the outside was told, in order; the properties are about
it.  Presenting a token or credential means knowing it.  Requests may be
repeated at any time with any sequence; a nonce and a request id are one value.

**AgentCore (`RB/agent.rs`, the store and the suspension flag).**  `job` and
`step` are where the single dispatch thread stands: a request, a sweep or the
recovery, one step per store write and provider call.  `store`, `disk`,
`poisoned` are the atomic cell; `live` is what the provider really holds, which
the code cannot see; `calls` counts its creates; `proofs` are the deletion proofs
clients were given; `suspended` is `AgentService.agent_state_poisoned`.
`ProviderCreate` may fail after allocating, `ProviderDestroyFails` may have
destroyed.  `Crash` at any step; `Restart` is the operator's answer to a
suspension.  Snapshot, logs, health and network changes keep the state and are
all `inspect`.

**AgentServer (`RB/https_server.rs`, `RB/provider_bridge.rs`).**  The accept loop
with its permits, a worker per connection, the bounded channel, the serving
thread that alternates between requests and maintenance, the provider's process
with its time limit and the grandchild that may hold its pipes, and the two ends
of the whole: the stop that was asked for, and `GiveUp`, when an admitted
connection gets no TLS session or no thread and the listener returns the error.
A request's content is not part of it.

**RemoteClient (`RB/lib.rs`, `DT/application/remote.rs`, `DT/vault.rs`).**  The
remote part of the Vault in memory, on disk, in a backup and about to be saved;
the request in flight; and the Agent as far as a request is accepted there.  A
request may be lost, answered without the answer arriving, or handled after the
client gave up; each save is acknowledged, refused or left in doubt; a crash may
come anywhere, and an older Vault may be restored.  A credential is named by the
token it was issued for.  One command runs at a time, as in the code.  The calls
that the desktop refuses before they are sent (create, start and others) are not
modelled.

**WslGuest (`DT/environment_backend.rs`, `scripts/verisilo-wsl-guest-agent.sh`).**
The application makes one call at a time; each starts an agent in the guest,
which takes the guest's lock and works on binding, evidence, PID file and browser
step by step.  A call that times out kills `wsl.exe` only: its agent goes on
unheard and may act after a later call.  The lock is a descriptor that a started
Chromium inherits.  The bench has two instances: one Silo with two agents and
what killed agents leave behind, and two Silos that want one distribution, with
one agent.  A detachment is three steps (profile and receipts, directory, binding) that
a kill may part.  Bounds: one unheard agent at a time, `MaxLeftovers`.

**SandboxGuest (`DT/environment_backend.rs`, `scripts/verisilo-sandbox.ps1`).**  An
environment is a directory of files that the application makes and removes one
by one; the controller script starts, records and closes the one Sandbox process
of the host, which its user may start and close too.  `Ids` are process
identities with start times.

**HyperVGuest (`DT/environment_backend.rs`, `scripts/verisilo-hyperv.ps1`).**  The
controller with its journal, receipt and binding; machine, disk, switch and
checkpoint are made and removed one at a time, and a controller may be killed or
left unanswered between any two.  `observe` stands for checkpoint, health and
logs; `off` for the stopped and saved machine.

Free agents, scripts, controllers and process identities are interchangeable,
so a new one is a `CHOOSE` of the free ones.

**LocalRuntime (`DT/launcher.rs`, `DT/runtime_watchdog.rs`, and the commands of
`DT/application/vault.rs` and `runtime.rs` that reach a manager).**  One
`RuntimeManager` for Silos of Camoufox with its Host and of stock browsers, behind
a relay, behind Mihomo or without either.  `runtime` is what the manager holds
(child, relay, lease, context with its secret, pending release, record,
activation), next to it what really runs.  Launch, refresh, the watchdog, recovery
of a recorded session, stop, recheck and restore are each one handler under the
manager's mutex with its order of effects; processes die, ports and probes fail,
the record cannot be read, the desktop crashes.

The Vault has another mutex.  `Lock` locks the Vault and `FinishLock` revokes what
the manager holds; a session's processes, its watchdog and a launch or poll that is
under way may come in between (the shared manager is revoked under the Vault's
mutex, that of a Camoufox Silo after it).  `AutoLock` locks the Vault at any look
and revokes nothing.  `taken` says what a launch
(`LaunchTakes`) or the recovery of a poll (`PollTakes`) has taken out of the open
Vault and not yet given to the manager: it may arrive after the Vault locked, and
`Answer` is the look at the Vault with which both end.  Other commands that read
credentials act at one moment.  Bound: one launch and one poll at a time.

**WslRuntime (`DT/application/environments.rs`, `DT/application/runtime.rs`).**  The
browser in a WSL distribution: the record that survives the desktop, the
activation in memory, and the two things that work on them at once, a command
(with a reservation) and the status poll (without).  Each call into the
distribution and each look at record or activation is a step.  `prepare` and
`execute` are one step; a distribution stands for its Silo; one poll at a time.
`Overlaps` says whether a poll may overlap a launch (section 6).

**LocalSlots (`DT/local_runtimes.rs`, `DT/local_api.rs`).**  A slot per managed
Silo and the legacy manager: admission by reservation, launch, watchdog, poll,
stop, the lock of the Vault with the revokers it leaves behind for managers that
are busy.  Admission reserves a slot and then starts its watchdog, which may fail.  Merged: status reads in a row; a publisher stands for the publication
at each command's end; atomics are sequentially consistent.  Bound: `Revokers`.

**LockOrder, DesktopLocks (`DT/application/*.rs`).**  A command is the sequence of
locks it takes and gives back; `LockOrder` runs any number of threads over any
set of programs, and a command may return early at each step that can fail.
`DesktopLocks` writes down the programs of the commands.

**VaultFile, VaultCell (`DT/vault.rs`).**  As `AuthFile`, for an envelope (data,
passphrase, data key), with create, unlock and upgrade of an old envelope, persist,
passphrase change, restore and lock.

**VaultSilos (`DT/vault.rs`, `DT/application/silos.rs`, `identity.rs`).**  Create,
edit, rebind, launch, archive, delete, backup and restore of Silos, with their
secrets, identity artifacts and Profile directories.  An operation is one job
with a step per save and per directory change; a save ends saved, refused or in
doubt.  `Valid` is `validate_vault_data`: an unlock and a restore ask for it, and a
creation does not (hence `Overfull`).  Bounds: `MaxCalls`, `MaxFresh`, `MaxDoubts`,
and `MaxArtifacts` for the code's limit of 256.

**ManagedRestore, ColdBackup (`DT/vault/managed_backup.rs`).**  The first is the
restore transaction: staged tree, journal with its markers, the moves, the
Vault's save, rollback, cleanup and `recover_one`, with a failure or a kill at
every step.  The second is the archive: copying files that may change, writing
and publishing, damage on the way, inspection and restore.

**EnginePackages (`DT/engine.rs`, `DT/application/engines.rs`).**  The state file of
an engine, read, held and written by commands and by provisioning Hosts, with
package trees that are found good or not.  A launch's plan and start are one
step; `Move` is the application started from another place.

## 4. What the runs check

Six runs pass, one per bench; six find a violation (section 6).  Each property is
stated with a comment in its module; in short:

| Run | Property | Says |
|---|---|---|
| `auth_store` | `TypeOK` | state and file are well formed |
| | `NothingTwice` | no request answered twice, no token redeemed twice, answers numbered upwards |
| | `RevocationIsFinal` | a revoked credential authenticates nothing more; a token bound to a rotation pairs only with the rotation granted last |
| | `PairingNotWedged` | leftovers of earlier traffic never make validation refuse a permitted pairing |
| `environments` | `EnvironmentsTypeOK` | every keeper is well formed; `AgentCore`'s inductive invariant |
| | `NoUntrackedResource`, `ReturnedProofIsDurable`, `CreatedOnce` | Agent: a live resource has a record on disk, a client's proof is the one on disk, one create per Silo |
| | `ServesRecovered`, `DestroysOnlyDoomed` | Agent: no service before recovery; a resource goes only if incomplete, expired or asked for |
| | `EnvironmentTracked`, `ControlIsConsistent`, `NothingComesBack` | desktop: a living environment is bound or has an orphan receipt; pin, credential and binding agree and a failed save costs one refused request; nothing burned or revoked returns |
| | `GuestsAreTracked` | WSL, Sandbox, Hyper-V: what runs and what it is made of is known to the host, unless a call outlived its answer |
| | `GuestsKeepToTheirOwn` | a browser starts with the network acknowledged last, a script closes only its own Sandbox, resources of others stay |
| `agent_daemon` | `ServerHoldsItsLimits` | permits return, the channel has room for each worker, no provider process outside its call |
| | `ExpiredIsDestroyed` | an expired resource goes in the end |
| | `MaintenanceRecurs`, `ServerFinishes` | maintenance comes round under any traffic; connections end, and so does the listener once it is asked to stop or gives up |
| `files` | `FilesTypeOK` | parts are well formed; `DurableFile`'s inductive invariant |
| | `NothingTorn`, `ImplementsAtomicCell`, `FilesImplementCells` | what recovery reads is whole; the three files implement their cells |
| | `RestoreLosesNothing` | recovery ends with tree and record of one restore and every acknowledged edit, unless a marker was torn; a foreign tree stays |
| | `BackupIsTrue` | a restore installs what one backup wrote, as it was seen and confirmed, each file as it was at one moment |
| | `EngineStaysDisabled`, `PackagesAreChosen` | the emergency switch outlives commands, failures and crashes; a rollback returns to another good version, and only provisioning changes the active package under a running browser |
| `desktop` | `DesktopTypeOK` | parts are well formed |
| | `OnlyUnorderedDeadlock` | a circular wait needs a command known to break the order |
| | `SlotsAreLimited`, `LockRevokes` | never more sessions than the limit; once the lock is done no session has credentials, and what was busy is on its way |
| | `SilosAreKept`, `IdentitiesStayLocked` | each reference in a Vault that is written is met, only a creation overfills it, its secrets are those in use, a used Profile goes after its Silo; no edit, restart or restore takes back lock or seed |
| `sessions` | `SessionsTypeOK` | parts are well formed, and what a manager holds is of its active session |
| | `RelayIsGuarded`, `RuntimeStaysKnown` | a relay serves the browser of a sound path, and a session that needs it has it; what a lock, launch or poll leaves in the manager of a locked Vault holds no secret; a closed path is never called running, an open stock browser keeps its Silo in use |
| | `BrowserIsRecorded`, `BlockIsSound` | a browser in WSL is in the record that survives; a block is lifted only when nothing is left |
| | `LockEndsSessions`, `RuntimeIsCorrected` | a Vault that locked, by command or by itself, ends the secrets of local sessions and the browser in WSL; what ended is noticed |

### Bounds, and why they are enough

What matters in each protocol is how many things can interfere, and it is few.

- `auth_store`: 2 tokens, 2 credentials, 2 request identities, windows of 1,
  sequences to 2, lifetimes 2, 2 and 1, clock to 3, 5 responses.  A window of one
  claim evicts at the second; two tokens and credentials let a rotation move from
  one to the next.  Symmetric in the three sets.  About 2 minutes.
- `environments`: Agent: 2 Silos (one fails while the sweep handles the other),
  lifetime 1, clock to 2, one failed write, one crash (on any step, of recovery
  too).  Desktop: 2 tokens, 2 pins, 4 commands, 2 faults.  Guests: 2 agents, one
  leftover; 1 Sandbox environment, 2 scripts, 3 process identities; 2 Hyper-V
  controllers, 2 creates.  Symmetric in Silos and tokens.  Under 3 minutes.
- `agent_daemon`: as above for the Agent; 3 clients for 2 permits, one of them
  waiting; no symmetry, since it checks liveness.
- `files`: 3 contents (default, old, new), 2 passphrases, 2 keys, 4 calls, 2
  failures; 2 restores, 2 edits, 2 crashes; 3 files of which one is excluded, 2
  backups, one piece of damage; 2 package roots, 2 Hosts, 2 versions, 2 changes of
  a tree.  The Hosts of engines are symmetric.
- `desktop`: 2 threads on 2 Silos; 2 managed Silos and 1 stock one, 2 identities, 4
  operations, one save in doubt, and one artifact as the limit, which the second
  creation exceeds; 1 slot with 2 revokers, 3 slots with limit 2.  Symmetric in
  threads and revokers.  About 3 minutes.
- `sessions`: 4 local Silos: Camoufox behind its relay and without, a stock browser
  behind Mihomo, and one behind a relay that it may do without; 3 WSL Silos of which
  one is unknown to the Vault; 1 slot, 1 publisher, 1 revoker.  A stock Silo that
  needs its proxy and has no relay would be a fifth: its runs differ from these in
  one outcome of a recovery (`Reconciled`), and the proofs have it.

Deadlock is checked in `auth_store`, `auth_store_wedged` and
`managed_restore_rollback`.  It is off in the others: there a part may rest (a
server that stopped, a call budget that is used up, a manager that owns nothing,
threads in the deadlock that section 6 describes).

The proofs of section 5 lift these bounds: they hold for every value of the
constants that the named assumptions allow.

### Fairness

- `agent_daemon`, `AgentCore`: the dispatch thread takes its next step (one thread
  that loops); an operator restarts an Agent that is down or suspended, as the
  code asks; the provider, asked again and again, destroys in the end (strong:
  the step is disabled between attempts).  Failed writes and crashes are finite
  by their bounds; a disk that always fails promises nothing.
- `agent_daemon`, `AgentServer`: each worker ends (the connection timeout), the
  serving thread takes its turn, time passes.  Nothing is assumed of clients, of
  the provider's process or of what it leaves behind.
- `sessions`: the watchdog's thread runs (every 30 s); the window polls for as long
  as it is open, also while the Vault is locked (`LockedStatus`), and the calls into
  the distribution return (they have a time limit); mutexes are handed
  on (strong fairness of those that wait for one).  Stopping, killing and
  probing may fail any finite number of times in a row.

## 5. What is proved

Every safety property of every passing run is a theorem of its bench's
specification; only the five liveness properties are not (below).

| Module | Theorems |
|---|---|
| `AuthStoreProofs` | `InductiveInvariant`, `AlwaysTyped`, `NeverTwice`, `RevocationFinal`, `NeverWedged` |
| `EnvironmentsProofs` | Agent: `InductiveInvariant`, `NeverUntracked`, `ProofsDurable`, `CreatesOnce`, `RecoversBeforeServing`, `OnlyDoomedDestroyed`; desktop: `RemoteInvariant`, `EnvironmentsKnown`, `ControlConsistent`, `NothingReturns`; guests: `GuestsInvariant`, `GuestsTracked`, `GuestsKeepOwn`; all: `EnvironmentsTyped` |
| `WslGuestProofs` | `GuestInvariant` |
| `AgentDaemonProofs` | `ListenerInvariant`, `LimitsHold` |
| `FilesProofs` | state file: `InductiveInvariant`, `NeverTorn`, `Refinement`; `AuthenticationFileInvariant`, `AuthenticationFileRefinement`; `VaultFileInvariant`, `VaultFileRefinement`; `FilesAreCells`; engines: `EngineInvariant`, `EngineKeepsDisabled`, `EnginePackagesAreChosen`; `ColdBackupInvariant`, `BackupsAreTrue`; `ManagedRestoreInvariant`, `RestoresLoseNothing`; all: `FilesAreWellFormed` |
| `LocalSlotsProofs` | `SlotsInvariant` |
| `DesktopProofs` | `DeadlockNeedsUnordered`, `SlotsStayLimited`, `LocksRevoke`, `SilosStayKept`, `IdentitiesKeepTheirLocks`, `DesktopInvariant`, `DesktopIsWellFormed` |
| `SessionsProofs` | `LocalRuntimeInvariant`, `RelaysGuarded`, `RuntimesKnown`; `BrowsersRecorded`, `BlocksSound`; `SessionsTyped` |

A component's invariant is proved once, action by action, and the bench's theorem
takes it from there: a step of the bench is a step of one part and leaves the
others alone.

### Assumptions

Only the named ones of the modules, each evaluated by TLC on every run of its
bench.  Most say that markers such as `None` or `Torn` are not values.  Those
that say more: `CoreAssumption` and `LimitsAssumption` (lifetimes and windows are
positive), `OrderAssumption` (programs are sequences of takes and gives that keep
to the ranks unless named in `Unordered`), `SandboxAssumption` (finitely many
process identities, enough for each environment, the user's Sandbox and one
more), `SilosAssumption` (the kinds of Silos are disjoint and the bounds numbers;
the number of operations and the limit of artifacts are independent),
`RuntimeAssumption` of `LocalRuntime` (a Camoufox Silo gets a relay only if it must
use its proxy, Mihomo implies both) and of `WslRuntime`; `BrowsersRecorded` and
`BlocksSound` are moreover about `Overlaps = FALSE`, since with overlapping polls
they are false (`wsl_runtime_overlap`).

### The arguments

None of these properties is inductive as it stands.  What each needs:

- **Agent.** What each step may assume of the disk, since a crash may come at any
  step and only the disk survives: the record is provisioning while the provider
  creates, kept while it destroys, and the resource is gone before the deletion
  is written; memory equals disk unless the store is poisoned, and a poisoned
  store is noticed before the next job.  `OnlyDoomedDestroyed` needs also why a
  destroy in progress was begun (`DoomedOnDisk`).
- **State files.** The temporary file holds the prospective state from its sync to
  its move; the live file is missing only if it never existed or was just set
  aside; where `AuthFile`'s live file is missing only the default was ever
  written; nothing that recovery reads is torn.  The refinements map `pc` and
  `poisoned` to the cell's status and `disk` to its recoverable values: the
  rename exposes the new value, the directory sync commits it, the rest stutters.
- **Authentication.** The file accounts for the history: every answer's number,
  every operation's sequence, the end of every revoked credential, the rotation a
  token was bound to.  A write in doubt is harmless because the file accounts for
  the history with and without it.
- **Remote client.** Each of the states in memory, on disk, in the backup and about
  to be saved is `Sound` (it says of pin, credential and binding what is so at the
  Agent) and lags behind the Agent by at most the saves that failed; a credential
  is in use only once its token was redeemed.
- **WSL guest.** One agent holds the lock; a Chromium that is not lost is recorded
  or about to be, by the agent that started it, and is of the active Silo; an
  agent that nobody hears belongs to a Silo whose calls are known to be late;
  while they are heard the evidence is of the network acknowledged last and the
  host knows what the guest keeps.
- **Sandbox.** A running script is the call's or its environment is unheard; a
  heard environment's Sandbox has its directory, binding and descriptor and is
  recorded or about to be; none runs once its exit was found.
- **Hyper-V.** Until a controller is left unanswered there is at most one, that of
  the call; what it made is journaled before it is made, what its removal has
  passed is gone, and "complete" and "clean" mean that nothing is ours.
- **Listener.** A request is in one place at a time (a worker's hands, the channel,
  the serving thread), so permits, workers and room always add up.
- **Engines.** An exclusive command is alone and without browsers; every state that
  is read, held or written is made of packages found good and stays disabled
  while the switch is set.
- **Restore.** Which parts of the journal exist at each step, who called, that a
  foreign tree is only where the staged one was to go, and what recovery from
  here ends with.  The last is what makes a kill at any step provable.
- **Archive.** The temporary, the published and the read archive hold one backup's
  items in order; a copied file is what it was unless its stamp moved.
- **Vault's Silos.** Disk, data and backup are sound (secrets are those referred to,
  artifacts are bound); Silos and trees are known from their creation; what a
  backup locks, data and disk lock; what was written follows memory; and while no
  save was in doubt, data equals disk and a used tree is of a locked identity.  That
  only creations overfill a Vault counts artifacts: a replacement drops the old one
  before the save, and adds none that is still in use, because no two Silos, jobs or
  backups have the seed of another (`Seeded`).
- **Slots.** A slot counts from its reservation; a shared session or launch excludes
  claimed slots; what the lock command has passed stays revoked; a pending
  revocation is served.
- **Locks.** What a thread holds is known from where it is in its program; of the
  locks a circle waits for take one of the highest rank: its holder waits for a
  higher one, or has left the order.
- **Local runtime.** All that a manager holds is of the one Silo that its activation
  and its record name; a relay implies a running browser and a sound path.  Secrets
  come to a manager by a launch or a recovery only, so while the Vault stays locked
  only by a call that `taken` counts; revoking leaves none.  Between the lock and
  the end of those calls secrets may be there: nothing more is claimed, and nothing
  more is true of the code.  That they end at all (`LockEndsSecrets`) is liveness.

### What stays with TLC

- Liveness: `ExpiredIsDestroyed`, `MaintenanceRecurs`, `ServerFinishes`,
  `LockEndsSessions`, `RuntimeIsCorrected`.  The prover has neither fairness nor
  ENABLED.
- That the programs of `DesktopLocks` satisfy `OrderAssumption` (TLC evaluates it:
  they are finite data) and that its transcription of the commands is complete.
- Facts about data built by recursion: the proofs use sequences through their
  domain and their elements only.

## 6. Where the code and its documents disagree

Six runs show it, each listed under `findings` with the sentence it contradicts:

| Run | Property | What happens |
|---|---|---|
| `auth_store_wedged` | `OperationsNotWedged` | operations evict the claim that a pending rotation needs, and validation then refuses every further one |
| `managed_restore_rollback` | `OtherSilosUntouched` | a marker that fails after its creation and a recovery whose failure is ignored: the next unlock takes the Vault back behind acknowledged edits |
| `wsl_runtime_overlap` | `BrowserIsRecorded` | a status poll that overlaps a launch takes away the record of the browser just started |
| `vault_silos_locked` | `LockedIdentityKept` | a restore gives a locked managed Silo another fingerprint |
| `desktop_locks_circular` | `NoCircularWait` | two commands wait for each other: the status is published under `environment_runtime` and asks for the Vault |
| `local_slots_watched` | `ActiveIsWatched` | a poll that overlaps an admission takes away the new session's watchdog |

Noticed while modelling or proving, kept in the models as the code does it, and
not shown by a run of their own:

- *Agent.*  `open` serves a rename that was never synced (`RB/durable_store.rs:69`);
  a torn first write of the authentication file refuses every start
  (`RB/auth_store.rs:1092`); any store error suspends the service, a refused create
  at the limit included (`RB/agent_service.rs:496`, `:556`).
- *Remote client.*  After a crash or a failed save a sequence is used again, though
  `RB/lib.rs:2407-2408` says never; the server refuses it, so it costs a request.
- *Vault.*  `create_managed_silo` checks no `MAX_IDENTITY_ARTIFACTS`
  (`DT/vault.rs:1696`, against `:59`, `:3953`, `:3978`), so a Vault may be saved that
  its next unlock refuses; a delete whose save is in doubt, a restart and an older
  backup can bring a used Profile under an unlocked record; a crash between the quarantine and the save leaves a `.deleting-` tree;
  the managed backup holds the Vault's lock while it copies, though
  `docs/managed-silo-concurrency-v1.md:8` says that slow I/O takes none.
- *Launcher.*  `stop_managed_camoufox` gives the lease back without confirmation
  (`DT/launcher.rs:896-898`, against `:988-992`); the watchdog's probe leaves the
  record running (`:3106`, against `:3300`).
- *Engines.*  Camoufox's install, update and provisioning ignore the emergency
  switch (`DT/engine.rs:3252`) though `docs/engine-adapters.md:241` blocks them; its
  package is not hashed again at launch (`DT/engine.rs:2955`, docs `:232-237`); its
  rollback is undone by the next listing; provisioning can activate a package
  while other browsers run (`DT/application/engines.rs:148-150` wants quiescence).
- *Environment backends.*  Chromium inherits the agent's lock descriptors
  (`scripts/verisilo-wsl-guest-agent.sh:105-109`), so calls after a launch, `stop`
  included, wait until they time out; a configure that timed out can act after a
  later one that was acknowledged; a late agent can bind a distribution to a
  destroyed Silo again; residue of a killed agent makes `detach` fail for good; a
  start killed between launch and PID file loses the Chromium; a Sandbox's destroy
  removes the descriptor it needs to be repeated; a Hyper-V rollback leaves a
  journal that makes the host's destroy refuse (`docs/environment-backends.md:215`).

A proof attempt corrected `EnginePackages.ChangesWithoutBrowsers`, which said too
much for two failed writes.  Three properties are narrower than one would like, and
say so:

- `SilosAreKept` does not say that the next unlock accepts each Vault: a creation
  past the limit makes one that it refuses.  It says that nothing else does.
- `MaintenanceRecurs` and `ServerFinishes` hold but for a grandchild of the provider
  that keeps its pipes (`Stalled`): `RB/provider_bridge.rs:232` joins the readers
  without a limit, and no property catches it.
- `BrowserIsRecorded`, `BlockIsSound` and `RuntimeIsCorrected` hold in `sessions`
  without polls that overlap a launch, and `RuntimeStaysKnown` speaks of stock
  browsers only: after a close that a Camoufox Host refuses or answers late, its
  Profile may be let go with the browser still open.

## 7. What is not modelled, and what is left

- *Left out of modelled parts.*  Cryptography, parsing, TLS and the wire format;
  wording, logs; links, permissions and signatures, which are failure outcomes of
  their steps; provider capabilities (all available); a clock that steps back;
  Windows' variants of file-system calls; `revoke_credential`, which only tests
  call; human sessions, automation grants and screen channels of `AgentCore`; the
  routing of pairing and rotation envelopes in `agent_service.rs`; the evidence of
  controlled Chromium packages; the saved targets of WSL apart from the runtime's.
- *Parts without a module.*  `mihomo.rs` and `proxy_relay.rs` (seen from
  `LocalRuntime` as a relay that is there, sound or closed); `native_host.rs`;
  `domain.rs` and website identity (data and validation); the Camoufox Host and its
  supervisor, the browser extension, the site and the scripts other than the three
  above (user interface, build time or pure I/O).
- *Next.*  The control channel of a controlled Chromium (`DT/engine.rs`: phases,
  receipts, fallbacks, and the launcher's reader of them) as a part of
  `MCSessions`, with its evidence shown to be earned and its end to be noticed;
  its invariant proved beside `LocalRuntime`'s.  Then the native host's inbox.
