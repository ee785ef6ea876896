----------------------------- MODULE LocalSlots -----------------------------
(***************************************************************************)
(* The slots of the managed Silos (local_runtimes.rs): their admission,    *)
(* their watchdogs, and the revocation of their credentials when the Vault *)
(* locks, by a thread of its own where a session is busy.                  *)
(*                                                                         *)
(* Each manager, of a slot or the shared one of the other Silos, has a     *)
(* lock that is held over a launch, a stop or a health check, and flags    *)
(* that are read and written without it.  Who publishes a status, as every *)
(* command does at its end and the window does every few seconds, is a     *)
(* thread of its own here.  Atomics are sequentially consistent.           *)
(***************************************************************************)
EXTENDS Naturals, FiniteSets, Sequences, Functions

CONSTANTS Slots,      \* the managed Silos
          Legacy,     \* the manager that the other Silos share
          Order,      \* all managers in use, in the order of revocation
          Limit,      \* LOCAL_MANAGED_SESSION_LIMIT
          Publishers, \* threads that publish a status
          Revokers,   \* threads that revoke, of each manager
          Unheld      \* nobody holds the lock

Managers == Slots \cup {Legacy}

SlotsAssumption ==
  /\ Legacy \notin Slots /\ IsFiniteSet(Slots)
  /\ Limit \in Nat
  /\ Order \in Seq(Managers) /\ Len(Order) > 0 /\ Slots \subseteq Range(Order)
  /\ \A r \in Revokers \cup {"command", "watchdog"} : r # Unheld
  /\ \A r \in Revokers : r # "command" /\ r # "watchdog"

VARIABLES
  unlocked,  \* the Vault
  session,   \* of a manager: it owns nothing, a session with credentials,
             \* or one that is closed, Direct, or to be recovered
  lock,      \* who holds a manager
  reserved,  \* slots
  pending,   \* pending_vault_lock
  running,   \* revoker_running
  watchdog,  \* of a slot
  command,   \* what runs on a slot, under the reservation of its Silo
  exclusive, \* what runs under the reservation of everything
  publisher, \* what a publisher does, and to which manager
  revoker    \* what a revoker of a manager does

flags == <<reserved, pending, running>>
threads == <<command, exclusive, publisher, revoker>>
vars == <<unlocked, session, lock, flags, watchdog, threads>>

Idle == [at |-> "idle", of |-> 0]
CommandSteps == {"idle", "reserved", "admitted", "launching", "launched", "waiting", "using",
                 "dropping", "ending", "taking"}
PublisherSteps == {"idle", "quiet", "taking", "store", "try", "load", "swap"}

TypeOK ==
  /\ unlocked \in BOOLEAN
  /\ session \in [Managers -> {"none", "secret", "closed"}]
  /\ lock \in [Managers -> {Unheld, "command", "watchdog"} \cup Revokers]
  /\ reserved \in [Slots -> BOOLEAN]
  /\ pending \in [Managers -> BOOLEAN]
  /\ running \in [Managers -> BOOLEAN]
  /\ watchdog \in [Slots -> BOOLEAN]
  /\ command \in [Slots -> CommandSteps]
  /\ exclusive \in [at : {"idle", "launching", "revoking"}, of : 0..Len(Order)]
  /\ publisher \in [Publishers ->
                      [at : PublisherSteps, of : 0..Len(Order), locked : BOOLEAN]]
  /\ revoker \in [Managers ->
                    [Revokers -> {"none", "locking", "revoking", "storing", "checking"}]]

(* LocalRuntimeSet::open: what the process before has left is to be        *)
(* recovered, and watched.                                                 *)
Init ==
  /\ unlocked = FALSE
  /\ \E left \in SUBSET Managers :
       /\ \/ left = {Legacy} \cap Range(Order)
          \/ left \subseteq Slots /\ Cardinality(left) <= Limit
       /\ session = [m \in Managers |-> IF m \in left THEN "closed" ELSE "none"]
       /\ watchdog = [s \in Slots |-> s \in left]
  /\ lock = [m \in Managers |-> Unheld]
  /\ reserved = [s \in Slots |-> FALSE]
  /\ pending = [m \in Managers |-> FALSE]
  /\ running = [m \in Managers |-> FALSE]
  /\ command = [s \in Slots |-> "idle"]
  /\ exclusive = Idle
  /\ publisher = [p \in Publishers |-> [at |-> "idle", of |-> 0, locked |-> FALSE]]
  /\ revoker = [m \in Managers |-> [r \in Revokers |-> "none"]]

(***************************************************************************)
(* What a slot is asked.                                                   *)
(***************************************************************************)
Owned(m) == session[m] # "none"
OccupiedInUse(s) == reserved[s] \/ lock[s] # Unheld \/ session[s] = "secret"
Occupied(s) == reserved[s] \/ lock[s] # Unheld \/ Owned(s)
OccupiedSlots == {s \in Slots : Occupied(s)}

(* revoke_secrets_for_vault_lock fails the network path closed. *)
RevokedAndReleased(m) == [session EXCEPT ![m] = IF @ = "secret" THEN "revoked" ELSE @]
Revoked(m) == [session EXCEPT ![m] = IF @ = "secret" THEN "closed" ELSE @]

Goto(s, step) == command' = [command EXCEPT ![s] = step]
Nothing == UNCHANGED <<exclusive, publisher, revoker>>

(***************************************************************************)
(* A command on one managed Silo.                                          *)
(***************************************************************************)
(* launch_silo_with, with reserve_start: under the Vault and the registry. *)
(* The watchdog is started after the slot is reserved, if there is none,   *)
(* and if it does not start the slot is given back.                        *)
Admit(s) ==
  /\ command[s] = "idle" /\ exclusive = Idle
  /\ unlocked
  /\ lock[Legacy] = Unheld /\ ~Owned(Legacy)
  /\ ~Occupied(s)
  /\ Cardinality(OccupiedSlots) < Limit
  /\ reserved' = [reserved EXCEPT ![s] = TRUE]
  /\ Goto(s, "reserved")
  /\ Nothing
  /\ UNCHANGED <<unlocked, session, lock, pending, running, watchdog>>
StartWatchdog(s) ==
  /\ command[s] = "reserved"
  /\ watchdog' = [watchdog EXCEPT ![s] = TRUE]
  /\ Goto(s, "admitted")
  /\ Nothing
  /\ UNCHANGED <<unlocked, session, lock, flags>>
LoseWatchdog(s) ==
  /\ command[s] = "reserved" /\ ~watchdog[s]
  /\ reserved' = [reserved EXCEPT ![s] = FALSE]
  /\ Goto(s, "idle")
  /\ Nothing
  /\ UNCHANGED <<unlocked, session, lock, pending, running, watchdog>>

(* The preparation fails, or finds that the Vault has just locked itself. *)
Reject(s) ==
  /\ command[s] = "admitted"
  /\ unlocked' \in {unlocked, FALSE}
  /\ Goto(s, "launched")
  /\ Nothing
  /\ UNCHANGED <<session, lock, flags, watchdog>>

LockFor(m) == lock[m] = Unheld /\ lock' = [lock EXCEPT ![m] = "command"]
Release(m) == lock' = [lock EXCEPT ![m] = Unheld]

StartLaunch(s) ==
  /\ command[s] = "admitted"
  /\ LockFor(s)
  /\ Goto(s, "launching")
  /\ Nothing
  /\ UNCHANGED <<unlocked, session, flags, watchdog>>

(* The launch works, fails, or leaves something to be recovered. *)
Launch(s) ==
  /\ command[s] = "launching"
  /\ \E result \in {"none", "secret", "closed"} : session' = [session EXCEPT ![s] = result]
  /\ Release(s)
  /\ Goto(s, "launched")
  /\ Nothing
  /\ UNCHANGED <<unlocked, flags, watchdog>>

(* The guard of the slot is dropped: revoke_if_pending, whose three looks  *)
(* at the slot are one here, as the others change nothing.                 *)
RevokeIfPending(m) ==
  IF pending[m] /\ lock[m] = Unheld
  THEN pending' = [pending EXCEPT ![m] = FALSE] /\ session' = Revoked(m)
  ELSE UNCHANGED <<pending, session>>

DropGuard(s) ==
  /\ command[s] = "launched"
  /\ RevokeIfPending(s)
  /\ Goto(s, "dropping")
  /\ Nothing
  /\ UNCHANGED <<unlocked, lock, reserved, running, watchdog>>

Unreserve(s) ==
  /\ command[s] = "dropping"
  /\ reserved' = [reserved EXCEPT ![s] = FALSE]
  /\ Goto(s, "ending")
  /\ Nothing
  /\ UNCHANGED <<unlocked, session, lock, pending, running, watchdog>>

(* A stop, a new health check, a page action. *)
StartUse(s) ==
  /\ command[s] = "idle" /\ exclusive = Idle
  /\ Owned(s)
  /\ Goto(s, "waiting")
  /\ Nothing
  /\ UNCHANGED <<unlocked, session, lock, flags, watchdog>>
LockUse(s) ==
  /\ command[s] = "waiting"
  /\ LockFor(s)
  /\ Goto(s, "using")
  /\ Nothing
  /\ UNCHANGED <<unlocked, session, flags, watchdog>>
Use(s) ==
  /\ command[s] = "using"
  /\ \E result \in {"none", session[s], "closed"} :
       session' = [session EXCEPT ![s] = IF Owned(s) THEN result ELSE @]
  /\ Release(s)
  /\ Goto(s, "ending")
  /\ Nothing
  /\ UNCHANGED <<unlocked, flags, watchdog>>

(* stop_watchdog_if_quiescent looks, and then takes the watchdog away. *)
LookQuiet(s) ==
  /\ command[s] = "ending"
  /\ Goto(s, IF Occupied(s) THEN "idle" ELSE "taking")
  /\ Nothing
  /\ UNCHANGED <<unlocked, session, lock, flags, watchdog>>
StopWatchdog(s) == watchdog' = [watchdog EXCEPT ![s] = FALSE]
EndCommand(s) ==
  /\ command[s] = "taking"
  /\ StopWatchdog(s)
  /\ Goto(s, "idle")
  /\ Nothing
  /\ UNCHANGED <<unlocked, session, lock, flags>>

(***************************************************************************)
(* A session by itself, and its watchdog.                                  *)
(***************************************************************************)
Tick(s) ==
  /\ watchdog[s] /\ lock[s] = Unheld
  /\ lock' = [lock EXCEPT ![s] = "watchdog"]
  /\ UNCHANGED <<unlocked, session, flags, watchdog, threads>>
EndTick(s) ==
  /\ lock[s] = "watchdog"
  /\ Release(s)
  /\ \E result \in {"none", session[s], "closed"} :
       session' = [session EXCEPT ![s] = IF Owned(s) THEN result ELSE @]
  /\ UNCHANGED <<unlocked, flags, watchdog, threads>>

(***************************************************************************)
(* Commands that reserve everything: no command on a Silo runs meanwhile.  *)
(***************************************************************************)
ReserveNothing == exclusive = Idle
ReserveAll == exclusive = Idle /\ \A s \in Slots : command[s] = "idle"
Do(at, of) == /\ exclusive' = [at |-> at, of |-> of]
              /\ UNCHANGED <<command, publisher, revoker>>

(* A Silo that is not managed is launched: has_occupied. *)
StartExclusive ==
  /\ ReserveAll
  /\ unlocked
  /\ Legacy \in Range(Order)
  /\ OccupiedSlots = {}
  /\ ~Owned(Legacy)
  /\ LockFor(Legacy)
  /\ Do("launching", 0)
  /\ UNCHANGED <<unlocked, session, flags, watchdog>>
LaunchExclusive ==
  /\ exclusive.at = "launching"
  /\ \E result \in {"none", "secret", "closed"} :
       session' = [session EXCEPT ![Legacy] = result]
  /\ Release(Legacy)
  /\ Do("idle", 0)
  /\ UNCHANGED <<unlocked, flags, watchdog>>
(* Its browser ends, or is stopped. *)
EndLegacy ==
  /\ lock[Legacy] = Unheld /\ Owned(Legacy)
  /\ session' = [session EXCEPT ![Legacy] = "none"]
  /\ UNCHANGED <<unlocked, lock, flags, watchdog, threads>>

(* lock_vault_with waits for one manager after the other, for the shared   *)
(* one first and with the lock of the Vault still held.                    *)
InlineManager(i) == Order[IF i = 1 THEN Len(Order) ELSE i - 1]
VaultFree == exclusive.at = "revoking" => InlineManager(exclusive.of) # Legacy

LockVault ==
  /\ ReserveAll
  /\ unlocked
  /\ unlocked' = FALSE
  /\ Do("revoking", 1)
  /\ UNCHANGED <<session, lock, flags, watchdog>>
RevokeInline ==
  LET m == InlineManager(exclusive.of) IN
  /\ exclusive.at = "revoking"
  /\ lock[m] = Unheld
  /\ session' = Revoked(m)
  /\ IF exclusive.of < Len(Order) THEN Do("revoking", exclusive.of + 1) ELSE Do("idle", 0)
  /\ UNCHANGED <<unlocked, lock, flags, watchdog>>

(* unlock_vault_with reserves nothing. *)
Unlock ==
  /\ ~unlocked /\ VaultFree
  /\ unlocked' = TRUE
  /\ UNCHANGED <<session, lock, flags, watchdog, threads>>

(***************************************************************************)
(* A status is published: the Vault is asked, and locks when its time is   *)
(* over; slots are looked at, and revoked if it is locked.                 *)
(***************************************************************************)
Publish(p, at, of) ==
  /\ publisher' = [publisher EXCEPT ![p].at = at, ![p].of = of]
  /\ UNCHANGED <<command, exclusive, revoker>>
AtManager(p, at) == publisher[p].at = at
ManagerOf(p) == Order[publisher[p].of]

AtEnd(locked) == [at |-> "idle", of |-> 0, locked |-> FALSE]
ToRevoke(locked) ==
  IF locked THEN [at |-> "store", of |-> 1, locked |-> TRUE] ELSE AtEnd(locked)
LooksFrom(i, locked) ==
  IF i <= Len(Order) /\ Order[i] # Legacy THEN [at |-> "quiet", of |-> i, locked |-> locked]
                                          ELSE ToRevoke(locked)
LookOn(p, i, locked) == /\ publisher' = [publisher EXCEPT ![p] = LooksFrom(i, locked)]
                        /\ UNCHANGED <<command, exclusive, revoker>>
NextLook(p) == LookOn(p, publisher[p].of + 1, publisher[p].locked)
NextRevocation(p) ==
  IF publisher[p].of < Len(Order) THEN Publish(p, "store", publisher[p].of + 1)
                                  ELSE Publish(p, "idle", 0)

AskVault(p) ==
  /\ AtManager(p, "idle") /\ VaultFree
  /\ unlocked' \in {unlocked, FALSE}
  /\ LookOn(p, 1, ~unlocked')
  /\ UNCHANGED <<session, lock, flags, watchdog>>
Look(p) ==
  /\ AtManager(p, "quiet")
  /\ IF Occupied(ManagerOf(p)) THEN NextLook(p) ELSE Publish(p, "taking", publisher[p].of)
  /\ UNCHANGED <<unlocked, session, lock, flags, watchdog>>
TakeWatchdog(p) ==
  /\ AtManager(p, "taking")
  /\ StopWatchdog(ManagerOf(p))
  /\ NextLook(p)
  /\ UNCHANGED <<unlocked, session, lock, flags>>

(* queue_vault_lock; the shared manager is not asked again whether a       *)
(* revocation is pending.                                                  *)
StorePending(p) ==
  /\ AtManager(p, "store")
  /\ pending' = [pending EXCEPT ![ManagerOf(p)] = TRUE]
  /\ Publish(p, "try", publisher[p].of)
  /\ UNCHANGED <<unlocked, session, lock, reserved, running, watchdog>>
TryRevoke(p) ==
  LET m == ManagerOf(p) IN
  /\ AtManager(p, "try")
  /\ RevokeIfPending(m)
  /\ IF m = Legacy
     THEN IF lock[m] = Unheld THEN NextRevocation(p)
                              ELSE Publish(p, "swap", publisher[p].of)
     ELSE Publish(p, "load", publisher[p].of)
  /\ UNCHANGED <<unlocked, lock, reserved, running, watchdog>>
LoadPending(p) ==
  /\ AtManager(p, "load")
  /\ IF pending[ManagerOf(p)] THEN Publish(p, "swap", publisher[p].of)
                              ELSE NextRevocation(p)
  /\ UNCHANGED <<unlocked, session, lock, flags, watchdog>>

(* The bound Revokers allows that many threads of a manager at a time. *)
SwapRunning(p) ==
  LET m == ManagerOf(p) IN
  /\ AtManager(p, "swap")
  /\ IF running[m]
     THEN NextRevocation(p) /\ UNCHANGED running
     ELSE /\ \E r \in Revokers : /\ revoker[m][r] = "none"
                                 /\ revoker' = [revoker EXCEPT ![m][r] = "locking"]
          /\ running' = [running EXCEPT ![m] = TRUE]
          /\ publisher' = [publisher EXCEPT ![p].at = IF publisher[p].of < Len(Order)
                                                      THEN "store" ELSE "idle",
                                            ![p].of = IF @ < Len(Order) THEN @ + 1 ELSE 0]
          /\ UNCHANGED <<command, exclusive>>
  /\ UNCHANGED <<unlocked, session, lock, reserved, pending, watchdog>>

(***************************************************************************)
(* The thread that revokes.                                                *)
(***************************************************************************)
RevokerAt(m, r, step) == /\ revoker' = [revoker EXCEPT ![m][r] = step]
                       /\ UNCHANGED <<command, exclusive, publisher>>

LockRevoke(m, r) ==
  /\ revoker[m][r] = "locking"
  /\ lock[m] = Unheld
  /\ lock' = [lock EXCEPT ![m] = r]
  /\ RevokerAt(m, r, "revoking")
  /\ UNCHANGED <<unlocked, session, flags, watchdog>>
(* If there is nothing left to revoke, the lock is held to the end, and    *)
(* that of the shared manager in any case.                                 *)
Revoke(m, r) ==
  /\ revoker[m][r] = "revoking"
  /\ IF pending[m]
     THEN pending' = [pending EXCEPT ![m] = FALSE] /\ session' = Revoked(m)
     ELSE UNCHANGED <<pending, session>>
  /\ IF pending[m] /\ m # Legacy THEN Release(m) ELSE UNCHANGED lock
  /\ RevokerAt(m, r, "storing")
  /\ UNCHANGED <<unlocked, reserved, running, watchdog>>
StoreRunning(m, r) ==
  /\ revoker[m][r] = "storing"
  /\ running' = [running EXCEPT ![m] = FALSE]
  /\ RevokerAt(m, r, "checking")
  /\ UNCHANGED <<unlocked, session, lock, reserved, pending, watchdog>>
LetGo(m, r) == lock' = [lock EXCEPT ![m] = IF @ = r THEN Unheld ELSE @]

(* Not before it has looked for another revocation. *)
Check(m, r) ==
  /\ revoker[m][r] = "checking"
  /\ LetGo(m, r)
  /\ IF pending[m] /\ ~running[m]
     THEN running' = [running EXCEPT ![m] = TRUE] /\ RevokerAt(m, r, "locking")
     ELSE UNCHANGED running /\ RevokerAt(m, r, "none")
  /\ UNCHANGED <<unlocked, session, reserved, pending, watchdog>>
(***************************************************************************)
(* The specification.  A thread that can go on does, a mutex comes to who  *)
(* waits for it, the window keeps asking for the status, and a launch, a   *)
(* health check and a stop, which all have deadlines, end.                 *)
(***************************************************************************)
CommandStep(s) == \/ StartWatchdog(s) \/ LoseWatchdog(s) \/ Reject(s) \/ StartLaunch(s) \/ Launch(s)
                  \/ DropGuard(s) \/ Unreserve(s) \/ LockUse(s) \/ Use(s) \/ LookQuiet(s) \/ EndCommand(s)
ExclusiveStep == LaunchExclusive \/ RevokeInline
PublisherStep(p) == \/ AskVault(p) \/ Look(p) \/ TakeWatchdog(p) \/ StorePending(p)
                    \/ TryRevoke(p) \/ LoadPending(p) \/ SwapRunning(p)
RevokerStep(m, r) == LockRevoke(m, r) \/ Revoke(m, r) \/ StoreRunning(m, r) \/ Check(m, r)

Next == \/ \E s \in Slots : \/ Admit(s) \/ StartUse(s) \/ CommandStep(s)
                           \/ Tick(s) \/ EndTick(s)
        \/ StartExclusive \/ EndLegacy \/ LockVault \/ Unlock \/ ExclusiveStep
        \/ \E p \in Publishers : PublisherStep(p)
        \/ \E m \in Managers, r \in Revokers : RevokerStep(m, r)

Fairness == /\ \A s \in Slots : SF_vars(CommandStep(s)) /\ WF_vars(EndTick(s))
            /\ SF_vars(ExclusiveStep)
            /\ \A p \in Publishers : WF_vars(PublisherStep(p))
            /\ \A m \in Managers, r \in Revokers : SF_vars(RevokerStep(m, r))

Spec == Init /\ [][Next]_vars /\ Fairness

(***************************************************************************)
(* Properties.                                                             *)
(***************************************************************************)
(* Whatever launches, ends and is left by the process before, no more than *)
(* Limit managed Silos own a browser (reserve_start counts what is busy).  *)
WithinLimit == Cardinality({s \in Slots : Owned(s)}) <= Limit

(* A session of the shared manager and those of slots exclude each other,  *)
(* although each is only admitted after a look at the other.               *)
OneKind == Owned(Legacy) => \A s \in Slots : ~Owned(s)

(* A revocation that waits for a busy session is on its way: the thread    *)
(* that revokes runs or looks again, or the one that queued it goes on.    *)
PendingIsServed ==
  \A m \in Managers : pending[m] =>
    \/ running[m]
    \/ \E r \in Revokers : revoker[m][r] = "checking"
    \/ \E p \in Publishers : /\ publisher[p].at \in {"try", "load", "swap"}
                             /\ ManagerOf(p) = m

(* When the command to lock the Vault is done, no session has credentials, *)
(* not even one whose launch was on its way when the command was given.    *)
LockRevokesAll ==
  [][exclusive.at = "revoking" /\ exclusive'.at = "idle"
       => \A m \in Managers : session'[m] # "secret"]_vars

(* The Vault may lock by itself while a session is being launched; unless  *)
(* it is unlocked again, the credentials of every session are revoked.     *)
SecretsLeft == "secret" \in Range(session)
LockedSecretsEnd == (~unlocked /\ SecretsLeft) ~> (unlocked \/ ~SecretsLeft)

(* Every session of a slot has its watchdog. *)
ActiveIsWatched == \A s \in Slots : Owned(s) => watchdog[s]
=============================================================================
