---------------------------- MODULE LocalRuntime ----------------------------
(***************************************************************************)
(* The local browser session of the desktop (launcher.rs, RuntimeManager): *)
(* one manager that owns at most one browser, its proxy relay, its Profile *)
(* lease and the record that a later desktop session starts from.          *)
(*                                                                         *)
(* The manager sits behind one mutex, so a call on it is one step.  Every  *)
(* call first refreshes: what the manager believes follows the processes   *)
(* late, and the watchdog refreshes without writing the record down.  A    *)
(* refresh has many outcomes, so the manager is one record and what a      *)
(* piece of code does to it is the set of records it can leave.            *)
(*                                                                         *)
(* The Vault has a mutex of its own, and locks when the user says so or    *)
(* when its time is up.  A launch and a poll take credentials out of it    *)
(* and reach the manager later, so the Vault may have locked in between;   *)
(* the lock command revokes what the manager holds after it locked the     *)
(* Vault, and nobody does when the Vault locked by itself, until a poll    *)
(* sees it.  One launch and one poll are at work at a time.                *)
(*                                                                         *)
(* A manager is either the one of a Camoufox Silo (local_runtimes.rs) or   *)
(* the one that all other Silos share; serves says which.  The receipts of *)
(* controlled Chromium packages and what the evidence says are left out.   *)
(***************************************************************************)
EXTENDS Naturals, FiniteSets

CONSTANTS Silos,
          Nobody,
          Camoufox,  \* Silos whose browser a Camoufox Host runs
          Relayed,   \* Silos whose network gets a relay (expects_managed_relay)
          Required,  \* Silos that must not go without their proxy (requires_proxy)
          Mihomo     \* Silos whose session also holds a Mihomo Controller secret

ASSUME RuntimeAssumption == /\ Nobody \notin Silos
                            /\ Camoufox \subseteq Silos
                            /\ Relayed \subseteq Silos
                            /\ Required \subseteq Silos
                            /\ Relayed \cap Camoufox \subseteq Required
                            /\ Mihomo \subseteq (Relayed \cap Required) \ Camoufox

VARIABLES serves,    \* the Silos that this manager is for
          runtime,   \* RuntimeManager, and the record file it writes
          pid,       \* the recorded process of each Silo
          browser,   \* the browser of each Silo, or the lock it left in its Profile
          unlocked,  \* the Vault is open
          locking,   \* the lock command has locked the Vault, and has yet to revoke
          taken      \* whose credentials a launch or a poll has taken from the Vault,
                     \* and whether it is back from the manager

outside == <<pid, browser>>
calls == <<locking, taken>>
vars == <<serves, runtime, outside, unlocked, calls>>

Owner == Silos \cup {Nobody}
States == {"idle", "preflight", "running", "failed", "verification_failed",
           "recovery_required", "stopped"}
Records == [silo: Owner, state: States]
NoRecord == [silo |-> Nobody, state |-> "idle"]

Manager == [child: Owner, host: BOOLEAN, relay: Owner, lease: Owner,
            context: [silo: Owner, compromised: BOOLEAN, secret: BOOLEAN],
            pending: Owner, record: Records, file: Records, unreadable: BOOLEAN,
            activation: [silo: Owner, state: States, camoufox: BOOLEAN]]

Callers == {"launch", "poll"}
AtRest == [silo |-> Nobody, back |-> FALSE]
NoCalls == [c \in Callers |-> AtRest]

TypeOK == /\ serves \subseteq Silos
          /\ runtime \in Manager
          /\ pid \in [Silos -> {"dead", "alive", "reused"}]
          /\ browser \in [Silos -> {"none", "open", "sentinel"}]
          /\ unlocked \in BOOLEAN
          /\ locking \in BOOLEAN
          /\ taken \in [Callers -> [silo: Owner, back: BOOLEAN]]

NoContext == [silo |-> Nobody, compromised |-> FALSE, secret |-> FALSE]

(* open_at_record_path: a manager that has just been made from the record. *)
Fresh(file) ==
  [child |-> Nobody, host |-> FALSE, relay |-> Nobody, lease |-> Nobody,
   context |-> NoContext, pending |-> Nobody, record |-> file, file |-> file,
   unreadable |-> FALSE,
   activation |-> IF file.state \in {"idle", "stopped"}
                  THEN [silo |-> Nobody, state |-> file.state, camoufox |-> FALSE]
                  ELSE [silo |-> file.silo, state |-> "recovery_required", camoufox |-> FALSE]]

(* A record that cannot be read is left where it is, and the manager is of *)
(* no use until the desktop starts again.                                  *)
Unread(file) ==
  [Fresh(NoRecord) EXCEPT !.file = file, !.unreadable = TRUE,
                          !.activation = [silo |-> Nobody, state |-> "failed",
                                          camoufox |-> FALSE]]

Opened(file) == IF file = NoRecord THEN {Fresh(file)} ELSE {Fresh(file), Unread(file)}

Managers == {{s} : s \in Camoufox} \cup {Silos \ Camoufox}

Init == /\ serves \in Managers
        /\ runtime = Fresh(NoRecord)
        /\ pid = [s \in Silos |-> "dead"]
        /\ browser = [s \in Silos |-> "none"]
        /\ unlocked = FALSE
        /\ locking = FALSE
        /\ taken = NoCalls

(***************************************************************************)
(* What the manager believes.                                              *)
(***************************************************************************)
NeedsReconciliation(r) == /\ r.child = Nobody
                          /\ r.record # NoRecord
                          /\ r.record.state # "stopped"

(* has_runtime_ownership: nothing else may start on this manager. *)
Owned(r) == \/ r.unreadable
            \/ NeedsReconciliation(r)
            \/ {r.child, r.relay, r.lease, r.context.silo, r.activation.silo} # {Nobody}

SessionLive(r) == r.activation.state \in {"running", "preflight"} /\ r.host

(* persist_current_record: the memory always follows, the file may not. *)
Persisted(r, state) ==
  IF r.record = NoRecord THEN {r}
  ELSE LET q == [r EXCEPT !.record.state = state] IN {q, [q EXCEPT !.file = q.record]}

MaybePersisted(r, state, keep) == IF keep THEN Persisted(r, state) ELSE {r}

WithActivation(r, silo, state) == [r EXCEPT !.activation.silo = silo, !.activation.state = state]

WithoutRelay(r) == [r EXCEPT !.relay = IF @ = r.context.silo THEN Nobody ELSE @]

(***************************************************************************)
(* The pieces that the calls are made of.                                  *)
(***************************************************************************)
(* fail_closed_network_path: once per runtime, and for good. *)
FailClosed(r, keep) ==
  IF r.context.silo = Nobody \/ r.context.compromised THEN {r}
  ELSE LET state == IF r.pending # Nobody THEN "recovery_required" ELSE "verification_failed"
       IN MaybePersisted([WithoutRelay(r) EXCEPT !.context.compromised = TRUE,
                                                 !.context.secret = FALSE,
                                                 !.activation.state = state],
                         state, keep)

(* mark_camoufox_host_failure *)
HostFailure(r, keep) ==
  LET q == [r EXCEPT !.activation.state = "verification_failed"]
  IN IF r.context.silo \in Relayed THEN FailClosed(q, keep)
     ELSE MaybePersisted(q, "verification_failed", keep)

(* publish_camoufox_stopped, after the Host was told to shut down and was killed. *)
Finished(r, keep) ==
  MaybePersisted(WithActivation([WithoutRelay(r) EXCEPT !.child = Nobody, !.host = FALSE,
                                                        !.lease = Nobody, !.context = NoContext],
                                Nobody, "stopped"),
                 "stopped", keep)

(* Mutant: the lock is gone and the lease is forgotten. *)
PendingReleaseKeepsLease(r) ==
  IF browser[r.pending] # "none" THEN Persisted(r, "recovery_required")
  ELSE Persisted(WithActivation([r EXCEPT !.pending = Nobody, !.context = NoContext],
                                Nobody, "stopped"), "stopped")

(* refresh_pending_stock_profile_release *)
PendingRelease(r) ==
  IF browser[r.pending] # "none" THEN Persisted(r, "recovery_required")
  ELSE Persisted(WithActivation([r EXCEPT !.pending = Nobody, !.lease = Nobody,
                                          !.context = NoContext], Nobody, "stopped"),
                 "stopped")

(* The child has exited.  A Host that did not confirm the close keeps the  *)
(* lease, as does a stock browser whose Profile lock is still there.       *)
Exited(r, keep) ==
  LET s == r.context.silo
      q == [WithoutRelay(r) EXCEPT !.child = Nobody, !.host = FALSE]
  IN CASE r.host -> MaybePersisted(WithActivation(q, s, "verification_failed"),
                                   "verification_failed", keep)
       [] ~r.host /\ browser[s] # "none" ->
            Persisted(WithActivation([q EXCEPT !.pending = s], s, "recovery_required"),
                      "recovery_required")
       [] OTHER -> Persisted(WithActivation([q EXCEPT !.lease = Nobody, !.context = NoContext],
                                            Nobody, "stopped"),
                             "stopped")

(* probe_camoufox_host_status *)
Probed(r, keep) ==
  IF ~r.host THEN {r}
  ELSE HostFailure(r, keep)
       \cup (IF browser[r.child] = "none" THEN Finished(r, keep) ELSE {r})

(* The network checks of a refresh; a cancelled one ends early. *)
Checked(r, keep) ==
  IF r.child = Nobody THEN {r}
  ELSE IF r.context.compromised THEN MaybePersisted(r, "verification_failed", keep)
  ELSE {r} \cup FailClosed(r, keep)
           \cup (IF r.activation.state = "running"
                 THEN MaybePersisted(r, "running", keep) ELSE {})

(* Mutant: a runtime whose path has failed is not looked at again. *)
RefreshedUntilFailed(r, keep) ==
  IF r.child = Nobody \/ r.context.compromised
  THEN IF r.pending # Nobody THEN PendingRelease(r) ELSE {r}
  ELSE IF pid[r.child] # "alive" THEN Exited(r, keep)
  ELSE UNION {Checked(q, keep) : q \in Probed(r, keep)}

(* refresh_until: keep is FALSE for the watchdog. *)
Refreshed(r, keep) ==
  IF r.child = Nobody THEN IF r.pending # Nobody THEN PendingRelease(r) ELSE {r}
  ELSE IF pid[r.child] # "alive" THEN Exited(r, keep)
  ELSE UNION {Checked(q, keep) : q \in Probed(r, keep)}

(* Mutant: the process alone decides. *)
ReconciledByPid(r) ==
  LET s == r.record.silo
      state == IF pid[s] # "dead" THEN "running" ELSE "stopped"
      kept == state = "running"
  IN Persisted([r EXCEPT !.context = IF kept THEN [NoContext EXCEPT !.silo = s] ELSE NoContext,
                         !.activation = [silo |-> IF kept THEN s ELSE Nobody, state |-> state,
                                         camoufox |-> s \in Camoufox]], state)

(* reconcile_persisted: the process and the Profile lock decide together. *)
(* Our own lease counts as a lock.  A package or a required proxy may be  *)
(* found wanting.                                                         *)
Reconciled(r) ==
  LET s == r.record.silo
      alive == pid[s] # "dead"
      held == browser[s] # "none" \/ r.lease = s
      Failures == IF s \in Camoufox \cup Required THEN {"running", "verification_failed"}
                  ELSE {"running"}
      states == IF alive /\ held
                THEN IF s \in Relayed THEN {"verification_failed"} ELSE Failures
                ELSE IF alive \/ held THEN {"recovery_required"} ELSE {"stopped"}
      Context(state) == [silo |-> s, compromised |-> state = "verification_failed",
                         secret |-> s \in Mihomo /\ state # "verification_failed"]
  IN UNION {Persisted([r EXCEPT !.context = IF state = "stopped" THEN NoContext
                                            ELSE Context(state),
                                !.activation = [silo |-> IF state = "stopped" THEN Nobody ELSE s,
                                                state |-> state, camoufox |-> s \in Camoufox]],
                      state) : state \in states}

(***************************************************************************)
(* A child that the manager no longer has is dead: it exited, or it was    *)
(* killed, and its browser may go with it.                                 *)
(***************************************************************************)
Becomes(r) ==
  LET gone == {runtime.child} \ {r.child, Nobody}
  IN /\ runtime' = r
     /\ pid' = [s \in Silos |-> IF s \in gone THEN "dead" ELSE pid[s]]
     /\ browser' \in {browser, [s \in Silos |-> IF s \in gone /\ browser[s] = "open"
                                                THEN "none" ELSE browser[s]]}

Watchdog == /\ \E r \in Refreshed(runtime, FALSE) : Becomes(r)
            /\ UNCHANGED <<serves, unlocked, calls>>

(***************************************************************************)
(* The Vault locks and opens.                                              *)
(***************************************************************************)
(* Mutant: only a relay is something to revoke. *)
RevokedRelayOnly(r) ==
  UNION {IF q.relay # Nobody THEN FailClosed(q, TRUE) ELSE {q} : q \in Refreshed(r, TRUE)}

(* revoke_secrets_for_vault_lock *)
Revoked(r) ==
  UNION {IF q.relay # Nobody \/ q.context.secret THEN FailClosed(q, TRUE) ELSE {q} :
         q \in Refreshed(r, TRUE)}

(* A command that reserves this Silo, or all, keeps the lock command and a *)
(* launch away, but not the end of the Vault's time.  Only a launch and a  *)
(* poll leave something behind of what they took: the others act as if the *)
(* Vault locked after them.                                                *)
Reserved == locking \/ taken["launch"] # AtRest

(* lock_vault_with: the Vault first, while the command keeps others away.  *)
Lock == /\ ~Reserved
        /\ unlocked' = FALSE
        /\ locking' = TRUE
        /\ UNCHANGED <<serves, runtime, outside, taken>>

(* Then the manager.                                                       *)
FinishLock == /\ locking
              /\ \E r \in Revoked(runtime) : Becomes(r)
              /\ locking' = FALSE
              /\ UNCHANGED <<serves, unlocked, taken>>

(* expire_if_needed: any look at the Vault finds that its time is up.      *)
AutoLock == /\ unlocked
            /\ unlocked' = FALSE
            /\ UNCHANGED <<serves, runtime, outside, calls>>

(* unlock_vault_with; the shared manager is revoked under the Vault's      *)
(* mutex, that of a Silo after it.                                         *)
Unlock == /\ locking => serves \subseteq Camoufox
          /\ unlocked' = TRUE
          /\ \E r \in IF NeedsReconciliation(runtime) THEN Reconciled(runtime)
                      ELSE {runtime} : Becomes(r)
          /\ UNCHANGED <<serves, calls>>

(***************************************************************************)
(* desktop_status for the shared manager, diagnostic_status_for_silo and   *)
(* reconcile_local_runtimes_if_possible for the one of a Silo.             *)
(***************************************************************************)
(* Nothing is to be recovered.  The last look at the Vault decides; a      *)
(* manager that is busy then is revoked later, by a thread of its own      *)
(* (LocalSlots), which does not look whether the Vault is open again.      *)
Revocations == Revoked(runtime) \cup (IF unlocked THEN {runtime} ELSE {})

Status == /\ \E r \in Revocations \cup (IF unlocked THEN Refreshed(runtime, TRUE) ELSE {}) :
               Becomes(r)
          /\ UNCHANGED <<serves, unlocked, calls>>

LockedStatus == ~unlocked /\ Status

(* A recovery takes the Mihomo secret first ...                            *)
PollTakes == /\ unlocked
             /\ NeedsReconciliation(runtime)
             /\ taken["poll"] = AtRest
             /\ taken' = [taken EXCEPT !["poll"].silo = runtime.record.silo]
             /\ UNCHANGED <<serves, runtime, outside, unlocked, locking>>

Back(c) == [taken EXCEPT ![c] = [silo |-> Nobody, back |-> TRUE]]

(* ... and goes on with it, if the record still is of that Silo.           *)
PollReconciles ==
  /\ taken["poll"].silo # Nobody
  /\ taken' = Back("poll")
  /\ \E r \in IF NeedsReconciliation(runtime) /\ runtime.record.silo = taken["poll"].silo
              THEN Reconciled(runtime) ELSE Refreshed(runtime, TRUE) : Becomes(r)
  /\ UNCHANGED <<serves, unlocked, locking>>

(* A poll or a launch looks at the Vault once more before it answers.  It  *)
(* is here until the thread that it leaves a busy manager to has revoked.  *)
Answer(c) ==
  /\ taken[c].back
  /\ taken' = [taken EXCEPT ![c] = AtRest]
  /\ \E r \in Revocations : Becomes(r)
  /\ UNCHANGED <<serves, unlocked, locking>>

(***************************************************************************)
(* launch_with_identity_deriver, called on a manager that owns nothing.    *)
(***************************************************************************)
(* The leases a launch takes: its own Profile for Camoufox, those of every *)
(* Silo otherwise.                                                         *)
LeaseFree(s) == \A t \in IF s \in Camoufox THEN {s} ELSE Silos : browser[t] = "none"

Attempt(s, silo, state) ==
  [runtime EXCEPT !.activation = [silo |-> silo, state |-> state, camoufox |-> s \in Camoufox]]

(* launch_silo_with_reserved, up to where it lets the Vault go.            *)
LaunchTakes(s) ==
  /\ unlocked /\ ~Reserved
  /\ s \in serves /\ ~Owned(runtime)
  /\ taken' = [taken EXCEPT !["launch"].silo = s]
  /\ UNCHANGED <<serves, runtime, outside, unlocked, locking>>

Launching(s) == /\ taken["launch"].silo = s /\ ~Owned(runtime)
                /\ UNCHANGED serves

(* Refused before the browser starts, or the browser did not come up: the *)
(* lease, the relay and the Mihomo pin are dropped.                       *)
LaunchFails(s) ==
  /\ Launching(s) /\ taken' = Back("launch")
  /\ \E state \in {"failed", "verification_failed"} : runtime' = Attempt(s, Nobody, state)
  /\ UNCHANGED <<outside, unlocked, locking>>

(* The directories of a Camoufox Silo cannot be made: the early return     *)
(* leaves the preflight that was just published.                           *)
LaunchAbandoned(s) ==
  /\ Launching(s) /\ s \in Camoufox /\ taken' = Back("launch")
  /\ runtime' = Attempt(s, s, "preflight")
  /\ UNCHANGED <<outside, unlocked, locking>>

Started(s) ==
  [Attempt(s, s, "running") EXCEPT
     !.child = s, !.host = s \in Camoufox, !.lease = s,
     !.relay = IF s \in Relayed THEN s ELSE Nobody,
     !.context = [silo |-> s, compromised |-> FALSE, secret |-> s \in Mihomo],
     !.record = [silo |-> s, state |-> "running"]]

(* The desktop ends, and what it was doing with it. *)
Ended == /\ runtime' \in Opened(runtime.file)
         /\ unlocked' = FALSE
         /\ locking' = FALSE
         /\ taken' = NoCalls

(* The process starts; a desktop that ends before the record is written   *)
(* leaves it to nobody.                                                   *)
Launch(s) ==
  /\ Launching(s) /\ LeaseFree(s)
  /\ \/ /\ runtime' \in Persisted(Started(s), "running") /\ taken' = Back("launch")
        /\ UNCHANGED <<unlocked, locking>>
     \/ Ended
  /\ pid' = [pid EXCEPT ![s] = "alive"]
  /\ browser' = [browser EXCEPT ![s] = "open"]

(***************************************************************************)
(* stop_managed_camoufox, as stop_silo_with and exit_from_tray call it.    *)
(***************************************************************************)
StoppedAlready(s, r) ==
  /\ r.activation.silo = Nobody /\ r.activation.state = "stopped"
  /\ \/ runtime.activation.silo = s
     \/ /\ r.record = [silo |-> s, state |-> "stopped"]
        /\ {r.child, r.relay, r.lease, r.context.silo} = {Nobody}

(* The close was acknowledged and the Host is gone, or the Host refused,   *)
(* was late or ended badly and is killed; only a Host that says its process *)
(* tree or its quarantine is the trouble keeps the session.                *)
StopOutcomes(s, r) ==
  IF StoppedAlready(s, r) \/ r.activation.silo # s THEN {r}
  ELSE Finished(r, TRUE) \cup (IF SessionLive(r) THEN HostFailure(r, TRUE) ELSE {})

Stop(s) ==
  /\ s \in serves \cap Camoufox /\ ~Reserved
  /\ \E q \in Refreshed(runtime, TRUE) :
       \E r \in IF unlocked \/ (q.activation.silo = s /\ q.activation.camoufox)
                THEN StopOutcomes(s, q) ELSE {q} : Becomes(r)
  /\ UNCHANGED <<serves, unlocked, calls>>

(* recheck_active: it looks at the package, the relay and the endpoint,   *)
(* not at the process.  Without the relay a Silo that does not have to    *)
(* use its proxy is called running all the same.                          *)
RecheckStates(s, r) ==
  IF s \in Relayed \cap Required /\ r.relay = Nobody THEN {"verification_failed"}
  ELSE {"running", "verification_failed"}

Recheck(s) ==
  /\ unlocked /\ ~Reserved /\ s \in serves
  /\ \E q \in Refreshed(runtime, TRUE) :
       \E r \in IF q.activation.silo # s \/ q.pending # Nobody \/ q.context.compromised THEN {q}
                ELSE UNION {Persisted([q EXCEPT !.activation.state = state,
                                                !.activation.camoufox = s \in Camoufox], state)
                            : state \in RecheckStates(s, q)} : Becomes(r)
  /\ UNCHANGED <<serves, unlocked, calls>>

(***************************************************************************)
(* restore_vault: prepare_for_vault_restore on this manager, the browser   *)
(* locks of the Profiles, complete_successful_vault_restore.               *)
(***************************************************************************)
Quiescent(r) == /\ r.activation.silo = Nobody /\ r.activation.state \in {"idle", "stopped"}
                /\ ~Owned(r)

Restore ==
  /\ unlocked /\ ~Reserved
  /\ \E r \in Refreshed(runtime, TRUE) :
       IF Quiescent(r) /\ (\A s \in Silos : browser[s] = "none")
       THEN \E file \in {NoRecord, r.file} : Becomes([Fresh(NoRecord) EXCEPT !.file = file])
       ELSE Becomes(r)
  /\ UNCHANGED <<serves, unlocked, calls>>

(* invalidate_restored_silo, after managed_backup restored a Profile *)
InvalidateRestored(s) ==
  /\ unlocked /\ ~Reserved /\ s \in serves \cap Camoufox
  /\ \E r \in Refreshed(runtime, TRUE) :
       IF r.record.silo = s /\ r.activation.silo # s
       THEN \E file \in {NoRecord, r.file} :
              Becomes([r EXCEPT !.record = NoRecord, !.file = file,
                                !.activation = Fresh(NoRecord).activation])
       ELSE Becomes(r)
  /\ UNCHANGED <<serves, unlocked, calls>>

(***************************************************************************)
(* The desktop ends and starts again; what the processes do meanwhile.     *)
(***************************************************************************)
Restart == Ended /\ UNCHANGED <<serves, outside>>

(* A stock browser closes with its process and may leave its lock behind;  *)
(* the Host outlives the browser that its user closes.                     *)
Close(s) == /\ browser[s] = "open"
            /\ \E left \in IF s \in Camoufox THEN {"none"} ELSE {"none", "sentinel"} :
                 browser' = [browser EXCEPT ![s] = left]
            /\ pid' = [pid EXCEPT ![s] = IF s \in Camoufox THEN @ ELSE "dead"]
            /\ UNCHANGED <<serves, runtime, unlocked, calls>>

SentinelGoes(s) == /\ browser[s] = "sentinel"
                   /\ browser' = [browser EXCEPT ![s] = "none"]
                   /\ UNCHANGED <<serves, runtime, pid, unlocked, calls>>

HostDies(s) == /\ s \in Camoufox /\ pid[s] = "alive"
               /\ pid' = [pid EXCEPT ![s] = "dead"]
               /\ UNCHANGED <<serves, runtime, browser, unlocked, calls>>

(* Another program gets the number of a process that is gone. *)
PidReused(s) == /\ s \in serves /\ pid[s] = "dead" /\ runtime.child # s
                /\ pid' = [pid EXCEPT ![s] = "reused"]
                /\ UNCHANGED <<serves, runtime, browser, unlocked, calls>>

(* The user opens the Profile again with a browser of another process. *)
TakenOver(s) == /\ s \notin Camoufox /\ browser[s] = "open" /\ runtime.child # s
                /\ pid' = [pid EXCEPT ![s] = "dead"]
                /\ UNCHANGED <<serves, runtime, browser, unlocked, calls>>

Outside == \E s \in Silos : \/ Close(s) \/ SentinelGoes(s) \/ HostDies(s)
                            \/ PidReused(s) \/ TakenOver(s)

Next == \/ Watchdog \/ Status \/ PollTakes \/ PollReconciles
        \/ Unlock \/ Lock \/ FinishLock \/ AutoLock
        \/ Restore \/ Restart \/ Outside
        \/ \E c \in Callers : Answer(c)
        \/ \E s \in Silos : \/ LaunchTakes(s) \/ LaunchFails(s) \/ LaunchAbandoned(s)
                            \/ Launch(s) \/ Stop(s) \/ Recheck(s) \/ InvalidateRestored(s)

Spec == Init /\ [][Next]_vars

(* The watchdog of a manager that owns something runs every 30 seconds,    *)
(* and the window of the desktop polls for as long as it is open.          *)
FairSpec == Spec /\ WF_vars(Watchdog) /\ WF_vars(LockedStatus)

(***************************************************************************)
(* Properties.                                                             *)
(***************************************************************************)
(* A session that must use its proxy, through a relay, is called running   *)
(* only while exactly that relay is open, whatever a recheck, a recovery   *)
(* or a failed Host did in between.                                        *)
RunningHasItsRelay ==
  LET a == runtime.activation
  IN a.state = "running" /\ a.silo \in Relayed \cap Required => runtime.relay = a.silo

(* An open relay, which holds decrypted credentials, belongs to a child    *)
(* that the manager still has, on a Profile it has leased, and to a path   *)
(* that never failed: a failed path is not opened again.                   *)
RelayOfSoundRuntime ==
  runtime.relay # Nobody => /\ runtime.child = runtime.relay /\ runtime.lease = runtime.relay
                            /\ runtime.context.silo = runtime.relay
                            /\ ~runtime.context.compromised

(* A path that was closed for good is never called running again by the   *)
(* same runtime, not even when a recheck finds nothing wrong.              *)
CompromisedIsTerminal == runtime.context.compromised => runtime.activation.state # "running"

(* The lock of the Vault reaches the runtimes.  The lock command ends with *)
(* no runtime that holds a relay or a decrypted secret.  A launch or a     *)
(* poll that took credentials from the open Vault may bring some back, but *)
(* they are gone before it is over; nothing else brings any back while the *)
(* Vault stays locked.                                                     *)
Secretless == runtime.relay = Nobody /\ ~runtime.context.secret

SecretsEnd ==
  /\ locking /\ ~locking' => Secretless'
  /\ ~unlocked /\ ~unlocked' =>
       /\ \A c \in Callers : taken[c].back /\ ~taken'[c].back => Secretless'
       /\ Secretless /\ (\A c \in Callers : taken[c].silo = Nobody) => Secretless'

LockedHoldsNoSecret == [][SecretsEnd]_vars

(* When its time is up the Vault locks and tells nobody: the credentials   *)
(* of the session end all the same, once a poll has seen it.               *)
LockEndsSecrets == ~unlocked /\ ~Secretless ~> unlocked \/ Secretless

(* A manager that names no active Silo holds nothing of one, so that what  *)
(* the other parts are told (the Silo is free, the Vault may be replaced)  *)
(* is so; and the Silo it names is the one whose handles it holds.         *)
HandlesAreTheActive ==
  {runtime.child, runtime.relay, runtime.lease, runtime.context.silo, runtime.pending}
    \subseteq {runtime.activation.silo, Nobody}

(* A stock browser that is still open, whichever process has it by now,    *)
(* keeps its Silo in use for as long as the Vault stays open: a number     *)
(* that is gone, or that another program got, is no proof.                 *)
OpenBrowserStaysInUse ==
  [][\A s \in Silos \ Camoufox :
       browser[s] = "open" /\ runtime.activation.silo = s /\ unlocked'
         => runtime'.activation.silo = s]_vars

(* A child that has exited is noticed without anybody asking, and a        *)
(* Profile lock that is gone after it frees the Silo.                      *)
ExitedChild == runtime.child # Nobody /\ pid[runtime.child] # "alive"
FreePending == runtime.pending # Nobody /\ browser[runtime.pending] = "none"
EndIsNoticed == (ExitedChild ~> ~ExitedChild) /\ (FreePending ~> ~FreePending)
=============================================================================
