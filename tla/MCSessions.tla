----------------------------- MODULE MCSessions -----------------------------
(***************************************************************************)
(* The sessions of the desktop and what watches over them: one local       *)
(* browser (LocalRuntime), the browser in a WSL distribution (WslRuntime), *)
(* the slot of a managed Silo, and the manager that the other Silos share  *)
(* (LocalSlots).  A behaviour runs one of the four and the others rest.    *)
(***************************************************************************)
EXTENDS LocalRuntime

CONSTANTS WslSilos, Known, None, Invalid, Overlaps,
          Slot, Legacy, Publisher, OneRevoker, Unheld

VARIABLES part,
          wslRuntime, record, guest, wslUnlocked, proc,
          vaultOpen, session, lock, reserved, pending, running, watchdog, command,
          exclusive, publisher, revoker

wslVars == <<wslRuntime, record, guest, wslUnlocked, proc>>
slotVars == <<vaultOpen, session, lock, reserved, pending, running, watchdog, command,
              exclusive, publisher, revoker>>
sessionsVars == <<part, vars, wslVars, slotVars>>

Wsl == INSTANCE WslRuntime WITH Silos <- WslSilos, runtime <- wslRuntime,
                                unlocked <- wslUnlocked
ASSUME WslAssumption == Wsl!RuntimeAssumption

Sets == INSTANCE LocalSlots
        WITH Slots <- {Slot}, Order <- <<Slot>>, Limit <- 1,
             Publishers <- {Publisher}, Revokers <- {OneRevoker}, unlocked <- vaultOpen

Shared == INSTANCE LocalSlots
          WITH Slots <- {}, Order <- <<Legacy>>, Limit <- 1,
               Publishers <- {Publisher}, Revokers <- {OneRevoker}, unlocked <- vaultOpen

(* The programs of the desktop keep the order of the locks, as             *)
(* DesktopProofs assumes.                                                  *)
Desk == INSTANCE DesktopLocks
        WITH Silos <- {Slot, Legacy}, SlotOrder <- <<Slot, Legacy>>, Everything <- Invalid
Ordered == INSTANCE LockOrder
           WITH Threads <- {}, Silos <- {Slot, Legacy}, Everything <- Invalid,
                Reservation <- Desk!LocalControl, Locks <- Desk!Mutexes, Rank <- Desk!RankOf,
                Program <- Desk!ProgramOf, Commands <- Desk!AllCommands,
                Unordered <- Desk!OutOfOrder, pc <- command, owner <- lock
ASSUME OrderAssumption == Ordered!OrderAssumption

SessionsInit == /\ part \in {"local", "wsl", "slot", "shared"}
                /\ Init /\ Wsl!Init
                /\ IF part = "slot" THEN Sets!Init ELSE Shared!Init
                /\ part # "local" => serves = Silos \ Camoufox
                /\ part # "wsl" => record = None
                /\ part \notin {"slot", "shared"} => ~Shared!Owned(Legacy)

LocalStep(A) == part = "local" /\ A /\ UNCHANGED <<part, wslVars, slotVars>>
WslStep(A) == part = "wsl" /\ A /\ UNCHANGED <<part, vars, slotVars>>
SlotStep(A) == part = "slot" /\ A /\ UNCHANGED <<part, vars, wslVars>>
SharedStep(A) == part = "shared" /\ A /\ UNCHANGED <<part, vars, wslVars>>

SessionsNext == \/ LocalStep(Next) \/ WslStep(Wsl!Next)
                \/ SlotStep(Sets!Next) \/ SharedStep(Shared!Next)

\* The fairness of the specifications, each for its part.
SessionsSpec ==
    /\ SessionsInit /\ [][SessionsNext]_sessionsVars
    /\ WF_sessionsVars(LocalStep(Watchdog)) /\ WF_vars(LocalStep(LockedStatus))
    /\ WF_wslVars(WslStep(Wsl!CommandStep)) /\ WF_wslVars(WslStep(Wsl!PollStep))
    /\ SF_slotVars(SlotStep(Sets!CommandStep(Slot)))
    /\ WF_slotVars(SlotStep(Sets!EndTick(Slot)))
    /\ SF_slotVars(SlotStep(Sets!ExclusiveStep) \/ SharedStep(Shared!ExclusiveStep))
    /\ WF_slotVars(\/ SlotStep(Sets!PublisherStep(Publisher))
                   \/ SharedStep(Shared!PublisherStep(Publisher)))
    /\ SF_slotVars(\/ SlotStep(Sets!RevokerStep(Slot, OneRevoker))
                   \/ SharedStep(Shared!RevokerStep(Legacy, OneRevoker)))
-----------------------------------------------------------------------------
(* The parts are well formed: LocalRuntime.TypeOK, and the handles that    *)
(* it keeps are those of the active session; WslRuntime.TypeOK.            *)
SessionsTypeOK == TypeOK /\ HandlesAreTheActive /\ Wsl!TypeOK

(* LocalRuntime: a session that must use its proxy has its relay while it  *)
(* is called running, a relay serves a runtime that was found sound, and   *)
(* the calls that bring credentials of a locked Vault to the manager, or   *)
(* lock it, are over only when the manager holds none.                     *)
RelayIsGuarded == [](RunningHasItsRelay /\ RelayOfSoundRuntime) /\ LockedHoldsNoSecret

(* LocalRuntime: a path that was closed for good is never called running   *)
(* again, and a Silo whose browser is open stays in use.                   *)
RuntimeStaysKnown == [](part = "local" => CompromisedIsTerminal) /\ OpenBrowserStaysInUse

(* WslRuntime: no browser runs that a restart would not know of.           *)
BrowserIsRecorded == Wsl!BrowserIsRecorded

(* WslRuntime: a browser that may run keeps others from being launched,    *)
(* and a block is lifted when no browser is left but the healthy one.      *)
BlockIsSound == [](part = "wsl" => Wsl!BrowserBlocksLaunch) /\ Wsl!BlockLiftedSafely

(* A Vault that stays locked ends the browser (WslRuntime), and the        *)
(* credentials of a session, for one manager (LocalRuntime) and over the   *)
(* threads that revoke them in a slot (LocalSlots).                        *)
LockEndsSessions == Wsl!LockEndsBrowser /\ LockEndsSecrets /\ Sets!LockedSecretsEnd

(* The end of a browser is noticed (LocalRuntime), and an activation       *)
(* without a browser is corrected by the polls (WslRuntime).               *)
RuntimeIsCorrected == EndIsNoticed /\ Wsl!RunningIsCorrected
=============================================================================
