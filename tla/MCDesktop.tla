----------------------------- MODULE MCDesktop -----------------------------
(***************************************************************************)
(* What commands of the desktop share: the locks that they take            *)
(* (DesktopLocks), the Vault and the directories of its Silos (VaultSilos) *)
(* and the slots of the managed Silos (LocalSlots: once with the           *)
(* revocation of one slot and of the shared manager, and once with more    *)
(* Silos than may run).  A behaviour runs one of them and the others rest. *)
(***************************************************************************)
EXTENDS LockOrder, TLC

CONSTANTS a, b, c, Legacy, Publisher, Revokers, Unheld,
          Managed, Stock, Identities, None, MaxArtifacts, MaxFresh, MaxCalls, MaxDoubts

VARIABLES part,
          data, disk, home, quarantine, job, backup, born, fresh, calls, doubts,
          unlocked, session, slotLock, slotReserved, pending, running, watchdog, slotCommand,
          exclusive, publisher, revoker

lockVars == <<command, pc, owner, reserved>>
vaultVars == <<data, disk, home, quarantine, job, backup, born, fresh, calls, doubts>>
slotVars == <<unlocked, session, slotLock, slotReserved, pending, running, watchdog,
              slotCommand, exclusive, publisher, revoker>>
desktopVars == <<part, lockVars, vaultVars, slotVars>>

(* The programs of the desktop, for the constants of LockOrder. *)
Desk == INSTANCE DesktopLocks WITH SlotOrder <- <<a, b>>
MCReservation == Desk!LocalControl
MCLocks == Desk!Mutexes
MCRank == Desk!RankOf
MCProgram == Desk!ProgramOf
MCCommands == Desk!AllCommands
MCUnordered == Desk!OutOfOrder

ThreadSymmetry == Permutations(Threads) \cup Permutations(Revokers)

Kept == INSTANCE VaultSilos

One == INSTANCE LocalSlots
        WITH Slots <- {a}, Order <- <<a, Legacy>>, Limit <- 1, Publishers <- {Publisher},
             command <- slotCommand, lock <- slotLock,
             reserved <- slotReserved

Several == INSTANCE LocalSlots
         WITH Slots <- {a, b, c}, Order <- <<a, b, c, Legacy>>, Limit <- 2,
              Publishers <- {}, command <- slotCommand, lock <- slotLock,
              reserved <- slotReserved

(* What is assumed of the constants of the parts. *)
ASSUME LocksAssumption == OrderAssumption
ASSUME VaultAssumption == Kept!SilosAssumption
ASSUME SlotsAssumptions == One!SlotsAssumption /\ Several!SlotsAssumption

DesktopInit == /\ part \in {"vault", "locks", "one", "several"}
               /\ Init /\ Kept!Init
               /\ IF part = "several" THEN Several!Init ELSE One!Init
               /\ part \notin {"one", "several"} => \A m \in {a, Legacy} : ~One!Owned(m)

DesktopNext ==
    /\ \/ part = "locks" /\ Next /\ UNCHANGED <<vaultVars, slotVars>>
       \/ part = "vault" /\ Kept!Next /\ UNCHANGED <<lockVars, slotVars>>
       \/ part = "one" /\ One!Next /\ UNCHANGED <<lockVars, vaultVars>>
       \/ part = "several" /\ Several!Next /\ UNCHANGED <<lockVars, vaultVars>>
    /\ UNCHANGED part

DesktopSpec == DesktopInit /\ [][DesktopNext]_desktopVars
-----------------------------------------------------------------------------
OfSlots(one, several) == /\ part = "one" => one
                         /\ part = "several" => several

(* The parts are well formed: LockOrder.TypeOK, VaultSilos.TypeOK,         *)
(* LocalSlots.TypeOK.                                                      *)
DesktopTypeOK == /\ part = "locks" => TypeOK
                 /\ part = "vault" => Kept!TypeOK
                 /\ OfSlots(One!TypeOK, Several!TypeOK)

(* VaultSilos: what was saved holds together, only a creation saves more   *)
(* artifacts than an unlock accepts, no secret is kept that no Silo refers *)
(* to, and the Profile of a Silo goes only with the Silo.                  *)
SilosAreKept == /\ [](part = "vault" => Kept!VaultReopens)
                /\ [](part = "vault" => Kept!SecretsAreReferenced)
                /\ Kept!ProfilesOutliveSilos
                /\ Kept!OnlyCreationsOverfill

(* VaultSilos: a Profile that was used has a locked identity, and no       *)
(* operation takes back the lock of an identity.                           *)
IdentitiesStayLocked == /\ [](part = "vault" => Kept!UsedProfileIsLocked)
                        /\ Kept!LocksOutliveOperations

(* LocalSlots: there are never more managed sessions than the limit, and   *)
(* none next to a shared one.                                              *)
SlotsAreLimited == /\ OfSlots(One!WithinLimit, Several!WithinLimit)
                   /\ OfSlots(One!OneKind, Several!OneKind)

(* LocalSlots: the command to lock the Vault leaves no credentials with a  *)
(* session, and a revocation that has to wait is on its way.               *)
LockRevokes == /\ [](OfSlots(One!PendingIsServed, Several!PendingIsServed))
               /\ One!LockRevokesAll
=============================================================================
