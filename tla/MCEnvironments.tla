---------------------------- MODULE MCEnvironments ----------------------------
(***************************************************************************)
(* The keepers of what runs outside the desktop.  Of a remote environment: *)
(* the Agent, which owns what the provider allocated (AgentCore), and the  *)
(* desktop, which has to know of it (RemoteClient, whose agent is as much  *)
(* of the Agent as a client sees).  Of one on the user's machine: the WSL, *)
(* Windows Sandbox and Hyper-V backends with the scripts they run          *)
(* (WslGuest, SandboxGuest, HyperVGuest).  A behaviour runs one part and   *)
(* the others rest.                                                        *)
(***************************************************************************)
EXTENDS AgentCore, TLC

CONSTANTS Tokens, Pins, First, Pin0, None, MaxCalls, MaxFaults,
          Target, OtherTarget, GuestAgents, MaxLeftovers,
          Boxes, UserOfHost, Scripts, Ids, Controllers, MaxCreates

VARIABLES part,
          mem, vaultDisk, backup, op, net, agent, revoked, presented, commands, faults,
          host, wslCall, guestAgents, guestLock, guestDisk, browser, ghost,
          boxFiles, boxTorn, tracked, boxRequest, scripts, sandbox, unheard,
          directory, journal, resource, power, caller, controller, creates, unanswered

clientVars == <<mem, vaultDisk, backup, op, net, agent, revoked, presented, commands, faults>>
wslVars == <<host, wslCall, guestAgents, guestLock, guestDisk, browser, ghost>>
boxVars == <<boxFiles, boxTorn, tracked, boxRequest, scripts, sandbox, unheard>>
hypervVars == <<directory, journal, resource, power, caller, controller, creates, unanswered>>

Client == INSTANCE RemoteClient WITH disk <- vaultDisk, calls <- commands

\* One Silo whose target is the distribution, with a call that goes on
\* unheard while the next is answered; and two Silos, one call at a time
\* and nothing left over.
Wsl == INSTANCE WslGuest
       WITH Silos <- {Target}, Agents <- GuestAgents, Inherits <- {FALSE},
            call <- wslCall, agents <- guestAgents, lock <- guestLock, disk <- guestDisk
Contended == INSTANCE WslGuest
       WITH Silos <- {Target, OtherTarget}, Agents <- {CHOOSE a \in GuestAgents : TRUE},
            Inherits <- {FALSE}, MaxLeftovers <- 0,
            call <- wslCall, agents <- guestAgents, lock <- guestLock, disk <- guestDisk

Box == INSTANCE SandboxGuest
       WITH Envs <- Boxes, Foreign <- UserOfHost, files <- boxFiles, torn <- boxTorn,
            request <- boxRequest, process <- sandbox

HyperV == INSTANCE HyperVGuest

ASSUME ClientAssumption == Client!RemoteAssumption
ASSUME WslAssumption == Wsl!WslGuestAssumption /\ Contended!WslGuestAssumption
ASSUME BoxAssumption == Box!SandboxAssumption
ASSUME HyperVAssumption == HyperV!HyperVAssumption

EnvironmentSymmetry == Permutations(Silos) \cup Permutations(Tokens)

EnvironmentsInit ==
    /\ part \in {"agent", "desktop", "wsl", "contended", "sandbox", "hyperv"}
    /\ Init /\ Client!Init /\ Box!SandboxInit /\ HyperV!HyperVInit
    /\ IF part = "contended" THEN Contended!WslInit ELSE Wsl!WslInit
    /\ \A k, l \in DOMAIN resource :
          {resource[k], resource[l]} = {"foreign"} => part = "hyperv" /\ k = l

EnvironmentsNext ==
    /\ \/ /\ part = "agent" /\ Next
          /\ UNCHANGED <<clientVars, wslVars, boxVars, hypervVars>>
       \/ /\ part = "desktop" /\ Client!Next
          /\ UNCHANGED <<vars, wslVars, boxVars, hypervVars>>
       \/ /\ part = "wsl" /\ Wsl!WslNext
          /\ UNCHANGED <<vars, clientVars, boxVars, hypervVars>>
       \/ /\ part = "contended" /\ Contended!WslNext
          /\ UNCHANGED <<vars, clientVars, boxVars, hypervVars>>
       \/ /\ part = "sandbox" /\ Box!SandboxNext
          /\ UNCHANGED <<vars, clientVars, wslVars, hypervVars>>
       \/ /\ part = "hyperv" /\ HyperV!HyperVNext
          /\ UNCHANGED <<vars, clientVars, wslVars, boxVars>>
    /\ UNCHANGED part

EnvironmentsSpec ==
    EnvironmentsInit
    /\ [][EnvironmentsNext]_<<part, vars, clientVars, wslVars, boxVars, hypervVars>>
-----------------------------------------------------------------------------
In(p, P) == part = p => P

(* The part that runs is well formed: the inductive invariant of           *)
(* AgentCore, and the TypeOK of the others.                                *)
EnvironmentsTypeOK ==
    /\ In("agent", IInv)
    /\ In("desktop", Client!TypeOK)
    /\ In("wsl", Wsl!WslTypeOK)
    /\ In("contended", Contended!WslTypeOK)
    /\ In("sandbox", Box!SandboxTypeOK)
    /\ In("hyperv", HyperV!HyperVTypeOK)

(* RemoteClient: an environment that lives is bound or has an orphan       *)
(* receipt.                                                                *)
EnvironmentTracked == In("desktop", Client!EnvironmentTracked)

(* RemoteClient: pin, credential and binding change together or not at     *)
(* all, an authorization is held under the credential it was issued to,    *)
(* and the Agent's sequence is ahead by no more than the failed saves.     *)
ControlIsConsistent ==
    In("desktop", Client!PinsAgree /\ Client!GrantsBelong /\ Client!SequencesCatchUp)

(* RemoteClient: a token leaves for the new pin at most once, a credential *)
(* reported revoked is never stored again, burned tokens stay burned, and  *)
(* counters never go back.                                                 *)
NothingComesBack ==
    /\ [](In("desktop", Client!RotationTokenOnce))
    /\ [](In("desktop", Client!RevokedNeverReturns))
    /\ Client!LedgersOnlyGrow

(* What an environment on the user's machine is made of is known to the    *)
(* host, which then refuses to delete the Silo: the guest's profile and    *)
(* Chromium (WslGuest), the files and the process of a Sandbox             *)
(* (SandboxGuest), the switch, the disk and the machine (HyperVGuest).     *)
GuestsAreTracked ==
    /\ In("wsl", Wsl!GuestIsTracked /\ Wsl!OneRecordedBrowser)
    /\ In("contended", Contended!GuestIsTracked /\ Contended!OneRecordedBrowser)
    /\ In("sandbox", Box!SandboxIsTracked)
    /\ In("hyperv", HyperV!ResourcesAreOwned /\ HyperV!CleanedIsGone)

(* A Chromium is started only with the network that was acknowledged last, *)
(* and keeps its profile (WslGuest); a script closes no Sandbox but its    *)
(* own (SandboxGuest); a machine, disk or switch of the same name that     *)
(* this environment did not make stays (HyperVGuest).                      *)
GuestsKeepToTheirOwn ==
    /\ Wsl!HeardStartsAreAcknowledged /\ Wsl!ProfilesOutliveBrowsers
    /\ Contended!HeardStartsAreAcknowledged /\ Contended!ProfilesOutliveBrowsers
    /\ Box!ClosesOnlyItsOwn
    /\ HyperV!ForeignStays
=============================================================================
