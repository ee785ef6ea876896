----------------------------- MODULE WslRuntime -----------------------------
(***************************************************************************)
(* The browser of a Silo that runs in a WSL distribution                   *)
(* (application/environments.rs, application/runtime.rs): the record that  *)
(* survives the desktop, the activation in memory, and the two things that *)
(* work on them at once, a command and the status poll.                    *)
(*                                                                         *)
(* Commands hold a reservation (LocalControl), so one runs at a time; the  *)
(* poll holds none.  Each call into the distribution is a step of its own, *)
(* as is each look at or change of the record and of the activation.  A    *)
(* distribution is bound to one Silo and stands for it.  The guest is      *)
(* external: it starts, stops and judges a browser, or fails to.           *)
(***************************************************************************)
EXTENDS Naturals, FiniteSets

CONSTANTS Silos,
          Known,    \* Silos of the Vault whose run location is their distribution
          None,
          Invalid,  \* a record file that cannot be read or makes no sense
          Overlaps  \* whether a poll may run while a browser is being launched

VARIABLES runtime,  \* EnvironmentRuntimeState
          record,   \* environment-runtime.json
          guest,    \* Silos whose browser runs in its distribution
          unlocked, \* the Vault is open
          proc      \* the command and the poll in progress

vars == <<runtime, record, guest, unlocked, proc>>

RuntimeAssumption == Known \subseteq Silos /\ None \notin Silos /\ Invalid \notin Silos \cup {None}

Procs == {"command", "poll"}
States == {"idle", "preflight", "running", "recovery", "stopped", "failed"}
Live == {"preflight", "running", "recovery"}
Idle == [op |-> "none", silo |-> None, pc |-> "idle", outcome |-> "none"]

Pcs == {"idle", "prepare", "persist", "mark", "start", "health", "stop", "clear",
        "inspect", "settle", "lock", "check"}
Outcomes == {"none", "running", "stopped", "failed", "doubt"}
Tasks == [op : {"none", "launch", "stop", "recheck", "lock", "poll"}, silo : Silos \cup {None},
          pc : Pcs, outcome : Outcomes]
Activations == [silo : Silos \cup {None}, state : States, wsl : Silos \cup {None},
                reconciled : BOOLEAN, blocked : BOOLEAN]

TypeOK == /\ runtime \in Activations
          /\ record \in Silos \cup {None, Invalid}
          /\ guest \subseteq Silos
          /\ unlocked \in BOOLEAN
          /\ proc \in [Procs -> Tasks]

\* Mutant: a damaged record names a Silo, too.
LoadedVerbatim(r) ==
    [silo |-> r, state |-> IF r = None THEN "idle" ELSE "recovery", wsl |-> r,
     reconciled |-> FALSE, blocked |-> r # None]

(* EnvironmentRuntimeState::load: a record means work to be settled first. *)
Loaded(r) ==
    [silo |-> IF r \in Silos THEN r ELSE None,
     state |-> IF r = None THEN "idle" ELSE "recovery",
     wsl |-> IF r \in Silos THEN r ELSE None,
     reconciled |-> FALSE, blocked |-> r # None]

Init == /\ record \in Silos \cup {None, Invalid}
        /\ guest \in SUBSET (Known \cap {record})
        /\ runtime = Loaded(record)
        /\ unlocked = FALSE
        /\ proc = [p \in Procs |-> Idle]
-----------------------------------------------------------------------------
IsActive(s) == runtime.silo = s /\ runtime.state \in Live

HasActive == runtime.blocked \/ (runtime.silo # None /\ runtime.state \in Live)

\* prepare_wsl_distribution, for what the desktop itself decides.
Prepared(s) == HasActive => runtime.wsl = s

Goto(p, pc) == proc' = [proc EXCEPT ![p].pc = pc]
Decide(p, outcome, pc) == proc' = [proc EXCEPT ![p].outcome = outcome, ![p].pc = pc]
Run(p, op, s, pc) == proc' = [proc EXCEPT ![p] = [Idle EXCEPT !.op = op, !.silo = s, !.pc = pc]]

Launching == proc["command"].op = "launch"

\* launch_silo_with, up to the activation that reserves the place
Launch(s) ==
    /\ proc["command"] = Idle /\ unlocked /\ s \in Known
    /\ ~HasActive
    /\ Overlaps \/ proc["poll"] = Idle
    /\ runtime' = [silo |-> s, state |-> "preflight", wsl |-> s, reconciled |-> TRUE,
                   blocked |-> FALSE]
    /\ Run("command", "launch", s, "prepare")
    /\ UNCHANGED <<record, guest, unlocked>>

\* A browser that answers is stopped, the network is configured; or one of that fails.
PrepareLaunch ==
    LET s == proc["command"].silo
    IN /\ proc["command"].pc = "prepare"
       /\ \/ Prepared(s) /\ Goto("command", "persist")
          \/ Goto("command", "inspect")
       /\ guest' \in IF Prepared(s) THEN {guest, guest \ {s}} ELSE {guest}
       /\ UNCHANGED <<runtime, record, unlocked>>

\* persist_environment_runtime_record: never over another one; the file may be there
\* although the call failed.
PersistRecord ==
    LET s == proc["command"].silo
    IN /\ proc["command"].pc = "persist"
       /\ \/ record = None /\ record' = s /\ Goto("command", "mark")
          \/ /\ record' \in {record, IF record = None THEN s ELSE record}
             /\ Goto("command", "inspect")
       /\ UNCHANGED <<runtime, guest, unlocked>>

\* mark_silo_identity_locked, of a launch and of a poll that found a browser
Mark(p) ==
    /\ proc[p].pc = "mark"
    /\ \/ unlocked /\ (IF proc[p].op = "launch" THEN Goto(p, "start")
                       ELSE Decide(p, "running", "settle"))
       \/ IF proc[p].op = "launch" THEN Decide(p, "failed", "clear")
          ELSE Decide(p, "doubt", "settle")
    /\ UNCHANGED <<runtime, record, guest, unlocked>>

\* The browser may run although its start was answered with an error, or late.
Start ==
    LET s == proc["command"].silo
    IN /\ proc["command"].pc = "start"
       /\ \/ guest' = guest \cup {s} /\ Decide("command", "running", "settle")
          \/ guest' \in {guest, guest \cup {s}} /\ Decide("command", "failed", "stop")
       /\ UNCHANGED <<runtime, record, unlocked>>

\* A launch that wrote no record looks whether there is one.
Inspect ==
    /\ proc["command"].pc = "inspect"
    /\ \/ record = None /\ Decide("command", "failed", "settle")
       \/ Decide("command", "doubt", "settle")
    /\ UNCHANGED <<runtime, record, guest, unlocked>>

\* Mutant: what cannot be stopped is taken for gone.
EndBrowserOrNot(p) ==
    LET s == proc[p].silo
    IN /\ proc[p].pc = "stop"
       /\ guest' \in {guest, guest \ {s}}
       /\ Goto(p, "clear")
       /\ UNCHANGED <<runtime, record, unlocked>>

\* EnvironmentOperation::Stop: a browser that is not there is stopped, too; an error
\* says nothing of the browser.
EndBrowser(p) ==
    LET s == proc[p].silo
    IN /\ proc[p].pc = "stop"
       /\ \/ Prepared(s) /\ guest' = guest \ {s} /\ Goto(p, "clear")
          \/ /\ guest' \in IF Prepared(s) THEN {guest, guest \ {s}} ELSE {guest}
             /\ Decide(p, "doubt", "settle")
       /\ UNCHANGED <<runtime, record, unlocked>>

\* clear_environment_runtime_record: only the Silo's own, and none is as good.
ClearRecord(p) ==
    /\ proc[p].pc = "clear"
    /\ \/ /\ record \in {proc[p].silo, None} /\ record' = None
          /\ Decide(p, IF proc[p].op = "launch" THEN "failed" ELSE "stopped", "settle")
       \/ Decide(p, "doubt", "settle") /\ UNCHANGED record
    /\ UNCHANGED <<runtime, guest, unlocked>>
-----------------------------------------------------------------------------
Gone(state) == [silo |-> None, state |-> state, wsl |-> None, reconciled |-> TRUE,
                blocked |-> FALSE]
There(s) == [silo |-> s, state |-> "running", wsl |-> s, reconciled |-> TRUE,
             blocked |-> FALSE]
InDoubt == [runtime EXCEPT !.state = "recovery", !.reconciled = TRUE, !.blocked = TRUE]

\* Mutant: a doubt does not block.
SettledTrusting(op, s, outcome) ==
    CASE outcome = "running" -> There(s)
      [] outcome \in {"stopped", "failed"} -> Gone(outcome)
      [] OTHER -> [InDoubt EXCEPT !.blocked = FALSE, !.silo = None]

\* What an operation leaves as the activation, whatever it is by then.
Settled(op, s, outcome) ==
    CASE outcome = "running" -> There(s)
      [] outcome \in {"stopped", "failed"} ->
            [Gone(outcome) EXCEPT !.reconciled = op # "lock"]
      [] outcome = "doubt" /\ op \in {"launch", "recheck"} ->
            [There(s) EXCEPT !.state = "recovery", !.blocked = TRUE]
      [] outcome = "doubt" /\ op \in {"stop", "poll", "lock"} ->
            [InDoubt EXCEPT !.reconciled = op # "lock"]

\* The command ends here, but for a lock of the Vault; a poll looks at the Vault.
Settle(p) ==
    /\ proc[p].pc = "settle"
    /\ runtime' = Settled(proc[p].op, proc[p].silo, proc[p].outcome)
    /\ CASE p = "command" /\ proc[p].op = "lock" -> Goto(p, "lock")
         [] p = "command" /\ proc[p].op # "lock" -> proc' = [proc EXCEPT ![p] = Idle]
         [] p = "poll" /\ proc[p].op = "poll" -> Goto(p, "check")
         [] p = "poll" /\ proc[p].op = "lock" -> proc' = [proc EXCEPT ![p] = Idle]
    /\ UNCHANGED <<record, guest, unlocked>>

\* stop_silo_with and recheck_silo_with
StartStop(s) ==
    /\ proc["command"] = Idle /\ unlocked /\ s \in Known
    /\ IsActive(s)
    /\ \/ Run("command", "stop", s, "stop")
       \/ Run("command", "recheck", s, "health")
    /\ UNCHANGED <<runtime, record, guest, unlocked>>

\* EnvironmentOperation::Health fails for many reasons, but no browser passes it that
\* is not there.
Health(p) ==
    LET s == proc[p].silo
    IN /\ proc[p].pc = "health"
       /\ \/ /\ Prepared(s) /\ s \in guest
             /\ IF p = "poll" THEN Goto(p, "mark") ELSE Decide(p, "running", "settle")
          \/ Goto(p, "stop")
       /\ UNCHANGED <<runtime, record, guest, unlocked>>
-----------------------------------------------------------------------------
(* reconcile_environment_runtime_if_needed, in desktop_status *)

\* Mutant: the record is put away although a Silo could not be stopped.
RecoverInvalidFirst ==
    /\ record' = IF record = Invalid THEN None ELSE record
    /\ guest' \in SUBSET guest /\ guest \ Known \subseteq guest'
    /\ runtime' = Gone("stopped")

\* recover_invalid_environment_runtime_record: every bound Silo is stopped before the
\* record is put away.
RecoverInvalid ==
    \/ /\ record = Invalid
       /\ record' = None
       /\ guest' = guest \ Known
       /\ runtime' = Gone("stopped")
    \/ /\ guest' \in SUBSET guest /\ guest \ Known \subseteq guest'
       /\ runtime' = InDoubt
       /\ UNCHANGED record

\* Mutant: once settled, the activation is not looked at again.
NeedsReconciliationOnce == ~runtime.reconciled

NeedsReconciliation == ~runtime.reconciled \/ HasActive

\* The snapshot of the activation, and what needs no call into the distribution
Poll ==
    LET needed == unlocked /\ NeedsReconciliation
        bound == runtime.silo # None /\ runtime.wsl # None
    IN /\ proc["poll"] = Idle
       /\ Overlaps \/ ~Launching
       /\ CASE ~needed ->
                 /\ Run("poll", "poll", None, "check")
                 /\ UNCHANGED <<runtime, record, guest>>
            [] needed /\ ~bound /\ runtime.blocked ->
                 RecoverInvalid /\ Run("poll", "poll", None, "check")
            [] needed /\ ~bound /\ ~runtime.blocked ->
                 /\ runtime' = Gone("idle")
                 /\ Run("poll", "poll", None, "check")
                 /\ UNCHANGED <<record, guest>>
            [] needed /\ bound /\ runtime.silo \notin Known ->
                 /\ runtime' = InDoubt
                 /\ Run("poll", "poll", None, "check")
                 /\ UNCHANGED <<record, guest>>
            [] needed /\ bound /\ runtime.silo \in Known ->
                 /\ Run("poll", "poll", runtime.silo, "health")
                 /\ UNCHANGED <<runtime, record, guest>>
       /\ UNCHANGED unlocked

\* stop_environment_runtime_for_vault_lock, as far as its snapshot
StopsForLock(p) ==
    IF HasActive /\ runtime.silo # None /\ runtime.wsl # None
    THEN Run(p, "lock", runtime.silo, "stop")
    ELSE IF p = "command" THEN Run(p, "lock", None, "lock")
         ELSE proc' = [proc EXCEPT ![p] = Idle]

\* Mutant: a poll that finds the Vault locked leaves the browser alone.
CheckVaultOnly == /\ proc["poll"].pc = "check"
                  /\ proc' = [proc EXCEPT !["poll"] = Idle]
                  /\ UNCHANGED <<runtime, record, guest, unlocked>>

\* A poll that ends with a locked Vault stops the browser.
CheckVault ==
    /\ proc["poll"].pc = "check"
    /\ \/ unlocked /\ proc' = [proc EXCEPT !["poll"] = Idle] /\ UNCHANGED runtime
       \/ /\ ~unlocked
          /\ StopsForLock("poll")
          /\ runtime' = [runtime EXCEPT !.reconciled = FALSE]
    /\ UNCHANGED <<record, guest, unlocked>>

\* lock_vault_with: the browser first
StartLock == /\ proc["command"] = Idle
             /\ StopsForLock("command")
             /\ UNCHANGED <<runtime, record, guest, unlocked>>

LockVault == /\ proc["command"].pc = "lock"
             /\ unlocked' = FALSE
             /\ proc' = [proc EXCEPT !["command"] = Idle]
             /\ UNCHANGED <<runtime, record, guest>>

\* The deadline, which any look at the Vault may find passed
AutoLock == unlocked /\ unlocked' = FALSE /\ UNCHANGED <<runtime, record, guest, proc>>

Unlock == ~unlocked /\ unlocked' = TRUE /\ UNCHANGED <<runtime, record, guest, proc>>

\* The desktop ends anywhere and starts again; a record may be damaged meanwhile.
Restart == /\ record' \in IF record = None THEN {None} ELSE {record, Invalid}
           /\ runtime' = Loaded(record')
           /\ unlocked' = FALSE
           /\ proc' = [p \in Procs |-> Idle]
           /\ UNCHANGED guest

BrowserEnds == /\ \E s \in guest : guest' = guest \ {s}
               /\ UNCHANGED <<runtime, record, unlocked, proc>>
-----------------------------------------------------------------------------
CommandStep == \/ PrepareLaunch \/ PersistRecord \/ Start \/ Inspect \/ LockVault
               \/ Mark("command") \/ Health("command") \/ EndBrowser("command")
               \/ ClearRecord("command") \/ Settle("command")

PollStep == \/ Poll \/ CheckVault
            \/ Mark("poll") \/ Health("poll") \/ EndBrowser("poll")
            \/ ClearRecord("poll") \/ Settle("poll")

Next == \/ \E s \in Silos : Launch(s) \/ StartStop(s)
        \/ StartLock \/ CommandStep \/ PollStep
        \/ AutoLock \/ Unlock \/ Restart \/ BrowserEnds

Spec == Init /\ [][Next]_vars

\* The window polls every 30 seconds (useDesktopWorkspace.ts), and calls return.
FairSpec == Spec /\ WF_vars(CommandStep) /\ WF_vars(PollStep)
-----------------------------------------------------------------------------
\* No browser runs that a restart would not know of: the record is written before a
\* start and goes only after a confirmed stop, whatever fails and whoever ends it.
BrowserIsRecorded == \A s \in guest : record \in {s, Invalid}

\* While a browser may run nothing else can be launched, not even after a failed stop,
\* a failed poll or a restart.
BrowserBlocksLaunch == guest # {} => HasActive \/ Launching

\* A block is lifted only when no browser is left, or just the one found healthy.
BlockLiftedSafely ==
    [][runtime.blocked /\ ~runtime'.blocked => guest' \subseteq {runtime'.silo}]_vars

\* A Vault that stays locked ends the browser, or leaves the desktop blocked.
LockEndsBrowser ==
    ~unlocked /\ guest # {} ~> unlocked \/ guest = {} \/ runtime.blocked

\* An activation that calls a browser running is corrected when there is none, by the
\* polls of a Vault that stays open.
RunningIsCorrected ==
    runtime.state = "running" /\ runtime.silo \notin guest
        ~> runtime.state # "running" \/ runtime.silo \in guest \/ ~unlocked
=============================================================================
