--------------------------- MODULE EnginePackages ---------------------------
(***************************************************************************)
(* The browser packages of one engine adapter (engine.rs,                  *)
(* application/engines.rs): which package is active, which one a rollback  *)
(* returns to, and the emergency switch, all in one state file that every  *)
(* command reads afresh and replaces whole.                                *)
(*                                                                         *)
(* Camoufox comes with the application, below the root builtin, and is     *)
(* activated from there; ControlledChromium is installed from roots that   *)
(* the user names.  A package is a root and the version that its manifest  *)
(* is to have.  A maintenance command reserves all Silos and wants no      *)
(* browser; a launch, and the Host that makes the identity of a Silo, only *)
(* reserve a Silo, and run next to each other.                             *)
(***************************************************************************)
EXTENDS Naturals

CONSTANTS Roots, Callers, None,
          MaxVersion,   \* bound on versions
          MaxChanges,   \* bound on what happens to the trees
          MaxFailures   \* bound on failing file operations and losses of power

VARIABLES camoufox, \* the engine of the adapter: Camoufox or ControlledChromium
          builtin,  \* the root of the package of the application
          trees,    \* what is below a root
          disk,     \* the state file
          possible, \* what the file may hold after a loss of power
          caller,   \* the commands under way, each with its adapter
          browser,  \* packages that browsers run from
          accepted, \* packages that were found good when they were activated
          killed,   \* the switch was set, and nobody has asked to lift it
          changes, failures

vars == <<camoufox, builtin, trees, disk, possible, caller, browser, accepted, killed,
          changes, failures>>

Versions == 1..MaxVersion
Packages == [root : Roots, version : Versions]
Trees == [version : Versions, intact : BOOLEAN] \cup {None}
States == [active : Packages \cup {None}, previous : Packages \cup {None},
           disabled : BOOLEAN]

EngineAssumption ==
  /\ MaxVersion \in Nat \ {0} /\ MaxChanges \in Nat /\ MaxFailures \in Nat
  /\ None \notin Packages /\ None \notin States
  /\ None \notin [version : Versions, intact : BOOLEAN]

(* validate *)
ValidState(s) == s \in States /\ (s.active = None => s.previous = None)

Exclusive == {"install", "update", "rollback", "disable", "enable", "list"}
Shared == {"launch", "provision"}
Idle == [at |-> "idle"]
Working == [at : {"loaded", "persist", "rename", "sync"}, op : Exclusive \cup Shared,
            package : Packages \cup {None}, adapter : States, next : States \cup {None}]

TypeOK == /\ camoufox \in BOOLEAN
          /\ builtin \in Roots
          /\ trees \in [Roots -> Trees]
          /\ disk \in possible
          /\ \A s \in possible : ValidState(s)
          /\ caller \in [Callers -> Working \cup {Idle}]
          /\ browser \subseteq Packages
          /\ accepted \subseteq Packages
          /\ killed \in BOOLEAN
          /\ changes \in 0..MaxChanges /\ failures \in 0..MaxFailures

(* A state file that is not there counts as empty. *)
NoState == [active |-> None, previous |-> None, disabled |-> FALSE]

Init == /\ camoufox \in BOOLEAN
        /\ builtin \in Roots
        /\ trees \in [Roots -> [version : {1}, intact : {TRUE}]]
        /\ disk = NoState /\ possible = {NoState}
        /\ caller = [c \in Callers |-> Idle]
        /\ browser = {} /\ accepted = {}
        /\ killed = FALSE
        /\ changes = 0 /\ failures = 0

(***************************************************************************)
(* Packages.                                                               *)
(***************************************************************************)
(* What a manifest says has to fit the engine and the version asked for;   *)
(* damage shows in the files that the manifest lists.                      *)
ManifestFits(p) == trees[p.root].version = p.version
TreeIsWhole(p) == trees[p.root].intact

(* load_installed_package: the manifest fits, the entrypoint is there. *)
Loads(p) == trees[p.root] # None /\ ManifestFits(p)
(* load_and_verify_package *)
Verifies(p) == Loads(p) /\ TreeIsWhole(p)
(* active_verified_package *)
Usable(s) == s.active # None /\ IF camoufox THEN Loads(s.active) ELSE Verifies(s.active)

(* compare_engine_versions *)
Newer(p, q) == p.version > q.version
Older(p, q) == p.version < q.version

Activate(s, p, old) == [s EXCEPT !.active = p, !.previous = old]

(* ensure_builtin_package: None when it refuses, s when it has nothing to do. *)
BuiltinPackage == [root |-> builtin, version |-> trees[builtin].version]
EnsureBuiltinKeepsOld(s) ==
  IF trees[builtin] = None THEN None
  ELSE LET p == BuiltinPackage IN
       IF s.active = None THEN Activate(s, p, None)
       ELSE IF Older(p, s.active) THEN None
       ELSE IF p = s.active THEN s
       ELSE Activate(s, p, s.active)
EnsureBuiltin(s) ==
  IF trees[builtin] = None THEN None
  ELSE LET p == BuiltinPackage IN
       IF s.active = None THEN Activate(s, p, None)
       ELSE IF Older(p, s.active) THEN None
       ELSE IF p = s.active THEN s
       ELSE Activate(s, p, IF Newer(p, s.active) THEN s.active ELSE None)

(***************************************************************************)
(* What a command makes of the state that it has loaded: None when it      *)
(* refuses.                                                                *)
(***************************************************************************)
Install(s, p) == IF ~s.disabled /\ s.active = None /\ Verifies(p)
                 THEN Activate(s, p, None) ELSE None

Update(s, p) ==
  IF /\ ~s.disabled /\ s.active # None
     /\ Verifies(s.active) /\ Newer(p, s.active) /\ Verifies(p)
  THEN Activate(s, p, s.active) ELSE None

Rollback(s) ==
  IF /\ ~s.disabled /\ s.active # None /\ s.previous # None
     /\ Verifies(s.active) /\ Verifies(s.previous)
  THEN Activate(s, s.previous, s.active) ELSE None

Disable(s) == [s EXCEPT !.disabled = TRUE]
Enable(s) == IF s.active = None \/ Usable(s) THEN [s EXCEPT !.disabled = FALSE] ELSE None

Outcome(op, s, p) ==
  CASE op \in {"install", "update"} /\ camoufox -> EnsureBuiltin(s)
    [] op \in {"list", "provision"} -> EnsureBuiltin(s)
    [] op = "install" /\ ~camoufox -> Install(s, p)
    [] op = "update" /\ ~camoufox -> Update(s, p)
    [] op = "rollback" -> Rollback(s)
    [] op = "disable" -> Disable(s)
    [] op = "enable" -> Enable(s)

(***************************************************************************)
(* Commands.                                                               *)
(***************************************************************************)
BusyWith(ops) == {c \in Callers : caller[c] # Idle /\ caller[c].op \in ops}

(* reserve and ensure_engine_maintenance_quiescent, or reserve_silo; then  *)
(* production_prototype reads the file.                                    *)
ReserveAnyway(op) == op \in Exclusive => BusyWith(Exclusive) = {} /\ browser = {}
Reserve(op) == /\ BusyWith(Exclusive) = {}
               /\ op \in Exclusive => BusyWith(Shared) = {} /\ browser = {}

Begin(c, op, p) ==
  /\ caller[c] = Idle
  /\ Reserve(op)
  /\ op \in {"list", "provision"} => camoufox
  /\ (p # None) <=> (op \in {"install", "update"} /\ ~camoufox)
  /\ caller' = [caller EXCEPT ![c] = [at |-> "loaded", op |-> op, package |-> p,
                                      adapter |-> disk, next |-> None]]
  /\ killed' = (killed /\ op # "enable")
  /\ UNCHANGED <<camoufox, builtin, trees, disk, possible, browser, accepted, changes,
                 failures>>

Return(c) == caller' = [caller EXCEPT ![c] = Idle]

(* The checks of the command, on the state that it has loaded. *)
Decide(c) ==
  /\ caller[c].at = "loaded"
  /\ caller[c].op # "launch"
  /\ LET s == caller[c].adapter
         n == Outcome(caller[c].op, s, caller[c].package)
     IN IF n = None \/ (n = s /\ caller[c].op \notin {"disable", "enable"})
        THEN Return(c) /\ UNCHANGED accepted
        ELSE /\ caller' = [caller EXCEPT ![c].at = "persist", ![c].next = n]
             /\ accepted' = IF n.active \in {s.active, None} THEN accepted
                            ELSE accepted \cup {n.active}
  /\ UNCHANGED <<camoufox, builtin, trees, disk, possible, browser, killed, changes,
                 failures>>

(* launch_plan, and the browser starts; it ends when it likes. *)
Launch(c) ==
  /\ caller[c].at = "loaded"
  /\ caller[c].op = "launch"
  /\ LET s == caller[c].adapter
     IN browser' = IF ~s.disabled /\ Usable(s) THEN browser \cup {s.active} ELSE browser
  /\ Return(c)
  /\ UNCHANGED <<camoufox, builtin, trees, disk, possible, accepted, killed, changes,
                 failures>>

(* persist: the temporary file, its rename, and the sync of the directory. *)
(* Each may fail, and then the command does.                               *)
WriteTemporary(c) ==
  /\ caller[c].at = "persist"
  /\ caller' = [caller EXCEPT ![c].at = "rename"]
  /\ UNCHANGED <<camoufox, builtin, trees, disk, possible, browser, accepted, killed,
                 changes, failures>>

Rename(c) ==
  /\ caller[c].at = "rename"
  /\ disk' = caller[c].next
  /\ possible' = possible \cup {caller[c].next}
  /\ caller' = [caller EXCEPT ![c].at = "sync"]
  /\ UNCHANGED <<camoufox, builtin, trees, browser, accepted, killed, changes, failures>>

Acknowledge(c) == killed' = IF caller[c].op = "disable" THEN TRUE ELSE killed

SyncDirectory(c) ==
  /\ caller[c].at = "sync"
  /\ possible' = {disk}
  /\ Acknowledge(c)
  /\ Return(c)
  /\ UNCHANGED <<camoufox, builtin, trees, disk, browser, accepted, changes, failures>>

Fail(c) ==
  /\ caller[c].at \in {"persist", "rename", "sync"}
  /\ failures < MaxFailures
  /\ failures' = failures + 1
  /\ Return(c)
  /\ UNCHANGED <<camoufox, builtin, trees, disk, possible, browser, accepted, killed,
                 changes>>

(***************************************************************************)
(* What happens around the commands.                                       *)
(***************************************************************************)
Exit(p) == /\ p \in browser
           /\ browser' = browser \ {p}
           /\ UNCHANGED <<camoufox, builtin, trees, disk, possible, caller, accepted,
                          killed, changes, failures>>

(* An update of the application, another copy of a package, or damage. *)
ChangeTree(r) ==
  /\ changes < MaxChanges
  /\ changes' = changes + 1
  /\ \E t \in Trees : t # trees[r] /\ trees' = [trees EXCEPT ![r] = t]
  /\ UNCHANGED <<camoufox, builtin, disk, possible, caller, browser, accepted, killed,
                 failures>>

(* The application is started from another place. *)
Move == /\ changes < MaxChanges
        /\ changes' = changes + 1
        /\ \A c \in Callers : caller[c] = Idle
        /\ builtin' \in Roots \ {builtin}
        /\ UNCHANGED <<camoufox, trees, disk, possible, caller, browser, accepted, killed,
                       failures>>

(* The application dies; with a loss of power, the browsers too. *)
Crash == /\ failures < MaxFailures
         /\ failures' = failures + 1
         /\ caller' = [c \in Callers |-> Idle]
         /\ \/ UNCHANGED <<disk, possible, browser>>
            \/ /\ disk' \in possible
               /\ possible' = {disk'}
               /\ browser' = {}
         /\ UNCHANGED <<camoufox, builtin, trees, accepted, killed, changes>>

Next == \/ \E c \in Callers, op \in Exclusive \cup Shared, p \in Packages \cup {None} :
             Begin(c, op, p)
        \/ \E c \in Callers : \/ Decide(c) \/ Launch(c) \/ WriteTemporary(c)
                              \/ Rename(c) \/ SyncDirectory(c) \/ Fail(c)
        \/ \E p \in browser : Exit(p)
        \/ \E r \in Roots : ChangeTree(r)
        \/ Move
        \/ Crash

Spec == Init /\ [][Next]_vars
-----------------------------------------------------------------------------
(* Once the command to disable the engine has succeeded it stays disabled, *)
(* whatever crashes and whatever else writes the file: no copy of the      *)
(* state that was read before puts the switch back.                        *)
SwitchStaysSet == killed => \A s \in possible : s.disabled

(* ... and no browser starts until somebody asks to lift the switch. *)
NoLaunchWhenKilled == [][killed /\ killed' => browser' \subseteq browser]_vars

(* A rollback returns to another version, one that was found good itself.  *)
RollbackIsAnother ==
  \A s \in possible : s.previous # None =>
    /\ s.previous.version # s.active.version
    /\ {s.active, s.previous} \subseteq accepted

(* The package does not change below a browser that goes on running, but   *)
(* when the identity of another Silo is made, which activates the package  *)
(* that came with the application.                                         *)
ChangesWithoutBrowsers ==
  [][disk'.active # disk.active /\ browser \cap browser' # {}
     => BusyWith({"provision"}) # {}]_vars
=============================================================================
