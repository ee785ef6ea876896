----------------------------- MODULE HyperVGuest -----------------------------
(***************************************************************************)
(* The Hyper-V backend of the application and the controller script it     *)
(* runs for each call.  Create journals each resource before it makes it   *)
(* and ends with a receipt in the journal's place; remove works from the   *)
(* receipt, or rolls back what the journal owns.  Hyper-V is external: it  *)
(* makes and removes a switch, a disk and a machine by name, and others    *)
(* may have made one of the same name before.                              *)
(***************************************************************************)
EXTENDS FiniteSets, Naturals, Sequences, SequencesExt

CONSTANTS Controllers,   \* controller scripts that may run at once (bound)
          MaxCreates     \* creates that begin (bound)

VARIABLES directory,     \* the environment's directory on the host
          journal,       \* the journal of a create
          resource,      \* the switch, the disk and the machine
          power,         \* the state of the machine
          caller,        \* the call the application is in
          controller,    \* the controller scripts
          creates,       \* creates begun so far
          unanswered     \* a controller outlived the application

hypervVars == <<directory, journal, resource, power, caller, controller, creates, unanswered>>

HyperVAssumption == MaxCreates \in Nat

Kinds == <<"switch", "disk", "vm">>
KindSet == ToSet(Kinds)
NoJournal == [phase |-> "none", owned |-> {}]
AtRest == [op |-> "rest"]
NoController == [at |-> "none"]
\* "observe" stands for checkpoint, health and logs, "off" for saved too.
Actions == {"create", "start", "stop", "pause", "observe", "remove"}
Journals == [phase : {"open", "pending", "complete"}, owned : SUBSET KindSet]

HyperVTypeOK ==
    /\ directory \subseteq {"dir", "binding", "receipt", "status", "leftover"}
    /\ journal = NoJournal \/ journal \in Journals
    /\ resource \in [KindSet -> {"absent", "ours", "foreign"}]
    /\ power \in {"off", "running"}
    /\ caller = AtRest \/ caller.op \in Actions \cup {"clean"}
    /\ \A c \in Controllers : controller[c] = NoController
          \/ /\ controller[c].op \in Actions /\ controller[c].i \in 1..4
             /\ controller[c].at \in {"read", "pend", "make", "adopt", "receipt", "settle",
                   "remove", "rollback", "undo", "done", "failing", "ok", "failed"}
    /\ creates \in 0..MaxCreates /\ unanswered \in BOOLEAN

\* Something else may already have a name this environment will use.
HyperVInit ==
    /\ directory = {} /\ journal = NoJournal
    /\ resource \in [KindSet -> {"absent", "foreign"}]
    /\ power = "off"
    /\ caller = AtRest
    /\ controller = [c \in Controllers |-> NoController]
    /\ creates = 0 /\ unanswered = FALSE

Controlled == <<journal, resource, power, controller>>
Has(name) == name \in directory

-----------------------------------------------------------------------------
(* The application.                                                         *)

\* Create binds the directory, every other call needs the binding.  The
\* controllers that are free are all alike.
Invoke(op) ==
    LET c == CHOOSE d \in Controllers : controller[d] = NoController IN
    /\ caller = AtRest
    /\ IF op = "create"
       THEN creates < MaxCreates /\ creates' = creates + 1
       ELSE Has("binding") /\ UNCHANGED creates
    /\ directory' = directory \cup {"dir", "binding"}
    /\ \E d \in Controllers : controller[d] = NoController
    /\ controller' = [controller EXCEPT ![c] = [op |-> op, at |-> "read", i |-> 1]]
    /\ caller' = [op |-> op, controller |-> c]
    /\ UNCHANGED <<journal, resource, power, unanswered>>

Waiting == caller.op \in Actions
Gone(c) == controller' = [controller EXCEPT ![c] = NoController]

\* A confirmed removal goes on with the files of the directory.
Answered ==
    LET c == caller.controller IN
    /\ Waiting /\ controller[c].at \in {"ok", "failed"}
    /\ caller' = IF caller.op = "remove" /\ controller[c].at = "ok"
                 THEN [op |-> "clean"] ELSE AtRest
    /\ Gone(c)
    /\ UNCHANGED <<directory, journal, resource, power, creates, unanswered>>

\* Status and receipt go first.  The binding stays while anything else does.
CleanReceipt ==
    /\ caller.op = "clean"
    /\ directory \cap {"status", "receipt"} # {}
    /\ \E name \in directory \cap {"status", "receipt"} :
          /\ name = "receipt" => ~Has("status")
          /\ directory' = directory \ {name}
    /\ UNCHANGED <<caller, creates, unanswered, Controlled>>

CleanDirectory ==
    /\ caller.op = "clean"
    /\ directory \cap {"status", "receipt"} = {}
    /\ IF directory \subseteq {"dir", "binding"} /\ journal = NoJournal
       THEN directory' \in {{"dir"}, {}}
       ELSE UNCHANGED directory
    /\ caller' = AtRest
    /\ UNCHANGED <<creates, unanswered, Controlled>>

\* The deadline kills the script where it is.  What Hyper-V was asked for
\* may have happened or not, and a file that was being replaced may leave
\* its temporary or its backup.
Timeout ==
    LET c == caller.controller IN
    /\ Waiting /\ controller[c].at \notin {"ok", "failed"}
    /\ \/ UNCHANGED directory
       \/ controller[c].at # "read" /\ directory' = directory \cup {"leftover"}
    /\ Gone(c)
    /\ caller' = AtRest
    /\ UNCHANGED <<journal, resource, power, creates, unanswered>>

\* The application ends, once in a behaviour (bound); its controller goes
\* on, and the request of the call stays, for each has a name of its own.
AppCrash ==
    LET c == caller.controller
        Works == Waiting /\ controller[c].at \notin {"ok", "failed"}
    IN
    /\ caller # AtRest /\ ~unanswered
    /\ caller' = AtRest
    /\ unanswered' = Works
    /\ directory' = IF Waiting THEN directory \cup {"leftover"} ELSE directory
    /\ IF Waiting /\ ~Works THEN Gone(c) ELSE UNCHANGED controller
    /\ UNCHANGED <<journal, resource, power, creates>>

-----------------------------------------------------------------------------
(* The controller script.                                                   *)

At(c, step) == controller[c] # NoController /\ controller[c].at = step
Goto(c, step) == controller' = [controller EXCEPT ![c].at = step, ![c].i = 1]
Proceed(c, step, next) ==
    controller' = [controller EXCEPT ![c].at = step, ![c].i = next]
Fail(c) == Goto(c, "failing")
Host == <<caller, creates, unanswered>>

\* Everything but a create needs a receipt, or a journal to roll back.
ReadState(c) ==
    LET op == controller[c].op IN
    /\ At(c, "read")
    /\ \/ /\ ~Has("binding")
          /\ Fail(c) /\ UNCHANGED journal
       \/ /\ Has("binding") /\ op = "create"
          /\ journal' = IF journal.phase \in {"none", "complete"}
                        THEN [phase |-> "open", owned |-> {}]
                        ELSE [journal EXCEPT !.phase = "open"]
          /\ Goto(c, "pend")
       \/ /\ Has("binding") /\ op \notin {"create", "remove"}
          /\ IF Has("receipt") THEN Goto(c, "make") ELSE Fail(c)
          /\ UNCHANGED journal
       \/ /\ Has("binding") /\ op = "remove"
          /\ IF Has("receipt") THEN Goto(c, "remove")
             ELSE IF journal # NoJournal THEN Goto(c, "rollback") ELSE Fail(c)
          /\ UNCHANGED journal
    /\ UNCHANGED <<directory, resource, power, Host>>

Kind(c) == Kinds[controller[c].i]
Creating(c, step) == At(c, step) /\ controller[c].op = "create"

\* A journal that comes after the resource.
PendUnowned(c) ==
    /\ Creating(c, "pend") /\ resource[Kind(c)] # "foreign"
    /\ Proceed(c, IF resource[Kind(c)] = "ours" THEN "pend" ELSE "make", controller[c].i)
    /\ UNCHANGED <<directory, journal, resource, power, Host>>

\* The journal owns a resource before Hyper-V is asked to make it.  One of
\* the same name that is not bound to this Silo ends the create.
Pend(c) ==
    LET k == Kind(c)
        next == IF k = "vm" THEN "adopt" ELSE "pend"
    IN
    /\ Creating(c, "pend")
    /\ \/ /\ resource[k] = "absent" /\ journal # NoJournal
          /\ journal' = [journal EXCEPT !.owned = @ \cup {k}]
          /\ Proceed(c, "make", controller[c].i)
       \/ /\ resource[k] = "ours"
          /\ Proceed(c, next, controller[c].i + 1)
          /\ UNCHANGED journal
       \/ /\ resource[k] = "foreign" \/ journal = NoJournal
          /\ Fail(c) /\ UNCHANGED journal
    /\ UNCHANGED <<directory, resource, power, Host>>

MakeResource(c) ==
    LET k == Kind(c) IN
    /\ Creating(c, "make")
    /\ \/ /\ resource[k] = "absent"
          /\ resource' = [resource EXCEPT ![k] = "ours"]
          /\ power' = IF k = "vm" THEN "off" ELSE power
          /\ Proceed(c, IF k = "vm" THEN "adopt" ELSE "pend", controller[c].i + 1)
       \/ Fail(c) /\ UNCHANGED <<resource, power>>
    /\ UNCHANGED <<directory, journal, Host>>

AllOurs == \A k \in KindSet : resource[k] = "ours"

\* The machine is configured and everything is checked once more.
InitializeBoundVm(c) ==
    /\ Creating(c, "adopt")
    /\ \/ AllOurs /\ Goto(c, "receipt")
       \/ Fail(c)
    /\ UNCHANGED <<directory, journal, resource, power, Host>>

WriteReceipt(c) ==
    /\ Creating(c, "receipt")
    /\ directory' = directory \cup {"receipt"}
    /\ Goto(c, "settle")
    /\ UNCHANGED <<journal, resource, power, Host>>

RemoveJournal(c) ==
    /\ At(c, "settle")
    /\ journal' = NoJournal
    /\ Goto(c, "done")
    /\ UNCHANGED <<directory, resource, power, Host>>

BoundVm == resource["vm"] = "ours"

\* Start, stop, save, checkpoint and the observations act on the bound
\* machine only, and from states the script accepts.
Control(c) ==
    LET op == controller[c].op
        to == CASE op = "start" -> "running"
                [] op \in {"stop", "pause"} -> "off"
                [] OTHER -> power
    IN
    /\ At(c, "make") /\ op \notin {"create", "remove"}
    /\ \/ /\ BoundVm /\ (op = "start" => AllOurs)
          /\ power' = to
          /\ Goto(c, "done")
       \/ Fail(c) /\ UNCHANGED power
    /\ UNCHANGED <<directory, journal, resource, Host>>

Off == power = "off"
Removes(k) == resource' = [resource EXCEPT ![k] = "absent"]

\* From the receipt: the machine, which must be off, then the disk, then the
\* switch; what bears the name and is not bound ends the removal.
RemoveFromReceipt(c) ==
    LET i == controller[c].i
        k == Kinds[4 - i]
    IN
    /\ At(c, "remove") /\ i \in 1..3
    /\ \/ /\ resource[k] = "ours" /\ (k = "vm" => Off) /\ Removes(k)
          /\ (k # "vm" => resource["vm"] # "ours")
          /\ Proceed(c, IF i = 3 THEN "settle" ELSE "remove", i + 1)
       \/ /\ resource[k] = "absent"
          /\ Proceed(c, IF i = 3 THEN "settle" ELSE "remove", i + 1)
          /\ UNCHANGED resource
       \/ Fail(c) /\ UNCHANGED resource
    /\ UNCHANGED <<directory, journal, power, Host>>

\* From the journal: all that it owns is checked before anything goes.
Rollback(c) ==
    LET mine == {k \in journal.owned : resource[k] # "absent"} IN
    /\ At(c, "rollback")
    /\ \/ /\ journal.phase = "complete"
          /\ IF mine = {} THEN Goto(c, "done") ELSE Fail(c)
          /\ UNCHANGED journal
       \/ /\ journal.phase \notin {"complete", "none"}
          /\ \A k \in mine : resource[k] = "ours"
          /\ "vm" \in mine => Off
          /\ journal' = [journal EXCEPT !.phase = "pending"]
          /\ Goto(c, "undo")
       \/ Fail(c) /\ UNCHANGED journal
    /\ UNCHANGED <<directory, resource, power, Host>>

Undo(c) ==
    LET i == controller[c].i
        k == Kinds[4 - i]
    IN
    /\ At(c, "undo") /\ i \in 1..3
    /\ \/ /\ k \in journal.owned /\ resource[k] = "ours" /\ (k = "vm" => Off)
          /\ Removes(k)
          /\ Proceed(c, "undo", i + 1)
       \/ /\ k \notin journal.owned \/ resource[k] # "ours"
          /\ Proceed(c, "undo", i + 1) /\ UNCHANGED resource
       \/ Fail(c) /\ UNCHANGED resource
    /\ UNCHANGED <<directory, journal, power, Host>>

UndoCompletes(c) ==
    /\ At(c, "undo") /\ controller[c].i = 4
    /\ journal' = IF journal = NoJournal THEN journal ELSE [journal EXCEPT !.phase = "complete"]
    /\ Goto(c, "done")
    /\ UNCHANGED <<directory, resource, power, Host>>

\* The status of a success or a failure; nobody reads an unheard one.
WriteStatus(c) ==
    /\ At(c, "done") \/ At(c, "failing")
    /\ directory' = IF Has("dir") THEN directory \cup {"status"} ELSE directory
    /\ IF Waiting /\ caller.controller = c
       THEN Goto(c, IF At(c, "done") THEN "ok" ELSE "failed")
       ELSE Gone(c)
    /\ UNCHANGED <<journal, resource, power, Host>>

\* The machine is started, saved or shut down by its user.
VmChanges ==
    /\ BoundVm
    /\ power' \in {"off", "running"} \ {power}
    /\ UNCHANGED <<directory, journal, resource, controller, Host>>

ControllerStep(c) ==
    \/ ReadState(c) \/ Pend(c) \/ MakeResource(c) \/ InitializeBoundVm(c)
    \/ WriteReceipt(c) \/ RemoveJournal(c) \/ Control(c)
    \/ RemoveFromReceipt(c) \/ Rollback(c) \/ Undo(c) \/ UndoCompletes(c)
    \/ WriteStatus(c)

HyperVNext ==
    \/ \E op \in Actions : Invoke(op)
    \/ Answered \/ CleanReceipt \/ CleanDirectory \/ Timeout \/ AppCrash
    \/ \E c \in Controllers : ControllerStep(c)
    \/ VmChanges

HyperVSpec == HyperVInit /\ [][HyperVNext]_hypervVars

-----------------------------------------------------------------------------
(* Properties.                                                              *)

\* Whatever a create made is named by the receipt or owned by the journal,
\* and the binding that keeps the Silo from being deleted is there: at every
\* point where the controller or the application can stop.
ResourcesAreOwned ==
    ~unanswered => \A k \in KindSet : resource[k] = "ours" =>
       /\ {"dir", "binding"} \subseteq directory
       /\ Has("receipt") \/ k \in journal.owned

\* A resource of the same name that this environment did not make is never
\* removed, not even by a rollback.
ForeignStays ==
    [][\A k \in KindSet : resource[k] = "foreign" => resource'[k] = "foreign"]_hypervVars

\* A confirmed removal that the application heard leaves nothing of what the
\* environment made.
CleanedIsGone == caller.op = "clean" /\ ~unanswered => \A k \in KindSet : resource[k] # "ours"
=============================================================================
