---------------------------- MODULE SandboxGuest ----------------------------
(***************************************************************************)
(* The Windows Sandbox backend of the application and the controller       *)
(* script it runs for each call.  An environment is a directory of files   *)
(* that the application makes and removes one by one; the script starts    *)
(* and closes the one Sandbox process of the host and records it.  Windows *)
(* Sandbox is external: one process at a time, which its user may start    *)
(* and close too.                                                          *)
(***************************************************************************)
EXTENDS FiniteSets, Naturals, Sequences, SequencesExt

CONSTANTS Envs,      \* environments that use Windows Sandbox
          Foreign,   \* the owner of a Sandbox that its user started
          Scripts,   \* controller scripts that may run at once (bound)
          Ids        \* process identities: a PID with its start time


VARIABLES files,     \* what each environment's directory holds
          torn,      \* the files of it that a crash left half written
          tracked,   \* the process that each process receipt names
          request,   \* the call the application is in
          scripts,   \* the controller scripts
          process,   \* the Sandbox process
          unheard    \* environments whose script outlived the application or was killed

sandboxVars == <<files, torn, tracked, request, scripts, process, unheard>>

NoId == "no process"
SandboxAssumption ==
    /\ Foreign \notin Envs
    /\ NoId \notin Ids /\ IsFiniteSet(Ids) /\ IsFiniteSet(Envs)
    /\ Cardinality(Ids) > Cardinality(Envs) + 1

Idle == [op |-> "idle"]
NoSandbox == [id |-> NoId, owner |-> Foreign]
NoScript == [at |-> "none"]

ScriptOps == {"start", "stop", "health", "logs", "assert-exited"}
\* What create writes, in its order, and what destroy removes, in its order.
Created == <<"dir", "binding", "staging", "bootstrap", "descriptor">>
Removed == <<"descriptor", "status", "receipt", "bootstrap", "staging">>
Written == {"binding", "bootstrap", "descriptor"}
Names == ToSet(Created) \cup ToSet(Removed) \cup {"leftover"}

SandboxTypeOK ==
    /\ files \in [Envs -> SUBSET Names]
    /\ torn \in [Envs -> SUBSET Written]
    /\ tracked \in [Envs -> Ids \cup {NoId}]
    /\ \/ request = Idle
       \/ /\ request.op \in {"create", "destroy"} \cup ScriptOps
          /\ request.env \in Envs /\ request.step \in 0..6
    /\ \A c \in Scripts : scripts[c] = NoScript
          \/ scripts[c] \in [op : ScriptOps, env : Envs,
                             at : {"read", "launched", "status", "failing", "ok", "failed"}]
    /\ process \in [id : Ids \cup {NoId}, owner : Envs \cup {Foreign}]
    /\ unheard \subseteq Envs

SandboxInit ==
    /\ files = [e \in Envs |-> {}]
    /\ torn = [e \in Envs |-> {}]
    /\ tracked = [e \in Envs |-> NoId]
    /\ request = Idle
    /\ scripts = [c \in Scripts |-> NoScript]
    /\ process = NoSandbox
    /\ unheard = {}

Holds(e, names) == names \subseteq files[e] /\ names \cap torn[e] = {}
Put(e, name) == files' = [files EXCEPT ![e] = @ \cup {name}]
Drop(e, names) == files' = [files EXCEPT ![e] = @ \ names]

-----------------------------------------------------------------------------
(* The application.                                                         *)

Finish == request' = Idle

CreateBegins(e) ==
    /\ request = Idle
    /\ request' = [op |-> "create", env |-> e, step |-> 1]
    /\ UNCHANGED <<files, torn, tracked, scripts, process, unheard>>

\* A file that exists must be what would be written; a crash may tear one.
CreateWrites ==
    LET e == request.env
        name == Created[request.step]
    IN
    /\ request.op = "create"
    /\ \/ /\ name \notin torn[e]
          /\ Put(e, name)
          /\ request' = IF request.step = Len(Created) THEN Idle
                        ELSE [request EXCEPT !.step = @ + 1]
          /\ UNCHANGED torn
       \/ name \in torn[e] /\ Finish /\ UNCHANGED <<files, torn>>
       \/ /\ name \in Written \ files[e]
          /\ Put(e, name)
          /\ torn' = [torn EXCEPT ![e] = @ \cup {name}]
          /\ Finish
    /\ UNCHANGED <<tracked, scripts, process, unheard>>

\* A request file of a new name is written, and the script starts with it.
Invoke(op, e) ==
    LET c == CHOOSE d \in Scripts : scripts[d] = NoScript IN
    /\ Holds(e, {"binding"})
    /\ \E d \in Scripts : scripts[d] = NoScript
    /\ scripts' = [scripts EXCEPT ![c] = [op |-> op, env |-> e, at |-> "read"]]
    /\ request' = [op |-> op, env |-> e, step |-> 0, script |-> c]

\* Starting checks the staged files first.
Call(op, e) ==
    /\ request = Idle
    /\ op = "start" => Holds(e, {"bootstrap", "descriptor"})
    /\ Invoke(op, e)
    /\ UNCHANGED <<files, torn, tracked, process, unheard>>

\* Without a binding only empty directories are left to remove.
DestroyUnbound(e) ==
    /\ request = Idle
    /\ "dir" \in files[e] /\ "binding" \notin files[e]
    /\ files[e] \subseteq {"dir", "staging"}
    /\ \E gone \in {{"staging"}, {"staging", "dir"}} : Drop(e, gone)
    /\ UNCHANGED <<torn, tracked, request, scripts, process, unheard>>

Destroy(e) ==
    /\ request = Idle
    /\ Invoke("assert-exited", e)
    /\ UNCHANGED <<files, torn, tracked, process, unheard>>

Waiting == request # Idle /\ request.op \in ScriptOps
Ended(c) == scripts' = [scripts EXCEPT ![c] = NoScript]

\* The request file goes, whatever the script said.
Answered ==
    LET e == request.env
        c == request.script
    IN
    /\ Waiting /\ scripts[c].at \in {"ok", "failed"}
    /\ Ended(c)
    /\ IF request.op = "assert-exited" /\ scripts[c].at = "ok"
       THEN request' = [op |-> "destroy", env |-> e, step |-> 1]
       ELSE Finish
    /\ UNCHANGED <<files, torn, tracked, process, unheard>>

\* The confirmed removal, file by file; the binding goes only when nothing
\* unexpected is left beside it, and the directory last.
DestroyRemoves ==
    LET e == request.env
        i == request.step
    IN
    /\ request.op = "destroy"
    /\ \/ /\ i <= Len(Removed)
          /\ Drop(e, {Removed[i]})
          /\ torn' = [torn EXCEPT ![e] = @ \ {Removed[i]}]
          /\ tracked' = IF Removed[i] = "receipt" THEN [tracked EXCEPT ![e] = NoId] ELSE tracked
          /\ request' = [request EXCEPT !.step = @ + 1]
       \/ /\ i > Len(Removed)
          /\ IF files[e] \subseteq {"dir", "binding"}
             THEN Drop(e, {"binding", "dir"}) \/ Drop(e, {"binding"})
             ELSE UNCHANGED files
          /\ Finish
          /\ UNCHANGED <<torn, tracked>>
    /\ UNCHANGED <<scripts, process, unheard>>

\* At its deadline a script is killed where it is.
Timeout ==
    LET e == request.env
        c == request.script
    IN
    /\ Waiting /\ scripts[c].at \notin {"ok", "failed"}
    /\ \/ UNCHANGED files
       \/ scripts[c].at # "read" /\ Put(e, "leftover")
    /\ Ended(c)
    /\ unheard' = IF scripts[c].at = "launched" THEN unheard \cup {e} ELSE unheard
    /\ Finish
    /\ UNCHANGED <<torn, tracked, process>>

\* The application ends where it is; its script goes on, and the request
\* file of the call stays.
AppCrash ==
    LET c == request.script
        Works == Waiting /\ scripts[c].at \notin {"ok", "failed"}
    IN
    /\ request # Idle
    /\ Finish
    /\ unheard' = IF Works THEN unheard \cup {request.env} ELSE unheard
    /\ IF Waiting /\ ~Works THEN Ended(c) ELSE UNCHANGED scripts
    /\ IF Waiting THEN Put(request.env, "leftover") ELSE UNCHANGED files
    /\ UNCHANGED <<torn, tracked, process>>

-----------------------------------------------------------------------------
(* The controller script.                                                   *)

At(c, step) == scripts[c] # NoScript /\ scripts[c].at = step
Goto(c, step) == scripts' = [scripts EXCEPT ![c].at = step]
Asked(c) == request # Idle /\ Waiting /\ request.script = c

\* A receipt that is believed.
Recorded(e) == tracked[e] # NoId /\ process # NoSandbox

\* The recorded process, if it is the one that runs.
Exact(e) == tracked[e] # NoId /\ tracked[e] = process.id
AnySandbox == process # NoSandbox
Forget(e) ==
    /\ Drop(e, {"receipt"})
    /\ tracked' = [tracked EXCEPT ![e] = NoId]

\* Nothing is done without the descriptor and the binding.
ReadsNothing(c) ==
    /\ At(c, "read") /\ ~Holds(scripts[c].env, {"descriptor", "binding"})
    /\ IF Asked(c) THEN Goto(c, "failed") ELSE Ended(c)
    /\ UNCHANGED <<files, torn, tracked, request, process, unheard>>

Ready(c, op) ==
    At(c, "read") /\ scripts[c].op = op /\ Holds(scripts[c].env, {"descriptor", "binding"})

\* A new process has an identity that nothing recorded; these are all alike.
FreshId == CHOOSE id \in Ids : id # process.id /\ \A e \in Envs : tracked[e] # id

\* A stale receipt goes; a Sandbox that is not this environment's is never
\* adopted.
Start(c) ==
    LET e == scripts[c].env IN
    /\ Ready(c, "start")
    /\ \/ Exact(e) /\ Goto(c, "status") /\ UNCHANGED <<files, tracked, process>>
       \/ ~Exact(e) /\ AnySandbox /\ Forget(e) /\ Goto(c, "failing") /\ UNCHANGED process
       \/ /\ ~Exact(e) /\ ~AnySandbox
          /\ Forget(e)
          /\ process' = [id |-> FreshId, owner |-> e]
          /\ Goto(c, "launched")
    /\ UNCHANGED <<torn, request, unheard>>

\* Two seconds later the process still runs and is recorded.
Record(c) ==
    LET e == scripts[c].env IN
    /\ At(c, "launched")
    /\ \/ /\ process.owner = e
          /\ "dir" \in files[e]
          /\ Put(e, "receipt")
          /\ tracked' = [tracked EXCEPT ![e] = process.id]
          /\ Goto(c, "status")
       \/ /\ process.owner # e \/ "dir" \notin files[e]
          /\ Goto(c, "failing") /\ UNCHANGED <<files, tracked>>
    /\ UNCHANGED <<torn, request, process, unheard>>

\* No Sandbox runs and no other script works: nothing unheard is left.
Hear(c, e) ==
    unheard' = IF Asked(c) /\ \A d \in Scripts \ {c} : scripts[d] = NoScript
               THEN unheard \ {e} ELSE unheard

\* Only the exact process is asked to close, and given twenty seconds.
Stop(c) ==
    LET e == scripts[c].env IN
    /\ Ready(c, "stop")
    /\ \/ /\ Exact(e) \/ ~AnySandbox
          /\ process' = NoSandbox
          /\ Forget(e) /\ Hear(c, e) /\ Goto(c, "status")
       \/ AnySandbox /\ Goto(c, "failing") /\ UNCHANGED <<files, tracked, process, unheard>>
    /\ UNCHANGED <<torn, request>>

Observe(c) ==
    LET e == scripts[c].env IN
    /\ \/ Ready(c, "health") /\ Goto(c, IF Exact(e) THEN "status" ELSE "failing")
       \/ Ready(c, "logs") /\ Goto(c, IF Exact(e) \/ ~AnySandbox THEN "status" ELSE "failing")
    /\ UNCHANGED <<files, torn, tracked, request, process, unheard>>

AssertExited(c) ==
    LET e == scripts[c].env IN
    /\ Ready(c, "assert-exited")
    /\ \/ ~AnySandbox /\ Forget(e) /\ Hear(c, e) /\ Goto(c, "status")
       \/ AnySandbox /\ Goto(c, "failing") /\ UNCHANGED <<files, tracked, unheard>>
    /\ UNCHANGED <<torn, request, process>>

\* A status file is left of a success and of a failure.
WriteStatus(c) ==
    LET e == scripts[c].env IN
    /\ At(c, "status") \/ At(c, "failing")
    /\ IF "dir" \in files[e] THEN Put(e, "status") ELSE UNCHANGED files
    /\ IF ~Asked(c) THEN Ended(c)
       ELSE Goto(c, IF At(c, "status") /\ "dir" \in files[e] THEN "ok" ELSE "failed")
    /\ UNCHANGED <<torn, tracked, request, process, unheard>>

\* The user opens a Sandbox, or the one that runs is closed.
UserOpens ==
    /\ ~AnySandbox
    /\ process' = [id |-> FreshId, owner |-> Foreign]
    /\ UNCHANGED <<files, torn, tracked, request, scripts, unheard>>
SandboxCloses ==
    /\ AnySandbox
    /\ process' = NoSandbox
    /\ UNCHANGED <<files, torn, tracked, request, scripts, unheard>>

ScriptStep(c) ==
    \/ ReadsNothing(c) \/ Start(c) \/ Record(c) \/ Stop(c) \/ Observe(c)
    \/ AssertExited(c) \/ WriteStatus(c)

SandboxNext ==
    \/ \E e \in Envs : CreateBegins(e) \/ DestroyUnbound(e) \/ Destroy(e)
    \/ \E e \in Envs, op \in {"start", "stop", "health", "logs"} : Call(op, e)
    \/ CreateWrites \/ Answered \/ DestroyRemoves \/ Timeout \/ AppCrash
    \/ \E c \in Scripts : ScriptStep(c)
    \/ UserOpens \/ SandboxCloses

SandboxSpec == SandboxInit /\ [][SandboxNext]_sandboxVars

-----------------------------------------------------------------------------
(* Properties.                                                              *)

\* The files of an environment stay while its Sandbox runs, and the Sandbox
\* is recorded as soon as no script works: what destroy and stop refuse or
\* close is the right process (docs/environment-backends.md:152-156).
SandboxIsTracked ==
    \A e \in Envs \ unheard : process.owner = e =>
       /\ {"dir", "binding", "descriptor"} \subseteq files[e]
       /\ (\A c \in Scripts : scripts[c] = NoScript) => tracked[e] = process.id

\* A script closes no Sandbox but the one its environment recorded.
ClosesOnlyItsOwn ==
    [][\A c \in Scripts : Ready(c, "stop") /\ scripts'[c] # scripts[c] /\ process' # process
          => tracked[scripts[c].env] = process.id]_sandboxVars
=============================================================================
