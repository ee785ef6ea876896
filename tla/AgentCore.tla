----------------------------- MODULE AgentCore ------------------------------
(***************************************************************************)
(* The environment lifecycle of the Remote Agent: AgentCore (agent.rs) with*)
(* its durable store, the provider that owns the real resources, and the   *)
(* service flag that stops everything once the store is in doubt.          *)
(*                                                                         *)
(* One thread serves requests and maintenance ticks, so only one job is in *)
(* progress; each store write and each provider call is a step, and the    *)
(* process may die before any of them.  The store is the atomic cell that  *)
(* DurableFile implements.  The provider is external: it may refuse, or    *)
(* fail after it took effect.  Authorisation, network policy and logs are  *)
(* outside this module, every capability is available, the clock does not  *)
(* step back, and one control-plane credential issues the requests.        *)
(***************************************************************************)
EXTENDS Integers, FiniteSets

CONSTANTS Silos,
          NoSilo, NoProof,
          Ttl,               \* lifetime every environment is created with
          MaxEnvironments,   \* MAX_ENVIRONMENTS
          MaxSequence,       \* bound on the requests the client sends
          MaxTime,           \* bound on the clock
          MaxFailures,       \* bound on failed store writes
          MaxCrashes         \* bound on crashes

ASSUME CoreAssumption ==
    /\ NoSilo \notin Silos
    /\ NoProof \notin Nat
    /\ Ttl > 0
    /\ {Ttl, MaxEnvironments, MaxSequence, MaxTime, MaxFailures, MaxCrashes} \subseteq Nat

VARIABLES store,      \* DurableAgentStore.state: environments and claimed sequence
          disk,       \* the state file
          poisoned,   \* DurableAgentStore.poisoned
          mode,       \* whether the Agent runs
          suspended,  \* AgentService.agent_state_poisoned
          step,       \* the next step of the job in progress
          job,        \* what is being done, and to which record
          todo,       \* Silos the sweep or the recovery still has to visit
          live,       \* Silos whose resources the provider holds
          now,        \* the clock
          calls,      \* how often provider.create ran, per Silo
          proofs,     \* deletion proofs returned to the client
          minted,     \* the number of proofs generated
          failures, crashes

storeVars == <<store, disk, poisoned, failures>>
worldVars == <<now, crashes>>
vars == <<store, disk, poisoned, mode, suspended, step, job, todo, live, now,
          calls, proofs, minted, failures, crashes>>

\* "Absent": the map of environments has no record of the Silo.
Active == {"Created", "Running", "Stopped", "Paused"}
Kept == Active \cup {"Provisioning"}
States == Kept \cup {"Absent", "Deleted"}

Record == [state : States,
           volume : {"none", "attested", "unattested"},
           expires : Nat,
           proof : Nat \cup {NoProof}]

Commands == {"create", "start", "stop", "pause", "inspect", "destroy"}
Origins == {"none", "request", "sweep", "recovery"}

Job == [origin : Origins, command : Commands, silo : Silos \cup {NoSilo},
        record : Record, at : Nat,
        result : {"ok", "error", "store_error"}]

NoRecord == [state |-> "Absent", volume |-> "none", expires |-> 0,
             proof |-> NoProof]

NoJob == [origin |-> "none", command |-> "inspect", silo |-> NoSilo,
          record |-> NoRecord, at |-> 0, result |-> "ok"]

Steps == {"idle", "dispatch", "provision", "journal", "activate", "call",
          "update", "destroy", "deletion", "activity", "next"}

Store == [env : [Silos -> Record], claimed : Nat]

TypeOK == /\ store \in Store /\ disk \in Store
          /\ poisoned \in BOOLEAN
          /\ mode \in {"down", "recovering", "serving"}
          /\ suspended \in BOOLEAN
          /\ step \in Steps
          /\ job \in Job
          /\ todo \subseteq Silos
          /\ live \subseteq Silos
          /\ now \in Nat
          /\ calls \in [Silos -> Nat]
          /\ proofs \subseteq Silos \X (Nat \cup {NoProof})
          /\ {minted, failures, crashes} \subseteq Nat

Init == /\ store = [env |-> [x \in Silos |-> NoRecord], claimed |-> 0]
        /\ disk = store
        /\ poisoned = FALSE
        /\ mode = "down"
        /\ suspended = FALSE
        /\ step = "idle"
        /\ job = NoJob
        /\ todo = {}
        /\ live = {}
        /\ now = 0
        /\ calls = [x \in Silos |-> 0]
        /\ proofs = {}
        /\ minted = 0
        /\ failures = 0
        /\ crashes = 0
-----------------------------------------------------------------------------
(* DurableAgentStore::mutate *)

\* The part of validate_state that some write could break.
ValidStore(s) ==
    /\ Cardinality({x \in Silos : s.env[x].state # "Absent"}) <= MaxEnvironments
    /\ \A x \in Silos :
          /\ (s.env[x].state = "Deleted") <=> (s.env[x].proof # NoProof)
          /\ s.env[x].state \in Active => s.env[x].volume = "attested"

Written(s) == /\ ~poisoned
              /\ ValidStore(s)
              /\ store' = s
              /\ disk' = s
              /\ UNCHANGED <<poisoned, failures>>

\* Mutant: a write in doubt does not poison the store.
WriteFailedUnpoisoned(s) ==
    /\ ValidStore(s)
    /\ failures < MaxFailures
    /\ failures' = failures + 1
    /\ disk' \in {disk, s}
    /\ UNCHANGED <<poisoned, store>>

\* A poisoned store and an invalid state refuse the write; a write that fails
\* leaves the old or the new state on disk and poisons the store.
WriteFailed(s) ==
    \/ /\ poisoned \/ ~ValidStore(s)
       /\ UNCHANGED storeVars
    \/ /\ ~poisoned
       /\ ValidStore(s)
       /\ failures < MaxFailures
       /\ failures' = failures + 1
       /\ disk' \in {disk, s}
       /\ poisoned' = TRUE
       /\ UNCHANGED store

\* insert_environment, update_environment and commit_deletion.
WithRecord(x, record) ==
    [store EXCEPT !.env = [store.env EXCEPT ![x] = record]]

Goto(label, j) == step' = label /\ job' = j

\* The body of a job ends: requests and sweeps log activity, recovery does not.
Finish(result) ==
    IF job.origin = "recovery"
    THEN Goto("next", [job EXCEPT !.result = result])
    ELSE Goto("activity", [job EXCEPT !.result = result])

\* fail_create_with_compensation: a create that destroys.
Compensate == Goto("destroy", job)
Compensating == job.command = "create"
-----------------------------------------------------------------------------
(* execute: claim the request, then do as it says *)

\* The claim outlives the request: whatever happens next, its sequence is used.
ClaimRequest(n, command, x) ==
    LET claimed == [store EXCEPT !.claimed = n] IN
    /\ mode = "serving" /\ step = "idle" /\ ~suspended
    /\ n > store.claimed
    /\ \/ /\ Written(claimed)
          /\ Goto("dispatch", [NoJob EXCEPT !.origin = "request",
                                            !.command = command,
                                            !.silo = x,
                                            !.at = now])
          /\ UNCHANGED suspended
       \/ /\ WriteFailed(claimed)
          /\ suspended' = TRUE
          /\ UNCHANGED <<step, job>>
    /\ UNCHANGED <<mode, todo, live, calls, proofs, minted, worldVars>>

\* claim_request refuses what it has seen, and nothing else happens.
ReplayRefused ==
    /\ mode = "serving" /\ step = "idle" /\ ~suspended
    /\ \E n \in 1..MaxSequence : n <= store.claimed
    /\ UNCHANGED vars

Known == store.env[job.silo].state # "Absent"

\* record(): provisioning, deleted and (unless allowed) expired are refused.
Usable(allowExpired) ==
    /\ store.env[job.silo].state \in Active
    /\ allowExpired \/ store.env[job.silo].expires > job.at

Dispatched(commands) == step = "dispatch" /\ job.command \in commands

RefuseRequest ==
    /\ \/ Dispatched({"create"}) /\ Known
       \/ Dispatched({"start", "stop", "pause", "inspect"}) /\ ~Usable(FALSE)
       \/ Dispatched({"destroy"}) /\ ~Usable(TRUE)
          /\ store.env[job.silo].state # "Deleted"
    /\ Finish("error")
    /\ UNCHANGED <<storeVars, mode, suspended, todo, live, calls, proofs,
                   minted, worldVars>>

\* Mutant: the provider is called even when the intent was not written.
InsertEnvironmentAnyway ==
    LET intent == [state |-> "Provisioning", volume |-> "none",
                   expires |-> job.at + Ttl, proof |-> NoProof]
        inserted == WithRecord(job.silo, intent)
    IN
    /\ Dispatched({"create"})
    /\ ~Known
    /\ Written(inserted) \/ WriteFailed(inserted)
    /\ Goto("provision", [job EXCEPT !.record = intent])
    /\ UNCHANGED <<mode, suspended, todo, live, calls, proofs, minted, worldVars>>

\* create, part one: the intent is durable before the provider is called.
InsertEnvironment ==
    LET intent == [state |-> "Provisioning", volume |-> "none",
                   expires |-> job.at + Ttl, proof |-> NoProof]
        inserted == WithRecord(job.silo, intent)
    IN
    /\ Dispatched({"create"})
    /\ ~Known
    /\ \/ Written(inserted) /\ Goto("provision", [job EXCEPT !.record = intent])
       \/ WriteFailed(inserted) /\ Finish("store_error")
    /\ UNCHANGED <<mode, suspended, todo, live, calls, proofs, minted, worldVars>>

\* create, part two: the provider answers with a volume, or fails and may or
\* may not have allocated something.
ProviderCreate ==
    /\ step = "provision"
    /\ calls' = [calls EXCEPT ![job.silo] = @ + 1]
    /\ \/ /\ live' = live \cup {job.silo}
          /\ \E volume \in {"attested", "unattested"} :
                Goto("journal", [job EXCEPT !.record.volume = volume])
       \/ /\ live' \in {live, live \cup {job.silo}}
          /\ Compensate
    /\ UNCHANGED <<storeVars, mode, suspended, todo, proofs, minted, worldVars>>

\* create, part three: the provider's identifiers are journalled before the
\* volume and the evidence of the guest are judged.
JournalVolume ==
    LET journalled == WithRecord(job.silo, job.record) IN
    /\ step = "journal"
    /\ \/ /\ Written(journalled)
          /\ \/ job.record.volume = "attested" /\ Goto("activate", job)
             \/ Compensate
       \/ WriteFailed(journalled) /\ Compensate
    /\ UNCHANGED <<mode, suspended, todo, live, calls, proofs, minted, worldVars>>

\* Mutant: an activation in doubt is compensated.
ActivateOrCompensate ==
    LET created == [job.record EXCEPT !.state = "Created"]
        activated == WithRecord(job.silo, created)
    IN
    /\ step = "activate"
    /\ \/ Written(activated) /\ Finish("ok")
       \/ WriteFailed(activated) /\ Compensate
    /\ UNCHANGED <<mode, suspended, todo, live, calls, proofs, minted, worldVars>>

\* create, part four: when this commit is in doubt, nothing is destroyed.
ActivateEnvironment ==
    LET created == [job.record EXCEPT !.state = "Created"]
        activated == WithRecord(job.silo, created)
    IN
    /\ step = "activate"
    /\ \/ Written(activated) /\ Finish("ok")
       \/ WriteFailed(activated) /\ Finish("store_error")
    /\ UNCHANGED <<mode, suspended, todo, live, calls, proofs, minted, worldVars>>

\* lifecycle: the provider acts and shows evidence, or the record stays.
ProviderLifecycle ==
    /\ Dispatched({"start", "stop", "pause", "inspect"})
    /\ Usable(FALSE)
    /\ \/ Goto("update", [job EXCEPT !.record = store.env[job.silo]])
       \/ Finish("error")
    /\ UNCHANGED <<storeVars, mode, suspended, todo, live, calls, proofs,
                   minted, worldVars>>

StateAfter(command, state) == CASE command = "start" -> "Running"
                                [] command = "stop" -> "Stopped"
                                [] command = "pause" -> "Paused"
                                [] OTHER -> state

UpdateEnvironment ==
    LET updated == WithRecord(job.silo,
            [job.record EXCEPT !.state = StateAfter(job.command, @)])
    IN
    /\ step = "update"
    /\ \/ Written(updated) /\ Finish("ok")
       \/ WriteFailed(updated) /\ Finish("store_error")
    /\ UNCHANGED <<mode, suspended, todo, live, calls, proofs, minted, worldVars>>

\* Destroy of a deleted environment repeats the stored proof.
RepeatProof ==
    /\ Dispatched({"destroy"})
    /\ store.env[job.silo].state = "Deleted"
    /\ Goto("activity", [job EXCEPT !.record = store.env[job.silo],
                                    !.result = "ok"])
    /\ UNCHANGED <<storeVars, mode, suspended, todo, live, calls, proofs,
                   minted, worldVars>>

BeginDestroy ==
    /\ Dispatched({"destroy"})
    /\ Usable(TRUE)
    /\ Goto("destroy", [job EXCEPT !.record = store.env[job.silo]])
    /\ UNCHANGED <<storeVars, mode, suspended, todo, live, calls, proofs,
                   minted, worldVars>>
-----------------------------------------------------------------------------
(* destroy_record, shared by requests, compensation, sweeps and recovery *)

\* A bound receipt: the resources are gone, and identifiers that a crash kept
\* out of the journal are taken from it.
ProviderDestroys ==
    /\ step = "destroy"
    /\ live' = live \ {job.silo}
    /\ Goto("deletion", [job EXCEPT !.record.volume =
                            IF @ = "none" THEN "unattested" ELSE @])
    /\ UNCHANGED <<storeVars, mode, suspended, todo, calls, proofs, minted,
                   worldVars>>

\* Mutant: a receipt is accepted without looking at what it is bound to.
ProviderDestroyUnchecked ==
    /\ step = "destroy"
    /\ live' \in {live, live \ {job.silo}}
    /\ Goto("deletion", job)
    /\ UNCHANGED <<storeVars, mode, suspended, todo, calls, proofs, minted,
                   worldVars>>

\* No receipt, or one that is not bound to the record: perhaps destroyed.
ProviderDestroyFails ==
    /\ step = "destroy"
    /\ live' \in {live, live \ {job.silo}}
    /\ Finish("error")
    /\ UNCHANGED <<storeVars, mode, suspended, todo, calls, proofs, minted,
                   worldVars>>

\* commit_deletion: record and proof in one write.  A compensated create fails
\* with the provider's error even when this write is what went wrong.
CommitDeletion ==
    LET deleted == [job.record EXCEPT !.state = "Deleted", !.proof = minted + 1]
        committed == WithRecord(job.silo, deleted)
        done == [job EXCEPT !.record = deleted,
                            !.result = IF Compensating THEN "error" ELSE "ok"]
    IN
    /\ step = "deletion"
    /\ minted' = minted + 1
    /\ \/ /\ Written(committed)
          /\ Goto(IF job.origin = "recovery" THEN "next" ELSE "activity", done)
       \/ /\ WriteFailed(committed)
          /\ Finish(IF Compensating THEN "error" ELSE "store_error")
    /\ UNCHANGED <<mode, suspended, todo, live, calls, proofs, worldVars>>

\* append_activity: its failure replaces the result.  A request is answered; a
\* store error suspends the service, at once or when the sweep is over.
AppendActivity ==
    /\ step = "activity"
    /\ \/ /\ Written(store)
          /\ proofs' = IF /\ job.origin = "request"
                          /\ job.command = "destroy"
                          /\ job.result = "ok"
                       THEN proofs \cup {<<job.silo, job.record.proof>>}
                       ELSE proofs
          /\ suspended' = (suspended \/ job.result = "store_error")
       \/ /\ WriteFailed(store)
          /\ suspended' = TRUE
          /\ UNCHANGED proofs
    /\ IF job.origin = "sweep" THEN Goto("next", job) ELSE Goto("idle", NoJob)
    /\ UNCHANGED <<mode, todo, live, calls, minted, worldVars>>
-----------------------------------------------------------------------------
(* Maintenance, start and recovery *)

\* Mutant: the sweep visits deleted environments again.
ExpiredOrDeleted(x, t) == /\ store.env[x].state # "Absent"
                          /\ store.env[x].expires <= t

\* Mutant: the sweep leaves interrupted creations to the next start.
ExpiredActive(x, t) == /\ store.env[x].state \in Active
                       /\ store.env[x].expires <= t

\* sweep_expired destroys what has expired by the time the tick began,
\* environments stuck in provisioning included.
Expired(x, t) == /\ store.env[x].state \in Kept
                 /\ store.env[x].expires <= t

MaintenanceTick ==
    /\ mode = "serving" /\ step = "idle" /\ ~suspended
    /\ \E x \in Silos : Expired(x, now)
    /\ todo' = {x \in Silos : Expired(x, now)}
    /\ Goto("next", [NoJob EXCEPT !.origin = "sweep", !.command = "destroy",
                                  !.at = now])
    /\ UNCHANGED <<storeVars, mode, suspended, live, calls, proofs, minted,
                   worldVars>>

\* One environment failing does not keep the sweep from the others, but it
\* does keep recovery from them.
NextDestroy ==
    /\ step = "next"
    /\ job.origin = "sweep" \/ job.result = "ok"
    /\ \E x \in todo :
          /\ todo' = todo \ {x}
          /\ Goto("destroy", [job EXCEPT !.silo = x, !.record = store.env[x],
                                         !.result = "ok"])
    /\ UNCHANGED <<storeVars, mode, suspended, live, calls, proofs, minted,
                   worldVars>>

SweepEnds ==
    /\ step = "next" /\ job.origin = "sweep"
    /\ todo = {}
    /\ Goto("idle", NoJob)
    /\ UNCHANGED <<storeVars, mode, suspended, todo, live, calls, proofs,
                   minted, worldVars>>

\* Mutant: recovery skips creations that have no volume yet.
StartWithVolumes ==
    /\ mode = "down"
    /\ mode' = "recovering"
    /\ store' = disk
    /\ todo' = {x \in Silos : /\ disk.env[x].state = "Provisioning"
                              /\ disk.env[x].volume # "none"}
    /\ Goto("next", [NoJob EXCEPT !.origin = "recovery", !.command = "destroy",
                                  !.at = now])
    /\ UNCHANGED <<disk, poisoned, failures, suspended, live, calls, proofs,
                   minted, worldVars>>

\* AgentCore::new on the state that open read from disk.
Start ==
    /\ mode = "down"
    /\ mode' = "recovering"
    /\ store' = disk
    /\ todo' = {x \in Silos : disk.env[x].state = "Provisioning"}
    /\ Goto("next", [NoJob EXCEPT !.origin = "recovery", !.command = "destroy",
                                  !.at = now])
    /\ UNCHANGED <<disk, poisoned, failures, suspended, live, calls, proofs,
                   minted, worldVars>>

RecoverySucceeds ==
    /\ step = "next" /\ job.origin = "recovery"
    /\ job.result = "ok"
    /\ todo = {}
    /\ mode' = "serving"
    /\ Goto("idle", NoJob)
    /\ UNCHANGED <<storeVars, suspended, todo, live, calls, proofs, minted,
                   worldVars>>

Down == /\ mode' = "down"
        /\ suspended' = FALSE
        /\ poisoned' = FALSE
        /\ todo' = {}
        /\ Goto("idle", NoJob)
        /\ UNCHANGED <<store, disk, failures, live, calls, proofs, minted, now>>

\* A provisioning record that cannot be destroyed ends the start.
RecoveryFails ==
    /\ step = "next" /\ job.origin = "recovery"
    /\ job.result # "ok"
    /\ Down
    /\ UNCHANGED crashes

\* The operator restarts a suspended Agent.
Restart == /\ mode = "serving" /\ step = "idle" /\ suspended
           /\ Down
           /\ UNCHANGED crashes

Crash == /\ mode # "down"
         /\ crashes < MaxCrashes
         /\ crashes' = crashes + 1
         /\ Down

Tick == /\ now < MaxTime
        /\ now' = now + 1
        /\ UNCHANGED <<storeVars, mode, suspended, step, job, todo, live, calls,
                       proofs, minted, crashes>>

RequestNext == \/ RefuseRequest \/ InsertEnvironment \/ ProviderCreate
               \/ JournalVolume \/ ActivateEnvironment \/ ProviderLifecycle
               \/ UpdateEnvironment \/ RepeatProof \/ BeginDestroy

DestroyNext == ProviderDestroys \/ ProviderDestroyFails \/ CommitDeletion
               \/ AppendActivity

MaintenanceNext == MaintenanceTick \/ NextDestroy \/ SweepEnds \/ Start
                   \/ RecoverySucceeds \/ RecoveryFails

Next == \/ \E n \in 1..MaxSequence, command \in Commands, x \in Silos :
              ClaimRequest(n, command, x)
        \/ ReplayRefused
        \/ RequestNext
        \/ DestroyNext
        \/ MaintenanceNext
        \/ Restart
        \/ Crash
        \/ Tick

Spec == Init /\ [][Next]_vars

\* The single service thread never stops on its own, the operator restarts an
\* Agent that is down or suspended, and a provider that is asked again and again
\* to destroy something does it in the end.
FairSpec == /\ Spec
            /\ WF_vars(RequestNext) /\ WF_vars(DestroyNext)
            /\ WF_vars(MaintenanceNext) /\ WF_vars(Restart)
            /\ SF_vars(ProviderDestroys)
-----------------------------------------------------------------------------
(* Properties *)

\* "The resource is never untracked": whatever fails and whenever the process
\* dies, a resource the provider holds has a record on disk that says so
\* (create, destroy_record, agent.rs).
NoUntrackedResource ==
    \A x \in live : disk.env[x].state \in Kept

\* A proof the client was given is the one the state file holds, so repeating
\* destroy, before or after a crash, gives the identical proof
\* (execute_authorized, commit_deletion).
ReturnedProofIsDurable ==
    \A p \in proofs : /\ disk.env[p[1]].state = "Deleted"
                      /\ disk.env[p[1]].proof = p[2]

\* The provider is asked to create a Silo's environment once, whatever the client
\* repeats and however often the Agent restarts (insert_environment).
CreatedOnce == \A x \in Silos : calls[x] <= 1

\* The Agent starts serving only after recovery destroyed every environment
\* whose creation was interrupted (EnvironmentState::Provisioning, AgentCore::new).
ServesRecovered ==
    [][mode # "serving" /\ mode' = "serving" =>
          \A x \in Silos : disk'.env[x].state # "Provisioning"]_vars

\* A provider resource goes only while its creation is incomplete, after it
\* expired, or because the client asked: never because a commit was in doubt
\* (the activation commit of create).
DestroysOnlyDoomed ==
    [][\A x \in live \ live' :
          \/ disk.env[x].state = "Provisioning"
          \/ disk.env[x].expires <= job.at
          \/ job.origin = "request" /\ job.command = "destroy"]_vars

Overdue(x) == x \in live /\ disk.env[x].expires <= now

-----------------------------------------------------------------------------
(* The inductive invariant *)

\* Memory and disk agree while the store works, and a request starts only then.
MemoryIsDisk == /\ mode # "down" /\ ~poisoned => store = disk
                /\ step = "dispatch" => ~poisoned

\* A poisoned store is noticed before the next job begins.
PoisonSuspends ==
    /\ mode = "down" => ~poisoned
    /\ poisoned => \/ step \notin {"idle", "next"}
                   \/ suspended
                   \/ step = "next" /\ job.origin = "recovery" /\ job.result # "ok"

\* Where each job stands, and what the disk already says about its record.
JobOnDisk ==
    /\ IF step = "idle" THEN job = NoJob ELSE mode # "down"
    /\ step \notin {"idle", "next"} => job.silo \in Silos
    /\ step \in {"dispatch", "provision", "journal", "activate", "update"} =>
          job.origin = "request"
    /\ step \in {"provision", "journal", "activate"} =>
          /\ ~poisoned
          /\ disk.env[job.silo].state = "Provisioning"
          /\ job.record.state = "Provisioning"
          /\ job.command = "create"
    /\ step = "activate" => job.record.volume = "attested"
    /\ step = "update" => /\ disk.env[job.silo].state \in Kept
                          /\ job.record.state \in Active
                          /\ job.command # "destroy"
    /\ step \in {"destroy", "deletion"} => /\ disk.env[job.silo].state \in Kept
                                          /\ job.silo \notin todo
    /\ step = "deletion" => job.silo \notin live
    /\ step = "activity" => job.origin # "recovery"

\* What a sweep or a recovery still has to visit exists and is not deleted.
TodoOnDisk ==
    /\ \A x \in todo : store.env[x].state \in Kept /\ disk.env[x].state \in Kept
    /\ job.origin \notin {"sweep", "recovery"} => todo = {}

\* What recovery has left behind is no longer provisioning.
RecoveryOnDisk ==
    job.origin = "recovery" =>
        \A x \in Silos :
            disk.env[x].state = "Provisioning" =>
                \/ x \in todo
                \/ x = job.silo /\ (step \in {"destroy", "deletion"}
                                    \/ job.result # "ok")

\* The proof about to be returned is on disk.
ProofOnDisk ==
    /\ step = "activity" /\ job.origin = "request"
    /\ job.command = "destroy" /\ job.result = "ok"
    => disk.env[job.silo].state = "Deleted" /\ disk.env[job.silo].proof = job.record.proof

CreatesOnDisk == /\ \A x \in Silos : calls[x] > 0 => disk.env[x].state # "Absent"
                 /\ step = "provision" => calls[job.silo] = 0

\* All of this holds at every step, whatever fails (AgentCore and
\* DurableAgentStore: the intent precedes the provider, the receipt precedes the
\* deletion, and a poisoned store changes nothing).
IInv == /\ TypeOK
        /\ MemoryIsDisk
        /\ PoisonSuspends
        /\ JobOnDisk
        /\ TodoOnDisk
        /\ RecoveryOnDisk
        /\ ProofOnDisk
        /\ CreatesOnDisk
        /\ NoUntrackedResource
        /\ ReturnedProofIsDurable
        /\ CreatedOnce
-----------------------------------------------------------------------------
(* Liveness, and what the service says of itself *)

\* The TTL is a real bound: an expired resource is destroyed in the end, through
\* provider failures, crashes and store errors (sweep_expired, maintenance_tick).
ExpiredIsDestroyed == \A x \in Silos : Overdue(x) ~> (x \notin live)
=============================================================================
