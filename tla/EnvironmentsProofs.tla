------------------------- MODULE EnvironmentsProofs -------------------------
(***************************************************************************)
(* Proofs about the keepers of what runs outside the desktop, for any      *)
(* constants.                                                              *)
(*                                                                         *)
(* AgentCore: the invariant says at each point of a job what the state     *)
(* file already holds about its record, which is what makes a crash        *)
(* harmless: one lemma per action shows that its write, or its failure to  *)
(* write, leaves the file able to account for every resource.              *)
(*                                                                         *)
(* RemoteClient: the state in memory, the one on disk and the one that the *)
(* command in progress means to save are all sound and lag behind the Agent*)
(* by no more than the saves that failed, and a credential is in use only  *)
(* after the Agent redeemed its token, once.                               *)
(*                                                                         *)
(* SandboxGuest, HyperVGuest and, from WslGuestProofs, WslGuest: a script  *)
(* or agent that runs is the call's, and what it made is recorded or about *)
(* to be by it, as long as none outlived its call.                         *)
(***************************************************************************)
EXTENDS MCEnvironments, FiniteSetTheorems, TLAPS

-----------------------------------------------------------------------------
(* The Agent (AgentCore).                                                   *)

\* Between jobs the Agent holds a well-formed empty job.
LEMMA NoJobType == NoJob \in Job
BY CoreAssumption DEF NoJob, Job, NoRecord, Record, States, Kept, Active, Commands, Origins

\* insert_environment, update_environment and commit_deletion change one record.
LEMMA WithRecordType ==
  ASSUME store \in Store, NEW x \in Silos, NEW r \in Record
  PROVE  /\ WithRecord(x, r) \in Store
         /\ WithRecord(x, r).env[x] = r
         /\ \A y \in Silos : y # x => WithRecord(x, r).env[y] = store.env[y]
BY DEF WithRecord, Store

\* What one record write leaves behind, whether it reached the file or is in doubt:
\* only that record may differ, and an unpoisoned store agrees with its file.
LEMMA RecordWrite ==
  ASSUME TypeOK, MemoryIsDisk, mode # "down",
         NEW x \in Silos, NEW r \in Record,
         Written(WithRecord(x, r)) \/ WriteFailed(WithRecord(x, r))
  PROVE  /\ store' \in Store /\ disk' \in Store
         /\ poisoned' \in BOOLEAN /\ failures' \in Nat
         /\ \A y \in Silos : y # x => /\ store'.env[y] = store.env[y]
                                      /\ disk'.env[y] = disk.env[y]
         /\ disk'.env[x] \in {disk.env[x], r}
         /\ store'.env[x] \in {store.env[x], r}
         /\ Written(WithRecord(x, r)) => /\ ~poisoned /\ ~poisoned'
                                         /\ disk'.env[x] = r
                                         /\ store'.env[x] = r
         /\ ~poisoned' => store' = disk'
<1> DEFINE S == WithRecord(x, r)
<1>1. /\ S \in Store /\ S.env[x] = r
      /\ \A y \in Silos : y # x => S.env[y] = store.env[y]
  BY WithRecordType DEF TypeOK
<1> HIDE DEF S
<1>2. ~poisoned => store = disk
  BY DEF MemoryIsDisk
<1>3. CASE Written(S)
  BY <1>1, <1>2, <1>3 DEF Written, TypeOK, S
<1>4. CASE WriteFailed(S) /\ ~Written(S)
  <2>1. /\ store' = store
        /\ ~Written(WithRecord(x, r))
    BY <1>4 DEF WriteFailed, storeVars, S
  <2>2. CASE UNCHANGED storeVars
    BY <1>1, <1>2, <2>1, <2>2 DEF TypeOK, storeVars
  <2>3. failures' \in Nat
    BY <1>4 DEF WriteFailed, storeVars, TypeOK
  <2>4. poisoned' \in BOOLEAN
    BY <1>4, Zenon DEF WriteFailed, storeVars, TypeOK
  <2>5. CASE ~poisoned /\ poisoned' /\ disk' \in {disk, S}
    <3>1. ~poisoned' => store' = disk'
      BY <2>5, Zenon
    <3>2. /\ store' \in Store /\ disk' \in Store
          /\ \A y \in Silos : y # x => /\ store'.env[y] = store.env[y]
                                       /\ disk'.env[y] = disk.env[y]
          /\ disk'.env[x] \in {disk.env[x], r}
          /\ store'.env[x] = store.env[x]
      BY <1>1, <1>2, <2>1, <2>5 DEF TypeOK
    <3> QED BY <2>1, <2>3, <2>4, <3>1, <3>2, Zenon
  <2> QED BY <1>4, <2>2, <2>5 DEF WriteFailed
<1> QED BY <1>3, <1>4 DEF S

\* A write that changes no record (claim_request, append_activity) leaves none in
\* doubt, even when it fails.
LEMMA SameEnvWrite ==
  ASSUME TypeOK, MemoryIsDisk, mode # "down",
         NEW s \in Store, s.env = store.env, Written(s) \/ WriteFailed(s)
  PROVE  /\ store' \in Store /\ disk' \in Store
         /\ poisoned' \in BOOLEAN /\ failures' \in Nat
         /\ store'.env = store.env /\ disk'.env = disk.env
         /\ Written(s) => ~poisoned /\ ~poisoned'
         /\ ~poisoned' => store' = disk'
<1>1. ~poisoned => store = disk
  BY DEF MemoryIsDisk
<1>2. CASE Written(s)
  BY <1>1, <1>2 DEF Written, TypeOK
<1>3. CASE WriteFailed(s) /\ ~Written(s)
  <2>1. failures' \in Nat
    BY <1>3 DEF WriteFailed, storeVars, TypeOK
  <2>2. poisoned' \in BOOLEAN
    BY <1>3, Zenon DEF WriteFailed, storeVars, TypeOK
  <2>3. CASE UNCHANGED storeVars
    BY <1>1, <1>3, <2>1, <2>2, <2>3 DEF TypeOK, storeVars
  <2>4. CASE ~poisoned /\ poisoned' /\ disk' \in {disk, s} /\ store' = store
    <3>1. ~poisoned' => store' = disk'
      BY <2>4, Zenon
    <3>2. /\ store' \in Store /\ disk' \in Store
          /\ store'.env = store.env /\ disk'.env = disk.env
      BY <1>1, <2>4 DEF TypeOK
    <3> QED BY <1>3, <2>1, <2>2, <3>1, <3>2, Zenon
  <2> QED BY <1>3, <2>3, <2>4 DEF WriteFailed
<1> QED BY <1>2, <1>3

\* A step that writes nothing, calls no create and returns no proof keeps what
\* is said of resources and proofs.
LEMMA QuietStep ==
  ASSUME IInv, UNCHANGED <<storeVars, calls, proofs>>, live' \subseteq live,
         step' # "provision"
  PROVE  CreatesOnDisk' /\ NoUntrackedResource' /\ ReturnedProofIsDurable' /\ CreatedOnce'
BY DEF IInv, storeVars, CreatesOnDisk, NoUntrackedResource, ReturnedProofIsDurable,
   CreatedOnce

\* Stopping the process, orderly or not, keeps the invariant: everything it says
\* of resources is about the file.
LEMMA DownStep == ASSUME IInv, Down, crashes' \in Nat PROVE IInv'
<1>1. /\ job' = NoJob /\ step' = "idle" /\ mode' = "down" /\ todo' = {}
      /\ poisoned' = FALSE /\ suspended' = FALSE
      /\ UNCHANGED <<store, disk, failures, live, calls, proofs, minted, now>>
  BY DEF Down, Goto
<1>2. TypeOK'
  <2>1. failures' \in Nat /\ minted' \in Nat /\ now' \in Nat
    BY <1>1 DEF IInv, TypeOK
  <2> QED BY <1>1, <2>1, NoJobType DEF IInv, TypeOK, Steps
<1>3. MemoryIsDisk' /\ PoisonSuspends' /\ JobOnDisk' /\ TodoOnDisk'
  BY <1>1 DEF MemoryIsDisk, PoisonSuspends, JobOnDisk, TodoOnDisk
<1>4. RecoveryOnDisk' /\ ProofOnDisk'
  BY <1>1 DEF RecoveryOnDisk, ProofOnDisk, NoJob
<1>5. CreatesOnDisk' /\ NoUntrackedResource' /\ ReturnedProofIsDurable' /\ CreatedOnce'
  BY <1>1 DEF IInv, CreatesOnDisk, NoUntrackedResource, ReturnedProofIsDurable, CreatedOnce
<1> QED BY <1>2, <1>3, <1>4, <1>5 DEF IInv

\* claim_request keeps the invariant.
LEMMA ClaimRequestStep ==
  ASSUME IInv, NEW n \in Nat, NEW command \in Commands, NEW x \in Silos,
         ClaimRequest(n, command, x)
  PROVE  IInv'
<1> DEFINE claimed == [store EXCEPT !.claimed = n]
           next == [NoJob EXCEPT !.origin = "request", !.command = command,
                                 !.silo = x, !.at = now]
<1>1. /\ claimed \in Store /\ claimed.env = store.env
      /\ mode = "serving" /\ step = "idle" /\ ~suspended /\ ~poisoned
  BY DEF IInv, TypeOK, ClaimRequest, Store, PoisonSuspends
<1>2. next \in Job /\ next.origin = "request" /\ next.silo = x
  BY NoJobType DEF IInv, TypeOK, Job, NoJob, Origins
<1>3. /\ \/ Written(claimed) /\ step' = "dispatch" /\ job' = next /\ suspended' = suspended
         \/ WriteFailed(claimed) /\ step' = step /\ job' = job /\ suspended' = TRUE
      /\ UNCHANGED <<mode, todo, live, calls, proofs, minted, worldVars>>
  BY DEF ClaimRequest, Goto
<1> HIDE DEF claimed, next
<1>4. /\ store' \in Store /\ disk' \in Store
      /\ poisoned' \in BOOLEAN /\ failures' \in Nat
      /\ store'.env = store.env /\ disk'.env = disk.env
      /\ Written(claimed) => ~poisoned'
      /\ ~poisoned' => store' = disk'
  BY <1>1, <1>3, SameEnvWrite DEF IInv
<1>5. suspended' \in BOOLEAN
  BY <1>3, Zenon DEF IInv, TypeOK
<1>6. TypeOK'
  BY <1>2, <1>3, <1>4, <1>5 DEF IInv, TypeOK, Steps, worldVars
<1>7. MemoryIsDisk' /\ PoisonSuspends'
  BY <1>1, <1>3, <1>4 DEF MemoryIsDisk, PoisonSuspends
<1>8. todo = {}
  BY <1>1 DEF IInv, JobOnDisk, TodoOnDisk, NoJob
<1>9. JobOnDisk' /\ TodoOnDisk' /\ RecoveryOnDisk' /\ ProofOnDisk'
  BY <1>1, <1>2, <1>3, <1>4, <1>8 DEF IInv, JobOnDisk, TodoOnDisk, RecoveryOnDisk,
     ProofOnDisk
<1>10. /\ CreatesOnDisk' /\ CreatedOnce'
       /\ NoUntrackedResource' /\ ReturnedProofIsDurable'
  BY <1>1, <1>3, <1>4 DEF IInv, CreatesOnDisk, CreatedOnce, NoUntrackedResource,
     ReturnedProofIsDurable
<1> QED BY <1>6, <1>7, <1>9, <1>10 DEF IInv

\* create writes its intent before anything exists.
LEMMA InsertEnvironmentStep == ASSUME IInv, InsertEnvironment PROVE IInv'
<1> DEFINE intent == [state |-> "Provisioning", volume |-> "none",
                      expires |-> job.at + Ttl, proof |-> NoProof]
           S == WithRecord(job.silo, intent)
<1>1. /\ job \in Job /\ job.silo \in Silos /\ intent \in Record
      /\ mode # "down" /\ ~poisoned /\ job.origin = "request"
      /\ store.env[job.silo].state = "Absent"
      /\ disk.env[job.silo].state = "Absent"
  BY CoreAssumption DEF IInv, TypeOK, JobOnDisk, MemoryIsDisk, InsertEnvironment,
     Dispatched, Known, Record, Job, States, Kept, Active
<1>2. /\ intent.state = "Provisioning"
      /\ \/ Written(S) /\ Goto("provision", [job EXCEPT !.record = intent])
         \/ WriteFailed(S) /\ Finish("store_error")
      /\ UNCHANGED <<mode, suspended, todo, live, calls, proofs, minted, worldVars>>
      /\ job.command = "create"
  BY DEF InsertEnvironment, Dispatched
<1>3. /\ job' \in Job
      /\ job'.silo = job.silo /\ job'.origin = job.origin /\ job'.command = "create"
      /\ \/ Written(S) /\ step' = "provision" /\ job'.record.state = "Provisioning"
         \/ step' = "activity" /\ job'.result = "store_error"
  BY <1>1, <1>2 DEF Goto, Finish, Job
<1> HIDE DEF intent, S
<1>4. /\ store' \in Store /\ disk' \in Store
      /\ poisoned' \in BOOLEAN /\ failures' \in Nat
      /\ \A y \in Silos : y # job.silo => /\ store'.env[y] = store.env[y]
                                          /\ disk'.env[y] = disk.env[y]
      /\ disk'.env[job.silo] \in {disk.env[job.silo], intent}
      /\ store'.env[job.silo] \in {store.env[job.silo], intent}
      /\ Written(S) => ~poisoned' /\ disk'.env[job.silo] = intent
      /\ ~poisoned' => store' = disk'
  BY <1>1, <1>2, RecordWrite DEF IInv, S
<1>5. TypeOK'
  BY <1>2, <1>3, <1>4 DEF IInv, TypeOK, Steps, worldVars
<1>6. MemoryIsDisk' /\ PoisonSuspends'
  BY <1>1, <1>2, <1>3, <1>4 DEF MemoryIsDisk, PoisonSuspends
<1>7. JobOnDisk'
  BY <1>1, <1>2, <1>3, <1>4 DEF JobOnDisk
<1>8. TodoOnDisk'
  BY <1>1, <1>2, <1>3, <1>4 DEF IInv, TypeOK, TodoOnDisk, Kept
<1>9. RecoveryOnDisk'
  BY <1>1, <1>3 DEF RecoveryOnDisk
<1>10. ProofOnDisk' /\ CreatesOnDisk' /\ CreatedOnce'
  BY <1>1, <1>2, <1>3, <1>4 DEF IInv, TypeOK, ProofOnDisk, CreatesOnDisk, CreatedOnce
<1>11. NoUntrackedResource' /\ ReturnedProofIsDurable'
  BY <1>1, <1>2, <1>4 DEF IInv, TypeOK, NoUntrackedResource, ReturnedProofIsDurable, Kept
<1> QED BY <1>5, <1>6, <1>7, <1>8, <1>9, <1>10, <1>11 DEF IInv

\* append_activity returns a proof that is already on disk.
LEMMA AppendActivityStep == ASSUME IInv, AppendActivity PROVE IInv'
<1>1. /\ store \in Store /\ job \in Job /\ job.silo \in Silos
      /\ mode # "down" /\ job.origin # "recovery" /\ step = "activity"
  BY DEF IInv, TypeOK, JobOnDisk, AppendActivity
<1>2. /\ \/ Written(store)
         \/ WriteFailed(store) /\ suspended'
      /\ \/ job.origin = "sweep" /\ step' = "next" /\ job' = job
         \/ job.origin # "sweep" /\ step' = "idle" /\ job' = NoJob
      /\ UNCHANGED <<mode, todo, live, calls, minted, worldVars>>
  BY DEF AppendActivity, Goto
<1>3. /\ store' \in Store /\ disk' \in Store
      /\ poisoned' \in BOOLEAN /\ failures' \in Nat
      /\ store'.env = store.env /\ disk'.env = disk.env
      /\ Written(store) => ~poisoned'
      /\ ~poisoned' => store' = disk'
  BY <1>1, <1>2, SameEnvWrite DEF IInv
<1>4. suspended' \in BOOLEAN
  BY Zenon DEF IInv, TypeOK, AppendActivity
<1>5. \/ proofs' = proofs
      \/ /\ proofs' = proofs \cup {<<job.silo, job.record.proof>>}
         /\ job.origin = "request" /\ job.command = "destroy" /\ job.result = "ok"
  BY Zenon DEF AppendActivity
<1>6. job.record.proof \in Nat \cup {NoProof}
  BY <1>1 DEF Job, Record
<1>7. TypeOK'
  BY <1>1, <1>2, <1>3, <1>4, <1>5, <1>6, NoJobType DEF IInv, TypeOK, Steps, worldVars
<1>8. MemoryIsDisk' /\ PoisonSuspends'
  BY <1>1, <1>2, <1>3 DEF MemoryIsDisk, PoisonSuspends
<1>9. JobOnDisk' /\ TodoOnDisk' /\ RecoveryOnDisk' /\ ProofOnDisk'
  BY <1>1, <1>2, <1>3 DEF IInv, JobOnDisk, TodoOnDisk, RecoveryOnDisk, ProofOnDisk, NoJob
<1>10. CreatesOnDisk' /\ CreatedOnce' /\ NoUntrackedResource'
  BY <1>2, <1>3 DEF IInv, CreatesOnDisk, CreatedOnce, NoUntrackedResource
<1>11. ReturnedProofIsDurable'
  BY <1>1, <1>3, <1>5 DEF IInv, ReturnedProofIsDurable, ProofOnDisk
<1> QED BY <1>7, <1>8, <1>9, <1>10, <1>11 DEF IInv

\* A dispatched request that reads the record and writes nothing.
LEMMA DispatchStep ==
  ASSUME IInv, step = "dispatch", step' \in {"update", "destroy", "activity"},
         job' \in Job, job'.silo = job.silo, job'.origin = job.origin,
         job'.command = job.command,
         step' = "update" => /\ store.env[job.silo].state \in Kept
                             /\ job'.record.state \in Active
                             /\ job.command # "destroy",
         step' = "destroy" => store.env[job.silo].state \in Kept,
         step' = "activity" => \/ job'.result # "ok"
                               \/ /\ store.env[job.silo].state = "Deleted"
                                  /\ job'.record = store.env[job.silo],
         UNCHANGED <<storeVars, mode, suspended, todo, live, calls, proofs,
                     minted, worldVars>>
  PROVE  IInv'
<1>1. /\ store = disk /\ ~poisoned /\ mode # "down"
      /\ job.origin = "request" /\ job.silo \in Silos /\ todo = {}
  BY DEF IInv, MemoryIsDisk, JobOnDisk, TodoOnDisk
<1>2. /\ store' = store /\ disk' = disk /\ poisoned' = poisoned /\ todo' = todo
      /\ mode' = mode
  BY DEF storeVars
<1>3. TypeOK'
  BY DEF IInv, TypeOK, storeVars, worldVars, Steps
<1>4. MemoryIsDisk' /\ PoisonSuspends' /\ TodoOnDisk' /\ RecoveryOnDisk'
  BY <1>1, <1>2 DEF MemoryIsDisk, PoisonSuspends, TodoOnDisk, RecoveryOnDisk
<1>5. JobOnDisk' /\ ProofOnDisk'
  BY <1>1, <1>2 DEF JobOnDisk, ProofOnDisk
<1>6. CreatesOnDisk' /\ NoUntrackedResource' /\ ReturnedProofIsDurable' /\ CreatedOnce'
  BY QuietStep
<1> QED BY <1>3, <1>4, <1>5, <1>6 DEF IInv

\* Refusals, provider lifecycle calls, repeated proofs and the start of a destroy.
LEMMA RequestStep ==
  ASSUME IInv, RefuseRequest \/ ProviderLifecycle \/ RepeatProof \/ BeginDestroy
  PROVE  IInv'
<1>1. /\ step = "dispatch" /\ job \in Job /\ job.silo \in Silos
      /\ job.origin = "request"
      /\ store.env[job.silo] \in Record
      /\ UNCHANGED <<storeVars, mode, suspended, todo, live, calls, proofs,
                     minted, worldVars>>
  <2>1. step = "dispatch" /\ UNCHANGED <<storeVars, mode, suspended, todo, live, calls, proofs,
                     minted, worldVars>>
    BY DEF RefuseRequest, ProviderLifecycle, RepeatProof, BeginDestroy, Dispatched
  <2> QED BY <2>1 DEF IInv, TypeOK, JobOnDisk, Store
<1>2. CASE RefuseRequest
  <2>1. step' = "activity" /\ job' = [job EXCEPT !.result = "error"]
    BY <1>1, <1>2 DEF RefuseRequest, Finish, Goto
  <2> QED BY <1>1, <2>1, DispatchStep DEF Job
<1>3. CASE ProviderLifecycle
  <2>1. store.env[job.silo].state \in Active /\ job.command # "destroy"
    BY <1>3 DEF ProviderLifecycle, Usable, Dispatched
  <2>2. CASE Goto("update", [job EXCEPT !.record = store.env[job.silo]])
    BY <1>1, <2>1, <2>2, DispatchStep DEF Job, Goto, Kept
  <2>3. CASE Finish("error")
    BY <1>1, <2>3, DispatchStep DEF Job, Goto, Finish
  <2> QED BY <1>3, <2>2, <2>3 DEF ProviderLifecycle
<1>4. CASE RepeatProof
  BY <1>1, <1>4, DispatchStep DEF Job, Goto, RepeatProof
<1>5. CASE BeginDestroy
  BY <1>1, <1>5, DispatchStep DEF Job, Goto, BeginDestroy, Usable, Kept
<1> QED BY <1>2, <1>3, <1>4, <1>5

\* The provider allocates only what the intent on disk accounts for.
LEMMA ProviderCreateStep == ASSUME IInv, ProviderCreate PROVE IInv'
<1>1. /\ job \in Job /\ job.silo \in Silos /\ mode # "down" /\ ~poisoned
      /\ job.origin = "request" /\ job.command = "create"
      /\ job.record.state = "Provisioning"
      /\ disk.env[job.silo].state = "Provisioning"
      /\ calls[job.silo] = 0 /\ calls \in [Silos -> Nat] /\ todo = {}
  BY DEF IInv, TypeOK, JobOnDisk, TodoOnDisk, CreatesOnDisk, ProviderCreate
<1>2. /\ job' \in Job /\ job'.silo = job.silo /\ job'.origin = "request"
      /\ job'.command = "create" /\ job'.record.state = "Provisioning"
      /\ step' \in {"journal", "destroy"}
      /\ live' \subseteq live \cup {job.silo}
      /\ calls' = [calls EXCEPT ![job.silo] = @ + 1]
      /\ UNCHANGED <<storeVars, mode, suspended, todo, proofs, minted, worldVars>>
  BY <1>1 DEF ProviderCreate, Compensate, Goto, Job, Record
<1>3. /\ calls' \in [Silos -> Nat] /\ calls'[job.silo] = 1
      /\ \A x \in Silos : x # job.silo => calls'[x] = calls[x]
  BY <1>1, <1>2
<1>4. TypeOK'
  BY <1>1, <1>2, <1>3 DEF IInv, TypeOK, storeVars, worldVars, Steps
<1>5. MemoryIsDisk' /\ PoisonSuspends' /\ TodoOnDisk' /\ RecoveryOnDisk' /\ ProofOnDisk'
  BY <1>1, <1>2 DEF IInv, storeVars, MemoryIsDisk, PoisonSuspends, TodoOnDisk,
     RecoveryOnDisk, ProofOnDisk
<1>6. JobOnDisk'
  BY <1>1, <1>2 DEF storeVars, JobOnDisk, Kept
<1>7. /\ CreatesOnDisk' /\ CreatedOnce'
      /\ NoUntrackedResource' /\ ReturnedProofIsDurable'
  BY <1>1, <1>2, <1>3 DEF IInv, storeVars, CreatesOnDisk, CreatedOnce,
     NoUntrackedResource, ReturnedProofIsDurable, Kept
<1> QED BY <1>4, <1>5, <1>6, <1>7 DEF IInv

\* Journalling the volume, certain or in doubt, leaves a provisioning record.
LEMMA JournalVolumeStep == ASSUME IInv, JournalVolume PROVE IInv'
<1> DEFINE S == WithRecord(job.silo, job.record)
<1>1. /\ job \in Job /\ job.silo \in Silos /\ job.record \in Record
      /\ mode # "down" /\ job.origin = "request" /\ job.command = "create"
      /\ job.record.state = "Provisioning"
      /\ disk.env[job.silo].state = "Provisioning"
      /\ todo = {}
  BY DEF IInv, TypeOK, JobOnDisk, TodoOnDisk, JournalVolume, Job
<1>2. /\ Written(S) \/ WriteFailed(S)
      /\ job' = job
      /\ step' \in {"activate", "destroy"}
      /\ step' = "activate" => Written(S) /\ job.record.volume = "attested"
      /\ UNCHANGED <<mode, suspended, todo, live, calls, proofs, minted, worldVars>>
  BY DEF JournalVolume, Goto, Compensate
<1> HIDE DEF S
<1>3. /\ store' \in Store /\ disk' \in Store
      /\ poisoned' \in BOOLEAN /\ failures' \in Nat
      /\ \A y \in Silos : y # job.silo => disk'.env[y] = disk.env[y]
      /\ disk'.env[job.silo].state = "Provisioning"
      /\ Written(S) => ~poisoned'
      /\ ~poisoned' => store' = disk'
  BY <1>1, <1>2, RecordWrite DEF IInv, S
<1>4. TypeOK'
  BY <1>2, <1>3 DEF IInv, TypeOK, Steps, worldVars
<1>5. MemoryIsDisk' /\ PoisonSuspends' /\ JobOnDisk' /\ TodoOnDisk'
  BY <1>1, <1>2, <1>3 DEF MemoryIsDisk, PoisonSuspends, JobOnDisk, TodoOnDisk, Kept
<1>6. RecoveryOnDisk' /\ ProofOnDisk'
  BY <1>1, <1>2 DEF RecoveryOnDisk, ProofOnDisk
<1>7. /\ CreatesOnDisk' /\ CreatedOnce'
      /\ NoUntrackedResource' /\ ReturnedProofIsDurable'
  BY <1>1, <1>2, <1>3 DEF IInv, TypeOK, CreatesOnDisk, CreatedOnce,
     NoUntrackedResource, ReturnedProofIsDurable, Kept
<1> QED BY <1>4, <1>5, <1>6, <1>7 DEF IInv

\* An activation in doubt is kept, not compensated.
LEMMA ActivateEnvironmentStep == ASSUME IInv, ActivateEnvironment PROVE IInv'
<1> DEFINE created == [job.record EXCEPT !.state = "Created"]
           S == WithRecord(job.silo, created)
<1>1. /\ job \in Job /\ job.silo \in Silos
      /\ created \in Record /\ created.state = "Created"
      /\ mode # "down" /\ job.origin = "request" /\ job.command = "create"
      /\ disk.env[job.silo].state = "Provisioning"
      /\ todo = {}
  BY DEF IInv, TypeOK, JobOnDisk, TodoOnDisk, ActivateEnvironment, Job, Record,
     States, Kept, Active
<1>2. /\ Written(S) \/ WriteFailed(S)
      /\ step' = "activity"
      /\ job' \in Job /\ job'.silo = job.silo
      /\ job'.origin = "request" /\ job'.command = "create"
      /\ UNCHANGED <<mode, suspended, todo, live, calls, proofs, minted, worldVars>>
  BY <1>1 DEF ActivateEnvironment, Finish, Goto, Job
<1> HIDE DEF created, S
<1>3. /\ store' \in Store /\ disk' \in Store
      /\ poisoned' \in BOOLEAN /\ failures' \in Nat
      /\ \A y \in Silos : y # job.silo => disk'.env[y] = disk.env[y]
      /\ disk'.env[job.silo].state \in {"Provisioning", "Created"}
      /\ ~poisoned' => store' = disk'
  BY <1>1, <1>2, RecordWrite DEF IInv, S
<1>4. TypeOK'
  BY <1>2, <1>3 DEF IInv, TypeOK, Steps, worldVars
<1>5. MemoryIsDisk' /\ PoisonSuspends' /\ JobOnDisk' /\ TodoOnDisk'
  BY <1>1, <1>2, <1>3 DEF MemoryIsDisk, PoisonSuspends, JobOnDisk, TodoOnDisk
<1>6. RecoveryOnDisk' /\ ProofOnDisk'
  BY <1>2 DEF RecoveryOnDisk, ProofOnDisk
<1>7. /\ CreatesOnDisk' /\ CreatedOnce'
      /\ NoUntrackedResource' /\ ReturnedProofIsDurable'
  BY <1>1, <1>2, <1>3 DEF IInv, TypeOK, CreatesOnDisk, CreatedOnce,
     NoUntrackedResource, ReturnedProofIsDurable, Kept, Active
<1> QED BY <1>4, <1>5, <1>6, <1>7 DEF IInv

\* A lifecycle update keeps a live environment's record alive.
LEMMA UpdateEnvironmentStep == ASSUME IInv, UpdateEnvironment PROVE IInv'
<1> DEFINE updated == [job.record EXCEPT !.state = StateAfter(job.command, @)]
           S == WithRecord(job.silo, updated)
<1>1. /\ job \in Job /\ job.silo \in Silos
      /\ updated \in Record /\ updated.state \in Active
      /\ mode # "down" /\ job.origin = "request" /\ job.command # "destroy"
      /\ disk.env[job.silo].state \in Kept
      /\ todo = {}
  BY DEF IInv, TypeOK, JobOnDisk, TodoOnDisk, UpdateEnvironment, Job, Record,
     States, Kept, Active, StateAfter
<1>2. /\ Written(S) \/ WriteFailed(S)
      /\ step' = "activity"
      /\ job' \in Job /\ job'.silo = job.silo
      /\ job'.origin = "request" /\ job'.command # "destroy"
      /\ UNCHANGED <<mode, suspended, todo, live, calls, proofs, minted, worldVars>>
  BY <1>1 DEF UpdateEnvironment, Finish, Goto, Job
<1> HIDE DEF updated, S
<1>3. /\ store' \in Store /\ disk' \in Store
      /\ poisoned' \in BOOLEAN /\ failures' \in Nat
      /\ \A y \in Silos : y # job.silo => disk'.env[y] = disk.env[y]
      /\ disk'.env[job.silo].state \in Kept
      /\ ~poisoned' => store' = disk'
  BY <1>1, <1>2, RecordWrite DEF IInv, S, Kept
<1>4. TypeOK'
  BY <1>2, <1>3 DEF IInv, TypeOK, Steps, worldVars
<1>5. MemoryIsDisk' /\ PoisonSuspends' /\ JobOnDisk' /\ TodoOnDisk'
  BY <1>1, <1>2, <1>3 DEF MemoryIsDisk, PoisonSuspends, JobOnDisk, TodoOnDisk
<1>6. RecoveryOnDisk' /\ ProofOnDisk'
  BY <1>2 DEF RecoveryOnDisk, ProofOnDisk
<1>7. /\ CreatesOnDisk' /\ CreatedOnce'
      /\ NoUntrackedResource' /\ ReturnedProofIsDurable'
  BY <1>1, <1>2, <1>3 DEF IInv, TypeOK, CreatesOnDisk, CreatedOnce,
     NoUntrackedResource, ReturnedProofIsDurable, Kept, Active
<1> QED BY <1>4, <1>5, <1>6, <1>7 DEF IInv

\* The record that commit_deletion writes is well formed.
LEMMA DeletedRecord ==
  ASSUME NEW r \in Record, NEW p \in Nat
  PROVE  /\ [r EXCEPT !.state = "Deleted", !.proof = p] \in Record
         /\ [r EXCEPT !.state = "Deleted", !.proof = p].state = "Deleted"
BY DEF Record, States

\* commit_deletion follows the receipt, so no resource is live when it writes.
LEMMA CommitDeletionStep == ASSUME IInv, CommitDeletion PROVE IInv'
<1> DEFINE deleted == [job.record EXCEPT !.state = "Deleted", !.proof = minted + 1]
           S == WithRecord(job.silo, deleted)
<1>1. /\ job \in Job /\ job.silo \in Silos /\ minted + 1 \in Nat
      /\ deleted \in Record /\ deleted.state = "Deleted"
      /\ mode # "down"
      /\ disk.env[job.silo].state \in Kept
      /\ job.silo \notin todo /\ job.silo \notin live
  <2>1. /\ job \in Job /\ job.silo \in Silos /\ job.record \in Record
        /\ minted \in Nat /\ mode # "down"
        /\ disk.env[job.silo].state \in Kept
        /\ job.silo \notin todo /\ job.silo \notin live
    BY DEF IInv, TypeOK, JobOnDisk, CommitDeletion, Job
  <2>2. minted + 1 \in Nat
    BY <2>1
  <2> QED BY <2>1, <2>2, DeletedRecord
<1>2. /\ \/ Written(S)
         \/ WriteFailed(S) /\ job'.result # "ok"
      /\ step' \in {"next", "activity"}
      /\ step' = "activity" => job.origin # "recovery"
      /\ step' = "next" => job.origin = "recovery"
      /\ job' \in Job /\ job'.silo = job.silo
      /\ job'.origin = job.origin
      /\ job'.result = "ok" => job'.record = deleted
      /\ minted' = minted + 1
      /\ UNCHANGED <<mode, suspended, todo, live, calls, proofs, worldVars>>
  BY <1>1 DEF CommitDeletion, Finish, Goto, Job
<1> HIDE DEF deleted, S
<1>3. /\ store' \in Store /\ disk' \in Store
      /\ poisoned' \in BOOLEAN /\ failures' \in Nat
      /\ \A y \in Silos : y # job.silo => /\ store'.env[y] = store.env[y]
                                          /\ disk'.env[y] = disk.env[y]
      /\ disk'.env[job.silo] \in {disk.env[job.silo], deleted}
      /\ job'.result = "ok" => disk'.env[job.silo] = deleted
      /\ Written(S) => ~poisoned'
      /\ ~poisoned' => store' = disk'
  BY <1>1, <1>2, RecordWrite DEF IInv, S
<1>4. TypeOK'
  BY <1>1, <1>2, <1>3 DEF IInv, TypeOK, Steps, worldVars
<1>5. MemoryIsDisk' /\ PoisonSuspends' /\ JobOnDisk' /\ TodoOnDisk'
  BY <1>1, <1>2, <1>3 DEF IInv, TypeOK, MemoryIsDisk, PoisonSuspends, JobOnDisk,
     TodoOnDisk
<1>6. RecoveryOnDisk' /\ ProofOnDisk'
  BY <1>1, <1>2, <1>3 DEF IInv, RecoveryOnDisk, ProofOnDisk
<1>7. /\ CreatesOnDisk' /\ CreatedOnce'
      /\ NoUntrackedResource' /\ ReturnedProofIsDurable'
  BY <1>1, <1>2, <1>3 DEF IInv, TypeOK, CreatesOnDisk, CreatedOnce,
     NoUntrackedResource, ReturnedProofIsDurable, Kept, Active
<1> QED BY <1>4, <1>5, <1>6, <1>7 DEF IInv

\* A receipt, or the lack of one, keeps the invariant.
LEMMA ProviderAnswersDestroy ==
  ASSUME IInv, ProviderDestroys \/ ProviderDestroyFails
  PROVE  IInv'
<1>1. /\ step = "destroy" /\ job \in Job /\ job.silo \in Silos /\ mode # "down"
      /\ disk.env[job.silo].state \in Kept /\ job.silo \notin todo
  BY DEF IInv, TypeOK, JobOnDisk, ProviderDestroys, ProviderDestroyFails
<1>2. /\ live' \subseteq live
      /\ UNCHANGED <<storeVars, mode, suspended, todo, calls, proofs, minted, worldVars>>
  BY DEF ProviderDestroys, ProviderDestroyFails
<1>3. /\ job' \in Job /\ job'.silo = job.silo /\ job'.origin = job.origin
      /\ \/ step' = "deletion" /\ job.silo \notin live'
         \/ job.origin = "recovery" /\ step' = "next" /\ job'.result # "ok"
         \/ job.origin # "recovery" /\ step' = "activity" /\ job'.result # "ok"
  <2>1. CASE ProviderDestroys
    BY <1>1, <2>1 DEF ProviderDestroys, Goto, Job, Record
  <2>2. CASE ProviderDestroyFails
    BY <1>1, <2>2 DEF ProviderDestroyFails, Finish, Goto, Job
  <2> QED BY <2>1, <2>2
<1>4. TypeOK'
  BY <1>2, <1>3 DEF IInv, TypeOK, storeVars, worldVars, Steps
<1>5. MemoryIsDisk' /\ PoisonSuspends' /\ JobOnDisk' /\ TodoOnDisk'
  BY <1>1, <1>2, <1>3 DEF IInv, storeVars, MemoryIsDisk, PoisonSuspends, JobOnDisk,
     TodoOnDisk
<1>6. RecoveryOnDisk' /\ ProofOnDisk'
  BY <1>1, <1>2, <1>3 DEF IInv, storeVars, RecoveryOnDisk, ProofOnDisk
<1>7. CreatesOnDisk' /\ NoUntrackedResource' /\ ReturnedProofIsDurable' /\ CreatedOnce'
  BY <1>2, <1>3, QuietStep
<1> QED BY <1>4, <1>5, <1>6, <1>7 DEF IInv

\* The job of a sweep or of a recovery is well formed.
LEMMA TickType ==
  ASSUME TypeOK, NEW origin \in {"sweep", "recovery"}
  PROVE  [NoJob EXCEPT !.origin = origin, !.command = "destroy", !.at = now] \in Job
BY NoJobType DEF TypeOK, Job, Origins, Commands, NoJob

\* A sweep starts with records that memory and disk agree on.
LEMMA MaintenanceTickStep == ASSUME IInv, MaintenanceTick PROVE IInv'
<1>1. mode = "serving" /\ ~poisoned /\ store = disk
  BY DEF IInv, MaintenanceTick, PoisonSuspends, MemoryIsDisk
<1>2. /\ job' \in Job /\ job'.origin = "sweep"
      /\ step' = "next"
      /\ todo' \subseteq Silos
      /\ \A x \in todo' : store.env[x].state \in Kept
      /\ UNCHANGED <<storeVars, mode, suspended, live, calls, proofs, minted, worldVars>>
  BY TickType DEF IInv, TypeOK, MaintenanceTick, Goto, Expired, NoJob
<1>3. TypeOK'
  BY <1>2 DEF IInv, TypeOK, storeVars, worldVars, Steps
<1>4. MemoryIsDisk' /\ PoisonSuspends' /\ JobOnDisk' /\ TodoOnDisk'
  BY <1>1, <1>2 DEF MemoryIsDisk, PoisonSuspends, JobOnDisk, TodoOnDisk, storeVars
<1>5. RecoveryOnDisk' /\ ProofOnDisk'
  BY <1>2 DEF RecoveryOnDisk, ProofOnDisk
<1>6. CreatesOnDisk' /\ NoUntrackedResource' /\ ReturnedProofIsDurable' /\ CreatedOnce'
  BY <1>2, QuietStep
<1> QED BY <1>3, <1>4, <1>5, <1>6 DEF IInv

\* The next environment of a sweep or a recovery is not deleted.
LEMMA NextDestroyStep == ASSUME IInv, NextDestroy PROVE IInv'
<1>1. PICK x \in todo : /\ todo' = todo \ {x}
                        /\ Goto("destroy", [job EXCEPT !.silo = x,
                                              !.record = store.env[x], !.result = "ok"])
  BY DEF NextDestroy
<1>2. /\ x \in Silos /\ store.env[x] \in Record /\ job \in Job /\ mode # "down"
      /\ disk.env[x].state \in Kept
      /\ job.origin \in {"sweep", "recovery"}
      /\ job.origin = "recovery" => job.result = "ok"
  BY <1>1 DEF IInv, TypeOK, NextDestroy, JobOnDisk, TodoOnDisk, Store
<1>3. /\ job' \in Job /\ job'.silo = x /\ job'.origin = job.origin
      /\ step' = "destroy" /\ step = "next"
      /\ UNCHANGED <<storeVars, mode, suspended, live, calls, proofs, minted, worldVars>>
  BY <1>1, <1>2 DEF NextDestroy, Goto, Job
<1>4. TypeOK'
  BY <1>1, <1>3 DEF IInv, TypeOK, storeVars, worldVars, Steps
<1>5. MemoryIsDisk' /\ PoisonSuspends' /\ JobOnDisk' /\ TodoOnDisk'
  BY <1>1, <1>2, <1>3 DEF IInv, MemoryIsDisk, PoisonSuspends, JobOnDisk, TodoOnDisk,
     storeVars
<1>6. RecoveryOnDisk' /\ ProofOnDisk'
  BY <1>1, <1>2, <1>3 DEF IInv, RecoveryOnDisk, ProofOnDisk, storeVars
<1>7. CreatesOnDisk' /\ NoUntrackedResource' /\ ReturnedProofIsDurable' /\ CreatedOnce'
  BY <1>3, QuietStep
<1> QED BY <1>4, <1>5, <1>6, <1>7 DEF IInv

\* A sweep or a recovery that has nothing left to visit.
LEMMA PassEnds ==
  ASSUME IInv, step = "next", Goto("idle", NoJob), mode' # "down",
         mode' \in {"recovering", "serving"}, mode # "down",
         job.origin = "recovery" => job.result = "ok", todo = {},
         UNCHANGED <<storeVars, suspended, todo, live, calls, proofs, minted, worldVars>>
  PROVE  IInv'
<1>1. step' = "idle" /\ job' = NoJob
  BY DEF Goto
<1>2. TypeOK'
  BY <1>1, NoJobType DEF IInv, TypeOK, storeVars, worldVars, Steps
<1>3. MemoryIsDisk' /\ PoisonSuspends' /\ JobOnDisk' /\ TodoOnDisk'
  BY <1>1 DEF IInv, MemoryIsDisk, PoisonSuspends, JobOnDisk, TodoOnDisk, storeVars
<1>4. RecoveryOnDisk' /\ ProofOnDisk'
  BY <1>1 DEF RecoveryOnDisk, ProofOnDisk, NoJob
<1>5. CreatesOnDisk' /\ NoUntrackedResource' /\ ReturnedProofIsDurable' /\ CreatedOnce'
  BY <1>1, QuietStep
<1> QED BY <1>2, <1>3, <1>4, <1>5 DEF IInv

\* AgentCore::new puts every provisioning record on its list.
LEMMA StartStep == ASSUME IInv, Start PROVE IInv'
<1>1. /\ mode = "down" /\ ~poisoned /\ mode' = "recovering" /\ store' = disk
      /\ todo' = {x \in Silos : disk.env[x].state = "Provisioning"}
      /\ job' \in Job /\ job'.origin = "recovery" /\ step' = "next"
      /\ UNCHANGED <<disk, poisoned, failures, suspended, live, calls, proofs,
                     minted, worldVars>>
  BY TickType DEF IInv, PoisonSuspends, Start, Goto, NoJob
<1>2. TypeOK'
  BY <1>1 DEF IInv, TypeOK, worldVars, Steps
<1>3. MemoryIsDisk' /\ PoisonSuspends' /\ JobOnDisk'
  BY <1>1 DEF MemoryIsDisk, PoisonSuspends, JobOnDisk
<1>4. TodoOnDisk' /\ RecoveryOnDisk' /\ ProofOnDisk'
  BY <1>1 DEF TodoOnDisk, RecoveryOnDisk, ProofOnDisk, Kept
<1>5. /\ CreatesOnDisk' /\ CreatedOnce'
      /\ NoUntrackedResource' /\ ReturnedProofIsDurable'
  BY <1>1 DEF IInv, CreatesOnDisk, CreatedOnce, NoUntrackedResource,
     ReturnedProofIsDurable
<1> QED BY <1>2, <1>3, <1>4, <1>5 DEF IInv

\* The passing of time is not part of the invariant.
LEMMA TickStep == ASSUME IInv, Tick PROVE IInv'
<1>1. /\ UNCHANGED <<storeVars, mode, suspended, step, job, todo, live, calls,
                     proofs, minted, crashes>>
      /\ now' \in Nat
  BY DEF Tick, IInv, TypeOK
<1>2. TypeOK'
  BY <1>1 DEF IInv, TypeOK, storeVars
<1>3. MemoryIsDisk' /\ PoisonSuspends' /\ JobOnDisk' /\ TodoOnDisk' /\ RecoveryOnDisk'
  BY <1>1 DEF IInv, storeVars, MemoryIsDisk, PoisonSuspends, JobOnDisk, TodoOnDisk,
     RecoveryOnDisk
<1>4. /\ ProofOnDisk' /\ CreatesOnDisk' /\ CreatedOnce'
      /\ NoUntrackedResource' /\ ReturnedProofIsDurable'
  BY <1>1 DEF IInv, storeVars, ProofOnDisk, CreatesOnDisk, CreatedOnce,
     NoUntrackedResource, ReturnedProofIsDurable
<1> QED BY <1>2, <1>3, <1>4 DEF IInv

\* A replayed request changes nothing.
LEMMA StutterStep == ASSUME IInv, UNCHANGED vars PROVE IInv'
<1>1. TypeOK' /\ MemoryIsDisk' /\ PoisonSuspends' /\ JobOnDisk' /\ TodoOnDisk'
  BY DEF vars, IInv, TypeOK, MemoryIsDisk, PoisonSuspends, JobOnDisk, TodoOnDisk
<1>2. /\ RecoveryOnDisk' /\ ProofOnDisk' /\ CreatesOnDisk' /\ CreatedOnce'
      /\ NoUntrackedResource' /\ ReturnedProofIsDurable'
  BY DEF vars, IInv, RecoveryOnDisk, ProofOnDisk, CreatesOnDisk, CreatedOnce,
     NoUntrackedResource, ReturnedProofIsDurable
<1> QED BY <1>1, <1>2 DEF IInv

\* The invariant holds of an Agent that has never run.
LEMMA InitIInv == Init => IInv
<1> SUFFICES ASSUME Init PROVE IInv
  OBVIOUS
<1>1. NoRecord \in Record
  BY CoreAssumption DEF NoRecord, Record, States
<1>2. TypeOK
  <2>1. store \in Store /\ disk \in Store /\ calls \in [Silos -> Nat]
    BY <1>1 DEF Init, Store
  <2>2. poisoned \in BOOLEAN /\ suspended \in BOOLEAN
    BY Zenon DEF Init
  <2> QED BY <2>1, <2>2, NoJobType DEF Init, TypeOK, Steps
<1>3. MemoryIsDisk /\ PoisonSuspends /\ JobOnDisk /\ TodoOnDisk /\ RecoveryOnDisk /\ ProofOnDisk
  BY DEF Init, MemoryIsDisk, PoisonSuspends, JobOnDisk, TodoOnDisk, RecoveryOnDisk,
     ProofOnDisk, NoJob
<1>4. CreatesOnDisk /\ CreatedOnce /\ NoUntrackedResource /\ ReturnedProofIsDurable
  BY DEF Init, CreatesOnDisk, CreatedOnce, NoUntrackedResource, ReturnedProofIsDurable
<1> QED BY <1>2, <1>3, <1>4 DEF IInv

\* Sweeps and recovery keep the invariant.
LEMMA MaintenanceStep == ASSUME IInv, MaintenanceNext PROVE IInv'
<1>1. CASE SweepEnds
  BY <1>1, PassEnds DEF SweepEnds, IInv, TypeOK, JobOnDisk
<1>2. CASE RecoverySucceeds
  BY <1>2, PassEnds DEF RecoverySucceeds, IInv, TypeOK, JobOnDisk
<1>3. CASE RecoveryFails
  BY <1>3, DownStep DEF RecoveryFails, IInv, TypeOK
<1> QED BY <1>1, <1>2, <1>3, MaintenanceTickStep, NextDestroyStep, StartStep
        DEF MaintenanceNext

\* Every step keeps the invariant.
LEMMA StepIInv == IInv /\ [Next]_vars => IInv'
<1> SUFFICES ASSUME IInv, [Next]_vars PROVE IInv'
  OBVIOUS
<1>1. ASSUME NEW n \in 1..MaxSequence, NEW command \in Commands, NEW x \in Silos,
             ClaimRequest(n, command, x)
      PROVE  IInv'
  BY <1>1, CoreAssumption, ClaimRequestStep
<1>2. CASE RequestNext
  BY <1>2, RequestStep, InsertEnvironmentStep, ProviderCreateStep, JournalVolumeStep,
     ActivateEnvironmentStep, UpdateEnvironmentStep DEF RequestNext
<1>3. CASE DestroyNext
  BY <1>3, ProviderAnswersDestroy, CommitDeletionStep, AppendActivityStep
     DEF DestroyNext
<1>4. CASE MaintenanceNext
  BY <1>4, MaintenanceStep
<1>5. CASE Restart \/ Crash
  BY <1>5, DownStep DEF Restart, Crash, IInv, TypeOK
<1>6. CASE Tick
  BY <1>6, TickStep
<1>7. CASE ReplayRefused \/ UNCHANGED vars
  BY <1>7, StutterStep DEF ReplayRefused
<1> QED BY <1>1, <1>2, <1>3, <1>4, <1>5, <1>6, <1>7 DEF Next

\* IInv holds in every reachable state, for any number of Silos, crashes and
\* failed writes.
THEOREM InductiveInvariant == Spec => []IInv
BY InitIInv, StepIInv, PTL DEF Spec

\* A resource the provider holds has a provisioning or active record on disk
\* (create, destroy_record).
THEOREM NeverUntracked == Spec => []NoUntrackedResource
<1>1. IInv => NoUntrackedResource
  BY DEF IInv
<1> QED BY <1>1, InductiveInvariant, PTL

\* A deletion proof given to the client is the one on disk (commit_deletion).
THEOREM ProofsDurable == Spec => []ReturnedProofIsDurable
<1>1. IInv => ReturnedProofIsDurable
  BY DEF IInv
<1> QED BY <1>1, InductiveInvariant, PTL

\* The provider is asked to create a Silo's environment at most once
\* (insert_environment).
THEOREM CreatesOnce == Spec => []CreatedOnce
<1>1. IInv => CreatedOnce
  BY DEF IInv
<1> QED BY <1>1, InductiveInvariant, PTL

\* The Agent serves only once no record is provisioning (AgentCore::new).
THEOREM RecoversBeforeServing == Spec => ServesRecovered
<1> DEFINE Recovered == mode # "serving" /\ mode' = "serving" =>
                           \A x \in Silos : disk'.env[x].state # "Provisioning"
<1>1. IInv /\ [Next]_vars => [Recovered]_vars
  <2> SUFFICES ASSUME IInv, Next, mode # "serving", mode' = "serving"
               PROVE  \A x \in Silos : disk'.env[x].state # "Provisioning"
    BY DEF vars
  <2>1. RecoverySucceeds
    BY DEF Next, RequestNext, DestroyNext, MaintenanceNext, ClaimRequest,
       ReplayRefused, vars, RefuseRequest, InsertEnvironment, ProviderCreate,
       JournalVolume, ActivateEnvironment, ProviderLifecycle, UpdateEnvironment,
       RepeatProof, BeginDestroy, ProviderDestroys, ProviderDestroyFails,
       CommitDeletion, AppendActivity, MaintenanceTick, NextDestroy, SweepEnds,
       Start, RecoveryFails, Restart, Crash, Down, Tick
  <2> QED BY <2>1 DEF RecoverySucceeds, IInv, RecoveryOnDisk, storeVars
<1> QED BY <1>1, InductiveInvariant, PTL DEF Spec, ServesRecovered


\* What a sweep still has to visit has expired, what a recovery has to visit is
\* provisioning, and a destroy that was begun has one of the permitted reasons.
DoomedOnDisk ==
    /\ job.origin = "sweep" => \A x \in todo : disk.env[x].expires <= job.at
    /\ job.origin = "recovery" =>
          \A x \in todo : disk.env[x].state = "Provisioning"
    /\ step = "destroy" =>
          \/ disk.env[job.silo].state = "Provisioning"
          \/ disk.env[job.silo].expires <= job.at
          \/ job.origin = "request" /\ job.command = "destroy"

\* A step of a request that does not begin to destroy.
LEMMA DoomedRequest ==
  ASSUME job'.origin \notin {"sweep", "recovery"}, step' # "destroy"
  PROVE  DoomedOnDisk'
BY DEF DoomedOnDisk

\* A step that writes no record and begins no destroy.
LEMMA DoomedQuiet ==
  ASSUME IInv, DoomedOnDisk, disk'.env = disk.env, todo' = todo,
         job'.origin = job.origin, job'.at = job.at, step' # "destroy"
  PROVE  DoomedOnDisk'
BY DEF DoomedOnDisk

\* create never begins to destroy anything but its own provisioning record.
LEMMA DoomedCreate ==
  ASSUME IInv, InsertEnvironment \/ ProviderCreate \/ JournalVolume
               \/ ActivateEnvironment \/ UpdateEnvironment
  PROVE  DoomedOnDisk'
<1>1. job \in Job /\ job.origin = "request" /\ job.silo \in Silos
  BY DEF IInv, TypeOK, JobOnDisk, InsertEnvironment, Dispatched, ProviderCreate,
     JournalVolume, ActivateEnvironment, UpdateEnvironment
<1>2. CASE InsertEnvironment
  BY <1>1, <1>2, DoomedRequest DEF InsertEnvironment, Goto, Finish, Job
<1>3. CASE ProviderCreate
  <2>1. disk' = disk /\ job'.origin = "request" /\ job'.silo = job.silo
    BY <1>1, <1>3 DEF ProviderCreate, storeVars, Goto, Compensate, Job
  <2> QED BY <1>3, <2>1 DEF DoomedOnDisk, IInv, JobOnDisk, ProviderCreate
<1>4. CASE JournalVolume
  <2>1. /\ job' = job /\ job.record \in Record /\ mode # "down"
        /\ job.record.state = "Provisioning"
        /\ disk.env[job.silo].state = "Provisioning"
        /\ \/ Written(WithRecord(job.silo, job.record))
           \/ WriteFailed(WithRecord(job.silo, job.record))
    BY <1>1, <1>4 DEF JournalVolume, Goto, Compensate, Job, IInv, JobOnDisk
  <2>2. disk'.env[job.silo] \in {disk.env[job.silo], job.record}
    BY <1>1, <2>1, RecordWrite DEF IInv
  <2> QED BY <1>1, <2>1, <2>2 DEF DoomedOnDisk
<1>5. CASE ActivateEnvironment
  BY <1>1, <1>5, DoomedRequest DEF ActivateEnvironment, Goto, Finish, Job
<1>6. CASE UpdateEnvironment
  BY <1>1, <1>6, DoomedRequest DEF UpdateEnvironment, Goto, Finish, Job
<1> QED BY <1>2, <1>3, <1>4, <1>5, <1>6

\* A request begins to destroy only when that is what it asks for.
LEMMA DoomedDispatch ==
  ASSUME IInv, RefuseRequest \/ ProviderLifecycle \/ RepeatProof \/ BeginDestroy
  PROVE  DoomedOnDisk'
<1>1. job \in Job /\ job.origin = "request"
  BY DEF IInv, TypeOK, JobOnDisk, RefuseRequest, Dispatched, ProviderLifecycle,
     RepeatProof, BeginDestroy
<1>2. CASE BeginDestroy
  BY <1>1, <1>2 DEF BeginDestroy, Dispatched, Goto, Job, DoomedOnDisk
<1>3. CASE RefuseRequest \/ ProviderLifecycle \/ RepeatProof
  BY <1>1, <1>3, DoomedRequest
     DEF RefuseRequest, ProviderLifecycle, RepeatProof, Goto, Finish, Job
<1> QED BY <1>2, <1>3

\* The steps of destroy_record and the end of a job.
LEMMA DoomedDestroy ==
  ASSUME IInv, DoomedOnDisk, DestroyNext
  PROVE  DoomedOnDisk'
<1>1. /\ job \in Job /\ store \in Store /\ minted + 1 \in Nat /\ mode # "down"
      /\ job.silo \in Silos
  <2>1. job \in Job /\ store \in Store /\ minted \in Nat
    BY DEF IInv, TypeOK
  <2>2. mode # "down" /\ job.silo \in Silos
    BY DEF IInv, JobOnDisk, DestroyNext, ProviderDestroys, ProviderDestroyFails,
       CommitDeletion, AppendActivity
  <2> QED BY <2>1, <2>2
<1>2. CASE ProviderDestroys
  BY <1>1, <1>2, DoomedQuiet DEF ProviderDestroys, Goto, Job, Record, storeVars
<1>3. CASE ProviderDestroyFails
  BY <1>1, <1>3, DoomedQuiet DEF ProviderDestroyFails, Finish, Goto, Job, storeVars
<1>4. CASE CommitDeletion
  <2> DEFINE deleted == [job.record EXCEPT !.state = "Deleted", !.proof = minted + 1]
  <2>1. deleted \in Record
    BY <1>1, DeletedRecord DEF Job
  <2>2. /\ \/ Written(WithRecord(job.silo, deleted))
           \/ WriteFailed(WithRecord(job.silo, deleted))
        /\ job'.origin = job.origin /\ job'.at = job.at
        /\ step' # "destroy" /\ todo' = todo /\ step = "deletion"
    BY <1>1, <1>4 DEF CommitDeletion, Goto, Finish, Job
  <2> HIDE DEF deleted
  <2>3. \A y \in Silos : y # job.silo => disk'.env[y] = disk.env[y]
    BY <1>1, <2>1, <2>2, RecordWrite DEF IInv
  <2>4. todo \subseteq Silos /\ job.silo \notin todo
    BY <2>2 DEF IInv, TypeOK, JobOnDisk
  <2> QED BY <2>2, <2>3, <2>4 DEF DoomedOnDisk
<1>5. CASE AppendActivity
  <2>1. /\ Written(store) \/ WriteFailed(store)
        /\ \/ job' = job /\ step' = "next"
           \/ job' = NoJob /\ step' = "idle"
        /\ todo' = todo
    BY <1>5 DEF AppendActivity, Goto
  <2>2. disk'.env = disk.env
    BY <1>1, <2>1, SameEnvWrite DEF IInv
  <2> QED BY <2>1, <2>2, DoomedQuiet, DoomedRequest DEF NoJob
<1> QED BY <1>2, <1>3, <1>4, <1>5 DEF DestroyNext

\* Sweeps start from what has expired, recovery from what is provisioning.
LEMMA DoomedMaintenance ==
  ASSUME IInv, DoomedOnDisk, MaintenanceNext
  PROVE  DoomedOnDisk'
<1>1. CASE MaintenanceTick
  <2>1. store = disk /\ disk' = disk
    BY <1>1 DEF IInv, MaintenanceTick, PoisonSuspends, MemoryIsDisk, storeVars
  <2>2. /\ job'.origin = "sweep" /\ job'.at = now /\ step' = "next"
        /\ todo' = {x \in Silos : Expired(x, now)}
    BY <1>1 DEF MaintenanceTick, Goto, NoJob
  <2> QED BY <2>1, <2>2 DEF DoomedOnDisk, Expired
<1>2. CASE NextDestroy
  <2>1. PICK x \in todo : /\ todo' = todo \ {x}
                          /\ Goto("destroy", [job EXCEPT !.silo = x,
                                                !.record = store.env[x], !.result = "ok"])
    BY <1>2 DEF NextDestroy
  <2>2. /\ job'.silo = x /\ job'.origin = job.origin /\ job'.at = job.at
        /\ disk' = disk /\ job.origin \in {"sweep", "recovery"}
    BY <1>2, <2>1 DEF NextDestroy, Goto, IInv, TypeOK, Job, TodoOnDisk, storeVars
  <2> QED BY <2>1, <2>2 DEF DoomedOnDisk
<1>3. CASE Start
  BY <1>3 DEF Start, Goto, NoJob, DoomedOnDisk
<1>4. CASE SweepEnds \/ RecoverySucceeds \/ RecoveryFails
  BY <1>4, DoomedRequest DEF SweepEnds, RecoverySucceeds, RecoveryFails, Down, Goto,
     NoJob
<1> QED BY <1>1, <1>2, <1>3, <1>4 DEF MaintenanceNext

\* Every step keeps it, given the inductive invariant.
LEMMA StepDoomed == IInv /\ DoomedOnDisk /\ [Next]_vars => DoomedOnDisk'
<1> SUFFICES ASSUME IInv, DoomedOnDisk, [Next]_vars PROVE DoomedOnDisk'
  OBVIOUS
<1>1. CASE RequestNext
  BY <1>1, DoomedCreate, DoomedDispatch DEF RequestNext
<1>2. CASE DestroyNext
  BY <1>2, DoomedDestroy
<1>3. CASE MaintenanceNext
  BY <1>3, DoomedMaintenance
<1>4. CASE Restart \/ Crash
  BY <1>4, DoomedRequest DEF Restart, Crash, Down, Goto, NoJob
<1>5. CASE Tick \/ ReplayRefused \/ UNCHANGED vars
  BY <1>5 DEF Tick, ReplayRefused, vars, storeVars, DoomedOnDisk
<1>6. ASSUME NEW n \in 1..MaxSequence, NEW command \in Commands, NEW x \in Silos,
             ClaimRequest(n, command, x)
      PROVE  DoomedOnDisk'
  <2>1. step = "idle" /\ job = NoJob
    BY <1>6 DEF ClaimRequest, IInv, JobOnDisk
  <2> DEFINE next == [NoJob EXCEPT !.origin = "request", !.command = command,
                                   !.silo = x, !.at = now]
  <2>2. step' \in {"idle", "dispatch"} /\ (job' = NoJob \/ job' = next)
    BY <1>6, <2>1 DEF ClaimRequest, Goto
  <2>3. NoJob.origin = "none" /\ next.origin = "request"
    BY DEF NoJob
  <2> HIDE DEF next
  <2>4. step' # "destroy" /\ job'.origin \notin {"sweep", "recovery"}
    BY <2>2, <2>3
  <2> QED BY <2>4, DoomedRequest
<1> QED BY <1>1, <1>2, <1>3, <1>4, <1>5, <1>6 DEF Next

\* Resources go only for one of the three reasons: a commit in doubt is none of
\* them (create, destroy_record, sweep_expired).
THEOREM OnlyDoomedDestroyed == Spec => DestroysOnlyDoomed
<1> DEFINE Doomed == \A x \in live \ live' :
                        \/ disk.env[x].state = "Provisioning"
                        \/ disk.env[x].expires <= job.at
                        \/ job.origin = "request" /\ job.command = "destroy"
<1>1. Init => DoomedOnDisk
  BY DEF Init, DoomedOnDisk, NoJob
<1>2. DoomedOnDisk /\ [Next]_vars => [Doomed]_vars
  <2> SUFFICES ASSUME DoomedOnDisk, [Next]_vars, NEW x \in live \ live'
               PROVE  Doomed
    BY DEF vars
  <2>1. step = "destroy" /\ live \ live' \subseteq {job.silo}
    BY DEF Next, RequestNext, DestroyNext, MaintenanceNext, ClaimRequest,
       ReplayRefused, vars, RefuseRequest, InsertEnvironment, ProviderCreate,
       JournalVolume, ActivateEnvironment, ProviderLifecycle, UpdateEnvironment,
       RepeatProof, BeginDestroy, ProviderDestroys, ProviderDestroyFails,
       CommitDeletion, AppendActivity, MaintenanceTick, NextDestroy, SweepEnds,
       Start, RecoverySucceeds, RecoveryFails, Restart, Crash, Down, Tick
  <2> QED BY <2>1 DEF DoomedOnDisk
<1>3. Spec => []DoomedOnDisk
  BY <1>1, StepDoomed, InductiveInvariant, PTL DEF Spec
<1> QED BY <1>2, <1>3, PTL DEF Spec, DestroysOnlyDoomed

-----------------------------------------------------------------------------
(* The desktop that keeps a remote environment (RemoteClient).              *)

Authorized == {"operate", "destroy", "authorize"}
Rotating == {"authorize", "redeem"}
Redeeming == {"pair", "redeem"}

\* What a state of the Vault says of the credential is so at the Agent.
Sound(r) ==
  /\ r \in Client!RemoteStates
  /\ r.cred = None => r.revokedAt
  /\ r.cred # None => /\ agent.last[r.cred] # None
                      /\ agent.issued[r.cred] = r.pin
                      /\ r.cred \in Tokens => r.cred \in agent.redeemed
  /\ r.binding \in {None, r.pin}

\* A state that may be the Vault's next.
Current(r) ==
  /\ Sound(r)
  /\ r.cred \notin revoked
  /\ agent.live => /\ r.binding # None \/ r.receipt
                   /\ r.grant \in {None, r.cred}

\* It comes after what is in memory.
After(r, burned) ==
  /\ mem.used \subseteq r.used \cup burned
  /\ r.cred = mem.cred /\ r.cred # None => r.client >= mem.client /\ r.server >= mem.server

\* No request that the Agent has heard, or will, is ahead of its counter by more.
CaughtUp(r, slack) ==
  r.cred # None =>
    /\ agent.last[r.cred] <= r.client + faults + slack
    /\ \A m \in net : m.cred = r.cred /\ m.kind \in Authorized
                        => m.seq <= r.client + faults + slack

Slack == IF op.step \in {"waiting", "save"} /\ op.request.kind # "redeem" THEN 1 ELSE 0

\* A token that the Agent redeemed for the request in progress is used by nobody.
Fresh(t) == /\ t \in agent.redeemed /\ agent.issued[t] = op.request.pin
            /\ agent.last[t] = 0 /\ t \notin revoked /\ mem.cred # t
            /\ \A m \in net : m.cred # t

\* The command in progress.
Progress ==
  LET k == op.request.kind
      t == op.request.token
  IN /\ op.step = "idle" => op = Client!NoOp
     /\ op.step # "idle" =>
          /\ op.request # None /\ op.new # None
          /\ Current(op.new) /\ CaughtUp(op.new, 0)
          /\ After(op.new, IF op.step = "authorize" THEN {t} ELSE {})
          /\ op.request.cred \in Tokens => op.request.cred \in agent.redeemed
          /\ op.step \in {"authorize", "authorized"} => k = "authorize"
          /\ k = "authorize" => op.request.cred # None /\ presented[t] = 0
          /\ k \in Rotating => t \in mem.used
          /\ op.step = "authorize" => /\ op.new.cred = mem.cred /\ op.request.cred = mem.cred
                                      /\ op.new.client = mem.client
          /\ op.step \in {"authorize", "waiting"} /\ k \in Authorized => op.new.cred # None
          /\ op.step = "waiting" /\ k = "pair" =>
                t \in Tokens /\ op.new.cred = None /\ op.new.pin = op.request.pin
          /\ op.step = "waiting" /\ k \in Redeeming /\ op.reply = "done" => Fresh(t)
          /\ k = "destroy" /\ op.reply = "done" => ~agent.live

Network ==
  \A m \in net : /\ m.kind \in Authorized => m.cred # None
                 /\ m.kind \in Rotating \cup Redeeming => m.token \in Tokens
                 /\ m.cred \in Tokens => m.cred \in agent.redeemed

Stored ==
  /\ Client!TypeOK
  /\ Current(mem) /\ Current(vaultDisk)
  /\ backup # None => Sound(backup)
  /\ After(vaultDisk, {})
  /\ revoked \cap Tokens \subseteq agent.redeemed
  /\ \A t \in Tokens : presented[t] <= 1 /\ (presented[t] > 0 => t \in mem.used)
  /\ Network

ClientInv ==
  /\ Stored
  /\ CaughtUp(mem, Slack) /\ CaughtUp(vaultDisk, Slack)
  /\ Progress
-----------------------------------------------------------------------------
(* The Agent's side *)

\* What an answered request does to the Agent's account of a credential in use.
Answered(m) ==
  /\ agent' \in Client!Nodes
  /\ agent.redeemed \subseteq agent'.redeemed
  /\ agent'.live => agent.live
  /\ \A c \in Client!Credentials : (c \in Tokens => c \in agent.redeemed) =>
        /\ agent'.issued[c] = agent.issued[c]
        /\ \/ agent'.last[c] = agent.last[c]
           \/ m.kind \in Authorized /\ m.cred = c /\ agent'.last[c] = m.seq

\* What the command in progress learns.
Learned(m) ==
  \/ op' = op
  \/ /\ op.step = "waiting" /\ op.request = m
     /\ \E reply \in {"done", "refused"}, n \in Nat :
           op' = [op EXCEPT !.reply = reply, !.seq = n]
     /\ op'.reply = "done" /\ m.kind \in Redeeming =>
           /\ m.token \notin agent.redeemed /\ m.token \in agent'.redeemed
           /\ agent'.issued[m.token] = m.pin /\ agent'.last[m.token] = 0
     /\ op'.reply = "done" /\ m.kind = "destroy" => ~agent'.live

ClientRest == UNCHANGED <<mem, vaultDisk, backup, revoked, presented, commands, faults>>

\* A redeemed token starts a credential; no credential in use changes.
LEMMA PairsAnswer ==
  ASSUME ClientInv, NEW m \in net, Client!AgentPairs(m)
  PROVE Answered(m) /\ Learned(m) /\ net' = net \ {m} /\ ClientRest
<1>1. m \in Client!Requests /\ m.kind \in Redeeming /\ m.token \in Tokens
  BY DEF ClientInv, Stored, Client!TypeOK, Network, Client!AgentPairs, Redeeming, Rotating
<1>2. agent \in Client!Nodes /\ agent.response + 1 \in Nat /\ op \in Client!Operations
  BY DEF ClientInv, Stored, Client!TypeOK, Client!Nodes
<1>3. m.kind \notin {"operate", "destroy", "authorize"}
  BY <1>1 DEF Redeeming
<1>4. CASE m.token \notin agent.redeemed /\ (m.kind = "redeem" => m.token \in agent.claims)
  <2>1. agent' = [agent EXCEPT !.last[m.token] = 0, !.issued[m.token] = m.pin,
                               !.redeemed = @ \cup {m.token}, !.response = @ + 1]
        /\ Client!Answer(m, "done")
    BY <1>4 DEF Client!AgentPairs
  <2>2. agent' \in Client!Nodes
    BY <1>1, <1>2, <2>1 DEF Client!Nodes, Client!Requests, Client!Credentials
  <2>3. /\ agent'.redeemed = agent.redeemed \cup {m.token} /\ agent'.live = agent.live
        /\ agent'.issued = [agent.issued EXCEPT ![m.token] = m.pin]
        /\ agent'.last = [agent.last EXCEPT ![m.token] = 0]
    BY <1>2, <2>1 DEF Client!Nodes
  <2>4. Answered(m)
    BY <1>1, <1>2, <1>4, <2>2, <2>3 DEF Answered, Client!Nodes, Client!Credentials
  <2>5. agent'.issued[m.token] = m.pin /\ agent'.last[m.token] = 0
    BY <1>1, <1>2, <2>3 DEF Client!Nodes, Client!Credentials
  <2>6. Learned(m)
    BY <1>1, <1>2, <1>3, <1>4, <2>1, <2>3, <2>5
       DEF Learned, Client!Answer, Client!Operations, Client!Nodes
  <2> QED BY <2>1, <2>4, <2>6 DEF Client!Answer, Client!NotSaved, ClientRest
<1>5. CASE ~(m.token \notin agent.redeemed /\ (m.kind = "redeem" => m.token \in agent.claims))
  <2>1. agent' = [agent EXCEPT !.response = @ + 1] /\ Client!Answer(m, "refused")
    BY <1>5 DEF Client!AgentPairs
  <2>2. Answered(m)
    BY <1>2, <2>1 DEF Answered, Client!Nodes
  <2>3. Learned(m)
    BY <1>2, <2>1 DEF Learned, Client!Answer, Client!Operations, Client!Nodes
  <2> QED BY <2>1, <2>2, <2>3 DEF Client!Answer, Client!NotSaved, ClientRest
<1> QED BY <1>4, <1>5

\* A request that is accepted moves its credential's sequence to its own.
LEMMA OperatesAnswer ==
  ASSUME ClientInv, NEW m \in net, Client!AgentOperates(m)
  PROVE Answered(m) /\ Learned(m) /\ net' = net \ {m} /\ ClientRest
<1>1. m \in Client!Requests /\ m.kind \in Authorized /\ m.cred \in Client!Credentials
  BY
     DEF ClientInv, Stored, Client!TypeOK, Network, Client!AgentOperates, Authorized,
         Client!Requests
<1>2. agent \in Client!Nodes /\ agent.response + 1 \in Nat /\ op \in Client!Operations
  BY DEF ClientInv, Stored, Client!TypeOK, Client!Nodes
<1>3. m.kind \notin Redeeming
  BY <1>1 DEF Redeeming, Authorized
<1>4. CASE agent' = [agent EXCEPT !.last[m.cred] = m.seq, !.response = @ + 1,
                          !.live = @ /\ m.kind # "destroy",
                          !.claims = IF m.kind = "authorize" THEN @ \cup {m.token} ELSE @]
           /\ Client!Answer(m, "done")
  <2>1. agent'.live = (agent.live /\ m.kind # "destroy")
    BY <1>2, <1>4 DEF Client!Nodes
  <2>2. /\ agent'.redeemed = agent.redeemed /\ agent'.issued = agent.issued
        /\ agent'.last = [agent.last EXCEPT ![m.cred] = m.seq]
    BY <1>2, <1>4 DEF Client!Nodes
  <2>3. (agent.live /\ m.kind # "destroy") \in BOOLEAN
    OBVIOUS
  <2>4. agent'.live \in BOOLEAN
    BY <2>1, <2>3
  <2>5. m.kind = "authorize" => m.token \in Tokens
    BY DEF ClientInv, Stored, Network, Rotating
  <2>6. agent' \in Client!Nodes
    BY <1>1, <1>2, <1>4, <2>4, <2>5 DEF Client!Nodes, Client!Requests
  <2>7. Answered(m)
    BY <1>1, <1>2, <2>1, <2>2, <2>6 DEF Answered, Client!Nodes
  <2>8. Learned(m)
    BY <1>2, <1>3, <1>4, <2>1 DEF Learned, Client!Answer, Client!Operations, Client!Nodes
  <2> QED BY <1>4, <2>7, <2>8 DEF Client!Answer, Client!NotSaved, ClientRest
<1>5. CASE agent' = [agent EXCEPT !.last[m.cred] = m.seq, !.response = @ + 1]
           /\ Client!Answer(m, "refused")
  <2>1. agent' \in Client!Nodes
    BY <1>1, <1>2, <1>5 DEF Client!Nodes, Client!Requests
  <2>2. /\ agent'.redeemed = agent.redeemed /\ agent'.issued = agent.issued
        /\ agent'.live = agent.live
        /\ agent'.last = [agent.last EXCEPT ![m.cred] = m.seq]
    BY <1>2, <1>5 DEF Client!Nodes
  <2>3. Answered(m)
    BY <1>1, <1>2, <2>1, <2>2 DEF Answered, Client!Nodes
  <2>4. Learned(m)
    BY <1>5, <1>2 DEF Learned, Client!Answer, Client!Operations, Client!Nodes
  <2> QED BY <1>5, <2>3, <2>4 DEF Client!Answer, Client!NotSaved, ClientRest
<1>6. CASE agent' = [agent EXCEPT !.response = @ + 1] /\ Client!Answer(m, "refused")
  <2>1. Answered(m)
    BY <1>2, <1>6 DEF Answered, Client!Nodes
  <2>2. Learned(m)
    BY <1>2, <1>6 DEF Learned, Client!Answer, Client!Operations, Client!Nodes
  <2> QED BY <1>6, <2>1, <2>2 DEF Client!Answer, Client!NotSaved, ClientRest
<1> QED BY <1>4, <1>5, <1>6 DEF Client!AgentOperates

\* A state that was sound stays so: what it says of a credential in use is kept.
LEMMA AnswerKeepsSound ==
  ASSUME ClientInv, NEW m \in net, Answered(m), NEW r, Sound(r)
  PROVE Sound(r)'
<1>1. r \in Client!RemoteStates /\ agent \in Client!Nodes
  BY DEF Sound, ClientInv, Stored, Client!TypeOK
<1>2. CASE r.cred = None
  BY <1>2, <1>1 DEF Sound
<1>3. CASE r.cred # None
  <2>1. r.cred \in Client!Credentials /\ (r.cred \in Tokens => r.cred \in agent.redeemed)
    BY <1>1, <1>3 DEF Sound, Client!RemoteStates
  <2>2. agent'.issued[r.cred] = agent.issued[r.cred] /\ agent'.last[r.cred] # None
    <3>1. m \in Client!Requests
      BY DEF ClientInv, Stored, Client!TypeOK
    <3>2. m.seq # None
      BY <3>1, ClientAssumption DEF Client!Requests, Client!RemoteAssumption
    <3> QED BY <2>1, <3>2, <1>3 DEF Answered, Sound
  <2> QED BY <1>1, <1>3, <2>1, <2>2 DEF Answered, Sound
<1> QED BY <1>2, <1>3

\* A state that may be the next one stays so when the Agent answers.
LEMMA AnswerKeepsCurrent ==
  ASSUME ClientInv, NEW m \in net, Answered(m), revoked' = revoked, NEW r, Current(r)
  PROVE Current(r)'
BY AnswerKeepsSound DEF Current, Answered

\* The request that the Agent has heard was on its way before.
LEMMA AnswerKeepsCaughtUp ==
  ASSUME ClientInv, NEW m \in net, Answered(m), net' = net \ {m}, faults' = faults,
         NEW r, Sound(r), NEW n, CaughtUp(r, n)
  PROVE CaughtUp(r, n)'
<1>1. CASE r.cred = None
  BY <1>1 DEF CaughtUp
<1>2. CASE r.cred # None
  <2>1. r.cred \in Client!Credentials /\ (r.cred \in Tokens => r.cred \in agent.redeemed)
    BY <1>2 DEF Sound, Client!RemoteStates
  <2> QED BY <1>2, <2>1 DEF Answered, CaughtUp
<1> QED BY <1>1, <1>2

\* Hearing a request, or losing one, keeps the invariant.
LEMMA AnswerKeeps ==
  ASSUME ClientInv, NEW m \in net, Answered(m), Learned(m), net' = net \ {m}, ClientRest
  PROVE ClientInv' /\ mem' = mem
<1> USE DEF ClientRest
<1>1. Client!TypeOK'
  <2>1. op' \in Client!Operations
    <3>1. op \in Client!Operations
      BY DEF ClientInv, Stored, Client!TypeOK
    <3> QED BY <3>1 DEF Learned, Client!Operations
  <2> QED BY <2>1 DEF ClientInv, Stored, Client!TypeOK, Answered
<1>2. /\ op'.step = op.step /\ op'.request = op.request /\ op'.new = op.new
      /\ op'.reply # op.reply => op'.reply \in {"done", "refused"} /\ op.request = m
                                 /\ op.step = "waiting"
  <2>1. op \in Client!Operations
    BY DEF ClientInv, Stored, Client!TypeOK
  <2> QED BY <2>1 DEF Learned, Client!Operations
<1>3. Slack' = Slack
  BY <1>2 DEF Slack
<1>4. Current(mem)' /\ Current(vaultDisk)'
  BY AnswerKeepsCurrent DEF ClientInv, Stored
<1>5. (backup # None => Sound(backup))'
  BY AnswerKeepsSound DEF ClientInv, Stored
<1>6. CaughtUp(mem, Slack)' /\ CaughtUp(vaultDisk, Slack)'
  <2>1. Sound(mem) /\ Sound(vaultDisk)
    BY DEF ClientInv, Stored, Current
  <2>2. ASSUME NEW n, CaughtUp(mem, n) PROVE CaughtUp(mem, n)'
    BY <2>1, <2>2, AnswerKeepsCaughtUp
  <2>3. ASSUME NEW n, CaughtUp(vaultDisk, n) PROVE CaughtUp(vaultDisk, n)'
    BY <2>1, <2>3, AnswerKeepsCaughtUp
  <2> QED BY <2>2, <2>3, <1>3 DEF ClientInv, Stored, CaughtUp
<1>7. After(vaultDisk, {})' /\ (revoked \cap Tokens \subseteq agent.redeemed)'
      /\ (\A t \in Tokens : presented[t] <= 1 /\ (presented[t] > 0 => t \in mem.used))'
  BY DEF ClientInv, Stored, After, Answered
<1>8. Network'
  BY DEF ClientInv, Stored, Network, Answered
<1>9. CASE op.step = "idle"
  <2>1. op' = op
    BY <1>9 DEF Learned
  <2>2. Progress'
    BY <1>9, <2>1 DEF Progress, ClientInv, Stored
  <2> QED BY <1>1, <1>4, <1>5, <1>6, <1>7, <1>8, <2>2 DEF ClientInv, Stored
<1>10. CASE op.step # "idle"
  <2> DEFINE k == op.request.kind
             t == op.request.token
  <2>1. Current(op.new)' /\ CaughtUp(op.new, 0)'
    <3>1. Current(op.new) /\ CaughtUp(op.new, 0) /\ Sound(op.new)
      BY <1>10 DEF ClientInv, Stored, Progress, Current
    <3>2. \A r : Current(r) => Current(r)'
      BY AnswerKeepsCurrent
    <3>3. \A r : Sound(r) /\ CaughtUp(r, 0) => CaughtUp(r, 0)'
      BY AnswerKeepsCaughtUp
    <3>4. Current(op.new)'
      BY <3>1, <3>2, <1>2 DEF Current, Sound
    <3>5. CaughtUp(op.new, 0)'
      BY <3>1, <3>3, <1>2 DEF CaughtUp
    <3> QED BY <3>4, <3>5
  <2>2. After(op.new, IF op.step = "authorize" THEN {t} ELSE {})'
    <3>1. After(op.new, IF op.step = "authorize" THEN {t} ELSE {})
      BY <1>10 DEF ClientInv, Stored, Progress
    <3> QED BY <3>1, <1>2 DEF After
  <2>3. op.step = "waiting" /\ k \in Redeeming /\ op'.reply = "done" => Fresh(t)'
    <3> SUFFICES ASSUME op.step = "waiting", k \in Redeeming, op'.reply = "done"
                 PROVE Fresh(t)'
      OBVIOUS
    <3>0. t \in Tokens
      <4>1. k = "pair" => t \in Tokens
        BY <1>10 DEF ClientInv, Stored, Progress
      <4>2. k = "redeem" => t \in mem.used
        BY <1>10 DEF ClientInv, Stored, Progress, Rotating
      <4>3. mem.used \subseteq Tokens
        BY DEF ClientInv, Stored, Client!TypeOK, Client!RemoteStates
      <4> QED BY <4>1, <4>2, <4>3 DEF Redeeming
    <3>1. CASE op'.reply = op.reply
      <4>1. Fresh(t)
        BY <3>1, <1>10 DEF ClientInv, Stored, Progress
      <4>2. /\ agent'.issued[t] = agent.issued[t]
            /\ \/ agent'.last[t] = agent.last[t]
               \/ m.kind \in Authorized /\ m.cred = t /\ agent'.last[t] = m.seq
        BY <3>0, <4>1 DEF Fresh, Answered, Client!Credentials
      <4> QED BY <4>1, <4>2, <1>2 DEF Fresh, Answered
    <3>2. CASE op'.reply # op.reply
      <4>1. op.request = m /\ op' # op
        BY <3>2, <1>2
      <4>2. /\ m.token \notin agent.redeemed /\ m.token \in agent'.redeemed
            /\ agent'.issued[m.token] = m.pin /\ agent'.last[m.token] = 0
        BY <4>1 DEF Learned
      <4>3. t \notin revoked
        BY <4>1, <4>2, <3>0 DEF ClientInv, Stored
      <4>4. mem.cred # t
        <5>1. mem.cred # None => (mem.cred \in Tokens => mem.cred \in agent.redeemed)
          BY DEF ClientInv, Stored, Current, Sound
        <5>2. None \notin Tokens
          BY ClientAssumption DEF Client!RemoteAssumption, Client!Credentials
        <5> QED BY <4>1, <4>2, <5>1, <5>2, <3>0
      <4>5. \A x \in net : x.cred # t
        BY <4>1, <4>2, <3>0 DEF ClientInv, Stored, Network
      <4> QED BY <4>1, <4>2, <4>3, <4>4, <4>5, <1>2 DEF Fresh
    <3> QED BY <3>1, <3>2
  <2>4. k = "destroy" /\ op'.reply = "done" => ~agent'.live
    <3>1. CASE op'.reply = op.reply
      BY <3>1, <1>10 DEF ClientInv, Stored, Progress, Answered
    <3>2. CASE op'.reply # op.reply
      BY <3>2, <1>2 DEF Learned
    <3> QED BY <3>1, <3>2
  <2>5. Progress'
    <3> HIDE DEF k, t
    <3>1. agent.redeemed \subseteq agent'.redeemed
      BY DEF Answered
    <3> QED BY <1>2, <1>10, <2>1, <2>2, <2>3, <2>4, <3>1 DEF ClientInv, Stored, Progress, k, t
  <2> QED BY <1>1, <1>4, <1>5, <1>6, <1>7, <1>8, <2>5 DEF ClientInv, Stored
<1> QED BY <1>9, <1>10
-----------------------------------------------------------------------------
(* Saving and sending *)

\* What a step may do to the ledgers in memory.
Ledgers == /\ mem.used \subseteq mem'.used
           /\ mem.cred # None /\ mem'.cred = mem.cred
                => mem'.client >= mem.client /\ mem'.server >= mem.server

\* The Agent is ahead by one request at most while one is out.
LEMMA SlackIsSmall == ASSUME ClientInv PROVE Slack \in {0, 1}
BY DEF Slack

\* One more failed save is one more request that the state may lag behind.
LEMMA FaultCatchesUp ==
  ASSUME ClientInv, net' = net, agent' = agent, NEW r \in Client!RemoteStates, Sound(r),
         NEW n \in {0, 1}, CaughtUp(r, n),
         faults' = faults + 1
  PROVE CaughtUp(r, 0)'
<1>1. CASE r.cred = None
  BY <1>1 DEF CaughtUp
<1>2. CASE r.cred # None
  <2>1. r.cred \in Client!Credentials /\ r.client \in Nat /\ faults \in Nat
    BY <1>2 DEF Client!RemoteStates, ClientInv, Stored, Client!TypeOK
  <2>2. agent.last[r.cred] \in Nat
    BY <2>1, <1>2 DEF Sound, ClientInv, Stored, Client!TypeOK, Client!Nodes
  <2>3. \A m \in net : m.seq \in Nat
    BY DEF ClientInv, Stored, Client!TypeOK, Client!Requests
  <2> QED BY <1>2, <2>1, <2>2, <2>3 DEF CaughtUp
<1> QED BY <1>1, <1>2

\* Once it is saved, or lost, the state in memory and the one on disk are what they
\* have to be; a revocation is saved together with the loss of the credential.
LEMMA SaveKeeps ==
  ASSUME ClientInv, NEW new, NEW next \in Client!Operations, Client!Save(new, next),
         UNCHANGED <<net, agent, presented, backup>>, commands' \in Nat,
         Current(new), CaughtUp(new, 0), After(new, {}),
         \/ revoked' = revoked
         \/ /\ mem' = new /\ vaultDisk' = new
            /\ new.cred = None /\ mem.cred # None /\ revoked' = revoked \cup {mem.cred}
  PROVE /\ Stored' /\ CaughtUp(mem, 0)' /\ CaughtUp(vaultDisk, 0)'
        /\ Ledgers /\ op' \in {next, Client!NoOp}
        /\ op' # Client!NoOp => mem' = new
        /\ faults' \in Nat /\ faults' >= faults
<1>1. /\ new \in Client!RemoteStates /\ mem \in Client!RemoteStates
      /\ vaultDisk \in Client!RemoteStates
      /\ Sound(new) /\ Sound(mem) /\ Sound(vaultDisk)
  BY DEF Current, Sound, ClientInv, Stored
<1>2. revoked' \subseteq Client!Credentials
      /\ (revoked \cap Tokens \subseteq agent.redeemed)'
      /\ None \notin Client!Credentials
  BY <1>1, ClientAssumption
  DEF ClientInv, Stored, Client!TypeOK, Sound, Client!RemoteStates, Client!RemoteAssumption
<1>3. Client!NoOp \in Client!Operations
  BY ClientAssumption DEF Client!NoOp, Client!Operations
<1>4. \A t \in Tokens : presented[t] > 0 => t \in mem.used
  BY DEF ClientInv, Stored
<1>5. Network'
  BY DEF Network, ClientInv, Stored
<1>6. \A r : Sound(r) => Sound(r)'
  BY DEF Sound
<1>7. \A r : CaughtUp(r, 0) /\ faults' = faults => CaughtUp(r, 0)'
  BY DEF CaughtUp
<1>8. CASE /\ mem' = new /\ vaultDisk' = new /\ op' = next /\ faults' = faults
  <2>1. Current(mem)' /\ Current(vaultDisk)'
    <3>1. new.cred \notin revoked'
      BY <1>8, <1>2 DEF Current
    <3> QED BY <1>8, <3>1, <1>6 DEF Current, Sound
  <2>2. CaughtUp(mem, 0)' /\ CaughtUp(vaultDisk, 0)'
    BY <1>8, <1>7 DEF CaughtUp
  <2>3. Ledgers
    BY <1>8 DEF Ledgers, After
  <2>4. After(vaultDisk, {})'
    BY <1>8, <1>1 DEF After, Client!RemoteStates
  <2>5. (backup # None => Sound(backup))'
    BY <1>6 DEF ClientInv, Stored
  <2>6. Client!TypeOK'
    BY <1>1, <1>2, <1>8 DEF ClientInv, Stored, Client!TypeOK
  <2>7. (\A t \in Tokens : presented[t] <= 1 /\ (presented[t] > 0 => t \in mem.used))'
    BY <2>3 DEF Ledgers, ClientInv, Stored
  <2> QED BY <1>2, <1>5, <1>8, <2>1, <2>2, <2>3, <2>4, <2>5, <2>6, <2>7
          DEF Stored, ClientInv, Client!TypeOK
<1>9. CASE /\ mem' = mem /\ vaultDisk' \in {vaultDisk, new} /\ op' = Client!NoOp
           /\ faults' = faults + 1
  <2>0. revoked' = revoked
    BY <1>9, <1>1
  <2>1. Current(mem)' /\ Current(vaultDisk)'
    BY <1>9, <2>0, <1>6 DEF Current, Sound, ClientInv, Stored
  <2>2. CaughtUp(mem, 0)' /\ CaughtUp(vaultDisk, 0)'
    <3>1. \A r \in Client!RemoteStates : \A n \in {0, 1} :
             Sound(r) /\ CaughtUp(r, n) => CaughtUp(r, 0)'
      BY <1>9, FaultCatchesUp
    <3>2. CaughtUp(mem, Slack) /\ CaughtUp(vaultDisk, Slack) /\ CaughtUp(new, 0)
      BY DEF ClientInv
    <3>3. \A r \in {mem, vaultDisk, new} : CaughtUp(r, 0)'
      BY <3>1, <3>2, <1>1, SlackIsSmall
    <3> QED BY <3>3, <1>9 DEF CaughtUp
  <2>3. Ledgers
    BY <1>9, <1>1 DEF Ledgers, Client!RemoteStates
  <2>4. After(vaultDisk, {})'
    BY <1>9 DEF After, ClientInv, Stored
  <2>5. (backup # None => Sound(backup))'
    BY <1>6 DEF ClientInv, Stored
  <2>6. Client!TypeOK'
    BY <1>1, <1>2, <1>3, <1>9 DEF ClientInv, Stored, Client!TypeOK
  <2>7. (\A t \in Tokens : presented[t] <= 1 /\ (presented[t] > 0 => t \in mem.used))'
    BY <1>9 DEF ClientInv, Stored
  <2> QED BY <1>2, <1>5, <1>9, <2>0, <2>1, <2>2, <2>3, <2>4, <2>5, <2>6, <2>7
          DEF Stored, ClientInv, Client!TypeOK
<1> QED BY <1>8, <1>9 DEF Client!Save

\* A command that ends with its save.
LEMMA SaveEnds ==
  ASSUME ClientInv, NEW new, Client!Save(new, Client!NoOp),
         UNCHANGED <<net, agent, presented, backup>>, commands' \in Nat,
         Current(new), CaughtUp(new, 0), After(new, {}),
         \/ revoked' = revoked
         \/ /\ mem' = new /\ vaultDisk' = new
            /\ new.cred = None /\ mem.cred # None /\ revoked' = revoked \cup {mem.cred}
  PROVE ClientInv' /\ Ledgers
<1>1. Client!NoOp \in Client!Operations
  BY ClientAssumption DEF Client!NoOp, Client!Operations
<1>2. /\ Stored' /\ CaughtUp(mem, 0)' /\ CaughtUp(vaultDisk, 0)'
      /\ Ledgers /\ op' = Client!NoOp
  BY <1>1, SaveKeeps
<1>3. Slack' = 0
  BY <1>2 DEF Slack, Client!NoOp
<1>4. Progress'
  BY <1>2 DEF Progress, Client!NoOp
<1> QED BY <1>2, <1>3, <1>4 DEF ClientInv, CaughtUp
-----------------------------------------------------------------------------
(* Commands that save once *)

\* None is no credential and no pin.
LEMMA NoneIsNobody == None \notin Client!Credentials /\ None \notin Pins
                      /\ None \notin Client!Requests /\ None \notin Client!RemoteStates
                      /\ None # "done"
BY ClientAssumption DEF Client!RemoteAssumption

\* What is known of the state in memory.
LEMMA MemoryFacts ==
  ASSUME ClientInv
  PROVE /\ mem \in Client!RemoteStates /\ Current(mem) /\ Sound(mem) /\ CaughtUp(mem, Slack)
        /\ faults \in Nat /\ commands \in Nat /\ revoked \subseteq Client!Credentials
        /\ mem.client \in Nat /\ mem.server \in Nat
        /\ op \in Client!Operations /\ agent \in Client!Nodes
        /\ Client!Idle => Slack = 0
BY DEF ClientInv, Stored, Client!TypeOK, Current, Sound, Client!RemoteStates, Client!Idle,
       Client!NoOp, Slack

\* Commands are counted.
LEMMA CallCounts == ASSUME ClientInv, Client!Call PROVE commands' \in Nat
BY DEF ClientInv, Stored, Client!TypeOK, Client!Call

\* The desktop gives its credential up.
LEMMA RevokeKeeps ==
  ASSUME ClientInv, Client!Revoke
  PROVE ClientInv' /\ Ledgers
<1> DEFINE new == [mem EXCEPT !.cred = None, !.client = 0, !.server = 0,
                              !.revokedAt = TRUE, !.grant = None]
<1>1. /\ mem.cred # None /\ Client!Save(new, Client!NoOp) /\ Client!Call
      /\ revoked' = IF mem' # mem THEN revoked \cup {mem.cred} ELSE revoked
      /\ UNCHANGED <<backup, net, agent, presented>>
  BY DEF Client!Revoke
<1>2. /\ new \in Client!RemoteStates
      /\ new.cred = None /\ new.revokedAt /\ new.binding = mem.binding /\ new.pin = mem.pin
      /\ new.grant = None /\ new.receipt = mem.receipt /\ new.used = mem.used
  BY MemoryFacts DEF Client!RemoteStates
<1> HIDE DEF new
<1>3. Current(new) /\ CaughtUp(new, 0) /\ After(new, {})
  BY <1>2, MemoryFacts, NoneIsNobody DEF Current, Sound, CaughtUp, After
<1>4. \/ revoked' = revoked
      \/ mem' = new /\ vaultDisk' = new /\ revoked' = revoked \cup {mem.cred}
  BY <1>1 DEF Client!Save
<1> QED BY <1>1, <1>2, <1>3, <1>4, CallCounts, SaveEnds

\* A binding becomes a receipt without the Agent.
LEMMA ForceDetachKeeps ==
  ASSUME ClientInv, Client!ForceDetach
  PROVE ClientInv' /\ Ledgers
<1> DEFINE new == [mem EXCEPT !.binding = None, !.grant = None, !.receipt = TRUE]
<1>1. /\ Client!Save(new, Client!NoOp) /\ Client!Call /\ Client!Idle
      /\ UNCHANGED <<backup, net, agent, revoked, presented>>
  BY DEF Client!ForceDetach
<1>2. /\ new \in Client!RemoteStates
      /\ new.cred = mem.cred /\ new.revokedAt = mem.revokedAt /\ new.binding = None
      /\ new.pin = mem.pin /\ new.grant = None /\ new.receipt /\ new.used = mem.used
      /\ new.client = mem.client /\ new.server = mem.server
  BY MemoryFacts DEF Client!RemoteStates
<1> HIDE DEF new
<1>3. Current(new) /\ CaughtUp(new, 0) /\ After(new, {})
  BY <1>1, <1>2, MemoryFacts DEF Current, Sound, CaughtUp, After
<1> QED BY <1>1, <1>3, CallCounts, SaveEnds

\* What a restore writes: the credential in memory if there is one, the ledgers of
\* both, and the bindings of the backup.
LEMMA RestoredFacts ==
  ASSUME ClientInv, backup # None,
         mem.cred # None /\ backup.cred # None => mem.cred = backup.cred /\ mem.pin = backup.pin
  PROVE LET new == Client!Restored(backup)
        IN /\ new \in Client!RemoteStates
           /\ new.cred = mem.cred /\ new.pin = mem.pin
           /\ new.used = backup.used \cup mem.used
           /\ new.receipt = (backup.receipt \/ mem.receipt)
           /\ new.revokedAt = (backup.revokedAt \/ mem.revokedAt)
           /\ new.binding = backup.binding /\ new.grant = backup.grant
           /\ mem.cred # None => new.client >= mem.client /\ new.server >= mem.server
<1> DEFINE new == Client!Restored(backup)
           with == Client!WithLedgers(backup)
<1>1. mem.cred = None => mem.revokedAt
  BY MemoryFacts DEF Sound
<1>2. backup \in Client!RemoteStates /\ mem \in Client!RemoteStates
  BY MemoryFacts DEF ClientInv, Stored, Client!TypeOK
<1>3. (backup.receipt \/ mem.receipt) \in BOOLEAN /\ (backup.revokedAt \/ mem.revokedAt) \in BOOLEAN
  OBVIOUS
<1>4. /\ with \in Client!RemoteStates
      /\ with.used = backup.used \cup mem.used /\ with.receipt = (backup.receipt \/ mem.receipt)
      /\ with.revokedAt = (backup.revokedAt \/ mem.revokedAt)
      /\ with.binding = backup.binding /\ with.grant = backup.grant
      /\ with.cred = backup.cred /\ with.pin = backup.pin
      /\ with.client = backup.client /\ with.server = backup.server
  BY <1>2, <1>3 DEF Client!WithLedgers, Client!RemoteStates
<1>5. CASE mem.cred = None
  <2>1. new = [with EXCEPT !.pin = mem.pin, !.cred = None, !.client = 0, !.server = 0]
    BY <1>1, <1>5 DEF Client!Restored
  <2> HIDE DEF with, new
  <2> QED BY <1>2, <1>4, <1>5, <2>1 DEF Client!RemoteStates, new
<1>6. CASE mem.cred # None /\ backup.cred = mem.cred
  <2>1. new = [with EXCEPT !.client = Client!LargerOf(@, mem.client),
                           !.server = Client!LargerOf(@, mem.server)]
    BY <1>6 DEF Client!Restored
  <2>2. /\ Client!LargerOf(with.client, mem.client) \in Nat
        /\ Client!LargerOf(with.client, mem.client) >= mem.client
        /\ Client!LargerOf(with.server, mem.server) \in Nat
        /\ Client!LargerOf(with.server, mem.server) >= mem.server
    <3> HIDE DEF with
    <3> QED BY <1>2, <1>4 DEF Client!LargerOf, Client!RemoteStates
  <2> HIDE DEF with, new
  <2> QED BY <1>2, <1>4, <1>6, <2>1, <2>2 DEF Client!RemoteStates, new
<1>7. CASE mem.cred # None /\ backup.cred # mem.cred
  <2>1. new = [with EXCEPT !.pin = mem.pin, !.cred = mem.cred,
                           !.client = mem.client, !.server = mem.server]
    BY <1>7 DEF Client!Restored
  <2> HIDE DEF with, new
  <2>2. /\ new.pin = mem.pin /\ new.cred = mem.cred /\ new.client = mem.client
        /\ new.server = mem.server /\ new.used = with.used /\ new.receipt = with.receipt
        /\ new.revokedAt = with.revokedAt /\ new.binding = with.binding
        /\ new.grant = with.grant
    BY <1>4, <2>1 DEF Client!RemoteStates
  <2>3. new \in Client!RemoteStates
    <3>1. /\ mem.pin \in Pins /\ mem.cred \in Client!Credentials
          /\ mem.client \in Nat /\ mem.server \in Nat
      BY <1>2, <1>7 DEF Client!RemoteStates
    <3> QED BY <1>4, <1>7, <2>1, <2>2, <3>1 DEF Client!RemoteStates
  <2>4. mem.client \in Nat /\ mem.server \in Nat
    BY <1>2 DEF Client!RemoteStates
  <2> QED BY <1>4, <2>2, <2>3, <2>4 DEF new
<1> QED BY <1>5, <1>6, <1>7

\* A backup is restored.
LEMMA RestoreKeeps ==
  ASSUME ClientInv, Client!Restore
  PROVE ClientInv' /\ Ledgers
<1> DEFINE new == Client!Restored(backup)
<1>1. /\ Client!Save(new, Client!NoOp) /\ Client!Call /\ Client!Idle
      /\ UNCHANGED <<backup, net, agent, revoked, presented>>
      /\ backup # None /\ mem.binding = None
      /\ ~(mem.receipt /\ backup.binding # None)
      /\ backup.binding \in {None, new.pin}
      /\ mem.cred # None /\ backup.cred # None => mem.cred = backup.cred /\ mem.pin = backup.pin
  BY DEF Client!Restore
<1>2. /\ new \in Client!RemoteStates
      /\ new.cred = mem.cred /\ new.pin = mem.pin
      /\ new.used = backup.used \cup mem.used
      /\ new.receipt = (backup.receipt \/ mem.receipt)
      /\ new.revokedAt = (backup.revokedAt \/ mem.revokedAt)
      /\ new.binding = backup.binding /\ new.grant = backup.grant
      /\ mem.cred # None => new.client >= mem.client /\ new.server >= mem.server
  BY <1>1, RestoredFacts
<1> HIDE DEF new
<1>3. new.client \in Nat /\ new.server \in Nat
  BY <1>2 DEF Client!RemoteStates
<1>4. agent.live => mem.receipt /\ backup.binding = None /\ backup.grant = None
  <2>1. agent.live => mem.receipt
    BY <1>1, MemoryFacts DEF Current
  <2>2. backup.binding = None => backup.grant = None
    BY <1>1 DEF ClientInv, Stored, Sound, Client!RemoteStates
  <2> QED BY <1>1, <2>1, <2>2
<1>5. Current(new)
  BY <1>1, <1>2, <1>4, MemoryFacts DEF Current, Sound
<1>6. CaughtUp(new, 0)
  <2>1. CASE mem.cred = None
    BY <2>1, <1>2 DEF CaughtUp
  <2>2. CASE mem.cred # None
    <3>1. mem.cred \in Client!Credentials /\ agent.last[mem.cred] \in Nat
      BY <2>2, MemoryFacts DEF Client!RemoteStates, Sound, Client!Nodes
    <3>2. \A m \in net : m.seq \in Nat
      BY DEF ClientInv, Stored, Client!TypeOK, Client!Requests
    <3>3. CaughtUp(mem, 0)
      BY <1>1, MemoryFacts DEF CaughtUp
    <3>4. /\ mem.client \in Nat /\ new.client >= mem.client /\ new.cred = mem.cred
          /\ faults \in Nat
      BY <1>2, <2>2, MemoryFacts
    <3> QED BY <2>2, <1>3, <3>1, <3>2, <3>3, <3>4 DEF CaughtUp
  <2> QED BY <2>1, <2>2
<1>7. After(new, {})
  BY <1>2 DEF After
<1> QED BY <1>1, <1>5, <1>6, <1>7, CallCounts, SaveEnds
-----------------------------------------------------------------------------
(* Commands that send *)

\* A request that leaves carries the next sequence of the credential in memory, and
\* what the backend holds from then on counts it.
LEMMA SendKeeps ==
  ASSUME ClientInv, NEW m \in Client!Requests, NEW state, Client!Send(m, state),
         Client!NotSaved, UNCHANGED <<backup, agent, revoked>>, commands' \in Nat,
         Slack = 0,
         Current(state), CaughtUp(state, 0), After(state, {}),
         presented' \in [Tokens -> Nat],
         \A t \in Tokens : presented'[t] <= 1 /\ (presented'[t] > 0 => t \in mem.used),
         m.cred \in Tokens => m.cred \in agent.redeemed,
         m.kind \in Rotating \cup Redeeming => m.token \in Tokens,
         m.kind \in Rotating => m.token \in mem.used,
         m.kind = "authorize" => presented'[m.token] = 0,
         m.kind = "pair" => state.cred = None /\ state.pin = m.pin,
         m.kind \in Authorized =>
            /\ mem.cred # None /\ m.cred = mem.cred /\ state.cred = mem.cred
            /\ m.seq = mem.client + 1 /\ state.client = mem.client + 1
  PROVE ClientInv' /\ Ledgers
<1>1. /\ op' = [op EXCEPT !.step = "waiting", !.request = m, !.reply = None, !.new = state]
      /\ net' = net \cup {m} /\ mem' = mem /\ vaultDisk' = vaultDisk /\ faults' = faults
  BY DEF Client!Send, Client!NotSaved
<1>2. state \in Client!RemoteStates
  BY DEF Current, Sound
<1>3. op' \in Client!Operations
      /\ op'.step = "waiting" /\ op'.request = m /\ op'.reply = None /\ op'.new = state
  BY <1>1, <1>2, MemoryFacts DEF Client!Operations
<1>4. Slack' = IF m.kind # "redeem" THEN 1 ELSE 0
  BY <1>3 DEF Slack
<1>5. Stored'
  <2>1. Network'
    BY <1>1 DEF Network, ClientInv, Stored, Authorized, Client!Requests
  <2>2. Client!TypeOK'
    BY <1>1, <1>3 DEF ClientInv, Stored, Client!TypeOK
  <2>3. Current(mem)' /\ Current(vaultDisk)' /\ (backup # None => Sound(backup))'
        /\ After(vaultDisk, {})'
    BY <1>1 DEF ClientInv, Stored, Current, Sound, After
  <2> QED BY <1>1, <2>1, <2>2, <2>3 DEF ClientInv, Stored
<1>6. \A r \in Client!RemoteStates : \A n \in {0, 1} :
         Sound(r) /\ CaughtUp(r, 0)
         /\ (m.kind \in Authorized /\ r.cred = m.cred => m.seq <= r.client + faults + n)
         => CaughtUp(r, n)'
  <2> SUFFICES ASSUME NEW r \in Client!RemoteStates, NEW n \in {0, 1}, Sound(r), CaughtUp(r, 0),
                      m.kind \in Authorized /\ r.cred = m.cred
                        => m.seq <= r.client + faults + n
               PROVE CaughtUp(r, n)'
    OBVIOUS
  <2>1. CASE r.cred = None
    BY <2>1 DEF CaughtUp
  <2>2. CASE r.cred # None
    <3>1. /\ r.cred \in Client!Credentials /\ r.client \in Nat /\ faults \in Nat
          /\ agent.last[r.cred] \in Nat
      BY <2>2, MemoryFacts DEF Client!RemoteStates, Client!Nodes, Sound
    <3>2. \A x \in net : x.seq \in Nat
      BY DEF ClientInv, Stored, Client!TypeOK, Client!Requests
    <3>3. /\ agent.last[r.cred] <= r.client + faults
          /\ \A x \in net : x.cred = r.cred /\ x.kind \in Authorized
                => x.seq <= r.client + faults
      BY <2>2, <3>1, <3>2 DEF CaughtUp
    <3>4. \A x \in net' : x.cred = r.cred /\ x.kind \in Authorized
                => x.seq <= r.client + faults + n
      BY <1>1, <3>1, <3>2, <3>3
    <3>5. agent.last[r.cred] <= r.client + faults + n
      BY <3>1, <3>3
    <3> QED BY <1>1, <2>2, <3>4, <3>5 DEF CaughtUp
  <2> QED BY <2>1, <2>2
<1>7. CaughtUp(mem, Slack)' /\ CaughtUp(vaultDisk, Slack)'
  <2> DEFINE n == IF m.kind # "redeem" THEN 1 ELSE 0
  <2>1. CaughtUp(mem, 0) /\ CaughtUp(vaultDisk, 0)
        /\ Sound(mem) /\ Sound(vaultDisk) /\ After(vaultDisk, {})
        /\ mem \in Client!RemoteStates /\ vaultDisk \in Client!RemoteStates
    BY DEF ClientInv, Stored, Current, Sound, CaughtUp
  <2>2. m.kind \in Authorized => n = 1
    BY DEF Authorized
  <2>3. /\ m.kind \in Authorized /\ mem.cred = m.cred => m.seq <= mem.client + faults + 1
        /\ m.kind \in Authorized /\ vaultDisk.cred = m.cred
              => m.seq <= vaultDisk.client + faults + 1
    BY <2>1, MemoryFacts DEF After, Client!RemoteStates
  <2> HIDE DEF n
  <2>4. n \in {0, 1} /\ Slack' = n
    BY <1>4 DEF n
  <2>5. CaughtUp(mem, n)' /\ CaughtUp(vaultDisk, n)'
    <3>1. \A r \in {mem, vaultDisk} : CaughtUp(r, n)'
      BY <1>6, <2>1, <2>2, <2>3, <2>4
    <3>2. n' = n
      BY DEF n
    <3> QED BY <3>1, <3>2, <1>1 DEF CaughtUp
  <2>6. n' = n
    BY DEF n
  <2> QED BY <2>4, <2>5, <2>6 DEF CaughtUp
<1>8. Progress'
  <2>1. CaughtUp(op.new, 0)'
    <3>1. m.kind \in Authorized /\ state.cred = m.cred => m.seq <= state.client + faults + 0
      BY <1>2, MemoryFacts DEF Client!RemoteStates
    <3>2. CaughtUp(state, 0)'
      BY <1>2, <1>6, <3>1 DEF Current
    <3> QED BY <1>3, <3>2 DEF CaughtUp
  <2>2. Current(op.new)'
    BY <1>3 DEF Current, Sound
  <2>3. After(op.new, {})'
    BY <1>1, <1>3 DEF After
  <2>4. /\ op'.step # "idle" /\ op'.step # "authorize" /\ op'.step # "authorized"
        /\ op'.request # None /\ op'.new # None /\ op'.reply # "done"
        /\ op'.request = m /\ op'.new = state /\ agent' = agent /\ mem' = mem
    BY <1>1, <1>2, <1>3, NoneIsNobody
  <2>5. m.kind \in Authorized => state.cred # None
    OBVIOUS
  <2>6. m.kind = "authorize" => m.cred # None /\ presented'[m.token] = 0
    BY DEF Authorized
  <2> QED BY <2>1, <2>2, <2>3, <2>4, <2>5, <2>6 DEF Progress, Rotating, Redeeming
<1> QED BY <1>1, <1>5, <1>7, <1>8, MemoryFacts DEF ClientInv, Ledgers

\* The state whose counter is spent before the request leaves.
LEMMA ReservedFacts ==
  ASSUME ClientInv, NEW r, Current(r), CaughtUp(r, 0), r.cred # None
  PROVE LET new == Client!Reserved(r)
        IN /\ Current(new) /\ CaughtUp(new, 0)
           /\ new.cred = r.cred /\ new.client = r.client + 1 /\ new.server = r.server
           /\ new.used = r.used /\ new.pin = r.pin
<1> DEFINE new == Client!Reserved(r)
<1>1. r \in Client!RemoteStates /\ Sound(r) /\ r.client \in Nat
  BY DEF Current, Sound, Client!RemoteStates
<1>2. /\ new \in Client!RemoteStates
      /\ new.cred = r.cred /\ new.client = r.client + 1 /\ new.server = r.server
      /\ new.used = r.used /\ new.pin = r.pin /\ new.revokedAt = r.revokedAt
      /\ new.binding = r.binding /\ new.grant = r.grant /\ new.receipt = r.receipt
  BY <1>1 DEF Client!Reserved, Client!RemoteStates
<1> HIDE DEF new
<1>3. Current(new)
  BY <1>1, <1>2 DEF Current, Sound
<1>4. CaughtUp(new, 0)
  <2>1. r.cred \in Client!Credentials /\ agent.last[r.cred] \in Nat /\ faults \in Nat
    BY <1>1, MemoryFacts DEF Client!RemoteStates, Sound, Client!Nodes
  <2>2. \A m \in net : m.seq \in Nat
    BY DEF ClientInv, Stored, Client!TypeOK, Client!Requests
  <2> QED BY <1>1, <1>2, <2>1, <2>2 DEF CaughtUp
<1> QED BY <1>2, <1>3, <1>4 DEF new

\* The same state but for the token it burned.
LEMMA BurnedFacts ==
  ASSUME NEW r, Current(r), NEW t \in Tokens
  PROVE LET new == [r EXCEPT !.used = @ \cup {t}]
        IN /\ Current(new)
           /\ \A n : CaughtUp(r, n) => CaughtUp(new, n)
           /\ new.used = r.used \cup {t} /\ new.cred = r.cred /\ new.client = r.client
           /\ new.server = r.server /\ new.pin = r.pin
<1> DEFINE new == [r EXCEPT !.used = @ \cup {t}]
<1>1. r \in Client!RemoteStates /\ Sound(r)
  BY DEF Current, Sound
<1>2. /\ new \in Client!RemoteStates
      /\ new.used = r.used \cup {t} /\ new.cred = r.cred /\ new.client = r.client
      /\ new.server = r.server /\ new.pin = r.pin /\ new.revokedAt = r.revokedAt
      /\ new.binding = r.binding /\ new.grant = r.grant /\ new.receipt = r.receipt
  BY <1>1 DEF Client!RemoteStates
<1> HIDE DEF new
<1>3. Current(new) /\ \A n : CaughtUp(r, n) => CaughtUp(new, n)
  BY <1>1, <1>2 DEF Current, Sound, CaughtUp
<1> QED BY <1>2, <1>3 DEF new

\* Between commands nothing is on its way for the state in memory.
LEMMA IdleFacts ==
  ASSUME ClientInv, Client!Idle
  PROVE Slack = 0 /\ CaughtUp(mem, 0) /\ After(mem, {})
<1>1. Slack = 0
  BY MemoryFacts
<1>2. CaughtUp(mem, 0)
  BY <1>1, MemoryFacts DEF CaughtUp
<1>3. After(mem, {})
  BY MemoryFacts DEF After
<1> QED BY <1>1, <1>2, <1>3

\* A request of the command that starts now.
LEMMA RequestFacts ==
  ASSUME ClientInv,
         NEW kind \in {"operate", "destroy", "pair", "authorize", "redeem"},
         NEW c \in Client!Credentials \cup {None}, NEW n \in Nat,
         NEW t \in Tokens \cup {None}, NEW p \in Pins
  PROVE LET m == Client!Request(kind, c, n, t, p)
        IN /\ m \in Client!Requests
           /\ m.kind = kind /\ m.cred = c /\ m.seq = n /\ m.token = t /\ m.pin = p
<1>1. commands \in Nat
  BY MemoryFacts
<1>2. 2 * commands + 1 \in Nat /\ 2 * commands + 2 \in Nat
  BY <1>1
<1> QED BY <1>2 DEF Client!Request, Client!Requests

\* A request of the environment is reserved before it is sent.
LEMMA OperateKeeps ==
  ASSUME ClientInv, NEW kind \in {"operate", "destroy"}, Client!Operate(kind)
  PROVE ClientInv' /\ Ledgers
<1> DEFINE m == Client!Request(kind, mem.cred, mem.client + 1, None, mem.pin)
           state == Client!Reserved(mem)
<1>1. /\ Client!Idle /\ Client!Call /\ mem.cred # None /\ Client!Send(m, state)
      /\ Client!NotSaved /\ UNCHANGED <<backup, agent, revoked, presented>>
  BY DEF Client!Operate
<1>2. mem.cred \in Client!Credentials \cup {None} /\ mem.client + 1 \in Nat /\ mem.pin \in Pins
  BY MemoryFacts DEF Client!RemoteStates
<1>3. /\ m \in Client!Requests
      /\ m.kind = kind /\ m.cred = mem.cred /\ m.seq = mem.client + 1
  <2>1. kind \in {"operate", "destroy", "pair", "authorize", "redeem"}
    OBVIOUS
  <2>2. kind # "redeem" /\ 2 * commands + 1 \in Nat
    BY MemoryFacts
  <2> QED BY <1>2, <2>1, <2>2 DEF Client!Request, Client!Requests
<1>4. /\ Current(state) /\ CaughtUp(state, 0)
      /\ state.cred = mem.cred /\ state.client = mem.client + 1
      /\ state.server = mem.server /\ state.used = mem.used
  BY <1>1, IdleFacts, MemoryFacts, ReservedFacts
<1> HIDE DEF m, state
<1>5. After(state, {})
  BY <1>4, MemoryFacts DEF After
<1>6. m.cred \in Tokens => m.cred \in agent.redeemed
  BY <1>1, <1>3, MemoryFacts DEF Sound
<1>7. /\ presented' \in [Tokens -> Nat]
      /\ \A t \in Tokens : presented'[t] <= 1 /\ (presented'[t] > 0 => t \in mem.used)
  BY <1>1 DEF ClientInv, Stored, Client!TypeOK
<1>8. m.kind \notin Rotating \cup Redeeming /\ m.kind # "pair" /\ m.kind # "authorize"
  BY <1>3 DEF Rotating, Redeeming
<1>9. Slack = 0 /\ commands' \in Nat
  BY <1>1, IdleFacts, CallCounts
<1> QED BY <1>1, <1>3, <1>4, <1>5, <1>6, <1>7, <1>8, <1>9, SendKeeps

\* A pairing is sent with a token of its own.
LEMMA PairKeeps ==
  ASSUME ClientInv, NEW t \in Tokens, NEW p \in Pins, Client!Pair(t, p)
  PROVE ClientInv' /\ Ledgers
<1> DEFINE m == Client!Request("pair", None, 0, t, p)
           state == [mem EXCEPT !.pin = p, !.used = @ \cup {t}]
<1>1. /\ Client!Idle /\ Client!Call /\ mem.cred = None /\ Client!Send(m, state)
      /\ mem.binding \in {None, p}
      /\ Client!NotSaved /\ UNCHANGED <<backup, agent, revoked, presented>>
  BY DEF Client!Pair
<1>2. /\ m \in Client!Requests
      /\ m.kind = "pair" /\ m.cred = None /\ m.token = t /\ m.pin = p
  BY RequestFacts
<1>3. /\ state \in Client!RemoteStates
      /\ state.pin = p /\ state.used = mem.used \cup {t} /\ state.cred = None
      /\ state.client = mem.client /\ state.server = mem.server
      /\ state.revokedAt = mem.revokedAt /\ state.binding = mem.binding
      /\ state.grant = mem.grant /\ state.receipt = mem.receipt
  BY <1>1, MemoryFacts DEF Client!RemoteStates
<1> HIDE DEF m, state
<1>4. Current(state) /\ CaughtUp(state, 0) /\ After(state, {})
  BY <1>1, <1>3, MemoryFacts DEF Current, Sound, CaughtUp, After
<1>5. m.cred \notin Tokens
  BY <1>2, NoneIsNobody DEF Client!Credentials
<1>6. /\ presented' \in [Tokens -> Nat]
      /\ \A u \in Tokens : presented'[u] <= 1 /\ (presented'[u] > 0 => u \in mem.used)
  BY <1>1 DEF ClientInv, Stored, Client!TypeOK
<1>7. m.kind \notin Rotating /\ m.kind \notin Authorized /\ m.kind # "authorize"
  BY <1>2 DEF Rotating, Authorized
<1>8. Slack = 0 /\ commands' \in Nat
  BY <1>1, IdleFacts, CallCounts
<1> QED BY <1>1, <1>2, <1>3, <1>4, <1>5, <1>6, <1>7, <1>8, SendKeeps
-----------------------------------------------------------------------------
(* The rotation *)

\* A rotation burns its token before the Agent is asked.
LEMMA StartRotationKeeps ==
  ASSUME ClientInv, NEW t \in Tokens, NEW p \in Pins, Client!StartRotation(t, p)
  PROVE ClientInv' /\ Ledgers
<1> DEFINE m == Client!Request("authorize", mem.cred, 0, t, p)
           new == [mem EXCEPT !.used = @ \cup {t}]
           next == [Client!Rotation(t, p) EXCEPT !.step = "authorize"]
<1>1. /\ Client!Idle /\ Client!Call /\ mem.cred # None /\ t \notin mem.used
      /\ Client!Save(new, next)
      /\ UNCHANGED <<backup, net, agent, revoked, presented>>
  BY DEF Client!StartRotation
<1>2. /\ m \in Client!Requests
      /\ m.kind = "authorize" /\ m.cred = mem.cred /\ m.token = t /\ m.pin = p
  <2>1. mem.cred \in Client!Credentials \cup {None}
    BY MemoryFacts DEF Client!RemoteStates
  <2> QED BY <2>1, RequestFacts
<1>3. /\ next \in Client!Operations
      /\ next.step = "authorize" /\ next.request = m /\ next.new = mem /\ next.reply = None
  BY <1>2, MemoryFacts DEF Client!Rotation, Client!NoOp, Client!Operations
<1>4. /\ Current(new) /\ CaughtUp(new, 0)
      /\ new.used = mem.used \cup {t} /\ new.cred = mem.cred /\ new.client = mem.client
      /\ new.server = mem.server
  BY <1>1, IdleFacts, MemoryFacts, BurnedFacts
<1> HIDE DEF m, new, next
<1>5. After(new, {})
  BY <1>4, MemoryFacts DEF After
<1>6. /\ Stored' /\ CaughtUp(mem, 0)' /\ CaughtUp(vaultDisk, 0)' /\ Ledgers
      /\ op' \in {next, Client!NoOp} /\ (op' # Client!NoOp => mem' = new)
      /\ faults' \in Nat /\ faults' >= faults
  BY <1>1, <1>3, <1>4, <1>5, CallCounts, SaveKeeps
<1>7. Slack' = 0
  BY <1>3, <1>6 DEF Slack, Client!NoOp
<1>8. Progress'
  <2>1. CASE op' = Client!NoOp
    BY <2>1 DEF Progress, Client!NoOp
  <2>2. CASE op' = next /\ op' # Client!NoOp
    <3>1. mem' = new
      BY <1>6, <2>2
    <3>2. Current(op.new)'
      BY <1>1, <1>3, <2>2, MemoryFacts DEF Current, Sound
    <3>3. CaughtUp(op.new, 0)'
      <4>1. CaughtUp(mem, 0)'
        BY <1>6
      <4> QED BY <4>1, <3>1, <1>3, <1>4, <2>2 DEF CaughtUp
    <3>4. After(op.new, {t})'
      BY <1>3, <1>4, <3>1, <2>2, MemoryFacts DEF After
    <3>5. presented[t] = 0 /\ t \in mem'.used
      <4>1. presented[t] \in Nat /\ ~(presented[t] > 0)
        BY <1>1 DEF ClientInv, Stored, Client!TypeOK
      <4> QED BY <4>1, <3>1, <1>4
    <3>6. /\ op'.step = "authorize" /\ op'.request = m /\ op'.new = mem /\ op'.reply = None
          /\ m # None /\ mem # None
      BY <1>2, <1>3, <2>2, NoneIsNobody, MemoryFacts
    <3>7. m.cred \in Tokens => m.cred \in agent'.redeemed
      BY <1>1, <1>2, MemoryFacts DEF Sound
    <3>8. /\ mem'.cred = mem.cred /\ mem'.client = mem.client /\ presented' = presented
      BY <1>1, <1>4, <3>1
    <3> QED BY <1>1, <1>2, <3>2, <3>3, <3>4, <3>5, <3>6, <3>7, <3>8
            DEF Progress, Rotating, Redeeming, Authorized
  <2> QED BY <1>6, <2>1, <2>2
<1> QED BY <1>6, <1>7, <1>8 DEF ClientInv, CaughtUp

\* What the rotation under way knows.
LEMMA RotationFacts ==
  ASSUME ClientInv, op.step \in {"authorize", "authorized"}
  PROVE /\ op.request \in Client!Requests /\ op.request.kind = "authorize"
        /\ op.request.token \in Tokens /\ op.request.token \in mem.used
        /\ op.request.cred # None /\ op.request.cred \in Client!Credentials
        /\ op.request.cred \in Tokens => op.request.cred \in agent.redeemed
        /\ presented[op.request.token] = 0
        /\ Current(op.new) /\ CaughtUp(op.new, 0) /\ op.new # None
        /\ op.new \in Client!RemoteStates
        /\ Slack = 0
<1>1. op.step # "idle"
  OBVIOUS
<1>2. /\ op.request # None /\ op.request.kind = "authorize" /\ op.request.cred # None
      /\ op.request.cred \in Tokens => op.request.cred \in agent.redeemed
      /\ presented[op.request.token] = 0 /\ Current(op.new) /\ CaughtUp(op.new, 0)
      /\ op.new # None
      /\ op.request.token \in mem.used
  BY <1>1 DEF ClientInv, Progress, Rotating
<1>3. op.request \in Client!Requests
  BY <1>2 DEF ClientInv, Stored, Client!TypeOK, Client!Operations
<1>4. op.request.token \in Tokens
  BY <1>2, MemoryFacts DEF Client!RemoteStates
<1>5. op.request.cred \in Client!Credentials
  BY <1>2, <1>3 DEF Client!Requests
<1>6. Slack = 0
  BY DEF Slack
<1> QED BY <1>2, <1>3, <1>4, <1>5, <1>6 DEF Current, Sound

\* A token was presented once at most, and was burned before.
LEMMA PresentedFacts ==
  ASSUME ClientInv
  PROVE /\ presented \in [Tokens -> Nat]
        /\ \A t \in Tokens : presented[t] <= 1 /\ (presented[t] > 0 => t \in mem.used)
BY DEF ClientInv, Stored, Client!TypeOK

\* The new pin is authorized with the old credential.
LEMMA AuthorizeKeeps ==
  ASSUME ClientInv, Client!Authorize
  PROVE ClientInv' /\ Ledgers
<1> DEFINE t == op.request.token
           burned == [op.new EXCEPT !.used = @ \cup {t}]
           m == [op.request EXCEPT !.seq = burned.client + 1]
<1>1. /\ op.step = "authorize" /\ Client!NotSaved
      /\ UNCHANGED <<backup, agent, revoked, presented, commands>>
      /\ \/ op' = [op EXCEPT !.step = "save", !.new = burned] /\ UNCHANGED net
         \/ Client!Send(m, Client!Reserved(burned))
  BY DEF Client!Authorize
<1>2. /\ op.request \in Client!Requests /\ op.request.kind = "authorize"
      /\ t \in Tokens /\ t \in mem.used
      /\ op.request.cred # None /\ op.request.cred \in Client!Credentials
      /\ op.request.cred \in Tokens => op.request.cred \in agent.redeemed
      /\ presented[t] = 0 /\ Slack = 0
      /\ Current(op.new) /\ CaughtUp(op.new, 0)
  BY <1>1, RotationFacts
<1>3. /\ op.new.cred = mem.cred /\ op.request.cred = mem.cred /\ op.new.client = mem.client
      /\ After(op.new, {t})
  BY <1>1 DEF ClientInv, Progress
<1>4. /\ Current(burned) /\ CaughtUp(burned, 0)
      /\ burned.used = op.new.used \cup {t} /\ burned.cred = op.new.cred
      /\ burned.client = op.new.client /\ burned.server = op.new.server
  BY <1>2, BurnedFacts
<1> HIDE DEF burned
<1>5. After(burned, {})
  BY <1>2, <1>3, <1>4 DEF After
<1>6. CASE op' = [op EXCEPT !.step = "save", !.new = burned] /\ UNCHANGED net
  <2>1. burned \in Client!RemoteStates
    BY <1>4 DEF Current, Sound
  <2>2. /\ op' \in Client!Operations /\ op'.step = "save" /\ op'.request = op.request
        /\ op'.new = burned /\ op'.reply = op.reply
    BY <1>6, <2>1, MemoryFacts DEF Client!Operations
  <2>3. /\ mem' = mem /\ vaultDisk' = vaultDisk /\ faults' = faults /\ agent' = agent
        /\ net' = net /\ presented' = presented /\ commands' = commands
        /\ revoked' = revoked /\ backup' = backup
    BY <1>1, <1>6 DEF Client!NotSaved
  <2>4. Stored'
    BY <2>2, <2>3
    DEF ClientInv, Stored, Client!TypeOK, Current, Sound, After, Network
  <2>5. Slack' = 1
    BY <2>2, <1>2 DEF Slack
  <2>6. CaughtUp(mem, Slack)' /\ CaughtUp(vaultDisk, Slack)'
    <3>1. \A r \in {mem, vaultDisk} : CaughtUp(r, 0) => CaughtUp(r, 1)'
      <4> SUFFICES ASSUME NEW r \in {mem, vaultDisk}, CaughtUp(r, 0), r.cred # None
                   PROVE CaughtUp(r, 1)'
        BY DEF CaughtUp
      <4>1. r \in Client!RemoteStates /\ Sound(r)
        BY DEF ClientInv, Stored, Current, Sound
      <4>2. r.client \in Nat /\ agent.last[r.cred] \in Nat /\ faults \in Nat
        BY <4>1, MemoryFacts DEF Client!RemoteStates, Sound, Client!Nodes
      <4>3. \A x \in net : x.seq \in Nat
        BY DEF ClientInv, Stored, Client!TypeOK, Client!Requests
      <4> QED BY <2>3, <4>2, <4>3 DEF CaughtUp
    <3>2. CaughtUp(mem, 0) /\ CaughtUp(vaultDisk, 0)
      BY <1>2 DEF ClientInv, CaughtUp
    <3>3. CaughtUp(mem, 1)' /\ CaughtUp(vaultDisk, 1)'
      BY <3>1, <3>2, <2>3 DEF CaughtUp
    <3> QED BY <3>3, <2>5 DEF CaughtUp
  <2>7. Progress'
    <3>1. Current(op.new)' /\ CaughtUp(op.new, 0)' /\ After(op.new, {})'
      BY <1>4, <1>5, <2>2, <2>3 DEF Current, Sound, CaughtUp, After
    <3>2. op'.request # None /\ op'.new # None
      BY <1>2, <2>1, <2>2, NoneIsNobody
    <3> QED BY <1>2, <2>2, <2>3, <3>1, <3>2 DEF Progress, Rotating, Redeeming
  <2> QED BY <2>3, <2>4, <2>6, <2>7, MemoryFacts DEF ClientInv, Ledgers
<1>7. CASE Client!Send(m, Client!Reserved(burned))
  <2> DEFINE state == Client!Reserved(burned)
  <2>1. /\ Current(state) /\ CaughtUp(state, 0) /\ state.cred = mem.cred
        /\ state.client = mem.client + 1 /\ state.server = burned.server
        /\ state.used = burned.used
    BY <1>2, <1>3, <1>4, ReservedFacts
  <2>2. mem.client + 1 \in Nat /\ burned.client = mem.client /\ commands \in Nat
    BY <1>3, <1>4, MemoryFacts
  <2>3. /\ m \in Client!Requests /\ m.kind = "authorize" /\ m.cred = mem.cred
        /\ m.token = t /\ m.seq = mem.client + 1
    BY <1>2, <1>3, <2>2 DEF Client!Requests
  <2> HIDE DEF m, state, t
  <2>4. After(state, {})
    BY <1>3, <1>4, <1>5, <2>1, MemoryFacts DEF After
  <2>5. /\ m.cred \in Tokens => m.cred \in agent.redeemed
        /\ m.kind \in Rotating \cup Redeeming => m.token \in Tokens
        /\ m.kind \in Rotating => m.token \in mem.used
        /\ presented'[m.token] = 0 /\ mem.cred # None /\ m.kind # "pair"
    BY <1>1, <1>2, <1>3, <2>3
  <2>6. /\ presented' \in [Tokens -> Nat]
        /\ \A u \in Tokens : presented'[u] <= 1 /\ (presented'[u] > 0 => u \in mem.used)
    BY <1>1, PresentedFacts
  <2>7. Client!Send(m, state)
    BY <1>7 DEF state
  <2> QED BY <1>1, <1>2, <2>1, <2>2, <2>3, <2>4, <2>5, <2>6, <2>7, SendKeeps
<1> QED BY <1>1, <1>6, <1>7

\* The token leaves for the new pin once.
LEMMA RedeemKeeps ==
  ASSUME ClientInv, Client!Redeem
  PROVE ClientInv' /\ Ledgers
<1> DEFINE t == op.request.token
           m == [op.request EXCEPT !.kind = "redeem", !.id = @ + 1]
<1>1. /\ op.step = "authorized" /\ Client!NotSaved /\ Client!Send(m, mem)
      /\ presented' = [presented EXCEPT ![t] = @ + 1]
      /\ UNCHANGED <<backup, agent, revoked, commands>>
  BY DEF Client!Redeem
<1>2. /\ op.request \in Client!Requests /\ op.request.kind = "authorize"
      /\ t \in Tokens /\ t \in mem.used
      /\ op.request.cred \in Client!Credentials
      /\ op.request.cred \in Tokens => op.request.cred \in agent.redeemed
      /\ presented[t] = 0 /\ Slack = 0
  BY <1>1, RotationFacts
<1>3. /\ m \in Client!Requests /\ m.kind = "redeem" /\ m.cred = op.request.cred /\ m.token = t
  <2>1. op.request.id + 1 \in Nat
    BY <1>2 DEF Client!Requests
  <2> QED BY <1>2, <2>1 DEF Client!Requests
<1> HIDE DEF m, t
<1>4. /\ presented' \in [Tokens -> Nat]
      /\ \A u \in Tokens : presented'[u] <= 1 /\ (presented'[u] > 0 => u \in mem.used)
  BY <1>1, <1>2, PresentedFacts
<1>5. Current(mem) /\ CaughtUp(mem, 0) /\ After(mem, {}) /\ commands' \in Nat
  BY <1>1, <1>2, MemoryFacts DEF After, CaughtUp
<1>6. m.kind \notin Authorized /\ m.kind # "pair" /\ m.kind # "authorize"
  BY <1>3 DEF Authorized
<1> QED BY <1>1, <1>2, <1>3, <1>4, <1>5, <1>6, SendKeeps
-----------------------------------------------------------------------------
(* The end of an exchange *)

\* What the command in progress knows.
LEMMA CommandFacts ==
  ASSUME ClientInv, op.step # "idle"
  PROVE /\ op.request \in Client!Requests /\ op.request # None
        /\ op.new \in Client!RemoteStates /\ op.new # None
        /\ Current(op.new) /\ Sound(op.new) /\ CaughtUp(op.new, 0)
        /\ op.new.client \in Nat /\ op.new.server \in Nat /\ op.seq \in Nat
        /\ op.step # "authorize" => After(op.new, {})
<1>1. /\ op.request # None /\ op.new # None /\ Current(op.new) /\ CaughtUp(op.new, 0)
      /\ op.step # "authorize" => After(op.new, {})
  BY DEF ClientInv, Progress
<1>2. op.request \in Client!Requests /\ op.seq \in Nat
  BY <1>1, MemoryFacts DEF Client!Operations
<1>3. op.new \in Client!RemoteStates /\ Sound(op.new)
  BY <1>1 DEF Current, Sound
<1> QED BY <1>1, <1>2, <1>3 DEF Client!RemoteStates

\* What a command means to save may be the next state.
LEMMA ConcludeKeeps ==
  ASSUME ClientInv, op.step = "waiting", NEW new, Client!Conclude(new),
         Current(new), CaughtUp(new, 0), After(new, {})
  PROVE ClientInv' /\ Ledgers
<1>1. /\ op' = [op EXCEPT !.step = "save", !.new = new]
      /\ mem' = mem /\ vaultDisk' = vaultDisk /\ faults' = faults /\ agent' = agent
      /\ net' = net /\ presented' = presented /\ commands' = commands
      /\ revoked' = revoked /\ backup' = backup
  BY DEF Client!Conclude, Client!NotSaved
<1>2. new \in Client!RemoteStates
  BY DEF Current, Sound
<1>3. /\ op' \in Client!Operations /\ op'.step = "save" /\ op'.request = op.request
      /\ op'.new = new /\ op'.reply = op.reply
  BY <1>1, <1>2, MemoryFacts DEF Client!Operations
<1>4. Stored'
  BY <1>1, <1>3 DEF ClientInv, Stored, Client!TypeOK, Current, Sound, After, Network
<1>5. Slack' = Slack
  BY <1>3 DEF Slack
<1>6. CaughtUp(mem, Slack)' /\ CaughtUp(vaultDisk, Slack)'
  BY <1>1, <1>5 DEF ClientInv, CaughtUp
<1>7. Progress'
  <2>1. Current(op.new)' /\ CaughtUp(op.new, 0)' /\ After(op.new, {})'
    BY <1>1, <1>3 DEF Current, Sound, CaughtUp, After
  <2>2. op'.request # None /\ op'.new # None
    BY <1>2, <1>3, CommandFacts, NoneIsNobody
  <2>3. LET k == op.request.kind
            t == op.request.token
        IN /\ op.request.cred \in Tokens => op.request.cred \in agent.redeemed
           /\ k = "authorize" => op.request.cred # None /\ presented[t] = 0
           /\ k \in Rotating => t \in mem.used
           /\ k = "destroy" /\ op.reply = "done" => ~agent.live
    BY DEF ClientInv, Progress
  <2> QED BY <1>1, <1>3, <2>1, <2>2, <2>3 DEF Progress
<1> QED BY <1>1, <1>4, <1>6, <1>7, MemoryFacts DEF ClientInv, Ledgers

\* What was heard is the newest sequence of the Agent.
LEMMA HeardFacts ==
  ASSUME ClientInv, Client!Ended, op.request.kind \in Authorized
  PROVE LET new == Client!Heard(op.new)
        IN /\ Current(new) /\ CaughtUp(new, 0) /\ After(new, {}) /\ new.cred # None
<1> DEFINE new == Client!Heard(op.new)
<1>1. op.step = "waiting" /\ op.step # "idle" /\ op.step # "authorize"
      /\ (op.reply # None => op.seq > op.new.server)
  BY DEF Client!Ended
<1>2. op.new.cred # None
  BY <1>1 DEF ClientInv, Progress
<1>3. CASE op.reply = None
  BY <1>1, <1>2, <1>3, CommandFacts DEF Client!Heard
<1>4. CASE op.reply # None
  <2>1. new = [op.new EXCEPT !.server = op.seq]
    BY <1>4 DEF Client!Heard
  <2> HIDE DEF new
  <2>2. /\ new \in Client!RemoteStates
        /\ new.cred = op.new.cred /\ new.client = op.new.client /\ new.server = op.seq
        /\ new.used = op.new.used /\ new.pin = op.new.pin
        /\ new.revokedAt = op.new.revokedAt /\ new.binding = op.new.binding
        /\ new.grant = op.new.grant /\ new.receipt = op.new.receipt
    BY <1>1, <1>2, <2>1, CommandFacts DEF Client!RemoteStates
  <2>3. Current(new) /\ CaughtUp(new, 0)
    BY <1>1, <2>2, CommandFacts DEF Current, Sound, CaughtUp
  <2>4. After(new, {})
    BY <1>1, <1>4, <2>2, CommandFacts, MemoryFacts DEF After
  <2> QED BY <1>2, <2>2, <2>3, <2>4 DEF new
<1> QED BY <1>3, <1>4

\* The binding goes only with the environment.
LEMMA UnboundFacts ==
  ASSUME ClientInv, Client!Ended, op.request.kind = "destroy"
  PROVE LET new == Client!Unbound(Client!Heard(op.new))
        IN Current(new) /\ CaughtUp(new, 0) /\ After(new, {})
<1> DEFINE heard == Client!Heard(op.new)
           new == Client!Unbound(heard)
<1>1. /\ Current(heard) /\ CaughtUp(heard, 0) /\ After(heard, {}) /\ heard.cred # None
  BY HeardFacts DEF Authorized
<1>2. op.reply = "done" => ~agent.live
  BY DEF ClientInv, Progress, Client!Ended
<1> HIDE DEF heard
<1>3. CASE op.reply = "done"
  <2>1. new = [heard EXCEPT !.binding = None, !.grant = None]
    BY <1>3 DEF Client!Unbound
  <2> HIDE DEF new
  <2>2. heard \in Client!RemoteStates /\ Sound(heard)
    BY <1>1 DEF Current, Sound
  <2>3. /\ new \in Client!RemoteStates
        /\ new.cred = heard.cred /\ new.client = heard.client /\ new.server = heard.server
        /\ new.used = heard.used /\ new.pin = heard.pin
        /\ new.revokedAt = heard.revokedAt /\ new.binding = None
    BY <2>1, <2>2 DEF Client!RemoteStates
  <2>4. Current(new) /\ CaughtUp(new, 0) /\ After(new, {})
    BY <1>1, <1>2, <1>3, <2>2, <2>3 DEF Current, Sound, CaughtUp, After
  <2> QED BY <2>4 DEF new, heard
<1>4. CASE op.reply # "done"
  BY <1>1, <1>4 DEF Client!Unbound, heard
<1> QED BY <1>3, <1>4

\* A pairing that succeeded names the token it was for.
LEMMA PairedFacts ==
  ASSUME ClientInv, Client!Ended, op.request.kind = "pair"
  PROVE LET new == Client!Paired(op.new)
        IN Current(new) /\ CaughtUp(new, 0) /\ After(new, {})
<1> DEFINE new == Client!Paired(op.new)
           t == op.request.token
<1>1. op.step = "waiting" /\ op.step # "idle" /\ op.step # "authorize"
  BY DEF Client!Ended
<1>2. /\ t \in Tokens /\ op.new.cred = None /\ op.new.pin = op.request.pin
      /\ op.reply = "done" => Fresh(t)
  BY <1>1 DEF ClientInv, Progress, Redeeming
<1>3. CASE op.reply = "done"
  <2>1. new = [op.new EXCEPT !.cred = t, !.client = 0, !.server = op.seq, !.revokedAt = FALSE]
    BY <1>3 DEF Client!Paired
  <2>2. Fresh(t) /\ t # None /\ t \in Client!Credentials /\ 0 # None
    BY <1>2, <1>3, ClientAssumption DEF Client!RemoteAssumption, Client!Credentials
  <2> HIDE DEF new
  <2>3. /\ new \in Client!RemoteStates
        /\ new.cred = t /\ new.client = 0 /\ new.used = op.new.used /\ new.pin = op.new.pin
        /\ new.binding = op.new.binding /\ new.grant = op.new.grant
        /\ new.receipt = op.new.receipt
    BY <1>1, <2>1, <2>2, CommandFacts DEF Client!RemoteStates
  <2>4. Current(new)
    BY <1>1, <1>2, <2>2, <2>3, CommandFacts DEF Current, Sound, Fresh
  <2>5. CaughtUp(new, 0)
    BY <2>2, <2>3, MemoryFacts DEF CaughtUp, Fresh
  <2>6. After(new, {})
    BY <1>1, <2>2, <2>3, CommandFacts DEF After, Fresh
  <2> QED BY <2>4, <2>5, <2>6 DEF new
<1>4. CASE op.reply # "done"
  BY <1>1, <1>4, CommandFacts DEF Client!Paired
<1> QED BY <1>3, <1>4

\* A rotation that succeeded moves endpoint, credential and binding together.
LEMMA RotatedFacts ==
  ASSUME ClientInv, Client!Ended, op.request.kind = "redeem", op.reply = "done"
  PROVE LET new == Client!Rotated(op.new)
        IN Current(new) /\ CaughtUp(new, 0) /\ After(new, {})
<1> DEFINE new == Client!Rotated(op.new)
           t == op.request.token
<1>1. op.step = "waiting" /\ op.step # "idle" /\ op.step # "authorize"
  BY DEF Client!Ended
<1>2. Fresh(t) /\ t \in Tokens
  <2>1. Fresh(t) /\ t \in mem.used
    BY <1>1 DEF ClientInv, Progress, Redeeming, Rotating
  <2> QED BY <2>1, MemoryFacts DEF Client!RemoteStates
<1>3. t # None /\ t \in Client!Credentials /\ 0 # None
  BY <1>2, ClientAssumption DEF Client!RemoteAssumption, Client!Credentials
<1>4. op.request.pin \in Pins /\ op.request.pin # None
  BY <1>1, CommandFacts, NoneIsNobody DEF Client!Requests
<1>5. /\ new \in Client!RemoteStates
      /\ new.cred = t /\ new.client = 0 /\ new.used = op.new.used
      /\ new.pin = op.request.pin /\ new.grant = None /\ new.receipt = op.new.receipt
      /\ new.binding = IF op.new.binding = None THEN None ELSE op.request.pin
  BY <1>1, <1>3, <1>4, CommandFacts DEF Client!RemoteStates, Client!Rotated
<1> HIDE DEF new
<1>6. Current(new)
  BY <1>1, <1>2, <1>3, <1>4, <1>5, CommandFacts DEF Current, Sound, Fresh
<1>7. CaughtUp(new, 0)
  BY <1>2, <1>3, <1>5, MemoryFacts DEF CaughtUp, Fresh
<1>8. After(new, {})
  BY <1>1, <1>2, <1>3, <1>5, CommandFacts DEF After, Fresh
<1> QED BY <1>6, <1>7, <1>8 DEF new

\* The answer of a request is what its next state says.
LEMMA OperationEndsKeeps ==
  ASSUME ClientInv, Client!OperationEnds
  PROVE ClientInv' /\ Ledgers
<1>1. Client!Ended /\ op.step = "waiting" /\ op.step # "idle"
  BY DEF Client!OperationEnds, Client!Ended
<1>2. op.request.kind \in {"operate", "destroy", "pair", "authorize", "redeem"}
  BY <1>1, CommandFacts DEF Client!Requests
<1>3. CASE op.request.kind \in {"operate", "authorize"}
  <2>1. Client!Conclude(Client!Heard(op.new))
    BY <1>3 DEF Client!OperationEnds
  <2>2. Current(Client!Heard(op.new)) /\ CaughtUp(Client!Heard(op.new), 0)
        /\ After(Client!Heard(op.new), {})
    BY <1>1, <1>3, HeardFacts DEF Authorized
  <2> QED BY <1>1, <2>1, <2>2, ConcludeKeeps
<1>4. CASE op.request.kind = "destroy"
  <2> DEFINE new == Client!Unbound(Client!Heard(op.new))
  <2>1. Client!Conclude(new)
    BY <1>4 DEF Client!OperationEnds
  <2>2. Current(new) /\ CaughtUp(new, 0) /\ After(new, {})
    BY <1>1, <1>4, UnboundFacts
  <2> HIDE DEF new
  <2> QED BY <1>1, <2>1, <2>2, ConcludeKeeps
<1>5. CASE op.request.kind = "pair"
  <2> DEFINE new == Client!Paired(op.new)
  <2>1. Client!Conclude(new)
    BY <1>5 DEF Client!OperationEnds
  <2>2. Current(new) /\ CaughtUp(new, 0) /\ After(new, {})
    BY <1>1, <1>5, PairedFacts
  <2> HIDE DEF new
  <2> QED BY <1>1, <2>1, <2>2, ConcludeKeeps
<1>6. CASE op.request.kind = "redeem" /\ op.reply = "done"
  <2> DEFINE new == Client!Rotated(op.new)
  <2>1. Client!Conclude(new)
    BY <1>6 DEF Client!OperationEnds
  <2>2. Current(new) /\ CaughtUp(new, 0) /\ After(new, {})
    BY <1>1, <1>6, RotatedFacts
  <2> HIDE DEF new
  <2> QED BY <1>1, <2>1, <2>2, ConcludeKeeps
<1>7. CASE op.request.kind = "redeem" /\ op.reply # "done"
  <2>1. /\ op' = Client!NoOp
        /\ mem' = mem /\ vaultDisk' = vaultDisk /\ faults' = faults /\ agent' = agent
        /\ net' = net /\ presented' = presented /\ commands' = commands
        /\ revoked' = revoked /\ backup' = backup
    BY <1>7 DEF Client!OperationEnds, Client!NotSaved
  <2>2. Slack = 0 /\ Slack' = 0
    BY <1>7, <2>1 DEF Slack, Client!NoOp
  <2>3. Client!NoOp \in Client!Operations
    BY DEF Client!NoOp, Client!Operations
  <2>4. Stored'
    BY <2>1, <2>3 DEF ClientInv, Stored, Client!TypeOK, Current, Sound, After, Network
  <2>5. CaughtUp(mem, Slack)' /\ CaughtUp(vaultDisk, Slack)'
    BY <2>1, <2>2 DEF ClientInv, CaughtUp
  <2>6. Progress'
    BY <2>1 DEF Progress, Client!NoOp
  <2> QED BY <2>1, <2>4, <2>5, <2>6, MemoryFacts DEF ClientInv, Ledgers
<1> QED BY <1>2, <1>3, <1>4, <1>5, <1>6, <1>7

\* A save that failed leaves the Agent ahead by one more.
LEMMA PersistKeeps ==
  ASSUME ClientInv, Client!Persist
  PROVE ClientInv' /\ Ledgers
<1> DEFINE again == op.request.kind = "authorize" /\ op.reply = "done"
           next == IF again THEN [op EXCEPT !.step = "authorized"] ELSE Client!NoOp
<1>1. /\ op.step = "save" /\ op.step # "idle" /\ op.step # "authorize"
      /\ Client!Save(op.new, next)
      /\ UNCHANGED <<backup, net, agent, revoked, presented, commands>>
  BY DEF Client!Persist
<1>2. commands' \in Nat
  BY <1>1, MemoryFacts
<1>3. CASE ~again
  BY <1>1, <1>2, <1>3, CommandFacts, SaveEnds
<1>4. CASE again
  <2>1. next = [op EXCEPT !.step = "authorized"]
    BY <1>4
  <2> HIDE DEF next
  <2>2. /\ next \in Client!Operations /\ next.step = "authorized"
        /\ next.request = op.request /\ next.new = op.new /\ next.reply = op.reply
    BY <2>1, MemoryFacts DEF Client!Operations
  <2>3. /\ Stored' /\ CaughtUp(mem, 0)' /\ CaughtUp(vaultDisk, 0)' /\ Ledgers
        /\ op' \in {next, Client!NoOp} /\ (op' # Client!NoOp => mem' = op.new)
        /\ faults' \in Nat /\ faults' >= faults
    BY <1>1, <1>2, <2>2, CommandFacts, SaveKeeps
  <2>4. Slack' = 0
    BY <2>2, <2>3 DEF Slack, Client!NoOp
  <2>5. Progress'
    <3>1. CASE op' = Client!NoOp
      BY <3>1 DEF Progress, Client!NoOp
    <3>2. CASE op' = next /\ op' # Client!NoOp
      <4>1. mem' = op.new
        BY <2>3, <3>2
      <4>2. /\ op'.step = "authorized" /\ op'.request = op.request /\ op'.new = op.new
            /\ op'.reply = op.reply
        BY <2>2, <3>2
      <4>3. Current(op.new)' /\ CaughtUp(op.new, 0)' /\ After(op.new, {})'
        <5>1. Current(mem)' /\ CaughtUp(mem, 0)'
          BY <2>3 DEF Stored
        <5>2. Current(op.new)'
          BY <5>1, <4>1, <4>2 DEF Current, Sound
        <5>3. CaughtUp(op.new, 0)'
          BY <5>1, <4>1, <4>2 DEF CaughtUp
        <5>4. After(op.new, {})'
          BY <1>1, <4>1, <4>2, CommandFacts DEF After
        <5> QED BY <5>2, <5>3, <5>4
      <4>4. op.request # None /\ op.new # None
        BY <1>1, CommandFacts
      <4>5. /\ op.request.cred \in Tokens => op.request.cred \in agent.redeemed
            /\ op.request.cred # None /\ presented[op.request.token] = 0
            /\ op.request.token \in mem.used
        BY <1>1, <1>4 DEF ClientInv, Progress, Rotating
      <4>6. mem.used \subseteq mem'.used
        BY <2>3 DEF Ledgers
      <4> QED BY <1>1, <1>4, <4>2, <4>3, <4>4, <4>5, <4>6 DEF Progress, Rotating, Redeeming
    <3> QED BY <2>3, <3>1, <3>2
  <2> QED BY <2>3, <2>4, <2>5 DEF ClientInv, CaughtUp
<1> QED BY <1>3, <1>4
-----------------------------------------------------------------------------
(* The Vault around it *)

\* A backup is made.
LEMMA BackupKeeps ==
  ASSUME ClientInv, Client!Backup
  PROVE ClientInv' /\ Ledgers
<1>1. /\ backup' = mem /\ op' = op
      /\ mem' = mem /\ vaultDisk' = vaultDisk /\ faults' = faults /\ agent' = agent
      /\ net' = net /\ presented' = presented /\ revoked' = revoked
      /\ op = Client!NoOp
  BY DEF Client!Backup, Client!NotSaved, Client!Idle
<1>2. commands' \in Nat
  BY CallCounts DEF Client!Backup
<1>3. Stored'
  BY <1>1, <1>2, MemoryFacts
  DEF ClientInv, Stored, Client!TypeOK, Current, Sound, After, Network
<1>4. CaughtUp(mem, Slack)' /\ CaughtUp(vaultDisk, Slack)'
  BY <1>1 DEF ClientInv, CaughtUp, Slack
<1>5. Progress'
  BY <1>1 DEF Progress, Client!NoOp
<1> QED BY <1>1, <1>3, <1>4, <1>5, MemoryFacts DEF ClientInv, Ledgers

\* What is read again is at most one save behind, and not older than what was known.
LEMMA ReloadKeeps ==
  ASSUME ClientInv, Client!Reload
  PROVE ClientInv' /\ Ledgers
<1>1. /\ mem' = vaultDisk /\ vaultDisk' = vaultDisk /\ op' = Client!NoOp /\ agent' = agent
      /\ net' = net /\ presented' = presented /\ revoked' = revoked /\ backup' = backup
      /\ commands' = commands
      /\ \/ Client!Idle /\ faults' = faults
         \/ ~Client!Idle /\ faults' = faults + 1
  BY DEF Client!Reload
<1>2. /\ After(vaultDisk, {}) /\ Current(vaultDisk) /\ Sound(vaultDisk)
      /\ vaultDisk \in Client!RemoteStates
      /\ CaughtUp(vaultDisk, Slack)
  BY DEF ClientInv, Stored, Current, Sound
<1>3. Ledgers
  BY <1>1, <1>2 DEF Ledgers, After
<1>4. Client!NoOp \in Client!Operations
  BY DEF Client!NoOp, Client!Operations
<1>5. Stored'
  <2>1. Client!TypeOK'
    BY <1>1, <1>2, <1>4, MemoryFacts DEF ClientInv, Stored, Client!TypeOK
  <2>2. Current(mem)' /\ Current(vaultDisk)' /\ (backup # None => Sound(backup))'
    BY <1>1, <1>2 DEF ClientInv, Stored, Current, Sound
  <2>3. After(vaultDisk, {})'
    BY <1>1, <1>2 DEF After, Client!RemoteStates
  <2>4. (\A t \in Tokens : presented[t] <= 1 /\ (presented[t] > 0 => t \in mem.used))'
    BY <1>1, <1>3 DEF Ledgers, ClientInv, Stored
  <2> QED BY <1>1, <2>1, <2>2, <2>3, <2>4 DEF ClientInv, Stored, Network
<1>6. Slack' = 0
  BY <1>1 DEF Slack, Client!NoOp
<1>7. CaughtUp(vaultDisk, 0)'
  <2>1. CASE Client!Idle /\ faults' = faults
    BY <1>1, <1>2, <2>1, IdleFacts DEF CaughtUp
  <2>2. CASE faults' = faults + 1
    <3>1. \A r \in Client!RemoteStates : Sound(r) /\ CaughtUp(r, Slack) => CaughtUp(r, 0)'
      BY <1>1, <2>2, SlackIsSmall, FaultCatchesUp
    <3> QED BY <1>1, <1>2, <3>1 DEF CaughtUp
  <2> QED BY <1>1, <2>1, <2>2
<1>8. CaughtUp(mem, Slack)' /\ CaughtUp(vaultDisk, Slack)'
  BY <1>1, <1>6, <1>7 DEF CaughtUp
<1>9. Progress'
  BY <1>1 DEF Progress, Client!NoOp
<1> QED BY <1>3, <1>5, <1>8, <1>9 DEF ClientInv
-----------------------------------------------------------------------------
(* Every step *)

\* The invariant holds at first.
LEMMA ClientStarts == ASSUME Client!Init PROVE ClientInv
<1> USE DEF Client!Init
<1>1. First \in Client!Credentials /\ First \notin Tokens /\ Pin0 \in Pins /\ First # None
      /\ Pin0 # None /\ None \notin Nat
  BY ClientAssumption DEF Client!RemoteAssumption, Client!Credentials
<1>2. mem \in Client!RemoteStates
  BY <1>1 DEF Client!RemoteStates
<1>3. Client!TypeOK
  BY <1>1, <1>2 DEF Client!TypeOK, Client!NoOp, Client!Operations, Client!Nodes
<1>4. Current(mem)
  BY <1>1, <1>2 DEF Current, Sound
<1>5. CaughtUp(mem, 0) /\ Slack = 0
  BY <1>1 DEF CaughtUp, Slack, Client!NoOp
<1>6. Progress
  BY DEF Progress, Client!NoOp
<1>7. After(vaultDisk, {})
  BY DEF After
<1> QED BY <1>3, <1>4, <1>5, <1>6, <1>7 DEF ClientInv, Stored, Network, CaughtUp

\* The Agent answers, or the request is lost.
LEMMA AgentKeeps ==
  ASSUME ClientInv, NEW m \in net,
         Client!AgentPairs(m) \/ Client!AgentOperates(m) \/ Client!Lose(m)
  PROVE ClientInv' /\ Ledgers
<1>1. Client!Lose(m) => Answered(m) /\ Learned(m) /\ net' = net \ {m} /\ ClientRest
  BY MemoryFacts DEF Client!Lose, Client!NotSaved, Answered, Learned, ClientRest
<1>2. Answered(m) /\ Learned(m) /\ net' = net \ {m} /\ ClientRest
  BY <1>1, PairsAnswer, OperatesAnswer
<1>3. ClientInv' /\ mem' = mem
  BY <1>2, AnswerKeeps
<1> QED BY <1>3, MemoryFacts DEF Ledgers

\* Every step keeps the invariant, and the ledgers grow.
LEMMA ClientStep ==
  ASSUME ClientInv, Client!Next
  PROVE ClientInv' /\ Ledgers
<1>1. ASSUME NEW kind \in {"operate", "destroy"}, Client!Operate(kind)
      PROVE ClientInv' /\ Ledgers
  BY <1>1, OperateKeeps
<1>2. ASSUME NEW t \in Tokens, NEW p \in Pins, Client!Pair(t, p) \/ Client!StartRotation(t, p)
      PROVE ClientInv' /\ Ledgers
  BY <1>2, PairKeeps, StartRotationKeeps
<1>3. ASSUME NEW m \in net,
             Client!AgentPairs(m) \/ Client!AgentOperates(m) \/ Client!Lose(m)
      PROVE ClientInv' /\ Ledgers
  BY <1>3, AgentKeeps
<1> QED BY <1>1, <1>2, <1>3, AuthorizeKeeps, RedeemKeeps, RevokeKeeps, ForceDetachKeeps,
           OperationEndsKeeps, PersistKeeps, BackupKeeps, RestoreKeeps, ReloadKeeps
        DEF Client!Next

\* The desktop that rests keeps its invariant.
LEMMA ClientRests ==
  ASSUME ClientInv, UNCHANGED clientVars
  PROVE ClientInv' /\ Ledgers
<1>1. Stored'
  BY DEF clientVars, ClientInv, Stored, Client!TypeOK, Current, Sound, After, Network
<1>2. (CaughtUp(mem, Slack) /\ CaughtUp(vaultDisk, Slack))'
  BY DEF clientVars, ClientInv, CaughtUp, Slack
<1>3. Progress'
  BY DEF clientVars, ClientInv, Progress, Current, Sound, CaughtUp, After, Fresh
<1>4. Ledgers
  BY MemoryFacts DEF clientVars, Ledgers
<1> QED BY <1>1, <1>2, <1>3, <1>4 DEF ClientInv

\* RemoteClient: whatever is lost, late, refused or cut off between two steps, what is
\* in memory, on disk and about to be saved is sound and not older than it has to be.
THEOREM RemoteInvariant == Client!Spec => []ClientInv
<1>1. Client!Init => ClientInv
  BY ClientStarts
<1>2. ClientInv /\ [Client!Next]_Client!vars => ClientInv'
  BY ClientStep, ClientRests DEF Client!vars, clientVars
<1> QED BY <1>1, <1>2, PTL DEF Client!Spec

\* A behaviour of the bench is one of the desktop, or leaves it alone.
THEOREM EnvironmentsRunClient == EnvironmentsSpec => Client!Spec
<1>1. EnvironmentsInit => Client!Init
  BY DEF EnvironmentsInit
<1>2. [EnvironmentsNext]_<<part, vars, clientVars, wslVars, boxVars, hypervVars>>
         => [Client!Next]_Client!vars
  BY DEF EnvironmentsNext, clientVars, Client!vars
<1> QED BY <1>1, <1>2, PTL DEF EnvironmentsSpec, Client!Spec

\* An environment that lives, and costs, at the node is known to the Vault in memory
\* and to the one on disk (RemoteClient), for any number of commands, tokens and faults.
THEOREM EnvironmentsKnown == EnvironmentsSpec => []EnvironmentTracked
<1>1. ClientInv => EnvironmentTracked
  BY DEF ClientInv, Stored, Current, EnvironmentTracked, In, Client!EnvironmentTracked
<1> QED BY <1>1, RemoteInvariant, EnvironmentsRunClient, PTL

\* Pin, credential and binding agree wherever a rotation is cut off, no authorization is
\* held under another credential, and every failed save costs one refused request at
\* most (RemoteClient).
THEOREM ControlConsistent == EnvironmentsSpec => []ControlIsConsistent
<1>1. ClientInv => ControlIsConsistent
  <2> SUFFICES ASSUME ClientInv PROVE ControlIsConsistent
    OBVIOUS
  <2>1. Client!PinsAgree /\ Client!GrantsBelong
    BY DEF ClientInv, Stored, Current, Sound, Client!PinsAgree, Client!GrantsBelong
  <2>2. Client!SequencesCatchUp
    <3> SUFFICES ASSUME Client!Idle, mem.cred # None
                 PROVE /\ agent.last[mem.cred] # None
                       /\ agent.last[mem.cred] <= mem.client + faults
      BY DEF Client!SequencesCatchUp
    <3>1. agent.last[mem.cred] # None /\ mem.cred \in Client!Credentials
      BY MemoryFacts DEF Sound, Client!RemoteStates
    <3>2. agent.last[mem.cred] \in Nat /\ faults \in Nat /\ mem.client \in Nat
      BY <3>1, MemoryFacts DEF Client!Nodes
    <3>3. agent.last[mem.cred] <= mem.client + faults + 0
      BY IdleFacts DEF CaughtUp
    <3> QED BY <3>1, <3>2, <3>3
  <2> QED BY <2>1, <2>2 DEF ControlIsConsistent, In
<1> QED BY <1>1, RemoteInvariant, EnvironmentsRunClient, PTL

\* No token is sent to the new pin twice, no credential reported revoked returns, and
\* neither burned tokens nor counters go back (RemoteClient).
THEOREM NothingReturns == EnvironmentsSpec => NothingComesBack
<1>1. ClientInv => In("desktop", Client!RotationTokenOnce)
                   /\ In("desktop", Client!RevokedNeverReturns)
  BY DEF ClientInv, Stored, Current, In, Client!RotationTokenOnce, Client!RevokedNeverReturns
<1>2. ClientInv /\ [Client!Next]_Client!vars
        => [/\ mem.used \subseteq mem'.used
            /\ mem.cred # None /\ mem'.cred = mem.cred
                 => mem'.client >= mem.client /\ mem'.server >= mem.server]_Client!vars
  BY ClientStep DEF Ledgers
<1>3. Client!Spec => [][Client!Next]_Client!vars
  BY PTL DEF Client!Spec
<1> QED BY <1>1, <1>2, <1>3, RemoteInvariant, EnvironmentsRunClient, PTL
        DEF NothingComesBack, Client!LedgersOnlyGrow

-----------------------------------------------------------------------------
(* A Windows Sandbox (SandboxGuest).                                        *)

SandboxSteps == {"read", "launched", "status", "failing", "ok", "failed"}
SandboxScripts == [op : Box!ScriptOps, env : Boxes, at : SandboxSteps]
SandboxCalls ==
  {Box!Idle} \cup [op : {"create"}, env : Boxes, step : 1..5]
         \cup [op : {"destroy"}, env : Boxes, step : 1..6]
         \cup [op : Box!ScriptOps, env : Boxes, step : {0}, script : Scripts]

SandboxTyped ==
  /\ boxFiles \in [Boxes -> SUBSET Box!Names]
  /\ boxTorn \in [Boxes -> SUBSET Box!Written]
  /\ tracked \in [Boxes -> Ids \cup {Box!NoId}]
  /\ boxRequest \in SandboxCalls
  /\ scripts \in [Scripts -> {Box!NoScript} \cup SandboxScripts]
  /\ sandbox \in {Box!NoSandbox} \cup [id : Ids, owner : Boxes \cup {UserOfHost}]
  /\ unheard \subseteq Boxes

\* The binding is written after the directory and goes before it.
BoundInDirectory ==
  /\ \A e \in Boxes : "binding" \in boxFiles[e] => "dir" \in boxFiles[e]
  /\ boxRequest.op = "create" /\ boxRequest.step > 1 => "dir" \in boxFiles[boxRequest.env]

\* A script that runs is that of the call, or its environment is unheard.
ScriptsAreHeard ==
  \A c \in Scripts : scripts[c] # Box!NoScript =>
     IF Box!Asked(c) THEN scripts[c].op = boxRequest.op /\ scripts[c].env = boxRequest.env
     ELSE scripts[c].env \in unheard
LaunchedByStart == \A c \in Scripts : Box!At(c, "launched") => scripts[c].op = "start"
CallHasScript == Box!Waiting => scripts[boxRequest.script] # Box!NoScript

\* The Sandbox of an environment that is heard has its files, and is recorded
\* or about to be.
SandboxRecorded ==
  \A e \in Boxes \ unheard : sandbox.owner = e =>
     /\ {"dir", "binding", "descriptor"} \subseteq boxFiles[e]
     /\ \/ tracked[e] = sandbox.id
        \/ Box!Waiting /\ boxRequest.env = e /\ Box!At(boxRequest.script, "launched")

\* None runs while its files are removed, nor once that was found.
RemovedAfterExit ==
  \A e \in Boxes \ unheard :
     (/\ boxRequest # Box!Idle /\ boxRequest.env = e
      /\ \/ boxRequest.op = "destroy"
         \/ /\ boxRequest.op = "assert-exited"
            /\ Box!At(boxRequest.script, "status") \/ Box!At(boxRequest.script, "ok"))
     => sandbox.owner # e

SandboxHeld ==
  /\ BoundInDirectory /\ ScriptsAreHeard /\ LaunchedByStart /\ CallHasScript
  /\ SandboxRecorded /\ RemovedAfterExit

SandboxInv == SandboxTyped /\ SandboxHeld

\* What the names are.
LEMMA NamesAre ==
  /\ Box!Created[1] = "dir" /\ Box!Created[2] = "binding" /\ Box!Created[3] = "staging"
  /\ Box!Created[4] = "bootstrap" /\ Box!Created[5] = "descriptor" /\ Box!Len(Box!Created) = 5
  /\ Box!Removed[1] = "descriptor" /\ Box!Removed[2] = "status" /\ Box!Removed[3] = "receipt"
  /\ Box!Removed[4] = "bootstrap" /\ Box!Removed[5] = "staging" /\ Box!Len(Box!Removed) = 5
  /\ Box!Names = {"dir", "binding", "staging", "bootstrap", "descriptor", "status", "receipt", "leftover"}
<1>1. /\ Box!Created[1] = "dir" /\ Box!Created[2] = "binding" /\ Box!Created[3] = "staging"
      /\ Box!Created[4] = "bootstrap" /\ Box!Created[5] = "descriptor" /\ Box!Len(Box!Created) = 5
      /\ DOMAIN Box!Created = 1..5
  BY DEF Box!Created
<1>2. /\ Box!Removed[1] = "descriptor" /\ Box!Removed[2] = "status" /\ Box!Removed[3] = "receipt"
      /\ Box!Removed[4] = "bootstrap" /\ Box!Removed[5] = "staging" /\ Box!Len(Box!Removed) = 5
      /\ DOMAIN Box!Removed = 1..5
  BY DEF Box!Removed
<1>3. 1..5 = {1, 2, 3, 4, 5}
  OBVIOUS
<1>4. Box!ToSet(Box!Created) = {"dir", "binding", "staging", "bootstrap", "descriptor"}
  <2>1. Box!ToSet(Box!Created) = {Box!Created[i] : i \in 1..5}
    BY <1>1 DEF Box!ToSet
  <2> QED BY <2>1, <1>1, <1>3
<1>5. Box!ToSet(Box!Removed) = {"descriptor", "status", "receipt", "bootstrap", "staging"}
  <2>1. Box!ToSet(Box!Removed) = {Box!Removed[i] : i \in 1..5}
    BY <1>2 DEF Box!ToSet
  <2> QED BY <2>1, <1>2, <1>3
<1> QED BY <1>1, <1>2, <1>4, <1>5 DEF Box!Names

\* Finite sets and their sizes are what they are in SandboxGuest.
LEMMA BoxCounts == \A S : Box!Cardinality(S) = Cardinality(S) /\ (Box!IsFiniteSet(S) <=> IsFiniteSet(S))
BY DEF Box!Cardinality, Cardinality, Box!IsFiniteSet, IsFiniteSet

\* There is an identity that nothing recorded: there are more than receipts.
LEMMA FreshIsFresh ==
  ASSUME Box!SandboxAssumption, SandboxTyped
  PROVE Box!FreshId \in Ids /\ Box!FreshId # sandbox.id /\ \A e \in Boxes : tracked[e] # Box!FreshId
<1> DEFINE Receipted == {tracked[e] : e \in Boxes}
           All == Receipted \cup {sandbox.id}
<1>1. IsFiniteSet(Receipted) /\ Cardinality(Receipted) <= Cardinality(Boxes)
  <2>1. tracked \in [Boxes -> Receipted] /\ \A k \in Receipted : \E e \in Boxes : tracked[e] = k
    BY DEF SandboxTyped
  <2>2. tracked \in Surjection(Boxes, Receipted)
    BY <2>1 DEF Surjection
  <2> HIDE DEF Receipted
  <2> QED BY <2>2, FS_Surjection, BoxCounts DEF Box!SandboxAssumption
<1>2. /\ IsFiniteSet(All) /\ Cardinality(Receipted) \in Nat
      /\ Cardinality(All) <= Cardinality(Receipted) + 1
  <2> HIDE DEF Receipted
  <2>1. Cardinality(Receipted) \in Nat
    BY <1>1, FS_CardinalityType
  <2>2. IsFiniteSet(All) /\ Cardinality(All) \in {Cardinality(Receipted), Cardinality(Receipted) + 1}
    BY <1>1, FS_AddElement
  <2> QED BY <2>1, <2>2
<1>3. Cardinality(All) < Cardinality(Ids)
  <2>1. Cardinality(Ids) \in Nat /\ Cardinality(Boxes) \in Nat /\ Cardinality(All) \in Nat
    BY <1>2, FS_CardinalityType, BoxCounts DEF Box!SandboxAssumption
  <2> QED BY <2>1, <1>1, <1>2, BoxCounts DEF Box!SandboxAssumption
<1>4. ~(Ids \subseteq All)
  <2>1. SUFFICES ASSUME Ids \subseteq All PROVE FALSE
    OBVIOUS
  <2>2. Cardinality(Ids) <= Cardinality(All)
    BY <2>1, <1>2, FS_Subset
  <2>3. Cardinality(Ids) \in Nat /\ Cardinality(All) \in Nat
    BY <1>2, FS_CardinalityType, BoxCounts DEF Box!SandboxAssumption
  <2> QED BY <2>2, <2>3, <1>3
<1>5. \E id \in Ids : id # sandbox.id /\ \A e \in Boxes : tracked[e] # id
  BY <1>4
<1> QED BY <1>5 DEF Box!FreshId

\* What the call is says where it is.
LEMMA CallFacts ==
  ASSUME SandboxTyped
  PROVE /\ Box!Waiting => /\ boxRequest.op \in Box!ScriptOps /\ boxRequest.env \in Boxes
                          /\ boxRequest.script \in Scripts
        /\ boxRequest.op = "create" => /\ boxRequest.env \in Boxes /\ boxRequest.step \in 1..5
                                       /\ ~Box!Waiting /\ boxRequest # Box!Idle
        /\ boxRequest.op = "destroy" => /\ boxRequest.env \in Boxes /\ boxRequest.step \in 1..6
                                        /\ ~Box!Waiting /\ boxRequest # Box!Idle
        /\ boxRequest = Box!Idle => ~Box!Waiting /\ boxRequest.op \notin {"create", "destroy"}
        /\ boxRequest # Box!Idle => boxRequest.op \in {"create", "destroy"} \cup Box!ScriptOps
  BY DEF SandboxTyped, SandboxCalls, Box!Waiting, Box!Idle, Box!ScriptOps

\* A script goes on to another step.
Moved(c, to) ==
  /\ scripts' \in [Scripts -> {Box!NoScript} \cup SandboxScripts]
  /\ scripts[c] # Box!NoScript /\ scripts'[c] # Box!NoScript
  /\ scripts'[c].op = scripts[c].op /\ scripts'[c].env = scripts[c].env /\ scripts'[c].at = to
  /\ \A d \in Scripts \ {c} : scripts'[d] = scripts[d]

\* A script that runs is of an environment.
LEMMA ScriptRuns ==
  ASSUME SandboxTyped, NEW c \in Scripts, scripts[c] # Box!NoScript
  PROVE scripts[c].op \in Box!ScriptOps /\ scripts[c].env \in Boxes /\ scripts[c].at \in SandboxSteps
  BY DEF SandboxTyped, SandboxScripts

\* A script goes to another step.
LEMMA ScriptMoves ==
  ASSUME SandboxTyped, NEW c \in Scripts, scripts[c] # Box!NoScript, NEW to \in SandboxSteps,
         Box!Goto(c, to)
  PROVE Moved(c, to)
<1>1. PICK o \in Box!ScriptOps, e \in Boxes, a \in SandboxSteps :
        scripts[c] = [op |-> o, env |-> e, at |-> a]
  BY Zenon DEF SandboxTyped, SandboxScripts
<1> DEFINE r == [op |-> o, env |-> e, at |-> to]
<1>2. [scripts[c] EXCEPT !.at = to] = r
  BY <1>1
<1>3. scripts' = [scripts EXCEPT ![c] = r]
  BY <1>2 DEF Box!Goto, SandboxTyped
<1>4. r \in SandboxScripts /\ r # Box!NoScript /\ scripts[c].op = o /\ scripts[c].env = e
  BY <1>1 DEF SandboxScripts, Box!NoScript
<1> QED BY <1>3, <1>4 DEF Moved, SandboxTyped

\* A script ends.
Left(c) ==
  /\ scripts' \in [Scripts -> {Box!NoScript} \cup SandboxScripts]
  /\ scripts'[c] = Box!NoScript
  /\ \A d \in Scripts \ {c} : scripts'[d] = scripts[d]

\* A script ends.
LEMMA ScriptLeaves ==
  ASSUME SandboxTyped, NEW c \in Scripts, Box!Ended(c) PROVE Left(c)
  BY DEF Box!Ended, Left, SandboxTyped

\* An environment is heard again only when its script alone runs.
HeardAgain(c) ==
  \/ unheard' = unheard
  \/ /\ Box!Asked(c) /\ unheard' \subseteq unheard
     /\ \A d \in Scripts \ {c} : scripts[d] = Box!NoScript

\* The directory and the binding stay.
StayBound == \A e \in Boxes : /\ "dir" \in boxFiles'[e] <=> "dir" \in boxFiles[e]
                              /\ "binding" \in boxFiles'[e] <=> "binding" \in boxFiles[e]

\* What a step of a script has to show.
LEMMA ScriptStepKeeps ==
  ASSUME SandboxInv, NEW c \in Scripts, NEW to, Moved(c, to), HeardAgain(c), StayBound,
         UNCHANGED <<boxRequest, boxTorn>>,
         boxFiles' \in [Boxes -> SUBSET Box!Names],
         tracked' \in [Boxes -> Ids \cup {Box!NoId}],
         sandbox' \in {Box!NoSandbox} \cup [id : Ids, owner : Boxes \cup {UserOfHost}],
         to = "launched" => scripts[c].op = "start",
         SandboxRecorded', RemovedAfterExit'
  PROVE SandboxInv'
<1>1. SandboxTyped'
  BY DEF SandboxInv, SandboxTyped, Moved, HeardAgain
<1>2. \A d \in Scripts : Box!Asked(d)' <=> Box!Asked(d)
  BY DEF Box!Asked, Box!Waiting
<1>3. ScriptsAreHeard'
  BY <1>2 DEF SandboxInv, SandboxHeld, ScriptsAreHeard, Moved, HeardAgain
<1>4. CallHasScript'
  BY CallFacts DEF SandboxInv, SandboxHeld, CallHasScript, Box!Waiting, Moved
<1>5. BoundInDirectory'
  BY CallFacts DEF SandboxInv, SandboxHeld, BoundInDirectory, StayBound
<1>6. LaunchedByStart'
  BY DEF SandboxInv, SandboxHeld, LaunchedByStart, Box!At, Moved
<1> QED BY <1>1, <1>3, <1>4, <1>5, <1>6 DEF SandboxInv, SandboxHeld

\* A script that nobody waits for ends.
LEMMA UnaskedLeaves ==
  ASSUME SandboxInv, NEW c \in Scripts, ~Box!Asked(c), Left(c), StayBound,
         UNCHANGED <<boxRequest, boxTorn, tracked, sandbox, unheard>>,
         boxFiles' \in [Boxes -> SUBSET Box!Names], \A e \in Boxes : boxFiles[e] \subseteq boxFiles'[e]
  PROVE SandboxInv'
<1> SandboxTyped /\ SandboxHeld
  BY DEF SandboxInv
<1>1. SandboxTyped'
  BY DEF SandboxTyped, Left
<1>2. \A d \in Scripts : Box!Asked(d)' <=> Box!Asked(d)
  BY DEF Box!Asked, Box!Waiting
<1>3. ScriptsAreHeard'
  BY <1>2 DEF SandboxHeld, ScriptsAreHeard, Left
<1>4. Box!Waiting' <=> Box!Waiting
  BY DEF Box!Waiting
<1>5. Box!Waiting => boxRequest.script # c /\ scripts'[boxRequest.script] = scripts[boxRequest.script]
  BY CallFacts DEF Box!Asked, Box!Waiting, Left
<1>6. CallHasScript'
  BY <1>4, <1>5 DEF SandboxHeld, CallHasScript
<1>7. BoundInDirectory'
  BY CallFacts DEF SandboxHeld, BoundInDirectory, StayBound
<1>8. SandboxRecorded'
  BY <1>4, <1>5 DEF SandboxHeld, SandboxRecorded, Box!At
<1>9. RemovedAfterExit'
  <2>1. boxRequest # Box!Idle /\ boxRequest.op = "assert-exited" => Box!Waiting
    BY DEF Box!Waiting, Box!ScriptOps
  <2> QED BY <2>1, <1>5 DEF SandboxHeld, RemovedAfterExit, Box!At
<1>10. LaunchedByStart'
  BY DEF SandboxHeld, LaunchedByStart, Box!At, Left
<1> QED BY <1>1, <1>3, <1>6, <1>7, <1>8, <1>9, <1>10 DEF SandboxInv, SandboxHeld

\* Where no Sandbox runs none is of an environment.
LEMMA NoSandboxOfNobody ==
  ASSUME Box!SandboxAssumption
  PROVE \A e \in Boxes : Box!NoSandbox.owner # e
  BY DEF Box!NoSandbox, Box!SandboxAssumption

\* A script that moves while the receipts and the process stay, and so do the
\* files that an environment needs.
LEMMA QuietMoves ==
  ASSUME Box!SandboxAssumption, SandboxInv, NEW c \in Scripts, NEW to, Moved(c, to), HeardAgain(c),
         StayBound, UNCHANGED <<boxRequest, boxTorn, sandbox>>,
         tracked' \in [Boxes -> Ids \cup {Box!NoId}],
         unheard' # unheard \/ tracked' # tracked => sandbox = Box!NoSandbox,
         ~Box!At(c, "launched"), to # "launched",
         to = "status" /\ scripts[c].op = "assert-exited" => sandbox = Box!NoSandbox,
         to = "ok" => Box!At(c, "status"),
         boxFiles' \in [Boxes -> SUBSET Box!Names],
         \A e \in Boxes : "descriptor" \in boxFiles[e] => "descriptor" \in boxFiles'[e]
  PROVE SandboxInv'
<1> SandboxTyped /\ SandboxHeld
  BY DEF SandboxInv
<1>1. Box!Waiting' <=> Box!Waiting
  BY DEF Box!Waiting
<1>2. ASSUME NEW e \in Boxes, e \notin unheard', sandbox.owner = e
      PROVE e \notin unheard /\ tracked' = tracked
  BY <1>2, NoSandboxOfNobody
<1>3. SandboxRecorded'
  <2>1. ASSUME NEW e \in Boxes, e \notin unheard', sandbox'.owner = e
        PROVE /\ {"dir", "binding", "descriptor"} \subseteq boxFiles'[e]
              /\ \/ tracked'[e] = sandbox'.id
                 \/ Box!Waiting' /\ boxRequest'.env = e /\ Box!At(boxRequest.script, "launched")'
    <3>1. e \notin unheard /\ tracked' = tracked /\ sandbox.owner = e
      BY <2>1, <1>2
    <3>2. /\ {"dir", "binding", "descriptor"} \subseteq boxFiles[e]
          /\ \/ tracked[e] = sandbox.id
             \/ Box!Waiting /\ boxRequest.env = e /\ Box!At(boxRequest.script, "launched")
      BY <3>1 DEF SandboxHeld, SandboxRecorded
    <3>3. Box!Waiting /\ Box!At(boxRequest.script, "launched") => Box!At(boxRequest.script, "launched")'
      BY CallFacts DEF Moved, Box!At
    <3> QED BY <3>1, <3>2, <3>3, <1>1 DEF StayBound
  <2> QED BY <2>1 DEF SandboxRecorded
<1>4. RemovedAfterExit'
  <2>1. ASSUME NEW e \in Boxes \ unheard',
               (/\ boxRequest # Box!Idle /\ boxRequest.env = e
                /\ \/ boxRequest.op = "destroy"
                   \/ /\ boxRequest.op = "assert-exited"
                      /\ Box!At(boxRequest.script, "status") \/ Box!At(boxRequest.script, "ok"))',
               sandbox'.owner = e
        PROVE FALSE
    <3>0. /\ e \in Boxes /\ e \notin unheard' /\ sandbox.owner = e /\ boxRequest # Box!Idle /\ boxRequest.env = e
          /\ \/ boxRequest.op = "destroy"
             \/ /\ boxRequest.op = "assert-exited"
                /\ (Box!At(boxRequest.script, "status") \/ Box!At(boxRequest.script, "ok"))'
      BY <2>1
    <3>1. e \notin unheard
      BY <3>0, <1>2
    <3>2. boxRequest.op = "assert-exited" /\ (Box!At(boxRequest.script, "status") \/ Box!At(boxRequest.script, "ok"))'
          /\ ~(Box!At(boxRequest.script, "status") \/ Box!At(boxRequest.script, "ok"))
      BY <3>1, <3>0 DEF SandboxHeld, RemovedAfterExit
    <3>3. Box!Waiting /\ boxRequest.script \in Scripts
      BY <3>2, <3>0, CallFacts DEF Box!Waiting, Box!ScriptOps
    <3>4. boxRequest.script = c /\ to \in {"status", "ok"}
      BY <3>2, <3>3 DEF Moved, Box!At
    <3>5. Box!Asked(c) /\ scripts[c].op = "assert-exited"
      BY <3>2, <3>3, <3>4, <3>0 DEF Box!Asked, SandboxHeld, ScriptsAreHeard, Moved
    <3>6. sandbox # Box!NoSandbox
      BY <3>0, NoSandboxOfNobody
    <3> QED BY <3>2, <3>4, <3>5, <3>6
  <2> QED BY <2>1 DEF RemovedAfterExit
<1>5. sandbox' \in {Box!NoSandbox} \cup [id : Ids, owner : Boxes \cup {UserOfHost}]
  BY DEF SandboxTyped
<1> QED BY <1>3, <1>4, <1>5, ScriptStepKeeps

\* A script that finds nothing to do.
LEMMA ReadsNothingKeeps ==
  ASSUME Box!SandboxAssumption, SandboxInv, NEW c \in Scripts, Box!ReadsNothing(c) PROVE SandboxInv'
<1> SandboxTyped
  BY DEF SandboxInv
<1>u. UNCHANGED <<boxFiles, boxTorn, tracked, boxRequest, sandbox, unheard>> /\ Box!At(c, "read")
  BY DEF Box!ReadsNothing
<1>f. /\ boxFiles' \in [Boxes -> SUBSET Box!Names] /\ \A e \in Boxes : boxFiles[e] \subseteq boxFiles'[e]
      /\ StayBound /\ HeardAgain(c) /\ tracked' \in [Boxes -> Ids \cup {Box!NoId}]
  BY <1>u DEF SandboxTyped, StayBound, HeardAgain
<1>1. CASE Box!Asked(c) /\ Box!Goto(c, "failed")
  <2>1. Moved(c, "failed") /\ ~Box!At(c, "launched")
    BY <1>1, <1>u, ScriptMoves DEF Box!At, SandboxSteps
  <2> QED BY <2>1, <1>u, <1>f, QuietMoves
<1>2. CASE ~Box!Asked(c) /\ Box!Ended(c)
  BY <1>2, <1>u, <1>f, ScriptLeaves, UnaskedLeaves
<1> QED BY <1>1, <1>2 DEF Box!ReadsNothing

\* A script that only looks.
LEMMA ObserveKeeps ==
  ASSUME Box!SandboxAssumption, SandboxInv, NEW c \in Scripts, Box!Observe(c) PROVE SandboxInv'
<1> SandboxTyped
  BY DEF SandboxInv
<1>u. UNCHANGED <<boxFiles, boxTorn, tracked, boxRequest, sandbox, unheard>> /\ Box!At(c, "read")
      /\ scripts[c].op # "assert-exited"
  BY DEF Box!Observe, Box!Ready
<1>f. /\ boxFiles' \in [Boxes -> SUBSET Box!Names] /\ \A e \in Boxes : boxFiles[e] \subseteq boxFiles'[e]
      /\ StayBound /\ HeardAgain(c) /\ tracked' \in [Boxes -> Ids \cup {Box!NoId}]
  BY <1>u DEF SandboxTyped, StayBound, HeardAgain
<1>1. PICK to \in {"status", "failing"} : Box!Goto(c, to)
  BY DEF Box!Observe
<1>2. Moved(c, to) /\ ~Box!At(c, "launched")
  BY <1>1, <1>u, ScriptMoves DEF Box!At, SandboxSteps
<1> QED BY <1>1, <1>2, <1>u, <1>f, QuietMoves

\* An environment whose Sandbox is gone forgets its receipt and status.
LEMMA ForgetFacts ==
  ASSUME SandboxTyped, NEW e \in Boxes, Box!Forget(e)
  PROVE /\ boxFiles' \in [Boxes -> SUBSET Box!Names] /\ tracked' \in [Boxes -> Ids \cup {Box!NoId}]
        /\ StayBound
        /\ \A d \in Boxes : "descriptor" \in boxFiles[d] => "descriptor" \in boxFiles'[d]
        /\ \A d \in Boxes : d # e => tracked'[d] = tracked[d]
  BY DEF Box!Forget, Box!Drop, SandboxTyped, StayBound

\* The script that reads is the only one that may hold its environment.
LEMMA OnlyItsScript ==
  ASSUME Box!SandboxAssumption, SandboxInv, NEW c \in Scripts, scripts[c] # Box!NoScript,
         ~Box!At(c, "launched"),
         scripts[c].env \notin unheard, sandbox.owner = scripts[c].env
  PROVE Box!Exact(scripts[c].env)
<1> SandboxTyped /\ SandboxHeld
  BY DEF SandboxInv
<1> DEFINE e == scripts[c].env
<1>1. e \in Boxes
  BY ScriptRuns
<1>2. Box!Asked(c)
  BY DEF SandboxHeld, ScriptsAreHeard
<1>3. tracked[e] = sandbox.id
  BY <1>1, <1>2 DEF SandboxHeld, SandboxRecorded, Box!Asked
<1>4. sandbox.id \in Ids
  BY <1>1, NoSandboxOfNobody DEF SandboxTyped
<1> QED BY <1>3, <1>4 DEF Box!Exact, Box!SandboxAssumption

\* A script that asserts that the Sandbox exited.
LEMMA AssertExitedKeeps ==
  ASSUME Box!SandboxAssumption, SandboxInv, NEW c \in Scripts, Box!AssertExited(c) PROVE SandboxInv'
<1> SandboxTyped
  BY DEF SandboxInv
<1> DEFINE e == scripts[c].env
<1>u. UNCHANGED <<boxTorn, boxRequest, sandbox>> /\ Box!At(c, "read") /\ scripts[c] # Box!NoScript
  BY DEF Box!AssertExited, Box!Ready, Box!At
<1>e. e \in Boxes
  BY <1>u, ScriptRuns
<1>1. CASE ~Box!AnySandbox /\ Box!Forget(e) /\ Box!Hear(c, e) /\ Box!Goto(c, "status")
  <2>1. Moved(c, "status") /\ ~Box!At(c, "launched")
    BY <1>1, <1>u, ScriptMoves DEF Box!At, SandboxSteps
  <2>2. sandbox = Box!NoSandbox /\ HeardAgain(c)
    BY <1>1 DEF Box!AnySandbox, Box!Hear, HeardAgain
  <2> QED BY <2>1, <2>2, <1>1, <1>e, <1>u, ForgetFacts, QuietMoves
<1>2. CASE Box!Goto(c, "failing") /\ UNCHANGED <<boxFiles, tracked, unheard>>
  <2>1. Moved(c, "failing") /\ ~Box!At(c, "launched")
    BY <1>2, <1>u, ScriptMoves DEF Box!At, SandboxSteps
  <2>2. /\ boxFiles' \in [Boxes -> SUBSET Box!Names] /\ \A d \in Boxes : boxFiles[d] \subseteq boxFiles'[d]
        /\ StayBound /\ HeardAgain(c) /\ tracked' \in [Boxes -> Ids \cup {Box!NoId}]
    BY <1>2 DEF SandboxTyped, StayBound, HeardAgain
  <2> QED BY <2>1, <2>2, <1>2, <1>u, QuietMoves
<1> QED BY <1>1, <1>2 DEF Box!AssertExited

\* A script that writes the status.
LEMMA SandboxStatusKeeps ==
  ASSUME Box!SandboxAssumption, SandboxInv, NEW c \in Scripts, Box!WriteStatus(c) PROVE SandboxInv'
<1> SandboxTyped
  BY DEF SandboxInv
<1> DEFINE e == scripts[c].env
<1>u. UNCHANGED <<boxTorn, tracked, boxRequest, sandbox, unheard>> /\ scripts[c] # Box!NoScript
      /\ scripts[c].at \in {"status", "failing"}
  BY DEF Box!WriteStatus, Box!At
<1>e. e \in Boxes
  BY <1>u, ScriptRuns
<1>f. /\ boxFiles' \in [Boxes -> SUBSET Box!Names] /\ \A d \in Boxes : boxFiles[d] \subseteq boxFiles'[d]
      /\ StayBound /\ HeardAgain(c) /\ tracked' \in [Boxes -> Ids \cup {Box!NoId}]
  BY <1>u, <1>e, NamesAre DEF Box!WriteStatus, Box!Put, SandboxTyped, StayBound, HeardAgain
<1>1. CASE Box!Asked(c)
  <2>1. PICK to \in {"ok", "failed"} : Box!Goto(c, to) /\ (to = "ok" => Box!At(c, "status"))
    BY <1>1 DEF Box!WriteStatus
  <2>2. Moved(c, to) /\ ~Box!At(c, "launched")
    BY <2>1, <1>u, ScriptMoves DEF Box!At, SandboxSteps
  <2> QED BY <2>1, <2>2, <1>u, <1>f, QuietMoves
<1>2. CASE ~Box!Asked(c)
  <2>1. Left(c)
    BY <1>2, ScriptLeaves DEF Box!WriteStatus
  <2> QED BY <2>1, <1>2, <1>u, <1>f, UnaskedLeaves
<1> QED BY <1>1, <1>2

\* A start launches a Sandbox where none of the environment runs.
LEMMA StartKeeps ==
  ASSUME Box!SandboxAssumption, SandboxInv, NEW c \in Scripts, Box!Start(c) PROVE SandboxInv'
<1> SandboxTyped /\ SandboxHeld
  BY DEF SandboxInv
<1>u. UNCHANGED <<boxTorn, boxRequest, unheard>> /\ Box!At(c, "read") /\ scripts[c] # Box!NoScript
      /\ scripts[c].op = "start" /\ Box!Holds(scripts[c].env, {"descriptor", "binding"})
  BY DEF Box!Start, Box!Ready, Box!At
<1>e. PICK e \in Boxes : e = scripts[c].env
  BY <1>u, ScriptRuns
<1>h. HeardAgain(c)
  BY <1>u DEF HeardAgain
<1>1. CASE Box!Goto(c, "status") /\ UNCHANGED <<boxFiles, tracked, sandbox>>
  <2>1. Moved(c, "status") /\ ~Box!At(c, "launched")
    BY <1>1, <1>u, ScriptMoves DEF Box!At, SandboxSteps
  <2>2. boxFiles' \in [Boxes -> SUBSET Box!Names] /\ StayBound /\ tracked' \in [Boxes -> Ids \cup {Box!NoId}]
    BY <1>1 DEF SandboxTyped, StayBound
  <2> QED BY <2>1, <2>2, <1>1, <1>u, <1>h, QuietMoves
<1>2. CASE ~Box!Exact(e) /\ Box!AnySandbox /\ Box!Forget(e) /\ Box!Goto(c, "failing") /\ UNCHANGED sandbox
  <2>1. Moved(c, "failing") /\ ~Box!At(c, "launched")
    BY <1>2, <1>u, ScriptMoves DEF Box!At, SandboxSteps
  <2>2. e \in unheard \/ sandbox.owner # e
    BY <1>2, <1>e, <1>u, <2>1, OnlyItsScript
  <2>3. SandboxRecorded'
    <3>1. ASSUME NEW d \in Boxes, d \notin unheard, sandbox.owner = d
          PROVE /\ {"dir", "binding", "descriptor"} \subseteq boxFiles'[d]
                /\ \/ tracked'[d] = sandbox.id
                   \/ Box!Waiting /\ boxRequest.env = d /\ Box!At(boxRequest.script, "launched")'
      <4>1. d # e
        BY <3>1, <2>2
      <4>2. Box!Waiting /\ Box!At(boxRequest.script, "launched") => Box!At(boxRequest.script, "launched")'
        BY <2>1, <1>u, CallFacts DEF Moved, Box!At
      <4> QED BY <3>1, <4>1, <4>2, <1>2, <1>e, ForgetFacts
                 DEF SandboxHeld, SandboxRecorded, StayBound
    <3> QED BY <3>1, <1>2, <1>u DEF SandboxRecorded, Box!Waiting
  <2>4. RemovedAfterExit'
    <3>1. Box!Waiting /\ boxRequest.script = c => boxRequest.op = "start"
      BY <1>u DEF SandboxHeld, ScriptsAreHeard, Box!Asked, Box!Waiting
    <3>2. boxRequest # Box!Idle /\ boxRequest.op = "assert-exited"
            => /\ boxRequest.script \in Scripts /\ boxRequest.script # c
               /\ scripts'[boxRequest.script] = scripts[boxRequest.script]
      BY <3>1, <2>1, CallFacts DEF Box!Waiting, Box!ScriptOps, Moved
    <3> QED BY <3>2, <1>2, <1>u DEF SandboxHeld, RemovedAfterExit, Box!At
  <2>5. sandbox' \in {Box!NoSandbox} \cup [id : Ids, owner : Boxes \cup {UserOfHost}]
    BY <1>2 DEF SandboxTyped
  <2> QED BY <2>1, <2>3, <2>4, <2>5, <1>2, <1>e, <1>u, <1>h, ForgetFacts, ScriptStepKeeps
<1>3. CASE /\ ~Box!AnySandbox /\ Box!Forget(e)
           /\ sandbox' = [id |-> Box!FreshId, owner |-> e] /\ Box!Goto(c, "launched")
  <2>1. Moved(c, "launched")
    BY <1>3, <1>u, ScriptMoves DEF SandboxSteps
  <2>2. sandbox' \in [id : Ids, owner : Boxes \cup {UserOfHost}] /\ sandbox'.owner = e
    BY <1>3, FreshIsFresh
  <2>3. e \notin unheard => Box!Waiting /\ boxRequest.env = e /\ boxRequest.script = c
    BY <1>u, <1>e DEF SandboxHeld, ScriptsAreHeard, Box!Asked
  <2>4. {"dir", "binding", "descriptor"} \subseteq boxFiles'[e]
    BY <1>3, <1>u, <1>e, ForgetFacts DEF Box!Holds, SandboxHeld, BoundInDirectory, StayBound
  <2>5. SandboxRecorded'
    BY <2>1, <2>2, <2>3, <2>4, <1>u DEF SandboxRecorded, Box!Waiting, Box!At, Moved
  <2>6. RemovedAfterExit'
    <3>1. e \notin unheard => boxRequest.op = "start"
      BY <1>u, <1>e DEF SandboxHeld, ScriptsAreHeard
    <3> QED BY <3>1, <2>2, <1>u DEF RemovedAfterExit
  <2> QED BY <2>1, <2>2, <2>5, <2>6, <1>3, <1>e, <1>u, <1>h, ForgetFacts, ScriptStepKeeps
<1>4. \/ Box!Exact(e) /\ Box!Goto(c, "status") /\ UNCHANGED <<boxFiles, tracked, sandbox>>
      \/ ~Box!Exact(e) /\ Box!AnySandbox /\ Box!Forget(e) /\ Box!Goto(c, "failing") /\ UNCHANGED sandbox
      \/ /\ ~Box!Exact(e) /\ ~Box!AnySandbox /\ Box!Forget(e)
         /\ sandbox' = [id |-> Box!FreshId, owner |-> e] /\ Box!Goto(c, "launched")
  BY <1>e, Zenon DEF Box!Start
<1> QED BY <1>1, <1>2, <1>3, <1>4

\* A start records the Sandbox it launched.
LEMMA RecordKeeps ==
  ASSUME Box!SandboxAssumption, SandboxInv, NEW c \in Scripts, Box!Record(c) PROVE SandboxInv'
<1> SandboxTyped /\ SandboxHeld
  BY DEF SandboxInv
<1>u. UNCHANGED <<boxTorn, boxRequest, sandbox, unheard>> /\ Box!At(c, "launched") /\ scripts[c] # Box!NoScript
  BY DEF Box!Record, Box!At
<1>e. PICK e \in Boxes : e = scripts[c].env
  BY <1>u, ScriptRuns
<1>h. HeardAgain(c)
  BY <1>u DEF HeardAgain
<1>p. sandbox' \in {Box!NoSandbox} \cup [id : Ids, owner : Boxes \cup {UserOfHost}]
  BY <1>u DEF SandboxTyped
<1>l. scripts[c].op = "start"
  BY <1>u DEF SandboxHeld, LaunchedByStart
<1>r. ASSUME NEW to, Moved(c, to) PROVE RemovedAfterExit'
  <2>1. Box!Waiting /\ boxRequest.script = c => boxRequest.op = "start"
    BY <1>u, <1>l DEF SandboxHeld, ScriptsAreHeard, Box!Asked, Box!Waiting
  <2>2. boxRequest # Box!Idle /\ boxRequest.op = "assert-exited"
          => /\ boxRequest.script \in Scripts /\ boxRequest.script # c
             /\ scripts'[boxRequest.script] = scripts[boxRequest.script]
    BY <2>1, <1>r, CallFacts DEF Box!Waiting, Box!ScriptOps, Moved
  <2> QED BY <2>2, <1>u DEF SandboxHeld, RemovedAfterExit, Box!At
<1>1. CASE /\ sandbox.owner = e /\ Box!Put(e, "receipt")
           /\ tracked' = [tracked EXCEPT ![e] = sandbox.id] /\ Box!Goto(c, "status")
  <2>1. Moved(c, "status")
    BY <1>1, <1>u, ScriptMoves DEF SandboxSteps
  <2>2. sandbox.id \in Ids
    BY <1>1, NoSandboxOfNobody DEF SandboxTyped
  <2>3. /\ boxFiles' \in [Boxes -> SUBSET Box!Names] /\ StayBound
        /\ tracked' \in [Boxes -> Ids \cup {Box!NoId}]
        /\ tracked'[e] = sandbox.id
        /\ \A d \in Boxes : boxFiles[d] \subseteq boxFiles'[d]
    BY <1>1, <2>2, NamesAre DEF Box!Put, SandboxTyped, StayBound
  <2>4. SandboxRecorded'
    BY <2>3, <1>1, <1>u DEF SandboxRecorded, SandboxHeld
  <2> QED BY <2>1, <2>3, <2>4, <1>r, <1>u, <1>h, <1>p, ScriptStepKeeps
<1>2. CASE /\ sandbox.owner # e \/ "dir" \notin boxFiles[e]
           /\ Box!Goto(c, "failing") /\ UNCHANGED <<boxFiles, tracked>>
  <2>1. Moved(c, "failing")
    BY <1>2, <1>u, ScriptMoves DEF SandboxSteps
  <2>2. boxFiles' \in [Boxes -> SUBSET Box!Names] /\ StayBound /\ tracked' \in [Boxes -> Ids \cup {Box!NoId}]
    BY <1>2 DEF SandboxTyped, StayBound
  <2>3. SandboxRecorded'
    <3>1. ASSUME NEW d \in Boxes, d \notin unheard, sandbox.owner = d
          PROVE /\ {"dir", "binding", "descriptor"} \subseteq boxFiles[d]
                /\ \/ tracked[d] = sandbox.id
                   \/ Box!Waiting /\ boxRequest.env = d /\ Box!At(boxRequest.script, "launched")'
      <4>1. d # e
        BY <3>1, <1>2 DEF SandboxHeld, SandboxRecorded
      <4>2. Box!Waiting /\ boxRequest.env = d => boxRequest.script # c
        BY <4>1, <1>e, <1>u DEF SandboxHeld, ScriptsAreHeard, Box!Asked, Box!Waiting
      <4>3. Box!Waiting /\ boxRequest.env = d /\ Box!At(boxRequest.script, "launched") => Box!At(boxRequest.script, "launched")'
        BY <4>2, <2>1, <1>u, CallFacts DEF Moved, Box!At
      <4> QED BY <3>1, <4>3 DEF SandboxHeld, SandboxRecorded
    <3> QED BY <3>1, <1>2, <1>u DEF SandboxRecorded, Box!Waiting
  <2> QED BY <2>1, <2>2, <2>3, <1>r, <1>2, <1>u, <1>h, <1>p, ScriptStepKeeps
<1>3. \/ /\ sandbox.owner = e /\ "dir" \in boxFiles[e] /\ Box!Put(e, "receipt")
         /\ tracked' = [tracked EXCEPT ![e] = sandbox.id] /\ Box!Goto(c, "status")
      \/ /\ sandbox.owner # e \/ "dir" \notin boxFiles[e]
         /\ Box!Goto(c, "failing") /\ UNCHANGED <<boxFiles, tracked>>
  BY <1>e, Zenon DEF Box!Record
<1> QED BY <1>1, <1>2, <1>3

\* A stop closes the Sandbox that the receipt names.
LEMMA StopKeeps ==
  ASSUME Box!SandboxAssumption, SandboxInv, NEW c \in Scripts, Box!Stop(c) PROVE SandboxInv'
<1> SandboxTyped /\ SandboxHeld
  BY DEF SandboxInv
<1>u. UNCHANGED <<boxTorn, boxRequest>> /\ Box!At(c, "read") /\ scripts[c] # Box!NoScript /\ scripts[c].op = "stop"
  BY DEF Box!Stop, Box!Ready, Box!At
<1>e. PICK e \in Boxes : e = scripts[c].env
  BY <1>u, ScriptRuns
<1>1. CASE sandbox' = Box!NoSandbox /\ Box!Forget(e) /\ Box!Hear(c, e) /\ Box!Goto(c, "status")
  <2>1. Moved(c, "status")
    BY <1>1, <1>u, ScriptMoves DEF SandboxSteps
  <2>2. HeardAgain(c)
    BY <1>1 DEF Box!Hear, HeardAgain
  <2>3. SandboxRecorded' /\ RemovedAfterExit'
    BY <1>1, NoSandboxOfNobody DEF SandboxRecorded, RemovedAfterExit
  <2> QED BY <2>1, <2>2, <2>3, <1>1, <1>u, ForgetFacts, ScriptStepKeeps
<1>2. CASE Box!Goto(c, "failing") /\ UNCHANGED <<boxFiles, tracked, sandbox, unheard>>
  <2>1. Moved(c, "failing") /\ ~Box!At(c, "launched")
    BY <1>2, <1>u, ScriptMoves DEF Box!At, SandboxSteps
  <2>2. boxFiles' \in [Boxes -> SUBSET Box!Names] /\ StayBound /\ tracked' \in [Boxes -> Ids \cup {Box!NoId}]
        /\ HeardAgain(c)
    BY <1>2 DEF SandboxTyped, StayBound, HeardAgain
  <2> QED BY <2>1, <2>2, <1>2, <1>u, QuietMoves
<1>3. \/ /\ sandbox' = Box!NoSandbox /\ Box!Forget(e) /\ Box!Hear(c, e) /\ Box!Goto(c, "status")
      \/ Box!Goto(c, "failing") /\ UNCHANGED <<boxFiles, tracked, sandbox, unheard>>
  BY <1>e, Zenon DEF Box!Stop
<1> QED BY <1>1, <1>2, <1>3

\* The process changes and no environment owns it.
LEMMA OthersProcess ==
  ASSUME Box!SandboxAssumption, SandboxInv,
         UNCHANGED <<boxFiles, boxTorn, tracked, boxRequest, scripts, unheard>>,
         sandbox' \in {Box!NoSandbox} \cup [id : Ids, owner : {UserOfHost}]
  PROVE SandboxInv'
<1> SandboxTyped /\ SandboxHeld
  BY DEF SandboxInv
<1>1. \A e \in Boxes : sandbox'.owner # e
  BY NoSandboxOfNobody DEF Box!SandboxAssumption
<1>2. SandboxTyped'
  BY DEF SandboxTyped
<1>3. BoundInDirectory' /\ ScriptsAreHeard' /\ LaunchedByStart' /\ CallHasScript'
  BY
     DEF SandboxHeld, BoundInDirectory, ScriptsAreHeard, LaunchedByStart, CallHasScript,
         Box!Asked, Box!Waiting, Box!At
<1>4. SandboxRecorded' /\ RemovedAfterExit'
  BY <1>1 DEF SandboxRecorded, RemovedAfterExit
<1> QED BY <1>2, <1>3, <1>4 DEF SandboxInv, SandboxHeld

\* A step of the application while no script is waited for.
LEMMA IdleStepKeeps ==
  ASSUME Box!SandboxAssumption, SandboxInv, ~Box!Waiting, ~Box!Waiting',
         boxRequest' \in SandboxCalls,
         UNCHANGED <<scripts, sandbox, unheard>>,
         boxFiles' \in [Boxes -> SUBSET Box!Names], boxTorn' \in [Boxes -> SUBSET Box!Written],
         tracked' \in [Boxes -> Ids \cup {Box!NoId}],
         BoundInDirectory',
         \A e \in Boxes \ unheard : sandbox.owner = e =>
            /\ {"dir", "binding", "descriptor"} \subseteq boxFiles'[e]
            /\ tracked'[e] = tracked[e]
            /\ boxRequest'.op = "destroy" => boxRequest'.env # e
  PROVE SandboxInv'
<1> SandboxTyped /\ SandboxHeld
  BY DEF SandboxInv
<1>1. SandboxTyped'
  BY DEF SandboxTyped
<1>2. ScriptsAreHeard' /\ LaunchedByStart' /\ CallHasScript'
  BY DEF SandboxHeld, ScriptsAreHeard, LaunchedByStart, CallHasScript, Box!Asked, Box!At
<1>3. SandboxRecorded'
  BY DEF SandboxHeld, SandboxRecorded
<1>4. RemovedAfterExit'
  <2>1. boxRequest' # Box!Idle => boxRequest'.op # "assert-exited"
    BY DEF Box!Waiting, Box!ScriptOps
  <2> QED BY <2>1 DEF RemovedAfterExit
<1> QED BY <1>1, <1>2, <1>3, <1>4 DEF SandboxInv, SandboxHeld

\* A creation begins where there is nothing.
LEMMA CreateBeginsKeeps ==
  ASSUME Box!SandboxAssumption, SandboxInv, NEW e \in Boxes, Box!CreateBegins(e) PROVE SandboxInv'
<1> SandboxTyped /\ SandboxHeld
  BY DEF SandboxInv
<1>1. boxRequest = Box!Idle /\ boxRequest' = [op |-> "create", env |-> e, step |-> 1]
      /\ UNCHANGED <<boxFiles, boxTorn, tracked, scripts, sandbox, unheard>>
  BY DEF Box!CreateBegins
<1>2. ~Box!Waiting /\ ~Box!Waiting' /\ boxRequest' \in SandboxCalls
  BY <1>1 DEF Box!Waiting, SandboxCalls, Box!ScriptOps
<1>3. BoundInDirectory'
  BY <1>1 DEF BoundInDirectory, SandboxHeld
<1>4. \A d \in Boxes \ unheard : sandbox.owner = d =>
            /\ {"dir", "binding", "descriptor"} \subseteq boxFiles'[d]
            /\ tracked'[d] = tracked[d]
            /\ boxRequest'.op = "destroy" => boxRequest'.env # d
  BY <1>1, <1>2 DEF SandboxHeld, SandboxRecorded
<1> QED BY <1>1, <1>2, <1>3, <1>4, IdleStepKeeps DEF SandboxTyped

\* A creation writes one file after another.
LEMMA CreateWritesKeeps ==
  ASSUME Box!SandboxAssumption, SandboxInv, Box!CreateWrites PROVE SandboxInv'
<1> SandboxTyped /\ SandboxHeld
  BY DEF SandboxInv
<1>e. PICK e \in Boxes, i \in 1..5 : e = boxRequest.env /\ i = boxRequest.step /\ boxRequest.op = "create"
                                    /\ ~Box!Waiting /\ boxRequest # Box!Idle
  BY CallFacts DEF Box!CreateWrites
<1>u. UNCHANGED <<tracked, scripts, sandbox, unheard>>
  BY DEF Box!CreateWrites
<1>r. boxRequest \in [op : {"create"}, env : Boxes, step : 1..5]
  BY <1>e DEF SandboxTyped, SandboxCalls, Box!Idle, Box!ScriptOps
<1>1. \/ /\ Box!Put(e, Box!Created[i])
         /\ boxRequest' = IF i = 5 THEN Box!Idle ELSE [boxRequest EXCEPT !.step = i + 1]
         /\ UNCHANGED boxTorn
      \/ boxRequest' = Box!Idle /\ UNCHANGED <<boxFiles, boxTorn>>
      \/ /\ Box!Put(e, Box!Created[i]) /\ Box!Created[i] \in Box!Written /\ boxRequest' = Box!Idle
         /\ boxTorn' = [boxTorn EXCEPT ![e] = @ \cup {Box!Created[i]}]
  BY <1>e, NamesAre DEF Box!CreateWrites, Box!Finish
<1>2. /\ boxRequest' = Box!Idle \/ /\ boxRequest' \in [op : {"create"}, env : Boxes, step : 1..5]
                                   /\ boxRequest'.env = e /\ boxRequest'.step = i + 1
      /\ boxRequest' \in SandboxCalls
  BY <1>1, <1>e, <1>r DEF SandboxCalls
<1>3. ~Box!Waiting' /\ boxRequest'.op # "destroy"
  BY <1>2 DEF Box!Waiting, Box!Idle, Box!ScriptOps
<1>4. /\ boxFiles' \in [Boxes -> SUBSET Box!Names] /\ boxTorn' \in [Boxes -> SUBSET Box!Written]
      /\ \A d \in Boxes : boxFiles[d] \subseteq boxFiles'[d]
      /\ \A d \in Boxes : d # e => boxFiles'[d] = boxFiles[d]
      /\ boxFiles'[e] \in {boxFiles[e], boxFiles[e] \cup {Box!Created[i]}}
      /\ boxRequest' # Box!Idle => boxFiles'[e] = boxFiles[e] \cup {Box!Created[i]}
  BY <1>1, NamesAre DEF Box!Put, SandboxTyped
<1>5. BoundInDirectory'
  <2>1. i > 1 => "dir" \in boxFiles[e]
    BY <1>e DEF SandboxHeld, BoundInDirectory
  <2>2. \A d \in Boxes : "binding" \in boxFiles'[d] => "dir" \in boxFiles'[d]
    BY <2>1, <1>4, NamesAre DEF SandboxHeld, BoundInDirectory
  <2>3. boxRequest' # Box!Idle => "dir" \in boxFiles'[e]
    BY <2>1, <1>4, NamesAre
  <2> QED BY <2>2, <2>3, <1>2 DEF BoundInDirectory, Box!Idle
<1>6. \A d \in Boxes \ unheard : sandbox.owner = d =>
            /\ {"dir", "binding", "descriptor"} \subseteq boxFiles'[d]
            /\ tracked'[d] = tracked[d]
            /\ boxRequest'.op = "destroy" => boxRequest'.env # d
  BY <1>3, <1>4, <1>u DEF SandboxHeld, SandboxRecorded
<1> QED BY <1>2, <1>3, <1>4, <1>5, <1>6, <1>e, <1>u, IdleStepKeeps DEF SandboxTyped

\* What was never bound is removed at once.
LEMMA DestroyUnboundKeeps ==
  ASSUME Box!SandboxAssumption, SandboxInv, NEW e \in Boxes, Box!DestroyUnbound(e) PROVE SandboxInv'
<1> SandboxTyped /\ SandboxHeld
  BY DEF SandboxInv
<1>1. PICK gone \in {{"staging"}, {"staging", "dir"}} : Box!Drop(e, gone)
  BY DEF Box!DestroyUnbound
<1>2. boxRequest = Box!Idle /\ "binding" \notin boxFiles[e]
      /\ UNCHANGED <<boxTorn, tracked, boxRequest, scripts, sandbox, unheard>>
  BY DEF Box!DestroyUnbound
<1>3. /\ boxFiles' \in [Boxes -> SUBSET Box!Names]
      /\ \A d \in Boxes : d # e => boxFiles'[d] = boxFiles[d]
      /\ boxFiles'[e] = boxFiles[e] \ gone
  BY <1>1 DEF Box!Drop, SandboxTyped
<1>4. BoundInDirectory'
  BY <1>2, <1>3 DEF BoundInDirectory, SandboxHeld, Box!Idle
<1>5. sandbox.owner = e => e \in unheard
  BY <1>2 DEF SandboxHeld, SandboxRecorded
<1>6. \A d \in Boxes \ unheard : sandbox.owner = d =>
            /\ {"dir", "binding", "descriptor"} \subseteq boxFiles'[d]
            /\ tracked'[d] = tracked[d]
            /\ boxRequest'.op = "destroy" => boxRequest'.env # d
  BY <1>2, <1>3, <1>5 DEF SandboxHeld, SandboxRecorded, Box!Idle
<1>7. ~Box!Waiting /\ ~Box!Waiting'
  BY <1>2 DEF Box!Waiting
<1> QED BY <1>2, <1>3, <1>4, <1>6, <1>7, IdleStepKeeps DEF SandboxTyped

\* A destruction removes one file after another.
LEMMA DestroyRemovesKeeps ==
  ASSUME Box!SandboxAssumption, SandboxInv, Box!DestroyRemoves PROVE SandboxInv'
<1> SandboxTyped /\ SandboxHeld
  BY DEF SandboxInv
<1>e. PICK e \in Boxes, i \in 1..6 : e = boxRequest.env /\ i = boxRequest.step /\ boxRequest.op = "destroy"
                                    /\ ~Box!Waiting /\ boxRequest # Box!Idle
  BY CallFacts DEF Box!DestroyRemoves
<1>u. UNCHANGED <<scripts, sandbox, unheard>>
  BY DEF Box!DestroyRemoves
<1>r. boxRequest \in [op : {"destroy"}, env : Boxes, step : 1..6]
  BY <1>e DEF SandboxTyped, SandboxCalls, Box!Idle, Box!ScriptOps
<1>1. CASE /\ i <= 5 /\ Box!Drop(e, {Box!Removed[i]})
           /\ boxTorn' = [boxTorn EXCEPT ![e] = @ \ {Box!Removed[i]}]
           /\ tracked' = IF Box!Removed[i] = "receipt" THEN [tracked EXCEPT ![e] = Box!NoId] ELSE tracked
           /\ boxRequest' = [boxRequest EXCEPT !.step = i + 1]
  <2>1. boxRequest' \in [op : {"destroy"}, env : Boxes, step : 1..6] /\ boxRequest'.env = e
    BY <1>1, <1>r, <1>e
  <2>2. boxRequest' \in SandboxCalls /\ ~Box!Waiting' /\ boxRequest'.op = "destroy"
    BY <2>1 DEF SandboxCalls, Box!Waiting, Box!ScriptOps
  <2>3. /\ boxFiles' \in [Boxes -> SUBSET Box!Names] /\ boxTorn' \in [Boxes -> SUBSET Box!Written]
        /\ tracked' \in [Boxes -> Ids \cup {Box!NoId}]
        /\ \A d \in Boxes : d # e => boxFiles'[d] = boxFiles[d] /\ tracked'[d] = tracked[d]
        /\ boxFiles'[e] = boxFiles[e] \ {Box!Removed[i]}
    BY <1>1 DEF Box!Drop, SandboxTyped
  <2>4. BoundInDirectory'
    BY <2>2, <2>3, <1>1, NamesAre DEF BoundInDirectory, SandboxHeld
  <2>5. e \in unheard \/ sandbox.owner # e
    BY <1>e DEF SandboxHeld, RemovedAfterExit
  <2>6. \A d \in Boxes \ unheard : sandbox.owner = d =>
            /\ {"dir", "binding", "descriptor"} \subseteq boxFiles'[d]
            /\ tracked'[d] = tracked[d]
            /\ boxRequest'.op = "destroy" => boxRequest'.env # d
    BY <2>1, <2>3, <2>5, <1>e DEF SandboxHeld, SandboxRecorded
  <2> QED BY <2>2, <2>3, <2>4, <2>6, <1>e, <1>u, IdleStepKeeps
<1>2. CASE /\ boxFiles' = boxFiles \/ Box!Drop(e, {"binding", "dir"}) \/ Box!Drop(e, {"binding"})
           /\ boxRequest' = Box!Idle
           /\ UNCHANGED <<boxTorn, tracked>>
  <2>1. ~Box!Waiting' /\ boxRequest' \in SandboxCalls /\ boxRequest'.op # "destroy"
    BY <1>2 DEF Box!Waiting, SandboxCalls, Box!Idle
  <2>2. /\ boxFiles' \in [Boxes -> SUBSET Box!Names]
        /\ \A d \in Boxes : d # e => boxFiles'[d] = boxFiles[d]
        /\ "binding" \in boxFiles'[e] => "dir" \in boxFiles'[e]
    BY <1>2 DEF Box!Drop, SandboxTyped, SandboxHeld, BoundInDirectory
  <2>3. BoundInDirectory'
    BY <2>2, <1>2 DEF BoundInDirectory, SandboxHeld, Box!Idle
  <2>4. e \in unheard \/ sandbox.owner # e
    BY <1>e DEF SandboxHeld, RemovedAfterExit
  <2>5. \A d \in Boxes \ unheard : sandbox.owner = d =>
            /\ {"dir", "binding", "descriptor"} \subseteq boxFiles'[d]
            /\ tracked'[d] = tracked[d]
            /\ boxRequest'.op = "destroy" => boxRequest'.env # d
    BY <2>1, <2>2, <2>4, <1>2, <1>e DEF SandboxHeld, SandboxRecorded
  <2> QED BY <2>1, <2>2, <2>3, <2>5, <1>2, <1>e, <1>u, IdleStepKeeps DEF SandboxTyped
<1> QED BY <1>1, <1>2, <1>e, NamesAre DEF Box!DestroyRemoves, Box!Finish

\* A call runs a script.
LEMMA InvokesKeep ==
  ASSUME Box!SandboxAssumption, SandboxInv, NEW o \in Box!ScriptOps, NEW e \in Boxes,
         boxRequest = Box!Idle, Box!Invoke(o, e),
         UNCHANGED <<boxFiles, boxTorn, tracked, sandbox, unheard>>
  PROVE SandboxInv'
<1> SandboxTyped /\ SandboxHeld
  BY DEF SandboxInv
<1> DEFINE r == [op |-> o, env |-> e, at |-> "read"]
<1>0. ASSUME \E d \in Scripts : scripts[d] = Box!NoScript
      PROVE (CHOOSE d \in Scripts : scripts[d] = Box!NoScript) \in Scripts
            /\ scripts[CHOOSE d \in Scripts : scripts[d] = Box!NoScript] = Box!NoScript
  BY <1>0
<1>1. PICK c \in Scripts :
        /\ scripts[c] = Box!NoScript /\ scripts' = [scripts EXCEPT ![c] = r]
        /\ boxRequest' = [op |-> o, env |-> e, step |-> 0, script |-> c]
  BY <1>0 DEF Box!Invoke
<1>2. r \in SandboxScripts /\ r # Box!NoScript
  BY DEF SandboxScripts, SandboxSteps, Box!NoScript
<1>3. /\ scripts' \in [Scripts -> {Box!NoScript} \cup SandboxScripts]
      /\ scripts'[c] = r /\ \A d \in Scripts \ {c} : scripts'[d] = scripts[d]
  BY <1>1, <1>2 DEF SandboxTyped
<1>4. boxRequest' \in SandboxCalls /\ Box!Waiting' /\ ~Box!Waiting /\ boxRequest'.op # "create" /\ boxRequest'.op # "destroy"
  BY <1>1 DEF SandboxCalls, Box!Waiting, Box!Idle, Box!ScriptOps
<1>5. SandboxTyped'
  BY <1>3, <1>4 DEF SandboxTyped
<1>6. \A d \in Scripts : Box!Asked(d)' <=> d = c
  BY <1>1, <1>4 DEF Box!Asked, Box!Waiting
<1>7. \A d \in Scripts : ~Box!Asked(d)
  BY DEF Box!Asked
<1>8. ScriptsAreHeard'
  BY <1>1, <1>3, <1>6, <1>7 DEF SandboxHeld, ScriptsAreHeard
<1>9. CallHasScript' /\ LaunchedByStart'
  BY <1>1, <1>2, <1>3 DEF SandboxHeld, CallHasScript, LaunchedByStart, Box!At
<1>10. BoundInDirectory'
  BY <1>4 DEF SandboxHeld, BoundInDirectory
<1>11. SandboxRecorded'
  BY <1>4 DEF SandboxHeld, SandboxRecorded
<1>12. RemovedAfterExit'
  BY <1>1, <1>3, <1>4 DEF RemovedAfterExit, Box!At
<1> QED BY <1>5, <1>8, <1>9, <1>10, <1>11, <1>12 DEF SandboxInv, SandboxHeld

\* A call ends and its script with it, or its environment is unheard from now on.
LEMMA CallEndsKeeps ==
  ASSUME Box!SandboxAssumption, SandboxInv, boxRequest # Box!Idle, boxRequest' \in SandboxCalls,
         ~Box!Waiting',
         NEW gone \in BOOLEAN,
         IF gone THEN Box!Waiting /\ Left(boxRequest.script) ELSE UNCHANGED scripts,
         UNCHANGED <<boxTorn, tracked, sandbox>>,
         unheard' \in {unheard, IF Box!Waiting THEN unheard \cup {boxRequest.env} ELSE unheard},
         Box!Waiting /\ (~gone \/ Box!At(boxRequest.script, "launched")) => boxRequest.env \in unheard',
         boxFiles' \in [Boxes -> SUBSET Box!Names], StayBound,
         \A e \in Boxes : boxFiles[e] \subseteq boxFiles'[e],
         boxRequest'.op # "create",
         boxRequest'.op = "destroy" => /\ boxRequest'.env = boxRequest.env
                                       /\ boxRequest.op = "assert-exited" /\ Box!At(boxRequest.script, "ok")
  PROVE SandboxInv'
<1> SandboxTyped /\ SandboxHeld
  BY DEF SandboxInv
<1>1. \A d \in Scripts : scripts'[d] \in {scripts[d], Box!NoScript}
  BY CallFacts DEF Left
<1>2. scripts' \in [Scripts -> {Box!NoScript} \cup SandboxScripts]
  BY DEF Left, SandboxTyped
<1>3. unheard \subseteq unheard' /\ unheard' \subseteq Boxes
  BY CallFacts DEF SandboxTyped
<1>4. SandboxTyped'
  BY <1>2, <1>3 DEF SandboxTyped
<1>5. \A d \in Scripts : ~Box!Asked(d)'
  BY DEF Box!Asked
<1>6. ASSUME NEW d \in Scripts, scripts'[d] # Box!NoScript PROVE scripts'[d].env \in unheard'
  <2>1. scripts[d] # Box!NoScript /\ scripts'[d] = scripts[d]
    BY <1>1, <1>6
  <2>2. CASE Box!Asked(d)
    <3>1. Box!Waiting /\ boxRequest.script = d /\ scripts[d].env = boxRequest.env
      BY <2>1, <2>2 DEF Box!Asked, SandboxHeld, ScriptsAreHeard
    <3>2. ~gone
      BY <3>1, <1>6 DEF Left
    <3> QED BY <3>1, <3>2, <2>1
  <2>3. CASE ~Box!Asked(d)
    BY <2>1, <2>3, <1>3 DEF SandboxHeld, ScriptsAreHeard
  <2> QED BY <2>2, <2>3
<1>7. ScriptsAreHeard' /\ CallHasScript'
  BY <1>5, <1>6 DEF ScriptsAreHeard, CallHasScript
<1>8. LaunchedByStart'
  BY <1>1 DEF LaunchedByStart, SandboxHeld, Box!At, Box!NoScript
<1>9. BoundInDirectory'
  BY DEF BoundInDirectory, SandboxHeld, StayBound
<1>10. SandboxRecorded'
  <2>1. ASSUME NEW e \in Boxes \ unheard', sandbox.owner = e
        PROVE {"dir", "binding", "descriptor"} \subseteq boxFiles'[e] /\ tracked[e] = sandbox.id
    BY <2>1, <1>3 DEF SandboxHeld, SandboxRecorded
  <2> QED BY <2>1 DEF SandboxRecorded
<1>11. RemovedAfterExit'
  <2>1. boxRequest'.op # "assert-exited" \/ boxRequest' = Box!Idle
    BY DEF Box!Waiting, Box!ScriptOps
  <2>2. boxRequest # Box!Idle
    OBVIOUS
  <2> QED BY <2>1, <2>2, <1>3 DEF SandboxHeld, RemovedAfterExit
<1> QED BY <1>4, <1>7, <1>8, <1>9, <1>10, <1>11 DEF SandboxInv, SandboxHeld

\* No call is none of those that write or remove.
LEMMA IdleFactsOfSandbox == Box!Idle \in SandboxCalls /\ Box!Idle.op = "idle"
  BY DEF SandboxCalls, Box!Idle

\* The application hears the end of the script.
LEMMA SandboxAnsweredKeeps ==
  ASSUME Box!SandboxAssumption, SandboxInv, Box!Answered PROVE SandboxInv'
<1> SandboxTyped /\ SandboxHeld
  BY DEF SandboxInv
<1>1. /\ Box!Waiting /\ scripts[boxRequest.script].at \in {"ok", "failed"}
      /\ UNCHANGED <<boxFiles, boxTorn, tracked, sandbox, unheard>>
      /\ \/ /\ boxRequest.op = "assert-exited" /\ scripts[boxRequest.script].at = "ok"
            /\ boxRequest' = [op |-> "destroy", env |-> boxRequest.env, step |-> 1]
         \/ boxRequest' = Box!Idle
  BY DEF Box!Answered, Box!Finish
<1>2. Left(boxRequest.script) /\ boxRequest.env \in Boxes /\ boxRequest # Box!Idle
  BY <1>1, CallFacts, ScriptLeaves DEF Box!Answered, Box!Waiting
<1>3. /\ boxRequest' \in SandboxCalls /\ ~Box!Waiting' /\ boxRequest'.op # "create"
  BY <1>1, <1>2, IdleFactsOfSandbox DEF SandboxCalls, Box!Waiting, Box!ScriptOps
<1>4. boxRequest'.op = "destroy" => /\ boxRequest'.env = boxRequest.env
                                    /\ boxRequest.op = "assert-exited" /\ Box!At(boxRequest.script, "ok")
  BY <1>1, IdleFactsOfSandbox DEF Box!At, SandboxHeld, CallHasScript
<1>5. /\ boxFiles' \in [Boxes -> SUBSET Box!Names] /\ StayBound
      /\ \A e \in Boxes : boxFiles[e] \subseteq boxFiles'[e]
  BY <1>1 DEF SandboxTyped, StayBound
<1>6. ~Box!At(boxRequest.script, "launched")
  BY <1>1 DEF Box!At
<1>7. TRUE \in BOOLEAN /\ unheard' = unheard
  BY <1>1
<1> QED BY <1>1, <1>2, <1>3, <1>4, <1>5, <1>6, <1>7, CallEndsKeeps

\* What is left over beside the files.
LEMMA LeftoverFacts ==
  ASSUME SandboxTyped, NEW e \in Boxes, Box!Put(e, "leftover") \/ UNCHANGED boxFiles
  PROVE /\ boxFiles' \in [Boxes -> SUBSET Box!Names] /\ StayBound
        /\ \A d \in Boxes : boxFiles[d] \subseteq boxFiles'[d]
<1>1. CASE Box!Put(e, "leftover")
  BY <1>1, NamesAre DEF Box!Put, SandboxTyped, StayBound
<1>2. CASE UNCHANGED boxFiles
  BY <1>2 DEF SandboxTyped, StayBound
<1> QED BY <1>1, <1>2

\* A script that took too long is killed, but what it launched stays.
LEMMA SandboxTimeoutKeeps ==
  ASSUME Box!SandboxAssumption, SandboxInv, Box!Timeout PROVE SandboxInv'
<1> SandboxTyped /\ SandboxHeld
  BY DEF SandboxInv
<1>1. /\ Box!Waiting /\ boxRequest' = Box!Idle
      /\ UNCHANGED <<boxTorn, tracked, sandbox>>
      /\ Box!Put(boxRequest.env, "leftover") \/ UNCHANGED boxFiles
      /\ unheard' = IF scripts[boxRequest.script].at = "launched" THEN unheard \cup {boxRequest.env} ELSE unheard
  BY DEF Box!Timeout, Box!Finish
<1>2. Left(boxRequest.script) /\ boxRequest.env \in Boxes /\ boxRequest # Box!Idle
  BY <1>1, CallFacts, ScriptLeaves DEF Box!Timeout, Box!Waiting
<1>3. /\ boxRequest' \in SandboxCalls /\ ~Box!Waiting' /\ boxRequest'.op # "create" /\ boxRequest'.op # "destroy"
  BY <1>1, IdleFactsOfSandbox DEF Box!Waiting
<1>4. /\ boxFiles' \in [Boxes -> SUBSET Box!Names] /\ StayBound
      /\ \A e \in Boxes : boxFiles[e] \subseteq boxFiles'[e]
  BY <1>1, <1>2, LeftoverFacts
<1>5. /\ Box!At(boxRequest.script, "launched") => boxRequest.env \in unheard'
      /\ unheard' \in {unheard, unheard \cup {boxRequest.env}}
  BY <1>1 DEF Box!At
<1>6. TRUE \in BOOLEAN
  OBVIOUS
<1> QED BY <1>1, <1>2, <1>3, <1>4, <1>5, <1>6, CallEndsKeeps

\* The application crashes, and its script goes on unheard.
LEMMA SandboxCrashKeeps ==
  ASSUME Box!SandboxAssumption, SandboxInv, Box!AppCrash PROVE SandboxInv'
<1> SandboxTyped /\ SandboxHeld
  BY DEF SandboxInv
<1> DEFINE works == Box!Waiting /\ scripts[boxRequest.script].at \notin {"ok", "failed"}
<1>1. /\ boxRequest # Box!Idle /\ boxRequest' = Box!Idle
      /\ UNCHANGED <<boxTorn, tracked, sandbox>>
      /\ unheard' = IF works THEN unheard \cup {boxRequest.env} ELSE unheard
      /\ IF Box!Waiting /\ ~works THEN Box!Ended(boxRequest.script) ELSE UNCHANGED scripts
      /\ IF Box!Waiting THEN Box!Put(boxRequest.env, "leftover") ELSE UNCHANGED boxFiles
  BY DEF Box!AppCrash, Box!Finish
<1>2. /\ boxRequest' \in SandboxCalls /\ ~Box!Waiting' /\ boxRequest'.op # "create" /\ boxRequest'.op # "destroy"
  BY <1>1, IdleFactsOfSandbox DEF Box!Waiting
<1>3. PICK gone \in BOOLEAN : gone <=> (Box!Waiting /\ ~works)
  OBVIOUS
<1>4. IF gone THEN Box!Waiting /\ Left(boxRequest.script) ELSE UNCHANGED scripts
  BY <1>1, <1>3, CallFacts, ScriptLeaves
<1>5. /\ boxFiles' \in [Boxes -> SUBSET Box!Names] /\ StayBound
      /\ \A e \in Boxes : boxFiles[e] \subseteq boxFiles'[e]
  <2>1. CASE Box!Waiting
    BY <2>1, <1>1, CallFacts, LeftoverFacts
  <2>2. CASE ~Box!Waiting
    BY <2>2, <1>1 DEF SandboxTyped, StayBound
  <2> QED BY <2>1, <2>2
<1>6. /\ unheard' \in {unheard, IF Box!Waiting THEN unheard \cup {boxRequest.env} ELSE unheard}
      /\ Box!Waiting /\ (~gone \/ Box!At(boxRequest.script, "launched")) => boxRequest.env \in unheard'
  BY <1>1, <1>3 DEF Box!At
<1> QED BY <1>1, <1>2, <1>4, <1>5, <1>6, CallEndsKeeps

\* The invariant holds at first.
LEMMA SandboxStarts ==
  ASSUME Box!SandboxAssumption, Box!SandboxInit PROVE SandboxInv
<1>1. SandboxTyped
  BY IdleFactsOfSandbox DEF Box!SandboxInit, SandboxTyped
<1>2. ~Box!Waiting /\ boxRequest = Box!Idle /\ \A c \in Scripts : scripts[c] = Box!NoScript
  BY DEF Box!Waiting, Box!SandboxInit
<1>3. BoundInDirectory
  BY IdleFactsOfSandbox DEF Box!SandboxInit, BoundInDirectory
<1>4. ScriptsAreHeard /\ LaunchedByStart /\ CallHasScript
  BY <1>2 DEF ScriptsAreHeard, LaunchedByStart, CallHasScript, Box!At
<1>5. SandboxRecorded /\ RemovedAfterExit
  BY NoSandboxOfNobody DEF Box!SandboxInit, SandboxRecorded, RemovedAfterExit
<1> QED BY <1>1, <1>3, <1>4, <1>5 DEF SandboxInv, SandboxHeld

\* Every step keeps the invariant.
LEMMA SandboxStep ==
  ASSUME Box!SandboxAssumption, SandboxInv, Box!SandboxNext PROVE SandboxInv'
<1> SandboxTyped
  BY DEF SandboxInv
<1>1. ASSUME NEW e \in Boxes,
             Box!CreateBegins(e) \/ Box!DestroyUnbound(e) \/ Box!Destroy(e) PROVE SandboxInv'
  <2>1. CASE Box!Destroy(e)
    <3>1. "assert-exited" \in Box!ScriptOps
      BY DEF Box!ScriptOps
    <3> QED BY <3>1, <2>1, InvokesKeep DEF Box!Destroy
  <2> QED BY <2>1, <1>1, CreateBeginsKeeps, DestroyUnboundKeeps
<1>2. ASSUME NEW e \in Boxes, NEW o \in {"start", "stop", "health", "logs"},
             Box!Call(o, e) PROVE SandboxInv'
  <2>1. o \in Box!ScriptOps
    BY DEF Box!ScriptOps
  <2> QED BY <2>1, <1>2, InvokesKeep DEF Box!Call
<1>3. ASSUME NEW c \in Scripts, Box!ScriptStep(c) PROVE SandboxInv'
  BY <1>3, ReadsNothingKeeps, StartKeeps, RecordKeeps, StopKeeps, ObserveKeeps, AssertExitedKeeps,
     SandboxStatusKeeps DEF Box!ScriptStep
<1>4. CASE Box!UserOpens
  <2>1. sandbox' \in [id : Ids, owner : {UserOfHost}]
    BY <1>4, FreshIsFresh DEF Box!UserOpens
  <2> QED BY <2>1, <1>4, OthersProcess DEF Box!UserOpens
<1>5. CASE Box!SandboxCloses
  BY <1>5, OthersProcess DEF Box!SandboxCloses
<1> QED BY <1>1, <1>2, <1>3, <1>4, <1>5, CreateWritesKeeps, SandboxAnsweredKeeps,
           DestroyRemovesKeeps,
           SandboxTimeoutKeeps, SandboxCrashKeeps DEF Box!SandboxNext

\* The backend that rests keeps its invariant.
LEMMA SandboxRests ==
  ASSUME SandboxInv, UNCHANGED Box!sandboxVars PROVE SandboxInv'
<1> USE DEF Box!sandboxVars
<1>1. SandboxTyped'
  BY DEF SandboxInv, SandboxTyped
<1>2. BoundInDirectory' /\ ScriptsAreHeard' /\ LaunchedByStart' /\ CallHasScript'
  BY DEF SandboxInv, SandboxHeld, BoundInDirectory, ScriptsAreHeard, LaunchedByStart, CallHasScript,
     Box!Asked, Box!Waiting, Box!At
<1>3. SandboxRecorded' /\ RemovedAfterExit'
  BY DEF SandboxInv, SandboxHeld, SandboxRecorded, RemovedAfterExit, Box!Waiting, Box!At
<1> QED BY <1>1, <1>2, <1>3 DEF SandboxInv, SandboxHeld

\* Only the script that stops closes, and only what its environment recorded.
LEMMA StopsItsOwn ==
  ASSUME SandboxTyped, [Box!SandboxNext]_(Box!sandboxVars), NEW c \in Scripts, Box!Ready(c, "stop"),
         scripts'[c] # scripts[c], sandbox' # sandbox
  PROVE tracked[scripts[c].env] = sandbox.id
<1>1. PICK d \in Scripts : Box!Start(d) \/ Box!Stop(d)
  BY
     DEF Box!SandboxNext, Box!sandboxVars, Box!CreateBegins, Box!DestroyUnbound, Box!Destroy,
         Box!Call, Box!CreateWrites, Box!Answered,
     Box!DestroyRemoves, Box!Timeout, Box!AppCrash, Box!ScriptStep, Box!ReadsNothing, Box!Record,
     Box!Observe, Box!AssertExited,
     Box!WriteStatus, Box!UserOpens, Box!SandboxCloses
<1>2. PICK to \in SandboxSteps : Box!Goto(d, to)
  BY <1>1 DEF Box!Start, Box!Stop, SandboxSteps
<1>3. d = c
  BY <1>2 DEF Box!Goto, SandboxTyped
<1>4. Box!Stop(c)
  BY <1>1, <1>3 DEF Box!Start, Box!Ready
<1>5. Box!Exact(scripts[c].env)
  BY <1>4 DEF Box!Stop, Box!AnySandbox
<1> QED BY <1>5 DEF Box!Exact

-----------------------------------------------------------------------------
(* A Hyper-V machine (HyperVGuest).                                         *)

ScriptSteps == {"read", "pend", "make", "adopt", "receipt", "settle", "remove", "rollback", "undo",
                "done", "failing", "ok", "failed"}
RunningControllers == [op : HyperV!Actions, at : ScriptSteps, i : 1..4]
HyperVCalls == {HyperV!AtRest, [op |-> "clean"]} \cup [op : HyperV!Actions, controller : Controllers]

HyperVTyped ==
  /\ directory \subseteq {"dir", "binding", "receipt", "status", "leftover"}
  /\ journal \in {HyperV!NoJournal} \cup HyperV!Journals
  /\ resource \in [HyperV!KindSet -> {"absent", "ours", "foreign"}]
  /\ power \in {"off", "running"}
  /\ caller \in HyperVCalls
  /\ controller \in [Controllers -> {HyperV!NoController} \cup RunningControllers]
  /\ creates \in 0..MaxCreates /\ unanswered \in BOOLEAN
  /\ \A c \in Controllers :
        HyperV!At(c, "pend") \/ HyperV!Creating(c, "make") => controller[c].i \in 1..3

\* One controller at most, that of the call.
OneController ==
  /\ \A c \in Controllers : controller[c] # HyperV!NoController =>
        HyperV!Waiting /\ caller.controller = c /\ caller.op = controller[c].op
  /\ HyperV!Waiting => /\ {"dir", "binding"} \subseteq directory
                       /\ controller[caller.controller] # HyperV!NoController

NothingOurs == \A k \in HyperV!KindSet : resource[k] # "ours"

\* The removal goes through the kinds from the last.
PassedIsGone(i) == \A j \in 1..3 : j > 4 - i => resource[HyperV!Kinds[j]] # "ours"

\* How far the controller came: what of the resources is journaled, or gone.
ControllerCame(c) ==
  /\ HyperV!Creating(c, "make") => HyperV!Kind(c) \in journal.owned
  /\ HyperV!Creating(c, "pend") \/ HyperV!Creating(c, "make") => journal.phase = "open"
  /\ controller[c].at \in {"remove", "settle"} => HyperV!Has("receipt")
  /\ controller[c].at \in {"rollback", "undo"} => ~HyperV!Has("receipt")
  /\ controller[c].at \in {"remove", "undo"} => PassedIsGone(controller[c].i)
  /\ controller[c].at \in {"settle", "done", "ok"} /\ controller[c].op = "remove" => NothingOurs
  /\ controller[c].at \in {"remove", "rollback", "undo"} => controller[c].op = "remove"

\* What is ours is in a directory that is bound, and named.
Accounted ==
  /\ ~NothingOurs => {"dir", "binding"} \subseteq directory
  /\ HyperV!Has("receipt") \/ \A k \in HyperV!KindSet : resource[k] = "ours" => k \in journal.owned
  /\ journal.phase = "complete" => NothingOurs
  /\ caller.op = "clean" => NothingOurs

HyperVInv ==
  /\ HyperVTyped
  /\ ~unanswered => OneController /\ Accounted /\ \A c \in Controllers : ControllerCame(c)

\* Nobody has outlived a call: who runs, and what is accounted for.
HyperVHeard == OneController /\ Accounted /\ \A c \in Controllers : ControllerCame(c)

\* A controller goes on to another step.
Wrote(c, to, next) ==
  /\ controller' \in [Controllers -> {HyperV!NoController} \cup RunningControllers]
  /\ controller[c] # HyperV!NoController /\ controller'[c] # HyperV!NoController
  /\ controller'[c].op = controller[c].op
  /\ controller'[c].at = to /\ controller'[c].i = next
  /\ \A d \in Controllers \ {c} : controller'[d] = controller[d]
  /\ \A d \in Controllers :
        (HyperV!At(d, "pend") \/ HyperV!Creating(d, "make"))' => controller'[d].i \in 1..3

\* What the tuple of kinds holds.
LEMMA KindsAre ==
  /\ HyperV!KindSet = {"switch", "disk", "vm"}
  /\ HyperV!Kinds[1] = "switch" /\ HyperV!Kinds[2] = "disk" /\ HyperV!Kinds[3] = "vm"
<1>1. DOMAIN HyperV!Kinds = 1..3
  BY DEF HyperV!Kinds
<1>2. HyperV!Kinds[1] = "switch" /\ HyperV!Kinds[2] = "disk" /\ HyperV!Kinds[3] = "vm"
  BY DEF HyperV!Kinds
<1>3. HyperV!KindSet = {HyperV!Kinds[i] : i \in 1..3}
  BY <1>1 DEF HyperV!KindSet, HyperV!ToSet
<1>4. 1..3 = {1, 2, 3}
  OBVIOUS
<1> QED BY <1>2, <1>3, <1>4

\* A controller that runs is in a step of a call.
LEMMA ControllerRuns ==
  ASSUME HyperVTyped, NEW c \in Controllers, controller[c] # HyperV!NoController
  PROVE /\ controller[c] \in RunningControllers
        /\ controller[c].op \in HyperV!Actions /\ controller[c].at \in ScriptSteps
        /\ controller[c].i \in 1..4
  BY DEF HyperVTyped, RunningControllers

\* A controller goes on to a step of one kind.
LEMMA ControllerWrites ==
  ASSUME HyperVTyped, NEW c \in Controllers, controller[c] # HyperV!NoController,
         NEW to \in ScriptSteps, NEW next \in 1..4,
         to \in {"pend", "make"} => next \in 1..3,
         HyperV!Proceed(c, to, next)
  PROVE Wrote(c, to, next)
<1> DEFINE r == [op |-> controller[c].op, at |-> to, i |-> next]
<1>1. controller[c] \in RunningControllers
  BY ControllerRuns
<1>2. r \in RunningControllers /\ r # HyperV!NoController
  BY <1>1 DEF RunningControllers, HyperV!NoController
<1>a. r = [[controller[c] EXCEPT !.at = to] EXCEPT !.i = next]
  <2>1. PICK o \in HyperV!Actions, a \in ScriptSteps, j \in 1..4 :
          controller[c] = [op |-> o, at |-> a, i |-> j]
    BY <1>1, Zenon DEF RunningControllers
  <2>2. [controller[c] EXCEPT !.at = to] = [op |-> o, at |-> to, i |-> j]
    BY <2>1
  <2>3. [[op |-> o, at |-> to, i |-> j] EXCEPT !.i = next] = [op |-> o, at |-> to, i |-> next]
    OBVIOUS
  <2>4. controller[c].op = o
    BY <2>1
  <2> QED BY <2>2, <2>3, <2>4
<1>b. controller' = [controller EXCEPT ![c] = [[@ EXCEPT !.at = to] EXCEPT !.i = next]]
  BY DEF HyperV!Proceed
<1>3. controller' = [controller EXCEPT ![c] = r]
  BY <1>a, <1>b DEF HyperVTyped
<1>4. controller'[c] = r /\ \A d \in Controllers \ {c} : controller'[d] = controller[d]
  BY <1>3 DEF HyperVTyped
<1>5. controller' \in [Controllers -> {HyperV!NoController} \cup RunningControllers]
  BY <1>2, <1>3 DEF HyperVTyped
<1>6. ASSUME NEW d \in Controllers, (HyperV!At(d, "pend") \/ HyperV!Creating(d, "make"))'
      PROVE controller'[d].i \in 1..3
  <2>1. CASE d = c
    BY <1>4, <1>6, <2>1 DEF HyperV!At, HyperV!Creating
  <2>2. CASE d # c
    <3>1. controller'[d] = controller[d]
      BY <1>4, <2>2
    <3>2. HyperV!At(d, "pend") \/ HyperV!Creating(d, "make")
      BY <3>1, <1>6 DEF HyperV!At, HyperV!Creating
    <3> QED BY <3>1, <3>2 DEF HyperVTyped
  <2> QED BY <2>1, <2>2
<1> QED BY <1>2, <1>4, <1>5, <1>6 DEF Wrote

\* A controller goes on to a step.
LEMMA ControllerGoes ==
  ASSUME HyperVTyped, NEW c \in Controllers, controller[c] # HyperV!NoController,
         NEW to \in ScriptSteps, HyperV!Goto(c, to)
  PROVE Wrote(c, to, 1)
<1>1. HyperV!Proceed(c, to, 1)
  BY DEF HyperV!Goto, HyperV!Proceed
<1> QED BY <1>1, ControllerWrites

\* It stays the only one, and only it came further.
LEMMA ScriptGoesOn ==
  ASSUME HyperVTyped, OneController, NEW c \in Controllers, NEW to, NEW next,
         Wrote(c, to, next), caller' = caller, directory \subseteq directory',
         ControllerCame(c)'
  PROVE OneController' /\ \A d \in Controllers : ControllerCame(d)'
<1>1. \A d \in Controllers : controller'[d] # HyperV!NoController =>
        controller[d] # HyperV!NoController /\ controller'[d].op = controller[d].op
  BY DEF Wrote
<1>2. \A d \in Controllers : controller[d] # HyperV!NoController => controller'[d] # HyperV!NoController
  BY DEF Wrote
<1>3. HyperV!Waiting' = HyperV!Waiting
  BY DEF HyperV!Waiting
<1>4. \A d \in Controllers : controller'[d] # HyperV!NoController =>
        HyperV!Waiting' /\ caller'.controller = d /\ caller'.op = controller'[d].op
  BY <1>1, <1>3 DEF OneController
<1>5. HyperV!Waiting => caller.controller \in Controllers
  BY DEF HyperV!Waiting, HyperVTyped, HyperVCalls, HyperV!AtRest, HyperV!Actions
<1>6. OneController'
  BY <1>2, <1>3, <1>4, <1>5 DEF OneController
<1>7. ASSUME NEW d \in Controllers PROVE ControllerCame(d)'
  <2>1. CASE d = c
    BY <2>1
  <2>2. CASE d # c
    <3>1. controller'[d] = HyperV!NoController
      BY <2>2, <1>4 DEF Wrote
    <3> QED BY <3>1 DEF ControllerCame, HyperV!Creating, HyperV!At, HyperV!NoController
  <2> QED BY <2>1, <2>2
<1> QED BY <1>6, <1>7

\* What a step of a controller has to show.
LEMMA ScriptKeeps ==
  ASSUME HyperVInv, NEW c \in Controllers, NEW to, NEW next, Wrote(c, to, next),
         UNCHANGED <<caller, creates, unanswered>>,
         directory \subseteq directory',
         directory' \subseteq {"dir", "binding", "receipt", "status", "leftover"},
         journal' \in {HyperV!NoJournal} \cup HyperV!Journals,
         resource' \in [HyperV!KindSet -> {"absent", "ours", "foreign"}],
         power' \in {"off", "running"},
         HyperVHeard => ControllerCame(c)' /\ Accounted'
  PROVE HyperVInv'
<1>1. HyperVTyped'
  BY DEF HyperVInv, HyperVTyped, Wrote
<1>2. ASSUME ~unanswered PROVE OneController' /\ Accounted' /\ \A d \in Controllers : ControllerCame(d)'
  BY <1>2, ScriptGoesOn DEF HyperVInv, HyperVHeard
<1> QED BY <1>1, <1>2 DEF HyperVInv

\* A controller reads what is there.
LEMMA ReadStateKeeps ==
  ASSUME HyperVInv, NEW c \in Controllers, HyperV!ReadState(c) PROVE HyperVInv'
<1> HyperVTyped
  BY DEF HyperVInv
<1>r. HyperV!At(c, "read") /\ controller[c] # HyperV!NoController
  BY DEF HyperV!ReadState, HyperV!At
<1>u. UNCHANGED <<directory, resource, power, caller, creates, unanswered>>
  BY DEF HyperV!ReadState, HyperV!Host
<1>1. ASSUME NEW to \in {"failing", "pend", "make", "remove", "rollback"}, HyperV!Goto(c, to)
      PROVE Wrote(c, to, 1)
  BY <1>1, <1>r, ControllerGoes DEF ScriptSteps
<1>2. PICK to : Wrote(c, to, 1)
  BY <1>1 DEF HyperV!ReadState, HyperV!Fail
<1>3. journal' \in {HyperV!NoJournal} \cup HyperV!Journals
  BY DEF HyperV!ReadState, HyperV!Journals, HyperV!NoJournal, HyperVTyped
<1>5. ASSUME HyperVHeard PROVE ControllerCame(c)' /\ Accounted'
  <2>h. OneController /\ Accounted /\ ControllerCame(c)
    BY <1>5 DEF HyperVHeard
  <2>1. CASE ~HyperV!Has("binding") /\ HyperV!Fail(c) /\ UNCHANGED journal
    <3>1. Wrote(c, "failing", 1)
      BY <2>1, <1>1 DEF HyperV!Fail
    <3> QED BY <3>1, <2>1, <2>h, <1>u
               DEF Wrote, ControllerCame, HyperV!Creating, HyperV!At, Accounted, NothingOurs,
                   HyperV!Has
  <2>2. CASE /\ HyperV!Has("binding") /\ controller[c].op = "create"
             /\ journal' = IF journal.phase \in {"none", "complete"}
                           THEN [phase |-> "open", owned |-> {}]
                           ELSE [journal EXCEPT !.phase = "open"]
             /\ HyperV!Goto(c, "pend")
    <3>1. Wrote(c, "pend", 1)
      BY <2>2, <1>1
    <3>2. journal'.phase = "open"
      BY <2>2 DEF HyperVTyped, HyperV!Journals, HyperV!NoJournal
    <3>3. Accounted'
      <4>1. CASE journal.phase = "none"
        <5>1. journal = HyperV!NoJournal
          BY <4>1 DEF HyperVTyped, HyperV!Journals
        <5> QED BY <3>2, <5>1, <2>h, <1>u DEF Accounted, NothingOurs, HyperV!Has, HyperV!NoJournal
      <4>2. CASE journal.phase = "complete"
        BY <4>2, <3>2, <2>h, <1>u DEF Accounted, NothingOurs, HyperV!Has
      <4>3. CASE journal.phase \notin {"none", "complete"}
        <5>1. journal'.owned = journal.owned
          BY <4>3, <2>2 DEF HyperVTyped, HyperV!Journals, HyperV!NoJournal
        <5> QED BY <5>1, <3>2, <2>h, <1>u DEF Accounted, NothingOurs, HyperV!Has
      <4> QED BY <4>1, <4>2, <4>3
    <3>4. ControllerCame(c)'
      BY <3>1, <3>2 DEF Wrote, ControllerCame, HyperV!Creating, HyperV!At
    <3> QED BY <3>3, <3>4
  <2>3. CASE /\ HyperV!Has("binding") /\ controller[c].op \notin {"create", "remove"}
             /\ IF HyperV!Has("receipt") THEN HyperV!Goto(c, "make") ELSE HyperV!Fail(c)
             /\ UNCHANGED journal
    <3>1. Wrote(c, "make", 1) \/ Wrote(c, "failing", 1)
      BY <2>3, <1>1 DEF HyperV!Fail
    <3> QED BY <3>1, <2>3, <2>h, <1>u
               DEF Wrote, ControllerCame, HyperV!Creating, HyperV!At, Accounted, NothingOurs,
                   HyperV!Has
  <2>4. CASE /\ HyperV!Has("binding") /\ controller[c].op = "remove"
             /\ IF HyperV!Has("receipt") THEN HyperV!Goto(c, "remove")
                ELSE IF journal # HyperV!NoJournal THEN HyperV!Goto(c, "rollback") ELSE HyperV!Fail(c)
             /\ UNCHANGED journal
    <3>1. \/ HyperV!Has("receipt") /\ Wrote(c, "remove", 1)
          \/ ~HyperV!Has("receipt") /\ Wrote(c, "rollback", 1)
          \/ Wrote(c, "failing", 1)
      BY <2>4, <1>1 DEF HyperV!Fail
    <3>2. PassedIsGone(1)'
      BY DEF PassedIsGone
    <3> QED BY <3>1, <3>2, <2>4, <2>h, <1>u
        DEF Wrote, ControllerCame, HyperV!Creating, HyperV!At, Accounted, NothingOurs, HyperV!Has
  <2> QED BY <2>1, <2>2, <2>3, <2>4 DEF HyperV!ReadState
<1> QED BY <1>2, <1>3, <1>5, <1>u, ScriptKeeps DEF HyperVTyped

\* A creation journals the resource it makes next.
LEMMA PendKeeps ==
  ASSUME HyperVInv, NEW c \in Controllers, HyperV!Pend(c) PROVE HyperVInv'
<1> HyperVTyped
  BY DEF HyperVInv
<1>r. HyperV!At(c, "pend") /\ controller[c] # HyperV!NoController /\ controller[c].op = "create"
  BY DEF HyperV!Pend, HyperV!Creating, HyperV!At
<1>i. controller[c].i \in 1..3 /\ HyperV!Kind(c) = HyperV!Kinds[controller[c].i] /\ HyperV!Kind(c) \in HyperV!KindSet
  BY <1>r, KindsAre DEF HyperVTyped, HyperV!Kind
<1>u. UNCHANGED <<directory, resource, power, caller, creates, unanswered>>
  BY DEF HyperV!Pend, HyperV!Host
<1>1. CASE resource[HyperV!Kind(c)] = "absent" /\ journal # HyperV!NoJournal
           /\ journal' = [journal EXCEPT !.owned = @ \cup {HyperV!Kind(c)}]
           /\ HyperV!Proceed(c, "make", controller[c].i)
  <2>1. Wrote(c, "make", controller[c].i)
    BY <1>1, <1>r, <1>i, ControllerWrites DEF ScriptSteps
  <2>2. journal \in HyperV!Journals
    BY <1>1 DEF HyperVTyped
  <2>3. journal' \in HyperV!Journals /\ journal'.phase = journal.phase
        /\ journal'.owned = journal.owned \cup {HyperV!Kind(c)}
    BY <2>2, <1>1, <1>i DEF HyperV!Journals
  <2>4. ASSUME HyperVHeard PROVE ControllerCame(c)' /\ Accounted'
    <3>h. OneController /\ Accounted /\ ControllerCame(c)
      BY <2>4 DEF HyperVHeard
    <3>1. HyperV!Kind(c)' = HyperV!Kind(c)
      BY <2>1 DEF HyperV!Kind, Wrote
    <3>2. journal.phase = "open"
      BY <3>h, <1>r DEF ControllerCame, HyperV!Creating
    <3>3. ControllerCame(c)'
      BY <2>1, <2>3, <3>1, <3>2, <1>r DEF Wrote, ControllerCame, HyperV!Creating, HyperV!At
    <3>4. Accounted'
      BY <2>3, <3>2, <3>h, <1>u DEF Accounted, NothingOurs, HyperV!Has
    <3> QED BY <3>3, <3>4
  <2> QED BY <2>1, <2>3, <2>4, <1>u, ScriptKeeps DEF HyperVTyped
<1>2. CASE /\ resource[HyperV!Kind(c)] = "ours"
           /\ HyperV!Proceed(c, IF HyperV!Kind(c) = "vm" THEN "adopt" ELSE "pend", controller[c].i + 1)
           /\ UNCHANGED journal
  <2>1. PICK to \in {"adopt", "pend"} : Wrote(c, to, controller[c].i + 1)
    <3>1. HyperV!Kind(c) # "vm" => controller[c].i + 1 \in 1..3
      BY <1>i, KindsAre
    <3> QED BY <1>2, <3>1, <1>r, <1>i, ControllerWrites DEF ScriptSteps
  <2>2. ASSUME HyperVHeard PROVE ControllerCame(c)' /\ Accounted'
    <3>h. OneController /\ Accounted /\ ControllerCame(c)
      BY <2>2 DEF HyperVHeard
    <3>2. journal.phase = "open"
      BY <3>h, <1>r DEF ControllerCame, HyperV!Creating
    <3> QED BY <2>1, <3>2, <3>h, <1>u, <1>2
        DEF Wrote, ControllerCame, HyperV!Creating, HyperV!At, Accounted, NothingOurs, HyperV!Has
  <2> QED BY <2>1, <2>2, <1>2, <1>u, ScriptKeeps DEF HyperVTyped
<1>3. CASE HyperV!Fail(c) /\ UNCHANGED journal
  <2>1. Wrote(c, "failing", 1)
    BY <1>3, <1>r, ControllerGoes DEF HyperV!Fail, ScriptSteps
  <2>2. ASSUME HyperVHeard PROVE ControllerCame(c)' /\ Accounted'
    BY <2>1, <2>2, <1>u, <1>3
   
        DEF HyperVHeard, Wrote, ControllerCame, HyperV!Creating, HyperV!At, Accounted,
            NothingOurs, HyperV!Has
  <2> QED BY <2>1, <2>2, <1>3, <1>u, ScriptKeeps DEF HyperVTyped
<1> QED BY <1>1, <1>2, <1>3 DEF HyperV!Pend

\* A creation makes the resource it journaled, or finds another of its name.
LEMMA MakeResourceKeeps ==
  ASSUME HyperVInv, NEW c \in Controllers, HyperV!MakeResource(c) PROVE HyperVInv'
<1> HyperVTyped
  BY DEF HyperVInv
<1>r. HyperV!Creating(c, "make") /\ controller[c] # HyperV!NoController /\ controller[c].op = "create"
  BY DEF HyperV!MakeResource, HyperV!Creating, HyperV!At
<1>i. controller[c].i \in 1..3 /\ HyperV!Kind(c) = HyperV!Kinds[controller[c].i] /\ HyperV!Kind(c) \in HyperV!KindSet
  BY <1>r, KindsAre DEF HyperVTyped, HyperV!Kind
<1>u. UNCHANGED <<directory, journal, caller, creates, unanswered>>
  BY DEF HyperV!MakeResource, HyperV!Host
<1>1. CASE /\ resource[HyperV!Kind(c)] = "absent"
           /\ resource' = [resource EXCEPT ![HyperV!Kind(c)] = "ours"]
           /\ power' = IF HyperV!Kind(c) = "vm" THEN "off" ELSE power
           /\ HyperV!Proceed(c, IF HyperV!Kind(c) = "vm" THEN "adopt" ELSE "pend", controller[c].i + 1)
  <2>1. PICK to \in {"adopt", "pend"} : Wrote(c, to, controller[c].i + 1)
    <3>1. HyperV!Kind(c) # "vm" => controller[c].i + 1 \in 1..3
      BY <1>i, KindsAre
    <3> QED BY <1>1, <3>1, <1>r, <1>i, ControllerWrites DEF ScriptSteps
  <2>t. resource' \in [HyperV!KindSet -> {"absent", "ours", "foreign"}] /\ power' \in {"off", "running"}
    BY <1>1, <1>i DEF HyperVTyped
  <2>k. \A k \in HyperV!KindSet : k # HyperV!Kind(c) => resource'[k] = resource[k]
    BY <1>1, <1>i DEF HyperVTyped
  <2>2. ASSUME HyperVHeard PROVE ControllerCame(c)' /\ Accounted'
    <3>h. OneController /\ Accounted /\ ControllerCame(c)
      BY <2>2 DEF HyperVHeard
    <3>1. journal.phase = "open" /\ HyperV!Kind(c) \in journal.owned
      BY <3>h, <1>r DEF ControllerCame
    <3>2. HyperV!Waiting /\ caller.op = "create" /\ {"dir", "binding"} \subseteq directory
      BY <3>h, <1>r DEF OneController
    <3>3. Accounted'
      BY <3>1, <3>2, <3>h, <2>k, <1>u DEF Accounted, NothingOurs, HyperV!Has
    <3>4. ControllerCame(c)'
      BY <2>1, <3>1, <3>h, <1>r, <1>u DEF Wrote, ControllerCame, HyperV!Creating, HyperV!At
    <3> QED BY <3>3, <3>4
  <2> QED BY <2>1, <2>t, <2>2, <1>u, ScriptKeeps DEF HyperVTyped
<1>2. CASE HyperV!Fail(c) /\ UNCHANGED <<resource, power>>
  <2>1. Wrote(c, "failing", 1)
    BY <1>2, <1>r, ControllerGoes DEF HyperV!Fail, ScriptSteps
  <2>2. ASSUME HyperVHeard PROVE ControllerCame(c)' /\ Accounted'
    BY <2>1, <2>2, <1>u, <1>2
   
        DEF HyperVHeard, Wrote, ControllerCame, HyperV!Creating, HyperV!At, Accounted,
            NothingOurs, HyperV!Has
  <2> QED BY <2>1, <2>2, <1>2, <1>u, ScriptKeeps DEF HyperVTyped
<1> QED BY <1>1, <1>2 DEF HyperV!MakeResource

\* A creation binds the machine.
LEMMA InitializeBoundVmKeeps ==
  ASSUME HyperVInv, NEW c \in Controllers, HyperV!InitializeBoundVm(c) PROVE HyperVInv'
<1> HyperVTyped
  BY DEF HyperVInv
<1>r. controller[c] # HyperV!NoController /\ controller[c].op = "create"
  BY DEF HyperV!InitializeBoundVm, HyperV!Creating, HyperV!At
<1>u. UNCHANGED <<directory, journal, resource, power, caller, creates, unanswered>>
  BY DEF HyperV!InitializeBoundVm, HyperV!Host
<1>1. PICK to \in {"receipt", "failing"} : Wrote(c, to, 1)
  BY <1>r, ControllerGoes DEF HyperV!InitializeBoundVm, HyperV!Fail, ScriptSteps
<1>2. ASSUME HyperVHeard PROVE ControllerCame(c)' /\ Accounted'
  BY <1>1, <1>2, <1>u
 
      DEF HyperVHeard, Wrote, ControllerCame, HyperV!Creating, HyperV!At, Accounted, NothingOurs,
          HyperV!Has
<1> QED BY <1>1, <1>2, <1>u, ScriptKeeps DEF HyperVTyped

\* The receipt takes the place of the journal.
LEMMA WriteReceiptKeeps ==
  ASSUME HyperVInv, NEW c \in Controllers, HyperV!WriteReceipt(c) PROVE HyperVInv'
<1> HyperVTyped
  BY DEF HyperVInv
<1>r. controller[c] # HyperV!NoController /\ controller[c].op = "create"
  BY DEF HyperV!WriteReceipt, HyperV!Creating, HyperV!At
<1>u. UNCHANGED <<journal, resource, power, caller, creates, unanswered>>
      /\ directory' = directory \cup {"receipt"}
  BY DEF HyperV!WriteReceipt, HyperV!Host
<1>1. Wrote(c, "settle", 1)
  BY <1>r, ControllerGoes DEF HyperV!WriteReceipt, ScriptSteps
<1>2. ASSUME HyperVHeard PROVE ControllerCame(c)' /\ Accounted'
  BY <1>1, <1>2, <1>u, <1>r
 
      DEF HyperVHeard, Wrote, ControllerCame, HyperV!Creating, HyperV!At, Accounted, NothingOurs,
          HyperV!Has
<1> QED BY <1>1, <1>2, <1>u, ScriptKeeps DEF HyperVTyped

\* The journal goes once the receipt is there.
LEMMA RemoveJournalKeeps ==
  ASSUME HyperVInv, NEW c \in Controllers, HyperV!RemoveJournal(c) PROVE HyperVInv'
<1> HyperVTyped
  BY DEF HyperVInv
<1>r. controller[c] # HyperV!NoController /\ controller[c].at = "settle"
  BY DEF HyperV!RemoveJournal, HyperV!At
<1>u. UNCHANGED <<directory, resource, power, caller, creates, unanswered>> /\ journal' = HyperV!NoJournal
  BY DEF HyperV!RemoveJournal, HyperV!Host
<1>1. Wrote(c, "done", 1)
  BY <1>r, ControllerGoes DEF HyperV!RemoveJournal, ScriptSteps
<1>2. ASSUME HyperVHeard PROVE ControllerCame(c)' /\ Accounted'
  BY <1>1, <1>2, <1>u, <1>r
 
      DEF HyperVHeard, Wrote, ControllerCame, HyperV!Creating, HyperV!At, Accounted, NothingOurs,
          HyperV!Has, HyperV!NoJournal
<1> QED BY <1>1, <1>2, <1>u, ScriptKeeps DEF HyperVTyped

\* A controller starts, stops or pauses the machine.
LEMMA ControlKeeps ==
  ASSUME HyperVInv, NEW c \in Controllers, HyperV!Control(c) PROVE HyperVInv'
<1> HyperVTyped
  BY DEF HyperVInv
<1>r. controller[c] # HyperV!NoController /\ controller[c].op \notin {"create", "remove"}
  BY DEF HyperV!Control, HyperV!At
<1>u. UNCHANGED <<directory, journal, resource, caller, creates, unanswered>>
      /\ power' \in {"off", "running"}
  BY DEF HyperV!Control, HyperV!Host, HyperVTyped
<1>1. PICK to \in {"done", "failing"} : Wrote(c, to, 1)
  BY <1>r, ControllerGoes DEF HyperV!Control, HyperV!Fail, ScriptSteps
<1>2. ASSUME HyperVHeard PROVE ControllerCame(c)' /\ Accounted'
  BY <1>1, <1>2, <1>u, <1>r
 
      DEF HyperVHeard, Wrote, ControllerCame, HyperV!Creating, HyperV!At, Accounted, NothingOurs,
          HyperV!Has
<1> QED BY <1>1, <1>2, <1>u, ScriptKeeps DEF HyperVTyped

\* One more of the kinds is gone.
LEMMA OneMoreGone ==
  ASSUME HyperVTyped, NEW i \in 1..3, PassedIsGone(i),
         \/ resource' = resource /\ resource[HyperV!Kinds[4 - i]] # "ours"
         \/ resource' = [resource EXCEPT ![HyperV!Kinds[4 - i]] = "absent"]
  PROVE /\ PassedIsGone(i + 1)'
        /\ i = 3 => NothingOurs'
        /\ resource' \in [HyperV!KindSet -> {"absent", "ours", "foreign"}]
        /\ \A k \in HyperV!KindSet : resource'[k] = "ours" => resource[k] = "ours"
<1>1. HyperV!Kinds[4 - i] \in HyperV!KindSet /\ \A j \in 1..3 : HyperV!Kinds[j] \in HyperV!KindSet
  BY KindsAre
<1>2. resource' \in [HyperV!KindSet -> {"absent", "ours", "foreign"}]
      /\ resource'[HyperV!Kinds[4 - i]] # "ours"
      /\ \A k \in HyperV!KindSet : resource'[k] = "ours" => resource[k] = "ours"
  BY <1>1 DEF HyperVTyped
<1>3. PassedIsGone(i + 1)'
  <2>1. ASSUME NEW j \in 1..3, j > 4 - (i + 1) PROVE resource'[HyperV!Kinds[j]] # "ours"
    <3>1. CASE j = 4 - i
      BY <1>2, <3>1
    <3>2. CASE j # 4 - i
      <4>1. j > 4 - i
        BY <3>2, <2>1
      <4> QED BY <4>1, <1>1, <1>2 DEF PassedIsGone
    <3> QED BY <3>1, <3>2
  <2> QED BY <2>1 DEF PassedIsGone
<1>4. ASSUME i = 3 PROVE NothingOurs'
  <2>1. \A j \in 1..3 : resource'[HyperV!Kinds[j]] # "ours"
    BY <1>3, <1>4 DEF PassedIsGone
  <2> QED BY <2>1, KindsAre DEF NothingOurs
<1> QED BY <1>2, <1>3, <1>4

\* A removal goes through the resources of the receipt.
LEMMA RemoveFromReceiptKeeps ==
  ASSUME HyperVInv, NEW c \in Controllers, HyperV!RemoveFromReceipt(c) PROVE HyperVInv'
<1> HyperVTyped
  BY DEF HyperVInv
<1>r. PICK i \in 1..3 : i = controller[c].i /\ controller[c] # HyperV!NoController /\ controller[c].at = "remove"
  BY DEF HyperV!RemoveFromReceipt, HyperV!At
<1>u. UNCHANGED <<directory, journal, power, caller, creates, unanswered>>
  BY DEF HyperV!RemoveFromReceipt, HyperV!Host
<1>k. HyperV!Kinds[4 - i] \in HyperV!KindSet
  BY <1>r, KindsAre
<1>1. CASE /\ \/ resource[HyperV!Kinds[4 - i]] = "ours" /\ HyperV!Removes(HyperV!Kinds[4 - i])
              \/ resource[HyperV!Kinds[4 - i]] = "absent" /\ resource' = resource
           /\ HyperV!Proceed(c, IF i = 3 THEN "settle" ELSE "remove", i + 1)
  <2>1. Wrote(c, IF i = 3 THEN "settle" ELSE "remove", i + 1)
    BY <1>1, <1>r, ControllerWrites DEF ScriptSteps
  <2>t. resource' \in [HyperV!KindSet -> {"absent", "ours", "foreign"}]
    BY <1>1, <1>k DEF HyperVTyped, HyperV!Removes
  <2>2. ASSUME HyperVHeard PROVE ControllerCame(c)' /\ Accounted'
    <3>h. OneController /\ Accounted /\ ControllerCame(c)
      BY <2>2 DEF HyperVHeard
    <3>1. HyperV!Has("receipt") /\ PassedIsGone(i) /\ controller[c].op = "remove"
      BY <3>h, <1>r DEF ControllerCame
    <3>2. \/ resource' = resource /\ resource[HyperV!Kinds[4 - i]] # "ours"
          \/ resource' = [resource EXCEPT ![HyperV!Kinds[4 - i]] = "absent"]
      BY <1>1 DEF HyperV!Removes
    <3>3. /\ PassedIsGone(i + 1)' /\ (i = 3 => NothingOurs')
          /\ \A k \in HyperV!KindSet : resource'[k] = "ours" => resource[k] = "ours"
      BY <3>1, <3>2, <1>r, OneMoreGone
    <3>4. Accounted'
      BY <3>3, <3>1, <3>h, <1>u DEF Accounted, NothingOurs, HyperV!Has
    <3>5. ControllerCame(c)'
      <4>1. PassedIsGone(controller[c].i)'
        BY <2>1, <3>3 DEF Wrote, PassedIsGone
      <4>2. controller'[c].at \in {"settle", "remove"} /\ controller'[c].op = "remove"
            /\ (controller'[c].at = "settle" => NothingOurs')
        BY <2>1, <3>3, <3>1 DEF Wrote
      <4> QED BY <4>1, <4>2, <3>1, <1>u DEF ControllerCame, HyperV!Creating, HyperV!At, HyperV!Has
    <3> QED BY <3>4, <3>5
  <2> QED BY <2>1, <2>t, <2>2, <1>u, ScriptKeeps DEF HyperVTyped
<1>2. CASE HyperV!Fail(c) /\ UNCHANGED resource
  <2>1. Wrote(c, "failing", 1)
    BY <1>2, <1>r, ControllerGoes DEF HyperV!Fail, ScriptSteps
  <2>2. ASSUME HyperVHeard PROVE ControllerCame(c)' /\ Accounted'
    BY <2>1, <2>2, <1>u, <1>2
   
        DEF HyperVHeard, Wrote, ControllerCame, HyperV!Creating, HyperV!At, Accounted,
            NothingOurs, HyperV!Has
  <2> QED BY <2>1, <2>2, <1>2, <1>u, ScriptKeeps DEF HyperVTyped
<1> QED BY <1>1, <1>2, <1>r DEF HyperV!RemoveFromReceipt

\* A removal without receipt rolls back.
LEMMA RollbackKeeps ==
  ASSUME HyperVInv, NEW c \in Controllers, HyperV!Rollback(c) PROVE HyperVInv'
<1> HyperVTyped
  BY DEF HyperVInv
<1>r. controller[c] # HyperV!NoController /\ controller[c].at = "rollback"
  BY DEF HyperV!Rollback, HyperV!At
<1>u. UNCHANGED <<directory, resource, power, caller, creates, unanswered>>
  BY DEF HyperV!Rollback, HyperV!Host
<1>1. CASE journal.phase = "complete" /\ (HyperV!Goto(c, "done") \/ HyperV!Fail(c)) /\ UNCHANGED journal
  <2>1. PICK to \in {"done", "failing"} : Wrote(c, to, 1)
    BY <1>1, <1>r, ControllerGoes DEF HyperV!Fail, ScriptSteps
  <2>2. ASSUME HyperVHeard PROVE ControllerCame(c)' /\ Accounted'
    BY <2>1, <2>2, <1>u, <1>1, <1>r
   
        DEF HyperVHeard, Wrote, ControllerCame, HyperV!Creating, HyperV!At, Accounted,
            NothingOurs, HyperV!Has
  <2> QED BY <2>1, <2>2, <1>1, <1>u, ScriptKeeps DEF HyperVTyped
<1>2. CASE /\ journal.phase \notin {"complete", "none"}
           /\ journal' = [journal EXCEPT !.phase = "pending"]
           /\ HyperV!Goto(c, "undo")
  <2>1. Wrote(c, "undo", 1)
    BY <1>2, <1>r, ControllerGoes DEF ScriptSteps
  <2>2. journal' \in HyperV!Journals /\ journal'.phase = "pending" /\ journal'.owned = journal.owned
    BY <1>2 DEF HyperVTyped, HyperV!NoJournal, HyperV!Journals
  <2>3. PassedIsGone(1)'
    BY DEF PassedIsGone
  <2>4. ASSUME HyperVHeard PROVE ControllerCame(c)' /\ Accounted'
    <3>h. OneController /\ Accounted /\ ControllerCame(c)
      BY <2>4 DEF HyperVHeard
    <3>1. PassedIsGone(controller[c].i)'
      BY <2>1, <2>3 DEF Wrote, PassedIsGone
    <3> QED BY <2>1, <2>2, <3>1, <3>h, <1>u, <1>r
        DEF Wrote, ControllerCame, HyperV!Creating, HyperV!At, Accounted, NothingOurs, HyperV!Has
  <2> QED BY <2>1, <2>2, <2>4, <1>u, ScriptKeeps DEF HyperVTyped
<1>3. CASE HyperV!Fail(c) /\ UNCHANGED journal
  <2>1. Wrote(c, "failing", 1)
    BY <1>3, <1>r, ControllerGoes DEF HyperV!Fail, ScriptSteps
  <2>2. ASSUME HyperVHeard PROVE ControllerCame(c)' /\ Accounted'
    BY <2>1, <2>2, <1>u, <1>3
   
        DEF HyperVHeard, Wrote, ControllerCame, HyperV!Creating, HyperV!At, Accounted,
            NothingOurs, HyperV!Has
  <2> QED BY <2>1, <2>2, <1>3, <1>u, ScriptKeeps DEF HyperVTyped
<1> QED BY <1>1, <1>2, <1>3 DEF HyperV!Rollback

\* A rollback goes through the resources that are journaled.
LEMMA UndoKeeps ==
  ASSUME HyperVInv, NEW c \in Controllers, HyperV!Undo(c) PROVE HyperVInv'
<1> HyperVTyped
  BY DEF HyperVInv
<1>r. PICK i \in 1..3 : i = controller[c].i /\ controller[c] # HyperV!NoController /\ controller[c].at = "undo"
  BY DEF HyperV!Undo, HyperV!At
<1> DEFINE k == HyperV!Kinds[4 - i]
<1>u. UNCHANGED <<directory, journal, power, caller, creates, unanswered>>
  BY DEF HyperV!Undo, HyperV!Host
<1>k. k \in HyperV!KindSet
  BY <1>r, KindsAre
<1>1. CASE /\ \/ resource[k] = "ours" /\ HyperV!Removes(k)
              \/ (k \notin journal.owned \/ resource[k] # "ours") /\ resource' = resource
           /\ HyperV!Proceed(c, "undo", i + 1)
  <2>1. Wrote(c, "undo", i + 1)
    BY <1>1, <1>r, ControllerWrites DEF ScriptSteps
  <2>t. resource' \in [HyperV!KindSet -> {"absent", "ours", "foreign"}]
    BY <1>1, <1>k DEF HyperVTyped, HyperV!Removes
  <2>2. ASSUME HyperVHeard PROVE ControllerCame(c)' /\ Accounted'
    <3>h. OneController /\ Accounted /\ ControllerCame(c)
      BY <2>2 DEF HyperVHeard
    <3>1. ~HyperV!Has("receipt") /\ PassedIsGone(i) /\ controller[c].op = "remove"
      BY <3>h, <1>r DEF ControllerCame
    <3>2. \/ resource' = resource /\ resource[HyperV!Kinds[4 - i]] # "ours"
          \/ resource' = [resource EXCEPT ![HyperV!Kinds[4 - i]] = "absent"]
      BY <1>1, <1>k, <3>1, <3>h DEF HyperV!Removes, Accounted
    <3>3. /\ PassedIsGone(i + 1)'
          /\ \A l \in HyperV!KindSet : resource'[l] = "ours" => resource[l] = "ours"
      BY <3>1, <3>2, <1>r, OneMoreGone
    <3>4. Accounted'
      BY <3>3, <3>1, <3>h, <1>u DEF Accounted, NothingOurs, HyperV!Has
    <3>5. ControllerCame(c)'
      <4>1. PassedIsGone(controller[c].i)'
        BY <2>1, <3>3 DEF Wrote, PassedIsGone
      <4>2. controller'[c].at = "undo" /\ controller'[c].op = "remove"
        BY <2>1, <3>1 DEF Wrote
      <4> QED BY <4>1, <4>2, <3>1, <1>u DEF ControllerCame, HyperV!Creating, HyperV!At, HyperV!Has
    <3> QED BY <3>4, <3>5
  <2> QED BY <2>1, <2>t, <2>2, <1>u, ScriptKeeps DEF HyperVTyped
<1>2. CASE HyperV!Fail(c) /\ UNCHANGED resource
  <2>1. Wrote(c, "failing", 1)
    BY <1>2, <1>r, ControllerGoes DEF HyperV!Fail, ScriptSteps
  <2>2. ASSUME HyperVHeard PROVE ControllerCame(c)' /\ Accounted'
    BY <2>1, <2>2, <1>u, <1>2
   
        DEF HyperVHeard, Wrote, ControllerCame, HyperV!Creating, HyperV!At, Accounted,
            NothingOurs, HyperV!Has
  <2> QED BY <2>1, <2>2, <1>2, <1>u, ScriptKeeps DEF HyperVTyped
<1> QED BY <1>1, <1>2, <1>r DEF HyperV!Undo

\* A rollback completes the journal.
LEMMA UndoCompletesKeeps ==
  ASSUME HyperVInv, NEW c \in Controllers, HyperV!UndoCompletes(c) PROVE HyperVInv'
<1> HyperVTyped
  BY DEF HyperVInv
<1>r. controller[c] # HyperV!NoController /\ controller[c].at = "undo" /\ controller[c].i = 4
  BY DEF HyperV!UndoCompletes, HyperV!At
<1>u. UNCHANGED <<directory, resource, power, caller, creates, unanswered>>
  BY DEF HyperV!UndoCompletes, HyperV!Host
<1>1. Wrote(c, "done", 1)
  BY <1>r, ControllerGoes DEF HyperV!UndoCompletes, ScriptSteps
<1>2. journal' \in {HyperV!NoJournal} \cup HyperV!Journals /\ journal'.owned = journal.owned
  BY DEF HyperV!UndoCompletes, HyperVTyped, HyperV!NoJournal, HyperV!Journals
<1>3. ASSUME HyperVHeard PROVE ControllerCame(c)' /\ Accounted'
  <2>h. OneController /\ Accounted /\ ControllerCame(c)
    BY <1>3 DEF HyperVHeard
  <2>1. PassedIsGone(4) /\ ~HyperV!Has("receipt")
    BY <2>h, <1>r DEF ControllerCame
  <2>2. NothingOurs
    BY <2>1, KindsAre DEF PassedIsGone, NothingOurs
  <2> QED BY <1>1, <1>2, <2>1, <2>2, <2>h, <1>u
      DEF Wrote, ControllerCame, HyperV!Creating, HyperV!At, Accounted, NothingOurs, HyperV!Has
<1> QED BY <1>1, <1>2, <1>3, <1>u, ScriptKeeps DEF HyperVTyped

\* A controller writes the status.
LEMMA WriteStatusKeeps ==
  ASSUME HyperVInv, NEW c \in Controllers, HyperV!WriteStatus(c) PROVE HyperVInv'
<1> HyperVTyped
  BY DEF HyperVInv
<1>r. controller[c] # HyperV!NoController /\ controller[c].at \in {"done", "failing"}
  BY DEF HyperV!WriteStatus, HyperV!At
<1>u. UNCHANGED <<journal, resource, power, caller, creates, unanswered>>
      /\ directory' = IF HyperV!Has("dir") THEN directory \cup {"status"} ELSE directory
  BY DEF HyperV!WriteStatus, HyperV!Host
<1>d. /\ directory' \subseteq {"dir", "binding", "receipt", "status", "leftover"}
      /\ directory \subseteq directory' /\ (HyperV!Has("receipt") <=> HyperV!Has("receipt"))
  BY <1>u DEF HyperVTyped
<1>1. CASE /\ HyperV!Waiting /\ caller.controller = c
           /\ HyperV!Goto(c, IF HyperV!At(c, "done") THEN "ok" ELSE "failed")
  <2>1. Wrote(c, IF HyperV!At(c, "done") THEN "ok" ELSE "failed", 1)
    BY <1>1, <1>r, ControllerGoes DEF ScriptSteps
  <2>2. ASSUME HyperVHeard PROVE ControllerCame(c)' /\ Accounted'
    <3>1. HyperV!Has("receipt")' = HyperV!Has("receipt")
      BY <1>u DEF HyperV!Has
    <3> QED BY <2>1, <2>2, <3>1, <1>d, <1>u, <1>r
        DEF HyperVHeard, Wrote, ControllerCame, HyperV!Creating, HyperV!At, Accounted, NothingOurs
  <2> QED BY <2>1, <2>2, <1>d, <1>u, ScriptKeeps DEF HyperVTyped
<1>2. CASE ~(HyperV!Waiting /\ caller.controller = c) /\ HyperV!Gone(c)
  <2>1. HyperVTyped'
    <3>1. controller' \in [Controllers -> {HyperV!NoController} \cup RunningControllers]
      BY <1>2 DEF HyperV!Gone, HyperVTyped
    <3>2. \A d \in Controllers : controller'[d] \in {controller[d], HyperV!NoController}
      BY <1>2 DEF HyperV!Gone, HyperVTyped
    <3> QED BY <3>1, <3>2, <1>u, <1>d DEF HyperVTyped, HyperV!At, HyperV!Creating
  <2>2. unanswered
    BY <1>2, <1>r DEF HyperVInv, OneController
  <2> QED BY <2>1, <2>2, <1>u DEF HyperVInv
<1> QED BY <1>1, <1>2 DEF HyperV!WriteStatus

\* A controller ends.
LEMMA GoneTyped ==
  ASSUME HyperVTyped, NEW c \in Controllers, HyperV!Gone(c) \/ UNCHANGED controller
  PROVE /\ controller' \in [Controllers -> {HyperV!NoController} \cup RunningControllers]
        /\ \A d \in Controllers : (HyperV!At(d, "pend") \/ HyperV!Creating(d, "make"))' => controller'[d].i \in 1..3
<1>1. controller' \in [Controllers -> {HyperV!NoController} \cup RunningControllers]
  BY DEF HyperV!Gone, HyperVTyped
<1>2. \A d \in Controllers : controller'[d] \in {controller[d], HyperV!NoController}
  BY DEF HyperV!Gone, HyperVTyped
<1> QED BY <1>1, <1>2 DEF HyperVTyped, HyperV!At, HyperV!Creating

\* The controller of the call ends with it: none is left.
LEMMA CallEnds ==
  ASSUME HyperVTyped, OneController, HyperV!Waiting, NEW c, c = caller.controller, HyperV!Gone(c),
         caller' \in {HyperV!AtRest, [op |-> "clean"]}
  PROVE OneController' /\ \A d \in Controllers : ControllerCame(d)'
<1>1. c \in Controllers
  BY DEF HyperV!Waiting, HyperVTyped, HyperVCalls, HyperV!AtRest, HyperV!Actions
<1>2. \A d \in Controllers : controller'[d] = HyperV!NoController
  BY <1>1 DEF HyperV!Gone, HyperVTyped, OneController
<1>3. ~HyperV!Waiting'
  BY DEF HyperV!Waiting, HyperV!AtRest, HyperV!Actions
<1> QED BY <1>2, <1>3
           DEF OneController, ControllerCame, HyperV!Creating, HyperV!At, HyperV!NoController

\* A call that waits has a controller.
LEMMA WaitingCall ==
  ASSUME HyperVTyped, HyperV!Waiting
  PROVE /\ caller.controller \in Controllers /\ caller.op \in HyperV!Actions
        /\ caller = [op |-> caller.op, controller |-> caller.controller]
  BY DEF HyperV!Waiting, HyperVTyped, HyperVCalls, HyperV!AtRest, HyperV!Actions

\* The application hears the end of the controller.
LEMMA AnsweredKeeps == ASSUME HyperVInv, HyperV!Answered PROVE HyperVInv'
<1> HyperVTyped
  BY DEF HyperVInv
<1> DEFINE c == caller.controller
<1>r. HyperV!Waiting /\ controller[c].at \in {"ok", "failed"} /\ HyperV!Gone(c) /\ c \in Controllers
      /\ UNCHANGED <<directory, journal, resource, power, creates, unanswered>>
      /\ caller' \in {HyperV!AtRest, [op |-> "clean"]}
      /\ (caller' = [op |-> "clean"] => caller.op = "remove" /\ controller[c].at = "ok")
  BY WaitingCall DEF HyperV!Answered, HyperV!AtRest
<1>1. HyperVTyped'
  BY <1>r, GoneTyped DEF HyperVTyped, HyperVCalls
<1>2. ASSUME ~unanswered
      PROVE OneController' /\ Accounted' /\ \A d \in Controllers : ControllerCame(d)'
  <2>h. OneController /\ Accounted /\ ControllerCame(c)
    BY <1>2, <1>r DEF HyperVInv
  <2>1. ASSUME caller'.op = "clean" PROVE NothingOurs
    <3>1. caller.op = "remove" /\ controller[c].at = "ok"
      BY <2>1, <1>r DEF HyperV!AtRest
    <3>2. controller[c].op = "remove"
      BY <3>1, <2>h, <1>r DEF OneController
    <3> QED BY <3>1, <3>2, <2>h DEF ControllerCame
  <2>2. Accounted'
    BY <2>1, <2>h, <1>r DEF Accounted, NothingOurs, HyperV!Has
  <2> QED BY <2>2, <2>h, <1>r, CallEnds
<1> QED BY <1>1, <1>2, <1>r DEF HyperVInv

\* A controller that took too long is killed.
LEMMA TimeoutKeeps == ASSUME HyperVInv, HyperV!Timeout PROVE HyperVInv'
<1> HyperVTyped
  BY DEF HyperVInv
<1> DEFINE c == caller.controller
<1>r. HyperV!Waiting /\ HyperV!Gone(c) /\ c \in Controllers /\ caller' = HyperV!AtRest
      /\ UNCHANGED <<journal, resource, power, creates, unanswered>>
      /\ directory' \in {directory, directory \cup {"leftover"}}
  BY WaitingCall DEF HyperV!Timeout
<1>1. HyperVTyped'
  BY <1>r, GoneTyped DEF HyperVTyped, HyperVCalls
<1>2. ASSUME ~unanswered
      PROVE OneController' /\ Accounted' /\ \A d \in Controllers : ControllerCame(d)'
  <2>h. OneController /\ Accounted
    BY <1>2 DEF HyperVInv
  <2>1. Accounted'
    BY <2>h, <1>r DEF Accounted, NothingOurs, HyperV!Has, HyperV!AtRest
  <2> QED BY <2>1, <2>h, <1>r, CallEnds
<1> QED BY <1>1, <1>2, <1>r DEF HyperVInv

\* The application crashes, and its controller goes on unheard.
LEMMA AppCrashKeeps == ASSUME HyperVInv, HyperV!AppCrash PROVE HyperVInv'
<1> HyperVTyped /\ OneController /\ Accounted /\ \A d \in Controllers : ControllerCame(d)
  BY DEF HyperVInv, HyperV!AppCrash
<1> DEFINE c == caller.controller
           works == HyperV!Waiting /\ controller[c].at \notin {"ok", "failed"}
<1>r. caller # HyperV!AtRest /\ caller' = HyperV!AtRest /\ unanswered' = works
      /\ UNCHANGED <<journal, resource, power, creates>>
      /\ directory' \in {directory, directory \cup {"leftover"}}
      /\ IF HyperV!Waiting /\ ~works THEN HyperV!Gone(c) ELSE UNCHANGED controller
  BY DEF HyperV!AppCrash
<1>b. unanswered' \in BOOLEAN
  BY <1>r
<1>1. HyperVTyped'
  <2>1. CASE HyperV!Waiting
    BY <2>1, <1>b, <1>r, WaitingCall, GoneTyped DEF HyperVTyped, HyperVCalls
  <2>2. CASE ~HyperV!Waiting
    <3>1. UNCHANGED controller
      BY <2>2, <1>r
    <3> QED BY <3>1, <1>b, <1>r DEF HyperVTyped, HyperVCalls, HyperV!At, HyperV!Creating
  <2> QED BY <2>1, <2>2
<1>2. ASSUME ~unanswered'
      PROVE OneController' /\ Accounted' /\ \A d \in Controllers : ControllerCame(d)'
  <2>1. Accounted'
    BY <1>r DEF Accounted, NothingOurs, HyperV!Has, HyperV!AtRest
  <2>2. CASE HyperV!Waiting
    BY <2>1, <2>2, <1>2, <1>r, CallEnds
  <2>3. CASE ~HyperV!Waiting
    <3>1. UNCHANGED controller /\ ~HyperV!Waiting'
      BY <2>3, <1>r DEF HyperV!Waiting, HyperV!AtRest, HyperV!Actions
    <3>2. \A d \in Controllers : controller'[d] = HyperV!NoController
      BY <3>1, <2>3 DEF OneController
    <3> QED BY <3>1, <3>2, <2>1
               DEF OneController, ControllerCame, HyperV!Creating, HyperV!At, HyperV!NoController
  <2> QED BY <2>2, <2>3
<1> QED BY <1>1, <1>2 DEF HyperVInv

\* A free controller is there.
LEMMA FreeController ==
  ASSUME \E d \in Controllers : controller[d] = HyperV!NoController
  PROVE (CHOOSE d \in Controllers : controller[d] = HyperV!NoController) \in Controllers
  OBVIOUS

\* A call runs a controller.
LEMMA InvokeKeeps ==
  ASSUME MaxCreates \in Nat, HyperVInv, NEW o \in HyperV!Actions, HyperV!Invoke(o) PROVE HyperVInv'
<1> HyperVTyped
  BY DEF HyperVInv
<1> DEFINE r == [op |-> o, at |-> "read", i |-> 1]
<1>1. PICK c \in Controllers :
        /\ controller' = [controller EXCEPT ![c] = r]
        /\ caller' = [op |-> o, controller |-> c]
  BY FreeController DEF HyperV!Invoke
<1>u. UNCHANGED <<journal, resource, power, unanswered>> /\ caller = HyperV!AtRest
      /\ directory' = directory \cup {"dir", "binding"}
      /\ creates' \in 0..MaxCreates
  BY DEF HyperV!Invoke, HyperVTyped
<1>2. r \in RunningControllers /\ r # HyperV!NoController
  BY DEF RunningControllers, ScriptSteps, HyperV!NoController
<1>3. /\ controller' \in [Controllers -> {HyperV!NoController} \cup RunningControllers]
      /\ controller'[c] = r
      /\ \A d \in Controllers : d # c => controller'[d] = controller[d]
  BY <1>1, <1>2 DEF HyperVTyped
<1>4. HyperVTyped'
  <2>1. \A d \in Controllers : (HyperV!At(d, "pend") \/ HyperV!Creating(d, "make"))' => controller'[d].i \in 1..3
    BY <1>3 DEF HyperVTyped, HyperV!At, HyperV!Creating
  <2>2. caller' \in HyperVCalls
    BY <1>1 DEF HyperVCalls
  <2> QED BY <2>1, <2>2, <1>3, <1>u DEF HyperVTyped
<1>5. ASSUME ~unanswered
      PROVE OneController' /\ Accounted' /\ \A d \in Controllers : ControllerCame(d)'
  <2>h. OneController /\ Accounted
    BY <1>5 DEF HyperVInv
  <2>1. \A d \in Controllers : controller[d] = HyperV!NoController
    BY <2>h, <1>u DEF OneController, HyperV!Waiting, HyperV!AtRest, HyperV!Actions
  <2>2. OneController'
    BY <2>1, <1>1, <1>2, <1>3, <1>u DEF OneController, HyperV!Waiting
  <2>3. Accounted'
    BY <2>h, <1>u, <1>1 DEF Accounted, NothingOurs, HyperV!Has, HyperV!Actions
  <2>4. \A d \in Controllers : ControllerCame(d)'
    BY <2>1, <1>3 DEF ControllerCame, HyperV!Creating, HyperV!At, HyperV!NoController
  <2> QED BY <2>2, <2>3, <2>4
<1> QED BY <1>4, <1>5, <1>u DEF HyperVInv

\* Nothing that the removal is done with is needed any more.
LEMMA CleanKeeps ==
  ASSUME HyperVInv, caller.op = "clean",
         directory' \subseteq {"dir", "binding", "receipt", "status", "leftover"},
         UNCHANGED <<journal, resource, power, controller, creates, unanswered>>,
         caller' \in {caller, HyperV!AtRest}
  PROVE HyperVInv'
<1> HyperVTyped
  BY DEF HyperVInv
<1>1. HyperVTyped'
  BY DEF HyperVTyped, HyperVCalls, HyperV!At, HyperV!Creating
<1>2. ASSUME ~unanswered
      PROVE OneController' /\ Accounted' /\ \A d \in Controllers : ControllerCame(d)'
  <2>h. OneController /\ Accounted
    BY <1>2 DEF HyperVInv
  <2>1. NothingOurs'
    BY <2>h DEF Accounted, NothingOurs
  <2>2. ~HyperV!Waiting /\ ~HyperV!Waiting'
    BY DEF HyperV!Waiting, HyperV!AtRest, HyperV!Actions
  <2>3. \A d \in Controllers : controller'[d] = HyperV!NoController
    BY <2>2, <2>h DEF OneController
  <2> QED BY <2>1, <2>2, <2>3
     
          DEF OneController, Accounted, NothingOurs, ControllerCame, HyperV!Creating, HyperV!At,
              HyperV!NoController
<1> QED BY <1>1, <1>2 DEF HyperVInv

\* The state of the machine is nothing the invariant is about.
LEMMA PowerKeeps ==
  ASSUME HyperVInv, power' \in {"off", "running"},
         UNCHANGED <<directory, journal, resource, caller, controller, creates, unanswered>>
  PROVE HyperVInv'
<1>1. HyperVTyped'
  BY DEF HyperVInv, HyperVTyped, HyperV!At, HyperV!Creating
<1>2. Accounted <=> Accounted'
  BY DEF Accounted, NothingOurs, HyperV!Has
<1>3. OneController <=> OneController'
  BY DEF OneController, HyperV!Waiting
<1>4. \A d \in Controllers : ControllerCame(d) <=> ControllerCame(d)'
  BY
     DEF ControllerCame, HyperV!Creating, HyperV!At, HyperV!Kind, HyperV!Has, NothingOurs,
         PassedIsGone
<1> QED BY <1>1, <1>2, <1>3, <1>4 DEF HyperVInv

\* The invariant holds at first.
LEMMA HyperVStarts ==
  ASSUME MaxCreates \in Nat, HyperV!HyperVInit PROVE HyperVInv
<1>1. \A d \in Controllers : controller[d] = HyperV!NoController
  BY DEF HyperV!HyperVInit
<1>2. HyperVTyped
  <2>1. controller \in [Controllers -> {HyperV!NoController} \cup RunningControllers]
    BY DEF HyperV!HyperVInit
  <2>2. resource \in [HyperV!KindSet -> {"absent", "ours", "foreign"}] /\ creates \in 0..MaxCreates
    BY DEF HyperV!HyperVInit
  <2> QED BY <1>1, <2>1, <2>2
             DEF HyperV!HyperVInit, HyperVTyped, HyperVCalls, HyperV!At, HyperV!Creating
<1>3. NothingOurs /\ caller = HyperV!AtRest
  BY DEF HyperV!HyperVInit, NothingOurs
<1>4. OneController
  BY <1>1, <1>3 DEF OneController, HyperV!AtRest, HyperV!Waiting, HyperV!Actions
<1>5. Accounted
  BY <1>3 DEF Accounted, NothingOurs
<1>6. \A d \in Controllers : ControllerCame(d)
  BY <1>1 DEF ControllerCame, HyperV!Creating, HyperV!At, HyperV!NoController
<1> QED BY <1>2, <1>4, <1>5, <1>6 DEF HyperVInv

\* Every step keeps the invariant.
LEMMA HyperVStep ==
  ASSUME MaxCreates \in Nat, HyperVInv, HyperV!HyperVNext PROVE HyperVInv'
<1>1. ASSUME NEW o \in HyperV!Actions, HyperV!Invoke(o) PROVE HyperVInv'
  BY <1>1, InvokeKeeps
<1>2. CASE HyperV!Answered
  BY <1>2, AnsweredKeeps
<1>3. CASE HyperV!CleanReceipt
  <2>1. directory' \subseteq {"dir", "binding", "receipt", "status", "leftover"}
    BY <1>3 DEF HyperV!CleanReceipt, HyperVInv, HyperVTyped
  <2> QED BY <2>1, <1>3, CleanKeeps DEF HyperV!CleanReceipt, HyperV!Controlled
<1>4. CASE HyperV!CleanDirectory
  <2>1. directory' \subseteq {"dir", "binding", "receipt", "status", "leftover"}
    BY <1>4 DEF HyperV!CleanDirectory, HyperVInv, HyperVTyped
  <2> QED BY <2>1, <1>4, CleanKeeps DEF HyperV!CleanDirectory, HyperV!Controlled
<1>5. CASE HyperV!Timeout
  BY <1>5, TimeoutKeeps
<1>6. CASE HyperV!AppCrash
  BY <1>6, AppCrashKeeps
<1>7. ASSUME NEW c \in Controllers, HyperV!ControllerStep(c) PROVE HyperVInv'
  BY <1>7, ReadStateKeeps, PendKeeps, MakeResourceKeeps, InitializeBoundVmKeeps, WriteReceiptKeeps,
     RemoveJournalKeeps, ControlKeeps, RemoveFromReceiptKeeps, RollbackKeeps, UndoKeeps,
     UndoCompletesKeeps, WriteStatusKeeps DEF HyperV!ControllerStep
<1>8. CASE HyperV!VmChanges
  BY <1>8, PowerKeeps DEF HyperV!VmChanges, HyperV!Host
<1> QED BY <1>1, <1>2, <1>3, <1>4, <1>5, <1>6, <1>7, <1>8 DEF HyperV!HyperVNext

\* Only what is not there is made, and only what is ours is removed.
LEMMA OthersStay ==
  ASSUME HyperVInv, [HyperV!HyperVNext]_hypervVars
  PROVE \A k \in HyperV!KindSet : resource[k] = "foreign" => resource'[k] = "foreign"
<1> HyperVTyped
  BY DEF HyperVInv
<1>1. CASE resource' = resource
  BY <1>1
<1>2. ASSUME NEW k \in HyperV!KindSet, resource[k] # "foreign", NEW new,
             resource' = [resource EXCEPT ![k] = new]
      PROVE \A l \in HyperV!KindSet : resource[l] = "foreign" => resource'[l] = "foreign"
  BY <1>2 DEF HyperVTyped
<1>3. ASSUME NEW c \in Controllers, HyperV!ControllerStep(c), resource' # resource
      PROVE \A l \in HyperV!KindSet : resource[l] = "foreign" => resource'[l] = "foreign"
  <2>1. CASE HyperV!MakeResource(c)
    <3>1. HyperV!Kind(c) \in HyperV!KindSet
      BY <2>1, KindsAre DEF HyperV!MakeResource, HyperVTyped, HyperV!Kind
    <3> QED BY <2>1, <3>1, <1>2, <1>3 DEF HyperV!MakeResource
  <2>2. CASE HyperV!RemoveFromReceipt(c) \/ HyperV!Undo(c)
    <3>1. PICK i \in 1..3 : resource[HyperV!Kinds[4 - i]] = "ours" /\ HyperV!Removes(HyperV!Kinds[4 - i])
      BY <2>2, <1>3 DEF HyperV!RemoveFromReceipt, HyperV!Undo
    <3>2. HyperV!Kinds[4 - i] \in HyperV!KindSet
      BY KindsAre
    <3> QED BY <3>1, <3>2, <1>2 DEF HyperV!Removes
  <2> QED BY <2>1, <2>2, <1>3
             DEF HyperV!ControllerStep, HyperV!ReadState, HyperV!Pend, HyperV!InitializeBoundVm,
                 HyperV!WriteReceipt,
          HyperV!RemoveJournal, HyperV!Control, HyperV!Rollback, HyperV!UndoCompletes,
          HyperV!WriteStatus
<1> QED BY <1>1, <1>3
           DEF HyperV!HyperVNext, HyperV!hypervVars, HyperV!Invoke, HyperV!Answered,
               HyperV!CleanReceipt, HyperV!CleanDirectory, HyperV!Timeout,
        HyperV!AppCrash, HyperV!VmChanges, HyperV!Controlled, hypervVars

-----------------------------------------------------------------------------
(* The parts of the bench together.                                         *)

WslP == INSTANCE WslGuestProofs
        WITH Silos <- {Target}, Agents <- GuestAgents, Inherits <- {FALSE},
             call <- wslCall, agents <- guestAgents, lock <- guestLock, disk <- guestDisk
ContendedP == INSTANCE WslGuestProofs
        WITH Silos <- {Target, OtherTarget}, Agents <- {CHOOSE a \in GuestAgents : TRUE},
             Inherits <- {FALSE}, MaxLeftovers <- 0,
             call <- wslCall, agents <- guestAgents, lock <- guestLock, disk <- guestDisk

\* The Silo of the distribution: the same initial states, steps and properties.
LEMMA WslStarts == Wsl!WslInit => WslP!WslInit
BY DEF Wsl!WslInit, Wsl!NoAgent, Wsl!NoCall, Wsl!NoReceipt, Wsl!Nothing, WslP!WslInit,
       WslP!NoAgent, WslP!NoCall, WslP!NoReceipt, WslP!Nothing

\* What is left over is counted alike.
LEMMA WslLeftovers == Wsl!Leftovers = WslP!Leftovers
<1>1. \A S : Wsl!Cardinality(S) = WslP!Cardinality(S)
  BY DEF Wsl!Cardinality, WslP!Cardinality, Wsl!IsFiniteSet, WslP!IsFiniteSet
<1> QED BY <1>1, Zenon DEF Wsl!Leftovers, WslP!Leftovers, Wsl!Lost, WslP!Lost

\* The steps of the host and of what is around the guest are the same.
LEMMA WslCallsAgree ==
  ASSUME NEW s, NEW n, NEW o
  PROVE /\ Wsl!ConfigureNetwork(s, n) => WslP!ConfigureNetwork(s, n)
        /\ Wsl!BoundCall(s, o) => WslP!BoundCall(s, o)
        /\ Wsl!Destroy(s) => WslP!Destroy(s)
        /\ Wsl!CallEnds => WslP!CallEnds
        /\ Wsl!CallAbandoned => WslP!CallAbandoned
        /\ Wsl!BrowserEnds => WslP!BrowserEnds
        /\ Wsl!EvidenceExpires => WslP!EvidenceExpires
        /\ Wsl!GuestShutdown => WslP!GuestShutdown
<1> USE WslLeftovers
    DEF Wsl!wslVars, Wsl!Nothing, Wsl!Networks, Wsl!Ops, Wsl!Steps, Wsl!NoAgent, Wsl!NoCall,
           Wsl!Lost, Wsl!Live, Wsl!Receipt, Wsl!NoReceipt, Wsl!Chromium, Wsl!Run,
           Wsl!InvalidateBinding, Wsl!ConfigureNetwork, Wsl!BoundCall, Wsl!Destroy,
           Wsl!Answered, Wsl!Free, Wsl!EndConfigure, Wsl!EndDestroy, Wsl!EndBoundCall,
           Wsl!Refused, Wsl!CallEnds, Wsl!CallAbandoned, Wsl!At, Wsl!Heard, Wsl!BrowserEnds,
           Wsl!EvidenceExpires, Wsl!GuestShutdown, WslP!wslVars, WslP!Nothing, WslP!Networks,
           WslP!Ops, WslP!Steps, WslP!NoAgent, WslP!NoCall, WslP!Lost, WslP!Live, WslP!Receipt,
           WslP!NoReceipt, WslP!Chromium, WslP!Run, WslP!InvalidateBinding,
           WslP!ConfigureNetwork, WslP!BoundCall, WslP!Destroy, WslP!Answered, WslP!Free,
           WslP!EndConfigure, WslP!EndDestroy, WslP!EndBoundCall, WslP!Refused, WslP!CallEnds,
           WslP!CallAbandoned, WslP!At, WslP!Heard, WslP!BrowserEnds, WslP!EvidenceExpires,
           WslP!GuestShutdown
<1>1. Wsl!ConfigureNetwork(s, n) => WslP!ConfigureNetwork(s, n)
  OBVIOUS
<1>2. Wsl!BoundCall(s, o) => WslP!BoundCall(s, o)
  OBVIOUS
<1>3. Wsl!Destroy(s) => WslP!Destroy(s)
  OBVIOUS
<1>4. Wsl!CallEnds => WslP!CallEnds
  OBVIOUS
<1>5. Wsl!CallAbandoned => WslP!CallAbandoned
  OBVIOUS
<1>6. Wsl!BrowserEnds => WslP!BrowserEnds
  OBVIOUS
<1>7. Wsl!EvidenceExpires => WslP!EvidenceExpires
  OBVIOUS
<1>8. Wsl!GuestShutdown => WslP!GuestShutdown
  OBVIOUS
<1> QED BY <1>1, <1>2, <1>3, <1>4, <1>5, <1>6, <1>7, <1>8

\* The steps of an agent are the same.
LEMMA WslAgentsAgree ==
  ASSUME NEW a
  PROVE /\ Wsl!Arrive(a) => WslP!Arrive(a)
        /\ Wsl!BindSingleSilo(a) => WslP!BindSingleSilo(a)
        /\ Wsl!GuestConfigure(a) => WslP!GuestConfigure(a)
        /\ Wsl!GuestProbe(a) => WslP!GuestProbe(a)
        /\ Wsl!StartBrowser(a) => WslP!StartBrowser(a)
        /\ Wsl!RecordPid(a) => WslP!RecordPid(a)
        /\ Wsl!TerminateOwnedBrowser(a) => WslP!TerminateOwnedBrowser(a)
        /\ Wsl!Health(a) => WslP!Health(a)
        /\ Wsl!BoundedLogs(a) => WslP!BoundedLogs(a)
        /\ Wsl!DetachSilo(a) => WslP!DetachSilo(a)
        /\ Wsl!RemoveSiloRoot(a) => WslP!RemoveSiloRoot(a)
        /\ Wsl!FinishDetach(a) => WslP!FinishDetach(a)
        /\ Wsl!AgentKilled(a) => WslP!AgentKilled(a)
<1> USE WslLeftovers
    DEF Wsl!wslVars, Wsl!Nothing, Wsl!Networks, Wsl!Ops, Wsl!Steps, Wsl!NoAgent, Wsl!NoCall,
           Wsl!Lost, Wsl!Live, Wsl!Receipt, Wsl!NoReceipt, Wsl!Chromium, Wsl!Run, Wsl!Free,
           Wsl!At, Wsl!Heard, Wsl!Goto, Wsl!End, Wsl!Answer, Wsl!Fail, Wsl!ReadOwnedPid,
           Wsl!Arrive, Wsl!LockIsFree, Wsl!BindSingleSilo, Wsl!ReleaseActiveSilo,
           Wsl!RevokeNetworkAuthorization, Wsl!Settle, Wsl!GuestConfigure, Wsl!GuestProbe,
           Wsl!Refresh, Wsl!Swept, Wsl!RevokedOrStale, Wsl!ClaimActiveSilo, Wsl!StartBrowser,
           Wsl!Started, Wsl!RecordPid, Wsl!TerminateOwnedBrowser, Wsl!Health, Wsl!BoundedLogs,
           Wsl!DetachSilo, Wsl!RemoveSiloRoot, Wsl!FinishDetach, Wsl!AgentKilled,
           WslP!wslVars, WslP!Nothing, WslP!Networks, WslP!Ops, WslP!Steps, WslP!NoAgent,
           WslP!NoCall, WslP!Lost, WslP!Live, WslP!Receipt, WslP!NoReceipt, WslP!Chromium, WslP!Run, WslP!Free,
           WslP!At, WslP!Heard, WslP!Goto, WslP!End, WslP!Answer, WslP!Fail, WslP!ReadOwnedPid,
           WslP!Arrive, WslP!LockIsFree, WslP!BindSingleSilo, WslP!ReleaseActiveSilo,
           WslP!RevokeNetworkAuthorization, WslP!Settle, WslP!GuestConfigure, WslP!GuestProbe,
           WslP!Refresh, WslP!Swept, WslP!RevokedOrStale, WslP!ClaimActiveSilo,
           WslP!StartBrowser, WslP!Started, WslP!RecordPid, WslP!TerminateOwnedBrowser,
           WslP!Health, WslP!BoundedLogs, WslP!DetachSilo, WslP!RemoveSiloRoot,
           WslP!FinishDetach, WslP!AgentKilled
<1>1. Wsl!Arrive(a) => WslP!Arrive(a)
  OBVIOUS
<1>2. Wsl!BindSingleSilo(a) => WslP!BindSingleSilo(a)
  OBVIOUS
<1>3. Wsl!GuestConfigure(a) => WslP!GuestConfigure(a)
  OBVIOUS
<1>4. Wsl!GuestProbe(a) => WslP!GuestProbe(a)
  OBVIOUS
<1>5. Wsl!StartBrowser(a) => WslP!StartBrowser(a)
  OBVIOUS
<1>6. Wsl!RecordPid(a) => WslP!RecordPid(a)
  OBVIOUS
<1>7. Wsl!TerminateOwnedBrowser(a) => WslP!TerminateOwnedBrowser(a)
  OBVIOUS
<1>8. Wsl!Health(a) => WslP!Health(a)
  OBVIOUS
<1>9. Wsl!BoundedLogs(a) => WslP!BoundedLogs(a)
  OBVIOUS
<1>10. Wsl!DetachSilo(a) => WslP!DetachSilo(a)
  OBVIOUS
<1>11. Wsl!FinishDetach(a) => WslP!FinishDetach(a)
  OBVIOUS
<1>12. Wsl!AgentKilled(a) => WslP!AgentKilled(a)
  OBVIOUS
<1>13. Wsl!RemoveSiloRoot(a) => WslP!RemoveSiloRoot(a)
  OBVIOUS
<1> QED BY <1>1, <1>2, <1>3, <1>4, <1>5, <1>6, <1>7, <1>8, <1>9, <1>10, <1>11, <1>12,
              <1>13

\* So are all steps.
LEMMA WslSteps == Wsl!WslNext => WslP!WslNext
BY WslCallsAgree, WslAgentsAgree
   DEF Wsl!WslNext, WslP!WslNext, Wsl!AgentStep, WslP!AgentStep, Wsl!Networks, WslP!Networks

\* What is assumed is the same.
LEMMA WslAssumes == Wsl!WslGuestAssumption => WslP!WslGuestAssumption
BY DEF Wsl!WslGuestAssumption, Wsl!Nothing, WslP!WslGuestAssumption, WslP!Nothing


\* Two Silos in one distribution: the same initial states, steps and properties.
LEMMA ContendedStarts == Contended!WslInit => ContendedP!WslInit
BY DEF Contended!WslInit, Contended!NoAgent, Contended!NoCall, Contended!NoReceipt,
       Contended!Nothing, ContendedP!WslInit, ContendedP!NoAgent, ContendedP!NoCall,
       ContendedP!NoReceipt, ContendedP!Nothing

\* What is left over is counted alike.
LEMMA ContendedLeftovers == Contended!Leftovers = ContendedP!Leftovers
<1>1. \A S : Contended!Cardinality(S) = ContendedP!Cardinality(S)
  BY
     DEF Contended!Cardinality, ContendedP!Cardinality, Contended!IsFiniteSet,
         ContendedP!IsFiniteSet
<1> QED BY <1>1, Zenon
           DEF Contended!Leftovers, ContendedP!Leftovers, Contended!Lost, ContendedP!Lost

\* The steps of the host and of what is around the guest are the same.
LEMMA ContendedCallsAgree ==
  ASSUME NEW s, NEW n, NEW o
  PROVE /\ Contended!ConfigureNetwork(s, n) => ContendedP!ConfigureNetwork(s, n)
        /\ Contended!BoundCall(s, o) => ContendedP!BoundCall(s, o)
        /\ Contended!Destroy(s) => ContendedP!Destroy(s)
        /\ Contended!CallEnds => ContendedP!CallEnds
        /\ Contended!CallAbandoned => ContendedP!CallAbandoned
        /\ Contended!BrowserEnds => ContendedP!BrowserEnds
        /\ Contended!EvidenceExpires => ContendedP!EvidenceExpires
        /\ Contended!GuestShutdown => ContendedP!GuestShutdown
<1> USE ContendedLeftovers
    DEF Contended!wslVars, Contended!Nothing, Contended!Networks, Contended!Ops,
           Contended!Steps, Contended!NoAgent, Contended!NoCall, Contended!Lost,
           Contended!Live, Contended!Receipt, Contended!NoReceipt, Contended!Chromium,
           Contended!Run, Contended!InvalidateBinding, Contended!ConfigureNetwork,
           Contended!BoundCall, Contended!Destroy, Contended!Answered, Contended!Free,
           Contended!EndConfigure, Contended!EndDestroy, Contended!EndBoundCall,
           Contended!Refused, Contended!CallEnds, Contended!CallAbandoned, Contended!At,
           Contended!Heard, Contended!BrowserEnds, Contended!EvidenceExpires,
           Contended!GuestShutdown, ContendedP!wslVars, ContendedP!Nothing,
           ContendedP!Networks, ContendedP!Ops, ContendedP!Steps, ContendedP!NoAgent,
           ContendedP!NoCall, ContendedP!Lost, ContendedP!Live, ContendedP!Receipt,
           ContendedP!NoReceipt, ContendedP!Chromium, ContendedP!Run,
           ContendedP!InvalidateBinding, ContendedP!ConfigureNetwork, ContendedP!BoundCall,
           ContendedP!Destroy, ContendedP!Answered, ContendedP!Free, ContendedP!EndConfigure,
           ContendedP!EndDestroy, ContendedP!EndBoundCall, ContendedP!Refused,
           ContendedP!CallEnds, ContendedP!CallAbandoned, ContendedP!At, ContendedP!Heard,
           ContendedP!BrowserEnds, ContendedP!EvidenceExpires, ContendedP!GuestShutdown
<1>1. Contended!ConfigureNetwork(s, n) => ContendedP!ConfigureNetwork(s, n)
  OBVIOUS
<1>2. Contended!BoundCall(s, o) => ContendedP!BoundCall(s, o)
  OBVIOUS
<1>3. Contended!Destroy(s) => ContendedP!Destroy(s)
  OBVIOUS
<1>4. Contended!CallEnds => ContendedP!CallEnds
  OBVIOUS
<1>5. Contended!CallAbandoned => ContendedP!CallAbandoned
  OBVIOUS
<1>6. Contended!BrowserEnds => ContendedP!BrowserEnds
  OBVIOUS
<1>7. Contended!EvidenceExpires => ContendedP!EvidenceExpires
  OBVIOUS
<1>8. Contended!GuestShutdown => ContendedP!GuestShutdown
  OBVIOUS
<1> QED BY <1>1, <1>2, <1>3, <1>4, <1>5, <1>6, <1>7, <1>8

\* The steps of an agent are the same.
LEMMA ContendedAgentsAgree ==
  ASSUME NEW a
  PROVE /\ Contended!Arrive(a) => ContendedP!Arrive(a)
        /\ Contended!BindSingleSilo(a) => ContendedP!BindSingleSilo(a)
        /\ Contended!GuestConfigure(a) => ContendedP!GuestConfigure(a)
        /\ Contended!GuestProbe(a) => ContendedP!GuestProbe(a)
        /\ Contended!StartBrowser(a) => ContendedP!StartBrowser(a)
        /\ Contended!RecordPid(a) => ContendedP!RecordPid(a)
        /\ Contended!TerminateOwnedBrowser(a) => ContendedP!TerminateOwnedBrowser(a)
        /\ Contended!Health(a) => ContendedP!Health(a)
        /\ Contended!BoundedLogs(a) => ContendedP!BoundedLogs(a)
        /\ Contended!DetachSilo(a) => ContendedP!DetachSilo(a)
        /\ Contended!RemoveSiloRoot(a) => ContendedP!RemoveSiloRoot(a)
        /\ Contended!FinishDetach(a) => ContendedP!FinishDetach(a)
        /\ Contended!AgentKilled(a) => ContendedP!AgentKilled(a)
<1> USE ContendedLeftovers
    DEF Contended!wslVars, Contended!Nothing, Contended!Networks, Contended!Ops,
           Contended!Steps, Contended!NoAgent, Contended!NoCall, Contended!Lost,
           Contended!Live, Contended!Receipt, Contended!NoReceipt, Contended!Chromium,
           Contended!Run, Contended!Free, Contended!At, Contended!Heard, Contended!Goto,
           Contended!End, Contended!Answer, Contended!Fail, Contended!ReadOwnedPid,
           Contended!Arrive, Contended!LockIsFree, Contended!BindSingleSilo,
           Contended!ReleaseActiveSilo, Contended!RevokeNetworkAuthorization, Contended!Settle,
           Contended!GuestConfigure, Contended!GuestProbe, Contended!Refresh, Contended!Swept,
           Contended!RevokedOrStale, Contended!ClaimActiveSilo, Contended!StartBrowser,
           Contended!Started, Contended!RecordPid, Contended!TerminateOwnedBrowser,
           Contended!Health, Contended!BoundedLogs, Contended!DetachSilo,
           Contended!RemoveSiloRoot, Contended!FinishDetach, Contended!AgentKilled, ContendedP!wslVars,
           ContendedP!Nothing, ContendedP!Networks, ContendedP!Ops, ContendedP!Steps,
           ContendedP!NoAgent, ContendedP!NoCall, ContendedP!Lost, ContendedP!Live,
           ContendedP!Receipt, ContendedP!NoReceipt, ContendedP!Chromium, ContendedP!Run,
           ContendedP!Free, ContendedP!At, ContendedP!Heard, ContendedP!Goto, ContendedP!End,
           ContendedP!Answer, ContendedP!Fail, ContendedP!ReadOwnedPid, ContendedP!Arrive,
           ContendedP!LockIsFree, ContendedP!BindSingleSilo, ContendedP!ReleaseActiveSilo,
           ContendedP!RevokeNetworkAuthorization, ContendedP!Settle, ContendedP!GuestConfigure,
           ContendedP!GuestProbe, ContendedP!Refresh, ContendedP!Swept,
           ContendedP!RevokedOrStale, ContendedP!ClaimActiveSilo, ContendedP!StartBrowser,
           ContendedP!Started, ContendedP!RecordPid, ContendedP!TerminateOwnedBrowser,
           ContendedP!Health, ContendedP!BoundedLogs, ContendedP!DetachSilo,
           ContendedP!RemoveSiloRoot, ContendedP!FinishDetach, ContendedP!AgentKilled
<1>1. Contended!Arrive(a) => ContendedP!Arrive(a)
  OBVIOUS
<1>2. Contended!BindSingleSilo(a) => ContendedP!BindSingleSilo(a)
  OBVIOUS
<1>3. Contended!GuestConfigure(a) => ContendedP!GuestConfigure(a)
  OBVIOUS
<1>4. Contended!GuestProbe(a) => ContendedP!GuestProbe(a)
  OBVIOUS
<1>5. Contended!StartBrowser(a) => ContendedP!StartBrowser(a)
  OBVIOUS
<1>6. Contended!RecordPid(a) => ContendedP!RecordPid(a)
  OBVIOUS
<1>7. Contended!TerminateOwnedBrowser(a) => ContendedP!TerminateOwnedBrowser(a)
  OBVIOUS
<1>8. Contended!Health(a) => ContendedP!Health(a)
  OBVIOUS
<1>9. Contended!BoundedLogs(a) => ContendedP!BoundedLogs(a)
  OBVIOUS
<1>10. Contended!DetachSilo(a) => ContendedP!DetachSilo(a)
  OBVIOUS
<1>11. Contended!FinishDetach(a) => ContendedP!FinishDetach(a)
  OBVIOUS
<1>12. Contended!AgentKilled(a) => ContendedP!AgentKilled(a)
  OBVIOUS
<1>13. Contended!RemoveSiloRoot(a) => ContendedP!RemoveSiloRoot(a)
  OBVIOUS
<1> QED BY <1>1, <1>2, <1>3, <1>4, <1>5, <1>6, <1>7, <1>8, <1>9, <1>10, <1>11, <1>12,
              <1>13

\* So are all steps.
LEMMA ContendedSteps == Contended!WslNext => ContendedP!WslNext
BY ContendedCallsAgree, ContendedAgentsAgree
  
       DEF Contended!WslNext, ContendedP!WslNext, Contended!AgentStep, ContendedP!AgentStep,
           Contended!Networks, ContendedP!Networks

\* What is assumed is the same.
LEMMA ContendedAssumes == Contended!WslGuestAssumption => ContendedP!WslGuestAssumption
BY DEF Contended!WslGuestAssumption, Contended!Nothing, ContendedP!WslGuestAssumption,
       ContendedP!Nothing

\* What the backends on the user's machine keep.
GuestsInv ==
  /\ In("wsl", WslP!WslInv) /\ In("contended", ContendedP!WslInv)
  /\ SandboxInv /\ HyperVInv

\* A WSL guest that rests keeps its invariant.
LEMMA WslRests ==
  ASSUME UNCHANGED wslVars
  PROVE (WslP!WslInv => WslP!WslInv') /\ (ContendedP!WslInv => ContendedP!WslInv')
<1>1. UNCHANGED WslP!wslVars /\ UNCHANGED ContendedP!wslVars
  BY DEF wslVars, WslP!wslVars, ContendedP!wslVars
<1> QED BY <1>1, WslP!GuestRestsAll, ContendedP!GuestRestsAll

\* The backend that rests keeps its invariant.
LEMMA HyperVRests == ASSUME HyperVInv, UNCHANGED hypervVars PROVE HyperVInv'
<1>1. power' \in {"off", "running"}
  BY DEF hypervVars, HyperVInv, HyperVTyped
<1> QED BY <1>1, PowerKeeps DEF hypervVars

\* The part that runs starts in its invariant, and so do those that rest.
LEMMA GuestsStart == EnvironmentsInit => GuestsInv
<1> SUFFICES ASSUME EnvironmentsInit PROVE GuestsInv
  OBVIOUS
<1>1. part = "contended" => ContendedP!WslInv
  BY ContendedStarts, ContendedP!GuestStarts DEF EnvironmentsInit
<1>2. part = "wsl" => WslP!WslInv
  BY WslStarts, WslP!GuestStarts DEF EnvironmentsInit
<1>3. SandboxInv
  BY BoxAssumption, SandboxStarts DEF EnvironmentsInit
<1>4. HyperVInv
  BY HyperVAssumption, HyperVStarts DEF EnvironmentsInit, HyperV!HyperVAssumption
<1> QED BY <1>1, <1>2, <1>3, <1>4 DEF GuestsInv, In

\* The part that runs keeps its invariant, and the others rest.
LEMMA GuestsStep ==
  ASSUME GuestsInv, [EnvironmentsNext]_<<part, vars, clientVars, wslVars, boxVars, hypervVars>>
  PROVE GuestsInv'
<1>1. part' = part
  BY DEF EnvironmentsNext
<1>2. In("wsl", WslP!WslInv)'
  <2> SUFFICES ASSUME part = "wsl" PROVE WslP!WslInv'
    BY <1>1 DEF In
  <2>1. WslP!WslInv /\ (Wsl!WslNext \/ UNCHANGED wslVars)
    BY DEF EnvironmentsNext, GuestsInv, In
  <2> QED BY <2>1, WslSteps, WslAssumption, WslAssumes, WslRests, WslP!GuestStep
<1>3. In("contended", ContendedP!WslInv)'
  <2> SUFFICES ASSUME part = "contended" PROVE ContendedP!WslInv'
    BY <1>1 DEF In
  <2>1. ContendedP!WslInv /\ (Contended!WslNext \/ UNCHANGED wslVars)
    BY DEF EnvironmentsNext, GuestsInv, In
  <2> QED BY <2>1, ContendedSteps, WslAssumption, ContendedAssumes, WslRests, ContendedP!GuestStep
<1>4. SandboxInv'
  <2>1. Box!SandboxNext \/ UNCHANGED Box!sandboxVars
    BY DEF EnvironmentsNext, boxVars, Box!sandboxVars
  <2> QED BY <2>1, BoxAssumption, SandboxStep, SandboxRests DEF GuestsInv
<1>5. HyperVInv'
  <2>1. HyperV!HyperVNext \/ UNCHANGED hypervVars
    BY DEF EnvironmentsNext
  <2> QED BY <2>1, HyperVAssumption, HyperVStep, HyperVRests DEF GuestsInv, HyperV!HyperVAssumption
<1> QED BY <1>2, <1>3, <1>4, <1>5 DEF GuestsInv

\* Whatever is lost, late, killed or cut off between two steps, each backend
\* keeps its own invariant.
THEOREM GuestsInvariant == EnvironmentsSpec => []GuestsInv
BY GuestsStart, GuestsStep, PTL DEF EnvironmentsSpec

\* A WSL guest keeps nothing of a Silo the host does not know of and runs one
\* recorded Chromium, a Sandbox has its files and its receipt, and what a
\* Hyper-V create made is journaled or received (WslGuest, SandboxGuest,
\* HyperVGuest).
THEOREM GuestsTracked == EnvironmentsSpec => []GuestsAreTracked
<1>1. GuestsInv => GuestsAreTracked
  <2> SUFFICES ASSUME GuestsInv PROVE GuestsAreTracked
    OBVIOUS
  <2>1. ASSUME WslP!WslInv PROVE Wsl!GuestIsTracked /\ Wsl!OneRecordedBrowser
    <3>1. Wsl!GuestIsTracked
      <4>1. \A s \in {Target} \ ghost.late : WslP!HostKnows(s)
        BY <2>1 DEF WslP!WslInv
      <4> QED BY <4>1 DEF WslP!HostKnows, WslP!Kept, WslP!Recorded, WslP!Lost, WslP!NoReceipt,
                          Wsl!GuestIsTracked, Wsl!Lost, Wsl!NoReceipt,
                          WslP!Nothing, Wsl!Nothing
    <3>2. Wsl!OneRecordedBrowser
      BY <2>1 DEF WslP!WslInv, WslP!BrowsersAreKnown, WslP!OneRecordedBrowser, WslP!Lost,
                      Wsl!OneRecordedBrowser, Wsl!Lost
    <3> QED BY <3>1, <3>2
  <2>2. ASSUME ContendedP!WslInv PROVE Contended!GuestIsTracked /\ Contended!OneRecordedBrowser
    <3>1. Contended!GuestIsTracked
      <4>1. \A s \in {Target, OtherTarget} \ ghost.late : ContendedP!HostKnows(s)
        BY <2>2 DEF ContendedP!WslInv
      <4> QED BY <4>1
                 DEF ContendedP!HostKnows, ContendedP!Kept, ContendedP!Recorded, ContendedP!Lost,
                     ContendedP!NoReceipt,
                          Contended!GuestIsTracked, Contended!Lost, Contended!NoReceipt,
                          ContendedP!Nothing, Contended!Nothing
    <3>2. Contended!OneRecordedBrowser
      BY <2>2
         DEF ContendedP!WslInv, ContendedP!BrowsersAreKnown, ContendedP!OneRecordedBrowser,
             ContendedP!Lost,
                      Contended!OneRecordedBrowser, Contended!Lost
    <3> QED BY <3>1, <3>2
  <2>3. Box!SandboxIsTracked
    <3>1. (\A c \in Scripts : scripts[c] = Box!NoScript) => ~Box!Waiting
      BY CallFacts DEF GuestsInv, SandboxInv, SandboxHeld, CallHasScript
    <3> QED BY <3>1 DEF GuestsInv, SandboxInv, SandboxHeld, SandboxRecorded, Box!SandboxIsTracked
  <2>4. HyperV!ResourcesAreOwned /\ HyperV!CleanedIsGone
    BY DEF GuestsInv, HyperVInv, Accounted, NothingOurs, HyperV!ResourcesAreOwned,
       HyperV!CleanedIsGone
  <2> QED BY <2>1, <2>2, <2>3, <2>4 DEF GuestsInv, GuestsAreTracked, In
<1> QED BY <1>1, GuestsInvariant, PTL

\* The agent is what it is wherever it runs: the part that runs is well formed.
THEOREM EnvironmentsRunAgent == EnvironmentsSpec => []IInv
<1>1. EnvironmentsInit => Init
  BY DEF EnvironmentsInit
<1>2. [EnvironmentsNext]_<<part, vars, clientVars, wslVars, boxVars, hypervVars>> => [Next]_vars
  BY DEF EnvironmentsNext
<1> QED BY <1>1, <1>2, InductiveInvariant, PTL DEF EnvironmentsSpec, Spec

\* Every part keeps its types, the Agent its whole invariant.
THEOREM EnvironmentsTyped == EnvironmentsSpec => []EnvironmentsTypeOK
<1>1. IInv /\ ClientInv /\ GuestsInv => EnvironmentsTypeOK
  <2> SUFFICES ASSUME IInv, ClientInv, GuestsInv PROVE EnvironmentsTypeOK
    OBVIOUS
  <2>1. Client!TypeOK
    BY DEF ClientInv, Stored
  <2>2. WslP!WslInv => Wsl!WslTypeOK
    BY
       DEF WslP!WslInv, WslP!Typed, Wsl!WslTypeOK, Wsl!NoCall, Wsl!Ops, Wsl!Networks, Wsl!Steps,
           Wsl!Live, Wsl!Chromium,
       Wsl!Lost, Wsl!Receipt, Wsl!NoReceipt, Wsl!Nothing, WslP!WslTypeOK, WslP!NoCall, WslP!Ops,
       WslP!Networks, WslP!Steps, WslP!Live, WslP!Chromium, WslP!Lost, WslP!Receipt,
       WslP!NoReceipt, WslP!Nothing
  <2>3. ContendedP!WslInv => Contended!WslTypeOK
    BY
       DEF ContendedP!WslInv, ContendedP!Typed, Contended!WslTypeOK, Contended!NoCall,
           Contended!Ops, Contended!Networks,
       Contended!Steps, Contended!Live, Contended!Chromium, Contended!Lost, Contended!Receipt,
       Contended!NoReceipt, Contended!Nothing, ContendedP!WslTypeOK, ContendedP!NoCall,
       ContendedP!Ops, ContendedP!Networks, ContendedP!Steps, ContendedP!Live,
       ContendedP!Chromium, ContendedP!Lost, ContendedP!Receipt, ContendedP!NoReceipt,
       ContendedP!Nothing
  <2>4. Box!SandboxTypeOK
    BY DEF GuestsInv, SandboxInv, SandboxTyped, SandboxCalls, SandboxScripts, SandboxSteps,
       Box!SandboxTypeOK, Box!NoSandbox, Box!Idle
  <2>5. HyperV!HyperVTypeOK
    BY DEF GuestsInv, HyperVInv, HyperVTyped, HyperVCalls, RunningControllers, ScriptSteps,
       HyperV!HyperVTypeOK
  <2> QED BY <2>1, <2>2, <2>3, <2>4, <2>5 DEF EnvironmentsTypeOK, GuestsInv, In
<1> QED BY <1>1, EnvironmentsRunAgent, RemoteInvariant, EnvironmentsRunClient, GuestsInvariant, PTL

\* In a WSL guest, whichever of its forms runs, a Chromium starts with the network
\* acknowledged last, and its profile stays while it runs.
LEMMA WslKeepsOwn ==
  ASSUME GuestsInv, GuestsInv', EnvironmentsNext
  PROVE /\ \A s \in {Target} \ ghost.late : Wsl!StartsAsAcknowledged(s)
        /\ \A s \in {Target, OtherTarget} \ ghost.late : Contended!StartsAsAcknowledged(s)
        /\ \A s \in guestDisk.profile \ guestDisk'.profile :
              \A b \in browser : b.silo = s => b.pid = "lost"
<1>1. CASE part = "wsl"
  <2>1. WslP!WslInv /\ WslP!WslInv' /\ WslP!WslNext
    <3>1. Wsl!WslNext /\ part' = "wsl"
      BY <1>1 DEF EnvironmentsNext
    <3> QED BY <1>1, <3>1, WslSteps DEF GuestsInv, In
  <2>2. \A b \in browser' : b.silo = Target
    BY <2>1 DEF WslP!WslInv, WslP!Typed, WslP!OfGuest, WslP!Chromium, WslP!WslTypeOK
  <2>3. \A s \in {Target} \ ghost.late : WslP!StartsAsAcknowledged(s)
    BY <2>1, WslP!StartsAreHeard
  <2>4. \A s \in guestDisk.profile \ guestDisk'.profile :
          \A b \in browser : b.silo = s => b.pid = WslP!Lost
    BY <2>1, WslP!ProfilesStay
  <2> QED BY <2>2, <2>3, <2>4
     
          DEF WslP!StartsAsAcknowledged, Wsl!StartsAsAcknowledged, Contended!StartsAsAcknowledged,
              WslP!Lost
<1>2. CASE part = "contended"
  <2>1. ContendedP!WslInv /\ ContendedP!WslNext
    <3>1. Contended!WslNext
      BY <1>2 DEF EnvironmentsNext
    <3> QED BY <1>2, <3>1, ContendedSteps DEF GuestsInv, In
  <2>2. \A s \in {Target, OtherTarget} \ ghost.late : ContendedP!StartsAsAcknowledged(s)
    BY <2>1, ContendedP!StartsAreHeard
  <2>3. \A s \in guestDisk.profile \ guestDisk'.profile :
          \A b \in browser : b.silo = s => b.pid = ContendedP!Lost
    BY <2>1, ContendedP!ProfilesStay
  <2> QED BY <2>2, <2>3
      DEF ContendedP!StartsAsAcknowledged, Wsl!StartsAsAcknowledged, Contended!StartsAsAcknowledged,
          ContendedP!Lost
<1>3. CASE part \notin {"wsl", "contended"}
  <2>1. UNCHANGED wslVars
    BY <1>3 DEF EnvironmentsNext
  <2> QED BY <2>1 DEF wslVars, Wsl!StartsAsAcknowledged, Contended!StartsAsAcknowledged
<1> QED BY <1>1, <1>2, <1>3

\* A Chromium starts with the network acknowledged last and keeps its profile, a
\* script closes its own Sandbox, and what others made in Hyper-V stays
\* (WslGuest, SandboxGuest, HyperVGuest).
THEOREM GuestsKeepOwn == EnvironmentsSpec => GuestsKeepToTheirOwn
<1> DEFINE moves == [EnvironmentsNext]_<<part, vars, clientVars, wslVars, boxVars, hypervVars>>
<1>1. GuestsInv /\ GuestsInv' /\ moves
        => /\ [\A s \in {Target} \ ghost.late : Wsl!StartsAsAcknowledged(s)]_(Wsl!wslVars)
           /\ [\A s \in guestDisk.profile \ guestDisk'.profile :
                  \A b \in browser : b.silo = s => b.pid = Wsl!Lost]_(Wsl!wslVars)
  BY WslKeepsOwn DEF Wsl!wslVars, wslVars, Wsl!Lost
<1>2. GuestsInv /\ GuestsInv' /\ moves
        => /\ [\A s \in {Target, OtherTarget} \ ghost.late :
                  Contended!StartsAsAcknowledged(s)]_(Contended!wslVars)
           /\ [\A s \in guestDisk.profile \ guestDisk'.profile :
                  \A b \in browser : b.silo = s => b.pid = Contended!Lost]_(Contended!wslVars)
  BY WslKeepsOwn DEF Contended!wslVars, wslVars, Contended!Lost
<1>3. GuestsInv /\ moves
        => [\A c \in Scripts : Box!Ready(c, "stop") /\ scripts'[c] # scripts[c] /\ sandbox' # sandbox
               => tracked[scripts[c].env] = sandbox.id]_(Box!sandboxVars)
  <2> SUFFICES ASSUME SandboxTyped, [Box!SandboxNext]_(Box!sandboxVars), NEW c \in Scripts,
                      Box!Ready(c, "stop"), scripts'[c] # scripts[c], sandbox' # sandbox
               PROVE tracked[scripts[c].env] = sandbox.id
    BY DEF EnvironmentsNext, GuestsInv, SandboxInv, boxVars, Box!sandboxVars
  <2> QED BY StopsItsOwn
<1>4. GuestsInv /\ moves
        => [\A k \in HyperV!KindSet : resource[k] = "foreign"
               => resource'[k] = "foreign"]_(HyperV!hypervVars)
  <2> SUFFICES ASSUME HyperVInv, [HyperV!HyperVNext]_hypervVars
               PROVE \A k \in HyperV!KindSet : resource[k] = "foreign" => resource'[k] = "foreign"
    BY DEF EnvironmentsNext, GuestsInv, hypervVars, HyperV!hypervVars
  <2> QED BY OthersStay
<1> QED BY <1>1, <1>2, <1>3, <1>4, GuestsInvariant, PTL
        DEF EnvironmentsSpec, GuestsKeepToTheirOwn, Wsl!HeardStartsAreAcknowledged,
            Wsl!ProfilesOutliveBrowsers, Contended!HeardStartsAreAcknowledged,
            Contended!ProfilesOutliveBrowsers, Box!ClosesOnlyItsOwn, HyperV!ForeignStays
=============================================================================
