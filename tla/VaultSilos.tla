----------------------------- MODULE VaultSilos -----------------------------
(***************************************************************************)
(* The Silos of a Vault (vault.rs, application/silos.rs, identity.rs):     *)
(* what every operation does to the encrypted data and to the profile      *)
(* directories beside it, and what a restore of a Vault backup keeps.      *)
(*                                                                         *)
(* A stock Silo's identity is its browser family and engine template; a    *)
(* managed one's is the intent and seed its identity artifact is made from.*)
(* An artifact is known by intent, seed and network; raw tells two         *)
(* provisionings of the same one apart.  Saving ends in one of three ways: *)
(* saved, refused (no step), or in doubt: on disk although the caller heard*)
(* of an error and memory kept the old value (VaultFile).                  *)
(***************************************************************************)
EXTENDS Naturals, FiniteSets

CONSTANTS Managed, Stock, \* the two kinds of Silo
          Identities,
          None,
          MaxArtifacts,   \* MAX_IDENTITY_ARTIFACTS
          MaxFresh,       \* bound on random seeds and references
          MaxCalls,       \* bound on the operations
          MaxDoubts       \* bound on saves in doubt, and on failed removals

VARIABLES data,       \* the unlocked Vault
          disk,       \* the Vault a restart reads
          home,       \* the managed directory of each Silo
          quarantine, \* its .deleting- directory
          job,        \* the operation in progress, with its reservation
          backup,     \* the last Vault backup
          born,       \* Silos created so far: identifiers are never reused
          fresh, calls, doubts

vars == <<data, disk, home, quarantine, job, backup, born, fresh, calls, doubts>>
bounds == <<fresh, calls, doubts>>

AllSilos == Managed \cup Stock
Networks == {"direct", "proxy"}
Trees == {"none", "clean", "used"}
Artifacts == [identity : Identities, seed : 1..MaxFresh, network : Networks,
              raw : {0, 1}]
SiloRecords == [identity : Identities, seed : 1..MaxFresh, network : Networks,
                secret : 0..MaxFresh, raw : {0, 1}, locked : BOOLEAN]
Vaults == [silos : [AllSilos -> SiloRecords \cup {None}],
           artifacts : SUBSET Artifacts,
           secrets : SUBSET (1..MaxFresh),
           runs : SUBSET AllSilos,      \* recent_runs
           evidence : SUBSET AllSilos]  \* Silos with network evidence

NoJob == [op |-> "none", silo |-> None, plan |-> None]
Job(op, s, plan) == [op |-> op, silo |-> s, plan |-> plan]

\* The two kinds of Silos, and bounds that are numbers.
SilosAssumption ==
  /\ Managed \cap Stock = {} /\ None \notin SiloRecords /\ None \notin Vaults
  /\ MaxFresh \in Nat /\ MaxCalls \in Nat /\ MaxDoubts \in Nat /\ MaxArtifacts \in Nat

TypeOK == /\ data \in Vaults /\ disk \in Vaults
          /\ home \in [AllSilos -> Trees] /\ quarantine \in [AllSilos -> Trees]
          /\ job = NoJob \/ (job.silo \in AllSilos /\ job.plan \in SiloRecords)
          /\ backup \in Vaults \cup {None}
          /\ born \subseteq AllSilos
          /\ fresh \in 0..MaxFresh /\ calls \in 0..MaxCalls /\ doubts \in 0..MaxDoubts

EmptyVault == [silos |-> [s \in AllSilos |-> None], artifacts |-> {}, secrets |-> {},
               runs |-> {}, evidence |-> {}]

Init == /\ data = EmptyVault /\ disk = EmptyVault
        /\ home = [s \in AllSilos |-> "none"] /\ quarantine = [s \in AllSilos |-> "none"]
        /\ job = NoJob
        /\ backup = None
        /\ born = {}
        /\ fresh = 0 /\ calls = 0 /\ doubts = 0
-----------------------------------------------------------------------------
Present(v) == {s \in AllSilos : v.silos[s] # None}

ArtifactOf(r) == [identity |-> r.identity, seed |-> r.seed,
                  network |-> r.network, raw |-> r.raw]

SameId(a, b) == [a EXCEPT !.raw = 0] = [b EXCEPT !.raw = 0]

Bound(v) == {ArtifactOf(v.silos[s]) : s \in Present(v) \cap Managed}

References(v) == {v.silos[s].secret : s \in Present(v)} \ {0}

\* validate_vault_data, as far as the operations could break it: an unlock and a
\* restore check it, a creation checks nothing of it.
Overfull(v) == Cardinality(v.artifacts) > MaxArtifacts
Consistent(v) == /\ Bound(v) \subseteq v.artifacts
                 /\ References(v) \subseteq v.secrets
                 /\ v.runs \cup v.evidence \subseteq Present(v)
Valid(v) == Consistent(v) /\ ~Overfull(v)

\* remove_unreferenced_secrets, remove_unreferenced_identity_artifact
DropSecrets(v) == [v EXCEPT !.secrets = @ \cap References(v)]

DropArtifact(v, old) ==
    IF \E a \in Bound(v) : SameId(a, old) THEN v
    ELSE [v EXCEPT !.artifacts = {a \in @ : ~SameId(a, old)}]

\* The first artifact accepted under an identifier stays the one used.
FirstWriter(v, r) ==
    IF \E a \in v.artifacts : SameId(a, ArtifactOf(r))
    THEN [r EXCEPT !.raw = (CHOOSE a \in v.artifacts : SameId(a, ArtifactOf(r))).raw]
    ELSE r

WithSilo(v, s, r) ==
    LET kept == IF s \in Managed THEN FirstWriter(v, r) ELSE r
    IN [v EXCEPT !.silos[s] = kept,
                 !.artifacts = IF s \in Managed THEN @ \cup {ArtifactOf(kept)} ELSE @,
                 !.secrets = @ \cup ({r.secret} \ {0})]

\* A Silo's record is replaced and what only the old one used is dropped.
Replaced(v, s, r) ==
    LET new == DropSecrets(WithSilo(v, s, r))
    IN IF s \in Managed THEN DropArtifact(new, ArtifactOf(v.silos[s])) ELSE new
-----------------------------------------------------------------------------
Save(new) == \/ /\ data' = new /\ disk' = new
                /\ UNCHANGED doubts
             \/ /\ disk' = new
                /\ doubts < MaxDoubts /\ doubts' = doubts + 1
                /\ UNCHANGED data

NotSaved == UNCHANGED <<data, disk, doubts>>

TreesKept == UNCHANGED <<home, quarantine>>

Call == calls < MaxCalls /\ calls' = calls + 1

Idle == job = NoJob

\* LocalEnvironmentControl::reserve_silo: one operation at a time per Silo; a
\* creation under way holds them all.
Free(s) == job = NoJob \/ (job.op # "create" /\ job.silo # s)

Inactive(s) == s \in Present(data)
-----------------------------------------------------------------------------

\* A record with a fresh seed (and secret); provisioning follows without the lock.
NewRecord(i, n, f) == [identity |-> i, seed |-> f,
                       network |-> n, secret |-> IF n = "proxy" THEN f ELSE 0,
                       raw |-> 0, locked |-> FALSE]

StartCreate(s, i, n) ==
    /\ Idle /\ Call
    /\ s \notin born
    /\ fresh < MaxFresh /\ fresh' = fresh + 1
    /\ job' = Job("create", s, NewRecord(i, n, fresh + 1))
    /\ NotSaved /\ TreesKept
    /\ UNCHANGED <<backup, born>>

\* The directory is made first; only a managed Silo's is removed when saving fails.
FinishCreate ==
    /\ job.op = "create"
    /\ \/ \E raw \in {0, 1} :
             Save(WithSilo(data, job.silo, [job.plan EXCEPT !.raw = raw]))
       \/ NotSaved
    /\ \/ home' = [home EXCEPT ![job.silo] = "clean"]
       \/ job.silo \in Managed /\ data' = data /\ UNCHANGED home
    /\ born' = born \cup {job.silo}
    /\ job' = NoJob
    /\ UNCHANGED <<quarantine, backup, fresh, calls>>

\* update_silo_configuration and update_silo_engine on a stock Silo: the identity
\* only before the lock, the network at any time.
ChangeStock(s, i, n) ==
    /\ Free(s) /\ s \in Stock /\ Inactive(s) /\ Call
    /\ data.silos[s].locked => i = data.silos[s].identity
    /\ LET old == data.silos[s]
           secret == CASE n = "direct" -> 0
                       [] n = "proxy" /\ old.network = "proxy" -> old.secret
                       [] OTHER -> fresh + 1
       IN /\ secret <= MaxFresh
          /\ fresh' = IF secret > fresh THEN secret ELSE fresh
          /\ Save(Replaced(data, s, [old EXCEPT !.identity = i, !.network = n,
                                                !.secret = secret]))
    /\ TreesKept
    /\ UNCHANGED <<job, backup, born>>

\* update_managed_identity: the guards are read before provisioning and again after.
StartReplace(s, i, rotate) ==
    /\ Free(s) /\ s \in Managed /\ Inactive(s) /\ Idle /\ Call
    /\ ~data.silos[s].locked
    /\ rotate => fresh < MaxFresh
    /\ fresh' = IF rotate THEN fresh + 1 ELSE fresh
    /\ job' = Job("replace", s, [data.silos[s] EXCEPT !.identity = i,
                                     !.seed = IF rotate THEN fresh + 1 ELSE @])
    /\ NotSaved /\ TreesKept
    /\ UNCHANGED <<backup, born>>

FinishReplace ==
    /\ job.op = "replace"
    /\ \/ /\ job.silo \in Present(data) /\ ~data.silos[job.silo].locked
          /\ \E raw \in {0, 1} :
                Save(Replaced(data, job.silo,
                              [data.silos[job.silo] EXCEPT !.identity = job.plan.identity,
                                   !.seed = job.plan.seed, !.raw = raw]))
       \/ NotSaved
    /\ job' = NoJob
    /\ TreesKept
    /\ UNCHANGED <<backup, born, fresh, calls>>

\* A managed Silo's network edit provisions a new artifact of the same intent.
StartRebind(s, n) ==
    /\ Free(s) /\ s \in Managed /\ Inactive(s) /\ Idle /\ Call
    /\ n = "proxy" => fresh < MaxFresh
    /\ fresh' = IF n = "proxy" THEN fresh + 1 ELSE fresh
    /\ job' = Job("rebind", s, [data.silos[s] EXCEPT !.network = n,
                                    !.secret = IF n = "proxy" THEN fresh + 1 ELSE 0])
    /\ NotSaved /\ TreesKept
    /\ UNCHANGED <<backup, born>>

FinishRebind ==
    /\ job.op = "rebind"
    /\ \/ /\ job.silo \in Present(data)
          /\ \E raw \in {0, 1} :
                Save(Replaced(data, job.silo,
                              [job.plan EXCEPT !.raw = raw,
                                   !.locked = data.silos[job.silo].locked]))
       \/ NotSaved
    /\ job' = NoJob
    /\ TreesKept
    /\ UNCHANGED <<backup, born, fresh, calls>>

\* rename, archive, restore_archived, recheck: nothing modelled changes, but the
\* whole Vault is written again.
EditMetadata(s) ==
    /\ Free(s) /\ Inactive(s) /\ Call
    /\ Save(data)
    /\ TreesKept
    /\ UNCHANGED <<job, backup, born, fresh>>

ImportEvidence(s) ==
    /\ Inactive(s) /\ Call
    /\ Save([data EXCEPT !.evidence = @ \cup {s}])
    /\ TreesKept
    /\ UNCHANGED <<job, backup, born, fresh>>

ClearEvidence(s) ==
    /\ s \in data.evidence /\ Call
    /\ Save([data EXCEPT !.evidence = @ \ {s}])
    /\ TreesKept
    /\ UNCHANGED <<job, backup, born, fresh>>
-----------------------------------------------------------------------------
(* Launch: the identity is locked and the run recorded before the browser starts *)

\* Mutant: a lock that could not be saved does not stop the launch.
LaunchAnyway(s) ==
    /\ Idle /\ Free(s) /\ Inactive(s) /\ Call
    /\ Save([data EXCEPT !.silos[s].locked = TRUE]) \/ NotSaved
    /\ job' = Job("launch", s, data'.silos[s])
    /\ TreesKept
    /\ UNCHANGED <<backup, born, fresh>>

Launch(s) ==
    /\ Idle /\ Free(s) /\ Inactive(s) /\ Call
    /\ \/ /\ data.silos[s].locked /\ NotSaved
       \/ /\ ~data.silos[s].locked
          /\ Save([data EXCEPT !.silos[s].locked = TRUE])
    /\ job' = IF data'.silos[s].locked THEN Job("launch", s, data'.silos[s]) ELSE NoJob
    /\ TreesKept
    /\ UNCHANGED <<backup, born, fresh>>

\* The launcher refuses a profile root that is not there.
BeginRun ==
    /\ job.op = "launch"
    /\ Save([data EXCEPT !.runs = @ \cup {job.silo}]) \/ NotSaved
    /\ home' = IF job.silo \in data'.runs /\ home[job.silo] # "none"
               THEN [home EXCEPT ![job.silo] = "used"] ELSE home
    /\ job' = NoJob
    /\ UNCHANGED <<quarantine, backup, born, fresh, calls>>
-----------------------------------------------------------------------------
(* delete_silo: aside, out of the Vault, and only then gone *)

Without(v, s) ==
    LET new == DropSecrets([v EXCEPT !.silos[s] = None, !.runs = @ \ {s},
                                     !.evidence = @ \ {s}])
    IN IF s \in Managed THEN DropArtifact(new, ArtifactOf(v.silos[s])) ELSE new

StartDelete(s) ==
    /\ Idle /\ Free(s) /\ Inactive(s) /\ Call
    /\ \/ /\ home[s] = "none" /\ TreesKept
       \/ /\ home[s] # "none" /\ quarantine[s] = "none"
          /\ quarantine' = [quarantine EXCEPT ![s] = home[s]]
          /\ home' = [home EXCEPT ![s] = "none"]
    /\ job' = Job("delete", s, data.silos[s])
    /\ NotSaved
    /\ UNCHANGED <<backup, born, fresh>>

MoveBack(s) == \/ /\ home' = [home EXCEPT ![s] = quarantine[s]]
                  /\ quarantine' = [quarantine EXCEPT ![s] = "none"]
               \/ TreesKept

Remove(s) == /\ quarantine' = [quarantine EXCEPT ![s] = "none"]
             /\ UNCHANGED home

\* Mutant: the tree is removed whether or not the Silo left the Vault.
FinishDeleteFirst ==
    /\ job.op = "delete"
    /\ Save(Without(data, job.silo)) \/ NotSaved
    /\ Remove(job.silo)
    /\ job' = NoJob
    /\ UNCHANGED <<backup, born, fresh, calls>>

FinishDelete ==
    /\ job.op = "delete"
    /\ Save(Without(data, job.silo)) \/ NotSaved
    /\ IF job.silo \in Present(data')
       THEN IF quarantine[job.silo] # "none" THEN MoveBack(job.silo) ELSE TreesKept
       ELSE Remove(job.silo) \/ TreesKept
    /\ job' = NoJob
    /\ UNCHANGED <<backup, born, fresh, calls>>
-----------------------------------------------------------------------------
(* Backup and restore of the Vault *)

Backup ==
    /\ Idle /\ Call
    /\ Save(data)
    /\ backup' = IF data' = disk' THEN data ELSE backup
    /\ TreesKept
    /\ UNCHANGED <<job, born, fresh>>

\* merge_preserved_silo_identity_state: the artifact binding is not compared.
LockConflicts(s, old) ==
    /\ data.silos[s].locked
    /\ \/ old.silos[s] = None
       \/ s \in Stock /\ old.silos[s].identity # data.silos[s].identity
       \/ old.silos[s].seed # data.silos[s].seed

Merged(old) ==
    [old EXCEPT
        !.silos = [s \in AllSilos |->
                     IF s \in Present(data) /\ data.silos[s].locked
                     THEN [old.silos[s] EXCEPT !.locked = TRUE] ELSE old.silos[s]],
        !.artifacts = @ \cup Bound(data)]

\* Every restored Silo gets its directory before the Vault is written.
Restore ==
    /\ Idle /\ Call
    /\ backup # None
    /\ \A s \in Present(data) : ~LockConflicts(s, backup)
    /\ \A a \in Bound(data), b \in backup.artifacts : SameId(a, b) => a = b
    /\ Valid(Merged(backup))
    /\ home' = [s \in AllSilos |-> IF s \in Present(backup) /\ home[s] = "none"
                                THEN "clean" ELSE home[s]]
    /\ Save(Merged(backup)) \/ NotSaved
    /\ UNCHANGED <<quarantine, job, backup, born, fresh>>

\* A lock and unlock in a provisioning window, or a crash at any point.
Reload ==
    /\ Valid(disk)
    /\ data' = disk
    /\ job' \in IF job.op \in {"create", "replace", "rebind"} THEN {job, NoJob} ELSE {NoJob}
    /\ UNCHANGED <<disk, backup, born>>
    /\ TreesKept
    /\ UNCHANGED bounds

Next == \/ \E s \in AllSilos, i \in Identities, n \in Networks :
              StartCreate(s, i, n) \/ ChangeStock(s, i, n)
        \/ \E s \in AllSilos, i \in Identities, rotate \in BOOLEAN : StartReplace(s, i, rotate)
        \/ \E s \in AllSilos, n \in Networks : StartRebind(s, n)
        \/ \E s \in AllSilos : \/ EditMetadata(s) \/ ImportEvidence(s) \/ ClearEvidence(s)
                            \/ Launch(s) \/ StartDelete(s)
        \/ FinishCreate \/ FinishReplace \/ FinishRebind \/ BeginRun \/ FinishDelete
        \/ Backup \/ Restore
        \/ Reload

Spec == Init /\ [][Next]_vars
-----------------------------------------------------------------------------
\* Whatever was saved, the next unlock finds every artifact, secret and Silo that
\* another part of the Vault refers to.  It may still refuse the Vault for the number
\* of its artifacts (OnlyCreationsOverfill).
VaultReopens == Consistent(disk)

\* Only create_managed_silo, which checks no limit, makes a Vault that has more
\* artifacts than the next unlock accepts: no edit, deletion, backup or restore does,
\* of a Vault that had no more.
OnlyCreationsOverfill ==
    [][Overfull(disk') /\ job.op # "create" => Overfull(data) \/ Overfull(disk)]_vars

\* The credentials kept are exactly those a Silo still uses, through edits,
\* deletions, saves in doubt and restores.
SecretsAreReferenced == data.secrets = References(data) /\ disk.secrets = References(disk)

\* A profile a browser has used never stands under a Silo whose identity may still
\* be edited, whatever is restored over it; only a save in doubt can bring that about.
UsedProfileIsLocked ==
    \A s \in AllSilos : home[s] = "used" /\ doubts = 0 /\ s \in Present(data)
                       => data.silos[s].locked

\* A profile is destroyed only once its Silo has left the Vault, in memory and on disk.
ProfilesOutliveSilos ==
    [][\A s \in AllSilos : "used" \in {home[s], quarantine[s]}
                          /\ "used" \notin {home'[s], quarantine'[s]}
                        => data'.silos[s] = None /\ disk'.silos[s] = None]_vars

LocksKept(v, w) ==
    \A s \in Present(v) \cap Present(w) :
        v.silos[s].locked => w.silos[s].locked /\ w.silos[s].seed = v.silos[s].seed

IdentityKept(v, w) ==
    \A s \in Present(v) \cap Present(w) :
        v.silos[s].locked => w.silos[s].identity = v.silos[s].identity

\* Once a browser was started with an identity, no edit, race of edits or restart
\* changes it, and not even a restore takes the lock away.  What a restore does to
\* the artifact of a managed Silo is LockedIdentityKept.
LocksOutliveOperations ==
    [][/\ LocksKept(data, data')
       /\ backup = None => IdentityKept(data, data')]_vars

\* docs/product-scope.md: after the first launch the identity stays locked; a new
\* fingerprint is a new Silo.
LockedIdentityKept == [][IdentityKept(data, data')]_vars
=============================================================================
