----------------------------- MODULE VaultFile ------------------------------
(***************************************************************************)
(* The desktop Vault (vault.rs): one encrypted envelope in vault.json, its *)
(* decrypted copy in memory while it is unlocked, and every operation that *)
(* replaces it, one file-system call at a time.                            *)
(*                                                                         *)
(* An envelope is the data, the passphrase that opens it and the data key; *)
(* key 0 stands for the password-derived key of an envelope of version 1.  *)
(* dir is what the process sees and disk what a power loss may leave, as in*)
(* AuthFile.  Older versions left vault.bak behind; nothing writes it now. *)
(* What restore keeps of the current Vault is the subject of VaultSilos.   *)
(* The Unix calls are modelled: on Windows the rename is written through.  *)
(***************************************************************************)
EXTENDS Naturals

CONSTANTS Data, Passphrases,
          Empty,       \* the data of a new Vault
          Torn, Absent, Locked,
          MaxKeys,     \* bound on the random data keys
          MaxCalls,    \* bound on the operations
          MaxFailures  \* bound on failing file-system calls

\* The key of an envelope of version 2 is not 0: at least one can be generated.
VaultAssumption ==
    /\ Empty \in Data
    /\ MaxKeys \in Nat \ {0} /\ MaxCalls \in Nat /\ MaxFailures \in Nat
    /\ Absent # Torn /\ Absent # Locked /\ Absent \notin Passphrases
    /\ {Torn, Absent, Locked} \cap [data : Data, pass : Passphrases, key : 0..MaxKeys] = {}

VARIABLES dir,         \* [live, tmp, bak] as the process sees them
          disk,        \* directories a power loss may leave
          mem,         \* VaultRuntime.unlocked
          ask,         \* the operation in progress and its arguments
          prospective, \* the envelope being written
          pc,          \* the next file-system call
          minted,      \* data keys generated
          copy,        \* the file at the backup path
          calls, failures

vars == <<dir, disk, mem, ask, prospective, pc, minted, copy, calls, failures>>

Envelopes == [data : Data, pass : Passphrases, key : 0..MaxKeys]
Contents == Envelopes \cup {Torn, Absent}
Directories == [live : Contents, tmp : Contents, bak : Contents]

NoCall == [op |-> "none", pass |-> Absent, to |-> Absent, data |-> Empty]

Persisting == {"again", "create", "write", "rename", "sync"}

TypeOK == /\ dir \in Directories
          /\ disk \subseteq Directories
          /\ mem \in Envelopes \cup {Locked}
          /\ ask \in [op : {"none", "initialize", "unlock", "change", "edit",
                            "backup", "restore"},
                      pass : Passphrases \cup {Absent},
                      to : Passphrases \cup {Absent}, data : Data]
          /\ prospective \in Envelopes \cup {Absent}
          /\ pc \in {"idle", "recover", "read", "publish"} \cup Persisting
          /\ minted \in 0..MaxKeys
          /\ copy \in Envelopes \cup {Absent}
          /\ calls \in 0..MaxCalls /\ failures \in 0..MaxFailures

\* No Vault, an old or a new one, and what an older version's interrupted
\* replacement left: the previous envelope in vault.bak, with or without a live one.
Init == /\ \E p \in Passphrases :
              LET old == [data |-> Empty, pass |-> p, key |-> 0]
                  first == [old EXCEPT !.key = 1]
              IN dir \in {[live |-> Absent, tmp |-> Absent, bak |-> Absent],
                          [live |-> old, tmp |-> Absent, bak |-> Absent],
                          [live |-> Absent, tmp |-> Torn, bak |-> old],
                          [live |-> first, tmp |-> Absent, bak |-> old]}
        /\ disk = {dir}
        /\ mem = Locked
        /\ ask = NoCall
        /\ prospective = Absent
        /\ pc = "idle"
        /\ minted = 1
        /\ copy = Absent
        /\ calls = 0 /\ failures = 0
-----------------------------------------------------------------------------
SetDir(d) == /\ dir' = d
             /\ disk' = disk \cup {d}

FsUnchanged == UNCHANGED <<dir, disk>>
Working == UNCHANGED <<calls, failures>>

Goto(label) == /\ pc' = label
               /\ Working
               /\ UNCHANGED <<mem, ask, prospective, minted, copy>>

Return == pc' = "idle" /\ ask' = NoCall /\ prospective' = Absent

\* Mutant: a failed operation leaves what it was writing, or nothing, in memory.
ReturnErrorKeepsNew ==
    /\ Return
    /\ mem' = IF ask.op \in {"initialize", "unlock"} THEN prospective ELSE mem
    /\ UNCHANGED <<minted, copy, calls>>

\* A new Vault and a migrated one are dropped when they cannot be saved; every
\* other operation keeps, or puts back, what memory held.
ReturnError == /\ Return
               /\ mem' = IF ask.op \in {"initialize", "unlock"} /\ pc \in Persisting
                         THEN Locked ELSE mem
               /\ UNCHANGED <<minted, copy, calls>>

Fails == /\ FsUnchanged
         /\ failures < MaxFailures /\ failures' = failures + 1
         /\ ReturnError

Refused == /\ FsUnchanged
           /\ UNCHANGED failures
           /\ ReturnError

Called == calls < MaxCalls /\ calls' = calls + 1 /\ UNCHANGED failures

\* A fresh random data key.
Fresh(e) == [e EXCEPT !.key = minted + 1]

Persist(e) == /\ prospective' = e
              /\ pc' = "again"
              /\ ask' = [NoCall EXCEPT !.op = ask.op]
              /\ Working
              /\ UNCHANGED <<mem, copy>>

Mint == minted < MaxKeys /\ minted' = minted + 1
-----------------------------------------------------------------------------
(* recover_interrupted_write, before an operation and again in persist_data *)

\* Mutant: the recovery copy wins over the file that replaced it.
RecoverBackupWins(label, next) ==
    /\ pc = label
    /\ IF dir.bak # Absent
       THEN SetDir([dir EXCEPT !.live = dir.bak, !.bak = Absent])
       ELSE FsUnchanged
    /\ Goto(next)

\* The live file is authoritative; removing the copy is best effort.
Recover(label, next) ==
    /\ pc = label
    /\ \/ /\ dir.live = Absent /\ dir.bak # Absent
          /\ \/ /\ SetDir([dir EXCEPT !.live = dir.bak, !.bak = Absent])
                /\ Goto(next)
             \/ Fails
       \/ /\ dir.live # Absent
          /\ \/ SetDir([dir EXCEPT !.bak = Absent])
             \/ FsUnchanged
          /\ Goto(next)
       \/ /\ dir.live = Absent /\ dir.bak = Absent
          /\ FsUnchanged
          /\ Goto(next)

RecoverFirst == \/ ask.op \notin {"edit", "backup"} /\ Recover("recover", "read")
                \/ ask.op \in {"edit", "backup"} /\ Recover("recover", "create")

RecoverAgain == Recover("again", "create")
-----------------------------------------------------------------------------
(* The operations *)

Begin(call) == /\ pc = "idle"
               /\ ask' = call
               /\ pc' = "recover"
               /\ Called
               /\ FsUnchanged
               /\ UNCHANGED <<mem, prospective, minted, copy>>

Initialize(p) == Begin([NoCall EXCEPT !.op = "initialize", !.pass = p])
Unlock(p) == Begin([NoCall EXCEPT !.op = "unlock", !.pass = p])
ChangePassphrase(p, q) ==
    Begin([NoCall EXCEPT !.op = "change", !.pass = p, !.to = q])

\* Any operation that clones the data, persists it and then keeps it.
Edit(d) == /\ pc = "idle" /\ mem # Locked
           /\ ask' = [NoCall EXCEPT !.op = "edit"]
           /\ prospective' = [mem EXCEPT !.data = d]
           /\ pc' = "recover"
           /\ Called
           /\ FsUnchanged
           /\ UNCHANGED <<mem, minted, copy>>

Backup == /\ pc = "idle" /\ mem # Locked /\ copy = Absent
          /\ ask' = [NoCall EXCEPT !.op = "backup"]
          /\ prospective' = mem
          /\ pc' = "recover"
          /\ Called
          /\ FsUnchanged
          /\ UNCHANGED <<mem, minted, copy>>

\* The merged data is any: VaultMerge says which.
Restore(p, d) == /\ copy # Absent /\ copy.pass = p
                 /\ Begin([NoCall EXCEPT !.op = "restore", !.pass = p, !.data = d])

\* initialize, unlock, change_passphrase and restore look at the live file.
Opened == dir.live # Absent /\ dir.live # Torn /\ dir.live.pass = ask.pass

Read ==
    /\ pc = "read"
    /\ FsUnchanged
    /\ \/ /\ ask.op = "initialize" /\ dir.live = Absent
          /\ Persist([data |-> Empty, pass |-> ask.pass, key |-> minted + 1])
          /\ Mint
       \/ /\ ask.op = "unlock" /\ Opened /\ dir.live.key # 0
          /\ mem' = dir.live
          /\ Return /\ Working
          /\ UNCHANGED <<minted, copy>>
       \/ /\ ask.op = "unlock" /\ Opened /\ dir.live.key = 0
          /\ Persist(Fresh(dir.live))
          /\ Mint
       \/ /\ ask.op = "change" /\ Opened
          /\ mem # Locked /\ mem.key = dir.live.key
          /\ Persist(Fresh([mem EXCEPT !.pass = ask.to]))
          /\ Mint
       \/ /\ ask.op = "restore"
          /\ dir.live = Absent \/ mem # Locked
          /\ Persist([copy EXCEPT !.data = ask.data])
          /\ UNCHANGED minted
       \/ Refused
-----------------------------------------------------------------------------
(* persist_data, atomic_write_with_directory_sync *)

CreateTemporary == /\ pc = "create"
                   /\ \/ SetDir([dir EXCEPT !.tmp = Torn]) /\ Goto("write")
                      \/ Fails

WriteTemporary == /\ pc = "write"
                  /\ \/ SetDir([dir EXCEPT !.tmp = prospective]) /\ Goto("rename")
                     \/ Fails

Rename == /\ pc = "rename"
          /\ \/ /\ SetDir([dir EXCEPT !.live = dir.tmp, !.tmp = Absent])
                /\ Goto("sync")
             \/ Fails

\* What each operation does with memory once the directory is synced.  An edit
\* whose deadline passed meanwhile finds the Vault locked and says so.
Keep == \/ /\ ask.op \in {"initialize", "unlock", "change", "restore"}
           /\ mem' = prospective
           /\ Return /\ Working /\ UNCHANGED <<minted, copy>>
        \/ /\ ask.op = "edit"
           /\ mem' \in {prospective, Locked}
           /\ Return /\ Working /\ UNCHANGED <<minted, copy>>
        \/ /\ ask.op = "backup"
           /\ Goto("publish")

\* Mutant: the answer does not wait for the directory sync.
SyncDirectoryEarly == /\ pc = "sync"
                      /\ \/ FsUnchanged /\ Keep
                         \/ Fails

SyncDirectory == /\ pc = "sync"
                 /\ \/ dir' = dir /\ disk' = {dir} /\ Keep
                    \/ Fails

\* atomic_write_new: the copy appears whole or not at all.
Publish == /\ pc = "publish"
           /\ FsUnchanged
           /\ \/ copy' = dir.live
              \/ UNCHANGED copy
           /\ Return /\ Working
           /\ UNCHANGED <<mem, minted>>
-----------------------------------------------------------------------------
\* lock, and the deadline that expire_if_needed finds passed.
Lock == /\ pc = "idle" /\ mem # Locked
        /\ mem' = Locked
        /\ FsUnchanged /\ Working
        /\ UNCHANGED <<ask, prospective, pc, minted, copy>>

Stop == /\ mem' = Locked
        /\ Return /\ Working
        /\ UNCHANGED <<minted, copy>>

Kill == /\ pc # "idle"
        /\ FsUnchanged
        /\ Stop

PowerLoss == /\ dir' \in disk
             /\ disk' = {dir'}
             /\ Stop

Calls == \/ \E p \in Passphrases : Initialize(p) \/ Unlock(p)
         \/ \E p, q \in Passphrases : ChangePassphrase(p, q)
         \/ \E d \in Data : Edit(d)
         \/ Backup
         \/ \E p \in Passphrases, d \in Data : Restore(p, d)

Next == \/ Calls
        \/ RecoverFirst \/ RecoverAgain \/ Read
        \/ CreateTemporary \/ WriteTemporary \/ Rename \/ SyncDirectory
        \/ Publish
        \/ Lock
        \/ Kill
        \/ PowerLoss

Spec == Init /\ [][Next]_vars
-----------------------------------------------------------------------------
Recovered(d) == IF d.live # Absent THEN d.live ELSE d.bak

Cell == INSTANCE VaultCell
        WITH Values <- Envelopes, None <- Absent,
             next <- IF pc \in Persisting \cup {"create"} THEN prospective ELSE Absent,
             status <- IF pc \in Persisting THEN "writing" ELSE "idle",
             recoverable <- {Recovered(d) : d \in disk}

\* Through crashes, power loss and failing calls an unlock reads the Vault last
\* acknowledged, whole and under the passphrase last acknowledged, or one whose
\* write was refused or never answered; an interrupted replacement never looks
\* like a Vault that was not initialized.
ImplementsVaultCell == Cell!Spec
=============================================================================
