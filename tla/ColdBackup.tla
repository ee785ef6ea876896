----------------------------- MODULE ColdBackup -----------------------------
(***************************************************************************)
(* The archive of a Managed Silo cold backup (vault/managed_backup.rs): how*)
(* it is written from a profile tree that something may still touch, how it*)
(* is published, and what inspection and restore accept of a file that was *)
(* damaged, cut short or replaced on the way.                              *)
(*                                                                         *)
(* The clear stream is one item per file between the metadata and the end  *)
(* mark, and one chunk carries one item.  A chunk authenticates its archive*)
(* (salt, nonce prefix and wrapped key), its counter and whether it is the *)
(* last; opening it with another password is the failure of the same check.*)
(* A file is a version and a modification stamp; it is copied in two       *)
(* halves.  The Vault guard lets one operation run at a time.              *)
(***************************************************************************)
EXTENDS Naturals, Sequences, FiniteSets, SequencesExt

CONSTANTS Files,       \* the files below the Silo's directory
          Excluded,    \* lock files and caches that excluded() leaves out
          None,        \* no file, no answer
          MaxEdits,    \* bound on edits by another process
          MaxDamage,   \* bound on the changes to a published archive
          MaxBackups   \* bound on the archives written

BackupAssumption ==
    /\ Excluded \subseteq Files /\ IsFiniteSet(Files)
    /\ {MaxEdits, MaxDamage, MaxBackups} \subseteq Nat

VARIABLES files,     \* [Files -> version, or None]
          stamp,     \* modification times
          pc,        \* the next step of the operation in progress
          counted,   \* the files the first pass counted
          todo,      \* files the walk still has to visit
          copy,      \* the file being copied: name, stamp at the visit, halves
          out,       \* the temporary archive
          target,    \* the file at the chosen path
          pos,       \* how many chunks of it were read
          heard,     \* the chunks read: what the digest is of
          got,       \* the items they opened to
          inspected, \* digest and summary the user confirmed
          restored,  \* what a restore accepted
          written,   \* ghost: per archive, the items its backup wrote
          backups, edits, damage

vars == <<files, stamp, pc, counted, todo, copy, out, target, pos, heard, got,
          inspected, restored, written, backups, edits, damage>>

treeVars == <<files, stamp>>
writeVars == <<counted, todo, copy, out>>
readVars == <<pos, heard, got>>

Item(kind, what) == [kind |-> kind, what |-> what]
Chunk(number, item, final) ==
    [archive |-> backups, counter |-> number, item |-> item, final |-> final]

Init == /\ files \in [Files -> {0, None}]
        /\ stamp = [f \in Files |-> 0]
        /\ pc = "idle"
        /\ counted = {} /\ todo = {} /\ copy = None
        /\ out = <<>> /\ target = None
        /\ pos = 0 /\ heard = <<>> /\ got = <<>>
        /\ inspected = None /\ restored = None
        /\ written = [k \in 1..MaxBackups |-> <<>>]
        /\ backups = 0 /\ edits = 0 /\ damage = 0

TypeOK == /\ \A f \in Files : files[f] \in Nat \cup {None}
          /\ stamp \in [Files -> Nat]
          /\ pc \in {"idle", "count", "walk", "first", "second", "check", "finish",
                     "publish", "inspect", "restore"}
          /\ counted \subseteq Files \ Excluded
          /\ todo \subseteq Files
          /\ pos = Len(heard)
          /\ Len(got) <= Len(heard)
          /\ {backups, edits, damage} \subseteq Nat
-----------------------------------------------------------------------------
(* backup_managed_silo *)

Present == {f \in Files : files[f] # None}

Backup == /\ pc = "idle" /\ target = None
          /\ backups < MaxBackups
          /\ backups' = backups + 1
          /\ pc' = "count"
          /\ UNCHANGED <<treeVars, writeVars, target, readVars, inspected,
                         restored, written, edits, damage>>

\* The first pass fixes the number of files in the authenticated metadata.
Count == /\ pc = "count"
         /\ counted' = Present \ Excluded
         /\ todo' = Files
         /\ out' = <<Chunk(0, Item("metadata", Cardinality(counted')), FALSE)>>
         /\ pc' = "walk"
         /\ UNCHANGED <<treeVars, copy, target, readVars, inspected, restored,
                        written, backups, edits, damage>>

\* profile_entries: a file that is gone or excluded is passed over.
Visit(f) == /\ pc = "walk" /\ f \in todo
            /\ todo' = todo \ {f}
            /\ IF files[f] = None \/ f \in Excluded
               THEN UNCHANGED <<copy, pc>>
               ELSE /\ copy' = [name |-> f, stamp |-> stamp[f],
                                first |-> None, second |-> None]
                    /\ pc' = "first"
            /\ UNCHANGED <<treeVars, counted, out, target, readVars, inspected,
                           restored, written, backups, edits, damage>>

Abandon == pc' = "idle" /\ out' = <<>> /\ copy' = None

CopyFirst == /\ pc = "first"
             /\ \/ /\ files[copy.name] # None
                   /\ copy' = [copy EXCEPT !.first = files[copy.name]]
                   /\ pc' = "second"
                   /\ UNCHANGED out
                \/ Abandon
             /\ UNCHANGED <<treeVars, counted, todo, target, readVars, inspected,
                            restored, written, backups, edits, damage>>

CopySecond == /\ pc = "second"
              /\ \/ /\ files[copy.name] # None
                    /\ copy' = [copy EXCEPT !.second = files[copy.name]]
                    /\ pc' = "check"
                    /\ UNCHANGED out
                 \/ Abandon
              /\ UNCHANGED <<treeVars, counted, todo, target, readVars, inspected,
                             restored, written, backups, edits, damage>>

\* Mutant: the modification time is not looked at again.
StillThere(f) == files[f] # None

Unchanged(f) == files[f] # None /\ stamp[f] = copy.stamp

\* The copy counts only if the file is as it was at the visit.
Check == /\ pc = "check"
         /\ IF Unchanged(copy.name)
            THEN /\ out' = Append(out, Chunk(Len(out), Item("file", copy), FALSE))
                 /\ copy' = None
                 /\ pc' = "walk"
            ELSE Abandon
         /\ UNCHANGED <<treeVars, counted, todo, target, readVars, inspected,
                        restored, written, backups, edits, damage>>

Copied == {out[k].item.what.name : k \in {j \in DOMAIN out : out[j].item.kind = "file"}}

\* The end mark, then the empty final chunk.
Finish == /\ pc = "walk" /\ todo = {}
          /\ LET end == Append(out, Chunk(Len(out), Item("end", None), FALSE))
             IN out' = Append(end, Chunk(Len(end), Item("final", None), TRUE))
          /\ pc' = "finish"
          /\ UNCHANGED <<treeVars, counted, todo, copy, target, readVars, inspected,
                         restored, written, backups, edits, damage>>

\* The stream must hold as many files as the metadata says.
Compare == /\ pc = "finish"
           /\ IF Cardinality(Copied) = Cardinality(counted)
              THEN /\ pc' = "publish"
                   /\ written' = [written EXCEPT ![backups] = [k \in DOMAIN out |-> out[k].item]]
                   /\ UNCHANGED <<out, copy>>
              ELSE Abandon /\ UNCHANGED written
           /\ UNCHANGED <<treeVars, counted, todo, target, readVars, inspected,
                          restored, backups, edits, damage>>

\* publish_new never replaces a file that appeared meanwhile.
Publish == /\ pc = "publish"
           /\ IF target = None THEN target' = out ELSE UNCHANGED target
           /\ pc' = "idle" /\ out' = <<>>
           /\ UNCHANGED <<treeVars, counted, todo, copy, readVars, inspected,
                          restored, written, backups, edits, damage>>

BackupNext == \/ Backup \/ Count \/ (\E f \in Files : Visit(f)) \/ CopyFirst
              \/ CopySecond \/ Check \/ Finish \/ Compare \/ Publish
-----------------------------------------------------------------------------
(* read_archive, for inspection and for restore *)

\* Mutant: the reader of the inspection is used again.
OpenAgain(why) == /\ pc' = why
                  /\ pos' = 0
                  /\ UNCHANGED <<treeVars, writeVars, target, heard, got, inspected,
                                 restored, written, backups, edits, damage>>

Open(why) == /\ pc' = why
             /\ pos' = 0 /\ heard' = <<>> /\ got' = <<>>
             /\ UNCHANGED <<treeVars, writeVars, target, inspected, restored,
                            written, backups, edits, damage>>

Inspect == /\ pc = "idle" /\ target # None /\ inspected = None
           /\ Open("inspect")

\* The restore is confirmed with the digest the inspection showed.
Restore == /\ pc = "idle" /\ target # None
           /\ inspected # None /\ restored = None
           /\ Open("restore")

\* Mutant: the counter is not authenticated.
OpensAnyOrder(chunk) ==
    /\ chunk.archive = (IF pos = 0 THEN chunk ELSE heard[1]).archive
    /\ chunk.final <=> (chunk.item.kind = "final")

\* DecryptedReader::next_chunk: the key comes from the header of the first
\* chunk read, the counter from the reader, the final flag from the length.
Opens(chunk) == /\ chunk.archive = (IF pos = 0 THEN chunk ELSE heard[1]).archive
                /\ chunk.counter = pos
                /\ chunk.final <=> (chunk.item.kind = "final")

\* read_profile: no file twice, none that is excluded.
Acceptable(item) ==
    item.kind = "file" => /\ item.what.name \notin Excluded
                          /\ \A k \in DOMAIN got : got[k].kind = "file" =>
                                got[k].what.name # item.what.name

Finished == Len(got) > 0 /\ Last(got).kind = "final"

ReadChunk == /\ pc \in {"inspect", "restore"}
             /\ ~Finished
             /\ target # None
             /\ IF /\ pos < Len(target)
                   /\ Opens(target[pos + 1])
                   /\ Acceptable(target[pos + 1].item)
                THEN /\ pos' = pos + 1
                     /\ heard' = Append(heard, target[pos + 1])
                     /\ got' = Append(got, target[pos + 1].item)
                     /\ pc' = pc
                ELSE /\ pc' = "idle"
                     /\ UNCHANGED readVars
             /\ UNCHANGED <<treeVars, writeVars, target, inspected, restored,
                            written, backups, edits, damage>>

Counted(items) == items[1].what = Cardinality({k \in DOMAIN items : items[k].kind = "file"})

Whole == /\ pos = Len(target)     \* no trailing bytes
         /\ Counted(got)

\* Mutant: the confirmed digest is not compared.
AcceptUnconfirmed ==
    /\ pc \in {"inspect", "restore"} /\ Finished /\ target # None
    /\ pc' = "idle"
    /\ IF Whole THEN IF pc = "inspect"
                     THEN inspected' = heard /\ UNCHANGED restored
                     ELSE restored' = got /\ UNCHANGED inspected
                ELSE UNCHANGED <<inspected, restored>>
    /\ UNCHANGED <<treeVars, writeVars, target, readVars, written, backups,
                   edits, damage>>

Accept == /\ pc \in {"inspect", "restore"} /\ Finished /\ target # None
          /\ pc' = "idle"
          /\ \/ Whole /\ pc = "inspect" /\ inspected' = heard /\ UNCHANGED restored
             \/ /\ Whole /\ pc = "restore" /\ heard = inspected
                /\ restored' = got /\ UNCHANGED inspected
             \/ /\ ~Whole \/ (pc = "restore" /\ heard # inspected)
                /\ UNCHANGED <<inspected, restored>>
          /\ UNCHANGED <<treeVars, writeVars, target, readVars, written, backups,
                         edits, damage>>
-----------------------------------------------------------------------------
\* Another process writes, creates or removes a file of the tree.
Edit(f) == /\ edits < MaxEdits
           /\ edits' = edits + 1
           /\ files' \in {[files EXCEPT ![f] = v] : v \in {edits + 1, None}}
           /\ stamp' = [stamp EXCEPT ![f] = edits + 1]
           /\ UNCHANGED <<pc, writeVars, target, readVars, inspected, restored,
                          written, backups, damage>>

SwapElement(file, j, k) == [file EXCEPT ![j] = file[k], ![k] = file[j]]

\* What can befall a file: cut short, chunks lost, doubled or swapped, a chunk
\* of another archive, or the whole file moved away.
Damaged(file) ==
    {SubSeq(file, 1, k) : k \in 0..(Len(file) - 1)}
    \cup {RemoveAt(file, k) : k \in DOMAIN file}
    \cup {InsertAt(file, k, file[k]) : k \in DOMAIN file}
    \cup {SwapElement(file, j, k) : j \in DOMAIN file, k \in DOMAIN file}
    \cup {[file EXCEPT ![k].archive = a] : k \in DOMAIN file, a \in 1..backups}
    \cup {None}

Damage == /\ damage < MaxDamage /\ target # None
          /\ pc \in {"idle", "inspect", "restore"}
          /\ damage' = damage + 1
          /\ target' \in Damaged(target) \ {target}
          /\ UNCHANGED <<treeVars, pc, writeVars, readVars, inspected, restored,
                         written, backups, edits>>

Next == \/ BackupNext
        \/ Inspect \/ Restore \/ ReadChunk \/ Accept
        \/ \E f \in Files : Edit(f)
        \/ Damage

Spec == Init /\ [][Next]_vars
-----------------------------------------------------------------------------
\* A restore installs exactly the items one backup wrote: a lost, doubled,
\* moved or foreign chunk and a cut file are refused, at inspection or at
\* restore, even when the damage comes between the two or during the reading.
RestoredWasWritten == restored # None => \E k \in 1..MaxBackups : restored = written[k]

\* What a restore installs is what the user saw and confirmed.
RestoredWasConfirmed ==
    restored # None => restored = [k \in DOMAIN inspected |-> inspected[k].item]

\* Every file of a published archive was copied as it was at one moment.
FilesAreWhole ==
    target # None => \A k \in DOMAIN target :
        target[k].item.kind = "file" =>
            target[k].item.what.first = target[k].item.what.second
=============================================================================
