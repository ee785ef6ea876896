--------------------------- MODULE DesktopProofs ---------------------------
(***************************************************************************)
(* What the desktop keeps to, for every value of the constants.            *)
(*                                                                         *)
(* Locks (LockOrder): programs that take their locks in one order cannot   *)
(* wait for each other without end, on any number of threads.  What a      *)
(* thread holds is known from where it is in its program (HeldIsKnown).    *)
(* Of the locks that a circle of threads waits for, take one of the        *)
(* highest rank: who holds it waits for another, of a higher rank if its   *)
(* program keeps to the order.                                             *)
(*                                                                         *)
(* The Vault (VaultSilos): memory, disk and backup each hold references    *)
(* that are used and artifacts that are bound, and what was written        *)
(* follows what is in memory: where it is locked, it is the same identity. *)
(*                                                                         *)
(* Slots (LocalSlots): proved in LocalSlotsProofs for any slots, and here  *)
(* of the two sets of slots that MCDesktop runs.                           *)
(***************************************************************************)
EXTENDS MCDesktop, FiniteSetTheorems, TLAPS

-----------------------------------------------------------------------------
(* The order of the locks *)

AllLocks == Locks \cup {Reservation}

(* A lock that a thread holds is one that its program may hold by now. *)
HeldIsKnown ==
  \A t \in Threads : \A l \in AllLocks :
    Holds(t, l) => Busy(t) /\ MayHold(Program[command[t]], pc[t], l)

IInv == TypeOK /\ HeldIsKnown

-----------------------------------------------------------------------------
(* A step that does not give l back leaves it held. *)
LEMMA HeldToNext ==
  ASSUME NEW p, NEW l, NEW i \in Nat, Len(p) \in Nat,
         MayHold(p, i, l), ~Releases(p, i, l)
  PROVE  MayHold(p, i + 1, l)
<1>1. PICK j \in 1..Len(p) : /\ j < i
                             /\ Acquires(p, j, l)
                             /\ \A k \in 1..Len(p) : j < k /\ k < i => ~Releases(p, k, l)
  BY DEF MayHold
<1>2. \A k \in 1..Len(p) : j < k /\ k < i + 1 => ~Releases(p, k, l)
  <2> SUFFICES ASSUME NEW k \in 1..Len(p), j < k, k < i + 1
               PROVE  ~Releases(p, k, l)
    OBVIOUS
  <2>1. CASE k = i
    BY <2>1
  <2>2. CASE k < i
    BY <1>1, <2>2
  <2> QED
    BY <2>1, <2>2
<1>3. j < i + 1
  BY <1>1
<1> QED
  BY <1>1, <1>2, <1>3 DEF MayHold

(* A step that takes l has it. *)
LEMMA TakenIsHeld ==
  ASSUME NEW p, NEW l, NEW i \in 1..Len(p), Len(p) \in Nat, Acquires(p, i, l)
  PROVE  MayHold(p, i + 1, l)
<1>1. \A k \in 1..Len(p) : ~(i < k /\ k < i + 1)
  OBVIOUS
<1>2. i < i + 1
  OBVIOUS
<1> QED
  BY <1>1, <1>2 DEF MayHold

(* What is assumed of a program, at the step of a busy thread. *)
LEMMA StepFacts ==
  ASSUME OrderAssumption, TypeOK, NEW t \in Threads, AtStep(t)
  PROVE  /\ command[t] \in Commands
         /\ pc[t] \in 1..Len(Program[command[t]])
         /\ Len(Program[command[t]]) \in Nat
         /\ StepAt(t) \in StepsOf
         /\ StepAt(t).kind \in {"take", "try"} => StepAt(t).lock \in AllLocks
         /\ StepAt(t).kind = "give" => StepAt(t).lock \in Locks
         /\ SkipsWhole(Program[command[t]])
<1>1. command[t] \in Commands /\ pc[t] \in Nat \ {0}
  BY DEF TypeOK, AtStep, Busy, OrderAssumption
<1>2. Program[command[t]] \in Seq(StepsOf)
  BY <1>1 DEF OrderAssumption
<1>3. pc[t] \in 1..Len(Program[command[t]])
  BY <1>1, <1>2 DEF AtStep
<1>4. StepAt(t) \in StepsOf
  BY <1>2, <1>3 DEF StepAt
<1>5. /\ StepAt(t).kind \in {"take", "try"} => StepAt(t).lock # Nobody
      /\ StepAt(t).kind = "give" => StepAt(t).lock \in Locks
  BY <1>1, <1>3 DEF OrderAssumption, StepAt
<1>6. StepAt(t).lock \in Locks \cup {Reservation, Nobody}
  BY <1>4 DEF StepsOf
<1>7. SkipsWhole(Program[command[t]])
  BY <1>1 DEF OrderAssumption
<1> QED
  BY <1>1, <1>2, <1>3, <1>4, <1>5, <1>6, <1>7 DEF AllLocks

-----------------------------------------------------------------------------
\* No thread holds anything at first.
LEMMA InitHolds == ASSUME OrderAssumption, Init PROVE IInv
<1>1. TypeOK
  BY DEF Init, TypeOK
<1>2. HeldIsKnown
  BY DEF Init, HeldIsKnown, Holds, AllLocks, OrderAssumption
<1> QED
  BY <1>1, <1>2 DEF IInv

\* Locks stay with threads, and threads in their programs.
LEMMA TypeStep == ASSUME OrderAssumption, TypeOK, [Next]_vars PROVE TypeOK'
<1> USE DEF TypeOK
<1>1. CASE UNCHANGED vars
  BY <1>1 DEF vars
<1>2. ASSUME NEW t \in Threads, Begin(t) PROVE TypeOK'
  BY <1>2 DEF Begin
<1>3. ASSUME NEW t \in Threads, Take(t) PROVE TypeOK'
  <2>1. AtStep(t) /\ StepAt(t).kind \in {"take", "try"}
    BY <1>3 DEF Take
  <2>2. StepAt(t) \in StepsOf /\ StepAt(t).lock \in AllLocks
    BY <2>1, StepFacts
  <2>3. StepAt(t).silo \in Silos \cup {Everything, Nobody}
    BY <2>2 DEF StepsOf
  <2> QED
    BY <1>3, <2>2, <2>3 DEF Take, Goto, AllLocks
<1>4. ASSUME NEW t \in Threads, Give(t) PROVE TypeOK'
  <2>1. pc[t] + 1 \in Nat \ {0}
    OBVIOUS
  <2> QED
    BY <1>4, <2>1 DEF Give, Goto
<1>5. ASSUME NEW t \in Threads, TryFails(t) PROVE TypeOK'
  <2>1. StepAt(t).skip \in Nat
    BY <1>5, StepFacts DEF TryFails, StepsOf
  <2>2. pc[t] + StepAt(t).skip + 1 \in Nat \ {0}
    BY <2>1
  <2> QED
    BY <1>5, <2>2 DEF TryFails, Goto
<1>6. ASSUME NEW t \in Threads, Choose(t) PROVE TypeOK'
  <2>1. StepAt(t).skip \in Nat
    BY <1>6, StepFacts DEF Choose, StepsOf
  <2>2. PICK i \in {1, StepAt(t).skip + 1} : Goto(t, pc[t] + i)
    BY <1>6 DEF Choose
  <2>3. pc[t] + i \in Nat \ {0}
    BY <2>1
  <2> QED
    BY <1>6, <2>2, <2>3 DEF Choose, Goto
<1>7. ASSUME NEW t \in Threads, Return(t) PROVE TypeOK'
  BY <1>7 DEF Return
<1> QED
  BY <1>1, <1>2, <1>3, <1>4, <1>5, <1>6, <1>7 DEF Next

(* A step of t that takes no lock away from others, and after which t      *)
(* still knows what it holds.                                              *)
LEMMA HeldStep ==
  ASSUME HeldIsKnown, NEW t \in Threads,
         \A u \in Threads \ {t} : command'[u] = command[u] /\ pc'[u] = pc[u],
         \A u \in Threads \ {t}, l \in AllLocks : Holds(u, l)' => Holds(u, l),
         \A l \in AllLocks : Holds(t, l)' =>
           Busy(t)' /\ MayHold(Program[command'[t]], pc'[t], l)
  PROVE  HeldIsKnown'
<1> SUFFICES ASSUME NEW u \in Threads, NEW l \in AllLocks', Holds(u, l)'
             PROVE  Busy(u)' /\ MayHold(Program[command[u]], pc[u], l)'
  BY DEF HeldIsKnown
<1>1. l \in AllLocks
  BY DEF AllLocks
<1>2. CASE u = t
  BY <1>1, <1>2 DEF MayHold, Acquires, Releases
<1>3. CASE u # t
  <2>1. Busy(u) /\ MayHold(Program[command[u]], pc[u], l)
    BY <1>1, <1>3 DEF HeldIsKnown
  <2> QED
    BY <1>3, <2>1 DEF Busy, MayHold, Acquires, Releases
<1> QED
  BY <1>2, <1>3

\* What a thread holds stays what its program may hold.
LEMMA HeldNext == ASSUME OrderAssumption, IInv, [Next]_vars PROVE HeldIsKnown'
<1> USE DEF IInv
<1>1. CASE UNCHANGED vars
  BY <1>1 DEF vars, HeldIsKnown, Holds, Busy, MayHold, Acquires, Releases, AllLocks
<1>2. ASSUME NEW t \in Threads, Begin(t) PROVE HeldIsKnown'
  <2>1. \A u \in Threads \ {t} : command'[u] = command[u] /\ pc'[u] = pc[u]
    BY <1>2 DEF Begin, TypeOK
  <2>2. \A u \in Threads, l \in AllLocks : Holds(u, l)' => Holds(u, l)
    BY <1>2 DEF Begin, Holds
  <2>3. \A l \in AllLocks : ~Holds(t, l)
    BY <1>2 DEF Begin, HeldIsKnown
  <2> QED
    BY <2>1, <2>2, <2>3, HeldStep
<1>3. ASSUME NEW t \in Threads, AtStep(t), Take(t) PROVE HeldIsKnown'
  <2> DEFINE p == Program[command[t]]
             o == StepAt(t)
  <2>1. /\ o.kind \in {"take", "try"}
        /\ o.lock \in AllLocks
        /\ pc[t] \in 1..Len(p)
        /\ Len(p) \in Nat
    BY <1>3, StepFacts DEF Take
  <2>2. command' = command /\ pc' = [pc EXCEPT ![t] = pc[t] + 1]
    BY <1>3 DEF Take, Goto
  <2>3. \A u \in Threads \ {t} : command'[u] = command[u] /\ pc'[u] = pc[u]
    BY <2>2 DEF TypeOK
  <2>4. \A u \in Threads, l \in AllLocks : Holds(u, l)' =>
          Holds(u, l) \/ (u = t /\ l = o.lock)
    <3>1. CASE o.lock = Reservation
      <4>1. reserved' = [reserved EXCEPT ![t] = o.silo] /\ owner' = owner
        BY <1>3, <3>1 DEF Take
      <4> QED
        BY <3>1, <4>1 DEF Holds, TypeOK
    <3>2. CASE o.lock # Reservation
      <4>1. owner' = [owner EXCEPT ![o.lock] = t] /\ reserved' = reserved
        BY <1>3, <3>2 DEF Take
      <4> QED
        BY <3>2, <4>1 DEF Holds, TypeOK, AllLocks
    <3> QED
      BY <3>1, <3>2
  <2>5. ASSUME NEW l \in AllLocks, Holds(t, l)'
        PROVE  Busy(t)' /\ MayHold(Program[command'[t]], pc'[t], l)
    <3>1. Busy(t)' /\ pc'[t] = pc[t] + 1
      BY <1>3, <2>2 DEF Busy, AtStep, TypeOK
    <3>2. CASE l = o.lock
      <4>1. Acquires(p, pc[t], l)
        BY <2>1, <3>2 DEF Acquires, StepAt
      <4> QED
        BY <2>1, <2>2, <3>1, <4>1, TakenIsHeld
    <3>3. CASE l # o.lock
      <4>1. MayHold(p, pc[t], l)
        BY <2>4, <2>5, <3>3 DEF HeldIsKnown
      <4>2. ~Releases(p, pc[t], l)
        BY <2>1 DEF Releases, StepAt
      <4> QED
        BY <2>1, <2>2, <3>1, <4>1, <4>2, HeldToNext
    <3> QED
      BY <3>2, <3>3
  <2> QED
    BY <2>3, <2>4, <2>5, HeldStep
<1>4. ASSUME NEW t \in Threads, AtStep(t), Give(t) PROVE HeldIsKnown'
  <2> DEFINE p == Program[command[t]]
             o == StepAt(t)
  <2>1. o.kind = "give" /\ o.lock \in Locks /\ pc[t] \in 1..Len(p) /\ Len(p) \in Nat
    BY <1>4, StepFacts DEF Give
  <2>2. /\ command' = command
        /\ pc' = [pc EXCEPT ![t] = pc[t] + 1]
        /\ owner' = [owner EXCEPT ![o.lock] = Nobody]
        /\ reserved' = reserved
    BY <1>4 DEF Give, Goto
  <2>3. \A u \in Threads \ {t} : command'[u] = command[u] /\ pc'[u] = pc[u]
    BY <2>2 DEF TypeOK
  <2>4. \A u \in Threads, l \in AllLocks : Holds(u, l)' => Holds(u, l) /\ l # o.lock
    BY <2>1, <2>2 DEF Holds, TypeOK, AllLocks, OrderAssumption
  <2>5. ASSUME NEW l \in AllLocks, Holds(t, l)'
        PROVE  Busy(t)' /\ MayHold(Program[command'[t]], pc'[t], l)
    <3>1. Busy(t)' /\ pc'[t] = pc[t] + 1
      BY <1>4, <2>2 DEF Busy, AtStep, TypeOK
    <3>2. MayHold(p, pc[t], l) /\ l # o.lock
      BY <2>4, <2>5 DEF HeldIsKnown
    <3>3. ~Releases(p, pc[t], l)
      BY <3>2 DEF Releases, StepAt
    <3> QED
      BY <2>1, <2>2, <3>1, <3>2, <3>3, HeldToNext
  <2> QED
    BY <2>3, <2>4, <2>5, HeldStep
<1>5. ASSUME NEW t \in Threads, AtStep(t), TryFails(t) \/ Choose(t) PROVE HeldIsKnown'
  <2> DEFINE p == Program[command[t]]
             o == StepAt(t)
  <2>1. /\ o.kind \in {"try", "maybe"}
        /\ pc[t] \in 1..Len(p)
        /\ Len(p) \in Nat
        /\ SkipsWhole(p)
        /\ o.skip \in Nat
    BY <1>5, StepFacts DEF TryFails, Choose, StepsOf
  <2>2. /\ command' = command
        /\ owner' = owner
        /\ reserved' = reserved
        /\ \/ pc' = [pc EXCEPT ![t] = pc[t] + 1]
           \/ pc' = [pc EXCEPT ![t] = pc[t] + o.skip + 1]
    <3>1. CASE TryFails(t)
      BY <3>1 DEF TryFails, Goto
    <3>2. CASE Choose(t)
      <4>1. PICK i \in {1, o.skip + 1} : Goto(t, pc[t] + i)
        BY <3>2 DEF Choose
      <4>2. pc[t] + (o.skip + 1) = pc[t] + o.skip + 1
        BY <2>1
      <4> QED
        BY <3>2, <4>1, <4>2 DEF Choose, Goto
    <3> QED
      BY <1>5, <3>1, <3>2
  <2>3. \A u \in Threads \ {t} : command'[u] = command[u] /\ pc'[u] = pc[u]
    BY <2>2 DEF TypeOK
  <2>4. \A u \in Threads, l \in AllLocks : Holds(u, l)' => Holds(u, l)
    BY <2>2 DEF Holds
  <2>5. ASSUME NEW l \in AllLocks, Holds(t, l)'
        PROVE  Busy(t)' /\ MayHold(Program[command'[t]], pc'[t], l)
    <3>1. Busy(t)' /\ (pc'[t] = pc[t] + 1 \/ pc'[t] = pc[t] + o.skip + 1)
      BY <1>5, <2>2 DEF Busy, AtStep, TypeOK
    <3>2. MayHold(p, pc[t], l)
      BY <2>4, <2>5 DEF HeldIsKnown
    <3>3. MayHold(p, pc[t] + 1, l)
      <4>1. ~Releases(p, pc[t], l)
        BY <2>1 DEF Releases, StepAt
      <4> QED
        BY <2>1, <3>2, <4>1, HeldToNext
    <3>4. MayHold(p, pc[t] + o.skip + 1, l)
      BY <2>1, <3>2 DEF SkipsWhole, StepAt, AllLocks
    <3> QED
      BY <2>2, <3>1, <3>3, <3>4
  <2> QED
    BY <2>3, <2>4, <2>5, HeldStep
<1>6. ASSUME NEW t \in Threads, Return(t) PROVE HeldIsKnown'
  <2>1. \A u \in Threads \ {t} : command'[u] = command[u] /\ pc'[u] = pc[u]
    BY <1>6 DEF Return, TypeOK
  <2>2. \A u \in Threads, l \in AllLocks : Holds(u, l)' => Holds(u, l)
    BY <1>6 DEF Return, Holds, TypeOK, AllLocks, OrderAssumption
  <2>3. \A l \in AllLocks : ~Holds(t, l)'
    BY <1>6 DEF Return, Holds, TypeOK, AllLocks, OrderAssumption
  <2> QED
    BY <2>1, <2>2, <2>3, HeldStep
<1> QED
  BY <1>1, <1>2, <1>3, <1>4, <1>5, <1>6 DEF Next, Take, Give, TryFails, Choose

-----------------------------------------------------------------------------
(* The threads of a circle of ordered programs would have to wait for      *)
(* locks of ever higher ranks.                                             *)
LEMMA OrderedMakeNoCircle ==
  ASSUME OrderAssumption, IInv, NEW S \in SUBSET Threads, Circular(S),
         \A t \in S : command[t] \notin Unordered
  PROVE  FALSE
<1> DEFINE Awaited(t) == StepAt(t).lock
           L == {Awaited(t) : t \in S}
<1>1. \A t \in S : AtStep(t) /\ StepAt(t).kind = "take" /\ Awaited(t) \in AllLocks
  BY StepFacts DEF Circular, Waits, IInv
<1>2. L # {} /\ L \in SUBSET (Locks \cup {Reservation})
  BY <1>1 DEF Circular, AllLocks
<1>3. PICK l \in L : \A m \in L : Rank[m] <= Rank[l]
  BY <1>2 DEF OrderAssumption
<1>4. PICK t \in S : l = Awaited(t)
  OBVIOUS
<1>5. PICK u \in S : Waits(t, u)
  BY DEF Circular
<1>6. Holds(u, l)
  BY <1>4, <1>5 DEF Waits, Holders, Holds
<1>7. MayHold(Program[command[u]], pc[u], l)
  BY <1>1, <1>4, <1>6 DEF IInv, HeldIsKnown
<1>8. InOrder(Program[command[u]]) /\ pc[u] \in 1..Len(Program[command[u]])
  <2>1. command[u] \in Commands /\ pc[u] \in 1..Len(Program[command[u]])
    BY <1>1, StepFacts DEF IInv
  <2> QED
    BY <2>1 DEF OrderAssumption
<1>9. Rank[l] < Rank[Awaited(u)]
  BY <1>1, <1>4, <1>7, <1>8 DEF InOrder, StepAt, AllLocks
<1>10. Rank[Awaited(u)] <= Rank[l]
  BY <1>3
<1>11. Rank[l] \in Nat /\ Rank[Awaited(u)] \in Nat
  BY <1>1, <1>4 DEF OrderAssumption, AllLocks
<1> QED
  BY <1>9, <1>10, <1>11

(* On any number of threads that run any of the commands, next to each     *)
(* other, those that wait for each other without end include one that runs *)
(* a command known not to take its locks in order.                         *)
THEOREM DeadlockNeedsUnordered ==
  ASSUME OrderAssumption
  PROVE  Spec => []OnlyUnorderedDeadlock
<1>1. Init => IInv
  BY InitHolds
<1>2. IInv /\ [Next]_vars => IInv'
  BY TypeStep, HeldNext DEF IInv
<1>3. IInv => OnlyUnorderedDeadlock
  BY OrderedMakeNoCircle DEF OnlyUnorderedDeadlock
<1> QED
  BY <1>1, <1>2, <1>3, PTL DEF Spec

-----------------------------------------------------------------------------
(* The Silos of a Vault *)

\* What validate_vault_data asks for, the number of artifacts aside, and no secret too many.
Sound(v) == /\ v \in Kept!Vaults
            /\ Kept!Bound(v) \subseteq v.artifacts
            /\ v.secrets = Kept!References(v)
            /\ v.runs \cup v.evidence \subseteq Kept!Present(v)

\* A Silo is known from its creation on.
Known == /\ Kept!Present(data) \cup Kept!Present(disk) \subseteq born
         /\ \A s \in Kept!AllSilos : home[s] # "none" \/ quarantine[s] # "none" => s \in born

Backed == backup # None => /\ Sound(backup)
                           /\ Kept!Present(backup) \subseteq born
                           /\ Kept!LocksKept(backup, data) /\ Kept!LocksKept(backup, disk)

\* There is an end to the artifacts.
AllArtifacts == data.artifacts \cup disk.artifacts
                  \cup (IF backup = None THEN {} ELSE backup.artifacts)
Counted == IsFiniteSet(AllArtifacts)

\* An identity that is locked in what was written is the one in use.
Follows(v, w) ==
  /\ Kept!LocksKept(v, w)
  /\ \A s \in Kept!Present(v) \cap Kept!Present(w) :
       w.silos[s].locked => w.silos[s].seed = v.silos[s].seed
  /\ backup = None =>
       /\ Kept!IdentityKept(v, w)
       /\ \A s \in Kept!Present(v) \cap Kept!Present(w) :
            w.silos[s].locked => w.silos[s].identity = v.silos[s].identity

Rebinding(v) ==
  job.silo \in Kept!Present(v) /\ v.silos[job.silo].locked =>
    /\ v.silos[job.silo].seed = job.plan.seed
    /\ backup = None => v.silos[job.silo].identity = job.plan.identity

Jobs == /\ job = Kept!NoJob \/ job.op \in {"create", "replace", "rebind", "launch", "delete"}
        /\ job.op = "create" => job.silo \notin born
        /\ job.op \in {"replace", "rebind"} => job.silo \in Managed
        /\ job.op = "rebind" => Rebinding(data) /\ Rebinding(disk)
        /\ job.op = "launch" => job.silo \in Kept!Present(data) /\ data.silos[job.silo].locked
        /\ job.op = "delete" => job.silo \in Kept!Present(data) /\ home[job.silo] = "none"

\* As long as no save was in doubt, a profile that was used is of a locked identity.
UsedIsLocked ==
  doubts = 0 =>
    \A s \in Kept!AllSilos :
      /\ home[s] = "used" => s \in Kept!Present(data) /\ data.silos[s].locked
      /\ quarantine[s] = "used" /\ home[s] = "none" /\ s \in Kept!Present(data)
           => data.silos[s].locked
Certain == (doubts = 0 => data = disk) /\ UsedIsLocked

SilosInv == /\ Kept!TypeOK /\ Sound(data) /\ Sound(disk) /\ Known /\ Backed /\ Counted
            /\ Follows(data, disk) /\ Jobs /\ Certain


\* What is derived from the records depends on nothing else.
LEMMA OfSilos ==
  ASSUME NEW v, NEW w, v.silos = w.silos
  PROVE Kept!Present(v) = Kept!Present(w) /\ Kept!Bound(v) = Kept!Bound(w) /\ Kept!References(v) = Kept!References(w)
BY DEF Kept!Present, Kept!Bound, Kept!References

\* What a Vault is of.
LEMMA InVault ==
  ASSUME NEW v \in Kept!Vaults
  PROVE /\ v.silos \in [Kept!AllSilos -> Kept!SiloRecords \cup {None}]
        /\ v.artifacts \subseteq Kept!Artifacts /\ v.secrets \subseteq 1..MaxFresh
        /\ v.runs \subseteq Kept!AllSilos /\ v.evidence \subseteq Kept!AllSilos
        /\ Kept!Present(v) \subseteq Kept!AllSilos /\ \A s \in Kept!Present(v) : v.silos[s] \in Kept!SiloRecords
BY DEF Kept!Vaults, Kept!Present

\* The parts of a record.
LEMMA InRecord ==
  ASSUME NEW r \in Kept!SiloRecords, Kept!SilosAssumption
  PROVE /\ r.identity \in Identities /\ r.seed \in 1..MaxFresh /\ r.network \in Kept!Networks
        /\ r.secret \in 0..MaxFresh /\ r.raw \in {0, 1} /\ r.locked \in BOOLEAN
        /\ r = [identity |-> r.identity, seed |-> r.seed, network |-> r.network,
                secret |-> r.secret, raw |-> r.raw, locked |-> r.locked]
        /\ r # None
        /\ Kept!ArtifactOf(r) \in Kept!Artifacts
BY DEF Kept!SiloRecords, Kept!SilosAssumption, Kept!ArtifactOf, Kept!Artifacts

\* A record but for the one of its artifacts that was first.
Likens(r, q) == /\ q \in Kept!SiloRecords
                /\ q.identity = r.identity /\ q.seed = r.seed /\ q.network = r.network
                /\ q.secret = r.secret /\ q.locked = r.locked

\* The artifact that was first stands in, and nothing else changes.
LEMMA FirstWriterLikens ==
  ASSUME Kept!SilosAssumption, NEW v \in Kept!Vaults, NEW r \in Kept!SiloRecords
  PROVE Likens(r, Kept!FirstWriter(v, r))
<1> DEFINE like(x) == Kept!SameId(x, Kept!ArtifactOf(r))
<1>1. CASE \E x \in v.artifacts : like(x)
  <2> DEFINE y == CHOOSE x \in v.artifacts : like(x)
  <2>1. y \in v.artifacts
    BY <1>1
  <2>2. y.raw \in {0, 1}
    BY <2>1, InVault DEF Kept!Artifacts
  <2>3. Kept!FirstWriter(v, r) = [r EXCEPT !.raw = y.raw]
    BY <1>1 DEF Kept!FirstWriter
  <2> HIDE DEF y
  <2> QED BY <2>2, <2>3 DEF Likens, Kept!SiloRecords
<1>2. CASE ~\E x \in v.artifacts : like(x)
  BY <1>2 DEF Kept!FirstWriter, Likens
<1> QED BY <1>1, <1>2

\* w is v with the record q for s.
Carries(v, s, q, w) ==
  /\ w \in Kept!Vaults
  /\ w.silos = [v.silos EXCEPT ![s] = q]
  /\ w.artifacts \subseteq v.artifacts \cup {Kept!ArtifactOf(q)}
  /\ s \notin Managed => w.artifacts = v.artifacts
  /\ w.runs = v.runs /\ w.evidence = v.evidence
  /\ Kept!Present(w) = Kept!Present(v) \cup {s}
  /\ Kept!Bound(w) \subseteq w.artifacts
  /\ Kept!References(w) \subseteq w.secrets

\* WithSilo puts a record in, with its artifact and its secret.
LEMMA WithSiloIs ==
  ASSUME Kept!SilosAssumption, NEW v, Sound(v), NEW s \in Kept!AllSilos, NEW r \in Kept!SiloRecords
  PROVE \E q : /\ Likens(r, q) /\ Carries(v, s, q, Kept!WithSilo(v, s, r))
               /\ s \notin Kept!Present(v) => Sound(Kept!WithSilo(v, s, r))
<1> DEFINE q == IF s \in Managed THEN Kept!FirstWriter(v, r) ELSE r
           w == Kept!WithSilo(v, s, r)
           arts == IF s \in Managed THEN v.artifacts \cup {Kept!ArtifactOf(q)} ELSE v.artifacts
           secs == v.secrets \cup ({r.secret} \ {0})
<1>1. v \in Kept!Vaults /\ Kept!Bound(v) \subseteq v.artifacts /\ v.secrets = Kept!References(v)
      /\ v.runs \cup v.evidence \subseteq Kept!Present(v)
  BY DEF Sound
<1>2. Likens(r, q)
  <2>1. Likens(r, r)
    BY DEF Likens
  <2> QED BY <1>1, <2>1, FirstWriterLikens
<1>3. w = [v EXCEPT !.silos = [v.silos EXCEPT ![s] = q], !.artifacts = arts, !.secrets = secs]
  BY <1>1 DEF Kept!WithSilo, Kept!Vaults
<1> HIDE DEF q, w
<1>4. /\ q \in Kept!SiloRecords /\ q # None /\ Kept!ArtifactOf(q) \in Kept!Artifacts /\ q.secret = r.secret
      /\ r.secret \in 0..MaxFresh
  BY <1>2, InRecord DEF Likens
<1>5. /\ v.silos \in [Kept!AllSilos -> Kept!SiloRecords \cup {None}]
      /\ arts \subseteq Kept!Artifacts /\ secs \subseteq 1..MaxFresh
  BY <1>1, <1>4, InVault DEF Kept!SilosAssumption
<1> HIDE DEF arts, secs
<1>6. /\ w.silos = [v.silos EXCEPT ![s] = q] /\ w.artifacts = arts /\ w.secrets = secs
      /\ w.runs = v.runs /\ w.evidence = v.evidence /\ w \in Kept!Vaults
  BY <1>1, <1>3, <1>4, <1>5 DEF Kept!Vaults
<1>7. /\ w.silos[s] = q /\ \A t \in Kept!AllSilos \ {s} : w.silos[t] = v.silos[t]
  BY <1>5, <1>6
<1>8. Kept!Present(w) = Kept!Present(v) \cup {s}
  BY <1>4, <1>7 DEF Kept!Present
<1>9. Kept!Bound(w) \subseteq w.artifacts
  <2> SUFFICES ASSUME NEW t \in Kept!Present(w) \cap Managed
               PROVE Kept!ArtifactOf(w.silos[t]) \in w.artifacts
    BY DEF Kept!Bound
  <2>1. CASE t = s
    BY <1>6, <1>7, <2>1 DEF arts
  <2>2. CASE t # s
    <3>1. t \in Kept!Present(v) \cap Managed /\ w.silos[t] = v.silos[t]
      BY <1>7, <1>8, <2>2 DEF Kept!Present
    <3>2. Kept!ArtifactOf(v.silos[t]) \in v.artifacts
      BY <1>1, <3>1 DEF Kept!Bound
    <3> QED BY <1>6, <3>1, <3>2 DEF arts
  <2> QED BY <2>1, <2>2
<1>10. Kept!References(w) \subseteq w.secrets
  <2> SUFFICES ASSUME NEW t \in Kept!Present(w), w.silos[t].secret # 0
               PROVE w.silos[t].secret \in w.secrets
    BY DEF Kept!References
  <2>1. CASE t = s
    BY <1>4, <1>6, <1>7, <2>1 DEF secs
  <2>2. CASE t # s
    <3>1. t \in Kept!Present(v) /\ w.silos[t] = v.silos[t]
      BY <1>7, <1>8, <2>2 DEF Kept!Present
    <3>2. v.silos[t].secret \in Kept!References(v)
      BY <3>1 DEF Kept!References
    <3> QED BY <1>1, <1>6, <3>1, <3>2 DEF secs
  <2> QED BY <2>1, <2>2
<1>11. ASSUME s \notin Kept!Present(v) PROVE Kept!References(w) = w.secrets
  <2> SUFFICES ASSUME NEW x \in w.secrets PROVE x \in Kept!References(w)
    BY <1>10
  <2>1. CASE x \in Kept!References(v)
    <3>1. PICK t \in Kept!Present(v) : x = v.silos[t].secret /\ x # 0
      BY <2>1 DEF Kept!References
    <3>2. t # s /\ t \in Kept!Present(w) /\ w.silos[t] = v.silos[t]
      BY <1>7, <1>8, <1>11, <3>1 DEF Kept!Present
    <3> QED BY <3>1, <3>2 DEF Kept!References
  <2>2. CASE x = r.secret /\ x # 0
    BY <1>4, <1>7, <1>8, <2>2 DEF Kept!References
  <2> QED BY <1>1, <1>6, <2>1, <2>2 DEF secs
<1>12. /\ w.artifacts \subseteq v.artifacts \cup {Kept!ArtifactOf(q)}
       /\ s \notin Managed => w.artifacts = v.artifacts
  BY <1>6 DEF arts
<1>13. Carries(v, s, q, w)
  BY <1>6, <1>8, <1>9, <1>10, <1>12 DEF Carries
<1>14. s \notin Kept!Present(v) => Sound(w)
  BY <1>1, <1>6, <1>8, <1>9, <1>11 DEF Sound
<1> QED BY <1>2, <1>13, <1>14 DEF w

\* DropSecrets leaves exactly the secrets in use.
LEMMA DropsSecrets ==
  ASSUME NEW v \in Kept!Vaults, Kept!References(v) \subseteq v.secrets
  PROVE LET w == Kept!DropSecrets(v) IN
          /\ w \in Kept!Vaults /\ w.silos = v.silos /\ w.artifacts = v.artifacts
          /\ w.runs = v.runs /\ w.evidence = v.evidence /\ w.secrets = Kept!References(w)
<1> DEFINE w == Kept!DropSecrets(v)
<1>1. w = [v EXCEPT !.secrets = v.secrets \cap Kept!References(v)]
  BY DEF Kept!DropSecrets
<1> HIDE DEF w
<1>2. /\ w \in Kept!Vaults /\ w.silos = v.silos /\ w.artifacts = v.artifacts
      /\ w.runs = v.runs /\ w.evidence = v.evidence /\ w.secrets = Kept!References(v)
  BY <1>1 DEF Kept!Vaults
<1> QED BY <1>2, OfSilos DEF w

\* DropArtifact leaves the artifacts that are bound.
LEMMA DropsArtifact ==
  ASSUME NEW v \in Kept!Vaults, Kept!Bound(v) \subseteq v.artifacts, NEW old
  PROVE LET w == Kept!DropArtifact(v, old) IN
          /\ w \in Kept!Vaults /\ w.silos = v.silos /\ w.artifacts \subseteq v.artifacts
          /\ Kept!Bound(w) \subseteq w.artifacts
          /\ w.runs = v.runs /\ w.evidence = v.evidence /\ w.secrets = v.secrets
<1> DEFINE w == Kept!DropArtifact(v, old)
           arts == {x \in v.artifacts : ~Kept!SameId(x, old)}
<1>1. CASE \E x \in Kept!Bound(v) : Kept!SameId(x, old)
  BY <1>1 DEF Kept!DropArtifact
<1>2. CASE ~\E x \in Kept!Bound(v) : Kept!SameId(x, old)
  <2>1. w = [v EXCEPT !.artifacts = arts]
    BY <1>2 DEF Kept!DropArtifact
  <2>2. arts \subseteq v.artifacts /\ Kept!Bound(v) \subseteq arts
    BY <1>2
  <2> HIDE DEF w, arts
  <2>3. /\ w \in Kept!Vaults /\ w.silos = v.silos /\ w.artifacts = arts
        /\ w.runs = v.runs /\ w.evidence = v.evidence /\ w.secrets = v.secrets
    BY <2>1, <2>2, InVault DEF Kept!Vaults
  <2> QED BY <2>2, <2>3, OfSilos DEF w
<1> QED BY <1>1, <1>2

\* An edit of one record leaves a sound Vault.
LEMMA ReplacedIs ==
  ASSUME Kept!SilosAssumption, NEW v, Sound(v), NEW s \in Kept!Present(v), NEW r \in Kept!SiloRecords
  PROVE \E q : /\ Likens(r, q) /\ Carries(v, s, q, Kept!Replaced(v, s, r))
               /\ Sound(Kept!Replaced(v, s, r))
<1> DEFINE y == Kept!WithSilo(v, s, r)
           z == Kept!DropSecrets(y)
           old == Kept!ArtifactOf(v.silos[s])
           w == Kept!Replaced(v, s, r)
<1>1. s \in Kept!AllSilos /\ v.runs \cup v.evidence \subseteq Kept!Present(v)
  BY DEF Kept!Present, Sound
<1>2. PICK q : Likens(r, q) /\ Carries(v, s, q, y)
  BY <1>1, WithSiloIs
<1>3. w = IF s \in Managed THEN Kept!DropArtifact(z, old) ELSE z
  BY DEF Kept!Replaced
<1> HIDE DEF y
<1>4. /\ z \in Kept!Vaults /\ z.silos = y.silos /\ z.artifacts = y.artifacts
      /\ z.runs = y.runs /\ z.evidence = y.evidence /\ z.secrets = Kept!References(z)
  BY <1>2, DropsSecrets DEF Carries
<1> HIDE DEF z, old, w
<1>5. Kept!Bound(z) \subseteq z.artifacts /\ Kept!Present(z) = Kept!Present(v)
  BY <1>2, <1>4, OfSilos DEF Carries
<1>6. /\ w \in Kept!Vaults /\ w.silos = z.silos /\ w.artifacts \subseteq z.artifacts
      /\ Kept!Bound(w) \subseteq w.artifacts
      /\ w.runs = z.runs /\ w.evidence = z.evidence /\ w.secrets = z.secrets
      /\ s \notin Managed => w = z
  BY <1>3, <1>4, <1>5, DropsArtifact
<1>7. Kept!Present(w) = Kept!Present(v) /\ Kept!References(w) = Kept!References(z)
  BY <1>5, <1>6, OfSilos
<1>8. Sound(w)
  BY <1>1, <1>2, <1>4, <1>6, <1>7 DEF Sound, Carries
<1>9. Carries(v, s, q, w)
  BY <1>2, <1>4, <1>6, <1>7, <1>8 DEF Carries, Sound
<1> QED BY <1>2, <1>8, <1>9 DEF w

\* So does a deletion.
LEMMA WithoutIs ==
  ASSUME NEW v, Sound(v), NEW s \in Kept!Present(v)
  PROVE /\ Sound(Kept!Without(v, s))
        /\ Kept!Without(v, s).silos = [v.silos EXCEPT ![s] = None]
        /\ Kept!Present(Kept!Without(v, s)) = Kept!Present(v) \ {s}
        /\ Kept!Without(v, s).artifacts \subseteq v.artifacts
<1> DEFINE y == [v EXCEPT !.silos[s] = None, !.runs = @ \ {s}, !.evidence = @ \ {s}]
           z == Kept!DropSecrets(y)
           old == Kept!ArtifactOf(v.silos[s])
           w == Kept!Without(v, s)
<1>1. v \in Kept!Vaults /\ s \in Kept!AllSilos /\ Kept!Bound(v) \subseteq v.artifacts
      /\ v.secrets = Kept!References(v) /\ v.runs \cup v.evidence \subseteq Kept!Present(v)
  BY DEF Kept!Present, Sound
<1>2. w = IF s \in Managed THEN Kept!DropArtifact(z, old) ELSE z
  BY DEF Kept!Without
<1>3. v.silos \in [Kept!AllSilos -> Kept!SiloRecords \cup {None}]
  BY <1>1, InVault
<1>4. y = [v EXCEPT !.silos = [v.silos EXCEPT ![s] = None],
                    !.runs = v.runs \ {s}, !.evidence = v.evidence \ {s}]
  BY <1>1 DEF Kept!Vaults
<1> HIDE DEF y
<1>5. /\ y \in Kept!Vaults /\ y.silos = [v.silos EXCEPT ![s] = None]
      /\ y.artifacts = v.artifacts /\ y.secrets = v.secrets
      /\ y.runs = v.runs \ {s} /\ y.evidence = v.evidence \ {s}
  BY <1>1, <1>3, <1>4 DEF Kept!Vaults
<1>6. Kept!Present(y) = Kept!Present(v) \ {s} /\ \A t \in Kept!Present(y) : y.silos[t] = v.silos[t]
  BY <1>1, <1>3, <1>5 DEF Kept!Present
<1>7. Kept!Bound(y) \subseteq y.artifacts /\ Kept!References(y) \subseteq y.secrets
  <2>1. Kept!Bound(y) \subseteq Kept!Bound(v)
    BY <1>6 DEF Kept!Bound
  <2>2. Kept!References(y) \subseteq Kept!References(v)
    BY <1>6 DEF Kept!References
  <2> QED BY <1>1, <1>5, <2>1, <2>2
<1>8. /\ z \in Kept!Vaults /\ z.silos = y.silos /\ z.artifacts = y.artifacts
      /\ z.runs = y.runs /\ z.evidence = y.evidence /\ z.secrets = Kept!References(z)
  BY <1>5, <1>7, DropsSecrets
<1> HIDE DEF z, old, w
<1>9. Kept!Bound(z) \subseteq z.artifacts /\ Kept!Present(z) = Kept!Present(y)
  BY <1>7, <1>8, OfSilos
<1>10. /\ w \in Kept!Vaults /\ w.silos = z.silos /\ w.artifacts \subseteq z.artifacts
       /\ Kept!Bound(w) \subseteq w.artifacts
       /\ w.runs = z.runs /\ w.evidence = z.evidence /\ w.secrets = z.secrets
  BY <1>2, <1>8, <1>9, DropsArtifact
<1>11. Kept!Present(w) = Kept!Present(y) /\ Kept!References(w) = Kept!References(z)
  BY <1>9, <1>10, OfSilos
<1>12. Sound(w)
  BY <1>1, <1>5, <1>6, <1>8, <1>10, <1>11 DEF Sound
<1> QED BY <1>5, <1>6, <1>8, <1>10, <1>11, <1>12 DEF w

\* Locking an identity, and a merge, change nothing but locks.
LEMMA RelockedIs ==
  ASSUME Kept!SilosAssumption, NEW v, Sound(v), NEW w \in Kept!Vaults,
         NEW extra \in SUBSET Kept!Artifacts,
         w.artifacts = v.artifacts \cup extra, w.secrets = v.secrets,
         w.runs = v.runs, w.evidence = v.evidence,
         \A t \in Kept!AllSilos : w.silos[t] = None <=> v.silos[t] = None,
         \A t \in Kept!Present(v) : \E f \in BOOLEAN : w.silos[t] = [v.silos[t] EXCEPT !.locked = f]
  PROVE Sound(w) /\ Kept!Present(w) = Kept!Present(v)
<1>1. Kept!Present(w) = Kept!Present(v)
  BY DEF Kept!Present
<1>2. \A t \in Kept!Present(v) : /\ Kept!ArtifactOf(w.silos[t]) = Kept!ArtifactOf(v.silos[t])
                            /\ w.silos[t].secret = v.silos[t].secret
  <2> SUFFICES ASSUME NEW t \in Kept!Present(v)
               PROVE /\ Kept!ArtifactOf(w.silos[t]) = Kept!ArtifactOf(v.silos[t])
                     /\ w.silos[t].secret = v.silos[t].secret
    OBVIOUS
  <2>1. PICK f \in BOOLEAN : w.silos[t] = [v.silos[t] EXCEPT !.locked = f]
    OBVIOUS
  <2>2. v.silos[t] \in Kept!SiloRecords
    BY InVault DEF Sound
  <2> QED BY <2>1, <2>2 DEF Kept!SiloRecords, Kept!ArtifactOf
<1>3. Kept!Bound(w) = Kept!Bound(v) /\ Kept!References(w) = Kept!References(v)
  BY <1>1, <1>2 DEF Kept!Bound, Kept!References
<1> QED BY <1>1, <1>3 DEF Sound

\* Locking an identity changes nothing else.
LEMMA LockedIs ==
  ASSUME Kept!SilosAssumption, NEW v, Sound(v), NEW s \in Kept!Present(v)
  PROVE LET w == [v EXCEPT !.silos[s].locked = TRUE] IN
          /\ Sound(w) /\ Kept!Present(w) = Kept!Present(v) /\ w.artifacts = v.artifacts
          /\ w.silos = [v.silos EXCEPT ![s] = [v.silos[s] EXCEPT !.locked = TRUE]]
<1> DEFINE w == [v EXCEPT !.silos[s].locked = TRUE]
<1>1. /\ v \in Kept!Vaults /\ s \in Kept!AllSilos /\ v.silos[s] \in Kept!SiloRecords
      /\ v.silos \in [Kept!AllSilos -> Kept!SiloRecords \cup {None}]
  BY InVault DEF Sound, Kept!Present
<1>2. w = [v EXCEPT !.silos = [v.silos EXCEPT ![s] = [v.silos[s] EXCEPT !.locked = TRUE]]]
  BY <1>1 DEF Kept!Vaults
<1>3. [v.silos[s] EXCEPT !.locked = TRUE] \in Kept!SiloRecords
  BY <1>1 DEF Kept!SiloRecords
<1> HIDE DEF w
<1>4. /\ w \in Kept!Vaults /\ w.artifacts = v.artifacts /\ w.secrets = v.secrets
      /\ w.silos = [v.silos EXCEPT ![s] = [v.silos[s] EXCEPT !.locked = TRUE]]
      /\ w.runs = v.runs /\ w.evidence = v.evidence
  BY <1>1, <1>2, <1>3 DEF Kept!Vaults
<1>5. /\ w.silos[s] = [v.silos[s] EXCEPT !.locked = TRUE]
      /\ \A t \in Kept!AllSilos \ {s} : w.silos[t] = v.silos[t]
      /\ w.silos[s] # None /\ v.silos[s] # None
  BY <1>1, <1>3, <1>4, InRecord
<1>6. \A t \in Kept!Present(v) : \E f \in BOOLEAN : w.silos[t] = [v.silos[t] EXCEPT !.locked = f]
  <2> SUFFICES ASSUME NEW t \in Kept!Present(v), t # s
               PROVE w.silos[t] = [v.silos[t] EXCEPT !.locked = v.silos[t].locked]
                     /\ v.silos[t].locked \in BOOLEAN
    BY <1>5
  <2>1. v.silos[t] \in Kept!SiloRecords /\ t \in Kept!AllSilos
    BY <1>1, InVault DEF Kept!Present
  <2> QED BY <1>5, <2>1 DEF Kept!SiloRecords
<1>7. Sound(w) /\ Kept!Present(w) = Kept!Present(v)
  <2>1. w.artifacts = v.artifacts \cup {} /\ {} \in SUBSET Kept!Artifacts
    BY <1>4
  <2>2. \A t \in Kept!AllSilos : w.silos[t] = None <=> v.silos[t] = None
    BY <1>5
  <2> QED BY <1>4, <1>6, <2>1, <2>2, RelockedIs
<1> QED BY <1>4, <1>7 DEF w

\* A restore merges the backup with the locks there are.
LEMMA MergedIs ==
  ASSUME Kept!SilosAssumption, Sound(data), NEW old, Sound(old),
         \A s \in Kept!Present(data) : data.silos[s].locked => s \in Kept!Present(old)
  PROVE /\ Sound(Kept!Merged(old)) /\ Kept!Present(Kept!Merged(old)) = Kept!Present(old)
        /\ Kept!Merged(old).artifacts = old.artifacts \cup Kept!Bound(data)
        /\ \A s \in Kept!AllSilos : Kept!Merged(old).silos[s] =
             IF s \in Kept!Present(data) /\ data.silos[s].locked
             THEN [old.silos[s] EXCEPT !.locked = TRUE] ELSE old.silos[s]
<1> DEFINE w == Kept!Merged(old)
           with == [s \in Kept!AllSilos |-> IF s \in Kept!Present(data) /\ data.silos[s].locked
                                       THEN [old.silos[s] EXCEPT !.locked = TRUE]
                                       ELSE old.silos[s]]
<1>1. /\ old \in Kept!Vaults /\ data \in Kept!Vaults
      /\ old.silos \in [Kept!AllSilos -> Kept!SiloRecords \cup {None}]
      /\ \A s \in Kept!Present(old) : old.silos[s] \in Kept!SiloRecords
      /\ Kept!Bound(data) \subseteq Kept!Artifacts
  <2>1. data.artifacts \subseteq Kept!Artifacts
    BY InVault DEF Sound
  <2> QED BY <2>1, InVault DEF Sound
<1>2. w = [old EXCEPT !.silos = with, !.artifacts = old.artifacts \cup Kept!Bound(data)]
  BY <1>1 DEF Kept!Merged, Kept!Vaults
<1>3. ASSUME NEW s \in Kept!AllSilos
      PROVE /\ with[s] \in Kept!SiloRecords \cup {None} /\ (with[s] = None <=> old.silos[s] = None)
            /\ s \in Kept!Present(old) =>
                 \E f \in BOOLEAN : with[s] = [old.silos[s] EXCEPT !.locked = f]
  <2>1. CASE s \in Kept!Present(data) /\ data.silos[s].locked
    <3>1. s \in Kept!Present(old) /\ old.silos[s] \in Kept!SiloRecords
      BY <1>1, <2>1
    <3>2. with[s] = [old.silos[s] EXCEPT !.locked = TRUE]
      BY <2>1
    <3>3. with[s] \in Kept!SiloRecords
      BY <3>1, <3>2 DEF Kept!SiloRecords
    <3> QED BY <3>1, <3>2, <3>3, InRecord
  <2>2. CASE ~(s \in Kept!Present(data) /\ data.silos[s].locked)
    <3>1. with[s] = old.silos[s]
      BY <2>2
    <3>2. ASSUME s \in Kept!Present(old)
          PROVE old.silos[s] = [old.silos[s] EXCEPT !.locked = old.silos[s].locked]
                /\ old.silos[s].locked \in BOOLEAN
      BY <1>1, <3>2 DEF Kept!SiloRecords
    <3> QED BY <1>1, <3>1, <3>2
  <2> QED BY <2>1, <2>2
<1>4. with \in [Kept!AllSilos -> Kept!SiloRecords \cup {None}]
  BY <1>3
<1> HIDE DEF with, w
<1>5. /\ w \in Kept!Vaults /\ w.silos = with /\ w.artifacts = old.artifacts \cup Kept!Bound(data)
      /\ w.secrets = old.secrets /\ w.runs = old.runs /\ w.evidence = old.evidence
  BY <1>1, <1>2, <1>4, InVault DEF Kept!Vaults
<1>6. Sound(w) /\ Kept!Present(w) = Kept!Present(old)
  <2>1. /\ \A t \in Kept!AllSilos : w.silos[t] = None <=> old.silos[t] = None
        /\ \A t \in Kept!Present(old) : \E f \in BOOLEAN : w.silos[t] = [old.silos[t] EXCEPT !.locked = f]
    BY <1>3, <1>5 DEF Kept!Present
  <2> QED BY <1>1, <1>5, <2>1, RelockedIs
<1>7. \A s \in Kept!AllSilos : w.silos[s] = IF s \in Kept!Present(data) /\ data.silos[s].locked
             THEN [old.silos[s] EXCEPT !.locked = TRUE] ELSE old.silos[s]
  BY <1>5 DEF with
<1> QED BY <1>5, <1>6, <1>7 DEF w

-----------------------------------------------------------------------------
(* What all steps have in common *)

\* Nothing has changed.
LEMMA FollowsItself ==
  ASSUME NEW v PROVE Follows(v, v) /\ Kept!LocksKept(v, v) /\ Kept!IdentityKept(v, v)
BY DEF Follows, Kept!LocksKept, Kept!IdentityKept

\* A save, whatever comes of it.
LEMMA Saving ==
  ASSUME Kept!SilosAssumption, SilosInv, NEW new, Sound(new), Follows(data, new),
         Kept!Save(new) \/ Kept!NotSaved,
         backup # None => Kept!LocksKept(backup, new), backup' = backup
  PROVE /\ data' \in {data, new} /\ disk' \in {disk, new}
        /\ Sound(data') /\ Sound(disk') /\ Follows(data', disk')
        /\ Kept!LocksKept(data, data') /\ (backup = None => Kept!IdentityKept(data, data'))
        /\ backup # None => Kept!LocksKept(backup, data') /\ Kept!LocksKept(backup, disk')
        /\ doubts' \in 0..MaxDoubts
        /\ doubts' = 0 => doubts = 0 /\ data' = disk'
<1>1. \/ data' = new /\ disk' = new /\ doubts' = doubts
      \/ data' = data /\ disk' = new /\ doubts' = doubts + 1 /\ doubts < MaxDoubts
      \/ data' = data /\ disk' = disk /\ doubts' = doubts
  BY DEF Kept!Save, Kept!NotSaved
<1>2. /\ doubts \in 0..MaxDoubts /\ Sound(data) /\ Sound(disk) /\ Follows(data, disk)
      /\ backup # None => Kept!LocksKept(backup, data) /\ Kept!LocksKept(backup, disk)
      /\ doubts = 0 => data = disk
  BY DEF SilosInv, Kept!TypeOK, Backed, Certain
<1>3. /\ data' \in {data, new} /\ disk' \in {disk, new}
      /\ Sound(data') /\ Sound(disk') /\ Follows(data', disk')
      /\ backup # None => Kept!LocksKept(backup, data') /\ Kept!LocksKept(backup, disk')
  BY <1>1, <1>2, FollowsItself
<1>4. Kept!LocksKept(data, data') /\ (backup = None => Kept!IdentityKept(data, data'))
  BY <1>1, FollowsItself DEF Follows
<1>5. doubts' \in 0..MaxDoubts /\ (doubts' = 0 => doubts = 0 /\ data' = disk')
  BY <1>1, <1>2 DEF Kept!SilosAssumption
<1> QED BY <1>3, <1>4, <1>5

\* A record that may take the place of another.
Alike(r, q) == /\ r.locked => q.locked
               /\ q.locked => q.seed = r.seed /\ (backup = None => q.identity = r.identity)

\* It is enough that every record follows its own.
LEMMA AlikeFollows ==
  ASSUME NEW new, \A s \in Kept!Present(data) \cap Kept!Present(new) : Alike(data.silos[s], new.silos[s])
  PROVE Follows(data, new)
BY DEF Follows, Kept!LocksKept, Kept!IdentityKept, Alike

\* A Silo of the backup comes into the Vault only with a restore.
LEMMA BackupFollows ==
  ASSUME SilosInv, NEW new, Follows(data, new), backup # None,
         Kept!Present(new) \cap Kept!Present(backup) \subseteq Kept!Present(data)
  PROVE Kept!LocksKept(backup, new)
BY DEF SilosInv, Backed, Follows, Kept!LocksKept

\* A step makes one artifact at most.
LEMMA Counting ==
  ASSUME SilosInv, NEW x, AllArtifacts' \subseteq AllArtifacts \cup {x}
  PROVE Counted'
<1>1. IsFiniteSet(AllArtifacts \cup {x})
  BY FS_AddElement DEF SilosInv, Counted
<1> QED BY <1>1, FS_Subset DEF Counted

\* What a step may do to locked identities and to profiles.
LocksStay == Kept!LocksKept(data, data') /\ (backup = None => Kept!IdentityKept(data, data'))
ProfilesStay ==
  \A s \in Kept!AllSilos : /\ "used" \in {home[s], quarantine[s]}
                      /\ "used" \notin {home'[s], quarantine'[s]}
                      => data'.silos[s] = None /\ disk'.silos[s] = None
Keeps == SilosInv' /\ LocksStay /\ ProfilesStay

JobTyped == job = Kept!NoJob \/ (job.silo \in Kept!AllSilos /\ job.plan \in Kept!SiloRecords)

\* The types that the steps need.
LEMMA InInv ==
  ASSUME Kept!SilosAssumption, SilosInv
  PROVE /\ data \in Kept!Vaults /\ disk \in Kept!Vaults
        /\ home \in [Kept!AllSilos -> Kept!Trees] /\ quarantine \in [Kept!AllSilos -> Kept!Trees]
        /\ JobTyped
        /\ backup \in Kept!Vaults \cup {None} /\ born \subseteq Kept!AllSilos
        /\ fresh \in 0..MaxFresh /\ calls \in 0..MaxCalls /\ doubts \in 0..MaxDoubts
        /\ calls \in Nat /\ fresh \in Nat /\ doubts \in Nat
        /\ \A s \in Kept!Present(data) : s \in Kept!AllSilos /\ data.silos[s] \in Kept!SiloRecords
BY InVault DEF SilosInv, Kept!TypeOK, Kept!SilosAssumption, JobTyped

\* A step that saves something, or may have saved it.
LEMMA StepKeeps ==
  ASSUME Kept!SilosAssumption, SilosInv, NEW new, NEW x,
         Sound(new), Follows(data, new), Kept!Save(new) \/ Kept!NotSaved,
         backup # None => Kept!LocksKept(backup, new), backup' = backup,
         born \subseteq born', born' \subseteq Kept!AllSilos, Kept!Present(new) \subseteq born',
         home' \in [Kept!AllSilos -> Kept!Trees], quarantine' \in [Kept!AllSilos -> Kept!Trees],
         \A s \in Kept!AllSilos : home'[s] # "none" \/ quarantine'[s] # "none" => s \in born',
         fresh' \in 0..MaxFresh, calls' \in 0..MaxCalls,
         new.artifacts \subseteq AllArtifacts \cup {x},
         JobTyped', Jobs', UsedIsLocked', ProfilesStay
  PROVE Keeps
<1>1. /\ data' \in {data, new} /\ disk' \in {disk, new}
      /\ Sound(data') /\ Sound(disk') /\ Follows(data', disk')
      /\ Kept!LocksKept(data, data') /\ (backup = None => Kept!IdentityKept(data, data'))
      /\ backup # None => Kept!LocksKept(backup, data') /\ Kept!LocksKept(backup, disk')
      /\ doubts' \in 0..MaxDoubts
      /\ doubts' = 0 => doubts = 0 /\ data' = disk'
  BY Saving
<1>2. Kept!TypeOK'
  BY <1>1, InInv DEF Kept!TypeOK, Sound, JobTyped
<1>3. Known'
  BY <1>1 DEF SilosInv, Known
<1>4. Backed'
  BY <1>1 DEF SilosInv, Backed
<1>5. Counted'
  <2>1. AllArtifacts' \subseteq AllArtifacts \cup {x}
    BY <1>1 DEF AllArtifacts
  <2> QED BY <2>1, Counting
<1>6. (Follows(data, disk))'
  BY <1>1 DEF Follows
<1>7. Certain'
  BY <1>1 DEF Certain
<1> QED BY <1>1, <1>2, <1>3, <1>4, <1>5, <1>6, <1>7 DEF Keeps, SilosInv, LocksStay

\* An edit of records, which keeps the Silos that there are and their trees.
LEMMA EditKeeps ==
  ASSUME Kept!SilosAssumption, SilosInv, NEW new, NEW x,
         Sound(new), Kept!Present(new) = Kept!Present(data),
         \A s \in Kept!Present(data) : Alike(data.silos[s], new.silos[s]),
         Kept!Save(new) \/ Kept!NotSaved, Kept!TreesKept, UNCHANGED <<backup, born>>,
         fresh' \in 0..MaxFresh, calls' \in 0..MaxCalls,
         new.artifacts \subseteq data.artifacts \cup {x},
         JobTyped', Jobs'
  PROVE Keeps
<1>1. Follows(data, new)
  BY AlikeFollows
<1>2. backup # None => Kept!LocksKept(backup, new)
  BY <1>1, BackupFollows
<1>3. data' \in {data, new} /\ (doubts' = 0 => doubts = 0)
  BY <1>1, <1>2, Saving
<1>4. home' = home /\ quarantine' = quarantine /\ backup' = backup /\ born' = born
  BY DEF Kept!TreesKept
<1>5. UsedIsLocked'
  BY <1>3, <1>4 DEF SilosInv, Certain, UsedIsLocked, Alike
<1>6. ProfilesStay
  BY <1>4 DEF ProfilesStay
<1>7. /\ Kept!Present(new) \subseteq born /\ data.artifacts \subseteq AllArtifacts
      /\ \A s \in Kept!AllSilos : home[s] # "none" \/ quarantine[s] # "none" => s \in born
  BY DEF SilosInv, Known, AllArtifacts
<1>8. new.artifacts \subseteq AllArtifacts \cup {x}
  BY <1>7
<1> QED BY <1>1, <1>2, <1>4, <1>5, <1>6, <1>7, <1>8, InInv, StepKeeps

\* The job goes on next to an edit of another Silo, or of what is not in a record.
LEMMA JobGoesOn ==
  ASSUME SilosInv, NEW new, Kept!Save(new) \/ Kept!NotSaved, Kept!TreesKept, UNCHANGED <<job, backup, born>>,
         Kept!Present(new) = Kept!Present(data), job # Kept!NoJob => new.silos[job.silo] = data.silos[job.silo]
  PROVE Jobs'
<1>1. /\ data' \in {data, new} /\ disk' \in {disk, new}
      /\ home' = home /\ job' = job /\ backup' = backup /\ born' = born
  BY DEF Kept!Save, Kept!NotSaved, Kept!TreesKept
<1>2. job # Kept!NoJob => /\ data'.silos[job.silo] = data.silos[job.silo]
                     /\ disk'.silos[job.silo] \in {disk.silos[job.silo], data.silos[job.silo]}
  BY <1>1
<1>3. Kept!Present(data') = Kept!Present(data) /\ Kept!Present(disk') \in {Kept!Present(disk), Kept!Present(data)}
  BY <1>1
<1>4. job.op = "rebind" => job # Kept!NoJob
  BY DEF Kept!NoJob
<1>5. job.op = "launch" => job # Kept!NoJob
  BY DEF Kept!NoJob
<1>6. job.op = "rebind" => Rebinding(data)' /\ Rebinding(disk)'
  <2> SUFFICES ASSUME job.op = "rebind" PROVE Rebinding(data)' /\ Rebinding(disk)'
    OBVIOUS
  <2>1. Rebinding(data) /\ Rebinding(disk)
    BY DEF SilosInv, Jobs
  <2>2. CASE disk' = disk
    BY <1>1, <1>2, <1>3, <1>4, <2>1, <2>2 DEF Rebinding
  <2>3. CASE disk' = new
    BY <1>1, <1>2, <1>3, <1>4, <2>1, <2>3 DEF Rebinding
  <2> QED BY <1>1, <2>2, <2>3
<1> QED BY <1>1, <1>2, <1>3, <1>5, <1>6 DEF SilosInv, Jobs

\* A record that stays is alike.
LEMMA AlikeItself == ASSUME NEW r PROVE Alike(r, r)
BY DEF Alike

\* Nothing is saved: an operation starts, or ends with nothing done.
LEMMA NothingSavedKeeps ==
  ASSUME Kept!SilosAssumption, SilosInv, Kept!NotSaved, Kept!TreesKept, UNCHANGED <<backup, born>>,
         fresh' \in 0..MaxFresh, calls' \in 0..MaxCalls,
         JobTyped', Jobs'
  PROVE Keeps
<1>1. Sound(data) /\ \A s \in Kept!Present(data) : Alike(data.silos[s], data.silos[s])
  BY AlikeItself DEF SilosInv
<1> QED BY <1>1, EditKeeps

\* A call counts.
LEMMA CallIs ==
  ASSUME Kept!SilosAssumption, SilosInv, Kept!Call
  PROVE calls' \in 0..MaxCalls /\ calls' = calls + 1
BY InInv DEF Kept!Call, Kept!SilosAssumption

-----------------------------------------------------------------------------
(* Operations that start *)

\* A creation is of a Silo not known before.
LEMMA StartCreateKeeps ==
  ASSUME Kept!SilosAssumption, SilosInv, NEW s \in Kept!AllSilos, NEW i \in Identities, NEW n \in Kept!Networks,
         Kept!StartCreate(s, i, n)
  PROVE Keeps
<1>1. /\ s \notin born /\ fresh < MaxFresh /\ fresh' = fresh + 1 /\ Kept!Call
      /\ Kept!NotSaved /\ Kept!TreesKept /\ UNCHANGED <<backup, born>>
      /\ job' = Kept!Job("create", s, Kept!NewRecord(i, n, fresh + 1))
  BY DEF Kept!StartCreate
<1>2. fresh' \in 1..MaxFresh
  BY <1>1, InInv DEF Kept!SilosAssumption
<1>3. Kept!NewRecord(i, n, fresh + 1) \in Kept!SiloRecords
  BY <1>1, <1>2, InInv DEF Kept!NewRecord, Kept!SiloRecords, Kept!SilosAssumption
<1>4. JobTyped' /\ Jobs'
  BY <1>1, <1>3 DEF JobTyped, Jobs, Kept!Job
<1> QED BY <1>1, <1>2, <1>4, CallIs, NothingSavedKeeps, InInv

\* A replacement of an identity is planned.
LEMMA StartReplaceKeeps ==
  ASSUME Kept!SilosAssumption, SilosInv, NEW s \in Kept!AllSilos, NEW i \in Identities,
         NEW rotate \in BOOLEAN, Kept!StartReplace(s, i, rotate)
  PROVE Keeps
<1> DEFINE seed == IF rotate THEN fresh + 1 ELSE data.silos[s].seed
           plan == [data.silos[s] EXCEPT !.identity = i, !.seed = seed]
<1>1. /\ s \in Managed /\ s \in Kept!Present(data) /\ Kept!Call
      /\ Kept!NotSaved /\ Kept!TreesKept /\ UNCHANGED <<backup, born>>
      /\ rotate => fresh < MaxFresh
      /\ fresh' = IF rotate THEN fresh + 1 ELSE fresh
  BY DEF Kept!StartReplace, Kept!Inactive
<1>2. data.silos[s] \in Kept!SiloRecords
  BY <1>1, InInv
<1>3. job' = Kept!Job("replace", s, plan)
  BY <1>2 DEF Kept!StartReplace, Kept!SiloRecords
<1>4. fresh' \in 0..MaxFresh /\ seed \in 1..MaxFresh
  BY <1>1, <1>2, InInv, InRecord DEF Kept!SilosAssumption
<1> HIDE DEF seed
<1>5. plan \in Kept!SiloRecords
  BY <1>2, <1>4 DEF Kept!SiloRecords
<1> HIDE DEF plan
<1>6. JobTyped' /\ Jobs'
  BY <1>1, <1>3, <1>5 DEF JobTyped, Jobs, Kept!Job
<1> QED BY <1>1, <1>4, <1>6, CallIs, NothingSavedKeeps

\* A network edit plans with the seed and the identity there are.
LEMMA StartRebindKeeps ==
  ASSUME Kept!SilosAssumption, SilosInv, NEW s \in Kept!AllSilos, NEW n \in Kept!Networks, Kept!StartRebind(s, n)
  PROVE Keeps
<1> DEFINE secret == IF n = "proxy" THEN fresh + 1 ELSE 0
           plan == [data.silos[s] EXCEPT !.network = n, !.secret = secret]
<1>1. /\ s \in Managed /\ s \in Kept!Present(data) /\ Kept!Call
      /\ Kept!NotSaved /\ Kept!TreesKept /\ UNCHANGED <<backup, born>>
      /\ n = "proxy" => fresh < MaxFresh
      /\ fresh' = IF n = "proxy" THEN fresh + 1 ELSE fresh
      /\ job' = Kept!Job("rebind", s, plan)
  BY DEF Kept!StartRebind, Kept!Inactive
<1>2. data.silos[s] \in Kept!SiloRecords
  BY <1>1, InInv
<1>3. fresh' \in 0..MaxFresh /\ secret \in 0..MaxFresh
  BY <1>1, InInv DEF Kept!SilosAssumption
<1> HIDE DEF secret
<1>4. /\ plan \in Kept!SiloRecords
      /\ plan.seed = data.silos[s].seed /\ plan.identity = data.silos[s].identity
  BY <1>2, <1>3 DEF Kept!SiloRecords
<1> HIDE DEF plan
<1>5. job'.op = "rebind" /\ job'.silo = s /\ job'.plan = plan
  BY <1>1 DEF Kept!Job
<1>6. data' = data /\ disk' = disk /\ backup' = backup
  BY <1>1 DEF Kept!NotSaved
<1>7. Rebinding(data)'
  BY <1>4, <1>5, <1>6 DEF Rebinding
<1>8. Rebinding(disk)'
  <2>1. Follows(data, disk)
    BY DEF SilosInv
  <2> QED BY <1>1, <1>4, <1>5, <1>6, <2>1 DEF Rebinding, Follows
<1>9. JobTyped' /\ Jobs'
  BY <1>1, <1>4, <1>5, <1>7, <1>8 DEF JobTyped, Jobs
<1> QED BY <1>1, <1>3, <1>9, CallIs, NothingSavedKeeps

-----------------------------------------------------------------------------
(* Edits of one Silo *)

\* A record gets a new one.
LEMMA HeldAt ==
  ASSUME Kept!SilosAssumption, SilosInv, NEW new, NEW s \in Kept!Present(data), NEW q,
         new.silos = [data.silos EXCEPT ![s] = q]
  PROVE new.silos[s] = q /\ \A t \in Kept!AllSilos \ {s} : new.silos[t] = data.silos[t]
<1>1. data.silos \in [Kept!AllSilos -> Kept!SiloRecords \cup {None}] /\ s \in Kept!AllSilos
  BY InInv, InVault DEF Kept!Present
<1> QED BY <1>1

\* A record is replaced by one that is alike, the others stay.
LEMMA HeldIsAlike ==
  ASSUME Kept!SilosAssumption, SilosInv, NEW new, NEW s \in Kept!Present(data), NEW q,
         new.silos = [data.silos EXCEPT ![s] = q], Alike(data.silos[s], q)
  PROVE \A t \in Kept!Present(data) : Alike(data.silos[t], new.silos[t])
<1>1. new.silos[s] = q /\ \A t \in Kept!AllSilos \ {s} : new.silos[t] = data.silos[t]
  BY HeldAt
<1> SUFFICES ASSUME NEW t \in Kept!Present(data) PROVE Alike(data.silos[t], new.silos[t])
  OBVIOUS
<1>2. CASE t = s
  BY <1>1, <1>2
<1>3. CASE t # s
  <2>1. new.silos[t] = data.silos[t]
    BY <1>1, <1>3 DEF Kept!Present
  <2> QED BY <2>1, AlikeItself
<1> QED BY <1>2, <1>3

\* An edit of a stock Silo leaves a locked identity as it is.
LEMMA ChangeStockKeeps ==
  ASSUME Kept!SilosAssumption, SilosInv, NEW s \in Kept!AllSilos, NEW i \in Identities, NEW n \in Kept!Networks,
         Kept!ChangeStock(s, i, n)
  PROVE Keeps
<1> DEFINE old == data.silos[s]
           secret == CASE n = "direct" -> 0
                       [] n = "proxy" /\ old.network = "proxy" -> old.secret
                       [] OTHER -> fresh + 1
           r == [old EXCEPT !.identity = i, !.network = n, !.secret = secret]
           new == Kept!Replaced(data, s, r)
<1>1. /\ Kept!Free(s) /\ s \in Stock /\ s \in Kept!Present(data) /\ Kept!Call
      /\ old.locked => i = old.identity
      /\ secret <= MaxFresh /\ fresh' = IF secret > fresh THEN secret ELSE fresh
      /\ Kept!Save(new) /\ Kept!TreesKept /\ UNCHANGED <<job, backup, born>>
  BY DEF Kept!ChangeStock, Kept!Inactive
<1>2. old \in Kept!SiloRecords
  BY <1>1, InInv
<1>3. secret \in 0..MaxFresh
  <2>1. old.secret \in 0..MaxFresh
    BY <1>2, InRecord
  <2>2. CASE n = "direct"
    BY <2>2 DEF Kept!SilosAssumption
  <2>3. CASE n # "direct" /\ old.network = "proxy"
    <3>1. n = "proxy"
      BY <2>3 DEF Kept!Networks
    <3> QED BY <2>1, <2>3, <3>1
  <2>4. CASE n # "direct" /\ old.network # "proxy"
    <3>1. secret = fresh + 1
      BY <2>4
    <3> QED BY <1>1, <3>1, InInv DEF Kept!SilosAssumption
  <2> QED BY <2>2, <2>3, <2>4
<1>4. fresh' \in 0..MaxFresh
  BY <1>1, <1>3, InInv DEF Kept!SilosAssumption
<1> HIDE DEF secret
<1>5. /\ r \in Kept!SiloRecords /\ r.seed = old.seed /\ r.locked = old.locked /\ r.identity = i
  BY <1>2, <1>3 DEF Kept!SiloRecords
<1> HIDE DEF r
<1>6. PICK q : Likens(r, q) /\ Carries(data, s, q, new) /\ Sound(new)
  <2>1. Sound(data)
    BY DEF SilosInv
  <2> QED BY <1>1, <1>5, <2>1, ReplacedIs
<1> HIDE DEF new
<1>7. /\ new.silos = [data.silos EXCEPT ![s] = q] /\ Kept!Present(new) = Kept!Present(data)
      /\ new.artifacts = data.artifacts
  BY <1>1, <1>6 DEF Carries, Kept!SilosAssumption
<1>8. Alike(data.silos[s], q)
  BY <1>1, <1>5, <1>6 DEF Alike, Likens
<1>9. /\ \A t \in Kept!Present(data) : Alike(data.silos[t], new.silos[t])
      /\ \A t \in Kept!AllSilos \ {s} : new.silos[t] = data.silos[t]
  <2> HIDE DEF old
  <2>1. s \in Kept!Present(data) /\ new.silos = [data.silos EXCEPT ![s] = q]
    BY <1>1, <1>7
  <2>2. \A t \in Kept!AllSilos \ {s} : new.silos[t] = data.silos[t]
    BY <2>1, HeldAt
  <2> QED BY <1>8, <2>1, <2>2, HeldIsAlike
<1>10. job # Kept!NoJob => new.silos[job.silo] = data.silos[job.silo]
  BY <1>1, <1>9, InInv DEF Kept!Free, JobTyped
<1>11. Jobs' /\ JobTyped'
  BY <1>1, <1>7, <1>10, JobGoesOn, InInv DEF JobTyped
<1> QED BY <1>1, <1>4, <1>6, <1>7, <1>9, <1>11, CallIs, EditKeeps

\* What is not in a record is edited, or nothing but the file.
LEMMA RecordsStayKeeps ==
  ASSUME Kept!SilosAssumption, SilosInv, NEW new, Sound(new), new.silos = data.silos,
         new.artifacts = data.artifacts, Kept!Save(new), Kept!TreesKept, Kept!Call,
         UNCHANGED <<job, backup, born, fresh>>
  PROVE Keeps
<1>1. Kept!Present(new) = Kept!Present(data)
  BY OfSilos
<1>2. \A s \in Kept!Present(data) : Alike(data.silos[s], new.silos[s])
  BY AlikeItself
<1>3. Jobs' /\ JobTyped'
  BY <1>1, JobGoesOn, InInv DEF JobTyped
<1> QED BY <1>1, <1>2, <1>3, CallIs, EditKeeps, InInv

\* Metadata and evidence.
LEMMA MetadataKeeps ==
  ASSUME Kept!SilosAssumption, SilosInv, NEW s \in Kept!AllSilos,
         Kept!EditMetadata(s) \/ Kept!ImportEvidence(s) \/ Kept!ClearEvidence(s)
  PROVE Keeps
<1>1. Sound(data) /\ data \in Kept!Vaults
  BY DEF SilosInv, Sound
<1>2. CASE Kept!EditMetadata(s)
  BY <1>1, <1>2, RecordsStayKeeps DEF Kept!EditMetadata
<1>3. ASSUME NEW set, set \subseteq data.evidence \cup Kept!Present(data)
      PROVE LET new == [data EXCEPT !.evidence = set] IN
              Sound(new) /\ new.silos = data.silos /\ new.artifacts = data.artifacts
  <2> DEFINE new == [data EXCEPT !.evidence = set]
  <2>1. set \subseteq Kept!AllSilos
    BY <1>1, <1>3, InVault
  <2>2. /\ new \in Kept!Vaults /\ new.silos = data.silos /\ new.artifacts = data.artifacts
        /\ new.secrets = data.secrets /\ new.runs = data.runs /\ new.evidence = set
    BY <1>1, <2>1 DEF Kept!Vaults
  <2> HIDE DEF new
  <2>3. Sound(new)
    BY <1>1, <1>3, <2>2, OfSilos DEF Sound
  <2> QED BY <2>2, <2>3 DEF new
<1>4. CASE Kept!ImportEvidence(s)
  <2> DEFINE set == data.evidence \cup {s}
             new == [data EXCEPT !.evidence = set]
  <2>1. set \subseteq data.evidence \cup Kept!Present(data)
    BY <1>4 DEF Kept!ImportEvidence, Kept!Inactive
  <2>2. Kept!Save(new) /\ Kept!TreesKept /\ Kept!Call /\ UNCHANGED <<job, backup, born, fresh>>
    BY <1>4 DEF Kept!ImportEvidence
  <2>3. Sound(new) /\ new.silos = data.silos /\ new.artifacts = data.artifacts
    BY <1>3, <2>1
  <2> HIDE DEF new
  <2> QED BY <2>2, <2>3, RecordsStayKeeps
<1>5. CASE Kept!ClearEvidence(s)
  <2> DEFINE set == data.evidence \ {s}
             new == [data EXCEPT !.evidence = set]
  <2>1. set \subseteq data.evidence \cup Kept!Present(data)
    OBVIOUS
  <2>2. Kept!Save(new) /\ Kept!TreesKept /\ Kept!Call /\ UNCHANGED <<job, backup, born, fresh>>
    BY <1>5 DEF Kept!ClearEvidence
  <2>3. Sound(new) /\ new.silos = data.silos /\ new.artifacts = data.artifacts
    BY <1>3, <2>1
  <2> HIDE DEF new
  <2> QED BY <2>2, <2>3, RecordsStayKeeps
<1> QED BY <1>2, <1>4, <1>5

\* A launch locks the identity first.
LEMMA LaunchKeeps ==
  ASSUME Kept!SilosAssumption, SilosInv, NEW s \in Kept!AllSilos, Kept!Launch(s)
  PROVE Keeps
<1>1. /\ Kept!Idle /\ s \in Kept!Present(data) /\ Kept!Call /\ Kept!TreesKept /\ UNCHANGED <<backup, born, fresh>>
      /\ job' = IF data'.silos[s].locked THEN Kept!Job("launch", s, data'.silos[s]) ELSE Kept!NoJob
  BY DEF Kept!Launch, Kept!Inactive
<1>2. data.silos[s] \in Kept!SiloRecords /\ Sound(data)
  BY <1>1, InInv DEF SilosInv
<1>3. CASE data.silos[s].locked /\ Kept!NotSaved
  <2>1. job' = Kept!Job("launch", s, data.silos[s]) /\ data' = data
    BY <1>1, <1>3 DEF Kept!NotSaved
  <2>2. JobTyped' /\ Jobs'
    BY <1>1, <1>2, <1>3, <2>1 DEF JobTyped, Jobs, Kept!Job
  <2> QED BY <1>1, <1>3, <2>2, CallIs, NothingSavedKeeps, InInv
<1>4. CASE ~data.silos[s].locked /\ Kept!Save([data EXCEPT !.silos[s].locked = TRUE])
  <2> DEFINE new == [data EXCEPT !.silos[s].locked = TRUE]
             r == [data.silos[s] EXCEPT !.locked = TRUE]
  <2>1. /\ Sound(new) /\ Kept!Present(new) = Kept!Present(data) /\ new.artifacts = data.artifacts
        /\ new.silos = [data.silos EXCEPT ![s] = r]
    BY <1>1, <1>2, LockedIs
  <2>2. r \in Kept!SiloRecords /\ r.locked = TRUE /\ Alike(data.silos[s], r)
    BY <1>2 DEF Kept!SiloRecords, Alike
  <2>3. Kept!Save(new)
    BY <1>4
  <2> HIDE DEF new, r
  <2>4. /\ new.silos[s] = r
        /\ \A t \in Kept!Present(data) : Alike(data.silos[t], new.silos[t])
    <3>1. new.silos[s] = r
      BY <1>1, <2>1, HeldAt
    <3>2. \A t \in Kept!Present(data) : Alike(data.silos[t], new.silos[t])
      BY <1>1, <2>1, <2>2, HeldIsAlike
    <3> QED BY <3>1, <3>2
  <2>5. JobTyped' /\ Jobs'
    <3>1. CASE job' = Kept!NoJob
      BY <3>1 DEF JobTyped, Jobs, Kept!NoJob
    <3>2. CASE job' # Kept!NoJob
      <4>1. data'.silos[s].locked /\ job' = Kept!Job("launch", s, data'.silos[s])
        BY <1>1, <3>2
      <4>2. data' \in {data, new}
        BY <2>3 DEF Kept!Save
      <4>3. s \in Kept!Present(data') /\ data'.silos[s] \in Kept!SiloRecords
        BY <1>1, <1>2, <2>1, <2>2, <2>4, <4>2
      <4> QED BY <1>1, <4>1, <4>3 DEF JobTyped, Jobs, Kept!Job
    <3> QED BY <3>1, <3>2
  <2> QED BY <1>1, <2>1, <2>3, <2>4, <2>5, CallIs, EditKeeps, InInv
<1> QED BY <1>3, <1>4 DEF Kept!Launch

-----------------------------------------------------------------------------
(* A provisioning ends *)

\* An identity is replaced only while it is not locked.
LEMMA FinishReplaceKeeps ==
  ASSUME Kept!SilosAssumption, SilosInv, Kept!FinishReplace
  PROVE Keeps
<1> DEFINE s == job.silo
<1>1. /\ job.op = "replace" /\ job' = Kept!NoJob /\ Kept!TreesKept /\ UNCHANGED <<backup, born, fresh, calls>>
  BY DEF Kept!FinishReplace
<1>2. /\ JobTyped' /\ Jobs'
      /\ s \in Kept!AllSilos /\ job.plan \in Kept!SiloRecords
  BY <1>1, InInv DEF Kept!NoJob, JobTyped, Jobs
<1>3. CASE Kept!NotSaved
  BY <1>1, <1>2, <1>3, NothingSavedKeeps, InInv
<1>4. CASE ~Kept!NotSaved
  <2>1. PICK raw \in {0, 1} :
          /\ s \in Kept!Present(data) /\ ~data.silos[s].locked
          /\ Kept!Save(Kept!Replaced(data, s, [data.silos[s] EXCEPT !.identity = job.plan.identity,
                                           !.seed = job.plan.seed, !.raw = raw]))
    BY <1>4 DEF Kept!FinishReplace
  <2> DEFINE r == [data.silos[s] EXCEPT !.identity = job.plan.identity,
                                           !.seed = job.plan.seed, !.raw = raw]
             new == Kept!Replaced(data, s, r)
  <2>2. data.silos[s] \in Kept!SiloRecords /\ Sound(data)
    BY <2>1, InInv DEF SilosInv
  <2>3. r \in Kept!SiloRecords /\ r.locked = data.silos[s].locked
    BY <1>2, <2>2, InRecord DEF Kept!SiloRecords
  <2>4. Kept!Save(new)
    BY <2>1
  <2> HIDE DEF r, s
  <2>5. PICK q : Likens(r, q) /\ Carries(data, s, q, new) /\ Sound(new)
    BY <2>1, <2>2, <2>3, ReplacedIs
  <2> HIDE DEF new
  <2>6. /\ new.silos = [data.silos EXCEPT ![s] = q] /\ Kept!Present(new) = Kept!Present(data)
        /\ new.artifacts \subseteq data.artifacts \cup {Kept!ArtifactOf(q)}
    BY <2>1, <2>5 DEF Carries
  <2>7. Alike(data.silos[s], q)
    BY <2>1, <2>3, <2>5 DEF Alike, Likens
  <2>8. \A t \in Kept!Present(data) : Alike(data.silos[t], new.silos[t])
    BY <2>1, <2>6, <2>7, HeldIsAlike
  <2> QED BY <1>1, <1>2, <2>4, <2>5, <2>6, <2>8, EditKeeps, InInv
<1> QED BY <1>3, <1>4

\* The plan holds the seed and the identity that were locked.
LEMMA FinishRebindKeeps ==
  ASSUME Kept!SilosAssumption, SilosInv, Kept!FinishRebind
  PROVE Keeps
<1> DEFINE s == job.silo
<1>1. /\ job.op = "rebind" /\ job' = Kept!NoJob /\ Kept!TreesKept /\ UNCHANGED <<backup, born, fresh, calls>>
  BY DEF Kept!FinishRebind
<1>2. /\ JobTyped' /\ Jobs'
      /\ s \in Kept!AllSilos /\ job.plan \in Kept!SiloRecords
      /\ Rebinding(data)
  BY <1>1, InInv DEF Kept!NoJob, JobTyped, Jobs, SilosInv
<1>3. CASE Kept!NotSaved
  BY <1>1, <1>2, <1>3, NothingSavedKeeps, InInv
<1>4. CASE ~Kept!NotSaved
  <2>1. PICK raw \in {0, 1} :
          /\ s \in Kept!Present(data)
          /\ Kept!Save(Kept!Replaced(data, s, [job.plan EXCEPT !.raw = raw, !.locked = data.silos[s].locked]))
    BY <1>4 DEF Kept!FinishRebind
  <2> DEFINE r == [job.plan EXCEPT !.raw = raw, !.locked = data.silos[s].locked]
             new == Kept!Replaced(data, s, r)
  <2>2. data.silos[s] \in Kept!SiloRecords /\ Sound(data)
    BY <2>1, InInv DEF SilosInv
  <2>3. /\ r \in Kept!SiloRecords /\ r.locked = data.silos[s].locked
        /\ r.seed = job.plan.seed /\ r.identity = job.plan.identity
    BY <1>2, <2>2, InRecord DEF Kept!SiloRecords
  <2>4. Kept!Save(new)
    BY <2>1
  <2>5. /\ data.silos[s].locked => /\ data.silos[s].seed = job.plan.seed
                                   /\ backup = None => data.silos[s].identity = job.plan.identity
    BY <1>2, <2>1 DEF Rebinding
  <2> HIDE DEF r, s
  <2>6. PICK q : Likens(r, q) /\ Carries(data, s, q, new) /\ Sound(new)
    BY <2>1, <2>2, <2>3, ReplacedIs
  <2> HIDE DEF new
  <2>7. /\ new.silos = [data.silos EXCEPT ![s] = q] /\ Kept!Present(new) = Kept!Present(data)
        /\ new.artifacts \subseteq data.artifacts \cup {Kept!ArtifactOf(q)}
    BY <2>1, <2>6 DEF Carries
  <2>8. Alike(data.silos[s], q)
    BY <2>3, <2>5, <2>6 DEF Alike, Likens
  <2>9. \A t \in Kept!Present(data) : Alike(data.silos[t], new.silos[t])
    BY <2>1, <2>7, <2>8, HeldIsAlike
  <2> QED BY <1>1, <1>2, <2>4, <2>6, <2>7, <2>9, EditKeeps, InInv
<1> QED BY <1>3, <1>4

-----------------------------------------------------------------------------
(* Steps that move trees *)

\* Trees and records are of known Silos.
LEMMA TreesKnown ==
  ASSUME SilosInv
  PROVE /\ \A s \in Kept!AllSilos : home[s] # "none" \/ quarantine[s] # "none" => s \in born
        /\ Kept!Present(data) \subseteq born /\ Kept!Present(disk) \subseteq born
BY DEF SilosInv, Known

\* A new Silo with its tree, or a tree without its Silo.
LEMMA FinishCreateKeeps ==
  ASSUME Kept!SilosAssumption, SilosInv, Kept!FinishCreate
  PROVE Keeps
<1> DEFINE s == job.silo
<1>1. /\ job.op = "create" /\ job' = Kept!NoJob /\ UNCHANGED <<quarantine, backup, fresh, calls>>
      /\ born' = born \cup {s}
      /\ home' = [home EXCEPT ![s] = "clean"] \/ home' = home
  BY DEF Kept!FinishCreate
<1>2. /\ JobTyped' /\ Jobs'
      /\ s \in Kept!AllSilos /\ job.plan \in Kept!SiloRecords /\ s \notin born
  BY <1>1, InInv DEF Kept!NoJob, JobTyped, Jobs, SilosInv
<1>3. /\ home[s] = "none" /\ quarantine[s] = "none" /\ s \notin Kept!Present(data)
      /\ backup # None => s \notin Kept!Present(backup)
  BY <1>2, TreesKnown DEF SilosInv, Backed
<1> HIDE DEF s
<1>4. /\ home' \in [Kept!AllSilos -> Kept!Trees] /\ home'[s] # "used"
      /\ \A t \in Kept!AllSilos \ {s} : home'[t] = home[t]
  BY <1>1, <1>2, <1>3, InInv DEF Kept!Trees
<1>5. ASSUME NEW new, NEW x, Sound(new), Kept!Save(new) \/ Kept!NotSaved,
             Kept!Present(new) \subseteq Kept!Present(data) \cup {s},
             \A t \in Kept!Present(data) : new.silos[t] = data.silos[t],
             new.artifacts \subseteq AllArtifacts \cup {x}
      PROVE Keeps
  <2>1. Follows(data, new)
    <3>1. \A t \in Kept!Present(data) \cap Kept!Present(new) : Alike(data.silos[t], new.silos[t])
      BY <1>5, AlikeItself
    <3> QED BY <3>1, AlikeFollows
  <2>2. backup # None => Kept!LocksKept(backup, new)
    BY <1>3, <1>5, <2>1, BackupFollows
  <2>3. data' \in {data, new} /\ (doubts' = 0 => doubts = 0)
    BY <1>1, <1>5, <2>1, <2>2, Saving
  <2>4. UsedIsLocked'
    <3> SUFFICES ASSUME doubts = 0, NEW t \in Kept!AllSilos
                 PROVE /\ home'[t] = "used" => t \in Kept!Present(data') /\ data'.silos[t].locked
                       /\ quarantine'[t] = "used" /\ home'[t] = "none" /\ t \in Kept!Present(data')
                            => data'.silos[t].locked
      BY <2>3 DEF UsedIsLocked
    <3>1. CASE t = s
      BY <1>1, <1>3, <1>4, <3>1
    <3>2. CASE t # s
      <4>1. /\ home'[t] = home[t] /\ quarantine'[t] = quarantine[t]
            /\ t \in Kept!Present(data') <=> t \in Kept!Present(data)
            /\ t \in Kept!Present(data) => data'.silos[t] = data.silos[t]
        <5>1. t \in Kept!Present(data) => t \in Kept!Present(new)
          BY <1>5 DEF Kept!Present
        <5> QED BY <1>1, <1>4, <1>5, <2>3, <3>2, <5>1
      <4> QED BY <4>1 DEF SilosInv, Certain, UsedIsLocked
    <3> QED BY <3>1, <3>2
  <2>5. ProfilesStay
    BY <1>1, <1>3, <1>4 DEF ProfilesStay
  <2>6. /\ Kept!Present(new) \subseteq born' /\ born \subseteq born' /\ born' \subseteq Kept!AllSilos
        /\ \A t \in Kept!AllSilos : home'[t] # "none" \/ quarantine'[t] # "none" => t \in born'
    BY <1>1, <1>2, <1>4, <1>5, TreesKnown, InInv
  <2> QED BY <1>1, <1>2, <1>4, <1>5, <2>1, <2>2, <2>4, <2>5, <2>6, InInv, StepKeeps
<1>6. CASE Kept!NotSaved
  <2>1. Sound(data) /\ data.artifacts \subseteq AllArtifacts \cup {None}
    BY DEF SilosInv, AllArtifacts
  <2> QED BY <1>5, <1>6, <2>1
<1>7. CASE ~Kept!NotSaved
  <2>1. PICK raw \in {0, 1} : Kept!Save(Kept!WithSilo(data, s, [job.plan EXCEPT !.raw = raw]))
    BY <1>7 DEF Kept!FinishCreate, s
  <2> DEFINE r == [job.plan EXCEPT !.raw = raw]
             new == Kept!WithSilo(data, s, r)
  <2>2. r \in Kept!SiloRecords /\ Sound(data)
    BY <1>2 DEF Kept!SiloRecords, SilosInv
  <2>3. Kept!Save(new)
    BY <2>1
  <2> HIDE DEF r
  <2>4. PICK q : Carries(data, s, q, new) /\ Sound(new)
    BY <1>2, <1>3, <2>2, WithSiloIs
  <2> HIDE DEF new
  <2>5. /\ Kept!Present(new) \subseteq Kept!Present(data) \cup {s}
        /\ new.artifacts \subseteq AllArtifacts \cup {Kept!ArtifactOf(q)}
        /\ new.silos = [data.silos EXCEPT ![s] = q]
    BY <2>4 DEF Carries, AllArtifacts
  <2>6. \A t \in Kept!Present(data) : new.silos[t] = data.silos[t]
    <3>1. data.silos \in [Kept!AllSilos -> Kept!SiloRecords \cup {None}]
      BY InInv, InVault
    <3> QED BY <1>3, <2>5, <3>1 DEF Kept!Present
  <2> QED BY <1>5, <2>3, <2>4, <2>5, <2>6
<1> QED BY <1>6, <1>7

\* A profile is used only under the lock of its identity.
LEMMA BeginRunKeeps ==
  ASSUME Kept!SilosAssumption, SilosInv, Kept!BeginRun
  PROVE Keeps
<1> DEFINE s == job.silo
           new == [data EXCEPT !.runs = @ \cup {s}]
<1>1. /\ job.op = "launch" /\ job' = Kept!NoJob /\ UNCHANGED <<quarantine, backup, born, fresh, calls>>
      /\ Kept!Save(new) \/ Kept!NotSaved
      /\ home' = home \/ (home[s] # "none" /\ home' = [home EXCEPT ![s] = "used"])
  BY DEF Kept!BeginRun
<1>2. /\ JobTyped' /\ Jobs'
      /\ s \in Kept!AllSilos /\ s \in Kept!Present(data) /\ data.silos[s].locked
  BY <1>1, InInv DEF Kept!NoJob, JobTyped, Jobs, SilosInv
<1>3. Sound(data) /\ data \in Kept!Vaults /\ data.artifacts \subseteq AllArtifacts
  BY DEF SilosInv, Sound, AllArtifacts
<1> HIDE DEF s
<1>4. /\ new \in Kept!Vaults /\ new.silos = data.silos /\ new.artifacts = data.artifacts
      /\ new.secrets = data.secrets /\ new.runs = data.runs \cup {s} /\ new.evidence = data.evidence
  BY <1>2, <1>3 DEF Kept!Vaults
<1> HIDE DEF new
<1>5. Sound(new) /\ Kept!Present(new) = Kept!Present(data)
  BY <1>2, <1>3, <1>4, OfSilos DEF Sound
<1>6. Follows(data, new)
  BY <1>4, AlikeItself, AlikeFollows
<1>7. backup # None => Kept!LocksKept(backup, new)
  BY <1>5, <1>6, BackupFollows
<1>8. data' \in {data, new} /\ (doubts' = 0 => doubts = 0)
  BY <1>1, <1>5, <1>6, <1>7, Saving
<1>9. /\ home' \in [Kept!AllSilos -> Kept!Trees]
      /\ \A t \in Kept!AllSilos : home'[t] = home[t] \/ (t = s /\ home[s] # "none" /\ home'[s] = "used")
  BY <1>1, <1>2, InInv DEF Kept!Trees
<1>10. UsedIsLocked'
  <2>1. data'.silos = data.silos /\ Kept!Present(data') = Kept!Present(data)
    BY <1>4, <1>5, <1>8
  <2> QED BY <1>1, <1>2, <1>8, <1>9, <2>1 DEF SilosInv, Certain, UsedIsLocked
<1>11. ProfilesStay
  BY <1>1, <1>9 DEF ProfilesStay
<1>12. /\ Kept!Present(new) \subseteq born
       /\ \A t \in Kept!AllSilos : home'[t] # "none" \/ quarantine'[t] # "none" => t \in born'
  BY <1>1, <1>5, <1>9, TreesKnown
<1> QED BY <1>1, <1>2, <1>3, <1>4, <1>5, <1>6, <1>7, <1>9, <1>10, <1>11, <1>12, InInv, StepKeeps

\* A profile is set aside.
LEMMA StartDeleteKeeps ==
  ASSUME Kept!SilosAssumption, SilosInv, NEW s \in Kept!AllSilos, Kept!StartDelete(s)
  PROVE Keeps
<1>1. /\ s \in Kept!Present(data) /\ Kept!Call /\ Kept!NotSaved /\ UNCHANGED <<backup, born, fresh>>
      /\ job' = Kept!Job("delete", s, data.silos[s])
      /\ \/ home[s] = "none" /\ home' = home /\ quarantine' = quarantine
         \/ /\ home[s] # "none" /\ quarantine[s] = "none"
            /\ quarantine' = [quarantine EXCEPT ![s] = home[s]]
            /\ home' = [home EXCEPT ![s] = "none"]
  BY DEF Kept!StartDelete, Kept!Inactive, Kept!TreesKept
<1>2. data' = data /\ disk' = disk /\ doubts' = doubts /\ data.silos[s] \in Kept!SiloRecords
  BY <1>1, InInv DEF Kept!NotSaved
<1>3. /\ home' \in [Kept!AllSilos -> Kept!Trees] /\ quarantine' \in [Kept!AllSilos -> Kept!Trees]
      /\ home'[s] = "none"
      /\ quarantine'[s] \in {quarantine[s], home[s]}
      /\ \A t \in Kept!AllSilos \ {s} : home'[t] = home[t] /\ quarantine'[t] = quarantine[t]
      /\ {home'[s], quarantine'[s]} = {home[s], quarantine[s]}
  BY <1>1, InInv DEF Kept!Trees
<1>4. JobTyped' /\ Jobs'
  BY <1>1, <1>2, <1>3 DEF JobTyped, Jobs, Kept!Job
<1>5. ProfilesStay
  BY <1>3 DEF ProfilesStay
<1>6. UsedIsLocked'
  <2> SUFFICES ASSUME doubts = 0, NEW t \in Kept!AllSilos
               PROVE /\ home'[t] = "used" => t \in Kept!Present(data) /\ data.silos[t].locked
                     /\ quarantine'[t] = "used" /\ home'[t] = "none" /\ t \in Kept!Present(data)
                          => data.silos[t].locked
    BY <1>2 DEF UsedIsLocked
  <2>1. /\ home[t] = "used" => t \in Kept!Present(data) /\ data.silos[t].locked
        /\ quarantine[t] = "used" /\ home[t] = "none" /\ t \in Kept!Present(data)
             => data.silos[t].locked
    BY DEF SilosInv, Certain, UsedIsLocked
  <2>2. CASE t # s
    BY <1>3, <2>1, <2>2
  <2>3. CASE t = s
    BY <1>1, <1>3, <2>1, <2>3, InInv
  <2> QED BY <2>2, <2>3
<1>7. /\ Sound(data) /\ data.artifacts \subseteq AllArtifacts /\ Follows(data, data)
      /\ backup # None => Kept!LocksKept(backup, data)
      /\ Kept!Present(data) \subseteq born
      /\ \A t \in Kept!AllSilos : home'[t] # "none" \/ quarantine'[t] # "none" => t \in born'
  <2>1. s \in born
    BY <1>1, TreesKnown
  <2>2. \A t \in Kept!AllSilos \ {s} : home'[t] # "none" \/ quarantine'[t] # "none" => t \in born'
    BY <1>1, <1>3, TreesKnown
  <2> QED BY <1>1, <2>1, <2>2, FollowsItself, TreesKnown DEF SilosInv, AllArtifacts, Backed
<1> QED BY <1>1, <1>3, <1>4, <1>5, <1>6, <1>7, CallIs, InInv, StepKeeps

\* A profile that was set aside is removed after its Silo, or put back.
LEMMA FinishDeleteKeeps ==
  ASSUME Kept!SilosAssumption, SilosInv, Kept!FinishDelete
  PROVE Keeps
<1> DEFINE s == job.silo
           new == Kept!Without(data, s)
<1>1. /\ job.op = "delete" /\ job' = Kept!NoJob /\ UNCHANGED <<backup, born, fresh, calls>>
      /\ Kept!Save(new) \/ Kept!NotSaved
      /\ IF s \in Kept!Present(data')
         THEN IF quarantine[s] # "none" THEN Kept!MoveBack(s) ELSE Kept!TreesKept
         ELSE Kept!Remove(s) \/ Kept!TreesKept
  BY DEF Kept!FinishDelete
<1>2. /\ JobTyped' /\ Jobs'
      /\ s \in Kept!AllSilos /\ s \in Kept!Present(data) /\ home[s] = "none"
  BY <1>1, InInv DEF Kept!NoJob, JobTyped, Jobs, SilosInv
<1>3. Sound(data) /\ data.artifacts \subseteq AllArtifacts
  BY DEF SilosInv, AllArtifacts
<1> HIDE DEF s
<1>4. /\ Sound(new) /\ Kept!Present(new) = Kept!Present(data) \ {s}
      /\ new.silos = [data.silos EXCEPT ![s] = None]
      /\ new.artifacts \subseteq AllArtifacts
  BY <1>2, <1>3, WithoutIs
<1> HIDE DEF new
<1>5. /\ \A t \in Kept!AllSilos \ {s} : new.silos[t] = data.silos[t]
      /\ new.silos[s] = None
  <2>1. data.silos \in [Kept!AllSilos -> Kept!SiloRecords \cup {None}]
    BY InInv, InVault
  <2> QED BY <1>2, <1>4, <2>1
<1>6. Follows(data, new)
  <2>1. \A t \in Kept!Present(data) \cap Kept!Present(new) : Alike(data.silos[t], new.silos[t])
    <3> SUFFICES ASSUME NEW t \in Kept!Present(data) \cap Kept!Present(new)
                 PROVE Alike(data.silos[t], new.silos[t])
      OBVIOUS
    <3>1. t \in Kept!AllSilos \ {s}
      BY <1>4 DEF Kept!Present
    <3>2. new.silos[t] = data.silos[t]
      BY <1>5, <3>1
    <3> QED BY <3>2, AlikeItself
  <2> QED BY <2>1, AlikeFollows
<1>7. backup # None => Kept!LocksKept(backup, new)
  BY <1>4, <1>6, BackupFollows
<1>8. /\ data' \in {data, new} /\ (doubts' = 0 => doubts = 0)
      /\ data' = new /\ data # new => disk' = new
  BY <1>1, <1>4, <1>6, <1>7, Saving DEF Kept!Save, Kept!NotSaved
<1>9. /\ \A t \in Kept!AllSilos \ {s} : home'[t] = home[t] /\ quarantine'[t] = quarantine[t]
      /\ home' \in [Kept!AllSilos -> Kept!Trees] /\ quarantine' \in [Kept!AllSilos -> Kept!Trees]
  BY <1>1, <1>2, InInv DEF Kept!MoveBack, Kept!Remove, Kept!TreesKept, Kept!Trees
<1>10. CASE s \in Kept!Present(data')
  <2>1. data' = data
    BY <1>4, <1>8, <1>10
  <2>2. /\ \/ home'[s] = quarantine[s] /\ quarantine'[s] = "none"
           \/ home'[s] = home[s] /\ quarantine'[s] = quarantine[s]
    BY <1>1, <1>2, <1>10, InInv DEF Kept!MoveBack, Kept!TreesKept
  <2>3. UsedIsLocked'
    <3> SUFFICES ASSUME doubts = 0, NEW t \in Kept!AllSilos
                 PROVE /\ home'[t] = "used" => t \in Kept!Present(data) /\ data.silos[t].locked
                       /\ quarantine'[t] = "used" /\ home'[t] = "none" /\ t \in Kept!Present(data)
                            => data.silos[t].locked
      BY <1>8, <2>1 DEF UsedIsLocked
    <3>1. /\ home[t] = "used" => t \in Kept!Present(data) /\ data.silos[t].locked
          /\ quarantine[t] = "used" /\ home[t] = "none" /\ t \in Kept!Present(data)
               => data.silos[t].locked
      BY DEF SilosInv, Certain, UsedIsLocked
    <3>2. CASE t # s
      BY <1>9, <3>1, <3>2
    <3>3. CASE t = s
      BY <1>2, <2>2, <3>1, <3>3
    <3> QED BY <3>2, <3>3
  <2>4. ProfilesStay
    BY <1>2, <1>9, <2>2 DEF ProfilesStay
  <2>5. \A t \in Kept!AllSilos : home'[t] # "none" \/ quarantine'[t] # "none" => t \in born'
    BY <1>1, <1>2, <1>9, <2>2, TreesKnown
  <2>6. Kept!Present(new) \subseteq born
    BY <1>4, TreesKnown
  <2>7. fresh' \in 0..MaxFresh /\ calls' \in 0..MaxCalls /\ born' \subseteq Kept!AllSilos
        /\ calls' = calls /\ born' = born /\ backup' = backup
    BY <1>1, <1>2, InInv
  <2>8. Kept!Save(new) \/ Kept!NotSaved
    BY <1>1
  <2>9. new.artifacts \subseteq AllArtifacts /\ Sound(new)
    BY <1>4
  <2>10. \A x : new.artifacts \subseteq AllArtifacts \cup {x}
    BY <2>9
  <2>11. Kept!Present(new) \subseteq born' /\ born \subseteq born'
    BY <2>6, <2>7
  <2>12. JobTyped' /\ Jobs' /\ home' \in [Kept!AllSilos -> Kept!Trees] /\ quarantine' \in [Kept!AllSilos -> Kept!Trees]
    BY <1>2, <1>9
  <2> QED BY <1>6, <1>7, <2>3, <2>4, <2>5, <2>7, <2>8, <2>9, <2>10, <2>11, <2>12, StepKeeps
<1>11. CASE s \notin Kept!Present(data')
  <2>1. data' = new /\ disk' = new
    BY <1>2, <1>8, <1>11
  <2>2. home' = home /\ quarantine'[s] \in {"none", quarantine[s]}
    BY <1>1, <1>2, <1>11, InInv DEF Kept!Remove, Kept!TreesKept
  <2>3. UsedIsLocked'
    <3> SUFFICES ASSUME doubts = 0, NEW t \in Kept!AllSilos
                 PROVE /\ home[t] = "used" => t \in Kept!Present(new) /\ new.silos[t].locked
                       /\ quarantine'[t] = "used" /\ home[t] = "none" /\ t \in Kept!Present(new)
                            => new.silos[t].locked
      BY <1>8, <2>1, <2>2 DEF UsedIsLocked
    <3>1. /\ home[t] = "used" => t \in Kept!Present(data) /\ data.silos[t].locked
          /\ quarantine[t] = "used" /\ home[t] = "none" /\ t \in Kept!Present(data)
               => data.silos[t].locked
      BY DEF SilosInv, Certain, UsedIsLocked
    <3>2. CASE t # s
      BY <1>4, <1>5, <1>9, <3>1, <3>2
    <3>3. CASE t = s
      BY <1>2, <1>4, <3>3
    <3> QED BY <3>2, <3>3
  <2>4. ProfilesStay
    BY <1>5, <1>9, <2>1, <2>2 DEF ProfilesStay
  <2>5. \A t \in Kept!AllSilos : home'[t] # "none" \/ quarantine'[t] # "none" => t \in born'
    BY <1>1, <1>2, <1>9, <2>2, TreesKnown
  <2>6. Kept!Present(new) \subseteq born
    BY <1>4, TreesKnown
  <2>7. fresh' \in 0..MaxFresh /\ calls' \in 0..MaxCalls /\ born' \subseteq Kept!AllSilos
        /\ calls' = calls /\ born' = born /\ backup' = backup
    BY <1>1, <1>2, InInv
  <2>8. Kept!Save(new) \/ Kept!NotSaved
    BY <1>1
  <2>9. new.artifacts \subseteq AllArtifacts /\ Sound(new)
    BY <1>4
  <2>10. \A x : new.artifacts \subseteq AllArtifacts \cup {x}
    BY <2>9
  <2>11. Kept!Present(new) \subseteq born' /\ born \subseteq born'
    BY <2>6, <2>7
  <2>12. JobTyped' /\ Jobs' /\ home' \in [Kept!AllSilos -> Kept!Trees] /\ quarantine' \in [Kept!AllSilos -> Kept!Trees]
    BY <1>2, <1>9
  <2> QED BY <1>6, <1>7, <2>3, <2>4, <2>5, <2>7, <2>8, <2>9, <2>10, <2>11, <2>12, StepKeeps
<1> QED BY <1>10, <1>11

-----------------------------------------------------------------------------
(* Backup, restore and restart *)

\* A backup is what memory holds, and what the disk holds after it.
LEMMA BackupKeeps ==
  ASSUME Kept!SilosAssumption, SilosInv, Kept!Backup
  PROVE Keeps
<1>1. /\ job = Kept!NoJob /\ Kept!Call /\ data' = data /\ disk' = data /\ backup' = data
      /\ (doubts' = doubts \/ (doubts < MaxDoubts /\ doubts' = doubts + 1))
      /\ UNCHANGED <<home, quarantine, job, born, fresh>>
  BY DEF Kept!Backup, Kept!Save, Kept!TreesKept, Kept!Idle
<1>2. Sound(data) /\ data \in Kept!Vaults /\ data # None
  BY DEF SilosInv, Sound, Kept!SilosAssumption
<1>3. doubts' \in 0..MaxDoubts /\ (doubts' = 0 => doubts = 0)
  BY <1>1, InInv DEF Kept!SilosAssumption
<1>4. Kept!TypeOK'
  BY <1>1, <1>2, <1>3, CallIs, InInv DEF Kept!TypeOK, JobTyped
<1>5. Known'
  BY <1>1 DEF SilosInv, Known
<1>6. Backed'
  BY <1>1, <1>2, FollowsItself, TreesKnown DEF Backed
<1>7. Counted'
  <2>1. AllArtifacts' \subseteq AllArtifacts
    BY <1>1 DEF AllArtifacts
  <2> QED BY <2>1, Counting
<1>8. (Follows(data, disk))'
  BY <1>1 DEF Follows, Kept!LocksKept, Kept!IdentityKept
<1>9. Jobs'
  BY <1>1 DEF Jobs, Kept!NoJob
<1>10. Certain'
  BY <1>1, <1>3 DEF SilosInv, Certain, UsedIsLocked
<1>11. LocksStay /\ ProfilesStay
  BY <1>1 DEF LocksStay, ProfilesStay, Kept!LocksKept, Kept!IdentityKept
<1> QED BY <1>1, <1>2, <1>4, <1>5, <1>6, <1>7, <1>8, <1>9, <1>10, <1>11 DEF Keeps, SilosInv

\* A restore keeps locks, and brings no tree but a clean one.
LEMMA RestoreKeeps ==
  ASSUME Kept!SilosAssumption, SilosInv, Kept!Restore
  PROVE Keeps
<1> DEFINE new == Kept!Merged(backup)
<1>1. /\ job = Kept!NoJob /\ Kept!Call /\ backup # None /\ (Kept!Save(new) \/ Kept!NotSaved)
      /\ \A s \in Kept!Present(data) : ~Kept!LockConflicts(s, backup)
      /\ home' = [s \in Kept!AllSilos |-> IF s \in Kept!Present(backup) /\ home[s] = "none"
                                     THEN "clean" ELSE home[s]]
      /\ UNCHANGED <<quarantine, job, backup, born, fresh>>
  BY DEF Kept!Restore, Kept!Idle
<1>2. /\ Sound(data) /\ Sound(backup) /\ Kept!Present(backup) \subseteq born
      /\ Kept!LocksKept(backup, data)
      /\ data.artifacts \subseteq AllArtifacts /\ backup.artifacts \subseteq AllArtifacts
  BY <1>1 DEF SilosInv, Backed, AllArtifacts
<1>3. \A s \in Kept!Present(data) : data.silos[s].locked =>
        s \in Kept!Present(backup) /\ backup.silos[s].seed = data.silos[s].seed
  BY <1>1 DEF Kept!LockConflicts, Kept!Present
<1>4. /\ Sound(new) /\ Kept!Present(new) = Kept!Present(backup)
      /\ new.artifacts = backup.artifacts \cup Kept!Bound(data)
      /\ \A s \in Kept!AllSilos : new.silos[s] =
           IF s \in Kept!Present(data) /\ data.silos[s].locked
           THEN [backup.silos[s] EXCEPT !.locked = TRUE] ELSE backup.silos[s]
  BY <1>2, <1>3, MergedIs
<1> HIDE DEF new
<1>5. new.artifacts \subseteq AllArtifacts
  BY <1>2, <1>4 DEF Sound
<1>6. ASSUME NEW s \in Kept!Present(backup)
      PROVE /\ new.silos[s].seed = backup.silos[s].seed
            /\ s \in Kept!Present(data) /\ data.silos[s].locked => new.silos[s].locked
            /\ ~(s \in Kept!Present(data) /\ data.silos[s].locked) => new.silos[s] = backup.silos[s]
            /\ backup.silos[s].locked => new.silos[s].locked
  <2>1. backup.silos[s] \in Kept!SiloRecords /\ s \in Kept!AllSilos
    BY <1>2, InVault DEF Sound, Kept!Present
  <2>2. CASE s \in Kept!Present(data) /\ data.silos[s].locked
    <3>1. new.silos[s] = [backup.silos[s] EXCEPT !.locked = TRUE]
      BY <1>4, <2>1, <2>2
    <3>2. new.silos[s].locked = TRUE /\ new.silos[s].seed = backup.silos[s].seed
      BY <2>1, <3>1 DEF Kept!SiloRecords
    <3> QED BY <2>2, <3>2
  <2>3. CASE ~(s \in Kept!Present(data) /\ data.silos[s].locked)
    BY <1>4, <2>1, <2>3
  <2> QED BY <2>2, <2>3
<1>7. Follows(data, new)
  <2>1. ASSUME NEW s \in Kept!Present(data) \cap Kept!Present(new)
        PROVE Alike(data.silos[s], new.silos[s])
    <3>1. s \in Kept!Present(backup)
      BY <1>4
    <3>2. CASE data.silos[s].locked
      BY <1>1, <1>3, <1>6, <3>1, <3>2 DEF Alike
    <3>3. CASE ~data.silos[s].locked
      <4>1. ~backup.silos[s].locked
        BY <1>2, <3>1, <3>3 DEF Kept!LocksKept
      <4> QED BY <1>6, <3>1, <3>3, <4>1 DEF Alike
    <3> QED BY <3>2, <3>3
  <2> QED BY <2>1, AlikeFollows
<1>8. Kept!LocksKept(backup, new)
  BY <1>4, <1>6 DEF Kept!LocksKept
<1>9. data' \in {data, new} /\ (doubts' = 0 => doubts = 0)
  BY <1>1, <1>4, <1>7, <1>8, Saving
<1>10. /\ home' \in [Kept!AllSilos -> Kept!Trees]
       /\ \A s \in Kept!AllSilos : home'[s] = home[s] \/ (home'[s] = "clean" /\ home[s] = "none")
       /\ \A s \in Kept!Present(backup) : home'[s] # "none"
  <2>1. Kept!Present(backup) \subseteq Kept!AllSilos
    BY DEF Kept!Present
  <2> QED BY <1>1, <2>1, InInv DEF Kept!Trees
<1>11. UsedIsLocked'
  <2> SUFFICES ASSUME doubts = 0, NEW s \in Kept!AllSilos
               PROVE /\ home'[s] = "used" => s \in Kept!Present(data') /\ data'.silos[s].locked
                     /\ quarantine[s] = "used" /\ home'[s] = "none" /\ s \in Kept!Present(data')
                          => data'.silos[s].locked
    BY <1>1, <1>9 DEF UsedIsLocked
  <2>1. /\ home[s] = "used" => s \in Kept!Present(data) /\ data.silos[s].locked
        /\ quarantine[s] = "used" /\ home[s] = "none" /\ s \in Kept!Present(data)
             => data.silos[s].locked
    BY DEF SilosInv, Certain, UsedIsLocked
  <2>2. home'[s] = "used" => home[s] = "used"
    BY <1>10
  <2>3. home'[s] = "none" => home[s] = "none" /\ s \notin Kept!Present(backup)
    BY <1>10
  <2>4. CASE data' = data
    BY <2>1, <2>2, <2>3, <2>4
  <2>5. CASE data' = new
    BY <1>3, <1>4, <1>6, <2>1, <2>2, <2>3, <2>5
  <2> QED BY <1>9, <2>4, <2>5
<1>12. ProfilesStay
  BY <1>1, <1>10 DEF ProfilesStay
<1>13. /\ Kept!Present(new) \subseteq born
       /\ \A s \in Kept!AllSilos : home'[s] # "none" \/ quarantine'[s] # "none" => s \in born'
  <2>1. \A s \in Kept!AllSilos : home'[s] # "none" => home[s] # "none" \/ s \in Kept!Present(backup)
    BY <1>1
  <2> QED BY <1>1, <1>2, <1>4, <2>1, TreesKnown
<1>14. JobTyped' /\ Jobs'
  BY <1>1 DEF JobTyped, Jobs, Kept!NoJob
<1> QED BY <1>1, <1>4, <1>5, <1>7, <1>8, <1>10, <1>11, <1>12, <1>13, <1>14, CallIs, InInv, StepKeeps

\* What was written takes the place of what memory held.
LEMMA ReloadKeeps ==
  ASSUME Kept!SilosAssumption, SilosInv, Kept!Reload
  PROVE Keeps
<1>1. /\ data' = disk /\ UNCHANGED <<disk, backup, born, home, quarantine, fresh, calls, doubts>>
      /\ (job' = Kept!NoJob \/ (job' = job /\ job.op \in {"create", "replace", "rebind"}))
  BY DEF Kept!Reload, Kept!TreesKept, Kept!bounds
<1>2. /\ Sound(disk) /\ Follows(data, disk) /\ Follows(disk, disk)
      /\ backup # None => Kept!LocksKept(backup, disk)
  BY FollowsItself DEF SilosInv, Backed
<1>3. Kept!TypeOK'
  BY <1>1, InInv DEF Kept!TypeOK, JobTyped
<1>4. Known' /\ Backed'
  BY <1>1 DEF SilosInv, Known, Backed
<1>5. Counted'
  <2>1. AllArtifacts' \subseteq AllArtifacts
    BY <1>1 DEF AllArtifacts
  <2> QED BY <2>1, Counting
<1>6. (Follows(data, disk))'
  BY <1>1, <1>2 DEF Follows
<1>7. Jobs'
  <2>1. CASE job' = Kept!NoJob
    BY <2>1 DEF Jobs, Kept!NoJob
  <2>2. CASE job' = job /\ job.op \in {"create", "replace", "rebind"}
    <3>1. job.op = "rebind" => Rebinding(data)' /\ Rebinding(disk)'
      BY <1>1, <2>2 DEF SilosInv, Jobs, Rebinding
    <3> QED BY <1>1, <2>2, <3>1 DEF SilosInv, Jobs
  <2> QED BY <1>1, <2>1, <2>2
<1>8. Certain'
  BY <1>1 DEF SilosInv, Certain, UsedIsLocked
<1>9. LocksStay /\ ProfilesStay
  BY <1>1, <1>2 DEF LocksStay, ProfilesStay, Follows
<1> QED BY <1>1, <1>2, <1>3, <1>4, <1>5, <1>6, <1>7, <1>8, <1>9 DEF Keeps, SilosInv

-----------------------------------------------------------------------------
(* The specification *)

\* An empty Vault.
LEMMA SilosStart ==
  ASSUME Kept!SilosAssumption, Kept!Init PROVE SilosInv
<1>1. /\ data = Kept!EmptyVault /\ disk = Kept!EmptyVault /\ job = Kept!NoJob /\ backup = None /\ born = {}
      /\ home = [s \in Kept!AllSilos |-> "none"] /\ quarantine = [s \in Kept!AllSilos |-> "none"]
      /\ fresh = 0 /\ calls = 0 /\ doubts = 0
  BY DEF Kept!Init
<1>2. Kept!EmptyVault \in Kept!Vaults
  BY DEF Kept!EmptyVault, Kept!Vaults
<1>3. Kept!Present(Kept!EmptyVault) = {}
  BY DEF Kept!EmptyVault, Kept!Present
<1>4. Kept!Bound(Kept!EmptyVault) = {} /\ Kept!References(Kept!EmptyVault) = {}
  BY <1>3 DEF Kept!Bound, Kept!References
<1>5. /\ Sound(Kept!EmptyVault) /\ Kept!EmptyVault.artifacts = {}
  BY <1>2, <1>3, <1>4 DEF Sound, Kept!EmptyVault
<1>6. Kept!TypeOK
  BY <1>1, <1>2 DEF Kept!TypeOK, Kept!Trees, Kept!SilosAssumption
<1>7. Known /\ Backed /\ Jobs
  BY <1>1, <1>3 DEF Known, Backed, Jobs, Kept!NoJob
<1>8. Counted
  <2>1. AllArtifacts = {}
    BY <1>1, <1>5 DEF AllArtifacts
  <2> QED BY <2>1, FS_EmptySet DEF Counted
<1>9. Follows(data, disk)
  BY <1>1, FollowsItself
<1>10. Certain
  BY <1>1 DEF Certain, UsedIsLocked
<1> QED BY <1>1, <1>5, <1>6, <1>7, <1>8, <1>9, <1>10 DEF SilosInv

\* Every step, and what it may not do.
LEMMA SilosStep ==
  ASSUME Kept!SilosAssumption, SilosInv, [Kept!Next]_(Kept!vars) PROVE Keeps
<1>1. CASE UNCHANGED Kept!vars
  <2>1. UNCHANGED <<data, disk, home, quarantine, job, backup, born, fresh, calls, doubts>>
    BY <1>1 DEF Kept!vars
  <2>2. Kept!NotSaved /\ Kept!TreesKept
    BY <2>1 DEF Kept!NotSaved, Kept!TreesKept
  <2>3. JobTyped'
    BY <2>1, InInv DEF JobTyped
  <2>4. Jobs'
    BY <2>1 DEF SilosInv, Jobs, Rebinding
  <2> QED BY <2>1, <2>2, <2>3, <2>4, InInv, NothingSavedKeeps
<1>2. CASE Kept!Next
  BY <1>2, StartCreateKeeps, ChangeStockKeeps, StartReplaceKeeps, StartRebindKeeps,
     MetadataKeeps, LaunchKeeps, StartDeleteKeeps, FinishCreateKeeps, FinishReplaceKeeps,
     FinishRebindKeeps, BeginRunKeeps, FinishDeleteKeeps, BackupKeeps, RestoreKeeps, ReloadKeeps
     DEF Kept!Next
<1> QED BY <1>1, <1>2

\* What was saved is valid, keeps no secret too many, and a profile that was used is locked.
LEMMA SilosAreSafe ==
  ASSUME Kept!SilosAssumption, SilosInv
  PROVE Kept!TypeOK /\ Kept!VaultReopens /\ Kept!SecretsAreReferenced /\ Kept!UsedProfileIsLocked
<1>1. Kept!VaultReopens
  BY DEF Kept!VaultReopens, Kept!Consistent, SilosInv, Sound
<1>2. Kept!SecretsAreReferenced
  BY DEF Kept!SecretsAreReferenced, SilosInv, Sound
<1>3. Kept!UsedProfileIsLocked
  BY DEF Kept!UsedProfileIsLocked, SilosInv, Certain, UsedIsLocked
<1> QED BY <1>1, <1>2, <1>3 DEF SilosInv

-----------------------------------------------------------------------------
(* Seeds, by which the artifacts of two Silos differ *)

\* Who has which seed, in a Vault, or in what an operation under way will save.
Claims(v) == {<<s, v.silos[s].seed>> : s \in Kept!Present(v)}
Planned == IF job.op \in {"create", "replace", "rebind"} THEN {<<job.silo, job.plan.seed>>} ELSE {}
Claimed == Claims(data) \cup Claims(disk) \cup Planned
             \cup (IF backup = None THEN {} ELSE Claims(backup))

\* No two Silos ever have the same seed: every seed is drawn once.
Seeded == \A x, y \in Claimed : x[2] \in 1..fresh /\ (x[2] = y[2] => x[1] = y[1])

\* A seed that is drawn is new to everyone.
LEMMA SeedsGrow ==
  ASSUME Seeded, fresh \in Nat, fresh' \in Nat, NEW s,
         \/ Claimed' \subseteq Claimed /\ fresh' >= fresh
         \/ Claimed' \subseteq Claimed \cup {<<s, fresh + 1>>} /\ fresh' = fresh + 1
  PROVE Seeded'
<1>1. ASSUME NEW x \in Claimed', NEW y \in Claimed'
      PROVE x[2] \in 1..fresh' /\ (x[2] = y[2] => x[1] = y[1])
  <2> DEFINE drawn == <<s, fresh + 1>>
  <2>1. drawn[1] = s /\ drawn[2] = fresh + 1
    OBVIOUS
  <2> HIDE DEF drawn
  <2>2. \A z \in Claimed : z[2] \in 1..fresh
    BY DEF Seeded
  <2>3. CASE x \in Claimed /\ y \in Claimed
    BY <2>3 DEF Seeded
  <2>4. CASE x = drawn /\ fresh' = fresh + 1
    BY <1>1, <2>1, <2>2, <2>4 DEF drawn
  <2>5. CASE y = drawn /\ x \in Claimed /\ fresh' = fresh + 1
    BY <1>1, <2>1, <2>2, <2>5 DEF drawn
  <2> QED BY <1>1, <2>3, <2>4, <2>5 DEF drawn
<1> QED BY <1>1 DEF Seeded

\* Records that keep their seeds claim nothing new.
LEMMA ClaimsStay ==
  ASSUME NEW v, NEW w, Kept!Present(w) \subseteq Kept!Present(v),
         \A t \in Kept!Present(w) : w.silos[t].seed = v.silos[t].seed
  PROVE Claims(w) \subseteq Claims(v)
BY DEF Claims

\* A record that is put in claims its own seed.
LEMMA CarriedClaims ==
  ASSUME NEW v \in Kept!Vaults, NEW s \in Kept!AllSilos, NEW q, NEW w, Carries(v, s, q, w)
  PROVE Claims(w) \subseteq Claims(v) \cup {<<s, q.seed>>}
<1>1. v.silos \in [Kept!AllSilos -> Kept!SiloRecords \cup {None}]
  BY InVault
<1>2. /\ w.silos[s] = q /\ \A t \in Kept!AllSilos \ {s} : w.silos[t] = v.silos[t]
      /\ Kept!Present(w) = Kept!Present(v) \cup {s} /\ Kept!Present(v) \subseteq Kept!AllSilos
  BY <1>1, InVault DEF Carries
<1> QED BY <1>2 DEF Claims

\* A step that saves claims what it saves and what it plans.
LEMMA SeedsSaved ==
  ASSUME Kept!SilosAssumption, SilosInv, Seeded, NEW new, NEW s,
         Kept!Save(new) \/ Kept!NotSaved, Claims(new) \subseteq Claimed, backup' = backup,
         fresh' \in Nat,
         \/ Planned' \subseteq Claimed /\ fresh' >= fresh
         \/ Planned' \subseteq Claimed \cup {<<s, fresh + 1>>} /\ fresh' = fresh + 1
  PROVE Seeded'
<1>1. data' \in {data, new} /\ disk' \in {disk, new}
  BY DEF Kept!Save, Kept!NotSaved
<1>2. Claimed' \subseteq Claimed \cup Planned'
  <2>1. Claims(data)' \in {Claims(data), Claims(new)} /\ Claims(disk)' \in {Claims(disk), Claims(new)}
    BY <1>1 DEF Claims
  <2>2. (IF backup = None THEN {} ELSE Claims(backup))' = IF backup = None THEN {} ELSE Claims(backup)
    BY DEF Claims
  <2> QED BY <2>1, <2>2 DEF Claimed
<1> QED BY <1>2, SeedsGrow, InInv

\* A step that saves, and ends what was under way or leaves it, draws no seed.
LEMMA SeedsKept ==
  ASSUME Kept!SilosAssumption, SilosInv, Seeded, NEW new,
         Kept!Save(new) \/ Kept!NotSaved, Claims(new) \subseteq Claimed, backup' = backup,
         fresh' \in Nat, fresh' >= fresh,
         job' = job \/ job'.op \notin {"create", "replace", "rebind"}
  PROVE Seeded'
<1>1. Planned' \subseteq Claimed
  BY DEF Planned, Claimed
<1> QED BY <1>1, SeedsSaved

\* What the Vault in memory and a plan claim.
LEMMA ClaimsOf ==
  /\ Claims(data) \subseteq Claimed /\ Claims(disk) \subseteq Claimed
  /\ backup # None => Claims(backup) \subseteq Claimed
  /\ job.op \in {"create", "replace", "rebind"} => <<job.silo, job.plan.seed>> \in Claimed
BY DEF Claimed, Planned

-----------------------------------------------------------------------------
(* The number of artifacts *)

\* The number that the Vault's module counts is the number that the library's facts are about.
LEMMA Counts == ASSUME NEW S PROVE Kept!Cardinality(S) = Cardinality(S)
BY DEF Kept!Cardinality, Cardinality

\* A part of a finite set has no more elements.
LEMMA Fewer ==
  ASSUME NEW S, IsFiniteSet(S), NEW T \in SUBSET S
  PROVE /\ IsFiniteSet(T) /\ Cardinality(T) <= Cardinality(S)
        /\ Cardinality(T) \in Nat /\ Cardinality(S) \in Nat
BY FS_Subset, FS_CardinalityType

\* Artifacts have the same identifier if they are made from the same intent.
LEMMA SameIdIs ==
  ASSUME NEW x \in Kept!Artifacts, NEW y \in Kept!Artifacts
  PROVE Kept!SameId(x, y) <=>
          x.identity = y.identity /\ x.seed = y.seed /\ x.network = y.network
<1>1. /\ [x EXCEPT !.raw = 0] =
           [identity |-> x.identity, seed |-> x.seed, network |-> x.network, raw |-> 0]
      /\ [y EXCEPT !.raw = 0] =
           [identity |-> y.identity, seed |-> y.seed, network |-> y.network, raw |-> 0]
  BY DEF Kept!Artifacts
<1> QED BY <1>1 DEF Kept!SameId

\* An edit of a record adds an artifact only in place of the old one, as no other Silo has
\* the seed that the old one was made from.
LEMMA ReplacedDrops ==
  ASSUME Kept!SilosAssumption, NEW v, Sound(v), NEW s \in Kept!Present(v),
         NEW r \in Kept!SiloRecords,
         \A t \in Kept!Present(v) \ {s} : v.silos[t].seed # v.silos[s].seed
  PROVE LET w == Kept!Replaced(v, s, r) IN
          \/ w.artifacts \subseteq v.artifacts
          \/ \E old \in v.artifacts : \E x : w.artifacts \subseteq (v.artifacts \ {old}) \cup {x}
<1> DEFINE y == Kept!WithSilo(v, s, r)
           z == Kept!DropSecrets(y)
           old == Kept!ArtifactOf(v.silos[s])
           new == Kept!ArtifactOf(r)
           w == Kept!Replaced(v, s, r)
           like(x) == Kept!SameId(x, new)
<1>1. /\ v \in Kept!Vaults /\ s \in Kept!AllSilos /\ v.silos[s] \in Kept!SiloRecords
      /\ v.artifacts \subseteq Kept!Artifacts /\ Kept!Bound(v) \subseteq v.artifacts
      /\ v.silos \in [Kept!AllSilos -> Kept!SiloRecords \cup {None}]
  BY InVault DEF Sound, Kept!Present
<1>2. PICK q : Likens(r, q) /\ Carries(v, s, q, w)
  BY ReplacedIs
<1>3. CASE s \notin Managed
  BY <1>2, <1>3 DEF Carries
<1>4. CASE s \in Managed /\ \E x \in v.artifacts : like(x)
  <2> DEFINE first == CHOOSE x \in v.artifacts : like(x)
  <2>1. first \in v.artifacts /\ Kept!SameId(first, new)
    BY <1>4
  <2>2. Kept!FirstWriter(v, r) = [r EXCEPT !.raw = first.raw]
    BY <1>4 DEF Kept!FirstWriter
  <2> HIDE DEF first
  <2>3. Kept!ArtifactOf([r EXCEPT !.raw = first.raw]) = first
    <3>1. /\ first \in Kept!Artifacts /\ new \in Kept!Artifacts
          /\ new.identity = r.identity /\ new.seed = r.seed /\ new.network = r.network
      BY <1>1, <2>1, InRecord DEF Kept!ArtifactOf
    <3>2. first = [identity |-> r.identity, seed |-> r.seed, network |-> r.network,
                   raw |-> first.raw]
      <4> HIDE DEF new
      <4>1. first.identity = r.identity /\ first.seed = r.seed /\ first.network = r.network
        BY <2>1, <3>1, SameIdIs
      <4> QED BY <3>1, <4>1 DEF Kept!Artifacts
    <3> QED BY <3>2 DEF Kept!ArtifactOf, Kept!SiloRecords
  <2>4. y.artifacts = v.artifacts
    BY <1>1, <1>4, <2>1, <2>2, <2>3 DEF Kept!WithSilo, Kept!Vaults
  <2>5. w.artifacts \subseteq y.artifacts
    BY <1>1, <1>2 DEF Kept!Replaced, Kept!DropSecrets, Kept!DropArtifact, Kept!WithSilo,
                      Kept!Vaults
  <2> QED BY <2>4, <2>5
<1>5. CASE s \in Managed /\ ~\E x \in v.artifacts : like(x)
  <2>1. PICK p : Likens(r, p) /\ Carries(v, s, p, y)
    BY <1>1, WithSiloIs
  <2>2. Kept!FirstWriter(v, r) = r
    BY <1>5 DEF Kept!FirstWriter
  <2>3. y.silos = [v.silos EXCEPT ![s] = r] /\ y.artifacts = v.artifacts \cup {new}
    BY <1>1, <1>5, <2>2 DEF Kept!WithSilo, Kept!Vaults
  <2>4. w = Kept!DropArtifact(z, old)
    BY <1>5 DEF Kept!Replaced
  <2> HIDE DEF y
  <2>5. z.silos = y.silos /\ z.artifacts = y.artifacts /\ Kept!Present(z) = Kept!Present(v)
        /\ z \in Kept!Vaults
    BY <1>1, <2>1, DropsSecrets, OfSilos DEF Carries
  <2> HIDE DEF z, w
  <2>6. old \in v.artifacts /\ ~Kept!SameId(new, old)
    <3>1. old \in v.artifacts
      BY <1>1, <1>5 DEF Kept!Bound
    <3>2. new \in Kept!Artifacts /\ old \in Kept!Artifacts
      BY <1>1, InRecord
    <3>3. ~Kept!SameId(old, new)
      BY <1>5, <3>1
    <3> HIDE DEF new, old
    <3> QED BY <3>1, <3>2, <3>3, SameIdIs
  <2>7. ~\E x \in Kept!Bound(z) : Kept!SameId(x, old)
    <3> SUFFICES ASSUME NEW t \in Kept!Present(z) \cap Managed
                 PROVE ~Kept!SameId(Kept!ArtifactOf(z.silos[t]), old)
      BY DEF Kept!Bound
    <3>1. CASE t = s
      BY <1>1, <2>3, <2>5, <2>6, <3>1
    <3>2. CASE t # s
      <4>1. t \in Kept!AllSilos /\ v.silos[t] \in Kept!SiloRecords /\ z.silos[t] = v.silos[t]
        BY <1>1, <2>3, <2>5, <3>2, InVault DEF Kept!Present
      <4>2. v.silos[t].seed # v.silos[s].seed
        BY <2>5, <3>2
      <4>3. /\ Kept!ArtifactOf(v.silos[t]) \in Kept!Artifacts /\ old \in Kept!Artifacts
            /\ Kept!ArtifactOf(v.silos[t]).seed = v.silos[t].seed /\ old.seed = v.silos[s].seed
        BY <1>1, <4>1, InRecord DEF Kept!ArtifactOf
      <4> HIDE DEF old
      <4> QED BY <4>1, <4>2, <4>3, SameIdIs
    <3> QED BY <3>1, <3>2
  <2>8. w.artifacts = {x \in z.artifacts : ~Kept!SameId(x, old)}
    BY <2>4, <2>5, <2>7 DEF Kept!DropArtifact, Kept!Vaults
  <2>9. Kept!SameId(old, old)
    BY DEF Kept!SameId
  <2>10. w.artifacts \subseteq (v.artifacts \ {old}) \cup {new}
    <3> HIDE DEF old, new
    <3> QED BY <2>3, <2>5, <2>8, <2>9
  <2> QED BY <2>6, <2>10 DEF w
<1> QED BY <1>3, <1>4, <1>5 DEF w

\* Nor does it add to their number.
LEMMA ReplacedCounts ==
  ASSUME Kept!SilosAssumption, SilosInv, Seeded, NEW s \in Kept!Present(data),
         NEW r \in Kept!SiloRecords
  PROVE LET w == Kept!Replaced(data, s, r) IN
          Cardinality(w.artifacts) <= Cardinality(data.artifacts)
<1> DEFINE w == Kept!Replaced(data, s, r)
<1>1. Sound(data) /\ IsFiniteSet(data.artifacts)
  <2>1. data.artifacts \subseteq AllArtifacts
    BY DEF AllArtifacts
  <2> QED BY <2>1, FS_Subset DEF SilosInv, Counted
<1>2. \A t \in Kept!Present(data) \ {s} : data.silos[t].seed # data.silos[s].seed
  <2> SUFFICES ASSUME NEW t \in Kept!Present(data) \ {s}, data.silos[t].seed = data.silos[s].seed
               PROVE FALSE
    OBVIOUS
  <2> DEFINE x == <<t, data.silos[t].seed>>
             y == <<s, data.silos[s].seed>>
  <2>1. x \in Claimed /\ y \in Claimed
    BY ClaimsOf DEF Claims
  <2>2. x[2] = y[2] /\ x[1] # y[1]
    OBVIOUS
  <2> HIDE DEF x, y
  <2> QED BY <2>1, <2>2 DEF Seeded
<1>3. \/ w.artifacts \subseteq data.artifacts
      \/ \E old \in data.artifacts : \E x : w.artifacts \subseteq (data.artifacts \ {old}) \cup {x}
  BY <1>1, <1>2, ReplacedDrops
<1> HIDE DEF w
<1>4. ASSUME w.artifacts \subseteq data.artifacts
      PROVE Cardinality(w.artifacts) <= Cardinality(data.artifacts)
  <2>1. w.artifacts \in SUBSET data.artifacts
    BY <1>4
  <2> QED BY <1>1, <2>1, Fewer
<1>5. ASSUME \E old \in data.artifacts : \E x : w.artifacts \subseteq (data.artifacts \ {old}) \cup {x}
      PROVE Cardinality(w.artifacts) <= Cardinality(data.artifacts)
  <2>0. PICK old \in data.artifacts : \E x : w.artifacts \subseteq (data.artifacts \ {old}) \cup {x}
    BY <1>5
  <2>1. PICK x : w.artifacts \subseteq (data.artifacts \ {old}) \cup {x}
    BY <2>0
  <2> DEFINE less == data.artifacts \ {old}
             more == less \cup {x}
  <2>2. IsFiniteSet(less) /\ Cardinality(less) = Cardinality(data.artifacts) - 1
    BY <1>1, FS_RemoveElement
  <2>3. Cardinality(data.artifacts) \in Nat /\ Cardinality(less) \in Nat
    BY <1>1, <2>2, FS_CardinalityType
  <2> HIDE DEF less
  <2>4. IsFiniteSet(more) /\ Cardinality(more) \in {Cardinality(less), Cardinality(less) + 1}
    BY <2>2, FS_AddElement
  <2>5. w.artifacts \in SUBSET more
    BY <2>1 DEF less
  <2> HIDE DEF more
  <2>6. Cardinality(w.artifacts) <= Cardinality(more) /\ Cardinality(w.artifacts) \in Nat
    BY <2>4, <2>5, Fewer
  <2> QED BY <2>2, <2>3, <2>4, <2>6
<1> QED BY <1>3, <1>4, <1>5 DEF w

\* A Vault that is overfull came of one that was, or of a creation.
OverfillStays == Kept!Overfull(disk') /\ job.op # "create"
                   => Kept!Overfull(data) \/ Kept!Overfull(disk)

\* What is saved has no more artifacts than what was there.
LEMMA ThriftySaves ==
  ASSUME Kept!SilosAssumption, SilosInv, NEW new, Kept!Save(new) \/ Kept!NotSaved,
         Cardinality(new.artifacts) <= Cardinality(data.artifacts), IsFiniteSet(new.artifacts)
  PROVE OverfillStays
<1>1. disk' \in {disk, new}
  BY DEF Kept!Save, Kept!NotSaved
<1>2. data.artifacts \subseteq AllArtifacts
  BY DEF AllArtifacts
<1>3. Cardinality(data.artifacts) \in Nat /\ Cardinality(new.artifacts) \in Nat /\ MaxArtifacts \in Nat
  BY <1>2, Fewer, FS_CardinalityType DEF SilosInv, Counted, Kept!SilosAssumption
<1>4. Kept!Overfull(new) => Kept!Overfull(data)
  BY <1>3, Counts DEF Kept!Overfull
<1> QED BY <1>1, <1>4 DEF OverfillStays

-----------------------------------------------------------------------------
(* Every step, for the seeds and the number of artifacts *)

\* An operation that starts plans with a seed that is drawn, or with that of its Silo.
LEMMA StartsSeeded ==
  ASSUME Kept!SilosAssumption, SilosInv, Seeded, NEW s \in Kept!AllSilos,
         \/ \E i \in Identities, n \in Kept!Networks : Kept!StartCreate(s, i, n)
         \/ \E i \in Identities, rotate \in BOOLEAN : Kept!StartReplace(s, i, rotate)
         \/ \E n \in Kept!Networks : Kept!StartRebind(s, n)
         \/ Kept!StartDelete(s)
  PROVE Seeded' /\ OverfillStays
<1>1. fresh \in Nat /\ \A t \in Kept!Present(data) : data.silos[t] \in Kept!SiloRecords
  BY InInv
<1>2. /\ Kept!NotSaved /\ backup' = backup /\ Claims(data) \subseteq Claimed
      /\ fresh' = fresh \/ fresh' = fresh + 1
  <2>1. CASE \/ \E i \in Identities, n \in Kept!Networks : Kept!StartCreate(s, i, n)
             \/ Kept!StartDelete(s)
    BY <2>1, ClaimsOf DEF Kept!StartCreate, Kept!StartDelete
  <2>2. CASE \E i \in Identities, rotate \in BOOLEAN : Kept!StartReplace(s, i, rotate)
    BY <2>2, ClaimsOf DEF Kept!StartReplace
  <2>3. CASE \E n \in Kept!Networks : Kept!StartRebind(s, n)
    BY <2>3, ClaimsOf DEF Kept!StartRebind
  <2> QED BY <2>1, <2>2, <2>3
<1> SUFFICES Seeded'
  BY <1>2 DEF Kept!NotSaved, OverfillStays
<1>3. fresh' \in Nat /\ fresh' >= fresh
  BY <1>1, <1>2
<1>4. ASSUME s \in Kept!Present(data), Planned' = {<<s, data.silos[s].seed>>} PROVE Seeded'
  <2>1. Planned' \subseteq Claims(data)
    BY <1>4 DEF Claims
  <2>2. Planned' \subseteq Claimed
    BY <1>2, <2>1
  <2> QED BY <1>2, <1>3, <2>2, SeedsSaved
<1>5. ASSUME Planned' = {<<s, fresh + 1>>}, fresh' = fresh + 1 PROVE Seeded'
  <2>1. Planned' \subseteq Claimed \cup {<<s, fresh + 1>>}
    BY <1>5
  <2> QED BY <1>2, <1>3, <1>5, <2>1, SeedsSaved
<1>6. CASE \E i \in Identities, n \in Kept!Networks : Kept!StartCreate(s, i, n)
  <2>1. Planned' = {<<s, fresh + 1>>} /\ fresh' = fresh + 1
    BY <1>6 DEF Kept!StartCreate, Kept!Job, Kept!NewRecord, Planned
  <2> QED BY <1>5, <2>1
<1>7. CASE \E i \in Identities, rotate \in BOOLEAN : Kept!StartReplace(s, i, rotate)
  <2>1. PICK i \in Identities, rotate \in BOOLEAN : Kept!StartReplace(s, i, rotate)
    BY <1>7
  <2> DEFINE seed == IF rotate THEN fresh + 1 ELSE data.silos[s].seed
  <2>2. /\ s \in Kept!Present(data) /\ fresh' = IF rotate THEN fresh + 1 ELSE fresh
        /\ job' = Kept!Job("replace", s, [data.silos[s] EXCEPT !.identity = i, !.seed =
                                             IF rotate THEN fresh + 1 ELSE data.silos[s].seed])
    <3>1. data.silos[s] \in Kept!SiloRecords
      BY <1>1, <2>1 DEF Kept!StartReplace, Kept!Inactive
    <3>2. [data.silos[s] EXCEPT !.identity = i, !.seed = IF rotate THEN fresh + 1 ELSE @]
            = [data.silos[s] EXCEPT !.identity = i, !.seed =
                 IF rotate THEN fresh + 1 ELSE data.silos[s].seed]
      BY <3>1 DEF Kept!SiloRecords
    <3> QED BY <2>1, <3>2 DEF Kept!StartReplace, Kept!Inactive
  <2>3. Planned' = {<<s, seed>>}
    <3>1. data.silos[s] \in Kept!SiloRecords
      BY <1>1, <2>2
    <3>2. job'.op = "replace" /\ job'.silo = s /\ job'.plan.seed = seed
      BY <2>2, <3>1 DEF Kept!Job, Kept!SiloRecords
    <3> QED BY <3>2 DEF Planned
  <2> QED BY <1>4, <1>5, <2>2, <2>3
<1>8. CASE \E n \in Kept!Networks : Kept!StartRebind(s, n)
  <2>1. PICK n \in Kept!Networks : Kept!StartRebind(s, n)
    BY <1>8
  <2>2. s \in Kept!Present(data)
    BY <2>1 DEF Kept!StartRebind, Kept!Inactive
  <2>3. /\ job'.op = "rebind" /\ job'.silo = s
        /\ job'.plan = [data.silos[s] EXCEPT !.network = n,
                          !.secret = IF n = "proxy" THEN fresh + 1 ELSE 0]
    BY <2>1 DEF Kept!StartRebind, Kept!Job
  <2>4. job'.plan.seed = data.silos[s].seed
    BY <1>1, <2>2, <2>3 DEF Kept!SiloRecords
  <2>5. Planned' = {<<s, data.silos[s].seed>>}
    BY <2>3, <2>4 DEF Planned
  <2> QED BY <1>4, <2>2, <2>5
<1>9. CASE Kept!StartDelete(s)
  <2>1. job'.op \notin {"create", "replace", "rebind"}
    BY <1>9 DEF Kept!StartDelete, Kept!Job
  <2> QED BY <1>2, <1>3, <2>1, SeedsKept
<1> QED BY <1>6, <1>7, <1>8, <1>9

\* An edit of a record saves the seed that was planned, or the one there was.
LEMMA EditsSeeded ==
  ASSUME Kept!SilosAssumption, SilosInv, Seeded, NEW s \in Kept!Present(data), NEW r \in Kept!SiloRecords,
         <<s, r.seed>> \in Claimed, Kept!Save(Kept!Replaced(data, s, r)) \/ Kept!NotSaved,
         backup' = backup, fresh' \in Nat, fresh' >= fresh,
         job' = job \/ job'.op \notin {"create", "replace", "rebind"}
  PROVE Seeded' /\ OverfillStays
<1> DEFINE new == Kept!Replaced(data, s, r)
<1>1. Sound(data) /\ data \in Kept!Vaults /\ s \in Kept!AllSilos
  BY InInv DEF SilosInv
<1>2. PICK q : Likens(r, q) /\ Carries(data, s, q, new)
  BY <1>1, ReplacedIs
<1>3. Kept!Save(new) \/ Kept!NotSaved
  OBVIOUS
<1>4. Cardinality(new.artifacts) <= Cardinality(data.artifacts)
  BY ReplacedCounts
<1> HIDE DEF new
<1>5. Claims(new) \subseteq Claimed
  BY <1>1, <1>2, CarriedClaims, ClaimsOf DEF Likens
<1>6. IsFiniteSet(new.artifacts)
  <2>1. new.artifacts \in SUBSET (AllArtifacts \cup {Kept!ArtifactOf(q)})
    BY <1>2 DEF Carries, AllArtifacts
  <2>2. IsFiniteSet(AllArtifacts \cup {Kept!ArtifactOf(q)})
    BY FS_AddElement DEF SilosInv, Counted
  <2> QED BY <2>1, <2>2, Fewer
<1> QED BY <1>3, <1>6, <1>4, <1>5, SeedsKept, ThriftySaves

\* An edit of a stock Silo keeps its seed.
LEMMA StockSeeded ==
  ASSUME Kept!SilosAssumption, SilosInv, Seeded, NEW s \in Kept!AllSilos, NEW i \in Identities,
         NEW n \in Kept!Networks, Kept!ChangeStock(s, i, n)
  PROVE Seeded' /\ OverfillStays
<1> DEFINE old == data.silos[s]
           secret == CASE n = "direct" -> 0
                       [] n = "proxy" /\ old.network = "proxy" -> old.secret
                       [] OTHER -> fresh + 1
           r == [old EXCEPT !.identity = i, !.network = n, !.secret = secret]
<1>1. /\ s \in Kept!Present(data) /\ secret <= MaxFresh
      /\ fresh' = IF secret > fresh THEN secret ELSE fresh
      /\ Kept!Save(Kept!Replaced(data, s, r)) /\ UNCHANGED <<job, backup>>
  BY DEF Kept!ChangeStock, Kept!Inactive
<1>2. old \in Kept!SiloRecords /\ fresh \in Nat /\ MaxFresh \in Nat
  BY <1>1, InInv DEF Kept!SilosAssumption
<1>3. secret \in 0..MaxFresh
  <2>1. old.secret \in 0..MaxFresh
    BY <1>2, InRecord
  <2>2. CASE n = "direct"
    BY <1>2, <2>2
  <2>3. CASE n # "direct" /\ old.network = "proxy"
    BY <2>1, <2>3 DEF Kept!Networks
  <2>4. CASE n # "direct" /\ old.network # "proxy"
    BY <1>1, <1>2, <2>4
  <2> QED BY <2>2, <2>3, <2>4
<1>4. fresh' \in Nat /\ fresh' >= fresh
  BY <1>1, <1>2, <1>3
<1> HIDE DEF secret
<1>5. r \in Kept!SiloRecords /\ r.seed = old.seed
  BY <1>2, <1>3 DEF Kept!SiloRecords
<1>6. <<s, r.seed>> \in Claimed
  BY <1>1, <1>5, ClaimsOf DEF Claims
<1> HIDE DEF r
<1> QED BY <1>1, <1>4, <1>5, <1>6, EditsSeeded

\* A provisioning that ends saves the seed that was planned for its Silo.
LEMMA FinishesSeeded ==
  ASSUME Kept!SilosAssumption, SilosInv, Seeded,
         Kept!FinishCreate \/ Kept!FinishReplace \/ Kept!FinishRebind
  PROVE Seeded' /\ OverfillStays
<1> DEFINE s == job.silo
<1>1. /\ job' = Kept!NoJob /\ backup' = backup /\ fresh' = fresh
      /\ job.op \in {"create", "replace", "rebind"}
  BY DEF Kept!FinishCreate, Kept!FinishReplace, Kept!FinishRebind
<1>2. /\ job.plan \in Kept!SiloRecords /\ s \in Kept!AllSilos /\ <<s, job.plan.seed>> \in Claimed
      /\ job'.op \notin {"create", "replace", "rebind"} /\ fresh' \in Nat /\ fresh' >= fresh
      /\ Sound(data) /\ data \in Kept!Vaults /\ Claims(data) \subseteq Claimed
      /\ \A t \in Kept!Present(data) : data.silos[t] \in Kept!SiloRecords
  BY <1>1, InInv, ClaimsOf DEF Kept!NoJob, JobTyped, SilosInv
<1> HIDE DEF s
<1>3. CASE Kept!NotSaved
  BY <1>1, <1>2, <1>3, SeedsKept DEF Kept!NotSaved, OverfillStays
<1>4. CASE ~Kept!NotSaved /\ Kept!FinishCreate
  <2>1. PICK raw \in {0, 1} : Kept!Save(Kept!WithSilo(data, s, [job.plan EXCEPT !.raw = raw]))
    BY <1>4 DEF Kept!FinishCreate, s
  <2> DEFINE r == [job.plan EXCEPT !.raw = raw]
             new == Kept!WithSilo(data, s, r)
  <2>2. r \in Kept!SiloRecords /\ r.seed = job.plan.seed /\ Kept!Save(new)
    BY <1>2, <2>1 DEF Kept!SiloRecords
  <2> HIDE DEF r
  <2>3. PICK q : Likens(r, q) /\ Carries(data, s, q, new)
    BY <1>2, <2>2, WithSiloIs
  <2> HIDE DEF new
  <2>4. Claims(new) \subseteq Claimed
    BY <1>2, <2>2, <2>3, CarriedClaims DEF Likens
  <2>5. OverfillStays
    BY <1>4 DEF Kept!FinishCreate, OverfillStays
  <2> QED BY <1>1, <1>2, <2>2, <2>4, <2>5, SeedsKept
<1>5. CASE ~Kept!NotSaved /\ Kept!FinishReplace
  <2>1. PICK raw \in {0, 1} :
          /\ s \in Kept!Present(data)
          /\ Kept!Save(Kept!Replaced(data, s, [data.silos[s] EXCEPT !.identity = job.plan.identity,
                                           !.seed = job.plan.seed, !.raw = raw]))
    BY <1>5 DEF Kept!FinishReplace, s
  <2> DEFINE r == [data.silos[s] EXCEPT !.identity = job.plan.identity,
                                           !.seed = job.plan.seed, !.raw = raw]
  <2>2. r \in Kept!SiloRecords /\ r.seed = job.plan.seed
    BY <1>2, <2>1, InRecord DEF Kept!SiloRecords
  <2>3. Kept!Save(Kept!Replaced(data, s, r))
    BY <2>1
  <2> HIDE DEF r
  <2> QED BY <1>1, <1>2, <2>1, <2>2, <2>3, EditsSeeded
<1>6. CASE ~Kept!NotSaved /\ Kept!FinishRebind
  <2>1. PICK raw \in {0, 1} :
          /\ s \in Kept!Present(data)
          /\ Kept!Save(Kept!Replaced(data, s, [job.plan EXCEPT !.raw = raw, !.locked = data.silos[s].locked]))
    BY <1>6 DEF Kept!FinishRebind, s
  <2> DEFINE r == [job.plan EXCEPT !.raw = raw, !.locked = data.silos[s].locked]
  <2>2. r \in Kept!SiloRecords /\ r.seed = job.plan.seed
    BY <1>2, <2>1, InRecord DEF Kept!SiloRecords
  <2>3. Kept!Save(Kept!Replaced(data, s, r))
    BY <2>1
  <2> HIDE DEF r
  <2> QED BY <1>1, <1>2, <2>1, <2>2, <2>3, EditsSeeded
<1> QED BY <1>3, <1>4, <1>5, <1>6

\* Metadata, evidence, locks, runs and deletions leave the seeds of the Silos that stay.
LEMMA OthersSeeded ==
  ASSUME Kept!SilosAssumption, SilosInv, Seeded, NEW s \in Kept!AllSilos,
         \/ Kept!EditMetadata(s) \/ Kept!ImportEvidence(s) \/ Kept!ClearEvidence(s)
         \/ Kept!Launch(s) \/ Kept!BeginRun \/ Kept!FinishDelete
  PROVE Seeded' /\ OverfillStays
<1>1. /\ data \in Kept!Vaults /\ Sound(data) /\ fresh \in Nat /\ Claims(data) \subseteq Claimed
      /\ backup' = backup /\ fresh' = fresh
  BY InInv, ClaimsOf DEF SilosInv, Kept!EditMetadata, Kept!ImportEvidence, Kept!ClearEvidence,
     Kept!Launch, Kept!BeginRun, Kept!FinishDelete
<1>2. ASSUME NEW new, Kept!Save(new) \/ Kept!NotSaved, Claims(new) \subseteq Claims(data),
             new.artifacts \in SUBSET data.artifacts,
             job' = job \/ job'.op \notin {"create", "replace", "rebind"}
      PROVE Seeded' /\ OverfillStays
  <2>1. data.artifacts \in SUBSET AllArtifacts
    BY DEF AllArtifacts
  <2>2. IsFiniteSet(new.artifacts) /\ Cardinality(new.artifacts) <= Cardinality(data.artifacts)
    BY <1>2, <2>1, Fewer DEF SilosInv, Counted
  <2> QED BY <1>1, <1>2, <2>2, SeedsKept, ThriftySaves
<1>3. ASSUME NEW new, new.silos = data.silos PROVE Claims(new) \subseteq Claims(data)
  BY <1>3, OfSilos, ClaimsStay
<1>4. CASE Kept!EditMetadata(s)
  BY <1>2, <1>4 DEF Kept!EditMetadata
<1>5. CASE Kept!ImportEvidence(s)
  <2> DEFINE new == [data EXCEPT !.evidence = @ \cup {s}]
  <2>1. new.silos = data.silos /\ new.artifacts = data.artifacts
    BY <1>1 DEF Kept!Vaults
  <2>2. Kept!Save(new) /\ job' = job
    BY <1>5 DEF Kept!ImportEvidence
  <2> HIDE DEF new
  <2> QED BY <1>2, <1>3, <2>1, <2>2
<1>6. CASE Kept!ClearEvidence(s)
  <2> DEFINE new == [data EXCEPT !.evidence = @ \ {s}]
  <2>1. new.silos = data.silos /\ new.artifacts = data.artifacts
    BY <1>1 DEF Kept!Vaults
  <2>2. Kept!Save(new) /\ job' = job
    BY <1>6 DEF Kept!ClearEvidence
  <2> HIDE DEF new
  <2> QED BY <1>2, <1>3, <2>1, <2>2
<1>7. CASE Kept!BeginRun
  <2> DEFINE new == [data EXCEPT !.runs = @ \cup {job.silo}]
  <2>1. new.silos = data.silos /\ new.artifacts = data.artifacts
    BY <1>1 DEF Kept!Vaults
  <2>2. (Kept!Save(new) \/ Kept!NotSaved) /\ job'.op \notin {"create", "replace", "rebind"}
    BY <1>7 DEF Kept!BeginRun, Kept!NoJob
  <2> HIDE DEF new
  <2> QED BY <1>2, <1>3, <2>1, <2>2
<1>8. CASE Kept!Launch(s)
  <2> DEFINE new == [data EXCEPT !.silos[s].locked = TRUE]
             r == [data.silos[s] EXCEPT !.locked = TRUE]
  <2>1. /\ s \in Kept!Present(data) /\ (Kept!Save(new) \/ Kept!NotSaved)
        /\ job'.op \notin {"create", "replace", "rebind"}
    BY <1>8 DEF Kept!Launch, Kept!Inactive, Kept!Job, Kept!NoJob
  <2>2. /\ Kept!Present(new) = Kept!Present(data) /\ new.silos = [data.silos EXCEPT ![s] = r]
        /\ new.artifacts = data.artifacts
    BY <1>1, <2>1, LockedIs
  <2>3. r.seed = data.silos[s].seed
    BY <2>1, InInv DEF Kept!SiloRecords
  <2> HIDE DEF new, r
  <2>4. \A t \in Kept!Present(new) : new.silos[t].seed = data.silos[t].seed
    <3>1. new.silos[s] = r /\ \A t \in Kept!AllSilos \ {s} : new.silos[t] = data.silos[t]
      BY <2>1, <2>2, HeldAt
    <3> QED BY <1>1, <2>2, <2>3, <3>1, InVault
  <2>5. Claims(new) \subseteq Claims(data)
    BY <2>2, <2>4, ClaimsStay
  <2> QED BY <1>2, <2>1, <2>2, <2>5
<1>9. CASE Kept!FinishDelete
  <2> DEFINE t == job.silo
             new == Kept!Without(data, t)
  <2>1. (Kept!Save(new) \/ Kept!NotSaved) /\ job'.op \notin {"create", "replace", "rebind"}
    BY <1>9 DEF Kept!FinishDelete, Kept!NoJob
  <2>2. t \in Kept!Present(data)
    BY <1>9 DEF Kept!FinishDelete, SilosInv, Jobs
  <2> HIDE DEF t
  <2>3. /\ Kept!Present(new) = Kept!Present(data) \ {t} /\ new.silos = [data.silos EXCEPT ![t] = None]
        /\ new.artifacts \subseteq data.artifacts
    BY <1>1, <2>2, WithoutIs
  <2> HIDE DEF new
  <2>4. \A u \in Kept!Present(new) : new.silos[u].seed = data.silos[u].seed
    <3>1. data.silos \in [Kept!AllSilos -> Kept!SiloRecords \cup {None}] /\ t \in Kept!AllSilos
          /\ Kept!Present(data) \subseteq Kept!AllSilos
      BY <1>1, <2>2, InVault
    <3> QED BY <2>3, <3>1
  <2>5. Claims(new) \subseteq Claims(data)
    BY <2>3, <2>4, ClaimsStay
  <2> QED BY <1>2, <2>1, <2>3, <2>5
<1> QED BY <1>4, <1>5, <1>6, <1>7, <1>8, <1>9

\* A backup, a restore and a restart bring back no seed but those that were claimed.
LEMMA BackupsSeeded ==
  ASSUME Kept!SilosAssumption, SilosInv, Seeded, Kept!Backup \/ Kept!Restore \/ Kept!Reload
  PROVE Seeded' /\ OverfillStays
<1>1. fresh \in Nat /\ fresh' = fresh
  BY InInv DEF Kept!Backup, Kept!Restore, Kept!Reload, Kept!bounds
<1>2. CASE Kept!Backup
  <2>1. /\ data' = data /\ disk' = data /\ backup' = data /\ job' = job
    BY <1>2 DEF Kept!Backup, Kept!Save
  <2>2. Claimed' \subseteq Claimed
    BY <2>1 DEF Claimed, Claims, Planned
  <2> QED BY <1>1, <2>1, <2>2, SeedsGrow DEF OverfillStays
<1>3. CASE Kept!Restore
  <2> DEFINE new == Kept!Merged(backup)
  <2>1. /\ backup # None /\ (Kept!Save(new) \/ Kept!NotSaved) /\ backup' = backup /\ job' = job
        /\ \A s \in Kept!Present(data) : ~Kept!LockConflicts(s, backup)
    BY <1>3 DEF Kept!Restore
  <2>2. Sound(data) /\ Sound(backup) /\ backup \in Kept!Vaults
    BY <2>1 DEF SilosInv, Backed, Sound
  <2>3. \A s \in Kept!Present(data) : data.silos[s].locked => s \in Kept!Present(backup)
    BY <2>1 DEF Kept!LockConflicts, Kept!Present
  <2>4. /\ Kept!Present(new) = Kept!Present(backup)
        /\ \A s \in Kept!AllSilos : new.silos[s] =
             IF s \in Kept!Present(data) /\ data.silos[s].locked
             THEN [backup.silos[s] EXCEPT !.locked = TRUE] ELSE backup.silos[s]
    BY <2>2, <2>3, MergedIs
  <2> HIDE DEF new
  <2>5. \A t \in Kept!Present(new) : new.silos[t].seed = backup.silos[t].seed
    <3> SUFFICES ASSUME NEW t \in Kept!Present(backup) PROVE new.silos[t].seed = backup.silos[t].seed
      BY <2>4
    <3>1. t \in Kept!AllSilos /\ backup.silos[t] \in Kept!SiloRecords
      BY <2>2, InVault
    <3> QED BY <2>4, <3>1 DEF Kept!SiloRecords
  <2>6. Claims(new) \subseteq Claimed
    BY <2>1, <2>4, <2>5, ClaimsStay, ClaimsOf
  <2>7. OverfillStays
    <3>1. disk' = disk \/ ~Kept!Overfull(disk')
      BY <1>3, <2>1 DEF Kept!Restore, Kept!Save, Kept!NotSaved, Kept!Valid, new
    <3> QED BY <3>1 DEF OverfillStays
  <2> QED BY <1>1, <2>1, <2>6, <2>7, SeedsKept
<1>4. CASE Kept!Reload
  <2>1. /\ data' = disk /\ disk' = disk /\ backup' = backup /\ (job' = job \/ job' = Kept!NoJob)
    BY <1>4 DEF Kept!Reload
  <2>2. Planned' \subseteq Planned
    BY <2>1 DEF Planned, Kept!NoJob
  <2>3. Claimed' \subseteq Claimed
    BY <2>1, <2>2 DEF Claimed, Claims
  <2> QED BY <1>1, <2>1, <2>3, SeedsGrow DEF OverfillStays
<1> QED BY <1>2, <1>3, <1>4

\* Nobody has a seed yet.
LEMMA SeedsStart == ASSUME Kept!Init PROVE Seeded
<1>1. Kept!Present(Kept!EmptyVault) = {}
  BY DEF Kept!EmptyVault, Kept!Present
<1>2. Claimed = {}
  BY <1>1 DEF Kept!Init, Kept!NoJob, Claimed, Claims, Planned
<1> QED BY <1>2 DEF Seeded

\* Every step.
LEMMA SeedsStep ==
  ASSUME Kept!SilosAssumption, SilosInv, Seeded, [Kept!Next]_(Kept!vars)
  PROVE Seeded' /\ OverfillStays
<1>1. CASE UNCHANGED Kept!vars
  BY <1>1 DEF Kept!vars, Seeded, Claimed, Claims, Planned, OverfillStays
<1>2. CASE Kept!Next
  <2>1. CASE \E s \in Kept!AllSilos, i \in Identities, n \in Kept!Networks :
               Kept!StartCreate(s, i, n) \/ Kept!ChangeStock(s, i, n)
    BY <2>1, StartsSeeded, StockSeeded
  <2>2. CASE \/ \E s \in Kept!AllSilos, i \in Identities, rotate \in BOOLEAN : Kept!StartReplace(s, i, rotate)
             \/ \E s \in Kept!AllSilos, n \in Kept!Networks : Kept!StartRebind(s, n)
             \/ \E s \in Kept!AllSilos : Kept!StartDelete(s)
    BY <2>2, StartsSeeded
  <2>3. CASE \E s \in Kept!AllSilos : \/ Kept!EditMetadata(s) \/ Kept!ImportEvidence(s)
                                      \/ Kept!ClearEvidence(s) \/ Kept!Launch(s)
    BY <2>3, OthersSeeded
  <2>4. CASE Kept!BeginRun \/ Kept!FinishDelete
    <3>1. \E s : s \in Kept!AllSilos
      BY <2>4, InInv DEF Kept!BeginRun, Kept!FinishDelete, JobTyped, Kept!NoJob
    <3> QED BY <2>4, <3>1, OthersSeeded
  <2>5. CASE Kept!FinishCreate \/ Kept!FinishReplace \/ Kept!FinishRebind
    BY <2>5, FinishesSeeded
  <2>6. CASE Kept!Backup \/ Kept!Restore \/ Kept!Reload
    BY <2>6, BackupsSeeded
  <2> QED BY <1>2, <2>1, <2>2, <2>3, <2>4, <2>5, <2>6 DEF Kept!Next
<1> QED BY <1>1, <1>2

-----------------------------------------------------------------------------
(* The slots: the modules instanced with and without their proofs say the same *)

OneP == INSTANCE LocalSlotsProofs
        WITH Slots <- {a}, Order <- <<a, Legacy>>, Limit <- 1, Publishers <- {Publisher},
             command <- slotCommand, lock <- slotLock,
             reserved <- slotReserved

SeveralP == INSTANCE LocalSlotsProofs
         WITH Slots <- {a, b, c}, Order <- <<a, b, c, Legacy>>, Limit <- 2,
              Publishers <- {}, command <- slotCommand, lock <- slotLock,
              reserved <- slotReserved

\* The same initial states.
LEMMA OneStarts == One!Init => OneP!Init
BY DEF One!Init, One!Managers, One!Range, One!Cardinality, One!Idle, OneP!Init, OneP!Managers,
       OneP!Range, OneP!Cardinality, OneP!Idle

\* The same steps.
LEMMA OneSteps == [One!Next]_One!vars => [OneP!Next]_OneP!vars
BY DEF One!Next, One!Admit, One!Idle, One!Owned, One!Occupied, One!Cardinality, One!OccupiedSlots,
       One!Goto, One!Nothing, One!StartUse, One!flags, One!CommandStep, One!StartWatchdog, One!LoseWatchdog, One!Reject,
       One!StartLaunch, One!LockFor, One!Launch, One!Release, One!DropGuard, One!RevokeIfPending,
       One!Revoked, One!Unreserve, One!LockUse, One!Use, One!LookQuiet, One!EndCommand,
       One!StopWatchdog, One!Tick, One!threads, One!EndTick, One!StartExclusive, One!ReserveAll,
       One!Range, One!Do, One!EndLegacy, One!LockVault, One!Unlock, One!VaultFree,
       One!InlineManager, One!ExclusiveStep, One!LaunchExclusive, One!RevokeInline,
       One!PublisherStep, One!AskVault, One!AtManager, One!LookOn, One!LooksFrom, One!ToRevoke,
       One!AtEnd, One!Look, One!ManagerOf, One!NextLook, One!Publish, One!TakeWatchdog,
       One!StorePending, One!TryRevoke, One!NextRevocation, One!LoadPending, One!SwapRunning,
       One!Managers, One!RevokerStep, One!LockRevoke, One!RevokerAt, One!Revoke, One!StoreRunning,
       One!Check, One!LetGo, One!vars, OneP!Next, OneP!Admit, OneP!Idle, OneP!Owned, OneP!Occupied,
       OneP!Cardinality, OneP!OccupiedSlots, OneP!Goto, OneP!Nothing, OneP!StartUse, OneP!flags,
       OneP!CommandStep, OneP!StartWatchdog, OneP!LoseWatchdog, OneP!Reject, OneP!StartLaunch, OneP!LockFor, OneP!Launch, OneP!Release,
       OneP!DropGuard, OneP!RevokeIfPending, OneP!Revoked, OneP!Unreserve, OneP!LockUse, OneP!Use,
       OneP!LookQuiet, OneP!EndCommand, OneP!StopWatchdog, OneP!Tick, OneP!threads, OneP!EndTick,
       OneP!StartExclusive, OneP!ReserveAll, OneP!Range, OneP!Do, OneP!EndLegacy, OneP!LockVault,
       OneP!Unlock, OneP!VaultFree, OneP!InlineManager, OneP!ExclusiveStep, OneP!LaunchExclusive,
       OneP!RevokeInline, OneP!PublisherStep, OneP!AskVault, OneP!AtManager, OneP!LookOn,
       OneP!LooksFrom, OneP!ToRevoke, OneP!AtEnd, OneP!Look, OneP!ManagerOf, OneP!NextLook,
       OneP!Publish, OneP!TakeWatchdog, OneP!StorePending, OneP!TryRevoke, OneP!NextRevocation,
       OneP!LoadPending, OneP!SwapRunning, OneP!Managers, OneP!RevokerStep, OneP!LockRevoke,
       OneP!RevokerAt, OneP!Revoke, OneP!StoreRunning, OneP!Check, OneP!LetGo, OneP!vars

\* The same assumption.
LEMMA OneAssumes == One!SlotsAssumption => OneP!SlotsAssumption
BY DEF One!SlotsAssumption, One!IsFiniteSet, One!Managers, One!Range, OneP!SlotsAssumption,
       OneP!IsFiniteSet, OneP!Managers, OneP!Range

\* The same properties.
LEMMA OneKeeps == /\ OneP!TypeOK => One!TypeOK
                  /\ OneP!WithinLimit => One!WithinLimit
                  /\ OneP!OneKind => One!OneKind
                  /\ OneP!PendingIsServed => One!PendingIsServed
BY DEF One!TypeOK, One!Managers, One!CommandSteps, One!PublisherSteps, One!WithinLimit,
       One!Cardinality, One!Owned, One!OneKind, One!PendingIsServed, One!ManagerOf, OneP!TypeOK,
       OneP!Managers, OneP!CommandSteps, OneP!PublisherSteps, OneP!WithinLimit, OneP!Cardinality,
       OneP!Owned, OneP!OneKind, OneP!PendingIsServed, OneP!ManagerOf

\* The same initial states.
LEMMA SeveralStarts == Several!Init => SeveralP!Init
BY DEF Several!Init, Several!Managers, Several!Range, Several!Cardinality, Several!Idle,
       SeveralP!Init, SeveralP!Managers, SeveralP!Range, SeveralP!Cardinality, SeveralP!Idle

\* The same steps.
LEMMA SeveralSteps == [Several!Next]_Several!vars => [SeveralP!Next]_SeveralP!vars
BY DEF Several!Next, Several!Admit, Several!Idle, Several!Owned, Several!Occupied,
       Several!Cardinality, Several!OccupiedSlots, Several!Goto, Several!Nothing, Several!StartUse,
       Several!flags, Several!CommandStep, Several!StartWatchdog, Several!LoseWatchdog, Several!Reject, Several!StartLaunch, Several!LockFor,
       Several!Launch, Several!Release, Several!DropGuard, Several!RevokeIfPending,
       Several!Revoked, Several!Unreserve, Several!LockUse, Several!Use, Several!LookQuiet,
       Several!EndCommand, Several!StopWatchdog, Several!Tick, Several!threads, Several!EndTick,
       Several!StartExclusive, Several!ReserveAll, Several!Range, Several!Do, Several!EndLegacy,
       Several!LockVault, Several!Unlock, Several!VaultFree, Several!InlineManager,
       Several!ExclusiveStep, Several!LaunchExclusive, Several!RevokeInline, Several!PublisherStep,
       Several!AskVault, Several!AtManager, Several!LookOn, Several!LooksFrom, Several!ToRevoke,
       Several!AtEnd, Several!Look, Several!ManagerOf, Several!NextLook, Several!Publish,
       Several!TakeWatchdog, Several!StorePending, Several!TryRevoke, Several!NextRevocation,
       Several!LoadPending, Several!SwapRunning, Several!Managers, Several!RevokerStep,
       Several!LockRevoke, Several!RevokerAt, Several!Revoke, Several!StoreRunning, Several!Check,
       Several!LetGo, Several!vars, SeveralP!Next, SeveralP!Admit, SeveralP!Idle, SeveralP!Owned,
       SeveralP!Occupied, SeveralP!Cardinality, SeveralP!OccupiedSlots, SeveralP!Goto,
       SeveralP!Nothing, SeveralP!StartUse, SeveralP!flags, SeveralP!CommandStep, SeveralP!StartWatchdog, SeveralP!LoseWatchdog, SeveralP!Reject,
       SeveralP!StartLaunch, SeveralP!LockFor, SeveralP!Launch, SeveralP!Release,
       SeveralP!DropGuard, SeveralP!RevokeIfPending, SeveralP!Revoked, SeveralP!Unreserve,
       SeveralP!LockUse, SeveralP!Use, SeveralP!LookQuiet, SeveralP!EndCommand,
       SeveralP!StopWatchdog, SeveralP!Tick, SeveralP!threads, SeveralP!EndTick,
       SeveralP!StartExclusive, SeveralP!ReserveAll, SeveralP!Range, SeveralP!Do,
       SeveralP!EndLegacy, SeveralP!LockVault, SeveralP!Unlock, SeveralP!VaultFree,
       SeveralP!InlineManager, SeveralP!ExclusiveStep, SeveralP!LaunchExclusive,
       SeveralP!RevokeInline, SeveralP!PublisherStep, SeveralP!AskVault, SeveralP!AtManager,
       SeveralP!LookOn, SeveralP!LooksFrom, SeveralP!ToRevoke, SeveralP!AtEnd, SeveralP!Look,
       SeveralP!ManagerOf, SeveralP!NextLook, SeveralP!Publish, SeveralP!TakeWatchdog,
       SeveralP!StorePending, SeveralP!TryRevoke, SeveralP!NextRevocation, SeveralP!LoadPending,
       SeveralP!SwapRunning, SeveralP!Managers, SeveralP!RevokerStep, SeveralP!LockRevoke,
       SeveralP!RevokerAt, SeveralP!Revoke, SeveralP!StoreRunning, SeveralP!Check, SeveralP!LetGo,
       SeveralP!vars

\* The same assumption.
LEMMA SeveralAssumes == Several!SlotsAssumption => SeveralP!SlotsAssumption
BY DEF Several!SlotsAssumption, Several!IsFiniteSet, Several!Managers, Several!Range,
       SeveralP!SlotsAssumption, SeveralP!IsFiniteSet, SeveralP!Managers, SeveralP!Range

\* The same properties.
LEMMA SeveralKeeps == /\ SeveralP!TypeOK => Several!TypeOK
                      /\ SeveralP!WithinLimit => Several!WithinLimit
                      /\ SeveralP!OneKind => Several!OneKind
                      /\ SeveralP!PendingIsServed => Several!PendingIsServed
BY DEF Several!TypeOK, Several!Managers, Several!CommandSteps, Several!PublisherSteps,
       Several!WithinLimit, Several!Cardinality, Several!Owned, Several!OneKind,
       Several!PendingIsServed, Several!ManagerOf, SeveralP!TypeOK, SeveralP!Managers,
       SeveralP!CommandSteps, SeveralP!PublisherSteps, SeveralP!WithinLimit, SeveralP!Cardinality,
       SeveralP!Owned, SeveralP!OneKind, SeveralP!PendingIsServed, SeveralP!ManagerOf

-----------------------------------------------------------------------------
(* The desktop *)

Parts == {"vault", "locks", "one", "several"}

\* Each part keeps its own invariant; the parts that rest do not move.
DesktopInv == /\ part \in Parts
              /\ part = "locks" => IInv
              /\ part = "vault" => SilosInv /\ Seeded
              /\ part = "one" => OneP!SlotsInv
              /\ part = "several" => SeveralP!SlotsInv

\* Whatever the process before has left.
LEMMA DesktopStarts == ASSUME OrderAssumption, DesktopInit PROVE DesktopInv
<1>1. part \in Parts /\ Init /\ Kept!Init
      /\ (part = "several" => Several!Init) /\ (part = "one" => One!Init)
  BY DEF DesktopInit, Parts
<1>2. OneP!SlotsAssumption /\ SeveralP!SlotsAssumption
  BY SlotsAssumptions, OneAssumes, SeveralAssumes
<1>3. part = "one" => OneP!SlotsInv
  BY <1>1, <1>2, OneStarts, OneP!SlotsStart
<1>4. part = "several" => SeveralP!SlotsInv
  BY <1>1, <1>2, SeveralStarts, SeveralP!SlotsStart
<1>5. IInv /\ SilosInv /\ Seeded
  BY <1>1, InitHolds, VaultAssumption, SilosStart, SeedsStart
<1> QED BY <1>1, <1>3, <1>4, <1>5 DEF DesktopInv

\* A step is one of the part that runs.
LEMMA PartsMove ==
  ASSUME [DesktopNext]_desktopVars
  PROVE /\ part' = part
        /\ part = "locks" => [Next]_vars /\ UNCHANGED <<vaultVars, slotVars>>
        /\ part = "vault" => [Kept!Next]_(Kept!vars) /\ UNCHANGED <<lockVars, slotVars>>
        /\ part = "one" => [One!Next]_(One!vars) /\ UNCHANGED <<lockVars, vaultVars>>
        /\ part = "several" => [Several!Next]_(Several!vars) /\ UNCHANGED <<lockVars, vaultVars>>
BY DEF DesktopNext, desktopVars, lockVars, vaultVars, slotVars, vars, Kept!vars, One!vars, One!flags, One!threads,
       Several!vars, Several!flags, Several!threads

\* The parts' own lemmas, put together.
LEMMA DesktopStep == ASSUME OrderAssumption, DesktopInv, [DesktopNext]_desktopVars PROVE DesktopInv'
<1>1. /\ part' = part /\ part \in Parts
      /\ part = "locks" => IInv /\ [Next]_vars
      /\ part = "vault" => SilosInv /\ Seeded /\ [Kept!Next]_(Kept!vars)
      /\ part = "one" => OneP!SlotsInv /\ [One!Next]_(One!vars)
      /\ part = "several" => SeveralP!SlotsInv /\ [Several!Next]_(Several!vars)
  BY PartsMove DEF DesktopInv
<1>2. OneP!SlotsAssumption /\ SeveralP!SlotsAssumption
  BY SlotsAssumptions, OneAssumes, SeveralAssumes
<1>3. part = "one" => OneP!SlotsInv'
  BY <1>1, <1>2, OneSteps, OneP!SlotsStep
<1>4. part = "several" => SeveralP!SlotsInv'
  BY <1>1, <1>2, SeveralSteps, SeveralP!SlotsStep
<1>5. part = "vault" => SilosInv' /\ Seeded'
  BY <1>1, VaultAssumption, SilosStep, SeedsStep DEF Keeps
<1>6. part = "locks" => IInv'
  BY <1>1, TypeStep, HeldNext DEF IInv
<1> QED BY <1>1, <1>3, <1>4, <1>5, <1>6 DEF DesktopInv

\* Every step of every part keeps it, at any bounds on the operations and the saves in doubt, any
\* limit on artifacts, which creations may pass, and any number of threads.
THEOREM DesktopInvariant == DesktopSpec => []DesktopInv
<1>1. DesktopInit => DesktopInv
  BY DesktopStarts, LocksAssumption
<1>2. DesktopInv /\ [DesktopNext]_desktopVars => DesktopInv'
  BY DesktopStep, LocksAssumption
<1> QED BY <1>1, <1>2, PTL DEF DesktopSpec

\* What the run checks of a state.
LEMMA DesktopIsSafe ==
  ASSUME DesktopInv
  PROVE /\ DesktopTypeOK /\ SlotsAreLimited
        /\ OfSlots(One!PendingIsServed, Several!PendingIsServed)
        /\ part = "vault" => /\ Kept!VaultReopens /\ Kept!SecretsAreReferenced
                             /\ Kept!UsedProfileIsLocked
<1>1. OneP!SlotsAssumption /\ SeveralP!SlotsAssumption
  BY SlotsAssumptions, OneAssumes, SeveralAssumes
<1>2. part = "one" => One!TypeOK /\ One!WithinLimit /\ One!OneKind /\ One!PendingIsServed
  BY <1>1, OneP!SlotsAreSafe, OneKeeps DEF DesktopInv
<1>3. part = "several" =>
        Several!TypeOK /\ Several!WithinLimit /\ Several!OneKind /\ Several!PendingIsServed
  BY <1>1, SeveralP!SlotsAreSafe, SeveralKeeps DEF DesktopInv
<1>4. part = "vault" => /\ Kept!TypeOK /\ Kept!VaultReopens /\ Kept!SecretsAreReferenced
                        /\ Kept!UsedProfileIsLocked
  BY SilosAreSafe, VaultAssumption DEF DesktopInv
<1>5. part = "locks" => TypeOK
  BY DEF DesktopInv, IInv
<1> QED BY <1>2, <1>3, <1>4, <1>5 DEF DesktopTypeOK, SlotsAreLimited, OfSlots

\* Every part of the desktop is well formed.
THEOREM DesktopIsWellFormed == DesktopSpec => []DesktopTypeOK
BY DesktopInvariant, DesktopIsSafe, PTL

\* Of any commands that run next to each other on any number of threads, those that wait for each
\* other without end include one that is known to take its locks out of order.
THEOREM DesktopDeadlocks == DesktopSpec => []OnlyUnorderedDeadlock
<1>1. DesktopInit => Init
  BY DEF DesktopInit
<1>2. [DesktopNext]_desktopVars => [Next]_vars
  BY DEF DesktopNext, desktopVars, lockVars, vars
<1>3. Spec => []OnlyUnorderedDeadlock
  BY DeadlockNeedsUnordered, LocksAssumption
<1> QED BY <1>1, <1>2, <1>3, PTL DEF DesktopSpec, Spec

\* A launch is counted from its reservation on, and a session that the other Silos share is only
\* admitted while no slot is claimed: the limit and the exclusion hold in every interleaving of
\* launches, stops, watchdogs, publications and locks of the Vault.
THEOREM SlotsStayLimited == DesktopSpec => []SlotsAreLimited
BY DesktopInvariant, DesktopIsSafe, PTL

\* The command to lock the Vault leaves no credentials with any session, and a revocation that
\* found its manager busy is always on its way.
THEOREM LocksRevoke == DesktopSpec => LockRevokes
<1> DEFINE Complete == (exclusive.at = "revoking" /\ exclusive'.at = "idle")
                         => \A m \in {a, Legacy} : session'[m] # "secret"
<1>1. ASSUME DesktopInv, [DesktopNext]_desktopVars PROVE [Complete]_One!vars
  <2> SUFFICES ASSUME exclusive.at = "revoking", exclusive'.at = "idle"
               PROVE \A m \in {a, Legacy} : session'[m] # "secret"
    OBVIOUS
  <2>1. part \in Parts /\ OneP!SlotsAssumption /\ SeveralP!SlotsAssumption
    BY <1>1, SlotsAssumptions, OneAssumes, SeveralAssumes DEF DesktopInv
  <2>2. CASE part = "one"
    <3>1. \A m \in OneP!Managers : session'[m] # "secret"
      BY <1>1, <2>1, <2>2, PartsMove, OneSteps, OneP!LockIsComplete DEF DesktopInv
    <3> QED BY <3>1 DEF OneP!Managers
  <2>3. CASE part = "several"
    <3>1. \A m \in SeveralP!Managers : session'[m] # "secret"
      BY <1>1, <2>1, <2>3, PartsMove, SeveralSteps, SeveralP!LockIsComplete DEF DesktopInv
    <3> QED BY <3>1 DEF SeveralP!Managers
  <2>4. CASE part \in {"locks", "vault"}
    BY <1>1, <2>4, PartsMove DEF slotVars
  <2> QED BY <2>1, <2>2, <2>3, <2>4 DEF Parts
<1>2. DesktopSpec => []DesktopInv
  BY DesktopInvariant
<1>3. DesktopInv => OfSlots(One!PendingIsServed, Several!PendingIsServed)
  BY DesktopIsSafe
<1>4. [Complete]_One!vars => [(exclusive.at = "revoking" /\ exclusive'.at = "idle")
                         => \A m \in One!Managers : session'[m] # "secret"]_One!vars
  BY DEF One!Managers
<1> HIDE DEF Complete
<1> QED BY <1>1, <1>2, <1>3, <1>4, PTL DEF DesktopSpec, LockRevokes, One!LockRevokesAll

\* The steps of the Vault's part, as the others leave the Vault alone.
LEMMA VaultMoves ==
  DesktopInv /\ [DesktopNext]_desktopVars => [LocksStay /\ ProfilesStay /\ OverfillStays]_Kept!vars
<1> SUFFICES ASSUME DesktopInv, [DesktopNext]_desktopVars
             PROVE [LocksStay /\ ProfilesStay /\ OverfillStays]_(Kept!vars)
  OBVIOUS
<1>1. CASE part = "vault"
  BY <1>1, PartsMove, VaultAssumption, SilosStep, SeedsStep DEF DesktopInv, Keeps
<1>2. CASE part # "vault"
  BY <1>2, PartsMove DEF DesktopInv, Parts, vaultVars, Kept!vars
<1> QED BY <1>1, <1>2

\* Whatever was saved, in doubt or not, restored or not, the next unlock finds in it all that it
\* refers to; nothing but a creation saves more artifacts than an unlock accepts, if there were
\* no more before; the credentials kept are those in use; and a profile goes only after its Silo.
THEOREM SilosStayKept == DesktopSpec => SilosAreKept
<1>1. DesktopSpec => [](part = "vault" => Kept!VaultReopens) /\ [](part = "vault" => Kept!SecretsAreReferenced)
  BY DesktopInvariant, DesktopIsSafe, PTL
<1>2. DesktopSpec => [][LocksStay /\ ProfilesStay /\ OverfillStays]_Kept!vars
  BY DesktopInvariant, VaultMoves, PTL DEF DesktopSpec
<1>3. [LocksStay /\ ProfilesStay /\ OverfillStays]_Kept!vars =>
        [\A s \in Kept!AllSilos : "used" \in {home[s], quarantine[s]}
                          /\ "used" \notin {home'[s], quarantine'[s]}
                        => data'.silos[s] = None /\ disk'.silos[s] = None]_Kept!vars
  BY DEF ProfilesStay
<1>4. [LocksStay /\ ProfilesStay /\ OverfillStays]_Kept!vars =>
        [Kept!Overfull(disk') /\ job.op # "create"
           => Kept!Overfull(data) \/ Kept!Overfull(disk)]_Kept!vars
  BY DEF OverfillStays
<1> QED BY <1>1, <1>2, <1>3, <1>4, PTL
        DEF SilosAreKept, Kept!ProfilesOutliveSilos, Kept!OnlyCreationsOverfill

\* No edit, no race of edits, no restart and no restore takes back the lock or the seed of an
\* identity that a browser was started with; and unless a save was in doubt, a profile that a
\* browser has used is of a locked identity.
THEOREM IdentitiesKeepTheirLocks == DesktopSpec => IdentitiesStayLocked
<1>1. DesktopSpec => [](part = "vault" => Kept!UsedProfileIsLocked)
  BY DesktopInvariant, DesktopIsSafe, PTL
<1>2. DesktopSpec => [][LocksStay /\ ProfilesStay /\ OverfillStays]_Kept!vars
  BY DesktopInvariant, VaultMoves, PTL DEF DesktopSpec
<1>3. [LocksStay /\ ProfilesStay /\ OverfillStays]_Kept!vars =>
        [/\ Kept!LocksKept(data, data')
         /\ backup = None => Kept!IdentityKept(data, data')]_Kept!vars
  BY DEF LocksStay
<1> QED BY <1>1, <1>2, <1>3, PTL DEF IdentitiesStayLocked, Kept!LocksOutliveOperations
=============================================================================
