----------------------------- MODULE LockOrder -----------------------------
(***************************************************************************)
(* Threads that run commands, where a command is the sequence of the locks *)
(* it takes and gives back (DesktopLocks has those of the desktop).        *)
(*                                                                         *)
(* There are mutexes, and the reservation of the local environments, which *)
(* is held for one Silo, next to the holders of other Silos, or for        *)
(* everything, alone.  A guard that goes out of scope is given back, so a  *)
(* command that returns early, as it may at every step that can fail,      *)
(* gives back all that it holds.                                           *)
(***************************************************************************)
EXTENDS Naturals, Sequences

CONSTANTS Threads,
          Locks,       \* the mutexes
          Reservation, \* the reservation of the local environments
          Silos,
          Everything,  \* reserved for all Silos
          Nobody,      \* no thread, no command, nothing reserved
          Commands,
          Program,     \* Program[c] is the sequence of steps of command c
          Rank,        \* the order in which a thread is to take its locks
          Unordered    \* the commands that do not keep to that order

VARIABLES command,  \* what a thread runs
          pc,       \* and the step it is at
          owner,    \* the thread that holds a mutex
          reserved  \* what a thread has reserved

vars == <<command, pc, owner, reserved>>

TypeOK == /\ command \in [Threads -> Commands \cup {Nobody}]
          /\ pc \in [Threads -> Nat \ {0}]
          /\ owner \in [Locks -> Threads \cup {Nobody}]
          /\ reserved \in [Threads -> Silos \cup {Everything, Nobody}]

Init == /\ command = [t \in Threads |-> Nobody]
        /\ pc = [t \in Threads |-> 1]
        /\ owner = [l \in Locks |-> Nobody]
        /\ reserved = [t \in Threads |-> Nobody]

(***************************************************************************)
(* The steps of a program.  skip counts the steps passed over when a try   *)
(* fails, or when the program goes another way.                            *)
(***************************************************************************)
Kinds == {"take", "try", "give", "maybe"}
StepsOf == [kind : Kinds, lock : Locks \cup {Reservation, Nobody},
            silo : Silos \cup {Everything, Nobody}, skip : Nat]

Busy(t) == command[t] # Nobody
AtStep(t) == Busy(t) /\ pc[t] <= Len(Program[command[t]])
StepAt(t) == Program[command[t]][pc[t]]

(* Whom a thread at step o keeps waiting: the owner of the mutex, or those *)
(* whose reservation goes with no other, or not with this one.             *)
Holders(t, o) ==
  IF o.lock # Reservation
  THEN {u \in Threads : owner[o.lock] = u}
  ELSE {u \in Threads \ {t} : /\ reserved[u] # Nobody
                              /\ Everything \in {o.silo, reserved[u]}}

(* reserve_silo refuses at once a Silo that another command is busy with.  *)
Refused(t, o) == /\ o.lock = Reservation
                 /\ \E u \in Threads \ {t} : /\ reserved[u] = o.silo
                                             /\ o.silo # Everything

Waits(t, u) == /\ AtStep(t)
               /\ StepAt(t).kind = "take"
               /\ u \in Holders(t, StepAt(t))

Holds(t, l) == IF l = Reservation THEN reserved[t] # Nobody ELSE owner[l] = t

(***************************************************************************)
(* The actions.                                                            *)
(***************************************************************************)
Begin(t) == /\ ~Busy(t)
            /\ \E c \in Commands : command' = [command EXCEPT ![t] = c]
            /\ pc' = [pc EXCEPT ![t] = 1]
            /\ UNCHANGED <<owner, reserved>>

Goto(t, i) == pc' = [pc EXCEPT ![t] = i] /\ UNCHANGED command

Take(t) ==
  /\ AtStep(t)
  /\ LET o == StepAt(t) IN
     /\ o.kind \in {"take", "try"}
     /\ Holders(t, o) = {}
     /\ ~Refused(t, o)
     /\ IF o.lock = Reservation
        THEN reserved' = [reserved EXCEPT ![t] = o.silo] /\ UNCHANGED owner
        ELSE owner' = [owner EXCEPT ![o.lock] = t] /\ UNCHANGED reserved
  /\ Goto(t, pc[t] + 1)

GiveForgotten(t) == /\ AtStep(t)
                    /\ StepAt(t).kind = "give"
                    /\ Goto(t, pc[t] + 1)
                    /\ UNCHANGED <<owner, reserved>>
Give(t) == /\ AtStep(t)
           /\ StepAt(t).kind = "give"
           /\ owner' = [owner EXCEPT ![StepAt(t).lock] = Nobody]
           /\ Goto(t, pc[t] + 1)
           /\ UNCHANGED reserved

(* try_lock on a lock that somebody holds. *)
TryFails(t) == /\ AtStep(t)
               /\ StepAt(t).kind = "try"
               /\ Holders(t, StepAt(t)) # {}
               /\ Goto(t, pc[t] + StepAt(t).skip + 1)
               /\ UNCHANGED <<owner, reserved>>

Choose(t) == /\ AtStep(t)
             /\ StepAt(t).kind = "maybe"
             /\ \E i \in {1, StepAt(t).skip + 1} : Goto(t, pc[t] + i)
             /\ UNCHANGED <<owner, reserved>>

(* The end of a command, or its early return: all guards are dropped. *)
Return(t) == /\ Busy(t)
             /\ ~\E u \in Threads : Waits(t, u)
             /\ command' = [command EXCEPT ![t] = Nobody]
             /\ pc' = [pc EXCEPT ![t] = 1]
             /\ owner' = [l \in Locks |-> IF owner[l] = t THEN Nobody ELSE owner[l]]
             /\ reserved' = [reserved EXCEPT ![t] = Nobody]

Next == \E t \in Threads : \/ Begin(t)
                           \/ Take(t)
                           \/ Give(t)
                           \/ TryFails(t)
                           \/ Choose(t)
                           \/ Return(t)

Spec == Init /\ [][Next]_vars

(***************************************************************************)
(* What is assumed of the programs.                                        *)
(***************************************************************************)
Acquires(p, i, l) == p[i].kind \in {"take", "try"} /\ p[i].lock = l
Releases(p, i, l) == p[i].kind = "give" /\ p[i].lock = l

(* A program at step i may hold l: it took l and has not given it back. *)
MayHold(p, i, l) ==
  \E j \in 1..Len(p) : /\ j < i
                       /\ Acquires(p, j, l)
                       /\ \A k \in 1..Len(p) : j < k /\ k < i => ~Releases(p, k, l)

(* Passing over steps loses track of no lock: what it passes over gives    *)
(* back only what it has taken.                                            *)
SkipsWhole(p) ==
  \A i \in 1..Len(p) : \A l \in Locks \cup {Reservation} :
    p[i].kind \in {"try", "maybe"} /\ MayHold(p, i, l)
      => MayHold(p, i + p[i].skip + 1, l)

(* A lock is taken only by a program whose other locks rank lower. *)
InOrder(p) ==
  \A i \in 1..Len(p) : \A l \in Locks \cup {Reservation} :
    p[i].kind = "take" /\ MayHold(p, i, l) => Rank[l] < Rank[p[i].lock]

(* The last part says that ranks, of finitely many locks, have a maximum. *)
OrderAssumption ==
  /\ Nobody \notin Threads \cup Commands
  /\ Reservation \notin Locks \cup {Nobody}
  /\ Nobody \notin Silos \cup {Everything}
  /\ Rank \in [Locks \cup {Reservation} -> Nat]
  /\ \A c \in Commands :
       /\ Program[c] \in Seq(StepsOf)
       /\ \A i \in 1..Len(Program[c]) :
            LET o == Program[c][i] IN
              /\ o.kind \in {"take", "try"} => o.lock # Nobody
              /\ o.kind = "give" => o.lock \in Locks
              /\ o.kind = "maybe" \/ o.lock # Reservation \/ o.silo # Nobody
       /\ SkipsWhole(Program[c])
       /\ c \notin Unordered => InOrder(Program[c])
  /\ \A L \in SUBSET (Locks \cup {Reservation}) :
       L # {} => \E l \in L : \A m \in L : Rank[m] <= Rank[l]

(***************************************************************************)
(* Properties.                                                             *)
(***************************************************************************)
(* Each of these threads waits for another of them, or for itself. *)
Circular(S) == S # {} /\ \A t \in S : \E u \in S : Waits(t, u)

(* Threads that wait for each other without end include one that runs a    *)
(* command known not to keep to the order of the locks.  No other mix of   *)
(* commands, on however many threads, can stop the desktop.                *)
OnlyUnorderedDeadlock ==
  \A S \in SUBSET Threads : Circular(S) => \E t \in S : command[t] \in Unordered

(* No threads wait for each other without end. *)
NoCircularWait == \A S \in SUBSET Threads : ~Circular(S)
=============================================================================
