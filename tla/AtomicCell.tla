----------------------------- MODULE AtomicCell -----------------------------
(***************************************************************************)
(* What a crash-safe state file promises its owner.                        *)
(*                                                                         *)
(* The owner keeps one value in memory and asks for it to be replaced.  A  *)
(* restart reads one of the values in recoverable.  An attempted value may *)
(* become recoverable at any time before the attempt is answered; once the *)
(* attempt is acknowledged no restart can read anything else, and an       *)
(* attempt that is refused stops the owner from trying again.              *)
(***************************************************************************)
CONSTANTS Values,       \* what the file can hold
          Default       \* what a restart reads when nothing was ever written

VARIABLES mem,          \* the value the owner works from
          next,         \* the value of the attempt in progress, if any
          status,       \* what the owner may do
          recoverable   \* the values the next restart may read

vars == <<mem, next, status, recoverable>>

Init == /\ mem = Default
        /\ next = Default
        /\ status = "down"
        /\ recoverable = {Default}

\* A restart reads one recoverable value.
Open == /\ status = "down"
        /\ mem' \in recoverable
        /\ status' = "ready"
        /\ UNCHANGED <<next, recoverable>>

Attempt(v) == /\ status = "ready"
              /\ next' = v
              /\ status' = "writing"
              /\ UNCHANGED <<mem, recoverable>>

\* The attempted value reaches storage but is not yet the only one there.
Expose == /\ status = "writing"
          /\ recoverable' = recoverable \cup {next}
          /\ UNCHANGED <<mem, next, status>>

\* Storage forgets some of the values it might have returned.
Settle == /\ recoverable' \in (SUBSET recoverable) \ {{}}
          /\ UNCHANGED <<mem, next, status>>

\* The attempt is acknowledged: nothing older can be read again.
Commit == /\ status = "writing"
          /\ next \in recoverable
          /\ recoverable' = {next}
          /\ mem' = next
          /\ next' = Default
          /\ status' = "ready"

\* The attempt is refused: memory keeps the old value, and no more writes.
Refuse == /\ status = "writing"
          /\ status' = "poisoned"
          /\ next' = Default
          /\ UNCHANGED <<mem, recoverable>>

\* The process dies, with or without the machine.
Stop == /\ status' = "down"
        /\ recoverable' \in (SUBSET recoverable) \ {{}}
        /\ next' = Default
        /\ UNCHANGED mem

Next == \/ Open
        \/ \E v \in Values : Attempt(v)
        \/ Expose
        \/ Settle
        \/ Commit
        \/ Refuse
        \/ Stop

Spec == Init /\ [][Next]_vars
=============================================================================
