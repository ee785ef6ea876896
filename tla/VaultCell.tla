----------------------------- MODULE VaultCell ------------------------------
(***************************************************************************)
(* What the desktop's Vault file promises.  Unlike the Agent's stores      *)
(* (AtomicCell) a refused write does not stop the owner: memory keeps the  *)
(* old value, the refused one may or may not be what the next unlock reads,*)
(* and the next acknowledged write settles the doubt.  A value is lost only*)
(* with memory: locking drops it, and so does a crash.                     *)
(***************************************************************************)
CONSTANTS Values, None, Locked

VARIABLES mem,          \* the unlocked Vault, or Locked
          next,         \* the value of the write in progress, or None
          status,       \* "idle" or "writing"
          recoverable   \* what the next unlock may read; None: no Vault

vars == <<mem, next, status, recoverable>>

Init == /\ mem = Locked
        /\ next = None
        /\ status = "idle"
        /\ \E v \in Values \cup {None} : recoverable = {v}

Unlock == /\ status = "idle"
          /\ mem' \in recoverable \ {None}
          /\ UNCHANGED <<next, status, recoverable>>

Attempt(v) == /\ status = "idle"
              /\ status' = "writing"
              /\ next' = v
              /\ UNCHANGED <<mem, recoverable>>

Expose == /\ status = "writing"
          /\ recoverable' = recoverable \cup {next}
          /\ UNCHANGED <<mem, next, status>>

Settle == /\ recoverable' \in (SUBSET recoverable) \ {{}}
          /\ UNCHANGED <<mem, next, status>>

\* From here on an unlock reads this value or a later one.
Commit == /\ status = "writing"
          /\ next \in recoverable
          /\ recoverable' = {next}
          /\ mem' \in {next, mem, Locked}
          /\ next' = None
          /\ status' = "idle"

Refuse == /\ status = "writing"
          /\ mem' \in {mem, Locked}
          /\ next' = None
          /\ status' = "idle"
          /\ UNCHANGED recoverable

Close == /\ mem' = Locked
         /\ next' = None
         /\ status' = "idle"
         /\ recoverable' \in (SUBSET recoverable) \ {{}}

Next == \/ Unlock
        \/ \E v \in Values : Attempt(v)
        \/ Expose
        \/ Settle
        \/ Commit
        \/ Refuse
        \/ Close

Spec == Init /\ [][Next]_vars
=============================================================================
