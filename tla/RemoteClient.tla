---------------------------- MODULE RemoteClient ----------------------------
(***************************************************************************)
(* The desktop's side of a self-hosted node (verisilo-remote-backend       *)
(* lib.rs, application/remote.rs): the remote part of the Vault, the       *)
(* operations that reach the network, and the Agent as far as a request is *)
(* accepted there (AuthStore has its side in full).                        *)
(*                                                                         *)
(* One command runs at a time, holding the remote and the Vault lock from  *)
(* its first read to its last save, but a request may be lost, answered    *)
(* without the answer arriving, or handled after the client gave up, and   *)
(* every save may be refused or left in doubt (VaultFile).  A credential is*)
(* named by the token it was issued for; there is one Silo, with at most   *)
(* one environment, at one origin; Pins are its TLS pins.  This build only *)
(* lets pair, rotate, revoke, force detach, stop, destroy, health and logs *)
(* reach the node: a binding is there from the start.                      *)
(***************************************************************************)
EXTENDS Naturals, FiniteSets

CONSTANTS Tokens, Pins,
          First,    \* the credential paired at the start
          Pin0,     \* and the pin it was issued under
          None,
          MaxCalls, \* bound on the commands
          MaxFaults \* bound on refused and doubted saves and on crashes

VARIABLES mem,       \* remote_control_plane of the unlocked Vault
          disk,      \* of the Vault a restart reads
          backup,    \* of the last Vault backup
          op,        \* the command in progress
          net,       \* requests under way
          agent,     \* what the Agent keeps
          revoked,   \* credentials reported revoked
          presented, \* how often each token was sent to rotate the pin
          calls, faults

vars == <<mem, disk, backup, op, net, agent, revoked, presented, calls, faults>>

Credentials == Tokens \cup {First}

\* The counters are the pairing's, the grants the binding's.
RemoteStates ==
  {r \in
    [pin : Pins, cred : Credentials \cup {None}, client : Nat, server : Nat,
     used : SUBSET Tokens, revokedAt : BOOLEAN,
     binding : Pins \cup {None}, \* the binding's endpoint
     grant : Credentials \cup {None}, \* whom the binding's authorizations were issued to
     receipt : BOOLEAN] :
    /\ r.cred = None => r.client = 0 /\ r.server = 0
    /\ r.binding = None => r.grant = None}

Requests == [id : Nat, kind : {"operate", "destroy", "pair", "authorize", "redeem"},
             cred : Credentials \cup {None}, seq : Nat, token : Tokens \cup {None},
             pin : Pins]

Operations == [step : {"idle", "authorize", "waiting", "save", "authorized"},
               request : Requests \cup {None}, reply : {None, "done", "refused"},
               new : RemoteStates \cup {None}, seq : Nat]

Nodes == [last : [Credentials -> Nat \cup {None}], issued : [Credentials -> Pins],
          redeemed : SUBSET Tokens, claims : SUBSET Tokens, response : Nat, live : BOOLEAN]

RemoteAssumption ==
    /\ First \notin Tokens /\ Pin0 \in Pins /\ {MaxCalls, MaxFaults} \subseteq Nat
    /\ None \notin Credentials \cup Pins \cup {"done", "refused"}
    /\ None \notin Requests /\ None \notin RemoteStates /\ None \notin Nat

NoOp == [step |-> "idle", request |-> None, reply |-> None, new |-> None, seq |-> 0]

TypeOK == /\ mem \in RemoteStates /\ disk \in RemoteStates
          /\ backup \in RemoteStates \cup {None}
          /\ op \in Operations
          /\ net \subseteq Requests
          /\ agent \in Nodes
          /\ revoked \subseteq Credentials
          /\ presented \in [Tokens -> Nat]
          /\ calls \in Nat /\ faults \in Nat

Init == /\ mem = [pin |-> Pin0, cred |-> First, client |-> 0, server |-> 1, used |-> {},
                  revokedAt |-> FALSE, binding |-> Pin0, grant |-> First, receipt |-> FALSE]
        /\ disk = mem
        /\ backup = None
        /\ op = NoOp
        /\ net = {}
        /\ agent = [last |-> [c \in Credentials |-> IF c = First THEN 0 ELSE None],
                    issued |-> [c \in Credentials |-> Pin0],
                    redeemed |-> {}, claims |-> {}, response |-> 1, live |-> TRUE]
        /\ revoked = {}
        /\ presented = [t \in Tokens |-> 0]
        /\ calls = 0 /\ faults = 0
-----------------------------------------------------------------------------
Idle == op = NoOp

Call == calls < MaxCalls /\ calls' = calls + 1

\* persist_remote_control_plane: saved, refused, or on disk although it failed.
Save(new, next) ==
    \/ /\ mem' = new /\ disk' = new
       /\ op' = next
       /\ UNCHANGED faults
    \/ /\ disk' \in {disk, new}
       /\ op' = NoOp
       /\ faults < MaxFaults /\ faults' = faults + 1
       /\ UNCHANGED mem

NotSaved == UNCHANGED <<mem, disk, faults>>

Request(kind, cred, seq, token, pin) ==
    [id |-> 2 * calls + (IF kind = "redeem" THEN 2 ELSE 1), kind |-> kind, cred |-> cred,
     seq |-> seq, token |-> token, pin |-> pin]

\* Sends a request; state is what the backend holds once it is sent.
Send(request, state) ==
    /\ op' = [op EXCEPT !.step = "waiting", !.request = request, !.reply = None, !.new = state]
    /\ net' = net \cup {request}

\* reserve_authenticated_request: the sequence is spent before the request leaves.
Reserved(state) == [state EXCEPT !.client = @ + 1]
-----------------------------------------------------------------------------
(* Commands *)

\* execute_remote_operation: stop, health, logs; destroy.
Operate(kind) ==
    /\ Idle /\ Call
    /\ mem.cred # None /\ mem.binding # None
    /\ Send(Request(kind, mem.cred, mem.client + 1, None, mem.pin), Reserved(mem))
    /\ NotSaved
    /\ UNCHANGED <<backup, agent, revoked, presented>>

\* pair_remote_environment: bound Silos keep their endpoint.
Pair(t, p) ==
    /\ Idle /\ Call
    /\ mem.cred = None
    /\ mem.binding \in {None, p}
    /\ t \notin mem.used
    /\ Send(Request("pair", None, 0, t, p), [mem EXCEPT !.pin = p, !.used = @ \cup {t}])
    /\ NotSaved
    /\ UNCHANGED <<backup, agent, revoked, presented>>

Rotation(t, p) == [NoOp EXCEPT !.request = Request("authorize", mem.cred, 0, t, p), !.new = mem]

\* rotate_remote_environment_tls_pin, phase 1: the token is burned on disk before
\* anything is sent; the attempt itself starts from the state before that.
StartRotation(t, p) ==
    /\ Idle /\ Call
    /\ mem.cred # None /\ t \notin mem.used
    /\ Save([mem EXCEPT !.used = @ \cup {t}], [Rotation(t, p) EXCEPT !.step = "authorize"])
    /\ UNCHANGED <<backup, net, agent, revoked, presented>>

\* Mutant: the attempt is saved over the burned token.
AuthorizeForgetsToken ==
    /\ op.step = "authorize"
    /\ IF op.request.pin = mem.pin
       THEN /\ op' = [op EXCEPT !.step = "save"]
            /\ UNCHANGED net
       ELSE Send([op.request EXCEPT !.seq = op.new.client + 1], Reserved(op.new))
    /\ NotSaved
    /\ UNCHANGED <<backup, agent, revoked, presented, calls>>

\* begin_tls_pin_rotation: over the old pin, with the old credential.
Authorize ==
    /\ op.step = "authorize"
    /\ LET burned == [op.new EXCEPT !.used = @ \cup {op.request.token}]
           p == op.request.pin
       IN IF p = mem.pin
          THEN /\ op' = [op EXCEPT !.step = "save", !.new = burned]
               /\ UNCHANGED net
          ELSE Send([op.request EXCEPT !.seq = burned.client + 1], Reserved(burned))
    /\ NotSaved
    /\ UNCHANGED <<backup, agent, revoked, presented, calls>>

\* finish_tls_pin_rotation: the token and the claim go to the new pin.
Redeem ==
    /\ op.step = "authorized"
    /\ LET t == op.request.token
       IN /\ Send([op.request EXCEPT !.kind = "redeem", !.id = @ + 1], mem)
          /\ presented' = [presented EXCEPT ![t] = @ + 1]
    /\ NotSaved
    /\ UNCHANGED <<backup, agent, revoked, calls>>

\* Mutant: the authorizations survive the credential they were issued to.
RevokeKeepsGrants ==
    /\ Idle /\ Call
    /\ mem.cred # None
    /\ Save([mem EXCEPT !.cred = None, !.client = 0, !.server = 0, !.revokedAt = TRUE], NoOp)
    /\ revoked' = IF mem' # mem THEN revoked \cup {mem.cred} ELSE revoked
    /\ UNCHANGED <<backup, net, agent, presented>>

\* Mutant: only the credential goes.
RevokeKeepsCounters ==
    /\ Idle /\ Call
    /\ mem.cred # None
    /\ Save([mem EXCEPT !.cred = None, !.revokedAt = TRUE, !.grant = None], NoOp)
    /\ revoked' = IF mem' # mem THEN revoked \cup {mem.cred} ELSE revoked
    /\ UNCHANGED <<backup, net, agent, presented>>

Revoke ==
    /\ Idle /\ Call
    /\ mem.cred # None
    /\ Save([mem EXCEPT !.cred = None, !.client = 0, !.server = 0, !.revokedAt = TRUE,
                        !.grant = None], NoOp)
    /\ revoked' = IF mem' # mem THEN revoked \cup {mem.cred} ELSE revoked
    /\ UNCHANGED <<backup, net, agent, presented>>

\* The binding becomes a receipt; the Agent is not told.
ForceDetach ==
    /\ Idle /\ Call
    /\ mem.binding # None
    /\ Save([mem EXCEPT !.binding = None, !.grant = None, !.receipt = TRUE], NoOp)
    /\ UNCHANGED <<backup, net, agent, revoked, presented>>
-----------------------------------------------------------------------------
(* The Agent *)

Authenticated(m) == /\ agent.last[m.cred] # None
                    /\ m.seq > agent.last[m.cred]

Answer(m, reply) ==
    /\ net' = net \ {m}
    /\ op' = IF op.step = "waiting" /\ op.request = m
             THEN [op EXCEPT !.reply = reply, !.seq = agent.response + 1] ELSE op
    /\ NotSaved
    /\ UNCHANGED <<backup, revoked, presented, calls>>

\* A token is redeemed once; one bound to a rotation only after its claim.
AgentPairs(m) ==
    /\ m.kind \in {"pair", "redeem"}
    /\ IF m.token \notin agent.redeemed /\ (m.kind = "redeem" => m.token \in agent.claims)
       THEN /\ agent' = [agent EXCEPT !.last[m.token] = 0, !.issued[m.token] = m.pin,
                                      !.redeemed = @ \cup {m.token}, !.response = @ + 1]
            /\ Answer(m, "done")
       ELSE /\ agent' = [agent EXCEPT !.response = @ + 1]
            /\ Answer(m, "refused")

AgentOperates(m) ==
    /\ m.kind \in {"operate", "destroy", "authorize"}
    /\ IF Authenticated(m)
       THEN \/ /\ agent' = [agent EXCEPT !.last[m.cred] = m.seq, !.response = @ + 1,
                                !.live = @ /\ m.kind # "destroy",
                                !.claims = IF m.kind = "authorize" THEN @ \cup {m.token} ELSE @]
               /\ Answer(m, "done")
            \/ /\ agent' = [agent EXCEPT !.last[m.cred] = m.seq, !.response = @ + 1]
               /\ Answer(m, "refused")
       ELSE /\ agent' = [agent EXCEPT !.response = @ + 1]
            /\ Answer(m, "refused")

Lose(m) == /\ net' = net \ {m}
           /\ NotSaved
           /\ UNCHANGED <<backup, op, agent, revoked, presented, calls>>
-----------------------------------------------------------------------------
(* The answer, or its absence *)

\* Mutant: an exchange without an answer leaves nothing to save.
HeardOrNothing(state) == IF op.reply = None THEN mem ELSE [state EXCEPT !.server = op.seq]

Heard(state) == IF op.reply = None THEN state ELSE [state EXCEPT !.server = op.seq]

\* Mutant: a destroy that was not answered counts as done.
UnboundEagerly(state) == [state EXCEPT !.binding = None, !.grant = None]

\* Only the deletion proof of the bound environment removes the binding.
Unbound(state) == IF op.reply = "done"
                  THEN [state EXCEPT !.binding = None, !.grant = None] ELSE state

Paired(state) == IF op.reply = "done"
                 THEN [state EXCEPT !.cred = op.request.token, !.client = 0,
                                    !.server = op.seq, !.revokedAt = FALSE]
                 ELSE state

\* Mutant: the bindings keep the old endpoint.
RotatedWithoutBindings(state) ==
    [state EXCEPT !.pin = op.request.pin, !.cred = op.request.token, !.client = 0,
                  !.server = op.seq, !.revokedAt = FALSE]

\* Endpoint, credential and bindings change together; no grant is inherited.
Rotated(state) ==
    [state EXCEPT !.pin = op.request.pin, !.cred = op.request.token, !.client = 0,
                  !.server = op.seq, !.revokedAt = FALSE,
                  !.binding = IF @ = None THEN None ELSE op.request.pin, !.grant = None]

\* The exchange ends with an answer (whose sequence must be new), or without one.
Ended == /\ op.step = "waiting"
         /\ op.reply # None => op.seq > op.new.server

Conclude(new) == /\ op' = [op EXCEPT !.step = "save", !.new = new]
                 /\ NotSaved
                 /\ UNCHANGED <<backup, net, agent, revoked, presented, calls>>

OperationEnds ==
    /\ Ended
    /\ CASE op.request.kind = "operate" -> Conclude(Heard(op.new))
         [] op.request.kind = "destroy" -> Conclude(Unbound(Heard(op.new)))
         [] op.request.kind = "pair" -> Conclude(Paired(op.new))
         [] op.request.kind = "authorize" -> Conclude(Heard(op.new))
         [] op.request.kind = "redeem" ->
              IF op.reply = "done" THEN Conclude(Rotated(op.new))
              ELSE /\ op' = NoOp
                   /\ NotSaved
                   /\ UNCHANGED <<backup, net, agent, revoked, presented, calls>>

Persist ==
    /\ op.step = "save"
    /\ Save(op.new, IF op.request.kind = "authorize" /\ op.reply = "done"
                    THEN [op EXCEPT !.step = "authorized"] ELSE NoOp)
    /\ UNCHANGED <<backup, net, agent, revoked, presented, calls>>
-----------------------------------------------------------------------------
(* The Vault around it *)

Backup == /\ Idle /\ backup = None /\ Call
          /\ backup' = mem
          /\ NotSaved
          /\ UNCHANGED <<op, net, agent, revoked, presented>>

LargerOf(a, b) == IF a > b THEN a ELSE b

\* Mutant: the tokens the backup knows of.
WithLedgersOfBackup(old) == [old EXCEPT !.receipt = @ \/ mem.receipt,
                                        !.revokedAt = @ \/ mem.revokedAt]

\* merge_preserved_remote_security_state
WithLedgers(old) == [old EXCEPT !.used = @ \cup mem.used, !.receipt = @ \/ mem.receipt,
                                !.revokedAt = @ \/ mem.revokedAt]

\* Mutant: a revocation is not an event to keep.
RestoredForgetsRevocation(old) ==
    IF mem.cred = None THEN WithLedgers(old)
    ELSE [WithLedgers(old) EXCEPT !.pin = mem.pin, !.cred = mem.cred,
              !.client = LargerOf(mem.client, old.client),
              !.server = LargerOf(mem.server, old.server)]

Restored(old) ==
    CASE mem.cred = None /\ mem.revokedAt ->
           [WithLedgers(old) EXCEPT !.pin = mem.pin, !.cred = None, !.client = 0, !.server = 0]
      [] mem.cred = None /\ ~mem.revokedAt -> WithLedgers(old)
      [] mem.cred # None /\ old.cred = mem.cred ->
           [WithLedgers(old) EXCEPT !.client = LargerOf(@, mem.client),
                                    !.server = LargerOf(@, mem.server)]
      [] OTHER ->
           [WithLedgers(old) EXCEPT !.pin = mem.pin, !.cred = mem.cred,
                                    !.client = mem.client, !.server = mem.server]

Restore ==
    /\ Idle /\ Call
    /\ backup # None
    /\ mem.binding = None
    /\ ~(mem.receipt /\ backup.binding # None)
    /\ mem.cred # None /\ backup.cred # None
         => mem.cred = backup.cred /\ mem.pin = backup.pin
    /\ backup.binding \in {None, Restored(backup).pin}
    /\ Save(Restored(backup), NoOp)
    /\ UNCHANGED <<backup, net, agent, revoked, presented>>

\* The Vault is locked and unlocked, or the desktop dies in a command.
Reload ==
    /\ mem' = disk
    /\ op' = NoOp
    /\ IF Idle THEN UNCHANGED faults
       ELSE faults < MaxFaults /\ faults' = faults + 1
    /\ UNCHANGED <<disk, backup, net, agent, revoked, presented, calls>>

Next == \/ \E kind \in {"operate", "destroy"} : Operate(kind)
        \/ \E t \in Tokens, p \in Pins : Pair(t, p) \/ StartRotation(t, p)
        \/ Authorize \/ Redeem
        \/ Revoke \/ ForceDetach
        \/ \E m \in net : AgentPairs(m) \/ AgentOperates(m) \/ Lose(m)
        \/ OperationEnds \/ Persist
        \/ Backup \/ Restore \/ Reload

Spec == Init /\ [][Next]_vars
-----------------------------------------------------------------------------
\* An environment that lives, and costs, at the node is bound or has an orphan
\* receipt in the Vault, through lost answers, failed saves, crashes and restores.
EnvironmentTracked ==
    agent.live => \A r \in {mem, disk} : r.binding # None \/ r.receipt

\* The pin, the credential issued under it and the binding's endpoint change together
\* or not at all, wherever a rotation is cut off.
PinsAgree == \A r \in {mem, disk} :
                /\ r.cred # None => agent.issued[r.cred] = r.pin
                /\ r.binding \in {None, r.pin}

\* An authorization for a live environment is never held under another credential
\* than the one it was issued to.
GrantsBelong == agent.live => \A r \in {mem, disk} : r.grant \in {None, r.cred}

\* A token leaves for the new pin at most once, over crashes, failed saves and
\* restores of older Vaults.
RotationTokenOnce == \A t \in Tokens : presented[t] <= 1

\* A credential reported revoked is never stored again, not even by a restore.
RevokedNeverReturns == mem.cred \notin revoked

\* A stored credential stays usable: the Agent is ahead of it by no more requests than
\* saves failed, so as many refused requests at most precede an accepted one.
SequencesCatchUp ==
    Idle /\ mem.cred # None =>
        /\ agent.last[mem.cred] # None
        /\ agent.last[mem.cred] <= mem.client + faults

\* Burned tokens stay burned and the counters of a credential never go back.
LedgersOnlyGrow ==
    [][/\ mem.used \subseteq mem'.used
       /\ mem.cred # None /\ mem'.cred = mem.cred
            => mem'.client >= mem.client /\ mem'.server >= mem.server]_vars
=============================================================================
