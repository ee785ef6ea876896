----------------------------- MODULE AuthStore ------------------------------
(***************************************************************************)
(* The authentication state of the Remote Agent (auth_store.rs): one-time  *)
(* pairing tokens, control credentials, replay claims, TLS pin rotations   *)
(* and the global response sequence.                                       *)
(*                                                                         *)
(* Persistence is the atomic cell that AuthFile implements: a commit that  *)
(* fails leaves the old or the new state on disk and poisons the store.    *)
(* A token, a credential and a request identity (request id and nonce) are *)
(* model values; whoever presents a token or a credential knows its        *)
(* secret.  Any request may arrive, again and in any order: the clients    *)
(* and the network are not modelled.  The new pin is part of a rotation's  *)
(* identity.                                                               *)
(***************************************************************************)
EXTENDS Integers, Sequences, FiniteSets

CONSTANTS Tokens, Credentials, Requests,
          None,
          MaxSequence,          \* bound on the sequences clients choose
          MaxCredentials,       \* MAX_CREDENTIALS
          MaxPairingClaims,     \* MAX_PAIRING_REPLAY_CLAIMS
          MaxOperationClaims,   \* MAX_OPERATION_REPLAY_CLAIMS
          TokenLifetime, CredentialLifetime, RotationLifetime,
          MaxTime,              \* bound on the clock
          MaxResponses          \* bound on the response sequence

TokenRecord == [id : Tokens, expires : Nat]
CredentialRecord == [expires : Nat, revoked : BOOLEAN, last : Nat]
Rotation == [token : Tokens, credential : Credentials, request : Requests,
             response : Nat, expires : Nat]

ASSUME LimitsAssumption ==
    /\ {MaxSequence, MaxCredentials, MaxPairingClaims, MaxOperationClaims,
        TokenLifetime, CredentialLifetime, RotationLifetime} \subseteq Nat \ {0}
    /\ None \notin Tokens \cup Credentials \cup Requests
                \cup TokenRecord \cup CredentialRecord \cup Rotation

VARIABLES state,     \* AuthStore.state, or what a restart will load
          disk,      \* the state file
          poisoned,  \* AuthStore.poisoned
          serving,   \* the daemon runs and holds the lock
          now,       \* the clock
          issued,    \* tokens and credentials already generated
          history    \* what the outside has been told, in order

vars == <<state, disk, poisoned, serving, now, issued, history>>



\* A claim carries the response number it was committed with, which orders the
\* queue of claims.
OperationClaim == [credential : Credentials, request : Requests, at : Nat]

AuthState == [response : Nat,
              token : TokenRecord \cup {None},
              credentials : [Credentials -> CredentialRecord \cup {None}],
              pairingClaims : Seq(Requests),
              operationClaims : SUBSET OperationClaim,
              rotations : SUBSET Rotation]

Reply == [kind : {"paired"}, response : Nat, token : Tokens,
          credential : Credentials, claim : Rotation \cup {None}]
         \cup [kind : {"authorized"}, response : Nat, rotation : Rotation]
         \cup [kind : {"operation"}, response : Nat, credential : Credentials,
               request : Requests, sequence : Nat]
         \cup [kind : {"rejected"}, response : Nat]
         \cup [kind : {"revoked"}, credentials : SUBSET Credentials]

TypeOK == /\ state \in AuthState
          /\ disk \in AuthState
          /\ poisoned \in BOOLEAN
          /\ serving \in BOOLEAN
          /\ now \in Nat
          /\ issued \subseteq Tokens \cup Credentials
          /\ history \in Seq(Reply)

EmptyState == [response |-> 0, token |-> None,
               credentials |-> [c \in Credentials |-> None],
               pairingClaims |-> <<>>, operationClaims |-> {},
               rotations |-> {}]

Init == /\ state = EmptyState
        /\ disk = EmptyState
        /\ poisoned = FALSE
        /\ serving = FALSE
        /\ now = 0
        /\ issued = {}
        /\ history = <<>>
-----------------------------------------------------------------------------
(* validate_state *)

Elements(s) == {s[i] : i \in DOMAIN s}

\* The credentials on record.
Known(s) == {c \in Credentials : s.credentials[c] # None}

OperationRequests(s) == {claim.request : claim \in s.operationClaims}

ValidState(s) ==
    /\ Cardinality(Known(s)) <= MaxCredentials
    /\ Len(s.pairingClaims) <= MaxPairingClaims
    /\ Cardinality(s.operationClaims) <= MaxOperationClaims
    /\ \A i, j \in DOMAIN s.pairingClaims :
          s.pairingClaims[i] = s.pairingClaims[j] => i = j
    /\ \A a, b \in s.operationClaims : a.request = b.request => a = b
    /\ \A claim \in s.operationClaims : claim.credential \in Known(s)
    /\ \A r \in s.rotations :
          /\ r.response \in 1..s.response
          /\ r.credential \in Known(s)
          /\ s.token # None /\ s.token.id = r.token
          /\ \E claim \in s.operationClaims :
                claim.credential = r.credential /\ claim.request = r.request
    /\ \A r1, r2 \in s.rotations : r1.token = r2.token => r1 = r2

Active(s, c) == /\ c \in Known(s)
                /\ ~s.credentials[c].revoked
                /\ s.credentials[c].expires > now

\* A full window drops its oldest claim.
PairingClaim(claims, request) ==
    Append(IF Len(claims) = MaxPairingClaims THEN Tail(claims) ELSE claims, request)

KeptClaims(claims) ==
    IF Cardinality(claims) = MaxOperationClaims
    THEN {claim \in claims : \E older \in claims : older.at < claim.at}
    ELSE claims

\* commit: a valid state reaches the disk and memory, and then the caller; a
\* failing write leaves either state on disk and stops further commits.
Commit(s, reply) ==
    /\ ~poisoned
    /\ ValidState(s)
    /\ \/ /\ state' = s
          /\ disk' = s
          /\ history' = Append(history, reply)
          /\ UNCHANGED poisoned
       \/ /\ disk' \in {disk, s}
          /\ poisoned' = TRUE
          /\ UNCHANGED <<state, history>>
-----------------------------------------------------------------------------
(* Commands of the operator, run while the daemon does not hold the lock *)

\* issue_pairing_token: the new token replaces any other, and with it every
\* pending rotation.
IssueToken(s, t) == [s EXCEPT !.token = [id |-> t, expires |-> now + TokenLifetime],
                              !.rotations = {}]

IssuePairingToken(t) ==
    /\ ~serving
    /\ t \notin issued
    /\ ValidState(IssueToken(disk, t))
    /\ disk' = IssueToken(disk, t)
    /\ state' = disk'
    /\ issued' = issued \cup {t}
    /\ UNCHANGED <<poisoned, serving, now, history>>

\* A write that reached the disk may still fail and go unreported.
RevokeAllCredentials ==
    /\ ~serving
    /\ disk' = [disk EXCEPT !.credentials =
                   [c \in Credentials |-> IF @[c] = None THEN None
                                          ELSE [@[c] EXCEPT !.revoked = TRUE]]]
    /\ state' = disk'
    /\ \E c \in Known(disk) : ~disk.credentials[c].revoked
    /\ history' \in {history,
                     Append(history, [kind |-> "revoked",
                                      credentials |-> Known(disk)])}
    /\ UNCHANGED <<poisoned, serving, now, issued>>
-----------------------------------------------------------------------------
(* Requests to the daemon *)

\* Mutant: a rotation that expired binds its token no more.
FreshRotationMatches(t, claim) ==
    LET pending == {r \in state.rotations : r.token = t /\ r.expires > now} IN
    IF pending = {} THEN claim = None
    ELSE \E r \in pending : claim = r /\ Active(state, r.credential)

\* redeem_pairing_token_inner: a token bound to a rotation wants exactly that
\* rotation, still fresh and from a credential still active.
RotationMatches(t, claim) ==
    LET pending == {r \in state.rotations : r.token = t} IN
    IF pending = {} THEN claim = None
    ELSE \E r \in pending : /\ claim = r
                            /\ r.expires > now
                            /\ Active(state, r.credential)

ActiveCredentials(s) == {c \in Known(s) : Active(s, c)}

NewCredential == [expires |-> now + CredentialLifetime, revoked |-> FALSE, last |-> 0]

\* Mutant: the new credential has no expiry.
PairedForever(s, t, request, new) ==
    LET kept == ActiveCredentials(s) IN
    [response |-> s.response + 1,
     token |-> None,
     credentials |-> [c \in Credentials |->
         IF c = new THEN [expires |-> None, revoked |-> FALSE, last |-> 0]
         ELSE IF c \in kept THEN s.credentials[c] ELSE None],
     pairingClaims |-> PairingClaim(s.pairingClaims, request),
     operationClaims |-> {claim \in s.operationClaims : claim.credential \in kept},
     rotations |-> {r \in s.rotations : r.token # t}]

\* Mutant: the claims of forgotten credentials stay.
PairedClaimsKept(s, t, request, new) ==
    [response |-> s.response + 1,
     token |-> None,
     credentials |-> [c \in Credentials |->
         IF c = new THEN NewCredential
         ELSE IF c \in ActiveCredentials(s) THEN s.credentials[c] ELSE None],
     pairingClaims |-> PairingClaim(s.pairingClaims, request),
     operationClaims |-> s.operationClaims,
     rotations |-> {r \in s.rotations : r.token # t}]

\* Pairing forgets inactive credentials and their claims, consumes the token
\* and its rotation, and adds the new credential.
Paired(s, t, request, new) ==
    LET kept == ActiveCredentials(s) IN
    [response |-> s.response + 1,
     token |-> None,
     credentials |-> [c \in Credentials |->
         IF c = new THEN NewCredential
         ELSE IF c \in kept THEN s.credentials[c] ELSE None],
     pairingClaims |-> PairingClaim(s.pairingClaims, request),
     operationClaims |-> {claim \in s.operationClaims : claim.credential \in kept},
     rotations |-> {r \in s.rotations : r.token # t}]

RedeemPairingToken(t, request, claim, new) ==
    /\ serving
    /\ new \notin issued
    /\ request \notin Elements(state.pairingClaims)
    /\ state.token # None
    /\ state.token.expires > now
    /\ state.token.id = t
    /\ RotationMatches(t, claim)
    /\ Cardinality(ActiveCredentials(state)) < MaxCredentials
    /\ Commit(Paired(state, t, request, new),
              [kind |-> "paired", response |-> state.response + 1, token |-> t,
               credential |-> new, claim |-> claim])
    /\ issued' = issued \cup {new}
    /\ UNCHANGED <<serving, now>>

\* Mutant: only the window of recent claims keeps replays out.
AuthenticatedByWindow(c, request, sequence) ==
    /\ serving
    /\ Active(state, c)
    /\ request \notin OperationRequests(state)

\* A request of credential c passes authentication and the replay check.
Authenticated(c, request, sequence) ==
    /\ serving
    /\ Active(state, c)
    /\ sequence > state.credentials[c].last
    /\ request \notin OperationRequests(state)

\* What every authenticated request commits.
Claimed(s, c, request, sequence) ==
    [s EXCEPT !.credentials[c].last = sequence,
              !.operationClaims = KeptClaims(@) \cup {[credential |-> c, request |-> request,
                                                        at |-> s.response + 1]},
              !.response = @ + 1]

\* authorize_pin_rotation; at most one rotation is pending, because each
\* belongs to the one outstanding token.
AuthorizePinRotation(c, request, sequence, t) ==
    LET rotation == [token |-> t, credential |-> c, request |-> request,
                     response |-> state.response + 1,
                     expires |-> now + RotationLifetime]
        kept == {r \in state.rotations : r.expires > now /\ r.token # t}
    IN
    /\ Authenticated(c, request, sequence)
    /\ state.token # None
    /\ state.token.id = t
    /\ state.token.expires > now
    /\ Commit([Claimed(state, c, request, sequence) EXCEPT
                   !.rotations = kept \cup {rotation}],
              [kind |-> "authorized", response |-> state.response + 1,
               rotation |-> rotation])
    /\ UNCHANGED <<serving, now, issued>>

AuthenticateOperation(c, request, sequence) ==
    /\ Authenticated(c, request, sequence)
    /\ Commit(Claimed(state, c, request, sequence),
              [kind |-> "operation", response |-> state.response + 1,
               credential |-> c, request |-> request, sequence |-> sequence])
    /\ UNCHANGED <<serving, now, issued>>

\* A refused pairing, or a request refused before it is authenticated.
ReserveResponseSequence ==
    /\ serving
    /\ Commit([state EXCEPT !.response = @ + 1],
              [kind |-> "rejected", response |-> state.response + 1])
    /\ UNCHANGED <<serving, now, issued>>
-----------------------------------------------------------------------------
Serve == /\ ~serving
         /\ ValidState(disk)
         /\ serving' = TRUE
         /\ UNCHANGED <<state, disk, poisoned, now, issued, history>>

\* The daemon stops or dies; the next process reads the disk.
Stop == /\ serving
        /\ serving' = FALSE
        /\ state' = disk
        /\ poisoned' = FALSE
        /\ UNCHANGED <<disk, now, issued, history>>

Tick == /\ now < MaxTime
        /\ now' = now + 1
        /\ UNCHANGED <<state, disk, poisoned, serving, issued, history>>

\* Rotation claims a client can present: every one it was ever given.
GrantedRotations == {history[i].rotation :
                        i \in {j \in DOMAIN history : history[j].kind = "authorized"}}

Room == state.response < MaxResponses

Next ==
    \/ \E t \in Tokens : IssuePairingToken(t)
    \/ RevokeAllCredentials
    \/ \E t \in Tokens, request \in Requests, new \in Credentials,
          claim \in GrantedRotations \cup {None} :
             Room /\ RedeemPairingToken(t, request, claim, new)
    \/ \E c \in Credentials, request \in Requests, sequence \in 1..MaxSequence,
          t \in Tokens :
             Room /\ AuthorizePinRotation(c, request, sequence, t)
    \/ \E c \in Credentials, request \in Requests, sequence \in 1..MaxSequence :
             Room /\ AuthenticateOperation(c, request, sequence)
    \/ Room /\ ReserveResponseSequence
    \/ Serve
    \/ Stop
    \/ Tick

Spec == Init /\ [][Next]_vars
-----------------------------------------------------------------------------
Replies(kind) == {i \in DOMAIN history : history[i].kind = kind}

\* Response numbers only grow in the order the outside learns them, across
\* failed writes, poisoning and restarts: a client that keeps the highest one
\* it saw never rejects an honest answer, nor accepts an older one again.
ResponsesIncrease ==
    \A i, j \in DOMAIN history \ Replies("revoked") :
        i < j => history[i].response < history[j].response

\* No request is answered as authentic twice, although its replay claim may
\* have been evicted, pruned or lost to a crash in between.
OperationsOnce ==
    \A i, j \in Replies("operation") :
        /\ history[i].credential = history[j].credential
        /\ history[i].sequence = history[j].sequence
        => i = j

\* One pairing token never yields two credentials.
TokensOnce ==
    \A i, j \in Replies("paired") :
        history[i].token = history[j].token => i = j

\* Once a rotation has been granted for a token, the token can only be redeemed
\* with the rotation granted last, and not after the old credential has been
\* revoked: neither time, nor traffic, nor a restart turns it back into a token
\* for a plain pairing.
BoundTokenNeedsItsRotation ==
    \A i \in Replies("paired") :
        LET granted == {j \in Replies("authorized") :
                           j < i /\ history[j].rotation.token = history[i].token}
        IN granted # {} =>
             \E j \in granted :
                /\ \A k \in granted : k <= j
                /\ history[i].claim = history[j].rotation
                /\ \A k \in Replies("revoked") :
                      j < k /\ k < i =>
                        history[j].rotation.credential \notin history[k].credentials

\* A credential that revoke-all reported as revoked authenticates nothing more.
RevokedStaysRevoked ==
    \A k \in Replies("revoked"), i \in DOMAIN history :
        k < i =>
          /\ history[i].kind = "operation" =>
                history[i].credential \notin history[k].credentials
          /\ history[i].kind = "authorized" =>
                history[i].rotation.credential \notin history[k].credentials

\* Nothing is accepted twice, across failed writes, poisoning and restarts:
\* neither a request, nor a token, nor by a client an older answer.
NothingTwice == ResponsesIncrease /\ OperationsOnce /\ TokensOnce

\* What a revocation ends stays ended: the credential, and the token that was
\* bound to its rotation.
RevocationIsFinal == BoundTokenNeedsItsRotation /\ RevokedStaysRevoked

\* Pairing is never wedged by what earlier traffic left in the file: whenever
\* an unbound, unexpired token is outstanding and a credential slot is free,
\* redeeming it produces a state that the commit accepts ("without allowing
\* normal, operator-approved pairings to permanently lock the service").
PairingNotWedged ==
    serving /\ state.token # None =>
      \A request \in Requests \ Elements(state.pairingClaims),
         new \in Credentials \ issued :
           (/\ state.token.expires > now
            /\ RotationMatches(state.token.id, None)
            /\ Cardinality(ActiveCredentials(state)) < MaxCredentials)
           => ValidState(Paired(state, state.token.id, request, new))

\* The same for operations ("This keeps normal traffic from exhausting the
\* service"): an authentic request with a fresh identity and sequence produces
\* a state that the commit accepts.
OperationsNotWedged ==
    \A c \in Credentials, request \in Requests, sequence \in 1..MaxSequence :
        Authenticated(c, request, sequence) =>
            ValidState(Claimed(state, c, request, sequence))
=============================================================================
