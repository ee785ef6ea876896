-------------------------- MODULE AuthStoreProofs ---------------------------
(***************************************************************************)
(* Proofs about AuthStore, for any set of tokens, credentials and requests *)
(* and any limits.                                                         *)
(*                                                                         *)
(* What the outside has been told is a history; what the next process will *)
(* go by is the state file.  The inductive invariant says that the file    *)
(* accounts for the history: every answer's number, the sequence of every  *)
(* operation, the end of every revoked credential, and the rotation that a *)
(* token was bound to.  A write in doubt is harmless because the file      *)
(* accounts for the history whether or not it holds the new state.         *)
(***************************************************************************)
EXTENDS AuthStore, FiniteSetTheorems, SequenceTheorems, TLAPS

Told(h, kind) == {i \in DOMAIN h : h[i].kind = kind}

\* No answer has a number the file has not reached.
CoversResponses(d, h) ==
    \A i \in DOMAIN h \ Told(h, "revoked") : h[i].response <= d.response

\* Nothing on file can be generated again.
CoversIssued(d, iss) ==
    /\ d.token # None => d.token.id \in iss
    /\ Known(d) \subseteq iss

\* A token that was redeemed is not outstanding.
CoversTokens(d, h, iss) ==
    \A i \in Told(h, "paired") :
        /\ h[i].token \in iss
        /\ d.token # None => d.token.id # h[i].token

\* A credential still on file remembers the last sequence it was answered for.
CoversOperations(d, h, iss) ==
    \A i \in Told(h, "operation") :
        /\ h[i].credential \in iss
        /\ h[i].credential \in Known(d) =>
               h[i].sequence <= d.credentials[h[i].credential].last

\* A credential reported as revoked is revoked, or forgotten for good.
CoversRevocations(d, h, iss) ==
    \A k \in Told(h, "revoked") : \A c \in h[k].credentials :
        /\ c \in iss
        /\ c \in Known(d) => d.credentials[c].revoked

\* The outstanding token keeps a rotation once one was granted for it, and none
\* on file is older than one that was granted for its token.
CoversRotations(d, h, iss) ==
    \A j \in Told(h, "authorized") :
        /\ h[j].rotation.token \in iss
        /\ h[j].rotation.response = h[j].response
        /\ \A r \in d.rotations :
              r.token = h[j].rotation.token =>
                  r = h[j].rotation \/ h[j].rotation.response < r.response
        /\ d.token # None /\ d.token.id = h[j].rotation.token =>
              \E r \in d.rotations : r.token = d.token.id

Accounts(d, h, iss) ==
    /\ CoversResponses(d, h)
    /\ CoversIssued(d, iss)
    /\ CoversTokens(d, h, iss)
    /\ CoversOperations(d, h, iss)
    /\ CoversRevocations(d, h, iss)
    /\ CoversRotations(d, h, iss)

\* Only a serving store is poisoned, and an unpoisoned one agrees with its file.
MemoryIsDisk == /\ poisoned => serving
                /\ ~poisoned => state = disk

FiniteState(s) == IsFiniteSet(Known(s)) /\ IsFiniteSet(s.operationClaims)

ServesValid == /\ serving => ValidState(state)
               /\ FiniteState(state) /\ FiniteState(disk)

IInv == /\ TypeOK
        /\ MemoryIsDisk
        /\ ServesValid
        /\ Accounts(disk, history, issued)
        /\ NothingTwice
        /\ RevocationIsFinal
-----------------------------------------------------------------------------
(* The history, and what one more answer must satisfy *)

\* Every entry of the history is a well-formed answer.
LEMMA ReplyFields ==
  ASSUME NEW e \in Reply
  PROVE  /\ e.kind \in {"paired", "authorized", "operation", "rejected", "revoked"}
         /\ e.kind # "revoked" => e.response \in Nat
         /\ e.kind = "paired" => e.token \in Tokens /\ e.credential \in Credentials
         /\ e.kind = "authorized" => e.rotation \in Rotation
         /\ e.kind = "operation" => e.credential \in Credentials /\ e.sequence \in Nat
         /\ e.kind = "revoked" => e.credentials \subseteq Credentials
BY DEF Reply

\* One more answer leaves the earlier ones where they were.
LEMMA AppendEntry ==
  ASSUME NEW h \in Seq(Reply), NEW e \in Reply
  PROVE  /\ Append(h, e) \in Seq(Reply)
         /\ DOMAIN h = 1..Len(h) /\ Len(h) \in Nat
         /\ DOMAIN Append(h, e) = DOMAIN h \cup {Len(h) + 1}
         /\ \A i \in DOMAIN h : /\ h[i] \in Reply /\ Append(h, e)[i] = h[i]
                                /\ i \in Nat /\ i < Len(h) + 1
         /\ Append(h, e)[Len(h) + 1] = e
BY AppendProperties, ElementOfSeq, LenProperties

\* The answers of a kind, with one more answer.
LEMMA AppendTold ==
  ASSUME NEW h \in Seq(Reply), NEW e \in Reply, NEW kind
  PROVE  /\ Told(h, kind) \subseteq DOMAIN h
         /\ e.kind = kind => Told(Append(h, e), kind) = Told(h, kind) \cup {Len(h) + 1}
         /\ e.kind # kind => Told(Append(h, e), kind) = Told(h, kind)
BY AppendEntry DEF Told

\* What one more answer must satisfy to be neither a second acceptance nor an
\* acceptance of what a revocation ended.
Fresh(h, e) ==
    /\ e.kind # "revoked" =>
          \A i \in DOMAIN h \ Told(h, "revoked") : h[i].response < e.response
    /\ e.kind = "operation" =>
          \A i \in Told(h, "operation") :
             h[i].credential = e.credential => h[i].sequence # e.sequence
    /\ e.kind = "paired" => \A i \in Told(h, "paired") : h[i].token # e.token
    /\ e.kind = "operation" =>
          \A k \in Told(h, "revoked") : e.credential \notin h[k].credentials
    /\ e.kind = "authorized" =>
          \A k \in Told(h, "revoked") : e.rotation.credential \notin h[k].credentials
    /\ e.kind = "paired" =>
          LET granted == {j \in Told(h, "authorized") : h[j].rotation.token = e.token} IN
          granted # {} =>
             \E j \in granted :
                /\ \A k \in granted : k <= j
                /\ e.claim = h[j].rotation
                /\ \A k \in Told(h, "revoked") :
                      h[j].rotation.credential \notin h[k].credentials

\* Telling the outside one more fresh answer keeps what is said of the history.
LEMMA FreshAnswer ==
  ASSUME history \in Seq(Reply), NothingTwice, RevocationIsFinal,
         NEW e \in Reply, Fresh(history, e), history' = Append(history, e)
  PROVE  NothingTwice' /\ RevocationIsFinal'
<1> DEFINE n == Len(history) + 1
<1>1. /\ n \in Nat /\ history'[n] = e /\ n \notin DOMAIN history
      /\ DOMAIN history' = DOMAIN history \cup {n}
      /\ \A i \in DOMAIN history : history'[i] = history[i] /\ i \in Nat /\ i < n
      /\ \A i \in DOMAIN history : history[i] \in Reply
  BY AppendEntry
<1>2. \A kind : /\ Replies(kind) = Told(history, kind)
                /\ Replies(kind) \subseteq DOMAIN history
                /\ Replies(kind)' = Replies(kind) \cup (IF e.kind = kind THEN {n} ELSE {})
  BY AppendTold, <1>1 DEF Replies, Told
<1> HIDE DEF n
<1>3. ResponsesIncrease'
  <2> SUFFICES ASSUME NEW i \in DOMAIN history' \ Replies("revoked")',
                      NEW j \in DOMAIN history' \ Replies("revoked")', i < j
               PROVE  history'[i].response < history'[j].response
    BY DEF ResponsesIncrease
  <2>1. i \in DOMAIN history \ Replies("revoked")
    BY <1>1, <1>2
  <2>2. CASE j = n
    BY <1>1, <1>2, <2>1, <2>2 DEF Fresh
  <2>3. CASE j \in DOMAIN history \ Replies("revoked")
    BY <1>1, <2>1, <2>3 DEF ResponsesIncrease, NothingTwice
  <2> QED BY <1>1, <1>2, <2>2, <2>3
<1>4. OperationsOnce'
  BY <1>1, <1>2 DEF OperationsOnce, NothingTwice, Fresh
<1>5. TokensOnce'
  BY <1>1, <1>2 DEF TokensOnce, NothingTwice, Fresh
<1>6. RevokedStaysRevoked'
  <2> SUFFICES ASSUME NEW k \in Replies("revoked")', NEW i \in DOMAIN history', k < i
               PROVE  /\ history'[i].kind = "operation" =>
                            history'[i].credential \notin history'[k].credentials
                      /\ history'[i].kind = "authorized" =>
                            history'[i].rotation.credential \notin history'[k].credentials
    BY DEF RevokedStaysRevoked
  <2>1. k \in Replies("revoked") /\ history'[k] = history[k]
    BY <1>1, <1>2
  <2>2. CASE i = n
    BY <1>1, <1>2, <2>1, <2>2 DEF Fresh
  <2>3. CASE i \in DOMAIN history
    BY <1>1, <2>1, <2>3 DEF RevokedStaysRevoked, RevocationIsFinal
  <2> QED BY <1>1, <2>2, <2>3
<1>7. BoundTokenNeedsItsRotation'
  <2> SUFFICES ASSUME NEW i \in Replies("paired")'
               PROVE  LET granted == {j \in Replies("authorized")' :
                             j < i /\ history'[j].rotation.token = history'[i].token}
                      IN granted # {} =>
                           \E j \in granted :
                              /\ \A k \in granted : k <= j
                              /\ history'[i].claim = history'[j].rotation
                              /\ \A k \in Replies("revoked")' :
                                    j < k /\ k < i =>
                                      history'[j].rotation.credential
                                        \notin history'[k].credentials
    BY DEF BoundTokenNeedsItsRotation
  <2> DEFINE granted == {j \in Replies("authorized")' :
                             j < i /\ history'[j].rotation.token = history'[i].token}
  <2>1. granted = {j \in Replies("authorized") :
                     j < i /\ history[j].rotation.token = history'[i].token}
    BY <1>1, <1>2
  <2>2. CASE i = n
    <3>1. granted = {j \in Told(history, "authorized") : history[j].rotation.token = e.token}
      BY <1>1, <1>2, <2>1, <2>2
    <3> QED BY <1>1, <1>2, <2>2, <3>1 DEF Fresh
  <2>3. CASE i \in Replies("paired")
    <3>1. history'[i] = history[i]
      BY <1>1, <1>2, <2>3
    <3>2. granted # {} =>
             \E j \in granted :
                /\ \A k \in granted : k <= j
                /\ history[i].claim = history[j].rotation
                /\ \A k \in Replies("revoked") :
                      j < k /\ k < i =>
                        history[j].rotation.credential \notin history[k].credentials
      <4> DEFINE known == {j \in Replies("authorized") :
                             j < i /\ history[j].rotation.token = history[i].token}
      <4>1. known # {} =>
               \E j \in known :
                  /\ \A k \in known : k <= j
                  /\ history[i].claim = history[j].rotation
                  /\ \A k \in Replies("revoked") :
                        j < k /\ k < i =>
                          history[j].rotation.credential \notin history[k].credentials
        BY <2>3 DEF BoundTokenNeedsItsRotation, RevocationIsFinal
      <4>2. granted = known
        BY <2>1, <3>1
      <4> QED BY <4>1, <4>2, Zenon
    <3>3. \A k \in Replies("revoked")' : k < i => k \in Replies("revoked") /\ history'[k] = history[k]
      BY <1>1, <1>2, <2>3
    <3> HIDE DEF granted
    <3>4. \A j \in granted : history'[j] = history[j]
      BY <1>1, <1>2, <2>1
    <3> QED BY <3>1, <3>2, <3>3, <3>4 DEF granted
  <2> QED BY <1>2, <2>2, <2>3
<1> QED BY <1>3, <1>4, <1>5, <1>6, <1>7 DEF NothingTwice, RevocationIsFinal
-----------------------------------------------------------------------------
(* What a file accounts for *)

\* A file that accounts for more answers accounts for the earlier ones, and no
\* less when more has been generated.
LEMMA EarlierAccounts ==
  ASSUME NEW d, NEW h \in Seq(Reply), NEW e \in Reply, NEW iss,
         Accounts(d, Append(h, e), iss)
  PROVE  Accounts(d, h, iss)
<1>1. /\ \A kind : Told(h, kind) \subseteq Told(Append(h, e), kind)
      /\ \A i \in DOMAIN h : i \in DOMAIN Append(h, e) /\ Append(h, e)[i] = h[i]
      /\ \A kind : Told(h, kind) \subseteq DOMAIN h
  BY AppendTold, AppendEntry
<1>2. CoversResponses(d, h)
  BY <1>1, AppendEntry DEF Accounts, CoversResponses, Told
<1> QED BY <1>1, <1>2 DEF Accounts, CoversIssued, CoversTokens, CoversOperations,
          CoversRevocations, CoversRotations

LEMMA MoreIssued ==
  ASSUME NEW d, NEW h, NEW iss, NEW jss, iss \subseteq jss, Accounts(d, h, iss)
  PROVE  Accounts(d, h, jss)
BY DEF Accounts, CoversResponses, CoversIssued, CoversTokens, CoversOperations,
   CoversRevocations, CoversRotations

\* commit keeps the invariant, written or in doubt, when the new state accounts
\* for the answer it is about to give and the answer is fresh.
LEMMA CommitKeeps ==
  ASSUME IInv, NEW s \in AuthState, FiniteState(s), NEW e \in Reply,
         serving, Commit(s, e), UNCHANGED <<serving, now>>,
         issued \subseteq issued', issued' \subseteq Tokens \cup Credentials,
         Fresh(history, e),
         Accounts(s, Append(history, e), issued')
  PROVE  IInv'
<1>1. ~poisoned /\ state = disk /\ ValidState(s) /\ ValidState(state)
  BY DEF IInv, MemoryIsDisk, ServesValid, Commit
<1>2. Accounts(disk, history, issued') /\ Accounts(s, history, issued')
  BY MoreIssued, EarlierAccounts DEF IInv, TypeOK
<1>3. CASE /\ state' = s
           /\ disk' = s
           /\ history' = Append(history, e)
           /\ UNCHANGED poisoned
  <2>1. TypeOK'
    BY <1>3, AppendEntry DEF IInv, TypeOK
  <2>2. MemoryIsDisk'
    BY <1>1, <1>3 DEF MemoryIsDisk
  <2>3. ServesValid'
    BY <1>1, <1>3 DEF IInv, ServesValid, ValidState, Known, FiniteState, Elements
  <2>4. NothingTwice' /\ RevocationIsFinal'
    BY <1>3, FreshAnswer DEF IInv, TypeOK
  <2> QED BY <1>3, <2>1, <2>2, <2>3, <2>4 DEF IInv
<1>4. CASE /\ disk' \in {disk, s}
           /\ poisoned' = TRUE
           /\ UNCHANGED <<state, history>>
  <2>1. TypeOK'
    BY <1>4 DEF IInv, TypeOK
  <2>2. MemoryIsDisk'
    BY <1>1, <1>4 DEF MemoryIsDisk
  <2>3. ServesValid'
    BY <1>1, <1>4 DEF IInv, ServesValid
  <2>4. NothingTwice' /\ RevocationIsFinal'
    BY <1>4 DEF IInv, NothingTwice, RevocationIsFinal, ResponsesIncrease, OperationsOnce,
       TokensOnce, BoundTokenNeedsItsRotation, RevokedStaysRevoked, Replies
  <2>5. Accounts(disk', history', issued')
    BY <1>2, <1>4
  <2> QED BY <2>1, <2>2, <2>3, <2>4, <2>5 DEF IInv
<1> QED BY <1>3, <1>4 DEF Commit
-----------------------------------------------------------------------------
(* The requests *)

\* What every authenticated request commits is a well-formed state that changes
\* one credential and one claim.
LEMMA ClaimedState ==
  ASSUME IInv, NEW c \in Credentials, NEW request \in Requests, NEW sequence \in Nat,
         Authenticated(c, request, sequence)
  PROVE  LET s == Claimed(state, c, request, sequence) IN
         /\ s \in AuthState /\ FiniteState(s)
         /\ s.response = state.response + 1
         /\ s.token = state.token /\ s.rotations = state.rotations
         /\ Known(s) = Known(state) /\ c \in Known(state)
         /\ s.credentials[c].last = sequence /\ state.credentials[c].last < sequence
         /\ ~state.credentials[c].revoked
         /\ \A d \in Credentials : d # c => s.credentials[d] = state.credentials[d]
         /\ s.credentials[c].revoked = state.credentials[c].revoked
<1> DEFINE s == Claimed(state, c, request, sequence)
           claim == [credential |-> c, request |-> request, at |-> state.response + 1]
<1>1. /\ state \in AuthState /\ state.credentials[c] \in CredentialRecord
      /\ c \in Known(state) /\ ~state.credentials[c].revoked
      /\ state.credentials[c].last < sequence
  BY DEF IInv, TypeOK, Authenticated, Active, Known, AuthState
<1>2. /\ claim \in OperationClaim
      /\ KeptClaims(state.operationClaims) \subseteq state.operationClaims
      /\ IsFiniteSet(state.operationClaims)
  BY <1>1 DEF OperationClaim, AuthState, KeptClaims, IInv, ServesValid, FiniteState
<1>3. IsFiniteSet(KeptClaims(state.operationClaims) \cup {claim})
  BY <1>2, FS_Subset, FS_AddElement
<1>4. /\ s.response = state.response + 1 /\ s.token = state.token
      /\ s.rotations = state.rotations /\ s.pairingClaims = state.pairingClaims
      /\ s.operationClaims = KeptClaims(state.operationClaims) \cup {claim}
      /\ s.credentials = [state.credentials EXCEPT ![c].last = sequence]
  BY <1>1 DEF Claimed, AuthState
<1>5. /\ s.credentials \in [Credentials -> CredentialRecord \cup {None}]
      /\ s.credentials[c] \in CredentialRecord
      /\ s.credentials[c].last = sequence
      /\ s.credentials[c].revoked = state.credentials[c].revoked
      /\ \A d \in Credentials : d # c => s.credentials[d] = state.credentials[d]
  BY <1>1, <1>4 DEF AuthState, CredentialRecord
<1>6. Known(s) = Known(state)
  BY <1>1, <1>5, LimitsAssumption DEF Known
<1>7. s \in AuthState
  <2> DEFINE claims == KeptClaims(state.operationClaims) \cup {claim}
             credentials == [state.credentials EXCEPT ![c].last = sequence]
  <2>1. claims \in SUBSET OperationClaim
    BY <1>1, <1>2 DEF AuthState
  <2>2. credentials \in [Credentials -> CredentialRecord \cup {None}]
    BY <1>4, <1>5
  <2>3. DOMAIN s = DOMAIN state /\ s = [f \in DOMAIN state |-> s[f]]
    BY <1>1 DEF Claimed, AuthState
  <2> HIDE DEF claims, credentials, s
  <2> QED BY <1>1, <1>4, <2>1, <2>2, <2>3 DEF AuthState, claims, credentials
<1>8. FiniteState(s)
  BY <1>3, <1>4, <1>6 DEF FiniteState, IInv, ServesValid
<1> QED BY <1>1, <1>4, <1>5, <1>6, <1>7, <1>8

\* What the file accounts for before any request: memory is the file.
LEMMA ServingAccounts ==
  ASSUME IInv, ~poisoned
  PROVE  /\ state = disk /\ state \in AuthState /\ state.response \in Nat
         /\ history \in Seq(Reply)
         /\ Accounts(state, history, issued)
         /\ \A i \in DOMAIN history \ Told(history, "revoked") :
               history[i].response \in Nat /\ history[i].response < state.response + 1
<1>1. /\ state = disk /\ state \in AuthState /\ state.response \in Nat
      /\ history \in Seq(Reply) /\ Accounts(state, history, issued)
  BY DEF IInv, TypeOK, MemoryIsDisk, AuthState
<1>2. \A i \in DOMAIN history \ Told(history, "revoked") :
         history[i].response \in Nat /\ history[i].response <= state.response
  <2>1. \A i \in DOMAIN history : history[i] \in Reply
    BY <1>1, ElementOfSeq, LenProperties
  <2> QED BY <1>1, <2>1, ReplyFields DEF Accounts, CoversResponses, Told
<1> QED BY <1>1, <1>2

\* An authenticated request is answered freshly, and the state that claims it
\* accounts for the answer: the sequence is above every one answered before for
\* that credential, which is not a revoked one.
LEMMA AuthenticatedAccounts ==
  ASSUME IInv, NEW c \in Credentials, NEW request \in Requests, NEW sequence \in Nat,
         Authenticated(c, request, sequence), ~poisoned,
         NEW s, s.response = state.response + 1, s.token = state.token,
         s.credentials = Claimed(state, c, request, sequence).credentials,
         NEW e \in Reply, e.kind \in {"operation", "authorized"},
         e.response = state.response + 1,
         e.kind = "operation" => e.credential = c /\ e.sequence = sequence,
         e.kind = "authorized" => e.rotation.credential = c
  PROVE  /\ Fresh(history, e)
         /\ CoversResponses(s, Append(history, e))
         /\ CoversIssued(s, issued)
         /\ CoversTokens(s, Append(history, e), issued)
         /\ CoversOperations(s, Append(history, e), issued)
         /\ CoversRevocations(s, Append(history, e), issued)
<1> DEFINE n == Len(history) + 1
<1>1. /\ Known(s) = Known(state) /\ c \in Known(state)
      /\ s.credentials[c].last = sequence /\ state.credentials[c].last < sequence
      /\ ~state.credentials[c].revoked
      /\ \A d \in Credentials : d # c => s.credentials[d] = state.credentials[d]
      /\ s.credentials[c].revoked = state.credentials[c].revoked
  BY ClaimedState DEF Known
<1>2. /\ state \in AuthState /\ state.response \in Nat
      /\ Accounts(state, history, issued) /\ history \in Seq(Reply)
      /\ \A i \in DOMAIN history \ Told(history, "revoked") :
            history[i].response \in Nat /\ history[i].response < state.response + 1
  BY ServingAccounts
<1>3. state.credentials[c].last \in Nat
  BY <1>1, <1>2, LimitsAssumption DEF AuthState, Known, CredentialRecord
<1>4. \A i \in DOMAIN history : history[i] \in Reply
  BY <1>2, AppendEntry
<1>5. /\ \A i \in DOMAIN history : Append(history, e)[i] = history[i]
      /\ Append(history, e)[n] = e
      /\ DOMAIN Append(history, e) = DOMAIN history \cup {n}
      /\ \A kind : Told(history, kind) \subseteq DOMAIN history
      /\ Told(Append(history, e), e.kind) = Told(history, e.kind) \cup {n}
      /\ \A kind : kind # e.kind => Told(Append(history, e), kind) = Told(history, kind)
  <2>1. /\ \A i \in DOMAIN history : Append(history, e)[i] = history[i]
        /\ Append(history, e)[n] = e
        /\ DOMAIN Append(history, e) = DOMAIN history \cup {n}
    BY <1>2, AppendEntry
  <2>2. \A kind : /\ Told(history, kind) \subseteq DOMAIN history
                  /\ e.kind = kind => Told(Append(history, e), kind) = Told(history, kind) \cup {n}
                  /\ kind # e.kind => Told(Append(history, e), kind) = Told(history, kind)
    BY <1>2, AppendTold
  <2> QED BY <2>1, <2>2, Zenon
<1> HIDE DEF n
<1>6. Fresh(history, e)
  <2>1. \A i \in Told(history, "operation") :
           history[i].credential = c => history[i].sequence # sequence
    BY <1>1, <1>2, <1>3, <1>4, ReplyFields DEF Accounts, CoversOperations, Told
  <2>2. \A k \in Told(history, "revoked") : c \notin history[k].credentials
    BY <1>1, <1>2 DEF Accounts, CoversRevocations
  <2> QED BY <1>2, <2>1, <2>2 DEF Fresh
<1>7. CoversResponses(s, Append(history, e))
  BY <1>2, <1>5 DEF CoversResponses
<1>8. CoversIssued(s, issued) /\ CoversTokens(s, Append(history, e), issued)
  BY <1>1, <1>2, <1>5 DEF Accounts, CoversIssued, CoversTokens
<1>9. CoversOperations(s, Append(history, e), issued)
  <2> SUFFICES ASSUME NEW i \in Told(Append(history, e), "operation")
               PROVE  /\ Append(history, e)[i].credential \in issued
                      /\ Append(history, e)[i].credential \in Known(s) =>
                            Append(history, e)[i].sequence <=
                               s.credentials[Append(history, e)[i].credential].last
    BY DEF CoversOperations
  <2>1. CASE i = n
    BY <1>1, <1>2, <1>5, <2>1 DEF Accounts, CoversIssued, Told
  <2>2. CASE i \in Told(history, "operation")
    <3>1. /\ history[i].credential \in issued
          /\ history[i].credential \in Known(state) =>
                history[i].sequence <= state.credentials[history[i].credential].last
          /\ history[i].credential \in Credentials /\ history[i].sequence \in Nat
      BY <1>2, <1>4, <2>2, ReplyFields DEF Accounts, CoversOperations, Told
    <3> QED BY <1>1, <1>3, <1>5, <2>2, <3>1
  <2> QED BY <1>5, <2>1, <2>2
<1>10. CoversRevocations(s, Append(history, e), issued)
  <2> SUFFICES ASSUME NEW k \in Told(history, "revoked"), NEW d \in history[k].credentials
               PROVE  d \in issued /\ (d \in Known(s) => s.credentials[d].revoked)
    BY <1>5 DEF CoversRevocations
  <2>1. d \in issued /\ (d \in Known(state) => state.credentials[d].revoked)
    BY <1>2 DEF Accounts, CoversRevocations
  <2> QED BY <1>1, <2>1 DEF Known
<1> QED BY <1>6, <1>7, <1>8, <1>9, <1>10

\* authenticate_operation keeps the invariant.
LEMMA AuthenticateOperationStep ==
  ASSUME IInv, NEW c \in Credentials, NEW request \in Requests, NEW sequence \in Nat,
         AuthenticateOperation(c, request, sequence)
  PROVE  IInv'
<1> DEFINE s == Claimed(state, c, request, sequence)
           e == [kind |-> "operation", response |-> state.response + 1,
                 credential |-> c, request |-> request, sequence |-> sequence]
<1>1. /\ Authenticated(c, request, sequence) /\ Commit(s, e)
      /\ UNCHANGED <<serving, now, issued>> /\ serving /\ ~poisoned
  BY DEF AuthenticateOperation, Authenticated, Commit
<1>2. /\ s \in AuthState /\ FiniteState(s)
      /\ s.response = state.response + 1
      /\ s.token = state.token /\ s.rotations = state.rotations
  BY <1>1, ClaimedState
<1>3. /\ Accounts(state, history, issued) /\ history \in Seq(Reply)
      /\ state.response \in Nat
  BY <1>1, ServingAccounts
<1>4. e \in Reply
  BY <1>3 DEF Reply
<1>5. /\ e.kind = "operation" /\ e.response = state.response + 1
      /\ e.credential = c /\ e.sequence = sequence
  OBVIOUS
<1> HIDE DEF e
<1>6. /\ Fresh(history, e)
      /\ CoversResponses(s, Append(history, e))
      /\ CoversIssued(s, issued)
      /\ CoversTokens(s, Append(history, e), issued)
      /\ CoversOperations(s, Append(history, e), issued)
      /\ CoversRevocations(s, Append(history, e), issued)
  BY <1>1, <1>2, <1>4, <1>5, AuthenticatedAccounts
<1> HIDE DEF s
<1>7. CoversRotations(s, Append(history, e), issued)
  <2>1. /\ Told(Append(history, e), "authorized") = Told(history, "authorized")
        /\ \A i \in Told(history, "authorized") : Append(history, e)[i] = history[i]
    BY <1>3, <1>4, <1>5, AppendEntry, AppendTold
  <2> QED BY <1>2, <1>3, <2>1 DEF Accounts, CoversRotations
<1>8. Accounts(s, Append(history, e), issued)
  BY <1>6, <1>7 DEF Accounts
<1> QED BY <1>1, <1>2, <1>4, <1>6, <1>8, CommitKeeps DEF IInv, TypeOK

\* authorize_pin_rotation keeps the invariant: the rotation it grants is newer
\* than every one granted before and binds the outstanding token.
LEMMA AuthorizePinRotationStep ==
  ASSUME IInv, NEW c \in Credentials, NEW request \in Requests, NEW sequence \in Nat,
         NEW t \in Tokens, AuthorizePinRotation(c, request, sequence, t)
  PROVE  IInv'
<1> DEFINE rotation == [token |-> t, credential |-> c, request |-> request,
                        response |-> state.response + 1,
                        expires |-> now + RotationLifetime]
           kept == {r \in state.rotations : r.expires > now /\ r.token # t}
           claimed == Claimed(state, c, request, sequence)
           s == [claimed EXCEPT !.rotations = kept \cup {rotation}]
           e == [kind |-> "authorized", response |-> state.response + 1,
                 rotation |-> rotation]
           n == Len(history) + 1
<1>1. /\ Authenticated(c, request, sequence) /\ Commit(s, e)
      /\ state.token # None /\ state.token.id = t
      /\ UNCHANGED <<serving, now, issued>> /\ serving /\ ~poisoned
  BY DEF AuthorizePinRotation, Authenticated, Commit
<1>2. /\ claimed \in AuthState /\ FiniteState(claimed)
      /\ claimed.response = state.response + 1
      /\ claimed.token = state.token
  BY <1>1, ClaimedState
<1>3. /\ Accounts(state, history, issued) /\ history \in Seq(Reply)
      /\ state.response \in Nat /\ state \in AuthState
      /\ \A i \in DOMAIN history \ Told(history, "revoked") :
            history[i].response \in Nat /\ history[i].response < state.response + 1
  BY <1>1, ServingAccounts
<1>4. /\ rotation \in Rotation /\ kept \subseteq Rotation
      /\ rotation.token = t /\ rotation.response = state.response + 1
      /\ rotation.credential = c
  BY <1>3, LimitsAssumption, SMTT(30) DEF Rotation, AuthState, IInv, TypeOK
<1>5. e \in Reply
  BY <1>3, <1>4 DEF Reply
<1>6. /\ e.kind = "authorized" /\ e.response = state.response + 1
      /\ e.rotation = rotation
  OBVIOUS
<1> HIDE DEF e, rotation, claimed
<1>7. /\ s \in AuthState /\ s.response = state.response + 1 /\ s.token = state.token
      /\ s.credentials = claimed.credentials /\ s.rotations = kept \cup {rotation}
      /\ s.operationClaims = claimed.operationClaims
  BY <1>2, <1>4 DEF AuthState
<1>8. FiniteState(s)
  BY <1>2, <1>7 DEF FiniteState, Known
<1> HIDE DEF s
<1>9. /\ Fresh(history, e)
      /\ CoversResponses(s, Append(history, e))
      /\ CoversIssued(s, issued)
      /\ CoversTokens(s, Append(history, e), issued)
      /\ CoversOperations(s, Append(history, e), issued)
      /\ CoversRevocations(s, Append(history, e), issued)
  BY <1>1, <1>4, <1>5, <1>6, <1>7, AuthenticatedAccounts DEF claimed
<1>10. CoversRotations(s, Append(history, e), issued)
  <2>1. /\ Told(Append(history, e), "authorized") = Told(history, "authorized") \cup {n}
        /\ \A i \in Told(history, "authorized") : Append(history, e)[i] = history[i]
        /\ Append(history, e)[n] = e
        /\ \A i \in Told(history, "authorized") :
              i \in DOMAIN history \ Told(history, "revoked")
    BY <1>3, <1>5, <1>6, AppendEntry, AppendTold DEF Told
  <2> HIDE DEF n
  <2>2. t \in issued
    BY <1>1, <1>3 DEF Accounts, CoversIssued
  <2> SUFFICES ASSUME NEW j \in Told(Append(history, e), "authorized")
               PROVE  LET g == Append(history, e)[j] IN
                      /\ g.rotation.token \in issued
                      /\ g.rotation.response = g.response
                      /\ \A r \in s.rotations :
                            r.token = g.rotation.token =>
                                r = g.rotation \/ g.rotation.response < r.response
                      /\ s.token # None /\ s.token.id = g.rotation.token =>
                            \E r \in s.rotations : r.token = s.token.id
    BY DEF CoversRotations
  <2>3. CASE j = n
    BY <1>1, <1>4, <1>6, <1>7, <2>1, <2>2, <2>3
  <2>4. CASE j \in Told(history, "authorized")
    <3>1. /\ history[j].rotation.token \in issued
          /\ history[j].rotation.response = history[j].response
          /\ \A r \in state.rotations :
                r.token = history[j].rotation.token =>
                    r = history[j].rotation \/ history[j].rotation.response < r.response
          /\ history[j].response < state.response + 1
      BY <1>3, <2>1, <2>4 DEF Accounts, CoversRotations
    <3> QED BY <1>1, <1>4, <1>7, <2>1, <2>4, <3>1
  <2> QED BY <2>1, <2>3, <2>4
<1>11. Accounts(s, Append(history, e), issued)
  BY <1>9, <1>10 DEF Accounts
<1> QED BY <1>1, <1>5, <1>7, <1>8, <1>9, <1>11, CommitKeeps DEF IInv, TypeOK

\* reserve_response_sequence keeps the invariant.
LEMMA ReserveResponseSequenceStep ==
  ASSUME IInv, ReserveResponseSequence
  PROVE  IInv'
<1> DEFINE s == [state EXCEPT !.response = @ + 1]
           e == [kind |-> "rejected", response |-> state.response + 1]
           n == Len(history) + 1
<1>1. Commit(s, e) /\ UNCHANGED <<serving, now, issued>> /\ serving /\ ~poisoned
  BY DEF ReserveResponseSequence, Commit
<1>2. /\ Accounts(state, history, issued) /\ history \in Seq(Reply)
      /\ state.response \in Nat /\ state \in AuthState
      /\ \A i \in DOMAIN history \ Told(history, "revoked") :
            history[i].response \in Nat /\ history[i].response < state.response + 1
  BY <1>1, ServingAccounts
<1>3. /\ e \in Reply /\ e.kind = "rejected" /\ e.response = state.response + 1
  BY <1>2 DEF Reply
<1>4. /\ s \in AuthState /\ s.response = state.response + 1 /\ s.token = state.token
      /\ s.credentials = state.credentials /\ s.rotations = state.rotations
      /\ s.operationClaims = state.operationClaims
  BY <1>2 DEF AuthState
<1> HIDE DEF e, s
<1>5. FiniteState(s) /\ Known(s) = Known(state)
  BY <1>4 DEF FiniteState, Known, IInv, ServesValid
<1>6. /\ \A i \in DOMAIN history : Append(history, e)[i] = history[i]
      /\ Append(history, e)[n] = e
      /\ DOMAIN Append(history, e) = DOMAIN history \cup {n}
  BY <1>2, <1>3, AppendEntry
<1>7. \A kind : /\ Told(history, kind) \subseteq DOMAIN history
                /\ kind # "rejected" => Told(Append(history, e), kind) = Told(history, kind)
  BY <1>2, <1>3, AppendTold
<1> HIDE DEF n
<1>8. Fresh(history, e)
  BY <1>2, <1>3 DEF Fresh
<1>9. Accounts(s, Append(history, e), issued)
  <2>1. CoversResponses(s, Append(history, e))
    BY <1>2, <1>3, <1>4, <1>6, <1>7 DEF CoversResponses
  <2>2. CoversIssued(s, issued) /\ CoversTokens(s, Append(history, e), issued)
    BY <1>2, <1>4, <1>5, <1>6, <1>7 DEF Accounts, CoversIssued, CoversTokens
  <2>3. CoversOperations(s, Append(history, e), issued)
    BY <1>2, <1>4, <1>5, <1>6, <1>7 DEF Accounts, CoversOperations
  <2>4. CoversRevocations(s, Append(history, e), issued)
    BY <1>2, <1>4, <1>5, <1>6, <1>7 DEF Accounts, CoversRevocations
  <2>5. CoversRotations(s, Append(history, e), issued)
    BY <1>2, <1>4, <1>6, <1>7 DEF Accounts, CoversRotations
  <2> QED BY <2>1, <2>2, <2>3, <2>4, <2>5 DEF Accounts
<1> QED BY <1>1, <1>3, <1>4, <1>5, <1>8, <1>9, CommitKeeps DEF IInv, TypeOK

\* Pairing keeps the active credentials as they are and knows no other but the
\* new one; no claim and no rotation is added.
LEMMA PairedState ==
  ASSUME IInv, serving, NEW t \in Tokens, NEW request \in Requests, NEW new \in Credentials,
         state.token # None, state.token.id = t
  PROVE  LET s == Paired(state, t, request, new) IN
         /\ s \in AuthState /\ FiniteState(s)
         /\ s.response = state.response + 1 /\ s.token = None
         /\ s.pairingClaims = PairingClaim(state.pairingClaims, request)
         /\ s.operationClaims = {claim \in state.operationClaims :
                                    claim.credential \in ActiveCredentials(state)}
         /\ s.rotations = {}
         /\ ActiveCredentials(state) \subseteq Known(state)
         /\ Known(s) = ActiveCredentials(state) \cup {new}
         /\ s.credentials[new] = NewCredential
         /\ \A c \in ActiveCredentials(state) \ {new} :
               s.credentials[c] = state.credentials[c]
<1> DEFINE s == Paired(state, t, request, new)
           kept == ActiveCredentials(state)
           credentials == [c \in Credentials |->
                              IF c = new THEN NewCredential
                              ELSE IF c \in kept THEN state.credentials[c] ELSE None]
           claims == {claim \in state.operationClaims : claim.credential \in kept}
<1>1. /\ state \in AuthState /\ state.response \in Nat /\ now \in Nat
      /\ ValidState(state) /\ FiniteState(state)
  BY DEF IInv, TypeOK, ServesValid, AuthState
<1>2. kept \subseteq Known(state) /\ Known(state) \subseteq Credentials
  BY DEF ActiveCredentials, Known
<1>3. /\ s.response = state.response + 1 /\ s.token = None
      /\ s.credentials = credentials
      /\ s.pairingClaims = PairingClaim(state.pairingClaims, request)
      /\ s.operationClaims = claims
      /\ s.rotations = {r \in state.rotations : r.token # t}
  BY DEF Paired
<1>4. NewCredential \in CredentialRecord
  BY <1>1, LimitsAssumption DEF NewCredential, CredentialRecord
<1>5. credentials \in [Credentials -> CredentialRecord \cup {None}]
  BY <1>1, <1>2, <1>4 DEF AuthState
<1>6. Known(s) = kept \cup {new}
  BY <1>2, <1>3, <1>4, LimitsAssumption DEF Known
<1>7. {r \in state.rotations : r.token # t} = {}
  BY <1>1 DEF ValidState
<1>8. PairingClaim(state.pairingClaims, request) \in Seq(Requests)
  <2>1. state.pairingClaims \in Seq(Requests)
    BY <1>1 DEF AuthState
  <2>2. CASE Len(state.pairingClaims) = MaxPairingClaims
    BY <2>1, <2>2, LimitsAssumption, HeadTailProperties, AppendProperties, EmptySeq
       DEF PairingClaim
  <2>3. CASE Len(state.pairingClaims) # MaxPairingClaims
    BY <2>1, <2>3, AppendProperties DEF PairingClaim
  <2> QED BY <2>2, <2>3
<1>9. s \in AuthState
  <2>1. claims \in SUBSET OperationClaim
    BY <1>1 DEF AuthState
  <2>2. s.rotations = {} /\ s = [response |-> state.response + 1, token |-> None,
              credentials |-> credentials,
              pairingClaims |-> PairingClaim(state.pairingClaims, request),
              operationClaims |-> claims,
              rotations |-> {r \in state.rotations : r.token # t}]
    BY <1>3, <1>7 DEF Paired
  <2> HIDE DEF s, credentials, claims
  <2> QED BY <1>1, <1>5, <1>7, <1>8, <2>1, <2>2 DEF AuthState
<1>10. FiniteState(s)
  <2>1. IsFiniteSet(kept) /\ IsFiniteSet(claims)
    BY <1>1, <1>2, FS_Subset DEF FiniteState
  <2> QED BY <1>3, <1>6, <2>1, FS_AddElement DEF FiniteState
<1>11. /\ s.credentials[new] = NewCredential
       /\ \A c \in kept \ {new} : s.credentials[c] = state.credentials[c]
  BY <1>2, <1>3
<1> QED BY <1>2, <1>3, <1>6, <1>7, <1>9, <1>10, <1>11

\* A token bound to a rotation is redeemed with the rotation granted last, which
\* no revocation reported since has ended.
LEMMA BoundToken ==
  ASSUME IInv, ~poisoned, NEW t \in Tokens, NEW claim \in GrantedRotations \cup {None},
         state.token # None, state.token.id = t, RotationMatches(t, claim)
  PROVE  LET granted == {j \in Told(history, "authorized") : history[j].rotation.token = t}
         IN granted # {} =>
              \E j \in granted :
                 /\ \A k \in granted : k <= j
                 /\ claim = history[j].rotation
                 /\ \A k \in Told(history, "revoked") :
                       history[j].rotation.credential \notin history[k].credentials
<1> DEFINE granted == {j \in Told(history, "authorized") : history[j].rotation.token = t}
<1> SUFFICES ASSUME granted # {}
             PROVE  \E j \in granted :
                       /\ \A k \in granted : k <= j
                       /\ claim = history[j].rotation
                       /\ \A k \in Told(history, "revoked") :
                             history[j].rotation.credential \notin history[k].credentials
  OBVIOUS
<1>1. /\ Accounts(state, history, issued) /\ history \in Seq(Reply)
      /\ state \in AuthState
  BY ServingAccounts
<1>2. /\ \A i \in DOMAIN history : history[i] \in Reply /\ i \in Nat
      /\ \A j \in granted : /\ history[j].kind = "authorized" /\ j \in DOMAIN history
                            /\ history[j].response \in Nat
                            /\ history[j].rotation.response = history[j].response
  BY <1>1, ElementOfSeq, LenProperties, ReplyFields DEF Accounts, CoversRotations, Told
<1>3. \E r \in state.rotations : r.token = t
  BY <1>1 DEF Accounts, CoversRotations
<1>4. PICK r \in state.rotations : r.token = t /\ claim = r /\ Active(state, r.credential)
  BY <1>3 DEF RotationMatches
<1>5. PICK j \in Told(history, "authorized") : history[j].rotation = claim
  BY <1>1, <1>4, LimitsAssumption DEF GrantedRotations, Told, AuthState
<1>6. j \in granted
  BY <1>4, <1>5
<1>7. ASSUME NEW k \in granted PROVE k <= j
  <2>1. history[k].rotation = claim \/ history[k].rotation.response < claim.response
    BY <1>1, <1>4 DEF Accounts, CoversRotations
  <2>2. history[k].response <= history[j].response
    BY <1>2, <1>5, <1>6, <2>1
  <2>3. k > j => history[j].response < history[k].response
    BY <1>2, <1>6 DEF IInv, NothingTwice, ResponsesIncrease, Replies
  <2> QED BY <1>2, <1>6, <2>2, <2>3
<1>8. \A k \in Told(history, "revoked") : r.credential \notin history[k].credentials
  BY <1>1, <1>4 DEF Accounts, CoversRevocations, Active
<1> QED BY <1>4, <1>5, <1>6, <1>7, <1>8

\* redeem_pairing_token keeps the invariant: the token is consumed, and the new
\* credential is none that was generated before.
LEMMA RedeemPairingTokenStep ==
  ASSUME IInv, NEW t \in Tokens, NEW request \in Requests,
         NEW claim \in GrantedRotations \cup {None}, NEW new \in Credentials,
         RedeemPairingToken(t, request, claim, new)
  PROVE  IInv'
<1> DEFINE s == Paired(state, t, request, new)
           e == [kind |-> "paired", response |-> state.response + 1, token |-> t,
                 credential |-> new, claim |-> claim]
           n == Len(history) + 1
<1>1. /\ Commit(s, e) /\ serving /\ ~poisoned
      /\ new \notin issued /\ issued' = issued \cup {new} /\ UNCHANGED <<serving, now>>
      /\ state.token # None /\ state.token.id = t /\ RotationMatches(t, claim)
  BY DEF RedeemPairingToken, Commit
<1>2. /\ s \in AuthState /\ FiniteState(s)
      /\ s.response = state.response + 1 /\ s.token = None
      /\ s.rotations = {}
      /\ ActiveCredentials(state) \subseteq Known(state)
      /\ Known(s) = ActiveCredentials(state) \cup {new}
      /\ s.credentials[new] = NewCredential
      /\ \A c \in ActiveCredentials(state) \ {new} :
            s.credentials[c] = state.credentials[c]
  BY <1>1, PairedState
<1>3. /\ Accounts(state, history, issued) /\ history \in Seq(Reply)
      /\ state.response \in Nat /\ state \in AuthState
      /\ \A i \in DOMAIN history \ Told(history, "revoked") :
            history[i].response \in Nat /\ history[i].response < state.response + 1
  BY <1>1, ServingAccounts
<1>4. claim \in Rotation \cup {None}
  <2>1. GrantedRotations \subseteq Rotation
    BY <1>3, ElementOfSeq, LenProperties, ReplyFields DEF GrantedRotations
  <2> QED BY <2>1
<1>5. e \in Reply
  BY <1>3, <1>4 DEF Reply
<1>6. /\ e.kind = "paired" /\ e.response = state.response + 1
      /\ e.token = t /\ e.credential = new /\ e.claim = claim
  OBVIOUS
<1> HIDE DEF s, e
<1>7. /\ \A i \in DOMAIN history : Append(history, e)[i] = history[i]
      /\ Append(history, e)[n] = e
      /\ DOMAIN Append(history, e) = DOMAIN history \cup {n}
  BY <1>3, <1>5, AppendEntry
<1>8. /\ Told(Append(history, e), "paired") = Told(history, "paired") \cup {n}
      /\ \A kind : /\ Told(history, kind) \subseteq DOMAIN history
                   /\ kind # "paired" => Told(Append(history, e), kind) = Told(history, kind)
  BY <1>3, <1>5, <1>6, AppendTold
<1> HIDE DEF n
<1>9. Fresh(history, e)
  <2>1. \A i \in Told(history, "paired") : history[i].token # t
    BY <1>1, <1>3 DEF Accounts, CoversTokens
  <2>2. LET granted == {j \in Told(history, "authorized") : history[j].rotation.token = t}
        IN granted # {} =>
             \E j \in granted :
                /\ \A k \in granted : k <= j
                /\ claim = history[j].rotation
                /\ \A k \in Told(history, "revoked") :
                      history[j].rotation.credential \notin history[k].credentials
    BY <1>1, BoundToken
  <2> QED BY <1>3, <1>6, <2>1, <2>2 DEF Fresh
<1>10. Accounts(s, Append(history, e), issued')
  <2>1. CoversResponses(s, Append(history, e))
    BY <1>2, <1>3, <1>6, <1>7, <1>8 DEF CoversResponses
  <2>2. CoversIssued(s, issued')
    BY <1>1, <1>2, <1>3 DEF Accounts, CoversIssued
  <2>3. CoversTokens(s, Append(history, e), issued')
    BY <1>1, <1>2, <1>3, <1>6, <1>7, <1>8 DEF Accounts, CoversTokens, CoversIssued
  <2>4. CoversOperations(s, Append(history, e), issued')
    BY <1>1, <1>2, <1>3, <1>7, <1>8 DEF Accounts, CoversOperations
  <2>5. CoversRevocations(s, Append(history, e), issued')
    BY <1>1, <1>2, <1>3, <1>7, <1>8 DEF Accounts, CoversRevocations
  <2>6. CoversRotations(s, Append(history, e), issued')
    BY <1>1, <1>2, <1>3, <1>7, <1>8 DEF Accounts, CoversRotations
  <2> QED BY <2>1, <2>2, <2>3, <2>4, <2>5, <2>6 DEF Accounts
<1>11. issued \subseteq issued' /\ issued' \subseteq Tokens \cup Credentials
  BY <1>1 DEF IInv, TypeOK
<1> QED BY <1>1, <1>2, <1>5, <1>9, <1>10, <1>11, CommitKeeps
-----------------------------------------------------------------------------
(* The operator's commands, the process and the clock *)

\* issue_pairing_token keeps the invariant: the new token is none that was
\* redeemed or bound before.
LEMMA IssuePairingTokenStep ==
  ASSUME IInv, NEW t \in Tokens, IssuePairingToken(t)
  PROVE  IInv'
<1> DEFINE s == IssueToken(disk, t)
<1>1. /\ ~serving /\ ~poisoned /\ t \notin issued /\ state' = s /\ disk' = s
      /\ issued' = issued \cup {t} /\ UNCHANGED <<poisoned, serving, now, history>>
  BY DEF IssuePairingToken, IInv, MemoryIsDisk
<1>2. /\ disk \in AuthState /\ disk.response \in Nat /\ now \in Nat
      /\ Accounts(disk, history, issued)
  BY DEF IInv, TypeOK, AuthState
<1>3. /\ s \in AuthState /\ s.response = disk.response
      /\ s.token # None /\ s.token.id = t
      /\ s.credentials = disk.credentials /\ s.operationClaims = disk.operationClaims
      /\ s.rotations = {}
  <2> DEFINE token == [id |-> t, expires |-> now + TokenLifetime]
  <2>1. token \in TokenRecord /\ token.id = t
    BY <1>2, LimitsAssumption DEF TokenRecord
  <2>2. s.token = token /\ s.rotations = {} /\ s.response = disk.response
        /\ s.credentials = disk.credentials /\ s.operationClaims = disk.operationClaims
    BY <1>2 DEF IssueToken, AuthState
  <2>3. s = [disk EXCEPT !.token = token, !.rotations = {}]
    BY DEF IssueToken
  <2>4. token # None
    BY <2>1, LimitsAssumption
  <2> HIDE DEF token, s
  <2> QED BY <1>2, <2>1, <2>2, <2>3, <2>4 DEF AuthState
<1> HIDE DEF s
<1>4. FiniteState(s) /\ Known(s) = Known(disk)
  BY <1>3 DEF FiniteState, Known, IInv, ServesValid
<1>5. Accounts(s, history, issued')
  <2>1. CoversResponses(s, history)
    BY <1>2, <1>3 DEF Accounts, CoversResponses
  <2>2. CoversIssued(s, issued')
    BY <1>1, <1>2, <1>3, <1>4 DEF Accounts, CoversIssued
  <2>3. CoversTokens(s, history, issued')
    BY <1>1, <1>2, <1>3 DEF Accounts, CoversTokens
  <2>4. CoversOperations(s, history, issued')
    BY <1>1, <1>2, <1>3, <1>4 DEF Accounts, CoversOperations
  <2>5. CoversRevocations(s, history, issued')
    BY <1>1, <1>2, <1>3, <1>4 DEF Accounts, CoversRevocations
  <2>6. CoversRotations(s, history, issued')
    BY <1>1, <1>2, <1>3 DEF Accounts, CoversRotations
  <2> QED BY <2>1, <2>2, <2>3, <2>4, <2>5, <2>6 DEF Accounts
<1>6. TypeOK'
  BY <1>1, <1>3 DEF IInv, TypeOK
<1>7. MemoryIsDisk' /\ ServesValid'
  BY <1>1, <1>4 DEF MemoryIsDisk, ServesValid, FiniteState, Known
<1>8. NothingTwice' /\ RevocationIsFinal'
  BY <1>1 DEF IInv, NothingTwice, RevocationIsFinal, ResponsesIncrease, OperationsOnce,
     TokensOnce, BoundTokenNeedsItsRotation, RevokedStaysRevoked, Replies
<1> QED BY <1>1, <1>5, <1>6, <1>7, <1>8 DEF IInv

\* revoke_all_credentials keeps the invariant: every credential on file, and so
\* every one reported, is revoked from then on.
LEMMA RevokeAllCredentialsStep ==
  ASSUME IInv, RevokeAllCredentials
  PROVE  IInv'
<1> DEFINE s == [disk EXCEPT !.credentials =
                    [c \in Credentials |-> IF @[c] = None THEN None
                                           ELSE [@[c] EXCEPT !.revoked = TRUE]]]
           e == [kind |-> "revoked", credentials |-> Known(disk)]
           n == Len(history) + 1
<1>1. /\ ~serving /\ ~poisoned /\ state' = s /\ disk' = s
      /\ history' \in {history, Append(history, e)}
      /\ UNCHANGED <<poisoned, serving, now, issued>>
  BY DEF RevokeAllCredentials, IInv, MemoryIsDisk
<1>2. /\ disk \in AuthState /\ disk.response \in Nat /\ history \in Seq(Reply)
      /\ Accounts(disk, history, issued)
  BY DEF IInv, TypeOK, AuthState
<1>3. /\ s \in AuthState /\ s.response = disk.response /\ s.token = disk.token
      /\ s.operationClaims = disk.operationClaims /\ s.rotations = disk.rotations
      /\ Known(s) = Known(disk)
      /\ \A c \in Known(s) : /\ s.credentials[c].revoked
                             /\ s.credentials[c].last = disk.credentials[c].last
  <2> DEFINE credentials == [c \in Credentials |->
                                IF disk.credentials[c] = None THEN None
                                ELSE [disk.credentials[c] EXCEPT !.revoked = TRUE]]
  <2>1. credentials \in [Credentials -> CredentialRecord \cup {None}]
    BY <1>2 DEF AuthState, CredentialRecord
  <2>2. \A c \in Credentials :
           IF disk.credentials[c] = None THEN credentials[c] = None
           ELSE /\ credentials[c] \in CredentialRecord
                /\ credentials[c].revoked
                /\ credentials[c].last = disk.credentials[c].last
    BY <1>2 DEF AuthState, CredentialRecord
  <2>3. s = [disk EXCEPT !.credentials = credentials]
    OBVIOUS
  <2> HIDE DEF s, credentials
  <2>4. /\ s \in AuthState /\ s.response = disk.response /\ s.token = disk.token
        /\ s.operationClaims = disk.operationClaims /\ s.rotations = disk.rotations
        /\ s.credentials = credentials
    BY <1>2, <2>1, <2>3 DEF AuthState
  <2> QED BY <2>2, <2>4, LimitsAssumption DEF Known
<1>4. e \in Reply /\ e.kind = "revoked" /\ e.credentials = Known(disk)
  BY DEF Reply, Known
<1> HIDE DEF s, e
<1>5. Accounts(s, Append(history, e), issued)
  <2>1. /\ \A i \in DOMAIN history : Append(history, e)[i] = history[i]
        /\ Append(history, e)[n] = e
        /\ DOMAIN Append(history, e) = DOMAIN history \cup {n}
    BY <1>2, <1>4, AppendEntry
  <2>2. /\ Told(Append(history, e), "revoked") = Told(history, "revoked") \cup {n}
        /\ \A kind : /\ Told(history, kind) \subseteq DOMAIN history
                     /\ kind # "revoked" => Told(Append(history, e), kind) = Told(history, kind)
    BY <1>2, <1>4, AppendTold
  <2> HIDE DEF n
  <2>3. CoversResponses(s, Append(history, e))
    BY <1>2, <1>3, <2>1, <2>2 DEF Accounts, CoversResponses
  <2>4. CoversIssued(s, issued)
    BY <1>2, <1>3 DEF Accounts, CoversIssued
  <2>5. CoversTokens(s, Append(history, e), issued)
    BY <1>2, <1>3, <2>1, <2>2 DEF Accounts, CoversTokens
  <2>6. CoversOperations(s, Append(history, e), issued)
    BY <1>2, <1>3, <2>1, <2>2 DEF Accounts, CoversOperations
  <2>7. CoversRevocations(s, Append(history, e), issued)
    BY <1>2, <1>3, <1>4, <2>1, <2>2 DEF Accounts, CoversRevocations, CoversIssued
  <2>8. CoversRotations(s, Append(history, e), issued)
    BY <1>2, <1>3, <2>1, <2>2 DEF Accounts, CoversRotations
  <2> QED BY <2>3, <2>4, <2>5, <2>6, <2>7, <2>8 DEF Accounts
<1>6. Accounts(disk', history', issued')
  <2>1. Accounts(s, history, issued)
    BY <1>2, <1>4, <1>5, EarlierAccounts
  <2> QED BY <1>1, <1>5, <2>1
<1>7. TypeOK'
  BY <1>1, <1>3, <1>4, AppendEntry DEF IInv, TypeOK
<1>8. MemoryIsDisk' /\ ServesValid'
  BY <1>1, <1>3 DEF MemoryIsDisk, IInv, ServesValid, FiniteState, Known
<1>9. NothingTwice' /\ RevocationIsFinal'
  <2>1. CASE history' = history
    BY <2>1 DEF IInv, NothingTwice, RevocationIsFinal, ResponsesIncrease, OperationsOnce,
       TokensOnce, BoundTokenNeedsItsRotation, RevokedStaysRevoked, Replies
  <2>2. CASE history' = Append(history, e)
    BY <1>2, <1>4, <2>2, FreshAnswer DEF Fresh, IInv
  <2> QED BY <1>1, <2>1, <2>2
<1> QED BY <1>6, <1>7, <1>8, <1>9 DEF IInv

\* The daemon's start and end and the clock keep the invariant: what a restart
\* loads is the file, which is valid when it is served.
LEMMA ProcessStep ==
  ASSUME IInv, Serve \/ Stop \/ Tick \/ UNCHANGED vars
  PROVE  IInv'
<1>1. UNCHANGED <<disk, issued, history>>
  BY DEF Serve, Stop, Tick, vars
<1>2. TypeOK'
  <2>1. serving' \in BOOLEAN /\ poisoned' \in BOOLEAN
    BY Zenon DEF IInv, TypeOK, Serve, Stop, Tick, vars
  <2>2. now' \in Nat /\ state' \in AuthState
    BY DEF IInv, TypeOK, Serve, Stop, Tick, vars
  <2> QED BY <1>1, <2>1, <2>2 DEF IInv, TypeOK
<1>3. MemoryIsDisk'
  BY DEF IInv, MemoryIsDisk, Serve, Stop, Tick, vars
<1>4. ServesValid'
  <2>1. serving' => ValidState(state')
    BY DEF IInv, MemoryIsDisk, ServesValid, Serve, Stop, Tick, vars
  <2>2. FiniteState(state') /\ FiniteState(disk')
    BY DEF IInv, MemoryIsDisk, ServesValid, Serve, Stop, Tick, vars
  <2> QED BY <2>1, <2>2 DEF ServesValid, ValidState, FiniteState, Known, Elements
<1>5. NothingTwice' /\ RevocationIsFinal'
  BY <1>1 DEF IInv, NothingTwice, RevocationIsFinal, ResponsesIncrease, OperationsOnce,
     TokensOnce, BoundTokenNeedsItsRotation, RevokedStaysRevoked, Replies
<1>6. Accounts(disk, history, issued)'
  BY <1>1 DEF IInv
<1> QED BY <1>2, <1>3, <1>4, <1>5, <1>6 DEF IInv
-----------------------------------------------------------------------------
\* The first start, with an empty file, satisfies the invariant.
LEMMA InitInvariant == ASSUME Init PROVE IInv
<1>1. EmptyState \in AuthState
  <2>1. <<>> \in Seq(Requests)
    BY EmptySeq
  <2> QED BY <2>1 DEF EmptyState, AuthState
<1>2. history = <<>> /\ DOMAIN history = {} /\ history \in Seq(Reply)
  BY EmptySeq DEF Init
<1>3. Known(EmptyState) = {} /\ EmptyState.operationClaims = {} /\ EmptyState.token = None
  BY DEF Known, EmptyState
<1>4. TypeOK
  BY <1>1, <1>2 DEF Init, TypeOK
<1>5. MemoryIsDisk /\ ServesValid
  BY <1>3, FS_EmptySet DEF Init, MemoryIsDisk, ServesValid, FiniteState
<1>6. Accounts(disk, history, issued)
  BY <1>2, <1>3 DEF Init, Accounts, CoversResponses, CoversIssued, CoversTokens,
     CoversOperations, CoversRevocations, CoversRotations, Told
<1>7. NothingTwice /\ RevocationIsFinal
  BY <1>2 DEF NothingTwice, RevocationIsFinal, ResponsesIncrease, OperationsOnce,
     TokensOnce, BoundTokenNeedsItsRotation, RevokedStaysRevoked, Replies
<1> QED BY <1>4, <1>5, <1>6, <1>7 DEF IInv

\* In every reachable state the file accounts for everything the outside was told.
THEOREM InductiveInvariant == Spec => []IInv
<1>1. Init => IInv
  BY InitInvariant
<1>2. IInv /\ [Next]_vars => IInv'
  <2> SUFFICES ASSUME IInv, [Next]_vars PROVE IInv'
    OBVIOUS
  <2>1. CASE \E t \in Tokens : IssuePairingToken(t)
    BY <2>1, IssuePairingTokenStep
  <2>2. CASE RevokeAllCredentials
    BY <2>2, RevokeAllCredentialsStep
  <2>3. CASE \E t \in Tokens, request \in Requests, new \in Credentials,
                claim \in GrantedRotations \cup {None} :
                   Room /\ RedeemPairingToken(t, request, claim, new)
    BY <2>3, RedeemPairingTokenStep
  <2>4. CASE \E c \in Credentials, request \in Requests, sequence \in 1..MaxSequence,
                t \in Tokens : Room /\ AuthorizePinRotation(c, request, sequence, t)
    BY <2>4, AuthorizePinRotationStep
  <2>5. CASE \E c \in Credentials, request \in Requests, sequence \in 1..MaxSequence :
                Room /\ AuthenticateOperation(c, request, sequence)
    BY <2>5, AuthenticateOperationStep
  <2>6. CASE Room /\ ReserveResponseSequence
    BY <2>6, ReserveResponseSequenceStep
  <2>7. CASE Serve \/ Stop \/ Tick \/ UNCHANGED vars
    BY <2>7, ProcessStep
  <2> QED BY <2>1, <2>2, <2>3, <2>4, <2>5, <2>6, <2>7 DEF Next
<1> QED BY <1>1, <1>2, PTL DEF Spec

\* The state, in memory and on file, is always a well-formed one.
THEOREM AlwaysTyped == Spec => []TypeOK
<1>1. IInv => TypeOK
  BY DEF IInv
<1> QED BY <1>1, InductiveInvariant, PTL

\* No request is answered twice, no token redeemed twice and no answer numbered
\* as an earlier one, across failed writes, poisoning and restarts.
THEOREM NeverTwice == Spec => []NothingTwice
<1>1. IInv => NothingTwice
  BY DEF IInv
<1> QED BY <1>1, InductiveInvariant, PTL

\* A revoked credential authenticates nothing more, and the token bound to its
\* rotation pairs nobody.
THEOREM RevocationFinal == Spec => []RevocationIsFinal
<1>1. IInv => RevocationIsFinal
  BY DEF IInv
<1> QED BY <1>1, InductiveInvariant, PTL
-----------------------------------------------------------------------------
\* Claiming a request identity that the window does not hold keeps the window
\* within its limit and without repetition.
LEMMA PairingClaimKeeps ==
  ASSUME NEW claims \in Seq(Requests), Len(claims) <= MaxPairingClaims,
         \A i, j \in DOMAIN claims : claims[i] = claims[j] => i = j,
         NEW request \in Requests \ Elements(claims)
  PROVE  LET next == PairingClaim(claims, request) IN
         /\ Len(next) <= MaxPairingClaims
         /\ \A i, j \in DOMAIN next : next[i] = next[j] => i = j
<1> DEFINE kept == IF Len(claims) = MaxPairingClaims THEN Tail(claims) ELSE claims
<1>1. /\ DOMAIN claims = 1..Len(claims) /\ Len(claims) \in Nat
      /\ MaxPairingClaims \in Nat \ {0} /\ Len(claims) <= MaxPairingClaims
      /\ \A i \in DOMAIN claims : claims[i] # request
  BY LenProperties, LimitsAssumption DEF Elements
<1>2. /\ kept \in Seq(Requests) /\ Len(kept) < MaxPairingClaims /\ Len(kept) \in Nat
      /\ DOMAIN kept = 1..Len(kept)
      /\ \A i, j \in DOMAIN kept : kept[i] = kept[j] => i = j
      /\ \A i \in DOMAIN kept : kept[i] # request
  <2>1. CASE Len(claims) = MaxPairingClaims
    <3>1. claims # <<>>
      BY <1>1, <2>1, EmptySeq
    <3>2. /\ Tail(claims) \in Seq(Requests) /\ Len(Tail(claims)) = Len(claims) - 1
          /\ \A i \in 1..Len(Tail(claims)) : Tail(claims)[i] = claims[i + 1]
      BY <3>1, HeadTailProperties
    <3>3. DOMAIN Tail(claims) = 1..Len(Tail(claims))
      BY <3>2, LenProperties
    <3> QED BY <1>1, <2>1, <3>2, <3>3
  <2>2. CASE Len(claims) # MaxPairingClaims
    <3>1. kept = claims
      BY <2>2
    <3> HIDE DEF kept
    <3>2. \A m, n \in Nat : m <= n /\ m # n => m < n
      OBVIOUS
    <3>3. Len(claims) < MaxPairingClaims
      BY <1>1, <2>2, <3>2, Zenon
    <3> QED BY <1>1, <3>1, <3>3
  <2> QED BY <2>1, <2>2
<1> HIDE DEF kept
<1>3. /\ Len(Append(kept, request)) = Len(kept) + 1
      /\ DOMAIN Append(kept, request) = 1..(Len(kept) + 1)
      /\ \A i \in 1..Len(kept) : Append(kept, request)[i] = kept[i]
      /\ Append(kept, request)[Len(kept) + 1] = request
  BY <1>2, AppendProperties, LenProperties
<1>4. PairingClaim(claims, request) = Append(kept, request)
  BY DEF PairingClaim, kept
<1> QED BY <1>1, <1>2, <1>3, <1>4

\* Whatever earlier traffic left in the file, a fresh pairing request with an
\* unbound token and a free credential slot yields a state that commit accepts.
THEOREM NeverWedged == Spec => []PairingNotWedged
<1>1. IInv => PairingNotWedged
  <2> SUFFICES ASSUME IInv, serving, state.token # None,
                      NEW request \in Requests \ Elements(state.pairingClaims),
                      NEW new \in Credentials \ issued,
                      Cardinality(ActiveCredentials(state)) < MaxCredentials
               PROVE  ValidState(Paired(state, state.token.id, request, new))
    BY DEF PairingNotWedged
  <2> DEFINE t == state.token.id
             s == Paired(state, t, request, new)
             kept == ActiveCredentials(state)
  <2>1. /\ state \in AuthState /\ ValidState(state) /\ FiniteState(state) /\ t \in Tokens
        /\ state.pairingClaims \in Seq(Requests)
    BY DEF IInv, TypeOK, ServesValid, AuthState, TokenRecord
  <2>2. /\ s.pairingClaims = PairingClaim(state.pairingClaims, request)
        /\ s.operationClaims = {claim \in state.operationClaims : claim.credential \in kept}
        /\ s.rotations = {}
        /\ kept \subseteq Known(state)
        /\ Known(s) = kept \cup {new}
    BY <2>1, PairedState
  <2>3. Cardinality(Known(s)) <= MaxCredentials
    <3>1. IsFiniteSet(kept)
      BY <2>1, <2>2, FS_Subset DEF FiniteState
    <3> HIDE DEF kept
    <3>2. Cardinality(kept) \in Nat
      BY <3>1, FS_CardinalityType
    <3>3. Cardinality(kept \cup {new}) \in {Cardinality(kept), Cardinality(kept) + 1}
      <4>1. CASE new \in kept
        <5>1. kept \cup {new} = kept
          BY <4>1
        <5> QED BY <5>1
      <4>2. CASE new \notin kept
        BY <3>1, <4>2, FS_AddElement
      <4> QED BY <4>1, <4>2
    <3> QED BY <2>2, <3>2, <3>3, LimitsAssumption DEF kept
  <2>4. Cardinality(s.operationClaims) <= MaxOperationClaims
    <3>1. /\ Cardinality(s.operationClaims) <= Cardinality(state.operationClaims)
          /\ Cardinality(s.operationClaims) \in Nat
          /\ Cardinality(state.operationClaims) \in Nat
      BY <2>1, <2>2, FS_Subset, FS_CardinalityType DEF FiniteState
    <3> QED BY <2>1, <3>1, LimitsAssumption DEF ValidState
  <2>5. /\ Len(s.pairingClaims) <= MaxPairingClaims
        /\ \A i, j \in DOMAIN s.pairingClaims :
              s.pairingClaims[i] = s.pairingClaims[j] => i = j
    BY <2>1, <2>2, PairingClaimKeeps DEF ValidState
  <2> HIDE DEF s
  <2>6. /\ \A a, b \in s.operationClaims : a.request = b.request => a = b
        /\ \A claim \in s.operationClaims : claim.credential \in Known(s)
    BY <2>1, <2>2 DEF ValidState
  <2> QED BY <2>2, <2>3, <2>4, <2>5, <2>6 DEF ValidState, s
<1> QED BY <1>1, InductiveInvariant, PTL
=============================================================================
