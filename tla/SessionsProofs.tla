--------------------------- MODULE SessionsProofs ---------------------------
(***************************************************************************)
(* Proofs about the sessions of the desktop, for any set of Silos.         *)
(*                                                                         *)
(* LocalRuntime: what a manager holds of a Silo (the child, the relay, the *)
(* lease, the context, a pending release) is all of the one Silo that its  *)
(* activation and its record name.  Every piece of code that changes the   *)
(* manager keeps it so, whatever it finds of processes and Profiles.       *)
(***************************************************************************)
EXTENDS MCSessions, TLAPS

Handles(r) == {r.child, r.relay, r.lease, r.context.silo, r.pending}

\* What the manager holds belongs together.
Consistent(r) ==
  /\ r \in Manager
  /\ {r.activation.silo, r.record.silo, r.file.silo} \subseteq serves \cup {Nobody}
  /\ r.record = NoRecord \/ r.record.silo # Nobody
  /\ r.file = NoRecord \/ r.file.silo # Nobody
  /\ Handles(r) \subseteq {r.activation.silo, Nobody}
  /\ Handles(r) \subseteq {r.record.silo, Nobody}
  /\ r.child # Nobody => /\ r.context.silo = r.child /\ r.lease = r.child
                         /\ r.pending = Nobody
  /\ r.activation.silo \notin Camoufox \cup {Nobody} => r.record.silo = r.activation.silo
  /\ r.host <=> r.child \in Camoufox
  /\ r.pending # Nobody => r.lease = r.pending /\ r.pending \notin Camoufox
  /\ r.relay # Nobody => r.child = r.relay /\ ~r.context.compromised
  /\ r.context.silo = Nobody => r.context = NoContext
  /\ r.context.secret => ~r.context.compromised
  /\ r.context.compromised => r.activation.state # "running"
  /\ r.activation.state = "running" /\ r.activation.silo \in Relayed \cap Required =>
         r.relay = r.activation.silo

Quiet(r) == r.relay = Nobody /\ ~r.context.secret

LocalInv == /\ TypeOK
            /\ serves \in Managers
            /\ Consistent(runtime)
            /\ taken["launch"].silo \in serves \cup {Nobody}

\* What a piece of code may do to a manager: keep it consistent, bring no secret
\* back, and not forget a Silo whose stock browser is open.
Keeps(r, q) ==
  /\ Consistent(q)
  /\ Quiet(r) => Quiet(q)
  /\ \A s \in Silos \ Camoufox :
        browser[s] = "open" /\ r.activation.silo = s => q.activation.silo = s

\* Each piece is followed by others.
LEMMA KeepsTransitive ==
  ASSUME NEW r, NEW q, NEW p, Keeps(r, q), Keeps(q, p)
  PROVE  Keeps(r, p)
BY DEF Keeps

LEMMA KeepsSame == ASSUME NEW r, Consistent(r) PROVE Keeps(r, r)
BY DEF Keeps

\* Writing the state down changes the record, and the file or not.
LEMMA PersistedKeeps ==
  ASSUME NEW r, Consistent(r), NEW state \in States, NEW q \in Persisted(r, state)
  PROVE  /\ Keeps(r, q)
         /\ q.activation = r.activation /\ q.context = r.context
         /\ q.child = r.child /\ q.host = r.host /\ q.pending = r.pending
         /\ q.relay = r.relay /\ q.lease = r.lease
<1>1. CASE r.record = NoRecord
  <2>1. q = r
    BY <1>1 DEF Persisted
  <2> QED BY <2>1, KeepsSame
<1>2. CASE r.record # NoRecord
  <2> DEFINE p == [r EXCEPT !.record.state = state]
  <2>1. q = p \/ q = [p EXCEPT !.file = p.record]
    BY <1>2 DEF Persisted
  <2>2. r \in Manager
    BY DEF Consistent
  <2>3. /\ p \in Manager
        /\ p.record.silo = r.record.silo /\ p.file = r.file
        /\ p.activation = r.activation /\ p.context = r.context
        /\ p.child = r.child /\ p.host = r.host /\ p.pending = r.pending
        /\ p.relay = r.relay /\ p.lease = r.lease
    BY <2>2 DEF Manager, Records
  <2> HIDE DEF p
  <2>4. /\ q \in Manager /\ q.record = p.record
        /\ q.file \in {p.file, p.record}
        /\ q.activation = r.activation /\ q.context = r.context
        /\ q.child = r.child /\ q.host = r.host /\ q.pending = r.pending
        /\ q.relay = r.relay /\ q.lease = r.lease
    BY <2>1, <2>3 DEF Manager
  <2>5. Handles(q) = Handles(r)
    BY <2>4 DEF Handles
  <2>6. Consistent(q)
    BY <1>2, <2>3, <2>4, <2>5, RuntimeAssumption DEF Consistent
  <2> QED BY <2>4, <2>6 DEF Keeps, Quiet
<1> QED BY <1>1, <1>2

\* The same when the watchdog, which writes nothing down, runs the code.
LEMMA MaybePersistedKeeps ==
  ASSUME NEW r, Consistent(r), NEW state \in States, NEW keep,
         NEW q \in MaybePersisted(r, state, keep)
  PROVE  /\ Keeps(r, q)
         /\ q.activation = r.activation /\ q.context = r.context
         /\ q.child = r.child /\ q.host = r.host /\ q.pending = r.pending
         /\ q.relay = r.relay /\ q.lease = r.lease
BY PersistedKeeps, KeepsSame DEF MaybePersisted

\* A path that is closed for good takes its relay and its secret with it.
LEMMA FailClosedKeeps ==
  ASSUME NEW r, Consistent(r), NEW keep, NEW q \in FailClosed(r, keep)
  PROVE  Keeps(r, q) /\ Quiet(q)
<1>1. CASE r.context.silo = Nobody \/ r.context.compromised
  <2>1. q = r
    BY <1>1 DEF FailClosed
  <2>2. Quiet(r)
    BY <1>1 DEF Consistent, Quiet, NoContext, Handles, Manager
  <2> QED BY <2>1, <2>2, KeepsSame
<1>2. CASE ~(r.context.silo = Nobody \/ r.context.compromised)
  <2> DEFINE state == IF r.pending # Nobody THEN "recovery_required" ELSE "verification_failed"
             p == [WithoutRelay(r) EXCEPT !.context.compromised = TRUE,
                                          !.context.secret = FALSE,
                                          !.activation.state = state]
  <2>1. q \in MaybePersisted(p, state, keep)
    BY <1>2 DEF FailClosed
  <2>2. state \in States /\ state # "running"
    BY DEF States
  <2>3. r \in Manager /\ Nobody \in Owner
    BY DEF Consistent, Owner
  <2> HIDE DEF state
  <2>4. /\ p \in Manager
        /\ p.relay = (IF r.relay = r.context.silo THEN Nobody ELSE r.relay)
        /\ p.context.silo = r.context.silo /\ p.context.compromised /\ ~p.context.secret
        /\ p.activation.silo = r.activation.silo /\ p.activation.state = state
        /\ p.record = r.record /\ p.file = r.file
        /\ p.child = r.child /\ p.host = r.host /\ p.pending = r.pending
        /\ p.lease = r.lease
    BY <2>2, <2>3 DEF WithoutRelay, Manager
  <2> HIDE DEF p
  <2>5. p.relay = Nobody
    BY <2>4 DEF Consistent, Handles
  <2>6. Handles(p) \subseteq Handles(r) \cup {Nobody}
    BY <2>4, <2>5 DEF Handles
  <2>7. Consistent(p)
    BY <1>2, <2>2, <2>4, <2>5, <2>6 DEF Consistent
  <2>8. Keeps(r, p) /\ Quiet(p)
    BY <2>4, <2>5, <2>7 DEF Keeps, Quiet
  <2> QED BY <2>1, <2>2, <2>7, <2>8, MaybePersistedKeeps, KeepsTransitive DEF Quiet
<1> QED BY <1>1, <1>2

\* A Host that fails leaves a session that is not called running.
LEMMA HostFailureKeeps ==
  ASSUME NEW r, Consistent(r), NEW keep, NEW q \in HostFailure(r, keep)
  PROVE  Keeps(r, q)
<1> DEFINE p == [r EXCEPT !.activation.state = "verification_failed"]
<1>1. r \in Manager /\ "verification_failed" \in States
  BY DEF Consistent, States
<1>2. /\ p \in Manager
      /\ p.activation.silo = r.activation.silo /\ p.activation.state = "verification_failed"
      /\ p.record = r.record /\ p.file = r.file /\ p.context = r.context
      /\ p.child = r.child /\ p.host = r.host /\ p.pending = r.pending
      /\ p.relay = r.relay /\ p.lease = r.lease
  BY <1>1 DEF Manager
<1>3. q \in FailClosed(p, keep) \/ q \in MaybePersisted(p, "verification_failed", keep)
  BY DEF HostFailure
<1> HIDE DEF p
<1>4. Consistent(p)
  BY <1>2 DEF Consistent, Handles
<1>5. Keeps(r, p)
  BY <1>2, <1>4 DEF Keeps, Quiet
<1> QED BY <1>1, <1>3, <1>4, <1>5, FailClosedKeeps, MaybePersistedKeeps, KeepsTransitive

\* A Host that has ended leaves nothing behind.
LEMMA FinishedKeeps ==
  ASSUME NEW r, Consistent(r), r.pending = Nobody,
         \A s \in Silos \ Camoufox : browser[s] = "open" => r.activation.silo # s,
         NEW keep, NEW q \in Finished(r, keep)
  PROVE  Keeps(r, q) /\ Handles(q) = {Nobody}
<1> DEFINE p == WithActivation([WithoutRelay(r) EXCEPT !.child = Nobody, !.host = FALSE,
                                                       !.lease = Nobody, !.context = NoContext],
                               Nobody, "stopped")
<1>1. r \in Manager /\ "stopped" \in States /\ Nobody \in Owner
  BY DEF Consistent, States, Owner
<1>2. /\ p \in Manager
      /\ p.activation.silo = Nobody /\ p.activation.state = "stopped"
      /\ p.record = r.record /\ p.file = r.file /\ p.context = NoContext
      /\ p.child = Nobody /\ ~p.host /\ p.pending = r.pending
      /\ p.relay = (IF r.relay = r.context.silo THEN Nobody ELSE r.relay)
      /\ p.lease = Nobody
  BY <1>1 DEF Manager, WithoutRelay, WithActivation, NoContext
<1>3. q \in MaybePersisted(p, "stopped", keep)
  BY DEF Finished
<1> HIDE DEF p
<1>4. p.relay = Nobody
  BY <1>2 DEF Consistent
<1>5. Handles(p) = {Nobody} /\ ~p.context.secret /\ ~p.context.compromised
  BY <1>2, <1>4 DEF Handles, NoContext
<1>6. Consistent(p)
  BY <1>1, <1>2, <1>4, <1>5, RuntimeAssumption DEF Consistent
<1>7. Keeps(r, p)
  BY <1>2, <1>4, <1>5, <1>6 DEF Keeps, Quiet
<1>8. Keeps(p, q) /\ Handles(q) = Handles(p)
  BY <1>1, <1>3, <1>6, MaybePersistedKeeps DEF Handles
<1> QED BY <1>5, <1>7, <1>8, KeepsTransitive

\* A stock Profile is released only when its lock is gone.
LEMMA PendingReleaseKeeps ==
  ASSUME NEW r, Consistent(r), r.pending # Nobody, NEW q \in PendingRelease(r)
  PROVE  Keeps(r, q)
<1>1. r \in Manager /\ {"stopped", "recovery_required"} \subseteq States /\ Nobody \in Owner
  BY DEF Consistent, States, Owner
<1>2. CASE browser[r.pending] # "none"
  BY <1>1, <1>2, PersistedKeeps DEF PendingRelease
<1>3. CASE browser[r.pending] = "none"
  <2> DEFINE p == WithActivation([r EXCEPT !.pending = Nobody, !.lease = Nobody,
                                           !.context = NoContext], Nobody, "stopped")
  <2>1. /\ p \in Manager
        /\ p.activation.silo = Nobody /\ p.activation.state = "stopped"
        /\ p.record = r.record /\ p.file = r.file /\ p.context = NoContext
        /\ p.child = r.child /\ p.host = r.host /\ p.pending = Nobody
        /\ p.relay = r.relay /\ p.lease = Nobody
    BY <1>1 DEF Manager, WithActivation, NoContext
  <2>2. q \in Persisted(p, "stopped")
    BY <1>3 DEF PendingRelease
  <2> HIDE DEF p
  <2>3. p.relay = Nobody /\ p.child = Nobody
    BY <2>1 DEF Consistent
  <2>4. Handles(p) = {Nobody} /\ ~p.context.secret /\ ~p.context.compromised
    BY <2>1, <2>3 DEF Handles, NoContext
  <2>5. Consistent(p)
    BY <1>1, <2>1, <2>3, <2>4, RuntimeAssumption DEF Consistent
  <2>6. \A s \in Silos \ Camoufox : browser[s] = "open" => r.activation.silo # s
    <3>1. r.pending = r.activation.silo
      BY DEF Consistent, Handles
    <3> QED BY <1>3, <3>1
  <2>7. Keeps(r, p)
    BY <2>1, <2>3, <2>4, <2>5, <2>6 DEF Keeps, Quiet
  <2> QED BY <1>1, <2>2, <2>5, <2>7, PersistedKeeps, KeepsTransitive
<1> QED BY <1>2, <1>3

\* The child is gone: its Silo stays in use unless the Profile is free.
LEMMA ExitedKeeps ==
  ASSUME NEW r, Consistent(r), r.child # Nobody, NEW keep, NEW q \in Exited(r, keep)
  PROVE  Keeps(r, q)
<1> DEFINE s == r.context.silo
           p == [WithoutRelay(r) EXCEPT !.child = Nobody, !.host = FALSE]
<1>1. /\ r \in Manager /\ Nobody \in Owner
      /\ {"stopped", "recovery_required", "verification_failed"} \subseteq States
  BY DEF Consistent, States, Owner
<1>2. /\ r.child = s /\ r.lease = s /\ r.activation.silo = s /\ r.record.silo = s
      /\ r.pending = Nobody /\ s # Nobody /\ s \in Owner /\ r.relay \in {s, Nobody}
      /\ (r.host <=> s \in Camoufox)
  BY <1>1 DEF Consistent, Handles, Manager, Owner
<1>3. /\ p \in Manager /\ p.activation = r.activation
      /\ p.record = r.record /\ p.file = r.file /\ p.context = r.context
      /\ p.child = Nobody /\ ~p.host /\ p.pending = r.pending
      /\ p.relay = Nobody /\ p.lease = s
  BY <1>1, <1>2 DEF Manager, WithoutRelay
<1> HIDE DEF p, s
<1>4. CASE r.host
  <2> DEFINE o == WithActivation(p, s, "verification_failed")
  <2>1. q \in MaybePersisted(o, "verification_failed", keep)
    BY <1>4 DEF Exited, p, s
  <2>2. /\ o \in Manager
        /\ o.activation.silo = s /\ o.activation.state = "verification_failed"
        /\ o.record = r.record /\ o.file = r.file /\ o.context = r.context
        /\ o.child = Nobody /\ ~o.host /\ o.pending = Nobody
        /\ o.relay = Nobody /\ o.lease = s
    BY <1>1, <1>2, <1>3 DEF Manager, WithActivation
  <2> HIDE DEF o
  <2>3. Consistent(o)
    BY <1>2, <2>2, RuntimeAssumption DEF Consistent, Handles, s
  <2>4. Keeps(r, o)
    BY <1>2, <2>2, <2>3 DEF Keeps, Quiet
  <2> QED BY <1>1, <2>1, <2>3, <2>4, MaybePersistedKeeps, KeepsTransitive
<1>5. CASE ~r.host /\ browser[s] # "none"
  <2> DEFINE o == WithActivation([p EXCEPT !.pending = s], s, "recovery_required")
  <2>1. q \in Persisted(o, "recovery_required")
    BY <1>5 DEF Exited, p, s
  <2>2. /\ o \in Manager
        /\ o.activation.silo = s /\ o.activation.state = "recovery_required"
        /\ o.record = r.record /\ o.file = r.file /\ o.context = r.context
        /\ o.child = Nobody /\ ~o.host /\ o.pending = s
        /\ o.relay = Nobody /\ o.lease = s
    BY <1>1, <1>2, <1>3 DEF Manager, WithActivation
  <2> HIDE DEF o
  <2>3. Consistent(o)
    BY <1>2, <1>5, <2>2, RuntimeAssumption DEF Consistent, Handles, s
  <2>4. Keeps(r, o)
    BY <1>2, <2>2, <2>3 DEF Keeps, Quiet
  <2> QED BY <1>1, <2>1, <2>3, <2>4, PersistedKeeps, KeepsTransitive
<1>6. CASE ~r.host /\ browser[s] = "none"
  <2> DEFINE o == WithActivation([p EXCEPT !.lease = Nobody, !.context = NoContext],
                                 Nobody, "stopped")
  <2>1. q \in Persisted(o, "stopped")
    BY <1>6 DEF Exited, p, s
  <2>2. /\ o \in Manager
        /\ o.activation.silo = Nobody /\ o.activation.state = "stopped"
        /\ o.record = r.record /\ o.file = r.file /\ o.context = NoContext
        /\ o.child = Nobody /\ ~o.host /\ o.pending = Nobody
        /\ o.relay = Nobody /\ o.lease = Nobody
    BY <1>1, <1>2, <1>3 DEF Manager, WithActivation, NoContext
  <2> HIDE DEF o
  <2>3. Consistent(o)
    BY <1>2, <2>2, RuntimeAssumption DEF Consistent, Handles, NoContext
  <2>4. Keeps(r, o)
    BY <1>2, <1>6, <2>2, <2>3 DEF Keeps, Quiet, NoContext
  <2> QED BY <1>1, <2>1, <2>3, <2>4, PersistedKeeps, KeepsTransitive
<1> QED BY <1>4, <1>5, <1>6

\* Asking the Host: it fails, it has ended, or it is well.
LEMMA ProbedKeeps ==
  ASSUME NEW r, Consistent(r), r.child # Nobody, NEW keep, NEW q \in Probed(r, keep)
  PROVE  Keeps(r, q)
<1>1. CASE q = r
  BY <1>1, KeepsSame
<1>2. CASE q \in HostFailure(r, keep)
  BY <1>2, HostFailureKeeps
<1>3. CASE r.host /\ q \in Finished(r, keep)
  <2>1. r.pending = Nobody /\ r.activation.silo \in Camoufox
    BY <1>3 DEF Consistent, Handles
  <2> QED BY <1>3, <2>1, FinishedKeeps
<1> QED BY <1>1, <1>2, <1>3 DEF Probed

\* The checks of the network leave a failed path failed.
LEMMA CheckedKeeps ==
  ASSUME NEW r, Consistent(r), NEW keep, NEW q \in Checked(r, keep)
  PROVE  Keeps(r, q)
<1>1. {"running", "verification_failed"} \subseteq States
  BY DEF States
<1>2. CASE q = r
  BY <1>2, KeepsSame
<1>3. CASE q \in FailClosed(r, keep)
  BY <1>3, FailClosedKeeps
<1>4. CASE \E state \in {"running", "verification_failed"} : q \in MaybePersisted(r, state, keep)
  BY <1>1, <1>4, MaybePersistedKeeps
<1> QED BY <1>2, <1>3, <1>4 DEF Checked

\* A refresh, whatever it finds.
LEMMA RefreshedKeeps ==
  ASSUME NEW r, Consistent(r), NEW keep, NEW q \in Refreshed(r, keep)
  PROVE  Keeps(r, q)
<1>1. CASE r.child = Nobody /\ r.pending # Nobody
  BY <1>1, PendingReleaseKeeps DEF Refreshed
<1>2. CASE r.child = Nobody /\ r.pending = Nobody
  BY <1>2, KeepsSame DEF Refreshed
<1>3. CASE r.child # Nobody /\ pid[r.child] # "alive"
  BY <1>3, ExitedKeeps DEF Refreshed
<1>4. CASE r.child # Nobody /\ pid[r.child] = "alive"
  <2>1. PICK p \in Probed(r, keep) : q \in Checked(p, keep)
    BY <1>4 DEF Refreshed
  <2>2. Keeps(r, p)
    BY <1>4, ProbedKeeps
  <2>3. Keeps(p, q)
    BY <2>1, <2>2, CheckedKeeps DEF Keeps
  <2> QED BY <2>2, <2>3, KeepsTransitive
<1> QED BY <1>1, <1>2, <1>3, <1>4

\* A recovery names the Silo of the record, unless its process and its lock are
\* both gone.
LEMMA ReconciledKeeps ==
  ASSUME NEW r, Consistent(r), NeedsReconciliation(r), NEW q \in Reconciled(r)
  PROVE  /\ Consistent(q)
         /\ \A s \in Silos \ Camoufox :
               browser[s] = "open" /\ r.activation.silo = s => q.activation.silo = s
<1> DEFINE s == r.record.silo
           alive == pid[s] # "dead"
           held == browser[s] # "none" \/ r.lease = s
           Failures == IF s \in Camoufox \cup Required THEN {"running", "verification_failed"}
                       ELSE {"running"}
           states == IF alive /\ held
                     THEN IF s \in Relayed THEN {"verification_failed"} ELSE Failures
                     ELSE IF alive \/ held THEN {"recovery_required"} ELSE {"stopped"}
           Context(state) == [silo |-> s, compromised |-> state = "verification_failed",
                              secret |-> s \in Mihomo /\ state # "verification_failed"]
           Next1(state) ==
             [r EXCEPT !.context = IF state = "stopped" THEN NoContext ELSE Context(state),
                       !.activation = [silo |-> IF state = "stopped" THEN Nobody ELSE s,
                                       state |-> state, camoufox |-> s \in Camoufox]]
<1>1. PICK state \in states : q \in Persisted(Next1(state), state)
  BY ZenonT(30) DEF Reconciled
<1>2. /\ states \subseteq States /\ Nobody \in Owner /\ r \in Manager /\ s \in Owner
      /\ state = "stopped" => ~held
      /\ state = "running" => s \notin Relayed
  BY <1>1 DEF States, Owner, Consistent, Manager, Records
<1>3. /\ r.child = Nobody /\ s # Nobody /\ r.relay = Nobody /\ ~r.host
      /\ r.lease \in {s, Nobody} /\ r.pending \in {s, Nobody}
      /\ r.pending # Nobody => r.lease = r.pending /\ r.pending \notin Camoufox
  BY RuntimeAssumption DEF Consistent, NeedsReconciliation, Handles
<1>4. r.activation.silo \notin Camoufox \cup {Nobody} => s = r.activation.silo
  BY DEF Consistent
<1> DEFINE c == IF state = "stopped" THEN NoContext ELSE Context(state)
           a == [silo |-> IF state = "stopped" THEN Nobody ELSE s,
                 state |-> state, camoufox |-> s \in Camoufox]
           p == [r EXCEPT !.context = c, !.activation = a]
<1> HIDE DEF alive, states
<1>5. (s \in Camoufox) \in BOOLEAN /\ (state = "verification_failed") \in BOOLEAN
      /\ (s \in Mihomo /\ state # "verification_failed") \in BOOLEAN
  OBVIOUS
<1>6. a \in [silo: Owner, state: States, camoufox: BOOLEAN]
  BY <1>1, <1>2, <1>5
<1>7. c \in [silo: Owner, compromised: BOOLEAN, secret: BOOLEAN]
  BY <1>2, <1>5 DEF NoContext
<1>8. /\ a.silo = (IF state = "stopped" THEN Nobody ELSE s) /\ a.state = state
      /\ state = "stopped" => c = NoContext
      /\ state # "stopped" => /\ c.silo = s
                              /\ (c.compromised <=> state = "verification_failed")
                              /\ (c.secret => state # "verification_failed")
  OBVIOUS
<1>9. q \in Persisted(p, state)
  BY <1>1
<1> HIDE DEF c, a
<1>10. /\ p \in Manager /\ p.context = c /\ p.activation = a
       /\ p.record = r.record /\ p.file = r.file
       /\ p.child = r.child /\ (p.host <=> r.host) /\ p.pending = r.pending
       /\ p.relay = r.relay /\ p.lease = r.lease
  BY <1>2, <1>6, <1>7 DEF Manager
<1> HIDE DEF p
<1>11. CASE state = "stopped"
  <2>1. /\ p \in Manager /\ p.context = NoContext
        /\ p.activation.silo = Nobody /\ p.activation.state = "stopped"
        /\ p.record = r.record /\ p.file = r.file
        /\ p.child = Nobody /\ ~p.host /\ p.pending = r.pending
        /\ p.relay = Nobody /\ p.lease = r.lease
    BY <1>3, <1>11, <1>8, <1>10
  <2>2. r.lease = Nobody /\ r.pending = Nobody /\ browser[s] = "none"
    BY <1>2, <1>3, <1>11
  <2> HIDE DEF held
  <2>3. Consistent(p)
    BY <1>3, <2>1, <2>2, RuntimeAssumption DEF Consistent, Handles, NoContext, s
  <2>4. q \in Persisted(p, "stopped")
    BY <1>11, <1>9
  <2>5. Consistent(q) /\ q.activation = p.activation
    BY <1>2, <1>1, <1>11, <2>3, <2>4, PersistedKeeps DEF Keeps
  <2>6. \A t \in Silos \ Camoufox : browser[t] = "open" => r.activation.silo # t
    BY <1>4, <2>2, RuntimeAssumption
  <2> QED BY <2>5, <2>6
<1>12. CASE state # "stopped"
  <2>1. /\ p \in Manager
        /\ p.context.silo = s /\ (p.context.compromised <=> state = "verification_failed")
        /\ p.context.secret => state # "verification_failed"
        /\ p.activation.silo = s /\ p.activation.state = state
        /\ p.record = r.record /\ p.file = r.file
        /\ p.child = Nobody /\ ~p.host /\ p.pending = r.pending
        /\ p.relay = Nobody /\ p.lease = r.lease
    BY <1>3, <1>12, <1>8, <1>10
  <2> HIDE DEF held
  <2>2. Consistent(p)
    BY <1>2, <1>3, <2>1, RuntimeAssumption DEF Consistent, Handles, s
  <2>3. Consistent(q) /\ q.activation = p.activation
    BY <1>1, <1>2, <1>9, <2>2, PersistedKeeps DEF Keeps
  <2> QED BY <1>4, <2>1, <2>3, RuntimeAssumption
<1> QED BY <1>11, <1>12

\* What the lock of the Vault asks of what a manager holds is put to an end.
LEMMA RevokedKeeps ==
  ASSUME NEW r, Consistent(r), NEW p \in Revoked(r)
  PROVE  Keeps(r, p) /\ Quiet(p)
<1>1. PICK q \in Refreshed(r, TRUE) :
        p \in IF q.relay # Nobody \/ q.context.secret THEN FailClosed(q, TRUE) ELSE {q}
  BY DEF Revoked
<1>2. Keeps(r, q)
  BY RefreshedKeeps
<1>3. Keeps(q, p) /\ Quiet(p)
  BY <1>1, <1>2, FailClosedKeeps, KeepsSame DEF Keeps, Quiet
<1> QED BY <1>2, <1>3, KeepsTransitive

\* A manager that is made from a record owns nothing yet.
LEMMA FreshConsistent ==
  ASSUME NEW file \in Records, file = NoRecord \/ file.silo # Nobody,
         file.silo \in serves \cup {Nobody}
  PROVE  Consistent(Fresh(file)) /\ Quiet(Fresh(file))
<1> DEFINE r == Fresh(file)
<1>1. {"idle", "recovery_required", "stopped"} \subseteq States /\ Nobody \in Owner
  BY DEF States, Owner
<1>2. /\ r \in Manager /\ r.child = Nobody /\ ~r.host /\ r.relay = Nobody
      /\ r.lease = Nobody /\ r.context = NoContext /\ r.pending = Nobody
      /\ r.record = file /\ r.file = file
      /\ r.activation.silo \in {file.silo, Nobody} /\ r.activation.state # "running"
      /\ r.activation.silo # Nobody => r.activation.silo = file.silo
  BY <1>1 DEF Fresh, Manager, NoContext, Records
<1> HIDE DEF r
<1>3. Handles(r) = {Nobody} /\ Quiet(r) /\ ~r.context.secret /\ ~r.context.compromised
  BY <1>2 DEF Handles, NoContext, Quiet
<1>4. Consistent(r)
  BY <1>2, <1>3, RuntimeAssumption DEF Consistent
<1> QED BY <1>3, <1>4 DEF r

LEMMA NoRecordIsRecord == NoRecord \in Records /\ NoRecord.silo = Nobody
BY DEF NoRecord, Records, Owner, States

\* The same with the file of another record.
LEMMA FreshWithFile ==
  ASSUME NEW file \in Records, file = NoRecord \/ file.silo # Nobody,
         file.silo \in serves \cup {Nobody}
  PROVE  LET r == [Fresh(NoRecord) EXCEPT !.file = file] IN Consistent(r) /\ Quiet(r)
<1> DEFINE r == Fresh(NoRecord)
           p == [r EXCEPT !.file = file]
<1>1. Consistent(r) /\ Quiet(r)
  BY NoRecordIsRecord, FreshConsistent
<1> HIDE DEF r
<1>2. /\ p \in Manager /\ p.file = file /\ p.activation = r.activation
      /\ p.child = r.child /\ p.host = r.host /\ p.relay = r.relay /\ p.lease = r.lease
      /\ p.context = r.context /\ p.pending = r.pending /\ p.record = r.record
  BY <1>1 DEF Consistent, Manager
<1> HIDE DEF p
<1>3. Handles(p) = Handles(r)
  BY <1>2 DEF Handles
<1>4. Consistent(p) /\ Quiet(p)
  BY <1>1, <1>2, <1>3 DEF Consistent, Quiet
<1> QED BY <1>4 DEF p, r

\* A record that cannot be read makes a manager that does nothing.
LEMMA UnreadConsistent ==
  ASSUME NEW file \in Records, file = NoRecord \/ file.silo # Nobody,
         file.silo \in serves \cup {Nobody}
  PROVE  Consistent(Unread(file)) /\ Quiet(Unread(file))
<1> DEFINE q == [Fresh(NoRecord) EXCEPT !.file = file]
           a == [silo |-> Nobody, state |-> "failed", camoufox |-> FALSE]
           p == [q EXCEPT !.unreadable = TRUE, !.activation = a]
<1>1. Consistent(q) /\ Quiet(q)
  BY FreshWithFile
<1>2. a \in [silo: Owner, state: States, camoufox: BOOLEAN] /\ a.silo = Nobody
      /\ a.state = "failed"
  BY DEF Owner, States
<1>3. p = Unread(file)
  BY DEF Unread
<1>4. q.record = NoRecord /\ q.child = Nobody /\ q.relay = Nobody /\ q.lease = Nobody
      /\ q.context = NoContext /\ q.pending = Nobody
  BY DEF Fresh
<1> HIDE DEF q, a
<1>5. /\ p \in Manager /\ p.file = q.file /\ p.activation = a
      /\ p.child = q.child /\ p.host = q.host /\ p.relay = q.relay /\ p.lease = q.lease
      /\ p.context = q.context /\ p.pending = q.pending /\ p.record = q.record
  BY <1>1, <1>2 DEF Consistent, Manager
<1> HIDE DEF p
<1>6. Handles(p) = {Nobody}
  BY <1>4, <1>5 DEF Handles, NoContext
<1>7. Consistent(p) /\ Quiet(p)
  BY <1>1, <1>2, <1>4, <1>5, <1>6, RuntimeAssumption DEF Consistent, Quiet
<1> QED BY <1>3, <1>7

\* However a manager is opened.
LEMMA FileOpens ==
  ASSUME NEW r, Consistent(r), NEW q \in Opened(r.file)
  PROVE  Consistent(q) /\ Quiet(q)
<1>1. /\ r.file \in Records /\ (r.file = NoRecord \/ r.file.silo # Nobody)
      /\ r.file.silo \in serves \cup {Nobody}
  BY DEF Consistent, Manager
<1>2. q = Fresh(r.file) \/ q = Unread(r.file)
  BY DEF Opened
<1> QED BY <1>1, <1>2, FreshConsistent, UnreadConsistent

-----------------------------------------------------------------------------
(***************************************************************************)
(* The steps.                                                              *)
(***************************************************************************)
StaysInUse == \A s \in Silos \ Camoufox :
                browser[s] = "open" /\ runtime.activation.silo = s /\ unlocked'
                  => runtime'.activation.silo = s

\* What the lock of the Vault asks of the step that leaves the manager r.
EndsSecrets(r) ==
  /\ locking /\ ~locking' => Quiet(r)
  /\ ~unlocked /\ ~unlocked' =>
       /\ \A c \in Callers : taken[c].back /\ ~taken'[c].back => Quiet(r)
       /\ Quiet(runtime) /\ (\A c \in Callers : taken[c].silo = Nobody) => Quiet(r)

Kept == LocalInv' /\ StaysInUse /\ EndsSecrets(runtime')

CallsOK == /\ unlocked' \in BOOLEAN
           /\ locking' \in BOOLEAN
           /\ taken' \in [Callers -> [silo: Owner, back: BOOLEAN]]
           /\ taken'["launch"].silo \in serves \cup {Nobody}

LEMMA CallsStayOK == ASSUME LocalInv, UNCHANGED calls, unlocked' \in BOOLEAN PROVE CallsOK
BY DEF LocalInv, TypeOK, calls, CallsOK

\* A call that is back from the manager has yet to answer.
LEMMA BackIsOK ==
  ASSUME LocalInv, NEW c \in Callers, taken' = Back(c), UNCHANGED locking, unlocked' \in BOOLEAN
  PROVE  /\ CallsOK
         /\ \A d \in Callers : taken[d].back => taken'[d].back
<1> DEFINE b == [silo |-> Nobody, back |-> TRUE]
<1>1. b \in [silo: Owner, back: BOOLEAN] /\ b.silo = Nobody /\ b.back
  BY DEF Owner
<1>2. taken' = [taken EXCEPT ![c] = b]
  BY DEF Back
<1> HIDE DEF b
<1>3. /\ taken' \in [Callers -> [silo: Owner, back: BOOLEAN]]
      /\ \A d \in Callers : taken'[d] = taken[d] \/ taken'[d] = b
  BY <1>1, <1>2 DEF LocalInv, TypeOK
<1>4. "launch" \in Callers
  BY DEF Callers
<1> QED BY <1>1, <1>3, <1>4 DEF CallsOK, LocalInv, TypeOK

\* What is left once a call has settled on the manager r.
LEMMA SettledKeeps ==
  ASSUME LocalInv, NEW r, Consistent(r),
         \A s \in Silos \ Camoufox :
           browser[s] = "open" /\ runtime.activation.silo = s /\ unlocked'
             => r.activation.silo = s,
         runtime' = r, pid' \in [Silos -> {"dead", "alive", "reused"}],
         browser' \in [Silos -> {"none", "open", "sentinel"}],
         UNCHANGED serves, CallsOK, EndsSecrets(r)
  PROVE  Kept
<1>1. Consistent(runtime)'
  BY DEF Consistent, Handles
<1>2. runtime' \in Manager
  BY DEF Consistent
<1>3. TypeOK' /\ (serves \in Managers)' /\ (taken["launch"].silo \in serves \cup {Nobody})'
  BY <1>2 DEF LocalInv, TypeOK, Managers, CallsOK
<1> QED BY <1>1, <1>3 DEF LocalInv, StaysInUse, Kept

\* The processes of a manager that becomes r.
LEMMA BecomesKeeps ==
  ASSUME LocalInv, NEW r, Consistent(r), Becomes(r),
         \A s \in Silos \ Camoufox :
           browser[s] = "open" /\ runtime.activation.silo = s /\ unlocked'
             => r.activation.silo = s,
         UNCHANGED serves, CallsOK, EndsSecrets(r)
  PROVE  Kept
<1>1. /\ pid' \in [Silos -> {"dead", "alive", "reused"}]
      /\ browser' \in [Silos -> {"none", "open", "sentinel"}]
  BY DEF Becomes, LocalInv, TypeOK
<1>2. runtime' = r
  BY DEF Becomes
<1> QED BY <1>1, <1>2, SettledKeeps

\* Enough for the calls that keep the manager as it was or make it less.
LEMMA CallKeeps ==
  ASSUME LocalInv, NEW r, Keeps(runtime, r), Becomes(r), UNCHANGED <<serves, calls>>,
         unlocked' \in BOOLEAN
  PROVE  Kept
<1>1. EndsSecrets(r)
  BY DEF Keeps, EndsSecrets, calls
<1> QED BY <1>1, CallsStayOK, BecomesKeeps DEF Keeps, LocalInv

LEMMA WatchdogKeeps == ASSUME LocalInv, Watchdog PROVE Kept
<1>1. PICK r \in Refreshed(runtime, FALSE) : Becomes(r)
  BY DEF Watchdog
<1>2. Keeps(runtime, r)
  BY RefreshedKeeps DEF LocalInv
<1>3. UNCHANGED <<serves, calls>> /\ unlocked' \in BOOLEAN
  BY DEF Watchdog, LocalInv, TypeOK
<1> QED BY <1>1, <1>2, <1>3, CallKeeps

LEMMA StatusKeeps == ASSUME LocalInv, Status PROVE Kept
<1>1. PICK r \in Revocations \cup (IF unlocked THEN Refreshed(runtime, TRUE) ELSE {}) :
              Becomes(r)
  BY DEF Status
<1>2. Keeps(runtime, r)
  BY RefreshedKeeps, RevokedKeeps, KeepsSame DEF LocalInv, Revocations
<1>3. UNCHANGED <<serves, calls>> /\ unlocked' \in BOOLEAN
  BY DEF Status, LocalInv, TypeOK
<1> QED BY <1>1, <1>2, <1>3, CallKeeps

\* A recovery may bring a secret back; the Vault opens with it.
LEMMA UnlockKeeps == ASSUME LocalInv, Unlock PROVE Kept
<1>1. PICK r \in IF NeedsReconciliation(runtime) THEN Reconciled(runtime)
                 ELSE {runtime} : Becomes(r)
  BY DEF Unlock
<1>2. UNCHANGED <<serves, calls>> /\ unlocked' = TRUE
  BY DEF Unlock
<1>3. CASE NeedsReconciliation(runtime)
  <2>1. EndsSecrets(r)
    BY <1>2 DEF EndsSecrets, calls
  <2> QED BY <1>1, <1>2, <1>3, <2>1, ReconciledKeeps, CallsStayOK, BecomesKeeps DEF LocalInv
<1>4. CASE ~NeedsReconciliation(runtime)
  BY <1>1, <1>2, <1>4, KeepsSame, CallKeeps DEF LocalInv
<1> QED BY <1>3, <1>4

\* The Vault locks, and what the manager holds is still to be revoked.
LEMMA LockKeeps == ASSUME LocalInv, Lock \/ AutoLock PROVE Kept
<1>1. /\ UNCHANGED <<serves, runtime, pid, browser, taken>> /\ unlocked' = FALSE
      /\ locking' \in {TRUE, locking}
  BY DEF Lock, AutoLock, outside, calls
<1>2. CallsOK
  BY <1>1 DEF CallsOK, LocalInv, TypeOK
<1>3. locking => locking'
  BY <1>1
<1>4. EndsSecrets(runtime)
  BY <1>1, <1>3 DEF EndsSecrets
<1> QED BY <1>1, <1>2, <1>4, SettledKeeps DEF LocalInv, TypeOK

LEMMA FinishLockKeeps == ASSUME LocalInv, FinishLock PROVE Kept
<1>1. PICK r \in Revoked(runtime) : Becomes(r)
  BY DEF FinishLock
<1>2. Keeps(runtime, r) /\ Quiet(r)
  BY RevokedKeeps DEF LocalInv
<1>3. UNCHANGED <<serves, unlocked, taken>> /\ locking' = FALSE
  BY DEF FinishLock
<1>4. CallsOK /\ EndsSecrets(r)
  BY <1>2, <1>3 DEF CallsOK, EndsSecrets, LocalInv, TypeOK
<1> QED BY <1>1, <1>2, <1>3, <1>4, BecomesKeeps DEF Keeps

\* What a launch or a poll takes from the Vault it still has to bring.
LEMMA TakesKeeps ==
  ASSUME LocalInv, PollTakes \/ \E s \in Silos : LaunchTakes(s)
  PROVE  Kept
<1>1. PICK c \in Callers, s \in Owner :
        /\ taken' = [taken EXCEPT ![c].silo = s]
        /\ c = "launch" => s \in serves
  <2>1. CASE PollTakes
    BY <2>1 DEF PollTakes, Callers, LocalInv, TypeOK, Manager, Records
  <2>2. CASE \E s \in Silos : LaunchTakes(s)
    BY <2>2 DEF LaunchTakes, Callers, Owner
  <2> QED BY <2>1, <2>2
<1>2. UNCHANGED <<serves, runtime, pid, browser, unlocked, locking>>
  BY DEF PollTakes, LaunchTakes, outside
<1>3. /\ taken' \in [Callers -> [silo: Owner, back: BOOLEAN]]
      /\ \A d \in Callers : taken'[d].back = taken[d].back
      /\ taken'["launch"].silo \in {taken["launch"].silo} \cup IF c = "launch" THEN {s} ELSE {}
  BY <1>1 DEF LocalInv, TypeOK, Callers
<1>4. CallsOK
  BY <1>1, <1>2, <1>3 DEF CallsOK, LocalInv, TypeOK
<1>5. EndsSecrets(runtime)
  BY <1>2, <1>3 DEF EndsSecrets
<1> QED BY <1>2, <1>4, <1>5, SettledKeeps DEF LocalInv, TypeOK

\* A poll that reaches the manager goes on with what it took.
LEMMA PollReconcilesKeeps == ASSUME LocalInv, PollReconciles PROVE Kept
<1>1. PICK r \in IF NeedsReconciliation(runtime) /\ runtime.record.silo = taken["poll"].silo
                 THEN Reconciled(runtime) ELSE Refreshed(runtime, TRUE) : Becomes(r)
  BY DEF PollReconciles
<1>2. /\ UNCHANGED <<serves, unlocked, locking>> /\ taken' = Back("poll")
      /\ taken["poll"].silo # Nobody /\ "poll" \in Callers /\ unlocked' \in BOOLEAN
  BY DEF PollReconciles, Callers, LocalInv, TypeOK
<1>3. CallsOK /\ \A d \in Callers : taken[d].back => taken'[d].back
  BY <1>2, BackIsOK
<1>4. EndsSecrets(r)
  BY <1>2, <1>3 DEF EndsSecrets
<1>5. CASE NeedsReconciliation(runtime) /\ runtime.record.silo = taken["poll"].silo
  BY <1>1, <1>2, <1>3, <1>4, <1>5, ReconciledKeeps, BecomesKeeps DEF LocalInv
<1>6. CASE ~(NeedsReconciliation(runtime) /\ runtime.record.silo = taken["poll"].silo)
  <2>1. Keeps(runtime, r)
    BY <1>1, <1>6, RefreshedKeeps DEF LocalInv
  <2> QED BY <1>1, <1>2, <1>3, <1>4, <2>1, BecomesKeeps DEF Keeps
<1> QED BY <1>5, <1>6

\* Before it answers it revokes what it brought, if the Vault has locked.
LEMMA AnswerKeeps == ASSUME LocalInv, NEW c \in Callers, Answer(c) PROVE Kept
<1>1. PICK r \in Revocations : Becomes(r)
  BY DEF Answer
<1>2. Keeps(runtime, r) /\ (~unlocked => Quiet(r))
  BY <1>1, RevokedKeeps, KeepsSame DEF LocalInv, Revocations
<1>3. /\ UNCHANGED <<serves, unlocked, locking>> /\ taken' = [taken EXCEPT ![c] = AtRest]
      /\ AtRest \in [silo: Owner, back: BOOLEAN] /\ AtRest.silo = Nobody
  BY DEF Answer, AtRest, Owner
<1>4. /\ taken' \in [Callers -> [silo: Owner, back: BOOLEAN]]
      /\ taken'["launch"] \in {taken["launch"], AtRest}
  BY <1>3 DEF LocalInv, TypeOK, Callers
<1>5. CallsOK /\ EndsSecrets(r)
  BY <1>2, <1>3, <1>4 DEF CallsOK, EndsSecrets, LocalInv, TypeOK
<1> QED BY <1>1, <1>2, <1>3, <1>5, BecomesKeeps DEF Keeps

\* A manager on which a launch is tried holds nothing.
LEMMA UnownedManager ==
  ASSUME NEW r, Consistent(r), ~Owned(r)
  PROVE  /\ r \in Manager /\ Handles(r) = {Nobody} /\ r.activation.silo = Nobody
         /\ r.child = Nobody /\ ~r.host /\ r.relay = Nobody /\ r.lease = Nobody
         /\ r.pending = Nobody /\ r.context = NoContext
<1>1. /\ r.child = Nobody /\ r.relay = Nobody /\ r.lease = Nobody
      /\ r.context.silo = Nobody /\ r.activation.silo = Nobody
  BY DEF Owned
<1> QED BY <1>1, RuntimeAssumption DEF Consistent, Handles

LEMMA AttemptConsistent ==
  ASSUME LocalInv, ~Owned(runtime), NEW s \in serves, NEW silo \in {s, Nobody},
         NEW state \in States \ {"running"}, silo = s => s \in Camoufox
  PROVE  Consistent(Attempt(s, silo, state)) /\ Quiet(Attempt(s, silo, state))
<1> DEFINE r == Attempt(s, silo, state)
           a == [silo |-> silo, state |-> state, camoufox |-> s \in Camoufox]
<1>1. Consistent(runtime) /\ s \in Owner /\ Nobody \in Owner /\ Nobody \notin Camoufox
  BY RuntimeAssumption DEF LocalInv, TypeOK, Owner
<1>2. (s \in Camoufox) \in BOOLEAN
  OBVIOUS
<1>3. a \in [silo: Owner, state: States, camoufox: BOOLEAN]
  BY <1>1, <1>2
<1>4. a.silo = silo /\ a.state = state
  OBVIOUS
<1>5. r = [runtime EXCEPT !.activation = a]
  BY DEF Attempt
<1> HIDE DEF r, a
<1>6. /\ r \in Manager /\ r.activation.silo = silo /\ r.activation.state # "running"
      /\ r.child = Nobody /\ ~r.host /\ r.relay = Nobody /\ r.lease = Nobody
      /\ r.pending = Nobody /\ r.context = NoContext
      /\ r.record = runtime.record /\ r.file = runtime.file
  BY <1>1, <1>3, <1>4, <1>5, UnownedManager DEF Manager
<1>7. Handles(r) = {Nobody} /\ ~r.context.secret /\ ~r.context.compromised
  BY <1>6 DEF Handles, NoContext
<1>8. silo \in serves \cup {Nobody}
  OBVIOUS
<1> QED BY <1>1, <1>6, <1>7, <1>8 DEF Consistent, Quiet, r

LEMMA LaunchingIs ==
  ASSUME LocalInv, NEW s \in Silos, Launching(s)
  PROVE  /\ ~Owned(runtime) /\ s \in serves /\ s # Nobody /\ UNCHANGED serves
         /\ runtime.activation.silo \notin Silos
<1>1. ~Owned(runtime) /\ s \in serves /\ s # Nobody /\ UNCHANGED serves
  BY RuntimeAssumption DEF Launching, LocalInv
<1>2. runtime.activation.silo \notin Silos
  BY <1>1, UnownedManager, RuntimeAssumption DEF LocalInv
<1> QED BY <1>1, <1>2

\* A launch that comes back has its answer to give.
LEMMA BackFromLaunch ==
  ASSUME LocalInv, NEW s \in Silos, Launching(s), NEW r, taken' = Back("launch"),
         UNCHANGED <<unlocked, locking>>
  PROVE  CallsOK /\ EndsSecrets(r)
<1>1. "launch" \in Callers /\ taken["launch"].silo # Nobody /\ unlocked' \in BOOLEAN
  BY LaunchingIs DEF Callers, Launching, LocalInv, TypeOK
<1>2. CallsOK /\ \A d \in Callers : taken[d].back => taken'[d].back
  BY <1>1, BackIsOK
<1> QED BY <1>1, <1>2 DEF EndsSecrets

LEMMA LaunchFailsKeeps ==
  ASSUME LocalInv, NEW s \in Silos, LaunchFails(s) PROVE Kept
<1>1. PICK state \in {"failed", "verification_failed"} : runtime' = Attempt(s, Nobody, state)
  BY DEF LaunchFails
<1>2. /\ ~Owned(runtime) /\ s \in serves /\ s # Nobody /\ UNCHANGED serves
      /\ runtime.activation.silo \notin Silos /\ CallsOK
      /\ EndsSecrets(Attempt(s, Nobody, state)) /\ state \in States \ {"running"}
  BY LaunchingIs, BackFromLaunch DEF LaunchFails, States
<1>3. Consistent(Attempt(s, Nobody, state))
  BY <1>2, AttemptConsistent
<1>4. UNCHANGED <<pid, browser>>
  BY DEF LaunchFails, outside
<1> QED BY <1>1, <1>2, <1>3, <1>4, SettledKeeps DEF LocalInv, TypeOK

LEMMA LaunchAbandonedKeeps ==
  ASSUME LocalInv, NEW s \in Silos, LaunchAbandoned(s) PROVE Kept
<1>1. /\ ~Owned(runtime) /\ s \in serves /\ s \in Camoufox /\ UNCHANGED serves
      /\ runtime.activation.silo \notin Silos /\ CallsOK
      /\ EndsSecrets(Attempt(s, s, "preflight")) /\ "preflight" \in States \ {"running"}
  BY LaunchingIs, BackFromLaunch DEF LaunchAbandoned, States
<1>2. Consistent(Attempt(s, s, "preflight"))
  BY <1>1, AttemptConsistent
<1>3. UNCHANGED <<pid, browser>> /\ runtime' = Attempt(s, s, "preflight")
  BY DEF LaunchAbandoned, outside
<1> QED BY <1>1, <1>2, <1>3, SettledKeeps DEF LocalInv, TypeOK

\* A session that has just started is whole.
LEMMA StartedConsistent ==
  ASSUME LocalInv, ~Owned(runtime), NEW s \in serves
  PROVE  Consistent(Started(s))
<1> DEFINE p == Attempt(s, s, "running")
           c == [silo |-> s, compromised |-> FALSE, secret |-> s \in Mihomo]
           a == [silo |-> s, state |-> "running", camoufox |-> s \in Camoufox]
           relay == IF s \in Relayed THEN s ELSE Nobody
           host == s \in Camoufox
           n == [silo |-> s, state |-> "running"]
           r == [runtime EXCEPT !.activation = a, !.child = s, !.host = host, !.lease = s,
                                !.relay = relay, !.context = c, !.record = n]
<1>1. /\ Consistent(runtime) /\ s \in Owner /\ Nobody \in Owner /\ s # Nobody
      /\ "running" \in States
  BY RuntimeAssumption DEF LocalInv, TypeOK, Owner, States
<1>2. (s \in Camoufox) \in BOOLEAN /\ (s \in Mihomo) \in BOOLEAN
  OBVIOUS
<1>3. /\ a \in [silo: Owner, state: States, camoufox: BOOLEAN]
      /\ a.silo = s /\ a.state = "running"
  BY <1>1, <1>2
<1>4. /\ c \in [silo: Owner, compromised: BOOLEAN, secret: BOOLEAN]
      /\ c.silo = s /\ ~c.compromised
  BY <1>1, <1>2
<1>5. n \in Records /\ n.silo = s
  BY <1>1 DEF Records
<1>6. relay \in {s, Nobody} /\ (s \in Relayed => relay = s) /\ host \in BOOLEAN
      /\ (host <=> s \in Camoufox)
  BY <1>2
<1>7. Started(s) = r
  BY <1>1, UnownedManager DEF Started, Attempt, Manager
<1> HIDE DEF a, c, n, relay, host
<1> DEFINE m == [runtime EXCEPT !.activation = a, !.child = s, !.host = host, !.lease = s]
<1>8. runtime \in Manager /\ runtime.pending = Nobody /\ r = [m EXCEPT !.relay = relay,
                                                        !.context = c, !.record = n]
  BY <1>1, UnownedManager
<1> HIDE DEF r
<1>9. /\ m \in Manager /\ m.activation = a /\ m.child = s /\ m.host = host /\ m.lease = s
      /\ m.pending = Nobody /\ m.file = runtime.file
  BY <1>1, <1>3, <1>6, <1>8 DEF Manager
<1> HIDE DEF m
<1>10. /\ r \in Manager /\ r.activation = a /\ r.child = s /\ r.host = host /\ r.lease = s
       /\ r.relay = relay /\ r.context = c /\ r.record = n
       /\ r.pending = Nobody /\ r.file = runtime.file
  BY <1>1, <1>4, <1>5, <1>6, <1>8, <1>9 DEF Manager
<1>11. Handles(r) \subseteq {s, Nobody}
  BY <1>4, <1>6, <1>10 DEF Handles
<1>12. Consistent(r)
  BY <1>1, <1>3, <1>4, <1>5, <1>6, <1>10, <1>11 DEF Consistent
<1> QED BY <1>7, <1>12

\* The desktop ends, and what it was doing with it.
LEMMA EndedKeeps ==
  ASSUME LocalInv, Ended, UNCHANGED serves,
         pid' \in [Silos -> {"dead", "alive", "reused"}],
         browser' \in [Silos -> {"none", "open", "sentinel"}]
  PROVE  Kept
<1>1. Consistent(runtime') /\ Quiet(runtime')
  BY FileOpens DEF Ended, LocalInv
<1>2. /\ unlocked' = FALSE /\ locking' = FALSE
      /\ taken' \in [Callers -> [silo: Owner, back: BOOLEAN]]
      /\ taken'["launch"].silo = Nobody
  BY DEF Ended, NoCalls, AtRest, Callers, Owner
<1>3. CallsOK /\ EndsSecrets(runtime')
  BY <1>1, <1>2 DEF CallsOK, EndsSecrets
<1> QED BY <1>1, <1>2, <1>3, SettledKeeps

LEMMA LaunchKeeps ==
  ASSUME LocalInv, NEW s \in Silos, Launch(s) PROVE Kept
<1>1. /\ pid' \in [Silos -> {"dead", "alive", "reused"}]
      /\ browser' \in [Silos -> {"none", "open", "sentinel"}]
  BY DEF Launch, LocalInv, TypeOK
<1>2. /\ ~Owned(runtime) /\ s \in serves /\ UNCHANGED serves
      /\ runtime.activation.silo \notin Silos /\ "running" \in States
  BY LaunchingIs DEF Launch, States
<1>3. CASE /\ runtime' \in Persisted(Started(s), "running") /\ taken' = Back("launch")
           /\ UNCHANGED <<unlocked, locking>>
  <2>1. CallsOK /\ EndsSecrets(runtime')
    BY <1>3, BackFromLaunch DEF Launch
  <2>2. Consistent(runtime')
    BY <1>2, <1>3, StartedConsistent, PersistedKeeps DEF Keeps
  <2> QED BY <1>1, <1>2, <2>1, <2>2, SettledKeeps
<1>4. CASE Ended
  BY <1>1, <1>2, <1>4, EndedKeeps
<1> QED BY <1>3, <1>4 DEF Launch

LEMMA StopKeeps ==
  ASSUME LocalInv, NEW s \in Silos, Stop(s) PROVE Kept
<1>1. PICK q \in Refreshed(runtime, TRUE) :
        \E r \in IF unlocked \/ (q.activation.silo = s /\ q.activation.camoufox)
                 THEN StopOutcomes(s, q) ELSE {q} : Becomes(r)
  BY DEF Stop
<1>2. PICK r \in StopOutcomes(s, q) \cup {q} : Becomes(r)
  BY <1>1
<1>3. Keeps(runtime, q)
  BY RefreshedKeeps DEF LocalInv
<1>4. Keeps(q, r)
  <2>1. CASE r = q
    BY <1>3, <2>1, KeepsSame DEF Keeps
  <2>2. CASE r \in Finished(q, TRUE) /\ q.activation.silo = s
    <3>1. s \in Camoufox /\ s # Nobody
      BY RuntimeAssumption DEF Stop
    <3>2. q.pending = Nobody
      BY <1>3, <2>2, <3>1 DEF Keeps, Consistent, Handles
    <3> QED BY <1>3, <2>2, <3>1, <3>2, FinishedKeeps DEF Keeps
  <2>3. CASE r \in HostFailure(q, TRUE)
    BY <1>3, <2>3, HostFailureKeeps DEF Keeps
  <2> QED BY <1>2, <2>1, <2>2, <2>3 DEF StopOutcomes
<1>5. UNCHANGED <<serves, calls>> /\ unlocked' \in BOOLEAN
  BY DEF Stop, LocalInv, TypeOK
<1> QED BY <1>2, <1>3, <1>4, <1>5, KeepsTransitive, CallKeeps

\* A recheck calls nothing running whose relay is gone.
LEMMA RecheckKeeps ==
  ASSUME LocalInv, NEW s \in Silos, Recheck(s) PROVE Kept
<1>1. PICK q \in Refreshed(runtime, TRUE) :
        \E r \in IF q.activation.silo # s \/ q.pending # Nobody \/ q.context.compromised
                 THEN {q}
                 ELSE UNION {Persisted([q EXCEPT !.activation.state = state,
                                                 !.activation.camoufox = s \in Camoufox], state)
                             : state \in RecheckStates(s, q)} : Becomes(r)
  BY DEF Recheck
<1>2. Keeps(runtime, q)
  BY RefreshedKeeps DEF LocalInv
<1>3. UNCHANGED <<serves, calls>> /\ unlocked' \in BOOLEAN
  BY DEF Recheck, LocalInv, TypeOK
<1>4. CASE q.activation.silo # s \/ q.pending # Nobody \/ q.context.compromised
  BY <1>1, <1>2, <1>3, <1>4, CallKeeps
<1>5. CASE ~(q.activation.silo # s \/ q.pending # Nobody \/ q.context.compromised)
  <2>1. PICK state \in RecheckStates(s, q) :
          \E r \in Persisted([q EXCEPT !.activation.state = state,
                                       !.activation.camoufox = s \in Camoufox], state) :
            Becomes(r)
    BY <1>1, <1>5
  <2> DEFINE host == s \in Camoufox
             p == [q EXCEPT !.activation.state = state, !.activation.camoufox = host]
  <2>2. PICK r \in Persisted(p, state) : Becomes(r)
    BY <2>1
  <2>3. /\ state \in States /\ host \in BOOLEAN /\ q \in Manager
        /\ state = "running" => s \notin Relayed \cap Required \/ q.relay # Nobody
    BY <1>2 DEF RecheckStates, States, Keeps, Consistent
  <2> HIDE DEF host
  <2>4. /\ p \in Manager /\ p.activation.silo = s /\ p.activation.state = state
        /\ p.child = q.child /\ p.host = q.host /\ p.relay = q.relay /\ p.lease = q.lease
        /\ p.context = q.context /\ p.pending = q.pending
        /\ p.record = q.record /\ p.file = q.file
    BY <1>5, <2>3 DEF Manager
  <2> HIDE DEF p
  <2>5. Handles(p) = Handles(q)
    BY <2>4 DEF Handles
  <2>6. Consistent(q)
    BY <1>2 DEF Keeps
  <2>7. p.activation.state = "running" /\ s \in Relayed \cap Required => p.relay = s
    BY <1>5, <2>3, <2>4, <2>6 DEF Consistent, Handles
  <2>8. Consistent(p)
    BY <1>5, <2>4, <2>5, <2>6, <2>7 DEF Consistent
  <2>9. Keeps(q, p)
    BY <1>5, <2>4, <2>8 DEF Keeps, Quiet
  <2>10. Keeps(p, r)
    BY <2>2, <2>3, <2>8, PersistedKeeps
  <2> QED BY <1>2, <1>3, <2>2, <2>9, <2>10, KeepsTransitive, CallKeeps
<1> QED BY <1>4, <1>5

LEMMA RestoreKeeps == ASSUME LocalInv, Restore PROVE Kept
<1>1. PICK q \in Refreshed(runtime, TRUE) :
        IF Quiescent(q) /\ (\A s \in Silos : browser[s] = "none")
        THEN \E file \in {NoRecord, q.file} :
               Becomes([Fresh(NoRecord) EXCEPT !.file = file])
        ELSE Becomes(q)
  BY DEF Restore
<1>2. Keeps(runtime, q)
  BY RefreshedKeeps DEF LocalInv
<1>3. UNCHANGED <<serves, calls>> /\ unlocked' = TRUE
  BY DEF Restore, LocalInv, TypeOK
<1>4. CASE Quiescent(q) /\ (\A s \in Silos : browser[s] = "none")
  <2>1. PICK file \in {NoRecord, q.file} :
          Becomes([Fresh(NoRecord) EXCEPT !.file = file])
    BY <1>1, <1>4
  <2> DEFINE r == [Fresh(NoRecord) EXCEPT !.file = file]
  <2>2. /\ file \in Records /\ (file = NoRecord \/ file.silo # Nobody)
        /\ file.silo \in serves \cup {Nobody}
    BY <1>2 DEF Keeps, Consistent, Manager, NoRecord, Records, Owner, States
  <2>3. Consistent(r) /\ Quiet(r)
    BY <2>2, FreshWithFile
  <2> HIDE DEF r
  <2>4. CallsOK /\ EndsSecrets(r)
    BY <1>3, <2>3, CallsStayOK DEF EndsSecrets
  <2> QED BY <1>3, <1>4, <2>1, <2>3, <2>4, BecomesKeeps DEF r
<1>5. CASE ~(Quiescent(q) /\ (\A s \in Silos : browser[s] = "none"))
  BY <1>1, <1>2, <1>3, <1>5, CallKeeps
<1> QED BY <1>4, <1>5

\* The record that is forgotten is of a Silo without handles.
LEMMA InvalidateRestoredKeeps ==
  ASSUME LocalInv, NEW s \in Silos, InvalidateRestored(s) PROVE Kept
<1>1. PICK q \in Refreshed(runtime, TRUE) :
        IF q.record.silo = s /\ q.activation.silo # s
        THEN \E file \in {NoRecord, q.file} :
               Becomes([q EXCEPT !.record = NoRecord, !.file = file,
                                 !.activation = Fresh(NoRecord).activation])
        ELSE Becomes(q)
  BY DEF InvalidateRestored
<1>2. Keeps(runtime, q)
  BY RefreshedKeeps DEF LocalInv
<1>3. UNCHANGED <<serves, calls>> /\ unlocked' = TRUE /\ s \in Camoufox /\ s # Nobody
  BY RuntimeAssumption DEF InvalidateRestored, LocalInv, TypeOK
<1>4. CASE q.record.silo = s /\ q.activation.silo # s
  <2> DEFINE a == Fresh(NoRecord).activation
  <2>1. PICK file \in {NoRecord, q.file} :
          Becomes([q EXCEPT !.record = NoRecord, !.file = file, !.activation = a])
    BY <1>1, <1>4
  <2> DEFINE r == [q EXCEPT !.record = NoRecord, !.file = file, !.activation = a]
  <2>2. /\ file \in Records /\ (file = NoRecord \/ file.silo # Nobody)
        /\ file.silo \in serves \cup {Nobody} /\ Consistent(q)
    BY <1>2 DEF Keeps, Consistent, Manager, NoRecord, Records, Owner, States
  <2>3. /\ a \in [silo: Owner, state: States, camoufox: BOOLEAN]
        /\ a.silo = Nobody /\ a.state = "idle"
        /\ NoRecord \in Records /\ NoRecord.silo = Nobody
    BY DEF Fresh, NoRecord, Records, Owner, States
  <2> HIDE DEF a
  <2>4. /\ r \in Manager /\ r.record = NoRecord /\ r.file = file /\ r.activation = a
        /\ r.child = q.child /\ r.host = q.host /\ r.relay = q.relay /\ r.lease = q.lease
        /\ r.context = q.context /\ r.pending = q.pending
    BY <2>2, <2>3 DEF Consistent, Manager
  <2> HIDE DEF r
  <2>5. Handles(q) \subseteq {Nobody}
    BY <1>4, <2>2 DEF Consistent
  <2>6. Handles(r) \subseteq {Nobody}
    BY <2>4, <2>5 DEF Handles
  <2>7. Consistent(r)
    BY <2>2, <2>3, <2>4, <2>6 DEF Consistent
  <2>8. \A t \in Silos \ Camoufox :
          browser[t] = "open" => runtime.activation.silo # t
    <3> SUFFICES ASSUME NEW t \in Silos \ Camoufox, browser[t] = "open",
                        runtime.activation.silo = t
                 PROVE  FALSE
      OBVIOUS
    <3>1. q.activation.silo = t
      BY <1>2 DEF Keeps
    <3>2. q.record.silo = t
      BY <2>2, <3>1, RuntimeAssumption DEF Consistent
    <3> QED BY <1>3, <1>4, <3>2
  <2>9. CallsOK /\ EndsSecrets(r)
    BY <1>3, CallsStayOK DEF EndsSecrets, calls
  <2> QED BY <1>3, <2>1, <2>7, <2>8, <2>9, BecomesKeeps DEF r
<1>5. CASE ~(q.record.silo = s /\ q.activation.silo # s)
  BY <1>1, <1>2, <1>3, <1>5, CallKeeps
<1> QED BY <1>4, <1>5

LEMMA RestartKeeps == ASSUME LocalInv, Restart PROVE Kept
BY EndedKeeps DEF Restart, outside, LocalInv, TypeOK

LEMMA OutsideKeeps == ASSUME LocalInv, Outside PROVE Kept
<1>1. UNCHANGED <<serves, runtime, unlocked, calls>>
  BY DEF Outside, Close, SentinelGoes, HostDies, PidReused, TakenOver
<1>2. /\ pid' \in [Silos -> {"dead", "alive", "reused"}]
      /\ browser' \in [Silos -> {"none", "open", "sentinel"}]
  BY DEF Outside, Close, SentinelGoes, HostDies, PidReused, TakenOver, LocalInv, TypeOK
<1>3. CallsOK /\ EndsSecrets(runtime)
  BY <1>1, CallsStayOK DEF EndsSecrets, calls, LocalInv, TypeOK
<1> QED BY <1>1, <1>2, <1>3, SettledKeeps DEF LocalInv

LEMMA LocalStepKeeps ==
  ASSUME LocalInv, [Next]_vars
  PROVE  LocalInv' /\ [StaysInUse]_vars /\ [EndsSecrets(runtime')]_vars
<1>1. CASE UNCHANGED vars
  <2>1. LocalInv'
    BY <1>1 DEF vars, outside, calls, LocalInv, TypeOK, Managers, Consistent, Handles
  <2> QED BY <1>1, <2>1
<1>2. CASE Next
  <2>1. Kept
    BY <1>2, WatchdogKeeps, StatusKeeps, UnlockKeeps, LockKeeps, FinishLockKeeps, TakesKeeps,
       PollReconcilesKeeps, AnswerKeeps, RestoreKeeps, RestartKeeps, OutsideKeeps,
       LaunchFailsKeeps, LaunchAbandonedKeeps, LaunchKeeps, StopKeeps, RecheckKeeps,
       InvalidateRestoredKeeps DEF Next
  <2> QED BY <2>1 DEF Kept
<1> QED BY <1>1, <1>2

LEMMA LocalInitHolds == Init => LocalInv
<1> SUFFICES ASSUME Init PROVE LocalInv
  OBVIOUS
<1>1. Consistent(runtime) /\ Quiet(runtime)
  BY NoRecordIsRecord, FreshConsistent DEF Init
<1>2. serves \subseteq Silos
  BY RuntimeAssumption DEF Init, Managers
<1>3. runtime \in Manager
  BY <1>1 DEF Consistent
<1>4. NoCalls \in [Callers -> [silo: Owner, back: BOOLEAN]] /\ NoCalls["launch"].silo = Nobody
  BY DEF NoCalls, AtRest, Callers, Owner
<1> QED BY <1>1, <1>2, <1>3, <1>4 DEF Init, LocalInv, TypeOK

(***************************************************************************)
(* What follows from it.                                                   *)
(***************************************************************************)
LEMMA LocalInvMeans ==
  LocalInv => /\ TypeOK /\ HandlesAreTheActive /\ CompromisedIsTerminal
              /\ RunningHasItsRelay /\ RelayOfSoundRuntime
<1> SUFFICES ASSUME LocalInv
             PROVE  /\ TypeOK /\ HandlesAreTheActive /\ CompromisedIsTerminal
                    /\ RunningHasItsRelay /\ RelayOfSoundRuntime
  OBVIOUS
<1>1. TypeOK /\ Consistent(runtime)
  BY DEF LocalInv
<1>2. HandlesAreTheActive /\ CompromisedIsTerminal
  BY <1>1 DEF Consistent, Handles, HandlesAreTheActive, CompromisedIsTerminal
<1>3. RunningHasItsRelay /\ RelayOfSoundRuntime
  BY <1>1 DEF Consistent, RunningHasItsRelay, RelayOfSoundRuntime
<1> QED BY <1>1, <1>2, <1>3

\* The manager's invariant holds in every state of the local runtime.
THEOREM LocalRuntimeInvariant == Spec => []LocalInv
<1>1. Init => LocalInv
  BY LocalInitHolds
<1>2. LocalInv /\ [Next]_vars => LocalInv'
  BY LocalStepKeeps
<1> QED BY <1>1, <1>2, PTL DEF Spec

\* The sessions run the local runtime, or leave it alone.
THEOREM SessionsRunLocal == SessionsSpec => Spec
<1>1. SessionsInit => Init
  BY DEF SessionsInit
<1>2. [SessionsNext]_sessionsVars => [Next]_vars
  BY DEF SessionsNext, sessionsVars, LocalStep, WslStep, SlotStep, SharedStep
<1> QED BY <1>1, <1>2, PTL DEF SessionsSpec, Spec

\* RelayIsGuarded: a relay is that of the running browser and of a sound path, and
\* the lock of the Vault ends what is left of the secrets: the lock command before
\* it is over, a launch or a poll that the lock overtook before it answers, whatever
\* the calls, the processes and the crashes of the desktop do (launcher.rs,
\* RuntimeManager; application/vault.rs, lock_vault_with).
THEOREM RelaysGuarded == SessionsSpec => RelayIsGuarded
<1>1. LocalInv => RunningHasItsRelay /\ RelayOfSoundRuntime
  BY LocalInvMeans
<1>2. LocalInv /\ [Next]_vars => [SecretsEnd]_vars
  BY LocalStepKeeps DEF SecretsEnd, EndsSecrets, Secretless, Quiet
<1>3. Spec => LockedHoldsNoSecret
  BY <1>2, LocalRuntimeInvariant, PTL DEF Spec, LockedHoldsNoSecret
<1> QED BY <1>1, <1>3, SessionsRunLocal, LocalRuntimeInvariant, PTL DEF RelayIsGuarded

\* RuntimeStaysKnown: a path that was closed for good stays closed, and a stock
\* browser that is open keeps its Silo in use as long as the Vault is open.
THEOREM RuntimesKnown == SessionsSpec => RuntimeStaysKnown
<1>1. LocalInv => (part = "local" => CompromisedIsTerminal)
  BY LocalInvMeans
<1>2. LocalInv /\ [Next]_vars => [StaysInUse]_vars
  BY LocalStepKeeps
<1>3. Spec => OpenBrowserStaysInUse
  BY <1>2, LocalRuntimeInvariant, PTL DEF Spec, OpenBrowserStaysInUse, StaysInUse
<1> QED BY <1>1, <1>3, SessionsRunLocal, LocalRuntimeInvariant, PTL DEF RuntimeStaysKnown

-----------------------------------------------------------------------------
(***************************************************************************)
(* WslRuntime: the browser in a distribution.  At most one runs, of a Silo *)
(* that the record names, and what a command or a poll concluded of it     *)
(* stays so until it is settled: nothing is launched meanwhile.            *)
(***************************************************************************)
Task(p) ==
  LET c == proc[p]
  IN /\ p = "poll" => c.op \in {"none", "poll", "lock"}
     /\ c.pc # "idle" => c.op # "none"
     /\ c.pc \in {"prepare", "persist", "inspect", "start"} => c.op = "launch"
     /\ p = "command" /\ c.pc = "mark" => c.op = "launch"
     /\ c.pc = "lock" => c.op = "lock"
     /\ c.op = "launch" => c.silo \in Known /\ proc["poll"] = Wsl!Idle
     /\ c.op = "launch" /\ c.pc \in {"mark", "start"} => record = c.silo /\ guest = {}
     /\ c.pc = "clear" => c.silo \notin guest
     /\ c.pc = "settle" => /\ c.outcome # "none"
                           /\ c.outcome \in {"stopped", "failed"} => guest = {}
                           /\ c.outcome = "running" => guest \subseteq {c.silo}
     /\ p = "poll" /\ c.pc = "mark" => guest \subseteq {c.silo}

\* The browsers that may run, the record and the activation.
Accounted ==
  /\ wslRuntime.silo # None => wslRuntime.wsl = wslRuntime.silo
  /\ guest \subseteq Known
  /\ \A s, t \in guest : s = t
  /\ Wsl!BrowserIsRecorded
  /\ Wsl!BrowserBlocksLaunch

WslInv == Wsl!TypeOK /\ Accounted /\ Task("command") /\ Task("poll")

Other(p) == IF p = "poll" THEN "command" ELSE "poll"

\* How a step moves a task.
LEMMA MovedTask ==
  ASSUME proc \in [Wsl!Procs -> Wsl!Tasks], NEW p \in Wsl!Procs, NEW c \in Wsl!Tasks,
         proc' = [proc EXCEPT ![p] = c]
  PROVE  /\ proc' \in [Wsl!Procs -> Wsl!Tasks]
         /\ proc'[p] = c /\ proc'[Other(p)] = proc[Other(p)]
BY DEF Wsl!Procs, Other

LEMMA GotoTask ==
  ASSUME proc \in [Wsl!Procs -> Wsl!Tasks], NEW p \in Wsl!Procs, NEW pc \in Wsl!Pcs,
         Wsl!Goto(p, pc)
  PROVE  /\ proc' \in [Wsl!Procs -> Wsl!Tasks]
         /\ proc'[p].pc = pc /\ proc'[p].op = proc[p].op
         /\ proc'[p].silo = proc[p].silo /\ proc'[p].outcome = proc[p].outcome
         /\ proc'[Other(p)] = proc[Other(p)]
<1> DEFINE c == [proc[p] EXCEPT !.pc = pc]
<1>1. proc[p] \in Wsl!Tasks
  OBVIOUS
<1>2. /\ c \in Wsl!Tasks /\ c.pc = pc /\ c.op = proc[p].op /\ c.silo = proc[p].silo
      /\ c.outcome = proc[p].outcome
  BY <1>1 DEF Wsl!Tasks
<1>3. proc' = [proc EXCEPT ![p] = c]
  BY DEF Wsl!Goto
<1> HIDE DEF c
<1> QED BY <1>2, <1>3, MovedTask

LEMMA DecideTask ==
  ASSUME proc \in [Wsl!Procs -> Wsl!Tasks], NEW p \in Wsl!Procs, NEW pc \in Wsl!Pcs,
         NEW outcome \in Wsl!Outcomes, Wsl!Decide(p, outcome, pc)
  PROVE  /\ proc' \in [Wsl!Procs -> Wsl!Tasks]
         /\ proc'[p].pc = pc /\ proc'[p].op = proc[p].op
         /\ proc'[p].silo = proc[p].silo /\ proc'[p].outcome = outcome
         /\ proc'[Other(p)] = proc[Other(p)]
<1> DEFINE c == [proc[p] EXCEPT !.outcome = outcome, !.pc = pc]
<1>1. proc[p] \in Wsl!Tasks
  OBVIOUS
<1>2. /\ c \in Wsl!Tasks /\ c.pc = pc /\ c.op = proc[p].op /\ c.silo = proc[p].silo
      /\ c.outcome = outcome
  BY <1>1 DEF Wsl!Tasks
<1>3. proc' = [proc EXCEPT ![p] = c]
  BY DEF Wsl!Decide
<1> HIDE DEF c
<1> QED BY <1>2, <1>3, MovedTask

LEMMA RunTask ==
  ASSUME proc \in [Wsl!Procs -> Wsl!Tasks], NEW p \in Wsl!Procs, NEW pc \in Wsl!Pcs,
         NEW op \in {"launch", "stop", "recheck", "lock", "poll"},
         NEW s \in WslSilos \cup {None}, Wsl!Run(p, op, s, pc)
  PROVE  /\ proc' \in [Wsl!Procs -> Wsl!Tasks]
         /\ proc'[p].pc = pc /\ proc'[p].op = op
         /\ proc'[p].silo = s /\ proc'[p].outcome = "none"
         /\ proc'[Other(p)] = proc[Other(p)]
<1> DEFINE c == [Wsl!Idle EXCEPT !.op = op, !.silo = s, !.pc = pc]
<1>1. /\ c \in Wsl!Tasks /\ c.pc = pc /\ c.op = op /\ c.silo = s /\ c.outcome = "none"
  BY DEF Wsl!Tasks, Wsl!Idle, Wsl!Outcomes
<1>2. proc' = [proc EXCEPT ![p] = c]
  BY DEF Wsl!Run
<1> HIDE DEF c
<1> QED BY <1>1, <1>2, MovedTask

LEMMA IdleTask ==
  ASSUME proc \in [Wsl!Procs -> Wsl!Tasks], NEW p \in Wsl!Procs,
         proc' = [proc EXCEPT ![p] = Wsl!Idle]
  PROVE  /\ proc' \in [Wsl!Procs -> Wsl!Tasks]
         /\ proc'[p] = Wsl!Idle /\ proc'[Other(p)] = proc[Other(p)]
<1>1. Wsl!Idle \in Wsl!Tasks
  BY DEF Wsl!Tasks, Wsl!Idle, Wsl!Outcomes, Wsl!Pcs
<1> QED BY <1>1, MovedTask

BlockKept == wslRuntime.blocked /\ ~wslRuntime'.blocked => guest' \subseteq {wslRuntime'.silo}

\* The task that does not move, as long as no browser starts.
LEMMA OtherTask ==
  ASSUME WslInv, NEW p \in Wsl!Procs, proc'[Other(p)] = proc[Other(p)], guest' \subseteq guest,
         p = "poll" => proc["poll"] # Wsl!Idle \/ ~Wsl!Launching
  PROVE  Task(Other(p))'
<1>1. CASE p = "poll"
  <2>1. proc["command"].op # "launch"
    BY <1>1 DEF WslInv, Task, Wsl!Launching
  <2> QED BY <1>1, <2>1 DEF WslInv, Task, Other
<1>2. CASE p = "command"
  BY <1>2 DEF WslInv, Task, Other
<1> QED BY <1>1, <1>2 DEF Wsl!Procs

LEMMA BothTasks ==
  ASSUME NEW p \in Wsl!Procs, Task(p)', Task(Other(p))'
  PROVE  Task("command")' /\ Task("poll")'
BY DEF Other, Wsl!Procs

\* A look at the browser, or its end, with the activation and the record as they were.
LEMMA LookAccounted ==
  ASSUME WslInv, wslRuntime' = wslRuntime, record' = record, guest' \subseteq guest,
         Wsl!Launching => Wsl!Launching' \/ guest' = {}
  PROVE  Accounted' /\ BlockKept
<1>1. Wsl!BrowserIsRecorded'
  BY DEF WslInv, Accounted, Wsl!BrowserIsRecorded
<1>2. Wsl!HasActive' = Wsl!HasActive
  BY DEF Wsl!HasActive
<1>3. Wsl!BrowserBlocksLaunch'
  BY <1>2 DEF WslInv, Accounted, Wsl!BrowserBlocksLaunch
<1> QED BY <1>1, <1>3 DEF WslInv, Accounted, BlockKept

\* What the names of the tasks' parts are made of.
LEMMA Words ==
  /\ {"idle", "prepare", "persist", "mark", "start", "health", "stop", "clear", "inspect",
      "settle", "lock", "check"} = Wsl!Pcs
  /\ {"none", "running", "stopped", "failed", "doubt"} = Wsl!Outcomes
  /\ {"command", "poll"} = Wsl!Procs
BY DEF Wsl!Pcs, Wsl!Outcomes, Wsl!Procs

\* A step of one task that changes nothing else, and browsers may end.
LEMMA LookKeeps ==
  ASSUME WslInv, NEW p \in Wsl!Procs, wslRuntime' = wslRuntime, record' = record,
         guest' \subseteq guest, UNCHANGED wslUnlocked,
         proc' \in [Wsl!Procs -> Wsl!Tasks], proc'[Other(p)] = proc[Other(p)],
         proc[p] # Wsl!Idle, proc'[p].op = proc[p].op, Task(p)'
  PROVE  WslInv' /\ BlockKept
<1>1. Task(Other(p))'
  BY OtherTask
<1>2. Wsl!Launching => Wsl!Launching'
  BY Words DEF Wsl!Launching, Other
<1>3. Accounted' /\ BlockKept
  BY <1>2, LookAccounted
<1>4. Wsl!TypeOK'
  BY DEF WslInv, Wsl!TypeOK
<1> QED BY <1>1, <1>3, <1>4, BothTasks DEF WslInv

LEMMA PrepareLaunchKeeps == ASSUME WslInv, Wsl!PrepareLaunch PROVE WslInv' /\ BlockKept
<1>1. proc["command"].pc = "prepare" /\ guest' \subseteq guest
  BY DEF Wsl!PrepareLaunch
<1>2. PICK pc \in {"persist", "inspect"} : Wsl!Goto("command", pc)
  BY DEF Wsl!PrepareLaunch
<1>3. /\ proc' \in [Wsl!Procs -> Wsl!Tasks] /\ proc'["command"].pc = pc
      /\ proc'["command"].op = proc["command"].op
      /\ proc'["command"].silo = proc["command"].silo
      /\ proc'["poll"] = proc["poll"]
  BY <1>2, GotoTask, Words DEF WslInv, Wsl!TypeOK, Other
<1>4. Task("command")'
  BY <1>1, <1>3 DEF WslInv, Task
<1> QED BY <1>1, <1>3, <1>4, LookKeeps, Words DEF Wsl!PrepareLaunch, Other, Wsl!Idle

\* A launch writes its record before the browser starts.
LEMMA PersistRecordKeeps == ASSUME WslInv, Wsl!PersistRecord PROVE WslInv' /\ BlockKept
<1> DEFINE s == proc["command"].silo
<1>1. /\ proc["command"].pc = "persist" /\ proc["command"].op = "launch" /\ s \in Known
      /\ guest' = guest /\ wslRuntime' = wslRuntime /\ wslUnlocked' = wslUnlocked
      /\ record' \in {record, IF record = None THEN s ELSE record}
  BY Words DEF Wsl!PersistRecord, WslInv, Task
<1>2. PICK pc \in {"mark", "inspect"} :
        Wsl!Goto("command", pc) /\ (pc = "mark" => record = None /\ record' = s)
  BY DEF Wsl!PersistRecord
<1>3. /\ proc' \in [Wsl!Procs -> Wsl!Tasks] /\ proc'["command"].pc = pc
      /\ proc'["command"].op = proc["command"].op
      /\ proc'["command"].silo = proc["command"].silo
      /\ proc'["poll"] = proc["poll"]
  BY <1>2, GotoTask, Words DEF WslInv, Wsl!TypeOK, Other
<1>4. record = None => guest = {}
  BY WslAssumption DEF WslInv, Wsl!TypeOK, Accounted, Wsl!BrowserIsRecorded, Wsl!RuntimeAssumption
<1>5. Wsl!BrowserIsRecorded'
  BY <1>1, <1>4 DEF WslInv, Accounted, Wsl!BrowserIsRecorded
<1>6. Wsl!BrowserBlocksLaunch'
  BY <1>1, <1>3 DEF Wsl!BrowserBlocksLaunch, Wsl!Launching
<1>7. Task("command")' /\ Task("poll")'
  BY <1>1, <1>2, <1>3, <1>4 DEF WslInv, Task
<1>8. Accounted' /\ BlockKept
  BY <1>1, <1>5, <1>6 DEF WslInv, Accounted, BlockKept
<1>9. Wsl!TypeOK'
  BY <1>1, <1>3, WslAssumption DEF WslInv, Wsl!TypeOK, Wsl!RuntimeAssumption
<1> QED BY <1>7, <1>8, <1>9 DEF WslInv

LEMMA MarkKeeps ==
  ASSUME WslInv, NEW p \in Wsl!Procs, Wsl!Mark(p) PROVE WslInv' /\ BlockKept
<1>1. /\ proc[p].pc = "mark" /\ guest' = guest /\ wslRuntime' = wslRuntime
      /\ record' = record /\ wslUnlocked' = wslUnlocked
  BY DEF Wsl!Mark
<1>2. proc[p].op = "launch" <=> p = "command"
  BY <1>1, Words DEF WslInv, Task
<1>3. /\ proc' \in [Wsl!Procs -> Wsl!Tasks]
      /\ proc'[p].op = proc[p].op /\ proc'[p].silo = proc[p].silo
      /\ proc'[Other(p)] = proc[Other(p)]
      /\ IF p = "command" THEN proc'[p].pc \in {"start", "clear"}
         ELSE proc'[p].pc = "settle" /\ proc'[p].outcome \in {"running", "doubt"}
  BY <1>1, <1>2, GotoTask, DecideTask, Words DEF Wsl!Mark, WslInv, Wsl!TypeOK
<1>4. Task(p)'
  <2>1. CASE p = "command"
    <3>1. proc'["poll"] = proc["poll"]
      BY <1>3, <2>1 DEF Other
    <3> QED BY <1>1, <1>2, <1>3, <2>1, <3>1 DEF WslInv, Task
  <2>2. CASE p = "poll"
    BY <1>1, <1>2, <1>3, <2>2 DEF WslInv, Task
  <2> QED BY <2>1, <2>2, Words
<1> QED BY <1>1, <1>3, <1>4, LookKeeps DEF Wsl!Idle

\* Nobody polls while a browser is started.
LEMMA StartKeeps == ASSUME WslInv, Wsl!Start PROVE WslInv' /\ BlockKept
<1> DEFINE s == proc["command"].silo
<1>1. /\ proc["command"].pc = "start" /\ proc["command"].op = "launch" /\ s \in Known
      /\ proc["poll"] = Wsl!Idle /\ record = s /\ guest = {}
      /\ guest' \in {{}, {s}} /\ record' = record
      /\ wslRuntime' = wslRuntime /\ wslUnlocked' = wslUnlocked
  BY DEF Wsl!Start, WslInv, Task
<1>2. \/ Wsl!Decide("command", "running", "settle")
      \/ Wsl!Decide("command", "failed", "stop")
  BY DEF Wsl!Start
<1>3. /\ proc' \in [Wsl!Procs -> Wsl!Tasks]
      /\ proc'["command"].op = "launch" /\ proc'["command"].silo = s
      /\ proc'["poll"] = proc["poll"]
      /\ \/ proc'["command"].pc = "settle" /\ proc'["command"].outcome = "running"
         \/ proc'["command"].pc = "stop"
  BY <1>1, <1>2, DecideTask, Words DEF WslInv, Wsl!TypeOK, Other
<1>4. Task("command")' /\ Task("poll")'
  BY <1>1, <1>3 DEF WslInv, Task, Wsl!Idle
<1>5. Wsl!BrowserIsRecorded' /\ Wsl!BrowserBlocksLaunch'
  BY <1>1, <1>3 DEF Wsl!BrowserIsRecorded, Wsl!BrowserBlocksLaunch, Wsl!Launching
<1>6. Accounted' /\ BlockKept
  BY <1>1, <1>5 DEF WslInv, Accounted, BlockKept
<1>7. Wsl!TypeOK'
  BY <1>1, <1>3, WslAssumption DEF WslInv, Wsl!TypeOK, Wsl!RuntimeAssumption
<1> QED BY <1>4, <1>6, <1>7 DEF WslInv

LEMMA InspectKeeps == ASSUME WslInv, Wsl!Inspect PROVE WslInv' /\ BlockKept
<1>1. /\ proc["command"].pc = "inspect" /\ guest' = guest /\ wslRuntime' = wslRuntime
      /\ record' = record /\ wslUnlocked' = wslUnlocked
  BY DEF Wsl!Inspect
<1>2. PICK outcome \in {"failed", "doubt"} :
        Wsl!Decide("command", outcome, "settle") /\ (outcome = "failed" => record = None)
  BY DEF Wsl!Inspect
<1>3. /\ proc' \in [Wsl!Procs -> Wsl!Tasks] /\ proc'["command"].pc = "settle"
      /\ proc'["command"].op = proc["command"].op /\ proc'["command"].outcome = outcome
      /\ proc'["command"].silo = proc["command"].silo
      /\ proc'["poll"] = proc["poll"]
  BY <1>2, DecideTask, Words DEF WslInv, Wsl!TypeOK, Other
<1>4. record = None => guest = {}
  BY WslAssumption DEF WslInv, Wsl!TypeOK, Accounted, Wsl!BrowserIsRecorded, Wsl!RuntimeAssumption
<1>5. Task("command")'
  BY <1>1, <1>2, <1>3, <1>4 DEF WslInv, Task
<1> QED BY <1>1, <1>3, <1>5, LookKeeps, Words DEF Other, Wsl!Idle

LEMMA HealthKeeps ==
  ASSUME WslInv, NEW p \in Wsl!Procs, Wsl!Health(p) PROVE WslInv' /\ BlockKept
<1>1. /\ proc[p].pc = "health" /\ guest' = guest /\ wslRuntime' = wslRuntime
      /\ record' = record /\ wslUnlocked' = wslUnlocked
  BY DEF Wsl!Health
<1>2. /\ proc' \in [Wsl!Procs -> Wsl!Tasks]
      /\ proc'[p].op = proc[p].op /\ proc'[p].silo = proc[p].silo
      /\ proc'[Other(p)] = proc[Other(p)]
      /\ \/ proc'[p].pc = "stop"
         \/ /\ proc[p].silo \in guest
            /\ IF p = "poll" THEN proc'[p].pc = "mark"
               ELSE proc'[p].pc = "settle" /\ proc'[p].outcome = "running"
  BY <1>1, GotoTask, DecideTask, Words DEF Wsl!Health, WslInv, Wsl!TypeOK
<1>3. proc[p].silo \in guest => guest \subseteq {proc[p].silo}
  BY DEF WslInv, Accounted
<1>4. p = "command" => proc'["poll"] = proc["poll"]
  BY <1>2 DEF Other
<1>5. Task(p)'
  BY <1>1, <1>2, <1>3, <1>4, Words DEF WslInv, Task
<1> QED BY <1>1, <1>2, <1>5, LookKeeps DEF Wsl!Idle

LEMMA EndBrowserKeeps ==
  ASSUME WslInv, NEW p \in Wsl!Procs, Wsl!EndBrowser(p) PROVE WslInv' /\ BlockKept
<1>1. /\ proc[p].pc = "stop" /\ guest' \subseteq guest /\ wslRuntime' = wslRuntime
      /\ record' = record /\ wslUnlocked' = wslUnlocked
  BY DEF Wsl!EndBrowser
<1>2. /\ proc' \in [Wsl!Procs -> Wsl!Tasks]
      /\ proc'[p].op = proc[p].op /\ proc'[p].silo = proc[p].silo
      /\ proc'[Other(p)] = proc[Other(p)]
      /\ \/ proc'[p].pc = "clear" /\ proc[p].silo \notin guest'
         \/ proc'[p].pc = "settle" /\ proc'[p].outcome = "doubt"
  BY <1>1, GotoTask, DecideTask, Words DEF Wsl!EndBrowser, WslInv, Wsl!TypeOK
<1>3. p = "command" => proc'["poll"] = proc["poll"]
  BY <1>2 DEF Other
<1>4. Task(p)'
  BY <1>1, <1>2, <1>3, Words DEF WslInv, Task
<1> QED BY <1>1, <1>2, <1>4, LookKeeps DEF Wsl!Idle

\* The record goes when no browser is left.
LEMMA ClearRecordKeeps ==
  ASSUME WslInv, NEW p \in Wsl!Procs, Wsl!ClearRecord(p) PROVE WslInv' /\ BlockKept
<1>1. /\ proc[p].pc = "clear" /\ guest' = guest /\ wslRuntime' = wslRuntime
      /\ wslUnlocked' = wslUnlocked
      /\ \/ record \in {proc[p].silo, None} /\ record' = None
         \/ record' = record
  BY DEF Wsl!ClearRecord
<1>2. proc[p].silo \notin guest
  BY <1>1, Words DEF WslInv, Task
<1>3. record \in {proc[p].silo, None} => guest = {}
  <2>1. proc[p].silo # Invalid
    BY WslAssumption DEF WslInv, Wsl!TypeOK, Wsl!Tasks, Wsl!RuntimeAssumption
  <2>2. None \notin guest /\ None # Invalid
    BY WslAssumption DEF WslInv, Wsl!TypeOK, Wsl!RuntimeAssumption
  <2> QED BY <1>2, <2>1, <2>2 DEF WslInv, Accounted, Wsl!BrowserIsRecorded
<1>4. /\ proc' \in [Wsl!Procs -> Wsl!Tasks]
      /\ proc'[p].op = proc[p].op /\ proc'[p].silo = proc[p].silo
      /\ proc'[Other(p)] = proc[Other(p)] /\ proc'[p].pc = "settle"
      /\ \/ proc'[p].outcome \in {"failed", "stopped"} /\ record \in {proc[p].silo, None}
         \/ proc'[p].outcome = "doubt"
  BY <1>1, DecideTask, Words DEF Wsl!ClearRecord, WslInv, Wsl!TypeOK
<1>5. p = "command" => proc'["poll"] = proc["poll"]
  BY <1>4 DEF Other
<1>6. Task(p)'
  BY <1>1, <1>3, <1>4, <1>5, Words DEF WslInv, Task
<1>7. Task(Other(p))'
  BY <1>1, <1>4, OtherTask DEF Wsl!Idle
<1>8. Wsl!BrowserIsRecorded'
  BY <1>1, <1>3 DEF WslInv, Accounted, Wsl!BrowserIsRecorded
<1>9. Wsl!Launching' = Wsl!Launching /\ Wsl!HasActive' = Wsl!HasActive
  BY <1>1, <1>4, Words DEF Wsl!Launching, Wsl!HasActive, Other
<1>10. Accounted' /\ BlockKept
  BY <1>1, <1>8, <1>9 DEF WslInv, Accounted, BlockKept, Wsl!BrowserBlocksLaunch
<1>11. Wsl!TypeOK'
  BY <1>1, <1>4 DEF WslInv, Wsl!TypeOK
<1> QED BY <1>6, <1>7, <1>10, <1>11, BothTasks DEF WslInv

\* What an operation leaves as the activation.
LEMMA SettledMeans ==
  ASSUME wslRuntime \in Wsl!Activations, wslRuntime.silo # None => wslRuntime.wsl = wslRuntime.silo,
         NEW op \in {"launch", "stop", "recheck", "lock", "poll"},
         NEW s \in WslSilos \cup {None},
         NEW outcome \in {"running", "stopped", "failed", "doubt"}
  PROVE  LET r == Wsl!Settled(op, s, outcome)
         IN /\ r \in Wsl!Activations
            /\ r.silo # None => r.wsl = r.silo
            /\ outcome = "doubt" => r.blocked
            /\ outcome = "running" => r.silo = s /\ r.state = "running"
<1> DEFINE r == Wsl!Settled(op, s, outcome)
<1>1. {"running", "recovery", "stopped", "failed"} \subseteq Wsl!States
  BY DEF Wsl!States
<1>2. CASE outcome = "running"
  <2> DEFINE q == Wsl!There(s)
  <2>1. q \in Wsl!Activations /\ q.silo = s /\ q.wsl = s /\ q.state = "running"
    BY <1>1 DEF Wsl!There, Wsl!Activations
  <2>2. r = q
    BY <1>2 DEF Wsl!Settled
  <2> HIDE DEF q, r
  <2> QED BY <1>2, <2>1, <2>2 DEF r
<1>3. CASE outcome \in {"stopped", "failed"}
  <2>1. r = [Wsl!Gone(outcome) EXCEPT !.reconciled = op # "lock"]
    BY <1>3 DEF Wsl!Settled
  <2>2. (op # "lock") \in BOOLEAN
    OBVIOUS
  <2> QED BY <1>1, <1>3, <2>1, <2>2 DEF Wsl!Gone, Wsl!Activations
<1>4. CASE outcome = "doubt" /\ op \in {"launch", "recheck"}
  <2>1. r = [Wsl!There(s) EXCEPT !.state = "recovery", !.blocked = TRUE]
    BY <1>4 DEF Wsl!Settled
  <2> QED BY <1>1, <1>4, <2>1 DEF Wsl!There, Wsl!Activations
<1>5. CASE outcome = "doubt" /\ op \notin {"launch", "recheck"}
  <2>1. r = [Wsl!InDoubt EXCEPT !.reconciled = op # "lock"]
    BY <1>5 DEF Wsl!Settled
  <2>2. (op # "lock") \in BOOLEAN
    OBVIOUS
  <2> DEFINE q == Wsl!InDoubt
  <2>3. /\ q \in Wsl!Activations /\ q.silo = wslRuntime.silo /\ q.wsl = wslRuntime.wsl
        /\ q.blocked
    BY <1>1 DEF Wsl!InDoubt, Wsl!Activations
  <2> HIDE DEF q
  <2>4. r = [q EXCEPT !.reconciled = op # "lock"]
    BY <2>1 DEF q
  <2>5. r \in Wsl!Activations /\ r.silo = q.silo /\ r.wsl = q.wsl /\ r.blocked
    BY <2>2, <2>3, <2>4 DEF Wsl!Activations
  <2> QED BY <1>5, <2>3, <2>5
<1> QED BY <1>2, <1>3, <1>4, <1>5

LEMMA SettleKeeps ==
  ASSUME WslInv, NEW p \in Wsl!Procs, Wsl!Settle(p) PROVE WslInv' /\ BlockKept
<1> DEFINE c == proc[p]
<1>1. /\ c.pc = "settle" /\ guest' = guest /\ record' = record
      /\ wslUnlocked' = wslUnlocked /\ wslRuntime' = Wsl!Settled(c.op, c.silo, c.outcome)
  BY DEF Wsl!Settle
<1>2. c \in Wsl!Tasks
  BY DEF WslInv, Wsl!TypeOK
<1>3. /\ c.op \in {"launch", "stop", "recheck", "lock", "poll"}
      /\ c.silo \in WslSilos \cup {None}
      /\ c.outcome \in {"running", "stopped", "failed", "doubt"}
  BY <1>1, <1>2, Words DEF WslInv, Task, Wsl!Tasks, Wsl!Outcomes
<1>4. /\ c.outcome \in {"stopped", "failed"} => guest = {}
      /\ c.outcome = "running" => guest \subseteq {c.silo}
  BY <1>1, Words DEF WslInv, Task
<1>5. /\ wslRuntime' \in Wsl!Activations
      /\ wslRuntime'.silo # None => wslRuntime'.wsl = wslRuntime'.silo
      /\ c.outcome = "doubt" => wslRuntime'.blocked
      /\ c.outcome = "running" => wslRuntime'.silo = c.silo /\ wslRuntime'.state = "running"
  BY <1>1, <1>3, SettledMeans DEF WslInv, Wsl!TypeOK, Accounted
<1>6. \/ proc' = [proc EXCEPT ![p] = Wsl!Idle]
      \/ c.op = "lock" /\ Wsl!Goto(p, "lock")
      \/ p = "poll" /\ Wsl!Goto(p, "check")
  <2>1. CASE p = "command"
    BY <2>1 DEF Wsl!Settle
  <2>2. CASE p = "poll"
    <3>1. c.op \in {"poll", "lock"}
      BY <1>3, <2>2 DEF WslInv, Task
    <3> QED BY <2>2, <3>1 DEF Wsl!Settle
  <2> QED BY <2>1, <2>2, Words
<1>7. /\ proc' \in [Wsl!Procs -> Wsl!Tasks] /\ proc'[Other(p)] = proc[Other(p)]
      /\ \/ proc'[p] = Wsl!Idle
         \/ /\ proc'[p].pc \in {"lock", "check"} /\ (proc'[p].pc = "lock" => c.op = "lock")
            /\ proc'[p].op = c.op /\ proc'[p].silo = c.silo
  BY <1>6, IdleTask, GotoTask, Words DEF WslInv, Wsl!TypeOK
<1>8. p = "command" => proc'["poll"] = proc["poll"]
  BY <1>7 DEF Other
<1>9. Task(p)'
  BY <1>1, <1>3, <1>7, <1>8, Words DEF WslInv, Task, Wsl!Idle
<1>10. Task(Other(p))'
  BY <1>1, <1>7, OtherTask DEF Wsl!Idle
<1>11. guest' # {} => Wsl!HasActive'
  <2> SUFFICES ASSUME guest' # {} PROVE Wsl!HasActive'
    OBVIOUS
  <2>1. CASE c.outcome = "doubt"
    BY <1>5, <2>1 DEF Wsl!HasActive
  <2>2. CASE c.outcome = "running"
    <3>1. wslRuntime'.silo # None
      BY <1>1, <1>4, <1>5, <2>2, WslAssumption DEF WslInv, Wsl!TypeOK, Wsl!RuntimeAssumption
    <3> QED BY <1>5, <2>2, <3>1 DEF Wsl!HasActive, Wsl!Live
  <2> QED BY <1>1, <1>3, <1>4, <2>1, <2>2
<1>12. Accounted'
  BY <1>1, <1>5, <1>11 DEF WslInv, Accounted, Wsl!BrowserIsRecorded, Wsl!BrowserBlocksLaunch
<1>13. BlockKept
  BY <1>1, <1>3, <1>4, <1>5 DEF BlockKept
<1>14. Wsl!TypeOK'
  BY <1>1, <1>5, <1>7 DEF WslInv, Wsl!TypeOK
<1> QED BY <1>9, <1>10, <1>12, <1>13, <1>14, BothTasks DEF WslInv

\* A launch waits for the poll, and no browser is left when it begins.
LEMMA WslLaunchKeeps ==
  ASSUME Overlaps = FALSE, WslInv, NEW s \in WslSilos, Wsl!Launch(s) PROVE WslInv' /\ BlockKept
<1>1. /\ proc["command"] = Wsl!Idle /\ proc["poll"] = Wsl!Idle /\ s \in Known
      /\ ~Wsl!HasActive /\ guest' = guest /\ record' = record /\ wslUnlocked' = wslUnlocked
      /\ wslRuntime' = [silo |-> s, state |-> "preflight", wsl |-> s, reconciled |-> TRUE,
                        blocked |-> FALSE]
      /\ Wsl!Run("command", "launch", s, "prepare")
  BY DEF Wsl!Launch
<1>2. guest = {}
  BY <1>1 DEF WslInv, Accounted, Wsl!BrowserBlocksLaunch, Wsl!Launching, Wsl!Idle
<1>3. /\ proc' \in [Wsl!Procs -> Wsl!Tasks]
      /\ proc'["command"].pc = "prepare" /\ proc'["command"].op = "launch"
      /\ proc'["command"].silo = s /\ proc'["poll"] = proc["poll"]
  BY <1>1, RunTask, Words DEF WslInv, Wsl!TypeOK, Other
<1>4. Task("command")' /\ Task("poll")'
  BY <1>1, <1>3 DEF Task, Wsl!Idle
<1>5. Accounted' /\ BlockKept
  BY <1>1, <1>2 DEF Accounted, BlockKept, Wsl!BrowserIsRecorded, Wsl!BrowserBlocksLaunch
<1>6. Wsl!TypeOK'
  BY <1>1, <1>3 DEF WslInv, Wsl!TypeOK, Wsl!Activations, Wsl!States
<1> QED BY <1>4, <1>5, <1>6 DEF WslInv

LEMMA StartStopKeeps ==
  ASSUME WslInv, NEW s \in WslSilos, Wsl!StartStop(s) PROVE WslInv' /\ BlockKept
<1>1. /\ proc["command"] = Wsl!Idle /\ guest' = guest /\ record' = record
      /\ wslRuntime' = wslRuntime /\ wslUnlocked' = wslUnlocked
  BY DEF Wsl!StartStop
<1> DEFINE Ops == {"stop", "recheck"}
           Starts == {"stop", "health"}
<1>2. PICK op \in Ops, pc \in Starts : Wsl!Run("command", op, s, pc)
  BY DEF Wsl!StartStop
<1>3. op \in {"launch", "stop", "recheck", "lock", "poll"} /\ pc \in Wsl!Pcs
  BY Words
<1>4. /\ proc' \in [Wsl!Procs -> Wsl!Tasks] /\ proc'["poll"] = proc["poll"]
      /\ proc'["command"].pc \in {"stop", "health"}
      /\ proc'["command"].op \in {"stop", "recheck"}
  BY <1>2, <1>3, RunTask, Words DEF WslInv, Wsl!TypeOK, Other
<1>5. Task("command")'
  BY <1>4 DEF Task
<1>6. Task("poll")'
  BY <1>1, <1>4, OtherTask, Words DEF Other
<1>7. Accounted' /\ BlockKept
  BY <1>1, LookAccounted DEF Wsl!Launching, Wsl!Idle
<1>8. Wsl!TypeOK'
  BY <1>1, <1>4 DEF WslInv, Wsl!TypeOK
<1> QED BY <1>5, <1>6, <1>7, <1>8 DEF WslInv

\* The stop that a lock of the Vault begins with.
LEMMA StopsForLockTask ==
  ASSUME WslInv, NEW p \in Wsl!Procs, Wsl!StopsForLock(p)
  PROVE  /\ proc' \in [Wsl!Procs -> Wsl!Tasks] /\ proc'[Other(p)] = proc[Other(p)]
         /\ \/ proc'[p] = Wsl!Idle
            \/ proc'[p].pc \in {"stop", "lock"} /\ proc'[p].op = "lock"
<1>1. \/ Wsl!Run(p, "lock", wslRuntime.silo, "stop") \/ Wsl!Run(p, "lock", None, "lock")
      \/ proc' = [proc EXCEPT ![p] = Wsl!Idle]
  BY DEF Wsl!StopsForLock
<1>2. wslRuntime.silo \in WslSilos \cup {None} /\ None \in WslSilos \cup {None}
  BY DEF WslInv, Wsl!TypeOK, Wsl!Activations
<1>3. proc \in [Wsl!Procs -> Wsl!Tasks] /\ {"stop", "lock"} \subseteq Wsl!Pcs
  BY Words DEF WslInv, Wsl!TypeOK
<1>4. CASE Wsl!Run(p, "lock", wslRuntime.silo, "stop")
  BY <1>2, <1>3, <1>4, RunTask
<1>5. CASE Wsl!Run(p, "lock", None, "lock")
  BY <1>2, <1>3, <1>5, RunTask
<1>6. CASE proc' = [proc EXCEPT ![p] = Wsl!Idle]
  BY <1>3, <1>6, IdleTask
<1> QED BY <1>1, <1>4, <1>5, <1>6

LEMMA StartLockKeeps == ASSUME WslInv, Wsl!StartLock PROVE WslInv' /\ BlockKept
<1>1. /\ proc["command"] = Wsl!Idle /\ guest' = guest /\ record' = record
      /\ wslRuntime' = wslRuntime /\ wslUnlocked' = wslUnlocked
      /\ Wsl!StopsForLock("command")
  BY DEF Wsl!StartLock
<1>2. /\ proc' \in [Wsl!Procs -> Wsl!Tasks] /\ proc'["poll"] = proc["poll"]
      /\ \/ proc'["command"] = Wsl!Idle
         \/ proc'["command"].pc \in {"stop", "lock"} /\ proc'["command"].op = "lock"
  BY <1>1, StopsForLockTask, Words DEF Other
<1>3. Task("command")'
  BY <1>2 DEF Task, Wsl!Idle
<1>4. Task("poll")'
  BY <1>1, <1>2, OtherTask, Words DEF Other
<1>5. Accounted' /\ BlockKept
  BY <1>1, LookAccounted DEF Wsl!Launching, Wsl!Idle
<1>6. Wsl!TypeOK'
  BY <1>1, <1>2 DEF WslInv, Wsl!TypeOK
<1> QED BY <1>3, <1>4, <1>5, <1>6 DEF WslInv

LEMMA LockVaultKeeps == ASSUME WslInv, Wsl!LockVault PROVE WslInv' /\ BlockKept
<1>1. /\ proc["command"].pc = "lock" /\ guest' = guest /\ record' = record
      /\ wslRuntime' = wslRuntime /\ wslUnlocked' = FALSE
      /\ proc' = [proc EXCEPT !["command"] = Wsl!Idle]
  BY DEF Wsl!LockVault
<1>2. /\ proc' \in [Wsl!Procs -> Wsl!Tasks] /\ proc'["command"] = Wsl!Idle
      /\ proc'["poll"] = proc["poll"]
  BY <1>1, IdleTask, Words DEF WslInv, Wsl!TypeOK, Other
<1>3. ~Wsl!Launching
  BY <1>1 DEF WslInv, Task, Wsl!Launching
<1>4. Task("command")'
  BY <1>2 DEF Task, Wsl!Idle
<1>5. Task("poll")'
  BY <1>1, <1>2, OtherTask, Words DEF Other
<1>6. Accounted' /\ BlockKept
  BY <1>1, <1>3, LookAccounted
<1>7. Wsl!TypeOK'
  BY <1>1, <1>2 DEF WslInv, Wsl!TypeOK
<1> QED BY <1>4, <1>5, <1>6, <1>7 DEF WslInv

\* The Vault opens or closes, or a browser ends.
LEMMA AsideKeeps ==
  ASSUME WslInv, Wsl!AutoLock \/ Wsl!Unlock \/ Wsl!BrowserEnds PROVE WslInv' /\ BlockKept
<1>1. /\ guest' \subseteq guest /\ record' = record /\ wslRuntime' = wslRuntime
      /\ proc' = proc /\ wslUnlocked' \in BOOLEAN
  BY DEF Wsl!AutoLock, Wsl!Unlock, Wsl!BrowserEnds, WslInv, Wsl!TypeOK
<1>2. Task("command")' /\ Task("poll")'
  BY <1>1 DEF WslInv, Task
<1>3. Accounted' /\ BlockKept
  BY <1>1, LookAccounted DEF Wsl!Launching
<1>4. Wsl!TypeOK'
  BY <1>1 DEF WslInv, Wsl!TypeOK
<1> QED BY <1>2, <1>3, <1>4 DEF WslInv

\* The desktop knows from the record, or blocks.
LEMMA LoadedMeans ==
  ASSUME NEW r \in WslSilos \cup {None, Invalid}
  PROVE  /\ Wsl!Loaded(r) \in Wsl!Activations
         /\ Wsl!Loaded(r).silo # None => Wsl!Loaded(r).wsl = Wsl!Loaded(r).silo
         /\ r # None => Wsl!Loaded(r).blocked
BY DEF Wsl!Loaded, Wsl!Activations, Wsl!States

LEMMA WslRestartKeeps == ASSUME WslInv, Wsl!Restart PROVE WslInv' /\ BlockKept
<1>1. /\ guest' = guest /\ record' \in {record, Invalid} /\ wslRuntime' = Wsl!Loaded(record')
      /\ (record = None => record' = None)
      /\ proc' = [p \in Wsl!Procs |-> Wsl!Idle] /\ wslUnlocked' = FALSE
  BY DEF Wsl!Restart
<1>2. proc' \in [Wsl!Procs -> Wsl!Tasks]
  BY <1>1 DEF Wsl!Tasks, Wsl!Idle, Wsl!Outcomes, Wsl!Pcs
<1>3. Task("command")' /\ Task("poll")'
  BY <1>1, Words DEF Task, Wsl!Idle
<1>4. record' \in WslSilos \cup {None, Invalid}
  BY <1>1 DEF WslInv, Wsl!TypeOK
<1>5. /\ wslRuntime' \in Wsl!Activations
      /\ wslRuntime'.silo # None => wslRuntime'.wsl = wslRuntime'.silo
      /\ record' # None => wslRuntime'.blocked
  BY <1>1, <1>4, LoadedMeans
<1>6. guest # {} => record' # None
  BY <1>1, WslAssumption DEF WslInv, Wsl!TypeOK, Accounted, Wsl!BrowserIsRecorded,
     Wsl!RuntimeAssumption
<1>7. Accounted'
  BY <1>1, <1>5, <1>6 DEF WslInv, Accounted, Wsl!BrowserIsRecorded, Wsl!BrowserBlocksLaunch,
     Wsl!HasActive
<1>8. BlockKept
  BY <1>1, <1>5, <1>6 DEF BlockKept
<1>9. Wsl!TypeOK'
  BY <1>1, <1>2, <1>4, <1>5 DEF WslInv, Wsl!TypeOK
<1> QED BY <1>3, <1>7, <1>8, <1>9 DEF WslInv

\* A poll that changes the activation leaves no browser, or a block.
LEMMA PollKeeps == ASSUME Overlaps = FALSE, WslInv, Wsl!Poll PROVE WslInv' /\ BlockKept
<1>1. proc["poll"] = Wsl!Idle /\ ~Wsl!Launching /\ wslUnlocked' = wslUnlocked
  BY DEF Wsl!Poll
<1>2. PICK s \in {None, wslRuntime.silo}, pc \in {"check", "health"} :
        Wsl!Run("poll", "poll", s, pc)
  BY DEF Wsl!Poll
<1>3. s \in WslSilos \cup {None}
  BY DEF WslInv, Wsl!TypeOK, Wsl!Activations
<1>4. /\ proc' \in [Wsl!Procs -> Wsl!Tasks] /\ proc'["command"] = proc["command"]
      /\ proc'["poll"].op = "poll" /\ proc'["poll"].pc \in {"check", "health"}
  BY <1>2, <1>3, RunTask, Words, SMTT(30) DEF WslInv, Wsl!TypeOK, Other
<1>5. \/ wslRuntime' = wslRuntime /\ record' = record /\ guest' = guest
      \/ guest' = {} /\ wslRuntime' = Wsl!Gone("stopped") /\ record' = None
      \/ /\ wslRuntime' = Wsl!Gone("idle") /\ record' = record /\ guest' = guest
         /\ ~wslRuntime.blocked /\ (wslRuntime.silo = None \/ wslRuntime.wsl = None)
      \/ /\ wslRuntime' = Wsl!InDoubt /\ record' = record /\ guest' \subseteq guest
  BY DEF Wsl!Poll, Wsl!RecoverInvalid, WslInv, Accounted
<1>6. guest' \subseteq guest
  BY <1>5
<1>7. Task("poll")'
  BY <1>4 DEF Task
<1>8. Task("command")'
  BY <1>1, <1>4, <1>6, OtherTask, Words DEF Other
<1>9. ~wslRuntime.blocked /\ (wslRuntime.silo = None \/ wslRuntime.wsl = None) => guest = {}
  BY <1>1 DEF WslInv, Accounted, Wsl!BrowserBlocksLaunch, Wsl!HasActive
<1>10. /\ wslRuntime' \in Wsl!Activations
       /\ wslRuntime'.silo # None => wslRuntime'.wsl = wslRuntime'.silo
       /\ \/ guest' = {}
          \/ wslRuntime'.blocked
          \/ wslRuntime' = wslRuntime
  <2>1. \A state \in {"stopped", "idle"} : /\ Wsl!Gone(state) \in Wsl!Activations
                                           /\ Wsl!Gone(state).silo = None
    BY DEF Wsl!Gone, Wsl!Activations, Wsl!States
  <2>2. /\ Wsl!InDoubt \in Wsl!Activations /\ Wsl!InDoubt.blocked
        /\ Wsl!InDoubt.silo = wslRuntime.silo /\ Wsl!InDoubt.wsl = wslRuntime.wsl
    BY DEF Wsl!InDoubt, Wsl!Activations, Wsl!States, WslInv, Wsl!TypeOK
  <2> QED BY <1>5, <1>9, <2>1, <2>2 DEF WslInv, Wsl!TypeOK, Accounted
<1>11. Wsl!BrowserIsRecorded'
  BY <1>5 DEF WslInv, Accounted, Wsl!BrowserIsRecorded
<1>12. Wsl!BrowserBlocksLaunch'
  BY <1>1, <1>6, <1>10 DEF WslInv, Accounted, Wsl!BrowserBlocksLaunch, Wsl!HasActive
<1>13. Accounted' /\ BlockKept
  BY <1>6, <1>10, <1>11, <1>12 DEF WslInv, Accounted, BlockKept
<1>14. record' \in WslSilos \cup {None, Invalid}
  BY <1>5 DEF WslInv, Wsl!TypeOK
<1>15. Wsl!TypeOK'
  BY <1>1, <1>4, <1>6, <1>10, <1>14 DEF WslInv, Wsl!TypeOK
<1> QED BY <1>7, <1>8, <1>13, <1>15 DEF WslInv

LEMMA CheckVaultKeeps == ASSUME WslInv, Wsl!CheckVault PROVE WslInv' /\ BlockKept
<1>1. /\ proc["poll"].pc = "check" /\ guest' = guest /\ record' = record
      /\ wslUnlocked' = wslUnlocked
      /\ wslRuntime' \in {wslRuntime, [wslRuntime EXCEPT !.reconciled = FALSE]}
      /\ proc' = [proc EXCEPT !["poll"] = Wsl!Idle] \/ Wsl!StopsForLock("poll")
  BY DEF Wsl!CheckVault
<1>2. /\ proc' \in [Wsl!Procs -> Wsl!Tasks] /\ proc'["command"] = proc["command"]
      /\ \/ proc'["poll"] = Wsl!Idle
         \/ proc'["poll"].pc \in {"stop", "lock"} /\ proc'["poll"].op = "lock"
  BY <1>1, StopsForLockTask, IdleTask, Words DEF WslInv, Wsl!TypeOK, Other
<1>3. Task("poll")'
  BY <1>2 DEF Task, Wsl!Idle
<1>4. Task("command")'
  BY <1>1, <1>2, OtherTask, Words DEF Other, Wsl!Idle
<1>5. /\ wslRuntime' \in Wsl!Activations /\ wslRuntime'.silo = wslRuntime.silo
      /\ wslRuntime'.wsl = wslRuntime.wsl /\ wslRuntime'.state = wslRuntime.state
      /\ wslRuntime'.blocked = wslRuntime.blocked
  BY <1>1 DEF WslInv, Wsl!TypeOK, Wsl!Activations
<1>6. Accounted' /\ BlockKept
  BY <1>1, <1>2, <1>5 DEF WslInv, Accounted, BlockKept, Wsl!BrowserIsRecorded,
     Wsl!BrowserBlocksLaunch, Wsl!HasActive, Wsl!Launching
<1>7. Wsl!TypeOK'
  BY <1>1, <1>2, <1>5 DEF WslInv, Wsl!TypeOK
<1> QED BY <1>3, <1>4, <1>6, <1>7 DEF WslInv

LEMMA WslStepKeeps ==
  ASSUME Overlaps = FALSE, WslInv, [Wsl!Next]_(Wsl!vars) PROVE WslInv' /\ [BlockKept]_(Wsl!vars)
<1>1. CASE UNCHANGED Wsl!vars
  <2>1. /\ wslRuntime' = wslRuntime /\ record' = record /\ guest' = guest
        /\ wslUnlocked' = wslUnlocked /\ proc' = proc
    BY <1>1 DEF Wsl!vars
  <2>2. Accounted' /\ Task("command")' /\ Task("poll")' /\ Wsl!TypeOK'
    BY <2>1, LookAccounted DEF WslInv, Task, Wsl!TypeOK, Wsl!Launching
  <2> QED BY <1>1, <2>2 DEF WslInv
<1>2. CASE Wsl!CommandStep
  BY <1>2, PrepareLaunchKeeps, PersistRecordKeeps, StartKeeps, InspectKeeps, LockVaultKeeps,
     MarkKeeps, HealthKeeps, EndBrowserKeeps, ClearRecordKeeps, SettleKeeps, Words
  DEF Wsl!CommandStep
<1>3. CASE Wsl!PollStep
  BY <1>3, PollKeeps, CheckVaultKeeps, MarkKeeps, HealthKeeps, EndBrowserKeeps,
     ClearRecordKeeps, SettleKeeps, Words
  DEF Wsl!PollStep
<1>4. CASE \E s \in WslSilos : Wsl!Launch(s) \/ Wsl!StartStop(s)
  BY <1>4, WslLaunchKeeps, StartStopKeeps
<1>5. CASE Wsl!StartLock \/ Wsl!AutoLock \/ Wsl!Unlock \/ Wsl!Restart \/ Wsl!BrowserEnds
  BY <1>5, StartLockKeeps, AsideKeeps, WslRestartKeeps
<1> QED BY <1>1, <1>2, <1>3, <1>4, <1>5 DEF Wsl!Next

LEMMA WslInitHolds == Wsl!Init => WslInv
<1> SUFFICES ASSUME Wsl!Init PROVE WslInv
  OBVIOUS
<1>1. proc = [p \in Wsl!Procs |-> Wsl!Idle]
  BY DEF Wsl!Init
<1>2. proc \in [Wsl!Procs -> Wsl!Tasks]
  BY <1>1 DEF Wsl!Tasks, Wsl!Idle, Wsl!Outcomes, Wsl!Pcs
<1>3. Task("command") /\ Task("poll")
  BY <1>1, Words DEF Task, Wsl!Idle
<1>4. /\ record \in WslSilos \cup {None, Invalid} /\ guest \subseteq Known \cap {record}
      /\ wslRuntime = Wsl!Loaded(record) /\ wslUnlocked = FALSE
  BY DEF Wsl!Init
<1>5. /\ wslRuntime \in Wsl!Activations
      /\ wslRuntime.silo # None => wslRuntime.wsl = wslRuntime.silo
      /\ record # None => wslRuntime.blocked
  BY <1>4, LoadedMeans
<1>6. Accounted
  BY <1>4, <1>5, WslAssumption DEF Accounted, Wsl!BrowserIsRecorded, Wsl!BrowserBlocksLaunch,
     Wsl!HasActive, Wsl!RuntimeAssumption
<1>7. Wsl!TypeOK
  BY <1>2, <1>4, <1>5, WslAssumption DEF Wsl!TypeOK, Wsl!RuntimeAssumption
<1> QED BY <1>3, <1>6, <1>7 DEF WslInv

\* The invariant of the runtime in a distribution, if no poll runs while a browser
\* is being launched (wsl_runtime_overlap shows what happens when one does).
THEOREM WslRuntimeInvariant == ASSUME Overlaps = FALSE PROVE Wsl!Spec => []WslInv
<1>1. Wsl!Init => WslInv
  BY WslInitHolds
<1>2. WslInv /\ [Wsl!Next]_(Wsl!vars) => WslInv'
  BY WslStepKeeps
<1> QED BY <1>1, <1>2, PTL DEF Wsl!Spec

\* The sessions run the WSL runtime, or leave it alone.
THEOREM SessionsRunWsl == SessionsSpec => Wsl!Spec
<1>1. SessionsInit => Wsl!Init
  BY DEF SessionsInit
<1>2. [SessionsNext]_sessionsVars => [Wsl!Next]_(Wsl!vars)
  BY DEF SessionsNext, sessionsVars, wslVars, LocalStep, WslStep, SlotStep, SharedStep, Wsl!vars
<1> QED BY <1>1, <1>2, PTL DEF SessionsSpec, Wsl!Spec

\* SessionsTypeOK: the parts are well formed, and what a manager holds is of the
\* session that it calls active.
THEOREM SessionsTyped == ASSUME Overlaps = FALSE PROVE SessionsSpec => []SessionsTypeOK
<1>1. LocalInv /\ WslInv => SessionsTypeOK
  BY LocalInvMeans DEF WslInv, SessionsTypeOK
<1> QED BY <1>1, SessionsRunLocal, LocalRuntimeInvariant, SessionsRunWsl, WslRuntimeInvariant, PTL

\* BrowserIsRecorded: a browser in a distribution is one that the record names, so
\* that a desktop that ends anywhere finds it again (application/environments.rs).
THEOREM BrowsersRecorded == ASSUME Overlaps = FALSE PROVE SessionsSpec => []BrowserIsRecorded
<1>1. WslInv => BrowserIsRecorded
  BY DEF WslInv, Accounted, BrowserIsRecorded
<1> QED BY <1>1, SessionsRunWsl, WslRuntimeInvariant, PTL

\* BlockIsSound: while a browser may run nothing else is launched, and a block is
\* lifted only when no browser is left but the healthy one (application/runtime.rs).
THEOREM BlocksSound == ASSUME Overlaps = FALSE PROVE SessionsSpec => BlockIsSound
<1>1. WslInv => (part = "wsl" => Wsl!BrowserBlocksLaunch)
  BY DEF WslInv, Accounted
<1>2. WslInv /\ [Wsl!Next]_(Wsl!vars) => [BlockKept]_(Wsl!vars)
  BY WslStepKeeps
<1>3. Wsl!Spec => Wsl!BlockLiftedSafely
  BY <1>2, WslRuntimeInvariant, PTL DEF Wsl!Spec, Wsl!BlockLiftedSafely, BlockKept
<1> QED BY <1>1, <1>3, SessionsRunWsl, WslRuntimeInvariant, PTL DEF BlockIsSound
=============================================================================
