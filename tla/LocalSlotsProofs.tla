------------------------- MODULE LocalSlotsProofs -------------------------
(***************************************************************************)
(* For any managed Silos, limit, publishers and revokers, the admission of *)
(* launches keeps the sessions within the limit and of one kind, a lock of *)
(* the Vault leaves no credentials, and what has to wait is on its way.    *)
(***************************************************************************)
EXTENDS LocalSlots, FiniteSetTheorems, TLAPS

\* A thread that is past idle has a manager at hand, and watchdogs are those of slots.
Positions ==
  /\ \A p \in Publishers : /\ publisher[p].at # "idle" => publisher[p].of \in 1..Len(Order)
                           /\ publisher[p].at \in {"quiet", "taking"} => ManagerOf(p) \in Slots
  /\ exclusive.at = "revoking" => exclusive.of \in 1..Len(Order)

\* A slot counts from its admission, before it has a session.
Claimed(s) == Owned(s) \/ reserved[s]
ClaimedSlots == {s \in Slots : Claimed(s)}

\* From its admission to the end of its launch a slot is reserved.
Reserving == {"reserved", "admitted", "launching", "launched", "dropping"}

Admission ==
  /\ \A s \in Slots : command[s] \in Reserving => reserved[s]
  /\ Cardinality(ClaimedSlots) <= Limit
  /\ Owned(Legacy) \/ exclusive.at = "launching" => ClaimedSlots = {}
  /\ exclusive # Idle => \A s \in Slots : command[s] = "idle"

\* What the command to lock the Vault has passed stays revoked: nothing is launched meanwhile.
Revoking ==
  /\ exclusive.at = "revoking" =>
       \A i \in 1..Len(Order) : i < exclusive.of => session[InlineManager(i)] # "secret"
  /\ Legacy \notin Range(Order) => session[Legacy] = "none" /\ exclusive.at # "launching"

SlotsInv == TypeOK /\ Positions /\ Admission /\ Revoking /\ PendingIsServed

-----------------------------------------------------------------------------
(* What the steps have in common *)

\* Managers, and their order.
LEMMA SlotFacts ==
  ASSUME SlotsAssumption, SlotsInv
  PROVE /\ Legacy \in Managers /\ Slots \subseteq Managers /\ Legacy \notin Slots
        /\ Len(Order) \in Nat /\ Len(Order) > 0
        /\ \A i \in 1..Len(Order) : Order[i] \in Managers /\ InlineManager(i) \in Managers
        /\ \A p \in Publishers : publisher[p].of \in 1..Len(Order) => ManagerOf(p) \in Managers
<1>1. \A i \in 1..Len(Order) : Order[i] \in Managers
  BY DEF SlotsAssumption
<1>2. Len(Order) \in Nat /\ Len(Order) > 0
  BY DEF SlotsAssumption
<1>3. \A i \in 1..Len(Order) : InlineManager(i) \in Managers
  BY <1>1, <1>2 DEF InlineManager
<1> QED BY <1>1, <1>2, <1>3 DEF SlotsAssumption, Managers, ManagerOf

\* What is claimed can be counted.
LEMMA FiniteClaims ==
  ASSUME SlotsAssumption
  PROVE IsFiniteSet(ClaimedSlots) /\ IsFiniteSet(OccupiedSlots)
<1>1. ClaimedSlots \subseteq Slots /\ OccupiedSlots \subseteq Slots
  BY DEF ClaimedSlots, OccupiedSlots
<1> QED BY <1>1, FS_Subset DEF SlotsAssumption

\* No slot is claimed anew.
LEMMA NoneClaims ==
  ASSUME SlotsAssumption, SlotsInv,
         \A s \in Slots : Claimed(s)' => Claimed(s),
         \A s \in Slots : command'[s] \in Reserving => reserved'[s],
         Owned(Legacy)' \/ exclusive'.at = "launching" =>
           Owned(Legacy) \/ exclusive.at = "launching" \/ ClaimedSlots = {},
         exclusive' # Idle => \A s \in Slots : command'[s] = "idle"
  PROVE Admission'
<1>1. ClaimedSlots' \subseteq ClaimedSlots
  BY DEF ClaimedSlots
<1>2. Cardinality(ClaimedSlots') <= Limit
  <2>1. Cardinality(ClaimedSlots) <= Limit
    BY DEF SlotsInv, Admission
  <2>2. /\ Cardinality(ClaimedSlots') <= Cardinality(ClaimedSlots)
        /\ IsFiniteSet(ClaimedSlots')
    BY <1>1, FiniteClaims, FS_Subset
  <2>3. Cardinality(ClaimedSlots) \in Nat /\ Cardinality(ClaimedSlots') \in Nat
    BY <2>2, FiniteClaims, FS_CardinalityType
  <2> QED BY <2>1, <2>2, <2>3 DEF SlotsAssumption
<1>3. Owned(Legacy)' \/ exclusive'.at = "launching" => ClaimedSlots' = {}
  BY <1>1 DEF SlotsInv, Admission
<1> QED BY <1>2, <1>3 DEF Admission, Idle

\* No session gets credentials.
LEMMA NoneSecret ==
  ASSUME SlotsAssumption, SlotsInv,
         \A m \in Managers : session'[m] = "secret" => session[m] = "secret",
         Owned(Legacy)' => Owned(Legacy),
         exclusive'.at = "revoking" => exclusive' = exclusive,
         exclusive'.at = "launching" => exclusive.at = "launching"
  PROVE Revoking'
<1>1. \A i \in 1..Len(Order) : InlineManager(i) \in Managers
  BY SlotFacts
<1> QED BY <1>1 DEF SlotsInv, Revoking, Owned, InlineManager

\* What serves a pending revocation goes on doing so.
LEMMA StillServed ==
  ASSUME SlotsInv, \A m \in Managers : pending'[m] => pending[m],
         UNCHANGED <<running, publisher, revoker>>
  PROVE PendingIsServed'
BY DEF SlotsInv, PendingIsServed, ManagerOf

\* Nobody moves on.
LEMMA PositionsStay ==
  ASSUME SlotsInv, publisher' = publisher, exclusive'.at = "revoking" => exclusive' = exclusive
  PROVE Positions'
BY DEF SlotsInv, Positions, ManagerOf

-----------------------------------------------------------------------------
(* A command on one Silo, and the watchdog *)

\* A command moves, without a launch.
LEMMA CommandMoves ==
  ASSUME SlotsAssumption, SlotsInv, NEW s \in Slots, NEW to \in CommandSteps,
         command' = [command EXCEPT ![s] = to], Nothing, TypeOK',
         exclusive # Idle => to = "idle",
         to \in Reserving => reserved'[s],
         \A t \in Slots : Claimed(t)' => Claimed(t),
         \A t \in Slots \ {s} : reserved'[t] = reserved[t],
         \A m \in Managers : session'[m] = "secret" => session[m] = "secret",
         Owned(Legacy)' => Owned(Legacy),
         \A m \in Managers : pending'[m] => pending[m],
         running' = running
  PROVE SlotsInv'
<1>1. UNCHANGED <<exclusive, publisher, revoker>>
  BY DEF Nothing
<1>2. command \in [Slots -> CommandSteps]
  BY DEF SlotsInv, TypeOK
<1>3. Admission'
  <2>1. \A t \in Slots : command'[t] \in Reserving => reserved'[t]
    BY <1>2 DEF SlotsInv, Admission
  <2>2. exclusive' # Idle => \A t \in Slots : command'[t] = "idle"
    BY <1>1, <1>2 DEF SlotsInv, Admission
  <2> QED BY <1>1, <2>1, <2>2, NoneClaims
<1>4. Revoking' /\ PendingIsServed' /\ Positions'
  BY <1>1, NoneSecret, StillServed, PositionsStay
<1> QED BY <1>3, <1>4 DEF SlotsInv

\* An admission claims a slot that was free, within the limit.
LEMMA AdmitKeeps ==
  ASSUME SlotsAssumption, SlotsInv, NEW s \in Slots, Admit(s)
  PROVE SlotsInv'
<1>1. /\ command' = [command EXCEPT ![s] = "reserved"] /\ exclusive = Idle
      /\ reserved' = [reserved EXCEPT ![s] = TRUE]
      /\ UNCHANGED <<session, exclusive, publisher, revoker, pending, running>>
      /\ ~Owned(Legacy)
  BY DEF Admit, Goto, Nothing
<1>2. TypeOK'
  BY DEF SlotsInv, TypeOK, Admit, Goto, Nothing, CommandSteps
<1>3. Admission'
  <2>1. ClaimedSlots' = ClaimedSlots \cup {s}
    BY <1>1 DEF SlotsInv, TypeOK, ClaimedSlots, Claimed, Owned
  <2>2. /\ s \notin ClaimedSlots /\ ClaimedSlots \subseteq OccupiedSlots
        /\ Cardinality(OccupiedSlots) < Limit
    BY DEF Admit, Occupied, OccupiedSlots, ClaimedSlots, Claimed
  <2>3. /\ Cardinality(ClaimedSlots') = Cardinality(ClaimedSlots) + 1
        /\ Cardinality(ClaimedSlots) <= Cardinality(OccupiedSlots)
        /\ Cardinality(ClaimedSlots) \in Nat /\ Cardinality(OccupiedSlots) \in Nat
    BY <2>1, <2>2, FiniteClaims, FS_AddElement, FS_Subset, FS_CardinalityType
  <2>4. Cardinality(ClaimedSlots') <= Limit
    BY <2>2, <2>3 DEF SlotsAssumption
  <2>5. \A t \in Slots : command'[t] \in Reserving => reserved'[t]
    BY <1>1 DEF SlotsInv, Admission, TypeOK
  <2> QED BY <1>1, <2>4, <2>5 DEF Admission, Owned, Idle
<1>4. Revoking' /\ PendingIsServed' /\ Positions'
  BY <1>1, NoneSecret, StillServed, PositionsStay DEF Owned
<1> QED BY <1>2, <1>3, <1>4 DEF SlotsInv

\* A launch fills the slot that is reserved for it.
LEMMA LaunchKeeps ==
  ASSUME SlotsAssumption, SlotsInv, NEW s \in Slots, Launch(s)
  PROVE SlotsInv'
<1>1. PICK result \in {"none", "secret", "closed"} : session' = [session EXCEPT ![s] = result]
  BY DEF Launch
<1>2. /\ command[s] = "launching" /\ command' = [command EXCEPT ![s] = "launched"]
      /\ UNCHANGED <<unlocked, reserved, pending, running, watchdog, exclusive, publisher, revoker>>
  BY DEF Launch, Goto, Nothing, flags
<1>3. reserved[s] /\ exclusive = Idle
  BY <1>2 DEF SlotsInv, Admission, Reserving
<1>4. TypeOK'
  BY <1>1, <1>2 DEF SlotsInv, TypeOK, Launch, Release, CommandSteps, Managers
<1>5. session'[Legacy] = session[Legacy] /\ \A t \in Slots \ {s} : session'[t] = session[t]
  BY <1>1, SlotFacts DEF SlotsInv, TypeOK, Managers
<1>6. Admission'
  <2>1. \A t \in Slots : Claimed(t)' => Claimed(t)
    BY <1>2, <1>3, <1>5 DEF Claimed, Owned
  <2>2. \A t \in Slots : command'[t] \in Reserving => reserved'[t]
    BY <1>2, <1>3 DEF SlotsInv, TypeOK, Admission
  <2> QED BY <1>2, <1>3, <1>5, <2>1, <2>2, NoneClaims DEF Owned
<1>7. Revoking'
  BY <1>2, <1>3, <1>5 DEF SlotsInv, Revoking, Idle
<1>8. PendingIsServed' /\ Positions'
  BY <1>2, StillServed, PositionsStay
<1> QED BY <1>4, <1>6, <1>7, <1>8 DEF SlotsInv

\* A session that is not launched keeps what it has, or less.
LEMMA SessionSettles ==
  ASSUME SlotsAssumption, SlotsInv, NEW m \in Managers,
         NEW result \in {"none", session[m], "closed"},
         session' = [session EXCEPT ![m] = IF Owned(m) THEN result ELSE @]
  PROVE /\ session' \in [Managers -> {"none", "secret", "closed"}]
        /\ \A n \in Managers : (Owned(n)' => Owned(n))
                               /\ (session'[n] = "secret" => session[n] = "secret")
BY DEF SlotsInv, TypeOK, Owned

\* Nothing gets a session by being revoked.
LEMMA RevokedSettles ==
  ASSUME SlotsAssumption, SlotsInv, NEW m \in Managers, session' = Revoked(m)
  PROVE /\ session' \in [Managers -> {"none", "secret", "closed"}]
        /\ session'[m] # "secret"
        /\ \A n \in Managers : (Owned(n)' => Owned(n))
                               /\ (session'[n] = "secret" => session[n] = "secret")
BY DEF SlotsInv, TypeOK, Owned, Revoked

\* A revocation by the way leaves no session more than there was.
LEMMA PendingRevoked ==
  ASSUME SlotsAssumption, SlotsInv, NEW m \in Managers, RevokeIfPending(m)
  PROVE /\ session' \in [Managers -> {"none", "secret", "closed"}]
        /\ pending' \in [Managers -> BOOLEAN]
        /\ pending'[m] => lock[m] # Unheld
        /\ \A n \in Managers : /\ (Owned(n)' => Owned(n))
                               /\ (session'[n] = "secret" => session[n] = "secret")
                               /\ (pending'[n] => pending[n])
<1>1. CASE pending[m] /\ lock[m] = Unheld
  <2>1. pending' = [pending EXCEPT ![m] = FALSE] /\ session' = Revoked(m)
    BY <1>1 DEF RevokeIfPending
  <2> QED BY <2>1, RevokedSettles DEF SlotsInv, TypeOK
<1>2. CASE ~(pending[m] /\ lock[m] = Unheld)
  BY <1>2 DEF RevokeIfPending, SlotsInv, TypeOK, Owned
<1> QED BY <1>1, <1>2

\* The steps of a command on a slot.
LEMMA CommandKeeps ==
  ASSUME SlotsAssumption, SlotsInv, NEW s \in Slots, CommandStep(s) \/ StartUse(s)
  PROVE SlotsInv'
<1>1. /\ s \in Managers /\ Slots \subseteq Managers /\ Legacy \in Managers /\ Legacy \notin Slots
      /\ command[s] # "idle" => exclusive = Idle
      /\ command[s] \in Reserving => reserved[s]
  BY SlotFacts DEF SlotsInv, Admission, Idle
<1>2. CASE Reject(s)
  <2>1. TypeOK'
    BY <1>2 DEF SlotsInv, TypeOK, Reject, Goto, Nothing, flags, CommandSteps
  <2>2. "launched" \in CommandSteps
    BY DEF CommandSteps
  <2> QED BY <1>1, <1>2, <2>1, <2>2, CommandMoves
          DEF Reject, Goto, flags, Reserving, Claimed, Owned
<1>3. CASE StartLaunch(s)
  <2>1. TypeOK'
    BY <1>1, <1>3 DEF SlotsInv, TypeOK, StartLaunch, LockFor, Goto, Nothing, flags, CommandSteps
  <2>2. "launching" \in CommandSteps
    BY DEF CommandSteps
  <2> QED BY <1>1, <1>3, <2>1, <2>2, CommandMoves
          DEF StartLaunch, LockFor, Goto, flags, Reserving, Claimed, Owned
<1>4. CASE Launch(s)
  BY <1>4, LaunchKeeps
<1>5. CASE DropGuard(s)
  <2>1. /\ RevokeIfPending(s) /\ command[s] = "launched"
        /\ command' = [command EXCEPT ![s] = "dropping"] /\ Nothing
        /\ UNCHANGED <<unlocked, lock, reserved, running, watchdog>>
    BY <1>5 DEF DropGuard, Goto
  <2>2. /\ session' \in [Managers -> {"none", "secret", "closed"}]
        /\ pending' \in [Managers -> BOOLEAN]
        /\ \A n \in Managers : /\ (Owned(n)' => Owned(n))
                               /\ (session'[n] = "secret" => session[n] = "secret")
                               /\ (pending'[n] => pending[n])
    BY <1>1, <2>1, PendingRevoked
  <2>3. TypeOK' /\ "dropping" \in CommandSteps
    BY <2>1, <2>2 DEF SlotsInv, TypeOK, Nothing, CommandSteps
  <2>4. \A t \in Slots : Claimed(t)' => Claimed(t)
    BY <1>1, <2>1, <2>2 DEF Claimed
  <2> QED BY <1>1, <2>1, <2>2, <2>3, <2>4, CommandMoves DEF Reserving
<1>6. CASE Unreserve(s)
  <2>1. TypeOK' /\ "ending" \in CommandSteps
    BY <1>6 DEF SlotsInv, TypeOK, Unreserve, Goto, Nothing, CommandSteps
  <2>2. /\ \A t \in Slots : Claimed(t)' => Claimed(t)
        /\ \A t \in Slots \ {s} : reserved'[t] = reserved[t]
    BY <1>6 DEF SlotsInv, TypeOK, Unreserve, Claimed, Owned
  <2> QED BY <1>1, <1>6, <2>1, <2>2, CommandMoves
          DEF Unreserve, Goto, Reserving, Owned
<1>7. CASE LockUse(s)
  <2>1. TypeOK' /\ "using" \in CommandSteps
    BY <1>1, <1>7 DEF SlotsInv, TypeOK, LockUse, LockFor, Goto, Nothing, flags, CommandSteps
  <2> QED BY <1>1, <1>7, <2>1, CommandMoves
          DEF LockUse, LockFor, Goto, flags, Reserving, Claimed, Owned
<1>8. CASE Use(s)
  <2>1. PICK result \in {"none", session[s], "closed"} :
          session' = [session EXCEPT ![s] = IF Owned(s) THEN result ELSE @]
    BY <1>8 DEF Use
  <2>2. /\ session' \in [Managers -> {"none", "secret", "closed"}]
        /\ \A n \in Managers : (Owned(n)' => Owned(n))
                               /\ (session'[n] = "secret" => session[n] = "secret")
    BY <1>1, <2>1, SessionSettles
  <2>3. TypeOK' /\ "ending" \in CommandSteps
    BY <1>1, <1>8, <2>2 DEF SlotsInv, TypeOK, Use, Release, Goto, Nothing, flags, CommandSteps
  <2>4. \A t \in Slots : Claimed(t)' => Claimed(t)
    BY <1>1, <1>8, <2>2 DEF Claimed, Use, flags
  <2> QED BY <1>1, <1>8, <2>2, <2>3, <2>4, CommandMoves DEF Use, Goto, flags, Reserving
<1>9. CASE LookQuiet(s)
  <2> DEFINE to == IF Occupied(s) THEN "idle" ELSE "taking"
  <2>1. to \in CommandSteps /\ to \notin Reserving
    BY DEF CommandSteps, Reserving
  <2>2. command' = [command EXCEPT ![s] = to] /\ Nothing /\ command[s] = "ending"
        /\ UNCHANGED <<unlocked, session, lock, flags, watchdog>>
    BY <1>9 DEF LookQuiet, Goto
  <2> HIDE DEF to
  <2>3. TypeOK'
    BY <2>1, <2>2 DEF SlotsInv, TypeOK, Nothing, flags
  <2> QED BY <1>1, <2>1, <2>2, <2>3, CommandMoves DEF flags, Claimed, Owned
<1>10. CASE EndCommand(s)
  <2>1. TypeOK' /\ "idle" \in CommandSteps
    BY <1>10 DEF SlotsInv, TypeOK, EndCommand, StopWatchdog, Goto, Nothing, flags, CommandSteps
  <2> QED BY <1>1, <1>10, <2>1, CommandMoves
          DEF EndCommand, Goto, flags, Reserving, Claimed, Owned
<1>11. CASE StartUse(s)
  <2>1. TypeOK' /\ "waiting" \in CommandSteps
    BY <1>11 DEF SlotsInv, TypeOK, StartUse, Goto, Nothing, flags, CommandSteps
  <2> QED BY <1>1, <1>11, <2>1, CommandMoves
          DEF StartUse, Goto, flags, Reserving, Claimed, Owned
<1>12. CASE StartWatchdog(s)
  <2>1. TypeOK' /\ "admitted" \in CommandSteps
    BY <1>12 DEF SlotsInv, TypeOK, StartWatchdog, Goto, Nothing, flags, CommandSteps
  <2> QED BY <1>1, <1>12, <2>1, CommandMoves
          DEF StartWatchdog, Goto, flags, Reserving, Claimed, Owned
<1>13. CASE LoseWatchdog(s)
  <2>1. TypeOK' /\ "idle" \in CommandSteps
    BY <1>13 DEF SlotsInv, TypeOK, LoseWatchdog, Goto, Nothing, CommandSteps
  <2>2. /\ \A t \in Slots : Claimed(t)' => Claimed(t)
        /\ \A t \in Slots \ {s} : reserved'[t] = reserved[t]
    BY <1>13 DEF SlotsInv, TypeOK, LoseWatchdog, Claimed, Owned
  <2> QED BY <1>1, <1>13, <2>1, <2>2, CommandMoves
          DEF LoseWatchdog, Goto, Reserving, Owned
<1> QED BY <1>2, <1>3, <1>4, <1>5, <1>6, <1>7, <1>8, <1>9, <1>10, <1>11, <1>12, <1>13 DEF CommandStep

\* A step that is none of a command.
LEMMA OthersMove ==
  ASSUME SlotsAssumption, SlotsInv, TypeOK',
         UNCHANGED <<command, exclusive, reserved>>,
         \A m \in Managers : (Owned(m)' => Owned(m))
                             /\ (session'[m] = "secret" => session[m] = "secret")
  PROVE Admission' /\ Revoking'
<1>1. \A t \in Slots : Claimed(t)' => Claimed(t)
  BY SlotFacts DEF Claimed
<1> QED BY <1>1, SlotFacts, NoneClaims, NoneSecret DEF SlotsInv, Admission

\* The watchdog of a slot.
LEMMA WatchdogKeeps ==
  ASSUME SlotsAssumption, SlotsInv, NEW s \in Slots, Tick(s) \/ EndTick(s)
  PROVE SlotsInv'
<1>1. s \in Managers
  BY SlotFacts
<1>2. UNCHANGED <<unlocked, reserved, pending, running, watchdog, command, exclusive, publisher, revoker>>
  BY DEF Tick, EndTick, flags, threads
<1>3. /\ session' \in [Managers -> {"none", "secret", "closed"}]
      /\ \A n \in Managers : (Owned(n)' => Owned(n))
                             /\ (session'[n] = "secret" => session[n] = "secret")
  <2>1. CASE Tick(s)
    BY <2>1 DEF Tick, SlotsInv, TypeOK, Owned
  <2>2. CASE EndTick(s)
    BY <1>1, <2>2, SessionSettles DEF EndTick
  <2> QED BY <2>1, <2>2
<1>4. TypeOK'
  BY <1>1, <1>2, <1>3 DEF SlotsInv, TypeOK, Tick, EndTick, Release
<1>5. Admission' /\ Revoking'
  BY <1>2, <1>3, <1>4, OthersMove
<1>6. PendingIsServed' /\ Positions'
  BY <1>2, StillServed, PositionsStay
<1> QED BY <1>4, <1>5, <1>6 DEF SlotsInv

-----------------------------------------------------------------------------
(* What runs under the reservation of everything *)

\* Commands that reserve everything, and the end of the shared session.
LEMMA ExclusiveKeeps ==
  ASSUME SlotsAssumption, SlotsInv,
         StartExclusive \/ LaunchExclusive \/ EndLegacy \/ LockVault \/ RevokeInline \/ Unlock
  PROVE SlotsInv'
<1>1. UNCHANGED <<reserved, pending, running, watchdog, command, publisher, revoker>>
  BY DEF StartExclusive, LaunchExclusive, EndLegacy, LockVault, RevokeInline, Unlock, Do, flags,
         threads
<1>2. Legacy \in Managers /\ Slots \subseteq Managers /\ Legacy \notin Slots
  BY SlotFacts
<1>3. PendingIsServed'
  BY <1>1, StillServed
<1>4. CASE StartExclusive
  <2>1. /\ exclusive' = [at |-> "launching", of |-> 0] /\ exclusive = Idle
        /\ lock' = [lock EXCEPT ![Legacy] = "command"] /\ UNCHANGED <<unlocked, session>>
        /\ \A s \in Slots : command[s] = "idle"
        /\ Legacy \in Range(Order) /\ ~Owned(Legacy) /\ OccupiedSlots = {}
    BY <1>4 DEF StartExclusive, ReserveAll, Do, LockFor
  <2>2. TypeOK'
    <3>1. 0 \in 0..Len(Order)
      BY SlotFacts
    <3> QED BY <1>1, <1>2, <2>1, <3>1 DEF SlotsInv, TypeOK
  <2>3. ClaimedSlots = {}
    BY <2>1 DEF OccupiedSlots, Occupied, ClaimedSlots, Claimed
  <2>4. Admission'
    <3>1. \A s \in Slots : Claimed(s)' => Claimed(s)
      BY <1>1, <2>1 DEF Claimed, Owned
    <3> QED BY <1>1, <2>1, <2>3, <3>1, NoneClaims DEF SlotsInv, Admission
  <2>5. Revoking' /\ Positions'
    BY <1>1, <2>1, PositionsStay DEF SlotsInv, Revoking
  <2> QED BY <1>3, <2>2, <2>4, <2>5 DEF SlotsInv
<1>5. CASE LaunchExclusive
  <2>1. /\ exclusive.at = "launching" /\ exclusive' = Idle /\ unlocked' = unlocked
        /\ lock' = [lock EXCEPT ![Legacy] = Unheld]
    BY <1>5 DEF LaunchExclusive, Do, Release, Idle
  <2>2. PICK result \in {"none", "secret", "closed"} :
          session' = [session EXCEPT ![Legacy] = result]
    BY <1>5 DEF LaunchExclusive
  <2>3. TypeOK'
    <3>1. 0 \in 0..Len(Order)
      BY SlotFacts
    <3> QED BY <1>1, <1>2, <2>1, <2>2, <3>1 DEF SlotsInv, TypeOK, Idle
  <2>4. ClaimedSlots = {} /\ Legacy \in Range(Order)
    BY <2>1 DEF SlotsInv, Admission, Revoking
  <2>5. Admission'
    <3>1. \A s \in Slots : session'[s] = session[s]
      BY <1>2, <2>2 DEF SlotsInv, TypeOK
    <3>2. \A s \in Slots : Claimed(s)' => Claimed(s)
      BY <1>1, <3>1 DEF Claimed, Owned
    <3> QED BY <1>1, <2>1, <2>4, <3>2, NoneClaims DEF SlotsInv, Admission
  <2>6. Revoking' /\ Positions'
    BY <1>1, <2>1, <2>4, PositionsStay DEF Revoking, Idle
  <2> QED BY <1>3, <2>3, <2>5, <2>6 DEF SlotsInv
<1>6. CASE EndLegacy
  <2>1. /\ session' = [session EXCEPT ![Legacy] = "none"]
        /\ UNCHANGED <<unlocked, lock, exclusive>>
    BY <1>6 DEF EndLegacy, threads
  <2>2. /\ session' \in [Managers -> {"none", "secret", "closed"}]
        /\ \A n \in Managers : (Owned(n)' => Owned(n))
                               /\ (session'[n] = "secret" => session[n] = "secret")
    BY <1>2, <2>1 DEF SlotsInv, TypeOK, Owned
  <2>3. TypeOK'
    BY <1>1, <2>1, <2>2 DEF SlotsInv, TypeOK
  <2> QED BY <1>1, <1>3, <2>1, <2>2, <2>3, OthersMove, PositionsStay DEF SlotsInv
<1>7. CASE LockVault
  <2>1. /\ exclusive' = [at |-> "revoking", of |-> 1] /\ unlocked' = FALSE
        /\ UNCHANGED <<session, lock>> /\ \A s \in Slots : command[s] = "idle"
    BY <1>7 DEF LockVault, ReserveAll, Do
  <2>2. TypeOK' /\ Positions'
    <3>1. 1 \in 0..Len(Order) /\ 1 \in 1..Len(Order)
      BY SlotFacts
    <3> QED BY <1>1, <2>1, <3>1 DEF SlotsInv, TypeOK, Positions, ManagerOf
  <2>3. Admission'
    <3>1. \A s \in Slots : Claimed(s)' => Claimed(s)
      BY <1>1, <2>1 DEF Claimed, Owned
    <3> QED BY <1>1, <2>1, <3>1, NoneClaims DEF SlotsInv, Admission, Owned
  <2>4. Revoking'
    BY <2>1 DEF SlotsInv, Revoking
  <2> QED BY <1>3, <2>2, <2>3, <2>4 DEF SlotsInv
<1>8. CASE RevokeInline
  <2> DEFINE m == InlineManager(exclusive.of)
  <2>1. /\ exclusive.at = "revoking" /\ session' = Revoked(m) /\ UNCHANGED <<unlocked, lock>>
        /\ exclusive' = IF exclusive.of < Len(Order)
                        THEN [at |-> "revoking", of |-> exclusive.of + 1] ELSE Idle
    BY <1>8 DEF RevokeInline, Do, Idle
  <2>2. exclusive.of \in 1..Len(Order)
    BY <2>1 DEF SlotsInv, Positions
  <2>3. m \in Managers
    BY <2>2, SlotFacts
  <2> HIDE DEF m
  <2>4. /\ session' \in [Managers -> {"none", "secret", "closed"}]
        /\ session'[m] # "secret"
        /\ \A n \in Managers : (Owned(n)' => Owned(n))
                               /\ (session'[n] = "secret" => session[n] = "secret")
    BY <2>1, <2>3, RevokedSettles
  <2>5. exclusive'.of \in 0..Len(Order) /\ exclusive' \in [at : {"idle", "launching", "revoking"}, of : 0..Len(Order)]
    BY <2>1, <2>2, SlotFacts DEF Idle
  <2>6. TypeOK' /\ Positions'
    <3>1. TypeOK'
      BY <1>1, <2>1, <2>4, <2>5 DEF SlotsInv, TypeOK
    <3>2. exclusive'.at = "revoking" => exclusive'.of \in 1..Len(Order)
      BY <2>1, <2>2, SlotFacts DEF Idle
    <3> QED BY <1>1, <3>1, <3>2 DEF SlotsInv, Positions, ManagerOf
  <2>7. Admission'
    <3>1. \A s \in Slots : Claimed(s)' => Claimed(s)
      BY <1>1, <1>2, <2>4 DEF Claimed
    <3>2. \A s \in Slots : command[s] = "idle"
      BY <2>1 DEF SlotsInv, Admission, Idle
    <3>3. exclusive'.at # "launching"
      BY <2>1 DEF Idle
    <3> QED BY <1>1, <1>2, <2>4, <3>1, <3>2, <3>3, NoneClaims DEF SlotsInv, Admission
  <2>8. Revoking'
    <3>1. ASSUME exclusive'.at = "revoking", NEW i \in 1..Len(Order), i < exclusive'.of
          PROVE session'[InlineManager(i)] # "secret"
      <4>1. exclusive'.of = exclusive.of + 1 /\ InlineManager(i) \in Managers
        BY <2>1, <3>1, SlotFacts DEF Idle
      <4>2. i < exclusive.of \/ i = exclusive.of
        BY <2>2, <3>1, <4>1
      <4>3. CASE i < exclusive.of
        BY <2>1, <2>4, <4>1, <4>3 DEF SlotsInv, Revoking
      <4>4. CASE i = exclusive.of
        BY <2>4, <4>4 DEF m
      <4> QED BY <4>2, <4>3, <4>4
    <3>2. exclusive'.at # "launching"
      BY <2>1 DEF Idle
    <3> QED BY <1>2, <2>4, <3>1, <3>2 DEF SlotsInv, Revoking, Owned, InlineManager
  <2> QED BY <1>3, <2>6, <2>7, <2>8 DEF SlotsInv
<1>9. CASE Unlock
  <2>1. unlocked' = TRUE /\ UNCHANGED <<session, lock, exclusive>>
    BY <1>9 DEF Unlock, threads
  <2>2. TypeOK'
    BY <1>1, <2>1 DEF SlotsInv, TypeOK
  <2> QED BY <1>1, <1>3, <2>1, <2>2, OthersMove, PositionsStay DEF SlotsInv, Owned
<1> QED BY <1>4, <1>5, <1>6, <1>7, <1>8, <1>9

-----------------------------------------------------------------------------
(* Publishers *)

PublisherStates == [at : PublisherSteps, of : 0..Len(Order), locked : BOOLEAN]

\* Where a publisher may be.
Placed(state) ==
  /\ state \in PublisherStates
  /\ state.at # "idle" => state.of \in 1..Len(Order)
  /\ state.at \in {"quiet", "taking"} => Order[state.of] \in Slots

\* A publisher moves and serves what it leaves pending.
LEMMA PublisherMoves ==
  ASSUME SlotsAssumption, SlotsInv, NEW p \in Publishers, NEW state,
         publisher' = [publisher EXCEPT ![p] = state], Placed(state),
         UNCHANGED <<command, exclusive, reserved, lock>>, unlocked' \in BOOLEAN,
         \A m \in Managers : (Owned(m)' => Owned(m))
                             /\ (session'[m] = "secret" => session[m] = "secret"),
         session' \in [Managers -> {"none", "secret", "closed"}],
         pending' \in [Managers -> BOOLEAN], running' \in [Managers -> BOOLEAN],
         watchdog' \in [Slots -> BOOLEAN],
         revoker' \in [Managers ->
                    [Revokers -> {"none", "locking", "revoking", "storing", "checking"}]],
         \A m \in Managers : pending'[m] =>
           \/ pending[m] /\ (publisher[p].at \in {"try", "load", "swap"} /\ ManagerOf(p) = m =>
                               running'[m] \/ (state.at \in {"try", "load", "swap"}
                                               /\ Order[state.of] = m))
           \/ state.at \in {"try", "load", "swap"} /\ Order[state.of] = m,
         \A m \in Managers : running[m] => running'[m],
         \A m \in Managers, r \in Revokers : revoker[m][r] = "checking" => revoker'[m][r] = "checking"
  PROVE SlotsInv'
<1>1. publisher \in [Publishers -> PublisherStates]
  BY DEF SlotsInv, TypeOK, PublisherStates
<1>2. publisher' \in [Publishers -> PublisherStates]
  BY <1>1 DEF Placed
<1>3. TypeOK'
  BY <1>2 DEF SlotsInv, TypeOK, PublisherStates
<1>4. /\ publisher'[p] = state
      /\ \A q \in Publishers \ {p} : publisher'[q] = publisher[q]
  BY <1>1
<1>5. Positions'
  <2>1. ASSUME NEW q \in Publishers
        PROVE /\ publisher'[q].at # "idle" => publisher'[q].of \in 1..Len(Order)
              /\ publisher'[q].at \in {"quiet", "taking"} => Order[publisher'[q].of] \in Slots
    BY <1>4 DEF Placed, SlotsInv, Positions, ManagerOf
  <2> QED BY <2>1 DEF SlotsInv, Positions, ManagerOf
<1>6. Admission' /\ Revoking'
  BY <1>3, OthersMove
<1>7. PendingIsServed'
  <2> SUFFICES ASSUME NEW m \in Managers, pending'[m]
               PROVE \/ running'[m] \/ \E r \in Revokers : revoker'[m][r] = "checking"
                     \/ \E q \in Publishers : /\ publisher'[q].at \in {"try", "load", "swap"}
                                              /\ Order[publisher'[q].of] = m
    BY DEF PendingIsServed, ManagerOf
  <2>1. CASE state.at \in {"try", "load", "swap"} /\ Order[state.of] = m
    BY <1>4, <2>1
  <2>2. CASE /\ pending[m]
             /\ publisher[p].at \in {"try", "load", "swap"} /\ ManagerOf(p) = m => running'[m]
    <3>1. CASE running[m]
      BY <3>1
    <3>2. CASE \E r \in Revokers : revoker[m][r] = "checking"
      BY <3>2
    <3>3. CASE \E q \in Publishers : /\ publisher[q].at \in {"try", "load", "swap"}
                                     /\ ManagerOf(q) = m
      BY <1>4, <2>2, <3>3 DEF ManagerOf
    <3> QED BY <2>2, <3>1, <3>2, <3>3 DEF SlotsInv, PendingIsServed
  <2> QED BY <2>1, <2>2
<1> QED BY <1>3, <1>5, <1>6, <1>7 DEF SlotsInv

\* Where a publisher goes next.
LEMMA LooksAt ==
  ASSUME SlotsAssumption, NEW i \in Nat \ {0}, NEW locked \in BOOLEAN
  PROVE Placed(LooksFrom(i, locked)) /\ LooksFrom(i, locked).at \notin {"try", "load", "swap"}
<1>1. Len(Order) \in Nat /\ Len(Order) > 0
  BY DEF SlotsAssumption
<1>2. \A j \in 1..Len(Order) : Order[j] # Legacy => Order[j] \in Slots
  BY <1>1 DEF SlotsAssumption, Managers
<1>3. CASE i <= Len(Order) /\ Order[i] # Legacy
  BY <1>1, <1>2, <1>3 DEF LooksFrom, Placed, PublisherStates, PublisherSteps
<1>4. CASE ~(i <= Len(Order) /\ Order[i] # Legacy)
  BY <1>1, <1>4 DEF LooksFrom, ToRevoke, AtEnd, Placed, PublisherStates, PublisherSteps
<1> QED BY <1>3, <1>4

\* Where a publisher goes after the revocation of one manager.
After(p) == IF publisher[p].of < Len(Order)
            THEN [publisher[p] EXCEPT !.at = "store", !.of = @ + 1]
            ELSE [publisher[p] EXCEPT !.at = "idle", !.of = 0]

\* A publisher at a manager.
LEMMA PublisherAt ==
  ASSUME SlotsAssumption, SlotsInv, NEW p \in Publishers, publisher[p].at # "idle"
  PROVE /\ publisher[p] \in PublisherStates /\ publisher[p].of \in 1..Len(Order)
        /\ ManagerOf(p) = Order[publisher[p].of] /\ ManagerOf(p) \in Managers
        /\ publisher[p].at \in {"quiet", "taking"} => ManagerOf(p) \in Slots
        /\ \A at \in {"store", "try", "load", "swap"} :
             LET state == [publisher[p] EXCEPT !.at = at] IN
               Placed(state) /\ state.at = at /\ state.of = publisher[p].of
        /\ Placed(After(p)) /\ After(p).at \notin {"try", "load", "swap"}
<1>1. publisher[p] \in PublisherStates /\ publisher[p].of \in 1..Len(Order)
  BY DEF SlotsInv, TypeOK, Positions, PublisherStates
<1>2. Placed(After(p)) /\ After(p).at \notin {"try", "load", "swap"}
  <2> DEFINE i == publisher[p].of
             q == publisher[p]
  <2>0. i \in 1..Len(Order) /\ Len(Order) \in Nat /\ q.locked \in BOOLEAN
        /\ q = [at |-> q.at, of |-> i, locked |-> q.locked]
    BY <1>1, SlotFacts DEF PublisherStates
  <2>1. CASE i < Len(Order)
    <3>1. After(p) = [at |-> "store", of |-> i + 1, locked |-> q.locked]
      BY <2>0, <2>1 DEF After
    <3> HIDE DEF i, q
    <3>2. i + 1 \in 0..Len(Order) /\ i + 1 \in 1..Len(Order)
      BY <2>0, <2>1
    <3> QED BY <2>0, <3>1, <3>2 DEF Placed, PublisherStates, PublisherSteps
  <2>2. CASE ~(i < Len(Order))
    <3>1. After(p) = [at |-> "idle", of |-> 0, locked |-> q.locked]
      BY <2>0, <2>2 DEF After
    <3> HIDE DEF i, q
    <3>2. 0 \in 0..Len(Order)
      BY <2>0
    <3> QED BY <2>0, <3>1, <3>2 DEF Placed, PublisherStates, PublisherSteps
  <2> QED BY <2>1, <2>2
<1>3. \A at \in {"store", "try", "load", "swap"} :
        LET state == [publisher[p] EXCEPT !.at = at] IN
          Placed(state) /\ state.at = at /\ state.of = publisher[p].of
  BY <1>1 DEF Placed, PublisherStates, PublisherSteps
<1> QED BY <1>1, <1>2, <1>3, SlotFacts DEF SlotsInv, Positions, ManagerOf

\* What a publisher does to one manager ends with this.
LEMMA PublishIs ==
  ASSUME SlotsAssumption, SlotsInv, NEW p \in Publishers, publisher[p].at # "idle"
  PROVE /\ \A at : Publish(p, at, publisher[p].of) =>
             publisher' = [publisher EXCEPT ![p] = [publisher[p] EXCEPT !.at = at]]
        /\ NextRevocation(p) => publisher' = [publisher EXCEPT ![p] = After(p)]
        /\ NextLook(p) =>
             publisher' = [publisher EXCEPT
                             ![p] = LooksFrom(publisher[p].of + 1, publisher[p].locked)]
        /\ (\E at : Publish(p, at, publisher[p].of)) \/ NextRevocation(p) \/ NextLook(p) =>
             UNCHANGED <<command, exclusive, revoker>>
<1>1. /\ publisher \in [Publishers -> PublisherStates] /\ publisher[p] \in PublisherStates
      /\ publisher[p].of \in 1..Len(Order) /\ Len(Order) \in Nat
  BY PublisherAt, SlotFacts DEF SlotsInv, TypeOK, PublisherStates
<1>2. publisher[p] = [at |-> publisher[p].at, of |-> publisher[p].of,
                      locked |-> publisher[p].locked]
  BY <1>1 DEF PublisherStates
<1>3. ASSUME NEW at, Publish(p, at, publisher[p].of)
      PROVE publisher' = [publisher EXCEPT ![p] = [publisher[p] EXCEPT !.at = at]]
  BY <1>1, <1>2, <1>3 DEF Publish
<1>4. ASSUME NextRevocation(p)
      PROVE publisher' = [publisher EXCEPT ![p] = After(p)]
  BY <1>1, <1>2, <1>4 DEF NextRevocation, Publish, After
<1> QED BY <1>3, <1>4 DEF NextLook, LookOn, NextRevocation, Publish

\* The steps of a publication.
LEMMA PublisherKeeps ==
  ASSUME SlotsAssumption, SlotsInv, NEW p \in Publishers, PublisherStep(p)
  PROVE SlotsInv'
<1>1. TypeOK
  BY DEF SlotsInv
<1>2. CASE AskVault(p)
  <2>1. /\ unlocked' \in BOOLEAN
        /\ publisher' = [publisher EXCEPT ![p] = LooksFrom(1, ~unlocked')]
        /\ UNCHANGED <<command, exclusive, revoker, session, lock, reserved, pending, running,
                       watchdog>>
        /\ publisher[p].at = "idle"
    BY <1>1, <1>2 DEF AskVault, LookOn, AtManager, flags, TypeOK
  <2>2. Placed(LooksFrom(1, ~unlocked'))
    <3>1. 1 \in Nat \ {0} /\ (~unlocked') \in BOOLEAN
      OBVIOUS
    <3> QED BY <3>1, LooksAt, Zenon
  <2> QED BY <1>1, <2>1, <2>2, PublisherMoves DEF TypeOK, Owned
<1>3. ASSUME publisher[p].at # "idle" PROVE SlotsInv'
  <2> DEFINE m == ManagerOf(p)
             i == publisher[p].of
             On(at) == [publisher[p] EXCEPT !.at = at]
  <2>1. /\ m \in Managers /\ i \in 1..Len(Order) /\ m = Order[i]
        /\ publisher[p].locked \in BOOLEAN
        /\ publisher[p].at \in {"quiet", "taking"} => m \in Slots
        /\ \A at \in {"store", "try", "load", "swap"} :
             Placed(On(at)) /\ On(at).at = at /\ On(at).of = i
        /\ Placed(After(p)) /\ After(p).at \notin {"try", "load", "swap"}
    BY <1>3, PublisherAt DEF PublisherStates
  <2>2. /\ \A at : Publish(p, at, i) => publisher' = [publisher EXCEPT ![p] = On(at)]
        /\ NextRevocation(p) => publisher' = [publisher EXCEPT ![p] = After(p)]
        /\ NextLook(p) => publisher' = [publisher EXCEPT
                                          ![p] = LooksFrom(i + 1, publisher[p].locked)]
        /\ (\E at : Publish(p, at, i)) \/ NextRevocation(p) \/ NextLook(p) =>
             UNCHANGED <<command, exclusive, revoker>>
    BY <1>3, PublishIs
  <2>3. LET state == LooksFrom(i + 1, publisher[p].locked) IN
          Placed(state) /\ state.at \notin {"try", "load", "swap"}
    <3>1. i + 1 \in Nat \ {0}
      BY <2>1, SlotFacts
    <3> QED BY <2>1, <3>1, LooksAt
  <2>4. m = ManagerOf(p)
    OBVIOUS
  <2> HIDE DEF m, i, On
  <2>5. CASE Look(p)
    <3>1. /\ UNCHANGED <<unlocked, session, lock, reserved, pending, running, watchdog>>
          /\ publisher[p].at = "quiet"
          /\ NextLook(p) \/ Publish(p, "taking", i)
      BY <2>5 DEF Look, AtManager, flags, i
    <3>2. CASE NextLook(p)
      BY <1>1, <2>2, <2>3, <3>1, <3>2, PublisherMoves DEF TypeOK, Owned
    <3>3. CASE Publish(p, "taking", i)
      <4>1. publisher[p] \in PublisherStates
        BY <1>3, PublisherAt
      <4>2. On("taking") = [at |-> "taking", of |-> i, locked |-> publisher[p].locked]
        BY <4>1 DEF On, i, PublisherStates
      <4>3. Placed(On("taking"))
        BY <2>1, <3>1, <4>2, SlotFacts DEF Placed, PublisherStates, PublisherSteps
      <4> QED BY <1>1, <2>2, <3>1, <3>3, <4>3, PublisherMoves DEF TypeOK, Owned
    <3> QED BY <3>1, <3>2, <3>3
  <2>6. CASE TakeWatchdog(p)
    <3>1. /\ UNCHANGED <<unlocked, session, lock, reserved, pending, running>>
          /\ watchdog' = [watchdog EXCEPT ![m] = FALSE]
          /\ publisher[p].at = "taking" /\ NextLook(p)
      BY <2>4, <2>6 DEF TakeWatchdog, StopWatchdog, AtManager, flags
    <3>2. watchdog' \in [Slots -> BOOLEAN]
      BY <1>1, <2>1, <3>1 DEF TypeOK
    <3> QED BY <1>1, <2>2, <2>3, <3>1, <3>2, PublisherMoves DEF TypeOK, Owned
  <2>7. CASE StorePending(p)
    <3>1. /\ UNCHANGED <<unlocked, session, lock, reserved, running, watchdog>>
          /\ pending' = [pending EXCEPT ![m] = TRUE]
          /\ Publish(p, "try", i) /\ publisher[p].at = "store"
      BY <2>7 DEF StorePending, AtManager, m, i
    <3>2. pending' \in [Managers -> BOOLEAN] /\ \A n \in Managers \ {m} : pending'[n] = pending[n]
      BY <1>1, <2>1, <3>1 DEF TypeOK
    <3>3. /\ Placed(On("try")) /\ On("try").at = "try" /\ Order[On("try").of] = m
          /\ publisher' = [publisher EXCEPT ![p] = On("try")]
          /\ UNCHANGED <<command, exclusive, revoker>>
      BY <2>1, <2>2, <3>1
    <3> QED BY <1>1, <3>1, <3>2, <3>3, PublisherMoves DEF TypeOK, Owned
  <2>8. CASE TryRevoke(p)
    <3>1. /\ UNCHANGED <<unlocked, lock, reserved, running, watchdog>>
          /\ RevokeIfPending(m) /\ publisher[p].at = "try"
          /\ \/ NextRevocation(p) /\ lock[m] = Unheld
             \/ Publish(p, "swap", i)
             \/ Publish(p, "load", i)
      BY <2>8 DEF TryRevoke, AtManager, m, i
    <3>2. /\ session' \in [Managers -> {"none", "secret", "closed"}]
          /\ pending' \in [Managers -> BOOLEAN]
          /\ pending'[m] => lock[m] # Unheld
          /\ \A n \in Managers : /\ (Owned(n)' => Owned(n))
                                 /\ (session'[n] = "secret" => session[n] = "secret")
                                 /\ (pending'[n] => pending[n])
      BY <2>1, <3>1, PendingRevoked
    <3>3. CASE NextRevocation(p) /\ lock[m] = Unheld
      <4>1. \A n \in Managers : pending'[n] =>
              /\ pending[n]
              /\ ~(publisher[p].at \in {"try", "load", "swap"} /\ ManagerOf(p) = n)
        BY <2>4, <3>2, <3>3
      <4>2. UNCHANGED <<command, exclusive, revoker>>
            /\ publisher' = [publisher EXCEPT ![p] = After(p)]
        BY <2>2, <3>3
      <4>3. /\ Placed(After(p)) /\ UNCHANGED <<reserved, lock, running, watchdog>>
            /\ unlocked' \in BOOLEAN /\ running \in [Managers -> BOOLEAN]
            /\ watchdog \in [Slots -> BOOLEAN]
        BY <1>1, <2>1, <3>1 DEF TypeOK
      <4>4. revoker' \in [Managers ->
                [Revokers -> {"none", "locking", "revoking", "storing", "checking"}]]
        BY <1>1, <4>2 DEF TypeOK
      <4> QED BY <3>2, <4>1, <4>2, <4>3, <4>4, PublisherMoves
    <3>4. ASSUME NEW at \in {"swap", "load"}, Publish(p, at, i) PROVE SlotsInv'
      <4>1. /\ Placed(On(at)) /\ On(at).at = at /\ Order[On(at).of] = m
            /\ publisher' = [publisher EXCEPT ![p] = On(at)]
            /\ UNCHANGED <<command, exclusive, revoker>>
        BY <2>1, <2>2, <3>4
      <4>2. \A n \in Managers : pending'[n] =>
              /\ pending[n]
              /\ (publisher[p].at \in {"try", "load", "swap"} /\ ManagerOf(p) = n =>
                    On(at).at \in {"try", "load", "swap"} /\ Order[On(at).of] = n)
        BY <2>4, <3>2, <4>1
      <4> QED BY <1>1, <3>1, <3>2, <4>1, <4>2, PublisherMoves DEF TypeOK
    <3> QED BY <3>1, <3>3, <3>4
  <2>9. CASE LoadPending(p)
    <3>1. /\ UNCHANGED <<unlocked, session, lock, reserved, pending, running, watchdog>>
          /\ publisher[p].at = "load"
          /\ \/ Publish(p, "swap", i)
             \/ NextRevocation(p) /\ ~pending[m]
      BY <2>9 DEF LoadPending, AtManager, flags, m, i
    <3>2. CASE NextRevocation(p) /\ ~pending[m]
      <4>1. \A n \in Managers : pending'[n] =>
              /\ pending[n]
              /\ ~(publisher[p].at \in {"try", "load", "swap"} /\ ManagerOf(p) = n)
        BY <2>4, <3>1, <3>2
      <4>2. UNCHANGED <<command, exclusive, revoker>>
            /\ publisher' = [publisher EXCEPT ![p] = After(p)]
        BY <2>2, <3>2
      <4> QED BY <1>1, <2>1, <3>1, <4>1, <4>2, PublisherMoves DEF TypeOK, Owned
    <3>3. CASE Publish(p, "swap", i)
      <4>1. /\ Placed(On("swap")) /\ On("swap").at = "swap" /\ Order[On("swap").of] = m
            /\ publisher' = [publisher EXCEPT ![p] = On("swap")]
            /\ UNCHANGED <<command, exclusive, revoker>>
        BY <2>1, <2>2, <3>3
      <4> QED BY <1>1, <2>4, <3>1, <4>1, PublisherMoves DEF TypeOK, Owned
    <3> QED BY <3>1, <3>2, <3>3
  <2>10. CASE SwapRunning(p)
    <3>1. /\ UNCHANGED <<unlocked, session, lock, reserved, pending, watchdog>>
          /\ publisher[p].at = "swap"
      BY <2>10 DEF SwapRunning, AtManager
    <3>2. CASE running[m]
      <4>1. NextRevocation(p) /\ running' = running
        BY <2>10, <3>2 DEF SwapRunning, m
      <4>2. \A n \in Managers : pending'[n] =>
              pending[n] /\ (ManagerOf(p) = n => running'[n])
        BY <2>4, <3>1, <3>2, <4>1
      <4>3. UNCHANGED <<command, exclusive, revoker>>
            /\ publisher' = [publisher EXCEPT ![p] = After(p)]
        BY <2>2, <4>1
      <4> QED BY <1>1, <2>1, <3>1, <4>1, <4>2, <4>3, PublisherMoves DEF TypeOK, Owned
    <3>3. CASE ~running[m]
      <4>1. PICK r \in Revokers : /\ revoker[m][r] = "none"
                                  /\ revoker' = [revoker EXCEPT ![m][r] = "locking"]
        BY <2>10, <3>3 DEF SwapRunning, m
      <4>2. /\ running' = [running EXCEPT ![m] = TRUE] /\ UNCHANGED <<command, exclusive>>
            /\ publisher' = [publisher EXCEPT ![p].at = IF publisher[p].of < Len(Order)
                                                        THEN "store" ELSE "idle",
                                              ![p].of = IF @ < Len(Order) THEN @ + 1 ELSE 0]
        BY <2>10, <3>3 DEF SwapRunning, m
      <4>3. publisher' = [publisher EXCEPT ![p] = After(p)]
        <5>1. /\ publisher \in [Publishers -> PublisherStates]
              /\ publisher[p].of \in 1..Len(Order) /\ Len(Order) \in Nat
          BY <1>1, <2>1, SlotFacts DEF TypeOK, PublisherStates, i
        <5>2. CASE publisher[p].of < Len(Order)
          BY <4>2, <5>1, <5>2 DEF After, PublisherStates
        <5>3. CASE ~(publisher[p].of < Len(Order))
          BY <4>2, <5>1, <5>3 DEF After, PublisherStates
        <5> QED BY <5>2, <5>3
      <4>4. /\ running' \in [Managers -> BOOLEAN] /\ running'[m]
            /\ \A n \in Managers : running[n] => running'[n]
        BY <1>1, <2>1, <4>2 DEF TypeOK
      <4>5. /\ revoker' \in [Managers ->
                    [Revokers -> {"none", "locking", "revoking", "storing", "checking"}]]
            /\ \A n \in Managers, q \in Revokers :
                 revoker[n][q] = "checking" => revoker'[n][q] = "checking"
        BY <1>1, <2>1, <4>1 DEF TypeOK
      <4> QED BY <1>1, <2>1, <2>4, <3>1, <4>2, <4>3, <4>4, <4>5, PublisherMoves DEF TypeOK, Owned
    <3> QED BY <3>2, <3>3
  <2> QED BY <1>3, <2>5, <2>6, <2>7, <2>8, <2>9, <2>10 DEF PublisherStep, AskVault, AtManager
<1> QED BY <1>2, <1>3 DEF PublisherStep, Look, TakeWatchdog, StorePending, TryRevoke, LoadPending,
                         SwapRunning, AtManager

-----------------------------------------------------------------------------
(* The threads that revoke *)

RevokerSteps == {"none", "locking", "revoking", "storing", "checking"}

\* A revoker moves, and does not leave a pending revocation alone.
LEMMA RevokerMoves ==
  ASSUME SlotsAssumption, SlotsInv, NEW m \in Managers, NEW r \in Revokers,
         NEW step \in RevokerSteps, RevokerAt(m, r, step),
         UNCHANGED <<unlocked, reserved, watchdog>>,
         lock' \in [Managers -> {Unheld, "command", "watchdog"} \cup Revokers],
         session' \in [Managers -> {"none", "secret", "closed"}],
         pending' \in [Managers -> BOOLEAN], running' \in [Managers -> BOOLEAN],
         \A n \in Managers : /\ (Owned(n)' => Owned(n))
                             /\ (session'[n] = "secret" => session[n] = "secret")
                             /\ (pending'[n] => pending[n]),
         \A n \in Managers \ {m} : running[n] => running'[n],
         pending'[m] => running'[m] \/ step = "checking"
                        \/ (running' = running /\ revoker[m][r] # "checking")
  PROVE SlotsInv'
<1>1. /\ revoker' = [revoker EXCEPT ![m][r] = step]
      /\ UNCHANGED <<command, exclusive, publisher>>
  BY DEF RevokerAt
<1>2. revoker \in [Managers -> [Revokers -> RevokerSteps]]
  BY DEF SlotsInv, TypeOK, RevokerSteps
<1>3. /\ revoker' \in [Managers -> [Revokers -> RevokerSteps]]
      /\ revoker'[m][r] = step
      /\ \A q \in Revokers \ {r} : revoker'[m][q] = revoker[m][q]
      /\ \A n \in Managers \ {m} : revoker'[n] = revoker[n]
  BY <1>1, <1>2
<1>4. TypeOK'
  BY <1>1, <1>3 DEF SlotsInv, TypeOK, RevokerSteps
<1>5. PendingIsServed'
  <2> SUFFICES ASSUME NEW n \in Managers, pending'[n]
               PROVE \/ running'[n] \/ \E q \in Revokers : revoker'[n][q] = "checking"
                     \/ \E p \in Publishers : /\ publisher[p].at \in {"try", "load", "swap"}
                                              /\ ManagerOf(p) = n
    BY <1>1 DEF PendingIsServed, ManagerOf
  <2>1. \/ running[n] \/ \E q \in Revokers : revoker[n][q] = "checking"
        \/ \E p \in Publishers : /\ publisher[p].at \in {"try", "load", "swap"}
                                 /\ ManagerOf(p) = n
    BY DEF SlotsInv, PendingIsServed
  <2>2. CASE n = m
    BY <1>3, <2>1, <2>2
  <2>3. CASE n # m
    BY <1>3, <2>1, <2>3
  <2> QED BY <2>2, <2>3
<1>6. Admission' /\ Revoking' /\ Positions'
  BY <1>1, <1>4, OthersMove, PositionsStay DEF SlotsInv
<1> QED BY <1>4, <1>5, <1>6 DEF SlotsInv

\* The steps of a thread that revokes.
LEMMA RevokerKeeps ==
  ASSUME SlotsAssumption, SlotsInv, NEW m \in Managers, NEW r \in Revokers, RevokerStep(m, r)
  PROVE SlotsInv'
<1>1. TypeOK
  BY DEF SlotsInv
<1>2. CASE LockRevoke(m, r)
  <2>1. /\ UNCHANGED <<unlocked, session, reserved, pending, running, watchdog>>
        /\ lock' = [lock EXCEPT ![m] = r] /\ RevokerAt(m, r, "revoking")
        /\ revoker[m][r] = "locking"
    BY <1>2 DEF LockRevoke, flags
  <2>2. lock' \in [Managers -> {Unheld, "command", "watchdog"} \cup Revokers]
    BY <1>1, <2>1 DEF TypeOK
  <2>3. "revoking" \in RevokerSteps
    BY DEF RevokerSteps
  <2> QED BY <1>1, <2>1, <2>2, <2>3, RevokerMoves DEF TypeOK, Owned
<1>3. CASE Revoke(m, r)
  <2>1. /\ UNCHANGED <<unlocked, reserved, running, watchdog>>
        /\ RevokerAt(m, r, "storing") /\ revoker[m][r] = "revoking"
    BY <1>3 DEF Revoke
  <2>2. "storing" \in RevokerSteps
    BY DEF RevokerSteps
  <2>3. CASE pending[m]
    <3>1. /\ pending' = [pending EXCEPT ![m] = FALSE] /\ session' = Revoked(m)
          /\ lock' = [lock EXCEPT ![m] = Unheld] \/ lock' = lock
      BY <1>3, <2>3 DEF Revoke, Release
    <3>2. /\ lock' \in [Managers -> {Unheld, "command", "watchdog"} \cup Revokers]
          /\ pending' \in [Managers -> BOOLEAN] /\ ~pending'[m]
          /\ \A n \in Managers : pending'[n] => pending[n]
      BY <1>1, <3>1 DEF TypeOK
    <3>3. /\ session' \in [Managers -> {"none", "secret", "closed"}]
          /\ \A n \in Managers : (Owned(n)' => Owned(n))
                                 /\ (session'[n] = "secret" => session[n] = "secret")
      BY <3>1, RevokedSettles
    <3> QED BY <1>1, <2>1, <2>2, <3>2, <3>3, RevokerMoves DEF TypeOK
  <2>4. CASE ~pending[m]
    <3>1. UNCHANGED <<pending, session, lock>>
      BY <1>3, <2>4 DEF Revoke
    <3> QED BY <1>1, <2>1, <2>2, <2>4, <3>1, RevokerMoves DEF TypeOK, Owned
  <2> QED BY <2>3, <2>4
<1>4. CASE StoreRunning(m, r)
  <2>1. /\ UNCHANGED <<unlocked, session, lock, reserved, pending, watchdog>>
        /\ running' = [running EXCEPT ![m] = FALSE] /\ RevokerAt(m, r, "checking")
    BY <1>4 DEF StoreRunning
  <2>2. /\ running' \in [Managers -> BOOLEAN]
        /\ \A n \in Managers \ {m} : running[n] => running'[n]
    BY <1>1, <2>1 DEF TypeOK
  <2>3. "checking" \in RevokerSteps
    BY DEF RevokerSteps
  <2>4. /\ session' \in [Managers -> {"none", "secret", "closed"}] /\ pending' \in [Managers -> BOOLEAN]
        /\ \A n \in Managers : /\ (Owned(n)' => Owned(n))
                               /\ (session'[n] = "secret" => session[n] = "secret")
                               /\ (pending'[n] => pending[n])
    BY <1>1, <2>1 DEF TypeOK, Owned
  <2>5. lock' \in [Managers -> {Unheld, "command", "watchdog"} \cup Revokers]
    BY <1>1, <2>1 DEF TypeOK
  <2> QED BY <2>1, <2>2, <2>3, <2>4, <2>5, RevokerMoves
<1>5. CASE Check(m, r)
  <2>1. /\ UNCHANGED <<unlocked, session, reserved, pending, watchdog>>
        /\ lock' = [lock EXCEPT ![m] = IF @ = r THEN Unheld ELSE @]
    BY <1>5 DEF Check, LetGo
  <2>2. lock' \in [Managers -> {Unheld, "command", "watchdog"} \cup Revokers]
    BY <1>1, <2>1 DEF TypeOK
  <2>3. "locking" \in RevokerSteps /\ "none" \in RevokerSteps
    BY DEF RevokerSteps
  <2>4. /\ session' \in [Managers -> {"none", "secret", "closed"}] /\ pending' \in [Managers -> BOOLEAN]
        /\ \A n \in Managers : /\ (Owned(n)' => Owned(n))
                               /\ (session'[n] = "secret" => session[n] = "secret")
                               /\ (pending'[n] => pending[n])
    BY <1>1, <2>1 DEF TypeOK, Owned
  <2>5. CASE pending[m] /\ ~running[m]
    <3>1. running' = [running EXCEPT ![m] = TRUE] /\ RevokerAt(m, r, "locking")
      BY <1>5, <2>5 DEF Check
    <3>2. /\ running' \in [Managers -> BOOLEAN] /\ running'[m]
          /\ \A n \in Managers \ {m} : running[n] => running'[n]
      BY <1>1, <3>1 DEF TypeOK
    <3> QED BY <2>1, <2>2, <2>3, <2>4, <3>1, <3>2, RevokerMoves
  <2>6. CASE ~(pending[m] /\ ~running[m])
    <3>1. running' = running /\ RevokerAt(m, r, "none")
      BY <1>5, <2>6 DEF Check
    <3>2. /\ running' \in [Managers -> BOOLEAN]
          /\ pending'[m] => running'[m]
      BY <1>1, <2>1, <2>6, <3>1 DEF TypeOK
    <3> QED BY <2>1, <2>2, <2>3, <2>4, <3>1, <3>2, RevokerMoves
  <2> QED BY <2>5, <2>6
<1> QED BY <1>2, <1>3, <1>4, <1>5 DEF RevokerStep

-----------------------------------------------------------------------------
(* The specification *)

\* What the process before has left is within the limit.
LEMMA SlotsStart ==
  ASSUME SlotsAssumption, Init PROVE SlotsInv
<1>1. PICK left \in SUBSET Managers :
        /\ \/ left = {Legacy} \cap Range(Order)
           \/ left \subseteq Slots /\ Cardinality(left) <= Limit
        /\ session = [m \in Managers |-> IF m \in left THEN "closed" ELSE "none"]
        /\ watchdog = [s \in Slots |-> s \in left]
  BY DEF Init
<1>2. /\ Legacy \in Managers /\ Slots \subseteq Managers /\ Legacy \notin Slots
      /\ Len(Order) \in Nat /\ Limit \in Nat /\ IsFiniteSet(Slots)
  BY DEF SlotsAssumption, Managers
<1>3. /\ \A m \in Managers : Owned(m) <=> m \in left
      /\ \A m \in Managers : session[m] # "secret"
      /\ \A s \in Slots : ~reserved[s] /\ command[s] = "idle"
      /\ exclusive = Idle
      /\ \A p \in Publishers : publisher[p].at = "idle"
      /\ \A m \in Managers : ~pending[m]
  BY <1>1, <1>2 DEF Init, Owned
<1>4. TypeOK
  <2>1. session \in [Managers -> {"none", "secret", "closed"}] /\ watchdog \in [Slots -> BOOLEAN]
    BY <1>1
  <2>2. exclusive \in [at : {"idle", "launching", "revoking"}, of : 0..Len(Order)]
    BY <1>2, <1>3 DEF Idle
  <2>3. publisher \in [Publishers -> [at : PublisherSteps, of : 0..Len(Order), locked : BOOLEAN]]
    BY <1>2 DEF Init, PublisherSteps
  <2> QED BY <2>1, <2>2, <2>3 DEF Init, TypeOK, CommandSteps
<1>5. ClaimedSlots = left \cap Slots
  BY <1>2, <1>3 DEF ClaimedSlots, Claimed
<1>6. Cardinality(ClaimedSlots) <= Limit
  <2>1. CASE left \subseteq Slots /\ Cardinality(left) <= Limit
    <3>1. ClaimedSlots = left
      BY <1>5, <2>1
    <3> QED BY <2>1, <3>1
  <2>2. CASE left = {Legacy} \cap Range(Order)
    <3>1. ClaimedSlots = {}
      BY <1>2, <1>5, <2>2
    <3> QED BY <1>2, <3>1, FS_EmptySet
  <2> QED BY <1>1, <2>1, <2>2
<1>7. Owned(Legacy) => ClaimedSlots = {} /\ Legacy \in Range(Order)
  BY <1>1, <1>2, <1>3, <1>5
<1>8. Admission
  BY <1>2, <1>3, <1>6, <1>7 DEF Admission, Reserving, Idle
<1>9. Revoking /\ Positions /\ PendingIsServed
  BY <1>3, <1>7 DEF Revoking, Positions, PendingIsServed, Owned, Idle
<1> QED BY <1>4, <1>8, <1>9 DEF SlotsInv

\* Every step.
LEMMA SlotsStep ==
  ASSUME SlotsAssumption, SlotsInv, [Next]_vars PROVE SlotsInv'
<1>1. CASE Next
  BY <1>1, AdmitKeeps, CommandKeeps, WatchdogKeeps, ExclusiveKeeps, PublisherKeeps, RevokerKeeps
     DEF Next, ExclusiveStep
<1>2. CASE UNCHANGED vars
  <2>1. UNCHANGED <<unlocked, session, lock, reserved, pending, running, watchdog, command,
                    exclusive, publisher, revoker>>
    BY <1>2 DEF vars, flags, threads
  <2>2. TypeOK'
    BY <2>1 DEF SlotsInv, TypeOK
  <2> QED BY <2>1, <2>2, OthersMove, StillServed, PositionsStay DEF SlotsInv, Owned
<1> QED BY <1>1, <1>2

\* Every step of commands, watchdogs, publishers and revokers keeps it, for any slots.
THEOREM SlotsInvariant == ASSUME SlotsAssumption PROVE Spec => []SlotsInv
<1>1. Init => SlotsInv
  BY SlotsStart
<1>2. SlotsInv /\ [Next]_vars => SlotsInv'
  BY SlotsStep
<1> QED BY <1>1, <1>2, PTL DEF Spec

\* What is admitted stays within the limit and of one kind.
LEMMA SlotsAreSafe ==
  ASSUME SlotsAssumption, SlotsInv PROVE TypeOK /\ WithinLimit /\ OneKind /\ PendingIsServed
<1>1. {s \in Slots : Owned(s)} \subseteq ClaimedSlots
  BY DEF ClaimedSlots, Claimed
<1>2. /\ Cardinality({s \in Slots : Owned(s)}) <= Cardinality(ClaimedSlots)
      /\ Cardinality({s \in Slots : Owned(s)}) \in Nat /\ Cardinality(ClaimedSlots) \in Nat
  BY <1>1, FiniteClaims, FS_Subset, FS_CardinalityType
<1>3. WithinLimit
  BY <1>2 DEF SlotsInv, Admission, WithinLimit, SlotsAssumption
<1>4. OneKind
  BY <1>1 DEF SlotsInv, Admission, OneKind
<1> QED BY <1>3, <1>4 DEF SlotsInv

\* The last revocation of the command to lock the Vault finds the others done.
LEMMA LockIsComplete ==
  ASSUME SlotsAssumption, SlotsInv, [Next]_vars,
         exclusive.at = "revoking", exclusive'.at = "idle"
  PROVE \A m \in Managers : session'[m] # "secret"
<1>1. exclusive' # exclusive
  OBVIOUS
<1>2. RevokeInline
  <2>1. ~UNCHANGED vars
    BY <1>1 DEF vars, threads
  <2>2. ~StartExclusive /\ ~LockVault /\ ~LaunchExclusive
    BY DEF StartExclusive, LockVault, LaunchExclusive, ReserveAll, Idle
  <2>3. ~EndLegacy /\ ~Unlock
    BY <1>1 DEF EndLegacy, Unlock, threads
  <2>4. \A s \in Slots : ~Admit(s) /\ ~StartUse(s) /\ ~CommandStep(s)
    BY <1>1 DEF Admit, StartUse, CommandStep, StartWatchdog, LoseWatchdog, Reject, StartLaunch,
                Launch, DropGuard, Unreserve, LockUse, Use, LookQuiet, EndCommand, Nothing
  <2>5. \A s \in Slots : ~Tick(s) /\ ~EndTick(s)
    BY <1>1 DEF Tick, EndTick, threads
  <2>6. \A p \in Publishers : ~PublisherStep(p)
    BY <1>1 DEF PublisherStep, AskVault, Look, TakeWatchdog, StorePending, TryRevoke, LoadPending,
                SwapRunning, NextLook, LookOn, Publish, NextRevocation
  <2>7. \A m \in Managers, r \in Revokers : ~RevokerStep(m, r)
    BY <1>1 DEF RevokerStep, LockRevoke, Revoke, StoreRunning, Check, RevokerAt
  <2> QED BY <2>1, <2>2, <2>3, <2>4, <2>5, <2>6, <2>7 DEF Next, ExclusiveStep
<1> DEFINE n == InlineManager(exclusive.of)
<1>3. /\ session' = Revoked(n) /\ exclusive.of \in 1..Len(Order) /\ Len(Order) \in Nat
      /\ ~(exclusive.of < Len(Order))
  BY <1>2, SlotFacts DEF RevokeInline, Do, SlotsInv, Positions
<1>4. exclusive.of = Len(Order)
  BY <1>3
<1>5. n \in Managers
  BY <1>3, SlotFacts
<1>6. /\ session'[n] # "secret"
      /\ \A m \in Managers : session'[m] = "secret" => session[m] = "secret"
  <2> HIDE DEF n
  <2> QED BY <1>3, <1>5, RevokedSettles
<1>7. ASSUME NEW m \in Managers, m \in Range(Order) PROVE session'[m] # "secret"
  <2>1. PICK i \in 1..Len(Order) : Order[i] = m
    BY <1>3, <1>7 DEF Range, SlotsAssumption
  <2> DEFINE j == IF i = Len(Order) THEN 1 ELSE i + 1
  <2>2. j \in 1..Len(Order) /\ InlineManager(j) = m
    BY <1>3, <2>1 DEF InlineManager
  <2> HIDE DEF j
  <2>3. CASE j < exclusive.of
    BY <1>6, <2>2, <2>3 DEF SlotsInv, Revoking
  <2>4. CASE j = exclusive.of
    BY <1>6, <2>2, <2>4
  <2> QED BY <1>4, <2>2, <2>3, <2>4
<1>8. ASSUME NEW m \in Managers, m \notin Range(Order) PROVE session'[m] # "secret"
  <2>1. m = Legacy
    BY <1>8 DEF SlotsAssumption, Managers
  <2> QED BY <1>6, <1>8, <2>1 DEF SlotsInv, Revoking
<1> QED BY <1>7, <1>8
=============================================================================
