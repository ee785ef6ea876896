--------------------------- MODULE WslGuestProofs ---------------------------
(***************************************************************************)
(* For any Silos, agents and leftovers: what the guest does is what the    *)
(* host was told, as long as the calls of the Silo are heard.  One agent   *)
(* holds the guest's lock at a time, a Chromium that is not lost is that   *)
(* of the active Silo, and an agent that nobody hears touches nothing but  *)
(* its own Silo, whose calls are known to be late.                         *)
(***************************************************************************)
EXTENDS WslGuest, TLAPS

Agent == [op : Ops, silo : Silos, net : Networks, at : Steps]
Holding == {"holds", "probe", "spawned", "unlinked", "emptied"}

Typed ==
  /\ WslTypeOK
  /\ agents \in [Agents -> {NoAgent} \cup Agent]
  /\ \A s \in Silos : disk.ready[s] # NoReceipt => disk.ready[s].net \in Networks

\* The agent of the call is there for it, the host's binding is what the call found or
\* left, and the Silo of every other agent is late.
CallIsServed ==
  call # NoCall =>
    /\ Live(call.agent)
    /\ agents[call.agent].op = call.op
    /\ agents[call.agent].silo = call.silo
    /\ agents[call.agent].net = call.net
    /\ call.op = "configure" => host[call.silo] = "empty"
    /\ call.op \notin {"configure", "detach"} => host[call.silo] = "bound"
UnheardIsLate == \A a \in Agents : Live(a) /\ ~Heard(a) => agents[a].silo \in ghost.late

\* The lock has one holder, which is where its operation takes it.
OneHolder ==
  \A a \in Agents :
    /\ agents[a].at \in Holding => lock = {a}
    /\ agents[a].at = "probe" => agents[a].op = "configure"
    /\ agents[a].at = "spawned" => agents[a].op = "start"
    /\ agents[a].at \in {"unlinked", "emptied"} => agents[a].op = "detach"

\* A Chromium is lost, recorded, or about to be recorded by the agent that started it.
Recorded(s) == \E b \in browser : b.silo = s /\ b.pid # Lost
BrowsersAreKnown ==
  /\ \A b \in browser : b.pid = "known" => b.silo \in disk.pid
  /\ \A b \in browser : b.pid = "new" =>
        \E a \in Agents : agents[a].at = "spawned" /\ agents[a].silo = b.silo
  /\ \A b \in browser : b.pid # Lost => disk.active = b.silo
  /\ \A a \in Agents : agents[a].at = "spawned" =>
        \A b \in browser : b.silo = agents[a].silo => b.pid # "known"
  /\ OneRecordedBrowser

\* While the calls of a Silo are heard: its evidence is of the network acknowledged last,
\* and what the guest keeps the host knows of.
Evident(s, net) == disk.ready[s] # NoReceipt => disk.ready[s].net = net
Kept(s) == s \in disk.profile \/ disk.ready[s] # NoReceipt \/ Recorded(s)
CallAt(op, s, steps) ==
  call # NoCall /\ call.op = op /\ call.silo = s /\ agents[call.agent].at \in steps
HostKnows(s) ==
  /\ host[s] = "bound" => Evident(s, ghost.acked[s])
  /\ CallAt("configure", s, {"answered"}) => Evident(s, call.net)
  /\ Kept(s) => host[s] # "absent"
  /\ CallAt("detach", s, {"unlinked", "emptied", "answered"}) => ~Kept(s)

WslInv ==
  /\ Typed /\ CallIsServed /\ UnheardIsLate /\ OneHolder /\ BrowsersAreKnown
  /\ \A s \in Silos \ ghost.late : HostKnows(s)
-----------------------------------------------------------------------------
(* What the steps of an agent have in common *)

\* An agent goes to another step, or ends when nobody hears it.
Moves(a, step) ==
  /\ agents' \in [Agents -> {NoAgent} \cup Agent]
  /\ \A b \in Agents \ {a} : agents'[b] = agents[b]
  /\ \/ ~Heard(a) /\ agents'[a] = NoAgent
     \/ /\ agents'[a] \in Agent
        /\ agents'[a].at = step
        /\ agents'[a].op = agents[a].op
        /\ agents'[a].silo = agents[a].silo
        /\ agents'[a].net = agents[a].net

\* What is in a free agent and in one that lives.
LEMMA AgentFacts ==
  ASSUME WslInv, NEW a \in Agents
  PROVE /\ ~Live(a) => agents[a] = NoAgent /\ agents[a].at = "free"
        /\ Live(a) => agents[a] \in Agent /\ agents[a].at \in Steps
        /\ "free" \notin Steps
BY DEF WslInv, Typed, Live, NoAgent, Agent, Steps

\* Goto and End move the agent.
LEMMA GotoMoves ==
  ASSUME WslInv, NEW a \in Agents, Live(a), NEW step \in Steps, Goto(a, step)
  PROVE Moves(a, step)
<1>1. agents[a] \in Agent
  BY AgentFacts
<1>2. [agents[a] EXCEPT !.at = step] \in Agent
  BY <1>1 DEF Agent
<1>3. agents \in [Agents -> {NoAgent} \cup Agent]
  BY DEF WslInv, Typed
<1> QED BY <1>1, <1>2, <1>3 DEF Moves, Goto, Agent

\* An agent that answers lets the lock go.
LEMMA EndMoves ==
  ASSUME WslInv, NEW a \in Agents, Live(a), NEW step \in Steps, End(a, step)
  PROVE Moves(a, step) /\ lock' = lock \ {a}
<1>1. CASE Heard(a)
  BY <1>1, GotoMoves DEF End
<1>2. CASE ~Heard(a)
  BY <1>2 DEF End, Free, Moves, WslInv, Typed
<1> QED BY <1>1, <1>2

\* The lock is kept by an agent that goes on with its operation, and by nobody else.
Locks(a, step) ==
  /\ step \in Holding => lock' = {a} /\ lock \in {{}, {a}}
  /\ step \notin Holding => lock' \in {lock, lock \ {a}}
  /\ step = "probe" => agents[a].op = "configure"
  /\ step = "spawned" => agents[a].op = "start"
  /\ step \in {"unlinked", "emptied"} => agents[a].op = "detach"

\* A Silo stops being late only when the one agent of it that is left is heard.
Settles(a) ==
  /\ ghost'.acked = ghost.acked
  /\ \A s \in ghost.late \ ghost'.late :
        s = agents[a].silo /\ Heard(a) /\ \A b \in Agents \ {a} : Live(b) => agents[b].silo # s

\* A step of an agent keeps what is known of the calls and of the lock.
LEMMA MovesKeep ==
  ASSUME WslInv, NEW a \in Agents, Live(a), NEW step \in Steps,
         Moves(a, step), Locks(a, step), Settles(a), UNCHANGED <<host, call>>
  PROVE CallIsServed' /\ UnheardIsLate' /\ OneHolder'
<1>1. CallIsServed'
  BY AgentFacts
     DEF WslInv, CallIsServed, Moves, Live, Heard, Agent, Steps, Typed, WslTypeOK, NoCall, Ops,
         Nothing
<1>2. UnheardIsLate'
  <2> SUFFICES ASSUME NEW b \in Agents, Live(b)', ~Heard(b)'
               PROVE agents'[b].silo \in ghost'.late
    BY DEF UnheardIsLate
  <2>1. ~Heard(b)
    BY DEF Heard, NoCall
  <2>2. CASE b = a
    BY <2>1, <2>2 DEF Moves, Live, NoAgent, WslInv, UnheardIsLate, Settles
  <2>3. CASE b # a
    BY <2>1, <2>3 DEF Moves, Live, WslInv, UnheardIsLate, Settles
  <2> QED BY <2>2, <2>3
<1>3. OneHolder'
  <2> SUFFICES ASSUME NEW b \in Agents
               PROVE /\ agents'[b].at \in Holding => lock' = {b}
                     /\ agents'[b].at = "probe" => agents'[b].op = "configure"
                     /\ agents'[b].at = "spawned" => agents'[b].op = "start"
                     /\ agents'[b].at \in {"unlinked", "emptied"} => agents'[b].op = "detach"
    BY DEF OneHolder
  <2>1. CASE b = a
    BY <2>1 DEF Moves, NoAgent, Locks, Holding
  <2>2. CASE b # a
    BY <2>2 DEF Moves, WslInv, OneHolder, Locks
  <2> QED BY <2>1, <2>2
<1> QED BY <1>1, <1>2, <1>3

\* What the guest keeps of another Silo is left alone.
Quiet(s) ==
  /\ disk'.ready[s] = disk.ready[s]
  /\ s \in disk'.profile <=> s \in disk.profile
  /\ Recorded(s)' => Recorded(s)

\* What the host knows of the other Silos stays, where their files do.
LEMMA OthersKnow ==
  ASSUME WslInv, NEW a \in Agents, Live(a), NEW step, Moves(a, step), Settles(a),
         UNCHANGED <<host, call>>,
         NEW s \in Silos \ ghost'.late, s # agents[a].silo, Quiet(s)
  PROVE HostKnows(s)'
<1>1. s \notin ghost.late /\ HostKnows(s)
  BY DEF Settles, WslInv
<1>2. ASSUME NEW op, NEW steps, CallAt(op, s, steps)' PROVE CallAt(op, s, steps)
  <2>1. call.agent # a
    BY <1>2 DEF CallAt, WslInv, CallIsServed
  <2>2. call.agent \in Agents
    BY <1>2 DEF CallAt, WslInv, Typed, WslTypeOK
  <2> QED BY <1>2, <2>1, <2>2 DEF CallAt, Moves
<1>3. Kept(s)' => Kept(s)
  BY DEF Quiet, Kept
<1>4. ghost'.acked = ghost.acked
  BY DEF Settles
<1>5. /\ (host[s] = "bound" => Evident(s, ghost.acked[s]))'
      /\ (Kept(s) => host[s] # "absent")'
  BY <1>1, <1>3, <1>4 DEF HostKnows, Evident, Quiet
<1>6. (CallAt("configure", s, {"answered"}) => Evident(s, call.net))'
  BY <1>1, <1>2 DEF HostKnows, Evident, Quiet
<1>7. ~Kept(s) => ~Kept(s)'
  BY <1>3
<1>8. (CallAt("detach", s, {"unlinked", "emptied", "answered"}) => ~Kept(s))'
  BY <1>1, <1>2, <1>3 DEF HostKnows
<1> QED BY <1>5, <1>6, <1>8 DEF HostKnows

\* A heard agent is that of the call.
LEMMA HeardFacts ==
  ASSUME WslInv, NEW a \in Agents, Live(a), agents[a].silo \notin ghost.late
  PROVE /\ Heard(a) /\ call # NoCall /\ call.agent = a
        /\ call.op = agents[a].op /\ call.silo = agents[a].silo /\ call.net = agents[a].net
<1>1. Heard(a)
  BY DEF WslInv, UnheardIsLate
<1> QED BY <1>1 DEF WslInv, CallIsServed, Heard

\* While an agent holds the lock and has started nothing, every Chromium is lost or recorded.
LEMMA NoneIsNew ==
  ASSUME WslInv, NEW a \in Agents, agents[a].at \in {"holds", "probe", "unlinked", "emptied"}
  PROVE /\ lock = {a} /\ Live(a)
        /\ \A b \in browser : b.pid # "new"
        /\ \A s : ~ReadOwnedPid(s) => ~Recorded(s)
<1>1. lock = {a} /\ Live(a)
  BY DEF WslInv, OneHolder, Holding, Live
<1>2. \A b \in browser : b.pid # "new"
  <2> SUFFICES ASSUME NEW b \in browser, b.pid = "new" PROVE FALSE
    OBVIOUS
  <2>1. PICK c \in Agents : agents[c].at = "spawned"
    BY DEF WslInv, BrowsersAreKnown
  <2>2. lock = {c}
    BY <2>1 DEF WslInv, OneHolder, Holding
  <2> QED BY <1>1, <2>1, <2>2
<1>3. \A b \in browser : b.pid \in {"new", "known", Lost}
  BY DEF WslInv, Typed, WslTypeOK, Chromium
<1>4. \A b \in browser : b.pid # Lost => b.pid = "known" /\ b.silo \in disk.pid
  BY <1>2, <1>3 DEF WslInv, BrowsersAreKnown
<1> QED BY <1>1, <1>2, <1>4 DEF ReadOwnedPid, Recorded

\* The Chromiums stay as they are.
LEMMA SameBrowsers ==
  ASSUME WslInv, NEW a \in Agents, NEW step, Moves(a, step), step # "spawned",
         agents[a].at # "spawned", browser' = browser,
         \A b \in browser : b.pid = "known" => b.silo \in disk'.pid,
         \A b \in browser : b.pid # Lost => disk'.active = b.silo
  PROVE BrowsersAreKnown'
<1>1. \A b \in browser : b.pid = "new" =>
        \E c \in Agents : agents'[c].at = "spawned" /\ agents'[c].silo = b.silo
  BY DEF WslInv, BrowsersAreKnown, Moves
<1>2. \A c \in Agents : agents'[c].at = "spawned" =>
         agents[c].at = "spawned" /\ agents'[c].silo = agents[c].silo
  BY DEF Moves, NoAgent
<1>3. \A c \in Agents : agents'[c].at = "spawned" =>
         \A b \in browser : b.silo = agents'[c].silo => b.pid # "known"
  BY <1>2 DEF WslInv, BrowsersAreKnown
<1>4. OneRecordedBrowser'
  BY DEF WslInv, BrowsersAreKnown, OneRecordedBrowser
<1> QED BY <1>1, <1>3, <1>4 DEF BrowsersAreKnown

\* A step of an agent keeps the invariant when it leaves the other Silos alone.
LEMMA AgentKeeps ==
  ASSUME WslInv, NEW a \in Agents, Live(a), NEW step \in Steps,
         Moves(a, step), Locks(a, step), Settles(a), UNCHANGED <<host, call>>,
         Typed', BrowsersAreKnown',
         \A s \in Silos \ {agents[a].silo} : Quiet(s),
         \A s \in Silos \ ghost'.late : s = agents[a].silo => HostKnows(s)'
  PROVE WslInv'
<1>1. CallIsServed' /\ UnheardIsLate' /\ OneHolder'
  BY MovesKeep
<1>2. \A s \in Silos \ ghost'.late : HostKnows(s)'
  <2> SUFFICES ASSUME NEW s \in Silos \ ghost'.late PROVE HostKnows(s)'
    OBVIOUS
  <2>1. CASE s = agents[a].silo
    BY <2>1
  <2>2. CASE s # agents[a].silo
    <3>1. Quiet(s)
      BY <2>2
    <3> QED BY <2>2, <3>1, OthersKnow
  <2> QED BY <2>1, <2>2
<1> QED BY <1>1, <1>2 DEF WslInv

-----------------------------------------------------------------------------
(* The guest's files *)

Disk == [bound : Silos \cup {Nothing}, active : Silos \cup {Nothing},
         dir : SUBSET Silos, profile : SUBSET Silos, pid : SUBSET Silos,
         residue : SUBSET Silos, ready : [Silos -> Receipt]]

\* What the guest holds, and every receipt is of a network.
OfGuest(d) == d \in Disk /\ \A s \in Silos : d.ready[s] # NoReceipt => d.ready[s].net \in Networks

\* The files of the guest are those of its Silos.
LEMMA DiskIsOfGuest == ASSUME WslInv PROVE OfGuest(disk)
BY DEF WslInv, Typed, WslTypeOK, OfGuest, Disk

\* The types, after a step of an agent.
LEMMA TypedKeeps ==
  ASSUME WslInv, NEW a \in Agents, NEW step, Moves(a, step), Settles(a),
         ghost' \in [acked : [Silos -> Networks \cup {Nothing}], late : SUBSET Silos],
         UNCHANGED <<host, call>>, lock' \subseteq Agents, OfGuest(disk'), browser' \subseteq Chromium
  PROVE Typed'
<1>1. \A b \in Agents : Live(b)' => agents'[b] \in Agent
  BY DEF Moves, Live, NoAgent
<1>2. WslTypeOK'
  BY <1>1 DEF WslTypeOK, WslInv, Typed, OfGuest, Disk, Agent
<1> QED BY <1>2 DEF Typed, Moves, OfGuest

\* Agents hold the lock.
LEMMA LocksType ==
  ASSUME WslInv, NEW a \in Agents, NEW step, Locks(a, step)
  PROVE lock' \subseteq Agents
<1>1. lock \subseteq Agents
  BY DEF WslInv, Typed, WslTypeOK
<1> QED BY <1>1 DEF Locks

\* Its own Silo, when the evidence is left or revoked and nothing new is kept but by a start.
LEMMA OwnKnows ==
  ASSUME WslInv, NEW a \in Agents, Live(a), NEW step, Moves(a, step), UNCHANGED <<host, call>>,
         NEW s \in Silos \ ghost.late, s = agents[a].silo, ghost'.acked = ghost.acked,
         disk'.ready[s] \in {disk.ready[s], NoReceipt},
         Kept(s)' => Kept(s) \/ agents[a].op \notin {"configure", "detach"},
         step \notin {"unlinked", "emptied", "answered"} \/ agents[a].op \notin {"configure", "detach"}
  PROVE HostKnows(s)'
<1>1. HostKnows(s)
  BY DEF WslInv
<1>2. Heard(a) /\ call # NoCall /\ call.agent = a /\ call.op = agents[a].op
  BY HeardFacts
<1>3. agents'[a].at = step
  BY <1>2 DEF Moves
<1>4. agents[a].op \notin {"configure", "detach"} => host[s] = "bound"
  BY <1>2 DEF WslInv, CallIsServed
<1>5. /\ ~CallAt("configure", s, {"answered"})'
      /\ ~CallAt("detach", s, {"unlinked", "emptied", "answered"})'
  BY <1>2, <1>3 DEF CallAt
<1>6. \A net : Evident(s, net) => Evident(s, net)'
  BY DEF Evident
<1>7. (host[s] = "bound" => Evident(s, ghost.acked[s]))'
  BY <1>1, <1>6 DEF HostKnows
<1>8. (Kept(s) => host[s] # "absent")'
  BY <1>1, <1>4 DEF HostKnows
<1> QED BY <1>5, <1>7, <1>8 DEF HostKnows

\* What a step leaves of the files: another Silo's are not touched, evidence is at most
\* revoked, only a start makes a profile, and a Chromium that runs is still known.
Tidy(a) ==
  LET s == agents[a].silo IN
  /\ OfGuest(disk')
  /\ \A t \in Silos \ {s} : /\ disk'.ready[t] = disk.ready[t]
                            /\ t \in disk'.profile <=> t \in disk.profile
  /\ disk'.ready[s] \in {disk.ready[s], NoReceipt}
  /\ disk'.profile \subseteq disk.profile \/ agents[a].op = "start"

\* A step of an agent that acknowledges nothing, whatever it does to the Chromium of its Silo.
LEMMA BrowserStep ==
  ASSUME WslInv, NEW a \in Agents, Live(a), NEW step \in Steps, Moves(a, step), Locks(a, step),
         UNCHANGED <<host, call, ghost>>, Tidy(a), browser' \subseteq Chromium, BrowsersAreKnown',
         \A b \in browser' : b.pid # Lost /\ b.silo # agents[a].silo => b \in browser,
         Recorded(agents[a].silo) \/ agents[a].op = "start"
           \/ \A b \in browser' : b.silo = agents[a].silo => b.pid = Lost,
         step \notin {"unlinked", "emptied", "answered"} \/ agents[a].op \notin {"configure", "detach"}
  PROVE WslInv'
<1> DEFINE own == agents[a].silo
<1>1. Settles(a)
  BY DEF Settles
<1>2. ghost' \in [acked : [Silos -> Networks \cup {Nothing}], late : SUBSET Silos]
  BY DEF WslInv, Typed, WslTypeOK
<1>3. OfGuest(disk')
  BY DEF Tidy
<1>4. Typed'
  BY <1>1, <1>2, <1>3, LocksType, TypedKeeps
<1>5. \A s \in Silos \ {agents[a].silo} : Quiet(s)
  <2> SUFFICES ASSUME NEW s \in Silos, s # own PROVE Quiet(s)
    OBVIOUS
  <2>1. Recorded(s)' => Recorded(s)
    BY DEF Recorded
  <2> QED BY <2>1 DEF Quiet, Tidy
<1>6. ASSUME NEW s \in Silos \ ghost'.late, s = own PROVE HostKnows(s)'
  <2>1. disk'.ready[s] \in {disk.ready[s], NoReceipt}
    BY <1>6 DEF Tidy
  <2>2. Recorded(s)' => Recorded(s) \/ agents[a].op = "start"
    BY <1>6 DEF Recorded
  <2>3. s \in disk'.profile => s \in disk.profile \/ agents[a].op = "start"
    BY <1>6 DEF Tidy
  <2>4. Kept(s)' => Kept(s) \/ agents[a].op \notin {"configure", "detach"}
    BY <2>1, <2>2, <2>3 DEF Kept
  <2>5. s \in Silos \ ghost.late /\ ghost'.acked = ghost.acked
    OBVIOUS
  <2> QED BY <1>6, <2>1, <2>4, <2>5, OwnKnows
<1> QED BY <1>1, <1>4, <1>5, <1>6, AgentKeeps

\* The Chromiums stay known to the files.
Knows == /\ \A b \in browser : b.pid = "known" => b.silo \in disk'.pid
         /\ \A b \in browser : b.pid # Lost => disk'.active = b.silo

\* A step that leaves the Chromiums and what was acknowledged as they are.
LEMMA QuietStep ==
  ASSUME WslInv, NEW a \in Agents, Live(a), NEW step \in Steps \ {"spawned"},
         Moves(a, step), Locks(a, step), agents[a].at # "spawned",
         UNCHANGED <<host, call, browser, ghost>>, Tidy(a), Knows,
         step \notin {"unlinked", "emptied", "answered"} \/ agents[a].op \notin {"configure", "detach"}
  PROVE WslInv'
<1>1. browser' \subseteq Chromium
  BY DEF WslInv, Typed, WslTypeOK
<1>2. BrowsersAreKnown'
  BY SameBrowsers DEF Knows
<1>3. \/ Recorded(agents[a].silo)
      \/ \A b \in browser' : b.silo = agents[a].silo => b.pid = Lost
  BY DEF Recorded
<1> QED BY <1>1, <1>2, <1>3, BrowserStep

\* The files that matter stay.
LEMMA SameFiles ==
  ASSUME WslInv, NEW a, disk' \in Disk, disk'.ready = disk.ready,
         disk'.profile = disk.profile, disk'.pid = disk.pid, disk'.active = disk.active
  PROVE Tidy(a) /\ Knows
<1>1. OfGuest(disk)
  BY DiskIsOfGuest
<1> QED BY <1>1 DEF Tidy, OfGuest, Knows, WslInv, BrowsersAreKnown

\* An agent that answers, but not a new network, or refuses.
LEMMA EndKeeps ==
  ASSUME WslInv, NEW a \in Agents, Live(a), agents[a].at # "spawned",
         NEW verdict \in {"answered", "refused"}, End(a, verdict),
         verdict = "refused" \/ agents[a].op \notin {"configure", "detach"},
         UNCHANGED <<host, call, browser, ghost>>, Tidy(a), Knows
  PROVE WslInv'
<1>1. verdict \in Steps \ {"spawned"}
  BY DEF Steps
<1>2. Moves(a, verdict) /\ lock' = lock \ {a}
  BY <1>1, EndMoves
<1>3. Locks(a, verdict)
  BY <1>2 DEF Locks, Holding
<1> QED BY <1>1, <1>2, <1>3, QuietStep

\* An agent begins, and waits for the lock.
LEMMA ArriveKeeps == ASSUME WslInv, NEW a \in Agents, Arrive(a) PROVE WslInv'
<1>1. /\ Live(a) /\ agents[a].at = "arriving" /\ agents[a].silo \in Silos
      /\ Goto(a, "waiting") /\ UNCHANGED <<host, call, browser, ghost, lock>>
      /\ disk' = [disk EXCEPT !.dir = @ \cup {agents[a].silo}]
  BY AgentFacts DEF Arrive, At, Agent
<1>2. Moves(a, "waiting") /\ "waiting" \in Steps \ {"spawned"}
  BY <1>1, GotoMoves DEF Steps
<1>3. Locks(a, "waiting")
  BY <1>1 DEF Locks, Holding
<1>4. disk' \in Disk /\ disk'.ready = disk.ready /\ disk'.profile = disk.profile
      /\ disk'.pid = disk.pid /\ disk'.active = disk.active
  BY <1>1, DiskIsOfGuest DEF OfGuest, Disk
<1> QED BY <1>1, <1>2, <1>3, <1>4, SameFiles, QuietStep

\* An agent has the lock, and the distribution is bound to its Silo or refused.
LEMMA BindSingleSiloKeeps == ASSUME WslInv, NEW a \in Agents, BindSingleSilo(a) PROVE WslInv'
<1>1. /\ Live(a) /\ agents[a].at = "waiting" /\ agents[a].silo \in Silos
      /\ UNCHANGED <<host, call, browser, ghost>> /\ lock = {}
  BY AgentFacts DEF BindSingleSilo, At, Agent, LockIsFree
<1>2. CASE disk' = [disk EXCEPT !.bound = agents[a].silo] /\ lock' = {a} /\ Goto(a, "holds")
  <2>1. Moves(a, "holds") /\ "holds" \in Steps \ {"spawned"}
    BY <1>1, <1>2, GotoMoves DEF Steps
  <2>2. Locks(a, "holds")
    BY <1>1, <1>2 DEF Locks, Holding
  <2>3. disk' \in Disk /\ disk'.ready = disk.ready /\ disk'.profile = disk.profile
        /\ disk'.pid = disk.pid /\ disk'.active = disk.active
    BY <1>1, <1>2, DiskIsOfGuest DEF OfGuest, Disk
  <2> QED BY <1>1, <2>1, <2>2, <2>3, SameFiles, QuietStep
<1>3. CASE Fail(a) /\ UNCHANGED disk
  <2>1. Tidy(a) /\ Knows
    BY <1>3, DiskIsOfGuest, SameFiles DEF OfGuest
  <2> QED BY <1>1, <1>3, <2>1, EndKeeps DEF Fail
<1> QED BY <1>2, <1>3 DEF BindSingleSilo

-----------------------------------------------------------------------------
(* What the agent does with the lock *)

\* What a holder of the lock knows of itself and of the Chromium of its Silo.
LEMMA HolderFacts ==
  ASSUME WslInv, NEW a \in Agents, agents[a].at \in Holding
  PROVE /\ Live(a) /\ agents[a] \in Agent /\ agents[a].silo \in Silos /\ lock = {a}
        /\ \A c \in Agents \ {a} : agents[c].at \notin Holding
<1>1. Live(a)
  BY DEF Live, Holding
<1>2. lock = {a}
  BY DEF WslInv, OneHolder
<1>3. ASSUME NEW c \in Agents \ {a} PROVE agents[c].at \notin Holding
  BY <1>2 DEF WslInv, OneHolder
<1> QED BY <1>1, <1>2, <1>3, AgentFacts DEF Agent

\* The evidence goes, and with it the record of a Chromium that ended.
LEMMA RevokedFiles ==
  ASSUME WslInv, NEW a \in Agents, agents[a].at \in {"holds", "probe"},
         NEW d, d = disk \/ d = Swept(agents[a].silo),
         disk' = [d EXCEPT !.ready[agents[a].silo] = NoReceipt]
  PROVE Tidy(a) /\ Knows
<1> DEFINE s == agents[a].silo
<1>1. s \in Silos /\ OfGuest(disk)
  BY HolderFacts, DiskIsOfGuest DEF Holding
<1>2. /\ d \in Disk /\ d.ready = disk.ready /\ d.profile = disk.profile /\ d.active = disk.active
      /\ (d.pid = disk.pid \/ (d.pid = disk.pid \ {s} /\ ~ReadOwnedPid(s)))
  BY <1>1 DEF Swept, OfGuest, Disk
<1>3. NoReceipt \in Receipt
  BY DEF NoReceipt, Receipt
<1>4. /\ disk' \in Disk /\ disk'.ready = [disk.ready EXCEPT ![s] = NoReceipt]
      /\ disk'.profile = disk.profile /\ disk'.active = disk.active /\ disk'.pid = d.pid
  BY <1>1, <1>2, <1>3 DEF Disk
<1>5. OfGuest(disk')
  BY <1>1, <1>4 DEF OfGuest, Disk
<1>6. ~ReadOwnedPid(s) => \A b \in browser : b.silo = s => b.pid = Lost
  BY NoneIsNew DEF Recorded
<1>7. Knows
  BY <1>2, <1>4, <1>6 DEF Knows, WslInv, BrowsersAreKnown, Lost
<1> QED BY <1>1, <1>4, <1>5, <1>7 DEF Tidy, OfGuest, Disk

\* Of an agent that the Silo's calls may forget, the Silo is no longer late.
LEMMA SettleFacts ==
  ASSUME WslInv, NEW a \in Agents, Live(a), Settle(a, agents[a].silo)
  PROVE /\ Settles(a)
        /\ ghost' \in [acked : [Silos -> Networks \cup {Nothing}], late : SUBSET Silos]
        /\ agents[a].silo \notin ghost'.late => Heard(a)
<1>1. ghost \in [acked : [Silos -> Networks \cup {Nothing}], late : SUBSET Silos]
  BY DEF WslInv, Typed, WslTypeOK
<1>2. \/ /\ Heard(a) /\ \A b \in Agents \ {a} : Live(b) => agents[b].silo # agents[a].silo
         /\ ghost' = [ghost EXCEPT !.late = ghost.late \ {agents[a].silo}]
      \/ ghost' = ghost
  BY <1>1 DEF Settle
<1>3. agents[a].silo \notin ghost.late => Heard(a)
  BY HeardFacts
<1> QED BY <1>1, <1>2, <1>3 DEF Settles

\* A configuration revokes the evidence of the network before it.
LEMMA GuestConfigureKeeps == ASSUME WslInv, NEW a \in Agents, GuestConfigure(a) PROVE WslInv'
<1> DEFINE own == agents[a].silo
<1>1. /\ agents[a].at = "holds" /\ agents[a].op = "configure" /\ UNCHANGED <<host, call, browser>>
      /\ Live(a) /\ lock = {a} /\ own \in Silos
  BY HolderFacts DEF GuestConfigure, At, Holding
<1>2. CASE Fail(a) /\ UNCHANGED <<disk, ghost>>
  <2>1. Tidy(a) /\ Knows
    BY <1>2, DiskIsOfGuest, SameFiles DEF OfGuest
  <2> QED BY <1>1, <1>2, <2>1, EndKeeps DEF Fail
<1>3. CASE /\ RevokeNetworkAuthorization(own) /\ Settle(a, own)
           /\ Goto(a, "probe") /\ UNCHANGED lock
  <2>1. Moves(a, "probe") /\ "probe" \in Steps
    BY <1>1, <1>3, GotoMoves DEF Steps
  <2>2. Locks(a, "probe")
    BY <1>1, <1>3 DEF Locks, Holding
  <2>3. Tidy(a) /\ Knows
    BY <1>1, <1>3, RevokedFiles DEF RevokeNetworkAuthorization
  <2>4. /\ Settles(a)
        /\ own \notin ghost'.late => Heard(a)
        /\ ghost' \in [acked : [Silos -> Networks \cup {Nothing}], late : SUBSET Silos]
    BY <1>1, <1>3, SettleFacts
  <2>5. OfGuest(disk') /\ browser' \subseteq Chromium
    BY <1>1, <2>3 DEF Tidy, WslInv, Typed, WslTypeOK
  <2>6. Typed'
    BY <1>1, <2>1, <2>2, <2>4, <2>5, LocksType, TypedKeeps
  <2>7. BrowsersAreKnown'
    BY <1>1, <2>1, <2>3, SameBrowsers DEF Knows
  <2>8. \A s \in Silos \ {agents[a].silo} : Quiet(s)
    BY <1>1, <2>3 DEF Quiet, Tidy, Recorded
  <2>9. ASSUME NEW s \in Silos \ ghost'.late, s = own PROVE HostKnows(s)'
    <3>1. call # NoCall /\ call.agent = a /\ call.op = "configure" /\ host[s] = "empty"
      BY <1>1, <2>4, <2>9 DEF Heard, WslInv, CallIsServed
    <3>2. agents'[a].at = "probe"
      BY <2>1, <2>4, <2>9 DEF Moves
    <3> QED BY <1>1, <3>1, <3>2 DEF HostKnows, CallAt
  <2> QED BY <1>1, <2>1, <2>2, <2>4, <2>6, <2>7, <2>8, <2>9, AgentKeeps
<1> QED BY <1>2, <1>3 DEF GuestConfigure

\* A configuration that probed the network leaves evidence of it.
LEMMA GuestProbeKeeps == ASSUME WslInv, NEW a \in Agents, GuestProbe(a) PROVE WslInv'
<1> DEFINE own == agents[a].silo
<1>1. /\ agents[a].at = "probe" /\ agents[a].op = "configure"
      /\ UNCHANGED <<host, call, browser, ghost>>
      /\ Live(a) /\ lock = {a} /\ own \in Silos /\ agents[a].net \in Networks
  BY HolderFacts DEF GuestProbe, At, Holding, WslInv, OneHolder, Agent
<1>2. CASE RevokeNetworkAuthorization(own) /\ Fail(a)
  <2>1. Tidy(a) /\ Knows
    BY <1>1, <1>2, RevokedFiles DEF RevokeNetworkAuthorization
  <2> QED BY <1>1, <1>2, <2>1, EndKeeps DEF Fail
<1>3. CASE /\ disk' = [disk EXCEPT !.ready[own] = [net |-> agents[a].net, fresh |-> TRUE]]
           /\ Answer(a)
  <2>1. Moves(a, "answered") /\ lock' = lock \ {a} /\ "answered" \in Steps
    BY <1>1, <1>3, EndMoves DEF Steps, Answer
  <2>2. Locks(a, "answered")
    BY <2>1 DEF Locks, Holding
  <2>3. Settles(a) /\ browser' \subseteq Chromium
        /\ ghost' \in [acked : [Silos -> Networks \cup {Nothing}], late : SUBSET Silos]
    BY <1>1 DEF Settles, WslInv, Typed, WslTypeOK
  <2>4. [net |-> agents[a].net, fresh |-> TRUE] \in Receipt
    BY <1>1 DEF Receipt
  <2>5. /\ disk' \in Disk
        /\ disk'.ready = [disk.ready EXCEPT ![own] = [net |-> agents[a].net, fresh |-> TRUE]]
        /\ disk'.profile = disk.profile /\ disk'.active = disk.active /\ disk'.pid = disk.pid
    BY <1>1, <1>3, <2>4, DiskIsOfGuest DEF OfGuest, Disk
  <2>6. OfGuest(disk')
    BY <1>1, <2>5, DiskIsOfGuest DEF OfGuest, Disk
  <2>7. Typed'
    BY <1>1, <2>1, <2>2, <2>3, <2>6, LocksType, TypedKeeps
  <2>8. BrowsersAreKnown'
    BY <1>1, <2>1, <2>5, SameBrowsers DEF WslInv, BrowsersAreKnown
  <2>9. \A s \in Silos \ {agents[a].silo} : Quiet(s)
    BY <1>1, <2>5, DiskIsOfGuest DEF Quiet, Recorded, OfGuest, Disk
  <2>10. ASSUME NEW s \in Silos \ ghost'.late, s = own PROVE HostKnows(s)'
    <3>1. call.op = "configure" /\ call.net = agents[a].net /\ host[s] = "empty"
      BY <1>1, <2>10, HeardFacts DEF WslInv, CallIsServed
    <3>2. disk'.ready[s].net = agents[a].net
      BY <1>1, <2>5, <2>10, DiskIsOfGuest DEF OfGuest, Disk
    <3> QED BY <1>1, <3>1, <3>2 DEF HostKnows, CallAt, Evident
  <2> QED BY <1>1, <2>1, <2>2, <2>3, <2>7, <2>8, <2>9, <2>10, AgentKeeps
<1> QED BY <1>2, <1>3 DEF GuestProbe

-----------------------------------------------------------------------------
(* Chromium *)

\* Made of the guest's files before a Chromium starts: the profile, and no record of one that ended.
LEMMA MadeFacts ==
  ASSUME WslInv, NEW a \in Agents, agents[a].at = "holds", agents[a].op = "start",
         NEW made, made = [Swept(agents[a].silo) EXCEPT !.profile = @ \cup {agents[a].silo}],
         disk' = made \/ disk' = [made EXCEPT !.active = agents[a].silo]
  PROVE /\ Tidy(a)
        /\ \A b \in browser : b.pid = "known" => b.silo \in disk'.pid
        /\ disk' = made => disk'.active = disk.active
        /\ disk' # made => disk'.active = agents[a].silo
<1> DEFINE s == agents[a].silo
<1>1. s \in Silos /\ OfGuest(disk)
  BY HolderFacts, DiskIsOfGuest DEF Holding
<1>2. /\ made \in Disk /\ made.ready = disk.ready /\ made.profile = disk.profile \cup {s}
      /\ made.active = disk.active
      /\ (made.pid = disk.pid \/ (made.pid = disk.pid \ {s} /\ ~ReadOwnedPid(s)))
  BY <1>1 DEF Swept, OfGuest, Disk
<1>3. /\ disk' \in Disk /\ disk'.ready = disk.ready /\ disk'.profile = disk.profile \cup {s}
      /\ disk'.pid = made.pid
      /\ disk'.active \in {disk.active, s}
      /\ disk' = made => disk'.active = disk.active
      /\ disk' # made => disk'.active = s
  BY <1>1, <1>2 DEF Disk
<1>4. ~ReadOwnedPid(s) => \A b \in browser : b.silo = s => b.pid = Lost
  BY NoneIsNew DEF Recorded
<1>5. \A b \in browser : b.pid = "known" => b.silo \in disk'.pid
  BY <1>2, <1>3, <1>4 DEF WslInv, BrowsersAreKnown, Lost
<1>6. OfGuest(disk')
  BY <1>1, <1>3 DEF OfGuest
<1> QED BY <1>1, <1>3, <1>5, <1>6 DEF Tidy

\* After a step of the lock's holder no agent is about to record a Chromium.
LEMMA NoneStarting ==
  ASSUME WslInv, NEW a \in Agents, agents[a].at \in Holding, NEW step, step # "spawned",
         Moves(a, step), OneRecordedBrowser',
         \A b \in browser' : b.pid # "new",
         \A b \in browser' : b.pid = "known" => b.silo \in disk'.pid,
         \A b \in browser' : b.pid # Lost => disk'.active = b.silo
  PROVE BrowsersAreKnown'
<1>1. \A c \in Agents : agents'[c].at # "spawned"
  BY HolderFacts DEF Moves, NoAgent, Holding
<1> QED BY <1>1 DEF BrowsersAreKnown

\* The active Silo is claimed only when every Chromium of another is lost.
LEMMA ClaimFacts ==
  ASSUME WslGuestAssumption, WslInv, NEW a \in Agents, agents[a].at = "holds",
         ClaimActiveSilo(agents[a].silo)
  PROVE \A b \in browser : b.pid # Lost => b.silo = agents[a].silo
<1> SUFFICES ASSUME NEW b \in browser, b.pid # Lost, b.silo # agents[a].silo PROVE FALSE
  OBVIOUS
<1>1. disk.active = b.silo /\ b.silo \in Silos
  BY DEF WslInv, BrowsersAreKnown, Typed, WslTypeOK, Chromium
<1>2. ~ReadOwnedPid(b.silo)
  BY <1>1 DEF ClaimActiveSilo, WslGuestAssumption
<1>3. ~Recorded(b.silo)
  BY <1>2, NoneIsNew
<1> QED BY <1>3 DEF Recorded

\* A Chromium of the active Silo, of which no other runs, is about to be recorded.
LEMMA SpawnKeeps ==
  ASSUME WslInv, NEW a \in Agents, agents[a].at = "holds", agents[a].op = "start",
         Goto(a, "spawned"), UNCHANGED <<host, call, ghost, lock>>,
         Tidy(a), disk'.active = agents[a].silo, \A b \in browser : b.pid = Lost,
         NEW n \in Chromium, n.silo = agents[a].silo, n.pid = "new", browser' = browser \cup {n}
  PROVE WslInv'
<1>1. Live(a) /\ lock = {a} /\ agents[a] \in Agent
  BY HolderFacts DEF Holding
<1>2. Moves(a, "spawned") /\ "spawned" \in Steps
  BY <1>1, GotoMoves DEF Steps
<1>3. Locks(a, "spawned")
  BY <1>1 DEF Locks, Holding
<1>4. browser' \subseteq Chromium
  BY DEF WslInv, Typed, WslTypeOK
<1>5. agents'[a].at = "spawned" /\ agents'[a].silo = agents[a].silo
  BY <1>1 DEF Goto, WslInv, Typed, Agent
<1>6. \A c \in Agents : agents'[c].at = "spawned" => c = a
  BY <1>2, HolderFacts DEF Moves, Holding
<1>7. BrowsersAreKnown'
  BY <1>5, <1>6 DEF BrowsersAreKnown, OneRecordedBrowser, Lost
<1> QED BY <1>1, <1>2, <1>3, <1>4, <1>7, BrowserStep

\* A start sweeps what is stale and runs a Chromium, or refuses.
LEMMA StartBrowserKeeps ==
  ASSUME WslGuestAssumption, WslInv, NEW a \in Agents, StartBrowser(a)
  PROVE WslInv'
<1> DEFINE s == agents[a].silo
           Made == [Swept(s) EXCEPT !.profile = @ \cup {s}]
<1>1. /\ agents[a].at = "holds" /\ agents[a].op = "start" /\ UNCHANGED <<host, call, ghost>>
      /\ Live(a) /\ lock = {a} /\ s \in Silos
  BY HolderFacts DEF StartBrowser, At, Holding
<1>2. CASE RevokedOrStale(s) /\ Fail(a) /\ UNCHANGED browser
  <2>1. Tidy(a) /\ Knows
    BY <1>1, <1>2, RevokedFiles DEF RevokedOrStale
  <2> QED BY <1>1, <1>2, <2>1, EndKeeps DEF Fail
<1>3. CASE ~ClaimActiveSilo(s) /\ disk' = Made /\ Fail(a) /\ UNCHANGED browser
  <2>1. Tidy(a) /\ Knows
    BY <1>1, <1>3, MadeFacts DEF Knows, WslInv, BrowsersAreKnown
  <2> QED BY <1>1, <1>3, <2>1, EndKeeps DEF Fail
<1>4. CASE /\ Refresh(s) /\ ClaimActiveSilo(s) /\ disk' = [Made EXCEPT !.active = s]
           /\ \/ ReadOwnedPid(s) /\ Answer(a) /\ UNCHANGED browser
              \/ /\ ~ReadOwnedPid(s)
                 /\ \E k \in Inherits : browser' = browser \cup
                      {[silo |-> s, net |-> disk.ready[s].net, pid |-> "new", keeps |-> k]}
                 /\ Goto(a, "spawned") /\ UNCHANGED lock
  <2>1. /\ Tidy(a)
        /\ \A b \in browser : b.pid = "known" => b.silo \in disk'.pid
        /\ disk' # Made => disk'.active = s
        /\ disk' = Made => disk'.active = disk.active
    BY <1>1, <1>4, MadeFacts
  <2>2. disk'.active = s
    <3>1. Swept(s) \in Disk
      BY <1>1, DiskIsOfGuest DEF Swept, OfGuest, Disk
    <3>2. Made \in Disk
      BY <1>1, <3>1 DEF Disk
    <3> HIDE DEF Made
    <3> QED BY <1>1, <1>4, <3>2 DEF Disk
  <2>3. \A b \in browser : b.pid # Lost => b.silo = s
    BY <1>1, <1>4, ClaimFacts
  <2>4. CASE ReadOwnedPid(s) /\ Answer(a) /\ UNCHANGED browser
    <3>1. Knows
      BY <2>1, <2>2, <2>3 DEF Knows
    <3> QED BY <1>1, <2>1, <2>4, <3>1, EndKeeps DEF Answer
  <2>5. CASE /\ ~ReadOwnedPid(s)
             /\ \E k \in Inherits : browser' = browser \cup
                  {[silo |-> s, net |-> disk.ready[s].net, pid |-> "new", keeps |-> k]}
             /\ Goto(a, "spawned") /\ UNCHANGED lock
    <3>1. \A b \in browser : b.pid = Lost
      BY <1>1, <2>3, <2>5, NoneIsNew DEF Recorded
    <3>2. PICK k \in BOOLEAN : browser' = browser \cup
            {[silo |-> s, net |-> disk.ready[s].net, pid |-> "new", keeps |-> k]}
      BY <2>5 DEF WslGuestAssumption
    <3>3. disk.ready[s].net \in Networks
      BY <1>1, <1>4, DiskIsOfGuest DEF Refresh, OfGuest
    <3> DEFINE n == [silo |-> s, net |-> disk.ready[s].net, pid |-> "new", keeps |-> k]
    <3>4. n \in Chromium /\ n.silo = s /\ n.pid = "new"
      BY <1>1, <3>3 DEF Chromium
    <3> QED BY <1>1, <2>1, <2>2, <2>5, <3>1, <3>2, <3>4, SpawnKeeps
  <2> QED BY <1>4, <2>4, <2>5
<1> QED BY <1>2, <1>3, <1>4 DEF StartBrowser

\* The record of the Silo's Chromium is dropped when it has none.
LEMMA GoneFacts ==
  ASSUME WslInv, NEW a \in Agents, agents[a].at \in Holding, NEW d \in Disk,
         OfGuest(d), d.ready = disk.ready, d.profile = disk.profile, d.active = disk.active,
         d.pid = disk.pid \ {agents[a].silo},
         disk' = ReleaseActiveSilo(agents[a].silo, d)
  PROVE /\ Tidy(a)
        /\ \A b \in browser : b.silo # agents[a].silo =>
              /\ b.pid = "known" => b.silo \in disk'.pid
              /\ b.pid # Lost => disk'.active = b.silo
<1>1. /\ disk' \in Disk /\ disk'.ready = d.ready /\ disk'.profile = d.profile /\ disk'.pid = d.pid
      /\ disk'.active = IF d.active = agents[a].silo THEN Nothing ELSE d.active
  BY DEF ReleaseActiveSilo, Disk
<1>2. Tidy(a)
  BY <1>1 DEF Tidy, OfGuest
<1> QED BY <1>1, <1>2 DEF WslInv, BrowsersAreKnown

\* What changes of the Chromiums of the Silo alone.
LEMMA OwnBrowsers ==
  ASSUME WslInv, NEW a \in Agents, agents[a].at \in Holding, Live(a),
         NEW step \in Steps \ {"spawned"}, Moves(a, step), Locks(a, step),
         UNCHANGED <<host, call, ghost>>, Tidy(a), browser' \subseteq Chromium,
         OneRecordedBrowser',
         \A b \in browser' : b.pid # "new",
         \A b \in browser' : b.pid = "known" => b.silo \in disk'.pid,
         \A b \in browser' : b.pid # Lost => disk'.active = b.silo,
         \A b \in browser' : b.pid # Lost /\ b.silo # agents[a].silo => b \in browser,
         Recorded(agents[a].silo) \/ agents[a].op = "start"
           \/ \A b \in browser' : b.silo = agents[a].silo => b.pid = Lost,
         step \notin {"unlinked", "emptied", "answered"} \/ agents[a].op \notin {"configure", "detach"}
  PROVE WslInv'
<1>1. BrowsersAreKnown'
  BY NoneStarting
<1> QED BY <1>1, BrowserStep

\* A start records the Chromium it ran.
LEMMA RecordPidKeeps == ASSUME WslInv, NEW a \in Agents, RecordPid(a) PROVE WslInv'
<1> DEFINE s == agents[a].silo
<1>1. /\ agents[a].at = "spawned" /\ agents[a].op = "start" /\ UNCHANGED <<host, call, ghost>>
      /\ agents[a].at \in Holding /\ Live(a) /\ lock = {a} /\ s \in Silos
  BY HolderFacts DEF RecordPid, At, Holding, WslInv, OneHolder
<1>2. OfGuest(disk) /\ browser \subseteq Chromium /\ OneRecordedBrowser
  BY DiskIsOfGuest DEF WslInv, Typed, WslTypeOK, BrowsersAreKnown
<1>3. \A b \in browser : b.pid = "new" => b.silo = s
  <2> SUFFICES ASSUME NEW b \in browser, b.pid = "new" PROVE b.silo = s
    OBVIOUS
  <2>1. PICK c \in Agents : agents[c].at = "spawned" /\ agents[c].silo = b.silo
    BY DEF WslInv, BrowsersAreKnown
  <2> QED BY <1>1, <2>1, HolderFacts DEF Holding
<1>4. \A b \in browser : b.silo = s => b.pid # "known"
  BY <1>1 DEF WslInv, BrowsersAreKnown
<1>5. CASE /\ Started(s) # {}
           /\ browser' = (browser \ Started(s)) \cup {[b EXCEPT !.pid = "known"] : b \in Started(s)}
           /\ disk' = [disk EXCEPT !.pid = @ \cup {s}]
           /\ Answer(a)
  <2>1. PICK n \in browser : n.silo = s /\ n.pid = "new"
    BY <1>5 DEF Started
  <2>2. \A b \in browser : b.pid # Lost => b = n
    BY <1>2, <2>1 DEF OneRecordedBrowser, Lost
  <2>3. Started(s) = {n}
    BY <2>1, <2>2 DEF Started, Lost
  <2>4. browser' = (browser \ {n}) \cup {[n EXCEPT !.pid = "known"]}
    BY <1>5, <2>3
  <2> DEFINE k == [n EXCEPT !.pid = "known"]
  <2>5. k \in Chromium /\ k.silo = s /\ k.pid = "known"
    BY <1>2, <2>1 DEF Chromium
  <2> HIDE DEF k
  <2>6. \A b \in browser' : b.pid # Lost => b = k
    BY <2>2, <2>4 DEF k
  <2>7. disk' \in Disk /\ disk'.ready = disk.ready /\ disk'.profile = disk.profile
        /\ disk'.pid = disk.pid \cup {s} /\ disk'.active = disk.active
    BY <1>1, <1>2, <1>5 DEF OfGuest, Disk
  <2>8. Tidy(a)
    BY <1>2, <2>7 DEF Tidy, OfGuest
  <2>9. disk.active = s
    BY <2>1 DEF WslInv, BrowsersAreKnown, Lost
  <2>10. Moves(a, "answered") /\ lock' = lock \ {a} /\ "answered" \in Steps \ {"spawned"}
    BY <1>1, <1>5, EndMoves DEF Steps, Answer
  <2>11. Locks(a, "answered")
    BY <2>10 DEF Locks, Holding
  <2>12. /\ browser' \subseteq Chromium /\ OneRecordedBrowser'
         /\ \A b \in browser' : b.pid # "new"
         /\ \A b \in browser' : b.pid = "known" => b.silo \in disk'.pid
         /\ \A b \in browser' : b.pid # Lost => disk'.active = b.silo
         /\ \A b \in browser' : b.pid # Lost => b.silo = s
    BY <1>2, <2>4, <2>5, <2>6, <2>7, <2>9 DEF k, OneRecordedBrowser, Lost
  <2> QED BY <1>1, <2>8, <2>10, <2>11, <2>12, OwnBrowsers
<1>6. CASE /\ Started(s) = {}
           /\ disk' = ReleaseActiveSilo(s, [disk EXCEPT !.pid = @ \ {s}])
           /\ Fail(a) /\ UNCHANGED browser
  <2> DEFINE d == [disk EXCEPT !.pid = @ \ {s}]
  <2>1. d \in Disk /\ OfGuest(d) /\ d.ready = disk.ready /\ d.profile = disk.profile
        /\ d.active = disk.active /\ d.pid = disk.pid \ {s}
    BY <1>1, <1>2 DEF OfGuest, Disk
  <2>2. disk' = ReleaseActiveSilo(s, d)
    BY <1>6
  <2> HIDE DEF d
  <2>3. /\ Tidy(a)
        /\ \A b \in browser : b.silo # s => /\ b.pid = "known" => b.silo \in disk'.pid
                                            /\ b.pid # Lost => disk'.active = b.silo
    BY <1>1, <2>1, <2>2, GoneFacts
  <2>4. \A b \in browser : /\ b.silo = s => b.pid = Lost
                           /\ b.pid # "new"
    BY <1>2, <1>3, <1>4, <1>6 DEF Started, Chromium
  <2>5. Moves(a, "refused") /\ lock' = lock \ {a} /\ "refused" \in Steps \ {"spawned"}
    BY <1>1, <1>6, EndMoves DEF Steps, Fail
  <2>6. Locks(a, "refused")
    BY <2>5 DEF Locks, Holding
  <2>7. /\ browser' \subseteq Chromium /\ OneRecordedBrowser'
        /\ \A b \in browser' : b.pid # "new"
        /\ \A b \in browser' : b.pid = "known" => b.silo \in disk'.pid
        /\ \A b \in browser' : b.pid # Lost => disk'.active = b.silo
        /\ \A b \in browser' : b.pid # Lost => b \in browser
    BY <1>2, <1>6, <2>3, <2>4 DEF OneRecordedBrowser, Lost
  <2> QED BY <1>1, <2>3, <2>5, <2>6, <2>7, OwnBrowsers
<1> QED BY <1>5, <1>6 DEF RecordPid

\* A stop ends the Chromium that is recorded.
LEMMA TerminateKeeps == ASSUME WslInv, NEW a \in Agents, TerminateOwnedBrowser(a) PROVE WslInv'
<1> DEFINE s == agents[a].silo
           d == [disk EXCEPT !.pid = @ \ {s}]
           Owned == {b \in browser : b.silo = s /\ b.pid = "known"}
<1>1. /\ agents[a].at = "holds" /\ agents[a].op = "stop" /\ UNCHANGED <<host, call, ghost>>
      /\ agents[a].at \in Holding /\ Live(a) /\ lock = {a} /\ s \in Silos
  BY HolderFacts DEF TerminateOwnedBrowser, At, Holding
<1>2. OfGuest(disk) /\ browser \subseteq Chromium /\ OneRecordedBrowser
  BY DiskIsOfGuest DEF WslInv, Typed, WslTypeOK, BrowsersAreKnown
<1>3. \A b \in browser : b.pid # "new"
  BY <1>1, NoneIsNew
<1>4. CASE Fail(a) /\ UNCHANGED <<disk, browser>>
  <2>1. Tidy(a) /\ Knows
    BY <1>2, <1>4, SameFiles DEF OfGuest
  <2> QED BY <1>1, <1>4, <2>1, EndKeeps DEF Fail
<1>5. CASE /\ disk' = ReleaseActiveSilo(s, d) /\ Answer(a)
           /\ browser' \subseteq browser
           /\ \A b \in browser' : b.silo = s => b.pid = Lost
  <2>1. d \in Disk /\ OfGuest(d) /\ d.ready = disk.ready /\ d.profile = disk.profile
        /\ d.active = disk.active /\ d.pid = disk.pid \ {s}
    BY <1>1, <1>2 DEF OfGuest, Disk
  <2>2. disk' = ReleaseActiveSilo(s, d)
    BY <1>5
  <2> HIDE DEF d
  <2>3. /\ Tidy(a)
        /\ \A b \in browser : b.silo # s => /\ b.pid = "known" => b.silo \in disk'.pid
                                            /\ b.pid # Lost => disk'.active = b.silo
    BY <1>1, <2>1, <2>2, GoneFacts
  <2>4. Moves(a, "answered") /\ lock' = lock \ {a} /\ "answered" \in Steps \ {"spawned"}
    BY <1>1, <1>5, EndMoves DEF Steps, Answer
  <2>5. Locks(a, "answered")
    BY <2>4 DEF Locks, Holding
  <2>6. /\ browser' \subseteq Chromium /\ OneRecordedBrowser'
        /\ \A b \in browser' : b.pid # "new"
        /\ \A b \in browser' : b.pid = "known" => b.silo \in disk'.pid
        /\ \A b \in browser' : b.pid # Lost => disk'.active = b.silo
        /\ \A b \in browser' : b.pid # Lost => b \in browser
    BY <1>2, <1>3, <1>5, <2>3 DEF OneRecordedBrowser, Lost
  <2> QED BY <1>1, <1>5, <2>3, <2>4, <2>5, <2>6, OwnBrowsers
<1>6. ~ReadOwnedPid(s) => \A b \in browser : b.silo = s => b.pid = Lost
  BY <1>1, NoneIsNew DEF Recorded
<1>7. \A b \in browser \ Owned : b.silo = s => b.pid = Lost
  BY <1>2, <1>3 DEF Chromium
<1> HIDE DEF d
<1>8. CASE ~ReadOwnedPid(s) /\ disk' = ReleaseActiveSilo(s, d) /\ Answer(a) /\ UNCHANGED browser
  BY <1>5, <1>6, <1>8
<1>9. CASE browser' = browser \ Owned /\ disk' = ReleaseActiveSilo(s, d) /\ Answer(a)
  BY <1>5, <1>7, <1>9
<1> QED BY <1>4, <1>8, <1>9 DEF TerminateOwnedBrowser, d

\* A health check refreshes the evidence or revokes it.
LEMMA HealthKeeps == ASSUME WslInv, NEW a \in Agents, Health(a) PROVE WslInv'
<1>1. /\ agents[a].at = "holds" /\ agents[a].op = "health"
      /\ UNCHANGED <<host, call, browser, ghost>> /\ Live(a)
  BY HolderFacts DEF Health, At, Holding
<1>2. ASSUME NEW verdict \in {"answered", "refused"}, End(a, verdict), UNCHANGED disk
      PROVE WslInv'
  <2>1. Tidy(a) /\ Knows
    BY <1>2, DiskIsOfGuest, SameFiles DEF OfGuest
  <2> QED BY <1>1, <1>2, <2>1, EndKeeps
<1>3. CASE RevokedOrStale(agents[a].silo) /\ Fail(a)
  <2>1. Tidy(a) /\ Knows
    BY <1>1, <1>3, RevokedFiles DEF RevokedOrStale
  <2> QED BY <1>1, <1>3, <2>1, EndKeeps DEF Fail
<1> QED BY <1>2, <1>3 DEF Health, Answer, Fail

\* Logs are read.
LEMMA BoundedLogsKeeps == ASSUME WslInv, NEW a \in Agents, BoundedLogs(a) PROVE WslInv'
<1>1. /\ agents[a].at = "holds" /\ agents[a].op = "logs" /\ End(a, "answered")
      /\ UNCHANGED <<host, call, browser, ghost, disk>> /\ Live(a)
  BY HolderFacts DEF BoundedLogs, At, Holding, Answer
<1>2. Tidy(a) /\ Knows
  BY <1>1, DiskIsOfGuest, SameFiles DEF OfGuest
<1> QED BY <1>1, <1>2, EndKeeps

\* The files of a detached Silo: what a start needs is gone.
LEMMA UnlinkedFiles ==
  ASSUME WslInv, NEW a \in Agents, agents[a].at = "holds", ~ReadOwnedPid(agents[a].silo),
         disk' = ReleaseActiveSilo(agents[a].silo, [disk EXCEPT
            !.profile = @ \ {agents[a].silo}, !.ready[agents[a].silo] = NoReceipt,
            !.pid = @ \ {agents[a].silo}])
  PROVE /\ Tidy(a) /\ Knows
        /\ agents[a].silo \notin disk'.profile /\ disk'.ready[agents[a].silo] = NoReceipt
        /\ ~Recorded(agents[a].silo)
<1> DEFINE s == agents[a].silo
           p == [disk EXCEPT !.profile = @ \ {s}, !.ready[s] = NoReceipt]
           d == [p EXCEPT !.pid = @ \ {s}]
<1>1. s \in Silos /\ OfGuest(disk)
  BY HolderFacts, DiskIsOfGuest DEF Holding
<1>2. ~Recorded(s)
  BY NoneIsNew
<1>3. NoReceipt \in Receipt
  BY DEF NoReceipt, Receipt
<1>4. /\ p \in Disk /\ p.ready = [disk.ready EXCEPT ![s] = NoReceipt]
      /\ p.profile = disk.profile \ {s} /\ p.active = disk.active /\ p.pid = disk.pid
  BY <1>1, <1>3 DEF OfGuest, Disk
<1>5. disk' = ReleaseActiveSilo(s, d)
  OBVIOUS
<1> HIDE DEF p
<1>6. /\ d \in Disk /\ d.ready = [disk.ready EXCEPT ![s] = NoReceipt]
      /\ d.profile = disk.profile \ {s} /\ d.active = disk.active /\ d.pid = disk.pid \ {s}
  BY <1>1, <1>4 DEF Disk
<1> HIDE DEF d
<1>7. /\ disk' \in Disk /\ disk'.ready = d.ready /\ disk'.profile = d.profile /\ disk'.pid = d.pid
      /\ disk'.active = IF d.active = s THEN Nothing ELSE d.active
  BY <1>5, <1>6, ZenonT(30) DEF ReleaseActiveSilo, Disk
<1>8. /\ disk'.ready[s] = NoReceipt
      /\ \A t \in Silos \ {s} : disk'.ready[t] = disk.ready[t]
      /\ disk'.profile = disk.profile \ {s}
  <2>1. disk.ready \in [Silos -> Receipt]
    BY <1>1 DEF OfGuest, Disk
  <2>2. disk'.ready = [disk.ready EXCEPT ![s] = NoReceipt] /\ disk'.profile = disk.profile \ {s}
    BY <1>6, <1>7
  <2> QED BY <1>1, <2>1, <2>2, Zenon
<1>9. OfGuest(disk')
  BY <1>1, <1>7, <1>8 DEF OfGuest
<1>10. Tidy(a)
  BY <1>8, <1>9 DEF Tidy
<1>11. Knows
  BY <1>2, <1>6, <1>7 DEF Knows, WslInv, BrowsersAreKnown, Recorded, Lost
<1> QED BY <1>2, <1>8, <1>10, <1>11

\* A detachment removes the profile once no recorded Chromium runs.
LEMMA DetachSiloKeeps == ASSUME WslInv, NEW a \in Agents, DetachSilo(a) PROVE WslInv'
<1> DEFINE own == agents[a].silo
<1>1. /\ agents[a].at = "holds" /\ agents[a].op = "detach" /\ UNCHANGED <<host, call, browser>>
      /\ Live(a) /\ lock = {a} /\ own \in Silos
  BY HolderFacts DEF DetachSilo, At, Holding
<1>2. CASE Fail(a) /\ UNCHANGED <<disk, ghost>>
  <2>1. Tidy(a) /\ Knows
    BY <1>2, DiskIsOfGuest, SameFiles DEF OfGuest
  <2> QED BY <1>1, <1>2, <2>1, EndKeeps DEF Fail
<1>3. CASE /\ ~ReadOwnedPid(own)
           /\ disk' = ReleaseActiveSilo(own, [disk EXCEPT
                !.profile = @ \ {own}, !.ready[own] = NoReceipt, !.pid = @ \ {own}])
           /\ Settle(a, own)
           /\ Goto(a, "unlinked") /\ UNCHANGED lock
  <2>1. Moves(a, "unlinked") /\ "unlinked" \in Steps
    BY <1>1, <1>3, GotoMoves DEF Steps
  <2>2. Locks(a, "unlinked")
    BY <1>1, <1>3 DEF Locks, Holding
  <2>3. /\ Tidy(a) /\ Knows
        /\ own \notin disk'.profile /\ disk'.ready[own] = NoReceipt /\ ~Recorded(own)
    BY <1>1, <1>3, UnlinkedFiles
  <2>4. /\ Settles(a)
        /\ own \notin ghost'.late => Heard(a)
        /\ ghost' \in [acked : [Silos -> Networks \cup {Nothing}], late : SUBSET Silos]
    BY <1>1, <1>3, SettleFacts
  <2>5. OfGuest(disk') /\ browser' \subseteq Chromium
    BY <1>1, <2>3 DEF Tidy, WslInv, Typed, WslTypeOK
  <2>6. Typed'
    BY <1>1, <2>1, <2>2, <2>4, <2>5, LocksType, TypedKeeps
  <2>7. BrowsersAreKnown'
    BY <1>1, <2>1, <2>3, SameBrowsers DEF Knows
  <2>8. \A s \in Silos \ {agents[a].silo} : Quiet(s)
    BY <1>1, <2>3 DEF Quiet, Tidy, Recorded
  <2>9. ASSUME NEW s \in Silos \ ghost'.late, s = own PROVE HostKnows(s)'
    <3>1. ~Recorded(s)'
      BY <1>1, <2>3, <2>9 DEF Recorded
    <3>2. ~Kept(s)' /\ disk'.ready[s] = NoReceipt
      BY <2>3, <2>9, <3>1 DEF Kept
    <3>3. ~CallAt("configure", s, {"answered"})'
      BY <1>1, <2>4, <2>9 DEF CallAt, WslInv, CallIsServed, Heard
    <3> QED BY <3>2, <3>3 DEF HostKnows, Evident
  <2> QED BY <1>1, <2>1, <2>2, <2>4, <2>6, <2>7, <2>8, <2>9, AgentKeeps
<1> QED BY <1>2, <1>3 DEF DetachSilo

\* The last steps of a detachment touch nothing that a browser needs.
LEMMA DetachGoesOn ==
  ASSUME WslInv, NEW a \in Agents, agents[a].at \in {"unlinked", "emptied"},
         UNCHANGED <<host, call, browser, ghost>>,
         NEW step \in {"emptied", "answered"}, Moves(a, step), Locks(a, step),
         disk' \in Disk, disk'.ready = disk.ready, disk'.profile = disk.profile,
         disk'.active = disk.active, disk'.pid = disk.pid
  PROVE WslInv'
<1> DEFINE own == agents[a].silo
<1>1. Live(a) /\ own \in Silos /\ agents[a].op = "detach" /\ step \in Steps
  BY HolderFacts DEF Holding, WslInv, OneHolder, Steps
<1>2. Settles(a) /\ browser' \subseteq Chromium
      /\ ghost' \in [acked : [Silos -> Networks \cup {Nothing}], late : SUBSET Silos]
  BY DEF Settles, WslInv, Typed, WslTypeOK
<1>3. Tidy(a) /\ Knows
  BY <1>1, SameFiles
<1>4. Typed'
  BY <1>1, <1>2, <1>3, LocksType, TypedKeeps DEF Tidy
<1>5. BrowsersAreKnown'
  BY <1>3, SameBrowsers DEF Knows
<1>6. \A s \in Silos : Kept(s)' <=> Kept(s)
  BY DEF Kept, Recorded
<1>7. \A s \in Silos \ {agents[a].silo} : Quiet(s)
  BY DEF Quiet, Recorded
<1>8. ASSUME NEW s \in Silos \ ghost'.late, s = own PROVE HostKnows(s)'
  <2>1. CallAt("detach", s, {"unlinked", "emptied", "answered"})
    BY <1>1, <1>8, HeardFacts DEF CallAt
  <2>2. ~Kept(s)
    BY <1>8, <2>1 DEF WslInv, HostKnows
  <2>3. ~Kept(s)' /\ disk'.ready[s] = NoReceipt
    BY <1>6, <2>2 DEF Kept
  <2> QED BY <2>3 DEF HostKnows, Evident
<1> QED BY <1>1, <1>2, <1>4, <1>5, <1>7, <1>8, AgentKeeps

\* A detachment removes the directory, or cannot.
LEMMA RemoveSiloRootKeeps == ASSUME WslInv, NEW a \in Agents, RemoveSiloRoot(a) PROVE WslInv'
<1> DEFINE own == agents[a].silo
<1>1. /\ agents[a].at = "unlinked" /\ agents[a].op = "detach"
      /\ UNCHANGED <<host, call, browser, ghost>> /\ Live(a) /\ lock = {a} /\ own \in Silos
  BY HolderFacts DEF RemoveSiloRoot, At, Holding, WslInv, OneHolder
<1>2. CASE Fail(a) /\ UNCHANGED disk
  <2>1. Tidy(a) /\ Knows
    BY <1>2, DiskIsOfGuest, SameFiles DEF OfGuest
  <2> QED BY <1>1, <1>2, <2>1, EndKeeps DEF Fail
<1>3. CASE disk' = [disk EXCEPT !.dir = @ \ {own}] /\ Goto(a, "emptied") /\ UNCHANGED lock
  <2>1. Moves(a, "emptied")
    BY <1>1, <1>3, GotoMoves DEF Steps
  <2>2. Locks(a, "emptied")
    BY <1>1, <1>3 DEF Locks, Holding
  <2>3. /\ disk' \in Disk /\ disk'.ready = disk.ready
        /\ disk'.profile = disk.profile /\ disk'.active = disk.active /\ disk'.pid = disk.pid
    BY <1>1, <1>3, DiskIsOfGuest DEF OfGuest, Disk
  <2> QED BY <1>1, <2>1, <2>2, <2>3, DetachGoesOn
<1> QED BY <1>2, <1>3 DEF RemoveSiloRoot

\* Then it lets the distribution go.
LEMMA FinishDetachKeeps == ASSUME WslInv, NEW a \in Agents, FinishDetach(a) PROVE WslInv'
<1>1. /\ agents[a].at = "emptied" /\ Answer(a) /\ disk' = [disk EXCEPT !.bound = Nothing]
      /\ UNCHANGED <<host, call, browser, ghost>> /\ Live(a) /\ lock = {a}
  BY HolderFacts DEF FinishDetach, At, Holding
<1>2. Moves(a, "answered") /\ lock' = lock \ {a}
  BY <1>1, EndMoves DEF Steps, Answer
<1>3. Locks(a, "answered")
  BY <1>2 DEF Locks, Holding
<1>4. /\ disk' \in Disk /\ disk'.ready = disk.ready
      /\ disk'.profile = disk.profile /\ disk'.active = disk.active /\ disk'.pid = disk.pid
  BY <1>1, DiskIsOfGuest DEF OfGuest, Disk
<1> QED BY <1>1, <1>2, <1>3, <1>4, DetachGoesOn

\* An agent is killed between two steps.
LEMMA AgentKilledKeeps == ASSUME WslInv, NEW a \in Agents, AgentKilled(a) PROVE WslInv'
<1> DEFINE s == agents[a].silo
<1>1. /\ Live(a) /\ s \in Silos /\ End(a, "refused") /\ UNCHANGED <<host, call, ghost>>
      /\ disk' = disk \/ disk' = [disk EXCEPT !.residue = @ \cup {s}]
      /\ browser' = IF agents[a].at # "spawned" THEN browser
                    ELSE (browser \ Started(s)) \cup {[b EXCEPT !.pid = Lost] : b \in Started(s)}
  BY AgentFacts DEF AgentKilled, Agent
<1>2. disk' \in Disk /\ disk'.ready = disk.ready /\ disk'.profile = disk.profile
      /\ disk'.pid = disk.pid /\ disk'.active = disk.active
  BY <1>1, DiskIsOfGuest DEF OfGuest, Disk
<1>3. Tidy(a) /\ Knows
  BY <1>2, SameFiles
<1>4. CASE agents[a].at # "spawned"
  BY <1>1, <1>3, <1>4, EndKeeps
<1>5. CASE agents[a].at = "spawned"
  <2>1. browser' = (browser \ Started(s)) \cup {[b EXCEPT !.pid = Lost] : b \in Started(s)}
    BY <1>1, <1>5
  <2>2. browser \subseteq Chromium /\ OneRecordedBrowser
    BY DEF WslInv, Typed, WslTypeOK, BrowsersAreKnown
  <2>3. \A b \in Started(s) : /\ [b EXCEPT !.pid = Lost] \in Chromium
                              /\ [b EXCEPT !.pid = Lost].pid = Lost
    BY <2>2 DEF Started, Chromium
  <2>4. \A b \in browser' : b \in Chromium /\ (b.pid # Lost => b \in browser \ Started(s))
    BY <2>1, <2>2, <2>3
  <2>5. \A b \in browser : b.pid = "new" => b.silo = s
    <3> SUFFICES ASSUME NEW b \in browser, b.pid = "new" PROVE b.silo = s
      OBVIOUS
    <3>1. PICK c \in Agents : agents[c].at = "spawned" /\ agents[c].silo = b.silo
      BY DEF WslInv, BrowsersAreKnown
    <3> QED BY <1>5, <3>1, HolderFacts DEF Holding
  <2>6. \A b \in browser' : b.pid # "new"
    BY <2>4, <2>5 DEF Started, Lost
  <2>7. OneRecordedBrowser'
    BY <2>2, <2>4 DEF OneRecordedBrowser
  <2>8. /\ \A b \in browser' : b.pid = "known" => b.silo \in disk'.pid
        /\ \A b \in browser' : b.pid # Lost => disk'.active = b.silo
        /\ \A b \in browser' : b.pid # Lost => b \in browser
    BY <1>3, <2>4 DEF Knows, Lost
  <2>9. \A b \in browser : b.silo = s => b.pid # "known"
    BY <1>5 DEF WslInv, BrowsersAreKnown
  <2>10. \A b \in browser' : b.silo = s => b.pid = Lost
    BY <2>2, <2>4, <2>6, <2>9 DEF Chromium
  <2>11. Moves(a, "refused") /\ lock' = lock \ {a} /\ "refused" \in Steps \ {"spawned"}
    BY <1>1, EndMoves DEF Steps
  <2>12. Locks(a, "refused") /\ browser' \subseteq Chromium /\ agents[a].at \in Holding
    BY <1>5, <2>4, <2>11 DEF Locks, Holding
  <2> QED BY <1>1, <1>3, <2>6, <2>7, <2>8, <2>10, <2>11, <2>12, OwnBrowsers
<1> QED BY <1>4, <1>5

\* Every step of an agent keeps the invariant.
LEMMA AgentStepKeeps ==
  ASSUME WslGuestAssumption, WslInv, NEW a \in Agents, AgentStep(a) PROVE WslInv'
BY ArriveKeeps, BindSingleSiloKeeps, GuestConfigureKeeps, GuestProbeKeeps, StartBrowserKeeps,
   RecordPidKeeps, TerminateKeeps, HealthKeeps, BoundedLogsKeeps, DetachSiloKeeps,
   RemoveSiloRootKeeps, FinishDetachKeeps, AgentKilledKeeps DEF AgentStep

-----------------------------------------------------------------------------
(* The application's side *)

\* A call starts an agent that was free.
LEMMA RunFacts ==
  ASSUME WslInv, NEW op \in Ops, NEW s \in Silos, NEW net \in Networks, Run(op, s, net)
  PROVE \E a \in Agents :
          /\ ~Live(a) /\ agents[a] = NoAgent
          /\ agents' \in [Agents -> {NoAgent} \cup Agent]
          /\ \A b \in Agents \ {a} : agents'[b] = agents[b]
          /\ agents'[a] \in Agent /\ agents'[a].op = op /\ agents'[a].silo = s
          /\ agents'[a].net = net /\ agents'[a].at = "arriving"
          /\ call' = [op |-> op, silo |-> s, net |-> net, agent |-> a]
<1> DEFINE a == CHOOSE b \in Agents : ~Live(b)
           new == [op |-> op, silo |-> s, net |-> net, at |-> "arriving"]
<1>1. a \in Agents /\ ~Live(a)
  BY DEF Run
<1>2. /\ agents' = [agents EXCEPT ![a] = new]
      /\ call' = [op |-> op, silo |-> s, net |-> net, agent |-> a]
  BY DEF Run
<1>3. new \in Agent /\ new.op = op /\ new.silo = s /\ new.net = net /\ new.at = "arriving"
  BY DEF Agent, Steps
<1> HIDE DEF a, new
<1>4. agents \in [Agents -> {NoAgent} \cup Agent] /\ agents[a] = NoAgent
  BY <1>1, AgentFacts DEF WslInv, Typed
<1> QED BY <1>1, <1>2, <1>3, <1>4

\* A step of the application that leaves the guest alone: the lock, the files, the Chromiums,
\* and the agents that hold the lock.
LEMMA GuestRests ==
  ASSUME WslInv, agents' \in [Agents -> {NoAgent} \cup Agent], UNCHANGED <<lock, disk, browser>>,
         \A a \in Agents : \/ agents'[a] = agents[a]
                           \/ agents[a].at \notin Holding /\ agents'[a].at \notin Holding
  PROVE /\ OneHolder' /\ BrowsersAreKnown'
        /\ \A s \in Silos : Kept(s)' <=> Kept(s)
        /\ \A s \in Silos : \A net : Evident(s, net)' <=> Evident(s, net)
<1>1. OneHolder'
  <2> SUFFICES ASSUME NEW a \in Agents
               PROVE /\ agents'[a].at \in Holding => lock = {a}
                     /\ agents'[a].at = "probe" => agents'[a].op = "configure"
                     /\ agents'[a].at = "spawned" => agents'[a].op = "start"
                     /\ agents'[a].at \in {"unlinked", "emptied"} => agents'[a].op = "detach"
    BY DEF OneHolder
  <2> QED BY DEF WslInv, OneHolder, Holding
<1>2. \A a \in Agents : /\ agents[a].at = "spawned" => agents'[a] = agents[a]
                        /\ agents'[a].at = "spawned" => agents'[a] = agents[a]
  BY DEF Holding
<1>3. BrowsersAreKnown'
  <2>1. \A b \in browser : b.pid = "new" =>
          \E a \in Agents : agents'[a].at = "spawned" /\ agents'[a].silo = b.silo
    BY <1>2 DEF WslInv, BrowsersAreKnown
  <2>2. \A a \in Agents : agents'[a].at = "spawned" =>
          \A b \in browser : b.silo = agents'[a].silo => b.pid # "known"
    BY <1>2 DEF WslInv, BrowsersAreKnown
  <2>3. OneRecordedBrowser'
    BY DEF WslInv, BrowsersAreKnown, OneRecordedBrowser
  <2> QED BY <2>1, <2>2, <2>3 DEF WslInv, BrowsersAreKnown
<1> QED BY <1>1, <1>3 DEF Kept, Recorded, Evident

\* A call begins with its Silo unbound, or bound as it was.
LEMMA CallStarts ==
  ASSUME WslInv, call = NoCall, NEW op \in Ops, NEW s \in Silos, NEW net \in Networks,
         Run(op, s, net), UNCHANGED <<lock, disk, browser>>,
         host' \in [Silos -> {"absent", "empty", "bound", "torn"}],
         ghost' \in [acked : [Silos -> Networks \cup {Nothing}], late : SUBSET Silos],
         ghost'.late = ghost.late,
         \A t \in Silos \ {s} : host'[t] = host[t] /\ ghost'.acked[t] = ghost.acked[t],
         \/ host'[s] = "empty"
         \/ host'[s] = host[s] /\ ghost'.acked[s] = ghost.acked[s],
         op = "configure" => host'[s] = "empty",
         op \notin {"configure", "detach"} => host'[s] = "bound"
  PROVE WslInv'
<1>1. PICK a \in Agents :
          /\ ~Live(a) /\ agents[a] = NoAgent
          /\ agents' \in [Agents -> {NoAgent} \cup Agent]
          /\ \A b \in Agents \ {a} : agents'[b] = agents[b]
          /\ agents'[a] \in Agent /\ agents'[a].op = op /\ agents'[a].silo = s
          /\ agents'[a].net = net /\ agents'[a].at = "arriving"
          /\ call' = [op |-> op, silo |-> s, net |-> net, agent |-> a]
  BY RunFacts
<1>2. /\ OneHolder' /\ BrowsersAreKnown'
      /\ \A t \in Silos : Kept(t)' <=> Kept(t)
      /\ \A t \in Silos : \A n : Evident(t, n)' <=> Evident(t, n)
  <2>1. \A c \in Agents : \/ agents'[c] = agents[c]
                          \/ agents[c].at \notin Holding /\ agents'[c].at \notin Holding
    BY <1>1 DEF NoAgent, Holding
  <2> QED BY <1>1, <2>1, GuestRests
<1>3. Typed'
  <2>1. call' \in [op : Ops, silo : Silos, net : Networks, agent : Agents]
    BY <1>1
  <2>2. \A c \in Agents : Live(c)' => agents'[c] \in Agent
    BY <1>1 DEF Live, NoAgent
  <2>3. WslTypeOK'
    BY <2>1, <2>2 DEF WslTypeOK, WslInv, Typed, Agent
  <2> QED BY <1>1, <2>3 DEF Typed, WslInv
<1>4. CallIsServed'
  <2>1. /\ call'.op = op /\ call'.silo = s /\ call'.net = net /\ call'.agent = a
        /\ agents'[a].at # "free"
    BY <1>1
  <2> QED BY <1>1, <2>1 DEF CallIsServed, Live
<1>5. UnheardIsLate'
  <2>1. call'.op = op /\ call'.agent = a
    BY <1>1
  <2>2. call' # NoCall
    BY <2>1 DEF NoCall, Nothing, Ops
  <2> QED BY <1>1, <2>1, <2>2 DEF UnheardIsLate, WslInv, Live, Heard
<1>6. ASSUME NEW t \in Silos \ ghost'.late PROVE HostKnows(t)'
  <2>1. t \in Silos \ ghost.late /\ HostKnows(t)
    BY DEF WslInv
  <2>2. \A o, steps : CallAt(o, t, steps)' => "arriving" \in steps
    BY <1>1 DEF CallAt
  <2>3. \/ host'[t] = "empty"
        \/ host'[t] = host[t] /\ ghost'.acked[t] = ghost.acked[t]
    OBVIOUS
  <2>4. (host[t] = "bound" => Evident(t, ghost.acked[t]))'
    <3>1. CASE host'[t] = "empty"
      BY <3>1
    <3>2. CASE host'[t] = host[t] /\ ghost'.acked[t] = ghost.acked[t]
      BY <1>2, <2>1, <3>2 DEF HostKnows, Evident
    <3> QED BY <2>3, <3>1, <3>2
  <2>5. (Kept(t) => host[t] # "absent")'
    BY <1>2, <2>1, <2>3 DEF HostKnows
  <2> QED BY <2>2, <2>4, <2>5 DEF HostKnows
<1> QED BY <1>2, <1>3, <1>4, <1>5, <1>6 DEF WslInv

\* What the host holds, and its call.
LEMMA HostFacts ==
  ASSUME WslInv
  PROVE /\ host \in [Silos -> {"absent", "empty", "bound", "torn"}]
        /\ ghost \in [acked : [Silos -> Networks \cup {Nothing}], late : SUBSET Silos]
        /\ call # NoCall => /\ call.op \in Ops /\ call.silo \in Silos /\ call.net \in Networks
                            /\ call.agent \in Agents /\ Live(call.agent)
                            /\ agents[call.agent].silo = call.silo
BY DEF WslInv, Typed, WslTypeOK, CallIsServed

\* A configuration takes the binding back before it is sent.
LEMMA ConfigureNetworkKeeps ==
  ASSUME WslInv, NEW s \in Silos, NEW net \in Networks, ConfigureNetwork(s, net) PROVE WslInv'
<1>1. /\ call = NoCall /\ Run("configure", s, net) /\ UNCHANGED <<lock, disk, browser>>
      /\ host' = [host EXCEPT ![s] = "empty"]
      /\ ghost' = [ghost EXCEPT !.acked[s] = Nothing]
  BY DEF ConfigureNetwork, InvalidateBinding
<1>2. /\ host' \in [Silos -> {"absent", "empty", "bound", "torn"}]
      /\ host'[s] = "empty" /\ \A t \in Silos \ {s} : host'[t] = host[t]
  BY <1>1, HostFacts
<1>3. /\ ghost' \in [acked : [Silos -> Networks \cup {Nothing}], late : SUBSET Silos]
      /\ ghost'.late = ghost.late
      /\ \A t \in Silos \ {s} : ghost'.acked[t] = ghost.acked[t]
  BY <1>1, HostFacts
<1>4. "configure" \in Ops
  BY DEF Ops
<1> QED BY <1>1, <1>2, <1>3, <1>4, CallStarts

\* A call of a bound Silo is sent.
LEMMA BoundCallKeeps ==
  ASSUME WslInv, NEW s \in Silos, NEW op \in {"start", "stop", "health", "logs"}, BoundCall(s, op)
  PROVE WslInv'
<1>1. op \in Ops /\ "direct" \in Networks
  BY DEF Ops, Networks
<1>2. /\ call = NoCall /\ host[s] = "bound" /\ Run(op, s, "direct")
      /\ UNCHANGED <<host, lock, disk, browser, ghost>>
  BY DEF BoundCall
<1> QED BY <1>1, <1>2, HostFacts, CallStarts

\* A destruction is sent.
LEMMA DestroyKeeps == ASSUME WslInv, NEW s \in Silos, Destroy(s) PROVE WslInv'
<1>1. "detach" \in Ops /\ "direct" \in Networks
  BY DEF Ops, Networks
<1>2. /\ call = NoCall /\ Run("detach", s, "direct")
      /\ UNCHANGED <<host, lock, disk, browser, ghost>>
  BY DEF Destroy
<1> QED BY <1>1, <1>2, HostFacts, CallStarts

\* The host learns the end of a call; what it then keeps of the Silo is true of the guest.
LEMMA EndedKnows ==
  ASSUME WslInv, EndConfigure \/ EndDestroy \/ EndBoundCall \/ Refused, UNCHANGED <<disk, browser>>
  PROVE /\ call # NoCall /\ agents[call.agent].at \in {"answered", "refused"}
        /\ host' \in [Silos -> {"absent", "empty", "bound", "torn"}]
        /\ ghost' \in [acked : [Silos -> Networks \cup {Nothing}], late : SUBSET Silos]
        /\ ghost'.late = ghost.late
        /\ \A s \in Silos \ ghost.late :
             /\ host'[s] = "bound" => Evident(s, ghost'.acked[s])
             /\ Kept(s) => host'[s] # "absent"
<1>1. call # NoCall /\ agents[call.agent].at \in {"answered", "refused"}
  BY DEF EndConfigure, EndDestroy, EndBoundCall, Refused, Answered
<1> DEFINE c == call.silo
<1>2. /\ c \in Silos /\ call.net \in Networks 
  BY <1>1, HostFacts
<1>3. \A s \in Silos \ ghost.late : HostKnows(s)
  BY DEF WslInv
<1>4. CASE UNCHANGED <<host, ghost>>
  BY <1>1, <1>3, <1>4, HostFacts DEF HostKnows
<1>5. CASE EndConfigure
  <2>1. CallAt("configure", c, {"answered"})
    BY <1>5 DEF EndConfigure, Answered, CallAt
  <2>2. c \notin ghost.late => Evident(c, call.net)
    BY <1>2, <1>3, <2>1 DEF HostKnows
  <2>3. \/ /\ host' = [host EXCEPT ![c] = "bound"]
           /\ ghost' = [ghost EXCEPT !.acked[c] = call.net]
        \/ host' = [host EXCEPT ![c] = "torn"] /\ ghost' = ghost
    BY <1>5 DEF EndConfigure
  <2>4. /\ host' \in [Silos -> {"absent", "empty", "bound", "torn"}]
        /\ ghost' \in [acked : [Silos -> Networks \cup {Nothing}], late : SUBSET Silos]
        /\ ghost'.late = ghost.late
        /\ \A s \in Silos \ {c} : host'[s] = host[s] /\ ghost'.acked[s] = ghost.acked[s]
        /\ \/ host'[c] = "bound" /\ ghost'.acked[c] = call.net
           \/ host'[c] = "torn"
    BY <1>2, <2>3, HostFacts
  <2>5. ASSUME NEW s \in Silos \ ghost.late
        PROVE /\ host'[s] = "bound" => Evident(s, ghost'.acked[s])
              /\ Kept(s) => host'[s] # "absent"
    BY <1>3, <2>2, <2>4 DEF HostKnows
  <2> QED BY <1>1, <2>4, <2>5
<1>6. CASE EndDestroy
  <2>1. CallAt("detach", c, {"unlinked", "emptied", "answered"})
    BY <1>6 DEF EndDestroy, Answered, CallAt
  <2>2. c \notin ghost.late => ~Kept(c)
    BY <1>2, <1>3, <2>1 DEF HostKnows
  <2>3. /\ (host' = [host EXCEPT ![c] = "absent"] \/ host' = [host EXCEPT ![c] = "empty"])
        /\ ghost' = [ghost EXCEPT !.acked[c] = Nothing]
    BY <1>6 DEF EndDestroy
  <2>4. /\ host' \in [Silos -> {"absent", "empty", "bound", "torn"}]
        /\ ghost' \in [acked : [Silos -> Networks \cup {Nothing}], late : SUBSET Silos]
        /\ ghost'.late = ghost.late
        /\ \A s \in Silos \ {c} : host'[s] = host[s] /\ ghost'.acked[s] = ghost.acked[s]
        /\ host'[c] \in {"absent", "empty"}
    BY <1>2, <2>3, HostFacts
  <2>5. ASSUME NEW s \in Silos \ ghost.late
        PROVE /\ host'[s] = "bound" => Evident(s, ghost'.acked[s])
              /\ Kept(s) => host'[s] # "absent"
    BY <1>3, <2>2, <2>4 DEF HostKnows
  <2> QED BY <1>1, <2>4, <2>5
<1> QED BY <1>4, <1>5, <1>6 DEF EndBoundCall, Refused

\* The host hears the answer.
LEMMA CallEndsKeeps == ASSUME WslInv, CallEnds PROVE WslInv'
<1> DEFINE g == call.agent
<1>1. /\ call' = NoCall /\ Free(g) /\ UNCHANGED <<lock, disk, browser>>
      /\ EndConfigure \/ EndDestroy \/ EndBoundCall \/ Refused
  BY DEF CallEnds
<1>2. /\ call # NoCall /\ agents[g].at \in {"answered", "refused"}
      /\ host' \in [Silos -> {"absent", "empty", "bound", "torn"}]
      /\ ghost' \in [acked : [Silos -> Networks \cup {Nothing}], late : SUBSET Silos]
      /\ ghost'.late = ghost.late
      /\ \A s \in Silos \ ghost.late :
           /\ host'[s] = "bound" => Evident(s, ghost'.acked[s])
           /\ Kept(s) => host'[s] # "absent"
  BY <1>1, EndedKnows
<1>3. /\ g \in Agents /\ agents' \in [Agents -> {NoAgent} \cup Agent]
      /\ agents'[g] = NoAgent /\ \A b \in Agents \ {g} : agents'[b] = agents[b]
  BY <1>1, <1>2, HostFacts DEF Free, WslInv, Typed
<1>4. /\ OneHolder' /\ BrowsersAreKnown'
      /\ \A t \in Silos : Kept(t)' <=> Kept(t)
      /\ \A t \in Silos : \A n : Evident(t, n)' <=> Evident(t, n)
  <2>1. \A c \in Agents : \/ agents'[c] = agents[c]
                          \/ agents[c].at \notin Holding /\ agents'[c].at \notin Holding
    BY <1>2, <1>3 DEF NoAgent, Holding
  <2> QED BY <1>1, <1>3, <2>1, GuestRests
<1>5. Typed'
  <2>1. \A c \in Agents : Live(c)' => agents'[c] \in Agent
    BY <1>3 DEF Live, NoAgent
  <2>2. WslTypeOK'
    BY <1>1, <1>2, <2>1 DEF WslTypeOK, WslInv, Typed, Agent
  <2> QED BY <1>1, <1>3, <2>2 DEF Typed, WslInv
<1>6. CallIsServed'
  BY <1>1 DEF CallIsServed
<1>7. UnheardIsLate'
  BY <1>1, <1>2, <1>3 DEF UnheardIsLate, WslInv, Live, Heard, NoAgent
<1>8. ASSUME NEW s \in Silos \ ghost'.late PROVE HostKnows(s)'
  <2>1. \A o, steps : ~CallAt(o, s, steps)'
    BY <1>1 DEF CallAt
  <2>2. (host[s] = "bound" => Evident(s, ghost.acked[s]))'
    BY <1>1, <1>2 DEF Evident
  <2> QED BY <1>2, <1>4, <2>1, <2>2 DEF HostKnows
<1> QED BY <1>4, <1>5, <1>6, <1>7, <1>8 DEF WslInv

\* The host gives a call up, and its agent goes on unheard.
LEMMA CallAbandonedKeeps == ASSUME WslInv, CallAbandoned PROVE WslInv'
<1>1. /\ call # NoCall /\ call' = NoCall /\ UNCHANGED <<host, agents, lock, disk, browser>>
      /\ ghost' = [ghost EXCEPT !.late = @ \cup {call.silo}]
  BY DEF CallAbandoned
<1>2. /\ ghost' \in [acked : [Silos -> Networks \cup {Nothing}], late : SUBSET Silos]
      /\ ghost'.late = ghost.late \cup {call.silo} /\ ghost'.acked = ghost.acked
      /\ agents[call.agent].silo = call.silo
  BY <1>1, HostFacts
<1>3. /\ OneHolder' /\ BrowsersAreKnown'
      /\ \A t \in Silos : Kept(t)' <=> Kept(t)
      /\ \A t \in Silos : \A n : Evident(t, n)' <=> Evident(t, n)
  BY <1>1, GuestRests DEF WslInv, Typed
<1>4. Typed'
  <2>1. \A c \in Agents : Live(c)' => agents'[c] \in Agent
    BY <1>1 DEF Live, NoAgent, WslInv, Typed
  <2>2. WslTypeOK'
    BY <1>1, <1>2, <2>1 DEF WslTypeOK, WslInv, Typed, Agent
  <2> QED BY <1>1, <2>2 DEF Typed, WslInv
<1>5. CallIsServed'
  BY <1>1 DEF CallIsServed
<1>6. UnheardIsLate'
  BY <1>1, <1>2 DEF UnheardIsLate, WslInv, Live, Heard
<1>7. ASSUME NEW s \in Silos \ ghost'.late PROVE HostKnows(s)'
  <2>1. s \in Silos \ ghost.late /\ HostKnows(s)
    BY <1>2 DEF WslInv
  <2>2. \A o, steps : ~CallAt(o, s, steps)'
    BY <1>1 DEF CallAt
  <2>3. (host[s] = "bound" => Evident(s, ghost.acked[s]))'
    BY <1>1, <1>2, <2>1 DEF Evident, HostKnows
  <2> QED BY <1>1, <1>3, <2>1, <2>2, <2>3 DEF HostKnows
<1> QED BY <1>3, <1>4, <1>5, <1>6, <1>7 DEF WslInv

\* A Chromium ends.
LEMMA BrowserEndsKeeps == ASSUME WslInv, BrowserEnds PROVE WslInv'
<1>1. browser' \subseteq browser /\ UNCHANGED <<host, call, agents, lock, disk, ghost>>
  BY DEF BrowserEnds
<1>2. Typed'
  BY <1>1 DEF Typed, WslInv, WslTypeOK, Live
<1>3. CallIsServed' /\ UnheardIsLate' /\ OneHolder'
  BY <1>1 DEF WslInv, CallIsServed, UnheardIsLate, OneHolder, Live, Heard
<1>4. BrowsersAreKnown'
  BY <1>1 DEF WslInv, BrowsersAreKnown, OneRecordedBrowser
<1>5. ASSUME NEW s \in Silos \ ghost'.late PROVE HostKnows(s)'
  <2>1. HostKnows(s)
    BY <1>1 DEF WslInv
  <2>2. Kept(s)' => Kept(s)
    BY <1>1 DEF Kept, Recorded
  <2> QED BY <1>1, <2>1, <2>2 DEF HostKnows, Evident, CallAt
<1> QED BY <1>2, <1>3, <1>4, <1>5 DEF WslInv

\* Evidence becomes old.
LEMMA EvidenceExpiresKeeps == ASSUME WslInv, EvidenceExpires PROVE WslInv'
<1>1. PICK t \in Silos : /\ disk.ready[t] # NoReceipt
                         /\ disk' = [disk EXCEPT !.ready[t].fresh = FALSE]
  BY DEF EvidenceExpires
<1>2. UNCHANGED <<host, call, agents, lock, browser, ghost>>
  BY DEF EvidenceExpires
<1> DEFINE old == [disk.ready[t] EXCEPT !.fresh = FALSE]
<1>3. /\ disk \in Disk /\ disk.ready \in [Silos -> Receipt] /\ disk.ready[t] \in Receipt
      /\ disk.ready[t].net \in Networks
  BY <1>1, DiskIsOfGuest DEF OfGuest, Disk
<1>4. old \in Receipt /\ old.net = disk.ready[t].net
  BY <1>3 DEF Receipt
<1>5. /\ disk' \in Disk /\ disk'.ready = [disk.ready EXCEPT ![t] = old]
      /\ disk'.profile = disk.profile /\ disk'.pid = disk.pid /\ disk'.active = disk.active
  BY <1>1, <1>3, <1>4 DEF Disk
<1> HIDE DEF old
<1>6. \A s \in Silos : /\ disk'.ready[s].net = disk.ready[s].net
                       /\ disk'.ready[s] # NoReceipt => disk.ready[s] # NoReceipt
  BY <1>1, <1>3, <1>4, <1>5
<1>7. Typed'
  <2>1. \A s \in Silos : disk'.ready[s] # NoReceipt => disk'.ready[s].net \in Networks
    BY <1>6, DiskIsOfGuest DEF OfGuest
  <2> QED BY <1>2, <1>5, <2>1 DEF Typed, WslInv, WslTypeOK, Live, Disk
<1>8. CallIsServed' /\ UnheardIsLate' /\ OneHolder'
  BY <1>2 DEF WslInv, CallIsServed, UnheardIsLate, OneHolder, Live, Heard
<1>9. BrowsersAreKnown'
  BY <1>2, <1>5 DEF WslInv, BrowsersAreKnown, OneRecordedBrowser
<1>10. ASSUME NEW s \in Silos \ ghost'.late PROVE HostKnows(s)'
  <2>1. HostKnows(s)
    BY <1>2 DEF WslInv
  <2>2. Kept(s)' => Kept(s)
    BY <1>2, <1>5, <1>6 DEF Kept, Recorded
  <2>3. \A net : Evident(s, net) => Evident(s, net)'
    BY <1>6 DEF Evident
  <2>4. (host[s] = "bound" => Evident(s, ghost.acked[s]))'
    BY <1>2, <2>1, <2>3 DEF HostKnows, Evident
  <2>5. (CallAt("configure", s, {"answered"}) => Evident(s, call.net))'
    BY <1>2, <2>1, <2>3 DEF HostKnows, Evident, CallAt
  <2> QED BY <1>2, <2>1, <2>2, <2>4, <2>5 DEF HostKnows, CallAt
<1> QED BY <1>7, <1>8, <1>9, <1>10 DEF WslInv

\* The distribution is shut down.
LEMMA GuestShutdownKeeps == ASSUME WslInv, GuestShutdown PROVE WslInv'
<1>1. /\ lock' = {} /\ browser' = {} /\ UNCHANGED <<host, call, disk, ghost>>
      /\ agents' = [a \in Agents |-> IF ~Heard(a) THEN NoAgent
                                     ELSE IF agents[a].at = "answered" THEN agents[a]
                                     ELSE [agents[a] EXCEPT !.at = "refused"]]
  BY DEF GuestShutdown
<1>2. ASSUME NEW a \in Agents
      PROVE /\ agents'[a] \in {NoAgent} \cup Agent
            /\ ~Heard(a) => agents'[a] = NoAgent
            /\ Heard(a) => /\ agents'[a] \in Agent /\ agents'[a].at \in {"answered", "refused"}
                           /\ agents'[a].at = "answered" => agents[a].at = "answered"
                           /\ agents'[a].op = agents[a].op /\ agents'[a].net = agents[a].net
                           /\ agents'[a].silo = agents[a].silo
  <2>1. agents'[a] = IF ~Heard(a) THEN NoAgent
                     ELSE IF agents[a].at = "answered" THEN agents[a]
                     ELSE [agents[a] EXCEPT !.at = "refused"]
    BY <1>1
  <2>2. Heard(a) => agents[a] \in Agent
    BY AgentFacts DEF Heard, WslInv, CallIsServed
  <2>3. Heard(a) => [agents[a] EXCEPT !.at = "refused"] \in Agent
    BY <2>2 DEF Agent, Steps
  <2> QED BY <2>1, <2>2, <2>3 DEF Agent
<1>3. agents' \in [Agents -> {NoAgent} \cup Agent]
  BY <1>1, <1>2
<1>4. Typed'
  <2>1. \A a \in Agents : Live(a)' => agents'[a] \in Agent
    BY <1>3 DEF Live, NoAgent
  <2> QED BY <1>1, <1>3, <2>1 DEF Typed, WslInv, WslTypeOK, Agent
<1>5. CallIsServed'
  BY <1>1, <1>2 DEF WslInv, CallIsServed, Live, Heard, Typed, WslTypeOK
<1>6. UnheardIsLate'
  <2>1. \A a \in Agents : Heard(a)' <=> Heard(a)
    BY <1>1 DEF Heard
  <2> QED BY <1>2, <2>1 DEF UnheardIsLate, Live, NoAgent
<1>7. OneHolder'
  <2>1. \A a \in Agents : agents'[a].at \in {"free", "answered", "refused"}
    BY <1>2 DEF NoAgent
  <2> QED BY <2>1 DEF OneHolder, Holding
<1>8. BrowsersAreKnown'
  BY <1>1 DEF BrowsersAreKnown, OneRecordedBrowser
<1>9. ASSUME NEW s \in Silos \ ghost'.late PROVE HostKnows(s)'
  <2>1. HostKnows(s)
    BY <1>1 DEF WslInv
  <2>2. Kept(s)' => Kept(s)
    BY <1>1 DEF Kept, Recorded
  <2>3. /\ CallAt("configure", s, {"answered"})' => CallAt("configure", s, {"answered"})
        /\ CallAt("detach", s, {"unlinked", "emptied", "answered"})' =>
              CallAt("detach", s, {"unlinked", "emptied", "answered"})
    BY <1>1, <1>2 DEF CallAt, Heard, WslInv, Typed, WslTypeOK
  <2>4. \A net : Evident(s, net)' <=> Evident(s, net)
    BY <1>1 DEF Evident
  <2>5. (host[s] = "bound" => Evident(s, ghost.acked[s]))'
    BY <1>1, <2>1 DEF HostKnows, Evident
  <2>6. (CallAt("configure", s, {"answered"}) => Evident(s, call.net))'
    BY <1>1, <2>1, <2>3 DEF HostKnows, Evident
  <2> QED BY <1>1, <2>1, <2>2, <2>3, <2>5, <2>6 DEF HostKnows
<1> QED BY <1>4, <1>5, <1>6, <1>7, <1>8, <1>9 DEF WslInv

-----------------------------------------------------------------------------
(* The specification *)

\* The invariant holds at first.
LEMMA GuestStarts == ASSUME WslInit PROVE WslInv
<1>1. Typed
  BY DEF WslInit, Typed, WslTypeOK, Live, NoAgent, NoCall, NoReceipt, Receipt
<1>2. CallIsServed /\ UnheardIsLate /\ OneHolder /\ BrowsersAreKnown
  BY DEF WslInit, CallIsServed, UnheardIsLate, Live, NoAgent, OneHolder, Holding,
         BrowsersAreKnown, OneRecordedBrowser
<1>3. ASSUME NEW s \in Silos PROVE HostKnows(s)
  BY DEF WslInit, HostKnows, Evident, CallAt, Kept, Recorded
<1> QED BY <1>1, <1>2, <1>3 DEF WslInv

\* Every step keeps the invariant.
LEMMA GuestStep == ASSUME WslGuestAssumption, WslInv, WslNext PROVE WslInv'
<1>1. ASSUME NEW s \in Silos, NEW net \in Networks, ConfigureNetwork(s, net) PROVE WslInv'
  BY <1>1, ConfigureNetworkKeeps
<1>2. ASSUME NEW s \in Silos, NEW op \in {"start", "stop", "health", "logs"}, BoundCall(s, op)
      PROVE WslInv'
  BY <1>2, BoundCallKeeps
<1>3. ASSUME NEW s \in Silos, Destroy(s) PROVE WslInv'
  BY <1>3, DestroyKeeps
<1>4. ASSUME NEW a \in Agents, AgentStep(a) PROVE WslInv'
  BY <1>4, AgentStepKeeps
<1> QED BY <1>1, <1>2, <1>3, <1>4, CallEndsKeeps, CallAbandonedKeeps, BrowserEndsKeeps,
           EvidenceExpiresKeeps, GuestShutdownKeeps DEF WslNext

\* The guest that rests keeps it.
LEMMA GuestRestsAll == ASSUME WslInv, UNCHANGED wslVars PROVE WslInv'
<1>1. Typed'
  BY DEF wslVars, Typed, WslInv, WslTypeOK, Live
<1>2. CallIsServed' /\ UnheardIsLate' /\ OneHolder' /\ BrowsersAreKnown'
  BY DEF wslVars, WslInv, CallIsServed, UnheardIsLate, OneHolder, BrowsersAreKnown,
         OneRecordedBrowser, Live, Heard
<1>3. ASSUME NEW s \in Silos \ ghost'.late PROVE HostKnows(s)'
  <2>1. HostKnows(s)
    BY DEF wslVars, WslInv
  <2> QED BY <2>1 DEF wslVars, HostKnows, Evident, CallAt, Kept, Recorded
<1> QED BY <1>1, <1>2, <1>3 DEF WslInv

\* A new Chromium is that of an agent which starts it, with evidence.
LEMMA NewIsStarted ==
  ASSUME WslInv, WslNext, NEW n \in browser' \ browser, n.pid = "new"
  PROVE \E a \in Agents : /\ StartBrowser(a) /\ n.silo = agents[a].silo
                          /\ Refresh(agents[a].silo) /\ n.net = disk.ready[agents[a].silo].net
<1>1. browser \subseteq Chromium
  BY DEF WslInv, Typed, WslTypeOK
<1>2. ASSUME NEW a \in Agents, AgentStep(a) PROVE StartBrowser(a)
  <2>1. CASE RecordPid(a)
    <3>1. n \in {[b EXCEPT !.pid = "known"] : b \in Started(agents[a].silo)}
      BY <2>1 DEF RecordPid
    <3>2. PICK b \in browser : n = [b EXCEPT !.pid = "known"]
      BY <3>1 DEF Started
    <3> QED BY <1>1, <3>2 DEF Chromium
  <2>2. CASE AgentKilled(a)
    <3>1. n \in {[b EXCEPT !.pid = Lost] : b \in Started(agents[a].silo)}
      BY <2>2 DEF AgentKilled
    <3>2. PICK b \in browser : n = [b EXCEPT !.pid = Lost]
      BY <3>1 DEF Started
    <3> QED BY <1>1, <3>2 DEF Chromium, Lost
  <2> QED BY <1>2, <2>1, <2>2 DEF AgentStep, Arrive, BindSingleSilo, GuestConfigure, GuestProbe,
        TerminateOwnedBrowser, Health, BoundedLogs, DetachSilo, RemoveSiloRoot, FinishDetach
<1>3. \E a \in Agents : AgentStep(a)
  BY DEF WslNext, ConfigureNetwork, BoundCall, Destroy, CallEnds, CallAbandoned, BrowserEnds,
         EvidenceExpires, GuestShutdown
<1>4. PICK a \in Agents : StartBrowser(a)
  BY <1>2, <1>3
<1>5. \E k \in Inherits :
         n = [silo |-> agents[a].silo, net |-> disk.ready[agents[a].silo].net,
              pid |-> "new", keeps |-> k]
  BY <1>4 DEF StartBrowser
<1>6. Refresh(agents[a].silo)
  BY <1>4 DEF StartBrowser
<1> QED BY <1>4, <1>5, <1>6

\* While the calls of a Silo are heard, what starts is what was acknowledged last.
LEMMA StartsAreHeard ==
  ASSUME WslInv, WslNext, NEW s \in Silos \ ghost.late
  PROVE StartsAsAcknowledged(s)
<1> SUFFICES ASSUME NEW n \in browser' \ browser, n.silo = s, n.pid = "new"
             PROVE host[s] = "bound" /\ n.net = ghost.acked[s]
  BY DEF StartsAsAcknowledged
<1>1. PICK a \in Agents : /\ StartBrowser(a) /\ s = agents[a].silo
                          /\ Refresh(s) /\ n.net = disk.ready[s].net
  BY NewIsStarted
<1>2. Live(a) /\ agents[a].op = "start"
  BY <1>1 DEF StartBrowser, At
<1>3. host[s] = "bound"
  BY <1>1, <1>2, HeardFacts DEF WslInv, CallIsServed
<1>4. Evident(s, ghost.acked[s])
  BY <1>3 DEF WslInv, HostKnows
<1> QED BY <1>1, <1>3, <1>4 DEF Evident, Refresh

\* A profile goes only when no Chromium but a lost one uses it.
LEMMA ProfilesStay ==
  ASSUME WslInv, WslNext, NEW s \in disk.profile \ disk'.profile, NEW b \in browser, b.silo = s
  PROVE b.pid = Lost
<1>1. PICK a \in Agents : DetachSilo(a)
  <2>1. disk \in Disk
    BY DiskIsOfGuest DEF OfGuest
  <2>2. ASSUME NEW a \in Agents, AgentStep(a), ~DetachSilo(a) PROVE FALSE
    <3>1. CASE StartBrowser(a)
      <4> DEFINE d == Swept(agents[a].silo)
                 made == [d EXCEPT !.profile = @ \cup {agents[a].silo}]
      <4>1. d \in Disk /\ d.profile = disk.profile
        BY <2>1 DEF Swept, Disk
      <4>2. \/ disk' = [d EXCEPT !.ready[agents[a].silo] = NoReceipt]
            \/ disk' = made
            \/ disk' = [made EXCEPT !.active = agents[a].silo]
        BY <3>1 DEF StartBrowser, RevokedOrStale
      <4> HIDE DEF d
      <4>3. made.profile = disk.profile \cup {agents[a].silo}
            /\ [made EXCEPT !.active = agents[a].silo].profile = made.profile
            /\ [d EXCEPT !.ready[agents[a].silo] = NoReceipt].profile = d.profile
        BY <4>1 DEF Disk
      <4> HIDE DEF made
      <4> QED BY <4>1, <4>2, <4>3
    <3>2. CASE GuestConfigure(a) \/ GuestProbe(a) \/ Health(a)
      BY <2>1, <3>2 DEF GuestConfigure, GuestProbe, Health, RevokeNetworkAuthorization,
                        RevokedOrStale, Swept, Disk
    <3>3. CASE RecordPid(a) \/ TerminateOwnedBrowser(a)
      BY <2>1, <3>3 DEF RecordPid, TerminateOwnedBrowser, ReleaseActiveSilo, Disk
    <3>4. CASE Arrive(a) \/ BindSingleSilo(a) \/ BoundedLogs(a) \/ RemoveSiloRoot(a)
                \/ FinishDetach(a) \/ AgentKilled(a)
      BY <2>1, <3>4 DEF Arrive, BindSingleSilo, BoundedLogs, RemoveSiloRoot, FinishDetach, AgentKilled,
                        Disk
    <3> QED BY <2>2, <3>1, <3>2, <3>3, <3>4 DEF AgentStep
  <2>3. ~EvidenceExpires
    BY <2>1 DEF EvidenceExpires, Disk
  <2>4. \E a \in Agents : AgentStep(a)
    BY <2>3 DEF WslNext, ConfigureNetwork, BoundCall, Destroy, CallEnds, CallAbandoned,
                BrowserEnds, GuestShutdown
  <2> QED BY <2>2, <2>4
<1> DEFINE own == agents[a].silo
<1>2. agents[a].at = "holds" /\ disk \in Disk
  BY <1>1, DiskIsOfGuest DEF DetachSilo, At, OfGuest
<1>3. CASE disk' = disk
  BY <1>3
<1>4. CASE /\ ~ReadOwnedPid(own)
           /\ disk' = ReleaseActiveSilo(own, [disk EXCEPT
                !.profile = @ \ {own}, !.ready[own] = NoReceipt, !.pid = @ \ {own}])
  <2>1. Tidy(a) /\ ~Recorded(own)
    BY <1>2, <1>4, UnlinkedFiles
  <2>2. s = own
    BY <2>1, HolderFacts, <1>2, DiskIsOfGuest DEF Tidy, Holding, OfGuest, Disk
  <2> QED BY <2>1, <2>2 DEF Recorded
<1> QED BY <1>1, <1>3, <1>4 DEF DetachSilo

\* Whatever the agents do and whichever call is not heard, the guest keeps the invariant.
THEOREM GuestInvariant == WslGuestAssumption => (WslSpec => []WslInv)
<1> SUFFICES ASSUME WslGuestAssumption PROVE WslSpec => []WslInv
  OBVIOUS
<1>1. WslInit => WslInv
  BY GuestStarts
<1>2. WslInv /\ [WslNext]_wslVars => WslInv'
  BY GuestStep, GuestRestsAll
<1> QED BY <1>1, <1>2, PTL DEF WslSpec
=============================================================================
