------------------------------ MODULE WslGuest ------------------------------
(***************************************************************************)
(* The WSL Chromium backend of the application and the agent script that   *)
(* one distribution runs for it.  The application makes one call at a      *)
(* time; each call starts an agent in the guest.  A call that times out    *)
(* kills wsl.exe only, so its agent may go on, wait for the guest's lock   *)
(* and act after a later call.  The lock is a descriptor: a Chromium that  *)
(* the agent starts inherits it, and the script closes it nowhere.         *)
(***************************************************************************)
EXTENDS FiniteSets, Naturals

CONSTANTS Silos,     \* Silos whose target is this distribution
          Agents,    \* agents that may run at once in the guest (bound)
          MaxLeftovers, \* torn bindings, temporary files and lost Chromiums
                     \* that may exist at once (bound)
          Inherits   \* whether a Chromium keeps the descriptors it inherits

VARIABLES host,      \* each Silo's directory and binding on the host
          call,      \* the call the application waits for
          agents,    \* the agents in the guest
          lock,      \* the agents that hold the guest's lock
          disk,      \* what the guest's file system holds
          browser,   \* the Chromium processes, with the Silo and network of each
          ghost      \* what was acknowledged, and whose calls went unanswered

wslVars == <<host, call, agents, lock, disk, browser, ghost>>

Nothing == "none"
WslGuestAssumption == Nothing \notin Silos /\ Inherits \in SUBSET BOOLEAN \ {{}}

Networks == {"direct", "proxy"}
Ops == {"configure", "start", "stop", "health", "logs", "detach"}
Steps == {"arriving", "waiting", "holds", "probe", "spawned", "unlinked",
          "emptied", "answered", "refused"}
NoAgent == [at |-> "free"]
NoCall == [op |-> Nothing]
Lost == "lost"       \* a Chromium that no file of the guest records

Live(a) == agents[a].at # "free"
Receipt == [net : Networks \cup {Nothing}, fresh : BOOLEAN]
NoReceipt == [net |-> Nothing, fresh |-> FALSE]
Chromium == [silo : Silos, net : Networks, pid : {"new", "known", Lost}, keeps : BOOLEAN]

WslTypeOK ==
    /\ host \in [Silos -> {"absent", "empty", "bound", "torn"}]
    /\ \/ call = NoCall
       \/ call \in [op : Ops, silo : Silos, net : Networks, agent : Agents]
    /\ \A a \in Agents : Live(a) =>
          agents[a] \in [op : Ops, silo : Silos, net : Networks, at : Steps]
    /\ lock \subseteq Agents
    /\ disk \in [bound : Silos \cup {Nothing}, active : Silos \cup {Nothing},
                 dir : SUBSET Silos, profile : SUBSET Silos, pid : SUBSET Silos,
                 residue : SUBSET Silos, ready : [Silos -> Receipt]]
    /\ browser \subseteq Chromium
    /\ ghost \in [acked : [Silos -> Networks \cup {Nothing}], late : SUBSET Silos]

WslInit ==
    /\ host = [s \in Silos |-> "absent"]
    /\ call = NoCall
    /\ agents = [a \in Agents |-> NoAgent]
    /\ lock = {}
    /\ disk = [bound |-> Nothing, active |-> Nothing, dir |-> {}, profile |-> {},
               pid |-> {}, residue |-> {}, ready |-> [s \in Silos |-> NoReceipt]]
    /\ browser = {}
    /\ ghost = [acked |-> [s \in Silos |-> Nothing], late |-> {}]

Leftovers == Cardinality({s \in Silos : host[s] = "torn"}) + Cardinality(disk.residue)
             + Cardinality({b \in browser : b.pid = Lost})

-----------------------------------------------------------------------------
(* The application.                                                         *)

\* A call starts a new agent, which reaches the guest's files later.  Those
\* that are free are all alike.
Run(op, s, net) ==
    LET a == CHOOSE b \in Agents : ~Live(b) IN
    /\ \E b \in Agents : ~Live(b)
    /\ agents' = [agents EXCEPT ![a] = [op |-> op, silo |-> s, net |-> net, at |-> "arriving"]]
    /\ call' = [op |-> op, silo |-> s, net |-> net, agent |-> a]

\* A valid request drops the host's binding before the guest is asked.
InvalidateBinding(s) ==
    /\ host[s] # "torn"
    /\ host' = [host EXCEPT ![s] = "empty"]
    /\ ghost' = [ghost EXCEPT !.acked[s] = Nothing]

ConfigureNetwork(s, net) ==
    /\ call = NoCall
    /\ InvalidateBinding(s)
    /\ Run("configure", s, net)
    /\ UNCHANGED <<lock, disk, browser>>

\* Start, stop, health and logs need the binding of this Silo.
BoundCall(s, op) ==
    /\ call = NoCall
    /\ host[s] = "bound"
    /\ Run(op, s, "direct")
    /\ UNCHANGED <<host, lock, disk, browser, ghost>>

\* Detaching needs no binding, but refuses one that does not match.
Destroy(s) ==
    /\ call = NoCall
    /\ host[s] # "torn"
    /\ Run("detach", s, "direct")
    /\ UNCHANGED <<host, lock, disk, browser, ghost>>

Answered == call # NoCall /\ agents[call.agent].at = "answered"
Free(a) == agents' = [agents EXCEPT ![a] = NoAgent]

\* The evidence of a configuration binds the Silo; a crash while the binding
\* is written leaves part of it, which nothing accepts and nothing removes.
EndConfigure ==
    /\ Answered /\ call.op = "configure"
    /\ \/ /\ host' = [host EXCEPT ![call.silo] = "bound"]
          /\ ghost' = [ghost EXCEPT !.acked[call.silo] = call.net]
       \/ /\ Leftovers < MaxLeftovers
          /\ host' = [host EXCEPT ![call.silo] = "torn"]
          /\ UNCHANGED ghost

\* The binding and then the directory go; a crash may keep the directory.
EndDestroy ==
    /\ Answered /\ call.op = "detach"
    /\ \/ host' = [host EXCEPT ![call.silo] = "absent"]
       \/ host[call.silo] # "absent" /\ host' = [host EXCEPT ![call.silo] = "empty"]
    /\ ghost' = [ghost EXCEPT !.acked[call.silo] = Nothing]

EndBoundCall ==
    /\ Answered /\ call.op \notin {"configure", "detach"}
    /\ UNCHANGED <<host, ghost>>

Refused ==
    /\ call # NoCall /\ agents[call.agent].at = "refused"
    /\ UNCHANGED <<host, ghost>>

CallEnds ==
    /\ EndConfigure \/ EndDestroy \/ EndBoundCall \/ Refused
    /\ call' = NoCall
    /\ Free(call.agent)
    /\ UNCHANGED <<lock, disk, browser>>

\* The deadline, or the end of the application: the agent goes on unheard.
CallAbandoned ==
    /\ call # NoCall /\ agents[call.agent].at \notin {"answered", "refused"}
    /\ \A a \in Agents \ {call.agent} : ~Live(a)  \* one agent unheard at a time (bound)
    /\ call' = NoCall
    /\ ghost' = [ghost EXCEPT !.late = @ \cup {call.silo}]
    /\ UNCHANGED <<host, agents, lock, disk, browser>>

-----------------------------------------------------------------------------
(* The agent in the guest.                                                  *)

At(a, step) == Live(a) /\ agents[a].at = step
Heard(a) == call # NoCall /\ call.agent = a
Goto(a, step) == agents' = [agents EXCEPT ![a].at = step]

\* An agent that nobody hears simply ends.
End(a, verdict) ==
    /\ lock' = lock \ {a}
    /\ IF Heard(a) THEN Goto(a, verdict) ELSE Free(a)
Answer(a) == End(a, "answered")
Fail(a) == End(a, "refused")

\* The recorded process is alive and runs this Silo's profile.
ReadOwnedPid(s) == s \in disk.pid /\ \E b \in browser : b.silo = s /\ b.pid = "known"

\* The Silo's directory is made before the lock is asked for.
Arrive(a) ==
    /\ At(a, "arriving")
    /\ disk' = [disk EXCEPT !.dir = @ \cup {agents[a].silo}]
    /\ Goto(a, "waiting")
    /\ UNCHANGED <<host, call, lock, browser, ghost>>

\* A Chromium that kept the agent's descriptors keeps the lock.
LockIsFree == lock = {} /\ ~\E b \in browser : b.keeps

\* With the lock, the distribution is bound to the first Silo that comes.
BindSingleSilo(a) ==
    LET s == agents[a].silo IN
    /\ At(a, "waiting") /\ LockIsFree
    /\ \/ /\ s \in disk.dir /\ disk.bound \in {Nothing, s}
          /\ disk' = [disk EXCEPT !.bound = s]
          /\ lock' = {a} /\ Goto(a, "holds")
       \/ /\ s \notin disk.dir \/ disk.bound \notin {Nothing, s}
          /\ Fail(a) /\ UNCHANGED disk
    /\ UNCHANGED <<host, call, browser, ghost>>

ReleaseActiveSilo(s, d) == IF d.active = s THEN [d EXCEPT !.active = Nothing] ELSE d
RevokeNetworkAuthorization(s) == disk' = [disk EXCEPT !.ready[s] = NoReceipt]

\* No agent of s but a heard one is left when the old receipt goes: what the
\* unheard ones did is undone.
Settle(a, s) ==
    ghost' = [ghost EXCEPT !.late =
       IF Heard(a) /\ \A b \in Agents \ {a} : Live(b) => agents[b].silo # s
       THEN @ \ {s} ELSE @]

\* A stopped Silo loses its old authorization before the request is read.
GuestConfigure(a) ==
    LET s == agents[a].silo IN
    /\ At(a, "holds") /\ agents[a].op = "configure"
    /\ \/ ReadOwnedPid(s) /\ Fail(a) /\ UNCHANGED <<disk, ghost>>
       \/ /\ ~ReadOwnedPid(s)
          /\ RevokeNetworkAuthorization(s) /\ Settle(a, s)
          /\ Goto(a, "probe") /\ UNCHANGED lock
    /\ UNCHANGED <<host, call, browser>>

\* DIRECT needs no evidence; a proxy's exit, and its DNS, are probed.  What
\* wsl.exe had not passed on of the request when it was killed is missing.
GuestProbe(a) ==
    LET s == agents[a].silo
        Write == disk' = [disk EXCEPT !.ready[s] = [net |-> agents[a].net, fresh |-> TRUE]]
    IN
    /\ At(a, "probe")
    /\ \/ Write /\ Answer(a)
       \/ /\ agents[a].net # "direct" \/ ~Heard(a)
          /\ RevokeNetworkAuthorization(s) /\ Fail(a)
    /\ UNCHANGED <<host, call, browser, ghost>>

\* Evidence of a proxy is renewed while it is fresh and its probes succeed.
Refresh(s) ==
    /\ disk.ready[s] # NoReceipt
    /\ disk.ready[s].net = "direct" \/ disk.ready[s].fresh

Swept(s) == IF ReadOwnedPid(s) THEN disk ELSE [disk EXCEPT !.pid = @ \ {s}]

\* No receipt, a stale one or a failed probe: the authorization is revoked.
RevokedOrStale(s) ==
    /\ disk.ready[s] # NoReceipt => disk.ready[s].net # "direct"
    /\ disk' = [Swept(s) EXCEPT !.ready[s] = NoReceipt]

\* Another Silo's recorded Chromium refuses this one.
ClaimActiveSilo(s) == disk.active \in {Nothing, s} \/ ~ReadOwnedPid(disk.active)

StartBrowser(a) ==
    LET s == agents[a].silo
        Made == [Swept(s) EXCEPT !.profile = @ \cup {s}]
    IN
    /\ At(a, "holds") /\ agents[a].op = "start"
    /\ \/ RevokedOrStale(s) /\ Fail(a) /\ UNCHANGED browser
       \/ /\ Refresh(s)
          /\ \/ ~ClaimActiveSilo(s) /\ disk' = Made /\ Fail(a) /\ UNCHANGED browser
             \/ /\ ClaimActiveSilo(s)
                /\ disk' = [Made EXCEPT !.active = s]
                /\ \/ ReadOwnedPid(s) /\ Answer(a) /\ UNCHANGED browser
                   \/ /\ ~ReadOwnedPid(s)
                      /\ \E k \in Inherits : browser' = browser \cup
                            {[silo |-> s, net |-> disk.ready[s].net, pid |-> "new", keeps |-> k]}
                      /\ Goto(a, "spawned") /\ UNCHANGED lock
    /\ UNCHANGED <<host, call, ghost>>

Started(s) == {b \in browser : b.silo = s /\ b.pid = "new"}

\* The new process is recorded, and must still run a second later.
RecordPid(a) ==
    LET s == agents[a].silo IN
    /\ At(a, "spawned")
    /\ \/ /\ Started(s) # {}
          /\ browser' = (browser \ Started(s)) \cup {[b EXCEPT !.pid = "known"] : b \in Started(s)}
          /\ disk' = [disk EXCEPT !.pid = @ \cup {s}]
          /\ Answer(a)
       \/ /\ Started(s) = {}
          /\ disk' = ReleaseActiveSilo(s, [disk EXCEPT !.pid = @ \ {s}])
          /\ Fail(a) /\ UNCHANGED browser
    /\ UNCHANGED <<host, call, ghost>>

\* A recorded Chromium is asked to end and given six seconds.
TerminateOwnedBrowser(a) ==
    LET s == agents[a].silo
        Owned == {b \in browser : b.silo = s /\ b.pid = "known"}
        Gone == disk' = ReleaseActiveSilo(s, [disk EXCEPT !.pid = @ \ {s}])
    IN
    /\ At(a, "holds") /\ agents[a].op = "stop"
    /\ \/ ~ReadOwnedPid(s) /\ Gone /\ Answer(a) /\ UNCHANGED browser
       \/ /\ ReadOwnedPid(s)
          /\ \/ browser' = browser \ Owned /\ Gone /\ Answer(a)
             \/ Fail(a) /\ UNCHANGED <<disk, browser>>
    /\ UNCHANGED <<host, call, ghost>>

Health(a) ==
    LET s == agents[a].silo IN
    /\ At(a, "holds") /\ agents[a].op = "health"
    /\ \/ ~ReadOwnedPid(s) /\ Fail(a) /\ UNCHANGED disk
       \/ ReadOwnedPid(s) /\ RevokedOrStale(s) /\ Fail(a)
       \/ ReadOwnedPid(s) /\ Refresh(s) /\ Answer(a) /\ UNCHANGED disk
    /\ UNCHANGED <<host, call, browser, ghost>>

BoundedLogs(a) ==
    /\ At(a, "holds") /\ agents[a].op = "logs"
    /\ Answer(a)
    /\ UNCHANGED <<host, call, disk, browser, ghost>>

\* The profile and the receipts go first, the directory and the distribution's
\* binding only when nothing else is left in it.
DetachSilo(a) ==
    LET s == agents[a].silo IN
    /\ At(a, "holds") /\ agents[a].op = "detach"
    /\ \/ (ReadOwnedPid(s) \/ ~Heard(a)) /\ Fail(a) /\ UNCHANGED <<disk, ghost>>
       \/ /\ ~ReadOwnedPid(s)
          /\ disk' = ReleaseActiveSilo(s, [disk EXCEPT
                !.profile = @ \ {s}, !.ready[s] = NoReceipt, !.pid = @ \ {s}])
          /\ Settle(a, s)
          /\ Goto(a, "unlinked") /\ UNCHANGED lock
    /\ UNCHANGED <<host, call, browser>>

RemoveSiloRoot(a) ==
    LET s == agents[a].silo IN
    /\ At(a, "unlinked")
    /\ \/ s \in disk.residue /\ Fail(a) /\ UNCHANGED disk
       \/ /\ s \notin disk.residue
          /\ disk' = [disk EXCEPT !.dir = @ \ {s}]
          /\ Goto(a, "emptied") /\ UNCHANGED lock
    /\ UNCHANGED <<host, call, browser, ghost>>

\* An agent of the same Silo that waits for the lock may have made the directory again.
FinishDetach(a) ==
    /\ At(a, "emptied")
    /\ disk' = [disk EXCEPT !.bound = Nothing]
    /\ Answer(a)
    /\ UNCHANGED <<host, call, browser, ghost>>

\* An agent is killed: what it had not done stays undone, a temporary file
\* may stay, and a Chromium it started but did not record is lost.
AgentKilled(a) ==
    LET s == agents[a].silo IN
    /\ Live(a) /\ agents[a].at \notin {"answered", "refused"}
    /\ agents[a].at = "spawned" => Leftovers < MaxLeftovers
    /\ End(a, "refused")
    /\ browser' = IF agents[a].at # "spawned" THEN browser
                  ELSE (browser \ Started(s)) \cup {[b EXCEPT !.pid = Lost] : b \in Started(s)}
    /\ \/ UNCHANGED disk
       \/ agents[a].at = "probe" /\ Leftovers < MaxLeftovers /\ disk' = [disk EXCEPT !.residue = @ \cup {s}]
    /\ UNCHANGED <<host, call, ghost>>

\* A Chromium ends, by its user or by itself.
BrowserEnds ==
    /\ \E b \in browser : browser' = browser \ {b}
    /\ UNCHANGED <<host, call, agents, lock, disk, ghost>>

\* Evidence of a proxy holds for two minutes.
EvidenceExpires ==
    /\ \E s \in Silos :
          /\ disk.ready[s] # NoReceipt /\ disk.ready[s].fresh /\ disk.ready[s].net # "direct"
          /\ disk' = [disk EXCEPT !.ready[s].fresh = FALSE]
    /\ UNCHANGED <<host, call, agents, lock, browser, ghost>>

\* The distribution ends: its processes go, its files stay.
GuestShutdown ==
    /\ agents' = [a \in Agents |->
          IF ~Heard(a) THEN NoAgent
          ELSE IF agents[a].at = "answered" THEN agents[a]
          ELSE [agents[a] EXCEPT !.at = "refused"]]
    /\ lock' = {} /\ browser' = {}
    /\ UNCHANGED <<host, call, disk, ghost>>

AgentStep(a) ==
    \/ Arrive(a) \/ BindSingleSilo(a)
    \/ GuestConfigure(a) \/ GuestProbe(a)
    \/ StartBrowser(a) \/ RecordPid(a)
    \/ TerminateOwnedBrowser(a) \/ Health(a) \/ BoundedLogs(a)
    \/ DetachSilo(a) \/ RemoveSiloRoot(a) \/ FinishDetach(a)
    \/ AgentKilled(a)

WslNext ==
    \/ \E s \in Silos, net \in Networks : ConfigureNetwork(s, net)
    \/ \E s \in Silos, op \in {"start", "stop", "health", "logs"} : BoundCall(s, op)
    \/ \E s \in Silos : Destroy(s)
    \/ CallEnds \/ CallAbandoned
    \/ \E a \in Agents : AgentStep(a)
    \/ BrowserEnds \/ EvidenceExpires \/ GuestShutdown

WslSpec == WslInit /\ [][WslNext]_wslVars

-----------------------------------------------------------------------------
(* Properties.                                                              *)

\* While the answers of s are heard, a Chromium starts only for a bound Silo
\* and with the network whose evidence was acknowledged last
\* (environment_backend.rs:1566-1569).
StartsAsAcknowledged(s) ==
    \A b \in browser' \ browser :
       b.silo = s /\ b.pid = "new" => host[s] = "bound" /\ b.net = ghost.acked[s]
HeardStartsAreAcknowledged ==
    [][\A s \in Silos \ ghost.late : StartsAsAcknowledged(s)]_wslVars

\* Two Chromiums run in the distribution only when one of them was lost: the
\* agent that started it died before it recorded the process.
OneRecordedBrowser ==
    \A b, c \in {b \in browser : b.pid # Lost} : b = c

\* What the guest keeps of a Silo is known to the host, which refuses to
\* archive or delete a Silo, or restore a Vault, while a directory is there.
GuestIsTracked ==
    \A s \in Silos \ ghost.late :
       \/ s \in disk.profile
       \/ disk.ready[s] # NoReceipt
       \/ \E b \in browser : b.silo = s /\ b.pid # Lost
       => host[s] # "absent"

\* No profile is removed from under a Chromium that was recorded.
ProfilesOutliveBrowsers ==
    [][\A s \in disk.profile \ disk'.profile :
          \A b \in browser : b.silo = s => b.pid = Lost]_wslVars

\* A late answer of one call never starts a Chromium with a network the
\* application has replaced since.
NeverStale == [][\A s \in Silos : StartsAsAcknowledged(s)]_wslVars
=============================================================================
