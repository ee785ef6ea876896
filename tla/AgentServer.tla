---------------------------- MODULE AgentServer -----------------------------
(***************************************************************************)
(* The HTTPS listener of the Agent (https_server.rs) and the provider      *)
(* process behind it (provider_bridge.rs): one thread accepts connections, *)
(* runs maintenance and serves the requests that a bounded set of workers  *)
(* has read, one per connection, and waits for the provider meanwhile.     *)
(*                                                                         *)
(* A worker's read and write end by the connection timeout at the latest,  *)
(* the provider's process by the provider timeout; what a process that it  *)
(* left behind does is up to that process.  The content of requests is in  *)
(* AuthStore and AgentCore.                                                *)
(***************************************************************************)
EXTENDS Naturals, FiniteSets, Sequences

CONSTANTS Clients,  \* each connects again and again
          Nobody,
          Limit,    \* MAX_IN_FLIGHT_CONNECTIONS
          MaxSweep, \* bound on the provider calls of one maintenance
          Stops     \* whether the caller's should_stop ever says so

ListenerAssumption == /\ Nobody \notin Clients /\ IsFiniteSet(Clients)
                      /\ Limit \in Nat /\ MaxSweep \in Nat

VARIABLES backlog,  \* connections the listener has not accepted
          worker,   \* what the worker of each connection does
          permits,  \* ConnectionAdmission.active
          queue,    \* requests on their way to the serving thread
          main,     \* what that thread does
          serving,  \* the connection whose request it serves
          sweep,    \* provider calls the maintenance still has to make
          due,      \* next_maintenance has passed
          child,    \* the provider process
          orphan,   \* a process it left behind holds its output
          stopping

vars == <<backlog, worker, permits, queue, main, serving, sweep, due, child, orphan, stopping>>

Working == {"reading", "sending", "waiting", "writing", "rejecting", "ending"}

TypeOK == /\ backlog \in Seq(Clients)
          /\ worker \in [Clients -> Working \cup {"none"}]
          /\ permits \in 0..Limit
          /\ queue \in Seq(Clients)
          /\ main \in {"top", "maintain", "receive", "serve", "accept", "spawn", "await",
                       "join", "closing", "stopped", "failed"}
          /\ serving \in Clients \cup {Nobody}
          /\ sweep \in 0..MaxSweep
          /\ due \in BOOLEAN /\ orphan \in BOOLEAN /\ stopping \in BOOLEAN
          /\ child \in {"none", "running", "exited"}

Init == /\ backlog = <<>>
        /\ worker = [c \in Clients |-> "none"]
        /\ permits = 0
        /\ queue = <<>>
        /\ main = "top" /\ serving = Nobody /\ sweep = 0 /\ due = TRUE
        /\ child = "none" /\ orphan = FALSE
        /\ stopping = FALSE

Elements(s) == {s[k] : k \in 1..Len(s)}
Workers == {c \in Clients : worker[c] # "none"}
Over == main \in {"stopped", "failed"}
Closed == main = "closing" \/ Over

provider == <<child, orphan>>
-----------------------------------------------------------------------------
(* Clients and workers *)

Connect(c) ==
    /\ ~Over
    /\ worker[c] = "none" /\ c \notin Elements(backlog)
    /\ backlog' = Append(backlog, c)
    /\ UNCHANGED <<worker, permits, queue, main, serving, sweep, due, provider, stopping>>

Move(c, from, to) ==
    /\ worker[c] = from
    /\ worker' = [worker EXCEPT ![c] = to]
    /\ UNCHANGED <<backlog, main, serving, sweep, due, provider, stopping>>

\* read_http_request: a request, or a rejection (parse error, end, timeout).
ReadRequest(c) == /\ Move(c, "reading", "sending") \/ Move(c, "reading", "rejecting")
                  /\ UNCHANGED <<permits, queue>>

\* Into the channel, unless the serving thread has dropped it.
SendRequest(c) ==
    IF Closed
    THEN Move(c, "sending", "ending") /\ UNCHANGED <<permits, queue>>
    ELSE /\ Len(queue) < Limit
         /\ queue' = Append(queue, c)
         /\ Move(c, "sending", "waiting")
         /\ UNCHANGED permits

\* The serving thread dropped the request without an answer.
Unanswered(c) == /\ Closed
                 /\ c \notin Elements(queue)
                 /\ Move(c, "waiting", "ending")
                 /\ UNCHANGED <<permits, queue>>

\* The peer takes the answer, or the write fails.
Write(c) == /\ Move(c, "writing", "ending") \/ Move(c, "rejecting", "ending")
            /\ UNCHANGED <<permits, queue>>

\* Mutant: only a connection that was served returns its permit.
EndKeepsPermit(c) == /\ \/ Move(c, "ending", "none") /\ permits' = permits - 1
                        \/ Move(c, "rejecting", "none") /\ UNCHANGED permits
                     /\ UNCHANGED queue

\* The worker ends, and its ConnectionPermit with it.
End(c) == /\ Move(c, "ending", "none")
          /\ permits' = permits - 1
          /\ UNCHANGED queue
-----------------------------------------------------------------------------
(* The serving thread *)

Loop(next) == /\ main' = next
              /\ UNCHANGED stopping

\* Mutant: maintenance waits for a quiet moment.
TopWhenQuiet ==
    /\ main = "top"
    /\ IF stopping THEN Loop("closing") /\ UNCHANGED sweep
       ELSE IF due /\ queue = <<>> /\ backlog = <<>>
            THEN Loop("maintain") /\ sweep' \in 0..MaxSweep
            ELSE Loop("receive") /\ UNCHANGED sweep
    /\ UNCHANGED <<backlog, worker, permits, queue, serving, due, provider>>

Top ==
    /\ main = "top"
    /\ IF stopping THEN Loop("closing") /\ UNCHANGED sweep
       ELSE IF due THEN Loop("maintain") /\ sweep' \in 0..MaxSweep
            ELSE Loop("receive") /\ UNCHANGED sweep
    /\ UNCHANGED <<backlog, worker, permits, queue, serving, due, provider>>

\* maintenance_tick; the next one is due an interval after this one ended.
Maintain ==
    /\ main = "maintain"
    /\ IF sweep > 0 THEN Loop("spawn") /\ UNCHANGED due
       ELSE Loop("receive") /\ due' = FALSE
    /\ UNCHANGED <<backlog, worker, permits, queue, serving, sweep, provider>>

\* At most one request per turn of the loop.
Receive ==
    /\ main = "receive"
    /\ IF queue = <<>>
       THEN Loop("accept") /\ UNCHANGED <<queue, serving>>
       ELSE /\ Loop("serve")
            /\ serving' = Head(queue)
            /\ queue' = Tail(queue)
    /\ UNCHANGED <<backlog, worker, permits, sweep, due, provider>>

Answered == /\ worker' = [worker EXCEPT ![serving] = "writing"]
            /\ serving' = Nobody
            /\ Loop("accept")

\* handle_json: an answer of its own, or a provider call first.
Serve ==
    /\ main = "serve"
    /\ \/ Answered
       \/ Loop("spawn") /\ UNCHANGED <<worker, serving>>
    /\ UNCHANGED <<backlog, permits, queue, sweep, due, provider>>

\* Mutant: one connection more than there are permits.
AcceptOneMore ==
    /\ main = "accept"
    /\ Loop("top")
    /\ \/ /\ backlog # <<>> /\ permits <= Limit
          /\ permits' = permits + 1
          /\ worker' = [worker EXCEPT ![Head(backlog)] = "reading"]
       \/ UNCHANGED <<permits, worker>>
    /\ backlog' = IF backlog = <<>> THEN backlog ELSE Tail(backlog)
    /\ UNCHANGED <<queue, serving, sweep, due, provider>>

\* At most one connection per turn; without a permit, or with a socket that cannot
\* be configured, it is dropped.
Accept ==
    /\ main = "accept"
    /\ Loop("top")
    /\ \/ /\ backlog # <<>> /\ permits < Limit
          /\ permits' = permits + 1
          /\ worker' = [worker EXCEPT ![Head(backlog)] = "reading"]
       \/ UNCHANGED <<permits, worker>>
    /\ backlog' = IF backlog = <<>> THEN backlog ELSE Tail(backlog)
    /\ UNCHANGED <<queue, serving, sweep, due, provider>>

\* No TLS session or no thread for an admitted connection: serve_https returns the
\* error; it drops the listener and the receiver, and joins no worker.
GiveUp ==
    /\ main = "accept"
    /\ backlog # <<>> /\ permits < Limit
    /\ Loop("failed")
    /\ backlog' = <<>> /\ queue' = <<>>
    /\ UNCHANGED <<worker, permits, serving, sweep, due, provider>>

\* Mutant: the workers are joined while they can still send and wait.
CloseAfterJoin ==
    /\ main = "closing"
    /\ Workers = {}
    /\ queue' = <<>>
    /\ Loop("stopped")
    /\ UNCHANGED <<backlog, worker, permits, serving, sweep, due, provider>>

\* The receiver is dropped with the requests in it, then the workers are joined.
Close ==
    /\ main = "closing"
    /\ queue' = <<>>
    /\ IF queue = <<>> /\ Workers = {} THEN Loop("stopped") ELSE queue # <<>> /\ Loop("closing")
    /\ UNCHANGED <<backlog, worker, permits, serving, sweep, due, provider>>

RequestStop == /\ Stops /\ ~stopping
               /\ stopping' = TRUE
               /\ UNCHANGED <<backlog, worker, permits, queue, main, serving, sweep, due, provider>>

\* MAINTENANCE_INTERVAL has passed.
BecomeDue == /\ ~due /\ main # "maintain"
             /\ due' = TRUE
             /\ UNCHANGED <<backlog, worker, permits, queue, main, serving, sweep, provider, stopping>>
-----------------------------------------------------------------------------
(* StdioAgentProvider::exchange *)

\* The call is over, well or not.
Returned == IF serving = Nobody
            THEN /\ Loop("maintain") /\ sweep' = sweep - 1
                 /\ UNCHANGED <<worker, serving>>
            ELSE Answered /\ UNCHANGED sweep

Spawn ==
    /\ main = "spawn"
    /\ \/ Returned /\ UNCHANGED child
       \/ Loop("await") /\ child' = "running" /\ UNCHANGED <<worker, serving, sweep>>
    /\ UNCHANGED <<backlog, permits, queue, due, orphan>>

\* The process ends; what it started may go on and hold its output.
ChildExits ==
    /\ child = "running"
    /\ child' = "exited"
    /\ orphan' \in {orphan, TRUE}
    /\ UNCHANGED <<backlog, worker, permits, queue, main, serving, sweep, due, stopping>>

\* Mutant: a call that took too long is given up with its process running.
TimeOutLeavesChild ==
    /\ main = "await" /\ child = "running"
    /\ Returned
    /\ UNCHANGED <<backlog, permits, queue, due, provider>>

\* Mutant: a call waits for its process as long as it takes.
TimeOutNever == FALSE

\* After 30 s, or when its input cannot be written: kill and wait; the threads that
\* read its output are not joined.
TimeOut ==
    /\ main = "await" /\ child = "running"
    /\ child' = "none"
    /\ orphan' \in {orphan, TRUE}
    /\ Returned
    /\ UNCHANGED <<backlog, permits, queue, due>>

Exited ==
    /\ main = "await" /\ child = "exited"
    /\ child' = "none"
    /\ Loop("join")
    /\ UNCHANGED <<backlog, worker, permits, queue, serving, sweep, due, orphan>>

\* The readers end at the end of the output: when nothing holds it any more.
Join ==
    /\ main = "join" /\ ~orphan
    /\ Returned
    /\ UNCHANGED <<backlog, permits, queue, due, provider>>

OrphanEnds ==
    /\ orphan
    /\ orphan' = FALSE
    /\ UNCHANGED <<backlog, worker, permits, queue, main, serving, sweep, due, child, stopping>>
-----------------------------------------------------------------------------
Worker(c) == ReadRequest(c) \/ SendRequest(c) \/ Unanswered(c) \/ Write(c) \/ End(c)

Exchange == Spawn \/ TimeOut \/ Exited \/ Join

Turn == Top \/ Maintain \/ Receive \/ Serve \/ Accept \/ GiveUp \/ Close \/ Exchange

Next == \/ \E c \in Clients : Connect(c) \/ Worker(c)
        \/ Turn
        \/ RequestStop \/ BecomeDue
        \/ ChildExits \/ OrphanEnds

Spec == Init /\ [][Next]_vars

\* The threads run, time passes; nothing is assumed of clients, the provider's
\* process and what it leaves behind.
Fairness == /\ \A c \in Clients : WF_vars(Worker(c))
            /\ WF_vars(Turn)
            /\ WF_vars(BecomeDue)

FairSpec == Spec /\ Fairness
-----------------------------------------------------------------------------
\* Every admitted connection counts, and only those: no way a worker ends loses a
\* permit, or else the listener would shut itself in the long run.
PermitsAreWorkers == permits = Cardinality(Workers)

\* A worker with a request never waits for room in the channel: its capacity covers
\* the connections admitted.
ChannelNeverFull == \A c \in Clients : worker[c] = "sending" => Len(queue) < Limit

\* The provider's own process never outlives the call it was started for.
ChildEndsInCall == child # "none" => main = "await"

Stalled == orphan /\ main = "join"

\* Maintenance comes again and again under any traffic while the listener runs, unless
\* what a provider left behind holds the output of an answered call for ever.
MaintenanceRecurs == []<>(main = "maintain" \/ Stalled \/ Closed)

\* So does every admitted connection end, and none waits in the backlog for ever.
ConnectionsEnd ==
    \A c \in Clients : /\ worker[c] # "none" ~> worker[c] = "none" \/ Stalled
                       /\ c \in Elements(backlog) ~> c \notin Elements(backlog) \/ Stalled \/ Closed

\* Once asked to stop, or when it gives up, the listener ends, with no worker left
\* waiting for an answer that nobody will give.
StopsInTheEnd == stopping \/ main = "failed" ~> (Over /\ Workers = {}) \/ Stalled
=============================================================================
