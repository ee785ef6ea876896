-------------------------- MODULE AgentDaemonProofs --------------------------
(***************************************************************************)
(* Proofs about the listener of the Agent, for any number of clients and   *)
(* of permits: a request is in one place at a time (a worker's hands, the  *)
(* channel, the serving thread), so permits, workers and the room in the   *)
(* channel always add up.                                                  *)
(***************************************************************************)
EXTENDS MCAgentDaemon, Sequences, FiniteSetTheorems, TLAPS

\* No connection is in a queue twice.
Distinct(s) == \A i, j \in 1..Len(s) : s[i] = s[j] => i = j

\* What is in the channel waits for its answer, what is in the backlog has no worker.
QueuesAgree ==
  /\ Distinct(backlog) /\ \A k \in 1..Len(backlog) : worker[backlog[k]] = "none"
  /\ Distinct(queue) /\ \A k \in 1..Len(queue) : worker[queue[k]] = "waiting"

\* The serving thread holds a request from the channel to its answer; between two
\* requests it holds none, and a provider call without one is the maintenance's.
ServingAgrees ==
  /\ serving # Nobody => /\ main \in {"serve", "spawn", "await", "join"}
                         /\ worker[serving] = "waiting"
                         /\ \A k \in 1..Len(queue) : queue[k] # serving
  /\ main = "serve" => serving # Nobody
  /\ main \in {"spawn", "await", "join"} /\ serving = Nobody => sweep > 0

ServerInv == /\ Server!TypeOK
             /\ Server!PermitsAreWorkers
             /\ Server!ChildEndsInCall
             /\ QueuesAgree
             /\ ServingAgrees
-----------------------------------------------------------------------------
(* Sequences without repetition *)

LEMMA AppendKeepsDistinct ==
  ASSUME NEW S, NEW s \in Seq(S), NEW c \in S, Distinct(s), \A k \in 1..Len(s) : s[k] # c
  PROVE Append(s, c) \in Seq(S) /\ Distinct(Append(s, c))
BY DEF Distinct

LEMMA TailKeepsDistinct ==
  ASSUME NEW S, NEW s \in Seq(S), s # <<>>, Distinct(s)
  PROVE /\ Head(s) \in S /\ Tail(s) \in Seq(S) /\ Distinct(Tail(s))
        /\ Len(s) > 0 /\ Head(s) = s[1]
        /\ \A k \in 1..Len(Tail(s)) :
              Tail(s)[k] # Head(s) /\ \E j \in 1..Len(s) : Tail(s)[k] = s[j]
BY DEF Distinct

\* A sequence without repetition is no longer than a set that holds all of it.
LEMMA DistinctFits ==
  ASSUME NEW T, IsFiniteSet(T), NEW s \in Seq(T), Distinct(s)
  PROVE Len(s) <= Cardinality(T)
<1> SUFFICES ASSUME ~(Len(s) <= Cardinality(T)) PROVE FALSE
  OBVIOUS
<1>1. Len(s) \in Nat /\ Cardinality(T) \in Nat
  BY FS_CardinalityType
<1>2. IsFiniteSet(1..Len(s)) /\ Cardinality(1..Len(s)) = Len(s)
  <2>1. ASSUME NEW n \in Nat PROVE IsFiniteSet(1..n) /\ Cardinality(1..n) = n
    <3>1. 1 \in Int /\ n \in Int
      OBVIOUS
    <3>2. /\ IsFiniteSet(1..n)
          /\ Cardinality(1..n) = IF 1 > n THEN 0 ELSE n - 1 + 1
      BY <3>1, FS_Interval, Zenon
    <3>3. (IF 1 > n THEN 0 ELSE n - 1 + 1) = n
      OBVIOUS
    <3> QED BY <3>2, <3>3
  <2> QED BY <1>1, <2>1
<1>3. s \in [1..Len(s) -> T]
  OBVIOUS
<1>4. Cardinality(T) < Cardinality(1..Len(s))
  BY <1>1, <1>2
<1>5. \E x, y \in 1..Len(s) : x # y /\ s[x] = s[y]
  BY <1>2, <1>3, <1>4, FS_PigeonHole
<1> QED BY <1>5 DEF Distinct
-----------------------------------------------------------------------------
(* Workers *)

\* The finite sets of the listener are those of the library.
LEMMA SameCardinality ==
  ASSUME NEW S
  PROVE /\ Server!Cardinality(S) = Cardinality(S)
        /\ Server!IsFiniteSet(S) <=> IsFiniteSet(S)
BY DEF Server!Cardinality, Cardinality, Server!IsFiniteSet, IsFiniteSet

LEMMA ServerFacts ==
  ASSUME ServerInv
  PROVE /\ worker \in [Clients -> Server!Working \cup {"none"}]
        /\ backlog \in Seq(Clients) /\ queue \in Seq(Clients)
        /\ Len(backlog) \in Nat /\ Len(queue) \in Nat
        /\ permits = Cardinality(Server!Workers) /\ permits \in Nat /\ permits <= Limit
        /\ IsFiniteSet(Server!Workers) /\ IsFiniteSet(Clients)
        /\ Nobody \notin Clients /\ Limit \in Nat /\ MaxSweep \in Nat
        /\ sweep \in Nat /\ sweep <= MaxSweep
<1>1. IsFiniteSet(Clients) /\ Nobody \notin Clients /\ Limit \in Nat /\ MaxSweep \in Nat
  BY ServerAssumption, SameCardinality DEF Server!ListenerAssumption
<1>2. Server!Workers \in SUBSET Clients
  BY DEF Server!Workers
<1>3. IsFiniteSet(Server!Workers)
  BY <1>1, <1>2, FS_Subset
<1>4. /\ permits \in 0..Limit /\ sweep \in 0..MaxSweep
      /\ backlog \in Seq(Clients) /\ queue \in Seq(Clients)
      /\ worker \in [Clients -> Server!Working \cup {"none"}]
      /\ permits = Cardinality(Server!Workers)
  BY SameCardinality DEF ServerInv, Server!TypeOK, Server!PermitsAreWorkers
<1>5. permits \in Nat /\ permits <= Limit /\ sweep \in Nat /\ sweep <= MaxSweep
  BY <1>1, <1>4
<1> QED BY <1>1, <1>3, <1>4, <1>5

\* A worker that moves on is still one worker.
LEMMA SameWorkers ==
  ASSUME ServerInv, NEW c \in Clients, worker[c] # "none", NEW to \in Server!Working,
         worker' = [worker EXCEPT ![c] = to]
  PROVE Server!Workers' = Server!Workers
        /\ worker' \in [Clients -> Server!Working \cup {"none"}]
<1>1. to # "none"
  BY DEF Server!Working
<1> QED BY <1>1, ServerFacts DEF Server!Workers

\* A worker that ends is one less, an accepted connection one more.
LEMMA OneWorkerLess ==
  ASSUME ServerInv, NEW c \in Clients, worker[c] # "none",
         worker' = [worker EXCEPT ![c] = "none"]
  PROVE /\ Cardinality(Server!Workers') = permits - 1 /\ permits - 1 \in 0..Limit
        /\ worker' \in [Clients -> Server!Working \cup {"none"}]
<1>1. Server!Workers' = Server!Workers \ {c} /\ c \in Server!Workers
  BY ServerFacts DEF Server!Workers
<1>2. IsFiniteSet(Server!Workers')
      /\ Cardinality(Server!Workers') = Cardinality(Server!Workers) - 1
  BY <1>1, ServerFacts, FS_RemoveElement
<1>3. Cardinality(Server!Workers') \in Nat
  BY <1>2, FS_CardinalityType
<1> QED BY <1>2, <1>3, ServerFacts

LEMMA OneWorkerMore ==
  ASSUME ServerInv, NEW c \in Clients, worker[c] = "none",
         worker' = [worker EXCEPT ![c] = "reading"]
  PROVE /\ Cardinality(Server!Workers') = permits + 1
        /\ worker' \in [Clients -> Server!Working \cup {"none"}]
<1>1. Server!Workers' = Server!Workers \cup {c} /\ c \notin Server!Workers
  BY ServerFacts DEF Server!Workers
<1>2. Cardinality(Server!Workers') = Cardinality(Server!Workers) + 1
  BY <1>1, ServerFacts, FS_AddElement
<1> QED BY <1>2, ServerFacts DEF Server!Working

\* A worker with a request finds room in the channel: each of those in it has a permit
\* too.
LEMMA ChannelHasRoom == ServerInv => Server!ChannelNeverFull
<1> SUFFICES ASSUME ServerInv, NEW c \in Clients, worker[c] = "sending"
             PROVE Len(queue) < Limit
  BY DEF Server!ChannelNeverFull
<1>1. c \in Server!Workers
  BY DEF Server!Workers
<1> DEFINE others == Server!Workers \ {c}
<1>2. IsFiniteSet(others) /\ Cardinality(others) = permits - 1
  BY <1>1, ServerFacts, FS_RemoveElement
<1>3. \A k \in 1..Len(queue) : queue[k] \in others
  BY ServerFacts DEF ServerInv, QueuesAgree, Server!Workers
<1>4. queue \in Seq(others)
  BY <1>3, ServerFacts
<1>5. Len(queue) <= Cardinality(others)
  BY <1>2, <1>4, DistinctFits DEF ServerInv, QueuesAgree
<1> QED BY <1>2, <1>5, ServerFacts
-----------------------------------------------------------------------------
(* Steps of the workers *)

LEMMA ConnectKeeps ==
  ASSUME ServerInv, NEW c \in Clients, Server!Connect(c)
  PROVE ServerInv'
<1>1. /\ worker[c] = "none" /\ backlog' = Append(backlog, c)
      /\ \A k \in 1..Len(backlog) : backlog[k] # c
      /\ UNCHANGED <<worker, permits, queue, main, serving, sweep, due, child, orphan, stopping>>
  BY DEF Server!Connect, Server!Elements, Server!provider
<1>2. backlog' \in Seq(Clients) /\ Distinct(backlog')
  BY <1>1, ServerFacts, AppendKeepsDistinct DEF ServerInv, QueuesAgree
<1>3. \A k \in 1..Len(backlog') : worker'[backlog'[k]] = "none"
  BY <1>1, ServerFacts DEF ServerInv, QueuesAgree
<1> QED BY <1>1, <1>2, <1>3 DEF ServerInv, Server!TypeOK, Server!PermitsAreWorkers,
           Server!ChildEndsInCall, QueuesAgree, ServingAgrees, Server!Workers

\* A worker that has no request waiting, before or after.
LEMMA MoveKeeps ==
  ASSUME ServerInv, NEW c \in Clients, NEW from \in Server!Working, NEW to \in Server!Working,
         from # "waiting", Server!Move(c, from, to), UNCHANGED <<permits, queue>>
  PROVE ServerInv'
<1>1. /\ worker[c] = from /\ worker' = [worker EXCEPT ![c] = to]
      /\ UNCHANGED <<backlog, main, serving, sweep, due, child, orphan, stopping>>
  BY DEF Server!Move, Server!provider
<1>2. worker[c] # "none"
  BY <1>1 DEF Server!Working
<1>3. Server!Workers' = Server!Workers /\ worker' \in [Clients -> Server!Working \cup {"none"}]
  BY <1>1, <1>2, SameWorkers
<1>4. QueuesAgree'
  BY <1>1, <1>2, ServerFacts DEF ServerInv, QueuesAgree
<1>5. ServingAgrees'
  BY <1>1, ServerFacts DEF ServerInv, ServingAgrees
<1> QED BY <1>1, <1>3, <1>4, <1>5 DEF ServerInv, Server!TypeOK, Server!PermitsAreWorkers,
           Server!ChildEndsInCall

LEMMA SendRequestKeeps ==
  ASSUME ServerInv, NEW c \in Clients, Server!SendRequest(c)
  PROVE ServerInv'
<1>1. CASE Server!Closed
  BY <1>1, MoveKeeps DEF Server!SendRequest, Server!Working
<1>2. CASE ~Server!Closed
  <2>1. /\ worker[c] = "sending" /\ worker' = [worker EXCEPT ![c] = "waiting"]
        /\ queue' = Append(queue, c) /\ permits' = permits
        /\ UNCHANGED <<backlog, main, serving, sweep, due, child, orphan, stopping>>
    BY <1>2 DEF Server!SendRequest, Server!Move, Server!provider
  <2>2. Server!Workers' = Server!Workers /\ worker' \in [Clients -> Server!Working \cup {"none"}]
    BY <2>1, SameWorkers DEF Server!Working
  <2>3. queue' \in Seq(Clients) /\ Distinct(queue')
    <3>1. \A k \in 1..Len(queue) : queue[k] # c
      BY <2>1 DEF ServerInv, QueuesAgree
    <3> QED BY <2>1, <3>1, ServerFacts, AppendKeepsDistinct DEF ServerInv, QueuesAgree
  <2>4. /\ \A k \in 1..Len(queue') : worker'[queue'[k]] = "waiting"
        /\ \A k \in 1..Len(backlog) : worker'[backlog[k]] = "none"
    BY <2>1, ServerFacts DEF ServerInv, QueuesAgree
  <2>5. ServingAgrees'
    BY <2>1, ServerFacts DEF ServerInv, ServingAgrees
  <2> QED BY <2>1, <2>2, <2>3, <2>4, <2>5 DEF ServerInv, Server!TypeOK,
             Server!PermitsAreWorkers, Server!ChildEndsInCall, QueuesAgree
<1> QED BY <1>1, <1>2

\* Nobody answers a request that the serving thread dropped, and it serves none.
LEMMA UnansweredKeeps ==
  ASSUME ServerInv, NEW c \in Clients, Server!Unanswered(c)
  PROVE ServerInv'
<1>1. /\ worker[c] = "waiting" /\ worker' = [worker EXCEPT ![c] = "ending"]
      /\ main \in {"closing", "stopped", "failed"}
      /\ \A k \in 1..Len(queue) : queue[k] # c
      /\ UNCHANGED <<backlog, queue, permits, main, serving, sweep, due, child, orphan, stopping>>
  BY DEF Server!Unanswered, Server!Move, Server!provider, Server!Closed, Server!Over, Server!Elements
<1>2. Server!Workers' = Server!Workers /\ worker' \in [Clients -> Server!Working \cup {"none"}]
  BY <1>1, SameWorkers DEF Server!Working
<1>3. QueuesAgree'
  BY <1>1, ServerFacts DEF ServerInv, QueuesAgree
<1>4. ServingAgrees'
  BY <1>1 DEF ServerInv, ServingAgrees
<1> QED BY <1>1, <1>2, <1>3, <1>4 DEF ServerInv, Server!TypeOK, Server!PermitsAreWorkers,
           Server!ChildEndsInCall

LEMMA EndKeeps ==
  ASSUME ServerInv, NEW c \in Clients, Server!End(c)
  PROVE ServerInv'
<1>1. /\ worker[c] = "ending" /\ worker' = [worker EXCEPT ![c] = "none"]
      /\ permits' = permits - 1
      /\ UNCHANGED <<backlog, queue, main, serving, sweep, due, child, orphan, stopping>>
  BY DEF Server!End, Server!Move, Server!provider
<1>2. /\ Cardinality(Server!Workers') = permits' /\ permits' \in 0..Limit
      /\ worker' \in [Clients -> Server!Working \cup {"none"}]
  BY <1>1, OneWorkerLess
<1>3. QueuesAgree'
  BY <1>1, ServerFacts DEF ServerInv, QueuesAgree
<1>4. ServingAgrees'
  BY <1>1, ServerFacts DEF ServerInv, ServingAgrees
<1> QED BY <1>1, <1>2, <1>3, <1>4, SameCardinality
        DEF ServerInv, Server!TypeOK, Server!PermitsAreWorkers, Server!ChildEndsInCall

LEMMA WorkerKeeps ==
  ASSUME ServerInv, NEW c \in Clients, Server!Worker(c)
  PROVE ServerInv'
<1>1. {"reading", "sending", "writing", "rejecting", "ending"} \subseteq Server!Working
  BY DEF Server!Working
<1>2. Server!ReadRequest(c) => ServerInv'
  BY <1>1, MoveKeeps DEF Server!ReadRequest
<1>3. Server!Write(c) => ServerInv'
  BY <1>1, MoveKeeps DEF Server!Write
<1> QED BY <1>2, <1>3, SendRequestKeeps, UnansweredKeeps, EndKeeps DEF Server!Worker
-----------------------------------------------------------------------------
(* Steps of the serving thread *)

\* The serving thread goes on with nothing in hand.
LEMMA TurnKeeps ==
  ASSUME ServerInv, UNCHANGED <<backlog, worker, permits, queue, serving, child, orphan>>,
         main \notin {"await"},
         serving = Nobody,
         main' \in {"top", "maintain", "receive", "accept", "spawn", "closing", "stopped"},
         sweep' \in 0..MaxSweep, main' = "spawn" => sweep' > 0,
         due' \in BOOLEAN, stopping' \in BOOLEAN
  PROVE ServerInv'
<1>1. child = "none"
  BY DEF ServerInv, Server!ChildEndsInCall
<1> QED BY <1>1 DEF ServerInv, Server!TypeOK, Server!PermitsAreWorkers, Server!Workers,
           Server!ChildEndsInCall, QueuesAgree, ServingAgrees

\* Between requests none is in hand.
LEMMA NothingInHand ==
  ASSUME ServerInv, main \in {"top", "maintain", "receive", "accept", "closing", "stopped"}
  PROVE serving = Nobody /\ sweep \in 0..MaxSweep /\ due \in BOOLEAN /\ stopping \in BOOLEAN
BY DEF ServerInv, ServingAgrees, Server!TypeOK

LEMMA TopKeeps == ASSUME ServerInv, Server!Top PROVE ServerInv'
<1>1. /\ main = "top"
      /\ UNCHANGED <<backlog, worker, permits, queue, serving, due, child, orphan, stopping>>
      /\ \/ main' \in {"closing", "receive"} /\ sweep' = sweep
         \/ main' = "maintain" /\ sweep' \in 0..MaxSweep
  BY DEF Server!Top, Server!Loop, Server!provider
<1> QED BY <1>1, NothingInHand, TurnKeeps

LEMMA MaintainKeeps == ASSUME ServerInv, Server!Maintain PROVE ServerInv'
<1>1. /\ main = "maintain"
      /\ UNCHANGED <<backlog, worker, permits, queue, serving, sweep, child, orphan, stopping>>
      /\ \/ sweep > 0 /\ main' = "spawn" /\ due' = due
         \/ main' = "receive" /\ due' = FALSE
  BY DEF Server!Maintain, Server!Loop, Server!provider
<1> QED BY <1>1, NothingInHand, TurnKeeps

LEMMA ReceiveKeeps == ASSUME ServerInv, Server!Receive PROVE ServerInv'
<1>1. CASE queue = <<>>
  <2>1. /\ main = "receive" /\ main' = "accept"
        /\ UNCHANGED <<backlog, worker, permits, queue, serving, sweep, due, child, orphan,
                       stopping>>
    BY <1>1 DEF Server!Receive, Server!Loop, Server!provider
  <2> QED BY <2>1, NothingInHand, TurnKeeps
<1>2. CASE queue # <<>>
  <2>1. /\ main = "receive" /\ main' = "serve" /\ serving' = Head(queue) /\ queue' = Tail(queue)
        /\ UNCHANGED <<backlog, worker, permits, sweep, due, child, orphan, stopping>>
    BY <1>2 DEF Server!Receive, Server!Loop, Server!provider
  <2>2. /\ Head(queue) \in Clients /\ Tail(queue) \in Seq(Clients) /\ Distinct(Tail(queue))
        /\ Len(queue) > 0 /\ Head(queue) = queue[1]
        /\ \A k \in 1..Len(Tail(queue)) :
              Tail(queue)[k] # Head(queue) /\ \E j \in 1..Len(queue) : Tail(queue)[k] = queue[j]
    BY <1>2, ServerFacts, TailKeepsDistinct DEF ServerInv, QueuesAgree
  <2>3. worker[Head(queue)] = "waiting"
    BY <2>2, ServerFacts DEF ServerInv, QueuesAgree
  <2>4. QueuesAgree'
    BY <2>1, <2>2 DEF ServerInv, QueuesAgree
  <2>5. ServingAgrees'
    BY <2>1, <2>2, <2>3, ServerFacts DEF ServingAgrees
  <2>6. child = "none"
    BY <2>1 DEF ServerInv, Server!ChildEndsInCall
  <2> QED BY <2>1, <2>2, <2>4, <2>5, <2>6 DEF ServerInv, Server!TypeOK,
             Server!PermitsAreWorkers, Server!Workers, Server!ChildEndsInCall
<1> QED BY <1>1, <1>2

\* The answer of the request in hand goes to its worker.
LEMMA AnsweredKeeps ==
  ASSUME ServerInv, Server!Answered, serving # Nobody, child' = "none", orphan' \in BOOLEAN,
         UNCHANGED <<backlog, permits, queue, sweep, due>>
  PROVE ServerInv'
<1>1. /\ worker' = [worker EXCEPT ![serving] = "writing"] /\ serving' = Nobody
      /\ main' = "accept" /\ stopping' = stopping
  BY DEF Server!Answered, Server!Loop
<1>2. serving \in Clients /\ worker[serving] = "waiting"
      /\ \A k \in 1..Len(queue) : queue[k] # serving
  BY DEF ServerInv, Server!TypeOK, ServingAgrees
<1>3. Server!Workers' = Server!Workers /\ worker' \in [Clients -> Server!Working \cup {"none"}]
  BY <1>1, <1>2, SameWorkers DEF Server!Working
<1>4. QueuesAgree'
  BY <1>1, <1>2, ServerFacts DEF ServerInv, QueuesAgree
<1>5. ServingAgrees'
  BY <1>1, ServerFacts DEF ServingAgrees
<1> QED BY <1>1, <1>3, <1>4, <1>5 DEF ServerInv, Server!TypeOK, Server!PermitsAreWorkers,
           Server!ChildEndsInCall

LEMMA ServeKeeps == ASSUME ServerInv, Server!Serve PROVE ServerInv'
<1>1. /\ main = "serve" /\ serving # Nobody /\ child = "none"
      /\ UNCHANGED <<backlog, permits, queue, sweep, due, child, orphan>>
  BY DEF Server!Serve, Server!provider, ServerInv, ServingAgrees, Server!ChildEndsInCall
<1>2. CASE Server!Answered
  BY <1>1, <1>2, AnsweredKeeps DEF ServerInv, Server!TypeOK
<1>3. CASE main' = "spawn" /\ UNCHANGED <<worker, serving, stopping>>
  BY <1>1, <1>3 DEF ServerInv, Server!TypeOK, Server!PermitsAreWorkers, Server!Workers,
        Server!ChildEndsInCall, QueuesAgree, ServingAgrees
<1> QED BY <1>2, <1>3 DEF Server!Serve, Server!Loop

\* A connection is accepted with a permit, or dropped.
LEMMA AcceptKeeps == ASSUME ServerInv, Server!Accept PROVE ServerInv'
<1>1. /\ main = "accept" /\ main' = "top" /\ stopping' = stopping
      /\ UNCHANGED <<queue, serving, sweep, due, child, orphan>>
      /\ backlog' = IF backlog = <<>> THEN backlog ELSE Tail(backlog)
  BY DEF Server!Accept, Server!Loop, Server!provider
<1>2. serving = Nobody /\ child = "none" /\ sweep \in 0..MaxSweep
  BY <1>1, NothingInHand DEF ServerInv, Server!ChildEndsInCall
<1>3. backlog' \in Seq(Clients) /\ Distinct(backlog')
      /\ \A k \in 1..Len(backlog') : \E j \in 1..Len(backlog) :
            backlog'[k] = backlog[j] /\ (backlog # <<>> => backlog[j] # Head(backlog))
  <2>1. CASE backlog = <<>>
    BY <1>1, <2>1, ServerFacts DEF ServerInv, QueuesAgree
  <2>2. CASE backlog # <<>>
    <3>1. /\ Tail(backlog) \in Seq(Clients) /\ Distinct(Tail(backlog))
          /\ \A k \in 1..Len(Tail(backlog)) : /\ Tail(backlog)[k] # Head(backlog)
                /\ \E j \in 1..Len(backlog) : Tail(backlog)[k] = backlog[j]
      BY <2>2, ServerFacts, TailKeepsDistinct DEF ServerInv, QueuesAgree
    <3> QED BY <1>1, <2>2, <3>1
  <2> QED BY <2>1, <2>2
<1>4. CASE UNCHANGED <<permits, worker>>
  <2>1. QueuesAgree'
    BY <1>1, <1>3, <1>4 DEF ServerInv, QueuesAgree
  <2> QED BY <1>1, <1>2, <1>3, <1>4, <2>1 DEF ServerInv, Server!TypeOK,
             Server!PermitsAreWorkers, Server!Workers, Server!ChildEndsInCall, ServingAgrees
<1>5. CASE /\ backlog # <<>> /\ permits < Limit
           /\ permits' = permits + 1
           /\ worker' = [worker EXCEPT ![Head(backlog)] = "reading"]
  <2>1. Head(backlog) \in Clients /\ worker[Head(backlog)] = "none"
    <3>1. Head(backlog) \in Clients /\ Len(backlog) > 0 /\ Head(backlog) = backlog[1]
      BY <1>5, ServerFacts, TailKeepsDistinct DEF ServerInv, QueuesAgree
    <3> QED BY <3>1, ServerFacts DEF ServerInv, QueuesAgree
  <2>2. /\ Cardinality(Server!Workers') = permits'
        /\ worker' \in [Clients -> Server!Working \cup {"none"}]
    BY <1>5, <2>1, OneWorkerMore
  <2>3. permits' \in 0..Limit
    BY <1>5, ServerFacts
  <2>4. QueuesAgree'
    <3>1. \A k \in 1..Len(backlog') : worker'[backlog'[k]] = "none"
      BY <1>3, <1>5, <2>1, ServerFacts DEF ServerInv, QueuesAgree
    <3>2. \A k \in 1..Len(queue) : worker'[queue[k]] = "waiting"
      BY <1>5, <2>1, ServerFacts DEF ServerInv, QueuesAgree
    <3> QED BY <1>1, <1>3, <3>1, <3>2 DEF ServerInv, QueuesAgree
  <2> QED BY <1>1, <1>2, <1>3, <2>2, <2>3, <2>4, SameCardinality DEF ServerInv,
             Server!TypeOK, Server!PermitsAreWorkers, Server!ChildEndsInCall, ServingAgrees
<1> QED BY <1>4, <1>5 DEF Server!Accept

\* The listener that gives up drops what was on its way.
LEMMA GiveUpKeeps == ASSUME ServerInv, Server!GiveUp PROVE ServerInv'
<1>1. /\ main = "accept" /\ queue' = <<>> /\ backlog' = <<>> /\ main' = "failed"
      /\ UNCHANGED <<worker, permits, serving, sweep, due, child, orphan, stopping>>
  BY DEF Server!GiveUp, Server!Loop, Server!provider
<1>2. serving = Nobody /\ child = "none"
  BY <1>1, NothingInHand DEF ServerInv, Server!ChildEndsInCall
<1>3. /\ queue' \in Seq(Clients) /\ Distinct(queue') /\ Len(queue') = 0
      /\ backlog' \in Seq(Clients) /\ Distinct(backlog') /\ Len(backlog') = 0
  BY <1>1 DEF Distinct
<1> QED BY <1>1, <1>2, <1>3 DEF ServerInv, Server!TypeOK, Server!PermitsAreWorkers,
           Server!Workers, Server!ChildEndsInCall, QueuesAgree, ServingAgrees

LEMMA CloseKeeps == ASSUME ServerInv, Server!Close PROVE ServerInv'
<1>1. /\ main = "closing" /\ queue' = <<>> /\ main' \in {"closing", "stopped"}
      /\ UNCHANGED <<backlog, worker, permits, serving, sweep, due, child, orphan, stopping>>
  BY DEF Server!Close, Server!Loop, Server!provider
<1>2. serving = Nobody /\ child = "none"
  BY <1>1, NothingInHand DEF ServerInv, Server!ChildEndsInCall
<1>3. queue' \in Seq(Clients) /\ Distinct(queue') /\ Len(queue') = 0
  BY <1>1 DEF Distinct
<1> QED BY <1>1, <1>2, <1>3 DEF ServerInv, Server!TypeOK, Server!PermitsAreWorkers,
           Server!Workers, Server!ChildEndsInCall, QueuesAgree, ServingAgrees
-----------------------------------------------------------------------------
(* The provider call *)

\* It returns to the request it was made for, or to the maintenance.
LEMMA ReturnedKeeps ==
  ASSUME ServerInv, Server!Returned, main \in {"spawn", "await", "join"},
         child' = "none", orphan' \in BOOLEAN, UNCHANGED <<backlog, permits, queue, due>>
  PROVE ServerInv'
<1>1. CASE serving # Nobody
  BY <1>1, AnsweredKeeps DEF Server!Returned
<1>2. CASE serving = Nobody
  <2>1. main' = "maintain" /\ sweep' = sweep - 1 /\ UNCHANGED <<worker, serving, stopping>>
    BY <1>2 DEF Server!Returned, Server!Loop
  <2>2. sweep > 0
    BY <1>2 DEF ServerInv, ServingAgrees
  <2>3. sweep' \in 0..MaxSweep
    BY <2>1, <2>2, ServerFacts
  <2> QED BY <1>2, <2>1, <2>3 DEF ServerInv, Server!TypeOK, Server!PermitsAreWorkers,
             Server!Workers, Server!ChildEndsInCall, QueuesAgree, ServingAgrees
<1> QED BY <1>1, <1>2

\* The call goes on.
LEMMA CallKeeps ==
  ASSUME ServerInv, main \in {"spawn", "await"}, main' \in {"await", "join"},
         child' \in {"none", "running", "exited"}, child' # "none" => main' = "await",
         orphan' \in BOOLEAN,
         UNCHANGED <<backlog, worker, permits, queue, serving, sweep, due, stopping>>
  PROVE ServerInv'
BY DEF ServerInv, Server!TypeOK, Server!PermitsAreWorkers, Server!Workers,
       Server!ChildEndsInCall, QueuesAgree, ServingAgrees

LEMMA ExchangeKeeps == ASSUME ServerInv, Server!Exchange PROVE ServerInv'
<1>1. orphan \in BOOLEAN
  BY DEF ServerInv, Server!TypeOK
<1>2. main # "await" => child = "none"
  BY DEF ServerInv, Server!ChildEndsInCall
<1>3. ASSUME Server!Spawn PROVE ServerInv'
  <2>1. /\ main = "spawn" /\ child = "none" /\ orphan' = orphan
        /\ UNCHANGED <<backlog, permits, queue, due>>
    BY <1>2, <1>3 DEF Server!Spawn
  <2>2. CASE Server!Returned /\ child' = child
    BY <1>1, <2>1, <2>2, ReturnedKeeps
  <2>3. CASE main' = "await" /\ child' = "running" /\ UNCHANGED <<worker, serving, sweep, stopping>>
    BY <1>1, <2>1, <2>3, CallKeeps
  <2> QED BY <1>3, <2>2, <2>3 DEF Server!Spawn, Server!Loop
<1>4. ASSUME Server!TimeOut PROVE ServerInv'
  <2>1. /\ main = "await" /\ child' = "none" /\ orphan' \in {orphan, TRUE} /\ Server!Returned
        /\ UNCHANGED <<backlog, permits, queue, due>>
    BY <1>4 DEF Server!TimeOut
  <2> QED BY <1>1, <2>1, ReturnedKeeps
<1>5. ASSUME Server!Exited PROVE ServerInv'
  <2>1. /\ main = "await" /\ child' = "none" /\ main' = "join" /\ orphan' = orphan
        /\ UNCHANGED <<backlog, worker, permits, queue, serving, sweep, due, stopping>>
    BY <1>5 DEF Server!Exited, Server!Loop
  <2> QED BY <1>1, <2>1, CallKeeps
<1>6. ASSUME Server!Join PROVE ServerInv'
  <2>1. /\ main = "join" /\ Server!Returned /\ orphan' = orphan /\ child' = child
        /\ UNCHANGED <<backlog, permits, queue, due>>
    BY <1>6 DEF Server!Join, Server!provider
  <2> QED BY <1>1, <1>2, <2>1, ReturnedKeeps
<1> QED BY <1>3, <1>4, <1>5, <1>6 DEF Server!Exchange

\* What changes nothing but the clock, the wish to stop and the provider's processes.
LEMMA AroundKeeps ==
  ASSUME ServerInv, UNCHANGED <<backlog, worker, permits, queue, main, serving, sweep>>,
         due' \in BOOLEAN, orphan' \in BOOLEAN, stopping' \in BOOLEAN,
         child' = child \/ (child = "running" /\ child' = "exited")
  PROVE ServerInv'
BY DEF ServerInv, Server!TypeOK, Server!PermitsAreWorkers, Server!Workers,
       Server!ChildEndsInCall, QueuesAgree, ServingAgrees

LEMMA ListenerStep == ASSUME ServerInv, Server!Next PROVE ServerInv'
<1>1. due \in BOOLEAN /\ orphan \in BOOLEAN /\ stopping \in BOOLEAN
  BY DEF ServerInv, Server!TypeOK
<1>2. ASSUME Server!RequestStop PROVE ServerInv'
  BY <1>1, <1>2, AroundKeeps DEF Server!RequestStop, Server!provider
<1>3. ASSUME Server!BecomeDue PROVE ServerInv'
  BY <1>1, <1>3, AroundKeeps DEF Server!BecomeDue, Server!provider
<1>4. ASSUME Server!ChildExits PROVE ServerInv'
  <2>1. orphan' \in BOOLEAN
    BY <1>1, <1>4 DEF Server!ChildExits
  <2> QED BY <1>1, <1>4, <2>1, AroundKeeps DEF Server!ChildExits
<1>5. ASSUME Server!OrphanEnds PROVE ServerInv'
  BY <1>1, <1>5, AroundKeeps DEF Server!OrphanEnds
<1>6. ASSUME Server!Turn PROVE ServerInv'
  BY <1>6, TopKeeps, MaintainKeeps, ReceiveKeeps, ServeKeeps, AcceptKeeps,
     GiveUpKeeps, CloseKeeps, ExchangeKeeps DEF Server!Turn
<1>7. ASSUME NEW c \in Clients, Server!Connect(c) \/ Server!Worker(c) PROVE ServerInv'
  BY <1>7, ConnectKeeps, WorkerKeeps
<1> QED BY <1>2, <1>3, <1>4, <1>5, <1>6, <1>7 DEF Server!Next

LEMMA ListenerStarts == ASSUME Server!Init PROVE ServerInv
<1>1. Server!Workers = {}
  BY DEF Server!Init, Server!Workers
<1>2. Server!Cardinality({}) = 0
  BY FS_EmptySet, SameCardinality
<1>3. Limit \in Nat /\ MaxSweep \in Nat
  BY ServerAssumption DEF Server!ListenerAssumption
<1>4. permits = 0 /\ sweep = 0 /\ 0 \in 0..Limit /\ 0 \in 0..MaxSweep
  BY <1>3 DEF Server!Init
<1>5. <<>> \in Seq(Clients) /\ Len(<<>>) = 0
  OBVIOUS
<1>6. worker \in [Clients -> Server!Working \cup {"none"}]
  BY DEF Server!Init
<1>7. Server!TypeOK
  BY <1>4, <1>5, <1>6 DEF Server!Init, Server!TypeOK
<1>8. QueuesAgree
  BY <1>5 DEF Server!Init, QueuesAgree, Distinct
<1> QED BY <1>1, <1>2, <1>4, <1>7, <1>8
        DEF Server!Init, ServerInv, Server!PermitsAreWorkers, Server!ChildEndsInCall, ServingAgrees

\* The listener, for any number of clients and permits: see ServerInv.
THEOREM ListenerInvariant == Server!Spec => []ServerInv
<1>1. ServerInv /\ [Server!Next]_Server!vars => ServerInv'
  <2>1. UNCHANGED Server!vars /\ ServerInv => ServerInv'
    BY DEF Server!vars, ServerInv, Server!TypeOK, Server!PermitsAreWorkers, Server!Workers,
           Server!ChildEndsInCall, QueuesAgree, ServingAgrees
  <2> QED BY <2>1, ListenerStep
<1> QED BY <1>1, ListenerStarts, PTL DEF Server!Spec

\* A behaviour of the bench is one of the listener, or leaves it alone.
THEOREM DaemonRunsServer == DaemonSpec => Server!Spec
<1>1. DaemonInit => Server!Init
  BY DEF DaemonInit
<1>2. [DaemonNext]_<<part, vars, serverVars>> => [Server!Next]_Server!vars
  BY DEF DaemonNext, CoreStep, ServerStep, serverVars, Server!vars
<1> QED BY <1>1, <1>2, PTL DEF DaemonSpec, Server!Spec

\* Every way a worker ends returns its permit, a worker with a request always finds room
\* in the channel, and the provider's process is gone when its call is over.
THEOREM LimitsHold == DaemonSpec => []ServerHoldsItsLimits
<1>1. ServerInv => ServerHoldsItsLimits
  BY ChannelHasRoom DEF ServerInv, ServerHoldsItsLimits
<1> QED BY <1>1, ListenerInvariant, DaemonRunsServer, PTL
=============================================================================
