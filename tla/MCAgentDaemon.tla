--------------------------- MODULE MCAgentDaemon ---------------------------
(***************************************************************************)
(* The one serving thread of the Agent, seen twice: what it does to the    *)
(* environments (AgentCore) and how requests reach it (AgentServer).       *)
(* AgentCore takes a request from anywhere, at any time, and a maintenance *)
(* comes again and again: what AgentServer delivers.  A behaviour runs one *)
(* of the two and the other rests.                                         *)
(***************************************************************************)
EXTENDS AgentCore, TLC

CONSTANTS Clients, Nobody, Limit, MaxSweep, Stops

VARIABLES part, backlog, worker, permits, queue, main, serving, sweep, due, child,
          orphan, stopping

Server == INSTANCE AgentServer

ASSUME ServerAssumption == Server!ListenerAssumption

serverVars == <<backlog, worker, permits, queue, main, serving, sweep, due, child, orphan,
                stopping>>

DaemonInit == /\ part \in {"core", "server"}
              /\ Init /\ Server!Init

CoreStep(A) == part = "core" /\ A /\ UNCHANGED <<part, serverVars>>
ServerStep(A) == part = "server" /\ A /\ UNCHANGED <<part, vars>>

DaemonNext == CoreStep(Next) \/ ServerStep(Server!Next)

\* The fairness of AgentCore.FairSpec and AgentServer.FairSpec, each for its part.
DaemonSpec ==
    /\ DaemonInit /\ [][DaemonNext]_<<part, vars, serverVars>>
    /\ WF_vars(CoreStep(RequestNext)) /\ WF_vars(CoreStep(DestroyNext))
    /\ WF_vars(CoreStep(MaintenanceNext)) /\ WF_vars(CoreStep(Restart))
    /\ SF_vars(CoreStep(ProviderDestroys))
    /\ \A c \in Clients : WF_serverVars(ServerStep(Server!Worker(c)))
    /\ WF_serverVars(ServerStep(Server!Turn))
    /\ WF_serverVars(ServerStep(Server!BecomeDue))
-----------------------------------------------------------------------------
(* AgentServer is well formed, no way a worker ends loses a permit, a      *)
(* worker with a request never waits for room in the channel, and the      *)
(* provider's own process never outlives its call.                         *)
ServerHoldsItsLimits == /\ Server!TypeOK
                        /\ Server!PermitsAreWorkers
                        /\ Server!ChannelNeverFull
                        /\ Server!ChildEndsInCall

(* AgentServer: maintenance comes again and again under any traffic.       *)
MaintenanceRecurs == part = "server" => Server!MaintenanceRecurs

(* AgentServer: every connection is accepted and ends, and when asked to   *)
(* stop the server ends with all its workers.                              *)
ServerFinishes == /\ part = "server" => Server!ConnectionsEnd
                  /\ part = "server" => Server!StopsInTheEnd
=============================================================================
