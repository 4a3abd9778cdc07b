------------------------------- MODULE MCData -------------------------------
(***************************************************************************)
(* What a broadcast delivers and stores, what an agent may offer and which *)
(* jobs may run, for TLC: the job manager, the hub, a fan-out engine, the  *)
(* programme store and the agent protocol.  A behaviour moves one part and *)
(* leaves the others in their initial state, so that the states are the    *)
(* sum and not the product of theirs; the parts share no state.            *)
(***************************************************************************)
EXTENDS MCJobManager, MultiWriter, FanoutEngine, MCProgramStore, AgentProtocol

VARIABLE part

dataVars == <<part, vars, hubVars, fanoutVars, storeVars, agentVars>>

MCSize == <<1, 3, 2>>

DataInit ==
    /\ part \in {"jobs", "hub", "engine", "programs", "agent"}
    /\ Init /\ HubInit /\ FanoutInit /\ ProgramsInit /\ AgentInit
    /\ part # "programs" => ~remote
    /\ part # "agent" => identity.boot = 1

DataNext ==
    \/ part = "jobs" /\ Next /\ UNCHANGED <<part, hubVars, fanoutVars, storeVars, agentVars>>
    \/ part = "hub" /\ HubNext /\ UNCHANGED <<part, vars, fanoutVars, storeVars, agentVars>>
    \/ part = "engine" /\ FanoutNext /\ UNCHANGED <<part, vars, hubVars, storeVars, agentVars>>
    \/ part = "programs" /\ ProgramsNext /\ UNCHANGED <<part, vars, hubVars, fanoutVars, agentVars>>
    \/ part = "agent" /\ AgentNext /\ UNCHANGED <<part, vars, hubVars, fanoutVars, storeVars>>

DataSpec == DataInit /\ [][DataNext]_dataVars
=============================================================================
