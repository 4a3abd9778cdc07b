----------------------------- MODULE MCReception -----------------------------
(***************************************************************************)
(* Reception, for TLC: a pair of local tuners, a tuner behind an agent,    *)
(* the check of the packets they deliver, the reception of schedule tables *)
(* and the queue of a data carousel's sections.  A behaviour moves one     *)
(* part and leaves the others in their initial state, so that the states   *)
(* are the sum and not the product of theirs.  The parts share no state,   *)
(* but for the two kinds of tuners: there the requests of one kind do not  *)
(* begin, and no tuner serves the types of both.                           *)
(***************************************************************************)
EXTENDS MCTunerManager, ScheduleReception, Continuity, BMLWorker

CONSTANTS a1, a2     \* requests for the agent's tuner, the last one

VARIABLE part

\* Next to the requests of MCTunerManager a viewer and a recording that may
\* grab the agent's tuner.
LocalRequests == Requests \ {a1, a2}
MCAllPriority == [r \in Requests |-> CASE r \in {r1, a1} -> 0 [] r = r2 -> -1 [] OTHER -> 2]
MCAllWait == [r \in Requests |-> r \notin {r1, a1}]
MCAllType ==
    [r \in Requests |-> IF r \in {a1, a2} THEN "CS" ELSE IF r = r2 THEN "BS" ELSE "GR"]
MCAllGroups ==
    [t \in Tuners |-> IF t \in AgentTuners THEN {"CS"} ELSE IF t = 0 THEN {"GR"} ELSE {"GR", "BS"}]

\* A schedule table of one segment with two sections, with which the tables
\* begin, and one of two segments with one section each.
MCLayouts == {<<2>>, <<1, 1>>}

\* The steps of Next by kind of tuner
LocalNext ==
    \/ \E r \in LocalRequests : RequestStep(r) \/ DeviceStep(r)
    \/ \E t \in Tuners \ AgentTuners : KillProcess(t)
AgentTunerNext ==
    \/ \E r \in {a1, a2} : RequestStep(r) \/ DeviceStep(r)
    \/ \E t \in AgentTuners : KillProcess(t) \/ AgentDown(t) \/ AgentUp(t)
    \/ \E u \in Users : RemoveUser(u) \/ \E d \in {a1, a2} : AddUser(d, u)

ReceptionSumInit ==
    /\ part \in {"tuners", "agent", "schedule", "continuity", "bml"}
    /\ Init /\ ReceptionInit /\ ContinuityInit /\ BMLInit
    /\ part # "bml" => ~restartable
    /\ air[0].layout = <<2>>
    /\ part # "schedule" => air[0].last = 0

ReceptionSumNext ==
    /\ UNCHANGED part
    /\ \/ part = "tuners" /\ LocalNext /\ UNCHANGED <<receptionVars, continuityVars, bmlVars>>
       \/ part = "agent" /\ AgentTunerNext /\ UNCHANGED <<receptionVars, continuityVars, bmlVars>>
       \/ part = "schedule" /\ ReceptionNext /\ UNCHANGED <<vars, continuityVars, bmlVars>>
       \/ part = "continuity" /\ ContinuityNext /\ UNCHANGED <<vars, receptionVars, bmlVars>>
       \/ part = "bml" /\ BMLNext /\ UNCHANGED <<vars, receptionVars, continuityVars>>

ReceptionSumSpec ==
    /\ ReceptionSumInit
    /\ [][ReceptionSumNext]_<<part, vars, receptionVars, continuityVars, bmlVars>>
=============================================================================
