------------------------------ MODULE MCChannel ------------------------------
(***************************************************************************)
(* A channel's sessions up to their shutdown, the present/following        *)
(* updates and a programme stream of one, for TLC.  A behaviour moves one  *)
(* part and leaves the others in their initial state, in which no action   *)
(* that fairness speaks of is enabled, so that the states are the sum and  *)
(* not the product of theirs; the parts share no state.                    *)
(***************************************************************************)
EXTENDS MCStreamSessions, PFUpdates, ProgramStream

VARIABLE part

ChannelInit ==
    part \in {"sessions", "pf", "programme"} /\ Init /\ PFInit /\ ProgramInit

ChannelNext ==
    /\ UNCHANGED part
    /\ \/ part = "sessions" /\ Next /\ UNCHANGED <<pfVars, programVars>>
       \/ part = "pf" /\ PFNext /\ UNCHANGED <<vars, programVars>>
       \/ part = "programme" /\ ProgramNext /\ UNCHANGED <<vars, pfVars>>

ChannelSpec ==
    /\ ChannelInit /\ [][ChannelNext]_<<part, vars, pfVars, programVars>>
    /\ Fairness /\ PFFairness /\ ProgramFairness
=============================================================================
