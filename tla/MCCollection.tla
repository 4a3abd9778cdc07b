----------------------------- MODULE MCCollection -----------------------------
(***************************************************************************)
(* What reads a shared stream, for TLC: the sessions of its clients, the   *)
(* collection of schedules from one and the choice of channels of a        *)
(* gather.  A behaviour moves one part and leaves the others in their      *)
(* initial state, so that the states are the sum and not the product of    *)
(* theirs; the parts share no state.                                       *)
(***************************************************************************)
EXTENDS MCStreamSessions, EPGCollection, GatherNetwork

VARIABLE part

CollectionSumInit ==
    /\ part \in {"sessions", "collection", "gather"}
    /\ Init /\ CollectionInit /\ GatherInit
    /\ part # "gather" => ordered = 0

CollectionSumNext ==
    /\ UNCHANGED part
    /\ \/ part = "sessions" /\ Next /\ UNCHANGED <<collectionVars, gatherVars>>
       \/ part = "collection" /\ CollectionNext /\ UNCHANGED <<vars, gatherVars>>
       \/ part = "gather" /\ GatherNext /\ UNCHANGED <<vars, collectionVars>>

CollectionSumSpec ==
    CollectionSumInit /\ [][CollectionSumNext]_<<part, vars, collectionVars, gatherVars>>
=============================================================================
