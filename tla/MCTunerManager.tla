-------------------------- MODULE MCTunerManager --------------------------
(***************************************************************************)
(* Small instances of the tuner manager.                                   *)
(***************************************************************************)
EXTENDS TunerManager

CONSTANTS r1, r2, r3

\* A viewer, a background job that waits, and a recording that may grab both.
MCReqPriority == [r \in Requests |-> CASE r = r1 -> 0 [] r = r2 -> -1 [] r = r3 -> 2]
MCReqWait == [r \in Requests |-> r # r1]
\* A user who protects a tuner from all of them
MCUserPriority == [u \in Users |-> 2]

\* Tuners of one type
MCReqType == [r \in Requests |-> "GR"]
MCGroups == [t \in Tuners |-> {"GR"}]
=============================================================================
