--------------------------- MODULE DeviceContract ---------------------------
(***************************************************************************)
(* What the rest of the server relies on from a local tuner device: at     *)
(* most one process runs, none runs before Start or after a failed Start,  *)
(* Done closes only once the process is gone, and a Stop of a device that  *)
(* was being started returns without a context error only after that.      *)
(***************************************************************************)
CONSTANTS Attempts, Stoppers

VARIABLES phase, running, over, stopped

contractVars == <<phase, running, over, stopped>>

ContractInit ==
    /\ phase = "idle"
    /\ running = {}
    /\ over = FALSE
    /\ stopped = {}

Begin ==
    /\ phase = "idle"
    /\ phase' = "starting"
    /\ UNCHANGED <<running, over, stopped>>

Launch(a) ==
    /\ phase = "starting" /\ running = {}
    /\ running' = {a}
    /\ phase' \in {"starting", "started"}
    /\ UNCHANGED <<over, stopped>>

Succeed ==
    /\ phase = "starting"
    /\ phase' = "started"
    /\ UNCHANGED <<running, over, stopped>>

Fail ==
    /\ phase = "starting" /\ running = {}
    /\ phase' = "failed"
    /\ UNCHANGED <<running, over, stopped>>

Exit(a) ==
    /\ a \in running
    /\ running' = {}
    /\ UNCHANGED <<phase, over, stopped>>

Finish ==
    /\ phase = "started" /\ running = {} /\ ~ over
    /\ over' = TRUE
    /\ UNCHANGED <<phase, running, stopped>>

StopReturns(s) ==
    /\ over /\ s \notin stopped
    /\ stopped' = stopped \cup {s}
    /\ UNCHANGED <<phase, running, over>>

ContractNext ==
    \/ Begin \/ Succeed \/ Fail \/ Finish
    \/ \E a \in Attempts : Launch(a) \/ Exit(a)
    \/ \E s \in Stoppers : StopReturns(s)

ContractSpec == ContractInit /\ [][ContractNext]_contractVars
=============================================================================
