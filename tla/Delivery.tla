------------------------------ MODULE Delivery ------------------------------
(***************************************************************************)
(* The path of the bytes, composed: the copier of a started process device *)
(* writes to the hub of a broadcast, whose lossless writers are the pipes  *)
(* of the fan-out engines that share the broadcast.  Data is left out: the *)
(* question is who ends when somebody fails, ends or leaves.               *)
(***************************************************************************)
EXTENDS Integers, FiniteSets

CONSTANT Engines     \* fan-out engines on one broadcast

VARIABLES
    process,       \* the tuner process: "live", "killed" or "exited"
    copier,        \* processDevice.copyRaw
    inWrite,       \* engines in the snapshot of the hub's Write in progress
    unserved,      \* those it has still to write to
    writeFailed,   \* those whose pipe was closed
    attached,      \* hub.subscribers
    broken,        \* engines whose pipe is closed
    engine,        \* where Engine.run is
    clients,       \* engines that have a subscriber
    sourcePc,      \* where SubscribeRaw of each engine is
    bRefs,         \* Broadcast.refs
    bStopped       \* Broadcast.stopped

pathVars == <<process, copier, inWrite, unserved, writeFailed>>
shareVars == <<attached, broken, bRefs, bStopped>>
readVars == <<engine, clients, sourcePc>>
deliveryVars == <<pathVars, shareVars, readVars>>

\* One engine has started the device and is attached.
DeliveryInit ==
    /\ process = "live" /\ copier = "copy"
    /\ inWrite = {} /\ unserved = {} /\ writeFailed = {}
    /\ \E first \in Engines :
        /\ attached = {first} /\ clients = {first}
        /\ engine = [e \in Engines |-> IF e = first THEN "run" ELSE "idle"]
        /\ sourcePc = [e \in Engines |-> IF e = first THEN "wait" ELSE "none"]
    /\ broken = {} /\ bRefs = 1 /\ bStopped = FALSE

(***************************************************************************)
(* io.Copy of the device into the hub                                      *)
(***************************************************************************)
\* The snapshot of Write; without writers it fails at once.
WriteStarts ==
    /\ copier = "copy" /\ process = "live"
    /\ copier' = IF attached = {} THEN "wait" ELSE "write"
    /\ inWrite' = attached /\ unserved' = attached /\ writeFailed' = {}
    /\ UNCHANGED <<process, shareVars, readVars>>

\* Mutant: a write to a pipe that is closed does not return.
WriteToBlocks(e) ==
    /\ e \in unserved /\ e \notin broken /\ engine[e] = "run"
    /\ unserved' = unserved \ {e}
    /\ UNCHANGED <<process, copier, inWrite, writeFailed, shareVars, readVars>>

\* The pipe of an engine that reads takes the data; a closed one fails.
WriteTo(e) ==
    /\ e \in unserved
    /\ \/ e \in broken /\ writeFailed' = writeFailed \cup {e}
       \/ e \notin broken /\ engine[e] = "run" /\ UNCHANGED writeFailed
    /\ unserved' = unserved \ {e}
    /\ UNCHANGED <<process, copier, inWrite, shareVars, readVars>>

\* Write fails only if it served nobody and nobody else is attached; the failed
\* writers are detached.
WriteReturns ==
    /\ copier = "write" /\ unserved = {}
    /\ attached' = attached \ writeFailed
    /\ copier' = IF inWrite \cup attached \subseteq writeFailed THEN "wait" ELSE "copy"
    /\ inWrite' = {} /\ writeFailed' = {}
    /\ UNCHANGED <<process, unserved, broken, bRefs, bStopped, readVars>>

\* End of the process's output.
CopySeesExit ==
    /\ copier = "copy" /\ process = "exited"
    /\ copier' = "wait"
    /\ UNCHANGED <<process, inWrite, unserved, writeFailed, shareVars, readVars>>

\* process.Wait has returned: finish closes the device's done.
CopyFinishes ==
    /\ copier = "wait" /\ process = "exited"
    /\ copier' = "end"
    /\ UNCHANGED <<process, inWrite, unserved, writeFailed, shareVars, readVars>>

\* By itself, or by the signals of Stop.
ProcessEnds ==
    /\ process # "exited"
    /\ process' = "exited"
    /\ UNCHANGED <<copier, inWrite, unserved, writeFailed, shareVars, readVars>>

(***************************************************************************)
(* Engines and their subscribers                                           *)
(***************************************************************************)
\* Broadcast.mu, which detach holds while it waits for the Write in progress.
BroadcastFree == \A e \in Engines : sourcePc[e] # "detach"

\* The first subscriber of an engine starts it and attaches it to the broadcast.
Join(e) ==
    /\ engine[e] = "idle" /\ ~ bStopped /\ BroadcastFree
    /\ engine' = [engine EXCEPT ![e] = "run"]
    /\ sourcePc' = [sourcePc EXCEPT ![e] = "wait"]
    /\ attached' = attached \cup {e}
    /\ bRefs' = bRefs + 1
    /\ clients' = clients \cup {e}
    /\ UNCHANGED <<pathVars, broken, bStopped>>

\* The last subscriber leaves: the engine's context is cancelled.
Leave(e) ==
    /\ e \in clients
    /\ clients' = clients \ {e}
    /\ UNCHANGED <<pathVars, shareVars, engine, sourcePc>>

\* A packet cannot be read or parsed: the loop breaks and r is closed.
EngineFails(e) ==
    /\ engine[e] = "run" /\ sourcePc[e] = "wait"
    /\ engine' = [engine EXCEPT ![e] = "failed"]
    /\ broken' = broken \cup {e}
    /\ UNCHANGED <<pathVars, attached, bRefs, bStopped, clients, sourcePc>>

\* Broadcast.wait returns on the context or on the device's done; detach takes
\* b.mu, removes and closes the pipe, and waits for the Write in progress.
SourceLeaves(e) ==
    /\ sourcePc[e] = "wait" /\ BroadcastFree
    /\ e \notin clients \/ copier = "end"
    /\ attached' = attached \ {e}
    /\ broken' = broken \cup {e}
    /\ sourcePc' = [sourcePc EXCEPT ![e] = "detach"]
    /\ UNCHANGED <<pathVars, bRefs, bStopped, engine, clients>>

\* The rest of detach; the last one stops the broadcast, which closes the hub
\* and stops the device.
SourceDetached(e) ==
    /\ sourcePc[e] = "detach" /\ e \notin inWrite
    /\ sourcePc' = [sourcePc EXCEPT ![e] = "returned"]
    /\ bRefs' = bRefs - 1
    /\ IF bRefs = 1
       THEN /\ bStopped' = TRUE
            /\ process' = IF process = "live" THEN "killed" ELSE process
       ELSE UNCHANGED <<bStopped, process>>
    /\ UNCHANGED <<copier, inWrite, unserved, writeFailed, attached, broken, engine, clients>>

\* <-sourceDone, then close, which ends every subscriber of the engine.
EngineCloses(e) ==
    /\ engine[e] \in {"run", "failed"} /\ sourcePc[e] = "returned"
    /\ engine' = [engine EXCEPT ![e] = "closed"]
    /\ clients' = clients \ {e}
    /\ UNCHANGED <<pathVars, shareVars, sourcePc>>

CopierStep == WriteReturns \/ CopySeesExit \/ CopyFinishes \/ \E e \in Engines : WriteTo(e)
EngineStep(e) == SourceLeaves(e) \/ SourceDetached(e) \/ EngineCloses(e)

DeliveryNext ==
    \/ WriteStarts \/ CopierStep \/ ProcessEnds
    \/ \E e \in Engines : Join(e) \/ Leave(e) \/ EngineFails(e) \/ EngineStep(e)

\* Goroutines run and a killed process dies; a process with nobody reading its
\* output need not exit, and subscribers need not leave.
DeliveryFairness ==
    /\ WF_deliveryVars(CopierStep)
    /\ WF_deliveryVars(process = "killed" /\ ProcessEnds)
    /\ \A e \in Engines : WF_deliveryVars(EngineStep(e))

DeliverySpec == DeliveryInit /\ [][DeliveryNext]_deliveryVars
FairDeliverySpec == DeliverySpec /\ DeliveryFairness

(***************************************************************************)
(* Properties                                                              *)
(***************************************************************************)

\* An engine whose subscribers have left, or whose device has ended, closes, and
\* after the last one the process is gone and the copier has returned, whichever
\* Write, failure or detach is in progress.
DeliveryEnds ==
    /\ \A e \in Engines :
        engine[e] # "idle" /\ (e \notin clients \/ copier = "end") ~> engine[e] = "closed"
    /\ bStopped ~> process = "exited" /\ copier = "end"

\* Subscribers of an engine that cannot read its stream are told: the engine
\* closes with the error.  "SubscribeChannel over TLV bytes hung instead of
\* rejecting" is a failure of demuxer_test.go.
FailedEngineReturns == \A e \in Engines : engine[e] = "failed" ~> engine[e] = "closed"
=============================================================================
