----------------------------- MODULE MCReceivers -----------------------------
(***************************************************************************)
(* What receives from outside and must settle or stop, for TLC: a process  *)
(* device, the hub it writes to, the delivery of its bytes, an agent's     *)
(* sessions, the mirror of another server's tuners and a data carousel.  A *)
(* behaviour moves one part and leaves the others in their initial state,  *)
(* in which no action that fairness speaks of is enabled, so that the      *)
(* states are the sum and not the product of theirs; the parts share no    *)
(* state.                                                                  *)
(***************************************************************************)
EXTENDS ProcessDevice, MultiWriter, Delivery, AgentProtocol, RemoteMirror, Carousel

VARIABLE part

\* Module lists of a carousel: two that share a module, and one with a module
\* that exceeds the budget of the assembly.
Module(i, s, v) == [id |-> i, size |-> s, version |-> v]
MCDIIs == {<<Module(1, 2, 1), Module(2, 1, 1)>>,
           <<Module(1, 1, 2), Module(2, 1, 1)>>,
           <<Module(2, 2, 2), Module(1, 3, 3)>>}

receiversVars == <<part, deviceVars, hubVars, deliveryVars, agentVars, mirrorVars, carouselVars>>

ReceiversInit ==
    /\ part \in {"device", "hub", "delivery", "agent", "mirror", "carousel"}
    /\ DeviceInit /\ HubInit /\ DeliveryInit /\ AgentInit /\ MirrorInit /\ CarouselInit
    /\ part # "device" => ~dvb /\ retryMax = 0
    /\ part # "delivery" => attached = {CHOOSE e \in Engines : TRUE}
    /\ part # "agent" => identity.boot = 1
    /\ part # "carousel" => storeKind = "none" /\ air = (CHOOSE d \in DIIs : TRUE)

ReceiversNext ==
    \/ /\ part = "device" /\ DeviceNext
       /\ UNCHANGED <<part, hubVars, deliveryVars, agentVars, mirrorVars, carouselVars>>
    \/ /\ part = "hub" /\ HubNext
       /\ UNCHANGED <<part, deviceVars, deliveryVars, agentVars, mirrorVars, carouselVars>>
    \/ /\ part = "delivery" /\ DeliveryNext
       /\ UNCHANGED <<part, deviceVars, hubVars, agentVars, mirrorVars, carouselVars>>
    \/ /\ part = "agent" /\ AgentNext
       /\ UNCHANGED <<part, deviceVars, hubVars, deliveryVars, mirrorVars, carouselVars>>
    \/ /\ part = "mirror" /\ MirrorNext
       /\ UNCHANGED <<part, deviceVars, hubVars, deliveryVars, agentVars, carouselVars>>
    \/ /\ part = "carousel" /\ CarouselNext
       /\ UNCHANGED <<part, deviceVars, hubVars, deliveryVars, agentVars, mirrorVars>>

ReceiversSpec ==
    /\ ReceiversInit /\ [][ReceiversNext]_receiversVars
    /\ DeviceFairness /\ HubFairness /\ DeliveryFairness /\ AgentFairness
    /\ MirrorFairness /\ CarouselFairness

\* Every call that a shutdown of the server waits for comes to its end: the
\* Stop of a device and its process, the Detach of a writer, the session of a
\* device that was stopped and the synchronisation of the mirror.
EndingCallsReturn ==
    StopReturns /\ CancelEndsDevice /\ DetachReturns /\ SessionsEnd /\ SyncEnds
=============================================================================
