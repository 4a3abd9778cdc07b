---------------------------- MODULE AgentProtocol ----------------------------
(***************************************************************************)
(* One tuner behind an agent: the hub of the server (agent/hub.go) and the *)
(* agent's client (agent/client.go, agent/receiver.go) over a control      *)
(* connection that breaks, between processes that restart.  Every device   *)
(* is one session.  A message that is sent into a broken connection is     *)
(* lost; one that was on its way may still be read before an end notices.  *)
(***************************************************************************)
EXTENDS Integers, Sequences, FiniteSets

CONSTANTS
    Devices,       \* agent.Device values of the tuner, one session each
    MaxGen,        \* bound: control connections
    MaxRestarts    \* bound: restarts of the agent or its host

ASSUME AgentAssumption == MaxGen \in Nat /\ MaxRestarts \in Nat

VARIABLES
    conn,          \* hub.connections[id]: "none", "hello" (no control yet), "up"
    gen,           \* number of connections made; the generation of the last one
    reported,      \* recovered generation in a hello that the hub has not read
    peer,          \* instance and boot of every connection
    sessions,      \* hub.sessions
    sconn,         \* Device.conn: generation, 0 is nil
    quarantined,   \* generation that quarantines the tuner, 0 is none
    hubClosed,
    linkDown, toAgent, toHub,          \* the connection and what is on its way
    agent,         \* client: "down", "hello", "up", "closing" or "exited"
    identity,      \* its instance and its host's boot ID, 0 is unknown
    recovered,     \* state.recoveredGeneration, 0 is ""
    worker,        \* worker of each session
    stopAsked,     \* workers whose context is cancelled
    unclean,       \* sessions whose worker got errCleanup
    receiver,      \* sessions whose receiver process runs
    restarts,
    device,        \* where the caller of each device is
    streamReady,   \* Device.ready: "none", "ok" or "error"
    doneClosed, cleaned,     \* devices whose done / cleaned is closed
    overtaken      \* history: sessions reported clean before errCleanup was sent

serverVars == <<conn, reported, peer, sessions, quarantined, hubClosed>>
linkVars == <<linkDown, toAgent, toHub>>
clientVars == <<agent, identity, recovered, restarts>>
workerVars == <<worker, stopAsked, unclean, receiver>>
sessionVars == <<device, sconn, streamReady, doneClosed, cleaned>>
agentVars == <<serverVars, gen, linkVars, clientVars, workerVars, sessionVars, overtaken>>

Gens == 0 .. MaxGen
Identities == [inst : Nat, boot : Nat]
Message == [type : {"welcome"}] \cup [type : {"start", "stop", "failed"}, of : Devices]
             \cup [type : {"stopped"}, of : Devices, clean : BOOLEAN]

AgentInit ==
    /\ conn = "none" /\ gen = 0 /\ reported = 0 /\ sessions = {} /\ quarantined = 0 /\ hubClosed = FALSE
    /\ peer = [g \in 1 .. MaxGen |-> [inst |-> 0, boot |-> 0]]
    /\ linkDown = FALSE /\ toAgent = <<>> /\ toHub = <<>>
    /\ agent = "down" /\ recovered = 0
    /\ identity \in [inst : {0}, boot : {0, 1}]
    /\ worker = [d \in Devices |-> "none"]
    /\ stopAsked = {} /\ unclean = {} /\ receiver = {} /\ restarts = 0
    /\ device = [d \in Devices |-> "idle"] /\ sconn = [d \in Devices |-> 0]
    /\ streamReady = [d \in Devices |-> "none"] /\ doneClosed = {} /\ cleaned = {}
    /\ overtaken = {}

Send(channel, ms) == IF linkDown THEN channel ELSE channel \o ms

\* Hub.Available
Available == ~hubClosed /\ conn = "up" /\ quarantined = 0

\* Device.signalReady
SignalReady(ds, r) ==
    streamReady' = [d \in Devices |-> IF d \in ds /\ streamReady[d] = "none" THEN r ELSE streamReady[d]]

(***************************************************************************)
(* The control connection                                                  *)
(***************************************************************************)
\* connect dials and says hello; the hub registers the connection, unless it is
\* closed or still has the last one (the agent then tries again).
Dial ==
    /\ agent = "down" /\ conn = "none" /\ ~hubClosed /\ gen < MaxGen
    /\ agent' = "hello" /\ conn' = "hello" /\ gen' = gen + 1
    /\ reported' = recovered /\ peer' = [peer EXCEPT ![gen + 1] = identity]
    /\ linkDown' = FALSE /\ toAgent' = <<>> /\ toHub' = <<>>
    /\ UNCHANGED <<sessions, quarantined, hubClosed, identity, recovered, restarts,
                   workerVars, sessionVars, overtaken>>

\* A hello proves that the receivers of an older connection are gone if the same
\* process reports that it stopped them, or if the host has booted since.
Proves(g) ==
    \/ peer[g].inst = peer[gen].inst /\ g = reported
    \/ peer[g].boot # 0 /\ peer[gen].boot # 0 /\ peer[g].boot # peer[gen].boot

\* serveControl: hello and welcome; an older quarantine ends if hello proves it.
HubHello ==
    /\ conn = "hello" /\ ~hubClosed /\ conn' = "up" /\ reported' = 0
    /\ toAgent' = Send(toAgent, <<[type |-> "welcome"]>>)
    /\ quarantined' = IF quarantined # 0 /\ Proves(quarantined) THEN 0 ELSE quarantined
    /\ UNCHANGED <<peer, sessions, hubClosed, gen, linkDown, toHub, clientVars, workerVars,
                   sessionVars, overtaken>>

\* Mutant: a disconnect with sessions does not quarantine.
HubDisconnectForgets ==
    /\ conn # "none" /\ (linkDown \/ (conn = "hello" /\ hubClosed))
    /\ conn' = "none" /\ reported' = 0 /\ sessions' = {}
    /\ linkDown' = TRUE /\ toHub' = <<>>
    /\ SignalReady(sessions, "error")
    /\ doneClosed' = doneClosed \cup sessions /\ cleaned' = cleaned \cup sessions
    /\ UNCHANGED <<peer, quarantined, hubClosed, gen, toAgent, clientVars, workerVars, device,
                   sconn, overtaken>>

\* disconnect: every session of the connection quarantines the tuner and is aborted.
HubDisconnect ==
    /\ conn # "none" /\ (linkDown \/ (conn = "hello" /\ hubClosed))
    /\ conn' = "none" /\ reported' = 0 /\ sessions' = {}
    /\ linkDown' = TRUE /\ toHub' = <<>>
    /\ quarantined' = IF sessions = {} THEN quarantined ELSE gen
    /\ SignalReady(sessions, "error")
    /\ doneClosed' = doneClosed \cup sessions /\ cleaned' = cleaned \cup sessions
    /\ UNCHANGED <<peer, hubClosed, gen, toAgent, clientVars, workerVars, device,
                   sconn, overtaken>>

\* Hub.Close
HubClose ==
    /\ ~hubClosed /\ hubClosed' = TRUE
    /\ linkDown' = (linkDown \/ conn = "up")
    /\ UNCHANGED <<conn, reported, peer, sessions, quarantined, gen, toAgent, toHub, clientVars,
                   workerVars, sessionVars, overtaken>>

\* The network fails, or a heartbeat is late.
LinkBreaks ==
    /\ conn # "none" /\ ~linkDown /\ linkDown' = TRUE
    /\ UNCHANGED <<serverVars, gen, toAgent, toHub, clientVars, workerVars, sessionVars, overtaken>>

(***************************************************************************)
(* agent.Device, used by the tuner's reservation                           *)
(***************************************************************************)
\* Start up to the "start" message.  The reservation is free once the device
\* before it is over.
DeviceStart(d) ==
    /\ device[d] = "idle"
    /\ \A e \in Devices \ {d} : device[e] \in {"idle", "over"}
    /\ \/ /\ ~Available
          /\ device' = [device EXCEPT ![d] = "over"]
          /\ SignalReady({d}, "error")
          /\ doneClosed' = doneClosed \cup {d} /\ cleaned' = cleaned \cup {d}
          /\ UNCHANGED <<sessions, sconn, toAgent>>
       \/ /\ Available
          /\ sessions' = sessions \cup {d} /\ sconn' = [sconn EXCEPT ![d] = gen]
          /\ toAgent' = Send(toAgent, <<[type |-> "start", of |-> d]>>)
          /\ \/ /\ device' = [device EXCEPT ![d] = "starting"]
                /\ UNCHANGED <<streamReady, doneClosed, cleaned>>
             \/ /\ linkDown /\ device' = [device EXCEPT ![d] = "over"]   \* send fails
                /\ SignalReady({d}, "error")
                /\ doneClosed' = doneClosed \cup {d} /\ cleaned' = cleaned \cup {d}
    /\ UNCHANGED <<conn, reported, peer, quarantined, hubClosed, gen, linkDown, toHub, clientVars,
                   workerVars, overtaken>>

\* Start returns: the first bytes arrived.
DeviceStarted(d) ==
    /\ device[d] = "starting" /\ streamReady[d] = "ok"
    /\ device' = [device EXCEPT ![d] = "running"]
    /\ UNCHANGED <<serverVars, gen, linkVars, clientVars, workerVars, sconn, streamReady, doneClosed, cleaned,
                   overtaken>>

\* Stop up to the wait: by the caller, or by a Start that failed or timed out.
\* "stop" goes to the connection of the session, and is lost if that is gone.
DeviceStop(d) ==
    /\ device[d] \in {"starting", "running"}
    /\ device' = [device EXCEPT ![d] = "stopping"]
    /\ SignalReady({d}, "error") /\ doneClosed' = doneClosed \cup {d}
    /\ toAgent' = IF sconn[d] = gen THEN Send(toAgent, <<[type |-> "stop", of |-> d]>>) ELSE toAgent
    /\ UNCHANGED <<serverVars, gen, linkDown, toHub, clientVars, workerVars, sconn, cleaned, overtaken>>

\* Stop before Start: the device is aborted and a later Start refuses.
DeviceNeverStarts(d) ==
    /\ device[d] = "idle" /\ device' = [device EXCEPT ![d] = "over"]
    /\ SignalReady({d}, "error")
    /\ doneClosed' = doneClosed \cup {d} /\ cleaned' = cleaned \cup {d}
    /\ UNCHANGED <<serverVars, gen, linkVars, clientVars, workerVars, sconn, overtaken>>

DeviceStopped(d) ==
    /\ device[d] = "stopping" /\ d \in cleaned
    /\ device' = [device EXCEPT ![d] = "over"]
    /\ UNCHANGED <<serverVars, gen, linkVars, clientVars, workerVars, sconn, streamReady, doneClosed, cleaned,
                   overtaken>>

\* The context of Stop ends first: the tuner is quarantined.
DeviceStopExpires(d) ==
    /\ device[d] = "stopping"
    /\ device' = [device EXCEPT ![d] = "over"]
    /\ quarantined' = IF d \in sessions THEN sconn[d] ELSE quarantined
    /\ UNCHANGED <<conn, reported, peer, sessions, hubClosed, gen, linkVars, clientVars, workerVars,
                   sconn, streamReady, doneClosed, cleaned, overtaken>>

(***************************************************************************)
(* The agent: connect                                                      *)
(***************************************************************************)
AgentWelcome ==
    /\ agent = "hello" /\ toAgent # <<>> /\ Head(toAgent).type = "welcome"
    /\ agent' = "up" /\ toAgent' = Tail(toAgent)
    /\ UNCHANGED <<serverVars, gen, linkDown, toHub, identity, recovered, restarts, workerVars,
                   sessionVars, overtaken>>

\* The connection fails before welcome: recoveredGeneration stays what it was.
HelloFails ==
    /\ agent = "hello" /\ linkDown /\ agent' = "down" /\ toAgent' = <<>>
    /\ UNCHANGED <<serverVars, gen, linkDown, toHub, identity, recovered, restarts, workerVars, sessionVars,
                   overtaken>>

\* The workers map: a worker leaves it before it reports.
InMap == {d \in Devices : worker[d] \in {"open", "upload", "stop"}}

\* "start": a second session of a busy tuner fails.
AgentStarts ==
    /\ agent = "up" /\ toAgent # <<>> /\ Head(toAgent).type = "start"
    /\ LET d == Head(toAgent).of IN
        IF InMap # {}
        THEN /\ toHub' = Send(toHub, <<[type |-> "failed", of |-> d]>>)
             /\ UNCHANGED worker
        ELSE worker' = [worker EXCEPT ![d] = "open"] /\ UNCHANGED toHub
    /\ toAgent' = Tail(toAgent)
    /\ UNCHANGED <<serverVars, gen, linkDown, clientVars, stopAsked, unclean, receiver, sessionVars,
                   overtaken>>

\* "stop": cancels the worker, or answers for a session that has none.
AgentStops ==
    /\ agent = "up" /\ toAgent # <<>> /\ Head(toAgent).type = "stop"
    /\ LET d == Head(toAgent).of IN
        IF d \in InMap
        THEN stopAsked' = stopAsked \cup {d} /\ UNCHANGED <<toHub, overtaken>>
        ELSE /\ toHub' = Send(toHub, <<[type |-> "stopped", of |-> d, clean |-> TRUE]>>)
             /\ overtaken' = IF worker[d] = "report" /\ d \in unclean THEN overtaken \cup {d}
                             ELSE overtaken
             /\ UNCHANGED stopAsked
    /\ toAgent' = Tail(toAgent)
    /\ UNCHANGED <<serverVars, gen, linkDown, clientVars, worker, unclean, receiver, sessionVars>>

\* The receive loop or a heartbeat fails: connect cancels its workers.
AgentDrops ==
    /\ agent = "up" /\ linkDown /\ agent' = "closing" /\ toAgent' = <<>>
    /\ stopAsked' = stopAsked \cup InMap
    /\ UNCHANGED <<serverVars, gen, linkDown, toHub, identity, recovered, restarts, worker, unclean, receiver,
                   sessionVars, overtaken>>

\* Mutant: recoveredGeneration is not set.
AgentClosesForgets ==
    /\ agent = "closing" /\ \A d \in Devices : worker[d] = "none"
    /\ agent' = IF unclean # {} THEN "exited" ELSE "down"
    /\ UNCHANGED <<serverVars, gen, linkVars, identity, recovered, restarts, workerVars,
                   sessionVars, overtaken>>

\* ... waits for them, and ends for good if a receiver could not be stopped.
AgentCloses ==
    /\ agent = "closing" /\ \A d \in Devices : worker[d] = "none"
    /\ IF unclean # {} THEN agent' = "exited" /\ UNCHANGED recovered
       ELSE agent' = "down" /\ recovered' = gen
    /\ UNCHANGED <<serverVars, gen, linkVars, identity, restarts, workerVars, sessionVars, overtaken>>

\* The agent dies or is replaced, and its receivers live on; a reboot ends them.
AgentRestarts(reboot) ==
    /\ restarts < MaxRestarts /\ restarts' = restarts + 1
    /\ agent' = "down" /\ recovered' = 0 /\ linkDown' = TRUE /\ toAgent' = <<>>
    /\ identity' = [inst |-> identity.inst + 1,
                    boot |-> IF reboot /\ identity.boot # 0 THEN identity.boot + 1
                             ELSE identity.boot]
    /\ worker' = [d \in Devices |-> "none"] /\ stopAsked' = {} /\ unclean' = {}
    /\ receiver' = IF reboot THEN {} ELSE receiver
    /\ UNCHANGED <<serverVars, gen, toHub, sessionVars, overtaken>>

(***************************************************************************)
(* The agent: a worker and its receiver                                    *)
(***************************************************************************)
\* openReceiver launches the process, again after an attempt that failed.
ReceiverStarts(d) ==
    /\ worker[d] = "open" /\ d \notin receiver
    /\ receiver' = receiver \cup {d}
    /\ UNCHANGED <<serverVars, gen, linkVars, clientVars, worker, stopAsked, unclean, sessionVars,
                   overtaken>>

\* A receiver ends by itself, is reaped by a failed attempt, or after errCleanup.
ReceiverExits(d) ==
    /\ d \in receiver /\ worker[d] # "stop"
    /\ receiver' = receiver \ {d}
    /\ UNCHANGED <<serverVars, gen, linkVars, clientVars, worker, stopAsked, unclean, sessionVars,
                   overtaken>>

\* The upload reaches the hub while the session is current: the stream is ready.
UploadStarts(d) ==
    /\ worker[d] = "open" /\ d \in receiver
    /\ d \in sessions /\ conn = "up" /\ sconn[d] = gen /\ d \notin doneClosed
    /\ worker' = [worker EXCEPT ![d] = "upload"]
    /\ SignalReady({d}, "ok")
    /\ UNCHANGED <<serverVars, gen, linkVars, clientVars, stopAsked, unclean, receiver, device, sconn,
                   doneClosed, cleaned, overtaken>>

\* No receiver, no session, an upload that ends at either side, or cancelled.
WorkerEnds(d) ==
    /\ worker[d] \in {"open", "upload"}
    /\ worker' = [worker EXCEPT ![d] = "stop"]
    /\ doneClosed' = IF worker[d] = "upload" THEN doneClosed \cup {d} ELSE doneClosed
    /\ UNCHANGED <<serverVars, gen, linkVars, clientVars, stopAsked, unclean, receiver, device, sconn,
                   streamReady, cleaned, overtaken>>

\* receiver.stop reaps the processes, or gives up after five seconds.
ReceiverStops(d) ==
    /\ worker[d] = "stop" /\ worker' = [worker EXCEPT ![d] = "report"]
    /\ \/ receiver' = receiver \ {d} /\ UNCHANGED unclean
       \/ d \in receiver /\ unclean' = unclean \cup {d} /\ UNCHANGED receiver
    /\ UNCHANGED <<serverVars, gen, linkVars, clientVars, stopAsked, sessionVars, overtaken>>

\* The worker, out of the map, says how it ended.
WorkerReports(d) ==
    /\ worker[d] = "report" /\ worker' = [worker EXCEPT ![d] = "none"]
    /\ stopAsked' = stopAsked \ {d}
    /\ \E fails \in BOOLEAN :
        /\ d \in stopAsked => ~fails
        /\ d \in unclean \ stopAsked => fails
        /\ toHub' = Send(toHub,
             (IF fails THEN <<[type |-> "failed", of |-> d]>> ELSE <<>>)
               \o <<[type |-> "stopped", of |-> d, clean |-> d \notin unclean]>>)
    /\ UNCHANGED <<serverVars, gen, linkDown, toAgent, clientVars, unclean, receiver,
                   sessionVars, overtaken>>

(***************************************************************************)
(* The hub's receive loop                                                  *)
(***************************************************************************)
HubFailed ==
    /\ conn = "up" /\ toHub # <<>> /\ Head(toHub).type = "failed"
    /\ SignalReady({Head(toHub).of} \cap sessions, "error") /\ toHub' = Tail(toHub)
    /\ UNCHANGED <<serverVars, gen, linkDown, toAgent, clientVars, workerVars, device, sconn, doneClosed,
                   cleaned, overtaken>>

\* "stopped" of a registered session: Device.complete.
Complete(d, clean) ==
    /\ quarantined' = IF ~clean THEN gen ELSE IF quarantined = gen THEN 0 ELSE quarantined
    /\ sessions' = sessions \ {d}
    /\ SignalReady({d}, "error")
    /\ doneClosed' = doneClosed \cup {d} /\ cleaned' = cleaned \cup {d}

HubStopped ==
    /\ conn = "up" /\ toHub # <<>> /\ Head(toHub).type = "stopped"
    /\ IF Head(toHub).of \in sessions THEN Complete(Head(toHub).of, Head(toHub).clean)
       ELSE UNCHANGED <<quarantined, sessions, streamReady, doneClosed, cleaned>>
    /\ toHub' = Tail(toHub)
    /\ UNCHANGED <<conn, reported, peer, hubClosed, gen, linkDown, toAgent, clientVars, workerVars,
                   device, sconn, overtaken>>

AgentNext ==
    \/ Dial \/ HubHello \/ HubDisconnect \/ HubClose \/ LinkBreaks
    \/ AgentWelcome \/ HelloFails \/ AgentStarts \/ AgentStops \/ AgentDrops \/ AgentCloses
    \/ \E reboot \in BOOLEAN : AgentRestarts(reboot)
    \/ HubFailed \/ HubStopped
    \/ \E d \in Devices :
        \/ DeviceStart(d) \/ DeviceStarted(d) \/ DeviceStop(d) \/ DeviceNeverStarts(d)
        \/ DeviceStopped(d) \/ DeviceStopExpires(d)
        \/ ReceiverStarts(d) \/ UploadStarts(d) \/ WorkerEnds(d)
        \/ ReceiverStops(d) \/ WorkerReports(d) \/ ReceiverExits(d)

AgentSpec == AgentInit /\ [][AgentNext]_agentVars

\* Every goroutine goes on, every timer fires, an agent dials again; nothing
\* makes a receiver exit, a worker end unasked or the tuner's user act.
AgentFairness ==
    /\ WF_agentVars(gen > 0 /\ Dial) /\ WF_agentVars(HubHello) /\ WF_agentVars(HubDisconnect)
    /\ WF_agentVars(AgentWelcome \/ AgentStarts \/ AgentStops)
    /\ WF_agentVars(HelloFails \/ AgentDrops) /\ WF_agentVars(AgentCloses)
    /\ WF_agentVars(HubFailed \/ HubStopped)
    /\ \A d \in Devices :
        /\ WF_agentVars(WorkerEnds(d) /\ d \in stopAsked \cup doneClosed)
        /\ WF_agentVars(ReceiverStops(d)) /\ WF_agentVars(WorkerReports(d))
        /\ WF_agentVars(DeviceStopped(d) \/ DeviceStopExpires(d))

FairAgentSpec == AgentSpec /\ AgentFairness

(***************************************************************************)
(* Properties                                                              *)
(***************************************************************************)
AgentTypeOK ==
    /\ conn \in {"none", "hello", "up"}
    /\ gen \in Gens /\ quarantined \in Gens /\ reported \in Gens
    /\ peer \in [1 .. MaxGen -> Identities] /\ identity \in Identities
    /\ sessions \subseteq Devices /\ sconn \in [Devices -> Gens]
    /\ hubClosed \in BOOLEAN /\ linkDown \in BOOLEAN
    /\ toAgent \in Seq(Message) /\ toHub \in Seq(Message)
    /\ agent \in {"down", "hello", "up", "closing", "exited"} /\ recovered \in Gens
    /\ worker \in [Devices -> {"none", "open", "upload", "stop", "report"}]
    /\ stopAsked \subseteq Devices /\ unclean \subseteq Devices /\ receiver \subseteq Devices
    /\ doneClosed \subseteq Devices /\ cleaned \subseteq Devices /\ overtaken \subseteq Devices
    /\ restarts \in 0 .. MaxRestarts
    /\ device \in [Devices -> {"idle", "starting", "running", "stopping", "over"}]
    /\ streamReady \in [Devices -> {"none", "ok", "error"}]

\* The hub offers an idle tuner only when no receiver of it runs on the agent's
\* host, through broken connections, lost messages, stops that time out and
\* restarts; but for a receiver whose failed cleanup was reported as clean.
OfferedIsQuiet == Available /\ sessions = {} => receiver \subseteq overtaken

\* The same without the exception: a cleanup that failed withdraws the tuner
\* (client.go sends errCleanup as the reason of "stopped").
OfferedMeansStopped == Available /\ sessions = {} => receiver = {}

\* A session does not outlive its device: once the device was stopped, the hub
\* forgets the session, answered by the agent or at the end of the connection.
SessionsEnd ==
    \A d \in Devices : device[d] \in {"stopping", "over"} ~> d \notin sessions

\* A tuner that was in use when the connection broke comes back by itself: once
\* the agent process has stopped its workers, its next hello lifts the quarantine
\* (TestAgentReconnectRecovery).  An agent that never read the welcome of the
\* connection does not report it, and the tuner stays out.
KnownQuarantineLifted ==
    (quarantined # 0 /\ quarantined = IF agent = "closing" THEN gen ELSE recovered)
      ~> (quarantined = 0 \/ agent = "exited" \/ restarts > 0 \/ hubClosed \/ gen = MaxGen)
=============================================================================
