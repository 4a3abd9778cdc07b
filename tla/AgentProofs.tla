----------------------------- MODULE AgentProofs -----------------------------
(***************************************************************************)
(* Proofs about AgentProtocol: what the hub offers does not run, for any   *)
(* devices and any number of connections and restarts.                     *)
(***************************************************************************)
EXTENDS AgentProtocol, TLAPS

\* Where the two ends of the connection are.  An agent that waits for welcome
\* has no workers, and neither has one that is down; no device is of a
\* connection whose hello the hub has not read.
LinkInv ==
    /\ sessions # {} => conn = "up"
    /\ \A d \in Devices : sconn[d] <= gen
    /\ \A d \in sessions : sconn[d] = gen
    /\ conn # "none" => gen > 0
    /\ conn = "hello" =>
        toAgent = <<>> /\ agent \in {"hello", "down"} /\ \A d \in Devices : sconn[d] < gen
    /\ agent \in {"hello", "up", "closing"} => gen > 0
    /\ unclean # {} => agent \in {"up", "closing", "exited"}
    /\ \A d \in Devices : worker[d] # "none" => agent \in {"up", "closing"} /\ sconn[d] = gen

\* A device that was not started has left no trace, a started one has a connection.
IdleInv ==
    \A d \in Devices : device[d] = "idle" =>
        /\ worker[d] = "none" /\ d \notin receiver \cup sessions \cup cleaned \cup unclean
        /\ \A i \in 1 .. Len(toAgent) : toAgent[i].type # "welcome" => toAgent[i].of # d
        /\ \A i \in 1 .. Len(toHub) : toHub[i].of # d

\* Hosts that booted since have no receivers of an older connection.
BootInv ==
    /\ agent \in {"hello", "up", "closing"} => peer[gen] = identity
    /\ \A d \in receiver :
        sconn[d] > 0 /\ \A g \in 1 .. gen : sconn[d] <= g => peer[g].boot = identity.boot

\* A receiver of the current connection has a worker, or its cleanup has failed.
WorkerInv ==
    /\ \A d \in receiver : agent \in {"hello", "up", "closing"} /\ sconn[d] = gen =>
        worker[d] # "none" \/ d \in unclean
    /\ \A d \in receiver : worker[d] = "report" => d \in unclean

\* A connection that the agent reports as cleaned up has no receivers.
RecoveredInv ==
    /\ recovered <= gen /\ (agent \in {"hello", "up", "closing"} => recovered < gen)
    /\ recovered # 0 => \A d \in receiver : sconn[d] # recovered
    /\ reported # 0 => conn = "hello" /\ reported < gen /\ \A d \in receiver : sconn[d] # reported

\* A session whose start was never sent is dead.
DeadInv ==
    \A d \in sessions \cap cleaned :
        /\ linkDown /\ device[d] = "over"
        /\ \A i \in 1 .. Len(toHub) : toHub[i].of # d
        /\ \A i \in 1 .. Len(toAgent) : toAgent[i].type # "welcome" => toAgent[i].of # d
        /\ worker[d] = "none"

Starts(d) == \E i \in 1 .. Len(toAgent) : toAgent[i].type = "start" /\ toAgent[i].of = d
Alive(d) == d \in receiver \/ d \in InMap \/ Starts(d)

\* There is one session at a time; it outlives its device only in quarantine.
SessionInv ==
    /\ \A d, e \in sessions \ cleaned : d = e
    /\ \A d \in sessions \ cleaned : device[d] = "over" => quarantined = gen
    /\ sessions # {} => quarantined \in {0, gen}

\* What may run is a session's or is in quarantine.
CoverInv ==
    \A d \in Devices \ overtaken : Alive(d) =>
        /\ sconn[d] > 0
        /\ d \in sessions \/ quarantined = sconn[d]
        /\ sessions \ cleaned # {} => d \in sessions

\* "start" comes before "stop", and "stopped" after both.
StartsFirst(i) ==
    /\ sconn[toAgent[i].of] = gen /\ gen > 0 /\ worker[toAgent[i].of] = "none"
    /\ \A j \in 1 .. Len(toHub) : toHub[j].type = "stopped" => toHub[j].of # toAgent[i].of
    /\ \A j \in 1 .. Len(toAgent) :
        j < i /\ toAgent[j].type # "welcome" => toAgent[j].of # toAgent[i].of

StartInv == \A i \in 1 .. Len(toAgent) : toAgent[i].type = "start" => StartsFirst(i)

\* A worker that is in the map has not reported.
MapInv == \A i \in 1 .. Len(toHub) : toHub[i].type = "stopped" => toHub[i].of \notin InMap

\* toHub[i] says that the cleanup of d failed.
SaysUnclean(i, d) == toHub[i].type = "stopped" /\ toHub[i].of = d /\ toHub[i].clean = FALSE

\* The hub reads of a failed cleanup before it reads that the session is over.
StoppedInv ==
    \A i \in 1 .. Len(toHub), d \in (receiver \cap sessions) \ overtaken :
        toHub[i].type = "stopped" /\ toHub[i].of = d /\ toHub[i].clean = TRUE =>
            \E j \in 1 .. Len(toHub) : j < i /\ SaysUnclean(j, d)

\* A failed cleanup is on its way to the hub until the hub has read it.
UncleanInv ==
    agent = "up" /\ ~linkDown =>
        \A d \in unclean \cap sessions : worker[d] = "none" =>
            \E j \in 1 .. Len(toHub) : SaysUnclean(j, d)

AgentInv ==
    /\ AgentTypeOK /\ LinkInv /\ IdleInv /\ BootInv /\ WorkerInv /\ RecoveredInv /\ DeadInv
    /\ SessionInv /\ CoverInv /\ StartInv /\ MapInv /\ StoppedInv /\ UncleanInv
\* r is q with messages of M added at the end, if the connection is not broken.
Grown(q, r, M) ==
    /\ r \in Seq(Message) /\ Len(q) <= Len(r) /\ (linkDown => r = q)
    /\ \A i \in 1 .. Len(q) : r[i] = q[i]
    /\ \A i \in 1 .. Len(r) : i > Len(q) => r[i] \in M

\* Send adds the message, or loses it in a broken connection.
LEMMA SendGrows ==
    ASSUME NEW q \in Seq(Message), NEW m \in Message
    PROVE  Grown(q, Send(q, <<m>>), {m}) /\ (~linkDown => Len(Send(q, <<m>>)) = Len(q) + 1)
<1>1. CASE linkDown
    BY <1>1 DEF Grown, Send
<1>2. CASE ~linkDown
  <2>1. q \o <<m>> \in Seq(Message) /\ Len(q \o <<m>>) = Len(q) + 1
    OBVIOUS
  <2>2. \A i \in 1 .. Len(q) : (q \o <<m>>)[i] = q[i]
    OBVIOUS
  <2>3. (q \o <<m>>)[Len(q) + 1] = m
    OBVIOUS
  <2> QED BY <1>2, <2>1, <2>2, <2>3 DEF Grown, Send
<1> QED BY <1>1, <1>2, Zenon

\* ... and no other.
LEMMA SendLength ==
    ASSUME NEW q \in Seq(Message), NEW m \in Message
    PROVE  Len(Send(q, <<m>>)) <= Len(q) + 1
BY SendGrows DEF Send

\* The same for two messages, of which the second is the last.
LEMMA SendGrowsByTwo ==
    ASSUME NEW q \in Seq(Message), NEW m \in Message, NEW n \in Message
    PROVE  LET r == Send(q, <<m>> \o <<n>>) IN
           Grown(q, r, {m, n}) /\ (~linkDown => Len(r) = Len(q) + 2 /\ r[Len(r)] = n)
<1> DEFINE t == <<m>> \o <<n>>
<1>1. t \in Seq(Message) /\ Len(t) = 2 /\ t[1] = m /\ t[2] = n
    OBVIOUS
<1>2. CASE linkDown
    BY <1>1, <1>2 DEF Grown, Send
<1>3. CASE ~linkDown
  <2> HIDE DEF t
  <2>0. \A u \in Seq(Message) : q \o u \in Seq(Message) /\ Len(q \o u) = Len(q) + Len(u)
    OBVIOUS
  <2>1. q \o t \in Seq(Message) /\ Len(q \o t) = Len(q) + 2
    BY <1>1, <2>0, Zenon
  <2>2. \A i \in 1 .. Len(q) : (q \o t)[i] = q[i]
    BY <1>1
  <2>3. (q \o t)[Len(q) + 1] = m /\ (q \o t)[Len(q) + 2] = n
    BY <1>1, SMTT(30)
  <2> QED BY <1>3, <2>1, <2>2, <2>3 DEF Grown, Send, t
<1> QED BY <1>2, <1>3, Zenon

\* The connection's queues, as the actions change them.
LEMMA Mail ==
    ASSUME AgentTypeOK
    PROVE  /\ HubHello => Grown(toAgent, toAgent', {[type |-> "welcome"]})
           /\ \A d \in Devices : DeviceStart(d) =>
               Grown(toAgent, toAgent', {[type |-> "start", of |-> d]})
           /\ \A d \in Devices : DeviceStop(d) =>
                Grown(toAgent, toAgent', {[type |-> "stop", of |-> d]}) /\ (sconn[d] # gen =>
                        toAgent' = toAgent)
           /\ AgentStarts => Grown(toHub, toHub', {[type |-> "failed", of |-> Head(toAgent).of]})
           /\ AgentStops =>
                Grown(toHub, toHub', {[type |-> "stopped", of |-> Head(toAgent).of, clean |-> TRUE]})
           /\ \A d \in Devices : WorkerReports(d) =>
                LET m == [type |-> "stopped", of |-> d, clean |-> d \notin unclean] IN
                /\ Grown(toHub, toHub', {[type |-> "failed", of |-> d], m})
                /\ ~linkDown => toHub'[Len(toHub')] = m /\ Len(toHub') > 0
           /\ AgentWelcome \/ AgentStarts \/ AgentStops =>
                toAgent # <<>> /\ toAgent' = Tail(toAgent) /\ Head(toAgent) \in Message
<1> USE DEF AgentTypeOK
<1>0. \A q \in Seq(Message) : \A M : Grown(q, q, M)
    BY DEF Grown
<1>1. ASSUME HubHello PROVE Grown(toAgent, toAgent', {[type |-> "welcome"]})
  <2>1. [type |-> "welcome"] \in Message
    BY Zenon DEF Message
  <2> QED BY <1>1, <2>1, SendGrows, Zenon DEF HubHello
<1>2. ASSUME NEW d \in Devices, DeviceStart(d)
      PROVE  Grown(toAgent, toAgent', {[type |-> "start", of |-> d]})
  <2>1. [type |-> "start", of |-> d] \in Message
    BY Zenon DEF Message
  <2>2. toAgent' = Send(toAgent, <<[type |-> "start", of |-> d]>>) \/ toAgent' = toAgent
    BY <1>2, Zenon DEF DeviceStart
  <2> QED BY <1>0, <2>1, <2>2, SendGrows, Zenon
<1>3. ASSUME NEW d \in Devices, DeviceStop(d)
      PROVE  Grown(toAgent, toAgent', {[type |-> "stop", of |-> d]}) /\ (sconn[d] # gen =>
                toAgent' = toAgent)
  <2>1. [type |-> "stop", of |-> d] \in Message
    BY Zenon DEF Message
  <2>2. IF sconn[d] = gen THEN toAgent' = Send(toAgent, <<[type |-> "stop", of |-> d]>>)
        ELSE toAgent' = toAgent
    BY <1>3, Zenon DEF DeviceStop
  <2> QED BY <1>0, <2>1, <2>2, SendGrows, Zenon
<1>4. ASSUME toAgent # <<>> PROVE Head(toAgent) \in Message
    BY <1>4
<1>5. \A m \in Message : m.type \in {"start", "stop"} => m.of \in Devices
    BY Zenon DEF Message
<1>6. ASSUME AgentStarts PROVE Grown(toHub, toHub', {[type |-> "failed", of |-> Head(toAgent).of]})
  <2>1. Head(toAgent).of \in Devices
    BY <1>4, <1>5, <1>6, Zenon DEF AgentStarts
  <2>2. [type |-> "failed", of |-> Head(toAgent).of] \in Message
    BY <2>1, Zenon DEF Message
  <2>3. toHub' = Send(toHub, <<[type |-> "failed", of |-> Head(toAgent).of]>>) \/ toHub' = toHub
    BY <1>6, Zenon DEF AgentStarts
  <2> QED BY <1>0, <2>2, <2>3, SendGrows, Zenon
<1>7. ASSUME AgentStops
      PROVE  Grown(toHub, toHub', {[type |-> "stopped", of |-> Head(toAgent).of, clean |-> TRUE]})
  <2>1. Head(toAgent).of \in Devices
    BY <1>4, <1>5, <1>7, Zenon DEF AgentStops
  <2>2. [type |-> "stopped", of |-> Head(toAgent).of, clean |-> TRUE] \in Message
    BY <2>1, Zenon DEF Message
  <2>3. toHub' = Send(toHub, <<[type |-> "stopped", of |-> Head(toAgent).of, clean |-> TRUE]>>)
           \/ toHub' = toHub
    BY <1>7, Zenon DEF AgentStops
  <2> QED BY <1>0, <2>2, <2>3, SendGrows, Zenon
<1>8. ASSUME NEW d \in Devices, WorkerReports(d),
        NEW m, m = [type |-> "stopped", of |-> d, clean |-> d \notin unclean]
      PROVE  /\ Grown(toHub, toHub', {[type |-> "failed", of |-> d], m})
             /\ ~linkDown => toHub'[Len(toHub')] = m /\ Len(toHub') > 0
  <2> DEFINE f == [type |-> "failed", of |-> d]
  <2>1. m \in Message /\ f \in Message
    BY <1>8, Zenon DEF Message
  <2>2. toHub' = Send(toHub, <<f>> \o <<m>>) \/ toHub' = Send(toHub, <<>> \o <<m>>)
    BY <1>8, Zenon DEF WorkerReports
  <2>3. <<>> \o <<m>> = <<m>>
    BY <2>1
  <2> HIDE DEF f
  <2>4. CASE toHub' = Send(toHub, <<f>> \o <<m>>)
    BY <2>1, <2>4, SendGrowsByTwo DEF f
  <2>5. CASE toHub' = Send(toHub, <<m>>)
    <3>1. Grown(toHub, toHub', {m}) /\ (~linkDown => Len(toHub') = Len(toHub) + 1)
      BY <2>1, <2>5, SendGrows, Zenon
    <3> QED BY <3>1 DEF Grown, f
  <2> QED BY <2>2, <2>3, <2>4, <2>5, Zenon
<1> QED
  <2>1. AgentWelcome \/ AgentStarts \/ AgentStops =>
                toAgent # <<>> /\ toAgent' = Tail(toAgent) /\ Head(toAgent) \in Message
    BY <1>4, Zenon DEF AgentWelcome, AgentStarts, AgentStops
  <2> QED BY <1>1, <1>2, <1>3, <1>6, <1>7, <1>8, <2>1, Zenon

\* Connections, sessions and workers stay together.
LEMMA LinkStep ==
    ASSUME AgentInv, [AgentNext]_agentVars
    PROVE  LinkInv'
<1>1. CASE Dial
    BY <1>1 DEF Dial, AgentInv, AgentTypeOK, LinkInv, Gens, Available, Complete, workerVars,
        sessionVars
<1>2. CASE HubHello
    BY <1>2, Zenon DEF HubHello, AgentInv, AgentTypeOK, LinkInv, Gens, Available, Complete,
        clientVars, workerVars, sessionVars
<1>3. CASE HubDisconnect
    BY <1>3, Zenon DEF HubDisconnect, AgentInv, AgentTypeOK, LinkInv, Gens, Available, Complete,
        clientVars, workerVars
<1>4. CASE AgentWelcome
    BY <1>4, Zenon DEF AgentWelcome, AgentInv, AgentTypeOK, LinkInv, Gens, Available, Complete,
        serverVars, workerVars, sessionVars
<1>5. CASE HelloFails
    BY <1>5, Zenon DEF HelloFails, AgentInv, AgentTypeOK, LinkInv, Gens, Available, Complete,
        serverVars, workerVars, sessionVars
<1>6. CASE AgentStarts
  <2>1. toAgent # <<>> /\ Head(toAgent) = toAgent[1] /\ 1 \in 1 .. Len(toAgent)
    BY <1>6 DEF AgentStarts, AgentInv, AgentTypeOK
  <2>2. sconn[Head(toAgent).of] = gen
    BY <1>6, <2>1, Zenon DEF AgentStarts, AgentInv, StartInv, StartsFirst
  <2> QED BY <1>6, <2>1, <2>2, Zenon DEF AgentStarts, AgentInv, AgentTypeOK, LinkInv, serverVars,
      clientVars, sessionVars
<1>7. CASE AgentStops
    BY <1>7, Zenon DEF AgentStops, AgentInv, AgentTypeOK, LinkInv, Gens, Available, Complete,
        serverVars, clientVars, sessionVars
<1>8. CASE AgentDrops
    BY <1>8, Zenon DEF AgentDrops, AgentInv, AgentTypeOK, LinkInv, Gens, Available, Complete,
        serverVars, sessionVars
<1>9. CASE AgentCloses
    BY <1>9, Zenon DEF AgentCloses, AgentInv, AgentTypeOK, LinkInv, Gens, Available, Complete,
        serverVars, linkVars, workerVars, sessionVars
<1>10. ASSUME NEW reboot \in BOOLEAN, AgentRestarts(reboot) PROVE LinkInv'
    BY <1>10, Zenon DEF AgentRestarts, AgentInv, AgentTypeOK, LinkInv, Gens, Available, Complete,
        serverVars, sessionVars
<1>11. CASE HubStopped
    BY <1>11 DEF HubStopped, AgentInv, AgentTypeOK, LinkInv, Gens, Available, Complete,
        clientVars, workerVars
<1>12. ASSUME NEW d \in Devices, DeviceStart(d) PROVE LinkInv'
  <2>1. conn' = conn /\ gen' = gen /\ agent' = agent /\ unclean' = unclean /\ worker' = worker
    BY <1>12, Zenon DEF DeviceStart, clientVars, workerVars
  <2>2. CASE ~Available
    <3>1. UNCHANGED <<sessions, sconn, toAgent>>
      BY <1>12, <2>2, Zenon DEF DeviceStart
    <3> QED BY <2>1, <3>1, Zenon DEF AgentInv, LinkInv
  <2>3. CASE Available
    <3>1. sessions' = sessions \cup {d} /\ sconn' = [sconn EXCEPT ![d] = gen]
      BY <1>12, <2>3, Zenon DEF DeviceStart
    <3>2. conn = "up" /\ worker[d] = "none"
      BY <1>12, <2>3, Zenon DEF Available, DeviceStart, AgentInv, IdleInv
    <3> QED BY <2>1, <3>1, <3>2 DEF AgentInv, AgentTypeOK, LinkInv, Gens
  <2> QED BY <2>2, <2>3, Zenon
<1>13. ASSUME NEW d \in Devices, DeviceStop(d) PROVE LinkInv'
  <2>1. conn = "hello" => toAgent' = toAgent
    BY <1>13 DEF DeviceStop, AgentInv, AgentTypeOK, LinkInv, Gens
  <2>2. UNCHANGED <<sessions, conn, sconn, gen, agent, unclean, worker>>
    BY <1>13, Zenon DEF DeviceStop, serverVars, clientVars, workerVars
  <2> QED BY <2>1, <2>2, Zenon DEF AgentInv, LinkInv
<1>14. ASSUME NEW d \in Devices, UploadStarts(d) PROVE LinkInv'
    BY <1>14, Zenon DEF UploadStarts, AgentInv, AgentTypeOK, LinkInv, Gens, Available, Complete,
        serverVars, linkVars, clientVars
<1>15. ASSUME NEW d \in Devices, WorkerEnds(d) PROVE LinkInv'
    BY <1>15, Zenon DEF WorkerEnds, AgentInv, AgentTypeOK, LinkInv, Gens, Available, Complete,
        serverVars, linkVars, clientVars
<1>16. ASSUME NEW d \in Devices, ReceiverStops(d) PROVE LinkInv'
    BY <1>16, Zenon DEF ReceiverStops, AgentInv, AgentTypeOK, LinkInv, Gens, Available, Complete,
        serverVars, linkVars, clientVars, sessionVars
<1>17. ASSUME NEW d \in Devices, WorkerReports(d) PROVE LinkInv'
    BY <1>17, Zenon DEF WorkerReports, AgentInv, AgentTypeOK, LinkInv, Gens, Available, Complete,
        serverVars, clientVars, sessionVars
<1>18. CASE HubClose \/ LinkBreaks \/ HubFailed \/ (\E d \in Devices : DeviceStarted(d)) \/
        (\E d \in Devices : DeviceNeverStarts(d)) \/ (\E d \in Devices : DeviceStopped(d)) \/
        (\E d \in Devices : DeviceStopExpires(d)) \/ (\E d \in Devices : ReceiverStarts(d)) \/
        (\E d \in Devices : ReceiverExits(d)) \/ UNCHANGED agentVars
  <2>1. UNCHANGED <<sessions, conn, sconn, gen, toAgent, agent, unclean, worker>>
    BY <1>18, Zenon DEF HubClose, LinkBreaks, HubFailed, DeviceStarted, DeviceNeverStarts,
        DeviceStopped, DeviceStopExpires, ReceiverStarts, ReceiverExits, agentVars, serverVars,
        linkVars, clientVars, workerVars, sessionVars
  <2> QED BY <2>1, Zenon DEF AgentInv, LinkInv, Gens, Available, Complete
<1> QED BY <1>1, <1>2, <1>3, <1>4, <1>5, <1>6, <1>7, <1>8, <1>9, <1>10, <1>11, <1>12, <1>13,
        <1>14, <1>15, <1>16, <1>17, <1>18, Zenon DEF AgentNext

\* No step leaves receivers of a host that has booted since.
LEMMA BootStep ==
    ASSUME AgentInv, [AgentNext]_agentVars
    PROVE  BootInv'
<1>1. CASE Dial
    BY <1>1, AgentAssumption DEF Dial, AgentInv, AgentTypeOK, LinkInv, IdleInv, BootInv, Gens,
        InMap, workerVars, sessionVars
<1>2. CASE AgentWelcome
    BY <1>2, Zenon DEF AgentWelcome, AgentInv, AgentTypeOK, LinkInv, IdleInv, BootInv, Gens, InMap,
        serverVars, workerVars, sessionVars
<1>3. CASE HelloFails
    BY <1>3, Zenon DEF HelloFails, AgentInv, AgentTypeOK, LinkInv, IdleInv, BootInv, Gens, InMap,
        serverVars, workerVars, sessionVars
<1>4. CASE AgentDrops
    BY <1>4, Zenon DEF AgentDrops, AgentInv, AgentTypeOK, LinkInv, IdleInv, BootInv, Gens, InMap,
        serverVars, sessionVars
<1>5. CASE AgentCloses
    BY <1>5 DEF AgentCloses, AgentInv, AgentTypeOK, LinkInv, IdleInv, BootInv, Gens, InMap,
        serverVars, linkVars, workerVars, sessionVars
<1>6. ASSUME NEW reboot \in BOOLEAN, AgentRestarts(reboot) PROVE BootInv'
    BY <1>6, Zenon DEF AgentRestarts, AgentInv, AgentTypeOK, LinkInv, IdleInv, BootInv, Gens, InMap,
        serverVars, sessionVars
<1>7. ASSUME NEW d \in Devices, DeviceStart(d) PROVE BootInv'
  <2>1. d \notin receiver
    BY <1>7, Zenon DEF DeviceStart, AgentInv, IdleInv
  <2>2. \A e \in Devices : e # d => sconn'[e] = sconn[e]
    BY <1>7, Zenon DEF DeviceStart, AgentInv, AgentTypeOK
  <2>3. UNCHANGED <<agent, receiver, gen, peer, identity>>
    BY <1>7, Zenon DEF DeviceStart, clientVars, workerVars
  <2> QED BY <2>1, <2>2, <2>3, Zenon DEF AgentInv, AgentTypeOK, BootInv
<1>8. ASSUME NEW d \in Devices, ReceiverStarts(d) PROVE BootInv'
    BY <1>8 DEF ReceiverStarts, AgentInv, AgentTypeOK, LinkInv, IdleInv, BootInv, Gens, InMap,
        serverVars, linkVars, clientVars, sessionVars
<1>9. ASSUME NEW d \in Devices, ReceiverStops(d) PROVE BootInv'
    BY <1>9, Zenon DEF ReceiverStops, AgentInv, AgentTypeOK, LinkInv, IdleInv, BootInv, Gens, InMap,
        serverVars, linkVars, clientVars, sessionVars
<1>10. ASSUME NEW d \in Devices, ReceiverExits(d) PROVE BootInv'
    BY <1>10, Zenon DEF ReceiverExits, AgentInv, AgentTypeOK, LinkInv, IdleInv, BootInv, Gens,
        InMap, serverVars, linkVars, clientVars, sessionVars
<1>11. CASE HubHello \/ HubDisconnect \/ HubClose \/ LinkBreaks \/ AgentStarts \/ AgentStops \/
        HubFailed \/ HubStopped \/ (\E d \in Devices : DeviceStarted(d)) \/
        (\E d \in Devices : DeviceStop(d)) \/ (\E d \in Devices : DeviceNeverStarts(d)) \/
        (\E d \in Devices : DeviceStopped(d)) \/ (\E d \in Devices : DeviceStopExpires(d)) \/
        (\E d \in Devices : UploadStarts(d)) \/ (\E d \in Devices : WorkerEnds(d)) \/
        (\E d \in Devices : WorkerReports(d)) \/ UNCHANGED agentVars
  <2>1. UNCHANGED <<agent, receiver, sconn, gen, peer, identity>>
    BY <1>11, Zenon DEF HubHello, HubDisconnect, HubClose, LinkBreaks, AgentStarts, AgentStops,
        HubFailed, HubStopped, DeviceStarted, DeviceStop, DeviceNeverStarts, DeviceStopped,
        DeviceStopExpires, UploadStarts, WorkerEnds, WorkerReports, agentVars, serverVars,
        linkVars, clientVars, workerVars, sessionVars
  <2> QED BY <2>1, Zenon DEF AgentInv, BootInv, Gens, InMap
<1> QED BY <1>1, <1>2, <1>3, <1>4, <1>5, <1>6, <1>7, <1>8, <1>9, <1>10, <1>11, Zenon DEF AgentNext

\* A receiver keeps its worker until it is stopped.
LEMMA WorkerStep ==
    ASSUME AgentInv, [AgentNext]_agentVars
    PROVE  WorkerInv'
<1>1. CASE Dial
    BY <1>1 DEF Dial, AgentInv, AgentTypeOK, LinkInv, IdleInv, WorkerInv, Gens, workerVars,
        sessionVars
<1>2. CASE AgentWelcome
    BY <1>2, Zenon DEF AgentWelcome, AgentInv, AgentTypeOK, LinkInv, IdleInv, WorkerInv, Gens,
        serverVars, workerVars, sessionVars
<1>3. CASE HelloFails
    BY <1>3, Zenon DEF HelloFails, AgentInv, AgentTypeOK, LinkInv, IdleInv, WorkerInv, Gens,
        serverVars, workerVars, sessionVars
<1>4. CASE AgentStarts
    BY <1>4, SMTT(30) DEF AgentStarts, AgentInv, AgentTypeOK, LinkInv, IdleInv, WorkerInv, Gens,
        serverVars, clientVars, sessionVars
<1>5. CASE AgentDrops
    BY <1>5, Zenon DEF AgentDrops, AgentInv, AgentTypeOK, LinkInv, IdleInv, WorkerInv, Gens,
        serverVars, sessionVars
<1>6. CASE AgentCloses
    BY <1>6, Zenon DEF AgentCloses, AgentInv, AgentTypeOK, LinkInv, IdleInv, WorkerInv, Gens,
        serverVars, linkVars, workerVars, sessionVars
<1>7. ASSUME NEW reboot \in BOOLEAN, AgentRestarts(reboot) PROVE WorkerInv'
    BY <1>7, Zenon DEF AgentRestarts, AgentInv, AgentTypeOK, LinkInv, IdleInv, WorkerInv, Gens,
        serverVars, sessionVars
<1>8. ASSUME NEW d \in Devices, DeviceStart(d) PROVE WorkerInv'
    BY <1>8, Zenon DEF DeviceStart, AgentInv, AgentTypeOK, LinkInv, IdleInv, WorkerInv, Gens,
        clientVars, workerVars
<1>9. ASSUME NEW d \in Devices, ReceiverStarts(d) PROVE WorkerInv'
    BY <1>9, Zenon DEF ReceiverStarts, AgentInv, AgentTypeOK, LinkInv, IdleInv, WorkerInv, Gens,
        serverVars, linkVars, clientVars, sessionVars
<1>10. ASSUME NEW d \in Devices, UploadStarts(d) PROVE WorkerInv'
    BY <1>10, ZenonT(60) DEF UploadStarts, AgentInv, AgentTypeOK, LinkInv, IdleInv, WorkerInv, Gens,
        serverVars, linkVars, clientVars
<1>11. ASSUME NEW d \in Devices, WorkerEnds(d) PROVE WorkerInv'
    BY <1>11, Zenon DEF WorkerEnds, AgentInv, AgentTypeOK, LinkInv, IdleInv, WorkerInv, Gens,
        serverVars, linkVars, clientVars
<1>12. ASSUME NEW d \in Devices, ReceiverStops(d) PROVE WorkerInv'
    BY <1>12 DEF ReceiverStops, AgentInv, AgentTypeOK, LinkInv, IdleInv, WorkerInv, Gens,
        serverVars, linkVars, clientVars, sessionVars
<1>13. ASSUME NEW d \in Devices, WorkerReports(d) PROVE WorkerInv'
    BY <1>13, ZenonT(60) DEF WorkerReports, AgentInv, AgentTypeOK, LinkInv, IdleInv, WorkerInv,
        Gens, serverVars, clientVars, sessionVars
<1>14. ASSUME NEW d \in Devices, ReceiverExits(d) PROVE WorkerInv'
    BY <1>14, Zenon DEF ReceiverExits, AgentInv, AgentTypeOK, LinkInv, IdleInv, WorkerInv, Gens,
        serverVars, linkVars, clientVars, sessionVars
<1>15. CASE HubHello \/ HubDisconnect \/ HubClose \/ LinkBreaks \/ AgentStops \/ HubFailed \/
        HubStopped \/ (\E d \in Devices : DeviceStarted(d)) \/
        (\E d \in Devices : DeviceStop(d)) \/ (\E d \in Devices : DeviceNeverStarts(d)) \/
        (\E d \in Devices : DeviceStopped(d)) \/ (\E d \in Devices : DeviceStopExpires(d)) \/
        UNCHANGED agentVars
  <2>1. UNCHANGED <<receiver, agent, sconn, gen, worker, unclean>>
    BY <1>15, Zenon DEF HubHello, HubDisconnect, HubClose, LinkBreaks, AgentStops, HubFailed,
        HubStopped, DeviceStarted, DeviceStop, DeviceNeverStarts, DeviceStopped,
        DeviceStopExpires, agentVars, serverVars, linkVars, clientVars, workerVars, sessionVars
  <2> QED BY <2>1, Zenon DEF AgentInv, WorkerInv, Gens
<1> QED BY <1>1, <1>2, <1>3, <1>4, <1>5, <1>6, <1>7, <1>8, <1>9, <1>10, <1>11, <1>12, <1>13,
        <1>14, <1>15, Zenon DEF AgentNext

\* What the agent reports as cleaned up is.
LEMMA RecoveredStep ==
    ASSUME AgentInv, [AgentNext]_agentVars
    PROVE  RecoveredInv'
<1>1. CASE Dial
    BY <1>1 DEF Dial, AgentInv, AgentTypeOK, LinkInv, IdleInv, WorkerInv, RecoveredInv, Gens,
        workerVars, sessionVars
<1>2. CASE HubHello
    BY <1>2, Zenon DEF HubHello, AgentInv, AgentTypeOK, LinkInv, IdleInv, WorkerInv, RecoveredInv,
        Gens, clientVars, workerVars, sessionVars
<1>3. CASE HubDisconnect
    BY <1>3, Zenon DEF HubDisconnect, AgentInv, AgentTypeOK, LinkInv, IdleInv, WorkerInv,
        RecoveredInv, Gens, clientVars, workerVars
<1>4. CASE AgentWelcome
    BY <1>4, Zenon DEF AgentWelcome, AgentInv, AgentTypeOK, LinkInv, IdleInv, WorkerInv,
        RecoveredInv, Gens, serverVars, workerVars, sessionVars
<1>5. CASE HelloFails
    BY <1>5, Zenon DEF HelloFails, AgentInv, AgentTypeOK, LinkInv, IdleInv, WorkerInv, RecoveredInv,
        Gens, serverVars, workerVars, sessionVars
<1>6. CASE AgentDrops
    BY <1>6, Zenon DEF AgentDrops, AgentInv, AgentTypeOK, LinkInv, IdleInv, WorkerInv, RecoveredInv,
        Gens, serverVars, sessionVars
<1>7. CASE AgentCloses
    BY <1>7 DEF AgentCloses, AgentInv, AgentTypeOK, LinkInv, IdleInv, WorkerInv, RecoveredInv,
        Gens, serverVars, linkVars, workerVars, sessionVars
<1>8. ASSUME NEW reboot \in BOOLEAN, AgentRestarts(reboot) PROVE RecoveredInv'
    BY <1>8 DEF AgentRestarts, AgentInv, AgentTypeOK, LinkInv, IdleInv, WorkerInv, RecoveredInv,
        Gens, serverVars, sessionVars
<1>9. ASSUME NEW d \in Devices, DeviceStart(d) PROVE RecoveredInv'
    BY <1>9 DEF DeviceStart, AgentInv, AgentTypeOK, LinkInv, IdleInv, WorkerInv, RecoveredInv,
        Gens, clientVars, workerVars
<1>10. ASSUME NEW d \in Devices, ReceiverStarts(d) PROVE RecoveredInv'
    BY <1>10 DEF ReceiverStarts, AgentInv, AgentTypeOK, LinkInv, IdleInv, WorkerInv,
        RecoveredInv, Gens, serverVars, linkVars, clientVars, sessionVars
<1>11. ASSUME NEW d \in Devices, ReceiverStops(d) PROVE RecoveredInv'
    BY <1>11, Zenon DEF ReceiverStops, AgentInv, AgentTypeOK, LinkInv, IdleInv, WorkerInv,
        RecoveredInv, Gens, serverVars, linkVars, clientVars, sessionVars
<1>12. ASSUME NEW d \in Devices, ReceiverExits(d) PROVE RecoveredInv'
    BY <1>12, Zenon DEF ReceiverExits, AgentInv, AgentTypeOK, LinkInv, IdleInv, WorkerInv,
        RecoveredInv, Gens, serverVars, linkVars, clientVars, sessionVars
<1>13. CASE HubClose \/ LinkBreaks \/ AgentStarts \/ AgentStops \/ HubFailed \/ HubStopped \/
        (\E d \in Devices : DeviceStarted(d)) \/ (\E d \in Devices : DeviceStop(d)) \/
        (\E d \in Devices : DeviceNeverStarts(d)) \/ (\E d \in Devices : DeviceStopped(d)) \/
        (\E d \in Devices : DeviceStopExpires(d)) \/ (\E d \in Devices : UploadStarts(d)) \/
        (\E d \in Devices : WorkerEnds(d)) \/ (\E d \in Devices : WorkerReports(d)) \/
        UNCHANGED agentVars
  <2>1. UNCHANGED <<recovered, gen, agent, receiver, sconn, reported, conn>>
    BY <1>13, Zenon DEF HubClose, LinkBreaks, AgentStarts, AgentStops, HubFailed, HubStopped,
        DeviceStarted, DeviceStop, DeviceNeverStarts, DeviceStopped, DeviceStopExpires,
        UploadStarts, WorkerEnds, WorkerReports, agentVars, serverVars, linkVars, clientVars,
        workerVars, sessionVars
  <2> QED BY <2>1, Zenon DEF AgentInv, RecoveredInv, Gens
<1> QED BY <1>1, <1>2, <1>3, <1>4, <1>5, <1>6, <1>7, <1>8, <1>9, <1>10, <1>11, <1>12, <1>13,
    Zenon DEF AgentNext

\* Sessions stay one at a time.
LEMMA SessionStep ==
    ASSUME AgentInv, [AgentNext]_agentVars
    PROVE  SessionInv'
<1>1. CASE Dial
    BY <1>1, Zenon DEF Dial, AgentInv, AgentTypeOK, LinkInv, IdleInv, SessionInv, DeadInv, Gens,
        Available, Complete, workerVars, sessionVars
<1>2. CASE HubHello
    BY <1>2, Zenon DEF HubHello, AgentInv, AgentTypeOK, LinkInv, IdleInv, SessionInv, DeadInv, Gens,
        Available, Complete, clientVars, workerVars, sessionVars
<1>3. CASE HubDisconnect
    BY <1>3, Zenon DEF HubDisconnect, AgentInv, AgentTypeOK, LinkInv, IdleInv, SessionInv, DeadInv,
        Gens, Available, Complete, clientVars, workerVars
<1>4. CASE HubStopped
    BY <1>4 DEF HubStopped, AgentInv, AgentTypeOK, LinkInv, IdleInv, SessionInv, DeadInv, Gens,
        Available, Complete, clientVars, workerVars
<1>5. ASSUME NEW d \in Devices, DeviceStart(d) PROVE SessionInv'
    BY <1>5 DEF DeviceStart, AgentInv, AgentTypeOK, LinkInv, IdleInv, SessionInv, DeadInv, Gens,
        Available, Complete, clientVars, workerVars
<1>6. ASSUME NEW d \in Devices, DeviceStarted(d) PROVE SessionInv'
    BY <1>6, ZenonT(60) DEF DeviceStarted, AgentInv, AgentTypeOK, LinkInv, IdleInv, SessionInv,
        DeadInv, Gens, Available, Complete, serverVars, linkVars, clientVars, workerVars
<1>7. ASSUME NEW d \in Devices, DeviceStop(d) PROVE SessionInv'
    BY <1>7, Zenon DEF DeviceStop, AgentInv, AgentTypeOK, LinkInv, IdleInv, SessionInv, DeadInv,
        Gens, Available, Complete, serverVars, clientVars, workerVars
<1>8. ASSUME NEW d \in Devices, DeviceNeverStarts(d) PROVE SessionInv'
    BY <1>8, Zenon DEF DeviceNeverStarts, AgentInv, AgentTypeOK, LinkInv, IdleInv, SessionInv,
        DeadInv, Gens, Available, Complete, serverVars, linkVars, clientVars, workerVars
<1>9. ASSUME NEW d \in Devices, DeviceStopped(d) PROVE SessionInv'
    BY <1>9 DEF DeviceStopped, AgentInv, AgentTypeOK, LinkInv, IdleInv, SessionInv, DeadInv,
        Gens, Available, Complete, serverVars, linkVars, clientVars, workerVars
<1>10. ASSUME NEW d \in Devices, DeviceStopExpires(d) PROVE SessionInv'
    BY <1>10 DEF DeviceStopExpires, AgentInv, AgentTypeOK, LinkInv, IdleInv, SessionInv,
        DeadInv, Gens, Available, Complete, linkVars, clientVars, workerVars
<1>11. CASE HubClose \/ LinkBreaks \/ AgentWelcome \/ HelloFails \/ AgentStarts \/ AgentStops \/
        AgentDrops \/ AgentCloses \/ (\E reboot \in BOOLEAN : AgentRestarts(reboot)) \/
        HubFailed \/ (\E d \in Devices : ReceiverStarts(d)) \/
        (\E d \in Devices : UploadStarts(d)) \/ (\E d \in Devices : WorkerEnds(d)) \/
        (\E d \in Devices : ReceiverStops(d)) \/ (\E d \in Devices : WorkerReports(d)) \/
        (\E d \in Devices : ReceiverExits(d)) \/ UNCHANGED agentVars
  <2>1. UNCHANGED <<sessions, cleaned, device, quarantined, gen>>
    BY <1>11, Zenon DEF HubClose, LinkBreaks, AgentWelcome, HelloFails, AgentStarts, AgentStops,
        AgentDrops, AgentCloses, AgentRestarts, HubFailed, ReceiverStarts, UploadStarts,
        WorkerEnds, ReceiverStops, WorkerReports, ReceiverExits, agentVars, serverVars,
        linkVars, clientVars, workerVars, sessionVars
  <2> QED BY <2>1, Zenon DEF AgentInv, SessionInv, Gens, Available, Complete
<1> QED BY <1>1, <1>2, <1>3, <1>4, <1>5, <1>6, <1>7, <1>8, <1>9, <1>10, <1>11, Zenon DEF AgentNext

\* A device that is not started, and one that is dead, gets no messages: a step
\* adds messages only of a device whose start was sent.
LEMMA NewMail ==
    ASSUME AgentInv, [AgentNext]_agentVars
    PROVE  /\ \A i \in 1 .. Len(toAgent') : toAgent'[i].type # "welcome" =>
                \/ \E k \in 1 .. Len(toAgent) : toAgent'[i] = toAgent[k]
                \/ \E d \in Devices : toAgent'[i].of = d /\ ~linkDown /\ DeviceStart(d)
                \/ \E d \in Devices : toAgent'[i].of = d /\ toAgent'[i].type = "stop" /\
                    ~linkDown /\ DeviceStop(d)
           /\ \A i \in 1 .. Len(toHub') :
                \/ \E k \in 1 .. Len(toHub) : toHub'[i] = toHub[k]
                \/ ~linkDown /\ \E k \in 1 .. Len(toAgent) :
                      toAgent[k].type # "welcome" /\ toHub'[i].of = toAgent[k].of
                \/ ~linkDown /\ \E d \in Devices : toHub'[i].of = d /\ worker[d] = "report"
<1> USE DEF AgentInv
<1>1. CASE Dial
    BY <1>1 DEF Dial
<1>2. CASE HubHello
  <2>1. Grown(toAgent, toAgent', {[type |-> "welcome"]}) /\ toHub' = toHub
    BY <1>2, Mail, Zenon DEF HubHello
  <2> QED BY <2>1, SMTT(30) DEF Grown, AgentTypeOK
<1>3. CASE HubDisconnect
    BY <1>3 DEF HubDisconnect
<1>4. CASE AgentWelcome
  <2>1. toAgent # <<>> /\ toAgent' = Tail(toAgent) /\ toHub' = toHub
    BY <1>4, Mail, Zenon DEF AgentWelcome
  <2>2. \A i \in 1 .. Len(toAgent') : i + 1 \in 1 .. Len(toAgent) /\ toAgent'[i] = toAgent[i + 1]
    BY <2>1 DEF AgentTypeOK
  <2> QED BY <2>1, <2>2, Zenon
<1>5. CASE HelloFails
    BY <1>5 DEF HelloFails
<1>6. CASE AgentStarts
  <2>1. toAgent # <<>> /\ toAgent' = Tail(toAgent) /\ Head(toAgent).type # "welcome"
    BY <1>6, Mail, Zenon DEF AgentStarts
  <2>2. Grown(toHub, toHub', {[type |-> "failed", of |-> Head(toAgent).of]})
    BY <1>6, Mail, Zenon
  <2>3. 1 \in 1 .. Len(toAgent) /\ Head(toAgent) = toAgent[1]
    BY <2>1 DEF AgentTypeOK
  <2>4. \A i \in 1 .. Len(toHub') : (i \in 1 .. Len(toHub) /\ toHub'[i] = toHub[i])
            \/ (~linkDown /\ toHub'[i].of = toAgent[1].of)
    BY <2>2, <2>3 DEF Grown, AgentTypeOK
  <2>5. \A i \in 1 .. Len(toAgent') : i + 1 \in 1 .. Len(toAgent) /\ toAgent'[i] = toAgent[i + 1]
    BY <2>1 DEF AgentTypeOK
  <2> QED BY <2>1, <2>3, <2>4, <2>5, Zenon
<1>7. CASE AgentStops
  <2>1. toAgent # <<>> /\ toAgent' = Tail(toAgent) /\ Head(toAgent).type # "welcome"
    BY <1>7, Mail, Zenon DEF AgentStops
  <2>2. Grown(toHub, toHub', {[type |-> "stopped", of |-> Head(toAgent).of, clean |-> TRUE]})
    BY <1>7, Mail, Zenon
  <2>3. 1 \in 1 .. Len(toAgent) /\ Head(toAgent) = toAgent[1]
    BY <2>1 DEF AgentTypeOK
  <2>4. \A i \in 1 .. Len(toHub') : (i \in 1 .. Len(toHub) /\ toHub'[i] = toHub[i])
            \/ (~linkDown /\ toHub'[i].of = toAgent[1].of)
    BY <2>2, <2>3 DEF Grown, AgentTypeOK
  <2>5. \A i \in 1 .. Len(toAgent') : i + 1 \in 1 .. Len(toAgent) /\ toAgent'[i] = toAgent[i + 1]
    BY <2>1 DEF AgentTypeOK
  <2> QED BY <2>1, <2>3, <2>4, <2>5, Zenon
<1>8. CASE AgentDrops
    BY <1>8 DEF AgentDrops
<1>9. CASE \E reboot \in BOOLEAN : AgentRestarts(reboot)
    BY <1>9 DEF AgentRestarts
<1>10. CASE HubFailed \/ HubStopped
  <2>1. toHub # <<>> /\ toHub' = Tail(toHub) /\ toAgent' = toAgent
    BY <1>10, Zenon DEF HubFailed, HubStopped
  <2>2. \A i \in 1 .. Len(toHub') : i + 1 \in 1 .. Len(toHub) /\ toHub'[i] = toHub[i + 1]
    BY <2>1 DEF AgentTypeOK
  <2> QED BY <2>1, <2>2, Zenon
<1>11. ASSUME NEW d \in Devices, DeviceStart(d)
       PROVE  /\ toHub' = toHub
              /\ \A i \in 1 .. Len(toAgent') : (i \in 1 .. Len(toAgent) /\ toAgent'[i] = toAgent[i])
                    \/ (~linkDown /\ toAgent'[i].of = d)
  <2>1. Grown(toAgent, toAgent', {[type |-> "start", of |-> d]}) /\ toHub' = toHub
    BY <1>11, Mail, Zenon DEF DeviceStart
  <2> QED BY <2>1 DEF Grown, AgentTypeOK
<1>12. ASSUME NEW d \in Devices, DeviceStop(d)
       PROVE  /\ toHub' = toHub
              /\ \A i \in 1 .. Len(toAgent') : (i \in 1 .. Len(toAgent) /\ toAgent'[i] = toAgent[i])
                    \/ (~linkDown /\ toAgent'[i].of = d /\ toAgent'[i].type = "stop")
  <2>1. Grown(toAgent, toAgent', {[type |-> "stop", of |-> d]}) /\ toHub' = toHub
    BY <1>12, Mail, Zenon DEF DeviceStop
  <2> QED BY <2>1 DEF Grown, AgentTypeOK
<1>13. ASSUME NEW d \in Devices, WorkerReports(d)
       PROVE  /\ toAgent' = toAgent /\ worker[d] = "report"
              /\ \A i \in 1 .. Len(toHub') : (i \in 1 .. Len(toHub) /\ toHub'[i] = toHub[i])
                    \/ (~linkDown /\ toHub'[i].of = d)
  <2>1. /\ Grown(toHub, toHub', {[type |-> "failed", of |-> d],
                [type |-> "stopped", of |-> d, clean |-> d \notin unclean]})
        /\ toAgent' = toAgent /\ worker[d] = "report"
    BY <1>13, Mail, Zenon DEF WorkerReports
  <2> QED BY <2>1 DEF Grown, AgentTypeOK
<1>14. CASE toAgent' = toAgent /\ toHub' = toHub
    BY <1>14, Zenon
<1>15. CASE HubClose \/ LinkBreaks \/ AgentCloses \/ (\E d \in Devices : DeviceStarted(d) \/
        DeviceNeverStarts(d) \/ DeviceStopped(d) \/ DeviceStopExpires(d) \/ ReceiverStarts(d) \/
        UploadStarts(d) \/ WorkerEnds(d) \/ ReceiverStops(d) \/ ReceiverExits(d)) \/
        UNCHANGED agentVars
  <2>1. toAgent' = toAgent /\ toHub' = toHub
    BY <1>15, Zenon DEF HubClose, LinkBreaks, AgentCloses, DeviceStarted, DeviceNeverStarts,
        DeviceStopped, DeviceStopExpires, ReceiverStarts, UploadStarts, WorkerEnds,
        ReceiverStops, ReceiverExits, agentVars, linkVars
  <2> QED BY <1>14, <2>1, Zenon
<1>16. CASE \E d \in Devices : DeviceStart(d) \/ DeviceStop(d) \/ WorkerReports(d)
    BY <1>11, <1>12, <1>13, <1>16, ZenonT(60)
<1> QED BY <1>1, <1>2, <1>3, <1>4, <1>5, <1>6, <1>7, <1>8, <1>9, <1>10, <1>15, <1>16, ZenonT(60) DEF
    AgentNext

\* A dead session stays dead.
LEMMA DeadStep ==
    ASSUME AgentInv, [AgentNext]_agentVars
    PROVE  DeadInv'
<1>1. CASE Dial
    BY <1>1, Zenon DEF Dial, AgentInv, AgentTypeOK, LinkInv, IdleInv, DeadInv, Complete, workerVars,
        sessionVars
<1>2. CASE HubHello
    BY <1>2, Zenon DEF HubHello, AgentInv, AgentTypeOK, LinkInv, IdleInv, DeadInv, Complete,
        clientVars, workerVars, sessionVars
<1>3. CASE HubDisconnect
    BY <1>3, Zenon DEF HubDisconnect, AgentInv, AgentTypeOK, LinkInv, IdleInv, DeadInv, Complete,
        clientVars, workerVars
<1>4. CASE HubClose
    BY <1>4 DEF HubClose, AgentInv, AgentTypeOK, LinkInv, IdleInv, DeadInv, Complete,
        clientVars, workerVars, sessionVars
<1>5. CASE LinkBreaks
    BY <1>5, Zenon DEF LinkBreaks, AgentInv, AgentTypeOK, LinkInv, IdleInv, DeadInv, Complete,
        serverVars, clientVars, workerVars, sessionVars
<1>6. CASE AgentWelcome
    BY <1>6 DEF AgentWelcome, AgentInv, AgentTypeOK, LinkInv, IdleInv, DeadInv, Complete,
        serverVars, workerVars, sessionVars
<1>7. CASE HelloFails
    BY <1>7 DEF HelloFails, AgentInv, AgentTypeOK, LinkInv, IdleInv, DeadInv, Complete,
        serverVars, workerVars, sessionVars
<1>8. CASE AgentStarts
  <2>1. linkDown => toHub' = toHub
    BY <1>8, Mail, Zenon DEF AgentInv, Grown
  <2>2. toAgent # <<>> /\ toAgent' = Tail(toAgent) /\ Head(toAgent).type # "welcome"
    BY <1>8, Zenon DEF AgentStarts
  <2>3. 1 \in 1 .. Len(toAgent) /\ Head(toAgent) = toAgent[1]
    BY <2>2 DEF AgentInv, AgentTypeOK
  <2>4. \A i \in 1 .. Len(toAgent') : i + 1 \in 1 .. Len(toAgent) /\ toAgent'[i] = toAgent[i + 1]
    BY <2>2 DEF AgentInv, AgentTypeOK
  <2>5. UNCHANGED <<sessions, cleaned, linkDown, device>>
    BY <1>8, Zenon DEF AgentStarts, serverVars, sessionVars
  <2>6. \A e \in Devices : e # Head(toAgent).of => worker'[e] = worker[e]
    BY <1>8, Zenon DEF AgentStarts, AgentInv, AgentTypeOK
  <2> QED BY <2>1, <2>2, <2>3, <2>4, <2>5, <2>6 DEF AgentInv, AgentTypeOK, DeadInv
<1>9. CASE AgentStops
  <2>1. linkDown => toHub' = toHub
    BY <1>9, Mail, Zenon DEF AgentInv, Grown
  <2>2. toAgent # <<>> /\ toAgent' = Tail(toAgent)
    BY <1>9, Zenon DEF AgentStops
  <2>4. \A i \in 1 .. Len(toAgent') : i + 1 \in 1 .. Len(toAgent) /\ toAgent'[i] = toAgent[i + 1]
    BY <2>2 DEF AgentInv, AgentTypeOK
  <2>5. UNCHANGED <<sessions, cleaned, linkDown, device, worker>>
    BY <1>9, Zenon DEF AgentStops, serverVars, sessionVars
  <2> QED BY <2>1, <2>2, <2>4, <2>5 DEF AgentInv, DeadInv
<1>10. CASE AgentDrops
    BY <1>10, SMTT(30) DEF AgentDrops, AgentInv, AgentTypeOK, LinkInv, IdleInv, DeadInv, Complete,
        serverVars, sessionVars
<1>11. ASSUME NEW reboot \in BOOLEAN, AgentRestarts(reboot) PROVE DeadInv'
    BY <1>11, SMTT(30) DEF AgentRestarts, AgentInv, AgentTypeOK, LinkInv, IdleInv, DeadInv,
        Complete, serverVars, sessionVars
<1>12. CASE HubFailed
    BY <1>12, SMTT(30) DEF HubFailed, AgentInv, AgentTypeOK, LinkInv, IdleInv, DeadInv, Complete,
        serverVars, clientVars, workerVars
<1>13. CASE HubStopped
    BY <1>13 DEF HubStopped, AgentInv, AgentTypeOK, LinkInv, IdleInv, DeadInv, Complete,
        clientVars, workerVars
<1>14. ASSUME NEW d \in Devices, DeviceStart(d) PROVE DeadInv'
  <2>1. linkDown => toAgent' = toAgent
    BY <1>14, Mail, Zenon DEF AgentInv, Grown
  <2>2. UNCHANGED <<linkDown, toHub, worker>> /\ device[d] = "idle"
    BY <1>14, Zenon DEF DeviceStart, workerVars
  <2>3. \A e \in Devices : e # d => device'[e] = device[e]
    BY <1>14, Zenon DEF DeviceStart, AgentInv, AgentTypeOK
  <2>4. ASSUME NEW e \in sessions' \cap cleaned', e # d PROVE e \in sessions \cap cleaned
    BY <1>14, <2>4, Zenon DEF DeviceStart
  <2>5. d \in sessions' \cap cleaned' => linkDown /\ device'[d] = "over"
    BY <1>14, ZenonT(60) DEF DeviceStart, AgentInv, AgentTypeOK, IdleInv
  <2>6. /\ worker[d] = "none" /\ \A i \in 1 .. Len(toHub) : toHub[i].of # d
        /\ \A i \in 1 .. Len(toAgent) : toAgent[i].type # "welcome" => toAgent[i].of # d
    BY <2>2, Zenon DEF AgentInv, IdleInv
  <2>7. ASSUME NEW e \in sessions' \cap cleaned', e # d
        PROVE  /\ linkDown' /\ device'[e] = "over" /\ worker'[e] = "none"
               /\ \A i \in 1 .. Len(toHub') : toHub'[i].of # e
               /\ \A i \in 1 .. Len(toAgent') : toAgent'[i].type # "welcome" => toAgent'[i].of # e
    BY <2>1, <2>2, <2>3, <2>4, <2>7 DEF AgentInv, AgentTypeOK, DeadInv
  <2>8. ASSUME d \in sessions' \cap cleaned'
        PROVE  /\ linkDown' /\ device'[d] = "over" /\ worker'[d] = "none"
               /\ \A i \in 1 .. Len(toHub') : toHub'[i].of # d
               /\ \A i \in 1 .. Len(toAgent') : toAgent'[i].type # "welcome" => toAgent'[i].of # d
    BY <2>1, <2>2, <2>5, <2>6, <2>8, Zenon
  <2> QED BY <2>7, <2>8, Zenon DEF DeadInv
<1>15. ASSUME NEW d \in Devices, DeviceStarted(d) PROVE DeadInv'
    BY <1>15, SMTT(30) DEF DeviceStarted, AgentInv, AgentTypeOK, LinkInv, IdleInv, DeadInv,
        Complete, serverVars, linkVars, clientVars, workerVars
<1>16. ASSUME NEW d \in Devices, DeviceStop(d) PROVE DeadInv'
  <2>1. \A e \in sessions \cap cleaned : linkDown /\ e # d
    BY <1>16, Zenon DEF DeviceStop, AgentInv, DeadInv
  <2>2. UNCHANGED <<sessions, cleaned, linkDown, toHub, worker>>
    BY <1>16, Zenon DEF DeviceStop, serverVars, workerVars
  <2>3. \A e \in Devices : e # d => device'[e] = device[e]
    BY <1>16, Zenon DEF DeviceStop, AgentInv, AgentTypeOK
  <2>4. linkDown => toAgent' = toAgent
    BY <1>16, Mail, Zenon DEF AgentInv, Grown
  <2> QED BY <2>1, <2>2, <2>3, <2>4 DEF AgentInv, AgentTypeOK, DeadInv
<1>17. ASSUME NEW d \in Devices, DeviceNeverStarts(d) PROVE DeadInv'
    BY <1>17, SMTT(30) DEF DeviceNeverStarts, AgentInv, AgentTypeOK, LinkInv, IdleInv, DeadInv,
        Complete, serverVars, linkVars, clientVars, workerVars
<1>18. ASSUME NEW d \in Devices, DeviceStopped(d) PROVE DeadInv'
    BY <1>18 DEF DeviceStopped, AgentInv, AgentTypeOK, LinkInv, IdleInv, DeadInv, Complete,
        serverVars, linkVars, clientVars, workerVars
<1>19. ASSUME NEW d \in Devices, DeviceStopExpires(d) PROVE DeadInv'
    BY <1>19 DEF DeviceStopExpires, AgentInv, AgentTypeOK, LinkInv, IdleInv, DeadInv, Complete,
        linkVars, clientVars, workerVars
<1>20. ASSUME NEW d \in Devices, UploadStarts(d) PROVE DeadInv'
    BY <1>20, ZenonT(60) DEF UploadStarts, AgentInv, AgentTypeOK, LinkInv, IdleInv, DeadInv,
        Complete, serverVars, linkVars, clientVars
<1>21. ASSUME NEW d \in Devices, WorkerEnds(d) PROVE DeadInv'
    BY <1>21, ZenonT(60) DEF WorkerEnds, AgentInv, AgentTypeOK, LinkInv, IdleInv, DeadInv, Complete,
        serverVars, linkVars, clientVars
<1>22. ASSUME NEW d \in Devices, ReceiverStops(d) PROVE DeadInv'
    BY <1>22, ZenonT(60) DEF ReceiverStops, AgentInv, AgentTypeOK, LinkInv, IdleInv, DeadInv,
        Complete, serverVars, linkVars, clientVars, sessionVars
<1>23. ASSUME NEW d \in Devices, WorkerReports(d) PROVE DeadInv'
  <2>1. linkDown => toHub' = toHub
    BY <1>23, Mail, Zenon DEF AgentInv, Grown
  <2>2. UNCHANGED <<sessions, cleaned, linkDown, device, toAgent>>
    BY <1>23, Zenon DEF WorkerReports, serverVars, sessionVars
  <2>3. \A e \in Devices : worker[e] = "none" => worker'[e] = "none"
    BY <1>23, Zenon DEF WorkerReports, AgentInv, AgentTypeOK
  <2> QED BY <2>1, <2>2, <2>3 DEF AgentInv, AgentTypeOK, DeadInv
<1>24. CASE AgentCloses \/ (\E d \in Devices : ReceiverStarts(d)) \/
        (\E d \in Devices : ReceiverExits(d)) \/ UNCHANGED agentVars
  <2>1. UNCHANGED <<sessions, cleaned, linkDown, device, toHub, toAgent, worker>>
    BY <1>24, Zenon DEF AgentCloses, ReceiverStarts, ReceiverExits, agentVars, serverVars, linkVars,
        clientVars, workerVars, sessionVars
  <2> QED BY <2>1, Zenon DEF AgentInv, DeadInv, Complete
<1> QED BY <1>1, <1>2, <1>3, <1>4, <1>5, <1>6, <1>7, <1>8, <1>9, <1>10, <1>11, <1>12, <1>13,
    <1>14, <1>15, <1>16, <1>17, <1>18, <1>19, <1>20, <1>21, <1>22, <1>23, <1>24, Zenon DEF
    AgentNext

\* A device that was not started stays without a trace until its Start.
LEMMA IdleStep ==
    ASSUME AgentInv, [AgentNext]_agentVars
    PROVE  IdleInv'
<1>1. ASSUME NEW e \in Devices, device'[e] = "idle"
      PROVE  device[e] = "idle" /\ ~DeviceStart(e) /\ ~DeviceStop(e)
  <2>1. ~DeviceStart(e) /\ ~DeviceStop(e)
    BY <1>1, ZenonT(60) DEF DeviceStart, DeviceStop, AgentInv, AgentTypeOK
  <2>2. CASE \E d \in Devices : DeviceStart(d) \/ DeviceStarted(d) \/ DeviceStop(d) \/
          DeviceNeverStarts(d) \/ DeviceStopped(d) \/ DeviceStopExpires(d)
    BY <1>1, <2>1, <2>2 DEF DeviceStart, DeviceStarted, DeviceStop, DeviceNeverStarts,
        DeviceStopped, DeviceStopExpires, AgentInv, AgentTypeOK
  <2>3. CASE device' = device
    BY <1>1, <2>1, <2>3, Zenon
  <2>4. CASE Dial \/ HubHello \/ HubDisconnect \/ HubClose \/ LinkBreaks \/ AgentWelcome \/
          HelloFails \/ AgentStarts \/ AgentStops \/ AgentDrops \/ AgentCloses \/
          (\E reboot \in BOOLEAN : AgentRestarts(reboot)) \/ HubFailed \/ HubStopped \/
          (\E d \in Devices : ReceiverStarts(d) \/ UploadStarts(d) \/ WorkerEnds(d) \/
          ReceiverStops(d) \/ WorkerReports(d) \/ ReceiverExits(d)) \/ UNCHANGED agentVars
    <3>1. device' = device
      BY <2>4, Zenon DEF Dial, HubHello, HubDisconnect, HubClose, LinkBreaks, AgentWelcome,
          HelloFails, AgentStarts, AgentStops, AgentDrops, AgentCloses, AgentRestarts, HubFailed,
          HubStopped, ReceiverStarts, UploadStarts, WorkerEnds, ReceiverStops, WorkerReports,
          ReceiverExits, agentVars, sessionVars
    <3> QED BY <2>3, <3>1, Zenon
  <2> QED BY <2>2, <2>4, Zenon DEF AgentNext
<1>2. ASSUME NEW e \in Devices, device'[e] = "idle"
      PROVE  /\ \A i \in 1 .. Len(toAgent') : toAgent'[i].type # "welcome" => toAgent'[i].of # e
             /\ \A i \in 1 .. Len(toHub') : toHub'[i].of # e
  <2>1. /\ device[e] = "idle" /\ ~DeviceStart(e) /\ ~DeviceStop(e) /\ worker[e] # "report"
        /\ \A i \in 1 .. Len(toAgent) : toAgent[i].type # "welcome" => toAgent[i].of # e
        /\ \A i \in 1 .. Len(toHub) : toHub[i].of # e
    BY <1>1, <1>2, Zenon DEF AgentInv, IdleInv
  <2> QED BY <2>1, NewMail, Zenon
<1>3. ASSUME NEW e \in Devices, device'[e] = "idle"
      PROVE  worker'[e] = "none" /\ e \notin receiver' \cup sessions' \cup cleaned' \cup unclean'
  <2>1. device[e] = "idle" /\ ~DeviceStart(e)
    BY <1>1, <1>3, Zenon
  <2>2. worker[e] = "none" /\ e \notin receiver /\ e \notin sessions /\ e \notin cleaned /\
          e \notin unclean
    BY <2>1, Zenon DEF AgentInv, IdleInv
  <2>3. CASE AgentStarts
    <3>1. toAgent # <<>> /\ 1 \in 1 .. Len(toAgent) /\ Head(toAgent) = toAgent[1] /\
            toAgent[1].type # "welcome"
      BY <2>3 DEF AgentStarts, AgentInv, AgentTypeOK
    <3>2. Head(toAgent).of # e
      BY <2>1, <3>1, Zenon DEF AgentInv, IdleInv
    <3>3. UNCHANGED <<receiver, sessions, cleaned, unclean>>
      BY <2>3, Zenon DEF AgentStarts, serverVars, sessionVars
    <3>4. worker'[e] = worker[e]
      BY <2>3, <3>2, Zenon DEF AgentStarts, AgentInv, AgentTypeOK
    <3> QED BY <2>2, <3>3, <3>4, Zenon
  <2>4. ASSUME NEW d \in Devices, DeviceStart(d) \/ DeviceNeverStarts(d)
        PROVE  UNCHANGED <<worker, receiver, unclean>> /\ e # d /\ e \notin sessions' \cup cleaned'
    <3>1. e # d
      BY <1>3, <2>1, <2>4, Zenon DEF DeviceNeverStarts, AgentInv, AgentTypeOK
    <3> QED BY <2>2, <2>4, <3>1, Zenon DEF DeviceStart, DeviceNeverStarts, workerVars, serverVars
  <2>5. CASE HubDisconnect
    BY <2>2, <2>5, Zenon DEF HubDisconnect, workerVars
  <2>6. CASE HubStopped
    BY <2>2, <2>6, Zenon DEF HubStopped, Complete, workerVars
  <2>7. CASE \E reboot \in BOOLEAN : AgentRestarts(reboot)
    BY <2>2, <2>7, Zenon DEF AgentRestarts, serverVars, sessionVars
  <2>8. CASE \E d \in Devices : ReceiverStarts(d) \/ ReceiverExits(d)
    BY <2>2, <2>8, Zenon DEF ReceiverStarts, ReceiverExits, serverVars, sessionVars
  <2>9. CASE \E d \in Devices : UploadStarts(d) \/ WorkerEnds(d) \/ ReceiverStops(d) \/
          WorkerReports(d)
    BY <2>2, <2>9, ZenonT(60) DEF UploadStarts, WorkerEnds, ReceiverStops, WorkerReports,
        serverVars, sessionVars, AgentInv, AgentTypeOK
  <2>10. CASE Dial \/ HubHello \/ HubClose \/ LinkBreaks \/ AgentWelcome \/ HelloFails \/
          AgentStops \/ AgentDrops \/ AgentCloses \/ HubFailed \/
          (\E d \in Devices : DeviceStarted(d) \/ DeviceStop(d) \/ DeviceStopped(d) \/
          DeviceStopExpires(d)) \/ UNCHANGED agentVars
    <3>1. UNCHANGED <<worker, receiver, unclean, sessions, cleaned>>
      BY <2>10, Zenon DEF Dial, HubHello, HubClose, LinkBreaks, AgentWelcome, HelloFails,
          AgentStops, AgentDrops, AgentCloses, HubFailed, DeviceStarted, DeviceStop,
          DeviceStopped, DeviceStopExpires, agentVars, serverVars, workerVars, sessionVars
    <3> QED BY <2>2, <3>1, Zenon
  <2> QED BY <2>2, <2>3, <2>4, <2>5, <2>6, <2>7, <2>8, <2>9, <2>10, Zenon DEF AgentNext
<1> QED BY <1>2, <1>3, Zenon DEF IdleInv

\* Only the Start of a device makes a receiver of it possible.
LEMMA AliveStep ==
    ASSUME AgentInv, [AgentNext]_agentVars, NEW e \in Devices, Alive(e)'
    PROVE  Alive(e) \/ DeviceStart(e)
<1>1. CASE Starts(e)'
  <2>1. PICK i \in 1 .. Len(toAgent') : toAgent'[i].type = "start" /\ toAgent'[i].of = e
    BY <1>1, Zenon DEF Starts
  <2>2. \/ \E k \in 1 .. Len(toAgent) : toAgent'[i] = toAgent[k]
        \/ DeviceStart(e)
    BY <2>1, NewMail, Zenon
  <2> QED BY <2>1, <2>2, Zenon DEF Alive, Starts
<1>2. CASE e \in receiver'
  <2>1. CASE \E d \in Devices : ReceiverStarts(d)
    BY <1>2, <2>1, Zenon DEF ReceiverStarts, Alive, InMap
  <2>2. CASE \E reboot \in BOOLEAN : AgentRestarts(reboot)
    BY <1>2, <2>2, Zenon DEF AgentRestarts, Alive
  <2>3. CASE \E d \in Devices : ReceiverStops(d) \/ ReceiverExits(d)
    BY <1>2, <2>3, Zenon DEF ReceiverStops, ReceiverExits, Alive
  <2>4. CASE Dial \/ HubHello \/ HubDisconnect \/ HubClose \/ LinkBreaks \/ AgentWelcome \/
          HelloFails \/ AgentStarts \/ AgentStops \/ AgentDrops \/ AgentCloses \/ HubFailed \/
          HubStopped \/ (\E d \in Devices : DeviceStart(d) \/ DeviceStarted(d) \/ DeviceStop(d) \/
          DeviceNeverStarts(d) \/ DeviceStopped(d) \/ DeviceStopExpires(d) \/ UploadStarts(d) \/
          WorkerEnds(d) \/ WorkerReports(d)) \/ UNCHANGED agentVars
    <3>1. receiver' = receiver
      BY <2>4, ZenonT(60) DEF Dial, HubHello, HubDisconnect, HubClose, LinkBreaks, AgentWelcome,
          HelloFails, AgentStarts, AgentStops, AgentDrops, AgentCloses, HubFailed, HubStopped,
          DeviceStart, DeviceStarted, DeviceStop, DeviceNeverStarts, DeviceStopped,
          DeviceStopExpires, UploadStarts, WorkerEnds, WorkerReports, agentVars, workerVars
    <3> QED BY <1>2, <3>1, Zenon DEF Alive
  <2> QED BY <2>1, <2>2, <2>3, <2>4, Zenon DEF AgentNext
<1>3. CASE e \in InMap'
  <2>0. worker'[e] \in {"open", "upload", "stop"}
    BY <1>3, Zenon DEF InMap
  <2>1. CASE AgentStarts
    <3>1. toAgent # <<>> /\ Head(toAgent).type = "start"
      BY <2>1, Zenon DEF AgentStarts
    <3>2. 1 \in 1 .. Len(toAgent) /\ Head(toAgent) = toAgent[1]
      BY <3>1 DEF AgentInv, AgentTypeOK
    <3>3. worker'[e] = worker[e] \/ Head(toAgent).of = e
      BY <2>1, Zenon DEF AgentStarts, AgentInv, AgentTypeOK
    <3> QED BY <2>0, <3>1, <3>2, <3>3, Zenon DEF Alive, Starts, InMap
  <2>2. CASE \E reboot \in BOOLEAN : AgentRestarts(reboot)
    BY <2>0, <2>2, Zenon DEF AgentRestarts
  <2>3. CASE \E d \in Devices : UploadStarts(d) \/ WorkerEnds(d) \/ ReceiverStops(d) \/
          WorkerReports(d)
    <3>1. worker[e] \in {"open", "upload", "stop"}
      BY <2>0, <2>3, ZenonT(60) DEF UploadStarts, WorkerEnds, ReceiverStops, WorkerReports,
          AgentInv, AgentTypeOK
    <3> QED BY <3>1, Zenon DEF Alive, InMap
  <2>4. CASE Dial \/ HubHello \/ HubDisconnect \/ HubClose \/ LinkBreaks \/ AgentWelcome \/
          HelloFails \/ AgentStops \/ AgentDrops \/ AgentCloses \/ HubFailed \/ HubStopped \/
          (\E d \in Devices : DeviceStart(d) \/ DeviceStarted(d) \/ DeviceStop(d) \/
          DeviceNeverStarts(d) \/ DeviceStopped(d) \/ DeviceStopExpires(d) \/ ReceiverStarts(d) \/
          ReceiverExits(d)) \/ UNCHANGED agentVars
    <3>1. worker' = worker
      BY <2>4, Zenon DEF Dial, HubHello, HubDisconnect, HubClose, LinkBreaks, AgentWelcome,
          HelloFails, AgentStops, AgentDrops, AgentCloses, HubFailed, HubStopped, DeviceStart,
          DeviceStarted, DeviceStop, DeviceNeverStarts, DeviceStopped, DeviceStopExpires,
          ReceiverStarts, ReceiverExits, agentVars, workerVars
    <3> QED BY <2>0, <3>1, Zenon DEF Alive, InMap
  <2> QED BY <2>1, <2>2, <2>3, <2>4, Zenon DEF AgentNext
<1> QED BY <1>1, <1>2, <1>3, Zenon DEF Alive

\* What may run stays a session's or in quarantine: the hello that lifts a
\* quarantine proves that nothing of it runs, and so does a clean "stopped".
LEMMA CoverStep ==
    ASSUME AgentInv, [AgentNext]_agentVars
    PROVE  CoverInv'
<1>1. ASSUME NEW e \in Devices \ overtaken', Alive(e)'
      PROVE  (Alive(e) /\ e \notin overtaken) \/ DeviceStart(e)
  <2>1. CASE AgentStops
    <3>1. overtaken \subseteq overtaken'
      BY <2>1, Zenon DEF AgentStops
    <3> QED BY <1>1, <3>1, AliveStep, Zenon
  <2>2. CASE Dial \/ HubHello \/ HubDisconnect \/ HubClose \/ LinkBreaks \/ AgentWelcome \/
          HelloFails \/ AgentStarts \/ AgentDrops \/ AgentCloses \/
          (\E reboot \in BOOLEAN : AgentRestarts(reboot)) \/ HubFailed \/ HubStopped \/
          (\E d \in Devices : DeviceStart(d) \/ DeviceStarted(d) \/ DeviceStop(d) \/
          DeviceNeverStarts(d) \/ DeviceStopped(d) \/ DeviceStopExpires(d) \/ ReceiverStarts(d) \/
          UploadStarts(d) \/ WorkerEnds(d) \/ ReceiverStops(d) \/ WorkerReports(d) \/
          ReceiverExits(d)) \/ UNCHANGED agentVars
    <3>1. overtaken' = overtaken
      BY <2>2, ZenonT(60) DEF Dial, HubHello, HubDisconnect, HubClose, LinkBreaks, AgentWelcome,
          HelloFails, AgentStarts, AgentDrops, AgentCloses, AgentRestarts, HubFailed, HubStopped,
          DeviceStart, DeviceStarted, DeviceStop, DeviceNeverStarts, DeviceStopped,
          DeviceStopExpires, ReceiverStarts, UploadStarts, WorkerEnds, ReceiverStops,
          WorkerReports, ReceiverExits, agentVars
    <3> QED BY <1>1, <3>1, AliveStep, Zenon
  <2> QED BY <2>1, <2>2, Zenon DEF AgentNext
<1>2. SUFFICES ASSUME NEW e \in Devices \ overtaken', Alive(e)'
      PROVE  /\ sconn'[e] > 0 /\ (e \in sessions' \/ quarantined' = sconn'[e])
             /\ (sessions' \ cleaned' # {} => e \in sessions')
    BY Zenon DEF CoverInv
<1>3. CASE DeviceStart(e)
  <2>1. CASE Available
    BY <1>3, <2>1, ZenonT(60) DEF DeviceStart, Available, AgentInv, AgentTypeOK, LinkInv, Gens
  <2>2. CASE ~Available
    <3>1. UNCHANGED <<toAgent, worker, receiver>> /\ device[e] = "idle"
      BY <1>3, <2>2, Zenon DEF DeviceStart, workerVars
    <3>2. ~Alive(e)
      BY <3>1, Zenon DEF AgentInv, IdleInv, Alive, Starts, InMap
    <3> QED BY <1>2, <3>1, <3>2, Zenon DEF Alive, Starts, InMap
  <2> QED BY <2>1, <2>2, Zenon
<1>4. SUFFICES ASSUME ~DeviceStart(e)
      PROVE  /\ sconn'[e] > 0 /\ (e \in sessions' \/ quarantined' = sconn'[e])
             /\ (sessions' \ cleaned' # {} => e \in sessions')
    BY <1>3, Zenon
<1>5. /\ Alive(e) /\ e \in Devices \ overtaken /\ sconn[e] > 0 /\ sconn[e] \in Nat /\ gen \in Nat
      /\ e \in sessions \/ quarantined = sconn[e]
      /\ sessions \ cleaned # {} => e \in sessions
    BY <1>1, <1>2, <1>4 DEF AgentInv, CoverInv, AgentTypeOK, Gens
<1>6. CASE HubHello
  <2>1. conn = "hello" /\ sessions = {} /\ toAgent = <<>> /\ agent \in {"hello", "down"} /\
          sconn[e] <= gen
    BY <1>6, ZenonT(60) DEF HubHello, AgentInv, LinkInv
  <2>2. e \in receiver
    BY <1>5, <2>1 DEF Alive, InMap, Starts, AgentInv, LinkInv
  <2>3. quarantined = sconn[e] /\ gen \in 1 .. gen /\ sconn[e] \in 1 .. gen
    BY <1>5, <2>1
  <2>4. peer[gen].boot = identity.boot /\ peer[sconn[e]].boot = identity.boot
    BY <2>1, <2>2, <2>3 DEF AgentInv, BootInv
  <2>5. sconn[e] # reported
    BY <1>5, <2>2 DEF AgentInv, RecoveredInv
  <2>6. ~Proves(quarantined)
    BY <2>3, <2>4, <2>5, Zenon DEF Proves
  <2>7. UNCHANGED <<quarantined, sconn, sessions>>
    BY <1>6, <2>6, Zenon DEF HubHello, sessionVars
  <2> QED BY <1>5, <2>1, <2>7, Zenon
<1>7. CASE HubDisconnect
  <2>1. sessions' = {} /\ sconn' = sconn /\
          quarantined' = IF sessions = {} THEN quarantined ELSE gen
    BY <1>7, Zenon DEF HubDisconnect
  <2>2. e \in sessions => sconn[e] = gen
    BY Zenon DEF AgentInv, LinkInv
  <2>3. sessions # {} => quarantined \in {0, gen}
    BY Zenon DEF AgentInv, SessionInv
  <2> QED BY <1>5, <2>1, <2>2, <2>3
<1>8. CASE HubStopped
  <2>0. toHub # <<>> /\ 1 \in 1 .. Len(toHub) /\ Head(toHub) = toHub[1] /\ toHub[1].type = "stopped"
    BY <1>8 DEF HubStopped, AgentInv, AgentTypeOK
  <2>1. CASE Head(toHub).of \notin sessions
    BY <1>5, <1>8, <2>1, Zenon DEF HubStopped
  <2>2. CASE Head(toHub).of \in sessions
    <3> DEFINE d == Head(toHub).of
    <3>1. /\ sessions' = sessions \ {d} /\ cleaned' = cleaned \cup {d} /\ sconn' = sconn
          /\ quarantined' = IF ~Head(toHub).clean THEN gen
                             ELSE IF quarantined = gen THEN 0 ELSE quarantined
      BY <1>8, <2>2, Zenon DEF HubStopped, Complete
    <3>2. d \notin cleaned /\ sessions \ cleaned = {d} /\ sconn[d] = gen /\ quarantined \in {0, gen}
      BY <2>0, <2>2 DEF AgentInv, DeadInv, SessionInv, LinkInv
    <3>3. e \in sessions /\ sconn[e] = gen
      BY <1>5, <3>2, Zenon DEF AgentInv, LinkInv
    <3>4. sessions' \ cleaned' = {}
      BY <3>1, <3>2, Zenon
    <3>5. CASE e # d
      BY <1>5, <3>1, <3>3, <3>4, <3>5, Zenon
    <3>6. CASE e = d
      <4>1. Head(toHub) \in Message
        BY <2>0 DEF AgentInv, AgentTypeOK
      <4>2. Head(toHub).clean \in BOOLEAN
        BY <2>0, <4>1, Zenon DEF Message
      <4>3. CASE Head(toHub).clean = FALSE
        BY <1>5, <3>1, <3>3, <3>4, <4>3, Zenon
      <4>4. CASE Head(toHub).clean = TRUE
        <5>1. e \notin InMap
          BY <2>0, <3>6, Zenon DEF AgentInv, MapInv
        <5>2. ~Starts(e)
          BY <2>0, <3>6, ZenonT(60) DEF AgentInv, StartInv, StartsFirst, Starts
        <5>3. e \in (receiver \cap sessions) \ overtaken
          BY <1>5, <3>3, <5>1, <5>2, Zenon DEF Alive
        <5>4. \E j \in 1 .. Len(toHub) : j < 1
          BY <2>0, <3>6, <4>4, <5>3, Zenon DEF AgentInv, StoppedInv
        <5> QED BY <5>4
      <4> QED BY <4>2, <4>3, <4>4, Zenon
    <3> QED BY <3>5, <3>6, Zenon
  <2> QED BY <2>1, <2>2, Zenon
<1>9. ASSUME NEW d \in Devices, DeviceStart(d), d # e
      PROVE  /\ sconn'[e] > 0 /\ (e \in sessions' \/ quarantined' = sconn'[e])
             /\ (sessions' \ cleaned' # {} => e \in sessions')
  <2>1. quarantined' = quarantined /\ sconn'[e] = sconn[e]
    BY <1>9, Zenon DEF DeviceStart, AgentInv, AgentTypeOK
  <2>2. CASE Available
    BY <1>5, <1>9, <2>1, <2>2 DEF DeviceStart, Available
  <2>3. CASE ~Available
    <3>1. sessions' = sessions /\ cleaned \subseteq cleaned'
      BY <1>9, <2>3, Zenon DEF DeviceStart
    <3> QED BY <1>5, <2>1, <3>1, Zenon
  <2> QED BY <2>2, <2>3, Zenon
<1>10. ASSUME NEW d \in Devices, DeviceNeverStarts(d)
       PROVE  /\ sconn'[e] > 0 /\ (e \in sessions' \/ quarantined' = sconn'[e])
              /\ (sessions' \ cleaned' # {} => e \in sessions')
    BY <1>5, <1>10, Zenon DEF DeviceNeverStarts, serverVars
<1>11. ASSUME NEW d \in Devices, DeviceStopExpires(d)
       PROVE  /\ sconn'[e] > 0 /\ (e \in sessions' \/ quarantined' = sconn'[e])
              /\ (sessions' \ cleaned' # {} => e \in sessions')
  <2>1. UNCHANGED <<sessions, sconn, cleaned>> /\
          quarantined' = IF d \in sessions THEN sconn[d] ELSE quarantined
    BY <1>11, Zenon DEF DeviceStopExpires
  <2>2. d \in sessions => sconn[d] = gen /\ quarantined \in {0, gen}
    BY Zenon DEF AgentInv, LinkInv, SessionInv
  <2> QED BY <1>5, <2>1, <2>2
<1>12. CASE UNCHANGED <<sconn, sessions, quarantined, cleaned>>
    BY <1>5, <1>12, Zenon
<1>13. CASE Dial \/ HubClose \/ LinkBreaks \/ AgentWelcome \/ HelloFails \/ AgentStarts \/
        AgentStops \/ AgentDrops \/ AgentCloses \/
        (\E reboot \in BOOLEAN : AgentRestarts(reboot)) \/ HubFailed \/
        (\E d \in Devices : DeviceStarted(d) \/ DeviceStop(d) \/ DeviceStopped(d) \/
        ReceiverStarts(d) \/ UploadStarts(d) \/ WorkerEnds(d) \/ ReceiverStops(d) \/
        WorkerReports(d) \/ ReceiverExits(d)) \/ UNCHANGED agentVars
  <2>1. UNCHANGED <<sconn, sessions, quarantined, cleaned>>
    BY <1>13, ZenonT(60) DEF Dial, HubClose, LinkBreaks, AgentWelcome, HelloFails, AgentStarts,
        AgentStops, AgentDrops, AgentCloses, AgentRestarts, HubFailed, DeviceStarted, DeviceStop,
        DeviceStopped, ReceiverStarts, UploadStarts, WorkerEnds, ReceiverStops, WorkerReports,
        ReceiverExits, agentVars, serverVars, sessionVars
  <2> QED BY <1>12, <2>1, Zenon
<1> QED BY <1>4, <1>6, <1>7, <1>8, <1>9, <1>10, <1>11, <1>13, Zenon DEF AgentNext

\* A "start" on its way stays the first message of its device.
LEMMA StartStep ==
    ASSUME AgentInv, [AgentNext]_agentVars
    PROVE  StartInv'
<1> SUFFICES ASSUME NEW i \in 1 .. Len(toAgent'), toAgent'[i].type = "start"
             PROVE  StartsFirst(i)'
    BY Zenon DEF StartInv
<1>1. CASE Dial
    BY <1>1, SMTT(30) DEF Dial
<1>2. CASE HubHello
  <2>1. Grown(toAgent, toAgent', {[type |-> "welcome"]})
    BY <1>2, Mail, Zenon DEF AgentInv
  <2>2. UNCHANGED <<toHub, sconn, gen, worker>> /\ toAgent = <<>>
    BY <1>2, Zenon DEF HubHello, workerVars, sessionVars, AgentInv, LinkInv
  <2> QED BY <2>1, <2>2 DEF Grown, AgentInv, AgentTypeOK
<1>3. CASE HubDisconnect
  <2>1. toHub' = <<>> /\ UNCHANGED <<toAgent, sconn, gen, worker>>
    BY <1>3, Zenon DEF HubDisconnect, workerVars
  <2> QED BY <2>1 DEF AgentInv, StartInv, StartsFirst
<1>4. CASE AgentWelcome
  <2>1. toAgent # <<>> /\ toAgent' = Tail(toAgent)
    BY <1>4, Zenon DEF AgentWelcome
  <2>2. \A k \in 1 .. Len(toAgent') : k + 1 \in 1 .. Len(toAgent) /\ toAgent'[k] = toAgent[k + 1]
    BY <2>1 DEF AgentInv, AgentTypeOK
  <2>3. UNCHANGED <<toHub, sconn, gen, worker>>
    BY <1>4, Zenon DEF AgentWelcome, workerVars, sessionVars
  <2>4. i + 1 \in 1 .. Len(toAgent) /\ StartsFirst(i + 1) /\ toAgent'[i] = toAgent[i + 1]
    BY <2>2, Zenon DEF AgentInv, StartInv
  <2>5. \A j \in 1 .. Len(toAgent') : j < i => j + 1 < i + 1
    BY DEF AgentInv, AgentTypeOK
  <2> QED BY <2>2, <2>3, <2>4, <2>5, Zenon DEF StartsFirst
<1>5. CASE HelloFails
    BY <1>5 DEF HelloFails
<1>6. CASE AgentStarts
  <2>1. toAgent # <<>> /\ toAgent' = Tail(toAgent)
    BY <1>6, Zenon DEF AgentStarts
  <2>2. \A k \in 1 .. Len(toAgent') : k + 1 \in 1 .. Len(toAgent) /\ toAgent'[k] = toAgent[k + 1]
    BY <2>1 DEF AgentInv, AgentTypeOK
  <2>3. UNCHANGED <<sconn, gen>> /\ Head(toAgent).type # "welcome"
    BY <1>6, Zenon DEF AgentStarts, sessionVars
  <2>4. i + 1 \in 1 .. Len(toAgent) /\ StartsFirst(i + 1) /\ toAgent'[i] = toAgent[i + 1]
    BY <2>2, Zenon DEF AgentInv, StartInv
  <2>5. \A j \in 1 .. Len(toAgent') : j < i => j + 1 < i + 1
    BY DEF AgentInv, AgentTypeOK
  <2>6. 1 \in 1 .. Len(toAgent) /\ 1 < i + 1 /\ Head(toAgent) = toAgent[1]
    BY <2>1, <2>4 DEF AgentInv, AgentTypeOK
  <2>7. Head(toAgent).of # toAgent'[i].of
    BY <2>3, <2>4, <2>6, Zenon DEF StartsFirst
  <2>8. Grown(toHub, toHub', {[type |-> "failed", of |-> Head(toAgent).of]})
    BY <1>6, Mail, Zenon DEF AgentInv
  <2>9. \A j \in 1 .. Len(toHub') : (j \in 1 .. Len(toHub) /\ toHub'[j] = toHub[j]) \/
          toHub'[j].of = Head(toAgent).of
    BY <2>8, SMTT(30) DEF Grown, AgentInv, AgentTypeOK
  <2>10. \A j \in 1 .. Len(toHub') : toHub'[j].type = "stopped" => toHub'[j].of # toAgent'[i].of
    BY <2>4, <2>7, <2>9, Zenon DEF StartsFirst
  <2>11. toAgent[i + 1] \in Message
    BY <2>4 DEF AgentInv, AgentTypeOK
  <2>12. toAgent'[i].of \in Devices
    BY <2>4, <2>11, Zenon DEF Message
  <2>13. worker'[toAgent'[i].of] = worker[toAgent'[i].of]
    BY <1>6, <2>7, <2>12, Zenon DEF AgentStarts, AgentInv, AgentTypeOK
  <2> QED BY <2>2, <2>3, <2>4, <2>5, <2>10, <2>13, Zenon DEF StartsFirst
<1>7. CASE AgentStops
  <2>1. toAgent # <<>> /\ toAgent' = Tail(toAgent)
    BY <1>7, Zenon DEF AgentStops
  <2>2. \A k \in 1 .. Len(toAgent') : k + 1 \in 1 .. Len(toAgent) /\ toAgent'[k] = toAgent[k + 1]
    BY <2>1 DEF AgentInv, AgentTypeOK
  <2>3. UNCHANGED <<sconn, gen, worker>> /\ Head(toAgent).type # "welcome"
    BY <1>7, Zenon DEF AgentStops, sessionVars
  <2>4. i + 1 \in 1 .. Len(toAgent) /\ StartsFirst(i + 1) /\ toAgent'[i] = toAgent[i + 1]
    BY <2>2, Zenon DEF AgentInv, StartInv
  <2>5. \A j \in 1 .. Len(toAgent') : j < i => j + 1 < i + 1
    BY DEF AgentInv, AgentTypeOK
  <2>6. 1 \in 1 .. Len(toAgent) /\ 1 < i + 1 /\ Head(toAgent) = toAgent[1]
    BY <2>1, <2>4 DEF AgentInv, AgentTypeOK
  <2>7. Head(toAgent).of # toAgent'[i].of
    BY <2>3, <2>4, <2>6, Zenon DEF StartsFirst
  <2>8. Grown(toHub, toHub', {[type |-> "stopped", of |-> Head(toAgent).of, clean |-> TRUE]})
    BY <1>7, Mail, ZenonT(60) DEF AgentInv
  <2>9. \A j \in 1 .. Len(toHub') : (j \in 1 .. Len(toHub) /\ toHub'[j] = toHub[j]) \/
          toHub'[j].of = Head(toAgent).of
    BY <2>8, SMTT(30) DEF Grown, AgentInv, AgentTypeOK
  <2>10. \A j \in 1 .. Len(toHub') : toHub'[j].type = "stopped" => toHub'[j].of # toAgent'[i].of
    BY <2>4, <2>7, <2>9, Zenon DEF StartsFirst
  <2> QED BY <2>2, <2>3, <2>4, <2>5, <2>10, Zenon DEF StartsFirst
<1>8. CASE AgentDrops
    BY <1>8 DEF AgentDrops
<1>9. ASSUME NEW reboot \in BOOLEAN, AgentRestarts(reboot) PROVE StartsFirst(i)'
    BY <1>9 DEF AgentRestarts
<1>10. CASE HubFailed
  <2>1. toHub # <<>> /\ toHub' = Tail(toHub)
    BY <1>10, Zenon DEF HubFailed
  <2>2. \A j \in 1 .. Len(toHub') : j + 1 \in 1 .. Len(toHub) /\ toHub'[j] = toHub[j + 1]
    BY <2>1 DEF AgentInv, AgentTypeOK
  <2>3. UNCHANGED <<toAgent, sconn, gen, worker>>
    BY <1>10, Zenon DEF HubFailed, workerVars, sessionVars
  <2> QED BY <2>2, <2>3, SMTT(30) DEF AgentInv, StartInv, StartsFirst
<1>11. CASE HubStopped
  <2>1. toHub # <<>> /\ toHub' = Tail(toHub)
    BY <1>11, Zenon DEF HubStopped
  <2>2. \A j \in 1 .. Len(toHub') : j + 1 \in 1 .. Len(toHub) /\ toHub'[j] = toHub[j + 1]
    BY <2>1 DEF AgentInv, AgentTypeOK
  <2>3. UNCHANGED <<toAgent, sconn, gen, worker>>
    BY <1>11, Zenon DEF HubStopped, workerVars, sessionVars
  <2> QED BY <2>2, <2>3 DEF AgentInv, StartInv, StartsFirst
<1>12. ASSUME NEW d \in Devices, DeviceStart(d) PROVE StartsFirst(i)'
  <2>1. Grown(toAgent, toAgent', {[type |-> "start", of |-> d]})
    BY <1>12, Mail, Zenon DEF AgentInv
  <2>2. UNCHANGED <<toHub, gen, worker>> /\ device[d] = "idle"
    BY <1>12, Zenon DEF DeviceStart, workerVars
  <2>3. /\ worker[d] = "none" /\ \A j \in 1 .. Len(toHub) : toHub[j].of # d
        /\ \A j \in 1 .. Len(toAgent) : toAgent[j].type # "welcome" => toAgent[j].of # d
    BY <2>2, Zenon DEF AgentInv, IdleInv
  <2>4. CASE i \in 1 .. Len(toAgent)
    <3>1. toAgent'[i] = toAgent[i] /\ StartsFirst(i) /\ toAgent[i].of # d /\ toAgent[i] \in Message
      BY <2>1, <2>3, <2>4 DEF Grown, AgentInv, StartInv, AgentTypeOK
    <3>2. toAgent[i].of \in Devices
      BY <3>1, Zenon DEF Message
    <3>3. sconn'[toAgent[i].of] = sconn[toAgent[i].of]
      BY <1>12, <3>1, <3>2, ZenonT(60) DEF DeviceStart, AgentInv, AgentTypeOK
    <3>4. \A j \in 1 .. Len(toAgent') : j < i => j \in 1 .. Len(toAgent) /\ toAgent'[j] = toAgent[j]
      <4>1. Len(toAgent) \in Nat /\ i <= Len(toAgent) /\ \A j \in 1 .. Len(toAgent) :
              toAgent'[j] = toAgent[j]
        BY <2>1, <2>4 DEF Grown, AgentInv, AgentTypeOK
      <4> QED BY <4>1
    <3> QED BY <2>2, <3>1, <3>3, <3>4, Zenon DEF StartsFirst
  <2>5. CASE i \notin 1 .. Len(toAgent)
    <3>1. toAgent'[i].of = d /\ toAgent' # toAgent /\ i > Len(toAgent)
      BY <2>1, <2>5 DEF Grown, AgentInv, AgentTypeOK
    <3>2. Available
      BY <1>12, <3>1, ZenonT(60) DEF DeviceStart
    <3>3. sconn'[d] = gen /\ gen > 0
      BY <1>12, <3>2, SMTT(30) DEF DeviceStart, Available, AgentInv, AgentTypeOK, LinkInv
    <3>4. \A j \in 1 .. Len(toAgent') : j < i => j \in 1 .. Len(toAgent) /\ toAgent'[j] = toAgent[j]
      <4>1. Len(toAgent') <= Len(toAgent) + 1
        <5>1. [type |-> "start", of |-> d] \in Message
          BY Zenon DEF Message
        <5>2. toAgent' = Send(toAgent, <<[type |-> "start", of |-> d]>>)
          BY <1>12, <3>2, Zenon DEF DeviceStart
        <5> QED BY <5>1, <5>2, SendLength, Zenon DEF AgentInv, AgentTypeOK
      <4> QED BY <2>1, <3>1, <4>1 DEF Grown, AgentInv, AgentTypeOK
    <3> QED BY <2>2, <2>3, <3>1, <3>3, <3>4, Zenon DEF StartsFirst
  <2> QED BY <2>4, <2>5, Zenon
<1>13. ASSUME NEW d \in Devices, DeviceStop(d) PROVE StartsFirst(i)'
  <2>1. Grown(toAgent, toAgent', {[type |-> "stop", of |-> d]})
    BY <1>13, Mail, Zenon DEF AgentInv
  <2>2. UNCHANGED <<toHub, sconn, gen, worker>>
    BY <1>13, Zenon DEF DeviceStop, workerVars
  <2>3. i \in 1 .. Len(toAgent)
    BY <2>1 DEF Grown, AgentInv, AgentTypeOK
  <2>4. toAgent'[i] = toAgent[i] /\ StartsFirst(i)
    BY <2>1, <2>3, Zenon DEF Grown, AgentInv, StartInv
  <2>5. \A j \in 1 .. Len(toAgent') : j < i => j \in 1 .. Len(toAgent) /\ toAgent'[j] = toAgent[j]
    BY <2>1, <2>3, SMTT(30) DEF Grown, AgentInv, AgentTypeOK
  <2> QED BY <2>2, <2>4, <2>5, Zenon DEF StartsFirst
<1>14. ASSUME NEW d \in Devices, UploadStarts(d) PROVE StartsFirst(i)'
  <2>1. StartsFirst(i) /\ toAgent[i] \in Message /\ UNCHANGED <<toAgent, toHub, sconn, gen>>
    BY <1>14 DEF UploadStarts, linkVars, AgentInv, AgentTypeOK, StartInv
  <2>2. toAgent[i].of \in Devices
    BY <2>1, Zenon DEF Message
  <2>3. worker'[toAgent[i].of] = "none"
    BY <1>14, <2>1, <2>2, ZenonT(60) DEF UploadStarts, AgentInv, AgentTypeOK, StartsFirst
  <2> QED BY <2>1, <2>3, ZenonT(60) DEF StartsFirst
<1>15. ASSUME NEW d \in Devices, WorkerEnds(d) PROVE StartsFirst(i)'
  <2>1. StartsFirst(i) /\ toAgent[i] \in Message /\ UNCHANGED <<toAgent, toHub, sconn, gen>>
    BY <1>15 DEF WorkerEnds, linkVars, AgentInv, AgentTypeOK, StartInv
  <2>2. toAgent[i].of \in Devices
    BY <2>1, Zenon DEF Message
  <2>3. worker'[toAgent[i].of] = "none"
    BY <1>15, <2>1, <2>2, Zenon DEF WorkerEnds, AgentInv, AgentTypeOK, StartsFirst
  <2> QED BY <2>1, <2>3, Zenon DEF StartsFirst
<1>16. ASSUME NEW d \in Devices, ReceiverStops(d) PROVE StartsFirst(i)'
  <2>1. StartsFirst(i) /\ toAgent[i] \in Message /\ UNCHANGED <<toAgent, toHub, sconn, gen>>
    BY <1>16 DEF ReceiverStops, sessionVars, linkVars, AgentInv, AgentTypeOK, StartInv
  <2>2. toAgent[i].of \in Devices
    BY <2>1, Zenon DEF Message
  <2>3. worker'[toAgent[i].of] = "none"
    BY <1>16, <2>1, <2>2, Zenon DEF ReceiverStops, AgentInv, AgentTypeOK, StartsFirst
  <2> QED BY <2>1, <2>3, Zenon DEF StartsFirst
<1>17. ASSUME NEW d \in Devices, WorkerReports(d) PROVE StartsFirst(i)'
  <2>1. StartsFirst(i) /\ toAgent[i] \in Message /\ UNCHANGED <<toAgent, sconn, gen>> /\
          worker[d] = "report"
    BY <1>17 DEF WorkerReports, AgentInv, AgentTypeOK, StartInv, sessionVars
  <2>2. toAgent[i].of \in Devices /\ toAgent[i].of # d
    BY <2>1, Zenon DEF Message, StartsFirst
  <2>3. worker'[toAgent[i].of] = "none"
    BY <1>17, <2>1, <2>2, Zenon DEF WorkerReports, AgentInv, AgentTypeOK, StartsFirst
  <2>4. Grown(toHub, toHub', {[type |-> "failed", of |-> d],
                [type |-> "stopped", of |-> d, clean |-> d \notin unclean]})
    BY <1>17, Mail, ZenonT(60) DEF AgentInv
  <2>5. \A j \in 1 .. Len(toHub') : (j \in 1 .. Len(toHub) /\ toHub'[j] = toHub[j]) \/
          toHub'[j].of = d
    BY <2>4, SMTT(30) DEF Grown, AgentInv, AgentTypeOK
  <2> QED BY <2>1, <2>2, <2>3, <2>5, ZenonT(60) DEF StartsFirst
<1>18. CASE HubClose \/ LinkBreaks \/ AgentCloses \/ (\E d \in Devices : DeviceStarted(d)) \/
        (\E d \in Devices : DeviceNeverStarts(d)) \/ (\E d \in Devices : DeviceStopped(d)) \/
        (\E d \in Devices : DeviceStopExpires(d)) \/ (\E d \in Devices : ReceiverStarts(d)) \/
        (\E d \in Devices : ReceiverExits(d)) \/ UNCHANGED agentVars
  <2>1. UNCHANGED <<toAgent, sconn, gen, worker, toHub>>
    BY <1>18, Zenon DEF HubClose, LinkBreaks, AgentCloses, DeviceStarted, DeviceNeverStarts,
        DeviceStopped, DeviceStopExpires, ReceiverStarts, ReceiverExits, agentVars, serverVars,
        linkVars, clientVars, workerVars, sessionVars
  <2> QED BY <2>1, Zenon DEF AgentInv, StartInv, StartsFirst
<1> QED BY <1>1, <1>2, <1>3, <1>4, <1>5, <1>6, <1>7, <1>8, <1>9, <1>10, <1>11, <1>12, <1>13,
        <1>14, <1>15, <1>16, <1>17, <1>18, Zenon DEF AgentNext

\* A worker leaves the map before it reports, and none enters it that has.
LEMMA MapStep ==
    ASSUME AgentInv, [AgentNext]_agentVars
    PROVE  MapInv'
<1>1. CASE Dial
    BY <1>1 DEF Dial, MapInv
<1>2. CASE HubDisconnect
    BY <1>2 DEF HubDisconnect, MapInv
<1>3. CASE AgentStarts
  <2>1. toAgent # <<>> /\ Head(toAgent).type = "start"
    BY <1>3, Zenon DEF AgentStarts
  <2>2. 1 \in 1 .. Len(toAgent) /\ Head(toAgent) = toAgent[1]
    BY <2>1 DEF AgentInv, AgentTypeOK
  <2>3. \A j \in 1 .. Len(toHub) : toHub[j].type = "stopped" => toHub[j].of # Head(toAgent).of
    BY <2>1, <2>2, ZenonT(60) DEF AgentInv, StartInv, StartsFirst
  <2>4. Grown(toHub, toHub', {[type |-> "failed", of |-> Head(toAgent).of]})
    BY <1>3, Mail, Zenon DEF AgentInv
  <2>5. \A j \in 1 .. Len(toHub') : toHub'[j].type = "stopped" => j \in 1 .. Len(toHub) /\
          toHub'[j] = toHub[j]
    BY <2>4 DEF Grown, AgentInv, AgentTypeOK
  <2>6. \A e \in Devices : e # Head(toAgent).of => worker'[e] = worker[e]
    BY <1>3, Zenon DEF AgentStarts, AgentInv, AgentTypeOK
  <2> QED BY <2>3, <2>5, <2>6 DEF AgentInv, MapInv, InMap
<1>4. CASE AgentStops
  <2>1. Grown(toHub, toHub', {[type |-> "stopped", of |-> Head(toAgent).of, clean |-> TRUE]})
    BY <1>4, Mail, Zenon DEF AgentInv
  <2>2. worker' = worker
    BY <1>4, Zenon DEF AgentStops
  <2>3. \A j \in 1 .. Len(toHub') : (j \in 1 .. Len(toHub) /\ toHub'[j] = toHub[j]) \/
            (toHub' # toHub /\ toHub'[j].of = Head(toAgent).of)
    BY <2>1 DEF Grown, AgentInv, AgentTypeOK
  <2>4. toHub' # toHub => Head(toAgent).of \notin InMap
    BY <1>4, Zenon DEF AgentStops
  <2> QED BY <2>2, <2>3, <2>4, Zenon DEF AgentInv, MapInv, InMap
<1>5. ASSUME NEW reboot \in BOOLEAN, AgentRestarts(reboot) PROVE MapInv'
    BY <1>5, Zenon DEF AgentRestarts, MapInv, InMap
<1>6. CASE HubFailed
  <2>1. toHub # <<>> /\ toHub' = Tail(toHub) /\ worker' = worker
    BY <1>6, Zenon DEF HubFailed, workerVars
  <2>2. \A j \in 1 .. Len(toHub') : j + 1 \in 1 .. Len(toHub) /\ toHub'[j] = toHub[j + 1]
    BY <2>1 DEF AgentInv, AgentTypeOK
  <2> QED BY <2>1, <2>2, Zenon DEF AgentInv, MapInv, InMap
<1>7. CASE HubStopped
  <2>1. toHub # <<>> /\ toHub' = Tail(toHub) /\ worker' = worker
    BY <1>7, Zenon DEF HubStopped, workerVars
  <2>2. \A j \in 1 .. Len(toHub') : j + 1 \in 1 .. Len(toHub) /\ toHub'[j] = toHub[j + 1]
    BY <2>1 DEF AgentInv, AgentTypeOK
  <2> QED BY <2>1, <2>2, ZenonT(60) DEF AgentInv, MapInv, InMap
<1>8. ASSUME NEW d \in Devices, UploadStarts(d) PROVE MapInv'
  <2>1. UNCHANGED <<toHub>> /\ \A e \in Devices : worker'[e] \in {"open", "upload", "stop"} =>
          worker[e] \in {"open", "upload", "stop"}
    BY <1>8, Zenon DEF UploadStarts, linkVars, AgentInv, AgentTypeOK
  <2> QED BY <2>1, Zenon DEF AgentInv, MapInv, InMap
<1>9. ASSUME NEW d \in Devices, WorkerEnds(d) PROVE MapInv'
  <2>1. UNCHANGED <<toHub>> /\ \A e \in Devices : worker'[e] \in {"open", "upload", "stop"} =>
          worker[e] \in {"open", "upload", "stop"}
    BY <1>9, Zenon DEF WorkerEnds, linkVars, AgentInv, AgentTypeOK
  <2> QED BY <2>1, Zenon DEF AgentInv, MapInv, InMap
<1>10. ASSUME NEW d \in Devices, ReceiverStops(d) PROVE MapInv'
  <2>1. UNCHANGED <<toHub>> /\ \A e \in Devices : worker'[e] \in {"open", "upload", "stop"} =>
          worker[e] \in {"open", "upload", "stop"}
    BY <1>10, Zenon DEF ReceiverStops, linkVars, AgentInv, AgentTypeOK
  <2> QED BY <2>1, Zenon DEF AgentInv, MapInv, InMap
<1>11. ASSUME NEW d \in Devices, WorkerReports(d) PROVE MapInv'
  <2>1. Grown(toHub, toHub', {[type |-> "failed", of |-> d],
                [type |-> "stopped", of |-> d, clean |-> d \notin unclean]})
    BY <1>11, Mail, Zenon DEF AgentInv
  <2>2. \A j \in 1 .. Len(toHub') : (j \in 1 .. Len(toHub) /\ toHub'[j] = toHub[j]) \/
          toHub'[j].of = d
    BY <2>1 DEF Grown, AgentInv, AgentTypeOK
  <2>3. worker'[d] = "none" /\ \A e \in Devices : e # d => worker'[e] = worker[e]
    BY <1>11, Zenon DEF WorkerReports, AgentInv, AgentTypeOK
  <2> QED BY <2>2, <2>3, Zenon DEF AgentInv, MapInv, InMap
<1>12. CASE HubHello \/ HubClose \/ LinkBreaks \/ AgentWelcome \/ HelloFails \/ AgentDrops \/
        AgentCloses \/ (\E d \in Devices : DeviceStart(d)) \/
        (\E d \in Devices : DeviceStarted(d)) \/ (\E d \in Devices : DeviceStop(d)) \/
        (\E d \in Devices : DeviceNeverStarts(d)) \/ (\E d \in Devices : DeviceStopped(d)) \/
        (\E d \in Devices : DeviceStopExpires(d)) \/ (\E d \in Devices : ReceiverStarts(d)) \/
        (\E d \in Devices : ReceiverExits(d)) \/ UNCHANGED agentVars
  <2>1. UNCHANGED <<toHub, worker>>
    BY <1>12, Zenon DEF HubHello, HubClose, LinkBreaks, AgentWelcome, HelloFails, AgentDrops,
        AgentCloses, DeviceStart, DeviceStarted, DeviceStop, DeviceNeverStarts, DeviceStopped,
        DeviceStopExpires, ReceiverStarts, ReceiverExits, agentVars, serverVars, linkVars,
        clientVars, workerVars, sessionVars
  <2> QED BY <2>1, Zenon DEF AgentInv, MapInv, InMap
<1> QED BY <1>1, <1>2, <1>3, <1>4, <1>5, <1>6, <1>7, <1>8, <1>9, <1>10, <1>11, <1>12, Zenon DEF
    AgentNext

\* A failed cleanup stays ahead of the answer to a later "stop".
LEMMA StoppedStep ==
    ASSUME AgentInv, [AgentNext]_agentVars
    PROVE  StoppedInv'
<1> SUFFICES ASSUME NEW i \in 1 .. Len(toHub'), NEW e \in (receiver' \cap sessions') \ overtaken',
                    toHub'[i].type = "stopped", toHub'[i].of = e, toHub'[i].clean = TRUE
             PROVE  \E j \in 1 .. Len(toHub') : j < i /\ SaysUnclean(j, e)'
    BY Zenon DEF StoppedInv
<1>1. CASE Dial
    BY <1>1 DEF Dial
<1>2. CASE HubDisconnect
    BY <1>2, Zenon DEF HubDisconnect
<1>3. CASE AgentStarts
  <2>1. Grown(toHub, toHub', {[type |-> "failed", of |-> Head(toAgent).of]})
    BY <1>3, Mail, Zenon DEF AgentInv
  <2>2. UNCHANGED <<receiver, sessions, overtaken>>
    BY <1>3, ZenonT(60) DEF AgentStarts, serverVars
  <2>8. i \in 1 .. Len(toHub) /\ toHub'[i] = toHub[i] /\ e \in (receiver \cap sessions) \ overtaken
    BY <2>1, <2>2 DEF Grown, AgentInv, AgentTypeOK
  <2>9. PICK j \in 1 .. Len(toHub) : j < i /\ SaysUnclean(j, e)
    BY <2>8, ZenonT(60) DEF AgentInv, StoppedInv
  <2>10. j \in 1 .. Len(toHub') /\ toHub'[j] = toHub[j]
    BY <2>8, <2>9, <2>1 DEF Grown, AgentInv, AgentTypeOK
  <2> QED BY <2>9, <2>10, Zenon DEF SaysUnclean
<1>4. CASE AgentStops
  <2>1. Grown(toHub, toHub', {[type |-> "stopped", of |-> Head(toAgent).of, clean |-> TRUE]})
    BY <1>4, Mail, Zenon DEF AgentInv
  <2>2. UNCHANGED <<receiver, sessions, worker, unclean>> /\ overtaken \subseteq overtaken' /\
          agent = "up"
    BY <1>4, Zenon DEF AgentStops, serverVars
  <2>3. e \in (receiver \cap sessions) \ overtaken
    BY <2>2, Zenon
  <2>4. CASE i \in 1 .. Len(toHub)
    <3>1. toHub'[i] = toHub[i]
      BY <2>1, <2>4, Zenon DEF Grown
    <3>2. PICK j \in 1 .. Len(toHub) : j < i /\ SaysUnclean(j, e)
      BY <2>3, <2>4, <3>1, ZenonT(60) DEF AgentInv, StoppedInv
    <3>3. j \in 1 .. Len(toHub') /\ toHub'[j] = toHub[j]
      BY <2>1, <3>2 DEF Grown, AgentInv, AgentTypeOK
    <3> QED BY <3>2, <3>3, Zenon DEF SaysUnclean
  <2>5. CASE i \notin 1 .. Len(toHub)
    <3>1. toHub'[i].of = Head(toAgent).of /\ toHub' # toHub /\ ~linkDown /\ i > Len(toHub)
      BY <2>1, <2>5 DEF Grown, AgentInv, AgentTypeOK
    <3>2. e \notin InMap /\ ~(worker[e] = "report" /\ e \in unclean)
      BY <1>4, <2>3, <3>1, Zenon DEF AgentStops
    <3>3. e \in Devices /\ worker[e] \in {"none", "report"}
      BY <2>3, <3>2, Zenon DEF InMap, AgentInv, AgentTypeOK
    <3>4. sconn[e] = gen
      BY <2>3, Zenon DEF AgentInv, LinkInv
    <3>5. worker[e] = "none" /\ e \in unclean
      BY <2>2, <2>3, <3>2, <3>3, <3>4, Zenon DEF AgentInv, WorkerInv
    <3>6. PICK j \in 1 .. Len(toHub) : SaysUnclean(j, e)
      BY <2>2, <2>3, <3>1, <3>5, ZenonT(60) DEF AgentInv, UncleanInv
    <3>7. j \in 1 .. Len(toHub') /\ toHub'[j] = toHub[j] /\ j < i
      BY <2>1, <3>1, <3>6, SMTT(30) DEF Grown, AgentInv, AgentTypeOK
    <3> QED BY <3>6, <3>7, ZenonT(60) DEF SaysUnclean
  <2> QED BY <2>4, <2>5, Zenon
<1>5. ASSUME NEW reboot \in BOOLEAN, AgentRestarts(reboot) 
      PROVE  \E j \in 1 .. Len(toHub') : j < i /\ SaysUnclean(j, e)'
  <2>1. receiver' \subseteq receiver /\ UNCHANGED <<toHub, sessions, overtaken>>
    BY <1>5, Zenon DEF AgentRestarts, serverVars
  <2>8. i \in 1 .. Len(toHub) /\ toHub'[i] = toHub[i] /\ e \in (receiver \cap sessions) \ overtaken
    BY <2>1, Zenon
  <2>9. PICK j \in 1 .. Len(toHub) : j < i /\ SaysUnclean(j, e)
    BY <2>8, ZenonT(60) DEF AgentInv, StoppedInv
  <2> QED BY <2>1, <2>9, Zenon DEF SaysUnclean
<1>6. CASE HubFailed
  <2>1. toHub # <<>> /\ toHub' = Tail(toHub) /\ UNCHANGED <<receiver, overtaken, sessions>>
    BY <1>6, Zenon DEF HubFailed, workerVars, serverVars
  <2>2. /\ i + 1 \in 1 .. Len(toHub) /\ toHub'[i] = toHub[i + 1]
        /\ 1 \in 1 .. Len(toHub) /\ Head(toHub) = toHub[1]
    BY <2>1 DEF AgentInv, AgentTypeOK
  <2>3. Head(toHub).type # "stopped"
    BY <1>6, Zenon DEF HubFailed
  <2>4. e \in (receiver \cap sessions) \ overtaken
    BY <2>1, Zenon
  <2>5. PICK j \in 1 .. Len(toHub) : j < i + 1 /\ SaysUnclean(j, e)
    BY <2>1, <2>2, <2>4, Zenon DEF AgentInv, StoppedInv
  <2>6. j # 1
    BY <2>2, <2>3, <2>5, ZenonT(60) DEF SaysUnclean
  <2>7. j - 1 \in 1 .. Len(toHub') /\ toHub'[j - 1] = toHub[j] /\ j - 1 < i
    BY <2>1, <2>2, <2>5, <2>6, SMTT(30) DEF AgentInv, AgentTypeOK
  <2> QED BY <2>5, <2>7, Zenon DEF SaysUnclean
<1>7. CASE HubStopped
  <2>1. toHub # <<>> /\ toHub' = Tail(toHub) /\ UNCHANGED <<receiver, overtaken>>
    BY <1>7, Zenon DEF HubStopped, workerVars
  <2>2. /\ i + 1 \in 1 .. Len(toHub) /\ toHub'[i] = toHub[i + 1]
        /\ 1 \in 1 .. Len(toHub) /\ Head(toHub) = toHub[1]
    BY <2>1, SMTT(30) DEF AgentInv, AgentTypeOK
  <2>3. Head(toHub).of # e
    BY <1>7 DEF HubStopped, Complete
  <2>4. e \in (receiver \cap sessions) \ overtaken
    BY <1>7, <2>1, Zenon DEF HubStopped, Complete
  <2>5. PICK j \in 1 .. Len(toHub) : j < i + 1 /\ SaysUnclean(j, e)
    BY <2>1, <2>2, <2>4, Zenon DEF AgentInv, StoppedInv
  <2>6. j # 1
    BY <2>2, <2>3, <2>5, ZenonT(60) DEF SaysUnclean
  <2>7. j - 1 \in 1 .. Len(toHub') /\ toHub'[j - 1] = toHub[j] /\ j - 1 < i
    BY <2>1, <2>2, <2>5, <2>6, SMTT(30) DEF AgentInv, AgentTypeOK
  <2> QED BY <2>5, <2>7, Zenon DEF SaysUnclean
<1>8. ASSUME NEW d \in Devices, DeviceStart(d) 
      PROVE  \E j \in 1 .. Len(toHub') : j < i /\ SaysUnclean(j, e)'
  <2>1. sessions' \subseteq sessions \cup {d} /\ UNCHANGED <<toHub, receiver, overtaken>> /\
          device[d] = "idle"
    BY <1>8, Zenon DEF DeviceStart, workerVars
  <2>2. e # d
    BY <2>1, Zenon DEF AgentInv, IdleInv
  <2>8. i \in 1 .. Len(toHub) /\ toHub'[i] = toHub[i] /\ e \in (receiver \cap sessions) \ overtaken
    BY <2>1, <2>2, Zenon
  <2>9. PICK j \in 1 .. Len(toHub) : j < i /\ SaysUnclean(j, e)
    BY <2>8, ZenonT(60) DEF AgentInv, StoppedInv
  <2> QED BY <2>1, <2>9, Zenon DEF SaysUnclean
<1>9. ASSUME NEW d \in Devices, ReceiverStarts(d) 
      PROVE  \E j \in 1 .. Len(toHub') : j < i /\ SaysUnclean(j, e)'
  <2>1. receiver' = receiver \cup {d} /\ UNCHANGED <<toHub, sessions, overtaken>> /\ d \in InMap
    BY <1>9, Zenon DEF ReceiverStarts, serverVars, linkVars, InMap
  <2>2. e # d
    BY <2>1, Zenon DEF AgentInv, MapInv
  <2>8. i \in 1 .. Len(toHub) /\ toHub'[i] = toHub[i] /\ e \in (receiver \cap sessions) \ overtaken
    BY <2>1, <2>2, Zenon
  <2>9. PICK j \in 1 .. Len(toHub) : j < i /\ SaysUnclean(j, e)
    BY <2>8, ZenonT(60) DEF AgentInv, StoppedInv
  <2> QED BY <2>1, <2>9, Zenon DEF SaysUnclean
<1>10. ASSUME NEW d \in Devices, ReceiverStops(d) 
      PROVE  \E j \in 1 .. Len(toHub') : j < i /\ SaysUnclean(j, e)'
  <2>1. receiver' \subseteq receiver /\ UNCHANGED <<toHub, sessions, overtaken>>
    BY <1>10, Zenon DEF ReceiverStops, serverVars, linkVars
  <2>8. i \in 1 .. Len(toHub) /\ toHub'[i] = toHub[i] /\ e \in (receiver \cap sessions) \ overtaken
    BY <2>1, Zenon
  <2>9. PICK j \in 1 .. Len(toHub) : j < i /\ SaysUnclean(j, e)
    BY <2>8, ZenonT(60) DEF AgentInv, StoppedInv
  <2> QED BY <2>1, <2>9, Zenon DEF SaysUnclean
<1>11. ASSUME NEW d \in Devices, WorkerReports(d) 
      PROVE  \E j \in 1 .. Len(toHub') : j < i /\ SaysUnclean(j, e)'
  <2>1. Grown(toHub, toHub', {[type |-> "failed", of |-> d],
                [type |-> "stopped", of |-> d, clean |-> d \notin unclean]})
    BY <1>11, Mail, Zenon DEF AgentInv
  <2>2. UNCHANGED <<receiver, sessions, overtaken>> /\ worker[d] = "report"
    BY <1>11, Zenon DEF WorkerReports, serverVars
  <2>3. e = d => d \in unclean
    BY <2>2, ZenonT(60) DEF AgentInv, WorkerInv
  <2>4. i \in 1 .. Len(toHub) \/ toHub'[i] = [type |-> "failed", of |-> d] \/
            toHub'[i] = [type |-> "stopped", of |-> d, clean |-> d \notin unclean]
    BY <2>1, SMTT(30) DEF Grown, AgentInv, AgentTypeOK
  <2>5. i \in 1 .. Len(toHub)
    <3>1. CASE toHub'[i] = [type |-> "failed", of |-> d]
      BY <3>1
    <3>2. CASE toHub'[i] = [type |-> "stopped", of |-> d, clean |-> d \notin unclean]
      <4>1. toHub'[i].of = d /\ toHub'[i].clean = (d \notin unclean)
        BY <3>2
      <4>2. d \notin unclean
        BY <4>1, Zenon
      <4> QED BY <2>3, <4>1, <4>2, Zenon
    <3> QED BY <2>4, <3>1, <3>2, Zenon
  <2>8. i \in 1 .. Len(toHub) /\ toHub'[i] = toHub[i] /\ e \in (receiver \cap sessions) \ overtaken
    BY <2>1, <2>2, <2>5, ZenonT(60) DEF Grown
  <2>9. PICK j \in 1 .. Len(toHub) : j < i /\ SaysUnclean(j, e)
    BY <2>8, ZenonT(60) DEF AgentInv, StoppedInv
  <2>10. j \in 1 .. Len(toHub') /\ toHub'[j] = toHub[j]
    BY <2>8, <2>9, <2>1 DEF Grown, AgentInv, AgentTypeOK
  <2> QED BY <2>9, <2>10, Zenon DEF SaysUnclean
<1>12. ASSUME NEW d \in Devices, ReceiverExits(d) 
      PROVE  \E j \in 1 .. Len(toHub') : j < i /\ SaysUnclean(j, e)'
  <2>1. receiver' \subseteq receiver /\ UNCHANGED <<toHub, sessions, overtaken>>
    BY <1>12, Zenon DEF ReceiverExits, serverVars, linkVars
  <2>8. i \in 1 .. Len(toHub) /\ toHub'[i] = toHub[i] /\ e \in (receiver \cap sessions) \ overtaken
    BY <2>1, Zenon
  <2>9. PICK j \in 1 .. Len(toHub) : j < i /\ SaysUnclean(j, e)
    BY <2>8, ZenonT(60) DEF AgentInv, StoppedInv
  <2> QED BY <2>1, <2>9, Zenon DEF SaysUnclean
<1>13. CASE HubHello \/ HubClose \/ LinkBreaks \/ AgentWelcome \/ HelloFails \/ AgentDrops \/
        AgentCloses \/ (\E d \in Devices : DeviceStarted(d)) \/
        (\E d \in Devices : DeviceStop(d)) \/ (\E d \in Devices : DeviceNeverStarts(d)) \/
        (\E d \in Devices : DeviceStopped(d)) \/ (\E d \in Devices : DeviceStopExpires(d)) \/
        (\E d \in Devices : UploadStarts(d)) \/ (\E d \in Devices : WorkerEnds(d)) \/
        UNCHANGED agentVars
  <2>1. UNCHANGED <<toHub, receiver, sessions, overtaken>>
    BY <1>13, Zenon DEF HubHello, HubClose, LinkBreaks, AgentWelcome, HelloFails, AgentDrops,
        AgentCloses, DeviceStarted, DeviceStop, DeviceNeverStarts, DeviceStopped,
        DeviceStopExpires, UploadStarts, WorkerEnds, agentVars, serverVars, linkVars,
        clientVars, workerVars, sessionVars
  <2>8. i \in 1 .. Len(toHub) /\ toHub'[i] = toHub[i] /\ e \in (receiver \cap sessions) \ overtaken
    BY <2>1, Zenon
  <2>9. PICK j \in 1 .. Len(toHub) : j < i /\ SaysUnclean(j, e)
    BY <2>8, ZenonT(60) DEF AgentInv, StoppedInv
  <2> QED BY <2>1, <2>9, Zenon DEF SaysUnclean
<1> QED BY <1>1, <1>2, <1>3, <1>4, <1>5, <1>6, <1>7, <1>8, <1>9, <1>10, <1>11, <1>12, <1>13,
    Zenon DEF AgentNext

\* Every step keeps the types.
LEMMA TypeStep ==
    ASSUME AgentTypeOK, [AgentNext]_agentVars
    PROVE  AgentTypeOK'
<1>1. CASE Dial
  <2>1. gen + 1 \in 1 .. MaxGen /\ gen' = gen + 1 /\ gen' \in Gens
    BY <1>1, AgentAssumption DEF Dial, AgentTypeOK, Gens
  <2>2. peer' \in [1 .. MaxGen -> Identities]
    BY <1>1, <2>1, Zenon DEF Dial, AgentTypeOK
  <2>3. toAgent' \in Seq(Message) /\ toHub' \in Seq(Message)
    BY <1>1 DEF Dial
  <2> QED BY <1>1, <2>1, <2>2, <2>3, Zenon DEF Dial, AgentTypeOK, workerVars, sessionVars
<1>2. CASE HubHello
  <2>1. toAgent' \in Seq(Message)
    BY <1>2, Mail, Zenon DEF Grown
  <2>2. quarantined' \in Gens /\ reported' \in Gens
    BY <1>2, AgentAssumption DEF HubHello, AgentTypeOK, Gens
  <2> QED BY <1>2, <2>1, <2>2, Zenon DEF HubHello, AgentTypeOK, clientVars, workerVars, sessionVars
<1>3. CASE HubDisconnect
  <2>1. streamReady' \in [Devices -> {"none", "ok", "error"}]
    BY <1>3, Zenon DEF HubDisconnect, SignalReady, AgentTypeOK
  <2>2. quarantined' \in Gens /\ reported' \in Gens /\ toHub' \in Seq(Message)
    BY <1>3, AgentAssumption DEF HubDisconnect, AgentTypeOK, Gens
  <2> QED BY <1>3, <2>1, <2>2, Zenon DEF HubDisconnect, AgentTypeOK, clientVars, workerVars
<1>4. CASE HubClose
    BY <1>4, Zenon DEF HubClose, AgentTypeOK, Gens, InMap, Complete, SignalReady, Identities,
        clientVars, workerVars, sessionVars
<1>5. CASE LinkBreaks
    BY <1>5, Zenon DEF LinkBreaks, AgentTypeOK, Gens, InMap, Complete, SignalReady,
        Identities, serverVars, clientVars, workerVars, sessionVars
<1>6. CASE AgentWelcome
  <2>1. toAgent # <<>> /\ toAgent' = Tail(toAgent)
    BY <1>6, Zenon DEF AgentWelcome
  <2>2. toAgent' \in Seq(Message)
    BY <2>1, SMTT(30) DEF AgentTypeOK
  <2> QED BY <1>6, <2>2, Zenon DEF AgentWelcome, AgentTypeOK, InMap, serverVars, workerVars,
      sessionVars
<1>7. CASE HelloFails
    BY <1>7, SMTT(30) DEF HelloFails, AgentTypeOK, Gens, InMap, Complete, SignalReady,
        Identities, serverVars, workerVars, sessionVars
<1>8. CASE AgentStarts
  <2>1. toAgent # <<>> /\ toAgent' = Tail(toAgent)
    BY <1>8, Zenon DEF AgentStarts
  <2>2. toAgent' \in Seq(Message)
    BY <2>1 DEF AgentTypeOK
  <2>3. toHub' \in Seq(Message)
    BY <1>8, Mail, Zenon DEF Grown, AgentTypeOK
  <2> QED BY <1>8, <2>2, <2>3, Zenon DEF AgentStarts, AgentTypeOK, InMap, serverVars, clientVars,
        sessionVars
<1>9. CASE AgentStops
  <2>1. toAgent # <<>> /\ toAgent' = Tail(toAgent)
    BY <1>9, Zenon DEF AgentStops
  <2>2. toAgent' \in Seq(Message)
    BY <2>1 DEF AgentTypeOK
  <2>3. toHub' \in Seq(Message)
    BY <1>9, Mail, Zenon DEF Grown, AgentTypeOK
  <2> QED BY <1>9, <2>2, <2>3, ZenonT(60) DEF AgentStops, AgentTypeOK, InMap, serverVars,
      clientVars, sessionVars
<1>10. CASE AgentDrops
    BY <1>10, SMTT(30) DEF AgentDrops, AgentTypeOK, Gens, InMap, Complete, SignalReady,
        Identities, serverVars, sessionVars
<1>11. CASE AgentCloses
    BY <1>11, ZenonT(60) DEF AgentCloses, AgentTypeOK, Gens, InMap, Complete, SignalReady,
        Identities, serverVars, linkVars, workerVars, sessionVars
<1>12. ASSUME NEW reboot \in BOOLEAN, AgentRestarts(reboot) PROVE AgentTypeOK'
    BY <1>12, AgentAssumption, SMTT(30) DEF AgentRestarts, AgentTypeOK, Gens, InMap, Complete,
        SignalReady, Identities, serverVars, sessionVars
<1>13. CASE HubFailed
    BY <1>13, SMTT(30) DEF HubFailed, AgentTypeOK, Gens, InMap, Complete, SignalReady,
        Identities, serverVars, clientVars, workerVars
<1>14. CASE HubStopped
  <2>1. streamReady' \in [Devices -> {"none", "ok", "error"}]
    BY <1>14, ZenonT(60) DEF HubStopped, Complete, SignalReady, AgentTypeOK
  <2>2. toHub # <<>> /\ toHub' = Tail(toHub)
    BY <1>14, Zenon DEF HubStopped
  <2>3. toHub' \in Seq(Message)
    BY <2>2, SMTT(30) DEF AgentTypeOK
  <2>4. quarantined' \in Gens
    BY <1>14, AgentAssumption DEF HubStopped, Complete, AgentTypeOK, Gens
  <2>5. sessions' \subseteq Devices /\ doneClosed' \subseteq Devices /\ cleaned' \subseteq Devices
    BY <1>14, Zenon DEF HubStopped, Complete, AgentTypeOK
  <2> QED BY <1>14, <2>1, <2>3, <2>4, <2>5, Zenon DEF HubStopped, AgentTypeOK, clientVars,
      workerVars
<1>15. ASSUME NEW d \in Devices, DeviceStart(d) PROVE AgentTypeOK'
  <2>1. toAgent' \in Seq(Message)
    BY <1>15, Mail, ZenonT(60) DEF Grown
  <2>2. streamReady' \in [Devices -> {"none", "ok", "error"}]
    BY <1>15 DEF DeviceStart, SignalReady, AgentTypeOK
  <2>3. /\ sessions' \subseteq Devices /\ doneClosed' \subseteq Devices /\
            cleaned' \subseteq Devices
        /\ sconn' \in [Devices -> Gens]
    BY <1>15, ZenonT(60) DEF DeviceStart, AgentTypeOK
  <2>4. device' \in [Devices -> {"idle", "starting", "running", "stopping", "over"}]
    BY <1>15, Zenon DEF DeviceStart, AgentTypeOK
  <2> QED BY <1>15, <2>1, <2>2, <2>3, <2>4, Zenon DEF DeviceStart, AgentTypeOK, clientVars,
      workerVars
<1>16. ASSUME NEW d \in Devices, DeviceStarted(d) PROVE AgentTypeOK'
    BY <1>16, Zenon DEF DeviceStarted, AgentTypeOK, Gens, InMap, Complete, SignalReady,
        Identities, serverVars, linkVars, clientVars, workerVars
<1>17. ASSUME NEW d \in Devices, DeviceStop(d) PROVE AgentTypeOK'
  <2>1. toAgent' \in Seq(Message)
    BY <1>17, Mail, Zenon DEF Grown, AgentTypeOK
  <2> QED BY <1>17, <2>1, Zenon DEF DeviceStop, AgentTypeOK, Available, InMap, SignalReady,
      serverVars, clientVars, workerVars
<1>18. ASSUME NEW d \in Devices, DeviceNeverStarts(d) PROVE AgentTypeOK'
    BY <1>18, Zenon DEF DeviceNeverStarts, AgentTypeOK, Gens, InMap, Complete, SignalReady,
        Identities, serverVars, linkVars, clientVars, workerVars
<1>19. ASSUME NEW d \in Devices, DeviceStopped(d) PROVE AgentTypeOK'
    BY <1>19, Zenon DEF DeviceStopped, AgentTypeOK, Gens, InMap, Complete, SignalReady,
        Identities, serverVars, linkVars, clientVars, workerVars
<1>20. ASSUME NEW d \in Devices, DeviceStopExpires(d) PROVE AgentTypeOK'
    BY <1>20, Zenon DEF DeviceStopExpires, AgentTypeOK, Gens, InMap, Complete, SignalReady,
        Identities, linkVars, clientVars, workerVars
<1>21. ASSUME NEW d \in Devices, ReceiverStarts(d) PROVE AgentTypeOK'
    BY <1>21, Zenon DEF ReceiverStarts, AgentTypeOK, Gens, InMap, Complete, SignalReady,
        Identities, serverVars, linkVars, clientVars, sessionVars
<1>22. ASSUME NEW d \in Devices, UploadStarts(d) PROVE AgentTypeOK'
    BY <1>22, Zenon DEF UploadStarts, AgentTypeOK, Gens, InMap, Complete, SignalReady,
        Identities, serverVars, linkVars, clientVars
<1>23. ASSUME NEW d \in Devices, WorkerEnds(d) PROVE AgentTypeOK'
    BY <1>23, Zenon DEF WorkerEnds, AgentTypeOK, Gens, InMap, Complete, SignalReady,
        Identities, serverVars, linkVars, clientVars
<1>24. ASSUME NEW d \in Devices, ReceiverStops(d) PROVE AgentTypeOK'
    BY <1>24, Zenon DEF ReceiverStops, AgentTypeOK, Gens, InMap, Complete, SignalReady,
        Identities, serverVars, linkVars, clientVars, sessionVars
<1>25. ASSUME NEW d \in Devices, WorkerReports(d) PROVE AgentTypeOK'
  <2>1. toHub' \in Seq(Message)
    BY <1>25, Mail, Zenon DEF Grown, AgentTypeOK
  <2> QED BY <1>25, <2>1, Zenon DEF WorkerReports, AgentTypeOK, Available, InMap, SignalReady,
      serverVars, clientVars, sessionVars
<1>26. ASSUME NEW d \in Devices, ReceiverExits(d) PROVE AgentTypeOK'
    BY <1>26, Zenon DEF ReceiverExits, AgentTypeOK, Gens, InMap, Complete, SignalReady,
        Identities, serverVars, linkVars, clientVars, sessionVars
<1>27. CASE UNCHANGED agentVars
  <2>1. UNCHANGED <<conn, reported, peer, sessions, quarantined, hubClosed, gen, linkDown,
                       toAgent, toHub, agent, identity, recovered, restarts, worker, stopAsked,
                       unclean, receiver, device, sconn, streamReady, doneClosed, cleaned,
                       overtaken>>
    BY <1>27, Zenon DEF agentVars, serverVars, linkVars, clientVars, workerVars, sessionVars
  <2> QED BY <2>1, Zenon DEF AgentTypeOK, Gens, InMap, Complete, SignalReady, Identities
<1> QED BY <1>1, <1>2, <1>3, <1>4, <1>5, <1>6, <1>7, <1>8, <1>9, <1>10, <1>11, <1>12, <1>13,
        <1>14, <1>15, <1>16, <1>17, <1>18, <1>19, <1>20, <1>21, <1>22, <1>23, <1>24, <1>25,
        <1>26, <1>27, Zenon DEF AgentNext

\* A failed cleanup stays on its way until the hub reads it.
LEMMA UncleanStep ==
    ASSUME AgentInv, [AgentNext]_agentVars
    PROVE  UncleanInv'
<1> SUFFICES ASSUME agent' = "up", ~linkDown',
        NEW e \in unclean' \cap sessions', worker'[e] = "none"
             PROVE  \E j \in 1 .. Len(toHub') : SaysUnclean(j, e)'
    BY Zenon DEF UncleanInv
<1>1. CASE Dial
    BY <1>1, Zenon DEF Dial
<1>2. CASE HubDisconnect
    BY <1>2, Zenon DEF HubDisconnect
<1>3. CASE HubClose
  <2>1. ~linkDown /\ UNCHANGED <<agent, unclean, sessions, worker, toHub>>
    BY <1>3, Zenon DEF HubClose, clientVars, workerVars
  <2> QED BY <2>1, Zenon DEF AgentInv, UncleanInv, SaysUnclean
<1>4. CASE LinkBreaks
    BY <1>4, Zenon DEF LinkBreaks
<1>5. CASE AgentWelcome
  <2>1. agent = "hello" /\ unclean' = unclean
    BY <1>5, Zenon DEF AgentWelcome, workerVars
  <2> QED BY <2>1, Zenon DEF AgentInv, LinkInv
<1>6. CASE HelloFails
    BY <1>6, Zenon DEF HelloFails
<1>7. CASE AgentStarts
  <2>1. Grown(toHub, toHub', {[type |-> "failed", of |-> Head(toAgent).of]})
    BY <1>7, Mail, Zenon DEF AgentInv
  <2>2. agent = "up" /\ ~linkDown /\ e \in unclean \cap sessions /\ worker[e] = "none"
    BY <1>7, Zenon DEF AgentStarts, serverVars, clientVars, AgentInv, AgentTypeOK
  <2>8. PICK j \in 1 .. Len(toHub) : SaysUnclean(j, e)
    BY <2>2, ZenonT(60) DEF AgentInv, UncleanInv
  <2>9. j \in 1 .. Len(toHub') /\ toHub'[j] = toHub[j]
    BY <2>1, <2>8 DEF Grown, AgentInv, AgentTypeOK
  <2> QED BY <2>8, <2>9, Zenon DEF SaysUnclean
<1>8. CASE AgentStops
  <2>1. Grown(toHub, toHub', {[type |-> "stopped", of |-> Head(toAgent).of, clean |-> TRUE]})
    BY <1>8, Mail, Zenon DEF AgentInv
  <2>2. agent = "up" /\ ~linkDown /\ e \in unclean \cap sessions /\ worker[e] = "none"
    BY <1>8, ZenonT(60) DEF AgentStops, serverVars, clientVars
  <2>8. PICK j \in 1 .. Len(toHub) : SaysUnclean(j, e)
    BY <2>2, Zenon DEF AgentInv, UncleanInv
  <2>9. j \in 1 .. Len(toHub') /\ toHub'[j] = toHub[j]
    BY <2>1, <2>8 DEF Grown, AgentInv, AgentTypeOK
  <2> QED BY <2>8, <2>9, Zenon DEF SaysUnclean
<1>9. CASE AgentDrops
    BY <1>9, Zenon DEF AgentDrops
<1>10. CASE AgentCloses
    BY <1>10, Zenon DEF AgentCloses
<1>11. ASSUME NEW reboot \in BOOLEAN, AgentRestarts(reboot) 
      PROVE  \E j \in 1 .. Len(toHub') : SaysUnclean(j, e)'
    BY <1>11, Zenon DEF AgentRestarts
<1>12. CASE HubFailed
  <2>1. toHub # <<>> /\ toHub' = Tail(toHub) /\ UNCHANGED <<agent, linkDown, unclean, worker>>
    BY <1>12, Zenon DEF HubFailed, workerVars, clientVars
  <2>2. e \in sessions
    BY <1>12, Zenon DEF HubFailed, Complete, serverVars
  <2>3. PICK j \in 1 .. Len(toHub) : SaysUnclean(j, e)
    BY <2>1, <2>2, Zenon DEF AgentInv, UncleanInv
  <2>4. Head(toHub) = toHub[1]
    BY <2>1 DEF AgentInv, AgentTypeOK
  <2>5. Head(toHub).type # "stopped"
    BY <1>12, Zenon DEF HubFailed
  <2>6. j # 1
    BY <2>3, <2>4, <2>5, Zenon DEF SaysUnclean
  <2>7. j - 1 \in 1 .. Len(toHub') /\ toHub'[j - 1] = toHub[j]
    BY <2>1, <2>3, <2>6 DEF AgentInv, AgentTypeOK
  <2> QED BY <2>3, <2>7, Zenon DEF SaysUnclean
<1>13. CASE HubStopped
  <2>1. toHub # <<>> /\ toHub' = Tail(toHub) /\ UNCHANGED <<agent, linkDown, unclean, worker>>
    BY <1>13, Zenon DEF HubStopped, workerVars, clientVars
  <2>2. e \in sessions
    BY <1>13, ZenonT(60) DEF HubStopped, Complete, serverVars
  <2>3. PICK j \in 1 .. Len(toHub) : SaysUnclean(j, e)
    BY <2>1, <2>2, Zenon DEF AgentInv, UncleanInv
  <2>4. Head(toHub) = toHub[1]
    BY <2>1 DEF AgentInv, AgentTypeOK
  <2>5. Head(toHub).of # e
    BY <1>13 DEF HubStopped, Complete
  <2>6. j # 1
    BY <2>3, <2>4, <2>5, ZenonT(60) DEF SaysUnclean
  <2>7. j - 1 \in 1 .. Len(toHub') /\ toHub'[j - 1] = toHub[j]
    BY <2>1, <2>3, <2>6 DEF AgentInv, AgentTypeOK
  <2> QED BY <2>3, <2>7, Zenon DEF SaysUnclean
<1>14. ASSUME NEW d \in Devices, DeviceStart(d) 
      PROVE  \E j \in 1 .. Len(toHub') : SaysUnclean(j, e)'
  <2>1. sessions' \subseteq sessions \cup {d} /\
          UNCHANGED <<agent, linkDown, toHub, unclean, worker>> /\ device[d] = "idle"
    BY <1>14, Zenon DEF DeviceStart, workerVars, clientVars
  <2>2. e # d
    BY <2>1, Zenon DEF AgentInv, IdleInv
  <2> QED BY <2>1, <2>2 DEF AgentInv, UncleanInv, SaysUnclean
<1>15. ASSUME NEW d \in Devices, UploadStarts(d) 
      PROVE  \E j \in 1 .. Len(toHub') : SaysUnclean(j, e)'
  <2>1. UNCHANGED <<agent, linkDown, sessions, toHub>> /\ worker'[d] # "none" /\
          unclean' \subseteq unclean \cup {d}
    BY <1>15, Zenon DEF UploadStarts, serverVars, linkVars, clientVars, AgentInv, AgentTypeOK
  <2>2. e # d /\ worker'[e] = worker[e] /\ e \in unclean
    BY <1>15, <2>1, Zenon DEF UploadStarts, AgentInv, AgentTypeOK
  <2> QED BY <2>1, <2>2 DEF AgentInv, UncleanInv, SaysUnclean
<1>16. ASSUME NEW d \in Devices, WorkerEnds(d) 
      PROVE  \E j \in 1 .. Len(toHub') : SaysUnclean(j, e)'
  <2>1. UNCHANGED <<agent, linkDown, sessions, toHub>> /\ worker'[d] # "none" /\
          unclean' \subseteq unclean \cup {d}
    BY <1>16, Zenon DEF WorkerEnds, serverVars, linkVars, clientVars, AgentInv, AgentTypeOK
  <2>2. e # d /\ worker'[e] = worker[e] /\ e \in unclean
    BY <1>16, <2>1, Zenon DEF WorkerEnds, AgentInv, AgentTypeOK
  <2> QED BY <2>1, <2>2 DEF AgentInv, UncleanInv, SaysUnclean
<1>17. ASSUME NEW d \in Devices, ReceiverStops(d) 
      PROVE  \E j \in 1 .. Len(toHub') : SaysUnclean(j, e)'
  <2>1. UNCHANGED <<agent, linkDown, sessions, toHub>> /\ worker'[d] # "none" /\
          unclean' \subseteq unclean \cup {d}
    BY <1>17, Zenon DEF ReceiverStops, serverVars, linkVars, clientVars, AgentInv, AgentTypeOK
  <2>2. e # d /\ worker'[e] = worker[e] /\ e \in unclean
    BY <1>17, <2>1, Zenon DEF ReceiverStops, AgentInv, AgentTypeOK
  <2> QED BY <2>1, <2>2 DEF AgentInv, UncleanInv, SaysUnclean
<1>18. ASSUME NEW d \in Devices, WorkerReports(d) 
      PROVE  \E j \in 1 .. Len(toHub') : SaysUnclean(j, e)'
  <2>1. Grown(toHub, toHub', {[type |-> "failed", of |-> d],
                [type |-> "stopped", of |-> d, clean |-> d \notin unclean]})
    BY <1>18, Mail, Zenon DEF AgentInv
  <2>3. UNCHANGED <<agent, linkDown, unclean, sessions>>
    BY <1>18, Zenon DEF WorkerReports, serverVars, clientVars
  <2>4. CASE e = d
    <3>1. toHub'[Len(toHub')] = [type |-> "stopped", of |-> d, clean |-> d \notin unclean] /\
            Len(toHub') > 0
      BY <1>18, <2>3, Mail, Zenon DEF AgentInv
    <3>2. toHub'[Len(toHub')].of = d /\ toHub'[Len(toHub')].type = "stopped"
      BY <3>1, SMTT(30)
    <3>3. toHub'[Len(toHub')].clean = (d \notin unclean)
      BY <3>1
    <3>4. toHub'[Len(toHub')].clean = FALSE
      BY <2>3, <2>4, <3>3, ZenonT(60)
    <3>5. Len(toHub') \in 1 .. Len(toHub')
      BY <2>1, <3>1 DEF Grown
    <3> QED BY <2>4, <3>2, <3>4, <3>5, Zenon DEF SaysUnclean
  <2>5. CASE e # d
    <3>1. worker[e] = "none"
      BY <1>18, <2>3, <2>5, Zenon DEF WorkerReports, AgentInv, AgentTypeOK
    <3>2. PICK j \in 1 .. Len(toHub) : SaysUnclean(j, e)
      BY <2>3, <3>1, ZenonT(60) DEF AgentInv, UncleanInv
    <3>3. j \in 1 .. Len(toHub') /\ toHub'[j] = toHub[j]
      BY <2>1, <3>2 DEF Grown, AgentInv, AgentTypeOK
    <3> QED BY <3>2, <3>3, Zenon DEF SaysUnclean
  <2> QED BY <2>4, <2>5, Zenon
<1>19. CASE HubHello \/ (\E d \in Devices : DeviceStarted(d)) \/
        (\E d \in Devices : DeviceStop(d)) \/ (\E d \in Devices : DeviceNeverStarts(d)) \/
        (\E d \in Devices : DeviceStopped(d)) \/ (\E d \in Devices : DeviceStopExpires(d)) \/
        (\E d \in Devices : ReceiverStarts(d)) \/ (\E d \in Devices : ReceiverExits(d)) \/
        UNCHANGED agentVars
  <2>1. UNCHANGED <<agent, linkDown, unclean, sessions, worker, toHub>>
    BY <1>19, Zenon DEF HubHello, DeviceStarted, DeviceStop, DeviceNeverStarts, DeviceStopped,
        DeviceStopExpires, ReceiverStarts, ReceiverExits, agentVars, serverVars, linkVars,
        clientVars, workerVars, sessionVars
  <2> QED BY <2>1, Zenon DEF AgentInv, UncleanInv, SaysUnclean
<1> QED BY <1>1, <1>2, <1>3, <1>4, <1>5, <1>6, <1>7, <1>8, <1>9, <1>10, <1>11, <1>12, <1>13,
        <1>14, <1>15, <1>16, <1>17, <1>18, <1>19, Zenon DEF AgentNext

\* The initial states have the invariant.
LEMMA InitInv == AgentInit => AgentInv
<1> SUFFICES ASSUME AgentInit PROVE AgentInv
    BY Zenon
<1>1. AgentTypeOK
  <2>1. 0 \in Gens /\ [inst |-> 0, boot |-> 0] \in Identities /\ identity \in Identities
    BY AgentAssumption, SMTT(30) DEF AgentInit, Gens, Identities
  <2>2. peer \in [1 .. MaxGen -> Identities] /\ restarts \in 0 .. MaxRestarts
    BY <2>1, AgentAssumption, SMTT(30) DEF AgentInit
  <2>3. toAgent \in Seq(Message) /\ toHub \in Seq(Message)
    BY DEF AgentInit
  <2>4. /\ worker \in [Devices -> {"none", "open", "upload", "stop", "report"}]
        /\ device \in [Devices -> {"idle", "starting", "running", "stopping", "over"}]
        /\ streamReady \in [Devices -> {"none", "ok", "error"}] /\ sconn \in [Devices -> Gens]
    BY <2>1, ZenonT(60) DEF AgentInit
  <2> QED BY <2>1, <2>2, <2>3, <2>4, Zenon DEF AgentInit, AgentTypeOK
<1>2. LinkInv /\ BootInv /\ WorkerInv /\ RecoveredInv /\ SessionInv
    BY SMTT(30) DEF AgentInit, LinkInv, BootInv, WorkerInv, RecoveredInv, SessionInv
<1>3. IdleInv /\ DeadInv /\ StartInv /\ MapInv /\ StoppedInv /\ UncleanInv
    BY SMTT(30) DEF AgentInit, IdleInv, DeadInv, StartInv, MapInv, StoppedInv, UncleanInv
<1>4. CoverInv
    BY DEF AgentInit, CoverInv, Alive, Starts, InMap
<1> QED BY <1>1, <1>2, <1>3, <1>4, Zenon DEF AgentInv

\* The invariant of the hub, the agent and the messages between them.
THEOREM AgentInvariant == AgentSpec => []AgentInv
<1>1. AgentInv /\ [AgentNext]_agentVars => AgentInv'
  <2> SUFFICES ASSUME AgentInv, [AgentNext]_agentVars PROVE AgentInv'
    BY Zenon
  <2>1. AgentTypeOK'
    BY TypeStep, Zenon DEF AgentInv
  <2> QED BY <2>1, LinkStep, IdleStep, BootStep, WorkerStep, RecoveredStep, DeadStep, SessionStep,
        CoverStep, StartStep, MapStep, StoppedStep, UncleanStep, Zenon DEF AgentInv
<1> QED BY <1>1, InitInv, PTL DEF AgentSpec

\* The hub offers a tuner only when nothing of it runs on the agent's host
\* (OfferedIsQuiet), but for a failed cleanup that was answered as clean.
THEOREM OfferCorrect == AgentSpec => []OfferedIsQuiet
<1>1. AgentInv => OfferedIsQuiet
  <2> SUFFICES ASSUME AgentInv, Available, sessions = {},
          NEW d \in receiver, d \notin overtaken PROVE FALSE
    BY Zenon DEF OfferedIsQuiet
  <2>1. d \in Devices \ overtaken /\ Alive(d)
    BY Zenon DEF AgentInv, AgentTypeOK, Alive
  <2>2. sconn[d] > 0 /\ quarantined = sconn[d]
    BY <2>1, Zenon DEF AgentInv, CoverInv
  <2> QED BY <2>2 DEF Available
<1> QED BY <1>1, AgentInvariant, PTL
=============================================================================
