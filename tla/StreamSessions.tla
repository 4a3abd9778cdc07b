--------------------------- MODULE StreamSessions ---------------------------
(***************************************************************************)
(* The stream manager: channel sessions found or created by key            *)
(* (internal/stream), the demuxer engine of a session                      *)
(* (internal/stream/fanout), and the broadcasts that share one tuner        *)
(* between the channels of a route (internal/stream/source).               *)
(*                                                                         *)
(* A client asks for one channel, streams it and leaves.  It creates at    *)
(* most one session and at most one broadcast, so a session or broadcast   *)
(* is named by the client that created it.  Tuner allocation is the        *)
(* subject of TunerManager; here AcquireDevice returns a device while a    *)
(* tuner is free, or an error.                                             *)
(***************************************************************************)
EXTENDS Integers, Sequences, FiniteSets

CONSTANTS
    Clients,        \* requests for a channel
    Waits,          \* those made with wait = true
    Keys,           \* public channels: session keys
    RouteIds,       \* route source keys
    Key,            \* the channel each client asks for
    Routes,         \* the enabled local routes of each channel, in order
    NumTuners,      \* tuners shared by all routes
    ShutsDown,      \* whether Shutdown may be called
    NoOne

ASSUME StreamAssumption ==
    /\ Waits \subseteq Clients
    /\ Key \in [Clients -> Keys]
    /\ Routes \in [Keys -> Seq(RouteIds)]
    /\ \A k \in Keys : Len(Routes[k]) > 0
    /\ NumTuners \in Nat
    /\ ShutsDown \in BOOLEAN
    /\ NoOne \notin Clients

VARIABLES
    \* one GetOrCreate followed by ChannelStream
    pc, attempt, session, routeAt, busy,
    \* sessionRegistry: sessions and creates by key, results of the creates
    registry, creates, outcome, shuttingDown,
    \* a session, its raw demuxer engine and the engine's source goroutine
    source, stopped, engine, subs, src,
    \* Pool: broadcasts by route and creates in flight
    routeSources, routeCreates,
    \* a Broadcast and its tuner device
    route, refs, starting, bStopped, stopping, late, device,
    \* Manager.Shutdown
    sd, sdLeft, sdNow, sdExpired

clientVars == <<pc, attempt, session, routeAt, busy>>
registryVars == <<registry, creates, outcome, shuttingDown>>
sessionVars == <<source, stopped, engine, subs, src>>
poolVars == <<routeSources, routeCreates>>
broadcastVars == <<route, refs, starting, bStopped, stopping, late, device>>
sdVars == <<sd, sdLeft, sdNow, sdExpired>>
vars == <<clientVars, registryVars, sessionVars, poolVars, broadcastVars, sdVars>>

MaxAttempts == 3

Answered == {"streaming", "served", "refused"}
PCs == {"idle", "retry", "check", "evict", "pending", "route", "device",
        "commit", "finish", "pause", "complete", "open", "subscribe"} \cup Answered
Some == Clients \cup {NoOne}

RequestTypes ==
    /\ pc \in [Clients -> PCs]
    /\ attempt \in [Clients -> 0 .. MaxAttempts]
    /\ session \in [Clients -> Some]
    /\ routeAt \in [Clients -> Nat \ {0}]
    /\ \A c \in Clients : routeAt[c] <= Len(Routes[Key[c]])
    /\ busy \subseteq Clients
RegistryTypes ==
    /\ registry \in [Keys -> Some]
    /\ creates \in [Keys -> Some]
    /\ outcome \in [Clients -> {"none", "ok", "err"}]
    /\ shuttingDown \in BOOLEAN
SessionTypes ==
    /\ source \in [Clients -> Some]
    /\ stopped \subseteq Clients
    /\ engine \in [Clients -> {"none", "idle", "running", "stopping", "closing", "closed"}]
    /\ subs \in [Clients -> SUBSET Clients]
    /\ src \in [Clients -> {"none", "attach", "ready", "wait", "detach", "stop",
                            "stopping", "returned", "closed"}]
PoolTypes ==
    /\ routeSources \in [RouteIds -> Some]
    /\ routeCreates \in [RouteIds -> Some]
BroadcastTypes ==
    /\ route \in [Clients -> RouteIds \cup {NoOne}]
    /\ refs \in [Clients -> Nat]
    /\ starting \in [Clients -> {"no", "starting", "ok", "failed"}]
    /\ bStopped \subseteq Clients
    /\ stopping \in [Clients -> {"no", "device", "remove", "done"}]
    /\ late \subseteq Clients
    /\ device \in [Clients -> {"none", "reserved", "started", "ended", "stopped"}]
ShutdownTypes ==
    /\ sd \in {"no", "creates", "sessions", "sources", "done"}
    /\ sdLeft \subseteq Clients
    /\ sdNow \in Some
    /\ sdExpired \in BOOLEAN

TypeOK == /\ RequestTypes /\ RegistryTypes /\ SessionTypes
          /\ PoolTypes /\ BroadcastTypes /\ ShutdownTypes

Init ==
    /\ pc = [c \in Clients |-> "idle"]
    /\ attempt = [c \in Clients |-> 0]
    /\ session = [c \in Clients |-> NoOne]
    /\ routeAt = [c \in Clients |-> 1]
    /\ busy = {}
    /\ registry = [k \in Keys |-> NoOne]
    /\ creates = [k \in Keys |-> NoOne]
    /\ outcome = [c \in Clients |-> "none"]
    /\ shuttingDown = FALSE
    /\ source = [c \in Clients |-> NoOne]
    /\ stopped = {}
    /\ engine = [c \in Clients |-> "none"]
    /\ subs = [c \in Clients |-> {}]
    /\ src = [c \in Clients |-> "none"]
    /\ routeSources = [r \in RouteIds |-> NoOne]
    /\ routeCreates = [r \in RouteIds |-> NoOne]
    /\ route = [c \in Clients |-> NoOne]
    /\ refs = [c \in Clients |-> 0]
    /\ starting = [c \in Clients |-> "no"]
    /\ bStopped = {}
    /\ stopping = [c \in Clients |-> "no"]
    /\ late = {}
    /\ device = [c \in Clients |-> "none"]
    /\ sd = "no" /\ sdLeft = {} /\ sdNow = NoOne /\ sdExpired = FALSE

(***************************************************************************)
(* Manager.getOrCreate                                                     *)
(***************************************************************************)
Goto(c, p) == pc' = [pc EXCEPT ![c] = p]

\* registry.acquire: a session, a refusal, an in-flight create, or a new one.
Acquire(c) ==
    LET k == Key[c] IN
    /\ pc[c] \in {"idle", "retry"}
    /\ \/ /\ registry[k] # NoOne
          /\ session' = [session EXCEPT ![c] = registry[k]]
          /\ Goto(c, "check")
          /\ UNCHANGED creates
       \/ /\ registry[k] = NoOne /\ shuttingDown
          /\ Goto(c, "refused")
          /\ UNCHANGED <<session, creates>>
       \/ /\ registry[k] = NoOne /\ ~shuttingDown /\ creates[k] # NoOne
          /\ session' = [session EXCEPT ![c] = creates[k]]
          /\ Goto(c, "pending")
          /\ UNCHANGED creates
       \/ /\ registry[k] = NoOne /\ ~shuttingDown /\ creates[k] = NoOne
          /\ creates' = [creates EXCEPT ![k] = c]
          /\ Goto(c, "route")
          /\ UNCHANGED session
    /\ UNCHANGED <<attempt, routeAt, busy, registry, outcome, shuttingDown,
                   sessionVars, poolVars, broadcastVars, sdVars>>

\* Alive(): neither the session nor its demuxer has stopped.
Alive(s) == s \notin stopped /\ engine[s] \in {"idle", "running"}

CheckAlive(c) ==
    /\ pc[c] = "check"
    /\ Goto(c, IF Alive(session[c]) THEN "open" ELSE "evict")
    /\ UNCHANGED <<attempt, session, routeAt, busy, registryVars, sessionVars,
                   poolVars, broadcastVars, sdVars>>

\* removeIfSame, and the next attempt.
Evict(c) ==
    LET k == Key[c] IN
    /\ pc[c] = "evict"
    /\ registry' = IF registry[k] = session[c]
                   THEN [registry EXCEPT ![k] = NoOne] ELSE registry
    /\ attempt' = [attempt EXCEPT ![c] = @ + 1]
    /\ Goto(c, IF attempt[c] + 1 < MaxAttempts THEN "retry" ELSE "refused")
    /\ UNCHANGED <<session, routeAt, busy, creates, outcome, shuttingDown,
                   sessionVars, poolVars, broadcastVars, sdVars>>

\* The create another request started has finished.
Joined(c) ==
    /\ pc[c] = "pending"
    /\ outcome[session[c]] # "none"
    /\ Goto(c, IF outcome[session[c]] = "ok" THEN "open" ELSE "refused")
    /\ UNCHANGED <<attempt, session, routeAt, busy, registryVars, sessionVars,
                   poolVars, broadcastVars, sdVars>>

(***************************************************************************)
(* Pool.Acquire: the routes of the channel in turn, then another round     *)
(***************************************************************************)
RouteOf(c) == Routes[Key[c]][routeAt[c]]

\* The route failed; un tells whether with ErrTunerUnavailable, which matters
\* only to a request that waits.
NextRoute(c, un) ==
    /\ busy' = IF un /\ c \in Waits THEN busy \cup {c} ELSE busy
    /\ IF routeAt[c] < Len(Routes[Key[c]])
       THEN /\ routeAt' = [routeAt EXCEPT ![c] = @ + 1]
            /\ Goto(c, "route")
       ELSE /\ Goto(c, IF c \in busy' THEN "pause" ELSE "complete")
            /\ UNCHANGED routeAt
    /\ UNCHANGED <<attempt, session>>

\* beginRouteSourceCreate: reuse the route's broadcast, or claim its creation.
RouteReuse(c) ==
    /\ pc[c] = "route"
    /\ routeSources[RouteOf(c)] # NoOne
    /\ source' = [source EXCEPT ![c] = routeSources[RouteOf(c)]]
    /\ Goto(c, "complete")
    /\ UNCHANGED <<attempt, session, routeAt, busy, registryVars, stopped, engine,
                   subs, src, poolVars, broadcastVars, sdVars>>

RouteClaim(c) ==
    /\ pc[c] = "route"
    /\ routeSources[RouteOf(c)] = NoOne
    /\ routeCreates[RouteOf(c)] = NoOne
    /\ routeCreates' = [routeCreates EXCEPT ![RouteOf(c)] = c]
    /\ Goto(c, "device")
    /\ UNCHANGED <<attempt, session, routeAt, busy, registryVars, sessionVars,
                   routeSources, broadcastVars, sdVars>>

\* tuner.Manager.AcquireDevice
Held == {b \in Clients : device[b] \in {"reserved", "started"}}

DeviceAcquired(c) ==
    /\ pc[c] = "device"
    /\ Cardinality(Held) < NumTuners
    /\ device' = [device EXCEPT ![c] = "reserved"]
    /\ route' = [route EXCEPT ![c] = RouteOf(c)]
    /\ Goto(c, "commit")
    /\ UNCHANGED <<attempt, session, routeAt, busy, registryVars, sessionVars,
                   poolVars, refs, starting, bStopped, stopping, late, sdVars>>

\* The error path runs the deferred finishCreate.
DeviceRefused(c) ==
    /\ pc[c] = "device"
    /\ routeCreates' = [routeCreates EXCEPT ![RouteOf(c)] = NoOne]
    /\ \E un \in BOOLEAN : NextRoute(c, un)
    /\ UNCHANGED <<registryVars, sessionVars, routeSources, broadcastVars, sdVars>>

\* commitRouteSource: an entry already there is kept, and this device dropped.
Commit(c) ==
    /\ pc[c] = "commit"
    /\ IF routeSources[route[c]] = NoOne
       THEN /\ routeSources' = [routeSources EXCEPT ![route[c]] = c]
            /\ source' = [source EXCEPT ![c] = c]
       ELSE /\ source' = [source EXCEPT ![c] = routeSources[route[c]]]
            /\ UNCHANGED routeSources
    /\ Goto(c, "finish")
    /\ UNCHANGED <<attempt, session, routeAt, busy, registryVars, stopped, engine,
                   subs, src, routeCreates, broadcastVars, sdVars>>

FinishCreate(c) ==
    /\ pc[c] = "finish"
    /\ routeCreates' = [routeCreates EXCEPT ![route[c]] = NoOne]
    /\ Goto(c, "complete")
    /\ UNCHANGED <<attempt, session, routeAt, busy, registryVars, sessionVars,
                   routeSources, broadcastVars, sdVars>>

\* waitForRouteRetry
RetryRoutes(c) ==
    /\ pc[c] = "pause"
    /\ routeAt' = [routeAt EXCEPT ![c] = 1]
    /\ busy' = busy \ {c}
    /\ Goto(c, "route")
    /\ UNCHANGED <<attempt, session, registryVars, sessionVars, poolVars,
                   broadcastVars, sdVars>>

\* completeCreate: registers the new session even when a shutdown has begun.
CompleteCreate(c) ==
    LET k == Key[c] IN
    /\ pc[c] = "complete"
    /\ creates' = [creates EXCEPT ![k] = NoOne]
    /\ IF source[c] # NoOne
       THEN /\ registry' = [registry EXCEPT ![k] = c]
            /\ outcome' = [outcome EXCEPT ![c] = "ok"]
            /\ engine' = [engine EXCEPT ![c] = "idle"]
            /\ session' = [session EXCEPT ![c] = c]
            /\ Goto(c, "open")
       ELSE /\ outcome' = [outcome EXCEPT ![c] = "err"]
            /\ Goto(c, "refused")
            /\ UNCHANGED <<registry, engine, session>>
    /\ UNCHANGED <<attempt, routeAt, busy, shuttingDown, source, stopped, subs, src,
                   poolVars, broadcastVars, sdVars>>

\* The request's context ends while it waits for another's create, for
\* another's route source, or for the next round of routes.
GiveUp(c) ==
    /\ \/ pc[c] = "pending" /\ Goto(c, "refused") /\ UNCHANGED <<attempt, session, routeAt, busy>>
       \/ /\ pc[c] = "route"
          /\ routeSources[RouteOf(c)] = NoOne /\ routeCreates[RouteOf(c)] # NoOne
          /\ NextRoute(c, FALSE)
       \/ pc[c] = "pause" /\ Goto(c, "complete") /\ UNCHANGED <<attempt, session, routeAt, busy>>
    /\ UNCHANGED <<registryVars, sessionVars, poolVars, broadcastVars, sdVars>>

(***************************************************************************)
(* Session.ChannelStream and the engine of the raw demuxer                 *)
(***************************************************************************)
\* streamDemuxer
Open(c) ==
    /\ pc[c] = "open"
    /\ Goto(c, IF session[c] \in stopped THEN "refused" ELSE "subscribe")
    /\ UNCHANGED <<attempt, session, routeAt, busy, registryVars, sessionVars,
                   poolVars, broadcastVars, sdVars>>

\* attachPacket, startLocked
Subscribe(c) ==
    LET s == session[c] IN
    /\ pc[c] = "subscribe"
    /\ IF engine[s] \in {"idle", "running"}
       THEN /\ subs' = [subs EXCEPT ![s] = @ \cup {c}]
            /\ engine' = [engine EXCEPT ![s] = "running"]
            /\ src' = IF engine[s] = "idle" THEN [src EXCEPT ![s] = "attach"] ELSE src
            /\ Goto(c, "streaming")
       ELSE Goto(c, "refused") /\ UNCHANGED <<subs, engine, src>>
    /\ UNCHANGED <<attempt, session, routeAt, busy, registryVars, source, stopped,
                   poolVars, broadcastVars, sdVars>>

\* finishPacket: the last subscriber stops the engine.
Leave(c) ==
    LET s == session[c] IN
    /\ pc[c] = "streaming"
    /\ subs' = [subs EXCEPT ![s] = @ \ {c}]
    /\ engine' = IF subs[s] = {c} THEN [engine EXCEPT ![s] = "stopping"] ELSE engine
    /\ Goto(c, "served")
    /\ UNCHANGED <<attempt, session, routeAt, busy, registryVars, source, stopped, src,
                   poolVars, broadcastVars, sdVars>>

\* Engine.run after its source returned: close finishes every subscriber.
EngineCloses(s) ==
    /\ src[s] = "returned"
    /\ src' = [src EXCEPT ![s] = "closed"]
    /\ engine' = [engine EXCEPT ![s] = "closing"]
    /\ subs' = [subs EXCEPT ![s] = {}]
    /\ pc' = [c \in Clients |-> IF c \in subs[s] THEN "served" ELSE pc[c]]
    /\ UNCHANGED <<attempt, session, routeAt, busy, registryVars, source, stopped,
                   poolVars, broadcastVars, sdVars>>

\* onEmpty: OnStop removes the key's entry, whichever session it holds.
OnStop(s) ==
    /\ engine[s] = "closing"
    /\ engine' = [engine EXCEPT ![s] = "closed"]
    /\ registry' = [registry EXCEPT ![Key[s]] = NoOne]
    /\ UNCHANGED <<clientVars, creates, outcome, shuttingDown, source, stopped, subs,
                   src, poolVars, broadcastVars, sdVars>>

(***************************************************************************)
(* Broadcast.SubscribeRaw, run by the engine of session s                  *)
(***************************************************************************)
SrcTo(s, p) == src' = [src EXCEPT ![s] = p]
unchangedBySource == <<clientVars, registryVars, source, stopped, engine, subs,
                       poolVars, sdVars>>

\* attach up to its wait; the first attach starts the device.
Attach(s) ==
    LET b == source[s] IN
    /\ src[s] = "attach"
    /\ IF b \in bStopped
       THEN SrcTo(s, "returned") /\ UNCHANGED <<refs, starting>>
       ELSE /\ refs' = [refs EXCEPT ![b] = @ + 1]
            /\ starting' = [starting EXCEPT ![b] = IF @ = "no" THEN "starting" ELSE @]
            /\ SrcTo(s, "ready")
    /\ UNCHANGED <<unchangedBySource, route, bStopped, stopping, late, device>>

\* Mutant: a failed attach returns without detaching.
AttachReadyKeepsRef(s) ==
    LET b == source[s] IN
    /\ src[s] = "ready"
    /\ \/ engine[s] = "stopping" /\ SrcTo(s, "detach")
       \/ /\ starting[b] \in {"ok", "failed"}
          /\ SrcTo(s, IF starting[b] = "failed" \/ b \in bStopped THEN "returned" ELSE "wait")
    /\ UNCHANGED <<unchangedBySource, broadcastVars>>

\* The engine's context is cancelled, or the start has finished.
AttachReady(s) ==
    LET b == source[s] IN
    /\ src[s] = "ready"
    /\ \/ engine[s] = "stopping" /\ SrcTo(s, "detach")
       \/ /\ starting[b] \in {"ok", "failed"}
          /\ SrcTo(s, IF starting[b] = "failed" \/ b \in bStopped THEN "detach" ELSE "wait")
    /\ UNCHANGED <<unchangedBySource, broadcastVars>>

\* wait: the context is cancelled, or the device is done.
WaitEnds(s) ==
    /\ src[s] = "wait"
    /\ engine[s] = "stopping" \/ device[source[s]] \in {"ended", "stopped"}
    /\ SrcTo(s, "detach")
    /\ UNCHANGED <<unchangedBySource, broadcastVars>>

\* Mutant: the last detach does not stop the broadcast.
DetachKeepsRunning(s) ==
    LET b == source[s] IN
    /\ src[s] = "detach"
    /\ refs' = [refs EXCEPT ![b] = IF @ > 0 THEN @ - 1 ELSE @]
    /\ SrcTo(s, "returned")
    /\ UNCHANGED <<unchangedBySource, route, starting, bStopped, stopping, late, device>>

\* detach decides under the lock, and stops after it.
Detach(s) ==
    LET b == source[s] IN
    /\ src[s] = "detach"
    /\ refs' = [refs EXCEPT ![b] = IF @ > 0 THEN @ - 1 ELSE @]
    /\ SrcTo(s, IF refs'[b] = 0 THEN "stop" ELSE "returned")
    /\ UNCHANGED <<unchangedBySource, route, starting, bStopped, stopping, late, device>>

\* Broadcast.Stop: only the first call does anything.
BeginStop(b) ==
    /\ bStopped' = bStopped \cup {b}
    /\ stopping' = [stopping EXCEPT ![b] = "device"]

DetachStops(s) ==
    LET b == source[s] IN
    /\ src[s] = "stop"
    /\ IF b \in bStopped
       THEN SrcTo(s, "returned") /\ UNCHANGED <<bStopped, stopping>>
       ELSE SrcTo(s, "stopping") /\ BeginStop(b)
    /\ UNCHANGED <<unchangedBySource, route, refs, starting, late, device>>

DetachStopped(s) ==
    /\ src[s] = "stopping"
    /\ stopping[source[s]] = "done"
    /\ SrcTo(s, "returned")
    /\ UNCHANGED <<unchangedBySource, broadcastVars>>

(***************************************************************************)
(* Broadcast.start and the rest of Stop                                    *)
(***************************************************************************)
unchangedByBroadcast == <<clientVars, registryVars, sessionVars, routeCreates,
                          route, refs, sdVars>>

\* A start that fails releases the tuner; one that finds its context cancelled,
\* by Stop, leaves the tuner as it was acquired, for Stop to release.
StartReturns(b) ==
    /\ starting[b] = "starting"
    /\ \/ /\ starting' = [starting EXCEPT ![b] = "ok"]
          /\ device' = [device EXCEPT ![b] = "started"]
       \/ /\ starting' = [starting EXCEPT ![b] = "failed"]
          /\ \/ device' = [device EXCEPT ![b] = "ended"]
             \/ b \in bStopped /\ UNCHANGED device
    /\ UNCHANGED <<unchangedByBroadcast, routeSources, bStopped, stopping, late>>

\* The process ends, or a request of higher priority takes the tuner.
DeviceEnds(b) ==
    /\ device[b] = "started"
    /\ device' = [device EXCEPT ![b] = "ended"]
    /\ UNCHANGED <<unchangedByBroadcast, routeSources, starting, bStopped, stopping, late>>

StopDevice(b) ==
    /\ stopping[b] = "device"
    /\ starting[b] # "starting"
    /\ device' = [device EXCEPT ![b] = "stopped"]
    /\ stopping' = [stopping EXCEPT ![b] = "remove"]
    /\ UNCHANGED <<unchangedByBroadcast, routeSources, starting, bStopped, late>>

\* Stop's context ends before the start has: a goroutine stops the device.
StopTimesOut(b) ==
    /\ stopping[b] = "device"
    /\ starting[b] = "starting"
    /\ late' = late \cup {b}
    /\ stopping' = [stopping EXCEPT ![b] = "remove"]
    /\ UNCHANGED <<unchangedByBroadcast, routeSources, starting, bStopped, device>>

LateStop(b) ==
    /\ b \in late
    /\ starting[b] # "starting"
    /\ late' = late \ {b}
    /\ device' = [device EXCEPT ![b] = "stopped"]
    /\ UNCHANGED <<unchangedByBroadcast, routeSources, starting, bStopped, stopping>>

\* onStops: removeRouteSource deletes the route's entry.
RemoveRouteSource(b) ==
    /\ stopping[b] = "remove"
    /\ stopping' = [stopping EXCEPT ![b] = "done"]
    /\ routeSources' = [routeSources EXCEPT ![route[b]] = NoOne]
    /\ UNCHANGED <<unchangedByBroadcast, starting, bStopped, late, device>>

(***************************************************************************)
(* Manager.Shutdown                                                        *)
(***************************************************************************)
unchangedByShutdown == <<clientVars, creates, outcome, poolVars, route, refs,
                         starting, late, device, source>>

\* beginShutdown: sdLeft is the snapshot of the creates in flight.
BeginShutdown ==
    /\ ShutsDown /\ sd = "no"
    /\ sd' = "creates"
    /\ shuttingDown' = TRUE
    /\ sdLeft' = {creates[k] : k \in Keys} \ {NoOne}
    /\ UNCHANGED <<unchangedByShutdown, registry, stopped, engine, subs, src,
                   bStopped, stopping, sdNow, sdExpired>>

\* waitSessionCreates, until all are done or the context ends; then the
\* snapshot of the sessions.
CreatesSettled ==
    /\ sd = "creates"
    /\ \/ (\A c \in sdLeft : outcome[c] # "none") /\ UNCHANGED sdExpired
       \/ (\E c \in sdLeft : outcome[c] = "none") /\ sdExpired' = TRUE
    /\ sd' = "sessions"
    /\ sdLeft' = {registry[k] : k \in Keys} \ {NoOne}
    /\ UNCHANGED <<unchangedByShutdown, registry, shuttingDown, stopped, engine, subs,
                   src, bStopped, stopping, sdNow>>

\* Session.Stop and Engine.Stop up to the wait for done.  An engine that never
\* started closes at once.
StopSession(s) ==
    /\ sd = "sessions" /\ sdNow = NoOne /\ s \in sdLeft
    /\ stopped' = stopped \cup {s}
    /\ engine' = [engine EXCEPT ![s] = CASE @ = "idle" -> "closing"
                                         [] @ = "running" -> "stopping"
                                         [] OTHER -> @]
    /\ sdLeft' = sdLeft \ {s}
    /\ sdNow' = s
    /\ UNCHANGED <<unchangedByShutdown, registry, shuttingDown, subs, src, bStopped,
                   stopping, sd, sdExpired>>

SessionStopped ==
    /\ sd = "sessions" /\ sdNow # NoOne
    /\ engine[sdNow] \in {"closing", "closed"}
    /\ sdNow' = NoOne
    /\ UNCHANGED <<unchangedByShutdown, registry, shuttingDown, stopped, engine, subs,
                   src, bStopped, stopping, sd, sdLeft, sdExpired>>

\* Pool.Shutdown: the snapshot of the broadcasts, stopped one by one.
SessionsStopped ==
    /\ sd = "sessions" /\ sdNow = NoOne /\ sdLeft = {}
    /\ sd' = "sources"
    /\ sdLeft' = {routeSources[r] : r \in RouteIds} \ {NoOne}
    /\ UNCHANGED <<unchangedByShutdown, registry, shuttingDown, stopped, engine, subs,
                   src, bStopped, stopping, sdNow, sdExpired>>

StopBroadcast(b) ==
    /\ sd = "sources" /\ sdNow = NoOne /\ b \in sdLeft
    /\ IF b \in bStopped
       THEN UNCHANGED <<bStopped, stopping, sdNow>>
       ELSE BeginStop(b) /\ sdNow' = b
    /\ sdLeft' = sdLeft \ {b}
    /\ UNCHANGED <<unchangedByShutdown, registry, shuttingDown, stopped, engine, subs,
                   src, sd, sdExpired>>

BroadcastStopped ==
    /\ sd = "sources" /\ sdNow # NoOne
    /\ stopping[sdNow] = "done"
    /\ sdNow' = NoOne
    /\ UNCHANGED <<unchangedByShutdown, registry, shuttingDown, stopped, engine, subs,
                   src, bStopped, stopping, sd, sdLeft, sdExpired>>

\* registry.clear
ShutdownReturns ==
    /\ sd = "sources" /\ sdNow = NoOne /\ sdLeft = {}
    /\ sd' = "done"
    /\ registry' = [k \in Keys |-> NoOne]
    /\ UNCHANGED <<unchangedByShutdown, shuttingDown, stopped, engine, subs, src,
                   bStopped, stopping, sdLeft, sdNow, sdExpired>>

ClientStep(c) ==
    \/ Acquire(c) \/ CheckAlive(c) \/ Evict(c) \/ Joined(c)
    \/ RouteReuse(c) \/ RouteClaim(c) \/ DeviceAcquired(c) \/ DeviceRefused(c)
    \/ Commit(c) \/ FinishCreate(c) \/ RetryRoutes(c) \/ CompleteCreate(c)
    \/ Open(c) \/ Subscribe(c)
SourceStep(s) ==
    \/ Attach(s) \/ AttachReady(s) \/ WaitEnds(s) \/ Detach(s) \/ DetachStops(s)
    \/ DetachStopped(s) \/ EngineCloses(s) \/ OnStop(s)
BroadcastStep(b) ==
    \/ StartReturns(b) \/ StopDevice(b) \/ RemoveRouteSource(b) \/ LateStop(b)
ShutdownStep ==
    \/ CreatesSettled
    \/ \E s \in Clients : StopSession(s)
    \/ SessionStopped \/ SessionsStopped
    \/ \E b \in Clients : StopBroadcast(b)
    \/ BroadcastStopped \/ ShutdownReturns

Next ==
    \/ \E c \in Clients :
        \/ ClientStep(c) \/ GiveUp(c) \/ Leave(c)
        \/ SourceStep(c) \/ BroadcastStep(c) \/ StopTimesOut(c) \/ DeviceEnds(c)
    \/ BeginShutdown \/ ShutdownStep

Spec == Init /\ [][Next]_vars

\* Goroutines run; requests need not come, viewers need not leave, devices need
\* not end, contexts need not expire, and a waiting request need not be refused.
Fairness ==
    /\ \A c \in Clients :
        /\ WF_vars(DeviceAcquired(c)
                   \/ (ClientStep(c) /\ pc[c] # "idle" /\ (c \in Waits => pc[c] # "device")))
        /\ WF_vars(SourceStep(c))
        /\ WF_vars(BroadcastStep(c))
    /\ WF_vars(ShutdownStep)
FairSpec == Spec /\ Fairness

(***************************************************************************)
(* Safety                                                                  *)
(***************************************************************************)
AttachedTo(b) == {s \in Clients : source[s] = b /\ src[s] \in {"ready", "wait", "detach"}}

\* The reference count of a broadcast is the number of engines attached to it,
\* on every path through attach, its failures, and detach.
RefsMatch == \A b \in Clients : refs[b] = Cardinality(AttachedTo(b))

\* Every tuner the manager holds is in the pool under its route (where the
\* next request for the route shares it, and Shutdown finds it), is about to be
\* put there, or is being stopped: commitRouteSource never drops a device, and
\* removeRouteSource, which deletes by key, never deletes a newer broadcast.
TunersAccounted ==
    \A b \in Held : \/ pc[b] = "commit"
                     \/ routeSources[route[b]] = b
                     \/ b \in late

\* Two channels of one route never hold two tuners for it, unless the older
\* one is being stopped late.
OneTunerPerRoute ==
    \A a, b \in Held \ late : a # b => route[a] # route[b]

\* The accounts of routes, references and tuners agree, on every path through
\* create, attach, detach and stop.
RoutesAccounted == RefsMatch /\ TunersAccounted /\ OneTunerPerRoute

\* A stopped broadcast is never joined: whoever found it in the pool or in a
\* session before the stop, and attaches after it, leaves the count alone.
StoppedIsFinal == [][\A b \in bStopped : refs'[b] <= refs[b]]_vars

\* A Shutdown that was not cut short leaves no session registered, no create
\* in flight and no tuner held, except one whose stop is under way.
ShutdownReleases ==
    sd = "done" /\ ~sdExpired =>
        /\ \A k \in Keys : registry[k] = NoOne /\ creates[k] = NoOne
        /\ \A b \in Held : b \in bStopped

(***************************************************************************)
(* Liveness                                                                *)
(***************************************************************************)
\* GetOrCreate and the attach that follows always return: a request ends up
\* streaming or refused unless a request made with wait still looks for a tuner.
RequestsAnswered ==
    \A c \in Clients :
        pc[c] \in PCs \ ({"idle"} \cup Answered)
            ~> \/ pc[c] \in Answered
               \/ \E w \in Waits : pc[w] \in {"route", "device", "pause"}

\* When no request is being served every tuner is given back, whatever the
\* order in which sessions, engines and broadcasts were left.
TunersReleased ==
    (\A c \in Clients : pc[c] \in {"idle", "served", "refused"})
        ~> \/ Held = {}
           \/ \E c \in Clients : pc[c] \notin {"idle", "served", "refused"}

\* Shutdown returns; it waits for creates, engines and broadcasts that all end.
ShutdownReturnsEventually ==
    sd = "creates" ~> \/ sd = "done"
                      \/ \E w \in Waits : pc[w] \in {"route", "device", "pause"}

\* Requests, tuners and Shutdown all come to rest, and nothing that has been
\* stopped starts again.
StreamsSettle ==
    /\ RequestsAnswered /\ TunersReleased /\ ShutdownReturnsEventually
    /\ StoppedIsFinal /\ []ShutdownReleases

(***************************************************************************)
(* Statements of the tests that the code does not meet                     *)
(***************************************************************************)
\* "shared route stopped while second consumer was active": outside a shutdown
\* a started device is not stopped under an engine that reads from it.
SharedRouteKept ==
    [][\A b \in Clients :
        device[b] = "started" /\ device'[b] = "stopped" /\ sd = "no" =>
            ~\E s \in Clients : source[s] = b /\ src[s] = "wait" /\ engine[s] = "running"]_vars

\* Requests for one channel share its session: at most one session of a channel
\* accepts subscribers.
OneLiveSessionPerKey ==
    \A s, t \in {c \in Clients : Alive(c)} : s # t => Key[s] # Key[t]
=============================================================================
