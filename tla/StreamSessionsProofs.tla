------------------------ MODULE StreamSessionsProofs ------------------------
(***************************************************************************)
(* Proofs about StreamSessions: where every request, create and engine     *)
(* stands with respect to the registry and the pool; the accounts of       *)
(* routes, references and tuners agree in every reachable state; a stopped *)
(* broadcast is never joined; and a Shutdown that was not cut short leaves *)
(* nothing behind.                                                         *)
(***************************************************************************)
EXTENDS StreamSessions, FiniteSetTheorems, TLAPS

\* The request runs the create of its key.
Creating == {"route", "device", "commit", "finish", "pause", "complete"}
\* It looks for a session of its key.
Searching == {"idle", "retry", "check", "evict"}
\* It has its session, or a final answer.
Opened == {"open", "subscribe"} \cup Answered
\* The broadcast that the request created has passed commitRouteSource.
Pooled(b) == device[b] # "none" /\ pc[b] # "commit"

\* What a request has at each of its steps.
RequestsOK ==
    \A c \in Clients :
        /\ attempt[c] = MaxAttempts => pc[c] = "refused"
        /\ pc[c] \in {"check", "evict", "pending", "open", "subscribe", "streaming"} =>
               session[c] \in Clients
        /\ \A s \in Clients : c \in subs[s] => pc[c] = "streaming" /\ session[c] = s

\* A key is being created exactly while its creator runs the create.
CreatesOK ==
    /\ \A c \in Clients :
        /\ pc[c] \in Creating => creates[Key[c]] = c
        /\ pc[c] \in Creating \cup Searching => outcome[c] = "none"
    /\ \A k \in Keys : creates[k] # NoOne =>
                           pc[creates[k]] \in Creating /\ Key[creates[k]] = k

\* A session with an engine has a source, and every source is in the pool's care.
EnginesOK ==
    \A c \in Clients :
        /\ engine[c] # "none" => pc[c] \in Opened /\ source[c] \in Clients
        /\ src[c] # "none" => engine[c] \notin {"none", "idle"}
        /\ subs[c] # {} => engine[c] # "none"
        /\ source[c] \in Clients => Pooled(source[c])

\* A request that creates a broadcast owns the claim on its route from
\* beginRouteSourceCreate to finishCreate, and the route stays empty until the
\* commit.
RoutesOK ==
    \A c \in Clients :
        /\ device[c] # "none" =>
               pc[c] \in {"commit", "finish", "complete"} \cup Opened /\ route[c] \in RouteIds
        /\ pc[c] \in {"commit", "finish"} => device[c] # "none" /\ route[c] = RouteOf(c)
        /\ pc[c] \in {"device", "commit", "finish"} => routeCreates[RouteOf(c)] = c
        /\ pc[c] \in {"device", "commit"} => routeSources[RouteOf(c)] = NoOne

\* The pool holds a broadcast from its commit until its stop removes it.
PoolOK ==
    /\ \A r \in RouteIds : routeSources[r] # NoOne =>
           /\ route[routeSources[r]] = r
           /\ Pooled(routeSources[r])
           /\ stopping[routeSources[r]] # "done"
    /\ \A b \in Clients : Pooled(b) /\ stopping[b] # "done" => routeSources[route[b]] = b

\* Start, stop and the late stop of a broadcast.
BroadcastsOK ==
    \A b \in Clients :
        /\ b \in bStopped <=> stopping[b] # "no"
        /\ stopping[b] # "no" \/ starting[b] # "no" => Pooled(b)
        /\ b \in late => stopping[b] \in {"remove", "done"}
        /\ stopping[b] \in {"remove", "done"} /\ b \notin late =>
               b \notin Held /\ starting[b] # "starting"
        /\ starting[b] = "starting" => device[b] = "reserved"
        /\ starting[b] = "no" /\ b \notin bStopped => device[b] \in {"none", "reserved"}

\* What the phases of Shutdown have settled.
ShutdownOK ==
    /\ shuttingDown <=> sd # "no"
    /\ sd = "creates" => \A k \in Keys : creates[k] # NoOne => creates[k] \in sdLeft
    /\ sd \in {"sessions", "sources", "done"} /\ ~sdExpired =>
           \A k \in Keys : creates[k] = NoOne
    /\ sd = "sources" => \A b \in sdLeft : Pooled(b)
    /\ sd = "sources" /\ ~sdExpired => \A b \in Held : b \in bStopped \cup sdLeft
    /\ sd = "done" /\ ~sdExpired => /\ \A b \in Held : b \in bStopped
                                    /\ \A k \in Keys : registry[k] = NoOne

\* The counted set is finite, whatever Clients is.
RefsOK ==
    \A b \in Clients : /\ IsFiniteSet(AttachedTo(b))
                       /\ refs[b] = Cardinality(AttachedTo(b))

PlaceInv == TypeOK /\ RequestsOK /\ CreatesOK /\ EnginesOK /\ RoutesOK /\ PoolOK /\ BroadcastsOK
StreamInv == PlaceInv /\ ShutdownOK /\ RefsOK

(***************************************************************************)
(* Types                                                                   *)
(***************************************************************************)
\* The steps of Next, one by one.
LEMMA StepKinds ==
  ASSUME [Next]_vars
  PROVE  \/ \E c \in Clients :
              \/ Acquire(c) \/ CheckAlive(c) \/ Evict(c) \/ Joined(c)
              \/ RouteReuse(c) \/ RouteClaim(c) \/ DeviceAcquired(c) \/ DeviceRefused(c)
              \/ Commit(c) \/ FinishCreate(c) \/ RetryRoutes(c) \/ CompleteCreate(c)
              \/ Open(c) \/ Subscribe(c) \/ GiveUp(c) \/ Leave(c)
              \/ Attach(c) \/ AttachReady(c) \/ WaitEnds(c) \/ Detach(c)
              \/ DetachStops(c) \/ DetachStopped(c) \/ EngineCloses(c) \/ OnStop(c)
              \/ StartReturns(c) \/ StopDevice(c) \/ RemoveRouteSource(c) \/ LateStop(c)
              \/ StopTimesOut(c) \/ DeviceEnds(c) \/ StopSession(c) \/ StopBroadcast(c)
         \/ BeginShutdown \/ CreatesSettled \/ SessionStopped \/ SessionsStopped
         \/ BroadcastStopped \/ ShutdownReturns
         \/ UNCHANGED vars
  BY Zenon DEF Next, ClientStep, SourceStep, BroadcastStep, ShutdownStep

\* The route that a request looks at is a route of its key.
LEMMA RouteTyped ==
  ASSUME RequestTypes, NEW c \in Clients
  PROVE  RouteOf(c) \in RouteIds
<1>1. Key[c] \in Keys /\ Routes[Key[c]] \in Seq(RouteIds)
  BY StreamAssumption, Zenon
<1>2. routeAt[c] \in 1 .. Len(Routes[Key[c]])
  BY <1>1 DEF RequestTypes
<1>3. QED
  BY <1>1, <1>2 DEF RouteOf

\* What the next two lemmas use of the constants.
LEMMA RoutesCounted ==
  ASSUME NEW c \in Clients
  PROVE  Len(Routes[Key[c]]) \in Nat \ {0}
<1>1. Routes[Key[c]] \in Seq(RouteIds) /\ Len(Routes[Key[c]]) > 0
  BY StreamAssumption, Zenon
<1>2. QED
  BY <1>1

\* A failed route leaves a request at a route of its key.
LEMMA NextRouteTyped ==
  ASSUME RequestTypes, NEW c \in Clients, NEW un \in BOOLEAN, NextRoute(c, un)
  PROVE  RequestTypes'
<1>1. attempt' = attempt /\ session' = session /\ busy' \subseteq Clients
  BY Zenon DEF NextRoute, RequestTypes
<1>2. pc' \in [Clients -> PCs]
  BY Zenon DEF NextRoute, Goto, RequestTypes, PCs
<1>3. /\ routeAt' \in [Clients -> Nat \ {0}]
      /\ \A d \in Clients : routeAt'[d] <= Len(Routes[Key[d]])
  BY RoutesCounted, SMTT(30) DEF NextRoute, RequestTypes
<1>4. QED
  BY <1>1, <1>2, <1>3, Zenon DEF RequestTypes

\* Every step keeps the types of the requests.
LEMMA RequestsTyped ==
  ASSUME PlaceInv, [Next]_vars
  PROVE  RequestTypes'
<1>0. /\ RequestTypes /\ Key \in [Clients -> Keys] /\ registry \in [Keys -> Some]
      /\ creates \in [Keys -> Some]
  BY StreamAssumption, Zenon DEF PlaceInv, TypeOK, RegistryTypes
<1>1. ASSUME NEW c \in Clients, CheckAlive(c) \/ Joined(c) \/ RouteReuse(c) \/ RouteClaim(c)
      PROVE  RequestTypes'
  BY <1>0, <1>1, ZenonT(60) DEF CheckAlive, Goto, Joined, RouteReuse, RouteClaim, clientVars,
      RequestTypes, PCs, Answered, Some
<1>2. ASSUME NEW c \in Clients, DeviceAcquired(c) \/ Commit(c) \/ FinishCreate(c) \/ Open(c)
      PROVE  RequestTypes'
  BY <1>0, <1>2, ZenonT(60) DEF DeviceAcquired, Goto, Commit, FinishCreate, Open, clientVars,
      RequestTypes, PCs, Answered, Some
<1>3. ASSUME NEW c \in Clients, Subscribe(c) \/ Leave(c) \/ EngineCloses(c) \/ Acquire(c)
      PROVE  RequestTypes'
  BY <1>0, <1>3, ZenonT(60) DEF Subscribe, Goto, Leave, EngineCloses, Acquire, clientVars,
      RequestTypes, PCs, Answered, Some
<1>4. ASSUME NEW c \in Clients, Evict(c) PROVE RequestTypes'
  <2>1. pc[c] # "refused" /\ attempt[c] \in 0 .. 3 /\ attempt[c] # 3
    BY <1>0, <1>4, Zenon DEF Evict, PlaceInv, RequestsOK, RequestTypes, MaxAttempts
  <2>2. attempt' \in [Clients -> 0 .. MaxAttempts]
    BY <1>0, <1>4, <2>1 DEF Evict, RequestTypes, MaxAttempts
  <2>3. pc' \in [Clients -> PCs]
    BY <1>0, <1>4, Zenon DEF Evict, Goto, RequestTypes, PCs, Answered
  <2>4. QED
    BY <1>0, <1>4, <2>2, <2>3, Zenon DEF Evict, RequestTypes
<1>5. ASSUME NEW c \in Clients, DeviceRefused(c) PROVE RequestTypes'
  BY <1>0, <1>5, NextRouteTyped, Zenon DEF DeviceRefused
<1>6. ASSUME NEW c \in Clients, RetryRoutes(c) PROVE RequestTypes'
  BY <1>0, <1>6, RoutesCounted, SMTT(60) DEF RetryRoutes, Goto, clientVars, RequestTypes, PCs,
      Answered, Some
<1>7. ASSUME NEW c \in Clients, CompleteCreate(c) PROVE RequestTypes'
  <2>1. pc' \in [Clients -> PCs]
    BY <1>0, <1>7, Zenon DEF CompleteCreate, Goto, RequestTypes, PCs, Answered
  <2>2. session' \in [Clients -> Some]
    BY <1>0, <1>7, Zenon DEF CompleteCreate, RequestTypes, Some
  <2>3. QED
    BY <1>0, <1>7, <2>1, <2>2, Zenon DEF CompleteCreate, RequestTypes
<1>8. ASSUME NEW c \in Clients, GiveUp(c) PROVE RequestTypes'
  <2>1. CASE NextRoute(c, FALSE)
    BY <1>0, <2>1, NextRouteTyped, Zenon
  <2>2. CASE UNCHANGED <<attempt, session, routeAt, busy>>
            /\ (Goto(c, "refused") \/ Goto(c, "complete"))
    BY <1>0, <2>2, Zenon DEF Goto, RequestTypes, PCs, Answered
  <2>3. QED
    BY <1>8, <2>1, <2>2, Zenon DEF GiveUp
<1>9. CASE UNCHANGED <<pc, attempt, session, routeAt, busy>>
  BY <1>0, <1>9, Zenon DEF RequestTypes, PCs, Answered, Some
<1>10. ASSUME NEW c \in Clients, Attach(c) \/ AttachReady(c) \/ WaitEnds(c) \/ Detach(c) \/
      DetachStops(c) \/ DetachStopped(c) \/ OnStop(c) \/ StartReturns(c) \/ StopDevice(c) \/
      RemoveRouteSource(c) \/ LateStop(c) \/ StopTimesOut(c) \/ DeviceEnds(c) \/ StopSession(c)
      \/ StopBroadcast(c)
      PROVE  UNCHANGED <<pc, attempt, session, routeAt, busy>>
  BY <1>10, ZenonT(60) DEF Attach, SrcTo, unchangedBySource, AttachReady, WaitEnds, Detach,
      DetachStops, BeginStop, DetachStopped, OnStop, StartReturns, unchangedByBroadcast,
      StopDevice, RemoveRouteSource, LateStop, StopTimesOut, DeviceEnds, StopSession,
      unchangedByShutdown, StopBroadcast, clientVars
<1>11. CASE BeginShutdown \/ CreatesSettled \/ SessionStopped \/ SessionsStopped \/
      BroadcastStopped \/ ShutdownReturns
  <2>1. UNCHANGED <<pc, attempt, session, routeAt, busy>>
    BY <1>11, ZenonT(60) DEF BeginShutdown, unchangedByShutdown, CreatesSettled, SessionStopped,
        SessionsStopped, BroadcastStopped, ShutdownReturns, clientVars
  <2>2. QED
    BY <2>1, <1>9, Zenon
<1>12. CASE UNCHANGED vars
  BY <1>9, <1>12, Zenon DEF vars, clientVars
<1>13. QED
  BY <1>1, <1>2, <1>3, <1>4, <1>5, <1>6, <1>7, <1>8, <1>9, <1>10, <1>11, <1>12, StepKinds, Zenon

\* Every step keeps the types of the registry.
LEMMA RegistryTyped ==
  ASSUME PlaceInv, [Next]_vars
  PROVE  RegistryTypes'
<1>0. RegistryTypes /\ Key \in [Clients -> Keys]
  BY StreamAssumption, Zenon DEF PlaceInv, TypeOK
<1>1. ASSUME NEW c \in Clients, Acquire(c) \/ CompleteCreate(c) \/ Evict(c) \/ OnStop(c)
      PROVE  RegistryTypes'
  BY <1>0, <1>1, SMTT(60) DEF Acquire, Goto, CompleteCreate, Evict, OnStop, registryVars,
      RegistryTypes, Some
<1>2. CASE ShutdownReturns \/ BeginShutdown
  BY <1>0, <1>2, ZenonT(60) DEF ShutdownReturns, unchangedByShutdown, BeginShutdown, registryVars,
      RegistryTypes, Some
<1>3. CASE UNCHANGED <<registry, creates, outcome, shuttingDown>>
  BY <1>0, <1>3, Zenon DEF RegistryTypes, Some
<1>4. ASSUME NEW c \in Clients, CheckAlive(c) \/ Joined(c) \/ RouteReuse(c) \/ RouteClaim(c) \/
      DeviceAcquired(c) \/ DeviceRefused(c) \/ Commit(c) \/ FinishCreate(c) \/ RetryRoutes(c) \/
      Open(c) \/ Subscribe(c) \/ GiveUp(c) \/ Leave(c) \/ Attach(c) \/ AttachReady(c) \/
      WaitEnds(c) \/ Detach(c) \/ DetachStops(c) \/ DetachStopped(c) \/ EngineCloses(c) \/
      StartReturns(c) \/ StopDevice(c) \/ RemoveRouteSource(c) \/ LateStop(c) \/ StopTimesOut(c)
      \/ DeviceEnds(c) \/ StopSession(c) \/ StopBroadcast(c)
      PROVE  UNCHANGED <<registry, creates, outcome, shuttingDown>>
  BY <1>4, ZenonT(60) DEF CheckAlive, Goto, Joined, RouteReuse, RouteClaim, DeviceAcquired,
      DeviceRefused, NextRoute, Commit, FinishCreate, RetryRoutes, Open, Subscribe, GiveUp, Leave,
      Attach, SrcTo, unchangedBySource, AttachReady, WaitEnds, Detach, DetachStops, BeginStop,
      DetachStopped, EngineCloses, StartReturns, unchangedByBroadcast, StopDevice,
      RemoveRouteSource, LateStop, StopTimesOut, DeviceEnds, StopSession, unchangedByShutdown,
      StopBroadcast, registryVars
<1>5. CASE CreatesSettled \/ SessionStopped \/ SessionsStopped \/ BroadcastStopped
  <2>1. UNCHANGED <<registry, creates, outcome, shuttingDown>>
    BY <1>5, ZenonT(60) DEF CreatesSettled, unchangedByShutdown, SessionStopped, SessionsStopped,
        BroadcastStopped, registryVars
  <2>2. QED
    BY <2>1, <1>3, Zenon
<1>6. CASE UNCHANGED vars
  BY <1>3, <1>6, Zenon DEF vars, registryVars
<1>7. QED
  BY <1>1, <1>2, <1>3, <1>4, <1>5, <1>6, StepKinds, Zenon

\* Every step keeps the types of the sessions.
LEMMA SessionsTyped ==
  ASSUME PlaceInv, [Next]_vars
  PROVE  SessionTypes'
<1>0. /\ SessionTypes /\ routeSources \in [RouteIds -> Some]
      /\ \A c \in Clients : RouteOf(c) \in RouteIds
      /\ \A c \in Clients : pc[c] = "commit" => route[c] \in RouteIds
  BY RouteTyped, Zenon DEF PlaceInv, TypeOK, PoolTypes, RoutesOK
<1>1. ASSUME NEW c \in Clients, CompleteCreate(c) \/ OnStop(c) \/ Subscribe(c) \/
      EngineCloses(c)
      PROVE  SessionTypes'
  BY <1>0, <1>1, SMTT(60) DEF CompleteCreate, Goto, OnStop, Subscribe, EngineCloses, sessionVars,
      SessionTypes, Some
<1>2. ASSUME NEW c \in Clients, StopSession(c) \/ Leave(c) \/ RouteReuse(c) \/ Commit(c)
      PROVE  SessionTypes'
  BY <1>0, <1>2, SMTT(60) DEF StopSession, unchangedByShutdown, Leave, Goto, RouteReuse, Commit,
      sessionVars, SessionTypes, Some
<1>3. ASSUME NEW c \in Clients, Attach(c) \/ AttachReady(c) \/ WaitEnds(c) \/ Detach(c)
      PROVE  SessionTypes'
  BY <1>0, <1>3, ZenonT(60) DEF Attach, SrcTo, unchangedBySource, AttachReady, WaitEnds, Detach,
      sessionVars, SessionTypes, Some
<1>4. ASSUME NEW c \in Clients, DetachStops(c) \/ DetachStopped(c) PROVE SessionTypes'
  BY <1>0, <1>4, ZenonT(60) DEF DetachStops, SrcTo, unchangedBySource, BeginStop, DetachStopped,
      sessionVars, SessionTypes, Some
<1>5. CASE UNCHANGED <<source, stopped, engine, subs, src>>
  BY <1>0, <1>5, Zenon DEF SessionTypes, Some
<1>6. ASSUME NEW c \in Clients, Acquire(c) \/ CheckAlive(c) \/ Evict(c) \/ Joined(c) \/
      RouteClaim(c) \/ DeviceAcquired(c) \/ DeviceRefused(c) \/ FinishCreate(c) \/
      RetryRoutes(c) \/ Open(c) \/ GiveUp(c) \/ StartReturns(c) \/ StopDevice(c) \/
      RemoveRouteSource(c) \/ LateStop(c) \/ StopTimesOut(c) \/ DeviceEnds(c) \/
      StopBroadcast(c)
      PROVE  UNCHANGED <<source, stopped, engine, subs, src>>
  BY <1>6, ZenonT(60) DEF Acquire, Goto, CheckAlive, Evict, Joined, RouteClaim, DeviceAcquired,
      DeviceRefused, NextRoute, FinishCreate, RetryRoutes, Open, GiveUp, StartReturns,
      unchangedByBroadcast, StopDevice, RemoveRouteSource, LateStop, StopTimesOut, DeviceEnds,
      StopBroadcast, BeginStop, unchangedByShutdown, sessionVars
<1>7. CASE BeginShutdown \/ CreatesSettled \/ SessionStopped \/ SessionsStopped \/
      BroadcastStopped \/ ShutdownReturns
  <2>1. UNCHANGED <<source, stopped, engine, subs, src>>
    BY <1>7, ZenonT(60) DEF BeginShutdown, unchangedByShutdown, CreatesSettled, SessionStopped,
        SessionsStopped, BroadcastStopped, ShutdownReturns, sessionVars
  <2>2. QED
    BY <2>1, <1>5, Zenon
<1>8. CASE UNCHANGED vars
  BY <1>5, <1>8, Zenon DEF vars, sessionVars
<1>9. QED
  BY <1>1, <1>2, <1>3, <1>4, <1>5, <1>6, <1>7, <1>8, StepKinds, Zenon

\* Every step keeps the types of the pool.
LEMMA PoolTyped ==
  ASSUME PlaceInv, [Next]_vars
  PROVE  PoolTypes'
<1>0. PoolTypes
  BY Zenon DEF PlaceInv, TypeOK
<1>1. ASSUME NEW c \in Clients, RouteClaim(c) \/ DeviceRefused(c) \/ FinishCreate(c) \/
      Commit(c)
      PROVE  PoolTypes'
  BY <1>0, <1>1, ZenonT(60) DEF RouteClaim, Goto, DeviceRefused, NextRoute, FinishCreate, Commit,
      poolVars, PoolTypes, Some
<1>2. ASSUME NEW c \in Clients, RemoveRouteSource(c) PROVE PoolTypes'
  BY <1>0, <1>2, Zenon DEF RemoveRouteSource, unchangedByBroadcast, poolVars, PoolTypes, Some
<1>3. CASE UNCHANGED <<routeSources, routeCreates>>
  BY <1>0, <1>3, Zenon DEF PoolTypes, Some
<1>4. ASSUME NEW c \in Clients, Acquire(c) \/ CheckAlive(c) \/ Evict(c) \/ Joined(c) \/
      RouteReuse(c) \/ DeviceAcquired(c) \/ RetryRoutes(c) \/ CompleteCreate(c) \/ Open(c) \/
      Subscribe(c) \/ GiveUp(c) \/ Leave(c) \/ Attach(c) \/ AttachReady(c) \/ WaitEnds(c) \/
      Detach(c) \/ DetachStops(c) \/ DetachStopped(c) \/ EngineCloses(c) \/ OnStop(c) \/
      StartReturns(c) \/ StopDevice(c) \/ LateStop(c) \/ StopTimesOut(c) \/ DeviceEnds(c) \/
      StopSession(c) \/ StopBroadcast(c)
      PROVE  UNCHANGED <<routeSources, routeCreates>>
  BY <1>4, ZenonT(60) DEF Acquire, Goto, CheckAlive, Evict, Joined, RouteReuse, DeviceAcquired,
      RetryRoutes, CompleteCreate, Open, Subscribe, GiveUp, NextRoute, Leave, Attach, SrcTo,
      unchangedBySource, AttachReady, WaitEnds, Detach, DetachStops, BeginStop, DetachStopped,
      EngineCloses, OnStop, StartReturns, unchangedByBroadcast, StopDevice, LateStop,
      StopTimesOut, DeviceEnds, StopSession, unchangedByShutdown, StopBroadcast, poolVars
<1>5. CASE BeginShutdown \/ CreatesSettled \/ SessionStopped \/ SessionsStopped \/
      BroadcastStopped \/ ShutdownReturns
  <2>1. UNCHANGED <<routeSources, routeCreates>>
    BY <1>5, ZenonT(60) DEF BeginShutdown, unchangedByShutdown, CreatesSettled, SessionStopped,
        SessionsStopped, BroadcastStopped, ShutdownReturns, poolVars
  <2>2. QED
    BY <2>1, <1>3, Zenon
<1>6. CASE UNCHANGED vars
  BY <1>3, <1>6, Zenon DEF vars, poolVars
<1>7. QED
  BY <1>1, <1>2, <1>3, <1>4, <1>5, <1>6, StepKinds, Zenon

\* Every step keeps the types of the broadcasts.
LEMMA BroadcastsTyped ==
  ASSUME PlaceInv, [Next]_vars
  PROVE  BroadcastTypes'
<1>0. /\ BroadcastTypes /\ \A c \in Clients : RouteOf(c) \in RouteIds
      /\ \A c \in Clients : src[c] # "none" => source[c] \in Clients
  BY RouteTyped, Zenon DEF PlaceInv, TypeOK, EnginesOK
<1>1. ASSUME NEW c \in Clients, DetachStops(c) \/ StopBroadcast(c) \/ DeviceEnds(c) \/
      LateStop(c)
      PROVE  BroadcastTypes'
  BY <1>0, <1>1, SMTT(60) DEF DetachStops, SrcTo, unchangedBySource, BeginStop, StopBroadcast,
      unchangedByShutdown, DeviceEnds, unchangedByBroadcast, LateStop, broadcastVars,
      BroadcastTypes
<1>2. ASSUME NEW c \in Clients, DeviceAcquired(c) \/ StartReturns(c) \/ StopDevice(c) \/
      StopTimesOut(c)
      PROVE  BroadcastTypes'
  BY <1>0, <1>2, SMTT(60) DEF DeviceAcquired, Goto, StartReturns, unchangedByBroadcast,
      StopDevice, StopTimesOut, broadcastVars, BroadcastTypes
<1>3. ASSUME NEW c \in Clients, Detach(c) \/ Attach(c) \/ RemoveRouteSource(c)
      PROVE  BroadcastTypes'
  BY <1>0, <1>3, SMTT(60) DEF Detach, SrcTo, unchangedBySource, Attach, RemoveRouteSource,
      unchangedByBroadcast, broadcastVars, BroadcastTypes
<1>4. CASE UNCHANGED <<route, refs, starting, bStopped, stopping, late, device>>
  BY <1>0, <1>4, Zenon DEF BroadcastTypes
<1>5. ASSUME NEW c \in Clients, Acquire(c) \/ CheckAlive(c) \/ Evict(c) \/ Joined(c) \/
      RouteReuse(c) \/ RouteClaim(c) \/ DeviceRefused(c) \/ Commit(c) \/ FinishCreate(c) \/
      RetryRoutes(c) \/ CompleteCreate(c) \/ Open(c) \/ Subscribe(c) \/ GiveUp(c) \/ Leave(c) \/
      AttachReady(c) \/ WaitEnds(c) \/ DetachStopped(c) \/ EngineCloses(c) \/ OnStop(c) \/
      StopSession(c)
      PROVE  UNCHANGED <<route, refs, starting, bStopped, stopping, late, device>>
  BY <1>5, ZenonT(60) DEF Acquire, Goto, CheckAlive, Evict, Joined, RouteReuse, RouteClaim,
      DeviceRefused, NextRoute, Commit, FinishCreate, RetryRoutes, CompleteCreate, Open,
      Subscribe, GiveUp, Leave, AttachReady, SrcTo, unchangedBySource, WaitEnds, DetachStopped,
      EngineCloses, OnStop, StopSession, unchangedByShutdown, broadcastVars
<1>6. CASE BeginShutdown \/ CreatesSettled \/ SessionStopped \/ SessionsStopped \/
      BroadcastStopped \/ ShutdownReturns
  <2>1. UNCHANGED <<route, refs, starting, bStopped, stopping, late, device>>
    BY <1>6, ZenonT(60) DEF BeginShutdown, unchangedByShutdown, CreatesSettled, SessionStopped,
        SessionsStopped, BroadcastStopped, ShutdownReturns, broadcastVars
  <2>2. QED
    BY <2>1, <1>4, Zenon
<1>7. CASE UNCHANGED vars
  BY <1>4, <1>7, Zenon DEF vars, broadcastVars
<1>8. QED
  BY <1>1, <1>2, <1>3, <1>4, <1>5, <1>6, <1>7, StepKinds, Zenon

\* Every step keeps the types of Shutdown.
LEMMA ShutdownTyped ==
  ASSUME PlaceInv, [Next]_vars
  PROVE  ShutdownTypes'
<1>0. /\ ShutdownTypes /\ registry \in [Keys -> Some] /\ creates \in [Keys -> Some]
      /\ routeSources \in [RouteIds -> Some]
  BY Zenon DEF PlaceInv, TypeOK, RegistryTypes, PoolTypes
<1>1. ASSUME NEW c \in Clients, StopSession(c) \/ StopBroadcast(c) PROVE ShutdownTypes'
  BY <1>0, <1>1, ZenonT(60) DEF StopSession, unchangedByShutdown, StopBroadcast, BeginStop, sdVars,
      ShutdownTypes, Some
<1>2. CASE ShutdownReturns \/ CreatesSettled \/ BeginShutdown \/ SessionsStopped
  BY <1>0, <1>2, ZenonT(60) DEF ShutdownReturns, unchangedByShutdown, CreatesSettled,
      BeginShutdown, SessionsStopped, sdVars, ShutdownTypes, Some
<1>3. CASE SessionStopped \/ BroadcastStopped
  BY <1>0, <1>3, ZenonT(60) DEF SessionStopped, unchangedByShutdown, BroadcastStopped, sdVars,
      ShutdownTypes, Some
<1>4. CASE UNCHANGED <<sd, sdLeft, sdNow, sdExpired>>
  BY <1>0, <1>4, Zenon DEF ShutdownTypes, Some
<1>5. ASSUME NEW c \in Clients, Acquire(c) \/ CheckAlive(c) \/ Evict(c) \/ Joined(c) \/
      RouteReuse(c) \/ RouteClaim(c) \/ DeviceAcquired(c) \/ DeviceRefused(c) \/ Commit(c) \/
      FinishCreate(c) \/ RetryRoutes(c) \/ CompleteCreate(c) \/ Open(c) \/ Subscribe(c) \/
      GiveUp(c) \/ Leave(c) \/ Attach(c) \/ AttachReady(c) \/ WaitEnds(c) \/ Detach(c) \/
      DetachStops(c) \/ DetachStopped(c) \/ EngineCloses(c) \/ OnStop(c) \/ StartReturns(c) \/
      StopDevice(c) \/ RemoveRouteSource(c) \/ LateStop(c) \/ StopTimesOut(c) \/ DeviceEnds(c)
      PROVE  UNCHANGED <<sd, sdLeft, sdNow, sdExpired>>
  BY <1>5, ZenonT(60) DEF Acquire, Goto, CheckAlive, Evict, Joined, RouteReuse, RouteClaim,
      DeviceAcquired, DeviceRefused, NextRoute, Commit, FinishCreate, RetryRoutes, CompleteCreate,
      Open, Subscribe, GiveUp, Leave, Attach, SrcTo, unchangedBySource, AttachReady, WaitEnds,
      Detach, DetachStops, BeginStop, DetachStopped, EngineCloses, OnStop, StartReturns,
      unchangedByBroadcast, StopDevice, RemoveRouteSource, LateStop, StopTimesOut, DeviceEnds,
      sdVars
<1>6. CASE UNCHANGED vars
  BY <1>4, <1>6, Zenon DEF vars, sdVars
<1>7. QED
  BY <1>1, <1>2, <1>3, <1>4, <1>5, <1>6, StepKinds, Zenon

(***************************************************************************)
(* Requests, sessions, routes and broadcasts                               *)
(***************************************************************************)
\* A broadcast in the care of the pool stays in it.
LEMMA PooledStays ==
  ASSUME PlaceInv, NEW b \in Clients, Pooled(b), [Next]_vars
  PROVE  Pooled(b)'
<1>0. /\ Pooled(b) /\ pc \in [Clients -> PCs] /\ DOMAIN device = Clients
      /\ pc[b] \in {"finish", "complete"} \cup Opened
  BY Zenon DEF PlaceInv, TypeOK, RequestTypes, BroadcastTypes, RoutesOK, Pooled
<1>1. ASSUME NEW c \in Clients, StartReturns(c) \/ StopDevice(c) \/ LateStop(c) \/ DeviceEnds(c)
      PROVE  Pooled(b)'
  BY <1>0, <1>1, ZenonT(60) DEF StartReturns, unchangedByBroadcast, StopDevice, LateStop,
      DeviceEnds, clientVars, broadcastVars, Pooled, Opened, Answered
<1>2. ASSUME NEW c \in Clients, DeviceAcquired(c) \/ Acquire(c) \/ CheckAlive(c) \/ Evict(c)
      PROVE  Pooled(b)'
  BY <1>0, <1>2, ZenonT(60) DEF DeviceAcquired, Goto, Acquire, CheckAlive, Evict, clientVars,
      broadcastVars, Pooled, Opened, Answered
<1>3. ASSUME NEW c \in Clients, Joined(c) \/ RouteReuse(c) \/ RouteClaim(c) \/ DeviceRefused(c)
      PROVE  Pooled(b)'
  BY <1>0, <1>3, ZenonT(60) DEF Joined, Goto, RouteReuse, RouteClaim, DeviceRefused, NextRoute,
      clientVars, broadcastVars, Pooled, Opened, Answered
<1>4. ASSUME NEW c \in Clients, Commit(c) \/ FinishCreate(c) \/ RetryRoutes(c) \/
      CompleteCreate(c)
      PROVE  Pooled(b)'
  BY <1>0, <1>4, ZenonT(60) DEF Commit, Goto, FinishCreate, RetryRoutes, CompleteCreate,
      clientVars, broadcastVars, Pooled, Opened, Answered
<1>5. ASSUME NEW c \in Clients, Open(c) \/ Subscribe(c) \/ GiveUp(c) \/ Leave(c)
      PROVE  Pooled(b)'
  BY <1>0, <1>5, ZenonT(60) DEF Open, Goto, Subscribe, GiveUp, NextRoute, Leave, clientVars,
      broadcastVars, Pooled, Opened, Answered
<1>6. ASSUME NEW c \in Clients, EngineCloses(c) PROVE Pooled(b)'
  BY <1>0, <1>6, Zenon DEF EngineCloses, clientVars, broadcastVars, Pooled, Opened, Answered
<1>7. CASE UNCHANGED <<pc, device>>
  BY <1>0, <1>7, Zenon DEF Pooled, Opened, Answered
<1>8. ASSUME NEW c \in Clients, Attach(c) \/ AttachReady(c) \/ WaitEnds(c) \/ Detach(c) \/
      DetachStops(c) \/ DetachStopped(c) \/ OnStop(c) \/ RemoveRouteSource(c) \/ StopTimesOut(c)
      \/ StopSession(c) \/ StopBroadcast(c)
      PROVE  UNCHANGED <<pc, device>>
  BY <1>8, ZenonT(60) DEF Attach, SrcTo, unchangedBySource, AttachReady, WaitEnds, Detach,
      DetachStops, BeginStop, DetachStopped, OnStop, RemoveRouteSource, unchangedByBroadcast,
      StopTimesOut, StopSession, unchangedByShutdown, StopBroadcast, clientVars, broadcastVars
<1>9. CASE BeginShutdown \/ CreatesSettled \/ SessionStopped \/ SessionsStopped \/
      BroadcastStopped \/ ShutdownReturns
  <2>1. UNCHANGED <<pc, device>>
    BY <1>9, ZenonT(60) DEF BeginShutdown, unchangedByShutdown, CreatesSettled, SessionStopped,
        SessionsStopped, BroadcastStopped, ShutdownReturns, clientVars, broadcastVars
  <2>2. QED
    BY <2>1, <1>7, Zenon
<1>10. CASE UNCHANGED vars
  BY <1>7, <1>10, Zenon DEF vars, clientVars, broadcastVars
<1>11. QED
  BY <1>1, <1>2, <1>3, <1>4, <1>5, <1>6, <1>7, <1>8, <1>9, <1>10, StepKinds, Zenon

\* Only the commit puts a broadcast in the care of the pool.
LEMMA PooledOnly ==
  ASSUME PlaceInv, NEW b \in Clients, [Next]_vars
  PROVE  Pooled(b)' => Pooled(b) \/ Commit(b)
<1>0. /\ pc \in [Clients -> PCs] /\ DOMAIN device = Clients
      /\ starting[b] # "no" \/ stopping[b] # "no" \/ b \in late => device[b] # "none"
      /\ \A c, s \in Clients : c \in subs[s] => pc[c] = "streaming"
  BY Zenon DEF PlaceInv, TypeOK, RequestTypes, BroadcastTypes, BroadcastsOK, RequestsOK, Pooled
<1>1. ASSUME NEW c \in Clients, StartReturns(c) \/ StopDevice(c) \/ LateStop(c) \/ DeviceEnds(c)
      PROVE  Pooled(b)' => Pooled(b) \/ Commit(b)
  BY <1>0, <1>1, ZenonT(60) DEF StartReturns, unchangedByBroadcast, StopDevice, LateStop,
      DeviceEnds, clientVars, broadcastVars, Pooled
<1>2. ASSUME NEW c \in Clients, DeviceAcquired(c) \/ Acquire(c) \/ CheckAlive(c) \/ Evict(c)
      PROVE  Pooled(b)' => Pooled(b) \/ Commit(b)
  BY <1>0, <1>2, ZenonT(60) DEF DeviceAcquired, Goto, Acquire, CheckAlive, Evict, clientVars,
      broadcastVars, Pooled
<1>3. ASSUME NEW c \in Clients, Joined(c) \/ RouteReuse(c) \/ RouteClaim(c) \/ DeviceRefused(c)
      PROVE  Pooled(b)' => Pooled(b) \/ Commit(b)
  BY <1>0, <1>3, ZenonT(60) DEF Joined, Goto, RouteReuse, RouteClaim, DeviceRefused, NextRoute,
      clientVars, broadcastVars, Pooled
<1>4. ASSUME NEW c \in Clients, Commit(c) \/ FinishCreate(c) \/ RetryRoutes(c) \/
      CompleteCreate(c)
      PROVE  Pooled(b)' => Pooled(b) \/ Commit(b)
  BY <1>0, <1>4, ZenonT(60) DEF Commit, Goto, FinishCreate, RetryRoutes, CompleteCreate,
      clientVars, broadcastVars, Pooled
<1>5. ASSUME NEW c \in Clients, Open(c) \/ Subscribe(c) \/ GiveUp(c) \/ Leave(c)
      PROVE  Pooled(b)' => Pooled(b) \/ Commit(b)
  BY <1>0, <1>5, ZenonT(60) DEF Open, Goto, Subscribe, GiveUp, NextRoute, Leave, clientVars,
      broadcastVars, Pooled
<1>6. ASSUME NEW c \in Clients, EngineCloses(c) PROVE Pooled(b)' => Pooled(b) \/ Commit(b)
  BY <1>0, <1>6, Zenon DEF EngineCloses, clientVars, broadcastVars, Pooled
<1>7. CASE UNCHANGED <<pc, device>>
  BY <1>0, <1>7, Zenon DEF Pooled
<1>8. ASSUME NEW c \in Clients, Attach(c) \/ AttachReady(c) \/ WaitEnds(c) \/ Detach(c) \/
      DetachStops(c) \/ DetachStopped(c) \/ OnStop(c) \/ RemoveRouteSource(c) \/ StopTimesOut(c)
      \/ StopSession(c) \/ StopBroadcast(c)
      PROVE  UNCHANGED <<pc, device>>
  BY <1>8, ZenonT(60) DEF Attach, SrcTo, unchangedBySource, AttachReady, WaitEnds, Detach,
      DetachStops, BeginStop, DetachStopped, OnStop, RemoveRouteSource, unchangedByBroadcast,
      StopTimesOut, StopSession, unchangedByShutdown, StopBroadcast, clientVars, broadcastVars
<1>9. CASE BeginShutdown \/ CreatesSettled \/ SessionStopped \/ SessionsStopped \/
      BroadcastStopped \/ ShutdownReturns
  <2>1. UNCHANGED <<pc, device>>
    BY <1>9, ZenonT(60) DEF BeginShutdown, unchangedByShutdown, CreatesSettled, SessionStopped,
        SessionsStopped, BroadcastStopped, ShutdownReturns, clientVars, broadcastVars
  <2>2. QED
    BY <2>1, <1>7, Zenon
<1>10. CASE UNCHANGED vars
  BY <1>7, <1>10, Zenon DEF vars, clientVars, broadcastVars
<1>11. QED
  BY <1>1, <1>2, <1>3, <1>4, <1>5, <1>6, <1>7, <1>8, <1>9, <1>10, StepKinds, Zenon

\* Every step keeps what a request has.
LEMMA RequestsStep ==
  ASSUME PlaceInv, [Next]_vars
  PROVE  RequestsOK'
<1>0. /\ RequestsOK /\ pc \in [Clients -> PCs] /\ session \in [Clients -> Some]
      /\ attempt \in [Clients -> 0 .. MaxAttempts] /\ subs \in [Clients -> SUBSET Clients]
      /\ registry \in [Keys -> Some] /\ creates \in [Keys -> Some] /\ Key \in [Clients -> Keys]
  BY StreamAssumption, Zenon DEF PlaceInv, TypeOK, RequestTypes, RegistryTypes, SessionTypes
<1>1. ASSUME NEW c \in Clients, Evict(c) \/ CheckAlive(c) \/ Joined(c) \/ RouteReuse(c)
      PROVE  RequestsOK'
  BY <1>0, <1>1, SMTT(60) DEF Evict, Goto, CheckAlive, Joined, RouteReuse, clientVars,
      sessionVars, RequestsOK, Some, MaxAttempts
<1>2. ASSUME NEW c \in Clients, RouteClaim(c) \/ DeviceAcquired(c) \/ DeviceRefused(c) \/
      Commit(c)
      PROVE  RequestsOK'
  BY <1>0, <1>2, ZenonT(60) DEF RouteClaim, Goto, DeviceAcquired, DeviceRefused, NextRoute, Commit,
      clientVars, sessionVars, RequestsOK, Some, MaxAttempts
<1>3. ASSUME NEW c \in Clients, FinishCreate(c) \/ RetryRoutes(c) \/ Open(c) \/ GiveUp(c)
      PROVE  RequestsOK'
  BY <1>0, <1>3, ZenonT(60) DEF FinishCreate, Goto, RetryRoutes, Open, GiveUp, NextRoute,
      clientVars, sessionVars, RequestsOK, Some, MaxAttempts
<1>4. ASSUME NEW c \in Clients, Acquire(c) \/ CompleteCreate(c) \/ Subscribe(c) \/ Leave(c)
      PROVE  RequestsOK'
  BY <1>0, <1>4, SMTT(60) DEF Acquire, Goto, CompleteCreate, Subscribe, Leave, clientVars,
      sessionVars, RequestsOK, Some, MaxAttempts
<1>5. ASSUME NEW c \in Clients, EngineCloses(c) PROVE RequestsOK'
  BY <1>0, <1>5 DEF EngineCloses, clientVars, sessionVars, RequestsOK, Some, MaxAttempts
<1>6. CASE UNCHANGED <<attempt, pc, session, subs>>
  BY <1>0, <1>6, Zenon DEF RequestsOK, Some, MaxAttempts
<1>7. ASSUME NEW c \in Clients, Attach(c) \/ AttachReady(c) \/ WaitEnds(c) \/ Detach(c) \/
      DetachStops(c) \/ DetachStopped(c) \/ OnStop(c) \/ StartReturns(c) \/ StopDevice(c) \/
      RemoveRouteSource(c) \/ LateStop(c) \/ StopTimesOut(c) \/ DeviceEnds(c) \/ StopSession(c)
      \/ StopBroadcast(c)
      PROVE  UNCHANGED <<attempt, pc, session, subs>>
  BY <1>7, ZenonT(60) DEF Attach, SrcTo, unchangedBySource, AttachReady, WaitEnds, Detach,
      DetachStops, BeginStop, DetachStopped, OnStop, StartReturns, unchangedByBroadcast,
      StopDevice, RemoveRouteSource, LateStop, StopTimesOut, DeviceEnds, StopSession,
      unchangedByShutdown, StopBroadcast, clientVars, sessionVars
<1>8. CASE BeginShutdown \/ CreatesSettled \/ SessionStopped \/ SessionsStopped \/
      BroadcastStopped \/ ShutdownReturns
  <2>1. UNCHANGED <<attempt, pc, session, subs>>
    BY <1>8, ZenonT(60) DEF BeginShutdown, unchangedByShutdown, CreatesSettled, SessionStopped,
        SessionsStopped, BroadcastStopped, ShutdownReturns, clientVars, sessionVars
  <2>2. QED
    BY <2>1, <1>6, Zenon
<1>9. CASE UNCHANGED vars
  BY <1>6, <1>9, Zenon DEF vars, clientVars, sessionVars
<1>10. QED
  BY <1>1, <1>2, <1>3, <1>4, <1>5, <1>6, <1>7, <1>8, <1>9, StepKinds, Zenon

\* Every step keeps creates and creators in step.
LEMMA CreatesStep ==
  ASSUME PlaceInv, [Next]_vars
  PROVE  CreatesOK'
<1>0. /\ CreatesOK /\ pc \in [Clients -> PCs] /\ outcome \in [Clients -> {"none", "ok", "err"}]
      /\ creates \in [Keys -> Clients \cup {NoOne}] /\ Key \in [Clients -> Keys]
      /\ NoOne \notin Clients
      /\ \A c, s \in Clients : c \in subs[s] => pc[c] = "streaming"
  BY StreamAssumption, Zenon DEF PlaceInv, TypeOK, RequestTypes, RegistryTypes, RequestsOK, Some
<1>a. ASSUME \A d \in Clients : pc'[d] \in Creating <=> pc[d] \in Creating,
             \A d \in Clients : pc'[d] \in Searching => pc[d] \in Searching,
             UNCHANGED <<creates, outcome>>
      PROVE  CreatesOK'
  BY <1>0, <1>a, SMTT(30) DEF CreatesOK
<1>1. ASSUME NEW c \in Clients, CheckAlive(c) \/ Evict(c) PROVE CreatesOK'
  BY <1>0, <1>a, <1>1, SMTT(60) DEF CheckAlive, Goto, Evict, clientVars, registryVars, CreatesOK,
      Creating, Searching
<1>2. ASSUME NEW c \in Clients, Joined(c) \/ RouteReuse(c) PROVE CreatesOK'
  BY <1>0, <1>a, <1>2, SMTT(60) DEF Joined, Goto, RouteReuse, clientVars, registryVars, CreatesOK,
      Creating, Searching
<1>3. ASSUME NEW c \in Clients, RouteClaim(c) \/ DeviceAcquired(c) PROVE CreatesOK'
  BY <1>0, <1>a, <1>3, SMTT(60) DEF RouteClaim, Goto, DeviceAcquired, clientVars, registryVars,
      CreatesOK, Creating, Searching
<1>4. ASSUME NEW c \in Clients, DeviceRefused(c) \/ Commit(c) PROVE CreatesOK'
  BY <1>0, <1>a, <1>4, SMTT(60) DEF DeviceRefused, Goto, NextRoute, Commit, clientVars,
      registryVars, CreatesOK, Creating, Searching
<1>5. ASSUME NEW c \in Clients, FinishCreate(c) \/ RetryRoutes(c) PROVE CreatesOK'
  BY <1>0, <1>a, <1>5, SMTT(60) DEF FinishCreate, Goto, RetryRoutes, clientVars, registryVars,
      CreatesOK, Creating, Searching
<1>6. ASSUME NEW c \in Clients, Open(c) \/ Subscribe(c) PROVE CreatesOK'
  <2>1. /\ pc[c] \in {"open", "subscribe"} /\ pc'[c] \in {"refused", "subscribe", "streaming"}
        /\ \A d \in Clients : d # c => pc'[d] = pc[d]
        /\ UNCHANGED <<creates, outcome>>
    BY <1>0, <1>6, Zenon DEF Open, Subscribe, Goto, registryVars
  <2>2. QED
    BY <1>a, <2>1, Zenon DEF Creating, Searching
<1>7. ASSUME NEW c \in Clients, GiveUp(c) \/ Leave(c) PROVE CreatesOK'
  BY <1>0, <1>a, <1>7, SMTT(60) DEF GiveUp, Goto, NextRoute, Leave, clientVars, registryVars,
      CreatesOK, Creating, Searching
<1>8. ASSUME NEW c \in Clients, EngineCloses(c) PROVE CreatesOK'
  BY <1>0, <1>a, <1>8, Zenon DEF EngineCloses, clientVars, registryVars, CreatesOK, Creating,
      Searching
<1>9. ASSUME NEW c \in Clients, Acquire(c) PROVE CreatesOK'
  BY <1>0, <1>9 DEF Acquire, Goto, CreatesOK, Creating, Searching
<1>10. ASSUME NEW c \in Clients, CompleteCreate(c) PROVE CreatesOK'
  BY <1>0, <1>10 DEF CompleteCreate, Goto, CreatesOK, Creating, Searching
<1>11. CASE UNCHANGED <<pc, creates, outcome>>
  BY <1>0, <1>a, <1>11, Zenon DEF CreatesOK, Creating, Searching
<1>12. ASSUME NEW c \in Clients, Attach(c) \/ AttachReady(c) \/ WaitEnds(c) \/ Detach(c) \/
      DetachStops(c) \/ DetachStopped(c) \/ OnStop(c) \/ StartReturns(c) \/ StopDevice(c) \/
      RemoveRouteSource(c) \/ LateStop(c) \/ StopTimesOut(c) \/ DeviceEnds(c) \/ StopSession(c)
      \/ StopBroadcast(c)
      PROVE  UNCHANGED <<pc, creates, outcome>>
  BY <1>12, ZenonT(60) DEF Attach, SrcTo, unchangedBySource, AttachReady, WaitEnds, Detach,
      DetachStops, BeginStop, DetachStopped, OnStop, StartReturns, unchangedByBroadcast,
      StopDevice, RemoveRouteSource, LateStop, StopTimesOut, DeviceEnds, StopSession,
      unchangedByShutdown, StopBroadcast, clientVars, registryVars
<1>13. CASE BeginShutdown \/ CreatesSettled \/ SessionStopped \/ SessionsStopped \/
      BroadcastStopped \/ ShutdownReturns
  <2>1. UNCHANGED <<pc, creates, outcome>>
    BY <1>13, ZenonT(60) DEF BeginShutdown, unchangedByShutdown, CreatesSettled, SessionStopped,
        SessionsStopped, BroadcastStopped, ShutdownReturns, clientVars, registryVars
  <2>2. QED
    BY <2>1, <1>11, Zenon
<1>14. CASE UNCHANGED vars
  BY <1>11, <1>14, Zenon DEF vars, clientVars, registryVars
<1>15. QED
  BY <1>1, <1>2, <1>3, <1>4, <1>5, <1>6, <1>7, <1>8, <1>9, <1>10, <1>11, <1>12, <1>13, <1>14,
      StepKinds, ZenonT(60)

\* Every step keeps engines on sources of the pool.
LEMMA EnginesStep ==
  ASSUME PlaceInv, [Next]_vars
  PROVE  EnginesOK'
<1>0. /\ EnginesOK /\ NoOne \notin Clients
      /\ pc \in [Clients -> PCs] /\ source \in [Clients -> Clients \cup {NoOne}]
      /\ DOMAIN engine = Clients /\ DOMAIN src = Clients /\ DOMAIN subs = Clients
      /\ \A c, s \in Clients : c \in subs[s] => pc[c] = "streaming"
      /\ \A b \in Clients : Pooled(b) => Pooled(b)'
  BY StreamAssumption, PooledStays, ZenonT(60) DEF PlaceInv, TypeOK, RequestTypes, SessionTypes,
      RequestsOK, Some
<1>1. ASSUME NEW c \in Clients, StartReturns(c) \/ StopDevice(c) \/ LateStop(c) \/ DeviceEnds(c)
      PROVE  EnginesOK'
  BY <1>0, <1>1, ZenonT(60) DEF StartReturns, unchangedByBroadcast, StopDevice, LateStop,
      DeviceEnds, clientVars, sessionVars, broadcastVars, EnginesOK, Opened, Answered
<1>2. ASSUME NEW c \in Clients, DeviceAcquired(c) \/ OnStop(c) \/ StopSession(c) \/
      CompleteCreate(c)
      PROVE  EnginesOK'
  BY <1>0, <1>2, ZenonT(60) DEF DeviceAcquired, Goto, OnStop, StopSession, unchangedByShutdown,
      CompleteCreate, clientVars, sessionVars, broadcastVars, EnginesOK, Opened, Answered
<1>3. ASSUME NEW c \in Clients, Subscribe(c) \/ EngineCloses(c) \/ Leave(c) \/ Acquire(c)
      PROVE  EnginesOK'
  <2>1. CASE Acquire(c)
    <3>1. /\ pc[c] \notin Opened /\ \A d \in Clients : d # c => pc'[d] = pc[d]
          /\ UNCHANGED <<source, engine, subs, src>>
      BY <1>0, <2>1, Zenon DEF Acquire, Goto, sessionVars, Opened, Answered
    <3>2. QED
      BY <1>0, <3>1, Zenon DEF EnginesOK
  <2>2. CASE Subscribe(c)
    <3>1. /\ pc[c] \in Opened /\ pc'[c] \in Opened /\ \A d \in Clients : d # c => pc'[d] = pc[d]
          /\ source' = source
      BY <1>0, <2>2, Zenon DEF Subscribe, Goto, Opened, Answered
    <3>2. CASE engine[session[c]] \in {"idle", "running"}
      <4>1. \A d \in Clients :
              /\ engine'[d] = IF d = session[c] THEN "running" ELSE engine[d]
              /\ d # session[c] => subs'[d] = subs[d] /\ src'[d] = src[d]
        BY <1>0, <2>2, <3>2, Zenon DEF Subscribe
      <4>2. QED
        BY <1>0, <3>1, <3>2, <4>1, ZenonT(60) DEF EnginesOK
    <3>3. CASE engine[session[c]] \notin {"idle", "running"}
      <4>1. UNCHANGED <<engine, subs, src>>
        BY <2>2, <3>3, Zenon DEF Subscribe
      <4>2. QED
        BY <1>0, <3>1, <4>1, Zenon DEF EnginesOK
    <3>4. QED
      BY <3>2, <3>3, Zenon
  <2>3. CASE EngineCloses(c)
    <3>1. /\ \A d \in Clients : pc[d] \in Opened => pc'[d] \in Opened
          /\ source' = source /\ src[c] = "returned" /\ engine'[c] = "closing" /\ subs'[c] = {}
          /\ \A d \in Clients : d # c =>
                 engine'[d] = engine[d] /\ subs'[d] = subs[d] /\ src'[d] = src[d]
      BY <1>0, <2>3, Zenon DEF EngineCloses, Opened, Answered
    <3>2. QED
      BY <1>0, <3>1, Zenon DEF EnginesOK
  <2>4. CASE Leave(c)
    <3>1. /\ \A d \in Clients : pc[d] \in Opened => pc'[d] \in Opened
          /\ source' = source /\ src' = src
      BY <1>0, <2>4, Zenon DEF Leave, Goto, Opened, Answered
    <3>2. \A d \in Clients : subs'[d] # {} => subs[d] # {}
      BY <1>0, <2>4, Zenon DEF Leave
    <3>3. \A d \in Clients : engine'[d] # engine[d] => subs[d] # {} /\ engine'[d] = "stopping"
      BY <1>0, <2>4, Zenon DEF Leave
    <3>4. QED
      BY <1>0, <3>1, <3>2, <3>3, Zenon DEF EnginesOK
  <2>5. QED
    BY <1>3, <2>1, <2>2, <2>3, <2>4, Zenon
<1>4. ASSUME NEW c \in Clients, CheckAlive(c) \/ Evict(c) \/ Joined(c) \/ RouteClaim(c)
      PROVE  EnginesOK'
  BY <1>0, <1>4, ZenonT(60) DEF CheckAlive, Goto, Evict, Joined, RouteClaim, clientVars,
      sessionVars, broadcastVars, EnginesOK, Opened, Answered
<1>5. ASSUME NEW c \in Clients, DeviceRefused(c) \/ FinishCreate(c) \/ RetryRoutes(c) \/ Open(c)
      PROVE  EnginesOK'
  BY <1>0, <1>5, ZenonT(60) DEF DeviceRefused, Goto, NextRoute, FinishCreate, RetryRoutes, Open,
      clientVars, sessionVars, broadcastVars, EnginesOK, Opened, Answered
<1>6. ASSUME NEW c \in Clients, GiveUp(c) \/ Attach(c) \/ AttachReady(c) \/ WaitEnds(c)
      PROVE  EnginesOK'
  BY <1>0, <1>6, ZenonT(60) DEF GiveUp, Goto, NextRoute, Attach, SrcTo, unchangedBySource,
      AttachReady, WaitEnds, clientVars, sessionVars, broadcastVars, EnginesOK, Opened, Answered
<1>7. ASSUME NEW c \in Clients, Detach(c) \/ DetachStops(c) \/ DetachStopped(c) PROVE EnginesOK'
  BY <1>0, <1>7, ZenonT(60) DEF Detach, SrcTo, unchangedBySource, DetachStops, BeginStop,
      DetachStopped, clientVars, sessionVars, broadcastVars, EnginesOK, Opened, Answered
<1>8. ASSUME NEW c \in Clients, RouteReuse(c) PROVE EnginesOK'
  <2>1. /\ routeSources[RouteOf(c)] \in Clients /\ Pooled(routeSources[RouteOf(c)])
        /\ engine[c] = "none"
    <3>1. routeSources[RouteOf(c)] \in Clients /\ RouteOf(c) \in RouteIds
      BY <1>8, RouteTyped, Zenon DEF PlaceInv, TypeOK, PoolTypes, RouteReuse, Some
    <3>2. Pooled(routeSources[RouteOf(c)])
      BY <1>0, <3>1, ZenonT(60) DEF PlaceInv, PoolOK
    <3>3. engine[c] = "none"
      BY <1>0, <1>8, Zenon DEF RouteReuse, EnginesOK, Opened, Answered
    <3>4. QED
      BY <3>1, <3>2, <3>3, Zenon
  <2>2. QED
    BY <1>0, <1>8, <2>1, Zenon DEF RouteReuse, Goto, sessionVars, EnginesOK, Opened, Answered
<1>9. ASSUME NEW c \in Clients, Commit(c) PROVE EnginesOK'
  <2>1. /\ routeSources[route[c]] = NoOne /\ device[c] # "none" /\ engine[c] = "none"
    BY <1>0, <1>9, Zenon DEF PlaceInv, RoutesOK, Commit, EnginesOK, Opened, Answered
  <2>2. Pooled(c)'
    BY <1>0, <1>9, <2>1, Zenon DEF Commit, Goto, Pooled, broadcastVars
  <2>3. QED
    BY <1>0, <1>9, <2>1, <2>2, ZenonT(60) DEF Commit, Goto, sessionVars, EnginesOK, Opened, Answered
<1>10. CASE UNCHANGED <<engine, pc, source, src, subs, device>>
  BY <1>0, <1>10, Zenon DEF EnginesOK, Opened, Answered
<1>11. ASSUME NEW c \in Clients, RemoveRouteSource(c) \/ StopTimesOut(c) \/ StopBroadcast(c)
      PROVE  UNCHANGED <<engine, pc, source, src, subs, device>>
  BY <1>11, ZenonT(60) DEF RemoveRouteSource, unchangedByBroadcast, StopTimesOut, StopBroadcast,
      BeginStop, unchangedByShutdown, clientVars, sessionVars, broadcastVars
<1>12. CASE BeginShutdown \/ CreatesSettled \/ SessionStopped \/ SessionsStopped \/
      BroadcastStopped \/ ShutdownReturns
  <2>1. UNCHANGED <<engine, pc, source, src, subs, device>>
    BY <1>12, ZenonT(60) DEF BeginShutdown, unchangedByShutdown, CreatesSettled, SessionStopped,
        SessionsStopped, BroadcastStopped, ShutdownReturns, clientVars, sessionVars, broadcastVars
  <2>2. QED
    BY <2>1, <1>10, Zenon
<1>13. CASE UNCHANGED vars
  BY <1>10, <1>13, Zenon DEF vars, clientVars, sessionVars, broadcastVars
<1>14. QED
  BY <1>1, <1>2, <1>3, <1>4, <1>5, <1>6, <1>7, <1>8, <1>9, <1>10, <1>11, <1>12, <1>13,
      StepKinds, ZenonT(60)

(***************************************************************************)
(* Routes, the pool and the broadcasts                                     *)
(***************************************************************************)
\* Every step keeps the claims on the routes.
LEMMA RoutesStep ==
  ASSUME PlaceInv, [Next]_vars
  PROVE  RoutesOK'
<1>0. /\ RoutesOK /\ NoOne \notin Clients
      /\ pc \in [Clients -> PCs] /\ DOMAIN device = Clients /\ DOMAIN route = Clients
      /\ DOMAIN routeAt = Clients
      /\ DOMAIN routeCreates = RouteIds /\ DOMAIN routeSources = RouteIds
      /\ \A c \in Clients : RouteOf(c) \in RouteIds
      /\ \A c, s \in Clients : c \in subs[s] => pc[c] = "streaming"
  BY StreamAssumption, RouteTyped, ZenonT(60) DEF PlaceInv, TypeOK, RequestTypes, PoolTypes,
      BroadcastTypes, RequestsOK
<1>a. ASSUME NEW c \in Clients, NEW p \in PCs \ {"device", "commit", "finish"},
             pc' = [pc EXCEPT ![c] = p], p \in {"complete"} \cup Opened \/ device[c] = "none",
             UNCHANGED <<device, route, routeAt, routeCreates, routeSources>>
      PROVE  RoutesOK'
  BY <1>0, <1>a, Zenon DEF RoutesOK, RouteOf
<1>b. ASSUME UNCHANGED <<pc, route, routeAt, routeCreates, routeSources>>,
             \A c \in Clients : device'[c] # "none" => device[c] # "none",
             \A c \in Clients : device[c] # "none" => device'[c] # "none"
      PROVE  RoutesOK'
  BY <1>0, <1>b, Zenon DEF RoutesOK, RouteOf
<1>d. ASSUME NEW c \in Clients, UNCHANGED <<device, route, routeSources>>,
             \A d \in Clients : d # c => pc'[d] = pc[d] /\ RouteOf(d)' = RouteOf(d),
             \A d \in Clients : d # c /\ pc[d] \in {"device", "commit", "finish"} =>
                                    routeCreates'[RouteOf(d)] = d,
             pc'[c] \notin {"device", "commit", "finish"},
             pc'[c] \in {"complete"} \cup Opened \/ device[c] = "none"
      PROVE  RoutesOK'
  BY <1>0, <1>d, ZenonT(60) DEF RoutesOK
<1>c. \A c \in Clients :
          starting[c] # "no" \/ stopping[c] # "no" \/ c \in late => device[c] # "none"
  BY Zenon DEF PlaceInv, BroadcastsOK, Pooled
<1>1. ASSUME NEW c \in Clients, DeviceAcquired(c) \/ Leave(c) \/ EngineCloses(c) \/
      RemoveRouteSource(c)
      PROVE  RoutesOK'
  BY <1>0, <1>1, SMTT(60) DEF DeviceAcquired, Goto, Leave, EngineCloses, RemoveRouteSource,
      unchangedByBroadcast, clientVars, poolVars, broadcastVars, RoutesOK, RouteOf, Opened,
      Answered
<1>2. ASSUME NEW c \in Clients, Acquire(c) PROVE RoutesOK'
  <2>1. PICK p \in PCs \ {"device", "commit", "finish"} :
          pc' = [pc EXCEPT ![c] = p] /\ (p \in {"complete"} \cup Opened \/ device[c] = "none")
    BY <1>0, <1>2, Zenon DEF Acquire, Goto, RoutesOK, PCs, Opened, Answered
  <2>2. QED
    BY <1>a, <1>2, <2>1, Zenon DEF Acquire, clientVars, poolVars, broadcastVars
<1>3. ASSUME NEW c \in Clients, CheckAlive(c) PROVE RoutesOK'
  <2>1. PICK p \in PCs \ {"device", "commit", "finish"} :
          pc' = [pc EXCEPT ![c] = p] /\ (p \in {"complete"} \cup Opened \/ device[c] = "none")
    BY <1>0, <1>3, Zenon DEF CheckAlive, Goto, RoutesOK, PCs, Opened, Answered
  <2>2. QED
    BY <1>a, <1>3, <2>1, Zenon DEF CheckAlive, clientVars, poolVars, broadcastVars
<1>4. ASSUME NEW c \in Clients, Evict(c) PROVE RoutesOK'
  <2>1. PICK p \in PCs \ {"device", "commit", "finish"} :
          pc' = [pc EXCEPT ![c] = p] /\ (p \in {"complete"} \cup Opened \/ device[c] = "none")
    BY <1>0, <1>4, Zenon DEF Evict, Goto, RoutesOK, PCs, Opened, Answered
  <2>2. QED
    BY <1>a, <1>4, <2>1, Zenon DEF Evict, clientVars, poolVars, broadcastVars
<1>5. ASSUME NEW c \in Clients, Joined(c) PROVE RoutesOK'
  <2>1. PICK p \in PCs \ {"device", "commit", "finish"} :
          pc' = [pc EXCEPT ![c] = p] /\ (p \in {"complete"} \cup Opened \/ device[c] = "none")
    BY <1>0, <1>5, Zenon DEF Joined, Goto, RoutesOK, PCs, Opened, Answered
  <2>2. QED
    BY <1>a, <1>5, <2>1, Zenon DEF Joined, clientVars, poolVars, broadcastVars
<1>6. ASSUME NEW c \in Clients, RouteReuse(c) PROVE RoutesOK'
  <2>1. PICK p \in PCs \ {"device", "commit", "finish"} :
          pc' = [pc EXCEPT ![c] = p] /\ (p \in {"complete"} \cup Opened \/ device[c] = "none")
    BY <1>0, <1>6, ZenonT(60) DEF RouteReuse, Goto, RoutesOK, PCs, Opened, Answered
  <2>2. QED
    BY <1>a, <1>6, <2>1, Zenon DEF RouteReuse, clientVars, poolVars, broadcastVars
<1>7. ASSUME NEW c \in Clients, RouteClaim(c) PROVE RoutesOK'
  <2>1. /\ device[c] = "none" /\ routeSources[RouteOf(c)] = NoOne
        /\ routeCreates[RouteOf(c)] = NoOne
    BY <1>0, <1>7, Zenon DEF RouteClaim, RoutesOK, Opened, Answered
  <2>2. /\ UNCHANGED <<device, route, routeAt, routeSources>>
        /\ routeCreates' = [routeCreates EXCEPT ![RouteOf(c)] = c]
        /\ pc'[c] = "device" /\ \A d \in Clients : d # c => pc'[d] = pc[d]
    BY <1>0, <1>7, Zenon DEF RouteClaim, Goto, broadcastVars
  <2>3. \A d \in Clients : RouteOf(d)' = RouteOf(d)
    BY <2>2, Zenon DEF RouteOf
  <2>4. \A d \in Clients : d # c /\ pc[d] \in {"device", "commit", "finish"} =>
                               routeCreates'[RouteOf(d)] = d
    BY <1>0, <2>1, <2>2, ZenonT(60) DEF RoutesOK
  <2>5. QED
    BY <1>0, <2>1, <2>2, <2>3, <2>4, SMTT(30) DEF RoutesOK
<1>8. ASSUME NEW c \in Clients, DeviceRefused(c) PROVE RoutesOK'
  <2>1. device[c] = "none" /\ routeCreates[RouteOf(c)] = c
    BY <1>0, <1>8, Zenon DEF DeviceRefused, RoutesOK, Opened, Answered
  <2>2. UNCHANGED <<device, route, routeSources>>
        /\ routeCreates' = [routeCreates EXCEPT ![RouteOf(c)] = NoOne]
    BY <1>8, Zenon DEF DeviceRefused, broadcastVars
  <2>3. /\ \A d \in Clients : d # c => pc'[d] = pc[d] /\ routeAt'[d] = routeAt[d]
        /\ pc'[c] \in {"route", "pause", "complete"}
    BY <1>0, <1>8, Zenon DEF DeviceRefused, NextRoute, Goto
  <2>4. \A d \in Clients : d # c => RouteOf(d)' = RouteOf(d)
    BY <2>3, Zenon DEF RouteOf
  <2>5. \A d \in Clients : d # c /\ pc[d] \in {"device", "commit", "finish"} =>
                               routeCreates'[RouteOf(d)] = d
    BY <1>0, <2>1, <2>2, Zenon DEF RoutesOK
  <2>6. QED
    BY <1>d, <2>1, <2>2, <2>3, <2>4, <2>5, Zenon
<1>9. ASSUME NEW c \in Clients, Commit(c) PROVE RoutesOK'
  <2>1. pc[c] = "commit" /\ route[c] = RouteOf(c) /\ routeSources[RouteOf(c)] = NoOne
    BY <1>0, <1>9, Zenon DEF Commit, RoutesOK
  <2>2. \A d \in Clients : pc[d] \in {"device", "commit"} /\ d # c => RouteOf(d) # RouteOf(c)
    BY <1>0, <2>1, Zenon DEF RoutesOK
  <2>3. /\ \A r \in RouteIds : r # RouteOf(c) => routeSources'[r] = routeSources[r]
        /\ pc'[c] = "finish" /\ \A d \in Clients : d # c => pc'[d] = pc[d]
        /\ UNCHANGED <<device, route, routeAt, routeCreates>>
    BY <1>0, <1>9, <2>1, Zenon DEF Commit, Goto, clientVars, poolVars, broadcastVars
  <2>4. \A d \in Clients : RouteOf(d)' = RouteOf(d)
    BY <2>3, Zenon DEF RouteOf
  <2>5. QED
    BY <1>0, <2>1, <2>2, <2>3, <2>4 DEF RoutesOK
<1>10. ASSUME NEW c \in Clients, FinishCreate(c) PROVE RoutesOK'
  <2>1. route[c] = RouteOf(c) /\ routeCreates[RouteOf(c)] = c
    BY <1>0, <1>10, Zenon DEF FinishCreate, RoutesOK
  <2>2. /\ UNCHANGED <<device, route, routeAt, routeSources>>
        /\ routeCreates' = [routeCreates EXCEPT ![RouteOf(c)] = NoOne]
        /\ pc'[c] = "complete" /\ \A d \in Clients : d # c => pc'[d] = pc[d]
    BY <1>0, <1>10, <2>1, Zenon DEF FinishCreate, Goto, broadcastVars
  <2>3. \A d \in Clients : RouteOf(d)' = RouteOf(d)
    BY <2>2, Zenon DEF RouteOf
  <2>4. \A d \in Clients : d # c /\ pc[d] \in {"device", "commit", "finish"} =>
                               routeCreates'[RouteOf(d)] = d
    BY <1>0, <2>1, <2>2, Zenon DEF RoutesOK
  <2>5. QED
    BY <1>d, <2>2, <2>3, <2>4, Zenon
<1>11. ASSUME NEW c \in Clients, RetryRoutes(c) PROVE RoutesOK'
  <2>1. UNCHANGED <<device, route, routeSources, routeCreates>>
    BY <1>11, Zenon DEF RetryRoutes, broadcastVars, poolVars
  <2>2. device[c] = "none" \/ pc'[c] = "refused"
    BY <1>0, <1>11, Zenon DEF RetryRoutes, Goto, RoutesOK, Opened, Answered
  <2>3. /\ \A d \in Clients : d # c => pc'[d] = pc[d] /\ routeAt'[d] = routeAt[d]
        /\ pc'[c] \in {"route", "pause", "complete", "refused"}
    BY <1>0, <1>11, Zenon DEF RetryRoutes, NextRoute, Goto
  <2>4. \A d \in Clients : d # c => RouteOf(d)' = RouteOf(d)
    BY <2>3, Zenon DEF RouteOf
  <2>5. QED
    BY <1>0, <1>d, <2>1, <2>2, <2>3, <2>4, Zenon DEF RoutesOK, Opened, Answered
<1>12. ASSUME NEW c \in Clients, CompleteCreate(c) PROVE RoutesOK'
  <2>1. PICK p \in PCs \ {"device", "commit", "finish"} :
          pc' = [pc EXCEPT ![c] = p] /\ (p \in {"complete"} \cup Opened \/ device[c] = "none")
    BY <1>0, <1>12, Zenon DEF CompleteCreate, Goto, RoutesOK, PCs, Opened, Answered
  <2>2. QED
    BY <1>a, <1>12, <2>1, Zenon DEF CompleteCreate, clientVars, poolVars, broadcastVars
<1>13. ASSUME NEW c \in Clients, Open(c) PROVE RoutesOK'
  <2>1. PICK p \in PCs \ {"device", "commit", "finish"} :
          pc' = [pc EXCEPT ![c] = p] /\ (p \in {"complete"} \cup Opened \/ device[c] = "none")
    BY <1>0, <1>13, Zenon DEF Open, Goto, RoutesOK, PCs, Opened, Answered
  <2>2. QED
    BY <1>a, <1>13, <2>1, Zenon DEF Open, clientVars, poolVars, broadcastVars
<1>14. ASSUME NEW c \in Clients, Subscribe(c) PROVE RoutesOK'
  <2>1. PICK p \in PCs \ {"device", "commit", "finish"} :
          pc' = [pc EXCEPT ![c] = p] /\ (p \in {"complete"} \cup Opened \/ device[c] = "none")
    BY <1>0, <1>14, ZenonT(60) DEF Subscribe, Goto, RoutesOK, PCs, Opened, Answered
  <2>2. QED
    BY <1>a, <1>14, <2>1, Zenon DEF Subscribe, clientVars, poolVars, broadcastVars
<1>15. ASSUME NEW c \in Clients, GiveUp(c) PROVE RoutesOK'
  <2>1. UNCHANGED <<device, route, routeSources, routeCreates>>
    BY <1>15, Zenon DEF GiveUp, broadcastVars, poolVars
  <2>2. device[c] = "none" \/ pc'[c] = "refused"
    BY <1>0, <1>15, Zenon DEF GiveUp, Goto, RoutesOK, Opened, Answered
  <2>3. /\ \A d \in Clients : d # c => pc'[d] = pc[d] /\ routeAt'[d] = routeAt[d]
        /\ pc'[c] \in {"route", "pause", "complete", "refused"}
    BY <1>0, <1>15, Zenon DEF GiveUp, NextRoute, Goto
  <2>4. \A d \in Clients : d # c => RouteOf(d)' = RouteOf(d)
    BY <2>3, Zenon DEF RouteOf
  <2>5. QED
    BY <1>0, <1>d, <2>1, <2>2, <2>3, <2>4, Zenon DEF RoutesOK, Opened, Answered
<1>16. ASSUME NEW c \in Clients, StartReturns(c) PROVE RoutesOK'
  BY <1>0, <1>b, <1>c, <1>16, Zenon
     DEF StartReturns, unchangedByBroadcast, clientVars, poolVars, broadcastVars
<1>17. ASSUME NEW c \in Clients, StopDevice(c) PROVE RoutesOK'
  BY <1>0, <1>b, <1>c, <1>17, Zenon
     DEF StopDevice, unchangedByBroadcast, clientVars, poolVars, broadcastVars
<1>18. ASSUME NEW c \in Clients, LateStop(c) PROVE RoutesOK'
  BY <1>0, <1>b, <1>c, <1>18, ZenonT(60) DEF LateStop, unchangedByBroadcast, clientVars, poolVars,
      broadcastVars
<1>19. ASSUME NEW c \in Clients, DeviceEnds(c) PROVE RoutesOK'
  BY <1>0, <1>b, <1>c, <1>19, Zenon
     DEF DeviceEnds, unchangedByBroadcast, clientVars, poolVars, broadcastVars
<1>20. CASE UNCHANGED <<pc, device, route, routeAt, routeCreates, routeSources>>
  BY <1>0, <1>20, Zenon DEF RoutesOK, RouteOf, Opened, Answered
<1>21. ASSUME NEW c \in Clients, Attach(c) \/ AttachReady(c) \/ WaitEnds(c) \/ Detach(c) \/
      DetachStops(c) \/ DetachStopped(c) \/ OnStop(c) \/ StopTimesOut(c) \/ StopSession(c) \/
      StopBroadcast(c)
      PROVE  UNCHANGED <<pc, device, route, routeAt, routeCreates, routeSources>>
  BY <1>21, ZenonT(60) DEF Attach, SrcTo, unchangedBySource, AttachReady, WaitEnds, Detach,
      DetachStops, BeginStop, DetachStopped, OnStop, StopTimesOut, unchangedByBroadcast,
      StopSession, unchangedByShutdown, StopBroadcast, clientVars, poolVars, broadcastVars
<1>22. CASE BeginShutdown \/ CreatesSettled \/ SessionStopped \/ SessionsStopped \/
      BroadcastStopped \/ ShutdownReturns
  <2>1. UNCHANGED <<pc, device, route, routeAt, routeCreates, routeSources>>
    BY <1>22, ZenonT(60) DEF BeginShutdown, unchangedByShutdown, CreatesSettled, SessionStopped,
        SessionsStopped, BroadcastStopped, ShutdownReturns, clientVars, poolVars, broadcastVars
  <2>2. QED
    BY <2>1, <1>20, Zenon
<1>23. CASE UNCHANGED vars
  BY <1>20, <1>23, Zenon DEF vars, clientVars, poolVars, broadcastVars
<1>24. QED
  BY <1>1, <1>2, <1>3, <1>4, <1>5, <1>6, <1>7, <1>8, <1>9, <1>10, <1>11, <1>12, <1>13, <1>14,
      <1>15, <1>16, <1>17, <1>18, <1>19, <1>20, <1>21, <1>22, <1>23, StepKinds, ZenonT(60)

\* Every step keeps the pool.
LEMMA PoolStep ==
  ASSUME PlaceInv, [Next]_vars
  PROVE  PoolOK'
<1>0. /\ PoolOK /\ RoutesOK /\ NoOne \notin Clients /\ pc \in [Clients -> PCs]
      /\ route \in [Clients -> RouteIds \cup {NoOne}] /\ DOMAIN stopping = Clients
      /\ routeSources \in [RouteIds -> Clients \cup {NoOne}]
      /\ \A c \in Clients : RouteOf(c) \in RouteIds
      /\ \A c \in Clients : stopping[c] # "no" => Pooled(c)
  BY StreamAssumption, RouteTyped, ZenonT(60) DEF PlaceInv, TypeOK, RequestTypes, PoolTypes,
      BroadcastTypes, BroadcastsOK, Some
<1>1. ASSUME NEW c \in Clients, Commit(c) PROVE PoolOK'
  <2>1. /\ pc[c] = "commit" /\ route[c] \in RouteIds /\ routeSources[route[c]] = NoOne
        /\ ~Pooled(c) /\ stopping[c] = "no" /\ device[c] # "none"
    BY <1>0, <1>1, Zenon DEF Commit, RoutesOK, Pooled
  <2>2. /\ routeSources' = [routeSources EXCEPT ![route[c]] = c]
        /\ UNCHANGED <<route, stopping>> /\ Pooled(c)'
        /\ \A b \in Clients : b # c => (Pooled(b)' <=> Pooled(b))
    BY <1>0, <1>1, <2>1, Zenon DEF Commit, Goto, broadcastVars, Pooled
  <2>3. /\ routeSources'[route[c]] = c
        /\ \A r \in RouteIds : r # route[c] => routeSources'[r] = routeSources[r]
    BY <1>0, <2>1, <2>2, Zenon
  <2>4. \A b \in Clients : Pooled(b) /\ stopping[b] # "done" =>
            routeSources[route[b]] = b /\ route[b] # route[c] /\ route[b] \in RouteIds
    BY <1>0, <2>1 DEF PoolOK, RoutesOK, Pooled
  <2>5. QED
    BY <1>0, <2>1, <2>2, <2>3, <2>4 DEF PoolOK
<1>2. CASE ~ \E c \in Clients : Commit(c)
  <2>1. \A b \in Clients : Pooled(b)' <=> Pooled(b)
    BY <1>2, PooledStays, PooledOnly, Zenon
  <2>2. ASSUME UNCHANGED <<routeSources, route>>,
               \A b \in Clients : stopping'[b] = "done" <=> stopping[b] = "done"
        PROVE  PoolOK'
    BY <1>0, <2>1, <2>2, SMTT(30) DEF PoolOK
  <2>3. ASSUME NEW c \in Clients, DeviceAcquired(c) PROVE PoolOK'
    <3>1. ~Pooled(c) /\ UNCHANGED <<routeSources, stopping>>
          /\ \A b \in Clients : b # c => route'[b] = route[b]
      BY <1>0, <2>3, Zenon DEF DeviceAcquired, poolVars, RoutesOK, Pooled, Opened, Answered
    <3>2. QED
      BY <1>0, <2>1, <3>1 DEF PoolOK
  <2>4. ASSUME NEW c \in Clients, RemoveRouteSource(c) PROVE PoolOK'
    <3>1. /\ Pooled(c) /\ routeSources[route[c]] = c /\ route[c] \in RouteIds
      BY <1>0, <2>4, Zenon DEF RemoveRouteSource, PoolOK, RoutesOK, Pooled
    <3>2. /\ stopping'[c] = "done" /\ \A b \in Clients : b # c => stopping'[b] = stopping[b]
          /\ route' = route /\ routeSources'[route[c]] = NoOne
          /\ \A r \in RouteIds : r # route[c] => routeSources'[r] = routeSources[r]
      BY <1>0, <2>4, <3>1, Zenon DEF RemoveRouteSource, unchangedByBroadcast
    <3>3. \A b \in Clients : Pooled(b) => route[b] \in RouteIds
      BY <1>0, Zenon DEF RoutesOK, Pooled
    <3>4. QED
      BY <1>0, <2>1, <3>1, <3>2, <3>3 DEF PoolOK
  <2>5. ASSUME NEW c \in Clients,
               \/ DetachStops(c) \/ StopDevice(c) \/ StopTimesOut(c) \/ StopBroadcast(c)
        PROVE  PoolOK'
    <3>1. UNCHANGED <<routeSources, route>>
      BY <2>5, ZenonT(60) DEF DetachStops, StopDevice, StopTimesOut, StopBroadcast, poolVars,
          broadcastVars, unchangedBySource, unchangedByBroadcast, unchangedByShutdown
    <3>2. \A b \in Clients : stopping'[b] = "done" <=> stopping[b] = "done"
      BY <1>0, <2>5, ZenonT(60) DEF DetachStops, StopDevice, StopTimesOut, StopBroadcast, BeginStop,
          PlaceInv, BroadcastsOK
    <3>3. QED
      BY <2>2, <3>1, <3>2, Zenon
  <2>6. ASSUME NEW c \in Clients, Acquire(c) \/ CheckAlive(c) \/ Evict(c) \/ Joined(c) \/
        RouteReuse(c) \/ RouteClaim(c) \/ DeviceRefused(c) \/ FinishCreate(c) \/ RetryRoutes(c)
        \/ CompleteCreate(c) \/ Open(c) \/ Subscribe(c) \/ GiveUp(c) \/ Leave(c) \/ Attach(c) \/
        AttachReady(c) \/ WaitEnds(c) \/ Detach(c) \/ DetachStopped(c) \/ EngineCloses(c) \/
        OnStop(c) \/ StartReturns(c) \/ LateStop(c) \/ DeviceEnds(c) \/ StopSession(c)
        PROVE  UNCHANGED <<routeSources, route, stopping>>
    BY <2>6, ZenonT(60) DEF Acquire, CheckAlive, Evict, Joined, RouteReuse, RouteClaim,
        DeviceRefused, FinishCreate, RetryRoutes, CompleteCreate, Open, Subscribe, GiveUp, Leave,
        Attach, unchangedBySource, AttachReady, WaitEnds, Detach, DetachStopped, EngineCloses,
        OnStop, StartReturns, unchangedByBroadcast, LateStop, DeviceEnds, StopSession,
        unchangedByShutdown, poolVars, broadcastVars
  <2>7. ASSUME \/ BeginShutdown \/ CreatesSettled \/ SessionStopped \/ SessionsStopped
               \/ BroadcastStopped \/ ShutdownReturns \/ UNCHANGED vars
        PROVE  UNCHANGED <<routeSources, route, stopping>>
    BY <2>7, ZenonT(60) DEF BeginShutdown, unchangedByShutdown, CreatesSettled, SessionStopped,
        SessionsStopped, BroadcastStopped, ShutdownReturns, vars, poolVars, broadcastVars
  <2>8. UNCHANGED <<routeSources, route, stopping>> => PoolOK'
    BY <2>2, Zenon
  <2>9. QED
    BY <1>2, <2>3, <2>4, <2>5, <2>6, <2>7, <2>8, StepKinds, Zenon
<1>3. QED
  BY <1>1, <1>2, Zenon

\* Every step keeps the starts and stops of the broadcasts.
LEMMA BroadcastsStep ==
  ASSUME PlaceInv, ShutdownOK, [Next]_vars
  PROVE  BroadcastsOK'
<1>0. /\ BroadcastsOK /\ RoutesOK /\ DOMAIN device = Clients
      /\ DOMAIN stopping = Clients /\ DOMAIN starting = Clients
      /\ \A b \in Clients : Pooled(b) => Pooled(b)'
      /\ \A s \in Clients : src[s] # "none" => source[s] \in Clients /\ Pooled(source[s])
  BY PooledStays, Zenon DEF PlaceInv, TypeOK, BroadcastTypes, EnginesOK
<1>1. ASSUME NEW c \in Clients, DeviceEnds(c) \/ LateStop(c) PROVE BroadcastsOK'
  BY <1>0, <1>1, ZenonT(60) DEF DeviceEnds, unchangedByBroadcast, LateStop, clientVars,
      broadcastVars, BroadcastsOK, Held
<1>2. ASSUME NEW c \in Clients, StopTimesOut(c) \/ Acquire(c) PROVE BroadcastsOK'
  <2>1. CASE StopTimesOut(c)
    <3>1. /\ stopping[c] = "device" /\ starting[c] = "starting" /\ c \in late'
          /\ stopping'[c] = "remove" /\ \A b \in Clients : b # c => stopping'[b] = stopping[b]
          /\ \A b \in Clients : b # c => (b \in late' <=> b \in late)
          /\ UNCHANGED <<starting, bStopped, device, pc>>
      BY <1>0, <2>1, Zenon DEF StopTimesOut, unchangedByBroadcast, clientVars
    <3>2. QED
      BY <1>0, <3>1, Zenon DEF BroadcastsOK, Held
  <2>2. CASE Acquire(c)
    <3>1. UNCHANGED <<bStopped, stopping, starting, late, device>>
      BY <2>2, Zenon DEF Acquire, broadcastVars
    <3>2. QED
      BY <1>0, <3>1, Zenon DEF BroadcastsOK, Held
  <2>3. QED
    BY <1>2, <2>1, <2>2, Zenon
<1>3. ASSUME NEW c \in Clients, CheckAlive(c) \/ Evict(c) PROVE BroadcastsOK'
  BY <1>0, <1>3, Zenon DEF CheckAlive, Goto, Evict, clientVars, broadcastVars, BroadcastsOK, Held
<1>4. ASSUME NEW c \in Clients, Joined(c) \/ RouteReuse(c) PROVE BroadcastsOK'
  BY <1>0, <1>4, Zenon DEF Joined, Goto, RouteReuse, clientVars, broadcastVars, BroadcastsOK, Held
<1>5. ASSUME NEW c \in Clients, RouteClaim(c) \/ DeviceRefused(c) PROVE BroadcastsOK'
  BY <1>0, <1>5, ZenonT(60) DEF RouteClaim, Goto, DeviceRefused, NextRoute, clientVars,
      broadcastVars, BroadcastsOK, Held
<1>6. ASSUME NEW c \in Clients, Commit(c) \/ FinishCreate(c) PROVE BroadcastsOK'
  BY <1>0, <1>6, Zenon DEF Commit, Goto, FinishCreate, clientVars, broadcastVars, BroadcastsOK, Held
<1>7. ASSUME NEW c \in Clients, RetryRoutes(c) \/ CompleteCreate(c) PROVE BroadcastsOK'
  BY <1>0, <1>7, ZenonT(60) DEF RetryRoutes, Goto, CompleteCreate, clientVars, broadcastVars,
      BroadcastsOK, Held
<1>8. ASSUME NEW c \in Clients, Open(c) \/ Subscribe(c) PROVE BroadcastsOK'
  BY <1>0, <1>8, Zenon DEF Open, Goto, Subscribe, clientVars, broadcastVars, BroadcastsOK, Held
<1>9. ASSUME NEW c \in Clients, GiveUp(c) \/ Leave(c) PROVE BroadcastsOK'
  BY <1>0, <1>9, ZenonT(60) DEF GiveUp, Goto, NextRoute, Leave, clientVars, broadcastVars,
      BroadcastsOK, Held
<1>10. ASSUME NEW c \in Clients, EngineCloses(c) \/ RemoveRouteSource(c) PROVE BroadcastsOK'
  BY <1>0, <1>10, ZenonT(60) DEF EngineCloses, RemoveRouteSource, unchangedByBroadcast,
      clientVars, broadcastVars, BroadcastsOK, Held
<1>11. ASSUME NEW c \in Clients, DeviceAcquired(c) PROVE BroadcastsOK'
  <2>1. /\ device[c] = "none" /\ ~Pooled(c) /\ c \notin bStopped /\ c \notin late
        /\ starting[c] = "no" /\ stopping[c] = "no"
    BY <1>0, <1>11, Zenon DEF DeviceAcquired, RoutesOK, BroadcastsOK, Pooled, Opened, Answered
  <2>2. /\ UNCHANGED <<starting, stopping, bStopped, late>> /\ device'[c] = "reserved"
        /\ \A b \in Clients : b # c => device'[b] = device[b]
    BY <1>0, <1>11, Zenon DEF DeviceAcquired
  <2>3. QED
    BY <1>0, <2>1, <2>2, Zenon DEF BroadcastsOK, Held
<1>12. ASSUME NEW c \in Clients, Attach(c) PROVE BroadcastsOK'
  BY <1>0, <1>12, ZenonT(60) DEF Attach, SrcTo, unchangedBySource, clientVars, broadcastVars,
      BroadcastsOK, Held, Pooled
<1>13. ASSUME NEW c \in Clients, DetachStops(c) PROVE BroadcastsOK'
  <2>1. source[c] \in Clients /\ Pooled(source[c])
    BY <1>0, <1>13, Zenon DEF DetachStops
  <2>2. /\ UNCHANGED <<starting, late, device>>
        /\ \/ UNCHANGED <<bStopped, stopping>>
           \/ /\ source[c] \notin bStopped /\ bStopped' = bStopped \cup {source[c]}
              /\ stopping' = [stopping EXCEPT ![source[c]] = "device"]
    BY <1>13, Zenon DEF DetachStops, BeginStop
  <2>3. QED
    BY <1>0, <2>1, <2>2 DEF BroadcastsOK, Held
<1>14. ASSUME NEW c \in Clients, StartReturns(c) PROVE BroadcastsOK'
  BY <1>0, <1>14, ZenonT(60) DEF StartReturns, unchangedByBroadcast, clientVars, broadcastVars,
      BroadcastsOK, Held, Pooled
<1>15. ASSUME NEW c \in Clients, StopDevice(c) PROVE BroadcastsOK'
  BY <1>0, <1>15, ZenonT(60) DEF StopDevice, unchangedByBroadcast, clientVars, broadcastVars,
      BroadcastsOK, Held, Pooled
<1>16. ASSUME NEW c \in Clients, StopBroadcast(c) PROVE BroadcastsOK'
  BY <1>0, <1>16, ShutdownOK, ZenonT(60) DEF StopBroadcast, BeginStop, unchangedByShutdown,
      clientVars, broadcastVars, BroadcastsOK, Held, ShutdownOK
<1>17. CASE UNCHANGED <<bStopped, stopping, starting, device, pc, late>>
  BY <1>0, <1>17, Zenon DEF BroadcastsOK, Held
<1>18. ASSUME NEW c \in Clients, AttachReady(c) \/ WaitEnds(c) \/ Detach(c) \/ DetachStopped(c)
      \/ OnStop(c) \/ StopSession(c)
      PROVE  UNCHANGED <<bStopped, stopping, starting, device, pc, late>>
  BY <1>18, ZenonT(60) DEF AttachReady, SrcTo, unchangedBySource, WaitEnds, Detach, DetachStopped,
      OnStop, StopSession, unchangedByShutdown, clientVars, broadcastVars
<1>19. CASE BeginShutdown \/ CreatesSettled \/ SessionStopped \/ SessionsStopped \/
      BroadcastStopped \/ ShutdownReturns
  <2>1. UNCHANGED <<bStopped, stopping, starting, device, pc, late>>
    BY <1>19, ZenonT(60) DEF BeginShutdown, unchangedByShutdown, CreatesSettled, SessionStopped,
        SessionsStopped, BroadcastStopped, ShutdownReturns, clientVars, broadcastVars
  <2>2. QED
    BY <2>1, <1>17, Zenon
<1>20. CASE UNCHANGED vars
  BY <1>17, <1>20, Zenon DEF vars, clientVars, broadcastVars
<1>21. QED
  BY <1>1, <1>2, <1>3, <1>4, <1>5, <1>6, <1>7, <1>8, <1>9, <1>10, <1>11, <1>12, <1>13, <1>14,
      <1>15, <1>16, <1>17, <1>18, <1>19, <1>20, StepKinds, ZenonT(60)

(***************************************************************************)
(* Shutdown and the reference counts                                       *)
(***************************************************************************)
\* Only a device acquired makes a tuner held.
LEMMA HeldOnly ==
  ASSUME PlaceInv, NEW b \in Clients, [Next]_vars
  PROVE  b \in Held' => b \in Held \/ DeviceAcquired(b)
<1>0. DOMAIN device = Clients /\ BroadcastsOK
  BY Zenon DEF PlaceInv, TypeOK, BroadcastTypes
<1>1. ASSUME NEW c \in Clients, DeviceAcquired(c) \/ StopDevice(c) \/ LateStop(c) \/
      DeviceEnds(c)
      PROVE  b \in Held' => b \in Held \/ DeviceAcquired(b)
  BY <1>0, <1>1, ZenonT(60) DEF DeviceAcquired, Goto, StopDevice, unchangedByBroadcast, LateStop,
      DeviceEnds, broadcastVars, Held
<1>2. ASSUME NEW c \in Clients, StartReturns(c)
      PROVE  b \in Held' => b \in Held \/ DeviceAcquired(b)
  BY <1>0, <1>2, Zenon DEF StartReturns, unchangedByBroadcast, broadcastVars, Held, BroadcastsOK
<1>3. CASE UNCHANGED <<device>>
  BY <1>0, <1>3, Zenon DEF Held
<1>4. ASSUME NEW c \in Clients, Acquire(c) \/ CheckAlive(c) \/ Evict(c) \/ Joined(c) \/
      RouteReuse(c) \/ RouteClaim(c) \/ DeviceRefused(c) \/ Commit(c) \/ FinishCreate(c) \/
      RetryRoutes(c) \/ CompleteCreate(c) \/ Open(c) \/ Subscribe(c) \/ GiveUp(c) \/ Leave(c) \/
      Attach(c) \/ AttachReady(c) \/ WaitEnds(c) \/ Detach(c) \/ DetachStops(c) \/
      DetachStopped(c) \/ EngineCloses(c) \/ OnStop(c) \/ RemoveRouteSource(c) \/
      StopTimesOut(c) \/ StopSession(c) \/ StopBroadcast(c)
      PROVE  UNCHANGED <<device>>
  BY <1>4, ZenonT(60) DEF Acquire, Goto, CheckAlive, Evict, Joined, RouteReuse, RouteClaim,
      DeviceRefused, NextRoute, Commit, FinishCreate, RetryRoutes, CompleteCreate, Open,
      Subscribe, GiveUp, Leave, Attach, SrcTo, unchangedBySource, AttachReady, WaitEnds, Detach,
      DetachStops, BeginStop, DetachStopped, EngineCloses, OnStop, RemoveRouteSource,
      unchangedByBroadcast, StopTimesOut, StopSession, unchangedByShutdown, StopBroadcast,
      broadcastVars
<1>5. CASE BeginShutdown \/ CreatesSettled \/ SessionStopped \/ SessionsStopped \/
      BroadcastStopped \/ ShutdownReturns
  <2>1. UNCHANGED <<device>>
    BY <1>5, ZenonT(60) DEF BeginShutdown, unchangedByShutdown, CreatesSettled, SessionStopped,
        SessionsStopped, BroadcastStopped, ShutdownReturns, broadcastVars
  <2>2. QED
    BY <2>1, <1>3, Zenon
<1>6. CASE UNCHANGED vars
  BY <1>3, <1>6, Zenon DEF vars, broadcastVars
<1>7. QED
  BY <1>1, <1>2, <1>3, <1>4, <1>5, <1>6, StepKinds, Zenon

\* Every step keeps what Shutdown has settled.
LEMMA ShutdownKept ==
  ASSUME PlaceInv, ShutdownOK, [Next]_vars
  PROVE  ShutdownOK'
<1>0. /\ ShutdownOK /\ CreatesOK /\ NoOne \notin Clients /\ Key \in [Clients -> Keys]
      /\ creates \in [Keys -> Clients \cup {NoOne}] /\ DOMAIN registry = Keys
      /\ sdLeft \subseteq Clients /\ sd \in {"no", "creates", "sessions", "sources", "done"}
  BY StreamAssumption, Zenon DEF PlaceInv, TypeOK, RegistryTypes, ShutdownTypes, Some
<1>1. \A b \in Clients : Pooled(b) => Pooled(b)'
  BY PooledStays, Zenon
<1>2. ~sdExpired /\ sd \in {"sessions", "sources", "done"} => \A b \in Held' : b \in Held
  <2> SUFFICES ASSUME ~sdExpired, sd \in {"sessions", "sources", "done"}, NEW b \in Held'
               PROVE  b \in Held
    BY Zenon
  <2>1. b \in Clients /\ (b \in Held \/ DeviceAcquired(b))
    BY HeldOnly, Zenon DEF Held
  <2>2. ~DeviceAcquired(b)
    <3>1. \A k \in Keys : creates[k] = NoOne
      BY <1>0, Zenon DEF ShutdownOK
    <3>2. pc[b] \notin Creating
      BY <1>0, <2>1, <3>1, ZenonT(60) DEF CreatesOK
    <3>3. QED
      BY <3>2, Zenon DEF DeviceAcquired, Creating
  <2>3. QED
    BY <2>1, <2>2, Zenon
<1>3. ASSUME UNCHANGED <<shuttingDown, sd, sdLeft, sdExpired>>, bStopped \subseteq bStopped',
             \A k \in Keys : creates'[k] \in {NoOne, creates[k]},
             \A k \in Keys : registry'[k] \in {NoOne, registry[k]}
      PROVE  ShutdownOK'
  <2> USE <1>0, <1>3
  <2>1. shuttingDown' <=> sd' # "no"
    BY Zenon DEF ShutdownOK
  <2>2. /\ sd' = "creates" => \A k \in Keys : creates'[k] # NoOne => creates'[k] \in sdLeft'
        /\ sd' \in {"sessions", "sources", "done"} /\ ~sdExpired' =>
               \A k \in Keys : creates'[k] = NoOne
    BY Zenon DEF ShutdownOK
  <2>3. sd' = "sources" => \A b \in sdLeft' : Pooled(b)'
    BY <1>1, Zenon DEF ShutdownOK
  <2>4. sd' = "sources" /\ ~sdExpired' => \A b \in Held' : b \in bStopped' \cup sdLeft'
    BY <1>2, Zenon DEF ShutdownOK
  <2>5. sd' = "done" /\ ~sdExpired' => /\ \A b \in Held' : b \in bStopped'
                                       /\ \A k \in Keys : registry'[k] = NoOne
    BY <1>2, Zenon DEF ShutdownOK
  <2>6. QED
    BY <2>1, <2>2, <2>3, <2>4, <2>5, Zenon DEF ShutdownOK
<1>4. ASSUME NEW c \in Clients, Acquire(c) PROVE ShutdownOK'
  <2>1. UNCHANGED <<shuttingDown, sd, sdLeft, sdExpired, bStopped, registry>>
    BY <1>4, Zenon DEF Acquire, broadcastVars, sdVars
  <2>2. CASE creates' = creates
    BY <1>3, <2>1, <2>2, Zenon
  <2>3. CASE sd = "no"
    BY <1>0, <2>1, <2>3, Zenon DEF ShutdownOK
  <2>4. QED
    BY <1>0, <1>4, <2>2, <2>3, Zenon DEF Acquire, ShutdownOK
<1>5. ASSUME NEW c \in Clients, CompleteCreate(c) PROVE ShutdownOK'
  <2>1. UNCHANGED <<shuttingDown, sd, sdLeft, sdExpired, bStopped>>
    BY <1>5, Zenon DEF CompleteCreate, broadcastVars, sdVars
  <2>2. creates[Key[c]] = c /\ \A k \in Keys : creates'[k] \in {NoOne, creates[k]}
    BY <1>0, <1>5, Zenon DEF CompleteCreate, CreatesOK, Creating
  <2>3. CASE registry' = registry
    BY <1>3, <2>1, <2>2, <2>3, Zenon
  <2>4. CASE sdExpired \/ sd \in {"no", "creates"}
    BY <1>0, <1>1, <2>1, <2>2, <2>4, Zenon DEF ShutdownOK
  <2>5. QED
    BY <1>0, <2>2, <2>4, Zenon DEF ShutdownOK
<1>6. ASSUME NEW c \in Clients, Evict(c) \/ OnStop(c) \/ DetachStops(c) PROVE ShutdownOK'
  <2>1. UNCHANGED <<shuttingDown, sd, sdLeft, sdExpired, creates>>
    BY <1>6, Zenon DEF Evict, OnStop, DetachStops, unchangedBySource, registryVars, sdVars
  <2>2. bStopped \subseteq bStopped'
    BY <1>6, Zenon DEF Evict, OnStop, DetachStops, BeginStop, broadcastVars
  <2>3. \A k \in Keys : registry'[k] \in {NoOne, registry[k]}
    BY <1>0, <1>6, Zenon DEF Evict, OnStop, DetachStops, unchangedBySource, registryVars
  <2>4. QED
    BY <1>3, <2>1, <2>2, <2>3, Zenon
<1>7. CASE BeginShutdown
  <2>1. /\ sd' = "creates" /\ shuttingDown' /\ creates' = creates
        /\ sdLeft' = {creates[k] : k \in Keys} \ {NoOne}
    BY <1>7, Zenon DEF BeginShutdown, unchangedByShutdown
  <2>2. QED
    BY <2>1, Zenon DEF ShutdownOK
<1>8. CASE CreatesSettled
  <2>1. sd = "creates" /\ sd' = "sessions" /\ UNCHANGED <<shuttingDown, creates>>
    BY <1>8, Zenon DEF CreatesSettled, unchangedByShutdown
  <2>2. ~sdExpired' => \A k \in Keys : creates[k] = NoOne
    <3> SUFFICES ASSUME ~sdExpired', NEW k \in Keys, creates[k] # NoOne PROVE FALSE
      BY Zenon
    <3>1. creates[k] \in sdLeft /\ creates[k] \in Clients /\ outcome[creates[k]] = "none"
      BY <1>0, <2>1, Zenon DEF ShutdownOK, CreatesOK
    <3>2. QED
      BY <1>8, <3>1, Zenon DEF CreatesSettled
  <2>3. QED
    BY <1>0, <2>1, <2>2, Zenon DEF ShutdownOK
<1>9. ASSUME NEW s \in Clients, StopSession(s) PROVE ShutdownOK'
  BY <1>0, <1>9, Zenon DEF StopSession, unchangedByShutdown, ShutdownOK
<1>10. CASE SessionStopped \/ BroadcastStopped
  <2>1. UNCHANGED <<shuttingDown, sd, sdLeft, sdExpired, bStopped, creates, registry>>
    BY <1>10, Zenon DEF SessionStopped, BroadcastStopped, unchangedByShutdown
  <2>2. QED
    BY <1>3, <2>1, Zenon
<1>11. CASE SessionsStopped
  <2>1. /\ sd = "sessions" /\ sd' = "sources"
        /\ sdLeft' = {routeSources[r] : r \in RouteIds} \ {NoOne}
        /\ UNCHANGED <<shuttingDown, creates, sdExpired, bStopped, device, pc, routeSources>>
    BY <1>11, Zenon DEF SessionsStopped, unchangedByShutdown, clientVars, poolVars
  <2>2. \A b \in sdLeft' : b \in Clients /\ Pooled(b)
    BY <2>1 DEF PlaceInv, TypeOK, PoolTypes, PoolOK, Some
  <2>3. ASSUME ~sdExpired, NEW b \in Held, b \notin bStopped PROVE b \in sdLeft'
    <3>1. b \in Clients /\ device[b] # "none" /\ pc[b] # "commit"
      <4>1. b \in Clients /\ device[b] # "none"
        BY <2>3, Zenon DEF Held
      <4>2. \A k \in Keys : creates[k] = NoOne
        BY <1>0, <2>1, <2>3, Zenon DEF ShutdownOK
      <4>3. pc[b] \notin Creating
        BY <1>0, <4>1, <4>2, ZenonT(60) DEF CreatesOK
      <4>4. QED
        BY <4>1, <4>3, Zenon DEF Creating
    <3>2. routeSources[route[b]] = b /\ route[b] \in RouteIds
      BY <2>3, <3>1, Zenon DEF PlaceInv, RoutesOK, PoolOK, BroadcastsOK, Pooled
    <3>3. QED
      BY <1>0, <2>1, <3>1, <3>2, Zenon
  <2>4. QED
    BY <1>0, <1>1, <2>1, <2>2, <2>3, Zenon DEF ShutdownOK, Held
<1>12. ASSUME NEW b \in Clients, StopBroadcast(b) PROVE ShutdownOK'
  <2>1. /\ sd = "sources" /\ sdLeft' = sdLeft \ {b} /\ bStopped' = bStopped \cup {b}
        /\ UNCHANGED <<shuttingDown, sd, creates, sdExpired>>
    BY <1>12, Zenon DEF StopBroadcast, BeginStop, unchangedByShutdown
  <2>2. QED
    BY <1>0, <1>1, <1>2, <2>1, Zenon DEF ShutdownOK
<1>13. CASE ShutdownReturns
  <2>1. /\ sd = "sources" /\ sdLeft = {} /\ sd' = "done"
        /\ registry' = [k \in Keys |-> NoOne]
        /\ UNCHANGED <<shuttingDown, creates, sdExpired, bStopped>>
    BY <1>13, Zenon DEF ShutdownReturns, unchangedByShutdown
  <2>2. QED
    BY <1>0, <1>2, <2>1, Zenon DEF ShutdownOK
<1>14. ASSUME NEW c \in Clients, CheckAlive(c) \/ Joined(c) \/ RouteReuse(c) \/ RouteClaim(c) \/
      DeviceAcquired(c) \/ DeviceRefused(c) \/ Commit(c) \/ FinishCreate(c) \/ RetryRoutes(c) \/
      Open(c) \/ Subscribe(c) \/ GiveUp(c) \/ Leave(c) \/ Attach(c) \/ AttachReady(c) \/
      WaitEnds(c) \/ Detach(c) \/ DetachStopped(c) \/ EngineCloses(c) \/ StartReturns(c) \/
      StopDevice(c) \/ RemoveRouteSource(c) \/ LateStop(c) \/ StopTimesOut(c) \/ DeviceEnds(c)
       PROVE  UNCHANGED <<shuttingDown, sd, sdLeft, sdExpired, bStopped, creates, registry>>
  BY <1>14, ZenonT(60) DEF CheckAlive, Joined, RouteReuse, RouteClaim, DeviceAcquired,
      DeviceRefused, Commit, FinishCreate, RetryRoutes, Open, Subscribe, GiveUp, Leave, Attach,
      unchangedBySource, AttachReady, WaitEnds, Detach, DetachStopped, EngineCloses, StartReturns,
      unchangedByBroadcast, StopDevice, RemoveRouteSource, LateStop, StopTimesOut, DeviceEnds,
      registryVars, broadcastVars, sdVars
<1>15. CASE UNCHANGED vars
  <2>1. UNCHANGED <<shuttingDown, sd, sdLeft, sdExpired, bStopped, creates, registry>>
    BY <1>15, Zenon DEF vars, registryVars, broadcastVars, sdVars
  <2>2. QED
    BY <1>3, <2>1, Zenon
<1>16. UNCHANGED <<shuttingDown, sd, sdLeft, sdExpired, bStopped, creates, registry>> => ShutdownOK'
  BY <1>3, Zenon
<1>17. QED
  BY <1>4, <1>5, <1>6, <1>7, <1>8, <1>9, <1>10, <1>11, <1>12, <1>13, <1>14, <1>15, <1>16,
      StepKinds, ZenonT(60)

\* Every step keeps the reference counts.
LEMMA RefsStep ==
  ASSUME PlaceInv, RefsOK, [Next]_vars
  PROVE  RefsOK'
<1>0. /\ RefsOK /\ NoOne \notin Clients /\ source \in [Clients -> Clients \cup {NoOne}]
      /\ DOMAIN src = Clients /\ refs \in [Clients -> Nat]
      /\ \A s \in Clients : src[s] # "none" => source[s] \in Clients
  BY StreamAssumption, Zenon DEF PlaceInv, TypeOK, SessionTypes, BroadcastTypes, EnginesOK, Some
<1>1. ASSUME refs' = refs,
             \A s \in Clients : src'[s] \in {"ready", "wait", "detach"} <=>
                                src[s] \in {"ready", "wait", "detach"},
             \A s \in Clients : src[s] # "none" => source'[s] = source[s]
      PROVE  RefsOK'
  <2>1. \A b \in Clients : AttachedTo(b)' = AttachedTo(b)
    BY <1>1, Zenon DEF AttachedTo
  <2>2. QED
    BY <1>0, <1>1, <2>1, Zenon DEF RefsOK
<1>2. ASSUME NEW s \in Clients, Attach(s) PROVE RefsOK'
  <2>0. PICK b \in Clients : b = source[s]
    BY <1>0, <1>2, Zenon DEF Attach
  <2>1. CASE b \in bStopped
    BY <1>0, <1>1, <1>2, <2>0, <2>1, Zenon DEF Attach, SrcTo, unchangedBySource
  <2>2. CASE b \notin bStopped
    <3>1. /\ src[s] = "attach" /\ src' = [src EXCEPT ![s] = "ready"]
          /\ refs' = [refs EXCEPT ![b] = @ + 1] /\ source' = source
      BY <1>0, <1>2, <2>0, <2>2, Zenon DEF Attach, SrcTo, unchangedBySource
    <3>2. /\ AttachedTo(b)' = AttachedTo(b) \cup {s} /\ s \notin AttachedTo(b)
          /\ \A a \in Clients : a # b => AttachedTo(a)' = AttachedTo(a)
      BY <1>0, <2>0, <3>1, Zenon DEF AttachedTo
    <3>3. /\ IsFiniteSet(AttachedTo(b) \cup {s})
          /\ Cardinality(AttachedTo(b) \cup {s}) = Cardinality(AttachedTo(b)) + 1
      BY <1>0, <3>1, <3>2, FS_AddElement, Zenon DEF RefsOK
    <3>4. refs'[b] = refs[b] + 1 /\ \A a \in Clients : a # b => refs'[a] = refs[a]
      BY <1>0, <3>1, Zenon
    <3>5. IsFiniteSet(AttachedTo(b)') /\ refs'[b] = Cardinality(AttachedTo(b)')
      BY <1>0, <3>2, <3>3, <3>4, Zenon DEF RefsOK
    <3>6. \A a \in Clients : a # b => IsFiniteSet(AttachedTo(a)')
                                      /\ refs'[a] = Cardinality(AttachedTo(a)')
      BY <1>0, <3>2, <3>4, ZenonT(60) DEF RefsOK
    <3>7. QED
      BY <3>5, <3>6, Zenon DEF RefsOK
  <2>3. QED
    BY <2>1, <2>2, Zenon
<1>3. ASSUME NEW s \in Clients, Detach(s) PROVE RefsOK'
  <2>0. PICK b \in Clients : b = source[s]
    BY <1>0, <1>3, Zenon DEF Detach
  <2>1. /\ src[s] = "detach" /\ refs' = [refs EXCEPT ![b] = IF @ > 0 THEN @ - 1 ELSE @]
        /\ src' = [src EXCEPT ![s] = IF refs'[b] = 0 THEN "stop" ELSE "returned"]
        /\ source' = source
    BY <1>0, <1>3, <2>0, Zenon DEF Detach, SrcTo, unchangedBySource
  <2>2. /\ AttachedTo(b)' = AttachedTo(b) \ {s} /\ s \in AttachedTo(b)
        /\ \A a \in Clients : a # b => AttachedTo(a)' = AttachedTo(a)
    BY <1>0, <2>0, <2>1, Zenon DEF AttachedTo
  <2>3. /\ IsFiniteSet(AttachedTo(b) \ {s})
        /\ Cardinality(AttachedTo(b) \ {s}) = Cardinality(AttachedTo(b)) - 1
    BY <1>0, <2>1, <2>2, FS_RemoveElement, Zenon DEF RefsOK
  <2>4. Cardinality(AttachedTo(b)) # 0 /\ refs[b] \in Nat /\ refs[b] = Cardinality(AttachedTo(b))
    BY <1>0, <2>1, <2>2, FS_EmptySet, Zenon DEF RefsOK
  <2>5. refs'[b] = refs[b] - 1 /\ \A a \in Clients : a # b => refs'[a] = refs[a]
    BY <1>0, <2>1, <2>4
  <2>6. QED
    BY <1>0, <2>1, <2>2, <2>3, <2>4, <2>5 DEF RefsOK
<1>4. ASSUME NEW s \in Clients, AttachReady(s) \/ WaitEnds(s) \/ DetachStops(s) \/ DetachStopped(s)
      PROVE  RefsOK'
  BY <1>0, <1>1, <1>4, ZenonT(60) DEF AttachReady, WaitEnds, DetachStops, DetachStopped, SrcTo,
      unchangedBySource, broadcastVars
<1>5. ASSUME NEW s \in Clients, EngineCloses(s) PROVE RefsOK'
  BY <1>0, <1>1, <1>5, Zenon DEF EngineCloses, broadcastVars
<1>6. ASSUME NEW c \in Clients, Subscribe(c) PROVE RefsOK'
  <2>1. session[c] \in Clients /\ (engine[session[c]] = "idle" => src[session[c]] = "none")
    BY <1>6, Zenon DEF Subscribe, PlaceInv, RequestsOK, EnginesOK
  <2>2. refs' = refs /\ source' = source
    BY <1>6, Zenon DEF Subscribe, broadcastVars
  <2>3. \A s \in Clients : src'[s] \in {"ready", "wait", "detach"} <=>
                           src[s] \in {"ready", "wait", "detach"}
    BY <1>0, <1>6, <2>1, Zenon DEF Subscribe
  <2>4. QED
    BY <1>1, <2>2, <2>3, Zenon
<1>7. ASSUME NEW c \in Clients, RouteReuse(c) \/ Commit(c) PROVE RefsOK'
  <2>1. src[c] = "none"
    BY <1>7, Zenon DEF RouteReuse, Commit, PlaceInv, EnginesOK, Opened, Answered
  <2>2. refs' = refs /\ src' = src
    BY <1>7, Zenon DEF RouteReuse, Commit, broadcastVars
  <2>3. \A s \in Clients : s # c => source'[s] = source[s]
    BY <1>0, <1>7, Zenon DEF RouteReuse, Commit
  <2>4. QED
    BY <1>1, <2>1, <2>2, <2>3, Zenon
<1>8. ASSUME NEW c \in Clients, Acquire(c) \/ CheckAlive(c) \/ Evict(c) \/ Joined(c) \/
      RouteClaim(c) \/ DeviceAcquired(c) \/ DeviceRefused(c) \/ FinishCreate(c) \/
      RetryRoutes(c) \/ CompleteCreate(c) \/ Open(c) \/ GiveUp(c) \/ Leave(c) \/ OnStop(c) \/
      StartReturns(c) \/ StopDevice(c) \/ RemoveRouteSource(c) \/ LateStop(c) \/ StopTimesOut(c)
      \/ DeviceEnds(c) \/ StopSession(c) \/ StopBroadcast(c)
      PROVE  UNCHANGED <<refs, src, source>>
  BY <1>8, ZenonT(60) DEF Acquire, CheckAlive, Evict, Joined, RouteClaim, DeviceAcquired,
      DeviceRefused, FinishCreate, RetryRoutes, CompleteCreate, Open, GiveUp, Leave, OnStop,
      StartReturns, unchangedByBroadcast, StopDevice, RemoveRouteSource, LateStop, StopTimesOut,
      DeviceEnds, StopSession, unchangedByShutdown, StopBroadcast, sessionVars, broadcastVars
<1>9. ASSUME BeginShutdown \/ CreatesSettled \/ SessionStopped
             \/ SessionsStopped \/ BroadcastStopped \/ ShutdownReturns \/ UNCHANGED vars
      PROVE  UNCHANGED <<refs, src, source>>
  BY <1>9, ZenonT(60) DEF BeginShutdown, unchangedByShutdown, CreatesSettled, SessionStopped,
      SessionsStopped, BroadcastStopped, ShutdownReturns, vars, sessionVars, broadcastVars
<1>10. UNCHANGED <<refs, src, source>> => RefsOK'
  BY <1>1, Zenon
<1>11. QED
  BY <1>2, <1>3, <1>4, <1>5, <1>6, <1>7, <1>8, <1>9, <1>10, StepKinds, ZenonT(60)

(***************************************************************************)
(* The theorems                                                            *)
(***************************************************************************)
\* The invariant holds at the start.
LEMMA StreamInit == Init => StreamInv
<1> SUFFICES ASSUME Init PROVE StreamInv
  BY Zenon
<1>1. \A c \in Clients : 1 <= Len(Routes[Key[c]])
  BY RoutesCounted
<1>2. TypeOK
  <2>1. RequestTypes
    BY <1>1 DEF Init, RequestTypes, PCs, Some, MaxAttempts
  <2>2. RegistryTypes /\ SessionTypes
    BY Zenon DEF Init, RegistryTypes, SessionTypes, Some
  <2>3. PoolTypes /\ BroadcastTypes /\ ShutdownTypes
    BY Zenon DEF Init, PoolTypes, BroadcastTypes, ShutdownTypes, Some
  <2>4. QED
    BY <2>1, <2>2, <2>3, Zenon DEF TypeOK
<1>3. RequestsOK /\ CreatesOK
  BY DEF Init, RequestsOK, CreatesOK, Creating, MaxAttempts
<1>4. EnginesOK /\ RoutesOK /\ PoolOK /\ BroadcastsOK
  BY StreamAssumption, Zenon DEF Init, EnginesOK, RoutesOK, PoolOK, BroadcastsOK, Pooled, Held
<1>5. ShutdownOK
  BY Zenon DEF Init, ShutdownOK
<1>6. RefsOK
  <2>1. \A b \in Clients : AttachedTo(b) = {}
    BY Zenon DEF Init, AttachedTo
  <2>2. QED
    BY <2>1, FS_EmptySet, Zenon DEF Init, RefsOK
<1>7. QED
  BY <1>2, <1>3, <1>4, <1>5, <1>6, Zenon DEF StreamInv, PlaceInv

\* Every step keeps the invariant.
LEMMA StreamStep == StreamInv /\ [Next]_vars => StreamInv'
<1> SUFFICES ASSUME StreamInv, [Next]_vars PROVE StreamInv'
  BY Zenon
<1>1. PlaceInv /\ ShutdownOK /\ RefsOK
  BY Zenon DEF StreamInv
<1>2. TypeOK'
  BY <1>1, RequestsTyped, RegistryTyped, SessionsTyped, PoolTyped, BroadcastsTyped,
      ShutdownTyped, Zenon DEF TypeOK
<1>3. RequestsOK' /\ CreatesOK' /\ EnginesOK' /\ RoutesOK' /\ PoolOK' /\ BroadcastsOK'
  BY <1>1, RequestsStep, CreatesStep, EnginesStep, RoutesStep, PoolStep, BroadcastsStep, Zenon
<1>4. ShutdownOK' /\ RefsOK'
  BY <1>1, ShutdownKept, RefsStep, Zenon
<1>5. QED
  BY <1>2, <1>3, <1>4, Zenon DEF StreamInv, PlaceInv

\* The invariant of the stream manager: where every request, session, engine
\* and broadcast stands with respect to the registry, the pool and Shutdown.
THEOREM StreamInvariant == Spec => []StreamInv
<1>1. QED
  BY StreamInit, StreamStep, PTL DEF Spec

\* Routes, references and tuners agree (RoutesAccounted): reference counts are
\* the engines attached, no tuner is held outside the pool, and a route never
\* holds two tuners.
THEOREM RoutesCorrect == Spec => []RoutesAccounted
<1>1. ASSUME StreamInv PROVE RoutesAccounted
  <2>1. PlaceInv /\ RefsOK
    BY <1>1, Zenon DEF StreamInv
  <2>2. RefsMatch
    BY <2>1, Zenon DEF RefsOK, RefsMatch
  <2>3. TunersAccounted
    BY <2>1, ZenonT(60) DEF PlaceInv, PoolOK, BroadcastsOK, Pooled, Held, TunersAccounted
  <2>4. OneTunerPerRoute
    <3> SUFFICES ASSUME NEW a \in Held \ late, NEW b \in Held \ late, route[a] = route[b]
                 PROVE  a = b
      BY Zenon DEF OneTunerPerRoute
    <3>1. a \in Clients /\ b \in Clients /\ device[a] # "none" /\ device[b] # "none"
      BY Zenon DEF Held
    <3>2. \A c \in Clients : pc[c] = "commit" =>
              routeCreates[route[c]] = c /\ routeSources[route[c]] = NoOne
      BY <2>1, Zenon DEF PlaceInv, RoutesOK
    <3>3. \A c \in Held : pc[c] = "commit" \/ routeSources[route[c]] = c \/ c \in late
      BY <2>3, Zenon DEF TunersAccounted
    <3>4. NoOne \notin Clients
      BY StreamAssumption, Zenon
    <3>5. QED
      BY <3>1, <3>2, <3>3, <3>4
  <2>5. QED
    BY <2>2, <2>3, <2>4, Zenon DEF RoutesAccounted
<1>2. QED
  BY <1>1, StreamInvariant, PTL

\* A stopped broadcast is never joined (StoppedIsFinal): attach refuses it.
THEOREM StoppedStays == Spec => StoppedIsFinal
<1>1. ASSUME StreamInv, [Next]_vars PROVE \A b \in bStopped : refs'[b] <= refs[b]
  <2>0. /\ refs \in [Clients -> Nat] /\ bStopped \subseteq Clients
    BY <1>1, Zenon DEF StreamInv, PlaceInv, TypeOK, BroadcastTypes
  <2>1. ASSUME NEW s \in Clients, Attach(s) \/ Detach(s)
        PROVE  \A b \in bStopped : refs'[b] <= refs[b]
    BY <2>0, <2>1, SMTT(60) DEF Attach, Detach
  <2>2. refs' = refs => \A b \in bStopped : refs'[b] <= refs[b]
    BY <2>0
  <2>3. ASSUME NEW c \in Clients, Acquire(c) \/ CheckAlive(c) \/ Evict(c) \/ Joined(c) \/
        RouteReuse(c) \/ RouteClaim(c) \/ DeviceAcquired(c) \/ DeviceRefused(c) \/ Commit(c) \/
        FinishCreate(c) \/ RetryRoutes(c) \/ CompleteCreate(c) \/ Open(c) \/ Subscribe(c) \/
        GiveUp(c) \/ Leave(c) \/ AttachReady(c) \/ WaitEnds(c) \/ DetachStops(c) \/
        DetachStopped(c) \/ EngineCloses(c) \/ OnStop(c) \/ StartReturns(c) \/ StopDevice(c) \/
        RemoveRouteSource(c) \/ LateStop(c) \/ StopTimesOut(c) \/ DeviceEnds(c) \/
        StopSession(c) \/ StopBroadcast(c)
        PROVE  refs' = refs
    BY <2>3, ZenonT(60) DEF Acquire, CheckAlive, Evict, Joined, RouteReuse, RouteClaim,
        DeviceAcquired, DeviceRefused, Commit, FinishCreate, RetryRoutes, CompleteCreate, Open,
        Subscribe, GiveUp, Leave, AttachReady, unchangedBySource, WaitEnds, DetachStops,
        DetachStopped, EngineCloses, OnStop, StartReturns, unchangedByBroadcast, StopDevice,
        RemoveRouteSource, LateStop, StopTimesOut, DeviceEnds, StopSession, unchangedByShutdown,
        StopBroadcast, broadcastVars
  <2>4. ASSUME BeginShutdown \/ CreatesSettled \/ SessionStopped
               \/ SessionsStopped \/ BroadcastStopped \/ ShutdownReturns \/ UNCHANGED vars
        PROVE  refs' = refs
    BY <2>4, ZenonT(60) DEF BeginShutdown, unchangedByShutdown, CreatesSettled, SessionStopped,
        SessionsStopped, BroadcastStopped, ShutdownReturns, vars, broadcastVars
  <2>5. QED
    BY <1>1, <2>1, <2>2, <2>3, <2>4, StepKinds, Zenon
<1>2. StreamInv /\ [Next]_vars => [\A b \in bStopped : refs'[b] <= refs[b]]_vars
  BY <1>1, Zenon
<1>3. QED
  BY <1>2, StreamInvariant, PTL DEF Spec, StoppedIsFinal

\* A Shutdown that was not cut short leaves no session, no create and no tuner
\* that is not being stopped (ShutdownReleases).
THEOREM ShutdownLeavesNothing == Spec => []ShutdownReleases
<1>1. StreamInv => ShutdownReleases
  BY Zenon DEF StreamInv, ShutdownOK, ShutdownReleases
<1>2. QED
  BY <1>1, StreamInvariant, PTL
=============================================================================
