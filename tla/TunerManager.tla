--------------------------- MODULE TunerManager ---------------------------
(***************************************************************************)
(* The tuner manager (src/internal/tuner/manager.go, status.go, tuner.go): *)
(* reservation of physical tuners by AcquireDevice, grabbing of a tuner    *)
(* from a lower-priority reservation, release by the managed device, and   *)
(* the users whose priorities protect a reservation.                       *)
(*                                                                         *)
(* One request is one call of AcquireDevice.  A request yields at most one *)
(* managedDevice, which carries the request's name.  Every section of code *)
(* that holds tm.mu is one action; Device.Start and Device.Stop run        *)
(* outside the lock and are split into the call, the return, and the       *)
(* bookkeeping that follows the return.                                    *)
(*                                                                         *)
(* The device behind a managedDevice is modelled by its contract: a local  *)
(* process (device.go) or a receiver on a remote agent (agent/hub.go).     *)
(***************************************************************************)
EXTENDS Integers, FiniteSets, FiniteSetsExt

CONSTANTS
    NumTuners,   \* len(tm.tuners); a tuner is its index
    Types,       \* channel types
    Groups,      \* Groups[t]: the types of tuner t, {} when it is disabled
    Unusable,    \* tuners whose source kind is unsupported
    AgentTuners, \* tuners reached through an agent
    Requests,    \* calls of AcquireDevice
    ReqType,     \* the channel type of a request
    ReqPriority, \* priorityFromContext
    ReqWait,     \* the wait parameter
    Users,       \* user identifiers
    UserPriority,
    MaxRefs,     \* bound on the nested WithUser calls of one user
    NoDevice

Tuners == 0 .. NumTuners - 1

ASSUME ConstAssumption ==
    /\ NumTuners \in Nat \ {0}
    /\ Groups \in [Tuners -> SUBSET Types]
    /\ Unusable \subseteq Tuners
    /\ AgentTuners \subseteq Tuners
    /\ ReqType \in [Requests -> Types]
    /\ ReqPriority \in [Requests -> Int]
    /\ ReqWait \in [Requests -> BOOLEAN]
    /\ UserPriority \in [Users -> Int]
    /\ MaxRefs \in Nat \ {0}
    /\ NoDevice \notin Requests

VARIABLES
    \* tm.runtime and tm.inUse, all under tm.mu
    device,     \* runtime.device, NoDevice when the tuner is not in use
    inUse,      \* the tuners in tm.inUse
    running, stopped, fault,
    priority,   \* runtime.reservationPriority
    users,      \* runtime.users: the reference count of each user
    nextByType,
    \* the agents' side of Tuner.Available
    avail,
    \* AcquireDevice
    pc, victim,
    signalled,  \* requests whose captured tm.changed has been closed
    agentSignalled, \* requests whose captured agents.Changed() has been closed
    \* managedDevice and the device behind it
    dev,        \* where the device's Start and its watcher are
    tunerOf,
    released,   \* devices whose once has fired
    releasing,  \* devices whose Stop has returned, releaseOnce still to run
    live,       \* devices whose process or receiver is running
    ended,      \* Done and Err
    cut,        \* devices stopped or aborted before their Start returned
    \* source.tunerLiveSource.WithUser
    holdOn, hold

runtimeVars == <<device, inUse, running, stopped, fault, priority, users, nextByType>>
acquireVars == <<pc, victim, signalled, agentSignalled>>
deviceVars == <<dev, tunerOf, released, releasing, live, ended, cut>>
holdVars == <<holdOn, hold>>
vars == <<runtimeVars, avail, acquireVars, deviceVars, holdVars>>

\* Where AcquireDevice holds a captured tm.changed, and a captured agentChanged.
Captured == {"grabStop", "grabRelease", "grabError", "grabFailed", "grabWait", "wait"}
AgentCaptured == {"try", "wait"}

PCs == {"idle", "capture", "try", "holding", "failed"} \cup Captured
DevStates == {"none", "idle", "starting", "started", "watching", "done",
              "startFailed", "faulted", "failed"}

(***************************************************************************)
(* Selection of a tuner                                                    *)
(***************************************************************************)
InGroup(ty) == {t \in Tuners : ty \in Groups[t]}
UsableIn(ty) == InGroup(ty) \ Unusable
Candidates(ty) == {t \in UsableIn(ty) : t \notin fault /\ avail[t]}
FreeIn(ty) == Candidates(ty) \ inUse

\* The reservation's priority, raised by the users tracked on the tuner.
EffectivePriority(t) ==
    Max({priority[t]} \cup {UserPriority[u] : u \in {v \in Users : users[t][v] > 0}})

\* The distance of t from the round-robin start of its type.
ScanOffset(ty, t) == (t + NumTuners - nextByType[ty]) % NumTuners

Grabbable(ty, p) == {t \in Candidates(ty) \cap inUse :
                        device[t] # NoDevice /\ p > EffectivePriority(t)}

\* betterGrabCandidate over the whole scan: the lowest, the first of equals.
IsBestGrab(ty, p, t) ==
    /\ t \in Grabbable(ty, p)
    /\ \A u \in Grabbable(ty, p) :
        \/ EffectivePriority(t) < EffectivePriority(u)
        \/ /\ EffectivePriority(t) = EffectivePriority(u)
           /\ ScanOffset(ty, t) <= ScanOffset(ty, u)

(***************************************************************************)
(* Initial state                                                           *)
(***************************************************************************)
Init ==
    /\ device = [t \in Tuners |-> NoDevice]
    /\ inUse = {} /\ running = {} /\ stopped = {} /\ fault = {}
    /\ priority = [t \in Tuners |-> 0]
    /\ users = [t \in Tuners |-> [u \in Users |-> 0]]
    /\ nextByType = [ty \in Types |-> 0]
    /\ avail = [t \in Tuners |-> t \notin AgentTuners]
    /\ pc = [r \in Requests |-> "idle"]
    /\ victim = [r \in Requests |-> NoDevice]
    /\ signalled = {} /\ agentSignalled = {}
    /\ dev = [d \in Requests |-> "none"]
    /\ tunerOf = [d \in Requests |-> 0]
    /\ released = {} /\ releasing = {} /\ live = {} /\ cut = {}
    /\ ended = [d \in Requests |-> "no"]
    /\ holdOn = [u \in Users |-> NoDevice]
    /\ hold = [u \in Users |-> 0]

(***************************************************************************)
(* AcquireDevice                                                           *)
(***************************************************************************)
Begin(r) ==
    /\ pc[r] = "idle"
    /\ pc' = [pc EXCEPT ![r] = "capture"]
    /\ UNCHANGED <<runtimeVars, avail, victim, signalled, agentSignalled, deviceVars, holdVars>>

\* agentChanged := tm.agents.Changed(), taken before the tuners are examined:
\* the hub has its own lock and may change between the two.
CaptureAgentChanged(r) ==
    /\ pc[r] = "capture"
    /\ pc' = [pc EXCEPT ![r] = "try"]
    /\ agentSignalled' = agentSignalled \ {r}
    /\ UNCHANGED <<runtimeVars, avail, victim, signalled, deviceVars, holdVars>>

\* reserveLocked
Reserve(r, t) ==
    /\ device' = [device EXCEPT ![t] = r]
    /\ inUse' = inUse \cup {t}
    /\ running' = running \ {t}
    /\ stopped' = stopped \ {t}
    /\ priority' = [priority EXCEPT ![t] = ReqPriority[r]]
    /\ tunerOf' = [tunerOf EXCEPT ![r] = t]
    /\ dev' = [dev EXCEPT ![r] = "idle"]
    /\ UNCHANGED <<fault, users>>

\* tryAcquireLocked finds a free tuner: the first in round-robin order.
TryReserve(r) ==
    LET ty == ReqType[r] IN
    /\ pc[r] = "try"
    /\ \E t \in FreeIn(ty) :
        /\ \A u \in FreeIn(ty) : ScanOffset(ty, t) <= ScanOffset(ty, u)
        /\ Reserve(r, t)
        /\ nextByType' = [nextByType EXCEPT ![ty] = (t + 1) % NumTuners]
    /\ pc' = [pc EXCEPT ![r] = "holding"]
    /\ agentSignalled' = agentSignalled \ {r}
    /\ UNCHANGED <<avail, victim, signalled, released, releasing, live, ended, cut, holdVars>>

\* tryAcquireLocked finds no free tuner but one to take over.
TryGrab(r) ==
    LET ty == ReqType[r] IN
    /\ pc[r] = "try"
    /\ FreeIn(ty) = {}
    /\ \E t \in Tuners :
        /\ IsBestGrab(ty, ReqPriority[r], t)
        /\ victim' = [victim EXCEPT ![r] = device[t]]
    /\ pc' = [pc EXCEPT ![r] = "grabStop"]
    /\ signalled' = signalled \ {r}
    /\ agentSignalled' = agentSignalled \ {r}
    /\ UNCHANGED <<runtimeVars, avail, deviceVars, holdVars>>

\* tryAcquireLocked finds nothing: ErrTunerNotFound, ErrUnsupportedTuner,
\* ErrTunerUnavailable, or a wait on the channels captured with the attempt.
TryNothing(r) ==
    LET ty == ReqType[r] IN
    /\ pc[r] = "try"
    /\ FreeIn(ty) = {}
    /\ Grabbable(ty, ReqPriority[r]) = {}
    /\ IF UsableIn(ty) # {} /\ ReqWait[r]
       THEN /\ pc' = [pc EXCEPT ![r] = "wait"]
            /\ signalled' = signalled \ {r}
            /\ UNCHANGED agentSignalled
       ELSE /\ pc' = [pc EXCEPT ![r] = "failed"]
            /\ agentSignalled' = agentSignalled \ {r}
            /\ UNCHANGED signalled
    /\ UNCHANGED <<runtimeVars, avail, victim, deviceVars, holdVars>>

\* The selects of AcquireDevice: a closed channel, or the end of the context.
\* What the request had captured is dropped with the attempt.
DropAttempt(r) ==
    /\ victim' = [victim EXCEPT ![r] = NoDevice]
    /\ signalled' = signalled \ {r}
    /\ agentSignalled' = agentSignalled \ {r}

WaitDone(r) ==
    /\ \/ pc[r] = "wait" /\ r \in signalled \cup agentSignalled
       \/ pc[r] = "grabWait" /\ r \in signalled
    /\ pc' = [pc EXCEPT ![r] = "capture"]
    /\ DropAttempt(r)
    /\ UNCHANGED <<runtimeVars, avail, deviceVars, holdVars>>

WaitCancelled(r) ==
    /\ pc[r] \in {"wait", "grabWait", "grabFailed"}
    /\ pc' = [pc EXCEPT ![r] = "failed"]
    /\ DropAttempt(r)
    /\ UNCHANGED <<runtimeVars, avail, deviceVars, holdVars>>

(***************************************************************************)
(* release, markRunning, markStopped, markFault                            *)
(***************************************************************************)

\* release(item): resetReservation and notifyChangedLocked, if in use at all.
Release(t) ==
    IF t \in inUse
    THEN /\ device' = [device EXCEPT ![t] = NoDevice]
         /\ inUse' = inUse \ {t}
         /\ running' = running \ {t}
         /\ stopped' = stopped \ {t}
         /\ fault' = fault \ {t}
         /\ priority' = [priority EXCEPT ![t] = 0]
         /\ users' = [users EXCEPT ![t] = [u \in Users |-> 0]]
         /\ signalled' = signalled \cup {r \in Requests : pc[r] \in Captured}
         /\ UNCHANGED nextByType
    ELSE UNCHANGED <<runtimeVars, signalled>>

\* Mutant: every Stop releases the tuner.
ReleaseAlways(d) == released' = released \cup {d} /\ Release(tunerOf[d])

\* d.once.Do(release): the second and later calls do nothing.
ReleaseOnce(d) ==
    /\ released' = released \cup {d}
    /\ IF d \in released
       THEN UNCHANGED <<runtimeVars, signalled>>
       ELSE Release(tunerOf[d])

\* Mutant: only the tuner is compared.
IsCurrentByTuner(d) == tunerOf[d] \in inUse

\* The condition under which a device may change its tuner's status.
IsCurrent(d) == tunerOf[d] \in inUse /\ device[tunerOf[d]] = d

MarkRunning(d) ==
    /\ running' = IF IsCurrent(d) THEN running \cup {tunerOf[d]} ELSE running
    /\ stopped' = IF IsCurrent(d) THEN stopped \ {tunerOf[d]} ELSE stopped
    /\ UNCHANGED fault

MarkStopped(d) ==
    /\ running' = IF IsCurrent(d) THEN running \ {tunerOf[d]} ELSE running
    /\ stopped' = IF IsCurrent(d) THEN stopped \cup {tunerOf[d]} ELSE stopped
    /\ UNCHANGED fault

MarkFault(d) ==
    /\ running' = IF IsCurrent(d) THEN running \ {tunerOf[d]} ELSE running
    /\ fault' = IF IsCurrent(d) THEN fault \cup {tunerOf[d]} ELSE fault
    /\ UNCHANGED stopped

(***************************************************************************)
(* managedDevice.Start: the call, its two returns, and what follows each.  *)
(***************************************************************************)
IsAgent(d) == tunerOf[d] \in AgentTuners

\* The stream source starts its device once.  An agent device refuses at once
\* when the agent is away or the device was stopped before (hub.go Start).
Start(d) ==
    /\ dev[d] = "idle"
    /\ dev' = [dev EXCEPT ![d] = "starting"]
    /\ cut' = IF IsAgent(d) /\ ~ avail[tunerOf[d]] THEN cut \cup {d} ELSE cut
    /\ UNCHANGED <<runtimeVars, avail, acquireVars, tunerOf, released, releasing, live, ended, holdVars>>

\* Mutant: an agent device starts although it was stopped or aborted before.
StartSucceedsAfterStop(d) ==
    /\ dev[d] = "starting"
    /\ dev' = [dev EXCEPT ![d] = "started"]
    /\ live' = live \cup {d}
    /\ UNCHANGED <<runtimeVars, avail, acquireVars, tunerOf, released, releasing, ended,
                   cut, holdVars>>

\* A local process may come up although Stop has returned meanwhile.
StartSucceeds(d) ==
    /\ dev[d] = "starting"
    /\ IsAgent(d) => d \notin cut
    /\ dev' = [dev EXCEPT ![d] = "started"]
    /\ live' = live \cup {d}
    /\ UNCHANGED <<runtimeVars, avail, acquireVars, tunerOf, released, releasing, ended, cut, holdVars>>

\* An agent start that fails without a confirmed stop quarantines the tuner.
StartFails(d) ==
    /\ dev[d] = "starting"
    /\ dev' = [dev EXCEPT ![d] = "startFailed"]
    /\ \/ UNCHANGED <<avail, live, ended>>
       \/ /\ IsAgent(d) /\ d \notin cut
          /\ avail' = [avail EXCEPT ![tunerOf[d]] = FALSE]
          /\ live' = live \cup {d}
          /\ ended' = [ended EXCEPT ![d] = "err"]
    /\ UNCHANGED <<runtimeVars, acquireVars, tunerOf, released, releasing,
                   cut, holdVars>>

StartedMarkRunning(d) ==
    /\ dev[d] = "started"
    /\ MarkRunning(d)
    /\ dev' = [dev EXCEPT ![d] = "watching"]
    /\ UNCHANGED <<device, inUse, priority, users, nextByType, avail, acquireVars,
                   tunerOf, released, releasing, live, ended, cut, holdVars>>

FailedMarkFault(d) ==
    /\ dev[d] = "startFailed"
    /\ MarkFault(d)
    /\ dev' = [dev EXCEPT ![d] = "faulted"]
    /\ UNCHANGED <<device, inUse, priority, users, nextByType, avail, acquireVars,
                   tunerOf, released, releasing, live, ended, cut, holdVars>>

FailedRelease(d) ==
    /\ dev[d] = "faulted"
    /\ ReleaseOnce(d)
    /\ dev' = [dev EXCEPT ![d] = "failed"]
    /\ UNCHANGED <<avail, pc, victim, agentSignalled, tunerOf, releasing,
                   live, ended, cut, holdVars>>

\* The goroutine waiting for Done.
Watch(d) ==
    /\ dev[d] = "watching"
    /\ ended[d] # "no"
    /\ IF ended[d] = "err" THEN MarkFault(d) ELSE MarkStopped(d)
    /\ dev' = [dev EXCEPT ![d] = "done"]
    /\ UNCHANGED <<device, inUse, priority, users, nextByType, avail, acquireVars,
                   tunerOf, released, releasing, live, ended, cut, holdVars>>

(***************************************************************************)
(* managedDevice.Stop, KillProcess and the grabbing Stop                   *)
(***************************************************************************)
\* An agent device whose stop is not confirmed in time, or whose cleanup failed.
Quarantine(d) ==
    /\ IsAgent(d)
    /\ avail' = [avail EXCEPT ![tunerOf[d]] = FALSE]
    /\ live' = live \cup {d}

\* Mutant: Stop returns without waiting for the process.
BaseStopNoWait(d, err) ==
    /\ ended' = [ended EXCEPT ![d] = IF dev[d] = "watching" THEN "ok" ELSE ended[d]]
    /\ UNCHANGED <<avail, live, cut>>

\* Device.Stop of the device behind d, returning err.
BaseStop(d, err) ==
    \/ /\ dev[d] = "idle" /\ ~ err
       /\ cut' = cut \cup {d}
       /\ UNCHANGED <<avail, live, ended>>
    \/ /\ dev[d] = "starting" /\ err
       /\ cut' = cut \cup {d}
       /\ IF IsAgent(d) /\ d \notin cut
          THEN Quarantine(d) /\ ended' = [ended EXCEPT ![d] = "ok"]
          ELSE UNCHANGED <<avail, live, ended>>
    \/ /\ dev[d] = "starting" /\ IsAgent(d) /\ ~ err      \* the agent confirms
       /\ cut' = cut \cup {d}
       /\ IF d \in cut THEN UNCHANGED ended ELSE ended' = [ended EXCEPT ![d] = "ok"]
       /\ UNCHANGED <<avail, live>>
    \/ /\ dev[d] \notin {"idle", "starting"}
       /\ d \notin live \/ ended[d] # "no"
       /\ UNCHANGED <<avail, live, ended, cut>>
    \/ /\ dev[d] \notin {"idle", "starting"}
       /\ d \in live /\ ended[d] = "no"
       /\ \E res \in {"ok", "err"} : ended' = [ended EXCEPT ![d] = res]
       /\ \/ live' = live \ {d} /\ UNCHANGED avail
          \/ err /\ Quarantine(d)
       /\ UNCHANGED cut

\* Stop by the source that owns the device, at any time, or by a KillProcess
\* that read the device under the lock and stops it after.
Stop(d) ==
    /\ dev[d] # "none"
    /\ \E err \in BOOLEAN : BaseStop(d, err)
    /\ releasing' = releasing \cup ({d} \ released)
    /\ UNCHANGED <<runtimeVars, acquireVars, dev, tunerOf, released, holdVars>>

KillProcess(t) == device[t] # NoDevice /\ Stop(device[t])

StopRelease(d) ==
    /\ d \in releasing
    /\ ReleaseOnce(d)
    /\ releasing' = releasing \ {d}
    /\ UNCHANGED <<avail, pc, victim, agentSignalled, dev, tunerOf, live,
                   ended, cut, holdVars>>

\* Mutant: tm.changed is captured after the victim's Stop.
GrabStopLate(r) ==
    /\ pc[r] = "grabStop"
    /\ \E err \in BOOLEAN :
        /\ BaseStop(victim[r], err)
        /\ pc' = [pc EXCEPT ![r] = IF err THEN "grabError" ELSE "grabRelease"]
    /\ signalled' = signalled \ {r}
    /\ UNCHANGED <<runtimeVars, victim, agentSignalled, dev, tunerOf,
                   released, releasing, holdVars>>

\* attempt.grab.device.Stop(ctx), then its releaseOnce.
GrabStop(r) ==
    /\ pc[r] = "grabStop"
    /\ \E err \in BOOLEAN :
        /\ BaseStop(victim[r], err)
        /\ pc' = [pc EXCEPT ![r] = IF err THEN "grabError" ELSE "grabRelease"]
    /\ UNCHANGED <<runtimeVars, victim, signalled, agentSignalled, dev, tunerOf,
                   released, releasing, holdVars>>

GrabRelease(r) ==
    /\ pc[r] \in {"grabRelease", "grabError"}
    /\ ReleaseOnce(victim[r])
    /\ pc' = [pc EXCEPT ![r] = IF pc[r] = "grabError" THEN "grabFailed" ELSE "grabWait"]
    /\ UNCHANGED <<avail, victim, agentSignalled, dev, tunerOf, releasing,
                   live, ended, cut, holdVars>>

(***************************************************************************)
(* The process or receiver, and the agent hub                              *)
(***************************************************************************)
DeviceEnds(d) ==
    /\ d \in live
    /\ live' = live \ {d}
    /\ \E res \in {"ok", "err"} :
        ended' = [ended EXCEPT ![d] = IF ended[d] = "no" THEN res ELSE ended[d]]
    /\ UNCHANGED <<runtimeVars, avail, acquireVars, dev, tunerOf, released, releasing, cut, holdVars>>

\* hub.disconnect: sessions of the tuner are aborted and the tuner quarantined;
\* the receiver itself may run on.
AgentDown(t) ==
    LET starting == {d \in Requests : dev[d] = "starting" /\ tunerOf[d] = t /\ d \notin cut}
    IN
    /\ t \in AgentTuners /\ avail[t]
    /\ avail' = [avail EXCEPT ![t] = FALSE]
    /\ live' = live \cup starting
    /\ cut' = cut \cup starting
    /\ ended' = [d \in Requests |->
                    IF d \in live \cup starting /\ tunerOf[d] = t /\ ended[d] = "no"
                    THEN "err" ELSE ended[d]]
    /\ agentSignalled' = agentSignalled \cup {r \in Requests : pc[r] \in AgentCaptured}
    /\ UNCHANGED <<runtimeVars, pc, victim, signalled, dev, tunerOf, released, releasing, holdVars>>

\* Mutant: the hub does not notify.
AgentUpSilently(t) ==
    /\ t \in AgentTuners /\ ~ avail[t]
    /\ \A d \in live : tunerOf[d] # t
    /\ avail' = [avail EXCEPT ![t] = TRUE]
    /\ UNCHANGED <<runtimeVars, acquireVars, deviceVars, holdVars>>

\* The agent is back and every receiver of the tuner is known to have exited.
AgentUp(t) ==
    /\ t \in AgentTuners /\ ~ avail[t]
    /\ \A d \in live : tunerOf[d] # t
    /\ avail' = [avail EXCEPT ![t] = TRUE]
    /\ agentSignalled' = agentSignalled \cup {r \in Requests : pc[r] \in AgentCaptured}
    /\ UNCHANGED <<runtimeVars, pc, victim, signalled, deviceVars, holdVars>>

(***************************************************************************)
(* Users: tunerLiveSource.WithUser adds before and removes after its call. *)
(***************************************************************************)
AddUser(d, u) ==
    /\ dev[d] # "none"
    /\ hold[u] = 0 \/ holdOn[u] = d
    /\ hold[u] < MaxRefs
    /\ hold' = [hold EXCEPT ![u] = hold[u] + 1]
    /\ holdOn' = [holdOn EXCEPT ![u] = d]
    /\ users' = [users EXCEPT ![tunerOf[d]][u] = users[tunerOf[d]][u] + 1]
    /\ UNCHANGED <<device, inUse, running, stopped, fault, priority, nextByType, avail,
                   acquireVars, deviceVars>>

\* Mutant: the first removal forgets the user.
RemoveAtOnce(u) ==
    /\ hold[u] > 0
    /\ hold' = [hold EXCEPT ![u] = hold[u] - 1]
    /\ holdOn' = [holdOn EXCEPT ![u] = IF hold[u] = 1 THEN NoDevice ELSE holdOn[u]]
    /\ users' = [users EXCEPT ![tunerOf[holdOn[u]]][u] = 0]
    /\ UNCHANGED <<device, inUse, running, stopped, fault, priority, nextByType, avail,
                   acquireVars, deviceVars>>

\* removeUser: a user the tuner does not track is ignored.
RemoveUser(u) ==
    LET t == tunerOf[holdOn[u]] IN
    /\ hold[u] > 0
    /\ hold' = [hold EXCEPT ![u] = hold[u] - 1]
    /\ holdOn' = [holdOn EXCEPT ![u] = IF hold[u] = 1 THEN NoDevice ELSE holdOn[u]]
    /\ users' = IF users[t][u] = 0 THEN users
                ELSE [users EXCEPT ![t][u] = users[t][u] - 1]
    /\ UNCHANGED <<device, inUse, running, stopped, fault, priority, nextByType, avail,
                   acquireVars, deviceVars>>

(***************************************************************************)
(* Next-state relation                                                     *)
(***************************************************************************)
RequestStep(r) ==
    \/ Begin(r) \/ CaptureAgentChanged(r)
    \/ TryReserve(r) \/ TryGrab(r) \/ TryNothing(r)
    \/ GrabStop(r) \/ GrabRelease(r) \/ WaitDone(r) \/ WaitCancelled(r)

DeviceStep(d) ==
    \/ Start(d) \/ StartSucceeds(d) \/ StartFails(d)
    \/ StartedMarkRunning(d) \/ FailedMarkFault(d) \/ FailedRelease(d) \/ Watch(d)
    \/ Stop(d) \/ StopRelease(d) \/ DeviceEnds(d)

Next ==
    \/ \E r \in Requests : RequestStep(r) \/ DeviceStep(r)
    \/ \E t \in Tuners : KillProcess(t) \/ AgentDown(t) \/ AgentUp(t)
    \/ \E u \in Users : RemoveUser(u) \/ \E d \in Requests : AddUser(d, u)

Spec == Init /\ [][Next]_vars

(***************************************************************************)
(* Properties                                                              *)
(***************************************************************************)
\* The variables keep their types.
TypeOK ==
    /\ device \in [Tuners -> Requests \cup {NoDevice}]
    /\ inUse \subseteq Tuners
    /\ running \subseteq Tuners /\ stopped \subseteq Tuners /\ fault \subseteq Tuners
    /\ priority \in [Tuners -> Int]
    /\ users \in [Tuners -> [Users -> Nat]]
    /\ nextByType \in [Types -> Tuners]
    /\ avail \in [Tuners -> BOOLEAN]
    /\ pc \in [Requests -> PCs]
    /\ victim \in [Requests -> Requests \cup {NoDevice}]
    /\ signalled \subseteq Requests /\ agentSignalled \subseteq Requests
    /\ dev \in [Requests -> DevStates]
    /\ tunerOf \in [Requests -> Tuners]
    /\ released \subseteq Requests
    /\ releasing \subseteq Requests /\ live \subseteq Requests /\ cut \subseteq Requests
    /\ ended \in [Requests -> {"no", "ok", "err"}]
    /\ holdOn \in [Users -> Requests \cup {NoDevice}]
    /\ hold \in [Users -> 0 .. MaxRefs]

\* The devices that have been handed out and not released.
Unreleased == {d \in Requests : dev[d] # "none"} \ released

\* A reserved tuner is the tuner of exactly one unreleased device, the one it
\* records: whatever Stop, KillProcess, grab and failed Start do in whatever
\* order, release(item), which is told the tuner and not the device, only ever
\* ends the reservation of the device whose once it ran under.
ReservationOwned ==
    \A t \in Tuners :
        /\ t \in inUse <=> device[t] # NoDevice
        /\ \A d \in Requests : device[t] = d <=> d \in Unreleased /\ tunerOf[d] = t

\* What a tuner's status says is about its current device: a completion or a
\* failed start of an earlier device never marks the new reservation
\* (the guard of markRunning, markStopped and markFault).
StatusMatchesDevice ==
    /\ \A t \in running : device[t] # NoDevice /\ dev[device[t]] = "watching"
    /\ \A t \in stopped :
        device[t] # NoDevice /\ dev[device[t]] = "done" /\ ended[device[t]] = "ok"
    /\ \A t \in fault :
        /\ device[t] # NoDevice
        /\ \/ dev[device[t]] = "faulted"
           \/ dev[device[t]] = "done" /\ ended[device[t]] = "err"

\* A request that waits with neither of its captured channels closed has no
\* free tuner of its type: the channels are captured before the tuners are
\* examined and every change that frees a tuner closes one of them.
NoLostWakeup ==
    \A r \in Requests :
        pc[r] = "wait" /\ r \notin signalled \cup agentSignalled
            => FreeIn(ReqType[r]) = {}

\* A grabbing request that waits for its victim's release has been notified:
\* the release may have been done by another Stop, but never before the
\* request captured tm.changed, so the request cannot sleep through it.
GrabberIsWoken ==
    \A r \in Requests : pc[r] = "grabWait" => r \in signalled

\* At most one receiver runs on an agent's tuner at a time, reservations that
\* changed hands included, and one that outlives its reservation keeps the tuner
\* out of service: an unconfirmed stop quarantines before it releases.
AgentReceiverExclusive ==
    /\ \A d1, d2 \in live : IsAgent(d1) /\ tunerOf[d1] = tunerOf[d2] => d1 = d2
    /\ \A d \in live \cap released : IsAgent(d) => ~ avail[tunerOf[d]]

\* A local process that outlives its device's reservation was stopped before its
\* Start had returned: every other Stop waits for the process.
LiveAfterReleaseWasCut ==
    \A d \in live \cap released : ~ IsAgent(d) => d \in cut

\* The users a tuner counts are users inside WithUser on a device of that
\* tuner (the current one or, because addUser and removeUser name the tuner
\* and not the device, one released before), never more often than they are
\* nested there, and every user of the current device is counted once per
\* nested call: the removals of earlier devices' users never take a current
\* user's protection away.
UsersTracked ==
    \A t \in Tuners, u \in Users :
        /\ users[t][u] > 0 => /\ holdOn[u] \in Requests /\ tunerOf[holdOn[u]] = t
                              /\ users[t][u] <= hold[u]
        /\ device[t] # NoDevice /\ holdOn[u] = device[t] => users[t][u] = hold[u]

(***************************************************************************)
(* Properties stated by the repository that the code does not have         *)
(***************************************************************************)
\* "NewDeviceByType reserves one physical tuner" (manager.go): no two
\* processes run on one local tuner.
PhysicalTunerExclusive ==
    \A d1, d2 \in live : ~ IsAgent(d1) /\ tunerOf[d1] = tunerOf[d2] => d1 = d2

\* TestTunerManagerHighestActiveUserPriorityProtectsTuner: a request never
\* stops a current device whose effective priority is at least its own.
GrabRespectsUsers ==
    \A r \in Requests :
        pc[r] = "grabStop" /\ IsCurrent(victim[r])
            => EffectivePriority(tunerOf[victim[r]]) < ReqPriority[r]
=============================================================================
