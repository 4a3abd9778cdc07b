------------------------- MODULE TunerManagerProofs -------------------------
(***************************************************************************)
(* The tuner manager, for every number of tuners, requests and users: its  *)
(* types, who owns a reservation, who is woken when one ends, what the     *)
(* status marks say, who protects a tuner, and that processes and          *)
(* receivers that outlive a reservation are awaited.                       *)
(***************************************************************************)
EXTENDS TunerManager, TLAPS

(***************************************************************************)
(* Types and the shape of a request                                        *)
(***************************************************************************)
Grabbing == {"grabStop", "grabRelease", "grabError"}

\* A request has a device exactly when it returned one, a grabbing request has
\* a victim, and only devices that were handed out are released or stopped.
Shape ==
    /\ \A r \in Requests : dev[r] # "none" <=> pc[r] = "holding"
    /\ \A r \in Requests :
        pc[r] \in Grabbing => victim[r] \in Requests /\ dev[victim[r]] # "none"
    /\ \A d \in released \cup releasing : dev[d] # "none"
    /\ \A t \in Tuners : device[t] # NoDevice => dev[device[t]] # "none"
    /\ \A u \in Users : IF hold[u] = 0 THEN holdOn[u] = NoDevice
                       ELSE holdOn[u] \in Requests /\ dev[holdOn[u]] # "none"

TypeInv == TypeOK /\ Shape

\* The round-robin successor of a tuner is a tuner.
LEMMA NextInTuners == ASSUME NEW t \in Tuners PROVE (t + 1) % NumTuners \in Tuners
  BY ConstAssumption DEF Tuners

\* What ReleaseOnce leaves in the variables it may change.
LEMMA ReleaseOnceTyped ==
  ASSUME TypeOK, NEW d \in Requests, ReleaseOnce(d)
  PROVE  /\ device' \in [Tuners -> Requests \cup {NoDevice}]
         /\ \A t \in Tuners : device'[t] \in {device[t], NoDevice}
         /\ inUse' \subseteq inUse
         /\ running' \subseteq running /\ stopped' \subseteq stopped /\ fault' \subseteq fault
         /\ priority' \in [Tuners -> Int]
         /\ users' \in [Tuners -> [Users -> Nat]]
         /\ nextByType' = nextByType
         /\ signalled \subseteq signalled' /\ signalled' \subseteq Requests
         /\ released' = released \cup {d}
<1> DEFINE t == tunerOf[d]
<1>1. CASE d \in released \/ t \notin inUse
  BY <1>1, Zenon DEF ReleaseOnce, Release, TypeOK, runtimeVars
<1>2. CASE d \notin released /\ t \in inUse
  <2>1. /\ device' = [device EXCEPT ![t] = NoDevice]
        /\ inUse' = inUse \ {t} /\ running' = running \ {t}
        /\ stopped' = stopped \ {t} /\ fault' = fault \ {t}
        /\ priority' = [priority EXCEPT ![t] = 0]
        /\ users' = [users EXCEPT ![t] = [u \in Users |-> 0]]
        /\ signalled' = signalled \cup {r \in Requests : pc[r] \in Captured}
        /\ nextByType' = nextByType
        /\ released' = released \cup {d}
    BY <1>2, Zenon DEF ReleaseOnce, Release
  <2>2. t \in Tuners
    BY Zenon DEF TypeOK
  <2> HIDE DEF t
  <2>3. users' \in [Tuners -> [Users -> Nat]]
    <3>1. users \in [Tuners -> [Users -> Nat]]
      BY Zenon DEF TypeOK
    <3>2. [u \in Users |-> 0] \in [Users -> Nat]
      BY Zenon
    <3>3. QED
      BY ONLY <2>1, <3>1, <3>2, <2>2, Zenon
  <2>4. device' \in [Tuners -> Requests \cup {NoDevice}] /\ priority' \in [Tuners -> Int]
    BY <2>1, <2>2 DEF TypeOK
  <2>5. signalled' \subseteq Requests
    BY <2>1, Zenon DEF TypeOK
  <2>6. \A x \in Tuners : device'[x] \in {device[x], NoDevice}
    BY <2>1, <2>2, Zenon DEF TypeOK
  <2>7. QED
    BY <2>1, <2>3, <2>4, <2>5, <2>6, Zenon
<1>3. QED
  BY <1>1, <1>2, Zenon

\* What Device.Stop leaves in the variables it may change.
LEMMA BaseStopTyped ==
  ASSUME TypeOK, NEW d \in Requests, NEW err \in BOOLEAN, BaseStop(d, err)
  PROVE  /\ avail' \in [Tuners -> BOOLEAN]
         /\ live' \subseteq Requests
         /\ ended' \in [Requests -> {"no", "ok", "err"}]
         /\ cut' \subseteq Requests
  BY ZenonT(60) DEF TypeOK, BaseStop, Quarantine, IsAgent

\* The variables keep their types and the requests their shape.
THEOREM TypeCorrect == Spec => []TypeInv
<1>1. Init => TypeInv
  BY ConstAssumption DEF Init, TypeInv, TypeOK, Shape, Tuners, PCs, Captured, DevStates,
     Grabbing
<1>2. TypeInv /\ [Next]_vars => TypeInv'
  <2> SUFFICES ASSUME TypeInv, [Next]_vars PROVE TypeInv'
    BY Zenon
  <2> USE DEF TypeInv, TypeOK, Shape, PCs, Captured, Grabbing, DevStates
  <2>1. CASE UNCHANGED vars
    BY <2>1, Zenon DEF vars, runtimeVars, acquireVars, deviceVars, holdVars
  <2>2. ASSUME NEW r \in Requests, RequestStep(r) PROVE TypeInv'
    <3> USE DEF runtimeVars, deviceVars, holdVars, acquireVars
    <3>1. CASE Begin(r)
      BY <3>1 DEF Begin
    <3>2. CASE CaptureAgentChanged(r)
      BY <3>2 DEF CaptureAgentChanged
    <3>3. CASE TryReserve(r)
      <4> PICK t \in Tuners : /\ Reserve(r, t)
                              /\ nextByType' = [nextByType EXCEPT ![ReqType[r]] =
                                                    (t + 1) % NumTuners]
        BY <3>3, Zenon DEF TryReserve, FreeIn, Candidates, UsableIn, InGroup
      <4>1. nextByType' \in [Types -> Tuners]
        BY NextInTuners, ConstAssumption, Zenon
      <4>2. priority' \in [Tuners -> Int] /\ UNCHANGED <<fault, users>>
        <5>1. ReqPriority[r] \in Int
          BY ConstAssumption, Zenon
        <5>2. priority' = [priority EXCEPT ![t] = ReqPriority[r]] /\ UNCHANGED <<fault, users>>
          BY Zenon DEF Reserve
        <5>3. QED
          BY <5>1, <5>2, Zenon
      <4>3. device' \in [Tuners -> Requests \cup {NoDevice}] /\ tunerOf' \in [Requests -> Tuners]
            /\ inUse' \subseteq Tuners /\ running' \subseteq Tuners /\ stopped' \subseteq Tuners
            /\ dev' = [dev EXCEPT ![r] = "idle"] /\ device' = [device EXCEPT ![t] = r]
        BY Zenon DEF Reserve
      <4>4. /\ pc' = [pc EXCEPT ![r] = "holding"] /\ pc[r] = "try"
            /\ agentSignalled' = agentSignalled \ {r}
            /\ UNCHANGED <<avail, victim, signalled, released, releasing, live, ended, cut,
                           holdOn, hold>>
        BY <3>3, Zenon DEF TryReserve
      <4>5. TypeOK'
        BY <4>1, <4>2, <4>3, <4>4, Zenon
      <4>6. Shape'
        BY <4>3, <4>4
      <4>7. QED
        BY <4>5, <4>6, Zenon
    <3>4. CASE TryGrab(r)
      <4> PICK t \in Tuners : IsBestGrab(ReqType[r], ReqPriority[r], t)
                               /\ victim' = [victim EXCEPT ![r] = device[t]]
        BY <3>4, Zenon DEF TryGrab
      <4>1. device[t] \in Requests
        BY DEF IsBestGrab, Grabbable
      <4>2. /\ pc' = [pc EXCEPT ![r] = "grabStop"] /\ pc[r] = "try"
            /\ signalled' = signalled \ {r} /\ agentSignalled' = agentSignalled \ {r}
            /\ UNCHANGED <<runtimeVars, avail, deviceVars, holdVars>>
        BY <3>4, Zenon DEF TryGrab
      <4>3. TypeOK'
        BY <4>1, <4>2, Zenon
      <4>4. Shape'
        BY <4>1, <4>2, ConstAssumption
      <4>5. QED
        BY <4>3, <4>4, Zenon
    <3>5. CASE TryNothing(r)
      <4>1. /\ pc[r] = "try"
            /\ \E p \in {"wait", "failed"} : pc' = [pc EXCEPT ![r] = p]
            /\ signalled' \subseteq signalled /\ agentSignalled' \subseteq agentSignalled
            /\ UNCHANGED <<runtimeVars, avail, victim, deviceVars, holdVars>>
        BY <3>5 DEF TryNothing
      <4>2. QED
        BY <4>1
    <3>6. CASE GrabStop(r)
      BY <3>6, BaseStopTyped DEF GrabStop
    <3>7. CASE GrabRelease(r)
      BY <3>7, ReleaseOnceTyped DEF GrabRelease
    <3>8. CASE WaitDone(r)
      BY <3>8 DEF WaitDone, DropAttempt
    <3>9. CASE WaitCancelled(r)
      BY <3>9 DEF WaitCancelled, DropAttempt
    <3> HIDE DEF TypeInv, TypeOK, Shape, PCs, Captured, Grabbing, DevStates,
          runtimeVars, deviceVars, holdVars, acquireVars
    <3>10. QED
      BY <2>2, <3>1, <3>2, <3>3, <3>4, <3>5, <3>6, <3>7, <3>8, <3>9, Zenon DEF RequestStep
  <2>3. ASSUME NEW d \in Requests, DeviceStep(d) PROVE TypeInv'
    <3> USE DEF runtimeVars, deviceVars, holdVars, acquireVars
    <3>1. CASE Start(d)
      BY <3>1 DEF Start
    <3>2. CASE StartSucceeds(d)
      BY <3>2 DEF StartSucceeds
    <3>3. CASE StartFails(d)
      <4>1. /\ dev' = [dev EXCEPT ![d] = "startFailed"] /\ dev[d] = "starting"
            /\ UNCHANGED <<runtimeVars, acquireVars, tunerOf, released, releasing, cut, holdVars>>
        BY <3>3, Zenon DEF StartFails
      <4>2. /\ avail' \in [Tuners -> BOOLEAN] /\ live' \subseteq Requests
            /\ ended' \in [Requests -> {"no", "ok", "err"}]
        <5>1. CASE UNCHANGED <<avail, live, ended>>
          BY <5>1, Zenon
        <5>2. CASE /\ avail' = [avail EXCEPT ![tunerOf[d]] = FALSE]
                   /\ live' = live \cup {d}
                   /\ ended' = [ended EXCEPT ![d] = "err"]
          BY <5>2, Zenon
        <5>3. QED
          BY <3>3, <5>1, <5>2, Zenon DEF StartFails
      <4>3. TypeOK'
        BY <4>1, <4>2, Zenon
      <4>4. Shape'
        BY <4>1
      <4>5. QED
        BY <4>3, <4>4, Zenon
    <3>4. CASE StartedMarkRunning(d)
      BY <3>4 DEF StartedMarkRunning, MarkRunning
    <3>5. CASE FailedMarkFault(d)
      BY <3>5, SMTT(30) DEF FailedMarkFault, MarkFault
    <3>6. CASE FailedRelease(d)
      BY <3>6, ReleaseOnceTyped, SMTT(30) DEF FailedRelease
    <3>7. CASE Watch(d)
      BY <3>7, SMTT(30) DEF Watch, MarkFault, MarkStopped
    <3>8. CASE Stop(d)
      BY <3>8, BaseStopTyped DEF Stop
    <3>9. CASE StopRelease(d)
      BY <3>9, ReleaseOnceTyped DEF StopRelease
    <3>10. CASE DeviceEnds(d)
      BY <3>10 DEF DeviceEnds
    <3> HIDE DEF TypeInv, TypeOK, Shape, PCs, Captured, Grabbing, DevStates,
          runtimeVars, deviceVars, holdVars, acquireVars
    <3>11. QED
      BY <2>3, <3>1, <3>2, <3>3, <3>4, <3>5, <3>6, <3>7, <3>8, <3>9, <3>10, Zenon DEF DeviceStep
  <2>4. ASSUME NEW t \in Tuners, KillProcess(t) \/ AgentDown(t) \/ AgentUp(t) PROVE TypeInv'
    <3> USE DEF runtimeVars, deviceVars, holdVars, acquireVars
    <3>1. CASE KillProcess(t)
      BY <3>1, BaseStopTyped DEF KillProcess, Stop
    <3>2. CASE AgentDown(t)
      BY <3>2, Zenon DEF AgentDown
    <3>3. CASE AgentUp(t)
      BY <3>3, Zenon DEF AgentUp
    <3>4. QED
      BY <2>4, <3>1, <3>2, <3>3, Zenon
  <2>5. ASSUME NEW u \in Users, RemoveUser(u) PROVE TypeInv'
    BY <2>5, ConstAssumption, SMTT(30) DEF RemoveUser, deviceVars, acquireVars
  <2>6. ASSUME NEW u \in Users, NEW d \in Requests, AddUser(d, u) PROVE TypeInv'
    BY <2>6, ConstAssumption DEF AddUser, deviceVars, acquireVars
  <2> HIDE DEF TypeInv, TypeOK, Shape, PCs, Captured, Grabbing, DevStates
  <2>7. QED
    BY <2>1, <2>2, <2>3, <2>4, <2>5, <2>6, Zenon DEF Next
<1>3. QED
  BY <1>1, <1>2, PTL DEF Spec

(***************************************************************************)
(* Ownership of a reservation and the wakeup of its grabber                *)
(***************************************************************************)
\* A victim is released only after its grabber captured tm.changed.
GrabSignal ==
    \A r \in Requests :
        /\ pc[r] \in Grabbing /\ victim[r] \in released => r \in signalled
        /\ pc[r] = "grabWait" => r \in signalled

OwnInv == TypeInv /\ ReservationOwned /\ GrabSignal

\* The steps that touch no reservation: they release nothing, and no device
\* comes into being.
Quiet ==
    /\ UNCHANGED <<device, inUse, tunerOf, released>>
    /\ \A d \in Requests : dev'[d] = "none" <=> dev[d] = "none"

\* A device's once runs, whoever called it.
OnceRuns(d) ==
    /\ dev[d] # "none" /\ ReleaseOnce(d) /\ UNCHANGED tunerOf
    /\ \A e \in Requests : dev'[e] = "none" <=> dev[e] = "none"

\* A step reserves, runs a once, or is quiet.
LEMMA StepKinds ==
  ASSUME TypeInv, [Next]_vars
  PROVE  \/ Quiet
         \/ \E r \in Requests : TryReserve(r)
         \/ \E d \in Requests : OnceRuns(d)
<1> DEFINE Goal == \/ Quiet
                   \/ \E r \in Requests : TryReserve(r)
                   \/ \E d \in Requests : OnceRuns(d)
<1> SUFFICES Goal
  BY Zenon
<1> USE DEF TypeInv, TypeOK, Shape, DevStates, Quiet, runtimeVars, deviceVars, holdVars,
        acquireVars, Grabbing
<1>1. CASE UNCHANGED vars
  BY <1>1, Zenon DEF vars
<1>2. ASSUME NEW r \in Requests, RequestStep(r) PROVE Goal
  <2>1. CASE GrabRelease(r)
    <3>1. victim[r] \in Requests /\ OnceRuns(victim[r])
      BY <2>1, Zenon DEF GrabRelease, OnceRuns
    <3>2. QED
      BY <3>1, Zenon
  <2>2. CASE ~ GrabRelease(r) /\ ~ TryReserve(r)
    BY <1>2, <2>2, Zenon DEF RequestStep, Begin, CaptureAgentChanged, TryGrab, TryNothing, GrabStop,
       WaitDone, WaitCancelled
  <2>3. QED
    BY <2>1, <2>2, Zenon
<1>3. ASSUME NEW d \in Requests, DeviceStep(d) PROVE Goal
  <2>1. CASE FailedRelease(d) \/ StopRelease(d)
    <3>1. OnceRuns(d)
      BY <2>1, Zenon DEF FailedRelease, StopRelease, OnceRuns
    <3>2. QED
      BY <3>1, Zenon
  <2>2. CASE Start(d) \/ StartSucceeds(d) \/ StartFails(d) \/ Stop(d) \/ DeviceEnds(d)
    BY <2>2 DEF Start, StartSucceeds, StartFails, Stop, DeviceEnds
  <2>3. CASE StartedMarkRunning(d) \/ FailedMarkFault(d) \/ Watch(d)
    BY <2>3, Zenon DEF StartedMarkRunning, FailedMarkFault, Watch
  <2>4. QED
    BY <1>3, <2>1, <2>2, <2>3, Zenon DEF DeviceStep
<1>4. ASSUME NEW t \in Tuners, KillProcess(t) \/ AgentDown(t) \/ AgentUp(t) PROVE Goal
  BY <1>4, Zenon DEF KillProcess, Stop, AgentDown, AgentUp
<1>5. ASSUME NEW u \in Users, RemoveUser(u) \/ \E d \in Requests : AddUser(d, u) PROVE Goal
  BY <1>5, Zenon DEF RemoveUser, AddUser
<1>6. QED
  BY <1>1, <1>2, <1>3, <1>4, <1>5, Zenon DEF Next

\* What running a device's once does: nothing the second time, and otherwise
\* it ends the device's own reservation.
LEMMA OnceEffect ==
  ASSUME TypeInv, ReservationOwned, NEW d \in Requests, OnceRuns(d)
  PROVE  /\ released' = released \cup {d}
         /\ d \in released => UNCHANGED <<runtimeVars, signalled>>
         /\ d \notin released =>
                /\ tunerOf[d] \in inUse /\ device[tunerOf[d]] = d
                /\ Release(tunerOf[d])
                /\ device' = [device EXCEPT ![tunerOf[d]] = NoDevice]
                /\ inUse' = inUse \ {tunerOf[d]}
                /\ signalled' = signalled \cup {r \in Requests : pc[r] \in Captured}
<1>1. CASE d \in released
  BY <1>1, Zenon DEF OnceRuns, ReleaseOnce
<1>2. CASE d \notin released
  <2>1. d \in Unreleased /\ tunerOf[d] \in Tuners
    BY <1>2, Zenon DEF OnceRuns, Unreleased, TypeInv, TypeOK
  <2>2. device[tunerOf[d]] = d /\ tunerOf[d] \in inUse
    BY <2>1, ConstAssumption, Zenon DEF ReservationOwned
  <2>3. Release(tunerOf[d]) /\ released' = released \cup {d}
    BY <1>2, Zenon DEF OnceRuns, ReleaseOnce
  <2>4. QED
    BY <1>2, <2>2, <2>3, Zenon DEF Release
<1>3. QED
  BY <1>1, <1>2, Zenon

\* Every step keeps a reservation with its one unreleased device.
LEMMA OwnedStep ==
  ASSUME TypeInv, ReservationOwned, [Next]_vars
  PROVE  ReservationOwned'
<1> USE DEF Unreleased
<1>1. CASE Quiet
  BY <1>1, ZenonT(60) DEF Quiet, ReservationOwned
<1>2. ASSUME NEW r \in Requests, TryReserve(r) PROVE ReservationOwned'
  <2> PICK t \in Tuners : t \notin inUse /\ Reserve(r, t)
    BY <1>2, Zenon DEF TryReserve, FreeIn, Candidates, UsableIn, InGroup
  <2>1. /\ dev[r] = "none" /\ r \notin released /\ released' = released
        /\ dev' = [dev EXCEPT ![r] = "idle"] /\ tunerOf' = [tunerOf EXCEPT ![r] = t]
        /\ device' = [device EXCEPT ![t] = r] /\ inUse' = inUse \cup {t}
    BY <1>2, Zenon DEF TryReserve, Reserve, TypeInv, Shape
  <2>2. device[t] = NoDevice
    BY Zenon DEF ReservationOwned
  <2>3. ASSUME NEW x \in Tuners
        PROVE  /\ x \in inUse' <=> device'[x] # NoDevice
               /\ \A d \in Requests : device'[x] = d <=> d \in Unreleased' /\ tunerOf'[d] = x
    <3>1. CASE x = t
      <4>1. \A d \in Requests : d \in Unreleased => tunerOf[d] # t
        BY <2>2, ConstAssumption DEF ReservationOwned
      <4>2. QED
        BY <3>1, <4>1, <2>1, ConstAssumption, Zenon DEF TypeInv, TypeOK
    <3>2. CASE x # t
      <4>1. device'[x] = device[x] /\ device[x] # r /\ (x \in inUse' <=> x \in inUse)
        BY <3>2, <2>1 DEF TypeInv, TypeOK, ReservationOwned
      <4>2. QED
        BY <3>2, <4>1, <2>1 DEF TypeInv, TypeOK, ReservationOwned
    <3>3. QED
      BY <3>1, <3>2, Zenon
  <2>4. QED
    BY <2>3, Zenon DEF ReservationOwned
<1>3. ASSUME NEW d \in Requests, OnceRuns(d) PROVE ReservationOwned'
  <2>1. CASE d \in released
    BY <2>1, <1>3, OnceEffect DEF OnceRuns, ReservationOwned, runtimeVars
  <2>2. CASE d \notin released
    <3>1. /\ device[tunerOf[d]] = d /\ tunerOf[d] \in Tuners
          /\ device' = [device EXCEPT ![tunerOf[d]] = NoDevice]
          /\ inUse' = inUse \ {tunerOf[d]} /\ released' = released \cup {d}
          /\ tunerOf' = tunerOf
          /\ \A e \in Requests : dev'[e] = "none" <=> dev[e] = "none"
      BY <2>2, <1>3, OnceEffect, Zenon DEF OnceRuns, TypeInv, TypeOK
    <3>2. QED
      BY <3>1, ConstAssumption DEF ReservationOwned, TypeInv, TypeOK
  <2>3. QED
    BY <2>1, <2>2, Zenon
<1>4. QED
  BY <1>1, <1>2, <1>3, StepKinds, Zenon

\* Every step keeps the grabbers' wakeups.
LEMMA GrabSignalStep ==
  ASSUME OwnInv, [Next]_vars
  PROVE  GrabSignal'
<1> USE DEF OwnInv, TypeInv, TypeOK, Shape, GrabSignal, Grabbing, runtimeVars, deviceVars,
        holdVars, acquireVars
<1>1. ASSUME NEW d \in Requests, OnceRuns(d),
             UNCHANGED <<pc, victim>> \/ \E r \in Requests : GrabRelease(r) /\ d = victim[r]
      PROVE  GrabSignal'
  <2>1. /\ released' = released \cup {d}
        /\ d \in released => signalled' = signalled
        /\ d \notin released => signalled' = signalled \cup {r \in Requests : pc[r] \in Captured}
    BY <1>1, OnceEffect, Zenon
  <2>2. CASE UNCHANGED <<pc, victim>>
    BY <2>1, <2>2, Zenon DEF Captured
  <2>3. ASSUME NEW r \in Requests, GrabRelease(r), d = victim[r] PROVE GrabSignal'
    <3>1. /\ pc[r] \in Grabbing /\ victim' = victim
          /\ pc' = [pc EXCEPT ![r] = IF pc[r] = "grabError" THEN "grabFailed" ELSE "grabWait"]
      BY <2>3, Zenon DEF GrabRelease
    <3>2. r \in signalled' /\ signalled \subseteq signalled'
      BY <2>1, <2>3, <3>1, Zenon DEF Captured
    <3>3. ASSUME NEW q \in Requests, q # r
          PROVE  /\ pc'[q] \in Grabbing /\ victim'[q] \in released' => q \in signalled'
                 /\ pc'[q] = "grabWait" => q \in signalled'
      BY <2>1, <3>1, <3>2, <3>3, Zenon DEF Captured
    <3>4. QED
      BY <3>1, <3>2, <3>3, Zenon
  <2>4. QED
    BY <1>1, <2>2, <2>3, Zenon
<1>2. CASE UNCHANGED <<pc, victim, released, signalled>>
  BY <1>2, Zenon
<1>3. ASSUME NEW r \in Requests, RequestStep(r) PROVE GrabSignal'
  <2>1. CASE TryGrab(r)
    <3> PICK t \in Tuners : /\ IsBestGrab(ReqType[r], ReqPriority[r], t)
                            /\ victim' = [victim EXCEPT ![r] = device[t]]
      BY <2>1, Zenon DEF TryGrab
    <3>1. device[t] \in Requests /\ device[t] \notin released
      BY DEF IsBestGrab, Grabbable, ReservationOwned, Unreleased
    <3>2. QED
      BY <2>1, <3>1, ZenonT(60) DEF TryGrab
  <2>2. CASE GrabRelease(r)
    <3>1. OnceRuns(victim[r]) /\ victim[r] \in Requests
      BY <2>2, Zenon DEF GrabRelease, OnceRuns
    <3>2. QED
      BY <1>1, <2>2, <3>1, Zenon
  <2>3. CASE GrabStop(r)
    BY <2>3, Zenon DEF GrabStop
  <2>4. CASE TryNothing(r)
    BY <2>4, ZenonT(60) DEF TryNothing
  <2>5. CASE Begin(r) \/ CaptureAgentChanged(r) \/ TryReserve(r)
    BY <2>5 DEF Begin, CaptureAgentChanged, TryReserve
  <2>6. CASE WaitDone(r) \/ WaitCancelled(r)
    BY <2>6 DEF WaitDone, WaitCancelled, DropAttempt
  <2>7. QED
    BY <1>3, <2>1, <2>2, <2>3, <2>4, <2>5, <2>6, Zenon DEF RequestStep
<1>4. ASSUME NEW d \in Requests, DeviceStep(d) PROVE GrabSignal'
  <2>1. CASE FailedRelease(d) \/ StopRelease(d)
    <3>1. OnceRuns(d) /\ UNCHANGED <<pc, victim>>
      BY <2>1, Zenon DEF FailedRelease, StopRelease, OnceRuns
    <3>2. QED
      BY <1>1, <3>1, Zenon
  <2>2. CASE Start(d) \/ StartSucceeds(d) \/ StartFails(d) \/ Stop(d) \/ DeviceEnds(d)
    BY <1>2, <2>2, Zenon DEF Start, StartSucceeds, StartFails, Stop, DeviceEnds
  <2>3. CASE StartedMarkRunning(d) \/ FailedMarkFault(d) \/ Watch(d)
    BY <1>2, <2>3, Zenon DEF StartedMarkRunning, FailedMarkFault, Watch
  <2>4. QED
    BY <1>4, <2>1, <2>2, <2>3, Zenon DEF DeviceStep
<1>5. CASE \E t \in Tuners : KillProcess(t) \/ AgentDown(t) \/ AgentUp(t)
  BY <1>2, <1>5, Zenon DEF KillProcess, Stop, AgentDown, AgentUp
<1>6. CASE \E u \in Users : RemoveUser(u) \/ \E d \in Requests : AddUser(d, u)
  BY <1>2, <1>6, Zenon DEF RemoveUser, AddUser
<1>7. CASE UNCHANGED vars
  BY <1>2, <1>7, Zenon DEF vars
<1>8. QED
  BY <1>3, <1>4, <1>5, <1>6, <1>7, Zenon DEF Next

\* Ownership and wakeups hold together in every reachable state.
THEOREM OwnInvariant == Spec => []OwnInv
<1>1. Init => OwnInv
  BY ConstAssumption DEF Init, OwnInv, TypeInv, TypeOK, Shape, ReservationOwned, Unreleased,
     GrabSignal, Grabbing, Tuners, PCs, Captured, DevStates
<1>2. TypeInv /\ OwnInv /\ TypeInv' /\ [Next]_vars => OwnInv'
  BY OwnedStep, GrabSignalStep, Zenon DEF OwnInv
<1>3. QED
  BY <1>1, <1>2, TypeCorrect, PTL DEF Spec

\* A tuner is reserved by exactly its one unreleased device, whatever the
\* numbers of tuners, requests and users (release and sync.Once in manager.go).
THEOREM Ownership == Spec => []ReservationOwned
<1>1. OwnInv => ReservationOwned
  BY Zenon DEF OwnInv
<1>2. QED
  BY <1>1, OwnInvariant, PTL

\* A grabbing request that waits for its victim's release has been notified.
THEOREM GrabberWoken == Spec => []GrabberIsWoken
<1>1. OwnInv => GrabberIsWoken
  BY Zenon DEF OwnInv, GrabSignal, GrabberIsWoken
<1>2. QED
  BY <1>1, OwnInvariant, PTL

(***************************************************************************)
(* The status of a tuner                                                   *)
(***************************************************************************)
\* Every step keeps the status of a tuner about its current device.
LEMMA StatusStep ==
  ASSUME OwnInv, StatusMatchesDevice, [Next]_vars
  PROVE  StatusMatchesDevice'
<1> USE DEF OwnInv, TypeInv, TypeOK, runtimeVars, deviceVars, holdVars, acquireVars
<1>1. CASE UNCHANGED <<device, running, stopped, fault, dev, ended>>
  BY <1>1, Zenon DEF StatusMatchesDevice
<1>2. ASSUME NEW d \in Requests, OnceRuns(d), ended' = ended,
             dev' = dev \/ dev' = [dev EXCEPT ![d] = "failed"]
      PROVE  StatusMatchesDevice'
  <2>1. CASE d \in released
    <3>1. UNCHANGED runtimeVars
      BY <1>2, <2>1, OnceEffect, Zenon
    <3>2. \A t \in Tuners : device[t] # d
      BY <2>1, Zenon DEF ReservationOwned, Unreleased
    <3>3. QED
      BY <1>2, <3>1, <3>2 DEF StatusMatchesDevice
  <2>2. CASE d \notin released
    <3>1. /\ tunerOf[d] \in inUse /\ device[tunerOf[d]] = d /\ Release(tunerOf[d])
          /\ \A t \in Tuners : device[t] = d => t = tunerOf[d]
      BY <1>2, <2>2, OnceEffect, Zenon DEF ReservationOwned
    <3>2. /\ device' = [device EXCEPT ![tunerOf[d]] = NoDevice]
          /\ running' = running \ {tunerOf[d]} /\ stopped' = stopped \ {tunerOf[d]}
          /\ fault' = fault \ {tunerOf[d]}
      BY <3>1, Zenon DEF Release
    <3>3. QED
      BY <1>2, <3>1, <3>2 DEF StatusMatchesDevice
  <2>3. QED
    BY <2>1, <2>2, Zenon
<1>3. ASSUME NEW d \in Requests, UNCHANGED <<device, running, stopped, fault>>,
             dev[d] \in {"idle", "starting"},
             \A e \in Requests \ {d} : dev'[e] = dev[e],
             \A e \in Requests \ {d} : ended'[e] = ended[e] \/ ended[e] = "no"
      PROVE  StatusMatchesDevice'
  <2>1. \A t \in running \cup stopped \cup fault : device[t] # d
    BY <1>3, Zenon DEF StatusMatchesDevice
  <2>2. QED
    BY <1>3, <2>1 DEF StatusMatchesDevice
<1>4. ASSUME UNCHANGED <<device, running, stopped, fault, dev>>,
             \A e \in Requests : ended'[e] = ended[e] \/ ended[e] = "no" \/ dev[e] = "starting"
      PROVE  StatusMatchesDevice'
  BY <1>4, ZenonT(60) DEF StatusMatchesDevice
<1>5. ASSUME NEW d \in Requests, NEW err \in BOOLEAN, BaseStop(d, err),
             UNCHANGED <<device, running, stopped, fault, dev>>
      PROVE  StatusMatchesDevice'
  <2>1. \A e \in Requests : ended'[e] = ended[e] \/ ended[e] = "no" \/ dev[e] = "starting"
    BY <1>5, Zenon DEF BaseStop
  <2>2. QED
    BY <1>4, <1>5, <2>1, Zenon
<1>6. ASSUME NEW r \in Requests, RequestStep(r) PROVE StatusMatchesDevice'
  <2>1. CASE TryReserve(r)
    <3> PICK t \in Tuners : t \notin inUse /\ t \notin fault /\ Reserve(r, t)
      BY <2>1, Zenon DEF TryReserve, FreeIn, Candidates, UsableIn, InGroup
    <3>1. \A x \in Tuners : device[x] # r
      BY <2>1 DEF TryReserve, Shape, ReservationOwned, Unreleased
    <3>2. QED
      BY <2>1, <3>1 DEF TryReserve, Reserve, StatusMatchesDevice
  <2>2. CASE GrabRelease(r)
    <3>1. OnceRuns(victim[r]) /\ victim[r] \in Requests /\ UNCHANGED <<dev, ended>>
      BY <2>2, Zenon DEF GrabRelease, OnceRuns, Shape, Grabbing
    <3>2. QED
      BY <1>2, <3>1, Zenon
  <2>3. CASE GrabStop(r)
    <3>1. victim[r] \in Requests
      BY <2>3, Zenon DEF GrabStop, Shape, Grabbing
    <3>2. QED
      BY <1>5, <2>3, <3>1, Zenon DEF GrabStop
  <2>4. CASE ~ TryReserve(r) /\ ~ GrabRelease(r) /\ ~ GrabStop(r)
    BY <1>1, <1>6, <2>4, Zenon DEF RequestStep, Begin, CaptureAgentChanged, TryGrab, TryNothing,
       WaitDone, WaitCancelled
  <2>5. QED
    BY <2>1, <2>2, <2>3, <2>4, Zenon
<1>7. ASSUME NEW d \in Requests, DeviceStep(d) PROVE StatusMatchesDevice'
  <2>1. CASE FailedRelease(d) \/ StopRelease(d)
    <3>1. OnceRuns(d) /\ ended' = ended /\ (dev' = dev \/ dev' = [dev EXCEPT ![d] = "failed"])
      BY <2>1, Zenon DEF FailedRelease, StopRelease, OnceRuns, Shape
    <3>2. QED
      BY <1>2, <3>1, Zenon
  <2>2. CASE Start(d) \/ StartSucceeds(d)
    BY <1>3, <2>2, Zenon DEF Start, StartSucceeds
  <2>3. CASE StartFails(d)
    BY <1>3, <2>3, Zenon DEF StartFails
  <2>4. CASE Stop(d)
    BY <1>5, <2>4, Zenon DEF Stop
  <2>5. CASE DeviceEnds(d)
    BY <1>4, <2>5, Zenon DEF DeviceEnds
  <2>6. ASSUME NEW new \in {"watching", "faulted", "done"},
               dev' = [dev EXCEPT ![d] = new], ended' = ended, device' = device, inUse' = inUse,
               dev[d] \in {"started", "startFailed", "watching"},
               \/ MarkRunning(d) /\ new = "watching" /\ dev[d] = "started"
               \/ MarkFault(d) /\ new = "faulted" /\ dev[d] = "startFailed"
               \/ MarkFault(d) /\ new = "done" /\ dev[d] = "watching" /\ ended[d] = "err"
               \/ MarkStopped(d) /\ new = "done" /\ dev[d] = "watching" /\ ended[d] = "ok"
        PROVE  StatusMatchesDevice'
    <3>1. CASE IsCurrent(d)
      <4>1. tunerOf[d] \in Tuners /\ device[tunerOf[d]] = d
            /\ \A t \in Tuners : device[t] = d => t = tunerOf[d]
        BY <3>1, Zenon DEF IsCurrent, ReservationOwned
      <4>2. /\ dev'[d] = new /\ d # NoDevice
            /\ \A t \in Tuners \ {tunerOf[d]} :
                device[t] # NoDevice => dev'[device[t]] = dev[device[t]]
        BY <2>6, <4>1, ConstAssumption, Zenon
      <4>3. CASE MarkRunning(d) /\ new = "watching" /\ dev[d] = "started"
        <5>1. /\ running' = running \cup {tunerOf[d]} /\ stopped' = stopped \ {tunerOf[d]}
              /\ fault' = fault /\ tunerOf[d] \notin fault
          BY <3>1, <4>1, <4>3, Zenon DEF MarkRunning, StatusMatchesDevice
        <5>2. QED
          BY <2>6, <4>1, <4>2, <4>3, <5>1 DEF StatusMatchesDevice
      <4>4. CASE MarkFault(d) /\ (new = "faulted" \/ (new = "done" /\ ended[d] = "err"))
        <5>1. /\ running' = running \ {tunerOf[d]} /\ fault' = fault \cup {tunerOf[d]}
              /\ stopped' = stopped /\ tunerOf[d] \notin stopped
          BY <2>6, <3>1, <4>1, <4>4, Zenon DEF MarkFault, StatusMatchesDevice
        <5>2. QED
          BY <2>6, <4>1, <4>2, <4>4, <5>1 DEF StatusMatchesDevice
      <4>5. CASE MarkStopped(d) /\ new = "done" /\ dev[d] = "watching" /\ ended[d] = "ok"
        <5>1. /\ running' = running \ {tunerOf[d]} /\ stopped' = stopped \cup {tunerOf[d]}
              /\ fault' = fault /\ tunerOf[d] \notin fault
          BY <3>1, <4>1, <4>5, Zenon DEF MarkStopped, StatusMatchesDevice
        <5>2. QED
          BY <2>6, <4>1, <4>2, <4>5, <5>1 DEF StatusMatchesDevice
      <4>6. QED
        BY <2>6, <4>3, <4>4, <4>5, Zenon
    <3>2. CASE ~ IsCurrent(d)
      <4>1. \A t \in Tuners : device[t] # d
        BY <3>2, ConstAssumption DEF IsCurrent, ReservationOwned
      <4>2. UNCHANGED <<running, stopped, fault>>
        BY <2>6, <3>2, Zenon DEF MarkRunning, MarkFault, MarkStopped
      <4>3. QED
        BY <2>6, <4>1, <4>2, ZenonT(60) DEF StatusMatchesDevice
    <3>3. QED
      BY <3>1, <3>2, Zenon
  <2>7. CASE StartedMarkRunning(d)
    BY <2>6, <2>7, Zenon DEF StartedMarkRunning
  <2>8. CASE FailedMarkFault(d)
    BY <2>6, <2>8, Zenon DEF FailedMarkFault
  <2>9. CASE Watch(d)
    BY <2>6, <2>9, Zenon DEF Watch
  <2>10. QED
    BY <1>7, <2>1, <2>2, <2>3, <2>4, <2>5, <2>7, <2>8, <2>9, Zenon DEF DeviceStep
<1>8. ASSUME NEW t \in Tuners, KillProcess(t) \/ AgentDown(t) \/ AgentUp(t)
      PROVE  StatusMatchesDevice'
  <2>1. CASE KillProcess(t)
    BY <1>5, <2>1, Zenon DEF KillProcess, Stop
  <2>2. CASE AgentDown(t)
    BY <1>4, <2>2, Zenon DEF AgentDown
  <2>3. CASE AgentUp(t)
    BY <1>1, <2>3, Zenon DEF AgentUp
  <2>4. QED
    BY <1>8, <2>1, <2>2, <2>3, Zenon
<1>9. CASE \E u \in Users : RemoveUser(u) \/ \E d \in Requests : AddUser(d, u)
  BY <1>1, <1>9, Zenon DEF RemoveUser, AddUser
<1>10. CASE UNCHANGED vars
  BY <1>1, <1>10, Zenon DEF vars
<1>11. QED
  BY <1>6, <1>7, <1>8, <1>9, <1>10, Zenon DEF Next

\* The status of a tuner never describes an earlier device (the guards of
\* markRunning, markStopped and markFault).
THEOREM StatusCorrect == Spec => []StatusMatchesDevice
<1>1. Init => StatusMatchesDevice
  BY Zenon DEF Init, StatusMatchesDevice
<1>2. OwnInv /\ StatusMatchesDevice /\ [Next]_vars => StatusMatchesDevice'
  BY StatusStep, Zenon
<1>3. QED
  BY <1>1, <1>2, OwnInvariant, PTL DEF Spec

(***************************************************************************)
(* Wakeup of a waiting request                                             *)
(***************************************************************************)
\* Every step that frees a tuner signals the requests that captured a channel.
LEMMA WakeupStep ==
  ASSUME OwnInv, NoLostWakeup, [Next]_vars
  PROVE  NoLostWakeup'
<1> USE DEF OwnInv, TypeInv, TypeOK, runtimeVars, deviceVars, holdVars, acquireVars,
        FreeIn, Candidates, UsableIn, InGroup
<1>1. ASSUME inUse \subseteq inUse', fault \subseteq fault',
             \A t \in Tuners : avail'[t] => avail[t],
             \A r \in Requests : pc'[r] = "wait" =>
                \/ FreeIn(ReqType[r]) = {}
                \/ /\ pc[r] = "wait"
                   /\ r \in signalled => r \in signalled'
                   /\ r \in agentSignalled => r \in agentSignalled'
      PROVE  NoLostWakeup'
  BY <1>1, Zenon DEF NoLostWakeup
<1>2. ASSUME NEW d \in Requests, OnceRuns(d), avail' = avail, agentSignalled' = agentSignalled,
             \A r \in Requests : pc'[r] = "wait" => pc[r] = "wait"
      PROVE  NoLostWakeup'
  <2>1. CASE d \in released
    BY <1>1, <1>2, <2>1, OnceEffect, Zenon
  <2>2. CASE d \notin released
    <3>1. \A r \in Requests : pc'[r] = "wait" => r \in signalled'
      BY <1>2, <2>2, OnceEffect, Zenon DEF Captured
    <3>2. QED
      BY <3>1, Zenon DEF NoLostWakeup
  <2>3. QED
    BY <2>1, <2>2, Zenon
<1>3. ASSUME NEW r \in Requests, RequestStep(r) PROVE NoLostWakeup'
  <2>1. CASE TryReserve(r)
    BY <1>1, <2>1 DEF TryReserve, Reserve
  <2>2. CASE GrabRelease(r)
    <3>1. /\ OnceRuns(victim[r]) /\ victim[r] \in Requests
          /\ UNCHANGED <<avail, agentSignalled>>
          /\ \A q \in Requests : pc'[q] = "wait" => pc[q] = "wait"
      BY <2>2, Zenon DEF GrabRelease, OnceRuns, Shape, Grabbing
    <3>2. QED
      BY <1>2, <3>1, Zenon
  <2>3. CASE GrabStop(r)
    <3>1. \A t \in Tuners : avail'[t] => avail[t]
      BY <2>3, Zenon DEF GrabStop, BaseStop, Quarantine
    <3>2. QED
      BY <1>1, <2>3, <3>1, Zenon DEF GrabStop
  <2>4. CASE TryNothing(r)
    <3>1. \A q \in Requests : pc'[q] = "wait" =>
                \/ FreeIn(ReqType[q]) = {}
                \/ /\ pc[q] = "wait"
                   /\ q \in signalled => q \in signalled'
                   /\ q \in agentSignalled => q \in agentSignalled'
      BY <2>4, ZenonT(60) DEF TryNothing
    <3>2. QED
      BY <1>1, <2>4, <3>1, Zenon DEF TryNothing
  <2>5. CASE Begin(r) \/ CaptureAgentChanged(r) \/ TryGrab(r)
    BY <1>1, <2>5, ZenonT(60) DEF Begin, CaptureAgentChanged, TryGrab
  <2>6. CASE WaitDone(r) \/ WaitCancelled(r)
    BY <1>1, <2>6, Zenon DEF WaitDone, WaitCancelled, DropAttempt
  <2>7. QED
    BY <1>3, <2>1, <2>2, <2>3, <2>4, <2>5, <2>6, Zenon DEF RequestStep
<1>4. ASSUME NEW d \in Requests, DeviceStep(d) PROVE NoLostWakeup'
  <2>1. CASE FailedRelease(d) \/ StopRelease(d)
    <3>1. OnceRuns(d) /\ UNCHANGED <<avail, agentSignalled, pc>>
      BY <2>1, Zenon DEF FailedRelease, StopRelease, OnceRuns, Shape
    <3>2. QED
      BY <1>2, <3>1, Zenon
  <2>2. CASE Start(d) \/ StartSucceeds(d) \/ DeviceEnds(d)
    BY <1>1, <2>2, Zenon DEF Start, StartSucceeds, DeviceEnds
  <2>3. CASE StartFails(d)
    <3>1. \A t \in Tuners : avail'[t] => avail[t]
      BY <2>3, Zenon DEF StartFails
    <3>2. QED
      BY <1>1, <2>3, <3>1, Zenon DEF StartFails
  <2>4. CASE Stop(d)
    <3>1. \A t \in Tuners : avail'[t] => avail[t]
      BY <2>4, Zenon DEF Stop, BaseStop, Quarantine
    <3>2. QED
      BY <1>1, <2>4, <3>1, Zenon DEF Stop
  <2>5. CASE StartedMarkRunning(d) \/ FailedMarkFault(d) \/ Watch(d)
    BY <1>1, <2>5, Zenon DEF StartedMarkRunning, FailedMarkFault, Watch, MarkRunning, MarkFault,
       MarkStopped
  <2>6. QED
    BY <1>4, <2>1, <2>2, <2>3, <2>4, <2>5, Zenon DEF DeviceStep
<1>5. ASSUME NEW t \in Tuners, KillProcess(t) PROVE NoLostWakeup'
  <2>1. \A x \in Tuners : avail'[x] => avail[x]
    BY <1>5, Zenon DEF KillProcess, Stop, BaseStop, Quarantine
  <2>2. QED
    BY <1>1, <1>5, <2>1, Zenon DEF KillProcess, Stop
<1>6. ASSUME NEW t \in Tuners, AgentDown(t) \/ AgentUp(t) PROVE NoLostWakeup'
  <2>1. \A r \in Requests : pc'[r] = "wait" => r \in agentSignalled'
    BY <1>6, Zenon DEF AgentDown, AgentUp, AgentCaptured
  <2>2. QED
    BY <2>1, Zenon DEF NoLostWakeup
<1>7. CASE \E u \in Users : RemoveUser(u) \/ \E d \in Requests : AddUser(d, u)
  BY <1>1, <1>7, Zenon DEF RemoveUser, AddUser
<1>8. CASE UNCHANGED vars
  BY <1>1, <1>8, Zenon DEF vars
<1>9. QED
  BY <1>3, <1>4, <1>5, <1>6, <1>7, <1>8, Zenon DEF Next

\* No request sleeps in AcquireDevice while a tuner of its type is free, for
\* any numbers of tuners, types and requests.
THEOREM WakeupCorrect == Spec => []NoLostWakeup
<1>1. Init => NoLostWakeup
  BY Zenon DEF Init, NoLostWakeup
<1>2. OwnInv /\ NoLostWakeup /\ [Next]_vars => NoLostWakeup'
  BY WakeupStep, Zenon
<1>3. QED
  BY <1>1, <1>2, OwnInvariant, PTL DEF Spec

(***************************************************************************)
(* The users that protect a reservation                                    *)
(***************************************************************************)
\* Every step keeps the users of a tuner inside WithUser on one of its devices.
LEMMA UsersStep ==
  ASSUME OwnInv, UsersTracked, [Next]_vars
  PROVE  UsersTracked'
<1> USE DEF OwnInv, TypeInv
<1>1. CASE UNCHANGED <<users, holdOn, hold, tunerOf, device>>
  BY <1>1, Zenon DEF UsersTracked
<1>2. ASSUME NEW d \in Requests, OnceRuns(d), UNCHANGED <<holdOn, hold>>
      PROVE  UsersTracked'
  <2>1. CASE d \in released
    BY <1>1, <1>2, <2>1, OnceEffect, Zenon DEF runtimeVars, OnceRuns
  <2>2. CASE d \notin released
    <3>1. /\ tunerOf[d] \in Tuners /\ tunerOf' = tunerOf /\ tunerOf[d] \in inUse
          /\ device' = [device EXCEPT ![tunerOf[d]] = NoDevice] /\ Release(tunerOf[d])
      BY <1>2, <2>2, OnceEffect, Zenon DEF OnceRuns, TypeOK
    <3>2. users' = [users EXCEPT ![tunerOf[d]] = [u \in Users |-> 0]]
      BY <3>1, Zenon DEF Release
    <3>3. ASSUME NEW t \in Tuners, NEW u \in Users
          PROVE  /\ users'[t][u] > 0 => /\ holdOn'[u] \in Requests /\ tunerOf'[holdOn'[u]] = t
                                        /\ users'[t][u] <= hold'[u]
                 /\ device'[t] # NoDevice /\ holdOn'[u] = device'[t] => users'[t][u] = hold'[u]
      <4>1. CASE t = tunerOf[d]
        BY <3>1, <3>2, <4>1 DEF TypeOK
      <4>2. CASE t # tunerOf[d]
        <5>1. users'[t] = users[t] /\ device'[t] = device[t]
          BY <3>1, <3>2, <4>2, Zenon DEF TypeOK
        <5>2. QED
          BY <1>2, <3>1, <5>1, Zenon DEF UsersTracked
      <4>3. QED
        BY <4>1, <4>2, Zenon
    <3>4. QED
      BY <3>3, Zenon DEF UsersTracked
  <2>3. QED
    BY <2>1, <2>2, Zenon
<1>3. ASSUME NEW r \in Requests, RequestStep(r) PROVE UsersTracked'
  <2>1. CASE TryReserve(r)
    <3> PICK t \in Tuners : Reserve(r, t)
      BY <2>1, Zenon DEF TryReserve, FreeIn, Candidates, UsableIn, InGroup
    <3>1. /\ device' = [device EXCEPT ![t] = r] /\ tunerOf' = [tunerOf EXCEPT ![r] = t]
          /\ UNCHANGED <<users, holdOn, hold>> /\ dev[r] = "none"
      BY <2>1, Zenon DEF TryReserve, Reserve, holdVars, Shape
    <3>2. \A u \in Users : holdOn[u] # r
      BY <3>1, ConstAssumption, Zenon DEF Shape
    <3>3. QED
      BY <3>1, <3>2, ZenonT(60) DEF UsersTracked, TypeOK
  <2>2. CASE GrabRelease(r)
    <3>1. OnceRuns(victim[r]) /\ victim[r] \in Requests /\ UNCHANGED <<holdOn, hold>>
      BY <2>2, Zenon DEF GrabRelease, OnceRuns, Shape, Grabbing, holdVars
    <3>2. QED
      BY <1>2, <3>1, Zenon
  <2>3. CASE ~ TryReserve(r) /\ ~ GrabRelease(r)
    BY <1>1, <1>3, <2>3, Zenon DEF RequestStep, Begin, CaptureAgentChanged, TryGrab, TryNothing,
       WaitDone, WaitCancelled, GrabStop, runtimeVars, deviceVars, holdVars
  <2>4. QED
    BY <2>1, <2>2, <2>3, Zenon
<1>4. ASSUME NEW d \in Requests, DeviceStep(d) PROVE UsersTracked'
  <2>1. CASE FailedRelease(d) \/ StopRelease(d)
    <3>1. OnceRuns(d) /\ UNCHANGED <<holdOn, hold>>
      BY <2>1, Zenon DEF FailedRelease, StopRelease, OnceRuns, Shape, holdVars, TypeOK, DevStates
    <3>2. QED
      BY <1>2, <3>1, Zenon
  <2>2. CASE ~ FailedRelease(d) /\ ~ StopRelease(d)
    BY <1>1, <1>4, <2>2, Zenon DEF DeviceStep, Start, StartSucceeds, StartFails, StartedMarkRunning,
       FailedMarkFault, Watch, Stop, DeviceEnds, runtimeVars, deviceVars, holdVars
  <2>3. QED
    BY <2>1, <2>2, Zenon
<1>5. CASE \E t \in Tuners : KillProcess(t) \/ AgentDown(t) \/ AgentUp(t)
  BY <1>1, <1>5, Zenon DEF KillProcess, Stop, AgentDown, AgentUp, runtimeVars, deviceVars, holdVars
<1>6. ASSUME NEW v \in Users, NEW d \in Requests, AddUser(d, v) PROVE UsersTracked'
  <2> DEFINE x == tunerOf[d]
  <2>1. /\ hold' = [hold EXCEPT ![v] = hold[v] + 1] /\ holdOn' = [holdOn EXCEPT ![v] = d]
        /\ users' = [users EXCEPT ![x][v] = users[x][v] + 1]
        /\ UNCHANGED <<device, tunerOf>> /\ (hold[v] = 0 \/ holdOn[v] = d)
        /\ x \in Tuners
    BY <1>6, Zenon DEF AddUser, deviceVars, TypeOK
  <2> HIDE DEF x
  <2>2. \A t \in Tuners, u \in Users : users[t][u] \in Nat /\ hold[u] \in Nat
    BY ConstAssumption DEF TypeOK
  <2>3. ASSUME NEW t \in Tuners, NEW u \in Users
        PROVE  users'[t][u] = IF t = x /\ u = v THEN users[x][v] + 1 ELSE users[t][u]
    BY <2>1, Zenon DEF TypeOK
  <2>4. ASSUME NEW t \in Tuners, t # x PROVE users[t][v] = 0
    <3>1. CASE hold[v] = 0
      BY <2>2, <3>1 DEF UsersTracked
    <3>2. CASE holdOn[v] = d
      BY <2>2, <2>4, <3>2 DEF UsersTracked, x
    <3>3. QED
      BY <2>1, <3>1, <3>2, Zenon
  <2>5. hold[v] = 0 => users[x][v] = 0
    BY <2>1, <2>2 DEF UsersTracked
  <2>6. users[x][v] <= hold[v] /\ (device[x] = d => users[x][v] = hold[v])
    BY <2>1, <2>2, <2>5, ConstAssumption DEF UsersTracked
  <2>7. \A t \in Tuners : device[t] = d => t = x
    BY Zenon DEF ReservationOwned, x
  <2>8. ASSUME NEW t \in Tuners, NEW u \in Users
        PROVE  /\ users'[t][u] > 0 => /\ holdOn'[u] \in Requests /\ tunerOf'[holdOn'[u]] = t
                                      /\ users'[t][u] <= hold'[u]
               /\ device'[t] # NoDevice /\ holdOn'[u] = device'[t] => users'[t][u] = hold'[u]
    <3>1. CASE u = v
      <4>1. hold'[u] = hold[v] + 1 /\ holdOn'[u] = d /\ tunerOf'[d] = x
        BY <2>1, <3>1, Zenon DEF TypeOK, x
      <4>2. CASE t = x
        BY <2>1, <2>2, <2>3, <2>6, <3>1, <4>1, <4>2
      <4>3. CASE t # x
        BY <2>1, <2>3, <2>4, <2>7, <3>1, <4>1, <4>3
      <4>4. QED
        BY <4>2, <4>3, Zenon
    <3>2. CASE u # v
      BY <2>1, <2>3, <3>2 DEF UsersTracked, TypeOK
    <3>3. QED
      BY <3>1, <3>2, Zenon
  <2>9. QED
    BY <2>8, Zenon DEF UsersTracked
<1>7. ASSUME NEW v \in Users, RemoveUser(v) PROVE UsersTracked'
  <2> DEFINE x == tunerOf[holdOn[v]]
  <2>1. /\ hold[v] > 0 /\ hold' = [hold EXCEPT ![v] = hold[v] - 1]
        /\ holdOn' = [holdOn EXCEPT ![v] = IF hold[v] = 1 THEN NoDevice ELSE holdOn[v]]
        /\ users' = IF users[x][v] = 0 THEN users
                    ELSE [users EXCEPT ![x][v] = users[x][v] - 1]
        /\ UNCHANGED <<device, tunerOf>> /\ holdOn[v] \in Requests
    BY <1>7, ConstAssumption DEF RemoveUser, deviceVars, TypeOK, Shape
  <2>2. x \in Tuners
    BY <2>1, Zenon DEF TypeOK
  <2> HIDE DEF x
  <2>3. \A t \in Tuners, u \in Users : users[t][u] \in Nat /\ hold[u] \in Nat
    BY ConstAssumption DEF TypeOK
  <2>4. ASSUME NEW t \in Tuners, NEW u \in Users
        PROVE  users'[t][u] = IF t = x /\ u = v /\ users[x][v] # 0 THEN users[x][v] - 1
                              ELSE users[t][u]
    BY <2>1, <2>2, Zenon DEF TypeOK
  <2>5. \A t \in Tuners : t # x => users[t][v] = 0
    BY <2>1, <2>3 DEF UsersTracked, x
  <2>6. users[x][v] <= hold[v] /\ (device[x] = holdOn[v] => users[x][v] = hold[v])
    BY <2>1, <2>2, <2>3, ConstAssumption DEF UsersTracked
  <2>7. \A t \in Tuners : device[t] = holdOn[v] => t = x
    BY <2>1, Zenon DEF ReservationOwned, x
  <2>8. ASSUME NEW t \in Tuners, NEW u \in Users
        PROVE  /\ users'[t][u] > 0 => /\ holdOn'[u] \in Requests /\ tunerOf'[holdOn'[u]] = t
                                      /\ users'[t][u] <= hold'[u]
               /\ device'[t] # NoDevice /\ holdOn'[u] = device'[t] => users'[t][u] = hold'[u]
    <3>1. CASE u = v
      <4>1. /\ hold'[u] = hold[v] - 1
            /\ holdOn'[u] = IF hold[v] = 1 THEN NoDevice ELSE holdOn[v]
        BY <2>1, <3>1, Zenon DEF TypeOK
      <4>2. CASE t = x
        <5>1. tunerOf'[holdOn[v]] = x
          BY <2>1, Zenon DEF x
        <5>2. QED
          BY <2>1, <2>3, <2>4, <2>6, <3>1, <4>1, <4>2, <5>1
      <4>3. CASE t # x
        BY <2>1, <2>3, <2>4, <2>5, <2>7, <3>1, <4>1, <4>3, SMTT(30)
      <4>4. QED
        BY <4>2, <4>3, Zenon
    <3>2. CASE u # v
      BY <2>1, <2>4, <3>2 DEF UsersTracked, TypeOK
    <3>3. QED
      BY <3>1, <3>2, Zenon
  <2>9. QED
    BY <2>8, Zenon DEF UsersTracked
<1>8. CASE UNCHANGED vars
  BY <1>1, <1>8, Zenon DEF vars, runtimeVars, deviceVars, holdVars
<1>9. QED
  BY <1>3, <1>4, <1>5, <1>6, <1>7, <1>8, Zenon DEF Next

\* Every user of a current device protects its reservation until it leaves, and
\* no tuner counts a user that has left, for any numbers of users, tuners and
\* nested calls (addUser, removeUser, resetReservation).
THEOREM UsersCorrect == Spec => []UsersTracked
<1>1. Init => UsersTracked
  BY ConstAssumption DEF Init, UsersTracked
<1>2. OwnInv /\ UsersTracked /\ [Next]_vars => UsersTracked'
  BY UsersStep, Zenon
<1>3. QED
  BY <1>1, <1>2, OwnInvariant, PTL DEF Spec

(***************************************************************************)
(* Processes and receivers that outlive a reservation                      *)
(***************************************************************************)
\* A device whose Stop has returned, or whose Start has failed and released it.
Ending(d) ==
    \/ d \in released \cup releasing
    \/ \E r \in Requests : pc[r] \in {"grabRelease", "grabError"} /\ victim[r] = d

\* The parts of the invariant, of one device.  No Stop has ended a device that
\* has not started, and a device that ended while it started is cut.
EndKnown(d) ==
    /\ dev[d] \in {"none", "idle"} => d \notin live /\ ended[d] = "no"
    /\ dev[d] = "starting" /\ (IsAgent(d) => d \notin cut) => ended[d] = "no"
    /\ Ending(d) /\ d \notin cut => dev[d] \notin {"none", "idle", "starting"}

\* A local process runs only before its end is known, and Stop waits for it
\* unless it overtook Start.
ProcessEnds(d) ==
    d \in live /\ ~ IsAgent(d) =>
        /\ ended[d] = "no" /\ dev[d] \in {"started", "watching"}
        /\ Ending(d) => d \in cut

\* A receiver that outlives its end quarantines the tuner.
ReceiverEnds(d) ==
    IsAgent(d) =>
        /\ d \in live /\ ended[d] # "no" => ~ avail[tunerOf[d]]
        /\ d \in live /\ (Ending(d) \/ d \in cut \/ dev[d] \notin {"started", "watching", "done"})
               => ended[d] # "no"
        /\ dev[d] = "starting" /\ d \notin cut => avail[tunerOf[d]]

DeviceInv(d) == EndKnown(d) /\ ProcessEnds(d) /\ ReceiverEnds(d)

OneReceiver == \A d1, d2 \in live : IsAgent(d1) /\ tunerOf[d1] = tunerOf[d2] => d1 = d2

LiveInv == OneReceiver /\ \A d \in Requests : DeviceInv(d)

\* A device that starts and was not cut short is the tuner's current one, and on
\* an agent the only receiver.
LEMMA StartingAlone ==
  ASSUME OwnInv, LiveInv, NEW d \in Requests, dev[d] = "starting", IsAgent(d), d \notin cut
  PROVE  /\ \A e \in Requests : dev[e] = "starting" /\ e \notin cut /\
             tunerOf[e] = tunerOf[d] => e = d
         /\ \A e \in live : tunerOf[e] # tunerOf[d]
<1> USE DEF OwnInv, TypeInv, TypeOK
<1>1. ASSUME NEW e \in Requests, e \notin released, dev[e] # "none", tunerOf[e] = tunerOf[d]
      PROVE  e = d
  <2>1. d \notin released
    BY Zenon DEF LiveInv, DeviceInv, EndKnown, Ending
  <2>2. device[tunerOf[d]] = d /\ device[tunerOf[d]] = e
    BY <1>1, <2>1 DEF ReservationOwned, Unreleased
  <2>3. QED
    BY <2>2, Zenon
<1>2. ASSUME NEW e \in Requests, dev[e] = "starting", e \notin cut, tunerOf[e] = tunerOf[d]
      PROVE  e = d
  <2>1. e \notin released
    BY <1>2, Zenon DEF LiveInv, DeviceInv, EndKnown, Ending
  <2>2. QED
    BY <1>1, <1>2, <2>1, Zenon
<1>3. ASSUME NEW e \in live, tunerOf[e] = tunerOf[d] PROVE FALSE
  <2>1. IsAgent(e) /\ DeviceInv(e) /\ DeviceInv(d)
    BY <1>3, Zenon DEF LiveInv, IsAgent
  <2>2. avail[tunerOf[e]] /\ ended[d] = "no"
    BY <1>3, <2>1, Zenon DEF DeviceInv, ReceiverEnds, EndKnown
  <2>3. ended[e] = "no" /\ ~ Ending(e)
    BY <2>1, <2>2, Zenon DEF DeviceInv, ReceiverEnds
  <2>4. dev[e] # "none" /\ e \notin released
    BY <2>1, <2>3, Zenon DEF DeviceInv, EndKnown, Ending
  <2>5. e = d
    BY <1>1, <1>3, <2>4, Zenon
  <2>6. QED
    BY <2>1, <2>2, <2>5, Zenon DEF DeviceInv, ReceiverEnds
<1>4. QED
  BY <1>2, <1>3, Zenon

\* The device's Stop keeps the invariant, and afterwards the device may be ending.
LEMMA BaseStopLive ==
  ASSUME OwnInv, LiveInv, NEW d \in Requests,
          NEW err \in BOOLEAN, BaseStop(d, err), dev[d] # "none",
         UNCHANGED <<dev, tunerOf>>,
         \A e \in Requests : Ending(e)' => Ending(e) \/ e = d
  PROVE  LiveInv'
<1> USE DEF OwnInv, TypeInv, TypeOK
<1>1. \A e \in Requests : DeviceInv(e)
  BY Zenon DEF LiveInv
<1>2. CASE dev[d] = "idle"
  <2>1. cut' = cut \cup {d} /\ UNCHANGED <<avail, live, ended>>
    BY <1>2, Zenon DEF BaseStop
  <2>2. ASSUME NEW e \in Requests PROVE DeviceInv(e)'
    BY <1>1, <1>2, <2>1, Zenon DEF DeviceInv, EndKnown, ProcessEnds, ReceiverEnds, IsAgent
  <2>3. QED
    BY <2>1, <2>2, Zenon DEF LiveInv, OneReceiver, IsAgent
<1>3. CASE dev[d] = "starting" /\ ~ (IsAgent(d) /\ d \notin cut)
  <2>1. cut' = cut \cup {d} /\ UNCHANGED <<avail, live, ended>>
    BY <1>3, Zenon DEF BaseStop
  <2>2. ASSUME NEW e \in Requests PROVE DeviceInv(e)'
    BY <1>1, <1>3, <2>1, Zenon DEF DeviceInv, EndKnown, ProcessEnds, ReceiverEnds, IsAgent
  <2>3. QED
    BY <2>1, <2>2, Zenon DEF LiveInv, OneReceiver, IsAgent
<1>4. CASE dev[d] = "starting" /\ IsAgent(d) /\ d \notin cut /\ err
  <2>1. /\ cut' = cut \cup {d} /\ avail' = [avail EXCEPT ![tunerOf[d]] = FALSE]
        /\ live' = live \cup {d} /\ ended' = [ended EXCEPT ![d] = "ok"]
    BY <1>4, Zenon DEF BaseStop, Quarantine
  <2>2. /\ \A e \in Requests : dev[e] = "starting" /\ e \notin cut /\
            tunerOf[e] = tunerOf[d] => e = d
        /\ \A e \in live : tunerOf[e] # tunerOf[d]
    BY <1>4, StartingAlone, Zenon
  <2>3. ASSUME NEW e \in Requests PROVE DeviceInv(e)'
    <3>1. CASE e = d
      BY <3>1, <1>4, <2>1, Zenon DEF DeviceInv, EndKnown, ProcessEnds, ReceiverEnds, IsAgent
    <3>2. CASE e # d
      <4>1. /\ (e \in live' <=> e \in live) /\ ended'[e] = ended[e] /\ (e \in cut' <=> e \in cut)
            /\ avail'[tunerOf[e]] => avail[tunerOf[e]]
            /\ dev[e] = "starting" /\ e \notin cut => avail'[tunerOf[e]] = avail[tunerOf[e]]
            /\ Ending(e)' => Ending(e)
        BY <3>2, <2>1, <2>2, Zenon
      <4>2. QED
        BY <4>1, <1>1, Zenon DEF DeviceInv, EndKnown, ProcessEnds, ReceiverEnds, IsAgent
    <3>3. QED
      BY <3>1, <3>2, Zenon
  <2>4. QED
    BY <2>1, <2>2, <2>3, Zenon DEF LiveInv, OneReceiver, IsAgent
<1>5. CASE dev[d] = "starting" /\ IsAgent(d) /\ d \notin cut /\ ~ err
  <2>1. /\ cut' = cut \cup {d} /\ ended' = [ended EXCEPT ![d] = "ok"]
        /\ UNCHANGED <<avail, live>>
    BY <1>5, Zenon DEF BaseStop
  <2>2. ASSUME NEW e \in Requests PROVE DeviceInv(e)'
    <3>1. CASE e = d
      BY <3>1, <1>1, <1>5, <2>1, Zenon DEF DeviceInv, EndKnown, ProcessEnds, ReceiverEnds, IsAgent
    <3>2. CASE e # d
      BY <3>2, <1>1, <2>1, Zenon DEF DeviceInv, EndKnown, ProcessEnds, ReceiverEnds, IsAgent
    <3>3. QED
      BY <3>1, <3>2, Zenon
  <2>3. QED
    BY <2>1, <2>2, Zenon DEF LiveInv, OneReceiver, IsAgent
<1>6. CASE dev[d] \notin {"idle", "starting"} /\ (d \notin live \/ ended[d] # "no")
  <2>1. UNCHANGED <<avail, live, ended, cut>>
    BY <1>6, Zenon DEF BaseStop
  <2>2. ASSUME NEW e \in Requests PROVE DeviceInv(e)'
    BY <1>1, <1>6, <2>1, Zenon DEF DeviceInv, EndKnown, ProcessEnds, ReceiverEnds, IsAgent
  <2>3. QED
    BY <2>1, <2>2, Zenon DEF LiveInv, OneReceiver, IsAgent
<1>7. CASE dev[d] \notin {"idle", "starting"} /\ d \in live /\ ended[d] = "no"
  <2>1. PICK res \in {"ok", "err"} : ended' = [ended EXCEPT ![d] = res]
    BY <1>7, Zenon DEF BaseStop
  <2>2. \/ live' = live \ {d} /\ avail' = avail
        \/ IsAgent(d) /\ avail' = [avail EXCEPT ![tunerOf[d]] = FALSE] /\ live' = live \cup {d}
    BY <1>7, Zenon DEF BaseStop, Quarantine
  <2>3. cut' = cut
    BY <1>7, Zenon DEF BaseStop
  <2>4. OneReceiver'
    BY <1>7, <2>2 DEF LiveInv, OneReceiver, IsAgent
  <2>5. ASSUME NEW e \in Requests PROVE DeviceInv(e)'
    <3>1. CASE e = d
      BY <3>1, <1>1, <1>7, <2>1, <2>2, <2>3, Zenon DEF DeviceInv, EndKnown, ProcessEnds,
          ReceiverEnds, IsAgent
    <3>2. CASE e # d
      <4>1. dev[e] = "starting" /\ e \notin cut /\ IsAgent(e) => tunerOf[e] # tunerOf[d]
        BY <1>7, StartingAlone, Zenon
      <4>2. /\ (e \in live' <=> e \in live) /\ ended'[e] = ended[e]
            /\ Ending(e)' => Ending(e)
            /\ avail'[tunerOf[e]] => avail[tunerOf[e]]
            /\ dev[e] = "starting" /\ e \notin cut /\ IsAgent(e) =>
                avail'[tunerOf[e]] = avail[tunerOf[e]]
        BY <3>2, <4>1, <2>1, <2>2, Zenon
      <4>3. QED
        BY <4>2, <2>3, <1>1, Zenon DEF DeviceInv, EndKnown, ProcessEnds, ReceiverEnds, IsAgent
    <3>3. QED
      BY <3>1, <3>2, Zenon
  <2>6. QED
    BY <2>4, <2>5, Zenon DEF LiveInv
<1>8. QED
  BY <1>2, <1>3, <1>4, <1>5, <1>6, <1>7, Zenon DEF BaseStop

\* The steps of a request keep the invariant.
LEMMA RequestLive ==
  ASSUME OwnInv, LiveInv, NEW r \in Requests, RequestStep(r)
  PROVE  LiveInv'
<1> USE DEF OwnInv, TypeInv, TypeOK
<1>1. \A e \in Requests : DeviceInv(e)
  BY Zenon DEF LiveInv
<1>2. ASSUME UNCHANGED <<avail, dev, tunerOf, live, ended, cut>>,
             \A e \in Requests : Ending(e)' => Ending(e)
      PROVE  LiveInv'
  <2>1. ASSUME NEW e \in Requests PROVE DeviceInv(e)'
    BY <1>1, <1>2, Zenon DEF DeviceInv, EndKnown, ProcessEnds, ReceiverEnds, IsAgent
  <2>2. QED
    BY <1>2, <2>1, Zenon DEF LiveInv, OneReceiver, IsAgent
<1>3. CASE TryReserve(r)
  <2> PICK t \in Tuners : Reserve(r, t)
    BY <1>3, Zenon DEF TryReserve, FreeIn, Candidates, UsableIn, InGroup
  <2>1. /\ dev[r] = "none" /\ dev' = [dev EXCEPT ![r] = "idle"]
        /\ tunerOf' = [tunerOf EXCEPT ![r] = t] /\ pc' = [pc EXCEPT ![r] = "holding"]
        /\ UNCHANGED <<avail, victim, released, releasing, live, ended, cut>>
    BY <1>3, Zenon DEF TryReserve, Reserve, Shape
  <2>2. \A e \in Requests : Ending(e)' => Ending(e)
    BY <2>1, Zenon DEF Ending
  <2>3. ~ Ending(r) /\ r \notin live /\ ended[r] = "no"
    BY <1>1, <2>1, Zenon DEF Ending, Shape, Grabbing, DeviceInv, EndKnown
  <2>4. ASSUME NEW e \in Requests PROVE DeviceInv(e)'
    <3>1. CASE e = r
      BY <3>1, <2>1, <2>2, <2>3, Zenon DEF DeviceInv, EndKnown, ProcessEnds, ReceiverEnds
    <3>2. CASE e # r
      BY <3>2, <1>1, <2>1, <2>2, Zenon DEF DeviceInv, EndKnown, ProcessEnds, ReceiverEnds, IsAgent
    <3>3. QED
      BY <3>1, <3>2, Zenon
  <2>5. OneReceiver'
    BY <2>1, <2>3 DEF LiveInv, OneReceiver, IsAgent
  <2>6. QED
    BY <2>4, <2>5, Zenon DEF LiveInv
<1>4. CASE GrabStop(r)
  <2> PICK err \in BOOLEAN : /\ BaseStop(victim[r], err)
                             /\ pc' = [pc EXCEPT ![r] = IF err THEN "grabError" ELSE "grabRelease"]
    BY <1>4, Zenon DEF GrabStop
  <2>1. victim[r] \in Requests /\ dev[victim[r]] # "none"
    BY <1>4, Zenon DEF GrabStop, Shape, Grabbing
  <2>2. UNCHANGED <<dev, tunerOf, victim, released, releasing>>
    BY <1>4, Zenon DEF GrabStop
  <2>3. \A e \in Requests : Ending(e)' => Ending(e) \/ e = victim[r]
    BY <2>2, Zenon DEF Ending
  <2>4. QED
    BY <2>1, <2>2, <2>3, BaseStopLive, Zenon
<1>5. CASE GrabRelease(r)
  <2>1. /\ pc[r] \in {"grabRelease", "grabError"} /\ released' = released \cup {victim[r]}
        /\ \E p \in {"grabFailed", "grabWait"} : pc' = [pc EXCEPT ![r] = p]
        /\ UNCHANGED <<avail, victim, dev, tunerOf, releasing, live, ended, cut>>
    BY <1>5, Zenon DEF GrabRelease, ReleaseOnce
  <2>2. \A e \in Requests : Ending(e)' => Ending(e)
    BY <2>1, Zenon DEF Ending
  <2>3. QED
    BY <1>2, <2>1, <2>2, Zenon
<1>6. CASE ~ (TryReserve(r) \/ GrabStop(r) \/ GrabRelease(r))
  <2>1. /\ \E p \in {"capture", "try", "grabStop", "wait", "failed"} : pc' = [pc EXCEPT ![r] = p]
        /\ \A q \in Requests \ {r} : victim'[q] = victim[q]
        /\ UNCHANGED <<avail, dev, tunerOf, released, releasing, live, ended, cut>>
    <3>1. CASE Begin(r) \/ CaptureAgentChanged(r)
      BY <3>1, Zenon DEF Begin, CaptureAgentChanged, deviceVars
    <3>2. CASE TryGrab(r) \/ TryNothing(r)
      BY <3>2, Zenon DEF TryGrab, TryNothing, deviceVars
    <3>3. CASE WaitDone(r) \/ WaitCancelled(r)
      BY <3>3, Zenon DEF WaitDone, WaitCancelled, DropAttempt, deviceVars
    <3>4. QED
      BY <1>6, <3>1, <3>2, <3>3, Zenon DEF RequestStep
  <2>2. \A e \in Requests : Ending(e)' => Ending(e)
    BY <2>1, Zenon DEF Ending
  <2>3. QED
    BY <1>2, <2>1, <2>2, Zenon
<1>7. QED
  BY <1>3, <1>4, <1>5, <1>6, Zenon

\* The steps of a device keep the invariant.
LEMMA DeviceLive ==
  ASSUME OwnInv, LiveInv, NEW d \in Requests, DeviceStep(d)
  PROVE  LiveInv'
<1> USE DEF OwnInv, TypeInv, TypeOK
<1>1. \A e \in Requests : DeviceInv(e)
  BY Zenon DEF LiveInv
\* Start and what it returns leave the other devices alone.
<1>2. ASSUME NEW s \in DevStates, dev' = [dev EXCEPT ![d] = s], UNCHANGED tunerOf,
             \A e \in Requests : Ending(e)' => Ending(e) \/ e = d,
             \A e \in Requests \ {d} :
                /\ (e \in live' <=> e \in live) /\ ended'[e] = ended[e] /\
                    (e \in cut' <=> e \in cut)
                /\ IsAgent(e) /\ avail'[tunerOf[e]] => avail[tunerOf[e]]
                /\ dev[e] = "starting" /\ e \notin cut /\ IsAgent(e) =>
                    avail'[tunerOf[e]] = avail[tunerOf[e]],
             \/ live' = live
             \/ live' = live \cup {d} /\ (IsAgent(d) => \A e \in live : tunerOf[e] # tunerOf[d]),
             live' \in SUBSET Requests,
             DeviceInv(d)'
      PROVE  LiveInv'
  <2>1. ASSUME NEW e \in Requests PROVE DeviceInv(e)'
    <3>1. CASE e # d
      BY <1>1, <1>2, <3>1, ZenonT(60) DEF DeviceInv, EndKnown, ProcessEnds, ReceiverEnds, IsAgent
    <3>2. QED
      BY <1>2, <3>1, Zenon
  <2>2. OneReceiver'
    BY <1>2, Zenon DEF LiveInv, OneReceiver, IsAgent
  <2>3. QED
    BY <2>1, <2>2, Zenon DEF LiveInv
<1>kept. ASSUME NEW s \in DevStates, dev' = [dev EXCEPT ![d] = s],
              UNCHANGED <<avail, tunerOf, live, ended>>, cut' \in {cut, cut \cup {d}},
              \A e \in Requests : Ending(e)' => Ending(e) \/ e = d,
              DeviceInv(d)'
       PROVE  LiveInv'
  <2>1. ASSUME NEW e \in Requests, e # d PROVE DeviceInv(e)'
    BY <1>1, <1>kept, <2>1, Zenon DEF DeviceInv, EndKnown, ProcessEnds, ReceiverEnds, IsAgent
  <2>2. QED
    BY <1>kept, <2>1, Zenon DEF LiveInv, OneReceiver, IsAgent
<1>3. ASSUME UNCHANGED <<released, releasing, pc, victim>> PROVE \A e \in Requests :
        Ending(e)' <=> Ending(e)
  BY <1>3, Zenon DEF Ending
<1> USE DEF DevStates, acquireVars
<1>4. CASE Start(d)
  <2>1. DeviceInv(d)'
    BY <1>1, <1>3, <1>4, Zenon DEF Start, DeviceInv, EndKnown, ProcessEnds, ReceiverEnds, IsAgent
  <2>2. QED
    BY <1>kept, <1>3, <1>4, <2>1, Zenon DEF Start
<1>5. CASE StartSucceeds(d)
  <2>1. IsAgent(d) => \A e \in live : tunerOf[e] # tunerOf[d]
    BY <1>5, StartingAlone, Zenon DEF StartSucceeds
  <2>2. DeviceInv(d)'
    BY <1>1, <1>3, <1>5, ZenonT(60) DEF StartSucceeds, DeviceInv, EndKnown, ProcessEnds,
        ReceiverEnds, IsAgent
  <2>3. QED
    BY <1>2, <1>3, <1>5, <2>1, <2>2, Zenon DEF StartSucceeds
<1>6. CASE StartFails(d)
  <2>1. CASE UNCHANGED <<avail, live, ended>>
    <3>1. DeviceInv(d)'
      BY <1>1, <1>3, <1>6, <2>1, Zenon DEF StartFails, DeviceInv, EndKnown, ProcessEnds,
          ReceiverEnds, IsAgent
    <3>2. QED
      BY <1>kept, <1>3, <1>6, <2>1, <3>1, Zenon DEF StartFails
  <2>2. CASE ~ UNCHANGED <<avail, live, ended>>
    <3>1. /\ IsAgent(d) /\ d \notin cut /\ dev[d] = "starting"
          /\ avail' = [avail EXCEPT ![tunerOf[d]] = FALSE]
          /\ live' = live \cup {d} /\ ended' = [ended EXCEPT ![d] = "err"]
      BY <1>6, <2>2, Zenon DEF StartFails
    <3>2. /\ \A e \in Requests : dev[e] = "starting" /\ e \notin cut /\
              tunerOf[e] = tunerOf[d] => e = d
          /\ \A e \in live : tunerOf[e] # tunerOf[d]
      BY <3>1, StartingAlone, Zenon
    <3>3. DeviceInv(d)'
      BY <1>1, <1>3, <1>6, <3>1, Zenon DEF StartFails, DeviceInv, EndKnown, ProcessEnds,
          ReceiverEnds, IsAgent
    <3>4. QED
      BY <1>2, <1>3, <1>6, <3>1, <3>2, <3>3, Zenon DEF StartFails
  <2>3. QED
    BY <2>1, <2>2, Zenon
<1>7. CASE StartedMarkRunning(d) \/ FailedMarkFault(d)
  <2>1. DeviceInv(d)'
    BY <1>1, <1>3, <1>7, SMTT(30) DEF StartedMarkRunning, FailedMarkFault, DeviceInv, EndKnown,
        ProcessEnds, ReceiverEnds, IsAgent
  <2>2. QED
    BY <1>kept, <1>3, <1>7, <2>1, Zenon DEF StartedMarkRunning, FailedMarkFault
<1>8. CASE FailedRelease(d)
  <2>1. /\ dev[d] = "faulted" /\ dev' = [dev EXCEPT ![d] = "failed"] /\
            released' = released \cup {d}
        /\ UNCHANGED <<avail, pc, victim, tunerOf, releasing, live, ended, cut>>
    BY <1>8, Zenon DEF FailedRelease, ReleaseOnce
  <2>2. \A e \in Requests : Ending(e)' => Ending(e) \/ e = d
    BY <2>1, Zenon DEF Ending
  <2>3. DeviceInv(d)'
    BY <1>1, <2>1, Zenon DEF DeviceInv, EndKnown, ProcessEnds, ReceiverEnds, IsAgent
  <2>4. QED
    BY <1>kept, <2>1, <2>2, <2>3, Zenon
<1>9. CASE Watch(d)
  <2>1. DeviceInv(d)'
    BY <1>1, <1>3, <1>9, Zenon DEF Watch, DeviceInv, EndKnown, ProcessEnds, ReceiverEnds, IsAgent
  <2>2. QED
    BY <1>kept, <1>3, <1>9, <2>1, Zenon DEF Watch
<1>10. CASE Stop(d)
  <2> PICK err \in BOOLEAN : BaseStop(d, err)
    BY <1>10, Zenon DEF Stop
  <2>1. /\ dev[d] # "none" /\ UNCHANGED <<dev, tunerOf, pc, victim, released>>
        /\ releasing' = releasing \cup ({d} \ released)
    BY <1>10, Zenon DEF Stop
  <2>2. \A e \in Requests : Ending(e)' => Ending(e) \/ e = d
    BY <2>1, Zenon DEF Ending
  <2>3. QED
    BY <2>1, <2>2, BaseStopLive, Zenon
<1>11. CASE StopRelease(d)
  <2>1. /\ d \in releasing /\ releasing' = releasing \ {d} /\ released' = released \cup {d}
        /\ UNCHANGED <<avail, pc, victim, dev, tunerOf, live, ended, cut>>
    BY <1>11, Zenon DEF StopRelease, ReleaseOnce
  <2>2. \A e \in Requests : Ending(e)' => Ending(e)
    BY <2>1, Zenon DEF Ending
  <2>3. ASSUME NEW e \in Requests PROVE DeviceInv(e)'
    BY <1>1, <2>1, <2>2, Zenon DEF DeviceInv, EndKnown, ProcessEnds, ReceiverEnds, IsAgent
  <2>4. QED
    BY <2>1, <2>3, Zenon DEF LiveInv, OneReceiver, IsAgent
<1>12. CASE DeviceEnds(d)
  <2>1. /\ d \in live /\ live' = live \ {d}
        /\ \A e \in Requests \ {d} : ended'[e] = ended[e]
        /\ ended[d] # "no" => ended'[d] = ended[d]
        /\ UNCHANGED <<avail, dev, tunerOf, cut>>
    BY <1>12, Zenon DEF DeviceEnds
  <2>2. \A e \in Requests : Ending(e)' <=> Ending(e)
    BY <1>3, <1>12, Zenon DEF DeviceEnds
  <2>3. ASSUME NEW e \in Requests PROVE DeviceInv(e)'
    BY <1>1, <2>1, <2>2, Zenon DEF DeviceInv, EndKnown, ProcessEnds, ReceiverEnds, IsAgent
  <2>4. QED
    BY <2>1, <2>3, Zenon DEF LiveInv, OneReceiver, IsAgent
<1>13. QED
  BY <1>4, <1>5, <1>6, <1>7, <1>8, <1>9, <1>10, <1>11, <1>12, Zenon DEF DeviceStep

\* The loss of an agent quarantines its tuner with everything that runs on it.
LEMMA AgentDownLive ==
  ASSUME OwnInv, LiveInv, NEW t \in Tuners, AgentDown(t)
  PROVE  LiveInv'
<1> USE DEF OwnInv, TypeInv, TypeOK
<1> DEFINE starting == {d \in Requests : dev[d] = "starting" /\ tunerOf[d] = t /\ d \notin cut}
<1>1. /\ t \in AgentTuners /\ avail' = [avail EXCEPT ![t] = FALSE]
      /\ live' = live \cup starting /\ cut' = cut \cup starting
      /\ ended' = [d \in Requests |-> IF d \in live \cup starting /\ tunerOf[d] = t /\
          ended[d] = "no"
                                      THEN "err" ELSE ended[d]]
      /\ UNCHANGED <<dev, tunerOf, pc, victim, released, releasing>>
  BY Zenon DEF AgentDown
<1>2. \A e \in Requests : (Ending(e)' <=> Ending(e)) /\ DeviceInv(e)
  BY <1>1, Zenon DEF Ending, LiveInv
<1>3. \A d \in starting : /\ \A e \in starting : e = d
                          /\ \A e \in live : tunerOf[e] # t
  BY <1>1, StartingAlone, Zenon DEF IsAgent
<1>4. ASSUME NEW e \in Requests PROVE DeviceInv(e)'
  <2>1. CASE tunerOf[e] # t
    <3>1. /\ (e \in live' <=> e \in live) /\ ended'[e] = ended[e] /\ (e \in cut' <=> e \in cut)
          /\ avail'[tunerOf[e]] = avail[tunerOf[e]]
      BY <1>1, <2>1, Zenon
    <3>2. QED
      BY <1>1, <1>2, <3>1, Zenon DEF DeviceInv, EndKnown, ProcessEnds, ReceiverEnds, IsAgent
  <2>2. CASE tunerOf[e] = t
    <3>1. IsAgent(e) /\ IsAgent(e)' /\ avail'[tunerOf'[e]] = FALSE
      BY <1>1, <2>2, Zenon DEF IsAgent
    <3>2. EndKnown(e)'
      BY <1>1, <1>2, <2>2, <3>1, Zenon DEF DeviceInv, EndKnown, ReceiverEnds
    <3>3. ReceiverEnds(e)'
      BY <1>1, <1>2, <2>2, <3>1, Zenon DEF DeviceInv, ReceiverEnds
    <3>4. QED
      BY <3>1, <3>2, <3>3, Zenon DEF DeviceInv, ProcessEnds
  <2>3. QED
    BY <2>1, <2>2, Zenon
<1>5. OneReceiver'
  BY <1>1, <1>3, Zenon DEF LiveInv, OneReceiver, IsAgent
<1>6. QED
  BY <1>4, <1>5, Zenon DEF LiveInv

\* Every step keeps the invariant of the processes and receivers.
LEMMA LiveStep ==
  ASSUME OwnInv, LiveInv, [Next]_vars
  PROVE  LiveInv'
<1> USE DEF OwnInv, TypeInv, TypeOK
<1>1. \A e \in Requests : DeviceInv(e)
  BY Zenon DEF LiveInv
<1>2. ASSUME UNCHANGED <<acquireVars, deviceVars, avail>> PROVE LiveInv'
  <2>1. \A e \in Requests : DeviceInv(e)'
    BY <1>1, <1>2, Zenon DEF acquireVars, deviceVars, DeviceInv, EndKnown, ProcessEnds,
        ReceiverEnds, IsAgent, Ending
  <2>2. QED
    BY <1>2, <2>1, Zenon DEF LiveInv, OneReceiver, IsAgent, deviceVars
<1>3. ASSUME NEW t \in Tuners, AgentUp(t) PROVE LiveInv'
  <2>1. /\ \A d \in live : tunerOf[d] # t
        /\ avail' = [avail EXCEPT ![t] = TRUE]
        /\ UNCHANGED <<pc, victim, dev, tunerOf, released, releasing, live, ended, cut>>
    BY <1>3, Zenon DEF AgentUp, deviceVars
  <2>2. \A e \in Requests : Ending(e)' <=> Ending(e)
    BY <2>1, Zenon DEF Ending
  <2>3. \A e \in Requests : DeviceInv(e)'
    BY <1>1, <2>1, <2>2, Zenon DEF DeviceInv, EndKnown, ProcessEnds, ReceiverEnds, IsAgent
  <2>4. QED
    BY <2>1, <2>3, Zenon DEF LiveInv, OneReceiver, IsAgent
<1>4. ASSUME NEW t \in Tuners, KillProcess(t) PROVE LiveInv'
  <2>1. device[t] \in Requests /\ DeviceStep(device[t])
    BY <1>4, Zenon DEF KillProcess, DeviceStep
  <2>2. QED
    BY <2>1, DeviceLive, Zenon
<1>5. CASE \E u \in Users : RemoveUser(u) \/ \E d \in Requests : AddUser(d, u)
  BY <1>2, <1>5, Zenon DEF RemoveUser, AddUser
<1>6. CASE UNCHANGED vars
  BY <1>2, <1>6, Zenon DEF vars
<1>7. QED
  BY <1>3, <1>4, <1>5, <1>6, RequestLive, DeviceLive, AgentDownLive, Zenon DEF Next

\* The processes and receivers of the devices, whatever Start, Stop, a grab, a
\* crash and the loss of an agent do.
THEOREM LiveInvariant == Spec => []LiveInv
<1>1. Init => LiveInv
  BY ConstAssumption, Zenon DEF Init, LiveInv, OneReceiver, DeviceInv, EndKnown, ProcessEnds,
      ReceiverEnds, Ending
<1>2. OwnInv /\ LiveInv /\ [Next]_vars => LiveInv'
  BY LiveStep, Zenon
<1>3. QED
  BY <1>1, <1>2, OwnInvariant, PTL DEF Spec

\* At most one receiver runs on an agent's tuner, and one that outlives its
\* reservation keeps the tuner out of service (hub.go, manager.go release).
THEOREM ReceiversExclusive == Spec => []AgentReceiverExclusive
<1>1. OwnInv /\ LiveInv => AgentReceiverExclusive
  BY Zenon DEF OwnInv, TypeInv, TypeOK, LiveInv, OneReceiver, DeviceInv, ReceiverEnds, Ending,
     AgentReceiverExclusive
<1>2. QED
  BY <1>1, OwnInvariant, LiveInvariant, PTL

\* A local process that outlives its reservation was stopped before its Start
\* had returned (device.go Stop).
THEOREM StopsAwaited == Spec => []LiveAfterReleaseWasCut
<1>1. OwnInv /\ LiveInv => LiveAfterReleaseWasCut
  BY Zenon DEF OwnInv, TypeInv, TypeOK, LiveInv, DeviceInv, ProcessEnds, Ending,
      LiveAfterReleaseWasCut
<1>2. QED
  BY <1>1, OwnInvariant, LiveInvariant, PTL
=============================================================================
