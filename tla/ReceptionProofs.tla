-------------------------- MODULE ReceptionProofs --------------------------
(***************************************************************************)
(* Proofs about receiving.  For any number of callers of Stop and of       *)
(* startup retries, a process device implements DeviceContract and leaves  *)
(* no reader open.  The worker for data broadcasting, for every size of    *)
(* its queues and every number of watchers, takes every section in.  The   *)
(* gather of a network, for every set of services and number of channels,  *)
(* answers what it has stored.                                             *)
(***************************************************************************)
EXTENDS ProcessDevice, BMLWorker, GatherNetwork, FiniteSetTheorems, TLAPS

(***************************************************************************)
(* The process device                                                      *)
(***************************************************************************)

\* A process is live only for the current attempt and only from its launch to
\* the end of its cleanup or copying.
LiveIsCurrent ==
    \A a \in Attempts : proc[a] = "live" =>
        a = attempt /\ startPc \in {"register", "open", "probe", "cleanup", "reap", "ok"}

\* The loop variable and where Start is.
AttemptBounded ==
    /\ attempt <= retryMax
    /\ startPc = "delay" => attempt < retryMax
    /\ startPc \in {"idle", "once"} => attempt = 0

\* From its registration on the process is the current one; copyRaw exists
\* exactly after a successful Start, and closes Done.
CopyFollowsStart ==
    /\ copyPc # "none" <=> startPc = "ok"
    /\ startPc \in {"open", "probe", "ok"} => tunerProcess = attempt
    /\ done = "closed" <=> copyPc \in {"close", "end"}
    /\ done = "closed" => proc[attempt] # "live"

\* A Stop that waits for a process has one.
StopHasProcess == \A s \in Stoppers : stopPc[s] = "wait" => stopProc[s] # NoAttempt

\* A reader is open only for the current attempt, and from the probe on it is
\* the one that closeRawReader closes.
ReaderIsCurrent ==
    /\ readers \subseteq {attempt}
    /\ startPc \in {"idle", "once", "loop", "launch", "reap", "delay", "fail", "failed"}
          => readers = {}
    /\ startPc \in {"probe", "ok"} /\ readers # {} => rawReader = attempt
    /\ copyPc = "end" => readers = {}

\* The inductive invariant of the device.
DeviceInv ==
    /\ DeviceTypeOK /\ LiveIsCurrent /\ AttemptBounded /\ CopyFollowsStart
    /\ StopHasProcess /\ ReaderIsCurrent

\* The attempts of startWithRetry are consecutive numbers; none is NoAttempt.
LEMMA AttemptsAreNumbers ==
  /\ 0 \in Attempts /\ Attempts \subseteq Nat /\ NoAttempt \notin Attempts
  /\ \A a \in Attempts, m \in Attempts : a < m => a + 1 \in Attempts
  BY DeviceAssumption DEF Attempts

\* A device that newProcessDevice has just made satisfies the invariant.
LEMMA InitInv == DeviceInit => DeviceInv
<1> SUFFICES ASSUME DeviceInit PROVE DeviceInv
  BY Zenon
<1> USE AttemptsAreNumbers DEF DeviceInit
<1>1. DeviceTypeOK
  <2>1. stopDone \in [Stoppers -> BOOLEAN] /\ stopExpired \in [Stoppers -> BOOLEAN]
        /\ stopping \in BOOLEAN /\ ctxDone \in BOOLEAN
    BY Zenon
  <2>2. QED
    BY <2>1, Zenon DEF DeviceTypeOK
<1>2. LiveIsCurrent /\ StopHasProcess /\ ReaderIsCurrent
  BY Zenon DEF LiveIsCurrent, StopHasProcess, ReaderIsCurrent
<1>3. AttemptBounded
  BY DEF AttemptBounded
<1>4. CopyFollowsStart
  BY Zenon DEF CopyFollowsStart
<1>5. QED
  BY <1>1, <1>2, <1>3, <1>4, Zenon DEF DeviceInv

\* Every step of Start keeps the invariant.
LEMMA StartInv ==
  ASSUME DeviceInv, StartBegin \/ StartStep \/ ReapKill
  PROVE  DeviceInv'
<1> USE AttemptsAreNumbers
    DEF DeviceInv, DeviceTypeOK, LiveIsCurrent, AttemptBounded, CopyFollowsStart,
        StopHasProcess, ReaderIsCurrent, configVars, fieldVars, startVars, osVars, stopVars
<1>1. CASE StartBegin
  BY <1>1, Zenon DEF StartBegin
<1>2. CASE StartOnce
  BY <1>2, ZenonT(60) DEF StartOnce
<1>3. CASE StartLoop
  BY <1>3, Zenon DEF StartLoop
<1>4. CASE StartLaunch
  <2>1. DeviceTypeOK'
    BY <1>4, Zenon DEF StartLaunch, AfterAttempt
  <2>2. LiveIsCurrent' /\ AttemptBounded'
    BY <1>4 DEF StartLaunch, AfterAttempt
  <2>3. CopyFollowsStart'
    BY <1>4, Zenon DEF StartLaunch, AfterAttempt
  <2>4. StopHasProcess'
    BY <1>4, Zenon DEF StartLaunch, AfterAttempt
  <2>5. ReaderIsCurrent'
    BY <1>4, Zenon DEF StartLaunch, AfterAttempt
  <2>6. QED
    BY <2>1, <2>2, <2>3, <2>4, <2>5, Zenon
<1>5. CASE StartRegister
  BY <1>5, Zenon DEF StartRegister
<1>6. CASE StartOpen
  BY <1>6, Zenon DEF StartOpen
<1>7. CASE StartProbe
  <2>1. DeviceTypeOK'
    BY <1>7, Zenon DEF StartProbe
  <2>2. LiveIsCurrent' /\ AttemptBounded'
    BY <1>7, Zenon DEF StartProbe
  <2>3. CopyFollowsStart'
    BY <1>7, Zenon DEF StartProbe
  <2>4. StopHasProcess'
    BY <1>7, Zenon DEF StartProbe
  <2>5. ReaderIsCurrent'
    BY <1>7, Zenon DEF StartProbe
  <2>6. QED
    BY <2>1, <2>2, <2>3, <2>4, <2>5, Zenon
<1>8. CASE StartCleanup
  BY <1>8, Zenon DEF StartCleanup
<1>9. CASE Reaped
  BY <1>9 DEF Reaped, AfterAttempt
<1>10. CASE StartDelay
  BY <1>10 DEF StartDelay
<1>11. CASE StartFail
  BY <1>11, Zenon DEF StartFail
<1>12. CASE ReapKill
  BY <1>12 DEF ReapKill
<1>13. QED
  BY <1>1, <1>2, <1>3, <1>4, <1>5, <1>6, <1>7, <1>8, <1>9, <1>10, <1>11, <1>12, Zenon DEF StartStep

\* Every step of a Stop keeps the invariant.
LEMMA StopInv ==
  ASSUME DeviceInv, NEW s \in Stoppers, StopBegin(s) \/ StopExpires(s) \/ StopStep(s)
  PROVE  DeviceInv'
<1> USE AttemptsAreNumbers
    DEF DeviceInv, DeviceTypeOK, LiveIsCurrent, AttemptBounded, CopyFollowsStart,
        StopHasProcess, ReaderIsCurrent, configVars, fieldVars, startVars, osVars, stopVars
<1>1. CASE StopBegin(s)
  BY <1>1 DEF StopBegin
<1>2. CASE StopExpires(s)
  BY <1>2 DEF StopExpires
<1>3. CASE StopKill(s)
  <2>1. DeviceTypeOK'
    BY <1>3, ZenonT(60) DEF StopKill
  <2>2. LiveIsCurrent' /\ AttemptBounded'
    BY <1>3, Zenon DEF StopKill
  <2>3. CopyFollowsStart'
    BY <1>3, Zenon DEF StopKill
  <2>4. StopHasProcess'
    BY <1>3, Zenon DEF StopKill
  <2>5. ReaderIsCurrent'
    BY <1>3, Zenon DEF StopKill
  <2>6. QED
    BY <2>1, <2>2, <2>3, <2>4, <2>5, Zenon
<1>4. CASE StopReaped(s)
  BY <1>4 DEF StopReaped
<1>5. CASE StopClose(s)
  <2>1. DeviceTypeOK'
    BY <1>5 DEF StopClose, CloseRawReader
  <2>2. LiveIsCurrent' /\ AttemptBounded'
    BY <1>5, Zenon DEF StopClose, CloseRawReader
  <2>3. CopyFollowsStart'
    BY <1>5, Zenon DEF StopClose, CloseRawReader
  <2>4. StopHasProcess'
    BY <1>5, Zenon DEF StopClose, CloseRawReader
  <2>5. ReaderIsCurrent'
    BY <1>5, Zenon DEF StopClose, CloseRawReader
  <2>6. QED
    BY <2>1, <2>2, <2>3, <2>4, <2>5, Zenon
<1>6. CASE StopWaitDone(s)
  <2>1. DeviceTypeOK'
    BY <1>6, ZenonT(60) DEF StopWaitDone
  <2>2. LiveIsCurrent' /\ AttemptBounded'
    BY <1>6, Zenon DEF StopWaitDone
  <2>3. CopyFollowsStart'
    BY <1>6, Zenon DEF StopWaitDone
  <2>4. StopHasProcess'
    BY <1>6, Zenon DEF StopWaitDone
  <2>5. ReaderIsCurrent'
    BY <1>6, Zenon DEF StopWaitDone
  <2>6. QED
    BY <2>1, <2>2, <2>3, <2>4, <2>5, Zenon
<1>7. QED
  BY <1>1, <1>2, <1>3, <1>4, <1>5, <1>6, Zenon DEF StopStep

\* Every step of the copier, of a process and of the context keeps the invariant.
LEMMA CopyInv ==
  ASSUME DeviceInv,
         CopyStep \/ CopyEnds(TRUE) \/ ContextEnds \/ \E a \in Attempts : ProcessExits(a)
  PROVE  DeviceInv'
<1> USE AttemptsAreNumbers
    DEF DeviceInv, DeviceTypeOK, LiveIsCurrent, AttemptBounded, CopyFollowsStart,
        StopHasProcess, ReaderIsCurrent, configVars, fieldVars, startVars, osVars, stopVars
<1>1. CASE CopyEnds(FALSE) \/ CopyEnds(TRUE)
  BY <1>1, Zenon DEF CopyEnds
<1>2. CASE CopyFinish
  BY <1>2, Zenon DEF CopyFinish
<1>3. CASE CopyClose
  BY <1>3, Zenon DEF CopyClose, CloseRawReader
<1>4. CASE ContextEnds
  BY <1>4 DEF ContextEnds
<1>5. CASE \E a \in Attempts : ProcessExits(a)
  BY <1>5 DEF ProcessExits
<1>6. QED
  BY <1>1, <1>2, <1>3, <1>4, <1>5, Zenon DEF CopyStep

\* Every step of Start, Stop, the copier, the process and the context keeps the
\* invariant.
LEMMA NextInv == DeviceInv /\ [DeviceNext]_deviceVars => DeviceInv'
<1> SUFFICES ASSUME DeviceInv, [DeviceNext]_deviceVars PROVE DeviceInv'
  BY Zenon
<1>1. CASE DeviceNext
  BY <1>1, StartInv, StopInv, CopyInv, Zenon DEF DeviceNext
<1>2. CASE UNCHANGED deviceVars
  BY <1>2
  DEF deviceVars, DeviceInv, DeviceTypeOK, LiveIsCurrent, AttemptBounded, CopyFollowsStart,
      StopHasProcess, ReaderIsCurrent, configVars, fieldVars, startVars, osVars, stopVars
<1>3. QED
  BY <1>1, <1>2, Zenon

\* The invariant holds in every state of a process device, whoever calls Start
\* and Stop and whenever the process exits or the context ends.
THEOREM DeviceInvariant == DeviceSpec => []DeviceInv
  BY InitInv, NextInv, PTL DEF DeviceSpec

\* No pipe or device file outlives the device.
THEOREM ReadersCorrect == DeviceSpec => [](DeviceTypeOK /\ ReadersClosed)
<1>1. DeviceInv => DeviceTypeOK /\ ReadersClosed
  BY Zenon DEF DeviceInv, ReaderIsCurrent, ReadersClosed
<1>2. QED
  BY <1>1, DeviceInvariant, PTL

(***************************************************************************)
(* The refinement of DeviceContract                                        *)
(***************************************************************************)
Phase ==
    IF startPc \in {"idle", "failed"} THEN startPc
    ELSE IF startPc = "ok" THEN "started" ELSE "starting"
Live == {a \in Attempts : proc[a] = "live"}
Stopped == {s \in Stoppers : stopPc[s] = "returned" /\ stopDone[s] /\ ~ stopExpired[s]}

\* A step that changes neither phase, live processes, Done nor the Stops that
\* returned is no step of the contract.
LEMMA ContractStutters ==
  ASSUME Phase' = Phase, Live' = Live, (done = "closed")' = (done = "closed"), Stopped' = Stopped
  PROVE  UNCHANGED Contract!contractVars
  BY Zenon DEF Contract!contractVars, Phase, Live, Stopped

\* The steps of Start: Begin, Launch, Succeed, Fail or nothing.
LEMMA StartRefines ==
  ASSUME DeviceInv, StartBegin \/ StartStep \/ ReapKill
  PROVE  [Contract!ContractNext]_(Contract!contractVars)
<1> USE AttemptsAreNumbers
    DEF DeviceInv, DeviceTypeOK, configVars, fieldVars, startVars, osVars, stopVars
<1>0. (done = "closed") = FALSE /\ (startPc # "ok")
  BY Zenon DEF StartBegin, StartStep, ReapKill, StartOnce, StartLoop, StartLaunch, StartRegister,
         StartOpen, StartProbe, StartCleanup, Reaped, StartDelay, StartFail, CopyFollowsStart
<1>1. Stopped' = Stopped
  BY Zenon DEF Stopped, StartBegin, StartStep, ReapKill, StartOnce, StartLoop, StartLaunch,
         StartRegister, StartOpen, StartProbe, StartCleanup, Reaped, StartDelay, StartFail
<1>2. CASE StartBegin
  <2>1. Contract!Begin
    BY <1>0, <1>1, <1>2, Zenon DEF StartBegin, Contract!Begin, Stopped
  <2>2. QED
    BY <2>1, Zenon DEF Contract!ContractNext
<1>3. CASE StartOnce \/ StartLaunch
  <2>1. Live = {}
    BY <1>3, Zenon DEF Live, LiveIsCurrent, StartOnce, StartLaunch
  <2>2. CASE proc' = proc
    <3>1. Phase' = Phase /\ Live' = Live /\ (done = "closed")' = FALSE
      BY <1>0, <1>3, <2>1, <2>2, Zenon DEF Phase, Live, StartOnce, StartLaunch, AfterAttempt
    <3>2. QED
      BY <1>0, <1>1, <3>1, ContractStutters, Zenon
  <2>3. CASE proc' = [proc EXCEPT ![attempt] = "live"]
    <3>0. PICK a \in Attempts : a = attempt
      BY Zenon
    <3>1. Live' = {a}
      BY <2>1, <2>3, <3>0, Zenon DEF Live
    <3>2. Phase = "starting" /\ Phase' \in {"starting", "started"} /\ (done = "closed")' = FALSE
      BY <1>0, <1>3, Zenon DEF Phase, StartOnce, StartLaunch, AfterAttempt
    <3>3. Contract!Launch(a)
      BY <1>0, <1>1, <2>1, <3>1, <3>2, Zenon DEF Contract!Launch, Phase, Live, Stopped
    <3>4. QED
      BY <3>3, Zenon DEF Contract!ContractNext
  <2>4. QED
    BY <1>3, <2>2, <2>3, Zenon DEF StartOnce, StartLaunch, AttemptBounded
<1>4. CASE StartProbe
  <2>1. Phase = "starting" /\ Live' = Live /\ (done = "closed")' = FALSE
    BY <1>0, <1>4, Zenon DEF Phase, Live, StartProbe
  <2>2. Phase' = "started" \/ Phase' = "starting"
    BY <1>4, Zenon DEF Phase, StartProbe
  <2>3. CASE Phase' = "started"
    <3>1. Contract!Succeed
      BY <1>0, <1>1, <2>1, <2>3, Zenon DEF Contract!Succeed, Phase, Live, Stopped
    <3>2. QED
      BY <3>1, Zenon DEF Contract!ContractNext
  <2>4. CASE Phase' = "starting"
    BY <1>0, <1>1, <2>1, <2>4, ContractStutters, Zenon
  <2>5. QED
    BY <2>2, <2>3, <2>4, Zenon
<1>5. CASE StartFail
  <2>1. Live = {} /\ Live' = {}
    BY <1>5, Zenon DEF Live, LiveIsCurrent, StartFail
  <2>2. Phase = "starting" /\ Phase' = "failed" /\ (done = "closed")' = FALSE
    BY <1>5, Zenon DEF Phase, StartFail
  <2>3. Contract!Fail
    BY <1>0, <1>1, <2>1, <2>2, Zenon DEF Contract!Fail, Phase, Live, Stopped
  <2>4. QED
    BY <2>3, Zenon DEF Contract!ContractNext
<1>6. CASE StartLoop \/ StartRegister \/ StartOpen \/ StartCleanup \/ Reaped \/ StartDelay \/
        ReapKill
  <2>1. Phase' = Phase
    BY <1>6, Zenon DEF Phase, StartLoop, StartRegister, StartOpen, StartCleanup, Reaped, StartDelay,
                ReapKill, AfterAttempt
  <2>2. Live' = Live /\ (done = "closed")' = (done = "closed")
    BY <1>6, Zenon DEF Live, StartLoop, StartRegister, StartOpen, StartCleanup, Reaped,
        StartDelay, ReapKill
  <2>3. QED
    BY <1>1, <2>1, <2>2, ContractStutters, Zenon
<1>7. QED
  BY <1>2, <1>3, <1>4, <1>5, <1>6, Zenon DEF StartStep

\* The steps of copyRaw: Finish, or nothing.
LEMMA CopyRefines ==
  ASSUME DeviceInv, CopyStep \/ CopyEnds(TRUE)
  PROVE  [Contract!ContractNext]_(Contract!contractVars)
<1> USE AttemptsAreNumbers
    DEF DeviceInv, DeviceTypeOK, configVars, fieldVars, startVars, osVars, stopVars
<1>1. Stopped' = Stopped /\ Live' = Live /\ Phase' = Phase
  BY ZenonT(60) DEF Stopped, Live, Phase, CopyStep, CopyEnds, CopyFinish, CopyClose, CloseRawReader
<1>2. CASE CopyFinish
  <2>1. Phase = "started" /\ (done = "closed") = FALSE /\ (done = "closed")' = TRUE
    BY <1>2, Zenon DEF Phase, CopyFinish, CopyFollowsStart
  <2>2. Live = {}
    BY <1>2, Zenon DEF Live, CopyFinish, CopyFollowsStart, LiveIsCurrent
  <2>3. Contract!Finish
    BY <1>1, <2>1, <2>2, Zenon DEF Contract!Finish, Phase, Live, Stopped
  <2>4. QED
    BY <2>3, Zenon DEF Contract!ContractNext
<1>3. CASE CopyEnds(FALSE) \/ CopyClose \/ CopyEnds(TRUE)
  <2>1. (done = "closed")' = (done = "closed")
    BY <1>3, Zenon DEF CopyEnds, CopyClose
  <2>2. QED
    BY <1>1, <2>1, ContractStutters, Zenon
<1>4. QED
  BY <1>2, <1>3, Zenon DEF CopyStep

\* The steps of a Stop: StopReturns after Done, or nothing.
LEMMA StopRefines ==
  ASSUME DeviceInv, NEW s \in Stoppers, StopBegin(s) \/ StopExpires(s) \/ StopStep(s)
  PROVE  [Contract!ContractNext]_(Contract!contractVars)
<1> USE AttemptsAreNumbers
    DEF DeviceInv, DeviceTypeOK, configVars, fieldVars, startVars, osVars, stopVars
<1>1. (done = "closed")' = (done = "closed") /\ Live' = Live /\ Phase' = Phase
  BY DEF Live, Phase, StopBegin, StopExpires, StopStep, StopKill, StopReaped, StopClose,
         StopWaitDone, CloseRawReader
<1>2. CASE StopWaitDone(s)
  <2>1. CASE done = "closed" /\ stopExpired' = [stopExpired EXCEPT ![s] = FALSE]
    <3>1. s \notin Stopped
      BY <1>2, Zenon DEF Stopped, StopWaitDone
    <3>2. CASE stopDone[s]
      <4>1. Stopped' = Stopped \cup {s}
        BY <1>2, <2>1, <3>2, ZenonT(60) DEF Stopped, StopWaitDone
      <4>2. Contract!StopReturns(s)
        BY <1>1, <2>1, <3>1, <4>1, Zenon DEF Contract!StopReturns, Phase, Live, Stopped
      <4>3. QED
        BY <4>2, Zenon DEF Contract!ContractNext
    <3>3. CASE ~ stopDone[s]
      <4>1. Stopped' = Stopped
        BY <1>2, <2>1, <3>3, Zenon DEF Stopped, StopWaitDone
      <4>2. QED
        BY <1>1, <4>1, ContractStutters, Zenon
    <3>4. QED
      BY <3>2, <3>3, Zenon
  <2>2. CASE stopExpired[s] /\ UNCHANGED stopExpired
    <3>1. Stopped' = Stopped
      BY <1>2, <2>2, ZenonT(60) DEF Stopped, StopWaitDone
    <3>2. QED
      BY <1>1, <3>1, ContractStutters, Zenon
  <2>3. QED
    BY <1>2, <2>1, <2>2, Zenon DEF StopWaitDone
<1>3. CASE StopBegin(s) \/ StopExpires(s) \/ StopKill(s) \/ StopReaped(s) \/ StopClose(s)
  <2>1. Stopped' = Stopped
    BY <1>3 DEF Stopped, StopBegin, StopExpires, StopKill, StopReaped, StopClose
  <2>2. QED
    BY <1>1, <2>1, ContractStutters, Zenon
<1>4. QED
  BY <1>2, <1>3, Zenon DEF StopStep

\* The exit of a process and the end of the context.
LEMMA EnvironmentRefines ==
  ASSUME DeviceInv, (\E a \in Attempts : ProcessExits(a)) \/ ContextEnds
  PROVE  [Contract!ContractNext]_(Contract!contractVars)
<1> USE AttemptsAreNumbers
    DEF DeviceInv, DeviceTypeOK, configVars, fieldVars, startVars, osVars, stopVars
<1>1. (done = "closed")' = (done = "closed") /\ Stopped' = Stopped /\ Phase' = Phase
  BY Zenon DEF Stopped, Phase, ProcessExits, ContextEnds
<1>2. ASSUME NEW a \in Attempts, ProcessExits(a)
      PROVE  [Contract!ContractNext]_(Contract!contractVars)
  <2>1. Live = {a} /\ Live' = {}
    <3>1. \A b \in Attempts : proc[b] = "live" <=> b = a
      BY <1>2, Zenon DEF LiveIsCurrent, ProcessExits
    <3>2. \A b \in Attempts : proc'[b] # "live"
      BY <1>2, <3>1, Zenon DEF ProcessExits
    <3>3. QED
      BY <3>1, <3>2, Zenon DEF Live
  <2>2. Contract!Exit(a)
    BY <1>1, <2>1, Zenon DEF Contract!Exit, Phase, Live, Stopped
  <2>3. QED
    BY <2>2, Zenon DEF Contract!ContractNext
<1>3. CASE ContextEnds
  <2>1. Live' = Live
    BY <1>3, Zenon DEF Live, ContextEnds
  <2>2. QED
    BY <1>1, <2>1, ContractStutters, Zenon
<1>4. QED
  BY <1>2, <1>3, Zenon

\* Every behaviour of the device is one that the contract allows, for any number
\* of callers of Stop and any number of startup retries: the reservations and the
\* stream manager may treat the device as the four variables of DeviceContract.
THEOREM DeviceRefinesContract == DeviceSpec => DeviceKeepsContract
<1>1. DeviceInit => Contract!ContractInit
  BY Zenon DEF DeviceInit, Contract!ContractInit
<1>2. DeviceInv /\ [DeviceNext]_deviceVars => [Contract!ContractNext]_(Contract!contractVars)
  <2>1. SUFFICES ASSUME DeviceInv, [DeviceNext]_deviceVars
                 PROVE  [Contract!ContractNext]_(Contract!contractVars)
    BY Zenon
  <2>2. CASE StartBegin \/ StartStep \/ ReapKill
    BY <2>1, <2>2, StartRefines, Zenon
  <2>3. CASE CopyStep \/ CopyEnds(TRUE)
    BY <2>1, <2>3, CopyRefines, Zenon
  <2>4. ASSUME NEW s \in Stoppers, StopBegin(s) \/ StopExpires(s) \/ StopStep(s)
        PROVE  [Contract!ContractNext]_(Contract!contractVars)
    BY <2>1, <2>4, StopRefines, Zenon
  <2>5. CASE (\E a \in Attempts : ProcessExits(a)) \/ ContextEnds
    BY <2>1, <2>5, EnvironmentRefines, Zenon
  <2>6. CASE UNCHANGED deviceVars
    BY <2>6, ContractStutters, Zenon DEF deviceVars, configVars, fieldVars, startVars, osVars,
        stopVars, Phase, Live, Stopped
  <2>7. QED
    BY <2>1, <2>2, <2>3, <2>4, <2>5, <2>6, Zenon DEF DeviceNext
<1>3. QED
  BY <1>1, <1>2, DeviceInvariant, PTL DEF DeviceSpec, DeviceKeepsContract, Contract!ContractSpec

(***************************************************************************)
(* The data broadcasting worker                                            *)
(***************************************************************************)
Draining == {"drain", "observeLast", "ended"}
Settling == {"wait", "woken", "last", "returned"}

BMLTypes ==
    /\ queue \in Nat /\ priorityQueue \in Nat /\ pending \in Nat
    /\ queue <= QueueSize /\ priorityQueue <= PriorityQueueSize
    /\ waited \in Nat /\ priorityBurst \in Nat /\ reopened \in Nat
    /\ workerPc \in {"burst", "prefer", "select", "observe"} \cup Draining
    /\ input \in {"on", "ended"}
    /\ watchPc \in [Watchers -> {"idle", "watch", "left"} \cup Settling]
    /\ watchOn \in [Watchers -> Nat]

\* The input of a worker that was told to end does not come back.
InputInv ==
    /\ stopAsked => input = "ended"
    /\ updatesCancelled => input = "ended" /\ (stopAsked \/ ~restartable)
    /\ workerPc \in Draining => updatesCancelled

\* The wait group counts what is left to observe.
BacklogInv ==
    /\ pending = Backlog
    /\ workerPc = "ended" => queue = 0 /\ priorityQueue = 0

\* An ordinary section that waits has been passed by no more than the current
\* burst, and by less than a full one when the next section is chosen.
BurstInv ==
    /\ waited <= priorityBurst /\ priorityBurst <= Burst
    /\ waited > 0 /\ workerPc \notin Draining => queue > 0
    /\ workerPc \in {"prefer", "select"} => waited < Burst

\* A watcher settles only behind an input that has ended, and takes its last
\* events only when nothing is left.
WatcherInv ==
    /\ \A w \in Watchers : watchPc[w] = "wait" => pending > 0
    /\ ~restartable => /\ reopened = 0
                       /\ \A w \in Watchers : watchOn[w] = 0
                       /\ \A w \in Watchers : watchPc[w] \in Settling => input = "ended"
                       /\ \A w \in Watchers : watchPc[w] \in {"last", "returned"} => pending = 0

BMLInv == BMLTypes /\ InputInv /\ BacklogInv /\ BurstInv /\ WatcherInv

\* What a queue gains is a number of sections.
LEMMA Differences == \A m, n \in Nat : m >= n => m - n \in Nat
  OBVIOUS

\* Nothing has been received at the start.
LEMMA BMLStart == BMLInit => BMLInv
<1> SUFFICES ASSUME BMLInit PROVE BMLInv
  BY Zenon
<1>1. BMLTypes /\ BurstInv /\ BacklogInv
  BY BMLAssumption DEF BMLInit, BMLTypes, BurstInv, BacklogInv, Backlog, Draining, Settling
<1>2. InputInv
  BY Zenon DEF BMLInit, InputInv, Draining
<1>3. WatcherInv
  BY Zenon DEF BMLInit, WatcherInv, Settling
<1>4. QED
  BY <1>1, <1>2, <1>3, Zenon DEF BMLInv

\* The engine: a section is queued or dropped, the input ends, the session stops.
LEMMA EngineKeeps ==
  ASSUME BMLInv, observeDDBSection \/ InputEnds \/ SessionStop \/ stopSectionUpdates
  PROVE  BMLInv'
<1>0. BMLTypes /\ InputInv /\ BacklogInv /\ BurstInv /\ WatcherInv
  BY Zenon DEF BMLInv
<1>1. CASE observeDDBSection
  <2>1. /\ input = "on" /\ queue' \in {queue, queue + 1} /\ queue' <= QueueSize
        /\ priorityQueue' \in {priorityQueue, priorityQueue + 1}
        /\ priorityQueue' <= PriorityQueueSize
        /\ pending' = pending + (queue' - queue) + (priorityQueue' - priorityQueue)
    BY <1>0, <1>1, BMLAssumption DEF observeDDBSection, MinOf, BMLTypes
  <2>2. UNCHANGED <<restartable, input, stopAsked, updatesCancelled, reopened, workerPc,
                    priorityBurst, waited, watchPc, watchOn>>
    BY <1>1, Zenon DEF observeDDBSection, inputVars, workerVars, watchVars
  <2>3. ~updatesCancelled /\ workerPc \notin Draining
    BY <1>0, <2>1, Zenon DEF InputInv
  <2>4. pending' \in Nat /\ pending' >= pending /\ BMLTypes'
    <3>1. queue \in Nat /\ priorityQueue \in Nat /\ pending \in Nat
      BY <1>0, Zenon DEF BMLTypes
    <3>2. queue' \in Nat /\ queue' >= queue /\ priorityQueue' \in Nat /\
            priorityQueue' >= priorityQueue
      BY <2>1, <3>1
    <3>3. pending' \in Nat /\ pending' >= pending
      <4>1. queue' - queue \in Nat /\ priorityQueue' - priorityQueue \in Nat
        BY <3>1, <3>2, Differences, Zenon
      <4>2. pending' = pending + (queue' - queue) + (priorityQueue' - priorityQueue)
        BY <2>1, Zenon
      <4>3. QED
        BY <3>1, <4>1, <4>2
    <3>4. QED
      BY <1>0, <2>1, <2>2, <3>2, <3>3, Zenon DEF BMLTypes
  <2>5. InputInv'
    BY <1>0, <2>2, Zenon DEF InputInv
  <2>6. BacklogInv'
    BY <1>0, <2>1, <2>2, <2>3 DEF BMLTypes, BacklogInv, Backlog, Draining
  <2>7. BurstInv'
    BY <1>0, <2>1, <2>2, <2>3 DEF BMLTypes, BurstInv
  <2>8. WatcherInv'
    <3>1. \A w \in Watchers : watchPc'[w] = "wait" => pending' > 0
      BY <1>0, <2>2, <2>4 DEF BMLTypes, WatcherInv
    <3>2. ~restartable => \A w \in Watchers : watchPc[w] \notin Settling
      BY <1>0, <2>1, Zenon DEF WatcherInv
    <3>3. QED
      BY <1>0, <2>2, <3>1, <3>2, Zenon DEF WatcherInv, Settling
  <2>9. QED
    BY <2>4, <2>5, <2>6, <2>7, <2>8, Zenon DEF BMLInv
<1>2. CASE InputEnds \/ SessionStop \/ stopSectionUpdates
  <2>1. /\ input' \in {input, "ended"}
        /\ UNCHANGED <<restartable, reopened, queue, priorityQueue, pending, workerPc,
                       priorityBurst, waited, watchPc, watchOn>>
    BY <1>2, Zenon DEF InputEnds, SessionStop, stopSectionUpdates, ddbVars, workerVars, watchVars
  <2>2. InputInv'
    BY <1>0, <1>2 DEF InputEnds, SessionStop, stopSectionUpdates, ddbVars, workerVars, InputInv
  <2>3. BMLTypes' /\ BacklogInv' /\ BurstInv'
    BY <1>0, <2>1, Zenon DEF BMLTypes, BacklogInv, Backlog, BurstInv
  <2>4. WatcherInv'
    BY <1>0, <2>1, Zenon DEF BMLTypes, WatcherInv
  <2>5. QED
    BY <2>2, <2>3, <2>4, Zenon DEF BMLInv
<1>3. QED
  BY <1>1, <1>2, Zenon

\* The worker takes sections, in the order of nextSection, and observes them.
LEMMA WorkerKeeps ==
  ASSUME BMLInv, WorkerStep
  PROVE  BMLInv'
<1>0. BMLTypes /\ InputInv /\ BacklogInv /\ BurstInv /\ WatcherInv
  BY Zenon DEF BMLInv
<1>1. CASE nextSection /\ UNCHANGED <<inputVars, pending, sections, watchVars>>
  <2>1. UNCHANGED <<restartable, input, stopAsked, updatesCancelled, reopened, pending, watchPc,
                    watchOn>>
    BY <1>1, Zenon DEF inputVars, watchVars
  <2>2. workerPc \in {"burst", "prefer", "select"}
    BY <1>1, Zenon DEF nextSection
  <2>3. BMLTypes' /\ BacklogInv' /\ BurstInv'
    <3>1. CASE TakeOrdinary
      BY <1>0, <2>1, <2>2, <3>1, BMLAssumption, SMTT(30)
         DEF TakeOrdinary, BMLTypes, BacklogInv, Backlog, BurstInv, Draining
    <3>2. CASE workerPc \in {"prefer", "select"} /\ TakePriority
      BY <1>0, <2>1, <3>2, BMLAssumption
         DEF TakePriority, MinOf, BMLTypes, BacklogInv, Backlog, BurstInv, Draining
    <3>3. CASE workerPc = "burst" /\ ~(priorityBurst >= Burst /\ queue > 0) /\ Pass("prefer")
      BY <1>0, <2>1, <3>3, BMLAssumption
         DEF Pass, BMLTypes, BacklogInv, Backlog, BurstInv, Draining
    <3>4. CASE workerPc \in {"prefer", "select"} /\ (Pass("select") \/ Pass("drain"))
      BY <1>0, <2>1, <3>4, BMLAssumption, Zenon
         DEF Pass, BMLTypes, BacklogInv, Backlog, BurstInv, Draining
    <3>5. QED
      BY <1>1, <3>1, <3>2, <3>3, <3>4, Zenon DEF nextSection
  <2>4. InputInv'
    BY <1>0, <1>1, <2>1, <2>2, Zenon
       DEF nextSection, TakeOrdinary, TakePriority, Pass, InputInv, Draining
  <2>5. WatcherInv'
    BY <1>0, <2>1, Zenon DEF WatcherInv
  <2>6. QED
    BY <2>3, <2>4, <2>5, Zenon DEF BMLInv
<1>2. CASE Drain /\ UNCHANGED <<inputVars, pending, sections, watchVars>>
  <2>1. UNCHANGED <<restartable, input, stopAsked, updatesCancelled, reopened, pending, watchPc,
                    watchOn, priorityBurst, waited>>
    BY <1>2, Zenon DEF inputVars, watchVars, Drain, Pass
  <2>2. BMLTypes' /\ BacklogInv' /\ BurstInv' /\ workerPc' \in Draining /\ workerPc = "drain"
    <3>1. CASE queue + priorityQueue = 0 /\ Pass("ended")
      BY <1>0, <1>2, <2>1, <3>1
         DEF Drain, Pass, BMLTypes, BacklogInv, Backlog, BurstInv, Draining
    <3>2. CASE workerPc' = "observeLast"
      <4>1. /\ queue' \in Nat /\ queue' <= queue
            /\ priorityQueue' \in Nat /\ priorityQueue' <= priorityQueue
            /\ queue' + priorityQueue' + 1 = queue + priorityQueue
        BY <1>0, <1>2, <3>2 DEF Drain, Pass, BMLTypes
      <4>2. workerPc = "drain"
        BY <1>2, Zenon DEF Drain
      <4>3. BMLTypes' /\ BurstInv'
        BY <1>0, <2>1, <3>2, <4>1, BMLAssumption DEF BMLTypes, BurstInv, Draining
      <4>4. BacklogInv'
        <5>1. Backlog = queue + priorityQueue
          BY <1>0, <4>2 DEF BMLTypes, Backlog
        <5>2. Backlog' = queue' + priorityQueue' + 1
          BY <3>2, <4>1, Zenon DEF Backlog
        <5>3. queue \in Nat /\ priorityQueue \in Nat /\ pending' = pending /\ pending = Backlog
          BY <1>0, <2>1, Zenon DEF BMLTypes, BacklogInv
        <5>4. QED
          BY <3>2, <4>1, <5>1, <5>2, <5>3, Zenon DEF BacklogInv
      <4>5. QED
        BY <3>2, <4>2, <4>3, <4>4, Zenon DEF Draining
    <3>3. QED
      BY <1>2, <3>1, <3>2, Zenon DEF Drain
  <2>3. InputInv' /\ WatcherInv'
    BY <1>0, <2>1, <2>2, Zenon DEF InputInv, WatcherInv, Draining
  <2>4. QED
    BY <2>2, <2>3, Zenon DEF BMLInv
<1>3. CASE observeQueuedDDB
  <2>1. /\ UNCHANGED <<restartable, input, stopAsked, updatesCancelled, reopened, queue,
                       priorityQueue, priorityBurst, waited, watchOn>>
        /\ workerPc \in {"observe", "observeLast"} /\ pending' = pending - 1
        /\ workerPc' = IF workerPc = "observe" THEN "burst" ELSE "drain"
        /\ watchPc' = [w \in Watchers |->
               IF watchPc[w] = "wait" /\ pending = 1 THEN "woken" ELSE watchPc[w]]
    BY <1>3, Zenon DEF observeQueuedDDB, inputVars
  <2>2. pending > 0 /\ BMLTypes' /\ BacklogInv' /\ BurstInv'
    BY <1>0, <2>1 DEF BMLTypes, BacklogInv, Backlog, BurstInv, Draining, Settling
  <2>3. InputInv'
    BY <1>0, <2>1, Zenon DEF InputInv, Draining
  <2>4. WatcherInv'
    BY <1>0, <2>1, <2>2 DEF BMLTypes, WatcherInv, Settling
  <2>5. QED
    BY <2>2, <2>3, <2>4, Zenon DEF BMLInv
<1>4. QED
  BY <1>1, <1>2, <1>3, Zenon DEF WorkerStep

\* The watchers come, take events, wait for the end of the input and leave.
LEMMA WatchersKeep ==
  ASSUME BMLInv, NEW w \in Watchers, Attach(w) \/ Leave(w) \/ WatchStep(w)
  PROVE  BMLInv'
<1>0. BMLTypes /\ InputInv /\ BacklogInv /\ BurstInv /\ WatcherInv
  BY Zenon DEF BMLInv
<1>1. UNCHANGED <<restartable, stopAsked, updatesCancelled, queue, priorityQueue, pending,
                  workerPc, priorityBurst, waited>>
  BY Zenon DEF Attach, Leave, WatchStep, TakeEvent, InputDone, WaitReturns, WatchKeeps, ddbVars,
         workerVars
<1>2. BacklogInv' /\ BurstInv'
  BY <1>0, <1>1, Zenon DEF BacklogInv, Backlog, BurstInv
<1>3. CASE Attach(w)
  <2>1. /\ watchPc' = [watchPc EXCEPT ![w] = "watch"] /\ ~stopAsked
        /\ watchOn' = [watchOn EXCEPT ![w] = reopened']
        /\ reopened' \in {reopened, reopened + 1} /\ (~restartable => reopened' = reopened)
        /\ input' \in {input, "on"} /\ (~restartable => input' = input)
    BY <1>3, Zenon DEF Attach, MoveWatcher
  <2>2. BMLTypes'
    BY <1>0, <1>1, <2>1 DEF BMLTypes
  <2>3. InputInv'
    BY <1>0, <1>1, <2>1, Zenon DEF InputInv
  <2>4. WatcherInv'
    BY <1>0, <1>1, <2>1, Zenon DEF BMLTypes, WatcherInv, Settling
  <2>5. QED
    BY <1>2, <2>2, <2>3, <2>4, Zenon DEF BMLInv
<1>4. CASE Leave(w) \/ WatchStep(w)
  <2>1. UNCHANGED <<input, reopened, watchOn>>
    BY <1>4, Zenon DEF Leave, WatchStep, TakeEvent, InputDone, WaitReturns
  <2>2. \/ watchPc' = watchPc
        \/ watchPc' = [watchPc EXCEPT ![w] = "left"]
        \/ watchPc[w] = "last" /\ watchPc' = [watchPc EXCEPT ![w] = "returned"]
        \/ /\ watchPc[w] = "watch" /\ (input = "ended" \/ watchOn[w] # reopened)
           /\ watchPc' = [watchPc EXCEPT ![w] = IF pending = 0 THEN "last" ELSE "wait"]
        \/ watchPc[w] = "woken" /\ pending = 0 /\ watchPc' = [watchPc EXCEPT ![w] = "last"]
    BY <1>4, Zenon DEF Leave, WatchStep, TakeEvent, InputDone, WaitReturns, MoveWatcher
  <2>3. BMLTypes'
    BY <1>0, <1>1, <2>1, <2>2, Zenon DEF BMLTypes, Settling
  <2>4. InputInv'
    BY <1>0, <1>1, <2>1, Zenon DEF InputInv
  <2>5. WatcherInv'
    BY <1>0, <1>1, <2>1, <2>2 DEF BMLTypes, WatcherInv, Settling
  <2>6. QED
    BY <1>2, <2>3, <2>4, <2>5, Zenon DEF BMLInv
<1>5. QED
  BY <1>3, <1>4, Zenon

\* Every section that was accepted is observed, an ordinary one behind at most a
\* burst of others, and whoever waits for the end of the input is woken and has
\* seen all (nextSection, observeQueuedDDB, ObserveDataBroadcast).
THEOREM SectionsCorrect == BMLSpec => []SectionsServed
<1>1. BMLInv /\ [BMLNext]_bmlVars => BMLInv'
  <2> SUFFICES ASSUME BMLInv, [BMLNext]_bmlVars PROVE BMLInv'
    BY Zenon
  <2>1. CASE UNCHANGED bmlVars
    BY <2>1, Zenon DEF bmlVars, inputVars, ddbVars, workerVars, watchVars, BMLInv, BMLTypes,
        InputInv, BacklogInv, Backlog, BurstInv, WatcherInv
  <2>2. QED
    BY <2>1, EngineKeeps, WorkerKeeps, WatchersKeep, Zenon DEF BMLNext
<1>2. BMLInv => SectionsServed
  <2> SUFFICES ASSUME BMLInv PROVE SectionsServed
    BY Zenon
  <2>1. BacklogObserved
    BY DEF BMLInv, BMLTypes, BacklogInv, Backlog, BacklogObserved
  <2>2. OrdinaryNotStarved
    BY BMLAssumption DEF BMLInv, BMLTypes, BurstInv, OrdinaryNotStarved
  <2>3. WatcherSeesAll
    BY Zenon DEF BMLInv, BacklogInv, WatcherInv, WatcherSeesAll
  <2>4. WaitersAreWoken
    BY DEF BMLInv, BMLTypes, BacklogInv, Backlog, WatcherInv, WaitersAreWoken
  <2>5. QED
    BY <2>1, <2>2, <2>3, <2>4, Zenon DEF SectionsServed
<1>3. QED
  BY <1>1, <1>2, BMLStart, PTL DEF BMLSpec

(***************************************************************************)
(* The gather of a network                                                 *)
(***************************************************************************)
GatherTypes ==
    /\ remaining \subseteq Members /\ errs \subseteq {"failed", "unavailable"}
    /\ incompleteTotal \in Nat /\ deferredTotal \in Nat
    /\ kept \in [Members -> StoredAs \cup {"unobserved", "copied"}]

\* What the counters and flags of the loop say of the store.
KeptInv ==
    /\ \A s \in remaining : kept[s] \in {"unobserved", "copied"}
    /\ \A s \in Members \ remaining : kept[s] # "unobserved"
    /\ ~partial => \A s \in Members : kept[s] \notin {"deferred", "incomplete"}
    /\ deferredTotal <= incompleteTotal
    /\ deferredTotal = incompleteTotal => \A s \in Members : kept[s] # "incomplete"
    /\ onlyUnavailable => \A s \in Members : kept[s] \in {"unobserved", "copied"}

GatherInv ==
    /\ GatherTypes /\ KeptInv /\ AnswerIsKept
    /\ answer = Gathering /\ remaining = {} => errs # {}

\* What a candidate leaves follows from what it stored.
LEMMA CandidateAnswers ==
  ASSUME GatherInv, Trying, GatherTypes', KeptInv', NEW got, NEW incomplete \in BOOLEAN,
         NEW e \in Errors, Concludes(got, incomplete, e)
  PROVE  GatherInv'
<1>0. errs \subseteq {"failed", "unavailable"} /\ answer = Gathering
  BY Zenon DEF GatherInv, GatherTypes, Trying
<1>1. CASE e = {} /\ remaining' = {}
  <2>1. answer' = AnswerOf(partial, incomplete) /\ (partial' <=> partial \/ incomplete)
    BY <1>1, Zenon DEF Concludes
  <2>2. CASE ~(partial \/ incomplete)
    <3>1. answer' = {}
      BY <2>1, <2>2, Zenon DEF AnswerOf
    <3>2. \A s \in Members : kept'[s] \in {"complete", "copied"}
      BY <1>1, <2>1, <2>2, Zenon DEF GatherTypes, KeptInv, StoredAs
    <3>3. QED
      BY <3>1, <3>2, Zenon DEF GatherInv, AnswerIsKept, SuccessIsAll, PartialIsBasic,
                        DeferredIsUntouched, Gathering
  <2>3. CASE partial \/ incomplete
    <3>1. answer' = PartialError(errs, incompleteTotal', deferredTotal')
      BY <2>1, <2>3, Zenon DEF AnswerOf
    <3>2. CASE answer' = {"partial"}
      <4>1. incompleteTotal' = deferredTotal'
        BY <3>1, <3>2 DEF PartialError
      <4>2. \A s \in Members : kept'[s] \in {"complete", "deferred", "copied"}
        BY <1>1, <4>1, Zenon DEF GatherTypes, KeptInv, StoredAs
      <4>3. QED
        BY <3>2, <4>2, Zenon DEF GatherInv, AnswerIsKept, SuccessIsAll, PartialIsBasic,
                          DeferredIsUntouched, Gathering
    <3>3. CASE answer' = errs \cup {"incomplete"}
      BY <1>0, <3>3, Zenon DEF GatherInv, AnswerIsKept, SuccessIsAll, PartialIsBasic,
                        DeferredIsUntouched, Gathering
    <3>4. QED
      BY <3>1, <3>2, <3>3, Zenon DEF PartialError
  <2>4. QED
    BY <2>2, <2>3, Zenon
<1>2. CASE answer' = {"canceled"}
  BY <1>2, Zenon DEF GatherInv, AnswerIsKept, SuccessIsAll, PartialIsBasic, DeferredIsUntouched,
              Gathering
<1>3. CASE ~(e = {} /\ remaining' = {}) /\ errs' = errs \cup e /\ answer' = Gathering
  BY <1>3, Zenon DEF GatherInv, AnswerIsKept, SuccessIsAll, PartialIsBasic, DeferredIsUntouched,
              Gathering
<1>4. QED
  BY <1>0, <1>1, <1>2, <1>3, Zenon DEF Concludes

\* A collection stores what it received of the remaining services, and counts
\* the incomplete ones.
LEMMA CollectKeeps ==
  ASSUME GatherInv, NEW as \in [remaining -> Outcomes], NEW unrecorded \in SUBSET remaining,
         NEW undeferred \in SUBSET remaining, NEW e \in Errors,
         Collect(as, unrecorded, undeferred, e)
  PROVE  GatherInv'
<1> DEFINE I == {s \in remaining : as[s] \in IncompleteAs}
           D == {s \in remaining : as[s] = "deferred"} \ undeferred
           incomplete == \E s \in remaining : as[s] \in IncompleteAs
           got == {s \in remaining : as[s] \in StoredAs}
<1>0. /\ Trying /\ Concludes(got, incomplete, e) /\ incomplete \in BOOLEAN
      /\ remaining \subseteq Members /\ errs \subseteq {"failed", "unavailable"}
      /\ incompleteTotal \in Nat /\ deferredTotal \in Nat
      /\ kept \in [Members -> StoredAs \cup {"unobserved", "copied"}]
  BY Zenon DEF Collect, GatherInv, GatherTypes
<1>1. /\ D \subseteq I /\ IsFiniteSet(I) /\ IsFiniteSet(D)
      /\ Cardinality(I) \in Nat /\ Cardinality(D) \in Nat /\ Cardinality(D) <= Cardinality(I)
      /\ Cardinality(D) = Cardinality(I) => D = I
  <2>1. D \subseteq I /\ I \subseteq Members
    BY <1>0, Zenon DEF IncompleteAs
  <2> HIDE DEF D, I
  <2>2. QED
    BY <2>1, GatherAssumption, FS_Subset, FS_CardinalityType, Zenon
<1>2. /\ incompleteTotal' = incompleteTotal + Cardinality(I)
      /\ deferredTotal' = deferredTotal + Cardinality(D)
      /\ kept' = [s \in Members |-> IF s \in remaining /\
          as[s] \in StoredAs THEN as[s] ELSE kept[s]]
      /\ remaining' = remaining \ got /\ (partial' <=> partial \/ incomplete)
      /\ onlyUnavailable' <=> onlyUnavailable /\ e = {"unavailable"}
      /\ errs' \subseteq {"failed", "unavailable"}
  BY <1>0, Zenon DEF Collect, Concludes, Errors, Unavailable
<1>3. incompleteTotal' \in Nat /\ deferredTotal' \in Nat /\ deferredTotal' <= incompleteTotal'
      /\ (deferredTotal' = incompleteTotal' => deferredTotal = incompleteTotal /\ D = I)
  <2>1. deferredTotal <= incompleteTotal
    BY Zenon DEF GatherInv, KeptInv
  <2> HIDE DEF D, I
  <2>2. \A a, b, m, n \in Nat : b <= a /\ n <= m =>
            b + n <= a + m /\ (b + n = a + m => b = a /\ n = m)
    OBVIOUS
  <2>3. /\ deferredTotal + Cardinality(D) <= incompleteTotal + Cardinality(I)
        /\ deferredTotal + Cardinality(D) = incompleteTotal + Cardinality(I)
             => deferredTotal = incompleteTotal /\ Cardinality(D) = Cardinality(I)
    BY <1>0, <1>1, <2>1, <2>2, Zenon
  <2>4. incompleteTotal' \in Nat /\ deferredTotal' \in Nat
    BY <1>0, <1>1, <1>2
  <2>5. QED
    BY <1>1, <1>2, <2>3, <2>4, Zenon
<1>4. GatherTypes'
  BY <1>0, <1>2, <1>3, Zenon DEF GatherTypes
<1>5. KeptInv'
  <2>0. KeptInv
    BY Zenon DEF GatherInv
  <2>1. \A s \in remaining' : kept'[s] \in {"unobserved", "copied"}
    BY <1>0, <1>2, <2>0, Zenon DEF KeptInv
  <2>2. \A s \in Members \ remaining' : kept'[s] # "unobserved"
    BY <1>0, <1>2, <2>0, Zenon DEF KeptInv, StoredAs
  <2>3. ~partial' => \A s \in Members : kept'[s] \notin {"deferred", "incomplete"}
    BY <1>0, <1>2, <2>0, Zenon DEF KeptInv, IncompleteAs
  <2>4. deferredTotal' = incompleteTotal' => \A s \in Members : kept'[s] # "incomplete"
    <3> SUFFICES ASSUME deferredTotal' = incompleteTotal', NEW s \in Members
                 PROVE  kept'[s] # "incomplete"
      BY Zenon
    <3>1. D = I /\ kept[s] # "incomplete"
      BY <1>3, <2>0, Zenon DEF KeptInv
    <3>2. s \in remaining => as[s] # "incomplete"
      BY <3>1, Zenon DEF IncompleteAs
    <3>3. QED
      BY <1>2, <3>1, <3>2, Zenon
  <2>5. onlyUnavailable' => \A s \in Members : kept'[s] \in {"unobserved", "copied"}
    <3> SUFFICES ASSUME onlyUnavailable' PROVE \A s \in Members :
            kept'[s] \in {"unobserved", "copied"}
      BY Zenon
    <3>1. e = {"unavailable"} /\ onlyUnavailable
      BY <1>2, Zenon
    <3>2. \A s \in remaining : as[s] = "unobserved"
      BY <3>1, Zenon DEF Collect
    <3>3. QED
      BY <1>2, <2>0, <3>1, <3>2, Zenon DEF KeptInv, StoredAs
  <2>6. QED
    BY <1>3, <2>1, <2>2, <2>3, <2>4, <2>5, Zenon DEF KeptInv
<1> HIDE DEF got, incomplete
<1>6. QED
  BY <1>0, <1>4, <1>5, CandidateAnswers, Zenon

\* A copy stores what was copied, and observes all of it or nothing.
LEMMA CopyKeeps ==
  ASSUME GatherInv, NEW copied \in SUBSET remaining, NEW e \in Errors, CopyStored(copied, e)
  PROVE  GatherInv'
<1>1. /\ Trying /\ Concludes(IF e = {} THEN remaining ELSE {}, FALSE, e)
      /\ e = {} => copied = remaining
      /\ kept' = [s \in Members |-> IF s \in copied THEN "copied" ELSE kept[s]]
      /\ UNCHANGED <<incompleteTotal, deferredTotal>>
  BY Zenon DEF CopyStored
<1>2. /\ remaining' = IF e = {} THEN {} ELSE remaining
      /\ partial' <=> partial
      /\ onlyUnavailable' => onlyUnavailable
      /\ errs' = errs \/ errs' = errs \cup e
  BY <1>1, Zenon DEF Concludes, Unavailable
<1>3. GatherTypes'
  BY <1>1, <1>2, Zenon DEF GatherInv, GatherTypes, Errors
<1>4. KeptInv'
  BY <1>1, <1>2, Zenon DEF GatherInv, GatherTypes, KeptInv
<1>5. QED
  BY <1>1, <1>3, <1>4, CandidateAnswers, Zenon

\* The answer of a gather job is what it leaves in the store, whichever channels
\* fail, receive a part or copy (gatherNetwork, remote_sync.go).
THEOREM AnswerCorrect == GatherSpec => []AnswerIsKept
<1>1. GatherInit => GatherInv
  BY GatherAssumption
     DEF GatherInit, GatherInv, GatherTypes, KeptInv, AnswerIsKept, SuccessIsAll,
         PartialIsBasic, DeferredIsUntouched, Gathering
<1>2. GatherInv /\ [GatherNext]_gatherVars => GatherInv'
  <2> SUFFICES ASSUME GatherInv, [GatherNext]_gatherVars PROVE GatherInv'
    BY Zenon
  <2>1. ASSUME NEW e \in {"unavailable", "failed"}, OpenFails(e) PROVE GatherInv'
    <3>1. /\ Trying /\ Concludes({}, FALSE, {e}) /\ {e} \in Errors
          /\ UNCHANGED <<incompleteTotal, deferredTotal, kept>>
      BY <2>1, Zenon DEF OpenFails, Errors
    <3>2. /\ remaining' = remaining /\ (partial' <=> partial)
          /\ onlyUnavailable' => onlyUnavailable
          /\ errs' = errs \/ errs' = errs \cup {e}
      BY <3>1, Zenon DEF Concludes, Unavailable
    <3>3. GatherTypes' /\ KeptInv'
      BY <3>1, <3>2, Zenon DEF GatherInv, GatherTypes, KeptInv
    <3>4. QED
      BY <3>1, <3>3, CandidateAnswers, Zenon
  <2>2. ASSUME NothingRemains PROVE GatherInv'
    <3>1. /\ UNCHANGED <<remaining, errs, partial, incompleteTotal, deferredTotal,
                         onlyUnavailable, kept>>
          /\ errs # {} /\ errs \subseteq {"failed", "unavailable"}
          /\ answer' = errs \/ answer' = errs \cup {"incomplete"}
      BY <2>2, Zenon DEF NothingRemains, PartialError, GatherInv, GatherTypes
    <3>2. answer' # {} /\ answer' # {"partial"} /\ "no_tuner" \notin answer' /\ answer' # Gathering
      BY <3>1, Zenon DEF Gathering
    <3>3. QED
      BY <3>1, <3>2, Zenon DEF GatherInv, GatherTypes, KeptInv, AnswerIsKept, SuccessIsAll,
                        PartialIsBasic, DeferredIsUntouched
  <2>3. ASSUME Exhausted PROVE GatherInv'
    <3>1. /\ UNCHANGED <<remaining, errs, partial, incompleteTotal, deferredTotal,
                         onlyUnavailable, kept>>
          /\ errs \subseteq {"failed", "unavailable"}
          /\ answer' \subseteq {"failed", "unavailable", "no_candidates", "incomplete", "no_tuner"}
          /\ answer' # {} /\ ("no_tuner" \in answer' => onlyUnavailable)
      BY <2>3, Zenon DEF Exhausted, GatherInv, GatherTypes
    <3>2. answer' # {"partial"} /\ answer' # Gathering
      BY <3>1, Zenon DEF Gathering
    <3>3. QED
      BY <3>1, <3>2, Zenon DEF GatherInv, GatherTypes, KeptInv, AnswerIsKept, SuccessIsAll,
                        PartialIsBasic, DeferredIsUntouched
  <2>4. CASE UNCHANGED gatherVars
    BY <2>4, Zenon DEF gatherVars, GatherInv, GatherTypes, KeptInv, AnswerIsKept, SuccessIsAll,
                PartialIsBasic, DeferredIsUntouched
  <2>5. QED
    BY <2>1, <2>2, <2>3, <2>4, CollectKeeps, CopyKeeps, Zenon DEF GatherNext
<1>3. GatherInv => AnswerIsKept
  BY Zenon DEF GatherInv
<1>4. QED
  BY <1>1, <1>2, <1>3, PTL DEF GatherSpec
=============================================================================
