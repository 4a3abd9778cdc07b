---------------------------- MODULE ProcessDevice ----------------------------
(***************************************************************************)
(* tuner/device.go and util/process.go: a local device that runs a command *)
(* and copies its output.  One Start, with or without startup retries,     *)
(* races Stops of several callers, the context watcher, the copier and the *)
(* process itself.                                                         *)
(***************************************************************************)
EXTENDS Integers, FiniteSets

CONSTANTS
    Callers,     \* goroutines that may call Stop
    MaxRetry,    \* largest startupRetryMax
    NoAttempt    \* a nil process or reader

ASSUME DeviceAssumption ==
    /\ MaxRetry \in Nat
    /\ NoAttempt \notin Int
    /\ "context" \notin Callers

Attempts == 0 .. MaxRetry
Stoppers == Callers \cup {"context"}    \* "context" is stopOnContext

VARIABLES
    dvb,           \* the reader is a DVB device file, not the process's stdout
    retryMax,      \* startupRetryMax
    done,          \* d.done: "nil", "open" or "closed"
    tunerProcess,  \* d.tunerProcess
    rawReader,     \* d.rawReader
    stopping,      \* d.stopping
    startPc,       \* where Start is
    attempt,       \* the loop variable of startWithRetry
    proc,          \* proc[a]: the process of attempt a
    killed,        \* attempts whose process was sent SIGKILL
    readers,       \* attempts whose reader is open
    copyPc,        \* where copyRaw is
    ctxDone,       \* the context given to Start has ended
    stopPc,        \* where each Stop is
    stopProc,      \* the process that Stop read
    stopDone,      \* that Stop read a non-nil d.done
    stopExpired    \* the context of that Stop has ended

configVars == <<dvb, retryMax>>
fieldVars == <<done, tunerProcess, rawReader, stopping>>
startVars == <<startPc, attempt>>
osVars == <<proc, killed, readers>>
stopVars == <<stopPc, stopProc, stopDone, stopExpired>>
deviceVars == <<configVars, fieldVars, startVars, osVars, copyPc, ctxDone, stopVars>>

DeviceInit ==
    /\ dvb \in BOOLEAN /\ retryMax \in Attempts
    /\ done = "nil" /\ tunerProcess = NoAttempt /\ rawReader = NoAttempt
    /\ stopping = FALSE
    /\ startPc = "idle" /\ attempt = 0
    /\ proc = [a \in Attempts |-> "none"] /\ killed = {} /\ readers = {}
    /\ copyPc = "none" /\ ctxDone = FALSE
    /\ stopPc = [s \in Stoppers |-> "idle"]
    /\ stopProc = [s \in Stoppers |-> NoAttempt]
    /\ stopDone = [s \in Stoppers |-> FALSE]
    /\ stopExpired = [s \in Stoppers |-> FALSE]

(***************************************************************************)
(* Start                                                                   *)
(***************************************************************************)
StartBegin ==
    /\ startPc = "idle" /\ done = "nil"
    /\ done' = "open" /\ stopping' = FALSE
    /\ startPc' = IF retryMax > 0 THEN "loop" ELSE "once"
    /\ UNCHANGED <<configVars, tunerProcess, rawReader, attempt, osVars, copyPc,
                   ctxDone, stopVars>>

\* startOnce, which holds d.mu until the process and its reader are set.
StartOnce ==
    /\ startPc = "once"
    /\ \/ startPc' = "fail"                           \* process.Start failed
          /\ UNCHANGED <<fieldVars, proc, readers, copyPc>>
       \/ /\ startPc' = "ok" /\ copyPc' = "copy"
          /\ proc' = [proc EXCEPT ![0] = "live"]
          /\ readers' = {0} /\ tunerProcess' = 0 /\ rawReader' = 0
          /\ UNCHANGED <<done, stopping>>
       \/ /\ dvb /\ startPc' = "reap"                 \* openAfterStart failed
          /\ proc' = [proc EXCEPT ![0] = "live"]
          /\ done' = "nil"
          /\ UNCHANGED <<tunerProcess, rawReader, stopping, readers, copyPc>>
    /\ UNCHANGED <<configVars, attempt, killed, ctxDone, stopVars>>

\* The head of the loop of startWithRetry.
StartLoop ==
    /\ startPc = "loop"
    /\ startPc' = IF ctxDone \/ stopping THEN "fail" ELSE "launch"
    /\ UNCHANGED <<configVars, fieldVars, attempt, osVars, copyPc, ctxDone, stopVars>>

AfterAttempt == IF attempt = retryMax THEN "fail" ELSE "delay"

StartLaunch ==
    /\ startPc = "launch"
    /\ \/ /\ startPc' = AfterAttempt
          /\ UNCHANGED <<proc, readers>>
       \/ /\ startPc' = "register"
          /\ proc' = [proc EXCEPT ![attempt] = "live"]
          /\ readers' = IF dvb THEN readers ELSE readers \cup {attempt}
    /\ UNCHANGED <<configVars, fieldVars, attempt, killed, copyPc, ctxDone, stopVars>>

StartRegister ==
    /\ startPc = "register"
    /\ tunerProcess' = attempt
    /\ startPc' = "open"
    /\ UNCHANGED <<configVars, done, rawReader, stopping, attempt, osVars, copyPc,
                   ctxDone, stopVars>>

StartOpen ==
    /\ startPc = "open"
    /\ \/ /\ dvb /\ startPc' = "cleanup"
          /\ UNCHANGED <<rawReader, readers>>
       \/ /\ startPc' = "probe"
          /\ rawReader' = attempt
          /\ readers' = readers \cup {attempt}
    /\ UNCHANGED <<configVars, done, tunerProcess, stopping, attempt, proc, killed,
                   copyPc, ctxDone, stopVars>>

\* readStartupChunk: a first chunk, or end of output, timeout or cancellation.
StartProbe ==
    /\ startPc = "probe"
    /\ \/ attempt \in readers /\ startPc' = "ok" /\ copyPc' = "copy"
       \/ startPc' = "cleanup" /\ UNCHANGED copyPc
    /\ UNCHANGED <<configVars, fieldVars, attempt, osVars, ctxDone, stopVars>>

\* cleanupStartupAttempt up to the SIGTERM of process.Stop.
StartCleanup ==
    /\ startPc = "cleanup"
    /\ rawReader' = IF rawReader = attempt THEN NoAttempt ELSE rawReader
    /\ tunerProcess' = IF tunerProcess = attempt THEN NoAttempt ELSE tunerProcess
    /\ readers' = readers \ {attempt}
    /\ startPc' = "reap"
    /\ UNCHANGED <<configVars, done, stopping, attempt, proc, killed, copyPc,
                   ctxDone, stopVars>>

\* Process.Stop of the failed attempt: SIGKILL after its five seconds ...
ReapKill ==
    /\ startPc = "reap" /\ attempt \notin killed
    /\ killed' = killed \cup {attempt}
    /\ UNCHANGED <<configVars, fieldVars, startVars, proc, readers, copyPc, ctxDone,
                   stopVars>>

\* ... and the return once the process is gone.
Reaped ==
    /\ startPc = "reap" /\ proc[attempt] = "exited"
    /\ startPc' = AfterAttempt
    /\ UNCHANGED <<configVars, fieldVars, attempt, osVars, copyPc, ctxDone, stopVars>>

StartDelay ==
    /\ startPc = "delay"
    /\ \/ ctxDone /\ startPc' = "fail" /\ UNCHANGED attempt
       \/ startPc' = "loop" /\ attempt' = attempt + 1
    /\ UNCHANGED <<configVars, fieldVars, osVars, copyPc, ctxDone, stopVars>>

StartFail ==
    /\ startPc = "fail"
    /\ done' = "nil" /\ tunerProcess' = NoAttempt /\ rawReader' = NoAttempt
    /\ startPc' = "failed"
    /\ UNCHANGED <<configVars, stopping, attempt, osVars, copyPc, ctxDone, stopVars>>

(***************************************************************************)
(* Stop, called by a caller or by stopOnContext                            *)
(***************************************************************************)
StopBegin(s) ==
    /\ stopPc[s] = "idle"
    /\ s = "context" => ctxDone /\ startPc = "ok"
    /\ stopping' = TRUE
    /\ stopProc' = [stopProc EXCEPT ![s] = tunerProcess]
    /\ stopDone' = [stopDone EXCEPT ![s] = done # "nil"]
    /\ stopPc' = [stopPc EXCEPT ![s] = IF tunerProcess = NoAttempt THEN "close" ELSE "wait"]
    /\ UNCHANGED <<configVars, done, tunerProcess, rawReader, startVars, osVars,
                   copyPc, ctxDone, stopExpired>>

\* The context of a Stop ends; in Process.Stop that is the SIGKILL.
StopExpires(s) ==
    /\ stopPc[s] \in {"wait", "close", "done"} /\ ~ stopExpired[s]
    /\ stopExpired' = [stopExpired EXCEPT ![s] = TRUE]
    /\ UNCHANGED <<configVars, fieldVars, startVars, osVars, copyPc, ctxDone,
                   stopPc, stopProc, stopDone>>

StopKill(s) ==
    /\ stopPc[s] = "wait" /\ stopExpired[s] /\ stopProc[s] \notin killed
    /\ killed' = killed \cup {stopProc[s]}
    /\ UNCHANGED <<configVars, fieldVars, startVars, proc, readers, copyPc, ctxDone,
                   stopVars>>

StopReaped(s) ==
    /\ stopPc[s] = "wait" /\ proc[stopProc[s]] = "exited"
    /\ stopPc' = [stopPc EXCEPT ![s] = "close"]
    /\ UNCHANGED <<configVars, fieldVars, startVars, osVars, copyPc, ctxDone,
                   stopProc, stopDone, stopExpired>>

\* closeRawReader, as Stop and copyRaw call it.
CloseRawReader ==
    /\ rawReader' = NoAttempt
    /\ readers' = readers \ {rawReader}

\* Mutant: the reader is forgotten without being closed.
StopCloseLeaks(s) ==
    /\ stopPc[s] = "close"
    /\ rawReader' = NoAttempt
    /\ stopPc' = [stopPc EXCEPT ![s] = IF stopDone[s] THEN "done" ELSE "returned"]
    /\ UNCHANGED <<configVars, done, tunerProcess, stopping, startVars, osVars,
                   copyPc, ctxDone, stopProc, stopDone, stopExpired>>

StopClose(s) ==
    /\ stopPc[s] = "close"
    /\ CloseRawReader
    /\ stopPc' = [stopPc EXCEPT ![s] = IF stopDone[s] THEN "done" ELSE "returned"]
    /\ UNCHANGED <<configVars, done, tunerProcess, stopping, startVars, proc, killed,
                   copyPc, ctxDone, stopProc, stopDone, stopExpired>>

\* Mutant: Stop does not watch its context while it waits for done.
StopDoneOnly(s) ==
    /\ stopPc[s] = "done"
    /\ done = "closed" /\ stopExpired' = [stopExpired EXCEPT ![s] = FALSE]
    /\ stopPc' = [stopPc EXCEPT ![s] = "returned"]
    /\ UNCHANGED <<configVars, fieldVars, startVars, osVars, copyPc, ctxDone,
                   stopProc, stopDone>>

\* The final select: done closed, or the context's error.
StopWaitDone(s) ==
    /\ stopPc[s] = "done"
    /\ \/ done = "closed" /\ stopExpired' = [stopExpired EXCEPT ![s] = FALSE]
       \/ stopExpired[s] /\ UNCHANGED stopExpired
    /\ stopPc' = [stopPc EXCEPT ![s] = "returned"]
    /\ UNCHANGED <<configVars, fieldVars, startVars, osVars, copyPc, ctxDone,
                   stopProc, stopDone>>

(***************************************************************************)
(* copyRaw and finish                                                      *)
(***************************************************************************)
\* io.Copy ends: the reader was closed, the process left, or dst failed.
CopyEnds(dstFailed) ==
    /\ copyPc = "copy"
    /\ \/ dstFailed
       \/ tunerProcess \notin readers
       \/ ~ dvb /\ proc[tunerProcess] = "exited"
    /\ copyPc' = "wait"
    /\ UNCHANGED <<configVars, fieldVars, startVars, osVars, ctxDone, stopVars>>

\* Mutant: done is closed without waiting for the process.
CopyFinishEarly ==
    /\ copyPc = "wait"
    /\ done' = "closed"
    /\ copyPc' = "close"
    /\ UNCHANGED <<configVars, tunerProcess, rawReader, stopping, startVars, osVars,
                   ctxDone, stopVars>>

\* process.Wait, then finish.
CopyFinish ==
    /\ copyPc = "wait" /\ proc[tunerProcess] = "exited"
    /\ done' = "closed"
    /\ copyPc' = "close"
    /\ UNCHANGED <<configVars, tunerProcess, rawReader, stopping, startVars, osVars,
                   ctxDone, stopVars>>

CopyClose ==
    /\ copyPc = "close"
    /\ CloseRawReader
    /\ copyPc' = "end"
    /\ UNCHANGED <<configVars, done, tunerProcess, stopping, startVars, proc, killed,
                   ctxDone, stopVars>>

(***************************************************************************)
(* The operating system and the owner of the context                       *)
(***************************************************************************)
ProcessExits(a) ==
    /\ proc[a] = "live"
    /\ proc' = [proc EXCEPT ![a] = "exited"]
    /\ UNCHANGED <<configVars, fieldVars, startVars, killed, readers, copyPc,
                   ctxDone, stopVars>>

ContextEnds ==
    /\ ~ ctxDone
    /\ ctxDone' = TRUE
    /\ UNCHANGED <<configVars, fieldVars, startVars, osVars, copyPc, stopVars>>

StartStep ==
    \/ StartOnce \/ StartLoop \/ StartLaunch \/ StartRegister
    \/ StartOpen \/ StartProbe \/ StartCleanup \/ Reaped \/ StartDelay \/ StartFail

CopyStep == CopyEnds(FALSE) \/ CopyFinish \/ CopyClose

StopStep(s) == StopKill(s) \/ StopReaped(s) \/ StopClose(s) \/ StopWaitDone(s)

DeviceNext ==
    \/ StartBegin \/ StartStep \/ ReapKill
    \/ CopyStep \/ CopyEnds(TRUE)
    \/ \E s \in Stoppers : StopBegin(s) \/ StopExpires(s) \/ StopStep(s)
    \/ \E a \in Attempts : ProcessExits(a)
    \/ ContextEnds

\* Goroutines run, deadlines pass, and a process sent SIGKILL dies.
DeviceFairness ==
    /\ WF_deviceVars(StartStep) /\ WF_deviceVars(ReapKill) /\ WF_deviceVars(CopyStep)
    /\ WF_deviceVars(StopBegin("context"))
    /\ \A s \in Stoppers : WF_deviceVars(StopExpires(s)) /\ WF_deviceVars(StopStep(s))
    /\ \A a \in Attempts : WF_deviceVars(a \in killed /\ ProcessExits(a))

DeviceSpec == DeviceInit /\ [][DeviceNext]_deviceVars
FairDeviceSpec == DeviceSpec /\ DeviceFairness
(***************************************************************************)
(* Properties                                                              *)
(***************************************************************************)
DeviceTypeOK ==
    /\ dvb \in BOOLEAN /\ retryMax \in Attempts
    /\ done \in {"nil", "open", "closed"} /\ stopping \in BOOLEAN
    /\ tunerProcess \in Attempts \cup {NoAttempt}
    /\ rawReader \in Attempts \cup {NoAttempt}
    /\ startPc \in {"idle", "once", "loop", "launch", "register", "open", "probe",
                    "cleanup", "reap", "delay", "fail", "failed", "ok"}
    /\ attempt \in Attempts
    /\ proc \in [Attempts -> {"none", "live", "exited"}]
    /\ killed \subseteq Attempts /\ readers \subseteq Attempts
    /\ copyPc \in {"none", "copy", "wait", "close", "end"}
    /\ ctxDone \in BOOLEAN
    /\ stopPc \in [Stoppers -> {"idle", "wait", "close", "done", "returned"}]
    /\ stopProc \in [Stoppers -> Attempts \cup {NoAttempt}]
    /\ stopDone \in [Stoppers -> BOOLEAN]
    /\ stopExpired \in [Stoppers -> BOOLEAN]

Contract == INSTANCE DeviceContract WITH
    phase <- IF startPc \in {"idle", "failed"} THEN startPc
             ELSE IF startPc = "ok" THEN "started" ELSE "starting",
    running <- {a \in Attempts : proc[a] = "live"},
    over <- done = "closed",
    stopped <- {s \in Stoppers : stopPc[s] = "returned" /\ stopDone[s] /\ ~ stopExpired[s]}

\* The device keeps the contract the tuner manager relies on: at most one
\* process at a time, none left by a failed Start, Done only after the process
\* is gone, and a Stop of a starting or started device that returns without a
\* context error only after Done, whatever Stops, retries and exits interleave.
DeviceKeepsContract == Contract!ContractSpec

\* No reader outlives its device: once Start has failed or copyRaw has returned
\* every pipe or device file opened by any attempt is closed.
ReadersClosed == startPc = "failed" \/ copyPc = "end" => readers = {}

\* After the context given to a successful Start ends, the process is gone and
\* copyRaw has returned, even if the process ignores SIGTERM (stopOnContext).
CancelEndsDevice ==
    ctxDone /\ startPc = "ok" ~> copyPc = "end" /\ \A a \in Attempts : proc[a] # "live"

\* Every Stop returns, also one whose done channel is dropped by a failing Start.
StopReturns ==
    (\E s \in Stoppers : stopPc[s] \notin {"idle", "returned"})
      ~> \A s \in Stoppers : stopPc[s] \in {"idle", "returned"}
=============================================================================
