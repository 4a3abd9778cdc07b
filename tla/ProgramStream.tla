---------------------------- MODULE ProgramStream ----------------------------
(***************************************************************************)
(* stream/programstream: a service stream cut down to one programme.  The  *)
(* present event, read from p/f sections, arms a timer that ends the       *)
(* stream; an observer, a stream and the copy between them end each other  *)
(* through a context and a pipe.  Time is counted in ticks; a callback of  *)
(* the timer may be late, and p/f may come while it runs.                  *)
(***************************************************************************)
EXTENDS Integers

CONSTANTS
    Grace, Stale, Watch,  \* eventEndGrace, eventStaleAfter, eventWatchInterval
    Missing,              \* the wait for the programme: its scheduled end
    Period,               \* of the p/f sections
    Callbacks             \* bound: calls of closeIfStale at the same time

\* The timer is set again by every p/f section of another event, so it fires
\* only if they are further apart than the grace.
ASSUME PeriodAssumption ==
    /\ {Grace, Stale, Watch, Missing, Period} \subseteq Nat \ {0}
    /\ Grace < Period /\ Period < Stale

VARIABLES
    programme,     \* what is on air: "before", "event", "after"
    pfDue,         \* ticks to the next p/f section
    timer,         \* ticks to the call of closeIfStale, 0 is none
    detected,      \* ticks since lastDetectedAt, up to Stale; -1 is the zero time
    isReady,       \* tracker.ready
    closing,       \* each call of closeIfStale: "off", "read", "cancel", "again"
    runPc,         \* Run: idle, attach, copy, join, returned
    runDone,       \* its context is done
    observer, serviceStream    \* the goroutines: "off", "on", "ended"

airVars == <<programme, pfDue>>
trackVars == <<timer, detected, isReady, closing>>
runVars == <<runPc, runDone, observer, serviceStream>>
programVars == <<airVars, trackVars, runVars>>

ProgramInit ==
    /\ programme = "before" /\ pfDue = Period
    /\ timer = 0 /\ detected = -1 /\ isReady = FALSE /\ closing = [c \in Callbacks |-> "off"]
    /\ runPc = "idle" /\ runDone = FALSE /\ observer = "off" /\ serviceStream = "off"

Started == runPc # "idle"

(***************************************************************************)
(* The tracker                                                             *)
(***************************************************************************)
\* Mutant: the end of the event waits as long as a missing p/f.
ObservedSlow ==
    IF programme = "event"
    THEN isReady' = TRUE /\ detected' = 0 /\ timer' = Stale
    ELSE /\ detected' = IF isReady THEN -1 ELSE detected
         /\ timer' = IF isReady THEN Stale ELSE timer
         /\ UNCHANGED isReady

\* tracker.observe
Observed ==
    IF programme = "event"
    THEN isReady' = TRUE /\ detected' = 0 /\ timer' = Stale
    ELSE /\ detected' = IF isReady THEN -1 ELSE detected
         /\ timer' = IF isReady THEN Grace ELSE timer
         /\ UNCHANGED isReady

\* A p/f section is due; it may be lost, and nobody may observe it any more.
PresentFollowing ==
    /\ Started /\ pfDue = 0 /\ pfDue' = Period
    /\ \/ observer = "on" /\ Observed
       \/ UNCHANGED <<timer, detected, isReady>>
    /\ UNCHANGED <<programme, closing, runVars>>

\* The clock; the timer calls closeIfStale in a goroutine, also while an earlier
\* call has not returned.
Tick ==
    /\ Started /\ pfDue > 0 /\ pfDue' = pfDue - 1
    /\ detected' = IF detected \in 0 .. Stale - 1 THEN detected + 1 ELSE detected
    /\ LET idle == {c \in Callbacks : closing[c] = "off"} IN
       IF timer = 1
       THEN IF idle = {} THEN UNCHANGED <<timer, closing>>
            ELSE timer' = 0 /\ closing' = [closing EXCEPT ![CHOOSE c \in idle : TRUE] = "read"]
       ELSE timer' = (IF timer > 0 THEN timer - 1 ELSE 0) /\ UNCHANGED closing
    /\ UNCHANGED <<programme, isReady, runVars>>

NextProgramme ==
    /\ Started /\ programme # "after"
    /\ programme' = IF programme = "before" THEN "event" ELSE "after"
    /\ UNCHANGED <<pfDue, trackVars, runVars>>

\* closeIfStale looks at lastDetectedAt under the lock, and acts without it.
CloseReads(c) ==
    /\ closing[c] = "read"
    /\ closing' = [closing EXCEPT ![c] = IF detected \in 0 .. Stale - 1 THEN "again" ELSE "cancel"]
    /\ UNCHANGED <<airVars, timer, detected, isReady, runVars>>

CloseActs(c) ==
    /\ closing[c] \in {"again", "cancel"} /\ closing' = [closing EXCEPT ![c] = "off"]
    /\ timer' = IF closing[c] = "again" THEN Watch ELSE timer
    /\ runDone' = (runDone \/ closing[c] = "cancel")
    /\ UNCHANGED <<airVars, detected, isReady, runPc, observer, serviceStream>>

(***************************************************************************)
(* Run                                                                     *)
(***************************************************************************)
RunStarts ==
    /\ runPc = "idle" /\ runPc' = "attach" /\ timer' = Missing /\ observer' = "on"
    /\ UNCHANGED <<airVars, detected, isReady, closing, runDone, serviceStream>>

CallerLeaves ==
    /\ Started /\ ~runDone /\ runDone' = TRUE
    /\ UNCHANGED <<airVars, trackVars, runPc, observer, serviceStream>>

\* The select on attached, observeDone and the context.
RunAttaches ==
    /\ runPc = "attach"
    /\ \/ observer = "on" /\ runPc' = "copy" /\ serviceStream' = "on" /\ UNCHANGED runDone
       \/ /\ observer = "ended" \/ runDone
          /\ runPc' = "returned" /\ runDone' = TRUE /\ UNCHANGED serviceStream
    /\ UNCHANGED <<airVars, trackVars, observer>>

\* The observation ends with the context, or with its engine.
ObserverEnds ==
    /\ observer = "on" /\ observer' = "ended"
    /\ UNCHANGED <<airVars, trackVars, runPc, runDone, serviceStream>>

\* So does the stream, which also ends when the reader of the pipe is closed.
StreamEnds ==
    /\ serviceStream = "on" /\ serviceStream' = "ended"
    /\ UNCHANGED <<airVars, trackVars, runPc, runDone, observer>>

\* copyPackets ends at the end of the pipe, or when a write to dst fails.
CopyEnds ==
    /\ runPc = "copy" /\ runPc' = "join" /\ runDone' = TRUE
    /\ UNCHANGED <<airVars, trackVars, observer, serviceStream>>

RunJoins ==
    /\ runPc = "join" /\ serviceStream = "ended" /\ observer = "ended"
    /\ runPc' = "returned"
    /\ UNCHANGED <<airVars, trackVars, runDone, observer, serviceStream>>

ProgramNext ==
    \/ PresentFollowing \/ Tick \/ NextProgramme
    \/ \E c \in Callbacks : CloseReads(c) \/ CloseActs(c)
    \/ RunStarts \/ CallerLeaves \/ RunAttaches \/ ObserverEnds \/ StreamEnds \/ CopyEnds \/ RunJoins

\* Who waits for the context or the pipe leaves once it is done.  That a write to
\* the viewer returns, also to one that reads no more, is an assumption: the
\* code sets no deadline for it.
ProgramFairness ==
    /\ WF_programVars(PresentFollowing \/ Tick) /\ WF_programVars(NextProgramme)
    /\ (\A c \in Callbacks : WF_programVars(CloseReads(c) \/ CloseActs(c)))
    /\ WF_programVars(RunAttaches \/ RunJoins)
    /\ WF_programVars(runDone /\ ObserverEnds)
    /\ WF_programVars((runDone \/ runPc = "join") /\ StreamEnds)
    /\ WF_programVars(serviceStream = "ended" /\ CopyEnds)

ProgramSpec == ProgramInit /\ [][ProgramNext]_programVars /\ ProgramFairness

(***************************************************************************)
(* Property                                                                *)
(***************************************************************************)
\* A programme stream ends after its programme, and gives up the tuner, though
\* nobody leaves: also when p/f is lost, when the programme never comes, and
\* when the observer or the stream ends first.
ProgramEnds == runPc = "attach" ~> runPc = "returned"
=============================================================================
