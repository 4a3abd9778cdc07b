------------------------------ MODULE BMLWorker ------------------------------
(***************************************************************************)
(* The data broadcasting worker of a channel session (stream/channel,      *)
(* bml.go and session.go): the engine's section hook queues DDB sections   *)
(* without blocking, a goroutine hands them to the hub, and calls of       *)
(* ObserveDataBroadcast watch the events.  When the input ends, a watcher  *)
(* waits for the queued sections before it takes its last events.  Queues  *)
(* are counted; sections have no content.                                  *)
(***************************************************************************)
EXTENDS Integers, FiniteSets

CONSTANTS
    Watchers,            \* ObserveDataBroadcast calls
    QueueSize, PriorityQueueSize, EventBuffer,
    Burst,               \* dataBroadcastPriorityBurst
    MaxSections, MaxReopenings    \* bounds

ASSUME BMLAssumption ==
    QueueSize \in Nat /\ PriorityQueueSize \in Nat /\ Burst \in Nat \ {0}

VARIABLES
    restartable,   \* the input is another server's: the session outlives the engine
    input,         \* the raw engine: "on", or "ended" (e.done is closed)
    stopAsked,     \* Session.Stop has begun
    updatesCancelled, \* the context of the update workers is cancelled
    queue, priorityQueue, pending,  \* the lengths of the queues, and the wait group
    workerPc, priorityBurst,        \* runUpdates
    waited,        \* history: priority sections taken since an ordinary one waits
    watchPc, watchOn,               \* the watchers and the engine of each
    events, eventsClosed,           \* their event channels
    crashed,       \* the wait group was used again before a Wait had returned
    sections, reopened              \* counters of the bounds

inputVars == <<restartable, input, stopAsked, updatesCancelled, reopened>>
ddbVars == <<queue, priorityQueue, pending, sections>>
workerVars == <<workerPc, priorityBurst, waited>>
watchVars == <<watchPc, watchOn, events, eventsClosed, crashed>>
MinOf(a, b) == IF a < b THEN a ELSE b

bmlVars == <<inputVars, ddbVars, workerVars, watchVars>>

\* The workers have found nothing yet and wait, at the last select of nextSection.
BMLInit ==
    /\ restartable \in BOOLEAN /\ input = "on" /\ stopAsked = FALSE
    /\ updatesCancelled = FALSE /\ reopened = 0
    /\ queue = 0 /\ priorityQueue = 0 /\ pending = 0 /\ sections = 0
    /\ workerPc = "select" /\ priorityBurst = 0 /\ waited = 0
    /\ watchPc = [w \in Watchers |-> "idle"] /\ events = [w \in Watchers |-> 0]
    /\ watchOn = [w \in Watchers |-> 0] /\ eventsClosed = {} /\ crashed = FALSE

(***************************************************************************)
(* The engine                                                              *)
(***************************************************************************)

\* observePIDSection of a DDB, into the queue DDBPriority says; a section for
\* which there is no room is dropped.
observeDDBSection ==
    /\ input = "on" /\ sections < MaxSections
    /\ sections' = sections + 1
    /\ \/ queue' = MinOf(queue + 1, QueueSize) /\ UNCHANGED priorityQueue
       \/ priorityQueue' = MinOf(priorityQueue + 1, PriorityQueueSize) /\ UNCHANGED queue
    /\ pending' = pending + (queue' - queue) + (priorityQueue' - priorityQueue)
    /\ UNCHANGED <<inputVars, workerVars, watchVars>>

InputEnds ==
    /\ input = "on" /\ input' = "ended"
    /\ UNCHANGED <<restartable, stopAsked, updatesCancelled, reopened, ddbVars,
                   workerVars, watchVars>>

SessionStop ==
    /\ ~stopAsked /\ stopAsked' = TRUE /\ input' = "ended"
    /\ UNCHANGED <<restartable, updatesCancelled, reopened, ddbVars, workerVars,
                   watchVars>>

\* stopSectionUpdates, after the engine: from onEmpty, or from Stop.
stopSectionUpdates ==
    /\ input = "ended" /\ (stopAsked \/ ~restartable) /\ ~updatesCancelled
    /\ updatesCancelled' = TRUE
    /\ UNCHANGED <<restartable, input, stopAsked, reopened, ddbVars, workerVars,
                   watchVars>>

(***************************************************************************)
(* runUpdates                                                              *)
(***************************************************************************)
TakeOrdinary ==
    /\ queue > 0 /\ queue' = queue - 1
    /\ priorityBurst' = 0 /\ waited' = 0
    /\ workerPc' = "observe" /\ UNCHANGED priorityQueue

TakePriority ==
    /\ priorityQueue > 0 /\ priorityQueue' = priorityQueue - 1
    /\ priorityBurst' = MinOf(priorityBurst + 1, Burst)
    /\ waited' = IF queue > 0 THEN waited + 1 ELSE 0
    /\ workerPc' = "observe" /\ UNCHANGED queue

Pass(pc) == workerPc' = pc /\ UNCHANGED <<queue, priorityQueue, priorityBurst, waited>>

\* The three selects of nextSection; a section may arrive between them.
nextSection ==
    \/ workerPc = "burst" /\ IF priorityBurst >= Burst /\ queue > 0 THEN TakeOrdinary ELSE Pass("prefer")
    \/ workerPc = "prefer" /\ IF priorityQueue > 0 THEN TakePriority ELSE Pass("select")
    \/ workerPc = "select" /\ (TakePriority \/ TakeOrdinary \/ (updatesCancelled /\ Pass("drain")))

\* The loop over what is queued when the context is done.
Drain ==
    /\ workerPc = "drain"
    /\ \/ queue + priorityQueue = 0 /\ Pass("ended")
       \/ /\ queue > 0 /\ queue' = queue - 1 /\ workerPc' = "observeLast"
          /\ UNCHANGED <<priorityQueue, priorityBurst, waited>>
       \/ /\ priorityQueue > 0 /\ priorityQueue' = priorityQueue - 1 /\ workerPc' = "observeLast"
          /\ UNCHANGED <<queue, priorityBurst, waited>>

Subscribed == {w \in Watchers : watchPc[w] \notin {"idle", "returned"}} \ eventsClosed

\* observeQueuedDDB: the hub may send an event, which closes a channel that is
\* full; the last Done wakes who is in Wait.
observeQueuedDDB ==
    /\ workerPc \in {"observe", "observeLast"}
    /\ workerPc' = IF workerPc = "observe" THEN "burst" ELSE "drain"
    /\ pending' = pending - 1
    /\ watchPc' = [w \in Watchers |->
           IF watchPc[w] = "wait" /\ pending = 1 THEN "woken" ELSE watchPc[w]]
    /\ \/ UNCHANGED <<events, eventsClosed>>
       \/ LET full == {w \in Subscribed : events[w] = EventBuffer}
          IN /\ eventsClosed' = eventsClosed \cup full
             /\ events' = [w \in Watchers |->
                               IF w \in Subscribed \ full THEN events[w] + 1 ELSE events[w]]
    /\ UNCHANGED <<inputVars, queue, priorityQueue, sections, priorityBurst, waited,
                   watchOn, crashed>>

WorkerStep ==
    \/ (nextSection \/ Drain) /\ UNCHANGED <<inputVars, pending, sections, watchVars>>
    \/ observeQueuedDDB

(***************************************************************************)
(* ObserveDataBroadcast                                                    *)
(***************************************************************************)
MoveWatcher(w, pc) == watchPc' = [watchPc EXCEPT ![w] = pc]
WatchKeeps == UNCHANGED <<ddbVars, workerVars, restartable, stopAsked, updatesCancelled>>

\* streamDemuxer, which replaces the ended engine of a remote input, and Subscribe.
Attach(w) ==
    /\ watchPc[w] = "idle" /\ ~stopAsked
    /\ input = "ended" /\ restartable => reopened < MaxReopenings
    /\ reopened' = IF input = "ended" /\ restartable THEN reopened + 1 ELSE reopened
    /\ input' = IF restartable THEN "on" ELSE input
    /\ watchOn' = [watchOn EXCEPT ![w] = reopened']
    /\ MoveWatcher(w, "watch") /\ UNCHANGED <<events, eventsClosed, crashed>> /\ WatchKeeps

\* The caller's context is done, or observe failed.
Leave(w) ==
    /\ watchPc[w] = "watch" /\ MoveWatcher(w, "left")
    /\ UNCHANGED <<input, reopened, watchOn, events, eventsClosed, crashed>> /\ WatchKeeps

\* A closed channel is read to its end, and then ends the call.
TakeEvent(w) ==
    /\ watchPc[w] \in {"watch", "last"}
    /\ \/ events[w] > 0 /\ events' = [events EXCEPT ![w] = @ - 1] /\ UNCHANGED watchPc
       \/ /\ events[w] = 0 /\ UNCHANGED events
          /\ \/ watchPc[w] = "last" /\ MoveWatcher(w, "returned")
             \/ watchPc[w] = "watch" /\ w \in eventsClosed /\ MoveWatcher(w, "left")
    /\ UNCHANGED <<input, reopened, watchOn, eventsClosed, crashed>> /\ WatchKeeps

\* Mutant: the queued sections are not waited for.
InputDoneHasty(w) ==
    /\ watchPc[w] = "watch" /\ (input = "ended" \/ watchOn[w] # reopened)
    /\ MoveWatcher(w, "last")
    /\ UNCHANGED <<input, reopened, watchOn, events, eventsClosed, crashed>> /\ WatchKeeps

\* KeepAlive has returned; wg.Wait blocks unless the counter is zero.
InputDone(w) ==
    /\ watchPc[w] = "watch" /\ (input = "ended" \/ watchOn[w] # reopened)
    /\ MoveWatcher(w, IF pending = 0 THEN "last" ELSE "wait")
    /\ UNCHANGED <<input, reopened, watchOn, events, eventsClosed, crashed>> /\ WatchKeeps

\* Wait was woken by the last Done; it panics if Add was called since.
WaitReturns(w) ==
    /\ watchPc[w] = "woken"
    /\ IF pending = 0 THEN MoveWatcher(w, "last") /\ UNCHANGED crashed
       ELSE crashed' = TRUE /\ UNCHANGED watchPc
    /\ UNCHANGED <<input, reopened, watchOn, events, eventsClosed>> /\ WatchKeeps

WatchStep(w) == TakeEvent(w) \/ InputDone(w) \/ WaitReturns(w)

BMLNext ==
    /\ ~crashed
    /\ \/ observeDDBSection \/ InputEnds \/ SessionStop
       \/ stopSectionUpdates \/ WorkerStep
       \/ \E w \in Watchers : Attach(w) \/ Leave(w) \/ WatchStep(w)

BMLSpec == BMLInit /\ [][BMLNext]_bmlVars

(***************************************************************************)
(* Properties                                                              *)
(***************************************************************************)
\* What the engine handed over and the hub has not seen.
Backlog == queue + priorityQueue + IF workerPc \in {"observe", "observeLast"} THEN 1 ELSE 0

\* "Finish the bounded backlog so a final module completion is not lost on input
\* shutdown": when the worker has ended nothing is queued, and nothing is any more.
BacklogObserved == workerPc = "ended" => Backlog = 0 /\ pending = 0

\* "forces one normal section after a bounded burst": an ordinary section is
\* passed by at most Burst sections of priority.
OrdinaryNotStarved == waited <= Burst

\* "Drain those events so a completed module notification is not lost": a call
\* that returns because the input ended leaves no section behind whose event it
\* should have delivered.
WatcherSeesAll ==
    \A w \in Watchers : watchPc[w] = "returned" /\ ~restartable => Backlog = 0

\* A call in Wait is going to be woken: the counter is what is left to observe,
\* and the worker has not ended.
WaitersAreWoken ==
    \A w \in Watchers : watchPc[w] = "wait" =>
        Backlog > 0 /\ pending = Backlog /\ workerPc # "ended"

\* Every section that was accepted is observed, in bounded turn, and whoever
\* waits for it is told, also when the input ends.
SectionsServed == BacklogObserved /\ OrdinaryNotStarved /\ WatcherSeesAll /\ WaitersAreWoken
=============================================================================
