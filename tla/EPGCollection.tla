---------------------------- MODULE EPGCollection ----------------------------
(***************************************************************************)
(* One EPG collection: CollectServiceSnapshots of epggather/collect.go and *)
(* the two workers of collect_workers.go.  The goroutine of the session    *)
(* reports progress through bounded channels, a loop follows it, a worker  *)
(* stores partial schedules and another present/following events while it  *)
(* runs; at the end the loop drains the channels, waits for the workers    *)
(* and stores what was received.  A schedule is the number of its          *)
(* sections: a snapshot reads the events and the revisions of the live     *)
(* reception one after the other.                                          *)
(***************************************************************************)
EXTENDS Integers, Sequences, FiniteSets, Functions

CONSTANTS
    Services,       \* of the collection's network and stream
    Expected,       \* the targets among them
    MaxSections,    \* bound: sections that make progress
    UpdateBuffer,   \* eitsCollectionBuffer of updateCh and pfCh
    PFBuffer,       \* eitsCollectionBuffer of the upserter
    ProbeExtended   \* CollectOptions.ProbeExtended

VARIABLES
    sections,     \* session: sections of each service received so far
    observation,  \* session: what its goroutine does, with the update in hand
    updateCh, pfCh,
    at,           \* the loop
    updates,      \* collectionSchedule.updates
    dirty,        \* dirtyServices
    timer,        \* which of stableTimer and idleTimer runs
    progressed,   \* a target made progress since the timer fired
    pending,      \* updates a fired timer still has to look at
    received,     \* something was received
    reason,       \* endReason
    collectorDone,
    cancelled,    \* collectCtx is done
    aborted,      \* ctx is done
    read,         \* events of the snapshot that is being taken
    requests,     \* partialEITSFlusher: its one-place channel
    flushing,     \* partialEITSFlusher: snapshots of the request at work
    upserting,    \* partialEITSFlusher: the snapshot being stored
    pf,           \* eitPFUpserter
    todo,         \* persistObservedSnapshots: services to go
    stored,       \* programme store: schedule last stored by this collection
    recorded,     \* service store: what is recorded of the collection
    handed        \* history: newest events of each service given to the flusher

observationVars == <<sections, observation>>
loopVars == <<at, updates, dirty, timer, progressed, pending, received, reason, collectorDone>>
contextVars == <<cancelled, aborted>>
flusherVars == <<requests, flushing, upserting, handed>>
persistVars == <<todo, recorded>>
collectionVars == <<observationVars, updateCh, pfCh, loopVars, contextVars, read, flusherVars, pf,
                    persistVars, stored>>

\* What an update says of the tables: only extended ones were seen, basic ones
\* are missing, basic ones are complete and nothing is known of extended ones,
\* all are complete.
Receptions == {"extended", "basic", "unknown", "complete"}

NoService == "none"
Observing == [at |-> "observing"]
Returned == {"ended", "failed", "unavailable", "cancelled"}
Nothing == [events |-> 0, revisions |-> 0]

SectionCount == pf.seen + FoldFunction(+, 0, sections)

CollectionInit ==
    /\ sections = [s \in Services |-> 0] /\ observation = Observing
    /\ updateCh = <<>> /\ pfCh = <<>>
    /\ at = "new" /\ updates = [s \in Services |-> "none"] /\ dirty = {}
    /\ timer = "off" /\ progressed = FALSE /\ pending = 0 /\ received = FALSE
    /\ reason = "deadline" /\ collectorDone = FALSE
    /\ cancelled = FALSE /\ aborted = FALSE
    /\ read = [s \in Services |-> 0]
    /\ requests = {} /\ flushing = {} /\ upserting = {}
    /\ pf = [seen |-> 0, handled |-> 0, pending |-> 0, queue |-> <<>>, now |-> 0, err |-> "none", stored |-> 0]
    /\ todo = {} /\ recorded = [s \in Services |-> "none"]
    /\ stored = [s \in Services |-> Nothing]
    /\ handed = [s \in Services |-> 0]

CollectStart ==
    /\ at = "new" /\ at' = "loop"
    /\ UNCHANGED <<observationVars, updateCh, pfCh, updates, dirty, timer, progressed, pending, received,
                   reason, collectorDone, contextVars, read, flusherVars, pf, persistVars, stored>>

(***************************************************************************)
(* The goroutine of the session: sections change the reception state, then *)
(* onSchedule or onPresentFollowing hands them on or meets the             *)
(* cancellation.                                                           *)
(***************************************************************************)
restOfSession == <<loopVars, contextVars, read, flusherVars, persistVars, stored>>

ObserveSchedule(s, as) ==
    /\ at \notin {"new", "returned"} /\ observation = Observing /\ SectionCount < MaxSections
    /\ sections' = [sections EXCEPT ![s] = @ + 1]
    /\ observation' = [at |-> "update", service |-> s, as |-> as]
    /\ UNCHANGED <<updateCh, pfCh, pf, restOfSession>>

ObservePresentFollowing ==
    /\ at \notin {"new", "returned"} /\ observation = Observing /\ SectionCount < MaxSections
    /\ pf' = [pf EXCEPT !.seen = @ + 1]
    /\ observation' = [at |-> "pf", n |-> pf.seen + 1]
    /\ UNCHANGED <<sections, updateCh, pfCh, restOfSession>>

OnSchedule ==
    /\ observation.at = "update" /\ Len(updateCh) < UpdateBuffer
    /\ updateCh' = Append(updateCh, observation) /\ observation' = Observing
    /\ UNCHANGED <<sections, pfCh, pf, restOfSession>>

OnPresentFollowing ==
    /\ observation.at = "pf" /\ Len(pfCh) < UpdateBuffer
    /\ pfCh' = Append(pfCh, observation.n) /\ observation' = Observing
    /\ UNCHANGED <<sections, updateCh, pf, restOfSession>>

CollectorCancelled ==
    /\ cancelled /\ observation.at \notin Returned /\ observation' = [at |-> "cancelled"]
    /\ UNCHANGED <<sections, updateCh, pfCh, pf, restOfSession>>

CollectorReturns(how) ==
    /\ at \notin {"new", "returned"} /\ observation = Observing /\ observation' = [at |-> how]
    /\ UNCHANGED <<sections, updateCh, pfCh, pf, restOfSession>>

\* retrievalTime passes; the job is aborted or the program stops.
Deadline ==
    /\ at \notin {"new", "returned"} /\ ~cancelled /\ cancelled' = TRUE
    /\ UNCHANGED <<observationVars, updateCh, pfCh, loopVars, aborted, read, flusherVars, pf, persistVars, stored>>
Abort ==
    /\ at \notin {"new", "returned"} /\ ~aborted /\ aborted' = TRUE /\ cancelled' = TRUE
    /\ UNCHANGED <<observationVars, updateCh, pfCh, loopVars, read, flusherVars, pf, persistVars, stored>>

(***************************************************************************)
(* The loop                                                                *)
(***************************************************************************)
\* canYield and targetTablesComplete, which exclude each other
Armed(ups) ==
    IF \A s \in Expected : ups[s] = "complete" THEN "stable"
    ELSE IF ~ProbeExtended /\ \A s \in Expected : ups[s] \in {"complete", "unknown"} THEN "idle"
    ELSE "off"

HandleUpdate(u) ==
    /\ updates' = [updates EXCEPT ![u.service] = u.as]
    /\ dirty' = dirty \cup {u.service}
    /\ timer' = IF u.service \in Expected THEN Armed(updates') ELSE timer
    /\ progressed' = (progressed \/ u.service \in Expected)

TakeUpdate ==
    /\ at \in {"loop", "drain"} /\ updateCh # <<>>
    /\ HandleUpdate(Head(updateCh)) /\ updateCh' = Tail(updateCh)
    /\ received' = (received \/ at = "loop")
    /\ UNCHANGED <<observationVars, pfCh, at, pending, reason, collectorDone, contextVars, read,
                   flusherVars, pf, persistVars, stored>>

\* enqueue: dropped while another is pending and after an error
Enqueued(n) ==
    IF pf.err # "none" \/ pf.pending # 0 THEN pf
    ELSE IF Len(pf.queue) < PFBuffer THEN [pf EXCEPT !.pending = @ + 1, !.queue = Append(@, n)]
    ELSE [pf EXCEPT !.err = "overflow"]

TakePF ==
    /\ at \in {"loop", "drain"} /\ pfCh # <<>> /\ pfCh' = Tail(pfCh)
    /\ pf' = [Enqueued(Head(pfCh)) EXCEPT !.handled = @ + 1]
    /\ received' = (received \/ at = "loop")
    /\ UNCHANGED <<observationVars, updateCh, at, updates, dirty, timer, progressed, pending, reason,
                   collectorDone, contextVars, read, flusherVars, persistVars, stored>>

\* flush reads the events of the dirty services, then their revisions, and
\* keeps them dirty if the worker is behind.
FlushTick ==
    /\ at = "loop" /\ dirty # {} /\ at' = "flush"
    /\ read' = [s \in Services |-> IF s \in dirty THEN sections[s] ELSE 0]
    /\ UNCHANGED <<observationVars, updateCh, pfCh, updates, dirty, timer, progressed, pending, received,
                   reason, collectorDone, contextVars, flusherVars, pf, persistVars, stored>>

Flush ==
    /\ at = "flush" /\ at' = "loop"
    /\ read' = [s \in Services |-> 0]
    /\ IF requests = {}
       THEN /\ requests' = {[service |-> s, events |-> read[s], revisions |-> sections[s]] : s \in dirty}
            /\ handed' = [s \in Services |-> IF s \in dirty THEN read[s] ELSE handed[s]]
            /\ dirty' = {}
       ELSE UNCHANGED <<requests, handed, dirty>>
    /\ UNCHANGED <<observationVars, updateCh, pfCh, updates, timer, progressed, pending, received, reason,
                   collectorDone, contextVars, flushing, upserting, pf, persistVars, stored>>

\* stableC or idleC: look at the updates that wait first
TimerFires ==
    /\ at = "loop" /\ timer # "off" /\ at' = timer /\ timer' = "off"
    /\ progressed' = FALSE /\ pending' = Len(updateCh)
    /\ UNCHANGED <<observationVars, updateCh, pfCh, updates, dirty, received, reason, collectorDone,
                   contextVars, read, flusherVars, pf, persistVars, stored>>

TakePending ==
    /\ at \in {"stable", "idle"} /\ pending > 0 /\ pending' = pending - 1
    /\ HandleUpdate(Head(updateCh)) /\ updateCh' = Tail(updateCh)
    /\ UNCHANGED <<observationVars, pfCh, at, received, reason, collectorDone, contextVars, read,
                   flusherVars, pf, persistVars, stored>>

restOfEnd == <<observationVars, updateCh, pfCh, updates, dirty, timer, progressed, pending, received,
               aborted, read, flusherVars, pf, persistVars, stored>>

\* good: lowQualityEventWarning has nothing to say
Stops(good) ==
    \/ at = "stable" /\ reason' = "complete" /\ ~progressed /\ Armed(updates) = "stable" /\ good
    \/ at = "idle" /\ reason' = "unknown_extended_idle" /\ ~progressed /\ Armed(updates) = "idle"

TimerStops ==
    /\ at \in {"stable", "idle"} /\ pending = 0
    /\ \E good \in BOOLEAN : Stops(good)
    /\ at' = "ended" /\ cancelled' = TRUE
    /\ UNCHANGED <<collectorDone, restOfEnd>>
TimerGoesOn ==
    /\ at \in {"stable", "idle"} /\ pending = 0
    /\ at = "stable" \/ progressed \/ Armed(updates) # "idle"
    /\ at' = "loop"
    /\ UNCHANGED <<reason, collectorDone, cancelled, restOfEnd>>

DeadStream ==
    /\ at = "loop" /\ ~received /\ at' = "ended" /\ reason' = "no_eit" /\ cancelled' = TRUE
    /\ UNCHANGED <<collectorDone, restOfEnd>>

CollectDone ==
    /\ at = "loop" /\ observation.at \in Returned /\ collectorDone' = TRUE
    /\ reason' = IF aborted THEN "canceled" ELSE IF cancelled THEN "deadline"
                 ELSE IF observation.at = "ended" THEN "stream_ended" ELSE "receive_error"
    /\ at' = "drain" /\ cancelled' = TRUE
    /\ UNCHANGED restOfEnd

LoopCancelled ==
    /\ at = "loop" /\ cancelled /\ at' = "ended"
    /\ reason' = IF aborted THEN "canceled" ELSE "deadline"
    /\ UNCHANGED <<collectorDone, cancelled, restOfEnd>>

\* The loop waits for the session for two seconds, and not at all when the
\* program stops.
AwaitCollector ==
    /\ at = "ended" /\ ~aborted /\ observation.at \in Returned
    /\ at' = "drain" /\ collectorDone' = TRUE
    /\ UNCHANGED <<reason, cancelled, restOfEnd>>
AwaitTimesOut ==
    /\ at = "ended" /\ at' = "drain"
    /\ UNCHANGED <<reason, collectorDone, cancelled, restOfEnd>>

\* Mutant: updates that wait are left behind.
DrainedSkips == at = "drain"
\* The channels are empty.
Drained == at = "drain" /\ updateCh = <<>> /\ pfCh = <<>>

\* pfUpserts.stop and wait
StopPF ==
    /\ Drained /\ at' = "stopping"
    /\ UNCHANGED <<reason, collectorDone, cancelled, restOfEnd>>

PFWorkerDone == pf.queue = <<>> /\ pf.now = 0
\* Mutant: the write in progress is not waited for.
FlusherDoneTaking == requests = {} /\ flushing = {}
FlusherDone == requests = {} /\ flushing = {} /\ upserting = {}

Observed(s) == updates[s] \notin {"none", "extended"}
\* A cancellation is no error of the reception.
ReceiveError == collectorDone /\ observation.at \in {"failed", "unavailable"}

\* persistObservedSnapshots starts when both workers are done, and reads the
\* events of all services; a session that found no tuner is reported only.
StartPersist ==
    /\ at = "stopping" /\ PFWorkerDone /\ FlusherDone
    /\ IF collectorDone /\ observation.at = "unavailable" /\ pf.handled = 0
          /\ \A s \in Services : updates[s] = "none"
       THEN at' = "returned" /\ reason' = "unavailable" /\ UNCHANGED <<read, todo>>
       ELSE /\ at' = "persist" /\ todo' = Expected \cup {s \in Services : Observed(s)}
            /\ reason' = IF ReceiveError THEN "receive_error" ELSE reason
            /\ read' = [s \in Services |-> IF Observed(s) THEN sections[s] ELSE 0]
    /\ UNCHANGED <<observationVars, updateCh, pfCh, updates, dirty, timer, progressed, pending, received,
                   collectorDone, contextVars, flusherVars, pf, recorded, stored>>

\* What persistObservedSnapshots records of a service whose schedule it stored
Records(s) ==
    IF updates[s] = "complete" THEN "success"
    ELSE IF s \notin Expected THEN "none"
    ELSE IF updates[s] = "unknown" /\ reason \in {"unknown_extended_idle", "deadline"} /\ ~ReceiveError
         THEN "partial" ELSE "incomplete"

PersistService(s) ==
    /\ at = "persist" /\ s \in todo /\ todo' = todo \ {s}
    /\ \/ /\ Observed(s)
          /\ stored' = [stored EXCEPT ![s] = [events |-> read[s], revisions |-> sections[s]]]
          /\ recorded' = [recorded EXCEPT ![s] = Records(s)]
       \/ Observed(s) /\ recorded' = [recorded EXCEPT ![s] = "failed"] /\ UNCHANGED stored
       \/ ~Observed(s) /\ recorded' = [recorded EXCEPT ![s] = "unobserved"] /\ UNCHANGED stored
    /\ UNCHANGED <<observationVars, updateCh, pfCh, loopVars, contextVars, read, flusherVars, pf>>

CollectReturns ==
    /\ at = "persist" /\ todo = {} /\ at' = "returned"
    /\ reason' = IF aborted THEN "canceled" ELSE reason
    /\ UNCHANGED <<observationVars, updateCh, pfCh, updates, dirty, timer, progressed, pending, received,
                   collectorDone, contextVars, read, flusherVars, pf, persistVars, stored>>

(***************************************************************************)
(* The workers.  A write that began before the cancellation may succeed    *)
(* after it; one that begins later fails.                                  *)
(***************************************************************************)
restOfFlusher == <<observationVars, updateCh, pfCh, loopVars, contextVars, read, handed, pf, persistVars>>

FlusherTakes ==
    /\ requests # {} /\ flushing = {} /\ upserting = {}
    /\ flushing' = requests /\ requests' = {}
    /\ UNCHANGED <<upserting, stored, restOfFlusher>>
FlusherBegins ==
    /\ upserting = {}
    /\ \E w \in flushing : flushing' = flushing \ {w} /\ upserting' = IF cancelled THEN {} ELSE {w}
    /\ UNCHANGED <<requests, stored, restOfFlusher>>
FlusherEnds ==
    /\ \E w \in upserting :
          \/ UNCHANGED stored
          \/ stored' = [stored EXCEPT ![w.service] = [events |-> w.events, revisions |-> w.revisions]]
    /\ upserting' = {} /\ UNCHANGED <<requests, flushing, restOfFlusher>>

restOfPF == <<observationVars, updateCh, pfCh, loopVars, contextVars, read, flusherVars, persistVars, stored>>

PFBegins ==
    /\ pf.queue # <<>> /\ pf.now = 0
    /\ pf' = IF cancelled THEN [pf EXCEPT !.queue = Tail(@), !.pending = @ - 1, !.err = "upsert"]
             ELSE [pf EXCEPT !.queue = Tail(@), !.now = Head(pf.queue)]
    /\ UNCHANGED restOfPF
PFEnds ==
    /\ pf.now # 0
    /\ \/ pf' = [pf EXCEPT !.now = 0, !.pending = @ - 1, !.stored = pf.now]
       \/ pf' = [pf EXCEPT !.now = 0, !.pending = @ - 1, !.err = "upsert"]
    /\ UNCHANGED restOfPF

SessionSteps ==
    \/ \E s \in Services, as \in Receptions : ObserveSchedule(s, as)
    \/ ObservePresentFollowing \/ OnSchedule \/ OnPresentFollowing \/ CollectorCancelled
    \/ \E how \in {"ended", "failed", "unavailable"} : CollectorReturns(how)

LoopSteps ==
    \/ TakeUpdate \/ TakePF \/ FlushTick \/ Flush \/ TimerFires \/ TakePending \/ TimerStops
    \/ TimerGoesOn \/ DeadStream \/ CollectDone \/ LoopCancelled \/ AwaitCollector
    \/ AwaitTimesOut \/ StopPF \/ StartPersist \/ CollectReturns
    \/ \E s \in Services : PersistService(s)

WorkerSteps == FlusherTakes \/ FlusherBegins \/ FlusherEnds \/ PFBegins \/ PFEnds

CollectionNext == CollectStart \/ SessionSteps \/ Deadline \/ Abort \/ LoopSteps \/ WorkerSteps

CollectionSpec == CollectionInit /\ [][CollectionNext]_collectionVars

(***************************************************************************)
(* Properties                                                              *)
(***************************************************************************)

\* The last thing the session has reported of a service
Reported(s) ==
    LET mine == {i \in DOMAIN updateCh : updateCh[i].service = s}
    IN IF mine = {} THEN updates[s] ELSE updateCh[CHOOSE i \in mine : \A j \in mine : j <= i].as

\* Progress the session has reported is not lost: when a collection whose
\* session had ended returns, the stored schedule of each reported service is
\* the whole reception, read in one piece, unless that last write failed.
ReportedIsStored ==
    at = "returned" /\ collectorDone =>
        \A s \in Services : Reported(s) \notin {"none", "extended"} /\ recorded[s] # "failed" =>
            stored[s] = [events |-> sections[s], revisions |-> sections[s]]

\* A partial schedule, which may be torn or old, is never stored after the
\* final one of its service.
FinalWriteLast ==
    \A s \in Services : at \in {"persist", "returned"} /\ s \notin todo => stored'[s] = stored[s]

\* A service counts as gathered only if the last thing its session said of it
\* is that it is complete.
SuccessIsComplete ==
    \A s \in Services : collectorDone /\ recorded[s] = "success" => Reported(s) = "complete"

\* The writes of a collection end in order: the worker that stores partial
\* schedules runs beside the loop until it is waited for, and not after.
CollectionOrdered == [][FinalWriteLast]_collectionVars

\* A service whose last update was not handed to the flusher stays dirty,
\* however often a flush was skipped; only a cancelled session drops an update.
DirtyKept ==
    \A s \in Services : updates[s] # "none" /\ observation.at # "cancelled" =>
        s \in dirty \/ handed[s] + Cardinality({i \in DOMAIN updateCh : updateCh[i].service = s})
                        + (IF observation.at = "update" /\ observation.service = s THEN 1 ELSE 0) >= sections[s]

\* Progress is never lost between the session, the flusher, the store and the
\* result, whatever fails, overflows or is cancelled.
ProgressKept == ReportedIsStored /\ SuccessIsComplete /\ DirtyKept
=============================================================================
