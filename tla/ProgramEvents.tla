---------------------------- MODULE ProgramEvents ----------------------------
(***************************************************************************)
(* How programme changes reach the subscribers of the event stream:        *)
(* program/manager.go collects them in a queue, a timer that every change  *)
(* pushes back starts a flush, flushes publish one event at a time outside *)
(* the lock, and event/hub.go hands each event to subscribers that may be  *)
(* too slow.  Events are numbers in the order of the changes.              *)
(***************************************************************************)
EXTENDS Integers, Sequences, FiniteSets, SequencesExt

CONSTANTS
    MaxEvents,     \* bound: changes
    MaxFlushes,    \* bound: flushes under way
    LogSize,       \* Hub.capacity
    BufferSize,    \* of a subscriber's channel
    Readers        \* subscribers of the event stream

VARIABLES
    eventQueue,    \* Manager.eventQueue
    eventTimer,    \* Manager.eventTimer is set
    timerRuns,     \* its timer is running
    orphans,       \* running timers that eventTimer no longer names
    waiting,       \* flushes that wait for the lock
    flushes,       \* what the others still have to publish
    log,           \* Hub.log
    buffers,       \* channel of each subscriber, NoChannel if it has none
    count,         \* changes so far
    published,     \* history: all events, in order
    overlapped,    \* history: two flushes were under way at the same time
    got,           \* history: what each subscriber has received
    from           \* history: the events published before it subscribed; -1 after a drop

eventVars == <<eventQueue, eventTimer, timerRuns, orphans, waiting, flushes, log, buffers, count,
               published, overlapped, got, from>>
hubSide == <<log, buffers, published, got, from>>

NoChannel == <<0>>    \* 0 is no event

EventsInit ==
    /\ eventQueue = <<>> /\ eventTimer = FALSE /\ timerRuns = FALSE /\ orphans = 0
    /\ waiting = 0 /\ flushes = <<>> /\ log = <<>> /\ count = 0
    /\ buffers = [r \in Readers |-> NoChannel] /\ got = [r \in Readers |-> <<>>]
    /\ from = [r \in Readers |-> 0] /\ published = <<>> /\ overlapped = FALSE

\* enqueueEvent: Reset also restarts a timer that has fired already.
EnqueueEvent ==
    /\ count < MaxEvents /\ count' = count + 1
    /\ eventQueue' = Append(eventQueue, count')
    /\ eventTimer' = TRUE /\ timerRuns' = TRUE
    /\ UNCHANGED <<orphans, waiting, flushes, overlapped, hubSide>>

EventTimerFires ==
    /\ \/ timerRuns /\ timerRuns' = FALSE /\ UNCHANGED orphans
       \/ orphans > 0 /\ orphans' = orphans - 1 /\ UNCHANGED timerRuns
    /\ waiting + Len(flushes) < MaxFlushes /\ waiting' = waiting + 1
    /\ UNCHANGED <<eventQueue, eventTimer, flushes, count, overlapped, hubSide>>

\* Mutant: a flush takes one event.
FlushTakesOne ==
    /\ waiting > 0 /\ waiting' = waiting - 1
    /\ flushes' = Append(flushes, SubSeq(eventQueue, 1, 1))
    /\ eventQueue' = SubSeq(eventQueue, 2, Len(eventQueue))
    /\ eventTimer' = FALSE /\ timerRuns' = FALSE
    /\ orphans' = IF eventTimer /\ timerRuns THEN orphans + 1 ELSE orphans
    /\ overlapped' = (overlapped \/ flushes # <<>>)
    /\ UNCHANGED <<count, hubSide>>

\* flushEvents, under the lock: the timer handle is dropped even if Reset has
\* restarted the timer meanwhile.
FlushTakes ==
    /\ waiting > 0 /\ waiting' = waiting - 1
    /\ flushes' = Append(flushes, eventQueue) /\ eventQueue' = <<>>
    /\ eventTimer' = FALSE /\ timerRuns' = FALSE
    /\ orphans' = IF eventTimer /\ timerRuns THEN orphans + 1 ELSE orphans
    /\ overlapped' = (overlapped \/ flushes # <<>>)
    /\ UNCHANGED <<count, hubSide>>

Offered(r, e) == IF Len(buffers[r]) < BufferSize THEN Append(buffers[r], e) ELSE buffers[r]

\* PublishEvent: into the log and, without waiting, to every subscriber.
Publish(e) ==
    /\ log' = LET l == Append(log, e)
              IN IF Len(l) > LogSize THEN SubSeq(l, Len(l) - LogSize + 1, Len(l)) ELSE l
    /\ buffers' = [r \in Readers |-> IF buffers[r] = NoChannel THEN NoChannel ELSE Offered(r, e)]
    /\ from' = [r \in Readers |-> IF buffers[r] # NoChannel /\ Len(buffers[r]) >= BufferSize
                                  THEN -1 ELSE from[r]]
    /\ published' = Append(published, e)
    /\ UNCHANGED got

\* flushEvents: one event, then a pause
FlushPublishes(i) ==
    /\ flushes[i] # <<>> /\ Publish(Head(flushes[i]))
    /\ flushes' = [flushes EXCEPT ![i] = Tail(@)]
    /\ UNCHANGED <<eventQueue, eventTimer, timerRuns, orphans, waiting, count, overlapped>>

FlushEnds(i) ==
    /\ flushes[i] = <<>> /\ flushes' = RemoveAt(flushes, i)
    /\ UNCHANGED <<eventQueue, eventTimer, timerRuns, orphans, waiting, count, overlapped, hubSide>>

Subscribed(r) ==
    /\ buffers[r] = NoChannel /\ buffers' = [buffers EXCEPT ![r] = <<>>]
    /\ from' = [from EXCEPT ![r] = Len(published)] /\ got' = [got EXCEPT ![r] = <<>>]
    /\ UNCHANGED <<eventQueue, eventTimer, timerRuns, orphans, waiting, flushes, log, count,
                   published, overlapped>>

\* writeEventsOpenJSONArrayStream takes an event, or ends and unsubscribes.
Receives(r) ==
    /\ buffers[r] \notin {NoChannel, <<>>}
    /\ got' = [got EXCEPT ![r] = Append(@, Head(buffers[r]))]
    /\ buffers' = [buffers EXCEPT ![r] = Tail(@)]
    /\ UNCHANGED <<eventQueue, eventTimer, timerRuns, orphans, waiting, flushes, log, count,
                   published, overlapped, from>>
Unsubscribes(r) ==
    /\ buffers[r] # NoChannel /\ buffers' = [buffers EXCEPT ![r] = NoChannel]
    /\ got' = [got EXCEPT ![r] = <<>>] /\ from' = [from EXCEPT ![r] = 0]
    /\ UNCHANGED <<eventQueue, eventTimer, timerRuns, orphans, waiting, flushes, log, count,
                   published, overlapped>>

EventsNext ==
    \/ EnqueueEvent \/ EventTimerFires \/ FlushTakes
    \/ \E i \in DOMAIN flushes : FlushPublishes(i) \/ FlushEnds(i)
    \/ \E r \in Readers : Subscribed(r) \/ Receives(r) \/ Unsubscribes(r)

EventsSpec == EventsInit /\ [][EventsNext]_eventVars

\* Timers fire and flushes run to their end.
EventsFairness ==
    /\ WF_eventVars(EventTimerFires) /\ WF_eventVars(FlushTakes)
    /\ WF_eventVars(\E i \in DOMAIN flushes : FlushPublishes(i) \/ FlushEnds(i))

FairEventsSpec == EventsSpec /\ EventsFairness

(***************************************************************************)
(* Properties                                                              *)
(***************************************************************************)

\* No change is lost or published twice on its way from the queue over the
\* flushes to the hub, whatever the timer and Reset do.
EventsOnce ==
    LET places == eventQueue \o published \o FlattenSeq(flushes)
    IN Len(places) = count /\ Range(places) = 1 .. count

\* As long as no two flushes overlap, the stream has the order of the changes.
EventsInOrder == overlapped \/ \A i \in DOMAIN published : published[i] = i

\* A subscriber that never fell a whole buffer behind has seen, in order and
\* without a gap, what was published since it subscribed.
ViewIsRun ==
    \A r \in Readers : buffers[r] # NoChannel /\ from[r] # -1 =>
        got[r] \o buffers[r] = SubSeq(published, from[r] + 1, Len(published))

\* Every change is published in the end.
EventsFlushed == eventQueue # <<>> \/ flushes # <<>> ~> Len(published) = count

\* Every change reaches the stream, once, and in order unless two flushes ran at
\* the same time (nothing in flushEvents keeps those apart), and who follows the
\* stream sees it as it was published.
EventsArrive == EventsFlushed /\ [](EventsOnce /\ EventsInOrder /\ ViewIsRun)
=============================================================================
