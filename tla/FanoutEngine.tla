---------------------------- MODULE FanoutEngine ----------------------------
(***************************************************************************)
(* stream/fanout: one engine reads a source through a pipe and fans it out *)
(* to packet subscribers, whose byte-bounded queues drop the oldest, and   *)
(* to section observers, which are ended on overflow.  A goroutine per     *)
(* subscriber writes its queue; the engine stops for good after the last   *)
(* subscriber leaves, at the end of the source, or on Stop.                *)
(***************************************************************************)
EXTENDS Integers, Sequences, FiniteSets, SequencesExt

CONSTANTS
    PacketSubs, SectionSubs,   \* subscriber calls of each kind
    Filtered,                  \* packet subscribers of one service
    Passive,                   \* section observers that do not start the source
    MaxPackets,                \* bound on the packets of the source
    Size,                      \* Size[p]: bytes of packet p
    SectionPackets,            \* packets that complete a section
    Limit,                     \* SubscriberBufferBytes
    Batch,                     \* packetWriteBatchBytes
    SectionBuffer              \* sectionSubscriberBuffer

ASSUME FanoutAssumption ==
    /\ PacketSubs \cap SectionSubs = {} /\ Filtered \subseteq PacketSubs
    /\ MaxPackets \in Nat /\ SectionPackets \subseteq 1 .. MaxPackets

Subs == PacketSubs \cup SectionSubs

VARIABLES
    started, engineStopped, cancelled,  \* e.started, e.stopped, e.cancel was called
    closeAsked,      \* a goroutine calls e.close(nil) of an unstarted engine
    engineDone,      \* e.close has run
    readPc,          \* where run is
    readErr,         \* runErr, and then e.err
    source,          \* the goroutine of e.source
    count,           \* packets read
    engineStopPc,    \* where Stop is
    subPc,           \* where each subscriber call is
    finished, subErr,   \* sub.finished (queue and done closed), sub.err
    subQueue, ready,    \* sub.queue, and the packet queues whose ready holds a signal
    writerPc, batch, \* the writer goroutine and the batch it writes
    seen             \* last packet written to dst, or read before the subscription

engineVars == <<started, engineStopped, cancelled, closeAsked, engineDone>>
sourceVars == <<readPc, readErr, source, count>>
endVars == <<finished, subErr>>
queueVars == <<subQueue, ready>>
writerVars == <<writerPc, batch, seen>>
fanoutVars == <<engineVars, sourceVars, engineStopPc, subPc, endVars, queueVars, writerVars>>

FanoutInit ==
    /\ started = FALSE /\ engineStopped = FALSE /\ cancelled = FALSE
    /\ closeAsked = FALSE /\ engineDone = FALSE
    /\ readPc = "none" /\ readErr = "nil" /\ source = "none" /\ count = 0
    /\ engineStopPc = "idle"
    /\ subPc = [s \in Subs |-> "idle"]
    /\ finished = {} /\ subErr = [s \in Subs |-> "nil"]
    /\ subQueue = [s \in Subs |-> <<>>] /\ ready = {}
    /\ writerPc = [s \in Subs |-> "none"] /\ batch = [s \in Subs |-> <<>>]
    /\ seen = [s \in Subs |-> 0]

\* The keys of e.packets and e.sections.
Registered == {s \in Subs : subPc[s] \notin {"idle", "rejected"}} \ finished

Bytes(q) == FoldLeft(LAMBDA n, p : n + Size[p], 0, q)

\* packetQueue.push: the oldest packets that leave no room are dropped, and the
\* packet itself when it is larger than the whole budget; one that is kept
\* signals ready.
Push(q, p) ==
    LET fits == {k \in 0 .. Len(q) : Bytes(SubSeq(q, k + 1, Len(q))) + Size[p] <= Limit}
    IN IF fits = {} THEN <<>> ELSE Append(SubSeq(q, Min(fits) + 1, Len(q)), p)

\* packetQueue.take: as many packets as fit in one write, at least one.
TakeCount(q) == Max({k \in 1 .. Len(q) : k = 1 \/ Bytes(SubSeq(q, 1, k)) <= Batch})

(***************************************************************************)
(* finishPacketLocked, finishSectionLocked and cancelIfEmptyLocked for the *)
(* registered subscribers in errs, a function to their errors              *)
(***************************************************************************)

FinishSubs(errs) ==
    /\ finished' = finished \cup DOMAIN errs
    /\ subErr' = [s \in Subs |-> IF s \in DOMAIN errs THEN errs[s] ELSE subErr[s]]
    /\ IF DOMAIN errs # {} /\ Registered \subseteq DOMAIN errs
       THEN /\ engineStopped' = TRUE
            /\ cancelled' = (cancelled \/ started)
            /\ closeAsked' = (closeAsked \/ ~ started)
       ELSE UNCHANGED <<engineStopped, cancelled, closeAsked>>

FinishOne(s, err) == FinishSubs([t \in {s} \cap Registered |-> err])

(***************************************************************************)
(* SubscribeChannel, SubscribeService, ObserveSections                     *)
(***************************************************************************)
Subscribe(s) ==
    /\ subPc[s] = "idle"
    /\ IF engineStopped
       THEN /\ subPc' = [subPc EXCEPT ![s] = "rejected"]
            /\ UNCHANGED <<started, readPc, source, writerPc, seen>>
       ELSE /\ subPc' = [subPc EXCEPT ![s] = "attached"]
            /\ writerPc' = [writerPc EXCEPT ![s] = "take"]
            /\ seen' = [seen EXCEPT ![s] = count]
            /\ IF s \in Passive \/ started
               THEN UNCHANGED <<started, readPc, source>>
               ELSE started' = TRUE /\ readPc' = "read" /\ source' = "on"
    /\ UNCHANGED <<engineStopped, cancelled, closeAsked, engineDone, readErr,
                   count, engineStopPc, endVars, queueVars, batch>>

\* The subscriber's context ends and the select takes its branch.
ReturnOnContext(s) ==
    /\ subPc[s] = "attached"
    /\ FinishOne(s, "context")
    /\ ready' = ready \cup ({s} \cap Registered \cap PacketSubs)
    /\ subPc' = [subPc EXCEPT ![s] = "await"]
    /\ UNCHANGED <<started, engineDone, sourceVars, engineStopPc,
                   subQueue, writerVars>>

\* The branches on sub.done and e.done: e.close has finished the subscriber
\* before it closes e.done.
ReturnOnDone(s) ==
    /\ subPc[s] = "attached" /\ s \in finished
    /\ subPc' = [subPc EXCEPT ![s] = IF subErr[s] = "nil" THEN "await" ELSE "returned"]
    /\ UNCHANGED <<engineVars, sourceVars, engineStopPc, endVars, queueVars,
                   writerVars>>

ReturnOnEngineDone(s) ==
    /\ subPc[s] = "attached" /\ engineDone
    /\ subPc' = [subPc EXCEPT ![s] =
           IF s \in SectionSubs \/ subErr[s] = "nil" THEN "await" ELSE "returned"]
    /\ UNCHANGED <<engineVars, sourceVars, engineStopPc, endVars, queueVars,
                   writerVars>>

\* Mutant: the call returns without waiting for the writer.
AwaitNothing(s) ==
    /\ subPc[s] = "await"
    /\ subPc' = [subPc EXCEPT ![s] = "returned"]
    /\ UNCHANGED <<engineVars, sourceVars, engineStopPc, endVars, queueVars,
                   writerVars>>

AwaitWriter(s) ==
    /\ subPc[s] = "await" /\ writerPc[s] \in {"end", "failed"}
    /\ subPc' = [subPc EXCEPT ![s] = "returned"]
    /\ UNCHANGED <<engineVars, sourceVars, engineStopPc, endVars, queueVars,
                   writerVars>>

(***************************************************************************)
(* run and dispatchLocked                                                  *)
(***************************************************************************)
\* Mutant: a full section queue drops the section.
DispatchDrops(skipped, missing) ==
    LET p == count + 1
        packets == (Registered \cap PacketSubs) \ (skipped \cup missing)
        sections == IF p \in SectionPackets THEN Registered \cap SectionSubs ELSE {}
        full == {s \in sections : Len(subQueue[s]) = SectionBuffer}
    IN /\ subQueue' = [s \in Subs |-> CASE s \in packets -> Push(subQueue[s], p)
                                        [] s \in sections \ full -> Append(subQueue[s], p)
                                        [] OTHER -> subQueue[s]]
       /\ ready' = ready \cup missing \cup {s \in packets : subQueue'[s] # <<>>}
       /\ FinishSubs([s \in missing |-> "failed"])

\* One packet reaches every subscriber in one critical section: skipped and
\* missing are the services whose filter drops the packet or fails.
DispatchLocked(skipped, missing) ==
    LET p == count + 1
        packets == (Registered \cap PacketSubs) \ (skipped \cup missing)
        sections == IF p \in SectionPackets THEN Registered \cap SectionSubs ELSE {}
        full == {s \in sections : Len(subQueue[s]) = SectionBuffer}
    IN /\ subQueue' = [s \in Subs |-> CASE s \in packets -> Push(subQueue[s], p)
                                        [] s \in sections \ full -> Append(subQueue[s], p)
                                        [] OTHER -> subQueue[s]]
       /\ ready' = ready \cup missing \cup {s \in packets : subQueue'[s] # <<>>}
       /\ FinishSubs([s \in missing \cup full |-> "failed"])

ReadPacket ==
    /\ readPc = "read" /\ source = "on" /\ count < MaxPackets
    /\ count' = count + 1
    /\ \E skipped, missing \in SUBSET (Registered \cap Filtered) :
        /\ skipped \cap missing = {}
        /\ DispatchLocked(skipped, missing)
    /\ UNCHANGED <<started, engineDone, readPc, readErr, source, engineStopPc,
                   subPc, writerPc, batch, seen>>

\* A packet that cannot be read or parsed ends the loop; r is closed.
ReadFails ==
    /\ readPc = "read" /\ source = "on"
    /\ readErr' = IF cancelled THEN "nil" ELSE "failed"
    /\ readPc' = "wait"
    /\ UNCHANGED <<engineVars, source, count, engineStopPc, subPc, endVars, queueVars,
                   writerVars>>

\* The source returns when its context is cancelled, or ends by itself.
SourceReturns(err) ==
    /\ source = "on"
    /\ source' = err
    /\ UNCHANGED <<engineVars, readPc, readErr, count, engineStopPc, subPc, endVars,
                   queueVars, writerVars>>

\* The error of the engine once <-sourceDone has answered.
FinalErr == IF source = "nil" \/ cancelled THEN readErr ELSE "failed"

\* run is past <-sourceDone, after the end of the pipe or with r closed, or
\* cancelIfEmptyLocked or Stop asked to close an engine that never started.
Closing == (readPc \in {"read", "wait"} /\ source \in {"nil", "failed"}) \/ closeAsked

\* close: its first caller finishes every subscriber and closes e.done.
EngineClose ==
    /\ Closing /\ ~ engineDone
    /\ readErr' = IF started THEN FinalErr ELSE "nil"
    /\ finished' = finished \cup Registered
    /\ subErr' = [s \in Subs |-> IF s \in Registered THEN readErr' ELSE subErr[s]]
    /\ ready' = ready \cup (Registered \cap PacketSubs)
    /\ engineStopped' = TRUE /\ engineDone' = TRUE
    /\ cancelled' = (cancelled \/ (started /\ Registered # {}))
    /\ readPc' = IF started THEN "end" ELSE readPc
    /\ UNCHANGED <<started, closeAsked, source, count, engineStopPc, subPc, subQueue,
                   writerVars>>

EngineStop ==
    /\ engineStopPc = "idle"
    /\ engineStopped' = TRUE
    /\ cancelled' = (cancelled \/ (started /\ ~ engineStopped))
    /\ closeAsked' = (closeAsked \/ (~ started /\ ~ engineStopped))
    /\ engineStopPc' = IF started \/ ~ engineStopped THEN "wait" ELSE "returned"
    /\ UNCHANGED <<started, engineDone, sourceVars, subPc, endVars,
                   queueVars, writerVars>>

EngineStopReturns ==
    /\ engineStopPc = "wait" /\ engineDone
    /\ engineStopPc' = "returned"
    /\ UNCHANGED <<engineVars, sourceVars, subPc, endVars, queueVars, writerVars>>

(***************************************************************************)
(* writePackets and writeSections                                          *)
(***************************************************************************)

\* A section observer is blocked by an empty channel that is not closed.
WriterTake(s) ==
    /\ writerPc[s] = "take"
    /\ \/ /\ subQueue[s] # <<>>
          /\ LET n == IF s \in PacketSubs THEN TakeCount(subQueue[s]) ELSE 1
             IN /\ batch' = [batch EXCEPT ![s] = SubSeq(subQueue[s], 1, n)]
                /\ subQueue' = [subQueue EXCEPT ![s] = SubSeq(@, n + 1, Len(@))]
          /\ writerPc' = [writerPc EXCEPT ![s] = "write"]
       \/ /\ subQueue[s] = <<>> /\ s \in finished \cup PacketSubs
          /\ writerPc' = [writerPc EXCEPT ![s] = IF s \in finished THEN "end" ELSE "sleep"]
          /\ UNCHANGED <<subQueue, batch>>
    /\ UNCHANGED <<engineVars, sourceVars, engineStopPc, subPc, endVars, ready,
                   seen>>

\* <-q.ready of a packet queue.
WriterWakes(s) ==
    /\ writerPc[s] = "sleep" /\ s \in ready
    /\ ready' = ready \ {s}
    /\ writerPc' = [writerPc EXCEPT ![s] = "take"]
    /\ UNCHANGED <<engineVars, sourceVars, engineStopPc, subPc, endVars, subQueue,
                   batch, seen>>

WriterWrites(s) ==
    /\ writerPc[s] = "write"
    /\ batch' = [batch EXCEPT ![s] = <<>>]
    /\ \/ /\ seen' = [seen EXCEPT ![s] = Last(batch[s])]
          /\ writerPc' = [writerPc EXCEPT ![s] = "take"]
          /\ UNCHANGED <<engineStopped, cancelled, closeAsked, endVars, ready>>
       \/ /\ writerPc' = [writerPc EXCEPT ![s] = "failed"]
          /\ FinishOne(s, "failed")
          /\ ready' = ready \cup ({s} \cap Registered \cap PacketSubs)
          /\ UNCHANGED seen
    /\ UNCHANGED <<started, engineDone, sourceVars, engineStopPc, subPc,
                   subQueue>>

CallStep(s) == ReturnOnDone(s) \/ ReturnOnEngineDone(s) \/ AwaitWriter(s)
WriterStep(s) == WriterTake(s) \/ WriterWakes(s) \/ WriterWrites(s)

FanoutNext ==
    \/ ReadPacket \/ ReadFails \/ EngineClose
    \/ \E err \in {"nil", "failed"} : SourceReturns(err)
    \/ EngineStop \/ EngineStopReturns
    \/ \E s \in Subs : Subscribe(s) \/ ReturnOnContext(s) \/ CallStep(s) \/ WriterStep(s)

FanoutSpec == FanoutInit /\ [][FanoutNext]_fanoutVars

(***************************************************************************)
(* Properties                                                              *)
(***************************************************************************)
Errors == {"nil", "context", "failed"}

\* A subscriber call that ends because its source ended cleanly has written
\* everything that was queued for it, unless a write failed.
CleanEndDelivers ==
    \A s \in Subs : subPc[s] = "returned" /\ subErr[s] = "nil"
        => (subQueue[s] = <<>> /\ batch[s] = <<>>) \/ writerPc[s] = "failed"

\* A call that returned on its context or on a clean end has no writer left
\* that would still write to dst, an HTTP response the handler gave up.
QuietAfterReturn ==
    \A s \in Subs : subPc[s] = "returned" /\ subErr[s] \in {"nil", "context"}
        => writerPc[s] \in {"end", "failed"}

\* An engine that has closed has no subscriber registered, so nobody waits for
\* packets that cannot come.
ClosedEngineIsEmpty == engineDone => Registered = {}

\* A section observer sees every section in order from its subscription on; it
\* is ended with an error before it would miss one.  Packets arrive in order.
SectionsWithoutGap ==
    [][\A s \in Subs : seen'[s] # seen[s] /\ subPc[s] # "idle" =>
        /\ seen[s] < seen'[s]
        /\ s \in SectionSubs => (seen[s] + 1 .. seen'[s] - 1) \cap SectionPackets = {}]_fanoutVars

\* No wake-up is lost: a writer asleep on a queue that has packets, or that was
\* closed under it, finds a signal in ready; a call that awaits its writer
\* therefore returns.
WriterNotForgotten ==
    \A s \in PacketSubs :
        writerPc[s] = "sleep" /\ (subQueue[s] # <<>> \/ s \in finished) => s \in ready

\* Once nobody is registered the engine is on its way to close: its source is
\* cancelled, or a goroutine closes the engine that never started.
EmptyEngineCloses ==
    Registered = {} /\ finished # {}
        => engineStopped /\ (cancelled \/ closeAsked \/ engineDone)

\* Subscriber calls and their engine end together: what was queued is written,
\* nothing is written later, nobody sleeps for ever and no engine runs for no one.
EndsAreOrderly ==
    /\ CleanEndDelivers /\ QuietAfterReturn /\ WriterNotForgotten
    /\ ClosedEngineIsEmpty /\ EmptyEngineCloses
=============================================================================
