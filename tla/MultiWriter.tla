----------------------------- MODULE MultiWriter -----------------------------
(***************************************************************************)
(* util/dynamicmultiwriter.go: one producer writes to a changing list of   *)
(* lossless writers, written synchronously, and queued writers, served by  *)
(* a goroutine from a bounded channel of reference-counted pooled chunks.  *)
(* Attach, Detach and Close are called under Broadcast.mu.                 *)
(***************************************************************************)
EXTENDS Integers, Sequences, FiniteSets, Functions

CONSTANTS
    Lossless, Queued,   \* the writers that may attach, by delivery policy
    Capacity,           \* dynamicMultiWriterBufferSize
    MaxWrites,          \* bound on the number of Write calls
    NoChunk             \* a nil chunk

ASSUME HubAssumption ==
    /\ IsFiniteSet(Queued) /\ Lossless \cap Queued = {}
    /\ Capacity \in Nat /\ MaxWrites \in Nat /\ NoChunk \notin 1 .. MaxWrites

Writers == Lossless \cup Queued
Chunks == 1 .. MaxWrites      \* chunk objects the pool can hand out
Detachers == {"call", "write", "run"}   \* Detach, a failed Write, onError of run

VARIABLES
    subscribers,   \* d.subscribers
    joined,        \* writers that were attached at some time
    active,        \* writers whose sub.active is nonzero
    ch, chClosed,  \* the channel of a queued writer; the writers whose is closed
    sinkClosed,    \* writers closed by the hub or by their reader
    refs, data,    \* of each chunk object: reference count, and the write it holds
    pool,          \* chunk objects in d.pool
    writePc, writes, todo, chunk, failed, delivered,   \* the Write in progress
    detachPc,      \* detachPc[k][w]: where the detacher of kind k of w is
    closePc, closing,   \* where Close is, and the writers it still has to settle
    runPc, current,     \* where the goroutine of a queued writer is, and its chunk
    last           \* last[w]: the number of the last write the writer received

listVars == <<subscribers, joined, active>>
channelVars == <<ch, chClosed, sinkClosed>>
chunkVars == <<refs, data, pool>>
writeVars == <<writePc, writes, todo, chunk, failed, delivered>>
detachVars == <<detachPc, closePc, closing>>
runVars == <<runPc, current>>
hubVars == <<listVars, channelVars, chunkVars, writeVars, detachVars, runVars, last>>

HubInit ==
    /\ subscribers = <<>> /\ joined = {} /\ active = {}
    /\ ch = [w \in Queued |-> <<>>] /\ chClosed = {} /\ sinkClosed = {}
    /\ refs = [c \in Chunks |-> 0] /\ data = [c \in Chunks |-> 0] /\ pool = {}
    /\ writePc = "idle" /\ writes = 0 /\ todo = <<>> /\ chunk = NoChunk
    /\ failed = {} /\ delivered = FALSE
    /\ detachPc = [k \in Detachers |-> [w \in Writers |-> "idle"]]
    /\ closePc = "idle" /\ closing = {}
    /\ runPc = [w \in Queued |-> "none"] /\ current = [w \in Queued |-> NoChunk]
    /\ last = [w \in Writers |-> 0]

Release(c) ==
    /\ refs' = [refs EXCEPT ![c] = @ - 1]
    /\ pool' = IF refs[c] = 1 THEN pool \cup {c} ELSE pool

\* Broadcast.mu is free: no Detach and no Close is under way.
Unlocked ==
    /\ closePc \notin {"sinks", "settle"}
    /\ \A w \in Writers : detachPc["call"][w] \in {"idle", "returned"}

Attach(w) ==
    /\ Unlocked /\ w \notin joined /\ closePc = "idle"
    /\ subscribers' = Append(subscribers, w)
    /\ joined' = joined \cup {w}
    /\ runPc' = [v \in Queued |-> IF v = w THEN "receive" ELSE runPc[v]]
    /\ UNCHANGED <<active, channelVars, chunkVars, writeVars, detachVars, current, last>>

(***************************************************************************)
(* Write                                                                   *)
(***************************************************************************)

\* newChunk: a chunk of the pool, or a new one, with one reference per queued writer.
NewChunk(n) ==
    \E c \in Chunks :
        /\ c \in pool \/ (data[c] = 0 /\ \A d \in 1 .. c - 1 : data[d] # 0)
        /\ chunk' = c
        /\ pool' = pool \ {c}
        /\ refs' = [refs EXCEPT ![c] = n]
        /\ data' = [data EXCEPT ![c] = writes + 1]

\* The device's copier stops at the first error.
WriteBegin ==
    /\ writePc = "idle" /\ writes < MaxWrites
    /\ \/ /\ subscribers = <<>> /\ joined # {}
          /\ writePc' = "error"
          /\ UNCHANGED <<active, chunkVars, writes, todo, chunk, failed, delivered>>
       \/ /\ subscribers # <<>>
          /\ LET queued == Range(subscribers) \cap Queued
             IN IF queued = {} THEN chunk' = NoChunk /\ UNCHANGED chunkVars
                               ELSE NewChunk(Cardinality(queued))
          /\ writes' = writes + 1
          /\ todo' = subscribers
          /\ active' = Range(subscribers)
          /\ failed' = {} /\ delivered' = FALSE
          /\ writePc' = "next"
    /\ UNCHANGED <<subscribers, joined, channelVars, detachVars, runVars, last>>

\* A lossless writer, a pipe, takes the data or fails for good.
WriteLossless ==
    /\ writePc = "next" /\ todo # <<>> /\ Head(todo) \in Lossless
    /\ \/ /\ Head(todo) \notin sinkClosed
          /\ last' = [last EXCEPT ![Head(todo)] = writes]
          /\ delivered' = TRUE /\ UNCHANGED <<failed, sinkClosed>>
       \/ /\ failed' = failed \cup {Head(todo)}
          /\ sinkClosed' = sinkClosed \cup {Head(todo)}
          /\ UNCHANGED <<last, delivered>>
    /\ todo' = Tail(todo)
    /\ UNCHANGED <<listVars, ch, chClosed, chunkVars, writePc, writes, chunk,
                   detachVars, runVars>>

\* enqueue: send if there is room; otherwise take the oldest and send again.
EnqueueChunk ==
    LET w == Head(todo) IN
    /\ writePc \in {"next", "drop", "retry"} /\ todo # <<>> /\ w \in Queued
    /\ \/ /\ writePc \in {"next", "retry"} /\ Len(ch[w]) < Capacity
          /\ ch' = [ch EXCEPT ![w] = Append(@, chunk)]
          /\ writePc' = "next" /\ UNCHANGED <<refs, pool>>
       \/ /\ writePc = "next" /\ Len(ch[w]) = Capacity
          /\ writePc' = "drop" /\ UNCHANGED <<ch, refs, pool>>
       \/ /\ writePc = "drop" /\ writePc' = "retry"
          /\ IF ch[w] = <<>> THEN UNCHANGED <<ch, refs, pool>>
             ELSE /\ ch' = [ch EXCEPT ![w] = Tail(@)]
                  /\ Release(Head(ch[w]))
       \/ /\ writePc = "retry" /\ Len(ch[w]) = Capacity
          /\ Release(chunk)
          /\ writePc' = "next" /\ UNCHANGED ch
    /\ IF writePc' = "next" THEN todo' = Tail(todo) /\ delivered' = TRUE
                            ELSE UNCHANGED <<todo, delivered>>
    /\ UNCHANGED <<listVars, chClosed, sinkClosed, data, writes, chunk, failed,
                   detachVars, runVars, last>>

\* The failed writers are detached by goroutines; the Write fails only when
\* nothing was delivered and no other writer is attached by now.
WriteEnd ==
    /\ writePc = "next" /\ todo = <<>>
    /\ detachPc' = [detachPc EXCEPT !["write"] =
           [w \in Writers |-> IF w \in failed THEN "remove" ELSE @[w]]]
    /\ writePc' = IF failed # {} /\ ~ delivered /\ Range(subscribers) \subseteq failed
                  THEN "error" ELSE "idle"
    /\ active' = {} /\ chunk' = NoChunk /\ failed' = {} /\ delivered' = FALSE
    /\ UNCHANGED <<subscribers, joined, channelVars, chunkVars, writes, todo,
                   closePc, closing, runVars, last>>

(***************************************************************************)
(* detachSubscriber, Detach and Close                                      *)
(***************************************************************************)
Detach(w) ==
    /\ Unlocked /\ w \in joined /\ detachPc["call"][w] = "idle"
    /\ detachPc' = [detachPc EXCEPT !["call"][w] =
           IF w \in Range(subscribers) THEN "remove" ELSE "returned"]
    /\ UNCHANGED <<listVars, channelVars, chunkVars, writeVars, closePc, closing,
                   runVars, last>>

\* slices.Delete of entry n.
Delete(q, n) == [i \in 1 .. Len(q) - 1 |-> IF i < n THEN q[i] ELSE q[i + 1]]

DetachRemove(k, w) ==
    /\ detachPc[k][w] = "remove"
    /\ \/ /\ \E n \in DOMAIN subscribers :
               subscribers[n] = w /\ subscribers' = Delete(subscribers, n)
          /\ detachPc' = [detachPc EXCEPT ![k][w] = "settle"]
          /\ sinkClosed' = sinkClosed \cup ({w} \cap Lossless)
       \/ /\ w \notin Range(subscribers)
          /\ detachPc' = [detachPc EXCEPT ![k][w] = IF k = "call" THEN "await" ELSE "returned"]
          /\ UNCHANGED <<subscribers, sinkClosed>>
    /\ UNCHANGED <<joined, active, ch, chClosed, chunkVars, writeVars, closePc,
                   closing, runVars, last>>

\* sub.active.Wait, then sub.close.
DetachSettle(k, w) ==
    /\ detachPc[k][w] = "settle" /\ w \notin active
    /\ chClosed' = chClosed \cup ({w} \cap Queued)
    /\ detachPc' = [detachPc EXCEPT ![k][w] = IF k = "call" THEN "await" ELSE "returned"]
    /\ UNCHANGED <<listVars, ch, sinkClosed, chunkVars, writeVars, closePc, closing,
                   runVars, last>>

\* Mutant: Detach does not wait for the goroutine of a queued writer.
DetachAwaitNot(w) ==
    /\ detachPc["call"][w] = "await"
    /\ detachPc' = [detachPc EXCEPT !["call"][w] = "returned"]
    /\ UNCHANGED <<listVars, channelVars, chunkVars, writeVars, closePc, closing,
                   runVars, last>>

\* <-sub.done, which a lossless writer has closed from the start.
DetachAwait(w) ==
    /\ detachPc["call"][w] = "await"
    /\ w \in Queued => runPc[w] = "end"
    /\ detachPc' = [detachPc EXCEPT !["call"][w] = "returned"]
    /\ UNCHANGED <<listVars, channelVars, chunkVars, writeVars, closePc, closing,
                   runVars, last>>

CloseBegin ==
    /\ Unlocked /\ closePc = "idle"
    /\ closing' = Range(subscribers)
    /\ subscribers' = <<>>
    /\ closePc' = "sinks"
    /\ UNCHANGED <<joined, active, channelVars, chunkVars, writeVars, detachPc,
                   runVars, last>>

CloseSinks ==
    /\ closePc = "sinks"
    /\ sinkClosed' = sinkClosed \cup closing
    /\ closePc' = "settle"
    /\ UNCHANGED <<listVars, ch, chClosed, chunkVars, writeVars, detachPc, closing,
                   runVars, last>>

CloseSettle ==
    /\ closePc = "settle"
    /\ closing \cap active = {}
    /\ chClosed' = chClosed \cup (closing \cap Queued)
    /\ closing' = {} /\ closePc' = "returned"
    /\ UNCHANGED <<listVars, ch, sinkClosed, chunkVars, writeVars, detachPc, runVars, last>>

(***************************************************************************)
(* run, the goroutine of a queued writer                                   *)
(***************************************************************************)
\* Mutant: the chunk is released before it is written.
RunReceiveReleased(w) ==
    /\ runPc[w] = "receive" /\ ch[w] # <<>>
    /\ current' = [current EXCEPT ![w] = Head(ch[w])]
    /\ Release(Head(ch[w]))
    /\ ch' = [ch EXCEPT ![w] = Tail(@)]
    /\ runPc' = [runPc EXCEPT ![w] = "write"]
    /\ UNCHANGED <<listVars, chClosed, sinkClosed, data, writeVars, detachVars, last>>

RunReceive(w) ==
    /\ runPc[w] = "receive"
    /\ \/ /\ ch[w] # <<>>
          /\ current' = [current EXCEPT ![w] = Head(ch[w])]
          /\ ch' = [ch EXCEPT ![w] = Tail(@)]
          /\ runPc' = [runPc EXCEPT ![w] = "write"]
       \/ /\ ch[w] = <<>> /\ w \in chClosed
          /\ runPc' = [runPc EXCEPT ![w] = "drain"]
          /\ UNCHANGED <<ch, current>>
    /\ UNCHANGED <<listVars, chClosed, sinkClosed, chunkVars, writeVars, detachVars, last>>

RunWrite(w) ==
    /\ runPc[w] = "write"
    /\ Release(current[w])
    /\ current' = [current EXCEPT ![w] = NoChunk]
    /\ \/ /\ w \notin sinkClosed
          /\ last' = [last EXCEPT ![w] = data[current[w]]]
          /\ runPc' = [runPc EXCEPT ![w] = "receive"]
          /\ UNCHANGED detachPc
       \/ /\ runPc' = [runPc EXCEPT ![w] = "failed"]
          /\ detachPc' = [detachPc EXCEPT !["run"][w] = "remove"]
          /\ UNCHANGED last
    /\ UNCHANGED <<listVars, channelVars, data, writeVars, closePc, closing>>

\* The deferred drain empties the channel without blocking, then closes done.
RunDrain(w) ==
    /\ \/ runPc[w] = "drain"
       \/ runPc[w] = "failed" /\ detachPc["run"][w] = "returned"
    /\ IF ch[w] # <<>>
       THEN /\ Release(Head(ch[w]))
            /\ ch' = [ch EXCEPT ![w] = Tail(@)]
            /\ UNCHANGED runPc
       ELSE /\ runPc' = [runPc EXCEPT ![w] = "end"]
            /\ UNCHANGED <<ch, refs, pool>>
    /\ UNCHANGED <<listVars, chClosed, sinkClosed, data, writeVars, detachVars,
                   current, last>>

RunStep(w) == RunReceive(w) \/ RunWrite(w) \/ RunDrain(w)
WriteStep == WriteLossless \/ EnqueueChunk \/ WriteEnd
CloseStep == CloseSinks \/ CloseSettle
DetachStep(w) == DetachAwait(w) \/ \E k \in Detachers : DetachRemove(k, w) \/ DetachSettle(k, w)

HubNext ==
    \/ WriteBegin \/ WriteStep \/ CloseBegin \/ CloseStep
    \/ \E w \in Writers : Attach(w) \/ Detach(w) \/ DetachStep(w)
    \/ \E w \in Queued : RunStep(w)

\* A writer attached by the source is a pipe that is read or closed, so its
\* Write returns; goroutines run.
HubFairness ==
    /\ WF_hubVars(WriteStep) /\ WF_hubVars(CloseStep)
    /\ \A w \in Writers : WF_hubVars(DetachStep(w))
    /\ \A w \in Queued : WF_hubVars(RunStep(w))

HubSpec == HubInit /\ [][HubNext]_hubVars
FairHubSpec == HubSpec /\ HubFairness

(***************************************************************************)
(* Properties                                                              *)
(***************************************************************************)
HubTypeOK ==
    /\ subscribers \in Seq(Writers) /\ joined \subseteq Writers /\ active \subseteq Writers
    /\ ch \in [Queued -> Seq(Chunks)] /\ chClosed \subseteq Queued
    /\ sinkClosed \subseteq Writers
    /\ refs \in [Chunks -> Int] /\ data \in [Chunks -> Nat]
    /\ pool \subseteq Chunks
    /\ writePc \in {"idle", "next", "drop", "retry", "error"} /\ writes \in Nat
    /\ todo \in Seq(Writers) /\ chunk \in Chunks \cup {NoChunk}
    /\ failed \subseteq Lossless /\ delivered \in BOOLEAN
    /\ detachPc \in [Detachers -> [Writers ->
           {"idle", "remove", "settle", "await", "returned"}]]
    /\ closePc \in {"idle", "sinks", "settle", "returned"} /\ closing \subseteq Writers
    /\ runPc \in [Queued -> {"none", "receive", "write", "failed", "drain", "end"}]
    /\ current \in [Queued -> Chunks \cup {NoChunk}]
    /\ last \in [Writers -> Nat]

\* Write never sends on a channel that Detach, Close or a failed goroutine has
\* closed: they wait for sub.active first.
NoSendOnClosed ==
    writePc \in {"next", "drop", "retry"} => Range(todo) \cap chClosed = {}

\* A chunk in the pool, whose buffer the next Write overwrites, is in no channel,
\* is being written by no goroutine and is not still to be sent.
PooledChunkUnused ==
    \A c \in pool : \A w \in Queued :
        /\ c \notin Range(ch[w]) /\ c # current[w]
        /\ c = chunk => w \notin Range(todo)

\* Channels and pooled buffers outlive their last use, whatever Write, Detach,
\* Close and the writers' goroutines do at the same time.
ChunksSafe == NoSendOnClosed /\ PooledChunkUnused

\* Writers receive the writes in order, a queued one with gaps, a lossless one
\* without any between the first it receives and the one that fails.
DeliveredInOrder ==
    \A w \in Writers : last'[w] # last[w] =>
     IF w \in Lossless THEN last[w] = 0 \/ last'[w] = last[w] + 1
                       ELSE last'[w] > last[w]

\* After Detach or Close has returned, the writer is not written any more.
DetachedIsQuiet ==
    \A w \in Writers :
     detachPc["call"][w] = "returned" \/ (closePc = "returned" /\ w \in Lossless)
         => last'[w] = last[w]

\* What a writer receives is in order and ends with its Detach.
ChunksArrive == [][DeliveredInOrder /\ DetachedIsQuiet]_hubVars

\* A Detach or a Close, which holds Broadcast.mu, always comes to its end.
DetachReturns ==
    /\ \A w \in Writers : detachPc["call"][w] # "idle" ~> detachPc["call"][w] = "returned"
    /\ closePc # "idle" ~> closePc = "returned"
=============================================================================
