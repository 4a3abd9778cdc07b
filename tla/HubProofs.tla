----------------------------- MODULE HubProofs -----------------------------
(***************************************************************************)
(* For any writers, buffer size and number of writes, the hub sends on no  *)
(* closed channel, puts no chunk in the pool that a writer still holds,    *)
(* and delivers in order, to a lossless writer without a gap.              *)
(***************************************************************************)
EXTENDS MultiWriter, FiniteSetTheorems, TLAPS

\* A writer leaves the list for good before its channel is closed, and Write
\* has nothing to do with it any more by then; Detach and Close exclude each other.
ListInv ==
    /\ IsInjective(subscribers) /\ Range(subscribers) \subseteq joined
    /\ IsInjective(todo) /\ Range(todo) \subseteq active /\ active \subseteq joined
    /\ writePc \in {"idle", "error"} => active = {}
    /\ closePc # "idle" => subscribers = <<>>
    /\ closing \subseteq joined \ Range(subscribers)
    /\ \A k \in Detachers, w \in Writers :
           detachPc[k][w] = "settle" => w \in joined \ Range(subscribers)
    /\ chClosed \subseteq joined \ (Range(subscribers) \cup active)
    /\ \A w \in Writers :
           /\ detachPc["call"][w] # "idle" => w \in joined
           /\ detachPc["call"][w] \in {"remove", "settle", "await"} =>
               closePc \notin {"sinks", "settle"}
    /\ \A w \in Queued : /\ detachPc["write"][w] = "idle"
                         /\ detachPc["run"][w] # "idle" => runPc[w] \in {"failed", "end"}
                         /\ w \notin joined => runPc[w] = "none"

\* What is queued for a writer is newer than what it writes, and that is newer
\* than what it received; the chunk of the Write in progress is the newest.
Increasing(q) == \A i, j \in DOMAIN q : i < j => data[q[i]] < data[q[j]]
OrderOf(w) ==
    /\ last[w] <= writes
    /\ runPc[w] = "write" <=> current[w] \in Chunks
    /\ Increasing(ch[w])
    /\ \A c \in Range(ch[w]) :
           /\ last[w] < data[c] /\ data[c] <= writes
           /\ current[w] \in Chunks => data[current[w]] < data[c]
    /\ current[w] \in Chunks => last[w] < data[current[w]] /\ data[current[w]] <= writes
    /\ w \in Range(todo) =>
           /\ chunk \in Chunks /\ data[chunk] = writes /\ last[w] < writes
           /\ \A c \in Range(ch[w]) : data[c] < writes
           /\ current[w] \in Chunks => data[current[w]] < writes

OrderInv == \A w \in Queued : OrderOf(w)

HoldsChunk(w, c) == c \in Range(ch[w]) \/ current[w] = c \/ (chunk = c /\ w \in Range(todo))
Holders(c) == {w \in Queued : HoldsChunk(w, c)}

\* A chunk has one reference for each queued writer that it is on its way to,
\* and lies in the pool only without any.
RefInv ==
    /\ \A c \in Chunks : refs[c] = Cardinality(Holders(c))
    /\ \A c \in pool : refs[c] = 0

\* A lossless writer is on the list until it is closed, and so misses no write.
LosslessInv ==
    \A w \in Lossless :
        /\ w \in joined => \/ w \in sinkClosed \cup Range(subscribers)
                           \/ closePc = "sinks" /\ w \in closing
        /\ last[w] # 0 => w \in joined
        /\ last[w] # 0 /\ w \notin sinkClosed
             => writes = IF w \in Range(todo) THEN last[w] + 1 ELSE last[w]
        /\ detachPc["call"][w] \in {"settle", "await", "returned"} => w \in sinkClosed

Quiet(w) == w \in sinkClosed \/ runPc[w] \in {"failed", "drain", "end"}

\* A queued writer off the list receives nothing any more, or Detach or Close
\* is still to see to that.
QuietInv ==
    \A w \in Queued :
        /\ w \in joined \ Range(subscribers)
             => \/ Quiet(w) \/ detachPc["call"][w] \in {"settle", "await"}
                \/ closePc = "sinks" /\ w \in closing
        /\ detachPc["call"][w] = "returned" => Quiet(w)

HubInv == HubTypeOK /\ ListInv /\ OrderInv /\ RefInv /\ LosslessInv /\ QuietInv

\* Tail, Append and Delete by their entries.
LEMMA TailEntries ==
  ASSUME NEW S, NEW s \in Seq(S), s # <<>>
  PROVE  /\ Len(s) \in Nat \ {0} /\ DOMAIN s = 1 .. Len(s) /\ Head(s) = s[1] /\ s[1] \in S
         /\ Tail(s) \in Seq(S) /\ DOMAIN Tail(s) = 1 .. Len(s) - 1
         /\ \A i \in 1 .. Len(s) - 1 : Tail(s)[i] = s[i + 1]
  OBVIOUS

\* The head and the tail of a sequence share it out.
LEMMA TailRange ==
  ASSUME NEW S, NEW s \in Seq(S), s # <<>>
  PROVE  /\ Tail(s) \in Seq(S) /\ Head(s) \in S
         /\ Range(s) = {Head(s)} \cup Range(Tail(s))
         /\ IsInjective(s) => IsInjective(Tail(s)) /\ Head(s) \notin Range(Tail(s))
<1>1. /\ Len(s) \in Nat \ {0} /\ DOMAIN s = 1 .. Len(s) /\ Head(s) = s[1] /\ s[1] \in S
      /\ Tail(s) \in Seq(S) /\ DOMAIN Tail(s) = 1 .. Len(s) - 1
      /\ \A i \in 1 .. Len(s) - 1 : Tail(s)[i] = s[i + 1]
  BY TailEntries, Zenon
<1> DEFINE t == Tail(s)
           h == Head(s)
<1> HIDE DEF t, h
<1>2. \A i \in 1 .. Len(s) : i = 1 \/ (i - 1 \in 1 .. Len(s) - 1 /\ (i - 1) + 1 = i)
  BY <1>1
<1>3. \A i \in 1 .. Len(s) : s[i] = h \/ \E j \in DOMAIN t : s[i] = t[j]
  BY <1>1, <1>2, Zenon DEF t, h
<1>4. \A j \in DOMAIN t : \E i \in 1 .. Len(s) : i # 1 /\ t[j] = s[i]
  BY <1>1 DEF t
<1>5. Range(s) = {h} \cup Range(t)
  BY <1>1, <1>3, <1>4 DEF Range, h
<1>6. ASSUME IsInjective(s) PROVE IsInjective(t) /\ h \notin Range(t)
  <2>1. \A i, j \in 1 .. Len(s) : s[i] = s[j] => i = j
    BY <1>1, <1>6, Zenon DEF IsInjective
  <2>2. h \notin Range(t)
    BY <1>1, <1>4, <2>1 DEF Range, h
  <2>3. \A i, j \in 1 .. Len(s) - 1 : t[i] = t[j] => i = j
    BY <1>1, <2>1 DEF t
  <2>4. QED
    BY <1>1, <2>2, <2>3, Zenon DEF IsInjective, t
<1>7. QED
  BY <1>1, <1>5, <1>6, Zenon DEF t, h

\* An entry is appended behind the others.
LEMMA AppendRange ==
  ASSUME NEW S, NEW s \in Seq(S), NEW x \in S
  PROVE  /\ Append(s, x) \in Seq(S) /\ Range(Append(s, x)) = Range(s) \cup {x}
         /\ DOMAIN Append(s, x) = 1 .. Len(s) + 1 /\ Len(s) \in Nat /\ DOMAIN s = 1 .. Len(s)
         /\ \A i \in 1 .. Len(s) : Append(s, x)[i] = s[i]
         /\ Append(s, x)[Len(s) + 1] = x
         /\ IsInjective(s) /\ x \notin Range(s) => IsInjective(Append(s, x))
<1> DEFINE t == Append(s, x)
<1>1. /\ t \in Seq(S) /\ DOMAIN t = 1 .. Len(s) + 1 /\ Len(s) \in Nat /\ DOMAIN s = 1 .. Len(s)
      /\ \A i \in 1 .. Len(s) : t[i] = s[i]
      /\ t[Len(s) + 1] = x
  OBVIOUS
<1> HIDE DEF t
<1>2. \A i \in 1 .. Len(s) + 1 : i \in 1 .. Len(s) \/ i = Len(s) + 1
  BY <1>1
<1>3. Range(t) = Range(s) \cup {x}
  <2>1. \A i \in DOMAIN t : t[i] = x \/ \E j \in DOMAIN s : t[i] = s[j]
    BY <1>1, <1>2, Zenon
  <2>2. \A j \in DOMAIN s : \E i \in DOMAIN t : t[i] = s[j]
    BY <1>1
  <2>3. \E i \in DOMAIN t : t[i] = x
    BY <1>1
  <2>4. QED
    BY <2>1, <2>2, <2>3 DEF Range
<1>4. ASSUME IsInjective(s), x \notin Range(s) PROVE IsInjective(t)
  <2>1. \A i, j \in 1 .. Len(s) : s[i] = s[j] => i = j
    BY <1>1, <1>4, Zenon DEF IsInjective
  <2>2. \A i \in 1 .. Len(s) : s[i] # x
    BY <1>1, <1>4, Zenon DEF Range
  <2>3. QED
    BY <1>1, <1>2, <2>1, <2>2, Zenon DEF IsInjective
<1>5. QED
  BY <1>1, <1>3, <1>4, Zenon DEF t

\* What is left of a list of distinct entries after one of them is deleted.
LEMMA DeleteRange ==
  ASSUME NEW S, NEW s \in Seq(S), IsInjective(s), NEW n \in DOMAIN s
  PROVE  /\ Delete(s, n) \in Seq(S) /\ IsInjective(Delete(s, n))
         /\ Range(Delete(s, n)) = Range(s) \ {s[n]}
<1> DEFINE r == Delete(s, n)
<1>1. /\ n \in 1 .. Len(s) /\ Len(s) \in Nat /\ DOMAIN s = 1 .. Len(s)
      /\ \A i \in 1 .. Len(s) : s[i] \in S
      /\ \A i, j \in 1 .. Len(s) : s[i] = s[j] => i = j
  BY DEF IsInjective
<1>2. DOMAIN r = 1 .. Len(s) - 1 /\ \A i \in 1 .. Len(s) - 1 :
        r[i] = IF i < n THEN s[i] ELSE s[i + 1]
  BY Zenon DEF Delete
<1>3. Len(s) - 1 \in Nat /\ \A i \in 1 .. Len(s) - 1 : r[i] \in S
  BY <1>1, <1>2
<1>4. r \in Seq(S)
  <2>1. r = [i \in 1 .. Len(s) - 1 |-> r[i]]
    BY <1>2, Zenon DEF Delete
  <2> HIDE DEF r
  <2>2. QED
    BY <1>3, <2>1
<1> HIDE DEF r
<1>5. \A i, j \in 1 .. Len(s) - 1 : r[i] = r[j] => i = j
  BY <1>1, <1>2
<1>6. \A i \in 1 .. Len(s) - 1 : r[i] # s[n] /\ \E j \in 1 .. Len(s) : r[i] = s[j]
  BY <1>1, <1>2
<1>7. ASSUME NEW j \in 1 .. Len(s), j # n PROVE \E i \in 1 .. Len(s) - 1 : r[i] = s[j]
  <2>1. CASE j < n
    BY <1>1, <1>2, <2>1
  <2>2. CASE j > n
    <3>1. j - 1 \in 1 .. Len(s) - 1 /\ ~ (j - 1 < n) /\ (j - 1) + 1 = j
      BY <1>1, <2>2
    <3>2. QED
      BY <1>2, <3>1, Zenon
  <2>3. QED
    BY <1>1, <1>7, <2>1, <2>2
<1>8. Range(r) = Range(s) \ {s[n]}
  <2>1. ASSUME NEW x \in Range(r) PROVE x \in Range(s) /\ x # s[n]
    BY <1>1, <1>2, <1>6, <2>1 DEF Range
  <2>2. ASSUME NEW x \in Range(s), x # s[n] PROVE x \in Range(r)
    BY <1>1, <1>2, <1>7, <2>2, SMTT(30) DEF Range
  <2>3. QED
    BY <2>1, <2>2, Zenon
<1>9. QED
  BY <1>2, <1>4, <1>5, <1>8, Zenon DEF IsInjective, r

\* Release touches the counter of its chunk and may put it into the pool.
LEMMA ReleaseTypes ==
  ASSUME refs \in [Chunks -> Int], pool \subseteq Chunks, NEW c \in Chunks, Release(c)
  PROVE  refs' \in [Chunks -> Int] /\ pool' \subseteq Chunks
  BY DEF Release

\* Every step keeps the types.
LEMMA HubTypesStep ==
  ASSUME HubTypeOK, ListInv, OrderInv, [HubNext]_hubVars
  PROVE  HubTypeOK'
<1>0. /\ subscribers \in Seq(Writers) /\ todo \in Seq(Writers)
      /\ ch \in [Queued -> Seq(Chunks)] /\ refs \in [Chunks -> Int] /\ pool \subseteq Chunks
      /\ Queued \subseteq Writers /\ Lossless \subseteq Writers
  BY Zenon DEF HubTypeOK, Writers
<1>1. CASE WriteBegin
  <2>0. Range(subscribers) \subseteq Writers
    BY <1>0 DEF Range
  <2>1. chunkVars' = chunkVars \/ \E n : NewChunk(n) /\ n \in Int
    <3>1. CASE UNCHANGED chunkVars
      BY <3>1, Zenon
    <3>2. CASE NewChunk(Cardinality(Range(subscribers) \cap Queued))
      <4>1. Cardinality(Range(subscribers) \cap Queued) \in Int
        BY HubAssumption, FS_Subset, FS_CardinalityType
      <4>2. QED
        BY <3>2, <4>1, Zenon
    <3>3. QED
      BY <1>1, <3>1, <3>2, Zenon DEF WriteBegin
  <2>2. refs' \in [Chunks -> Int] /\ data' \in [Chunks -> Nat] /\ pool' \subseteq Chunks
    BY <2>1, SMTT(30) DEF HubTypeOK, NewChunk, chunkVars
  <2>3. /\ todo' \in Seq(Writers) /\ active' \subseteq Writers /\ failed' \subseteq Lossless
        /\ delivered' \in BOOLEAN /\ writes' \in Nat /\ writePc' \in {"idle", "next", "error"}
    <3>1. CASE writePc' = "error" /\ UNCHANGED <<active, writes, todo, failed, delivered>>
      BY <3>1, Zenon DEF HubTypeOK
    <3>2. CASE /\ writes' = writes + 1 /\ todo' = subscribers /\ active' = Range(subscribers)
               /\ failed' = {} /\ delivered' = FALSE /\ writePc' = "next"
      <4>1. writes' \in Nat /\ writePc' \in {"idle", "next", "error"}
        BY <3>2 DEF HubTypeOK
      <4>2. QED
        BY <1>0, <2>0, <3>2, <4>1, Zenon
    <3>3. QED
      BY <1>1, <3>1, <3>2, Zenon DEF WriteBegin
  <2>4. chunk' \in Chunks \cup {NoChunk}
    BY <1>1, Zenon DEF WriteBegin, HubTypeOK, NewChunk
  <2>5. UNCHANGED <<subscribers, joined, channelVars, detachVars, runVars, last>>
    BY <1>1, Zenon DEF WriteBegin
  <2>6. QED
    BY <2>2, <2>3, <2>4, <2>5, Zenon DEF HubTypeOK, channelVars, detachVars, runVars
<1>2. CASE WriteLossless
  <2>1. todo' \in Seq(Writers) /\ Head(todo) \in Lossless
    BY <1>0, <1>2 DEF WriteLossless
  <2>2. QED
    BY <1>0, <1>2, <2>1, ZenonT(60)
       DEF WriteLossless, HubTypeOK, listVars, chunkVars, detachVars, runVars
<1>3. CASE EnqueueChunk
  <2> DEFINE w == Head(todo)
  <2>1. todo # <<>> /\ w \in Queued /\ w \in Range(todo) /\ Tail(todo) \in Seq(Writers)
    BY <1>0, <1>3, TailRange DEF EnqueueChunk
  <2>2. chunk \in Chunks
    BY <2>1, Zenon DEF OrderInv, OrderOf
  <2>3. /\ refs' \in [Chunks -> Int] /\ pool' \subseteq Chunks /\ ch' \in [Queued -> Seq(Chunks)]
        /\ writePc' \in {"next", "drop", "retry"}
    <3>1. CASE ch' = [ch EXCEPT ![w] = Append(@, chunk)] /\ writePc' = "next" /\
            UNCHANGED <<refs, pool>>
      BY <1>0, <2>1, <2>2, <3>1
    <3>2. CASE writePc' \in {"drop", "retry"} /\ UNCHANGED <<ch, refs, pool>>
      BY <1>0, <3>2, Zenon
    <3>3. CASE /\ ch[w] # <<>> /\ ch' = [ch EXCEPT ![w] = Tail(@)] /\ Release(Head(ch[w]))
               /\ writePc' = "retry"
      <4>1. ch[w] \in Seq(Chunks) /\ Head(ch[w]) \in Chunks /\ Tail(ch[w]) \in Seq(Chunks)
        BY <1>0, <2>1, <3>3, TailRange, Zenon
      <4>2. QED
        BY <1>0, <2>1, <3>3, <4>1, ReleaseTypes, Zenon
    <3>4. CASE Release(chunk) /\ writePc' = "next" /\ UNCHANGED ch
      BY <1>0, <2>2, <3>4, ReleaseTypes, Zenon
    <3>5. QED
      BY <1>3, <3>1, <3>2, <3>3, <3>4, Zenon DEF EnqueueChunk
  <2>4. todo' \in Seq(Writers) /\ delivered' \in BOOLEAN
    BY <1>0, <1>3, <2>1, Zenon DEF EnqueueChunk, HubTypeOK
  <2>5. UNCHANGED <<listVars, chClosed, sinkClosed, data, writes, chunk, failed, detachVars,
                    runVars, last>>
    BY <1>3, Zenon DEF EnqueueChunk
  <2> HIDE DEF w
  <2>6. QED
    BY <2>3, <2>4, <2>5, Zenon DEF HubTypeOK, listVars, detachVars, runVars
<1>4. CASE WriteEnd
  BY <1>0, <1>4, Zenon DEF WriteEnd, HubTypeOK, channelVars, chunkVars, runVars, Detachers
<1>5. ASSUME NEW w \in Writers, Attach(w) PROVE HubTypeOK'
  BY <1>0, <1>5 DEF Attach, HubTypeOK, channelVars, chunkVars, writeVars, detachVars
<1>6. ASSUME NEW w \in Writers, Detach(w) PROVE HubTypeOK'
  BY <1>0, <1>6, Zenon DEF Detach, HubTypeOK, listVars, channelVars, chunkVars, writeVars, runVars,
                    Detachers
<1>7. ASSUME NEW w \in Writers, NEW k \in Detachers, DetachRemove(k, w) PROVE HubTypeOK'
  <2>1. subscribers' \in Seq(Writers)
    BY <1>0, <1>7, DeleteRange DEF DetachRemove, ListInv
  <2>2. detachPc' \in [Detachers -> [Writers -> {"idle", "remove", "settle", "await", "returned"}]]
    <3>1. \E pc \in {"settle", "await", "returned"} : detachPc' = [detachPc EXCEPT ![k][w] = pc]
      BY <1>7, Zenon DEF DetachRemove
    <3>2. detachPc \in [Detachers -> [Writers -> {"idle", "remove", "settle", "await", "returned"}]]
      BY Zenon DEF HubTypeOK
    <3>3. QED
      BY <3>1, <3>2
  <2>3. sinkClosed' \subseteq Writers
    BY <1>0, <1>7, Zenon DEF DetachRemove, HubTypeOK
  <2>4. UNCHANGED <<joined, active, ch, chClosed, chunkVars, writeVars, closePc, closing, runVars,
                    last>>
    BY <1>7, Zenon DEF DetachRemove
  <2>5. QED
    BY <2>1, <2>2, <2>3, <2>4, Zenon DEF HubTypeOK, chunkVars, writeVars, runVars
<1>8. ASSUME NEW w \in Writers, NEW k \in Detachers, DetachSettle(k, w) PROVE HubTypeOK'
  BY <1>0, <1>8, Zenon DEF DetachSettle, HubTypeOK, listVars, chunkVars, writeVars, runVars,
      Detachers
<1>9. ASSUME NEW w \in Writers, DetachAwait(w) PROVE HubTypeOK'
  BY <1>0, <1>9, Zenon DEF DetachAwait, HubTypeOK, listVars, channelVars, chunkVars, writeVars,
                    runVars, Detachers
<1>10. CASE CloseBegin \/ CloseSinks \/ CloseSettle
  <2>0. Range(subscribers) \subseteq Writers
    BY <1>0 DEF Range
  <2>1. CASE CloseBegin
    BY <2>0, <2>1 DEF CloseBegin, HubTypeOK, channelVars, chunkVars, writeVars, runVars
  <2>2. CASE CloseSinks
    BY <2>2, Zenon DEF CloseSinks, HubTypeOK, listVars, chunkVars, writeVars, runVars
  <2>3. CASE CloseSettle
    BY <2>3, Zenon DEF CloseSettle, HubTypeOK, listVars, chunkVars, writeVars, runVars
  <2>4. QED
    BY <1>10, <2>1, <2>2, <2>3, Zenon
<1>11. ASSUME NEW w \in Queued, RunReceive(w) PROVE HubTypeOK'
  <2>1. ch' \in [Queued -> Seq(Chunks)] /\ current' \in [Queued -> Chunks \cup {NoChunk}]
    <3>1. ch[w] # <<>> => Head(ch[w]) \in Chunks /\ Tail(ch[w]) \in Seq(Chunks)
      BY <1>0, TailRange, Zenon
    <3>2. current \in [Queued -> Chunks \cup {NoChunk}]
      BY Zenon DEF HubTypeOK
    <3>3. QED
      BY <1>0, <1>11, <3>1, <3>2, Zenon DEF RunReceive
  <2>2. QED
    BY <1>0, <1>11, <2>1, Zenon
       DEF RunReceive, HubTypeOK, listVars, chunkVars, writeVars, detachVars
<1>12. ASSUME NEW w \in Queued, RunWrite(w) PROVE HubTypeOK'
  <2>1. current[w] \in Chunks
    BY <1>12, Zenon DEF RunWrite, OrderInv, OrderOf
  <2>2. refs' \in [Chunks -> Int] /\ pool' \subseteq Chunks
    BY <1>0, <1>12, <2>1, ReleaseTypes, Zenon DEF RunWrite
  <2>3. /\ detachPc' \in [Detachers -> [Writers -> {"idle", "remove", "settle", "await", "returned"}]]
        /\ last' \in [Writers -> Nat]
    <3>1. /\ detachPc \in [Detachers -> [Writers -> {"idle", "remove", "settle", "await", "returned"}]]
          /\ last \in [Writers -> Nat] /\ data[current[w]] \in Nat
      BY <2>1, Zenon DEF HubTypeOK
    <3>2. CASE last' = [last EXCEPT ![w] = data[current[w]]] /\ UNCHANGED detachPc
      BY <1>0, <3>1, <3>2, Zenon
    <3>3. CASE detachPc' = [detachPc EXCEPT !["run"][w] = "remove"] /\ UNCHANGED last
      BY <1>0, <3>1, <3>3, Zenon DEF Detachers
    <3>4. QED
      BY <1>12, <3>2, <3>3, Zenon DEF RunWrite
  <2>4. /\ current' \in [Queued -> Chunks \cup {NoChunk}]
        /\ runPc' \in [Queued -> {"none", "receive", "write", "failed", "drain", "end"}]
    BY <1>12, Zenon DEF RunWrite, HubTypeOK
  <2>5. UNCHANGED <<listVars, channelVars, data, writeVars, closePc, closing>>
    BY <1>12, Zenon DEF RunWrite
  <2>6. QED
    BY <2>2, <2>3, <2>4, <2>5, Zenon DEF HubTypeOK, listVars, channelVars, writeVars
<1>13. ASSUME NEW w \in Queued, RunDrain(w) PROVE HubTypeOK'
  <2>1. ch[w] # <<>> => Head(ch[w]) \in Chunks /\ Tail(ch[w]) \in Seq(Chunks)
    BY <1>0, TailRange, Zenon
  <2>2. refs' \in [Chunks -> Int] /\ pool' \subseteq Chunks /\ ch' \in [Queued -> Seq(Chunks)]
    BY <1>0, <1>13, <2>1, ReleaseTypes, Zenon DEF RunDrain
  <2>3. QED
    BY <1>0, <1>13, <2>2, Zenon DEF RunDrain, HubTypeOK, listVars, writeVars, detachVars
<1>14. CASE UNCHANGED hubVars
  BY <1>14, Zenon DEF HubTypeOK, hubVars, listVars, channelVars, chunkVars, writeVars,
      detachVars, runVars
<1>15. QED
  BY <1>1, <1>2, <1>3, <1>4, <1>5, <1>6, <1>7, <1>8, <1>9, <1>10, <1>11, <1>12, <1>13, <1>14, Zenon
     DEF HubNext, WriteStep, CloseStep, DetachStep, RunStep

\* Every step keeps the list of subscribers apart from what is closed.
LEMMA ListStep ==
  ASSUME HubTypeOK, ListInv, [HubNext]_hubVars
  PROVE  ListInv'
<1>0. /\ subscribers \in Seq(Writers) /\ todo \in Seq(Writers) /\ failed \subseteq Lossless
      /\ Queued \subseteq Writers /\ Lossless \subseteq Writers /\ Range(<<>>) = {}
      /\ Detachers = {"call", "write", "run"}
  BY DEF HubTypeOK, Writers, Range, Detachers
<1>a. detachPc \in [Detachers -> [Writers -> {"idle", "remove", "settle", "await", "returned"}]]
  BY Zenon DEF HubTypeOK
<1>b. IsInjective(todo) /\ IsInjective(subscribers)
  BY Zenon DEF ListInv
<1>1. CASE WriteBegin
  <2>1. UNCHANGED <<subscribers, joined, chClosed, detachPc, closePc, closing, runPc>>
    BY <1>1, Zenon DEF WriteBegin, channelVars, detachVars, runVars
  <2>2. CASE writePc' = "error" /\ UNCHANGED <<active, todo>>
    BY <1>1, <2>1, <2>2, Zenon DEF WriteBegin, ListInv
  <2>3. CASE todo' = subscribers /\ active' = Range(subscribers) /\ writePc' = "next"
    BY <2>1, <2>3, Zenon DEF ListInv
  <2>4. QED
    BY <1>1, <2>2, <2>3, Zenon DEF WriteBegin
<1>2. CASE WriteLossless \/ EnqueueChunk
  <2>1. /\ UNCHANGED <<subscribers, joined, active, chClosed, detachPc, closePc, closing, runPc>>
        /\ todo # <<>> /\ todo' \in {todo, Tail(todo)} /\ writePc' \in {"next", "drop", "retry"}
    BY <1>2, Zenon DEF WriteLossless, EnqueueChunk, listVars, detachVars, runVars
  <2>2. IsInjective(todo') /\ Range(todo') \subseteq Range(todo)
    <3>1. /\ IsInjective(Tail(todo)) /\ Range(Tail(todo)) \subseteq Range(todo)
      BY <1>0, <1>b, <2>1, TailRange, Zenon
    <3>2. QED
      BY <1>b, <2>1, <3>1, Zenon
  <2>3. QED
    BY <2>1, <2>2, Zenon DEF ListInv
<1>3. CASE WriteEnd
  <2>1. /\ UNCHANGED <<subscribers, joined, chClosed, todo, closePc, closing, runPc>>
        /\ active' = {} /\ todo = <<>>
    BY <1>3, Zenon DEF WriteEnd, channelVars, runVars
  <2>2. \A j \in Detachers, v \in Writers :
            detachPc'[j][v] = IF j = "write" /\ v \in failed THEN "remove" ELSE detachPc[j][v]
    BY <1>0, <1>3, Zenon DEF WriteEnd, HubTypeOK
  <2>3. Range(todo) = {}
    BY <1>0, <2>1, Zenon
  <2>4. \A w \in Queued : w \notin failed
    BY <1>0, HubAssumption, Zenon
  <2>5. QED
    BY <1>0, <2>1, <2>2, <2>3, <2>4, ZenonT(60) DEF ListInv
<1>4. ASSUME NEW w \in Writers, Attach(w) PROVE ListInv'
  <2>1. /\ UNCHANGED <<active, chClosed, todo, writePc, detachPc, closePc, closing>>
        /\ w \notin joined /\ closePc = "idle" /\ joined' = joined \cup {w}
        /\ subscribers' = Append(subscribers, w)
        /\ \A v \in Queued : runPc'[v] = IF v = w THEN "receive" ELSE runPc[v]
    BY <1>4, Zenon DEF Attach, channelVars, writeVars, detachVars
  <2>2. IsInjective(subscribers') /\ Range(subscribers') = Range(subscribers) \cup {w}
    BY <1>0, <2>1, AppendRange DEF ListInv
  <2>3. QED
    BY <1>0, <2>1, <2>2 DEF ListInv
<1>5. ASSUME NEW w \in Writers, Detach(w) PROVE ListInv'
  <2>1. /\ UNCHANGED <<subscribers, joined, active, chClosed, todo, writePc, closePc, closing, runPc>>
        /\ closePc \notin {"sinks", "settle"} /\ w \in joined
    BY <1>5, Zenon DEF Detach, Unlocked, listVars, channelVars, writeVars, runVars
  <2>2. PICK pc \in {"remove", "returned"} : detachPc' = [detachPc EXCEPT !["call"][w] = pc]
    BY <1>5, Zenon DEF Detach
  <2>3. \A j \in Detachers, v \in Writers :
            detachPc'[j][v] = IF j = "call" /\ v = w THEN pc ELSE detachPc[j][v]
    BY <1>a, <2>2, Zenon
  <2>4. QED
    BY <1>0, <2>1, <2>3, ZenonT(60) DEF ListInv
<1>6. ASSUME NEW w \in Writers, NEW k \in Detachers, DetachRemove(k, w) PROVE ListInv'
  <2>1. /\ UNCHANGED <<joined, active, chClosed, todo, writePc, closePc, closing, runPc>>
        /\ detachPc[k][w] = "remove"
    BY <1>6, Zenon DEF DetachRemove, writeVars, runVars
  <2>2. PICK pc \in {"settle", "await", "returned"} :
            /\ detachPc' = [detachPc EXCEPT ![k][w] = pc]
            /\ pc = "settle" => w \in Range(subscribers) /\ w \notin Range(subscribers')
            /\ IsInjective(subscribers') /\ Range(subscribers') \subseteq Range(subscribers)
            /\ subscribers = <<>> => subscribers' = <<>>
    <3>1. CASE w \notin Range(subscribers) /\ UNCHANGED subscribers
      BY <1>6, <3>1, Zenon DEF DetachRemove, ListInv, Range
    <3>2. ASSUME NEW n \in DOMAIN subscribers, subscribers[n] = w,
                 subscribers' = Delete(subscribers, n),
                 detachPc' = [detachPc EXCEPT ![k][w] = "settle"]
          PROVE  \E pc \in {"settle", "await", "returned"} :
                    /\ detachPc' = [detachPc EXCEPT ![k][w] = pc]
                    /\ pc = "settle" => w \in Range(subscribers) /\ w \notin Range(subscribers')
                    /\ IsInjective(subscribers') /\ Range(subscribers') \subseteq Range(subscribers)
                    /\ subscribers = <<>> => subscribers' = <<>>
      <4>1. /\ IsInjective(subscribers') /\ Range(subscribers') = Range(subscribers) \ {w}
            /\ subscribers # <<>> /\ w \in Range(subscribers)
        <5>1. /\ IsInjective(Delete(subscribers, n))
              /\ Range(Delete(subscribers, n)) = Range(subscribers) \ {subscribers[n]}
          BY <1>0, <1>b, <3>2, DeleteRange, Zenon
        <5>2. subscribers # <<>> /\ w \in Range(subscribers)
          BY <3>2 DEF Range
        <5>3. QED
          BY <3>2, <5>1, <5>2, Zenon
      <4>2. QED
        BY <3>2, <4>1, Zenon
    <3>3. QED
      BY <1>6, <3>1, <3>2, Zenon DEF DetachRemove
  <2>3. \A j \in Detachers, v \in Writers :
            detachPc'[j][v] = IF j = k /\ v = w THEN pc ELSE detachPc[j][v]
    BY <1>a, <2>2, Zenon
  <2>4. w \in Queued => k # "write"
    BY <2>1, Zenon DEF ListInv
  <2>5. QED
    BY <1>0, <2>1, <2>2, <2>3, <2>4 DEF ListInv
<1>7. ASSUME NEW w \in Writers, NEW k \in Detachers, DetachSettle(k, w) PROVE ListInv'
  <2>1. /\ UNCHANGED <<subscribers, joined, active, todo, writePc, closePc, closing, runPc>>
        /\ detachPc[k][w] = "settle" /\ w \notin active /\ chClosed' \subseteq chClosed \cup {w}
    BY <1>7, Zenon DEF DetachSettle, listVars, writeVars, runVars
  <2>2. PICK pc \in {"await", "returned"} : detachPc' = [detachPc EXCEPT ![k][w] = pc]
    BY <1>7, Zenon DEF DetachSettle
  <2>3. \A j \in Detachers, v \in Writers :
            detachPc'[j][v] = IF j = k /\ v = w THEN pc ELSE detachPc[j][v]
    BY <1>a, <2>2, Zenon
  <2>4. w \in Queued => k # "write"
    BY <2>1, Zenon DEF ListInv
  <2>5. QED
    BY <1>0, <2>1, <2>2, <2>3, <2>4 DEF ListInv
<1>8. ASSUME NEW w \in Writers, DetachAwait(w) PROVE ListInv'
  <2>1. UNCHANGED <<subscribers, joined, active, chClosed, todo, writePc, closePc, closing, runPc>>
    BY <1>8, Zenon DEF DetachAwait, listVars, channelVars, writeVars, runVars
  <2>2. \A j \in Detachers, v \in Writers :
            detachPc'[j][v] = IF j = "call" /\ v = w THEN "returned" ELSE detachPc[j][v]
    BY <1>a, <1>8, Zenon DEF DetachAwait, Detachers
  <2>3. detachPc["call"][w] = "await" /\ "call" \in Detachers
    BY <1>8, Zenon DEF DetachAwait, Detachers
  <2>4. QED
    BY <1>0, <2>1, <2>2, <2>3, SMTT(30) DEF ListInv
<1>9. CASE CloseBegin
  <2>1. /\ UNCHANGED <<joined, active, chClosed, todo, writePc, detachPc, runPc>>
        /\ closing' = Range(subscribers) /\ subscribers' = <<>> /\ closePc' = "sinks"
        /\ \A w \in Writers : detachPc["call"][w] \in {"idle", "returned"}
    BY <1>9, Zenon DEF CloseBegin, Unlocked, channelVars, writeVars, runVars
  <2>2. IsInjective(<<>>)
    BY DEF IsInjective
  <2>3. QED
    BY <1>0, <2>1, <2>2, Zenon DEF ListInv
<1>10. CASE CloseSinks \/ CloseSettle
  <2>1. /\ UNCHANGED <<subscribers, joined, active, todo, writePc, detachPc, runPc>>
        /\ chClosed' \subseteq chClosed \cup closing /\ closing' \subseteq closing
        /\ closePc \in {"sinks", "settle"} /\ closePc' \in {"settle", "returned"}
        /\ chClosed' # chClosed => closing \cap active = {}
    BY <1>10, Zenon DEF CloseSinks, CloseSettle, listVars, writeVars, runVars
  <2>2. QED
    BY <1>0, <2>1, Zenon DEF ListInv
<1>11. ASSUME NEW w \in Queued, RunStep(w) PROVE ListInv'
  <2>1. UNCHANGED <<subscribers, joined, active, chClosed, todo, writePc, closePc, closing>>
    BY <1>11, Zenon DEF RunStep, RunReceive, RunWrite, RunDrain, listVars, channelVars, writeVars,
                 detachVars
  <2>2. /\ runPc[w] # "none" /\ \A v \in Queued : v # w => runPc'[v] = runPc[v]
        /\ runPc[w] \in {"failed", "end"} => runPc'[w] \in {"failed", "end"}
    BY <1>11, Zenon DEF RunStep, RunReceive, RunWrite, RunDrain, HubTypeOK
  <2>3. CASE UNCHANGED detachPc
    BY <1>0, <2>1, <2>2, <2>3, Zenon DEF ListInv
  <2>4. CASE detachPc' = [detachPc EXCEPT !["run"][w] = "remove"] /\ runPc'[w] = "failed"
    <3>1. \A j \in Detachers, v \in Writers :
              detachPc'[j][v] = IF j = "run" /\ v = w THEN "remove" ELSE detachPc[j][v]
      BY <1>0, <1>a, <2>4, Zenon
    <3>2. QED
      BY <1>0, <2>1, <2>2, <2>4, <3>1 DEF ListInv
  <2>5. QED
    BY <1>11, <2>3, <2>4, Zenon DEF RunStep, RunReceive, RunWrite, RunDrain, detachVars, HubTypeOK
<1>12. CASE UNCHANGED hubVars
  BY <1>12, Zenon DEF ListInv, hubVars, listVars, channelVars, writeVars, detachVars, runVars
<1>13. QED
  BY <1>1, <1>2, <1>3, <1>4, <1>5, <1>6, <1>7, <1>8, <1>9, <1>10, <1>11, <1>12, Zenon
     DEF HubNext, WriteStep, CloseStep, DetachStep

\* Taking the oldest of a queue, and adding to it what is newer than all of it.
LEMMA TailIncreases ==
  ASSUME NEW q \in Seq(Chunks), q # <<>>, Increasing(q)
  PROVE  /\ Increasing(Tail(q))
         /\ \A c \in Range(Tail(q)) : c \in Range(q) /\ data[Head(q)] < data[c]
<1>1. /\ Len(q) \in Nat \ {0} /\ DOMAIN q = 1 .. Len(q) /\ Head(q) = q[1]
      /\ DOMAIN Tail(q) = 1 .. Len(q) - 1
      /\ \A i \in 1 .. Len(q) - 1 : Tail(q)[i] = q[i + 1]
  BY TailEntries, Zenon
<1> DEFINE t == Tail(q)
           h == Head(q)
<1>2. /\ DOMAIN t = 1 .. Len(q) - 1 /\ \A i \in 1 .. Len(q) - 1 : t[i] = q[i + 1]
      /\ h = q[1]
  BY <1>1, Zenon
<1> HIDE DEF t, h
<1>3. \A i \in 1 .. Len(q) - 1 : i + 1 \in 1 .. Len(q) /\ 1 < i + 1
  BY <1>1
<1>4. Increasing(t)
  BY <1>1, <1>2, <1>3, SMTT(30) DEF Increasing
<1>5. \A c \in Range(t) : c \in Range(q) /\ data[h] < data[c]
  BY <1>1, <1>2, <1>3 DEF Increasing, Range
<1>6. QED
  BY <1>4, <1>5, Zenon DEF t, h

LEMMA AppendIncreases ==
  ASSUME NEW q \in Seq(Chunks), NEW x \in Chunks, Increasing(q),
         \A c \in Range(q) : data[c] < data[x]
  PROVE  Increasing(Append(q, x))
<1> DEFINE t == Append(q, x)
<1>1. /\ DOMAIN t = 1 .. Len(q) + 1 /\ Len(q) \in Nat /\ DOMAIN q = 1 .. Len(q)
      /\ \A i \in 1 .. Len(q) : t[i] = q[i]
      /\ t[Len(q) + 1] = x
  BY AppendRange
<1> HIDE DEF t
<1>2. ASSUME NEW i \in 1 .. Len(q) + 1, NEW j \in 1 .. Len(q) + 1, i < j
      PROVE  i \in 1 .. Len(q) /\ (j \in 1 .. Len(q) \/ j = Len(q) + 1)
  BY <1>1, <1>2
<1>3. \A i \in 1 .. Len(q) : data[q[i]] < data[x]
  BY <1>1, Zenon DEF Range
<1>4. QED
  BY <1>1, <1>2, <1>3, Zenon DEF Increasing, t

\* A step leaves the order of a writer alone unless it touches its queue.
LEMMA OrderFrame ==
  ASSUME NEW w \in Queued, OrderOf(w), UNCHANGED <<last[w], current[w], ch[w], data, writes>>,
         runPc'[w] = "write" <=> runPc[w] = "write",
         w \in Range(todo)' => w \in Range(todo) /\ chunk' = chunk
  PROVE  OrderOf(w)'
  BY Zenon DEF OrderOf, Increasing

\* A chunk of the pool, and one that was never used, is on its way to nobody.
LEMMA UnusedIsUnheld ==
  ASSUME HubTypeOK, OrderInv, RefInv, NEW c \in Chunks, c \in pool \/ data[c] = 0,
         Range(todo) = {}, NEW w \in Queued
  PROVE  c \notin Range(ch[w]) /\ current[w] # c
<1>1. CASE c \in pool
  <2>1. IsFiniteSet(Holders(c)) /\ Cardinality(Holders(c)) = 0
    <3>1. Holders(c) \subseteq Queued
      BY Zenon DEF Holders
    <3>2. QED
      BY <1>1, <3>1, HubAssumption, FS_Subset, Zenon DEF RefInv
  <2>2. Holders(c) = {}
    BY <2>1, FS_EmptySet, Zenon
  <2>3. QED
    BY <2>2, Zenon DEF Holders, HoldsChunk
<1>2. CASE data[c] = 0
  BY <1>2, HubAssumption DEF OrderInv, OrderOf, HubTypeOK, Writers
<1>3. QED
  BY <1>1, <1>2, Zenon

\* Every step keeps the order of what is on its way to each queued writer.
LEMMA OrderStep ==
  ASSUME HubTypeOK, ListInv, OrderInv, RefInv, [HubNext]_hubVars
  PROVE  OrderInv'
<1>0. /\ todo \in Seq(Writers) /\ ch \in [Queued -> Seq(Chunks)] /\ data \in [Chunks -> Nat]
      /\ last \in [Writers -> Nat] /\ writes \in Nat /\
          current \in [Queued -> Chunks \cup {NoChunk}]
      /\ NoChunk \notin Chunks /\ Lossless \cap Queued = {} /\ Queued \subseteq Writers
      /\ \A v \in Queued : OrderOf(v)
      /\ runPc \in [Queued -> {"none", "receive", "write", "failed", "drain", "end"}]
  BY HubAssumption, Zenon DEF HubTypeOK, OrderInv, Writers, Chunks
<1>a. IsInjective(todo) /\ todo \in Seq(Writers)
  BY Zenon DEF ListInv, HubTypeOK
<1>1. CASE WriteBegin
  <2>1. UNCHANGED <<last, runPc, current, ch>> /\ Range(todo) = {}
    BY <1>1, Zenon DEF WriteBegin, channelVars, runVars, ListInv
  <2>2. CASE UNCHANGED <<todo, chunk, data, writes>>
    BY <1>0, <2>1, <2>2, OrderFrame, Zenon DEF OrderInv
  <2>3. CASE /\ writes' = writes + 1 /\ todo' = subscribers
             /\ Range(subscribers) \cap Queued = {} /\ UNCHANGED data
    <3>1. \A v \in Queued : v \notin Range(todo')
      BY <2>3, Zenon
    <3>2. ASSUME NEW v \in Queued PROVE OrderOf(v)'
      <4>1. OrderOf(v) /\ \A d \in Range(ch[v]) : d \in Chunks /\ data[d] \in Nat
        BY <1>0 DEF Range
      <4>2. Increasing(ch[v])'
        BY <2>1, <2>3, <4>1, Zenon DEF OrderOf, Increasing
      <4>3. QED
        BY <1>0, <2>1, <2>3, <3>1, <4>1, <4>2, SMTT(30) DEF OrderOf
    <3>3. QED
      BY <3>2, Zenon DEF OrderInv
  <2>4. CASE /\ writes' = writes + 1 /\ todo' = subscribers
             /\ NewChunk(Cardinality(Range(subscribers) \cap Queued))
    <3>1. PICK c \in Chunks : /\ c \in pool \/ data[c] = 0
                              /\ chunk' = c /\ data' = [data EXCEPT ![c] = writes + 1]
      BY <2>4, Zenon DEF NewChunk
    <3>2. ASSUME NEW v \in Queued PROVE OrderOf(v)'
      <4>1. OrderOf(v) /\ c \notin Range(ch[v]) /\ current[v] # c
        BY <1>0, <2>1, <3>1, UnusedIsUnheld, Zenon
      <4>2. /\ \A d \in Range(ch[v]) : d \in Chunks /\ data'[d] = data[d]
            /\ current[v] \in Chunks => data'[current[v]] = data[current[v]]
            /\ data'[c] = writes + 1
        BY <1>0, <3>1, <4>1 DEF Range
      <4>3. Increasing(ch[v])'
        <5>1. Increasing(ch[v]) /\ UNCHANGED ch
          BY <2>1, <4>1, Zenon DEF OrderOf
        <5>2. \A i \in DOMAIN ch[v] : data'[ch[v][i]] = data[ch[v][i]]
          BY <4>2, Zenon DEF Range
        <5>3. QED
          BY <5>1, <5>2, Zenon DEF Increasing
      <4>4. \A d \in Range(ch[v]) : data[d] \in Nat /\ data[d] <= writes /\ last[v] < data[d]
        BY <1>0, <4>1, <4>2, Zenon DEF OrderOf
      <4>5. QED
        BY <1>0, <2>1, <2>4, <3>1, <4>1, <4>2, <4>3, <4>4, SMTT(30) DEF OrderOf
    <3>3. QED
      BY <3>2, Zenon DEF OrderInv
  <2>5. QED
    BY <1>1, <2>2, <2>3, <2>4, Zenon DEF WriteBegin, chunkVars
<1>2. CASE WriteLossless
  <2>1. /\ UNCHANGED <<runPc, current, ch, data, writes, chunk>> /\ todo # <<>> /\
            todo' = Tail(todo)
        /\ \A v \in Queued : last'[v] = last[v]
    BY <1>0, <1>2, Zenon DEF WriteLossless, chunkVars, runVars
  <2>2. Range(todo') \subseteq Range(todo)
    BY <1>a, <2>1, TailRange, Zenon
  <2>3. QED
    BY <1>0, <2>1, <2>2, OrderFrame, Zenon DEF OrderInv
<1>3. CASE EnqueueChunk
  <2>0. PICK w \in Queued : w = Head(todo)
    BY <1>3, Zenon DEF EnqueueChunk
  <2>1. /\ UNCHANGED <<last, runPc, current, data, writes, chunk>> /\ todo # <<>>
        /\ todo' \in {todo, Tail(todo)} /\ \A v \in Queued : v # w => ch'[v] = ch[v]
    BY <1>0, <1>3, <2>0, Zenon DEF EnqueueChunk, runVars, Release
  <2>2. w \in Range(todo) /\ w \notin Range(Tail(todo)) /\ Range(Tail(todo)) \subseteq Range(todo)
    BY <1>a, <2>0, <2>1, TailRange, ZenonT(60)
  <2>3. OrderOf(w) /\ chunk \in Chunks /\ ch[w] \in Seq(Chunks)
    BY <1>0, <2>1, <2>2, Zenon DEF OrderOf
  <2>4. OrderOf(w)'
    <3>1. CASE ch' = [ch EXCEPT ![w] = Append(@, chunk)] /\ todo' = Tail(todo)
      <4>1. ch'[w] = Append(ch[w], chunk) /\ w \notin Range(todo')
        BY <1>0, <2>1, <2>2, <3>1, ZenonT(60)
      <4>2. Range(ch'[w]) = Range(ch[w]) \cup {chunk}
        BY <2>3, <4>1, AppendRange
      <4>3. Increasing(ch[w]) /\ \A c \in Range(ch[w]) : data[c] < data[chunk]
        BY <2>2, <2>3, Zenon DEF OrderOf
      <4>4. Increasing(ch[w])'
        <5>1. Increasing(Append(ch[w], chunk))
          BY <2>3, <4>3, AppendIncreases, Zenon
        <5>2. QED
          BY <2>1, <4>1, <5>1, Zenon DEF Increasing
      <4>5. QED
        BY <1>0, <2>1, <2>2, <2>3, <4>1, <4>2, <4>4, SMTT(30) DEF OrderOf
    <3>2. CASE ch' = [ch EXCEPT ![w] = Tail(@)] /\ ch[w] # <<>> /\ todo' = todo
      <4>1. ch'[w] = Tail(ch[w])
        BY <1>0, <2>1, <3>2, Zenon
      <4>2. Increasing(ch[w])' /\ Range(ch'[w]) \subseteq Range(ch[w])
        <5>1. Increasing(ch[w])
          BY <2>3, Zenon DEF OrderOf
        <5>2. /\ Increasing(Tail(ch[w]))
              /\ \A c \in Range(Tail(ch[w])) : c \in Range(ch[w])
          BY <2>3, <3>2, <5>1, TailIncreases, Zenon
        <5>3. QED
          BY <2>1, <4>1, <5>2, Zenon DEF Increasing
      <4>3. QED
        BY <2>1, <2>3, <3>2, <4>1, <4>2, Zenon DEF OrderOf
    <3>3. CASE UNCHANGED ch
      BY <2>1, <2>2, <2>3, <3>3, OrderFrame, Zenon
    <3>4. QED
      BY <1>3, <2>0, <3>1, <3>2, <3>3, Zenon DEF EnqueueChunk
  <2>5. \A v \in Queued : v # w => OrderOf(v)'
    BY <1>0, <2>1, <2>2, OrderFrame, Zenon
  <2>6. QED
    BY <2>4, <2>5, Zenon DEF OrderInv
<1>4. CASE WriteEnd
  <2>1. UNCHANGED <<last, runPc, current, ch, data, writes, todo>> /\ todo = <<>>
    BY <1>4, Zenon DEF WriteEnd, channelVars, chunkVars, runVars
  <2>2. Range(todo) = {}
    BY <2>1 DEF Range
  <2>3. QED
    BY <1>0, <2>1, <2>2, OrderFrame, Zenon DEF OrderInv
<1>5. ASSUME NEW w \in Writers, Attach(w) PROVE OrderInv'
  <2>1. /\ UNCHANGED <<last, current, ch, data, writes, todo, chunk>> /\ w \notin joined
        /\ \A v \in Queued : runPc'[v] = IF v = w THEN "receive" ELSE runPc[v]
    BY <1>5, Zenon DEF Attach, channelVars, chunkVars, writeVars
  <2>2. w \in Queued => runPc[w] = "none"
    BY <2>1, Zenon DEF ListInv
  <2>3. QED
    BY <1>0, <2>1, <2>2, OrderFrame, Zenon DEF OrderInv
<1>6. CASE \/ \E w \in Writers : Detach(w) \/ DetachStep(w)
           \/ CloseBegin \/ CloseStep
  <2>1. UNCHANGED <<last, runPc, current, ch, data, writes, todo, chunk>>
    BY <1>6, Zenon DEF Detach, DetachStep, DetachAwait, DetachRemove, DetachSettle, CloseBegin,
        CloseStep, CloseSinks, CloseSettle, channelVars, chunkVars, writeVars, runVars
  <2>2. QED
    BY <1>0, <2>1, OrderFrame, Zenon DEF OrderInv
<1>7. ASSUME NEW w \in Queued, RunStep(w) PROVE OrderInv'
  <2>1. /\ UNCHANGED <<data, writes, todo, chunk>>
        /\ \A v \in Queued : v # w =>
               UNCHANGED <<last[v], current[v], ch[v]>> /\ runPc'[v] = runPc[v]
    BY <1>0, <1>7, Zenon DEF RunStep, RunReceive, RunWrite, RunDrain, chunkVars, channelVars,
        writeVars
  <2>2. \A v \in Queued : v # w => OrderOf(v)'
    BY <1>0, <2>1, OrderFrame, Zenon
  <2>3. OrderOf(w) /\ ch[w] \in Seq(Chunks)
    BY <1>0, Zenon
  <2>4. OrderOf(w)'
    <3>1. CASE UNCHANGED <<last, current, ch>> /\ runPc[w] # "write" /\ runPc'[w] # "write"
      BY <2>1, <2>3, <3>1, OrderFrame, Zenon
    <3>2. CASE RunWrite(w)
      <4>1. /\ ch'[w] = ch[w] /\ current'[w] = NoChunk /\ runPc'[w] # "write"
            /\ current[w] \in Chunks /\ last'[w] \in {last[w], data[current[w]]}
        BY <1>0, <2>3, <3>2, Zenon DEF RunWrite, channelVars, OrderOf
      <4>2. QED
        BY <1>0, <2>1, <2>3, <4>1, Zenon DEF OrderOf, Increasing
    <3>3. CASE ch' = [ch EXCEPT ![w] = Tail(@)] /\ ch[w] # <<>> /\ last' = last /\
            runPc[w] # "write"
      <4>1. ch'[w] = Tail(ch[w]) /\ last'[w] = last[w] /\ current[w] \notin Chunks
        BY <1>0, <2>3, <3>3, ZenonT(60) DEF OrderOf
      <4>2. /\ Increasing(ch[w])' /\ Head(ch[w]) \in Range(ch[w]) /\ Head(ch[w]) \in Chunks
            /\ \A c \in Range(ch'[w]) : c \in Range(ch[w]) /\ data[Head(ch[w])] < data[c]
        BY <2>1, <2>3, <3>3, <4>1, TailIncreases, TailRange DEF Increasing, OrderOf
      <4>3. CASE current'[w] = Head(ch[w]) /\ runPc'[w] = "write"
        BY <2>1, <2>3, <4>1, <4>2, <4>3, Zenon DEF OrderOf
      <4>4. CASE current'[w] = current[w] /\ runPc'[w] # "write"
        BY <2>1, <2>3, <4>1, <4>2, <4>4, Zenon DEF OrderOf
      <4>5. QED
        BY <1>0, <1>7, <3>3, <4>3, <4>4, Zenon DEF RunStep, RunReceive, RunWrite, RunDrain
    <3>4. QED
      BY <1>0, <1>7, <3>1, <3>2, <3>3, Zenon DEF RunStep, RunReceive, RunDrain
  <2>5. QED
    BY <2>2, <2>4, Zenon DEF OrderInv
<1>8. CASE UNCHANGED hubVars
  <2>1. UNCHANGED <<last, runPc, current, ch, data, writes, todo, chunk>>
    BY <1>8, Zenon DEF hubVars, channelVars, chunkVars, writeVars, runVars
  <2>2. QED
    BY <1>0, <2>1, OrderFrame, Zenon DEF OrderInv
<1>9. QED
  BY <1>1, <1>2, <1>3, <1>4, <1>5, <1>6, <1>7, <1>8, Zenon DEF HubNext, WriteStep

\* A step that moves no chunk to or from a writer keeps the counts.
LEMMA SameHolders ==
  ASSUME RefInv, UNCHANGED <<refs, pool>>,
         \A c \in Chunks, w \in Queued : HoldsChunk(w, c)' <=> HoldsChunk(w, c)
  PROVE  RefInv'
<1>1. \A c \in Chunks : Holders(c)' = Holders(c)
  BY Zenon DEF Holders
<1>2. QED
  BY <1>1, Zenon DEF RefInv

\* A writer that is done with a chunk releases the reference it had.
LEMMA HolderReleases ==
  ASSUME HubTypeOK, RefInv, NEW c \in Chunks, NEW w \in Queued, HoldsChunk(w, c), Release(c),
         \A d \in Chunks, v \in Queued :
             HoldsChunk(v, d)' <=> HoldsChunk(v, d) /\ ~ (v = w /\ d = c)
  PROVE  RefInv'
<1> DEFINE H == Holders(c)
<1>0. refs \in [Chunks -> Int] /\ pool \subseteq Chunks
  BY Zenon DEF HubTypeOK
<1>1. \A d \in Chunks : d # c => Holders(d)' = Holders(d)
  BY Zenon DEF Holders
<1>2. Holders(c)' = H \ {w} /\ w \in H /\ IsFiniteSet(H)
  <2>1. Holders(c)' = H \ {w} /\ w \in H
    BY Zenon DEF Holders
  <2>2. IsFiniteSet(H)
    BY HubAssumption, FS_Subset, Zenon DEF Holders
  <2>3. QED
    BY <2>1, <2>2, Zenon
<1>3. Cardinality(Holders(c)') = refs[c] - 1 /\ Cardinality(Holders(c)') \in Nat
  <2>1. IsFiniteSet(H \ {w}) /\ Cardinality(H \ {w}) = Cardinality(H) - 1
    BY <1>2, FS_RemoveElement, Zenon
  <2>2. Cardinality(H \ {w}) \in Nat
    BY <2>1, FS_CardinalityType, Zenon
  <2>3. QED
    BY <1>2, <2>1, <2>2, Zenon DEF RefInv
<1>4. refs'[c] = refs[c] - 1 /\ \A d \in Chunks : d # c => refs'[d] = refs[d]
  BY <1>0, Zenon DEF Release
<1>5. \A d \in pool' : d \in Chunks /\ refs'[d] = 0
  <2>1. c \notin pool
    BY <1>0, <1>3 DEF RefInv
  <2>2. QED
    BY <1>0, <1>4, <2>1 DEF RefInv, Release
<1>6. QED
  BY <1>1, <1>3, <1>4, <1>5, Zenon DEF RefInv

\* Every step keeps the references of each chunk counted.
LEMMA RefStep ==
  ASSUME HubTypeOK, ListInv, OrderInv, RefInv, [HubNext]_hubVars
  PROVE  RefInv'
<1>0. /\ ch \in [Queued -> Seq(Chunks)] /\ current \in [Queued -> Chunks \cup {NoChunk}]
      /\ NoChunk \notin Chunks /\ Lossless \cap Queued = {} /\ \A v \in Queued : OrderOf(v)
  BY HubAssumption, Zenon DEF HubTypeOK, OrderInv, Chunks
<1>a. IsInjective(todo) /\ todo \in Seq(Writers)
  BY Zenon DEF ListInv, HubTypeOK
<1>1. CASE WriteBegin
  <2>1. UNCHANGED <<ch, current>> /\ Range(todo) = {}
    BY <1>1, Zenon DEF WriteBegin, channelVars, runVars, ListInv
  <2>2. CASE UNCHANGED <<chunkVars, todo, chunk>>
    BY <2>1, <2>2, SameHolders, Zenon DEF HoldsChunk, chunkVars
  <2>3. CASE todo' = subscribers /\ Range(subscribers) \cap Queued = {} /\ UNCHANGED chunkVars
    <3>1. \A v \in Queued : v \notin Range(todo) /\ v \notin Range(todo')
      BY <2>1, <2>3, Zenon
    <3>2. QED
      BY <2>1, <2>3, <3>1, SameHolders, Zenon DEF HoldsChunk, chunkVars
  <2>4. CASE todo' = subscribers /\ NewChunk(Cardinality(Range(subscribers) \cap Queued))
    <3> DEFINE n == Cardinality(Range(subscribers) \cap Queued)
    <3>1. PICK c \in Chunks : /\ c \in pool \/ data[c] = 0
                              /\ chunk' = c /\ pool' = pool \ {c}
                              /\ refs' = [refs EXCEPT ![c] = n]
      BY <2>4, Zenon DEF NewChunk
    <3> HIDE DEF n
    <3>2. refs'[c] = n /\ \A d \in Chunks : d # c => refs'[d] = refs[d]
      BY <3>1, Zenon DEF HubTypeOK
    <3>3. \A v \in Queued : c \notin Range(ch[v]) /\ current[v] # c
      BY <2>1, <3>1, UnusedIsUnheld, Zenon
    <3>4. Holders(c)' = Range(subscribers) \cap Queued
      BY <2>1, <2>4, <3>1, <3>3, Zenon DEF Holders, HoldsChunk
    <3>5. \A d \in Chunks : d # c => Holders(d)' = Holders(d)
      BY <2>1, <2>4, <3>1, Zenon DEF Holders, HoldsChunk
    <3>6. pool \subseteq Chunks
      BY Zenon DEF HubTypeOK
    <3>7. QED
      BY <3>1, <3>2, <3>4, <3>5, <3>6, Zenon DEF RefInv, n
  <2>5. QED
    BY <1>1, <2>2, <2>3, <2>4, Zenon DEF WriteBegin
<1>2. CASE WriteLossless
  <2>1. /\ UNCHANGED <<ch, current, refs, pool, chunk>> /\ todo # <<>> /\ todo' = Tail(todo)
        /\ Head(todo) \in Lossless
    BY <1>2, Zenon DEF WriteLossless, chunkVars, runVars
  <2>2. Range(todo) = {Head(todo)} \cup Range(todo')
    BY <1>a, <2>1, TailRange, Zenon
  <2>3. \A v \in Queued : v \in Range(todo') <=> v \in Range(todo)
    BY <1>0, <2>1, <2>2, Zenon
  <2>4. QED
    BY <2>1, <2>3, SameHolders, Zenon DEF HoldsChunk
<1>3. CASE EnqueueChunk
  <2>0. PICK w \in Queued : w = Head(todo)
    BY <1>3, Zenon DEF EnqueueChunk
  <2>1. UNCHANGED <<current, chunk>> /\ todo # <<>>
    BY <1>3, Zenon DEF EnqueueChunk, runVars
  <2>2. Range(todo) = {w} \cup Range(Tail(todo)) /\ w \notin Range(Tail(todo))
    BY <1>a, <2>0, <2>1, TailRange, ZenonT(60)
  <2>3. /\ OrderOf(w) /\ ch[w] \in Seq(Chunks) /\ chunk \in Chunks /\ w \in Range(todo)
        /\ chunk \notin Range(ch[w]) /\ current[w] # chunk
    BY <1>0, <2>2 DEF OrderOf, HubTypeOK
  <2>4. CASE ch' = [ch EXCEPT ![w] = Append(@, chunk)] /\ todo' = Tail(todo) /\
          UNCHANGED <<refs, pool>>
    <3>1. \A v \in Queued : v # w => ch'[v] = ch[v]
      BY <1>0, <2>4, Zenon
    <3>2. ch'[w] = Append(ch[w], chunk)
      BY <1>0, <2>4, Zenon
    <3>3. Range(ch'[w]) = Range(ch[w]) \cup {chunk}
      <4>1. Range(Append(ch[w], chunk)) = Range(ch[w]) \cup {chunk}
        <5>1. \A q \in Seq(Chunks), c \in Chunks : Range(Append(q, c)) = Range(q) \cup {c}
          BY AppendRange
        <5>2. QED
          BY <2>3, <5>1, Zenon
      <4>2. QED
        BY <3>2, <4>1, Zenon
    <3>4. QED
      BY <2>1, <2>2, <2>4, <3>1, <3>3, SameHolders, Zenon DEF HoldsChunk
  <2>5. CASE UNCHANGED <<ch, refs, pool, todo>>
    BY <2>1, <2>5, SameHolders, Zenon DEF HoldsChunk
  <2>6. CASE /\ ch[w] # <<>> /\ ch' = [ch EXCEPT ![w] = Tail(@)] /\ Release(Head(ch[w]))
             /\ todo' = todo
    <3>1. PICK c \in Chunks : c = Head(ch[w])
      BY <2>3, <2>6, TailRange, Zenon
    <3>2. ch'[w] = Tail(ch[w]) /\ \A v \in Queued : v # w => ch'[v] = ch[v]
      BY <1>0, <2>6, Zenon
    <3>3. Range(ch[w]) = {c} \cup Range(ch'[w]) /\ c \notin Range(ch'[w])
      <4>1. Range(ch[w]) = {c} \cup Range(Tail(ch[w]))
        BY <2>3, <2>6, <3>1, TailRange, Zenon
      <4>2. Increasing(ch[w]) /\ data[c] \in Nat
        BY <2>3, Zenon DEF OrderOf, HubTypeOK
      <4>3. \A d \in Range(Tail(ch[w])) : data[c] < data[d]
        BY <2>3, <2>6, <3>1, <4>2, TailIncreases, ZenonT(60)
      <4>4. QED
        BY <3>2, <4>1, <4>2, <4>3, SMTT(30)
    <3>4. current[w] # c /\ chunk # c
      BY <2>3, <3>1, <3>3 DEF OrderOf, HubTypeOK
    <3>5. HoldsChunk(w, c)
      BY <3>3, Zenon DEF HoldsChunk
    <3>6. \A d \in Chunks, v \in Queued :
              HoldsChunk(v, d)' <=> HoldsChunk(v, d) /\ ~ (v = w /\ d = c)
      BY <2>1, <2>6, <3>2, <3>3, <3>4, Zenon DEF HoldsChunk
    <3>7. QED
      BY <2>6, <3>1, <3>5, <3>6, HolderReleases, SMTT(30)
  <2>7. CASE Release(chunk) /\ UNCHANGED ch /\ todo' = Tail(todo)
    <3>1. PICK c \in Chunks : c = chunk
      BY <2>3, Zenon
    <3>2. HoldsChunk(w, c)
      BY <2>3, <3>1, Zenon DEF HoldsChunk
    <3>3. \A d \in Chunks, v \in Queued :
              HoldsChunk(v, d)' <=> HoldsChunk(v, d) /\ ~ (v = w /\ d = c)
      BY <2>1, <2>2, <2>3, <2>7, <3>1, Zenon DEF HoldsChunk
    <3>4. QED
      BY <2>7, <3>1, <3>2, <3>3, HolderReleases
  <2>8. QED
    BY <1>3, <2>0, <2>4, <2>5, <2>6, <2>7, Zenon DEF EnqueueChunk
<1>4. CASE WriteEnd
  <2>1. UNCHANGED <<ch, current, refs, pool, todo>> /\ todo = <<>>
    BY <1>4, Zenon DEF WriteEnd, channelVars, chunkVars, runVars
  <2>2. Range(todo) = {}
    BY <2>1 DEF Range
  <2>3. QED
    BY <2>1, <2>2, SameHolders, Zenon DEF HoldsChunk
<1>5. CASE \/ \E w \in Writers : Attach(w) \/ Detach(w) \/ DetachStep(w)
           \/ CloseBegin \/ CloseStep \/ UNCHANGED hubVars
  <2>1. UNCHANGED <<ch, current, refs, pool, todo, chunk>>
    BY <1>5, Zenon DEF Attach, Detach, DetachStep, DetachAwait, DetachRemove, DetachSettle,
        CloseBegin, CloseStep, CloseSinks, CloseSettle, hubVars, channelVars, chunkVars,
        writeVars, runVars
  <2>2. QED
    BY <2>1, SameHolders, Zenon DEF HoldsChunk
<1>6. ASSUME NEW w \in Queued, RunStep(w) PROVE RefInv'
  <2>1. UNCHANGED <<todo, chunk>> /\ OrderOf(w) /\ ch[w] \in Seq(Chunks)
    BY <1>0, <1>6, Zenon DEF RunStep, RunReceive, RunWrite, RunDrain, writeVars
  <2>2. CASE UNCHANGED <<ch, current, refs, pool>>
    BY <2>1, <2>2, SameHolders, Zenon DEF HoldsChunk
  <2>3. CASE RunWrite(w)
    <3>1. PICK c \in Chunks : c = current[w]
      BY <2>1, <2>3, Zenon DEF RunWrite, OrderOf
    <3>2. UNCHANGED ch /\ current'[w] = NoChunk /\ \A v \in Queued : v # w =>
            current'[v] = current[v]
      BY <1>0, <2>3, Zenon DEF RunWrite, channelVars
    <3>3. HoldsChunk(w, c) /\ c \notin Range(ch[w]) /\ ~ (chunk = c /\ w \in Range(todo))
      BY <2>1, <3>1 DEF HoldsChunk, OrderOf, HubTypeOK
    <3>4. \A d \in Chunks, v \in Queued :
              HoldsChunk(v, d)' <=> HoldsChunk(v, d) /\ ~ (v = w /\ d = c)
      BY <1>0, <2>1, <3>1, <3>2, <3>3, Zenon DEF HoldsChunk
    <3>5. QED
      BY <2>3, <3>1, <3>3, <3>4, HolderReleases, Zenon DEF RunWrite
  <2>4. CASE ch[w] # <<>> /\ ch' = [ch EXCEPT ![w] = Tail(@)] /\ runPc[w] # "write"
    <3>1. PICK c \in Chunks : c = Head(ch[w])
      BY <2>1, <2>4, TailRange, Zenon
    <3>2. ch'[w] = Tail(ch[w]) /\ \A v \in Queued : v # w => ch'[v] = ch[v]
      BY <1>0, <2>4, Zenon
    <3>3. Range(ch[w]) = {c} \cup Range(ch'[w]) /\ c \notin Range(ch'[w])
      <4>1. Range(ch[w]) = {c} \cup Range(Tail(ch[w]))
        BY <2>1, <2>4, <3>1, TailRange, Zenon
      <4>2. Increasing(ch[w]) /\ data[c] \in Nat
        BY <2>1, Zenon DEF OrderOf, HubTypeOK
      <4>3. c \notin Range(Tail(ch[w]))
        BY <2>1, <2>4, <3>1, <4>2, TailIncreases, SMTT(30)
      <4>4. QED
        BY <3>2, <4>1, <4>3, Zenon
    <3>4. current[w] \notin Chunks /\ ~ (chunk = c /\ w \in Range(todo))
      BY <2>1, <2>4, <3>3 DEF OrderOf, HubTypeOK
    <3>5. CASE UNCHANGED <<refs, pool>> /\ current' = [current EXCEPT ![w] = Head(ch[w])]
      <4>1. current'[w] = c /\ \A v \in Queued : v # w => current'[v] = current[v]
        BY <1>0, <3>1, <3>5, Zenon
      <4>2. QED
        BY <2>1, <3>2, <3>3, <3>4, <3>5, <4>1, SameHolders, Zenon DEF HoldsChunk
    <3>6. CASE Release(Head(ch[w])) /\ UNCHANGED current
      <4>1. HoldsChunk(w, c)
        BY <3>3, Zenon DEF HoldsChunk
      <4>2. \A d \in Chunks, v \in Queued :
                HoldsChunk(v, d)' <=> HoldsChunk(v, d) /\ ~ (v = w /\ d = c)
        BY <2>1, <3>2, <3>3, <3>4, <3>6, Zenon DEF HoldsChunk
      <4>3. QED
        BY <3>1, <3>6, <4>1, <4>2, HolderReleases, SMTT(30)
    <3>7. QED
      BY <1>6, <2>4, <3>5, <3>6, Zenon DEF RunStep, RunReceive, RunWrite, RunDrain, chunkVars
  <2>5. QED
    BY <1>6, <2>2, <2>3, <2>4, Zenon DEF RunStep, RunReceive, RunDrain, chunkVars
<1>7. QED
  BY <1>1, <1>2, <1>3, <1>4, <1>5, <1>6, Zenon DEF HubNext, WriteStep

\* Every step keeps what is known of a lossless writer.
LEMMA LosslessStep ==
  ASSUME HubTypeOK, ListInv, LosslessInv, [HubNext]_hubVars
  PROVE  LosslessInv'
<1>0. /\ subscribers \in Seq(Writers) /\ last \in [Writers -> Nat] /\ writes \in Nat
      /\ Lossless \cap Queued = {} /\ Lossless \subseteq Writers /\ Range(<<>>) = {}
      /\ detachPc \in [Detachers -> [Writers -> {"idle", "remove", "settle", "await", "returned"}]]
  <2>1. Lossless \subseteq Writers /\ Range(<<>>) = {}
    BY DEF Writers, Range
  <2>2. QED
    BY <2>1, HubAssumption, Zenon DEF HubTypeOK
<1>a. IsInjective(todo) /\ todo \in Seq(Writers)
  BY Zenon DEF ListInv, HubTypeOK
<1>1. CASE WriteBegin
  <2>1. UNCHANGED <<subscribers, joined, sinkClosed, detachPc, closePc, closing, last>>
    BY <1>1, Zenon DEF WriteBegin, channelVars, detachVars
  <2>2. CASE UNCHANGED <<writes, todo>>
    BY <2>1, <2>2, Zenon DEF LosslessInv
  <2>3. CASE subscribers # <<>> /\ writes' = writes + 1 /\ todo' = subscribers
    <3>1. closePc = "idle" /\ Range(todo) = {}
      BY <1>1, <2>3, Zenon DEF WriteBegin, ListInv
    <3>2. QED
      BY <1>0, <2>1, <2>3, <3>1, Zenon DEF LosslessInv
  <2>4. QED
    BY <1>1, <2>2, <2>3, Zenon DEF WriteBegin
<1>2. CASE WriteLossless
  <2>0. PICK w \in Lossless : w = Head(todo)
    BY <1>2, Zenon DEF WriteLossless
  <2>1. /\ UNCHANGED <<subscribers, joined, detachPc, closePc, closing, writes>>
        /\ todo # <<>> /\ todo' = Tail(todo)
        /\ \/ w \notin sinkClosed /\ UNCHANGED sinkClosed /\ last' = [last EXCEPT ![w] = writes]
           \/ sinkClosed' = sinkClosed \cup {w} /\ UNCHANGED last
    BY <1>2, <2>0, Zenon DEF WriteLossless, listVars, detachVars
  <2>2. Range(todo) = {w} \cup Range(todo') /\ w \notin Range(todo')
    BY <1>a, <2>0, <2>1, TailRange, Zenon
  <2>3. w \in joined
    BY <2>2, Zenon DEF ListInv
  <2>4. CASE sinkClosed' = sinkClosed \cup {w} /\ UNCHANGED last
    BY <1>0, <2>1, <2>2, <2>4, Zenon DEF LosslessInv
  <2>5. CASE UNCHANGED sinkClosed /\ last' = [last EXCEPT ![w] = writes]
    <3>1. last'[w] = writes /\ \A v \in Lossless : v # w => last'[v] = last[v]
      BY <1>0, <2>5, Zenon
    <3>2. QED
      BY <1>0, <2>1, <2>2, <2>3, <2>5, <3>1, Zenon DEF LosslessInv
  <2>6. QED
    BY <2>1, <2>4, <2>5, Zenon
<1>3. CASE EnqueueChunk
  <2>0. PICK w \in Queued : w = Head(todo)
    BY <1>3, Zenon DEF EnqueueChunk
  <2>1. /\ UNCHANGED <<subscribers, joined, sinkClosed, detachPc, closePc, closing, last, writes>>
        /\ todo # <<>> /\ todo' \in {todo, Tail(todo)}
    BY <1>3, Zenon DEF EnqueueChunk, listVars, detachVars
  <2>2. Range(todo) = {w} \cup Range(Tail(todo))
    BY <1>a, <2>0, <2>1, TailRange, Zenon
  <2>3. \A v \in Lossless : v \in Range(todo') <=> v \in Range(todo)
    BY <1>0, <2>1, <2>2, Zenon
  <2>4. QED
    BY <2>1, <2>3, Zenon DEF LosslessInv
<1>4. CASE WriteEnd
  <2>1. /\ UNCHANGED <<subscribers, joined, sinkClosed, closePc, closing, last, writes, todo>>
        /\ \A w \in Writers : detachPc'["call"][w] = detachPc["call"][w]
    BY <1>0, <1>4, Zenon DEF WriteEnd, channelVars, Detachers
  <2>2. QED
    BY <1>0, <2>1, Zenon DEF LosslessInv
<1>5. ASSUME NEW w \in Writers, Attach(w) PROVE LosslessInv'
  <2>1. /\ UNCHANGED <<sinkClosed, detachPc, closePc, closing, last, writes, todo>>
        /\ joined' = joined \cup {w} /\ subscribers' = Append(subscribers, w)
    BY <1>5, Zenon DEF Attach, channelVars, writeVars, detachVars
  <2>2. Range(subscribers') = Range(subscribers) \cup {w}
    BY <1>0, <2>1, AppendRange
  <2>3. QED
    BY <1>0, <2>1, <2>2, Zenon DEF LosslessInv
<1>6. ASSUME NEW w \in Writers, Detach(w) PROVE LosslessInv'
  <2>1. /\ UNCHANGED <<subscribers, joined, sinkClosed, closePc, closing, last, writes, todo>>
        /\ w \in joined /\ closePc # "sinks"
        /\ \A v \in Writers : detachPc'["call"][v] =
               IF v = w THEN IF w \in Range(subscribers) THEN "remove" ELSE "returned"
                        ELSE detachPc["call"][v]
    BY <1>0, <1>6, Zenon DEF Detach, Unlocked, listVars, channelVars, writeVars, Detachers
  <2>2. QED
    BY <1>0, <2>1, Zenon DEF LosslessInv
<1>7. ASSUME NEW w \in Writers, NEW k \in Detachers, DetachRemove(k, w) PROVE LosslessInv'
  <2>1. UNCHANGED <<joined, closePc, closing, last, writes, todo>> /\ detachPc[k][w] = "remove"
    BY <1>7, Zenon DEF DetachRemove, writeVars
  <2>2. CASE w \notin Range(subscribers) /\ UNCHANGED <<subscribers, sinkClosed>>
    <3>1. \A v \in Writers : v # w => detachPc'["call"][v] = detachPc["call"][v]
      BY <1>0, <1>7, <2>2 DEF DetachRemove, Detachers
    <3>2. k # "call" => detachPc'["call"][w] = detachPc["call"][w]
      BY <1>0, <1>7, <2>2, Zenon DEF DetachRemove, Detachers
    <3>3. k = "call" => closePc # "sinks" /\ w \in joined
      BY <2>1, Zenon DEF ListInv
    <3>4. QED
      BY <1>0, <2>1, <2>2, <3>1, <3>2, <3>3, Zenon DEF LosslessInv
  <2>3. ASSUME NEW n \in DOMAIN subscribers, subscribers[n] = w,
               subscribers' = Delete(subscribers, n),
               detachPc' = [detachPc EXCEPT ![k][w] = "settle"],
               sinkClosed' = sinkClosed \cup ({w} \cap Lossless)
        PROVE  LosslessInv'
    <3>1. Range(Delete(subscribers, n)) = Range(subscribers) \ {subscribers[n]}
      BY <1>0, <2>3, DeleteRange DEF ListInv
    <3>2. Range(subscribers') = Range(subscribers) \ {w}
      BY <2>3, <3>1, Zenon
    <3>3. \A v \in Writers : v # w => detachPc'["call"][v] = detachPc["call"][v]
      BY <1>0, <2>3, Zenon DEF Detachers
    <3>4. QED
      BY <1>0, <2>1, <2>3, <3>2, <3>3, Zenon DEF LosslessInv
  <2>4. QED
    BY <1>7, <2>2, <2>3, Zenon DEF DetachRemove
<1>8. ASSUME NEW w \in Writers, NEW k \in Detachers, DetachSettle(k, w) PROVE LosslessInv'
  <2>1. /\ UNCHANGED <<subscribers, joined, sinkClosed, closePc, closing, last, writes, todo>>
        /\ \A v \in Writers : detachPc'["call"][v] # detachPc["call"][v]
               => detachPc["call"][v] = "settle"
    BY <1>0, <1>8, Zenon DEF DetachSettle, listVars, writeVars, Detachers
  <2>2. QED
    BY <1>0, <2>1, Zenon DEF LosslessInv
<1>9. ASSUME NEW w \in Writers, DetachAwait(w) PROVE LosslessInv'
  <2>1. /\ UNCHANGED <<subscribers, joined, sinkClosed, closePc, closing, last, writes, todo>>
        /\ \A v \in Writers : detachPc'["call"][v] # detachPc["call"][v]
               => detachPc["call"][v] = "await"
    BY <1>0, <1>9, Zenon DEF DetachAwait, listVars, channelVars, writeVars, Detachers
  <2>2. QED
    BY <1>0, <2>1, Zenon DEF LosslessInv
<1>10. CASE CloseBegin
  <2>1. /\ UNCHANGED <<joined, sinkClosed, detachPc, last, writes, todo>>
        /\ closing' = Range(subscribers) /\ subscribers' = <<>> /\ closePc' = "sinks"
        /\ closePc # "sinks"
    BY <1>10, Zenon DEF CloseBegin, channelVars, writeVars
  <2>2. QED
    BY <1>0, <2>1, Zenon DEF LosslessInv
<1>11. CASE CloseStep
  <2>1. UNCHANGED <<subscribers, joined, detachPc, last, writes, todo>>
    BY <1>11, Zenon DEF CloseStep, CloseSinks, CloseSettle, listVars, writeVars
  <2>2. sinkClosed \subseteq sinkClosed' /\ (closePc = "sinks" => closing \subseteq sinkClosed')
    BY <1>11, Zenon DEF CloseStep, CloseSinks, CloseSettle
  <2>3. QED
    BY <1>0, <2>1, <2>2, Zenon DEF LosslessInv
<1>12. CASE (\E w \in Queued : RunStep(w)) \/ UNCHANGED hubVars
  <2>1. /\ UNCHANGED <<subscribers, joined, sinkClosed, closePc, closing, writes, todo>>
        /\ \A v \in Lossless : last'[v] = last[v]
        /\ \A v \in Writers : detachPc'["call"][v] = detachPc["call"][v]
    BY <1>0, <1>12, ZenonT(60) DEF RunStep, RunReceive, RunWrite, RunDrain, listVars,
        channelVars, writeVars, detachVars, hubVars, Detachers
  <2>2. QED
    BY <1>0, <2>1, Zenon DEF LosslessInv
<1>13. QED
  BY <1>1, <1>2, <1>3, <1>4, <1>5, <1>6, <1>7, <1>8, <1>9, <1>10, <1>11, <1>12, ZenonT(60)
     DEF HubNext, WriteStep, DetachStep

\* Every step keeps a queued writer quiet once it is off the list.
LEMMA QuietStep ==
  ASSUME HubTypeOK, ListInv, QuietInv, [HubNext]_hubVars
  PROVE  QuietInv'
<1>0. /\ subscribers \in Seq(Writers) /\ Lossless \cap Queued = {} /\ Queued \subseteq Writers
      /\ Range(<<>>) = {} /\
          runPc \in [Queued -> {"none", "receive", "write", "failed", "drain", "end"}]
      /\ detachPc \in [Detachers -> [Writers -> {"idle", "remove", "settle", "await", "returned"}]]
  <2>1. Queued \subseteq Writers /\ Range(<<>>) = {}
    BY DEF Writers, Range
  <2>2. QED
    BY <2>1, HubAssumption, Zenon DEF HubTypeOK
<1>1. CASE WriteBegin \/ WriteStep \/ UNCHANGED hubVars
  <2>1. /\ UNCHANGED <<subscribers, joined, closePc, closing, runPc>> /\
            sinkClosed \subseteq sinkClosed'
        /\ \A v \in Writers : detachPc'["call"][v] = detachPc["call"][v]
    BY <1>0, <1>1, Zenon DEF WriteBegin, WriteStep, WriteLossless, EnqueueChunk, WriteEnd,
        hubVars, listVars, channelVars, detachVars, runVars, Detachers
  <2>2. QED
    BY <1>0, <2>1, Zenon DEF QuietInv, Quiet
<1>2. ASSUME NEW w \in Writers, Attach(w) PROVE QuietInv'
  <2>1. /\ UNCHANGED <<sinkClosed, detachPc, closePc, closing>> /\ w \notin joined
        /\ joined' = joined \cup {w} /\ subscribers' = Append(subscribers, w)
        /\ \A v \in Queued : v # w => runPc'[v] = runPc[v]
    BY <1>2, Zenon DEF Attach, channelVars, detachVars
  <2>2. Range(subscribers') = Range(subscribers) \cup {w}
    BY <1>0, <2>1, AppendRange
  <2>3. detachPc["call"][w] = "idle"
    BY <2>1, Zenon DEF ListInv
  <2>4. QED
    BY <1>0, <2>1, <2>2, <2>3, Zenon DEF QuietInv, Quiet
<1>3. ASSUME NEW w \in Writers, Detach(w) PROVE QuietInv'
  <2>1. /\ UNCHANGED <<subscribers, joined, sinkClosed, closePc, closing, runPc>>
        /\ w \in joined /\ closePc # "sinks" /\ detachPc["call"][w] = "idle"
        /\ \A v \in Writers : detachPc'["call"][v] =
               IF v = w THEN IF w \in Range(subscribers) THEN "remove" ELSE "returned"
                        ELSE detachPc["call"][v]
    BY <1>0, <1>3, Zenon DEF Detach, Unlocked, listVars, channelVars, runVars, Detachers
  <2>2. QED
    BY <1>0, <2>1, Zenon DEF QuietInv, Quiet
<1>4. ASSUME NEW w \in Writers, NEW k \in Detachers, DetachRemove(k, w) PROVE QuietInv'
  <2>1. /\ UNCHANGED <<joined, closePc, closing, runPc>> /\ detachPc[k][w] = "remove"
        /\ sinkClosed \subseteq sinkClosed'
    BY <1>4, Zenon DEF DetachRemove, runVars
  <2>2. \A v \in Writers : v # w => detachPc'["call"][v] = detachPc["call"][v]
    BY <1>0, <1>4 DEF DetachRemove, Detachers
  <2>3. CASE w \notin Range(subscribers) /\ UNCHANGED subscribers
    <3>1. detachPc'["call"][w] = IF k = "call" THEN "await" ELSE detachPc["call"][w]
      BY <1>0, <1>4, <2>3, ZenonT(60) DEF DetachRemove, Detachers, Range
    <3>2. QED
      BY <1>0, <2>1, <2>2, <2>3, <3>1, Zenon DEF QuietInv, Quiet
  <2>4. ASSUME NEW n \in DOMAIN subscribers, subscribers[n] = w,
               subscribers' = Delete(subscribers, n),
               detachPc' = [detachPc EXCEPT ![k][w] = "settle"]
        PROVE  QuietInv'
    <3>1. Range(Delete(subscribers, n)) = Range(subscribers) \ {subscribers[n]}
      BY <1>0, <2>4, DeleteRange, Zenon DEF ListInv
    <3>2. Range(subscribers') = Range(subscribers) \ {w}
      BY <2>4, <3>1, Zenon
    <3>3. detachPc'["call"][w] = IF k = "call" THEN "settle" ELSE detachPc["call"][w]
      BY <1>0, <2>4, Zenon DEF Detachers
    <3>4. w \in Queued /\ k # "call" => Quiet(w)
      BY <2>1, Zenon DEF ListInv, Quiet, Detachers
    <3>5. QED
      BY <1>0, <2>1, <2>2, <3>2, <3>3, <3>4, Zenon DEF QuietInv, Quiet
  <2>5. QED
    BY <1>4, <2>3, <2>4, Zenon DEF DetachRemove
<1>5. ASSUME NEW w \in Writers, NEW k \in Detachers, DetachSettle(k, w) PROVE QuietInv'
  <2>1. UNCHANGED <<subscribers, joined, sinkClosed, closePc, closing, runPc>>
    BY <1>5, Zenon DEF DetachSettle, listVars, runVars
  <2>2. \A v \in Writers : detachPc'["call"][v] # detachPc["call"][v]
            => detachPc'["call"][v] = "await" /\ detachPc["call"][v] = "settle"
    BY <1>0, <1>5, Zenon DEF DetachSettle, Detachers
  <2>3. QED
    BY <1>0, <2>1, <2>2, Zenon DEF QuietInv, Quiet
<1>6. ASSUME NEW w \in Writers, DetachAwait(w) PROVE QuietInv'
  <2>1. /\ UNCHANGED <<subscribers, joined, sinkClosed, closePc, closing, runPc>>
        /\ w \in Queued => runPc[w] = "end"
        /\ \A v \in Writers : detachPc'["call"][v] =
               IF v = w THEN "returned" ELSE detachPc["call"][v]
    BY <1>0, <1>6, Zenon DEF DetachAwait, listVars, channelVars, runVars, Detachers
  <2>2. QED
    BY <1>0, <2>1, Zenon DEF QuietInv, Quiet
<1>7. CASE CloseBegin
  <2>1. /\ UNCHANGED <<joined, sinkClosed, detachPc, runPc>> /\ closePc # "sinks"
        /\ closing' = Range(subscribers) /\ subscribers' = <<>> /\ closePc' = "sinks"
    BY <1>7, Zenon DEF CloseBegin, channelVars, runVars
  <2>2. QED
    BY <1>0, <2>1, Zenon DEF QuietInv, Quiet
<1>8. CASE CloseStep
  <2>1. /\ UNCHANGED <<subscribers, joined, detachPc, runPc>>
        /\ sinkClosed \subseteq sinkClosed' /\ (closePc = "sinks" => closing \subseteq sinkClosed')
    BY <1>8, Zenon DEF CloseStep, CloseSinks, CloseSettle, listVars, runVars
  <2>2. QED
    BY <1>0, <2>1, Zenon DEF QuietInv, Quiet
<1>9. ASSUME NEW w \in Queued, RunStep(w) PROVE QuietInv'
  <2>1. /\ UNCHANGED <<subscribers, joined, sinkClosed, closePc, closing>>
        /\ \A v \in Writers : detachPc'["call"][v] = detachPc["call"][v]
    BY <1>0, <1>9, Zenon DEF RunStep, RunReceive, RunWrite, RunDrain, listVars, channelVars,
        detachVars, Detachers
  <2>2. \A v \in Queued : runPc[v] \in {"failed", "drain", "end"}
            => runPc'[v] \in {"failed", "drain", "end"}
    BY <1>0, <1>9, Zenon DEF RunStep, RunReceive, RunWrite, RunDrain
  <2>3. QED
    BY <1>0, <2>1, <2>2, Zenon DEF QuietInv, Quiet
<1>10. QED
  BY <1>1, <1>2, <1>3, <1>4, <1>5, <1>6, <1>7, <1>8, <1>9, Zenon DEF HubNext, DetachStep

\* The inductive invariant of the hub.
THEOREM HubInvariant == HubSpec => []HubInv
<1>1. HubInit => HubInv
  <2> SUFFICES ASSUME HubInit PROVE HubInv
    BY Zenon
  <2>0. Range(<<>>) = {} /\ IsInjective(<<>>)
    BY DEF Range, IsInjective
  <2>1. HubTypeOK
    <3>1. <<>> \in Seq(Writers) /\ ch \in [Queued -> Seq(Chunks)]
      BY DEF HubInit
    <3>2. detachPc \in [Detachers -> [Writers -> {"idle", "remove", "settle", "await", "returned"}]]
      BY Zenon DEF HubInit
    <3>3. /\ refs \in [Chunks -> Int] /\ data \in [Chunks -> Nat] /\ last \in [Writers -> Nat]
          /\ runPc \in [Queued -> {"none", "receive", "write", "failed", "drain", "end"}]
          /\ current \in [Queued -> Chunks \cup {NoChunk}]
      BY DEF HubInit
    <3>4. writes \in Nat
      BY Zenon DEF HubInit
    <3>5. QED
      BY <3>1, <3>2, <3>3, <3>4, Zenon DEF HubInit, HubTypeOK
  <2>2. ListInv
    BY <2>0, HubAssumption, Zenon DEF HubInit, ListInv, Writers, Detachers
  <2>3. OrderInv
    BY <2>0, HubAssumption DEF HubInit, OrderInv, OrderOf, Increasing, Writers, Chunks
  <2>4. RefInv
    <3>1. \A c \in Chunks : Holders(c) = {}
      BY <2>0, HubAssumption, Zenon DEF HubInit, Holders, HoldsChunk, Chunks
    <3>2. QED
      BY <3>1, FS_EmptySet, Zenon DEF HubInit, RefInv
  <2>5. LosslessInv
    BY Zenon DEF HubInit, LosslessInv, Writers, Detachers
  <2>6. QuietInv
    BY Zenon DEF HubInit, QuietInv, Writers, Detachers
  <2>7. QED
    BY <2>1, <2>2, <2>3, <2>4, <2>5, <2>6, Zenon DEF HubInv
<1>2. HubInv /\ [HubNext]_hubVars => HubInv'
  BY HubTypesStep, ListStep, OrderStep, RefStep, LosslessStep, QuietStep, Zenon DEF HubInv
<1>3. QED
  BY <1>1, <1>2, PTL DEF HubSpec

\* Channels and pooled buffers outlive their last use, for every number of
\* writers, capacity and interleaving of Write, Detach, Close and the writers.
THEOREM ChunksCorrect == HubSpec => []ChunksSafe
<1>1. HubInv => ChunksSafe
  <2> SUFFICES ASSUME HubInv PROVE ChunksSafe
    BY Zenon
  <2>1. NoSendOnClosed
    BY Zenon DEF HubInv, ListInv, NoSendOnClosed
  <2>2. PooledChunkUnused
    <3> SUFFICES ASSUME NEW c \in pool, NEW w \in Queued PROVE ~ HoldsChunk(w, c)
      BY Zenon DEF PooledChunkUnused, HoldsChunk
    <3>1. c \in Chunks /\ Cardinality(Holders(c)) = 0 /\ Holders(c) \subseteq Queued
      BY Zenon DEF HubInv, HubTypeOK, RefInv, Holders
    <3>2. IsFiniteSet(Holders(c))
      BY <3>1, HubAssumption, FS_Subset, Zenon
    <3>3. Holders(c) = {}
      BY <3>1, <3>2, FS_EmptySet, Zenon
    <3>4. QED
      BY <3>3, Zenon DEF Holders
  <2>3. QED
    BY <2>1, <2>2, Zenon DEF ChunksSafe
<1>2. QED
  BY <1>1, HubInvariant, PTL

\* What a writer receives is in order, for a lossless one without a gap, and
\* nothing comes after its Detach has returned.
THEOREM ArrivalCorrect == HubSpec => ChunksArrive
<1>1. HubInv /\ [HubNext]_hubVars => [DeliveredInOrder /\ DetachedIsQuiet]_hubVars
  <2> SUFFICES ASSUME HubInv, HubNext PROVE DeliveredInOrder /\ DetachedIsQuiet
    BY Zenon
  <2>0. /\ last \in [Writers -> Nat] /\ writes \in Nat /\ Lossless \cap Queued = {}
        /\ Writers = Lossless \cup Queued
    BY HubAssumption, Zenon DEF HubInv, HubTypeOK, Writers
  <2>1. CASE WriteLossless
    <3>0. PICK w \in Lossless : w = Head(todo)
      BY <2>1, Zenon DEF WriteLossless
    <3>1. CASE UNCHANGED last
      BY <3>1, Zenon DEF DeliveredInOrder, DetachedIsQuiet
    <3>2. CASE w \notin sinkClosed /\ last' = [last EXCEPT ![w] = writes]
      <4>1. last'[w] = writes /\ \A v \in Writers : v # w => last'[v] = last[v]
        BY <2>0, <3>2, Zenon
      <4>2. todo \in Seq(Writers) /\ todo # <<>>
        BY <2>1, Zenon DEF HubInv, HubTypeOK, WriteLossless
      <4>3. w \in Range(todo)
        BY <3>0, <4>2, TailRange
      <4>4. w \in joined
        BY <4>3, Zenon DEF HubInv, ListInv
      <4>5. /\ last[w] # 0 => writes = last[w] + 1
            /\ detachPc["call"][w] # "returned"
        BY <3>2, <4>3, Zenon DEF HubInv, LosslessInv
      <4>6. closePc # "returned"
        <5>1. Range(<<>>) = {}
          BY DEF Range
        <5>2. QED
          BY <3>2, <4>4, <5>1, Zenon DEF HubInv, LosslessInv, ListInv
      <4>7. QED
        BY <2>0, <4>1, <4>5, <4>6, Zenon DEF DeliveredInOrder, DetachedIsQuiet
    <3>3. QED
      BY <2>1, <3>0, <3>1, <3>2, Zenon DEF WriteLossless
  <2>2. ASSUME NEW w \in Queued, RunWrite(w) PROVE DeliveredInOrder /\ DetachedIsQuiet
    <3>1. CASE UNCHANGED last
      BY <3>1, Zenon DEF DeliveredInOrder, DetachedIsQuiet
    <3>2. CASE w \notin sinkClosed /\ last' = [last EXCEPT ![w] = data[current[w]]]
      <4>1. /\ last'[w] = data[current[w]] /\ \A v \in Writers : v # w => last'[v] = last[v]
            /\ runPc[w] = "write"
        BY <2>0, <2>2, <3>2, Zenon DEF RunWrite
      <4>2. last[w] < data[current[w]]
        BY <4>1, Zenon DEF HubInv, OrderInv, OrderOf
      <4>3. detachPc["call"][w] # "returned"
        BY <3>2, <4>1, Zenon DEF HubInv, QuietInv, Quiet
      <4>4. QED
        BY <2>0, <4>1, <4>2, <4>3, Zenon DEF DeliveredInOrder, DetachedIsQuiet
    <3>3. QED
      BY <2>2, <3>1, <3>2, Zenon DEF RunWrite
  <2>3. CASE \/ WriteBegin \/ EnqueueChunk \/ WriteEnd \/ CloseBegin \/ CloseStep
             \/ \E w \in Writers : Attach(w) \/ Detach(w) \/ DetachStep(w)
             \/ \E w \in Queued : RunReceive(w) \/ RunDrain(w)
    <3>1. UNCHANGED last
      BY <2>3, Zenon DEF WriteBegin, EnqueueChunk, WriteEnd, CloseBegin, CloseStep, CloseSinks,
          CloseSettle, Attach, Detach, DetachStep, DetachAwait, DetachRemove, DetachSettle,
          RunReceive, RunDrain
    <3>2. QED
      BY <3>1, Zenon DEF DeliveredInOrder, DetachedIsQuiet
  <2>4. QED
    BY <2>1, <2>2, <2>3, Zenon DEF HubNext, WriteStep, RunStep
<1>2. QED
  BY <1>1, HubInvariant, PTL DEF HubSpec, ChunksArrive

=============================================================================
