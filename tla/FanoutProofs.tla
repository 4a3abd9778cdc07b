---------------------------- MODULE FanoutProofs ----------------------------
(***************************************************************************)
(* Proofs about FanoutEngine, for any subscribers, packets and limits:     *)
(* calls, writers and the engine end together, and a section observer      *)
(* misses no section.                                                      *)
(***************************************************************************)
EXTENDS FanoutEngine, SequenceTheorems, WellFoundedInduction, TLAPS

(***************************************************************************)
(* The inductive invariant                                                 *)
(***************************************************************************)
FanoutTypeOK ==
    /\ count \in Nat /\ readErr \in {"nil", "failed"}
    /\ started \in BOOLEAN /\ engineStopped \in BOOLEAN /\ engineDone \in BOOLEAN
    /\ cancelled \in BOOLEAN /\ closeAsked \in BOOLEAN
    /\ subPc \in [Subs -> {"idle", "rejected", "attached", "await", "returned"}]
    /\ finished \subseteq Subs /\ subErr \in [Subs -> Errors]
    /\ subQueue \in [Subs -> Seq(Nat)] /\ ready \subseteq PacketSubs
    /\ writerPc \in [Subs -> {"none", "take", "sleep", "write", "end", "failed"}]
    /\ batch \in [Subs -> Seq(Nat)] /\ seen \in [Subs -> Nat]

\* A call, its writer and its queue: only a subscribed call has a writer and can
\* be finished, a call that left its select is finished, and the writer holds a
\* batch exactly while it writes.
CallOK(s) ==
    /\ subPc[s] \in {"idle", "rejected"} <=> writerPc[s] = "none"
    /\ writerPc[s] = "none" => s \notin finished /\ subQueue[s] = <<>>
    /\ subPc[s] \in {"await", "returned"} => s \in finished
    /\ writerPc[s] \in {"end", "failed"} => s \in finished
    /\ batch[s] # <<>> <=> writerPc[s] = "write"
    /\ writerPc[s] = "end" => subQueue[s] = <<>>
    /\ subErr[s] = "context" => subPc[s] \in {"await", "returned"}
    /\ subPc[s] = "returned" /\ subErr[s] \in {"nil", "context"} =>
           writerPc[s] \in {"end", "failed"}

CallInv == \A s \in Subs : CallOK(s)

\* An engine is stopped before it is done, and is done when nobody is left.
EngineInv == (engineDone => engineStopped) /\ ClosedEngineIsEmpty /\ EmptyEngineCloses

\* With n written last and c packets read: the batch b and the queue q behind it
\* hold later packets, in order.
Ordered(n, b, q, c) ==
    /\ n <= c
    /\ \A i \in 1 .. Len(b) : n < b[i] /\ b[i] <= c
    /\ \A i \in 1 .. Len(q) : n < q[i] /\ q[i] <= c
    /\ \A i, j \in 1 .. Len(q) : i < j => q[i] < q[j]
    /\ \A i \in 1 .. Len(b), j \in 1 .. Len(q) : b[i] < q[j]

OrderInv == \A s \in Subs : Ordered(seen[s], batch[s], subQueue[s], count)

\* A section packet is held or queued, or came after everything that an observer
\* whose call was finished still receives.
Pending(b, q, fin, p) ==
    \/ \E i \in 1 .. Len(b) : b[i] = p
    \/ \E i \in 1 .. Len(q) : q[i] = p
    \/ /\ fin
       /\ \A i \in 1 .. Len(b) : b[i] < p
       /\ \A i \in 1 .. Len(q) : q[i] < p

Covered(n, b, q, c, fin) ==
    \A p \in SectionPackets : n < p /\ p <= c => Pending(b, q, fin, p)

\* The writer of a section observer takes one section at a time, and no section
\* after the last one written is missing.
GapOK(s) ==
    /\ Len(batch[s]) <= 1
    /\ writerPc[s] \notin {"none", "failed"} =>
           Covered(seen[s], batch[s], subQueue[s], count, s \in finished)

GapInv == \A s \in SectionSubs : GapOK(s)

FanoutInv ==
    FanoutTypeOK /\ CallInv /\ EngineInv /\ WriterNotForgotten /\ OrderInv /\ GapInv

(***************************************************************************)
(* The queue operators                                                     *)
(***************************************************************************)
\* A non-empty set of naturals has a least element, which Min returns.
LEMMA MinNat ==
  ASSUME NEW S \in SUBSET Nat, S # {}
  PROVE  Min(S) \in S
<1>1. PICK m \in S : \A i \in S : ~ (<<i, m>> \in OpToRel(<, Nat))
  BY NatLessThanWellFounded, WFMin, Zenon
<1>2. \A i \in S : ~ (i < m)
  BY <1>1, Zenon DEF OpToRel
<1>3. \A i \in S : m <= i
  BY <1>2
<1>4. QED
  BY <1>3, Zenon DEF Min

\* A non-empty set of naturals up to n has a greatest element, which Max returns.
LEMMA MaxUpTo ==
  ASSUME NEW n \in Nat, NEW S \in SUBSET (1 .. n), S # {}
  PROVE  Max(S) \in S
<1> DEFINE R == {k \in Nat : \E i \in S : k = n - i}
<1>1. R # {} /\ R \in SUBSET Nat
  <2>1. PICK i \in S : TRUE
    BY Zenon
  <2>2. n - i \in Nat
    OBVIOUS
  <2>3. n - i \in R
    BY <2>2, Zenon
  <2>4. QED
    BY <2>3, Zenon
<1>2. PICK r \in R : \A i \in R : ~ (<<i, r>> \in OpToRel(<, Nat))
  BY <1>1, NatLessThanWellFounded, WFMin, Zenon
<1>3. \A i \in R : ~ (i < r)
  BY <1>1, <1>2, Zenon DEF OpToRel
<1>4. PICK m \in S : r = n - m
  BY Zenon
<1>5. \A i \in S : m >= i
  <2> SUFFICES ASSUME NEW i \in S
               PROVE  m >= i
    BY Zenon
  <2>1. n - i \in R
    OBVIOUS
  <2>2. QED
    BY <1>3, <1>4, <2>1, SMTT(30)
<1>6. QED
  BY <1>5, Zenon DEF Max

\* A suffix of a queue.
LEMMA SuffixOf ==
  ASSUME NEW q \in Seq(Nat), NEW k \in 0 .. Len(q)
  PROVE  /\ SubSeq(q, k + 1, Len(q)) \in Seq(Nat)
         /\ Len(SubSeq(q, k + 1, Len(q))) = Len(q) - k
         /\ \A i \in 1 .. Len(q) - k : SubSeq(q, k + 1, Len(q))[i] = q[k + i]
<1>1. /\ Len(q) \in Nat /\ k + 1 \in Int /\ \A i \in k + 1 .. Len(q) : q[i] \in Nat
      /\ \A i \in 1 .. Len(q) - k : i \in 1 .. Len(q) - (k + 1) + 1 /\ (k + 1) + i - 1 = k + i
  OBVIOUS
<1>2. /\ SubSeq(q, k + 1, Len(q)) \in Seq(Nat)
      /\ Len(SubSeq(q, k + 1, Len(q))) = IF k + 1 <= Len(q) THEN Len(q) - (k + 1) + 1 ELSE 0
      /\ \A i \in 1 .. Len(q) - (k + 1) + 1 : SubSeq(q, k + 1, Len(q))[i] = q[(k + 1) + i - 1]
  BY <1>1, SubSeqProperties, SMTT(30)
<1>3. QED
  BY <1>1, <1>2, SMTT(30)

\* A prefix of a queue.
LEMMA PrefixOf ==
  ASSUME NEW q \in Seq(Nat), NEW k \in 1 .. Len(q)
  PROVE  /\ SubSeq(q, 1, k) \in Seq(Nat) /\ Len(SubSeq(q, 1, k)) = k
         /\ \A i \in 1 .. k : SubSeq(q, 1, k)[i] = q[i]
<1>1. /\ k \in Nat /\ 1 \in Int /\ \A i \in 1 .. k : q[i] \in Nat
      /\ \A i \in 1 .. k : i \in 1 .. k - 1 + 1 /\ 1 + i - 1 = i
  OBVIOUS
<1>2. /\ SubSeq(q, 1, k) \in Seq(Nat)
      /\ Len(SubSeq(q, 1, k)) = IF 1 <= k THEN k - 1 + 1 ELSE 0
      /\ \A i \in 1 .. k - 1 + 1 : SubSeq(q, 1, k)[i] = q[1 + i - 1]
  BY <1>1, SubSeqProperties
<1>3. QED
  BY <1>1, <1>2, SMTT(30)

\* take gives at least one packet of a queue that has some.
LEMMA TakeSome ==
  ASSUME NEW q \in Seq(Nat), q # <<>>
  PROVE  TakeCount(q) \in 1 .. Len(q)
<1> DEFINE S == {k \in 1 .. Len(q) : k = 1 \/ Bytes(SubSeq(q, 1, k)) <= Batch}
<1>1. Len(q) \in Nat /\ 1 \in 1 .. Len(q)
  BY EmptySeq
<1>2. S \in SUBSET (1 .. Len(q)) /\ S # {}
  BY <1>1, Zenon
<1>3. Max(S) \in S
  BY <1>1, <1>2, MaxUpTo, ZenonT(60)
<1>4. QED
  BY <1>3, Zenon DEF TakeCount

\* One more packet is read and not queued.
LEMMA OrderedCount ==
  ASSUME NEW n \in Nat, NEW c \in Nat, NEW b \in Seq(Nat), NEW q \in Seq(Nat), Ordered(n, b, q, c)
  PROVE  Ordered(n, b, q, c + 1)
  BY SMTT(30) DEF Ordered

\* A packet is queued behind what the queue has kept of its end.
LEMMA OrderedAppend ==
  ASSUME NEW n \in Nat, NEW c \in Nat, NEW b \in Seq(Nat), NEW q \in Seq(Nat),
         Ordered(n, b, q, c), NEW k \in 0 .. Len(q)
  PROVE  LET r == Append(SubSeq(q, k + 1, Len(q)), c + 1)
         IN r \in Seq(Nat) /\ Ordered(n, b, r, c + 1)
<1> DEFINE t == SubSeq(q, k + 1, Len(q))
           r == Append(t, c + 1)
<1>1. t \in Seq(Nat) /\ Len(t) = Len(q) - k /\ \A i \in 1 .. Len(q) - k : t[i] = q[k + i]
  BY SuffixOf, Zenon
<1> HIDE DEF t
<1>2. /\ r \in Seq(Nat) /\ Len(r) = Len(t) + 1
      /\ \A i \in 1 .. Len(t) : r[i] = t[i]
      /\ r[Len(t) + 1] = c + 1
  BY <1>1, AppendProperties, SMTT(30)
<1> HIDE DEF r
<1>3. \A i \in 1 .. Len(t) : r[i] = q[k + i] /\ k + i \in 1 .. Len(q)
  BY <1>1, <1>2, SMTT(30)
<1>4. \A i \in 1 .. Len(r) : i \in 1 .. Len(t) \/ (i = Len(t) + 1 /\ r[i] = c + 1)
  BY <1>1, <1>2, SMTT(30)
<1>5. \A i \in 1 .. Len(t) : n < r[i] /\ r[i] <= c
  BY <1>3, Zenon DEF Ordered
<1>6. \A i, j \in 1 .. Len(t) : i < j => r[i] < r[j]
  <2> SUFFICES ASSUME NEW i \in 1 .. Len(t), NEW j \in 1 .. Len(t), i < j
               PROVE  r[i] < r[j]
    BY Zenon
  <2>1. k + i < k + j
    BY <1>1
  <2>2. QED
    BY <1>3, <2>1, Zenon DEF Ordered
<1>7. \A i \in 1 .. Len(b), j \in 1 .. Len(t) : b[i] < r[j]
  BY <1>3, Zenon DEF Ordered
<1>8. \A i \in 1 .. Len(r) : r[i] \in Nat
  BY <1>2
<1>9. n <= c /\ \A i \in 1 .. Len(b) : n < b[i] /\ b[i] <= c /\ b[i] \in Nat
  BY DEF Ordered
<1>10. \A i, j \in 1 .. Len(r) : i < j => r[i] < r[j]
  <2> SUFFICES ASSUME NEW i \in 1 .. Len(r), NEW j \in 1 .. Len(r), i < j
               PROVE  r[i] < r[j]
    BY Zenon
  <2>1. i \in 1 .. Len(t)
    BY <1>1, <1>2, SMTT(30)
  <2>2. QED
    BY <1>4, <1>5, <1>6, <1>8, <2>1, SMTT(30)
<1>11. \A i \in 1 .. Len(b), j \in 1 .. Len(r) : b[i] < r[j]
  BY <1>4, <1>7, <1>9, SMTT(30)
<1>12. \A i \in 1 .. Len(r) : n < r[i] /\ r[i] <= c + 1
  BY <1>4, <1>5, <1>8, <1>9, SMTT(30)
<1>13. Ordered(n, b, r, c + 1)
  BY <1>9, <1>10, <1>11, <1>12, SMTT(30) DEF Ordered
<1>14. QED
  BY <1>2, <1>13, Zenon DEF r, t

\* A section is queued behind all the others.
LEMMA OrderedAppendAll ==
  ASSUME NEW n \in Nat, NEW c \in Nat, NEW b \in Seq(Nat), NEW q \in Seq(Nat), Ordered(n, b, q, c)
  PROVE  Append(q, c + 1) \in Seq(Nat) /\ Ordered(n, b, Append(q, c + 1), c + 1)
<1>1. 0 \in 0 .. Len(q) /\ SubSeq(q, 0 + 1, Len(q)) = q
  OBVIOUS
<1>2. QED
  BY <1>1, OrderedAppend, Zenon

\* push keeps the order whatever it drops.
LEMMA OrderedPush ==
  ASSUME NEW n \in Nat, NEW c \in Nat, NEW b \in Seq(Nat), NEW q \in Seq(Nat), Ordered(n, b, q, c)
  PROVE  Push(q, c + 1) \in Seq(Nat) /\ Ordered(n, b, Push(q, c + 1), c + 1)
<1> DEFINE fits == {k \in 0 .. Len(q) :
                      Bytes(SubSeq(q, k + 1, Len(q))) + Size[c + 1] <= Limit}
<1>1. CASE fits = {}
  <2>1. Push(q, c + 1) = <<>>
    BY <1>1, Zenon DEF Push
  <2>2. <<>> \in Seq(Nat) /\ 1 .. Len(<<>>) = {}
    BY EmptySeq
  <2>3. n <= c + 1 /\ \A i \in 1 .. Len(b) : n < b[i] /\ b[i] <= c + 1
    BY OrderedCount, Zenon DEF Ordered
  <2>4. QED
    BY <2>1, <2>2, <2>3, Zenon DEF Ordered
<1>2. CASE fits # {}
  <2>1. fits \subseteq 0 .. Len(q) /\ 0 .. Len(q) \subseteq Nat
    OBVIOUS
  <2>2. Min(fits) \in 0 .. Len(q)
    BY <1>2, <2>1, MinNat, Zenon
  <2>3. Push(q, c + 1) = Append(SubSeq(q, Min(fits) + 1, Len(q)), c + 1)
    BY <1>2, Zenon DEF Push
  <2> HIDE DEF fits
  <2>4. QED
    BY <2>2, <2>3, OrderedAppend, Zenon
<1>3. QED
  BY <1>1, <1>2, Zenon

\* take splits a queue.
LEMMA OrderedTake ==
  ASSUME NEW n \in Nat, NEW c \in Nat, NEW q \in Seq(Nat), Ordered(n, <<>>, q, c),
         NEW k \in 1 .. Len(q)
  PROVE  LET b == SubSeq(q, 1, k)
             r == SubSeq(q, k + 1, Len(q))
         IN /\ b \in Seq(Nat) /\ Len(b) = k /\ b # <<>> /\ r \in Seq(Nat)
            /\ Ordered(n, b, r, c)
<1> DEFINE b == SubSeq(q, 1, k)
           r == SubSeq(q, k + 1, Len(q))
<1>1. b \in Seq(Nat) /\ Len(b) = k /\ \A i \in 1 .. k : b[i] = q[i]
  BY PrefixOf, Zenon
<1>2. r \in Seq(Nat) /\ Len(r) = Len(q) - k /\ \A i \in 1 .. Len(q) - k : r[i] = q[k + i]
  BY SuffixOf
<1>3. b # <<>>
  BY <1>1, EmptySeq, SMTT(30)
<1> HIDE DEF b, r
<1>4. /\ \A i \in 1 .. Len(b) : b[i] = q[i] /\ i \in 1 .. Len(q)
      /\ \A i \in 1 .. Len(r) : r[i] = q[k + i] /\ k + i \in 1 .. Len(q)
  <2>1. Len(q) \in Nat
    BY LenProperties, Zenon
  <2>2. /\ \A i \in 1 .. k : i \in 1 .. Len(q)
        /\ \A i \in 1 .. Len(q) - k : k + i \in 1 .. Len(q)
    BY <2>1
  <2>3. QED
    BY <1>1, <1>2, <2>2, Zenon
<1>5. /\ \A i \in 1 .. Len(b), j \in 1 .. Len(r) : i < k + j
      /\ \A i, j \in 1 .. Len(r) : i < j => k + i < k + j
  BY <1>1, <1>2
<1>6. Ordered(n, b, r, c)
  BY <1>4, <1>5, Zenon DEF Ordered
<1>7. QED
  BY <1>1, <1>2, <1>3, <1>6, ZenonT(60) DEF b, r

\* A written batch moves the last packet written forward.
LEMMA OrderedWrite ==
  ASSUME NEW n \in Nat, NEW c \in Nat, NEW b \in Seq(Nat), NEW q \in Seq(Nat),
         Ordered(n, b, q, c), b # <<>>
  PROVE  /\ Last(b) \in Nat /\ n < Last(b) /\ Last(b) = b[Len(b)] /\ Len(b) \in 1 .. Len(b)
         /\ Ordered(Last(b), <<>>, q, c)
<1>1. Len(b) \in 1 .. Len(b) /\ Last(b) = b[Len(b)] /\ b[Len(b)] \in Nat
  BY EmptySeq DEF Last
<1>2. n < Last(b) /\ Last(b) <= c /\ \A j \in 1 .. Len(q) : Last(b) < q[j]
  BY <1>1, Zenon DEF Ordered
<1>3. Len(<<>>) = 0
  BY EmptySeq, Zenon
<1>4. Ordered(Last(b), <<>>, q, c)
  BY <1>2, <1>3 DEF Ordered
<1>5. QED
  BY <1>1, <1>2, <1>4, Zenon

\* A batch whose write failed is forgotten.
LEMMA OrderedDrop ==
  ASSUME NEW n, NEW c, NEW b, NEW q, Ordered(n, b, q, c)
  PROVE  Ordered(n, <<>>, q, c)
<1>1. 1 .. Len(<<>>) = {}
  BY EmptySeq
<1>2. QED
  BY <1>1, Zenon DEF Ordered

\* A packet that completes no section, or one after the end of the observer's call.
LEMMA CoveredCount ==
  ASSUME NEW n \in Nat, NEW c \in Nat, NEW b \in Seq(Nat), NEW q \in Seq(Nat),
         Ordered(n, b, q, c), NEW f, Covered(n, b, q, c, f), c + 1 \notin SectionPackets \/ f
  PROVE  Covered(n, b, q, c + 1, f)
<1> SUFFICES ASSUME NEW p \in SectionPackets, n < p, p <= c + 1
             PROVE  Pending(b, q, f, p)
  BY Zenon DEF Covered
<1>1. p \in Nat
  BY FanoutAssumption
<1>2. CASE p = c + 1
  <2>1. f
    BY <1>2, Zenon
  <2>2. \A i \in 1 .. Len(b) : b[i] < p
    BY <1>2 DEF Ordered
  <2>3. \A i \in 1 .. Len(q) : q[i] < p
    BY <1>2 DEF Ordered
  <2>4. QED
    BY <2>1, <2>2, <2>3, Zenon DEF Pending
<1>3. CASE p # c + 1
  <2>1. p <= c
    BY <1>1, <1>3
  <2>2. QED
    BY <2>1, Zenon DEF Covered
<1>4. QED
  BY <1>2, <1>3, Zenon

\* A section is queued.
LEMMA CoveredAppend ==
  ASSUME NEW n \in Nat, NEW c \in Nat, NEW b \in Seq(Nat), NEW q \in Seq(Nat),
         NEW f, ~ f, Covered(n, b, q, c, f)
  PROVE  Covered(n, b, Append(q, c + 1), c + 1, f)
<1> DEFINE r == Append(q, c + 1)
<1>1. /\ Len(r) = Len(q) + 1 /\ r[Len(q) + 1] = c + 1
      /\ \A i \in 1 .. Len(q) : r[i] = q[i]
  BY AppendProperties
<1> HIDE DEF r
<1>2. Len(q) + 1 \in 1 .. Len(r) /\ \A i \in 1 .. Len(q) : i \in 1 .. Len(r)
  BY <1>1
<1>3. SUFFICES ASSUME NEW p \in SectionPackets, n < p, p <= c + 1
               PROVE  Pending(b, r, f, p)
  BY Zenon DEF Covered, r
<1>4. CASE p = c + 1
  BY <1>1, <1>2, <1>4, Zenon DEF Pending
<1>5. CASE p # c + 1
  <2>1. p <= c
    BY <1>3, <1>5, FanoutAssumption, SMTT(30)
  <2>2. (\E i \in 1 .. Len(b) : b[i] = p) \/ (\E i \in 1 .. Len(q) : q[i] = p)
    BY <1>3, <2>1, Zenon DEF Covered, Pending
  <2>3. QED
    BY <1>1, <1>2, <2>2, ZenonT(60) DEF Pending
<1>6. QED
  BY <1>4, <1>5, Zenon

\* The writer of an observer takes one section.
LEMMA CoveredTake ==
  ASSUME NEW n \in Nat, NEW c \in Nat, NEW q \in Seq(Nat), q # <<>>, NEW f,
         Covered(n, <<>>, q, c, f)
  PROVE  Covered(n, SubSeq(q, 1, 1), SubSeq(q, 1 + 1, Len(q)), c, f)
<1> DEFINE b == SubSeq(q, 1, 1)
           r == SubSeq(q, 1 + 1, Len(q))
<1>0. Len(q) \in Nat /\ 1 \in 1 .. Len(q) /\ 1 \in 0 .. Len(q)
  BY EmptySeq
<1>1. Len(b) = 1 /\ \A i \in 1 .. 1 : b[i] = q[i]
  BY <1>0, PrefixOf, Zenon
<1>2. Len(r) = Len(q) - 1 /\ \A i \in 1 .. Len(q) - 1 : r[i] = q[1 + i]
  BY <1>0, SuffixOf, ZenonT(60)
<1> HIDE DEF b, r
<1>3. 1 \in 1 .. Len(b) /\ b[1] = q[1] /\ \A i \in 1 .. Len(b) : i = 1
  BY <1>1
<1>4. \A i \in 1 .. Len(q) : i = 1 \/ (i - 1 \in 1 .. Len(r) /\ r[i - 1] = q[i])
  BY <1>0, <1>2, SMTT(30)
<1>5. \A i \in 1 .. Len(r) : r[i] = q[1 + i] /\ 1 + i \in 1 .. Len(q)
  BY <1>0, <1>2, SMTT(30)
<1>6. 1 .. Len(<<>>) = {}
  BY EmptySeq
<1>7. SUFFICES ASSUME NEW p \in SectionPackets, n < p, p <= c
               PROVE  Pending(b, r, f, p)
  BY Zenon DEF Covered, b, r
<1>8. \/ \E i \in 1 .. Len(q) : q[i] = p
      \/ f /\ \A i \in 1 .. Len(q) : q[i] < p
  BY <1>6, <1>7, Zenon DEF Covered, Pending
<1>9. CASE \E i \in 1 .. Len(q) : q[i] = p
  BY <1>3, <1>4, <1>9, ZenonT(60) DEF Pending
<1>10. CASE f /\ \A i \in 1 .. Len(q) : q[i] < p
  BY <1>0, <1>3, <1>5, <1>10, ZenonT(60) DEF Pending
<1>11. QED
  BY <1>8, <1>9, <1>10, ZenonT(60)

\* An observer's section is written: no section was passed over.
LEMMA CoveredWrite ==
  ASSUME NEW n \in Nat, NEW c \in Nat, NEW b \in Seq(Nat), NEW q \in Seq(Nat),
         Ordered(n, b, q, c), b # <<>>, Len(b) <= 1, NEW f, Covered(n, b, q, c, f)
  PROVE  /\ Covered(Last(b), <<>>, q, c, f)
         /\ (n + 1 .. Last(b) - 1) \cap SectionPackets = {}
<1> DEFINE l == Last(b)
<1>0. l \in Nat /\ n < l /\ l = b[Len(b)] /\ Len(b) \in 1 .. Len(b)
  BY OrderedWrite, Zenon
<1> HIDE DEF l
<1>1. Len(b) = 1 /\ l = b[1] /\ l \in Nat /\ n < l
  <2>1. \A k \in Nat : k \in 1 .. k /\ k <= 1 => k = 1
    OBVIOUS
  <2>2. Len(b) = 1
    BY <1>0, <2>1, LenProperties, ZenonT(60)
  <2>3. QED
    BY <1>0, <2>2, ZenonT(60)
<1>2. l <= c /\ \A j \in 1 .. Len(q) : l < q[j]
  BY <1>0, Zenon DEF Ordered
<1>3. 1 .. Len(b) = {1} /\ 1 .. Len(<<>>) = {}
  BY <1>1, EmptySeq, SMTT(30)
<1>4. ASSUME NEW p \in SectionPackets, n < p, p <= c
      PROVE  p = l \/ (\E i \in 1 .. Len(q) : q[i] = p)
                   \/ (f /\ l < p /\ \A i \in 1 .. Len(q) : q[i] < p)
  BY <1>1, <1>3, <1>4, ZenonT(60) DEF Covered, Pending
<1>5. Covered(l, <<>>, q, c, f)
  <2> SUFFICES ASSUME NEW p \in SectionPackets, l < p, p <= c
               PROVE  Pending(<<>>, q, f, p)
    BY Zenon DEF Covered
  <2>1. n < p /\ p # l
    BY <1>1, FanoutAssumption, SMTT(30)
  <2>2. QED
    BY <1>3, <1>4, <2>1, ZenonT(60) DEF Pending
<1>6. (n + 1 .. l - 1) \cap SectionPackets = {}
  <2> SUFFICES ASSUME NEW p \in SectionPackets, p \in n + 1 .. l - 1
               PROVE  FALSE
    BY Zenon
  <2>1. p \in Nat /\ n < p /\ p <= c /\ p < l
    BY <1>1, <1>2, FanoutAssumption, SMTT(30)
  <2>2. p # l /\ ~ (l < p)
    BY <1>1, <2>1, SMTT(30)
  <2>3. PICK i \in 1 .. Len(q) : q[i] = p
    BY <1>4, <2>1, <2>2, ZenonT(60)
  <2>4. QED
    BY <1>2, <2>2, <2>3, ZenonT(60)
<1>7. QED
  BY <1>5, <1>6, ZenonT(60) DEF l

(***************************************************************************)
(* The invariant is inductive                                              *)
(***************************************************************************)
\* Nobody has subscribed at the start.
LEMMA FanoutInitOK == FanoutInit => FanoutInv
<1> SUFFICES ASSUME FanoutInit PROVE FanoutInv
  BY Zenon
<1>0. <<>> \in Seq(Nat) /\ Len(<<>>) = 0 /\ 1 .. Len(<<>>) = {}
  BY EmptySeq
<1>1. FanoutTypeOK
  BY <1>0, Zenon DEF FanoutInit, FanoutTypeOK, Errors
<1>2. CallInv
  BY Zenon DEF FanoutInit, CallInv, CallOK
<1>3. EngineInv
  BY Zenon DEF FanoutInit, EngineInv, ClosedEngineIsEmpty, EmptyEngineCloses, Registered
<1>4. WriterNotForgotten
  BY Zenon DEF FanoutInit, WriterNotForgotten, Subs
<1>5. OrderInv
  BY <1>0 DEF FanoutInit, OrderInv, Ordered
<1>6. GapInv
  <2> SUFFICES ASSUME NEW s \in SectionSubs PROVE GapOK(s)
    BY Zenon DEF GapInv
  <2>1. s \in Subs
    BY Zenon DEF Subs
  <2>2. QED
    BY <1>0, <2>1, SMTT(30) DEF FanoutInit, GapOK
<1>7. QED
  BY <1>1, <1>2, <1>3, <1>4, <1>5, <1>6, SMTT(30) DEF FanoutInv

\* A step that moves no packet keeps what is ordered and covered.
LEMMA NoPacketMoves ==
  ASSUME OrderInv, GapInv, UNCHANGED <<count, subQueue, writerPc, batch, seen>>,
         finished \subseteq finished'
  PROVE  OrderInv' /\ GapInv'
<1>1. OrderInv'
  BY Zenon DEF OrderInv
<1>2. ASSUME NEW s \in SectionSubs PROVE GapOK(s)'
  <2>1. s \in finished => s \in finished'
    BY Zenon
  <2>2. GapOK(s)
    BY Zenon DEF GapInv
  <2>3. writerPc[s] \notin {"none", "failed"} =>
            Covered(seen[s], batch[s], subQueue[s], count, s \in finished')
    BY <2>1, <2>2, Zenon DEF GapOK, Covered, Pending
  <2>4. QED
    BY <2>2, <2>3, Zenon DEF GapOK
<1>3. QED
  BY <1>1, <1>2, ZenonT(60) DEF GapInv

\* finishPacketLocked, finishSectionLocked and cancelIfEmptyLocked: who is
\* finished, with which error, and that an engine left by everyone is closed.
LEMMA FinishEffect ==
  ASSUME FanoutTypeOK, EngineInv, NEW errs, FinishSubs(errs), DOMAIN errs \subseteq Registered,
         \A s \in DOMAIN errs : errs[s] \in Errors, started' \in BOOLEAN,
         UNCHANGED <<engineDone>>,
         \A s \in Subs : subPc'[s] \in {"idle", "rejected"} <=> subPc[s] \in {"idle", "rejected"}
  PROVE  /\ finished' = finished \cup DOMAIN errs /\ finished' \subseteq Subs
         /\ subErr' \in [Subs -> Errors]
         /\ \A s \in Subs : subErr'[s] = IF s \in DOMAIN errs THEN errs[s] ELSE subErr[s]
         /\ engineStopped' \in BOOLEAN /\ cancelled' \in BOOLEAN /\ closeAsked' \in BOOLEAN
         /\ EngineInv'
<1>1. finished' = finished \cup DOMAIN errs
  BY Zenon DEF FinishSubs
<1>2. finished' \subseteq Subs
  BY <1>1, Zenon DEF FanoutTypeOK, Registered
<1>3. subErr' = [s \in Subs |-> IF s \in DOMAIN errs THEN errs[s] ELSE subErr[s]]
  BY Zenon DEF FinishSubs
<1>4. subErr' \in [Subs -> Errors]
  BY <1>3, Zenon DEF FanoutTypeOK
<1>5. engineStopped' \in BOOLEAN /\ cancelled' \in BOOLEAN /\ closeAsked' \in BOOLEAN
  BY Zenon DEF FinishSubs, FanoutTypeOK
<1>6. Registered' = Registered \ DOMAIN errs
  BY <1>1, Zenon DEF Registered
<1>7. engineStopped => engineStopped'
  BY Zenon DEF FinishSubs
<1>8. EmptyEngineCloses'
  <2> SUFFICES ASSUME Registered' = {}, finished' # {}
               PROVE  engineStopped' /\ (cancelled' \/ closeAsked' \/ engineDone')
    BY Zenon DEF EmptyEngineCloses
  <2>1. CASE DOMAIN errs = {}
    <3>1. Registered = {} /\ finished # {}
      BY <1>1, <1>6, <2>1, ZenonT(60)
    <3>2. UNCHANGED <<engineStopped, cancelled, closeAsked>>
      BY <2>1, Zenon DEF FinishSubs
    <3>3. QED
      BY <3>1, <3>2, ZenonT(60) DEF EngineInv, EmptyEngineCloses
  <2>2. CASE DOMAIN errs # {}
    <3>1. Registered \subseteq DOMAIN errs
      BY <1>6, Zenon
    <3>2. QED
      BY <2>2, <3>1, ZenonT(60) DEF FinishSubs
  <2>3. QED
    BY <2>1, <2>2, ZenonT(60)
<1>9. EngineInv'
  <2>1. (engineDone' => engineStopped') /\ (engineDone' => Registered' = {})
    BY <1>6, <1>7, ZenonT(60) DEF EngineInv, ClosedEngineIsEmpty
  <2>2. QED
    BY <1>8, <2>1, ZenonT(60) DEF EngineInv, ClosedEngineIsEmpty
<1>10. QED
  BY <1>1, <1>2, <1>3, <1>4, <1>5, <1>9, ZenonT(60)

\* The same for one subscriber.
LEMMA FinishOneEffect ==
  ASSUME FanoutTypeOK, EngineInv, NEW x \in Subs, NEW e \in Errors, FinishOne(x, e),
         UNCHANGED <<started, engineDone>>,
         \A s \in Subs : subPc'[s] \in {"idle", "rejected"} <=> subPc[s] \in {"idle", "rejected"}
  PROVE  /\ finished' = finished \cup ({x} \cap Registered) /\ finished' \subseteq Subs
         /\ subErr' \in [Subs -> Errors]
         /\ \A s \in Subs : subErr'[s] = IF s \in {x} \cap Registered THEN e ELSE subErr[s]
         /\ engineStopped' \in BOOLEAN /\ cancelled' \in BOOLEAN /\ closeAsked' \in BOOLEAN
         /\ EngineInv'
<1> DEFINE errs == [t \in {x} \cap Registered |-> e]
<1>1. DOMAIN errs = {x} \cap Registered /\ \A t \in DOMAIN errs : errs[t] = e
  BY Zenon
<1>2. FinishSubs(errs)
  BY Zenon DEF FinishOne
<1>3. started' \in BOOLEAN
  BY Zenon DEF FanoutTypeOK
<1> HIDE DEF errs
<1>4. DOMAIN errs \subseteq Registered /\ \A t \in DOMAIN errs : errs[t] \in Errors
  BY <1>1, Zenon
<1>5. /\ finished' = finished \cup DOMAIN errs /\ finished' \subseteq Subs
      /\ subErr' \in [Subs -> Errors]
      /\ \A s \in Subs : subErr'[s] = IF s \in DOMAIN errs THEN errs[s] ELSE subErr[s]
      /\ engineStopped' \in BOOLEAN /\ cancelled' \in BOOLEAN /\ closeAsked' \in BOOLEAN
      /\ EngineInv'
  BY <1>2, <1>3, <1>4, FinishEffect, ZenonT(60)
<1>6. \A s \in Subs : subErr'[s] = IF s \in {x} \cap Registered THEN e ELSE subErr[s]
  BY <1>1, <1>5, ZenonT(60)
<1>7. QED
  BY <1>1, <1>5, <1>6, ZenonT(60)

\* A call subscribes, or is rejected by a stopped engine.
LEMMA SubscribeStep ==
  ASSUME FanoutInv, NEW s \in Subs, Subscribe(s)
  PROVE  FanoutInv'
<1>0. FanoutTypeOK /\ CallInv /\ EngineInv /\ WriterNotForgotten /\ OrderInv /\ GapInv
  BY Zenon DEF FanoutInv
<1>1. /\ subPc[s] = "idle"
      /\ UNCHANGED <<engineStopped, cancelled, closeAsked, engineDone, readErr, count,
                     finished, subErr, subQueue, ready, batch>>
  BY Zenon DEF Subscribe, endVars, queueVars
<1>2. writerPc[s] = "none" /\ s \notin finished /\ subQueue[s] = <<>> /\ batch[s] = <<>>
  BY <1>0, <1>1, ZenonT(60) DEF CallInv, CallOK
<1>3. CASE engineStopped
  <2>1. subPc' = [subPc EXCEPT ![s] = "rejected"] /\ UNCHANGED <<started, writerPc, seen>>
    BY <1>3, Zenon DEF Subscribe
  <2>2. FanoutTypeOK'
    BY <1>0, <1>1, <2>1, ZenonT(60) DEF FanoutTypeOK
  <2>3. CallInv'
    <3> SUFFICES ASSUME NEW x \in Subs PROVE CallOK(x)'
      BY Zenon DEF CallInv
    <3>1. CallOK(x)
      BY <1>0, ZenonT(60) DEF CallInv
    <3>2. CASE x = s
      BY <1>0, <1>1, <1>2, <2>1, <3>1, <3>2, SMTT(30) DEF FanoutTypeOK, CallOK
    <3>3. CASE x # s
      BY <1>0, <1>1, <2>1, <3>1, <3>3, SMTT(30) DEF FanoutTypeOK, CallOK
    <3>4. QED
      BY <3>2, <3>3, ZenonT(60)
  <2>4. Registered' = Registered
    BY <1>0, <1>1, <2>1, ZenonT(60) DEF Registered, FanoutTypeOK
  <2>5. EngineInv'
    BY <1>0, <1>1, <2>4, ZenonT(60) DEF EngineInv, ClosedEngineIsEmpty, EmptyEngineCloses
  <2>6. WriterNotForgotten'
    BY <1>0, <1>1, <2>1, ZenonT(60) DEF WriterNotForgotten
  <2>7. OrderInv' /\ GapInv'
    BY <1>0, <1>1, <2>1, NoPacketMoves, ZenonT(60)
  <2>8. QED
    BY <2>2, <2>3, <2>5, <2>6, <2>7, ZenonT(60) DEF FanoutInv
<1>4. CASE ~ engineStopped
  <2>1. /\ subPc' = [subPc EXCEPT ![s] = "attached"]
        /\ writerPc' = [writerPc EXCEPT ![s] = "take"]
        /\ seen' = [seen EXCEPT ![s] = count]
        /\ started' = started \/ started' = TRUE
    BY <1>4, Zenon DEF Subscribe
  <2>2. FanoutTypeOK'
    <3>1. started' \in BOOLEAN
      BY <1>0, <2>1, Zenon DEF FanoutTypeOK
    <3>2. /\ subPc' \in [Subs -> {"idle", "rejected", "attached", "await", "returned"}]
          /\ writerPc' \in [Subs -> {"none", "take", "sleep", "write", "end", "failed"}]
      BY <1>0, <2>1, ZenonT(60) DEF FanoutTypeOK
    <3>3. seen' \in [Subs -> Nat]
      BY <1>0, <2>1, ZenonT(60) DEF FanoutTypeOK
    <3>4. QED
      BY <1>0, <1>1, <3>1, <3>2, <3>3, ZenonT(60) DEF FanoutTypeOK
  <2>3. CallInv'
    <3> SUFFICES ASSUME NEW x \in Subs PROVE CallOK(x)'
      BY Zenon DEF CallInv
    <3>1. CallOK(x)
      BY <1>0, Zenon DEF CallInv
    <3>2. CASE x = s
      BY <1>0, <1>1, <1>2, <2>1, <3>1, <3>2, SMTT(30) DEF FanoutTypeOK, CallOK
    <3>3. CASE x # s
      BY <1>0, <1>1, <2>1, <3>1, <3>3, SMTT(30) DEF FanoutTypeOK, CallOK
    <3>4. QED
      BY <3>2, <3>3, Zenon
  <2>4. s \in Registered'
    BY <1>0, <1>1, <1>2, <2>1, ZenonT(60) DEF Registered, FanoutTypeOK
  <2>5. ~ engineDone
    BY <1>0, <1>4, ZenonT(60) DEF EngineInv
  <2>6. EngineInv'
    BY <1>1, <2>4, <2>5, ZenonT(60) DEF EngineInv, ClosedEngineIsEmpty, EmptyEngineCloses
  <2>7. WriterNotForgotten'
    BY <1>0, <1>1, <2>1, ZenonT(60) DEF WriterNotForgotten, FanoutTypeOK, Subs
  <2>8. 1 .. Len(<<>>) = {} /\ Len(<<>>) = 0
    BY EmptySeq, SMTT(30)
  <2>9. OrderInv'
    <3> SUFFICES ASSUME NEW x \in Subs PROVE Ordered(seen'[x], batch'[x], subQueue'[x], count')
      BY Zenon DEF OrderInv
    <3>1. CASE x = s
      <4>1. seen'[x] = count /\ count <= count /\ count' = count
        BY <1>0, <1>1, <2>1, <3>1, SMTT(30) DEF FanoutTypeOK
      <4>2. batch'[x] = <<>> /\ subQueue'[x] = <<>>
        BY <1>1, <1>2, <3>1, ZenonT(60)
      <4>3. QED
        BY <2>8, <4>1, <4>2, ZenonT(60) DEF Ordered
    <3>2. CASE x # s
      BY <1>0, <1>1, <2>1, <3>2, ZenonT(60) DEF OrderInv, FanoutTypeOK
    <3>3. QED
      BY <3>1, <3>2, ZenonT(60)
  <2>10. GapInv'
    <3> SUFFICES ASSUME NEW x \in SectionSubs PROVE GapOK(x)'
      BY Zenon DEF GapInv
    <3>0. x \in Subs
      BY Zenon DEF Subs
    <3>1. CASE x = s
      <4>1. seen'[x] = count /\ count' = count /\ \A p \in SectionPackets : ~ (count < p /\
              p <= count)
        BY <1>0, <1>1, <2>1, <3>1, FanoutAssumption, SMTT(30) DEF FanoutTypeOK
      <4>2. Len(batch'[x]) <= 1
        BY <1>1, <1>2, <2>8, <3>1, SMTT(30)
      <4>3. QED
        BY <4>1, <4>2, ZenonT(60) DEF GapOK, Covered
    <3>2. CASE x # s
      <4>1. seen'[x] = seen[x] /\ writerPc'[x] = writerPc[x]
        BY <1>0, <2>1, <3>0, <3>2, ZenonT(60) DEF FanoutTypeOK
      <4>2. QED
        BY <1>0, <1>1, <4>1, ZenonT(60) DEF GapInv, GapOK
    <3>3. QED
      BY <3>1, <3>2, ZenonT(60)
  <2>11. QED
    BY <2>2, <2>3, <2>6, <2>7, <2>9, <2>10, SMTT(30) DEF FanoutInv
<1>5. QED
  BY <1>3, <1>4, ZenonT(60)

\* A subscriber's context ends.
LEMMA ReturnOnContextStep ==
  ASSUME FanoutInv, NEW s \in Subs, ReturnOnContext(s)
  PROVE  FanoutInv'
<1>0. FanoutTypeOK /\ CallInv /\ EngineInv /\ WriterNotForgotten /\ OrderInv /\ GapInv
  BY Zenon DEF FanoutInv
<1>1. /\ subPc[s] = "attached" /\ FinishOne(s, "context")
      /\ ready' = ready \cup ({s} \cap Registered \cap PacketSubs)
      /\ subPc' = [subPc EXCEPT ![s] = "await"]
      /\ UNCHANGED <<started, engineDone, count, readErr, subQueue, writerPc, batch, seen>>
  BY Zenon DEF ReturnOnContext, sourceVars, writerVars
<1>2. \A x \in Subs : subPc'[x] \in {"idle", "rejected"} <=> subPc[x] \in {"idle", "rejected"}
  BY <1>0, <1>1, ZenonT(60) DEF FanoutTypeOK
<1>3. "context" \in Errors
  BY Zenon DEF Errors
<1>4. /\ finished' = finished \cup ({s} \cap Registered) /\ finished' \subseteq Subs
      /\ subErr' \in [Subs -> Errors]
      /\ \A x \in Subs : subErr'[x] = IF x \in {s} \cap Registered THEN "context" ELSE subErr[x]
      /\ engineStopped' \in BOOLEAN /\ cancelled' \in BOOLEAN /\ closeAsked' \in BOOLEAN
      /\ EngineInv'
  BY <1>0, <1>1, <1>2, <1>3, FinishOneEffect, ZenonT(60)
<1>5. FanoutTypeOK'
  BY <1>0, <1>1, <1>4, ZenonT(60) DEF FanoutTypeOK
<1>6. s \in finished' /\ (s \notin finished <=> s \in Registered)
  BY <1>1, <1>4, ZenonT(60) DEF Registered
<1>7. CallInv'
  <2> SUFFICES ASSUME NEW x \in Subs PROVE CallOK(x)'
    BY Zenon DEF CallInv
  <2>1. CallOK(x)
    BY <1>0, Zenon DEF CallInv
  <2>2. CASE x = s
    <3>1. subPc'[s] = "await"
      BY <1>0, <1>1, ZenonT(60) DEF FanoutTypeOK
    <3>2. QED
      BY <1>1, <1>6, <2>1, <2>2, <3>1, ZenonT(60) DEF CallOK
  <2>3. CASE x # s
    <3>1. subPc'[x] = subPc[x] /\ subErr'[x] = subErr[x] /\ (x \in finished' <=> x \in finished)
      BY <1>0, <1>1, <1>4, <2>3, ZenonT(60) DEF FanoutTypeOK
    <3>2. QED
      BY <1>1, <2>1, <3>1, ZenonT(60) DEF CallOK
  <2>4. QED
    BY <2>2, <2>3, Zenon
<1>8. WriterNotForgotten'
  BY <1>0, <1>1, <1>4, <1>6, ZenonT(60) DEF WriterNotForgotten
<1>9. OrderInv' /\ GapInv'
  BY <1>0, <1>1, <1>4, NoPacketMoves, ZenonT(60)
<1>10. QED
  BY <1>4, <1>5, <1>7, <1>8, <1>9, ZenonT(60) DEF FanoutInv

\* The other branches of the select, and the return.
LEMMA CallStepOK ==
  ASSUME FanoutInv, NEW s \in Subs, CallStep(s)
  PROVE  FanoutInv'
<1>0. FanoutTypeOK /\ CallInv /\ EngineInv /\ WriterNotForgotten /\ OrderInv /\ GapInv
  BY Zenon DEF FanoutInv
<1>1. UNCHANGED <<started, engineStopped, cancelled, closeAsked, engineDone, readErr, count,
                  finished, subErr, subQueue, ready, writerPc, batch, seen>>
  BY Zenon DEF CallStep, ReturnOnDone, ReturnOnEngineDone, AwaitWriter, engineVars, sourceVars,
         endVars, queueVars, writerVars
<1>2. PICK v \in {"await", "returned"} :
          /\ subPc' = [subPc EXCEPT ![s] = v] /\ s \in finished
          /\ subPc[s] \in {"attached", "await"}
          /\ v = "returned" => \/ writerPc[s] \in {"end", "failed"}
                               \/ subPc[s] = "attached" /\ subErr[s] # "nil"
  <2>1. CASE ReturnOnDone(s)
    BY <2>1, Zenon DEF ReturnOnDone
  <2>2. CASE ReturnOnEngineDone(s)
    <3>1. subPc[s] = "attached" /\ Registered = {}
      BY <1>0, <2>2, Zenon DEF ReturnOnEngineDone, EngineInv, ClosedEngineIsEmpty
    <3>2. s \in finished
      BY <3>1, Zenon DEF Registered
    <3>3. QED
      BY <2>2, <3>1, <3>2, ZenonT(60) DEF ReturnOnEngineDone
  <2>3. CASE AwaitWriter(s)
    BY <1>0, <2>3, ZenonT(60) DEF AwaitWriter, CallInv, CallOK
  <2>4. QED
    BY <2>1, <2>2, <2>3, ZenonT(60) DEF CallStep
<1>3. FanoutTypeOK'
  BY <1>0, <1>1, <1>2, ZenonT(60) DEF FanoutTypeOK
<1>4. CallInv'
  <2> SUFFICES ASSUME NEW x \in Subs PROVE CallOK(x)'
    BY Zenon DEF CallInv
  <2>1. CallOK(x)
    BY <1>0, Zenon DEF CallInv
  <2>2. CASE x = s
    <3>1. subPc'[s] = v
      BY <1>0, <1>2, ZenonT(60) DEF FanoutTypeOK
    <3>2. QED
      BY <1>1, <1>2, <2>1, <2>2, <3>1, ZenonT(60) DEF CallOK
  <2>3. CASE x # s
    <3>1. subPc'[x] = subPc[x]
      BY <1>0, <1>2, <2>3, ZenonT(60) DEF FanoutTypeOK
    <3>2. QED
      BY <1>1, <2>1, <3>1, ZenonT(60) DEF CallOK
  <2>4. QED
    BY <2>2, <2>3, ZenonT(60)
<1>5. Registered' = Registered
  BY <1>0, <1>1, <1>2, ZenonT(60) DEF Registered, FanoutTypeOK
<1>6. EngineInv'
  BY <1>0, <1>1, <1>5, ZenonT(60) DEF EngineInv, ClosedEngineIsEmpty, EmptyEngineCloses
<1>7. WriterNotForgotten'
  BY <1>0, <1>1, ZenonT(60) DEF WriterNotForgotten
<1>8. OrderInv' /\ GapInv'
  BY <1>0, <1>1, NoPacketMoves, ZenonT(60)
<1>9. QED
  BY <1>3, <1>4, <1>6, <1>7, <1>8, ZenonT(60) DEF FanoutInv

\* Steps of run, of the source and of Stop that touch no subscriber.
LEMMA EngineStep ==
  ASSUME FanoutInv, ReadFails \/ (\E err \in {"nil", "failed"} : SourceReturns(err))
                      \/ EngineStop \/ EngineStopReturns
  PROVE  FanoutInv'
<1>0. FanoutTypeOK /\ CallInv /\ EngineInv /\ WriterNotForgotten /\ OrderInv /\ GapInv
  BY Zenon DEF FanoutInv
<1>1. UNCHANGED <<started, engineDone, count, subPc, finished, subErr, subQueue, ready,
                  writerPc, batch, seen>>
  BY Zenon DEF ReadFails, SourceReturns, EngineStop, EngineStopReturns, engineVars, sourceVars,
         endVars, queueVars, writerVars
<1>2. readErr' \in {"nil", "failed"}
  BY <1>0, Zenon DEF FanoutTypeOK, ReadFails, SourceReturns, EngineStop, EngineStopReturns,
      sourceVars
<1>3. /\ engineStopped => engineStopped'
      /\ cancelled => cancelled'
      /\ closeAsked => closeAsked'
      /\ engineStopped' \in BOOLEAN /\ cancelled' \in BOOLEAN /\ closeAsked' \in BOOLEAN
  BY <1>0, Zenon DEF FanoutTypeOK, ReadFails, SourceReturns, EngineStop, EngineStopReturns,
      engineVars
<1>4. FanoutTypeOK'
  BY <1>0, <1>1, <1>2, <1>3, ZenonT(60) DEF FanoutTypeOK
<1>5. CallInv'
  BY <1>0, <1>1, ZenonT(60) DEF CallInv, CallOK
<1>6. Registered' = Registered
  BY <1>1, Zenon DEF Registered
<1>7. EngineInv'
  BY <1>0, <1>1, <1>3, <1>6, ZenonT(60) DEF EngineInv, ClosedEngineIsEmpty, EmptyEngineCloses
<1>8. WriterNotForgotten'
  BY <1>0, <1>1, ZenonT(60) DEF WriterNotForgotten
<1>9. OrderInv' /\ GapInv'
  BY <1>0, <1>1, NoPacketMoves, ZenonT(60)
<1>10. QED
  BY <1>4, <1>5, <1>7, <1>8, <1>9, ZenonT(60) DEF FanoutInv

\* close finishes everybody.
LEMMA EngineCloseStep ==
  ASSUME FanoutInv, EngineClose
  PROVE  FanoutInv'
<1>0. FanoutTypeOK /\ CallInv /\ EngineInv /\ WriterNotForgotten /\ OrderInv /\ GapInv
  BY Zenon DEF FanoutInv
<1>1. /\ UNCHANGED <<started, closeAsked, count, subPc, subQueue, writerPc, batch, seen>>
      /\ finished' = finished \cup Registered
      /\ subErr' = [s \in Subs |-> IF s \in Registered THEN readErr' ELSE subErr[s]]
      /\ ready' = ready \cup (Registered \cap PacketSubs)
      /\ engineStopped' = TRUE /\ engineDone' = TRUE
  BY Zenon DEF EngineClose, writerVars
<1>2. readErr' \in {"nil", "failed"}
  BY <1>0, Zenon DEF EngineClose, FinalErr, FanoutTypeOK
<1>3. cancelled' \in BOOLEAN
  BY <1>0, Zenon DEF EngineClose, FanoutTypeOK
<1>4. Registered \subseteq Subs
  BY Zenon DEF Registered
<1>5. FanoutTypeOK'
  BY <1>0, <1>1, <1>2, <1>3, <1>4, ZenonT(60) DEF FanoutTypeOK, Errors
<1>6. CallInv'
  <2> SUFFICES ASSUME NEW x \in Subs PROVE CallOK(x)'
    BY Zenon DEF CallInv
  <2>1. CallOK(x)
    BY <1>0, Zenon DEF CallInv
  <2>2. CASE x \in Registered
    <3>1. subErr'[x] # "context" /\ x \in finished'
      BY <1>1, <1>2, <2>2, ZenonT(60)
    <3>2. subPc[x] = "attached"
      BY <1>0, <2>1, <2>2, ZenonT(60) DEF Registered, CallOK, FanoutTypeOK
    <3>3. QED
      BY <1>1, <2>1, <3>1, <3>2, ZenonT(60) DEF CallOK
  <2>3. CASE x \notin Registered
    <3>1. subErr'[x] = subErr[x] /\ (x \in finished' <=> x \in finished)
      BY <1>1, <2>3, Zenon
    <3>2. QED
      BY <1>1, <2>1, <3>1, ZenonT(60) DEF CallOK
  <2>4. QED
    BY <2>2, <2>3, Zenon
<1>7. Registered' = {}
  BY <1>1, Zenon DEF Registered
<1>8. EngineInv'
  BY <1>1, <1>7, Zenon DEF EngineInv, ClosedEngineIsEmpty, EmptyEngineCloses
<1>9. WriterNotForgotten'
  BY <1>0, <1>1, ZenonT(60) DEF WriterNotForgotten
<1>10. OrderInv' /\ GapInv'
  BY <1>0, <1>1, NoPacketMoves, ZenonT(60)
<1>11. QED
  BY <1>5, <1>6, <1>8, <1>9, <1>10, ZenonT(60) DEF FanoutInv

\* One packet reaches every subscriber.
LEMMA ReadPacketStep ==
  ASSUME FanoutInv, ReadPacket
  PROVE  FanoutInv'
<1>0. FanoutTypeOK /\ CallInv /\ EngineInv /\ WriterNotForgotten /\ OrderInv /\ GapInv
  BY Zenon DEF FanoutInv
<1>1. PICK skipped \in SUBSET (Registered \cap Filtered),
           missing \in SUBSET (Registered \cap Filtered) : DispatchLocked(skipped, missing)
  BY Zenon DEF ReadPacket
<1>2. /\ count' = count + 1
      /\ UNCHANGED <<started, engineDone, readErr, subPc, writerPc, batch, seen>>
  BY Zenon DEF ReadPacket
<1> DEFINE p == count + 1
           packets == (Registered \cap PacketSubs) \ (skipped \cup missing)
           sections == IF p \in SectionPackets THEN Registered \cap SectionSubs ELSE {}
           full == {s \in sections : Len(subQueue[s]) = SectionBuffer}
           errs == [s \in missing \cup full |-> "failed"]
<1>3. /\ subQueue' = [s \in Subs |-> CASE s \in packets -> Push(subQueue[s], p)
                                       [] s \in sections \ full -> Append(subQueue[s], p)
                                       [] OTHER -> subQueue[s]]
      /\ ready' = ready \cup missing \cup {s \in packets : subQueue'[s] # <<>>}
      /\ FinishSubs(errs)
  BY <1>1, Zenon DEF DispatchLocked
<1>4. /\ DOMAIN errs = missing \cup full
      /\ \A s \in DOMAIN errs : errs[s] = "failed"
  BY Zenon
<1>5. /\ missing \subseteq Registered \cap PacketSubs /\
          packets \subseteq Registered \cap PacketSubs
      /\ missing \cap packets = {} /\ full \subseteq sections
      /\ sections \subseteq Registered \cap SectionSubs
      /\ packets \cap sections = {} /\ missing \cap sections = {}
  BY <1>1, FanoutAssumption, ZenonT(60)
<1>6. p \in SectionPackets => sections = Registered \cap SectionSubs
  BY Zenon
<1>7. \A s \in Registered \cap PacketSubs : s \notin packets => s \in missing \cup skipped
  BY Zenon
<1> HIDE DEF packets, sections, full, errs
<1>8. started' \in BOOLEAN /\ DOMAIN errs \subseteq Registered
        /\ \A s \in DOMAIN errs : errs[s] \in Errors
  BY <1>0, <1>2, <1>4, <1>5, ZenonT(60) DEF FanoutTypeOK, Errors
<1>9. /\ finished' = finished \cup DOMAIN errs /\ finished' \subseteq Subs
      /\ subErr' \in [Subs -> Errors]
      /\ \A s \in Subs : subErr'[s] = IF s \in DOMAIN errs THEN errs[s] ELSE subErr[s]
      /\ engineStopped' \in BOOLEAN /\ cancelled' \in BOOLEAN /\ closeAsked' \in BOOLEAN
      /\ EngineInv'
  <2>1. \A s \in Subs : subPc'[s] \in {"idle", "rejected"} <=> subPc[s] \in {"idle", "rejected"}
    BY <1>2, Zenon
  <2>2. UNCHANGED <<engineDone>>
    BY <1>2, Zenon
  <2>3. QED
    BY <1>0, <1>3, <1>8, <2>1, <2>2, FinishEffect, ZenonT(60)
<1>10. Registered \subseteq Subs /\ Registered \cap finished = {}
  BY Zenon DEF Registered
<1>11. \A s \in Subs : /\ s \in packets => subQueue'[s] = Push(subQueue[s], p)
                       /\ s \in sections \ full => subQueue'[s] = Append(subQueue[s], p)
                       /\ s \notin packets \cup (sections \ full) => subQueue'[s] = subQueue[s]
  BY <1>3, <1>5, ZenonT(60)
<1>12. \A s \in Subs : s \notin Registered => subQueue'[s] = subQueue[s]
  BY <1>5, <1>11, ZenonT(60)
<1>13. p \in Nat
  BY <1>0, SMTT(30) DEF FanoutTypeOK
<1>14. \A s \in Subs : /\ seen[s] \in Nat /\ count \in Nat
                       /\ batch[s] \in Seq(Nat) /\ subQueue[s] \in Seq(Nat)
                       /\ Ordered(seen[s], batch[s], subQueue[s], count)
  BY <1>0, Zenon DEF FanoutTypeOK, OrderInv
<1>15. \A s \in Subs : subQueue'[s] \in Seq(Nat) /\ Ordered(seen[s], batch[s], subQueue'[s], p)
  <2> SUFFICES ASSUME NEW s \in Subs
               PROVE  subQueue'[s] \in Seq(Nat) /\ Ordered(seen[s], batch[s], subQueue'[s], p)
    BY Zenon
  <2>1. CASE s \in packets
    <3>1. Push(subQueue[s], p) \in Seq(Nat) /\ Ordered(seen[s], batch[s], Push(subQueue[s], p), p)
      BY <1>14, OrderedPush, ZenonT(60)
    <3>2. QED
      BY <1>11, <2>1, <3>1, ZenonT(60)
  <2>2. CASE s \in sections \ full
    <3>1. Append(subQueue[s], p) \in Seq(Nat) /\
            Ordered(seen[s], batch[s], Append(subQueue[s], p), p)
      BY <1>14, OrderedAppendAll, ZenonT(60)
    <3>2. QED
      BY <1>11, <2>2, <3>1, ZenonT(60)
  <2>3. CASE s \notin packets \cup (sections \ full)
    BY <1>11, <1>14, <2>3, OrderedCount, ZenonT(60)
  <2>4. QED
    BY <2>1, <2>2, <2>3, ZenonT(60)
<1>16. FanoutTypeOK'
  <2>1. subQueue' \in [Subs -> Seq(Nat)]
    BY <1>3, <1>15, ZenonT(60)
  <2>2. ready' \subseteq PacketSubs
    BY <1>0, <1>3, <1>5, ZenonT(60) DEF FanoutTypeOK
  <2>3. QED
    BY <1>0, <1>2, <1>9, <1>13, <2>1, <2>2, SMTT(30) DEF FanoutTypeOK
<1>17. CallInv'
  <2> SUFFICES ASSUME NEW x \in Subs PROVE CallOK(x)'
    BY Zenon DEF CallInv
  <2>1. CallOK(x)
    BY <1>0, Zenon DEF CallInv
  <2>2. subPc'[x] = subPc[x] /\ writerPc'[x] = writerPc[x] /\ batch'[x] = batch[x]
    BY <1>2, Zenon
  <2>3. CASE x \in Registered
    <3>1. writerPc[x] \notin {"none", "end"} /\ subPc[x] = "attached" /\ writerPc[x] # "failed"
      BY <1>0, <2>1, <2>3, ZenonT(60) DEF Registered, CallOK, FanoutTypeOK
    <3>2. subErr'[x] # "context"
      BY <1>4, <1>9, <2>1, <3>1, ZenonT(60) DEF CallOK
    <3>3. QED
      BY <2>1, <2>2, <3>1, <3>2, ZenonT(60) DEF CallOK
  <2>4. CASE x \notin Registered
    <3>1. subQueue'[x] = subQueue[x] /\ subErr'[x] = subErr[x] /\
            (x \in finished' <=> x \in finished)
      BY <1>8, <1>9, <1>12, <2>4, ZenonT(60)
    <3>2. QED
      BY <2>1, <2>2, <3>1, ZenonT(60) DEF CallOK
  <2>5. QED
    BY <2>3, <2>4, ZenonT(60)
<1>18. WriterNotForgotten'
  <2> SUFFICES ASSUME NEW x \in PacketSubs, writerPc'[x] = "sleep",
                      subQueue'[x] # <<>> \/ x \in finished'
               PROVE  x \in ready'
    BY Zenon DEF WriterNotForgotten
  <2>0. x \in Subs /\ writerPc[x] = "sleep" /\ x \notin sections
    BY <1>2, <1>5, FanoutAssumption, ZenonT(60) DEF Subs
  <2>1. CASE x \in packets
    <3>1. x \notin DOMAIN errs
      BY <1>4, <1>5, <2>1, ZenonT(60)
    <3>2. x \notin finished'
      BY <1>5, <1>9, <1>10, <2>1, <3>1, SMTT(30)
    <3>3. QED
      BY <1>3, <2>1, <3>2, ZenonT(60)
  <2>2. CASE x \notin packets
    <3>1. subQueue'[x] = subQueue[x] /\ (x \in finished' => x \in finished \/ x \in missing)
      BY <1>4, <1>5, <1>9, <1>11, <2>0, <2>2, SMTT(30)
    <3>2. QED
      BY <1>0, <1>3, <2>0, <3>1, ZenonT(60) DEF WriterNotForgotten
  <2>3. QED
    BY <2>1, <2>2, ZenonT(60)
<1>19. OrderInv'
  <2>1. \A s \in Subs : Ordered(seen[s], batch[s], subQueue'[s], count')
    BY <1>2, <1>15, ZenonT(60)
  <2>2. QED
    BY <1>2, <2>1, ZenonT(60) DEF OrderInv
<1>20. GapInv'
  <2> SUFFICES ASSUME NEW x \in SectionSubs PROVE GapOK(x)'
    BY Zenon DEF GapInv
  <2>0. x \in Subs /\ x \notin packets /\ x \notin missing
    BY <1>5, FanoutAssumption, ZenonT(60) DEF Subs
  <2>1. GapOK(x)
    BY <1>0, Zenon DEF GapInv
  <2>2. seen'[x] = seen[x] /\ batch'[x] = batch[x] /\ writerPc'[x] = writerPc[x] /\ count' = p
    BY <1>2, Zenon
  <2>3. Len(batch'[x]) <= 1
    BY <2>1, <2>2, ZenonT(60) DEF GapOK
  <2>4. ASSUME writerPc[x] \notin {"none", "failed"}
        PROVE  Covered(seen[x], batch[x], subQueue'[x], p, x \in finished')
    <3>1. Covered(seen[x], batch[x], subQueue[x], count, x \in finished)
      BY <2>1, <2>4, ZenonT(60) DEF GapOK
    <3>2. CASE x \in sections \ full
      <4>1. x \notin finished /\ x \notin finished'
        BY <1>4, <1>5, <1>9, <1>10, <2>0, <3>2, SMTT(30)
      <4>2. Covered(seen[x], batch[x], subQueue[x], count, x \in finished')
        BY <3>1, <4>1, ZenonT(60) DEF Covered, Pending
      <4>3. Covered(seen[x], batch[x], Append(subQueue[x], p), p, x \in finished')
        BY <1>14, <2>0, <4>1, <4>2, CoveredAppend, ZenonT(60)
      <4>4. QED
        BY <1>11, <2>0, <3>2, <4>3, ZenonT(60)
    <3>3. CASE x \notin sections \ full
      <4>1. subQueue'[x] = subQueue[x]
        BY <1>11, <2>0, <3>3, ZenonT(60)
      <4>2. p \notin SectionPackets \/ x \in finished'
        <5> SUFFICES ASSUME p \in SectionPackets PROVE x \in finished'
          BY Zenon
        <5>1. CASE x \in sections
          BY <1>4, <1>9, <3>3, <5>1, ZenonT(60)
        <5>2. CASE x \notin sections
          <6>1. x \notin Registered
            BY <1>6, <5>2, ZenonT(60)
          <6>2. subPc[x] \notin {"idle", "rejected"}
            BY <1>0, <2>0, <2>4, ZenonT(60) DEF CallInv, CallOK
          <6>3. x \in finished
            BY <2>0, <6>1, <6>2, ZenonT(60) DEF Registered
          <6>4. QED
            BY <1>9, <6>3, ZenonT(60)
        <5>3. QED
          BY <5>1, <5>2, ZenonT(60)
      <4>3. x \in finished => x \in finished'
        BY <1>9, Zenon
      <4>4. Covered(seen[x], batch[x], subQueue[x], count, x \in finished')
        BY <3>1, <4>3, ZenonT(60) DEF Covered, Pending
      <4>5. Covered(seen[x], batch[x], subQueue[x], p, x \in finished')
        BY <1>14, <2>0, <4>2, <4>4, CoveredCount, ZenonT(60)
      <4>6. QED
        BY <4>1, <4>5, ZenonT(60)
    <3>4. QED
      BY <3>2, <3>3, ZenonT(60)
  <2>5. QED
    BY <2>2, <2>3, <2>4, ZenonT(60) DEF GapOK
<1>21. QED
  BY <1>9, <1>16, <1>17, <1>18, <1>19, <1>20, ZenonT(60) DEF FanoutInv

\* A writer takes a batch, goes to sleep or ends.
LEMMA WriterTakeStep ==
  ASSUME FanoutInv, NEW s \in Subs, WriterTake(s)
  PROVE  FanoutInv'
<1>0. FanoutTypeOK /\ CallInv /\ EngineInv /\ WriterNotForgotten /\ OrderInv /\ GapInv
  BY Zenon DEF FanoutInv
<1>1. /\ writerPc[s] = "take"
      /\ UNCHANGED <<started, engineStopped, cancelled, closeAsked, engineDone, readErr, count,
                     subPc, finished, subErr, ready, seen>>
  BY Zenon DEF WriterTake, engineVars, sourceVars, endVars
<1>2. Registered' = Registered
  BY <1>1, Zenon DEF Registered
<1>3. EngineInv'
  BY <1>0, <1>1, <1>2, ZenonT(60) DEF EngineInv, ClosedEngineIsEmpty, EmptyEngineCloses
<1>4. batch[s] = <<>> /\ subPc[s] \notin {"idle", "rejected"} /\ CallOK(s)
  BY <1>0, <1>1, Zenon DEF CallInv, CallOK
<1>5. /\ seen[s] \in Nat /\ count \in Nat /\ subQueue[s] \in Seq(Nat)
      /\ Ordered(seen[s], <<>>, subQueue[s], count)
  BY <1>0, <1>4, ZenonT(60) DEF FanoutTypeOK, OrderInv
<1>6. CASE subQueue[s] # <<>>
  <2> DEFINE n == IF s \in PacketSubs THEN TakeCount(subQueue[s]) ELSE 1
             b == SubSeq(subQueue[s], 1, n)
             r == SubSeq(subQueue[s], n + 1, Len(subQueue[s]))
  <2>1. /\ batch' = [batch EXCEPT ![s] = b] /\ subQueue' = [subQueue EXCEPT ![s] = r]
        /\ writerPc' = [writerPc EXCEPT ![s] = "write"]
    BY <1>6, Zenon DEF WriterTake
  <2>2. n \in 1 .. Len(subQueue[s])
    <3>1. TakeCount(subQueue[s]) \in 1 .. Len(subQueue[s])
      BY <1>5, <1>6, TakeSome, ZenonT(60)
    <3>2. 1 \in 1 .. Len(subQueue[s])
      BY <1>5, <1>6, EmptySeq, SMTT(30)
    <3>3. QED
      BY <3>1, <3>2, Zenon
  <2>3. s \in SectionSubs => n = 1
    BY FanoutAssumption, Zenon
  <2> HIDE DEF n
  <2>4. /\ b \in Seq(Nat) /\ Len(b) = n /\ b # <<>> /\ r \in Seq(Nat)
        /\ Ordered(seen[s], b, r, count)
    BY <1>5, <2>2, OrderedTake, ZenonT(60)
  <2>5. s \in SectionSubs /\ Covered(seen[s], <<>>, subQueue[s], count, s \in finished) =>
            Covered(seen[s], b, r, count, s \in finished)
    BY <1>5, <1>6, <2>3, CoveredTake, ZenonT(60)
  <2> HIDE DEF b, r
  <2>6. FanoutTypeOK'
    BY <1>0, <1>1, <2>1, <2>4, ZenonT(60) DEF FanoutTypeOK
  <2>7. /\ batch'[s] = b /\ subQueue'[s] = r /\ writerPc'[s] = "write"
        /\ \A x \in Subs : x # s => /\ batch'[x] = batch[x] /\ subQueue'[x] = subQueue[x]
                                    /\ writerPc'[x] = writerPc[x]
    BY <1>0, <2>1, ZenonT(60) DEF FanoutTypeOK
  <2>8. CallInv'
    <3> SUFFICES ASSUME NEW x \in Subs PROVE CallOK(x)'
      BY Zenon DEF CallInv
    <3>1. CASE x = s
      BY <1>1, <1>4, <2>4, <2>7, <3>1, ZenonT(60) DEF CallOK
    <3>2. CASE x # s
      BY <1>0, <1>1, <2>7, <3>2, ZenonT(60) DEF CallInv, CallOK
    <3>3. QED
      BY <3>1, <3>2, Zenon
  <2>9. WriterNotForgotten'
    BY <1>0, <1>1, <2>7, ZenonT(60) DEF WriterNotForgotten, Subs
  <2>10. OrderInv'
    <3> SUFFICES ASSUME NEW x \in Subs PROVE Ordered(seen'[x], batch'[x], subQueue'[x], count')
      BY Zenon DEF OrderInv
    <3>1. seen'[x] = seen[x] /\ count' = count
      BY <1>1, ZenonT(60)
    <3>2. QED
      BY <1>0, <2>4, <2>7, <3>1, ZenonT(60) DEF OrderInv
  <2>11. GapInv'
    <3> SUFFICES ASSUME NEW x \in SectionSubs PROVE GapOK(x)'
      BY Zenon DEF GapInv
    <3>1. seen'[x] = seen[x] /\ count' = count /\ finished' = finished /\ x \in Subs
      BY <1>1, Zenon DEF Subs
    <3>2. GapOK(x)
      BY <1>0, Zenon DEF GapInv
    <3>3. CASE x = s
      <4>1. Covered(seen[x], b, r, count, x \in finished)
        BY <1>1, <1>4, <2>5, <3>2, <3>3, ZenonT(60) DEF GapOK
      <4>2. Len(b) <= 1
        BY <2>3, <2>4, <3>3, SMTT(30)
      <4>3. QED
        BY <2>7, <3>1, <3>3, <4>1, <4>2, ZenonT(60) DEF GapOK
    <3>4. CASE x # s
      BY <2>7, <3>1, <3>2, <3>4, ZenonT(60) DEF GapOK
    <3>5. QED
      BY <3>3, <3>4, Zenon
  <2>12. QED
    BY <1>3, <2>6, <2>8, <2>9, <2>10, <2>11, SMTT(30) DEF FanoutInv
<1>7. CASE subQueue[s] = <<>>
  <2>1. /\ s \in finished \cup PacketSubs
        /\ writerPc' = [writerPc EXCEPT ![s] = IF s \in finished THEN "end" ELSE "sleep"]
        /\ UNCHANGED <<subQueue, batch>>
    BY <1>7, Zenon DEF WriterTake
  <2>2. FanoutTypeOK'
    BY <1>0, <1>1, <2>1, ZenonT(60) DEF FanoutTypeOK
  <2>3. /\ writerPc'[s] = IF s \in finished THEN "end" ELSE "sleep"
        /\ \A x \in Subs : x # s => writerPc'[x] = writerPc[x]
    BY <1>0, <2>1, SMTT(30) DEF FanoutTypeOK
  <2>4. CallInv'
    <3> SUFFICES ASSUME NEW x \in Subs PROVE CallOK(x)'
      BY Zenon DEF CallInv
    <3>1. CASE x = s
      BY <1>1, <1>4, <1>7, <2>1, <2>3, <3>1, SMTT(30) DEF CallOK
    <3>2. CASE x # s
      BY <1>0, <1>1, <2>1, <2>3, <3>2, ZenonT(60) DEF CallInv, CallOK
    <3>3. QED
      BY <3>1, <3>2, Zenon
  <2>5. WriterNotForgotten'
    BY <1>0, <1>1, <1>7, <2>1, <2>3, SMTT(30) DEF WriterNotForgotten, Subs
  <2>6. OrderInv'
    BY <1>0, <1>1, <2>1, ZenonT(60) DEF OrderInv
  <2>7. GapInv'
    <3> SUFFICES ASSUME NEW x \in SectionSubs PROVE GapOK(x)'
      BY Zenon DEF GapInv
    <3>1. /\ seen'[x] = seen[x] /\ count' = count /\ finished' = finished /\ x \in Subs
          /\ batch'[x] = batch[x] /\ subQueue'[x] = subQueue[x]
      BY <1>1, <2>1, ZenonT(60) DEF Subs
    <3>2. writerPc'[x] = writerPc[x] \/ writerPc[x] = "take"
      BY <1>1, <2>3, <3>1, ZenonT(60)
    <3>3. GapOK(x)
      BY <1>0, Zenon DEF GapInv
    <3>4. QED
      BY <3>1, <3>2, <3>3, ZenonT(60) DEF GapOK
  <2>8. QED
    BY <1>3, <2>2, <2>4, <2>5, <2>6, <2>7, ZenonT(60) DEF FanoutInv
<1>8. QED
  BY <1>6, <1>7, ZenonT(60)

\* A sleeping writer takes the signal.
LEMMA WriterWakesStep ==
  ASSUME FanoutInv, NEW s \in Subs, WriterWakes(s)
  PROVE  FanoutInv'
<1>0. FanoutTypeOK /\ CallInv /\ EngineInv /\ WriterNotForgotten /\ OrderInv /\ GapInv
  BY Zenon DEF FanoutInv
<1>1. /\ writerPc[s] = "sleep" /\ ready' = ready \ {s}
      /\ writerPc' = [writerPc EXCEPT ![s] = "take"]
      /\ UNCHANGED <<started, engineStopped, cancelled, closeAsked, engineDone, readErr, count,
                     subPc, finished, subErr, subQueue, batch, seen>>
  BY Zenon DEF WriterWakes, engineVars, sourceVars, endVars
<1>2. FanoutTypeOK'
  BY <1>0, <1>1, ZenonT(60) DEF FanoutTypeOK
<1>3. writerPc'[s] = "take" /\ \A x \in Subs : x # s => writerPc'[x] = writerPc[x]
  BY <1>0, <1>1, ZenonT(60) DEF FanoutTypeOK
<1>4. CallInv'
  <2> SUFFICES ASSUME NEW x \in Subs PROVE CallOK(x)'
    BY Zenon DEF CallInv
  <2>1. CallOK(x)
    BY <1>0, Zenon DEF CallInv
  <2>2. CASE x = s
    BY <1>1, <1>3, <2>1, <2>2, ZenonT(60) DEF CallOK
  <2>3. CASE x # s
    BY <1>1, <1>3, <2>1, <2>3, ZenonT(60) DEF CallOK
  <2>4. QED
    BY <2>2, <2>3, Zenon
<1>5. Registered' = Registered
  BY <1>1, Zenon DEF Registered
<1>6. EngineInv'
  BY <1>0, <1>1, <1>5, ZenonT(60) DEF EngineInv, ClosedEngineIsEmpty, EmptyEngineCloses
<1>7. WriterNotForgotten'
  BY <1>0, <1>1, <1>3, ZenonT(60) DEF WriterNotForgotten, Subs
<1>8. OrderInv'
  BY <1>0, <1>1, ZenonT(60) DEF OrderInv
<1>9. GapInv'
  <2> SUFFICES ASSUME NEW x \in SectionSubs PROVE GapOK(x)'
    BY Zenon DEF GapInv
  <2>1. /\ seen'[x] = seen[x] /\ count' = count /\ finished' = finished /\ x \in Subs
        /\ batch'[x] = batch[x] /\ subQueue'[x] = subQueue[x]
    BY <1>1, Zenon DEF Subs
  <2>2. writerPc'[x] = writerPc[x] \/ writerPc[x] = "sleep"
    BY <1>1, <1>3, <2>1, ZenonT(60)
  <2>3. GapOK(x)
    BY <1>0, Zenon DEF GapInv
  <2>4. QED
    BY <2>1, <2>2, <2>3, ZenonT(60) DEF GapOK
<1>10. QED
  BY <1>2, <1>4, <1>6, <1>7, <1>8, <1>9 DEF FanoutInv

\* A batch is written.
LEMMA WriteSucceedsStep ==
  ASSUME FanoutInv, NEW s \in Subs, writerPc[s] = "write",
         batch' = [batch EXCEPT ![s] = <<>>], seen' = [seen EXCEPT ![s] = Last(batch[s])],
         writerPc' = [writerPc EXCEPT ![s] = "take"],
         UNCHANGED <<started, engineStopped, cancelled, closeAsked, engineDone, readErr, count,
                     subPc, finished, subErr, subQueue, ready>>
  PROVE  FanoutInv'
<1>0. FanoutTypeOK /\ CallInv /\ EngineInv /\ WriterNotForgotten /\ OrderInv /\ GapInv
  BY Zenon DEF FanoutInv
<1>1. batch[s] # <<>> /\ CallOK(s)
  BY <1>0, Zenon DEF CallInv, CallOK
<1>2. /\ seen[s] \in Nat /\ count \in Nat /\ batch[s] \in Seq(Nat) /\ subQueue[s] \in Seq(Nat)
      /\ Ordered(seen[s], batch[s], subQueue[s], count)
  BY <1>0, Zenon DEF FanoutTypeOK, OrderInv
<1>3. Last(batch[s]) \in Nat /\ Ordered(Last(batch[s]), <<>>, subQueue[s], count)
  BY <1>1, <1>2, OrderedWrite, ZenonT(60)
<1>4. <<>> \in Seq(Nat) /\ Len(<<>>) <= 1
  BY EmptySeq, SMTT(30)
<1>5. FanoutTypeOK'
  BY <1>0, <1>3, <1>4, ZenonT(60) DEF FanoutTypeOK
<1>6. /\ batch'[s] = <<>> /\ seen'[s] = Last(batch[s]) /\ writerPc'[s] = "take"
      /\ \A x \in Subs : x # s => /\ batch'[x] = batch[x] /\ seen'[x] = seen[x]
                                  /\ writerPc'[x] = writerPc[x]
  BY <1>0, Zenon DEF FanoutTypeOK
<1>7. CallInv'
  <2> SUFFICES ASSUME NEW x \in Subs PROVE CallOK(x)'
    BY Zenon DEF CallInv
  <2>1. CASE x = s
    BY <1>1, <1>6, <2>1, ZenonT(60) DEF CallOK
  <2>2. CASE x # s
    BY <1>0, <1>6, <2>2, SMTT(30) DEF CallInv, CallOK
  <2>3. QED
    BY <2>1, <2>2, ZenonT(60)
<1>8. Registered' = Registered
  BY Zenon DEF Registered
<1>9. EngineInv'
  BY <1>0, <1>8, ZenonT(60) DEF EngineInv, ClosedEngineIsEmpty, EmptyEngineCloses
<1>10. WriterNotForgotten'
  BY <1>0, <1>6, ZenonT(60) DEF WriterNotForgotten, Subs
<1>11. OrderInv'
  <2> SUFFICES ASSUME NEW x \in Subs PROVE Ordered(seen'[x], batch'[x], subQueue'[x], count')
    BY Zenon DEF OrderInv
  <2>1. subQueue'[x] = subQueue[x] /\ count' = count
    BY Zenon
  <2>2. QED
    BY <1>0, <1>3, <1>6, <2>1, ZenonT(60) DEF OrderInv
<1>12. GapInv'
  <2> SUFFICES ASSUME NEW x \in SectionSubs PROVE GapOK(x)'
    BY Zenon DEF GapInv
  <2>1. count' = count /\ finished' = finished /\ x \in Subs /\ subQueue'[x] = subQueue[x]
    BY Zenon DEF Subs
  <2>2. GapOK(x)
    BY <1>0, ZenonT(60) DEF GapInv
  <2>3. CASE x = s
    <3>1. /\ Len(batch[s]) <= 1
          /\ Covered(seen[s], batch[s], subQueue[s], count, s \in finished)
      BY <2>2, <2>3, ZenonT(60) DEF GapOK
    <3>2. Covered(Last(batch[s]), <<>>, subQueue[s], count, s \in finished)
      BY <1>1, <1>2, <3>1, CoveredWrite, ZenonT(60)
    <3>3. QED
      BY <1>4, <1>6, <2>1, <2>3, <3>2, ZenonT(60) DEF GapOK
  <2>4. CASE x # s
    BY <1>6, <2>1, <2>2, <2>4, ZenonT(60) DEF GapOK
  <2>5. QED
    BY <2>3, <2>4, ZenonT(60)
<1>13. QED
  BY <1>5, <1>7, <1>9, <1>10, <1>11, <1>12, SMTT(30) DEF FanoutInv

\* A write fails and ends the subscriber.
LEMMA WriteFailsStep ==
  ASSUME FanoutInv, NEW s \in Subs, writerPc[s] = "write",
         batch' = [batch EXCEPT ![s] = <<>>], writerPc' = [writerPc EXCEPT ![s] = "failed"],
         FinishOne(s, "failed"), ready' = ready \cup ({s} \cap Registered \cap PacketSubs),
         UNCHANGED <<started, engineDone, readErr, count, subPc, subQueue, seen>>
  PROVE  FanoutInv'
<1>0. FanoutTypeOK /\ CallInv /\ EngineInv /\ WriterNotForgotten /\ OrderInv /\ GapInv
  BY Zenon DEF FanoutInv
<1>1. \A x \in Subs : subPc'[x] \in {"idle", "rejected"} <=> subPc[x] \in {"idle", "rejected"}
  BY Zenon
<1>2. UNCHANGED <<started, engineDone>> /\ "failed" \in Errors
  BY Zenon DEF Errors
<1>3. /\ finished' = finished \cup ({s} \cap Registered) /\ finished' \subseteq Subs
      /\ subErr' \in [Subs -> Errors]
      /\ \A x \in Subs : subErr'[x] = IF x \in {s} \cap Registered THEN "failed" ELSE subErr[x]
      /\ engineStopped' \in BOOLEAN /\ cancelled' \in BOOLEAN /\ closeAsked' \in BOOLEAN
      /\ EngineInv'
  BY <1>0, <1>1, <1>2, FinishOneEffect, ZenonT(60)
<1>4. <<>> \in Seq(Nat) /\ Len(<<>>) <= 1
  BY EmptySeq, SMTT(30)
<1>5. FanoutTypeOK'
  BY <1>0, <1>3, <1>4, ZenonT(60) DEF FanoutTypeOK
<1>6. CallOK(s) /\ subPc[s] \notin {"idle", "rejected"}
  BY <1>0, Zenon DEF CallInv, CallOK
<1>7. s \in finished' /\ (s \in Registered <=> s \notin finished)
  BY <1>3, <1>6, ZenonT(60) DEF Registered
<1>8. /\ batch'[s] = <<>> /\ writerPc'[s] = "failed"
      /\ \A x \in Subs : x # s => /\ batch'[x] = batch[x] /\ writerPc'[x] = writerPc[x]
                                  /\ subErr'[x] = subErr[x] /\ (x \in finished' <=> x \in finished)
  BY <1>0, <1>3, ZenonT(60) DEF FanoutTypeOK
<1>9. CallInv'
  <2> SUFFICES ASSUME NEW x \in Subs PROVE CallOK(x)'
    BY Zenon DEF CallInv
  <2>1. CASE x = s
    <3>1. subErr'[s] = "failed" \/ subErr'[s] = subErr[s]
      BY <1>3, ZenonT(60)
    <3>2. QED
      BY <1>6, <1>7, <1>8, <2>1, <3>1, SMTT(30) DEF CallOK
  <2>2. CASE x # s
    BY <1>0, <1>8, <2>2, SMTT(30) DEF CallInv, CallOK
  <2>3. QED
    BY <2>1, <2>2, ZenonT(60)
<1>10. WriterNotForgotten'
  BY <1>0, <1>8, ZenonT(60) DEF WriterNotForgotten, Subs
<1>11. OrderInv'
  <2> SUFFICES ASSUME NEW x \in Subs PROVE Ordered(seen'[x], batch'[x], subQueue'[x], count')
    BY Zenon DEF OrderInv
  <2>1. seen'[x] = seen[x] /\ subQueue'[x] = subQueue[x] /\ count' = count
    BY Zenon
  <2>2. Ordered(seen[x], batch[x], subQueue[x], count)
    BY <1>0, Zenon DEF OrderInv
  <2>3. Ordered(seen[x], <<>>, subQueue[x], count)
    BY <2>2, OrderedDrop, ZenonT(60)
  <2>4. batch'[x] = <<>> \/ batch'[x] = batch[x]
    BY <1>8, Zenon
  <2>5. QED
    BY <2>1, <2>2, <2>3, <2>4, ZenonT(60)
<1>12. GapInv'
  <2> SUFFICES ASSUME NEW x \in SectionSubs PROVE GapOK(x)'
    BY Zenon DEF GapInv
  <2>1. count' = count /\ x \in Subs /\ subQueue'[x] = subQueue[x] /\ seen'[x] = seen[x]
    BY Zenon DEF Subs
  <2>2. GapOK(x)
    BY <1>0, ZenonT(60) DEF GapInv
  <2>3. CASE x = s
    BY <1>4, <1>8, <2>3, ZenonT(60) DEF GapOK
  <2>4. CASE x # s
    <3>1. /\ batch'[x] = batch[x] /\ writerPc'[x] = writerPc[x]
          /\ x \in finished <=> x \in finished'
      BY <1>8, <2>1, <2>4, ZenonT(60)
    <3>2. writerPc[x] \notin {"none", "failed"} =>
              Covered(seen[x], batch[x], subQueue[x], count, x \in finished')
      BY <2>2, <3>1, ZenonT(60) DEF GapOK, Covered, Pending
    <3>3. QED
      BY <2>1, <2>2, <3>1, <3>2, ZenonT(60) DEF GapOK
  <2>5. QED
    BY <2>3, <2>4, ZenonT(60)
<1>13. QED
  BY <1>3, <1>5, <1>9, <1>10, <1>11, <1>12, SMTT(30) DEF FanoutInv

\* The writer hands its batch to dst, or fails.
LEMMA WriterWritesStep ==
  ASSUME FanoutInv, NEW s \in Subs, WriterWrites(s)
  PROVE  FanoutInv'
<1>1. /\ writerPc[s] = "write" /\ batch' = [batch EXCEPT ![s] = <<>>]
      /\ UNCHANGED <<started, engineDone, readErr, count, subPc, subQueue>>
  BY Zenon DEF WriterWrites, sourceVars
<1>2. CASE /\ seen' = [seen EXCEPT ![s] = Last(batch[s])]
           /\ writerPc' = [writerPc EXCEPT ![s] = "take"]
           /\ UNCHANGED <<engineStopped, cancelled, closeAsked, endVars, ready>>
  <2>1. UNCHANGED <<started, engineStopped, cancelled, closeAsked, engineDone, readErr, count,
                    subPc, finished, subErr, subQueue, ready>>
    BY <1>1, <1>2, ZenonT(60) DEF endVars
  <2>2. QED
    BY <1>1, <1>2, <2>1, WriteSucceedsStep, ZenonT(60)
<1>3. CASE /\ writerPc' = [writerPc EXCEPT ![s] = "failed"] /\ FinishOne(s, "failed")
           /\ ready' = ready \cup ({s} \cap Registered \cap PacketSubs)
           /\ UNCHANGED seen
  <2>1. UNCHANGED <<started, engineDone, readErr, count, subPc, subQueue, seen>>
    BY <1>1, <1>3, ZenonT(60)
  <2>2. QED
    BY <1>1, <1>3, <2>1, WriteFailsStep, ZenonT(60)
<1>4. QED
  BY <1>2, <1>3, ZenonT(60) DEF WriterWrites

\* Every step of fanout.Engine and its subscribers keeps the invariant.
LEMMA FanoutStep == FanoutInv /\ [FanoutNext]_fanoutVars => FanoutInv'
<1> SUFFICES ASSUME FanoutInv, [FanoutNext]_fanoutVars PROVE FanoutInv'
  BY Zenon
<1>1. CASE UNCHANGED fanoutVars
  <2>1. UNCHANGED <<started, engineStopped, cancelled, closeAsked, engineDone, readErr, count,
                    subPc, finished, subErr, subQueue, ready, writerPc, batch, seen>>
    BY <1>1, ZenonT(60) DEF fanoutVars, engineVars, sourceVars, endVars, queueVars, writerVars
  <2>2. FanoutTypeOK' /\ CallInv' /\ EngineInv' /\ WriterNotForgotten' /\ OrderInv' /\ GapInv'
    BY <2>1, ZenonT(60) DEF FanoutInv, FanoutTypeOK, CallInv, CallOK, EngineInv,
        ClosedEngineIsEmpty, EmptyEngineCloses, Registered, WriterNotForgotten, OrderInv, GapInv,
        GapOK
  <2>3. QED
    BY <2>2, ZenonT(60) DEF FanoutInv
<1>2. CASE ReadPacket
  BY <1>2, ReadPacketStep, ZenonT(60)
<1>3. CASE EngineClose
  BY <1>3, EngineCloseStep, ZenonT(60)
<1>4. CASE ReadFails \/ (\E err \in {"nil", "failed"} : SourceReturns(err))
             \/ EngineStop \/ EngineStopReturns
  BY <1>4, EngineStep, ZenonT(60)
<1>5. ASSUME NEW s \in Subs,
             Subscribe(s) \/ ReturnOnContext(s) \/ CallStep(s) \/ WriterStep(s)
      PROVE  FanoutInv'
  BY <1>5, SubscribeStep, ReturnOnContextStep, CallStepOK, WriterTakeStep, WriterWakesStep,
     WriterWritesStep, ZenonT(60) DEF WriterStep
<1>6. QED
  BY <1>1, <1>2, <1>3, <1>4, <1>5, ZenonT(60) DEF FanoutNext

\* The invariant of fanout.Engine holds for any number of subscribers of either
\* kind, any packets, sizes and limits.
THEOREM FanoutInvariant == FanoutSpec => []FanoutInv
  BY FanoutInitOK, FanoutStep, PTL DEF FanoutSpec

\* Subscriber calls, their writers and the engine end together (SubscribeChannel,
\* SubscribeService and ObserveSections after their select, close, Stop and
\* cancelIfEmptyLocked).
THEOREM EndsCorrect == FanoutSpec => []EndsAreOrderly
<1>1. FanoutInv => EndsAreOrderly
  <2> SUFFICES ASSUME FanoutInv PROVE EndsAreOrderly
    BY Zenon
  <2>1. \A s \in Subs : CallOK(s)
    BY Zenon DEF FanoutInv, CallInv
  <2>2. QuietAfterReturn
    BY <2>1, ZenonT(60) DEF CallOK, QuietAfterReturn
  <2>3. CleanEndDelivers
    BY <2>1, Zenon DEF CallOK, CleanEndDelivers
  <2>4. QED
    BY <2>2, <2>3, ZenonT(60) DEF FanoutInv, EngineInv, EndsAreOrderly
<1>2. QED
  BY <1>1, FanoutInvariant, PTL

\* A section observer is given every section in order from its subscription on
\* (dispatchLocked and writeSections), and packets reach a writer in order.
THEOREM GapsCorrect == FanoutSpec => SectionsWithoutGap
<1> DEFINE Step == \A s \in Subs : seen'[s] # seen[s] /\ subPc[s] # "idle" =>
              /\ seen[s] < seen'[s]
              /\ s \in SectionSubs => (seen[s] + 1 .. seen'[s] - 1) \cap SectionPackets = {}
<1>1. FanoutInv /\ [FanoutNext]_fanoutVars => [Step]_fanoutVars
  <2> SUFFICES ASSUME FanoutInv, FanoutNext, NEW s \in Subs, seen'[s] # seen[s], subPc[s] # "idle"
               PROVE  /\ seen[s] < seen'[s]
                      /\ s \in SectionSubs => (seen[s] + 1 .. seen'[s] - 1) \cap SectionPackets = {}
    BY Zenon
  <2>0. FanoutTypeOK /\ CallInv /\ OrderInv /\ GapInv
    BY Zenon DEF FanoutInv
  <2>1. \E x \in Subs : \/ Subscribe(x) /\ seen' = [seen EXCEPT ![x] = count]
                        \/ writerPc[x] = "write" /\ seen' = [seen EXCEPT ![x] = Last(batch[x])]
    <3>1. CASE ReadPacket \/ ReadFails \/ EngineClose \/ EngineStop \/ EngineStopReturns
                 \/ \E err \in {"nil", "failed"} : SourceReturns(err)
      <4>1. seen' = seen
        BY <3>1, ZenonT(60) DEF ReadPacket, ReadFails, EngineClose, EngineStop, EngineStopReturns,
           SourceReturns, writerVars
      <4>2. QED
        BY <4>1, Zenon
    <3>2. ASSUME NEW x \in Subs, ReturnOnContext(x) \/ CallStep(x) \/ WriterTake(x) \/
            WriterWakes(x)
          PROVE  FALSE
      <4>1. seen' = seen
        BY <3>2, ZenonT(60) DEF ReturnOnContext, CallStep, ReturnOnDone, ReturnOnEngineDone,
            AwaitWriter, WriterTake, WriterWakes, writerVars
      <4>2. QED
        BY <4>1, ZenonT(60)
    <3>3. ASSUME NEW x \in Subs, WriterWrites(x)
          PROVE  writerPc[x] = "write" /\ seen' = [seen EXCEPT ![x] = Last(batch[x])]
      BY <3>3, ZenonT(60) DEF WriterWrites
    <3>4. ASSUME NEW x \in Subs, Subscribe(x)
          PROVE  seen' = [seen EXCEPT ![x] = count]
      BY <3>4, ZenonT(60) DEF Subscribe
    <3>5. QED
      BY <3>1, <3>2, <3>3, <3>4, ZenonT(60) DEF FanoutNext, WriterStep
  <2>2. writerPc[s] = "write" /\ seen'[s] = Last(batch[s])
    <3>1. PICK x \in Subs : \/ Subscribe(x) /\ seen' = [seen EXCEPT ![x] = count]
                            \/ writerPc[x] = "write" /\ seen' = [seen EXCEPT ![x] = Last(batch[x])]
      BY <2>1, Zenon
    <3>2. x = s
      BY <2>0, <3>1, ZenonT(60) DEF FanoutTypeOK
    <3>3. ~ Subscribe(s)
      BY Zenon DEF Subscribe
    <3>4. QED
      BY <2>0, <3>1, <3>2, <3>3, ZenonT(60) DEF FanoutTypeOK
  <2>3. batch[s] # <<>>
    BY <2>0, <2>2, ZenonT(60) DEF CallInv, CallOK
  <2>4. /\ seen[s] \in Nat /\ count \in Nat /\ batch[s] \in Seq(Nat) /\ subQueue[s] \in Seq(Nat)
        /\ Ordered(seen[s], batch[s], subQueue[s], count)
    BY <2>0, Zenon DEF FanoutTypeOK, OrderInv
  <2>5. seen[s] < seen'[s]
    BY <2>2, <2>3, <2>4, OrderedWrite, ZenonT(60)
  <2>6. ASSUME s \in SectionSubs
        PROVE  (seen[s] + 1 .. seen'[s] - 1) \cap SectionPackets = {}
    <3>1. /\ Len(batch[s]) <= 1
          /\ Covered(seen[s], batch[s], subQueue[s], count, s \in finished)
      BY <2>0, <2>2, <2>6, ZenonT(60) DEF GapInv, GapOK
    <3>2. (seen[s] + 1 .. Last(batch[s]) - 1) \cap SectionPackets = {}
      BY <2>3, <2>4, <3>1, CoveredWrite, ZenonT(60)
    <3>3. QED
      BY <2>2, <3>2, ZenonT(60)
  <2>7. QED
    BY <2>5, <2>6, ZenonT(60)
<1>2. QED
  BY <1>1, FanoutInvariant, PTL DEF FanoutSpec, SectionsWithoutGap
=============================================================================
