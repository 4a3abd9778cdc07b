-------------------------- MODULE JobManagerProofs --------------------------
(***************************************************************************)
(* The types, the queue and the keys of the job manager, for every set of  *)
(* definitions, every limit and every number of executions.                *)
(***************************************************************************)
EXTENDS JobManager, FiniteSetTheorems, SequenceTheorems, TLAPS

(***************************************************************************)
(* Lemmas about the operators                                              *)
(***************************************************************************)
\* Removing an element moves the later ones up and changes nothing else.
LEMMA WithoutEffect ==
  ASSUME NEW S, NEW s \in Seq(S), NEW n \in DOMAIN s
  PROVE  /\ Without(s, n) \in Seq(S)
         /\ Len(Without(s, n)) = Len(s) - 1
         /\ DOMAIN Without(s, n) = 1 .. Len(s) - 1
         /\ \A i \in 1 .. Len(s) - 1 :
                Without(s, n)[i] = IF i < n THEN s[i] ELSE s[i + 1]
<1>1. n \in 1 .. Len(s) /\ Len(s) \in Nat /\ \A i \in 1 .. Len(s) : s[i] \in S
  OBVIOUS
<1> DEFINE a == SubSeq(s, 1, n - 1)  b == SubSeq(s, n + 1, Len(s))
<1>2. /\ a \in Seq(S) /\ Len(a) = n - 1
      /\ \A i \in 1 .. n - 1 : a[i] = s[i]
  <2>1. \A i \in 1 .. n - 1 : s[i] \in S
    BY <1>1
  <2>2. /\ a \in Seq(S) /\ Len(a) = IF 1 <= n - 1 THEN (n - 1) - 1 + 1 ELSE 0
        /\ \A i \in 1 .. (n - 1) - 1 + 1 : a[i] = s[1 + i - 1]
    BY <1>1, <2>1, SubSeqProperties
  <2>3. QED
    BY <1>1, <2>2
<1>3. /\ b \in Seq(S) /\ Len(b) = Len(s) - n
      /\ \A i \in 1 .. Len(s) - n : b[i] = s[i + n]
  <2>1. \A i \in n + 1 .. Len(s) : s[i] \in S
    BY <1>1
  <2>2. /\ b \in Seq(S) /\ Len(b) = IF n + 1 <= Len(s) THEN Len(s) - (n + 1) + 1 ELSE 0
        /\ \A i \in 1 .. Len(s) - (n + 1) + 1 : b[i] = s[(n + 1) + i - 1]
    BY <1>1, <2>1, SubSeqProperties, SMTT(30)
  <2>3. QED
    BY <1>1, <2>2, SMTT(30)
<1>4. Without(s, n) = a \o b
  BY Zenon DEF Without
<1> HIDE DEF a, b
<1>5. /\ a \o b \in Seq(S) /\ Len(a \o b) = Len(a) + Len(b)
      /\ \A i \in 1 .. Len(a) + Len(b) : (a \o b)[i] = IF i <= Len(a) THEN a[i] ELSE b[i - Len(a)]
  BY <1>2, <1>3, ConcatProperties, Zenon
<1> DEFINE c == a \o b
<1> HIDE DEF c
<1>6. ASSUME NEW i \in 1 .. Len(s) - 1
      PROVE  c[i] = IF i < n THEN s[i] ELSE s[i + 1]
  <2>0. c[i] = IF i <= n - 1 THEN a[i] ELSE b[i - (n - 1)]
    <3>1. i \in 1 .. Len(a) + Len(b)
      BY <1>1, <1>2, <1>3, SMTT(30)
    <3>2. (a \o b)[i] = IF i <= Len(a) THEN a[i] ELSE b[i - Len(a)]
      BY <1>5, <3>1, Zenon
    <3>3. QED
      BY <1>2, <3>2, Zenon DEF c
  <2>1. CASE i < n
    BY <1>1, <1>2, <2>0, <2>1
  <2>2. CASE ~ (i < n)
    <3>1. i - (n - 1) \in 1 .. Len(s) - n /\ i - (n - 1) + n = i + 1 /\ ~ (i <= n - 1)
      BY <1>1, <2>2
    <3>2. b[i - (n - 1)] = s[i - (n - 1) + n]
      BY <1>3, <3>1, Zenon
    <3>3. QED
      BY <2>0, <2>2, <3>1, <3>2, Zenon
  <2>3. QED
    BY <2>1, <2>2, Zenon
<1>7. c \in Seq(S) /\ Len(c) = Len(s) - 1
  BY <1>1, <1>2, <1>3, <1>5, SMTT(30) DEF c
<1>8. DOMAIN c = 1 .. Len(s) - 1
  BY <1>7
<1>9. QED
  BY <1>4, <1>6, <1>7, <1>8, Zenon DEF c

\* The elements of a queue without duplicates after one is removed.
LEMMA WithoutRange ==
  ASSUME NEW S, NEW s \in Seq(S), IsInjective(s), NEW n \in DOMAIN s
  PROVE  IsInjective(Without(s, n)) /\ Range(Without(s, n)) = Range(s) \ {s[n]}
<1> DEFINE r == Without(s, n)
<1>1. /\ DOMAIN r = 1 .. Len(s) - 1 /\ n \in 1 .. Len(s) /\ Len(s) \in Nat /\ DOMAIN s = 1 .. Len(s)
      /\ \A i \in 1 .. Len(s) - 1 : r[i] = IF i < n THEN s[i] ELSE s[i + 1]
  BY WithoutEffect
<1> HIDE DEF r
<1>2. \A i, j \in 1 .. Len(s) : s[i] = s[j] => i = j
  BY <1>1, Zenon DEF IsInjective
<1>3. \A i, j \in 1 .. Len(s) - 1 : r[i] = r[j] => i = j
  BY <1>1, <1>2
<1>4. \A i \in 1 .. Len(s) - 1 : r[i] # s[n] /\ \E j \in 1 .. Len(s) : r[i] = s[j]
  BY <1>1, <1>2
<1>5. ASSUME NEW j \in 1 .. Len(s), j # n PROVE \E i \in 1 .. Len(s) - 1 : r[i] = s[j]
  <2>1. CASE j < n
    BY <1>1, <2>1
  <2>2. CASE j > n
    <3>1. j - 1 \in 1 .. Len(s) - 1 /\ ~ (j - 1 < n) /\ (j - 1) + 1 = j
      BY <1>1, <2>2
    <3>2. r[j - 1] = s[j]
      BY <1>1, <3>1, Zenon
    <3>3. QED
      BY <3>1, <3>2, Zenon
  <2>3. QED
    BY <1>1, <1>5, <2>1, <2>2
<1>6. IsInjective(r)
  BY <1>1, <1>3, Zenon DEF IsInjective
<1>7. \A x : x \in Range(r) <=> \E i \in 1 .. Len(s) - 1 : r[i] = x
  BY <1>1, Zenon DEF Range
<1>8. \A x : x \in Range(s) <=> \E i \in 1 .. Len(s) : s[i] = x
  BY <1>1, Zenon DEF Range
<1>9. \A x : x \in Range(r) <=> x \in Range(s) /\ x # s[n]
  <2>1. ASSUME NEW x, x \in Range(r) PROVE x \in Range(s) /\ x # s[n]
    BY <1>4, <1>7, <1>8, <2>1, Zenon
  <2>2. ASSUME NEW x, x \in Range(s), x # s[n] PROVE x \in Range(r)
    <3> PICK j \in 1 .. Len(s) : s[j] = x
      BY <1>8, <2>2, Zenon
    <3> QED
      BY <1>5, <1>7, <2>2, Zenon
  <2>3. QED
    BY <2>1, <2>2, Zenon
<1>10. QED
  BY <1>6, <1>9, Zenon DEF r

\* The elements of a queue without duplicates after a new one is appended.
LEMMA AppendRange ==
  ASSUME NEW S, NEW s \in Seq(S), IsInjective(s), NEW e \in S, e \notin Range(s)
  PROVE  /\ Append(s, e) \in Seq(S)
         /\ IsInjective(Append(s, e)) /\ Range(Append(s, e)) = Range(s) \cup {e}
<1> DEFINE r == Append(s, e)
<1>1. /\ r \in Seq(S) /\ DOMAIN r = 1 .. Len(s) + 1 /\ DOMAIN s = 1 .. Len(s) /\ Len(s) \in Nat
      /\ \A i \in 1 .. Len(s) : r[i] = s[i]
      /\ r[Len(s) + 1] = e
  OBVIOUS
<1> HIDE DEF r
<1>2. \A i, j \in 1 .. Len(s) : s[i] = s[j] => i = j
  BY <1>1, Zenon DEF IsInjective
<1>3. \A i \in 1 .. Len(s) : s[i] # e
  BY <1>1, Zenon DEF Range
<1>4. \A i, j \in 1 .. Len(s) + 1 : r[i] = r[j] => i = j
  BY <1>1, <1>2, <1>3
<1>5. \A x : (\E i \in 1 .. Len(s) + 1 : r[i] = x) <=> (x = e \/ \E i \in 1 .. Len(s) : s[i] = x)
  BY <1>1
<1>6. QED
  BY <1>1, <1>4, <1>5 DEF IsInjective, Range, r

\* The elements of a queue without duplicates behind its head.
LEMMA TailRange ==
  ASSUME NEW S, NEW s \in Seq(S), IsInjective(s), s # <<>>
  PROVE  /\ Tail(s) \in Seq(S) /\ Head(s) \in Range(s)
         /\ IsInjective(Tail(s)) /\ Range(Tail(s)) = Range(s) \ {Head(s)}
<1> DEFINE r == Tail(s)
<1>1. /\ r \in Seq(S) /\ DOMAIN r = 1 .. Len(s) - 1 /\ DOMAIN s = 1 .. Len(s)
      /\ Len(s) \in Nat \ {0} /\ \A i \in 1 .. Len(s) - 1 : r[i] = s[i + 1]
      /\ Head(s) = s[1]
  OBVIOUS
<1> HIDE DEF r
<1>2. \A i, j \in 1 .. Len(s) : s[i] = s[j] => i = j
  BY <1>1, Zenon DEF IsInjective
<1>3. \A i, j \in 1 .. Len(s) - 1 : r[i] = r[j] => i = j
  BY <1>1, <1>2
<1>4. \A i \in 1 .. Len(s) - 1 : r[i] # s[1] /\ \E j \in 1 .. Len(s) : r[i] = s[j]
  BY <1>1, <1>2
<1>5. ASSUME NEW j \in 1 .. Len(s), j # 1 PROVE \E i \in 1 .. Len(s) - 1 : r[i] = s[j]
  <2>1. j - 1 \in 1 .. Len(s) - 1 /\ (j - 1) + 1 = j
    BY <1>1, <1>5
  <2>2. QED
    BY <1>1, <2>1, Zenon
<1>6. IsInjective(r)
  BY <1>1, <1>3, Zenon DEF IsInjective
<1>7. \A x : x \in Range(r) <=> \E i \in 1 .. Len(s) - 1 : r[i] = x
  BY <1>1, Zenon DEF Range
<1>8. \A x : x \in Range(s) <=> \E i \in 1 .. Len(s) : s[i] = x
  BY <1>1, Zenon DEF Range
<1>9. Range(r) = Range(s) \ {s[1]} /\ s[1] \in Range(s)
  BY <1>1, <1>4, <1>5, <1>7, <1>8
<1>10. QED
  BY <1>1, <1>6, <1>9, Zenon DEF r

\* pruneHistory only drops jobs.
LEMMA TrimSubset == ASSUME NEW h, NEW st PROVE Trim(h, st) \subseteq h
  BY Zenon DEF Trim

\* There are finitely many jobs, so every set of them has a size.
LEMMA JobsFinite ==
  IsFiniteSet(Jobs) /\ \A S \in SUBSET Jobs : IsFiniteSet(S) /\ Cardinality(S) \in Nat
<1>1. IsFiniteSet(Jobs)
  BY JobAssumption, FS_Interval DEF Jobs
<1>2. \A S \in SUBSET Jobs : IsFiniteSet(S)
  BY <1>1, FS_Subset, Zenon
<1>3. QED
  BY <1>1, <1>2, FS_CardinalityType, Zenon

(***************************************************************************)
(* Types, the queue and the keys                                           *)
(***************************************************************************)
\* The jobs that have not been created are those with the higher numbers.
Fresh ==
    \A j \in Jobs : /\ status[j] = "new" <=> j > made
                    /\ status[j] = "new" => retries[j] = 0

\* While Shutdown ranges over the history it stays inside the slice.
ScanShape ==
    lock = "abortStandby" => scan.pos > 0 /\ Cardinality(history) <= Len(scan.arr)

JInv == TypeOK /\ Fresh /\ ScanShape /\ QueueHoldsQueued /\ OneJobPerKey

\* The types of what Finish changes, for a job that exists.
LEMMA FinishTyped ==
  ASSUME TypeOK, Fresh, NEW j \in Jobs, status[j] # "new", NEW ab \in BOOLEAN, Finish(j, ab),
         UNCHANGED <<made, retries>>
  PROVE  /\ status' \in [Jobs -> Statuses] /\ aborted' \subseteq Jobs
         /\ activeKeys' \subseteq Keys /\ history' \subseteq history /\ history' \subseteq Jobs
         /\ Fresh'
<1>1. history' \subseteq history
  BY TrimSubset, Zenon DEF Finish
<1>2. QED
  BY <1>1, Zenon DEF Finish, TypeOK, Fresh, Statuses

\* A queued job is an element of the queue and has been created.
LEMMA QueuedJob ==
  ASSUME TypeOK, QueueHoldsQueued, NEW n \in DOMAIN queue
  PROVE  queue[n] \in Jobs /\ status[queue[n]] = "queued"
<1>1. queue[n] \in Range(queue)
  BY Zenon DEF Range
<1>2. QED
  BY <1>1, Zenon DEF QueueHoldsQueued

\* What creating a job does to the types.
LEMMA EnqueueTyped ==
  ASSUME TypeOK, Fresh, ScanShape, QueueHoldsQueued, NEW k \in Keys, Enqueue(k)
  PROVE  /\ made + 1 \in Jobs /\ status[made + 1] = "new"
         /\ TypeOK' /\ Fresh' /\ ScanShape'
<1> DEFINE j == made + 1
<1>1. j \in Jobs /\ status[j] = "new" /\ retries[j] = 0 /\ j \in 0 .. MaxJobs
  BY JobAssumption DEF Enqueue, TypeOK, Fresh, Jobs
<1> HIDE DEF j
<1>2. /\ made' = j /\ status' = [status EXCEPT ![j] = "queued"] /\ key' = [key EXCEPT ![j] = k]
      /\ queue' = Append(queue, j) /\ activeKeys' = activeKeys \cup {k} /\ lock' = "dispatch"
      /\ UNCHANGED <<retries, aborted, timers, shut, scan>>
      /\ UNCHANGED <<activeExclusive, activeShared, running, groupRunning>>
  BY Zenon DEF Enqueue, j, countVars
<1>3. history' \subseteq history \cup {j}
  BY TrimSubset, Zenon DEF Enqueue, j
<1>4. queue' \in Seq(Jobs)
  BY <1>1, <1>2, AppendProperties, Zenon DEF TypeOK
<1>5. status' \in [Jobs -> Statuses] /\ key' \in [Jobs -> Keys]
  BY <1>1, <1>2, Zenon DEF TypeOK, Statuses
<1>6. \A i \in Jobs : retries'[i] <= RetryMax[key'[i]]
  BY <1>1, <1>2, JobAssumption DEF TypeOK
<1>7. TypeOK'
  BY <1>1, <1>2, <1>3, <1>4, <1>5, <1>6, Zenon DEF TypeOK, Locks
<1>8. Fresh'
  BY <1>1, <1>2 DEF TypeOK, Fresh, Jobs, j
<1>9. ScanShape'
  BY <1>2, Zenon DEF ScanShape
<1>10. QED
  BY <1>1, <1>7, <1>8, <1>9, Zenon DEF j

\* The slice stays a sequence of jobs of the same length when one is cut out.
LEMMA ArrayAfterTyped ==
  ASSUME NEW arr \in Seq(Jobs), NEW old \in SUBSET Jobs, NEW new \in SUBSET Jobs,
         Cardinality(old) <= Len(arr)
  PROVE  ArrayAfter(arr, old, new) \in Seq(Jobs) /\ Len(ArrayAfter(arr, old, new)) = Len(arr)
<1>1. Cardinality(old) \in Nat
  BY JobsFinite, Zenon
<1>2. ASSUME NEW n PROVE CutOut(arr, n, Cardinality(old)) \in Seq(Jobs)
                         /\ Len(CutOut(arr, n, Cardinality(old))) = Len(arr)
  <2> DEFINE c == CutOut(arr, n, Cardinality(old))
  <2>1. arr \in [1 .. Len(arr) -> Jobs] /\ Len(arr) \in Nat /\ DOMAIN arr = 1 .. Len(arr)
    OBVIOUS
  <2>2. c \in [1 .. Len(arr) -> Jobs]
    BY <1>1, <2>1 DEF CutOut
  <2>3. QED
    BY <2>1, <2>2, IsASeq, LenProperties
<1>3. QED
  BY <1>2, Zenon DEF ArrayAfter

\* A step of Shutdown's walk over its copy of the history keeps the types.
LEMMA VisitTyped ==
  ASSUME TypeOK, Fresh, ScanShape, ShutdownVisits
  PROVE  TypeOK' /\ Fresh' /\ ScanShape'
<1> DEFINE j == scan.arr[scan.pos]
<1>1. scan.arr \in Seq(Jobs) /\ scan.pos \in Nat /\ scan.pos > 0 /\ j \in Jobs
      /\ Cardinality(history) <= Len(scan.arr)
  BY DEF ShutdownVisits, TypeOK, ScanShape
<1>2. /\ UNCHANGED <<made, key, retries, queue, timers, shut, lock>>
      /\ UNCHANGED <<activeExclusive, activeShared, running, groupRunning>>
  BY Zenon DEF ShutdownVisits, countVars
<1>3. CASE status[j] = "standby"
  <2>1. Finish(j, TRUE)
        /\ scan' = [arr |-> ArrayAfter(scan.arr, history, history'), pos |-> scan.pos + 1]
    BY <1>3, Zenon DEF ShutdownVisits
  <2> HIDE DEF j
  <2>2. /\ status' \in [Jobs -> Statuses] /\ aborted' \subseteq Jobs
        /\ activeKeys' \subseteq Keys /\ history' \subseteq history /\ history' \subseteq Jobs
        /\ Fresh'
    BY <1>1, <1>2, <1>3, <2>1, FinishTyped, Zenon
  <2>3. ArrayAfter(scan.arr, history, history') \in Seq(Jobs)
        /\ Len(ArrayAfter(scan.arr, history, history')) = Len(scan.arr)
    BY <1>1, <2>2, ArrayAfterTyped, Zenon DEF TypeOK
  <2>4. Cardinality(history') <= Cardinality(history)
        /\ Cardinality(history') \in Nat /\ Cardinality(history) \in Nat
    BY <2>2, JobsFinite, FS_Subset, Zenon DEF TypeOK
  <2> DEFINE na == ArrayAfter(scan.arr, history, history')
  <2>5. na \in Seq(Jobs) /\ Len(na) = Len(scan.arr) /\ scan' = [arr |-> na, pos |-> scan.pos + 1]
    BY <2>1, <2>3, Zenon
  <2> HIDE DEF na
  <2>6. scan' \in [arr : Seq(Jobs), pos : Nat] /\ scan'.arr = na /\ scan'.pos = scan.pos + 1
    BY <1>1, <2>5
  <2>7. Len(scan.arr) \in Nat
    BY <1>1, LenProperties, Zenon
  <2>8. ScanShape'
    BY <1>1, <2>4, <2>5, <2>6, <2>7 DEF ScanShape
  <2>9. TypeOK'
    BY <1>2, <2>2, <2>6, Zenon DEF TypeOK
  <2>10. QED
    BY <2>2, <2>8, <2>9, Zenon
<1>4. CASE status[j] # "standby"
  <2>1. scan' = [scan EXCEPT !.pos = @ + 1] /\ UNCHANGED <<status, aborted, activeKeys, history>>
    BY <1>4, Zenon DEF ShutdownVisits
  <2>2. scan \in [arr : Seq(Jobs), pos : Nat]
    BY Zenon DEF TypeOK
  <2> HIDE DEF j
  <2>3. scan' \in [arr : Seq(Jobs), pos : Nat] /\ scan'.arr = scan.arr /\ scan'.pos = scan.pos + 1
    BY <2>1, <2>2
  <2>4. TypeOK' /\ Fresh'
    BY <1>2, <2>1, <2>3, Zenon DEF TypeOK, Fresh
  <2>5. ScanShape'
    BY <1>1, <1>2, <2>1, <2>3 DEF ScanShape
  <2>6. QED
    BY <2>4, <2>5, Zenon
<1>5. QED
  BY <1>3, <1>4, Zenon

\* The return of a job's function keeps the types.
LEMMA RunReturnsTyped ==
  ASSUME TypeOK, Fresh, ScanShape, NEW j \in Jobs, NEW retryable \in BOOLEAN,
         RunReturns(j, retryable)
  PROVE  TypeOK' /\ Fresh' /\ ScanShape'
<1>1. /\ status[j] = "running" /\ lock' = "dispatch" /\ UNCHANGED <<made, key, queue, shut, scan>>
      /\ CompleteActive(j)
  BY Zenon DEF RunReturns
<1>2. /\ activeExclusive' \subseteq Resources /\ activeShared' \in [Resources -> Int]
      /\ running' \in Int /\ groupRunning' \in [AllGroups -> Int]
  BY <1>1, JobAssumption, SMTT(30) DEF CompleteActive, TypeOK
<1>3. CASE ShouldRetry(j, retryable)
  <2>1. Standby(j) /\ retries[j] < RetryMax[key[j]]
    BY <1>3, Zenon DEF RunReturns, ShouldRetry
  <2>2. status' \in [Jobs -> Statuses] /\ timers' \subseteq Jobs
        /\ UNCHANGED <<aborted, activeKeys, history>>
    BY <2>1, Zenon DEF Standby, TypeOK, Statuses
  <2>3. retries' \in [Jobs -> Nat] /\ \A i \in Jobs : retries'[i] <= RetryMax[key[i]]
    <3>1. retries' = [retries EXCEPT ![j] = @ + 1] /\ retries \in [Jobs -> Nat]
          /\ \A i \in Jobs : retries[i] <= RetryMax[key[i]]
      BY <2>1, Zenon DEF Standby, TypeOK
    <3>2. \A i \in Jobs : RetryMax[key[i]] \in Nat
      BY JobAssumption, Zenon DEF TypeOK
    <3>3. QED
      BY <2>1, <3>1, <3>2
  <2>4. TypeOK'
    BY <1>1, <1>2, <2>2, <2>3, Zenon DEF TypeOK, Locks
  <2>5. Fresh'
    BY <1>1, <2>1, Zenon DEF Standby, TypeOK, Fresh
  <2>6. QED
    BY <1>1, <2>4, <2>5, Zenon DEF ScanShape
<1>4. CASE ~ ShouldRetry(j, retryable)
  <2>1. Finish(j, FALSE) /\ UNCHANGED <<retries, timers>>
    BY <1>4, Zenon DEF RunReturns
  <2>2. /\ status' \in [Jobs -> Statuses] /\ aborted' \subseteq Jobs
        /\ activeKeys' \subseteq Keys /\ history' \subseteq Jobs /\ Fresh'
    BY <1>1, <2>1, FinishTyped, Zenon
  <2>3. TypeOK'
    BY <1>1, <1>2, <2>1, <2>2, Zenon DEF TypeOK, Locks
  <2>4. QED
    BY <1>1, <2>2, <2>3, Zenon DEF ScanShape
<1>5. QED
  BY <1>3, <1>4, Zenon

\* A dispatch keeps the types.
LEMMA DispatchTyped ==
  ASSUME TypeOK, Fresh, ScanShape, QueueHoldsQueued, Dispatch
  PROVE  TypeOK' /\ Fresh' /\ ScanShape'
<1>1. PICK n \in DOMAIN queue : StartJob(queue[n]) /\ queue' = Without(queue, n)
  BY Zenon DEF Dispatch
<1> DEFINE j == queue[n]
<1>2. j \in Jobs /\ status[j] = "queued"
  BY QueuedJob, Zenon
<1>3. queue' \in Seq(Jobs)
  BY <1>1, WithoutEffect, Zenon DEF TypeOK
<1>4. StartJob(j)
  BY <1>1, Zenon
<1>5. UNCHANGED <<made, key, retries, aborted, history, activeKeys, timers, shut, lock, scan>>
  BY Zenon DEF Dispatch
<1> HIDE DEF j
<1>6. /\ activeExclusive' \subseteq Resources /\ activeShared' \in [Resources -> Int]
      /\ running' \in Int /\ groupRunning' \in [AllGroups -> Int]
  <2>1. key[j] \in Keys /\ ExclusiveKeys[key[j]] \subseteq Resources
    BY <1>2, JobAssumption, Zenon DEF TypeOK
  <2>2. activeExclusive' \subseteq Resources
    BY <1>4, <2>1, Zenon DEF StartJob, TypeOK
  <2>3. activeShared' \in [Resources -> Int] /\ running' \in Int
    BY <1>4 DEF StartJob, TypeOK
  <2>4. groupRunning' \in [AllGroups -> Int]
    <3> DEFINE g == Group[key[j]]
    <3>1. g \in AllGroups /\ groupRunning \in [AllGroups -> Int]
      BY <2>1, JobAssumption, Zenon DEF TypeOK
    <3>2. groupRunning' = [groupRunning EXCEPT ![g] = groupRunning[g] + 1]
      BY <1>4, Zenon DEF StartJob
    <3> HIDE DEF g
    <3>3. QED
      BY <3>1, <3>2
  <2>5. QED
    BY <2>2, <2>3, <2>4, Zenon
<1>7. status' \in [Jobs -> Statuses]
  BY <1>4, Zenon DEF StartJob, TypeOK, Statuses
<1>8. TypeOK'
  BY <1>3, <1>5, <1>6, <1>7, Zenon DEF TypeOK
<1>9. Fresh'
  BY <1>2, <1>4, <1>5, Zenon DEF StartJob, TypeOK, Fresh
<1>10. QED
  BY <1>5, <1>8, <1>9, Zenon DEF ScanShape

(***************************************************************************)
(* The steps, by what they do to the jobs                                  *)
(***************************************************************************)
\* A job finishes, its key is given back and everything else stays.
FinishOnly(j) ==
    /\ Finish(j, TRUE) /\ UNCHANGED <<made, key, retries, timers, shut, lock, scan>>
    /\ UNCHANGED <<activeExclusive, activeShared, running, groupRunning>>

\* Ending a job that never ran keeps the types.
LEMMA FinishOnlyTyped ==
  ASSUME TypeOK, Fresh, ScanShape, NEW j \in Jobs, status[j] # "new", FinishOnly(j),
         queue' \in Seq(Jobs)
  PROVE  TypeOK' /\ Fresh' /\ ScanShape'
<1>1. /\ status' \in [Jobs -> Statuses] /\ aborted' \subseteq Jobs
      /\ activeKeys' \subseteq Keys /\ history' \subseteq history /\ history' \subseteq Jobs
      /\ Fresh'
  BY FinishTyped, Zenon DEF FinishOnly
<1>2. Cardinality(history') <= Cardinality(history)
      /\ Cardinality(history') \in Nat /\ Cardinality(history) \in Nat
  BY <1>1, JobsFinite, FS_Subset, Zenon DEF TypeOK
<1>3. Len(scan.arr) \in Nat
  BY LenProperties, Zenon DEF TypeOK
<1>4. TypeOK'
  BY <1>1, Zenon DEF FinishOnly, TypeOK
<1>5. ScanShape'
  BY <1>2, <1>3 DEF FinishOnly, ScanShape
<1>6. QED
  BY <1>1, <1>4, <1>5, Zenon

\* A retry or delay timer that fires keeps the types.
LEMMA TimerFiresTyped ==
  ASSUME TypeOK, Fresh, ScanShape, NEW j \in Jobs, TimerFires(j)
  PROVE  TypeOK' /\ Fresh' /\ ScanShape'
<1>1. queue' \in Seq(Jobs) /\ status' \in [Jobs -> Statuses]
  BY AppendProperties, Zenon DEF TimerFires, TypeOK, Statuses
<1>2. /\ UNCHANGED <<made, key, retries, aborted, history, activeKeys, shut, scan>>
      /\ UNCHANGED <<activeExclusive, activeShared, running, groupRunning>>
      /\ timers' \subseteq timers /\ lock' = "dispatch"
      /\ status[j] = "standby" /\ status' = [status EXCEPT ![j] = "queued"]
  BY Zenon DEF TimerFires, TimerMayRequeue, countVars
<1>3. TypeOK'
  BY <1>1, <1>2, Zenon DEF TypeOK, Locks
<1>4. Fresh'
  BY <1>2, Zenon DEF TypeOK, Fresh
<1>5. QED
  BY <1>2, <1>3, <1>4, Zenon DEF ScanShape

\* Shutdown's copy of the history, taken before it walks the standby jobs, has the
\* shape the walk needs.
LEMMA TurnTyped ==
  ASSUME TypeOK, Fresh, ShutdownTurnsToStandby
  PROVE  TypeOK' /\ Fresh' /\ ScanShape'
<1>1. PICK arr \in [1 .. Cardinality(history) -> history] : scan' = [arr |-> arr, pos |-> 1]
  BY Zenon DEF ShutdownTurnsToStandby
<1>2. Cardinality(history) \in Nat
  BY JobsFinite, Zenon DEF TypeOK
<1>3. arr \in Seq(Jobs) /\ Len(arr) = Cardinality(history)
  <2>1. arr \in [1 .. Cardinality(history) -> Jobs]
    BY Zenon DEF TypeOK
  <2>2. QED
    BY <1>2, <2>1, IsASeq, LenProperties
<1>4. scan' \in [arr : Seq(Jobs), pos : Nat] /\ scan'.arr = arr /\ scan'.pos = 1
  BY <1>1, <1>3, Zenon
<1>5. /\ lock' = "abortStandby" /\ UNCHANGED <<made, status, key, retries, aborted>>
      /\ UNCHANGED <<queue, history, activeKeys, timers, shut>>
      /\ UNCHANGED <<activeExclusive, activeShared, running, groupRunning>>
  BY Zenon DEF ShutdownTurnsToStandby, countVars
<1>6. TypeOK' /\ Fresh'
  BY <1>4, <1>5, Zenon DEF TypeOK, Fresh, Locks
<1>7. QED
  BY <1>2, <1>3, <1>4, <1>5, <1>6 DEF ScanShape

\* A step of the manager's own bookkeeping: no job changes its status, and of
\* the slices only the one that is ranged over may.
Bookkeeping ==
    /\ UNCHANGED <<made, status, key, retries, queue, history, activeKeys>>
    /\ UNCHANGED <<activeExclusive, activeShared, running, groupRunning>>
    /\ aborted' \subseteq aborted \cup Running /\ timers' \subseteq timers

\* These steps only keep the books: no job starts, ends or changes hands.
LEMMA QuietSteps ==
  ASSUME TypeOK,
         \/ DispatchEnds \/ ShutdownCancel \/ ShutdownLocks \/ ShutdownTurnsToStandby
         \/ ShutdownUnlocks \/ ShutdownReturns
         \/ \E j \in Jobs : TimerQuits(j) \/ AbortActive(j)
  PROVE  Bookkeeping
<1>1. CASE \E j \in Jobs : TimerQuits(j) \/ AbortActive(j)
  BY <1>1, Zenon DEF TimerQuits, AbortActive, Bookkeeping, Running, countVars, TypeOK
<1>2. CASE DispatchEnds \/ ShutdownCancel \/ ShutdownLocks
  BY <1>2, Zenon DEF DispatchEnds, ShutdownCancel, ShutdownLocks, Bookkeeping, countVars, TypeOK
<1>3. CASE ShutdownTurnsToStandby \/ ShutdownUnlocks \/ ShutdownReturns
  BY <1>3, Zenon DEF ShutdownTurnsToStandby, ShutdownUnlocks, ShutdownReturns, Bookkeeping,
              countVars, TypeOK
<1>4. QED
  BY <1>1, <1>2, <1>3, Zenon

\* The two ways of ending a job that does not run.
EndQueued(j) ==
    /\ status[j] = "queued" /\ FinishOnly(j)
    /\ \/ \E n \in DOMAIN queue : queue[n] = j /\ queue' = Without(queue, n)
       \/ queue # <<>> /\ Head(queue) = j /\ queue' = Tail(queue)

EndStandby(j) ==
    /\ status[j] = "standby" /\ Finish(j, TRUE) /\ UNCHANGED <<made, key, retries, queue, timers>>
    /\ UNCHANGED <<activeExclusive, activeShared, running, groupRunning>>

\* Either way the job leaves the queue and the others stay in it.
LEMMA EndQueuedLeaves ==
  ASSUME TypeOK, QueueHoldsQueued, NEW j \in Jobs, EndQueued(j)
  PROVE  queue' \in Seq(Jobs) /\ IsInjective(queue') /\ Range(queue') = Range(queue) \ {j}
<1>1. queue \in Seq(Jobs) /\ IsInjective(queue)
  BY Zenon DEF TypeOK, QueueHoldsQueued
<1>2. ASSUME NEW n \in DOMAIN queue, queue[n] = j, queue' = Without(queue, n)
      PROVE  queue' \in Seq(Jobs) /\ IsInjective(queue') /\ Range(queue') = Range(queue) \ {j}
  BY <1>1, <1>2, WithoutEffect, WithoutRange, Zenon
<1>3. ASSUME queue # <<>>, Head(queue) = j, queue' = Tail(queue)
      PROVE  queue' \in Seq(Jobs) /\ IsInjective(queue') /\ Range(queue') = Range(queue) \ {j}
  BY <1>1, <1>3, TailRange, Zenon
<1>4. QED
  BY <1>2, <1>3, Zenon DEF EndQueued

\* Each way Abort and Shutdown end a waiting job is one of two kinds: out of the
\* queue, or out of standby.
LEMMA EndKinds ==
  ASSUME TypeOK, QueueHoldsQueued, ScanShape
  PROVE  /\ \A j \in Jobs : AbortQueued(j) => EndQueued(j)
         /\ \A j \in Jobs : AbortStandby(j) => EndStandby(j) /\ FinishOnly(j)
         /\ ShutdownAbortsQueued => Head(queue) \in Jobs /\ EndQueued(Head(queue))
         /\ ShutdownVisits => Bookkeeping \/ \E j \in Jobs : EndStandby(j)
<1>1. ASSUME NEW j \in Jobs, AbortQueued(j) PROVE EndQueued(j)
  <2>1. PICK n \in DOMAIN queue : queue[n] = j /\ queue' = Without(queue, n)
    BY <1>1, Zenon DEF AbortQueued
  <2>2. status[j] = "queued"
    BY <2>1, QueuedJob, Zenon
  <2>3. FinishOnly(j)
    BY <1>1, Zenon DEF AbortQueued, FinishOnly, countVars
  <2>4. QED
    BY <2>1, <2>2, <2>3, Zenon DEF EndQueued
<1>2. ASSUME NEW j \in Jobs, AbortStandby(j) PROVE EndStandby(j) /\ FinishOnly(j)
  BY <1>2, Zenon DEF AbortStandby, EndStandby, FinishOnly, countVars
<1>3. ASSUME ShutdownAbortsQueued PROVE Head(queue) \in Jobs /\ EndQueued(Head(queue))
  <2>1. queue # <<>> /\ queue \in Seq(Jobs)
    BY <1>3, Zenon DEF ShutdownAbortsQueued, TypeOK
  <2>2. 1 \in DOMAIN queue /\ Head(queue) = queue[1]
    BY <2>1
  <2>3. Head(queue) \in Jobs /\ status[Head(queue)] = "queued"
    BY <2>2, QueuedJob, Zenon
  <2>4. FinishOnly(Head(queue)) /\ queue' = Tail(queue)
    BY <1>3, Zenon DEF ShutdownAbortsQueued, FinishOnly, countVars
  <2>5. QED
    BY <2>1, <2>3, <2>4, Zenon DEF EndQueued
<1>4. ASSUME ShutdownVisits PROVE Bookkeeping \/ \E j \in Jobs : EndStandby(j)
  <2> DEFINE j == scan.arr[scan.pos]
  <2>1. j \in Jobs
    BY <1>4 DEF ShutdownVisits, TypeOK, ScanShape
  <2>2. /\ UNCHANGED <<made, key, retries, queue, timers>>
        /\ UNCHANGED <<activeExclusive, activeShared, running, groupRunning>>
    BY <1>4, Zenon DEF ShutdownVisits, countVars
  <2>3. CASE status[j] = "standby"
    BY <1>4, <2>1, <2>2, <2>3, Zenon DEF ShutdownVisits, EndStandby
  <2>4. CASE status[j] # "standby"
    BY <1>4, <2>2, <2>4, Zenon DEF ShutdownVisits, Bookkeeping, TypeOK
  <2>5. QED
    BY <2>3, <2>4, Zenon
<1>5. QED
  BY <1>1, <1>2, <1>3, <1>4, Zenon

\* Every step is one of seven kinds.
LEMMA StepKinds ==
  ASSUME TypeOK, QueueHoldsQueued, ScanShape, [Next]_vars
  PROVE  \/ Bookkeeping \/ Dispatch
         \/ \E k \in Keys : Enqueue(k)
         \/ \E j \in Jobs : \/ \E retryable \in BOOLEAN : RunReturns(j, retryable)
                            \/ TimerFires(j) \/ EndQueued(j) \/ EndStandby(j)
<1>1. CASE UNCHANGED vars
  BY <1>1, Zenon DEF vars, countVars, Bookkeeping, TypeOK
<1>2. ASSUME NEW j \in Jobs, Rerun(j) PROVE \E k \in Keys : Enqueue(k)
  BY <1>2, Zenon DEF Rerun, TypeOK
<1>3. CASE \/ DispatchEnds \/ ShutdownCancel \/ ShutdownLocks \/ ShutdownTurnsToStandby
           \/ ShutdownUnlocks \/ ShutdownReturns
           \/ \E j \in Jobs : TimerQuits(j) \/ AbortActive(j)
  BY <1>3, QuietSteps, Zenon
<1>4. QED
  BY <1>1, <1>2, <1>3, EndKinds, Zenon DEF Next, ShutdownStep

\* Every step keeps the types.
LEMMA TypeStep ==
  ASSUME TypeOK, Fresh, ScanShape, QueueHoldsQueued, [Next]_vars
  PROVE  TypeOK' /\ Fresh' /\ ScanShape'
<1>1. ASSUME NEW k \in Keys, Enqueue(k) PROVE TypeOK' /\ Fresh' /\ ScanShape'
  BY <1>1, EnqueueTyped, Zenon
<1>2. ASSUME NEW j \in Jobs, Rerun(j) PROVE TypeOK' /\ Fresh' /\ ScanShape'
  BY <1>1, <1>2, Zenon DEF Rerun, TypeOK
<1>3. ASSUME NEW j \in Jobs, EndQueued(j) PROVE TypeOK' /\ Fresh' /\ ScanShape'
  <2>1. queue' \in Seq(Jobs)
    BY <1>3, EndQueuedLeaves, Zenon
  <2>2. QED
    BY <1>3, <2>1, FinishOnlyTyped, Zenon DEF EndQueued
<1>4. ASSUME NEW j \in Jobs, AbortStandby(j) PROVE TypeOK' /\ Fresh' /\ ScanShape'
  <2>1. FinishOnly(j) /\ status[j] # "new" /\ queue' \in Seq(Jobs)
    BY <1>4, EndKinds, Zenon DEF EndStandby, TypeOK
  <2>2. QED
    BY <2>1, FinishOnlyTyped, Zenon
<1>5. CASE \/ DispatchEnds \/ ShutdownCancel \/ ShutdownLocks \/ ShutdownReturns
           \/ \E j \in Jobs : TimerQuits(j) \/ AbortActive(j)
  <2>1. Bookkeeping
    BY <1>5, QuietSteps, Zenon
  <2>2. scan' = scan /\ lock' \in Locks /\ (lock' = lock \/ lock' # "abortStandby")
        /\ shut' \in {"no", "cancelled", "waiting", "returned"}
    BY <1>5, Zenon DEF DispatchEnds, ShutdownCancel, ShutdownLocks, ShutdownReturns, TimerQuits,
                AbortActive, TypeOK, Locks
  <2>3. QED
    BY <2>1, <2>2, Zenon DEF Bookkeeping, Running, TypeOK, Fresh, ScanShape
<1>6. CASE ShutdownUnlocks
  <2>1. NoScan \in [arr : Seq(Jobs), pos : Nat]
    BY EmptySeq, Zenon DEF NoScan
  <2>2. Bookkeeping /\ scan' = NoScan /\ lock' = "free" /\ shut' = "waiting"
    BY <1>6, QuietSteps, Zenon DEF ShutdownUnlocks
  <2>3. QED
    BY <2>1, <2>2, Zenon DEF Bookkeeping, Running, TypeOK, Fresh, ScanShape, Locks
<1>7. CASE UNCHANGED vars
  BY <1>7, Zenon DEF vars, countVars, TypeOK, Fresh, ScanShape
<1>8. QED
  BY <1>1, <1>2, <1>3, <1>4, <1>5, <1>6, <1>7, EndKinds, DispatchTyped, RunReturnsTyped,
     TimerFiresTyped, TurnTyped, VisitTyped, ZenonT(60) DEF Next, ShutdownStep

(***************************************************************************)
(* The queue                                                               *)
(***************************************************************************)
\* QueueHoldsQueued, elementwise.
LEMMA QueueMembers ==
  ASSUME QueueHoldsQueued, NEW j \in Jobs
  PROVE  j \in Range(queue) <=> status[j] = "queued"
  BY Zenon DEF QueueHoldsQueued

\* Every step keeps the queue equal to the jobs whose status is queued, each once.
LEMMA QueueStep ==
  ASSUME TypeOK, Fresh, ScanShape, QueueHoldsQueued, [Next]_vars
  PROVE  QueueHoldsQueued'
<1>0. queue \in Seq(Jobs) /\ IsInjective(queue) /\ status \in [Jobs -> Statuses]
      /\ Range(queue) = {i \in Jobs : status[i] = "queued"}
  BY Zenon DEF TypeOK, QueueHoldsQueued
<1>1. CASE Bookkeeping
  BY <1>1, Zenon DEF Bookkeeping, QueueHoldsQueued
<1>2. CASE Dispatch
  <2>1. PICK n \in DOMAIN queue : StartJob(queue[n]) /\ queue' = Without(queue, n)
    BY <1>2, Zenon DEF Dispatch
  <2>2. IsInjective(queue') /\ Range(queue') = Range(queue) \ {queue[n]}
    BY <1>0, <2>1, WithoutRange, Zenon
  <2>3. status' = [status EXCEPT ![queue[n]] = "running"] /\ queue[n] \in Jobs
    BY <2>1, QueuedJob, Zenon DEF StartJob
  <2>4. QED
    BY <1>0, <2>2, <2>3, Zenon DEF QueueHoldsQueued
<1>3. ASSUME NEW k \in Keys, Enqueue(k) PROVE QueueHoldsQueued'
  <2> DEFINE j == made + 1
  <2>1. j \in Jobs /\ status[j] = "new"
    BY <1>3, EnqueueTyped, Zenon
  <2>2. j \notin Range(queue)
    BY <1>0, <2>1, Zenon
  <2>3. queue' = Append(queue, j) /\ status' = [status EXCEPT ![j] = "queued"]
    BY <1>3, Zenon DEF Enqueue
  <2> HIDE DEF j
  <2>4. IsInjective(queue') /\ Range(queue') = Range(queue) \cup {j}
    BY <1>0, <2>1, <2>2, <2>3, AppendRange, SMTT(30)
  <2>5. QED
    BY <1>0, <2>1, <2>3, <2>4, Zenon DEF QueueHoldsQueued
<1>4. ASSUME NEW j \in Jobs, NEW retryable \in BOOLEAN, RunReturns(j, retryable)
      PROVE  QueueHoldsQueued'
  <2>1. queue' = queue /\ status[j] = "running"
        /\ \/ status' = [status EXCEPT ![j] = "standby"]
           \/ status' = [status EXCEPT ![j] = "finished"]
    BY <1>4, Zenon DEF RunReturns, Standby, Finish
  <2>2. QED
    BY <1>0, <2>1, Zenon DEF QueueHoldsQueued
<1>5. ASSUME NEW j \in Jobs, TimerFires(j) PROVE QueueHoldsQueued'
  <2>1. status[j] = "standby" /\ queue' = Append(queue, j)
        /\ status' = [status EXCEPT ![j] = "queued"]
    BY <1>5, Zenon DEF TimerFires, TimerMayRequeue
  <2>2. IsInjective(queue') /\ Range(queue') = Range(queue) \cup {j}
    BY <1>0, <2>1, AppendRange
  <2>3. QED
    BY <1>0, <2>1, <2>2, Zenon DEF QueueHoldsQueued
<1>6. ASSUME NEW j \in Jobs, EndQueued(j) PROVE QueueHoldsQueued'
  <2>1. status' = [status EXCEPT ![j] = "finished"]
    BY <1>6, Zenon DEF EndQueued, FinishOnly, Finish
  <2>2. QED
    BY <1>0, <1>6, <2>1, EndQueuedLeaves, Zenon DEF QueueHoldsQueued
<1>7. ASSUME NEW j \in Jobs, EndStandby(j) PROVE QueueHoldsQueued'
  <2>1. status[j] = "standby" /\ queue' = queue /\ status' = [status EXCEPT ![j] = "finished"]
    BY <1>7, Zenon DEF EndStandby, Finish
  <2>2. QED
    BY <1>0, <2>1, Zenon DEF QueueHoldsQueued
<1>8. QED
  BY <1>1, <1>2, <1>3, <1>4, <1>5, <1>6, <1>7, StepKinds, ZenonT(60)

(***************************************************************************)
(* The keys                                                                *)
(***************************************************************************)
\* A step that keeps the unfinished jobs, their keys and activeKeys.
LEMMA KeysKept ==
  ASSUME OneJobPerKey, Unfinished' = Unfinished, UNCHANGED <<key, activeKeys>>
  PROVE  OneJobPerKey'
  BY Zenon DEF OneJobPerKey

\* finish gives back the key of the job it ends and no other.
LEMMA KeyGivenBack ==
  ASSUME TypeOK, OneJobPerKey, NEW j \in Unfinished, NEW ab \in BOOLEAN, Finish(j, ab), key' = key
  PROVE  OneJobPerKey'
<1>1. Unfinished' = Unfinished \ {j}
  BY Zenon DEF Finish, TypeOK, Unfinished
<1>2. \A i \in Unfinished : key[i] = key[j] => i = j
  BY Zenon DEF OneJobPerKey
<1>3. activeKeys' = activeKeys \ {key[j]}
  BY Zenon DEF Finish
<1>4. QED
  BY <1>1, <1>2, <1>3, Zenon DEF OneJobPerKey

\* Every step keeps one unfinished job per key.
LEMMA KeyStep ==
  ASSUME TypeOK, Fresh, ScanShape, QueueHoldsQueued, OneJobPerKey, [Next]_vars
  PROVE  OneJobPerKey'
<1>1. CASE Bookkeeping
  BY <1>1, KeysKept, Zenon DEF Bookkeeping, Unfinished
<1>2. CASE Dispatch
  <2>1. PICK n \in DOMAIN queue : StartJob(queue[n])
    BY <1>2, Zenon DEF Dispatch
  <2>2. queue[n] \in Jobs /\ status[queue[n]] = "queued"
    BY QueuedJob, Zenon
  <2>3. Unfinished' = Unfinished
    BY <2>1, <2>2, Zenon DEF StartJob, TypeOK, Unfinished
  <2>4. QED
    BY <1>2, <2>3, KeysKept, Zenon DEF Dispatch
<1>3. ASSUME NEW k \in Keys, Enqueue(k) PROVE OneJobPerKey'
  <2> DEFINE j == made + 1
  <2>1. j \in Jobs /\ status[j] = "new"
    BY <1>3, EnqueueTyped, Zenon
  <2>2. /\ status' = [status EXCEPT ![j] = "queued"] /\ key' = [key EXCEPT ![j] = k]
        /\ k \notin activeKeys /\ activeKeys' = activeKeys \cup {k}
    BY <1>3, Zenon DEF Enqueue
  <2> HIDE DEF j
  <2>3. Unfinished' = Unfinished \cup {j} /\ j \notin Unfinished
    BY <2>1, <2>2, Zenon DEF TypeOK, Unfinished
  <2>4. key'[j] = k /\ \A i \in Unfinished : key'[i] = key[i]
    BY <2>1, <2>2, <2>3, Zenon DEF TypeOK, Unfinished
  <2>5. \A i \in Unfinished : key[i] # k
    BY <2>2, Zenon DEF OneJobPerKey
  <2>6. \A h, i \in Unfinished' : key'[h] = key'[i] => h = i
    BY <2>3, <2>4, <2>5, SMTT(30) DEF OneJobPerKey
  <2>7. activeKeys' = {key'[i] : i \in Unfinished'}
    BY <2>2, <2>3, <2>4 DEF OneJobPerKey
  <2>8. QED
    BY <2>6, <2>7, Zenon DEF OneJobPerKey
<1>4. ASSUME NEW j \in Jobs, NEW retryable \in BOOLEAN, RunReturns(j, retryable)
      PROVE  OneJobPerKey'
  <2>1. key' = key /\ status[j] = "running" /\ j \in Unfinished
    BY <1>4, Zenon DEF RunReturns, Unfinished
  <2>2. CASE Finish(j, FALSE)
    BY <2>1, <2>2, KeyGivenBack, Zenon
  <2>3. CASE Standby(j)
    <3>1. Unfinished' = Unfinished /\ activeKeys' = activeKeys
      BY <2>1, <2>3, Zenon DEF Standby, TypeOK, Unfinished
    <3>2. QED
      BY <2>1, <3>1, KeysKept, Zenon
  <2>4. QED
    BY <1>4, <2>2, <2>3, Zenon DEF RunReturns
<1>5. ASSUME NEW j \in Jobs, TimerFires(j) PROVE OneJobPerKey'
  <2>1. Unfinished' = Unfinished
    BY <1>5, Zenon DEF TimerFires, TimerMayRequeue, TypeOK, Unfinished
  <2>2. QED
    BY <1>5, <2>1, KeysKept, Zenon DEF TimerFires
<1>6. ASSUME NEW j \in Jobs, EndQueued(j) PROVE OneJobPerKey'
  <2>1. j \in Unfinished /\ Finish(j, TRUE) /\ key' = key
    BY <1>6, Zenon DEF EndQueued, FinishOnly, Unfinished
  <2>2. QED
    BY <2>1, KeyGivenBack, Zenon
<1>7. ASSUME NEW j \in Jobs, EndStandby(j) PROVE OneJobPerKey'
  <2>1. j \in Unfinished /\ Finish(j, TRUE) /\ key' = key
    BY <1>7, Zenon DEF EndStandby, Unfinished
  <2>2. QED
    BY <2>1, KeyGivenBack, Zenon
<1>8. QED
  BY <1>1, <1>2, <1>3, <1>4, <1>5, <1>6, <1>7, StepKinds, ZenonT(60)

\* The initial state satisfies the inductive invariant.
LEMMA JInit == Init => JInv
<1> SUFFICES ASSUME Init PROVE JInv
  BY Zenon
<1>1. queue = <<>> /\ queue \in Seq(Jobs) /\ DOMAIN queue = {}
  BY EmptySeq DEF Init
<1>2. NoScan \in [arr : Seq(Jobs), pos : Nat]
  BY EmptySeq, Zenon DEF NoScan
<1>3. (CHOOSE k \in Keys : TRUE) \in Keys
  BY JobAssumption, Zenon
<1>4. TypeOK
  BY <1>1, <1>2, <1>3, JobAssumption, SMTT(60) DEF Init, TypeOK, Statuses, Locks
<1>5. Fresh /\ ScanShape
  BY DEF Init, Fresh, ScanShape, Jobs
<1>6. QueueHoldsQueued
  BY <1>1, Zenon DEF Init, QueueHoldsQueued, IsInjective, Range
<1>7. OneJobPerKey
  BY Zenon DEF Init, OneJobPerKey, Unfinished
<1>8. QED
  BY <1>4, <1>5, <1>6, <1>7, Zenon DEF JInv

\* Every step preserves the inductive invariant.
LEMMA JStep == JInv /\ [Next]_vars => JInv'
  BY TypeStep, QueueStep, KeyStep, Zenon DEF JInv

\* The retry counter, the slices and the maps keep their types for every set of
\* definitions, so RetryDelays and the history are never indexed out of range.
THEOREM TypeCorrect == Spec => []TypeOK
<1>1. JInv => TypeOK
  BY Zenon DEF JInv
<1>2. QED
  BY <1>1, JInit, JStep, PTL DEF Spec
=============================================================================
