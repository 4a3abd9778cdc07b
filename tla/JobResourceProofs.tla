------------------------- MODULE JobResourceProofs --------------------------
(***************************************************************************)
(* The counters of the job manager are those of the running jobs, readers  *)
(* and writers of a resource exclude each other, the limits hold, no       *)
(* unfinished job is lost from the history and no job starts too early.    *)
(***************************************************************************)
EXTENDS JobManagerProofs, WellFoundedInduction

RInv == JInv /\ CountsMatch /\ ReadersAndWritersExclude

\* Adding a job to a set of jobs adds one to its size.
LEMMA CardinalityAdd ==
  ASSUME NEW S \in SUBSET Jobs, NEW j \in Jobs, j \notin S
  PROVE  Cardinality(S \cup {j}) = Cardinality(S) + 1
  BY JobsFinite, FS_AddElement, Zenon

\* Removing a job from a set of jobs takes one from its size.
LEMMA CardinalityDrop ==
  ASSUME NEW S \in SUBSET Jobs, NEW j \in S
  PROVE  Cardinality(S \ {j}) = Cardinality(S) - 1
  BY JobsFinite, FS_RemoveElement, Zenon

\* A step that neither starts nor ends a run and keeps the counters.
LEMMA RunsKept ==
  ASSUME CountsMatch, ReadersAndWritersExclude, Running' = Running,
         \A j \in Running : key'[j] = key[j],
         UNCHANGED <<activeExclusive, activeShared, running, groupRunning>>
  PROVE  CountsMatch' /\ ReadersAndWritersExclude'
<1>1. \A g \in AllGroups :
        {j \in Running' : Group[key'[j]] = g} = {j \in Running : Group[key[j]] = g}
  BY Zenon
<1>2. {ExclusiveKeys[key'[j]] : j \in Running'} = {ExclusiveKeys[key[j]] : j \in Running}
  BY Zenon
<1>3. \A x \in Resources :
        {j \in Running' : x \in SharedKeys[key'[j]]} = {j \in Running : x \in SharedKeys[key[j]]}
  BY Zenon
<1>4. CountsMatch'
  BY <1>1, <1>2, <1>3, Zenon DEF CountsMatch
<1>5. QED
  BY <1>4, Zenon DEF ReadersAndWritersExclude

\* startJob counts the job it starts, and starts it only beside compatible ones.
LEMMA StartCounts ==
  ASSUME TypeOK, CountsMatch, ReadersAndWritersExclude, NEW j \in Jobs, j \notin Running,
         StartJob(j), ResourcesFree(key[j]), key' = key
  PROVE  CountsMatch' /\ ReadersAndWritersExclude'
<1>0. key[j] \in Keys /\ Group[key[j]] \in AllGroups
      /\ ExclusiveKeys[key[j]] \subseteq Resources /\ SharedKeys[key[j]] \subseteq Resources
      /\ \A i \in Jobs : ExclusiveKeys[key[i]] \subseteq Resources
  BY JobAssumption, Zenon DEF TypeOK
<1>1. Running' = Running \cup {j} /\ Running \subseteq Jobs
  BY Zenon DEF StartJob, TypeOK, Running
<1>2. running' = Cardinality(Running')
  BY <1>1, CardinalityAdd, Zenon DEF CountsMatch, StartJob
<1>3. ASSUME NEW g \in AllGroups
      PROVE  groupRunning'[g] = Cardinality({i \in Running' : Group[key'[i]] = g})
  <2> DEFINE S == {i \in Running : Group[key[i]] = g}  T == {i \in Running' : Group[key'[i]] = g}
  <2>0. groupRunning[g] = Cardinality(S) /\ S \in SUBSET Jobs /\ j \notin S
    BY <1>1, Zenon DEF CountsMatch
  <2>1. CASE Group[key[j]] = g
    <3>1. T = S \cup {j}
      BY <1>1, <2>1, Zenon
    <3>2. groupRunning'[g] = groupRunning[g] + 1
      BY <2>1, Zenon DEF StartJob, TypeOK
    <3> HIDE DEF S
    <3>3. QED
      BY <2>0, <3>1, <3>2, CardinalityAdd, Zenon
  <2>2. CASE Group[key[j]] # g
    <3>1. T = S
      BY <1>1, <2>2, Zenon
    <3>2. groupRunning'[g] = groupRunning[g]
      BY <2>2, Zenon DEF StartJob, TypeOK
    <3>3. QED
      BY <2>0, <3>1, <3>2, Zenon
  <2>3. QED
    BY <2>1, <2>2, Zenon
<1>4. activeExclusive' = UNION {ExclusiveKeys[key'[i]] : i \in Running'}
  <2>1. \A x : x \in activeExclusive <=> \E i \in Running : x \in ExclusiveKeys[key[i]]
    BY Zenon DEF CountsMatch
  <2>2. \A x : x \in activeExclusive' <=> \E i \in Running' : x \in ExclusiveKeys[key'[i]]
    BY <1>1, <2>1, Zenon DEF StartJob
  <2>3. QED
    BY <2>2, Zenon
<1>5. ASSUME NEW x \in Resources
      PROVE  activeShared'[x] = Cardinality({i \in Running' : x \in SharedKeys[key'[i]]})
  <2> DEFINE S == {i \in Running : x \in SharedKeys[key[i]]}
             T == {i \in Running' : x \in SharedKeys[key'[i]]}
  <2>0. activeShared[x] = Cardinality(S) /\ S \in SUBSET Jobs /\ j \notin S
    BY <1>1, Zenon DEF CountsMatch
  <2>1. CASE x \in SharedKeys[key[j]]
    <3>1. T = S \cup {j}
      BY <1>1, <2>1, Zenon
    <3>2. activeShared'[x] = activeShared[x] + 1
      BY <2>1, Zenon DEF StartJob
    <3> HIDE DEF S
    <3>3. QED
      BY <2>0, <3>1, <3>2, CardinalityAdd, Zenon
  <2>2. CASE x \notin SharedKeys[key[j]]
    <3>1. T = S
      BY <1>1, <2>2, Zenon
    <3>2. activeShared'[x] = activeShared[x]
      BY <2>2, Zenon DEF StartJob
    <3>3. QED
      BY <2>0, <3>1, <3>2, Zenon
  <2>3. QED
    BY <2>1, <2>2, Zenon
<1>6. CountsMatch'
  BY <1>2, <1>3, <1>4, <1>5, Zenon DEF CountsMatch
<1>7. ASSUME NEW i \in Running
      PROVE  /\ ExclusiveKeys[key[i]] \cap (ExclusiveKeys[key[j]] \cup SharedKeys[key[j]]) = {}
             /\ ExclusiveKeys[key[j]] \cap (ExclusiveKeys[key[i]] \cup SharedKeys[key[i]]) = {}
  <2>1. ExclusiveKeys[key[i]] \subseteq activeExclusive
    BY Zenon DEF CountsMatch
  <2>2. \A x \in SharedKeys[key[i]] \cap Resources : activeShared[x] # 0
    <3> SUFFICES ASSUME NEW x \in SharedKeys[key[i]] \cap Resources PROVE activeShared[x] # 0
      BY Zenon
    <3> DEFINE S == {h \in Running : x \in SharedKeys[key[h]]}
    <3>1. activeShared[x] = Cardinality(S) /\ i \in S /\ S \in SUBSET Jobs
      BY <1>1, Zenon DEF CountsMatch
    <3> HIDE DEF S
    <3>2. IsFiniteSet(S) /\ S # {}
      BY <3>1, JobsFinite, Zenon
    <3>3. QED
      BY <3>1, <3>2, FS_EmptySet, Zenon
  <2>3. QED
    BY <1>0, <2>1, <2>2, Zenon DEF ResourcesFree
<1>8. ReadersAndWritersExclude'
  BY <1>1, <1>7, Zenon DEF ReadersAndWritersExclude
<1>9. QED
  BY <1>6, <1>8, Zenon

\* completeActive takes back exactly what startJob counted for the job.
LEMMA CompleteCounts ==
  ASSUME TypeOK, CountsMatch, ReadersAndWritersExclude, NEW j \in Running,
         CompleteActive(j), Running' = Running \ {j}, key' = key
  PROVE  CountsMatch' /\ ReadersAndWritersExclude'
<1>1. Running \subseteq Jobs /\ key[j] \in Keys /\ Group[key[j]] \in AllGroups
  BY JobAssumption, Zenon DEF TypeOK, Running
<1>2. running' = Cardinality(Running')
  BY <1>1, CardinalityDrop, Zenon DEF CountsMatch, CompleteActive
<1>3. ASSUME NEW g \in AllGroups
      PROVE  groupRunning'[g] = Cardinality({i \in Running' : Group[key'[i]] = g})
  <2> DEFINE S == {i \in Running : Group[key[i]] = g}  T == {i \in Running' : Group[key'[i]] = g}
  <2>0. groupRunning[g] = Cardinality(S) /\ S \in SUBSET Jobs
    BY <1>1, Zenon DEF CountsMatch
  <2>1. CASE Group[key[j]] = g
    <3>1. T = S \ {j} /\ j \in S
      BY <2>1, Zenon
    <3>2. groupRunning'[g] = groupRunning[g] - 1
      BY <2>1, Zenon DEF CompleteActive, TypeOK
    <3> HIDE DEF S
    <3>3. QED
      BY <2>0, <3>1, <3>2, CardinalityDrop, Zenon
  <2>2. CASE Group[key[j]] # g
    <3>1. T = S
      BY <2>2, Zenon
    <3>2. groupRunning'[g] = groupRunning[g]
      BY <2>2, Zenon DEF CompleteActive, TypeOK
    <3>3. QED
      BY <2>0, <3>1, <3>2, Zenon
  <2>3. QED
    BY <2>1, <2>2, Zenon
<1>4. activeExclusive' = UNION {ExclusiveKeys[key'[i]] : i \in Running'}
  \* no other running job has an exclusive key of j's: removing them is exact
  <2>1. \A x : x \in activeExclusive <=> \E i \in Running : x \in ExclusiveKeys[key[i]]
    BY Zenon DEF CountsMatch
  <2>2. \A i \in Running : i # j => ExclusiveKeys[key[i]] \cap ExclusiveKeys[key[j]] = {}
    BY Zenon DEF ReadersAndWritersExclude
  <2>3. activeExclusive' = activeExclusive \ ExclusiveKeys[key[j]]
    BY Zenon DEF CompleteActive
  <2>4. \A x : x \in activeExclusive' <=> \E i \in Running' : x \in ExclusiveKeys[key'[i]]
    BY <2>1, <2>2, <2>3, Zenon
  <2>5. QED
    BY <2>4, Zenon
<1>5. ASSUME NEW x \in Resources
      PROVE  activeShared'[x] = Cardinality({i \in Running' : x \in SharedKeys[key'[i]]})
  <2> DEFINE S == {i \in Running : x \in SharedKeys[key[i]]}
             T == {i \in Running' : x \in SharedKeys[key'[i]]}
  <2>0. activeShared[x] = Cardinality(S) /\ S \in SUBSET Jobs
    BY <1>1, Zenon DEF CountsMatch
  <2>1. CASE x \in SharedKeys[key[j]]
    <3>1. T = S \ {j} /\ j \in S
      BY <2>1, Zenon
    <3>2. activeShared'[x] = activeShared[x] - 1
      BY <2>1, Zenon DEF CompleteActive
    <3> HIDE DEF S
    <3>3. QED
      BY <2>0, <3>1, <3>2, CardinalityDrop, Zenon
  <2>2. CASE x \notin SharedKeys[key[j]]
    <3>1. T = S
      BY <2>2, Zenon
    <3>2. activeShared'[x] = activeShared[x]
      BY <2>2, Zenon DEF CompleteActive
    <3>3. QED
      BY <2>0, <3>1, <3>2, Zenon
  <2>3. QED
    BY <2>1, <2>2, Zenon
<1>6. CountsMatch'
  BY <1>2, <1>3, <1>4, <1>5, Zenon DEF CountsMatch
<1>7. QED
  BY <1>6, Zenon DEF ReadersAndWritersExclude

\* Every step of the manager keeps the counters equal to what the running jobs hold.
LEMMA RStep == RInv /\ [Next]_vars => RInv'
<1> SUFFICES ASSUME RInv, [Next]_vars PROVE RInv'
  BY Zenon
<1>0. TypeOK /\ Fresh /\ ScanShape /\ QueueHoldsQueued /\ CountsMatch /\ ReadersAndWritersExclude
      /\ status \in [Jobs -> Statuses]
  BY Zenon DEF RInv, JInv, TypeOK
<1>1. ASSUME Bookkeeping PROVE CountsMatch' /\ ReadersAndWritersExclude'
  BY <1>0, <1>1, RunsKept, Zenon DEF Bookkeeping, Running
<1>2. ASSUME Dispatch PROVE CountsMatch' /\ ReadersAndWritersExclude'
  <2>1. PICK n \in DOMAIN queue : IsSelected(n) /\ StartJob(queue[n])
    BY <1>2, Zenon DEF Dispatch
  <2>2. queue[n] \in Jobs /\ status[queue[n]] = "queued"
    BY <1>0, QueuedJob, Zenon
  <2>3. ResourcesFree(key[queue[n]]) /\ key' = key /\ queue[n] \notin Running
    BY <1>2, <2>1, <2>2, Zenon DEF Dispatch, IsSelected, Eligible, Running
  <2>4. QED
    BY <1>0, <2>1, <2>2, <2>3, StartCounts, Zenon
<1>3. ASSUME NEW k \in Keys, Enqueue(k) PROVE CountsMatch' /\ ReadersAndWritersExclude'
  <2> DEFINE j == made + 1
  <2>1. j \in Jobs /\ status[j] = "new"
    BY <1>0, <1>3, EnqueueTyped, Zenon
  <2>2. /\ status' = [status EXCEPT ![j] = "queued"] /\ key' = [key EXCEPT ![j] = k]
        /\ UNCHANGED <<activeExclusive, activeShared, running, groupRunning>>
    BY <1>3, Zenon DEF Enqueue, countVars
  <2> HIDE DEF j
  <2>3. Running' = Running /\ \A i \in Running : key'[i] = key[i]
    BY <1>0, <2>1, <2>2, Zenon DEF TypeOK, Running
  <2>4. QED
    BY <1>0, <2>2, <2>3, RunsKept, Zenon
<1>4. ASSUME NEW j \in Jobs, NEW retryable \in BOOLEAN, RunReturns(j, retryable)
      PROVE  CountsMatch' /\ ReadersAndWritersExclude'
  <2>1. /\ j \in Running /\ CompleteActive(j) /\ key' = key
        /\ \/ status' = [status EXCEPT ![j] = "standby"]
           \/ status' = [status EXCEPT ![j] = "finished"]
    BY <1>4, Zenon DEF RunReturns, Standby, Finish, Running
  <2>2. Running' = Running \ {j}
    BY <1>0, <2>1, Zenon DEF Running
  <2>3. QED
    BY <1>0, <2>1, <2>2, CompleteCounts, Zenon
<1>5. ASSUME NEW j \in Jobs, TimerFires(j) \/ EndQueued(j) \/ EndStandby(j)
      PROVE  CountsMatch' /\ ReadersAndWritersExclude'
  <2>1. /\ status[j] \in {"queued", "standby"} /\ key' = key
        /\ UNCHANGED <<activeExclusive, activeShared, running, groupRunning>>
        /\ \/ status' = [status EXCEPT ![j] = "queued"]
           \/ status' = [status EXCEPT ![j] = "finished"]
    BY <1>5, Zenon DEF TimerFires, TimerMayRequeue, EndQueued, EndStandby, FinishOnly, Finish,
        countVars
  <2>2. Running' = Running
    BY <1>0, <2>1, Zenon DEF Running
  <2>3. QED
    BY <1>0, <2>1, <2>2, RunsKept, Zenon
<1>6. CountsMatch' /\ ReadersAndWritersExclude'
  BY <1>0, <1>1, <1>2, <1>3, <1>4, <1>5, StepKinds, Zenon
<1>7. QED
  BY <1>6, JStep, Zenon DEF RInv

\* The counters start at zero, with nothing running.
LEMMA RInit == Init => RInv
<1> SUFFICES ASSUME Init PROVE RInv
  BY Zenon
<1>1. Running = {}
  BY Zenon DEF Init, Running
<1>2. Cardinality({}) = 0
  BY FS_EmptySet, Zenon
<1>3. CountsMatch
  BY <1>1, <1>2, Zenon DEF Init, CountsMatch
<1>4. QED
  BY <1>1, <1>3, JInit, Zenon DEF RInv, ReadersAndWritersExclude

\* Two running jobs never share a resource that one of them holds exclusively,
\* for every set of definitions (startJobLocked, completeActiveLocked).
THEOREM ResourcesCorrect == Spec => []ReadersAndWritersExclude
<1>1. RInv => ReadersAndWritersExclude
  BY Zenon DEF RInv
<1>2. QED
  BY <1>1, RInit, RStep, PTL DEF Spec

(***************************************************************************)
(* The limits                                                              *)
(***************************************************************************)
\* The running jobs of the independent groups.
IndependentJobs == {j \in Running : Group[key[j]] \in IndependentGroups}

\* The slots that the independent groups fill are as many as their jobs.
SlotsMatch == /\ IsFiniteSet(IndependentSlots)
              /\ Cardinality(IndependentSlots) = Cardinality(IndependentJobs)

LInv == RInv /\ SlotsMatch /\ WithinLimits

\* A step that neither starts nor ends a run keeps the limits.
LEMMA LimitsKept ==
  ASSUME SlotsMatch, WithinLimits, Running' = Running, groupRunning' = groupRunning,
         \A j \in Running : key'[j] = key[j]
  PROVE  SlotsMatch' /\ WithinLimits'
<1>1. IndependentSlots' = IndependentSlots
  BY Zenon DEF IndependentSlots
<1>2. IndependentJobs' = IndependentJobs
  BY Zenon DEF IndependentJobs
<1>3. {j \in Running' : Group[key'[j]] \notin IndependentGroups}
      = {j \in Running : Group[key[j]] \notin IndependentGroups}
  BY Zenon
<1>4. \A g \in Groups : {j \in Running' : Group[key'[j]] = g} = {j \in Running : Group[key[j]] = g}
  BY Zenon
<1>5. QED
  BY <1>1, <1>2, <1>3, <1>4, Zenon DEF SlotsMatch, WithinLimits

\* What the slots are, as pairs.
LEMMA SlotIs ==
  ASSUME NEW g, NEW n
  PROVE  <<g, n>> \in IndependentSlots <=> g \in IndependentGroups /\ n \in 1 .. groupRunning[g]
  BY DEF IndependentSlots

\* startJob fills the next slot of an independent group.
LEMMA SlotFilled ==
  ASSUME NEW g \in AllGroups, groupRunning \in [AllGroups -> Nat], SlotsMatch,
         groupRunning' = [groupRunning EXCEPT ![g] = @ + 1]
  PROVE  /\ IsFiniteSet(IndependentSlots')
         /\ Cardinality(IndependentSlots') =
                IF g \in IndependentGroups THEN Cardinality(IndependentSlots) + 1
                ELSE Cardinality(IndependentSlots)
<1>0. IndependentGroups \subseteq AllGroups
  BY JobAssumption, Zenon DEF AllGroups
<1>1. CASE g \in IndependentGroups
  <2> DEFINE p == <<g, groupRunning[g] + 1>>
  <2>1. p \notin IndependentSlots
    BY SlotIs
  <2>2. 1 .. groupRunning'[g] = (1 .. groupRunning[g]) \cup {groupRunning[g] + 1}
    OBVIOUS
  <2>3. {g} \X (1 .. groupRunning'[g]) = ({g} \X (1 .. groupRunning[g])) \cup {p}
    BY <2>2
  <2>4. \A h \in IndependentGroups : h # g => groupRunning'[h] = groupRunning[h]
    BY <1>0, Zenon
  <2>5. IndependentSlots' = IndependentSlots \cup {p}
    BY <1>1, <2>3, <2>4 DEF IndependentSlots
  <2> HIDE DEF p
  <2>6. QED
    BY <1>1, <2>1, <2>5, FS_AddElement, Zenon DEF SlotsMatch
<1>2. CASE g \notin IndependentGroups
  <2>1. \A h \in IndependentGroups : groupRunning'[h] = groupRunning[h]
    BY <1>0, <1>2, Zenon
  <2>2. IndependentSlots' = IndependentSlots
    BY <2>1, Zenon DEF IndependentSlots
  <2>3. QED
    BY <1>2, <2>2, Zenon DEF SlotsMatch
<1>3. QED
  BY <1>1, <1>2, Zenon

\* completeActive empties the last slot of an independent group.
LEMMA SlotEmptied ==
  ASSUME NEW g \in AllGroups, groupRunning \in [AllGroups -> Nat], SlotsMatch,
         groupRunning[g] > 0, groupRunning' = [groupRunning EXCEPT ![g] = @ - 1]
  PROVE  /\ IsFiniteSet(IndependentSlots')
         /\ Cardinality(IndependentSlots') =
                IF g \in IndependentGroups THEN Cardinality(IndependentSlots) - 1
                ELSE Cardinality(IndependentSlots)
<1>0. IndependentGroups \subseteq AllGroups
  BY JobAssumption, Zenon DEF AllGroups
<1>1. CASE g \in IndependentGroups
  <2> DEFINE p == <<g, groupRunning[g]>>
  <2>1. p \in IndependentSlots
    BY <1>1, SlotIs
  <2>2. 1 .. groupRunning'[g] = (1 .. groupRunning[g]) \ {groupRunning[g]}
    OBVIOUS
  <2>3. {g} \X (1 .. groupRunning'[g]) = ({g} \X (1 .. groupRunning[g])) \ {p}
    BY <2>2
  <2>4. \A h \in IndependentGroups : h # g => groupRunning'[h] = groupRunning[h]
    BY <1>0, Zenon
  <2>5. IndependentSlots' = IndependentSlots \ {p}
    BY <1>1, <2>3, <2>4 DEF IndependentSlots
  <2> HIDE DEF p
  <2>6. QED
    BY <1>1, <2>1, <2>5, FS_RemoveElement, Zenon DEF SlotsMatch
<1>2. CASE g \notin IndependentGroups
  <2>1. \A h \in IndependentGroups : groupRunning'[h] = groupRunning[h]
    BY <1>0, <1>2, Zenon
  <2>2. IndependentSlots' = IndependentSlots
    BY <2>1, Zenon DEF IndependentSlots
  <2>3. QED
    BY <1>2, <2>2, Zenon DEF SlotsMatch
<1>3. QED
  BY <1>1, <1>2, Zenon

\* The group counters are never negative.
LEMMA GroupCounts ==
  ASSUME TypeOK, CountsMatch
  PROVE  groupRunning \in [AllGroups -> Nat]
<1>1. ASSUME NEW g \in AllGroups PROVE groupRunning[g] \in Nat
  <2>1. {j \in Running : Group[key[j]] = g} \in SUBSET Jobs
    BY Zenon DEF Running
  <2>2. QED
    BY <2>1, JobsFinite, Zenon DEF CountsMatch
<1>2. QED
  BY <1>1, Zenon DEF TypeOK

\* SharedRunning counts the running jobs outside the independent groups.
LEMMA SharedRunningCounts ==
  ASSUME CountsMatch, SlotsMatch
  PROVE  SharedRunning = Cardinality({j \in Running : Group[key[j]] \notin IndependentGroups})
<1> DEFINE S == {j \in Running : Group[key[j]] \notin IndependentGroups}
<1>1. Running \in SUBSET Jobs /\ IndependentJobs \in SUBSET Jobs
  BY Zenon DEF Running, IndependentJobs
<1>2. S = Running \ IndependentJobs /\ Running \cap IndependentJobs = IndependentJobs
  BY Zenon DEF IndependentJobs
<1>3. Cardinality(S) = Cardinality(Running) - Cardinality(IndependentJobs)
  BY <1>1, <1>2, JobsFinite, FS_Difference, Zenon
<1>4. QED
  BY <1>3, Zenon DEF SharedRunning, CountsMatch, SlotsMatch

\* A job that starts where there is room leaves the limits kept.
LEMMA StartLimits ==
  ASSUME TypeOK, CountsMatch, SlotsMatch, WithinLimits, NEW j \in Jobs, j \notin Running,
         StartJob(j), HasRoom(key[j]), key' = key
  PROVE  SlotsMatch' /\ WithinLimits'
<1> DEFINE g == Group[key[j]]
           S == {i \in Running : Group[key[i]] \notin IndependentGroups}
<1>0. /\ g \in AllGroups /\ groupRunning \in [AllGroups -> Nat]
      /\ Running \in SUBSET Jobs /\ IndependentJobs \in SUBSET Jobs /\ S \in SUBSET Jobs
      /\ j \notin IndependentJobs /\ j \notin S
  BY GroupCounts, JobAssumption, Zenon DEF TypeOK, Running, IndependentJobs
<1>1. Running' = Running \cup {j} /\ groupRunning' = [groupRunning EXCEPT ![g] = @ + 1]
  BY Zenon DEF StartJob, TypeOK, Running
<1>2. SlotsMatch'
  <2>1. CASE g \in IndependentGroups
    <3>1. IndependentJobs' = IndependentJobs \cup {j}
      BY <1>1, <2>1, Zenon DEF IndependentJobs
    <3>2. Cardinality(IndependentJobs') = Cardinality(IndependentJobs) + 1
      BY <1>0, <3>1, CardinalityAdd, Zenon
    <3>3. QED
      BY <1>0, <1>1, <2>1, <3>2, SlotFilled, Zenon DEF SlotsMatch
  <2>2. CASE g \notin IndependentGroups
    <3>1. IndependentJobs' = IndependentJobs
      BY <1>1, <2>2, Zenon DEF IndependentJobs
    <3>2. QED
      BY <1>0, <1>1, <2>2, <3>1, SlotFilled, Zenon DEF SlotsMatch
  <2>3. QED
    BY <2>1, <2>2, Zenon
<1>3. Cardinality({i \in Running' : Group[key'[i]] \notin IndependentGroups}) <= MaxConcurrent
  <2> DEFINE T == {i \in Running' : Group[key'[i]] \notin IndependentGroups}
  <2>1. CASE g \in IndependentGroups
    <3>1. T = S
      BY <1>1, <2>1, Zenon
    <3>2. QED
      BY <3>1, Zenon DEF WithinLimits
  <2>2. CASE g \notin IndependentGroups
    <3>1. T = S \cup {j}
      BY <1>1, <2>2, Zenon
    <3>2. Cardinality(T) = Cardinality(S) + 1 /\ Cardinality(S) \in Nat
      BY <1>0, <3>1, CardinalityAdd, JobsFinite, Zenon
    <3>3. Cardinality(S) < MaxConcurrent
      BY <2>2, SharedRunningCounts, Zenon DEF HasRoom
    <3> HIDE DEF S, T
    <3>4. QED
      BY <3>2, <3>3, JobAssumption DEF T
  <2>3. QED
    BY <2>1, <2>2, Zenon
<1>4. ASSUME NEW h \in Groups
      PROVE  Cardinality({i \in Running' : Group[key'[i]] = h}) <= GroupLimits[h]
  <2> DEFINE U == {i \in Running : Group[key[i]] = h}
             T == {i \in Running' : Group[key'[i]] = h}
  <2>1. CASE g # h
    <3>1. T = U
      BY <1>1, <2>1, Zenon
    <3>2. QED
      BY <3>1, Zenon DEF WithinLimits
  <2>2. CASE g = h
    <3>1. T = U \cup {j} /\ U \in SUBSET Jobs /\ j \notin U
      BY <1>0, <1>1, <2>2, Zenon
    <3>2. Cardinality(T) = Cardinality(U) + 1 /\ Cardinality(U) \in Nat
      BY <3>1, CardinalityAdd, JobsFinite, Zenon
    <3>3. Cardinality(U) < GroupLimits[h]
      BY <1>0, <2>2, JobAssumption, SMTT(30) DEF HasRoom, CountsMatch, AllGroups
    <3> HIDE DEF U, T
    <3>4. QED
      BY <3>2, <3>3, JobAssumption DEF T
  <2>3. QED
    BY <2>1, <2>2, Zenon
<1>5. QED
  BY <1>2, <1>3, <1>4, Zenon DEF WithinLimits

\* A run that ends leaves the limits kept.
LEMMA CompleteLimits ==
  ASSUME TypeOK, CountsMatch, SlotsMatch, WithinLimits, NEW j \in Running,
         CompleteActive(j), Running' = Running \ {j}, key' = key
  PROVE  SlotsMatch' /\ WithinLimits'
<1> DEFINE g == Group[key[j]]
<1>0. /\ g \in AllGroups /\ groupRunning \in [AllGroups -> Nat]
      /\ Running \in SUBSET Jobs /\ IndependentJobs \in SUBSET Jobs
      /\ groupRunning' = [groupRunning EXCEPT ![g] = @ - 1]
  BY GroupCounts, JobAssumption, Zenon DEF TypeOK, Running, IndependentJobs, CompleteActive
<1>1. groupRunning[g] > 0
  <2> DEFINE U == {i \in Running : Group[key[i]] = g}
  <2>1. U \in SUBSET Jobs /\ j \in U /\ groupRunning[g] = Cardinality(U)
    BY <1>0, Zenon DEF CountsMatch
  <2> HIDE DEF U, g
  <2>2. IsFiniteSet(U) /\ Cardinality(U) # 0
    BY <2>1, JobsFinite, FS_EmptySet, Zenon
  <2>3. QED
    BY <1>0, <2>1, <2>2
<1>2. SlotsMatch'
  <2>1. CASE g \in IndependentGroups
    <3>1. IndependentJobs' = IndependentJobs \ {j} /\ j \in IndependentJobs
      BY <2>1, Zenon DEF IndependentJobs
    <3>2. Cardinality(IndependentJobs') = Cardinality(IndependentJobs) - 1
      BY <1>0, <3>1, CardinalityDrop, Zenon
    <3>3. QED
      BY <1>0, <1>1, <2>1, <3>2, SlotEmptied, Zenon DEF SlotsMatch
  <2>2. CASE g \notin IndependentGroups
    <3>1. IndependentJobs' = IndependentJobs
      BY <2>2, Zenon DEF IndependentJobs
    <3>2. QED
      BY <1>0, <1>1, <2>2, <3>1, SlotEmptied, Zenon DEF SlotsMatch
  <2>3. QED
    BY <2>1, <2>2, Zenon
<1>3. ASSUME NEW S \in SUBSET Jobs, NEW T \in SUBSET S, NEW n \in Nat, Cardinality(S) <= n
      PROVE  Cardinality(T) <= n
  BY <1>3, JobsFinite, FS_Subset
<1>4. Cardinality({i \in Running' : Group[key'[i]] \notin IndependentGroups}) <= MaxConcurrent
  <2> DEFINE S == {i \in Running : Group[key[i]] \notin IndependentGroups}
             T == {i \in Running' : Group[key'[i]] \notin IndependentGroups}
  <2>1. S \in SUBSET Jobs /\ T \in SUBSET S /\ Cardinality(S) <= MaxConcurrent
    BY <1>0, Zenon DEF WithinLimits
  <2> HIDE DEF S, T
  <2>2. QED
    BY <1>3, <2>1, JobAssumption, Zenon DEF T
<1>5. ASSUME NEW h \in Groups
      PROVE  Cardinality({i \in Running' : Group[key'[i]] = h}) <= GroupLimits[h]
  <2> DEFINE S == {i \in Running : Group[key[i]] = h}
             T == {i \in Running' : Group[key'[i]] = h}
  <2>1. S \in SUBSET Jobs /\ T \in SUBSET S /\ Cardinality(S) <= GroupLimits[h]
    BY <1>0, Zenon DEF WithinLimits
  <2> HIDE DEF S, T
  <2>2. QED
    BY <1>3, <2>1, JobAssumption, Zenon DEF T
<1>6. QED
  BY <1>2, <1>4, <1>5, Zenon DEF WithinLimits

\* Every step of the manager keeps the limits.
LEMMA LStep == LInv /\ [Next]_vars => LInv'
<1> SUFFICES ASSUME LInv, [Next]_vars PROVE LInv'
  BY Zenon
<1>0. /\ TypeOK /\ Fresh /\ ScanShape /\ QueueHoldsQueued /\ CountsMatch
      /\ SlotsMatch /\ WithinLimits /\ status \in [Jobs -> Statuses]
  BY Zenon DEF LInv, RInv, JInv, TypeOK
<1>1. ASSUME Bookkeeping PROVE SlotsMatch' /\ WithinLimits'
  BY <1>0, <1>1, LimitsKept, Zenon DEF Bookkeeping, Running
<1>2. ASSUME Dispatch PROVE SlotsMatch' /\ WithinLimits'
  <2>1. PICK n \in DOMAIN queue : IsSelected(n) /\ StartJob(queue[n])
    BY <1>2, Zenon DEF Dispatch
  <2>2. queue[n] \in Jobs /\ status[queue[n]] = "queued"
    BY <1>0, QueuedJob, Zenon
  <2>3. HasRoom(key[queue[n]]) /\ key' = key /\ queue[n] \notin Running
    BY <1>2, <2>1, <2>2, Zenon DEF Dispatch, IsSelected, Eligible, Running
  <2>4. QED
    BY <1>0, <2>1, <2>2, <2>3, StartLimits, ZenonT(60)
<1>3. ASSUME NEW k \in Keys, Enqueue(k) PROVE SlotsMatch' /\ WithinLimits'
  <2> DEFINE j == made + 1
  <2>1. j \in Jobs /\ status[j] = "new"
    BY <1>0, <1>3, EnqueueTyped, Zenon
  <2>2. /\ status' = [status EXCEPT ![j] = "queued"] /\ key' = [key EXCEPT ![j] = k]
        /\ groupRunning' = groupRunning
    BY <1>3, Zenon DEF Enqueue, countVars
  <2> HIDE DEF j
  <2>3. Running' = Running /\ \A i \in Running : key'[i] = key[i]
    BY <1>0, <2>1, <2>2, Zenon DEF TypeOK, Running
  <2>4. QED
    BY <1>0, <2>2, <2>3, LimitsKept, Zenon
<1>4. ASSUME NEW j \in Jobs, NEW retryable \in BOOLEAN, RunReturns(j, retryable)
      PROVE  SlotsMatch' /\ WithinLimits'
  <2>1. /\ j \in Running /\ CompleteActive(j) /\ key' = key
        /\ \/ status' = [status EXCEPT ![j] = "standby"]
           \/ status' = [status EXCEPT ![j] = "finished"]
    BY <1>4, Zenon DEF RunReturns, Standby, Finish, Running
  <2>2. Running' = Running \ {j}
    BY <1>0, <2>1, Zenon DEF Running
  <2>3. QED
    BY <1>0, <2>1, <2>2, CompleteLimits, Zenon
<1>5. ASSUME NEW j \in Jobs, TimerFires(j) \/ EndQueued(j) \/ EndStandby(j)
      PROVE  SlotsMatch' /\ WithinLimits'
  <2>1. /\ status[j] \in {"queued", "standby"} /\ key' = key /\ groupRunning' = groupRunning
        /\ \/ status' = [status EXCEPT ![j] = "queued"]
           \/ status' = [status EXCEPT ![j] = "finished"]
    BY <1>5, Zenon DEF TimerFires, TimerMayRequeue, EndQueued, EndStandby, FinishOnly, Finish,
        countVars
  <2>2. Running' = Running
    BY <1>0, <2>1, Zenon DEF Running
  <2>3. QED
    BY <1>0, <2>1, <2>2, LimitsKept, Zenon
<1>6. SlotsMatch' /\ WithinLimits'
  BY <1>0, <1>1, <1>2, <1>3, <1>4, <1>5, StepKinds, ZenonT(60)
<1>7. QED
  BY <1>6, RStep, Zenon DEF LInv

\* The counters of the manager are right and its limits hold at every instant,
\* for every choice of definitions, groups and limits (popRunnableQueueLocked,
\* startJobLocked, completeActiveLocked).
THEOREM LimitsCorrect == Spec => []LimitsHold
<1>1. Init => LInv
  <2> SUFFICES ASSUME Init PROVE SlotsMatch /\ WithinLimits
    BY RInit, Zenon DEF LInv
  <2>1. Running = {} /\ IsFiniteSet({}) /\ Cardinality({}) = 0
    BY FS_EmptySet, Zenon DEF Init, Running
  <2>2. IndependentGroups \subseteq AllGroups
    BY JobAssumption, Zenon DEF AllGroups
  <2>3. \A g \in IndependentGroups : 1 .. groupRunning[g] = {}
    BY <2>2 DEF Init
  <2>4. IndependentSlots = {}
    BY <2>3, Zenon DEF IndependentSlots
  <2>5. IndependentJobs = {}
    BY <2>1, Zenon DEF IndependentJobs
  <2>6. QED
    BY <2>1, <2>4, <2>5, JobAssumption, SMTT(30) DEF SlotsMatch, WithinLimits
<1>2. LInv => LimitsHold
  BY Zenon DEF LInv, RInv, LimitsHold
<1>3. QED
  BY <1>1, <1>2, LStep, PTL DEF Spec

(***************************************************************************)
(* The history                                                             *)
(***************************************************************************)
\* The oldest of some jobs.
LEMMA OldestJob ==
  ASSUME NEW S \in SUBSET Jobs, S # {}
  PROVE  \E m \in S : \A i \in S : m <= i
<1>1. S \subseteq Nat
  BY DEF Jobs
<1>2. PICK m \in S : \A i \in S : ~ (<<i, m>> \in OpToRel(<, Nat))
  BY <1>1, NatLessThanWellFounded, WFMin, Zenon
<1>3. \A i \in S : ~ (i < m)
  BY <1>1, <1>2, Zenon DEF OpToRel
<1>4. QED
  BY <1>1, <1>3

\* Trim drops no unfinished job.
LEMMA TrimKeeps ==
  ASSUME NEW h, NEW st, NEW j \in h, st[j] # "finished"
  PROVE  j \in Trim(h, st)
  BY Zenon DEF Trim

\* A history that was at its limit, or had no finished job in it, is so again
\* after one job was added or has finished.
LEMMA TrimLimit ==
  ASSUME NEW h \in SUBSET Jobs, NEW st, NEW e,
         Cardinality(h) <= MaxHistory + 1 \/ \A j \in h : st[j] = "finished" => j = e
  PROVE  \/ Cardinality(Trim(h, st)) <= MaxHistory
         \/ \A j \in Trim(h, st) : st[j] # "finished"
<1> DEFINE F == {j \in h : st[j] = "finished"}
           T == Trim(h, st)
<1>0. /\ IsFiniteSet(h) /\ Cardinality(h) \in Nat /\ MaxHistory \in Nat
      /\ T \subseteq h /\ Cardinality(T) \in Nat
  BY JobsFinite, JobAssumption, TrimSubset, Zenon
<1>1. CASE Cardinality(h) <= MaxHistory
  <2>1. Cardinality(T) <= Cardinality(h)
    BY <1>0, FS_Subset, Zenon
  <2> HIDE DEF T
  <2>2. QED
    BY <1>0, <1>1, <2>1 DEF T
<1>2. CASE Cardinality(h) > MaxHistory /\ F = {}
  BY <1>0, <1>2, Zenon
<1>3. CASE Cardinality(h) > MaxHistory /\ F # {}
  <2>1. PICK m \in F : \A i \in F : m <= i
    BY <1>3, OldestJob, Zenon
  <2>0. h \subseteq Nat
    BY DEF Jobs
  <2>2. F \subseteq Nat /\ m \in h
    BY <2>0, Zenon
  <2> HIDE DEF F
  <2>a. \A i \in F : i <= m <=> i = m
    BY <2>1, <2>2
  <2>b. {i \in F : i <= m} = {m}
    BY <2>1, <2>a, Zenon
  <2>3. Cardinality({i \in F : i <= m}) = 1
    BY <2>b, FS_Singleton, Zenon
  <2>4. m \notin T
    BY <1>0, <1>3, <2>3, SMTT(30) DEF Trim, F
  <2>5. CASE Cardinality(h) <= MaxHistory + 1
    <3>1. T \subseteq h \ {m} /\ IsFiniteSet(h \ {m}) /\ Cardinality(h \ {m}) = Cardinality(h) - 1
      BY <1>0, <2>2, <2>4, FS_RemoveElement, Zenon
    <3>2. Cardinality(T) <= Cardinality(h \ {m})
      BY <3>1, FS_Subset, Zenon
    <3> HIDE DEF T
    <3>3. QED
      BY <1>0, <2>5, <3>1, <3>2, SMTT(30) DEF T
  <2>6. CASE \A j \in h : st[j] = "finished" => j = e
    BY <1>0, <2>1, <2>4, <2>6, Zenon DEF F
  <2>7. QED
    BY <2>5, <2>6, Zenon
<1>4. QED
  BY <1>0, <1>1, <1>2, <1>3, SMTT(30)

\* Every step keeps the unfinished jobs in the history and the history short.
LEMMA HistoryStep ==
  ASSUME JInv, HistoryComplete, [Next]_vars
  PROVE  HistoryComplete'
<1>0. /\ TypeOK /\ Fresh /\ ScanShape /\ QueueHoldsQueued
      /\ status \in [Jobs -> Statuses] /\ history \in SUBSET Jobs
      /\ Cardinality(history) \in Nat /\ MaxHistory \in Nat
  BY JobsFinite, JobAssumption, Zenon DEF JInv, TypeOK
<1>1. ASSUME history' = history, NEW j \in Jobs, status[j] \in {"queued", "running", "standby"},
             NEW s \in {"queued", "running", "standby"}, status' = [status EXCEPT ![j] = s]
      PROVE  HistoryComplete'
  BY <1>0, <1>1, Zenon DEF HistoryComplete, Unfinished
<1>2. ASSUME NEW j \in Jobs, NEW ab \in BOOLEAN, Finish(j, ab), status[j] # "new"
      PROVE  HistoryComplete'
  <2>1. status' = [status EXCEPT ![j] = "finished"] /\ history' = Trim(history, status')
    BY <1>2, Zenon DEF Finish
  <2>2. Unfinished' \subseteq history'
    BY <1>0, <2>1, TrimKeeps, Zenon DEF HistoryComplete, Unfinished
  <2>3. \/ Cardinality(history) <= MaxHistory + 1
        \/ \A i \in history : status'[i] = "finished" => i = j
    BY <1>0, <2>1 DEF HistoryComplete
  <2>4. \/ Cardinality(Trim(history, status')) <= MaxHistory
        \/ \A i \in Trim(history, status') : status'[i] # "finished"
    BY <1>0, <2>3, TrimLimit, Zenon
  <2>5. QED
    BY <2>1, <2>2, <2>4, Zenon DEF HistoryComplete
<1>3. ASSUME NEW k \in Keys, Enqueue(k) PROVE HistoryComplete'
  <2> DEFINE j == made + 1
             h == history \cup {j}
  <2>1. j \in Jobs /\ status[j] = "new"
    BY <1>0, <1>3, EnqueueTyped, Zenon
  <2>2. status' = [status EXCEPT ![j] = "queued"] /\ history' = Trim(h, status')
    BY <1>3, Zenon DEF Enqueue
  <2> HIDE DEF j
  <2>3. Unfinished' \subseteq history'
    BY <1>0, <2>1, <2>2, TrimKeeps, Zenon DEF HistoryComplete, Unfinished
  <2>4. h \in SUBSET Jobs /\ Cardinality(h) <= Cardinality(history) + 1
    BY <1>0, <2>1, JobsFinite, FS_AddElement
  <2>5. Cardinality(h) <= MaxHistory + 1 \/ \A i \in h : status'[i] = "finished" => i = j
    <3>1. CASE Cardinality(history) <= MaxHistory
      <4>1. Cardinality(h) \in Nat
        BY <2>4, JobsFinite, Zenon
      <4> HIDE DEF h
      <4>2. QED
        BY <1>0, <2>4, <3>1, <4>1
    <3>2. CASE \A i \in history : status[i] # "finished"
      BY <1>0, <2>1, <2>2, <3>2, Zenon
    <3>3. QED
      BY <3>1, <3>2, Zenon DEF HistoryComplete
  <2> HIDE DEF h
  <2>6. \/ Cardinality(Trim(h, status')) <= MaxHistory
        \/ \A i \in Trim(h, status') : status'[i] # "finished"
    BY <2>4, <2>5, TrimLimit, Zenon
  <2>7. QED
    BY <2>2, <2>3, <2>6, Zenon DEF HistoryComplete
<1>4. CASE Bookkeeping
  BY <1>4, Zenon DEF Bookkeeping, HistoryComplete, Unfinished
<1>5. CASE Dispatch
  <2>1. PICK n \in DOMAIN queue : StartJob(queue[n])
    BY <1>5, Zenon DEF Dispatch
  <2>2. queue[n] \in Jobs /\ status[queue[n]] = "queued"
    BY <1>0, QueuedJob, Zenon
  <2>3. QED
    BY <1>1, <1>5, <2>1, <2>2, Zenon DEF Dispatch, StartJob
<1>6. ASSUME NEW j \in Jobs, NEW retryable \in BOOLEAN, RunReturns(j, retryable)
      PROVE  HistoryComplete'
  <2>1. CASE Finish(j, FALSE)
    BY <1>2, <1>6, <2>1, Zenon DEF RunReturns
  <2>2. CASE Standby(j)
    BY <1>1, <1>6, <2>2, Zenon DEF RunReturns, Standby
  <2>3. QED
    BY <1>6, <2>1, <2>2, Zenon DEF RunReturns
<1>7. ASSUME NEW j \in Jobs, TimerFires(j) PROVE HistoryComplete'
  BY <1>1, <1>7, Zenon DEF TimerFires, TimerMayRequeue
<1>8. ASSUME NEW j \in Jobs, EndQueued(j) \/ EndStandby(j) PROVE HistoryComplete'
  <2>1. Finish(j, TRUE) /\ status[j] # "new"
    BY <1>8, Zenon DEF EndQueued, EndStandby, FinishOnly
  <2>2. QED
    BY <1>2, <2>1, Zenon
<1>9. QED
  BY <1>0, <1>3, <1>4, <1>5, <1>6, <1>7, <1>8, StepKinds, ZenonT(60)

\* Keys, queue and history are three accounts of the same unfinished jobs.
THEOREM JobsAccountedFor == Spec => []JobsAccounted
<1>1. Init => JInv /\ HistoryComplete
  <2> SUFFICES ASSUME Init PROVE HistoryComplete
    BY JInit, Zenon
  <2>1. Cardinality({}) = 0
    BY FS_EmptySet, Zenon
  <2>2. QED
    BY <2>1, JobAssumption, Zenon DEF Init, HistoryComplete, Unfinished
<1>2. JInv /\ HistoryComplete /\ [Next]_vars => JInv' /\ HistoryComplete'
  BY JStep, HistoryStep, Zenon
<1>3. JInv /\ HistoryComplete => JobsAccounted
  BY Zenon DEF JInv, JobsAccounted
<1>4. QED
  BY <1>1, <1>2, <1>3, PTL DEF Spec

(***************************************************************************)
(* Starting a job                                                          *)
(***************************************************************************)
\* No job that may still start was aborted.
Unaborted == \A j \in Jobs : status[j] \in {"new", "queued", "standby"} => j \notin aborted

\* Every step keeps the aborted jobs from starting.
LEMMA UnabortedStep ==
  ASSUME JInv, Unaborted, [Next]_vars
  PROVE  Unaborted'
<1>0. /\ TypeOK /\ Fresh /\ ScanShape /\ QueueHoldsQueued
      /\ status \in [Jobs -> Statuses]
  BY Zenon DEF JInv, TypeOK
<1>1. ASSUME Bookkeeping PROVE Unaborted'
  BY <1>1, Zenon DEF Bookkeeping, Unaborted, Running
<1>2. ASSUME Dispatch PROVE Unaborted'
  <2>1. PICK n \in DOMAIN queue : StartJob(queue[n])
    BY <1>2, Zenon DEF Dispatch
  <2>2. queue[n] \in Jobs
    BY <1>0, QueuedJob, Zenon
  <2>3. QED
    BY <1>0, <1>2, <2>1, <2>2, Zenon DEF Dispatch, StartJob, Unaborted
<1>3. ASSUME NEW k \in Keys, Enqueue(k) PROVE Unaborted'
  <2> DEFINE j == made + 1
  <2>1. j \in Jobs /\ status[j] = "new"
    BY <1>0, <1>3, EnqueueTyped, Zenon
  <2>2. status' = [status EXCEPT ![j] = "queued"] /\ aborted' = aborted
    BY <1>3, Zenon DEF Enqueue
  <2> HIDE DEF j
  <2>3. QED
    BY <1>0, <2>1, <2>2, Zenon DEF Unaborted
<1>4. ASSUME NEW j \in Jobs, NEW retryable \in BOOLEAN, RunReturns(j, retryable)
      PROVE  Unaborted'
  <2>1. \/ status' = [status EXCEPT ![j] = "standby"] /\ j \notin aborted /\ aborted' = aborted
        \/ status' = [status EXCEPT ![j] = "finished"] /\ aborted' = aborted
    BY <1>4, Zenon DEF RunReturns, ShouldRetry, Standby, Finish
  <2>2. QED
    BY <1>0, <2>1, Zenon DEF Unaborted
<1>5. ASSUME NEW j \in Jobs, TimerFires(j) \/ EndQueued(j) \/ EndStandby(j)
      PROVE  Unaborted'
  <2>1. \/ status' = [status EXCEPT ![j] = "queued"] /\ j \notin aborted /\ aborted' = aborted
        \/ status' = [status EXCEPT ![j] = "finished"] /\ aborted' \subseteq aborted \cup {j}
    BY <1>5, Zenon DEF TimerFires, TimerMayRequeue, EndQueued, EndStandby, FinishOnly, Finish
  <2>2. QED
    BY <1>0, <2>1, Zenon DEF Unaborted
<1>6. QED
  BY <1>0, <1>1, <1>2, <1>3, <1>4, <1>5, StepKinds, ZenonT(60)

\* A step that starts a job is a Dispatch that selected it.
LEMMA StartsAreDispatched ==
  ASSUME JInv, [Next]_vars, NEW j \in Jobs, status[j] # "running", status'[j] = "running"
  PROVE  /\ shut = "no" /\ status[j] = "queued" /\ DependenciesMet(key[j])
<1>0. /\ TypeOK /\ Fresh /\ ScanShape /\ QueueHoldsQueued
      /\ status \in [Jobs -> Statuses]
  BY Zenon DEF JInv, TypeOK
<1>1. ~ Bookkeeping
  BY Zenon DEF Bookkeeping
<1>2. ~ \E k \in Keys : Enqueue(k)
  BY <1>0, Zenon DEF Enqueue
<1>3. ASSUME NEW i \in Jobs
      PROVE  ~ (\/ \E retryable \in BOOLEAN : RunReturns(i, retryable)
                \/ TimerFires(i) \/ EndQueued(i) \/ EndStandby(i))
  BY <1>0, Zenon DEF RunReturns, Standby, Finish, TimerFires, EndQueued, EndStandby, FinishOnly
<1>4. Dispatch
  BY <1>0, <1>1, <1>2, <1>3, StepKinds, ZenonT(60)
<1>5. PICK n \in DOMAIN queue : IsSelected(n) /\ StartJob(queue[n])
  BY <1>4, Zenon DEF Dispatch
<1>6. queue[n] \in Jobs /\ status[queue[n]] = "queued"
  BY <1>0, QueuedJob, Zenon
<1>7. j = queue[n]
  BY <1>0, <1>5, <1>6, Zenon DEF StartJob
<1>8. QED
  BY <1>4, <1>5, <1>6, <1>7, ZenonT(60) DEF Dispatch, IsSelected, Eligible

\* A job starts only when no job it depends on is unfinished, it was not
\* aborted and Shutdown has not begun (dispatchLocked, Abort, standbyLocked).
THEOREM StartsCorrect == Spec => StartsAreAllowed
<1>1. Init => JInv /\ Unaborted
  BY JInit, Zenon DEF Init, Unaborted
<1>2. JInv /\ Unaborted /\ [Next]_vars => JInv' /\ Unaborted'
  BY JStep, UnabortedStep, Zenon
<1>3. JInv /\ Unaborted /\ [Next]_vars =>
        [\A j \in Jobs :
            status[j] # "running" /\ status'[j] = "running" =>
                /\ j \notin aborted /\ shut = "no"
                /\ \A i \in Unfinished : key[i] \notin DependsOn[key[j]]]_vars
  <2> SUFFICES ASSUME JInv, Unaborted, [Next]_vars, NEW j \in Jobs,
                      status[j] # "running", status'[j] = "running"
               PROVE  /\ j \notin aborted /\ shut = "no"
                      /\ \A i \in Unfinished : key[i] \notin DependsOn[key[j]]
    BY Zenon
  <2>1. shut = "no" /\ status[j] = "queued" /\ DependsOn[key[j]] \cap activeKeys = {}
    BY StartsAreDispatched, Zenon DEF DependenciesMet
  <2>2. activeKeys = {key[i] : i \in Unfinished}
    BY Zenon DEF JInv, OneJobPerKey
  <2>3. QED
    BY <2>1, <2>2, Zenon DEF Unaborted
<1>4. QED
  BY <1>1, <1>2, <1>3, PTL DEF Spec, StartsAreAllowed
=============================================================================
