---------------------------- MODULE JobManager ----------------------------
(***************************************************************************)
(* The job manager (src/internal/job/manager.go): jobs with one live       *)
(* execution per key, dependencies, shared and exclusive resource keys,    *)
(* concurrency limits, retries after a delay, abort and shutdown.          *)
(*                                                                         *)
(* Everything happens under m.mu except shutdownCancel.  The loops that    *)
(* run under the lock (dispatchLocked, abortQueuedAndStandbyLocked) are    *)
(* stepped with the lock held, so that shutdownCancel can fall between two *)
(* iterations and nothing else can.                                        *)
(*                                                                         *)
(* A job is numbered in the order of its creation.  m.history is appended  *)
(* to in that order and only ever loses elements, so it is the set of its  *)
(* jobs.  m.active is the set of the running jobs.                         *)
(***************************************************************************)
EXTENDS Integers, FiniteSets, Sequences, Functions

CONSTANTS
    Keys,           \* job keys; a key stands for its definition
    DependsOn,      \* Keys -> SUBSET Keys
    ExclusiveKeys,  \* Keys -> SUBSET Resources
    SharedKeys,     \* Keys -> SUBSET Resources
    Priority,
    Group,          \* ConcurrencyGroup, NoGroup when it has none
    RetryMax,       \* len(RetryDelays)
    Rerunnable,     \* the keys whose definition IsRerunnable
    Resources,
    Groups, NoGroup,
    GroupLimits,    \* Groups -> Nat
    IndependentGroups,
    MaxConcurrent,
    MaxHistory,
    MaxJobs         \* bound on the executions created

Jobs == 1 .. MaxJobs
AllGroups == Groups \cup {NoGroup}

ASSUME JobAssumption ==
    /\ Keys # {}
    /\ DependsOn \in [Keys -> SUBSET Keys]
    /\ ExclusiveKeys \in [Keys -> SUBSET Resources]
    /\ SharedKeys \in [Keys -> SUBSET Resources]
    /\ Priority \in [Keys -> Int]
    /\ Group \in [Keys -> AllGroups]
    /\ RetryMax \in [Keys -> Nat]
    /\ Rerunnable \subseteq Keys
    /\ NoGroup \notin Groups
    /\ GroupLimits \in [Groups -> Nat]
    /\ IndependentGroups \subseteq Groups
    /\ MaxConcurrent \in Nat \ {0} /\ MaxHistory \in Nat \ {0} /\ MaxJobs \in Nat

VARIABLES
    made,        \* number of jobs created
    status, key, \* Job.Status, Job.Key
    retries,     \* Job.RetryCount
    aborted,     \* the jobs with HasAborted
    queue, history,
    activeKeys, activeExclusive, activeShared, running, groupRunning,
    timers,      \* jobs with a retry goroutine
    shut,        \* where Shutdown is; shutdownCtx is done once it is not "no"
    lock,        \* the loop that runs under m.mu, "free" when none does
    scan         \* abortQueuedAndStandbyLocked: the slice it ranges over, and where

countVars == <<activeExclusive, activeShared, running, groupRunning>>
vars == <<made, status, key, retries, aborted, queue, history, activeKeys,
          countVars, timers, shut, lock, scan>>

NoScan == [arr |-> <<>>, pos |-> 0]
Statuses == {"new", "queued", "running", "standby", "finished"}
Locks == {"free", "dispatch", "abortQueue", "abortStandby"}
Unfinished == {j \in Jobs : status[j] \in {"queued", "running", "standby"}}
Running == {j \in Jobs : status[j] = "running"}

Init ==
    /\ made = 0
    /\ status = [j \in Jobs |-> "new"]
    /\ key = [j \in Jobs |-> CHOOSE k \in Keys : TRUE] \* set when j is created
    /\ retries = [j \in Jobs |-> 0]
    /\ aborted = {} /\ queue = <<>> /\ history = {} /\ activeKeys = {}
    /\ activeExclusive = {} /\ activeShared = [x \in Resources |-> 0]
    /\ running = 0 /\ groupRunning = [g \in AllGroups |-> 0]
    /\ timers = {} /\ shut = "no" /\ lock = "free" /\ scan = NoScan

(***************************************************************************)
(* finishLocked and trimHistory                                            *)
(***************************************************************************)

\* The oldest finished jobs go while the history is too long.
Trim(h, st) ==
    LET finished == {j \in h : st[j] = "finished"} IN
    {j \in h : \/ j \notin finished
               \/ Cardinality({i \in finished : i <= j}) > Cardinality(h) - MaxHistory}

Finish(j, ab) ==
    /\ status' = [status EXCEPT ![j] = "finished"]
    /\ aborted' = IF ab THEN aborted \cup {j} ELSE aborted
    /\ activeKeys' = activeKeys \ {key[j]}
    /\ history' = Trim(history, status')

(***************************************************************************)
(* enqueueLocked, Enqueue, EnqueueDefinition, Rerun and the schedules      *)
(***************************************************************************)
ValidDefinition(k) == Group[k] # NoGroup => GroupLimits[Group[k]] > 0

\* Mutant: a key in standby may be enqueued again.
EnqueueDuringStandby(k) ==
    LET j == made + 1 IN
    /\ lock = "free" /\ shut = "no" /\ made < MaxJobs /\ ValidDefinition(k)
    /\ \A i \in Jobs : status[i] \in {"queued", "running"} => key[i] # k
    /\ made' = j
    /\ status' = [status EXCEPT ![j] = "queued"]
    /\ key' = [key EXCEPT ![j] = k]
    /\ history' = Trim(history \cup {j}, status')
    /\ queue' = Append(queue, j)
    /\ activeKeys' = activeKeys \cup {k}
    /\ lock' = "dispatch"
    /\ UNCHANGED <<retries, aborted, countVars, timers, shut, scan>>

\* The refusals (ErrManagerShutdown, ErrInvalidDefinition, ErrJobAlreadyRunning)
\* change nothing.
Enqueue(k) ==
    LET j == made + 1 IN
    /\ lock = "free" /\ shut = "no" /\ made < MaxJobs
    /\ ValidDefinition(k) /\ k \notin activeKeys
    /\ made' = j
    /\ status' = [status EXCEPT ![j] = "queued"]
    /\ key' = [key EXCEPT ![j] = k]
    /\ history' = Trim(history \cup {j}, status')
    /\ queue' = Append(queue, j)
    /\ activeKeys' = activeKeys \cup {k}
    /\ lock' = "dispatch"
    /\ UNCHANGED <<retries, aborted, countVars, timers, shut, scan>>

\* Rerun reads only the definition of the old execution before it enqueues.
Rerun(j) == j \in history /\ key[j] \in Rerunnable /\ Enqueue(key[j])

(***************************************************************************)
(* dispatchLocked                                                          *)
(***************************************************************************)
\* Mutant: a dependency in standby or in the queue counts as met.
DependenciesNotRunning(k) == DependsOn[k] \cap {key[j] : j \in Running} = {}

DependenciesMet(k) == DependsOn[k] \cap activeKeys = {}

\* Mutant: only writers look at the resources.
ResourcesFreeForWriters(k) ==
    \A x \in ExclusiveKeys[k] : x \notin activeExclusive /\ activeShared[x] = 0

ResourcesFree(k) ==
    /\ \A x \in ExclusiveKeys[k] : x \notin activeExclusive /\ activeShared[x] = 0
    /\ \A x \in SharedKeys[k] : x \notin activeExclusive

\* A queued writer whose dependencies are met holds back the readers.
BlockedByWriter(j) ==
    \E i \in Range(queue) :
        /\ i # j
        /\ DependenciesMet(key[i])
        /\ ExclusiveKeys[key[i]] \cap SharedKeys[key[j]] # {}

\* groupRunning summed over the independent groups, as the slots that they fill.
IndependentSlots == UNION {{g} \X (1 .. groupRunning[g]) : g \in IndependentGroups}

SharedRunning == running - Cardinality(IndependentSlots)

HasRoom(k) ==
    /\ Group[k] \in IndependentGroups \/ SharedRunning < MaxConcurrent
    /\ groupRunning[Group[k]] <
        IF Group[k] = NoGroup THEN MaxConcurrent ELSE GroupLimits[Group[k]]

Eligible(j) ==
    /\ HasRoom(key[j]) /\ ~ BlockedByWriter(j)
    /\ DependenciesMet(key[j]) /\ ResourcesFree(key[j])

\* popRunnableQueueLocked: the highest priority, the first of equals.
IsSelected(n) ==
    /\ n \in DOMAIN queue /\ Eligible(queue[n])
    /\ \A m \in DOMAIN queue :
        Eligible(queue[m]) =>
            \/ Priority[key[queue[n]]] > Priority[key[queue[m]]]
            \/ Priority[key[queue[n]]] = Priority[key[queue[m]]] /\ n <= m

\* startJobLocked
StartJob(j) ==
    /\ status' = [status EXCEPT ![j] = "running"]
    /\ activeExclusive' = activeExclusive \cup ExclusiveKeys[key[j]]
    /\ activeShared' = [x \in Resources |->
                           IF x \in SharedKeys[key[j]] THEN activeShared[x] + 1
                           ELSE activeShared[x]]
    /\ running' = running + 1
    /\ groupRunning' = [groupRunning EXCEPT ![Group[key[j]]] = @ + 1]

\* The queue without its entry n.
Without(q, n) == SubSeq(q, 1, n - 1) \o SubSeq(q, n + 1, Len(q))

Dispatch ==
    /\ lock = "dispatch" /\ shut = "no"
    /\ \E n \in DOMAIN queue :
        /\ IsSelected(n)
        /\ StartJob(queue[n])
        /\ queue' = Without(queue, n)
    /\ UNCHANGED <<made, key, retries, aborted, history, activeKeys, timers, shut, lock, scan>>

DispatchEnds ==
    /\ lock = "dispatch"
    /\ shut # "no" \/ \A n \in DOMAIN queue : ~ Eligible(queue[n])
    /\ lock' = "free"
    /\ UNCHANGED <<made, status, key, retries, aborted, queue, history, activeKeys,
                   countVars, timers, shut, scan>>

(***************************************************************************)
(* run, after the handler has returned                                     *)
(***************************************************************************)
\* Mutant: the shared keys of a finished job stay counted.
CompleteActiveLeaky(j) ==
    /\ activeExclusive' = activeExclusive \ ExclusiveKeys[key[j]]
    /\ UNCHANGED activeShared
    /\ running' = running - 1
    /\ groupRunning' = [groupRunning EXCEPT ![Group[key[j]]] = @ - 1]

\* completeActiveLocked
CompleteActive(j) ==
    /\ activeExclusive' = activeExclusive \ ExclusiveKeys[key[j]]
    /\ activeShared' = [x \in Resources |->
                           IF x \in SharedKeys[key[j]] THEN activeShared[x] - 1
                           ELSE activeShared[x]]
    /\ running' = running - 1
    /\ groupRunning' = [groupRunning EXCEPT ![Group[key[j]]] = @ - 1]

\* retryable: an error other than context.Canceled that RetryIf accepts.
ShouldRetry(j, retryable) ==
    j \notin aborted /\ retryable /\ retries[j] < RetryMax[key[j]] /\ shut = "no"

\* standbyLocked
Standby(j) ==
    /\ status' = [status EXCEPT ![j] = "standby"]
    /\ retries' = [retries EXCEPT ![j] = @ + 1]
    /\ timers' = timers \cup {j}
    /\ UNCHANGED <<aborted, activeKeys, history>>

RunReturns(j, retryable) ==
    /\ lock = "free" /\ status[j] = "running"
    /\ CompleteActive(j)
    /\ IF ShouldRetry(j, retryable) THEN Standby(j)
       ELSE Finish(j, FALSE) /\ UNCHANGED <<retries, timers>>
    /\ lock' = "dispatch"
    /\ UNCHANGED <<made, key, queue, shut, scan>>

(***************************************************************************)
(* The retry goroutine of standbyLocked                                    *)
(***************************************************************************)
TimerMayRequeue(j) == status[j] = "standby" /\ j \notin aborted /\ shut = "no"

TimerFires(j) ==
    /\ j \in timers /\ lock = "free"
    /\ TimerMayRequeue(j)
    /\ timers' = timers \ {j}
    /\ status' = [status EXCEPT ![j] = "queued"]
    /\ queue' = Append(queue, j)
    /\ lock' = "dispatch"
    /\ UNCHANGED <<made, key, retries, aborted, history, activeKeys, countVars, shut, scan>>

\* The job was aborted meanwhile, or shutdownCtx is done.
TimerQuits(j) ==
    /\ j \in timers
    /\ shut # "no" \/ (lock = "free" /\ ~ TimerMayRequeue(j))
    /\ timers' = timers \ {j}
    /\ UNCHANGED <<made, status, key, retries, aborted, queue, history, activeKeys,
                   countVars, shut, lock, scan>>

(***************************************************************************)
(* Abort                                                                   *)
(***************************************************************************)
\* The handler's context is cancelled; the handler returns when it will.
AbortActive(j) ==
    /\ lock = "free" /\ status[j] = "running"
    /\ aborted' = aborted \cup {j}
    /\ UNCHANGED <<made, status, key, retries, queue, history, activeKeys,
                   countVars, timers, shut, lock, scan>>

AbortQueued(j) ==
    /\ lock = "free" /\ status[j] # "running"
    /\ \E n \in DOMAIN queue : queue[n] = j /\ queue' = Without(queue, n)
    /\ Finish(j, TRUE)
    /\ UNCHANGED <<made, key, retries, countVars, timers, shut, lock, scan>>

AbortStandby(j) ==
    /\ lock = "free" /\ status[j] = "standby" /\ j \in history
    /\ Finish(j, TRUE)
    /\ UNCHANGED <<made, key, retries, queue, countVars, timers, shut, lock, scan>>

(***************************************************************************)
(* Shutdown                                                                *)
(***************************************************************************)
\* m.shutdownCancel(), before the lock is taken
ShutdownCancel ==
    /\ shut = "no"
    /\ shut' = "cancelled"
    /\ UNCHANGED <<made, status, key, retries, aborted, queue, history, activeKeys,
                   countVars, timers, lock, scan>>

ShutdownLocks ==
    /\ shut = "cancelled" /\ lock = "free"
    /\ lock' = "abortQueue"
    /\ UNCHANGED <<made, status, key, retries, aborted, queue, history, activeKeys,
                   countVars, timers, shut, scan>>

ShutdownAbortsQueued ==
    /\ lock = "abortQueue" /\ queue # <<>>
    /\ Finish(Head(queue), TRUE)
    /\ queue' = Tail(queue)
    /\ UNCHANGED <<made, key, retries, countVars, timers, shut, lock, scan>>

ShutdownTurnsToStandby ==
    /\ lock = "abortQueue" /\ queue = <<>>
    /\ lock' = "abortStandby"
    /\ \E arr \in [1 .. Cardinality(history) -> history] :
        /\ \A m, n \in DOMAIN arr : m < n => arr[m] < arr[n]
        /\ scan' = [arr |-> arr, pos |-> 1]
    /\ UNCHANGED <<made, status, key, retries, aborted, queue, history, activeKeys,
                   countVars, timers, shut>>

\* The backing array of the slice that is ranged over after the element at n of
\* m.history, which has len elements left, is cut out of it: the elements behind
\* n move up and the slot behind the last one keeps what it held.
CutOut(arr, n, len) ==
    [i \in DOMAIN arr |-> IF n <= i /\ i < len THEN arr[i + 1] ELSE arr[i]]

\* What trimHistory does to the backing array: the positions in the new history
\* are those of the old one without the job that went.  No more than one goes at
\* a time (HistoryComplete).
ArrayAfter(arr, old, new) ==
    LET gone == old \ new
        place(j) == Cardinality({i \in old : i <= j})
    IN  IF gone = {} THEN arr
        ELSE LET j == CHOOSE j \in gone : TRUE
             IN  CutOut(arr, place(j), Cardinality(old))

ShutdownVisits ==
    LET j == scan.arr[scan.pos] IN
    /\ lock = "abortStandby" /\ scan.pos <= Len(scan.arr)
    /\ IF status[j] = "standby"
       THEN /\ Finish(j, TRUE)
            /\ scan' = [arr |-> ArrayAfter(scan.arr, history, history'), pos |-> scan.pos + 1]
       ELSE /\ scan' = [scan EXCEPT !.pos = @ + 1]
            /\ UNCHANGED <<status, aborted, activeKeys, history>>
    /\ UNCHANGED <<made, key, retries, queue, countVars, timers, shut, lock>>

\* The range is over; cancelActiveLocked cancels the contexts of the running jobs.
ShutdownUnlocks ==
    /\ lock = "abortStandby" /\ scan.pos > Len(scan.arr)
    /\ lock' = "free" /\ shut' = "waiting" /\ scan' = NoScan
    /\ UNCHANGED <<made, status, key, retries, aborted, queue, history, activeKeys,
                   countVars, timers>>

\* m.wg counts the run and the retry goroutines.
ShutdownReturns ==
    /\ shut = "waiting" /\ Running = {} /\ timers = {}
    /\ shut' = "returned"
    /\ UNCHANGED <<made, status, key, retries, aborted, queue, history, activeKeys,
                   countVars, timers, lock, scan>>

ShutdownStep ==
    \/ ShutdownLocks \/ ShutdownAbortsQueued \/ ShutdownTurnsToStandby
    \/ ShutdownVisits \/ ShutdownUnlocks \/ ShutdownReturns

Next ==
    \/ \E k \in Keys : Enqueue(k)
    \/ Dispatch \/ DispatchEnds
    \/ \E j \in Jobs :
        \/ Rerun(j)
        \/ \E retryable \in BOOLEAN : RunReturns(j, retryable)
        \/ TimerFires(j) \/ TimerQuits(j)
        \/ AbortActive(j) \/ AbortQueued(j) \/ AbortStandby(j)
    \/ ShutdownCancel \/ ShutdownStep

\* The goroutines run, every handler returns and every retry delay passes; what
\* the API, the schedules and the operator ask for need not happen.
Fairness ==
    /\ WF_vars(Dispatch \/ DispatchEnds)
    /\ WF_vars(ShutdownStep)
    /\ \A j \in Jobs :
        /\ WF_vars(\E retryable \in BOOLEAN : RunReturns(j, retryable))
        /\ WF_vars(TimerFires(j) \/ TimerQuits(j))

Spec == Init /\ [][Next]_vars
FairSpec == Spec /\ Fairness

(***************************************************************************)
(* Properties                                                              *)
(***************************************************************************)
\* The variables keep their types; RetryDelays is never indexed behind its end.
TypeOK ==
    /\ made \in 0 .. MaxJobs
    /\ status \in [Jobs -> Statuses] /\ key \in [Jobs -> Keys]
    /\ retries \in [Jobs -> Nat] /\ \A j \in Jobs : retries[j] <= RetryMax[key[j]]
    /\ aborted \subseteq Jobs /\ history \subseteq Jobs /\ timers \subseteq Jobs
    /\ queue \in Seq(Jobs)
    /\ activeKeys \subseteq Keys /\ activeExclusive \subseteq Resources
    /\ activeShared \in [Resources -> Int]
    /\ running \in Int /\ groupRunning \in [AllGroups -> Int]
    /\ shut \in {"no", "cancelled", "waiting", "returned"}
    /\ lock \in Locks
    /\ scan \in [arr : Seq(Jobs), pos : Nat]

\* Two running jobs never hold a resource that one of them holds exclusively,
\* although the manager keeps only one mark per exclusive key and one counter
\* per shared key (startJobLocked, completeActiveLocked).
ReadersAndWritersExclude ==
    \A i, j \in Running : i # j =>
        ExclusiveKeys[key[i]] \cap (ExclusiveKeys[key[j]] \cup SharedKeys[key[j]]) = {}

\* A key has at most one unfinished job, and is taken exactly while it has one,
\* through queueing, running, waiting for a retry and every way of ending
\* (activeKeys against ErrJobAlreadyRunning).
OneJobPerKey ==
    /\ \A i, j \in Unfinished : key[i] = key[j] => i = j
    /\ activeKeys = {key[j] : j \in Unfinished}

\* The queue holds every queued job once and nothing else: a retry that races
\* with an abort or a shutdown never puts a job back that has ended.
QueueHoldsQueued ==
    /\ IsInjective(queue)
    /\ Range(queue) = {j \in Jobs : status[j] = "queued"}

\* What the manager counts is what runs: every start is matched by one
\* completion, for the total, the groups and the resources.
CountsMatch ==
    /\ running = Cardinality(Running)
    /\ \A g \in AllGroups : groupRunning[g] = Cardinality({j \in Running : Group[key[j]] = g})
    /\ activeExclusive = UNION {ExclusiveKeys[key[j]] : j \in Running}
    /\ \A x \in Resources :
        activeShared[x] = Cardinality({j \in Running : x \in SharedKeys[key[j]]})

\* The limits hold at every instant: MaxConcurrentJobs for the jobs outside the
\* independent groups, and each group's own limit.
WithinLimits ==
    /\ Cardinality({j \in Running : Group[key[j]] \notin IndependentGroups}) <= MaxConcurrent
    /\ \A g \in Groups : Cardinality({j \in Running : Group[key[j]] = g}) <= GroupLimits[g]

\* The counters are right, and so the limits that are read off them hold.
LimitsHold == CountsMatch /\ WithinLimits

\* Wait and Abort find every unfinished job: trimHistory drops finished ones
\* only, and keeps the history at its limit whenever it can.
HistoryComplete ==
    /\ Unfinished \subseteq history
    /\ \/ Cardinality(history) <= MaxHistory
       \/ \A j \in history : status[j] # "finished"

\* Keys, queue and history are three accounts of the same unfinished jobs.
JobsAccounted == OneJobPerKey /\ QueueHoldsQueued /\ HistoryComplete

\* A job starts only when no job it depends on is unfinished, and never after
\* it was aborted or Shutdown has let go of the lock.
StartsAreAllowed ==
    [][\A j \in Jobs :
        status[j] # "running" /\ status'[j] = "running" =>
            /\ j \notin aborted /\ shut = "no"
            /\ \A i \in Unfinished : key[i] \notin DependsOn[key[j]]]_vars

\* Once Shutdown has let go of the lock, and the history was never too short for
\* the unfinished jobs, nothing is queued or in standby any more, and after it
\* has returned nothing runs.
ShutdownSettles ==
    /\ shut \in {"waiting", "returned"} => \A j \in Jobs : status[j] \notin {"queued", "standby"}
    /\ shut = "returned" => Unfinished = {} /\ timers = {}

\* A job that is queued leaves the queue, whatever is aborted meanwhile: writers
\* waiting for readers and readers held back by writers never wait in a circle.
QueuedJobLeaves == \A j \in Jobs : status[j] = "queued" ~> status[j] # "queued"

\* Shutdown returns once the handlers have.
ShutdownEnds == shut = "cancelled" ~> shut = "returned"

\* Every job and every Shutdown comes to its end, and leaves nothing behind.
JobsSettle == QueuedJobLeaves /\ ShutdownEnds /\ []ShutdownSettles

(***************************************************************************)
(* Statements of the repository that the code does not meet                *)
(***************************************************************************)
\* TestShutdownFinishesQueuedRunningAndStandbyJobs: Shutdown leaves no job in
\* standby, whatever the length of the history.
ShutdownFinishesStandby ==
    shut \in {"waiting", "returned"} => \A j \in Jobs : status[j] # "standby"

\* TestJobWaitsForDependenciesWhileOtherJobsCanRun: a queued job runs once the
\* jobs it depends on have ended.
DependentRuns ==
    \A j \in Jobs : status[j] = "queued" /\ DependenciesMet(key[j])
                        ~> status[j] # "queued" \/ ~ DependenciesMet(key[j])
=============================================================================
