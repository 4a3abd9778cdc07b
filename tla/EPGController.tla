---------------------------- MODULE EPGController ----------------------------
(***************************************************************************)
(* Continuous EPG collection (job/defs/epg_controller.go): one goroutine   *)
(* keeps a deadline for every group of services and turns the due ones     *)
(* into jobs, under a limit for tuners and one for stored programmes.      *)
(* Jobs, service scans, tuners and refresh requests move beside it.        *)
(*                                                                         *)
(* Times are reduced to what the controller compares: whether a deadline   *)
(* lies in the future, and the order in which the past ones passed.  Of    *)
(* the job manager, which JobManager models, a group sees its last job: it *)
(* is queued, runs and finishes with a result that stays in the history.   *)
(***************************************************************************)
EXTENDS Integers, Sequences, FiniteSets, SequencesExt

CONSTANTS
    NumGroups,     \* groups, in the order of compareGroupKeys
    StoredGroups,  \* those whose programmes a remote server stores
    LiveLimit,     \* EPGController.liveLimit
    MaxRefresh,    \* bound: refresh requests
    MaxFaults      \* bound: collections that do not succeed, lost tuners, scans

NetworkGroups == 1 .. NumGroups

VARIABLES
    at,            \* the controller: "off", "select", "reconcile" or "decide"
    states,        \* epgDeadline by group; tracked = FALSE: not in the map
    read,          \* job results as GetJobs returned them
    refresh,       \* the one-slot channel
    forceAll,
    resources,     \* the channel of tuner changes held by the loop is closed
    known,         \* groups of the service store
    fresh,         \* groups whose oldest success is younger than the interval
    failed,        \* groups with a failure after their last success
    unseen,        \* those whose failure is later than the last reconcile
    older,         \* groups whose oldest success went back since the last reconcile
    since,         \* groups whose deadline passed, in that order
    jobs,          \* the last job of the group, "none" if the history has none
    free,          \* CheckGroup finds a tuner
    refreshes, faults,
    owed           \* history: groups that a refresh asked for and no job was queued for

loopVars == <<at, read, refresh, forceAll, resources>>
deadlines == <<states, since>>
store == <<known, fresh, failed, unseen, older>>
world == <<jobs, free, refreshes, faults, owed>>
epgVars == <<loopVars, deadlines, store, world>>

NoDeadline == [tracked |-> FALSE, id |-> FALSE, failing |-> FALSE, deferred |-> FALSE,
               forced |-> FALSE, next |-> "zero"]
Active == {"queued", "running"}

EPGInit ==
    /\ at = "off" /\ states = [g \in NetworkGroups |-> NoDeadline]
    /\ read = [g \in NetworkGroups |-> "none"]
    /\ refresh = FALSE /\ forceAll = FALSE /\ resources = FALSE
    /\ known = NetworkGroups /\ fresh = {} /\ failed = {} /\ unseen = {} /\ older = {}
    /\ since = [g \in NetworkGroups |-> g]
    /\ jobs = [g \in NetworkGroups |-> "none"] /\ free = TRUE
    /\ refreshes = 0 /\ faults = 0 /\ owed = {}

(***************************************************************************)
(* Deadlines                                                               *)
(***************************************************************************)
\* due is the zero time for these
AtOnce(s) == s.forced \/ s.failing \/ s.deferred

\* maxTime(due, state.next) lies in the future, or is the zero time.
Future(s, g, new) == s.next = "future" \/ (g \in new /\ ~AtOnce(s))
Zero(s) == s.next = "zero" /\ AtOnce(s)

\* Mutant: due groups are ordered by key only.
PassedByKey(ss, new) ==
    SelectSeq([g \in NetworkGroups |-> g], LAMBDA g : ~Future(ss[g], g, new))

\* since after the deadlines have changed to those of ss and new
Passed(ss, new) ==
    LET past == {g \in NetworkGroups : ~Future(ss[g], g, new)}
    IN SelectSeq(since, LAMBDA g : g \in past)
         \o SelectSeq([g \in NetworkGroups |-> g], LAMBDA g : g \in past /\ g \notin Range(since))

Moves(ss, new) == states' = ss /\ since' = Passed(ss, new)

(***************************************************************************)
(* Run                                                                     *)
(***************************************************************************)
Force(s) == IF s.tracked THEN [s EXCEPT !.forced = TRUE, !.next = "zero"] ELSE s

\* The goroutine is started after the startup tasks, in continuous mode only.
Run ==
    /\ at = "off" /\ at' = "select"
    /\ UNCHANGED <<read, refresh, forceAll, resources, deadlines, store, world>>

\* case <-c.refresh
Refreshed ==
    /\ at = "select" /\ refresh
    /\ refresh' = FALSE /\ forceAll' = TRUE
    /\ Moves([g \in NetworkGroups |-> Force(states[g])], fresh)
    /\ at' = "reconcile" /\ resources' = FALSE
    /\ UNCHANGED <<read, store, world>>

\* case <-resources
ResourcesChanged ==
    /\ at = "select" /\ resources
    /\ Moves([g \in NetworkGroups |-> IF states[g].deferred THEN [states[g] EXCEPT !.next = "zero"]
                               ELSE states[g]], fresh)
    /\ at' = "reconcile" /\ resources' = FALSE
    /\ UNCHANGED <<read, refresh, forceAll, store, world>>

\* case <-changed, case <-timer.C: the next channel of tuner changes replaces
\* one that may have been closed already.
Woken ==
    /\ at = "select" /\ at' = "reconcile" /\ resources' = FALSE
    /\ UNCHANGED <<read, refresh, forceAll, deadlines, store, world>>

(***************************************************************************)
(* reconcile                                                               *)
(***************************************************************************)
\* GetJobs; the cleanup job that precedes it is left out.
ReadJobs ==
    /\ at = "reconcile" /\ at' = "decide"
    /\ read' = jobs
    /\ UNCHANGED <<refresh, forceAll, resources, deadlines, store, world>>

\* Groups fails: the states stay as they are, a refresh too.
GroupsFail ==
    /\ at = "decide" /\ at' = "select" /\ read' = [g \in NetworkGroups |-> "none"]
    /\ faults < MaxFaults /\ faults' = faults + 1
    /\ UNCHANGED <<refresh, forceAll, resources, deadlines, store, jobs, free, refreshes, owed>>

Succeeded(s) == [s EXCEPT !.id = FALSE, !.next = "zero", !.deferred = FALSE, !.failing = FALSE]

\* The first loop: what the job of a state came to, ...
Settle(s, g) ==
    IF ~s.id \/ read[g] \in Active THEN s
    ELSE IF read[g] = "ok" THEN Succeeded(s)
    ELSE [s EXCEPT !.id = FALSE, !.next = "future",
                   !.deferred = read[g] = "deferred", !.failing = read[g] # "deferred"]

\* ... and the states of groups that are gone and have no job to wait for.
Keep(s, g) ==
    IF g \notin known /\ ~(s.id /\ read[g] \in Active) THEN NoDeadline ELSE Settle(s, g)

Track(s, g) ==
    [s EXCEPT !.tracked = TRUE, !.failing = g \in failed,
              !.next = IF g \in failed THEN "future" ELSE "zero"]

\* The second loop: new groups, groups with a new service, a new failure, a
\* refresh of all.
Adjust(s, g) ==
    LET kept == Keep(s, g)
        new == IF g \in known /\ ~kept.tracked THEN Track(kept, g) ELSE kept
        grown == IF g \in older /\ ~new.id THEN [new EXCEPT !.next = "zero", !.failing = FALSE] ELSE new
        again == IF g \in unseen /\ ~grown.id THEN [grown EXCEPT !.next = "future", !.failing = TRUE]
                 ELSE grown
    IN IF forceAll /\ g \in known THEN Force(again) ELSE again

\* Deadlines that have passed, earliest first, ties by key
Order(ss) ==
    LET zero == {g \in known : Zero(ss[g])}
    IN SelectSeq([g \in NetworkGroups |-> g], LAMBDA g : g \in zero)
         \o SelectSeq(Passed(ss, fresh), LAMBDA g : g \in known \ zero)

\* What may go wrong for a group besides the lack of a tuner: CheckGroup fails
\* with another error, or the job manager refuses the job (its key is active
\* after a rerun, or it shuts down).
Troubles == {<<0, "none">>} \cup
    IF faults < MaxFaults
    THEN ((NetworkGroups \ StoredGroups) \X {"check"}) \cup (NetworkGroups \X {"enqueue"}) ELSE {}

\* One turn of the third loop; w holds the states, the number of active jobs
\* by kind and the groups to queue.
Dispatch1(w, g, trouble) ==
    LET s == w.states[g] stored == g \in StoredGroups IN
    IF s.id \/ (IF stored THEN w.stored >= 1 ELSE w.live >= LiveLimit) THEN w
    ELSE IF trouble = <<g, "check">> THEN [w EXCEPT !.states[g].next = "future"]
    ELSE IF ~stored /\ ~free
    THEN [w EXCEPT !.states[g].deferred = TRUE, !.states[g].next = "future"]
    ELSE IF trouble = <<g, "enqueue">> THEN w
    ELSE [w EXCEPT !.states[g].id = TRUE, !.states[g].deferred = FALSE, !.states[g].forced = FALSE,
                   !.queued = @ \cup {g},
                   !.stored = IF stored THEN @ + 1 ELSE @, !.live = IF stored THEN @ ELSE @ + 1]

Decide ==
    /\ at = "decide" /\ at' = "select"
    /\ \E trouble \in Troubles :
       \E adjusted \in {[g \in NetworkGroups |-> Adjust(states[g], g)]} :
       \E order \in {Order(adjusted)} :
       LET busy == {g \in NetworkGroups : states[g].id /\ read[g] \in Active}
           loop[n \in 0 .. Len(order)] ==
               IF n = 0
               THEN [states |-> adjusted, queued |-> {}, live |-> Cardinality(busy \ StoredGroups),
                     stored |-> Cardinality(busy \cap StoredGroups)]
               ELSE CHOOSE w \in {Dispatch1(v, order[n], trouble) : v \in {loop[n - 1]}} : TRUE
       IN \E done \in {loop[Len(order)]} :
            /\ Moves(done.states, fresh)
            /\ jobs' = [g \in NetworkGroups |-> IF g \in done.queued THEN "queued" ELSE jobs[g]]
            /\ owed' = owed \ done.queued
            /\ faults' = IF trouble[1] = 0 THEN faults ELSE faults + 1
    /\ forceAll' = FALSE /\ older' = older \ known /\ unseen' = unseen \ known
    /\ read' = [g \in NetworkGroups |-> "none"]
    /\ UNCHANGED <<refresh, resources, known, fresh, failed, free, refreshes>>

(***************************************************************************)
(* The other parties                                                       *)
(***************************************************************************)
\* Refresh, called by the epg-gatherer job
Refresh ==
    /\ refreshes < MaxRefresh /\ refreshes' = refreshes + 1
    /\ refresh' = TRUE /\ owed' = known
    /\ UNCHANGED <<at, read, forceAll, resources, deadlines, store, jobs, free, faults>>

\* A deadline set by reconcile passes, a success grows old.
NextPasses(g) ==
    /\ states[g].next = "future"
    /\ Moves([states EXCEPT ![g].next = "past"], fresh)
    /\ UNCHANGED <<loopVars, store, world>>
Ages(g) ==
    /\ g \in fresh /\ jobs[g] # "running" /\ fresh' = fresh \ {g}
    /\ Moves(states, fresh')
    /\ UNCHANGED <<loopVars, known, failed, unseen, older, world>>

JobStarts(g) ==
    /\ jobs[g] = "queued" /\ jobs' = [jobs EXCEPT ![g] = "running"]
    /\ UNCHANGED <<loopVars, deadlines, store, free, refreshes, faults, owed>>

\* The collection stores its success before its job ends.
Gathered(g) ==
    /\ jobs[g] = "running" /\ g \notin fresh
    /\ fresh' = fresh \cup {g} /\ failed' = failed \ {g} /\ unseen' = unseen \ {g}
    /\ Moves(states, fresh')
    /\ UNCHANGED <<loopVars, known, older, world>>

\* "none": the job was aborted, or has left the history.  "partial": the basic
\* guide is stored and the extended one is still due; the handler drops this
\* error, the job has succeeded and the group is due as before.
JobEnds(g, result) ==
    /\ jobs[g] = "running"
    /\ jobs' = [jobs EXCEPT ![g] = IF result = "partial" THEN "ok" ELSE result]
    /\ result = "ok" => g \in fresh
    /\ result \in {"deferred", "failed", "partial"} => g \notin fresh
    /\ IF result = "ok" THEN UNCHANGED faults ELSE faults < MaxFaults /\ faults' = faults + 1
    /\ failed' = IF result = "failed" THEN failed \cup {g} ELSE failed
    /\ unseen' = IF result = "failed" THEN unseen \cup {g} ELSE unseen
    /\ resources' = (resources \/ g \notin StoredGroups)
    /\ UNCHANGED <<at, read, refresh, forceAll, deadlines, known, fresh, older, free, refreshes, owed>>

TunerLost ==
    /\ free /\ free' = FALSE /\ faults < MaxFaults /\ faults' = faults + 1
    /\ UNCHANGED <<loopVars, deadlines, store, jobs, refreshes, owed>>
TunerFreed ==
    /\ ~free /\ free' = TRUE /\ resources' = TRUE
    /\ UNCHANGED <<at, read, refresh, forceAll, deadlines, store, jobs, refreshes, faults, owed>>

\* A service scan, exclusive with the collections: a group goes, or it comes
\* back or grows with a service that was never collected.
Scanned(g, there) ==
    /\ \A h \in NetworkGroups : jobs[h] # "running"
    /\ faults < MaxFaults /\ faults' = faults + 1
    /\ known' = IF there THEN known \cup {g} ELSE known \ {g}
    /\ fresh' = fresh \ {g} /\ Moves(states, fresh')
    /\ older' = IF there THEN older \cup ({g} \cap known) ELSE older \ {g}
    /\ failed' = IF there THEN failed ELSE failed \ {g}
    /\ unseen' = IF there THEN unseen ELSE unseen \ {g}
    /\ owed' = owed \ ({g} \ known')
    /\ UNCHANGED <<loopVars, jobs, free, refreshes>>

EPGNext ==
    \/ Run \/ Refreshed \/ ResourcesChanged \/ Woken \/ ReadJobs \/ GroupsFail \/ Decide
    \/ Refresh \/ TunerLost \/ TunerFreed
    \/ \E g \in NetworkGroups :
         \/ NextPasses(g) \/ Ages(g) \/ JobStarts(g) \/ Gathered(g)
         \/ \E there \in BOOLEAN : Scanned(g, there)
         \/ \E result \in {"ok", "partial", "deferred", "failed", "none"} : JobEnds(g, result)

EPGSpec == EPGInit /\ [][EPGNext]_epgVars

\* The loop runs on, and its select does not pass over the refresh channel for
\* ever; deadlines pass, jobs run and succeed, tuners come back.
EPGFairness ==
    /\ WF_epgVars(Woken) /\ WF_epgVars(ReadJobs) /\ WF_epgVars(Decide)
    /\ SF_epgVars(Refreshed) /\ WF_epgVars(TunerFreed)
    /\ \A g \in NetworkGroups : /\ WF_epgVars(NextPasses(g)) /\ WF_epgVars(JobStarts(g))
                          /\ WF_epgVars(Gathered(g)) /\ WF_epgVars(JobEnds(g, "ok"))

FairEPGSpec == EPGSpec /\ EPGFairness

(***************************************************************************)
(* Properties                                                              *)
(***************************************************************************)

\* However stale the jobs that reconcile has read, the collections that are
\* queued or run stay within the limits.
LimitsKept ==
    /\ Cardinality({g \in NetworkGroups \ StoredGroups : jobs[g] \in Active}) <= LiveLimit
    /\ Cardinality({g \in StoredGroups : jobs[g] \in Active}) <= 1

\* A collection that has just succeeded is not queued again on the strength of
\* an older success time (the order of the reads in reconcile).
NotTwice ==
    [][\A g \in NetworkGroups : (jobs[g] \notin Active /\ jobs'[g] = "queued" /\ g \in fresh)
          => forceAll \/ states[g].forced \/ read[g] # "ok"]_epgVars

\* Every group that a refresh asks for is queued again after it, also if its
\* job was running when the refresh came.
RefreshServed == \A g \in NetworkGroups : at # "off" /\ g \in owed ~> g \notin owed

\* No group starves behind the limit: what is due is collected, once faults
\* and refreshes cease.
KeptFresh ==
    \A g \in NetworkGroups :
        at # "off" /\ g \in known /\ g \notin fresh ~> g \in fresh \/ g \notin known

\* A group is gathered when it is due and when it is asked for, not twice on
\* the strength of one reason, and never with more others than the limit.
GroupsGathered == RefreshServed /\ KeptFresh /\ NotTwice /\ []LimitsKept
=============================================================================
