---------------------------- MODULE GatherNetwork ----------------------------
(***************************************************************************)
(* gatherNetwork of epggather/gather.go: the channels of a network are     *)
(* tried one after another, each for the services that remain, until every *)
(* service was observed; the errors it returns decide what becomes of the  *)
(* job.  A channel of another server copies its stored programmes          *)
(* (remote_sync.go); the others collect (EPGCollection), here with any     *)
(* outcome for each service.                                               *)
(***************************************************************************)
EXTENDS Integers, FiniteSets

CONSTANTS
    Members,       \* services of the network, not empty
    MaxCandidates  \* bound: channels of the network

ASSUME GatherAssumption == IsFiniteSet(Members) /\ Members # {} /\ MaxCandidates \in Nat

VARIABLES
    ordered,       \* candidates
    tried,         \* candidates so far
    remaining,     \* services not observed yet
    errs,          \* result: the errors of candidates so far
    partial, incompleteTotal, deferredTotal, onlyUnavailable,
    answer,        \* the errors returned, none for success
    kept           \* history: what is stored of each service since the start

gatherVars == <<ordered, tried, remaining, errs, partial, incompleteTotal, deferredTotal,
                onlyUnavailable, answer, kept>>

Gathering == {"gathering"}

\* What persistObservedSnapshots makes of a service
StoredAs == {"complete", "deferred", "incomplete"}
Outcomes == StoredAs \cup {"unobserved", "unstored", "unstored_incomplete"}
IncompleteAs == {"deferred", "incomplete", "unstored_incomplete"}

Errors == {{}, {"failed"}, {"unavailable"}}

GatherInit ==
    /\ ordered \in 0 .. MaxCandidates /\ tried = 0
    /\ remaining = Members /\ errs = {} /\ partial = FALSE /\ incompleteTotal = 0 /\ deferredTotal = 0
    /\ onlyUnavailable = TRUE /\ answer = Gathering /\ kept = [s \in Members |-> "unobserved"]

PartialError(es, incomplete, deferred) ==
    IF es = {} /\ incomplete > 0 /\ incomplete = deferred THEN {"partial"} ELSE es \cup {"incomplete"}

\* Mutant: an earlier candidate's incomplete services do not count.
AnswerOfFresh(was, now) == IF now THEN PartialError(errs, incompleteTotal', deferredTotal') ELSE {}
\* All services are observed and the last candidate had no error.
AnswerOf(was, now) == IF was \/ now THEN PartialError(errs, incompleteTotal', deferredTotal') ELSE {}

Unavailable(e) == onlyUnavailable /\ e = {"unavailable"}

Trying == answer = Gathering /\ remaining # {} /\ tried < ordered /\ tried' = tried + 1

\* What follows a candidate that observed got, with error e or none; the job
\* may have been cancelled.
Concludes(got, incomplete, e) ==
    /\ remaining' = remaining \ got
    /\ partial' = (partial \/ incomplete)
    /\ onlyUnavailable' = Unavailable(e)
    /\ IF e = {} /\ remaining' = {} THEN answer' = AnswerOf(partial, incomplete) /\ UNCHANGED errs
       ELSE \/ answer' = {"canceled"} /\ UNCHANGED errs
            \/ errs' = errs \cup e /\ UNCHANGED answer
    /\ UNCHANGED ordered

\* OpenSchedule fails, or the session has no tuner.
OpenFails(e) ==
    /\ Trying /\ UNCHANGED <<incompleteTotal, deferredTotal, kept>>
    /\ Concludes({}, FALSE, {e})

\* A collection.  Recording the outcome fails for unrecorded services, of
\* which undeferred do not count as planned.
Collect(as, unrecorded, undeferred, e) ==
    /\ Trying
    /\ unrecorded \subseteq {s \in remaining : as[s] \in StoredAs}
    /\ undeferred \subseteq {s \in unrecorded : as[s] = "deferred"}
    /\ IF \A s \in remaining : as[s] = "unobserved" THEN e \in {{"failed"}, {"unavailable"}}
       ELSE IF unrecorded # {} \/ \E s \in remaining : as[s] \in {"unstored", "unstored_incomplete"}
       THEN e = {"failed"} ELSE e = {}
    /\ incompleteTotal' = incompleteTotal + Cardinality({s \in remaining : as[s] \in IncompleteAs})
    /\ deferredTotal' = deferredTotal + Cardinality({s \in remaining : as[s] = "deferred"} \ undeferred)
    /\ kept' = [s \in Members |-> IF s \in remaining /\ as[s] \in StoredAs THEN as[s] ELSE kept[s]]
    /\ Concludes({s \in remaining : as[s] \in StoredAs}, \E s \in remaining : as[s] \in IncompleteAs, e)

\* syncStoredPrograms: copied services are observed only if all were copied.
CopyStored(copied, e) ==
    /\ Trying /\ copied \subseteq remaining /\ (e = {} => copied = remaining)
    /\ kept' = [s \in Members |-> IF s \in copied THEN "copied" ELSE kept[s]]
    /\ UNCHANGED <<incompleteTotal, deferredTotal>>
    /\ Concludes(IF e = {} THEN remaining ELSE {}, FALSE, e)

\* All services were observed, the last ones by a candidate with an error.
NothingRemains ==
    /\ answer = Gathering /\ remaining = {} /\ tried < ordered
    /\ answer' = IF partial THEN PartialError(errs, incompleteTotal, deferredTotal) ELSE errs
    /\ UNCHANGED <<ordered, tried, remaining, errs, partial, incompleteTotal, deferredTotal, onlyUnavailable, kept>>

\* No candidate is left.
Exhausted ==
    /\ answer = Gathering /\ tried = ordered
    /\ answer' = IF ordered = 0 THEN {"no_candidates"}
                 ELSE (IF errs = {} THEN {"incomplete"} ELSE errs) \cup (IF partial THEN {"incomplete"} ELSE {})
                      \cup (IF onlyUnavailable THEN {"no_tuner"} ELSE {})
    /\ UNCHANGED <<ordered, tried, remaining, errs, partial, incompleteTotal, deferredTotal, onlyUnavailable, kept>>

GatherNext ==
    \/ \E e \in {"unavailable", "failed"} : OpenFails(e)
    \/ \E as \in [remaining -> Outcomes], unrecorded, undeferred \in SUBSET remaining, e \in Errors :
          Collect(as, unrecorded, undeferred, e)
    \/ \E copied \in SUBSET remaining, e \in Errors : CopyStored(copied, e)
    \/ NothingRemains \/ Exhausted

GatherSpec == GatherInit /\ [][GatherNext]_gatherVars

(***************************************************************************)
(* Properties                                                              *)
(***************************************************************************)
\* A job that succeeds has stored the complete schedule of every service, or
\* a copy of another server's, whichever candidates failed before or received
\* it in part.
SuccessIsAll == answer = {} => \A s \in Members : kept[s] \in {"complete", "copied"}

\* A job that succeeds in part has stored a schedule of every service that
\* misses at most the extended tables that may not be transmitted.
PartialIsBasic == answer = {"partial"} => \A s \in Members : kept[s] \in {"complete", "deferred", "copied"}

\* A job that is deferred because there was no tuner has stored nothing from
\* the air.
DeferredIsUntouched == "no_tuner" \in answer => \A s \in Members : kept[s] \in {"unobserved", "copied"}

\* The answer of a gather job is what it leaves in the store.
AnswerIsKept == SuccessIsAll /\ PartialIsBasic /\ DeferredIsUntouched
=============================================================================
