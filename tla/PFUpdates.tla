------------------------------ MODULE PFUpdates ------------------------------
(***************************************************************************)
(* The present/following updates of a channel session (stream/channel,     *)
(* section_updates.go, and stream/presentfollowing): the engine's hook     *)
(* queues a section unless its fingerprint is the last one queued, and a   *)
(* goroutine assembles both sections of a version and stores them.  A      *)
(* repetition is dropped by its fingerprint, so whatever is lost on the    *)
(* way has to take the fingerprint back.  A version stands for the content *)
(* of its two sections and is not used again.                              *)
(***************************************************************************)
EXTENDS Integers, Sequences

CONSTANTS
    SectionQueueSize,
    MaxVersions, MaxMissed, MaxOtherSections, MaxUpdateFailures    \* bounds

VARIABLES
    onAir, turn,       \* the version broadcast, and its section sent next
    missed, others,    \* sections not received, and sections of other tables queued
    fingerprints,      \* eitPFFingerprints: the version of each section, 0 is none
    hook,              \* observeSection: "idle", or reserved and sending, or releasing
    sectionQueue,      \* sections <<version, number>>; version 0: another table's
    pump, taken,       \* runSectionUpdates and the section in its hands
    table,             \* the Collector's subtable: version, and the sections seen
    storedPF,          \* the version of each section in the store
    updateFailures

sendVars == <<onAir, turn, missed, others>>
pumpVars == <<pump, taken, table, storedPF, updateFailures>>
pfVars == <<sendVars, fingerprints, hook, sectionQueue, pumpVars>>

Numbers == {0, 1}
NoSection == <<0, 0>>

PFInit ==
    /\ onAir = 0 /\ turn = 0 /\ missed = 0 /\ others = 0
    /\ fingerprints = [n \in Numbers |-> 0] /\ hook = "idle" /\ sectionQueue = <<>>
    /\ pump = "wait" /\ taken = NoSection
    /\ table = [version |-> 0, seen |-> [n \in Numbers |-> 0]]
    /\ storedPF = [n \in Numbers |-> 0] /\ updateFailures = 0

\* The broadcaster and the reception (external)
VersionChanges ==
    /\ onAir < MaxVersions /\ hook = "idle" /\ onAir' = onAir + 1
    /\ UNCHANGED <<turn, missed, others, fingerprints, hook, sectionQueue, pumpVars>>

SectionMissed ==
    /\ onAir > 0 /\ hook = "idle" /\ missed < MaxMissed
    /\ missed' = missed + 1 /\ turn' = 1 - turn
    /\ UNCHANGED <<onAir, others, fingerprints, hook, sectionQueue, pumpVars>>

(***************************************************************************)
(* observeSection                                                          *)
(***************************************************************************)
Room == Len(sectionQueue) < SectionQueueSize

\* A section that is not coalesced: CDT, SDTT, p/f of other services.
OtherSection ==
    /\ hook = "idle" /\ others < MaxOtherSections /\ Room
    /\ others' = others + 1 /\ sectionQueue' = Append(sectionQueue, NoSection)
    /\ UNCHANGED <<onAir, turn, missed, fingerprints, hook, pumpVars>>

\* reserveEITPFSection
Reserve ==
    /\ onAir > 0 /\ hook = "idle"
    /\ IF fingerprints[turn] = onAir
       THEN turn' = 1 - turn /\ UNCHANGED <<fingerprints, hook>>
       ELSE fingerprints' = [fingerprints EXCEPT ![turn] = onAir] /\ hook' = "send" /\ UNCHANGED turn
    /\ UNCHANGED <<onAir, missed, others, sectionQueue, pumpVars>>

\* Mutant: a section that overflows keeps its fingerprint.
SendForgets ==
    /\ hook = "send" /\ hook' = "idle" /\ turn' = 1 - turn
    /\ sectionQueue' = IF Room THEN Append(sectionQueue, <<onAir, turn>>) ELSE sectionQueue
    /\ UNCHANGED <<onAir, missed, others, fingerprints, pumpVars>>

Send ==
    /\ hook = "send"
    /\ IF Room
       THEN /\ sectionQueue' = Append(sectionQueue, <<onAir, turn>>)
            /\ hook' = "idle" /\ turn' = 1 - turn
       ELSE hook' = "release" /\ UNCHANGED <<sectionQueue, turn>>
    /\ UNCHANGED <<onAir, missed, others, fingerprints, pumpVars>>

\* releaseEITPFSection
Released(v, n) == [fingerprints EXCEPT ![n] = IF @ = v THEN 0 ELSE @]

ReleaseUnsent ==
    /\ hook = "release" /\ hook' = "idle" /\ turn' = 1 - turn
    /\ fingerprints' = Released(onAir, turn)
    /\ UNCHANGED <<onAir, missed, others, sectionQueue, pumpVars>>

(***************************************************************************)
(* runSectionUpdates                                                       *)
(***************************************************************************)

\* Collector.Observe
Observe(t, v, n) ==
    [version |-> v,
     seen |-> [m \in Numbers |-> IF m = n THEN v ELSE IF t.version = v THEN t.seen[m] ELSE 0]]

Take ==
    /\ pump = "wait" /\ sectionQueue # <<>>
    /\ sectionQueue' = Tail(sectionQueue) /\ taken' = Head(sectionQueue)
    /\ pump' = IF taken' = NoSection THEN "wait" ELSE "update"
    /\ UNCHANGED <<sendVars, fingerprints, hook, table, storedPF, updateFailures>>

\* updateSection: the section is assembled, and a complete table is written.
Update ==
    /\ pump = "update"
    /\ table' = Observe(table, taken[1], taken[2])
    /\ pump' = IF \E n \in Numbers : table'.seen[n] = 0 THEN "wait" ELSE "write"
    /\ UNCHANGED <<sendVars, fingerprints, hook, sectionQueue, taken, storedPF, updateFailures>>

\* The section is not parsed, or the store fails.
UpdateFails ==
    /\ pump \in {"update", "write"} /\ updateFailures < MaxUpdateFailures
    /\ updateFailures' = updateFailures + 1 /\ pump' = "release"
    /\ UNCHANGED <<sendVars, fingerprints, hook, sectionQueue, taken, table, storedPF>>

Written ==
    /\ pump = "write" /\ pump' = "wait" /\ storedPF' = table.seen
    /\ UNCHANGED <<sendVars, fingerprints, hook, sectionQueue, taken, table, updateFailures>>

ReleaseFailed ==
    /\ pump = "release" /\ pump' = "wait"
    /\ fingerprints' = Released(taken[1], taken[2])
    /\ UNCHANGED <<sendVars, hook, sectionQueue, taken, table, storedPF, updateFailures>>

\* The context is done: what is queued is left.
PumpEnds ==
    /\ onAir > 0 /\ pump = "wait" /\ pump' = "ended"
    /\ UNCHANGED <<sendVars, fingerprints, hook, sectionQueue, taken, table, storedPF, updateFailures>>

HookStep == Reserve \/ Send \/ ReleaseUnsent
PumpStep == Take \/ Update \/ Written \/ ReleaseFailed

PFNext ==
    HookStep \/ PumpStep \/ UpdateFails \/ PumpEnds \/ VersionChanges \/ SectionMissed \/ OtherSection

PFFairness == WF_pfVars(HookStep) /\ WF_pfVars(PumpStep)

PFSpec == PFInit /\ [][PFNext]_pfVars /\ PFFairness

(***************************************************************************)
(* Properties                                                              *)
(***************************************************************************)
\* The store never holds the present event of one version with the following
\* event of another.
PFOneVersion == storedPF[0] = storedPF[1]

\* Once the broadcaster stays with a version, the store comes to hold it for as
\* long as the session lives, whatever overflowed, failed or was missed: no
\* coalesced repetition stands for a section that was lost.
PFSettles == <>[](pump = "ended" \/ storedPF = [n \in Numbers |-> onAir])

\* The store comes to hold the p/f on the air, and never half of it.
PFArrives == PFSettles /\ []PFOneVersion
=============================================================================
