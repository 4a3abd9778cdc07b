-------------------------- MODULE ScheduleReception --------------------------
(***************************************************************************)
(* When the schedule tables of a service count as complete: the gate on    *)
(* versions in stream/schedule/collector.go and the ready flags of one     *)
(* group of tables in isdb/schedule.go.  A broadcaster repeats the         *)
(* sections of its tables in any order, replaces a table by a new version  *)
(* with another number of segments and sections, adds and drops tables;    *)
(* sections of a replaced version may still arrive.                        *)
(***************************************************************************)
EXTENDS Integers, Sequences

CONSTANTS
    NumTables,     \* 8 in a group
    NumSegments,   \* 32
    SegmentSize,   \* sections of a segment: 8
    NumVersions,   \* 32
    Layouts,       \* sections in each segment of a table
    MaxChanges     \* bound: tables replaced

Tables == 0 .. NumTables - 1
Sections == 0 .. NumSegments * SegmentSize - 1
SegmentOf(n) == n \div SegmentSize

VARIABLES
    air,           \* broadcaster: generation and layout of each table, and the last table
    old,           \* broadcaster: what each table was before
    changes,       \* broadcaster: changes so far
    segment,       \* currentJSTSegment of the broadcast clock
    revisions,     \* serviceSchedule.revisions: version and reception of a table
    seenVersions,  \* serviceSchedule.seenVersions
    sequence,      \* receptionSequence
    payloads,      \* scheduleTable: version, generation and reception of each section
    flags,         \* scheduleReadyGroup.flags
    lastFlagsID,   \* scheduleReadyGroup.lastFlagsID
    accepted,      \* history: the announcement of the last section accepted of each table
    taken,         \* history: the generations of each table that were accepted
    cycle,         \* history: sections accepted since the last change or section of a replaced version
    elapsed        \* history: the latest segment since the first table has its version

receptionVars == <<air, old, changes, segment, revisions, seenVersions, sequence, payloads, flags,
                   lastFlagsID, accepted, taken, cycle, elapsed>>
airVars == <<air, old, changes, segment>>

None == [version |-> -1, gen |-> -1, reception |-> 0]
NotAnnounced == [gen |-> -1, layout |-> <<>>, last |-> -1]
VersionOf(gen) == gen % NumVersions

\* The sections of a layout, the last one of the table and of a segment
SectionsOf(layout) ==
    {n \in Sections : SegmentOf(n) < Len(layout) /\ n % SegmentSize < layout[SegmentOf(n) + 1]}
LastSection(layout) == (Len(layout) - 1) * SegmentSize + layout[Len(layout)] - 1
SegmentLast(layout, n) == layout[SegmentOf(n) + 1] - 1

\* reset
Blank(required) == [observed |-> FALSE, version |-> 0, got |-> {}, ignore |-> IF required THEN {} ELSE Sections]

ReceptionInit ==
    /\ \E layout \in Layouts, last \in Tables :
          air = [t \in Tables |-> [gen |-> 0, layout |-> layout, last |-> last]]
    /\ old = [t \in Tables |-> NotAnnounced] /\ changes = 0 /\ segment = 0
    /\ revisions = [t \in Tables |-> None] /\ seenVersions = [t \in Tables |-> {}] /\ sequence = 0
    /\ payloads = [t \in Tables |-> [n \in Sections |-> None]]
    /\ flags = [t \in Tables |-> Blank(FALSE)] /\ lastFlagsID = -1
    /\ accepted = [t \in Tables |-> NotAnnounced] /\ taken = [t \in Tables |-> {}] /\ cycle = {} /\ elapsed = 0

(***************************************************************************)
(* The broadcaster: a table is replaced, or tables are added or dropped,   *)
(* which every remaining table announces.                                  *)
(***************************************************************************)
Replace(t, layout) ==
    /\ changes < MaxChanges /\ changes' = changes + 1 /\ t <= air[0].last
    /\ old' = [old EXCEPT ![t] = air[t]]
    /\ air' = [air EXCEPT ![t].gen = @ + 1, ![t].layout = layout]
    /\ cycle' = {}
    /\ UNCHANGED <<segment, revisions, seenVersions, sequence, payloads, flags, lastFlagsID, accepted, taken, elapsed>>

Resize(last) ==
    /\ changes < MaxChanges /\ changes' = changes + 1 /\ last # air[0].last
    /\ old' = air
    /\ air' = [t \in Tables |-> [gen |-> air[t].gen + 1, layout |-> air[t].layout, last |-> last]]
    /\ cycle' = {}
    /\ UNCHANGED <<segment, revisions, seenVersions, sequence, payloads, flags, lastFlagsID, accepted, taken, elapsed>>

\* The segments of the day pass; after the last one, at midnight, the first.
Clock ==
    /\ segment' = (segment + 1) % NumSegments
    /\ UNCHANGED <<air, old, changes, revisions, seenVersions, sequence, payloads, flags, lastFlagsID, accepted, taken, cycle, elapsed>>

(***************************************************************************)
(* The receiver                                                            *)
(***************************************************************************)
\* Mutant: a retired version is taken for a new one.
GateOpen(t, v) == TRUE
\* A version that was seen and retired is refused until all versions were seen.
\* (Sections that announce a coming table or have no valid version number are
\* refused before, and change nothing.)
Gate(t, v) ==
    \/ revisions[t] = None \/ revisions[t].version = v \/ v \notin seenVersions[t]
    \/ seenVersions[t] = 0 .. NumVersions - 1

Seen(t, v) ==
    (IF revisions[t] # None /\ revisions[t].version # v /\ v \in seenVersions[t]
     THEN {revisions[t].version} ELSE seenVersions[t]) \cup {v}

\* observeReady: flags of tables that appear or disappear start again.
Resized(last) ==
    [i \in Tables |-> IF last # lastFlagsID /\ (i > last \/ i > lastFlagsID) THEN Blank(i <= last) ELSE flags[i]]

\* Mutant: the flags survive a new version.
MarkedKeeps(f, t, a, n) ==
    [observed |-> TRUE, version |-> VersionOf(a.gen), got |-> f.got \cup {n},
     ignore |-> f.ignore
        \cup {m \in Sections : t = 0 /\ SegmentOf(m) < segment}
        \cup {m \in Sections : SegmentOf(m) > SegmentOf(LastSection(a.layout))}
        \cup {m \in Sections : SegmentOf(m) = SegmentOf(n) /\ m % SegmentSize > SegmentLast(a.layout, n)}]
\* observeReady: a new version starts the table again; elapsed segments of
\* the first table, segments after the last and sections after the last of
\* the segment are not waited for.
Marked(f, t, a, n) ==
    LET g == IF f.observed /\ f.version # VersionOf(a.gen) THEN Blank(TRUE) ELSE f
    IN [observed |-> TRUE, version |-> VersionOf(a.gen), got |-> g.got \cup {n},
        ignore |-> g.ignore
           \cup {m \in Sections : t = 0 /\ SegmentOf(m) < segment}
           \cup {m \in Sections : SegmentOf(m) > SegmentOf(LastSection(a.layout))}
           \cup {m \in Sections : SegmentOf(m) = SegmentOf(n) /\ m % SegmentSize > SegmentLast(a.layout, n)}]

\* Mutant: a section that was stored is not replaced.
StoredOnce(t, a, n) ==
    IF payloads[t][n] # None THEN payloads[t][n]
    ELSE [version |-> VersionOf(a.gen), gen |-> a.gen, reception |-> revisions'[t].reception]
\* ObserveLazy decodes a section if its version differs from the stored one.
Stored(t, a, n) ==
    IF payloads[t][n].version = VersionOf(a.gen) THEN payloads[t][n]
    ELSE [version |-> VersionOf(a.gen), gen |-> a.gen, reception |-> revisions'[t].reception]

\* observeSchedule of section n of table t, as announcement a has it
Observe(t, a, n) ==
    /\ n \in SectionsOf(a.layout) /\ t <= a.last /\ Gate(t, VersionOf(a.gen))
    /\ seenVersions' = [seenVersions EXCEPT ![t] = Seen(t, VersionOf(a.gen))]
    /\ IF revisions[t].version = VersionOf(a.gen) THEN UNCHANGED <<revisions, sequence>>
       ELSE /\ sequence' = sequence + 1
            /\ revisions' = [revisions EXCEPT ![t] =
                                [version |-> VersionOf(a.gen), gen |-> a.gen, reception |-> sequence + 1]]
    /\ payloads' = [payloads EXCEPT ![t][n] = Stored(t, a, n)]
    /\ flags' = [Resized(a.last) EXCEPT ![t] = Marked(@, t, a, n)]
    /\ lastFlagsID' = a.last
    /\ accepted' = [accepted EXCEPT ![t] = a] /\ taken' = [taken EXCEPT ![t] = @ \cup {a.gen}]
    /\ cycle' = IF a = air[t] THEN cycle \cup {<<t, n>>} ELSE {}
    /\ elapsed' = IF t # 0 \/ (a.gen = accepted[0].gen /\ elapsed > segment) THEN elapsed ELSE segment
    /\ UNCHANGED airVars

Receive(t, n) == Observe(t, air[t], n)
ReceiveOld(t, n) == old[t] # NotAnnounced /\ Observe(t, old[t], n)

ReceptionNext ==
    \/ \E t \in Tables, layout \in Layouts : Replace(t, layout)
    \/ \E last \in Tables : Resize(last)
    \/ Clock
    \/ \E t \in Tables, n \in Sections : Receive(t, n) \/ ReceiveOld(t, n)

ReceptionSpec == ReceptionInit /\ [][ReceptionNext]_receptionVars

\* ready
Ready == lastFlagsID >= 0 /\ \A t \in Tables : flags[t].got \cup flags[t].ignore = Sections

(***************************************************************************)
(* Properties                                                              *)
(***************************************************************************)
\* What the store accepts of a snapshot: sections that carry the current
\* revision of their table.
Current(t, n) == payloads[t][n].reception = revisions[t].reception

\* A group that counts as complete holds, for each announced table, all
\* sections of the version last accepted, and all are its newest: none is
\* missing, of a replaced version, or waits to be replaced.  Only segments of
\* the first table that elapsed while this version was received may be missing.
CompleteIsCurrent ==
    Ready => \A t \in 0 .. lastFlagsID :
        /\ accepted[t] # NotAnnounced
        /\ \A n \in SectionsOf(accepted[t].layout) :
              \/ t = 0 /\ SegmentOf(n) < elapsed
              \/ Current(t, n) /\ payloads[t][n].gen = accepted[t].gen

\* One full cycle of the sections on air, with none of a replaced version in
\* between, makes the group complete whatever was received before.
CycleCompletes ==
    (\A t \in 0 .. air[0].last : \A n \in SectionsOf(air[t].layout) : <<t, n>> \in cycle) => Ready

\* The collector says "complete" when, and only when, it has the current tables.
ReportIsCurrent == CompleteIsCurrent /\ CycleCompletes

\* A version that was received and replaced does not come back: what still
\* arrives of it is not taken for a new version, until every version number
\* has been used.
NoReplay ==
    [][\A t \in Tables : /\ seenVersions[t] # 0 .. NumVersions - 1
                         /\ accepted'[t].gen # accepted[t].gen
                         => accepted'[t].gen \notin taken[t]]_receptionVars
=============================================================================
