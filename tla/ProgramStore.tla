---------------------------- MODULE ProgramStore ----------------------------
(***************************************************************************)
(* The programmes of one service (program/manager.go, eit.go,              *)
(* present_following.go, remove.go): which of the tables that describe     *)
(* the same events wins.  Schedule snapshots are written late and out of   *)
(* the order in which they were received; p/f snapshots, clean-up and      *)
(* restarts come in between.  A programme is reduced to its times, its     *)
(* p/f slot and the origin of its row; descriptive fields are left out.    *)
(***************************************************************************)
EXTENDS Integers, Sequences, FiniteSets, SequencesExt

CONSTANTS
    NumIds,        \* programmes of the service
    Times,         \* of schedule events: pairs <<start, duration>>, 0 is undecided
    PfTables,      \* tuples <<present, its times, following, its times>>, id 0 is none
    Others,        \* sources of EIT other
    MaxRec,        \* bound: receptions of schedule tables, by source
    Cutoffs        \* of the clean-up and of a remote refresh

Ids == 1 .. NumIds
Actual == "actual"
NoRev == [by |-> "none", rec |-> 0]
NoRow == [start |-> 0, dur |-> 0, slot |-> "none", susp |-> FALSE, rev |-> NoRev, in |-> FALSE]

VARIABLES
    rows,          \* the stored programmes; in = FALSE: no row
    eit,           \* Manager.eit: revision and end of the last accepted write
    eitTables,     \* latest reception per source, 0 is none
    remote,        \* the service belongs to a remote server
    step           \* history: what wrote last; "late" is a schedule that a newer
                   \* reception of its source has overtaken, "missed" a complete
                   \* p/f whose present programme was not stored as such

storeVars == <<rows, eit, eitTables, remote, step>>

NoState == [rev |-> NoRev, end |-> 0]

ProgramsInit ==
    /\ rows = [i \in Ids |-> NoRow] /\ eit = [i \in Ids |-> NoState]
    /\ eitTables = [s \in {Actual} \cup Others |-> 0]
    /\ remote \in BOOLEAN /\ step = "other"

(***************************************************************************)
(* Which revision wins                                                     *)
(***************************************************************************)

\* EITRevision.PreferTo
PreferTo(r, previous) ==
    IF (r.by = Actual) # (previous.by = Actual) THEN r.by = Actual
    ELSE r.by = previous.by /\ r.rec >= previous.rec

\* Mutant: the receptions of this process are not consulted.
AcceptEITStoredOnly(i, p, tables) ==
    \/ p.rev = NoRev \/ ~rows[i].in
    \/ IF rows[i].rev # NoRev THEN PreferTo(p.rev, rows[i].rev) ELSE p.rev.by = Actual

\* acceptEIT; tables holds the latest reception of every source.
AcceptEIT(i, p, tables) ==
    \/ p.rev = NoRev
    \/ /\ tables[p.rev.by] = 0 \/ p.rev.rec >= tables[p.rev.by]
       /\ IF eit[i].rev # NoRev THEN PreferTo(p.rev, eit[i].rev)
          ELSE ~rows[i].in \/ IF rows[i].rev # NoRev THEN PreferTo(p.rev, rows[i].rev)
                              ELSE p.rev.by = Actual

\* mergeUpsertProgram
Merge(old, p) ==
    IF ~old.in THEN p
    ELSE [p EXCEPT !.rev = IF p.rev = NoRev THEN old.rev ELSE p.rev,
                   !.slot = IF p.slot = "none" THEN old.slot ELSE p.slot]

\* What one incoming programme makes of its row; NoRow if it is not taken.
After(i, p, pf, accepted) ==
    LET old == rows[i]
        base == IF ~accepted THEN IF old.in THEN [Merge(p, old) EXCEPT !.rev = old.rev] ELSE NoRow
                ELSE IF ~pf /\ p.rev # NoRev /\ old.in /\ old.slot # "none" THEN Merge(p, old)
                ELSE Merge(old, p)
    IN IF pf /\ base.in
       THEN [base EXCEPT !.slot = p.slot,
                         !.susp = p.slot = "following" /\ (old.slot = "present" \/ old.susp)]
       ELSE base

\* sameProgram compares what the store writes: no reception.
Stored(row) == [row EXCEPT !.rev.rec = 0]

Overlaps(p, q) ==
    /\ q.in /\ p.start # 0 /\ p.dur > 0 /\ q.start # 0 /\ q.dur > 0
    /\ p.start < q.start + q.dur /\ q.start < p.start + p.dur

(***************************************************************************)
(* upsertPrograms                                                          *)
(***************************************************************************)

\* One element of the loop over toWrite: w.written are the rows as they will be;
\* an overlapping row is removed, or blocks the write if its origin is preferred.
WriteOne(after, incoming, pf, w, i) ==
    LET p == after[i]
        now == [w.written EXCEPT ![i] = p]
        moved == ~(rows[i].in /\ rows[i].start = p.start /\ rows[i].dur = p.dur)
        exempt == {j \in Ids : /\ now[j].slot # "none"
                               /\ \/ pf /\ incoming[j].slot # "none"
                                  \/ incoming[i].slot # "present"}
        hit == {j \in Ids \ ({i} \cup exempt) : moved /\ Overlaps(p, now[j])}
        origin(j) == IF now[j].rev # NoRev THEN now[j].rev ELSE eit[j].rev
        blocks(j) == p.rev # NoRev /\ IF origin(j) = NoRev THEN p.rev.by # Actual
                                      ELSE ~PreferTo(p.rev, origin(j))
    IN IF \E j \in hit : blocks(j)
       THEN [w EXCEPT !.blocked = @ \cup {i}, !.removed = @ \ {i}, !.written[i] = rows[i]]
       ELSE [w EXCEPT !.removed = (@ \ {i}) \cup hit, !.written = now]

\* recordEIT
Record(after, accepted) ==
    LET fresh == {i \in accepted : after[i].rev # NoRev /\
                    ~(/\ eit[i].rev # NoRev /\ PreferTo(eit[i].rev, after[i].rev)
                      /\ eit[i].rev.rec > after[i].rev.rec)}
    IN eit' = [i \in Ids |-> IF i \in fresh
                             THEN [rev |-> after[i].rev, end |-> after[i].start + after[i].dur]
                             ELSE eit[i]]

\* incoming: the programmes by id (in = FALSE: none), in the given order; each
\* \E over a set of one value names that value.
Upsert(incoming, order, pf, retired, tables) ==
    \E accepted \in {{i \in Range(order) : AcceptEIT(i, incoming[i], tables)}} :
    \E after \in {[i \in Ids |-> IF i \in Range(order)
                                THEN After(i, incoming[i], pf, i \in accepted) ELSE NoRow]} :
    LET toWrite == SelectSeq(order, LAMBDA i : after[i].in /\ Stored(after[i]) # rows[i])
        loop[n \in 0 .. Len(toWrite)] ==
            IF n = 0 THEN [removed |-> retired, blocked |-> {}, written |-> rows]
            ELSE CHOOSE r \in {WriteOne(after, incoming, pf, w, toWrite[n]) : w \in {loop[n - 1]}} : TRUE
    IN \E done \in {loop[Len(toWrite)]} : LET kept == Range(toWrite) \ (done.removed \cup done.blocked)
    IN /\ rows' = [i \in Ids |-> IF i \in done.removed THEN NoRow
                                 ELSE IF i \in kept THEN Stored(after[i]) ELSE rows[i]]
       /\ Record(after, accepted \ (done.removed \cup done.blocked))

(***************************************************************************)
(* Operations                                                              *)
(***************************************************************************)
Row(t, rev, slot) ==
    [start |-> t[1], dur |-> t[2], slot |-> slot, susp |-> FALSE, rev |-> rev, in |-> TRUE]

Events(rev) == [Ids -> {NoRow} \cup {Row(t, rev, "none") : t \in Times}]

In(evs) == {i \in Ids : evs[i].in}
InOrder(S) == SelectSeq([i \in Ids |-> i], LAMBDA i : i \in S)

\* UpsertSchedule: the tables take the reception even if the write then fails.
UpsertSchedule(rev, evs) ==
    LET tables == [eitTables EXCEPT ![rev.by] = IF rev.rec > @ THEN rev.rec ELSE @]
    IN /\ ~remote
       /\ eitTables' = tables
       /\ Upsert(evs, InOrder(In(evs)), FALSE, {}, tables)
       /\ step' = IF rev.rec < eitTables[rev.by] THEN "late" ELSE "schedule"
       /\ UNCHANGED remote

UpsertScheduleFails(rev) ==
    /\ ~remote /\ rev.rec > eitTables[rev.by]
    /\ eitTables' = [eitTables EXCEPT ![rev.by] = rev.rec]
    /\ step' = "schedule"
    /\ UNCHANGED <<rows, eit, remote>>

\* The events of a p/f table: at most one in each slot, in this order.
PfEvent(i, present, tp, following, tf) ==
    IF i = present THEN Row(tp, NoRev, "present")
    ELSE IF i = following THEN Row(tf, NoRev, "following") ELSE NoRow
PfOrder(present, following) ==
    SelectSeq(<<present, following>>, LAMBDA i : i # 0)

\* reconcilePresentFollowing: rows that left both slots lose their flag, or go
\* if their end was never known: late is three hours before the reception.
Retired(gone, late) ==
    {i \in gone : /\ rows[i].in /\ rows[i].dur = 0
                  /\ rows[i].slot = "present" \/ rows[i].susp \/ rows[i].start \in 1 .. late - 1}

\* UpsertPresentFollowing: both sections of a p/f table, from a channel session
UpsertPresentFollowing(present, tp, following, tf, late) ==
    LET gone == Ids \ {present, following}
        retired == Retired(gone, late)
        left == {i \in gone \ retired : rows[i].slot # "none"}
        incoming == [i \in Ids |-> IF i \in left
                                   THEN [rows[i] EXCEPT !.slot = "none", !.susp = FALSE]
                                   ELSE PfEvent(i, present, tp, following, tf)]
    IN /\ ~remote
       /\ Upsert(incoming, PfOrder(present, following) \o InOrder(left), TRUE, retired, eitTables)
       /\ step' = IF present = 0 \/ rows'[present].slot = "present" THEN "pf" ELSE "missed"
       /\ UNCHANGED <<eitTables, remote>>

\* UpsertEvents: the p/f events that an EPG collection sees, or, without slots,
\* the programmes of a remote server
UpsertEvents(evs, order) ==
    /\ Upsert(evs, order, FALSE, {}, eitTables)
    /\ step' = "other"
    /\ UNCHANGED <<eitTables, remote>>

RemovePrograms(ids) ==
    /\ remote /\ \A i \in ids : rows[i].in
    /\ rows' = [i \in Ids |-> IF i \in ids THEN NoRow ELSE rows[i]]
    /\ eit' = [i \in Ids |-> IF i \in ids THEN NoState ELSE eit[i]]
    /\ step' = "other"
    /\ UNCHANGED <<eitTables, remote>>

\* ReplaceServicePrograms: the rows that reach past from, or have no end
ReplaceServicePrograms(from, evs) ==
    LET before == {i \in Ids : rows[i].in /\ (rows[i].start + rows[i].dur >= from \/ rows[i].dur = 0)}
    IN /\ remote
       /\ rows' = [i \in Ids |-> IF evs[i].in THEN evs[i] ELSE IF i \in before THEN NoRow ELSE rows[i]]
       /\ eit' = [i \in Ids |-> IF i \in before \cup In(evs) THEN NoState ELSE eit[i]]
       /\ step' = "other"
       /\ UNCHANGED <<eitTables, remote>>

\* DeleteEndedBefore
DeleteEndedBefore(cutoff) ==
    LET ended == {i \in Ids : rows[i].in /\ rows[i].start + rows[i].dur < cutoff}
    IN /\ rows' = [i \in Ids |-> IF i \in ended THEN NoRow ELSE rows[i]]
       /\ eit' = [i \in Ids |-> IF eit[i].end > 0 /\ eit[i].end < cutoff THEN NoState ELSE eit[i]]
       /\ step' = "other"
       /\ UNCHANGED <<eitTables, remote>>

\* Receptions are process-local: a restart keeps the rows only.
Restart ==
    /\ eit' = [i \in Ids |-> NoState] /\ eitTables' = [s \in DOMAIN eitTables |-> 0]
    /\ step' = "other"
    /\ UNCHANGED <<rows, remote>>

ProgramsNext ==
    \/ \E by \in {Actual} \cup Others : \E rec \in 1 .. MaxRec[by] :
         LET rev == [by |-> by, rec |-> rec]
         IN UpsertScheduleFails(rev) \/ \E evs \in Events(rev) : UpsertSchedule(rev, evs)
    \/ \E t \in PfTables :
         \/ \E late \in {0} \cup Cutoffs : UpsertPresentFollowing(t[1], t[2], t[3], t[4], late)
         \/ /\ ~remote
            /\ UpsertEvents([i \in Ids |-> PfEvent(i, t[1], t[2], t[3], t[4])], PfOrder(t[1], t[3]))
    \/ \E evs \in Events(NoRev) : remote /\ UpsertEvents(evs, InOrder(In(evs)))
    \/ \E ids \in SUBSET Ids : RemovePrograms(ids)
    \/ \E from \in Cutoffs, evs \in Events(NoRev) : ReplaceServicePrograms(from, evs)
    \/ \E cutoff \in Cutoffs : DeleteEndedBefore(cutoff)
    \/ Restart

ProgramsSpec == ProgramsInit /\ [][ProgramsNext]_storeVars

(***************************************************************************)
(* Properties                                                              *)
(***************************************************************************)
\* A schedule, however late it is written, neither moves nor removes a programme
\* that is in a p/f slot, and puts none there (program/EIT.md).
SlotsHold ==
    step' \in {"schedule", "late"} =>
      \A i \in Ids : IF rows[i].slot # "none" THEN [rows'[i] EXCEPT !.rev = NoRev]
                                                     = [rows[i] EXCEPT !.rev = NoRev]
                     ELSE rows'[i].slot = "none"

\* After a complete p/f the flags are those of the snapshot: at most one
\* programme is present.
OnePresent ==
    step \in {"pf", "missed"} => Cardinality({i \in Ids : rows[i].slot = "present"}) <= 1

\* A row of the actual table never becomes one of another stream's table, over
\* late writes, p/f and restarts.
ActualKept ==
    \A i \in Ids : ~remote /\ rows[i].rev.by = Actual /\ rows'[i].in
                      => rows'[i].rev.by = Actual

\* A schedule table that is written after a newer reception of its source
\* changes nothing, whatever p/f tables and clean-ups came in between.
LateScheduleIgnored ==
    step' = "late" => rows' = rows

\* Among the writes that are made, the precedence of program/EIT.md holds over
\* every order of schedules, p/f tables, clean-ups and restarts: schedules leave
\* the p/f slots alone, actual is not replaced by other, an old reception changes
\* nothing, and a complete p/f leaves one programme present at most.  That a
\* complete p/f is written is PresentStored, which does not hold.
PrecedenceKept == [][OnePresent' /\ SlotsHold /\ ActualKept /\ LateScheduleIgnored]_storeVars

(***************************************************************************)
(* A property stated by the repository that the code does not have         *)
(***************************************************************************)
\* Both sections of a p/f table of the actual stream, once complete, are applied
\* in one transaction (program/EIT.md, line 14): the programme they call present
\* is then stored as present.
PresentStored == step # "missed"
=============================================================================
