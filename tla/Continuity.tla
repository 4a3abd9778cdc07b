----------------------------- MODULE Continuity -----------------------------
(***************************************************************************)
(* The drop detector of stream/demux/demuxer.go, for one PID: packets with *)
(* a continuity counter that wraps around, that may be sent twice, that    *)
(* may announce a discontinuity and that may be lost on the way.           *)
(***************************************************************************)
EXTENDS Integers

CONSTANTS
    Counters,      \* 16 values of the continuity counter
    Contents,      \* what distinguishes one packet from another with its counter
    MaxPackets     \* bound: packets sent

VARIABLES
    packet,        \* broadcaster: the packet last sent
    packets,       \* broadcaster: packets sent
    copies,        \* broadcaster: copies of the last packet sent, and how many arrived
    gap,           \* history: packets lost before the last one, and whether one of them jumped
    monitor,       \* continuityMonitor: seen, last, duplicateSeen and lastPacket of the PID
    verdict        \* history: what observe found in the last packet, and what was lost before it

continuityVars == <<packet, packets, copies, gap, monitor, verdict>>

NoPacket == [counter |-> -1, content |-> "none", jump |-> FALSE]
NoGap == [packets |-> 0, jump |-> FALSE]
Fresh == [seen |-> FALSE, last |-> 0, duplicate |-> FALSE, packet |-> NoPacket]

ContinuityInit ==
    /\ packet = NoPacket /\ packets = 0 /\ copies = [sent |-> 2, arrived |-> 2] /\ gap = NoGap
    /\ monitor = Fresh
    /\ verdict = [drop |-> FALSE, gap |-> NoGap, known |-> FALSE, same |-> FALSE]

After(counter) == (counter + 1) % Counters
\* A discontinuity makes the monitor forget.
Before(p) == IF p.jump THEN [Fresh EXCEPT !.last = monitor.last] ELSE monitor

\* Mutant: the counter does not wrap.
DroppedNoWrap(m, p) == m.seen /\ p.counter # m.last + 1
\* The counter is not the next one.
Dropped(m, p) == m.seen /\ p.counter # After(m.last)

\* One copy of a packet is no error.
IsCopy(m, p) == m.seen /\ p.counter = m.last /\ ~m.duplicate /\ m.packet = p

\* observe of a packet with a payload, before which lost were lost
Arrives(p, lost, first) ==
    LET m == Before(p) IN
    /\ monitor' = IF IsCopy(m, p) THEN [m EXCEPT !.duplicate = TRUE]
                  ELSE [seen |-> TRUE, last |-> p.counter, duplicate |-> FALSE, packet |-> p]
    /\ verdict' = [drop |-> ~IsCopy(m, p) /\ Dropped(m, p), gap |-> lost, known |-> m.seen /\ first, same |-> m.packet = p]

Lost ==
    IF copies.arrived > 0 THEN NoGap ELSE [packets |-> gap.packets + 1, jump |-> gap.jump \/ packet.jump]

Sends(p, arrives) ==
    /\ packets < MaxPackets /\ packets' = packets + 1 /\ packet' = p /\ gap' = Lost
    /\ copies' = [sent |-> 1, arrived |-> IF arrives THEN 1 ELSE 0]
    /\ IF arrives THEN Arrives(p, Lost, TRUE) ELSE UNCHANGED <<monitor, verdict>>

Send(content, arrives) ==
    Sends([counter |-> After(packet.counter), content |-> content, jump |-> FALSE], arrives)

\* A discontinuity: the counter goes on from anywhere.
SendJump(content, counter, arrives) == Sends([counter |-> counter, content |-> content, jump |-> TRUE], arrives)

SendCopy(arrives) ==
    /\ copies.sent = 1
    /\ copies' = [sent |-> 2, arrived |-> copies.arrived + IF arrives THEN 1 ELSE 0]
    /\ IF arrives THEN Arrives(packet, gap, copies.arrived = 0) ELSE UNCHANGED <<monitor, verdict>>
    /\ UNCHANGED <<packet, packets, gap>>

\* A packet without a payload does not count, but may announce a discontinuity.
SendAdaptation ==
    /\ monitor' = [Fresh EXCEPT !.last = monitor.last]
    /\ UNCHANGED <<packet, packets, copies, gap, verdict>>

ContinuityNext ==
    \/ \E content \in Contents, arrives \in BOOLEAN :
          Send(content, arrives) \/ \E c \in 0 .. Counters - 1 : SendJump(content, c, arrives)
    \/ \E arrives \in BOOLEAN : SendCopy(arrives)
    \/ SendAdaptation

ContinuitySpec == ContinuityInit /\ [][ContinuityNext]_continuityVars

(***************************************************************************)
(* Properties                                                              *)
(***************************************************************************)
\* A drop is reported only if packets were lost before the packet: not for a packet that was
\* sent twice, for an announced discontinuity or when the counter wraps.
DropIsLoss == verdict.drop => verdict.gap.packets > 0

\* A loss is reported with the packet that arrives next, unless the number of packets lost
\* is a whole turn of the counter, or one less and the next packet looks like
\* a copy, or a discontinuity was lost with them.
LossIsReported ==
    verdict.known /\ verdict.gap.packets > 0 /\ ~verdict.gap.jump /\ ~verdict.drop =>
        \/ verdict.gap.packets % Counters = 0
        \/ verdict.gap.packets % Counters = Counters - 1 /\ verdict.same

\* Reported drops are the losses that the counter can show, no more and no fewer.
DropsAreLosses == DropIsLoss /\ LossIsReported
=============================================================================
