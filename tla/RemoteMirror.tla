---------------------------- MODULE RemoteMirror ----------------------------
(***************************************************************************)
(* The mirror of another server's tuners in stream/manager.go: snapshots   *)
(* it requests at the start, whenever the event stream is connected and    *)
(* every five minutes, and the events of that stream, applied by two       *)
(* goroutines.  Connections fail and are repeated.                         *)
(***************************************************************************)
EXTENDS Integers, Sequences

CONSTANTS
    RemoteTuners,      \* tuners of the other server
    MaxRemoteChanges,  \* bound: changes of their status
    MaxFetchFailures   \* bound: requests for a snapshot that fail

VARIABLES
    remote,        \* the status of each tuner there, counted; -1: it has no such tuner
    line,          \* events on the connection
    mirror,        \* remoteTuners of this server; -1: not known
    sync,          \* runRemoteEventSync: off, refresh, connect, opened, read, backoff,
                   \* leaving, ended
    ticker,        \* its goroutine: off, wait, refresh, last
    failures,      \* requests for a snapshot that failed so far
    fetched,       \* the snapshot each of the two has in hand
    stopped        \* its context is done

mirrorVars == <<remote, line, mirror, sync, ticker, failures, fetched, stopped>>

Actors == {"sync", "ticker"}
Nowhere == [t \in RemoteTuners |-> -1]
NotFetched == [t \in RemoteTuners |-> -2]
Connected == sync \in {"opened", "read"}
Refreshing(a) == IF a = "sync" THEN sync \in {"refresh", "opened"} ELSE ticker = "refresh"

MirrorInit ==
    /\ remote = [t \in RemoteTuners |-> 0] /\ line = <<>> /\ mirror = Nowhere
    /\ sync = "off" /\ ticker = "off" /\ failures = 0
    /\ fetched = [a \in Actors |-> NotFetched] /\ stopped = FALSE

\* The other server (external): a tuner's status changes, or the tuner is gone.
RemoteEvent(t, typ) ==
    /\ line' = IF Connected THEN Append(line, [tuner |-> t, typ |-> typ, status |-> remote'[t]])
               ELSE line
    /\ UNCHANGED <<mirror, sync, ticker, fetched, stopped, failures>>
RemoteChanges(t) ==
    /\ sync # "off" /\ remote[t] \in 0 .. MaxRemoteChanges - 1
    /\ remote' = [remote EXCEPT ![t] = @ + 1] /\ RemoteEvent(t, "update")
RemoteRemoves(t) ==
    /\ sync # "off" /\ remote[t] # -1
    /\ remote' = [remote EXCEPT ![t] = -1] /\ RemoteEvent(t, "remove")

StartSync ==
    /\ sync = "off" /\ sync' = "refresh"
    /\ UNCHANGED <<remote, line, mirror, ticker, fetched, stopped, failures>>

Close ==
    /\ sync # "off" /\ ~stopped /\ stopped' = TRUE
    /\ UNCHANGED <<remote, line, mirror, sync, ticker, fetched, failures>>

\* What refresh returns to.  Once the context is done no second tick is ready in
\* time for the ticker's select to prefer it.
Refreshed(a) ==
    IF a = "ticker" THEN ticker' = (IF stopped THEN "last" ELSE "wait") /\ UNCHANGED sync
    ELSE /\ sync' = IF sync = "refresh" THEN "connect" ELSE "read"
         /\ ticker' = IF sync = "refresh" THEN "wait" ELSE ticker

\* refresh: the request, and replaceRemoteTuners with its answer
Fetch(a) ==
    /\ Refreshing(a) /\ fetched[a] = NotFetched /\ ~stopped
    /\ fetched' = [fetched EXCEPT ![a] = remote]
    /\ UNCHANGED <<remote, line, mirror, sync, ticker, stopped, failures>>
FetchFails(a) ==
    /\ Refreshing(a) /\ fetched[a] = NotFetched /\ Refreshed(a)
    /\ IF stopped THEN UNCHANGED failures
       ELSE failures < MaxFetchFailures /\ failures' = failures + 1
    /\ UNCHANGED <<remote, line, mirror, fetched, stopped>>
Replace(a) ==
    /\ fetched[a] # NotFetched /\ mirror' = fetched[a] /\ Refreshed(a)
    /\ fetched' = [fetched EXCEPT ![a] = NotFetched]
    /\ UNCHANGED <<remote, line, stopped, failures>>

\* Mutant: the ticker refreshes only until a snapshot arrived.
TickOnce == ticker = "wait" /\ \A t \in RemoteTuners : mirror[t] = -1
TickFires == ticker = "wait"
Tick ==
    /\ TickFires /\ ticker' = "refresh"
    /\ UNCHANGED <<remote, line, mirror, sync, fetched, stopped, failures>>
TickerEnds ==
    /\ ticker \in {"wait", "last"} /\ stopped /\ ticker' = "off"
    /\ UNCHANGED <<remote, line, mirror, sync, fetched, stopped, failures>>

Connect ==
    /\ sync = "connect" /\ ~stopped /\ sync' = "opened" /\ line' = <<>>
    /\ UNCHANGED <<remote, mirror, ticker, fetched, stopped, failures>>
\* applyRemoteTunerEvent
ApplyEvent ==
    /\ sync = "read" /\ line # <<>> /\ line' = Tail(line)
    /\ mirror' = [mirror EXCEPT ![Head(line).tuner] =
                     IF Head(line).typ = "remove" THEN -1 ELSE Head(line).status]
    /\ UNCHANGED <<remote, sync, ticker, fetched, stopped, failures>>
\* The request fails or the stream ends; the loop waits before the next one.
ConnectionFails ==
    /\ sync \in {"connect", "read"} /\ ~stopped /\ sync' = "backoff" /\ line' = <<>>
    /\ UNCHANGED <<remote, mirror, ticker, fetched, stopped, failures>>
BackoffEnds ==
    /\ sync = "backoff" /\ ~stopped /\ sync' = "connect"
    /\ UNCHANGED <<remote, line, mirror, ticker, fetched, stopped, failures>>

SyncDone == ticker = "off"
\* The loop leaves and waits for the ticker's goroutine.
LoopLeaves ==
    /\ sync \in {"connect", "read", "backoff"} /\ stopped /\ sync' = "leaving" /\ line' = <<>>
    /\ UNCHANGED <<remote, mirror, ticker, fetched, stopped, failures>>
SyncEnded ==
    /\ sync = "leaving" /\ SyncDone /\ sync' = "ended"
    /\ UNCHANGED <<remote, line, mirror, ticker, fetched, stopped, failures>>

MirrorNext ==
    \/ \E t \in RemoteTuners : RemoteChanges(t) \/ RemoteRemoves(t)
    \/ StartSync \/ Close
    \/ \E a \in Actors : Fetch(a) \/ FetchFails(a) \/ Replace(a)
    \/ Tick \/ TickerEnds \/ Connect \/ ApplyEvent \/ ConnectionFails \/ BackoffEnds \/ LoopLeaves \/ SyncEnded

\* The ticker ticks, the goroutines go on, and a request or a connection ends,
\* with an answer or by its timeout.
MirrorFairness ==
    /\ WF_mirrorVars(Tick) /\ WF_mirrorVars(TickerEnds) /\ WF_mirrorVars(LoopLeaves) /\ WF_mirrorVars(SyncEnded)
    /\ WF_mirrorVars(ApplyEvent) /\ WF_mirrorVars(BackoffEnds) /\ WF_mirrorVars(Connect \/ ConnectionFails)
    /\ \A a \in Actors : WF_mirrorVars(Fetch(a) \/ FetchFails(a) \/ Replace(a))

MirrorSpec == MirrorInit /\ [][MirrorNext]_mirrorVars /\ MirrorFairness

(***************************************************************************)
(* Properties                                                              *)
(***************************************************************************)
\* After StopRemoteProgramEventSync returned nothing writes to the mirror.
EndedIsQuiet == [][sync = "ended" => mirror' = mirror]_mirrorVars

\* Once the other server's tuners stop changing the mirror shows their status
\* for good, although events are lost with a connection, a snapshot fails and
\* an old snapshot may overwrite a newer event.
MirrorSettles == <>[](sync = "off" \/ stopped \/ mirror = remote)

\* The mirror follows the other server while it is synchronised, and then rests.
MirrorFollows == MirrorSettles /\ EndedIsQuiet

\* The synchronisation ends once its context is done.
SyncEnds == stopped ~> sync = "ended"
=============================================================================
