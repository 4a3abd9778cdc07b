------------------------------- MODULE Startup -------------------------------
(***************************************************************************)
(* The service list across restarts and changes of the channel             *)
(* configuration: the startup tasks of app/app.go, the service updater and *)
(* the scans it queues (job/defs/service_updater.go, servicescan), and the *)
(* services table, whose key is the service and not the channel.           *)
(***************************************************************************)
EXTENDS Integers, FiniteSets

CONSTANTS
    Channels, Off,
    Carried,       \* the services each channel broadcasts
    Filters,       \* the sets of serviceIds a channel's entries may allow
    MaxBoots,      \* bound: restarts, each with or without a change of the configuration
    MaxFailures    \* bound: scans and database operations that fail

ASSUME StartupAssumption == Off \notin Channels

Services == UNION {Carried[c] : c \in Channels}

VARIABLES
    channels,      \* configuration: what each channel allows, or Off
    daily,         \* configuration: the service updater is in the job schedules
    owner,         \* services table: the channel of each service, Off if it has no row
    channelsHash,  \* metadata "channels_hash": the configuration, or NoHash
    boot,          \* "down", "started", "reconciled", "hashed", "up" or "unreconciled"
    stored,        \* channelConfigState.storedHash
    updater,       \* the service updater is queued or runs
    scans,         \* channels with a service scan queued or running
    boots, failures,
    interrupted    \* history: the process has ended in its startup or with an update to do

configVars == <<channels, daily>>
startupVars == <<configVars, owner, channelsHash, boot, stored, updater, scans, boots, failures,
                 interrupted>>

Configs == [Channels -> {{Off}} \cup Filters]
NoHash == [c \in Channels |-> {}]
Enabled == {c \in Channels : channels[c] # {Off}}
Listed(c) == {s \in Services : owner[s] = c}

StartupInit ==
    /\ channels = [c \in Channels |-> {Off}] /\ owner = [s \in Services |-> Off]
    /\ channelsHash = NoHash /\ boot = "down" /\ stored = NoHash
    /\ updater = FALSE /\ scans = {} /\ boots = 0 /\ failures = 0
    /\ daily = FALSE /\ interrupted = FALSE

\* The process starts, perhaps with another configuration; jobs.Start.  The
\* updater is scheduled if no job schedules are configured, or if one names it.
Start ==
    /\ boot = "down" /\ boots < MaxBoots /\ boots' = boots + 1
    /\ channels' \in Configs /\ daily' \in BOOLEAN /\ boot' = "started"
    /\ UNCHANGED <<owner, channelsHash, stored, updater, scans, failures, interrupted>>

\* ReconcileChannels: the rows of channels that are gone or disabled
ReconcileChannels ==
    /\ boot = "started" /\ boot' = "reconciled"
    /\ owner' = [s \in Services |-> IF owner[s] \in Enabled THEN owner[s] ELSE Off]
    /\ UNCHANGED <<configVars, interrupted, channelsHash, stored, updater, scans, boots, failures>>

\* loadChannelConfigState: the new hash is stored before anything is queued.
LoadChannelConfigState ==
    /\ boot = "reconciled" /\ boot' = "hashed"
    /\ \/ stored' = channelsHash /\ channelsHash' = channels /\ UNCHANGED failures
       \/ /\ failures < MaxFailures /\ failures' = failures + 1
          /\ \/ stored' = NoHash /\ channelsHash' = channels            \* the read fails
             \/ stored' = channelsHash /\ UNCHANGED channelsHash        \* the write fails
    /\ UNCHANGED <<configVars, interrupted, owner, updater, scans, boots>>

NeedsUpdate ==
    \/ \A s \in Services : owner[s] = Off
    \/ stored # NoHash /\ stored # channels

\* enqueueStartupServiceUpdate; without it, the scans of channels that have
\* no services.  The updater cannot be queued twice.
EnqueueStartup ==
    /\ boot = "hashed" /\ boot' = "up"
    /\ IF NeedsUpdate /\ ~updater
       THEN updater' = TRUE /\ UNCHANGED scans
       ELSE scans' = scans \cup {c \in Enabled : Listed(c) = {}} /\ UNCHANGED updater
    /\ UNCHANGED <<configVars, interrupted, owner, channelsHash, stored, boots, failures>>

\* runStartupTasks gives up on an error of the database, before the table is
\* reconciled or before anything is queued; the process runs on.
StartupTasksFail ==
    /\ failures < MaxFailures /\ failures' = failures + 1
    /\ \/ boot = "started" /\ boot' = "unreconciled"
       \/ boot = "hashed" /\ boot' = "up"
    /\ UNCHANGED <<configVars, interrupted, owner, channelsHash, stored, updater, scans, boots>>

\* The daily schedule of the updater
Scheduled ==
    /\ daily /\ boot # "down" /\ ~updater /\ updater' = TRUE
    /\ UNCHANGED <<configVars, interrupted, owner, channelsHash, stored, scans, boots, failures, boot>>

\* Mutant: the updater scans only channels that have no services.
UpdaterRunsMissing ==
    /\ updater /\ updater' = FALSE
    /\ scans' = scans \cup {c \in Enabled : Listed(c) = {}}
    /\ UNCHANGED <<configVars, interrupted, owner, channelsHash, stored, boot, boots, failures>>

\* RegisterServiceUpdater, EnqueueServiceScans: a scan of every channel that has none
UpdaterRuns ==
    /\ updater /\ updater' = FALSE
    /\ scans' = scans \cup Enabled
    /\ UNCHANGED <<configVars, interrupted, owner, channelsHash, stored, boot, boots, failures>>

\* The services a scan finds and the channel's entries allow
Found(c) == Carried[c] \cap channels[c]

\* ReplaceChannelServices: the channel's rows are deleted, and the services
\* found are inserted or taken over from another channel.
ScanChannel(c) ==
    /\ c \in scans /\ scans' = scans \ {c}
    /\ owner' = [s \in Services |->
                    IF s \in Found(c) THEN c
                    ELSE IF owner[s] = c THEN Off ELSE owner[s]]
    /\ UNCHANGED <<configVars, interrupted, channelsHash, stored, updater, boot, boots, failures>>

\* A scan fails for good: no signal, or no tuner in all its retries.
ScanFails(c) ==
    /\ c \in scans /\ scans' = scans \ {c}
    /\ failures < MaxFailures /\ failures' = failures + 1
    /\ UNCHANGED <<configVars, interrupted, owner, channelsHash, stored, updater, boot, boots>>

\* The startup, or an update or scan that it may have queued, is not done.
UpdateOwed == boot # "up" \/ updater \/ scans # {}

\* The process ends: queued and running jobs are in memory only.
Crash ==
    /\ boot # "down" /\ boots < MaxBoots /\ boot' = "down"
    /\ updater' = FALSE /\ scans' = {} /\ stored' = NoHash
    /\ interrupted' = (interrupted \/ UpdateOwed)
    /\ UNCHANGED <<configVars, owner, channelsHash, boots, failures>>

StartupNext ==
    \/ Start \/ ReconcileChannels \/ LoadChannelConfigState \/ EnqueueStartup
    \/ StartupTasksFail \/ Scheduled \/ UpdaterRuns \/ Crash
    \/ \E c \in Channels : ScanChannel(c) \/ ScanFails(c)

StartupSpec == StartupInit /\ [][StartupNext]_startupVars

\* A process that ended is started again, its startup goes on, the clock reaches
\* the daily schedule if there is one, and queued jobs run.
StartupFairness ==
    /\ WF_startupVars(boots > 0 /\ Start) /\ WF_startupVars(ReconcileChannels)
    /\ WF_startupVars(LoadChannelConfigState) /\ WF_startupVars(EnqueueStartup)
    /\ WF_startupVars(Scheduled) /\ WF_startupVars(UpdaterRuns)
    /\ \A c \in Channels : WF_startupVars(ScanChannel(c) \/ ScanFails(c))

FairStartupSpec == StartupSpec /\ StartupFairness

(***************************************************************************)
(* Properties                                                              *)
(***************************************************************************)

\* Once the startup has reconciled the table, no service is listed on a channel
\* that is not configured: tuning it could only fail.
ListedIsConfigured ==
    boot \in {"reconciled", "hashed", "up"} => \A s \in Services : owner[s] \in Enabled \cup {Off}

\* What a service list should be: the services that some enabled channel
\* carries and allows, each on such a channel, and no others; only a startup
\* that could not reconcile leaves services of channels that are gone.
ListIsRight ==
    \A s \in Services :
        LET on == {c \in Enabled : s \in Found(c)}
        IN \/ on = {} /\ owner[s] = Off
           \/ on = {} /\ boot = "unreconciled" /\ owner[s] \notin Enabled
           \/ owner[s] \in on

\* However often the process ends between storing the hash and running the
\* update, the service list settles on what the configuration asks for if the
\* updater is scheduled.  If it is not, the startup alone brings it there,
\* over restarts and changes of the configuration, unless a scan or a database
\* operation failed or the process ended before the update was done: the hash
\* then says that nothing changed, and nothing repeats the update.
ListSettles == <>[](daily \/ (failures = 0 /\ ~interrupted) => ListIsRight)

\* The service list is usable from the reconciliation on, and right in the end.
ListCorrect == ListSettles /\ []ListedIsConfigured
=============================================================================
