--------------------------- MODULE MCJobManager ---------------------------
(* Instances of JobManager after the definitions in src/internal/job/defs. *)
EXTENDS JobManager

CONSTANTS scan1, scan2, gather1, gather2, gather3, after, plain, topology, live, storedEPG

\* service_updater.go and epg_gatherer.go: scans write the topology, the
\* gathering of a group reads it.
MCExclusive == [k \in Keys |-> IF k \in {scan1, scan2, after} THEN {topology} ELSE {}]
MCShared == [k \in Keys |-> IF k \in {gather1, gather2, gather3} THEN {topology} ELSE {}]
MCDepends == [k \in Keys |-> IF k = after THEN {scan1, scan2} \cap Keys ELSE {}]
MCPriority == [k \in Keys |-> IF k = gather2 THEN 1 ELSE 0]
\* epg_controller.go: a group with stored EPG is independent of the live ones.
MCGroup == [k \in Keys |-> CASE k = gather1 -> live
                             [] k \in {gather2, gather3} -> storedEPG
                             [] OTHER -> NoGroup]
MCLimits == [g \in Groups |-> 1]
\* Jobs with one retry next to jobs with none.
MCRetry == [k \in Keys |-> IF k \in {scan1, gather1, plain} THEN 1 ELSE 0]
=============================================================================
