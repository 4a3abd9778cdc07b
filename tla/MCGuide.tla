------------------------------- MODULE MCGuide -------------------------------
(***************************************************************************)
(* What keeps the guide up to date, for TLC: the job manager, the EPG      *)
(* controller, programme events and the service list over restarts.  A     *)
(* behaviour moves one part and leaves the others in their initial state,  *)
(* in which no action that fairness speaks of is enabled, so that the      *)
(* states are the sum and not the product of theirs; the parts share no    *)
(* state.                                                                  *)
(***************************************************************************)
EXTENDS MCJobManager, EPGController, ProgramEvents, Startup

VARIABLE part

guideVars == <<part, vars, epgVars, eventVars, startupVars>>

\* The second service is on both channels.
MCCarried == [c1 |-> {"sA", "sB"}, c2 |-> {"sB"}]

GuideInit ==
    part \in {"jobs", "epg", "events", "startup"} /\ Init /\ EPGInit /\ EventsInit /\ StartupInit

GuideNext ==
    \/ part = "jobs" /\ Next /\ UNCHANGED <<part, epgVars, eventVars, startupVars>>
    \/ part = "epg" /\ EPGNext /\ UNCHANGED <<part, vars, eventVars, startupVars>>
    \/ part = "events" /\ EventsNext /\ UNCHANGED <<part, vars, epgVars, startupVars>>
    \/ part = "startup" /\ StartupNext /\ UNCHANGED <<part, vars, epgVars, eventVars>>

GuideSpec ==
    /\ GuideInit /\ [][GuideNext]_guideVars
    /\ Fairness /\ EPGFairness /\ EventsFairness /\ StartupFairness
=============================================================================
