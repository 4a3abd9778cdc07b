-------------------------- MODULE MCStreamSessions --------------------------
(***************************************************************************)
(* Instances of StreamSessions.                                            *)
(***************************************************************************)
EXTENDS StreamSessions, TLC

CONSTANTS c1, c2, c3, k1, k2, r1, r2

\* Two requests for one channel and one for another channel of its route.
SharedKey == (c1 :> k1) @@ (c2 :> k1) @@ (c3 :> k2)
PairKey == (c1 :> k1) @@ (c3 :> k2)
SameKey == [c \in Clients |-> k1]
SharedRoutes == (k1 :> <<r1>>) @@ (k2 :> <<r1>>)
\* The second channel prefers a route of its own.
FallbackRoutes == (k1 :> <<r1>>) @@ (k2 :> <<r2, r1>>)
=============================================================================
