------------------------- MODULE MCSourceAndLimiter -------------------------
(***************************************************************************)
(* SensorSource and RateLimiter for TLC.  They share no variable: as in    *)
(* MCServices, a behaviour moves in one of the two and leaves the other as *)
(* it began.  Fairness is on the tasks of the first, where the liveness    *)
(* property is.                                                            *)
(***************************************************************************)
EXTENDS TLC, SensorSource, RateLimiter

CONSTANTS c1, c2, c3

\* Two clients collide in the hash table, and the third is in their way.
MCHash == (c1 :> 1) @@ (c2 :> 1) @@ (c3 :> 0)

VARIABLE part

allVars == <<sourceVars, rateVars, part>>

MCInit == SourceInit /\ RateInit /\ part \in {"source", "limiter"}

MCNext ==
    \/ part = "source" /\ SourceNext /\ UNCHANGED <<rateVars, part>>
    \/ part = "limiter" /\ RateNext /\ UNCHANGED <<sourceVars, part>>

MCFairness ==
    part = "source" =>
        WF_sourceVars(BootSensors) /\ WF_sourceVars(ControlStep) /\ WF_sourceVars(Handler)

MCSpec == MCInit /\ [][MCNext]_allVars /\ MCFairness

=============================================================================
