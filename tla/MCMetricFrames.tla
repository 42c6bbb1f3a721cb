--------------------------- MODULE MCMetricFrames ---------------------------
(* Constant values of the runs of MetricFrames.                            *)
EXTENDS MetricFrames, MCEventGrouping

TwoSockets == 0 :> 0 @@ 1 :> 1 @@ 2 :> 0

NoTma   == {"FixedInstructions", "FixedCycles", "FixedRefCycles", "RefCycles"}
NoFixed == {"RefCycles"}
MCTargets == {Server, Virtual, NoTma, NoFixed}

FramesPool == {<<"any", "cycles">>, <<"cycles", "high">>, <<"low", "first", "instructions">>,
               <<"cha any", "cha high", "cycles">>, <<"imc", "power", "any">>, <<"pm1", "low">>}

\* All lists of two different metrics.
FramesMetrics == {l \in FramesPool \X FramesPool : l[1] # l[2]}

\* Two groups with a shared border.
Border == {<< <<"any", "cycles">>, <<"cycles", "high">> >>}
=============================================================================
