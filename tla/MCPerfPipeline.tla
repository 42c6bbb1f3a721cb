-------------------------- MODULE MCPerfPipeline --------------------------
(* Constant values of the runs of PerfPipeline.                            *)
EXTENDS PerfPipeline

\* A line without an interval, two intervals of two events and one of one.
ThreeIntervals == <<0, 1, 1, 2, 2, 3>>
TwoIntervals   == <<1, 1, 2>>
FourIntervals  == <<1, 2, 3, 4>>

Ask(scope, duration, listed, app, lines) ==
    [scope |-> scope, duration |-> duration, listed |-> listed, app |-> app, lines |-> lines]

Timed       == Ask("system", TRUE, FALSE, FALSE, 0)
Untimed     == Ask("system", FALSE, FALSE, FALSE, 0)
Application == Ask("system", FALSE, FALSE, TRUE, 1)
Talkative   == Ask("system", FALSE, FALSE, TRUE, 3)
Processes   == Ask("process", FALSE, FALSE, FALSE, 0)
Cgroups     == Ask("cgroup", FALSE, FALSE, FALSE, 0)

AllKinds    == {Timed, Untimed, Application, Talkative, Processes, Cgroups}
TimedOnly   == {Timed}
AppOnly     == {Talkative}
UntimedOnly == {Untimed}
============================================================================
