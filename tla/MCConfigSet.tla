--------------------------- MODULE MCConfigSet ---------------------------
(* Constant values of the runs of ConfigSet.                               *)
EXTENDS ConfigSet

\* Two dies of the type.
Dies == <<"0.0", "0.1">>

AllFlags == {"uncore-max", "uncore-min", "uncore-max-compute", "uncore-min-compute",
             "epb", "epp", "c1-demotion", "c6", "cores", "gov", "elc", "core-max", "llc",
             "tdp", "pref-l2hw", "pref-dcuhw", "pref-llc", "srf-core-max"}

ProgramOf(s) ==
    CASE s = "uncore-max"         -> UncoreProgram("max")
      [] s = "uncore-min"         -> UncoreProgram("min")
      [] s = "uncore-max-compute" -> UncoreDieProgram(Dies, "max")
      [] s = "uncore-min-compute" -> UncoreDieProgram(Dies, "min")
      [] s = "epb"                -> EpbProgram("0x1B0")
      [] s = "epp"                -> EppProgram
      [] s = "c1-demotion"        -> C1DemotionProgram
      [] s = "c6"                 -> C6Program
      [] s = "cores"              -> CoreCountProgram
      [] s = "gov"                -> GovernorProgram
      [] s = "elc"                -> ElcProgram
      [] s = "core-max"           -> CoreFrequencyProgram
      [] s = "srf-core-max"       -> ForestFrequencyProgram("0x774")
      [] s = "llc"                -> LlcProgram
      [] s = "tdp"                -> TdpProgram
      [] s = "pref-l2hw"          -> PrefetcherProgram("L2HW", "0x1a4")
      [] s = "pref-dcuhw"         -> PrefetcherProgram("DCUHW", "0x1a4")
      [] s = "pref-llc"           -> PrefetcherProgram("LLC", "0x6d")

AllPrograms == [s \in AllFlags |-> ProgramOf(s)]
AllLocked   == {"uncore-max", "uncore-min", "uncore-max-compute", "uncore-min-compute"}

\* A core frequency of 2.1 GHz is the ratio 21.
Ratio21 == {0, 2, 4}

\* Pairs of flags with a mutex, with and without a register or a file in common; the scripts
\* of two flags install the msr module, those of epb and of llc.
FlagRequests == {{"uncore-max", "uncore-min"}, {"uncore-max-compute", "uncore-min-compute"},
                 {"epb", "epp"}, {"c1-demotion", "tdp"}, {"gov", "elc", "c6"}, {"cores", "gov"},
                 {"core-max", "c6"}, {"srf-core-max", "epp"}, {"pref-l2hw", "pref-dcuhw"},
                 {"pref-l2hw", "pref-llc"}, {"llc", "pref-l2hw"}, {"epb", "llc"}}

SameRegister  == {{"pref-l2hw", "pref-dcuhw"}}
OtherRegister == {{"pref-l2hw", "pref-llc"}}
Forest        == {{"srf-core-max", "epp"}}
SameMaster    == {{"llc", "pref-l2hw"}}
OneTdp        == {{"tdp"}}
OneDie        == {{"uncore-max-compute"}}
OneFrequency  == {{"core-max"}}
OneCores      == {{"cores"}}

\* ProgramAssumption allows any flags of the code together; a target has one kind of core
\* frequency.
ASSUME AnyFlagsAreAllowed ==
    \A s, q \in AllFlags :
        \/ s = q \/ {s, q} \subseteq AllLocked \/ {s, q} = {"core-max", "srf-core-max"}
        \/ OwnScripts(s, q)
============================================================================
