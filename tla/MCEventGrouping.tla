--------------------------- MODULE MCEventGrouping --------------------------
(* Constant values of the runs of EventGrouping.                           *)
EXTENDS EventGrouping

MCCore   == {"instructions", "cycles", "cycles too", "ref", "ref:k", "slots", "pm1", "pm2",
             "any", "low", "high", "first", "far", "ocr1", "ocr2", "ocr3", "alone1", "alone2"}
MCUncore == {"cha", "cha low", "cha high", "cha any", "imc"}

MCCounter == [e \in MCCore \cup MCUncore |->
    CASE e \in {"instructions", "first"}      -> {0}
      [] e \in {"cycles", "cycles too"}       -> {1}
      [] e = "ref"                            -> {2}
      [] e \in {"pm1", "pm2"}                 -> {}
      [] e = "slots"                          -> {3}
      [] e = "far"                            -> {7}
      [] e \in {"low", "ocr1", "cha low"}     -> {0, 1}
      [] e \in {"high", "cha high"}           -> {1, 2}
      [] e = "cha"                            -> {0}
      [] OTHER                                -> 0..3]

MCFixed == [e \in MCCore |->
    CASE e = "instructions"            -> 0
      [] e \in {"cycles", "cycles too"} -> 1
      [] e = "ref"                     -> 2
      [] e = "slots"                   -> 3
      [] OTHER                         -> NotFixed]

MCTakenAlone == [e \in MCCore |-> IF e \in {"alone1", "alone2"} THEN "1" ELSE "0"]
MCUnit       == [e \in MCUncore |-> IF e = "imc" THEN "iMC" ELSE "CHA"]

\* A server, a virtual machine without fixed counters, and one without TMA and uncore.
Server  == Feature
Virtual == {"OCR", "RefCycles", "PEBS", "Uncore", "Other"}
Simple  == {"FixedInstructions", "FixedCycles", "FixedRefCycles", "OCR", "RefCycles"}
MCMetadatas == {Server, Virtual, Simple}

Pool == {<<"cycles", "any", "low">>, <<"low", "first", "cycles">>, <<"high", "low", "first">>,
         <<"instructions", "cycles", "cycles too">>, <<"pm1", "pm2", "instructions">>,
         <<"slots", "pm2", "any">>, <<"ref:k", "ref", "TSC">>, <<"ocr1", "ocr2", "high">>,
         <<"ocr3", "first">>, <<"alone1", "far", "cycles">>, <<"alone2", "any">>,
         <<"cha any", "cha low">>, <<"cha low", "power">>, <<"cha", "imc", "power">>,
         <<"imc", "cha any", "cha high">>}

\* All lists of up to three metrics.
MCMetrics == {<<>>} \cup {<<m>> : m \in Pool} \cup (Pool \X Pool) \cup (Pool \X Pool \X Pool)

\* Two metrics whose groups are merged.
TwoAlone == {<< <<"alone1", "cycles">>, <<"alone2", "any">> >>}

-----------------------------------------------------------------------------
(* The component loader, on three counters: all lists of up to three metrics, each of up   *)
(* to four variables in the order of their names, of which the last is no event.           *)
Arm == INSTANCE ComponentLoader WITH
    CPU_CYCLES <- 4, KnownEvents <- 1..5, numGPCounters <- 3

ArmMetric  == {[n \in 1..Cardinality(S) |-> CHOOSE v \in S : Cardinality({w \in S : w < v}) = n - 1] :
                  S \in {T \in SUBSET (1..6) : Cardinality(T) \in 1..4}}
ArmMetrics == {<<m>> : m \in ArmMetric} \cup (ArmMetric \X ArmMetric)
              \cup {t \in ArmMetric \X ArmMetric \X ArmMetric : Len(t[3]) = 2}

\* Whatever the metrics and the order of the sort, every group can be counted, no metric is
\* taken apart, and those that fit are counted in one group (formEventGroups).
ASSUME ArmGroupsCorrect ==
    \A ms \in ArmMetrics : \A gs \in Arm!formEventGroups(ms) :
        /\ Arm!Countable(gs)
        /\ Arm!NothingTakenApart(ms, gs)
        /\ Arm!SmallMetricsWhole(ms, gs)
=============================================================================
