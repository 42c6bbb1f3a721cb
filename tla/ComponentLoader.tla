-------------------------- MODULE ComponentLoader ---------------------------
(***************************************************************************)
(* The component loader of the metrics command, for Arm processors: the    *)
(* groups of events that perf is asked to count together.  It is a         *)
(* computation without interleavings, and so a module of operators: groups *)
(* are formed for each metric, groups within others are dropped, and small *)
(* ones are merged while they fit on the general purpose counters.         *)
(*                                                                         *)
(* A metric is the sequence of its variables in the order of their names,  *)
(* a group the sequence of its events.                                     *)
(***************************************************************************)
EXTENDS Naturals, SequencesExt

CONSTANTS
    CPU_CYCLES,     (* the event with a counter of its own                  *)
    KnownEvents,    (* the events of the event files                        *)
    numGPCounters   (* NumGeneralPurposeCounters of the metadata            *)

EventsIn(g)      == Range(g)
countGPEvents(g) == Cardinality(EventsIn(g) \ {CPU_CYCLES})

\* One variable of a metric.  A variable that is no event is skipped, and a group with as
\* many events as there are counters is complete, whatever comes after it.
AddVariable(formed, variable) ==
    LET g == Append(formed.current, variable)
    IN  IF variable \notin KnownEvents THEN formed
        ELSE IF countGPEvents(g) >= numGPCounters
        THEN [done |-> Append(formed.done, g), current |-> <<>>]
        ELSE [formed EXCEPT !.current = g]

metricGroups(variables) ==
    LET formed == FoldLeft(AddVariable, [done |-> <<>>, current |-> <<>>], variables)
    IN  formed.done \o (IF formed.current = <<>> THEN <<>> ELSE <<formed.current>>)

AllMetricGroups(metrics) == FlattenSeq([m \in DOMAIN metrics |-> metricGroups(metrics[m])])

\* One group of deduplicateGroups.  The first group that contains it makes it superfluous,
\* or the first that it contains is replaced by it; what was replaced stays seen.
Within(g, h) == EventsIn(g) \subseteq EventsIn(h) /\ EventsIn(g) # EventsIn(h)

AddGroup(dedup, g) ==
    LET overlaps == {n \in DOMAIN dedup.groups :
                        Within(g, dedup.groups[n]) \/ Within(dedup.groups[n], g)}
        n == Min(overlaps)
        Seen(gs) == [seen |-> dedup.seen \cup {EventsIn(g)}, groups |-> gs]
    IN  IF EventsIn(g) \in dedup.seen THEN dedup
        ELSE IF overlaps = {} THEN Seen(Append(dedup.groups, g))
        ELSE IF Within(g, dedup.groups[n]) THEN dedup
        ELSE Seen([dedup.groups EXCEPT ![n] = g])

deduplicateGroups(groups) ==
    FoldLeft(AddGroup, [seen |-> {}, groups |-> <<>>], groups).groups

\* The comparison of the sort calls each of two groups of one size the greater one, so
\* that their order is whatever the sort makes of it.
SmallestFirst(groups) ==
    {[n \in DOMAIN groups |-> groups[p[n]]] : p \in
        {p \in Permutations(DOMAIN groups) :
            \A m, n \in DOMAIN groups :
                m < n => countGPEvents(groups[p[m]]) <= countGPEvents(groups[p[n]])}}

mergeGroupsWithoutDuplicates(g, h) == g \o SelectSeq(h, LAMBDA e : e \notin EventsIn(g))

countUniqueGPEventsToAdd(g, h) == Cardinality(EventsIn(h) \ (EventsIn(g) \cup {CPU_CYCLES}))

\* A group takes up those behind it that still fit.
MergeCandidate(row, h) ==
    IF countGPEvents(row.group) + countUniqueGPEventsToAdd(row.group, h) > numGPCounters
    THEN [row EXCEPT !.unprocessed = Append(@, h)]
    ELSE [row EXCEPT !.group = mergeGroupsWithoutDuplicates(@, h)]

MergeRow(acc, g) ==
    IF acc.unprocessed = <<>> THEN acc
    ELSE LET row == FoldLeft(MergeCandidate,
                             [group |-> Head(acc.unprocessed), unprocessed |-> <<>>],
                             Tail(acc.unprocessed))
         IN  [merged |-> Append(acc.merged, row.group), unprocessed |-> row.unprocessed]

mergeSmallGroups(sorted) ==
    FoldLeft(MergeRow, [merged |-> <<>>, unprocessed |-> sorted], sorted).merged

\* The results that there may be, one for each order of the groups of a size.
formEventGroups(metrics) ==
    {mergeSmallGroups(sorted) :
        sorted \in SmallestFirst(deduplicateGroups(AllMetricGroups(metrics)))}

(***************************************************************************)
(* The function strcmp_cpuid_str of metric expressions: a processor is its *)
(* part with its variant and its revision.                                 *)
(***************************************************************************)
compareCPUID(mapId, id) ==
    IF \/ mapId.part # id.part
       \/ mapId.variant < id.variant
       \/ mapId.variant = id.variant /\ mapId.revision < id.revision
    THEN 1 ELSE 0

strcmp_cpuid_str(arg, cpuid) == compareCPUID(arg, cpuid) # 0

-----------------------------------------------------------------------------
(***************************************************************************)
(* What the groups of a list of metrics are for.                           *)
(***************************************************************************)
\* perf can count each group: its events are distinct, and as many as there are counters.
Countable(groups) ==
    \A n \in DOMAIN groups : /\ countGPEvents(groups[n]) <= numGPCounters
                             /\ Len(groups[n]) = Cardinality(EventsIn(groups[n]))

\* The events that were put in one group are counted in one group, so that neither the
\* removal of groups nor a merge takes a metric apart; and no other events are counted.
NothingTakenApart(metrics, groups) ==
    LET formed == AllMetricGroups(metrics)
    IN  /\ \A m \in DOMAIN formed :
              \E n \in DOMAIN groups : EventsIn(formed[m]) \subseteq EventsIn(groups[n])
        /\ \A n \in DOMAIN groups : \A e \in EventsIn(groups[n]) :
              \E m \in DOMAIN metrics : e \in EventsIn(metrics[m]) \cap KnownEvents

\* A metric is counted in one group when there is a counter to spare: the cycles, which
\* need none, come too late for a group that its last counter has completed.
SmallMetricsWhole(metrics, groups) ==
    \A m \in DOMAIN metrics :
        LET known == SelectSeq(metrics[m], LAMBDA e : e \in KnownEvents)
        IN  countGPEvents(known) < numGPCounters =>
                known = <<>> \/ \E n \in DOMAIN groups : EventsIn(known) \subseteq EventsIn(groups[n])
=============================================================================
