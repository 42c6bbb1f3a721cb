--------------------------- MODULE EventGrouping ----------------------------
(***************************************************************************)
(* The perfmon loader of the metrics command: from the events of the       *)
(* metrics to the groups of events that perf is asked to count together.   *)
(* A core has a few fixed and a few general purpose counters, an event may *)
(* be counted by some of them only, and a metric is exact only when its    *)
(* events are counted in one group.  The loader forms groups for each      *)
(* metric, removes equal groups, and merges groups whose events fit on the *)
(* same counters; an uncore event is kept in the first group that has it.  *)
(*                                                                         *)
(* One step of the model is one iteration of a loop of the loader: an      *)
(* event added to a group, or a pair of groups compared.  An event is its  *)
(* name; the constants say what the event files say of it.                 *)
(***************************************************************************)
EXTENDS Integers, Sequences, FiniteSets, Functions

CONSTANTS
    CoreEvent, UncoreEvent, OtherEvent, (* the events in the event files    *)
    Skipped,        (* the constant TSC and the <event>:retire_latency names *)
    Counter,        (* the counters named in the Counter of an event        *)
    FixedCounter,   (* the number in "Fixed counter <k>", or NotFixed       *)
    TakenAlone,     (* the value of TakenAlone of a core event              *)
    Offcore,        (* the core events with Offcore "1"                     *)
    PerfMetrics,    (* the PERF_METRICS.* events                            *)
    Slots,          (* TOPDOWN.SLOTS:perf_metrics                           *)
    RefTsc,         (* the CPU_CLK_UNHALTED.REF_TSC* events                 *)
    Pebs,           (* the core events that need PEBS                       *)
    Unit,           (* the Unit of an uncore event                          *)
    NumGeneralPurposeCounters,
    NoEvent,        (* the zero value of an event                           *)
    Metadatas,      (* the targets to consider: what each of them supports  *)
    MetricLists     (* the lists of metrics to consider, each a list of the *)
                    (* names of its events without repetitions              *)

NotFixed == -1
GPCounters == 0..(NumGeneralPurposeCounters - 1)
Events == CoreEvent \cup UncoreEvent \cup OtherEvent \cup Skipped

\* The Supports fields of Metadata that the loader reads.  OCR, Uncore and Other also need
\* a scope and a granularity in which such events can be counted.
Feature == {"FixedInstructions", "FixedCycles", "FixedRefCycles", "FixedTMA",
            "OCR", "RefCycles", "PEBS", "Uncore", "Other"}

ASSUME EventAssumption ==
    /\ NumGeneralPurposeCounters \in Nat
    /\ Counter \in [CoreEvent \cup UncoreEvent -> SUBSET Nat]
    /\ FixedCounter \in [CoreEvent -> 0..3 \cup {NotFixed}]
    /\ TakenAlone \in [CoreEvent -> STRING]
    /\ Offcore \subseteq CoreEvent /\ PerfMetrics \subseteq CoreEvent /\ RefTsc \subseteq CoreEvent
    /\ Pebs \subseteq CoreEvent
    /\ Slots \in CoreEvent \ PerfMetrics
    /\ \A e \in PerfMetrics \cup {Slots} : FixedCounter[e] \in {3, NotFixed}
    /\ CoreEvent \cap UncoreEvent = {} /\ OtherEvent \cap (CoreEvent \cup UncoreEvent) = {}
    /\ NoEvent \notin Events
    /\ Metadatas \subseteq SUBSET Feature
    /\ MetricLists \subseteq Seq(Seq(Events))

VARIABLES
    metrics,        (* perfmonMetrics that have no groups yet               *)
    metadata,       (* what the target supports                             *)
    stage,          (* where Load is                                        *)
    kind,           (* of the core or the uncore groups                     *)
    todo,           (* the names of the metric at hand not yet in a group   *)
    open,           (* coreGroup and uncoreGroup of groupsFromEventNames    *)
    formed,         (* the groups that this call has completed              *)
    groups,         (* coreGroups, uncoreGroups and otherGroups             *)
    i, j,           (* the groups that are compared                         *)
    attempt,        (* the merge of them                                    *)
    merged,         (* a pair was merged in this pass                       *)
    together        (* history: the events of each group when it was formed *)

collectVars == <<todo, open, formed>>
pairVars    == <<i, j, attempt, merged>>
vars == <<metrics, metadata, stage, kind, collectVars, groups, pairVars, together>>

(***************************************************************************)
(* Groups: the sequence of the fixed purpose counters (always empty for an *)
(* uncore group) and the event on each general purpose counter.            *)
(***************************************************************************)
NewGroup == [fixed |-> <<>>, gp |-> [c \in GPCounters |-> NoEvent]]

OnGP(g)     == {g.gp[c] : c \in GPCounters} \ {NoEvent}
EventsOf(g) == Range(g.fixed) \cup OnGP(g)
Free(g)     == {c \in GPCounters : g.gp[c] = NoEvent}
Groups(s)   == {s[k] : k \in DOMAIN s}

\* IsCollectable of the kinds of events; the constants are not looked at.
IsCollectable(e) ==
    /\ e \in PerfMetrics \cup {Slots} => "FixedTMA" \in metadata
    /\ e \in Offcore => "OCR" \in metadata
    /\ e \in RefTsc => "RefCycles" \in metadata
    /\ e \in Pebs => "PEBS" \in metadata
    /\ e \in UncoreEvent => "Uncore" \in metadata
    /\ e \in OtherEvent => "Other" \in metadata

\* The general purpose counters that may count e.  A fixed event that has no fixed
\* counter on this target may be counted by any of them.
ValidCounters(e) ==
    IF e \in CoreEvent /\ FixedCounter[e] # NotFixed THEN GPCounters
    ELSE Counter[e] \cap GPCounters

\* Mutant of Moves: the event may move to a counter that cannot count it.
MovesAnywhere(g, e) == {p \in ValidCounters(e) \X Free(g) : g.gp[p[1]] # NoEvent}

\* The places where e could go if the event there moved to a free counter of its own.
Moves(g, e) ==
    {p \in ValidCounters(e) \X Free(g) : g.gp[p[1]] # NoEvent /\ p[2] \in Counter[g.gp[p[1]]]}

\* At most one element: what a loop that takes the first match finds.
Least(S) == {c \in S : \A d \in S : c <= d}
First(P) == {p \in P : \A q \in P : p[1] < q[1] \/ (p[1] = q[1] /\ p[2] <= q[2])}

\* Mutant of Place: the event that makes room is not put on its new counter.
PlaceOver(g, e, reorder) ==
    LET vacant == Free(g) \cap ValidCounters(e)
    IN  IF vacant # {}
        THEN {[g EXCEPT !.gp[c] = e] : c \in Least(vacant)}
        ELSE {[g EXCEPT !.gp[p[1]] = e] : p \in IF reorder THEN First(Moves(g, e)) ELSE {}}

\* The group with e on a general purpose counter: the first free one, or when reorder is
\* set one that is freed by moving an event.  No group: there is no counter for e.
Place(g, e, reorder) ==
    LET vacant == Free(g) \cap ValidCounters(e)
    IN  IF vacant # {}
        THEN {[g EXCEPT !.gp[c] = e] : c \in Least(vacant)}
        ELSE {[g EXCEPT !.gp[p[2]] = g.gp[p[1]], !.gp[p[1]] = e] :
                p \in IF reorder THEN First(Moves(g, e)) ELSE {}}

\* Mutant of Refused: the bound on the offcore events is passed by one.
RefusedLate(g, e) ==
    \/ e \in Offcore /\ Cardinality({c \in GPCounters : g.gp[c] \in Offcore}) > 2
    \/ e \in PerfMetrics \cup {Slots} /\ "FixedTMA" \notin metadata

\* The events that CoreGroup.AddEvent refuses before it looks for a counter.  TakenAlone
\* is "0" or "1" in the event files.
Refused(g, e) ==
    \/ TakenAlone[e] = "true" /\ \E k \in DOMAIN g.fixed : TakenAlone[g.fixed[k]] = "true"
    \/ e \in Offcore /\ Cardinality({c \in GPCounters : g.gp[c] \in Offcore}) >= 2
    \/ e \in PerfMetrics \cup {Slots} /\ "FixedTMA" \notin metadata

\* The fixed counter of e can be used on this target.
OnFixedCounter(e) ==
    \/ FixedCounter[e] = 0 /\ "FixedInstructions" \in metadata
    \/ FixedCounter[e] = 1 /\ "FixedCycles" \in metadata
    \/ FixedCounter[e] = 2 /\ "FixedRefCycles" \in metadata

Occupied(g, e) == \E k \in DOMAIN g.fixed : FixedCounter[g.fixed[k]] = FixedCounter[e]

\* ref-cycles and ref-cycles:k exclude each other on the general purpose counters.
RefTscConflict(g, e) ==
    "FixedRefCycles" \notin metadata /\ e \in RefTsc /\ OnGP(g) \cap RefTsc # {}

\* CoreGroup.AddEvent: the group after the call, no group when it returns an error.  The
\* slots lead their group; the first PERF_METRICS event brings them along.
AddCoreEvent(g, e, reorder) ==
    IF e \in EventsOf(g) THEN {g}
    ELSE IF Refused(g, e) THEN {}
    ELSE IF e \in PerfMetrics
         THEN {[g EXCEPT !.fixed = IF Slots \in EventsOf(g) THEN Append(@, e)
                                   ELSE <<Slots>> \o Append(@, e)]}
    ELSE IF e = Slots THEN {[g EXCEPT !.fixed = <<Slots>> \o @]}
    ELSE IF OnFixedCounter(e)
         THEN {[g EXCEPT !.fixed = Append(@, x)] : x \in IF Occupied(g, e) THEN {} ELSE {e}}
    ELSE IF RefTscConflict(g, e) THEN {} ELSE Place(g, e, reorder)

\* Mutant of AddUncoreEvent: without the check of the units.
AddUncoreEventUnchecked(g, e, reorder) ==
    IF e \in EventsOf(g) THEN {g} ELSE Place(g, e, reorder)

\* UncoreGroup.AddEvent: the events of a group are of one unit.
AddUncoreEvent(g, e, reorder) ==
    IF e \in EventsOf(g) THEN {g}
    ELSE IF \E d \in OnGP(g) : Unit[d] # Unit[e] THEN {}
    ELSE Place(g, e, reorder)

AddEvent(k, g, e, reorder) ==
    IF k = "core" THEN AddCoreEvent(g, e, reorder) ELSE AddUncoreEvent(g, e, reorder)

(***************************************************************************)
(* Load, up to the groups of the metrics.                                  *)
(***************************************************************************)
NoGroups  == [core |-> <<>>, uncore |-> <<>>, other |-> <<>>]
NewGroups == [core |-> NewGroup, uncore |-> NewGroup]
NoAttempt == <<>>

Init ==
    /\ metrics \in MetricLists
    /\ metadata \in Metadatas
    /\ stage = "next" /\ kind = "core"
    /\ todo = <<>> /\ open = NewGroups /\ formed = NoGroups
    /\ groups = NoGroups
    /\ i = 1 /\ j = 2 /\ attempt = NoAttempt /\ merged = FALSE
    /\ together = [core |-> {}, uncore |-> {}]

Collectable(m) == \A n \in DOMAIN m : IsCollectable(m[n])

\* A metric with an event that cannot be collected: removeUncollectableMetrics, and the
\* same check again before the groups are formed.
SkipMetric ==
    /\ stage = "next" /\ metrics # <<>> /\ ~Collectable(Head(metrics))
    /\ metrics' = Tail(metrics)
    /\ UNCHANGED <<metadata, stage, kind, collectVars, groups, pairVars, together>>

\* groupsFromEventNames is called for the next metric.
StartMetric ==
    /\ stage = "next" /\ metrics # <<>> /\ Collectable(Head(metrics))
    /\ stage' = "collect"
    /\ todo' = Head(metrics) /\ metrics' = Tail(metrics)
    /\ open' = NewGroups /\ formed' = NoGroups
    /\ UNCHANGED <<metadata, kind, groups, pairVars, together>>

Collecting == stage = "collect" /\ todo # <<>>

\* An event that fits in the open group of its kind, or starts a new one, or fits in no
\* group: then the metric is left without any group.
AddToGroup(k) ==
    LET e == Head(todo)
        fits == AddEvent(k, open[k], e, FALSE)
        alone == AddEvent(k, NewGroup, e, FALSE)
    IN  /\ Collecting
        /\ \/ /\ fits # {}
              /\ \E g \in fits : open' = [open EXCEPT ![k] = g]
              /\ todo' = Tail(todo)
              /\ UNCHANGED <<stage, formed>>
           \/ /\ fits = {} /\ alone # {}
              /\ formed' = [formed EXCEPT ![k] = Append(@, open[k])]
              /\ \E g \in alone : open' = [open EXCEPT ![k] = g]
              /\ todo' = Tail(todo)
              /\ UNCHANGED stage
           \/ /\ fits = {} /\ alone = {}
              /\ stage' = "next"
              /\ todo' = <<>>
              /\ UNCHANGED <<open, formed>>
        /\ UNCHANGED <<metrics, metadata, kind, groups, pairVars, together>>

AddToCoreGroup   == Collecting /\ Head(todo) \in CoreEvent /\ AddToGroup("core")
AddToUncoreGroup == Collecting /\ Head(todo) \in UncoreEvent /\ AddToGroup("uncore")

\* Every other event is a group of its own; the constants are in no group.
AddOther ==
    /\ Collecting /\ Head(todo) \in OtherEvent \cup Skipped
    /\ formed' = IF Head(todo) \in Skipped THEN formed
                 ELSE [formed EXCEPT !.other = Append(@, Head(todo))]
    /\ todo' = Tail(todo)
    /\ UNCHANGED <<metrics, metadata, stage, kind, open, groups, pairVars, together>>

\* The open groups that are not empty are completed.
Completed(k) == formed[k] \o (IF EventsOf(open[k]) = {} THEN <<>> ELSE <<open[k]>>)

\* The groups of the metric are added to those of the earlier metrics.
EndMetric ==
    /\ stage = "collect" /\ todo = <<>>
    /\ groups' = [core   |-> groups.core \o Completed("core"),
                  uncore |-> groups.uncore \o Completed("uncore"),
                  other  |-> groups.other \o formed.other]
    /\ together' = [core   |-> together.core \cup {EventsOf(g) : g \in Groups(Completed("core"))},
                    uncore |-> together.uncore \cup {EventsOf(g) : g \in Groups(Completed("uncore"))}]
    /\ stage' = "next"
    /\ UNCHANGED <<metrics, metadata, kind, collectVars, pairVars>>

\* Mutant of FirstPair: merged is not reset.
FirstPairStill == i' = 1 /\ j' = 2 /\ attempt' = NoAttempt /\ merged' = merged

\* The loops over the pairs of groups start again.
FirstPair == i' = 1 /\ j' = 2 /\ attempt' = NoAttempt /\ merged' = FALSE

AllMetricsDone ==
    /\ stage = "next" /\ metrics = <<>>
    /\ stage' = "equal" /\ kind' = "core"
    /\ FirstPair
    /\ UNCHANGED <<metrics, metadata, collectVars, groups, together>>

(***************************************************************************)
(* Pairs of groups i < j: j is removed when i has taken its events.        *)
(***************************************************************************)
Pair == j <= Len(groups[kind]) /\ i < j
Without(s, n) == [m \in 1..(Len(s) - 1) |-> IF m < n THEN s[m] ELSE s[m + 1]]

Equal(g, h) == g.fixed = h.fixed /\ OnGP(g) \subseteq EventsOf(h) /\ OnGP(h) \subseteq EventsOf(g)

\* EliminateDuplicateCoreGroups and EliminateDuplicateUncoreGroups: one pair.
CompareGroups ==
    /\ stage = "equal" /\ Pair
    /\ IF Equal(groups[kind][i], groups[kind][j])
       THEN groups' = [groups EXCEPT ![kind] = Without(@, j)] /\ j' = j
       ELSE groups' = groups /\ j' = j + 1
    /\ UNCHANGED <<metrics, metadata, stage, kind, collectVars, i, attempt, merged, together>>

\* Group j is merged into a copy of group i.
StartMerge ==
    /\ stage = "merge" /\ Pair /\ attempt = NoAttempt
    /\ attempt' = [copy  |-> groups[kind][i],
                   fixed |-> groups[kind][j].fixed,
                   gp    |-> GPCounters \ Free(groups[kind][j])]
    /\ UNCHANGED <<metrics, metadata, stage, kind, collectVars, groups, i, j, merged, together>>

\* One AddEvent of Merge: the fixed counters first, the others with reorder set.
Merging == stage = "merge" /\ attempt # NoAttempt

MergeEvent(e, reorder, rest) ==
    LET added == AddEvent(kind, attempt.copy, e, reorder)
    IN  /\ IF added # {}
           THEN /\ \E g \in added : attempt' = [rest EXCEPT !.copy = g]
                /\ j' = j
           ELSE attempt' = NoAttempt /\ j' = j + 1
        /\ UNCHANGED <<metrics, metadata, stage, kind, collectVars, groups, i, merged, together>>

MergeFixed ==
    /\ Merging /\ attempt.fixed # <<>>
    /\ MergeEvent(Head(attempt.fixed), FALSE, [attempt EXCEPT !.fixed = Tail(@)])

MergeGP ==
    /\ Merging /\ attempt.fixed = <<>> /\ attempt.gp # {}
    /\ \E c \in Least(attempt.gp) :
          MergeEvent(groups[kind][j].gp[c], TRUE, [attempt EXCEPT !.gp = @ \ {c}])

\* Every event has found a counter: the copy replaces group i, group j is removed.
CompleteMerge ==
    /\ Merging /\ attempt.fixed = <<>> /\ attempt.gp = {}
    /\ groups' = [groups EXCEPT ![kind] = Without([@ EXCEPT ![i] = attempt.copy], j)]
    /\ attempt' = NoAttempt /\ merged' = TRUE
    /\ UNCHANGED <<metrics, metadata, stage, kind, collectVars, i, j, together>>

\* Mutant of NextRow: the next group is compared with itself.
NextRowSelf ==
    /\ stage \in {"equal", "merge"} /\ i <= Len(groups[kind]) /\ j > Len(groups[kind])
    /\ i' = i + 1 /\ j' = i + 1
    /\ UNCHANGED <<metrics, metadata, stage, kind, collectVars, groups, attempt, merged, together>>

NextRow ==
    /\ stage \in {"equal", "merge"} /\ i <= Len(groups[kind]) /\ j > Len(groups[kind])
    /\ i' = i + 1 /\ j' = i + 2
    /\ UNCHANGED <<metrics, metadata, stage, kind, collectVars, groups, attempt, merged, together>>

\* Mutant of RemoveRepeated: each group is compared with the one before it only.
RemoveAdjacent(s) ==
    [n \in DOMAIN s |-> [s[n] EXCEPT !.gp =
        [c \in GPCounters |->
            IF n > 1 /\ s[n].gp[c] \in OnGP(s[n - 1]) THEN NoEvent ELSE s[n].gp[c]]]]

\* MergeUncoreGroups, first part: an event stays in the first group that has it.
RemoveRepeated(s) ==
    [n \in DOMAIN s |-> [s[n] EXCEPT !.gp =
        [c \in GPCounters |->
            IF \E m \in 1..(n - 1) : s[n].gp[c] \in OnGP(s[m]) THEN NoEvent ELSE s[n].gp[c]]]]

\* The last pair: eliminateDuplicateGroups, then mergeGroups, each for the core and then
\* for the uncore groups.  The uncore groups are merged until no pair can be.
EndPass ==
    /\ stage \in {"equal", "merge"} /\ i > Len(groups[kind])
    /\ \/ /\ kind = "core"
          /\ kind' = "uncore" /\ stage' = stage
          /\ groups' = IF stage = "merge" THEN [groups EXCEPT !.uncore = RemoveRepeated(@)]
                       ELSE groups
       \/ /\ kind = "uncore" /\ stage = "equal"
          /\ kind' = "core" /\ stage' = "merge"
          /\ groups' = groups
       \/ /\ kind = "uncore" /\ stage = "merge"
          /\ stage' = IF merged THEN "merge" ELSE "done"
          /\ UNCHANGED <<kind, groups>>
    /\ FirstPair
    /\ UNCHANGED <<metrics, metadata, collectVars, together>>

Next ==
    \/ SkipMetric \/ StartMetric \/ AddToCoreGroup \/ AddToUncoreGroup \/ AddOther \/ EndMetric
    \/ AllMetricsDone \/ CompareGroups \/ NextRow \/ EndPass
    \/ StartMerge \/ MergeFixed \/ MergeGP \/ CompleteMerge

Spec     == Init /\ [][Next]_vars
FairSpec == Spec /\ WF_vars(Next)

(***************************************************************************)
(* Properties.                                                             *)
(***************************************************************************)
Kinds == {"core", "uncore"}

CoreGroup   == [fixed : Seq(CoreEvent), gp : [GPCounters -> CoreEvent \cup {NoEvent}]]
UncoreGroup == [fixed : {<<>>}, gp : [GPCounters -> UncoreEvent \cup {NoEvent}]]
GroupOf(k)  == IF k = "core" THEN CoreGroup ELSE UncoreGroup

GroupLists == [core : Seq(CoreGroup), uncore : Seq(UncoreGroup), other : Seq(OtherEvent)]

\* What is left of a merge: events of group j, and a copy that is a group of their kind.
AttemptOK ==
    /\ stage = "merge" /\ j \in DOMAIN groups[kind]
    /\ attempt \in [copy : GroupOf(kind), fixed : Seq(CoreEvent), gp : SUBSET GPCounters]
    /\ attempt.gp \cap Free(groups[kind][j]) = {}
    /\ kind = "uncore" => attempt.fixed = <<>>

\* The variables have their types; j is past i, and a merge is under way for a pair only.
TypeOK ==
    /\ metrics \in Seq(Seq(Events)) /\ metadata \in SUBSET Feature
    /\ stage \in {"next", "collect", "equal", "merge", "done"} /\ kind \in Kinds
    /\ todo \in Seq(Events)
    /\ open \in [core : CoreGroup, uncore : UncoreGroup]
    /\ formed \in GroupLists /\ groups \in GroupLists
    /\ i \in Nat \ {0} /\ j \in Nat /\ i < j
    /\ merged \in BOOLEAN
    /\ attempt # NoAttempt => AttemptOK
    /\ together \in [core : SUBSET SUBSET CoreEvent, uncore : SUBSET SUBSET UncoreEvent]

\* The groups that exist: those of the metrics, those of the metric at hand, and the copy
\* of a merge.
AllGroups(k) ==
    Groups(groups[k]) \cup Groups(formed[k]) \cup {open[k]}
    \cup (IF attempt # NoAttempt /\ kind = k THEN {attempt.copy} ELSE {})

\* An event is in one place of its group and there on a counter that can count it.
OnCounters(g) ==
    /\ \A c \in GPCounters \ Free(g) : c \in ValidCounters(g.gp[c])
    /\ \A c, d \in GPCounters \ Free(g) : g.gp[c] = g.gp[d] => c = d
    /\ \A m, n \in DOMAIN g.fixed : g.fixed[m] = g.fixed[n] => m = n
    /\ Range(g.fixed) \cap OnGP(g) = {}

\* Of the fixed counters each counts one event, and only if the target has it.
OnFixedCounters(g) ==
    /\ \A m \in DOMAIN g.fixed : g.fixed[m] \in PerfMetrics \cup {Slots} \/ OnFixedCounter(g.fixed[m])
    /\ \A m, n \in DOMAIN g.fixed :
          m # n /\ OnFixedCounter(g.fixed[m]) => FixedCounter[g.fixed[m]] # FixedCounter[g.fixed[n]]

\* The slots lead the PERF_METRICS events, and these are on no general purpose counter.
SlotsLead(g) ==
    /\ Range(g.fixed) \cap (PerfMetrics \cup {Slots}) # {} => g.fixed[1] = Slots
    /\ OnGP(g) \cap (PerfMetrics \cup {Slots}) = {}

OneUnit(g) == \A d, e \in OnGP(g) : Unit[d] = Unit[e]

\* perf can count the events of every core group together, in every state of the loader,
\* however often events were moved to make room for others: each is on a counter of its
\* own that can count it (loader_perfmon_group_core.go, AddEvent and Merge).
CoreCountable ==
    \A g \in AllGroups("core") : OnCounters(g) /\ OnFixedCounters(g) /\ SlotsLead(g)

\* So it can those of the uncore groups, which are moreover of one unit.
UncoreCountable == \A g \in AllGroups("uncore") : OnCounters(g) /\ OneUnit(g)

\* Two offcore response events are the most that a group can have, also a merged one.
TwoOffcore ==
    \A g \in AllGroups("core") : Cardinality(EventsOf(g) \cap Offcore) <= 2

\* The core events of a metric that were put in one group stay together in one group:
\* neither the removal of equal groups nor a merge, complete, abandoned or under way, ever
\* takes an event away, so the metric can be computed from one group.
FormedGroupsKept ==
    \A S \in together.core : \E g \in Groups(groups.core) : S \subseteq EventsOf(g)

\* Every uncore event of a group that was formed is still counted, and in the end by one
\* group only: counted twice it would be summed twice.
UncoreCountedOnce ==
    /\ \A e \in UNION together.uncore : \E g \in Groups(groups.uncore) : e \in EventsOf(g)
    /\ stage = "done" =>
         \A m, n \in DOMAIN groups.uncore :
             EventsOf(groups.uncore[m]) \cap EventsOf(groups.uncore[n]) # {} => m = n

\* perf is given no group without events.
NoGroupEmpty ==
    stage = "done" => \A k \in Kinds : \A g \in Groups(groups[k]) : EventsOf(g) # {}

\* Load ends, although it merges the uncore groups again after every merge.
Ends == <>(stage = "done")

\* The comment on the check of AddEvent: a group has at most one event that is to be
\* taken alone.
OneTakenAlone ==
    \A g \in AllGroups("core") : Cardinality({e \in EventsOf(g) : TakenAlone[e] = "1"}) <= 1
=============================================================================
