---------------------------- MODULE MetricFrames ----------------------------
(***************************************************************************)
(* From what perf prints in an interval to the metrics: GetEventFrames     *)
(* buckets the lines by socket, logical CPU or cgroup, adds up the lines   *)
(* of one event, assigns the events to the groups that the loader has      *)
(* formed (EventGrouping), and makes a frame of each bucket; ProcessEvents *)
(* then reads each variable of a metric from one group of the frame, the   *)
(* group that was the best for it in the first frame that came.            *)
(*                                                                         *)
(* perf prints no group with a line: the assignment counts the events.     *)
(* The value of an event is the set of the lines whose counter values it   *)
(* adds up, and whether one of them was not counted (NaN).                 *)
(***************************************************************************)
EXTENDS EventGrouping, SequencesExt, FiniteSetsExt

CONSTANTS
    CPU,            (* the logical CPUs, numbers                            *)
    SocketOf,       (* CPUSocketMap                                         *)
    Devices,        (* the number of devices of an uncore unit              *)
    Cgroups,        (* the number of cgroups                                *)
    Modes,          (* the scopes and granularities to consider             *)
    MaxIntervals    (* bound: the intervals of a collection                 *)

\* System and process scope with system granularity; system scope with socket and with
\* CPU granularity; cgroup scope.
Mode == {"system", "socket", "cpu", "cgroup"}

ASSUME FramesAssumption ==
    /\ CPU \subseteq Nat /\ IsFiniteSet(CPU) /\ CPU # {}
    /\ SocketOf \in [CPU -> Nat]
    /\ Devices \in Nat \ {0} /\ Cgroups \in Nat
    /\ Modes \subseteq Mode
    /\ MaxIntervals \in Nat

VARIABLES
    selected,       (* metricDefinitions: the metrics that can be collected,
                       by their places in the list of all metrics           *)
    definitions,    (* eventGroupDefinitions: the groups, in order          *)
    mode,           (* scope and granularity                                *)
    counters,       (* the counters that perf has opened, in the order of
                       its lines                                            *)
    variables,      (* Variables of each metric: the group of each variable *)
    frames,         (* the event frames of the last interval                *)
    values,         (* for each of them what each metric was computed from  *)
    lines,          (* history: the lines of the last interval              *)
    interval,       (* the intervals so far                                 *)
    failed          (* ProcessEvents has returned an error                  *)

frameVars == <<selected, definitions, mode, counters, variables, frames, values, lines, interval, failed>>

Unset  == -1        (* the group of a variable is not yet known             *)
NoGroup == -2       (* it was looked for and not found                      *)

-----------------------------------------------------------------------------
(***************************************************************************)
(* What perf counts and prints.                                            *)
(***************************************************************************)
AllGroupSeq == groups.core \o groups.uncore

\* A finite set of numbers in ascending order.
Indices(S) == [n \in 1..Cardinality(S) |-> CHOOSE x \in S : Cardinality({y \in S : y <= x}) = n]

\* ToGroupDefinition and Load: the fixed counters of a group, then the others in the order
\* of the counters; the core groups, then the uncore groups, then the others.
GroupDefinition(g) ==
    g.fixed \o [n \in 1..Cardinality(GPCounters \ Free(g)) |-> g.gp[Indices(GPCounters \ Free(g))[n]]]

LoadedDefinitions ==
    [n \in DOMAIN AllGroupSeq |-> GroupDefinition(AllGroupSeq[n])]
    \o [n \in DOMAIN groups.other |-> <<groups.other[n]>>]

\* The first logical CPU of each socket, where perf reads what a socket has once.
Representative == {c \in CPU : \A d \in CPU : SocketOf[d] = SocketOf[c] => c <= d}

\* Without -A one line for each event; with it one for each CPU, and one for each device
\* and socket of an uncore event; with --for-each-cgroup one for each cgroup.
CPUsOf(g) ==
    IF mode \in {"system", "cgroup"} THEN {0}
    ELSE IF definitions[g][1] \in CoreEvent THEN CPU ELSE Representative

DevicesOf(g) ==
    IF mode \in {"socket", "cpu"} /\ definitions[g][1] \in UncoreEvent THEN 1..Devices ELSE {0}

Places ==
    UNION {[cgroup : IF mode = "cgroup" THEN 1..Cgroups ELSE {0}, group : {g}, device : DevicesOf(g),
            at : DOMAIN definitions[g], cpu : CPUsOf(g)] : g \in DOMAIN definitions}

\* The order of the lines: by cgroup, group, device, event of the group, CPU.
Before(p, q) ==
    \/ p.cgroup < q.cgroup
    \/ /\ p.cgroup = q.cgroup
       /\ \/ p.group < q.group
          \/ /\ p.group = q.group
             /\ \/ p.device < q.device
                \/ /\ p.device = q.device
                   /\ \/ p.at < q.at
                      \/ p.at = q.at /\ p.cpu < q.cpu

InOrder(P) ==
    LET rank == [p \in P |-> Cardinality({q \in P : ~Before(p, q)})]
    IN  [n \in 1..Cardinality(P) |-> CHOOSE p \in P : rank[p] = n]

\* The groups in counted ran in this interval, in no idle cgroup.
Line(p, counted, idle) ==
    [cgroup |-> p.cgroup, group |-> p.group, device |-> p.device, at |-> p.at, cpu |-> p.cpu,
     event |-> definitions[p.group][p.at], counted |-> p.group \in counted /\ p.cgroup \notin idle]

-----------------------------------------------------------------------------
(***************************************************************************)
(* GetEventFrames.                                                         *)
(***************************************************************************)
Plus(v, w) == [nan |-> v.nan \/ w.nan, of |-> v.of \cup w.of]

\* parseEvents: a value that was not counted is NaN.
Parsed(l) == [event |-> l.event, value |-> [nan |-> ~l.counted, of |-> {l}]]

Added(b, n, l) == [b EXCEPT ![n].value = Plus(@, Parsed(l).value)]

\* The buckets: sockets, CPUs or cgroups.
Keys ==
    CASE mode = "socket" -> Range(SocketOf)
      [] mode = "cpu"    -> CPU
      [] mode = "cgroup" -> 1..Cgroups
      [] OTHER           -> {0}

KeyOf(l) ==
    CASE mode = "socket" -> SocketOf[l.cpu]
      [] mode = "cpu"    -> l.cpu
      [] OTHER           -> l.cgroup

\* Mutant of BucketStep: the last event of the socket is not looked at.
BucketStepGlobal(state, l) ==
    LET s == KeyOf(l)
        b == state.list[s]
    IN  IF mode = "socket" /\ b # <<>> /\ l.event = state.current
        THEN [state EXCEPT !.list[s] = Added(b, Len(b), l)]
        ELSE [list |-> [state.list EXCEPT ![s] = Append(b, Parsed(l))], current |-> l.event]

\* bucketEvents: a line is added to the bucket of its socket, CPU or cgroup.  With socket
\* granularity it is added to the last event of its socket when that event and the last
\* event that was appended to any socket have its name.
BucketStep(state, l) ==
    LET s == KeyOf(l)
        b == state.list[s]
    IN  IF mode = "socket" /\ b # <<>> /\ Last(b).event = state.current /\ l.event = state.current
        THEN [state EXCEPT !.list[s] = Added(b, Len(b), l)]
        ELSE [list |-> [state.list EXCEPT ![s] = Append(b, Parsed(l))], current |-> l.event]

\* The buckets after each of the lines.
Bucketing(ls) ==
    LET after[n \in 0..Len(ls)] ==
            IF n = 0 THEN [list |-> [s \in Keys |-> <<>>], current |-> NoEvent]
            ELSE BucketStep(after[n - 1], ls[n])
    IN  after

BucketEvents(ls) ==
    LET list  == Bucketing(ls)[Len(ls)].list
        found == Indices({s \in Keys : list[s] # <<>>})
    IN  [n \in DOMAIN found |-> list[found[n]]]

\* aggregateUncoreEvents: in a socket the devices of an uncore event are added up.
AggregateStep(b, x) ==
    LET same == {n \in DOMAIN b : b[n].event = x.event}
    IN  IF x.event \in UncoreEvent /\ same # {}
        THEN [b EXCEPT ![Min(same)].value = Plus(@, x.value)] ELSE Append(b, x)

\* Mutant of AggregateUncoreEvents: every device keeps its events.
AggregateNothing(b) == b

Aggregating(b) ==
    LET after[n \in 0..Len(b)] == IF n = 0 THEN <<>> ELSE AggregateStep(after[n - 1], b[n])
    IN  after

AggregateUncoreEvents(b) == IF mode = "socket" THEN Aggregating(b)[Len(b)] ELSE b

\* The place of the event after place p: new is 0 when it has the name of the one before.
NextPlace(p, new) ==
    CASE p.group > Len(definitions) -> p
      [] p.group <= Len(definitions) /\ p.event + new > Len(definitions[p.group]) ->
           [group |-> p.group + 1, event |-> 1]
      [] OTHER -> [p EXCEPT !.event = @ + new]

\* assignEventsToGroups: the group of each event, and its number there.  Events of one name
\* in a row are one event of the group; a group past the last is an error.
Assigning(b) ==
    LET at[n \in 0..Len(b)] ==
            IF n = 0 THEN [group |-> 1, event |-> 0]
            ELSE NextPlace(at[n - 1], IF n > 1 /\ b[n].event = b[n - 1].event THEN 0 ELSE 1)
    IN  at

AssignedGroups(b) == [n \in DOMAIN b |-> Assigning(b)[n].group]

\* The frame: for each group the values of its events, of those with one name the last.
Frame(b) ==
    LET ids  == AssignedGroups(b)
        Of(k) == {n \in DOMAIN b : ids[n] = k}
    IN  [k \in 1..Last(ids) |->
            [e \in {b[n].event : n \in Of(k)} |-> b[Max({n \in Of(k) : b[n].event = e})].value]]

Misaligned(b) == Last(AssignedGroups(b)) > Len(definitions)

-----------------------------------------------------------------------------
(***************************************************************************)
(* ProcessEvents.                                                          *)
(***************************************************************************)
CountedIn(f, k, names) == {e \in names \cap DOMAIN f[k] : ~f[k][e].nan}

\* Mutant of BestGroups: all the groups that have any of the values.
AnyGroups(f, names) == {k \in DOMAIN f : CountedIn(f, k, names) # {}}

\* The groups of f with the most values for these names, if any group has one.
BestGroups(f, names) ==
    {k \in DOMAIN f :
        /\ CountedIn(f, k, names) # {}
        /\ \A d \in DOMAIN f :
               Cardinality(CountedIn(f, d, names)) <= Cardinality(CountedIn(f, k, names))}

\* One iteration of the loop of loadMetricBestGroups: the first of the best groups takes the
\* names it has values for; when no group has one the rest of the names are given up.
ChooseGroup(p, f) ==
    LET best == BestGroups(f, p.left)
        here == CountedIn(f, Min(best), p.left)
    IN  IF best = {}
        THEN [left |-> {}, vs |-> [v \in DOMAIN p.vs |-> IF v \in p.left THEN NoGroup ELSE p.vs[v]]]
        ELSE [left |-> p.left \ here,
              vs   |-> [v \in DOMAIN p.vs |-> IF v \in here THEN Min(best) ELSE p.vs[v]]]

\* The iterations: each leaves fewer names, and with none left it changes nothing.
ChoosingGroups(vs, f) ==
    LET after[n \in 0..Cardinality(DOMAIN vs)] ==
            IF n = 0 THEN [left |-> DOMAIN vs, vs |-> vs] ELSE ChooseGroup(after[n - 1], f)
    IN  after

\* loadMetricBestGroups: done once for each metric.
LoadMetricBestGroups(vs, f) ==
    IF \E v \in DOMAIN vs : vs[v] = Unset
    THEN ChoosingGroups(vs, f)[Cardinality(DOMAIN vs)].vs ELSE vs

\* getExpressionVariableValues and evaluateExpression: what the metric is computed from.
NaN == [nan |-> TRUE, of |-> {}]

MetricValue(vs, f) ==
    IF \A v \in DOMAIN vs : vs[v] \in DOMAIN f /\ v \in DOMAIN f[vs[v]]
    THEN [nan |-> \E v \in DOMAIN vs : f[vs[v]][v].nan,
          of  |-> UNION {f[vs[v]][v].of : v \in DOMAIN vs}]
    ELSE NaN

\* The variables of all metrics after each of the frames.
LoadingGroups(all, fs) ==
    LET loaded[n \in 0..Len(fs)] ==
            IF n = 0 THEN all
            ELSE [m \in DOMAIN all |-> LoadMetricBestGroups(loaded[n - 1][m], fs[n])]
    IN  loaded

-----------------------------------------------------------------------------
FramesInit ==
    /\ Init
    /\ selected = Restrict(metrics, {n \in DOMAIN metrics : Collectable(metrics[n])})
    /\ mode = "none" /\ definitions = <<>> /\ counters = <<>>
    /\ variables = [m \in DOMAIN selected |-> [e \in Range(selected[m]) \ Skipped |-> Unset]]
    /\ frames = <<>> /\ values = <<>> /\ lines = <<>>
    /\ interval = 0 /\ failed = FALSE

\* The loader is done: perf is started with its groups.  With CPU granularity and in a
\* cgroup the loader has found uncore events not collectable, in a cgroup others as well.
StartPerf ==
    /\ stage = "done" /\ mode = "none" /\ LoadedDefinitions # <<>>
    /\ definitions' = LoadedDefinitions
    /\ mode' \in Modes
    /\ mode' \in {"cpu", "cgroup"} => "Uncore" \notin metadata
    /\ mode' = "cgroup" => metadata \cap {"OCR", "Other"} = {}
    /\ counters' = InOrder(Places')
    /\ UNCHANGED <<vars, selected, variables, frames, values, lines, interval, failed>>

\* ProcessEvents for the first n lines of an interval: all of them, or fewer when perf was
\* ended in the middle of its last one.
ProcessEvents(all, n) ==
    LET buckets == BucketEvents(SubSeq(all, 1, n))
        events  == [k \in DOMAIN buckets |-> AggregateUncoreEvents(buckets[k])]
        loaded  == LoadingGroups(variables, frames')
    IN  /\ lines' = SubSeq(all, 1, n)
        /\ IF \E k \in DOMAIN events : Misaligned(events[k])
           THEN /\ failed' = TRUE
                /\ UNCHANGED <<variables, frames, values>>
           ELSE /\ frames' = [k \in DOMAIN events |-> Frame(events[k])]
                /\ variables' = loaded[Len(frames')]
                /\ values' = [k \in DOMAIN frames' |->
                                 [m \in DOMAIN variables |-> MetricValue(loaded[k][m], frames'[k])]]
                /\ UNCHANGED failed
        /\ interval' = IF n = Len(all) THEN interval + 1 ELSE MaxIntervals
        /\ UNCHANGED <<vars, selected, mode, definitions, counters>>

Interval ==
    /\ mode # "none" /\ ~failed /\ interval < MaxIntervals
    /\ \E counted \in SUBSET DOMAIN definitions,
          idle \in SUBSET (IF mode = "cgroup" THEN 1..Cgroups ELSE {}) :
          \E n \in DOMAIN counters :
             ProcessEvents([k \in DOMAIN counters |-> Line(counters[k], counted, idle)], n)

Load == Next /\ UNCHANGED frameVars

FramesNext == Load \/ StartPerf \/ Interval
FramesSpec == FramesInit /\ [][FramesNext]_<<vars, frameVars>>

-----------------------------------------------------------------------------
(***************************************************************************)
(* Properties.                                                             *)
(***************************************************************************)
\* The comment on assignEventsToGroups: each event is assigned to its group, here the
\* group in which perf has counted it.
EventsInOwnGroup ==
    \A n \in DOMAIN frames : \A k \in DOMAIN frames[n] : \A e \in DOMAIN frames[n][k] :
        \A l \in frames[n][k][e].of : l.group = k

\* No group ends with the event that the next group starts with.
NoSharedBorder ==
    \A n \in 1..(Len(definitions) - 1) : Last(definitions[n]) # Head(definitions[n + 1])

\* The places in the frames to whose value line l was added.
PlacesOf(l) ==
    {p \in (DOMAIN frames) \X (DOMAIN definitions) :
        /\ p[2] \in DOMAIN frames[p[1]]
        /\ l.event \in DOMAIN frames[p[1]][p[2]] /\ l \in frames[p[1]][p[2]][l.event].of}

\* Without such a border every line is added to one value, that of its event in its own
\* group, and the values of a frame are of one socket, CPU or cgroup: however perf
\* interleaves the CPUs, the devices and the cgroups, and wherever its output ends.
FramesFaithful ==
    NoSharedBorder =>
      /\ EventsInOwnGroup
      /\ \A n \in DOMAIN lines : Cardinality(PlacesOf(lines[n])) = 1
      /\ \A n \in DOMAIN frames : \A k, d \in DOMAIN frames[n] :
            \A e \in DOMAIN frames[n][k], x \in DOMAIN frames[n][d] :
               \A l \in frames[n][k][e].of, m \in frames[n][d][x].of : KeyOf(l) = KeyOf(m)

\* The groups that the loader has formed never run out under the events that perf prints:
\* ProcessEvents does not fail, which would end the collection.
Aligned == ~failed

\* When some group of the first frame has values for all the variables of a metric, the
\* metric is computed from that one group.
MetricsFromOneGroup ==
    [][\A m \in DOMAIN variables :
         /\ \A v \in DOMAIN variables[m] : variables[m][v] = Unset
         /\ frames' # <<>> /\ DOMAIN variables[m] # {}
         /\ \E k \in DOMAIN frames'[1] :
              CountedIn(frames'[1], k, DOMAIN variables[m]) = DOMAIN variables[m]
         => \E k \in DOMAIN frames'[1] : \A v \in DOMAIN variables[m] : variables'[m][v] = k]_<<vars, frameVars>>

\* The group of a variable is chosen once: all frames of all intervals use it.
VariablesStay ==
    [][\A m \in DOMAIN variables : \A v \in DOMAIN variables[m] :
         variables[m][v] # Unset => variables'[m][v] = variables[m][v]]_<<vars, frameVars>>

\* A metric has a value in every frame in which one group has values for all its
\* variables.  It does not hold: see the README.
MetricsRecover ==
    \A n \in DOMAIN values : \A m \in DOMAIN values[n] :
        (\E k \in DOMAIN frames[n] :
           CountedIn(frames[n], k, DOMAIN variables[m]) = DOMAIN variables[m])
        => ~values[n][m].nan
=============================================================================
