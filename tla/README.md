# A TLA+ model of PerfSpect

PerfSpect is a Go command line program that measures and configures servers. It
runs on one machine and works on one or more *targets*, the machine itself or
others over ssh: it copies scripts and tools there, runs them (with `sudo` where
needed), and processes what they print. What is hard about it is how it drives
those commands (goroutines per target and per script, unbuffered channels, settings
that must be put back, temporary directories that must go, commands that fail or
are interrupted at any point), and how what perf counts finds its way from groups of
events to metrics. That is what is modelled here. What the scripts print and how a
value is formatted is data.

Paths are relative to the root of the repository; `set.go:666` is a line of the file
of that name.

## 1. The system

| part | source | state | operations | models |
|---|---|---|---|---|
| metrics: collection pipeline | `src/cmd/metrics/metrics.go` (1316-1633), `print.go`, `internal/target/helpers.go`, `script.go` (RunScriptStream) | goroutines, channels of lines, batches and frames, consecutive errors | start perf, batch its lines by interval, compute frames, print, refresh, time out, stop, drain | `PerfPipeline`, `IntervalStream` |
| metrics: command lifecycle | `metrics.go` (850-1143), `nmi_watchdog.go`, `perf_mux.go` | list of targets, a context per target, watchdog and multiplexing settings of the targets | remove bad targets, prepare, collect, restore in deferred functions, signal handler | `MetricsRun` |
| metric and event loaders | `cmd/metrics/loader*.go` | event groups | place events on counters, move events, remove and merge groups | `EventGrouping` (perfmon), `ComponentLoader` (Arm) |
| event frames, metric evaluation | `event_frame.go`, `metric.go` | chosen group of each variable | bucket, sum, assign to groups, choose groups, evaluate | `MetricFrames` |
| config: set functions | `src/cmd/config/set.go`, `config.go` | registers of each CPU and files of the target, script files, the msr module, two mutexes | one goroutine per flag, each a sequence of scripts | `ConfigSet` |
| reporting commands (report, telemetry, flame, lock) | `internal/common/common.go`, `targets.go` | targets, temporary directories, ordered outputs, report files | get targets, collect, order, save raw, create reports, adhoc functions, clean up | `ReportingRun` |
| tables | `internal/report/table_defs.go`, `table.go`, `table_helpers*.go` | none | which scripts a table declares, what its field functions read, for which processors | `ReportTables` |
| scripts | `internal/script/script_defs.go`, `cpus/cpu_defs.go` | none | what a script requires of a target | `ScriptDefinitions` |
| script engine | `internal/script/script.go` | script files, kernel modules, background jobs, pid files | RunScripts, RunScriptStream, the master script with its trap, its parser | `MasterScript`; RunScripts inside the modules of its callers |
| application, update | `src/cmd/root.go`, `util.go` (ExtractTGZ) | the program's files, the local temporary directory | start, check for updates, rename, extract, restore, terminate | `UpdateApp` |
| target layer | `internal/target/` | temporary directory, cached facts | run, push, pull, modprobe | as seen by its users |
| progress spinner | `internal/progress/` | labels, statuses | add, status, draw | the refusal of equal labels |
| telemetry averages, metric summary | `cmd/telemetry/telemetry.go`, `summary.go` | none | arithmetic over samples | not modelled |
| metadata, processes, server, renderers, flags, utilities | | | parsing, formatting, pure functions | not modelled |

How the parts interact. A command gets its targets (`GetTargets`), starts one
goroutine for each, and receives exactly one message from each on a channel; what
is lost when one is missing is the whole command. Each of those goroutines calls
RunScripts or RunScriptStream, which write scripts locally, push them, load kernel
modules, run, and unload in a deferred function. The parallel scripts of a call are
background jobs of one master script, whose printed sections are the outputs. The only
shared state between goroutines of one target is the target itself: its files, modules
and registers. A signal handler sends SIGINT or SIGKILL to the children of the process,
whatever they are doing. In the metrics command the loader decides which events perf
counts together; perf prints events without their groups, and the frames count them
through again. Nothing is persisted that a later command reads, except the raw
reports (`--input`) and, across updates, the program and `targets.yaml`.

What makes a part correct:

* pipeline: no interval is lost, repeated or overtaken between perf and the output,
  however slow the consumers are; the loss while stopping is bounded; a signal, a
  timeout or the end of perf ends the collection, and every goroutine that the next
  session could meet has ended before it starts;
* metrics command: every target has its settings back when the command returns,
  whatever failed elsewhere, and never while perf still counts there;
* loaders: perf can count every group, no event that was put into a group is lost from
  it, nothing is counted twice;
* frames: each value perf prints reaches the event of its own group and socket, CPU or
  cgroup, and a metric is computed from one group where there is one;
* config: a flag reported as set is set, no register gets the bits of another one, the
  command ends, and the module is as it was;
* reporting: outputs belong to the target under whose name they are reported, raw
  data survives a failure of processing, directories outlive the scripts in them
  and nothing else, and every output that a table reads has been collected;
* script engine: every script is reported once, with all that it printed unless a signal
  came, and Ctrl-C leaves nothing running behind a report that says otherwise;
* application: whatever fails or is killed, a whole program is left.

## 2. The modules

`MC*` modules hold only constant values for TLC; `*_proofs` modules hold theorems.
A definition whose comment says "Mutant of X" is a plausible wrong version of X: put
in its place, it makes a run fail, which shows that the run looks at that code.

### PerfPipeline (abstract: IntervalStream)

One target of `perfspect metrics`. Seven processes: collector (`collectOnTarget`),
runner (`runPerf`), exec (`RunScriptStream` and the asynchronous command), scanner
(the goroutine reading stderr), proc (`processPerfOutput`), printer
(`printMetricsAsync`), handler (`handleSignals`); perf and the user are the
environment. A send on an unbuffered channel is one joint step of both ends; a
`select` is a disjunction; the buffered batch channel is `batchCh` with capacity
`BatchCap`. A line of perf is the number of its interval (0: a line that is skipped),
a batch the session, the interval and the number of its lines. `printed`, `failed`
and `lost` are history variables, read by no guard. An application that perf starts writes
`flags.lines` lines to a stdout whose pipe and scanner take `OutCap`, as nobody receives
them. The handler kills the children that there are at that moment; with `KillMayFail` a
child may be missed (SignalChildren fails and handleSignals only logs it).

`IntervalStream` is what the reader of the output is promised: intervals that perf
has measured, each at most once, in order, nothing after the end. `ImplementsStream`
is the refinement, with `measured`, `output` and `complete` mapped to the last line
emitted, to `printed` and to the state of collector.

### MetricsRun

`runCmd` of metrics over several targets, with `PerfPipeline`'s subject as the one
phase "collecting". `main` is where runCmd is, `phase[t]` where the goroutine of
target t is, `nmi[t]` and `mux[t]` the settings on the target as opposed to
`nmiDisabled` and `muxSet`, what the program believes. A command on a target may
fail before or after its effect, by itself (`Faults`) or because the handler
killed it. `hadNmi` and `targetErr` are chosen in Init and never change.

### EventGrouping and ComponentLoader

`EventGrouping` is the perfmon loader. The files say of each event which counters can
count it, whether a fixed counter has it, whether it is an offcore event, needs PEBS or
has a unit; those are constants, the event itself is its name. A step is one iteration
of a loop of the loader: an event added to the open group (`Place`, `Moves`: an event
may be moved to another counter to make room, one move deep), a group closed, a pair of
groups compared, one event added to the copy in a merge. `together` remembers the groups
as they were first formed. Where the code iterates over a Go map, the model takes any
element. A target is the set of features that it supports.

`ComponentLoader` is the loader for Arm: one computation, so a module of operators
without variables. `SmallestFirst` returns every order that the sort may produce,
because its comparison calls each of two groups of one size the greater. The legacy
loader reads its groups from files and has nothing to form.

### MetricFrames

Extends `EventGrouping`: it begins with the groups that the loader has formed. `Places`
is what perf counts for them, each event of a group on the CPUs and devices that the scope
and the granularity ask for (system, socket, CPU, cgroup); StartPerf opens these
`counters`, in the order in which perf prints them (`Before`). In an interval any set of
groups was counted, and the last one may stop after any line. The value of an event is the
*set of lines* that were added into it: this is what tells a wrong sum from a right one
without arithmetic. `BucketEvents`, `AggregateUncoreEvents`, `AssignedGroups`, `Frame` are
the stages of GetEventFrames; `LoadMetricBestGroups` the lasting choice of groups. The
loops are recursive functions over the lines (`Bucketing`), the elements of a bucket
(`Aggregating`, `Assigning`), the names of a metric (`ChoosingGroups`) and the frames
(`LoadingGroups`), so that theorems can speak of what they have done so far.

### ConfigSet

A set function is a *program*: the list of its scripts, each with its file, what it
does to which register, and the kernel module it needs. The actions are the steps
of RunScripts for one script: write the local file, push it, install the module, run
it, uninstall the module. Scripts of one name have one file, locally and on the
target, so a goroutine may run what another one has pushed: `remote[f]` is what runs.

A register has contents on each CPU. RunRead gives those of CPU 0 (`rdmsr`), RunWrite puts
one value on every CPU (`wrmsr -a`) or on CPU 0 only (`everywhere` FALSE). Contents are the
register and the CPU from which the bits that no flag asks about come (`of`), and the fields
that hold the value asked for (`set`): this tells a lost update, the bits of another CPU
and those of another register from a good value. Of a value made from nothing the
model computes whether it is the one asked for: `ShiftedRatios` is what the loops of
`set.go:229` and `254` compute, where `freqInt<<i*8` is `(freqInt<<i)*8`, and `Ratios` what
the register holds when each byte has the ratio. A script that does not look at the exit code
of its writes (`checked` FALSE: core count, C6) succeeds whichever of its CPUs it reached, and
so does `wrmsr -a` while the core count takes CPUs on and off line (`Hotplug`).

### ScriptDefinitions, ReportTables, ReportingRun

`ScriptDefinitions` has the 91 scripts with what they require; `ReportTables` the
tables, each with the scripts it declares and those whose outputs its field functions
and insights read. The latter is computed along the calls: each helper of
`table_helpers*.go` is a definition that is the union of what it reads and of the
helpers it calls. `ReportingRun` extends both: `ReportingCommand.Run` is `main`, the
goroutine of a target is `phase[t]`, and what is selected for a target, `TargetTables`
and `TargetScripts`, is evaluated from the definitions with the target's processor.
`dir[t]` is the state of the temporary directory on the target, `scheduled` the
deferred removals, `loaded` the kernel modules. With `--input` the outputs come from
raw reports. `hit` and `lkmHit` record on which targets a command failed.

The outputs of a sequential script are recorded whatever it returns (every caller
passes `ignoreScriptErrors`), so that RunSequentialScripts cannot fail. The files of
one target are one step; a failing step may leave some of them.

### MasterScript

The shell text of `script.go:280-475`. The master shell is `at` and `i` (which script it
is starting, waiting for, killing or printing); each script is a shell of its own, and one
with a pid file also a command in the background of that shell. Three facts of shells
decide most of it: background jobs are started with SIGINT ignored, so that only
programs with a handler of their own heed it; a trap runs between two commands or
interrupts the builtin `wait`, never to return to it if it exits; it may interrupt
itself. SIGINT reaches the master alone (PerfSpect's handler) or everything on the
terminal. `printed` is the sequence of sections, `outputs` what the parser makes of it: a
section with a name seen before replaces the earlier one, which is why a summary that
was broken off does no harm.

### UpdateApp

The directory of the program is `program[n]`, where a name is the sequence of versions
that updates have appended (`perfspect`, `perfspect_1`, `perfspect_1_2`), `targets` and
`sav`. The actions of `updateApp` are its renames and the writes of ExtractTGZ, each of
which may fail; `Kill` may come between any two. The user starts whatever whole program
is there, also an old one, which is how a name grows. Around it are the start and the
end of every command, with the goroutine that waits for a signal while the check for an
update is under way and removes the temporary directory next to the main goroutine, which
meanwhile may go on into the command; the command makes the directories of its targets with
os.MkdirAll (`common/targets.go:190`, `243`, `366`), and with them, in `Work`, the temporary
directory. A process that the handler has ended is "interrupted", one that ends by itself
"ok" or "error".
`os.Args[0]` is taken for the path, as in the code, so a program found along `PATH` is
outside the model, as is the choice of the archive: the code downloads `perfspect.tgz`
on every architecture, although the Makefile (lines 58-60) packs a `perfspect-aarch64.tgz`.

## 3. The runs

| run | what it asks | expected |
|---|---|---|
| `pipeline_intervals` | four intervals, a batch channel of two, a processor and a printer that may stall, failing batches, a signal at any moment, six kinds of command line | PrintedInOrder, NoIntervalDropped, NothingLeftBehind, LossBounded, ShutdownHasCause hold |
| `pipeline_stopping` | two sessions, two lines per interval, applications that write one line and three where the pipe holds two, a handler that may miss a child, fairness | InnerBatchesWhole, ProcessorStopsFirst, ImplementsStream, Terminates, StopEndsCollection hold |
| `metrics_faults` | two targets, any command fails, one or two signals at any moment | SettingsRestored, WatchdogNotForced, UndisturbedCollection, Ends hold |
| `grouping` | all lists of up to three metrics out of fifteen, three kinds of target; the Arm loader on all lists of up to three metrics of up to four variables | CoreCountable, UncoreCountable, FormedGroupsKept, UncoreCountedOnce and the assumption ArmGroupsCorrect hold |
| `frames` | two metrics loaded on four kinds of target, four layouts, any groups counted, the output cut anywhere | FramesFaithful, Aligned, MetricsFromOneGroup hold |
| `config_flags` | pairs of flags of every kind: with a mutex, with one register, with one file for two registers, with one master script, with neither; any script may fail, a write may reach some CPUs only; modprobe may fail before or after its effect | LostOnlyToRivals, BitsOfOwnRegister, ModuleAccounted, Ends hold |
| `config_lost` | two prefetchers of one register | SuccessMeansSet is **violated** |
| `reporting_faults` | all categories and benchmarks on a Xeon and an Arm server, each with and without privileges and the msr module loaded, live or from raw reports, with and without `--debug` and adhoc functions, targets of one name or two; anything fails | TempDirsRemoved, ScriptsHaveTheirDirectory, OutputsInOrder, RawSavedFirst, ReadsCollected, FailureHasCause, LkmsAsBefore hold |
| `reporting_adhoc` | lock on two targets, one without outputs | AdhocOnOwnOutputs is **violated** |
| `master_signals` | a script with a pid file, with a limited or an endless command, and one without; up to two SIGINTs at any moment, to the master or to the terminal | UndisturbedWhole, EveryScriptReported, PlainScriptsWaitedFor, StopsWithPidFiles hold |
| `master_sigint` | SIGINT before the pid file is written | StopsOnSigint is **violated** |
| `update` | three releases, two edits of the targets file, names extended twice; every operation may fail, a kill or a signal at any moment | ProgramSurvives, FailureRestores, SuccessMeansUpdated, TempDirRemoved hold |

`LostOnlyToRivals` says what is left of "a flag reported as set is set" where the code does
keep it, whatever flags meet: a change with the right value, written by a script that notices
its failures, is on all its CPUs and stays, unless another script assigns to the register or
modifies it without the same mutex. The run `config_lost` and `MCConfigSet_value.cfg` show
the rest.
`Terminates` and `StopEndsCollection` name the only ways in which a collection may go on for
ever: an application that is blocked on its stdout (`StuckApp`), and a perf that the handler
has missed, because it was started after the signal or could not be signalled (`Escaped`).
`MCPerfPipeline_bigapp.cfg` and `MCPerfPipeline_stop.cfg` show that both happen. `TempDirRemoved` is about
the ways out on which the directory goes: a command that ends by itself, and a
signal that ends the process before the command has begun; `MCUpdateApp_interrupted.cfg`
shows the other.

The type invariants (`TypeOK` of each module), `OrderInv` of the pipeline,
`Ends` of ReportingRun, `VariablesStay` of MetricFrames (proved, too), and `TwoOffcore`,
`NoGroupEmpty` and `Ends` of EventGrouping hold with the same constants: add the name to
the INVARIANTS or PROPERTIES of the cfg to see it. They are not part of a run because
another property of the run, or a theorem, says more.

### Bounds

* Pipeline: capacities of 1 or 2 in place of 10 batches and 64 KB of pipe: a full
  channel, an empty one and one in between are what the code distinguishes, and the
  output is longer than the capacity in `pipeline_intervals` (four intervals, two
  batches, so the runner does block). One application writes less than the pipe of stdout
  holds, another more. `MaxErrors` is 1 in place of 2, so that reaching
  the limit and resetting the count both happen. `MaxSessions` bounds the refreshes;
  two are enough for a session to meet what an earlier one left. The theorems hold
  for every value of all of them.
* Metrics: two targets are enough for one to fail while another collects; the loop
  that removes targets needs three to remove the wrong one.
* Grouping: three counters and events confined to one, two or all of them, so that an
  event fits, fits after a move, and does not fit; three metrics, so that a group is
  merged twice, or removed after another was. The pool has a metric for each guard of
  AddEvent: fixed counters, TMA with its slots, reference cycles, offcore, PEBS, units.
* Frames: three CPUs on two sockets, numbered alternately, two devices, two cgroups: the
  lines of the sockets alternate, which is what the bucketing has to undo. Two counters
  keep the groups small and make more of them. Two intervals: one in which the groups
  of the variables are chosen, one in which they are used.
* Config: one or two flags at a time (`Requests`), two dies, two CPUs, of which one is
  CPU 0. Interference between set functions is pairwise, through a register, a file or the
  module, which the scripts of two flags install. The pairs of `config_flags` meet in
  every way in which two flags of the code do.
* Reporting: two targets, of different vendors; `UnreliableLkms` limits for which
  kernel modules modprobe may fail, because the failures are independent of each
  other and each doubles the states.
* Master script: one script of each kind; one line of stdout and two signals, so that
  the trap interrupts itself. A script's commands do not depend on another script.
* Update: `MaxSuffixes` 2 allows an update by a program that an update had put aside.
  The theorems hold for all three bounds.

`CHECK_DEADLOCK FALSE` is used where the modelled process comes to its end.

### Fairness

Safety runs assume none. For liveness, weak fairness says that Go schedules
goroutines that can run. Beyond that:

* PerfPipeline: perf prints what it has and exits when its own command has ended; an
  application writes its lines while there is room in the pipe, and ends after the last.
  Nothing is assumed of the user, and perf need not fail. The conjunct `Same` in the
  fairness conditions says that the command line does not change. A goroutine that is
  blocked on a channel is not enabled, so fairness does not help it.
* MetricsRun, ConfigSet, ReportingRun: a command on a target returns. This is an
  assumption about the targets, which the code shares: most commands run without a
  timeout. In ReportingRun and EventGrouping weak fairness of the whole next-state
  relation is enough: no behaviour is infinite, so the only thing to exclude is that
  it just stops.
* MasterScript: the system runs every process. A program that does not end by itself
  need not heed SIGINT (`Unasked`), which is why the master kills it after a moment; nor
  does an endless command end.

## 4. What is proved

TLAPS proves, for every value of the constants that satisfies the named assumptions:

* `PerfPipeline_proofs`: `TypeCorrect` (and `TypeOKHolds`), `OrderHolds`,
  `FramesPrintedInOrder`, `ProcessorStops`. The inductive invariant of order,
  `OrderInv`, says for each place on the way (page being printed, frame being sent,
  channel, current batch, lines to come) that it is behind all that is further on;
  "printed in order" alone is not inductive, because a step moves an interval from
  one place to the next. Assumed: `OutputAssumption`, perf prints the lines of an
  interval together and the intervals in order; `RequestsAssumption`;
  `BoundsAssumption`, capacities are positive.
  The other invariants of the pipeline and the refinement, from the same assumptions:
  - `CoverAlways`: every interval of which the runner has received a line is in its hand or
    in a batch, which is on its way, printed, failed or lost (`Covered`). This is inductive
    with the facts that batches are of sessions up to now (`Ranged`), of intervals before the
    current one (`SealedAll`), that what was received is behind what is received now
    (`LinesBehind`), and that while perf is read no batch of the session is lost
    (`LostLater`). From it follow `NothingDroppedWhileReading` and `NothingIsLeftBehind`.
  - `InnerBatchesAreWhole`: the invariant adds that the batch in hand has all the lines
    received of its interval (`Seen`).
  - `LossIsBounded`: every batch that is lost leaves the channel shorter, so the lost ones
    and those still in the channel are together at most its capacity and one more.
  - `ShutdownsHaveCauses`: `CauseInv` follows the error count: as many batches of this
    session have failed since the last frame as it says (`Streak`), a batch that failed was
    before those in the channel (`FailedFirst`), and the count is reset before the next run
    of perf (`Fresh`).
  - `StreamIsImplemented`: the step simulation of `ImplementsStream`. StartRun and EmitLine
    are Measure, PrintFrame is Publish, PrintComplete is Finish, every other step of the
    seven processes is a stutter. `HasMax` says that the CHOOSE in the mapping is defined.
* `ConfigSet_proofs`: `ModuleIsAccounted`. `ModuleInv` adds that nobody holds the
  module once a removal has failed, without which a second removal could follow.
  Nothing is assumed of the programs.
  `ReportedChangesStay` and `BitsStayAtHome` are about any set of flags, also of flags that
  meet, any programs and any CPUs. Assumed is `ProgramAssumption`: a script that modifies a
  register follows one that reads it; scripts of one file do one kind of thing; and two flags
  that do not share a mutex share files at most to read a register. The programs of the code
  satisfy it for any flags together (`AnyFlagsAreAllowed` in `MCConfigSet`).
  - For `ReportedChangesStay`, `LossInv` says for each change (`Safe`) that the file about
    to be run has its own text (`Own`), that the value read, and the value in the files, has
    the fields of the changes made before (`Fresh`), and that each change made so far is on
    its CPUs (`Made`). What another goroutine does leaves this alone because it does not
    write the register, or inserts a field in place, or waits for the mutex.
  - For `BitsStayAtHome`, `OriginInv` follows where values come from: every value in a file
    is of the register the file is for (`FilesKnown`), something is in a file before it is
    pushed and run (`Present`), and a value read is of its register (`ReadHome`), unless a
    file serves two registers (`Confused`).
* `ReportingRun_proofs`: `DirectoriesAreRemoved`, `DirectoriesOutliveScripts`,
  `LkmsAreRestored`, `LoadedLkmsStay`, `FailuresHaveCauses`, `OutputsAreInOrder`,
  `RawIsSavedFirst`.
  `DirInv` connects the directories through the phases of Run: while they are created,
  every target before the cursor has one or an error; afterwards each directory is
  scheduled for removal; nobody collects once Run is past its loop of messages, and
  only then are directories removed. `LkmInv` says which modules are loaded at each step of
  RunScripts: those of before and those installed. That a failure has a cause needs two
  facts about the catalogue, which are proved of its definitions, row by row: a script with
  a kernel module needs privileges, and a table declares scripts that are defined.
  `OrderInv` says that what was received are, once each, the outputs of the goroutines that
  have sent some, and that names differ while Run waits for them; so the first outputs under
  the name of a target are its own (`FirstIsOwn`), and what is ordered has exactly the
  targets on which nothing has failed. `RawInv` follows `createRawReports`: the outputs up
  to the cursor are saved, and as no two have one name, none is replaced. Assumed:
  `ReportingAssumption`; for `RawIsSavedFirst` also that the raw reports of `--input` are of
  different targets, without which it is not so (section 5). `AscendingIsSome` shows that
  the steps that order something can be taken.
* `EventGrouping_proofs`: `TypeCorrect`, `CoreGroupsCountable`,
  `UncoreGroupsCountable`, `OffcoreEventsAreFew`, `CoreGroupsKept`,
  `UncoreEventsCountedOnce`, `NoGroupIsEmpty`. `GroupsInv` asks of
  *all* groups that exist, the open one and the copy of a merge included, that they can be
  counted, for a merge that is abandoned was wrong for a while if it was ever wrong.
  `CoveredInv` adds to FormedGroupsKept that during a merge the copy and the events still to
  come (`Copied`) have all that the two groups had. `UncoreInv` does so for single uncore
  events, exactly (`UncoreCopied`), because from the removal of repeated events on no event
  may be in two groups (`Apart`); that this removal leaves each event in the first group
  that has it takes the least number of a set, from the well-foundedness of the numbers.
  A group may lose all of its events by it: `HasEventsInv` says that only an uncore group
  may have none, and only until the first group, which had them all, has taken it in
  (`NotYetTaken`), a merge that cannot be refused.
  Assumed: `EventAssumption`, what the event files look like (TMA events are on no fixed
  counter but the slots' one, among others); for `OffcoreEventsAreFew` also that an offcore
  event is on no fixed counter, which is so for all 283 of them in the event files.
* `MetricFrames_proofs`: `GroupsOfVariablesStay`, `MetricsAreFromOneGroup`,
  `GroupsAreAligned`, `FramesAreFaithful`. The library's induction theorems cannot be used, so two lemmas stand
  in for them: `UpTo`, induction over the numbers in a set, and `RecursionIsSome`, that a
  recursive function up to a number exists; each recursive function of the model is then
  shown to be what its equation says (`BucketingIsDefined` and the like).
  - `ChoiceInv`: the variables of a metric are unset together, and none is once there are
    frames. That a choice leaves none unset is `ChoosingEnds`: while names are left, each
    iteration takes some off the list, so there are as many iterations as names.
  - `LayoutInv`: ProcessEvents has not failed, every group is of core events, of uncore
    events, or one other event, with CPU granularity there is none of uncore events, and the
    counters are the places in order. The step over an interval follows the events through
    GetEventFrames. `Printed` says how lines are ordered. `Filled`: a bucket has the lines of
    its key, each element those of one event, in order. `Led`: after the aggregation the
    events are still in the order of lines of the first device. `GroupsSuffice`: as the
    assignment takes a step only when the name changes, the place it counts is never past
    the place of the line that leads the event, which is in a group. `UncoreFormed`, an
    invariant of the loader, says that without uncore support no group has an uncore event.
  - `FaithfulInv`: the groups are `WellFormed` (no event twice in a group, an uncore event in
    one group only, the core groups first), which rests on `GroupsInv`, `UncoreInv` and
    `HasEventsInv` of the loader, and the frames are faithful to the lines. A step over an
    interval is followed once more, now for *which* lines an element has. `Laid` says that
    before a line perf has printed one for its bucket of every event before its own, and
    that only an uncore event comes back. So an element never takes a line of a second
    group: between two places of one name there is another name (`SpotBetween`, for
    `NoSharedBorder`), whose line has closed the element (`Uniform`). Adding up the devices
    makes of an uncore event one element (`Parted`, `Whole`). No place is without an element
    (`NoneIsSkipped`), so the place that the assignment counts is that of the lines
    (`PlacesAreOwn`), and the frame has each line once.

  Assumed: `EventAssumption` and `FramesAssumption`, finitely many CPUs with numbers.
* `MetricsRun_proofs`: `TypeCorrect`, `WatchdogNeverForced`, `CollectionUndisturbed`,
  `SettingsAreRestored`, `AllGoroutinesAnswer`. The invariant is a conjunction over the
  targets: `Fine(t)` says, for each place of the target's goroutine and of runCmd, which
  settings the target has and which the command will restore; `Counted` says that the
  messages received are as many as the goroutines that have sent theirs, which is what keeps
  a restore from overtaking a collection; `List` that the deletions leave a list of
  different targets, which the loops that restore settings go through to its end.
* `MasterScript_proofs`: `TypeCorrect`, `UndisturbedIsWhole`, `EveryScriptIsReported`,
  `PlainScriptsAreWaitedFor`. `ShellOK` relates a shell, its command and its files;
  `CalmOK` says what holds as long as no signal has come; `LoopsOK` for which scripts the
  loops of the master and of its handler have waited, for a handler may interrupt itself and
  begin again; `SummaryOK` that the sections printed since the last start of a summary are
  those of the scripts before its cursor; `ReturnedOK` what the parser then has. Assumed:
  `MasterAssumption`.
* `UpdateApp_proofs`: `TypeCorrect`, `AProgramSurvives`, `FailedUpdateRestores`,
  `CompletedUpdateUpdates`, `TempDirIsRemoved`. `SurvivalInv` says where the running
  version is from step to step: under its name (`Early`), under its extended name
  (`Late`, where nothing is extracted, because an extended name is not the name of the
  archive's program), and back. It needs that a program with an extended name is of
  the version the name ends with (`Named`). `UpdateInv` adds what the saved targets file
  holds at each step (`Saved`), that the process went through them in order (`Alone`,
  `Reached`), and what is so at the end (`Restored`). For `TempDirIsRemoved`, `TempDirInv`
  says that while the command has not begun nothing makes the directory again after the
  handler has removed it. Assumed: `UpdateAssumption`, the bounds are natural numbers.

Every safety property of a run is so proved for every value of the constants, but for these,
which are only model-checked:

* liveness: fairness and ENABLED are beyond the prover;
* `ReadsCollected` of ReportingRun: it is true of some sets of tables and false of others
  (section 5), and which is a matter of evaluating the catalogue, which TLC does;
* `ComponentLoader`, whose folds are recursive.

## 5. Where code and comments disagree

Three violating runs stand for findings in PROJECT.json: a comment or help text of the
code states the property, and TLC shows the behaviour.

* `config_lost`: set functions of one register read and write it concurrently
  (`set.go:666`), though "the set scripts can run in parallel without conflicts"
  (`config.go:154-156`).
* `reporting_adhoc`: outputs are indexed by target, but targets without outputs have
  none (`common.go:277`).
* `master_sigint`: with `--duration 0`, "Ctrl+c to stop" (`telemetry.go:185`) does not
  stop a script whose pid file is not there yet: its shell ignores SIGINT, goes on to
  start the endless command, and the handler waits for it (`script.go:353`). When the file
  is there but still empty the handler does not wait: the command is left running, and
  its script reported with exit code 1.

More can be seen with configurations that belong to no run:
`tlc -config MC<Module>_<name>.cfg MC<Module>` (`UpdateApp` has no MC module).

* `MCPerfPipeline_lastbatch` (BatchesWhole): `cmd.Wait()` (`helpers.go:180`) closes the
  pipe before the scanner has read it to the end, so the last batch may lack lines.
* `MCPerfPipeline_bigapp` (ApplicationEnds): stdout of the application is never received
  (`metrics.go:1483`), so "Start application and collect metrics" (`metrics.go:47`) does not
  end for an application that writes more than the pipe takes.
* `MCPerfPipeline_stop` (StopHonored): a signal between the test of the loop
  (`metrics.go:1343`) and the start of perf does not end a collection without a duration,
  though the status says "press Ctrl+C to stop" (`metrics.go:1076`). Here every child can be
  signalled; with `KillMayFail` a perf that is running goes on, too (`metrics.go:94-96`).
* `MCConfigSet_value` (SuccessMeansSet): `freqInt<<i*8` is `(freqInt<<i)*8` (`set.go:254`,
  also `229`), so the frequency of all cores is not the one asked for, and the flag is
  reported as set.
* `MCConfigSet_lost` with other `Requests` and, for OneDie, `EmptyLists = TRUE`
  (SuccessMeansSet). `Forest`: on Sierra Forest the frequency is assigned to all of register
  0x774 on CPU 0, and the EPP field that another flag has set is lost (`set.go:233`).
  `OneCores`: a tee that fails is not noticed (`set.go:42`, `105`). `OneDie`: with no die
  listed nothing is written and success is reported (`set.go:326`).
* `MCConfigSet_foreign` (NoForeignBits): the sharing of one file by scripts of one name lets
  a prefetcher flag write the value read from another register (`script.go:103`,
  `set.go:659`).
* `MCConfigSet_msr` (MsrLoadedForSetters): the module that `prepareTarget` loads for the set
  scripts is unloaded when the call that loaded it returns (`script.go:79`; the comment is at
  `config.go:154`).
* `MCConfigSet_panic` (NoPanic): all RunScripts calls of a target share
  `parallel_master.sh`, so the output of a script of another call indexes with -1
  (`script.go:147`).
* `MCUpdateApp_interrupted` (TempDirRemovedOnSignal): the handler removes the temporary
  directory (`root.go:282`) and exits (`root.go:251`); between the two the command makes it
  again (`common/targets.go:190`), and it is left behind, though terminateApplication
  "removes the local temp directory if it was created" (`root.go:268`).
* `MCMetricsRun_removal` (FailedTargetsRemoved): indexes of the original list are used
  on the shortened one (`metrics.go:927`).
* `MCMetricsRun_watchdog` (WatchdogReset): the flag that restores the watchdog is set
  only after a command that may fail after its effect (`metrics.go:1180`).
* `MCMetricsRun_nometrics`: targets without metrics count as prepared
  (`metrics.go:1231`).
* `MCEventGrouping_alone` (OneTakenAlone): AddEvent compares the tag TakenAlone with
  "true", on fixed counters only (`loader_perfmon_group_core.go:154-172`); the event
  files say "1", of other events. Two tagged events share a group.
* `MCMetricFrames_drift` (EventsInOwnGroup): "each event is assigned to its group", but
  equal names in a row count once (`event_frame.go:223`), so a group that ends with the
  event with which the next one begins drifts into it.
* `MetricsRecover`, in the place of the property of `MCMetricFrames_drift.cfg`: a group chosen in a frame without values, as of
  an idle cgroup, is chosen for good (`metric.go:103`).
* `MCMasterScript_stderr` (OwnStdout): a stdout that does not end with a newline makes
  the parser miss the marker of stderr, which becomes part of stdout.
* In UpdateApp, in the place of the properties of `MCUpdateApp_update.cfg`: `TargetsKept`
  (`targets.yaml.sav` of an update that was killed is overwritten by the next update, when
  the archive's file has taken the place of the user's) and `ProgramInPlace` (when
  `targets.yaml` cannot be renamed, the program is not renamed back, `root.go:429-433`).
* `MCReportingRun_undeclared` and `_category`: tables whose scripts are not declared
  for what they read. Alone, the CPU table lacks Dmidecode, the brief summary (flame,
  lock, telemetry) Dmidecode and Hdparm; a full report has them because other tables
  declare them. `table_defs.go:839` says "returns the script names required to
  generate the table".
* `MCReportingRun_nothing`: when every collection fails, the command succeeds without a
  report, though `common.go:199` says "exit with error if no targets remain".
* `MCReportingRun_overwritten`: two raw reports of one target name, given with
  `--input`, are written to one file.
* In PerfPipeline, in the place of the properties of `MCPerfPipeline_stopping.cfg`:
  `PerfFailureReported` (`metrics.go:1536` sends nil after an error of perf) and
  `RefreshGoesOn` (`metrics.go:1609` shuts the command down where a refresh is meant).
* In ComponentLoader, seen while writing it: a group is closed by its last general
  purpose event, so a metric with as many of them as counters is split when CPU_CYCLES
  comes last, though it "does not count against the numGPCounters limit"
  (`loader_component.go:218`; no definition file is known to have such a metric).
  `compareCPUID` returns 0 when the version of its *first* argument is the higher or
  equal one, the reverse of its comment (`loader_component.go:131`).

## 6. What is not modelled

* Text: parsing of script output, metric expressions, HTML, spreadsheets, raw JSON,
  command lines and regular expressions. Its errors are errors of single functions,
  and the unit tests of the repository are about them.
* Arithmetic: averages of telemetry, the statistics of the summary.
* Register fields, beyond whether the core frequency arrives: a field is one name, and a
  value is assumed to fit it, which the flags check only in part. So not seen: the mask of the
  maximum uncore ratio has six bits (`set.go:385`), the field that is read back seven
  (`script_defs.go:470`); frequencies are truncated, not rounded, to integers. The bits that
  no flag asks about are overwritten on every CPU with those of CPU 0: `BitsOfOwnRegister`
  allows this, for it is how the code is meant to work.
* How long a collection without refreshing takes: perf prints a finite `Output`.
* ssh and sudo: a lost connection is a command that fails.
* Two commands of PerfSpect at the same time on one target, or two updates at once.
* The drawing of the spinner, the metrics server, the log and profile files.

## 7. Plan

Done, in this order: `PerfPipeline` with `IntervalStream`; `ConfigSet`;
`MetricsRun`; `ScriptDefinitions`, `ReportTables`, `ReportingRun`;
`EventGrouping` and `ComponentLoader`; `MetricFrames`; `MasterScript`; `UpdateApp`.

Next modules, small ones: `MultiSpinner`, drawing against Status; `TelemetrySummary` and
`ConfigBits`, pure operators against reference definitions.
