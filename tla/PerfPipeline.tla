--------------------------- MODULE PerfPipeline ---------------------------
(***************************************************************************)
(* The collection pipeline of "perfspect metrics" for one target: the      *)
(* goroutines that start Linux perf, batch its output by interval, turn    *)
(* each batch into metric frames and print them, and the signal manager    *)
(* that stops them.                                                        *)
(*                                                                         *)
(*   collector  collectOnTarget     the refresh loop; owns frameChannel    *)
(*   runner     runPerf             batches perf's lines by interval       *)
(*   exec       RunScriptStream     starts perf and waits for its exit     *)
(*   scanner    the goroutine of    moves lines from perf's stderr pipe to *)
(*              the async command   the runner                             *)
(*   proc       processPerfOutput   batches to frames                      *)
(*   printer    printMetricsAsync   prints the frames                      *)
(*   handler    handleSignals       cancels the context, kills children    *)
(*                                                                         *)
(* A send on an unbuffered Go channel is a joint step of its two           *)
(* goroutines.  perf itself is the environment: Output is all it would     *)
(* print, one number per line of stderr, the interval the line belongs to  *)
(* (0 for a line without an interval).  A session is one iteration of the  *)
(* refresh loop that reaches "go runPerf".  Every session has channels of  *)
(* its own, so StartRun resets them, and a goroutine of an earlier session *)
(* that is still blocked on one of them can act no more.                   *)
(***************************************************************************)
EXTENDS Integers, Sequences, FiniteSets

CONSTANTS
    Output,       (* the lines perf prints, as interval numbers             *)
    Requests,     (* the command lines considered, see Request              *)
    OutCap,       (* lines the stdout pipe and its unread scanner can hold  *)
    PipeCap,      (* lines the stderr pipe can hold                         *)
    ScanCap,      (* lines the stderr scanner takes with one read           *)
    BatchCap,     (* capacity of intervalBatchChannel                       *)
    MaxErrors,    (* maxConsecutiveProcessEventErrors                       *)
    KillMayFail,  (* sending a signal to the children may fail              *)
    MaxSessions   (* bound on the number of refreshes                       *)

\* perf prints the lines of an interval together and the intervals in order.
ASSUME OutputAssumption ==
    /\ Output \in Seq(Nat)
    /\ \A i, j \in 1..Len(Output) :
          i <= j /\ Output[i] > 0 /\ Output[j] > 0 => Output[i] <= Output[j]

\* flagScope; flagDuration # 0; flagPidList or flagCidList names the processes
\* or cgroups; argsApplication is not empty, and it writes so many lines to its
\* stdout.
Request == [scope : {"system", "process", "cgroup"},
            duration : BOOLEAN, listed : BOOLEAN, app : BOOLEAN, lines : Nat]

ASSUME RequestsAssumption == Requests \subseteq Request

ASSUME BoundsAssumption ==
    /\ OutCap \in Nat /\ KillMayFail \in BOOLEAN
    /\ PipeCap \in Nat \ {0} /\ ScanCap \in Nat \ {0} /\ BatchCap \in Nat \ {0}
    /\ MaxErrors \in Nat /\ MaxSessions \in Nat

VARIABLES
    flags,       (* the command line; it never changes                      *)
    collector,   (* where collectOnTarget is                                *)
    session,     (* how many times it has started runPerf                   *)
    err,         (* targetContext.err is set                                *)
    frameClosed, (* close(frameChannel) was called                          *)
    runner,      (* where runPerf is                                        *)
    curInterval, (* currentInterval                                         *)
    curLines,    (* len(currentBatch)                                       *)
    batchCh,     (* the buffer of intervalBatchChannel                      *)
    batchClosed, (* close(intervalBatchChannel) was called                  *)
    cancelled,   (* perfProcessingContext is cancelled                      *)
    exec,        (* where RunScriptStream is                                *)
    perf,        (* the perf process                                        *)
    emitted,     (* lines perf has written to its stderr                    *)
    scanned,     (* lines the scanner has read from the pipe                *)
    received,    (* lines the runner has received from the scanner          *)
    appOut,      (* lines the application has written to its stdout         *)
    proc,        (* where processPerfOutput is                              *)
    frame,       (* the frames it is sending                                *)
    numErr,      (* numConsecutiveProcessEventErrors                        *)
    printer,     (* where printMetricsAsync is                              *)
    page,        (* the frames it is printing                               *)
    ctxDone,     (* signalManager.ctx is cancelled                          *)
    sigSent,     (* the user has sent SIGINT or SIGTERM                     *)
    handler,     (* where handleSignals is                                  *)
    printed,     (* history: the frames printed, in order                   *)
    failed,      (* history: the batches ProcessEvents returned an error on *)
    lost         (* history: the batches and frames dropped while stopping  *)

sessionVars == <<runner, curInterval, curLines, batchCh, batchClosed, cancelled,
                 exec, perf, emitted, scanned, received, appOut,
                 proc, frame, numErr>>
streamVars  == <<emitted, scanned, received, appOut>>
batchVars   == <<curInterval, curLines, batchCh, batchClosed, cancelled>>
procVars    == <<proc, frame, numErr>>
printVars   == <<printer, page, printed>>
collectVars == <<collector, session, err, frameClosed>>
signalVars  == <<ctxDone, sigSent, handler>>
history     == <<failed, lost>>
vars == <<flags, sessionVars, printVars, collectVars, signalVars, history>>

----------------------------------------------------------------------------
(* A batch stands for the perf lines of one interval and, once processed,  *)
(* for the metric frames made of them.                                     *)
NoBatch == [session |-> 0, interval |-> 0, lines |-> 0]
Batch   == [session : Nat, interval : Int, lines : Nat]

LinesOf(i) == Cardinality({n \in 1..Len(Output) : Output[n] = i})

\* b precedes c in the order in which perf printed them.
Before(b, c) == \/ b.session < c.session
                \/ b.session = c.session /\ b.interval < c.interval

\* collectOnTarget looks for a new list of processes or cgroups and starts
\* perf again when perf stops without an error.
NeedsRefresh == ~flags.duration /\ flags.scope \in {"process", "cgroup"} /\ ~flags.listed

\* perf stops by itself: it runs the application, or "sleep <timeout>".
EndsByItself == \/ flags.app
                \/ flags.scope = "system"  /\ flags.duration
                \/ flags.scope = "process" /\ (flags.duration \/ ~flags.listed)

\* cgroupTimeout # 0: processPerfOutput has to stop perf.
HasCgroupTimeout == flags.scope = "cgroup" /\ (flags.duration \/ ~flags.listed)

----------------------------------------------------------------------------
Init ==
    /\ flags \in Requests
    /\ collector = "check" /\ session = 0 /\ err = FALSE /\ frameClosed = FALSE
    /\ runner = "idle" /\ curInterval = -1 /\ curLines = 0
    /\ batchCh = <<>> /\ batchClosed = FALSE /\ cancelled = FALSE
    /\ exec = "idle" /\ perf = "none"
    /\ emitted = 0 /\ scanned = 0 /\ received = 0 /\ appOut = 0
    /\ proc = "idle" /\ frame = NoBatch /\ numErr = 0
    /\ printer = "range" /\ page = NoBatch /\ printed = <<>>
    /\ ctxDone = FALSE /\ sigSent = FALSE /\ handler = "waiting"
    /\ failed = {} /\ lost = {}

----------------------------------------------------------------------------
(* collectOnTarget.                                                        *)

\* Mutant of LeaveLoop: the frame channel is not closed.
LeaveLoopOpen == frameClosed' = frameClosed /\ collector' = "awaitPrint"

\* The loop is left: the frame channel is closed and the printer awaited.
LeaveLoop == frameClosed' = TRUE /\ collector' = "awaitPrint"

\* for !signalMgr.shouldStop().  MaxSessions bounds the refreshes.
CheckContinue ==
    /\ collector = "check" /\ ~ctxDone /\ session < MaxSessions
    /\ collector' = "gather"
    /\ UNCHANGED <<session, err, frameClosed, sessionVars, printVars, signalVars, history>>

CheckStop ==
    /\ collector = "check" /\ ctxDone
    /\ LeaveLoop
    /\ UNCHANGED <<session, err, sessionVars, printVars, signalVars, history>>

\* The processes, the cgroups or the perf command could not be determined.
GatherFail ==
    /\ collector = "gather"
    /\ err' = TRUE
    /\ LeaveLoop
    /\ UNCHANGED <<session, sessionVars, printVars, signalVars, history>>

\* No cgroup is hot: try again in five seconds.
GatherRetry ==
    /\ collector = "gather" /\ flags.scope = "cgroup" /\ ~flags.listed
    /\ collector' = "check"
    /\ UNCHANGED <<session, err, frameClosed, sessionVars, printVars, signalVars, history>>

\* go runPerf, which makes its channels and starts RunScriptStream.
StartRun ==
    /\ collector = "gather"
    /\ collector' = "await" /\ session' = session + 1
    /\ runner' = "start" /\ exec' = "prepare" /\ perf' = "none"
    /\ curInterval' = -1 /\ curLines' = 0
    /\ batchCh' = <<>> /\ batchClosed' = FALSE /\ cancelled' = FALSE
    /\ emitted' = 0 /\ scanned' = 0 /\ received' = 0 /\ appOut' = 0
    /\ proc' = "idle" /\ frame' = NoBatch /\ numErr' = 0
    /\ UNCHANGED <<err, frameClosed, printVars, signalVars, history>>

\* perfErr := <-errorChannel, an error: the loop is left.
RunReturnsError ==
    /\ collector = "await" /\ runner = "sendErr"
    /\ runner' = "idle"
    /\ err' = (err \/ ~ctxDone)
    /\ LeaveLoop
    /\ UNCHANGED <<session, batchVars, exec, perf, streamVars, procVars, printVars,
                   signalVars, history>>

\* perfErr := <-errorChannel, nil: refresh, or leave the loop.
RunReturnsNil ==
    /\ collector = "await" /\ runner = "sendNil"
    /\ runner' = "idle"
    /\ IF NeedsRefresh THEN collector' = "check" /\ UNCHANGED frameClosed
                       ELSE LeaveLoop
    /\ UNCHANGED <<session, err, batchVars, exec, perf, streamVars, procVars, printVars,
                   signalVars, history>>

----------------------------------------------------------------------------
(* RunScriptStream and the command it runs.                                *)

\* Architecture, script file, dependencies: one of them failed.
PrepareFails ==
    /\ exec = "prepare" /\ exec' = "sendErr"
    /\ UNCHANGED <<runner, batchVars, perf, streamVars, procVars, printVars, collectVars,
                   signalVars, history>>

Prepare ==
    /\ exec = "prepare" /\ exec' = "offer"
    /\ UNCHANGED <<runner, batchVars, perf, streamVars, procVars, printVars, collectVars,
                   signalVars, history>>

\* cmd.Start() and the two scanner goroutines.
StartPerf ==
    /\ exec = "start" /\ exec' = "wait" /\ perf' = "running"
    /\ UNCHANGED <<runner, batchVars, streamVars, procVars, printVars, collectVars,
                   signalVars, history>>

StartPerfFails ==
    /\ exec = "start" /\ exec' = "sendErr"
    /\ UNCHANGED <<runner, batchVars, perf, streamVars, procVars, printVars, collectVars,
                   signalVars, history>>

\* cmd.Wait() returns once perf has exited, and closes the read ends of the
\* pipes: what the scanners have not read by then is gone.
WaitReturns ==
    /\ exec = "wait" /\ perf # "running"
    /\ exec' = "sendExit"
    /\ UNCHANGED <<runner, batchVars, perf, streamVars, procVars, printVars, collectVars,
                   signalVars, history>>

\* The stderr scanner needs a new line and its buffer holds none: one read
\* of the pipe, which returns no more than the buffer can take.
ScanPipe ==
    /\ exec = "wait" /\ received = scanned
    /\ \E n \in 1..ScanCap : scanned + n <= emitted /\ scanned' = scanned + n
    /\ UNCHANGED <<runner, batchVars, exec, perf, emitted, received, appOut,
                   procVars, printVars, collectVars, signalVars, history>>

----------------------------------------------------------------------------
(* perf and the application it runs.                                       *)

EmitLine ==
    /\ perf = "running" /\ emitted < Len(Output)
    /\ emitted - scanned < PipeCap
    /\ emitted' = emitted + 1
    /\ UNCHANGED <<runner, batchVars, exec, perf, scanned, received, appOut, procVars,
                   printVars, collectVars, signalVars, history>>

\* Nobody receives from stdoutChannel: once its scanner is blocked on the
\* send, the pipe takes what it can hold and no more.
AppWrite ==
    /\ perf = "running" /\ flags.app /\ appOut < flags.lines /\ appOut < OutCap
    /\ appOut' = appOut + 1
    /\ UNCHANGED <<runner, batchVars, exec, perf, emitted, scanned, received, procVars,
                   printVars, collectVars, signalVars, history>>

\* perf has written the lines of whole intervals only.
AtIntervalEnd(n) == n \in 1..(Len(Output) - 1) => Output[n] # Output[n + 1]

\* perf ends because the application or the sleep command has.
PerfExits ==
    /\ perf = "running" /\ EndsByItself
    /\ AtIntervalEnd(emitted)
    /\ flags.app => appOut = flags.lines
    /\ perf' = "exited"
    /\ UNCHANGED <<runner, batchVars, exec, streamVars, procVars, printVars, collectVars,
                   signalVars, history>>

\* perf ends early, with a non-zero exit code.
PerfFails ==
    /\ perf = "running"
    /\ perf' = "failed"
    /\ UNCHANGED <<runner, batchVars, exec, streamVars, procVars, printVars, collectVars,
                   signalVars, history>>

----------------------------------------------------------------------------
(* runPerf.                                                                *)

\* <-cmdChannel: the command is about to be started; go processPerfOutput.
ReceiveCmd ==
    /\ runner = "start" /\ exec = "offer"
    /\ exec' = "start" /\ runner' = "select" /\ proc' = "select"
    /\ UNCHANGED <<batchVars, perf, streamVars, frame, numErr, printVars, collectVars,
                   signalVars, history>>

\* <-scriptErrorChannel before perf was started.
ReceivePrepareError ==
    /\ runner = "start" /\ exec = "sendErr"
    /\ exec' = "done" /\ runner' = "sendErr"
    /\ UNCHANGED <<batchVars, perf, streamVars, procVars, printVars, collectVars, signalVars,
                   history>>

\* Mutant of CompletesBatch: the interval is not compared.
CompletesEvery(i) == curLines > 0

\* A line completes the current batch when it is of another interval.
CompletesBatch(i) == i # curInterval /\ curLines > 0

\* <-stderrChannel: skip the line, append it to the batch, or go on to send
\* the batch first.
ReceiveLine ==
    /\ runner = "select" /\ received < scanned
    /\ received' = received + 1
    /\ LET i == Output[received + 1] IN
       \/ i = 0 /\ UNCHANGED <<runner, curInterval, curLines>>
       \/ i > 0 /\ CompletesBatch(i) /\ runner' = "flush" /\ UNCHANGED <<curInterval, curLines>>
       \/ /\ i > 0 /\ ~CompletesBatch(i)
          /\ curInterval' = i /\ curLines' = curLines + 1
          /\ UNCHANGED runner
    /\ UNCHANGED <<batchCh, batchClosed, cancelled, exec, perf, emitted, scanned, appOut,
                   procVars, printVars, collectVars, signalVars, history>>

CurrentBatch == [session |-> session, interval |-> curInterval, lines |-> curLines]

\* Mutant of RoomInChannel: off by one.
RoomForOneMore == Len(batchCh) <= BatchCap

RoomInChannel == Len(batchCh) < BatchCap

\* Mutant of FlushBatch: the batch sent is not replaced by a new one.
FlushKeepsBatch ==
    /\ runner = "flush" /\ RoomInChannel
    /\ batchCh' = Append(batchCh, CurrentBatch)
    /\ curLines' = curLines + 1
    /\ runner' = "select"
    /\ UNCHANGED <<curInterval, batchClosed, cancelled, exec, perf, streamVars, procVars,
                   printVars, collectVars, signalVars, history>>

\* Mutant of FlushBatch: a full channel is not waited for.
FlushOrDrop ==
    /\ runner = "flush"
    /\ IF RoomInChannel
       THEN batchCh' = Append(batchCh, CurrentBatch) /\ UNCHANGED lost
       ELSE lost' = lost \cup {CurrentBatch} /\ UNCHANGED batchCh
    /\ curInterval' = Output[received] /\ curLines' = 1
    /\ runner' = "select"
    /\ UNCHANGED <<batchClosed, cancelled, exec, perf, streamVars, procVars, printVars,
                   collectVars, signalVars, failed>>

\* The batch is sent and the line received last starts the next one.  The
\* alternative of this select, the cancelled context, is never ready: runPerf
\* itself cancels it, later.
FlushBatch ==
    /\ runner = "flush" /\ RoomInChannel
    /\ batchCh' = Append(batchCh, CurrentBatch)
    /\ curInterval' = Output[received] /\ curLines' = 1
    /\ runner' = "select"
    /\ UNCHANGED <<batchClosed, cancelled, exec, perf, streamVars, procVars, printVars,
                   collectVars, signalVars, history>>

\* Mutant of ReceiveExitCode: the final batch is forgotten.
ExitForgetsFinal ==
    /\ runner = "select" /\ exec = "sendExit"
    /\ exec' = "sendErr" /\ runner' = "close"
    /\ UNCHANGED <<batchVars, perf, streamVars, procVars, printVars, collectVars, signalVars,
                   history>>

\* <-exitcodeChannel.  The code itself is only logged.
ReceiveExitCode ==
    /\ runner = "select" /\ exec = "sendExit"
    /\ exec' = "sendErr"
    /\ runner' = IF curLines > 0 THEN "final" ELSE "close"
    /\ UNCHANGED <<batchVars, perf, streamVars, procVars, printVars, collectVars, signalVars,
                   history>>

\* <-scriptErrorChannel: perf could not be started.  The error is only logged.
ReceiveStartError ==
    /\ runner = "select" /\ exec = "sendErr"
    /\ exec' = "done" /\ runner' = "close"
    /\ UNCHANGED <<batchVars, perf, streamVars, procVars, printVars, collectVars, signalVars,
                   history>>

SendFinalBatch ==
    /\ runner = "final" /\ RoomInChannel
    /\ batchCh' = Append(batchCh, CurrentBatch)
    /\ curLines' = 0 /\ runner' = "close"
    /\ UNCHANGED <<curInterval, batchClosed, cancelled, exec, perf, streamVars, procVars,
                   printVars, collectVars, signalVars, history>>

\* No room within perfEventWaitTime: the final batch is dropped.
DropFinalBatch ==
    /\ runner = "final" /\ ~RoomInChannel
    /\ lost' = lost \cup {CurrentBatch}
    /\ curLines' = 0 /\ runner' = "close"
    /\ UNCHANGED <<curInterval, batchCh, batchClosed, cancelled, exec, perf, streamVars,
                   procVars, printVars, collectVars, signalVars, failed>>

CloseBatchChannel ==
    /\ runner = "close"
    /\ batchClosed' = TRUE /\ runner' = "cancel"
    /\ UNCHANGED <<curInterval, curLines, batchCh, cancelled, exec, perf, streamVars,
                   procVars, printVars, collectVars, signalVars, history>>

CancelProcessing ==
    /\ runner = "cancel"
    /\ cancelled' = TRUE /\ runner' = "awaitDone"
    /\ UNCHANGED <<curInterval, curLines, batchCh, batchClosed, exec, perf, streamVars,
                   procVars, printVars, collectVars, signalVars, history>>

\* Mutant of ProcessingDone: the processor is not awaited.
ProcessingNotAwaited ==
    /\ runner = "awaitDone"
    /\ runner' = "sendNil"
    /\ UNCHANGED <<batchVars, exec, perf, streamVars, procVars, printVars, collectVars,
                   signalVars, history>>

\* <-donePerfProcessingChannel
ProcessingDone ==
    /\ runner = "awaitDone" /\ proc = "done"
    /\ runner' = "sendNil"
    /\ UNCHANGED <<batchVars, exec, perf, streamVars, procVars, printVars, collectVars,
                   signalVars, history>>

----------------------------------------------------------------------------
(* processPerfOutput.  ProcessEvents returns frames or an error: which of  *)
(* the two is not determined here.                                         *)

\* A batch is received and its frames are to be sent.
ProcessBatch ==
    /\ proc = "select" /\ batchCh # <<>>
    /\ batchCh' = Tail(batchCh)
    /\ frame' = Head(batchCh) /\ proc' = "send"
    /\ UNCHANGED <<runner, curInterval, curLines, batchClosed, cancelled, exec, perf,
                   streamVars, numErr, printVars, collectVars, signalVars, history>>

\* A batch is received and cannot be processed; too many in a row stop the
\* whole application.
ProcessBatchFails ==
    /\ proc = "select" /\ batchCh # <<>>
    /\ batchCh' = Tail(batchCh)
    /\ failed' = failed \cup {Head(batchCh)}
    /\ numErr' = numErr + 1
    /\ ctxDone' = (ctxDone \/ numErr + 1 > MaxErrors)
    /\ proc' = "tick"
    /\ UNCHANGED <<runner, curInterval, curLines, batchClosed, cancelled, exec, perf,
                   streamVars, frame, printVars, collectVars, sigSent, handler, lost>>

\* Mutant of SendFrame: the error count is not reset.
SendKeepsErrors ==
    /\ proc = "send" /\ printer = "range"
    /\ page' = frame /\ printer' = "print"
    /\ frame' = NoBatch /\ proc' = "tick"
    /\ UNCHANGED <<runner, batchVars, exec, perf, streamVars, numErr, printed, collectVars,
                   signalVars, history>>

\* frameChannel <- metricFrames
SendFrame ==
    /\ proc = "send" /\ printer = "range"
    /\ page' = frame /\ printer' = "print"
    /\ frame' = NoBatch /\ numErr' = 0 /\ proc' = "tick"
    /\ UNCHANGED <<runner, batchVars, exec, perf, streamVars, printed, collectVars,
                   signalVars, history>>

\* The timeout of the cgroup scope, checked after every batch.
CheckTimeout ==
    /\ proc = "tick" /\ proc' = "select"
    /\ \/ UNCHANGED ctxDone
       \/ HasCgroupTimeout /\ ctxDone' = TRUE
    /\ UNCHANGED <<runner, batchVars, exec, perf, streamVars, frame, numErr, printVars,
                   collectVars, sigSent, handler, history>>

\* The channel is closed and empty, or the context is cancelled: with batches
\* left in the channel too, the select takes either case.
StopProcessing ==
    /\ proc = "select"
    /\ cancelled \/ (batchClosed /\ batchCh = <<>>)
    /\ proc' = "drain"
    /\ UNCHANGED <<runner, batchVars, exec, perf, streamVars, frame, numErr, printVars,
                   collectVars, signalVars, history>>

\* A batch left in the channel: its frames are sent if the printer is waiting
\* for some at that moment.
DrainSend ==
    /\ proc = "drain" /\ batchCh # <<>> /\ printer = "range"
    /\ batchCh' = Tail(batchCh)
    /\ page' = Head(batchCh) /\ printer' = "print"
    /\ UNCHANGED <<runner, curInterval, curLines, batchClosed, cancelled, exec, perf,
                   streamVars, procVars, printed, collectVars, signalVars, history>>

\* Otherwise they are dropped.  A printer that has printed its last frame but
\* has not reached the receive yet is not waiting either.
DrainDrop ==
    /\ proc = "drain" /\ batchCh # <<>>
    /\ batchCh' = Tail(batchCh)
    /\ lost' = lost \cup {Head(batchCh)}
    /\ UNCHANGED <<runner, curInterval, curLines, batchClosed, cancelled, exec, perf,
                   streamVars, procVars, printVars, collectVars, signalVars, failed>>

DrainFails ==
    /\ proc = "drain" /\ batchCh # <<>>
    /\ batchCh' = Tail(batchCh)
    /\ failed' = failed \cup {Head(batchCh)}
    /\ UNCHANGED <<runner, curInterval, curLines, batchClosed, cancelled, exec, perf,
                   streamVars, procVars, printVars, collectVars, signalVars, lost>>

Drained ==
    /\ proc = "drain" /\ batchCh = <<>>
    /\ proc' = "done"
    /\ UNCHANGED <<runner, batchVars, exec, perf, streamVars, frame, numErr, printVars,
                   collectVars, signalVars, history>>

----------------------------------------------------------------------------
(* printMetricsAsync.                                                      *)

PrintFrame ==
    /\ printer = "print"
    /\ printed' = Append(printed, page) /\ page' = NoBatch /\ printer' = "range"
    /\ UNCHANGED <<sessionVars, collectVars, signalVars, history>>

FramesClosed ==
    /\ printer = "range" /\ frameClosed
    /\ printer' = "sendFiles"
    /\ UNCHANGED <<sessionVars, page, printed, collectVars, signalVars, history>>

\* targetContext.printedFiles = <-printCompleteChannel
PrintComplete ==
    /\ printer = "sendFiles" /\ collector = "awaitPrint"
    /\ printer' = "done" /\ collector' = "done"
    /\ UNCHANGED <<sessionVars, page, printed, session, err, frameClosed, signalVars, history>>

----------------------------------------------------------------------------
(* signalManager.                                                          *)

\* The user presses Ctrl+C or sends SIGTERM.  Only the first signal counts:
\* handleSignals returns after it.
Interrupt ==
    /\ ~sigSent /\ collector # "done"
    /\ sigSent' = TRUE
    /\ UNCHANGED <<sessionVars, printVars, collectVars, ctxDone, handler, history>>

\* Mutant of HandlerWakes: the children are killed, the context is not cancelled.
WakesWithoutCancel ==
    /\ handler = "waiting" /\ (sigSent \/ ctxDone)
    /\ handler' = "kill"
    /\ UNCHANGED <<sessionVars, printVars, collectVars, ctxDone, sigSent, history>>

\* A signal, or a context cancelled by triggerShutdown.
HandlerWakes ==
    /\ handler = "waiting" /\ (sigSent \/ ctxDone)
    /\ ctxDone' = TRUE /\ handler' = "kill"
    /\ UNCHANGED <<sessionVars, printVars, collectVars, sigSent, history>>

\* SignalChildren(SIGKILL): the children there are at this moment.  That one of
\* them could not be signalled is only logged.
KillChildren ==
    /\ handler = "kill" /\ handler' = "done"
    /\ \/ perf' = IF perf = "running" THEN "killed" ELSE perf
       \/ KillMayFail /\ UNCHANGED perf
    /\ UNCHANGED <<runner, batchVars, exec, streamVars, procVars, printVars, collectVars,
                   ctxDone, sigSent, history>>

----------------------------------------------------------------------------
CollectorNext == CheckContinue \/ CheckStop \/ GatherFail \/ GatherRetry \/ StartRun
                 \/ RunReturnsError \/ RunReturnsNil
ExecNext      == PrepareFails \/ Prepare \/ StartPerf \/ StartPerfFails \/ WaitReturns
PerfNext      == EmitLine \/ AppWrite \/ PerfExits \/ PerfFails
RunnerNext    == ReceiveCmd \/ ReceivePrepareError \/ ReceiveLine \/ FlushBatch
                 \/ ReceiveExitCode \/ ReceiveStartError \/ SendFinalBatch \/ DropFinalBatch
                 \/ CloseBatchChannel \/ CancelProcessing \/ ProcessingDone
ProcNext      == ProcessBatch \/ ProcessBatchFails \/ SendFrame \/ CheckTimeout
                 \/ StopProcessing \/ DrainSend \/ DrainDrop \/ DrainFails \/ Drained
PrinterNext   == PrintFrame \/ FramesClosed \/ PrintComplete
HandlerNext   == HandlerWakes \/ KillChildren

\* collectOnTarget has returned.
Returned == collector = "done" /\ UNCHANGED vars

Same == UNCHANGED flags

Next == /\ \/ CollectorNext \/ ExecNext \/ ScanPipe \/ PerfNext \/ RunnerNext \/ ProcNext
           \/ PrinterNext \/ Interrupt \/ HandlerNext \/ Returned
        /\ Same

Spec == Init /\ [][Next]_vars

(* The Go scheduler runs every goroutine that can run; perf prints, and    *)
(* exits when its command has.  Nothing is assumed of the user, and perf   *)
(* need not fail.                                                          *)
Fairness ==
    /\ WF_vars(CollectorNext /\ Same) /\ WF_vars(ExecNext /\ Same)
    /\ WF_vars(ScanPipe /\ Same) /\ WF_vars(RunnerNext /\ Same)
    /\ WF_vars(ProcNext /\ Same) /\ WF_vars(PrinterNext /\ Same)
    /\ WF_vars(HandlerNext /\ Same) /\ WF_vars(EmitLine /\ Same)
    /\ WF_vars(AppWrite /\ Same) /\ WF_vars(PerfExits /\ Same)

FairSpec == Spec /\ Fairness

----------------------------------------------------------------------------
(* Properties.                                                             *)

CollectTypeOK ==
    /\ collector \in {"check", "gather", "await", "awaitPrint", "done"}
    /\ session \in 0..MaxSessions
    /\ err \in BOOLEAN
    /\ frameClosed \in BOOLEAN

RunnerTypeOK ==
    /\ runner \in {"idle", "start", "sendErr", "select", "flush", "final", "close",
                   "cancel", "awaitDone", "sendNil"}
    /\ curInterval \in Nat \cup {-1}
    /\ curLines \in Nat

ChannelTypeOK ==
    /\ batchCh \in Seq(Batch)
    /\ Len(batchCh) <= BatchCap
    /\ batchClosed \in BOOLEAN
    /\ cancelled \in BOOLEAN

StreamTypeOK ==
    /\ exec \in {"idle", "prepare", "offer", "start", "wait", "sendExit", "sendErr", "done"}
    /\ perf \in {"none", "running", "exited", "failed", "killed"}
    /\ emitted \in 0..Len(Output)
    /\ scanned \in 0..emitted
    /\ received \in 0..scanned
    /\ appOut \in 0..OutCap

ProcTypeOK ==
    /\ proc \in {"idle", "select", "send", "tick", "drain", "done"}
    /\ frame \in Batch
    /\ numErr \in Nat

PrintTypeOK ==
    /\ printer \in {"range", "print", "sendFiles", "done"}
    /\ page \in Batch
    /\ printed \in Seq(Batch)

SignalTypeOK ==
    /\ ctxDone \in BOOLEAN
    /\ sigSent \in BOOLEAN
    /\ handler \in {"waiting", "kill", "done"}

HistoryTypeOK == failed \in SUBSET Batch /\ lost \in SUBSET Batch

TypeOK == /\ CollectTypeOK /\ RunnerTypeOK /\ ChannelTypeOK /\ StreamTypeOK
          /\ ProcTypeOK /\ PrintTypeOK /\ SignalTypeOK /\ HistoryTypeOK

SetOf(s) == {s[i] : i \in 1..Len(s)}

\* Every batch the runner has sent that is neither lost nor failed.
InFlight == (SetOf(batchCh) \cup {frame, page}) \ {NoBatch}
Kept     == InFlight \cup SetOf(printed) \cup failed
Batches  == Kept \cup lost

IntervalsOf(s, S) == {b.interval : b \in {c \in S : c.session = s}}

\* Frames are printed in the order perf measured them and none is printed
\* twice, over all refreshes.
PrintedInOrder ==
    \A i, j \in 1..Len(printed) : i < j => Before(printed[i], printed[j])

\* Only the last batch of a run of perf can lack lines: a batch with a later
\* one behind it has all the events of its interval.
InnerBatchesWhole ==
    \A b, c \in Batches :
        b.session = c.session /\ b.interval < c.interval => b.lines = LinesOf(b.interval)

\* While perf is being read, every interval before the current one is in the
\* channel, at the processor, at the printer, printed or reported as failed:
\* however slow the consumers are, none is dropped.
NoIntervalDropped ==
    runner \in {"select", "flush"} =>
        IntervalsOf(session, Kept)
            = {i \in {Output[n] : n \in 1..received} : 0 < i /\ i < curInterval}

\* While stopping, no more is lost than the batch channel holds, and the batch
\* that did not fit.
LossBounded ==
    \A s \in 1..session : Cardinality({b \in lost : b.session = s}) <= BatchCap + 1

\* collectOnTarget has the results of runPerf and its processor, and they have
\* stopped, when it refreshes or closes the frame channel: nothing can be sent
\* on the closed channel, and no two processors share it.
ProcessorStopsFirst ==
    collector # "await" => runner = "idle" /\ proc \in {"idle", "done"}

\* When collectOnTarget returns, every interval received in the last run has
\* been printed, or is known to have failed or been lost; none is still held
\* by a goroutine.
NothingLeftBehind ==
    collector = "done" =>
        /\ InFlight = {}
        /\ {Output[n] : n \in 1..received} \ {0} = IntervalsOf(session, Batches)

\* The application is shut down for a reason: the user asked, a cgroup
\* collection timed out, or more than MaxErrors intervals failed with none
\* printed between them.
ShutdownHasCause ==
    ctxDone => \/ sigSent
               \/ HasCgroupTimeout
               \/ \E b, c \in failed :
                    LET Between(f) == ~Before(f, b) /\ ~Before(c, f) IN
                    /\ b.session = c.session
                    /\ Cardinality({f \in failed : Between(f)}) > MaxErrors
                    /\ ~\E f \in SetOf(printed) : Between(f)

\* The application waits for room in the pipe of its stdout, and perf for it.
StuckApp == perf = "running" /\ flags.app /\ appOut = OutCap /\ appOut < flags.lines

\* perf runs on and will not stop, and the handler has already killed the children
\* there were.
Escaped == perf = "running" /\ handler = "done" /\ (EndsByItself => StuckApp)

\* A collection that does not refresh, of a perf that stops by itself, ends, whatever the
\* goroutines wait for; all that can keep it is an application that waits for ever.
Terminates == EndsByItself /\ ~NeedsRefresh => <>(collector = "done") \/ <>[]StuckApp

\* A signal or an internal shutdown, whenever it comes and however often perf is started
\* again, ends the collection; all that can keep it is a perf that the handler has missed.
StopEndsCollection == <>(sigSent \/ ctxDone) => <>(collector = "done") \/ <>[]Escaped

----------------------------------------------------------------------------
(* The inductive invariant behind PrintedInOrder: the same order holds     *)
(* along the whole pipeline, printed, page, frame, batchCh, and the batch  *)
(* being filled is after all of them.                                      *)

AfterPrinted(b) == \A i \in 1..Len(printed) : Before(printed[i], b)

AfterTaken(b) == /\ AfterPrinted(b)
                 /\ printer = "print" => Before(page, b)
                 /\ proc = "send" => Before(frame, b)

PageInOrder == printer = "print" => AfterPrinted(page)

FrameInOrder == proc = "send" => /\ AfterPrinted(frame)
                                 /\ printer = "print" => Before(page, frame)

ChannelInOrder ==
    /\ \A k \in 1..Len(batchCh) : AfterTaken(batchCh[k])
    /\ \A j, k \in 1..Len(batchCh) : j < k => Before(batchCh[j], batchCh[k])

\* A batch that was sent is of an earlier session or, while the runner may
\* still send one, of an earlier interval than the current batch.
Sealed(b) ==
    /\ b.session <= session
    /\ b.session = session /\ runner \in {"start", "select", "flush", "final"}
          => b.interval < curInterval

AllSealed ==
    /\ \A i \in 1..Len(printed) : Sealed(printed[i])
    /\ printer = "print" => Sealed(page)
    /\ proc = "send" => Sealed(frame)
    /\ \A k \in 1..Len(batchCh) : Sealed(batchCh[k])

\* No line still to come is of an interval before the current one.
LinesAhead ==
    /\ runner \in {"start", "select"} =>
          \A n \in (received + 1)..Len(Output) : Output[n] > 0 => curInterval <= Output[n]
    /\ runner = "flush" => received > 0 /\ 0 < Output[received] /\ curInterval < Output[received]

\* The whole pipeline is in the order in which perf measured the intervals.
OrderInv == /\ PrintedInOrder /\ PageInOrder /\ FrameInOrder /\ ChannelInOrder
            /\ AllSealed /\ LinesAhead

----------------------------------------------------------------------------
(* The pipeline implements the interval stream.                            *)

MaxOf(S) == CHOOSE m \in S : \A x \in S : x <= m

Stream == INSTANCE IntervalStream WITH
    measured <- <<session, MaxOf({0} \cup {Output[n] : n \in 1..emitted})>>,
    output   <- [i \in 1..Len(printed) |-> <<printed[i].session, printed[i].interval>>],
    complete <- collector = "done"

\* What is printed is an ordered selection of what perf measured.
ImplementsStream == Stream!Spec

----------------------------------------------------------------------------
(* What the comments, the help and the examples of the program say.        *)

\* "all events for a particular interval": a batch that perf was not
\* prevented from finishing is complete.
BatchesWhole ==
    perf \in {"running", "exited"} =>
        \A b \in Batches : b.session = session => b.lines = LinesOf(b.interval)

\* "capture and return all errors": a perf that cannot be started, or fails,
\* is an error of the target.
PerfFailureReported ==
    collector = "done" /\ session > 0 /\ ~ctxDone /\ perf \in {"none", "failed"} => err

\* "Start application and collect metrics": the collection of an application ends, or the
\* user stops it.
ApplicationEnds == flags.app ~> (collector = "done" \/ sigSent)

\* "press Ctrl+C to stop": a signal ends the collection, whenever it arrives.
StopHonored == sigSent ~> (collector = "done")

\* "refreshing the hot or filtered process or cgroup list": a collection that
\* refreshes its list goes on until the user stops it or something fails.
RefreshGoesOn ==
    NeedsRefresh /\ collector = "done" => sigSent \/ err \/ failed # {}

============================================================================
