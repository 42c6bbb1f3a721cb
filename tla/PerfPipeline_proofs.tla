----------------------- MODULE PerfPipeline_proofs -----------------------
(***************************************************************************)
(* Theorems about PerfPipeline, for every output of perf, every capacity   *)
(* and every combination of flags: intervals are printed in order, none is *)
(* dropped while perf is read or left behind, the loss at the end is       *)
(* bounded, a shutdown has a reason, and the pipeline implements           *)
(* IntervalStream.                                                         *)
(***************************************************************************)
EXTENDS PerfPipeline, FiniteSetTheorems, SequenceTheorems, TLAPS

(* TypeOK is not inductive: a refresh is only prepared below the bound on  *)
(* the sessions, and a batch is only flushed for a line received.          *)
TypeInv ==
    /\ TypeOK
    /\ collector = "gather" => session < MaxSessions
    /\ runner = "flush" => received > 0

\* What the assumptions say of the lines of perf's output.
LEMMA OutputLines ==
    /\ Len(Output) \in Nat
    /\ \A n \in 1..Len(Output) : Output[n] \in Nat
BY OutputAssumption

\* A batch received from the channel is a batch, and leaves a shorter channel.
LEMMA TakeBatch ==
    ASSUME NEW s \in Seq(Batch), s # <<>>
    PROVE  /\ Head(s) \in Batch /\ Tail(s) \in Seq(Batch)
           /\ Len(s) \in Nat /\ Len(s) > 0 /\ Head(s) = s[1]
           /\ Len(Tail(s)) = Len(s) - 1
           /\ \A i \in 1..Len(Tail(s)) : Tail(s)[i] = s[i + 1]
BY HeadTailProperties, LenProperties

\* A batch sent to a channel is the last of a longer channel.
LEMMA PutBatch ==
    ASSUME NEW s \in Seq(Batch), NEW b \in Batch
    PROVE  /\ Append(s, b) \in Seq(Batch)
           /\ Len(s) \in Nat /\ Len(Append(s, b)) = Len(s) + 1
           /\ \A i \in 1..Len(s) : Append(s, b)[i] = s[i]
           /\ Append(s, b)[Len(s) + 1] = b
BY AppendProperties, LenProperties

LEMMA NoBatchType == NoBatch \in Batch
BY DEF NoBatch, Batch

LEMMA TypeInit == Init => TypeInv
<1> SUFFICES ASSUME Init PROVE TypeInv
    OBVIOUS
<1> USE DEF Init
<1>1. CollectTypeOK
  <2>1. session \in 0..MaxSessions
        BY BoundsAssumption
  <2> QED
      BY <2>1, Zenon DEF CollectTypeOK
<1>2. RunnerTypeOK
      BY DEF RunnerTypeOK
<1>3. ChannelTypeOK
  <2>1. batchCh \in Seq(Batch) /\ Len(batchCh) <= BatchCap
        BY EmptySeq, BoundsAssumption
  <2> QED
      BY <2>1, Zenon DEF ChannelTypeOK
<1>4. StreamTypeOK
      BY OutputLines, BoundsAssumption DEF StreamTypeOK
<1>5. ProcTypeOK /\ PrintTypeOK
      BY EmptySeq, NoBatchType DEF ProcTypeOK, PrintTypeOK
<1>6. SignalTypeOK /\ HistoryTypeOK
      BY DEF SignalTypeOK, HistoryTypeOK
<1> QED
    BY <1>1, <1>2, <1>3, <1>4, <1>5, <1>6 DEF TypeInv, TypeOK

\* A part of the type invariant holds after a step that leaves its variables.
LEMMA TypeUnchanged ==
    /\ CollectTypeOK /\ UNCHANGED collectVars => CollectTypeOK'
    /\ RunnerTypeOK /\ UNCHANGED <<runner, curInterval, curLines>> => RunnerTypeOK'
    /\ ChannelTypeOK /\ UNCHANGED <<batchCh, batchClosed, cancelled>> => ChannelTypeOK'
    /\ StreamTypeOK /\ UNCHANGED <<exec, perf, streamVars>> => StreamTypeOK'
    /\ ProcTypeOK /\ UNCHANGED procVars => ProcTypeOK'
    /\ PrintTypeOK /\ UNCHANGED printVars => PrintTypeOK'
    /\ SignalTypeOK /\ UNCHANGED signalVars => SignalTypeOK'
    /\ HistoryTypeOK /\ UNCHANGED history => HistoryTypeOK'
BY DEF CollectTypeOK, RunnerTypeOK, ChannelTypeOK, StreamTypeOK, ProcTypeOK, PrintTypeOK,
       SignalTypeOK, HistoryTypeOK, collectVars, streamVars, procVars, printVars, signalVars,
       history

\* The actions of collectOnTarget.
LEMMA TypeCollector == TypeInv /\ CollectorNext => TypeInv'
<1> SUFFICES ASSUME TypeInv, CollectorNext PROVE TypeInv'
    OBVIOUS
<1> USE TypeUnchanged DEF TypeInv, TypeOK, sessionVars, streamVars, procVars, batchVars
<1>1. CASE CheckContinue
  <2>1. CollectTypeOK'
        BY <1>1 DEF CheckContinue, CollectTypeOK
  <2> QED
      BY <1>1, <2>1 DEF CheckContinue
<1>2. CASE CheckStop
  <2>1. CollectTypeOK'
        BY <1>2 DEF CheckStop, LeaveLoop, CollectTypeOK
  <2> QED
      BY <1>2, <2>1 DEF CheckStop, LeaveLoop
<1>3. CASE GatherFail
  <2>1. CollectTypeOK'
        BY <1>3 DEF GatherFail, LeaveLoop, CollectTypeOK
  <2> QED
      BY <1>3, <2>1 DEF GatherFail, LeaveLoop
<1>4. CASE GatherRetry
  <2>1. CollectTypeOK'
        BY <1>4 DEF GatherRetry, CollectTypeOK
  <2> QED
      BY <1>4, <2>1 DEF GatherRetry
<1>5. CASE StartRun
  <2>1. CollectTypeOK'
        BY <1>5, BoundsAssumption DEF StartRun, CollectTypeOK
  <2>2. RunnerTypeOK'
        BY <1>5 DEF StartRun, RunnerTypeOK
  <2>3. (batchCh \in Seq(Batch) /\ Len(batchCh) <= BatchCap)'
        BY <1>5, EmptySeq, BoundsAssumption DEF StartRun
  <2>4. ChannelTypeOK'
        BY <1>5, <2>3, Zenon DEF StartRun, ChannelTypeOK
  <2>5. StreamTypeOK'
        BY <1>5, OutputLines, BoundsAssumption DEF StartRun, StreamTypeOK
  <2>6. ProcTypeOK'
        BY <1>5, NoBatchType DEF StartRun, ProcTypeOK
  <2> QED
      BY <1>5, <2>1, <2>2, <2>4, <2>5, <2>6 DEF StartRun
<1>6. CASE RunReturnsError
  <2>1. CollectTypeOK' /\ RunnerTypeOK'
        BY <1>6 DEF RunReturnsError, LeaveLoop, CollectTypeOK, RunnerTypeOK
  <2> QED
      BY <1>6, <2>1 DEF RunReturnsError, LeaveLoop
<1>7. CASE RunReturnsNil
  <2>1. CollectTypeOK' /\ RunnerTypeOK'
        BY <1>7 DEF RunReturnsNil, LeaveLoop, CollectTypeOK, RunnerTypeOK
  <2> QED
      BY <1>7, <2>1 DEF RunReturnsNil, LeaveLoop
<1> QED
    BY <1>1, <1>2, <1>3, <1>4, <1>5, <1>6, <1>7 DEF CollectorNext

\* The actions of RunScriptStream and the asynchronous command.
LEMMA TypeExec == TypeInv /\ ExecNext => TypeInv'
<1> SUFFICES ASSUME TypeInv, ExecNext PROVE TypeInv'
    OBVIOUS
<1> USE TypeUnchanged DEF TypeInv, TypeOK, sessionVars, streamVars, procVars, batchVars,
        printVars, collectVars, signalVars, history
<1>1. CASE PrepareFails
  <2>1. StreamTypeOK'
        BY <1>1 DEF PrepareFails, StreamTypeOK
  <2> QED
      BY <1>1, <2>1 DEF PrepareFails
<1>2. CASE Prepare
  <2>1. StreamTypeOK'
        BY <1>2 DEF Prepare, StreamTypeOK
  <2> QED
      BY <1>2, <2>1 DEF Prepare
<1>3. CASE StartPerf
  <2>1. StreamTypeOK'
        BY <1>3 DEF StartPerf, StreamTypeOK
  <2> QED
      BY <1>3, <2>1 DEF StartPerf
<1>4. CASE StartPerfFails
  <2>1. StreamTypeOK'
        BY <1>4 DEF StartPerfFails, StreamTypeOK
  <2> QED
      BY <1>4, <2>1 DEF StartPerfFails
<1>5. CASE WaitReturns
  <2>1. StreamTypeOK'
        BY <1>5 DEF WaitReturns, StreamTypeOK
  <2> QED
      BY <1>5, <2>1 DEF WaitReturns
<1> QED
    BY <1>1, <1>2, <1>3, <1>4, <1>5 DEF ExecNext

\* The scanner.
LEMMA TypeScan == TypeInv /\ ScanPipe => TypeInv'
<1> SUFFICES ASSUME TypeInv, ScanPipe PROVE TypeInv'
    OBVIOUS
<1> USE TypeUnchanged DEF TypeInv, TypeOK, sessionVars, streamVars, procVars, batchVars,
        printVars, collectVars, signalVars, history
<1>1. CASE ScanPipe
  <2>1. StreamTypeOK'
        BY <1>1, OutputLines, BoundsAssumption DEF ScanPipe, StreamTypeOK
  <2> QED
      BY <1>1, <2>1 DEF ScanPipe
<1> QED
    BY <1>1 DEF ScanPipe

\* perf and the application.
LEMMA TypePerf == TypeInv /\ PerfNext => TypeInv'
<1> SUFFICES ASSUME TypeInv, PerfNext PROVE TypeInv'
    OBVIOUS
<1> USE TypeUnchanged DEF TypeInv, TypeOK, sessionVars, streamVars, procVars, batchVars,
        printVars, collectVars, signalVars, history
<1>1. CASE EmitLine
  <2>1. StreamTypeOK'
        BY <1>1, OutputLines DEF EmitLine, StreamTypeOK
  <2> QED
      BY <1>1, <2>1 DEF EmitLine
<1>2. CASE AppWrite
  <2>1. StreamTypeOK'
        BY <1>2, BoundsAssumption DEF AppWrite, StreamTypeOK
  <2> QED
      BY <1>2, <2>1 DEF AppWrite
<1>3. CASE PerfExits
  <2>1. StreamTypeOK'
        BY <1>3 DEF PerfExits, StreamTypeOK
  <2> QED
      BY <1>3, <2>1 DEF PerfExits
<1>4. CASE PerfFails
  <2>1. StreamTypeOK'
        BY <1>4 DEF PerfFails, StreamTypeOK
  <2> QED
      BY <1>4, <2>1 DEF PerfFails
<1> QED
    BY <1>1, <1>2, <1>3, <1>4 DEF PerfNext

\* The actions of runPerf.
LEMMA TypeRunner == TypeInv /\ RunnerNext => TypeInv'
<1> SUFFICES ASSUME TypeInv, RunnerNext PROVE TypeInv'
    OBVIOUS
<1> USE TypeUnchanged DEF TypeInv, TypeOK, sessionVars, streamVars, procVars, batchVars,
        printVars, collectVars, signalVars, history
<1>1. CASE ReceiveCmd
  <2>1. RunnerTypeOK'
        BY <1>1 DEF ReceiveCmd, RunnerTypeOK
  <2>2. StreamTypeOK'
        BY <1>1 DEF ReceiveCmd, StreamTypeOK
  <2>3. ProcTypeOK'
        BY <1>1 DEF ReceiveCmd, ProcTypeOK
  <2> QED
      BY <1>1, <2>1, <2>2, <2>3 DEF ReceiveCmd
<1>2. CASE ReceivePrepareError
  <2>1. RunnerTypeOK'
        BY <1>2 DEF ReceivePrepareError, RunnerTypeOK
  <2>2. StreamTypeOK'
        BY <1>2 DEF ReceivePrepareError, StreamTypeOK
  <2> QED
      BY <1>2, <2>1, <2>2 DEF ReceivePrepareError
<1>3. CASE ReceiveLine
  <2>1. Output[received + 1] \in Nat
        BY <1>3, OutputLines DEF ReceiveLine, StreamTypeOK
  <2>2. RunnerTypeOK'
        BY <1>3, <2>1 DEF ReceiveLine, RunnerTypeOK
  <2>3. StreamTypeOK'
        BY <1>3, OutputLines DEF ReceiveLine, StreamTypeOK
  <2>4. (runner = "flush" => received > 0)'
        BY <1>3 DEF ReceiveLine, StreamTypeOK
  <2> QED
      BY <1>3, <2>1, <2>2, <2>3, <2>4 DEF ReceiveLine
<1>4. CASE FlushBatch
  <2>1. CurrentBatch \in Batch
        BY <1>4 DEF FlushBatch, CurrentBatch, Batch, RunnerTypeOK, CollectTypeOK
  <2>2. (batchCh \in Seq(Batch) /\ Len(batchCh) <= BatchCap)'
        BY <1>4, <2>1, PutBatch, BoundsAssumption DEF FlushBatch, RoomInChannel, ChannelTypeOK
  <2>3. ChannelTypeOK'
        BY <1>4, <2>2, Zenon DEF FlushBatch, ChannelTypeOK
  <2>4. Output[received] \in Nat
        BY <1>4, OutputLines DEF FlushBatch, StreamTypeOK
  <2>5. RunnerTypeOK'
        BY <1>4, <2>4 DEF FlushBatch, RunnerTypeOK
  <2> QED
      BY <1>4, <2>1, <2>2, <2>3, <2>4, <2>5 DEF FlushBatch
<1>5. CASE ReceiveExitCode
  <2>1. RunnerTypeOK'
        BY <1>5 DEF ReceiveExitCode, RunnerTypeOK
  <2>2. StreamTypeOK'
        BY <1>5 DEF ReceiveExitCode, StreamTypeOK
  <2> QED
      BY <1>5, <2>1, <2>2 DEF ReceiveExitCode
<1>6. CASE ReceiveStartError
  <2>1. RunnerTypeOK'
        BY <1>6 DEF ReceiveStartError, RunnerTypeOK
  <2>2. StreamTypeOK'
        BY <1>6 DEF ReceiveStartError, StreamTypeOK
  <2> QED
      BY <1>6, <2>1, <2>2 DEF ReceiveStartError
<1>7. CASE SendFinalBatch
  <2>1. CurrentBatch \in Batch
        BY <1>7 DEF SendFinalBatch, CurrentBatch, Batch, RunnerTypeOK, CollectTypeOK
  <2>2. (batchCh \in Seq(Batch) /\ Len(batchCh) <= BatchCap)'
        BY <1>7, <2>1, PutBatch, BoundsAssumption DEF SendFinalBatch, RoomInChannel, ChannelTypeOK
  <2>3. ChannelTypeOK'
        BY <1>7, <2>2, Zenon DEF SendFinalBatch, ChannelTypeOK
  <2>4. RunnerTypeOK'
        BY <1>7 DEF SendFinalBatch, RunnerTypeOK
  <2> QED
      BY <1>7, <2>1, <2>2, <2>3, <2>4 DEF SendFinalBatch
<1>8. CASE DropFinalBatch
  <2>1. CurrentBatch \in Batch
        BY <1>8 DEF DropFinalBatch, CurrentBatch, Batch, RunnerTypeOK, CollectTypeOK
  <2>2. RunnerTypeOK'
        BY <1>8 DEF DropFinalBatch, RunnerTypeOK
  <2>3. HistoryTypeOK'
        BY <1>8, <2>1 DEF DropFinalBatch, HistoryTypeOK
  <2> QED
      BY <1>8, <2>1, <2>2, <2>3 DEF DropFinalBatch
<1>9. CASE CloseBatchChannel
  <2>1. RunnerTypeOK'
        BY <1>9 DEF CloseBatchChannel, RunnerTypeOK
  <2>2. ChannelTypeOK'
        BY <1>9 DEF CloseBatchChannel, ChannelTypeOK
  <2> QED
      BY <1>9, <2>1, <2>2 DEF CloseBatchChannel
<1>10. CASE CancelProcessing
  <2>1. RunnerTypeOK'
        BY <1>10 DEF CancelProcessing, RunnerTypeOK
  <2>2. ChannelTypeOK'
        BY <1>10 DEF CancelProcessing, ChannelTypeOK
  <2> QED
      BY <1>10, <2>1, <2>2 DEF CancelProcessing
<1>11. CASE ProcessingDone
  <2>1. RunnerTypeOK'
        BY <1>11 DEF ProcessingDone, RunnerTypeOK
  <2> QED
      BY <1>11, <2>1 DEF ProcessingDone
<1> QED
    BY <1>1, <1>2, <1>3, <1>4, <1>5, <1>6, <1>7, <1>8, <1>9, <1>10, <1>11 DEF RunnerNext

\* The actions of processPerfOutput.
LEMMA TypeProc == TypeInv /\ ProcNext => TypeInv'
<1> SUFFICES ASSUME TypeInv, ProcNext PROVE TypeInv'
    OBVIOUS
<1> USE TypeUnchanged DEF TypeInv, TypeOK, sessionVars, streamVars, procVars, batchVars,
        printVars, collectVars, signalVars, history
<1>1. CASE ProcessBatch
  <2>1. batchCh # <<>> /\ batchCh \in Seq(Batch)
        BY <1>1 DEF ProcessBatch, ChannelTypeOK
  <2>2. Head(batchCh) \in Batch /\ (batchCh \in Seq(Batch) /\ Len(batchCh) <= BatchCap)'
        BY <1>1, <2>1, TakeBatch, BoundsAssumption DEF ProcessBatch, ChannelTypeOK
  <2>3. ChannelTypeOK'
        BY <1>1, <2>2, Zenon DEF ProcessBatch, ChannelTypeOK
  <2>4. ProcTypeOK'
        BY <1>1, <2>2 DEF ProcessBatch, ProcTypeOK
  <2> QED
      BY <1>1, <2>1, <2>2, <2>3, <2>4 DEF ProcessBatch
<1>2. CASE ProcessBatchFails
  <2>1. batchCh # <<>> /\ batchCh \in Seq(Batch)
        BY <1>2 DEF ProcessBatchFails, ChannelTypeOK
  <2>2. Head(batchCh) \in Batch /\ (batchCh \in Seq(Batch) /\ Len(batchCh) <= BatchCap)'
        BY <1>2, <2>1, TakeBatch, BoundsAssumption DEF ProcessBatchFails, ChannelTypeOK
  <2>3. ChannelTypeOK'
        BY <1>2, <2>2, Zenon DEF ProcessBatchFails, ChannelTypeOK
  <2>4. ProcTypeOK'
        BY <1>2 DEF ProcessBatchFails, ProcTypeOK
  <2>5. SignalTypeOK'
        BY <1>2, Zenon DEF ProcessBatchFails, SignalTypeOK
  <2>6. HistoryTypeOK'
        BY <1>2, <2>2 DEF ProcessBatchFails, HistoryTypeOK
  <2> QED
      BY <1>2, <2>1, <2>2, <2>3, <2>4, <2>5, <2>6 DEF ProcessBatchFails
<1>3. CASE SendFrame
  <2>1. ProcTypeOK'
        BY <1>3, NoBatchType DEF SendFrame, ProcTypeOK
  <2>2. PrintTypeOK'
        BY <1>3 DEF SendFrame, ProcTypeOK, PrintTypeOK
  <2> QED
      BY <1>3, <2>1, <2>2 DEF SendFrame
<1>4. CASE CheckTimeout
  <2>1. ProcTypeOK'
        BY <1>4 DEF CheckTimeout, ProcTypeOK
  <2>2. SignalTypeOK'
        BY <1>4, Zenon DEF CheckTimeout, SignalTypeOK
  <2> QED
      BY <1>4, <2>1, <2>2 DEF CheckTimeout
<1>5. CASE StopProcessing
  <2>1. ProcTypeOK'
        BY <1>5 DEF StopProcessing, ProcTypeOK
  <2> QED
      BY <1>5, <2>1 DEF StopProcessing
<1>6. CASE DrainSend
  <2>1. batchCh # <<>> /\ batchCh \in Seq(Batch)
        BY <1>6 DEF DrainSend, ChannelTypeOK
  <2>2. Head(batchCh) \in Batch /\ (batchCh \in Seq(Batch) /\ Len(batchCh) <= BatchCap)'
        BY <1>6, <2>1, TakeBatch, BoundsAssumption DEF DrainSend, ChannelTypeOK
  <2>3. ChannelTypeOK'
        BY <1>6, <2>2, Zenon DEF DrainSend, ChannelTypeOK
  <2>4. PrintTypeOK'
        BY <1>6, <2>2 DEF DrainSend, PrintTypeOK
  <2> QED
      BY <1>6, <2>1, <2>2, <2>3, <2>4 DEF DrainSend
<1>7. CASE DrainDrop
  <2>1. batchCh # <<>> /\ batchCh \in Seq(Batch)
        BY <1>7 DEF DrainDrop, ChannelTypeOK
  <2>2. Head(batchCh) \in Batch /\ (batchCh \in Seq(Batch) /\ Len(batchCh) <= BatchCap)'
        BY <1>7, <2>1, TakeBatch, BoundsAssumption DEF DrainDrop, ChannelTypeOK
  <2>3. ChannelTypeOK'
        BY <1>7, <2>2, Zenon DEF DrainDrop, ChannelTypeOK
  <2>4. HistoryTypeOK'
        BY <1>7, <2>2 DEF DrainDrop, HistoryTypeOK
  <2> QED
      BY <1>7, <2>1, <2>2, <2>3, <2>4 DEF DrainDrop
<1>8. CASE DrainFails
  <2>1. batchCh # <<>> /\ batchCh \in Seq(Batch)
        BY <1>8 DEF DrainFails, ChannelTypeOK
  <2>2. Head(batchCh) \in Batch /\ (batchCh \in Seq(Batch) /\ Len(batchCh) <= BatchCap)'
        BY <1>8, <2>1, TakeBatch, BoundsAssumption DEF DrainFails, ChannelTypeOK
  <2>3. ChannelTypeOK'
        BY <1>8, <2>2, Zenon DEF DrainFails, ChannelTypeOK
  <2>4. HistoryTypeOK'
        BY <1>8, <2>2 DEF DrainFails, HistoryTypeOK
  <2> QED
      BY <1>8, <2>1, <2>2, <2>3, <2>4 DEF DrainFails
<1>9. CASE Drained
  <2>1. ProcTypeOK'
        BY <1>9 DEF Drained, ProcTypeOK
  <2> QED
      BY <1>9, <2>1 DEF Drained
<1> QED
    BY <1>1, <1>2, <1>3, <1>4, <1>5, <1>6, <1>7, <1>8, <1>9 DEF ProcNext

\* The actions of printMetricsAsync.
LEMMA TypePrinter == TypeInv /\ PrinterNext => TypeInv'
<1> SUFFICES ASSUME TypeInv, PrinterNext PROVE TypeInv'
    OBVIOUS
<1> USE TypeUnchanged DEF TypeInv, TypeOK, sessionVars, streamVars, procVars, batchVars,
        printVars, collectVars, signalVars, history
<1>1. CASE PrintFrame
  <2>1. printed' \in Seq(Batch)
        BY <1>1, PutBatch DEF PrintFrame, PrintTypeOK
  <2>2. PrintTypeOK'
        BY <1>1, <2>1, NoBatchType DEF PrintFrame, PrintTypeOK
  <2> QED
      BY <1>1, <2>1, <2>2 DEF PrintFrame
<1>2. CASE FramesClosed
  <2>1. PrintTypeOK'
        BY <1>2 DEF FramesClosed, PrintTypeOK
  <2> QED
      BY <1>2, <2>1 DEF FramesClosed
<1>3. CASE PrintComplete
  <2>1. PrintTypeOK'
        BY <1>3 DEF PrintComplete, PrintTypeOK
  <2>2. CollectTypeOK'
        BY <1>3 DEF PrintComplete, CollectTypeOK
  <2> QED
      BY <1>3, <2>1, <2>2 DEF PrintComplete
<1> QED
    BY <1>1, <1>2, <1>3 DEF PrinterNext

\* The actions of handleSignals.
LEMMA TypeHandler == TypeInv /\ HandlerNext => TypeInv'
<1> SUFFICES ASSUME TypeInv, HandlerNext PROVE TypeInv'
    OBVIOUS
<1> USE TypeUnchanged DEF TypeInv, TypeOK, sessionVars, streamVars, procVars, batchVars,
        printVars, collectVars, signalVars, history
<1>1. CASE HandlerWakes
  <2>1. SignalTypeOK'
        BY <1>1, Zenon DEF HandlerWakes, SignalTypeOK
  <2> QED
      BY <1>1, <2>1 DEF HandlerWakes
<1>2. CASE KillChildren
  <2>1. StreamTypeOK'
        BY <1>2 DEF KillChildren, StreamTypeOK
  <2>2. SignalTypeOK'
        BY <1>2 DEF KillChildren, SignalTypeOK
  <2> QED
      BY <1>2, <2>1, <2>2 DEF KillChildren
<1> QED
    BY <1>1, <1>2 DEF HandlerNext

\* Every variable of the pipeline keeps its type, whatever perf prints and
\* however the goroutines are scheduled.
THEOREM TypeCorrect == Spec => []TypeInv
<1>1. TypeInv /\ Interrupt => TypeInv'
  <2> SUFFICES ASSUME TypeInv, Interrupt PROVE TypeInv'
      OBVIOUS
  <2> USE TypeUnchanged DEF TypeInv, TypeOK, sessionVars, streamVars, procVars, batchVars,
          collectVars, history
  <2>1. SignalTypeOK'
        BY Zenon DEF Interrupt, SignalTypeOK
  <2> QED
      BY <2>1 DEF Interrupt
<1>2. TypeInv /\ UNCHANGED vars => TypeInv'
      BY TypeUnchanged DEF TypeInv, TypeOK, vars, sessionVars, streamVars, procVars,
         printVars, collectVars, signalVars, history
<1>3. TypeInv /\ [Next]_vars => TypeInv'
      BY <1>1, <1>2, TypeCollector, TypeExec, TypeScan, TypePerf, TypeRunner, TypeProc,
         TypePrinter, TypeHandler DEF Next, Returned
<1> QED
    BY <1>3, TypeInit, PTL DEF Spec

\* TypeOK holds in every reachable state.
THEOREM TypeOKHolds == Spec => []TypeOK
<1>1. TypeInv => TypeOK
      BY DEF TypeInv
<1> QED
    BY <1>1, TypeCorrect, PTL

----------------------------------------------------------------------------
(* The order of the intervals.                                             *)

\* The batches held by the pipeline are batches.
LEMMA HeldBatches ==
    ASSUME TypeInv
    PROVE  /\ page \in Batch /\ frame \in Batch
           /\ printed \in Seq(Batch) /\ batchCh \in Seq(Batch)
           /\ \A i \in 1..Len(printed) : printed[i] \in Batch
           /\ \A k \in 1..Len(batchCh) : batchCh[k] \in Batch
           /\ session \in Nat /\ curInterval \in Int
           /\ received \in Nat /\ received <= Len(Output)
<1>1. page \in Batch /\ frame \in Batch /\ printed \in Seq(Batch) /\ batchCh \in Seq(Batch)
      BY DEF TypeInv, TypeOK, PrintTypeOK, ProcTypeOK, ChannelTypeOK
<1>2. session \in Nat
      BY BoundsAssumption DEF TypeInv, TypeOK, CollectTypeOK
<1>3. curInterval \in Int
      BY DEF TypeInv, TypeOK, RunnerTypeOK
<1>4. received \in Nat /\ received <= Len(Output)
      BY OutputLines DEF TypeInv, TypeOK, StreamTypeOK
<1> QED
    BY <1>1, <1>2, <1>3, <1>4

\* A sealed batch comes before the current one.
LEMMA SealedBeforeCurrent ==
    ASSUME NEW b \in Batch, Sealed(b), session \in Nat, curInterval \in Int,
           runner \in {"flush", "final"}
    PROVE  Before(b, CurrentBatch)
BY DEF Sealed, Before, CurrentBatch, Batch

LEMMA OrderInit == Init => OrderInv
BY EmptySeq DEF Init, OrderInv, PrintedInOrder, PageInOrder, FrameInOrder, ChannelInOrder,
   AllSealed, LinesAhead

\* A step that moves no batch keeps the order, if it starts no new batch.
LEMMA OrderKept ==
    ASSUME OrderInv,
           UNCHANGED <<printed, page, frame, batchCh, session, curInterval, received>>,
           printer' = "print" => printer = "print",
           proc' = "send" => proc = "send",
           \/ runner' = runner
           \/ runner = "start" /\ runner' = "select"
           \/ runner = "select" /\ runner' = "final"
           \/ runner' \notin {"start", "select", "flush", "final"}
    PROVE  OrderInv'
<1> USE DEF OrderInv
<1>1. PrintedInOrder'
      BY DEF PrintedInOrder, Before
<1>2. PageInOrder'
      BY DEF PageInOrder, AfterPrinted, Before
<1>3. FrameInOrder'
      BY DEF FrameInOrder, AfterPrinted, Before
<1>4. ChannelInOrder'
      BY DEF ChannelInOrder, AfterTaken, AfterPrinted, Before
<1>5. AllSealed'
      BY DEF AllSealed, Sealed
<1>6. LinesAhead'
      BY DEF LinesAhead
<1> QED
    BY <1>1, <1>2, <1>3, <1>4, <1>5, <1>6

\* A batch leaves the channel and nothing else is moved: what is behind it
\* stays in order.
LEMMA ChannelShrinks ==
    ASSUME TypeInv, ChannelInOrder, AllSealed, batchCh # <<>>, batchCh' = Tail(batchCh)
    PROVE  /\ Head(batchCh) \in Batch /\ AfterTaken(Head(batchCh)) /\ Sealed(Head(batchCh))
           /\ Len(batchCh') \in Nat
           /\ \A k \in 1..Len(batchCh') : /\ AfterTaken(batchCh'[k])
                                          /\ Sealed(batchCh'[k])
                                          /\ Before(Head(batchCh), batchCh'[k])
           /\ \A j, k \in 1..Len(batchCh') : j < k => Before(batchCh'[j], batchCh'[k])
<1> DEFINE s == batchCh
<1>1. s \in Seq(Batch) /\ s # <<>>
      BY HeldBatches
<1>2. /\ Head(s) \in Batch /\ Len(s) \in Nat /\ Len(s) > 0 /\ Head(s) = s[1]
      /\ Tail(s) \in Seq(Batch) /\ Len(Tail(s)) = Len(s) - 1
      /\ \A i \in 1..Len(Tail(s)) : Tail(s)[i] = s[i + 1]
      BY <1>1, TakeBatch
<1>3. 1 \in 1..Len(s) /\ \A k \in 1..Len(Tail(s)) : k + 1 \in 1..Len(s)
      BY <1>2
<1>4. AfterTaken(Head(s)) /\ Sealed(Head(s))
      BY <1>2, <1>3 DEF ChannelInOrder, AllSealed
<1>5. \A k \in 1..Len(Tail(s)) : /\ AfterTaken(Tail(s)[k]) /\ Sealed(Tail(s)[k])
                                 /\ Before(Head(s), Tail(s)[k])
      BY <1>2, <1>3 DEF ChannelInOrder, AllSealed
<1>6. ASSUME NEW j \in 1..Len(Tail(s)), NEW k \in 1..Len(Tail(s)), j < k
      PROVE  Before(Tail(s)[j], Tail(s)[k])
  <2>1. j + 1 \in 1..Len(s) /\ k + 1 \in 1..Len(s) /\ j + 1 < k + 1
        BY <1>3, <1>6, <1>2
  <2> QED
      BY <1>2, <2>1 DEF ChannelInOrder
<1> QED
    BY <1>2, <1>4, <1>5, <1>6

\* StartRun begins a new session, and every batch is of an earlier one.
LEMMA OrderStartRun == TypeInv /\ OrderInv /\ StartRun => OrderInv'
<1> SUFFICES ASSUME TypeInv, OrderInv, StartRun PROVE OrderInv'
    OBVIOUS
<1> USE HeldBatches DEF OrderInv, StartRun, printVars
<1>1. PrintedInOrder' /\ PageInOrder'
      BY DEF PrintedInOrder, PageInOrder, AfterPrinted, Before
<1>2. FrameInOrder'
      BY DEF FrameInOrder
<1>3. Len(batchCh') = 0
      OBVIOUS
<1>4. ChannelInOrder'
      BY <1>3 DEF ChannelInOrder
<1>5. \A b \in Batch : Sealed(b) => Sealed(b)'
  <2>1. session' = session + 1
        OBVIOUS
  <2>2. \A b \in Batch : b.session <= session => b.session <= session' /\ b.session # session'
        BY <2>1 DEF Batch
  <2> QED
        BY ONLY <2>2 DEF Sealed
<1>6. AllSealed'
      BY <1>3, <1>5 DEF AllSealed
<1>7. LinesAhead'
      BY OutputLines DEF LinesAhead
<1> QED
    BY <1>1, <1>2, <1>4, <1>6, <1>7

\* ReceiveLine makes a later interval the current one, or finds it later.
LEMMA OrderReceiveLine == TypeInv /\ OrderInv /\ ReceiveLine => OrderInv'
<1> SUFFICES ASSUME TypeInv, OrderInv, ReceiveLine PROVE OrderInv'
    OBVIOUS
<1> DEFINE i == Output[received + 1]
<1> USE HeldBatches DEF OrderInv
<1>1. received + 1 \in 1..Len(Output) /\ i \in Nat /\ received' = received + 1
      BY OutputLines DEF ReceiveLine, TypeInv, TypeOK, StreamTypeOK
<1>2. i > 0 => curInterval <= i
      BY <1>1, OutputLines DEF ReceiveLine, LinesAhead
<1>3. \A n \in (received + 2)..Len(Output) : i > 0 /\ Output[n] > 0 => i <= Output[n]
  <2> SUFFICES ASSUME NEW n \in (received + 2)..Len(Output), i > 0, Output[n] > 0
               PROVE  i <= Output[n]
      OBVIOUS
  <2>1. n \in 1..Len(Output) /\ received + 1 <= n
        BY OutputLines
  <2> QED
      BY <1>1, <2>1, OutputAssumption
<1>4. \/ runner' = "select" /\ curInterval' = curInterval
      \/ runner' = "flush" /\ curInterval' = curInterval /\ i > 0 /\ i # curInterval
      \/ runner' = "select" /\ curInterval' = i /\ i > 0
      BY DEF ReceiveLine, CompletesBatch
<1>5. LinesAhead'
  <2>1. \A n \in (received + 2)..Len(Output) : n \in (received + 1)..Len(Output)
        BY OutputLines
  <2>2. CASE runner' = "select" /\ curInterval' = curInterval
        BY <1>1, <2>1, <2>2 DEF LinesAhead, ReceiveLine
  <2>3. CASE runner' = "flush" /\ curInterval' = curInterval /\ i > 0 /\ i # curInterval
        BY <1>1, <1>2, <2>3 DEF LinesAhead, ReceiveLine
  <2>4. CASE runner' = "select" /\ curInterval' = i /\ i > 0
        BY <1>1, <1>3, <2>4 DEF LinesAhead
  <2> QED
      BY <1>4, <2>2, <2>3, <2>4
<1>6. \A b \in Batch : Sealed(b) => Sealed(b)'
  <2>1. session' = session /\ runner = "select" /\ curInterval' \in Int /\ curInterval <= curInterval'
        BY <1>1, <1>2, <1>4 DEF ReceiveLine, collectVars
  <2>2. \A b \in Batch : b.interval \in Int /\ (b.interval < curInterval => b.interval < curInterval')
        BY <2>1 DEF Batch
  <2> QED
        BY <2>1, <2>2 DEF Sealed
<1>7. AllSealed'
      BY <1>6 DEF AllSealed, ReceiveLine, procVars, printVars
<1>8. PrintedInOrder' /\ PageInOrder' /\ FrameInOrder' /\ ChannelInOrder'
      BY DEF ReceiveLine, procVars, printVars, PrintedInOrder, PageInOrder, FrameInOrder,
             ChannelInOrder, AfterTaken, AfterPrinted, Before
<1> QED
    BY <1>5, <1>7, <1>8

\* The runner sends its batch: it is after every batch sent before.
LEMMA OrderSend ==
    ASSUME TypeInv, OrderInv, runner \in {"flush", "final"}, CurrentBatch \in Batch,
           batchCh' = Append(batchCh, CurrentBatch),
           UNCHANGED <<session, procVars, printVars>>
    PROVE  PrintedInOrder' /\ PageInOrder' /\ FrameInOrder' /\ ChannelInOrder'
<1> USE HeldBatches, SealedBeforeCurrent DEF OrderInv, procVars, printVars
<1>1. PrintedInOrder' /\ PageInOrder' /\ FrameInOrder'
      BY DEF PrintedInOrder, PageInOrder, FrameInOrder, AfterPrinted, Before
<1>2. AfterTaken(CurrentBatch)
      BY DEF AllSealed, AfterTaken, AfterPrinted
<1>3. \A k \in 1..Len(batchCh) : Before(batchCh[k], CurrentBatch)
      BY DEF AllSealed
<1>5. /\ Len(batchCh) \in Nat /\ Len(batchCh') = Len(batchCh) + 1
      /\ \A k \in 1..Len(batchCh) : batchCh'[k] = batchCh[k]
      /\ batchCh'[Len(batchCh) + 1] = CurrentBatch
      BY PutBatch
<1>6. \A k \in 1..Len(batchCh') : k \in 1..Len(batchCh) \/ k = Len(batchCh) + 1
      BY <1>5
<1>7. \A k \in 1..Len(batchCh') : AfterTaken(batchCh[k])'
  <2> SUFFICES ASSUME NEW k \in 1..Len(batchCh') PROVE AfterTaken(batchCh[k])'
      OBVIOUS
  <2>1. AfterTaken(batchCh'[k])
        BY <1>2, <1>5, <1>6 DEF ChannelInOrder
  <2> QED
      BY <2>1 DEF AfterTaken, AfterPrinted, Before
<1>8. ASSUME NEW j \in 1..Len(batchCh'), NEW k \in 1..Len(batchCh'), j < k
      PROVE  Before(batchCh'[j], batchCh'[k])
  <2>1. j \in 1..Len(batchCh)
        BY <1>5, <1>6, <1>8
  <2> QED
      BY <1>3, <1>5, <1>6, <1>8, <2>1 DEF ChannelInOrder
<1>9. ChannelInOrder'
      BY <1>7, <1>8 DEF ChannelInOrder, Before
<1> QED
    BY <1>1, <1>9

\* What was sealed stays sealed while the runner sends its batch.
LEMMA SealedSend ==
    ASSUME TypeInv, OrderInv, CurrentBatch \in Batch,
           batchCh' = Append(batchCh, CurrentBatch),
           UNCHANGED <<session, procVars, printVars>>,
           \A b \in Batch : Sealed(b) \/ b = CurrentBatch => Sealed(b)'
    PROVE  AllSealed'
<1>1. /\ Len(batchCh) \in Nat /\ Len(batchCh') = Len(batchCh) + 1
      /\ \A k \in 1..Len(batchCh) : batchCh'[k] = batchCh[k]
      /\ batchCh'[Len(batchCh) + 1] = CurrentBatch
      BY PutBatch, HeldBatches
<1>2. \A k \in 1..Len(batchCh') : Sealed(batchCh[k])'
  <2> SUFFICES ASSUME NEW k \in 1..Len(batchCh') PROVE Sealed(batchCh[k])'
      OBVIOUS
  <2>1. k \in 1..Len(batchCh) \/ k = Len(batchCh) + 1
        BY <1>1
  <2>2. batchCh'[k] \in Batch /\ (Sealed(batchCh'[k]) \/ batchCh'[k] = CurrentBatch)
        BY <1>1, <2>1, HeldBatches DEF OrderInv, AllSealed
  <2> QED
      BY <2>2 DEF Sealed
<1> QED
    BY <1>2, HeldBatches DEF OrderInv, AllSealed, procVars, printVars

LEMMA OrderFlushBatch == TypeInv /\ OrderInv /\ FlushBatch => OrderInv'
<1> SUFFICES ASSUME TypeInv, OrderInv, FlushBatch PROVE OrderInv'
    OBVIOUS
<1> USE HeldBatches
<1>1. CurrentBatch \in Batch
      BY DEF CurrentBatch, Batch, TypeInv, TypeOK, RunnerTypeOK, CollectTypeOK
<1>2. PrintedInOrder' /\ PageInOrder' /\ FrameInOrder' /\ ChannelInOrder'
      BY <1>1, OrderSend DEF FlushBatch, collectVars
<1>3. /\ received > 0 /\ 0 < Output[received] /\ curInterval < Output[received]
      /\ received \in 1..Len(Output) /\ Output[received] \in Nat
      BY OutputLines DEF OrderInv, LinesAhead, FlushBatch
<1>4. \A b \in Batch : Sealed(b) \/ b = CurrentBatch => Sealed(b)'
  <2>1. /\ session' = session /\ runner = "flush" /\ runner' = "select"
        /\ curInterval' \in Int /\ curInterval < curInterval'
        BY <1>3 DEF FlushBatch, collectVars
  <2>2. \A b \in Batch : b.interval < curInterval => b.interval < curInterval'
        BY <2>1 DEF Batch
  <2>3. CurrentBatch.session = session /\ CurrentBatch.interval = curInterval
        BY DEF CurrentBatch
  <2> QED
        BY <2>1, <2>2, <2>3 DEF Sealed
<1>5. AllSealed'
      BY <1>1, <1>4, SealedSend DEF FlushBatch, collectVars
<1>6. LinesAhead'
  <2> SUFFICES ASSUME NEW n \in (received + 1)..Len(Output), Output[n] > 0
               PROVE  Output[received] <= Output[n]
      BY DEF LinesAhead, FlushBatch, streamVars
  <2>1. n \in 1..Len(Output) /\ received <= n
        BY OutputLines
  <2> QED
      BY <1>3, <2>1, OutputAssumption
<1> QED
    BY <1>2, <1>5, <1>6 DEF OrderInv

LEMMA OrderSendFinalBatch == TypeInv /\ OrderInv /\ SendFinalBatch => OrderInv'
<1> SUFFICES ASSUME TypeInv, OrderInv, SendFinalBatch PROVE OrderInv'
    OBVIOUS
<1> USE HeldBatches
<1>1. CurrentBatch \in Batch
      BY DEF CurrentBatch, Batch, TypeInv, TypeOK, RunnerTypeOK, CollectTypeOK
<1>2. PrintedInOrder' /\ PageInOrder' /\ FrameInOrder' /\ ChannelInOrder'
      BY <1>1, OrderSend DEF SendFinalBatch, collectVars
<1>3. \A b \in Batch : Sealed(b) \/ b = CurrentBatch => Sealed(b)'
      BY DEF SendFinalBatch, Sealed, CurrentBatch, Batch, collectVars
<1>4. AllSealed'
      BY <1>1, <1>3, SealedSend DEF SendFinalBatch, collectVars
<1>5. LinesAhead'
      BY DEF LinesAhead, SendFinalBatch
<1> QED
    BY <1>2, <1>4, <1>5 DEF OrderInv

\* The processor takes the first batch of the channel.
LEMMA OrderProcessBatch == TypeInv /\ OrderInv /\ ProcessBatch => OrderInv'
<1> SUFFICES ASSUME TypeInv, OrderInv, ProcessBatch PROVE OrderInv'
    OBVIOUS
<1> USE HeldBatches, ChannelShrinks DEF OrderInv, ProcessBatch, printVars, collectVars, streamVars
<1>1. PrintedInOrder' /\ PageInOrder' /\ LinesAhead'
      BY DEF PrintedInOrder, PageInOrder, LinesAhead, AfterPrinted, Before
<1>2. FrameInOrder'
      BY DEF FrameInOrder, AfterTaken, AfterPrinted, Before
<1>3. ChannelInOrder'
      BY DEF ChannelInOrder, AfterTaken, AfterPrinted, Before
<1>4. AllSealed'
      BY DEF AllSealed, Sealed
<1> QED
    BY <1>1, <1>2, <1>3, <1>4

\* A batch is taken from the channel and given up.
LEMMA OrderDrop ==
    ASSUME TypeInv, OrderInv, batchCh # <<>>, batchCh' = Tail(batchCh),
           UNCHANGED <<session, runner, curInterval, received, frame, printVars>>,
           proc' # "send"
    PROVE  OrderInv'
<1> USE HeldBatches, ChannelShrinks DEF OrderInv, printVars
<1>1. PrintedInOrder' /\ PageInOrder' /\ LinesAhead' /\ FrameInOrder'
      BY DEF PrintedInOrder, PageInOrder, LinesAhead, FrameInOrder, AfterPrinted, Before
<1>2. ChannelInOrder'
      BY DEF ChannelInOrder, AfterTaken, AfterPrinted, Before
<1>3. AllSealed'
      BY DEF AllSealed, Sealed
<1> QED
    BY <1>1, <1>2, <1>3

\* The processor hands its frames to the printer.
LEMMA OrderSendFrame == TypeInv /\ OrderInv /\ SendFrame => OrderInv'
<1> SUFFICES ASSUME TypeInv, OrderInv, SendFrame PROVE OrderInv'
    OBVIOUS
<1> USE HeldBatches DEF OrderInv, SendFrame, batchVars, collectVars, streamVars
<1>1. PrintedInOrder' /\ PageInOrder' /\ LinesAhead' /\ FrameInOrder'
      BY DEF PrintedInOrder, PageInOrder, LinesAhead, FrameInOrder, AfterPrinted, Before
<1>2. ChannelInOrder'
      BY DEF ChannelInOrder, AfterTaken, AfterPrinted, Before
<1>3. AllSealed'
      BY DEF AllSealed, Sealed
<1> QED
    BY <1>1, <1>2, <1>3

\* The draining processor hands the first batch of the channel to the printer.
LEMMA OrderDrainSend == TypeInv /\ OrderInv /\ DrainSend => OrderInv'
<1> SUFFICES ASSUME TypeInv, OrderInv, DrainSend PROVE OrderInv'
    OBVIOUS
<1> USE HeldBatches, ChannelShrinks
        DEF OrderInv, DrainSend, procVars, collectVars, streamVars
<1>1. PrintedInOrder' /\ LinesAhead' /\ FrameInOrder'
      BY DEF PrintedInOrder, LinesAhead, FrameInOrder, Before
<1>2. PageInOrder'
      BY DEF PageInOrder, AfterTaken, AfterPrinted, Before
<1>3. ChannelInOrder'
      BY DEF ChannelInOrder, AfterTaken, AfterPrinted, Before
<1>4. AllSealed'
      BY DEF AllSealed, Sealed
<1> QED
    BY <1>1, <1>2, <1>3, <1>4

\* The printer prints its page: it becomes the last of the frames printed.
LEMMA OrderPrintFrame == TypeInv /\ OrderInv /\ PrintFrame => OrderInv'
<1> SUFFICES ASSUME TypeInv, OrderInv, PrintFrame PROVE OrderInv'
    OBVIOUS
<1> USE HeldBatches DEF OrderInv, PrintFrame, sessionVars, collectVars
<1>1. /\ Len(printed) \in Nat /\ Len(printed') = Len(printed) + 1
      /\ \A k \in 1..Len(printed) : printed'[k] = printed[k]
      /\ printed'[Len(printed) + 1] = page
      BY PutBatch
<1>2. \A k \in 1..Len(printed') : k \in 1..Len(printed) \/ k = Len(printed) + 1
      BY <1>1
<1>3. ASSUME NEW j \in 1..Len(printed'), NEW k \in 1..Len(printed'), j < k
      PROVE  Before(printed'[j], printed'[k])
  <2>1. j \in 1..Len(printed)
        BY <1>1, <1>2, <1>3
  <2> QED
      BY <1>1, <1>2, <1>3, <2>1 DEF PrintedInOrder, PageInOrder, AfterPrinted
<1>4. PrintedInOrder'
      BY <1>3 DEF PrintedInOrder, Before
<1>5. PageInOrder' /\ LinesAhead'
      BY DEF PageInOrder, LinesAhead, streamVars
<1>6. \A b : AfterPrinted(b) /\ Before(page, b)
                => \A k \in 1..Len(printed') : Before(printed'[k], b)
      BY <1>1, <1>2 DEF AfterPrinted
<1>7. FrameInOrder'
      BY <1>6 DEF FrameInOrder, AfterPrinted, Before, procVars
<1>8. ChannelInOrder'
      BY <1>6 DEF ChannelInOrder, AfterTaken, AfterPrinted, Before, batchVars, procVars
<1>9. AllSealed'
      BY <1>1, <1>2 DEF AllSealed, Sealed
<1> QED
    BY <1>4, <1>5, <1>7, <1>8, <1>9

\* Every step keeps the order.
LEMMA OrderStep == TypeInv /\ OrderInv /\ [Next]_vars => OrderInv'
<1> SUFFICES ASSUME TypeInv, OrderInv, [Next]_vars PROVE OrderInv'
    OBVIOUS
<1> USE DEF streamVars, batchVars, procVars, printVars, collectVars
<1>1. CASE CollectorNext
  <2>1. CASE CheckContinue \/ CheckStop \/ GatherFail \/ GatherRetry
        BY <2>1, OrderKept
           DEF CheckContinue, CheckStop, GatherFail, GatherRetry, sessionVars, LeaveLoop
  <2>2. CASE RunReturnsError \/ RunReturnsNil
        BY <2>2, OrderKept DEF RunReturnsError, RunReturnsNil, LeaveLoop
  <2> QED
      BY <1>1, <2>1, <2>2, OrderStartRun DEF CollectorNext
<1>2. CASE ExecNext \/ ScanPipe \/ PerfNext
      BY <1>2, OrderKept DEF ExecNext, PrepareFails, Prepare, StartPerf, StartPerfFails,
         WaitReturns, ScanPipe, PerfNext, EmitLine, AppWrite, PerfExits, PerfFails
<1>3. CASE RunnerNext
  <2>1. CASE ReceiveCmd \/ ReceivePrepareError
        BY <2>1, OrderKept DEF ReceiveCmd, ReceivePrepareError
  <2>2. CASE ReceiveExitCode \/ ReceiveStartError \/ DropFinalBatch
        BY <2>2, OrderKept DEF ReceiveExitCode, ReceiveStartError, DropFinalBatch
  <2>3. CASE CloseBatchChannel \/ CancelProcessing \/ ProcessingDone
        BY <2>3, OrderKept DEF CloseBatchChannel, CancelProcessing, ProcessingDone
  <2> QED
      BY <1>3, <2>1, <2>2, <2>3, OrderReceiveLine, OrderFlushBatch, OrderSendFinalBatch
         DEF RunnerNext
<1>4. CASE ProcNext
  <2>1. CASE CheckTimeout \/ StopProcessing \/ Drained
        BY <2>1, OrderKept DEF CheckTimeout, StopProcessing, Drained
  <2>2. CASE ProcessBatchFails
        BY <2>2, OrderDrop DEF ProcessBatchFails
  <2>3. CASE DrainDrop \/ DrainFails
        BY <2>3, OrderDrop DEF DrainDrop, DrainFails
  <2> QED
      BY <1>4, <2>1, <2>2, <2>3, OrderProcessBatch, OrderSendFrame, OrderDrainSend DEF ProcNext
<1>5. CASE PrinterNext
  <2>1. CASE FramesClosed \/ PrintComplete
        BY <2>1, OrderKept DEF FramesClosed, PrintComplete, sessionVars
  <2> QED
      BY <1>5, <2>1, OrderPrintFrame DEF PrinterNext
<1>6. CASE Interrupt \/ HandlerNext
      BY <1>6, OrderKept DEF Interrupt, HandlerNext, HandlerWakes, KillChildren, sessionVars
<1>7. CASE UNCHANGED vars
      BY <1>7, OrderKept DEF vars, sessionVars
<1> QED
    BY <1>1, <1>2, <1>3, <1>4, <1>5, <1>6, <1>7 DEF Next, Returned

\* The intervals are in order along the whole pipeline, from the line perf
\* prints next to the frame printed first.
THEOREM OrderHolds == Spec => []OrderInv
<1>1. TypeInv /\ OrderInv /\ [Next]_vars => OrderInv'
      BY OrderStep
<1> QED
    BY <1>1, OrderInit, TypeCorrect, PTL DEF Spec

\* Frames are printed in the order perf measured them, none twice: whatever
\* perf prints, whatever the capacities, however often the list of processes
\* is refreshed, and whenever the pipeline is stopped.
THEOREM FramesPrintedInOrder == Spec => []PrintedInOrder
<1>1. OrderInv => PrintedInOrder
      BY DEF OrderInv
<1> QED
    BY <1>1, OrderHolds, PTL

----------------------------------------------------------------------------
(* The shutdown order.                                                     *)

(* ProcessorStopsFirst is not inductive: the processor is only started by  *)
(* ReceiveCmd, and runPerf only returns without an error once it is done.  *)
StopInv ==
    /\ ProcessorStopsFirst
    /\ runner \in {"start", "sendErr"} => proc \in {"idle", "done"}
    /\ runner = "sendNil" => proc \in {"idle", "done"}

LEMMA StopStep == StopInv /\ [Next]_vars => StopInv'
<1> SUFFICES ASSUME StopInv, [Next]_vars PROVE StopInv'
    OBVIOUS
<1> USE DEF StopInv, ProcessorStopsFirst, sessionVars, streamVars, batchVars, procVars,
        printVars, collectVars, LeaveLoop
<1>1. CASE CollectorNext
      BY <1>1 DEF CollectorNext, CheckContinue, CheckStop, GatherFail, GatherRetry,
         StartRun, RunReturnsError, RunReturnsNil
<1>2. CASE ExecNext
      BY <1>2 DEF ExecNext, PrepareFails, Prepare, StartPerf, StartPerfFails,
         WaitReturns
<1>3. CASE ScanPipe
      BY <1>3 DEF ScanPipe
<1>4. CASE PerfNext
      BY <1>4 DEF PerfNext, EmitLine, AppWrite, PerfExits, PerfFails
<1>5. CASE RunnerNext
      BY <1>5 DEF RunnerNext, ReceiveCmd, ReceivePrepareError, ReceiveLine,
         FlushBatch, ReceiveExitCode, ReceiveStartError, SendFinalBatch, DropFinalBatch,
         CloseBatchChannel, CancelProcessing, ProcessingDone
<1>6. CASE ProcNext
      BY <1>6 DEF ProcNext, ProcessBatch, ProcessBatchFails, SendFrame, CheckTimeout,
         StopProcessing, DrainSend, DrainDrop, DrainFails, Drained
<1>7. CASE PrinterNext
      BY <1>7 DEF PrinterNext, PrintFrame, FramesClosed, PrintComplete
<1>8. CASE Interrupt
      BY <1>8 DEF Interrupt
<1>9. CASE HandlerNext
      BY <1>9 DEF HandlerNext, HandlerWakes, KillChildren
<1>10. CASE UNCHANGED vars
      BY <1>10 DEF vars
<1> QED
    BY <1>1, <1>2, <1>3, <1>4, <1>5, <1>6, <1>7, <1>8, <1>9, <1>10 DEF Next, Returned

\* No goroutine of runPerf is left when collectOnTarget refreshes or closes the
\* frame channel, whatever made runPerf return.
THEOREM ProcessorStops == Spec => []ProcessorStopsFirst
<1>1. Init => StopInv
      BY DEF Init, StopInv, ProcessorStopsFirst
<1>2. StopInv => ProcessorStopsFirst
      BY DEF StopInv
<1> QED
    BY <1>1, <1>2, StopStep, PTL DEF Spec

----------------------------------------------------------------------------
(* Where the batches are.                                                  *)

\* runPerf may still send a batch; it has closed the batch channel.
Filling == {"start", "select", "flush", "final"}
Closing == {"cancel", "awaitDone", "sendNil", "idle"}

(* A goroutine that does not hand on a batch holds none, and the processor *)
(* only drains the channel once runPerf has closed it.                     *)
Flow ==
    /\ frame # NoBatch <=> proc = "send"
    /\ page # NoBatch <=> printer = "print"
    /\ \A k \in 1..Len(batchCh) : batchCh[k] # NoBatch
    /\ batchClosed \/ cancelled => runner \in Closing
    /\ proc \in {"drain", "done"} => runner \in Closing
    /\ proc \in {"idle", "done"} => batchCh = <<>>
    /\ proc = "idle" => runner \in {"idle", "start", "sendErr"}
    /\ runner \in {"flush", "final"} => curLines > 0
    /\ collector = "done" => printer = "done"

\* A channel without its first batch.
LEMMA ChannelTaken ==
    ASSUME TypeInv, Flow, batchCh # <<>>
    PROVE  /\ Head(batchCh) \in Batch /\ Head(batchCh) # NoBatch
           /\ \A k \in 1..Len(Tail(batchCh)) : Tail(batchCh)[k] # NoBatch
           /\ SetOf(batchCh) = SetOf(Tail(batchCh)) \cup {Head(batchCh)}
<1> DEFINE s == batchCh
<1>1. s \in Seq(Batch)
      BY HeldBatches
<1>2. /\ Head(s) \in Batch /\ Len(s) \in Nat /\ Len(s) > 0 /\ Head(s) = s[1]
      /\ Len(Tail(s)) = Len(s) - 1
      /\ \A i \in 1..Len(Tail(s)) : Tail(s)[i] = s[i + 1]
      BY <1>1, TakeBatch
<1>3. \A k \in 1..Len(s) : k = 1 \/ k - 1 \in 1..Len(Tail(s))
      BY <1>2
<1>4. 1 \in 1..Len(s) /\ \A k \in 1..Len(Tail(s)) : k + 1 \in 1..Len(s)
      BY <1>2
<1>5. \A k \in 1..Len(s) : s[k] = Head(s) \/ s[k] = Tail(s)[k - 1]
      BY <1>2, <1>3
<1>6. SetOf(s) \subseteq SetOf(Tail(s)) \cup {Head(s)}
      BY <1>3, <1>5 DEF SetOf
<1>7. SetOf(Tail(s)) \cup {Head(s)} \subseteq SetOf(s)
      BY <1>2, <1>4 DEF SetOf
<1>8. \A k \in 1..Len(Tail(s)) : Tail(s)[k] # NoBatch
      BY <1>2, <1>4 DEF Flow
<1>9. Head(s) # NoBatch
      BY <1>2, <1>4 DEF Flow
<1> QED
    BY <1>2, <1>6, <1>7, <1>8, <1>9

LEMMA SetOfAppend ==
    ASSUME NEW s \in Seq(Batch), NEW b \in Batch
    PROVE  SetOf(Append(s, b)) = SetOf(s) \cup {b}
<1>1. /\ Len(s) \in Nat /\ Len(Append(s, b)) = Len(s) + 1
      /\ \A i \in 1..Len(s) : Append(s, b)[i] = s[i]
      /\ Append(s, b)[Len(s) + 1] = b
      BY PutBatch
<1>2. \A i \in 1..(Len(s) + 1) : i \in 1..Len(s) \/ i = Len(s) + 1
      BY <1>1
<1>3. Len(s) + 1 \in 1..(Len(s) + 1) /\ \A i \in 1..Len(s) : i \in 1..(Len(s) + 1)
      BY <1>1
<1>4. SetOf(Append(s, b)) \subseteq SetOf(s) \cup {b}
      BY <1>1, <1>2 DEF SetOf
<1>5. SetOf(s) \cup {b} \subseteq SetOf(Append(s, b))
      BY <1>1, <1>3 DEF SetOf
<1> QED
    BY <1>4, <1>5

LEMMA NothingIn == SetOf(<<>>) = {}
BY DEF SetOf

\* The batch that the runner sends or drops.
LEMMA SentBatch ==
    ASSUME TypeInv, Flow, runner \in {"flush", "final"}
    PROVE  CurrentBatch \in Batch /\ CurrentBatch # NoBatch
<1>1. curLines > 0 /\ curLines \in Nat
      BY DEF Flow, TypeInv, TypeOK, RunnerTypeOK
<1>2. CurrentBatch.lines # NoBatch.lines
      BY <1>1 DEF CurrentBatch, NoBatch
<1>3. CurrentBatch \in Batch
      BY DEF CurrentBatch, Batch, TypeInv, TypeOK, RunnerTypeOK, CollectTypeOK
<1> QED
    BY <1>2, <1>3

LEMMA FlowInit == Init => Flow
BY DEF Init, Flow, Closing

LEMMA FlowStep == TypeInv /\ StopInv /\ Flow /\ [Next]_vars => Flow'
<1> SUFFICES ASSUME TypeInv, StopInv, Flow, [Next]_vars PROVE Flow'
    OBVIOUS
<1> USE DEF StopInv, ProcessorStopsFirst, sessionVars, streamVars, batchVars, procVars,
        printVars, collectVars, LeaveLoop, Filling, Closing
<1>1. CASE CollectorNext
  <2>1. CASE StartRun
        BY <2>1 DEF StartRun, Flow
  <2>2. CASE CheckContinue \/ CheckStop \/ GatherFail \/ GatherRetry
        BY <2>2 DEF CheckContinue, CheckStop, GatherFail, GatherRetry, Flow
  <2>3. CASE RunReturnsError \/ RunReturnsNil
        BY <2>3 DEF RunReturnsError, RunReturnsNil, Flow
  <2> QED
      BY <1>1, <2>1, <2>2, <2>3 DEF CollectorNext
<1>2. CASE ExecNext
      BY <1>2 DEF ExecNext, PrepareFails, Prepare, StartPerf, StartPerfFails,
         WaitReturns, Flow
<1>3. CASE ScanPipe
      BY <1>3 DEF ScanPipe, Flow
<1>4. CASE PerfNext
      BY <1>4 DEF PerfNext, EmitLine, AppWrite, PerfExits, PerfFails, Flow
<1>5. CASE RunnerNext
  <2>1. CASE ReceiveCmd \/ ReceivePrepareError \/ ReceiveLine
        BY <2>1 DEF ReceiveCmd, ReceivePrepareError, ReceiveLine, CompletesBatch, Flow
  <2>2. CASE ReceiveExitCode \/ ReceiveStartError \/ DropFinalBatch
        BY <2>2 DEF ReceiveExitCode, ReceiveStartError, DropFinalBatch, Flow
  <2>3. CASE CloseBatchChannel \/ CancelProcessing \/ ProcessingDone
        BY <2>3 DEF CloseBatchChannel, CancelProcessing, ProcessingDone, Flow
  <2>4. CASE FlushBatch \/ SendFinalBatch
    <3>1. /\ runner \in {"flush", "final"} /\ batchCh' = Append(batchCh, CurrentBatch)
          /\ runner' \in {"select", "close"}
          /\ UNCHANGED <<frame, proc, page, printer, batchClosed, cancelled, collector>>
          BY <2>4 DEF FlushBatch, SendFinalBatch
    <3>2. /\ Len(batchCh) \in Nat /\ Len(batchCh') = Len(batchCh) + 1
          /\ \A k \in 1..Len(batchCh) : batchCh'[k] = batchCh[k]
          /\ batchCh'[Len(batchCh) + 1] = CurrentBatch
          BY <3>1, SentBatch, PutBatch, HeldBatches
    <3>3. \A k \in 1..Len(batchCh') : k \in 1..Len(batchCh) \/ k = Len(batchCh) + 1
          BY <3>2
    <3>4. \A k \in 1..Len(batchCh') : batchCh'[k] # NoBatch
          BY <3>1, <3>2, <3>3, SentBatch DEF Flow
    <3>5. proc \notin {"idle", "drain", "done"}
          BY <3>1 DEF Flow
    <3> QED
        BY <3>1, <3>4, <3>5 DEF Flow
  <2> QED
      BY <1>5, <2>1, <2>2, <2>3, <2>4 DEF RunnerNext
<1>6. CASE ProcNext
  <2>1. CASE ProcessBatch \/ ProcessBatchFails
        BY <2>1, ChannelTaken DEF ProcessBatch, ProcessBatchFails, Flow
  <2>2. CASE SendFrame \/ CheckTimeout \/ StopProcessing \/ Drained
        BY <2>2 DEF SendFrame, CheckTimeout, StopProcessing, Drained, Flow
  <2>3. CASE DrainSend \/ DrainDrop \/ DrainFails
        BY <2>3, ChannelTaken DEF DrainSend, DrainDrop, DrainFails, Flow
  <2> QED
      BY <1>6, <2>1, <2>2, <2>3 DEF ProcNext
<1>7. CASE PrinterNext
      BY <1>7 DEF PrinterNext, PrintFrame, FramesClosed, PrintComplete, Flow
<1>8. CASE Interrupt
      BY <1>8 DEF Interrupt, Flow
<1>9. CASE HandlerNext
      BY <1>9 DEF HandlerNext, HandlerWakes, KillChildren, Flow
<1>10. CASE UNCHANGED vars
      BY <1>10 DEF vars, Flow
<1> QED
    BY <1>1, <1>2, <1>3, <1>4, <1>5, <1>6, <1>7, <1>8, <1>9, <1>10 DEF Next, Returned

----------------------------------------------------------------------------
(* No step but those of the runner makes a batch, and none makes one       *)
(* disappear.                                                              *)

\* The runner's batch is sent or dropped.
Sends == FlushBatch \/ SendFinalBatch \/ DropFinalBatch

\* The batches in terms of the places that hold them.
Places == SetOf(batchCh) \cup {frame, page} \cup SetOf(printed) \cup failed \cup lost

LEMMA Located ==
    ASSUME NoBatch \notin SetOf(printed) \cup failed \cup lost
    PROVE  Batches = Places \ {NoBatch}
BY DEF Batches, Kept, InFlight, Places

\* What is printed, failed or lost is a batch.
Named == NoBatch \notin SetOf(printed) \cup failed \cup lost

LEMMA NamedStep == TypeInv /\ Flow /\ Named /\ [Next]_vars => Named'
<1> SUFFICES ASSUME TypeInv, Flow, Named, [Next]_vars PROVE Named'
    OBVIOUS
<1> USE DEF Named, sessionVars, printVars, history
<1>1. CASE CollectorNext
      BY <1>1 DEF CollectorNext, CheckContinue, CheckStop, GatherFail, GatherRetry,
         StartRun, RunReturnsError, RunReturnsNil
<1>2. CASE ExecNext \/ ScanPipe \/ PerfNext
      BY <1>2 DEF ExecNext, PrepareFails, Prepare, StartPerf, StartPerfFails,
         WaitReturns, ScanPipe, PerfNext, EmitLine, AppWrite, PerfExits, PerfFails
<1>3. CASE RunnerNext
  <2>1. CASE DropFinalBatch
        BY <2>1, SentBatch DEF DropFinalBatch
  <2> QED
      BY <1>3, <2>1 DEF RunnerNext, ReceiveCmd, ReceivePrepareError, ReceiveLine,
         FlushBatch, ReceiveExitCode, ReceiveStartError, SendFinalBatch,
         CloseBatchChannel, CancelProcessing, ProcessingDone
<1>4. CASE ProcNext
  <2>1. CASE ProcessBatchFails \/ DrainDrop \/ DrainFails
        BY <2>1, ChannelTaken DEF ProcessBatchFails, DrainDrop, DrainFails
  <2> QED
      BY <1>4, <2>1 DEF ProcNext, ProcessBatch, SendFrame, CheckTimeout,
         StopProcessing, DrainSend, Drained
<1>5. CASE PrinterNext
  <2>1. CASE PrintFrame
    <3>1. SetOf(printed') = SetOf(printed) \cup {page}
          BY <2>1, HeldBatches, SetOfAppend DEF PrintFrame
    <3> QED
        BY <2>1, <3>1 DEF PrintFrame, Flow
  <2> QED
      BY <1>5, <2>1 DEF PrinterNext, FramesClosed, PrintComplete
<1>6. CASE Interrupt \/ HandlerNext
      BY <1>6 DEF Interrupt, HandlerNext, HandlerWakes, KillChildren
<1>7. CASE UNCHANGED vars
      BY <1>7 DEF vars
<1> QED
    BY <1>1, <1>2, <1>3, <1>4, <1>5, <1>6, <1>7 DEF Next, Returned

LEMMA BatchMoves ==
    ASSUME TypeInv, StopInv, Flow, Named, [Next]_vars
    PROVE  /\ Sends => Batches' = Batches \cup {CurrentBatch}
           /\ ~Sends => Batches' = Batches
<1> USE DEF Places, sessionVars, printVars, procVars, batchVars, history
<1>1. Batches = Places \ {NoBatch} /\ Batches' = Places' \ {NoBatch}
  <2>1. Named'
        BY NamedStep
  <2> QED
      BY <2>1, Located DEF Named, Batches, Kept, InFlight
<1>2. CASE Sends
  <2>1. CASE FlushBatch \/ SendFinalBatch
    <3>1. SetOf(batchCh') = SetOf(batchCh) \cup {CurrentBatch} /\ CurrentBatch # NoBatch
          BY <2>1, HeldBatches, SentBatch, SetOfAppend DEF FlushBatch, SendFinalBatch
    <3>2. Places' = Places \cup {CurrentBatch}
          BY <2>1, <3>1 DEF FlushBatch, SendFinalBatch
    <3> QED
        BY <1>1, <1>2, <3>1, <3>2
  <2>2. CASE DropFinalBatch
    <3>1. CurrentBatch # NoBatch
          BY <2>2, SentBatch DEF DropFinalBatch
    <3>2. Places' = Places \cup {CurrentBatch}
          BY <2>2 DEF DropFinalBatch
    <3> QED
        BY <1>1, <1>2, <3>1, <3>2
  <2> QED
      BY <1>2, <2>1, <2>2 DEF Sends
<1>3. CASE ~Sends
  <2> SUFFICES Places' \ {NoBatch} = Places \ {NoBatch}
      BY <1>1, <1>3
  <2>1. CASE CollectorNext
    <3>1. CASE StartRun
          BY <3>1, NothingIn DEF StartRun, StopInv, ProcessorStopsFirst, Flow
    <3> QED
        BY <2>1, <3>1 DEF CollectorNext, CheckContinue, CheckStop, GatherFail, GatherRetry,
           RunReturnsError, RunReturnsNil
  <2>2. CASE ExecNext \/ ScanPipe \/ PerfNext
        BY <2>2 DEF ExecNext, PrepareFails, Prepare, StartPerf, StartPerfFails,
           WaitReturns, ScanPipe, PerfNext, EmitLine, AppWrite, PerfExits, PerfFails
  <2>3. CASE RunnerNext
        BY <1>3, <2>3 DEF RunnerNext, Sends, ReceiveCmd, ReceivePrepareError, ReceiveLine,
           ReceiveExitCode, ReceiveStartError, CloseBatchChannel, CancelProcessing,
           ProcessingDone
  <2>4. CASE ProcNext
    <3>1. CASE ProcessBatch \/ DrainSend
          BY <3>1, ChannelTaken DEF ProcessBatch, DrainSend, Flow
    <3>2. CASE ProcessBatchFails \/ DrainDrop \/ DrainFails
          BY <3>2, ChannelTaken DEF ProcessBatchFails, DrainDrop, DrainFails
    <3>3. CASE SendFrame
          BY <3>3 DEF SendFrame, Flow
    <3>4. CASE CheckTimeout \/ StopProcessing \/ Drained
          BY <3>4 DEF CheckTimeout, StopProcessing, Drained
    <3> QED
        BY <2>4, <3>1, <3>2, <3>3, <3>4 DEF ProcNext
  <2>5. CASE PrinterNext
    <3>1. CASE PrintFrame
      <4>1. SetOf(printed') = SetOf(printed) \cup {page}
            BY <3>1, HeldBatches, SetOfAppend DEF PrintFrame
      <4> QED
          BY <3>1, <4>1 DEF PrintFrame
    <3> QED
        BY <2>5, <3>1 DEF PrinterNext, FramesClosed, PrintComplete
  <2>6. CASE Interrupt \/ HandlerNext
        BY <2>6 DEF Interrupt, HandlerNext, HandlerWakes, KillChildren
  <2>7. CASE UNCHANGED vars
        BY <2>7 DEF vars
  <2> QED
      BY <2>1, <2>2, <2>3, <2>4, <2>5, <2>6, <2>7 DEF Next, Returned
<1> QED
    BY <1>2, <1>3

----------------------------------------------------------------------------
(* What has been received is in a batch, or in the runner's hand.          *)

\* Nothing has been read of a perf that was not started.
Started ==
    /\ runner = "start" => exec \in {"prepare", "offer", "sendErr"}
    /\ exec \in {"idle", "prepare", "offer", "start"} => scanned = 0
    /\ exec = "sendErr" /\ runner \in {"start", "select", "flush"} => scanned = 0

LEMMA StartedStep == Started /\ [Next]_vars => Started'
<1> SUFFICES ASSUME Started, [Next]_vars PROVE Started'
    OBVIOUS
<1> USE DEF Started, sessionVars, streamVars
<1>1. CASE CollectorNext
      BY <1>1 DEF CollectorNext, CheckContinue, CheckStop, GatherFail, GatherRetry,
         StartRun, RunReturnsError, RunReturnsNil
<1>2. CASE ExecNext
      BY <1>2 DEF ExecNext, PrepareFails, Prepare, StartPerf, StartPerfFails,
         WaitReturns
<1>3. CASE ScanPipe \/ PerfNext
      BY <1>3 DEF ScanPipe, PerfNext, EmitLine, AppWrite, PerfExits, PerfFails
<1>4. CASE RunnerNext
      BY <1>4 DEF RunnerNext, ReceiveCmd, ReceivePrepareError, ReceiveLine,
         FlushBatch, ReceiveExitCode, ReceiveStartError, SendFinalBatch, DropFinalBatch,
         CloseBatchChannel, CancelProcessing, ProcessingDone
<1>5. CASE ProcNext
      BY <1>5 DEF ProcNext, ProcessBatch, ProcessBatchFails, SendFrame, CheckTimeout,
         StopProcessing, DrainSend, DrainDrop, DrainFails, Drained
<1>6. CASE PrinterNext \/ Interrupt \/ HandlerNext
      BY <1>6 DEF PrinterNext, PrintFrame, FramesClosed, PrintComplete, Interrupt,
         HandlerNext, HandlerWakes, KillChildren
<1>7. CASE UNCHANGED vars
      BY <1>7 DEF vars
<1> QED
    BY <1>1, <1>2, <1>3, <1>4, <1>5, <1>6, <1>7 DEF Next, Returned

OfSession(b) == b.session = session

\* The runner has lines of interval i that it has not sent yet.
InHand(i) == \/ runner \in Filling /\ curLines > 0 /\ i = curInterval
             \/ runner = "flush" /\ i = Output[received]

Ranged == /\ session \in Nat
          /\ \A b \in Batches : b.session \in 1..session /\ b.interval > 0

SealedAll == runner \in Filling => \A b \in Batches : OfSession(b) => b.interval < curInterval

Covered ==
    /\ \A b \in Batches : OfSession(b) => \E n \in 1..received : Output[n] = b.interval
    /\ \A n \in 1..received :
          \/ Output[n] = 0 \/ InHand(Output[n])
          \/ \E b \in Batches : OfSession(b) /\ b.interval = Output[n]

LinesBehind ==
    runner \in Filling =>
        /\ session > 0 /\ curInterval # 0
        /\ curLines > 0 => /\ curInterval > 0
                           /\ \E n \in 1..received : Output[n] = curInterval
        /\ \A n \in 1..received : \/ Output[n] = 0 \/ Output[n] <= curInterval
                                  \/ runner = "flush" /\ n = received

LostLater == runner \in Filling => \A b \in lost : ~OfSession(b)

Cover == Ranged /\ SealedAll /\ Covered /\ LinesBehind /\ LostLater

LEMMA BatchesTyped == ASSUME TypeInv PROVE Batches \subseteq Batch
BY HeldBatches DEF Batches, Kept, InFlight, SetOf, TypeInv, TypeOK, HistoryTypeOK

LEMMA CoverInit == Init => Cover
<1> SUFFICES ASSUME Init PROVE Cover
    OBVIOUS
<1>1. Batches = {}
      BY NothingIn DEF Init, Batches, Kept, InFlight
<1> QED
    BY <1>1 DEF Init, Cover, Ranged, SealedAll, Covered, LinesBehind, LostLater, Filling

\* A step that neither receives nor sends.
LEMMA CoverKept ==
    ASSUME Cover, Batches' = Batches,
           UNCHANGED <<session, received, curInterval, curLines>>,
           \/ runner' = runner
           \/ runner = "start" /\ runner' = "select"
           \/ runner = "select" /\ runner' = "final"
           \/ runner \in {"start", "select"} /\ runner' \notin Filling /\ ~(curLines > 0)
           \/ runner \notin Filling /\ runner' \notin Filling,
           runner' \in Filling => lost' = lost
    PROVE  Cover'
<1> USE DEF Cover, Filling, OfSession
<1>1. Ranged' /\ SealedAll' /\ LostLater'
      BY DEF Ranged, SealedAll, LostLater
<1>2. \A i : (InHand(i) => InHand(i)')
      BY DEF InHand
<1>3. Covered'
      BY <1>2 DEF Covered
<1>4. LinesBehind'
      BY DEF LinesBehind
<1> QED
    BY <1>1, <1>3, <1>4

\* A new session has no batch and no line.
LEMMA CoverStartRun ==
    ASSUME TypeInv, Cover, StartRun, Batches' = Batches
    PROVE  Cover'
<1> USE DEF Cover, StartRun, Filling, OfSession
<1>1. session \in Nat /\ session' = session + 1 /\ received' = 0 /\ curLines' = 0
      BY HeldBatches
<1>2. \A b \in Batches : b.session \in 1..session /\ b.interval > 0 /\ b.session # session'
      BY <1>1 DEF Ranged
<1>3. Ranged'
      BY <1>1, <1>2 DEF Ranged
<1>4. SealedAll' /\ Covered' /\ LinesBehind'
      BY <1>1, <1>2 DEF SealedAll, Covered, LinesBehind
<1>5. LostLater'
      BY <1>2 DEF LostLater, Batches, history
<1> QED
    BY <1>3, <1>4, <1>5

LEMMA CoverReceiveLine ==
    ASSUME TypeInv, OrderInv, Cover, ReceiveLine, Batches' = Batches
    PROVE  Cover'
<1> USE HeldBatches DEF Cover, OfSession, collectVars, history
<1>0. PICK i : i = Output[received + 1]
      OBVIOUS
<1>1. /\ received + 1 \in 1..Len(Output) /\ i \in Nat /\ received' = received + 1
      /\ received \in Nat
      BY <1>0, OutputLines DEF ReceiveLine, TypeInv, TypeOK, StreamTypeOK
<1>2. /\ runner = "select" /\ session' = session /\ lost' = lost /\ curLines \in Nat
      /\ i > 0 => curInterval <= i
      BY <1>0, <1>1, OutputLines
         DEF ReceiveLine, OrderInv, LinesAhead, TypeInv, TypeOK, RunnerTypeOK
<1>3. \/ i = 0 /\ runner' = "select" /\ UNCHANGED <<curInterval, curLines>>
      \/ i > curInterval /\ i > 0 /\ curLines > 0 /\ runner' = "flush"
         /\ UNCHANGED <<curInterval, curLines>>
      \/ i > 0 /\ (i = curInterval \/ curLines = 0) /\ runner' = "select"
         /\ curInterval' = i /\ curLines' = curLines + 1
      BY <1>0, <1>1, <1>2 DEF ReceiveLine, CompletesBatch
<1>4. Ranged' /\ LostLater'
      BY <1>2 DEF Ranged, LostLater, Filling
<1>5. \A b \in Batches : b.interval \in Int
      BY BatchesTyped DEF Batch
<1>6. SealedAll'
      BY <1>1, <1>2, <1>3, <1>5 DEF SealedAll, Filling
<1>7. /\ \A n \in 1..received' : n \in 1..received \/ n = received + 1
      /\ \A n \in 1..received : n \in 1..received' /\ n # received'
      /\ received + 1 \in 1..received'
      BY <1>1
<1>8. \A n \in 1..received : InHand(Output[n]) => InHand(Output[n])'
      BY <1>2, <1>3 DEF InHand, Filling
<1>9. i = 0 \/ InHand(i)'
      BY <1>0, <1>1, <1>2, <1>3 DEF InHand, Filling
<1>10. Covered'
      BY <1>0, <1>1, <1>2, <1>7, <1>8, <1>9 DEF Covered
<1>11. LinesBehind'
  <2>1. session > 0 /\ curInterval' # 0
        BY <1>2, <1>3 DEF LinesBehind, Filling
  <2>2. curLines' > 0 => curInterval' > 0 /\ \E n \in 1..received' : Output[n] = curInterval'
        BY <1>0, <1>1, <1>2, <1>3, <1>7 DEF LinesBehind, Filling
  <2>3. \A n \in 1..received : Output[n] = 0 \/ Output[n] <= curInterval
        BY <1>2 DEF LinesBehind, Filling
  <2>4. \A n \in 1..received : Output[n] \in Nat
        BY <1>1, OutputLines
  <2>5. \A n \in 1..received' : \/ Output[n] = 0 \/ Output[n] <= curInterval'
                                \/ runner' = "flush" /\ n = received'
        BY <1>0, <1>1, <1>2, <1>3, <1>7, <2>3, <2>4
  <2> QED
      BY <1>2, <2>1, <2>2, <2>5 DEF LinesBehind
<1> QED
    BY <1>4, <1>6, <1>10, <1>11

\* The batch in hand joins the others; after a flush, the line received last is in hand.
LEMMA CoverSends ==
    ASSUME TypeInv, OrderInv, Flow, Cover, Sends, Batches' = Batches \cup {CurrentBatch}
    PROVE  Cover'
<1> USE HeldBatches DEF Cover, OfSession, collectVars, streamVars, history
<1>1. /\ runner \in {"flush", "final"} /\ session' = session /\ received' = received
      BY DEF Sends, FlushBatch, SendFinalBatch, DropFinalBatch
<1>2. /\ CurrentBatch \in Batch /\ CurrentBatch.session = session
      /\ CurrentBatch.interval = curInterval
      BY <1>1, SentBatch DEF CurrentBatch
<1>3. /\ session > 0 /\ curInterval > 0 /\ curLines > 0
      /\ \E n \in 1..received : Output[n] = curInterval
      BY <1>1 DEF LinesBehind, Filling, Flow
<1>4. Ranged'
      BY <1>1, <1>2, <1>3 DEF Ranged
<1>5. \A b \in Batches' : OfSession(b)' => \E n \in 1..received : Output[n] = b.interval
      BY <1>1, <1>2, <1>3 DEF Covered
<1>6. CASE FlushBatch
  <2>1. /\ runner = "flush" /\ runner' = "select" /\ curInterval' = Output[received]
        /\ curLines' = 1 /\ lost' = lost
        BY <1>6 DEF FlushBatch
  <2>2. /\ received > 0 /\ 0 < Output[received] /\ curInterval < Output[received]
        /\ received \in 1..received /\ Output[received] \in Nat
        BY <2>1, OutputLines DEF OrderInv, LinesAhead
  <2>3. \A b \in Batches : b.interval \in Int
        BY BatchesTyped DEF Batch
  <2>4. SealedAll' /\ LostLater'
        BY <1>1, <1>2, <2>1, <2>2, <2>3 DEF SealedAll, LostLater, Filling
  <2>5. \A n \in 1..received :
          InHand(Output[n]) => Output[n] = curInterval \/ InHand(Output[n])'
        BY <1>1, <2>1 DEF InHand, Filling
  <2>6. Covered'
        BY <1>1, <1>2, <1>5, <2>5 DEF Covered
  <2>7. \A n \in 1..received : Output[n] = 0 \/ Output[n] <= Output[received]
    <3>1. \A n \in 1..received : Output[n] \in Nat
          BY OutputLines
    <3>2. \A n \in 1..received : Output[n] = 0 \/ Output[n] <= curInterval \/ n = received
          BY <2>1 DEF LinesBehind, Filling
    <3> QED
        BY <2>2, <3>1, <3>2
  <2>8. LinesBehind'
        BY <1>1, <1>3, <2>1, <2>2, <2>7 DEF LinesBehind
  <2> QED
      BY <1>4, <2>4, <2>6, <2>8
<1>7. CASE SendFinalBatch \/ DropFinalBatch
  <2>1. runner = "final" /\ runner' = "close"
        BY <1>7 DEF SendFinalBatch, DropFinalBatch
  <2>2. SealedAll' /\ LostLater' /\ LinesBehind'
        BY <2>1 DEF SealedAll, LostLater, LinesBehind, Filling
  <2>3. \A n \in 1..received : InHand(Output[n]) => Output[n] = curInterval
        BY <2>1 DEF InHand
  <2>4. Covered'
        BY <1>1, <1>2, <1>5, <2>3 DEF Covered
  <2> QED
      BY <1>4, <2>2, <2>4
<1> QED
    BY <1>6, <1>7 DEF Sends

\* Every step keeps what is covered.
LEMMA CoverStep ==
    ASSUME TypeInv, OrderInv, StopInv, Flow, Named, Started, Cover, [Next]_vars
    PROVE  Cover'
<1> USE DEF sessionVars, streamVars, batchVars, procVars, printVars, collectVars, history, Filling
<1>1. CASE Sends
  <2>1. Batches' = Batches \cup {CurrentBatch}
        BY <1>1, BatchMoves
  <2> QED
      BY <1>1, <2>1, CoverSends
<1>2. CASE ~Sends
  <2>1. Batches' = Batches
        BY <1>2, BatchMoves
  <2>2. CASE CollectorNext
    <3>1. CASE StartRun
          BY <2>1, <3>1, CoverStartRun
    <3> QED
        BY <2>1, <2>2, <3>1, CoverKept DEF CollectorNext, CheckContinue, CheckStop, GatherFail,
           GatherRetry, RunReturnsError, RunReturnsNil, LeaveLoop
  <2>3. CASE ExecNext \/ ScanPipe \/ PerfNext
        BY <2>1, <2>3, CoverKept DEF ExecNext, PrepareFails, Prepare, StartPerf, StartPerfFails,
           WaitReturns, ScanPipe, PerfNext, EmitLine, AppWrite, PerfExits, PerfFails
  <2>4. CASE RunnerNext
    <3>1. CASE ReceiveLine
          BY <2>1, <3>1, CoverReceiveLine
    <3>2. CASE ReceivePrepareError \/ ReceiveStartError
      <4>1. received = 0
            BY <3>2 DEF ReceivePrepareError, ReceiveStartError, Started, TypeInv, TypeOK,
               StreamTypeOK
      <4>2. runner \in Filling => ~(curLines > 0)
            BY <4>1 DEF Cover, LinesBehind
      <4> QED
          BY <2>1, <3>2, <4>2, CoverKept DEF ReceivePrepareError, ReceiveStartError
    <3>3. CASE ReceiveCmd \/ ReceiveExitCode
          BY <2>1, <3>3, CoverKept DEF ReceiveCmd, ReceiveExitCode
    <3>4. CASE CloseBatchChannel \/ CancelProcessing \/ ProcessingDone
          BY <2>1, <3>4, CoverKept DEF CloseBatchChannel, CancelProcessing, ProcessingDone
    <3> QED
        BY <1>2, <2>4, <3>1, <3>2, <3>3, <3>4 DEF RunnerNext, Sends
  <2>5. CASE ProcNext
    <3>1. CASE ProcessBatch \/ ProcessBatchFails \/ SendFrame \/ CheckTimeout
          BY <2>1, <3>1, CoverKept DEF ProcessBatch, ProcessBatchFails, SendFrame, CheckTimeout
    <3>2. CASE StopProcessing \/ DrainSend \/ DrainFails \/ Drained
          BY <2>1, <3>2, CoverKept DEF StopProcessing, DrainSend, DrainFails, Drained
    <3>3. CASE DrainDrop
      <4>1. runner \notin Filling
            BY <3>3 DEF DrainDrop, Flow, Closing
      <4> QED
          BY <2>1, <3>3, <4>1, CoverKept DEF DrainDrop
    <3> QED
        BY <2>5, <3>1, <3>2, <3>3 DEF ProcNext
  <2>6. CASE PrinterNext \/ Interrupt \/ HandlerNext
        BY <2>1, <2>6, CoverKept DEF PrinterNext, PrintFrame, FramesClosed, PrintComplete,
           Interrupt, HandlerNext, HandlerWakes, KillChildren
  <2>7. CASE UNCHANGED vars
        BY <2>1, <2>7, CoverKept DEF vars
  <2> QED
      BY <2>2, <2>3, <2>4, <2>5, <2>6, <2>7 DEF Next, Returned
<1> QED
    BY <1>1, <1>2

\* The invariants on which the rest depends.
CoverInv == /\ TypeInv /\ OrderInv /\ StopInv
            /\ Flow /\ Named /\ Started /\ Cover

\* Wherever the goroutines are, each interval received is in a batch or in the runner's hand.
THEOREM CoverAlways == Spec => []CoverInv
<1>1. Init => StopInv
      BY DEF Init, StopInv, ProcessorStopsFirst
<1>2. Init => Named /\ Started
      BY NothingIn DEF Init, Named, Started
<1>3. CoverInv /\ [Next]_vars => (StopInv /\ Flow /\ Named /\ Started /\ Cover)'
      BY StopStep, FlowStep, NamedStep, StartedStep, CoverStep DEF CoverInv
<1>4. TypeInv /\ OrderInv /\ (StopInv /\ Flow /\ Named /\ Started /\ Cover) <=> CoverInv
      BY DEF CoverInv
<1>5. Init => StopInv /\ Flow /\ Named /\ Started /\ Cover
      BY <1>1, <1>2, FlowInit, CoverInit
<1> HIDE DEF CoverInv
<1> QED
    BY <1>3, <1>4, <1>5, TypeCorrect, OrderHolds, PTL DEF Spec

\* While perf is read, every interval before the current one is still in the channel, at
\* the processor, at the printer, printed or known to have failed, whatever the capacities:
\* the runner waits for room in the channel, and nothing is given up before it has closed it.
THEOREM NothingDroppedWhileReading == Spec => []NoIntervalDropped
<1>1. CoverInv => NoIntervalDropped
  <2> SUFFICES ASSUME CoverInv, runner \in {"select", "flush"}
               PROVE  IntervalsOf(session, Kept)
                      = {i \in {Output[n] : n \in 1..received} : 0 < i /\ i < curInterval}
      BY DEF NoIntervalDropped
  <2> USE DEF CoverInv, Cover, Filling, OfSession
  <2>1. \A b \in Batches : b.session = session => b \in Kept
        BY DEF LostLater, Batches
  <2>2. Kept \subseteq Batches
        BY DEF Batches
  <2>3. ASSUME NEW b \in Kept, b.session = session
        PROVE  b.interval \in {i \in {Output[n] : n \in 1..received} : 0 < i /\ i < curInterval}
        BY <2>2, <2>3 DEF Ranged, Covered, SealedAll
  <2>4. ASSUME NEW n \in 1..received, 0 < Output[n], Output[n] < curInterval
        PROVE  \E b \in Kept : b.session = session /\ b.interval = Output[n]
    <3>1. runner = "flush" => Output[received] > curInterval
          BY DEF OrderInv, LinesAhead
    <3>2. Output[n] \in Nat /\ curInterval \in Int
          BY OutputLines, HeldBatches
    <3>3. ~InHand(Output[n])
          BY <2>4, <3>1, <3>2, HeldBatches, OutputLines DEF InHand
    <3> QED
        BY <2>1, <2>4, <3>2, <3>3 DEF Covered
  <2> QED
      BY <2>3, <2>4 DEF IntervalsOf
<1> QED
    BY <1>1, CoverAlways, PTL

\* When collectOnTarget returns, no goroutine holds a batch any more, and every interval
\* received in the last run of perf has been printed, or is known to have failed or been lost.
THEOREM NothingIsLeftBehind == Spec => []NothingLeftBehind
<1>1. CoverInv => NothingLeftBehind
  <2> SUFFICES ASSUME CoverInv, collector = "done"
               PROVE  /\ InFlight = {}
                      /\ {Output[n] : n \in 1..received} \ {0} = IntervalsOf(session, Batches)
      BY DEF NothingLeftBehind
  <2> USE DEF CoverInv, Cover, OfSession
  <2>1. runner = "idle" /\ proc \in {"idle", "done"} /\ printer = "done"
        BY DEF StopInv, ProcessorStopsFirst, Flow
  <2>2. InFlight = {}
        BY <2>1, NothingIn DEF Flow, InFlight
  <2>3. \A b \in Batches : b.session = session =>
            b.interval \in {Output[n] : n \in 1..received} \ {0}
        BY DEF Ranged, Covered
  <2>4. \A n \in 1..received : ~InHand(Output[n])
        BY <2>1 DEF InHand, Filling
  <2>5. \A n \in 1..received : Output[n] # 0 =>
            \E b \in Batches : b.session = session /\ b.interval = Output[n]
        BY <2>4 DEF Covered
  <2> QED
      BY <2>2, <2>3, <2>5 DEF IntervalsOf
<1> QED
    BY <1>1, CoverAlways, PTL

----------------------------------------------------------------------------
(* The lines of a batch.                                                   *)

\* The lines of interval i among the first r.
Seen(i, r) == {n \in 1..r : Output[n] = i}

LEMMA SeenFinite ==
    ASSUME NEW i, NEW r \in Nat
    PROVE  IsFiniteSet(Seen(i, r)) /\ Cardinality(Seen(i, r)) \in Nat
<1>1. IsFiniteSet(1..r)
      BY FS_Interval
<1>2. Seen(i, r) \in SUBSET (1..r)
      BY DEF Seen
<1> QED
    BY <1>1, <1>2, FS_Subset, FS_CardinalityType

\* One more line is received.
LEMMA SeenNext ==
    ASSUME NEW i, NEW r \in Nat
    PROVE  /\ Output[r + 1] # i => Seen(i, r + 1) = Seen(i, r)
           /\ Output[r + 1] = i =>
                Cardinality(Seen(i, r + 1)) = Cardinality(Seen(i, r)) + 1
<1>1. 1..(r + 1) = 1..r \cup {r + 1} /\ r + 1 \notin 1..r
      OBVIOUS
<1>2. Output[r + 1] # i => Seen(i, r + 1) = Seen(i, r)
      BY <1>1 DEF Seen
<1>3. ASSUME Output[r + 1] = i
      PROVE  Cardinality(Seen(i, r + 1)) = Cardinality(Seen(i, r)) + 1
  <2>1. Seen(i, r + 1) = Seen(i, r) \cup {r + 1} /\ r + 1 \notin Seen(i, r)
        BY <1>1, <1>3 DEF Seen
  <2>2. IsFiniteSet(Seen(i, r))
        BY SeenFinite
  <2> QED
      BY <2>1, <2>2, FS_AddElement
<1> QED
    BY <1>2, <1>3

(* The batches of the running perf have all the lines of their intervals,  *)
(* and the batch in hand has all those received.                           *)
WholeInv ==
    /\ InnerBatchesWhole
    /\ runner \in Filling =>
          /\ \A b \in Batches : OfSession(b) => b.lines = LinesOf(b.interval)
          /\ curLines = Cardinality(Seen(curInterval, received))

\* A step that neither receives nor sends.
LEMMA WholeKept ==
    ASSUME WholeInv, Batches' = Batches,
           UNCHANGED <<session, received, curInterval, curLines>>,
           runner' \in Filling => runner \in Filling
    PROVE  WholeInv'
BY DEF WholeInv, InnerBatchesWhole, OfSession, Seen, LinesOf

LEMMA WholeStartRun ==
    ASSUME TypeInv, WholeInv, Cover, StartRun, Batches' = Batches
    PROVE  WholeInv'
<1>1. session' = session + 1 /\ received' = 0 /\ curLines' = 0 /\ session \in Nat
      BY HeldBatches DEF StartRun
<1>2. \A b \in Batches : b.session # session'
      BY <1>1 DEF Cover, Ranged
<1>3. Seen(curInterval', received') = {}
      BY <1>1 DEF Seen
<1>4. curLines' = Cardinality(Seen(curInterval', received'))
      BY <1>1, <1>3, FS_EmptySet
<1> QED
    BY <1>2, <1>4 DEF WholeInv, InnerBatchesWhole, OfSession, Seen, LinesOf

LEMMA WholeReceiveLine ==
    ASSUME TypeInv, OrderInv, Cover, WholeInv, ReceiveLine, Batches' = Batches
    PROVE  WholeInv'
<1> USE HeldBatches
<1>0. PICK i : i = Output[received + 1]
      OBVIOUS
<1>1. /\ received + 1 \in 1..Len(Output) /\ i \in Nat /\ received' = received + 1
      /\ runner = "select" /\ session' = session /\ curLines \in Nat
      BY <1>0, OutputLines DEF ReceiveLine, collectVars, TypeInv, TypeOK, StreamTypeOK, RunnerTypeOK
<1>2. i > 0 => curInterval <= i
      BY <1>0, <1>1, OutputLines DEF ReceiveLine, OrderInv, LinesAhead
<1>3. curLines = Cardinality(Seen(curInterval, received)) /\ curInterval # 0
      BY <1>1 DEF WholeInv, Filling, Cover, LinesBehind
<1>4. \/ i # curInterval /\ UNCHANGED <<curInterval, curLines>>
      \/ i > 0 /\ (i = curInterval \/ curLines = 0)
         /\ curInterval' = i /\ curLines' = curLines + 1
      BY <1>0, <1>1, <1>3 DEF ReceiveLine, CompletesBatch
<1>5. ASSUME i > 0, i # curInterval PROVE Seen(i, received) = {}
  <2>1. \A n \in 1..received : Output[n] = 0 \/ Output[n] <= curInterval
        BY <1>1 DEF Cover, LinesBehind, Filling
  <2>2. curInterval \in Int /\ curInterval < i
        BY <1>1, <1>2, <1>5
  <2>3. ASSUME NEW n \in 1..received PROVE Output[n] # i
        BY <1>1, <1>5, <2>1, <2>2
  <2> QED
      BY <2>3 DEF Seen
<1>6. curLines' = Cardinality(Seen(curInterval', received'))
  <2>1. CASE i # curInterval /\ UNCHANGED <<curInterval, curLines>>
        BY <1>0, <1>1, <1>3, <2>1, SeenNext
  <2>2. CASE /\ i > 0 /\ (i = curInterval \/ curLines = 0)
             /\ curInterval' = i /\ curLines' = curLines + 1
    <3>1. Cardinality(Seen(i, received)) = curLines
          BY <1>3, <1>5, <2>2, FS_EmptySet
    <3>2. Cardinality(Seen(i, received + 1)) = Cardinality(Seen(i, received)) + 1
          BY <1>0, SeenNext
    <3> QED
        BY <1>1, <2>2, <3>1, <3>2
  <2> QED
      BY <1>4, <2>1, <2>2
<1> QED
    BY <1>1, <1>6 DEF WholeInv, InnerBatchesWhole, OfSession, LinesOf, Filling

\* The batch sent has all the lines of its interval, or is the last of its run.
LEMMA WholeSends ==
    ASSUME TypeInv, OrderInv, Flow, Cover, WholeInv, Sends,
           Batches' = Batches \cup {CurrentBatch}
    PROVE  WholeInv'
<1> USE HeldBatches
<1>1. /\ runner \in {"flush", "final"} /\ session' = session /\ received' = received
      BY DEF Sends, FlushBatch, SendFinalBatch, DropFinalBatch, collectVars, streamVars
<1>2. /\ CurrentBatch.session = session /\ CurrentBatch.interval = curInterval
      /\ CurrentBatch.lines = curLines
      BY DEF CurrentBatch
<1>3. \A b \in Batches : OfSession(b) =>
          b.interval \in Int /\ b.interval < curInterval /\ b.lines = LinesOf(b.interval)
      BY <1>1, BatchesTyped DEF WholeInv, Cover, SealedAll, Filling, Batch
<1>4. InnerBatchesWhole'
  <2> SUFFICES ASSUME NEW b \in Batches', NEW c \in Batches',
                      b.session = c.session, b.interval < c.interval
               PROVE  b.lines = LinesOf(b.interval)
      BY DEF InnerBatchesWhole, LinesOf
  <2>1. CASE b \in Batches /\ c \in Batches
        BY <2>1 DEF WholeInv, InnerBatchesWhole
  <2>2. CASE b \in Batches /\ c = CurrentBatch
        BY <1>2, <1>3, <2>2 DEF OfSession
  <2>3. CASE b = CurrentBatch
        BY <1>2, <1>3, <2>3 DEF OfSession
  <2> QED
      BY <2>1, <2>2, <2>3
<1>5. CASE FlushBatch
  <2>1. /\ runner = "flush" /\ runner' = "select" /\ curInterval' = Output[received]
        /\ curLines' = 1
        BY <1>5 DEF FlushBatch
  <2>2. /\ received > 0 /\ 0 < Output[received] /\ curInterval < Output[received]
        /\ received \in 1..Len(Output) /\ received \in 1..received
        /\ Output[received] \in Nat /\ Len(Output) \in Nat
        BY <2>1, OutputLines DEF OrderInv, LinesAhead
  <2>3. curInterval > 0 /\ curLines = Cardinality(Seen(curInterval, received))
        BY <2>1, <1>1 DEF WholeInv, Cover, LinesBehind, Filling, Flow
  <2>4. Seen(curInterval, received) = {n \in 1..Len(Output) : Output[n] = curInterval}
    <3>1. \A n \in 1..Len(Output) : Output[n] = curInterval => n \in 1..received
      <4> SUFFICES ASSUME NEW n \in 1..Len(Output), Output[n] = curInterval, received < n
                   PROVE  FALSE
          OBVIOUS
      <4>1. received <= n /\ Output[n] > 0
            BY <2>2, <2>3
      <4>2. Output[received] <= Output[n]
            BY <2>2, <4>1, OutputAssumption
      <4> QED
          BY <2>2, <4>2
    <3> QED
        BY <2>2, <3>1 DEF Seen
  <2>5. CurrentBatch.lines = LinesOf(CurrentBatch.interval)
        BY <1>2, <2>3, <2>4 DEF LinesOf
  <2>6. Seen(Output[received], received) = {received}
    <3>1. \A n \in 1..received : Output[n] = 0 \/ Output[n] <= curInterval \/ n = received
          BY <2>1 DEF Cover, LinesBehind, Filling
    <3>2. \A n \in 1..received : Output[n] = Output[received] => n = received
          BY <2>2, <3>1
    <3> QED
        BY <2>2, <3>2 DEF Seen
  <2>7. Cardinality(Seen(curInterval', received')) = curLines'
        BY <1>1, <2>1, <2>6, FS_Singleton
  <2> QED
      BY <1>1, <1>3, <1>4, <2>5, <2>7 DEF WholeInv, OfSession, LinesOf
<1>6. CASE SendFinalBatch \/ DropFinalBatch
      BY <1>4, <1>6 DEF WholeInv, SendFinalBatch, DropFinalBatch, Filling
<1> QED
    BY <1>5, <1>6 DEF Sends

LEMMA WholeStep ==
    ASSUME CoverInv, WholeInv, [Next]_vars
    PROVE  WholeInv'
<1> USE DEF CoverInv, sessionVars, streamVars, batchVars, procVars, printVars, collectVars, Filling
<1>1. CASE Sends
  <2>1. Batches' = Batches \cup {CurrentBatch}
        BY <1>1, BatchMoves
  <2> QED
      BY <1>1, <2>1, WholeSends
<1>2. CASE ~Sends
  <2>1. Batches' = Batches
        BY <1>2, BatchMoves
  <2>2. CASE StartRun
        BY <2>1, <2>2, WholeStartRun
  <2>3. CASE ReceiveLine
        BY <2>1, <2>3, WholeReceiveLine
  <2>4. CASE CollectorNext /\ ~StartRun
        BY <2>1, <2>4, WholeKept DEF CollectorNext, CheckContinue, CheckStop, GatherFail,
           GatherRetry, RunReturnsError, RunReturnsNil, LeaveLoop
  <2>5. CASE ExecNext \/ ScanPipe \/ PerfNext
        BY <2>1, <2>5, WholeKept DEF ExecNext, PrepareFails, Prepare, StartPerf, StartPerfFails,
           WaitReturns, ScanPipe, PerfNext, EmitLine, AppWrite, PerfExits, PerfFails
  <2>6. CASE RunnerNext /\ ~ReceiveLine
        BY <1>2, <2>1, <2>6, WholeKept DEF RunnerNext, Sends, ReceiveCmd, ReceivePrepareError,
           ReceiveExitCode, ReceiveStartError, CloseBatchChannel, CancelProcessing,
           ProcessingDone
  <2>7. CASE ProcNext
        BY <2>1, <2>7, WholeKept DEF ProcNext, ProcessBatch, ProcessBatchFails, SendFrame,
           CheckTimeout, StopProcessing, DrainSend, DrainDrop, DrainFails, Drained
  <2>8. CASE PrinterNext \/ Interrupt \/ HandlerNext
        BY <2>1, <2>8, WholeKept DEF PrinterNext, PrintFrame, FramesClosed, PrintComplete,
           Interrupt, HandlerNext, HandlerWakes, KillChildren
  <2>9. CASE UNCHANGED vars
        BY <2>1, <2>9, WholeKept DEF vars
  <2> QED
      BY <2>2, <2>3, <2>4, <2>5, <2>6, <2>7, <2>8, <2>9 DEF Next, Returned
<1> QED
    BY <1>1, <1>2

\* A batch with a later one behind it has all the lines of its interval: only the last batch
\* of a run of perf can lack some, when perf ends or is killed between two lines.
THEOREM InnerBatchesAreWhole == Spec => []InnerBatchesWhole
<1>1. Init => WholeInv
  <2> SUFFICES ASSUME Init PROVE WholeInv
      OBVIOUS
  <2>1. Batches = {}
        BY NothingIn DEF Init, Batches, Kept, InFlight
  <2> QED
      BY <2>1 DEF Init, WholeInv, InnerBatchesWhole, Filling
<1>2. CoverInv /\ WholeInv /\ [Next]_vars => WholeInv'
      BY WholeStep
<1>3. WholeInv => InnerBatchesWhole
      BY DEF WholeInv
<1> QED
    BY <1>1, <1>2, <1>3, CoverAlways, PTL DEF Spec

----------------------------------------------------------------------------
(* What is lost when the pipeline stops.                                   *)

LostIn(s) == {b \in lost : b.session = s}

(* A batch that is lost was in the channel or in the runner's hand when    *)
(* the channel was closed: each one lost leaves the channel shorter.       *)
LossInv ==
    /\ IsFiniteSet(lost)
    /\ \A k \in 1..Len(batchCh) : OfSession(batchCh[k])
    /\ \A s \in 1..session :
          /\ Cardinality(LostIn(s)) <= BatchCap + 1
          /\ s = session => Cardinality(LostIn(s)) + Len(batchCh) <= BatchCap + 1

LEMMA LostFinite ==
    ASSUME IsFiniteSet(lost), NEW s
    PROVE  IsFiniteSet(LostIn(s)) /\ Cardinality(LostIn(s)) \in Nat
<1>1. LostIn(s) \in SUBSET lost
      BY DEF LostIn
<1> QED
    BY <1>1, FS_Subset, FS_CardinalityType

\* A step that loses nothing and lets nothing into the channel.
LEMMA LossKept ==
    ASSUME TypeInv, LossInv, UNCHANGED <<session, lost>>,
           batchCh' = batchCh \/ (batchCh # <<>> /\ batchCh' = Tail(batchCh))
    PROVE  LossInv'
<1> USE HeldBatches, BoundsAssumption
<1>1. CASE batchCh' = batchCh
      BY <1>1 DEF LossInv, LostIn, OfSession
<1>2. CASE batchCh # <<>> /\ batchCh' = Tail(batchCh)
  <2>1. /\ Len(batchCh) \in Nat /\ Len(batchCh') = Len(batchCh) - 1
        /\ \A k \in 1..Len(batchCh') : batchCh'[k] = batchCh[k + 1]
        BY <1>2, TakeBatch
  <2>2. \A k \in 1..Len(batchCh') : k + 1 \in 1..Len(batchCh)
        BY <2>1
  <2>3. \A k \in 1..Len(batchCh') : OfSession(batchCh'[k])
        BY <2>1, <2>2 DEF LossInv
  <2>4. \A s : LostIn(s)' = LostIn(s)
        BY DEF LostIn
  <2>5. \A s : Cardinality(LostIn(s)) \in Nat
        BY LostFinite DEF LossInv
  <2> QED
      BY <2>1, <2>3, <2>4, <2>5 DEF LossInv, OfSession
<1> QED
    BY <1>1, <1>2

\* The channel of a new session is empty, and nothing is lost of the session.
LEMMA LossStartRun ==
    ASSUME TypeInv, Cover, LossInv, StartRun
    PROVE  LossInv'
<1> USE HeldBatches, BoundsAssumption
<1>1. session' = session + 1 /\ lost' = lost /\ Len(batchCh') = 0 /\ session \in Nat
      BY DEF StartRun, history
<1>2. \A b \in lost : b.session \in 1..session
      BY DEF Cover, Ranged, Batches
<1>3. LostIn(session') = {}
      BY <1>1, <1>2 DEF LostIn
<1>4. \A s : LostIn(s)' = LostIn(s)
      BY <1>1 DEF LostIn
<1>5. \A s \in 1..session' : s \in 1..session \/ s = session'
      BY <1>1
<1>6. Cardinality(LostIn(session')) = 0
      BY <1>3, FS_EmptySet
<1>7. \A s \in 1..session : Cardinality(LostIn(s)) <= BatchCap + 1
      BY DEF LossInv
<1>8. \A s \in 1..session' : /\ Cardinality(LostIn(s)) <= BatchCap + 1
                             /\ s = session' => Cardinality(LostIn(s)) + 0 <= BatchCap + 1
  <2> SUFFICES ASSUME NEW s \in 1..session'
               PROVE  /\ Cardinality(LostIn(s)) <= BatchCap + 1
                      /\ s = session' => Cardinality(LostIn(s)) + 0 <= BatchCap + 1
      OBVIOUS
  <2>1. CASE s = session'
        BY <1>6, <2>1
  <2>2. CASE s # session'
        BY <1>5, <1>7, <2>2
  <2> QED
      BY <2>1, <2>2
<1>9. IsFiniteSet(lost') /\ 1..Len(batchCh') = {}
      BY <1>1 DEF LossInv
<1> QED
    BY <1>1, <1>4, <1>8, <1>9 DEF LossInv

\* The runner only sends before anything is lost of its session.
LEMMA LossSends ==
    ASSUME TypeInv, Flow, Cover, LossInv, Sends
    PROVE  LossInv'
<1> USE HeldBatches, BoundsAssumption
<1>1. /\ runner \in {"flush", "final"} /\ session' = session /\ session \in Nat
      BY DEF Sends, FlushBatch, SendFinalBatch, DropFinalBatch, collectVars
<1>2. LostIn(session) = {}
      BY <1>1 DEF Cover, LostLater, Filling, LostIn, OfSession
<1>3. /\ CurrentBatch \in Batch /\ CurrentBatch.session = session
      /\ Len(batchCh) \in Nat /\ Len(batchCh) <= BatchCap
      BY <1>1, SentBatch DEF CurrentBatch, TypeInv, TypeOK, ChannelTypeOK
<1>4. CASE FlushBatch \/ SendFinalBatch
  <2>1. /\ batchCh' = Append(batchCh, CurrentBatch) /\ lost' = lost /\ Len(batchCh) < BatchCap
        BY <1>4 DEF FlushBatch, SendFinalBatch, history, RoomInChannel
  <2>2. /\ Len(batchCh') = Len(batchCh) + 1
        /\ \A k \in 1..Len(batchCh) : batchCh'[k] = batchCh[k]
        /\ batchCh'[Len(batchCh) + 1] = CurrentBatch
        BY <1>3, <2>1, PutBatch
  <2>3. \A k \in 1..Len(batchCh') : k \in 1..Len(batchCh) \/ k = Len(batchCh) + 1
        BY <1>3, <2>2
  <2>4. \A k \in 1..Len(batchCh') : OfSession(batchCh'[k])
        BY <1>3, <2>2, <2>3 DEF LossInv, OfSession
  <2>5. \A s : LostIn(s)' = LostIn(s)
        BY <2>1 DEF LostIn
  <2>6. Cardinality(LostIn(session)) = 0
        BY <1>2, FS_EmptySet
  <2> QED
      BY <1>1, <1>3, <2>1, <2>2, <2>4, <2>5, <2>6 DEF LossInv, OfSession
<1>5. CASE DropFinalBatch
  <2>1. lost' = lost \cup {CurrentBatch} /\ batchCh' = batchCh
        BY <1>5 DEF DropFinalBatch
  <2>2. IsFiniteSet(lost')
        BY <2>1, FS_AddElement DEF LossInv
  <2>3. LostIn(session)' = {CurrentBatch}
        BY <1>1, <1>2, <1>3, <2>1 DEF LostIn
  <2>4. \A s : s # session => {b \in lost' : b.session = s} = LostIn(s)
        BY <1>3, <2>1 DEF LostIn
  <2>5. Cardinality({b \in lost' : b.session = session}) = 1
        BY <1>1, <2>3, FS_Singleton DEF LostIn
  <2>6. \A s \in 1..session : Cardinality(LostIn(s)) <= BatchCap + 1
        BY DEF LossInv
  <2>7. ASSUME NEW s \in 1..session
        PROVE  /\ Cardinality({b \in lost' : b.session = s}) <= BatchCap + 1
               /\ s = session => Cardinality({b \in lost' : b.session = s}) + Len(batchCh)
                                  <= BatchCap + 1
    <3>1. CASE s = session
          BY <1>3, <2>5, <3>1
    <3>2. CASE s # session
          BY <2>4, <2>6, <3>2
    <3> QED
        BY <3>1, <3>2
  <2> QED
      BY <1>1, <2>1, <2>2, <2>7 DEF LossInv, OfSession, LostIn
<1> QED
    BY <1>4, <1>5 DEF Sends

\* The processor gives up the first batch of the channel.
LEMMA LossDrop ==
    ASSUME TypeInv, LossInv, DrainDrop
    PROVE  LossInv'
<1> USE HeldBatches, BoundsAssumption
<1>1. PICK h : h = Head(batchCh)
      OBVIOUS
<1>2. /\ batchCh # <<>> /\ batchCh' = Tail(batchCh) /\ lost' = lost \cup {h}
      /\ session' = session /\ session \in Nat
      BY <1>1 DEF DrainDrop, collectVars
<1>3. /\ Len(batchCh) \in Nat /\ Len(batchCh) > 0 /\ h = batchCh[1]
      /\ Len(batchCh') = Len(batchCh) - 1
      /\ \A k \in 1..Len(batchCh') : batchCh'[k] = batchCh[k + 1]
      BY <1>1, <1>2, TakeBatch
<1>4. 1 \in 1..Len(batchCh) /\ \A k \in 1..Len(batchCh') : k + 1 \in 1..Len(batchCh)
      BY <1>3
<1>5. h.session = session /\ \A k \in 1..Len(batchCh') : OfSession(batchCh'[k])
      BY <1>3, <1>4 DEF LossInv, OfSession
<1>6. IsFiniteSet(lost')
      BY <1>2, FS_AddElement DEF LossInv
<1>7. \A s : s # session => {b \in lost' : b.session = s} = LostIn(s)
      BY <1>2, <1>5 DEF LostIn
<1>8. {b \in lost' : b.session = session} = LostIn(session) \cup {h}
      BY <1>2, <1>5 DEF LostIn
<1>9. /\ Cardinality(LostIn(session)) \in Nat
      /\ Cardinality(LostIn(session) \cup {h}) \in Nat
      /\ Cardinality(LostIn(session) \cup {h}) <= Cardinality(LostIn(session)) + 1
  <2>1. IsFiniteSet(LostIn(session)) /\ Cardinality(LostIn(session)) \in Nat
        BY LostFinite DEF LossInv
  <2>2. PICK S : S = LostIn(session)
        OBVIOUS
  <2>3. /\ IsFiniteSet(S \cup {h})
        /\ Cardinality(S \cup {h}) = IF h \in S THEN Cardinality(S) ELSE Cardinality(S) + 1
        BY <2>1, <2>2, FS_AddElement
  <2>4. Cardinality(S \cup {h}) \in Nat
        BY <2>3, FS_CardinalityType
  <2> QED
      BY <2>1, <2>2, <2>3, <2>4
<1>10. \A s \in 1..session :
         /\ Cardinality({b \in lost' : b.session = s}) <= BatchCap + 1
         /\ s = session => Cardinality({b \in lost' : b.session = s}) + Len(batchCh')
                           <= BatchCap + 1
  <2> SUFFICES ASSUME NEW s \in 1..session
               PROVE  /\ Cardinality({b \in lost' : b.session = s}) <= BatchCap + 1
                      /\ s = session => Cardinality({b \in lost' : b.session = s}) + Len(batchCh')
                                        <= BatchCap + 1
      OBVIOUS
  <2>1. CASE s # session
        BY <1>7, <2>1 DEF LossInv
  <2>2. CASE s = session
    <3>1. Cardinality(LostIn(session)) + Len(batchCh) <= BatchCap + 1
          BY <2>2 DEF LossInv
    <3>2. PICK c : c = Cardinality(LostIn(session))
          OBVIOUS
    <3>3. PICK d : d = Cardinality(LostIn(session) \cup {h})
          OBVIOUS
    <3>4. c \in Nat /\ d \in Nat /\ d <= c + 1 /\ c + Len(batchCh) <= BatchCap + 1
          BY <1>9, <3>1, <3>2, <3>3
    <3>5. d <= BatchCap + 1 /\ d + Len(batchCh') <= BatchCap + 1
          BY <1>3, <3>4
    <3> QED
        BY <1>8, <2>2, <3>3, <3>5
  <2> QED
      BY <2>1, <2>2
<1> QED
    BY <1>2, <1>5, <1>6, <1>10 DEF LossInv, OfSession, LostIn

LEMMA LossStep ==
    ASSUME CoverInv, LossInv, [Next]_vars
    PROVE  LossInv'
<1> USE DEF CoverInv, sessionVars, batchVars, collectVars, history
<1>1. CASE CollectorNext
  <2>1. CASE StartRun
        BY <2>1, LossStartRun
  <2> QED
      BY <1>1, <2>1, LossKept DEF CollectorNext, CheckContinue, CheckStop, GatherFail,
         GatherRetry, RunReturnsError, RunReturnsNil, LeaveLoop
<1>2. CASE ExecNext \/ ScanPipe \/ PerfNext
      BY <1>2, LossKept DEF ExecNext, PrepareFails, Prepare, StartPerf, StartPerfFails,
         WaitReturns, ScanPipe, PerfNext, EmitLine, AppWrite, PerfExits, PerfFails
<1>3. CASE RunnerNext
  <2>1. CASE Sends
        BY <2>1, LossSends
  <2> QED
      BY <1>3, <2>1, LossKept DEF RunnerNext, Sends, ReceiveCmd, ReceivePrepareError,
         ReceiveLine, ReceiveExitCode, ReceiveStartError, CloseBatchChannel,
         CancelProcessing, ProcessingDone
<1>4. CASE ProcNext
  <2>1. CASE DrainDrop
        BY <2>1, LossDrop
  <2> QED
      BY <1>4, <2>1, LossKept DEF ProcNext, ProcessBatch, ProcessBatchFails, SendFrame,
         CheckTimeout, StopProcessing, DrainSend, DrainFails, Drained
<1>5. CASE PrinterNext \/ Interrupt \/ HandlerNext
      BY <1>5, LossKept DEF PrinterNext, PrintFrame, FramesClosed, PrintComplete,
         Interrupt, HandlerNext, HandlerWakes, KillChildren
<1>6. CASE UNCHANGED vars
      BY <1>6, LossKept DEF vars
<1> QED
    BY <1>1, <1>2, <1>3, <1>4, <1>5, <1>6 DEF Next, Returned

\* In every session the batches lost and those in the channel are bounded together.
THEOREM LossAlways == Spec => []LossInv
<1>1. Init => LossInv
      BY FS_EmptySet DEF Init, LossInv
<1>2. CoverInv /\ LossInv /\ [Next]_vars => LossInv'
      BY LossStep
<1> QED
    BY <1>1, <1>2, CoverAlways, PTL DEF Spec

\* However slow the printer is and whenever the pipeline is stopped, a run of perf loses no
\* more than what the batch channel holds and the one batch that did not fit.
THEOREM LossIsBounded == Spec => []LossBounded
<1>1. LossInv => LossBounded
      BY DEF LossInv, LossBounded, LostIn
<1> QED
    BY <1>1, LossAlways, PTL

----------------------------------------------------------------------------
(* The pipeline implements IntervalStream.                                 *)

\* The intervals of which perf has printed a line, and 0 for none.
Emitted == {0} \cup {Output[n] : n \in 1..emitted}

Greatest(m, S) == m \in S /\ \A x \in S : x <= m

(* MaxOf(Emitted) is a value: the refinement mapping is defined.           *)
HasMax == \E m \in Emitted : Greatest(m, Emitted)

LEMMA MaxOfIs ==
    ASSUME NEW S \in SUBSET Nat, NEW m \in S, Greatest(m, S)
    PROVE  MaxOf(S) = m
<1>1. \A k \in S : (\A x \in S : x <= k) => k = m
      BY DEF Greatest
<1> QED
    BY <1>1 DEF MaxOf, Greatest

LEMMA EmittedNat == ASSUME TypeInv PROVE Emitted \in SUBSET Nat
<1>1. \A n \in 1..emitted : n \in 1..Len(Output)
      BY OutputLines DEF TypeInv, TypeOK, StreamTypeOK
<1> QED
    BY <1>1, OutputLines DEF Emitted

\* perf writes a line: the greatest interval is the old one or that of the line.
LEMMA EmitLineMax ==
    ASSUME TypeInv, EmitLine, NEW m \in Emitted, Greatest(m, Emitted)
    PROVE  \E k \in Emitted' : /\ Greatest(k, Emitted') /\ Emitted' \in SUBSET Nat
                               /\ k \in Nat /\ m \in Nat /\ (k = m \/ m < k)
<1>1. emitted \in Nat /\ emitted' = emitted + 1 /\ emitted + 1 \in 1..Len(Output)
      BY OutputLines DEF EmitLine, TypeInv, TypeOK, StreamTypeOK
<1>2. PICK o \in Nat : o = Output[emitted + 1]
      BY <1>1, OutputLines
<1>3. \A n \in 1..emitted' : n \in 1..emitted \/ n = emitted + 1
      BY <1>1
<1>4. emitted + 1 \in 1..emitted' /\ \A n \in 1..emitted : n \in 1..emitted'
      BY <1>1
<1>5. Emitted' = Emitted \cup {o}
  <2>1. Emitted' \subseteq Emitted \cup {o}
        BY <1>2, <1>3 DEF Emitted
  <2>2. Emitted \cup {o} \subseteq Emitted'
        BY <1>2, <1>4 DEF Emitted
  <2> QED
      BY <2>1, <2>2
<1>6. Emitted \in SUBSET Nat /\ m \in Nat
      BY EmittedNat
<1>7. CASE o <= m
  <2>1. Greatest(m, Emitted') /\ m \in Emitted'
        BY <1>5, <1>7 DEF Greatest
  <2> QED
      BY <1>2, <1>5, <1>6, <2>1
<1>8. CASE m < o
  <2>1. o \in Emitted' /\ \A x \in Emitted' : x <= o
        BY <1>2, <1>5, <1>6, <1>8 DEF Greatest
  <2> QED
      BY <1>2, <1>5, <1>6, <1>8, <2>1 DEF Greatest
<1> QED
    BY <1>2, <1>6, <1>7, <1>8

Measured == <<session, MaxOf(Emitted)>>
Published == [i \in 1..Len(printed) |-> <<printed[i].session, printed[i].interval>>]

\* A step that does not change what is measured and printed.
LEMMA StreamStutters ==
    ASSUME UNCHANGED <<session, emitted, printed>>, (collector = "done")' = (collector = "done")
    PROVE  UNCHANGED Stream!streamVars
BY DEF Stream!streamVars

LEMMA StreamStartRun ==
    ASSUME TypeInv, StartRun
    PROVE  Stream!Measure /\ HasMax'
<1>1. session \in Nat /\ session' = session + 1 /\ emitted' = 0 /\ printed' = printed
      BY HeldBatches DEF StartRun, printVars
<1>2. (collector = "done")' = (collector = "done")
      BY DEF StartRun
<1>3. Emitted' = {0}
      BY <1>1 DEF Emitted
<1>4. MaxOf(Emitted') = 0 /\ Greatest(0, Emitted')
      BY <1>3, MaxOfIs DEF Greatest
<1>5. Measured' = <<session + 1, 0>>
      BY <1>1, <1>4 DEF Measured
<1>6. Published' = Published
      BY <1>1 DEF Published
<1>7. HasMax'
      BY <1>3, <1>4 DEF HasMax
<1>8. Stream!Earlier(Measured, Measured')
      BY <1>1, <1>5 DEF Stream!Earlier, Measured
<1> QED
    BY <1>1, <1>2, <1>5, <1>6, <1>7, <1>8 DEF Stream!Measure, Measured, Published, Emitted

LEMMA StreamEmitLine ==
    ASSUME TypeInv, HasMax, EmitLine
    PROVE  (Stream!Measure \/ UNCHANGED Stream!streamVars) /\ HasMax'
<1>1. PICK m \in Emitted : Greatest(m, Emitted)
      BY DEF HasMax
<1>2. PICK k \in Emitted' : /\ Greatest(k, Emitted') /\ Emitted' \in SUBSET Nat
                            /\ k \in Nat /\ m \in Nat /\ (k = m \/ m < k)
      BY <1>1, EmitLineMax
<1>3. MaxOf(Emitted) = m /\ MaxOf(Emitted') = k
      BY <1>1, <1>2, MaxOfIs, EmittedNat
<1>4. session \in Nat /\ UNCHANGED <<session, collector, printed>>
      BY HeldBatches DEF EmitLine, printVars, collectVars
<1>5. Measured = <<session, m>> /\ Measured' = <<session, k>>
      BY <1>3, <1>4 DEF Measured
<1>6. Published' = Published
      BY <1>4 DEF Published
<1>7. HasMax'
      BY <1>2 DEF HasMax
<1>8. CASE k = m
      BY <1>4, <1>5, <1>6, <1>7, <1>8 DEF Stream!streamVars, Measured, Published, Emitted
<1>9. CASE m < k
  <2>1. Stream!Earlier(Measured, Measured')
        BY <1>5, <1>9 DEF Stream!Earlier
  <2> QED
      BY <1>2, <1>4, <1>5, <1>6, <1>7, <2>1 DEF Stream!Measure, Measured, Published, Emitted
<1> QED
    BY <1>2, <1>8, <1>9

\* The frames printed are of an interval measured, later than those printed before.
LEMMA StreamPrintFrame ==
    ASSUME CoverInv, HasMax, PrintFrame
    PROVE  Stream!Publish
<1> USE DEF CoverInv
<1>1. /\ printer = "print" /\ printed' = Append(printed, page) /\ collector' = collector
      /\ UNCHANGED <<session, emitted>>
      BY DEF PrintFrame, sessionVars, collectVars
<1>2. page \in Batches /\ page \in Batch
      BY <1>1, HeldBatches DEF Flow, Batches, Kept, InFlight
<1>3. /\ page.session \in 1..session /\ page.interval \in Nat /\ session \in Nat
      BY <1>2 DEF Cover, Ranged, Batch
<1>4. PICK m \in Emitted : Greatest(m, Emitted)
      BY DEF HasMax
<1>5. MaxOf(Emitted) = m /\ m \in Nat
      BY <1>4, MaxOfIs, EmittedNat
<1>6. page.session = session => page.interval <= m
  <2> SUFFICES ASSUME page.session = session PROVE page.interval <= m
      OBVIOUS
  <2>1. PICK n \in 1..received : Output[n] = page.interval
        BY <1>2 DEF Cover, Covered, OfSession
  <2>2. n \in 1..emitted
        BY <2>1, OutputLines DEF TypeInv, TypeOK, StreamTypeOK
  <2> QED
      BY <1>4, <2>1, <2>2 DEF Emitted, Greatest
<1>7. PICK k : k = <<page.session, page.interval>>
      OBVIOUS
<1>8. k \in Nat \X Nat /\ ~Stream!Earlier(Measured, k)
  <2>1. page.session \in Nat /\ page.session <= session
        BY <1>3
  <2> QED
      BY <1>3, <1>5, <1>6, <1>7, <2>1 DEF Stream!Earlier, Measured
<1>9. /\ printed \in Seq(Batch) /\ Len(printed) \in Nat
      /\ Len(printed') = Len(printed) + 1
      /\ \A i \in 1..Len(printed) : printed'[i] = printed[i]
      /\ printed'[Len(printed) + 1] = page
      BY <1>1, <1>2, HeldBatches, PutBatch
<1>10. /\ Len(Published) = Len(printed) /\ Published \in Seq(Nat \X Int)
       /\ DOMAIN Published = 1..Len(printed)
  <2>1. \A i \in 1..Len(printed) : printed[i] \in Batch
        BY <1>9, ElementOfSeq
  <2>2. \A i \in 1..Len(printed) : printed[i].session \in Nat /\ printed[i].interval \in Int
        BY <2>1 DEF Batch
  <2>3. \A i \in 1..Len(printed) : <<printed[i].session, printed[i].interval>> \in Nat \X Int
        BY <2>2
  <2>4. Published \in [1..Len(printed) -> Nat \X Int]
        BY <2>3 DEF Published
  <2> QED
      BY <1>9, <2>4
<1>11. Published' = Append(Published, k)
  <2>1. PICK s : s = Append(Published, k)
        OBVIOUS
  <2>2. k \in Nat \X Int
        BY <1>8
  <2>3. /\ s \in Seq(Nat \X Int) /\ Len(s) = Len(printed) + 1 /\ DOMAIN s = 1..Len(s)
        /\ \A i \in 1..Len(printed) : s[i] = Published[i]
        /\ s[Len(printed) + 1] = k
        BY <1>10, <2>1, <2>2, AppendProperties, LenProperties
  <2>4. s = [i \in 1..(Len(printed) + 1) |-> s[i]]
        BY <2>3
  <2>5. \A i \in 1..(Len(printed) + 1) :
           <<printed'[i].session, printed'[i].interval>> = s[i]
    <3> SUFFICES ASSUME NEW i \in 1..(Len(printed) + 1)
                 PROVE  <<printed'[i].session, printed'[i].interval>> = s[i]
        OBVIOUS
    <3>1. CASE i \in 1..Len(printed)
          BY <1>9, <2>3, <3>1 DEF Published
    <3>2. CASE i = Len(printed) + 1
          BY <1>7, <1>9, <2>3, <3>2
    <3> QED
        BY <1>9, <3>1, <3>2
  <2>6. Published' = [i \in 1..(Len(printed) + 1) |-> s[i]]
        BY <1>9, <2>5 DEF Published
  <2> QED
      BY <2>1, <2>4, <2>6
<1>12. Published # <<>> => Stream!Earlier(Published[Len(Published)], k)
  <2> SUFFICES ASSUME Len(printed) > 0
               PROVE  Stream!Earlier(Published[Len(printed)], k)
      BY <1>9, <1>10
  <2>1. Len(printed) \in 1..Len(printed)
        BY <1>9
  <2>2. Before(printed[Len(printed)], page)
        BY <1>1, <2>1 DEF OrderInv, PageInOrder, AfterPrinted
  <2> QED
      BY <1>7, <2>1, <2>2 DEF Published, Before, Stream!Earlier
<1>13. collector # "done" /\ collector' # "done"
      BY <1>1 DEF Flow
<1>14. Measured' = Measured
      BY <1>1 DEF Measured, Emitted
<1>15. /\ Len(Published') = Len(Published) + 1
       /\ Published'[Len(Published')] = k
  <2>1. k \in Nat \X Int
        BY <1>8
  <2> QED
      BY <1>10, <1>11, <2>1
<1> QED
    BY <1>8, <1>11, <1>12, <1>13, <1>14, <1>15
       DEF Stream!Publish, Measured, Published, Emitted

LEMMA HasMaxKept == ASSUME HasMax, emitted' = emitted PROVE HasMax'
BY DEF HasMax, Emitted

LEMMA StreamStep ==
    ASSUME CoverInv, HasMax, [Next]_vars
    PROVE  [Stream!Next]_Stream!streamVars /\ HasMax'
<1> USE DEF CoverInv, sessionVars, streamVars, printVars, collectVars
<1>1. CASE StartRun
      BY <1>1, StreamStartRun DEF Stream!Next
<1>2. CASE EmitLine
      BY <1>2, StreamEmitLine DEF Stream!Next
<1>3. CASE PrintFrame
  <2>1. HasMax'
        BY <1>3, HasMaxKept DEF PrintFrame
  <2> QED
      BY <1>3, <2>1, StreamPrintFrame DEF Stream!Next
<1>4. CASE PrintComplete
  <2>1. HasMax'
        BY <1>4, HasMaxKept DEF PrintComplete
  <2>2. Stream!Finish
        BY <1>4 DEF PrintComplete, Stream!Finish
  <2> QED
      BY <2>1, <2>2 DEF Stream!Next
<1>5. CASE CollectorNext /\ ~StartRun
      BY <1>5, HasMaxKept, StreamStutters DEF CollectorNext, CheckContinue, CheckStop,
         GatherFail, GatherRetry, RunReturnsError, RunReturnsNil, LeaveLoop
<1>6. CASE ExecNext \/ ScanPipe \/ (PerfNext /\ ~EmitLine)
      BY <1>6, HasMaxKept, StreamStutters DEF ExecNext, PrepareFails, Prepare, StartPerf,
         StartPerfFails, WaitReturns, ScanPipe, PerfNext, AppWrite, PerfExits, PerfFails
<1>7. CASE RunnerNext
      BY <1>7, HasMaxKept, StreamStutters DEF RunnerNext, ReceiveCmd, ReceivePrepareError,
         ReceiveLine, FlushBatch, ReceiveExitCode, ReceiveStartError, SendFinalBatch,
         DropFinalBatch, CloseBatchChannel, CancelProcessing, ProcessingDone
<1>8. CASE ProcNext
      BY <1>8, HasMaxKept, StreamStutters DEF ProcNext, ProcessBatch, ProcessBatchFails,
         SendFrame, CheckTimeout, StopProcessing, DrainSend, DrainDrop, DrainFails, Drained
<1>9. CASE FramesClosed \/ Interrupt \/ HandlerNext
      BY <1>9, HasMaxKept, StreamStutters DEF FramesClosed, Interrupt, HandlerNext,
         HandlerWakes, KillChildren
<1>10. CASE UNCHANGED vars
      BY <1>10, HasMaxKept, StreamStutters DEF vars
<1> QED
    BY <1>1, <1>2, <1>3, <1>4, <1>5, <1>6, <1>7, <1>8, <1>9, <1>10
       DEF Next, Returned, PerfNext, PrinterNext

\* Through every refresh, signal, failed interval and drain, the frames printed are an ordered
\* selection of the intervals perf has measured, none of them twice, and none comes after the
\* output is complete.
THEOREM StreamIsImplemented == Spec => ImplementsStream
<1>1. Init => HasMax /\ Stream!Init
  <2> SUFFICES ASSUME Init PROVE HasMax /\ Stream!Init
      OBVIOUS
  <2>1. Emitted = {0}
        BY DEF Init, Emitted
  <2>2. MaxOf(Emitted) = 0 /\ Greatest(0, Emitted)
        BY <2>1, MaxOfIs DEF Greatest
  <2>3. HasMax
        BY <2>1, <2>2 DEF HasMax
  <2>4. Published = <<>>
        BY DEF Init, Published
  <2> QED
      BY <2>2, <2>3, <2>4 DEF Init, Stream!Init, Emitted, Published
<1>2. CoverInv /\ HasMax /\ [Next]_vars => [Stream!Next]_Stream!streamVars /\ HasMax'
      BY StreamStep
<1> QED
    BY <1>1, <1>2, CoverAlways, PTL DEF Spec, ImplementsStream, Stream!Spec

----------------------------------------------------------------------------
(* Why the application is shut down.                                       *)

\* The batches that are or will be printed, unless they are lost.
Live == (SetOf(batchCh) \cup {frame, page} \cup SetOf(printed)) \ {NoBatch}

\* The intervals that failed, b and later; b to c.
FailedFrom(b)     == {f \in failed : ~Before(f, b)}
FailedAmong(b, c) == {f \in failed : ~Before(f, b) /\ ~Before(c, f)}

\* More than MaxErrors intervals of one run of perf failed, none between them was printed and
\* none will be.
Cause(b, c) == /\ b.session = c.session
               /\ Cardinality(FailedAmong(b, c)) > MaxErrors
               /\ \A x \in Live : Before(x, b) \/ Before(c, x)

Reason == sigSent \/ HasCgroupTimeout \/ \E b, c \in failed : Cause(b, c)

\* A batch that failed was taken from the channel before those in it.
FailedFirst == \A f \in failed : \A k \in 1..Len(batchCh) : Before(f, batchCh[k])

AfterShown(b) == AfterPrinted(b) /\ (printer = "print" => Before(page, b))

(* numConsecutiveProcessEventErrors counts intervals of this run of perf   *)
(* that failed after every frame sent.                                     *)
Processing == {"select", "send", "tick"}
InStreak(b) == OfSession(b) /\ Cardinality(FailedFrom(b)) >= numErr /\ AfterShown(b)
Streak == proc \in Processing /\ numErr > 0 => \E b \in failed : InStreak(b)

Fresh == runner = "start" => proc = "idle" /\ numErr = 0

CauseInv == /\ IsFiniteSet(failed) /\ FailedFirst /\ Streak /\ Fresh
            /\ ctxDone => Reason

LEMMA BeforeOrder ==
    ASSUME NEW b \in Batch, NEW c \in Batch
    PROVE  ~Before(b, b) /\ ~(Before(b, c) /\ Before(c, b))
<1>1. /\ b.session \in Nat /\ c.session \in Nat
      /\ b.interval \in Int /\ c.interval \in Int
      BY DEF Batch
<1> QED
    BY <1>1 DEF Before

\* A reason stays one: what failed has failed, and what is sent comes later.
LEMMA ReasonStays ==
    ASSUME Reason, IsFiniteSet(failed'), failed \subseteq failed', flags' = flags,
           sigSent => sigSent',
           \A x \in Live' : x \in Live \/ \A c \in failed : Before(c, x)
    PROVE  Reason'
<1>1. CASE sigSent \/ HasCgroupTimeout
      BY <1>1 DEF Reason, HasCgroupTimeout
<1>2. CASE \E b, c \in failed : Cause(b, c)
  <2>1. PICK b \in failed, c \in failed : Cause(b, c)
        BY <1>2
  <2>2. FailedAmong(b, c) \subseteq FailedAmong(b, c)'
        BY DEF FailedAmong
  <2>3. IsFiniteSet(FailedAmong(b, c)')
    <3>1. FailedAmong(b, c)' \in SUBSET failed'
          BY DEF FailedAmong
    <3> QED
        BY <3>1, FS_Subset
  <2>4. PICK S : S = FailedAmong(b, c)
        OBVIOUS
  <2>5. PICK T : T = FailedAmong(b, c)'
        OBVIOUS
  <2>6. /\ IsFiniteSet(S) /\ Cardinality(S) <= Cardinality(T)
        /\ Cardinality(S) \in Nat /\ Cardinality(T) \in Nat /\ Cardinality(S) > MaxErrors
        BY <2>1, <2>2, <2>3, <2>4, <2>5, FS_Subset, FS_CardinalityType DEF Cause
  <2>7. Cardinality(T) > MaxErrors
        BY <2>6, BoundsAssumption
  <2>8. Cause(b, c)'
        BY <2>1, <2>5, <2>7 DEF Cause
  <2> QED
      BY <2>1, <2>8 DEF Reason
<1> QED
    BY <1>1, <1>2 DEF Reason

\* A step in which nothing fails and nothing is sent.
LEMMA CauseKept ==
    ASSUME TypeInv, CauseInv, failed' = failed, flags' = flags, sigSent => sigSent',
           ctxDone' => ctxDone \/ sigSent' \/ HasCgroupTimeout,
           Live' \subseteq Live,
           batchCh' = batchCh \/ batchCh' = <<>> \/ (batchCh # <<>> /\ batchCh' = Tail(batchCh)),
           \/ proc' \notin Processing \/ numErr' = 0
           \/ /\ proc \in Processing /\ UNCHANGED <<session, numErr, printed>>
              /\ printer' = "print" => printer = "print" /\ page' = page,
           runner' = "start" => \/ runner = "start" /\ UNCHANGED <<proc, numErr>>
                                \/ proc' = "idle" /\ numErr' = 0
    PROVE  CauseInv'
<1> USE DEF CauseInv
<1>1. FailedFirst'
  <2>1. CASE batchCh' = batchCh
        BY <2>1 DEF FailedFirst
  <2>2. CASE batchCh' = <<>>
        BY <2>2 DEF FailedFirst
  <2>3. CASE batchCh # <<>> /\ batchCh' = Tail(batchCh)
    <3>1. /\ Len(batchCh) \in Nat /\ Len(batchCh') = Len(batchCh) - 1
          /\ \A k \in 1..Len(batchCh') : batchCh'[k] = batchCh[k + 1]
          BY <2>3, HeldBatches, TakeBatch
    <3>2. \A k \in 1..Len(batchCh') : k + 1 \in 1..Len(batchCh)
          BY <3>1
    <3> QED
        BY <3>1, <3>2 DEF FailedFirst
  <2> QED
      BY <2>1, <2>2, <2>3
<1>2. Streak'
  <2> SUFFICES ASSUME proc' \in Processing, numErr' > 0
               PROVE  \E b \in failed : InStreak(b)'
      BY DEF Streak
  <2>1. /\ proc \in Processing /\ UNCHANGED <<session, numErr, printed>>
        /\ printer' = "print" => printer = "print" /\ page' = page
        OBVIOUS
  <2>2. PICK b \in failed : InStreak(b)
        BY <2>1 DEF Streak
  <2>3. InStreak(b)'
        BY <2>1, <2>2 DEF InStreak, OfSession, FailedFrom, AfterShown, AfterPrinted
  <2> QED
      BY <2>3
<1>3. Fresh'
      BY DEF Fresh
<1>4. ctxDone' => Reason'
  <2>1. CASE ctxDone
        BY <2>1, ReasonStays
  <2>2. CASE sigSent' \/ HasCgroupTimeout
        BY <2>2 DEF Reason, HasCgroupTimeout
  <2> QED
      BY <2>1, <2>2
<1> QED
    BY <1>1, <1>2, <1>3, <1>4

\* The runner sends a batch: it is later than all that failed.
LEMMA CauseSend ==
    ASSUME CoverInv, CauseInv, FlushBatch \/ SendFinalBatch, flags' = flags
    PROVE  CauseInv'
<1> USE DEF CoverInv, CauseInv
<1>1. /\ runner \in {"flush", "final"} /\ batchCh' = Append(batchCh, CurrentBatch)
      /\ runner' # "start"
      /\ UNCHANGED <<failed, ctxDone, sigSent, session, proc, numErr, frame, page, printer,
                     printed>>
      BY DEF FlushBatch, SendFinalBatch, procVars, printVars, collectVars, signalVars, history
<1>2. CurrentBatch \in Batch
      BY <1>1, SentBatch
<1>3. \A f \in failed : Before(f, CurrentBatch)
  <2> SUFFICES ASSUME NEW f \in failed PROVE Before(f, CurrentBatch)
      OBVIOUS
  <2>1. f \in Batches
        BY DEF Batches, Kept
  <2>2. f.session \in 1..session /\ session \in Nat
        BY <2>1 DEF Cover, Ranged
  <2>3. f.session = session => f.interval < curInterval
        BY <1>1, <2>1 DEF Cover, SealedAll, Filling, OfSession
  <2>4. f.session < session \/ f.session = session
        BY <2>2
  <2> QED
      BY <2>3, <2>4 DEF Before, CurrentBatch
<1>4. /\ Len(batchCh) \in Nat /\ Len(batchCh') = Len(batchCh) + 1
      /\ \A k \in 1..Len(batchCh) : batchCh'[k] = batchCh[k]
      /\ batchCh'[Len(batchCh) + 1] = CurrentBatch
      BY <1>1, <1>2, HeldBatches, PutBatch
<1>5. FailedFirst'
  <2>1. \A k \in 1..Len(batchCh') : k \in 1..Len(batchCh) \/ k = Len(batchCh) + 1
        BY <1>4
  <2>2. \A f \in failed : \A k \in 1..Len(batchCh') : Before(f, batchCh'[k])
        BY <1>3, <1>4, <2>1 DEF FailedFirst
  <2> QED
      BY <1>1, <2>2 DEF FailedFirst
<1>6. \A x \in Live' : x \in Live \/ x = CurrentBatch
  <2>1. SetOf(batchCh') = SetOf(batchCh) \cup {CurrentBatch}
        BY <1>1, <1>2, HeldBatches, SetOfAppend
  <2> QED
      BY <1>1, <2>1 DEF Live
<1>7. Streak'
      BY <1>1 DEF Streak, InStreak, OfSession, FailedFrom, AfterShown, AfterPrinted
<1>8. ctxDone' => Reason'
      BY <1>1, <1>3, <1>6, ReasonStays
<1> QED
    BY <1>1, <1>5, <1>7, <1>8 DEF Fresh

\* A frame is printed: what failed since it was sent is after it.
LEMMA CausePrint ==
    ASSUME CoverInv, CauseInv, PrintFrame, flags' = flags
    PROVE  CauseInv'
<1> USE DEF CoverInv, CauseInv
<1>1. /\ printer = "print" /\ printer' = "range" /\ page' = NoBatch
      /\ printed' = Append(printed, page)
      /\ UNCHANGED <<failed, ctxDone, sigSent, session, proc, numErr, frame, batchCh, runner>>
      BY DEF PrintFrame, sessionVars, collectVars, signalVars, history
<1>2. /\ Len(printed) \in Nat /\ Len(printed') = Len(printed) + 1
      /\ \A k \in 1..Len(printed) : printed'[k] = printed[k]
      /\ printed'[Len(printed) + 1] = page
      /\ SetOf(printed') = SetOf(printed) \cup {page}
      BY <1>1, HeldBatches, PutBatch, SetOfAppend
<1>3. Live' \subseteq Live
      BY <1>1, <1>2 DEF Live
<1>4. \A b : AfterShown(b) => AfterShown(b)'
  <2>1. \A k \in 1..Len(printed') : k \in 1..Len(printed) \/ k = Len(printed) + 1
        BY <1>2
  <2>2. \A b : AfterShown(b) => \A k \in 1..Len(printed') : Before(printed'[k], b)
        BY <1>1, <1>2, <2>1 DEF AfterShown, AfterPrinted
  <2> QED
      BY <1>1, <2>2 DEF AfterShown, AfterPrinted
<1>5. Streak'
      BY <1>1, <1>4 DEF Streak, InStreak, OfSession, FailedFrom
<1>6. ctxDone' => Reason'
      BY <1>1, <1>3, ReasonStays
<1> QED
    BY <1>1, <1>5, <1>6 DEF Fresh, FailedFirst

\* An interval fails: it joins those that failed since the last frame sent, and when there
\* are too many of them, they are the reason for the shutdown.
LEMMA CauseFails ==
    ASSUME CoverInv, LossInv, CauseInv, ProcessBatchFails \/ DrainFails, flags' = flags
    PROVE  CauseInv'
<1> USE DEF CoverInv, CauseInv
<1>1. PICK h : h = Head(batchCh)
      OBVIOUS
<1>2. /\ batchCh # <<>> /\ batchCh' = Tail(batchCh) /\ failed' = failed \cup {h}
      /\ proc \in {"select", "drain"}
      /\ UNCHANGED <<sigSent, session, frame, page, printer, printed, runner>>
      BY <1>1 DEF ProcessBatchFails, DrainFails, procVars, printVars, collectVars, signalVars
<1>3. /\ h \in Batch /\ Len(batchCh) \in Nat /\ Len(batchCh) > 0 /\ h = batchCh[1]
      /\ Len(batchCh') = Len(batchCh) - 1
      /\ \A k \in 1..Len(batchCh') : batchCh'[k] = batchCh[k + 1]
      BY <1>1, <1>2, HeldBatches, TakeBatch
<1>4. 1 \in 1..Len(batchCh) /\ \A k \in 1..Len(batchCh') : k + 1 \in 1..Len(batchCh) /\ 1 < k + 1
      BY <1>3
<1>5. /\ \A f \in failed : Before(f, h)
      /\ \A k \in 1..Len(batchCh') : Before(h, batchCh'[k])
      /\ OfSession(h) /\ AfterShown(h)
  <2>1. \A f \in failed : Before(f, h)
        BY <1>3, <1>4 DEF FailedFirst
  <2>2. \A k \in 1..Len(batchCh') : Before(h, batchCh'[k])
        BY <1>3, <1>4 DEF OrderInv, ChannelInOrder
  <2>3. OfSession(h)
        BY <1>3, <1>4 DEF LossInv
  <2>4. AfterShown(h)
        BY <1>3, <1>4 DEF OrderInv, ChannelInOrder, AfterTaken, AfterShown
  <2> QED
      BY <2>1, <2>2, <2>3, <2>4
<1>6. /\ h \notin failed /\ failed \subseteq Batch /\ ~Before(h, h)
      /\ \A f \in failed : ~Before(h, f)
  <2>1. failed \subseteq Batch
        BY DEF TypeInv, TypeOK, HistoryTypeOK
  <2> QED
      BY <1>3, <1>5, <2>1, BeforeOrder
<1>7. FailedFirst'
  <2>1. \A f \in failed : \A k \in 1..Len(batchCh') : Before(f, batchCh'[k])
        BY <1>3, <1>4 DEF FailedFirst
  <2> QED
      BY <1>2, <1>5, <2>1 DEF FailedFirst
<1>8. IsFiniteSet(failed')
      BY <1>2, FS_AddElement
<1>9. Live' \subseteq Live
      BY <1>2, ChannelTaken DEF Live
<1>10. Reason => Reason'
      BY <1>2, <1>8, <1>9, ReasonStays
<1>11. Fresh'
      BY <1>2 DEF Fresh
<1>12. CASE DrainFails
  <2>1. proc' = "drain" /\ ctxDone' = ctxDone
        BY <1>12 DEF DrainFails, procVars, signalVars
  <2> QED
      BY <1>7, <1>8, <1>10, <1>11, <2>1 DEF Streak, Processing
<1>13. CASE ProcessBatchFails
  <2>1. /\ numErr \in Nat /\ numErr' = numErr + 1 /\ proc = "select" /\ proc' = "tick"
        /\ ctxDone' = (ctxDone \/ numErr + 1 > MaxErrors)
        BY <1>13 DEF ProcessBatchFails, TypeInv, TypeOK, ProcTypeOK
  <2>2. \A b : AfterShown(b)' = AfterShown(b)
        BY <1>2 DEF AfterShown, AfterPrinted
  <2>3. \E b \in failed' : /\ OfSession(b) /\ AfterShown(b)
                           /\ Cardinality(FailedFrom(b)') >= numErr + 1
    <3>1. CASE numErr = 0
      <4>1. FailedFrom(h)' = {h}
            BY <1>2, <1>5, <1>6 DEF FailedFrom
      <4>2. Cardinality(FailedFrom(h)') = 1
            BY <4>1, FS_Singleton
      <4> QED
          BY <1>2, <1>5, <3>1, <4>2
    <3>2. CASE numErr > 0
      <4>1. PICK b \in failed : InStreak(b)
            BY <2>1, <3>2 DEF Streak, Processing
      <4>2. FailedFrom(b)' = FailedFrom(b) \cup {h} /\ h \notin FailedFrom(b)
            BY <1>2, <1>6 DEF FailedFrom
      <4>3. IsFiniteSet(FailedFrom(b))
        <5>1. FailedFrom(b) \in SUBSET failed
              BY DEF FailedFrom
        <5> QED
            BY <5>1, FS_Subset
      <4>4. PICK S : S = FailedFrom(b)
            OBVIOUS
      <4>5. /\ Cardinality(S \cup {h}) = Cardinality(S) + 1
            /\ Cardinality(S) \in Nat /\ Cardinality(S) >= numErr
            BY <4>1, <4>2, <4>3, <4>4, FS_AddElement, FS_CardinalityType DEF InStreak
      <4>6. Cardinality(S \cup {h}) >= numErr + 1
            BY <2>1, <4>5
      <4> QED
          BY <1>2, <4>1, <4>2, <4>4, <4>6 DEF InStreak
    <3> QED
        BY <2>1, <3>1, <3>2
  <2>4. PICK b \in failed' : /\ OfSession(b) /\ AfterShown(b)
                             /\ Cardinality(FailedFrom(b)') >= numErr + 1
        BY <2>3
  <2>5. Streak'
        BY <1>2, <2>1, <2>2, <2>4 DEF Streak, InStreak, OfSession
  <2>6. ASSUME numErr + 1 > MaxErrors
        PROVE  Reason'
    <3>1. FailedAmong(b, h)' = FailedFrom(b)'
          BY <1>2, <1>6 DEF FailedAmong, FailedFrom
    <3>2. PICK d : d = Cardinality(FailedFrom(b)')
          OBVIOUS
    <3>3. FailedFrom(b)' \in SUBSET failed'
          BY DEF FailedFrom
    <3>4. d \in Nat
          BY <1>8, <3>2, <3>3, FS_Subset, FS_CardinalityType
    <3>5. d > MaxErrors
          BY <2>1, <2>4, <2>6, <3>2, <3>4, BoundsAssumption
    <3>6. \A x \in Live' : Before(x, b) \/ Before(h, x)
      <4> SUFFICES ASSUME NEW x \in Live' PROVE Before(x, b) \/ Before(h, x)
          OBVIOUS
      <4>1. x # NoBatch /\ frame = NoBatch
            BY <2>1 DEF Live, Flow
      <4>2. CASE x \in SetOf(batchCh')
            BY <1>5, <4>2 DEF SetOf
      <4>3. CASE x \in SetOf(printed)
            BY <2>4, <4>3 DEF SetOf, AfterShown, AfterPrinted
      <4>4. CASE x = page
            BY <2>4, <4>1, <4>4 DEF Flow, AfterShown
      <4> QED
          BY <1>2, <4>1, <4>2, <4>3, <4>4 DEF Live
    <3>7. b.session = h.session
          BY <1>5, <2>4 DEF OfSession
    <3>8. Cause(b, h)'
          BY <3>1, <3>2, <3>5, <3>6, <3>7 DEF Cause
    <3> QED
        BY <1>2, <3>8 DEF Reason
  <2>7. ctxDone' => Reason'
        BY <1>10, <2>1, <2>6
  <2> QED
      BY <1>7, <1>8, <1>11, <2>5, <2>7
<1> QED
    BY <1>12, <1>13

LEMMA CauseStep ==
    ASSUME CoverInv, LossInv, CauseInv, [Next]_vars
    PROVE  CauseInv'
<1> USE DEF CoverInv, Live, sessionVars, batchVars, procVars, printVars, collectVars, signalVars,
        history
<1>1. CASE CollectorNext /\ Same
  <2>1. CASE StartRun
        BY <1>1, <2>1, CauseKept, NothingIn DEF StartRun, Same, Processing
  <2> QED
      BY <1>1, <2>1, CauseKept DEF CollectorNext, CheckContinue, CheckStop, GatherFail,
         GatherRetry, RunReturnsError, RunReturnsNil, Same, CauseInv, Fresh
<1>2. CASE (ExecNext \/ ScanPipe \/ PerfNext) /\ Same
      BY <1>2, CauseKept DEF ExecNext, PrepareFails, Prepare, StartPerf, StartPerfFails,
         WaitReturns, ScanPipe, PerfNext, EmitLine, AppWrite, PerfExits, PerfFails, Same
<1>3. CASE RunnerNext /\ Same
  <2>1. CASE FlushBatch \/ SendFinalBatch
        BY <1>3, <2>1, CauseSend DEF Same
  <2>2. CASE ReceiveCmd
        BY <1>3, <2>2, CauseKept DEF ReceiveCmd, Same, CauseInv, Fresh
  <2> QED
      BY <1>3, <2>1, <2>2, CauseKept DEF RunnerNext, ReceivePrepareError, ReceiveLine,
         ReceiveExitCode, ReceiveStartError, DropFinalBatch, CloseBatchChannel,
         CancelProcessing, ProcessingDone, Same
<1>4. CASE ProcNext /\ Same
  <2>1. CASE ProcessBatchFails \/ DrainFails
        BY <1>4, <2>1, CauseFails DEF Same
  <2>2. CASE ProcessBatch
        BY <1>4, <2>2, CauseKept, ChannelTaken DEF ProcessBatch, Same, CauseInv, Fresh, Processing
  <2>3. CASE SendFrame
        BY <1>4, <2>3, CauseKept DEF SendFrame, Same, CauseInv, Fresh
  <2>4. CASE DrainSend \/ DrainDrop
    <3>1. Live' \subseteq Live
          BY <2>4, ChannelTaken DEF DrainSend, DrainDrop
    <3>2. proc' \notin Processing /\ runner' # "start"
          BY <2>4 DEF DrainSend, DrainDrop, CauseInv, Fresh, Processing
    <3> HIDE DEF CoverInv, Live
    <3> QED
        BY <1>4, <2>4, <3>1, <3>2, CauseKept DEF DrainSend, DrainDrop, Same, CoverInv
  <2>5. CASE CheckTimeout \/ StopProcessing \/ Drained
        BY <1>4, <2>5, CauseKept DEF CheckTimeout, StopProcessing, Drained, Same, CauseInv,
           Fresh, Processing
  <2> QED
      BY <1>4, <2>1, <2>2, <2>3, <2>4, <2>5 DEF ProcNext
<1>5. CASE PrinterNext /\ Same
  <2>1. CASE PrintFrame
        BY <1>5, <2>1, CausePrint DEF Same
  <2> QED
      BY <1>5, <2>1, CauseKept DEF PrinterNext, FramesClosed, PrintComplete, Same
<1>6. CASE (Interrupt \/ HandlerNext) /\ Same
      BY <1>6, CauseKept DEF Interrupt, HandlerNext, HandlerWakes, KillChildren, Same
<1>7. CASE UNCHANGED vars
      BY <1>7, CauseKept DEF vars
<1> QED
    BY <1>1, <1>2, <1>3, <1>4, <1>5, <1>6, <1>7 DEF Next, Returned

\* The whole application is shut down for one of three reasons only: the user asked for it, a
\* cgroup collection timed out, or more than MaxErrors intervals of one run of perf failed with
\* no frame printed between them, however the sends, the prints and the signal interleave.
THEOREM ShutdownsHaveCauses == Spec => []ShutdownHasCause
<1>1. Init => CauseInv
      BY FS_EmptySet DEF Init, CauseInv, FailedFirst, Streak, Fresh, Processing
<1>2. CoverInv /\ LossInv /\ CauseInv /\ [Next]_vars => CauseInv'
      BY CauseStep
<1>3. CoverInv /\ CauseInv => ShutdownHasCause
  <2> SUFFICES ASSUME CoverInv, CauseInv, ctxDone
               PROVE  \/ sigSent \/ HasCgroupTimeout
                      \/ \E b, c \in failed :
                           /\ b.session = c.session
                           /\ Cardinality({f \in failed : ~Before(f, b) /\ ~Before(c, f)})
                                > MaxErrors
                           /\ ~\E f \in SetOf(printed) : ~Before(f, b) /\ ~Before(c, f)
      BY DEF ShutdownHasCause
  <2>1. SetOf(printed) \subseteq Live
        BY DEF CoverInv, Named, Live
  <2> QED
      BY <2>1 DEF CauseInv, Reason, Cause, FailedAmong
<1> QED
    BY <1>1, <1>2, <1>3, CoverAlways, LossAlways, PTL DEF Spec

============================================================================
