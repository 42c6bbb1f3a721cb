---------------------------- MODULE MetricsRun ----------------------------
(***************************************************************************)
(* The life of one "perfspect metrics" command over several targets: the   *)
(* targets that could not be created are dropped, the others are prepared  *)
(* in parallel, which disables their NMI watchdog and changes their perf   *)
(* multiplexing intervals, metrics are collected on them, and the deferred *)
(* functions of runCmd put the settings back.                              *)
(*                                                                         *)
(*   main      runCmd                                                      *)
(*   phase[t]  prepareTarget, prepareMetrics and collectOnTarget of t; the *)
(*             inside of collectOnTarget is the subject of PerfPipeline    *)
(*   handler   handleSignals                                               *)
(*                                                                         *)
(* A command on a target is a child process from the moment its goroutine  *)
(* enters the phase that runs it until the action that completes the       *)
(* phase.  It may fail in between, with or without effect, when Faults     *)
(* allows it or when the signal handler has killed it.                     *)
(***************************************************************************)
EXTENDS Integers, Sequences, FiniteSets, SequencesExt

CONSTANTS
    Targets,   (* the targets of the command line or the targets file, in order *)
    NoRoot,    (* flagNoRoot                                               *)
    Faults     (* commands on targets can fail by themselves               *)

ASSUME TargetsAssumption ==
    /\ Targets \in Seq(STRING) /\ Targets # <<>> /\ IsInjective(Targets)
    /\ NoRoot \in BOOLEAN /\ Faults \in BOOLEAN

Target == ToSet(Targets)

VARIABLES
    main,        (* where runCmd is                                        *)
    myTargets,   (* the targets that remain                                *)
    cursor,      (* the index of the loop over targetErrs or contexts      *)
    received,    (* messages received from channelTargetError              *)
    numPrepared, (* those without an error                                 *)
    failure,     (* runCmd will return an error                            *)
    targetErr,   (* targetErrs[t] is set                                   *)
    phase,       (* where the goroutine of each target is                  *)
    err,         (* targetContext.err is set                               *)
    nmiDisabled, (* targetContext.nmiDisabled                              *)
    muxSet,      (* targetContext.perfMuxIntervalsSet                      *)
    nmi,         (* kernel.nmi_watchdog of the target                      *)
    hadNmi,      (* its value before the command                           *)
    mux,         (* the multiplexing intervals of the target               *)
    ctxDone,     (* signalManager.ctx is cancelled                         *)
    sigSent,     (* the user has sent a signal                             *)
    handler,     (* where handleSignals is                                 *)
    killed,      (* the targets whose running command was killed           *)
    troubled     (* history: the targets on which a set command went wrong *)

loopVars    == <<myTargets, cursor, received, numPrepared>>
contextVars == <<err, nmiDisabled, muxSet>>
targetVars  == <<nmi, mux>>
signalVars  == <<ctxDone, sigSent, handler>>
fixed       == <<targetErr, hadNmi>>
vars == <<main, loopVars, failure, phase, contextVars, targetVars, signalVars, fixed,
          killed, troubled>>

Contexts == ToSet(myTargets)

Init ==
    /\ main = "remove" /\ myTargets = Targets /\ cursor = 1
    /\ received = 0 /\ numPrepared = 0 /\ failure = FALSE
    /\ targetErr \in [Target -> BOOLEAN]
    /\ phase = [t \in Target |-> "idle"]
    /\ err = [t \in Target |-> FALSE]
    /\ nmiDisabled = [t \in Target |-> FALSE] /\ muxSet = [t \in Target |-> FALSE]
    /\ hadNmi \in [Target -> BOOLEAN] /\ nmi = hadNmi
    /\ mux = [t \in Target |-> "original"]
    /\ ctxDone = FALSE /\ sigSent = FALSE /\ handler = "waiting"
    /\ killed = {} /\ troubled = {}

----------------------------------------------------------------------------
(* runCmd: the targets that could not be created.                          *)

\* for i := range targetErrs: the entry at the index of the error is deleted
\* from a list that earlier deletions have made shorter.
RemoveTarget ==
    /\ main = "remove" /\ cursor <= Len(Targets)
    /\ IF ~targetErr[Targets[cursor]] THEN UNCHANGED <<main, myTargets>>
       ELSE IF cursor <= Len(myTargets)
            THEN myTargets' = RemoveAt(myTargets, cursor) /\ UNCHANGED main
            ELSE main' = "panicked" /\ UNCHANGED myTargets
    /\ cursor' = cursor + 1
    /\ UNCHANGED <<received, numPrepared, failure, phase, contextVars, targetVars, signalVars,
                   fixed, killed, troubled>>

\* No target remains, the architectures differ or perf cannot be extracted.
ReturnEarly ==
    /\ main = "remove" /\ cursor > Len(Targets)
    /\ main' = "exited" /\ failure' = TRUE
    /\ UNCHANGED <<loopVars, phase, contextVars, targetVars, signalVars, fixed, killed, troubled>>

\* go prepareTarget(...)
StartPrepare ==
    /\ main = "remove" /\ cursor > Len(Targets) /\ myTargets # <<>>
    /\ main' = "prepare"
    /\ phase' = [t \in Target |-> IF t \notin Contexts THEN "idle"
                                  ELSE IF NoRoot THEN "perf" ELSE "pmu"]
    /\ UNCHANGED <<loopVars, failure, contextVars, targetVars, signalVars, fixed, killed,
                   troubled>>

----------------------------------------------------------------------------
(* prepareTarget.                                                          *)

Working == main \notin {"exited", "panicked", "dead"}

CanFail(t) == Faults \/ t \in killed

\* A command of t is over, and its goroutine goes on.
GoTo(t, next) == phase' = [phase EXCEPT ![t] = next] /\ killed' = killed \ {t}

\* targetContext.err = err; channelError <- targetError{...}
Fail(t) == /\ CanFail(t)
           /\ err' = [err EXCEPT ![t] = TRUE]
           /\ GoTo(t, "send")

CheckPMU(t) ==
    /\ Working /\ phase[t] = "pmu"
    /\ \/ GoTo(t, "getNmi") /\ UNCHANGED err
       \/ Fail(t)
    /\ UNCHANGED <<main, loopVars, failure, nmiDisabled, muxSet, targetVars, signalVars, fixed,
                   troubled>>

\* Mutant of GetNmi: the watchdog is disabled whatever its state.
GetNmiBlindly(t) ==
    /\ Working /\ phase[t] = "getNmi"
    /\ \/ GoTo(t, "setNmi") /\ UNCHANGED err
       \/ Fail(t)
    /\ UNCHANGED <<main, loopVars, failure, nmiDisabled, muxSet, targetVars, signalVars, fixed,
                   troubled>>

\* NMIWatchdogEnabled
GetNmi(t) ==
    /\ Working /\ phase[t] = "getNmi"
    /\ \/ GoTo(t, IF nmi[t] THEN "setNmi" ELSE "getMux") /\ UNCHANGED err
       \/ Fail(t)
    /\ UNCHANGED <<main, loopVars, failure, nmiDisabled, muxSet, targetVars, signalVars, fixed,
                   troubled>>

\* DisableNMIWatchdog: the script.  One that fails may have had its effect.
SetNmi(t) ==
    /\ Working /\ phase[t] = "setNmi"
    /\ \/ /\ nmi' = [nmi EXCEPT ![t] = FALSE]
          /\ GoTo(t, "checkNmi") /\ UNCHANGED <<err, troubled>>
       \/ /\ \E on \in {nmi[t], FALSE} : nmi' = [nmi EXCEPT ![t] = on]
          /\ Fail(t) /\ troubled' = troubled \cup {t}
    /\ UNCHANGED <<main, loopVars, failure, nmiDisabled, muxSet, mux, signalVars, fixed>>

\* DisableNMIWatchdog: reading the value back.
CheckNmi(t) ==
    /\ Working /\ phase[t] = "checkNmi"
    /\ \/ /\ ~nmi[t]
          /\ nmiDisabled' = [nmiDisabled EXCEPT ![t] = TRUE]
          /\ GoTo(t, "getMux") /\ UNCHANGED <<err, troubled>>
       \/ /\ Fail(t) /\ troubled' = troubled \cup {t}
          /\ UNCHANGED nmiDisabled
    /\ UNCHANGED <<main, loopVars, failure, muxSet, targetVars, signalVars, fixed>>

GetMux(t) ==
    /\ Working /\ phase[t] = "getMux"
    /\ \/ GoTo(t, "setMux") /\ UNCHANGED err
       \/ Fail(t)
    /\ UNCHANGED <<main, loopVars, failure, nmiDisabled, muxSet, targetVars, signalVars, fixed,
                   troubled>>

\* SetAllMuxIntervals
SetMux(t) ==
    /\ Working /\ phase[t] = "setMux"
    /\ \/ /\ mux' = [mux EXCEPT ![t] = "changed"]
          /\ muxSet' = [muxSet EXCEPT ![t] = TRUE]
          /\ GoTo(t, "perf") /\ UNCHANGED <<err, troubled>>
       \/ /\ \E m \in {"original", "changed"} : mux' = [mux EXCEPT ![t] = m]
          /\ Fail(t) /\ troubled' = troubled \cup {t}
          /\ UNCHANGED muxSet
    /\ UNCHANGED <<main, loopVars, failure, nmiDisabled, nmi, signalVars, fixed>>

FindPerf(t) ==
    /\ Working /\ phase[t] = "perf"
    /\ \/ GoTo(t, "send") /\ UNCHANGED err
       \/ Fail(t)
    /\ UNCHANGED <<main, loopVars, failure, nmiDisabled, muxSet, targetVars, signalVars, fixed,
                   troubled>>

\* prepareMetrics, of a target without an error.
LoadMetrics(t) ==
    /\ Working /\ phase[t] = "metrics"
    /\ \/ GoTo(t, "send") /\ UNCHANGED err
       \/ Fail(t)
    /\ UNCHANGED <<main, loopVars, failure, nmiDisabled, muxSet, targetVars, signalVars, fixed,
                   troubled>>

\* Mutant of SendResult: a target that failed sends nothing.
SendSuccess(t) ==
    /\ main \in {"prepare", "metrics"} /\ phase[t] = "send" /\ ~err[t]
    /\ received' = received + 1 /\ numPrepared' = numPrepared + 1
    /\ phase' = [phase EXCEPT ![t] = "idle"]
    /\ UNCHANGED <<main, myTargets, cursor, failure, contextVars, targetVars, signalVars, fixed,
                   killed, troubled>>

\* channelError <- targetError{...}, received by runCmd.
SendResult(t) ==
    /\ main \in {"prepare", "metrics"} /\ phase[t] = "send"
    /\ received' = received + 1
    /\ numPrepared' = numPrepared + (IF err[t] THEN 0 ELSE 1)
    /\ phase' = [phase EXCEPT ![t] = "idle"]
    /\ UNCHANGED <<main, myTargets, cursor, failure, contextVars, targetVars, signalVars, fixed,
                   killed, troubled>>

\* prepareMetrics of a target that has failed before: channelError <- nil.
SendSkipped(t) ==
    /\ main = "metrics" /\ phase[t] = "skip"
    /\ received' = received + 1 /\ numPrepared' = numPrepared + 1
    /\ phase' = [phase EXCEPT ![t] = "idle"]
    /\ UNCHANGED <<main, myTargets, cursor, failure, contextVars, targetVars, signalVars, fixed,
                   killed, troubled>>

----------------------------------------------------------------------------
(* runCmd: between the phases.                                             *)

AllReceived == received = Len(myTargets)

\* runCmd returns: the deferred functions run.
Return == main' = "resetMux" /\ cursor' = 1

\* Mutant of NonePrepared: the deferred functions are not scheduled yet.
NonePreparedUndeferred ==
    /\ main = "prepare" /\ AllReceived /\ numPrepared = 0
    /\ failure' = TRUE /\ main' = "exited"
    /\ UNCHANGED <<loopVars, phase, contextVars, targetVars, signalVars, fixed, killed, troubled>>

NonePrepared ==
    /\ main = "prepare" /\ AllReceived /\ numPrepared = 0
    /\ failure' = TRUE /\ Return
    /\ UNCHANGED <<myTargets, received, numPrepared, phase, contextVars, targetVars, signalVars,
                   fixed, killed, troubled>>

\* Mutant of StartMetrics: the targets of the first phase are counted again.
StartMetricsCountingOn ==
    /\ main = "prepare" /\ AllReceived /\ numPrepared > 0
    /\ main' = "metrics" /\ received' = 0 /\ UNCHANGED numPrepared
    /\ phase' = [t \in Target |-> IF t \notin Contexts THEN "idle"
                                  ELSE IF err[t] THEN "skip" ELSE "metrics"]
    /\ UNCHANGED <<myTargets, cursor, failure, contextVars, targetVars, signalVars, fixed,
                   killed, troubled>>

StartMetrics ==
    /\ main = "prepare" /\ AllReceived /\ numPrepared > 0
    /\ main' = "metrics" /\ received' = 0 /\ numPrepared' = 0
    /\ phase' = [t \in Target |-> IF t \notin Contexts THEN "idle"
                                  ELSE IF err[t] THEN "skip" ELSE "metrics"]
    /\ UNCHANGED <<myTargets, cursor, failure, contextVars, targetVars, signalVars, fixed,
                   killed, troubled>>

\* No metrics were prepared, or the output directory cannot be created.
StopBeforeCollecting ==
    /\ main = "metrics" /\ AllReceived
    /\ failure' = TRUE /\ Return
    /\ UNCHANGED <<myTargets, received, numPrepared, phase, contextVars, targetVars, signalVars,
                   fixed, killed, troubled>>

\* flagShowMetricNames
ShowMetricNames ==
    /\ main = "metrics" /\ AllReceived /\ numPrepared > 0
    /\ Return
    /\ UNCHANGED <<myTargets, received, numPrepared, failure, phase, contextVars, targetVars,
                   signalVars, fixed, killed, troubled>>

\* go collectOnTarget(...)
StartCollecting ==
    /\ main = "metrics" /\ AllReceived /\ numPrepared > 0
    /\ main' = "collect"
    /\ phase' = [t \in Target |-> IF t \in Contexts /\ ~err[t] THEN "collecting" ELSE "idle"]
    /\ UNCHANGED <<loopVars, failure, contextVars, targetVars, signalVars, fixed, killed,
                   troubled>>

\* collectOnTarget returns.  It may have called triggerShutdown.
CollectEnds(t) ==
    /\ Working /\ phase[t] = "collecting"
    /\ GoTo(t, "idle")
    /\ \E e \in BOOLEAN : err' = [err EXCEPT ![t] = e]
    /\ \E c \in {ctxDone, TRUE} : ctxDone' = c
    /\ UNCHANGED <<main, loopVars, failure, nmiDisabled, muxSet, targetVars, sigSent, handler,
                   fixed, troubled>>

\* Mutant of AllCollected: one target is enough.
AnyCollected ==
    /\ main = "collect" /\ \E t \in Contexts : phase[t] # "collecting"
    /\ \E e \in {TRUE, \E t \in Contexts : err[t]} : failure' = e
    /\ Return
    /\ UNCHANGED <<myTargets, received, numPrepared, phase, contextVars, targetVars, signalVars,
                   fixed, killed, troubled>>

\* collectOnTargetWG.Wait(), and the summaries, which may fail.
AllCollected ==
    /\ main = "collect" /\ \A t \in Contexts : phase[t] # "collecting"
    /\ \E e \in {TRUE, \E t \in Contexts : err[t]} : failure' = e
    /\ Return
    /\ UNCHANGED <<myTargets, received, numPrepared, phase, contextVars, targetVars, signalVars,
                   fixed, killed, troubled>>

----------------------------------------------------------------------------
(* The deferred functions, last scheduled first.                           *)

This == myTargets[cursor]

\* The reset of This is done or not needed; the loop goes on.
Advance(next) ==
    /\ killed' = killed \ {This}
    /\ IF cursor < Len(myTargets) THEN cursor' = cursor + 1 /\ UNCHANGED main
                                  ELSE cursor' = 1 /\ main' = next

SkipMux ==
    /\ main = "resetMux" /\ ~muxSet[This] /\ Advance("resetNmi")
    /\ UNCHANGED <<myTargets, received, numPrepared, failure, phase, contextVars, targetVars,
                   signalVars, fixed, troubled>>

\* SetMuxIntervals; an error is logged.
ResetMux ==
    /\ main = "resetMux" /\ muxSet[This] /\ Advance("resetNmi")
    /\ \/ mux' = [mux EXCEPT ![This] = "original"] /\ UNCHANGED troubled
       \/ CanFail(This) /\ troubled' = troubled \cup {This} /\ UNCHANGED mux
    /\ UNCHANGED <<myTargets, received, numPrepared, failure, phase, contextVars, nmi,
                   signalVars, fixed>>

SkipNmi ==
    /\ main = "resetNmi" /\ ~nmiDisabled[This] /\ Advance("exited")
    /\ UNCHANGED <<myTargets, received, numPrepared, failure, phase, contextVars, targetVars,
                   signalVars, fixed, troubled>>

\* EnableNMIWatchdog; an error is logged.
ResetNmi ==
    /\ main = "resetNmi" /\ nmiDisabled[This] /\ Advance("exited")
    /\ \/ nmi' = [nmi EXCEPT ![This] = TRUE] /\ UNCHANGED troubled
       \/ CanFail(This) /\ troubled' = troubled \cup {This} /\ UNCHANGED nmi
    /\ UNCHANGED <<myTargets, received, numPrepared, failure, phase, contextVars, mux,
                   signalVars, fixed>>

----------------------------------------------------------------------------
(* Signals.                                                                *)

Interrupt ==
    /\ Working /\ ~sigSent
    /\ sigSent' = TRUE
    /\ UNCHANGED <<main, loopVars, failure, phase, contextVars, targetVars, ctxDone, handler,
                   fixed, killed, troubled>>

HandlerWakes ==
    /\ Working /\ handler = "waiting" /\ (sigSent \/ ctxDone)
    /\ ctxDone' = TRUE /\ handler' = "kill"
    /\ UNCHANGED <<main, loopVars, failure, phase, contextVars, targetVars, sigSent, fixed,
                   killed, troubled>>

CommandPhases == {"pmu", "getNmi", "setNmi", "checkNmi", "getMux", "setMux", "perf", "metrics",
                  "collecting"}

\* The targets on which a command is running.
Running == {t \in Target : phase[t] \in CommandPhases}
           \cup (IF main \in {"resetMux", "resetNmi"} THEN {This} ELSE {})

\* SignalChildren(SIGKILL)
KillChildren ==
    /\ Working /\ handler = "kill"
    /\ handler' = "done" /\ killed' = Running
    /\ UNCHANGED <<main, loopVars, failure, phase, contextVars, targetVars, ctxDone, sigSent,
                   fixed, troubled>>

\* A signal after handleSignals has returned: signal.Stop has given it back its
\* default action.
SecondSignal ==
    /\ Working /\ handler = "done"
    /\ main' = "dead"
    /\ UNCHANGED <<loopVars, failure, phase, contextVars, targetVars, signalVars, fixed, killed,
                   troubled>>

----------------------------------------------------------------------------
RunCmd == RemoveTarget \/ ReturnEarly \/ StartPrepare \/ NonePrepared \/ StartMetrics
          \/ StopBeforeCollecting \/ ShowMetricNames \/ StartCollecting \/ AllCollected
          \/ SkipMux \/ ResetMux \/ SkipNmi \/ ResetNmi

OnTarget(t) == CheckPMU(t) \/ GetNmi(t) \/ SetNmi(t) \/ CheckNmi(t) \/ GetMux(t) \/ SetMux(t)
               \/ FindPerf(t) \/ LoadMetrics(t) \/ SendResult(t) \/ SendSkipped(t)
               \/ CollectEnds(t)

Handler == HandlerWakes \/ KillChildren

Over == ~Working /\ UNCHANGED vars

Next == RunCmd \/ (\E t \in Target : OnTarget(t)) \/ Handler \/ Interrupt \/ SecondSignal \/ Over

Spec == Init /\ [][Next]_vars

(* Go schedules every goroutine that can run, every command on a target    *)
(* returns, and so does collectOnTarget: it has a duration.  Nothing is    *)
(* assumed of the user.                                                    *)
FairSpec == Spec /\ WF_vars(RunCmd) /\ (\A t \in Target : WF_vars(OnTarget(t)))

----------------------------------------------------------------------------
(* Properties.                                                             *)

TypeOK ==
    /\ main \in {"remove", "prepare", "metrics", "collect", "resetMux", "resetNmi", "exited",
                 "panicked", "dead"}
    /\ myTargets \in Seq(Target) /\ cursor \in 1..(Len(Targets) + 1)
    /\ received \in 0..Len(Targets) /\ numPrepared \in 0..received
    /\ failure \in BOOLEAN /\ targetErr \in [Target -> BOOLEAN]
    /\ phase \in [Target -> CommandPhases \cup {"idle", "send", "skip"}]
    /\ err \in [Target -> BOOLEAN]
    /\ nmiDisabled \in [Target -> BOOLEAN] /\ muxSet \in [Target -> BOOLEAN]
    /\ nmi \in [Target -> BOOLEAN] /\ hadNmi \in [Target -> BOOLEAN]
    /\ mux \in [Target -> {"original", "changed"}]
    /\ ctxDone \in BOOLEAN /\ sigSent \in BOOLEAN /\ handler \in {"waiting", "kill", "done"}
    /\ killed \subseteq Target /\ troubled \subseteq Target

\* Whatever fails on other targets and whenever the user interrupts, a target on
\* which every set command worked has its own settings back when the command
\* returns.
SettingsRestored ==
    main = "exited" => \A t \in Target \ troubled : nmi[t] = hadNmi[t] /\ mux[t] = "original"

\* A watchdog that was off is never turned on.
WatchdogNotForced == \A t \in Target : ~hadNmi[t] => ~nmi[t]

\* While perf counts on a target, its watchdog is off and its intervals are the
\* chosen ones, even when the other targets are done.
UndisturbedCollection ==
    \A t \in Target : Working /\ phase[t] = "collecting" /\ ~NoRoot =>
        ~err[t] /\ ~nmi[t] /\ mux[t] = "changed"

\* A command whose collections have a duration ends.
Ends == <>(~Working)

----------------------------------------------------------------------------
(* What the comments and messages of runCmd say.                           *)

\* "remove target from targets list": the targets that remain are those that
\* could be created.
FailedTargetsRemoved ==
    main = "prepare" => Contexts = {t \in Target : ~targetErr[t]}

\* "schedule NMI watchdog reset"
WatchdogReset == main = "exited" => nmi = hadNmi

\* "no targets had metrics successfully prepared" is an error: when runCmd goes
\* on to collect, at least one target has its metrics.
SomeTargetCollects ==
    main = "metrics" /\ AllReceived /\ numPrepared > 0 => \E t \in Contexts : ~err[t]

============================================================================
