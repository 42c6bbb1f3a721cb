---------------------------- MODULE ReportingRun ----------------------------
(***************************************************************************)
(* The life of one report, telemetry, flame or lock command: the targets   *)
(* get a temporary directory, the scripts of the requested tables are run  *)
(* on them at the same time, their outputs are put in the order of the     *)
(* targets, saved as raw reports and processed into the reports, the lock  *)
(* command fetches a file from each target, and the deferred functions     *)
(* remove the temporary directories.  With --input the outputs are read    *)
(* from raw reports instead.                                               *)
(*                                                                         *)
(*   main      ReportingCommand.Run                                        *)
(*   phase[t]  collectOnTarget and RunScripts of target t, later AdhocFunc *)
(*                                                                         *)
(* A command on a target may fail: by itself, because the connection is    *)
(* lost, or because the signal handler has sent SIGINT to the children of  *)
(* the process, which is all that it does.  A failed command may have had  *)
(* its effect.  Targets are numbered in their order.                       *)
(***************************************************************************)
EXTENDS ReportTables, SequencesExt, FiniteSetsExt

CONSTANTS
    CpuOf,      (* the microarchitecture of each target, a sequence         *)
    Requested,  (* rc.TableNames                                            *)
    RawReports, (* the target names in the raw reports that --input may name *)
    UnreliableLkms, (* the kernel modules for which modprobe may fail       *)
    HasAdhoc    (* the values of rc.AdhocFunc # nil to consider             *)

ASSUME ReportingAssumption ==
    /\ CpuOf \in Seq({cpu.uarch : cpu \in cpuDefinitions})
    /\ Requested \subseteq DOMAIN tableDefinitions
    /\ RawReports \in Seq(STRING)
    /\ UnreliableLkms \subseteq STRING
    /\ HasAdhoc \subseteq BOOLEAN

Target == DOMAIN CpuOf

\* What outputsFromTargets selects for each target: the tables, and the scripts that
\* RunScripts then runs with and without elevated privileges.
TargetTables  == [t \in Target |-> TablesFor(Requested, GetCPU(CpuOf[t]))]
TargetScripts == [t \in Target |-> [canElevate \in BOOLEAN |->
                    ScriptsToRun(ScriptNames(TargetTables[t]), GetCPU(CpuOf[t]), canElevate)]]

\* The outputs that the selected tables read, that the target could have produced and
\* that no selected script produces.
Missing == [t \in Target |-> [canElevate \in BOOLEAN |->
              ScriptsToRun(ReadBy(TargetTables[t]), GetCPU(CpuOf[t]), canElevate)
              \ TargetScripts[t][canElevate]]]

VARIABLES
    fromInput,  (* --input is given                                         *)
    debug,      (* --debug is given                                         *)
    adhoc,      (* rc.AdhocFunc is set                                      *)
    main,       (* where Run is                                             *)
    cursor,     (* the index of its loops                                   *)
    failure,    (* Run returns an error                                     *)
    name,       (* GetName of each target                                   *)
    canElevate, (* CanElevatePrivileges of each target                      *)
    targetErr,  (* targetErrs[t] is set                                     *)
    myTargets,  (* the targets that remain                                  *)
    scheduled,  (* the targets with a deferred RemoveTempDirectory          *)
    dir,        (* the temporary directory: none, made, lost (its name was  *)
                (* never learnt) or kept (its removal failed)               *)
    phase,      (* where the goroutine of each target is                    *)
    runErr,     (* RunScripts returns an error                              *)
    hadLkms,    (* the kernel modules loaded before the command             *)
    loaded,     (* those loaded now                                         *)
    installed,  (* installedLkms                                            *)
    received,   (* targets whose outputs were received, in that order       *)
    ordered,    (* orderedTargetScriptOutputs: under which name, from which *)
                (* target or raw report, for the tables of which            *)
    raws,       (* the raw report files: name and index of the outputs      *)
    reports,    (* the report files, likewise                               *)
    pulled,     (* calls of AdhocFunc: on which target, with whose outputs  *)
    hit,        (* history: targets with a failed command of RunScripts     *)
    lkmHit      (* history: targets with a failed modprobe                  *)

targetVars == <<targetErr, myTargets, scheduled>>
lkmVars    == <<loaded, installed, lkmHit>>
outputVars == <<received, ordered>>
fileVars   == <<raws, reports, pulled>>
fixed      == <<fromInput, debug, adhoc, name, canElevate, hadLkms>>
vars == <<main, cursor, failure, targetVars, dir, phase, runErr, lkmVars, outputVars,
          fileVars, fixed, hit>>

Init ==
    /\ fromInput \in {RawReports # <<>>, FALSE} /\ debug \in BOOLEAN /\ adhoc \in HasAdhoc
    /\ fromInput => ~adhoc
    /\ main = "start" /\ cursor = 1 /\ failure = FALSE
    /\ name \in {[t \in Target |-> ToString(t)], [t \in Target |-> "host"]}
    /\ canElevate \in [Target -> BOOLEAN]
    /\ targetErr = [t \in Target |-> FALSE] /\ myTargets = <<>> /\ scheduled = {}
    /\ dir = [t \in Target |-> "none"]
    /\ phase = [t \in Target |-> "idle"] /\ runErr = [t \in Target |-> FALSE]
    /\ hadLkms \in [Target -> {{}, {"msr"}}] /\ loaded = hadLkms
    /\ installed = [t \in Target |-> {}]
    /\ received = <<>> /\ ordered = <<>> /\ raws = {} /\ reports = {} /\ pulled = {}
    /\ hit = {} /\ lkmHit = {}

----------------------------------------------------------------------------
(* Run: where it returns.                                                  *)

\* return, after which the deferred functions run
Return(withError) == main' = "deferred" /\ failure' = withError

Continue(next) == main' = next /\ UNCHANGED failure

----------------------------------------------------------------------------
(* GetTargets, the deferred removals, the spinners.                        *)

\* outputsFromInput: the table names of the raw reports accumulate.
ReadInput ==
    /\ main = "start" /\ fromInput
    /\ \/ Return(TRUE) /\ UNCHANGED ordered
       \/ /\ ordered' = [i \in DOMAIN RawReports |->
                [name |-> RawReports[i], from |-> i,
                 tablesOf |-> 1..i]]
          /\ Continue("outdir")
    /\ UNCHANGED <<cursor, targetVars, dir, phase, runErr, lkmVars, received, fileVars, fixed,
                   hit>>

\* The targets file or the flags are unusable, or targets cannot be reached.
GetTargets ==
    /\ main = "start" /\ ~fromInput
    /\ \/ Return(TRUE) /\ UNCHANGED targetErr
       \/ targetErr' \in [Target -> BOOLEAN] /\ Continue("tempdirs")
    /\ UNCHANGED <<cursor, myTargets, scheduled, dir, phase, runErr, lkmVars, outputVars,
                   fileVars, fixed, hit>>

\* A directory on a file system mounted with noexec is an error, too.
CreateTempDirectory ==
    LET t == cursor
        Fail(d) == /\ dir' = [dir EXCEPT ![t] = d]
                   /\ targetErr' = [targetErr EXCEPT ![t] = TRUE]
    IN  /\ main = "tempdirs" /\ t \in Target
        /\ \/ targetErr[t] /\ UNCHANGED <<dir, targetErr>>
           \/ /\ ~targetErr[t]
              /\ \/ dir' = [dir EXCEPT ![t] = "made"] /\ UNCHANGED targetErr
                 \/ Fail("none")
                 \/ Fail("lost")
                 \/ Fail("made")
        /\ cursor' = cursor + 1
        /\ UNCHANGED <<main, failure, myTargets, scheduled, phase, runErr, lkmVars, outputVars,
                       fileVars, fixed, hit>>

\* Mutant of ToSchedule: only the targets that remain.
ToScheduleRemaining == IF debug THEN {} ELSE {t \in Target : dir[t] = "made" /\ ~targetErr[t]}

\* The targets with a temporary directory, those with an error included.
ToSchedule == IF debug THEN {} ELSE {t \in Target : dir[t] = "made"}

\* The sequences of the elements of S, each greater than the one before: there is one.
Ascending(S) ==
    {s \in [1..Cardinality(S) -> S] : \A i, j \in 1..Cardinality(S) : i < j => s[i] < s[j]}

\* Mutant of NamesDiffer: AddSpinner accepts a label it has.
NamesUnchecked == TRUE

\* AddSpinner refuses a label it has.
NamesDiffer == IsInjective(name)

\* The targets with errors are removed, the others collect.
StartCollecting ==
    /\ main = "tempdirs" /\ cursor \notin Target
    /\ scheduled' = ToSchedule
    /\ IF NamesDiffer
       THEN /\ myTargets' \in Ascending({t \in Target : ~targetErr[t]})
            /\ phase' = [t \in Target |-> IF targetErr[t] THEN "idle" ELSE "prepare"]
            /\ Continue("wait")
       ELSE Return(TRUE) /\ UNCHANGED <<myTargets, phase>>
    /\ UNCHANGED <<cursor, targetErr, dir, runErr, lkmVars, outputVars, fileVars, fixed, hit>>

----------------------------------------------------------------------------
(* collectOnTarget and RunScripts.                                         *)

Scripts(t) == TargetScripts[t][canElevate[t]]

Goes(t, next) == phase' = [phase EXCEPT ![t] = next]

\* RunScripts returns the error of a command, after its deferred function if next is unload.
Fails(t, next) == /\ Goes(t, next)
                  /\ runErr' = [runErr EXCEPT ![t] = TRUE]

RunVars == <<main, cursor, failure, targetVars, dir, outputVars, fileVars, fixed>>

\* The user's path, the scripts and the tools they depend on.
PrepareTarget(t) ==
    /\ phase[t] = "prepare" /\ main # "panicked"
    /\ \/ Goes(t, "modprobe") /\ UNCHANGED <<runErr, hit>>
       \/ Fails(t, "send") /\ hit' = hit \cup {t}
    /\ UNCHANGED <<RunVars, lkmVars>>

\* modprobe --first-time fails for a module that is loaded; an error of modprobe is no
\* error of InstallLkms, and the module may be loaded nevertheless.
InstallLkms(t) ==
    LET needed == LkmsToInstall(Scripts(t))
        new == needed \ loaded[t]
    IN  /\ phase[t] = "modprobe" /\ main # "panicked"
        /\ \/ /\ needed # {} /\ ~canElevate[t]
              /\ Fails(t, "send") /\ UNCHANGED lkmVars
           \/ /\ needed = {} \/ canElevate[t]
              /\ \E failed \in SUBSET (new \cap UnreliableLkms) : \E effect \in SUBSET failed :
                    /\ installed' = [installed EXCEPT ![t] = new \ failed]
                    /\ loaded' = [loaded EXCEPT ![t] = @ \cup (new \ failed) \cup effect]
                    /\ lkmHit' = IF failed = {} THEN lkmHit ELSE lkmHit \cup {t}
              /\ Goes(t, "parallel") /\ UNCHANGED runErr
        /\ UNCHANGED <<RunVars, hit>>

\* The master script: its failure is that of the target, and the sequential scripts are
\* not run.  A single parallel script is run as a sequential one.
RunParallelScripts(t) ==
    /\ phase[t] = "parallel" /\ main # "panicked"
    /\ \/ Goes(t, "sequential") /\ UNCHANGED <<runErr, hit>>
       \/ /\ ParallelScripts(Scripts(t)) # {}
          /\ Fails(t, "unload") /\ hit' = hit \cup {t}
    /\ UNCHANGED <<RunVars, lkmVars>>

\* Whatever a sequential script returns, its output is recorded.
RunSequentialScripts(t) ==
    /\ phase[t] = "sequential" /\ main # "panicked"
    /\ Goes(t, "unload")
    /\ UNCHANGED <<RunVars, lkmVars, runErr, hit>>

\* Mutant of UninstallLkms: not after a failure of the master script.
UninstallLkmsOnSuccess(t) ==
    /\ phase[t] = "unload" /\ main # "panicked"
    /\ loaded' = [loaded EXCEPT ![t] = IF runErr[t] THEN @ ELSE @ \ installed[t]]
    /\ installed' = [installed EXCEPT ![t] = {}]
    /\ Goes(t, "send")
    /\ UNCHANGED <<RunVars, runErr, hit, lkmHit>>

\* The deferred function of RunScripts; an error is logged.
UninstallLkms(t) ==
    /\ phase[t] = "unload" /\ main # "panicked"
    /\ \E failed \in SUBSET (installed[t] \cap UnreliableLkms) :
        /\ loaded' = [loaded EXCEPT ![t] = @ \ (installed[t] \ failed)]
        /\ lkmHit' = IF failed = {} THEN lkmHit ELSE lkmHit \cup {t}
    /\ installed' = [installed EXCEPT ![t] = {}]
    /\ Goes(t, "send")
    /\ UNCHANGED <<RunVars, runErr, hit>>

----------------------------------------------------------------------------
(* outputsFromTargets: receiving and ordering.                             *)

\* Mutant of Receive: the first error ends the loop.
ReceiveUntilError(t) ==
    /\ main = "wait" /\ phase[t] = "send"
    /\ phase' = [phase EXCEPT ![t] = "sent"]
    /\ IF runErr[t] THEN Return(TRUE) /\ UNCHANGED received
       ELSE received' = Append(received, t) /\ UNCHANGED <<main, failure>>
    /\ UNCHANGED <<cursor, targetVars, dir, runErr, lkmVars, ordered, fileVars, fixed, hit>>

\* Mutant of Receive: errors are not received.
ReceiveOutputs(t) ==
    /\ main = "wait" /\ phase[t] = "send" /\ ~runErr[t]
    /\ phase' = [phase EXCEPT ![t] = "sent"]
    /\ received' = Append(received, t)
    /\ UNCHANGED <<main, cursor, failure, targetVars, dir, runErr, lkmVars, ordered, fileVars,
                   fixed, hit>>

\* A message of either channel; errors are logged.
Receive(t) ==
    /\ main = "wait" /\ phase[t] = "send"
    /\ phase' = [phase EXCEPT ![t] = "sent"]
    /\ received' = IF runErr[t] THEN received ELSE Append(received, t)
    /\ UNCHANGED <<main, cursor, failure, targetVars, dir, runErr, lkmVars, ordered, fileVars,
                   fixed, hit>>

\* The place of the first outputs that were received under the name of t; 0: none were.
FirstOf(t) == SelectInSeq(received, LAMBDA r : name[r] = name[t])

\* Every goroutine has sent its message: as many as there are in myTargets.  The targets
\* for which outputs were received get them in the order of the targets.
OrderOutputs ==
    /\ main = "wait" /\ \A t \in Target : phase[t] \in {"idle", "sent"}
    /\ \E found \in Ascending({t \in ToSet(myTargets) : FirstOf(t) # 0}) :
         ordered' = [i \in DOMAIN found |->
             [name |-> name[found[i]], from |-> received[FirstOf(found[i])], tablesOf |-> {found[i]}]]
    /\ IF myTargets = <<>> THEN Return(TRUE) ELSE Continue("outdir")
    /\ UNCHANGED <<cursor, targetVars, dir, phase, runErr, lkmVars, received, fileVars, fixed,
                   hit>>

----------------------------------------------------------------------------
(* The raw reports and the reports.  A step that fails ends the command.   *)

MainVars == <<targetVars, dir, phase, runErr, lkmVars, outputVars, pulled, fixed, hit>>

CreateOutputDir ==
    /\ main = "outdir"
    /\ cursor' = 1
    /\ Continue("raw") \/ Return(TRUE)
    /\ UNCHANGED <<MainVars, raws, reports>>

\* Mutant of Written: the index of the target instead of the index of its outputs.
WrittenUnderTarget(files, i) == {f \in files : f.name # ordered[i].name}
                                \cup {[name |-> ordered[i].name, of |-> ordered[i].from]}

\* A file replaces the one with its name.
Written(files, i) == {f \in files : f.name # ordered[i].name}
                     \cup {[name |-> ordered[i].name, of |-> i]}

\* createRawReports
CreateRawReport ==
    /\ main = "raw" /\ cursor \in DOMAIN ordered
    /\ \/ raws' = Written(raws, cursor) /\ UNCHANGED <<main, failure>>
       \/ Return(TRUE) /\ UNCHANGED raws
    /\ cursor' = cursor + 1
    /\ UNCHANGED <<MainVars, reports>>

RawReportsCreated ==
    /\ main = "raw" /\ cursor \notin DOMAIN ordered
    /\ cursor' = 1
    /\ Continue("reports")
    /\ UNCHANGED <<MainVars, raws, reports>>

\* Mutant of CreateReport: each raw report is written after the reports of its target.
CreateReportAndRaw ==
    /\ main = "raw" /\ cursor \in DOMAIN ordered
    /\ \/ /\ reports' = Written(reports, cursor) /\ raws' = Written(raws, cursor)
          /\ UNCHANGED <<main, failure>>
       \/ Return(TRUE) /\ UNCHANGED <<raws, reports>>
    /\ cursor' = cursor + 1
    /\ UNCHANGED MainVars

\* createReports: the reports of one target in all the formats, of which some may have been
\* written when another fails.
CreateReport ==
    /\ main = "reports" /\ cursor \in DOMAIN ordered
    /\ \/ reports' = Written(reports, cursor) /\ UNCHANGED <<main, failure>>
       \/ Return(TRUE) /\ UNCHANGED reports
    /\ cursor' = cursor + 1
    /\ UNCHANGED <<MainVars, raws>>

\* The combined report of several targets; the archive of --debug.
FinishReports ==
    /\ main = "reports" /\ cursor \notin DOMAIN ordered
    /\ \/ Len(ordered) > 1 /\ Return(TRUE)
       \/ debug /\ ordered # <<>> /\ Return(TRUE)
       \/ IF adhoc THEN Continue("adhoc") ELSE Return(FALSE)
    /\ UNCHANGED <<cursor, MainVars, raws, reports>>

----------------------------------------------------------------------------
(* AdhocFunc and the end.                                                  *)

StartAdhoc ==
    /\ main = "adhoc"
    /\ phase' = [t \in Target |-> IF t \in ToSet(myTargets) THEN "pull" ELSE phase[t]]
    /\ Continue("pulling")
    /\ UNCHANGED <<cursor, targetVars, dir, runErr, lkmVars, outputVars, fileVars, fixed, hit>>

\* The goroutine of the target at index i takes the outputs at index i.
PullDataFiles(i) ==
    LET t == myTargets[i]
    IN  /\ main = "pulling" /\ phase[t] = "pull"
        /\ \/ /\ i \in DOMAIN ordered
              /\ pulled' = pulled \cup {[target |-> t, from |-> ordered[i].from]}
              /\ Goes(t, "done") /\ UNCHANGED main
           \/ /\ i \notin DOMAIN ordered
              /\ main' = "panicked"
              /\ UNCHANGED <<pulled, phase>>
        /\ UNCHANGED <<cursor, failure, targetVars, dir, runErr, lkmVars, outputVars, raws,
                       reports, fixed, hit>>

FinishAdhoc ==
    /\ main = "pulling" /\ \A t \in ToSet(myTargets) : phase[t] = "done"
    /\ Return(FALSE)
    /\ UNCHANGED <<cursor, targetVars, dir, phase, runErr, lkmVars, outputVars, fileVars, fixed,
                   hit>>

\* Deferred functions run in the reverse of their order.
RemoveTempDirectory ==
    LET t == Max(scheduled)
    IN  /\ main = "deferred" /\ scheduled # {}
        /\ \E after \in {"none", "kept"} :
            dir' = [dir EXCEPT ![t] = after]
        /\ scheduled' = scheduled \ {t}
        /\ UNCHANGED <<main, cursor, failure, targetErr, myTargets, phase, runErr, lkmVars,
                       outputVars, fileVars, fixed, hit>>

Exit ==
    /\ main = "deferred" /\ scheduled = {}
    /\ main' = "returned"
    /\ UNCHANGED <<cursor, failure, targetVars, dir, phase, runErr, lkmVars, outputVars,
                   fileVars, fixed, hit>>

Collect(t) ==
    \/ PrepareTarget(t) \/ InstallLkms(t) \/ RunParallelScripts(t) \/ RunSequentialScripts(t)
    \/ UninstallLkms(t)

Run ==
    \/ ReadInput \/ GetTargets \/ CreateTempDirectory \/ StartCollecting
    \/ \E t \in Target : Receive(t)
    \/ OrderOutputs \/ CreateOutputDir \/ CreateRawReport \/ RawReportsCreated
    \/ CreateReport \/ FinishReports \/ StartAdhoc \/ FinishAdhoc
    \/ RemoveTempDirectory \/ Exit

Next ==
    \/ Run
    \/ \E t \in Target : Collect(t)
    \/ \E i \in DOMAIN myTargets : PullDataFiles(i)

Spec == Init /\ [][Next]_vars

\* Commands on the targets return: those that are not killed by their own timeout are
\* assumed not to hang.
FairSpec == Spec /\ WF_vars(Next)

----------------------------------------------------------------------------
(* Properties.                                                             *)

Phases == {"idle", "prepare", "modprobe", "parallel", "sequential", "unload", "send", "sent",
           "pull", "done"}

OutputsType == [name : STRING, from : Nat, tablesOf : SUBSET Nat]
FilesType   == [name : STRING, of : Nat]

\* Every variable has its type, and an adhoc function is given outputs that exist.
TypeOK ==
    /\ main \in {"start", "tempdirs", "wait", "outdir", "raw", "reports", "adhoc", "pulling",
                 "deferred", "returned", "panicked"}
    /\ cursor \in Nat /\ failure \in BOOLEAN
    /\ targetErr \in [Target -> BOOLEAN] /\ scheduled \subseteq Target
    /\ myTargets \in Seq(Target) /\ received \in Seq(Target)
    /\ dir \in [Target -> {"none", "made", "lost", "kept"}]
    /\ phase \in [Target -> Phases] /\ runErr \in [Target -> BOOLEAN]
    /\ \A t \in Target : installed[t] \cup loaded[t] \subseteq LkmsToInstall(Scripts(t)) \cup hadLkms[t]
    /\ \A i \in DOMAIN ordered : ordered[i] \in OutputsType
    /\ \A f \in raws \cup reports : f \in FilesType /\ f.of \in DOMAIN ordered
    /\ pulled \subseteq [target : Target, from : Target]

Collecting(t) == phase[t] \in {"prepare", "modprobe", "parallel", "sequential", "unload"}

\* When Run returns and --debug is not given, a temporary directory whose name is known
\* is left on a target only if its removal was tried and failed: the targets that had
\* errors and every early return are covered by the deferred functions.
TempDirsRemoved ==
    main = "returned" /\ ~debug => \A t \in Target : dir[t] # "made"

\* The temporary directory, which holds the scripts and the tools, is there as long as
\* a goroutine runs scripts on the target: Run waits for all of them before it returns.
ScriptsHaveTheirDirectory == \A t \in Target : Collecting(t) => dir[t] = "made"

\* "the data in the order of the targets": the outputs are those of the targets on which
\* nothing has failed, in the order of the targets, each under the target's name and with
\* the tables that were selected for it.
OutputsInOrder ==
    ~fromInput /\ ordered # <<>> =>
        /\ {ordered[i].from : i \in DOMAIN ordered} = {t \in Target : ~targetErr[t] /\ ~runErr[t]}
        /\ \A i, j \in DOMAIN ordered : i < j => ordered[i].from < ordered[j].from
        /\ \A i \in DOMAIN ordered : LET t == ordered[i].from IN
              ordered[i] = [name |-> name[t], from |-> t, tablesOf |-> {t}]

\* "so that we can save the raw data even if there is an error while processing": when
\* there is any report, the outputs of all the targets have been saved, each in a file
\* of its own.
RawSavedFirst ==
    reports # {} => \A i \in DOMAIN ordered : [name |-> ordered[i].name, of |-> i] \in raws

\* "the script names required to generate the table": the outputs that the tables of a
\* target read have been collected, if the target could produce them at all.
ReadsCollected ==
    ~fromInput => \A i \in DOMAIN ordered :
        LET t == ordered[i].from IN Missing[t][canElevate[t]] = {}

\* The data of a target is lost only if a command on that target has failed: a user
\* without elevated privileges gets the outputs of the other scripts, because every
\* script that needs a kernel module is one that needs the privileges, too.
FailureHasCause == \A t \in Target : runErr[t] => t \in hit

\* Where no modprobe has failed, the kernel modules are as they were before, whatever
\* else has failed; modules that were loaded before stay loaded.
LkmsAsBefore ==
    main = "returned" => \A t \in Target \ lkmHit : loaded[t] = hadLkms[t]

\* Run returns, whatever fails on the targets.
Ends == <>(main \in {"returned", "panicked"})

\* Each adhoc function works with the outputs of its own target, and does not panic.
AdhocOnOwnOutputs ==
    main # "panicked" /\ \A p \in pulled : p.target = p.from

\* "exit with error if no targets remain": a command without an error has made reports.
SuccessMeansReports == main = "returned" /\ ~failure => reports # {}

============================================================================
