---------------------------- MODULE ConfigSet ----------------------------
(***************************************************************************)
(* "perfspect config" on one target: one goroutine per requested flag      *)
(* changes a model specific register, all of them through script files     *)
(* that are written locally, pushed to the target and run there, while     *)
(* the msr kernel module they need is installed and removed on the way.    *)
(*                                                                         *)
(*   Main      setOnTarget, with prepareTarget                             *)
(*   setters   the set functions of set.go, one goroutine each             *)
(*                                                                         *)
(* A set function is a sequence of scripts, its program.  Every script     *)
(* goes through RunScripts.  The file it is written to is named after the  *)
(* script, so scripts of one name, in whatever goroutine, share the file.  *)
(*                                                                         *)
(* A register has contents on every CPU: rdmsr reads those of CPU 0, and   *)
(* wrmsr -a writes one value to all.  Contents are abstracted to where the *)
(* bits that no flag asks about come from and to the fields that hold the  *)
(* value the user asked for.  A value that is asked for fits its field,    *)
(* which the flags do not check.  Writing and copying a whole script file  *)
(* are single steps.                                                       *)
(***************************************************************************)
EXTENDS Integers, Sequences, FiniteSets

CONSTANTS
    Setters,   (* the flags, each with a goroutine for its set function    *)
    Requests,  (* the sets of flags a command may give                     *)
    Program,   (* Program[s]: the scripts of the set function of s         *)
    Locked,    (* the setters of uncore frequencies, which hold a mutex    *)
    EmptyLists,(* the dies of the target may not be found                  *)
    CPUs,      (* the CPUs of the target that are online                   *)
    Boot,      (* CPU 0                                                    *)
    CoreRatio, (* the bits of the core frequency asked for, freqInt        *)
    Main       (* setOnTarget                                              *)

----------------------------------------------------------------------------
(* Scripts and register contents.                                          *)

\* op: "probe" asks about the target, "list" which dies it has, "master" runs
\* several such scripts in parallel, "read" is rdmsr, "modify" is wrmsr of the
\* value read before with one field changed, "assign" is wrmsr of a value made
\* from nothing, and "insert" changes a field, or a file of /sys, in place.
\* everywhere: it writes to all CPUs, not only to CPU 0; checked: it exits with
\* an error when a write fails; exact: the value it writes is the one asked for.
Script == [file : STRING,
           op : {"probe", "list", "master", "read", "modify", "assign", "insert"},
           reg : STRING, field : STRING, lkm : BOOLEAN, names : SUBSET STRING,
           everywhere : BOOLEAN, checked : BOOLEAN, exact : BOOLEAN]

Plain(file, op) ==
    [file |-> file, op |-> op, reg |-> "", field |-> "", lkm |-> FALSE, names |-> {},
     everywhere |-> TRUE, checked |-> TRUE, exact |-> TRUE]

Probe(file, lkm)         == [Plain(file, "probe") EXCEPT !.lkm = lkm]
List(file)               == Plain(file, "list")
Master(names, lkm)       == [Plain("parallel_master", "master") EXCEPT !.names = names, !.lkm = lkm]
Read(file, reg)          == [Plain(file, "read") EXCEPT !.reg = reg]
Modify(file, reg, field) == [Plain(file, "modify") EXCEPT !.reg = reg, !.field = field]
Assign(file, reg, field) == [Plain(file, "assign") EXCEPT !.reg = reg, !.field = field]
Insert(file, reg, field) == [Plain(file, "insert") EXCEPT !.reg = reg, !.field = field]

\* The programs of the set functions.
PrepareProgram == <<Probe("prepare_target", TRUE)>>

TdpProgram == <<Read("get_power_MSR", "0x610"), Modify("set_tdp", "0x610", "power")>>

EpbProgram(reg) == <<[Read("epb_source", "0x1FC") EXCEPT !.lkm = TRUE],
                     Read("read_" \o reg, reg), Modify("set_epb", reg, "epb")>>

EppProgram == <<Read("get_epp_msr", "0x774"), Modify("set_epp", "0x774", "epp"),
                Read("get_epp_pkg_msr", "0x772"), Modify("set_epp", "0x772", "epp")>>

C1DemotionProgram == <<Read("get_C1_demotion", "0xe2"),
                       Modify("set_C1_demotion", "0xe2", "c1demotion")>>

UncoreProgram(bound) == <<Read("get_uncore_frequency_MSR", "0x620"),
                          Modify("set_uncore_frequency_MSR", "0x620", bound)>>

PrefetcherProgram(name, reg) ==
    <<Master({"lscpu", "lspci bits"}, FALSE), Read("get_prefetcher_msr", reg),
      Modify("set_prefetcher" \o name, reg, name)>>

LlcProgram == <<Master({"lscpu", "lscpu cache", "lspci bits", "l3 way enabled"}, TRUE),
                Assign("set_LLC_size", "0xC90", "ways")>>

\* The bits of a register with freqInt in each of its first n bytes, and those of
\* the value that the loop computes: freqInt<<i*8 is (freqInt<<i)*8.
Ratios(n)        == {b + 8 * i : b \in CoreRatio, i \in 0..(n - 1)}
ShiftedRatios(n) == {b + i + 3 : b \in CoreRatio, i \in 0..(n - 1)}

CoreFrequencyProgram ==
    <<[Assign("set_frequency_bins", "0x1AD", "ratio") EXCEPT !.exact = ShiftedRatios(8) = Ratios(8)]>>

\* Sierra Forest and Clearwater Forest: CPU 0 is written.  Under the intel_pstate
\* driver the ratio belongs in two bytes of "0x774"; under another in the second
\* byte of "0x199", where the script that reports it reads, and is written to the
\* third.
ForestValueIsExact(reg) ==
    IF reg = "0x774" THEN ShiftedRatios(2) = Ratios(2)
    ELSE {b + 16 : b \in CoreRatio} = {b + 8 : b \in CoreRatio}

ForestFrequencyProgram(reg) ==
    <<Probe("get_pstate_driver", FALSE),
      [Assign("set_frequency_bins", reg, "ratio") EXCEPT
           !.everywhere = FALSE, !.exact = ForestValueIsExact(reg)]>>

\* One file serves both bounds and every die.
UncoreDieProgram(dies, bound) ==
    <<List("uncore_die_types_from_tpmi")>>
    \o [k \in 1..Len(dies) |->
          Insert("write_max_and_min_uncore_frequency_TPMI", dies[k], bound)]

\* A tee that fails is not noticed, the script goes on and exits with 0.
CoreCountProgram == <<[Insert("set_core_count", "cpus", "online") EXCEPT !.checked = FALSE]>>

GovernorProgram == <<Insert("set_governor", "cpufreq", "governor")>>

ElcProgram == <<Insert("set_elc", "elc", "mode")>>

\* The exit code is that of the last echo of a loop over the CPUs.
C6Program == <<Probe("get_C6_state_folder_names", FALSE),
               [Insert("configure_c6", "cpuidle", "disable") EXCEPT !.checked = FALSE]>>

Procs     == Setters \cup {Main}
Prog(p)   == IF p = Main THEN PrepareProgram ELSE Program[p]
ScriptsOf(p) == {Prog(p)[k] : k \in 1..Len(Prog(p))}
Registers == {t.reg : t \in UNION {ScriptsOf(p) : p \in Procs}} \ {""}
Fields    == {t.field : t \in UNION {ScriptsOf(p) : p \in Procs}}
Files     == {t.file : t \in UNION {ScriptsOf(p) : p \in Procs}}

Writes(t)  == t.op \in {"modify", "assign", "insert"}
Touches(t) == Writes(t) \/ t.op = "read"

\* A value that is modified has just been read, from the same register.
ReadFirst(s) ==
    \A k \in 1..Len(Prog(s)) : Prog(s)[k].op = "modify" =>
        k > 1 /\ Prog(s)[k - 1].op = "read" /\ Prog(s)[k - 1].reg = Prog(s)[k].reg

\* Of two flags that do not share a mutex, one file serves both at most to read a
\* register, and not for a flag that has a mutex.
OwnScripts(s, q) ==
    \A t \in ScriptsOf(s), u \in ScriptsOf(q) :
        Touches(t) /\ t.file = u.file => t.op = "read" /\ s \notin Locked

ASSUME ProgramAssumption ==
    /\ Main \notin Setters
    /\ Requests \subseteq SUBSET Setters
    /\ Locked \subseteq Setters /\ EmptyLists \in BOOLEAN /\ Boot \in CPUs
    /\ \A s \in Setters : Program[s] \in Seq(Script) /\ Program[s] # <<>> /\ ReadFirst(s)
    /\ \A p \in Procs : \A t \in ScriptsOf(p) : Touches(t) => t.reg # ""
    /\ \A p, q \in Procs : \A t \in ScriptsOf(p), u \in ScriptsOf(q) :
          t.file = u.file => t.op = u.op
    /\ \A R \in Requests : \A s, q \in R :
          s = q \/ {s, q} \subseteq Locked \/ OwnScripts(s, q)

\* of: the register and the CPU that the bits no flag asks about come from, or no register
\* for a value made from nothing.
Contents == [of : (Registers \cup {""}) \X CPUs, set : SUBSET Fields]
Zero     == [of |-> <<"", Boot>>, set |-> {}]

\* What a script file holds: the script, and the value that it writes.
Text == [script : UNION {ScriptsOf(p) : p \in Procs}, value : Contents]

VARIABLES
    regs,     (* the registers of the target, on each CPU                  *)
    requested,(* the flags of this command                                 *)
    hadMsr,   (* the msr kernel module was there before                    *)
    msr,      (* it is there                                               *)
    stuck,    (* it stays, by a modprobe or a modprobe -r that failed      *)
    local,    (* the script files in the local temporary directory         *)
    remote,   (* those in the temporary directory of the target            *)
    at,       (* where each goroutine is                                   *)
    step,     (* the script of its program it is at                        *)
    got,      (* the register contents it has read                         *)
    holds,    (* installedLkms names msr                                   *)
    result,   (* the err of its set function                               *)
    reported, (* the setters whose result setOnTarget has received         *)
    mutex,    (* the holder of the mutex, or Main                          *)
    crashed   (* the program has panicked                                  *)

given     == <<requested, hadMsr>>
fileVars  == <<local, remote>>
setterVars == <<at, step, got, holds, result>>
vars == <<given, regs, msr, stuck, fileVars, setterVars, reported, mutex, crashed>>

This(p) == Prog(p)[step[p]]

----------------------------------------------------------------------------
\* RunScripts writes and pushes the script files first and then installs the
\* modules; the master script is written and pushed after that.
FirstPhase(t)  == IF t.op = "master" THEN "install" ELSE "write"
AfterPush(t)   == IF t.op = "master" THEN "run" ELSE "install"
AfterInstall(t) == IF t.op = "master" THEN "write" ELSE "run"

Init ==
    /\ regs = [r \in Registers |-> [c \in CPUs |-> [of |-> <<r, c>>, set |-> {}]]]
    /\ requested \in Requests
    /\ hadMsr \in BOOLEAN /\ msr = hadMsr /\ stuck = FALSE
    /\ local = [f \in Files |-> <<>>] /\ remote = [f \in Files |-> <<>>]
    /\ at = [p \in Procs |-> IF p = Main THEN "write" ELSE "idle"]
    /\ step = [p \in Procs |-> 1]
    /\ got = [p \in Procs |-> Zero]
    /\ holds = [p \in Procs |-> FALSE]
    /\ result = [p \in Procs |-> "none"]
    /\ reported = {} /\ mutex = Main /\ crashed = FALSE

\* go flag.intSetFunc(...): the setters run once the target is prepared.
StartSetters ==
    /\ ~crashed /\ at[Main] = "return" /\ result[Main] = "ok"
    /\ at' = [p \in Procs |-> IF p = Main THEN "collect"
                              ELSE IF p \notin requested THEN "idle"
                              ELSE IF p \in Locked THEN "lock" ELSE FirstPhase(Prog(p)[1])]
    /\ UNCHANGED <<regs, msr, given, stuck, fileVars, step, got, holds, result, reported,
                   mutex, crashed>>

\* The target could not be prepared: nothing is set.
GiveUp ==
    /\ ~crashed /\ at[Main] = "return" /\ result[Main] = "err"
    /\ at' = [at EXCEPT ![Main] = "done"]
    /\ UNCHANGED <<regs, msr, given, stuck, fileVars, step, got, holds, result, reported,
                   mutex, crashed>>

\* Mutant of Lock: two holders are possible.
LockFree(s) ==
    /\ ~crashed /\ at[s] = "lock"
    /\ mutex' = s
    /\ at' = [at EXCEPT ![s] = FirstPhase(This(s))]
    /\ UNCHANGED <<regs, msr, given, stuck, fileVars, step, got, holds, result, reported,
                   crashed>>

\* uncoreFrequencyMutex.Lock(), or uncoreDieFrequencyMutex.Lock(): each is of
\* use to processors that the set functions of the other refuse.
Lock(s) ==
    /\ ~crashed /\ at[s] = "lock" /\ mutex = Main
    /\ mutex' = s
    /\ at' = [at EXCEPT ![s] = FirstPhase(This(s))]
    /\ UNCHANGED <<regs, msr, given, stuck, fileVars, step, got, holds, result, reported,
                   crashed>>

----------------------------------------------------------------------------
(* RunScripts.                                                             *)

\* The value a wrmsr script writes.
NewValue(t, read) ==
    CASE t.op = "modify" -> [of |-> read.of, set |-> read.set \cup {t.field}]
      [] t.op = "assign" -> [of |-> Zero.of, set |-> IF t.exact THEN {t.field} ELSE {}]
      [] OTHER           -> Zero

\* os.WriteFile
WriteFile(p) ==
    /\ ~crashed /\ at[p] = "write"
    /\ local' = [local EXCEPT ![This(p).file] =
                    <<[script |-> This(p), value |-> NewValue(This(p), got[p])]>>]
    /\ at' = [at EXCEPT ![p] = "push"]
    /\ UNCHANGED <<regs, msr, given, stuck, remote, step, got, holds, result, reported,
                   mutex, crashed>>

\* myTarget.PushFile
PushFile(p) ==
    /\ ~crashed /\ at[p] = "push"
    /\ remote' = [remote EXCEPT ![This(p).file] = local[This(p).file]]
    /\ at' = [at EXCEPT ![p] = AfterPush(This(p))]
    /\ UNCHANGED <<regs, msr, given, stuck, local, step, got, holds, result, reported,
                   mutex, crashed>>

\* The file cannot be written or pushed, or a dependency cannot be copied.
PushFails(p) ==
    /\ ~crashed /\ at[p] = "push"
    /\ result' = [result EXCEPT ![p] = "err"]
    /\ at' = [at EXCEPT ![p] = "uninstall"]
    /\ UNCHANGED <<regs, msr, given, stuck, fileVars, step, got, holds, reported, mutex,
                   crashed>>

\* Mutant of InstallLkms: modprobe without --first-time.
InstallAnyway(p) ==
    /\ ~crashed /\ at[p] = "install"
    /\ \/ /\ This(p).lkm
          /\ msr' = TRUE /\ holds' = [holds EXCEPT ![p] = TRUE]
       \/ UNCHANGED <<msr, holds>>
    /\ at' = [at EXCEPT ![p] = AfterInstall(This(p))]
    /\ UNCHANGED <<regs, given, stuck, fileVars, step, got, result, reported, mutex, crashed>>

\* modprobe --first-time fails when the module is there already, and may fail
\* for other reasons, also after its effect; whenever it fails the module does
\* not count as installed.
InstallLkms(p) ==
    /\ ~crashed /\ at[p] = "install"
    /\ \/ /\ This(p).lkm /\ ~msr
          /\ msr' = TRUE /\ holds' = [holds EXCEPT ![p] = TRUE] /\ UNCHANGED stuck
       \/ /\ This(p).lkm /\ ~msr
          /\ msr' = TRUE /\ stuck' = TRUE /\ UNCHANGED holds
       \/ UNCHANGED <<msr, stuck, holds>>
    /\ at' = [at EXCEPT ![p] = AfterInstall(This(p))]
    /\ UNCHANGED <<regs, given, fileVars, step, got, result, reported, mutex, crashed>>

\* The script file is run: whatever was pushed to it last.
RunProbe(p) ==
    /\ ~crashed /\ at[p] = "run" /\ This(p).op \in {"probe", "list", "master"}
    /\ remote[This(p).file][1].script.names \subseteq This(p).names
    /\ at' = [at EXCEPT ![p] = "uninstall"]
    /\ UNCHANGED <<regs, msr, given, stuck, fileVars, step, got, holds, result, reported,
                   mutex, crashed>>

\* The output of a script that is not among parallelScripts: scriptIdx is -1.
RunPanics(p) ==
    /\ ~crashed /\ at[p] = "run" /\ This(p).op = "master"
    /\ ~(remote[This(p).file][1].script.names \subseteq This(p).names)
    /\ crashed' = TRUE
    /\ UNCHANGED <<regs, msr, given, stuck, fileVars, setterVars, reported, mutex>>

\* Mutant of RunRead: an rdmsr that fails leaves the value read before.
ReadAnyway(p) ==
    /\ ~crashed /\ at[p] = "run" /\ This(p).op = "read"
    /\ \/ msr /\ got' = [got EXCEPT ![p] = regs[remote[This(p).file][1].script.reg][Boot]]
       \/ UNCHANGED got
    /\ at' = [at EXCEPT ![p] = "uninstall"]
    /\ UNCHANGED <<regs, msr, given, stuck, fileVars, step, holds, result, reported, mutex,
                   crashed>>

\* rdmsr without -a or -p reads from CPU 0.
RunRead(p) ==
    /\ ~crashed /\ at[p] = "run" /\ This(p).op = "read" /\ msr
    /\ got' = [got EXCEPT ![p] = regs[remote[This(p).file][1].script.reg][Boot]]
    /\ at' = [at EXCEPT ![p] = "uninstall"]
    /\ UNCHANGED <<regs, msr, given, stuck, fileVars, step, holds, result, reported, mutex,
                   crashed>>

\* The CPUs a script is to write to, and those it may have written to when it exits with 0:
\* failures of single writes may pass unnoticed, and CPUs that a flag takes offline are left
\* out by every script.
Meant(t)   == IF t.everywhere THEN CPUs ELSE {Boot}
Hotplug    == \E s \in requested : \E t \in ScriptsOf(s) : t.reg = "cpus"
Reached(t) == IF t.checked /\ ~Hotplug THEN {Meant(t)} ELSE SUBSET Meant(t)

\* The registers when the script of a file has written to the CPUs C.
Written(text, C) ==
    [regs EXCEPT ![text.script.reg] =
        [c \in CPUs |-> IF c \notin C THEN @[c]
                        ELSE IF text.script.op # "insert" THEN text.value
                        ELSE [of |-> @[c].of, set |-> @[c].set \cup {text.script.field}]]]

RunWrite(p) ==
    /\ ~crashed /\ at[p] = "run" /\ This(p).op \in {"modify", "assign"} /\ msr
    /\ LET text == remote[This(p).file][1] IN
       \E C \in Reached(text.script) : regs' = Written(text, C)
    /\ at' = [at EXCEPT ![p] = "uninstall"]
    /\ UNCHANGED <<msr, given, stuck, fileVars, step, got, holds, result, reported, mutex,
                   crashed>>

RunInsert(p) ==
    /\ ~crashed /\ at[p] = "run" /\ This(p).op = "insert"
    /\ LET text == remote[This(p).file][1] IN
       \E C \in Reached(text.script) : regs' = Written(text, C)
    /\ at' = [at EXCEPT ![p] = "uninstall"]
    /\ UNCHANGED <<msr, given, stuck, fileVars, step, got, holds, result, reported, mutex,
                   crashed>>

\* The script exits with an error, as rdmsr and wrmsr do without the module, the target does
\* not answer, or the output cannot be parsed.  Some writes may have been made.
RunFails(p) ==
    /\ ~crashed /\ at[p] = "run"
    /\ \/ UNCHANGED regs
       \/ /\ Writes(This(p)) /\ (This(p).op = "insert" \/ msr)
          /\ LET text == remote[This(p).file][1] IN
             \E C \in SUBSET Meant(text.script) : regs' = Written(text, C)
    /\ result' = [result EXCEPT ![p] = "err"]
    /\ at' = [at EXCEPT ![p] = "uninstall"]
    /\ UNCHANGED <<msr, given, stuck, fileVars, step, got, holds, reported, mutex, crashed>>

\* The deferred UninstallLkms, and the return of RunScripts.
UninstallLkms(p) ==
    /\ ~crashed /\ at[p] = "uninstall"
    /\ holds' = [holds EXCEPT ![p] = FALSE]
    /\ \/ msr' = (msr /\ ~holds[p]) /\ UNCHANGED stuck
       \/ holds[p] /\ stuck' = TRUE /\ UNCHANGED msr
    /\ at' = [at EXCEPT ![p] = "return"]
    /\ UNCHANGED <<regs, given, fileVars, step, got, result, reported, mutex, crashed>>

----------------------------------------------------------------------------
(* The set functions between two scripts, and their end.                   *)

NextScript(p) ==
    /\ ~crashed /\ at[p] = "return" /\ result[p] = "none" /\ step[p] < Len(Prog(p))
    /\ step' = [step EXCEPT ![p] = @ + 1]
    /\ at' = [at EXCEPT ![p] = FirstPhase(Prog(p)[step[p] + 1])]
    /\ UNCHANGED <<regs, msr, given, stuck, fileVars, got, holds, result, reported, mutex,
                   crashed>>

\* The target is not supported, or the value asked for is not valid.
Refuse(s) ==
    /\ ~crashed /\ s \in Setters /\ at[s] = "return" /\ result[s] = "none"
    /\ This(s).op \in {"probe", "list", "master", "read"}
    /\ result' = [result EXCEPT ![s] = "err"]
    /\ UNCHANGED <<regs, msr, given, stuck, fileVars, at, step, got, holds, reported, mutex,
                   crashed>>

\* The script that lists the dies has failed, which is ignored, or lists none
\* of the type: the loop over the dies does nothing.
NoDies(s) ==
    /\ ~crashed /\ at[s] = "return" /\ result[s] = "none"
    /\ This(s).op = "list" /\ EmptyLists
    /\ result' = [result EXCEPT ![s] = "ok"]
    /\ UNCHANGED <<regs, msr, given, stuck, fileVars, at, step, got, holds, reported, mutex,
                   crashed>>

Succeed(p) ==
    /\ ~crashed /\ at[p] = "return" /\ result[p] = "none" /\ step[p] = Len(Prog(p))
    /\ result' = [result EXCEPT ![p] = "ok"]
    /\ UNCHANGED <<regs, msr, given, stuck, fileVars, at, step, got, holds, reported, mutex,
                   crashed>>

\* completeChannel <- setOutput{...}
Report(s) ==
    /\ ~crashed /\ at[s] = "return" /\ result[s] # "none" /\ at[Main] = "collect"
    /\ reported' = reported \cup {s}
    /\ at' = [at EXCEPT ![s] = IF s \in Locked THEN "unlock" ELSE "done"]
    /\ UNCHANGED <<regs, msr, given, stuck, fileVars, step, got, holds, result, mutex,
                   crashed>>

\* Mutant of Unlock: the mutex is not released, and the others wait for it.
KeepLocked(s) ==
    /\ ~crashed
    /\ \/ at[s] = "unlock" /\ at' = [at EXCEPT ![s] = "done"]
       \/ at[s] = "done" /\ UNCHANGED at
    /\ UNCHANGED <<regs, msr, given, stuck, fileVars, step, got, holds, result, reported,
                   mutex, crashed>>

\* The deferred uncoreFrequencyMutex.Unlock()
Unlock(s) ==
    /\ ~crashed /\ at[s] = "unlock"
    /\ mutex' = Main
    /\ at' = [at EXCEPT ![s] = "done"]
    /\ UNCHANGED <<regs, msr, given, stuck, fileVars, step, got, holds, result, reported,
                   crashed>>

\* The outputs of all set functions have been received.
Collected ==
    /\ ~crashed /\ at[Main] = "collect" /\ reported = requested
    /\ at' = [at EXCEPT ![Main] = "done"]
    /\ UNCHANGED <<regs, msr, given, stuck, fileVars, step, got, holds, result, reported,
                   mutex, crashed>>

\* The program is over.
Over == (at[Main] = "done" \/ crashed) /\ UNCHANGED vars

RunScript(p) == WriteFile(p) \/ PushFile(p) \/ PushFails(p) \/ InstallLkms(p)
                \/ RunProbe(p) \/ RunPanics(p) \/ RunRead(p) \/ RunWrite(p) \/ RunInsert(p)
                \/ RunFails(p) \/ UninstallLkms(p)

SetFunction(s) == Lock(s) \/ RunScript(s) \/ NextScript(s) \/ Refuse(s) \/ NoDies(s) \/ Succeed(s)
                  \/ Report(s) \/ Unlock(s)

SetOnTarget == RunScript(Main) \/ Succeed(Main) \/ StartSetters \/ GiveUp \/ Collected

Next == SetOnTarget \/ (\E s \in Setters : SetFunction(s)) \/ Over

Spec == Init /\ [][Next]_vars

(* Go schedules the goroutines that can run, and every command returns.    *)
FairSpec == Spec /\ WF_vars(SetOnTarget) /\ WF_vars(\E s \in Setters : SetFunction(s))

----------------------------------------------------------------------------
(* Properties.                                                             *)

TypeOK ==
    /\ regs \in [Registers -> [CPUs -> Contents]]
    /\ msr \in BOOLEAN /\ hadMsr \in BOOLEAN /\ stuck \in BOOLEAN
    /\ local \in [Files -> Seq(Text)] /\ remote \in [Files -> Seq(Text)]
    /\ at \in [Procs -> {"idle", "lock", "write", "push", "install", "run", "uninstall",
                         "return", "unlock", "collect", "done"}]
    /\ \A p \in Procs : step[p] \in 1..Len(Prog(p))
    /\ got \in [Procs -> Contents]
    /\ holds \in [Procs -> BOOLEAN]
    /\ result \in [Procs -> {"none", "ok", "err"}]
    /\ requested \in Requests /\ reported \subseteq requested
    /\ mutex \in Locked \cup {Main}
    /\ crashed \in BOOLEAN

\* However the scripts of different goroutines overlap, the msr module is there
\* if it was there before, or exactly one script has installed it and will
\* remove it, or a removal failed.
ModuleAccounted ==
    /\ \A p, q \in Procs : holds[p] /\ holds[q] => p = q
    /\ msr <=> hadMsr \/ stuck \/ \E p \in Procs : holds[p]
    /\ hadMsr => \A p \in Procs : ~holds[p]

\* Another script of this command assigns to the register that the k-th script of s changes,
\* or modifies it without the mutex that would keep it apart from s.
Rival(s, k) ==
    \E q \in requested : \E j \in 1..Len(Prog(q)) :
        /\ <<q, j>> # <<s, k>>
        /\ Prog(q)[j].op \in {"modify", "assign"} /\ Prog(q)[j].reg = Prog(s)[k].reg
        /\ ~({s, q} \subseteq Locked /\ Prog(q)[j].op = "modify")

\* A change that a flag reports is on every CPU that it is for and stays there, whatever other
\* flags run next to it, fail or use the same files: it is lost only to a rival, to a value
\* that is not the one asked for, or to a script that does not notice its failures.
LostOnlyToRivals ==
    \A s \in reported : result[s] = "ok" =>
        \A k \in 1..step[s] :
            LET t == Prog(s)[k] IN
            Writes(t) /\ t.exact /\ t.checked /\ ~Hotplug /\ ~Rival(s, k) =>
                \A c \in Meant(t) : t.field \in regs[t.reg][c].set

\* The register is assigned to, or read through a file that serves another register, too.
Assigned(r) == \E s \in requested : \E t \in ScriptsOf(s) : t.op = "assign" /\ t.reg = r

Confused(r) ==
    \E s, q \in requested : \E t \in ScriptsOf(s), u \in ScriptsOf(q) :
        t.op = "read" /\ u.op = "read" /\ t.file = u.file /\ t.reg = r /\ u.reg # r

\* The bits of a register that no flag asks about are those it had on this CPU or on CPU 0;
\* never those of another register, and lost only where a flag assigns to the register.
BitsOfOwnRegister ==
    \A r \in Registers, c \in CPUs :
        \/ regs[r][c].of \in {<<r, c>>, <<r, Boot>>}
        \/ regs[r][c].of = Zero.of /\ Assigned(r)
        \/ Confused(r)

\* However the set functions wait for the mutex and for setOnTarget, the command ends.
Ends == <>(at[Main] = "done" \/ crashed)

----------------------------------------------------------------------------
(* What the help of the flags says, and the comment on prepareTarget:      *)
(* "almost all set scripts require the msr kernel module to be loaded ...  *)
(* so we do that here so that the goroutines for the set scripts can run   *)
(* in parallel without conflicts".                                         *)

\* A flag that is reported as set has its value on every CPU.
SuccessMeansSet ==
    \A s \in reported : result[s] = "ok" =>
        \A t \in ScriptsOf(s) : Writes(t) => \A c \in CPUs : t.field \in regs[t.reg][c].set

\* No set script writes what another one has read from another register.
NoForeignBits == \A r \in Registers, c \in CPUs : regs[r][c].of[1] \in {r, ""}

\* The module is loaded while the set scripts that need it run.
MsrLoadedForSetters ==
    \A s \in Setters : at[s] = "run" /\ This(s).op \in {"read", "modify", "assign"} => msr

\* The set scripts run in parallel without making each other panic.
NoPanic == ~crashed

============================================================================
