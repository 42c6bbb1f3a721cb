------------------------- MODULE MasterScript_proofs -------------------------
(***************************************************************************)
(* Theorems about MasterScript, for any number of parallel scripts, with   *)
(* or without pid files, any number of signals and any interleaving of the *)
(* scripts with the master script and its trap: what RunScripts returns of *)
(* every script after a summary that ran to its end.                       *)
(***************************************************************************)
EXTENDS MasterScript, TLAPS, SequenceTheorems

----------------------------------------------------------------------------
(***************************************************************************)
(* The inductive invariant.                                                *)
(***************************************************************************)
n == Len(scripts)

SectionType == [of : Script, parts : 1..4, stdout : 0..Lines, open : BOOLEAN, stderr : 0..1,
                code : ExitCode]

\* The programs of s have run and run no more.
Done(s) == IF Plain(s) THEN shell[s] = "ended" ELSE command[s] \in {"ended", "killed"}

\* A shell, its command and its files.
ShellOK(s) ==
    /\ command[s] # "none" => ~Plain(s) /\ shell[s] # "none"
    /\ shell[s] = "ended" => Done(s) /\ status[s] \in {0, 1} /\ (Plain(s) => ~cut[s])
    /\ shell[s] # "ended" => err[s] = 0
    /\ exitcodes[s] # Unset => Done(s)

Summarizing == {"name", "stdout", "stderr", "code", "exited", "returned"}

\* Without a signal a program that has ended has written all its lines, and the master has
\* waited for every script before it prints.
CalmOK(s) ==
    signals = 0 =>
        /\ ~pending /\ s \notin asked /\ command[s] # "killed"
        /\ at \notin {"kill", "sleep", "await"}
        /\ Done(s) => out[s] = Lines /\ ~cut[s]
        /\ at \in Summarizing => shell[s] = "ended" /\ exitcodes[s] = status[s]

\* The scripts that have ended when a summary is printed.
Waited(s) == s \in pids \ NeedsKill \/ signals = 0

\* The loops over the scripts.
LoopsOK ==
    /\ at = "wait" =>
        \A k \in 1..(i - 1) :
            shell[scripts[k]] = "ended" /\ exitcodes[scripts[k]] = status[scripts[k]]
    /\ at \in {"kill", "sleep", "await"} =>
        \A k \in 1..(i - 1) : scripts[k] \in pids \ NeedsKill => shell[scripts[k]] = "ended"
    /\ at = "sleep" => this \in NeedsKill /\ command[this] # "none"
    /\ at \in Summarizing => \A s \in Script : Waited(s) => shell[s] = "ended"

\* What a section tells of s once its second and its third part are printed.
StdoutOf(section, s) == Waited(s) => section.stdout = out[s] /\ ~section.open
StderrOf(section, s) == Waited(s) => section.stderr = err[s]

CodeOf(s) == IF exitcodes[s] = Unset THEN 1 ELSE exitcodes[s]

Complete(section, s) ==
    /\ section.of = s /\ section.parts = 4 /\ section.code = CodeOf(s)
    /\ StdoutOf(section, s) /\ StderrOf(section, s)

Parts == [stdout |-> 1, stderr |-> 2, code |-> 3]

\* The section that is being printed.
Begun(section, s) ==
    /\ section.of = s /\ section.parts = Parts[at]
    /\ at \in {"stderr", "code"} => StdoutOf(section, s)
    /\ at = "code" => StderrOf(section, s)

\* After the first b sections, those of the first m scripts follow, complete.
Reported(b, m) == \A k \in 1..m : Complete(printed[b + k], scripts[k])

\* The present summary: however many were broken off before it, its sections are the last.
SummaryOK ==
    /\ at = "name" => \E b \in Nat : Len(printed) = b + (i - 1) /\ Reported(b, i - 1)
    /\ at \in {"stdout", "stderr", "code"} =>
        /\ \E b \in Nat : Len(printed) = b + i /\ Reported(b, i - 1)
        /\ Begun(printed[Len(printed)], this)
    /\ at = "exited" => \E b \in Nat : Len(printed) = b + n /\ Reported(b, n)

ReturnedOK(s) ==
    at = "returned" =>
        /\ outputs[s].code = CodeOf(s)
        /\ Waited(s) => outputs[s].stdout = out[s] /\ outputs[s].stderr = err[s]

OutputType == [stdout : Nat, stderr : Nat, code : ExitCode]

Inv ==
    /\ TypeOK /\ printed \in Seq(SectionType) /\ outputs \in [Script -> OutputType]
    /\ LoopsOK /\ SummaryOK
    /\ \A s \in Script : ShellOK(s) /\ CalmOK(s) /\ ReturnedOK(s)

----------------------------------------------------------------------------
LEMMA ScriptsList ==
    /\ scripts \in Seq(Script) /\ n \in Nat /\ n >= 2 /\ DOMAIN scripts = 1..n
    /\ \A k \in 1..n : scripts[k] \in Script
    /\ \A s \in Script : \E k \in 1..n : s = scripts[k]
    /\ \A k, l \in 1..n : scripts[k] = scripts[l] => k = l
<1>1. /\ scripts \in Seq(STRING) /\ n >= 2
      /\ \A k, l \in DOMAIN scripts : scripts[k] = scripts[l] => k = l
    BY MasterAssumption DEF MasterAssumption, n
<1>2. n \in Nat /\ DOMAIN scripts = 1..n
    BY <1>1, LenProperties DEF n
<1>3. \A k \in 1..n : scripts[k] \in Script
    BY <1>2 DEF Script
<1>4. scripts \in Seq(Script)
    BY <1>1, <1>2, <1>3 DEF n
<1> QED BY <1>1, <1>2, <1>3, <1>4 DEF Script

LEMMA Bounds == Lines \in Nat \ {0} /\ MaxSignals \in Nat /\ NeedsKill \subseteq Script
BY MasterAssumption DEF MasterAssumption

LEMMA InitInv == Init => Inv
<1> SUFFICES ASSUME Init PROVE Inv
    OBVIOUS
<1>1. TypeOK
  <2>1. 1 \in DOMAIN scripts /\ 0 \in 0..Lines /\ 0 \in 0..MaxSignals /\ 0 \in 0..1
    BY ScriptsList, Bounds
  <2>2. \A k \in DOMAIN printed : printed[k].of \in Script /\ printed[k].parts \in 1..4
    BY DEF Init
  <2>3. exitcodes \in [Script -> ExitCode] /\ status \in [Script -> {0, 1, Unset}]
    BY DEF Init, ExitCode
  <2> QED BY <2>1, <2>2, <2>3 DEF Init, TypeOK
<1>2. printed \in Seq(SectionType) /\ outputs \in [Script -> OutputType]
    BY DEF Init, OutputType, NoOutput, ExitCode
<1>3. LoopsOK /\ SummaryOK
    BY DEF Init, LoopsOK, SummaryOK, Summarizing
<1>4. ASSUME NEW s \in Script PROVE ShellOK(s) /\ CalmOK(s) /\ ReturnedOK(s)
    BY DEF Init, ShellOK, CalmOK, ReturnedOK, Summarizing, Done, Unset
<1> QED BY <1>1, <1>2, <1>3, <1>4 DEF Inv

----------------------------------------------------------------------------
(***************************************************************************)
(* The scripts: a step of one of them leaves the others and the master as  *)
(* they are, and a script that is done stays so.                           *)
(***************************************************************************)
StepOf(u) ==
    /\ UNCHANGED <<endless, asked, masterVars, pending, signals, outputs>>
    /\ shell' \in [Script -> {"none", "runs", "ended"}]
    /\ command' \in [Script -> {"none", "running", "ended", "killed"}]
    /\ pidFile' \in [Script -> {"none", "empty", "written"}]
    /\ out' \in [Script -> 0..Lines] /\ err' \in [Script -> 0..1] /\ cut' \in [Script -> BOOLEAN]
    /\ status' \in [Script -> {0, 1, Unset}]
    /\ \A s \in Script \ {u} :
        /\ shell'[s] = shell[s] /\ command'[s] = command[s] /\ pidFile'[s] = pidFile[s]
        /\ out'[s] = out[s] /\ err'[s] = err[s] /\ cut'[s] = cut[s] /\ status'[s] = status[s]

LEMMA StepFrame ==
    ASSUME Inv, NEW u \in Script, ScriptStep(u)
    PROVE  StepOf(u)
<1> USE DEF Inv, TypeOK, StepOf
<1>1. CASE WriteBlock(u)
  <2>1. out[u] + 1 \in 0..Lines
    BY <1>1, Bounds DEF WriteBlock
  <2>2. PICK w \in BOOLEAN : cut' = [cut EXCEPT ![u] = w]
    BY <1>1 DEF WriteBlock
  <2> QED BY <1>1, <2>1, <2>2 DEF WriteBlock
<1>2. CASE PlainScriptEnds(u)
  <2>1. /\ out' = [out EXCEPT ![u] = Lines] \/ out' = out
        /\ cut' = [cut EXCEPT ![u] = FALSE] /\ shell[u] = "runs"
        /\ shell' = [shell EXCEPT ![u] = "ended"]
        /\ UNCHANGED <<endless, command, pidFile, asked, masterVars, pending, signals, outputs>>
    BY <1>2 DEF PlainScriptEnds, Flushed
  <2>2. PICK code \in {0, 1} : /\ status' = [status EXCEPT ![u] = code]
                               /\ err' = [err EXCEPT ![u] = @ + code]
    BY <1>2 DEF PlainScriptEnds
  <2>3. err[u] = 0 /\ err[u] + code \in 0..1
    BY <2>1 DEF ShellOK
  <2>4. Lines \in 0..Lines
    BY Bounds
  <2> QED BY <2>1, <2>2, <2>3, <2>4
<1>3. CASE StartCommand(u)
    BY <1>3 DEF StartCommand
<1>4. CASE WritePidFile(u)
    BY <1>4 DEF WritePidFile
<1>5. CASE CommandEnds(u)
  <2>1. Lines \in 0..Lines
    BY Bounds
  <2> QED BY <1>5, <2>1 DEF CommandEnds, Flushed
<1>6. CASE WaitingScriptEnds(u)
  <2>1. err[u] = 0
    BY <1>6 DEF WaitingScriptEnds, ShellOK
  <2> QED BY <1>6, <2>1 DEF WaitingScriptEnds
<1> QED BY <1>1, <1>2, <1>3, <1>4, <1>5, <1>6 DEF ScriptStep

\* What is known of u after its own step.
LEMMA OwnStep ==
    ASSUME Inv, NEW u \in Script, ScriptStep(u)
    PROVE  /\ ShellOK(u)' /\ shell'[u] # "none"
           /\ Done(u) => Done(u)' /\ out'[u] = out[u] /\ cut'[u] = cut[u]
           /\ shell[u] = "ended" =>
                shell'[u] = "ended" /\ err'[u] = err[u] /\ status'[u] = status[u]
           /\ signals = 0 => command'[u] # "killed" /\ (Done(u)' => out'[u] = Lines /\ ~cut'[u])
           /\ pidFile'[u] # "none" => command'[u] # "none" /\ u \in NeedsKill
           /\ command[u] # "none" => command'[u] # "none"
<1>1. ShellOK(u) /\ CalmOK(u) /\ StepOf(u)
    BY StepFrame DEF Inv
<1>2. /\ shell \in [Script -> {"none", "runs", "ended"}]
      /\ command \in [Script -> {"none", "running", "ended", "killed"}]
      /\ pidFile \in [Script -> {"none", "empty", "written"}]
      /\ out \in [Script -> 0..Lines] /\ err \in [Script -> 0..1] /\ cut \in [Script -> BOOLEAN]
      /\ status \in [Script -> {0, 1, Unset}]
      /\ pidFile[u] # "none" => command[u] # "none" /\ u \in NeedsKill
    BY DEF Inv, TypeOK
<1>3. exitcodes' = exitcodes /\ signals' = signals
    BY <1>1 DEF StepOf, masterVars
<1> USE <1>1, <1>2, <1>3 DEF ShellOK, CalmOK, Done, Plain
<1>4. CASE WriteBlock(u)
    BY <1>4 DEF WriteBlock, Writing
<1>5. CASE PlainScriptEnds(u)
    BY <1>5 DEF PlainScriptEnds, Flushed
<1>6. CASE StartCommand(u)
    BY <1>6 DEF StartCommand
<1>7. CASE WritePidFile(u)
    BY <1>7 DEF WritePidFile
<1>8. CASE CommandEnds(u)
    BY <1>8 DEF CommandEnds, Flushed
<1>9. CASE WaitingScriptEnds(u)
    BY <1>9 DEF WaitingScriptEnds
<1> QED BY <1>4, <1>5, <1>6, <1>7, <1>8, <1>9 DEF ScriptStep

\* What a step of a script keeps of any script.
LEMMA Kept ==
    ASSUME Inv, NEW u \in Script, ScriptStep(u), NEW s \in Script
    PROVE  /\ ShellOK(s)' /\ (shell[s] # "none" => shell'[s] # "none")
           /\ shell[s] = "ended" =>
                /\ shell'[s] = "ended" /\ out'[s] = out[s] /\ cut'[s] = cut[s]
                /\ err'[s] = err[s] /\ status'[s] = status[s]
           /\ signals = 0 => command'[s] # "killed" /\ (Done(s)' => out'[s] = Lines /\ ~cut'[s])
           /\ pidFile'[s] # "none" => command'[s] # "none" /\ s \in NeedsKill
           /\ command[s] # "none" => command'[s] # "none"
<1>1. /\ ShellOK(s) /\ CalmOK(s) /\ StepOf(u)
      /\ pidFile[s] # "none" => command[s] # "none" /\ s \in NeedsKill
    BY StepFrame DEF Inv, TypeOK
<1>2. CASE s = u
    BY <1>1, <1>2, OwnStep DEF ShellOK
<1>3. CASE s # u
  <2>1. /\ shell'[s] = shell[s] /\ command'[s] = command[s] /\ pidFile'[s] = pidFile[s]
        /\ out'[s] = out[s] /\ err'[s] = err[s] /\ cut'[s] = cut[s] /\ status'[s] = status[s]
        /\ exitcodes' = exitcodes
    BY <1>1, <1>3 DEF StepOf, masterVars
  <2> QED BY <1>1, <2>1 DEF ShellOK, CalmOK, Done
<1> QED BY <1>2, <1>3

\* What a section tells of a script stays true.
LEMMA CompleteKept ==
    ASSUME Inv, at \in Summarizing, NEW u \in Script, ScriptStep(u), NEW s \in Script, NEW section
    PROVE  /\ StdoutOf(section, s) => StdoutOf(section, s)'
           /\ StderrOf(section, s) => StderrOf(section, s)'
           /\ Complete(section, s) => Complete(section, s)'
           /\ Begun(section, s) => Begun(section, s)'
<1>1. UNCHANGED <<at, pids, signals, exitcodes>>
    BY StepFrame DEF StepOf, masterVars
<1>2. Waited(s) => out'[s] = out[s] /\ err'[s] = err[s]
    BY Kept DEF Inv, LoopsOK
<1> QED BY <1>1, <1>2 DEF StdoutOf, StderrOf, Complete, Begun, CodeOf, Waited

LEMMA ScriptInv ==
    ASSUME Inv, NEW u \in Script, ScriptStep(u)
    PROVE  Inv'
<1>1. /\ StepOf(u)
      /\ UNCHANGED <<at, i, pids, exitcodes, printed, endless, asked, pending, signals, outputs>>
    BY StepFrame DEF StepOf, masterVars
<1>2. TypeOK'
  <2>1. \A s \in Script : pidFile'[s] # "none" => command'[s] # "none" /\ s \in NeedsKill
    BY Kept
  <2>2. pids \subseteq {s \in Script : shell'[s] # "none"}
    BY Kept DEF Inv, TypeOK
  <2> QED BY <1>1, <2>1, <2>2 DEF Inv, TypeOK, StepOf
<1>3. LoopsOK'
  <2>1. i \in 1..n /\ \A k \in 1..(i - 1) : scripts[k] \in Script
    BY ScriptsList DEF Inv, TypeOK
  <2>2. this \in Script /\ this' = this
    BY <1>1, <2>1, ScriptsList DEF this
  <2>3. \A s \in Script : Waited(s)' <=> Waited(s)
    BY <1>1 DEF Waited
  <2> QED BY <1>1, <2>1, <2>2, <2>3, Kept DEF Inv, LoopsOK
<1>4. SummaryOK'
  <2>1. i \in 1..n /\ this \in Script /\ this' = this /\ n' = n
    BY <1>1, ScriptsList DEF this, Inv, TypeOK, n
  <2>2. ASSUME NEW b, NEW m \in 0..n, Reported(b, m), at \in Summarizing
        PROVE  Reported(b, m)'
    BY <1>1, <2>2, ScriptsList, CompleteKept DEF Reported
  <2>3. i - 1 \in 0..n /\ n \in 0..n
    BY <2>1, ScriptsList
  <2>4. ASSUME at = "name" PROVE \E b \in Nat : Len(printed') = b + (i' - 1) /\ Reported(b, i - 1)'
    BY <1>1, <2>2, <2>3, <2>4 DEF Inv, SummaryOK, Summarizing
  <2>5. ASSUME at \in {"stdout", "stderr", "code"}
        PROVE  \E b \in Nat : Len(printed') = b + i' /\ Reported(b, i - 1)'
    BY <1>1, <2>2, <2>3, <2>5 DEF Inv, SummaryOK, Summarizing
  <2>6. ASSUME at = "exited" PROVE \E b \in Nat : Len(printed') = b + n' /\ Reported(b, n)'
    BY <1>1, <2>1, <2>2, <2>3, <2>6 DEF Inv, SummaryOK, Summarizing
  <2>7. ASSUME at \in {"stdout", "stderr", "code"}
        PROVE  Begun(printed[Len(printed)], this)'
    <3>1. PICK x : x = printed[Len(printed)]
        OBVIOUS
    <3>2. PICK s \in Script : s = this
        BY <2>1
    <3>3. Begun(x, s)
        BY <2>7, <3>1, <3>2 DEF Inv, SummaryOK
    <3>4. Begun(x, s)'
        BY <2>7, <3>3, CompleteKept DEF Summarizing
    <3>5. x = printed'[Len(printed')] /\ s = this'
        BY <1>1, <2>1, <3>1, <3>2
    <3> QED BY <3>4, <3>5 DEF Begun, StdoutOf, StderrOf
  <2> QED BY <1>1, <2>4, <2>5, <2>6, <2>7 DEF SummaryOK
<1>5. ASSUME NEW s \in Script PROVE ShellOK(s)' /\ CalmOK(s)' /\ ReturnedOK(s)'
  <2>1. ShellOK(s)'
    BY Kept
  <2>2. CalmOK(s)'
    BY <1>1, Kept DEF Inv, CalmOK
  <2>3. ReturnedOK(s)'
    <3>1. at = "returned" => (Waited(s) => shell[s] = "ended")
        BY DEF Inv, LoopsOK, Summarizing
    <3> QED BY <1>1, <3>1, Kept DEF Inv, ReturnedOK, CodeOf, Waited
  <2> QED BY <2>1, <2>2, <2>3
<1> QED BY <1>1, <1>2, <1>3, <1>4, <1>5 DEF Inv

----------------------------------------------------------------------------
(***************************************************************************)
(* The master script as far as its summary.                                *)
(***************************************************************************)

LEMMA Here ==
    ASSUME Inv
    PROVE  /\ i \in 1..n /\ n \in Nat /\ n >= 2 /\ this \in Script /\ this = scripts[i]
           /\ \A k \in 1..(i - 1) : scripts[k] \in Script /\ scripts[k] # this
           /\ i = n => \A s \in Script : s = this \/ \E k \in 1..(i - 1) : s = scripts[k]
<1>1. i \in 1..n /\ n \in Nat /\ n >= 2
    BY ScriptsList DEF Inv, TypeOK
<1>2. this \in Script /\ this = scripts[i]
    BY <1>1, ScriptsList DEF this
<1>3. ASSUME NEW k \in 1..(i - 1) PROVE scripts[k] \in Script /\ scripts[k] # this
  <2>1. k \in 1..n /\ k # i
    BY <1>1
  <2> QED BY <1>1, <1>2, <2>1, ScriptsList
<1>4. ASSUME i = n, NEW s \in Script PROVE s = this \/ \E k \in 1..(i - 1) : s = scripts[k]
  <2>1. PICK k \in 1..n : s = scripts[k]
    BY ScriptsList
  <2>2. k = i \/ k \in 1..(i - 1)
    BY <1>1, <1>4, <2>1
  <2> QED BY <1>2, <2>1, <2>2
<1> QED BY <1>1, <1>2, <1>3, <1>4

LEMMA NextIndex ==
    ASSUME Inv, NEW loop, NEW after, NextScript(loop, after)
    PROVE  /\ i' \in 1..n /\ i' \in DOMAIN scripts
           /\ \/ i < n /\ i' = i + 1 /\ at' = loop /\ 1..(i' - 1) = 1..(i - 1) \cup {i}
              \/ i = n /\ i' = 1 /\ at' = after /\ 1..(i' - 1) = {}
BY Here, ScriptsList DEF NextScript, n

\* The places before a summary.
Preparing == {"trap", "start", "wait", "kill", "sleep", "await"}

\* A summary begins with no section of its own.
LEMMA SummaryBegins ==
    ASSUME Inv, at' \in Preparing \cup {"failed"} \/ (at' = "name" /\ i' = 1), printed' = printed
    PROVE  SummaryOK' /\ \A s \in Script : ReturnedOK(s)'
<1>1. Len(printed) \in Nat /\ Len(printed) = Len(printed) + (1 - 1)
    BY LenProperties DEF Inv
<1>2. at' = "name" => \E b \in Nat : Len(printed)' = b + (i' - 1) /\ Reported(b, i - 1)'
  <2> SUFFICES ASSUME at' = "name"
               PROVE  \E b \in Nat : Len(printed)' = b + (i' - 1) /\ Reported(b, i - 1)'
    OBVIOUS
  <2>1. i' = 1 /\ 1..(i' - 1) = {}
    BY DEF Preparing
  <2>2. PICK b \in Nat : b = Len(printed)
    BY <1>1
  <2>3. Len(printed)' = b + (i' - 1)
    BY <1>1, <2>1, <2>2
  <2>4. Reported(b, i - 1)'
    BY <2>1 DEF Reported
  <2> QED BY <2>3, <2>4
<1> QED BY <1>2 DEF SummaryOK, ReturnedOK, Preparing

\* A step of the master script before its summary, which the scripts do not see.
LEMMA PreparingInv ==
    ASSUME Inv, at \in Preparing,
           at' \in Preparing \/ (at' = "name" /\ i' = 1), i' \in DOMAIN scripts,
           UNCHANGED <<endless, shell, pidFile, out, err, cut, status, printed, signals, outputs>>,
           command' \in [Script -> {"none", "running", "ended", "killed"}],
           asked' \subseteq Script, pids' \subseteq {s \in Script : shell[s] # "none"},
           exitcodes' \in [Script -> ExitCode], pending' \in BOOLEAN,
           \A s \in Script : command[s] # "none" => command'[s] # "none",
           LoopsOK', \A s \in Script : ShellOK(s)' /\ CalmOK(s)'
    PROVE  Inv'
<1>1. TypeOK'
    BY DEF Inv, TypeOK, Preparing
<1> QED BY <1>1, SummaryBegins DEF Inv

LEMMA SetTrapInv ==
    ASSUME Inv, SetTrap
    PROVE  Inv'
<1> USE DEF SetTrap, At, scriptVars
<1>1. LoopsOK'
    BY DEF LoopsOK, Summarizing
<1>2. ASSUME NEW s \in Script PROVE ShellOK(s)' /\ CalmOK(s)'
    BY DEF Inv, ShellOK, CalmOK, Done, Summarizing
<1> QED BY <1>1, <1>2, PreparingInv DEF Inv, TypeOK, Preparing

LEMMA StartScriptInv ==
    ASSUME Inv, StartScript
    PROVE  Inv'
<1>1. /\ at = "start" /\ shell[this] = "none" /\ this \in Script
      /\ shell' = [shell EXCEPT ![this] = "runs"] /\ at' = at
      /\ UNCHANGED <<endless, command, pidFile, asked, out, err, cut, status, i, pids, exitcodes,
                     printed, pending, signals, outputs>>
    BY Here DEF StartScript, At, masterVars
<1>2. TypeOK'
    BY <1>1 DEF Inv, TypeOK
<1>3. LoopsOK' /\ SummaryOK'
    BY <1>1 DEF LoopsOK, SummaryOK, Summarizing
<1>4. ASSUME NEW s \in Script PROVE ShellOK(s)' /\ CalmOK(s)' /\ ReturnedOK(s)'
  <2>1. ShellOK(s) /\ CalmOK(s) /\ shell \in [Script -> {"none", "runs", "ended"}]
    BY DEF Inv, TypeOK
  <2>2. ShellOK(s)'
    BY <1>1, <2>1 DEF ShellOK, Done
  <2>3. CalmOK(s)' /\ ReturnedOK(s)'
    BY <1>1, <2>1 DEF CalmOK, ReturnedOK, Done, Summarizing
  <2> QED BY <2>2, <2>3
<1> QED BY <1>1, <1>2, <1>3, <1>4 DEF Inv

LEMMA NotePidInv ==
    ASSUME Inv, NotePid
    PROVE  Inv'
<1>1. /\ at = "start" /\ shell[this] # "none" /\ pids' = pids \cup {this} /\ ~pending
      /\ UNCHANGED <<endless, scriptVars, exitcodes, printed, pending, signals, outputs>>
      /\ i' \in DOMAIN scripts
      /\ \/ at' = "start"
         \/ at' = "wait" /\ 1..(i' - 1) = {}
    BY NextIndex DEF NotePid, At
<1>2. LoopsOK'
    BY <1>1 DEF LoopsOK, Summarizing
<1>3. ASSUME NEW s \in Script PROVE ShellOK(s)' /\ CalmOK(s)'
    BY <1>1 DEF Inv, ShellOK, CalmOK, Done, Summarizing, scriptVars
<1>4. pids' \subseteq {s \in Script : shell[s] # "none"}
    BY <1>1, Here DEF Inv, TypeOK
<1> QED BY <1>1, <1>2, <1>3, <1>4, PreparingInv DEF Inv, TypeOK, Preparing, scriptVars

LEMMA WaitForScriptInv ==
    ASSUME Inv, WaitForScript
    PROVE  Inv'
<1>1. /\ at = "wait" /\ ~pending /\ shell[this] = "ended" /\ this \in Script
      /\ exitcodes' = [exitcodes EXCEPT ![this] = status[this]]
      /\ UNCHANGED <<endless, scriptVars, pids, printed, pending, signals, outputs>>
      /\ i' \in DOMAIN scripts
      /\ \/ at' = "wait" /\ 1..(i' - 1) = 1..(i - 1) \cup {i}
         \/ i = n /\ at' = "name" /\ i' = 1
    BY NextIndex, Here DEF WaitForScript, At
<1>2. /\ exitcodes \in [Script -> ExitCode] /\ status \in [Script -> {0, 1, Unset}]
      /\ \A s \in Script : ShellOK(s) /\ CalmOK(s)
    BY DEF Inv, TypeOK
<1>3. exitcodes' \in [Script -> ExitCode]
    BY <1>1, <1>2 DEF ExitCode
<1>4. \A k \in 1..(i - 1) \cup {i} :
          shell[scripts[k]] = "ended" /\ exitcodes'[scripts[k]] = status[scripts[k]]
    BY <1>1, <1>2, Here DEF Inv, LoopsOK
<1>5. i = n => \A s \in Script : shell[s] = "ended" /\ exitcodes'[s] = status[s]
    BY <1>4, Here
<1>6. LoopsOK'
    BY <1>1, <1>4, <1>5 DEF LoopsOK, Summarizing, scriptVars
<1>7. ASSUME NEW s \in Script PROVE ShellOK(s)' /\ CalmOK(s)'
  <2>1. ShellOK(s)'
    BY <1>1, <1>2 DEF ShellOK, Done, scriptVars
  <2>2. CalmOK(s)'
    BY <1>1, <1>2, <1>5 DEF CalmOK, Done, scriptVars, Summarizing
  <2> QED BY <2>1, <2>2
<1> QED BY <1>1, <1>3, <1>6, <1>7, PreparingInv DEF Inv, TypeOK, Preparing, scriptVars

LEMMA HandleSigintInv ==
    ASSUME Inv, HandleSigint
    PROVE  Inv'
<1>1. /\ pending /\ pending' = FALSE /\ at' = "kill" /\ i' = 1
      /\ UNCHANGED <<endless, scriptVars, pids, exitcodes, printed, signals, outputs>>
    BY DEF HandleSigint
<1>2. signals # 0
    BY <1>1, Here DEF Inv, CalmOK
<1>3. 1 \in DOMAIN scripts /\ 1..(1 - 1) = {}
    BY ScriptsList
<1>4. TypeOK'
    BY <1>1, <1>3 DEF Inv, TypeOK, scriptVars
<1>5. LoopsOK'
    BY <1>1, <1>3 DEF LoopsOK, Summarizing
<1>6. SummaryOK' /\ \A s \in Script : ReturnedOK(s)'
    BY <1>1, SummaryBegins DEF Preparing
<1>7. ASSUME NEW s \in Script PROVE ShellOK(s)' /\ CalmOK(s)'
    BY <1>1, <1>2 DEF Inv, ShellOK, CalmOK, Done, scriptVars
<1> QED BY <1>1, <1>4, <1>5, <1>6, <1>7 DEF Inv

----------------------------------------------------------------------------
(***************************************************************************)
(* The handler of SIGINT.                                                  *)
(***************************************************************************)
Killing == {"kill", "sleep", "await"}

LEMMA Signalled ==
    ASSUME Inv, at \in Killing
    PROVE  signals # 0 /\ this \in Script
BY Here DEF Inv, CalmOK, Killing

\* The loop of the handler goes on when the present script has ended or has a pid file.
LEMMA KillingOn ==
    ASSUME Inv, at \in Killing, this \in pids \ NeedsKill => shell[this] = "ended",
           NextScript("kill", "name"), UNCHANGED <<shell, pids, signals>>
    PROVE  /\ LoopsOK' /\ i' \in DOMAIN scripts
           /\ at' = "kill" \/ (at' = "name" /\ i' = 1)
<1>1. /\ i' \in DOMAIN scripts
      /\ \/ at' = "kill" /\ 1..(i' - 1) = 1..(i - 1) \cup {i}
         \/ i = n /\ at' = "name" /\ i' = 1
    BY NextIndex
<1>2. \A k \in 1..(i - 1) \cup {i} : scripts[k] \in pids \ NeedsKill => shell[scripts[k]] = "ended"
    BY Here DEF Inv, LoopsOK, Killing
<1>3. i = n => \A s \in Script : s \in pids \ NeedsKill => shell[s] = "ended"
    BY <1>2, Here
<1>4. signals # 0
    BY Signalled
<1>5. LoopsOK'
    BY <1>1, <1>2, <1>3, <1>4 DEF LoopsOK, Waited, Summarizing
<1> QED BY <1>1, <1>5

LEMMA NothingToKillInv ==
    ASSUME Inv, NothingToKill
    PROVE  Inv'
<1>1. /\ at = "kill" /\ ~pending /\ NextScript("kill", "name")
      /\ UNCHANGED <<endless, scriptVars, pids, exitcodes, printed, pending, signals, outputs>>
      /\ this \in pids \ NeedsKill => shell[this] = "ended"
    BY DEF NothingToKill, At, HasPidFile
<1>2. LoopsOK' /\ i' \in DOMAIN scripts /\ (at' = "kill" \/ (at' = "name" /\ i' = 1))
    BY <1>1, KillingOn DEF Killing, scriptVars
<1>3. signals # 0
    BY <1>1, Signalled DEF Killing
<1>4. ASSUME NEW s \in Script PROVE ShellOK(s)' /\ CalmOK(s)'
    BY <1>1, <1>3 DEF Inv, ShellOK, CalmOK, Done, scriptVars
<1> QED BY <1>1, <1>2, <1>4, PreparingInv DEF Inv, TypeOK, Preparing, scriptVars

LEMMA InterruptCommandInv ==
    ASSUME Inv, InterruptCommand \/ InterruptScript
    PROVE  Inv'
<1>1. /\ at = "kill" /\ ~pending /\ at' \in {"sleep", "await"} /\ asked' \subseteq Script
      /\ at' = "sleep" => this \in NeedsKill /\ command[this] # "none"
      /\ UNCHANGED <<endless, shell, command, pidFile, out, err, cut, status, i, pids, exitcodes,
                     printed, pending, signals, outputs>>
  <2>1. asked' \subseteq Script
    BY Here DEF InterruptCommand, InterruptScript, Inv, TypeOK, scriptVars
  <2> QED BY <2>1 DEF InterruptCommand, InterruptScript, At, HasPidFile, IsRunning, scriptVars
<1>2. signals # 0
    BY <1>1, Signalled DEF Killing
<1>3. LoopsOK'
    BY <1>1 DEF Inv, LoopsOK, Summarizing, this
<1>4. ASSUME NEW s \in Script PROVE ShellOK(s)' /\ CalmOK(s)'
    BY <1>1, <1>2 DEF Inv, ShellOK, CalmOK, Done
<1> QED BY <1>1, <1>3, <1>4, PreparingInv DEF Inv, TypeOK, Preparing

LEMMA KillCommandInv ==
    ASSUME Inv, KillCommand
    PROVE  Inv'
<1>1. /\ at = "sleep" /\ ~pending /\ NextScript("kill", "name")
      /\ command' = [command EXCEPT ![this] = IF command[this] = "running" THEN "killed" ELSE @]
      /\ exitcodes' = [exitcodes EXCEPT ![this] = IF command[this] = "running" THEN 137 ELSE 0]
      /\ UNCHANGED <<endless, shell, pidFile, asked, out, err, cut, status, pids, printed, pending,
                     signals, outputs>>
    BY DEF KillCommand, At
<1>2. this \in NeedsKill /\ command[this] # "none" /\ this \in Script
    BY <1>1, Here DEF Inv, LoopsOK
<1>3. LoopsOK' /\ i' \in DOMAIN scripts /\ (at' = "kill" \/ (at' = "name" /\ i' = 1))
    BY <1>1, <1>2, KillingOn DEF Killing
<1>4. signals # 0
    BY <1>1, Signalled DEF Killing
<1>5. /\ command \in [Script -> {"none", "running", "ended", "killed"}]
      /\ exitcodes \in [Script -> ExitCode]
      /\ \A s \in Script : ShellOK(s) /\ CalmOK(s)
    BY DEF Inv, TypeOK
<1>6. command'[this] \in {"ended", "killed"}
    BY <1>1, <1>2, <1>5
<1>7. ASSUME NEW s \in Script PROVE ShellOK(s)' /\ CalmOK(s)'
  <2>1. ShellOK(s)'
    BY <1>1, <1>2, <1>5, <1>6 DEF ShellOK, Done, Plain
  <2>2. CalmOK(s)'
    BY <1>1, <1>4 DEF CalmOK
  <2> QED BY <2>1, <2>2
<1>8. exitcodes' \in [Script -> ExitCode]
    BY <1>1, <1>5 DEF ExitCode
<1>9. /\ command' \in [Script -> {"none", "running", "ended", "killed"}]
      /\ \A s \in Script : command[s] # "none" => command'[s] # "none"
    BY <1>1, <1>2, <1>5
<1> QED BY <1>1, <1>3, <1>7, <1>8, <1>9, PreparingInv DEF Inv, TypeOK, Preparing

LEMMA AwaitScriptInv ==
    ASSUME Inv, AwaitScript
    PROVE  Inv'
<1>1. /\ at = "await" /\ ~pending /\ shell[this] = "ended" /\ NextScript("kill", "name")
      /\ exitcodes' = [exitcodes EXCEPT ![this] = IF exitcodes[this] = Unset THEN 130 ELSE @]
      /\ UNCHANGED <<endless, scriptVars, pids, printed, pending, signals, outputs>>
    BY DEF AwaitScript, At
<1>2. LoopsOK' /\ i' \in DOMAIN scripts /\ (at' = "kill" \/ (at' = "name" /\ i' = 1))
    BY <1>1, KillingOn DEF Killing, scriptVars
<1>3. signals # 0 /\ this \in Script
    BY <1>1, Signalled DEF Killing
<1>4. /\ exitcodes \in [Script -> ExitCode] /\ exitcodes' \in [Script -> ExitCode]
  <2>1. exitcodes \in [Script -> ExitCode]
    BY DEF Inv, TypeOK
  <2> QED BY <1>1, <2>1, <1>3 DEF ExitCode
<1>5. ASSUME NEW s \in Script PROVE ShellOK(s)' /\ CalmOK(s)'
  <2>1. ShellOK(s) /\ ShellOK(this)
    BY <1>3 DEF Inv
  <2>2. ShellOK(s)'
    BY <1>1, <1>4, <2>1 DEF ShellOK, Done, scriptVars
  <2>3. CalmOK(s)'
    BY <1>1, <1>3 DEF CalmOK
  <2> QED BY <2>2, <2>3
<1> QED BY <1>1, <1>2, <1>4, <1>5, PreparingInv DEF Inv, TypeOK, Preparing, scriptVars

----------------------------------------------------------------------------
(***************************************************************************)
(* The summary.                                                            *)
(***************************************************************************)
Printing == {"name", "stdout", "stderr", "code"}

LEMMA PrintingInv ==
    ASSUME Inv, at \in Printing, at' \in Printing \cup {"exited"}, i' \in DOMAIN scripts,
           UNCHANGED <<endless, scriptVars, pids, exitcodes, pending, signals, outputs>>,
           printed' \in Seq(SectionType), SummaryOK'
    PROVE  Inv'
<1>1. \A k \in DOMAIN printed' : printed'[k].of \in Script /\ printed'[k].parts \in 1..4
  <2>1. \A k \in DOMAIN printed' : printed'[k] \in SectionType
    BY LenProperties, ElementOfSeq
  <2> QED BY <2>1 DEF SectionType
<1>2. TypeOK'
    BY <1>1 DEF Inv, TypeOK, Printing, scriptVars
<1>3. LoopsOK'
    BY DEF Inv, LoopsOK, Printing, Summarizing, scriptVars, Waited
<1>4. ASSUME NEW s \in Script PROVE ShellOK(s)' /\ CalmOK(s)' /\ ReturnedOK(s)'
    BY DEF Inv, ShellOK, CalmOK, ReturnedOK, Done, Printing, Summarizing, scriptVars
<1> QED BY <1>2, <1>3, <1>4 DEF Inv

\* The sections of the scripts before the present one are left as they are.
LEMMA ReportedKept ==
    ASSUME NEW b, NEW m, Reported(b, m), \A k \in 1..m : printed'[b + k] = printed[b + k],
           UNCHANGED <<out, err, pids, exitcodes, signals>>
    PROVE  Reported(b, m)'
BY DEF Reported, Complete, CodeOf, StdoutOf, StderrOf, Waited

LEMMA PrintNameInv ==
    ASSUME Inv, PrintName
    PROVE  Inv'
<1> DEFINE new == [of |-> this, parts |-> 1, stdout |-> 0, open |-> FALSE, stderr |-> 0,
                   code |-> Unset]
<1>1. /\ at = "name" /\ at' = "stdout" /\ printed' = Append(printed, new) /\ i' = i
      /\ UNCHANGED <<endless, scriptVars, pids, exitcodes, pending, signals, outputs>>
    BY DEF PrintName, PrintPart, Section, At
<1>2. new \in SectionType
    BY Here, Bounds DEF SectionType, ExitCode
<1>3. printed \in Seq(SectionType) /\ Len(printed) \in Nat
    BY LenProperties DEF Inv
<1> HIDE DEF new
<1>4. /\ printed' \in Seq(SectionType) /\ Len(printed') = Len(printed) + 1
      /\ \A j \in 1..Len(printed) : printed'[j] = printed[j]
      /\ printed'[Len(printed')] = new
  <2>1. printed' = Append(printed, new) /\ new \in SectionType /\ printed \in Seq(SectionType)
    BY <1>1, <1>2, <1>3
  <2>2. /\ Append(printed, new) \in Seq(SectionType)
        /\ Len(Append(printed, new)) = Len(printed) + 1
        /\ \A j \in 1..Len(printed) : Append(printed, new)[j] = printed[j]
        /\ Append(printed, new)[Len(printed) + 1] = new
    BY <2>1, AppendProperties
  <2>3. printed' \in Seq(SectionType) /\ Len(printed') = Len(printed) + 1
    BY <2>1, <2>2
  <2>4. \A j \in 1..Len(printed) : printed'[j] = printed[j]
    BY <2>1, <2>2
  <2>5. printed'[Len(printed')] = new
    BY <2>1, <2>2, <2>3
  <2> QED BY <2>3, <2>4, <2>5
<1>5. SummaryOK'
  <2>1. PICK b \in Nat : Len(printed) = b + (i - 1) /\ Reported(b, i - 1)
    BY <1>1 DEF Inv, SummaryOK
  <2>2. \A k \in 1..(i - 1) : printed'[b + k] = printed[b + k]
    BY <1>4, <2>1, Here
  <2>3. Reported(b, i - 1)' /\ Len(printed') = b + i
    BY <1>1, <1>4, <2>1, <2>2, Here, ReportedKept DEF scriptVars
  <2>4. Begun(printed[Len(printed)], this)'
    BY <1>1, <1>4 DEF Begun, Parts, this, new
  <2> QED BY <1>1, <2>3, <2>4 DEF SummaryOK
<1> QED BY <1>1, <1>4, <1>5, PrintingInv DEF Printing, Inv, TypeOK

\* The next part of the section that is being printed.
LEMMA NextPart ==
    ASSUME Inv, at \in {"stdout", "stderr", "code"}, NEW e \in SectionType,
           printed' = [printed EXCEPT ![Len(printed)] = e],
           UNCHANGED <<out, err, pids, exitcodes, signals>>
    PROVE  /\ printed' \in Seq(SectionType) /\ Len(printed') = Len(printed)
           /\ printed'[Len(printed)] = e
           /\ \E b \in Nat, m \in Nat : Len(printed) = b + i /\ m = i - 1 /\ Reported(b, m)'
<1>1. PICK b \in Nat : Len(printed) = b + i /\ Reported(b, i - 1)
    BY DEF Inv, SummaryOK
<1>2. printed \in Seq(SectionType) /\ i \in 1..n /\ n \in Nat
    BY Here DEF Inv
<1>3. Len(printed) \in 1..Len(printed)
    BY <1>1, <1>2
<1>4. /\ printed' \in Seq(SectionType) /\ Len(printed') = Len(printed)
      /\ \A j \in 1..Len(printed) : printed'[j] = IF j = Len(printed) THEN e ELSE printed[j]
    BY <1>2, <1>3, ExceptSeq
<1>5. \A k \in 1..(i - 1) : printed'[b + k] = printed[b + k]
  <2> SUFFICES ASSUME NEW k \in 1..(i - 1) PROVE printed'[b + k] = printed[b + k]
    OBVIOUS
  <2>1. b + k \in 1..Len(printed) /\ b + k # Len(printed)
    BY <1>1, <1>2
  <2> QED BY <1>4, <2>1
<1>6. PICK m \in Nat : m = i - 1
    BY <1>2
<1>7. Reported(b, m)'
    BY <1>1, <1>5, <1>6, ReportedKept
<1>8. printed'[Len(printed)] = e
    BY <1>3, <1>4
<1> QED BY <1>1, <1>4, <1>6, <1>7, <1>8

LEMMA Present ==
    ASSUME Inv, at \in {"stdout", "stderr", "code"}
    PROVE  /\ printed \in Seq(SectionType) /\ Len(printed) \in DOMAIN printed
           /\ printed[Len(printed)] \in SectionType /\ Begun(printed[Len(printed)], this)
           /\ out[this] \in 0..Lines /\ cut[this] \in BOOLEAN /\ err[this] \in 0..1
           /\ CodeOf(this) \in ExitCode
<1>1. PICK b \in Nat : Len(printed) = b + i
    BY DEF Inv, SummaryOK
<1>2. printed \in Seq(SectionType) /\ i \in 1..n /\ n \in Nat
    BY Here DEF Inv
<1>3. Len(printed) \in 1..Len(printed)
    BY <1>1, <1>2
<1>4. printed[Len(printed)] \in SectionType
    BY <1>2, <1>3, ElementOfSeq
<1>5. CodeOf(this) \in ExitCode
    BY Here DEF Inv, TypeOK, CodeOf, ExitCode
<1>6. Len(printed) \in DOMAIN printed
    BY <1>2, <1>3, LenProperties
<1> QED BY <1>2, <1>4, <1>5, <1>6, Here DEF Inv, TypeOK, SummaryOK

\* Setting a field of a section sets that field, and no other.
LEMMA SetPart ==
    ASSUME NEW r \in SectionType, NEW p \in 1..4, NEW x, x = [r EXCEPT !.parts = p]
    PROVE  /\ x \in SectionType /\ x.of = r.of /\ x.parts = p /\ x.stdout = r.stdout
           /\ x.open = r.open /\ x.stderr = r.stderr
BY DEF SectionType

LEMMA SetStdout ==
    ASSUME NEW r \in SectionType, NEW o \in 0..Lines, NEW x, x = [r EXCEPT !.stdout = o]
    PROVE  x \in SectionType /\ x.of = r.of /\ x.parts = r.parts /\ x.stdout = o
BY DEF SectionType

LEMMA SetOpen ==
    ASSUME NEW r \in SectionType, NEW c \in BOOLEAN, NEW x, x = [r EXCEPT !.open = c]
    PROVE  /\ x \in SectionType /\ x.of = r.of /\ x.parts = r.parts /\ x.stdout = r.stdout
           /\ x.open = c
BY DEF SectionType

LEMMA SetStderr ==
    ASSUME NEW r \in SectionType, NEW e \in 0..1, NEW x, x = [r EXCEPT !.stderr = e]
    PROVE  /\ x \in SectionType /\ x.of = r.of /\ x.parts = r.parts /\ x.stdout = r.stdout
           /\ x.open = r.open /\ x.stderr = e
BY DEF SectionType

LEMMA SetCode ==
    ASSUME NEW r \in SectionType, NEW c \in ExitCode, NEW x, x = [r EXCEPT !.code = c]
    PROVE  /\ x \in SectionType /\ x.of = r.of /\ x.parts = r.parts /\ x.stdout = r.stdout
           /\ x.open = r.open /\ x.stderr = r.stderr /\ x.code = c
BY DEF SectionType

LEMMA PrintStdoutInv ==
    ASSUME Inv, PrintStdout
    PROVE  Inv'
<1> DEFINE old == printed[Len(printed)]
<1>1. /\ at = "stdout" /\ at' = "stderr" /\ i' = i
      /\ printed' = [printed EXCEPT ![Len(printed)].parts = 2, ![Len(printed)].stdout = out[this],
                                    ![Len(printed)].open = cut[this]]
      /\ UNCHANGED <<endless, scriptVars, pids, exitcodes, pending, signals, outputs>>
    BY DEF PrintStdout, PrintPart, Section, At
<1>2. /\ printed \in Seq(SectionType) /\ Len(printed) \in DOMAIN printed
      /\ old \in SectionType /\ old.of = this
      /\ out[this] \in 0..Lines /\ cut[this] \in BOOLEAN
    BY <1>1, Present DEF Begun
<1>3. PICK e \in SectionType :
        /\ printed' = [printed EXCEPT ![Len(printed)] = e]
        /\ e.of = this /\ e.parts = 2 /\ e.stdout = out[this] /\ e.open = cut[this]
  <2> DEFINE p == [old EXCEPT !.parts = 2]
             o == [p EXCEPT !.stdout = out[this]]
             x == [o EXCEPT !.open = cut[this]]
  <2>1. printed' = [printed EXCEPT ![Len(printed)] = x]
    BY <1>1, <1>2
  <2> HIDE DEF x, o, p, old
  <2>2. p \in SectionType /\ p.of = this /\ p.parts = 2
    BY <1>2, 2 \in 1..4, SetPart DEF p
  <2>3. o \in SectionType /\ o.of = this /\ o.parts = 2 /\ o.stdout = out[this]
    BY <1>2, <2>2, SetStdout DEF o
  <2>4. /\ x \in SectionType /\ x.of = this /\ x.parts = 2
        /\ x.stdout = out[this] /\ x.open = cut[this]
    BY <1>2, <2>3, SetOpen DEF x
  <2> QED BY <2>1, <2>4
<1> HIDE DEF old
<1>4. /\ printed' \in Seq(SectionType) /\ Len(printed') = Len(printed)
      /\ printed'[Len(printed')] = e /\ this' = this
      /\ \E b \in Nat, m \in Nat : Len(printed) = b + i /\ m = i - 1 /\ Reported(b, m)'
    BY <1>1, <1>3, NextPart DEF scriptVars, this
<1>5. Waited(this) => ~cut[this]
    BY <1>1, Here DEF Inv, LoopsOK, ShellOK, CalmOK, Waited, Summarizing, Plain
<1>6. Begun(e, this)'
    BY <1>1, <1>3, <1>4, <1>5 DEF Begun, Parts, StdoutOf, Waited, scriptVars
<1>7. SummaryOK'
    BY <1>1, <1>4, <1>6 DEF SummaryOK, Reported
<1> QED BY <1>1, <1>4, <1>7, PrintingInv DEF Printing, Inv, TypeOK

LEMMA PrintStderrInv ==
    ASSUME Inv, PrintStderr
    PROVE  Inv'
<1> DEFINE old == printed[Len(printed)]
<1>1. /\ at = "stderr" /\ at' = "code" /\ i' = i
      /\ printed' = [printed EXCEPT ![Len(printed)].parts = 3, ![Len(printed)].stderr = err[this]]
      /\ UNCHANGED <<endless, scriptVars, pids, exitcodes, pending, signals, outputs>>
    BY DEF PrintStderr, PrintPart, Section, At
<1>2. /\ printed \in Seq(SectionType) /\ Len(printed) \in DOMAIN printed
      /\ old \in SectionType /\ old.of = this /\ StdoutOf(old, this) /\ err[this] \in 0..1
    BY <1>1, Present DEF Begun
<1>3. PICK e \in SectionType :
        /\ printed' = [printed EXCEPT ![Len(printed)] = e]
        /\ e.of = this /\ e.parts = 3 /\ e.stderr = err[this]
        /\ Waited(this) => e.stdout = out[this] /\ ~e.open
  <2> DEFINE p == [old EXCEPT !.parts = 3]
             x == [p EXCEPT !.stderr = err[this]]
  <2>2. printed' = [printed EXCEPT ![Len(printed)] = x]
    BY <1>1, <1>2
  <2> HIDE DEF x, p, old
  <2>1. /\ x \in SectionType /\ x.of = this /\ x.parts = 3 /\ x.stderr = err[this]
        /\ x.stdout = old.stdout /\ x.open = old.open
    <3>1. /\ p \in SectionType /\ p.of = this /\ p.parts = 3 /\ p.stdout = old.stdout
          /\ p.open = old.open
        BY <1>2, 3 \in 1..4, SetPart DEF p
    <3> QED BY <1>2, <3>1, SetStderr DEF x
  <2>3. Waited(this) => x.stdout = out[this] /\ ~x.open
    BY <1>2, <2>1 DEF StdoutOf
  <2> QED BY <2>1, <2>2, <2>3
<1> HIDE DEF old
<1>4. /\ printed' \in Seq(SectionType) /\ Len(printed') = Len(printed)
      /\ printed'[Len(printed')] = e /\ this' = this
      /\ \E b \in Nat, m \in Nat : Len(printed) = b + i /\ m = i - 1 /\ Reported(b, m)'
    BY <1>1, <1>3, NextPart DEF scriptVars, this
<1>5. Begun(e, this)'
    BY <1>1, <1>3, <1>4 DEF Begun, Parts, StdoutOf, StderrOf, Waited, scriptVars
<1>6. SummaryOK'
    BY <1>1, <1>4, <1>5 DEF SummaryOK, Reported
<1> QED BY <1>1, <1>4, <1>6, PrintingInv DEF Printing, Inv, TypeOK

LEMMA PrintExitCodeInv ==
    ASSUME Inv, PrintExitCode
    PROVE  Inv'
<1> DEFINE old == printed[Len(printed)]
<1>1. /\ at = "code" /\ NextScript("name", "exited")
      /\ printed' = [printed EXCEPT ![Len(printed)].parts = 4, ![Len(printed)].code = CodeOf(this)]
      /\ UNCHANGED <<endless, scriptVars, pids, exitcodes, pending, signals, outputs>>
    BY DEF PrintExitCode, Section, At, CodeOf
<1>2. /\ printed \in Seq(SectionType) /\ Len(printed) \in DOMAIN printed
      /\ old \in SectionType /\ old.of = this /\ StdoutOf(old, this) /\ StderrOf(old, this)
      /\ CodeOf(this) \in ExitCode
    BY <1>1, Present DEF Begun
<1>3. PICK e \in SectionType :
        /\ printed' = [printed EXCEPT ![Len(printed)] = e]
        /\ Complete(e, this)
  <2> DEFINE p == [old EXCEPT !.parts = 4]
             x == [p EXCEPT !.code = CodeOf(this)]
  <2>2. printed' = [printed EXCEPT ![Len(printed)] = x]
    BY <1>1, <1>2
  <2> HIDE DEF x, p, old
  <2>1. /\ x \in SectionType /\ x.of = this /\ x.parts = 4 /\ x.code = CodeOf(this)
        /\ x.stdout = old.stdout /\ x.open = old.open /\ x.stderr = old.stderr
    <3>1. /\ p \in SectionType /\ p.of = this /\ p.parts = 4 /\ p.stdout = old.stdout
          /\ p.open = old.open /\ p.stderr = old.stderr
        BY <1>2, 4 \in 1..4, SetPart DEF p
    <3> QED BY <1>2, <3>1, SetCode DEF x
  <2>3. Complete(x, this)
    BY <1>2, <2>1 DEF StdoutOf, StderrOf, Complete
  <2> QED BY <2>1, <2>2, <2>3
<1> HIDE DEF old
<1>4. PICK b \in Nat, m \in Nat :
        /\ printed' \in Seq(SectionType) /\ Len(printed') = Len(printed)
        /\ printed'[Len(printed)] = e
        /\ Len(printed) = b + i /\ m = i - 1 /\ Reported(b, m)'
    BY <1>1, <1>3, NextPart DEF scriptVars
<1>5. /\ i' \in DOMAIN scripts
      /\ \/ at' = "name" /\ i' - 1 = m + 1
         \/ at' = "exited" /\ n = m + 1
    BY <1>1, <1>4, Here, NextIndex
<1>6. PICK s \in Script : s = this /\ s = scripts[m + 1]
    BY <1>4, Here
<1>7. Complete(e, s)'
    BY <1>1, <1>3, <1>6 DEF Complete, StdoutOf, StderrOf, CodeOf, Waited, scriptVars
<1>8. Reported(b, m + 1)'
  <2>1. printed'[b + (m + 1)] = e
    BY <1>4, Here
  <2>2. \A k \in 1..(m + 1) : k \in 1..m \/ k = m + 1
    OBVIOUS
  <2> QED BY <1>4, <1>6, <1>7, <2>1, <2>2 DEF Reported, Complete, StdoutOf, StderrOf
<1>9. SummaryOK'
  <2>1. Len(printed') = b + (m + 1)
    BY <1>4, Here
  <2> QED BY <1>5, <1>8, <2>1 DEF SummaryOK, Reported, n
<1> QED BY <1>1, <1>4, <1>5, <1>9, PrintingInv DEF Printing
----------------------------------------------------------------------------
(***************************************************************************)
(* RunScripts, and the signals.                                            *)
(***************************************************************************)

\* The last section of a script is the one of the summary that ran to its end.
LEMMA LastOfSummary ==
    ASSUME Inv, at = "exited", NEW s \in Script
    PROVE  \E k \in DOMAIN printed :
               /\ LastSection(s) = {k} /\ printed[k] \in SectionType /\ Complete(printed[k], s)
<1>1. PICK b \in Nat : Len(printed) = b + n /\ Reported(b, n)
    BY DEF Inv, SummaryOK
<1>2. printed \in Seq(SectionType) /\ DOMAIN printed = 1..Len(printed)
    BY LenProperties DEF Inv
<1>3. PICK j \in 1..n : s = scripts[j]
    BY ScriptsList
<1>4. n \in Nat /\ b + j \in 1..Len(printed)
    BY <1>1, ScriptsList
<1>5. printed[b + j] \in SectionType /\ Complete(printed[b + j], s)
    BY <1>1, <1>2, <1>3, <1>4, ElementOfSeq DEF Reported
<1>6. b + j \in SectionsOf(s)
    BY <1>2, <1>4, <1>5 DEF SectionsOf, Complete, Parsed
<1>7. ASSUME NEW l \in SectionsOf(s) PROVE l <= b + j
  <2>1. l \in 1..Len(printed) /\ printed[l].of = s
    BY <1>2 DEF SectionsOf
  <2> SUFFICES ASSUME ~(l <= b + j) PROVE FALSE
    OBVIOUS
  <2>2. PICK k \in 1..n : l = b + k /\ k # j
    <3>1. l - b \in 1..n /\ l = b + (l - b) /\ l - b # j
        BY <1>1, <1>4, <2>1
    <3> QED BY <3>1
  <2>3. printed[b + k].of = scripts[k] /\ scripts[k] # s
    BY <1>1, <1>3, <2>2, ScriptsList DEF Reported, Complete
  <2> QED BY <2>1, <2>2, <2>3
<1>8. \A k \in SectionsOf(s) : k \in Nat
    BY <1>2 DEF SectionsOf
<1>9. LastSection(s) = {b + j}
    BY <1>4, <1>6, <1>7, <1>8 DEF LastSection
<1> QED BY <1>2, <1>4, <1>5, <1>9

LEMMA RunScriptsInv ==
    ASSUME Inv, RunScripts
    PROVE  Inv'
<1>1. /\ at = "exited" /\ at' = "returned"
      /\ outputs' = [s \in Script |->
                        IF LastSection(s) = {} THEN NoOutput
                        ELSE ScriptOutput(printed[CHOOSE k \in LastSection(s) : TRUE])]
      /\ UNCHANGED <<endless, scriptVars, i, pids, exitcodes, printed, pending, signals>>
    BY DEF RunScripts
<1>2. ASSUME NEW s \in Script
      PROVE  /\ outputs'[s] \in OutputType /\ outputs'[s].code = CodeOf(s)
             /\ Waited(s) => outputs'[s].stdout = out[s] /\ outputs'[s].stderr = err[s]
  <2>1. PICK k \in DOMAIN printed :
            LastSection(s) = {k} /\ printed[k] \in SectionType /\ Complete(printed[k], s)
    BY <1>1, LastOfSummary
  <2>2. (CHOOSE l \in LastSection(s) : TRUE) = k
    BY <2>1
  <2>3. outputs'[s] = ScriptOutput(printed[k])
    BY <1>1, <2>1, <2>2
  <2>4. PICK section \in SectionType : section = printed[k]
    BY <2>1
  <2>5. ScriptOutput(section) \in OutputType
    BY Bounds DEF ScriptOutput, SectionType, OutputType
  <2>6. ScriptOutput(section).code = section.code
    BY DEF ScriptOutput
  <2>7. ~section.open => /\ ScriptOutput(section).stdout = section.stdout
                         /\ ScriptOutput(section).stderr = section.stderr
    BY DEF ScriptOutput
  <2> QED BY <2>1, <2>3, <2>4, <2>5, <2>6, <2>7 DEF Complete, StdoutOf, StderrOf
<1>3. outputs' \in [Script -> OutputType]
    BY <1>1, <1>2
<1>4. TypeOK'
    BY <1>1 DEF Inv, TypeOK, scriptVars
<1>5. LoopsOK' /\ SummaryOK'
    BY <1>1 DEF Inv, LoopsOK, SummaryOK, Summarizing, Waited, scriptVars
<1>6. ASSUME NEW s \in Script PROVE ShellOK(s)' /\ CalmOK(s)' /\ ReturnedOK(s)'
  <2>1. ShellOK(s)' /\ CalmOK(s)'
    BY <1>1 DEF Inv, ShellOK, CalmOK, Done, Summarizing, scriptVars
  <2>2. ReturnedOK(s)'
    BY <1>1, <1>2 DEF ReturnedOK, CodeOf, Waited, scriptVars
  <2> QED BY <2>1, <2>2
<1> QED BY <1>1, <1>3, <1>4, <1>5, <1>6 DEF Inv

LEMMA InterruptInv ==
    ASSUME Inv, NEW terminal \in BOOLEAN, Interrupt(terminal)
    PROVE  Inv'
<1>1. /\ at \notin {"exited", "returned", "failed"} /\ signals' = signals + 1
      /\ signals \in Nat /\ signals' \in 0..MaxSignals /\ signals' # 0
      /\ \/ at = "trap" /\ at' = "failed" /\ pending' = pending
         \/ at # "trap" /\ at' = at /\ pending' = TRUE
      /\ asked' \subseteq Script
      /\ UNCHANGED <<endless, shell, command, pidFile, out, err, cut, status, i, pids, exitcodes,
                     printed, outputs>>
    BY Bounds DEF Interrupt, Inv, TypeOK
<1>2. TypeOK'
    BY <1>1 DEF Inv, TypeOK
<1>3. \A s \in Script : Waited(s)' => Waited(s)
    BY <1>1 DEF Waited
<1>4. LoopsOK'
    BY <1>1, <1>3 DEF Inv, LoopsOK, Summarizing, this
<1>5. SummaryOK'
  <2> SUFFICES ASSUME at # "trap" PROVE SummaryOK'
    BY <1>1 DEF SummaryOK
  <2>1. ASSUME NEW b, NEW m \in 0..n, Reported(b, m)
        PROVE  Reported(b, m)'
    <3>1. \A k \in 1..m : scripts[k] \in Script
        BY ScriptsList
    <3> QED BY <1>1, <1>3, <2>1, <3>1 DEF Reported, Complete, CodeOf, StdoutOf, StderrOf
  <2>2. ASSUME NEW x, NEW s \in Script, Begun(x, s) PROVE Begun(x, s)'
    BY <1>1, <1>3, <2>2 DEF Begun, StdoutOf, StderrOf
  <2>3. i - 1 \in 0..n /\ this \in Script /\ this' = this
    BY <1>1, Here DEF this
  <2>4. at = "name" => \E b \in Nat : Len(printed) = b + (i - 1) /\ Reported(b, i - 1)'
    BY <1>1, <2>1, <2>3 DEF Inv, SummaryOK, Reported
  <2>5. at \in {"stdout", "stderr", "code"} =>
            \E b \in Nat : Len(printed) = b + i /\ Reported(b, i - 1)'
    BY <1>1, <2>1, <2>3 DEF Inv, SummaryOK, Reported
  <2>6. at \in {"stdout", "stderr", "code"} => Begun(printed[Len(printed)], this)'
    <3> SUFFICES ASSUME at \in {"stdout", "stderr", "code"}
                 PROVE  Begun(printed[Len(printed)], this)'
        OBVIOUS
    <3>1. PICK x : x = printed[Len(printed)]
        OBVIOUS
    <3>2. PICK s \in Script : s = this
        BY <2>3
    <3>3. Begun(x, s)'
        BY <2>2, <3>1, <3>2 DEF Inv, SummaryOK
    <3>4. x = printed'[Len(printed')] /\ s = this'
        BY <1>1, <2>3, <3>1, <3>2
    <3> QED BY <3>3, <3>4 DEF Begun, StdoutOf, StderrOf
  <2> QED BY <1>1, <2>4, <2>5, <2>6 DEF SummaryOK
<1>6. ASSUME NEW s \in Script PROVE ShellOK(s)' /\ CalmOK(s)' /\ ReturnedOK(s)'
    BY <1>1 DEF Inv, ShellOK, CalmOK, ReturnedOK, Done
<1> QED BY <1>1, <1>2, <1>4, <1>5, <1>6 DEF Inv

----------------------------------------------------------------------------
(***************************************************************************)
(* The theorems.                                                           *)
(***************************************************************************)

LEMMA NextInv == Inv /\ [Next]_vars => Inv'
<1> SUFFICES ASSUME Inv, [Next]_vars PROVE Inv'
    OBVIOUS
<1>1. CASE MasterStep
    BY <1>1, SetTrapInv, StartScriptInv, NotePidInv, WaitForScriptInv, HandleSigintInv,
       NothingToKillInv, InterruptCommandInv, KillCommandInv, AwaitScriptInv, PrintNameInv,
       PrintStdoutInv, PrintStderrInv, PrintExitCodeInv, RunScriptsInv DEF MasterStep
<1>2. CASE \E s \in Script : ScriptStep(s)
    BY <1>2, ScriptInv
<1>3. CASE \E terminal \in BOOLEAN : Interrupt(terminal)
    BY <1>3, InterruptInv
<1>4. CASE UNCHANGED vars
    BY <1>4 DEF vars, scriptVars, masterVars, Inv, TypeOK, LoopsOK, SummaryOK, Reported, Complete,
        CodeOf, StdoutOf, StderrOf, Begun, Waited, this, ShellOK, CalmOK, ReturnedOK, Done
<1> QED BY <1>1, <1>2, <1>3, <1>4 DEF Next

LEMMA Invariant == Spec => []Inv
BY InitInv, NextInv, PTL DEF Spec

\* Every variable keeps its type; only a script that was started has a process id and only
\* a command that was started has a pid file.
THEOREM TypeCorrect == Spec => []TypeOK
<1>1. Inv => TypeOK
    BY DEF Inv
<1> QED BY <1>1, Invariant, PTL

\* Without a signal the master script waits for every script before it prints, and the
\* parser finds the whole stdout, the stderr and the exit code of each.
THEOREM UndisturbedIsWhole == Spec => []UndisturbedWhole
<1>1. ASSUME Inv PROVE UndisturbedWhole
  <2> SUFFICES ASSUME at = "returned", signals = 0, NEW s \in Script
               PROVE  outputs[s] = [stdout |-> Lines, stderr |-> err[s], code |-> status[s]]
    BY DEF UndisturbedWhole
  <2>1. shell[s] = "ended" /\ exitcodes[s] = status[s] /\ status[s] \in {0, 1} /\ out[s] = Lines
    BY <1>1 DEF Inv, CalmOK, ShellOK, Summarizing
  <2>2. /\ outputs[s] \in OutputType /\ outputs[s].code = status[s]
        /\ outputs[s].stdout = Lines /\ outputs[s].stderr = err[s]
    BY <1>1, <2>1 DEF Inv, ReturnedOK, CodeOf, Waited, Unset
  <2> QED BY <2>2 DEF OutputType
<1> QED BY <1>1, Invariant, PTL

\* However many signals break off summaries or handlers, each script has one output with an
\* exit code, and one whose code is its own, or says interrupted or killed, has ended.
THEOREM EveryScriptIsReported == Spec => []EveryScriptReported
<1>1. ASSUME Inv PROVE EveryScriptReported
  <2> SUFFICES ASSUME at = "returned", NEW s \in Script
               PROVE  outputs[s].code # Unset /\ (outputs[s].code # 1 => ~Writing(s))
    BY DEF EveryScriptReported
  <2>1. outputs[s].code = CodeOf(s) /\ ShellOK(s)
    BY <1>1 DEF Inv, ReturnedOK
  <2>2. CodeOf(s) # Unset /\ (CodeOf(s) # 1 => exitcodes[s] # Unset)
    BY DEF CodeOf, Unset
  <2>3. Done(s) => ~Writing(s)
    BY DEF Done, Writing
  <2> QED BY <2>1, <2>2, <2>3 DEF ShellOK
<1> QED BY <1>1, Invariant, PTL

\* The handler waits for a script without a pid file whose process id was noted: its
\* output is all that the script has written.
THEOREM PlainScriptsAreWaitedFor == Spec => []PlainScriptsWaitedFor
<1>1. ASSUME Inv PROVE PlainScriptsWaitedFor
  <2> SUFFICES ASSUME at = "returned", NEW s \in pids \ NeedsKill
               PROVE  shell[s] = "ended" /\ outputs[s].stdout = out[s]
    BY DEF PlainScriptsWaitedFor
  <2>1. s \in Script /\ Waited(s)
    BY <1>1 DEF Inv, TypeOK, Waited
  <2> QED BY <1>1, <2>1 DEF Inv, LoopsOK, ReturnedOK, Summarizing
<1> QED BY <1>1, Invariant, PTL

==============================================================================
