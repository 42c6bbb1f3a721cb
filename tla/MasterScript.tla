---------------------------- MODULE MasterScript ----------------------------
(***************************************************************************)
(* The master script that RunScripts forms for the parallel scripts of a   *)
(* target, the scripts that it runs in the background, and the parsing of  *)
(* what it prints.                                                         *)
(*                                                                         *)
(*   at, i      the shell of the master script: where it is, which script  *)
(*   shell[s]   the shell of the script s                                  *)
(*   command[s] the command that a script with NeedsKill starts in the     *)
(*              background and whose process id it writes to its pid file  *)
(*                                                                         *)
(* SIGINT reaches the master script alone (SignalChildren) or everything   *)
(* in the foreground of the terminal (Ctrl-C).  A shell starts background  *)
(* jobs with SIGINT ignored, so that only programs with a handler of their *)
(* own end on it.  The master's trap runs between two of its commands, or  *)
(* interrupts the builtin wait; it may interrupt itself, and never returns *)
(* to what it has interrupted.                                             *)
(***************************************************************************)
EXTENDS Naturals, Sequences, FiniteSets

CONSTANTS
    scripts,    (* the parallel scripts, a sequence                         *)
    NeedsKill,  (* those with a pid file                                    *)
    Lines,      (* bound: the lines of stdout of a script                   *)
    MaxSignals  (* bound: the SIGINTs                                       *)

Script == {scripts[k] : k \in DOMAIN scripts}

ASSUME MasterAssumption ==
    /\ scripts \in Seq(STRING)
    /\ \A k, l \in DOMAIN scripts : scripts[k] = scripts[l] => k = l
    /\ Len(scripts) >= 2 /\ NeedsKill \subseteq Script
    /\ Lines \in Nat \ {0} /\ MaxSignals \in Nat

VARIABLES
    endless,    (* --duration 0: the commands run until they are told to end *)
    shell, command, pidFile,
    asked,      (* the programs that SIGINT has reached                     *)
    out, err,   (* the files of each script: lines, and lines of stderr     *)
    cut,        (* the file of stdout ends within a line                    *)
    status,     (* the exit code of a shell that has ended                  *)
    at, i,
    pids,       (* the scripts whose process ids the master has noted       *)
    exitcodes,
    printed,    (* the sections that the master has printed                 *)
    pending,    (* a SIGINT whose trap has not run yet                      *)
    signals,
    outputs     (* scriptOutputs                                            *)

scriptVars == <<shell, command, pidFile, asked, out, err, cut, status>>
masterVars == <<at, i, pids, exitcodes, printed>>
vars == <<endless, scriptVars, masterVars, pending, signals, outputs>>

Unset == 1000       (* no exit code, or one that the parser has not found   *)
NoOutput == [stdout |-> 0, stderr |-> 0, code |-> Unset]

Init ==
    /\ endless \in BOOLEAN
    /\ shell = [s \in Script |-> "none"]
    /\ command = [s \in Script |-> "none"]
    /\ pidFile = [s \in Script |-> "none"]
    /\ asked = {}
    /\ out = [s \in Script |-> 0] /\ err = [s \in Script |-> 0]
    /\ cut = [s \in Script |-> FALSE]
    /\ status = [s \in Script |-> Unset]
    /\ at = "trap" /\ i = 1 /\ pids = {}
    /\ exitcodes = [s \in Script |-> Unset]
    /\ printed = <<>>
    /\ pending = FALSE /\ signals = 0
    /\ outputs = [s \in Script |-> NoOutput]

-----------------------------------------------------------------------------
(***************************************************************************)
(* The scripts.                                                            *)
(***************************************************************************)
Plain(s) == s \notin NeedsKill
Writing(s) == IF Plain(s) THEN shell[s] = "runs" ELSE command[s] = "running"

\* A block of the buffer of stdout, which need not end with a line.
WriteBlock(s) ==
    /\ Writing(s) /\ out[s] < Lines
    /\ out' = [out EXCEPT ![s] = @ + 1]
    /\ \E within \in BOOLEAN : cut' = [cut EXCEPT ![s] = within]
    /\ UNCHANGED <<endless, shell, command, pidFile, asked, err, status, masterVars, pending,
                   signals, outputs>>

\* Everything is written when a program ends by itself, and what there is when it ends
\* because of a SIGINT that it handles.
Flushed(s) ==
    /\ \/ out' = [out EXCEPT ![s] = Lines]
       \/ s \in asked /\ UNCHANGED out
    /\ cut' = [cut EXCEPT ![s] = FALSE]

\* A script without a pid file runs its programs in the foreground; it may fail.
PlainScriptEnds(s) ==
    /\ Plain(s) /\ shell[s] = "runs"
    /\ Flushed(s)
    /\ \E code \in {0, 1} :
        /\ status' = [status EXCEPT ![s] = code]
        /\ err' = [err EXCEPT ![s] = @ + code]
    /\ shell' = [shell EXCEPT ![s] = "ended"]
    /\ UNCHANGED <<endless, command, pidFile, asked, masterVars, pending, signals, outputs>>

\* mpstat ... &
StartCommand(s) ==
    /\ ~Plain(s) /\ shell[s] = "runs" /\ command[s] = "none"
    /\ command' = [command EXCEPT ![s] = "running"]
    /\ UNCHANGED <<endless, shell, pidFile, asked, out, err, cut, status, masterVars, pending,
                   signals, outputs>>

\* echo $! > mpstat_cmd.pid: the file is made, then written; then the shell waits.
WritePidFile(s) ==
    /\ command[s] # "none"
    /\ \/ pidFile[s] = "none" /\ pidFile' = [pidFile EXCEPT ![s] = "empty"]
       \/ pidFile[s] = "empty" /\ pidFile' = [pidFile EXCEPT ![s] = "written"]
    /\ UNCHANGED <<endless, shell, command, asked, out, err, cut, status, masterVars, pending,
                   signals, outputs>>

CommandEnds(s) ==
    /\ command[s] = "running"
    /\ endless => s \in asked
    /\ Flushed(s)
    /\ command' = [command EXCEPT ![s] = "ended"]
    /\ UNCHANGED <<endless, shell, pidFile, asked, err, status, masterVars, pending, signals,
                   outputs>>

\* wait without arguments returns 0; the shell reports a command that was killed.
WaitingScriptEnds(s) ==
    /\ shell[s] = "runs" /\ pidFile[s] = "written" /\ command[s] \in {"ended", "killed"}
    /\ shell' = [shell EXCEPT ![s] = "ended"]
    /\ status' = [status EXCEPT ![s] = 0]
    /\ err' = [err EXCEPT ![s] = IF command[s] = "killed" THEN @ + 1 ELSE @]
    /\ UNCHANGED <<endless, command, pidFile, asked, out, cut, masterVars, pending, signals,
                   outputs>>

ScriptStep(s) ==
    \/ WriteBlock(s) \/ PlainScriptEnds(s) \/ StartCommand(s) \/ WritePidFile(s)
    \/ CommandEnds(s) \/ WaitingScriptEnds(s)

-----------------------------------------------------------------------------
(***************************************************************************)
(* The master script.                                                      *)
(***************************************************************************)
this == scripts[i]

\* A command of the master script starts: no trap is waiting to run.
At(place) == at = place /\ ~pending

\* The end of the body of a loop over the scripts; after the last one the master goes on at
\* the given place.
NextScript(loop, after) ==
    IF i < Len(scripts) THEN i' = i + 1 /\ at' = loop
                        ELSE i' = 1 /\ at' = after

\* trap handle_sigint SIGINT
SetTrap ==
    /\ At("trap") /\ at' = "start"
    /\ UNCHANGED <<endless, scriptVars, i, pids, exitcodes, printed, pending, signals, outputs>>

\* start_scripts: the script is started, and then its process id is noted.
StartScript ==
    /\ At("start") /\ shell[this] = "none"
    /\ shell' = [shell EXCEPT ![this] = "runs"]
    /\ UNCHANGED <<endless, command, pidFile, asked, out, err, cut, status, masterVars, pending,
                   signals, outputs>>

\* Mutant of NotePid: a process id is noted before the script is started.
NotePidBefore ==
    /\ At("start")
    /\ pids' = pids \cup {this}
    /\ NextScript("start", "wait")
    /\ UNCHANGED <<endless, scriptVars, exitcodes, printed, pending, signals, outputs>>

NotePid ==
    /\ At("start") /\ shell[this] # "none"
    /\ pids' = pids \cup {this}
    /\ NextScript("start", "wait")
    /\ UNCHANGED <<endless, scriptVars, exitcodes, printed, pending, signals, outputs>>

\* Mutant of WaitForScript: waits for the last script only.
WaitForLast ==
    /\ At("wait") /\ (i = Len(scripts) => shell[this] = "ended")
    /\ exitcodes' = [exitcodes EXCEPT ![this] = status[this]]
    /\ NextScript("wait", "name")
    /\ UNCHANGED <<endless, scriptVars, pids, printed, pending, signals, outputs>>

\* wait_for_scripts
WaitForScript ==
    /\ At("wait") /\ shell[this] = "ended"
    /\ exitcodes' = [exitcodes EXCEPT ![this] = status[this]]
    /\ NextScript("wait", "name")
    /\ UNCHANGED <<endless, scriptVars, pids, printed, pending, signals, outputs>>

\* handle_sigint begins, at once when the master waits, else after its present command.
HandleSigint ==
    /\ pending /\ pending' = FALSE
    /\ at' = "kill" /\ i' = 1
    /\ UNCHANGED <<endless, scriptVars, pids, exitcodes, printed, signals, outputs>>

\* Mutant of HasPidFile: looks for the file under another name.
HasPidFileElsewhere == FALSE

\* kill_script as far as the sleep or the wait.
HasPidFile == this \in NeedsKill /\ pidFile[this] # "none"

\* The file names a process that runs.
IsRunning  == pidFile[this] = "written" /\ command[this] = "running"

NothingToKill ==
    /\ At("kill")
    /\ \/ this \notin pids \/ shell[this] = "ended"
       \/ HasPidFile /\ ~IsRunning
    /\ NextScript("kill", "name")
    /\ UNCHANGED <<endless, scriptVars, pids, exitcodes, printed, pending, signals, outputs>>

InterruptCommand ==
    /\ At("kill") /\ this \in pids /\ shell[this] # "ended" /\ HasPidFile /\ IsRunning
    /\ asked' = asked \cup {this}
    /\ at' = "sleep"
    /\ UNCHANGED <<endless, shell, command, pidFile, out, err, cut, status, i, pids, exitcodes,
                   printed, pending, signals, outputs>>

\* The shell of the script was started with SIGINT ignored.
InterruptScript ==
    /\ At("kill") /\ this \in pids /\ shell[this] # "ended" /\ ~HasPidFile
    /\ at' = "await"
    /\ UNCHANGED <<endless, scriptVars, i, pids, exitcodes, printed, pending, signals, outputs>>

\* Mutant of KillCommand: does not look whether the command has ended.
TrustCommand ==
    /\ At("sleep")
    /\ exitcodes' = [exitcodes EXCEPT ![this] = 0]
    /\ NextScript("kill", "name")
    /\ UNCHANGED <<endless, scriptVars, pids, printed, pending, signals, outputs>>

\* After half a second.
KillCommand ==
    /\ At("sleep")
    /\ LET alive == command[this] = "running"
       IN  /\ command' = [command EXCEPT ![this] = IF alive THEN "killed" ELSE @]
           /\ exitcodes' = [exitcodes EXCEPT ![this] = IF alive THEN 137 ELSE 0]
    /\ NextScript("kill", "name")
    /\ UNCHANGED <<endless, shell, pidFile, asked, out, err, cut, status, pids, printed, pending,
                   signals, outputs>>

\* Mutant of AwaitScript: goes on without the wait.
LeaveScript ==
    /\ At("await")
    /\ exitcodes' = [exitcodes EXCEPT ![this] = IF @ = Unset THEN 130 ELSE @]
    /\ NextScript("kill", "name")
    /\ UNCHANGED <<endless, scriptVars, pids, printed, pending, signals, outputs>>

AwaitScript ==
    /\ At("await") /\ shell[this] = "ended"
    /\ exitcodes' = [exitcodes EXCEPT ![this] = IF @ = Unset THEN 130 ELSE @]
    /\ NextScript("kill", "name")
    /\ UNCHANGED <<endless, scriptVars, pids, printed, pending, signals, outputs>>

\* print_summary: the four parts of a section.  The file of a script that was not started
\* is not there, which is an empty part.
Section(parts) ==
    LET last == Len(printed)
    IN  printed' = CASE parts = 1 -> Append(printed, [of |-> this, parts |-> 1, stdout |-> 0,
                                        open |-> FALSE, stderr |-> 0, code |-> Unset])
                     [] parts = 2 -> [printed EXCEPT ![last].parts = 2, ![last].stdout = out[this],
                                                     ![last].open = cut[this]]
                     [] parts = 3 -> [printed EXCEPT ![last].parts = 3, ![last].stderr = err[this]]
                     [] parts = 4 -> [printed EXCEPT ![last].parts = 4, ![last].code =
                                        IF exitcodes[this] = Unset THEN 1 ELSE exitcodes[this]]

PrintPart(here, parts, next) ==
    /\ At(here) /\ Section(parts)
    /\ at' = next
    /\ UNCHANGED <<endless, scriptVars, i, pids, exitcodes, pending, signals, outputs>>

PrintName   == PrintPart("name", 1, "stdout")
PrintStdout == PrintPart("stdout", 2, "stderr")
PrintStderr == PrintPart("stderr", 3, "code")

\* The last command: the end of the script, or exit 0 of the handler.
PrintExitCode ==
    /\ At("code") /\ Section(4)
    /\ NextScript("name", "exited")
    /\ UNCHANGED <<endless, scriptVars, pids, exitcodes, pending, signals, outputs>>

-----------------------------------------------------------------------------
(***************************************************************************)
(* RunScripts after the master script has ended.                           *)
(***************************************************************************)
\* parseMasterScriptOutput skips a section with less than four lines.
Parsed(section) == section.parts >= 3 \/ (section.parts = 2 /\ section.stdout > 0)

\* The line STDERR: is not found behind the text of a line without an end: what follows
\* belongs to stdout.
ScriptOutput(section) ==
    IF section.open /\ section.parts >= 3
    THEN [stdout |-> section.stdout + section.stderr, stderr |-> 0, code |-> section.code]
    ELSE [stdout |-> section.stdout, stderr |-> section.stderr, code |-> section.code]

\* scriptOutputs[scriptOutput.Name] = scriptOutput: the last section of a script counts.
SectionsOf(s) == {k \in DOMAIN printed : printed[k].of = s /\ Parsed(printed[k])}

\* Mutant of LastSection: the first section of a script counts.
FirstSection(s) ==
    {k \in SectionsOf(s) : \A l \in SectionsOf(s) : k <= l}

LastSection(s) ==
    {k \in SectionsOf(s) : \A l \in SectionsOf(s) : l <= k}

RunScripts ==
    /\ at = "exited" /\ at' = "returned"
    /\ outputs' = [s \in Script |->
                    IF LastSection(s) = {} THEN NoOutput
                    ELSE ScriptOutput(printed[CHOOSE k \in LastSection(s) : TRUE])]
    /\ UNCHANGED <<endless, scriptVars, i, pids, exitcodes, printed, pending, signals>>

-----------------------------------------------------------------------------
\* SIGINT ends a master script that has not set its trap: RunCommand returns an error.
Interrupt(terminal) ==
    /\ at \notin {"exited", "returned", "failed"} /\ signals < MaxSignals
    /\ signals' = signals + 1
    /\ IF at = "trap" THEN at' = "failed" /\ UNCHANGED pending
                      ELSE pending' = TRUE /\ UNCHANGED at
    /\ asked' = IF terminal THEN asked \cup {s \in Script : Writing(s)} ELSE asked
    /\ UNCHANGED <<endless, shell, command, pidFile, out, err, cut, status, i, pids, exitcodes,
                   printed, outputs>>

MasterStep ==
    \/ SetTrap \/ StartScript \/ NotePid \/ WaitForScript \/ HandleSigint
    \/ NothingToKill \/ InterruptCommand \/ InterruptScript \/ KillCommand \/ AwaitScript
    \/ PrintName \/ PrintStdout \/ PrintStderr \/ PrintExitCode \/ RunScripts

Next ==
    \/ MasterStep
    \/ \E s \in Script : ScriptStep(s)
    \/ \E terminal \in BOOLEAN : Interrupt(terminal)

Spec == Init /\ [][Next]_vars

\* The system runs every process; a program that does not end by itself need not heed
\* SIGINT.
Unasked(s) ==
    \/ WriteBlock(s) \/ PlainScriptEnds(s) \/ StartCommand(s) \/ WritePidFile(s)
    \/ WaitingScriptEnds(s) \/ (~endless /\ CommandEnds(s))

FairSpec ==
    /\ Spec /\ WF_vars(MasterStep)
    /\ \A s \in Script : WF_vars(Unasked(s))

-----------------------------------------------------------------------------
(***************************************************************************)
(* Properties.                                                             *)
(***************************************************************************)
ExitCode == {0, 1, 130, 137, Unset}

\* Every variable has its type; only scripts that were started have a process id, a
\* command has a pid file only after it was started, and a section is printed in order.
TypeOK ==
    /\ endless \in BOOLEAN
    /\ shell \in [Script -> {"none", "runs", "ended"}]
    /\ command \in [Script -> {"none", "running", "ended", "killed"}]
    /\ pidFile \in [Script -> {"none", "empty", "written"}]
    /\ asked \subseteq Script
    /\ out \in [Script -> 0..Lines] /\ err \in [Script -> 0..1] /\ cut \in [Script -> BOOLEAN]
    /\ status \in [Script -> {0, 1, Unset}]
    /\ at \in {"trap", "start", "wait", "kill", "sleep", "await", "name", "stdout", "stderr",
               "code", "exited", "returned", "failed"}
    /\ i \in DOMAIN scripts
    /\ pids \subseteq {s \in Script : shell[s] # "none"}
    /\ exitcodes \in [Script -> ExitCode]
    /\ \A k \in DOMAIN printed : printed[k].of \in Script /\ printed[k].parts \in 1..4
    /\ pending \in BOOLEAN /\ signals \in 0..MaxSignals
    /\ \A s \in Script : pidFile[s] # "none" => command[s] # "none" /\ s \in NeedsKill

\* "runs all parallel scripts in the background, waits for them to finish, then prints
\* the output of each script": without a signal every script has its whole stdout, its
\* stderr apart from it, and its own exit code.
UndisturbedWhole ==
    at = "returned" /\ signals = 0 =>
        \A s \in Script : outputs[s] = [stdout |-> Lines, stderr |-> err[s], code |-> status[s]]

\* A signal at any moment, while a summary is printed or while another one is handled,
\* leaves each script with one output that has an exit code: a summary that was broken
\* off is replaced by the one of the handler. A script that is reported with a code of its
\* own, or as interrupted or killed, has no program running any more: nothing goes on
\* measuring on the target unseen.
EveryScriptReported ==
    at = "returned" => \A s \in Script :
        outputs[s].code # Unset /\ (outputs[s].code # 1 => ~Writing(s))

\* The handler waits for the scripts without a pid file: their output is all that they
\* have written, unless the signal came before their process id was noted.
PlainScriptsWaitedFor ==
    at = "returned" => \A s \in pids \ NeedsKill :
        shell[s] = "ended" /\ outputs[s].stdout = out[s]

\* Ctrl-C ends the collection when all the commands have written their pid files, with
\* programs that do not heed SIGINT, too.
StopsWithPidFiles ==
    (pending /\ \A s \in NeedsKill : pidFile[s] = "written") ~> (at = "returned")

\* What the parser takes for the stdout of a script is what the script has written there.
OwnStdout == at = "returned" => \A s \in Script : outputs[s].stdout <= out[s]

\* "If 0, the collection will run indefinitely. Ctrl+c to stop."
StopsOnSigint == pending ~> (at = "returned")

=============================================================================
