------------------------------ MODULE UpdateApp ------------------------------
(***************************************************************************)
(* The application from its start to its end, and the update command,      *)
(* which replaces the program in its own directory: initializeApplication, *)
(* the check for updates with its signal handler, updateApp with the       *)
(* renames around the extraction of the archive, terminateApplication.     *)
(*                                                                         *)
(*   program[n]   the files of the application in the directory            *)
(*   targets, sav targets.yaml and targets.yaml.sav                        *)
(*   at           where the main goroutine of the process is               *)
(*   handler      the goroutine that waits for a signal during the check   *)
(*                                                                         *)
(* Every operation on a file may fail, and the process may be killed       *)
(* between any two of them.  The user starts any whole program of the      *)
(* directory, under the name that it has, again and again.  A name is the  *)
(* sequence of the versions that updateApp has appended to it: << >> is    *)
(* perfspect, <<1>> is perfspect_1.                                        *)
(***************************************************************************)
EXTENDS Integers, Sequences

CONSTANTS
    MaxVersion,     (* bound: the releases                                  *)
    MaxSuffixes,    (* bound: how often a name is extended                  *)
    MaxEdits        (* bound: how often the user writes targets.yaml        *)

ASSUME UpdateAssumption ==
    MaxVersion \in Nat \ {0} /\ MaxSuffixes \in Nat /\ MaxEdits \in Nat

Version == 1..MaxVersion
Name    == UNION {[1..k -> Version] : k \in 0..MaxSuffixes}
AppName == << >>

\* The contents of files: a program is a version, a targets file is the number of its edit.
None    == 0
Partial == -1
Shipped == -2       (* the targets.yaml of the archive                      *)
Edit    == 1..MaxEdits

VARIABLES
    program, targets, sav,
    latest,         (* the version of the release on the server             *)
    edits,          (* the edits of targets.yaml so far                     *)
    at, handler,
    command,        (* update or another command                            *)
    debug,          (* --debug                                              *)
    running,        (* the name under which the process was started         *)
    gVersion,       (* its version                                          *)
    tempDir,        (* the local temporary directory of the process         *)
    archive,        (* the version of the downloaded archive                *)
    extracting,     (* its files that are yet to be written                 *)
    failure,        (* the command returns an error                         *)
    result,         (* how the last process has ended                       *)
    attempt         (* history: the targets file when updateApp began, how
                       far it came, and whether a rename back has failed    *)

files     == <<program, targets, sav>>
world     == <<latest, edits>>
unpacking == <<archive, extracting>>
process   == <<handler, command, debug, running, gVersion, tempDir>>
vars      == <<files, world, process, at, unpacking, failure, result, attempt>>

NoAttempt == [targets |-> None, reached |-> "start", clean |-> TRUE]

Init ==
    /\ program = [n \in Name |-> IF n = AppName THEN 1 ELSE None]
    /\ targets \in {None, Shipped} /\ sav = None
    /\ latest = 1 /\ edits = 0
    /\ at = "idle" /\ handler = "none" /\ command = "other" /\ debug = FALSE
    /\ running = AppName /\ gVersion = 1
    /\ tempDir = "none" /\ archive = 1 /\ extracting = {} /\ failure = FALSE /\ result = "none"
    /\ attempt = NoAttempt

-----------------------------------------------------------------------------
(***************************************************************************)
(* The world: a release, an edit of the user, the start of a program.      *)
(***************************************************************************)
Release ==
    /\ latest < MaxVersion /\ latest' = latest + 1
    /\ UNCHANGED <<files, edits, process, at, unpacking, failure, result, attempt>>

EditTargets ==
    /\ at = "idle" /\ edits < MaxEdits
    /\ edits' = edits + 1 /\ targets' = edits'
    /\ UNCHANGED <<program, sav, latest, process, at, unpacking, failure, result, attempt>>

Start ==
    /\ at = "idle" /\ at' = "init"
    /\ \E n \in Name :
        /\ program[n] \in Version
        /\ running' = n /\ gVersion' = program[n]
    /\ command' \in {"update", "other"} /\ debug' \in BOOLEAN
    /\ handler' = "none" /\ tempDir' = "none" /\ failure' = FALSE /\ result' = "none"
    /\ attempt' = NoAttempt
    /\ UNCHANGED <<files, world, unpacking>>

-----------------------------------------------------------------------------
(***************************************************************************)
(* initializeApplication and terminateApplication.                         *)
(***************************************************************************)
Goes(place) == at' = place /\ UNCHANGED failure
Fails       == at' = "terminate" /\ failure' = TRUE

\* Unless updates are not to be looked for, a goroutine waits for a signal meanwhile; not
\* so for the update command.  Before, the process ends when something is missing.
Initialize ==
    /\ at = "init"
    /\ \/ /\ tempDir' = "made"
          /\ \/ command = "update" /\ Goes("update") /\ UNCHANGED handler
             \/ command = "other" /\ Goes("check") /\ handler' = "waits"
             \/ command = "other" /\ Goes("work") /\ UNCHANGED handler
          /\ UNCHANGED result
       \/ at' = "idle" /\ result' = "error" /\ UNCHANGED <<tempDir, handler, failure>>
    /\ UNCHANGED <<files, world, command, debug, running, gVersion, unpacking, attempt>>

\* signal.Stop: a signal that came before it is still in the channel.
CheckEnds ==
    /\ at = "check" /\ Goes("work")
    /\ handler' = IF handler = "waits" THEN "none" ELSE handler
    /\ UNCHANGED <<files, world, command, debug, running, gVersion, tempDir, unpacking, result,
                   attempt>>

\* A command makes directories for its targets inside the temporary directory, and with
\* them the temporary directory when it is gone (os.MkdirAll).
Work ==
    /\ at = "work"
    /\ \/ (Goes("terminate") \/ Fails) /\ UNCHANGED tempDir
       \/ tempDir' = "made" /\ UNCHANGED <<at, failure>>
    /\ UNCHANGED <<files, world, handler, command, debug, running, gVersion, unpacking, result,
                   attempt>>

\* os.RemoveAll, unless --debug is given.
Removal ==
    IF debug \/ tempDir = "none" THEN UNCHANGED tempDir ELSE tempDir' \in {"none", "kept"}

Signal ==
    /\ at = "check" /\ handler = "waits" /\ handler' = "received"
    /\ UNCHANGED <<files, world, at, command, debug, running, gVersion, tempDir, unpacking,
                   failure, result, attempt>>

\* The goroutine terminates the application while the main goroutine goes on.
HandlerTerminates ==
    /\ at # "idle" /\ handler = "received" /\ handler' = "exits"
    /\ Removal
    /\ UNCHANGED <<files, world, at, command, debug, running, gVersion, unpacking, failure,
                   result, attempt>>

HandlerExits ==
    /\ at # "idle" /\ handler = "exits"
    /\ at' = "idle" /\ handler' = "none" /\ result' = "interrupted"
    /\ UNCHANGED <<files, world, command, debug, running, gVersion, tempDir, unpacking, failure,
                   attempt>>

\* Mutant of Terminate: terminateApplication is left out after an error.
TerminateUnlessError ==
    /\ at = "terminate" /\ at' = "idle"
    /\ IF failure THEN UNCHANGED tempDir ELSE Removal
    /\ result' = IF failure THEN "error" ELSE "ok"
    /\ UNCHANGED <<files, world, handler, command, debug, running, gVersion, unpacking, failure,
                   attempt>>

\* As PersistentPostRunE, and in Execute after an error.  A log file that the handler has
\* closed already is an error.
Terminate ==
    /\ at = "terminate" /\ at' = "idle"
    /\ Removal
    /\ \/ result' = "error" /\ (failure \/ handler = "exits")
       \/ result' = "ok" /\ ~failure
    /\ UNCHANGED <<files, world, handler, command, debug, running, gVersion, unpacking, failure,
                   attempt>>

Kill ==
    /\ at # "idle" /\ at' = "idle" /\ result' = "killed"
    /\ UNCHANGED <<files, world, process, unpacking, failure, attempt>>

-----------------------------------------------------------------------------
(***************************************************************************)
(* The update command.                                                     *)
(***************************************************************************)
\* The network, the manifest, the version; without a newer release there is nothing to do.
CheckForUpdates ==
    /\ at = "update"
    /\ \/ Fails
       \/ latest <= gVersion /\ Goes("terminate")
       \/ latest > gVersion /\ Goes("download")
    /\ UNCHANGED <<files, world, process, unpacking, result, attempt>>

\* The archive is written into the temporary directory.
Download ==
    /\ at = "download"
    /\ \/ Fails /\ UNCHANGED attempt
       \/ Goes("rename") /\ attempt' = [attempt EXCEPT !.targets = targets]
    /\ archive' = latest
    /\ UNCHANGED <<files, world, process, extracting, result>>

\* Mutant of oldApp: the name has the version of the release.
newApp == Append(running, archive)

oldApp == Append(running, gVersion)

\* os.Rename
MoveProgram(from, to) == program' = [program EXCEPT ![to] = program[from], ![from] = None]

\* Mutant of RenameApp: the new program is written over the running one.
LeaveApp ==
    /\ at = "rename" /\ Goes("save")
    /\ UNCHANGED <<files, world, process, unpacking, result, attempt>>

\* The running program becomes perfspect_<version>.  (The bound on the names is here.)
RenameApp ==
    /\ at = "rename"
    /\ \/ Fails /\ UNCHANGED program
       \/ Len(running) < MaxSuffixes /\ MoveProgram(running, oldApp) /\ Goes("save")
    /\ UNCHANGED <<targets, sav, world, process, unpacking, result, attempt>>

\* targets.yaml becomes targets.yaml.sav; when that fails the program is not renamed back.
SaveTargets ==
    /\ at = "save"
    /\ \/ /\ targets # None /\ Fails
          /\ UNCHANGED <<targets, sav, extracting>>
       \/ /\ IF targets # None THEN sav' = targets /\ targets' = None
                               ELSE UNCHANGED <<targets, sav>>
          /\ extracting' = {"program", "targets"} /\ Goes("extract")
    /\ UNCHANGED <<program, world, process, result, attempt, archive>>

\* ExtractTGZ: the files of the archive in any order; each is cut to nothing and then written.
ExtractFile ==
    /\ at = "extract"
    /\ \/ /\ "program" \in extracting
          /\ IF program[AppName] # Partial
             THEN program' = [program EXCEPT ![AppName] = Partial] /\ UNCHANGED extracting
             ELSE /\ program' = [program EXCEPT ![AppName] = archive]
                  /\ extracting' = extracting \ {"program"}
          /\ UNCHANGED targets
       \/ /\ "targets" \in extracting
          /\ IF targets # Partial THEN targets' = Partial /\ UNCHANGED extracting
             ELSE targets' = Shipped /\ extracting' = extracting \ {"targets"}
          /\ UNCHANGED program
    /\ UNCHANGED <<sav, world, process, at, failure, result, attempt, archive>>

ExtractFails ==
    /\ at = "extract" /\ Goes("restore")
    /\ attempt' = [attempt EXCEPT !.reached = "failed"]
    /\ UNCHANGED <<files, world, process, unpacking, result>>

\* Mutant of RestoreApp: the error of the extraction is returned at once.
RestoreNothing ==
    /\ at = "restore" /\ Fails
    /\ UNCHANGED <<files, world, process, unpacking, result, attempt>>

RestoreApp ==
    /\ at = "restore" /\ Goes("restore targets")
    /\ \/ MoveProgram(oldApp, running) /\ UNCHANGED attempt
       \/ attempt' = [attempt EXCEPT !.clean = FALSE] /\ UNCHANGED program
    /\ UNCHANGED <<targets, sav, world, process, unpacking, result>>

MoveTargetsBack == targets' = sav /\ sav' = None

RestoreTargets ==
    /\ at = "restore targets" /\ Fails
    /\ \/ sav # None /\ MoveTargetsBack /\ UNCHANGED attempt
       \/ sav # None /\ attempt' = [attempt EXCEPT !.clean = FALSE] /\ UNCHANGED <<targets, sav>>
       \/ sav = None /\ UNCHANGED <<targets, sav, attempt>>
    /\ UNCHANGED <<program, world, process, unpacking, result>>

RemoveTarball ==
    /\ at = "extract" /\ extracting = {}
    /\ Goes("replace targets") \/ Fails
    /\ UNCHANGED <<files, world, process, unpacking, result, attempt>>

\* Mutant of ReplaceTargets: the saved targets are left where they are.
KeepNewTargets ==
    /\ at = "replace targets" /\ Goes("terminate")
    /\ attempt' = [attempt EXCEPT !.reached = "completed"]
    /\ UNCHANGED <<files, world, process, unpacking, result>>

\* "replace the new targets.yaml with the saved one"
ReplaceTargets ==
    /\ at = "replace targets"
    /\ \/ sav # None /\ Fails /\ UNCHANGED <<targets, sav, attempt>>
       \/ /\ Goes("terminate") /\ attempt' = [attempt EXCEPT !.reached = "completed"]
          /\ IF sav # None THEN MoveTargetsBack ELSE UNCHANGED <<targets, sav>>
    /\ UNCHANGED <<program, world, process, unpacking, result>>

updateApp ==
    \/ CheckForUpdates \/ Download \/ RenameApp \/ SaveTargets \/ ExtractFile \/ ExtractFails
    \/ RestoreApp \/ RestoreTargets \/ RemoveTarball \/ ReplaceTargets

Next ==
    \/ Release \/ EditTargets \/ Start
    \/ Initialize \/ CheckEnds \/ Work \/ Terminate
    \/ Signal \/ HandlerTerminates \/ HandlerExits \/ Kill
    \/ updateApp

Spec == Init /\ [][Next]_vars

-----------------------------------------------------------------------------
(***************************************************************************)
(* Properties.                                                             *)
(***************************************************************************)
\* Every variable has its type; a saved program holds the version of its name.
TypeOK ==
    /\ program \in [Name -> Version \cup {None, Partial}]
    /\ \A n \in Name \ {AppName} : program[n] \in {None, n[Len(n)]}
    /\ {targets, sav} \subseteq Edit \cup {None, Partial, Shipped}
    /\ latest \in Version /\ edits \in 0..MaxEdits
    /\ at \in {"idle", "init", "check", "work", "terminate", "update", "download", "rename",
               "save", "extract", "restore", "restore targets", "replace targets"}
    /\ handler \in {"none", "waits", "received", "exits"}
    /\ command \in {"update", "other"} /\ debug \in BOOLEAN
    /\ running \in Name /\ gVersion \in Version
    /\ tempDir \in {"none", "made", "kept"}
    /\ archive \in Version /\ extracting \subseteq {"program", "targets"}
    /\ failure \in BOOLEAN /\ result \in {"none", "ok", "error", "interrupted", "killed"}
    /\ attempt \in [targets : Edit \cup {None, Partial, Shipped},
                   reached : {"start", "failed", "completed"}, clean : BOOLEAN]

\* Whatever fails and whenever the process is killed, a whole program is in the directory,
\* and until updateApp has completed one of the version that was started.
ProgramSurvives ==
    /\ \E n \in Name : program[n] \in Version
    /\ at # "idle" => \E n \in Name : program[n] = gVersion

\* "Attempting to restore old executable": after an extraction that failed, when the renames
\* back did not fail too, the program has its name and the user's targets file is in place.
FailureRestores ==
    attempt.reached = "failed" /\ attempt.clean /\ result = "error" /\ at = "idle" =>
        /\ program[running] = gVersion
        /\ attempt.targets \in Edit => targets \in {attempt.targets, edits}

\* "Update completed.": the program is the latest release and the user's targets file is in
\* place.
SuccessMeansUpdated ==
    attempt.reached = "completed" /\ at = "terminate" =>
        /\ program[AppName] > gVersion
        /\ attempt.targets \in Edit => targets = attempt.targets

\* terminateApplication on the ways out that it can answer for: whether the command ends by
\* itself, with an error or without, after a signal or not, or the signal ends the process
\* before the command has begun, the directory is gone unless its removal failed.
TempDirRemoved ==
    [][at # "idle" /\ at' = "idle" /\ (at = "check" \/ result' # "interrupted") /\ result' # "killed"
        => debug \/ tempDir' # "made"]_vars

\* "removes the local temp directory if it was created", as the comment on
\* terminateApplication says it: on every way out but a kill.
TempDirRemovedOnSignal ==
    at = "idle" /\ result \in {"ok", "error", "interrupted"} /\ ~debug => tempDir # "made"

\* The targets file that the user has written last is there, under its name or as saved.
TargetsKept == edits > 0 => edits \in {targets, sav}

\* A command that ends by itself leaves a program under the name that was started, or the
\* new one.
ProgramInPlace ==
    at = "idle" /\ result \in {"ok", "error"} =>
        program[running] \in Version \/ program[AppName] \in Version

==============================================================================
