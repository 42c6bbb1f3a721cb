-------------------------- MODULE UpdateApp_proofs --------------------------
(***************************************************************************)
(* Theorems about UpdateApp, for any number of releases, of suffixes of a  *)
(* name and of edits of the targets file: wherever an operation fails and  *)
(* wherever the process is killed, a whole program survives; an extraction *)
(* that failed leaves the program and the targets file as they were; one   *)
(* that succeeded leaves the new program and the targets file of the user. *)
(***************************************************************************)
EXTENDS UpdateApp, TLAPS, SequenceTheorems

LEMMA NameIsSequence ==
    ASSUME NEW n \in Name
    PROVE  n \in Seq(Version) /\ Len(n) \in 0..MaxSuffixes /\ n \in [1..Len(n) -> Version]
<1>1. PICK k \in 0..MaxSuffixes : n \in [1..k -> Version]
    BY DEF Name
<1>2. k \in Nat
    BY UpdateAssumption DEF UpdateAssumption
<1>3. n \in Seq(Version)
    BY <1>1, <1>2
<1>4. Len(n) = k
    BY <1>1, <1>2, <1>3
<1> QED BY <1>1, <1>3, <1>4

\* A name that can be extended: the extended name is another one, and tells the version.
LEMMA Extended ==
    ASSUME NEW n \in Name, Len(n) < MaxSuffixes, NEW v \in Version, NEW m, m = Append(n, v)
    PROVE  m \in Name /\ m # AppName /\ m # n /\ m[Len(m)] = v
<1> DEFINE k == Len(n)
<1>1. n \in Seq(Version) /\ k \in Nat /\ k + 1 \in 0..MaxSuffixes
    BY NameIsSequence, UpdateAssumption DEF UpdateAssumption
<1>2. m \in Seq(Version) /\ Len(m) = k + 1 /\ m[k + 1] = v
    BY <1>1
<1>3. m \in [1..(k + 1) -> Version]
    BY <1>2, LenProperties
<1>4. m \in Name
    BY <1>1, <1>3 DEF Name
<1>5. m # n /\ m # AppName
    BY <1>1, <1>2 DEF AppName
<1> QED BY <1>2, <1>4, <1>5

LEMMA OldAppNew ==
    ASSUME TypeOK, Len(running) < MaxSuffixes
    PROVE  /\ oldApp \in Name /\ oldApp # AppName /\ oldApp # running
           /\ oldApp[Len(oldApp)] = gVersion
<1>1. running \in Name /\ gVersion \in Version /\ oldApp = Append(running, gVersion)
    BY DEF TypeOK, oldApp
<1> QED BY <1>1, Extended

LEMMA AppNameIsName == AppName \in Name
<1>1. AppName \in [1..0 -> Version] /\ 0 \in 0..MaxSuffixes
    BY UpdateAssumption DEF AppName, UpdateAssumption
<1> QED BY <1>1 DEF Name
-----------------------------------------------------------------------------
(***************************************************************************)
(* A whole program survives.  The process was started from a program of    *)
(* its version, which keeps its place until updateApp renames it, has its  *)
(* extended name, where nothing is extracted, until it is renamed back,    *)
(* and is never written over.                                              *)
(***************************************************************************)
Early == {"init", "check", "work", "update", "download", "rename"}
Late  == {"save", "extract", "restore", "replace targets"}

\* A program was started as perfspect, or its name ends with its version.
Named == running = AppName \/ gVersion = running[Len(running)]

Whole ==
    /\ at \in Early => program[running] = gVersion
    /\ at \in Late => Len(running) < MaxSuffixes /\ program[oldApp] = gVersion
    /\ at = "restore targets" /\ attempt.clean => program[running] = gVersion
    /\ ProgramSurvives

SurvivalInv == TypeOK /\ Named /\ Whole

\* A step that touches neither the programs nor what the process knows of its own.
Calm ==
    /\ UNCHANGED <<program, running, gVersion>>
    /\ at' \in Early => at \in Early
    /\ at' \in Late => at \in Late
    /\ at' = "restore targets" => at = "restore targets" /\ attempt' = attempt
    /\ at' # "idle" => at # "idle"

LEMMA CalmWhole == ASSUME SurvivalInv, Calm PROVE Named' /\ Whole'
<1>1. Named' /\ oldApp' = oldApp
    BY DEF SurvivalInv, Named, Calm, oldApp
<1>2. ProgramSurvives'
    BY DEF SurvivalInv, Whole, ProgramSurvives, Calm
<1> QED BY <1>1, <1>2 DEF SurvivalInv, Whole, Calm

\* The steps that are calm.
Others ==
    \/ Release \/ EditTargets
    \/ Initialize \/ CheckEnds \/ Work \/ Terminate
    \/ Signal \/ HandlerTerminates \/ HandlerExits \/ Kill
    \/ CheckForUpdates \/ Download \/ SaveTargets \/ ExtractFails
    \/ RestoreTargets \/ RemoveTarball \/ ReplaceTargets

LEMMA OthersCalm == ASSUME TypeOK, Others PROVE Calm
<1> USE DEF Calm, Early, Late, files, world, process, unpacking, Goes, Fails
<1>1. CASE Release \/ EditTargets
    BY <1>1 DEF Release, EditTargets
<1>2. CASE Initialize
    BY <1>2 DEF Initialize
<1>3. CASE CheckEnds \/ Work \/ Terminate
    BY <1>3 DEF CheckEnds, Work, Terminate
<1>4. CASE Signal \/ HandlerTerminates \/ HandlerExits \/ Kill
    BY <1>4 DEF Signal, HandlerTerminates, HandlerExits, Kill
<1>5. CASE CheckForUpdates \/ Download
    BY <1>5 DEF CheckForUpdates, Download
<1>6. CASE SaveTargets \/ ExtractFails
    BY <1>6 DEF SaveTargets, ExtractFails
<1>7. CASE RestoreTargets \/ RemoveTarball \/ ReplaceTargets
    BY <1>7 DEF RestoreTargets, RemoveTarball, ReplaceTargets
<1> QED
    BY <1>1, <1>2, <1>3, <1>4, <1>5, <1>6, <1>7 DEF Others

\* The two halves of TypeOK.
ProgramOK ==
    /\ program \in [Name -> Version \cup {None, Partial}]
    /\ \A n \in Name \ {AppName} : program[n] \in {None, n[Len(n)]}

TargetsFile == Edit \cup {None, Partial, Shipped}
Attempts == [targets : TargetsFile, reached : {"start", "failed", "completed"}, clean : BOOLEAN]
Places == {"idle", "init", "check", "work", "terminate", "update", "download", "rename",
           "save", "extract", "restore", "restore targets", "replace targets"}

RestOK ==
    /\ targets \in TargetsFile /\ sav \in TargetsFile
    /\ latest \in Version /\ edits \in 0..MaxEdits
    /\ at \in Places
    /\ handler \in {"none", "waits", "received", "exits"}
    /\ command \in {"update", "other"} /\ debug \in BOOLEAN
    /\ running \in Name /\ gVersion \in Version
    /\ tempDir \in {"none", "made", "kept"}
    /\ archive \in Version /\ extracting \subseteq {"program", "targets"}
    /\ failure \in BOOLEAN /\ result \in {"none", "ok", "error", "interrupted", "killed"}
    /\ attempt \in Attempts

LEMMA Halves == (TypeOK <=> ProgramOK /\ RestOK) /\ (TypeOK' <=> ProgramOK' /\ RestOK')
BY DEF TypeOK, ProgramOK, RestOK, TargetsFile, Attempts, Places

\* Two of the parts of RestOK, each of variables that change together.
FilesOK ==
    /\ targets \in TargetsFile /\ sav \in TargetsFile
    /\ latest \in Version /\ edits \in 0..MaxEdits
    /\ archive \in Version /\ extracting \subseteq {"program", "targets"}

ProcessOK ==
    /\ handler \in {"none", "waits", "received", "exits"}
    /\ command \in {"update", "other"} /\ debug \in BOOLEAN
    /\ running \in Name /\ gVersion \in Version
    /\ tempDir \in {"none", "made", "kept"}
    /\ failure \in BOOLEAN /\ result \in {"none", "ok", "error", "interrupted", "killed"}

LEMMA Parts ==
    /\ RestOK => FilesOK /\ ProcessOK /\ at \in Places /\ attempt \in Attempts
    /\ FilesOK' /\ ProcessOK' /\ at' \in Places /\ attempt' \in Attempts => RestOK'
BY DEF RestOK, FilesOK, ProcessOK

LEMMA NothingIsAFile == None \in TargetsFile
BY DEF TargetsFile

LEMMA OthersFiles == ASSUME FilesOK, Others PROVE FilesOK'
<1> USE DEF FilesOK, files, world, unpacking
<1>1. CASE Release
    BY <1>1, UpdateAssumption DEF Release, Version, UpdateAssumption
<1>2. CASE EditTargets
    <2>1. edits' \in Edit /\ edits' \in 0..MaxEdits
        BY <1>2, UpdateAssumption DEF EditTargets, Edit, UpdateAssumption
    <2> QED BY <1>2, <2>1 DEF EditTargets, TargetsFile
<1>3. CASE Initialize \/ CheckEnds \/ Work \/ Terminate
    BY <1>3 DEF Initialize, CheckEnds, Work, Terminate
<1>4. CASE Signal \/ HandlerTerminates \/ HandlerExits \/ Kill
    BY <1>4 DEF Signal, HandlerTerminates, HandlerExits, Kill
<1>5. CASE CheckForUpdates \/ Download
    BY <1>5 DEF CheckForUpdates, Download
<1>6. CASE SaveTargets
    BY <1>6, NothingIsAFile DEF SaveTargets
<1>7. CASE ExtractFails \/ RemoveTarball
    BY <1>7 DEF ExtractFails, RemoveTarball
<1>8. CASE RestoreTargets \/ ReplaceTargets
    BY <1>8, NothingIsAFile DEF RestoreTargets, ReplaceTargets, MoveTargetsBack
<1> QED
    BY <1>1, <1>2, <1>3, <1>4, <1>5, <1>6, <1>7, <1>8 DEF Others

LEMMA OthersProcess == ASSUME ProcessOK, Others PROVE ProcessOK'
<1> USE DEF ProcessOK, process, Goes, Fails
<1>1. CASE Release \/ EditTargets
    BY <1>1 DEF Release, EditTargets
<1>2. CASE Initialize
    BY <1>2 DEF Initialize
<1>3. CASE CheckEnds \/ Work
    BY <1>3 DEF CheckEnds, Work
<1>4. CASE Terminate
    BY <1>4 DEF Terminate, Removal
<1>5. CASE Signal \/ HandlerExits \/ Kill
    BY <1>5 DEF Signal, HandlerExits, Kill
<1>6. CASE HandlerTerminates
    BY <1>6 DEF HandlerTerminates, Removal
<1>7. CASE CheckForUpdates \/ Download
    BY <1>7 DEF CheckForUpdates, Download
<1>8. CASE SaveTargets \/ ExtractFails \/ RemoveTarball
    BY <1>8 DEF SaveTargets, ExtractFails, RemoveTarball
<1>9. CASE RestoreTargets \/ ReplaceTargets
    BY <1>9 DEF RestoreTargets, ReplaceTargets
<1> QED
    BY <1>1, <1>2, <1>3, <1>4, <1>5, <1>6, <1>7, <1>8, <1>9 DEF Others

LEMMA OthersPlace == ASSUME at \in Places, Others PROVE at' \in Places
<1> USE DEF Goes, Fails
<1>1. CASE Release \/ EditTargets \/ Signal \/ HandlerTerminates
    BY <1>1 DEF Release, EditTargets, Signal, HandlerTerminates
<1>2. CASE Initialize \/ CheckEnds \/ Work \/ Terminate \/ HandlerExits \/ Kill
    <2>1. at' \in {"idle", "update", "check", "work", "terminate"}
        BY <1>2 DEF Initialize, CheckEnds, Work, Terminate, HandlerExits, Kill
    <2> QED BY <2>1 DEF Places
<1>3. CASE CheckForUpdates \/ Download \/ SaveTargets
    <2>1. at' \in {"terminate", "download", "rename", "extract"}
        BY <1>3 DEF CheckForUpdates, Download, SaveTargets
    <2> QED BY <2>1 DEF Places
<1>4. CASE ExtractFails \/ RestoreTargets \/ RemoveTarball \/ ReplaceTargets
    <2>1. at' \in {"restore", "terminate", "replace targets"}
        BY <1>4 DEF ExtractFails, RestoreTargets, RemoveTarball, ReplaceTargets
    <2> QED BY <2>1 DEF Places
<1> QED
    BY <1>1, <1>2, <1>3, <1>4 DEF Others

LEMMA OthersAttempt == ASSUME attempt \in Attempts, targets \in TargetsFile, Others PROVE attempt' \in Attempts
<1>1. /\ [attempt EXCEPT !.targets = targets] \in Attempts
      /\ [attempt EXCEPT !.reached = "failed"] \in Attempts
      /\ [attempt EXCEPT !.reached = "completed"] \in Attempts
      /\ [attempt EXCEPT !.clean = FALSE] \in Attempts
    BY DEF Attempts
<1>2. attempt' \in {attempt, [attempt EXCEPT !.targets = targets],
                    [attempt EXCEPT !.reached = "failed"],
                    [attempt EXCEPT !.reached = "completed"], [attempt EXCEPT !.clean = FALSE]}
    <2>1. CASE Release \/ EditTargets \/ Initialize \/ CheckEnds \/ Work \/ Terminate
        BY <2>1 DEF Release, EditTargets, Initialize, CheckEnds, Work, Terminate
    <2>2. CASE Signal \/ HandlerTerminates \/ HandlerExits \/ Kill \/ CheckForUpdates
        BY <2>2 DEF Signal, HandlerTerminates, HandlerExits, Kill, CheckForUpdates
    <2>3. CASE Download \/ SaveTargets \/ ExtractFails
        BY <2>3 DEF Download, SaveTargets, ExtractFails
    <2>4. CASE RestoreTargets \/ RemoveTarball \/ ReplaceTargets
        BY <2>4 DEF RestoreTargets, RemoveTarball, ReplaceTargets
    <2> QED BY <2>1, <2>2, <2>3, <2>4 DEF Others
<1> QED BY <1>1, <1>2

LEMMA OthersType == ASSUME TypeOK, Others PROVE TypeOK'
<1>1. RestOK
    BY Halves
<1>2. ProgramOK'
    BY OthersCalm, Halves DEF Calm, ProgramOK
<1>3. FilesOK /\ ProcessOK /\ at \in Places /\ attempt \in Attempts
    BY <1>1, Parts
<1>4. targets \in TargetsFile
    BY <1>3 DEF FilesOK
<1>5. FilesOK' /\ ProcessOK' /\ at' \in Places /\ attempt' \in Attempts
    BY <1>3, <1>4, OthersFiles, OthersProcess, OthersPlace, OthersAttempt
<1> QED BY <1>2, <1>5, Parts, Halves

-----------------------------------------------------------------------------
\* The steps that start, rename and write programs.
LEMMA StartStep == ASSUME SurvivalInv, Start PROVE SurvivalInv'
<1>1. PICK n \in Name : program[n] \in Version /\ running' = n /\ gVersion' = program[n]
    BY DEF Start
<1>2. UNCHANGED files /\ at' = "init"
    BY DEF Start
<1>3. RestOK /\ ProgramOK
    BY Halves DEF SurvivalInv
<1>4. attempt' \in Attempts
    BY UpdateAssumption DEF Start, NoAttempt, Attempts, TargetsFile
<1>5. RestOK'
    BY <1>1, <1>3, <1>4 DEF Start, RestOK, files, world, unpacking, Places
<1>6. TypeOK'
    BY <1>2, <1>3, <1>5, Halves DEF ProgramOK, files
<1>7. Named'
    BY <1>1, <1>3 DEF Named, ProgramOK, None, Version
<1>8. Whole'
    BY <1>1, <1>2 DEF Whole, ProgramSurvives, Late, files
<1> QED BY <1>6, <1>7, <1>8 DEF SurvivalInv

LEMMA RenameStep == ASSUME SurvivalInv, RenameApp PROVE SurvivalInv'
<1>1. RestOK /\ ProgramOK /\ Named /\ program[running] = gVersion
    BY Halves DEF SurvivalInv, Whole, RenameApp, Early
<1>2. RestOK'
    BY <1>1 DEF RenameApp, RestOK, Goes, Fails, files, world, process, unpacking, Places
<1>3. Named' /\ oldApp' = oldApp
    BY <1>1 DEF RenameApp, Named, oldApp, process
<1>4. CASE Fails /\ UNCHANGED program
    <2>1. ProgramOK' /\ ProgramSurvives'
        BY <1>1, <1>4 DEF SurvivalInv, Whole, ProgramOK, ProgramSurvives, RenameApp, process
    <2> QED BY <1>2, <1>3, <1>4, <2>1, Halves DEF SurvivalInv, Whole, Fails, Early, Late
<1>5. CASE Len(running) < MaxSuffixes /\ MoveProgram(running, oldApp) /\ Goes("save")
    <2>1. /\ oldApp \in Name /\ oldApp # AppName /\ oldApp # running
          /\ oldApp[Len(oldApp)] = gVersion
        BY <1>5, OldAppNew DEF SurvivalInv
    <2>2. /\ program'[oldApp] = gVersion
          /\ \A n \in Name : (program'[n] = gVersion /\ n = oldApp) \/ program'[n] \in {program[n], None}
          /\ program' \in [Name -> Version \cup {None, Partial}]
        BY <1>1, <1>5, <2>1 DEF MoveProgram, ProgramOK, RestOK
    <2>3. ProgramOK'
        BY <1>1, <2>1, <2>2 DEF ProgramOK
    <2>4. ProgramSurvives' /\ gVersion' = gVersion /\ running' = running
        BY <1>1, <2>1, <2>2 DEF ProgramSurvives, RestOK, RenameApp, process
    <2>5. Whole'
        BY <1>3, <1>5, <2>2, <2>4 DEF Whole, Goes, Early
    <2> QED BY <1>2, <1>3, <2>3, <2>5, Halves DEF SurvivalInv
<1> QED BY <1>4, <1>5 DEF RenameApp
\* Only perfspect itself is extracted, and the program that runs has an extended name then.
LEMMA ExtractStep == ASSUME SurvivalInv, ExtractFile PROVE SurvivalInv'
<1>1. RestOK /\ ProgramOK /\ Named
    BY Halves DEF SurvivalInv
<1>2. Len(running) < MaxSuffixes /\ program[oldApp] = gVersion /\ at = "extract" /\ at' = at
    BY DEF SurvivalInv, Whole, ExtractFile, Late
<1>3. oldApp \in Name /\ oldApp # AppName
    BY <1>2, OldAppNew DEF SurvivalInv
<1>4. RestOK'
    <2>1. FilesOK /\ ProcessOK /\ at \in Places /\ attempt \in Attempts
        BY <1>1, Parts
    <2>2. FilesOK'
        BY <2>1 DEF ExtractFile, FilesOK, TargetsFile, world
    <2>3. ProcessOK' /\ at' \in Places /\ attempt' \in Attempts
        BY <2>1 DEF ExtractFile, ProcessOK, process
    <2> QED BY <2>2, <2>3, Parts
<1>5. Named' /\ oldApp' = oldApp /\ gVersion' = gVersion /\ running' = running
    BY <1>1 DEF ExtractFile, Named, oldApp, process
<1>6. /\ program' \in [Name -> Version \cup {None, Partial}]
      /\ \A n \in Name \ {AppName} : program'[n] = program[n]
    BY <1>1, AppNameIsName DEF ExtractFile, ProgramOK, RestOK
<1>7. ProgramOK'
    BY <1>1, <1>6 DEF ProgramOK
<1>8. Whole'
    BY <1>1, <1>2, <1>3, <1>5, <1>6 DEF Whole, Early, ProgramSurvives, RestOK
<1> QED BY <1>4, <1>5, <1>7, <1>8, Halves DEF SurvivalInv

LEMMA RestoreStep == ASSUME SurvivalInv, RestoreApp PROVE SurvivalInv'
<1>1. RestOK /\ ProgramOK /\ Named
    BY Halves DEF SurvivalInv
<1>2. Len(running) < MaxSuffixes /\ program[oldApp] = gVersion
    BY DEF SurvivalInv, Whole, RestoreApp, Late
<1>3. oldApp \in Name /\ oldApp # AppName /\ oldApp # running
    BY <1>2, OldAppNew DEF SurvivalInv
<1>4. attempt' \in Attempts
    BY <1>1 DEF RestoreApp, RestOK, Attempts
<1>5. RestOK'
    BY <1>1, <1>4 DEF RestoreApp, RestOK, Goes, files, world, process, unpacking, Places
<1>6. Named' /\ gVersion' = gVersion /\ running' = running /\ at' = "restore targets"
    BY <1>1 DEF RestoreApp, Named, process, Goes
<1>7. CASE UNCHANGED program /\ attempt' = [attempt EXCEPT !.clean = FALSE]
    <2>1. ProgramOK' /\ attempt'.clean = FALSE
        BY <1>1, <1>7 DEF ProgramOK, RestOK, Attempts
    <2>2. Whole'
        BY <1>1, <1>2, <1>3, <1>6, <1>7, <2>1 DEF Whole, Early, Late, ProgramSurvives, RestOK
    <2> QED BY <1>5, <1>6, <2>1, <2>2, Halves DEF SurvivalInv
<1>8. CASE MoveProgram(oldApp, running)
    <2>1. /\ program' \in [Name -> Version \cup {None, Partial}]
          /\ program'[running] = gVersion
          /\ \A n \in Name : n = running \/ program'[n] \in {program[n], None}
        BY <1>1, <1>2, <1>3, <1>8 DEF MoveProgram, ProgramOK, RestOK
    <2>2. ProgramOK'
        BY <1>1, <2>1 DEF ProgramOK, Named, RestOK
    <2>3. Whole'
        BY <1>1, <1>6, <2>1 DEF Whole, Early, Late, ProgramSurvives, RestOK
    <2> QED BY <1>5, <1>6, <2>2, <2>3, Halves DEF SurvivalInv
<1> QED BY <1>7, <1>8 DEF RestoreApp

LEMMA SurvivalInit == Init => SurvivalInv
<1> SUFFICES ASSUME Init PROVE SurvivalInv
    OBVIOUS
<1>1. program[AppName] = 1 /\ 1 \in Version /\ at = "idle" /\ running = AppName
    BY AppNameIsName, UpdateAssumption DEF Init, Version, UpdateAssumption
<1>2. ProgramOK
    BY <1>1 DEF Init, ProgramOK
<1>3. attempt \in Attempts
    BY DEF Init, NoAttempt, Attempts, TargetsFile
<1>4. latest \in Version /\ gVersion \in Version /\ archive \in Version /\ edits \in 0..MaxEdits
    BY <1>1, UpdateAssumption DEF Init, UpdateAssumption
<1>5. RestOK
    BY <1>1, <1>3, <1>4, AppNameIsName DEF Init, RestOK, TargetsFile, Places
<1>6. Named /\ Whole
    BY <1>1, AppNameIsName DEF Named, Whole, Early, Late, ProgramSurvives
<1> QED BY <1>2, <1>5, <1>6, Halves DEF SurvivalInv

LEMMA SurvivalStep == SurvivalInv /\ [Next]_vars => SurvivalInv'
<1> SUFFICES ASSUME SurvivalInv, [Next]_vars PROVE SurvivalInv'
    OBVIOUS
<1>1. CASE Others
    <2>1. TypeOK' /\ Calm
        BY <1>1, OthersType, OthersCalm DEF SurvivalInv
    <2> QED BY <2>1, CalmWhole DEF SurvivalInv
<1>2. CASE Start
    BY <1>2, StartStep
<1>3. CASE RenameApp
    BY <1>3, RenameStep
<1>4. CASE ExtractFile
    BY <1>4, ExtractStep
<1>5. CASE RestoreApp
    BY <1>5, RestoreStep
<1>6. CASE UNCHANGED vars
    <2>1. RestOK' /\ ProgramOK'
        BY <1>6, Halves DEF SurvivalInv, RestOK, ProgramOK, vars, files, world, process, unpacking
    <2>2. Calm
        BY <1>6 DEF Calm, vars, files, process
    <2> QED BY <2>1, <2>2, CalmWhole, Halves DEF SurvivalInv
<1> QED
    BY <1>1, <1>2, <1>3, <1>4, <1>5, <1>6 DEF Next, updateApp, Others

\* Every variable has its type, and a program of an extended name has the version that it
\* ends with.
THEOREM TypeCorrect == Spec => []TypeOK
<1>1. SurvivalInv => TypeOK
    BY DEF SurvivalInv
<1> QED BY <1>1, SurvivalInit, SurvivalStep, PTL DEF Spec

\* For any number of releases and updates, with failures and kills anywhere, a whole program
\* is in the directory (updateApp, ExtractTGZ).
THEOREM AProgramSurvives == Spec => []ProgramSurvives
<1>1. SurvivalInv => ProgramSurvives
    BY DEF SurvivalInv, Whole
<1> QED BY <1>1, SurvivalInit, SurvivalStep, PTL DEF Spec
-----------------------------------------------------------------------------
(***************************************************************************)
(* What an update leaves, when it has failed and when it has succeeded.    *)
(***************************************************************************)
UpdateSteps == {"update", "download", "rename", "save", "extract", "restore",
                "restore targets", "replace targets"}

\* The update command has no signal handler.
Alone ==
    /\ at \in UpdateSteps \cup {"init"} => handler = "none"
    /\ at = "terminate" /\ attempt.reached # "start" => handler = "none"

\* How far updateApp has come.
Reached ==
    /\ at \in Early \cup {"save", "extract", "replace targets"} => attempt.reached = "start"
    /\ at \in {"restore", "restore targets"} => attempt.reached = "failed"

\* The archive is newer than the program that runs, and perfspect is of the archive when it
\* has been extracted.
Newer ==
    /\ at = "download" => latest > gVersion
    /\ at \in {"rename", "save", "extract", "replace targets"} => archive > gVersion
    /\ at \in {"extract", "replace targets"} /\ "program" \notin extracting =>
           program[AppName] = archive
    /\ at = "replace targets" => extracting = {}

\* The targets file of the user is saved while the archive is extracted.
Saved ==
    /\ at \in {"rename", "save"} => targets = attempt.targets
    /\ at \in {"extract", "restore", "restore targets", "replace targets"} =>
           (attempt.targets \in Edit => sav = attempt.targets)

\* What terminateApplication finds after an extraction that failed.
Restored ==
    at = "terminate" /\ attempt.reached = "failed" /\ attempt.clean =>
        /\ program[running] = gVersion
        /\ attempt.targets \in Edit => targets = attempt.targets

UpdateInv == SurvivalInv /\ Alone /\ Reached /\ Newer /\ Saved /\ Restored
             /\ SuccessMeansUpdated /\ FailureRestores

LEMMA AttemptFields ==
    ASSUME NEW a \in Attempts, NEW x
    PROVE  /\ [a EXCEPT !.reached = x] = [targets |-> a.targets, reached |-> x, clean |-> a.clean]
           /\ [a EXCEPT !.clean = x] = [targets |-> a.targets, reached |-> a.reached, clean |-> x]
           /\ [a EXCEPT !.targets = x] = [targets |-> x, reached |-> a.reached, clean |-> a.clean]
BY DEF Attempts

\* The steps that change attempt, and how.
LEMMA AttemptSteps ==
    ASSUME RestOK
    PROVE  /\ Start => attempt'.reached = "start"
           /\ Download /\ at' # "terminate" =>
                  attempt'.targets = targets /\ attempt'.reached = attempt.reached
           /\ ExtractFails => /\ attempt'.reached = "failed"
                              /\ attempt'.targets = attempt.targets /\ attempt'.clean = attempt.clean
           /\ RestoreApp \/ RestoreTargets =>
                  /\ attempt'.reached = attempt.reached /\ attempt'.targets = attempt.targets
                  /\ attempt' # attempt => attempt'.clean = FALSE
           /\ ReplaceTargets /\ attempt' # attempt =>
                  attempt'.reached = "completed" /\ attempt'.targets = attempt.targets
<1>0. attempt \in Attempts
    BY DEF RestOK
<1>1. Start => attempt'.reached = "start"
    BY DEF Start, NoAttempt
<1>2. Download /\ at' # "terminate" =>
          attempt'.targets = targets /\ attempt'.reached = attempt.reached
    BY <1>0, AttemptFields DEF Download, Fails
<1>3. ExtractFails => /\ attempt'.reached = "failed"
                     /\ attempt'.targets = attempt.targets /\ attempt'.clean = attempt.clean
    BY <1>0, AttemptFields DEF ExtractFails
<1>4. RestoreApp \/ RestoreTargets =>
          /\ attempt'.reached = attempt.reached /\ attempt'.targets = attempt.targets
          /\ attempt' # attempt => attempt'.clean = FALSE
    BY <1>0, AttemptFields DEF RestoreApp, RestoreTargets
<1>5. ReplaceTargets /\ attempt' # attempt =>
          attempt'.reached = "completed" /\ attempt'.targets = attempt.targets
    BY <1>0, AttemptFields DEF ReplaceTargets
<1> QED BY <1>1, <1>2, <1>3, <1>4, <1>5

LEMMA AloneStep == ASSUME UpdateInv, Next PROVE Alone' /\ Reached'
<1>0. RestOK
    BY Halves DEF UpdateInv, SurvivalInv
<1> USE <1>0 DEF UpdateInv, Alone, Reached, RestOK, UpdateSteps, Early, Goes, Fails, files, world,
                 process, unpacking
<1>1. CASE Release \/ EditTargets \/ Start
    BY <1>1, AttemptSteps DEF Release, EditTargets, Start
<1>2. CASE Initialize
    BY <1>2 DEF Initialize
<1>3. CASE CheckEnds \/ Work \/ Terminate
    BY <1>3 DEF CheckEnds, Work, Terminate
<1>4. CASE Signal \/ HandlerTerminates \/ HandlerExits \/ Kill
    BY <1>4 DEF Signal, HandlerTerminates, HandlerExits, Kill
<1>5. CASE CheckForUpdates \/ Download \/ RenameApp
    BY <1>5, AttemptSteps DEF CheckForUpdates, Download, RenameApp
<1>6. CASE SaveTargets \/ ExtractFile \/ RemoveTarball
    BY <1>6 DEF SaveTargets, ExtractFile, RemoveTarball
<1>7. CASE ExtractFails
    <2>1. attempt'.reached = "failed" /\ at = "extract" /\ at' = "restore" /\ handler' = handler
        BY <1>0, <1>7, AttemptSteps DEF ExtractFails
    <2> QED BY <2>1
<1>8. CASE RestoreApp \/ RestoreTargets
    <2>1. /\ attempt'.reached = attempt.reached /\ handler' = handler
          /\ at \in {"restore", "restore targets"} /\ at' \in {"restore targets", "terminate"}
        BY <1>0, <1>8, AttemptSteps DEF RestoreApp, RestoreTargets
    <2> QED BY <2>1
<1>9. CASE ReplaceTargets
    <2>1. handler' = handler /\ at = "replace targets" /\ at' = "terminate"
        BY <1>9 DEF ReplaceTargets
    <2> QED BY <2>1
<1> QED
    BY <1>1, <1>2, <1>3, <1>4, <1>5, <1>6, <1>7, <1>8, <1>9 DEF Next, updateApp
LEMMA NoneIsNoEdit == None \notin Edit
<1>1. MaxEdits \in Int
    BY UpdateAssumption DEF UpdateAssumption
<1> QED BY <1>1 DEF None, Edit

LEMMA StillGreater == \A m, n \in Int : m > n => m + 1 > n
OBVIOUS

LEMMA NewerStep == ASSUME UpdateInv, Next PROVE Newer'
<1>a. RestOK /\ ProgramOK /\ AppName \in Name
    BY AppNameIsName, Halves DEF UpdateInv, SurvivalInv
<1>b. \A v \in Version : v \in Int
    BY UpdateAssumption DEF Version, UpdateAssumption
<1>0. /\ latest \in Int /\ gVersion \in Int /\ archive \in Int
      /\ program \in [Name -> Version \cup {None, Partial}] /\ AppName \in Name
    BY <1>a, <1>b DEF RestOK, ProgramOK
<1> USE <1>0 DEF UpdateInv, Newer, Goes, Fails, files, world, process, unpacking
<1>1. CASE Release
    <2>0. latest' = latest + 1 /\ gVersion' = gVersion
        BY <1>1 DEF Release
    <2>1. latest > gVersion => latest' > gVersion'
        BY <1>0, <2>0, StillGreater
    <2>2. UNCHANGED <<at, gVersion, archive, program, extracting>>
        BY <1>1 DEF Release
    <2> QED BY <2>1, <2>2
<1>7. CASE EditTargets \/ Start
    BY <1>7 DEF EditTargets, Start
<1>2. CASE Initialize \/ CheckEnds \/ Work \/ Terminate
    BY <1>2 DEF Initialize, CheckEnds, Work, Terminate
<1>3. CASE Signal \/ HandlerTerminates \/ HandlerExits \/ Kill
    BY <1>3 DEF Signal, HandlerTerminates, HandlerExits, Kill
<1>4. CASE CheckForUpdates \/ Download \/ RenameApp \/ SaveTargets
    BY <1>4 DEF CheckForUpdates, Download, RenameApp, SaveTargets
<1>5. CASE ExtractFile
    BY <1>5 DEF ExtractFile
<1>6. CASE ExtractFails \/ RestoreApp \/ RestoreTargets \/ RemoveTarball \/ ReplaceTargets
    BY <1>6 DEF ExtractFails, RestoreApp, RestoreTargets, RemoveTarball, ReplaceTargets
<1> QED
    BY <1>1, <1>2, <1>3, <1>4, <1>5, <1>6, <1>7 DEF Next, updateApp

LEMMA SavedStep == ASSUME UpdateInv, Next PROVE Saved'
<1>0. RestOK
    BY Halves DEF UpdateInv, SurvivalInv
<1> USE DEF UpdateInv, Saved, Goes, Fails, files, world, process, unpacking
<1>1. CASE Release \/ EditTargets \/ Start
    BY <1>1 DEF Release, EditTargets, Start
<1>2. CASE Initialize \/ CheckEnds \/ Work \/ Terminate
    BY <1>2 DEF Initialize, CheckEnds, Work, Terminate
<1>3. CASE Signal \/ HandlerTerminates \/ HandlerExits \/ Kill
    BY <1>3 DEF Signal, HandlerTerminates, HandlerExits, Kill
<1>4. CASE Download
    <2>1. at' # "terminate" => attempt'.targets = targets
        BY <1>0, <1>4, AttemptSteps
    <2> QED BY <1>4, <2>1 DEF Download
<1>5. CASE CheckForUpdates \/ RenameApp
    BY <1>5 DEF CheckForUpdates, RenameApp
<1>6. CASE SaveTargets
    <2>1. None \notin Edit
        BY NoneIsNoEdit
    <2>2. /\ at = "save" /\ at' \in {"extract", "terminate"} /\ attempt' = attempt
          /\ targets # None /\ at' = "extract" => sav' = targets
        BY <1>6 DEF SaveTargets
    <2> QED BY <2>1, <2>2
<1>7. CASE ExtractFile \/ RemoveTarball
    BY <1>7 DEF ExtractFile, RemoveTarball
<1>8. CASE ExtractFails \/ RestoreApp
    <2>1. /\ attempt'.targets = attempt.targets /\ sav' = sav
          /\ at \in {"extract", "restore"} /\ at' \in {"restore", "restore targets"}
        BY <1>0, <1>8, AttemptSteps DEF ExtractFails, RestoreApp
    <2> QED BY <2>1
<1>9. CASE RestoreTargets \/ ReplaceTargets
    BY <1>9 DEF RestoreTargets, ReplaceTargets
<1> QED
    BY <1>1, <1>2, <1>3, <1>4, <1>5, <1>6, <1>7, <1>8, <1>9 DEF Next, updateApp
\* Where a process comes to its end, after a failure or a success.
LEMMA EndStep ==
    ASSUME UpdateInv, Next
    PROVE  Restored' /\ SuccessMeansUpdated'
<1>0. RestOK
    BY Halves DEF UpdateInv, SurvivalInv
<1> USE DEF UpdateInv, Restored, SuccessMeansUpdated, Goes, Fails, files, world, process, unpacking
<1>1. CASE Release \/ EditTargets \/ Start
    BY <1>1 DEF Release, EditTargets, Start
<1>2. CASE Initialize \/ CheckEnds
    BY <1>2 DEF Initialize, CheckEnds
<1>3. CASE Work
    BY <1>3 DEF Work, Reached, Early
<1>4. CASE Terminate \/ HandlerExits \/ Kill
    BY <1>4 DEF Terminate, HandlerExits, Kill
<1>5. CASE Signal \/ HandlerTerminates
    BY <1>5 DEF Signal, HandlerTerminates
<1>6. CASE CheckForUpdates \/ RenameApp \/ SaveTargets \/ RemoveTarball
    <2>1. attempt'.reached = "start" \/ at' # "terminate"
        BY <1>6 DEF CheckForUpdates, RenameApp, SaveTargets, RemoveTarball, Reached, Early
    <2> QED BY <2>1
<1>7. CASE Download
    <2>1. at' # "terminate" \/ (attempt' = attempt /\ attempt.reached = "start")
        BY <1>7 DEF Download, Reached, Early
    <2> QED BY <2>1
<1>8. CASE ExtractFile \/ ExtractFails \/ RestoreApp
    BY <1>8 DEF ExtractFile, ExtractFails, RestoreApp
<1>9. CASE RestoreTargets
    <2>1. /\ at = "restore targets" /\ attempt.reached = "failed"
          /\ attempt'.targets = attempt.targets /\ attempt'.reached = "failed"
          /\ attempt' # attempt => attempt'.clean = FALSE
          /\ UNCHANGED <<program, running, gVersion>>
        BY <1>0, <1>9, AttemptSteps DEF RestoreTargets, Reached
    <2>2. attempt'.clean /\ sav # None => targets' = sav
        <3>1. [attempt EXCEPT !.clean = FALSE].clean = FALSE
            BY <1>0, AttemptFields DEF RestOK
        <3> QED BY <1>9, <3>1 DEF RestoreTargets, MoveTargetsBack
    <2>3. attempt.clean => program[running] = gVersion
        BY <2>1 DEF SurvivalInv, Whole
    <2>4. ASSUME attempt'.clean
          PROVE  /\ attempt' = attempt /\ program'[running'] = gVersion'
                 /\ attempt'.targets \in Edit => targets' = attempt'.targets
        <3>1. attempt' = attempt
            BY <2>1, <2>4
        <3>2. attempt.targets \in Edit => sav = attempt.targets /\ sav # None
            BY <2>1, NoneIsNoEdit DEF Saved
        <3>3. program'[running'] = gVersion'
            BY <2>1, <2>3, <2>4, <3>1
        <3>4. attempt'.targets \in Edit => targets' = attempt'.targets
            BY <2>2, <2>4, <3>1, <3>2
        <3> QED BY <3>1, <3>3, <3>4
    <2>5. Restored'
        BY <2>4 DEF Restored
    <2>6. SuccessMeansUpdated'
        BY <2>1 DEF SuccessMeansUpdated
    <2> QED BY <2>5, <2>6
<1>10. CASE ReplaceTargets
    <2>1. /\ at = "replace targets" /\ attempt.reached = "start"
          /\ UNCHANGED <<program, running, gVersion>>
          /\ program[AppName] > gVersion
          /\ attempt.targets \in Edit => sav = attempt.targets
        BY <1>10 DEF ReplaceTargets, Reached, Newer, Saved
    <2>2. CASE attempt' = attempt
        BY <2>1, <2>2
    <2>3. CASE attempt' # attempt
        <3>1. /\ attempt'.targets = attempt.targets /\ attempt'.reached = "completed"
              /\ sav # None => targets' = sav
            BY <1>0, <1>10, <2>3, AttemptSteps DEF ReplaceTargets, MoveTargetsBack
        <3> QED BY <2>1, <3>1, NoneIsNoEdit
    <2> QED BY <2>2, <2>3
<1> QED
    BY <1>1, <1>2, <1>3, <1>4, <1>5, <1>6, <1>7, <1>8, <1>9, <1>10 DEF Next, updateApp

\* Nothing touches the programs between two processes.
LEMMA IdleStep == ASSUME UpdateInv, Next PROVE FailureRestores'
<1> USE DEF UpdateInv, FailureRestores, Goes, Fails, files, world, process, unpacking
<1>1. CASE Release
    BY <1>1 DEF Release
<1>2. CASE EditTargets
    BY <1>2 DEF EditTargets
<1>3. CASE Start
    BY <1>3 DEF Start
<1>4. CASE Initialize
    BY <1>4 DEF Initialize, Reached, Early
<1>5. CASE Terminate
    BY <1>5 DEF Terminate, Restored
<1>6. CASE HandlerExits
    <2>1. at # "idle" /\ handler = "exits" /\ attempt' = attempt
        BY <1>6 DEF HandlerExits
    <2>2. at \in Places
        BY Halves DEF SurvivalInv, RestOK
    <2>3. attempt.reached # "failed"
        BY <2>1, <2>2 DEF Alone, Reached, Early, UpdateSteps, Places
    <2> QED BY <2>1, <2>3
<1>7. CASE Kill
    BY <1>7 DEF Kill
<1>8. at' # "idle" => FailureRestores'
    OBVIOUS
<1>9. CASE CheckEnds \/ Work \/ Signal \/ HandlerTerminates
    BY <1>8, <1>9 DEF CheckEnds, Work, Signal, HandlerTerminates
<1>10. CASE updateApp
    <2>1. at' # "idle"
        BY <1>10 DEF updateApp, CheckForUpdates, Download, RenameApp, SaveTargets, ExtractFile,
                     ExtractFails, RestoreApp, RestoreTargets, RemoveTarball, ReplaceTargets
    <2> QED BY <1>8, <2>1
<1> QED
    BY <1>1, <1>2, <1>3, <1>4, <1>5, <1>6, <1>7, <1>9, <1>10 DEF Next

LEMMA UpdateInit == Init => UpdateInv
<1> SUFFICES ASSUME Init PROVE UpdateInv
    OBVIOUS
<1>1. at = "idle" /\ handler = "none" /\ result = "none"
    BY DEF Init
<1>2. Alone /\ Reached /\ Newer /\ Saved
    BY <1>1 DEF Alone, Reached, Newer, Saved, Early, UpdateSteps
<1>3. Restored /\ SuccessMeansUpdated /\ FailureRestores
    BY <1>1 DEF Restored, SuccessMeansUpdated, FailureRestores
<1> QED BY <1>2, <1>3, SurvivalInit DEF UpdateInv

LEMMA UpdateStep == UpdateInv /\ [Next]_vars => UpdateInv'
<1> SUFFICES ASSUME UpdateInv, [Next]_vars PROVE UpdateInv'
    OBVIOUS
<1>1. SurvivalInv'
    BY SurvivalStep DEF UpdateInv
<1>2. CASE Next
    BY <1>1, <1>2, AloneStep, NewerStep, SavedStep, EndStep, IdleStep DEF UpdateInv
<1>3. CASE UNCHANGED vars
    <2> USE <1>3 DEF UpdateInv, vars, files, world, process, unpacking
    <2>1. Alone' /\ Reached' /\ Newer' /\ Saved'
        BY DEF Alone, Reached, Newer, Saved
    <2>2. Restored' /\ SuccessMeansUpdated' /\ FailureRestores'
        BY DEF Restored, SuccessMeansUpdated, FailureRestores
    <2> QED BY <1>1, <2>1, <2>2
<1> QED BY <1>2, <1>3

\* After an extraction that failed, when the renames back succeeded, the program that was
\* started and the user's targets file are where they were (updateApp).
THEOREM FailedUpdateRestores == Spec => []FailureRestores
<1>1. UpdateInv => FailureRestores
    BY DEF UpdateInv
<1> QED BY <1>1, UpdateInit, UpdateStep, PTL DEF Spec

\* When updateApp reports success the program is a newer release and the user's targets file
\* is in place.
THEOREM CompletedUpdateUpdates == Spec => []SuccessMeansUpdated
<1>1. UpdateInv => SuccessMeansUpdated
    BY DEF UpdateInv
<1> QED BY <1>1, UpdateInit, UpdateStep, PTL DEF Spec
-----------------------------------------------------------------------------
(***************************************************************************)
(* The temporary directory.  Two goroutines remove it: the one that has    *)
(* received a signal may end the process after the other has gone on, and  *)
(* while the other has not begun its command the directory stays away.     *)
(***************************************************************************)
TempDirInv ==
    /\ at = "init" => tempDir = "none" /\ handler = "none"
    /\ at = "check" /\ handler = "exits" => debug \/ tempDir # "made"

Removed ==
    at # "idle" /\ at' = "idle" /\ (at = "check" \/ result' # "interrupted") /\ result' # "killed"
        => debug \/ tempDir' # "made"

LEMMA TempDirStep == ASSUME TempDirInv, [Next]_vars PROVE TempDirInv' /\ (Removed \/ UNCHANGED vars)
<1> USE DEF TempDirInv, Removed, Goes, Fails, Removal, process
<1>1. CASE Release \/ EditTargets
    BY <1>1 DEF Release, EditTargets
<1>2. CASE Start
    BY <1>2 DEF Start
<1>3. CASE Initialize
    BY <1>3 DEF Initialize
<1>4. CASE CheckEnds \/ Work
    BY <1>4 DEF CheckEnds, Work
<1>5. CASE Terminate
    BY <1>5 DEF Terminate
<1>6. CASE Signal \/ HandlerTerminates
    BY <1>6 DEF Signal, HandlerTerminates
<1>7. CASE HandlerExits \/ Kill
    BY <1>7 DEF HandlerExits, Kill
<1>8. CASE CheckForUpdates \/ Download \/ RenameApp \/ SaveTargets \/ ExtractFile
    BY <1>8 DEF CheckForUpdates, Download, RenameApp, SaveTargets, ExtractFile
<1>9. CASE ExtractFails \/ RestoreApp \/ RestoreTargets \/ RemoveTarball \/ ReplaceTargets
    BY <1>9 DEF ExtractFails, RestoreApp, RestoreTargets, RemoveTarball, ReplaceTargets
<1>10. CASE UNCHANGED vars
    BY <1>10 DEF vars
<1> QED
    BY <1>1, <1>2, <1>3, <1>4, <1>5, <1>6, <1>7, <1>8, <1>9, <1>10 DEF Next, updateApp

\* When the command ends by itself, after a signal or not, or the signal handler ends the
\* process before the command has begun, the temporary directory has been removed, unless
\* its removal failed (terminateApplication).
THEOREM TempDirIsRemoved == Spec => TempDirRemoved
<1>1. Init => TempDirInv
    BY DEF Init, TempDirInv
<1>2. TempDirInv /\ [Next]_vars => TempDirInv' /\ [Removed]_vars
    BY TempDirStep
<1> QED BY <1>1, <1>2, PTL DEF Spec, TempDirRemoved, Removed
=============================================================================
