------------------------ MODULE ReportingRun_proofs ------------------------
(***************************************************************************)
(* Theorems about ReportingRun, for every sequence of targets, every set   *)
(* of tables, and every kernel module that is unreliable: the temporary    *)
(* directories are there as long as scripts run in them and are removed    *)
(* afterwards, on every way out of Run; the kernel modules are as before   *)
(* where no modprobe has failed; the data of a target is lost only to a    *)
(* failed command, because of what the scripts require; the outputs are    *)
(* in the order of the targets, and saved before any report is made.       *)
(***************************************************************************)
EXTENDS ReportingRun, FiniteSetTheorems, TLAPS

\* Where Run is once it has decided which targets remain.
Later == {"wait", "outdir", "raw", "reports", "adhoc", "pulling", "deferred", "returned",
          "panicked"}

(* Neither property is inductive by itself.  What carries them: before any *)
(* goroutine runs, CreateTempDirectory has left every target up to cursor  *)
(* with a directory or an error; afterwards every directory that was made  *)
(* is scheduled for removal; and nobody collects once Run is past "wait".  *)
DirTypes ==
    /\ main \in {"start", "tempdirs"} \cup Later
    /\ debug \in BOOLEAN /\ cursor \in Nat /\ scheduled \subseteq Target
    /\ targetErr \in [Target -> BOOLEAN]
    /\ dir \in [Target -> {"none", "made", "lost", "kept"}]
    /\ phase \in [Target -> Phases]

Prepared ==
    /\ main = "start" => cursor = 1 /\ \A t \in Target : dir[t] = "none"
    /\ main = "tempdirs" => \A t \in Target : t < cursor /\ ~targetErr[t] => dir[t] = "made"
    /\ main \in {"start", "tempdirs"} => cursor > 0 /\ \A t \in Target : phase[t] = "idle"

Scheduled ==
    main \in Later /\ ~debug => \A t \in Target : dir[t] = "made" => t \in scheduled

NoneCollects ==
    main \in Later \ {"wait"} => \A t \in Target : ~Collecting(t)

DirInv == DirTypes /\ Prepared /\ Scheduled /\ NoneCollects /\ ScriptsHaveTheirDirectory
          /\ (main = "returned" => scheduled = {})

LEMMA DirInit == Init => DirInv
<1> SUFFICES ASSUME Init PROVE DirInv
    OBVIOUS
<1>1. DirTypes
      BY DEF Init, DirTypes, Phases
<1>2. Prepared
      BY DEF Init, Prepared
<1>3. Scheduled /\ NoneCollects /\ (main = "returned" => scheduled = {})
      BY DEF Init, Scheduled, NoneCollects, Later
<1>4. ScriptsHaveTheirDirectory
      BY DEF Init, ScriptsHaveTheirDirectory, Collecting
<1> QED
    BY <1>1, <1>2, <1>3, <1>4 DEF DirInv

\* The steps of Run and of the adhoc functions once nobody collects, which leave the
\* directories alone.
LEMMA DirLater ==
    ASSUME DirInv, UNCHANGED <<debug, dir, scheduled, targetErr>>, main \in Later,
           main' \in Later, main' = "returned" => scheduled = {}, cursor' \in Nat,
           phase' \in [Target -> Phases],
           \A t \in Target : ~Collecting(t)'
    PROVE  DirInv'
<1>1. DirTypes'
      BY DEF DirInv, DirTypes
<1>2. Prepared'
      BY DEF Prepared, Later
<1>3. Scheduled'
      BY DEF DirInv, Scheduled
<1>4. NoneCollects' /\ ScriptsHaveTheirDirectory' /\ (main' = "returned" => scheduled' = {})
      BY DEF NoneCollects, ScriptsHaveTheirDirectory
<1> QED
    BY <1>1, <1>2, <1>3, <1>4 DEF DirInv

\* The steps of the goroutines that collect: they begin before they go on.
LEMMA DirCollect ==
    ASSUME DirInv, NEW t \in Target, NEW next \in Phases, Collecting(t),
           UNCHANGED <<debug, dir, scheduled, targetErr, main, cursor>>, main # "panicked",
           phase' = [phase EXCEPT ![t] = next]
    PROVE  DirInv'
<1>1. main = "wait"
  <2>1. main \notin {"start", "tempdirs"}
        BY DEF DirInv, Prepared, Collecting
  <2> QED
      BY <2>1 DEF DirInv, DirTypes, NoneCollects
<1>2. dir[t] = "made"
      BY DEF DirInv, ScriptsHaveTheirDirectory
<1>3. DirTypes'
      BY DEF DirInv, DirTypes
<1>4. Prepared' /\ NoneCollects'
      BY <1>1 DEF Prepared, NoneCollects
<1>5. Scheduled' /\ (main' = "returned" => scheduled' = {})
      BY DEF DirInv, Scheduled
<1>6. ScriptsHaveTheirDirectory'
  <2> SUFFICES ASSUME NEW u \in Target, Collecting(u)' PROVE dir'[u] = "made"
      BY DEF ScriptsHaveTheirDirectory
  <2>1. CASE u = t
        BY <2>1, <1>2
  <2>2. CASE u # t
        BY <2>2 DEF DirInv, DirTypes, ScriptsHaveTheirDirectory, Collecting
  <2> QED
      BY <2>1, <2>2
<1> QED
    BY <1>3, <1>4, <1>5, <1>6 DEF DirInv

LEMMA DirCollectStep ==
    ASSUME DirInv, NEW t \in Target, Collect(t)
    PROVE  DirInv'
<1> USE DEF RunVars, targetVars, fixed
<1>1. Collecting(t) /\ main # "panicked"
      BY DEF Collect, Collecting, PrepareTarget, InstallLkms, RunParallelScripts,
         RunSequentialScripts, UninstallLkms
<1>2. \E next \in Phases : phase' = [phase EXCEPT ![t] = next]
      BY DEF Collect, PrepareTarget, InstallLkms, RunParallelScripts, RunSequentialScripts,
         UninstallLkms, Goes, Fails, Phases
<1>3. UNCHANGED <<debug, dir, scheduled, targetErr, main, cursor>>
      BY DEF Collect, PrepareTarget, InstallLkms, RunParallelScripts, RunSequentialScripts,
         UninstallLkms
<1> QED
    BY <1>1, <1>2, <1>3, DirCollect

\* GetTargets and outputsFromInput.
LEMMA DirStart ==
    ASSUME DirInv, ReadInput \/ GetTargets
    PROVE  DirInv'
<1> USE DEF DirInv, targetVars, fixed, Return, Continue
<1>1. /\ main = "start" /\ main' \in {"tempdirs", "outdir", "deferred"}
      /\ UNCHANGED <<debug, dir, scheduled, phase, cursor>>
      /\ targetErr' \in [Target -> BOOLEAN]
      BY DEF ReadInput, GetTargets, DirTypes
<1>2. cursor = 1 /\ \A t \in Target : dir[t] = "none" /\ phase[t] = "idle"
      BY <1>1 DEF Prepared
<1>3. DirTypes'
      BY <1>1 DEF DirTypes, Later
<1>4. Prepared'
  <2>1. \A t \in Target : t \in Nat \ {0}
        BY ReportingAssumption DEF Target
  <2> QED
      BY <1>1, <1>2, <2>1 DEF Prepared
<1>5. Scheduled' /\ NoneCollects' /\ ScriptsHaveTheirDirectory'
      BY <1>1, <1>2 DEF Scheduled, NoneCollects, ScriptsHaveTheirDirectory, Collecting
<1>6. main' = "returned" => scheduled' = {}
      BY <1>1
<1> QED
    BY <1>3, <1>4, <1>5, <1>6

LEMMA DirCreate ==
    ASSUME DirInv, CreateTempDirectory
    PROVE  DirInv'
<1> USE DEF DirInv, targetVars, fixed
<1>1. /\ main = "tempdirs" /\ cursor \in Target /\ cursor' = cursor + 1
      /\ UNCHANGED <<debug, main, scheduled, phase>>
      BY DEF CreateTempDirectory
<1>2. /\ dir' \in [Target -> {"none", "made", "lost", "kept"}]
      /\ targetErr' \in [Target -> BOOLEAN]
      BY DEF CreateTempDirectory, DirTypes
<1>3. ~targetErr'[cursor] => dir'[cursor] = "made"
      BY <1>1 DEF CreateTempDirectory, DirTypes
<1>4. \A t \in Target : t # cursor => dir'[t] = dir[t] /\ targetErr'[t] = targetErr[t]
      BY DEF CreateTempDirectory, DirTypes
<1>5. \A t \in Target : t \in Nat
      BY ReportingAssumption DEF Target
<1>6. DirTypes'
      BY <1>1, <1>2 DEF DirTypes
<1>7. Prepared'
  <2>1. \A t \in Target : t < cursor + 1 => t < cursor \/ t = cursor
        BY <1>5 DEF DirTypes
  <2>2. \A t \in Target : t < cursor' /\ ~targetErr'[t] => dir'[t] = "made"
        BY <1>1, <1>3, <1>4, <2>1 DEF Prepared
  <2>3. cursor' > 0 /\ \A t \in Target : phase'[t] = "idle"
        BY <1>1 DEF Prepared, DirTypes
  <2> QED
      BY <1>1, <2>2, <2>3 DEF Prepared
<1>8. Scheduled' /\ NoneCollects' /\ ScriptsHaveTheirDirectory'
      BY <1>1, <1>7 DEF Scheduled, NoneCollects, ScriptsHaveTheirDirectory, Collecting,
         Prepared, Later
<1> QED
    BY <1>1, <1>6, <1>7, <1>8

LEMMA DirStartCollecting ==
    ASSUME DirInv, StartCollecting
    PROVE  DirInv'
<1> USE DEF DirInv, targetVars, fixed, Return, Continue
<1>1. /\ main = "tempdirs" /\ cursor \notin Target /\ scheduled' = ToSchedule
      /\ UNCHANGED <<debug, dir, targetErr, cursor>>
      BY DEF StartCollecting
<1>2. \/ /\ main' = "wait"
         /\ phase' = [t \in Target |-> IF targetErr[t] THEN "idle" ELSE "prepare"]
      \/ main' = "deferred" /\ phase' = phase
      BY DEF StartCollecting
<1>3. \A t \in Target : t < cursor
  <2>1. Target = 1..Len(CpuOf) /\ Len(CpuOf) \in Nat
        BY ReportingAssumption DEF Target
  <2>2. cursor \in Nat /\ cursor > 0
        BY <1>1 DEF DirTypes, Prepared
  <2> QED
      BY <1>1, <2>1, <2>2
<1>4. \A t \in Target : ~targetErr[t] => dir[t] = "made"
      BY <1>1, <1>3 DEF Prepared
<1>5. \A t \in Target : phase[t] = "idle"
      BY <1>1 DEF Prepared
<1>6. DirTypes'
      BY <1>1, <1>2 DEF DirTypes, Later, Phases, ToSchedule
<1>7. Prepared'
      BY <1>2 DEF Prepared
<1>8. Scheduled'
      BY <1>1 DEF Scheduled, ToSchedule
<1>9. NoneCollects' /\ ScriptsHaveTheirDirectory'
  <2>1. CASE main' = "deferred" /\ phase' = phase
        BY <2>1, <1>5 DEF NoneCollects, ScriptsHaveTheirDirectory, Collecting
  <2>2. CASE /\ main' = "wait"
             /\ phase' = [t \in Target |-> IF targetErr[t] THEN "idle" ELSE "prepare"]
        BY <2>2, <1>1, <1>4 DEF NoneCollects, ScriptsHaveTheirDirectory, Collecting
  <2> QED
      BY <1>2, <2>1, <2>2
<1> QED
    BY <1>2, <1>6, <1>7, <1>8, <1>9

\* A message arrives from a goroutine that no longer collects.
LEMMA DirReceive ==
    ASSUME DirInv, NEW t \in Target, Receive(t)
    PROVE  DirInv'
<1> USE DEF DirInv, targetVars, fixed
<1>1. /\ main = "wait" /\ main' = main /\ phase' = [phase EXCEPT ![t] = "sent"]
      /\ UNCHANGED <<debug, dir, scheduled, targetErr, cursor>>
      BY DEF Receive
<1>2. DirTypes'
      BY <1>1 DEF DirTypes, Phases
<1>3. Prepared' /\ Scheduled' /\ NoneCollects'
      BY <1>1 DEF Prepared, Scheduled, NoneCollects
<1>4. ScriptsHaveTheirDirectory'
      BY <1>1 DEF ScriptsHaveTheirDirectory, Collecting, DirTypes
<1> QED
    BY <1>1, <1>2, <1>3, <1>4

\* Past "wait" the directories change only when they are removed.
LEMMA DirReports ==
    ASSUME DirInv,
           \/ OrderOutputs \/ CreateOutputDir \/ CreateRawReport \/ RawReportsCreated
           \/ CreateReport \/ FinishReports \/ FinishAdhoc \/ Exit
    PROVE  DirInv'
<1> USE DEF targetVars, fixed, MainVars
<1>1. main \in Later /\ main' \in Later
      BY DEF OrderOutputs, CreateOutputDir, CreateRawReport, RawReportsCreated, CreateReport,
         FinishReports, FinishAdhoc, Exit, Later, Return, Continue
<1>2. cursor \in Nat /\ cursor' \in Nat /\ phase \in [Target -> Phases]
  <2>1. cursor' \in {cursor, cursor + 1, 1}
        BY DEF OrderOutputs, CreateOutputDir, CreateRawReport, RawReportsCreated,
           CreateReport, FinishReports, FinishAdhoc, Exit
  <2> QED
      BY <2>1 DEF DirInv, DirTypes
<1>3. UNCHANGED <<debug, dir, scheduled, targetErr, phase>>
      BY DEF OrderOutputs, CreateOutputDir, CreateRawReport, RawReportsCreated, CreateReport,
         FinishReports, FinishAdhoc, Exit
<1>4. main' = "returned" => scheduled = {}
      BY DEF OrderOutputs, CreateOutputDir, CreateRawReport, RawReportsCreated, CreateReport,
         FinishReports, FinishAdhoc, Exit, Return, Continue
<1>5. \A t \in Target : ~Collecting(t)
  <2>1. CASE OrderOutputs
        BY <2>1 DEF OrderOutputs, Collecting
  <2>2. CASE ~OrderOutputs
    <3>1. main \in Later \ {"wait"}
          BY <2>2, <1>1 DEF CreateOutputDir, CreateRawReport, RawReportsCreated,
             CreateReport, FinishReports, FinishAdhoc, Exit
    <3> QED
        BY <3>1 DEF DirInv, NoneCollects
  <2> QED
      BY <2>1, <2>2
<1>6. \A t \in Target : ~Collecting(t)'
      BY <1>3, <1>5 DEF Collecting
<1> QED
    BY <1>1, <1>2, <1>3, <1>4, <1>6, DirLater

LEMMA DirAdhoc ==
    ASSUME DirInv, StartAdhoc \/ \E i \in DOMAIN myTargets : PullDataFiles(i)
    PROVE  DirInv'
<1> USE DEF targetVars, fixed, Continue, Goes
<1>1. /\ main \in {"adhoc", "pulling"} /\ main' \in {"pulling", "panicked"}
      /\ UNCHANGED <<debug, dir, scheduled, targetErr, cursor>>
      BY DEF StartAdhoc, PullDataFiles
<1>2. phase \in [Target -> Phases] /\ cursor \in Nat
      BY DEF DirInv, DirTypes
<1>3. \A t \in Target : phase'[t] \in {phase[t], "pull", "done"}
      BY <1>2 DEF StartAdhoc, PullDataFiles
<1>4. phase' \in [Target -> Phases]
      BY <1>2 DEF StartAdhoc, PullDataFiles, Phases
<1>5. \A t \in Target : ~Collecting(t)
      BY <1>1 DEF DirInv, NoneCollects, Later
<1>6. \A t \in Target : ~Collecting(t)'
      BY <1>3, <1>5 DEF Collecting
<1> QED
    BY <1>1, <1>2, <1>4, <1>6, DirLater DEF Later

\* The deferred function leaves its target without a directory, or reports that it failed.
LEMMA DirRemove ==
    ASSUME DirInv, RemoveTempDirectory
    PROVE  DirInv'
<1> USE DEF DirInv, targetVars, fixed
<1> DEFINE t == Max(scheduled)
<1>1. PICK after \in {"none", "kept"} : dir' = [dir EXCEPT ![t] = after]
      BY DEF RemoveTempDirectory
<1>2. /\ main = "deferred" /\ scheduled' = scheduled \ {t}
      /\ UNCHANGED <<debug, main, targetErr, phase, cursor>>
      BY DEF RemoveTempDirectory
<1> HIDE DEF t
<1>3. DirTypes'
      BY <1>1, <1>2 DEF DirTypes
<1>4. Prepared'
      BY <1>2 DEF Prepared
<1>5. Scheduled'
      BY <1>1, <1>2 DEF Scheduled, DirTypes, Later
<1>6. NoneCollects' /\ ScriptsHaveTheirDirectory'
  <2>1. \A u \in Target : ~Collecting(u)
        BY <1>2 DEF NoneCollects, Later
  <2>2. \A u \in Target : ~Collecting(u)'
        BY <1>2, <2>1 DEF Collecting
  <2> QED
      BY <2>2 DEF NoneCollects, ScriptsHaveTheirDirectory
<1> QED
    BY <1>2, <1>3, <1>4, <1>5, <1>6

LEMMA DirStep == DirInv /\ [Next]_vars => DirInv'
<1> SUFFICES ASSUME DirInv, [Next]_vars PROVE DirInv'
    OBVIOUS
<1>1. CASE \E t \in Target : Collect(t)
      BY <1>1, DirCollectStep
<1>2. CASE ReadInput \/ GetTargets
      BY <1>2, DirStart
<1>3. CASE CreateTempDirectory
      BY <1>3, DirCreate
<1>4. CASE StartCollecting
      BY <1>4, DirStartCollecting
<1>5. CASE \E t \in Target : Receive(t)
      BY <1>5, DirReceive
<1>6. CASE \/ OrderOutputs \/ CreateOutputDir \/ CreateRawReport \/ RawReportsCreated
           \/ CreateReport \/ FinishReports \/ FinishAdhoc \/ Exit
      BY <1>6, DirReports
<1>7. CASE StartAdhoc \/ \E i \in DOMAIN myTargets : PullDataFiles(i)
      BY <1>7, DirAdhoc
<1>8. CASE RemoveTempDirectory
      BY <1>8, DirRemove
<1>9. CASE UNCHANGED vars
      BY <1>9 DEF vars, targetVars, fixed, DirInv, DirTypes, Prepared, Scheduled,
         NoneCollects, ScriptsHaveTheirDirectory, Collecting
<1> QED
    BY <1>1, <1>2, <1>3, <1>4, <1>5, <1>6, <1>7, <1>8, <1>9 DEF Next, Run

LEMMA DirAlways == Spec => []DirInv
<1>1. Init => DirInv
      BY DirInit
<1>2. DirInv /\ [Next]_vars => DirInv'
      BY DirStep
<1> QED
    BY <1>1, <1>2, PTL DEF Spec

\* On every way out of Run, the directories that were made have been removed, or their
\* removal was tried: common.go 151-164 against each early return.
THEOREM DirectoriesAreRemoved == Spec => []TempDirsRemoved
<1>1. DirInv => TempDirsRemoved
      BY DEF DirInv, Scheduled, TempDirsRemoved, Later
<1> QED
    BY <1>1, DirAlways, PTL

\* A script never runs on a target without its directory: collectOnTarget is started for
\* the targets without an error only, and Run waits for every one of them.
THEOREM DirectoriesOutliveScripts == Spec => []ScriptsHaveTheirDirectory
<1>1. DirInv => ScriptsHaveTheirDirectory
      BY DEF DirInv
<1> QED
    BY <1>1, DirAlways, PTL

----------------------------------------------------------------------------
(* The scripts and the tables: a script that needs a kernel module needs   *)
(* elevated privileges, too, and the scripts that a table declares are all *)
(* defined.  Definitions are records of fields that may be in any set U.   *)

ScriptsOver(U) == [superuser : BOOLEAN, sequential : BOOLEAN,
                   lkms : U, archs : U, vendors : U, uarchs : U]

Elevated(def) == /\ \E U : def \in ScriptsOver(U)
                 /\ def.lkms # {} => def.superuser

\* f defines the scripts of names, and all that it defines are elevated.
Declares(f, names) == names \subseteq DOMAIN f /\ \A s \in DOMAIN f : Elevated(f[s])

LEMMA Widen ==
    ASSUME NEW U, NEW def \in ScriptsOver(U), NEW x
    PROVE  \E V : def \in ScriptsOver(V) /\ x \in V
<1>1. def \in ScriptsOver(U \cup {x})
      BY DEF ScriptsOver
<1> QED
    BY <1>1

LEMMA RestrictedTo ==
    ASSUME NEW U, NEW def \in ScriptsOver(U), NEW x \in U
    PROVE  /\ OnUarchs(def, x) \in ScriptsOver(U)
           /\ OnUarchs(def, x).lkms = def.lkms /\ OnUarchs(def, x).superuser = def.superuser
BY DEF OnUarchs, ScriptsOver

LEMMA OfKind ==
    ASSUME NEW U, NEW def \in ScriptsOver(U), NEW x \in U
    PROVE
      /\ InTurn(def) \in ScriptsOver(U)
      /\ InTurn(def).lkms = def.lkms /\ InTurn(def).superuser = def.superuser
      /\ x = {X86} => /\ OnX86(def) \in ScriptsOver(U)
                      /\ OnX86(def).lkms = def.lkms /\ OnX86(def).superuser = def.superuser
      /\ x = {Intel} => /\ OnIntel(def) \in ScriptsOver(U)
                        /\ OnIntel(def).lkms = def.lkms
                        /\ OnIntel(def).superuser = def.superuser
BY DEF InTurn, OnX86, OnIntel, ScriptsOver

\* A restriction of the processors or of the order leaves a script elevated.
LEMMA KindsElevated ==
    ASSUME NEW def, Elevated(def)
    PROVE  /\ \A x : Elevated(OnUarchs(def, x))
           /\ Elevated(OnX86(def)) /\ Elevated(OnIntel(def)) /\ Elevated(InTurn(def))
<1>1. \A x : \E U : def \in ScriptsOver(U) /\ x \in U
      BY Widen, Zenon DEF Elevated
<1>2. def.lkms # {} => def.superuser
      BY DEF Elevated
<1>3. ASSUME NEW x PROVE Elevated(OnUarchs(def, x))
  <2>1. PICK U : def \in ScriptsOver(U) /\ x \in U
        BY <1>1
  <2>2. /\ OnUarchs(def, x) \in ScriptsOver(U)
        /\ OnUarchs(def, x).lkms = def.lkms /\ OnUarchs(def, x).superuser = def.superuser
        BY <2>1, RestrictedTo
  <2>3. OnUarchs(def, x).lkms # {} => OnUarchs(def, x).superuser
        BY <1>2, <2>2
  <2> QED
      BY <2>2, <2>3, Zenon DEF Elevated
<1>4. Elevated(OnX86(def))
  <2>1. PICK U : def \in ScriptsOver(U) /\ {X86} \in U
        BY <1>1
  <2>2. /\ OnX86(def) \in ScriptsOver(U)
        /\ OnX86(def).lkms = def.lkms /\ OnX86(def).superuser = def.superuser
        BY <2>1, OfKind
  <2>3. OnX86(def).lkms # {} => OnX86(def).superuser
        BY <1>2, <2>2
  <2> QED
      BY <2>2, <2>3, Zenon DEF Elevated
<1>5. Elevated(OnIntel(def)) /\ Elevated(InTurn(def))
  <2>1. PICK U : def \in ScriptsOver(U) /\ {Intel} \in U
        BY <1>1
  <2>2. /\ OnIntel(def) \in ScriptsOver(U) /\ InTurn(def) \in ScriptsOver(U)
        /\ OnIntel(def).lkms = def.lkms /\ OnIntel(def).superuser = def.superuser
        /\ InTurn(def).lkms = def.lkms /\ InTurn(def).superuser = def.superuser
        BY <2>1, OfKind
  <2>3. /\ OnIntel(def).lkms # {} => OnIntel(def).superuser
        /\ InTurn(def).lkms # {} => InTurn(def).superuser
        BY <1>2, <2>2
  <2> QED
      BY <2>2, <2>3, Zenon DEF Elevated
<1> QED
    BY <1>3, <1>4, <1>5

LEMMA Privileged ==
    ASSUME NEW U, NEW def \in ScriptsOver(U), def.lkms = {}, NEW x \in U,
           NEW root, root = [def EXCEPT !.superuser = TRUE]
    PROVE  /\ root \in ScriptsOver(U) /\ root.superuser
           /\ With(root, x) \in ScriptsOver(U) /\ With(root, x).superuser
BY DEF With, ScriptsOver

LEMMA BasicElevated ==
    Elevated(Plain) /\ Elevated(Root) /\ \A x : Elevated(With(Root, x))
<1>1. Plain \in ScriptsOver({{}}) /\ Plain.lkms = {}
      BY DEF Plain, ScriptsOver
<1>2. Elevated(Plain)
      BY <1>1, Zenon DEF Elevated
<1>3. ASSUME NEW x PROVE Elevated(Root) /\ Elevated(With(Root, x))
  <2>1. PICK U : Plain \in ScriptsOver(U) /\ x \in U
        BY <1>1, Widen, Zenon
  <2>2. /\ Root \in ScriptsOver(U) /\ Root.superuser
        /\ With(Root, x) \in ScriptsOver(U) /\ With(Root, x).superuser
        BY <1>1, <2>1, Privileged, Zenon DEF Root
  <2> QED
      BY <2>2, Zenon DEF Elevated
<1> QED
    BY <1>2, <1>3, Zenon

LEMMA AllDeclares ==
    ASSUME NEW names, NEW def, Elevated(def)
    PROVE  Declares(All(names, def), names)
BY DEF All, Declares

LEMMA Joined ==
    ASSUME NEW f, NEW g
    PROVE  \E h : /\ f ++ g = h /\ DOMAIN h = DOMAIN f \cup DOMAIN g
                  /\ \A s \in DOMAIN f : h[s] = f[s]
                  /\ \A s \in DOMAIN g \ DOMAIN f : h[s] = g[s]
<1>1. f ++ g = Join(f, g)
      BY Zenon DEF ++
<1>2. /\ DOMAIN Join(f, g) = DOMAIN f \cup DOMAIN g
      /\ \A s \in DOMAIN f : Join(f, g)[s] = f[s]
      /\ \A s \in DOMAIN g \ DOMAIN f : Join(f, g)[s] = g[s]
      BY DEF Join
<1> QED
    BY <1>1, <1>2, Zenon

LEMMA JoinDeclares ==
    ASSUME NEW f, NEW g, NEW m, NEW n, Declares(f, m), Declares(g, n)
    PROVE  Declares(f ++ g, m \cup n)
<1>1. PICK h : /\ f ++ g = h /\ DOMAIN h = DOMAIN f \cup DOMAIN g
               /\ \A s \in DOMAIN f : h[s] = f[s]
               /\ \A s \in DOMAIN g \ DOMAIN f : h[s] = g[s]
      BY Joined, Zenon
<1>2. m \cup n \subseteq DOMAIN h
      BY <1>1 DEF Declares
<1>3. ASSUME NEW s \in DOMAIN h PROVE Elevated(h[s])
  <2>1. CASE s \in DOMAIN f
        BY <1>1, <2>1, Zenon DEF Declares
  <2>2. CASE s \in DOMAIN g \ DOMAIN f
        BY <1>1, <2>2, Zenon DEF Declares
  <2> QED
      BY <1>1, <2>1, <2>2
<1> QED
    BY <1>1, <1>2, <1>3, Zenon DEF Declares

LEMMA SixDeclare ==
    ASSUME NEW a, NEW b, NEW c, NEW d, NEW e, NEW f,
           NEW da, NEW db, NEW dc, NEW dd, NEW de, NEW df,
           Elevated(da), Elevated(db), Elevated(dc), Elevated(dd), Elevated(de), Elevated(df)
    PROVE  Declares(All(a, da) ++ All(b, db) ++ All(c, dc) ++ All(d, dd) ++ All(e, de)
                    ++ All(f, df), a \cup b \cup c \cup d \cup e \cup f)
BY AllDeclares, JoinDeclares, Zenon

LEMMA EightDeclare ==
    ASSUME NEW a, NEW b, NEW c, NEW d, NEW e, NEW f, NEW g, NEW h,
           NEW da, NEW db, NEW dc, NEW dd, NEW de, NEW df, NEW dg, NEW dh,
           Elevated(da), Elevated(db), Elevated(dc), Elevated(dd), Elevated(de), Elevated(df),
           Elevated(dg), Elevated(dh)
    PROVE  Declares(All(a, da) ++ All(b, db) ++ All(c, dc) ++ All(d, dd) ++ All(e, de)
                    ++ All(f, df) ++ All(g, dg) ++ All(h, dh),
                    a \cup b \cup c \cup d \cup e \cup f \cup g \cup h)
<1>1. Declares(All(a, da) ++ All(b, db) ++ All(c, dc) ++ All(d, dd) ++ All(e, de)
               ++ All(f, df), a \cup b \cup c \cup d \cup e \cup f)
      BY SixDeclare
<1>2. Declares(All(g, dg), g) /\ Declares(All(h, dh), h)
      BY AllDeclares
<1> QED
    BY <1>1, <1>2, JoinDeclares, Zenon

\* The kinds of scripts that occur.
LEMMA UsedElevated ==
    /\ Elevated(Plain) /\ Elevated(Root) /\ Elevated(Msr) /\ Elevated(IntelMsr)
    /\ \A x : /\ Elevated(With(Root, x)) /\ Elevated(OnUarchs(Plain, x))
              /\ Elevated(OnUarchs(Root, x)) /\ Elevated(OnUarchs(IntelMsr, x))
    /\ Elevated(OnIntel(Plain)) /\ Elevated(OnIntel(Root))
    /\ Elevated(InTurn(Plain)) /\ Elevated(InTurn(Root)) /\ Elevated(InTurn(Msr))
    /\ Elevated(OnX86(Msr)) /\ Elevated(OnX86(InTurn(Msr)))
BY KindsElevated, BasicElevated, Zenon DEF Msr, IntelMsr

(* The names of the scripts, group by group.                               *)
hostNames == {"Hostname", "Date", "Lscpu", "LscpuCache", "LspciVmm", "Uname", "ProcCmdline",
    "ProcCpuinfo", "EtcRelease", "GccVersion", "BinutilsVersion", "GlibcVersion", "PythonVersion",
    "Python3Version", "JavaVersion", "OpensslVersion", "BaseFrequency", "MaximumFrequency",
    "ScalingDriver", "ScalingGovernor", "Cstates"} \cup {"Dmidecode", "Sysctl"} \cup {"LspciBits"}
    \cup {"LspciDevices"} \cup {"Cpuid"} \cup {"C1Demotion"}
msrNames == {"SpecCoreFrequencies", "PPIN", "PrefetchControl", "Prefetchers", "L3CacheWayEnabled",
    "PackagePowerLimit", "EpbSource", "Epb", "EppValid", "EppPackageControl"} \cup
    {"PrefetchersAtom"}
powerNames == {"Epp", "EppPackage", "UncoreMaxFromMSR", "UncoreMinFromMSR"} \cup
    {"UncoreMaxFromTPMI", "UncoreMinFromTPMI", "UncoreDieTypesFromTPMI", "Elc"}
sstNames == {"SSTTFHP", "SSTTFLP"} \cup {"ChaCount"}
deviceNames == {"IaaDevices", "DsaDevices", "Meminfo", "TransparentHugePages", "NumaBalancing",
    "IRQBalance", "DiskInfo"} \cup {"Lshw", "NicInfo", "Hdparm"}
statusNames == {"Df"} \cup {"ProcessList"} \cup {"Cve"} \cup {"FindMnt", "IpmitoolSensors",
    "IpmitoolChassis", "Tme", "KernelLog"} \cup {"IpmitoolEvents"} \cup {"PMUDriverVersion"} \cup
    {"PMUBusy"} \cup {"GaudiInfo", "GaudiFirmware", "GaudiNuma", "GaudiArchitecture"}
benchmarkNames == {"MemoryBenchmark", "NumaBenchmark"} \cup {"SpeedBenchmark"} \cup
    {"FrequencyBenchmark"}
powerBenchmarkNames == {"PowerBenchmark", "IdlePowerBenchmark"} \cup {"StorageBenchmark"} \cup
    {"MpstatTelemetry", "IostatTelemetry", "MemoryTelemetry", "NetworkTelemetry"}
telemetryNames == {"TurbostatTelemetry"} \cup {"InstructionTelemetry"} \cup {"GaudiTelemetry"}
    \cup {"PDUTelemetry"}
callStackNames == {"CollapsedCallStacks"}
lockNames == {"ProfileKernelLock"}

ScriptName == hostNames \cup msrNames \cup powerNames \cup sstNames \cup deviceNames
    \cup statusNames \cup benchmarkNames \cup powerBenchmarkNames \cup telemetryNames
    \cup callStackNames \cup lockNames

LEMMA HostScripts == Declares(hostScripts, hostNames)
BY UsedElevated, SixDeclare, ZenonT(60)
   DEF hostScripts, hostNames

LEMMA MsrScripts == Declares(msrScripts, msrNames)
BY UsedElevated, AllDeclares, JoinDeclares, ZenonT(60)
   DEF msrScripts, msrNames

LEMMA PowerScripts == Declares(powerScripts, powerNames)
BY UsedElevated, AllDeclares, JoinDeclares, ZenonT(60)
   DEF powerScripts, powerNames

LEMMA SstScripts == Declares(sstScripts, sstNames)
BY UsedElevated, AllDeclares, JoinDeclares, ZenonT(60)
   DEF sstScripts, sstNames

LEMMA DeviceScripts == Declares(deviceScripts, deviceNames)
BY UsedElevated, AllDeclares, JoinDeclares, ZenonT(60)
   DEF deviceScripts, deviceNames

LEMMA StatusScripts == Declares(statusScripts, statusNames)
BY UsedElevated, EightDeclare, ZenonT(60)
   DEF statusScripts, statusNames

LEMMA BenchmarkScripts == Declares(benchmarkScripts, benchmarkNames)
BY UsedElevated, AllDeclares, JoinDeclares, ZenonT(60)
   DEF benchmarkScripts, benchmarkNames

LEMMA PowerBenchmarkScripts == Declares(powerBenchmarkScripts, powerBenchmarkNames)
BY UsedElevated, AllDeclares, JoinDeclares, ZenonT(60)
   DEF powerBenchmarkScripts, powerBenchmarkNames

LEMMA TelemetryScripts == Declares(telemetryScripts, telemetryNames)
BY UsedElevated, AllDeclares, JoinDeclares, ZenonT(60)
   DEF telemetryScripts, telemetryNames

LEMMA CallStackScripts == Declares(callStackScripts, callStackNames)
BY UsedElevated, AllDeclares, JoinDeclares, ZenonT(60)
   DEF callStackScripts, callStackNames

LEMMA LockScripts == Declares(lockScripts, lockNames)
BY UsedElevated, AllDeclares, JoinDeclares, ZenonT(60)
   DEF lockScripts, lockNames

LEMMA AllScripts == Declares(scriptDefinitions, ScriptName)
<1>1. Declares(hostScripts ++ msrScripts ++ powerScripts ++ sstScripts ++ deviceScripts,
               hostNames \cup msrNames \cup powerNames \cup sstNames \cup deviceNames)
      BY HostScripts, MsrScripts, PowerScripts, SstScripts, DeviceScripts, JoinDeclares,
         ZenonT(60)
<1>2. Declares(hostScripts ++ msrScripts ++ powerScripts ++ sstScripts ++ deviceScripts
               ++ statusScripts ++ benchmarkScripts ++ powerBenchmarkScripts,
               hostNames \cup msrNames \cup powerNames \cup sstNames \cup deviceNames
               \cup statusNames \cup benchmarkNames \cup powerBenchmarkNames)
      BY <1>1, StatusScripts, BenchmarkScripts, PowerBenchmarkScripts, JoinDeclares,
         ZenonT(60)
<1> QED
    BY <1>2, TelemetryScripts, CallStackScripts, LockScripts, JoinDeclares, ZenonT(60)
       DEF scriptDefinitions, ScriptName

\* The tables of f declare scripts that are defined.
OfScripts(f) == \A t \in DOMAIN f : f[t].scripts \subseteq ScriptName

LEMMA JoinOfScripts ==
    ASSUME NEW f, NEW g, OfScripts(f), OfScripts(g)
    PROVE  OfScripts(f ++ g)
<1>1. PICK h : /\ f ++ g = h /\ DOMAIN h = DOMAIN f \cup DOMAIN g
               /\ \A s \in DOMAIN f : h[s] = f[s]
               /\ \A s \in DOMAIN g \ DOMAIN f : h[s] = g[s]
      BY Joined, Zenon
<1>2. ASSUME NEW t \in DOMAIN h PROVE h[t].scripts \subseteq ScriptName
  <2>1. CASE t \in DOMAIN f
        BY <1>1, <2>1, Zenon DEF OfScripts
  <2>2. CASE t \in DOMAIN g \ DOMAIN f
        BY <1>1, <2>2, Zenon DEF OfScripts
  <2> QED
      BY <1>1, <2>1, <2>2
<1> QED
    BY <1>1, <1>2, Zenon DEF OfScripts

\* Two restrictions of a table, as Accelerator has.
LEMMA RestrictedTable ==
    ASSUME NEW scripts, NEW reads, NEW uarchs
    PROVE  OnUarchs(OnIntel(Table(scripts, reads)), uarchs).scripts = scripts
<1>1. PICK table : table = OnIntel(Table(scripts, reads))
      OBVIOUS
<1>2. table = [scripts |-> scripts, reads |-> reads,
               archs |-> {}, vendors |-> {Intel}, uarchs |-> {}]
      BY <1>1 DEF OnIntel, Table
<1>3. OnUarchs(table, uarchs).scripts = scripts
      BY <1>2 DEF OnUarchs
<1> QED
    BY <1>1, <1>3, Zenon

LEMMA HostTables == OfScripts(hostTables)
<1> USE DEF ScriptName, hostNames, msrNames, powerNames, deviceNames
<1>1. \A t \in DOMAIN hostTables : t # "Accelerator" => hostTables[t].scripts \subseteq ScriptName
      BY DEF hostTables, Table, OnIntel, OnX86
<1> DEFINE lists == {"Lshw", "IaaDevices", "DsaDevices"}
<1> DEFINE uarchs == {"SPR", "EMR", "GNR", "SRF", "CWF", "DMR"}
<1>2. hostTables["Accelerator"] = OnUarchs(OnIntel(Table(lists, acceleratorTableValues)), uarchs)
      BY DEF hostTables, Table, OnIntel, OnX86
<1>3. OnUarchs(OnIntel(Table(lists, acceleratorTableValues)), uarchs).scripts = lists
  <2> HIDE DEF lists, uarchs
  <2> QED
      BY RestrictedTable
<1>4. hostTables["Accelerator"].scripts = lists
      BY <1>2, <1>3, Zenon
<1> QED
    BY <1>1, <1>4 DEF OfScripts

LEMMA AllTables == OfScripts(tableDefinitions)
<1> USE DEF OfScripts, Table, OnIntel, OnX86, OnUarchs, ScriptName, hostNames, deviceNames,
        statusNames, msrNames, powerNames, sstNames, benchmarkNames, powerBenchmarkNames,
        telemetryNames, callStackNames, lockNames
<1>1. OfScripts(memoryTables)
      BY DEF memoryTables
<1>2. OfScripts(networkTables) /\ OfScripts(deviceTables)
  <2>1. OfScripts(networkTables)
        BY DEF networkTables
  <2> QED
      BY <2>1 DEF deviceTables
<1>3. OfScripts(summaryTables)
      BY DEF summaryTables
<1>4. OfScripts(benchmarkTables)
      BY DEF benchmarkTables
<1>5. OfScripts(telemetryTables)
      BY DEF telemetryTables
<1>6. OfScripts(moreTelemetryTables)
      BY DEF moreTelemetryTables
<1> HIDE DEF OfScripts
<1>7. OfScripts(hostTables ++ memoryTables ++ networkTables ++ deviceTables)
      BY <1>1, <1>2, HostTables, JoinOfScripts, Zenon
<1> QED
    BY <1>3, <1>4, <1>5, <1>6, <1>7, JoinOfScripts, Zenon DEF tableDefinitions

\* The scripts that a user without elevated privileges runs on a target need no module.
LEMMA NoLkmsWithoutPrivileges ==
    ASSUME NEW t \in Target
    PROVE  LkmsToInstall(TargetScripts[t][FALSE]) = {}
<1> DEFINE names == ScriptNames(TargetTables[t])
           run == ScriptsToRun(names, GetCPU(CpuOf[t]), FALSE)
<1>1. names \subseteq ScriptName
  <2>1. TargetTables[t] \subseteq DOMAIN tableDefinitions
        BY ReportingAssumption DEF TargetTables, TablesFor
  <2> QED
      BY <2>1, AllTables DEF OfScripts, ScriptNames
<1>2. \A s \in ScriptName : scriptDefinitions[s].lkms # {} => scriptDefinitions[s].superuser
      BY AllScripts DEF Declares, Elevated
<1>3. TargetScripts[t][FALSE] = run
      BY DEF TargetScripts
<1> HIDE DEF names
<1>4. \A s \in run : s \in names /\ ~scriptDefinitions[s].superuser
      BY DEF ScriptsToRun
<1>5. \A s \in run : scriptDefinitions[s].lkms = {}
      BY <1>1, <1>2, <1>4
<1> QED
    BY <1>3, <1>5 DEF LkmsToInstall

----------------------------------------------------------------------------
(* The kernel modules, and why the data of a target is lost.               *)

LkmTypes ==
    /\ canElevate \in [Target -> BOOLEAN] /\ runErr \in [Target -> BOOLEAN]
    /\ installed = [t \in Target |-> installed[t]] /\ loaded = [t \in Target |-> loaded[t]]

(* A module that RunScripts has installed was not loaded before; until its *)
(* modprobe, and after it has unloaded them, RunScripts has installed none.*)
(* Where no modprobe has failed, the modules loaded are those from before  *)
(* and those installed.                                                    *)
LkmsKnown(t) ==
    /\ installed[t] \cap hadLkms[t] = {} /\ hadLkms[t] \subseteq loaded[t]
    /\ phase[t] \notin {"parallel", "sequential", "unload"} => installed[t] = {}
    /\ phase[t] \in {"idle", "prepare", "modprobe"} => loaded[t] = hadLkms[t]
    /\ t \notin lkmHit => loaded[t] = hadLkms[t] \cup installed[t]

ErrorKnown(t) == runErr[t] => t \in hit

LkmInv == LkmTypes /\ \A t \in Target : LkmsKnown(t) /\ ErrorKnown(t)

LEMMA LkmInit == Init => LkmInv
<1> SUFFICES ASSUME Init PROVE LkmInv
    OBVIOUS
<1>1. LkmTypes
      BY DEF Init, LkmTypes
<1>2. \A t \in Target : LkmsKnown(t) /\ ErrorKnown(t)
      BY DEF Init, LkmsKnown, ErrorKnown
<1> QED
    BY <1>1, <1>2 DEF LkmInv

\* A step of the goroutine of one target leaves the others' modules and errors alone.
LEMMA LkmOthers ==
    ASSUME NEW t \in Target, Collect(t), DirTypes, LkmTypes,
           NEW u \in Target, u # t, LkmsKnown(u), ErrorKnown(u)
    PROVE  LkmsKnown(u)' /\ ErrorKnown(u)'
<1> USE DEF LkmTypes, DirTypes, RunVars, lkmVars, fixed, Goes, Fails
<1>1. /\ installed'[u] = installed[u] /\ loaded'[u] = loaded[u] /\ phase'[u] = phase[u]
      /\ hadLkms' = hadLkms /\ runErr'[u] = runErr[u]
  <2>1. CASE PrepareTarget(t)
        BY <2>1 DEF PrepareTarget
  <2>2. CASE InstallLkms(t)
        BY <2>2 DEF InstallLkms
  <2>3. CASE RunParallelScripts(t)
        BY <2>3 DEF RunParallelScripts
  <2>4. CASE RunSequentialScripts(t)
        BY <2>4 DEF RunSequentialScripts
  <2>5. CASE UninstallLkms(t)
        BY <2>5 DEF UninstallLkms
  <2> QED
      BY <2>1, <2>2, <2>3, <2>4, <2>5 DEF Collect
<1>2. (u \in lkmHit' <=> u \in lkmHit) /\ (u \in hit => u \in hit')
  <2>1. lkmHit' = lkmHit \/ lkmHit' = lkmHit \cup {t}
        BY DEF Collect, PrepareTarget, InstallLkms, RunParallelScripts,
           RunSequentialScripts, UninstallLkms
  <2>2. hit' = hit \/ hit' = hit \cup {t}
        BY DEF Collect, PrepareTarget, InstallLkms, RunParallelScripts,
           RunSequentialScripts, UninstallLkms
  <2> QED
      BY <2>1, <2>2
<1> QED
    BY <1>1, <1>2 DEF LkmsKnown, ErrorKnown

LEMMA LkmOwn ==
    ASSUME NEW t \in Target, Collect(t), DirTypes, LkmTypes, LkmsKnown(t), ErrorKnown(t)
    PROVE  LkmsKnown(t)' /\ ErrorKnown(t)'
<1> USE DEF LkmTypes, DirTypes, RunVars, lkmVars, fixed, Goes, Fails, LkmsKnown, ErrorKnown
<1>1. CASE PrepareTarget(t)
      BY <1>1 DEF PrepareTarget
<1>2. CASE InstallLkms(t)
  <2> DEFINE needed == LkmsToInstall(Scripts(t))
  <2>1. needed = {} \/ canElevate[t]
    <3>1. CASE ~canElevate[t]
          BY <3>1, NoLkmsWithoutPrivileges DEF Scripts
    <3> QED
        BY <3>1
  <2> DEFINE new == needed \ loaded[t]
  <2>2. phase[t] = "modprobe" /\ phase'[t] = "parallel" /\ runErr' = runErr
        /\ hit' = hit /\ hadLkms' = hadLkms
        BY <1>2, <2>1 DEF InstallLkms
  <2>3. PICK failed \in SUBSET (new \cap UnreliableLkms) : \E effect \in SUBSET failed :
          /\ installed' = [installed EXCEPT ![t] = new \ failed]
          /\ loaded' = [loaded EXCEPT ![t] = @ \cup (new \ failed) \cup effect]
          /\ lkmHit' = IF failed = {} THEN lkmHit ELSE lkmHit \cup {t}
        BY <1>2, <2>1 DEF InstallLkms
  <2>4. PICK effect \in SUBSET failed :
          /\ installed' = [installed EXCEPT ![t] = new \ failed]
          /\ loaded' = [loaded EXCEPT ![t] = @ \cup (new \ failed) \cup effect]
          /\ lkmHit' = IF failed = {} THEN lkmHit ELSE lkmHit \cup {t}
        BY <2>3
  <2> HIDE DEF needed
  <2>5. installed'[t] = new \ failed /\ loaded'[t] = loaded[t] \cup (new \ failed) \cup effect
        BY <2>4
  <2>6. loaded[t] = hadLkms[t]
        BY <2>2
  <2>7. t \notin lkmHit' => failed = {} /\ effect = {}
        BY <2>4
  <2> QED
      BY <2>2, <2>5, <2>6, <2>7
<1>3. CASE RunParallelScripts(t)
      BY <1>3 DEF RunParallelScripts
<1>4. CASE RunSequentialScripts(t)
      BY <1>4 DEF RunSequentialScripts
<1>5. CASE UninstallLkms(t)
  <2>1. /\ phase[t] = "unload" /\ phase'[t] = "send" /\ runErr' = runErr
        /\ hit' = hit /\ hadLkms' = hadLkms /\ installed'[t] = {}
        BY <1>5 DEF UninstallLkms
  <2>2. PICK failed \in SUBSET (installed[t] \cap UnreliableLkms) :
          /\ loaded' = [loaded EXCEPT ![t] = @ \ (installed[t] \ failed)]
          /\ lkmHit' = IF failed = {} THEN lkmHit ELSE lkmHit \cup {t}
        BY <1>5 DEF UninstallLkms
  <2>3. loaded'[t] = loaded[t] \ (installed[t] \ failed)
        BY <2>2
  <2>4. t \notin lkmHit' => failed = {} /\ t \notin lkmHit
        BY <2>2
  <2> QED
      BY <2>1, <2>3, <2>4
<1> QED
    BY <1>1, <1>2, <1>3, <1>4, <1>5 DEF Collect

LEMMA LkmCollect ==
    ASSUME DirInv, LkmInv, NEW t \in Target, Collect(t)
    PROVE  LkmInv'
<1>1. DirTypes /\ LkmTypes
      BY DEF DirInv, LkmInv
<1>2. LkmTypes'
  <2> USE DEF RunVars, lkmVars, fixed, Goes, Fails, LkmTypes
  <2>1. CASE PrepareTarget(t)
        BY <1>1, <2>1 DEF PrepareTarget
  <2>2. CASE InstallLkms(t)
        BY <1>1, <2>2 DEF InstallLkms
  <2>3. CASE RunParallelScripts(t)
        BY <1>1, <2>3 DEF RunParallelScripts
  <2>4. CASE RunSequentialScripts(t)
        BY <1>1, <2>4 DEF RunSequentialScripts
  <2>5. CASE UninstallLkms(t)
        BY <1>1, <2>5 DEF UninstallLkms
  <2> QED
      BY <2>1, <2>2, <2>3, <2>4, <2>5 DEF Collect
<1>3. \A u \in Target : LkmsKnown(u)' /\ ErrorKnown(u)'
      BY <1>1, LkmOthers, LkmOwn DEF LkmInv
<1> QED
    BY <1>2, <1>3 DEF LkmInv

\* Every other step leaves the modules alone; none of them makes a goroutine collect that
\* has not begun to.
LEMMA LkmRun ==
    ASSUME DirInv, LkmInv, Run \/ (\E i \in DOMAIN myTargets : PullDataFiles(i))
                           \/ UNCHANGED vars
    PROVE  LkmInv'
<1> USE DEF targetVars, lkmVars, fixed, MainVars, Goes, Return, Continue
<1>1. UNCHANGED <<canElevate, hadLkms, runErr, lkmVars, hit>>
      BY DEF Run, ReadInput, GetTargets, CreateTempDirectory, StartCollecting, Receive,
         OrderOutputs, CreateOutputDir, CreateRawReport, RawReportsCreated, CreateReport,
         FinishReports, StartAdhoc, FinishAdhoc, RemoveTempDirectory, Exit, PullDataFiles,
         vars
<1>2. \A t \in Target :
        \/ phase'[t] = phase[t]
        \/ phase[t] = "idle" /\ phase'[t] = "prepare"
        \/ ~Collecting(t) /\ phase'[t] \in {"sent", "pull", "done"}
  <2> USE DEF DirInv, DirTypes
  <2>1. CASE StartCollecting
        BY <2>1 DEF StartCollecting, Prepared
  <2>2. CASE \E t \in Target : Receive(t)
        BY <2>2 DEF Receive, Collecting
  <2>3. CASE StartAdhoc
        BY <2>3 DEF StartAdhoc, NoneCollects, Later
  <2>4. CASE \E i \in DOMAIN myTargets : PullDataFiles(i)
        BY <2>4 DEF PullDataFiles, Collecting
  <2>5. CASE /\ ~StartCollecting /\ ~StartAdhoc /\ ~(\E t \in Target : Receive(t))
             /\ ~(\E i \in DOMAIN myTargets : PullDataFiles(i))
    <3>1. UNCHANGED phase
          BY <2>5 DEF Run, ReadInput, GetTargets, CreateTempDirectory, OrderOutputs,
             CreateOutputDir, CreateRawReport, RawReportsCreated, CreateReport,
             FinishReports, FinishAdhoc, RemoveTempDirectory, Exit, vars
    <3> QED
        BY <3>1
  <2> QED
      BY <2>1, <2>2, <2>3, <2>4, <2>5
<1>3. LkmTypes'
      BY <1>1 DEF LkmInv, LkmTypes
<1>4. \A t \in Target : LkmsKnown(t)' /\ ErrorKnown(t)'
      BY <1>1, <1>2 DEF LkmInv, LkmsKnown, ErrorKnown, Collecting
<1> QED
    BY <1>3, <1>4 DEF LkmInv

LEMMA LkmAlways == Spec => []LkmInv
<1>1. DirInv /\ LkmInv /\ [Next]_vars => LkmInv'
      BY LkmCollect, LkmRun DEF Next
<1> QED
    BY <1>1, LkmInit, DirAlways, PTL DEF Spec

\* When Run returns, the kernel modules of a target on which every modprobe worked are
\* those from before, whatever else has failed: each goroutine has run its deferred
\* function by then.
THEOREM LkmsAreRestored == Spec => []LkmsAsBefore
<1>1. DirInv /\ LkmInv => LkmsAsBefore
      BY DEF DirInv, LkmInv, LkmsAsBefore, LkmsKnown, NoneCollects, Later, Collecting
<1> QED
    BY <1>1, DirAlways, LkmAlways, PTL

\* A module that was loaded before the command is never unloaded, although modprobe fails.
THEOREM LoadedLkmsStay == Spec => [](\A t \in Target : hadLkms[t] \subseteq loaded[t])
<1>1. LkmInv => \A t \in Target : hadLkms[t] \subseteq loaded[t]
      BY DEF LkmInv, LkmsKnown
<1> QED
    BY <1>1, LkmAlways, PTL

\* RunScripts returns an error only after a failed command: the error for a user without
\* elevated privileges never occurs, because of what the scripts of the tables require.
THEOREM FailuresHaveCauses == Spec => []FailureHasCause
<1>1. LkmInv => FailureHasCause
      BY DEF LkmInv, ErrorKnown, FailureHasCause
<1> QED
    BY <1>1, LkmAlways, PTL

----------------------------------------------------------------------------
(* The outputs in the order of the targets.                                *)

\* One sequence is ascending in a finite set: the lemmas show that there is one and that
\* all elements are in it.
LEMMA AscendingIsSome ==
    ASSUME NEW S \in SUBSET Nat, IsFiniteSet(S)
    PROVE  Ascending(S) # {}
<1> DEFINE n == Cardinality(S)
           Below(x) == {y \in S : y <= x}
           rank == [x \in S |-> Cardinality(Below(x))]
           s == [i \in 1..n |-> CHOOSE x \in S : rank[x] = i]
<1>1. n \in Nat
      BY FS_CardinalityType
<1>2. \A x \in S : /\ IsFiniteSet(Below(x)) /\ Cardinality(Below(x)) \in 1..n
  <2> SUFFICES ASSUME NEW x \in S
               PROVE  IsFiniteSet(Below(x)) /\ Cardinality(Below(x)) \in 1..n
      OBVIOUS
  <2>1. Below(x) \in SUBSET S
        OBVIOUS
  <2>2. IsFiniteSet(Below(x)) /\ Cardinality(Below(x)) <= n
        BY <2>1, FS_Subset
  <2>3. Cardinality(Below(x)) \in Nat
        BY <2>2, FS_CardinalityType
  <2>4. x \in Below(x)
        OBVIOUS
  <2>5. Cardinality(Below(x)) # 0
        BY <2>2, <2>4, FS_EmptySet
  <2> HIDE DEF n, Below
  <2> QED
      BY <1>1, <2>2, <2>3, <2>5
<1>3. \A x, y \in S : x < y => rank[x] < rank[y]
  <2> SUFFICES ASSUME NEW x \in S, NEW y \in S, x < y
               PROVE  Cardinality(Below(x)) < Cardinality(Below(y))
      OBVIOUS
  <2>1. Below(x) \in SUBSET Below(y)
    <3>1. \A z \in S : z \in Nat
          OBVIOUS
    <3>2. \A z \in S : z <= x => z <= y
          BY <3>1
    <3> QED
        BY <3>2
  <2>2. y \in Below(y) /\ y \notin Below(x)
        OBVIOUS
  <2>3. IsFiniteSet(Below(y))
        BY <1>2
  <2>4. /\ Cardinality(Below(x)) <= Cardinality(Below(y))
        /\ Cardinality(Below(y)) # Cardinality(Below(x))
        BY <2>1, <2>2, <2>3, FS_Subset
  <2>5. Cardinality(Below(x)) \in 1..n /\ Cardinality(Below(y)) \in 1..n
        BY <1>2
  <2> HIDE DEF n, Below
  <2> QED
      BY <1>1, <2>4, <2>5
<1>4. rank \in [S -> 1..n]
      BY <1>2
<1> HIDE DEF rank
<1>5. \A i \in 1..n : \E x \in S : rank[x] = i
  <2>1. \A x, y \in S : rank[x] = rank[y] => x = y
    <3> SUFFICES ASSUME NEW x \in S, NEW y \in S, rank[x] = rank[y] PROVE x = y
        OBVIOUS
    <3>1. rank[x] \in Nat /\ rank[y] \in Nat
          BY <1>1, <1>4
    <3>2. ~(x < y) /\ ~(y < x)
          BY <1>3, <3>1
    <3> QED
        BY <3>2
  <2>2. rank \in Injection(S, 1..n)
        BY <1>4, <2>1 DEF Injection, IsInjective
  <2>3. IsFiniteSet(1..n) /\ Cardinality(1..n) = n
        BY <1>1, FS_Interval
  <2>4. rank \in Surjection(S, 1..n)
        BY <2>2, <2>3, FS_Injection
  <2> QED
      BY <2>4 DEF Surjection
<1>6. \A i \in 1..n : s[i] \in S /\ rank[s[i]] = i
      BY <1>5
<1>7. \A i, j \in 1..n : i < j => s[i] < s[j]
  <2> HIDE DEF s, n
  <2> SUFFICES ASSUME NEW i \in 1..n, NEW j \in 1..n, i < j PROVE s[i] < s[j]
      OBVIOUS
  <2>1. s[i] \in Nat /\ s[j] \in Nat
        BY <1>6
  <2>2. ~(s[j] < s[i])
    <3>1. s[j] < s[i] => rank[s[j]] < rank[s[i]]
          BY <1>3, <1>6
    <3>2. rank[s[j]] = j /\ rank[s[i]] = i
          BY <1>6
    <3> QED
        BY <1>1, <3>1, <3>2
  <2>3. s[i] # s[j]
        BY <1>1, <1>6
  <2> QED
      BY <2>1, <2>2, <2>3
<1>8. s \in [1..n -> S]
      BY <1>6
<1> HIDE DEF s
<1>9. s \in Ascending(S)
      BY <1>7, <1>8 DEF Ascending
<1> QED
    BY <1>9

LEMMA AscendingIsAll ==
    ASSUME NEW S \in SUBSET Nat, IsFiniteSet(S), NEW s \in Ascending(S)
    PROVE  /\ Cardinality(S) \in Nat /\ s \in [1..Cardinality(S) -> S]
           /\ \A i, j \in DOMAIN s : i < j => s[i] < s[j]
           /\ {s[i] : i \in DOMAIN s} = S
<1> DEFINE n == Cardinality(S)
<1>1. n \in Nat
      BY FS_CardinalityType
<1>2. s \in [1..n -> S] /\ \A i, j \in 1..n : i < j => s[i] < s[j]
      BY DEF Ascending
<1> HIDE DEF n
<1>3. \A i, j \in 1..n : s[i] = s[j] => i = j
  <2> SUFFICES ASSUME NEW i \in 1..n, NEW j \in 1..n, s[i] = s[j] PROVE i = j
      OBVIOUS
  <2>1. s[i] \in Nat /\ s[j] \in Nat
        BY <1>2
  <2>2. ~(i < j) /\ ~(j < i)
        BY <1>2, <2>1
  <2> QED
      BY <1>1, <2>2
<1>4. s \in Injection(1..n, S)
      BY <1>2, <1>3 DEF Injection, IsInjective
<1>5. Cardinality(1..n) = n
      BY <1>1, FS_Interval
<1>6. s \in Surjection(1..n, S)
      BY <1>4, <1>5, FS_Injection DEF n
<1>7. {s[i] : i \in DOMAIN s} = S
      BY <1>2, <1>6 DEF Surjection
<1> QED
    BY <1>1, <1>2, <1>7 DEF n

LEMMA TargetsAreFinite ==
    /\ Target \in SUBSET Nat /\ 0 \notin Target
    /\ \A S \in SUBSET Target : S \in SUBSET Nat /\ IsFiniteSet(S)
<1>1. Target = 1..Len(CpuOf) /\ Len(CpuOf) \in Nat
      BY ReportingAssumption DEF Target
<1>2. IsFiniteSet(Target)
      BY <1>1, FS_Interval
<1>3. Target \in SUBSET Nat /\ 0 \notin Target
      BY <1>1
<1>4. \A S \in SUBSET Target : IsFiniteSet(S)
      BY <1>2, FS_Subset
<1> QED
    BY <1>3, <1>4

\* Where names differ and no target is received twice, the first outputs under the name of
\* a target are its own.
LEMMA FirstIsOwn ==
    ASSUME NEW t \in Target, name = [u \in Target |-> name[u]], NamesDiffer,
           received \in Seq(Target), IsInjective(received)
    PROVE  /\ FirstOf(t) # 0 <=> t \in ToSet(received)
           /\ FirstOf(t) # 0 => received[FirstOf(t)] = t
<1> DEFINE I == {i \in 1..Len(received) : name[received[i]] = name[t]}
<1>1. /\ DOMAIN received = 1..Len(received) /\ Len(received) \in Nat
      /\ \A i \in 1..Len(received) : received[i] \in Target
      OBVIOUS
<1>2. \A u \in Target : name[u] = name[t] => u = t
      BY DEF NamesDiffer, IsInjective
<1>3. I = {i \in 1..Len(received) : received[i] = t}
      BY <1>1, <1>2
<1>4. FirstOf(t) = IF I # {} THEN Min(I) ELSE 0
      BY DEF FirstOf, SelectInSeq
<1> HIDE DEF I
<1>5. CASE t \in ToSet(received)
  <2>1. PICK k \in 1..Len(received) : received[k] = t
        BY <1>1, <1>5 DEF ToSet
  <2>2. I = {k}
        BY <1>1, <1>3, <2>1 DEF IsInjective
  <2>3. Min(I) = k
        BY <1>1, <2>2 DEF Min
  <2> QED
      BY <1>1, <1>4, <1>5, <2>1, <2>2, <2>3
<1>6. CASE t \notin ToSet(received)
  <2>1. I = {}
        BY <1>1, <1>3, <1>6 DEF ToSet
  <2> QED
      BY <1>4, <1>6, <2>1
<1> QED
    BY <1>5, <1>6

(* Until Run leaves "wait" nothing is ordered; every target that remains   *)
(* is collected from, under a name of its own; and the outputs received    *)
(* are, once each, those of the goroutines that have sent some.            *)
Before == {"start", "tempdirs", "wait"}

OrderTypes ==
    /\ fromInput \in BOOLEAN /\ name = [t \in Target |-> name[t]]
    /\ received \in Seq(Target)

Waiting ==
    main = "wait" =>
      /\ NamesDiffer
      /\ ToSet(myTargets) = {t \in Target : ~targetErr[t]}
      /\ \A t \in Target : phase[t] = "idle" <=> targetErr[t]

Receiving ==
    main \in Before =>
      /\ ordered = <<>> /\ IsInjective(received)
      /\ \A t \in Target : t \in ToSet(received) <=> phase[t] = "sent" /\ ~runErr[t]

OrderInv == OrderTypes /\ Waiting /\ Receiving /\ OutputsInOrder

LEMMA OrderInit == Init => OrderInv
<1> SUFFICES ASSUME Init PROVE OrderInv
    OBVIOUS
<1>1. OrderTypes
  <2>1. fromInput \in BOOLEAN
        BY DEF Init
  <2>2. name = [t \in Target |-> name[t]]
        BY DEF Init
  <2> QED
      BY <2>1, <2>2 DEF Init, OrderTypes
<1>2. Waiting
      BY DEF Init, Waiting
<1>3. Receiving
      BY DEF Init, Receiving, IsInjective, ToSet
<1>4. OutputsInOrder
      BY DEF Init, OutputsInOrder
<1> QED
    BY <1>1, <1>2, <1>3, <1>4 DEF OrderInv

\* The steps of Run and of the adhoc functions past "wait".
LEMMA OrderKept ==
    ASSUME OrderInv, main' \notin Before,
           UNCHANGED <<fromInput, name, received, ordered, targetErr, runErr>>
    PROVE  OrderInv'
<1>1. OrderTypes' /\ OutputsInOrder'
      BY DEF OrderInv, OrderTypes, OutputsInOrder
<1>2. Waiting' /\ Receiving'
      BY DEF Waiting, Receiving, Before
<1> QED
    BY <1>1, <1>2 DEF OrderInv

LEMMA OrderReports ==
    ASSUME OrderInv,
           \/ CreateOutputDir \/ CreateRawReport \/ RawReportsCreated \/ CreateReport
           \/ FinishReports \/ StartAdhoc \/ FinishAdhoc \/ RemoveTempDirectory \/ Exit
           \/ \E i \in DOMAIN myTargets : PullDataFiles(i)
    PROVE  OrderInv'
<1> USE DEF MainVars, targetVars, lkmVars, outputVars, fileVars, fixed, Return, Continue
<1>1. main' \notin Before
      BY DEF CreateOutputDir, CreateRawReport, RawReportsCreated, CreateReport, FinishReports,
         StartAdhoc, FinishAdhoc, RemoveTempDirectory, Exit, PullDataFiles, Before
<1>2. UNCHANGED <<fromInput, name, received, ordered, targetErr, runErr>>
      BY DEF CreateOutputDir, CreateRawReport, RawReportsCreated, CreateReport, FinishReports,
         StartAdhoc, FinishAdhoc, RemoveTempDirectory, Exit, PullDataFiles
<1> QED
    BY <1>1, <1>2, OrderKept

\* Until the collection nothing has been sent and nothing is ordered.
LEMMA OrderStart ==
    ASSUME DirInv, OrderInv, ReadInput \/ GetTargets \/ CreateTempDirectory
    PROVE  OrderInv'
<1> USE DEF targetVars, outputVars, fixed, Return, Continue, Before
<1>1. /\ main \in {"start", "tempdirs"} /\ main' # "wait"
      /\ UNCHANGED <<fromInput, name, received, runErr, phase>>
      /\ fromInput \/ ordered' = ordered
      BY DEF ReadInput, GetTargets, CreateTempDirectory
<1>2. main' \in Before => ordered' = ordered
      BY DEF ReadInput, GetTargets, CreateTempDirectory
<1>3. OrderTypes' /\ Waiting'
      BY <1>1 DEF OrderInv, OrderTypes, Waiting
<1>4. Receiving'
      BY <1>1, <1>2 DEF OrderInv, Receiving
<1>5. OutputsInOrder'
      BY <1>1 DEF OrderInv, Receiving, OutputsInOrder
<1> QED
    BY <1>3, <1>4, <1>5 DEF OrderInv

LEMMA OrderStartCollecting ==
    ASSUME DirInv, OrderInv, StartCollecting
    PROVE  OrderInv'
<1> USE DEF targetVars, outputVars, fixed, Return, Continue, Before
<1>1. /\ main = "tempdirs" /\ main' # "start" /\ main' # "tempdirs"
      /\ UNCHANGED <<fromInput, name, received, ordered, runErr, targetErr>>
      BY DEF StartCollecting
<1>2. main' = "wait" =>
        /\ NamesDiffer
        /\ myTargets' \in Ascending({t \in Target : ~targetErr[t]})
        /\ phase' = [t \in Target |-> IF targetErr[t] THEN "idle" ELSE "prepare"]
      BY DEF StartCollecting
<1>3. \A t \in Target : phase[t] = "idle"
      BY <1>1 DEF DirInv, Prepared
<1>4. OrderTypes'
      BY <1>1 DEF OrderInv, OrderTypes
<1>5. Waiting'
  <2> SUFFICES ASSUME main' = "wait" PROVE Waiting'
      BY DEF Waiting
  <2> DEFINE S == {t \in Target : ~targetErr[t]}
  <2>1. S \in SUBSET Nat /\ IsFiniteSet(S)
        BY TargetsAreFinite
  <2>2. {myTargets'[i] : i \in DOMAIN myTargets'} = S
        BY <1>2, <2>1, AscendingIsAll
  <2>3. ToSet(myTargets)' = S
        BY <2>2 DEF ToSet
  <2>4. \A t \in Target : phase'[t] = "idle" <=> targetErr[t]
        BY <1>2
  <2>5. NamesDiffer'
        BY <1>1, <1>2 DEF NamesDiffer
  <2> QED
      BY <1>1, <2>3, <2>4, <2>5 DEF Waiting
<1>6. Receiving'
  <2>1. \A t \in Target : t \notin ToSet(received)
        BY <1>1, <1>3 DEF OrderInv, Receiving
  <2>2. main' = "wait" => \A t \in Target : phase'[t] # "sent"
        BY <1>2
  <2> QED
      BY <1>1, <2>1, <2>2 DEF OrderInv, Receiving, ToSet
<1>7. OutputsInOrder'
      BY <1>1 DEF OrderInv, Receiving, OutputsInOrder
<1> QED
    BY <1>4, <1>5, <1>6, <1>7 DEF OrderInv

\* A goroutine collects or sends its outputs in "wait" only.
LEMMA OrderCollect ==
    ASSUME DirInv, LkmInv, OrderInv, NEW t \in Target, Collect(t)
    PROVE  OrderInv'
<1> USE DEF RunVars, targetVars, outputVars, fixed, Before
<1>1. Collecting(t)
      BY DEF Collect, Collecting, PrepareTarget, InstallLkms, RunParallelScripts,
         RunSequentialScripts, UninstallLkms
<1>2. UNCHANGED <<main, fromInput, name, received, ordered, targetErr, myTargets>>
      BY DEF Collect, PrepareTarget, InstallLkms, RunParallelScripts, RunSequentialScripts,
         UninstallLkms
<1>3. main = "wait"
  <2>1. main \notin {"start", "tempdirs"}
        BY <1>1 DEF DirInv, Prepared, Collecting
  <2> QED
      BY <1>1, <2>1 DEF DirInv, DirTypes, NoneCollects
<1>4. \E next \in Phases \ {"idle", "sent"} : phase' = [phase EXCEPT ![t] = next]
      BY DEF Collect, PrepareTarget, InstallLkms, RunParallelScripts, RunSequentialScripts,
         UninstallLkms, Goes, Fails, Phases
<1>5. runErr' = runErr \/ runErr' = [runErr EXCEPT ![t] = TRUE]
      BY DEF Collect, PrepareTarget, InstallLkms, RunParallelScripts, RunSequentialScripts,
         UninstallLkms, Goes, Fails
<1>6. phase \in [Target -> Phases] /\ runErr \in [Target -> BOOLEAN]
      BY DEF DirInv, DirTypes, LkmInv, LkmTypes
<1>7. phase[t] \notin {"idle", "sent"} /\ phase'[t] \notin {"idle", "sent"}
      BY <1>1, <1>4, <1>6 DEF Collecting
<1>8. \A u \in Target : u # t => phase'[u] = phase[u] /\ runErr'[u] = runErr[u]
      BY <1>4, <1>5, <1>6
<1>9. OrderTypes' /\ Waiting'
      BY <1>2, <1>3, <1>7, <1>8 DEF OrderInv, OrderTypes, Waiting, NamesDiffer
<1>10. Receiving' /\ OutputsInOrder'
      BY <1>2, <1>3, <1>7, <1>8 DEF OrderInv, Receiving, OutputsInOrder
<1> QED
    BY <1>9, <1>10 DEF OrderInv

LEMMA OrderReceive ==
    ASSUME DirInv, OrderInv, NEW t \in Target, Receive(t)
    PROVE  OrderInv'
<1> USE DEF targetVars, fixed, Before
<1>1. /\ main = "wait" /\ phase[t] = "send" /\ phase' = [phase EXCEPT ![t] = "sent"]
      /\ received' = IF runErr[t] THEN received ELSE Append(received, t)
      /\ UNCHANGED <<main, fromInput, name, ordered, targetErr, myTargets, runErr>>
      BY DEF Receive
<1>2. /\ phase \in [Target -> Phases] /\ received \in Seq(Target)
      /\ IsInjective(received) /\ ordered = <<>>
      /\ \A u \in Target : u \in ToSet(received) <=> phase[u] = "sent" /\ ~runErr[u]
      BY <1>1 DEF DirInv, DirTypes, OrderInv, OrderTypes, Receiving
<1>3. phase'[t] = "sent" /\ \A u \in Target : u # t => phase'[u] = phase[u]
      BY <1>1, <1>2
<1>4. OrderTypes' /\ Waiting'
      BY <1>1, <1>2, <1>3 DEF OrderInv, OrderTypes, Waiting, NamesDiffer
<1>5. Receiving'
  <2>1. CASE runErr[t]
        BY <2>1, <1>1, <1>2, <1>3 DEF Receiving
  <2>2. CASE ~runErr[t]
    <3> DEFINE n == Len(received)
    <3>1. /\ n \in Nat /\ DOMAIN received = 1..n /\ DOMAIN received' = 1..(n + 1)
          /\ received'[n + 1] = t /\ \A i \in 1..n : received'[i] = received[i]
          BY <1>1, <1>2, <2>2
    <3>2. \A i \in 1..n : received[i] # t
          BY <1>1, <1>2, <3>1 DEF ToSet
    <3> HIDE DEF n
    <3>3. IsInjective(received')
      <4>1. \A i \in 1..(n + 1) : i \in 1..n \/ i = n + 1
            BY <3>1
      <4> QED
          BY <1>2, <3>1, <3>2, <4>1 DEF IsInjective
    <3>4. ToSet(received') = ToSet(received) \cup {t}
      <4>1. \A i \in 1..(n + 1) : i \in 1..n \/ i = n + 1
            BY <3>1
      <4>2. \A i \in 1..n : i \in 1..(n + 1)
            BY <3>1
      <4>3. n + 1 \in 1..(n + 1)
            BY <3>1
      <4> QED
          BY <3>1, <4>1, <4>2, <4>3 DEF ToSet
    <3> QED
        BY <1>1, <1>2, <1>3, <2>2, <3>3, <3>4 DEF Receiving
  <2> QED
      BY <2>1, <2>2
<1>6. OutputsInOrder'
      BY <1>1, <1>2 DEF OutputsInOrder
<1> QED
    BY <1>4, <1>5, <1>6 DEF OrderInv

\* The outputs that are ordered, and from which targets they are.
LEMMA WhatIsOrdered ==
    ASSUME DirInv, OrderInv, OrderOutputs
    PROVE  \E found \in Ascending({t \in Target : ~targetErr[t] /\ ~runErr[t]}) :
             /\ found \in Seq(Target)
             /\ ordered' = [i \in DOMAIN found |->
                    [name |-> name[found[i]], from |-> found[i], tablesOf |-> {found[i]}]]
<1> DEFINE F == {t \in ToSet(myTargets) : FirstOf(t) # 0}
           S == {t \in Target : ~targetErr[t] /\ ~runErr[t]}
<1>1. main = "wait" /\ \A t \in Target : phase[t] \in {"idle", "sent"}
      BY DEF OrderOutputs
<1>2. PICK found \in Ascending(F) :
        ordered' = [i \in DOMAIN found |-> [name |-> name[found[i]],
                       from |-> received[FirstOf(found[i])], tablesOf |-> {found[i]}]]
      BY DEF OrderOutputs
<1>3. \A t \in Target : /\ FirstOf(t) # 0 <=> t \in ToSet(received)
                        /\ FirstOf(t) # 0 => received[FirstOf(t)] = t
      BY <1>1, FirstIsOwn DEF OrderInv, OrderTypes, Waiting, Receiving, Before
<1>4. \A t \in ToSet(myTargets) : t \in Target /\ ~targetErr[t] /\ phase[t] = "sent"
      BY <1>1 DEF OrderInv, Waiting
<1>5. F = S
  <2>1. ToSet(myTargets) = {t \in Target : ~targetErr[t]}
        BY <1>1 DEF OrderInv, Waiting
  <2>2. \A t \in ToSet(myTargets) : FirstOf(t) # 0 <=> ~runErr[t]
        BY <1>1, <1>3, <1>4 DEF OrderInv, Receiving, Before
  <2> HIDE DEF FirstOf
  <2> QED
      BY <2>1, <2>2
<1> HIDE DEF F
<1>6. S \in SUBSET Nat /\ IsFiniteSet(S)
      BY TargetsAreFinite
<1>7. Cardinality(S) \in Nat /\ found \in [1..Cardinality(S) -> S]
      BY <1>2, <1>5, <1>6, AscendingIsAll
<1>8. found \in Seq(Target)
  <2> DEFINE n == Cardinality(S)
  <2>1. n \in Nat /\ found \in [1..n -> Target]
        BY <1>7
  <2> HIDE DEF n
  <2> QED
      BY <2>1
<1>9. \A i \in DOMAIN found : found[i] \in F
      BY <1>5, <1>7
<1>10. \A i \in DOMAIN found : received[FirstOf(found[i])] = found[i]
  <2>1. \A t \in F : t \in Target /\ FirstOf(t) # 0
        BY <1>4 DEF F
  <2> QED
      BY <1>3, <1>9, <2>1
<1>11. ordered' = [i \in DOMAIN found |->
           [name |-> name[found[i]], from |-> found[i], tablesOf |-> {found[i]}]]
      BY <1>2, <1>10
<1> QED
    BY <1>2, <1>5, <1>8, <1>11

LEMMA OrderOrder ==
    ASSUME DirInv, OrderInv, OrderOutputs
    PROVE  OrderInv'
<1> USE DEF targetVars, lkmVars, fixed, Return, Continue, Before
<1>1. /\ main' \notin Before
      /\ UNCHANGED <<fromInput, name, received, targetErr, runErr>>
      BY DEF OrderOutputs
<1>2. OrderTypes' /\ Waiting' /\ Receiving'
      BY <1>1 DEF OrderInv, OrderTypes, Waiting, Receiving
<1>3. OutputsInOrder'
  <2> DEFINE S == {t \in Target : ~targetErr[t] /\ ~runErr[t]}
  <2>1. PICK found \in Ascending(S) :
          ordered' = [i \in DOMAIN found |->
              [name |-> name[found[i]], from |-> found[i], tablesOf |-> {found[i]}]]
        BY WhatIsOrdered
  <2>2. S \in SUBSET Nat /\ IsFiniteSet(S)
        BY TargetsAreFinite
  <2>3. /\ \A i, j \in DOMAIN found : i < j => found[i] < found[j]
        /\ {found[i] : i \in DOMAIN found} = S
        BY <2>1, <2>2, AscendingIsAll
  <2>4. /\ DOMAIN ordered' = DOMAIN found
        /\ \A i \in DOMAIN found :
             /\ ordered'[i].from = found[i]
             /\ ordered'[i] = [name |-> name[found[i]], from |-> found[i], tablesOf |-> {found[i]}]
        BY <2>1
  <2>5. {ordered'[i].from : i \in DOMAIN ordered'} = S
        BY <2>3, <2>4
  <2> HIDE DEF S
  <2>6. S = {t \in Target : ~targetErr[t] /\ ~runErr[t]}
        BY DEF S
  <2>7. \A i, j \in DOMAIN ordered' : i < j => ordered'[i].from < ordered'[j].from
        BY <2>3, <2>4
  <2>8. \A i \in DOMAIN ordered' : LET t == ordered'[i].from IN
          ordered'[i] = [name |-> name[t], from |-> t, tablesOf |-> {t}]
        BY <2>4
  <2> QED
      BY <1>1, <2>5, <2>6, <2>7, <2>8 DEF OutputsInOrder
<1> QED
    BY <1>2, <1>3 DEF OrderInv

LEMMA OrderStep == DirInv /\ LkmInv /\ OrderInv /\ [Next]_vars => OrderInv'
<1> SUFFICES ASSUME DirInv, LkmInv, OrderInv, [Next]_vars PROVE OrderInv'
    OBVIOUS
<1>1. CASE \E t \in Target : Collect(t)
      BY <1>1, OrderCollect
<1>2. CASE ReadInput \/ GetTargets \/ CreateTempDirectory
      BY <1>2, OrderStart
<1>3. CASE StartCollecting
      BY <1>3, OrderStartCollecting
<1>4. CASE \E t \in Target : Receive(t)
      BY <1>4, OrderReceive
<1>5. CASE OrderOutputs
      BY <1>5, OrderOrder
<1>6. CASE \/ CreateOutputDir \/ CreateRawReport \/ RawReportsCreated \/ CreateReport
           \/ FinishReports \/ StartAdhoc \/ FinishAdhoc \/ RemoveTempDirectory \/ Exit
           \/ \E i \in DOMAIN myTargets : PullDataFiles(i)
      BY <1>6, OrderReports
<1>7. CASE UNCHANGED vars
      BY <1>7 DEF vars, targetVars, lkmVars, outputVars, fixed, OrderInv, OrderTypes, Waiting,
         Receiving, OutputsInOrder, NamesDiffer
<1> QED
    BY <1>1, <1>2, <1>3, <1>4, <1>5, <1>6, <1>7 DEF Next, Run

LEMMA OrderAlways == Spec => []OrderInv
    BY OrderInit, OrderStep, DirAlways, LkmAlways, PTL DEF Spec

\* However the targets' outputs arrive and whatever fails, the outputs that Run goes on with
\* are those of the targets on which nothing has failed, in the order of the targets, each
\* under its target's name and with its tables: the spinner's refusal of a second target of
\* one name is what makes the lookup by name right.
THEOREM OutputsAreInOrder == Spec => []OutputsInOrder
<1>1. OrderInv => OutputsInOrder
      BY DEF OrderInv
<1> QED
    BY <1>1, OrderAlways, PTL

----------------------------------------------------------------------------
(* The raw reports.  createRawReports has saved the outputs up to cursor;  *)
(* none is replaced, because no two outputs have one name.                 *)

Saved(i) == [name |-> ordered[i].name, of |-> i] \in raws

OwnNames ==
    /\ \E n \in Nat : DOMAIN ordered = 1..n
    /\ \A i, j \in DOMAIN ordered : ordered[i].name = ordered[j].name => i = j

Saving ==
    /\ main \in Before \cup {"outdir", "raw"} => reports = {}
    /\ main = "raw" => cursor > 0 /\ \A i \in DOMAIN ordered : i < cursor => Saved(i)
    /\ main = "reports" => \A i \in DOMAIN ordered : Saved(i)

RawInv == OwnNames /\ Saving /\ RawSavedFirst

LEMMA RawInit == Init => RawInv
<1> SUFFICES ASSUME Init PROVE RawInv
    OBVIOUS
<1>1. OwnNames
  <2>1. ordered = <<>>
        BY DEF Init
  <2>2. DOMAIN ordered = 1..0
        BY <2>1
  <2> QED
      BY <2>2 DEF OwnNames
<1>2. Saving /\ RawSavedFirst
      BY DEF Init, Saving, RawSavedFirst
<1> QED
    BY <1>1, <1>2 DEF RawInv

LEMMA RawReadInput ==
    ASSUME IsInjective(RawReports), OrderInv, RawInv, ReadInput
    PROVE  RawInv'
<1> USE DEF fileVars, Return, Continue, Before
<1>1. main = "start" /\ main' \in {"outdir", "deferred"} /\ reports = {} /\ reports' = {}
      BY DEF ReadInput, RawInv, Saving
<1>2. \/ ordered' = ordered
      \/ ordered' = [i \in DOMAIN RawReports |->
                        [name |-> RawReports[i], from |-> i, tablesOf |-> 1..i]]
      BY DEF ReadInput
<1>3. OwnNames'
  <2>1. CASE ordered' = ordered
        BY <2>1 DEF RawInv, OwnNames
  <2>2. CASE ordered' = [i \in DOMAIN RawReports |->
                            [name |-> RawReports[i], from |-> i, tablesOf |-> 1..i]]
    <3>1. Len(RawReports) \in Nat /\ DOMAIN RawReports = 1..Len(RawReports)
          BY ReportingAssumption
    <3>2. /\ DOMAIN ordered' = DOMAIN RawReports
          /\ \A i \in DOMAIN RawReports : ordered'[i].name = RawReports[i]
          BY <2>2
    <3> QED
        BY <3>1, <3>2 DEF OwnNames, IsInjective
  <2> QED
      BY <1>2, <2>1, <2>2
<1>4. Saving' /\ RawSavedFirst'
      BY <1>1 DEF Saving, RawSavedFirst
<1> QED
    BY <1>3, <1>4 DEF RawInv

LEMMA RawOrder ==
    ASSUME DirInv, OrderInv, RawInv, OrderOutputs
    PROVE  RawInv'
<1> USE DEF fileVars, Return, Continue, Before
<1>1. main = "wait" /\ main' \in {"outdir", "deferred"} /\ reports = {} /\ reports' = {}
      BY DEF OrderOutputs, RawInv, Saving
<1>2. OwnNames'
  <2> DEFINE S == {t \in Target : ~targetErr[t] /\ ~runErr[t]}
  <2>1. PICK found \in Ascending(S) :
          /\ found \in Seq(Target)
          /\ ordered' = [i \in DOMAIN found |->
                [name |-> name[found[i]], from |-> found[i], tablesOf |-> {found[i]}]]
        BY WhatIsOrdered
  <2>2. S \in SUBSET Nat /\ IsFiniteSet(S) /\ Target \in SUBSET Nat
        BY TargetsAreFinite
  <2>3. \A i, j \in DOMAIN found : i < j => found[i] < found[j]
        BY <2>1, <2>2, AscendingIsAll
  <2> HIDE DEF S
  <2>4. /\ Len(found) \in Nat /\ DOMAIN found = 1..Len(found)
        /\ \A i \in DOMAIN found : found[i] \in Target
        BY <2>1
  <2>5. DOMAIN ordered' = DOMAIN found /\ \A i \in DOMAIN found : ordered'[i].name = name[found[i]]
        BY <2>1
  <2>6. \A t, u \in Target : name[t] = name[u] => t = u
        BY <1>1 DEF OrderInv, OrderTypes, Waiting, NamesDiffer, IsInjective
  <2>7. \A i, j \in DOMAIN found : ordered'[i].name = ordered'[j].name => i = j
    <3> SUFFICES ASSUME NEW i \in DOMAIN found, NEW j \in DOMAIN found,
                        ordered'[i].name = ordered'[j].name
                 PROVE  i = j
        OBVIOUS
    <3>1. found[i] = found[j]
          BY <2>4, <2>5, <2>6
    <3>2. found[i] \in Nat /\ found[j] \in Nat /\ i \in Nat /\ j \in Nat
      <4>1. found[i] \in Target /\ found[j] \in Target
            BY <2>4
      <4>2. \A k \in 1..Len(found) : k \in Nat
            BY <2>4
      <4> QED
          BY <2>2, <2>4, <4>1, <4>2
    <3>3. ~(i < j) /\ ~(j < i)
          BY <2>3, <3>1, <3>2
    <3> QED
        BY <3>2, <3>3
  <2> QED
      BY <2>4, <2>5, <2>7 DEF OwnNames
<1>3. Saving' /\ RawSavedFirst'
      BY <1>1 DEF Saving, RawSavedFirst
<1> QED
    BY <1>2, <1>3 DEF RawInv

\* A file replaces none of another output.
LEMMA RawCreate ==
    ASSUME DirInv, RawInv, CreateRawReport
    PROVE  RawInv'
<1> USE DEF MainVars, outputVars, Return, Before
<1>1. /\ main = "raw" /\ cursor \in DOMAIN ordered /\ cursor' = cursor + 1
      /\ ordered' = ordered /\ reports = {} /\ reports' = {}
      BY DEF CreateRawReport, RawInv, Saving
<1>2. \/ main' = "raw" /\ raws' = Written(raws, cursor)
      \/ main' = "deferred" /\ raws' = raws
      BY <1>1 DEF CreateRawReport
<1>3. OwnNames'
      BY <1>1 DEF RawInv, OwnNames
<1>4. Saving'
  <2>1. CASE main' = "deferred"
        BY <2>1 DEF Saving
  <2>2. CASE main' = "raw" /\ raws' = Written(raws, cursor)
    <3>1. \A i \in DOMAIN ordered : i \in Nat
          BY DEF RawInv, OwnNames
    <3>2. cursor \in Nat /\ cursor > 0 /\ \A i \in DOMAIN ordered : i < cursor => Saved(i)
          BY <1>1 DEF DirInv, DirTypes, RawInv, Saving
    <3>3. \A i \in DOMAIN ordered : i < cursor + 1 => Saved(i)'
      <4> SUFFICES ASSUME NEW i \in DOMAIN ordered, i < cursor + 1 PROVE Saved(i)'
          OBVIOUS
      <4>1. CASE i = cursor
            BY <4>1, <1>1, <2>2 DEF Saved, Written
      <4>2. CASE i # cursor
        <5>1. i < cursor
              BY <3>1, <3>2, <4>2
        <5>2. ordered[i].name # ordered[cursor].name
              BY <1>1, <4>2 DEF RawInv, OwnNames
        <5> QED
            BY <1>1, <2>2, <3>2, <5>1, <5>2 DEF Saved, Written
      <4> QED
          BY <4>1, <4>2
    <3>4. cursor' > 0
          BY <1>1, <3>2
    <3> QED
        BY <1>1, <2>2, <3>3, <3>4 DEF Saving
  <2> QED
      BY <1>2, <2>1, <2>2
<1>5. RawSavedFirst'
      BY <1>1 DEF RawSavedFirst
<1> QED
    BY <1>3, <1>4, <1>5 DEF RawInv

LEMMA RawCreated ==
    ASSUME DirInv, RawInv, RawReportsCreated
    PROVE  RawInv'
<1> USE DEF MainVars, outputVars, Continue, Before
<1>1. /\ main = "raw" /\ main' = "reports" /\ cursor \notin DOMAIN ordered
      /\ UNCHANGED <<ordered, raws, reports>>
      BY DEF RawReportsCreated
<1>2. PICK n \in Nat : DOMAIN ordered = 1..n
      BY DEF RawInv, OwnNames
<1>3. \A i \in DOMAIN ordered : i < cursor
  <2>1. cursor \in Nat /\ cursor > 0
        BY <1>1 DEF DirInv, DirTypes, RawInv, Saving
  <2> QED
      BY <1>1, <1>2, <2>1
<1>4. \A i \in DOMAIN ordered : Saved(i)
      BY <1>1, <1>3 DEF RawInv, Saving
<1>5. OwnNames'
      BY <1>1 DEF RawInv, OwnNames
<1>6. Saving' /\ RawSavedFirst'
      BY <1>1, <1>4 DEF Saving, RawSavedFirst, Saved
<1> QED
    BY <1>5, <1>6 DEF RawInv

\* The steps that leave the raw reports and the order of the outputs alone; a report is
\* made when all the outputs are saved.
LEMMA RawKept ==
    ASSUME RawInv, UNCHANGED <<ordered, raws>>, main' = main \/ main' # "reports",
           main' = "raw" => \/ main = "outdir" /\ cursor' = 1
                            \/ main = "raw" /\ cursor' = cursor,
           main' \in Before \cup {"outdir", "raw"} =>
               main \in Before \cup {"outdir", "raw"} /\ reports' = reports,
           reports' = reports \/ main = "reports"
    PROVE  RawInv'
<1>1. OwnNames'
      BY DEF RawInv, OwnNames
<1>2. \A i \in DOMAIN ordered : Saved(i)' <=> Saved(i)
      BY DEF Saved
<1>3. main' = "raw" => cursor' > 0 /\ \A i \in DOMAIN ordered : i < cursor' => Saved(i)
  <2>1. CASE main = "raw" /\ cursor' = cursor
        BY <2>1 DEF RawInv, Saving
  <2>2. CASE cursor' = 1
    <3>1. \A i \in DOMAIN ordered : ~(i < 1)
          BY DEF RawInv, OwnNames
    <3> QED
        BY <2>2, <3>1
  <2> QED
      BY <2>1, <2>2
<1>4. Saving'
      BY <1>2, <1>3 DEF RawInv, Saving
<1>5. RawSavedFirst'
      BY <1>2 DEF RawInv, Saving, RawSavedFirst, Saved
<1> QED
    BY <1>1, <1>4, <1>5 DEF RawInv

LEMMA RawOthers ==
    ASSUME DirInv, RawInv,
           \/ GetTargets \/ CreateTempDirectory \/ StartCollecting
           \/ (\E t \in Target : Receive(t) \/ Collect(t))
           \/ CreateOutputDir \/ CreateReport
           \/ FinishReports \/ StartAdhoc \/ FinishAdhoc \/ RemoveTempDirectory \/ Exit
           \/ (\E i \in DOMAIN myTargets : PullDataFiles(i))
           \/ UNCHANGED vars
    PROVE  RawInv'
<1> USE DEF MainVars, targetVars, outputVars, fileVars, RunVars, Return, Continue, Before
<1>1. CASE GetTargets \/ CreateTempDirectory \/ StartCollecting
      BY <1>1, RawKept DEF GetTargets, CreateTempDirectory, StartCollecting
<1>2. CASE \E t \in Target : Receive(t)
      BY <1>2, RawKept DEF Receive
<1>3. CASE \E t \in Target : Collect(t)
  <2>1. UNCHANGED <<main, cursor, ordered, raws, reports>>
        BY <1>3 DEF Collect, PrepareTarget, InstallLkms, RunParallelScripts,
           RunSequentialScripts, UninstallLkms
  <2> QED
      BY <2>1, RawKept
<1>4. CASE CreateOutputDir \/ CreateReport
      BY <1>4, RawKept DEF CreateOutputDir, CreateReport
<1>5. CASE FinishReports \/ StartAdhoc \/ FinishAdhoc \/ RemoveTempDirectory \/ Exit
      BY <1>5, RawKept DEF FinishReports, StartAdhoc, FinishAdhoc, RemoveTempDirectory, Exit
<1>6. CASE \E i \in DOMAIN myTargets : PullDataFiles(i)
      BY <1>6, RawKept DEF PullDataFiles
<1>7. CASE UNCHANGED vars
      BY <1>7, RawKept DEF vars
<1> QED
    BY <1>1, <1>2, <1>3, <1>4, <1>5, <1>6, <1>7

LEMMA RawAlways ==
    ASSUME IsInjective(RawReports)
    PROVE  Spec => []RawInv
<1>1. DirInv /\ OrderInv /\ RawInv /\ [Next]_vars => RawInv'
      BY RawReadInput, RawOrder, RawCreate, RawCreated, RawOthers DEF Next, Run
<1> QED
    BY <1>1, RawInit, DirAlways, OrderAlways, PTL DEF Spec

\* The comment at common.go 215: when there is any report, all the outputs have been saved,
\* each in a file of its own.  No two raw reports that --input reads may be of one target
\* name: the second would replace the first.
THEOREM RawIsSavedFirst ==
    ASSUME IsInjective(RawReports)
    PROVE  Spec => []RawSavedFirst
<1>1. RawInv => RawSavedFirst
      BY DEF RawInv
<1> QED
    BY <1>1, RawAlways, PTL
============================================================================
