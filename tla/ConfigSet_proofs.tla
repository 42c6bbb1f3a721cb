------------------------- MODULE ConfigSet_proofs -------------------------
(***************************************************************************)
(* Theorems about ConfigSet, for every set of flags and every program of   *)
(* their set functions: the msr module is accounted for, a change that is  *)
(* reported is lost only to a rival, and no flag brings the bits of        *)
(* another register.                                                       *)
(***************************************************************************)
EXTENDS ConfigSet, TLAPS

(* ModuleAccounted alone is not inductive: a script could still remove the *)
(* module after the removal by another one has failed.  It cannot, because *)
(* the module stays and nobody else installs it.                           *)
ModuleInv ==
    /\ msr \in BOOLEAN /\ hadMsr \in BOOLEAN /\ stuck \in BOOLEAN
    /\ holds \in [Procs -> BOOLEAN]
    /\ stuck => \A p \in Procs : ~holds[p]
    /\ ModuleAccounted

LEMMA ModuleInit == Init => ModuleInv
<1> SUFFICES ASSUME Init PROVE ModuleInv
    OBVIOUS
<1>1. hadMsr \in BOOLEAN /\ msr = hadMsr /\ stuck = FALSE
      BY DEF Init
<1>2. holds \in [Procs -> BOOLEAN] /\ \A p \in Procs : ~holds[p]
      BY DEF Init
<1>3. ModuleAccounted
      BY <1>1, <1>2, Zenon DEF ModuleAccounted
<1> QED
    BY <1>1, <1>2, <1>3 DEF ModuleInv

\* The actions that leave the module and its holder alone.
LEMMA ModuleKept ==
    ModuleInv /\ UNCHANGED <<msr, hadMsr, stuck, holds>> => ModuleInv'
BY DEF ModuleInv, ModuleAccounted

\* Only a script that finds no module becomes its holder.
LEMMA ModuleInstall ==
    ASSUME ModuleInv, NEW p \in Procs, InstallLkms(p)
    PROVE  ModuleInv'
<1>1. CASE msr' = TRUE /\ ~msr /\ holds' = [holds EXCEPT ![p] = TRUE]
      /\ hadMsr' = hadMsr /\ stuck' = stuck
      BY <1>1 DEF ModuleInv, ModuleAccounted
<1>3. CASE msr' = TRUE /\ ~msr /\ stuck' = TRUE /\ holds' = holds /\ hadMsr' = hadMsr
      BY <1>3 DEF ModuleInv, ModuleAccounted
<1>2. CASE UNCHANGED <<msr, hadMsr, stuck, holds>>
      BY <1>2, ModuleKept
<1> QED
    BY <1>1, <1>2, <1>3 DEF InstallLkms, given

\* The holder gives the module up: it is gone, or it is stuck.
LEMMA ModuleUninstall ==
    ASSUME ModuleInv, NEW p \in Procs, UninstallLkms(p)
    PROVE  ModuleInv'
<1>1. /\ holds' = [holds EXCEPT ![p] = FALSE] /\ hadMsr' = hadMsr
      /\ \/ msr' = (msr /\ ~holds[p]) /\ stuck' = stuck
         \/ holds[p] /\ stuck' = TRUE /\ msr' = msr
      BY DEF UninstallLkms, given
<1>2. CASE ~holds[p]
  <2>1. holds' = holds /\ msr' = msr /\ stuck' = stuck
        BY <1>1, <1>2 DEF ModuleInv
  <2> QED
      BY <1>1, <2>1, ModuleKept
<1>3. CASE holds[p]
  <2>1. msr /\ ~hadMsr /\ ~stuck /\ \A q \in Procs : ~holds'[q]
        BY <1>1, <1>3 DEF ModuleInv, ModuleAccounted
  <2>2. holds' \in [Procs -> BOOLEAN]
        BY <1>1 DEF ModuleInv
  <2> QED
      BY <1>1, <1>3, <2>1, <2>2 DEF ModuleInv, ModuleAccounted
<1> QED
    BY <1>2, <1>3

LEMMA ModuleRunScript ==
    ASSUME ModuleInv, NEW p \in Procs, RunScript(p)
    PROVE  ModuleInv'
<1>1. CASE InstallLkms(p)
      BY <1>1, ModuleInstall
<1>2. CASE UninstallLkms(p)
      BY <1>2, ModuleUninstall
<1>3. CASE \/ WriteFile(p) \/ PushFile(p) \/ PushFails(p) \/ RunProbe(p) \/ RunPanics(p)
           \/ RunRead(p) \/ RunWrite(p) \/ RunInsert(p) \/ RunFails(p)
      BY <1>3, ModuleKept DEF WriteFile, PushFile, PushFails, RunProbe, RunPanics, RunRead,
         RunWrite, RunInsert, RunFails, given, setterVars
<1> QED
    BY <1>1, <1>2, <1>3 DEF RunScript

LEMMA ModuleStep == ModuleInv /\ [Next]_vars => ModuleInv'
<1> SUFFICES ASSUME ModuleInv, [Next]_vars PROVE ModuleInv'
    OBVIOUS
<1>1. CASE SetOnTarget
  <2>1. CASE RunScript(Main)
        BY <2>1, ModuleRunScript DEF Procs
  <2>2. CASE Succeed(Main) \/ StartSetters \/ GiveUp \/ Collected
        BY <2>2, ModuleKept DEF Succeed, StartSetters, GiveUp, Collected, given
  <2> QED
      BY <1>1, <2>1, <2>2 DEF SetOnTarget
<1>2. CASE \E s \in Setters : SetFunction(s)
  <2> PICK s \in Setters : SetFunction(s)
      BY <1>2
  <2>1. CASE RunScript(s)
        BY <2>1, ModuleRunScript DEF Procs
  <2>2. CASE \/ Lock(s) \/ NextScript(s) \/ Refuse(s) \/ NoDies(s) \/ Succeed(s)
             \/ Report(s) \/ Unlock(s)
        BY <2>2, ModuleKept DEF Lock, NextScript, Refuse, NoDies, Succeed, Report, Unlock, given
  <2> QED
      BY <2>1, <2>2 DEF SetFunction
<1>3. CASE UNCHANGED vars
      BY <1>3, ModuleKept DEF vars, given, setterVars
<1> QED
    BY <1>1, <1>2, <1>3 DEF Next, Over

\* In every interleaving of any set functions the msr kernel module is loaded
\* because it was before, because exactly one running script has loaded it and
\* will unload it, or because unloading it failed: RunScripts never unloads a
\* module that was there before the command.
THEOREM ModuleIsAccounted == Spec => []ModuleAccounted
<1>1. ModuleInv => ModuleAccounted
      BY DEF ModuleInv
<1> QED
    BY <1>1, ModuleInit, ModuleStep, PTL DEF Spec

-----------------------------------------------------------------------------
(***************************************************************************)
(* The control of the set functions.                                       *)
(***************************************************************************)

\* The set function of s is between its first script and the end of its last one; a locked
\* one holds the mutex until it is done.
Active(s) == at[s] \in {"write", "push", "install", "run", "uninstall", "return"}
Inside(s) == Active(s) \/ at[s] = "unlock"

\* The script of s is on its way to the target.
Running(s) == at[s] \in {"write", "push", "install", "run"}

Phases == {"idle", "lock", "write", "push", "install", "run", "uninstall", "return", "unlock",
           "collect", "done"}

Shape ==
    /\ requested \in Requests
    /\ DOMAIN regs = Registers
    /\ DOMAIN local = Files /\ DOMAIN remote = Files /\ DOMAIN got = Procs
    /\ at \in [Procs -> Phases] /\ result \in [Procs -> {"none", "ok", "err"}]
    /\ step \in [Procs -> Nat] /\ \A p \in Procs : step[p] \in 1..Len(Prog(p))

\* The set functions of the requested flags run once the target is prepared.
Started ==
    \A s \in Setters : at[s] # "idle" => s \in requested /\ at[Main] \in {"collect", "done"}

Held == \A s \in Locked : Inside(s) => mutex = s

\* A set function begins with its first script, is at its end when it has succeeded, and is
\* reported once.
Ended(s) ==
    /\ at[s] \in {"idle", "lock"} => step[s] = 1 /\ result[s] = "none"
    /\ at[s] \in {"lock", "unlock"} => s \in Locked
    /\ result[s] = "ok" => at[s] \in {"return", "unlock", "done"}
    /\ s \in reported => at[s] \in {"unlock", "done"} /\ result[s] # "none"

ControlInv == Shape /\ Started /\ Held /\ (\A s \in Setters : Ended(s)) /\ reported \subseteq Setters

LEMMA Scripts ==
    /\ Main \notin Setters /\ Main \in Procs /\ Setters \subseteq Procs /\ Locked \subseteq Setters
    /\ Len(Prog(Main)) = 1 /\ Prog(Main)[1].op = "probe"
    /\ \A s \in Setters : Prog(s) \in Seq(Script)
    /\ \A p \in Procs : Len(Prog(p)) \in Nat \ {0}
    /\ \A p \in Procs : \A k \in 1..Len(Prog(p)) :
          /\ Prog(p)[k] \in ScriptsOf(p)
          /\ Prog(p)[k].file \in Files
          /\ Prog(p)[k].reg # "" => Prog(p)[k].reg \in Registers
<1>1. Main \notin Setters /\ Main \in Procs /\ Setters \subseteq Procs /\ Locked \subseteq Setters
    BY ProgramAssumption DEF Procs
<1>2. Prog(Main) = PrepareProgram /\ \A s \in Setters : Prog(s) = Program[s]
    BY <1>1 DEF Prog
<1>3. Len(PrepareProgram) = 1 /\ PrepareProgram[1].op = "probe"
    BY DEF PrepareProgram, Probe, Plain
<1>4. \A s \in Setters : Prog(s) \in Seq(Script) /\ Prog(s) # <<>>
    BY <1>2, ProgramAssumption
<1>5. \A p \in Procs : Len(Prog(p)) \in Nat \ {0}
    BY <1>2, <1>3, <1>4 DEF Procs
<1>6. \A p \in Procs : \A k \in 1..Len(Prog(p)) : Prog(p)[k] \in ScriptsOf(p)
    BY DEF ScriptsOf
<1>7. \A p \in Procs : \A t \in ScriptsOf(p) :
          t.file \in Files /\ (t.reg # "" => t.reg \in Registers)
    BY DEF Files, Registers
<1> QED BY <1>1, <1>2, <1>3, <1>4, <1>5, <1>6, <1>7

LEMMA ThisScript ==
    ASSUME Shape, NEW p \in Procs
    PROVE  /\ This(p) \in ScriptsOf(p) /\ This(p) = Prog(p)[step[p]] /\ step[p] \in 1..Len(Prog(p))
           /\ This(p).file \in Files
           /\ Touches(This(p)) => This(p).reg \in Registers
<1>1. This(p) \in ScriptsOf(p) /\ This(p).file \in Files
    BY Scripts DEF Shape, This
<1>2. Touches(This(p)) => This(p).reg # ""
    BY <1>1, ProgramAssumption
<1> QED BY <1>1, <1>2, Scripts DEF Shape, This

LEMMA MainScript ==
    ASSUME Shape PROVE This(Main).op = "probe" /\ ~Touches(This(Main))
<1>1. step[Main] \in 1..1
    BY Scripts DEF Shape
<1>2. step[Main] = 1
    BY <1>1
<1> QED BY <1>2, Scripts DEF This, Touches, Writes

LEMMA ReadBefore ==
    ASSUME NEW s \in Setters, NEW k \in 1..Len(Prog(s)), Prog(s)[k].op = "modify"
    PROVE  k > 1 /\ Prog(s)[k - 1].op = "read" /\ Prog(s)[k - 1].reg = Prog(s)[k].reg
<1>1. ReadFirst(s)
    BY ProgramAssumption
<1> QED BY <1>1 DEF ReadFirst

\* A step concerns one goroutine.
Frame(p) ==
    /\ requested' = requested
    /\ \A q \in Procs : q # p =>
          /\ at'[q] = at[q] /\ step'[q] = step[q] /\ got'[q] = got[q] /\ result'[q] = result[q]
          /\ q \in reported' <=> q \in reported

LEMMA RunScriptFrame ==
    ASSUME Shape, NEW p \in Procs, RunScript(p)
    PROVE  /\ Frame(p) /\ step' = step /\ mutex' = mutex /\ reported' = reported
           /\ at[p] \in {"write", "push", "install", "run", "uninstall"}
           /\ at' \in [Procs -> Phases] /\ Active(p)'
           /\ result' \in [Procs -> {"none", "ok", "err"}] /\ result'[p] \in {result[p], "err"}
           /\ DOMAIN regs' = Registers /\ DOMAIN got' = Procs
           /\ DOMAIN local' = Files /\ DOMAIN remote' = Files
<1> USE DEF Shape, Phases, Frame, Active, given, fileVars, setterVars
<1>1. CASE WriteFile(p) \/ PushFile(p)
    BY <1>1 DEF WriteFile, PushFile, AfterPush
<1>2. CASE PushFails(p)
    BY <1>2 DEF PushFails
<1>3. CASE InstallLkms(p)
    BY <1>3 DEF InstallLkms, AfterInstall
<1>4. CASE RunProbe(p) \/ RunPanics(p) \/ RunRead(p) \/ UninstallLkms(p)
    BY <1>4 DEF RunProbe, RunPanics, RunRead, UninstallLkms
<1>5. CASE RunWrite(p) \/ RunInsert(p) \/ RunFails(p)
    <2>1. DOMAIN regs' = DOMAIN regs
        BY <1>5 DEF RunWrite, RunInsert, RunFails, Written
    <2> QED BY <1>5, <2>1 DEF RunWrite, RunInsert, RunFails
<1> QED BY <1>1, <1>2, <1>3, <1>4, <1>5 DEF RunScript

\* The steps of a set function outside RunScripts, and of setOnTarget after it.
Between(p) ==
    \/ p \in Setters /\ (Lock(p) \/ NextScript(p) \/ Refuse(p) \/ NoDies(p) \/ Report(p) \/ Unlock(p))
    \/ Succeed(p)
    \/ p = Main /\ (GiveUp \/ Collected)

LEMMA BetweenFrame ==
    ASSUME Shape, NEW p \in Procs, Between(p)
    PROVE  /\ Frame(p) /\ UNCHANGED <<regs, local, remote, got>>
           /\ at' \in [Procs -> Phases]
           /\ result' \in [Procs -> {"none", "ok", "err"}]
           /\ step' \in [Procs -> Nat] /\ \A q \in Procs : step'[q] \in 1..Len(Prog(q))
<1> USE DEF Shape, Phases, Frame, given, fileVars
<1>1. CASE p \in Setters /\ NextScript(p)
    <2>1. Len(Prog(p)) \in Nat \ {0}
        BY Scripts
    <2> QED BY <1>1, <2>1 DEF NextScript, FirstPhase
<1>2. CASE p \in Setters /\ (Lock(p) \/ Refuse(p) \/ NoDies(p) \/ Report(p) \/ Unlock(p))
    BY <1>2 DEF Lock, Refuse, NoDies, Report, Unlock, FirstPhase
<1>3. CASE Succeed(p) \/ (p = Main /\ (GiveUp \/ Collected))
    BY <1>3 DEF Succeed, GiveUp, Collected
<1> QED BY <1>1, <1>2, <1>3 DEF Between

\* Every step is one of these.
LEMMA StepCases ==
    ASSUME [Next]_vars
    PROVE  \/ \E p \in Procs : RunScript(p) \/ Between(p)
           \/ StartSetters
           \/ UNCHANGED vars
<1>1. CASE SetOnTarget
    BY <1>1, Scripts DEF SetOnTarget, Between
<1>2. CASE \E s \in Setters : SetFunction(s)
    BY <1>2, Scripts DEF SetFunction, Between
<1> QED BY <1>1, <1>2 DEF Next, Over

LEMMA ControlRunScript ==
    ASSUME ControlInv, NEW p \in Procs, RunScript(p) PROVE ControlInv'
<1> USE Scripts
<1>1. /\ Frame(p) /\ step' = step /\ mutex' = mutex /\ reported' = reported
      /\ at[p] \in {"write", "push", "install", "run", "uninstall"}
      /\ at' \in [Procs -> Phases] /\ Active(p)' /\ Active(p)
      /\ result' \in [Procs -> {"none", "ok", "err"}] /\ result'[p] \in {result[p], "err"}
    BY RunScriptFrame DEF ControlInv, Active
<1>2. Shape'
    BY <1>1, RunScriptFrame DEF ControlInv, Shape, Frame
<1>3. Started'
    <2>1. CASE p = Main
        BY <1>1, <2>1 DEF ControlInv, Started, Frame
    <2>2. CASE p # Main
        BY <1>1, <2>2 DEF ControlInv, Started, Frame
    <2> QED BY <2>1, <2>2
<1>4. Held'
    BY <1>1 DEF ControlInv, Held, Frame, Inside, Active
<1>5. ASSUME NEW s \in Setters PROVE Ended(s)'
    <2>1. CASE s = p
        BY <1>1, <2>1 DEF ControlInv, Ended, Active
    <2>2. CASE s # p
        BY <1>1, <2>2 DEF ControlInv, Ended, Frame
    <2> QED BY <2>1, <2>2
<1> QED BY <1>1, <1>2, <1>3, <1>4, <1>5 DEF ControlInv

LEMMA ControlBetween ==
    ASSUME ControlInv, NEW p \in Procs, Between(p) PROVE ControlInv'
<1> USE Scripts
<1>1. /\ Frame(p) /\ Shape' /\ Shape
      /\ at \in [Procs -> Phases] /\ result \in [Procs -> {"none", "ok", "err"}]
    BY BetweenFrame DEF ControlInv, Shape, Frame
<1>2. CASE p = Main
    <2>1. /\ mutex' = mutex /\ reported' = reported
          /\ at[Main] \in {"collect", "done"} => at'[Main] \in {"collect", "done"}
        BY <1>1, <1>2 DEF Between, Succeed, GiveUp, Collected
    <2>2. Started'
        BY <1>1, <1>2, <2>1 DEF ControlInv, Started, Frame
    <2>3. Held'
        BY <1>1, <1>2, <2>1 DEF ControlInv, Held, Inside, Active, Frame
    <2>4. \A s \in Setters : Ended(s)'
        BY <1>1, <1>2, <2>1 DEF ControlInv, Ended, Frame
    <2> QED BY <1>1, <2>1, <2>2, <2>3, <2>4 DEF ControlInv
<1>3. CASE p \in Setters
    <2>1. Between(p) => \/ Lock(p) \/ NextScript(p) \/ Refuse(p) \/ NoDies(p) \/ Report(p)
                        \/ Unlock(p) \/ Succeed(p)
        BY <1>3 DEF Between
    <2>2. at[p] # "idle" /\ reported' \subseteq Setters
        BY <1>3, <2>1 DEF ControlInv, Lock, NextScript, Refuse, NoDies, Report, Unlock, Succeed
    <2>3. Started'
        BY <1>1, <1>3, <2>2 DEF ControlInv, Started, Frame
    <2>4. ASSUME NEW s \in Setters, s # p PROVE Ended(s)'
        BY <1>1, <2>4 DEF ControlInv, Ended, Frame
    <2>5. Ended(p)
        BY <1>3 DEF ControlInv
    <2>6. CASE Lock(p)
        <3>1. /\ at[p] = "lock" /\ mutex = Main /\ mutex' = p /\ UNCHANGED <<step, result, reported>>
              /\ at'[p] \in {"install", "write"}
            BY <1>1, <2>6 DEF Lock, FirstPhase
        <3>2. Ended(p)'
            BY <2>5, <3>1 DEF Ended
        <3>3. Held'
            <4>1. \A q \in Locked : q # p => ~Inside(q)
                BY <3>1 DEF ControlInv, Held
            <4>2. \A q \in Locked : q # p => ~Inside(q)'
                BY <1>1, <4>1 DEF Frame, Inside, Active
            <4> QED BY <3>1, <4>2 DEF Held
        <3> QED BY <1>1, <2>2, <2>3, <2>4, <3>2, <3>3 DEF ControlInv
    <2>7. CASE NextScript(p) \/ Refuse(p) \/ NoDies(p) \/ Succeed(p)
        <3>1. /\ at[p] = "return" /\ UNCHANGED <<mutex, reported>> /\ result[p] = "none"
              /\ at'[p] \in {"install", "write", "return"} /\ (result'[p] = "ok" => at'[p] = "return")
            BY <1>1, <2>7 DEF NextScript, Refuse, NoDies, Succeed, FirstPhase
        <3>2. Ended(p)'
            BY <2>5, <3>1 DEF Ended
        <3>3. Held'
            BY <1>1, <3>1 DEF ControlInv, Held, Frame, Inside, Active
        <3> QED BY <1>1, <2>2, <2>3, <2>4, <3>2, <3>3 DEF ControlInv
    <2>8. CASE Report(p)
        <3>1. /\ at[p] = "return" /\ mutex' = mutex /\ result' = result /\ result[p] # "none"
              /\ at'[p] = IF p \in Locked THEN "unlock" ELSE "done"
            BY <1>1, <2>8 DEF Report
        <3>2. Ended(p)'
            BY <2>5, <3>1 DEF Ended
        <3>3. Held'
            BY <1>1, <3>1 DEF ControlInv, Held, Frame, Inside, Active
        <3> QED BY <1>1, <2>2, <2>3, <2>4, <3>2, <3>3 DEF ControlInv
    <2>9. CASE Unlock(p)
        <3>1. /\ at[p] = "unlock" /\ mutex' = Main /\ UNCHANGED <<result, reported>> /\ at'[p] = "done"
            BY <1>1, <2>9 DEF Unlock
        <3>2. Ended(p)'
            BY <2>5, <3>1 DEF Ended
        <3>3. p \in Locked /\ mutex = p
            BY <2>5, <3>1 DEF Ended, ControlInv, Held, Inside
        <3>4. \A q \in Locked : ~Inside(q)'
            BY <1>1, <3>1, <3>3 DEF ControlInv, Held, Frame, Inside, Active
        <3>5. Held'
            BY <3>4 DEF Held
        <3> QED BY <1>1, <2>2, <2>3, <2>4, <3>2, <3>5 DEF ControlInv
    <2> QED BY <2>1, <2>6, <2>7, <2>8, <2>9
<1> QED BY <1>2, <1>3 DEF Procs

\* StartSetters brings every requested set function before its first script.
LEMMA StartEffect ==
    ASSUME ControlInv, StartSetters
    PROVE  /\ UNCHANGED <<requested, regs, local, remote, got, step, reported, mutex, result>>
           /\ at' \in [Procs -> Phases] /\ at'[Main] = "collect" /\ reported = {}
           /\ \A s \in Setters :
                /\ step[s] = 1 /\ result[s] = "none" /\ at[s] = "idle"
                /\ This(s)' = Prog(s)[1] /\ Prog(s)[1].op # "modify"
                /\ at'[s] \in {"idle", "lock", "install", "write"}
                /\ at'[s] # "idle" => s \in requested
                /\ at'[s] = "lock" <=> s \in requested /\ s \in Locked
                /\ at'[s] = "install" => Prog(s)[1].op = "master"
<1>1. /\ UNCHANGED <<requested, regs, local, remote, got, step, reported, mutex, result>>
      /\ at[Main] = "return"
      /\ at' = [p \in Procs |-> IF p = Main THEN "collect"
                                ELSE IF p \notin requested THEN "idle"
                                ELSE IF p \in Locked THEN "lock" ELSE FirstPhase(Prog(p)[1])]
    BY DEF StartSetters, given, fileVars
<1>2. at' \in [Procs -> Phases] /\ at'[Main] = "collect"
    BY <1>1, Scripts DEF FirstPhase, Phases
<1>3. ASSUME NEW s \in Setters
      PROVE  /\ step[s] = 1 /\ result[s] = "none" /\ at[s] = "idle" /\ s \notin reported
             /\ This(s)' = Prog(s)[1] /\ Prog(s)[1].op # "modify"
    <2>1. at[s] = "idle"
        BY <1>1 DEF ControlInv, Started
    <2>2. step[s] = 1 /\ result[s] = "none" /\ s \notin reported
        BY <2>1 DEF ControlInv, Ended
    <2>3. 1 \in 1..Len(Prog(s))
        <3>1. Len(Prog(s)) \in Nat \ {0}
            BY Scripts
        <3> QED BY <3>1
    <2>4. Prog(s)[1].op # "modify"
        BY <2>3, ReadBefore
    <2> QED BY <1>1, <2>1, <2>2, <2>4 DEF This
<1>4. ASSUME NEW s \in Setters
      PROVE  at'[s] = IF s \notin requested THEN "idle"
                      ELSE IF s \in Locked THEN "lock" ELSE FirstPhase(Prog(s)[1])
    BY <1>1, Scripts
<1>5. reported = {}
    BY <1>3 DEF ControlInv
<1> QED BY <1>1, <1>2, <1>3, <1>4, <1>5 DEF FirstPhase

LEMMA ControlStep ==
    ASSUME ControlInv, [Next]_vars PROVE ControlInv'
<1>1. CASE StartSetters
    <2>1. Shape' /\ Started' /\ reported' \subseteq Setters
        BY <1>1, StartEffect DEF ControlInv, Shape, Started
    <2>2. Held'
        BY <1>1, StartEffect, Scripts DEF Held, Inside, Active
    <2>3. \A s \in Setters : Ended(s)'
        BY <1>1, StartEffect DEF Ended
    <2> QED BY <2>1, <2>2, <2>3 DEF ControlInv
<1>2. CASE UNCHANGED vars
    <2>1. UNCHANGED <<requested, regs, local, remote, at, step, got, result, reported, mutex>>
        BY <1>2 DEF vars, given, fileVars, setterVars
    <2>2. Shape' /\ Started' /\ reported' \subseteq Setters
        BY <2>1 DEF ControlInv, Shape, Started
    <2>3. Held' /\ \A s \in Setters : Ended(s)'
        BY <2>1 DEF ControlInv, Held, Inside, Active, Ended
    <2> QED BY <2>2, <2>3 DEF ControlInv
<1> QED BY <1>1, <1>2, StepCases, ControlRunScript, ControlBetween

LEMMA ControlInit ==
    ASSUME Init PROVE ControlInv
<1>1. /\ requested \in Requests /\ DOMAIN regs = Registers
      /\ DOMAIN local = Files /\ DOMAIN remote = Files /\ DOMAIN got = Procs
      /\ at \in [Procs -> Phases] /\ step = [p \in Procs |-> 1]
      /\ result = [p \in Procs |-> "none"] /\ reported = {}
      /\ \A s \in Setters : at[s] = "idle"
    BY Scripts DEF Init, Phases
<1>2. \A p \in Procs : Len(Prog(p)) \in Nat \ {0}
    BY Scripts
<1>3. Shape
    <2>1. \A p \in Procs : 1 \in 1..Len(Prog(p))
        BY <1>2
    <2> QED BY <1>1, <2>1 DEF Shape
<1>4. Started /\ Held /\ \A s \in Setters : Ended(s)
    BY <1>1, Scripts DEF Started, Held, Inside, Active, Ended
<1> QED BY <1>1, <1>3, <1>4 DEF ControlInv

-----------------------------------------------------------------------------
(***************************************************************************)
(* What is reported and is lost, is lost to a rival.                       *)
(***************************************************************************)

\* The scripts of s whose file no other goroutine can replace: those that write, and those
\* of a setter with a mutex.
Watched(s) == Writes(This(s)) \/ (s \in Locked /\ This(s).op = "read")
OwnText(s) == [script |-> This(s), value |-> NewValue(This(s), got[s])]

\* Such a file has the text that s has written, wherever s goes on to use it.
Own(s) ==
    Watched(s) =>
        /\ at[s] = "push" => local[This(s).file] = <<OwnText(s)>>
        /\ at[s] \in {"install", "run"} => remote[This(s).file] = <<OwnText(s)>>

\* The scripts of s that are over.
Passed(s) ==
    {k \in 1..Len(Prog(s)) :
        k < step[s] \/ (k = step[s] /\ at[s] \in {"uninstall", "return", "unlock", "done"})}

\* A change that only a failure can prevent, and where it is to be.
Safe(s, k) ==
    /\ result[s] # "err" /\ Writes(Prog(s)[k]) /\ Prog(s)[k].exact /\ Prog(s)[k].checked
    /\ ~Hotplug /\ ~Rival(s, k)
There(s, k) == \A c \in Meant(Prog(s)[k]) : Prog(s)[k].field \in regs[Prog(s)[k].reg][c].set

Made(s) == \A k \in Passed(s) : Safe(s, k) => There(s, k)

\* s has read the register that it will write.
Modifying(s) ==
    \/ This(s).op = "modify" /\ Running(s)
    \/ This(s).op = "read" /\ at[s] \in {"uninstall", "return"} /\ result[s] = "none"

\* The value that a setter with the mutex has read has all changes of the others.
Fresh ==
    \A s \in Locked : Modifying(s) =>
        \A q \in Locked : \A k \in Passed(q) :
            Safe(q, k) /\ Prog(q)[k].reg = This(s).reg => Prog(q)[k].field \in got[s].set

LossInv == ControlInv /\ (\A s \in Setters : Own(s) /\ Made(s)) /\ Fresh

LEMMA Separate ==
    ASSUME ControlInv, NEW p \in Procs, NEW s \in Setters, p # s,
           Active(p), Active(s), Watched(s)
    PROVE  This(s).file # This(p).file
<1>1. p # Main
    BY Scripts DEF ControlInv, Started, Active
<1>2. p \in Setters
    BY <1>1 DEF Procs
<1>3. p \in requested /\ s \in requested /\ requested \in Requests
    BY <1>2 DEF ControlInv, Started, Shape, Active
<1>4. ~({s, p} \subseteq Locked)
    BY DEF ControlInv, Held, Inside
<1>5. OwnScripts(s, p)
    BY <1>3, <1>4, ProgramAssumption
<1>6. This(s) \in ScriptsOf(s) /\ This(p) \in ScriptsOf(p)
    BY ThisScript, Scripts DEF ControlInv
<1> QED BY <1>5, <1>6 DEF OwnScripts, Watched, Touches, Writes

LEMMA FileFrame ==
    ASSUME Shape, NEW p \in Procs, RunScript(p)
    PROVE  \A f \in Files : f # This(p).file => local'[f] = local[f] /\ remote'[f] = remote[f]
<1>1. CASE WriteFile(p) \/ PushFile(p)
    BY <1>1 DEF WriteFile, PushFile, Shape
<1>2. CASE ~(WriteFile(p) \/ PushFile(p))
    BY <1>2 DEF RunScript, PushFails, InstallLkms, RunProbe, RunPanics, RunRead, RunWrite, RunInsert,
        RunFails, UninstallLkms, fileVars
<1> QED BY <1>1, <1>2

LEMMA OwnRunScript ==
    ASSUME ControlInv, \A s \in Setters : Own(s), NEW p \in Procs, RunScript(p)
    PROVE  \A s \in Setters : Own(s)'
<1> SUFFICES ASSUME NEW s \in Setters, Own(s) PROVE Own(s)'
    OBVIOUS
<1> USE DEF OwnText, Watched
<1>1. Shape /\ s \in Procs /\ Active(p) /\ step' = step /\ This(s)' = This(s)
    BY Scripts, RunScriptFrame DEF ControlInv, Active, This
<1>2. CASE s # p
    <2>1. at'[s] = at[s] /\ got'[s] = got[s]
        BY <1>1, <1>2, RunScriptFrame DEF Frame
    <2>2. ASSUME Active(s), Watched(s)
          PROVE  local'[This(s).file] = local[This(s).file] /\ remote'[This(s).file] = remote[This(s).file]
        <3>1. This(s).file # This(p).file
            BY <1>1, <1>2, <2>2, Separate
        <3>2. This(s).file \in Files
            BY <1>1, ThisScript
        <3> QED BY <1>1, <3>1, <3>2, FileFrame
    <2> QED BY <1>1, <2>1, <2>2 DEF Own, Active
<1>3. CASE s = p
    <2>1. This(p).file \in Files /\ p \in Setters /\ Own(p)
        BY <1>1, <1>3, ThisScript
    <2> USE <1>1, <2>1 DEF Shape
    <2>2. CASE WriteFile(p)
        <3>1. got' = got /\ at'[p] = "push" /\ local'[This(p).file] = <<OwnText(p)>>
            BY <2>2 DEF WriteFile
        <3> QED BY <1>3, <3>1 DEF Own
    <2>3. CASE PushFile(p)
        <3>1. got' = got /\ at[p] = "push" /\ at'[p] \in {"install", "run"}
              /\ remote'[This(p).file] = local[This(p).file]
            BY <2>3 DEF PushFile, AfterPush
        <3> QED BY <1>3, <3>1 DEF Own
    <2>4. CASE InstallLkms(p)
        <3>1. /\ got' = got /\ remote' = remote /\ at[p] = "install"
              /\ at'[p] = "run" \/ (at'[p] = "write" /\ This(p).op = "master")
            BY <2>4 DEF InstallLkms, AfterInstall, fileVars
        <3> QED BY <1>3, <3>1 DEF Own
    <2>5. CASE RunPanics(p)
        <3>1. UNCHANGED <<got, at, local, remote>>
            BY <2>5 DEF RunPanics, setterVars, fileVars
        <3> QED BY <1>3, <3>1 DEF Own
    <2>6. CASE \/ PushFails(p) \/ RunProbe(p) \/ RunRead(p) \/ RunWrite(p) \/ RunInsert(p)
               \/ RunFails(p) \/ UninstallLkms(p)
        <3>1. at'[p] \in {"uninstall", "return"}
            BY <2>6 DEF PushFails, RunProbe, RunRead, RunWrite, RunInsert, RunFails, UninstallLkms
        <3> QED BY <1>3, <3>1 DEF Own
    <2> QED BY <2>2, <2>3, <2>4, <2>5, <2>6 DEF RunScript
<1> QED BY <1>2, <1>3

LEMMA OwnBetween ==
    ASSUME ControlInv, \A s \in Setters : Own(s), NEW p \in Procs, Between(p)
    PROVE  \A s \in Setters : Own(s)'
<1> SUFFICES ASSUME NEW s \in Setters, Own(s) PROVE Own(s)'
    OBVIOUS
<1>1. Shape /\ s \in Procs /\ Main \notin Setters /\ Frame(p) /\ UNCHANGED <<local, remote, got>>
    BY Scripts, BetweenFrame DEF ControlInv
<1>2. CASE s # p
    <2>1. This(s)' = This(s) /\ at'[s] = at[s]
        BY <1>1, <1>2 DEF Frame, This
    <2> QED BY <1>1, <2>1 DEF Own, OwnText, Watched
<1>3. CASE s = p
    <2>1. CASE Lock(p)
        <3>1. This(p)' = This(p) /\ at'[p] = FirstPhase(This(p))
            BY <1>1, <2>1 DEF Lock, Shape, This
        <3> QED BY <1>3, <3>1 DEF Own, Watched, Writes, FirstPhase
    <2>2. CASE NextScript(p)
        <3>1. step'[p] = step[p] + 1
            BY <1>1, <2>2 DEF NextScript, Shape
        <3>2. This(p)' = Prog(p)[step[p] + 1] /\ at'[p] = FirstPhase(Prog(p)[step[p] + 1])
            BY <1>1, <2>2, <3>1 DEF NextScript, Shape, This
        <3> QED BY <1>3, <3>2 DEF Own, Watched, Writes, FirstPhase
    <2>3. CASE Refuse(p) \/ NoDies(p) \/ Report(p) \/ Unlock(p) \/ Succeed(p)
        <3>1. at'[p] \in {"return", "unlock", "done"}
            BY <1>1, <2>3 DEF Refuse, NoDies, Report, Unlock, Succeed, Shape
        <3> QED BY <1>3, <3>1 DEF Own
    <2> QED BY <1>1, <1>3, <2>1, <2>2, <2>3 DEF Between
<1> QED BY <1>2, <1>3

\* The writing of a script: its own text, to some CPUs, and to all that are meant when the
\* script has not failed.
LEMMA WriteEffect ==
    ASSUME ControlInv, \A s \in Setters : Own(s), NEW p \in Procs, RunScript(p), regs' # regs
    PROVE  /\ p \in Setters /\ Writes(This(p)) /\ This(p).reg \in Registers /\ at[p] = "run"
           /\ \E C \in SUBSET Meant(This(p)) :
                /\ regs' = Written(OwnText(p), C)
                /\ ~RunFails(p) => C \in Reached(This(p))
<1>1. /\ at[p] = "run" /\ Writes(This(p))
      /\ RunWrite(p) \/ RunInsert(p) \/ RunFails(p)
    BY DEF RunScript, WriteFile, PushFile, PushFails, InstallLkms, RunProbe, RunPanics, RunRead,
           RunWrite, RunInsert, RunFails, UninstallLkms, Writes
<1>2. p \in Setters /\ Shape
    BY <1>1, MainScript DEF ControlInv, Procs, Touches
<1>3. remote[This(p).file][1] = OwnText(p) /\ OwnText(p).script = This(p)
    <2>1. remote[This(p).file] = <<OwnText(p)>>
        BY <1>1, <1>2 DEF Own, Watched
    <2> QED BY <2>1 DEF OwnText
<1>4. This(p).reg \in Registers
    BY <1>1, <1>2, ThisScript DEF Touches
<1>5. CASE RunFails(p)
    BY <1>1, <1>2, <1>3, <1>4, <1>5 DEF RunFails
<1>6. CASE RunWrite(p) \/ RunInsert(p)
    <2>1. PICK C \in Reached(This(p)) : regs' = Written(OwnText(p), C)
        BY <1>3, <1>6 DEF RunWrite, RunInsert
    <2>2. C \in SUBSET Meant(This(p))
        BY <2>1 DEF Reached
    <2> QED BY <1>1, <1>2, <1>4, <2>1, <2>2
<1> QED BY <1>1, <1>5, <1>6

\* What a step of RunScripts adds to the changes that are to be there.
LEMMA PassedRunScript ==
    ASSUME ControlInv, NEW p \in Procs, RunScript(p), NEW s \in Setters, NEW k \in Passed(s)',
           Safe(s, k)'
    PROVE  /\ Safe(s, k)
           /\ \/ k \in Passed(s) /\ <<s, k>> # <<p, step[p]>>
              \/ k \in Passed(s) /\ regs' = regs
              \/ s = p /\ k = step[p] /\ Writes(This(p)) /\ (RunWrite(p) \/ RunInsert(p))
<1>1. /\ Shape /\ s \in Procs /\ step' = step /\ Frame(p)
      /\ at[p] \in {"write", "push", "install", "run", "uninstall"}
      /\ result'[p] \in {result[p], "err"} /\ requested' = requested
    BY Scripts, RunScriptFrame DEF ControlInv, Frame
<1>2. Safe(s, k)
    <2>1. result[s] # "err"
        BY <1>1 DEF Safe, Frame
    <2>2. Hotplug' = Hotplug /\ Rival(s, k)' = Rival(s, k)
        BY <1>1 DEF Hotplug, Rival
    <2> QED BY <2>1, <2>2 DEF Safe
<1>3. CASE s # p
    BY <1>1, <1>2, <1>3 DEF Passed, Frame
<1>4. CASE s = p /\ k # step[p]
    BY <1>1, <1>2, <1>4 DEF Passed
<1>5. CASE s = p /\ k = step[p]
    <2>1. Writes(This(p)) /\ result'[p] # "err"
        BY <1>5 DEF Safe, This
    <2>2. at'[p] \in {"uninstall", "return"}
        BY <1>1, <1>5, RunScriptFrame DEF Passed, Active
    <2>3. CASE UninstallLkms(p)
        BY <1>1, <1>2, <1>5, <2>3 DEF UninstallLkms, Passed
    <2>4. CASE ~UninstallLkms(p)
        <3>1. ~(PushFails(p) \/ RunFails(p))
            BY <1>1, <2>1 DEF PushFails, RunFails, Shape
        <3>2. ~(WriteFile(p) \/ PushFile(p) \/ InstallLkms(p))
            BY <1>1, <2>2 DEF WriteFile, PushFile, InstallLkms, AfterPush, AfterInstall, Shape
        <3>3. ~(RunProbe(p) \/ RunRead(p))
            BY <2>1 DEF RunProbe, RunRead, Writes
        <3>4. ~RunPanics(p)
            BY <1>1, <2>2 DEF RunPanics, setterVars
        <3> QED BY <1>2, <1>5, <2>1, <2>4, <3>1, <3>2, <3>3, <3>4 DEF RunScript
    <2> QED BY <2>3, <2>4
<1> QED BY <1>3, <1>4, <1>5

\* No writing takes away a change that no rival threatens.
LEMMA KeptByWrite ==
    ASSUME LossInv, NEW p \in Procs, RunScript(p), NEW s \in Setters, NEW k \in Passed(s),
           Safe(s, k), <<s, k>> # <<p, step[p]>>
    PROVE  There(s, k)'
<1> DEFINE t == Prog(s)[k]
           r == This(p).reg
<1>1. /\ Shape /\ s \in Procs /\ There(s, k) /\ k \in 1..Len(Prog(s)) /\ Writes(t)
      /\ DOMAIN regs = Registers
    BY Scripts DEF LossInv, ControlInv, Shape, Made, Passed, Safe
<1>2. CASE regs' = regs
    BY <1>1, <1>2 DEF There
<1>3. CASE regs' # regs
    <2>1. /\ p \in Setters /\ Writes(This(p)) /\ r \in Registers /\ at[p] = "run"
          /\ \E C \in SUBSET Meant(This(p)) : regs' = Written(OwnText(p), C)
        BY <1>3, WriteEffect DEF LossInv
    <2>2. PICK C \in SUBSET Meant(This(p)) : regs' = Written(OwnText(p), C)
        BY <2>1
    <2>3. C \subseteq CPUs /\ Meant(t) \subseteq CPUs
        BY ProgramAssumption DEF Meant
    <2>4. OwnText(p).script = This(p) /\ OwnText(p).value = NewValue(This(p), got[p])
        BY DEF OwnText
    <2>5. /\ \A b \in Registers : b # r => regs'[b] = regs[b]
          /\ \A c \in CPUs : regs'[r][c] =
                IF c \notin C THEN regs[r][c]
                ELSE IF This(p).op # "insert" THEN NewValue(This(p), got[p])
                ELSE [of |-> regs[r][c].of, set |-> regs[r][c].set \cup {This(p).field}]
        BY <1>1, <2>1, <2>2, <2>4 DEF Written
    <2>6. t.reg \in Registers
        <3>1. t \in ScriptsOf(s) /\ t.reg # ""
            BY <1>1, Scripts, ProgramAssumption DEF Touches
        <3> QED BY <1>1, <3>1, Scripts
    <2>7. CASE t.reg # r
        BY <1>1, <2>5, <2>6, <2>7 DEF There
    <2>8. CASE t.reg = r /\ This(p).op = "insert"
        <3>1. ASSUME NEW c \in Meant(t) PROVE t.field \in regs'[r][c].set
            <4>1. t.field \in regs[r][c].set /\ c \in CPUs
                BY <1>1, <2>3, <2>8 DEF There
            <4>2. regs'[r][c] =
                     IF c \notin C THEN regs[r][c]
                     ELSE [of |-> regs[r][c].of, set |-> regs[r][c].set \cup {This(p).field}]
                BY <2>5, <2>8, <4>1
            <4>3. CASE c \notin C
                BY <4>1, <4>2, <4>3
            <4>4. CASE c \in C
                <5>1. regs'[r][c].set = regs[r][c].set \cup {This(p).field}
                    BY <4>2, <4>4
                <5> QED BY <4>1, <5>1
            <4> QED BY <4>3, <4>4
        <3> QED BY <2>8, <3>1 DEF There
    <2>9. CASE t.reg = r /\ This(p).op # "insert"
        <3>1. This(p).op \in {"modify", "assign"} /\ p \in requested
            BY <2>1, <2>9 DEF Writes, LossInv, ControlInv, Started
        <3>2. {s, p} \subseteq Locked /\ This(p).op = "modify"
            <4>1. step[p] \in 1..Len(Prog(p)) /\ Prog(p)[step[p]] = This(p)
                BY <1>1, ThisScript
            <4>2. ~Rival(s, k) /\ <<p, step[p]>> # <<s, k>>
                BY DEF Safe
            <4> QED BY <2>9, <3>1, <4>1, <4>2 DEF Rival
        <3>3. Modifying(p)
            BY <2>1, <3>2 DEF Modifying, Running
        <3>4. t.field \in got[p].set
            BY <2>9, <3>2, <3>3 DEF LossInv, Fresh
        <3>5. t.field \in NewValue(This(p), got[p]).set
            BY <3>2, <3>4 DEF NewValue
        <3> QED BY <1>1, <2>3, <2>5, <2>9, <3>5 DEF There
    <2> QED BY <2>7, <2>8, <2>9
<1> QED BY <1>2, <1>3

\* A script that has not failed leaves its own change everywhere it is to be.
LEMMA MadeByWrite ==
    ASSUME LossInv, NEW p \in Setters, RunWrite(p) \/ RunInsert(p), NEW k, k = step[p], Safe(p, k)
    PROVE  There(p, k)'
<1> DEFINE r == This(p).reg
<1>1. /\ Shape /\ p \in Procs /\ Prog(p)[k] = This(p) /\ at[p] = "run" /\ Writes(This(p))
      /\ DOMAIN regs = Registers /\ r \in Registers
    BY Scripts, ThisScript DEF LossInv, ControlInv, Shape, RunWrite, RunInsert, Writes, Touches
<1>2. This(p).exact /\ Reached(This(p)) = {Meant(This(p))}
    BY <1>1 DEF Safe, Reached
<1>3. remote[This(p).file][1] = OwnText(p)
    BY <1>1 DEF LossInv, Own, Watched
<1>4. OwnText(p).script = This(p) /\ OwnText(p).value = NewValue(This(p), got[p])
    BY DEF OwnText
<1>5. regs' = Written(OwnText(p), Meant(This(p)))
    BY <1>2, <1>3, <1>4 DEF RunWrite, RunInsert
<1>6. Meant(This(p)) \subseteq CPUs
    BY ProgramAssumption DEF Meant
<1>7. \A c \in Meant(This(p)) : regs'[r][c] =
          IF This(p).op # "insert" THEN NewValue(This(p), got[p])
          ELSE [of |-> regs[r][c].of, set |-> regs[r][c].set \cup {This(p).field}]
    BY <1>1, <1>4, <1>5, <1>6 DEF Written
<1>8. This(p).op # "insert" => This(p).field \in NewValue(This(p), got[p]).set
    BY <1>1, <1>2 DEF NewValue, Writes
<1>9. ASSUME NEW c \in Meant(This(p)) PROVE This(p).field \in regs'[r][c].set
    <2>1. CASE This(p).op # "insert"
        BY <1>7, <1>8, <2>1
    <2>2. CASE This(p).op = "insert"
        <3>1. regs'[r][c] = [of |-> regs[r][c].of, set |-> regs[r][c].set \cup {This(p).field}]
            BY <1>7, <2>2
        <3>2. regs'[r][c].set = regs[r][c].set \cup {This(p).field}
            BY <3>1
        <3> QED BY <3>2
    <2> QED BY <2>1, <2>2
<1> QED BY <1>1, <1>9 DEF There

LEMMA MadeRunScript ==
    ASSUME LossInv, NEW p \in Procs, RunScript(p), NEW s \in Setters PROVE Made(s)'
<1> SUFFICES ASSUME NEW k \in Passed(s)', Safe(s, k)' PROVE There(s, k)'
    BY DEF Made
<1>1. Safe(s, k) /\ ControlInv
    BY PassedRunScript DEF LossInv
<1>2. CASE k \in Passed(s) /\ <<s, k>> # <<p, step[p]>>
    BY <1>1, <1>2, KeptByWrite
<1>3. CASE k \in Passed(s) /\ regs' = regs
    BY <1>1, <1>3 DEF LossInv, Made, There
<1>4. CASE s = p /\ k = step[p] /\ (RunWrite(p) \/ RunInsert(p))
    BY <1>1, <1>4, MadeByWrite
<1> QED BY <1>1, <1>2, <1>3, <1>4, PassedRunScript

\* Only reading makes a setter one that has read.
LEMMA ModifyingRunScript ==
    ASSUME Shape, NEW p \in Procs, RunScript(p), Modifying(p)'
    PROVE  This(p)' = This(p) /\ (RunRead(p) \/ (Modifying(p) /\ got'[p] = got[p]))
<1>1. /\ step' = step /\ This(p)' = This(p) /\ result' \in [Procs -> {"none", "ok", "err"}]
      /\ p \in DOMAIN at /\ p \in DOMAIN result
    BY RunScriptFrame DEF This, Shape
<1>2. CASE WriteFile(p) \/ PushFile(p) \/ InstallLkms(p)
    <2>1. /\ got' = got /\ at'[p] \in {"write", "push", "install", "run"}
          /\ at[p] \in {"write", "push", "install"}
        BY <1>1, <1>2 DEF WriteFile, PushFile, InstallLkms, AfterPush, AfterInstall
    <2> QED BY <1>1, <2>1 DEF Modifying, Running
<1>3. CASE PushFails(p) \/ RunFails(p)
    <2>1. at'[p] = "uninstall" /\ result'[p] = "err"
        BY <1>1, <1>3 DEF PushFails, RunFails
    <2> QED BY <2>1 DEF Modifying, Running
<1>4. CASE RunProbe(p) \/ RunWrite(p) \/ RunInsert(p)
    <2>1. at'[p] = "uninstall" /\ This(p).op # "read"
        BY <1>1, <1>4 DEF RunProbe, RunWrite, RunInsert
    <2> QED BY <1>1, <2>1 DEF Modifying, Running
<1>5. CASE UninstallLkms(p)
    <2>1. at[p] = "uninstall" /\ at'[p] = "return" /\ UNCHANGED <<got, result>>
        BY <1>1, <1>5 DEF UninstallLkms
    <2> QED BY <1>1, <2>1 DEF Modifying, Running
<1>6. CASE RunPanics(p)
    BY <1>1, <1>6 DEF RunPanics, setterVars, Modifying, Running
<1> QED BY <1>1, <1>2, <1>3, <1>4, <1>5, <1>6 DEF RunScript

LEMMA FreshRunScript ==
    ASSUME LossInv, NEW p \in Procs, RunScript(p) PROVE Fresh'
<1> SUFFICES ASSUME NEW s \in Locked, Modifying(s)', NEW q \in Locked, NEW k \in Passed(q)',
                    Safe(q, k)', Prog(q)[k].reg = This(s)'.reg
             PROVE  Prog(q)[k].field \in got'[s].set
    BY DEF Fresh
<1>1. /\ ControlInv /\ Shape /\ s \in Setters /\ q \in Setters /\ s \in Procs /\ q \in Procs
      /\ Active(p) /\ Frame(p) /\ step' = step
    BY Scripts, RunScriptFrame DEF LossInv, ControlInv, Active
<1>2. Safe(q, k)
    BY <1>1, PassedRunScript
<1>3. CASE s # p
    <2>1. Modifying(s) /\ This(s)' = This(s) /\ got'[s] = got[s]
        BY <1>1, <1>3 DEF Modifying, Running, Frame, This
    <2>2. Active(s)
        BY <2>1 DEF Modifying, Running, Active
    <2>3. q # p
        BY <1>1, <1>3, <2>2 DEF ControlInv, Held, Inside
    <2>4. k \in Passed(q)
        BY <1>1, <2>3 DEF Passed, Frame
    <2> QED BY <1>2, <2>1, <2>4 DEF LossInv, Fresh
<1>4. CASE s = p
    <2>1. This(p)' = This(p) /\ (RunRead(p) \/ (Modifying(p) /\ got'[p] = got[p]))
        BY <1>1, <1>4, ModifyingRunScript
    <2>2. CASE RunRead(p)
        <3>1. This(p).op = "read" /\ at[p] = "run" /\ ~(RunWrite(p) \/ RunInsert(p)) /\ This(p).reg \in Registers
            BY <1>1, <2>2, ThisScript DEF RunRead, RunWrite, RunInsert, Touches
        <3>2. k \in Passed(q)
            BY <1>1, <3>1, PassedRunScript
        <3>3. There(q, k)
            BY <1>1, <1>2, <3>2 DEF LossInv, Made
        <3>4. Boot \in Meant(Prog(q)[k])
            BY ProgramAssumption DEF Meant
        <3>5. remote[This(p).file][1].script = This(p)
            <4>1. remote[This(p).file] = <<OwnText(p)>>
                BY <1>1, <1>4, <3>1 DEF LossInv, Own, Watched
            <4> QED BY <4>1 DEF OwnText
        <3>6. got'[p] = regs[This(p).reg][Boot]
            BY <1>1, <2>2, <3>5 DEF RunRead, Shape
        <3> QED BY <1>4, <2>1, <3>3, <3>4, <3>6 DEF There
    <2>3. CASE ~RunRead(p) /\ Modifying(p) /\ got'[p] = got[p]
        <3>1. k \in Passed(q)
            <4>1. This(p).op \in {"read", "modify"} /\ (This(p).op = "modify" => Running(p)')
                BY <2>1, <2>3, <1>4 DEF Modifying
            <4>2. ~(RunWrite(p) \/ RunInsert(p))
                <5>1. (RunWrite(p) \/ RunInsert(p)) => at'[p] = "uninstall" /\ This(p).op # "read"
                    BY <1>1 DEF RunWrite, RunInsert, Shape
                <5> QED BY <4>1, <5>1 DEF Running
            <4> QED BY <1>1, <4>2, PassedRunScript
        <3> QED BY <1>2, <1>4, <2>1, <2>3, <3>1 DEF LossInv, Fresh
    <2> QED BY <2>1, <2>2, <2>3
<1> QED BY <1>3, <1>4

\* Between its scripts a set function makes and loses nothing.
LEMMA PassedBetween ==
    ASSUME ControlInv, NEW p \in Procs, Between(p), NEW s \in Setters, NEW k \in Passed(s)',
           Safe(s, k)'
    PROVE  k \in Passed(s) /\ Safe(s, k)
<1>1. Shape /\ s \in Procs /\ Frame(p) /\ requested' = requested
    BY Scripts, BetweenFrame DEF ControlInv, Frame
<1>2. Hotplug' = Hotplug /\ Rival(s, k)' = Rival(s, k)
    BY <1>1 DEF Hotplug, Rival
<1>3. CASE s # p
    BY <1>1, <1>2, <1>3 DEF Safe, Passed, Frame
<1>4. CASE s = p
    <2>1. p \in Setters /\ p # Main /\ p \in DOMAIN result /\ p \in DOMAIN at /\ p \in DOMAIN step
          /\ step[p] \in Nat /\ Len(Prog(p)) \in Nat
        BY <1>1, <1>4, Scripts DEF Shape
    <2>2. CASE Lock(p)
        BY <1>2, <1>4, <2>1, <2>2 DEF Lock, FirstPhase, Safe, Passed
    <2>3. CASE NextScript(p)
        BY <1>2, <1>4, <2>1, <2>3 DEF NextScript, FirstPhase, Safe, Passed
    <2>4. CASE Refuse(p) \/ NoDies(p) \/ Succeed(p)
        BY <1>2, <1>4, <2>1, <2>4 DEF Refuse, NoDies, Succeed, Safe, Passed
    <2>5. CASE Report(p) \/ Unlock(p)
        BY <1>2, <1>4, <2>1, <2>5 DEF Report, Unlock, Safe, Passed
    <2> QED BY <1>4, <2>1, <2>2, <2>3, <2>4, <2>5 DEF Between
<1> QED BY <1>3, <1>4

\* The next script of one that has read a register is the one that modifies it.
LEMMA ModifyingBetween ==
    ASSUME ControlInv, NEW p \in Setters, Between(p), Modifying(p)'
    PROVE  Modifying(p) /\ This(p)'.reg = This(p).reg
<1>1. /\ p \in Procs /\ p # Main /\ Shape /\ p \in DOMAIN result /\ p \in DOMAIN at /\ p \in DOMAIN step
      /\ step[p] \in Nat /\ Len(Prog(p)) \in Nat /\ step[p] \in 1..Len(Prog(p))
    BY Scripts DEF ControlInv, Shape
<1>2. CASE Lock(p)
    <2>1. This(p)' = This(p) /\ at'[p] \in {"install", "write"} /\ step[p] = 1
        BY <1>1, <1>2 DEF Lock, FirstPhase, This, ControlInv, Ended
    <2>2. This(p).op # "modify"
        BY <1>1, <2>1, ReadBefore DEF This
    <2> QED BY <2>1, <2>2 DEF Modifying
<1>3. CASE NextScript(p)
    <2> DEFINE k == step[p] + 1
    <2>1. /\ This(p)' = Prog(p)[k] /\ at'[p] \in {"install", "write"} /\ k \in 1..Len(Prog(p))
          /\ at[p] = "return" /\ result[p] = "none" /\ k - 1 = step[p]
        BY <1>1, <1>3 DEF NextScript, FirstPhase, This
    <2>2. Prog(p)[k].op = "modify"
        BY <2>1 DEF Modifying
    <2> HIDE DEF k
    <2>3. Prog(p)[k - 1].op = "read" /\ Prog(p)[k - 1].reg = Prog(p)[k].reg
        BY <2>1, <2>2, ReadBefore
    <2> QED BY <2>1, <2>3 DEF Modifying, This
<1>4. CASE Refuse(p) \/ NoDies(p) \/ Succeed(p)
    <2>1. at'[p] = "return" /\ result'[p] # "none"
        BY <1>1, <1>4 DEF Refuse, NoDies, Succeed
    <2> QED BY <2>1 DEF Modifying, Running
<1>5. CASE Report(p) \/ Unlock(p)
    <2>1. at'[p] \in {"unlock", "done"}
        BY <1>1, <1>5 DEF Report, Unlock
    <2> QED BY <2>1 DEF Modifying, Running
<1> QED BY <1>1, <1>2, <1>3, <1>4, <1>5 DEF Between

LEMMA LossBetween ==
    ASSUME LossInv, NEW p \in Procs, Between(p) PROVE LossInv'
<1>1. ControlInv /\ Shape /\ UNCHANGED <<regs, got>> /\ Frame(p)
    BY BetweenFrame DEF LossInv, ControlInv
<1>2. ControlInv' /\ \A s \in Setters : Own(s)'
    BY <1>1, ControlBetween, OwnBetween DEF LossInv
<1>3. ASSUME NEW s \in Setters PROVE Made(s)'
    BY <1>1, <1>3, PassedBetween DEF LossInv, Made, There
<1>4. Fresh'
    <2> SUFFICES ASSUME NEW s \in Locked, Modifying(s)', NEW q \in Locked, NEW k \in Passed(q)',
                        Safe(q, k)', Prog(q)[k].reg = This(s)'.reg
                 PROVE  Prog(q)[k].field \in got'[s].set
        BY DEF Fresh
    <2>1. s \in Setters /\ q \in Setters /\ s \in Procs /\ k \in Passed(q) /\ Safe(q, k)
        BY <1>1, Scripts, PassedBetween
    <2>2. Modifying(s) /\ This(s)'.reg = This(s).reg
        <3>1. CASE s = p
            BY <1>1, <2>1, <3>1, ModifyingBetween
        <3>2. CASE s # p
            BY <1>1, <2>1, <3>2 DEF Modifying, Running, Frame, This
        <3> QED BY <3>1, <3>2
    <2> QED BY <1>1, <2>1, <2>2 DEF LossInv, Fresh
<1> QED BY <1>2, <1>3, <1>4 DEF LossInv

LEMMA LossStart ==
    ASSUME LossInv, StartSetters PROVE LossInv'
<1>1. ControlInv /\ ControlInv'
    BY ControlStep DEF LossInv, Next, SetOnTarget
<1>2. ASSUME NEW s \in Setters PROVE Own(s)' /\ Passed(s)' = {} /\ ~Modifying(s)'
    <2>1. /\ step'[s] = 1 /\ at'[s] \in {"idle", "lock", "install", "write"}
          /\ This(s)' = Prog(s)[1] /\ Prog(s)[1].op # "modify"
          /\ at'[s] = "install" => Prog(s)[1].op = "master"
        BY <1>1, StartEffect
    <2> QED BY <2>1 DEF Own, Watched, Writes, Passed, Modifying
<1> QED BY <1>1, <1>2, Scripts DEF LossInv, Made, Fresh

LEMMA LossStep ==
    ASSUME LossInv, [Next]_vars PROVE LossInv'
<1>1. CASE UNCHANGED vars
    <2>1. UNCHANGED <<requested, regs, local, remote, at, step, got, result, reported, mutex>>
        BY <1>1 DEF vars, given, fileVars, setterVars
    <2>2. /\ ControlInv'
          /\ \A s \in Setters : This(s)' = This(s) /\ OwnText(s)' = OwnText(s) /\ Passed(s)' = Passed(s)
          /\ \A s \in Setters : \A k : (Safe(s, k)' <=> Safe(s, k)) /\ (There(s, k)' <=> There(s, k))
        BY <1>1, <2>1, ControlStep DEF LossInv, This, OwnText, Passed, Safe, There, Hotplug, Rival
    <2>3. \A s \in Setters : Own(s)' /\ Made(s)'
        BY <2>1, <2>2 DEF LossInv, Own, Watched, Made
    <2>4. Fresh'
        BY <2>1, <2>2, Scripts DEF LossInv, Fresh, Modifying, Running
    <2> QED BY <2>2, <2>3, <2>4 DEF LossInv
<1>2. ASSUME NEW p \in Procs, RunScript(p) PROVE LossInv'
    BY <1>2, ControlRunScript, OwnRunScript, MadeRunScript, FreshRunScript DEF LossInv
<1> QED BY <1>1, <1>2, StepCases, LossBetween, LossStart

LEMMA LossInit ==
    ASSUME Init PROVE LossInv
<1>1. ControlInv
    BY ControlInit
<1>2. ASSUME NEW s \in Setters PROVE at[s] = "idle" /\ step[s] = 1
    BY <1>2, Scripts DEF Init
<1>3. ASSUME NEW s \in Setters PROVE Own(s) /\ Passed(s) = {} /\ ~Modifying(s)
    BY <1>2, <1>3 DEF Own, Passed, Modifying, Running
<1> QED BY <1>1, <1>3, Scripts DEF LossInv, Made, Fresh

\* Whatever flags a command gives and in whatever order their scripts are written, pushed
\* and run, a change that a flag reports is on every CPU it is for; what takes it away is a
\* script that assigns to its register, or one that modifies the register without the mutex.
THEOREM ReportedChangesStay == Spec => []LostOnlyToRivals
<1>1. ASSUME LossInv PROVE LostOnlyToRivals
    <2> SUFFICES ASSUME NEW s \in reported, result[s] = "ok", NEW k \in 1..step[s],
                        Writes(Prog(s)[k]), Prog(s)[k].exact, Prog(s)[k].checked,
                        ~Hotplug, ~Rival(s, k)
                 PROVE  There(s, k)
        BY DEF LostOnlyToRivals, There
    <2>1. s \in Setters /\ s \in Procs /\ Shape /\ Made(s)
        BY <1>1, Scripts DEF LossInv, ControlInv
    <2>2. k \in Passed(s)
        <3>1. at[s] \in {"unlock", "done"}
            BY <1>1, <2>1 DEF LossInv, ControlInv, Ended
        <3>2. step[s] \in 1..Len(Prog(s)) /\ Len(Prog(s)) \in Nat
            BY <2>1, Scripts DEF Shape
        <3> QED BY <3>1, <3>2 DEF Passed
    <2> QED BY <2>1, <2>2 DEF Made, Safe
<1> QED BY <1>1, LossInit, LossStep, PTL DEF Spec


-----------------------------------------------------------------------------
(***************************************************************************)
(* No flag brings the bits of another register.                            *)
(***************************************************************************)

\* Bits with this origin may be anywhere in r.
Home(r, from) == from = <<r, Boot>> \/ (from = Zero.of /\ Assigned(r)) \/ Confused(r)

\* What the file f holds is a script of this command, and the value it writes has bits that
\* may be in its register.
Known(f, texts) ==
    texts # <<>> =>
        \E q \in requested \cup {Main} :
            /\ texts[1].script \in ScriptsOf(q) /\ texts[1].script.file = f
            /\ texts[1].script.op \in {"modify", "assign"} =>
                  Home(texts[1].script.reg, texts[1].value.of)

\* Something has been written to the file of p before it is pushed, and pushed before it is run.
Present(p) ==
    /\ at[p] = "push" => local[This(p).file] # <<>>
    /\ at[p] = "run" \/ (at[p] = "install" /\ This(p).op # "master") => remote[This(p).file] # <<>>

FilesKnown == \A f \in Files : Known(f, local[f]) /\ Known(f, remote[f])
ReadHome   == \A s \in Setters : Modifying(s) => Home(This(s).reg, got[s].of)

OriginInv ==
    ControlInv /\ BitsOfOwnRegister /\ FilesKnown /\ (\A p \in Procs : Present(p)) /\ ReadHome

LEMMA Member ==
    ASSUME ControlInv, NEW p \in Procs, Active(p)
    PROVE  /\ p \in requested \cup {Main} /\ requested \subseteq Setters
           /\ \A q \in requested \cup {Main} : q \in Procs
<1>1. requested \subseteq Setters
    BY ProgramAssumption DEF ControlInv, Shape
<1> QED BY <1>1, Scripts DEF ControlInv, Started, Active, Procs

\* The file that p runs has a script of this command that does to some register what that of
\* p does.
LEMMA SharedScript ==
    ASSUME OriginInv, NEW p \in Procs, at[p] = "run"
    PROVE  LET text == remote[This(p).file][1] IN
           \E q \in requested \cup {Main} :
              /\ text.script \in ScriptsOf(q) /\ text.script.file = This(p).file
              /\ text.script.op = This(p).op
              /\ text.script.op \in {"modify", "assign"} => Home(text.script.reg, text.value.of)
              /\ Touches(text.script) => q \in requested /\ text.script.reg \in Registers
<1> DEFINE t == remote[This(p).file][1].script
<1>1. ControlInv /\ Shape /\ Active(p) /\ This(p).file \in Files /\ This(p) \in ScriptsOf(p)
    BY ThisScript DEF OriginInv, ControlInv, Active
<1>2. remote[This(p).file] # <<>>
    BY DEF OriginInv, Present
<1>3. PICK q \in requested \cup {Main} :
         /\ t \in ScriptsOf(q) /\ t.file = This(p).file
         /\ t.op \in {"modify", "assign"} => Home(t.reg, remote[This(p).file][1].value.of)
    BY <1>1, <1>2 DEF OriginInv, FilesKnown, Known
<1>4. q \in Procs /\ (q # Main => q \in requested)
    BY <1>1, Member
<1>5. t.op = This(p).op
    <2>1. \A a, b \in Procs : \A u \in ScriptsOf(a), v \in ScriptsOf(b) :
             u.file = v.file => u.op = v.op
        BY ProgramAssumption
    <2> HIDE DEF t
    <2> QED BY <1>1, <1>3, <1>4, <2>1
<1>6. Touches(t) => t.reg \in Registers
    <2>1. \A u \in ScriptsOf(q) : Touches(u) => u.reg # ""
        BY <1>4, ProgramAssumption
    <2>2. \A u \in ScriptsOf(q) : u \in UNION {ScriptsOf(a) : a \in Procs}
        BY <1>4
    <2> HIDE DEF t
    <2> QED BY <1>3, <2>1, <2>2 DEF Registers
<1>7. Touches(t) => q # Main
    <2> SUFFICES ASSUME q = Main PROVE ~Touches(t)
        OBVIOUS
    <2>1. PICK k \in 1..Len(Prog(Main)) : t = Prog(Main)[k]
        BY <1>3 DEF ScriptsOf
    <2>2. k = 1
        <3>1. k \in 1..1
            BY <2>1, Scripts
        <3> QED BY <3>1
    <2> QED BY <2>1, <2>2, Scripts DEF Touches, Writes
<1> QED BY <1>3, <1>4, <1>5, <1>6, <1>7

LEMMA HomeKept ==
    ASSUME requested' = requested
    PROVE  /\ \A r, from : Home(r, from)' <=> Home(r, from)
           /\ \A r : Assigned(r)' = Assigned(r) /\ Confused(r)' = Confused(r)
           /\ \A f, texts : Known(f, texts)' <=> Known(f, texts)
BY DEF Home, Assigned, Confused, Known

\* Writing a script leaves the bits where they may be.
LEMMA BitsByWrite ==
    ASSUME OriginInv, NEW p \in Procs, at[p] = "run", Writes(This(p)), requested' = requested,
           NEW C, regs' = Written(remote[This(p).file][1], C)
    PROVE  BitsOfOwnRegister'
<1> DEFINE text == remote[This(p).file][1]
           u == text.script.reg
<1>1. /\ text.script.op = This(p).op /\ u \in Registers
      /\ text.script.op \in {"modify", "assign"} => Home(u, text.value.of)
    BY SharedScript DEF Touches, Writes
<1>2. DOMAIN regs = Registers
    BY DEF OriginInv, ControlInv, Shape
<1>3. \A r \in Registers, c \in CPUs :
         regs'[r][c] = IF r # u \/ c \notin C THEN regs[r][c]
                       ELSE IF text.script.op # "insert" THEN text.value
                       ELSE [of |-> regs[r][c].of, set |-> regs[r][c].set \cup {text.script.field}]
    BY <1>1, <1>2 DEF Written
<1>4. ASSUME NEW r \in Registers, NEW c \in CPUs
      PROVE  regs'[r][c].of = regs[r][c].of \/ (r = u /\ regs'[r][c].of = text.value.of
                                                /\ text.script.op # "insert")
    <2>1. CASE r # u \/ c \notin C
        BY <1>3, <2>1
    <2>2. CASE r = u /\ c \in C /\ text.script.op # "insert"
        BY <1>3, <2>2
    <2>3. CASE r = u /\ c \in C /\ text.script.op = "insert"
        <3>1. regs'[r][c] = [of |-> regs[r][c].of, set |-> regs[r][c].set \cup {text.script.field}]
            BY <1>3, <2>3
        <3> QED BY <3>1
    <2> QED BY <2>1, <2>2, <2>3
<1>5. text.script.op # "insert" => Home(u, text.value.of)
    BY <1>1 DEF Writes
<1> QED BY <1>4, <1>5, HomeKept DEF OriginInv, BitsOfOwnRegister, Home

LEMMA BitsRunScript ==
    ASSUME OriginInv, NEW p \in Procs, RunScript(p) PROVE BitsOfOwnRegister'
<1>1. requested' = requested /\ Shape
    BY RunScriptFrame DEF OriginInv, ControlInv, Frame
<1>2. CASE regs' = regs
    BY <1>1, <1>2, HomeKept DEF OriginInv, BitsOfOwnRegister
<1>3. CASE regs' # regs
    <2>1. at[p] = "run" /\ Writes(This(p)) /\ \E C : regs' = Written(remote[This(p).file][1], C)
        BY <1>3 DEF RunScript, WriteFile, PushFile, PushFails, InstallLkms, RunProbe, RunPanics, RunRead,
                    RunWrite, RunInsert, RunFails, UninstallLkms, Writes
    <2> QED BY <1>1, <2>1, BitsByWrite
<1> QED BY <1>2, <1>3

LEMMA FilesRunScript ==
    ASSUME OriginInv, NEW p \in Procs, RunScript(p) PROVE FilesKnown' /\ \A q \in Procs : Present(q)'
<1> DEFINE f == This(p).file
<1>1. /\ ControlInv /\ Shape /\ Frame(p) /\ step' = step /\ requested' = requested /\ Active(p)
      /\ f \in Files /\ This(p) \in ScriptsOf(p) /\ p \in requested \cup {Main}
      /\ DOMAIN local = Files /\ DOMAIN remote = Files /\ p \in DOMAIN at
    BY RunScriptFrame, ThisScript, Member DEF OriginInv, ControlInv, Frame, Active, Shape
<1>2. \A q \in Procs : This(q)' = This(q)
    BY <1>1 DEF This
<1>3. CASE WriteFile(p)
    <2> DEFINE text == [script |-> This(p), value |-> NewValue(This(p), got[p])]
    <2>1. /\ local' = [local EXCEPT ![f] = <<text>>] /\ remote' = remote
          /\ at[p] = "write" /\ at'[p] = "push"
        BY <1>1, <1>3 DEF WriteFile
    <2>2. text.script = This(p) /\ text.value = NewValue(This(p), got[p])
        OBVIOUS
    <2>3. This(p).op \in {"modify", "assign"} => Home(This(p).reg, text.value.of)
        <3>1. This(p).op \in {"modify", "assign"} => p \in Setters /\ p \in requested
            BY <1>1, MainScript DEF Touches, Writes, Procs
        <3>2. CASE This(p).op = "modify"
            <4>1. Modifying(p) /\ text.value.of = got[p].of
                BY <2>1, <2>2, <3>2 DEF Modifying, Running, NewValue
            <4> QED BY <3>1, <3>2, <4>1 DEF OriginInv, ReadHome
        <3>3. CASE This(p).op = "assign"
            <4>1. text.value.of = Zero.of
                BY <2>2, <3>3 DEF NewValue
            <4>2. Assigned(This(p).reg)
                BY <1>1, <3>1, <3>3 DEF Assigned
            <4> QED BY <4>1, <4>2 DEF Home
        <3> QED BY <3>2, <3>3
    <2> HIDE DEF text
    <2>4. Known(f, <<text>>)
        BY <1>1, <2>2, <2>3 DEF Known
    <2>5. FilesKnown'
        BY <1>1, <2>1, <2>4, HomeKept DEF OriginInv, FilesKnown
    <2>6. \A g \in Files : local[g] # <<>> \/ g = f => local'[g] # <<>>
        BY <1>1, <2>1
    <2>7. ASSUME NEW q \in Procs PROVE Present(q)'
        BY <1>1, <1>2, <2>1, <2>6, <2>7, ThisScript DEF OriginInv, Present, Frame
    <2> QED BY <2>5, <2>7
<1>4. CASE PushFile(p)
    <2>1. /\ local' = local /\ remote' = [remote EXCEPT ![f] = local[f]]
          /\ at[p] = "push" /\ at'[p] = AfterPush(This(p))
        BY <1>1, <1>4 DEF PushFile
    <2>2. FilesKnown'
        BY <1>1, <2>1, HomeKept DEF OriginInv, FilesKnown
    <2>3. local[f] # <<>>
        BY <2>1 DEF OriginInv, Present
    <2>4. \A g \in Files : remote[g] # <<>> \/ g = f => remote'[g] # <<>>
        BY <1>1, <2>1, <2>3
    <2>5. ASSUME NEW q \in Procs PROVE Present(q)'
        <3>1. CASE q = p
            BY <1>1, <1>2, <2>1, <2>4, <3>1 DEF Present, AfterPush
        <3>2. CASE q # p
            BY <1>1, <1>2, <2>1, <2>4, <2>5, <3>2, ThisScript DEF OriginInv, Present, Frame
        <3> QED BY <3>1, <3>2
    <2> QED BY <2>2, <2>5
<1>5. CASE ~(WriteFile(p) \/ PushFile(p))
    <2>1. /\ local' = local /\ remote' = remote
          /\ at'[p] \in {"uninstall", "return"} \/ at'[p] = at[p]
             \/ (at[p] = "install" /\ at'[p] = IF This(p).op = "master" THEN "write" ELSE "run")
        BY <1>1, <1>5 DEF RunScript, PushFails, InstallLkms, AfterInstall, RunProbe, RunPanics, RunRead,
                          RunWrite, RunInsert, RunFails, UninstallLkms, fileVars, setterVars
    <2>2. FilesKnown'
        BY <1>1, <2>1, HomeKept DEF OriginInv, FilesKnown
    <2>3. ASSUME NEW q \in Procs PROVE Present(q)'
        <3>1. CASE q = p
            BY <1>1, <1>2, <2>1, <3>1 DEF OriginInv, Present
        <3>2. CASE q # p
            BY <1>1, <1>2, <2>1, <2>3, <3>2 DEF OriginInv, Present, Frame
        <3> QED BY <3>1, <3>2
    <2> QED BY <2>2, <2>3
<1> QED BY <1>3, <1>4, <1>5

\* A register that is read has bits that may be there; through a file that was replaced they
\* are another's.
LEMMA ReadRunScript ==
    ASSUME OriginInv, NEW p \in Procs, RunScript(p) PROVE ReadHome'
<1> SUFFICES ASSUME NEW s \in Setters, Modifying(s)' PROVE Home(This(s).reg, got[s].of)'
    BY DEF ReadHome
<1>1. /\ ControlInv /\ Shape /\ Frame(p) /\ step' = step /\ requested' = requested /\ s \in Procs
      /\ This(s)' = This(s) /\ DOMAIN got = Procs
    BY RunScriptFrame, Scripts DEF OriginInv, ControlInv, Shape, Frame, This
<1>2. CASE s # p
    <2>1. Modifying(s) /\ got'[s] = got[s]
        BY <1>1, <1>2 DEF Modifying, Running, Frame
    <2> QED BY <1>1, <2>1, HomeKept DEF OriginInv, ReadHome
<1>3. CASE s = p
    <2>1. RunRead(p) \/ (Modifying(p) /\ got'[p] = got[p])
        BY <1>1, <1>3, ModifyingRunScript
    <2>2. CASE Modifying(p) /\ got'[p] = got[p]
        BY <1>1, <1>3, <2>2, HomeKept DEF OriginInv, ReadHome
    <2>3. CASE RunRead(p)
        <3> DEFINE t == remote[This(p).file][1].script
        <3>1. /\ at[p] = "run" /\ This(p).op = "read" /\ got'[p] = regs[t.reg][Boot]
              /\ Active(p)
            BY <1>1, <2>3 DEF RunRead, Active
        <3>2. PICK q \in requested \cup {Main} :
                 /\ t \in ScriptsOf(q) /\ t.file = This(p).file /\ t.op = "read"
                 /\ q \in requested /\ t.reg \in Registers
            BY <3>1, SharedScript DEF Touches
        <3>3. p \in requested /\ This(p) \in ScriptsOf(p)
            BY <1>1, <1>3, <3>1, Member, ThisScript, Scripts
        <3>4. t.reg # This(p).reg => Confused(This(p).reg)
            BY <3>1, <3>2, <3>3 DEF Confused
        <3>5. t.reg = This(p).reg => Home(This(p).reg, regs[t.reg][Boot].of)
            BY <3>2, ProgramAssumption DEF OriginInv, BitsOfOwnRegister, Home
        <3> QED BY <1>1, <1>3, <3>1, <3>4, <3>5, HomeKept DEF Home
    <2> QED BY <2>1, <2>2, <2>3
<1> QED BY <1>2, <1>3

LEMMA OriginBetween ==
    ASSUME OriginInv, NEW p \in Procs, Between(p) PROVE OriginInv'
<1>1. /\ ControlInv /\ Shape /\ Frame(p) /\ requested' = requested
      /\ UNCHANGED <<regs, local, remote, got>> /\ ControlInv'
    BY BetweenFrame, ControlBetween DEF OriginInv, ControlInv, Frame
<1>2. BitsOfOwnRegister' /\ FilesKnown'
    BY <1>1, HomeKept DEF OriginInv, BitsOfOwnRegister, FilesKnown
<1>3. ASSUME NEW q \in Procs PROVE Present(q)'
    <2>1. CASE q # p
        <3>1. This(q)' = This(q) /\ at'[q] = at[q]
            BY <1>1, <2>1 DEF Frame, This
        <3> QED BY <1>1, <3>1 DEF OriginInv, Present
    <2>2. CASE q = p
        <3>1. CASE Lock(p)
            <4>1. This(p)' = This(p) /\ at'[p] = FirstPhase(This(p))
                BY <1>1, <3>1 DEF Lock, Shape, This
            <4> QED BY <2>2, <4>1 DEF Present, FirstPhase
        <3>2. CASE NextScript(p)
            <4>1. This(p)' = Prog(p)[step[p] + 1] /\ at'[p] = FirstPhase(Prog(p)[step[p] + 1])
                BY <1>1, <3>2 DEF NextScript, Shape, This
            <4> QED BY <2>2, <4>1 DEF Present, FirstPhase
        <3>3. CASE Refuse(p) \/ NoDies(p) \/ Report(p) \/ Unlock(p) \/ Succeed(p) \/ GiveUp \/ Collected
            <4>1. at'[p] = at[p] \/ at'[p] \in {"return", "unlock", "done"}
                BY <1>1, <3>3 DEF Refuse, NoDies, Report, Unlock, Succeed, GiveUp, Collected, Shape
            <4>2. This(p)' = This(p)
                BY <1>1, <3>3 DEF Refuse, NoDies, Report, Unlock, Succeed, GiveUp, Collected, This
            <4> QED BY <1>1, <2>2, <4>1, <4>2 DEF OriginInv, Present
        <3> QED BY <2>2, <3>1, <3>2, <3>3 DEF Between
    <2> QED BY <2>1, <2>2
<1>4. ReadHome'
    <2> SUFFICES ASSUME NEW s \in Setters, Modifying(s)' PROVE Home(This(s).reg, got[s].of)'
        BY DEF ReadHome
    <2>1. s \in Procs
        BY Scripts
    <2>2. Modifying(s) /\ This(s)'.reg = This(s).reg
        <3>1. CASE s = p
            BY <1>1, <3>1, ModifyingBetween
        <3>2. CASE s # p
            BY <1>1, <2>1, <3>2 DEF Modifying, Running, Frame, This
        <3> QED BY <3>1, <3>2
    <2> QED BY <1>1, <2>2, HomeKept DEF OriginInv, ReadHome
<1> QED BY <1>1, <1>2, <1>3, <1>4 DEF OriginInv

LEMMA OriginStart ==
    ASSUME OriginInv, StartSetters PROVE OriginInv'
<1>1. ControlInv /\ ControlInv' /\ requested' = requested /\ UNCHANGED <<regs, local, remote>>
    BY ControlStep, StartEffect DEF OriginInv, Next, SetOnTarget
<1>2. BitsOfOwnRegister' /\ FilesKnown'
    BY <1>1, HomeKept DEF OriginInv, BitsOfOwnRegister, FilesKnown
<1>3. ASSUME NEW s \in Setters PROVE Present(s)' /\ ~Modifying(s)'
    <2>1. /\ at'[s] \in {"idle", "lock", "install", "write"}
          /\ This(s)' = Prog(s)[1] /\ Prog(s)[1].op # "modify"
          /\ at'[s] = "install" => Prog(s)[1].op = "master"
        BY <1>1, StartEffect
    <2> QED BY <2>1 DEF Present, Modifying
<1>4. Present(Main)'
    BY <1>1, StartEffect DEF Present
<1> QED BY <1>1, <1>2, <1>3, <1>4 DEF OriginInv, ReadHome, Procs

LEMMA OriginStep ==
    ASSUME OriginInv, [Next]_vars PROVE OriginInv'
<1>1. CASE UNCHANGED vars
    <2>1. UNCHANGED <<requested, regs, local, remote, at, step, got, result, reported, mutex>>
        BY <1>1 DEF vars, given, fileVars, setterVars
    <2>2. ControlInv'
        BY ControlStep DEF OriginInv
    <2>3. BitsOfOwnRegister' /\ FilesKnown'
        BY <2>1, HomeKept DEF OriginInv, BitsOfOwnRegister, FilesKnown
    <2>4. (\A p \in Procs : Present(p)') /\ ReadHome'
        BY <2>1, HomeKept DEF OriginInv, Present, ReadHome, Modifying, Running, This
    <2> QED BY <2>2, <2>3, <2>4 DEF OriginInv
<1>2. ASSUME NEW p \in Procs, RunScript(p) PROVE OriginInv'
    BY <1>2, ControlRunScript, BitsRunScript, FilesRunScript, ReadRunScript DEF OriginInv
<1> QED BY <1>1, <1>2, StepCases, OriginBetween, OriginStart

LEMMA OriginInit ==
    ASSUME Init PROVE OriginInv
<1>1. ControlInv
    BY ControlInit
<1>2. \A r \in Registers, c \in CPUs : regs[r][c].of = <<r, c>>
    BY DEF Init
<1>3. \A f \in Files : local[f] = <<>> /\ remote[f] = <<>>
    BY DEF Init
<1>4. \A p \in Procs : at[p] \in {"idle", "write"} /\ (p \in Setters => at[p] = "idle")
    BY Scripts DEF Init
<1>5. BitsOfOwnRegister
    BY <1>2 DEF BitsOfOwnRegister
<1>6. FilesKnown
    BY <1>3 DEF FilesKnown, Known
<1>7. \A p \in Procs : Present(p)
    BY <1>4 DEF Present
<1>8. ReadHome
    BY <1>4, Scripts DEF ReadHome, Modifying, Running
<1> QED BY <1>1, <1>5, <1>6, <1>7, <1>8 DEF OriginInv

\* Whatever flags a command gives, the bits of a register that no flag asks about come from
\* this register, except where a flag assigns to it or where two flags read different
\* registers through one file.
THEOREM BitsStayAtHome == Spec => []BitsOfOwnRegister
<1>1. OriginInv => BitsOfOwnRegister
    BY DEF OriginInv
<1> QED BY <1>1, OriginInit, OriginStep, PTL DEF Spec

============================================================================
