------------------------- MODULE MetricsRun_proofs -------------------------
(***************************************************************************)
(* Theorems about MetricsRun, for any targets, in any order of the steps   *)
(* of their goroutines, whatever command fails and whenever the signal     *)
(* handler kills: runCmd goes on when every goroutine has answered and not *)
(* before, a watchdog that was off stays off, a target that is collected   *)
(* from keeps its watchdog off and its intervals changed, and the settings *)
(* of a target on which every set command worked are back at the end.      *)
(***************************************************************************)
EXTENDS MetricsRun, TLAPS, FiniteSetTheorems, FunctionTheorems, SequenceTheorems

----------------------------------------------------------------------------
(***************************************************************************)
(* The inductive invariant.                                                *)
(***************************************************************************)

\* Deletions leave a list of different targets, which is not empty once goroutines
\* were started for it, and the loops over it end with it.
List ==
    /\ IsInjective(myTargets) /\ Len(myTargets) <= Len(Targets)
    /\ main \in {"prepare", "metrics", "collect", "resetMux", "resetNmi"} => myTargets # <<>>
    /\ main \in {"resetMux", "resetNmi"} => cursor <= Len(myTargets)

\* The targets whose goroutine has sent its message.
Answered == {t \in Contexts : phase[t] = "idle"}

Counted ==
    /\ main = "remove" => received = 0 /\ numPrepared = 0
    /\ main \in {"prepare", "metrics"} => received = Cardinality(Answered)

BeforeNmi == {"pmu", "getNmi", "setNmi", "checkNmi"}
BeforeMux == BeforeNmi \cup {"getMux", "setMux"}

\* runCmd and the goroutines it has started are in the same part of the command.
InStep(t) ==
    /\ t \notin Contexts => phase[t] = "idle"
    /\ main = "prepare" => phase[t] \in BeforeMux \cup {"perf", "send", "idle"}
    /\ main = "metrics" => phase[t] \in {"metrics", "skip", "send", "idle"}
    /\ main = "collect" => phase[t] \in {"collecting", "idle"}
    /\ main \in {"remove", "resetMux", "resetNmi", "exited", "panicked"} => phase[t] = "idle"

\* A watchdog is turned off only where it was on, and turned on only there.
WasOn(t) ==
    nmi[t] \/ nmiDisabled[t] \/ phase[t] \in {"setNmi", "checkNmi"} => hadNmi[t]

\* What the command has changed on a target it knows it has to put back.
Known(t) ==
    t \notin troubled =>
        /\ ~nmiDisabled[t] /\ phase[t] # "checkNmi" => nmi[t] = hadNmi[t]
        /\ ~muxSet[t] => mux[t] = "original"

\* A target no goroutine was started for is as it was.
Untouched(t) ==
    main = "remove" \/ t \notin Contexts =>
        nmi[t] = hadNmi[t] /\ mux[t] = "original" /\ ~nmiDisabled[t] /\ ~muxSet[t]

\* t is still to be visited by the loop of a deferred function.
Ahead(t) == \E i \in cursor..Len(myTargets) : t = myTargets[i]

\* The deferred functions have put back what their loops have passed.
Undone(t) ==
    t \notin troubled =>
        /\ main = "resetMux" => mux[t] = "original" \/ Ahead(t)
        /\ main \in {"resetNmi", "exited"} => mux[t] = "original"
        /\ main = "resetNmi" => nmi[t] = hadNmi[t] \/ Ahead(t)
        /\ main = "exited" => nmi[t] = hadNmi[t]

\* The settings of a target without an error follow the phases of its goroutine,
\* and only such a target is collected from.
Ready(t) ==
    /\ main \in {"prepare", "metrics", "collect"} /\ ~NoRoot /\ t \in Contexts /\ ~err[t] =>
        /\ phase[t] \notin BeforeNmi => ~nmi[t]
        /\ phase[t] \notin BeforeMux => mux[t] = "changed"
    /\ phase[t] = "collecting" => ~err[t]
    /\ phase[t] = "skip" => err[t]

Fine(t) == InStep(t) /\ WasOn(t) /\ Known(t) /\ Untouched(t) /\ Undone(t) /\ Ready(t)

Inv == TypeOK /\ List /\ Counted /\ \A t \in Target : Fine(t)

----------------------------------------------------------------------------
(* Lists and their sets.                                                   *)

LEMMA TargetsList ==
    /\ Targets \in Seq(Target) /\ Len(Targets) \in Nat /\ Len(Targets) > 0
    /\ IsInjective(Targets) /\ NoRoot \in BOOLEAN /\ Faults \in BOOLEAN
<1>1. Targets \in Seq(STRING) /\ Targets # <<>>
    BY TargetsAssumption DEF TargetsAssumption
<1>2. Len(Targets) \in Nat /\ Len(Targets) > 0 /\ DOMAIN Targets = 1..Len(Targets)
    BY <1>1, EmptySeq, LenProperties
<1>3. Targets \in Seq(Target)
  <2>1. \A i \in 1..Len(Targets) : Targets[i] \in Target
    BY <1>2 DEF Target, ToSet
  <2> QED BY <1>1, <1>2, <2>1
<1> QED BY <1>2, <1>3, TargetsAssumption DEF TargetsAssumption

\* Deleting an entry of a list without repetitions.
LEMMA RemoveAtList ==
    ASSUME NEW S, NEW s \in Seq(S), IsInjective(s), NEW i \in 1..Len(s)
    PROVE  /\ RemoveAt(s, i) \in Seq(S) /\ Len(RemoveAt(s, i)) = Len(s) - 1
           /\ IsInjective(RemoveAt(s, i))
<1> DEFINE a == SubSeq(s, 1, i - 1)  b == SubSeq(s, i + 1, Len(s))  r == RemoveAt(s, i)
<1>1. Len(s) \in Nat /\ DOMAIN s = 1..Len(s)
    BY LenProperties
<1>2. /\ a \in Seq(S) /\ Len(a) = i - 1
      /\ \A j \in 1..(i - 1) : a[j] = s[j]
  <2>1. \A j \in 1..(i - 1) : s[j] \in S
    BY <1>1, ElementOfSeq
  <2>2. 1 \in Int /\ i - 1 \in Int
    BY <1>1
  <2>3. /\ a \in Seq(S) /\ Len(a) = IF 1 <= i - 1 THEN (i - 1) - 1 + 1 ELSE 0
        /\ \A j \in 1..((i - 1) - 1 + 1) : a[j] = s[1 + j - 1]
    BY <2>1, <2>2, SubSeqProperties
  <2> HIDE DEF a
  <2> QED BY <1>1, <2>3
<1>3. /\ b \in Seq(S) /\ Len(b) = Len(s) - i
      /\ \A j \in 1..(Len(s) - i) : b[j] = s[i + j]
  <2>1. \A j \in (i + 1)..Len(s) : s[j] \in S
    BY <1>1, ElementOfSeq
  <2>2. i + 1 \in Int /\ Len(s) \in Int
    BY <1>1
  <2>3. /\ b \in Seq(S) /\ Len(b) = IF i + 1 <= Len(s) THEN Len(s) - (i + 1) + 1 ELSE 0
        /\ \A j \in 1..(Len(s) - (i + 1) + 1) : b[j] = s[(i + 1) + j - 1]
    BY <2>1, <2>2, SubSeqProperties
  <2>4. Len(b) = Len(s) - i
    <3> HIDE DEF b
    <3>1. Len(s) \in Nat
        BY <1>1
    <3> QED BY <2>3, <3>1
  <2>5. ASSUME NEW j \in 1..(Len(s) - i) PROVE b[j] = s[i + j]
    <3> HIDE DEF b
    <3>1. j \in 1..(Len(s) - (i + 1) + 1) /\ (i + 1) + j - 1 = i + j
        BY <1>1
    <3> QED BY <2>3, <3>1
  <2> HIDE DEF b
  <2> QED BY <2>3, <2>4, <2>5
<1>4. /\ r \in Seq(S) /\ Len(r) = Len(s) - 1
      /\ \A j \in 1..(Len(s) - 1) : r[j] = IF j <= i - 1 THEN s[j] ELSE s[j + 1]
  <2>1. r = a \o b
    BY DEF RemoveAt
  <2>2. /\ a \o b \in Seq(S) /\ Len(a \o b) = Len(a) + Len(b)
        /\ \A j \in 1..(Len(a) + Len(b)) :
               (a \o b)[j] = IF j <= Len(a) THEN a[j] ELSE b[j - Len(a)]
    BY <1>2, <1>3, ConcatProperties
  <2>3. Len(a) + Len(b) = Len(s) - 1
    <3> HIDE DEF a, b
    <3> QED BY <1>1, <1>2, <1>3
  <2>4. ASSUME NEW j \in 1..(Len(s) - 1)
        PROVE  r[j] = IF j <= i - 1 THEN s[j] ELSE s[j + 1]
    <3> HIDE DEF a, b, r
    <3>1. CASE j <= i - 1
        BY <3>1, <2>1, <2>2, <2>3, <1>2, <1>1
    <3>2. CASE j > i - 1
      <4>1. r[j] = b[j - (i - 1)]
        BY <3>2, <2>1, <2>2, <2>3, <1>2, <1>1
      <4>2. j - (i - 1) \in 1..(Len(s) - i) /\ i + (j - (i - 1)) = j + 1
        BY <3>2, <1>1
      <4>3. b[j - (i - 1)] = s[i + (j - (i - 1))]
        BY <1>3, <4>2
      <4> QED BY <3>2, <4>1, <4>2, <4>3, <1>1
    <3> QED BY <3>1, <3>2, <1>1
  <2> HIDE DEF a, b, r
  <2> QED BY <2>1, <2>2, <2>3, <2>4
<1>5. DOMAIN r = 1..(Len(s) - 1)
    BY <1>4, LenProperties
<1>6. ASSUME NEW j \in 1..(Len(s) - 1), NEW k \in 1..(Len(s) - 1), r[j] = r[k]
      PROVE  j = k
  <2>1. \A x, y \in 1..Len(s) : s[x] = s[y] => x = y
    BY <1>1 DEF IsInjective
  <2> HIDE DEF r
  <2>2. CASE j <= i - 1 /\ k <= i - 1
    BY <1>1, <1>4, <1>6, <2>1, <2>2
  <2>3. CASE j <= i - 1 /\ ~(k <= i - 1)
    BY <1>1, <1>4, <1>6, <2>1, <2>3
  <2>4. CASE ~(j <= i - 1) /\ k <= i - 1
    BY <1>1, <1>4, <1>6, <2>1, <2>4
  <2>5. CASE ~(j <= i - 1) /\ ~(k <= i - 1)
    BY <1>1, <1>4, <1>6, <2>1, <2>5
  <2> QED BY <2>2, <2>3, <2>4, <2>5
<1> QED BY <1>4, <1>5, <1>6 DEF IsInjective

\* A list without repetitions has as many entries as elements.
LEMMA ListSize ==
    ASSUME NEW S, NEW s \in Seq(S), IsInjective(s)
    PROVE  IsFiniteSet(ToSet(s)) /\ Cardinality(ToSet(s)) = Len(s)
<1>1. Len(s) \in Nat /\ DOMAIN s = 1..Len(s) /\ s \in [1..Len(s) -> S]
    BY LenProperties
<1>2. s \in Bijection(1..Len(s), ToSet(s))
    BY <1>1 DEF Bijection, Injection, Surjection, IsInjective, ToSet
<1>3. IsFiniteSet(1..Len(s)) /\ Cardinality(1..Len(s)) = Len(s)
    BY <1>1, FS_Interval
<1>4. ExistsBijection(1..Len(s), ToSet(s))
    BY <1>2 DEF ExistsBijection
<1> QED BY <1>3, <1>4, FS_Bijection

\* When every message was received, every goroutine has sent it.
LEMMA AllAnswered ==
    ASSUME Inv, main \in {"prepare", "metrics"}, AllReceived
    PROVE  \A t \in Target : phase[t] = "idle"
<1>1. IsFiniteSet(Contexts) /\ Cardinality(Contexts) = Len(myTargets)
    BY ListSize DEF Inv, TypeOK, List, Contexts
<1>2. Answered \in SUBSET Contexts /\ Cardinality(Contexts) = Cardinality(Answered)
    BY <1>1 DEF Inv, Counted, AllReceived, Answered
<1>3. Contexts = Answered
    BY <1>1, <1>2, FS_Subset
<1> QED BY <1>3 DEF Inv, Fine, InStep, Answered

\* The message of a target that has not answered is not one too many.
LEMMA OneMore ==
    ASSUME Inv, main \in {"prepare", "metrics"}, NEW t \in Contexts, phase[t] # "idle"
    PROVE  /\ Cardinality(Answered \cup {t}) = received + 1
           /\ received + 1 <= Len(myTargets)
<1>1. IsFiniteSet(Contexts) /\ Cardinality(Contexts) = Len(myTargets)
    BY ListSize DEF Inv, TypeOK, List, Contexts
<1>2. IsFiniteSet(Answered) /\ received = Cardinality(Answered)
    BY <1>1, FS_Subset DEF Inv, Counted, Answered
<1>3. Cardinality(Answered \cup {t}) = received + 1
    BY <1>2, FS_AddElement DEF Answered
<1>4. Answered \cup {t} \in SUBSET Contexts
    BY DEF Answered
<1>5. Cardinality(Answered \cup {t}) <= Cardinality(Contexts)
    BY <1>1, <1>4, FS_Subset
<1> QED BY <1>1, <1>3, <1>5

----------------------------------------------------------------------------
(***************************************************************************)
(* The goroutines of the targets: a step of one of them leaves the others  *)
(* as they are.                                                            *)
(***************************************************************************)
USE TargetsList

LEMMA InitInv == Init => Inv
<1> SUFFICES ASSUME Init PROVE Inv
    OBVIOUS
<1>1. TypeOK
  <2>1. 1 \in 1..(Len(Targets) + 1) /\ 0 \in 0..Len(Targets) /\ 0 \in 0..0
    OBVIOUS
  <2> QED BY <2>1 DEF Init, TypeOK
<1>2. List
    BY DEF Init, List
<1>3. Counted
    BY DEF Init, Counted
<1>4. ASSUME NEW t \in Target PROVE Fine(t)
    BY <1>4 DEF Init, Fine, InStep, WasOn, Known, Untouched, Undone, Ready, BeforeNmi, BeforeMux
<1> QED BY <1>1, <1>2, <1>3, <1>4 DEF Inv

\* The goroutine of t is where its command is run, or has its message to send.
LEMMA Active ==
    ASSUME Inv, NEW t \in Target, phase[t] # "idle", main # "dead"
    PROVE  t \in Contexts /\ main \in {"prepare", "metrics", "collect"}
BY DEF Inv, Fine, InStep, TypeOK

\* What a step of the goroutine of t may change.
StepOf(t) ==
    /\ UNCHANGED <<main, myTargets, cursor, failure, fixed>>
    /\ phase \in [Target -> CommandPhases \cup {"idle", "send", "skip"}]
    /\ phase' \in [Target -> CommandPhases \cup {"idle", "send", "skip"}]
    /\ err' \in [Target -> BOOLEAN] /\ nmiDisabled' \in [Target -> BOOLEAN]
    /\ muxSet' \in [Target -> BOOLEAN] /\ nmi' \in [Target -> BOOLEAN]
    /\ mux' \in [Target -> {"original", "changed"}]
    /\ ctxDone' \in BOOLEAN /\ UNCHANGED <<sigSent, handler>>
    /\ killed' \subseteq Target /\ troubled \subseteq troubled' /\ troubled' \subseteq Target
    /\ \A u \in Target \ {t} :
         /\ phase'[u] = phase[u] /\ err'[u] = err[u] /\ nmiDisabled'[u] = nmiDisabled[u]
         /\ muxSet'[u] = muxSet[u] /\ nmi'[u] = nmi[u] /\ mux'[u] = mux[u]
         /\ u \in troubled' => u \in troubled

LEMMA TargetStep ==
    ASSUME Inv, NEW t \in Target, OnTarget(t)
    PROVE  StepOf(t)
<1> USE DEF Inv, TypeOK, StepOf, GoTo, Fail, CommandPhases, loopVars, contextVars, targetVars,
            signalVars, fixed
<1>1. CASE CheckPMU(t)
    BY <1>1 DEF CheckPMU
<1>2. CASE GetNmi(t)
    BY <1>2 DEF GetNmi
<1>3. CASE SetNmi(t)
  <2>1. PICK on \in BOOLEAN : nmi' = [nmi EXCEPT ![t] = on]
    BY <1>3 DEF SetNmi
  <2>2. PICK next \in {"checkNmi", "send"} : phase' = [phase EXCEPT ![t] = next]
    BY <1>3 DEF SetNmi
  <2>3. err' = err \/ err' = [err EXCEPT ![t] = TRUE]
    BY <1>3 DEF SetNmi
  <2>4. troubled' \in {troubled, troubled \cup {t}} /\ killed' = killed \ {t}
    BY <1>3 DEF SetNmi
  <2>5. UNCHANGED <<main, loopVars, failure, nmiDisabled, muxSet, mux, signalVars, fixed>>
    BY <1>3 DEF SetNmi
  <2> QED BY <2>1, <2>2, <2>3, <2>4, <2>5
<1>4. CASE CheckNmi(t)
    BY <1>4 DEF CheckNmi
<1>5. CASE GetMux(t)
    BY <1>5 DEF GetMux
<1>6. CASE SetMux(t)
    BY <1>6 DEF SetMux
<1>7. CASE FindPerf(t)
    BY <1>7 DEF FindPerf
<1>8. CASE LoadMetrics(t)
    BY <1>8 DEF LoadMetrics
<1>9. CASE SendResult(t)
    BY <1>9 DEF SendResult
<1>10. CASE SendSkipped(t)
    BY <1>10 DEF SendSkipped
<1>11. CASE CollectEnds(t)
    BY <1>11 DEF CollectEnds
<1> QED BY <1>1, <1>2, <1>3, <1>4, <1>5, <1>6, <1>7, <1>8, <1>9, <1>10, <1>11 DEF OnTarget

LEMMA OthersFine ==
    ASSUME Inv, NEW t \in Target, StepOf(t), NEW u \in Target \ {t}
    PROVE  Fine(u)'
<1> USE DEF StepOf, Inv, Fine, fixed
<1>0. Contexts' = Contexts
    BY DEF Contexts
<1>1. InStep(u)'
    BY <1>0 DEF InStep
<1>2. WasOn(u)'
    BY DEF WasOn
<1>3. Known(u)'
    BY DEF Known
<1>4. Untouched(u)'
    BY <1>0 DEF Untouched
<1>5. Undone(u)'
    BY DEF Undone, Ahead
<1>6. Ready(u)'
    BY <1>0 DEF Ready
<1> QED BY <1>1, <1>2, <1>3, <1>4, <1>5, <1>6

LEMMA OwnFine ==
    ASSUME Inv, NEW t \in Target, OnTarget(t)
    PROVE  Fine(t)'
<1>1. StepOf(t) /\ phase[t] # "idle" /\ main \in {"prepare", "metrics", "collect"} /\ t \in Contexts
  <2>1. phase[t] # "idle" /\ main # "dead"
    BY DEF OnTarget, CheckPMU, GetNmi, SetNmi, CheckNmi, GetMux, SetMux, FindPerf, LoadMetrics,
           SendResult, SendSkipped, CollectEnds, Working
  <2> QED BY <2>1, Active, TargetStep
<1>2. UNCHANGED <<main, myTargets, cursor, hadNmi>> /\ t \in Contexts'
    BY <1>1 DEF StepOf, fixed, Contexts
<1>3. Untouched(t)' /\ Undone(t)'
    BY <1>1, <1>2 DEF Untouched, Undone
<1>4. /\ Fine(t) /\ phase \in [Target -> CommandPhases \cup {"idle", "send", "skip"}]
      /\ err \in [Target -> BOOLEAN] /\ nmiDisabled \in [Target -> BOOLEAN]
      /\ muxSet \in [Target -> BOOLEAN] /\ nmi \in [Target -> BOOLEAN]
      /\ hadNmi \in [Target -> BOOLEAN] /\ mux \in [Target -> {"original", "changed"}]
    BY DEF Inv, TypeOK
<1>5. InStep(t) /\ WasOn(t) /\ Known(t) /\ Ready(t)
    BY <1>4 DEF Fine
<1> SUFFICES InStep(t)' /\ WasOn(t)' /\ Known(t)' /\ Ready(t)'
    BY <1>3 DEF Fine
<1> USE <1>1, <1>2, <1>4, <1>5 DEF GoTo, Fail, InStep, WasOn, Known, Ready, BeforeNmi, BeforeMux,
        contextVars, targetVars, fixed
<1>6. CASE CheckPMU(t)
    BY <1>6 DEF CheckPMU
<1>7. CASE GetNmi(t)
    BY <1>7 DEF GetNmi
<1>8. CASE SetNmi(t)
    BY <1>8 DEF SetNmi
<1>9. CASE CheckNmi(t)
    BY <1>9 DEF CheckNmi
<1>10. CASE GetMux(t)
    BY <1>10 DEF GetMux
<1>11. CASE SetMux(t)
    BY <1>11 DEF SetMux
<1>12. CASE FindPerf(t)
    BY <1>12 DEF FindPerf
<1>13. CASE LoadMetrics(t)
    BY <1>13 DEF LoadMetrics
<1>14. CASE SendResult(t)
    BY <1>14 DEF SendResult
<1>15. CASE SendSkipped(t)
    BY <1>15 DEF SendSkipped
<1>16. CASE CollectEnds(t)
    BY <1>16 DEF CollectEnds
<1> QED BY <1>6, <1>7, <1>8, <1>9, <1>10, <1>11, <1>12, <1>13, <1>14, <1>15, <1>16 DEF OnTarget

\* A message is counted when its goroutine is done, and only then.
LEMMA TargetCounted ==
    ASSUME Inv, NEW t \in Target, OnTarget(t)
    PROVE  Counted' /\ received' \in 0..Len(Targets) /\ numPrepared' \in 0..received'
<1>1. /\ StepOf(t) /\ UNCHANGED <<main, myTargets>> /\ Contexts' = Contexts
      /\ \A u \in Target \ {t} : phase'[u] = phase[u]
    BY TargetStep DEF StepOf, Contexts
<1>2. phase[t] # "idle" /\ t \in Contexts /\ main \in {"prepare", "metrics", "collect"}
  <2>1. phase[t] # "idle" /\ main # "dead"
    BY DEF OnTarget, CheckPMU, GetNmi, SetNmi, CheckNmi, GetMux, SetMux, FindPerf, LoadMetrics,
           SendResult, SendSkipped, CollectEnds, Working
  <2> QED BY <2>1, Active
<1>3. /\ received \in 0..Len(Targets) /\ numPrepared \in 0..received /\ Contexts \subseteq Target
      /\ phase \in [Target -> CommandPhases \cup {"idle", "send", "skip"}]
      /\ Len(myTargets) \in Nat /\ Len(myTargets) <= Len(Targets)
  <2>1. myTargets \in Seq(Target)
    BY DEF Inv, TypeOK
  <2>2. Contexts \subseteq Target
    BY <2>1, ElementOfSeq, LenProperties DEF Contexts, ToSet
  <2> QED BY <2>1, <2>2, LenProperties DEF Inv, TypeOK, List
<1>4. CASE SendResult(t) \/ SendSkipped(t)
  <2>1. /\ main \in {"prepare", "metrics"} /\ phase' = [phase EXCEPT ![t] = "idle"]
        /\ received' = received + 1 /\ numPrepared' \in {numPrepared, numPrepared + 1}
    BY <1>4, <1>3 DEF SendResult, SendSkipped
  <2>2. Answered' = Answered \cup {t}
    BY <1>1, <1>2, <1>3, <2>1 DEF Answered
  <2>3. Cardinality(Answered') = received + 1 /\ received + 1 <= Len(myTargets)
    BY <1>2, <2>1, <2>2, OneMore
  <2> QED BY <1>1, <1>2, <1>3, <2>1, <2>3 DEF Counted
<1>5. CASE ~(SendResult(t) \/ SendSkipped(t))
  <2>1. UNCHANGED <<received, numPrepared>>
    BY <1>5 DEF OnTarget, CheckPMU, GetNmi, SetNmi, CheckNmi, GetMux, SetMux, FindPerf, LoadMetrics,
           CollectEnds, loopVars
  <2>2. ASSUME main # "collect" PROVE phase'[t] # "idle"
    <3>1. phase[t] # "collecting"
        BY <1>2, <2>2 DEF Inv, Fine, InStep, BeforeMux, BeforeNmi
    <3> QED BY <1>3, <1>5, <2>2, <3>1 DEF OnTarget, CheckPMU, GetNmi, SetNmi, CheckNmi, GetMux,
            SetMux, FindPerf, LoadMetrics, CollectEnds, GoTo, Fail
  <2>3. main # "collect" => Answered' = Answered
    BY <1>1, <1>2, <1>3, <2>2 DEF Answered
  <2> QED BY <1>1, <1>2, <1>3, <2>1, <2>3 DEF Counted, Inv
<1> QED BY <1>4, <1>5

LEMMA TargetInv ==
    ASSUME Inv, NEW t \in Target, OnTarget(t)
    PROVE  Inv'
<1>1. StepOf(t)
    BY TargetStep
<1>2. TypeOK'
    BY <1>1, TargetCounted DEF Inv, TypeOK, StepOf, CommandPhases, fixed
<1>3. List'
    BY <1>1 DEF Inv, List, StepOf
<1>4. \A u \in Target : Fine(u)'
    BY <1>1, OwnFine, OthersFine
<1> QED BY <1>2, <1>3, <1>4, TargetCounted DEF Inv

----------------------------------------------------------------------------
(* Signals, and the end.                                                   *)

\* The settings, the list and the messages do not depend on the handler.
LEMMA SignalInv ==
    ASSUME Inv, Handler \/ Interrupt \/ SecondSignal \/ UNCHANGED vars
    PROVE  Inv'
<1>1. /\ main' \in {main, "dead"}
      /\ UNCHANGED <<loopVars, failure, phase, contextVars, targetVars, fixed, troubled>>
      /\ ctxDone' \in BOOLEAN /\ sigSent' \in BOOLEAN /\ handler' \in {"waiting", "kill", "done"}
    BY DEF Inv, TypeOK, Handler, HandlerWakes, KillChildren, Interrupt, SecondSignal, vars,
           signalVars
<1>2. killed' \subseteq Target
  <2>1. killed' \in {killed, Running}
    BY DEF Handler, HandlerWakes, KillChildren, Interrupt, SecondSignal, vars
  <2>2. main \in {"resetMux", "resetNmi"} => This \in Target
    <3>1. myTargets \in Seq(Target) /\ cursor \in 1..(Len(Targets) + 1)
        BY DEF Inv, TypeOK
    <3>2. main \in {"resetMux", "resetNmi"} => cursor \in 1..Len(myTargets)
        BY <3>1 DEF Inv, List
    <3> QED BY <3>1, <3>2, ElementOfSeq DEF This
  <2> QED BY <2>1, <2>2 DEF Running, Inv, TypeOK
<1>3. TypeOK'
    BY <1>1, <1>2 DEF Inv, TypeOK, loopVars, contextVars, targetVars, fixed
<1>4. List' /\ Counted'
    BY <1>1 DEF Inv, List, Counted, Answered, Contexts, loopVars
<1>5. ASSUME NEW t \in Target PROVE Fine(t)'
    BY <1>1 DEF Inv, Fine, InStep, WasOn, Known, Untouched, Undone, Ready, Ahead, Contexts,
        loopVars, contextVars, targetVars, fixed
<1> QED BY <1>3, <1>4, <1>5 DEF Inv

----------------------------------------------------------------------------
(***************************************************************************)
(* runCmd.                                                                 *)
(***************************************************************************)

LEMMA RemoveTargetInv ==
    ASSUME Inv, RemoveTarget
    PROVE  Inv'
<1>1. /\ main = "remove" /\ main' \in {"remove", "panicked"} /\ cursor' = cursor + 1
      /\ cursor <= Len(Targets)
      /\ UNCHANGED <<received, numPrepared, failure, phase, contextVars, targetVars, signalVars,
                     fixed, killed, troubled>>
    BY DEF RemoveTarget
<1>2. myTargets \in Seq(Target) /\ IsInjective(myTargets) /\ Len(myTargets) <= Len(Targets)
      /\ cursor \in 1..(Len(Targets) + 1)
    BY DEF Inv, TypeOK, List
<1>3. Len(myTargets) \in Nat
    BY <1>2, LenProperties
<1>4. /\ myTargets' \in Seq(Target) /\ IsInjective(myTargets') /\ Len(myTargets') <= Len(Targets)
  <2>1. CASE myTargets' = myTargets
    BY <1>2, <2>1
  <2>2. CASE cursor <= Len(myTargets) /\ myTargets' = RemoveAt(myTargets, cursor)
    <3>1. cursor \in 1..Len(myTargets)
        BY <1>2, <1>3, <2>2
    <3>2. RemoveAt(myTargets, cursor) \in Seq(Target) /\ IsInjective(RemoveAt(myTargets, cursor))
          /\ Len(RemoveAt(myTargets, cursor)) = Len(myTargets) - 1
        BY <1>2, <3>1, RemoveAtList
    <3> QED BY <1>2, <1>3, <2>2, <3>2
  <2> QED BY <2>1, <2>2 DEF RemoveTarget
<1>5. TypeOK'
    BY <1>1, <1>2, <1>4 DEF Inv, TypeOK, contextVars, targetVars, signalVars, fixed
<1>6. List' /\ Counted'
    BY <1>1, <1>4 DEF Inv, List, Counted
<1>7. ASSUME NEW t \in Target PROVE Fine(t)'
    BY <1>1 DEF Inv, Fine, InStep, WasOn, Known, Untouched, Undone, Ready, contextVars, targetVars,
        fixed
<1> QED BY <1>5, <1>6, <1>7 DEF Inv

LEMMA ReturnEarlyInv ==
    ASSUME Inv, ReturnEarly
    PROVE  Inv'
<1> USE DEF ReturnEarly
<1>1. TypeOK'
    BY DEF Inv, TypeOK, loopVars, contextVars, targetVars, signalVars, fixed
<1>2. List' /\ Counted'
    BY DEF Inv, List, Counted, loopVars
<1>3. ASSUME NEW t \in Target PROVE Fine(t)'
    BY DEF Inv, Fine, InStep, WasOn, Known, Untouched, Undone, Ready, Contexts, loopVars,
        contextVars, targetVars, fixed
<1> QED BY <1>1, <1>2, <1>3 DEF Inv

\* The list of the targets once it is complete.
LEMMA ListFacts ==
    ASSUME Inv
    PROVE  /\ myTargets \in Seq(Target) /\ Len(myTargets) \in Nat
           /\ Contexts = {myTargets[i] : i \in 1..Len(myTargets)} /\ Contexts \subseteq Target
           /\ IsFiniteSet(Contexts) /\ Cardinality(Contexts) = Len(myTargets)
<1>1. myTargets \in Seq(Target)
    BY DEF Inv, TypeOK
<1>2. Len(myTargets) \in Nat
    BY <1>1, LenProperties
<1>3. Contexts = {myTargets[i] : i \in 1..Len(myTargets)}
    BY <1>1, LenProperties DEF Contexts, ToSet
<1>4. \A i \in 1..Len(myTargets) : myTargets[i] \in Target
    BY <1>1, ElementOfSeq
<1>5. IsFiniteSet(Contexts) /\ Cardinality(Contexts) = Len(myTargets)
    BY <1>1, ListSize DEF Inv, List, Contexts
<1> QED BY <1>1, <1>2, <1>3, <1>4, <1>5

\* The goroutines are started: none has answered.
LEMMA StartInv ==
    ASSUME Inv, NEW m \in {"prepare", "metrics"}, main' = m,
           received' = 0, numPrepared' = 0, myTargets # <<>>,
           UNCHANGED <<myTargets, cursor, failure, contextVars, targetVars, signalVars, fixed,
                       killed, troubled>>,
           phase' \in [Target -> CommandPhases \cup {"idle", "send", "skip"}],
           \A t \in Target : Fine(t)',
           \A t \in Contexts : phase'[t] # "idle"
    PROVE  Inv'
<1>1. TypeOK'
  <2>1. 0 \in 0..Len(Targets) /\ 0 \in 0..0
    OBVIOUS
  <2> QED BY <2>1 DEF Inv, TypeOK, contextVars, targetVars, signalVars, fixed
<1>2. List'
    BY DEF Inv, List
<1>3. Counted'
  <2>1. Answered' = {}
    BY DEF Answered, Contexts
  <2> QED BY <2>1, FS_EmptySet DEF Counted
<1> QED BY <1>1, <1>2, <1>3 DEF Inv

LEMMA StartPrepareInv ==
    ASSUME Inv, StartPrepare
    PROVE  Inv'
<1>1. \A t \in Target : phase[t] = "idle"
    BY DEF Inv, Fine, InStep, StartPrepare
<1>2. ASSUME NEW t \in Target
      PROVE  phase'[t] = IF t \notin Contexts THEN "idle" ELSE IF NoRoot THEN "perf" ELSE "pmu"
    BY <1>2 DEF StartPrepare
<1>3. ASSUME NEW t \in Target PROVE Fine(t)'
  <2>1. main = "remove" /\ main' = "prepare" /\ Contexts' = Contexts
        /\ UNCHANGED <<contextVars, targetVars, fixed, troubled>>
    BY DEF StartPrepare, loopVars, Contexts
  <2>2. Fine(t)
    BY DEF Inv
  <2> QED BY <1>2, <2>1, <2>2 DEF Fine, InStep, WasOn, Known, Untouched, Undone, Ready, BeforeNmi,
              BeforeMux, contextVars, targetVars, fixed
<1>4. phase' \in [Target -> CommandPhases \cup {"idle", "send", "skip"}]
    BY DEF StartPrepare, CommandPhases
<1>5. \A t \in Contexts : phase'[t] # "idle"
    BY <1>2, ListFacts
<1>6. received = 0 /\ numPrepared = 0
    BY DEF Inv, Counted, StartPrepare
<1> QED BY <1>3, <1>4, <1>5, <1>6, StartInv DEF StartPrepare, loopVars

LEMMA StartMetricsInv ==
    ASSUME Inv, StartMetrics
    PROVE  Inv'
<1>1. \A t \in Target : phase[t] = "idle"
    BY AllAnswered DEF StartMetrics
<1>2. ASSUME NEW t \in Target
      PROVE  phase'[t] = IF t \notin Contexts THEN "idle" ELSE IF err[t] THEN "skip" ELSE "metrics"
    BY <1>2 DEF StartMetrics
<1>3. ASSUME NEW t \in Target PROVE Fine(t)'
  <2>1. main = "prepare" /\ main' = "metrics" /\ Contexts' = Contexts
        /\ UNCHANGED <<contextVars, targetVars, fixed, troubled>>
    BY DEF StartMetrics, Contexts
  <2>2. Fine(t) /\ err[t] \in BOOLEAN
    BY DEF Inv, TypeOK
  <2> QED BY <1>1, <1>2, <2>1, <2>2 DEF Fine, InStep, WasOn, Known, Untouched, Undone, Ready,
              BeforeNmi, BeforeMux, contextVars, targetVars, fixed
<1>4. phase' \in [Target -> CommandPhases \cup {"idle", "send", "skip"}]
    BY DEF StartMetrics, CommandPhases
<1>5. \A t \in Contexts : phase'[t] # "idle"
    BY <1>2, ListFacts
<1>6. myTargets # <<>>
    BY DEF Inv, List, StartMetrics
<1> QED BY <1>3, <1>4, <1>5, <1>6, StartInv DEF StartMetrics

LEMMA StartCollectingInv ==
    ASSUME Inv, StartCollecting
    PROVE  Inv'
<1>1. \A t \in Target : phase[t] = "idle"
    BY AllAnswered DEF StartCollecting
<1>2. ASSUME NEW t \in Target
      PROVE  phase'[t] = IF t \in Contexts /\ ~err[t] THEN "collecting" ELSE "idle"
    BY <1>2 DEF StartCollecting
<1>3. ASSUME NEW t \in Target PROVE Fine(t)'
  <2>1. main = "metrics" /\ main' = "collect" /\ Contexts' = Contexts
        /\ UNCHANGED <<contextVars, targetVars, fixed, troubled>>
    BY DEF StartCollecting, Contexts, loopVars
  <2>2. Fine(t) /\ err[t] \in BOOLEAN
    BY DEF Inv, TypeOK
  <2> QED BY <1>1, <1>2, <2>1, <2>2 DEF Fine, InStep, WasOn, Known, Untouched, Undone, Ready,
              BeforeNmi, BeforeMux, contextVars, targetVars, fixed
<1>4. phase' \in [Target -> CommandPhases \cup {"idle", "send", "skip"}]
    BY DEF StartCollecting, CommandPhases
<1>5. TypeOK'
    BY <1>4 DEF Inv, TypeOK, StartCollecting, loopVars, contextVars, targetVars, signalVars, fixed
<1>6. List' /\ Counted'
    BY DEF Inv, List, Counted, StartCollecting, loopVars
<1> QED BY <1>3, <1>5, <1>6 DEF Inv

\* runCmd returns when no goroutine of a target is left.
LEMMA ReturnInv ==
    ASSUME Inv, main \in {"prepare", "metrics", "collect"},
           \A t \in Target : phase[t] = "idle", Return, failure' \in BOOLEAN,
           UNCHANGED <<myTargets, received, numPrepared, phase, contextVars, targetVars,
                       signalVars, fixed, killed, troubled>>
    PROVE  Inv'
<1>1. TypeOK'
    BY DEF Inv, TypeOK, Return, contextVars, targetVars, signalVars, fixed
<1>2. List'
  <2>1. myTargets # <<>> /\ Len(myTargets) > 0
    BY ListFacts, EmptySeq DEF Inv, List
  <2> QED BY <2>1, ListFacts DEF Inv, List, Return
<1>3. Counted'
    BY DEF Counted, Return
<1>4. ASSUME NEW t \in Target PROVE Fine(t)'
  <2>1. Fine(t) /\ Contexts' = Contexts
    BY DEF Inv, Contexts
  <2>2. t \in Contexts => Ahead(t)'
    BY ListFacts DEF Ahead, Return
  <2>3. mux[t] = "original" \/ Ahead(t)'
    BY <2>1, <2>2 DEF Fine, Untouched
  <2> QED BY <2>1, <2>3 DEF Return, Fine, InStep, WasOn, Known, Untouched, Undone, Ready,
        contextVars, targetVars, fixed
<1> QED BY <1>1, <1>2, <1>3, <1>4 DEF Inv

LEMMA ReturnsInv ==
    ASSUME Inv, NonePrepared \/ StopBeforeCollecting \/ ShowMetricNames \/ AllCollected
    PROVE  Inv'
<1>1. CASE NonePrepared
    BY <1>1, AllAnswered, ReturnInv DEF NonePrepared
<1>2. CASE StopBeforeCollecting
    BY <1>2, AllAnswered, ReturnInv DEF StopBeforeCollecting
<1>3. CASE ShowMetricNames
  <2>1. failure \in BOOLEAN
    BY DEF Inv, TypeOK
  <2> QED BY <1>3, <2>1, AllAnswered, ReturnInv DEF ShowMetricNames
<1>4. CASE AllCollected
  <2>1. \A t \in Target : phase[t] = "idle"
    BY <1>4 DEF AllCollected, Inv, Fine, InStep
  <2>2. failure' \in BOOLEAN
    BY <1>4 DEF AllCollected
  <2> QED BY <1>4, <2>1, <2>2, ReturnInv DEF AllCollected
<1> QED BY <1>1, <1>2, <1>3, <1>4

----------------------------------------------------------------------------
(***************************************************************************)
(* The deferred functions.                                                 *)
(***************************************************************************)

\* One iteration of the loop of a deferred function.
LoopStep(next) ==
    /\ IF cursor < Len(myTargets) THEN cursor' = cursor + 1 /\ UNCHANGED main
                                  ELSE cursor' = 1 /\ main' = next
    /\ killed' = killed \ {This} /\ troubled' \in {troubled, troubled \cup {This}}
    /\ UNCHANGED <<myTargets, received, numPrepared, failure, phase, contextVars, signalVars,
                   fixed>>
    /\ nmi' \in [Target -> BOOLEAN] /\ mux' \in [Target -> {"original", "changed"}]

\* The target of the iteration, and those that are still ahead after it.
LEMMA Iteration ==
    ASSUME Inv, main \in {"resetMux", "resetNmi"}, NEW next \in {"resetNmi", "exited"},
           LoopStep(next), NEW t \in Target
    PROVE  /\ cursor \in 1..Len(myTargets) /\ This \in Target
           /\ main' \in {main, next}
           /\ Ahead(t) => t = This \/ (main' = main /\ Ahead(t)')
           /\ main' # main => cursor' = 1 /\ (t \in Contexts => Ahead(t)')
<1>1. Len(myTargets) \in Nat /\ myTargets \in Seq(Target)
    BY ListFacts
<1>2. cursor \in 1..Len(myTargets)
    BY <1>1 DEF Inv, TypeOK, List
<1>3. This \in Target
    BY <1>1, <1>2, ElementOfSeq DEF This
<1>4. main' \in {main, next}
    BY DEF LoopStep
<1>5. Ahead(t) => t = This \/ (main' = main /\ Ahead(t)')
  <2> SUFFICES ASSUME Ahead(t), t # This PROVE main' = main /\ Ahead(t)'
    OBVIOUS
  <2>1. PICK i \in cursor..Len(myTargets) : t = myTargets[i]
    BY DEF Ahead
  <2>2. i # cursor
    BY <2>1 DEF This
  <2>3. cursor < Len(myTargets) /\ i \in (cursor + 1)..Len(myTargets)
    BY <1>1, <1>2, <2>1, <2>2
  <2> QED BY <2>1, <2>3 DEF LoopStep, Ahead
<1>6. main' # main => cursor' = 1 /\ (t \in Contexts => Ahead(t)')
    BY ListFacts DEF LoopStep, Ahead
<1> QED BY <1>2, <1>3, <1>4, <1>5, <1>6

LEMMA LoopInv ==
    ASSUME Inv, main \in {"resetMux", "resetNmi"}, NEW next \in {"resetNmi", "exited"},
           LoopStep(next), main = "resetMux" <=> next = "resetNmi",
           \A t \in Target : WasOn(t)' /\ Known(t)' /\ Untouched(t)' /\ Undone(t)'
    PROVE  Inv'
<1>1. cursor \in 1..Len(myTargets) /\ This \in Target /\ Len(myTargets) \in Nat
  <2>1. \A t \in Target : cursor \in 1..Len(myTargets) /\ This \in Target
    BY Iteration
  <2>2. Target # {}
    BY TargetsList, LenProperties, ElementOfSeq
  <2> QED BY <2>1, <2>2, ListFacts
<1>2. Len(myTargets) <= Len(Targets)
    BY DEF Inv, List
<1>3. cursor' \in 1..Len(myTargets) /\ Len(myTargets) > 0
    BY <1>1 DEF LoopStep
<1>4. TypeOK'
  <2>1. cursor' \in 1..(Len(Targets) + 1)
    BY <1>1, <1>2, <1>3
  <2> QED BY <1>1, <2>1 DEF Inv, TypeOK, LoopStep, contextVars, signalVars, fixed
<1>5. List' /\ Counted'
    BY <1>1, <1>3 DEF Inv, List, Counted, LoopStep
<1>6. ASSUME NEW t \in Target PROVE InStep(t)' /\ Ready(t)'
    BY DEF Inv, Fine, InStep, Ready, LoopStep, Contexts, contextVars, fixed
<1> QED BY <1>4, <1>5, <1>6 DEF Inv, Fine

LEMMA MuxLoopInv ==
    ASSUME Inv, SkipMux \/ ResetMux
    PROVE  Inv'
<1>1. main = "resetMux" /\ LoopStep("resetNmi") /\ nmi' = nmi
    BY DEF SkipMux, ResetMux, Advance, LoopStep, Inv, TypeOK, targetVars
<1>2. ASSUME NEW t \in Target PROVE WasOn(t)' /\ Known(t)' /\ Untouched(t)' /\ Undone(t)'
  <2>1. /\ cursor \in 1..Len(myTargets) /\ This \in Target
        /\ main' \in {"resetMux", "resetNmi"}
        /\ Ahead(t) => t = This \/ (main' = main /\ Ahead(t)')
        /\ main' # main => (t \in Contexts => Ahead(t)')
    BY <1>1, Iteration
  <2>2. Fine(t) /\ Contexts' = Contexts /\ UNCHANGED <<phase, contextVars, hadNmi>>
    BY <1>1 DEF Inv, LoopStep, Contexts, fixed
  <2>3. t # This => mux'[t] = mux[t] /\ (t \in troubled' => t \in troubled)
    BY <2>1 DEF SkipMux, ResetMux, Inv, TypeOK, targetVars
  <2>4. t = This => \/ /\ mux'[t] = "original"
                       /\ t \in troubled' <=> t \in troubled
                    \/ t \in troubled'
                    \/ /\ mux'[t] = mux[t] /\ ~muxSet[t]
                       /\ t \in troubled' <=> t \in troubled
    BY <2>1 DEF SkipMux, ResetMux, Inv, TypeOK, targetVars
  <2>5. troubled \subseteq troubled'
    BY <1>1 DEF LoopStep
  <2>6. WasOn(t)'
    BY <1>1, <2>2 DEF Fine, WasOn, contextVars
  <2>7. Known(t)'
    BY <1>1, <2>2, <2>3, <2>4, <2>5 DEF Fine, Known, contextVars
  <2>8. Untouched(t)'
    <3>1. t \notin Contexts => t # This
        BY <2>1, ListFacts DEF This
    <3> QED BY <1>1, <2>1, <2>2, <2>3, <3>1 DEF Fine, Untouched, contextVars
  <2>9. Undone(t)'
    <3>1. t \notin troubled' => (main' = "resetMux" /\ Ahead(t)') \/ mux'[t] = "original"
        BY <1>1, <2>1, <2>2, <2>3, <2>4, <2>5 DEF Fine, Undone, Known
    <3>2. t \notin troubled' /\ main' = "resetNmi" => nmi'[t] = hadNmi'[t] \/ Ahead(t)'
        BY <1>1, <2>1, <2>2 DEF Fine, Untouched
    <3> QED BY <2>1, <3>1, <3>2 DEF Undone
  <2> QED BY <2>6, <2>7, <2>8, <2>9
<1> QED BY <1>1, <1>2, LoopInv

LEMMA NmiLoopInv ==
    ASSUME Inv, SkipNmi \/ ResetNmi
    PROVE  Inv'
<1>1. main = "resetNmi" /\ LoopStep("exited") /\ mux' = mux
    BY DEF SkipNmi, ResetNmi, Advance, LoopStep, Inv, TypeOK, targetVars
<1>2. ASSUME NEW t \in Target PROVE WasOn(t)' /\ Known(t)' /\ Untouched(t)' /\ Undone(t)'
  <2>1. /\ cursor \in 1..Len(myTargets) /\ This \in Target
        /\ main' \in {"resetNmi", "exited"}
        /\ Ahead(t) => t = This \/ (main' = main /\ Ahead(t)')
    BY <1>1, Iteration
  <2>2. Fine(t) /\ Contexts' = Contexts /\ UNCHANGED <<phase, contextVars, hadNmi>>
    BY <1>1 DEF Inv, LoopStep, Contexts, fixed
  <2>3. t # This => nmi'[t] = nmi[t] /\ (t \in troubled' => t \in troubled)
    BY <2>1 DEF SkipNmi, ResetNmi, Inv, TypeOK, targetVars
  <2>4. t = This => \/ /\ nmi'[t] = TRUE /\ nmiDisabled[t]
                       /\ t \in troubled' <=> t \in troubled
                    \/ /\ t \in troubled' /\ nmi'[t] = nmi[t]
                    \/ /\ nmi'[t] = nmi[t] /\ ~nmiDisabled[t]
                       /\ t \in troubled' <=> t \in troubled
    BY <2>1 DEF SkipNmi, ResetNmi, Inv, TypeOK, targetVars
  <2>5. troubled \subseteq troubled' /\ hadNmi[t] \in BOOLEAN /\ phase[t] = "idle"
    BY <1>1 DEF LoopStep, Inv, TypeOK, Fine, InStep
  <2>6. WasOn(t)'
    BY <1>1, <2>2, <2>3, <2>4 DEF Fine, WasOn, contextVars
  <2>7. Known(t)'
    BY <1>1, <2>2, <2>3, <2>4, <2>5 DEF Fine, Known, WasOn, contextVars
  <2>8. Untouched(t)'
    <3>1. t \notin Contexts => t # This
        BY <2>1, ListFacts DEF This
    <3> QED BY <1>1, <2>1, <2>2, <2>3, <3>1 DEF Fine, Untouched, contextVars
  <2>9. Undone(t)'
    <3>1. t \notin troubled' => (main' = "resetNmi" /\ Ahead(t)') \/ nmi'[t] = hadNmi[t]
        BY <1>1, <2>1, <2>2, <2>3, <2>4, <2>5 DEF Fine, Undone, Known, WasOn
    <3>2. t \notin troubled' => mux'[t] = "original"
        BY <1>1, <2>1, <2>2, <2>5 DEF Fine, Undone
    <3> QED BY <2>1, <2>2, <3>1, <3>2 DEF Undone
  <2> QED BY <2>6, <2>7, <2>8, <2>9
<1> QED BY <1>1, <1>2, LoopInv

----------------------------------------------------------------------------
(***************************************************************************)
(* The theorems.                                                           *)
(***************************************************************************)

LEMMA NextInv == Inv /\ [Next]_vars => Inv'
<1> SUFFICES ASSUME Inv, [Next]_vars PROVE Inv'
    OBVIOUS
<1>1. CASE RunCmd
    BY <1>1, RemoveTargetInv, ReturnEarlyInv, StartPrepareInv, StartMetricsInv, StartCollectingInv,
       ReturnsInv, MuxLoopInv, NmiLoopInv DEF RunCmd
<1>2. CASE \E t \in Target : OnTarget(t)
    BY <1>2, TargetInv
<1>3. CASE Handler \/ Interrupt \/ SecondSignal \/ UNCHANGED vars
    BY <1>3, SignalInv
<1> QED BY <1>1, <1>2, <1>3 DEF Next, Over

LEMMA Invariant == Spec => []Inv
BY InitInv, NextInv, PTL DEF Spec

\* Every variable keeps its type; the counters count no more messages than there are
\* targets, although the list of targets shrinks while it is traversed.
THEOREM TypeCorrect == Spec => []TypeOK
<1>1. Inv => TypeOK
    BY DEF Inv
<1> QED BY <1>1, Invariant, PTL

\* A watchdog that was off is never turned on, by the command or by the deferred
\* function of runCmd: nmiDisabled is set only where the watchdog was on.
THEOREM WatchdogNeverForced == Spec => []WatchdogNotForced
<1>1. Inv => WatchdogNotForced
    BY DEF Inv, Fine, WasOn, WatchdogNotForced
<1> QED BY <1>1, Invariant, PTL

\* While perf counts on a target its watchdog is off and its intervals are changed: no
\* deferred function runs before every collection has ended.
THEOREM CollectionUndisturbed == Spec => []UndisturbedCollection
<1>1. ASSUME Inv PROVE UndisturbedCollection
  <2> SUFFICES ASSUME NEW t \in Target, Working, phase[t] = "collecting", ~NoRoot
               PROVE  ~err[t] /\ ~nmi[t] /\ mux[t] = "changed"
    BY DEF UndisturbedCollection
  <2>1. t \in Contexts /\ main \in {"prepare", "metrics", "collect"}
    BY <1>1, Active DEF Working
  <2> QED BY <1>1, <2>1 DEF Inv, Fine, Ready, BeforeMux, BeforeNmi
<1> QED BY <1>1, Invariant, PTL

\* When the command returns, early or at its end, a target on which every command that
\* changes a setting worked has its own settings back.
THEOREM SettingsAreRestored == Spec => []SettingsRestored
<1>1. Inv => SettingsRestored
    BY DEF Inv, Fine, Undone, SettingsRestored
<1> QED BY <1>1, Invariant, PTL

\* runCmd leaves a phase in which it waits for messages only when every goroutine it
\* has started has sent its own.
THEOREM AllGoroutinesAnswer ==
    Spec => [](main \in {"prepare", "metrics"} /\ AllReceived
                 => \A t \in Target : phase[t] = "idle")
<1>1. Inv => (main \in {"prepare", "metrics"} /\ AllReceived => \A t \in Target : phase[t] = "idle")
    BY AllAnswered
<1> QED BY <1>1, Invariant, PTL
============================================================================
