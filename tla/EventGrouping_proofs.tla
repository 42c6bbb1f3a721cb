------------------------ MODULE EventGrouping_proofs -------------------------
(***************************************************************************)
(* Theorems about EventGrouping, for all events, counters, targets and     *)
(* lists of metrics: every group can be counted and has no more than two   *)
(* offcore events, the core events of a metric that were put in one group  *)
(* stay in one group, the uncore events are counted, in the end once, and  *)
(* no group is left without events.                                        *)
(***************************************************************************)
EXTENDS EventGrouping, FiniteSetTheorems, WellFoundedInduction, TLAPS

\* A group whose events are in E, whatever the fixed counters hold.
GroupsOver(E) == [fixed : Seq(CoreEvent), gp : [GPCounters -> E \cup {NoEvent}]]

\* The two ways in which Place finds a counter for e.
OnVacant(g, h, e) ==
    \E c \in Free(g) \cap ValidCounters(e) : h = [g EXCEPT !.gp[c] = e]

OnFreed(g, h, e) ==
    \E c \in ValidCounters(e), d \in Free(g) :
        /\ g.gp[c] # NoEvent /\ d \in Counter[g.gp[c]]
        /\ h = [g EXCEPT !.gp[d] = g.gp[c], !.gp[c] = e]

LEMMA PlaceCases ==
    ASSUME NEW g, NEW e, NEW r \in BOOLEAN, NEW h \in Place(g, e, r)
    PROVE  OnVacant(g, h, e) \/ OnFreed(g, h, e)
<1>1. CASE Free(g) \cap ValidCounters(e) # {}
    BY <1>1 DEF Place, OnVacant, Least
<1>2. CASE Free(g) \cap ValidCounters(e) = {}
    <2>1. PICK p \in First(Moves(g, e)) : h = [g EXCEPT !.gp[p[2]] = g.gp[p[1]], !.gp[p[1]] = e]
        BY <1>2 DEF Place
    <2>2. p \in Moves(g, e)
        BY <2>1 DEF First
    <2> QED
        BY <2>1, <2>2 DEF Moves, OnFreed
<1> QED
    BY <1>1, <1>2

\* A counter is found on the target.
LEMMA ValidIsGP ==
    ASSUME NEW e PROVE ValidCounters(e) \subseteq GPCounters
BY DEF ValidCounters

\* Placing an event adds it to the group and takes none away.
LEMMA PlaceAdds ==
    ASSUME NEW E, NoEvent \notin E, NEW g \in GroupsOver(E), NEW e \in E,
           NEW r \in BOOLEAN, NEW h \in Place(g, e, r)
    PROVE  /\ h \in GroupsOver(E) /\ h.fixed = g.fixed
           /\ OnGP(h) = OnGP(g) \cup {e}
<1>1. CASE OnVacant(g, h, e)
    <2>1. PICK c \in Free(g) \cap ValidCounters(e) : h = [g EXCEPT !.gp[c] = e]
        BY <1>1 DEF OnVacant
    <2>2. c \in GPCounters /\ g.gp[c] = NoEvent
        BY DEF Free
    <2>3. h.fixed = g.fixed /\ h.gp = [g.gp EXCEPT ![c] = e] /\ h \in GroupsOver(E)
        BY <2>1, <2>2 DEF GroupsOver
    <2>4. \A d \in GPCounters : h.gp[d] = IF d = c THEN e ELSE g.gp[d]
        BY <2>2, <2>3 DEF GroupsOver
    <2> QED
        BY <2>2, <2>3, <2>4 DEF OnGP
<1>2. CASE OnFreed(g, h, e)
    <2>1. PICK c \in ValidCounters(e), d \in Free(g) :
              /\ g.gp[c] # NoEvent
              /\ h = [g EXCEPT !.gp[d] = g.gp[c], !.gp[c] = e]
        BY <1>2 DEF OnFreed
    <2>2. c \in GPCounters /\ d \in GPCounters /\ g.gp[d] = NoEvent /\ c # d
        BY <2>1, ValidIsGP DEF Free
    <2>3. /\ h.fixed = g.fixed /\ h \in GroupsOver(E)
          /\ h.gp = [g.gp EXCEPT ![d] = g.gp[c], ![c] = e]
        BY <2>1, <2>2 DEF GroupsOver
    <2>4. \A b \in GPCounters : h.gp[b] = IF b = c THEN e ELSE IF b = d THEN g.gp[c] ELSE g.gp[b]
        BY <2>2, <2>3 DEF GroupsOver
    <2> QED
        BY <2>1, <2>2, <2>3, <2>4 DEF OnGP
<1> QED
    BY <1>1, <1>2, PlaceCases

\* A placed event is on a counter that can count it, and so is the one that made room.
LEMMA PlaceCounts ==
    ASSUME NEW E, NoEvent \notin E, NEW g \in GroupsOver(E), NEW e \in E,
           NEW r \in BOOLEAN, NEW h \in Place(g, e, r), OnCounters(g), e \notin EventsOf(g)
    PROVE  OnCounters(h)
<1> USE DEF OnCounters
<1>a. h \in GroupsOver(E) /\ h.fixed = g.fixed /\ OnGP(h) = OnGP(g) \cup {e}
    BY PlaceAdds
<1>b. e \notin OnGP(g) /\ e \notin Range(g.fixed)
    BY DEF EventsOf
<1>c. \A c \in GPCounters : g.gp[c] # e
    BY <1>b DEF OnGP
<1>d. Range(h.fixed) \cap OnGP(h) = {}
    BY <1>a, <1>b
<1>1. CASE OnVacant(g, h, e)
    <2>1. PICK c \in Free(g) \cap ValidCounters(e) : h = [g EXCEPT !.gp[c] = e]
        BY <1>1 DEF OnVacant
    <2>2. c \in GPCounters /\ g.gp[c] = NoEvent
        BY DEF Free
    <2>3. \A d \in GPCounters : h.gp[d] = IF d = c THEN e ELSE g.gp[d]
        BY <2>1, <2>2 DEF GroupsOver
    <2>4. GPCounters \ Free(h) = (GPCounters \ Free(g)) \cup {c}
        BY <2>2, <2>3 DEF Free
    <2>5. \A b \in GPCounters \ Free(h) : b \in ValidCounters(h.gp[b])
        BY <2>1, <2>3, <2>4 DEF Free
    <2>6. \A b, d \in GPCounters \ Free(h) : h.gp[b] = h.gp[d] => b = d
        BY <1>c, <2>3, <2>4 DEF Free
    <2> QED
        BY <1>a, <1>d, <2>5, <2>6
<1>2. CASE OnFreed(g, h, e)
    <2>1. PICK c \in ValidCounters(e), d \in Free(g) :
              /\ g.gp[c] # NoEvent /\ d \in Counter[g.gp[c]]
              /\ h = [g EXCEPT !.gp[d] = g.gp[c], !.gp[c] = e]
        BY <1>2 DEF OnFreed
    <2>2. c \in GPCounters /\ d \in GPCounters /\ g.gp[d] = NoEvent /\ c # d
        BY <2>1, ValidIsGP DEF Free
    <2>3. \A b \in GPCounters : h.gp[b] = IF b = c THEN e ELSE IF b = d THEN g.gp[c] ELSE g.gp[b]
        BY <2>1, <2>2 DEF GroupsOver
    <2>4. GPCounters \ Free(h) = (GPCounters \ Free(g)) \cup {d}
        BY <2>1, <2>2, <2>3 DEF Free
    <2>5. d \in ValidCounters(g.gp[c])
        BY <2>1, <2>2 DEF ValidCounters
    <2>6. \A b \in GPCounters \ Free(h) : b \in ValidCounters(h.gp[b])
        BY <2>1, <2>2, <2>3, <2>4, <2>5 DEF Free
    <2>7. \A a, b \in GPCounters \ Free(h) : h.gp[a] = h.gp[b] => a = b
        BY <1>c, <2>1, <2>2, <2>3, <2>4 DEF Free
    <2> QED
        BY <1>a, <1>d, <2>6, <2>7
<1> QED
    BY <1>1, <1>2, PlaceCases

\* The general purpose counters that count an offcore event: two may.
OffcoreCounters(g) == {c \in GPCounters : g.gp[c] \in Offcore}
FewOffcore(g)      == Cardinality(OffcoreCounters(g)) <= 2

LEMMA OffcoreFinite ==
    ASSUME NEW g
    PROVE  /\ IsFiniteSet(OffcoreCounters(g)) /\ Cardinality(OffcoreCounters(g)) \in Nat
           /\ \A c : /\ IsFiniteSet(OffcoreCounters(g) \ {c})
                    /\ Cardinality(OffcoreCounters(g) \ {c}) \in Nat
<1>1. IsFiniteSet(GPCounters)
    BY EventAssumption, FS_Interval DEF GPCounters
<1>2. IsFiniteSet(OffcoreCounters(g))
    <2>1. OffcoreCounters(g) \in SUBSET GPCounters
        BY DEF OffcoreCounters
    <2> QED BY <1>1, <2>1, FS_Subset
<1>3. \A c : IsFiniteSet(OffcoreCounters(g) \ {c})
    BY <1>2, FS_RemoveElement
<1> QED BY <1>2, <1>3, FS_CardinalityType

\* Where a placed offcore event was not refused, there are still two at the most: an event
\* that makes room takes its counter's place along.
LEMMA PlaceFewOffcore ==
    ASSUME NEW g \in GroupsOver(CoreEvent), FewOffcore(g), NEW e \in CoreEvent,
           NEW r \in BOOLEAN, NEW h \in Place(g, e, r),
           e \in Offcore => Cardinality(OffcoreCounters(g)) < 2
    PROVE  FewOffcore(h)
<1> DEFINE C == OffcoreCounters(g)
<1>1. NoEvent \notin Offcore
    BY EventAssumption DEF Events
<1>2. /\ IsFiniteSet(C) /\ Cardinality(C) \in Nat
      /\ \A c : IsFiniteSet(C \ {c}) /\ Cardinality(C \ {c}) \in Nat
    BY OffcoreFinite
<1>3. CASE OnVacant(g, h, e)
    <2>1. PICK c \in Free(g) \cap ValidCounters(e) : h = [g EXCEPT !.gp[c] = e]
        BY <1>3 DEF OnVacant
    <2>2. c \in GPCounters /\ g.gp[c] = NoEvent
        BY DEF Free
    <2>3. \A d \in GPCounters : h.gp[d] = IF d = c THEN e ELSE g.gp[d]
        BY <2>1, <2>2 DEF GroupsOver
    <2>4. OffcoreCounters(h) = IF e \in Offcore THEN C \cup {c} ELSE C
        BY <1>1, <2>2, <2>3 DEF OffcoreCounters
    <2>5. Cardinality(C \cup {c}) <= Cardinality(C) + 1
        <3>1. Cardinality(C \cup {c}) = IF c \in C THEN Cardinality(C) ELSE Cardinality(C) + 1
            BY <1>2, FS_AddElement
        <3> QED BY <1>2, <3>1
    <2>6. Cardinality(C \cup {c}) \in Nat
        BY <1>2, FS_AddElement, FS_CardinalityType
    <2> HIDE DEF C
    <2> QED BY <1>2, <2>4, <2>5, <2>6 DEF FewOffcore, C
<1>4. CASE OnFreed(g, h, e)
    <2>1. PICK c \in ValidCounters(e), d \in Free(g) :
              /\ g.gp[c] # NoEvent
              /\ h = [g EXCEPT !.gp[d] = g.gp[c], !.gp[c] = e]
        BY <1>4 DEF OnFreed
    <2>2. c \in GPCounters /\ d \in GPCounters /\ g.gp[d] = NoEvent /\ c # d
        BY <2>1, ValidIsGP DEF Free
    <2>3. \A b \in GPCounters : h.gp[b] = IF b = c THEN e ELSE IF b = d THEN g.gp[c] ELSE g.gp[b]
        BY <2>1, <2>2 DEF GroupsOver
    <2> DEFINE M == IF g.gp[c] \in Offcore THEN (C \ {c}) \cup {d} ELSE C
    <2>4. OffcoreCounters(h) = IF e \in Offcore THEN M \cup {c} ELSE M
        BY <1>1, <2>2, <2>3 DEF OffcoreCounters
    <2>5. IsFiniteSet(M) /\ Cardinality(M) = Cardinality(C) /\ Cardinality(M) \in Nat
        <3>1. CASE g.gp[c] \in Offcore
            <4>1. c \in C /\ d \notin C \ {c}
                BY <1>1, <2>2, <3>1 DEF OffcoreCounters
            <4>2. Cardinality(C \ {c}) = Cardinality(C) - 1
                BY <1>2, <4>1, FS_RemoveElement
            <4>3. /\ IsFiniteSet((C \ {c}) \cup {d})
                  /\ Cardinality((C \ {c}) \cup {d}) = Cardinality(C \ {c}) + 1
                BY <1>2, <4>1, FS_AddElement
            <4> HIDE DEF C
            <4> QED BY <1>2, <3>1, <4>2, <4>3
        <3>2. CASE g.gp[c] \notin Offcore
            BY <1>2, <3>2
        <3> QED BY <3>1, <3>2
    <2> HIDE DEF M
    <2>6. Cardinality(M \cup {c}) <= Cardinality(M) + 1
        <3>1. Cardinality(M \cup {c}) = IF c \in M THEN Cardinality(M) ELSE Cardinality(M) + 1
            BY <2>5, FS_AddElement
        <3> QED BY <2>5, <3>1
    <2>7. Cardinality(M \cup {c}) \in Nat
        BY <2>5, FS_AddElement, FS_CardinalityType
    <2> HIDE DEF C
    <2> QED BY <1>2, <2>4, <2>5, <2>6, <2>7 DEF FewOffcore, C
<1> QED BY <1>3, <1>4, PlaceCases

-----------------------------------------------------------------------------
(***************************************************************************)
(* AddEvent.                                                               *)
(***************************************************************************)
LEMMA SequenceFacts ==
    ASSUME NEW S, NEW s \in Seq(S), NEW e \in S
    PROVE  /\ Append(s, e) \in Seq(S) /\ <<e>> \o s \in Seq(S)
           /\ DOMAIN Append(s, e) = 1..(Len(s) + 1)
           /\ \A n \in 1..(Len(s) + 1) : Append(s, e)[n] = IF n = Len(s) + 1 THEN e ELSE s[n]
           /\ DOMAIN (<<e>> \o s) = 1..(Len(s) + 1)
           /\ \A n \in 1..(Len(s) + 1) : (<<e>> \o s)[n] = IF n = 1 THEN e ELSE s[n - 1]
           /\ DOMAIN s = 1..Len(s) /\ Len(s) \in Nat
OBVIOUS

LEMMA RangeOfAppend ==
    ASSUME NEW S, NEW s \in Seq(S), NEW e \in S
    PROVE  Range(Append(s, e)) = Range(s) \cup {e}
<1>1. \A x \in Range(s) : x \in Range(Append(s, e))
    BY SequenceFacts DEF Range
<1>2. e \in Range(Append(s, e))
    <2>1. Len(s) + 1 \in DOMAIN Append(s, e) /\ Append(s, e)[Len(s) + 1] = e
        BY SequenceFacts
    <2> QED BY <2>1 DEF Range
<1>3. \A x \in Range(Append(s, e)) : x \in Range(s) \/ x = e
    BY SequenceFacts DEF Range
<1> QED BY <1>1, <1>2, <1>3

LEMMA RangeOfPrepend ==
    ASSUME NEW S, NEW s \in Seq(S), NEW e \in S
    PROVE  Range(<<e>> \o s) = Range(s) \cup {e}
<1>1. ASSUME NEW n \in DOMAIN s PROVE s[n] \in Range(<<e>> \o s)
    <2>1. n + 1 \in DOMAIN (<<e>> \o s) /\ (<<e>> \o s)[n + 1] = s[n]
        BY SequenceFacts
    <2> QED BY <2>1 DEF Range
<1>2. e \in Range(<<e>> \o s)
    <2>1. 1 \in DOMAIN (<<e>> \o s) /\ (<<e>> \o s)[1] = e
        BY SequenceFacts
    <2> QED BY <2>1 DEF Range
<1>3. ASSUME NEW n \in DOMAIN (<<e>> \o s) PROVE (<<e>> \o s)[n] \in Range(s) \/ (<<e>> \o s)[n] = e
    <2>1. n = 1 \/ (n - 1 \in DOMAIN s /\ (<<e>> \o s)[n] = s[n - 1])
        BY SequenceFacts
    <2> QED BY <2>1, SequenceFacts DEF Range
<1> QED BY <1>1, <1>2, <1>3 DEF Range

\* What both kinds of core counters guarantee, except for the place of the slots.
Kept(g) ==
    /\ OnCounters(g) /\ OnFixedCounters(g) /\ FewOffcore(g)
    /\ OnGP(g) \cap (PerfMetrics \cup {Slots}) = {}

\* A new event on the fixed counters takes nothing away, and no counter is used twice.
LEMMA FixedAdds ==
    ASSUME NEW g \in CoreGroup, Kept(g), NEW e \in CoreEvent, e \notin EventsOf(g), NEW h,
           \/ h = [g EXCEPT !.fixed = Append(@, e)]
           \/ h = [g EXCEPT !.fixed = <<e>> \o @],
           e \in PerfMetrics \cup {Slots} \/ (OnFixedCounter(e) /\ ~Occupied(g, e))
    PROVE  h \in CoreGroup /\ Kept(h) /\ EventsOf(h) = EventsOf(g) \cup {e} /\ h.gp = g.gp
<1>1. h.gp = g.gp /\ g.fixed \in Seq(CoreEvent)
    BY DEF CoreGroup
<1>2. h.fixed = Append(g.fixed, e) \/ h.fixed = <<e>> \o g.fixed
    BY DEF CoreGroup
<1>3. h \in CoreGroup /\ Range(h.fixed) = Range(g.fixed) \cup {e}
    <2>1. /\ Append(g.fixed, e) \in Seq(CoreEvent) /\ <<e>> \o g.fixed \in Seq(CoreEvent)
          /\ Range(Append(g.fixed, e)) = Range(g.fixed) \cup {e}
          /\ Range(<<e>> \o g.fixed) = Range(g.fixed) \cup {e}
        BY <1>1, SequenceFacts, RangeOfAppend, RangeOfPrepend
    <2>2. Range(h.fixed) = Range(g.fixed) \cup {e}
        BY <1>2, <2>1
    <2>3. h \in CoreGroup
        BY <2>1 DEF CoreGroup
    <2> QED BY <2>2, <2>3
<1>4. OnGP(h) = OnGP(g) /\ Free(h) = Free(g)
    BY <1>1 DEF OnGP, Free
<1>10. FewOffcore(h)
    BY <1>1 DEF Kept, FewOffcore, OffcoreCounters
<1>5. e \notin OnGP(g) /\ \A n \in DOMAIN g.fixed : g.fixed[n] # e
    BY DEF EventsOf, Range
<1>6. \A m \in DOMAIN h.fixed : h.fixed[m] = e \/ \E n \in DOMAIN g.fixed : h.fixed[m] = g.fixed[n]
    BY <1>3 DEF Range
<1>7. \A m, n \in DOMAIN h.fixed : h.fixed[m] = h.fixed[n] => m = n
    <2>1. \A m, n \in DOMAIN g.fixed : g.fixed[m] = g.fixed[n] => m = n
        BY DEF Kept, OnCounters
    <2>2. CASE h.fixed = Append(g.fixed, e)
        BY <1>1, <1>5, <2>1, <2>2, SequenceFacts
    <2>3. CASE h.fixed = <<e>> \o g.fixed
        <3>1. \A m \in DOMAIN h.fixed : (m = 1 /\ h.fixed[m] = e)
                                     \/ (m - 1 \in DOMAIN g.fixed /\ h.fixed[m] = g.fixed[m - 1])
            BY <1>1, <2>3, SequenceFacts
        <3>2. DOMAIN h.fixed \subseteq Int
            BY <1>1, <2>3, SequenceFacts
        <3> QED BY <1>5, <2>1, <3>1, <3>2
    <2> QED BY <1>2, <2>2, <2>3
<1>8. OnCounters(h)
    BY <1>1, <1>3, <1>4, <1>5, <1>7 DEF Kept, OnCounters
<1>9. OnFixedCounters(h)
    <2>1. \A m \in DOMAIN h.fixed : h.fixed[m] \in PerfMetrics \cup {Slots} \/ OnFixedCounter(h.fixed[m])
        BY <1>6 DEF Kept, OnFixedCounters
    <2>2. ASSUME NEW m \in DOMAIN h.fixed, NEW n \in DOMAIN h.fixed, m # n, OnFixedCounter(h.fixed[m])
          PROVE  FixedCounter[h.fixed[m]] # FixedCounter[h.fixed[n]]
        <3>1. \A d \in PerfMetrics \cup {Slots} : FixedCounter[d] \notin {0, 1, 2}
            BY EventAssumption DEF NotFixed
        <3>2. FixedCounter[h.fixed[m]] \in {0, 1, 2}
            BY <2>2 DEF OnFixedCounter
        <3>3. h.fixed[m] # h.fixed[n]
            BY <1>7, <2>2
        <3>4. CASE h.fixed[n] \in PerfMetrics \cup {Slots}
            BY <3>1, <3>2, <3>4
        <3>5. CASE OnFixedCounter(h.fixed[n]) /\ h.fixed[n] \notin PerfMetrics \cup {Slots}
            <4>1. CASE h.fixed[m] = e \/ h.fixed[n] = e
                BY <1>6, <3>1, <3>2, <3>3, <3>5, <4>1 DEF Occupied
            <4>2. CASE h.fixed[m] # e /\ h.fixed[n] # e
                <5>1. PICK a \in DOMAIN g.fixed, b \in DOMAIN g.fixed :
                          h.fixed[m] = g.fixed[a] /\ h.fixed[n] = g.fixed[b]
                    BY <1>6, <4>2
                <5>2. a # b
                    BY <3>3, <5>1
                <5> QED BY <2>2, <5>1, <5>2 DEF Kept, OnFixedCounters
            <4> QED BY <4>1, <4>2
        <3> QED BY <2>1, <3>4, <3>5
    <2> QED BY <2>1, <2>2 DEF OnFixedCounters
<1> QED
    BY <1>1, <1>3, <1>4, <1>8, <1>9, <1>10 DEF Kept, EventsOf

LEMMA GroupSets ==
    /\ NoEvent \notin CoreEvent /\ NoEvent \notin UncoreEvent
    /\ CoreGroup = GroupsOver(CoreEvent)
    /\ UncoreGroup \subseteq GroupsOver(UncoreEvent)
    /\ \A g \in GroupsOver(UncoreEvent) : g.fixed = <<>> => g \in UncoreGroup
<1>1. NoEvent \notin CoreEvent /\ NoEvent \notin UncoreEvent
    BY EventAssumption DEF Events
<1>2. CoreGroup = GroupsOver(CoreEvent)
    BY DEF CoreGroup, GroupsOver
<1>3. <<>> \in Seq(CoreEvent)
    OBVIOUS
<1>4. UncoreGroup \subseteq GroupsOver(UncoreEvent)
    BY <1>3 DEF UncoreGroup, GroupsOver
<1>5. ASSUME NEW g \in GroupsOver(UncoreEvent), g.fixed = <<>> PROVE g \in UncoreGroup
    BY <1>5 DEF UncoreGroup, GroupsOver
<1> QED BY <1>1, <1>2, <1>4, <1>5

\* Where the slots lead, they still do behind another event.
LEMMA AppendLeads ==
    ASSUME NEW g \in CoreGroup, SlotsLead(g), NEW e \in CoreEvent,
           NEW h, h = [g EXCEPT !.fixed = Append(@, e)],
           e \in PerfMetrics \cup {Slots} => Slots \in Range(g.fixed)
    PROVE  SlotsLead(h)
<1>0. g.fixed \in Seq(CoreEvent)
    BY DEF CoreGroup
<1>1. h.gp = g.gp /\ h.fixed = Append(g.fixed, e)
    BY DEF CoreGroup
<1>2. Range(h.fixed) = Range(g.fixed) \cup {e} /\ OnGP(h) = OnGP(g)
    <2>1. Range(Append(g.fixed, e)) = Range(g.fixed) \cup {e}
        BY <1>0, RangeOfAppend
    <2> QED BY <1>1, <2>1 DEF OnGP
<1>3. ASSUME Range(h.fixed) \cap (PerfMetrics \cup {Slots}) # {} PROVE h.fixed[1] = Slots
    <2>1. Range(g.fixed) \cap (PerfMetrics \cup {Slots}) # {}
        BY <1>2, <1>3
    <2>2. g.fixed[1] = Slots /\ g.fixed # <<>>
        BY <2>1 DEF SlotsLead, Range
    <2> QED BY <1>0, <1>1, <2>2, SequenceFacts
<1> QED BY <1>2, <1>3 DEF SlotsLead

\* AddEvent of a core group: the group stays countable and keeps what it has.
LEMMA AddCoreKeeps ==
    ASSUME NEW g \in CoreGroup, Kept(g), SlotsLead(g), NEW e \in CoreEvent,
           NEW r \in BOOLEAN, NEW h \in AddCoreEvent(g, e, r)
    PROVE  h \in CoreGroup /\ Kept(h) /\ SlotsLead(h) /\ EventsOf(g) \cup {e} \subseteq EventsOf(h)
<1>a. Slots \in CoreEvent /\ PerfMetrics \subseteq CoreEvent /\ Slots \notin PerfMetrics
    BY EventAssumption
<1>b. g.fixed \in Seq(CoreEvent)
    BY DEF CoreGroup
<1>1. CASE e \in EventsOf(g)
    BY <1>1 DEF AddCoreEvent
<1>2. CASE e \notin EventsOf(g) /\ e \in PerfMetrics /\ Slots \in EventsOf(g)
    <2>1. h = [g EXCEPT !.fixed = Append(@, e)]
        BY <1>2 DEF AddCoreEvent
    <2>2. Slots \in Range(g.fixed)
        BY <1>2 DEF EventsOf, Kept
    <2>3. h \in CoreGroup /\ Kept(h) /\ EventsOf(h) = EventsOf(g) \cup {e}
        BY <1>2, <2>1, FixedAdds
    <2> QED BY <2>1, <2>2, <2>3, AppendLeads
<1>3. CASE e \notin EventsOf(g) /\ e \in PerfMetrics /\ Slots \notin EventsOf(g)
    <2> DEFINE f == [g EXCEPT !.fixed = Append(@, e)]
    <2>1. f \in CoreGroup /\ Kept(f) /\ EventsOf(f) = EventsOf(g) \cup {e} /\ f.gp = g.gp
        BY <1>3, FixedAdds
    <2>2. f.fixed = Append(g.fixed, e)
        BY DEF CoreGroup
    <2>3. h = [f EXCEPT !.fixed = <<Slots>> \o @]
        BY <1>3 DEF AddCoreEvent, CoreGroup
    <2>4. Slots \notin EventsOf(f)
        BY <1>a, <1>3, <2>1
    <2> HIDE DEF f
    <2>5. h \in CoreGroup /\ Kept(h) /\ EventsOf(h) = EventsOf(f) \cup {Slots}
        BY <1>a, <2>1, <2>3, <2>4, FixedAdds
    <2>6. f.fixed \in Seq(CoreEvent) /\ h.fixed = <<Slots>> \o f.fixed
        BY <2>1, <2>3 DEF CoreGroup
    <2>7. h.fixed[1] = Slots
        BY <1>a, <2>6, SequenceFacts
    <2> QED BY <2>1, <2>5, <2>7 DEF SlotsLead, Kept
<1>4. CASE e \notin EventsOf(g) /\ e \notin PerfMetrics /\ e = Slots
    <2>1. h = [g EXCEPT !.fixed = <<e>> \o @]
        BY <1>4 DEF AddCoreEvent
    <2>2. h \in CoreGroup /\ Kept(h) /\ EventsOf(h) = EventsOf(g) \cup {e}
        BY <1>4, <2>1, FixedAdds
    <2>3. h.fixed = <<Slots>> \o g.fixed
        BY <1>4, <2>1 DEF CoreGroup
    <2>4. h.fixed[1] = Slots
        BY <1>a, <1>b, <2>3, SequenceFacts
    <2> QED BY <2>2, <2>4 DEF SlotsLead, Kept
<1>5. CASE e \notin EventsOf(g) /\ e \notin PerfMetrics \cup {Slots} /\ OnFixedCounter(e)
    <2>1. h = [g EXCEPT !.fixed = Append(@, e)] /\ ~Occupied(g, e)
        BY <1>5 DEF AddCoreEvent
    <2>2. h \in CoreGroup /\ Kept(h) /\ EventsOf(h) = EventsOf(g) \cup {e}
        BY <1>5, <2>1, FixedAdds
    <2> QED BY <1>5, <2>1, <2>2, AppendLeads
<1>6. CASE e \notin EventsOf(g) /\ e \notin PerfMetrics \cup {Slots} /\ ~OnFixedCounter(e)
    <2>1. h \in Place(g, e, r)
        BY <1>6 DEF AddCoreEvent
    <2>2. h \in CoreGroup /\ h.fixed = g.fixed /\ OnGP(h) = OnGP(g) \cup {e}
        BY <2>1, PlaceAdds, GroupSets
    <2>3. OnCounters(h)
        BY <1>6, <2>1, PlaceCounts, GroupSets DEF Kept
    <2>4. OnFixedCounters(h)
        BY <2>2 DEF OnFixedCounters, Kept
    <2>5. FewOffcore(h)
        <3>1. e \in Offcore => ~(Cardinality(OffcoreCounters(g)) >= 2)
            BY <1>6 DEF AddCoreEvent, Refused, OffcoreCounters
        <3>2. e \in Offcore => Cardinality(OffcoreCounters(g)) < 2
            BY <3>1, OffcoreFinite
        <3> QED BY <2>1, <3>2, PlaceFewOffcore, GroupSets DEF Kept
    <2> QED BY <1>6, <2>2, <2>3, <2>4, <2>5 DEF Kept, SlotsLead, EventsOf
<1> QED BY <1>1, <1>2, <1>3, <1>4, <1>5, <1>6

\* AddEvent of an uncore group.
LEMMA AddUncoreKeeps ==
    ASSUME NEW g \in UncoreGroup, OnCounters(g), OneUnit(g), NEW e \in UncoreEvent,
           NEW r \in BOOLEAN, NEW h \in AddUncoreEvent(g, e, r)
    PROVE  h \in UncoreGroup /\ OnCounters(h) /\ OneUnit(h) /\ EventsOf(g) \cup {e} \subseteq EventsOf(h)
<1>1. CASE e \in EventsOf(g)
    BY <1>1 DEF AddUncoreEvent
<1>2. CASE e \notin EventsOf(g)
    <2>1. h \in Place(g, e, r) /\ \A d \in OnGP(g) : Unit[d] = Unit[e]
        BY <1>2 DEF AddUncoreEvent
    <2>2. h \in GroupsOver(UncoreEvent) /\ h.fixed = g.fixed /\ OnGP(h) = OnGP(g) \cup {e}
        BY <2>1, PlaceAdds, GroupSets
    <2>3. h \in UncoreGroup
        BY <2>2, GroupSets DEF UncoreGroup
    <2>4. OnCounters(h)
        BY <1>2, <2>1, PlaceCounts, GroupSets
    <2>5. OneUnit(h)
        BY <2>1, <2>2 DEF OneUnit
    <2> QED BY <2>2, <2>3, <2>4, <2>5 DEF EventsOf
<1> QED BY <1>1, <1>2

\* What a group of kind k must be.
Fine(k, g) ==
    IF k = "core" THEN Kept(g) /\ SlotsLead(g) ELSE OnCounters(g) /\ OneUnit(g)

EventOf(k) == IF k = "core" THEN CoreEvent ELSE UncoreEvent

LEMMA AddKeeps ==
    ASSUME NEW k \in Kinds, NEW g \in GroupOf(k), Fine(k, g), NEW e \in EventOf(k),
           NEW r \in BOOLEAN, NEW h \in AddEvent(k, g, e, r)
    PROVE  h \in GroupOf(k) /\ Fine(k, h) /\ EventsOf(g) \cup {e} \subseteq EventsOf(h)
<1>1. CASE k = "core"
    BY <1>1, AddCoreKeeps DEF GroupOf, Fine, EventOf, AddEvent
<1>2. CASE k = "uncore"
    BY <1>2, AddUncoreKeeps DEF GroupOf, Fine, EventOf, AddEvent
<1> QED BY <1>1, <1>2 DEF Kinds

LEMMA NewGroupFine == \A k \in Kinds : NewGroup \in GroupOf(k) /\ Fine(k, NewGroup)
<1>1. OnGP(NewGroup) = {} /\ Free(NewGroup) = GPCounters
    BY DEF OnGP, Free, NewGroup
<1>2. NewGroup.fixed = <<>> /\ Range(NewGroup.fixed) = {} /\ DOMAIN NewGroup.fixed = {}
    BY DEF NewGroup, Range
<1>3. NewGroup \in CoreGroup /\ NewGroup \in UncoreGroup
    BY DEF NewGroup, CoreGroup, UncoreGroup
<1>4. OnCounters(NewGroup) /\ OnFixedCounters(NewGroup)
    BY <1>1, <1>2 DEF OnCounters, OnFixedCounters
<1>5. FewOffcore(NewGroup)
    <2>1. OffcoreCounters(NewGroup) = {}
        BY EventAssumption DEF OffcoreCounters, NewGroup, Events
    <2> QED BY <2>1, FS_EmptySet DEF FewOffcore
<1> QED BY <1>1, <1>2, <1>3, <1>4, <1>5 DEF Fine, Kept, SlotsLead, OneUnit, GroupOf, Kinds

-----------------------------------------------------------------------------
(***************************************************************************)
(* The steps keep the types.                                               *)
(***************************************************************************)
LEMMA WithoutFacts ==
    ASSUME NEW S, NEW s \in Seq(S), NEW n \in 1..Len(s)
    PROVE  /\ Without(s, n) \in Seq(S) /\ Len(Without(s, n)) = Len(s) - 1
           /\ DOMAIN Without(s, n) = 1..(Len(s) - 1)
           /\ \A m \in 1..(Len(s) - 1) : Without(s, n)[m] = IF m < n THEN s[m] ELSE s[m + 1]
<1>1. Len(s) \in Nat /\ Len(s) - 1 \in Nat /\ \A m \in 1..Len(s) : s[m] \in S
    OBVIOUS
<1>2. \A m \in 1..(Len(s) - 1) : (IF m < n THEN s[m] ELSE s[m + 1]) \in S
    BY <1>1
<1>3. [m \in 1..(Len(s) - 1) |-> IF m < n THEN s[m] ELSE s[m + 1]] \in Seq(S)
    BY <1>1, <1>2
<1> QED BY <1>1, <1>2, <1>3 DEF Without

LEMMA EventsTyped ==
    /\ \A g \in CoreGroup : EventsOf(g) \subseteq CoreEvent
    /\ \A g \in UncoreGroup : EventsOf(g) \subseteq UncoreEvent
<1>1. ASSUME NEW g \in CoreGroup PROVE EventsOf(g) \subseteq CoreEvent
    <2>1. Range(g.fixed) \subseteq CoreEvent
        BY DEF CoreGroup, Range
    <2>2. OnGP(g) \subseteq CoreEvent
        BY DEF CoreGroup, OnGP
    <2> QED BY <2>1, <2>2 DEF EventsOf
<1>2. ASSUME NEW g \in UncoreGroup PROVE EventsOf(g) \subseteq UncoreEvent
    <2>1. Range(g.fixed) = {}
        BY DEF UncoreGroup, Range
    <2>2. OnGP(g) \subseteq UncoreEvent
        BY DEF UncoreGroup, OnGP
    <2> QED BY <2>1, <2>2 DEF EventsOf
<1> QED BY <1>1, <1>2

LEMMA TypeInit == Init => TypeOK
<1> SUFFICES ASSUME Init PROVE TypeOK
    OBVIOUS
<1>1. metrics \in Seq(Seq(Events)) /\ metadata \in SUBSET Feature
    BY EventAssumption DEF Init
<1>2. open \in [core : CoreGroup, uncore : UncoreGroup]
    BY NewGroupFine DEF Init, NewGroups, GroupOf, Kinds
<1>3. formed \in GroupLists /\ groups \in GroupLists
    BY DEF Init, NoGroups, GroupLists
<1>4. stage = "next" /\ kind \in Kinds /\ todo \in Seq(Events)
    BY DEF Init, Kinds
<1>5. i \in Nat \ {0} /\ j \in Nat /\ i < j
    BY DEF Init
<1>7. attempt = NoAttempt /\ merged \in BOOLEAN
    BY DEF Init
<1>6. together \in [core : SUBSET SUBSET CoreEvent, uncore : SUBSET SUBSET UncoreEvent]
    BY DEF Init
<1> QED BY <1>1, <1>2, <1>3, <1>4, <1>5, <1>6, <1>7 DEF TypeOK

OpenGroups == [core : CoreGroup, uncore : UncoreGroup]

LEMMA OpenUpdate ==
    ASSUME NEW o \in OpenGroups, NEW k \in Kinds, NEW g \in GroupOf(k)
    PROVE  /\ [o EXCEPT ![k] = g] \in OpenGroups /\ [o EXCEPT ![k] = g][k] = g
           /\ \A l \in Kinds : l # k => [o EXCEPT ![k] = g][l] = o[l]
<1>1. CASE k = "core"
    BY <1>1 DEF OpenGroups, GroupOf, Kinds
<1>2. CASE k = "uncore"
    BY <1>2 DEF OpenGroups, GroupOf, Kinds
<1> QED BY <1>1, <1>2 DEF Kinds

LEMMA ListsUpdate ==
    ASSUME NEW f \in GroupLists, NEW k \in Kinds, NEW s \in Seq(GroupOf(k))
    PROVE  /\ [f EXCEPT ![k] = s] \in GroupLists /\ [f EXCEPT ![k] = s][k] = s
           /\ \A l \in Kinds : l # k => [f EXCEPT ![k] = s][l] = f[l]
<1>1. CASE k = "core"
    BY <1>1 DEF GroupLists, GroupOf, Kinds
<1>2. CASE k = "uncore"
    BY <1>2 DEF GroupLists, GroupOf, Kinds
<1> QED BY <1>1, <1>2 DEF Kinds

LEMMA Typed ==
    ASSUME TypeOK, NEW k \in Kinds
    PROVE  /\ open \in OpenGroups /\ open[k] \in GroupOf(k)
           /\ formed[k] \in Seq(GroupOf(k)) /\ groups[k] \in Seq(GroupOf(k))
           /\ Groups(groups[k]) \subseteq GroupOf(k)
<1>1. open \in OpenGroups /\ formed \in GroupLists /\ groups \in GroupLists
    BY DEF TypeOK, OpenGroups
<1>2. CASE k = "core"
    BY <1>1, <1>2 DEF OpenGroups, GroupLists, GroupOf, Groups
<1>3. CASE k = "uncore"
    BY <1>1, <1>3 DEF OpenGroups, GroupLists, GroupOf, Groups
<1> QED BY <1>1, <1>2, <1>3 DEF Kinds

\* Every group that exists is what it must be; after a step, with the target as before.
FineInv  == \A k \in Kinds : \A g \in AllGroups(k) : Fine(k, g)
NextFine == \A k \in Kinds : \A g \in AllGroups(k)' : Fine(k, g)

LEMMA NoMerge ==
    ASSUME TypeOK, stage # "merge" \/ j \notin DOMAIN groups[kind] PROVE attempt = NoAttempt
BY DEF TypeOK, AttemptOK

LEMMA SameGroups ==
    ASSUME FineInv, UNCHANGED <<groups, formed, open, attempt, kind>> PROVE NextFine
BY DEF FineInv, NextFine, AllGroups

LEMMA SkipMetricOK ==
    ASSUME TypeOK, FineInv, SkipMetric PROVE TypeOK' /\ NextFine
<1>1. metrics' \in Seq(Seq(Events))
    BY DEF SkipMetric, TypeOK
<1>2. attempt = NoAttempt
    BY NoMerge DEF SkipMetric
<1>3. NextFine
    BY SameGroups DEF SkipMetric, collectVars, pairVars
<1> QED BY <1>1, <1>2, <1>3 DEF SkipMetric, TypeOK, collectVars, pairVars

LEMMA StartMetricOK ==
    ASSUME TypeOK, FineInv, StartMetric PROVE TypeOK' /\ NextFine
<1>1. metrics' \in Seq(Seq(Events)) /\ todo' \in Seq(Events)
    BY DEF StartMetric, TypeOK
<1>2. attempt = NoAttempt
    BY NoMerge DEF StartMetric
<1>3. open' \in [core : CoreGroup, uncore : UncoreGroup] /\ formed' \in GroupLists
    BY NewGroupFine DEF StartMetric, NewGroups, NoGroups, GroupLists, GroupOf, Kinds
<1>4. \A k \in Kinds : AllGroups(k)' \subseteq Groups(groups[k]) \cup {NewGroup}
    BY <1>2 DEF StartMetric, AllGroups, NoGroups, NewGroups, Groups, Kinds, pairVars
<1>5. NextFine
    BY <1>4, NewGroupFine DEF FineInv, NextFine, AllGroups
<1>6. stage' = "collect" /\ UNCHANGED <<metadata, kind, groups, i, j, attempt, merged, together>>
    BY DEF StartMetric, pairVars
<1> QED BY <1>1, <1>2, <1>3, <1>5, <1>6 DEF TypeOK

LEMMA AddToGroupOK ==
    ASSUME TypeOK, FineInv, NEW k \in Kinds, AddToGroup(k), Head(todo) \in EventOf(k)
    PROVE  TypeOK' /\ NextFine
<1> DEFINE e == Head(todo)
<1>1. /\ stage = "collect" /\ todo # <<>> /\ todo \in Seq(Events)
      /\ UNCHANGED <<metrics, metadata, kind, groups, i, j, attempt, merged, together>>
    BY DEF AddToGroup, Collecting, TypeOK, pairVars
<1>2. attempt = NoAttempt
    BY <1>1, NoMerge
<1>3. Fine(k, open[k])
    BY DEF FineInv, AllGroups
<1>4. open \in OpenGroups /\ open[k] \in GroupOf(k) /\ formed[k] \in Seq(GroupOf(k)) /\ formed \in GroupLists
    BY Typed DEF TypeOK
<1>5. Tail(todo) \in Seq(Events) /\ <<>> \in Seq(Events)
    BY <1>1
<1>6. NewGroup \in GroupOf(k) /\ Fine(k, NewGroup)
    BY NewGroupFine
<1>7. CASE /\ \E g \in AddEvent(k, open[k], e, FALSE) : open' = [open EXCEPT ![k] = g]
           /\ todo' = Tail(todo) /\ UNCHANGED <<stage, formed>>
    <2>1. PICK g \in AddEvent(k, open[k], e, FALSE) : open' = [open EXCEPT ![k] = g]
        BY <1>7
    <2>2. g \in GroupOf(k) /\ Fine(k, g)
        BY <1>3, <1>4, AddKeeps
    <2>3. /\ open' \in OpenGroups /\ open'[k] = g
          /\ \A l \in Kinds : l # k => open'[l] = open[l]
        <3>1. /\ [open EXCEPT ![k] = g] \in OpenGroups /\ [open EXCEPT ![k] = g][k] = g
              /\ \A l \in Kinds : l # k => [open EXCEPT ![k] = g][l] = open[l]
            BY <1>4, <2>2, OpenUpdate
        <3> QED BY <2>1, <3>1
    <2>4. \A l \in Kinds : AllGroups(l)' \subseteq AllGroups(l) \cup (IF l = k THEN {g} ELSE {})
        BY <1>1, <1>2, <1>7, <2>3 DEF AllGroups
    <2>5. NextFine
        BY <2>2, <2>4 DEF FineInv, NextFine
    <2>6. TypeOK'
        BY <1>1, <1>2, <1>5, <1>7, <2>3 DEF TypeOK, OpenGroups
    <2> QED BY <2>5, <2>6
<1>8. CASE /\ formed' = [formed EXCEPT ![k] = Append(@, open[k])]
           /\ \E g \in AddEvent(k, NewGroup, e, FALSE) : open' = [open EXCEPT ![k] = g]
           /\ todo' = Tail(todo) /\ UNCHANGED stage
    <2>1. PICK g \in AddEvent(k, NewGroup, e, FALSE) : open' = [open EXCEPT ![k] = g]
        BY <1>8
    <2>2. g \in GroupOf(k) /\ Fine(k, g)
        BY <1>6, AddKeeps
    <2>3. /\ open' \in OpenGroups /\ open'[k] = g
          /\ \A l \in Kinds : l # k => open'[l] = open[l]
        <3>1. /\ [open EXCEPT ![k] = g] \in OpenGroups /\ [open EXCEPT ![k] = g][k] = g
              /\ \A l \in Kinds : l # k => [open EXCEPT ![k] = g][l] = open[l]
            BY <1>4, <2>2, OpenUpdate
        <3> QED BY <2>1, <3>1
    <2>a. Append(formed[k], open[k]) \in Seq(GroupOf(k))
        BY <1>4
    <2>b. Groups(Append(formed[k], open[k])) \subseteq Groups(formed[k]) \cup {open[k]}
        BY <1>4, SequenceFacts DEF Groups
    <2>4. /\ formed' \in GroupLists /\ formed'[k] = Append(formed[k], open[k])
          /\ \A l \in Kinds : l # k => formed'[l] = formed[l]
        <3> DEFINE s == Append(formed[k], open[k])
        <3>1. formed' = [formed EXCEPT ![k] = s]
            BY <1>8
        <3> HIDE DEF s
        <3>2. /\ [formed EXCEPT ![k] = s] \in GroupLists /\ [formed EXCEPT ![k] = s][k] = s
              /\ \A l \in Kinds : l # k => [formed EXCEPT ![k] = s][l] = formed[l]
            <4>1. s \in Seq(GroupOf(k))
                BY <2>a DEF s
            <4> QED BY <1>4, <4>1, ListsUpdate
        <3> QED BY <3>1, <3>2 DEF s
    <2>5. \A l \in Kinds : AllGroups(l)' \subseteq AllGroups(l) \cup (IF l = k THEN {g} ELSE {})
        BY <1>1, <1>2, <2>3, <2>4, <2>b DEF AllGroups
    <2>6. NextFine
        BY <2>2, <2>5 DEF FineInv, NextFine
    <2>7. TypeOK'
        BY <1>1, <1>2, <1>5, <1>8, <2>3, <2>4 DEF TypeOK, OpenGroups
    <2> QED BY <2>6, <2>7
<1>9. CASE stage' = "next" /\ todo' = <<>> /\ UNCHANGED <<open, formed>>
    <2>1. NextFine
        BY <1>1, <1>9, SameGroups
    <2>2. TypeOK'
        BY <1>1, <1>2, <1>5, <1>9 DEF TypeOK
    <2> QED BY <2>1, <2>2
<1> QED BY <1>7, <1>8, <1>9 DEF AddToGroup

LEMMA AddOtherOK ==
    ASSUME TypeOK, FineInv, AddOther PROVE TypeOK' /\ NextFine
<1>1. /\ stage = "collect" /\ todo # <<>> /\ todo \in Seq(Events)
      /\ UNCHANGED <<metrics, metadata, stage, kind, open, groups, i, j, attempt, merged, together>>
    BY DEF AddOther, Collecting, TypeOK, pairVars
<1>2. attempt = NoAttempt
    BY <1>1, NoMerge
<1>3. Head(todo) \in OtherEvent \/ Head(todo) \in Skipped
    BY DEF AddOther
<1>4. formed \in GroupLists
    BY DEF TypeOK
<1>5. formed' \in GroupLists /\ formed'.core = formed.core /\ formed'.uncore = formed.uncore
    <2>1. CASE formed' = formed
        BY <1>4, <2>1
    <2>2. CASE Head(todo) \in OtherEvent /\ formed' = [formed EXCEPT !.other = Append(@, Head(todo))]
        <3>1. Append(formed.other, Head(todo)) \in Seq(OtherEvent)
            BY <1>4, <2>2 DEF GroupLists
        <3>2. [formed EXCEPT !.other = Append(formed.other, Head(todo))] \in GroupLists
            BY <1>4, <3>1 DEF GroupLists
        <3> QED BY <1>4, <2>2, <3>2 DEF GroupLists
    <2> QED BY <1>3, <2>1, <2>2 DEF AddOther
<1>6. NextFine
    BY <1>1, <1>2, <1>5 DEF FineInv, NextFine, AllGroups, Kinds
<1>7. todo' \in Seq(Events)
    BY <1>1 DEF AddOther
<1> QED BY <1>1, <1>2, <1>5, <1>6, <1>7 DEF TypeOK

LEMMA ConcatFacts ==
    ASSUME NEW S, NEW s \in Seq(S), NEW t \in Seq(S)
    PROVE  s \o t \in Seq(S) /\ Groups(s \o t) = Groups(s) \cup Groups(t)
<1>1. /\ s \o t \in Seq(S) /\ DOMAIN (s \o t) = 1..(Len(s) + Len(t))
      /\ DOMAIN s = 1..Len(s) /\ DOMAIN t = 1..Len(t) /\ Len(s) \in Nat /\ Len(t) \in Nat
      /\ \A n \in 1..(Len(s) + Len(t)) : (s \o t)[n] = IF n <= Len(s) THEN s[n] ELSE t[n - Len(s)]
    OBVIOUS
<1>2. \A n \in DOMAIN s : n \in DOMAIN (s \o t) /\ (s \o t)[n] = s[n]
    BY <1>1
<1>3. \A n \in DOMAIN t : n + Len(s) \in DOMAIN (s \o t) /\ (s \o t)[n + Len(s)] = t[n]
    BY <1>1
<1>4. \A n \in DOMAIN (s \o t) :
          \/ n \in DOMAIN s /\ (s \o t)[n] = s[n]
          \/ n - Len(s) \in DOMAIN t /\ (s \o t)[n] = t[n - Len(s)]
    BY <1>1
<1>5. Groups(s) \subseteq Groups(s \o t)
    BY <1>2 DEF Groups
<1>6. Groups(t) \subseteq Groups(s \o t)
    BY <1>3 DEF Groups
<1>7. Groups(s \o t) \subseteq Groups(s) \cup Groups(t)
    BY <1>4 DEF Groups
<1> QED BY <1>1, <1>5, <1>6, <1>7

LEMMA CompletedFacts ==
    ASSUME TypeOK, NEW k \in Kinds
    PROVE  /\ Completed(k) \in Seq(GroupOf(k))
           /\ Groups(Completed(k)) \subseteq Groups(formed[k]) \cup {open[k]}
           /\ groups[k] \o Completed(k) \in Seq(GroupOf(k))
           /\ Groups(groups[k] \o Completed(k)) = Groups(groups[k]) \cup Groups(Completed(k))
<1>1. open[k] \in GroupOf(k) /\ formed[k] \in Seq(GroupOf(k)) /\ groups[k] \in Seq(GroupOf(k))
    BY Typed
<1>2. <<open[k]>> \in Seq(GroupOf(k)) /\ Groups(<<open[k]>>) = {open[k]}
    BY <1>1 DEF Groups
<1>3. <<>> \in Seq(GroupOf(k)) /\ Groups(<<>>) = {}
    BY DEF Groups
<1>4. Completed(k) \in Seq(GroupOf(k)) /\ Groups(Completed(k)) \subseteq Groups(formed[k]) \cup {open[k]}
    <2> DEFINE OfKind(s) == s \in Seq(GroupOf(k))
    <2>0. \A t : OfKind(t) => /\ OfKind(formed[k] \o t)
                             /\ Groups(formed[k] \o t) = Groups(formed[k]) \cup Groups(t)
        BY <1>1, ConcatFacts
    <2>1. /\ OfKind(formed[k] \o <<open[k]>>)
          /\ Groups(formed[k] \o <<open[k]>>) = Groups(formed[k]) \cup Groups(<<open[k]>>)
        BY <1>2, <2>0
    <2>2. /\ OfKind(formed[k] \o <<>>)
          /\ Groups(formed[k] \o <<>>) = Groups(formed[k]) \cup Groups(<<>>)
        BY <1>3, <2>0
    <2>3. Completed(k) \in {formed[k] \o <<open[k]>>, formed[k] \o <<>>}
        BY DEF Completed
    <2>4. Groups(<<open[k]>>) \subseteq {open[k]} /\ Groups(<<>>) \subseteq {open[k]}
        BY <1>2, <1>3
    <2> QED BY <2>1, <2>2, <2>3, <2>4
<1> QED BY <1>1, <1>4, ConcatFacts

LEMMA EndMetricOK ==
    ASSUME TypeOK, FineInv, EndMetric PROVE TypeOK' /\ NextFine
<1>1. /\ stage = "collect" /\ stage' = "next"
      /\ UNCHANGED <<metrics, metadata, kind, todo, open, formed, i, j, attempt, merged>>
    BY DEF EndMetric, collectVars, pairVars
<1>2. attempt = NoAttempt
    BY <1>1, NoMerge
<1>3. /\ groups'.core = groups.core \o Completed("core")
      /\ groups'.uncore = groups.uncore \o Completed("uncore")
      /\ groups'.other = groups.other \o formed.other
      /\ groups' \in [core : {groups'.core}, uncore : {groups'.uncore}, other : {groups'.other}]
    BY DEF EndMetric
<1>4. groups.other \o formed.other \in Seq(OtherEvent)
    BY DEF TypeOK, GroupLists
<1>5. groups' \in GroupLists
    <2>1. groups'.core \in Seq(CoreGroup) /\ groups'.uncore \in Seq(UncoreGroup)
        BY <1>3, CompletedFacts DEF GroupOf, Kinds
    <2> QED BY <1>3, <1>4, <2>1 DEF GroupLists
<1>6. \A k \in Kinds : AllGroups(k)' \subseteq AllGroups(k)
    <2>1. \A k \in Kinds : Groups(groups'[k]) \subseteq Groups(groups[k]) \cup Groups(formed[k]) \cup {open[k]}
        BY <1>3, CompletedFacts DEF Kinds
    <2> QED BY <1>1, <1>2, <2>1 DEF AllGroups
<1>7. NextFine
    BY <1>6 DEF FineInv, NextFine
<1>8. together' \in [core : SUBSET SUBSET CoreEvent, uncore : SUBSET SUBSET UncoreEvent]
    <2>1. Groups(Completed("core")) \subseteq CoreGroup /\ Groups(Completed("uncore")) \subseteq UncoreGroup
        BY CompletedFacts DEF GroupOf, Kinds, Groups
    <2>2. {EventsOf(g) : g \in Groups(Completed("core"))} \in SUBSET SUBSET CoreEvent
        BY <2>1, EventsTyped
    <2>3. {EventsOf(g) : g \in Groups(Completed("uncore"))} \in SUBSET SUBSET UncoreEvent
        BY <2>1, EventsTyped
    <2> QED BY <2>2, <2>3 DEF EndMetric, TypeOK
<1> QED BY <1>1, <1>2, <1>5, <1>7, <1>8 DEF TypeOK

LEMMA AllMetricsDoneOK ==
    ASSUME TypeOK, FineInv, AllMetricsDone PROVE TypeOK' /\ NextFine
<1>1. /\ stage' = "equal" /\ kind' = "core" /\ i' = 1 /\ j' = 2 /\ attempt' = NoAttempt
      /\ UNCHANGED <<metrics, metadata, todo, open, formed, groups, together>>
    BY DEF AllMetricsDone, FirstPair, collectVars
<1>2. merged' \in BOOLEAN
    BY DEF AllMetricsDone, FirstPair
<1>3. NextFine
    BY <1>1 DEF FineInv, NextFine, AllGroups
<1> QED BY <1>1, <1>2, <1>3 DEF TypeOK, Kinds

\* The groups after j are moved up; no group appears.
LEMMA RemovalFacts ==
    ASSUME NEW S, NEW s \in Seq(S), NEW n \in 1..Len(s)
    PROVE  /\ Without(s, n) \in Seq(S)
           /\ Groups(Without(s, n)) \subseteq Groups(s)
           /\ \A m \in 1..Len(s) : m # n => s[m] \in Groups(Without(s, n))
<1>1. /\ Without(s, n) \in Seq(S) /\ DOMAIN Without(s, n) = 1..(Len(s) - 1)
      /\ \A m \in 1..(Len(s) - 1) : Without(s, n)[m] = IF m < n THEN s[m] ELSE s[m + 1]
    BY WithoutFacts
<1>2. Len(s) \in Nat /\ DOMAIN s = 1..Len(s)
    OBVIOUS
<1>3. Groups(Without(s, n)) \subseteq Groups(s)
    <2>1. ASSUME NEW m \in DOMAIN Without(s, n)
          PROVE  \E b \in DOMAIN s : Without(s, n)[m] = s[b]
        <3>1. m \in 1..(Len(s) - 1) /\ m \in DOMAIN s /\ m + 1 \in DOMAIN s
            BY <1>1, <1>2
        <3> QED BY <1>1, <3>1
    <2> QED BY <2>1 DEF Groups
<1>4. ASSUME NEW m \in 1..Len(s), m # n PROVE s[m] \in Groups(Without(s, n))
    <2>1. CASE m < n
        <3>1. m \in DOMAIN Without(s, n) /\ Without(s, n)[m] = s[m]
            BY <1>1, <1>2, <2>1
        <3> QED BY <3>1 DEF Groups
    <2>2. CASE m > n
        <3>1. m - 1 \in DOMAIN Without(s, n) /\ Without(s, n)[m - 1] = s[m]
            BY <1>1, <1>2, <2>2
        <3> QED BY <3>1 DEF Groups
    <2> QED BY <1>2, <1>4, <2>1, <2>2
<1> QED BY <1>1, <1>3, <1>4

LEMMA CompareGroupsOK ==
    ASSUME TypeOK, FineInv, CompareGroups PROVE TypeOK' /\ NextFine
<1>1. /\ stage = "equal" /\ kind \in Kinds /\ groups \in GroupLists
      /\ UNCHANGED <<metrics, metadata, stage, kind, todo, open, formed, i, attempt, merged, together>>
    BY DEF CompareGroups, collectVars, TypeOK
<1>2. attempt = NoAttempt
    BY <1>1, NoMerge
<1>3. i \in Nat \ {0} /\ j \in Nat /\ i < j /\ j <= Len(groups[kind]) /\ groups[kind] \in Seq(GroupOf(kind))
    BY <1>1, Typed DEF CompareGroups, Pair, TypeOK
<1>4. CASE groups' = [groups EXCEPT ![kind] = Without(@, j)] /\ j' = j
    <2> DEFINE s == Without(groups[kind], j)
    <2>1. j \in 1..Len(groups[kind])
        BY <1>3
    <2>2. s \in Seq(GroupOf(kind)) /\ Groups(s) \subseteq Groups(groups[kind])
        BY <1>3, <2>1, RemovalFacts
    <2>3. groups' = [groups EXCEPT ![kind] = s]
        BY <1>4
    <2> HIDE DEF s
    <2>4. /\ [groups EXCEPT ![kind] = s] \in GroupLists /\ [groups EXCEPT ![kind] = s][kind] = s
          /\ \A l \in Kinds : l # kind => [groups EXCEPT ![kind] = s][l] = groups[l]
        BY <1>1, <2>2, ListsUpdate
    <2>5. groups' \in GroupLists /\ \A k \in Kinds : Groups(groups'[k]) \subseteq Groups(groups[k])
        BY <2>2, <2>3, <2>4
    <2>6. NextFine
        BY <1>1, <1>2, <2>5 DEF FineInv, NextFine, AllGroups
    <2> QED BY <1>1, <1>2, <1>3, <1>4, <2>5, <2>6 DEF TypeOK
<1>5. CASE groups' = groups /\ j' = j + 1
    <2>1. NextFine
        BY <1>1, <1>5, SameGroups
    <2>2. j' \in Nat /\ i < j'
        BY <1>3, <1>5
    <2> QED BY <1>1, <1>2, <1>3, <1>5, <2>1, <2>2 DEF TypeOK
<1> QED BY <1>4, <1>5 DEF CompareGroups

\* A merge works on groups i and j of its kind.
LEMMA PairFacts ==
    ASSUME TypeOK, j <= Len(groups[kind])
    PROVE  /\ kind \in Kinds /\ groups[kind] \in Seq(GroupOf(kind)) /\ groups \in GroupLists
           /\ i \in 1..Len(groups[kind]) /\ j \in 1..Len(groups[kind]) /\ i # j
           /\ DOMAIN groups[kind] = 1..Len(groups[kind])
           /\ groups[kind][i] \in GroupOf(kind) /\ groups[kind][j] \in GroupOf(kind)
<1>1. kind \in Kinds /\ groups \in GroupLists /\ i \in Nat \ {0} /\ j \in Nat /\ i < j
    BY DEF TypeOK
<1>2. groups[kind] \in Seq(GroupOf(kind))
    BY <1>1, Typed
<1>3. /\ i \in 1..Len(groups[kind]) /\ j \in 1..Len(groups[kind]) /\ i # j
      /\ DOMAIN groups[kind] = 1..Len(groups[kind])
    BY <1>1, <1>2
<1> QED BY <1>1, <1>2, <1>3

LEMMA StartMergeOK ==
    ASSUME TypeOK, FineInv, StartMerge PROVE TypeOK' /\ NextFine
<1>1. /\ stage = "merge" /\ j <= Len(groups[kind])
      /\ UNCHANGED <<metrics, metadata, stage, kind, todo, open, formed, groups, i, j, merged, together>>
      /\ attempt' = [copy |-> groups[kind][i], fixed |-> groups[kind][j].fixed,
                     gp |-> GPCounters \ Free(groups[kind][j])]
    BY DEF StartMerge, Pair, collectVars
<1>2. /\ kind \in Kinds /\ i \in DOMAIN groups[kind] /\ j \in DOMAIN groups[kind]
      /\ groups[kind][i] \in GroupOf(kind) /\ groups[kind][j] \in GroupOf(kind)
    BY <1>1, PairFacts
<1>3. groups[kind][j].fixed \in Seq(CoreEvent) /\ (kind = "uncore" => groups[kind][j].fixed = <<>>)
    <2>1. CASE kind = "core"
        BY <1>2, <2>1 DEF GroupOf, CoreGroup
    <2>2. CASE kind = "uncore"
        <3>1. groups[kind][j].fixed = <<>>
            BY <1>2, <2>2 DEF GroupOf, UncoreGroup
        <3> QED BY <3>1
    <2> QED BY <1>2, <2>1, <2>2 DEF Kinds
<1>4. attempt' \in [copy : GroupOf(kind), fixed : Seq(CoreEvent), gp : SUBSET GPCounters]
    BY <1>1, <1>2, <1>3
<1>5. attempt'.gp \cap Free(groups[kind][j]) = {} /\ (kind = "uncore" => attempt'.fixed = <<>>)
    BY <1>1, <1>3
<1>6. AttemptOK'
    BY <1>1, <1>2, <1>4, <1>5 DEF AttemptOK, Free
<1>7. Fine(kind, groups[kind][i])
    BY <1>2 DEF FineInv, AllGroups, Groups
<1>8. \A k \in Kinds : AllGroups(k)' \subseteq AllGroups(k) \cup (IF k = kind THEN {groups[kind][i]} ELSE {})
    BY <1>1 DEF AllGroups
<1>9. NextFine
    BY <1>2, <1>7, <1>8 DEF FineInv, NextFine
<1> QED BY <1>1, <1>6, <1>9 DEF TypeOK

LEMMA MergeEventOK ==
    ASSUME TypeOK, FineInv, attempt # NoAttempt, NEW e \in EventOf(kind), NEW r \in BOOLEAN,
           NEW rest, rest \in [copy : GroupOf(kind), fixed : Seq(CoreEvent), gp : SUBSET attempt.gp],
           kind = "uncore" => rest.fixed = <<>>,
           MergeEvent(e, r, rest)
    PROVE  TypeOK' /\ NextFine
<1>1. AttemptOK /\ kind \in Kinds /\ j \in Nat /\ i < j /\ i \in Nat \ {0}
    BY DEF TypeOK
<1>2. UNCHANGED <<metrics, metadata, stage, kind, todo, open, formed, groups, i, merged, together>>
    BY DEF MergeEvent, collectVars
<1>3. Fine(kind, attempt.copy)
    BY <1>1 DEF FineInv, AllGroups
<1>4. CASE \E g \in AddEvent(kind, attempt.copy, e, r) : attempt' = [rest EXCEPT !.copy = g] /\ j' = j
    <2>1. PICK g \in AddEvent(kind, attempt.copy, e, r) : attempt' = [rest EXCEPT !.copy = g]
        BY <1>4
    <2>2. attempt.copy \in GroupOf(kind)
        BY <1>1 DEF AttemptOK
    <2>3. g \in GroupOf(kind) /\ Fine(kind, g)
        BY <1>1, <1>3, <2>2, AddKeeps
    <2>4. /\ attempt' \in [copy : GroupOf(kind), fixed : Seq(CoreEvent), gp : SUBSET attempt.gp]
          /\ attempt'.copy = g /\ (kind = "uncore" => attempt'.fixed = <<>>)
        BY <2>1, <2>3
    <2>5. AttemptOK'
        BY <1>1, <1>2, <1>4, <2>4 DEF AttemptOK, Free
    <2>6. \A k \in Kinds : AllGroups(k)' \subseteq AllGroups(k) \cup (IF k = kind THEN {g} ELSE {})
        BY <1>2, <2>4 DEF AllGroups
    <2>7. NextFine
        BY <1>1, <2>3, <2>6 DEF FineInv, NextFine
    <2> QED BY <1>2, <1>4, <2>5, <2>7 DEF TypeOK
<1>5. CASE attempt' = NoAttempt /\ j' = j + 1
    <2>1. NextFine
        BY <1>2, <1>5 DEF FineInv, NextFine, AllGroups
    <2>2. j' \in Nat /\ i < j'
        BY <1>1, <1>5
    <2> QED BY <1>2, <1>5, <2>1, <2>2 DEF TypeOK
<1> QED BY <1>4, <1>5 DEF MergeEvent

LEMMA MergeFixedFacts ==
    ASSUME TypeOK, MergeFixed
    PROVE  /\ attempt # NoAttempt /\ attempt.fixed # <<>> /\ Head(attempt.fixed) \in EventOf(kind)
           /\ [attempt EXCEPT !.fixed = Tail(@)]
                 \in [copy : GroupOf(kind), fixed : Seq(CoreEvent), gp : SUBSET attempt.gp]
           /\ kind = "core"
<1>1. AttemptOK /\ attempt.fixed # <<>> /\ kind \in Kinds /\ attempt # NoAttempt
    BY DEF TypeOK, MergeFixed, Merging
<1>2. kind = "core" /\ attempt.fixed \in Seq(CoreEvent)
    BY <1>1 DEF AttemptOK, Kinds
<1>3. Head(attempt.fixed) \in CoreEvent /\ Tail(attempt.fixed) \in Seq(CoreEvent)
    BY <1>1, <1>2
<1> QED BY <1>1, <1>2, <1>3 DEF AttemptOK, EventOf

LEMMA MergeGPFacts ==
    ASSUME TypeOK, Merging, NEW c \in attempt.gp
    PROVE  /\ attempt # NoAttempt /\ groups[kind][j].gp[c] \in EventOf(kind)
           /\ c \in GPCounters \ Free(groups[kind][j]) /\ groups[kind][j] \in GroupOf(kind)
           /\ [attempt EXCEPT !.gp = @ \ {c}]
                 \in [copy : GroupOf(kind), fixed : Seq(CoreEvent), gp : SUBSET attempt.gp]
<1>1. AttemptOK /\ attempt # NoAttempt /\ kind \in Kinds
    BY DEF TypeOK, Merging
<1>2. groups[kind][j] \in GroupOf(kind)
    BY <1>1, Typed DEF AttemptOK, Groups
<1>3. c \in GPCounters /\ groups[kind][j].gp[c] # NoEvent
    BY <1>1 DEF AttemptOK, Free
<1>4. groups[kind][j].gp[c] \in EventOf(kind)
    BY <1>1, <1>2, <1>3 DEF GroupOf, EventOf, CoreGroup, UncoreGroup, Kinds
<1> QED BY <1>1, <1>2, <1>3, <1>4 DEF AttemptOK, Free

LEMMA MergeFixedOK ==
    ASSUME TypeOK, FineInv, MergeFixed PROVE TypeOK' /\ NextFine
<1>1. MergeEvent(Head(attempt.fixed), FALSE, [attempt EXCEPT !.fixed = Tail(@)])
    BY DEF MergeFixed
<1> QED BY <1>1, MergeFixedFacts, MergeEventOK

LEMMA MergeGPOK ==
    ASSUME TypeOK, FineInv, MergeGP PROVE TypeOK' /\ NextFine
<1>1. PICK c \in attempt.gp :
          MergeEvent(groups[kind][j].gp[c], TRUE, [attempt EXCEPT !.gp = @ \ {c}])
    BY DEF MergeGP, Least
<1>2. Merging /\ attempt.fixed = <<>>
    BY DEF MergeGP
<1>3. [attempt EXCEPT !.gp = @ \ {c}].fixed = <<>>
    BY <1>2 DEF TypeOK, Merging, AttemptOK
<1> QED BY <1>1, <1>2, <1>3, MergeGPFacts, MergeEventOK

LEMMA CompleteMergeOK ==
    ASSUME TypeOK, FineInv, CompleteMerge PROVE TypeOK' /\ NextFine
<1>1. /\ AttemptOK /\ stage = "merge" /\ attempt' = NoAttempt
      /\ UNCHANGED <<metrics, metadata, stage, kind, todo, open, formed, i, j, together>>
    BY DEF CompleteMerge, Merging, TypeOK, collectVars
<1>2. merged' \in BOOLEAN
    BY DEF CompleteMerge
<1>3. j <= Len(groups[kind])
    BY <1>1, Typed DEF AttemptOK, TypeOK
<1>4. /\ kind \in Kinds /\ groups[kind] \in Seq(GroupOf(kind)) /\ groups \in GroupLists
      /\ i \in 1..Len(groups[kind]) /\ j \in 1..Len(groups[kind])
    BY <1>3, PairFacts
<1>5. attempt.copy \in GroupOf(kind) /\ Fine(kind, attempt.copy) /\ attempt # NoAttempt
    BY <1>1, <1>4 DEF AttemptOK, FineInv, AllGroups, CompleteMerge, Merging
<1> DEFINE t == [groups[kind] EXCEPT ![i] = attempt.copy]
           s == Without(t, j)
<1>6. t \in Seq(GroupOf(kind)) /\ Len(t) = Len(groups[kind])
      /\ Groups(t) \subseteq Groups(groups[kind]) \cup {attempt.copy}
    BY <1>4, <1>5 DEF Groups
<1>7. groups' = [groups EXCEPT ![kind] = s]
    BY DEF CompleteMerge
<1> HIDE DEF t
<1>8. s \in Seq(GroupOf(kind)) /\ Groups(s) \subseteq Groups(t)
    BY <1>4, <1>6, RemovalFacts
<1> HIDE DEF s
<1>9. /\ [groups EXCEPT ![kind] = s] \in GroupLists /\ [groups EXCEPT ![kind] = s][kind] = s
      /\ \A l \in Kinds : l # kind => [groups EXCEPT ![kind] = s][l] = groups[l]
    BY <1>4, <1>8, ListsUpdate
<1>10. \A k \in Kinds : AllGroups(k)' \subseteq AllGroups(k) \cup (IF k = kind THEN {attempt.copy} ELSE {})
    BY <1>1, <1>6, <1>7, <1>8, <1>9 DEF AllGroups
<1>11. NextFine
    BY <1>4, <1>5, <1>10 DEF FineInv, NextFine
<1> QED BY <1>1, <1>2, <1>7, <1>9, <1>11 DEF TypeOK

LEMMA NextRowOK ==
    ASSUME TypeOK, FineInv, NextRow PROVE TypeOK' /\ NextFine
<1>1. /\ i <= Len(groups[kind]) /\ j > Len(groups[kind]) /\ i' = i + 1 /\ j' = i + 2
      /\ UNCHANGED <<metrics, metadata, stage, kind, todo, open, formed, groups, attempt, merged, together>>
    BY DEF NextRow, collectVars
<1>2. kind \in Kinds /\ groups[kind] \in Seq(GroupOf(kind)) /\ i \in Nat \ {0} /\ j \in Nat
    BY Typed DEF TypeOK
<1>3. attempt = NoAttempt
    BY <1>1, <1>2, NoMerge
<1>4. i' \in Nat \ {0} /\ j' \in Nat /\ i' < j'
    BY <1>1, <1>2
<1>5. NextFine
    BY <1>1, SameGroups
<1> QED BY <1>1, <1>3, <1>4, <1>5 DEF TypeOK

\* Events that are removed leave a free counter.
LEMMA RepeatedFacts ==
    ASSUME TypeOK, FineInv
    PROVE  /\ RemoveRepeated(groups.uncore) \in Seq(UncoreGroup)
           /\ \A g \in Groups(RemoveRepeated(groups.uncore)) : Fine("uncore", g)
<1> DEFINE s == groups.uncore
           t == RemoveRepeated(s)
<1>1. s \in Seq(UncoreGroup)
    BY DEF TypeOK, GroupLists
<1>2. ASSUME NEW n \in DOMAIN s PROVE t[n] \in UncoreGroup /\ Fine("uncore", t[n])
    <2>1. s[n] \in UncoreGroup /\ OnCounters(s[n]) /\ OneUnit(s[n])
        BY <1>1 DEF FineInv, AllGroups, Groups, Fine, Kinds
    <2>2. t[n].fixed = s[n].fixed /\ t[n] \in UncoreGroup
          /\ \A c \in GPCounters : t[n].gp[c] = NoEvent \/ t[n].gp[c] = s[n].gp[c]
        BY <2>1 DEF RemoveRepeated, UncoreGroup
    <2>3. GPCounters \ Free(t[n]) \subseteq GPCounters \ Free(s[n]) /\ OnGP(t[n]) \subseteq OnGP(s[n])
        BY <2>2 DEF Free, OnGP
    <2>4. \A c \in GPCounters \ Free(t[n]) : t[n].gp[c] = s[n].gp[c]
        BY <2>2 DEF Free
    <2>5. OnCounters(t[n])
        BY <2>1, <2>2, <2>3, <2>4 DEF OnCounters
    <2> QED BY <2>1, <2>2, <2>3, <2>5 DEF Fine, OneUnit
<1>3. DOMAIN t = DOMAIN s
    BY DEF RemoveRepeated
<1> HIDE DEF t
<1>4. t \in Seq(UncoreGroup)
    <2>1. DOMAIN s = 1..Len(s) /\ Len(s) \in Nat
        BY <1>1
    <2>2. t = [n \in 1..Len(s) |-> t[n]]
        BY <1>3, <2>1 DEF t, RemoveRepeated
    <2>3. [n \in 1..Len(s) |-> t[n]] \in Seq(UncoreGroup)
        BY <1>2, <2>1
    <2> QED BY <2>2, <2>3
<1> QED BY <1>2, <1>3, <1>4 DEF t, Groups

LEMMA EndPassOK ==
    ASSUME TypeOK, FineInv, EndPass PROVE TypeOK' /\ NextFine
<1>1. /\ i' = 1 /\ j' = 2 /\ attempt' = NoAttempt
      /\ kind' \in Kinds /\ stage' \in {"equal", "merge", "done"}
      /\ UNCHANGED <<metrics, metadata, todo, open, formed, together>>
    BY DEF EndPass, FirstPair, collectVars, Kinds
<1>2. merged' \in BOOLEAN
    BY DEF EndPass, FirstPair
<1>3. groups \in GroupLists
    BY DEF TypeOK
<1>4. groups' = groups \/ groups' = [groups EXCEPT !.uncore = RemoveRepeated(@)]
    BY DEF EndPass
<1>5. CASE groups' = groups
    <2>1. NextFine
        BY <1>1, <1>5 DEF FineInv, NextFine, AllGroups
    <2> QED BY <1>1, <1>2, <1>3, <1>5, <2>1 DEF TypeOK
<1>6. CASE groups' = [groups EXCEPT !.uncore = RemoveRepeated(@)]
    <2>1. /\ groups' \in GroupLists /\ groups'.core = groups.core
          /\ groups'.uncore = RemoveRepeated(groups.uncore)
        BY <1>3, <1>6, RepeatedFacts DEF GroupLists
    <2>2. \A k \in Kinds : AllGroups(k)' \subseteq
              AllGroups(k) \cup (IF k = "uncore" THEN Groups(RemoveRepeated(groups.uncore)) ELSE {})
        BY <1>1, <2>1 DEF AllGroups, Kinds
    <2>3. NextFine
        BY <2>2, RepeatedFacts DEF FineInv, NextFine
    <2> QED BY <1>1, <1>2, <2>1, <2>3 DEF TypeOK
<1> QED BY <1>4, <1>5, <1>6

-----------------------------------------------------------------------------
(***************************************************************************)
(* Every group can be counted.                                             *)
(***************************************************************************)
GroupsInv == TypeOK /\ FineInv

LEMMA FineStays ==
    ASSUME metadata' = metadata PROVE \A k, g : Fine(k, g)' <=> Fine(k, g)
BY DEF Fine, Kept, OnCounters, OnFixedCounters, OnFixedCounter, FewOffcore, SlotsLead, OneUnit

LEMMA GroupsInit == Init => GroupsInv
<1> SUFFICES ASSUME Init PROVE TypeOK /\ FineInv
    BY DEF GroupsInv
<1>1. \A k \in Kinds : AllGroups(k) = {NewGroup}
    BY DEF Init, AllGroups, NoGroups, NewGroups, Groups, Kinds
<1> QED BY <1>1, TypeInit, NewGroupFine DEF FineInv

LEMMA GroupsStep == GroupsInv /\ [Next]_vars => GroupsInv'
<1> SUFFICES ASSUME TypeOK, FineInv, [Next]_vars PROVE TypeOK' /\ FineInv'
    BY DEF GroupsInv
<1>1. metadata' = metadata
    BY DEF Next, vars, SkipMetric, StartMetric, AddToCoreGroup, AddToUncoreGroup, AddToGroup, AddOther,
           EndMetric, AllMetricsDone, CompareGroups, NextRow, EndPass, StartMerge, MergeFixed, MergeGP,
           MergeEvent, CompleteMerge
<1>2. ASSUME NextFine PROVE FineInv'
    BY <1>1, <1>2, FineStays DEF NextFine, FineInv
<1>3. CASE AddToCoreGroup
    <2>1. AddToGroup("core") /\ Head(todo) \in EventOf("core") /\ "core" \in Kinds
        BY <1>3 DEF AddToCoreGroup, EventOf, Kinds
    <2> QED BY <1>2, <2>1, AddToGroupOK
<1>4. CASE AddToUncoreGroup
    <2>1. AddToGroup("uncore") /\ Head(todo) \in EventOf("uncore") /\ "uncore" \in Kinds
        BY <1>4 DEF AddToUncoreGroup, EventOf, Kinds
    <2> QED BY <1>2, <2>1, AddToGroupOK
<1>5. CASE UNCHANGED vars
    <2>1. NextFine
        BY <1>5, SameGroups DEF vars, collectVars, pairVars
    <2>2. TypeOK'
        BY <1>5 DEF vars, collectVars, pairVars, TypeOK, AttemptOK, Free
    <2> QED BY <1>2, <2>1, <2>2
<1> QED
    BY <1>2, <1>3, <1>4, <1>5, SkipMetricOK, StartMetricOK, AddOtherOK, EndMetricOK, AllMetricsDoneOK,
       CompareGroupsOK, NextRowOK, EndPassOK, StartMergeOK, MergeFixedOK, MergeGPOK, CompleteMergeOK
    DEF Next

LEMMA GroupsAlways == Spec => []GroupsInv
<1> QED BY GroupsInit, GroupsStep, PTL DEF Spec

\* Every variable of the loader has its type, for all events and lists of metrics.
THEOREM TypeCorrect == Spec => []TypeOK
<1>1. GroupsInv => TypeOK
    BY DEF GroupsInv
<1> QED BY <1>1, GroupsAlways, PTL

\* perf can count the events of every core group together, whatever the metrics, the
\* counters of their events and the support of the target (CoreGroup.AddEvent and Merge).
THEOREM CoreGroupsCountable == Spec => []CoreCountable
<1>1. GroupsInv => CoreCountable
    BY DEF GroupsInv, FineInv, CoreCountable, Fine, Kept, Kinds
<1> QED BY <1>1, GroupsAlways, PTL

\* So it can those of every uncore group, also after events were removed from it.
THEOREM UncoreGroupsCountable == Spec => []UncoreCountable
<1>1. GroupsInv => UncoreCountable
    BY DEF GroupsInv, FineInv, UncoreCountable, Fine, Kinds
<1> QED BY <1>1, GroupsAlways, PTL

\* No core group, also not a merged one, counts more than two offcore response events: the
\* check of AddEvent is made for each event of a merge, too.  In the event files an offcore
\* event is on no fixed counter and no PERF_METRICS event.
THEOREM OffcoreEventsAreFew ==
    ASSUME \A e \in Offcore : FixedCounter[e] = NotFixed /\ e \notin PerfMetrics \cup {Slots}
    PROVE  Spec => []TwoOffcore
<1>1. ASSUME NEW g \in CoreGroup, Kept(g) PROVE Cardinality(EventsOf(g) \cap Offcore) <= 2
    <2> DEFINE C == OffcoreCounters(g)
               E == EventsOf(g) \cap Offcore
               counts == [c \in C |-> g.gp[c]]
    <2>1. Range(g.fixed) \cap Offcore = {}
        BY <1>1 DEF Kept, OnFixedCounters, OnFixedCounter, Range, NotFixed
    <2>2. E = {g.gp[c] : c \in C}
        BY <2>1, EventAssumption DEF EventsOf, OnGP, OffcoreCounters, Events
    <2>3. counts \in Surjection(C, E)
        BY <2>2 DEF Surjection
    <2>4. IsFiniteSet(C) /\ Cardinality(C) \in Nat /\ Cardinality(C) <= 2
        BY <1>1, OffcoreFinite DEF Kept, FewOffcore
    <2> HIDE DEF C, E, counts
    <2>5. IsFiniteSet(E) /\ Cardinality(E) <= Cardinality(C)
        BY <2>3, <2>4, FS_Surjection
    <2>6. Cardinality(E) \in Nat
        BY <2>5, FS_CardinalityType
    <2> QED BY <2>4, <2>5, <2>6 DEF E
<1>2. GroupsInv => TwoOffcore
    <2> SUFFICES ASSUME GroupsInv, NEW g \in AllGroups("core") PROVE g \in CoreGroup /\ Kept(g)
        BY <1>1 DEF TwoOffcore
    <2>1. "core" \in Kinds /\ GroupOf("core") = CoreGroup
        BY DEF Kinds, GroupOf
    <2>2. formed["core"] \in Seq(CoreGroup) /\ groups["core"] \in Seq(CoreGroup)
          /\ open["core"] \in CoreGroup
        BY <2>1, Typed DEF GroupsInv
    <2>3. attempt # NoAttempt /\ kind = "core" => attempt.copy \in CoreGroup
        BY <2>1 DEF GroupsInv, TypeOK, AttemptOK
    <2>4. g \in CoreGroup
        BY <2>2, <2>3 DEF AllGroups, Groups
    <2>5. Kept(g)
        BY <2>1 DEF GroupsInv, FineInv, Fine
    <2> QED BY <2>4, <2>5
<1> QED BY <1>2, GroupsAlways, PTL

-----------------------------------------------------------------------------
(***************************************************************************)
(* No event leaves its group.                                              *)
(***************************************************************************)
\* The copy of a merge has the events of group i and those of group j that are not left.
Copied ==
    attempt # NoAttempt /\ kind = "core" =>
        /\ EventsOf(groups.core[i]) \subseteq EventsOf(attempt.copy)
        /\ EventsOf(groups.core[j]) \subseteq
              EventsOf(attempt.copy) \cup Range(attempt.fixed) \cup {groups.core[j].gp[c] : c \in attempt.gp}

CoveredInv == FormedGroupsKept /\ Copied

\* Steps that touch neither the core groups nor a merge of them.
LEMMA CoveredSame ==
    ASSUME FormedGroupsKept, groups'.core = groups.core, together'.core = together.core,
           attempt' = NoAttempt
    PROVE  CoveredInv'
BY DEF CoveredInv, FormedGroupsKept, Copied

LEMMA EndMetricCovers ==
    ASSUME TypeOK, FineInv, FormedGroupsKept, EndMetric PROVE CoveredInv'
<1>1. attempt' = NoAttempt
    BY NoMerge DEF EndMetric, pairVars
<1>2. /\ together'.core = together.core \cup {EventsOf(g) : g \in Groups(Completed("core"))}
      /\ groups'.core = groups.core \o Completed("core")
    BY DEF EndMetric
<1>3. Groups(groups'.core) = Groups(groups.core) \cup Groups(Completed("core"))
    <2>1. Groups(groups["core"] \o Completed("core")) = Groups(groups["core"]) \cup Groups(Completed("core"))
        BY CompletedFacts DEF Kinds
    <2> QED BY <1>2, <2>1
<1> QED BY <1>1, <1>2, <1>3 DEF CoveredInv, FormedGroupsKept, Copied

\* A group that is removed has an equal one, or its events are in the copy.
LEMMA RemovedCovered ==
    ASSUME NEW S, NEW s \in Seq(S), NEW n \in 1..Len(s), NEW m \in 1..Len(s), m # n,
           EventsOf(s[n]) \subseteq EventsOf(s[m]), NEW g \in Groups(s)
    PROVE  \E h \in Groups(Without(s, n)) : EventsOf(g) \subseteq EventsOf(h)
<1>1. PICK b \in 1..Len(s) : g = s[b]
    BY DEF Groups
<1>2. \A a \in 1..Len(s) : a # n => s[a] \in Groups(Without(s, n))
    BY RemovalFacts
<1> QED BY <1>1, <1>2

LEMMA CompareCovers ==
    ASSUME TypeOK, FineInv, FormedGroupsKept, CompareGroups PROVE CoveredInv'
<1>1. attempt' = NoAttempt /\ together' = together /\ j <= Len(groups[kind]) /\ kind \in Kinds
    BY NoMerge DEF CompareGroups, Pair, TypeOK
<1>2. CASE kind = "core" /\ Equal(groups.core[i], groups.core[j])
    <2>1. groups'.core = Without(groups.core, j)
        BY <1>2 DEF CompareGroups, TypeOK, GroupLists
    <2>2. /\ groups.core \in Seq(CoreGroup) /\ i \in 1..Len(groups.core) /\ j \in 1..Len(groups.core)
          /\ i # j
        BY <1>1, <1>2, PairFacts DEF GroupOf
    <2>3. EventsOf(groups.core[j]) \subseteq EventsOf(groups.core[i])
        BY <1>2 DEF Equal, EventsOf
    <2>4. \A S \in together.core : \E g \in Groups(Without(groups.core, j)) : S \subseteq EventsOf(g)
        <3> DEFINE C == together.core
                   s == groups.core
        <3>1. \A S \in C : \E g \in Groups(s) : S \subseteq EventsOf(g)
            BY DEF FormedGroupsKept
        <3>2. s \in Seq(CoreGroup) /\ i \in 1..Len(s) /\ j \in 1..Len(s) /\ i # j
              /\ EventsOf(s[j]) \subseteq EventsOf(s[i])
            BY <2>2, <2>3
        <3> HIDE DEF C, s
        <3>3. \A g \in Groups(s) : \E h \in Groups(Without(s, j)) : EventsOf(g) \subseteq EventsOf(h)
            BY <3>2, RemovedCovered
        <3>4. \A S \in C : \E g \in Groups(Without(s, j)) : S \subseteq EventsOf(g)
            BY <3>1, <3>3
        <3> QED BY <3>4 DEF C, s
    <2> QED BY <1>1, <2>1, <2>4 DEF CoveredInv, FormedGroupsKept, Copied
<1>3. CASE ~(kind = "core" /\ Equal(groups.core[i], groups.core[j]))
    <2>1. groups'.core = groups.core
        <3>1. CASE groups' = groups
            BY <3>1
        <3>2. CASE kind = "uncore" /\ groups' = [groups EXCEPT ![kind] = Without(@, j)]
            BY <3>2 DEF TypeOK, GroupLists
        <3> QED BY <1>1, <1>3, <3>1, <3>2 DEF CompareGroups, Kinds
    <2> QED BY <1>1, <2>1, CoveredSame
<1> QED BY <1>2, <1>3

LEMMA StartMergeCovers ==
    ASSUME TypeOK, FineInv, FormedGroupsKept, StartMerge PROVE CoveredInv'
<1>1. /\ groups' = groups /\ together' = together /\ kind' = kind /\ i' = i /\ j' = j
      /\ attempt'.copy = groups[kind][i] /\ attempt'.fixed = groups[kind][j].fixed
      /\ attempt'.gp = GPCounters \ Free(groups[kind][j])
    BY DEF StartMerge
<1>2. OnGP(groups.core[j]) \subseteq {groups.core[j].gp[c] : c \in GPCounters \ Free(groups.core[j])}
    BY DEF OnGP, Free
<1> QED BY <1>1, <1>2 DEF CoveredInv, FormedGroupsKept, Copied, EventsOf

\* An event that is added to the copy is not left any more, and the copy loses none.
LEMMA MergeEventCovers ==
    ASSUME TypeOK, FineInv, FormedGroupsKept, Copied, attempt # NoAttempt,
           NEW e \in EventOf(kind), NEW r \in BOOLEAN,
           NEW rest, rest \in [copy : GroupOf(kind), fixed : Seq(CoreEvent), gp : SUBSET attempt.gp],
           kind = "core" =>
               Range(attempt.fixed) \cup {groups.core[j].gp[c] : c \in attempt.gp} \subseteq
               Range(rest.fixed) \cup {groups.core[j].gp[c] : c \in rest.gp} \cup {e},
           MergeEvent(e, r, rest)
    PROVE  CoveredInv'
<1>1. groups' = groups /\ together' = together /\ kind' = kind /\ i' = i
    BY DEF MergeEvent
<1>2. CASE attempt' = NoAttempt
    BY <1>1, <1>2, CoveredSame
<1>3. CASE j' = j /\ \E g \in AddEvent(kind, attempt.copy, e, r) : attempt' = [rest EXCEPT !.copy = g]
    <2>1. PICK g \in AddEvent(kind, attempt.copy, e, r) : attempt' = [rest EXCEPT !.copy = g]
        BY <1>3
    <2>2. kind \in Kinds /\ attempt.copy \in GroupOf(kind) /\ Fine(kind, attempt.copy)
        BY DEF TypeOK, AttemptOK, FineInv, AllGroups
    <2>3. EventsOf(attempt.copy) \cup {e} \subseteq EventsOf(g)
        BY <2>2, AddKeeps
    <2>4. attempt'.copy = g /\ attempt'.fixed = rest.fixed /\ attempt'.gp = rest.gp
        BY <2>1
    <2>5. ASSUME kind = "core"
          PROVE  /\ EventsOf(groups.core[i]) \subseteq EventsOf(g)
                 /\ EventsOf(groups.core[j]) \subseteq
                       EventsOf(g) \cup Range(rest.fixed) \cup {groups.core[j].gp[c] : c \in rest.gp}
        BY <2>3, <2>5 DEF Copied
    <2> QED BY <1>1, <1>3, <2>4, <2>5 DEF CoveredInv, FormedGroupsKept, Copied
<1> QED BY <1>2, <1>3 DEF MergeEvent

LEMMA MergeFixedCovers ==
    ASSUME TypeOK, FineInv, FormedGroupsKept, Copied, MergeFixed PROVE CoveredInv'
<1> DEFINE rest == [attempt EXCEPT !.fixed = Tail(@)]
           e == Head(attempt.fixed)
<1>1. MergeEvent(e, FALSE, rest) /\ attempt # NoAttempt /\ e \in EventOf(kind)
      /\ rest \in [copy : GroupOf(kind), fixed : Seq(CoreEvent), gp : SUBSET attempt.gp]
    BY MergeFixedFacts DEF MergeFixed
<1>2. attempt.fixed \in Seq(CoreEvent) /\ attempt.fixed # <<>>
      /\ rest.fixed = Tail(attempt.fixed) /\ rest.gp = attempt.gp
    BY <1>1 DEF TypeOK, AttemptOK, MergeFixed
<1>3. Range(attempt.fixed) \subseteq Range(Tail(attempt.fixed)) \cup {e}
    <2>1. ASSUME NEW n \in DOMAIN attempt.fixed, n # 1
          PROVE  n - 1 \in DOMAIN Tail(attempt.fixed) /\ Tail(attempt.fixed)[n - 1] = attempt.fixed[n]
        BY <1>2, <2>1
    <2>2. attempt.fixed[1] = e
        BY <1>2
    <2> QED BY <2>1, <2>2 DEF Range
<1>4. Range(attempt.fixed) \cup {groups.core[j].gp[c] : c \in attempt.gp} \subseteq
          Range(rest.fixed) \cup {groups.core[j].gp[c] : c \in rest.gp} \cup {e}
    BY <1>2, <1>3
<1> HIDE DEF rest, e
<1> QED BY <1>1, <1>4, MergeEventCovers

LEMMA MergeGPCovers ==
    ASSUME TypeOK, FineInv, FormedGroupsKept, Copied, MergeGP PROVE CoveredInv'
<1>1. PICK c \in attempt.gp :
          MergeEvent(groups[kind][j].gp[c], TRUE, [attempt EXCEPT !.gp = @ \ {c}])
    BY DEF MergeGP, Least
<1> DEFINE rest == [attempt EXCEPT !.gp = @ \ {c}]
           e == groups[kind][j].gp[c]
<1>2. attempt # NoAttempt /\ e \in EventOf(kind)
      /\ rest \in [copy : GroupOf(kind), fixed : Seq(CoreEvent), gp : SUBSET attempt.gp]
    BY MergeGPFacts DEF MergeGP
<1>3. rest.fixed = attempt.fixed /\ rest.gp = attempt.gp \ {c}
    BY <1>2 DEF TypeOK, AttemptOK
<1>4. kind = "core" =>
          Range(attempt.fixed) \cup {groups.core[j].gp[b] : b \in attempt.gp} \subseteq
          Range(rest.fixed) \cup {groups.core[j].gp[b] : b \in rest.gp} \cup {e}
    BY <1>3
<1>5. MergeEvent(e, TRUE, rest)
    BY <1>1
<1> HIDE DEF rest, e
<1> QED BY <1>2, <1>4, <1>5, MergeEventCovers

LEMMA CompleteMergeCovers ==
    ASSUME TypeOK, FineInv, FormedGroupsKept, Copied, CompleteMerge PROVE CoveredInv'
<1>1. /\ AttemptOK /\ attempt # NoAttempt /\ attempt.fixed = <<>> /\ attempt.gp = {}
      /\ attempt' = NoAttempt /\ together' = together
    BY DEF CompleteMerge, Merging, TypeOK
<1>2. kind \in Kinds /\ j <= Len(groups[kind]) /\ groups \in GroupLists
    BY <1>1, Typed DEF AttemptOK, TypeOK
<1>3. CASE kind = "uncore"
    <2>1. groups'.core = groups.core
        BY <1>2, <1>3 DEF CompleteMerge, GroupLists
    <2> QED BY <1>1, <2>1, CoveredSame
<1>4. CASE kind = "core"
    <2> DEFINE s == groups.core
               t == [s EXCEPT ![i] = attempt.copy]
               C == together.core
    <2>1. s \in Seq(CoreGroup) /\ i \in 1..Len(s) /\ j \in 1..Len(s) /\ i # j
        BY <1>2, <1>4, PairFacts DEF GroupOf
    <2>2. attempt.copy \in CoreGroup
        BY <1>1, <1>4 DEF AttemptOK, GroupOf
    <2>3. EventsOf(s[i]) \subseteq EventsOf(attempt.copy) /\ EventsOf(s[j]) \subseteq EventsOf(attempt.copy)
        BY <1>1, <1>4 DEF Copied, Range
    <2>4. /\ t \in Seq(CoreGroup) /\ Len(t) = Len(s) /\ t[i] = attempt.copy /\ t[j] = s[j]
          /\ \A n \in 1..Len(s) : EventsOf(s[n]) \subseteq EventsOf(t[n])
        BY <2>1, <2>2, <2>3
    <2>5. \A S \in C : \E g \in Groups(s) : S \subseteq EventsOf(g)
        BY DEF FormedGroupsKept
    <2>6. groups'.core = Without(t, j)
        BY <1>2, <1>4 DEF CompleteMerge, GroupLists
    <2> HIDE DEF s, t, C
    <2>7. \A S \in C : \E g \in Groups(t) : S \subseteq EventsOf(g)
        <3> SUFFICES ASSUME NEW S \in C PROVE \E g \in Groups(t) : S \subseteq EventsOf(g)
            OBVIOUS
        <3>1. PICK n \in 1..Len(s) : S \subseteq EventsOf(s[n])
            BY <2>1, <2>5 DEF Groups
        <3>2. t[n] \in Groups(t) /\ S \subseteq EventsOf(t[n])
            BY <2>4, <3>1 DEF Groups
        <3> QED BY <3>2
    <2>8. i \in 1..Len(t) /\ j \in 1..Len(t) /\ EventsOf(t[j]) \subseteq EventsOf(t[i])
        BY <2>1, <2>3, <2>4
    <2>9. \A g \in Groups(t) : \E h \in Groups(Without(t, j)) : EventsOf(g) \subseteq EventsOf(h)
        BY <2>1, <2>4, <2>8, RemovedCovered
    <2>10. \A S \in C : \E g \in Groups(Without(t, j)) : S \subseteq EventsOf(g)
        BY <2>7, <2>9
    <2> QED BY <1>1, <2>6, <2>10 DEF C, CoveredInv, FormedGroupsKept, Copied
<1> QED BY <1>2, <1>3, <1>4 DEF Kinds

LEMMA CoveredStep == GroupsInv /\ CoveredInv /\ [Next]_vars => CoveredInv'
<1> SUFFICES ASSUME TypeOK, FineInv, FormedGroupsKept, Copied, [Next]_vars PROVE CoveredInv'
    BY DEF GroupsInv, CoveredInv
<1>1. CASE SkipMetric \/ StartMetric \/ AddToCoreGroup \/ AddToUncoreGroup \/ AddOther
    <2>1. stage # "merge" /\ groups' = groups /\ together' = together /\ attempt' = attempt
        BY <1>1 DEF SkipMetric, StartMetric, AddToCoreGroup, AddToUncoreGroup, AddToGroup, AddOther,
                    Collecting, pairVars
    <2> QED BY <2>1, NoMerge, CoveredSame
<1>2. CASE AllMetricsDone \/ EndPass
    <2>1. attempt' = NoAttempt /\ together' = together /\ groups'.core = groups.core
        BY <1>2 DEF AllMetricsDone, EndPass, FirstPair, TypeOK, GroupLists
    <2> QED BY <2>1, CoveredSame
<1>3. CASE NextRow
    <2>1. attempt' = attempt /\ attempt = NoAttempt /\ together' = together /\ groups' = groups
        BY <1>3, NoMerge, Typed DEF NextRow, TypeOK
    <2> QED BY <2>1, CoveredSame
<1>4. CASE UNCHANGED vars
    BY <1>4 DEF vars, pairVars, CoveredInv, FormedGroupsKept, Copied
<1> QED
    BY <1>1, <1>2, <1>3, <1>4, EndMetricCovers, CompareCovers, StartMergeCovers, MergeFixedCovers,
       MergeGPCovers, CompleteMergeCovers DEF Next

\* The core events of a metric that were put in one group are in one group in every later
\* state, complete, abandoned and half done merges included (MergeCoreGroups and
\* EliminateDuplicateCoreGroups).
THEOREM CoreGroupsKept == Spec => []FormedGroupsKept
<1>1. Init => CoveredInv
    BY DEF Init, CoveredInv, FormedGroupsKept, Copied
<1>2. CoveredInv => FormedGroupsKept
    BY DEF CoveredInv
<1> QED BY <1>1, <1>2, GroupsAlways, CoveredStep, PTL DEF Spec

-----------------------------------------------------------------------------
(***************************************************************************)
(* The uncore events are counted, and in the end once.                     *)
(***************************************************************************)
\* Of some numbers one is the least.
LEMMA LeastNumber ==
    ASSUME NEW T \in SUBSET Nat, NEW n \in T
    PROVE  \E m \in T : \A k \in T : m <= k
<1> DEFINE R == {p \in Nat \X Nat : p[1] < p[2]}
<1>1. IsWellFoundedOn(R, Nat)
    BY NatLessThanWellFounded DEF OpToRel
<1>2. \A k, m \in Nat : k < m => <<k, m>> \in R
    BY DEF R
<1> HIDE DEF R
<1>3. PICK m \in T : \A k \in T : ~(<<k, m>> \in R)
    BY <1>1, WFMin
<1>4. ASSUME NEW k \in T PROVE m <= k
    <2>1. k \in Nat /\ m \in Nat
        OBVIOUS
    <2>2. ~(k < m)
        BY <1>2, <1>3, <2>1, Zenon
    <2> QED BY <2>1, <2>2
<1> QED BY <1>4

EachCounted == \A e \in UNION together.uncore : \E g \in Groups(groups.uncore) : e \in EventsOf(g)

Disjoint(s) ==
    \A m, n \in DOMAIN s : EventsOf(s[m]) \cap EventsOf(s[n]) # {} => m = n

\* From the removal of the repeated events on, no event is in two uncore groups.
Apart == stage = "done" \/ (stage = "merge" /\ kind = "uncore") => Disjoint(groups.uncore)

\* The copy of a merge has the events of group i and those of group j that are not left, and
\* no others.
UncoreCopied ==
    attempt # NoAttempt /\ kind = "uncore" =>
        /\ EventsOf(groups.uncore[i]) \subseteq EventsOf(attempt.copy)
        /\ EventsOf(groups.uncore[j]) \subseteq
              EventsOf(attempt.copy) \cup {groups.uncore[j].gp[c] : c \in attempt.gp}
        /\ EventsOf(attempt.copy) \subseteq
              EventsOf(groups.uncore[i]) \cup EventsOf(groups.uncore[j])

UncoreInv == EachCounted /\ Apart /\ UncoreCopied

LEMMA UncoreSame ==
    ASSUME EachCounted, Apart, groups'.uncore = groups.uncore, together'.uncore = together.uncore,
           attempt' = NoAttempt,
           \/ stage' \notin {"merge", "done"}
           \/ stage' = stage /\ kind' = kind
           \/ kind' = "core" /\ stage' # "done"
           \/ stage' = "done" /\ stage = "merge" /\ kind = "uncore"
           \/ stage' = "merge" /\ stage = "merge" /\ kind = "uncore"
    PROVE  UncoreInv'
BY DEF UncoreInv, EachCounted, Apart, Disjoint, UncoreCopied

LEMMA EndMetricUncore ==
    ASSUME TypeOK, FineInv, EachCounted, EndMetric PROVE UncoreInv'
<1>1. attempt' = NoAttempt /\ stage' = "next"
    BY NoMerge DEF EndMetric, pairVars
<1>2. /\ together'.uncore = together.uncore \cup {EventsOf(g) : g \in Groups(Completed("uncore"))}
      /\ groups'.uncore = groups.uncore \o Completed("uncore")
    BY DEF EndMetric
<1>3. Groups(groups'.uncore) = Groups(groups.uncore) \cup Groups(Completed("uncore"))
    <2>1. Groups(groups["uncore"] \o Completed("uncore"))
              = Groups(groups["uncore"]) \cup Groups(Completed("uncore"))
        BY CompletedFacts DEF Kinds
    <2> QED BY <1>2, <2>1
<1> QED BY <1>1, <1>2, <1>3 DEF UncoreInv, EachCounted, Apart, UncoreCopied

\* A removal of a group whose events another group has leaves all events counted.
LEMMA RemovedCounted ==
    ASSUME NEW S, NEW s \in Seq(S), NEW n \in 1..Len(s), NEW m \in 1..Len(s), m # n,
           EventsOf(s[n]) \subseteq EventsOf(s[m]), NEW E,
           \A e \in E : \E g \in Groups(s) : e \in EventsOf(g)
    PROVE  \A e \in E : \E g \in Groups(Without(s, n)) : e \in EventsOf(g)
<1>1. \A g \in Groups(s) : \E h \in Groups(Without(s, n)) : EventsOf(g) \subseteq EventsOf(h)
    BY RemovedCovered
<1> QED BY <1>1

LEMMA CompareUncore ==
    ASSUME TypeOK, FineInv, EachCounted, CompareGroups PROVE UncoreInv'
<1>1. /\ attempt' = NoAttempt /\ together' = together /\ j <= Len(groups[kind]) /\ kind \in Kinds
      /\ stage' = "equal" /\ groups \in GroupLists
    BY NoMerge DEF CompareGroups, Pair, TypeOK
<1>2. EachCounted'
    <2>1. CASE kind = "uncore" /\ Equal(groups.uncore[i], groups.uncore[j])
        <3> DEFINE E == UNION together.uncore
                   s == groups.uncore
        <3>1. groups'.uncore = Without(s, j)
            BY <1>1, <2>1 DEF CompareGroups, GroupLists
        <3>2. s \in Seq(UncoreGroup) /\ i \in 1..Len(s) /\ j \in 1..Len(s) /\ i # j
            BY <1>1, <2>1, PairFacts DEF GroupOf
        <3>3. EventsOf(s[j]) \subseteq EventsOf(s[i])
            BY <2>1 DEF Equal, EventsOf
        <3>4. \A e \in E : \E g \in Groups(s) : e \in EventsOf(g)
            BY DEF EachCounted
        <3>5. E' = E
            BY <1>1
        <3> HIDE DEF E, s
        <3>6. \A e \in E : \E g \in Groups(Without(s, j)) : e \in EventsOf(g)
            BY <3>2, <3>3, <3>4, RemovedCounted
        <3>7. \A e \in E : \E g \in Groups(groups'.uncore) : e \in EventsOf(g)
            BY <3>1, <3>6
        <3> QED BY <1>1, <3>7 DEF E, EachCounted
    <2>2. CASE ~(kind = "uncore" /\ Equal(groups.uncore[i], groups.uncore[j]))
        <3>1. groups'.uncore = groups.uncore
            <4>1. CASE groups' = groups
                BY <4>1
            <4>2. CASE kind = "core" /\ groups' = [groups EXCEPT ![kind] = Without(@, j)]
                BY <1>1, <4>2 DEF GroupLists
            <4> QED BY <1>1, <2>2, <4>1, <4>2 DEF CompareGroups, Kinds
        <3> QED BY <1>1, <3>1 DEF EachCounted
    <2> QED BY <2>1, <2>2
<1> QED BY <1>1, <1>2 DEF UncoreInv, Apart, UncoreCopied

LEMMA StartMergeUncore ==
    ASSUME TypeOK, FineInv, EachCounted, Apart, StartMerge PROVE UncoreInv'
<1>1. /\ groups' = groups /\ together' = together /\ kind' = kind /\ i' = i /\ j' = j
      /\ attempt'.copy = groups[kind][i] /\ attempt'.fixed = groups[kind][j].fixed
      /\ attempt'.gp = GPCounters \ Free(groups[kind][j]) /\ stage' = stage
      /\ j <= Len(groups[kind])
    BY DEF StartMerge, Pair
<1>2. OnGP(groups.uncore[j])
          \subseteq {groups.uncore[j].gp[c] : c \in GPCounters \ Free(groups.uncore[j])}
    BY DEF OnGP, Free
<1>3. kind = "uncore" => groups.uncore[j].fixed = <<>>
    BY <1>1, PairFacts DEF GroupOf, UncoreGroup
<1>4. kind = "uncore" => EventsOf(groups.uncore[j]) = OnGP(groups.uncore[j])
    BY <1>3 DEF EventsOf, Range
<1>5. UncoreCopied'
    BY <1>1, <1>2, <1>4 DEF UncoreCopied
<1> QED BY <1>1, <1>5 DEF UncoreInv, EachCounted, Apart, Disjoint

\* AddUncoreEvent adds the event and nothing else.
LEMMA AddUncoreExact ==
    ASSUME NEW g \in UncoreGroup, NEW e \in UncoreEvent, NEW r \in BOOLEAN,
           NEW h \in AddUncoreEvent(g, e, r)
    PROVE  EventsOf(h) = EventsOf(g) \cup {e}
<1>1. CASE e \in EventsOf(g)
    BY <1>1 DEF AddUncoreEvent
<1>2. CASE e \notin EventsOf(g)
    <2>1. h \in Place(g, e, r)
        BY <1>2 DEF AddUncoreEvent
    <2>2. h.fixed = g.fixed /\ OnGP(h) = OnGP(g) \cup {e}
        BY <2>1, PlaceAdds, GroupSets
    <2> QED BY <2>2 DEF EventsOf
<1> QED BY <1>1, <1>2

LEMMA MergeGPUncore ==
    ASSUME TypeOK, FineInv, EachCounted, Apart, UncoreCopied, MergeGP PROVE UncoreInv'
<1>1. PICK c \in attempt.gp :
          MergeEvent(groups[kind][j].gp[c], TRUE, [attempt EXCEPT !.gp = @ \ {c}])
    BY DEF MergeGP, Least
<1> DEFINE rest == [attempt EXCEPT !.gp = @ \ {c}]
           e == groups[kind][j].gp[c]
<1>2. /\ attempt # NoAttempt /\ e \in EventOf(kind) /\ c \in GPCounters \ Free(groups[kind][j])
      /\ rest \in [copy : GroupOf(kind), fixed : Seq(CoreEvent), gp : SUBSET attempt.gp]
    BY MergeGPFacts DEF MergeGP
<1>3. rest.gp = attempt.gp \ {c}
    BY <1>2 DEF TypeOK, AttemptOK
<1>4. e \in EventsOf(groups[kind][j])
    BY <1>2 DEF EventsOf, OnGP, Free
<1>5. MergeEvent(e, TRUE, rest)
    BY <1>1
<1> HIDE DEF rest
<1>6. groups' = groups /\ together' = together /\ kind' = kind /\ i' = i /\ stage' = stage
    BY <1>5 DEF MergeEvent
<1>7. CASE attempt' = NoAttempt
    BY <1>6, <1>7, UncoreSame
<1>8. CASE j' = j /\ \E g \in AddEvent(kind, attempt.copy, e, TRUE) :
                         attempt' = [rest EXCEPT !.copy = g]
    <2>1. PICK g \in AddEvent(kind, attempt.copy, e, TRUE) : attempt' = [rest EXCEPT !.copy = g]
        BY <1>8
    <2>2. attempt'.copy = g /\ attempt'.gp = attempt.gp \ {c}
        BY <1>2, <1>3, <2>1
    <2>3. ASSUME kind = "uncore" PROVE EventsOf(g) = EventsOf(attempt.copy) \cup {e}
        <3>1. attempt.copy \in UncoreGroup /\ e \in UncoreEvent
            BY <1>2, <2>3 DEF TypeOK, AttemptOK, GroupOf, EventOf
        <3>2. g \in AddUncoreEvent(attempt.copy, e, TRUE)
            BY <2>1, <2>3 DEF AddEvent
        <3> QED BY <3>1, <3>2, AddUncoreExact
    <2>4. ASSUME kind = "uncore"
          PROVE  /\ EventsOf(groups.uncore[i]) \subseteq EventsOf(g)
                 /\ EventsOf(groups.uncore[j]) \subseteq
                       EventsOf(g) \cup {groups.uncore[j].gp[b] : b \in attempt.gp \ {c}}
                 /\ EventsOf(g) \subseteq EventsOf(groups.uncore[i]) \cup EventsOf(groups.uncore[j])
        BY <1>2, <1>4, <2>3, <2>4 DEF UncoreCopied
    <2>5. UncoreCopied'
        BY <1>6, <1>8, <2>2, <2>4 DEF UncoreCopied
    <2> QED BY <1>6, <2>5 DEF UncoreInv, EachCounted, Apart, Disjoint
<1> QED BY <1>5, <1>7, <1>8 DEF MergeEvent

\* A merge of core groups leaves the uncore groups alone.
LEMMA MergeFixedUncore ==
    ASSUME TypeOK, FineInv, EachCounted, Apart, MergeFixed PROVE UncoreInv'
<1>1. kind = "core" /\ MergeEvent(Head(attempt.fixed), FALSE, [attempt EXCEPT !.fixed = Tail(@)])
    BY MergeFixedFacts DEF MergeFixed
<1>2. groups' = groups /\ together' = together /\ kind' = kind /\ stage' = stage
    BY <1>1 DEF MergeEvent
<1> QED BY <1>1, <1>2 DEF UncoreInv, EachCounted, Apart, Disjoint, UncoreCopied

\* Two of the groups become one with the events of both.
LEMMA MergedDisjoint ==
    ASSUME NEW S, NEW s \in Seq(S), NEW a \in 1..Len(s), NEW b \in 1..Len(s), a # b,
           NEW g \in S, EventsOf(g) \subseteq EventsOf(s[a]) \cup EventsOf(s[b]), Disjoint(s)
    PROVE  Disjoint(Without([s EXCEPT ![a] = g], b))
<1> DEFINE t == [s EXCEPT ![a] = g]
           u == Without(t, b)
           from(n) == IF n < b THEN n ELSE n + 1
<1>1. t \in Seq(S) /\ Len(t) = Len(s) /\ Len(s) \in Nat /\ DOMAIN s = 1..Len(s)
      /\ t[a] = g /\ \A n \in 1..Len(s) : n # a => t[n] = s[n]
    OBVIOUS
<1>2. DOMAIN u = 1..(Len(s) - 1) /\ \A n \in DOMAIN u : u[n] = t[from(n)]
    <2> HIDE DEF t
    <2>1. /\ DOMAIN u = 1..(Len(t) - 1)
          /\ \A n \in 1..(Len(t) - 1) : u[n] = IF n < b THEN t[n] ELSE t[n + 1]
        BY <1>1, WithoutFacts
    <2> QED BY <1>1, <2>1
<1>3. \A n \in 1..(Len(s) - 1) : from(n) \in 1..Len(s) /\ from(n) # b
    BY <1>1
<1>4. \A m, n \in 1..(Len(s) - 1) : from(m) = from(n) => m = n
    BY <1>1
<1> HIDE DEF t, u, from
<1>5. ASSUME NEW m \in 1..Len(s), NEW n \in 1..Len(s), m # b, n # b, NEW e,
             e \in EventsOf(t[m]), e \in EventsOf(t[n])
      PROVE  m = n
    <2>1. \A p \in 1..Len(s), q \in 1..Len(s) :
              e \in EventsOf(s[p]) /\ e \in EventsOf(s[q]) => p = q
        BY <1>1 DEF Disjoint
    <2>2. ASSUME NEW p \in 1..Len(s), p # b, e \in EventsOf(t[p])
          PROVE  \/ e \in EventsOf(s[p]) \/ (p = a /\ e \in EventsOf(s[b]))
        BY <1>1, <2>2
    <2> QED BY <1>5, <2>1, <2>2
<1>6. ASSUME NEW m \in DOMAIN u, NEW n \in DOMAIN u, EventsOf(u[m]) \cap EventsOf(u[n]) # {}
      PROVE  m = n
    <2>1. PICK e : e \in EventsOf(u[m]) /\ e \in EventsOf(u[n])
        BY <1>6
    <2>2. from(m) = from(n)
        BY <1>2, <1>3, <1>5, <2>1
    <2> QED BY <1>2, <1>4, <2>2
<1> QED BY <1>6 DEF Disjoint, t, u

LEMMA CompleteMergeUncore ==
    ASSUME TypeOK, FineInv, EachCounted, Apart, UncoreCopied, CompleteMerge PROVE UncoreInv'
<1>1. /\ AttemptOK /\ attempt # NoAttempt /\ attempt.gp = {}
      /\ attempt' = NoAttempt /\ together' = together /\ kind' = kind
      /\ stage = "merge" /\ stage' = stage
    BY DEF CompleteMerge, Merging, TypeOK
<1>2. kind \in Kinds /\ j <= Len(groups[kind]) /\ groups \in GroupLists
    BY <1>1, Typed DEF AttemptOK, TypeOK
<1>3. CASE kind = "core"
    <2>1. groups'.uncore = groups.uncore
        BY <1>2, <1>3 DEF CompleteMerge, GroupLists
    <2> QED BY <1>1, <2>1, UncoreSame
<1>4. CASE kind = "uncore"
    <2> DEFINE s == groups.uncore
               t == [s EXCEPT ![i] = attempt.copy]
               E == UNION together.uncore
    <2>1. s \in Seq(UncoreGroup) /\ i \in 1..Len(s) /\ j \in 1..Len(s) /\ i # j
        BY <1>2, <1>4, PairFacts DEF GroupOf
    <2>2. attempt.copy \in UncoreGroup
        BY <1>1, <1>4 DEF AttemptOK, GroupOf
    <2>3. /\ EventsOf(s[i]) \subseteq EventsOf(attempt.copy)
          /\ EventsOf(s[j]) \subseteq EventsOf(attempt.copy)
          /\ EventsOf(attempt.copy) \subseteq EventsOf(s[i]) \cup EventsOf(s[j])
        BY <1>1, <1>4 DEF UncoreCopied
    <2>4. /\ t \in Seq(UncoreGroup) /\ Len(t) = Len(s) /\ t[i] = attempt.copy /\ t[j] = s[j]
          /\ \A n \in 1..Len(s) : EventsOf(s[n]) \subseteq EventsOf(t[n])
        BY <2>1, <2>2, <2>3
    <2>5. \A e \in E : \E g \in Groups(s) : e \in EventsOf(g)
        BY DEF EachCounted
    <2>6. groups'.uncore = Without(t, j)
        BY <1>2, <1>4 DEF CompleteMerge, GroupLists
    <2>7. Disjoint(s)
        BY <1>1, <1>4 DEF Apart
    <2>8. Disjoint(Without(t, j))
        <3> HIDE DEF s
        <3> QED BY <2>1, <2>2, <2>3, <2>7, MergedDisjoint
    <2>9. E' = E
        BY <1>1
    <2> HIDE DEF s, t, E
    <2>10. \A e \in E : \E g \in Groups(t) : e \in EventsOf(g)
        <3> SUFFICES ASSUME NEW e \in E PROVE \E g \in Groups(t) : e \in EventsOf(g)
            OBVIOUS
        <3>1. PICK n \in 1..Len(s) : e \in EventsOf(s[n])
            BY <2>1, <2>5 DEF Groups
        <3>2. t[n] \in Groups(t) /\ e \in EventsOf(t[n])
            BY <2>4, <3>1 DEF Groups
        <3> QED BY <3>2
    <2>11. i \in 1..Len(t) /\ j \in 1..Len(t) /\ EventsOf(t[j]) \subseteq EventsOf(t[i])
        BY <2>1, <2>3, <2>4
    <2>12. \A e \in E : \E g \in Groups(Without(t, j)) : e \in EventsOf(g)
        BY <2>1, <2>4, <2>10, <2>11, RemovedCounted
    <2>13. EachCounted'
        BY <1>1, <2>6, <2>12 DEF E, EachCounted
    <2>14. Apart'
        BY <2>6, <2>8 DEF Apart
    <2> QED BY <1>1, <2>13, <2>14 DEF UncoreInv, UncoreCopied
<1> QED BY <1>2, <1>3, <1>4 DEF Kinds

\* What RemoveRepeated leaves: each event in the first group that has it.
LEMMA RepeatedLeft ==
    ASSUME NEW s \in Seq(UncoreGroup)
    PROVE  /\ DOMAIN RemoveRepeated(s) = 1..Len(s)
           /\ \A n \in 1..Len(s) :
                 EventsOf(RemoveRepeated(s)[n])
                     = {e \in EventsOf(s[n]) : \A m \in 1..(n - 1) : e \notin EventsOf(s[m])}
<1> DEFINE t == RemoveRepeated(s)
<1>1. DOMAIN s = 1..Len(s) /\ Len(s) \in Nat /\ DOMAIN t = DOMAIN s
    BY DEF RemoveRepeated
<1>2. \A n \in 1..Len(s) : s[n] \in UncoreGroup /\ EventsOf(s[n]) = OnGP(s[n])
    <2>1. \A n \in 1..Len(s) : s[n] \in UncoreGroup
        OBVIOUS
    <2>2. \A n \in 1..Len(s) : Range(s[n].fixed) = {}
        BY <2>1 DEF UncoreGroup, Range
    <2> QED BY <2>1, <2>2 DEF EventsOf
<1>3. ASSUME NEW n \in 1..Len(s)
      PROVE  EventsOf(t[n]) = {e \in EventsOf(s[n]) : \A m \in 1..(n - 1) : e \notin EventsOf(s[m])}
    <2>1. \A m \in 1..(n - 1) : m \in 1..Len(s)
        BY <1>1
    <2>2. /\ t[n].fixed = s[n].fixed
          /\ \A c \in GPCounters :
                t[n].gp[c] = IF \E m \in 1..(n - 1) : s[n].gp[c] \in OnGP(s[m]) THEN NoEvent
                             ELSE s[n].gp[c]
        BY <1>1, <1>2 DEF RemoveRepeated, UncoreGroup
    <2>3. EventsOf(t[n]) = OnGP(t[n])
        BY <1>2, <2>2 DEF EventsOf, UncoreGroup, Range
    <2>4. OnGP(t[n]) \subseteq {e \in OnGP(s[n]) : \A m \in 1..(n - 1) : e \notin OnGP(s[m])}
        BY <2>2 DEF OnGP
    <2>5. {e \in OnGP(s[n]) : \A m \in 1..(n - 1) : e \notin OnGP(s[m])} \subseteq OnGP(t[n])
        BY <2>2 DEF OnGP
    <2> QED BY <1>2, <2>1, <2>3, <2>4, <2>5
<1> QED BY <1>1, <1>3

LEMMA RepeatedUncore ==
    ASSUME NEW s \in Seq(UncoreGroup), NEW E, \A e \in E : \E g \in Groups(s) : e \in EventsOf(g)
    PROVE  /\ \A e \in E : \E g \in Groups(RemoveRepeated(s)) : e \in EventsOf(g)
           /\ Disjoint(RemoveRepeated(s))
<1> DEFINE t == RemoveRepeated(s)
<1>1. /\ DOMAIN s = 1..Len(s) /\ DOMAIN t = 1..Len(s) /\ Len(s) \in Nat
      /\ \A n \in 1..Len(s) :
            EventsOf(t[n]) = {e \in EventsOf(s[n]) : \A m \in 1..(n - 1) : e \notin EventsOf(s[m])}
    <2>1. /\ DOMAIN t = 1..Len(s)
          /\ \A n \in 1..Len(s) :
                EventsOf(t[n])
                    = {e \in EventsOf(s[n]) : \A m \in 1..(n - 1) : e \notin EventsOf(s[m])}
        BY RepeatedLeft, Zenon
    <2>2. DOMAIN s = 1..Len(s) /\ Len(s) \in Nat
        OBVIOUS
    <2> HIDE DEF t
    <2> QED BY <2>1, <2>2
<1> HIDE DEF t
<1>2. ASSUME NEW e \in E PROVE \E g \in Groups(t) : e \in EventsOf(g)
    <2> DEFINE T == {n \in 1..Len(s) : e \in EventsOf(s[n])}
    <2>1. PICK n : n \in T
        BY <1>1, <1>2 DEF Groups
    <2>2. PICK m \in T : \A k \in T : m <= k
        <3>1. T \in SUBSET Nat
            BY <1>1
        <3> HIDE DEF T
        <3> QED BY <2>1, <3>1, LeastNumber
    <2>3. \A k \in 1..(m - 1) : e \notin EventsOf(s[k])
        BY <1>1, <2>2
    <2>4. e \in EventsOf(t[m])
        BY <1>1, <2>3
    <2> QED BY <1>1, <2>4 DEF Groups
<1>3. \A m, n \in 1..Len(s) : m < n => EventsOf(t[m]) \cap EventsOf(t[n]) = {}
    BY <1>1
<1>4. Disjoint(t)
    BY <1>1, <1>3 DEF Disjoint
<1> QED BY <1>2, <1>4 DEF t

LEMMA EndPassUncore ==
    ASSUME TypeOK, FineInv, EachCounted, Apart, EndPass PROVE UncoreInv'
<1>1. attempt' = NoAttempt /\ together' = together /\ kind \in Kinds /\ groups \in GroupLists
    BY DEF EndPass, FirstPair, TypeOK
<1>2. CASE groups' = groups /\ ~(kind = "core" /\ stage = "merge")
    BY <1>1, <1>2, UncoreSame DEF EndPass
<1>3. CASE kind = "core" /\ stage = "merge"
    <2>1. groups'.uncore = RemoveRepeated(groups.uncore)
        BY <1>1, <1>3 DEF EndPass, GroupLists
    <2>2. groups.uncore \in Seq(UncoreGroup)
        BY <1>1 DEF GroupLists
    <2>3. /\ \A e \in UNION together.uncore :
                \E g \in Groups(RemoveRepeated(groups.uncore)) : e \in EventsOf(g)
          /\ Disjoint(RemoveRepeated(groups.uncore))
        BY <2>2, RepeatedUncore DEF EachCounted
    <2> QED BY <1>1, <2>1, <2>3 DEF UncoreInv, EachCounted, Apart, UncoreCopied
<1> QED BY <1>2, <1>3 DEF EndPass

LEMMA UncoreStep == GroupsInv /\ UncoreInv /\ [Next]_vars => UncoreInv'
<1> SUFFICES ASSUME TypeOK, FineInv, EachCounted, Apart, UncoreCopied, [Next]_vars PROVE UncoreInv'
    BY DEF GroupsInv, UncoreInv
<1>1. CASE SkipMetric \/ StartMetric \/ AddToCoreGroup \/ AddToUncoreGroup \/ AddOther
    <2>1. /\ stage # "merge" /\ groups' = groups /\ together' = together /\ attempt' = attempt
          /\ stage' \notin {"merge", "done"}
        BY <1>1 DEF SkipMetric, StartMetric, AddToCoreGroup, AddToUncoreGroup, AddToGroup, AddOther,
                    Collecting, pairVars
    <2> QED BY <2>1, NoMerge, UncoreSame
<1>2. CASE AllMetricsDone
    BY <1>2, UncoreSame DEF AllMetricsDone, FirstPair
<1>3. CASE NextRow
    <2>1. /\ attempt' = attempt /\ attempt = NoAttempt /\ together' = together /\ groups' = groups
          /\ stage' = stage /\ kind' = kind
        BY <1>3, NoMerge, Typed DEF NextRow, TypeOK
    <2> QED BY <2>1, UncoreSame
<1>4. CASE UNCHANGED vars
    BY <1>4 DEF vars, pairVars, UncoreInv, EachCounted, Apart, Disjoint, UncoreCopied
<1> QED
    BY <1>1, <1>2, <1>3, <1>4, EndMetricUncore, CompareUncore, StartMergeUncore, MergeFixedUncore,
       MergeGPUncore, CompleteMergeUncore, EndPassUncore DEF Next

\* Every uncore event of a group that was formed is counted in every later state, although
\* repeated events are removed and groups are merged again and again, and when Load has ended
\* no event is in two groups: its counts are not added up twice (MergeUncoreGroups).
THEOREM UncoreEventsCountedOnce == Spec => []UncoreCountedOnce
<1>1. Init => UncoreInv
    BY DEF Init, UncoreInv, EachCounted, Apart, UncoreCopied
<1>2. UncoreInv => UncoreCountedOnce
    BY DEF UncoreInv, EachCounted, Apart, Disjoint, UncoreCountedOnce
<1> QED BY <1>1, <1>2, GroupsAlways, UncoreStep, PTL DEF Spec

(***************************************************************************)
(* perf is given no group without events.                                  *)
(***************************************************************************)
HasEvents(gs) == \A g \in gs : EventsOf(g) # {}

\* An uncore group whose events were all repeated has none, until the first group takes it
\* in the first row of the merges.
NotYetTaken(n) == stage = "merge" /\ kind = "uncore" /\ i = 1 /\ j <= n

HasEventsInv ==
    /\ HasEvents(Groups(formed.core)) /\ HasEvents(Groups(formed.uncore)) /\ HasEvents(Groups(groups.core))
    /\ \A n \in DOMAIN groups.uncore : EventsOf(groups.uncore[n]) # {} \/ NotYetTaken(n)

\* A group without events is the new one.
LEMMA NoEventsIsNew ==
    ASSUME NEW k \in Kinds, NEW g \in GroupOf(k), EventsOf(g) = {} PROVE g = NewGroup
<1>1. g \in GroupsOver(EventOf(k)) /\ g.fixed \in Seq(CoreEvent)
    BY GroupSets DEF GroupOf, GroupsOver, EventOf, Kinds
<1>2. g = [fixed |-> g.fixed, gp |-> g.gp] /\ g.gp \in [GPCounters -> EventOf(k) \cup {NoEvent}]
    BY <1>1 DEF GroupsOver
<1>3. g.fixed = <<>>
  <2>1. Range(g.fixed) = {}
      BY DEF EventsOf
  <2>2. DOMAIN g.fixed = {}
      BY <2>1 DEF Range
  <2>3. Len(g.fixed) = 0
    <3>1. Len(g.fixed) \in Nat /\ DOMAIN g.fixed = 1..Len(g.fixed)
        BY <1>1
    <3>2. 1 \notin 1..Len(g.fixed)
        BY <2>2, <3>1
    <3> QED
        BY <3>1, <3>2
  <2> QED
      BY <1>1, <2>3
<1>4. \A c \in GPCounters : g.gp[c] = NoEvent
    BY DEF EventsOf, OnGP
<1>5. g.gp = [c \in GPCounters |-> NoEvent]
    BY <1>2, <1>4
<1> QED
    BY <1>2, <1>3, <1>5 DEF NewGroup

LEMMA HasEventsSame ==
    ASSUME HasEventsInv, UNCHANGED <<formed, groups>>,
           \A n \in DOMAIN groups.uncore : NotYetTaken(n) => NotYetTaken(n)' \/ EventsOf(groups.uncore[n]) # {}
    PROVE  HasEventsInv'
BY DEF HasEventsInv, HasEvents

LEMMA AddToGroupHasEvents ==
    ASSUME TypeOK, HasEventsInv, NEW k \in Kinds, AddToGroup(k) PROVE HasEventsInv'
<1> DEFINE e == Head(todo)
<1>1. stage = "collect" /\ groups' = groups
    BY DEF AddToGroup, Collecting
<1>2. \A n : ~NotYetTaken(n)
    BY <1>1 DEF NotYetTaken
<1>3. CASE formed' = formed
    BY <1>1, <1>2, <1>3, HasEventsSame
<1>4. CASE /\ formed' = [formed EXCEPT ![k] = Append(@, open[k])]
           /\ AddEvent(k, open[k], e, FALSE) = {} /\ AddEvent(k, NewGroup, e, FALSE) # {}
  <2>1. open[k] \in GroupOf(k) /\ formed[k] \in Seq(GroupOf(k)) /\ formed \in GroupLists
      BY Typed DEF TypeOK
  <2>2. EventsOf(open[k]) # {}
    <3>1. open[k] # NewGroup
        BY <1>4
    <3> QED
        BY <2>1, <3>1, NoEventsIsNew
  <2> DEFINE s == Append(formed[k], open[k])
  <2>3. s \in Seq(GroupOf(k)) /\ Groups(s) \subseteq Groups(formed[k]) \cup {open[k]}
      BY <2>1, SequenceFacts DEF Groups
  <2>4. formed' = [formed EXCEPT ![k] = s]
      BY <1>4
  <2> HIDE DEF s
  <2>5. formed'[k] = s /\ \A l \in Kinds : l # k => formed'[l] = formed[l]
    <3>1. /\ [formed EXCEPT ![k] = s] \in GroupLists /\ [formed EXCEPT ![k] = s][k] = s
          /\ \A l \in Kinds : l # k => [formed EXCEPT ![k] = s][l] = formed[l]
        BY <2>1, <2>3, ListsUpdate
    <3> QED
        BY <2>4, <3>1
  <2>6. \A l \in Kinds : HasEvents(Groups(formed[l]))
      BY DEF HasEventsInv, Kinds
  <2>7. \A l \in Kinds : HasEvents(Groups(formed'[l]))
      BY <2>2, <2>3, <2>5, <2>6 DEF HasEvents
  <2>8. HasEvents(Groups(formed'.core)) /\ HasEvents(Groups(formed'.uncore))
      BY <2>7 DEF Kinds
  <2> QED
      BY <1>1, <1>2, <2>8 DEF HasEventsInv, HasEvents
<1> QED
    BY <1>3, <1>4 DEF AddToGroup

LEMMA EndMetricHasEvents ==
    ASSUME TypeOK, HasEventsInv, EndMetric PROVE HasEventsInv'
<1>1. /\ groups'.core = groups.core \o Completed("core")
      /\ groups'.uncore = groups.uncore \o Completed("uncore")
      /\ formed' = formed /\ stage = "collect"
    BY DEF EndMetric, collectVars
<1>2. \A k \in Kinds : HasEvents(Groups(formed[k])) /\ HasEvents(Groups(groups[k]))
  <2>1. \A n : ~NotYetTaken(n)
      BY <1>1 DEF NotYetTaken
  <2> QED
      BY <2>1 DEF HasEventsInv, HasEvents, Groups, Kinds
<1>3. ASSUME NEW k \in Kinds PROVE HasEvents(Groups(groups[k] \o Completed(k)))
  <2>1. Groups(groups[k] \o Completed(k)) = Groups(groups[k]) \cup Groups(Completed(k))
      BY CompletedFacts
  <2>2. Groups(Completed(k)) \subseteq Groups(formed[k]) \cup {open[k]}
      BY CompletedFacts
  <2>3. HasEvents(Groups(Completed(k)))
    <3>1. CASE EventsOf(open[k]) # {}
        BY <1>2, <2>2, <3>1 DEF HasEvents
    <3>2. CASE EventsOf(open[k]) = {}
      <4>1. formed[k] \in Seq(GroupOf(k)) /\ Completed(k) = formed[k] \o <<>>
          BY <3>2, Typed DEF Completed
      <4>2. Completed(k) = formed[k]
          BY <4>1
      <4> QED
          BY <1>2, <4>2
    <3> QED
        BY <3>1, <3>2
  <2> QED
      BY <1>2, <2>1, <2>3 DEF HasEvents
<1>4. HasEvents(Groups(groups'.core)) /\ HasEvents(Groups(groups'.uncore))
    BY <1>1, <1>3 DEF Kinds
<1> QED
    BY <1>1, <1>2, <1>4 DEF HasEventsInv, HasEvents, Groups, Kinds

LEMMA CompareHasEvents ==
    ASSUME TypeOK, HasEventsInv, CompareGroups PROVE HasEventsInv'
<1>1. /\ stage = "equal" /\ formed' = formed /\ kind \in Kinds /\ groups \in GroupLists
      /\ j <= Len(groups[kind])
    BY DEF CompareGroups, Pair, collectVars, TypeOK
<1>2. \A n : ~NotYetTaken(n)
    BY <1>1 DEF NotYetTaken
<1>3. \A k \in Kinds : HasEvents(Groups(groups[k]))
    BY <1>2 DEF HasEventsInv, HasEvents, Groups, Kinds
<1>4. \A k \in Kinds : HasEvents(Groups(groups'[k]))
  <2>1. CASE groups' = groups
      BY <1>3, <2>1
  <2>2. CASE groups' = [groups EXCEPT ![kind] = Without(@, j)]
    <3> DEFINE s == Without(groups[kind], j)
    <3>1. groups[kind] \in Seq(GroupOf(kind)) /\ j \in 1..Len(groups[kind])
        BY <1>1, PairFacts
    <3>2. s \in Seq(GroupOf(kind)) /\ Groups(s) \subseteq Groups(groups[kind])
        BY <3>1, RemovalFacts
    <3>3. groups' = [groups EXCEPT ![kind] = s]
        BY <2>2
    <3> HIDE DEF s
    <3>4. groups'[kind] = s /\ \A l \in Kinds : l # kind => groups'[l] = groups[l]
      <4>1. /\ [groups EXCEPT ![kind] = s] \in GroupLists /\ [groups EXCEPT ![kind] = s][kind] = s
            /\ \A l \in Kinds : l # kind => [groups EXCEPT ![kind] = s][l] = groups[l]
          BY <1>1, <3>2, ListsUpdate
      <4> QED
          BY <3>3, <4>1
    <3> QED
        BY <1>1, <1>3, <3>2, <3>4 DEF HasEvents
  <2> QED
      BY <2>1, <2>2 DEF CompareGroups
<1>5. HasEvents(Groups(groups'.core)) /\ HasEvents(Groups(groups'.uncore))
    BY <1>4 DEF Kinds
<1> QED
    BY <1>1, <1>5 DEF HasEventsInv, HasEvents, Groups

\* A merge is given up at an event of group j.
LEMMA MergeHasEvents ==
    ASSUME TypeOK, HasEventsInv, MergeFixed \/ MergeGP PROVE HasEventsInv'
<1>1. /\ UNCHANGED <<stage, kind, formed, groups, i>>
      /\ j' = j \/ j' = j + 1
    BY DEF MergeFixed, MergeGP, MergeEvent, collectVars
<1>2. kind = "uncore" => EventsOf(groups.uncore[j]) # {}
  <2>1. CASE MergeFixed
      BY <2>1, MergeFixedFacts
  <2>2. CASE MergeGP
    <3>1. PICK c \in attempt.gp : TRUE
        BY <2>2 DEF MergeGP
    <3>2. Merging
        BY <2>2 DEF MergeGP
    <3>3. c \in GPCounters \ Free(groups[kind][j])
        BY <3>1, <3>2, MergeGPFacts
    <3>4. groups[kind][j].gp[c] \in EventsOf(groups[kind][j])
        BY <3>3 DEF EventsOf, OnGP, Free
    <3> QED
        BY <3>4
  <2> QED
      BY <2>1, <2>2
<1>3. \A n \in DOMAIN groups.uncore : NotYetTaken(n) => NotYetTaken(n)' \/ EventsOf(groups.uncore[n]) # {}
  <2> SUFFICES ASSUME NEW n \in DOMAIN groups.uncore, NotYetTaken(n)
               PROVE  NotYetTaken(n)' \/ EventsOf(groups.uncore[n]) # {}
      OBVIOUS
  <2>1. n \in Nat /\ j \in Nat
      BY DEF TypeOK, GroupLists
  <2>2. n = j \/ j + 1 <= n
      BY <2>1 DEF NotYetTaken
  <2> QED
      BY <1>1, <1>2, <2>2 DEF NotYetTaken
<1> QED
    BY <1>1, <1>3, HasEventsSame

\* The merged group has the events of group i.
LEMMA CompleteMergeHasEvents ==
    ASSUME TypeOK, Copied, UncoreCopied, HasEventsInv, CompleteMerge PROVE HasEventsInv'
<1>1. /\ AttemptOK /\ attempt # NoAttempt /\ formed' = formed
      /\ UNCHANGED <<stage, kind, i, j>>
    BY DEF CompleteMerge, Merging, TypeOK, collectVars
<1>2. kind \in Kinds /\ j <= Len(groups[kind]) /\ groups \in GroupLists /\ i \in Nat /\ j \in Nat /\ i < j
    BY <1>1, Typed DEF AttemptOK, TypeOK
<1> DEFINE s == groups[kind]
           t == [s EXCEPT ![i] = attempt.copy]
           u == Without(t, j)
<1>3. s \in Seq(GroupOf(kind)) /\ i \in 1..Len(s) /\ j \in 1..Len(s) /\ attempt.copy \in GroupOf(kind)
    BY <1>1, <1>2, PairFacts DEF AttemptOK
<1>4. /\ t \in Seq(GroupOf(kind)) /\ Len(t) = Len(s) /\ DOMAIN s = 1..Len(s) /\ Len(s) \in Nat
      /\ t[i] = attempt.copy /\ \A n \in 1..Len(s) : n # i => t[n] = s[n]
    BY <1>3
<1>5. groups' = [groups EXCEPT ![kind] = u]
    BY DEF CompleteMerge
<1>6. EventsOf(s[i]) \subseteq EventsOf(attempt.copy)
    BY <1>1, <1>2 DEF Copied, UncoreCopied, Kinds
<1> HIDE DEF t
<1>7. /\ u \in Seq(GroupOf(kind)) /\ DOMAIN u = 1..(Len(s) - 1)
      /\ \A n \in 1..(Len(s) - 1) : u[n] = IF n < j THEN t[n] ELSE t[n + 1]
  <2>1. /\ u \in Seq(GroupOf(kind)) /\ DOMAIN u = 1..(Len(t) - 1)
        /\ \A n \in 1..(Len(t) - 1) : u[n] = IF n < j THEN t[n] ELSE t[n + 1]
      BY <1>3, <1>4, WithoutFacts
  <2> QED
      BY <1>4, <2>1
<1> HIDE DEF u, s
<1>8. groups'[kind] = u /\ \A l \in Kinds : l # kind => groups'[l] = groups[l]
  <2>1. /\ [groups EXCEPT ![kind] = u] \in GroupLists /\ [groups EXCEPT ![kind] = u][kind] = u
        /\ \A l \in Kinds : l # kind => [groups EXCEPT ![kind] = u][l] = groups[l]
      BY <1>2, <1>7, ListsUpdate
  <2> QED
      BY <1>5, <2>1
<1>9. \A n \in 1..Len(s) : EventsOf(s[n]) # {} => EventsOf(t[n]) # {}
    BY <1>4, <1>6
<1>10. \A n \in 1..(Len(s) - 1) :
          \/ n < j /\ n \in 1..Len(s) /\ u[n] = t[n]
          \/ j <= n /\ n + 1 \in 1..Len(s) /\ u[n] = t[n + 1]
    BY <1>2, <1>4, <1>7
<1>11. CASE kind = "core"
  <2>1. \A n \in 1..Len(s) : EventsOf(s[n]) # {}
      BY <1>4, <1>11 DEF HasEventsInv, HasEvents, Groups, s
  <2>2. HasEvents(Groups(u))
      BY <1>7, <1>9, <1>10, <2>1 DEF HasEvents, Groups
  <2>3. groups'.core = u /\ groups'.uncore = groups.uncore
      BY <1>8, <1>11 DEF Kinds
  <2>4. \A n : ~NotYetTaken(n)
      BY <1>11 DEF NotYetTaken
  <2> QED
      BY <1>1, <2>2, <2>3, <2>4 DEF HasEventsInv
<1>12. CASE kind = "uncore"
  <2>1. \A n \in 1..Len(s) : EventsOf(s[n]) # {} \/ NotYetTaken(n)
      BY <1>4, <1>12 DEF HasEventsInv, s
  <2>2. groups'.uncore = u /\ groups'.core = groups.core
      BY <1>8, <1>12 DEF Kinds
  <2>3. ASSUME NEW n \in DOMAIN u PROVE EventsOf(u[n]) # {} \/ NotYetTaken(n)'
    <3>1. CASE n < j /\ n \in 1..Len(s) /\ u[n] = t[n]
      <4>1. ~NotYetTaken(n)
          BY <1>2, <3>1 DEF NotYetTaken
      <4> QED
          BY <1>9, <2>1, <3>1, <4>1
    <3>2. CASE j <= n /\ n + 1 \in 1..Len(s) /\ u[n] = t[n + 1]
      <4>1. NotYetTaken(n + 1) => NotYetTaken(n)'
          BY <1>1, <3>2 DEF NotYetTaken
      <4> QED
          BY <1>9, <2>1, <3>2, <4>1
    <3> QED
        BY <1>7, <1>10, <3>1, <3>2
  <2> QED
      BY <1>1, <2>2, <2>3 DEF HasEventsInv
<1> QED
    BY <1>2, <1>11, <1>12 DEF Kinds

\* The first group keeps its events, and with the first row all groups have some.
LEMMA EndPassHasEvents ==
    ASSUME TypeOK, HasEventsInv, EndPass PROVE HasEventsInv'
<1>1. /\ formed' = formed /\ groups \in GroupLists /\ kind \in Kinds /\ i' = 1 /\ j' = 2
      /\ i \in Nat \ {0} /\ i > Len(groups[kind]) /\ groups[kind] \in Seq(GroupOf(kind))
    BY Typed DEF EndPass, FirstPair, TypeOK, collectVars
<1>2. \A n \in DOMAIN groups.uncore : ~NotYetTaken(n)
  <2> SUFFICES ASSUME NEW n \in DOMAIN groups.uncore, kind = "uncore", i = 1 PROVE FALSE
      BY DEF NotYetTaken
  <2>1. groups.uncore \in Seq(UncoreGroup) /\ Len(groups.uncore) < 1
      BY <1>1 DEF GroupOf
  <2> QED
      BY <2>1
<1>3. \A n \in DOMAIN groups.uncore : EventsOf(groups.uncore[n]) # {}
    BY <1>2 DEF HasEventsInv
<1>4. CASE groups' = groups
    BY <1>1, <1>3, <1>4 DEF HasEventsInv, HasEvents
<1>5. CASE /\ stage' = "merge" /\ kind' = "uncore"
           /\ groups' = [groups EXCEPT !.uncore = RemoveRepeated(@)]
  <2>1. groups'.uncore = RemoveRepeated(groups.uncore) /\ groups'.core = groups.core
      BY <1>1, <1>5 DEF GroupLists
  <2>2. groups.uncore \in Seq(UncoreGroup)
      BY <1>1 DEF GroupLists
  <2>3. /\ DOMAIN groups'.uncore = 1..Len(groups.uncore) /\ DOMAIN groups.uncore = 1..Len(groups.uncore)
        /\ 1 \in DOMAIN groups.uncore => EventsOf(groups'.uncore[1]) = EventsOf(groups.uncore[1])
    <3>1. /\ DOMAIN RemoveRepeated(groups.uncore) = 1..Len(groups.uncore)
          /\ \A n \in 1..Len(groups.uncore) :
               EventsOf(RemoveRepeated(groups.uncore)[n])
                   = {e \in EventsOf(groups.uncore[n]) :
                        \A m \in 1..(n - 1) : e \notin EventsOf(groups.uncore[m])}
        BY <2>2, RepeatedLeft
    <3>2. DOMAIN groups.uncore = 1..Len(groups.uncore)
        BY <2>2
    <3>3. \A m \in 1..(1 - 1) : FALSE
        OBVIOUS
    <3> QED
        BY <2>1, <3>1, <3>2, <3>3
  <2>4. \A n \in DOMAIN groups'.uncore : EventsOf(groups'.uncore[n]) # {} \/ NotYetTaken(n)'
    <3> SUFFICES ASSUME NEW n \in 1..Len(groups.uncore), n # 1 PROVE NotYetTaken(n)'
        BY <1>3, <2>3
    <3>1. 2 <= n
        OBVIOUS
    <3> QED
        BY <1>1, <1>5, <3>1 DEF NotYetTaken
  <2> QED
      BY <1>1, <2>1, <2>4 DEF HasEventsInv
<1> QED
    BY <1>4, <1>5 DEF EndPass

LEMMA HasEventsStep == GroupsInv /\ CoveredInv /\ UncoreInv /\ HasEventsInv /\ [Next]_vars => HasEventsInv'
<1> SUFFICES ASSUME TypeOK, Copied, UncoreCopied, HasEventsInv, [Next]_vars PROVE HasEventsInv'
    BY DEF GroupsInv, CoveredInv, UncoreInv
<1>1. CASE SkipMetric \/ AllMetricsDone
  <2>1. stage = "next" /\ UNCHANGED <<formed, groups>>
      BY <1>1 DEF SkipMetric, AllMetricsDone, collectVars
  <2> QED
      BY <2>1, HasEventsSame DEF NotYetTaken
<1>2. CASE StartMetric
  <2>1. stage = "next" /\ formed' = NoGroups /\ groups' = groups
      BY <1>2 DEF StartMetric
  <2>2. HasEvents(Groups(<<>>))
      BY DEF HasEvents, Groups
  <2> QED
      BY <2>1, <2>2 DEF HasEventsInv, HasEvents, NotYetTaken, NoGroups
<1>3. CASE AddToCoreGroup \/ AddToUncoreGroup
    BY <1>3, AddToGroupHasEvents DEF AddToCoreGroup, AddToUncoreGroup, Kinds
<1>4. CASE AddOther
  <2>1. stage = "collect" /\ groups' = groups /\ formed'.core = formed.core /\ formed'.uncore = formed.uncore
      BY <1>4 DEF AddOther, Collecting, TypeOK, GroupLists
  <2> QED
      BY <2>1 DEF HasEventsInv, HasEvents, NotYetTaken
<1>5. CASE NextRow
  <2>1. UNCHANGED <<stage, kind, formed, groups>> /\ j > Len(groups[kind])
      BY <1>5 DEF NextRow, collectVars
  <2>2. j \in Nat /\ groups.uncore \in Seq(UncoreGroup)
      BY DEF TypeOK, GroupLists
  <2>3. \A n \in DOMAIN groups.uncore : ~NotYetTaken(n)
      BY <2>1, <2>2 DEF NotYetTaken
  <2> QED
      BY <2>1, <2>3, HasEventsSame
<1>6. CASE StartMerge
  <2>1. UNCHANGED <<stage, kind, formed, groups, i, j>>
      BY <1>6 DEF StartMerge, collectVars
  <2> QED
      BY <2>1, HasEventsSame DEF NotYetTaken
<1>7. CASE UNCHANGED vars
  <2>1. UNCHANGED <<stage, kind, formed, groups, i, j>>
      BY <1>7 DEF vars, collectVars, pairVars
  <2> QED
      BY <2>1, HasEventsSame DEF NotYetTaken
<1> QED
    BY <1>1, <1>2, <1>3, <1>4, <1>5, <1>6, <1>7, EndMetricHasEvents, CompareHasEvents, MergeHasEvents,
       CompleteMergeHasEvents, EndPassHasEvents DEF Next

\* perf is given no group without events: the open groups that are empty are not completed,
\* and a group that has lost all its events to earlier ones is merged into the first: that
\* merge has nothing to place and cannot fail (groupsFromEventNames and MergeUncoreGroups).
THEOREM NoGroupIsEmpty == Spec => []NoGroupEmpty
<1>1. Init => HasEventsInv
    BY DEF Init, HasEventsInv, HasEvents, Groups, NoGroups
<1>2. HasEventsInv => NoGroupEmpty
    BY DEF HasEventsInv, HasEvents, NotYetTaken, NoGroupEmpty, Groups, Kinds
<1>3. Init => CoveredInv /\ UncoreInv
    BY DEF Init, CoveredInv, FormedGroupsKept, Copied, UncoreInv, EachCounted, Apart, UncoreCopied
<1> QED
    BY <1>1, <1>2, <1>3, GroupsAlways, CoveredStep, UncoreStep, HasEventsStep, PTL DEF Spec
=============================================================================
