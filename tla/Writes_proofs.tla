--------------------------- MODULE Writes_proofs ---------------------------
(***************************************************************************)
(* Proofs about the requests that write: flow runs (Flows) and the cell    *)
(* writes by name (CellWrites).  For any requests, scripts, feeds, rights  *)
(* and edits by others, a run changes only what its runner was allowed to  *)
(* change while it was authorized, what was answered stays answered, and   *)
(* all a run has read of a cube is of one moment.                          *)
(***************************************************************************)
EXTENDS CellWrites, Flows, FiniteSetTheorems, WellFoundedInduction, TLAPS

-----------------------------------------------------------------------------
(* Sequences laid end to end, and the sequence of a set's members.           *)

\* A set that holds 0 and the successor of what it holds has every number.
LEMMA AllNumbers ==
  ASSUME NEW S, 0 \in S, \A n \in Nat : n \in S => n + 1 \in S
  PROVE  Nat \subseteq S
<1> SUFFICES ASSUME Nat \ S # {} PROVE FALSE
  OBVIOUS
<1> DEFINE Intervals == {1 .. n : n \in Nat \ S}
<1>1. Intervals # {} /\ Intervals \subseteq FiniteSubsetsOf(Nat)
  <2>1. \A n \in Nat : 1 .. n \in FiniteSubsetsOf(Nat)
    BY SMTT(30), FS_Interval DEF FiniteSubsetsOf
  <2> QED BY <2>1
<1>2. PICK B \in Intervals : \A C \in Intervals : <<C, B>> \notin StrictSubsetOrdering(Nat)
  <2> HIDE DEF Intervals
  <2> QED BY <1>1, FS_StrictSubsetOrderingWellFounded, WFMin
<1>3. PICK x \in Nat \ S : B = 1 .. x
  OBVIOUS
<1>4. x - 1 \in Nat /\ x - 1 \notin S
  OBVIOUS
<1>5. 1 .. (x - 1) \in SUBSET (1 .. x) /\ x \notin 1 .. (x - 1) /\ x \in 1 .. x
  BY <1>4
<1>6. 1 .. (x - 1) \subseteq Nat /\ 1 .. x \subseteq Nat
  OBVIOUS
<1>7. <<1 .. (x - 1), 1 .. x>> \in StrictSubsetOrdering(Nat)
  BY <1>5, <1>6 DEF StrictSubsetOrdering
<1> QED BY <1>2, <1>3, <1>4, <1>7

IsFlattening(stages, seqs) ==
    /\ stages[0] = <<>>
    /\ \A k \in 0 .. (Len(seqs) - 1) : stages[k + 1] = stages[k] \o seqs[k + 1]

\* The recursion of FlattenSeq is its stages, one for each sequence.
LEMMA FlattenByStages ==
  ASSUME NEW T, NEW seqs \in Seq(Seq(T))
  PROVE  \E stages : IsFlattening(stages, seqs) /\ FlattenSeq(seqs) = stages[Len(seqs)]
<1> DEFINE n == Len(seqs)
           Body(f, i) == IF i = 1 THEN seqs[i] ELSE f[i - 1] \o seqs[i]
           Solves(f, m) == \A i \in 1 .. n : i <= m => f[i] = Body(f, i)
           M == {m \in Nat : \E f : Solves(f, m)}
<1>1. n \in Nat
  OBVIOUS
<1>2. CASE n = 0
  <2> DEFINE none == [k \in 0 .. 0 |-> <<>>]
  <2>1. IsFlattening(none, seqs)
    BY <1>2 DEF IsFlattening
  <2>2. seqs = <<>>
    BY <1>2
  <2>3. FlattenSeq(seqs) = none[Len(seqs)]
    BY <2>2 DEF FlattenSeq
  <2> QED BY <2>1, <2>3
<1>3. CASE n # 0
  <2> HIDE DEF n
  <2>1. 0 \in M
    <3>1. Solves([i \in 1 .. n |-> <<>>], 0)
      OBVIOUS
    <3> HIDE DEF Solves
    <3> QED BY <3>1
  <2>2. ASSUME NEW m \in Nat, m \in M PROVE m + 1 \in M
    <3>1. PICK f : Solves(f, m)
      BY <2>2
    <3> DEFINE next == [i \in 1 .. n |-> Body(f, i)]
    <3>2. \A i \in 1 .. n : next[i] = Body(f, i)
      OBVIOUS
    <3> HIDE DEF next
    <3>3. Solves(next, m + 1)
      <4> SUFFICES ASSUME NEW i \in 1 .. n, i <= m + 1 PROVE next[i] = Body(next, i)
        OBVIOUS
      <4>1. CASE i = 1
        BY <4>1, <3>2
      <4>2. CASE i # 1
        <5>1. i - 1 \in 1 .. n /\ i - 1 <= m
          BY <4>2, <1>1
        <5>2. next[i - 1] = f[i - 1]
          BY <5>1, <3>1, <3>2
        <5>3. next[i] = f[i - 1] \o seqs[i]
          BY <4>2, <3>2
        <5> QED BY <4>2, <5>2, <5>3
      <4> QED BY <4>1, <4>2
    <3> HIDE DEF Solves
    <3> QED BY <3>3
  <2>3. PICK some : Solves(some, n)
    <3>1. Nat \subseteq M
      <4> HIDE DEF M
      <4> QED BY <2>1, <2>2, AllNumbers
    <3> HIDE DEF Solves
    <3> QED BY <3>1, <1>1
  <2> DEFINE flat == [i \in 1 .. n |-> some[i]]
             flatten == CHOOSE f : f = [i \in 1 .. n |-> Body(f, i)]
  <2>4. flat = [i \in 1 .. n |-> Body(flat, i)]
    <3>1. \A i \in 1 .. n : some[i] = Body(some, i)
      BY <2>3, <1>1
    <3>2. \A i \in 1 .. n : Body(some, i) = Body(flat, i)
      <4> SUFFICES ASSUME NEW i \in 1 .. n PROVE Body(some, i) = Body(flat, i)
        OBVIOUS
      <4>1. CASE i = 1
        BY <4>1
      <4>2. CASE i # 1
        <5>1. i - 1 \in 1 .. n
          BY <4>2, <1>1
        <5> QED BY <5>1
      <4> QED BY <4>1, <4>2
    <3> QED BY <3>1, <3>2
  <2>5. flatten = [i \in 1 .. n |-> Body(flatten, i)]
    <3> HIDE DEF flat, Body
    <3> QED BY <2>4
  <2>6. FlattenSeq(seqs) = flatten[n]
    BY <1>3 DEF FlattenSeq, n
  <2> HIDE DEF flatten
  <2> DEFINE stages == [k \in 0 .. n |-> IF k = 0 THEN <<>> ELSE flatten[k]]
  <2>7. stages[0] = <<>> /\ stages[n] = flatten[n]
    BY <1>1, <1>3
  <2>8. ASSUME NEW k \in 0 .. (n - 1) PROVE stages[k + 1] = stages[k] \o seqs[k + 1]
    <3>1. k + 1 \in 1 .. n /\ k \in 0 .. n /\ k + 1 \in 0 .. n
      BY <1>1
    <3>2. stages[k + 1] = Body(flatten, k + 1)
      <4>1. stages[k + 1] = flatten[k + 1]
        BY <3>1
      <4>2. flatten[k + 1] = Body(flatten, k + 1)
        <5> HIDE DEF Body, stages
        <5> QED BY <3>1, <2>5
      <4> QED BY <4>1, <4>2
    <3>3. CASE k = 0
      <4>1. seqs[k + 1] \in Seq(T)
        BY <3>1 DEF n
      <4> QED BY <3>1, <3>2, <3>3, <4>1
    <3>4. CASE k # 0
      <4>1. stages[k] = flatten[k]
        BY <3>1, <3>4
      <4>2. k + 1 # 1 /\ (k + 1) - 1 = k
        BY <3>1, <3>4
      <4> HIDE DEF stages
      <4> QED BY <3>2, <4>1, <4>2
    <3> QED BY <3>3, <3>4
  <2>9. IsFlattening(stages, seqs)
    <3> HIDE DEF stages
    <3> QED BY <2>7, <2>8 DEF IsFlattening, n
  <2> QED BY <2>6, <2>7, <2>9 DEF n
<1> QED BY <1>2, <1>3

\* What is laid end to end is a sequence of the same things.
LEMMA FlattenIsSeq ==
  ASSUME NEW T, NEW seqs \in Seq(Seq(T))
  PROVE  FlattenSeq(seqs) \in Seq(T)
<1>1. PICK stages : IsFlattening(stages, seqs) /\ FlattenSeq(seqs) = stages[Len(seqs)]
  BY FlattenByStages
<1> DEFINE U == {k \in Nat : k <= Len(seqs) => stages[k] \in Seq(T)}
<1>2. 0 \in U
  <2>1. stages[0] = <<>> /\ <<>> \in Seq(T)
    BY <1>1 DEF IsFlattening
  <2> QED BY <2>1
<1>3. ASSUME NEW k \in Nat, k \in U PROVE k + 1 \in U
  <2> SUFFICES ASSUME k + 1 <= Len(seqs) PROVE stages[k + 1] \in Seq(T)
    OBVIOUS
  <2>1. k \in 0 .. (Len(seqs) - 1) /\ seqs[k + 1] \in Seq(T) /\ stages[k] \in Seq(T)
    BY <1>3
  <2>2. stages[k + 1] = stages[k] \o seqs[k + 1]
    BY <2>1, <1>1 DEF IsFlattening
  <2> QED BY <2>1, <2>2
<1>4. Nat \subseteq U
  <2> HIDE DEF U
  <2> QED BY <1>2, <1>3, AllNumbers
<1> QED BY <1>1, <1>4

\* A sequence, and what lies in a sequence joined of two, or left of one.
LEMMA SeqOfItsRange ==
  ASSUME NEW T, NEW s \in Seq(T)
  PROVE  ASequence(s)
<1>1. s = [i \in 1 .. Len(s) |-> s[i]] /\ \A i \in 1 .. Len(s) : s[i] \in Range(s)
  BY DEF Range
<1> QED BY <1>1 DEF ASequence

LEMMA JoinedRange ==
  ASSUME NEW T, NEW s \in Seq(T), NEW t \in Seq(T)
  PROVE  Range(s \o t) = Range(s) \cup Range(t)
<1>1. /\ DOMAIN s = 1 .. Len(s) /\ DOMAIN t = 1 .. Len(t)
      /\ DOMAIN (s \o t) = 1 .. (Len(s) + Len(t))
      /\ \A i \in 1 .. Len(s) : (s \o t)[i] = s[i]
      /\ \A i \in 1 .. Len(t) : (s \o t)[Len(s) + i] = t[i]
  OBVIOUS
<1>2. ASSUME NEW i \in DOMAIN (s \o t) PROVE (s \o t)[i] \in Range(s) \cup Range(t)
  <2>1. CASE i <= Len(s)
    BY <1>1, <2>1 DEF Range
  <2>2. CASE ~(i <= Len(s))
    <3>1. i - Len(s) \in 1 .. Len(t) /\ Len(s) + (i - Len(s)) = i
      BY <2>2, <1>1
    <3> QED BY <3>1, <1>1 DEF Range
  <2> QED BY <2>1, <2>2
<1>3. ASSUME NEW i \in DOMAIN s PROVE s[i] \in Range(s \o t)
  BY <1>1 DEF Range
<1>4. ASSUME NEW i \in DOMAIN t PROVE t[i] \in Range(s \o t)
  <2>1. Len(s) + i \in DOMAIN (s \o t)
    BY <1>1
  <2> QED BY <2>1, <1>1 DEF Range
<1> QED BY <1>2, <1>3, <1>4 DEF Range

LEMMA JoinedIsASeq ==
  ASSUME NEW s, NEW t, ASequence(s), ASequence(t)
  PROVE  ASequence(s \o t) /\ Range(s \o t) = Range(s) \cup Range(t)
<1>1. s \in Seq(Range(s) \cup Range(t)) /\ t \in Seq(Range(s) \cup Range(t))
  BY DEF ASequence
<1>2. s \o t \in Seq(Range(s) \cup Range(t))
  BY <1>1
<1> QED BY ZenonT(40), <1>1, <1>2, JoinedRange, SeqOfItsRange

LEMMA RestIsASeq ==
  ASSUME NEW s, ASequence(s), s # <<>>
  PROVE  /\ ASequence(Tail(s)) /\ Head(s) \in Range(s)
         /\ Range(s) = {Head(s)} \cup Range(Tail(s))
<1>1. s \in Seq(Range(s)) /\ DOMAIN s = 1 .. Len(s) /\ Len(s) \in Nat /\ Len(s) # 0
  BY DEF ASequence
<1>2. Tail(s) \in Seq(Range(s)) /\ DOMAIN Tail(s) = 1 .. (Len(s) - 1)
  BY <1>1
<1>3. Head(s) = s[1] /\ \A i \in 1 .. (Len(s) - 1) : Tail(s)[i] = s[i + 1]
  BY <1>1
<1>4. Head(s) \in Range(s)
  BY <1>1, <1>3 DEF Range
<1>5. ASSUME NEW i \in DOMAIN s PROVE s[i] \in {Head(s)} \cup Range(Tail(s))
  <2>1. CASE i = 1
    BY <2>1, <1>3
  <2>2. CASE i # 1
    <3>1. i - 1 \in DOMAIN Tail(s) /\ (i - 1) + 1 = i /\ i - 1 \in 1 .. (Len(s) - 1)
      BY <2>2, <1>1, <1>2
    <3>2. Tail(s)[i - 1] = s[i]
      BY <3>1, <1>3
    <3> QED BY <3>1, <3>2 DEF Range
  <2> QED BY <2>1, <2>2
<1>6. ASSUME NEW i \in DOMAIN Tail(s) PROVE Tail(s)[i] \in Range(s)
  <2>1. i + 1 \in DOMAIN s
    BY <1>1, <1>2
  <2> QED BY <2>1, <1>2, <1>3 DEF Range
<1>7. ASequence(Tail(s))
  BY <1>2, SeqOfItsRange
<1> QED BY <1>4, <1>5, <1>6, <1>7 DEF Range

\* Whatever is in one of the sequences is in all of them laid end to end.
LEMMA FlattenHas ==
  ASSUME NEW T, NEW seqs \in Seq(Seq(T)), NEW i \in DOMAIN seqs
  PROVE  Range(seqs[i]) \subseteq Range(FlattenSeq(seqs))
<1>1. PICK stages : IsFlattening(stages, seqs) /\ FlattenSeq(seqs) = stages[Len(seqs)]
  BY FlattenByStages
<1> DEFINE U == {k \in Nat : k <= Len(seqs) =>
                   stages[k] \in Seq(T) /\ (i <= k => Range(seqs[i]) \subseteq Range(stages[k]))}
<1>2. 0 \in U
  <2>1. stages[0] = <<>> /\ <<>> \in Seq(T)
    BY <1>1 DEF IsFlattening
  <2>2. ~(i <= 0)
    OBVIOUS
  <2> QED BY <2>1, <2>2
<1>3. ASSUME NEW k \in Nat, k \in U PROVE k + 1 \in U
  <2> SUFFICES ASSUME k + 1 <= Len(seqs)
               PROVE  /\ stages[k + 1] \in Seq(T)
                      /\ i <= k + 1 => Range(seqs[i]) \subseteq Range(stages[k + 1])
    OBVIOUS
  <2>1. /\ k \in 0 .. (Len(seqs) - 1) /\ seqs[k + 1] \in Seq(T) /\ stages[k] \in Seq(T)
        /\ i <= k => Range(seqs[i]) \subseteq Range(stages[k])
    BY <1>3
  <2>2. stages[k + 1] = stages[k] \o seqs[k + 1]
    BY <2>1, <1>1 DEF IsFlattening
  <2>3. Range(stages[k]) \cup Range(seqs[k + 1]) \subseteq Range(stages[k + 1])
    BY <2>1, <2>2, JoinedRange
  <2>4. i = k + 1 \/ i <= k \/ ~(i <= k + 1)
    BY SMTT(30)
  <2> QED BY <2>1, <2>2, <2>3, <2>4
<1>4. Nat \subseteq U
  <2> HIDE DEF U
  <2> QED BY <1>2, <1>3, AllNumbers
<1> QED BY <1>1, <1>4

\* Those keeps a sequence a sequence, of what it was of.
LEMMA ThoseAreASeq ==
  ASSUME NEW T, NEW items \in Seq(T), NEW kept
  PROVE  Those(items, kept) \in Seq(T)
<1> DEFINE each == [i \in DOMAIN items |-> IF items[i] \in kept THEN <<items[i]>> ELSE <<>>]
<1>1. DOMAIN items = 1 .. Len(items) /\ Len(items) \in Nat /\ \A i \in DOMAIN items : items[i] \in T
  OBVIOUS
<1>2. \A i \in DOMAIN items : each[i] \in Seq(T)
  BY <1>1
<1>3. each \in Seq(Seq(T))
  <2>1. each \in [1 .. Len(items) -> Seq(T)]
    BY <1>1, <1>2
  <2> QED BY <2>1, <1>1
<1> QED BY <1>3, FlattenIsSeq DEF Those

\* The names of a set in their order are names of that set.
LEMMA NamesInOrder ==
  ASSUME NEW names
  PROVE  InNameOrder(names) \in Seq(names)
<1> DEFINE each == [i \in DOMAIN NameOrder |-> IF NameOrder[i] \in names THEN <<NameOrder[i]>> ELSE <<>>]
<1>1. NameOrder \in Seq(Range(NameOrder))
  BY NamesAssumption DEF ASequence
<1>2. DOMAIN NameOrder = 1 .. Len(NameOrder) /\ Len(NameOrder) \in Nat
  BY <1>1
<1>3. \A i \in DOMAIN NameOrder : each[i] \in Seq(names)
  OBVIOUS
<1>4. each \in Seq(Seq(names))
  <2>1. each \in [1 .. Len(NameOrder) -> Seq(names)]
    BY <1>2, <1>3
  <2> QED BY <2>1, <1>2
<1> QED BY <1>4, FlattenIsSeq DEF InNameOrder

\* A finite set's members listed are all of them.
LEMMA SetListed ==
  ASSUME NEW S, IsFiniteSet(S)
  PROVE  SetToSeq(S) \in Seq(S) /\ Range(SetToSeq(S)) = S
<1> DEFINE n == Cardinality(S)
           D == 1 .. n
<1>1. n \in Nat /\ ExistsBijection(D, S)
  BY FS_CardinalityType
<1>2. PICK g : g \in Bijection(D, S)
  BY <1>1 DEF ExistsBijection
<1>3. g \in [D -> S] /\ IsInjective(g)
  BY <1>2 DEF Bijection, Injection, IsInjective
<1>4. SetToSeq(S) \in [D -> S] /\ IsInjective(SetToSeq(S))
  BY <1>3 DEF SetToSeq
<1> HIDE DEF n
<1>5. PICK f : f = SetToSeq(S)
  OBVIOUS
<1>6. f \in Injection(D, S)
  BY <1>4, <1>5 DEF Injection, IsInjective
<1>7. IsFiniteSet(D) /\ Cardinality(D) = n
  BY <1>1, FS_Interval
<1>8. f \in Surjection(D, S)
  BY <1>6, <1>7, FS_Injection DEF n
<1>9. f \in Seq(S)
  BY <1>1, <1>4, <1>5
<1>10. Range(f) = S
  BY <1>8 DEF Surjection, Range
<1> QED BY <1>5, <1>9, <1>10

-----------------------------------------------------------------------------
(* What a script stages.                                                     *)

ScriptFields == {"cubes", "dimensions", "staged", "logs", "status", "defaultCube", "inputs", "lastRead"}

\* The cells staged for a cube are a sequence, each at finitely many members.
FiniteCells(cells) ==
  ASequence(cells) /\ \A i \in DOMAIN cells : IsFiniteSet(DOMAIN cells[i].coord)

SoundChanges(changes) ==
  DOMAIN changes = {"elements", "edges", "cells"} /\ FiniteCells(changes.cells)

SoundScript(s) ==
  /\ DOMAIN s = ScriptFields
  /\ \A k \in DOMAIN s.inputs : ASequence(s.inputs[k])
  /\ \A t \in DOMAIN s.cubes : SoundChanges(s.cubes[t])

LEMMA ThoseCellsFinite ==
  ASSUME NEW cells, FiniteCells(cells)
  PROVE  FiniteCells(Cells(cells))
<1> DEFINE T == {cells[i] : i \in DOMAIN cells}
           kept == {x \in ToSet(cells) : DOMAIN x.coord # {}}
<1>1. cells \in Seq(T) /\ \A x \in T : IsFiniteSet(DOMAIN x.coord)
  BY DEF FiniteCells, ASequence, Range
<1>2. PICK those : those = Cells(cells)
  OBVIOUS
<1>3. those \in Seq(T)
  <2>1. Those(cells, kept) \in Seq(T)
    <3> HIDE DEF T, kept
    <3> QED BY <1>1, ThoseAreASeq
  <2> QED BY <2>1, <1>2 DEF Cells
<1> HIDE DEF T
<1>4. \A i \in DOMAIN those : those[i] \in T
  BY <1>3
<1> QED BY <1>1, <1>2, <1>3, <1>4, SeqOfItsRange DEF FiniteCells

LEMMA JoinedCellsFinite ==
  ASSUME NEW cells, NEW more, FiniteCells(cells), FiniteCells(more)
  PROVE  FiniteCells(cells \o more)
<1>1. PICK both : both = cells \o more
  OBVIOUS
<1>2. ASequence(both) /\ Range(both) = Range(cells) \cup Range(more)
  BY <1>1, JoinedIsASeq DEF FiniteCells
<1>3. \A x \in Range(cells) \cup Range(more) : IsFiniteSet(DOMAIN x.coord)
  BY DEF FiniteCells, Range
<1>4. \A i \in DOMAIN both : both[i] \in Range(both)
  BY DEF Range
<1> QED BY <1>1, <1>2, <1>3, <1>4 DEF FiniteCells

LEMMA NoCells == FiniteCells(<<>>)
<1>1. <<>> \in Seq({}) /\ DOMAIN <<>> = {}
  OBVIOUS
<1> QED BY <1>1, SeqOfItsRange DEF FiniteCells

\* A throw, a logged line or the end of the script stage nothing.
LEMMA ThrowSound ==
  ASSUME NEW s, SoundScript(s)
  PROVE  SoundScript(Throw(s))
<1>1. /\ DOMAIN Throw(s) = DOMAIN s
      /\ Throw(s).inputs = s.inputs /\ Throw(s).cubes = s.cubes
  BY DEF SoundScript, ScriptFields, Throw
<1> QED BY <1>1 DEF SoundScript

\* Staging anything for a cube, or cells for it, leaves the script sound.
LEMMA StagingSound ==
  ASSUME NEW s, SoundScript(s), NEW target, NEW items, NEW where \in {"cubes", "dimensions"},
         NEW field \in {"elements", "edges", "cells"},
         where = "cubes" /\ field = "cells" => FiniteCells(items)
  PROVE  SoundScript(StageInto(s, where, target, field, items))
<1> DEFINE changes == WithTarget(s[where], target)
           put == [changes EXCEPT ![target][field] = @ \o items]
           staged == [s EXCEPT ![where] = put, !.staged = @ + Len(items)]
<1>1. DOMAIN s = ScriptFields /\ "cubes" \in ScriptFields /\ "inputs" \in ScriptFields
  BY DEF SoundScript, ScriptFields
<1>2. /\ DOMAIN staged = ScriptFields /\ staged.inputs = s.inputs
      /\ where = "cubes" => staged.cubes = put
      /\ where = "dimensions" => staged.cubes = s.cubes
  <2> HIDE DEF put
  <2> QED BY <1>1 DEF ScriptFields
<1>3. ASSUME where = "cubes" PROVE \A t \in DOMAIN put : SoundChanges(put[t])
  <2>1. PICK all : all = s.cubes
    OBVIOUS
  <2>2. \A t \in DOMAIN all : SoundChanges(all[t])
    BY <2>1 DEF SoundScript
  <2>3. PICK wide : wide = WithTarget(all, target)
    OBVIOUS
  <2>4. SoundChanges(NoChanges)
    BY NoCells DEF SoundChanges, NoChanges
  <2>5. \A t \in DOMAIN wide : SoundChanges(wide[t])
    BY <2>2, <2>3, <2>4 DEF WithTarget, LaidOver
  <2>6. put = [wide EXCEPT ![target][field] = @ \o items]
    BY <1>3, <2>1, <2>3
  <2>7. DOMAIN put = DOMAIN wide /\ \A t \in DOMAIN wide : t # target => put[t] = wide[t]
    BY <2>6
  <2>8. target \in DOMAIN wide => put[target] = [wide[target] EXCEPT ![field] = @ \o items]
    BY <2>6
  <2>9. ASSUME target \in DOMAIN wide PROVE SoundChanges(put[target])
    <3>1. PICK old : old = wide[target]
      OBVIOUS
    <3>2. PICK new : new = put[target]
      OBVIOUS
    <3>3. SoundChanges(old) /\ new = [old EXCEPT ![field] = @ \o items]
      BY <3>1, <3>2, <2>5, <2>8, <2>9
    <3>4. CASE field = "cells"
      <4>1. DOMAIN new = {"elements", "edges", "cells"} /\ new.cells = old.cells \o items
        BY <3>3, <3>4 DEF SoundChanges
      <4>2. FiniteCells(old.cells \o items)
        BY <3>3, <3>4, <1>3, JoinedCellsFinite DEF SoundChanges
      <4> QED BY <4>1, <4>2, <3>2 DEF SoundChanges
    <3>5. CASE field # "cells"
      <4>1. DOMAIN new = {"elements", "edges", "cells"} /\ new.cells = old.cells
        BY <3>3, <3>5 DEF SoundChanges
      <4> QED BY <4>1, <3>3, <3>2 DEF SoundChanges
    <3> QED BY <3>4, <3>5
  <2> HIDE DEF put
  <2> QED BY <2>5, <2>7, <2>9
<1> HIDE DEF put
<1>4. SoundScript(staged)
  BY <1>2, <1>3 DEF SoundScript
<1>5. StageInto(s, where, target, field, items) = Budgeted(staged)
  BY DEF StageInto, put
<1> HIDE DEF staged
<1>6. SoundScript(Throw(staged))
  BY <1>4, ThrowSound
<1> QED BY <1>4, <1>5, <1>6 DEF Budgeted

\* The rows of a source the script has are rows.
LEMMA RowsAreASeq ==
  ASSUME NEW s, SoundScript(s), NEW name, HasSource(s, name)
  PROVE  ASequence(RowsOf(s, name))
<1> DEFINE source == SourceOf(s, name)
<1>1. CASE source = Blank
  <2>1. <<>> \in Seq({})
    OBVIOUS
  <2> QED BY <1>1, <2>1, SeqOfItsRange DEF RowsOf
<1>2. CASE source # Blank
  <2>1. source \in DOMAIN s.inputs
    <3>1. CASE name # Blank
      BY <3>1 DEF SourceOf, HasSource
    <3>2. CASE name = Blank
      <4>1. Cardinality(DOMAIN s.inputs) = 1
        BY <3>2, <1>2 DEF SourceOf
      <4>2. DOMAIN s.inputs # {}
        BY <4>1, FS_EmptySet
      <4> QED BY <3>2, <4>1, <4>2 DEF SourceOf
    <3> QED BY <3>1, <3>2
  <2> QED BY <1>2, <2>1 DEF RowsOf, SoundScript
<1> QED BY <1>1, <1>2

\* A cell for each row of a source is at one member.
LEMMA LoadedCellsFinite ==
  ASSUME NEW s, SoundScript(s), NEW call, call.op = "loadCells", HasSource(s, call.source)
  PROVE  FiniteCells(Loaded(s, call))
<1>1. PICK rows : rows = RowsOf(s, call.source)
  OBVIOUS
<1>2. rows \in Seq(Range(rows)) /\ DOMAIN rows = 1 .. Len(rows) /\ Len(rows) \in Nat
  BY <1>1, RowsAreASeq DEF ASequence
<1> DEFINE at(i) == [d \in {call.d} |-> rows[i][d]]
           cells == [i \in DOMAIN rows |-> [coord |-> at(i), value |-> rows[i].value]]
<1>3. Loaded(s, call) = cells
  BY <1>1 DEF Loaded
<1>4. \A i \in DOMAIN cells : IsFiniteSet(DOMAIN cells[i].coord)
  <2> SUFFICES ASSUME NEW i \in DOMAIN rows PROVE IsFiniteSet(DOMAIN cells[i].coord)
    OBVIOUS
  <2>1. DOMAIN cells[i].coord = {call.d}
    OBVIOUS
  <2> QED BY <2>1, FS_Singleton
<1>5. cells \in Seq(Range(cells))
  <2>1. DOMAIN cells = 1 .. Len(rows)
    BY <1>2
  <2> HIDE DEF cells
  <2>2. cells \in [1 .. Len(rows) -> Range(cells)]
    BY <2>1, <1>3 DEF Range, Loaded
  <2> QED BY <2>2, <1>2
<1> HIDE DEF cells
<1> QED BY <1>3, <1>4, <1>5 DEF FiniteCells, ASequence

\* No host call makes the script's plan unsound.
LEMMA HostCallSound ==
  ASSUME NEW s, SoundScript(s), NEW call, ACall(call),
         call.op \notin {"read", "copyMembers", "copyShared", "loop", "panic"}
  PROVE  SoundScript(HostCall(s, call))
<1> DEFINE cube == TargetOf(s, call)
<1>1. SoundScript(Throw(s))
  BY ThrowSound
<1>2. call.op \in HostCalls
  BY DEF ACall
<1>3. CASE call.op = "throw"
  BY <1>1, <1>3 DEF HostCall
<1>4. CASE call.op = "log"
  <2> DEFINE logged == [s EXCEPT !.logs = @ + 1]
  <2>1. DOMAIN logged = DOMAIN s /\ logged.inputs = s.inputs /\ logged.cubes = s.cubes
    BY DEF SoundScript, ScriptFields
  <2>2. SoundScript(logged)
    <3> HIDE DEF logged
    <3> QED BY <2>1 DEF SoundScript
  <2>3. HostCall(s, call) \in {Throw(s), logged}
    BY <1>4 DEF HostCall
  <2> QED BY <2>2, <2>3, <1>1
<1>5. CASE call.op = "dimElements"
  <2>1. HostCall(s, call) = StageInto(s, "dimensions", call.target, "elements", Elements(call.items))
    BY <1>5 DEF HostCall
  <2> QED BY <2>1, StagingSound
<1>6. CASE call.op = "dimEdges"
  <2>1. HostCall(s, call) = StageInto(s, "dimensions", call.target, "edges", Edges(call.items))
    BY <1>6 DEF HostCall
  <2> QED BY <2>1, StagingSound
<1>7. CASE call.op = "elements"
  <2>1. HostCall(s, call) \in {Throw(s), StageInto(s, "cubes", cube, "elements", Elements(call.items))}
    BY <1>7 DEF HostCall
  <2> QED BY <2>1, <1>1, StagingSound
<1>8. CASE call.op = "edges"
  <2>1. HostCall(s, call) \in {Throw(s), StageInto(s, "cubes", cube, "edges", Edges(call.items))}
    BY <1>8 DEF HostCall
  <2> QED BY <2>1, <1>1, StagingSound
<1>9. CASE call.op = "cells"
  <2>1. HostCall(s, call) \in {Throw(s), StageInto(s, "cubes", cube, "cells", Cells(call.items))}
    BY <1>9 DEF HostCall
  <2>2. FiniteCells(call.items)
    BY <1>9 DEF ACall, FiniteCells
  <2>3. FiniteCells(Cells(call.items))
    BY <2>2, ThoseCellsFinite
  <2> QED BY <2>1, <2>3, <1>1, StagingSound
<1>10. CASE call.op = "writeRead"
  <2>1. HostCall(s, call) \in {Throw(s), StageInto(s, "cubes", cube, "cells", Cells(ReadBack(s, call)))}
    BY <1>10 DEF HostCall
  <2>2. FiniteCells(ReadBack(s, call))
    <3>1. PICK x : x = [coord |-> call.into, value |-> s.lastRead]
      OBVIOUS
    <3>2. IsFiniteSet(DOMAIN x.coord)
      BY <3>1, <1>10 DEF ACall
    <3>3. <<x>> \in Seq({x}) /\ DOMAIN <<x>> = {1} /\ <<x>>[1] = x
      OBVIOUS
    <3>4. ASequence(<<x>>)
      BY <3>3, SeqOfItsRange
    <3>5. ReadBack(s, call) = <<x>>
      BY <3>1 DEF ReadBack
    <3> QED BY <3>2, <3>3, <3>4, <3>5 DEF FiniteCells
  <2>3. FiniteCells(Cells(ReadBack(s, call)))
    BY <2>2, ThoseCellsFinite
  <2> QED BY <2>1, <2>3, <1>1, StagingSound
<1>11. CASE call.op = "loadElements"
  <2>1. HostCall(s, call) \in {Throw(s), StageInto(s, "cubes", cube, "elements", Elements(Loaded(s, call)))}
    BY <1>11 DEF HostCall
  <2> QED BY <2>1, <1>1, StagingSound
<1>12. CASE call.op = "loadCells"
  <2>1. \/ HostCall(s, call) = Throw(s)
        \/ /\ HasSource(s, call.source)
           /\ HostCall(s, call) = StageInto(s, "cubes", cube, "cells", Cells(Loaded(s, call)))
    BY <1>12 DEF HostCall
  <2>2. CASE HostCall(s, call) = Throw(s)
    BY <2>2, <1>1
  <2>3. CASE /\ HasSource(s, call.source)
             /\ HostCall(s, call) = StageInto(s, "cubes", cube, "cells", Cells(Loaded(s, call)))
    <3>1. FiniteCells(Cells(Loaded(s, call)))
      BY <1>12, <2>3, LoadedCellsFinite, ThoseCellsFinite
    <3> QED BY <3>1, <2>3, StagingSound
  <2> QED BY <2>1, <2>2, <2>3
<1> QED BY <1>2, <1>3, <1>4, <1>5, <1>6, <1>7, <1>8, <1>9, <1>10, <1>11, <1>12 DEF HostCalls

-----------------------------------------------------------------------------
(* What an outcome needs and where it goes.                                  *)

SoundOutcome(outcome) ==
  \A t \in DOMAIN outcome.cubes : FiniteCells(outcome.cubes[t].cells)

\* The outcome of a sound script is sound: an edge or an element staged twice
\* is dropped, cells are kept.
LEMMA OutcomeSound ==
  ASSUME NEW s, SoundScript(s)
  PROVE  SoundOutcome(OutcomeOf(s))
<1>1. PICK all : all = s.cubes
  OBVIOUS
<1>2. \A t \in DOMAIN all : SoundChanges(all[t])
  BY <1>1 DEF SoundScript
<1>3. PICK cs : cs = DedupSpecs(all)
  OBVIOUS
<1>4. OutcomeOf(s).cubes = cs
  BY <1>1, <1>3 DEF OutcomeOf
<1>5. ASSUME NEW t \in DOMAIN cs PROVE t \in DOMAIN all /\ cs[t].cells = all[t].cells
  <2>1. t \in DOMAIN all /\ cs[t] = [all[t] EXCEPT !.elements = Dedup(@), !.edges = Dedup(@)]
    BY <1>3 DEF DedupSpecs
  <2>2. "cells" \in DOMAIN all[t]
    BY <2>1, <1>2 DEF SoundChanges
  <2> QED BY <2>1, <2>2
<1> QED BY <1>2, <1>4, <1>5 DEF SoundOutcome, SoundChanges

\* The plan of an import is.
LEMMA ImportSound ==
  ASSUME NEW cube, NEW rows, NEW columns, NEW valueColumn, NEW fixed, AnImport(rows, columns, fixed)
  PROVE  SoundOutcome(PlanImport(cube, rows, columns, valueColumn, fixed))
<1> DEFINE kept == {row \in ToSet(rows) : row[valueColumn] # Blank}
<1>1. PICK valued : valued = Those(rows, kept)
  OBVIOUS
<1>2. valued \in Seq(Range(rows))
  <2> HIDE DEF kept
  <2> QED BY <1>1, ThoseAreASeq DEF AnImport, ASequence
<1>3. DOMAIN valued = 1 .. Len(valued) /\ Len(valued) \in Nat
  BY <1>2
<1> DEFINE coord(i) == CoordOfRow(valued[i], columns, fixed)
           cells == [i \in DOMAIN valued |-> [coord |-> coord(i), value |-> valued[i][valueColumn]]]
           outcome == PlanImport(cube, rows, columns, valueColumn, fixed)
<1>4. DOMAIN outcome.cubes = {cube} /\ outcome.cubes[cube].cells = cells
  BY <1>1 DEF PlanImport
<1>5. IsFiniteSet(Range(columns) \cup DOMAIN fixed)
  <2> DEFINE g == [x \in DOMAIN columns |-> columns[x]]
  <2>1. g \in Surjection(DOMAIN columns, Range(columns))
    BY DEF Surjection, Range
  <2> HIDE DEF g
  <2>2. IsFiniteSet(Range(columns))
    BY <2>1, FS_Surjection DEF AnImport
  <2> QED BY <2>2, FS_Union DEF AnImport
<1>6. \A i \in DOMAIN valued : DOMAIN coord(i) = Range(columns) \cup DOMAIN fixed
  BY DEF CoordOfRow, LaidOver
<1>7. \A i \in DOMAIN cells : IsFiniteSet(DOMAIN cells[i].coord)
  <2> HIDE DEF coord
  <2> QED BY <1>5, <1>6
<1>8. ASequence(cells)
  <2>1. DOMAIN cells = 1 .. Len(valued)
    BY <1>3
  <2>2. cells = [i \in 1 .. Len(valued) |-> cells[i]]
    BY <2>1
  <2> HIDE DEF cells
  <2>3. cells \in [1 .. Len(valued) -> Range(cells)]
    BY <2>1, <2>2 DEF Range
  <2> QED BY <2>3, <1>3 DEF ASequence
<1> HIDE DEF cells, outcome
<1> QED BY <1>4, <1>7, <1>8 DEF SoundOutcome, FiniteCells, outcome

\* What applying a target takes.
Claims(outcome, target) ==
  IF target.to = "dimension" THEN {EditLibrary}
  ELSE LET changes == outcome.cubes[target.name]
       IN {need \in {EditCube(target.name)} : changes.elements # <<>> \/ changes.edges # <<>>}
          \cup {need \in {WriteCube(target.name)} : changes.cells # <<>>}
          \cup {Reach(m) : m \in UNION {Range(changes.cells[i].coord) : i \in DOMAIN changes.cells}}

\* The members that finitely many cells are at are finitely many.
LEMMA FiniteMembers ==
  ASSUME NEW cells, FiniteCells(cells)
  PROVE  IsFiniteSet(UNION {Range(cells[i].coord) : i \in DOMAIN cells})
<1> DEFINE UpTo(k) == UNION {Range(cells[i].coord) : i \in 1 .. k}
           U == {k \in Nat : k <= Len(cells) => IsFiniteSet(UpTo(k))}
<1>1. DOMAIN cells = 1 .. Len(cells) /\ Len(cells) \in Nat
  BY DEF FiniteCells, ASequence
<1>2. 0 \in U
  <2>1. UpTo(0) = {}
    OBVIOUS
  <2> QED BY <2>1, FS_EmptySet
<1>3. ASSUME NEW k \in Nat, k \in U PROVE k + 1 \in U
  <2> SUFFICES ASSUME k + 1 <= Len(cells) PROVE IsFiniteSet(UpTo(k + 1))
    OBVIOUS
  <2>1. UpTo(k + 1) = UpTo(k) \cup Range(cells[k + 1].coord)
    <3>1. 1 .. (k + 1) = (1 .. k) \cup {k + 1}
      OBVIOUS
    <3> QED BY <3>1
  <2>2. IsFiniteSet(UpTo(k))
    BY <1>1, <1>3
  <2>3. k + 1 \in DOMAIN cells
    BY <1>1
  <2>4. IsFiniteSet(Range(cells[k + 1].coord))
    <3>1. PICK coord : coord = cells[k + 1].coord
      OBVIOUS
    <3>2. IsFiniteSet(DOMAIN coord)
      BY <3>1, <2>3 DEF FiniteCells
    <3> DEFINE g == [x \in DOMAIN coord |-> coord[x]]
    <3>3. g \in Surjection(DOMAIN coord, Range(coord))
      BY DEF Surjection, Range
    <3> HIDE DEF g
    <3> QED BY <3>1, <3>2, <3>3, FS_Surjection
  <2> HIDE DEF UpTo
  <2> QED BY ZenonT(40), <2>1, <2>2, <2>4, FS_Union
<1>4. Nat \subseteq U
  <2> HIDE DEF U
  <2> QED BY <1>2, <1>3, AllNumbers
<1>5. IsFiniteSet(UpTo(Len(cells)))
  <2> HIDE DEF UpTo
  <2> QED BY <1>1, <1>4
<1> QED BY <1>1, <1>5

\* The needs of a cube's changes are listed, all of them.
LEMMA CubeNeedsListed ==
  ASSUME NEW cube, NEW changes, FiniteCells(changes.cells)
  PROVE  /\ ASequence(CubeNeeds(cube, changes))
         /\ \A outcome, target : (/\ target.to # "dimension" /\ target.name = cube
                                  /\ outcome.cubes[cube] = changes)
              => Claims(outcome, target) \subseteq Range(CubeNeeds(cube, changes))
<1> DEFINE members == UNION {Range(changes.cells[i].coord) : i \in DOMAIN changes.cells}
           reached == {Reach(m) : m \in members}
           growth == IF changes.elements # <<>> \/ changes.edges # <<>> THEN <<EditCube(cube)>> ELSE <<>>
           listed == SetToSeq(reached)
           writing == IF changes.cells = <<>> THEN <<>> ELSE <<WriteCube(cube)>> \o listed
<1>1. CubeNeeds(cube, changes) = growth \o writing
  BY DEF CubeNeeds
<1>2. IsFiniteSet(reached)
  <2>1. IsFiniteSet(members)
    BY FiniteMembers
  <2> HIDE DEF members
  <2> DEFINE g == [m \in members |-> Reach(m)]
  <2>2. g \in Surjection(members, reached)
    BY DEF Surjection
  <2> HIDE DEF g, reached
  <2> QED BY <2>1, <2>2, FS_Surjection
<1>3. listed \in Seq(reached) /\ Range(listed) = reached
  <2> HIDE DEF reached
  <2> QED BY <1>2, SetListed
<1> HIDE DEF reached, listed
<1>4. ASequence(listed)
  BY <1>3, SeqOfItsRange
<1>5. ASSUME NEW x PROVE ASequence(<<x>>) /\ Range(<<x>>) = {x}
  <2>1. <<x>> \in Seq({x}) /\ DOMAIN <<x>> = {1} /\ <<x>>[1] = x
    OBVIOUS
  <2> QED BY <2>1, SeqOfItsRange DEF Range
<1>6. ASequence(<<>>) /\ Range(<<>>) = {}
  <2>1. <<>> \in Seq({}) /\ DOMAIN <<>> = {}
    OBVIOUS
  <2> QED BY <2>1, SeqOfItsRange DEF Range
<1>7. /\ ASequence(growth)
      /\ Range(growth) = {need \in {EditCube(cube)} : changes.elements # <<>> \/ changes.edges # <<>>}
  BY <1>5, <1>6
<1>8. changes.cells = <<>> => reached = {}
  BY DEF reached
<1>9. /\ ASequence(writing)
      /\ Range(writing) = {need \in {WriteCube(cube)} : changes.cells # <<>>} \cup reached
  <2>1. CASE changes.cells = <<>>
    BY <2>1, <1>6, <1>8
  <2>2. CASE changes.cells # <<>>
    <3>1. writing = <<WriteCube(cube)>> \o listed
      BY <2>2
    <3>2. ASequence(<<WriteCube(cube)>>) /\ Range(<<WriteCube(cube)>>) = {WriteCube(cube)}
      BY <1>5
    <3>3. ASequence(<<WriteCube(cube)>> \o listed)
          /\ Range(<<WriteCube(cube)>> \o listed) = {WriteCube(cube)} \cup reached
      BY <3>2, <1>3, <1>4, JoinedIsASeq
    <3> HIDE DEF writing
    <3> QED BY <2>2, <3>1, <3>3
  <2> QED BY <2>1, <2>2
<1> HIDE DEF growth, writing
<1>10. ASequence(growth \o writing) /\ Range(growth \o writing) = Range(growth) \cup Range(writing)
  BY <1>7, <1>9, JoinedIsASeq
<1>11. ASSUME NEW outcome, NEW target, target.to # "dimension", target.name = cube, outcome.cubes[cube] = changes
       PROVE  Claims(outcome, target) = Range(growth) \cup Range(writing)
  BY <1>11, <1>7, <1>9 DEF Claims, reached
<1> QED BY <1>1, <1>10, <1>11

\* authorize_outcome asks for all that applying an outcome's targets takes.
LEMMA NeedsCoverTargets ==
  ASSUME NEW outcome, SoundOutcome(outcome)
  PROVE  /\ ASequence(Needs(outcome)) /\ ASequence(Targets(outcome))
         /\ \A target \in Range(Targets(outcome)) : Claims(outcome, target) \subseteq Range(Needs(outcome))
<1>1. PICK names : names = InNameOrder(DOMAIN outcome.cubes)
  OBVIOUS
<1>2. PICK dims : dims = InNameOrder(DOMAIN outcome.dimensions)
  OBVIOUS
<1>3. /\ names \in Seq(DOMAIN outcome.cubes) /\ dims \in Seq(DOMAIN outcome.dimensions)
      /\ DOMAIN names = 1 .. Len(names) /\ Len(names) \in Nat
      /\ DOMAIN dims = 1 .. Len(dims) /\ Len(dims) \in Nat
  BY <1>1, <1>2, NamesInOrder
<1> DEFINE needsOf(i) == CubeNeeds(names[i], outcome.cubes[names[i]])
           each == [i \in DOMAIN names |-> needsOf(i)]
           N == UNION {Range(each[i]) : i \in DOMAIN names}
           library == IF DOMAIN outcome.dimensions = {} THEN <<>> ELSE <<EditLibrary>>
<1>4. Needs(outcome) = FlattenSeq(each) \o library
  BY <1>1 DEF Needs
<1>5. ASSUME NEW i \in DOMAIN names
      PROVE  /\ ASequence(each[i])
             /\ \A target : target.to # "dimension" /\ target.name = names[i]
                  => Claims(outcome, target) \subseteq Range(each[i])
  <2>1. names[i] \in DOMAIN outcome.cubes
    BY <1>3
  <2>2. FiniteCells(outcome.cubes[names[i]].cells)
    BY <2>1 DEF SoundOutcome
  <2>3. each[i] = needsOf(i)
    OBVIOUS
  <2> HIDE DEF each
  <2> QED BY <2>2, <2>3, CubeNeedsListed
<1>6. each \in Seq(Seq(N))
  <2>1. DOMAIN each = 1 .. Len(names)
    BY <1>3
  <2>2. ASSUME NEW i \in DOMAIN names PROVE each[i] \in Seq(N)
    <3>1. each[i] \in Seq(Range(each[i]))
      BY <1>5 DEF ASequence
    <3>2. Range(each[i]) \subseteq N
      OBVIOUS
    <3> HIDE DEF each, N
    <3>3. PICK s : s = each[i]
      OBVIOUS
    <3>4. PICK n \in Nat : s \in [1 .. n -> Range(s)]
      BY <3>1, <3>3
    <3>5. s \in [1 .. n -> N]
      BY <3>2, <3>3, <3>4
    <3> QED BY <3>3, <3>5
  <2>3. each = [i \in 1 .. Len(names) |-> each[i]]
    BY <2>1
  <2> HIDE DEF each, N
  <2>4. each \in [1 .. Len(names) -> Seq(N)]
    BY <1>3, <2>1, <2>2, <2>3
  <2> QED BY <1>3, <2>4
<1>7. DOMAIN each = DOMAIN names
  OBVIOUS
<1> HIDE DEF each, N
<1>8. ASequence(FlattenSeq(each)) /\ \A i \in DOMAIN names : Range(each[i]) \subseteq Range(FlattenSeq(each))
  BY <1>6, <1>7, FlattenIsSeq, FlattenHas, SeqOfItsRange
<1>9. ASequence(library) /\ (DOMAIN outcome.dimensions # {} => Range(library) = {EditLibrary})
  <2>1. ASSUME NEW x PROVE ASequence(<<x>>) /\ Range(<<x>>) = {x}
    <3>1. <<x>> \in Seq({x}) /\ DOMAIN <<x>> = {1} /\ <<x>>[1] = x
      OBVIOUS
    <3> QED BY <3>1, SeqOfItsRange DEF Range
  <2>2. <<>> \in Seq({})
    OBVIOUS
  <2>3. ASequence(<<>>)
    BY <2>2, SeqOfItsRange
  <2> QED BY <2>1, <2>3
<1> HIDE DEF library
<1>10. ASequence(Needs(outcome)) /\ Range(Needs(outcome)) = Range(FlattenSeq(each)) \cup Range(library)
  BY <1>4, <1>8, <1>9, JoinedIsASeq
<1> DEFINE first == [i \in DOMAIN dims |-> [to |-> "dimension", name |-> dims[i]]]
           then == [i \in DOMAIN names |-> [to |-> "cube", name |-> names[i]]]
<1>11. Targets(outcome) = first \o then
  BY <1>1, <1>2 DEF Targets
<1>12. /\ ASequence(first)
       /\ \A target \in Range(first) : target.to = "dimension" /\ \E i \in DOMAIN dims : TRUE
  <2>1. first \in [1 .. Len(dims) -> Range(first)]
    BY <1>3 DEF Range
  <2>2. ASequence(first)
    BY <2>1, <1>3 DEF ASequence
  <2> QED BY <2>2 DEF Range
<1>13. /\ ASequence(then)
       /\ \A target \in Range(then) : target.to = "cube" /\ \E i \in DOMAIN names : target.name = names[i]
  <2>1. then \in [1 .. Len(names) -> Range(then)]
    BY <1>3 DEF Range
  <2>2. ASequence(then)
    BY <2>1, <1>3 DEF ASequence
  <2> QED BY <2>2 DEF Range
<1> HIDE DEF first, then
<1>14. ASequence(Targets(outcome)) /\ Range(Targets(outcome)) = Range(first) \cup Range(then)
  BY <1>11, <1>12, <1>13, JoinedIsASeq
<1>15. ASSUME NEW target \in Range(first) PROVE Claims(outcome, target) \subseteq Range(Needs(outcome))
  <2>1. PICK i \in DOMAIN dims : TRUE
    BY <1>12
  <2>2. dims[i] \in DOMAIN outcome.dimensions
    BY <1>3
  <2>3. Claims(outcome, target) = {EditLibrary}
    BY <1>12 DEF Claims
  <2> QED BY <2>2, <2>3, <1>9, <1>10
<1>16. ASSUME NEW target \in Range(then) PROVE Claims(outcome, target) \subseteq Range(Needs(outcome))
  <2>1. PICK i \in DOMAIN names : target.to = "cube" /\ target.name = names[i]
    BY <1>13
  <2>2. target.to # "dimension"
    BY <2>1
  <2>3. Claims(outcome, target) \subseteq Range(each[i])
    BY <2>1, <2>2, <1>5
  <2> QED BY <2>1, <2>3, <1>8, <1>10
<1> QED BY <1>10, <1>14, <1>15, <1>16

-----------------------------------------------------------------------------
(* What every run keeps to.                                                  *)

RunFields ==
  {"pc", "answer", "user", "flow", "body", "fetches", "fetched", "script", "calls", "look", "views", "reads",
   "needs", "outcome", "targets", "writes", "added", "written", "before", "alone", "moments", "could",
   "faulted", "overtaken"}

\* Its rows are rows, its flow has a script, and it has read nothing.
FetchingInv(run) ==
  run.pc = "fetching" =>
    /\ run.flow.source \in DOMAIN Scripts /\ ABody(run.body)
    /\ \A k \in DOMAIN run.fetched : ASequence(run.fetched[k])
    /\ run.look = NoLook /\ run.views = NoFn /\ run.reads = <<>>

\* What it stages is sound, and so are the calls to come.
StagingInv(run) ==
  run.pc = "running" =>
    /\ SoundScript(run.script)
    /\ ASequence(run.calls) /\ \A i \in DOMAIN run.calls : ACall(run.calls[i])

\* A view of a cube is of three moments of the run: the right to read it of the
\* first, the cube of the second, the mask of the third.  A look under way has
\* come as far as it says.
Viewed(moments, user, cube, view) ==
  \E i, j, k \in DOMAIN moments :
    /\ i <= j /\ j <= k
    /\ HoldsIn(moments[i], user, ReadCube(cube))
    /\ view = View(moments[j].cubes[cube], IF user \in Admins THEN {} ELSE moments[k].denied[user])

Looked(moments, user, look) ==
  /\ look.at = "allowed" => \E i \in DOMAIN moments : HoldsIn(moments[i], user, ReadCube(look.cube))
  /\ look.at = "pinned" => \E i, j \in DOMAIN moments :
       i <= j /\ HoldsIn(moments[i], user, ReadCube(look.cube)) /\ look.snapshot = moments[j].cubes[look.cube]

EndsAt(moments, moment) ==
  ASequence(moments) /\ Len(moments) \in DOMAIN moments /\ moments[Len(moments)] = moment

Saw(view, read) ==
  Readable1(view, read.coord) /\ ValueAt(view.cells, At(view.dims, read.coord)) = read.value

ReadingInv(run, moment) ==
  run.pc = "running" =>
    /\ EndsAt(run.moments, moment)
    /\ Looked(run.moments, run.user, run.look)
    /\ run.look.at # "start" => run.look.cube \notin DOMAIN run.views
    /\ \A cube \in DOMAIN run.views : Viewed(run.moments, run.user, cube, run.views[cube])
    /\ ASequence(run.reads)
    /\ \A read \in Range(run.reads) : read.cube \in DOMAIN run.views /\ Saw(run.views[read.cube], read)

\* All its targets take was held while it was authorized, or is still asked for.
Landing == {"authorizing", "applying", "growing", "committing"}

LandingInv(run, now) ==
  run.pc \in Landing =>
    /\ ASequence(run.needs) /\ ASequence(run.targets)
    /\ run.pc = "authorizing" => now \in run.could
    /\ run.pc \in {"growing", "committing"} => run.targets # <<>> /\ Head(run.targets).to = "cube"
    /\ \A target \in Range(run.targets) : \A need \in Claims(run.outcome, target) :
         Had(run, need) \/ (run.pc = "authorizing" /\ need \in Range(run.needs))

RunInv(run, now, moment) ==
  run.pc # "idle" =>
    /\ DOMAIN run = RunFields
    /\ FetchingInv(run) /\ StagingInv(run) /\ ReadingInv(run, moment) /\ LandingInv(run, now)

\* The cubes are cubes, and those a shared dimension refers to are there.
ModelShape ==
  /\ \A cube \in DOMAIN cubes : DOMAIN cubes[cube] = {"dims", "cells"}
  /\ \A d \in DOMAIN shared : DOMAIN shared[d] = {"dim", "referrers"}
                         /\ Range(shared[d].referrers) \subseteq DOMAIN cubes

FlowInv ==
  /\ ModelShape
  /\ DOMAIN runs = Requests
  /\ \A c \in Requests : RunInv(runs[c], RightsNow, Moment)

LEMMA DoneInv ==
  ASSUME NEW run, NEW now, NEW moment, run.pc = "done", DOMAIN run = RunFields
  PROVE  RunInv(run, now, moment)
BY DEF RunInv, FetchingInv, StagingInv, ReadingInv, LandingInv, Landing

\* A step that changes nothing but a run.
LEMMA QuietInv ==
  ASSUME FlowInv, NEW c \in Requests, NEW run, To(c, run), RunInv(run, RightsNow, Moment), Quiet
  PROVE  FlowInv'
<1>1. RightsNow' = RightsNow /\ Moment' = Moment /\ (ModelShape' <=> ModelShape)
  BY DEF Quiet, modelVars, rightsVars, RightsNow, Moment, ModelShape
<1>2. DOMAIN runs' = Requests /\ \A r \in Requests : runs'[r] = IF r = c THEN run ELSE runs[r]
  BY DEF FlowInv, To
<1>3. ASSUME NEW r \in Requests PROVE RunInv(runs'[r], RightsNow, Moment)
  BY <1>2 DEF FlowInv
<1> QED BY <1>1, <1>2, <1>3 DEF FlowInv

\* What was so of the moments of a run stays so when one is added.
LEMMA MomentAdded ==
  ASSUME NEW old, NEW last, NEW moment, EndsAt(old, last), NEW new, new = Append(old, moment)
  PROVE  /\ EndsAt(new, moment)
         /\ \A user, look : Looked(old, user, look) => Looked(new, user, look)
         /\ \A user, cube, view : Viewed(old, user, cube, view) => Viewed(new, user, cube, view)
<1>1. PICK X : X = Range(old) \cup {moment}
  OBVIOUS
<1>2. old \in Seq(X)
  <2>1. old \in Seq(Range(old)) /\ Range(old) \subseteq X
    BY <1>1 DEF EndsAt, ASequence
  <2> QED BY <2>1
<1>3. /\ new \in Seq(X) /\ Len(new) = Len(old) + 1 /\ new[Len(old) + 1] = moment
      /\ \A i \in 1 .. Len(old) : new[i] = old[i]
  BY <1>1, <1>2
<1>4. DOMAIN old = 1 .. Len(old) /\ DOMAIN new = 1 .. Len(new) /\ Len(old) \in Nat
  BY <1>2, <1>3
<1>5. DOMAIN old \subseteq DOMAIN new /\ \A i \in DOMAIN old : new[i] = old[i]
  BY <1>3, <1>4
<1>6. ASequence(new)
  BY <1>3, SeqOfItsRange
<1>7. EndsAt(new, moment)
  BY <1>3, <1>4, <1>6 DEF EndsAt
<1>8. ASSUME NEW user, NEW look, Looked(old, user, look) PROVE Looked(new, user, look)
  BY <1>5, <1>8 DEF Looked
<1>9. ASSUME NEW user, NEW cube, NEW view, Viewed(old, user, cube, view) PROVE Viewed(new, user, cube, view)
  BY <1>5, <1>9 DEF Viewed
<1> QED BY <1>7, <1>8, <1>9

\* What a run sees of a change by another, or of its own.
LEMMA SeenInv ==
  ASSUME NEW run, NEW now, NEW moment, NEW now2, NEW moment2, NEW alone, NEW new,
         RunInv(run, now, moment), run.pc # "idle",
         new = [run EXCEPT !.alone = alone,
                           !.moments = IF run.pc = "running" THEN Append(@, moment2) ELSE <<>>,
                           !.could = IF run.pc = "authorizing" THEN @ \cup {now2}
                                     ELSE IF run.pc = "done" THEN {} ELSE @]
  PROVE  RunInv(new, now2, moment2)
<1>2. DOMAIN run = RunFields
  BY DEF RunInv
<1>3. /\ DOMAIN new = RunFields
      /\ new.pc = run.pc /\ new.flow = run.flow /\ new.body = run.body /\ new.fetched = run.fetched
      /\ new.look = run.look /\ new.views = run.views /\ new.reads = run.reads /\ new.script = run.script
      /\ new.calls = run.calls
      /\ new.user = run.user /\ new.needs = run.needs /\ new.outcome = run.outcome /\ new.targets = run.targets
      /\ new.moments = IF run.pc = "running" THEN Append(run.moments, moment2) ELSE <<>>
      /\ new.could = IF run.pc = "authorizing" THEN run.could \cup {now2}
                     ELSE IF run.pc = "done" THEN {} ELSE run.could
  BY <1>2 DEF RunFields
<1>4. FetchingInv(new) /\ StagingInv(new)
  BY <1>3 DEF RunInv, FetchingInv, StagingInv
<1>5. ReadingInv(new, moment2)
  <2> SUFFICES ASSUME new.pc = "running" PROVE ReadingInv(new, moment2)
    BY DEF ReadingInv
  <2>1. PICK old, added : old = run.moments /\ added = new.moments
    OBVIOUS
  <2>2. ReadingInv(run, moment) /\ run.pc = "running"
    BY <1>3 DEF RunInv
  <2>3. EndsAt(old, moment) /\ added = Append(old, moment2)
    BY <1>3, <2>1, <2>2 DEF ReadingInv
  <2>4. /\ EndsAt(added, moment2)
        /\ \A user, look : Looked(old, user, look) => Looked(added, user, look)
        /\ \A user, cube, view : Viewed(old, user, cube, view) => Viewed(added, user, cube, view)
    BY ONLY <2>3, MomentAdded
  <2> QED BY <1>3, <2>1, <2>2, <2>4 DEF ReadingInv
<1>6. LandingInv(new, now2)
  <2> SUFFICES ASSUME new.pc \in Landing PROVE LandingInv(new, now2)
    BY DEF LandingInv
  <2>1. run.could \subseteq new.could /\ (new.pc = "authorizing" => now2 \in new.could)
    BY <1>3 DEF Landing
  <2>2. LandingInv(run, now)
    BY DEF RunInv
  <2>3. \A need : Had(run, need) => Had(new, need)
    BY <1>3, <2>1 DEF Had
  <2> QED BY <1>3, <2>1, <2>2, <2>3 DEF LandingInv
<1> QED BY <1>3, <1>4, <1>5, <1>6 DEF RunInv

LEMMA WitnessedInv ==
  ASSUME FlowInv, NEW all, NEW c, runs' = Witnessed(all, c), ModelShape',
         \A r \in Requests : RunInv(all[r], RightsNow, Moment)
  PROVE  FlowInv'
<1> DEFINE flag(r) == r = c \/ modelVars' = modelVars
<1>1. DOMAIN runs' = Requests
  BY DEF Witnessed
<1>2. ASSUME NEW r \in Requests PROVE RunInv(runs'[r], RightsNow', Moment')
  <2>1. CASE all[r].pc = "idle"
    <3>1. runs'[r] = all[r]
      BY <2>1 DEF Witnessed
    <3> QED BY <2>1, <3>1 DEF RunInv
  <2>2. CASE all[r].pc # "idle"
    <3>1. PICK run : run = all[r]
      OBVIOUS
    <3>2. PICK now2 : now2 = RightsNow'
      OBVIOUS
    <3>3. PICK moment2 : moment2 = Moment'
      OBVIOUS
    <3>4. PICK alone : alone = (run.alone /\ flag(r))
      OBVIOUS
    <3>5. runs'[r] = [run EXCEPT !.alone = alone,
                            !.moments = IF run.pc = "running" THEN Append(@, moment2) ELSE <<>>,
                            !.could = IF run.pc = "authorizing" THEN @ \cup {now2}
                                      ELSE IF run.pc = "done" THEN {} ELSE @]
      BY <2>2, <3>1, <3>2, <3>3, <3>4 DEF Witnessed
    <3>6. PICK now : now = RightsNow
      OBVIOUS
    <3>7. PICK moment : moment = Moment
      OBVIOUS
    <3>8. RunInv(run, now, moment) /\ run.pc # "idle"
      BY <2>2, <3>1, <3>6, <3>7
    <3>9. RunInv(runs'[r], now2, moment2)
      BY ONLY <3>5, <3>8, SeenInv, ZenonT(40)
    <3> QED BY <3>2, <3>3, <3>9
  <2> QED BY <2>1, <2>2
<1> QED BY <1>1, <1>2 DEF FlowInv

-----------------------------------------------------------------------------
(* Each step of a run.                                                       *)

LEMMA BegunInv ==
  ASSUME NEW user, NEW flow, NEW body, flow.source \in DOMAIN Scripts, ABody(body)
  PROVE  RunInv(Begun(user, flow, body), RightsNow, Moment)
<1>1. PICK run : run = Begun(user, flow, body)
  OBVIOUS
<1>2. /\ DOMAIN run = RunFields /\ run.pc = "fetching"
      /\ run.flow = flow /\ run.body = body /\ run.fetched = NoFn /\ run.look = NoLook
      /\ run.views = NoFn /\ run.reads = <<>>
  BY <1>1 DEF Begun, RunFields
<1>3. FetchingInv(run)
  BY <1>2 DEF FetchingInv, NoFn
<1>4. StagingInv(run) /\ ReadingInv(run, Moment) /\ LandingInv(run, RightsNow)
  BY <1>2 DEF StagingInv, ReadingInv, LandingInv, Landing
<1> QED BY <1>1, <1>2, <1>3, <1>4 DEF RunInv

LEMMA RunFlowInv ==
  ASSUME FlowInv, NEW c \in Requests, NEW user, NEW name, NEW body, ABody(body), HasScript(name),
         RunFlow(c, user, name, body)
  PROVE  FlowInv'
<1>1. PICK run : run = Begun(user, automation.flows[name], body)
  OBVIOUS
<1>2. To(c, run) /\ Quiet
  BY <1>1 DEF RunFlow
<1>3. RunInv(run, RightsNow, Moment)
  BY <1>1, BegunInv DEF HasScript
<1> QED BY <1>2, <1>3, QuietInv

LEMMA RunScheduledInv ==
  ASSUME FlowInv, NEW c \in Requests, NEW name, HasScript(name), RunScheduled(c, name)
  PROVE  FlowInv'
<1>1. PICK owner : To(c, Begun(owner, automation.flows[name], NoBody)) /\ Quiet
  BY DEF RunScheduled
<1>2. PICK run : run = Begun(owner, automation.flows[name], NoBody)
  OBVIOUS
<1>3. ABody(NoBody)
  BY DEF ABody, NoBody, NoFn
<1>4. RunInv(run, RightsNow, Moment)
  BY <1>2, <1>3, BegunInv DEF HasScript
<1>5. To(c, run) /\ Quiet
  BY <1>1, <1>2
<1> QED BY <1>4, <1>5, QuietInv

\* Answering leaves nothing to be kept to.
LEMMA AnsweredInv ==
  ASSUME FlowInv, NEW c \in Requests, NEW answer, runs[c].pc # "idle", AnswerWith(c, runs[c], answer), Quiet
  PROVE  FlowInv'
<1>1. PICK run : run = [runs[c] EXCEPT !.pc = "done", !.answer = answer]
  OBVIOUS
<1>2. DOMAIN runs[c] = RunFields
  BY DEF FlowInv, RunInv
<1>3. run.pc = "done" /\ DOMAIN run = RunFields
  BY <1>1, <1>2 DEF RunFields
<1>4. RunInv(run, RightsNow, Moment)
  BY <1>3, DoneInv
<1>5. To(c, run)
  BY <1>1 DEF AnswerWith
<1> QED BY <1>4, <1>5, QuietInv

LEMMA FetchInv ==
  ASSUME FlowInv, NEW c \in Requests, Fetch(c)
  PROVE  FlowInv'
<1>1. PICK run : run = runs[c]
  OBVIOUS
<1>2. run.pc = "fetching" /\ DOMAIN run = RunFields /\ FetchingInv(run) /\ Quiet
  BY <1>1 DEF Fetch, Run, FlowInv, RunInv
<1>3. CASE AnswerWith(c, run, "no rows")
  BY <1>1, <1>2, <1>3, AnsweredInv
<1>4. CASE ~AnswerWith(c, run, "no rows")
  <2>1. PICK rows, at : /\ rows \in Feeds
                        /\ To(c, [run EXCEPT !.fetches = Tail(@), !.fetched = Put(@, at, rows)])
    BY <1>1, <1>4 DEF Fetch, Run
  <2>2. PICK new : new = [run EXCEPT !.fetches = Tail(@), !.fetched = Put(@, at, rows)]
    OBVIOUS
  <2>3. /\ DOMAIN new = RunFields /\ new.pc = "fetching" /\ new.flow = run.flow /\ new.body = run.body
        /\ new.fetched = Put(run.fetched, at, rows) /\ new.look = run.look /\ new.views = run.views
        /\ new.reads = run.reads
    BY <1>2, <2>2 DEF RunFields
  <2>4. \A k \in DOMAIN new.fetched : ASequence(new.fetched[k])
    <3>1. PICK old : old = run.fetched
      OBVIOUS
    <3>2. \A k \in DOMAIN old : ASequence(old[k])
      BY <1>2, <3>1 DEF FetchingInv
    <3>3. new.fetched = [n \in DOMAIN old \cup {at} |-> IF n = at THEN rows ELSE old[n]]
      BY <2>3, <3>1 DEF Put
    <3>4. ASequence(rows)
      BY <2>1, FeedsAssumption
    <3> QED BY ONLY <3>2, <3>3, <3>4
  <2>5. FetchingInv(new)
    BY <1>2, <2>3, <2>4 DEF FetchingInv
  <2>6. StagingInv(new) /\ ReadingInv(new, Moment) /\ LandingInv(new, RightsNow)
    BY <2>3 DEF StagingInv, ReadingInv, LandingInv, Landing
  <2>7. RunInv(new, RightsNow, Moment)
    BY <2>3, <2>5, <2>6 DEF RunInv
  <2> QED BY <1>2, <2>1, <2>2, <2>7, QuietInv
<1> QED BY <1>3, <1>4

\* The rows a script starts with are rows.
LEMMA InputsAreRows ==
  ASSUME NEW run, ABody(run.body), \A k \in DOMAIN run.fetched : ASequence(run.fetched[k])
  PROVE  \A k \in DOMAIN InputsOf(run) : ASequence(InputsOf(run)[k])
<1> DEFINE key == LegacyKey(run.flow)
           legacy == IF run.body.connection # {} THEN {run.fetched[k] : k \in {key} \cap DOMAIN run.fetched}
                     ELSE run.body.input
           first == [k \in {key : rows \in legacy} |-> CHOOSE rows \in legacy : TRUE]
           rest == LaidOver(run.body.inputs, run.fetched)
<1>1. \A rows \in legacy : ASequence(rows)
  BY DEF ABody
<1>2. \A k \in DOMAIN first : first[k] \in legacy
  <2> HIDE DEF legacy, key
  <2> QED OBVIOUS
<1>3. \A k \in DOMAIN rest : ASequence(rest[k])
  BY DEF LaidOver, ABody
<1>4. InputsOf(run) = LaidOver(first, rest)
  BY DEF InputsOf
<1> HIDE DEF first, rest, legacy
<1> QED BY <1>1, <1>2, <1>3, <1>4 DEF LaidOver

LEMMA StartScriptInv ==
  ASSUME FlowInv, NEW c \in Requests, StartScript(c)
  PROVE  FlowInv'
<1>1. PICK run : run = runs[c]
  OBVIOUS
<1>2. run.pc = "fetching" /\ DOMAIN run = RunFields /\ FetchingInv(run) /\ Quiet
  BY <1>1 DEF StartScript, Run, FlowInv, RunInv
<1>3. PICK cube : cube = IF run.flow.defaultCube = {} THEN Blank ELSE CHOOSE d \in run.flow.defaultCube : TRUE
  OBVIOUS
<1>4. PICK new : new = [run EXCEPT !.pc = "running", !.script = Started(cube, InputsOf(run)),
                          !.calls = Calls(Scripts[run.flow.source]), !.moments = <<Moment>>]
  OBVIOUS
<1>5. To(c, new)
  BY <1>1, <1>3, <1>4 DEF StartScript, Run
<1>6. /\ DOMAIN new = RunFields /\ new.pc = "running" /\ new.script = Started(cube, InputsOf(run))
      /\ new.calls = Calls(Scripts[run.flow.source]) /\ new.moments = <<Moment>>
      /\ new.look = NoLook /\ new.views = NoFn /\ new.reads = <<>>
  BY <1>2, <1>4 DEF RunFields, FetchingInv
<1>7. SoundScript(new.script)
  <2>1. PICK inputs : inputs = InputsOf(run)
    OBVIOUS
  <2>2. \A k \in DOMAIN inputs : ASequence(inputs[k])
    BY <1>2, <2>1, InputsAreRows DEF FetchingInv
  <2>3. PICK s : s = Started(cube, inputs)
    OBVIOUS
  <2>4. DOMAIN s = ScriptFields /\ s.inputs = inputs /\ DOMAIN s.cubes = {}
    BY <2>3 DEF Started, ScriptFields, NoFn
  <2>5. SoundScript(s)
    BY <2>2, <2>4 DEF SoundScript
  <2> QED BY <1>6, <2>1, <2>3, <2>5
<1>8. StagingInv(new)
  <2>1. ASequence(new.calls) /\ \A i \in DOMAIN new.calls : ACall(new.calls[i])
    BY <1>2, <1>6, ScriptsAssumption DEF FetchingInv
  <2> QED BY <1>7, <2>1 DEF StagingInv
<1>9. ReadingInv(new, Moment)
  <2>1. <<>> \in Seq({}) /\ DOMAIN <<>> = {} /\ DOMAIN NoFn = {}
    BY DEF NoFn
  <2>2. ASequence(<<>>) /\ Range(<<>>) = {}
    BY <2>1, SeqOfItsRange DEF Range
  <2>3. PICK moment : moment = Moment
    OBVIOUS
  <2>4. <<moment>> \in Seq({moment}) /\ Len(<<moment>>) = 1 /\ DOMAIN <<moment>> = {1} /\ <<moment>>[1] = moment
    OBVIOUS
  <2>5. EndsAt(<<moment>>, moment)
    BY <2>4, SeqOfItsRange DEF EndsAt
  <2>6. EndsAt(new.moments, Moment)
    BY <1>6, <2>3, <2>5
  <2>7. new.look.at = "start" /\ Looked(new.moments, new.user, new.look)
    BY <1>6 DEF NoLook, Looked
  <2> QED BY <1>6, <2>1, <2>2, <2>6, <2>7 DEF ReadingInv
<1>10. FetchingInv(new) /\ LandingInv(new, RightsNow)
  BY <1>6 DEF FetchingInv, LandingInv, Landing
<1>11. RunInv(new, RightsNow, Moment)
  BY <1>6, <1>8, <1>9, <1>10 DEF RunInv
<1> QED BY <1>2, <1>5, <1>11, QuietInv

-----------------------------------------------------------------------------
(* The calls of a script.                                                    *)

\* What a step of a look leaves: the script goes on or throws, the look has
\* come further or made a view.
HasLooked(run, look, views) ==
  run.pc = "running" =>
    /\ Looked(run.moments, run.user, look)
    /\ look.at # "start" => look.cube \notin DOMAIN views
    /\ \A cube \in DOMAIN views : Viewed(run.moments, run.user, cube, views[cube])
    /\ DOMAIN run.views \subseteq DOMAIN views
    /\ \A cube \in DOMAIN run.views : views[cube] = run.views[cube]

LEMMA LookInv ==
  ASSUME FlowInv, NEW c \in Requests, NEW run, run = runs[c], Threaded(run), NEW s, NEW look, NEW views,
         To(c, [run EXCEPT !.script = s, !.look = look, !.views = views]), Quiet,
         s = run.script \/ s = Throw(run.script), HasLooked(run, look, views)
  PROVE  FlowInv' /\ runs'[c].pc = runs[c].pc /\ runs'[c].answer = runs[c].answer
<1>1. run.pc \in {"running", "done"}
  BY DEF Threaded
<1>2. DOMAIN run = RunFields /\ StagingInv(run) /\ ReadingInv(run, Moment)
  BY <1>1 DEF FlowInv, RunInv
<1>3. PICK new : new = [run EXCEPT !.script = s, !.look = look, !.views = views]
  OBVIOUS
<1>4. /\ DOMAIN new = RunFields /\ new.pc = run.pc /\ new.answer = run.answer /\ new.calls = run.calls
      /\ new.user = run.user /\ new.moments = run.moments /\ new.reads = run.reads
      /\ new.script = s /\ new.look = look /\ new.views = views
  BY <1>2, <1>3 DEF RunFields
<1>5. StagingInv(new)
  BY <1>2, <1>4, ThrowSound DEF StagingInv
<1>6. ReadingInv(new, Moment)
  <2> SUFFICES ASSUME run.pc = "running" PROVE ReadingInv(new, Moment)
    BY <1>4 DEF ReadingInv
  <2> USE DEF HasLooked
  <2>1. /\ EndsAt(run.moments, Moment) /\ ASequence(run.reads)
        /\ \A read \in Range(run.reads) : read.cube \in DOMAIN run.views /\ Saw(run.views[read.cube], read)
    BY <1>2 DEF ReadingInv
  <2>2. \A read \in Range(run.reads) : read.cube \in DOMAIN views /\ Saw(views[read.cube], read)
    BY <2>1
  <2> QED BY <1>4, <2>1, <2>2 DEF ReadingInv
<1>7. FetchingInv(new) /\ LandingInv(new, RightsNow)
  BY <1>1, <1>4 DEF FetchingInv, LandingInv, Landing
<1>8. RunInv(new, RightsNow, Moment)
  BY <1>4, <1>5, <1>6, <1>7 DEF RunInv
<1>9. To(c, new) /\ runs'[c] = new
  BY <1>3 DEF To, FlowInv
<1> QED BY <1>4, <1>8, <1>9, QuietInv

\* The last moment of a run is now.
LEMMA LastIsNow ==
  ASSUME NEW moments, NEW moment, EndsAt(moments, moment)
  PROVE  \E n \in DOMAIN moments : moments[n] = moment /\ \A i \in DOMAIN moments : i <= n
<1>1. DOMAIN moments = 1 .. Len(moments) /\ Len(moments) \in Nat
  <2>1. moments \in Seq(Range(moments))
    BY DEF EndsAt, ASequence
  <2> QED BY <2>1
<1> QED BY <1>1 DEF EndsAt

\* Each of the three looks is at the model as it now is.
LEMMA LooksInv ==
  ASSUME FlowInv, NEW c \in Requests, LookUp(c) \/ PinCube(c) \/ CaptureMask(c)
  PROVE  FlowInv' /\ runs'[c].pc = runs[c].pc /\ runs'[c].answer = runs[c].answer
<1>1. PICK run : run = runs[c]
  OBVIOUS
<1>2. Threaded(run) /\ Quiet /\ run.pc \in {"running", "done"}
  BY <1>1 DEF LookUp, PinCube, CaptureMask, Calling, Threaded, Run
<1>3. DOMAIN run = RunFields /\ ReadingInv(run, Moment)
  BY <1>1, <1>2 DEF FlowInv, RunInv
<1>4. PICK views, s, user, moments, was :
        views = run.views /\ s = run.script /\ user = run.user /\ moments = run.moments /\ was = run.look
  OBVIOUS
<1>5. run.pc = "running" =>
        /\ EndsAt(moments, Moment) /\ Looked(moments, user, was)
        /\ was.at # "start" => was.cube \notin DOMAIN views
        /\ \A cube \in DOMAIN views : Viewed(moments, user, cube, views[cube])
  BY <1>3, <1>4 DEF ReadingInv
<1>6. run.pc = "running" =>
        \E n \in DOMAIN moments : moments[n] = Moment /\ \A i \in DOMAIN moments : i <= n
  BY <1>5, LastIsNow
<1>7. CASE To(c, [run EXCEPT !.script = Throw(@)])
  <2>1. [run EXCEPT !.script = Throw(@)] = [run EXCEPT !.script = Throw(s), !.look = was, !.views = views]
    BY <1>3, <1>4 DEF RunFields
  <2>2. PICK threw : threw = Throw(s)
    OBVIOUS
  <2>3. To(c, [run EXCEPT !.script = threw, !.look = was, !.views = views])
    BY <1>7, <2>1, <2>2
  <2>4. HasLooked(run, was, views)
    BY <1>4, <1>5 DEF HasLooked
  <2> QED BY <1>1, <1>2, <1>4, <2>2, <2>3, <2>4, LookInv
<1>8. CASE LookUp(c) /\ ~To(c, [run EXCEPT !.script = Throw(@)])
  <2>1. PICK cube : cube = NextCall(run).target
    OBVIOUS
  <2>2. PICK look : look = [at |-> "allowed", cube |-> cube]
    OBVIOUS
  <2>3. Holds(user, ReadCube(cube)) /\ To(c, [run EXCEPT !.look = look]) /\ cube \notin DOMAIN views
    BY <1>1, <1>4, <1>8, <2>1, <2>2 DEF LookUp, Looks, Run
  <2>4. HoldsIn(Moment, user, ReadCube(cube))
    BY <2>3 DEF Holds, HoldsIn, RightsNow, Moment, ReadCube
  <2>5. look.at = "allowed" /\ look.cube = cube
    BY <2>2
  <2>6. run.pc = "running" => Looked(moments, user, look)
    BY <1>6, <2>4, <2>5 DEF Looked
  <2>7. [run EXCEPT !.look = look] = [run EXCEPT !.script = s, !.look = look, !.views = views]
    BY <1>3, <1>4 DEF RunFields
  <2>8. HasLooked(run, look, views)
    BY <1>4, <1>5, <2>3, <2>5, <2>6 DEF HasLooked
  <2> QED BY <1>1, <1>2, <1>4, <2>3, <2>7, <2>8, LookInv
<1>9. CASE PinCube(c) /\ ~To(c, [run EXCEPT !.script = Throw(@)])
  <2>1. PICK look : look = [at |-> "pinned", cube |-> was.cube, snapshot |-> cubes[was.cube]]
    OBVIOUS
  <2>2. was.at = "allowed" /\ To(c, [run EXCEPT !.look = look])
    BY <1>1, <1>4, <1>9, <2>1 DEF PinCube, Run
  <2>3. look.at = "pinned" /\ look.cube = was.cube /\ look.snapshot = Moment.cubes[was.cube]
    BY <2>1 DEF Moment
  <2>4. run.pc = "running" => Looked(moments, user, look)
    BY <1>5, <1>6, <2>2, <2>3 DEF Looked
  <2>5. [run EXCEPT !.look = look] = [run EXCEPT !.script = s, !.look = look, !.views = views]
    BY <1>3, <1>4 DEF RunFields
  <2>6. HasLooked(run, look, views)
    BY <1>4, <1>5, <2>2, <2>3, <2>4 DEF HasLooked
  <2> QED BY <1>1, <1>2, <1>4, <2>2, <2>5, <2>6, LookInv
<1>10. CASE CaptureMask(c)
  <2>1. PICK cube : cube = was.cube
    OBVIOUS
  <2>2. PICK view : view = View(was.snapshot, MaskFor(user))
    OBVIOUS
  <2>3. PICK more : more = Put(views, cube, view)
    OBVIOUS
  <2>4. was.at = "pinned" /\ To(c, [run EXCEPT !.look = NoLook, !.views = more])
    BY <1>1, <1>3, <1>4, <1>10, <2>1, <2>2, <2>3 DEF CaptureMask, Run, RunFields
  <2>5. /\ DOMAIN more = DOMAIN views \cup {cube} /\ more[cube] = view
        /\ \A other \in DOMAIN views : other # cube => more[other] = views[other]
    BY <2>3 DEF Put
  <2>6. MaskFor(user) = IF user \in Admins THEN {} ELSE Moment.denied[user]
    BY DEF MaskFor, Moment
  <2>7. run.pc = "running" => Viewed(moments, user, cube, view)
    <3> SUFFICES ASSUME run.pc = "running" PROVE Viewed(moments, user, cube, view)
      OBVIOUS
    <3>1. PICK n \in DOMAIN moments : moments[n] = Moment /\ \A i \in DOMAIN moments : i <= n
      BY <1>6
    <3>2. PICK i, j \in DOMAIN moments :
            i <= j /\ HoldsIn(moments[i], user, ReadCube(cube)) /\ was.snapshot = moments[j].cubes[cube]
      BY <1>5, <2>1, <2>4 DEF Looked
    <3>3. view = View(moments[j].cubes[cube], IF user \in Admins THEN {} ELSE moments[n].denied[user])
      BY <2>2, <2>6, <3>1, <3>2
    <3> QED BY <3>1, <3>2, <3>3 DEF Viewed
  <2>8. run.pc = "running" =>
          /\ cube \notin DOMAIN views /\ \A other \in DOMAIN more : Viewed(moments, user, other, more[other])
    BY <1>5, <2>1, <2>4, <2>5, <2>7
  <2>9. NoLook.at = "start" /\ Looked(moments, user, NoLook)
    BY DEF NoLook, Looked
  <2>10. [run EXCEPT !.look = NoLook, !.views = more] = [run EXCEPT !.script = s, !.look = NoLook, !.views = more]
    BY <1>3, <1>4 DEF RunFields
  <2>11. HasLooked(run, NoLook, more)
    BY <1>4, <2>5, <2>8, <2>9 DEF HasLooked
  <2>12. PICK look : look = NoLook
    OBVIOUS
  <2> QED BY <1>1, <1>2, <1>4, <2>4, <2>10, <2>11, <2>12, LookInv
<1> QED BY <1>7, <1>8, <1>9, <1>10

\* What a host call does to a run besides its script.
SameBut(new, run) ==
  /\ DOMAIN new = RunFields /\ new.pc = run.pc /\ new.answer = run.answer /\ new.calls = run.calls
  /\ new.user = run.user /\ new.moments = run.moments /\ new.look = run.look /\ new.views = run.views

LEMMA ReadCellInv ==
  ASSUME NEW run, DOMAIN run = RunFields, ReadingInv(run, Moment), NEW call, call.target \in DOMAIN run.views
  PROVE  /\ SameBut(ReadCell(run, call), run) /\ ReadingInv(ReadCell(run, call), Moment)
         /\ SoundScript(run.script) => SoundScript(ReadCell(run, call).script)
<1>1. PICK new : new = ReadCell(run, call)
  OBVIOUS
<1>2. CASE ~Readable1(run.views[call.target], call.coord)
  <2>1. new = [run EXCEPT !.script = Throw(@)]
    BY <1>1, <1>2 DEF ReadCell
  <2>2. /\ SameBut(new, run) /\ new.reads = run.reads
        /\ new.script = Throw(run.script)
    BY <2>1 DEF SameBut, RunFields
  <2>3. ReadingInv(new, Moment)
    BY <2>2 DEF SameBut, ReadingInv
  <2> QED BY <1>1, <2>2, <2>3, ThrowSound
<1>3. CASE Readable1(run.views[call.target], call.coord)
  <2>1. PICK view : view = run.views[call.target]
    OBVIOUS
  <2>2. PICK value : value = ValueAt(view.cells, At(view.dims, call.coord))
    OBVIOUS
  <2>3. PICK read : read = [cube |-> call.target, coord |-> call.coord, value |-> value]
    OBVIOUS
  <2>4. new = [run EXCEPT !.script.lastRead = value, !.reads = Append(@, read)]
    BY <1>1, <1>3, <2>1, <2>2, <2>3 DEF ReadCell
  <2>5. /\ SameBut(new, run) /\ new.reads = Append(run.reads, read)
        /\ new.script = [run.script EXCEPT !.lastRead = value]
    BY <2>4 DEF SameBut, RunFields
  <2>6. SoundScript(run.script) => SoundScript(new.script)
    <3>1. PICK s : s = run.script
      OBVIOUS
    <3>2. PICK s2 : s2 = [s EXCEPT !.lastRead = value]
      OBVIOUS
    <3>3. DOMAIN s = ScriptFields => DOMAIN s2 = DOMAIN s /\ s2.inputs = s.inputs /\ s2.cubes = s.cubes
      BY <3>2 DEF ScriptFields
    <3>4. SoundScript(s) => SoundScript(s2)
      BY <3>3 DEF SoundScript
    <3> QED BY <2>5, <3>1, <3>2, <3>4
  <2>7. ReadingInv(new, Moment)
    <3> SUFFICES ASSUME run.pc = "running" PROVE ReadingInv(new, Moment)
      BY <2>5 DEF SameBut, ReadingInv
    <3>1. ASequence(run.reads)
      BY DEF ReadingInv
    <3>2. <<read>> \in Seq({read}) /\ DOMAIN <<read>> = {1} /\ <<read>>[1] = read
      OBVIOUS
    <3>3. ASequence(<<read>>) /\ Range(<<read>>) = {read}
      BY <3>2, SeqOfItsRange DEF Range
    <3>4. PICK reads : reads = run.reads
      OBVIOUS
    <3>5. Append(reads, read) = reads \o <<read>>
      <4>1. reads \in Seq(Range(reads))
        BY <3>1, <3>4 DEF ASequence
      <4> QED BY <4>1
    <3>6. ASequence(new.reads) /\ Range(new.reads) = Range(reads) \cup {read}
      BY <2>5, <3>1, <3>3, <3>4, <3>5, JoinedIsASeq
    <3>7. read.cube = call.target /\ read.coord = call.coord /\ read.value = value
      BY <2>3
    <3>8. read.cube \in DOMAIN run.views /\ Saw(run.views[read.cube], read)
      BY <1>3, <2>1, <2>2, <3>7 DEF Saw
    <3>9. \A r \in Range(reads) : r.cube \in DOMAIN run.views /\ Saw(run.views[r.cube], r)
      BY <3>4 DEF ReadingInv
    <3>10. \A r \in Range(new.reads) : r.cube \in DOMAIN new.views /\ Saw(new.views[r.cube], r)
      BY <2>5, <3>6, <3>8, <3>9 DEF SameBut
    <3> QED BY <2>5, <3>6, <3>10 DEF SameBut, ReadingInv
  <2> QED BY <1>1, <2>5, <2>6, <2>7
<1> QED BY <1>2, <1>3

\* A call that only stages.
LEMMA StagesInv ==
  ASSUME NEW run, DOMAIN run = RunFields, ReadingInv(run, Moment), NEW s,
         NEW new, new = [run EXCEPT !.script = s]
  PROVE  SameBut(new, run) /\ ReadingInv(new, Moment) /\ new.script = s
<1>1. /\ SameBut(new, run) /\ new.reads = run.reads /\ new.script = s
  BY DEF SameBut, RunFields
<1> QED BY <1>1 DEF SameBut, ReadingInv

LEMMA CopyMembersInv ==
  ASSUME NEW run, DOMAIN run = RunFields, ReadingInv(run, Moment), NEW call
  PROVE  /\ SameBut(CopyMembers(run, call), run) /\ ReadingInv(CopyMembers(run, call), Moment)
         /\ SoundScript(run.script) => SoundScript(CopyMembers(run, call).script)
<1>1. PICK items : items = MembersAsSpecs(call.d, VisibleMembers(run.views[call.target], call.d))
  OBVIOUS
<1>2. PICK s : /\ CopyMembers(run, call) = [run EXCEPT !.script = s]
               /\ s \in {Throw(run.script), StageInto(run.script, "cubes", call.into, "elements", items)}
  BY <1>1 DEF CopyMembers, RunFields
<1>3. SoundScript(run.script) => SoundScript(s)
  BY <1>2, ThrowSound, StagingSound
<1> QED BY <1>2, <1>3, StagesInv

LEMMA CopySharedInv ==
  ASSUME NEW run, DOMAIN run = RunFields, ReadingInv(run, Moment), NEW call
  PROVE  /\ SameBut(CopyShared(run, call), run) /\ ReadingInv(CopyShared(run, call), Moment)
         /\ SoundScript(run.script) => SoundScript(CopyShared(run, call).script)
<1>1. PICK items : items = MembersAsSpecs(call.d, [i \in DOMAIN shared[call.d].dim.elements |->
                                    shared[call.d].dim.elements[i].name])
  BY SMTT(30)
<1>2. PICK s : /\ CopyShared(run, call) = [run EXCEPT !.script = s]
               /\ s \in {Throw(run.script), StageInto(run.script, "cubes", call.into, "elements", items)}
  BY <1>1 DEF CopyShared, RunFields
<1>3. SoundScript(run.script) => SoundScript(s)
  BY <1>2, ThrowSound, StagingSound
<1> QED BY <1>2, <1>3, StagesInv

LEMMA CalledInv ==
  ASSUME NEW run, DOMAIN run = RunFields, ReadingInv(run, Moment), NEW call,
         call.op \in {"read", "copyMembers"} => call.target \in DOMAIN run.views
  PROVE  /\ SameBut(Called(run, call), run) /\ ReadingInv(Called(run, call), Moment)
         /\ (SoundScript(run.script) /\ ACall(call) /\ call.op \notin {"loop", "panic"})
              => SoundScript(Called(run, call).script)
<1>3. CASE call.op = "read"
  <2>1. Called(run, call) = ReadCell(run, call)
    BY <1>3 DEF Called
  <2> QED BY <1>3, <2>1, ReadCellInv
<1>4. CASE call.op = "copyMembers"
  <2>1. Called(run, call) = CopyMembers(run, call)
    BY <1>4 DEF Called
  <2> QED BY <2>1, CopyMembersInv
<1>5. CASE call.op = "copyShared"
  <2>1. Called(run, call) = CopyShared(run, call)
    BY <1>5 DEF Called
  <2> QED BY <2>1, CopySharedInv
<1>6. CASE call.op \notin {"read", "copyMembers", "copyShared"}
  <2>1. Called(run, call) = [run EXCEPT !.script = HostCall(@, call)]
    BY <1>6 DEF Called
  <2>2. PICK s : s = HostCall(run.script, call)
    OBVIOUS
  <2>3. PICK new : new = [run EXCEPT !.script = s]
    OBVIOUS
  <2>4. Called(run, call) = new
    BY <2>1, <2>2, <2>3
  <2>5. SameBut(new, run) /\ ReadingInv(new, Moment) /\ new.script = s
    BY <2>3, StagesInv
  <2>6. (SoundScript(run.script) /\ ACall(call) /\ call.op \notin {"loop", "panic"}) => SoundScript(s)
    BY <1>6, <2>2, HostCallSound
  <2> QED BY <2>4, <2>5, <2>6
<1> QED BY <1>3, <1>4, <1>5, <1>6

LEMMA HostStepInv ==
  ASSUME FlowInv, NEW c \in Requests, HostStep(c)
  PROVE  FlowInv' /\ runs'[c].pc = runs[c].pc /\ runs'[c].answer = runs[c].answer
<1>1. PICK run : run = runs[c]
  OBVIOUS
<1>2. PICK call : call = Head(run.calls)
  OBVIOUS
<1>3. PICK called : called = Called(run, call)
  OBVIOUS
<1>4. PICK new : new = [called EXCEPT !.calls = Tail(@)]
  OBVIOUS
<1>5. /\ run.pc \in {"running", "done"} /\ run.calls # <<>> /\ call.op \notin {"loop", "panic"}
      /\ call.op \in {"read", "copyMembers"} => call.target \in DOMAIN run.views
      /\ To(c, new) /\ Quiet
  BY <1>1, <1>2, <1>3, <1>4 DEF HostStep, Calling, Looks, NextCall, Threaded, Run
<1>6. DOMAIN run = RunFields /\ StagingInv(run) /\ ReadingInv(run, Moment)
  BY <1>1, <1>5 DEF FlowInv, RunInv
<1>7. /\ SameBut(called, run) /\ ReadingInv(called, Moment)
      /\ (SoundScript(run.script) /\ ACall(call)) => SoundScript(called.script)
  BY <1>3, <1>5, <1>6, CalledInv
<1>8. /\ DOMAIN new = RunFields /\ new.pc = run.pc /\ new.answer = run.answer /\ new.calls = Tail(run.calls)
      /\ new.script = called.script /\ new.look = called.look /\ new.views = called.views
      /\ new.reads = called.reads /\ new.user = called.user /\ new.moments = called.moments /\ called.pc = run.pc
  BY <1>4, <1>7 DEF SameBut, RunFields
<1>9. ReadingInv(new, Moment)
  BY <1>7, <1>8 DEF ReadingInv
<1>10. StagingInv(new)
  <2> SUFFICES ASSUME run.pc = "running" PROVE StagingInv(new)
    BY <1>8 DEF StagingInv
  <2>1. SoundScript(run.script) /\ ASequence(run.calls) /\ \A i \in DOMAIN run.calls : ACall(run.calls[i])
    BY <1>6 DEF StagingInv
  <2>2. \A x \in Range(run.calls) : ACall(x)
    BY <2>1 DEF Range
  <2>3. PICK calls : calls = run.calls
    OBVIOUS
  <2>4. ASequence(Tail(calls)) /\ call \in Range(calls) /\ Range(Tail(calls)) \subseteq Range(calls)
    BY <1>2, <1>5, <2>1, <2>3, RestIsASeq
  <2>5. \A i \in DOMAIN Tail(calls) : ACall(Tail(calls)[i])
    <3>1. \A i \in DOMAIN Tail(calls) : Tail(calls)[i] \in Range(Tail(calls))
      BY DEF Range
    <3> QED BY <2>2, <2>3, <2>4, <3>1
  <2>6. SoundScript(new.script)
    BY <1>7, <1>8, <2>1, <2>2, <2>3, <2>4
  <2> QED BY <1>8, <2>3, <2>4, <2>5, <2>6 DEF StagingInv
<1>11. FetchingInv(new) /\ LandingInv(new, RightsNow)
  BY <1>5, <1>8 DEF FetchingInv, LandingInv, Landing
<1>12. RunInv(new, RightsNow, Moment)
  BY <1>8, <1>9, <1>10, <1>11 DEF RunInv
<1>13. runs'[c] = new
  BY <1>5 DEF To, FlowInv
<1> QED BY <1>1, <1>5, <1>8, <1>12, <1>13, QuietInv

\* A plan about to be authorized: all its targets take is asked for.
LEMMA AskingInv ==
  ASSUME NEW run, DOMAIN run = RunFields, run.pc = "authorizing", NEW outcome, SoundOutcome(outcome),
         run.outcome = outcome, run.needs = Needs(outcome), run.targets = Targets(outcome),
         run.could = {RightsNow}
  PROVE  RunInv(run, RightsNow, Moment)
<1>1. FetchingInv(run) /\ StagingInv(run) /\ ReadingInv(run, Moment)
  BY DEF FetchingInv, StagingInv, ReadingInv
<1>2. LandingInv(run, RightsNow)
  BY NeedsCoverTargets DEF LandingInv, Landing
<1> QED BY <1>1, <1>2 DEF RunInv

LEMMA ScriptEndsInv ==
  ASSUME FlowInv, NEW c \in Requests, ScriptEnds(c)
  PROVE  FlowInv' /\ (runs[c].pc = "done" => runs'[c].pc = "done" /\ runs'[c].answer = runs[c].answer)
<1>1. PICK run : run = runs[c]
  OBVIOUS
<1>2. PICK ended : ended = IF Waiting(run) THEN Delivered(run) ELSE run
  OBVIOUS
<1>3. PICK new : new = [ended EXCEPT !.script.status = "over", !.calls = <<>>]
  OBVIOUS
<1>4. run.pc \in {"running", "done"} /\ To(c, new) /\ Quiet
  BY <1>1, <1>2, <1>3 DEF ScriptEnds, Threaded, Run
<1>5. DOMAIN run = RunFields /\ StagingInv(run)
  BY <1>1, <1>4 DEF FlowInv, RunInv
<1>6. CASE run.pc = "done"
  <2>1. ended = run
    BY <1>2, <1>6 DEF Waiting
  <2>2. DOMAIN new = RunFields /\ new.pc = "done" /\ new.answer = run.answer
    BY <1>3, <1>5, <1>6, <2>1 DEF RunFields
  <2>3. RunInv(new, RightsNow, Moment)
    BY <2>2, DoneInv
  <2>4. runs'[c] = new
    BY <1>4 DEF To, FlowInv
  <2> QED BY <1>1, <1>4, <2>2, <2>3, <2>4, QuietInv
<1>7. CASE run.pc = "running"
  <2>1. ended = Delivered(run)
    BY <1>2, <1>7 DEF Waiting
  <2>2. CASE run.script.status = "threw"
    <3>1. ended = [run EXCEPT !.pc = "done", !.answer = "threw"]
      BY <2>1, <2>2 DEF Delivered
    <3>2. DOMAIN new = RunFields /\ new.pc = "done"
      BY <1>3, <1>5, <3>1 DEF RunFields
    <3>3. RunInv(new, RightsNow, Moment)
      BY <3>2, DoneInv
    <3> QED BY <1>1, <1>4, <1>7, <3>3, QuietInv
  <2>3. CASE run.script.status # "threw"
    <3>1. PICK outcome : outcome = OutcomeOf(run.script)
      OBVIOUS
    <3>2. ended = [run EXCEPT !.pc = "authorizing", !.outcome = outcome, !.moments = <<>>,
                      !.could = {RightsNow}, !.needs = Needs(outcome), !.targets = Targets(outcome)]
      BY <2>1, <2>3, <3>1 DEF Delivered
    <3>3. /\ DOMAIN new = RunFields /\ new.pc = "authorizing" /\ new.outcome = outcome
          /\ new.needs = Needs(outcome) /\ new.targets = Targets(outcome) /\ new.could = {RightsNow}
      BY <1>3, <1>5, <3>2 DEF RunFields
    <3>4. SoundOutcome(outcome)
      BY <1>5, <1>7, <3>1, OutcomeSound DEF StagingInv
    <3>5. RunInv(new, RightsNow, Moment)
      BY <3>3, <3>4, AskingInv
    <3> QED BY <1>1, <1>4, <1>7, <3>5, QuietInv
  <2> QED BY <2>2, <2>3
<1> QED BY <1>4, <1>6, <1>7

LEMMA ImportCsvInv ==
  ASSUME FlowInv, NEW c \in Requests, NEW user, NEW cube, NEW rows, NEW columns, NEW valueColumn, NEW fixed,
         AnImport(rows, columns, fixed), ImportCsv(c, user, cube, rows, columns, valueColumn, fixed)
  PROVE  FlowInv'
<1>1. PICK outcome : outcome = PlanImport(cube, rows, columns, valueColumn, fixed)
  OBVIOUS
<1>2. PICK run : run = Begun(user, [inputs |-> <<>>], NoBody)
  OBVIOUS
<1>3. PICK new : new = [run EXCEPT !.pc = "authorizing", !.outcome = outcome, !.script.status = "over",
                          !.could = {RightsNow}, !.needs = Needs(outcome), !.targets = Targets(outcome)]
  OBVIOUS
<1>4. To(c, new) /\ Quiet
  BY <1>1, <1>2, <1>3 DEF ImportCsv
<1>5. DOMAIN run = RunFields
  BY <1>2 DEF Begun, RunFields
<1>6. /\ DOMAIN new = RunFields /\ new.pc = "authorizing" /\ new.outcome = outcome
      /\ new.needs = Needs(outcome) /\ new.targets = Targets(outcome) /\ new.could = {RightsNow}
  BY <1>3, <1>5 DEF RunFields
<1>7. SoundOutcome(outcome)
  BY <1>1, ImportSound
<1>8. RunInv(new, RightsNow, Moment)
  BY <1>6, <1>7, AskingInv
<1> QED BY <1>4, <1>8, QuietInv

-----------------------------------------------------------------------------
(* The authorization, and the apply.                                         *)

\* A run that applies goes on to fewer targets, all of them authorized.
LEMMA MovesOnInv ==
  ASSUME NEW run, NEW new, NEW now, NEW moment, RunInv(run, now, moment),
         run.pc \in {"applying", "growing", "committing"}, new.pc \in {"applying", "growing", "committing"},
         DOMAIN new = RunFields, new.user = run.user, new.could = run.could, new.needs = run.needs,
         new.outcome = run.outcome, ASequence(new.targets), Range(new.targets) \subseteq Range(run.targets),
         new.pc # "applying" => new.targets # <<>> /\ Head(new.targets).to = "cube"
  PROVE  RunInv(new, now, moment)
<1>1. LandingInv(run, now)
  BY DEF RunInv
<1>2. \A need : Had(run, need) => Had(new, need)
  BY DEF Had
<1>3. LandingInv(new, now)
  BY <1>1, <1>2 DEF LandingInv, Landing
<1>4. FetchingInv(new) /\ StagingInv(new) /\ ReadingInv(new, moment)
  BY DEF FetchingInv, StagingInv, ReadingInv
<1> QED BY <1>3, <1>4 DEF RunInv

LEMMA AuthorizeInv ==
  ASSUME FlowInv, NEW c \in Requests, Authorize(c)
  PROVE  FlowInv'
<1>1. PICK run : run = runs[c]
  OBVIOUS
<1>2. run.pc = "authorizing" /\ Quiet
  BY <1>1 DEF Authorize, Run
<1>3. DOMAIN run = RunFields /\ LandingInv(run, RightsNow) /\ RunInv(run, RightsNow, Moment)
  BY <1>1, <1>2 DEF FlowInv, RunInv
<1>4. /\ ASequence(run.needs) /\ ASequence(run.targets) /\ RightsNow \in run.could
      /\ \A target \in Range(run.targets) : \A need \in Claims(run.outcome, target) :
           Had(run, need) \/ need \in Range(run.needs)
  BY <1>2, <1>3 DEF LandingInv, Landing
<1>5. CASE run.needs = <<>>
  <2>1. PICK new : new = [run EXCEPT !.pc = "applying", !.before = Model, !.alone = TRUE]
    OBVIOUS
  <2>2. To(c, new)
    BY <1>1, <1>5, <2>1 DEF Authorize, Run
  <2>3. /\ DOMAIN new = RunFields /\ new.pc = "applying" /\ new.user = run.user /\ new.could = run.could
        /\ new.needs = run.needs /\ new.outcome = run.outcome /\ new.targets = run.targets
    BY <1>3, <2>1 DEF RunFields
  <2>4. Range(run.needs) = {}
    BY <1>5 DEF Range
  <2>5. \A need : Had(run, need) => Had(new, need)
    BY <2>3 DEF Had
  <2>6. LandingInv(new, RightsNow)
    BY <1>4, <2>3, <2>4, <2>5 DEF LandingInv
  <2>7. FetchingInv(new) /\ StagingInv(new) /\ ReadingInv(new, Moment)
    BY <2>3 DEF FetchingInv, StagingInv, ReadingInv
  <2>8. RunInv(new, RightsNow, Moment)
    BY <2>3, <2>6, <2>7 DEF RunInv
  <2> QED BY <1>2, <2>2, <2>8, QuietInv
<1>6. CASE run.needs # <<>> /\ Holds(run.user, Head(run.needs))
  <2>1. PICK new : new = [run EXCEPT !.needs = Tail(@)]
    OBVIOUS
  <2>2. To(c, new)
    BY <1>1, <1>6, <2>1 DEF Authorize, Run
  <2>3. /\ DOMAIN new = RunFields /\ new.pc = "authorizing" /\ new.user = run.user /\ new.could = run.could
        /\ new.needs = Tail(run.needs) /\ new.outcome = run.outcome /\ new.targets = run.targets
    BY <1>2, <1>3, <2>1 DEF RunFields
  <2>4. ASequence(Tail(run.needs)) /\ Range(run.needs) = {Head(run.needs)} \cup Range(Tail(run.needs))
    BY <1>4, <1>6, RestIsASeq
  <2>5. Had(run, Head(run.needs))
    BY <1>4, <1>6 DEF Had, Holds
  <2>6. \A need : Had(run, need) => Had(new, need)
    BY <2>3 DEF Had
  <2>7. LandingInv(new, RightsNow)
    BY <1>4, <2>3, <2>4, <2>5, <2>6 DEF LandingInv
  <2>8. FetchingInv(new) /\ StagingInv(new) /\ ReadingInv(new, Moment)
    BY <2>3 DEF FetchingInv, StagingInv, ReadingInv
  <2>9. RunInv(new, RightsNow, Moment)
    BY <2>3, <2>7, <2>8 DEF RunInv
  <2> QED BY <1>2, <2>2, <2>9, QuietInv
<1>7. CASE run.needs # <<>> /\ ~Holds(run.user, Head(run.needs))
  <2>1. AnswerWith(c, run, "refused")
    BY <1>1, <1>7 DEF Authorize, Run
  <2> QED BY <1>1, <1>2, <2>1, AnsweredInv
<1> QED BY <1>5, <1>6, <1>7

\* The cubes a dimension reaches keep their cells, and no cube comes to be.
AreCubes(all) == \A cube \in DOMAIN all : DOMAIN all[cube] = {"dims", "cells"}

KeepCells(new, all) == DOMAIN new = DOMAIN all /\ \A cube \in DOMAIN all : new[cube].cells = all[cube].cells

LEMMA ReferrersKeepCells ==
  ASSUME NEW all, NEW referrers, Range(referrers) \subseteq DOMAIN all, NEW elements, NEW edges, AreCubes(all)
  PROVE  /\ AreCubes(GrowReferrers(all, referrers, elements, edges).cubes)
         /\ KeepCells(GrowReferrers(all, referrers, elements, edges).cubes, all)
<1> DEFINE grown == [i \in DOMAIN referrers |-> ApplyGrowth(all[referrers[i]].dims, elements, edges)]
           reached == {i \in DOMAIN referrers : \A j \in 1..i : ~grown[j].failed}
           dimsOf(c) == grown[CHOOSE i \in reached : referrers[i] = c].dims
           some == [c \in {referrers[i] : i \in reached} |-> [all[c] EXCEPT !.dims = dimsOf(c)]]
<1> HIDE DEF some
<1>1. PICK new : new = GrowReferrers(all, referrers, elements, edges).cubes
  BY SMTT(30)
<1>2. new = LaidOver(some, all)
  BY ZenonT(40), <1>1 DEF GrowReferrers, some
<1>3. DOMAIN some \subseteq DOMAIN all
  BY DEF Range, some
<1>4. ASSUME NEW c \in DOMAIN some
      PROVE  DOMAIN some[c] = {"dims", "cells"} /\ some[c].cells = all[c].cells
  <2>1. some[c] = [all[c] EXCEPT !.dims = dimsOf(c)]
    BY DEF some
  <2>2. DOMAIN all[c] = {"dims", "cells"}
    BY <1>3 DEF AreCubes
  <2> HIDE DEF dimsOf
  <2> QED BY SMTT(30), <2>1, <2>2
<1>5. AreCubes(new) /\ KeepCells(new, all)
  BY <1>2, <1>3, <1>4 DEF LaidOver, AreCubes, KeepCells
<1> QED BY <1>1, <1>5

\* Only what is written changes.
LEMMA OnlyTheWritten ==
  ASSUME NEW cells, NEW writes, NEW at, ValueAt(cells, at) # ValueAt(WriteCells(cells, writes), at)
  PROVE  \E i \in DOMAIN writes : writes[i].at = at
<1> DEFINE last(x) == Max({i \in DOMAIN writes : writes[i].at = x})
           given == [x \in {writes[i].at : i \in DOMAIN writes} |-> writes[last(x)].value]
           written == LaidOver(given, cells)
           kept == {x \in DOMAIN written : written[x] # "0"}
<1>1. WriteCells(cells, writes) = Restrict(written, kept)
  BY DEF WriteCells
<1> SUFFICES ASSUME ~\E i \in DOMAIN writes : writes[i].at = at PROVE FALSE
  OBVIOUS
<1>2. at \notin DOMAIN given
  OBVIOUS
<1> HIDE DEF given
<1>3. at \in DOMAIN written <=> at \in DOMAIN cells
  BY <1>2 DEF LaidOver
<1>4. at \in DOMAIN cells => written[at] = cells[at]
  BY <1>2 DEF LaidOver
<1> HIDE DEF written
<1>5. WriteCells(cells, writes) = [x \in kept |-> written[x]]
  BY <1>1 DEF Restrict
<1> QED BY <1>3, <1>4, <1>5 DEF ValueAt

\* What a step of c may change, as EffectsAreAuthorized says.
Effects(c) ==
  /\ shared' # shared => Had(runs[c], EditLibrary)
  /\ \A cube \in DOMAIN cubes :
       /\ cubes'[cube].dims # cubes[cube].dims =>
            Had(runs[c], IF Head(runs[c].targets).to = "cube" THEN EditCube(cube) ELSE EditLibrary)
       /\ \A at \in DOMAIN cubes[cube].cells \cup DOMAIN cubes'[cube].cells :
            (ValueAt(cubes[cube].cells, at) # ValueAt(cubes'[cube].cells, at) /\ ~runs'[c].overtaken) =>
              /\ Had(runs[c], WriteCube(cube))
              /\ \A member \in Range(NamesAt(cubes[cube].dims, at)) : Had(runs[c], Reach(member))

LEMMA NoEffect == ASSUME NEW c, UNCHANGED modelVars PROVE Effects(c)
BY DEF Effects, modelVars

\* What a run that applies its first target had.
LEMMA FirstTarget ==
  ASSUME FlowInv, NEW c \in Requests, NEW run, run = runs[c], run.pc \in {"applying", "growing", "committing"},
         run.targets # <<>>
  PROVE  /\ DOMAIN run = RunFields /\ RunInv(run, RightsNow, Moment)
         /\ ASequence(run.targets) /\ ASequence(Tail(run.targets))
         /\ Range(Tail(run.targets)) \subseteq Range(run.targets)
         /\ \A need \in Claims(run.outcome, Head(run.targets)) : Had(run, need)
<1>1. RunInv(run, RightsNow, Moment) /\ DOMAIN run = RunFields /\ LandingInv(run, RightsNow)
  BY DEF FlowInv, RunInv
<1>2. /\ ASequence(run.targets)
      /\ \A target \in Range(run.targets) : \A need \in Claims(run.outcome, target) : Had(run, need)
  BY <1>1 DEF LandingInv, Landing
<1>3. /\ ASequence(Tail(run.targets)) /\ Head(run.targets) \in Range(run.targets)
      /\ Range(run.targets) = {Head(run.targets)} \cup Range(Tail(run.targets))
  BY <1>2, RestIsASeq
<1> QED BY <1>1, <1>2, <1>3

\* A run that gives up.
LEMMA GivesUpInv ==
  ASSUME FlowInv, NEW c \in Requests, runs[c].pc # "idle", NEW new, DOMAIN new = RunFields, new.pc = "done",
         To(c, new), Quiet
  PROVE  FlowInv' /\ Effects(c)
<1>1. RunInv(new, RightsNow, Moment)
  BY DoneInv
<1>2. UNCHANGED modelVars
  BY DEF Quiet
<1> QED BY <1>1, <1>2, QuietInv, NoEffect

\* A commit that fails changes only the run.
LEMMA FaultInv ==
  ASSUME FlowInv, NEW c \in Requests, runs[c].pc # "idle", Fault(c)
  PROVE  FlowInv' /\ Effects(c)
<1>1. PICK run : run = runs[c]
  OBVIOUS
<1>2. PICK new : new = Faulty(run)
  OBVIOUS
<1>3. DOMAIN run = RunFields
  BY <1>1 DEF FlowInv, RunInv
<1>4. DOMAIN new = RunFields /\ new.pc = "done"
  BY <1>2, <1>3 DEF Faulty, Failing, RunFields
<1>5. To(c, new) /\ UNCHANGED modelVars /\ UNCHANGED rightsVars
  BY <1>1, <1>2 DEF Fault, Run
<1>6. RunInv(new, RightsNow, Moment)
  BY <1>4, DoneInv
<1>7. RightsNow' = RightsNow /\ Moment' = Moment /\ (ModelShape' <=> ModelShape)
  BY <1>5 DEF modelVars, rightsVars, RightsNow, Moment, ModelShape
<1>8. DOMAIN runs' = Requests /\ \A r \in Requests : runs'[r] = IF r = c THEN new ELSE runs[r]
  BY <1>5 DEF FlowInv, To
<1>9. \A r \in Requests : RunInv(runs'[r], RightsNow, Moment)
  BY <1>6, <1>8 DEF FlowInv
<1>10. FlowInv'
  BY <1>7, <1>8, <1>9 DEF FlowInv
<1> QED BY <1>5, <1>10, NoEffect

\* A run that changes the model, with what the others see of it.
LEMMA LandsInv ==
  ASSUME FlowInv, NEW c \in Requests, NEW new, Witness(c, new), RunInv(new, RightsNow, Moment), ModelShape'
  PROVE  FlowInv'
<1> DEFINE all == [runs EXCEPT ![c] = new]
<1>1. runs' = Witnessed(all, c)
  BY DEF Witness
<1>2. \A r \in Requests : all[r] = IF r = c THEN new ELSE runs[r]
  BY DEF FlowInv
<1> HIDE DEF all
<1>3. \A r \in Requests : RunInv(all[r], RightsNow, Moment)
  BY <1>2 DEF FlowInv
<1> QED BY <1>1, <1>3, WitnessedInv

LEMMA ApplyDimensionInv ==
  ASSUME FlowInv, NEW c \in Requests, ApplyDimension(c)
  PROVE  FlowInv' /\ Effects(c)
<1>1. PICK run : run = runs[c]
  OBVIOUS
<1>2. PICK d : d = Head(run.targets).name
  OBVIOUS
<1>3. PICK changes : changes = run.outcome.dimensions[d]
  OBVIOUS
<1>4. PICK model : model = Model
  OBVIOUS
<1>5. PICK grown : grown = GrowShared(model, d, changes)
  BY SMTT(30)
<1>6. /\ run.pc = "applying" /\ run.targets # <<>> /\ Head(run.targets).to = "dimension"
      /\ IF d \notin DOMAIN shared THEN To(c, Failing(run)) /\ Quiet
         ELSE IF changes.elements = <<>> /\ changes.edges = <<>> THEN To(c, Next_(run)) /\ Quiet
         ELSE \/ /\ cubes' = grown.model.cubes /\ shared' = grown.model.shared
                 /\ UNCHANGED <<rightsVars, faults, edits>>
                 /\ Witness(c, IF grown.failed THEN Failing(run)
                               ELSE [Next_(run) EXCEPT !.added = @ + Len(changes.elements)])
              \/ Fault(c)
  BY <1>1, <1>2, <1>3, <1>4, <1>5 DEF ApplyDimension, Run
<1>7. /\ DOMAIN run = RunFields /\ RunInv(run, RightsNow, Moment)
      /\ ASequence(Tail(run.targets)) /\ Range(Tail(run.targets)) \subseteq Range(run.targets)
      /\ \A need \in Claims(run.outcome, Head(run.targets)) : Had(run, need)
  BY <1>1, <1>6, FirstTarget
<1>8. Had(run, EditLibrary)
  BY <1>6, <1>7 DEF Claims
<1>9. CASE d \notin DOMAIN shared
  <2>1. PICK new : new = Failing(run)
    OBVIOUS
  <2>2. DOMAIN new = RunFields /\ new.pc = "done"
    BY <1>7, <2>1 DEF Failing, RunFields
  <2> QED BY <1>1, <1>6, <1>9, <2>1, <2>2, GivesUpInv
<1> DEFINE Went(new) == /\ DOMAIN new = RunFields /\ new.pc = "applying" /\ new.user = run.user
                        /\ new.could = run.could /\ new.needs = run.needs /\ new.outcome = run.outcome
                        /\ new.targets = Tail(run.targets)
<1>10. ASSUME NEW new, Went(new) PROVE RunInv(new, RightsNow, Moment)
  BY <1>6, <1>7, <1>10, MovesOnInv
<1>11. CASE d \in DOMAIN shared /\ To(c, Next_(run)) /\ Quiet
  <2>1. PICK new : new = Next_(run)
    OBVIOUS
  <2>2. Went(new)
    BY <1>7, <2>1 DEF Next_, RunFields
  <2>3. RunInv(new, RightsNow, Moment)
    BY <1>10, <2>2
  <2>4. UNCHANGED modelVars
    BY <1>11 DEF Quiet
  <2> QED BY <1>11, <2>1, <2>3, <2>4, QuietInv, NoEffect
<1>12. CASE d \in DOMAIN shared /\ Fault(c)
  BY <1>1, <1>6, <1>12, FaultInv
<1>13. CASE /\ d \in DOMAIN shared
            /\ cubes' = grown.model.cubes /\ shared' = grown.model.shared
            /\ UNCHANGED <<rightsVars, faults, edits>>
            /\ Witness(c, IF grown.failed THEN Failing(run)
                          ELSE [Next_(run) EXCEPT !.added = @ + Len(changes.elements)])
  <2>1. PICK new : new = IF grown.failed THEN Failing(run)
                         ELSE [Next_(run) EXCEPT !.added = @ + Len(changes.elements)]
    OBVIOUS
  <2>4. RunInv(new, RightsNow, Moment)
    <3>1. grown.failed \/ ~grown.failed
      OBVIOUS
    <3>2. ASSUME grown.failed PROVE RunInv(new, RightsNow, Moment)
      <4>1. DOMAIN new = RunFields /\ new.pc = "done"
        BY <1>7, <2>1, <3>2 DEF Failing, RunFields
      <4> QED BY <4>1, DoneInv
    <3>3. ASSUME ~grown.failed PROVE RunInv(new, RightsNow, Moment)
      <4>1. Went(new)
        BY <1>7, <2>1, <3>3 DEF Next_, RunFields
      <4> QED BY <1>10, <4>1
    <3> QED BY <3>1, <3>2, <3>3
  <2>5. PICK all : all = cubes
    OBVIOUS
  <2>6. PICK lib : lib = shared
    OBVIOUS
  <2>7. model.cubes = all /\ model.shared = lib
    BY <1>4, <2>5, <2>6 DEF Model
  <2>8. PICK fanned : fanned = GrowReferrers(all, lib[d].referrers, changes.elements, changes.edges).cubes
    OBVIOUS
  <2>9. PICK one : one = ApplyGrowth(d :> lib[d].dim, changes.elements, changes.edges)
    OBVIOUS
  <2>10. \/ cubes' = all /\ shared' = lib
         \/ cubes' = fanned /\ shared' = [lib EXCEPT ![d].dim = one.dims[d]]
    <3>1. grown = LET f == GrowReferrers(all, lib[d].referrers, changes.elements, changes.edges)
                  IN IF one.failed THEN [failed |-> TRUE, model |-> model]
                     ELSE [failed |-> f.failed,
                           model |-> [cubes |-> f.cubes, shared |-> [lib EXCEPT ![d].dim = one.dims[d]]]]
      BY <1>5, <2>7, <2>9 DEF GrowShared
    <3> QED BY <1>13, <2>7, <2>8, <3>1
  <2>11. /\ \A cube \in DOMAIN all : DOMAIN all[cube] = {"dims", "cells"}
         /\ \A x \in DOMAIN lib : DOMAIN lib[x] = {"dim", "referrers"} /\ Range(lib[x].referrers) \subseteq DOMAIN all
    BY <2>5, <2>6 DEF FlowInv, ModelShape
  <2>12. /\ DOMAIN fanned = DOMAIN all
         /\ \A cube \in DOMAIN all : DOMAIN fanned[cube] = {"dims", "cells"} /\ fanned[cube].cells = all[cube].cells
    <3>1. PICK referrers : referrers = lib[d].referrers
      OBVIOUS
    <3>2. Range(referrers) \subseteq DOMAIN all
      BY <1>13, <2>6, <2>11, <3>1
    <3>3. AreCubes(all)
      BY <2>11 DEF AreCubes
    <3>4. AreCubes(fanned) /\ KeepCells(fanned, all)
      BY <2>8, <3>1, <3>2, <3>3, ReferrersKeepCells
    <3> QED BY <3>4 DEF AreCubes, KeepCells
  <2>13. \A x \in DOMAIN lib : LET new2 == [lib EXCEPT ![d].dim = one.dims[d]]
                               IN DOMAIN new2[x] = {"dim", "referrers"} /\ new2[x].referrers = lib[x].referrers
    BY <2>11
  <2>14. /\ DOMAIN cubes' = DOMAIN all
         /\ \A cube \in DOMAIN all : DOMAIN cubes'[cube] = {"dims", "cells"} /\ cubes'[cube].cells = all[cube].cells
    BY <2>10, <2>11, <2>12
  <2>15. /\ DOMAIN shared' = DOMAIN lib
         /\ \A x \in DOMAIN lib : DOMAIN shared'[x] = {"dim", "referrers"} /\ shared'[x].referrers = lib[x].referrers
    BY <2>10, <2>11, <2>13
  <2>16. ModelShape'
    BY <2>11, <2>14, <2>15 DEF ModelShape
  <2>17. Effects(c)
    <3>1. Head(runs[c].targets).to # "cube"
      BY <1>1, <1>6
    <3>2. Had(runs[c], EditLibrary)
      BY <1>1, <1>8
    <3>3. \A cube \in DOMAIN cubes : cubes'[cube].cells = cubes[cube].cells
      BY <2>5, <2>14
    <3> QED BY <3>1, <3>2, <3>3 DEF Effects
  <2>18. Witness(c, new)
    BY <1>13, <2>1
  <2> QED BY <2>4, <2>16, <2>17, <2>18, LandsInv
<1> QED BY <1>6, <1>9, <1>11, <1>12, <1>13

LEMMA PreviewCubeInv ==
  ASSUME FlowInv, NEW c \in Requests, PreviewCube(c)
  PROVE  FlowInv' /\ Effects(c)
<1>1. PICK run : run = runs[c]
  OBVIOUS
<1>2. PICK cube : cube = Head(run.targets).name
  OBVIOUS
<1>3. PICK plan : plan = Plan(cubes[cube].dims, run.outcome.cubes[cube])
  BY SMTT(30)
<1>4. /\ run.pc = "applying" /\ run.targets # <<>> /\ Head(run.targets).to = "cube"
      /\ To(c, IF cube \notin DOMAIN cubes \/ plan.failed THEN Failing(run)
               ELSE [run EXCEPT !.pc = "growing", !.writes = plan.writes])
      /\ Quiet
  BY <1>1, <1>2, <1>3 DEF PreviewCube, Run
<1>5. /\ DOMAIN run = RunFields /\ RunInv(run, RightsNow, Moment) /\ ASequence(run.targets)
  BY <1>1, <1>4, FirstTarget
<1>6. CASE To(c, Failing(run))
  <2>1. PICK new : new = Failing(run)
    OBVIOUS
  <2>2. DOMAIN new = RunFields /\ new.pc = "done"
    BY <1>5, <2>1 DEF Failing, RunFields
  <2> QED BY <1>1, <1>4, <1>6, <2>1, <2>2, GivesUpInv
<1>7. CASE To(c, [run EXCEPT !.pc = "growing", !.writes = plan.writes])
  <2>1. PICK new : new = [run EXCEPT !.pc = "growing", !.writes = plan.writes]
    OBVIOUS
  <2>2. /\ DOMAIN new = RunFields /\ new.pc = "growing" /\ new.user = run.user
        /\ new.could = run.could /\ new.needs = run.needs /\ new.outcome = run.outcome
        /\ new.targets = run.targets
    BY <1>5, <2>1 DEF RunFields
  <2>3. RunInv(new, RightsNow, Moment)
    BY <1>4, <1>5, <2>2, MovesOnInv
  <2>4. UNCHANGED modelVars
    BY <1>4 DEF Quiet
  <2> QED BY <1>4, <1>7, <2>1, <2>3, <2>4, QuietInv, NoEffect
<1> QED BY <1>4, <1>6, <1>7

LEMMA FinishInv ==
  ASSUME FlowInv, NEW c \in Requests, Finish(c)
  PROVE  FlowInv' /\ Effects(c)
<1>1. runs[c].pc = "applying" /\ AnswerWith(c, runs[c], "ok") /\ Quiet
  BY DEF Finish, Run
<1>2. UNCHANGED modelVars
  BY SMTT(30), <1>1 DEF Quiet
<1> QED BY <1>1, <1>2, AnsweredInv, NoEffect

\* A cube at its own target: what the target takes, by what it is about to do.
LEMMA CubeTarget ==
  ASSUME FlowInv, NEW c \in Requests, NEW run, run = runs[c], run.pc \in {"growing", "committing"},
         NEW cube, cube = Head(run.targets).name
  PROVE  /\ run.targets # <<>> /\ Head(run.targets).to = "cube"
         /\ DOMAIN run = RunFields /\ RunInv(run, RightsNow, Moment)
         /\ ASequence(run.targets) /\ ASequence(Tail(run.targets))
         /\ Range(Tail(run.targets)) \subseteq Range(run.targets)
         /\ (run.outcome.cubes[cube].elements # <<>> \/ run.outcome.cubes[cube].edges # <<>>)
               => Had(run, EditCube(cube))
         /\ \A j \in DOMAIN run.outcome.cubes[cube].cells :
              /\ Had(run, WriteCube(cube))
              /\ \A member \in Range(run.outcome.cubes[cube].cells[j].coord) : Had(run, Reach(member))
<1>1. run.targets # <<>> /\ Head(run.targets).to = "cube"
  BY DEF FlowInv, RunInv, LandingInv, Landing
<1>2. /\ DOMAIN run = RunFields /\ RunInv(run, RightsNow, Moment)
      /\ ASequence(run.targets) /\ ASequence(Tail(run.targets))
      /\ Range(Tail(run.targets)) \subseteq Range(run.targets)
      /\ \A need \in Claims(run.outcome, Head(run.targets)) : Had(run, need)
  BY <1>1, FirstTarget
<1>3. PICK changes : changes = run.outcome.cubes[cube]
  OBVIOUS
<1>4. Claims(run.outcome, Head(run.targets)) =
        {need \in {EditCube(cube)} : changes.elements # <<>> \/ changes.edges # <<>>}
        \cup {need \in {WriteCube(cube)} : changes.cells # <<>>}
        \cup {Reach(m) : m \in UNION {Range(changes.cells[i].coord) : i \in DOMAIN changes.cells}}
  <2>1. PICK target : target = Head(run.targets)
    OBVIOUS
  <2>2. PICK outcome : outcome = run.outcome
    OBVIOUS
  <2>3. target.to # "dimension" /\ target.name = cube /\ outcome.cubes[cube] = changes
    BY <1>1, <1>3, <2>1, <2>2
  <2> QED BY <2>1, <2>2, <2>3 DEF Claims
<1>5. changes.elements # <<>> \/ changes.edges # <<>> => Had(run, EditCube(cube))
  BY <1>2, <1>4
<1>6. ASSUME NEW j \in DOMAIN changes.cells
      PROVE  /\ Had(run, WriteCube(cube))
             /\ \A member \in Range(changes.cells[j].coord) : Had(run, Reach(member))
  <2>1. changes.cells # <<>>
    BY <1>6
  <2>2. Had(run, WriteCube(cube))
    BY <1>2, <1>4, <2>1
  <2>3. \A member \in Range(changes.cells[j].coord) : Reach(member) \in Claims(run.outcome, Head(run.targets))
    BY <1>4
  <2> QED BY <1>2, <2>2, <2>3
<1> QED BY <1>1, <1>2, <1>3, <1>5, <1>6

LEMMA GrowCubeInv ==
  ASSUME FlowInv, NEW c \in Requests, GrowCube(c)
  PROVE  FlowInv' /\ Effects(c)
<1>1. PICK run : run = runs[c]
  OBVIOUS
<1>2. PICK cube : cube = Head(run.targets).name
  OBVIOUS
<1>3. PICK changes : changes = run.outcome.cubes[cube]
  OBVIOUS
<1>4. PICK grown : grown = ApplyGrowth(cubes[cube].dims, changes.elements, changes.edges)
  OBVIOUS
<1>5. PICK added : added = run.added + MemberCount(grown.dims) - MemberCount(cubes[cube].dims)
  BY SMTT(30)
<1>6. /\ run.pc = "growing"
      /\ IF changes.elements = <<>> /\ changes.edges = <<>>
         THEN To(c, [run EXCEPT !.pc = "committing"]) /\ Quiet
         ELSE IF grown.failed THEN To(c, [Failing(run) EXCEPT !.overtaken = TRUE]) /\ Quiet
         ELSE \/ /\ cubes' = [cubes EXCEPT ![cube].dims = grown.dims]
                 /\ UNCHANGED <<shared, rightsVars, faults, edits>>
                 /\ Witness(c, [run EXCEPT !.pc = "committing",
                                 !.added = @ + MemberCount(grown.dims) - MemberCount(cubes[cube].dims)])
              \/ Fault(c)
  BY ZenonT(40), <1>1, <1>2, <1>3, <1>4 DEF GrowCube, Run
<1>7. /\ run.targets # <<>> /\ Head(run.targets).to = "cube"
      /\ DOMAIN run = RunFields /\ RunInv(run, RightsNow, Moment) /\ ASequence(run.targets)
      /\ (changes.elements # <<>> \/ changes.edges # <<>>) => Had(run, EditCube(cube))
  BY <1>1, <1>2, <1>3, <1>6, CubeTarget
<1>8. ASSUME NEW new, DOMAIN new = RunFields, new.pc = "committing", new.user = run.user,
             new.could = run.could, new.needs = run.needs, new.outcome = run.outcome, new.targets = run.targets
      PROVE  RunInv(new, RightsNow, Moment)
  BY <1>6, <1>7, <1>8, MovesOnInv
<1>9. CASE To(c, [run EXCEPT !.pc = "committing"]) /\ Quiet
  <2>1. PICK new : new = [run EXCEPT !.pc = "committing"]
    OBVIOUS
  <2>2. RunInv(new, RightsNow, Moment)
    <3>1. /\ DOMAIN new = RunFields /\ new.pc = "committing" /\ new.user = run.user /\ new.could = run.could
          /\ new.needs = run.needs /\ new.outcome = run.outcome /\ new.targets = run.targets
      BY <1>7, <2>1 DEF RunFields
    <3> QED BY <1>8, <3>1
  <2>3. UNCHANGED modelVars
    BY <1>9 DEF Quiet
  <2> QED BY <1>9, <2>1, <2>2, <2>3, QuietInv, NoEffect
<1>10. CASE To(c, [Failing(run) EXCEPT !.overtaken = TRUE]) /\ Quiet
  <2>1. PICK new : new = [Failing(run) EXCEPT !.overtaken = TRUE]
    OBVIOUS
  <2>2. DOMAIN new = RunFields /\ new.pc = "done"
    BY <1>7, <2>1 DEF Failing, RunFields
  <2> QED BY <1>1, <1>6, <1>10, <2>1, <2>2, GivesUpInv
<1>11. CASE Fault(c)
  BY <1>1, <1>6, <1>11, FaultInv
<1>12. CASE /\ changes.elements # <<>> \/ changes.edges # <<>>
            /\ cubes' = [cubes EXCEPT ![cube].dims = grown.dims]
            /\ UNCHANGED <<shared, rightsVars, faults, edits>>
            /\ Witness(c, [run EXCEPT !.pc = "committing",
                                 !.added = @ + MemberCount(grown.dims) - MemberCount(cubes[cube].dims)])
  <2>1. PICK new : new = [run EXCEPT !.pc = "committing",
                                 !.added = @ + MemberCount(grown.dims) - MemberCount(cubes[cube].dims)]
    OBVIOUS
  <2>2. RunInv(new, RightsNow, Moment)
    <3>1. /\ DOMAIN new = RunFields /\ new.pc = "committing" /\ new.user = run.user /\ new.could = run.could
          /\ new.needs = run.needs /\ new.outcome = run.outcome /\ new.targets = run.targets
      BY <1>7, <2>1 DEF RunFields
    <3> QED BY <1>8, <3>1
  <2>3. PICK all : all = cubes
    OBVIOUS
  <2>4. \A x \in DOMAIN all : DOMAIN all[x] = {"dims", "cells"}
    BY <2>3 DEF FlowInv, ModelShape
  <2>5. PICK dims : dims = grown.dims
    OBVIOUS
  <2>6. cubes' = [all EXCEPT ![cube].dims = dims]
    BY <1>12, <2>3, <2>5
  <2>7. /\ DOMAIN cubes' = DOMAIN all
        /\ \A x \in DOMAIN all : /\ DOMAIN cubes'[x] = {"dims", "cells"} /\ cubes'[x].cells = all[x].cells
                                 /\ x # cube => cubes'[x].dims = all[x].dims
    BY <2>4, <2>6
  <2>8. shared' = shared
    BY <1>12
  <2>9. ModelShape'
    BY <2>3, <2>7, <2>8 DEF FlowInv, ModelShape
  <2>10. Effects(c)
    <3>1. Head(runs[c].targets).to = "cube" /\ Had(runs[c], EditCube(cube))
      BY <1>1, <1>7, <1>12
    <3>2. \A x \in DOMAIN cubes : cubes'[x].cells = cubes[x].cells /\ (x # cube => cubes'[x].dims = cubes[x].dims)
      BY <2>3, <2>7
    <3> QED BY <2>8, <3>1, <3>2 DEF Effects
  <2>11. Witness(c, new)
    BY <1>12, <2>1
  <2> QED BY <2>2, <2>9, <2>10, <2>11, LandsInv
<1> QED BY <1>6, <1>9, <1>10, <1>11, <1>12

LEMMA CommitCellsInv ==
  ASSUME FlowInv, NEW c \in Requests, CommitCells(c)
  PROVE  FlowInv' /\ Effects(c)
<1>1. PICK run : run = runs[c]
  OBVIOUS
<1>2. PICK cube : cube = Head(run.targets).name
  OBVIOUS
<1>3. PICK planned : planned = run.outcome.cubes[cube].cells
  OBVIOUS
<1>4. PICK dims : dims = cubes[cube].dims
  OBVIOUS
<1>5. PICK astray : astray = (\E i \in DOMAIN run.writes :
                  \A j \in DOMAIN planned : ~Lands(dims, run.writes[i], planned[j]))
  OBVIOUS
<1>6. /\ run.pc = "committing"
      /\ IF run.writes = <<>> THEN To(c, Next_(run)) /\ Quiet
         ELSE IF ~BatchTaken(dims, run.writes) THEN To(c, [Failing(run) EXCEPT !.overtaken = TRUE]) /\ Quiet
         ELSE \/ /\ cubes' = [cubes EXCEPT ![cube].cells = WriteCells(@, run.writes)]
                 /\ UNCHANGED <<shared, rightsVars, faults, edits>>
                 /\ Witness(c, [Next_(run) EXCEPT !.written = @ + Len(run.writes),
                                                  !.overtaken = @ \/ astray, !.writes = <<>>])
              \/ Fault(c)
  BY ZenonT(40), <1>1, <1>2, <1>3, <1>4, <1>5 DEF CommitCells, Run
<1>7. /\ DOMAIN run = RunFields /\ RunInv(run, RightsNow, Moment)
      /\ ASequence(Tail(run.targets)) /\ Range(Tail(run.targets)) \subseteq Range(run.targets)
      /\ \A j \in DOMAIN planned :
           /\ Had(run, WriteCube(cube))
           /\ \A member \in Range(planned[j].coord) : Had(run, Reach(member))
  BY ZenonT(40), <1>1, <1>2, <1>3, <1>6, CubeTarget
<1> DEFINE Went(new) == /\ DOMAIN new = RunFields /\ new.pc = "applying" /\ new.user = run.user
                        /\ new.could = run.could /\ new.needs = run.needs /\ new.outcome = run.outcome
                        /\ new.targets = Tail(run.targets)
<1>8. ASSUME NEW new, Went(new) PROVE RunInv(new, RightsNow, Moment)
  BY <1>6, <1>7, <1>8, MovesOnInv
<1>9. CASE To(c, Next_(run)) /\ Quiet
  <2>1. PICK new : new = Next_(run)
    OBVIOUS
  <2>2. Went(new)
    BY <1>7, <2>1 DEF Next_, RunFields
  <2>3. RunInv(new, RightsNow, Moment)
    BY <1>8, <2>2
  <2>4. UNCHANGED modelVars
    BY <1>9 DEF Quiet
  <2> QED BY <1>9, <2>1, <2>3, <2>4, QuietInv, NoEffect
<1>10. CASE To(c, [Failing(run) EXCEPT !.overtaken = TRUE]) /\ Quiet
  <2>1. PICK new : new = [Failing(run) EXCEPT !.overtaken = TRUE]
    OBVIOUS
  <2>2. DOMAIN new = RunFields /\ new.pc = "done"
    BY <1>7, <2>1 DEF Failing, RunFields
  <2> QED BY <1>1, <1>6, <1>10, <2>1, <2>2, GivesUpInv
<1>11. CASE Fault(c)
  BY <1>1, <1>6, <1>11, FaultInv
<1>12. CASE /\ cubes' = [cubes EXCEPT ![cube].cells = WriteCells(@, run.writes)]
            /\ UNCHANGED <<shared, rightsVars, faults, edits>>
            /\ Witness(c, [Next_(run) EXCEPT !.written = @ + Len(run.writes),
                                             !.overtaken = @ \/ astray, !.writes = <<>>])
  <2>1. PICK overtaken : overtaken = (run.overtaken \/ astray)
    OBVIOUS
  <2>2. PICK new : new = [Next_(run) EXCEPT !.written = @ + Len(run.writes),
                                            !.overtaken = overtaken, !.writes = <<>>]
    OBVIOUS
  <2>3. Witness(c, new)
    <3>1. Next_(run).overtaken = run.overtaken
      BY <1>7 DEF Next_, RunFields
    <3> QED BY <1>12, <2>1, <2>2, <3>1
  <2>4. Went(new) /\ new.overtaken = overtaken
    BY <1>7, <2>2 DEF Next_, RunFields
  <2>5. RunInv(new, RightsNow, Moment)
    BY <1>8, <2>4
  <2>6. PICK all : all = cubes
    OBVIOUS
  <2>7. \A x \in DOMAIN all : DOMAIN all[x] = {"dims", "cells"}
    BY <2>6 DEF FlowInv, ModelShape
  <2>8. PICK written : written = WriteCells(all[cube].cells, run.writes)
    OBVIOUS
  <2>9. cubes' = [all EXCEPT ![cube].cells = written]
    BY <1>12, <2>6, <2>8
  <2>10. /\ DOMAIN cubes' = DOMAIN all
         /\ \A x \in DOMAIN all : /\ DOMAIN cubes'[x] = {"dims", "cells"} /\ cubes'[x].dims = all[x].dims
                                  /\ x # cube => cubes'[x].cells = all[x].cells
                                  /\ x = cube => cubes'[x].cells = written
    BY <2>7, <2>9
  <2>11. shared' = shared
    BY <1>12
  <2>12. ModelShape'
    BY <2>6, <2>10, <2>11 DEF FlowInv, ModelShape
  <2>13. runs'[c].overtaken = overtaken
    <3>1. PICK run2 : run2 = runs'[c]
      OBVIOUS
    <3>2. PICK seen : seen = [runs EXCEPT ![c] = new]
      OBVIOUS
    <3>3. runs' = Witnessed(seen, c) /\ seen[c] = new
      BY <2>3, <3>2 DEF Witness, FlowInv
    <3>4. new.pc # "idle" /\ "overtaken" \in DOMAIN new
      BY <2>4 DEF RunFields
    <3>5. run2.overtaken = new.overtaken
      BY <3>1, <3>3, <3>4 DEF Witnessed
    <3> QED BY <2>4, <3>1, <3>5
  <2>14. ASSUME NEW at, ValueAt(all[cube].cells, at) # ValueAt(written, at), ~overtaken
         PROVE  /\ Had(run, WriteCube(cube))
                /\ \A member \in Range(NamesAt(dims, at)) : Had(run, Reach(member))
    <3>1. ~astray
      BY <2>1, <2>14
    <3>2. PICK i \in DOMAIN run.writes : run.writes[i].at = at
      <4>1. PICK old : old = all[cube].cells
        OBVIOUS
      <4>2. PICK writes : writes = run.writes
        OBVIOUS
      <4>3. ValueAt(old, at) # ValueAt(WriteCells(old, writes), at)
        BY <2>8, <2>14, <4>1, <4>2
      <4>4. \E i \in DOMAIN writes : writes[i].at = at
        BY ONLY <4>3, OnlyTheWritten
      <4> QED BY <4>2, <4>4
    <3>3. PICK j \in DOMAIN planned : Lands(dims, run.writes[i], planned[j])
      BY <1>5, <3>1
    <3>4. NamesAt(dims, at) = planned[j].coord
      BY <3>2, <3>3 DEF Lands
    <3> QED BY <1>7, <3>4
  <2>15. Effects(c)
    <3>1. \A x \in DOMAIN cubes : /\ cubes'[x].dims = cubes[x].dims
                                  /\ x # cube => cubes'[x].cells = cubes[x].cells
                                  /\ x = cube => cubes'[x].cells = written
      BY <2>6, <2>10
    <3>2. ASSUME NEW x \in DOMAIN cubes, NEW at,
                 ValueAt(cubes[x].cells, at) # ValueAt(cubes'[x].cells, at), ~runs'[c].overtaken
          PROVE  /\ Had(runs[c], WriteCube(x))
                 /\ \A member \in Range(NamesAt(cubes[x].dims, at)) : Had(runs[c], Reach(member))
      <4>1. x = cube
        BY <3>1, <3>2
      <4>2. ValueAt(all[cube].cells, at) # ValueAt(written, at) /\ ~overtaken
        BY <2>6, <2>13, <3>1, <3>2, <4>1
      <4>3. /\ Had(run, WriteCube(cube))
            /\ \A member \in Range(NamesAt(dims, at)) : Had(run, Reach(member))
        BY <2>14, <4>2
      <4> QED BY <1>1, <1>4, <4>1, <4>3
    <3> QED BY <2>11, <3>1, <3>2 DEF Effects
  <2> QED BY <2>3, <2>5, <2>12, <2>15, LandsInv
<1> QED BY <1>6, <1>9, <1>10, <1>11, <1>12

-----------------------------------------------------------------------------
(* Every step keeps the invariant, and what one request does leaves the      *)
(* others where they are.                                                    *)

\* A step of the request a, as FlowNext has it.
StepOf(a) ==
  \/ \E user, name, body : ABody(body) /\ HasScript(name) /\ RunFlow(a, user, name, body)
  \/ \E name : HasScript(name) /\ RunScheduled(a, name)
  \/ \E user, cube, rows, columns, valueColumn, fixed :
       AnImport(rows, columns, fixed) /\ ImportCsv(a, user, cube, rows, columns, valueColumn, fixed)
  \/ RunStep(a) \/ TimeOut(a)

OthersStep ==
  \/ \E cube, coord, value : WriteBatch(cube, coord, value)
  \/ \E cube, el : DefineElement(cube, el)
  \/ \E user, need : ChangeGrants(user, need)
  \/ \E user, member : ChangeMask(user, member)

LEMMA TimedOutInv ==
  ASSUME FlowInv, NEW c \in Requests, TimeOut(c)
  PROVE  FlowInv'
<1>1. runs[c].pc = "running" /\ AnswerWith(c, runs[c], "timed out") /\ Quiet
  BY DEF TimeOut, Run
<1> QED BY <1>1, AnsweredInv

LEMMA PanicInv ==
  ASSUME FlowInv, NEW c \in Requests, Panic(c)
  PROVE  FlowInv'
<1>1. runs[c].pc = "running" /\ AnswerWith(c, runs[c], "failed") /\ Quiet
  BY DEF Panic, Run
<1> QED BY <1>1, AnsweredInv

LEMMA StepOfInv ==
  ASSUME FlowInv, NEW c \in Requests, StepOf(c)
  PROVE  FlowInv'
<1>1. CASE \E user, name, body : ABody(body) /\ HasScript(name) /\ RunFlow(c, user, name, body)
  BY <1>1, RunFlowInv
<1>2. CASE \E name : HasScript(name) /\ RunScheduled(c, name)
  BY <1>2, RunScheduledInv
<1>3. CASE \E user, cube, rows, columns, valueColumn, fixed :
             AnImport(rows, columns, fixed) /\ ImportCsv(c, user, cube, rows, columns, valueColumn, fixed)
  BY <1>3, ImportCsvInv
<1>4. CASE Fetch(c)
  BY <1>4, FetchInv
<1>5. CASE StartScript(c)
  BY <1>5, StartScriptInv
<1>6. CASE HostStep(c)
  BY <1>6, HostStepInv
<1>7. CASE ScriptEnds(c)
  BY <1>7, ScriptEndsInv
<1>8. CASE Panic(c)
  BY <1>8, PanicInv
<1>9. CASE Authorize(c)
  BY <1>9, AuthorizeInv
<1>10. CASE ApplyDimension(c)
  BY <1>10, ApplyDimensionInv
<1>11. CASE PreviewCube(c)
  BY <1>11, PreviewCubeInv
<1>12. CASE GrowCube(c)
  BY <1>12, GrowCubeInv
<1>13. CASE CommitCells(c)
  BY <1>13, CommitCellsInv
<1>14. CASE Finish(c)
  BY <1>14, FinishInv
<1>15. CASE TimeOut(c)
  BY <1>15, TimedOutInv
<1>16. CASE LookUp(c) \/ PinCube(c) \/ CaptureMask(c)
  BY <1>16, LooksInv
<1> QED BY <1>1, <1>2, <1>3, <1>4, <1>5, <1>6, <1>7, <1>8, <1>9, <1>10, <1>11, <1>12, <1>13, <1>14, <1>15, <1>16
        DEF StepOf, RunStep

\* What others change keeps cubes cubes, and is seen by every run.
LEMMA OthersStepInv ==
  ASSUME FlowInv, OthersStep
  PROVE  FlowInv' /\ runs' = Witnessed(runs, Others)
<1>1. runs' = Witnessed(runs, Others)
  BY DEF OthersStep, WriteBatch, DefineElement, ChangeGrants, ChangeMask
<1>2. shared' = shared
  BY DEF OthersStep, WriteBatch, DefineElement, ChangeGrants, ChangeMask, modelVars
<1>3. DOMAIN cubes' = DOMAIN cubes /\ AreCubes(cubes')
  <2>1. PICK all : all = cubes
    OBVIOUS
  <2>2. AreCubes(all)
    BY <2>1 DEF FlowInv, ModelShape, AreCubes
  <2>3. CASE UNCHANGED cubes
    BY <2>1, <2>2, <2>3
  <2>4. ASSUME NEW cube, NEW cells, cubes' = [all EXCEPT ![cube].cells = cells]
        PROVE  DOMAIN cubes' = DOMAIN all /\ AreCubes(cubes')
    BY <2>2, <2>4 DEF AreCubes
  <2>5. ASSUME NEW cube, NEW dims, cubes' = [all EXCEPT ![cube].dims = dims]
        PROVE  DOMAIN cubes' = DOMAIN all /\ AreCubes(cubes')
    BY <2>2, <2>5 DEF AreCubes
  <2>6. \/ UNCHANGED cubes
        \/ \E cube, cells : cubes' = [all EXCEPT ![cube].cells = cells]
        \/ \E cube, dims : cubes' = [all EXCEPT ![cube].dims = dims]
    <3>1. ASSUME NEW cube, NEW coord, NEW value, WriteBatch(cube, coord, value)
          PROVE  \E cells : cubes' = [all EXCEPT ![cube].cells = cells]
      <4>1. PICK cells : cells = WriteCells(cubes[cube].cells,
                                  <<[at |-> At(cubes[cube].dims, coord), value |-> value]>>)
        OBVIOUS
      <4>2. cubes' = [all EXCEPT ![cube].cells = cells]
        BY <2>1, <3>1, <4>1 DEF WriteBatch
      <4> QED BY <4>2
    <3>2. ASSUME NEW cube, NEW el, DefineElement(cube, el)
          PROVE  \E dims : cubes' = [all EXCEPT ![cube].dims = dims]
      <4>1. PICK grown : grown = ApplyGrowth(cubes[cube].dims, <<el>>, <<>>)
        OBVIOUS
      <4>2. cubes' = [all EXCEPT ![cube].dims = grown.dims]
        BY <2>1, <3>2, <4>1 DEF DefineElement
      <4> QED BY <4>2
    <3>3. ASSUME NEW user, NEW need, ChangeGrants(user, need) PROVE UNCHANGED cubes
      BY <3>3 DEF ChangeGrants, modelVars
    <3>4. ASSUME NEW user, NEW member, ChangeMask(user, member) PROVE UNCHANGED cubes
      BY <3>4 DEF ChangeMask, modelVars
    <3> QED BY <3>1, <3>2, <3>3, <3>4 DEF OthersStep
  <2> QED BY <2>1, <2>3, <2>4, <2>5, <2>6
<1>4. ModelShape'
  BY <1>2, <1>3 DEF FlowInv, ModelShape, AreCubes
<1>5. \A r \in Requests : RunInv(runs[r], RightsNow, Moment)
  BY DEF FlowInv
<1> QED BY <1>1, <1>4, <1>5, WitnessedInv

\* A run that others move past keeps its place and its answer.
Keeps(r) ==
  runs'[r].pc = runs[r].pc /\ runs'[r].targets = runs[r].targets /\ runs'[r].answer = runs[r].answer

LEMMA SeenKeeps ==
  ASSUME FlowInv, NEW all, NEW c, runs' = Witnessed(all, c), NEW r \in Requests, all[r] = runs[r]
  PROVE  runs[r].pc # "idle" => Keeps(r)
<1> SUFFICES ASSUME runs[r].pc # "idle" PROVE Keeps(r)
  OBVIOUS
<1>1. PICK run : run = runs[r]
  OBVIOUS
<1>2. DOMAIN run = RunFields
  BY <1>1 DEF FlowInv, RunInv
<1>3. PICK new : new = runs'[r]
  OBVIOUS
<1>4. PICK alone, moments, could :
        new = [run EXCEPT !.alone = alone, !.moments = moments, !.could = could]
  BY <1>1, <1>3 DEF Witnessed
<1>5. new.pc = run.pc /\ new.targets = run.targets /\ new.answer = run.answer
  BY <1>2, <1>4 DEF RunFields
<1> QED BY <1>1, <1>3, <1>5 DEF Keeps

Acts(c) == \E new : To(c, new) \/ Witness(c, new)

LEMMA ActsKeeps ==
  ASSUME FlowInv, NEW c \in Requests, Acts(c), NEW r \in Requests, r # c, runs[r].pc # "idle"
  PROVE  Keeps(r)
<1>1. PICK new : To(c, new) \/ Witness(c, new)
  BY DEF Acts
<1>2. CASE To(c, new)
  <2>1. runs'[r] = runs[r]
    BY <1>2 DEF To, FlowInv
  <2> QED BY <2>1 DEF Keeps
<1>3. CASE Witness(c, new)
  <2>1. PICK all : all = [runs EXCEPT ![c] = new]
    OBVIOUS
  <2>2. runs' = Witnessed(all, c) /\ all[r] = runs[r]
    BY <1>3, <2>1 DEF Witness, FlowInv
  <2> QED BY <2>2, SeenKeeps
<1> QED BY <1>1, <1>2, <1>3

LEMMA StepOfActs ==
  ASSUME NEW c \in Requests, StepOf(c)
  PROVE  Acts(c)
<1>1. ASSUME NEW new, To(c, new) PROVE Acts(c)
  BY <1>1 DEF Acts
<1>2. ASSUME NEW new, Witness(c, new) PROVE Acts(c)
  BY <1>2 DEF Acts
<1>3. ASSUME NEW run, NEW answer, AnswerWith(c, run, answer) PROVE Acts(c)
  BY <1>1, <1>3 DEF AnswerWith
<1>4. ASSUME Fault(c) PROVE Acts(c)
  BY <1>1, <1>4 DEF Fault
<1>5. CASE \E user, name, body : ABody(body) /\ HasScript(name) /\ RunFlow(c, user, name, body)
  BY <1>1, <1>5 DEF RunFlow
<1>6. CASE \E name : HasScript(name) /\ RunScheduled(c, name)
  BY <1>1, <1>6 DEF RunScheduled
<1>7. CASE \E user, cube, rows, columns, valueColumn, fixed :
             AnImport(rows, columns, fixed) /\ ImportCsv(c, user, cube, rows, columns, valueColumn, fixed)
  BY <1>1, <1>7 DEF ImportCsv
<1>8. CASE Fetch(c)
  BY <1>1, <1>3, <1>8 DEF Fetch
<1>9. CASE StartScript(c)
  BY <1>1, <1>9 DEF StartScript
<1>10. CASE HostStep(c)
  BY <1>1, <1>10 DEF HostStep
<1>11. CASE ScriptEnds(c)
  BY <1>1, <1>11 DEF ScriptEnds
<1>12. CASE Panic(c)
  BY <1>3, <1>12 DEF Panic
<1>13. CASE Authorize(c)
  BY SMTT(30), <1>1, <1>3, <1>13 DEF Authorize
<1>14. CASE ApplyDimension(c)
  BY SMTT(30), <1>1, <1>2, <1>4, <1>14 DEF ApplyDimension
<1>15. CASE PreviewCube(c)
  BY SMTT(30), <1>1, <1>15 DEF PreviewCube
<1>16. CASE GrowCube(c)
  BY ZenonT(40), <1>1, <1>2, <1>4, <1>16 DEF GrowCube
<1>17. CASE CommitCells(c)
  BY <1>1, <1>2, <1>4, <1>17 DEF CommitCells
<1>18. CASE Finish(c)
  BY <1>3, <1>18 DEF Finish
<1>19. CASE TimeOut(c)
  BY <1>3, <1>19 DEF TimeOut
<1>20. CASE LookUp(c) \/ PinCube(c) \/ CaptureMask(c)
  BY <1>1, <1>20 DEF LookUp, PinCube, CaptureMask
<1> QED BY <1>5, <1>6, <1>7, <1>8, <1>9, <1>10, <1>11, <1>12, <1>13, <1>14, <1>15, <1>16, <1>17, <1>18, <1>19, <1>20
        DEF StepOf, RunStep

-----------------------------------------------------------------------------
(* The theorems.                                                             *)

LEMMA FlowInitInv == FlowInit => FlowInv
<1> SUFFICES ASSUME FlowInit PROVE FlowInv
  OBVIOUS
<1>1. \A c \in Requests : runs[c].pc = "idle"
  BY DEF FlowInit, Idle
<1>2. DOMAIN runs = Requests
  BY DEF FlowInit
<1>3. ModelShape
  BY DEF FlowInit, ModelShape
<1> QED BY <1>1, <1>2, <1>3 DEF FlowInv, RunInv

LEMMA FlowNextInv ==
  ASSUME FlowInv, [FlowNext]_flowVars
  PROVE  FlowInv'
<1>1. CASE UNCHANGED flowVars
  <2>1. UNCHANGED <<cubes, shared, rights, denied, runs>>
    BY <1>1 DEF flowVars, modelVars, rightsVars
  <2>2. RightsNow' = RightsNow /\ Moment' = Moment /\ (ModelShape' <=> ModelShape)
    BY <2>1 DEF RightsNow, Moment, ModelShape
  <2> QED BY <2>1, <2>2 DEF FlowInv
<1>2. CASE FlowNext
  <2>1. CASE \E c \in Requests : StepOf(c)
    BY <2>1, StepOfInv
  <2>2. CASE OthersStep
    BY <2>2, OthersStepInv
  <2> QED BY <1>2, <2>1, <2>2 DEF FlowNext, StepOf, OthersStep
<1> QED BY <1>1, <1>2

\* Every run keeps to what its scripts, rows and plans are, and to what its
\* runner was allowed.
THEOREM FlowInvariance == FlowSpec => []FlowInv
<1>1. FlowInit => FlowInv
  BY FlowInitInv
<1>2. FlowInv /\ [FlowNext]_flowVars => FlowInv'
  BY FlowNextInv
<1> QED BY <1>1, <1>2, PTL DEF FlowSpec

\* flow_reader.rs: whatever others write, revoke or mask between its calls and
\* within them, all a run has read of a cube was there at one moment, its runner
\* could read the cube then or before, and see the members then or later.
THEOREM ReadsAreOfOneMoment == FlowSpec => []ReadsAgree
<1>1. FlowInv => ReadsAgree
  <2> SUFFICES ASSUME FlowInv, NEW c \in Requests, runs[c].pc = "running", NEW cube \in DOMAIN cubes,
                      {r \in ToSet(runs[c].reads) : r.cube = cube} # {}
               PROVE  \E i, j, k \in DOMAIN runs[c].moments :
                        /\ i <= j /\ j <= k
                        /\ HoldsIn(runs[c].moments[i], runs[c].user, ReadCube(cube))
                        /\ \A r \in {r \in ToSet(runs[c].reads) : r.cube = cube} :
                             /\ Addressed(runs[c].moments[j].cubes[cube].dims, r.coord)
                             /\ ValueAt(runs[c].moments[j].cubes[cube].cells,
                                        At(runs[c].moments[j].cubes[cube].dims, r.coord)) = r.value
                             /\ \A member \in Range(r.coord) :
                                  HoldsIn(runs[c].moments[k], runs[c].user, Reach(member))
    BY DEF ReadsAgree, Run
  <2>1. PICK run : run = runs[c]
    OBVIOUS
  <2>2. ReadingInv(run, Moment) /\ run.pc = "running"
    BY <2>1 DEF FlowInv, RunInv
  <2>3. \A r \in ToSet(run.reads) : r.cube \in DOMAIN run.views /\ Saw(run.views[r.cube], r)
    BY <2>2 DEF ReadingInv, ToSet, Range
  <2>4. PICK moments, view : moments = run.moments /\ view = run.views[cube]
    OBVIOUS
  <2>5. Viewed(moments, run.user, cube, view)
    BY <2>1, <2>2, <2>3, <2>4 DEF ReadingInv
  <2>6. PICK i, j, k \in DOMAIN moments :
          /\ i <= j /\ j <= k
          /\ HoldsIn(moments[i], run.user, ReadCube(cube))
          /\ view = View(moments[j].cubes[cube], IF run.user \in Admins THEN {} ELSE moments[k].denied[run.user])
    BY <2>5 DEF Viewed
  <2>7. /\ view.dims = moments[j].cubes[cube].dims /\ view.cells = moments[j].cubes[cube].cells
        /\ view.masked = IF run.user \in Admins THEN {} ELSE moments[k].denied[run.user]
    BY <2>6 DEF View
  <2>8. ASSUME NEW r \in ToSet(run.reads), r.cube = cube
        PROVE  /\ Addressed(moments[j].cubes[cube].dims, r.coord)
               /\ ValueAt(moments[j].cubes[cube].cells, At(moments[j].cubes[cube].dims, r.coord)) = r.value
               /\ \A member \in Range(r.coord) : HoldsIn(moments[k], run.user, Reach(member))
    <3>1. Saw(view, r)
      BY <2>3, <2>4, <2>8
    <3>2. Addressed(view.dims, r.coord) /\ \A d \in DOMAIN r.coord : r.coord[d] \notin view.masked
      BY <3>1 DEF Saw, Readable1
    <3>3. ValueAt(view.cells, At(view.dims, r.coord)) = r.value
      BY <3>1 DEF Saw
    <3>4. ASSUME NEW member \in Range(r.coord) PROVE HoldsIn(moments[k], run.user, Reach(member))
      <4>1. member \notin view.masked
        BY <3>2 DEF Range
      <4> QED BY <2>7, <4>1 DEF HoldsIn, Reach
    <3> QED BY <2>7, <3>2, <3>3, <3>4
  <2> QED BY <2>1, <2>4, <2>6, <2>8
<1> QED BY <1>1, FlowInvariance, PTL

\* What a step of a run can be, by where the run is.
Early(c) == runs[c].pc \in {"idle", "fetching", "running", "authorizing"}
CallStep(c) == LookUp(c) \/ PinCube(c) \/ CaptureMask(c) \/ HostStep(c)
Applies(c) == ApplyDimension(c) \/ PreviewCube(c) \/ GrowCube(c) \/ CommitCells(c) \/ Finish(c)

LEMMA StepsByPlace ==
  ASSUME NEW c \in Requests, StepOf(c)
  PROVE  \/ Early(c)
         \/ runs[c].pc = "done" /\ (CallStep(c) \/ ScriptEnds(c))
         \/ runs[c].pc \in {"applying", "growing", "committing"} /\ Applies(c)
<1>1. ASSUME NEW user, NEW name, NEW body, RunFlow(c, user, name, body) PROVE Early(c)
  BY <1>1 DEF RunFlow, Run, Early
<1>2. ASSUME NEW name, RunScheduled(c, name) PROVE Early(c)
  BY <1>2 DEF RunScheduled, Run, Early
<1>3. ASSUME NEW user, NEW cube, NEW rows, NEW columns, NEW valueColumn, NEW fixed,
             ImportCsv(c, user, cube, rows, columns, valueColumn, fixed)
      PROVE  Early(c)
  BY <1>3 DEF ImportCsv, Run, Early
<1>4. Fetch(c) \/ StartScript(c) => Early(c)
  BY DEF Fetch, StartScript, Run, Early
<1>5. Panic(c) \/ TimeOut(c) => Early(c)
  BY DEF Panic, TimeOut, Run, Early
<1>6. Authorize(c) => Early(c)
  BY DEF Authorize, Run, Early
<1>7. CallStep(c) => runs[c].pc \in {"running", "done"}
  BY DEF CallStep, LookUp, PinCube, CaptureMask, HostStep, Calling, Threaded, Run
<1>8. ScriptEnds(c) => runs[c].pc \in {"running", "done"}
  BY ZenonT(40) DEF ScriptEnds, Threaded, Run
<1>9. ApplyDimension(c) \/ PreviewCube(c) => runs[c].pc = "applying"
  BY DEF ApplyDimension, PreviewCube, Run
<1>10. Finish(c) => runs[c].pc = "applying"
  BY SMTT(30) DEF Finish, Run
<1>11. GrowCube(c) => runs[c].pc = "growing"
  BY ZenonT(40) DEF GrowCube, Run
<1>12. CommitCells(c) => runs[c].pc = "committing"
  BY DEF CommitCells, Run
<1>13. CallStep(c) \/ ScriptEnds(c) => Early(c) \/ runs[c].pc = "done"
  BY <1>7, <1>8 DEF Early
<1>14. Applies(c) => runs[c].pc \in {"applying", "growing", "committing"}
  BY <1>9, <1>10, <1>11, <1>12 DEF Applies
<1>15. \/ \E user, name, body : RunFlow(c, user, name, body)
       \/ \E name : RunScheduled(c, name)
       \/ \E user, cube, rows, columns, valueColumn, fixed :
            ImportCsv(c, user, cube, rows, columns, valueColumn, fixed)
       \/ RunStep(c) \/ TimeOut(c)
  BY DEF StepOf
<1>16. RunStep(c) => \/ Fetch(c) \/ StartScript(c) \/ CallStep(c) \/ ScriptEnds(c) \/ Panic(c) \/ Authorize(c)
                    \/ Applies(c)
  BY DEF RunStep, CallStep, Applies
<1> QED BY <1>1, <1>2, <1>3, <1>4, <1>5, <1>6, <1>13, <1>14, <1>15, <1>16

LEMMA EffectsOfAStep ==
  ASSUME FlowInv, FlowNext, NEW c \in Requests, Does(c)
  PROVE  Effects(c)
<1>1. runs[c].pc \in {"applying", "growing", "committing"}
  BY DEF Does
<1>2. ~Keeps(c)
  BY DEF Does, Keeps
<1>3. ~OthersStep
  <2> SUFFICES ASSUME OthersStep PROVE Keeps(c)
    BY <1>2
  <2>1. runs' = Witnessed(runs, Others)
    BY OthersStepInv
  <2> QED BY <1>1, <2>1, SeenKeeps
<1>4. PICK a \in Requests : StepOf(a)
  BY <1>3 DEF FlowNext, StepOf, OthersStep
<1>5. a = c
  <2> SUFFICES ASSUME a # c PROVE Keeps(c)
    BY <1>2
  <2>1. Acts(a)
    BY <1>4, StepOfActs
  <2> QED BY <1>1, <2>1, ActsKeeps
<1>6. Applies(c)
  BY <1>1, <1>4, <1>5, StepsByPlace DEF Early
<1> QED BY <1>6, ApplyDimensionInv, PreviewCubeInv, GrowCubeInv, CommitCellsInv, FinishInv
        DEF Applies

LEMMA AnswersOfAStep ==
  ASSUME FlowInv, FlowNext, NEW c \in Requests, runs[c].pc = "done"
  PROVE  runs'[c].pc = "done" /\ runs'[c].answer = runs[c].answer
<1> SUFFICES ASSUME ~Keeps(c) PROVE runs'[c].pc = "done" /\ runs'[c].answer = runs[c].answer
  BY DEF Keeps
<1>1. ~OthersStep
  <2> SUFFICES ASSUME OthersStep PROVE Keeps(c)
    OBVIOUS
  <2>1. runs' = Witnessed(runs, Others)
    BY OthersStepInv
  <2> QED BY <2>1, SeenKeeps
<1>2. PICK a \in Requests : StepOf(a)
  BY <1>1 DEF FlowNext, StepOf, OthersStep
<1>3. a = c
  <2> SUFFICES ASSUME a # c PROVE Keeps(c)
    OBVIOUS
  <2>1. Acts(a)
    BY <1>2, StepOfActs
  <2> QED BY <2>1, ActsKeeps
<1>4. CallStep(c) \/ ScriptEnds(c)
  BY <1>2, <1>3, StepsByPlace DEF Early
<1> QED BY <1>4, LooksInv, HostStepInv, ScriptEndsInv DEF CallStep

\* authorize_outcome and run_with_deadline: whatever happens between a run's
\* steps, what it changes its runner was allowed to change while it was
\* authorized, and a request that was answered changes neither answer nor model.
THEOREM RunsLandAsAuthorized == FlowSpec => OnlyAuthorizedOutcomesLand
<1>1. FlowInv /\ [FlowNext]_flowVars =>
        [\A c \in Requests : Does(c) =>
          /\ shared' # shared => Had(runs[c], EditLibrary)
          /\ \A cube \in DOMAIN cubes :
            /\ cubes'[cube].dims # cubes[cube].dims =>
                 Had(runs[c], IF Head(runs[c].targets).to = "cube" THEN EditCube(cube) ELSE EditLibrary)
            /\ \A at \in DOMAIN cubes[cube].cells \cup DOMAIN cubes'[cube].cells :
                 (ValueAt(cubes[cube].cells, at) # ValueAt(cubes'[cube].cells, at) /\ ~runs'[c].overtaken) =>
                   /\ Had(runs[c], WriteCube(cube))
                   /\ \A member \in Range(NamesAt(cubes[cube].dims, at)) : Had(runs[c], Reach(member))]_flowVars
  BY EffectsOfAStep DEF Effects
<1>2. FlowInv /\ [FlowNext]_flowVars =>
        [\A c \in Requests : Over(c) /\ runs'[c].pc # "idle" =>
           runs'[c].pc = "done" /\ runs'[c].answer = runs[c].answer]_flowVars
  BY AnswersOfAStep DEF Over, Run
<1>3. FlowSpec => EffectsAreAuthorized
  BY <1>1, FlowInvariance, PTL DEF FlowSpec, EffectsAreAuthorized
<1>4. FlowSpec => AnswersAreFinal
  BY <1>2, FlowInvariance, PTL DEF FlowSpec, AnswersAreFinal
<1> QED BY <1>3, <1>4 DEF OnlyAuthorizedOutcomesLand

-----------------------------------------------------------------------------
(***************************************************************************)
(* The cell writes.  For any clients, members, orders and bounds, a request *)
(* bound to a version writes the members it names.                          *)
(***************************************************************************)
Fields == {"state", "kind", "names", "indices", "base", "tries", "grow"}

\* The shape of the state the proofs need.
Shape ==
    /\ version \in Nat
    /\ DOMAIN request = Clients
    /\ \A c \in Clients : DOMAIN request[c] = Fields
    /\ \A c \in Clients : In(c, "grow") => request[c].kind = "flow"

\* What a bound request knows: its base is not in the future, and as long as
\* nothing was committed since its base its indices are those of its names and
\* no rule covers them.
BoundInv ==
    \A c \in Clients : Bound(c) /\ request[c].state \in {"resolve", "apply"} =>
        /\ request[c].kind = "guarded" \/ In(c, "apply") => request[c].base \in 0 .. version
        /\ In(c, "apply") /\ request[c].base = version =>
              /\ {order[i] : i \in request[c].indices} = request[c].names
              /\ request[c].names \cap covered = {}

IInv == Shape /\ BoundInv

\* build_write: the index of a member the dimension has leads back to it.
LEMMA IndicesLeadBack ==
  ASSUME NEW o, NEW names, names \subseteq {o[i] : i \in DOMAIN o}
  PROVE  {o[i] : i \in IndicesIn(o, names)} = names
<1>1. ASSUME NEW m \in names PROVE o[IndexIn(o, m)] = m
  BY DEF IndexIn
<1> QED BY <1>1 DEF IndicesIn

LEMMA InitIInv == Init => IInv
  BY DEF Init, IInv, Shape, In, BoundInv, Bound, NoRequest, Fields

\* A step that commits moves the version past every base that was bound.
LEMMA CommitIInv ==
  ASSUME IInv, version' = version + 1, Shape',
         \A d \in Clients : request'[d] = request[d] \/ ~Bound(d)' \/ In(d, "ok")'
  PROVE  IInv'
<1> SUFFICES ASSUME NEW d \in Clients, Bound(d)', request'[d].state \in {"resolve", "apply"},
                    request'[d].kind = "guarded" \/ In(d, "apply")'
             PROVE  request'[d].base \in 0 .. version' /\ request'[d].base # version'
  BY DEF IInv, BoundInv
<1>1. request'[d] = request[d]
  BY DEF In
<1>2. request[d].base \in 0 .. version
  BY <1>1 DEF IInv, BoundInv, Bound, In
<1> QED BY <1>1, <1>2 DEF IInv, Shape

LEMMA SendIInv ==
  ASSUME IInv, NEW c \in Clients, NEW kind \in Kinds, NEW names, Send(c, kind, names)
  PROVE  IInv'
  BY DEF IInv, Shape, BoundInv, Bound, In, Send, NoRequest, Fields, Kinds

\* Resolving binds a "resolved" request to the version of its snapshot.
LEMMA ResolveIInv == ASSUME IInv, NEW c \in Clients, ResolveNames(c) PROVE IInv'
<1>1. CASE ~(request[c].names \subseteq Present \ covered)
  BY <1>1 DEF IInv, Shape, BoundInv, Bound, In, ResolveNames, Answer, Fields
<1>2. CASE request[c].names \subseteq Present \ covered
  <2> DEFINE found == IndicesIn(order, request[c].names)
  <2>1. {order[i] : i \in found} = request[c].names
    BY <1>2, IndicesLeadBack DEF Present
  <2>2. request[c].names \cap covered = {}
    BY <1>2
  <2>3. /\ request'[c].state = "apply" /\ request'[c].kind = request[c].kind
        /\ request'[c].names = request[c].names /\ request'[c].indices = found
        /\ request'[c].base = IF request[c].kind = "resolved" THEN version ELSE request[c].base
        /\ \A d \in Clients : d # c => request'[d] = request[d]
        /\ UNCHANGED <<version, order, covered>>
    BY <1>2 DEF IInv, Shape, ResolveNames, Fields
  <2>4. Shape'
    BY <1>2 DEF IInv, Shape, In, ResolveNames, Fields
  <2>5. BoundInv'
    BY <2>1, <2>2, <2>3 DEF IInv, Shape, BoundInv, Bound, In, ResolveNames
  <2> QED BY <2>4, <2>5 DEF IInv
<1> QED BY <1>1, <1>2

LEMMA ApplyConflictIInv == ASSUME IInv, NEW c \in Clients, ApplyConflict(c) PROVE IInv'
  BY DEF IInv, Shape, BoundInv, Bound, In, ApplyConflict, Answer, Fields

LEMMA ApplyRejectedIInv == ASSUME IInv, NEW c \in Clients, ApplyRejected(c) PROVE IInv'
  BY DEF IInv, Shape, BoundInv, Bound, In, ApplyRejected, Answer, Fields

LEMMA ApplyIInv == ASSUME IInv, NEW c \in Clients, Apply(c) PROVE IInv'
<1>1. Shape'
  BY DEF IInv, Shape, Apply, Answer, In, Fields
<1>2. \A d \in Clients : request'[d] = request[d] \/ In(d, "ok")'
  BY DEF IInv, Shape, Apply, Answer, In, Fields
<1> QED BY <1>1, <1>2, CommitIInv DEF Apply

LEMMA PreviewFlowIInv == ASSUME IInv, NEW c \in Clients, PreviewFlow(c) PROVE IInv'
  BY DEF IInv, Shape, BoundInv, Bound, In, PreviewFlow, Fields

LEMMA GrowFlowIInv == ASSUME IInv, NEW c \in Clients, GrowFlow(c) PROVE IInv'
<1>1. Shape'
  BY DEF IInv, Shape, GrowFlow, Answer, In, Fields
<1>2. \A d \in Clients : request'[d] = request[d] \/ ~Bound(d)'
  BY DEF IInv, Shape, GrowFlow, Answer, Bound, In, Fields
<1> QED BY <1>1, <1>2, CommitIInv DEF GrowFlow

LEMMA RestructureIInv == ASSUME IInv, Restructure PROVE IInv'
<1>1. Shape' /\ version' = version + 1
  BY DEF IInv, Shape, In, Restructure, Commit
<1> QED BY <1>1, CommitIInv DEF Restructure

LEMMA DefineRulesIInv == ASSUME IInv, DefineRules PROVE IInv'
<1>1. Shape' /\ version' = version + 1
  BY DEF IInv, Shape, In, DefineRules, Commit
<1> QED BY <1>1, CommitIInv DEF DefineRules

LEMMA StepIInv == ASSUME IInv, [Next]_vars PROVE IInv'
<1>1. ASSUME NEW c \in Clients, Handle(c) PROVE IInv'
  BY <1>1, ResolveIInv, ApplyConflictIInv, ApplyRejectedIInv, ApplyIInv,
     PreviewFlowIInv, GrowFlowIInv DEF Handle
<1>2. CASE UNCHANGED vars
  BY <1>2 DEF vars, IInv, Shape, BoundInv, Bound, In
<1> QED BY <1>1, <1>2, SendIInv, RestructureIInv, DefineRulesIInv DEF Next

\* The inductive invariant: a bound request whose base is current has indices
\* that are still those of its names.
THEOREM Invariance == Spec => []IInv
<1>1. Init => IInv
  BY InitIInv
<1>2. IInv /\ [Next]_vars => IInv'
  BY StepIInv
<1> QED BY <1>1, <1>2, PTL DEF Spec

-----------------------------------------------------------------------------

\* Only apply_batch answers a request with success.
LEMMA OnlyApplyCommits ==
  ASSUME IInv, Next, NEW c \in Clients, Commits(c)
  PROVE  Apply(c)
<1> USE DEF IInv, Shape, Commits, In, Fields
<1>1. ASSUME NEW d \in Clients, NEW kind \in Kinds, NEW names, Send(d, kind, names)
      PROVE  FALSE
  BY <1>1 DEF Send, NoRequest
<1>2. ASSUME NEW d \in Clients, Handle(d) PROVE Apply(c)
  <2>1. CASE ResolveNames(d)
    BY <2>1 DEF ResolveNames, Answer
  <2>2. CASE ApplyConflict(d)
    BY <2>2 DEF ApplyConflict, Answer
  <2>3. CASE ApplyRejected(d)
    BY <2>3 DEF ApplyRejected, Answer
  <2>4. CASE Apply(d)
    BY <2>4 DEF Apply, Answer
  <2>5. CASE PreviewFlow(d)
    BY <2>5 DEF PreviewFlow
  <2>6. CASE GrowFlow(d)
    BY <2>6 DEF GrowFlow, Answer
  <2> QED BY <1>2, <2>1, <2>2, <2>3, <2>4, <2>5, <2>6 DEF Handle
<1>3. ~Restructure /\ ~DefineRules
  BY DEF Restructure, DefineRules
<1> QED BY <1>1, <1>2, <1>3 DEF Next

\* When a bound request is applied its base is the current version.
LEMMA BoundIsCurrent ==
  ASSUME IInv, NEW c \in Clients, Bound(c), Apply(c)
  PROVE  /\ request[c].base = version
         /\ {order[i] : i \in request[c].indices} = request[c].names
         /\ request[c].names \cap covered = {}
<1>1. request[c].base \in 0 .. version
  BY DEF IInv, BoundInv, Apply, In
<1>2. request[c].base = version
  BY <1>1, SentinelAssumption DEF IInv, Shape, Apply, Conflicts
<1> QED BY <1>2 DEF IInv, BoundInv, Apply, In

\* write_cell, spread_cells and guarded batches write the members they name,
\* whatever is committed between their snapshot and their application.
THEOREM LandOnNames == Spec => WritesLandOnNames
<1> DEFINE Good == \A c \in Clients : Commits(c) /\ Bound(c) => LandsOnNames(c)
<1>1. IInv /\ [Next]_vars => [Good]_vars
  <2> SUFFICES ASSUME IInv, Next, NEW c \in Clients, Commits(c), Bound(c)
               PROVE  LandsOnNames(c)
    OBVIOUS
  <2>1. Apply(c)
    BY OnlyApplyCommits
  <2>2. {order[i] : i \in request[c].indices} = request[c].names
    BY <2>1, BoundIsCurrent
  <2> QED BY <2>1, <2>2 DEF Apply, LandsOnNames
<1> QED BY <1>1, Invariance, PTL DEF Spec, WritesLandOnNames

\* A bound request never stores a value under a rule that shadows it.
THEOREM NeverUnderARule == Spec => NoWriteUnderARule
<1> DEFINE Good == \A c \in Clients : Commits(c) /\ Bound(c) => request[c].names \cap covered = {}
<1>1. IInv /\ [Next]_vars => [Good]_vars
  BY OnlyApplyCommits, BoundIsCurrent
<1> QED BY <1>1, Invariance, PTL DEF Spec, NoWriteUnderARule

=============================================================================
