-------------------------- MODULE Dimension_proofs --------------------------
(***************************************************************************)
(* Lemmas about a dimension and its edits (Dimension, CubeEdits), for any   *)
(* elements, edges, attributes and values: sequences and what is picked or  *)
(* kept of them, the hierarchy and when an edge closes no cycle, the fields *)
(* of a sound dimension (DimOK: a tree without a cycle, lookups that find   *)
(* what they index), and that each edit makes a sound dimension of one.     *)
(* Store_proofs builds on them.                                             *)
(***************************************************************************)
EXTENDS CubeEdits, FiniteSetTheorems, WellFoundedInduction, SequenceTheorems, TLAPS

-----------------------------------------------------------------------------
(* Induction over the numbers, and the greatest of some.                     *)

\* A set that holds 0 and the successor of what it holds has every number.
LEMMA AllNumbers ==
  ASSUME NEW S, 0 \in S, \A n \in Nat : n \in S => n + 1 \in S
  PROVE  Nat \subseteq S
<1> SUFFICES ASSUME Nat \ S # {} PROVE FALSE
  OBVIOUS
<1> DEFINE Lower == {1 .. n : n \in Nat \ S}
<1>1. Lower # {} /\ Lower \subseteq FiniteSubsetsOf(Nat)
  <2>1. \A n \in Nat : 1 .. n \in FiniteSubsetsOf(Nat)
    BY SMTT(30), FS_Interval DEF FiniteSubsetsOf
  <2> QED BY <2>1
<1>2. PICK B \in Lower : \A C \in Lower : <<C, B>> \notin StrictSubsetOrdering(Nat)
  <2> HIDE DEF Lower
  <2> QED BY <1>1, FS_StrictSubsetOrderingWellFounded, WFMin
<1>3. PICK x \in Nat \ S : B = 1 .. x
  OBVIOUS
<1>4. x - 1 \in Nat /\ x - 1 \notin S
  OBVIOUS
<1>5. 1 .. (x - 1) \in SUBSET (1 .. x) /\ x \notin 1 .. (x - 1) /\ x \in 1 .. x
  BY <1>4
<1>6. 1 .. (x - 1) \subseteq Nat /\ 1 .. x \subseteq Nat
  OBVIOUS
<1>7. <<1 .. (x - 1), 1 .. x>> \in StrictSubsetOrdering(Nat)
  BY <1>5, <1>6 DEF StrictSubsetOrdering
<1> QED BY <1>2, <1>3, <1>4, <1>7

\* A set of numbers up to n that is not empty has a greatest one, and Max is it.
LEMMA GreatestNumber ==
  ASSUME NEW n \in Nat, NEW S \in SUBSET (0 .. n), S # {}
  PROVE  Max(S) \in S /\ \A x \in S : Max(S) >= x
<1> DEFINE HasOne(T) == \E x \in T : \A y \in T : x >= y
           U == {m \in Nat : \A T \in SUBSET (0 .. m) : T # {} => HasOne(T)}
<1>1. 0 \in U
  <2> SUFFICES ASSUME NEW T \in SUBSET (0 .. 0), T # {} PROVE HasOne(T)
    OBVIOUS
  <2>1. 0 .. 0 = {0}
    OBVIOUS
  <2>2. \A x \in T : x = 0
    BY <2>1
  <2>3. PICK x \in T : TRUE
    OBVIOUS
  <2>4. \A y \in T : x >= y
    BY <2>2
  <2> QED BY <2>4
<1>2. ASSUME NEW m \in Nat, m \in U PROVE m + 1 \in U
  <2> SUFFICES ASSUME NEW T \in SUBSET (0 .. (m + 1)), T # {} PROVE HasOne(T)
    OBVIOUS
  <2>1. CASE m + 1 \in T
    BY <2>1
  <2>2. CASE m + 1 \notin T
    <3>1. T \in SUBSET (0 .. m)
      BY <2>2
    <3> QED BY <3>1, <1>2
  <2> QED BY <2>1, <2>2
<1> HIDE DEF HasOne
<1>3. Nat \subseteq U
  <2> HIDE DEF U
  <2> QED BY <1>1, <1>2, AllNumbers
<1>4. HasOne(S)
  BY <1>3
<1>5. \E x \in S : \A y \in S : x >= y
  BY <1>4 DEF HasOne
<1> QED BY <1>5 DEF Max


-----------------------------------------------------------------------------
(* What lies in a sequence of sequences laid end to end.                     *)

IsFlattening(stages, seqs) ==
    /\ stages[0] = <<>>
    /\ \A k \in 0 .. (Len(seqs) - 1) : stages[k + 1] = stages[k] \o seqs[k + 1]

\* The recursion of FlattenSeq is its stages, one for each sequence.
LEMMA FlattenByStages ==
  ASSUME NEW T, NEW seqs \in Seq(Seq(T))
  PROVE  \E stages : IsFlattening(stages, seqs) /\ FlattenSeq(seqs) = stages[Len(seqs)]
<1> DEFINE n == Len(seqs)
           Body(f, i) == IF i = 1 THEN seqs[i] ELSE f[i - 1] \o seqs[i]
           Solves(f, m) == \A i \in 1 .. n : i <= m => f[i] = Body(f, i)
           M == {m \in Nat : \E f : Solves(f, m)}
<1>1. n \in Nat
  OBVIOUS
<1>2. CASE n = 0
  <2> DEFINE none == [k \in 0 .. 0 |-> <<>>]
  <2>1. IsFlattening(none, seqs)
    BY <1>2 DEF IsFlattening
  <2>2. seqs = <<>>
    BY <1>2
  <2>3. FlattenSeq(seqs) = none[Len(seqs)]
    BY <2>2 DEF FlattenSeq
  <2> QED BY <2>1, <2>3
<1>3. CASE n # 0
  <2> HIDE DEF n
  <2>1. 0 \in M
    <3>1. Solves([i \in 1 .. n |-> <<>>], 0)
      OBVIOUS
    <3> HIDE DEF Solves
    <3> QED BY <3>1
  <2>2. ASSUME NEW m \in Nat, m \in M PROVE m + 1 \in M
    <3>1. PICK f : Solves(f, m)
      BY <2>2
    <3> DEFINE next == [i \in 1 .. n |-> Body(f, i)]
    <3>2. \A i \in 1 .. n : next[i] = Body(f, i)
      OBVIOUS
    <3> HIDE DEF next
    <3>3. Solves(next, m + 1)
      <4> SUFFICES ASSUME NEW i \in 1 .. n, i <= m + 1 PROVE next[i] = Body(next, i)
        OBVIOUS
      <4>1. CASE i = 1
        BY <4>1, <3>2
      <4>2. CASE i # 1
        <5>1. i - 1 \in 1 .. n /\ i - 1 <= m
          BY <4>2, <1>1
        <5>2. next[i - 1] = f[i - 1]
          BY <5>1, <3>1, <3>2
        <5>3. next[i] = f[i - 1] \o seqs[i]
          BY <4>2, <3>2
        <5> QED BY <4>2, <5>2, <5>3
      <4> QED BY <4>1, <4>2
    <3> HIDE DEF Solves
    <3> QED BY <3>3
  <2>3. PICK some : Solves(some, n)
    <3>1. Nat \subseteq M
      <4> HIDE DEF M
      <4> QED BY <2>1, <2>2, AllNumbers
    <3> HIDE DEF Solves
    <3> QED BY <3>1, <1>1
  <2> DEFINE flat == [i \in 1 .. n |-> some[i]]
             flatten == CHOOSE f : f = [i \in 1 .. n |-> Body(f, i)]
  <2>4. flat = [i \in 1 .. n |-> Body(flat, i)]
    <3>1. \A i \in 1 .. n : some[i] = Body(some, i)
      BY <2>3, <1>1
    <3>2. \A i \in 1 .. n : Body(some, i) = Body(flat, i)
      <4> SUFFICES ASSUME NEW i \in 1 .. n PROVE Body(some, i) = Body(flat, i)
        OBVIOUS
      <4>1. CASE i = 1
        BY <4>1
      <4>2. CASE i # 1
        <5>1. i - 1 \in 1 .. n
          BY <4>2, <1>1
        <5> QED BY <5>1
      <4> QED BY <4>1, <4>2
    <3> QED BY <3>1, <3>2
  <2>5. flatten = [i \in 1 .. n |-> Body(flatten, i)]
    <3> HIDE DEF flat, Body
    <3> QED BY <2>4
  <2>6. FlattenSeq(seqs) = flatten[n]
    BY <1>3 DEF FlattenSeq, n
  <2> HIDE DEF flatten
  <2> DEFINE stages == [k \in 0 .. n |-> IF k = 0 THEN <<>> ELSE flatten[k]]
  <2>7. stages[0] = <<>> /\ stages[n] = flatten[n]
    BY <1>1, <1>3
  <2>8. ASSUME NEW k \in 0 .. (n - 1) PROVE stages[k + 1] = stages[k] \o seqs[k + 1]
    <3>1. k + 1 \in 1 .. n /\ k \in 0 .. n /\ k + 1 \in 0 .. n
      BY <1>1
    <3>2. stages[k + 1] = Body(flatten, k + 1)
      <4>1. stages[k + 1] = flatten[k + 1]
        BY <3>1
      <4>2. flatten[k + 1] = Body(flatten, k + 1)
        <5> HIDE DEF Body, stages
        <5> QED BY <3>1, <2>5
      <4> QED BY <4>1, <4>2
    <3>3. CASE k = 0
      <4>1. seqs[k + 1] \in Seq(T)
        BY <3>1 DEF n
      <4> QED BY <3>1, <3>2, <3>3, <4>1
    <3>4. CASE k # 0
      <4>1. stages[k] = flatten[k]
        BY <3>1, <3>4
      <4>2. k + 1 # 1 /\ (k + 1) - 1 = k
        BY <3>1, <3>4
      <4> HIDE DEF stages
      <4> QED BY <3>2, <4>1, <4>2
    <3> QED BY <3>3, <3>4
  <2>9. IsFlattening(stages, seqs)
    <3> HIDE DEF stages
    <3> QED BY <2>7, <2>8 DEF IsFlattening, n
  <2> QED BY <2>6, <2>7, <2>9 DEF n
<1> QED BY <1>2, <1>3

-----------------------------------------------------------------------------
(***************************************************************************)
(* The model under edits.  For any dimensions, edits, users and requests.   *)
(***************************************************************************)
LEMMA SeqIsSeq ==
  ASSUME NEW T, NEW s \in Seq(T)
  PROVE  ASequence(s)
<1>1. s = [i \in 1 .. Len(s) |-> s[i]] /\ \A i \in 1 .. Len(s) : s[i] \in Range(s)
  BY DEF Range
<1> QED BY <1>1 DEF ASequence

LEMMA ListIsSeq ==
  ASSUME NEW n \in Nat, NEW s, s = [i \in 1 .. n |-> s[i]]
  PROVE  ASequence(s) /\ Len(s) = n /\ DOMAIN s = 1 .. n
<1>1. \A i \in 1 .. n : s[i] \in Range(s)
  BY DEF Range
<1>2. s \in Seq(Range(s))
  BY <1>1
<1> QED BY <1>2 DEF ASequence

LEMMA SeqIs ==
  ASSUME NEW s, ASequence(s)
  PROVE  Len(s) \in Nat /\ DOMAIN s = 1 .. Len(s) /\ s = [i \in 1 .. Len(s) |-> s[i]]
BY DEF ASequence

LEMMA AppendIs ==
  ASSUME NEW s, ASequence(s), NEW e
  PROVE  /\ ASequence(Append(s, e)) /\ Len(Append(s, e)) = Len(s) + 1 /\ DOMAIN Append(s, e) = 1 .. (Len(s) + 1)
         /\ Append(s, e)[Len(s) + 1] = e /\ \A i \in 1 .. Len(s) : Append(s, e)[i] = s[i]
         /\ Append(s, e) = [i \in 1 .. (Len(s) + 1) |-> Append(s, e)[i]]
<1> DEFINE T == Range(s) \cup {e}
<1>1. Len(s) \in Nat /\ s = [i \in 1 .. Len(s) |-> s[i]]
  BY SeqIs
<1>2. \A i \in 1 .. Len(s) : s[i] \in T
  BY <1>1 DEF Range
<1>3. s \in Seq(T) /\ e \in T
  BY <1>1, <1>2
<1> HIDE DEF T
<1>4. Append(s, e) \in Seq(T)
  BY <1>3
<1>5. ASequence(Append(s, e))
  BY <1>4, SeqIsSeq
<1>6. Len(Append(s, e)) = Len(s) + 1 /\ Append(s, e)[Len(s) + 1] = e
  BY <1>3
<1>7. \A i \in 1 .. Len(s) : Append(s, e)[i] = s[i]
  BY <1>3
<1>8. DOMAIN Append(s, e) = 1 .. (Len(s) + 1) /\ Append(s, e) = [i \in 1 .. (Len(s) + 1) |-> Append(s, e)[i]]
  BY <1>5, <1>6, SeqIs
<1> QED BY <1>5, <1>6, <1>7, <1>8

\* What Those picks: the positions of what is kept, each once.
Picks(pos, m, items, kept, k) ==
  /\ pos \in [1 .. m -> 1 .. k]
  /\ \A i, j \in 1 .. m : pos[i] = pos[j] => i = j
  /\ \A j \in 1 .. k : items[j] \in kept <=> \E i \in 1 .. m : pos[i] = j

LEMMA ThoseArePicked ==
  ASSUME NEW items, ASequence(items), NEW kept
  PROVE  \E m \in Nat : \E pos : Picks(pos, m, items, kept, Len(items))
                                 /\ Those(items, kept) = [i \in 1 .. m |-> items[pos[i]]]
<1> DEFINE T == Range(items)
           n == Len(items)
           each == [i \in DOMAIN items |-> IF items[i] \in kept THEN <<items[i]>> ELSE <<>>]
<1>1. n \in Nat /\ DOMAIN items = 1 .. n /\ \A i \in 1 .. n : items[i] \in T
  BY SeqIs DEF Range
<1>2. each \in Seq(Seq(T)) /\ Len(each) = n
  <2>1. \A i \in 1 .. n : each[i] \in Seq(T)
    BY <1>1
  <2>2. each \in [1 .. n -> Seq(T)]
    BY <1>1, <2>1
  <2> QED BY <1>1, <2>2
<1>3. \A i \in 1 .. n : each[i] = IF items[i] \in kept THEN <<items[i]>> ELSE <<>>
  BY <1>1
<1> HIDE DEF each, n, T
<1>4. PICK stages : IsFlattening(stages, each) /\ FlattenSeq(each) = stages[n]
  BY <1>2, FlattenByStages
<1> DEFINE Good(k) == \E m \in Nat : \E pos : Picks(pos, m, items, kept, k) /\ stages[k] = [i \in 1 .. m |-> items[pos[i]]]
           U == {k \in Nat : k <= n => Good(k)}
<1>5. 0 \in U
  <2>1. stages[0] = <<>>
    BY <1>4 DEF IsFlattening
  <2> DEFINE none == [i \in 1 .. 0 |-> 0]
  <2>2. Picks(none, 0, items, kept, 0)
    BY DEF Picks
  <2>3. stages[0] = [i \in 1 .. 0 |-> items[none[i]]]
    BY <2>1
  <2> HIDE DEF none
  <2> QED BY <2>2, <2>3
<1>6. ASSUME NEW k \in Nat, k \in U PROVE k + 1 \in U
  <2> SUFFICES ASSUME k + 1 <= n PROVE Good(k + 1)
    <3> HIDE DEF Good
    <3> QED OBVIOUS
  <2>1. k <= n /\ k + 1 \in 1 .. n /\ k \in 0 .. (Len(each) - 1)
    BY <1>1, <1>2
  <2>2. PICK m \in Nat : \E pos : Picks(pos, m, items, kept, k) /\ stages[k] = [i \in 1 .. m |-> items[pos[i]]]
    BY <2>1, <1>6
  <2>3. PICK pos : Picks(pos, m, items, kept, k) /\ stages[k] = [i \in 1 .. m |-> items[pos[i]]]
    BY <2>2
  <2>4. stages[k + 1] = stages[k] \o each[k + 1]
    BY <1>4, <2>1 DEF IsFlattening
  <2>5. pos \in [1 .. m -> 1 .. k]
    BY <2>3 DEF Picks
  <2>6. CASE items[k + 1] \in kept
    <3> DEFINE more == [i \in 1 .. (m + 1) |-> IF i = m + 1 THEN k + 1 ELSE pos[i]]
    <3>1. more \in [1 .. (m + 1) -> 1 .. (k + 1)]
      BY <2>5
    <3>2. \A i \in 1 .. m : more[i] = pos[i] /\ pos[i] <= k
      BY <2>5
    <3>3. more[m + 1] = k + 1 /\ \A i \in 1 .. (m + 1) : i \in 1 .. m \/ i = m + 1
      OBVIOUS
    <3>4. m + 1 \in 1 .. (m + 1) /\ \A i \in 1 .. m : i \in 1 .. (m + 1)
      OBVIOUS
    <3> HIDE DEF more
    <3>5. \A i, j \in 1 .. (m + 1) : more[i] = more[j] => i = j
      BY <2>3, <2>5, <3>2, <3>3 DEF Picks
    <3>6. \A j \in 1 .. (k + 1) : items[j] \in kept <=> \E i \in 1 .. (m + 1) : more[i] = j
      <4> SUFFICES ASSUME NEW j \in 1 .. (k + 1) PROVE items[j] \in kept <=> \E i \in 1 .. (m + 1) : more[i] = j
        OBVIOUS
      <4>1. CASE j = k + 1
        BY <4>1, <2>6, <3>3, <3>4
      <4>2. CASE j # k + 1
        <5>1. j \in 1 .. k
          BY <4>2
        <5>2. items[j] \in kept <=> \E i \in 1 .. m : pos[i] = j
          BY <5>1, <2>3 DEF Picks
        <5> QED BY <5>2, <3>2, <3>3, <3>4, <4>2
      <4> QED BY <4>1, <4>2
    <3>7. Picks(more, m + 1, items, kept, k + 1)
      BY <3>1, <3>5, <3>6 DEF Picks
    <3>8. each[k + 1] = <<items[k + 1]>>
      BY <2>1, <2>6, <1>3
    <3>9. stages[k + 1] = [i \in 1 .. (m + 1) |-> items[more[i]]]
      <4>1. stages[k + 1] = stages[k] \o <<items[k + 1]>>
        BY <2>4, <3>8
      <4>2. stages[k] \in Seq(T) /\ Len(stages[k]) = m
        <5>1. \A i \in 1 .. m : items[pos[i]] \in T
          BY <2>1, <2>5, <1>1
        <5>2. [i \in 1 .. m |-> items[pos[i]]] \in [1 .. m -> T]
          BY <5>1
        <5> QED BY <2>3, <5>2
      <4>3. items[k + 1] \in T
        BY <2>1, <1>1
      <4>4. \A i \in 1 .. m : stages[k][i] = items[pos[i]]
        BY <2>3
      <4> QED BY SMTT(30), <4>1, <4>2, <4>3, <4>4, <3>2, <3>3, <3>4
    <3> QED BY <3>7, <3>9
  <2>7. CASE items[k + 1] \notin kept
    <3>1. each[k + 1] = <<>>
      BY <2>1, <2>7, <1>3
    <3>2. stages[k + 1] = [i \in 1 .. m |-> items[pos[i]]]
      <4>2. stages[k] \in Seq(T) /\ Len(stages[k]) = m
        <5>1. \A i \in 1 .. m : items[pos[i]] \in T
          BY <2>1, <2>5, <1>1
        <5>2. [i \in 1 .. m |-> items[pos[i]]] \in [1 .. m -> T]
          BY <5>1
        <5> QED BY <2>3, <5>2
      <4> QED BY <4>2, <3>1, <2>3, <2>4
    <3>3. pos \in [1 .. m -> 1 .. (k + 1)]
      BY <2>5
    <3>4. \A j \in 1 .. (k + 1) : items[j] \in kept <=> \E i \in 1 .. m : pos[i] = j
      <4> SUFFICES ASSUME NEW j \in 1 .. (k + 1) PROVE items[j] \in kept <=> \E i \in 1 .. m : pos[i] = j
        OBVIOUS
      <4>1. CASE j = k + 1
        BY <4>1, <2>5, <2>7
      <4>2. CASE j # k + 1
        <5>1. j \in 1 .. k
          BY <4>2
        <5> QED BY <5>1, <2>3 DEF Picks
      <4> QED BY <4>1, <4>2
    <3>5. Picks(pos, m, items, kept, k + 1)
      BY <2>3, <3>3, <3>4 DEF Picks
    <3> QED BY <3>2, <3>5
  <2> QED BY <2>6, <2>7
<1>7. Good(n)
  <2>1. Nat \subseteq U
    <3> HIDE DEF U
    <3> QED BY <1>5, <1>6, AllNumbers
  <2> HIDE DEF Good
  <2> QED BY <2>1, <1>1
<1>8. Those(items, kept) = stages[n]
  BY <1>4 DEF Those, each
<1> QED BY <1>7, <1>8 DEF n

-----------------------------------------------------------------------------
(* The hierarchy.  What is not reached from an element is what some set of   *)
(* elements, closed under the edges, holds it off from.                      *)
Closed(ch, S) == \A q \in S : ChildSet(ch[q]) \subseteq S
Apart(ch, c, p) == \E S \in SUBSET (DOMAIN ch) : c \in S /\ p \notin S /\ Closed(ch, S)
Dag(ch) == \A p \in DOMAIN ch : \A c \in ChildSet(ch[p]) : Apart(ch, c, p)

NoTwice(edges) == \A i, j \in DOMAIN edges : edges[i].child = edges[j].child => i = j

EdgesOK(edges, n) ==
  /\ ASequence(edges) /\ NoTwice(edges)
  /\ \A i \in DOMAIN edges : /\ edges[i] = [child |-> edges[i].child, weight |-> edges[i].weight]
                             /\ edges[i].child \in 1 .. n

ListsOK(ch, n) == ASequence(ch) /\ Len(ch) = n /\ \A p \in 1 .. n : EdgesOK(ch[p], n)

TreeOK(ch, n) == ListsOK(ch, n) /\ Dag(ch)

LEMMA WithoutOK ==
  ASSUME NEW n, NEW edges, EdgesOK(edges, n), NEW c
  PROVE  EdgesOK(Without(edges, c), n) /\ ChildSet(Without(edges, c)) = ChildSet(edges) \ {c}
<1> DEFINE kept == {e \in Range(edges) : e.child # c}
           left == Without(edges, c)
<1>1. ASequence(edges) /\ Len(edges) \in Nat /\ DOMAIN edges = 1 .. Len(edges)
  BY SeqIs DEF EdgesOK
<1>2. PICK m \in Nat : \E pos : Picks(pos, m, edges, kept, Len(edges)) /\ left = [i \in 1 .. m |-> edges[pos[i]]]
  <2> HIDE DEF kept
  <2>1. \E m \in Nat : \E pos : Picks(pos, m, edges, kept, Len(edges))
                                /\ Those(edges, kept) = [i \in 1 .. m |-> edges[pos[i]]]
    BY <1>1, ThoseArePicked
  <2> QED BY <2>1 DEF Without, kept
<1>3. PICK pos : Picks(pos, m, edges, kept, Len(edges)) /\ left = [i \in 1 .. m |-> edges[pos[i]]]
  BY <1>2
<1>4. \A i \in 1 .. Len(edges) : edges[i] \in kept <=> edges[i].child # c
  BY <1>1 DEF Range
<1> HIDE DEF kept, left
<1>5. /\ \A i \in 1 .. m : pos[i] \in DOMAIN edges
      /\ \A i, j \in 1 .. m : pos[i] = pos[j] => i = j
      /\ \A j \in DOMAIN edges : edges[j].child # c <=> \E i \in 1 .. m : pos[i] = j
  BY <1>1, <1>3, <1>4 DEF Picks
<1>6. ASequence(left) /\ DOMAIN left = 1 .. m /\ \A i \in 1 .. m : left[i] = edges[pos[i]]
  <2>1. left = [i \in 1 .. m |-> left[i]] /\ \A i \in 1 .. m : left[i] = edges[pos[i]]
    BY <1>3
  <2> QED BY <2>1, ListIsSeq
<1>7. NoTwice(left)
  BY <1>5, <1>6 DEF NoTwice, EdgesOK
<1>8. EdgesOK(left, n)
  BY <1>5, <1>6, <1>7 DEF EdgesOK
<1>9. ChildSet(left) = ChildSet(edges) \ {c}
  BY <1>5, <1>6 DEF ChildSet
<1> QED BY <1>8, <1>9 DEF left

Next1(ch, seen) == seen \cup UNION {ChildSet(ch[p]) : p \in seen}

IsWalk(stages, ch, from) ==
    /\ stages[0] = {from}
    /\ \A k \in 0 .. (Len(ch) - 1) : stages[k + 1] = Next1(ch, stages[k])

\* The walk of Below is its stages, one step down for each element.
LEMMA BelowByStages ==
  ASSUME NEW ch, ASequence(ch), NEW from
  PROVE  \E stages : IsWalk(stages, ch, from) /\ Below(ch, from) = stages[Len(ch)]
<1> DEFINE n == Len(ch)
           D == DOMAIN ch
           Body(it, s) == IF s = {} THEN {from} ELSE Next1(ch, it[s \ {Max(s)}])
           Solves(it, m) == \A s \in SUBSET D : Cardinality(s) <= m => it[s] = Body(it, s)
           M == {m \in Nat : \E it : Solves(it, m)}
<1>1. n \in Nat /\ D = 1 .. n /\ IsFiniteSet(D) /\ Cardinality(D) = n
  <2>1. n \in Nat /\ D = 1 .. n
    BY SeqIs
  <2> HIDE DEF n, D
  <2>3. IsFiniteSet(1 .. n) /\ Cardinality(1 .. n) = IF 1 > n THEN 0 ELSE n - 1 + 1
    BY <2>1, FS_Interval
  <2> QED BY <2>1, <2>3
<1>2. \A s \in SUBSET D : s # {} => Max(s) \in s
  <2> SUFFICES ASSUME NEW s \in SUBSET D, s # {} PROVE Max(s) \in s
    OBVIOUS
  <2>1. s \in SUBSET (0 .. n)
    BY <1>1
  <2> QED BY <1>1, <2>1, GreatestNumber
<1>3. \A s \in SUBSET D : IsFiniteSet(s) /\ Cardinality(s) \in Nat /\ Cardinality(s) <= n
                          /\ (Cardinality(s) = 0 => s = {})
  <2> HIDE DEF D, n
  <2> SUFFICES ASSUME NEW s \in SUBSET D
               PROVE  IsFiniteSet(s) /\ Cardinality(s) \in Nat /\ Cardinality(s) <= n
                      /\ (Cardinality(s) = 0 => s = {})
    OBVIOUS
  <2>1. IsFiniteSet(s) /\ Cardinality(s) <= n
    BY <1>1, FS_Subset
  <2>2. Cardinality(s) \in Nat
    BY <2>1, FS_CardinalityType
  <2> QED BY <2>1, <2>2, FS_EmptySet
<1>4. \A s \in SUBSET D : s # {} => Cardinality(s \ {Max(s)}) = Cardinality(s) - 1
  <2> HIDE DEF D, n
  <2> QED BY <1>2, <1>3, FS_RemoveElement
<1> HIDE DEF D, n
<1>5. 0 \in M
  <2> DEFINE it == [s \in SUBSET D |-> {from}]
  <2>1. Solves(it, 0)
    <3> SUFFICES ASSUME NEW s \in SUBSET D, Cardinality(s) <= 0 PROVE it[s] = Body(it, s)
      OBVIOUS
    <3>1. s = {}
      BY <1>3
    <3> QED BY <3>1
  <2> HIDE DEF it, Solves
  <2> QED BY <2>1
<1>6. ASSUME NEW m \in Nat, m \in M PROVE m + 1 \in M
  <2>1. PICK it : Solves(it, m)
    BY <1>6
  <2> DEFINE next == [s \in SUBSET D |-> Body(it, s)]
  <2>2. \A s \in SUBSET D : next[s] = Body(it, s)
    OBVIOUS
  <2> HIDE DEF next
  <2>3. Solves(next, m + 1)
    <3> SUFFICES ASSUME NEW s \in SUBSET D, Cardinality(s) <= m + 1 PROVE next[s] = Body(next, s)
      OBVIOUS
    <3>1. CASE s = {}
      BY <3>1, <2>2
    <3>2. CASE s # {}
      <4> DEFINE t == s \ {Max(s)}
      <4>1. t \in SUBSET D /\ Cardinality(t) <= m
        BY <3>2, <1>3, <1>4
      <4>2. it[t] = Body(it, t)
        BY <4>1, <2>1
      <4>3. next[t] = it[t]
        BY <4>1, <4>2, <2>2
      <4>4. next[s] = Next1(ch, it[t])
        BY <3>2, <2>2
      <4> QED BY <3>2, <4>3, <4>4
    <3> QED BY <3>1, <3>2
  <2> HIDE DEF Solves
  <2> QED BY <2>3
<1>7. PICK some : Solves(some, n)
  <2>1. Nat \subseteq M
    <3> HIDE DEF M
    <3> QED BY <1>5, <1>6, AllNumbers
  <2> HIDE DEF Solves
  <2> QED BY <2>1, <1>1
<1> DEFINE fold == [s \in SUBSET D |-> some[s]]
           iter == CHOOSE it : it = [s \in SUBSET D |-> Body(it, s)]
<1>8. fold = [s \in SUBSET D |-> Body(fold, s)]
  <2>1. \A s \in SUBSET D : some[s] = Body(some, s)
    BY <1>3, <1>7
  <2>2. \A s \in SUBSET D : Body(some, s) = Body(fold, s)
    OBVIOUS
  <2> QED BY <2>1, <2>2
<1>9. iter = [s \in SUBSET D |-> Body(iter, s)]
  <2> HIDE DEF fold, Body
  <2> QED BY <1>8
<1>10. Below(ch, from) = iter[D]
  BY DEF Below, Next1, FoldLeft, MapThenFoldSet, D
<1> HIDE DEF iter
<1>11. iter[{}] = {from}
  BY <1>9
<1>12. ASSUME NEW k \in 0 .. (n - 1)
       PROVE  iter[1 .. (k + 1)] = Next1(ch, iter[1 .. k])
  <2> DEFINE s == 1 .. (k + 1)
  <2>1. k \in Nat /\ s \in SUBSET D /\ s # {} /\ s \in SUBSET (0 .. n)
    <3>1. k \in Nat /\ k + 1 \in s /\ k + 1 <= n
      BY <1>1
    <3>2. s \subseteq 1 .. n
      BY <1>1, <3>1
    <3>3. 1 .. n \subseteq 0 .. n
      BY <1>1
    <3> QED BY <1>1, <3>1, <3>2, <3>3
  <2>2. Max(s) = k + 1
    <3>1. Max(s) \in s /\ \A x \in s : Max(s) >= x
      <4> HIDE DEF s
      <4> QED BY <1>1, <2>1, GreatestNumber
    <3> QED BY <2>1, <3>1
  <2>3. s \ {k + 1} = 1 .. k
    BY <2>1
  <2> HIDE DEF s
  <2>4. iter[s] = Body(iter, s)
    <3> HIDE DEF Body
    <3> QED BY <1>9, <2>1
  <2> QED BY <2>1, <2>2, <2>3, <2>4 DEF s
<1> DEFINE stages == [k \in 0 .. n |-> iter[1 .. k]]
<1>13. 1 .. 0 = {}
  OBVIOUS
<1>14. IsWalk(stages, ch, from)
  <2>1. stages[0] = {from}
    BY <1>1, <1>11, <1>13
  <2>2. \A k \in 0 .. (n - 1) : stages[k + 1] = Next1(ch, stages[k])
    BY <1>1, <1>12
  <2> HIDE DEF stages
  <2> QED BY <2>1, <2>2 DEF IsWalk, n
<1>15. Below(ch, from) = stages[n]
  BY <1>1, <1>10
<1> QED BY <1>14, <1>15 DEF n

LEMMA MoreThan ==
  ASSUME NEW S, NEW T, IsFiniteSet(T), S \subseteq T, S # T
  PROVE  IsFiniteSet(S) /\ Cardinality(S) \in Nat /\ Cardinality(T) \in Nat /\ Cardinality(S) < Cardinality(T)
<1>1. IsFiniteSet(S) /\ Cardinality(S) <= Cardinality(T) /\ (Cardinality(T) = Cardinality(S) => T = S)
  BY FS_Subset
<1>2. Cardinality(S) \in Nat /\ Cardinality(T) \in Nat
  BY <1>1, FS_CardinalityType
<1> QED BY <1>1, <1>2

\* A walk of as many steps as there are elements has seen all there is to see.
LEMMA BelowIsClosed ==
  ASSUME NEW n \in Nat, NEW ch, ListsOK(ch, n), NEW from \in 1 .. n
  PROVE  /\ from \in Below(ch, from) /\ Below(ch, from) \subseteq 1 .. n /\ Closed(ch, Below(ch, from))
         /\ \A S : from \in S /\ Closed(ch, S) => Below(ch, from) \subseteq S
<1>1. ASequence(ch) /\ Len(ch) = n /\ DOMAIN ch = 1 .. n /\ \A p \in 1 .. n : ChildSet(ch[p]) \subseteq 1 .. n
  BY SeqIs DEF ListsOK, EdgesOK, ChildSet
<1>2. PICK stages : IsWalk(stages, ch, from) /\ Below(ch, from) = stages[n]
  BY <1>1, BelowByStages
<1>3. stages[0] = {from} /\ \A k \in 0 .. (n - 1) : stages[k + 1] = Next1(ch, stages[k])
  BY <1>1, <1>2 DEF IsWalk
<1>4. IsFiniteSet(1 .. n) /\ Cardinality(1 .. n) = n
  BY FS_Interval
<1> DEFINE Least(T) == \A S : from \in S /\ Closed(ch, S) => T \subseteq S
           Visited(k) == /\ from \in stages[k] /\ stages[k] \subseteq 1 .. n
                         /\ Closed(ch, stages[k]) \/ Cardinality(stages[k]) >= k + 1
                         /\ Least(stages[k])
           U == {k \in Nat : k <= n => Visited(k)}
<1>5. 0 \in U
  <2>1. stages[0] = {from} /\ Cardinality({from}) = 1
    BY <1>3, FS_Singleton
  <2>2. from \in stages[0] /\ stages[0] \subseteq 1 .. n /\ Cardinality(stages[0]) >= 0 + 1
    BY <2>1
  <2>3. Least(stages[0])
    BY <2>1
  <2> HIDE DEF Least
  <2>4. Visited(0)
    BY <2>2, <2>3
  <2> HIDE DEF Visited
  <2> QED BY <2>4
<1>6. ASSUME NEW k \in Nat, k \in U PROVE k + 1 \in U
  <2> SUFFICES ASSUME k + 1 <= n PROVE Visited(k + 1)
    <3> HIDE DEF Visited
    <3> QED OBVIOUS
  <2>1. Visited(k) /\ k \in 0 .. (n - 1)
    BY <1>6
  <2>2. PICK now : now = stages[k]
    BY ONLY TRUE
  <2>3. PICK next : next = stages[k + 1]
    BY ONLY TRUE
  <2>4. next = Next1(ch, now)
    BY <1>3, <2>1, <2>2, <2>3
  <2>5. now \subseteq next
    BY <2>4 DEF Next1
  <2>6. from \in next /\ next \subseteq 1 .. n
    <3> HIDE DEF U, Least
    <3>1. from \in now /\ now \subseteq 1 .. n
      BY <2>1, <2>2
    <3> HIDE DEF Visited
    <3>2. \A p \in now : ChildSet(ch[p]) \subseteq 1 .. n
      BY <1>1, <3>1
    <3> QED BY <2>4, <2>5, <3>1, <3>2 DEF Next1
  <2>7. ASSUME NEW S, from \in S, Closed(ch, S) PROVE next \subseteq S
    BY ZenonT(40), <2>1, <2>2, <2>4, <2>7 DEF Next1, Closed
  <2>8. CASE now = next
    <3>1. Closed(ch, now)
      BY <2>4, <2>8 DEF Closed, Next1
    <3> QED BY <2>3, <2>6, <2>7, <2>8, <3>1
  <2>9. CASE now # next
    <3>1. ~Closed(ch, now)
      BY <2>4, <2>9 DEF Closed, Next1
    <3>2. Cardinality(now) >= k + 1
      BY <2>1, <2>2, <3>1
    <3>3. IsFiniteSet(next)
      BY <1>4, <2>6, FS_Subset
    <3>4. Cardinality(next) >= (k + 1) + 1
      BY <2>5, <2>9, <3>2, <3>3, MoreThan
    <3> QED BY <2>3, <2>6, <2>7, <3>4
  <2> HIDE DEF Visited
  <2> QED BY <2>8, <2>9
<1>7. Visited(n)
  <2>1. Nat \subseteq U
    <3> HIDE DEF U
    <3> QED BY <1>5, <1>6, AllNumbers
  <2> HIDE DEF Visited
  <2> QED BY <2>1
<1>8. ~(Cardinality(stages[n]) >= n + 1)
  <2> HIDE DEF U, Least
  <2>1. stages[n] \subseteq 1 .. n
    BY <1>7
  <2> HIDE DEF Visited
  <2>2. IsFiniteSet(stages[n]) /\ Cardinality(stages[n]) <= n
    BY <1>4, <2>1, FS_Subset
  <2>3. Cardinality(stages[n]) \in Nat
    BY <2>2, FS_CardinalityType
  <2> QED BY <2>2, <2>3
<1> QED BY <1>2, <1>7, <1>8

\* An element is not reached exactly if it can be held apart.
LEMMA NotReached ==
  ASSUME NEW n \in Nat, NEW ch, ListsOK(ch, n), NEW c \in 1 .. n, NEW p
  PROVE  ~Reaches(ch, c, p) <=> Apart(ch, c, p)
<1>1. DOMAIN ch = 1 .. n
  BY SeqIs DEF ListsOK
<1>2. PICK below : below = Below(ch, c)
  BY ONLY TRUE
<1>3. /\ c \in below /\ below \subseteq 1 .. n /\ Closed(ch, below)
      /\ \A S : c \in S /\ Closed(ch, S) => below \subseteq S
  BY <1>2, BelowIsClosed
<1>4. Reaches(ch, c, p) <=> p \in below
  BY <1>2 DEF Reaches
<1> QED BY <1>1, <1>3, <1>4 DEF Apart

\* Fewer edges keep apart what was.
LEMMA FewerEdges ==
  ASSUME NEW n \in Nat, NEW ch, TreeOK(ch, n), NEW less, ListsOK(less, n),
         \A p \in 1 .. n : ChildSet(less[p]) \subseteq ChildSet(ch[p])
  PROVE  /\ TreeOK(less, n)
         /\ \A c, p \in 1 .. n : Apart(ch, c, p) => Apart(less, c, p)
<1>1. DOMAIN ch = 1 .. n /\ DOMAIN less = 1 .. n
  BY SeqIs DEF TreeOK, ListsOK
<1>2. ASSUME NEW c, NEW p, Apart(ch, c, p) PROVE Apart(less, c, p)
  <2>1. PICK S \in SUBSET (1 .. n) : c \in S /\ p \notin S /\ Closed(ch, S)
    BY <1>1, <1>2 DEF Apart
  <2>2. Closed(less, S)
    BY <2>1 DEF Closed
  <2> QED BY <1>1, <2>1, <2>2 DEF Apart
<1>3. Dag(less)
  BY <1>1, <1>2 DEF TreeOK, Dag
<1> QED BY <1>2, <1>3 DEF TreeOK

\* One edge more, to a child from which its parent is not reached.
OneMore(more, ch, p, e) == more = [ch EXCEPT ![p] = Append(@, e)]

AlsoHas(more, ch, n, p, c) ==
  \A q \in 1 .. n : ChildSet(more[q]) = IF q = p THEN ChildSet(ch[q]) \cup {c} ELSE ChildSet(ch[q])

LEMMA OneEdgeMore ==
  ASSUME NEW n \in Nat, NEW ch, TreeOK(ch, n), NEW parent \in 1 .. n, NEW child \in 1 .. n, NEW weight,
         Apart(ch, child, parent), child \notin ChildSet(ch[parent]),
         NEW more, OneMore(more, ch, parent, Edge(child, weight))
  PROVE  TreeOK(more, n) /\ AlsoHas(more, ch, n, parent, child)
<1>1. ASequence(ch) /\ Len(ch) = n /\ DOMAIN ch = 1 .. n /\ ch = [p \in 1 .. n |-> ch[p]] /\ \A p \in 1 .. n : EdgesOK(ch[p], n)
  BY SeqIs DEF TreeOK, ListsOK
<1>2. PICK old : old = ch[parent]
  BY ONLY TRUE
<1>3. PICK new : new = Append(old, Edge(child, weight))
  BY ONLY TRUE
<1>4. DOMAIN more = 1 .. n /\ more[parent] = new /\ (\A p \in 1 .. n : p # parent => more[p] = ch[p])
      /\ more = [p \in 1 .. n |-> more[p]]
  BY <1>1, <1>2, <1>3 DEF OneMore
<1>5. ASequence(old) /\ Len(old) \in Nat /\ DOMAIN old = 1 .. Len(old) /\ EdgesOK(old, n)
  BY <1>1, <1>2, SeqIs DEF EdgesOK
<1>6. /\ DOMAIN new = 1 .. (Len(old) + 1) /\ new[Len(old) + 1] = Edge(child, weight)
      /\ \A i \in 1 .. Len(old) : new[i] = old[i]
      /\ new = [i \in 1 .. (Len(old) + 1) |-> new[i]]
  BY <1>3, <1>5, AppendIs
<1>7. ChildSet(new) = ChildSet(old) \cup {child}
  <2>1. \A i \in 1 .. Len(old) : i \in 1 .. (Len(old) + 1)
    BY <1>5
  <2>2. Len(old) + 1 \in 1 .. (Len(old) + 1)
    BY <1>5
  <2>3. \A i \in 1 .. (Len(old) + 1) : i \in 1 .. Len(old) \/ i = Len(old) + 1
    BY <1>5
  <2>4. new[Len(old) + 1].child = child
    BY <1>6 DEF Edge
  <2>5. ASSUME NEW x PROVE x \in ChildSet(new) <=> x \in ChildSet(old) \cup {child}
    <3>1. x \in ChildSet(new) <=> \E i \in 1 .. (Len(old) + 1) : x = new[i].child
      BY <1>6 DEF ChildSet
    <3>2. x \in ChildSet(old) <=> \E i \in 1 .. Len(old) : x = old[i].child
      BY <1>5 DEF ChildSet
    <3> QED BY <1>6, <2>1, <2>2, <2>3, <2>4, <3>1, <3>2
  <2> QED BY <2>5
<1>8. EdgesOK(new, n)
  <2>1. ASequence(new)
    BY <1>5, <1>6, ListIsSeq
  <2>2. \A i \in DOMAIN new : i \in DOMAIN old \/ i = Len(old) + 1
    BY <1>5, <1>6
  <2>3. \A i \in DOMAIN old : new[i] = old[i] /\ old[i].child # child /\ i # Len(old) + 1
    <3>1. child \notin ChildSet(old)
      BY <1>2
    <3>2. \A i \in DOMAIN old : old[i].child \in ChildSet(old)
      BY DEF ChildSet
    <3>3. \A i \in DOMAIN old : new[i] = old[i]
      BY ONLY <1>5, <1>6
    <3>4. \A i \in DOMAIN old : i # Len(old) + 1
      BY ONLY <1>5
    <3> QED BY <3>1, <3>2, <3>3, <3>4
  <2>4. new[Len(old) + 1].child = child /\ new[Len(old) + 1] = [child |-> child, weight |-> weight]
    BY <1>6 DEF Edge
  <2>5. NoTwice(new)
    BY <1>5, <2>2, <2>3, <2>4 DEF NoTwice, EdgesOK
  <2>6. \A i \in DOMAIN new : /\ new[i] = [child |-> new[i].child, weight |-> new[i].weight]
                              /\ new[i].child \in 1 .. n
    BY <1>5, <2>2, <2>3, <2>4 DEF EdgesOK
  <2> QED BY <2>1, <2>5, <2>6 DEF EdgesOK
<1>9. ListsOK(more, n)
  <2>1. ASequence(more) /\ Len(more) = n
    BY <1>4, ListIsSeq
  <2> QED BY <2>1, <1>1, <1>4, <1>8 DEF ListsOK
<1>10. \A p \in 1 .. n : ChildSet(more[p]) = IF p = parent THEN ChildSet(ch[p]) \cup {child} ELSE ChildSet(ch[p])
  BY <1>2, <1>4, <1>7
<1>11. PICK off \in SUBSET (1 .. n) : child \in off /\ parent \notin off /\ Closed(ch, off)
  BY <1>1 DEF Apart
<1>12. Closed(more, off)
  BY <1>10, <1>11 DEF Closed
<1>13. ASSUME NEW p \in 1 .. n, NEW c \in ChildSet(more[p]) PROVE Apart(more, c, p)
  <2>1. CASE p = parent /\ c = child
    BY <2>1, <1>4, <1>11, <1>12 DEF Apart
  <2>2. CASE ~(p = parent /\ c = child)
    <3>1. c \in ChildSet(ch[p])
      <4>1. CASE p = parent
        <5>1. ChildSet(more[p]) = ChildSet(ch[p]) \cup {child}
          BY <1>10, <4>1
        <5>2. c # child /\ c \in ChildSet(more[p])
          BY <2>2, <4>1
        <5> QED BY <5>1, <5>2
      <4>2. CASE p # parent
        BY <1>10, <4>2
      <4> QED BY <4>1, <4>2
    <3>2. PICK S \in SUBSET (1 .. n) : c \in S /\ p \notin S /\ Closed(ch, S)
      BY <1>1, <3>1 DEF TreeOK, Dag, Apart
    <3>3. CASE parent \notin S
      <4>1. Closed(more, S)
        BY <1>10, <3>2, <3>3 DEF Closed
      <4> QED BY <1>4, <3>2, <4>1 DEF Apart
    <3>4. CASE parent \in S /\ p \notin off
      <4>1. Closed(more, S \cup off)
        <5>1. \A q \in S : ChildSet(ch[q]) \subseteq S
          BY <3>2 DEF Closed
        <5>2. \A q \in off : ChildSet(ch[q]) \subseteq off
          BY <1>11 DEF Closed
        <5>3. ASSUME NEW q \in S \cup off PROVE ChildSet(more[q]) \subseteq S \cup off
          <6>1. ChildSet(more[q]) \subseteq ChildSet(ch[q]) \cup {child}
            BY <1>10, <1>11, <3>2
          <6> QED BY <1>11, <5>1, <5>2, <6>1
        <5> QED BY <5>3 DEF Closed
      <4>2. S \cup off \in SUBSET (1 .. n) /\ c \in S \cup off /\ p \notin S \cup off
        BY <3>2, <3>4
      <4> QED BY <1>4, <4>1, <4>2 DEF Apart
    <3>5. CASE p \in off
      <4>1. c \in off
        BY <1>11, <3>1, <3>5 DEF Closed
      <4>2. Closed(ch, S \cap off)
        BY <1>11, <3>2 DEF Closed
      <4>3. Closed(more, S \cap off)
        BY <1>10, <1>11, <4>2 DEF Closed
      <4>4. S \cap off \in SUBSET (1 .. n) /\ c \in S \cap off /\ p \notin S \cap off
        BY <3>2, <4>1
      <4> QED BY <1>4, <4>3, <4>4 DEF Apart
    <3> QED BY <3>3, <3>4, <3>5
  <2> QED BY <2>1, <2>2
<1>14. Dag(more)
  BY <1>4, <1>13 DEF Dag
<1> QED BY <1>9, <1>10, <1>14 DEF TreeOK, AlsoHas

\* Elements taken from others, with no edge that was not between those.
LEMMA RearrangedTree ==
  ASSUME NEW n \in Nat, NEW m \in Nat, NEW ch, TreeOK(ch, n), NEW new, ListsOK(new, m),
         NEW from \in [1 .. m -> 0 .. n],
         \A i \in 1 .. m : \A c \in ChildSet(new[i]) :
            from[i] # 0 /\ from[c] # 0 /\ from[c] \in ChildSet(ch[from[i]])
  PROVE  TreeOK(new, m)
<1>1. DOMAIN ch = 1 .. n /\ DOMAIN new = 1 .. m
  BY SeqIs DEF TreeOK, ListsOK
<1>2. \A p \in 1 .. m : ChildSet(new[p]) \subseteq 1 .. m
  BY SeqIs DEF ListsOK, EdgesOK, ChildSet
<1>3. ASSUME NEW p \in 1 .. m, NEW c \in ChildSet(new[p]) PROVE Apart(new, c, p)
  <2>1. c \in 1 .. m /\ from[p] \in 1 .. n /\ from[c] \in ChildSet(ch[from[p]])
    BY <1>2
  <2>2. PICK S \in SUBSET (1 .. n) : from[c] \in S /\ from[p] \notin S /\ Closed(ch, S)
    BY <1>1, <2>1 DEF TreeOK, Dag, Apart
  <2> DEFINE T == {i \in 1 .. m : from[i] \in S}
  <2>3. ASSUME NEW q \in T PROVE ChildSet(new[q]) \subseteq T
    <3>1. \A x \in ChildSet(new[q]) : x \in 1 .. m /\ from[x] \in ChildSet(ch[from[q]])
      BY <1>2
    <3>2. ChildSet(ch[from[q]]) \subseteq S
      BY <2>2 DEF Closed
    <3> QED BY <3>1, <3>2
  <2>4. T \in SUBSET (1 .. m) /\ c \in T /\ p \notin T
    BY <2>1, <2>2
  <2> HIDE DEF T
  <2>5. Closed(new, T)
    BY <2>3 DEF Closed
  <2> QED BY <1>1, <2>4, <2>5 DEF Apart
<1> QED BY <1>1, <1>3 DEF TreeOK, Dag

\* Edges whose ends move keep to their order.
Movable(edges, toNew, m) ==
  /\ \A c \in ChildSet(edges) : toNew[c] \in 1 .. m
  /\ \A c, k \in ChildSet(edges) : toNew[c] = toNew[k] => c = k
LeadsThere(new, edges, toNew, m) == EdgesOK(new, m) /\ ChildSet(new) = {toNew[c] : c \in ChildSet(edges)}

LEMMA MovedOK ==
  ASSUME NEW n, NEW m, NEW edges, EdgesOK(edges, n), NEW toNew, Movable(edges, toNew, m)
  PROVE  LeadsThere(Moved(edges, toNew), edges, toNew, m)
<1>0. /\ \A c \in ChildSet(edges) : toNew[c] \in 1 .. m
      /\ \A c, k \in ChildSet(edges) : toNew[c] = toNew[k] => c = k
  BY DEF Movable
<1> DEFINE left == Moved(edges, toNew)
<1>1. Len(edges) \in Nat /\ DOMAIN edges = 1 .. Len(edges)
  BY SeqIs DEF EdgesOK
<1>2. \A i \in DOMAIN edges : edges[i].child \in ChildSet(edges)
  BY DEF ChildSet
<1>3. left = [i \in DOMAIN edges |-> [edges[i] EXCEPT !.child = toNew[@]]]
  BY DEF Moved
<1>4. \A i \in DOMAIN edges : left[i] = [child |-> toNew[edges[i].child], weight |-> edges[i].weight]
  BY <1>3 DEF EdgesOK
<1>5. left = [i \in 1 .. Len(edges) |-> left[i]]
  BY <1>1, <1>3
<1> HIDE DEF left
<1>6. ASequence(left) /\ DOMAIN left = DOMAIN edges
  BY <1>1, <1>5, ListIsSeq
<1>7. \A i \in DOMAIN left : left[i].child = toNew[edges[i].child] /\ left[i].weight = edges[i].weight
  BY <1>4, <1>6
<1>8. NoTwice(left)
  BY <1>0, <1>2, <1>6, <1>7 DEF NoTwice, EdgesOK
<1>9. EdgesOK(left, m)
  BY <1>0, <1>2, <1>4, <1>6, <1>7, <1>8 DEF EdgesOK
<1>10. ASSUME NEW x PROVE x \in ChildSet(left) <=> x \in {toNew[c] : c \in ChildSet(edges)}
  <2>1. x \in ChildSet(left) <=> \E i \in DOMAIN edges : x = toNew[edges[i].child]
    BY <1>6, <1>7 DEF ChildSet
  <2> QED BY <1>2, <2>1 DEF ChildSet
<1> QED BY <1>9, <1>10 DEF left, LeadsThere

-----------------------------------------------------------------------------
(* A dimension.                                                              *)
ElementsOK(els) ==
  /\ ASequence(els)
  /\ \A i \in DOMAIN els : /\ els[i] = [name |-> els[i].name, kind |-> els[i].kind, pinned |-> els[i].pinned]
                           /\ els[i].kind \in ElementKinds

ParentsOK(els, ch) == \A p \in DOMAIN els : ChildSet(ch[p]) # {} => els[p].kind = Consolidated

RowsOK(rows, attrs, n) ==
  /\ ASequence(rows) /\ Len(rows) = n /\ ASequence(attrs)
  /\ \A e \in 1 .. n : DOMAIN rows[e] \subseteq DOMAIN attrs

NamesFound(map, els) ==
  /\ map = [x \in DOMAIN map |-> map[x]]
  /\ \A i \in DOMAIN els : els[i].name \in DOMAIN map /\ map[els[i].name] = i
  /\ \A x \in DOMAIN map : map[x] \in DOMAIN els /\ els[map[x]].name = x

AliasColumns(attrs) == {a \in DOMAIN attrs : attrs[a].kind = "Alias"}
Carried(row, attrs) == {row[a] : a \in (DOMAIN row \cap AliasColumns(attrs)) \ {}}

AliasesFound(map, rows, attrs) ==
  /\ map = [x \in DOMAIN map |-> map[x]]
  /\ \A e \in DOMAIN rows : \A x \in Carried(rows[e], attrs) : x \in DOMAIN map /\ map[x] = e
  /\ \A x \in DOMAIN map : map[x] \in DOMAIN rows /\ x \in Carried(rows[map[x]], attrs)

IsDim(dim) ==
  dim = [elements |-> dim.elements, children |-> dim.children, attributes |-> dim.attributes,
         values |-> dim.values, byName |-> dim.byName, byAlias |-> dim.byAlias]

DimOK(dim) ==
  /\ IsDim(dim)
  /\ ElementsOK(dim.elements)
  /\ TreeOK(dim.children, Len(dim.elements))
  /\ ParentsOK(dim.elements, dim.children)
  /\ RowsOK(dim.values, dim.attributes, Len(dim.elements))
  /\ NamesFound(dim.byName, dim.elements)
  /\ AliasesFound(dim.byAlias, dim.values, dim.attributes)

LEMMA MakeDim ==
  ASSUME NEW dim, NEW els, NEW ch, NEW attrs, NEW rows, NEW names, NEW aliases,
         dim = [elements |-> els, children |-> ch, attributes |-> attrs, values |-> rows,
                byName |-> names, byAlias |-> aliases],
         ElementsOK(els), TreeOK(ch, Len(els)), ParentsOK(els, ch), RowsOK(rows, attrs, Len(els)),
         NamesFound(names, els), AliasesFound(aliases, rows, attrs)
  PROVE  DimOK(dim)
<1>1. /\ dim.elements = els /\ dim.children = ch /\ dim.attributes = attrs /\ dim.values = rows
      /\ dim.byName = names /\ dim.byAlias = aliases
  OBVIOUS
<1>2. IsDim(dim)
  BY <1>1 DEF IsDim
<1> QED BY ONLY <1>1, <1>2, ElementsOK(els), TreeOK(ch, Len(els)), ParentsOK(els, ch), RowsOK(rows, attrs, Len(els)),
         NamesFound(names, els), AliasesFound(aliases, rows, attrs) DEF DimOK

LEMMA DimFacts ==
  ASSUME NEW dim, DimOK(dim)
  PROVE  /\ Len(dim.elements) \in Nat
         /\ DOMAIN dim.elements = 1 .. Len(dim.elements) /\ DOMAIN dim.children = 1 .. Len(dim.elements)
         /\ DOMAIN dim.values = 1 .. Len(dim.elements)
         /\ ASequence(dim.elements) /\ ASequence(dim.children) /\ ASequence(dim.values) /\ ASequence(dim.attributes)
         /\ Len(dim.children) = Len(dim.elements) /\ Len(dim.values) = Len(dim.elements)
         /\ \A p \in 1 .. Len(dim.elements) : EdgesOK(dim.children[p], Len(dim.elements))
         /\ \A p \in 1 .. Len(dim.elements) : ChildSet(dim.children[p]) \subseteq 1 .. Len(dim.elements)
<1>1. ASequence(dim.elements) /\ ASequence(dim.children) /\ ASequence(dim.values) /\ ASequence(dim.attributes)
      /\ Len(dim.children) = Len(dim.elements) /\ Len(dim.values) = Len(dim.elements)
      /\ \A p \in 1 .. Len(dim.elements) : EdgesOK(dim.children[p], Len(dim.elements))
  BY DEF DimOK, ElementsOK, TreeOK, ListsOK, RowsOK
<1>2. \A p \in 1 .. Len(dim.elements) : ChildSet(dim.children[p]) \subseteq 1 .. Len(dim.elements)
  BY ZenonT(40), <1>1, SeqIs DEF EdgesOK, ChildSet
<1> QED BY <1>1, <1>2, SeqIs

\* As many edges as children.
LEMMA EachChildOnce ==
  ASSUME NEW n, NEW edges, EdgesOK(edges, n)
  PROVE  Cardinality(ChildSet(edges)) = Len(edges) /\ (edges # <<>> => ChildSet(edges) # {})
<1>1. ASequence(edges) /\ Len(edges) \in Nat /\ DOMAIN edges = 1 .. Len(edges) /\ edges = [i \in 1 .. Len(edges) |-> edges[i]]
  BY SeqIs DEF EdgesOK
<1> DEFINE D == 1 .. Len(edges)
           f == [i \in D |-> edges[i].child]
<1>2. f \in Bijection(D, ChildSet(edges))
  <2>1. \A i \in D : f[i] = edges[i].child /\ f[i] \in ChildSet(edges)
    BY <1>1 DEF ChildSet
  <2>2. f \in [D -> ChildSet(edges)]
    BY <2>1
  <2>3. \A i, j \in D : f[i] = f[j] => i = j
    BY <1>1, <2>1 DEF EdgesOK, NoTwice
  <2>4. \A x \in ChildSet(edges) : \E i \in D : f[i] = x
    BY <1>1, <2>1 DEF ChildSet
  <2> HIDE DEF f, D
  <2> QED BY <2>2, <2>3, <2>4 DEF Bijection, Injection, Surjection, IsInjective
<1>3. IsFiniteSet(D) /\ Cardinality(D) = Len(edges)
  BY <1>1, FS_Interval
<1>4. Cardinality(ChildSet(edges)) = Len(edges)
  <2> HIDE DEF f, D
  <2> QED BY <1>2, <1>3, FS_Bijection DEF ExistsBijection
<1>5. edges # <<>> => ChildSet(edges) # {}
  <2> SUFFICES ASSUME edges # <<>> PROVE ChildSet(edges) # {}
    OBVIOUS
  <2>1. Len(edges) # 0
    BY <1>1
  <2>2. 1 \in DOMAIN edges
    BY <1>1, <2>1
  <2> QED BY <2>2 DEF ChildSet
<1> QED BY <1>4, <1>5

LEMMA AliasesAreCarried ==
  ASSUME NEW dim, NEW e
  PROVE  AliasesOf(dim, e, {}) = Carried(dim.values[e], dim.attributes)
BY DEF AliasesOf, AliasAttributes, Carried, AliasColumns

DimOf(els, ch, attrs, rows, names, aliases) ==
  [elements |-> els, children |-> ch, attributes |-> attrs, values |-> rows, byName |-> names, byAlias |-> aliases]

\* A dimension by its fields.
LEMMA DimIsOf ==
  ASSUME NEW dim, IsDim(dim)
  PROVE  dim = DimOf(dim.elements, dim.children, dim.attributes, dim.values, dim.byName, dim.byAlias)
BY SMTT(30) DEF IsDim, DimOf

\* What a rebuild makes of the names, and of the aliases, of a dimension.
NameMap(els) == [name \in {els[i].name : i \in DOMAIN els} |-> CHOOSE i \in DOMAIN els : els[i].name = name]
AliasMap(els, rows, attrs) ==
  [alias \in UNION {Carried(rows[e], attrs) : e \in DOMAIN els} |->
     CHOOSE e \in DOMAIN els : alias \in Carried(rows[e], attrs)]

LEMMA ReindexedIs ==
  ASSUME NEW dim, IsDim(dim)
  PROVE  Reindexed(dim) = DimOf(dim.elements, dim.children, dim.attributes, dim.values,
                                NameMap(dim.elements), AliasMap(dim.elements, dim.values, dim.attributes))
<1>1. PICK names : names = NameMap(dim.elements)
  BY ONLY TRUE
<1>2. PICK aliases : aliases = AliasMap(dim.elements, dim.values, dim.attributes)
  BY ONLY TRUE
<1>3. Reindexed(dim) = [dim EXCEPT !.byName = names, !.byAlias = aliases]
  BY <1>1, <1>2 DEF Reindexed, NameMap, AliasMap, AliasesOf, AliasAttributes, Carried, AliasColumns
<1>4. [dim EXCEPT !.byName = names, !.byAlias = aliases] = [[dim EXCEPT !.byName = names] EXCEPT !.byAlias = aliases]
  OBVIOUS
<1>5. PICK els, ch, attrs, rows, was, were :
         /\ els = dim.elements /\ ch = dim.children /\ attrs = dim.attributes /\ rows = dim.values
         /\ dim = DimOf(els, ch, attrs, rows, was, were)
  BY DimIsOf
<1>6. [DimOf(els, ch, attrs, rows, was, were) EXCEPT !.byName = names] = DimOf(els, ch, attrs, rows, names, were)
  BY DEF DimOf
<1>7. [DimOf(els, ch, attrs, rows, names, were) EXCEPT !.byAlias = aliases] = DimOf(els, ch, attrs, rows, names, aliases)
  BY SMTT(30) DEF DimOf
<1>8. [dim EXCEPT !.byName = names, !.byAlias = aliases] = DimOf(els, ch, attrs, rows, names, aliases)
  BY ONLY <1>4, <1>5, <1>6, <1>7
<1> QED BY <1>1, <1>2, <1>3, <1>5, <1>8

LEMMA NamesAreFound ==
  ASSUME NEW els, NEW map, NamesFound(map, els)
  PROVE  map = NameMap(els)
<1>1. DOMAIN map = {els[i].name : i \in DOMAIN els}
  BY DEF NamesFound
<1>2. ASSUME NEW x \in DOMAIN map PROVE map[x] = CHOOSE i \in DOMAIN els : els[i].name = x
  <2>1. map[x] \in DOMAIN els /\ els[map[x]].name = x
    BY DEF NamesFound
  <2>2. \A i \in DOMAIN els : els[i].name = x => i = map[x]
    BY DEF NamesFound
  <2> QED BY <2>1, <2>2
<1>3. map = [x \in DOMAIN map |-> map[x]]
  BY DEF NamesFound
<1> QED BY <1>1, <1>2, <1>3 DEF NameMap

LEMMA AliasesAreFound ==
  ASSUME NEW els, NEW rows, NEW attrs, NEW map, DOMAIN els = DOMAIN rows, AliasesFound(map, rows, attrs)
  PROVE  map = AliasMap(els, rows, attrs)
<1>1. ASSUME NEW x PROVE x \in DOMAIN map <=> x \in UNION {Carried(rows[e], attrs) : e \in DOMAIN els}
  BY DEF AliasesFound
<1>2. ASSUME NEW x \in DOMAIN map PROVE map[x] = CHOOSE e \in DOMAIN els : x \in Carried(rows[e], attrs)
  <2>1. map[x] \in DOMAIN els /\ x \in Carried(rows[map[x]], attrs)
    BY DEF AliasesFound
  <2>2. \A e \in DOMAIN els : x \in Carried(rows[e], attrs) => e = map[x]
    BY DEF AliasesFound
  <2> QED BY <2>1, <2>2
<1>3. map = [x \in DOMAIN map |-> map[x]]
  BY DEF AliasesFound
<1>4. DOMAIN map = UNION {Carried(rows[e], attrs) : e \in DOMAIN els}
  BY <1>1
<1> QED BY <1>2, <1>3, <1>4 DEF AliasMap

LEMMA NameMapFinds ==
  ASSUME NEW els, \A i, j \in DOMAIN els : els[i].name = els[j].name => i = j
  PROVE  NamesFound(NameMap(els), els)
<1>1. PICK map : map = NameMap(els)
  BY ONLY TRUE
<1>2. DOMAIN map = {els[i].name : i \in DOMAIN els} /\ map = [x \in DOMAIN map |-> map[x]]
      /\ \A x \in DOMAIN map : map[x] = CHOOSE i \in DOMAIN els : els[i].name = x
  BY <1>1 DEF NameMap
<1>3. \A x \in DOMAIN map : map[x] \in DOMAIN els /\ els[map[x]].name = x
  BY <1>2
<1>4. \A i \in DOMAIN els : els[i].name \in DOMAIN map /\ map[els[i].name] = i
  BY <1>2, <1>3
<1> QED BY <1>1, <1>2, <1>3, <1>4 DEF NamesFound

LEMMA AliasMapFinds ==
  ASSUME NEW els, NEW rows, NEW attrs, DOMAIN els = DOMAIN rows,
         \A e, f \in DOMAIN rows : \A x : x \in Carried(rows[e], attrs) /\ x \in Carried(rows[f], attrs) => e = f
  PROVE  AliasesFound(AliasMap(els, rows, attrs), rows, attrs)
<1>1. PICK map : map = AliasMap(els, rows, attrs)
  BY ONLY TRUE
<1>2. DOMAIN map = UNION {Carried(rows[e], attrs) : e \in DOMAIN els} /\ map = [x \in DOMAIN map |-> map[x]]
      /\ \A x \in DOMAIN map : map[x] = CHOOSE e \in DOMAIN els : x \in Carried(rows[e], attrs)
  BY <1>1 DEF AliasMap
<1>3. \A x \in DOMAIN map : map[x] \in DOMAIN rows /\ x \in Carried(rows[map[x]], attrs)
  BY <1>2
<1>4. \A e \in DOMAIN rows : \A x \in Carried(rows[e], attrs) : x \in DOMAIN map /\ map[x] = e
  BY <1>2, <1>3
<1> QED BY <1>1, <1>2, <1>3, <1>4 DEF AliasesFound

LEMMA DimIsSound ==
  ASSUME NEW dim, DimOK(dim)
  PROVE  /\ dim = Reindexed(dim)
         /\ \A e, f \in DOMAIN dim.elements : AliasesOf(dim, e, {}) \cap AliasesOf(dim, f, {}) # {} => e = f
         /\ \A p \in DOMAIN dim.elements :
              /\ \A c \in ChildSet(dim.children[p]) : ~Reaches(dim.children, c, p)
              /\ Cardinality(ChildSet(dim.children[p])) = Len(dim.children[p])
              /\ dim.children[p] # <<>> => dim.elements[p].kind = Consolidated
<1>1. DOMAIN dim.elements = DOMAIN dim.values
  BY DimFacts
<1>2. dim = Reindexed(dim)
  <2>1. dim.byName = NameMap(dim.elements)
    BY NamesAreFound DEF DimOK
  <2>2. dim.byAlias = AliasMap(dim.elements, dim.values, dim.attributes)
    BY <1>1, AliasesAreFound DEF DimOK
  <2>3. IsDim(dim)
    BY DEF DimOK
  <2> QED BY <2>1, <2>2, <2>3, ReindexedIs, DimIsOf
<1>3. ASSUME NEW e \in DOMAIN dim.elements, NEW f \in DOMAIN dim.elements,
             AliasesOf(dim, e, {}) \cap AliasesOf(dim, f, {}) # {}
      PROVE  e = f
  <2>1. PICK x : x \in Carried(dim.values[e], dim.attributes) /\ x \in Carried(dim.values[f], dim.attributes)
    BY <1>3, AliasesAreCarried
  <2>2. AliasesFound(dim.byAlias, dim.values, dim.attributes)
    BY DEF DimOK
  <2> QED BY <1>1, <2>1, <2>2 DEF AliasesFound
<1>4. ASSUME NEW p \in DOMAIN dim.elements
      PROVE  /\ \A c \in ChildSet(dim.children[p]) : ~Reaches(dim.children, c, p)
             /\ Cardinality(ChildSet(dim.children[p])) = Len(dim.children[p])
             /\ dim.children[p] # <<>> => dim.elements[p].kind = Consolidated
  <2>1. PICK n \in Nat : n = Len(dim.elements)
    BY DimFacts
  <2>2. p \in 1 .. n /\ DOMAIN dim.children = 1 .. n /\ EdgesOK(dim.children[p], n) /\ ChildSet(dim.children[p]) \subseteq 1 .. n
    BY <2>1, DimFacts
  <2>3. TreeOK(dim.children, n) /\ ParentsOK(dim.elements, dim.children)
    BY <2>1 DEF DimOK
  <2>4. ListsOK(dim.children, n) /\ Dag(dim.children)
    BY <2>3 DEF TreeOK
  <2>5. \A c \in ChildSet(dim.children[p]) : ~Reaches(dim.children, c, p)
    BY <2>2, <2>4, NotReached DEF Dag
  <2>6. Cardinality(ChildSet(dim.children[p])) = Len(dim.children[p]) /\ (dim.children[p] # <<>> => ChildSet(dim.children[p]) # {})
    BY <2>2, EachChildOnce
  <2> QED BY <2>3, <2>5, <2>6 DEF ParentsOK
<1> QED BY <1>2, <1>3, <1>4

-----------------------------------------------------------------------------
(* What each edit makes of a dimension.                                      *)
\* Every position keeps its name and, but for e, its kind; every name that stays
\* keeps its kind.
PlacesStay(new, dim, e) ==
  \A i \in DOMAIN dim.elements :
    /\ i \in DOMAIN new.elements /\ new.elements[i].name = dim.elements[i].name
    /\ i # e => new.elements[i].kind = dim.elements[i].kind
SamePlaces(new, dim) == DOMAIN new.elements = DOMAIN dim.elements
FollowsNames(new, dim) ==
  \A i \in DOMAIN new.elements, j \in DOMAIN dim.elements :
    new.elements[i].name = dim.elements[j].name => new.elements[i].kind = dim.elements[j].kind
\* Each position of was goes where new has its name, or is Gone with the name.
Follower(to, was, new) ==
  \A old \in DOMAIN was.elements :
    to[old] = IF was.elements[old].name \in Names(new) THEN IndexOf(new, was.elements[old].name) ELSE Gone

LEMMA SameElements ==
  ASSUME NEW new, NEW dim, new.elements = dim.elements, NEW e
  PROVE  PlacesStay(new, dim, e) /\ SamePlaces(new, dim)
BY DEF PlacesStay, SamePlaces

LEMMA AddElementIs ==
  ASSUME NEW els, NEW ch, NEW attrs, NEW rows, NEW names, NEW aliases, NEW name, NEW kind
  PROVE  AddElement(DimOf(els, ch, attrs, rows, names, aliases), name, kind) =
           DimOf(Append(els, [name |-> name, kind |-> kind, pinned |-> FALSE]), Append(ch, <<>>), attrs,
                 Append(rows, NoFn), Bind(names, name, Len(els) + 1), aliases)
<1>1. PICK d : d = DimOf(els, ch, attrs, rows, names, aliases)
  BY ONLY TRUE
<1>2. d.elements = els /\ d.children = ch /\ d.values = rows /\ d.byName = names
  BY <1>1 DEF DimOf
<1>3. PICK a, b, c, e : /\ a = Append(els, [name |-> name, kind |-> kind, pinned |-> FALSE]) /\ b = Append(ch, <<>>)
                        /\ c = Append(rows, NoFn) /\ e = Bind(names, name, Len(els) + 1)
  BY ONLY TRUE
<1>4. AddElement(d, name, kind) = [d EXCEPT !.elements = a, !.children = b, !.values = c, !.byName = e]
  BY <1>2, <1>3 DEF AddElement, Size
<1>5. [d EXCEPT !.elements = a, !.children = b, !.values = c, !.byName = e] =
      [[[[d EXCEPT !.elements = a] EXCEPT !.children = b] EXCEPT !.values = c] EXCEPT !.byName = e]
  OBVIOUS
<1>6. /\ [DimOf(els, ch, attrs, rows, names, aliases) EXCEPT !.elements = a] = DimOf(a, ch, attrs, rows, names, aliases)
      /\ [DimOf(a, ch, attrs, rows, names, aliases) EXCEPT !.children = b] = DimOf(a, b, attrs, rows, names, aliases)
      /\ [DimOf(a, b, attrs, rows, names, aliases) EXCEPT !.values = c] = DimOf(a, b, attrs, c, names, aliases)
      /\ [DimOf(a, b, attrs, c, names, aliases) EXCEPT !.byName = e] = DimOf(a, b, attrs, c, e, aliases)
  BY DEF DimOf
<1>7. AddElement(d, name, kind) = DimOf(a, b, attrs, c, e, aliases)
  BY ONLY <1>1, <1>4, <1>5, <1>6
<1> QED BY <1>1, <1>3, <1>7

\* A pinned or retyped element, and a field of an element.
LEMMA NoEdges ==
  ASSUME NEW n
  PROVE  EdgesOK(<<>>, n) /\ ChildSet(<<>>) = {}
BY DEF EdgesOK, ASequence, NoTwice, ChildSet, Range

LEMMA EmptyIsOK == DimOK(EmptyDimension)
<1>1. ASequence(<<>>) /\ Len(<<>>) = 0 /\ DOMAIN <<>> = {}
  BY DEF ASequence, Range
<1>2. ElementsOK(<<>>) /\ ParentsOK(<<>>, <<>>) /\ RowsOK(<<>>, <<>>, 0)
  BY <1>1 DEF ElementsOK, ParentsOK, RowsOK
<1>3. TreeOK(<<>>, 0)
  BY <1>1 DEF TreeOK, ListsOK, Dag
<1>4. DOMAIN NoFn = {} /\ NoFn = [x \in DOMAIN NoFn |-> NoFn[x]]
  BY DEF NoFn
<1>5. NamesFound(NoFn, <<>>) /\ AliasesFound(NoFn, <<>>, <<>>)
  BY <1>1, <1>4 DEF NamesFound, AliasesFound
<1>6. EmptyDimension = [elements |-> <<>>, children |-> <<>>, attributes |-> <<>>, values |-> <<>>,
                        byName |-> NoFn, byAlias |-> NoFn]
  BY DEF EmptyDimension
<1> QED BY <1>1, <1>2, <1>3, <1>5, <1>6, MakeDim

LEMMA OneElementMore ==
  ASSUME NEW n \in Nat, NEW ch, TreeOK(ch, n), NEW more, more = Append(ch, <<>>)
  PROVE  TreeOK(more, n + 1) /\ more[n + 1] = <<>> /\ \A p \in 1 .. n : more[p] = ch[p]
<1>1. ASequence(ch) /\ Len(ch) = n /\ DOMAIN ch = 1 .. n /\ \A p \in 1 .. n : EdgesOK(ch[p], n)
  BY SeqIs DEF TreeOK, ListsOK
<1>2. ASequence(more) /\ Len(more) = n + 1 /\ DOMAIN more = 1 .. (n + 1) /\ more[n + 1] = <<>>
      /\ \A p \in 1 .. n : more[p] = ch[p]
  BY <1>1, AppendIs
<1>3. \A p \in 1 .. (n + 1) : p \in 1 .. n \/ p = n + 1
  OBVIOUS
<1>4. \A p \in 1 .. n : EdgesOK(ch[p], n + 1)
  <2>1. 1 .. n \subseteq 1 .. (n + 1)
    OBVIOUS
  <2> QED BY <1>1, <2>1 DEF EdgesOK
<1>5. ListsOK(more, n + 1)
  <2>1. ASSUME NEW p \in 1 .. (n + 1) PROVE EdgesOK(more[p], n + 1)
    BY <1>2, <1>3, <1>4, NoEdges
  <2> QED BY <1>2, <2>1 DEF ListsOK
<1> DEFINE from == [i \in 1 .. (n + 1) |-> IF i = n + 1 THEN 0 ELSE i]
<1>6. from \in [1 .. (n + 1) -> 0 .. n]
  <2>1. \A i \in 1 .. (n + 1) : (IF i = n + 1 THEN 0 ELSE i) \in 0 .. n
    BY <1>3
  <2> QED BY <2>1
<1>7. \A i \in 1 .. n : from[i] = i /\ i # 0
  OBVIOUS
<1> HIDE DEF from
<1>8. ASSUME NEW i \in 1 .. (n + 1), NEW c \in ChildSet(more[i])
      PROVE  from[i] # 0 /\ from[c] # 0 /\ from[c] \in ChildSet(ch[from[i]])
  <2>1. i \in 1 .. n
    BY <1>2, <1>3, NoEdges
  <2>2. c \in ChildSet(ch[i]) /\ c \in 1 .. n
    BY <2>1, <1>1, <1>2 DEF EdgesOK, ChildSet
  <2> QED BY <2>1, <2>2, <1>7
<1>9. TreeOK(more, n + 1)
  <2>1. n + 1 \in Nat
    OBVIOUS
  <2> QED BY ONLY <2>1, n \in Nat, TreeOK(ch, n), <1>5, <1>6, <1>8, RearrangedTree
<1> QED BY <1>2, <1>9

IsMap(f) == f = [x \in DOMAIN f |-> f[x]]

Binds(g, f, k, v) ==
  /\ IsMap(g) /\ DOMAIN g = DOMAIN f \cup {k} /\ g[k] = v
  /\ \A x \in DOMAIN f : x # k => g[x] = f[x]

LEMMA BindIs ==
  ASSUME NEW f, NEW k, NEW v
  PROVE  Binds(Bind(f, k, v), f, k, v)
<1>1. PICK g : g = Bind(f, k, v)
  BY ONLY TRUE
<1>2. g = [x \in DOMAIN f \cup {k} |-> IF x = k THEN v ELSE f[x]]
  BY <1>1 DEF Bind
<1>3. DOMAIN g = DOMAIN f \cup {k} /\ g[k] = v /\ \A x \in DOMAIN f : x # k => g[x] = f[x]
  BY <1>2
<1>4. IsMap(g)
  BY <1>2 DEF IsMap
<1>5. Binds(g, f, k, v)
  BY <1>3, <1>4 DEF Binds
<1> QED BY <1>1, <1>5

LEMMA AddElementOK ==
  ASSUME NEW dim, DimOK(dim), NEW name, name \notin Names(dim), NEW kind \in ElementKinds
  PROVE  DimOK(AddElement(dim, name, kind)) /\ PlacesStay(AddElement(dim, name, kind), dim, Gone)
<1>1. PICK els, ch, attrs, rows, names, aliases :
        /\ els = dim.elements /\ ch = dim.children /\ attrs = dim.attributes /\ rows = dim.values
        /\ names = dim.byName /\ aliases = dim.byAlias /\ dim = DimOf(els, ch, attrs, rows, names, aliases)
  BY DimIsOf DEF DimOK
<1>2. PICK n \in Nat : n = Len(els)
  BY SMTT(30), <1>1, DimFacts
<1>3. /\ ASequence(els) /\ DOMAIN els = 1 .. n /\ ASequence(ch) /\ Len(ch) = n /\ DOMAIN ch = 1 .. n
      /\ ASequence(rows) /\ Len(rows) = n /\ DOMAIN rows = 1 .. n
      /\ ElementsOK(els) /\ TreeOK(ch, n) /\ ParentsOK(els, ch) /\ RowsOK(rows, attrs, n)
      /\ NamesFound(names, els) /\ AliasesFound(aliases, rows, attrs)
  BY <1>1, <1>2, DimFacts DEF DimOK
<1>4. PICK new : new = [name |-> name, kind |-> kind, pinned |-> FALSE]
  BY ONLY TRUE
<1>5. PICK els2, ch2, rows2, names2 :
        els2 = Append(els, new) /\ ch2 = Append(ch, <<>>) /\ rows2 = Append(rows, NoFn) /\ names2 = Bind(names, name, n + 1)
  BY ONLY TRUE
<1>6. AddElement(dim, name, kind) = DimOf(els2, ch2, attrs, rows2, names2, aliases)
  <2>1. els2 = Append(els, [name |-> name, kind |-> kind, pinned |-> FALSE]) /\ names2 = Bind(names, name, Len(els) + 1)
    BY ONLY <1>2, <1>4, <1>5
  <2>2. dim = DimOf(els, ch, attrs, rows, names, aliases)
    BY <1>1
  <2>3. AddElement(dim, name, kind) =
          DimOf(Append(els, [name |-> name, kind |-> kind, pinned |-> FALSE]), Append(ch, <<>>), attrs,
                Append(rows, NoFn), Bind(names, name, Len(els) + 1), aliases)
    BY ONLY <2>2, AddElementIs
  <2> QED BY ONLY <2>1, <2>3, <1>5
<1>7. n + 1 \in 1 .. (n + 1) /\ n + 1 \notin 1 .. n /\ \A i \in 1 .. (n + 1) : i \in 1 .. n \/ i = n + 1
  OBVIOUS
<1>8. \A i \in 1 .. n : i \in 1 .. (n + 1) /\ i # n + 1
  OBVIOUS
<1>9. /\ ASequence(els2) /\ Len(els2) = n + 1 /\ DOMAIN els2 = 1 .. (n + 1) /\ els2[n + 1] = new
      /\ \A i \in 1 .. n : els2[i] = els[i]
  BY <1>2, <1>3, <1>5, AppendIs
<1>10. /\ ASequence(rows2) /\ Len(rows2) = n + 1 /\ DOMAIN rows2 = 1 .. (n + 1) /\ rows2[n + 1] = NoFn
       /\ \A i \in 1 .. n : rows2[i] = rows[i]
  BY <1>3, <1>5, AppendIs
<1>11. TreeOK(ch2, n + 1) /\ ch2[n + 1] = <<>> /\ \A p \in 1 .. n : ch2[p] = ch[p]
  BY ONLY <1>3, <1>5, n \in Nat, OneElementMore
<1>12. ElementsOK(els2)
  BY <1>3, <1>4, <1>7, <1>9 DEF ElementsOK
<1>13. ParentsOK(els2, ch2)
  BY <1>3, <1>7, <1>9, <1>11, NoEdges DEF ParentsOK
<1>14. DOMAIN NoFn = {}
  BY DEF NoFn
<1>15. RowsOK(rows2, attrs, n + 1)
  BY <1>3, <1>7, <1>10, <1>14 DEF RowsOK
<1>16. name \notin DOMAIN names
  BY <1>1 DEF Names
<1>17. NamesFound(names2, els2)
  <2>1. Binds(names2, names, name, n + 1)
    BY ONLY <1>5, BindIs
  <2>2. new.name = name
    BY <1>4
  <2>3. \A x \in DOMAIN names : names[x] \in 1 .. n /\ els[names[x]].name = x
    BY <1>3 DEF NamesFound
  <2>4. \A i \in 1 .. n : els[i].name \in DOMAIN names /\ names[els[i].name] = i
    BY <1>3 DEF NamesFound
  <2>5. \A i \in 1 .. (n + 1) : els2[i].name \in DOMAIN names2 /\ names2[els2[i].name] = i
    BY ONLY <2>1, <2>2, <2>4, <1>7, <1>9, <1>16 DEF Binds
  <2>6. \A x \in DOMAIN names2 : names2[x] \in 1 .. (n + 1) /\ els2[names2[x]].name = x
    BY ONLY <2>1, <2>2, <2>3, <1>7, <1>8, <1>9, <1>16 DEF Binds
  <2> QED BY ONLY <2>1, <2>5, <2>6, <1>9 DEF NamesFound, Binds, IsMap
<1>18. AliasesFound(aliases, rows2, attrs)
  <2>1. Carried(NoFn, attrs) = {}
    BY SMTT(30), <1>14 DEF Carried
  <2> QED BY <2>1, <1>3, <1>7, <1>8, <1>10 DEF AliasesFound
<1>19. PlacesStay(AddElement(dim, name, kind), dim, Gone)
  <2>1. AddElement(dim, name, kind).elements = els2
    BY ONLY <1>6 DEF DimOf
  <2> QED BY ONLY <1>1, <1>3, <1>8, <1>9, <2>1 DEF PlacesStay
<1> QED BY <1>6, <1>9, <1>12, <1>11, <1>13, <1>15, <1>17, <1>18, <1>19, MakeDim DEF DimOf

\* A dimension with its edges, or its elements, changed.
WithChildren(dim, ch) == [dim EXCEPT !.children = ch]
WithElements(dim, els) == [dim EXCEPT !.elements = els]
WithAttributes(dim, attrs) == [dim EXCEPT !.attributes = attrs]

LEMMA WithChildrenOK ==
  ASSUME NEW dim, DimOK(dim), NEW ch2, TreeOK(ch2, Len(dim.elements)), ParentsOK(dim.elements, ch2)
  PROVE  /\ DimOK(WithChildren(dim, ch2))
         /\ WithChildren(dim, ch2).elements = dim.elements /\ WithChildren(dim, ch2).children = ch2
<1>1. PICK els, ch, attrs, rows, names, aliases :
        /\ els = dim.elements /\ ch = dim.children /\ attrs = dim.attributes /\ rows = dim.values
        /\ names = dim.byName /\ aliases = dim.byAlias /\ dim = DimOf(els, ch, attrs, rows, names, aliases)
  BY DimIsOf DEF DimOK
<1>2. /\ ElementsOK(els) /\ RowsOK(rows, attrs, Len(els)) /\ NamesFound(names, els)
      /\ AliasesFound(aliases, rows, attrs) /\ TreeOK(ch2, Len(els)) /\ ParentsOK(els, ch2)
  BY <1>1 DEF DimOK
<1>3. [DimOf(els, ch, attrs, rows, names, aliases) EXCEPT !.children = ch2] = DimOf(els, ch2, attrs, rows, names, aliases)
  BY DEF DimOf
<1>4. PICK new : new = WithChildren(dim, ch2)
  BY ONLY TRUE, SMTT(30)
<1>5. new = DimOf(els, ch2, attrs, rows, names, aliases)
  BY ONLY <1>1, <1>3, <1>4 DEF WithChildren
<1>6. DimOK(new)
  BY ONLY <1>2, <1>5, MakeDim DEF DimOf
<1>7. new.elements = els /\ new.children = ch2
  BY ONLY <1>5 DEF DimOf
<1> QED BY ONLY <1>1, <1>4, <1>6, <1>7

LEMMA WithElementsOK ==
  ASSUME NEW dim, DimOK(dim), NEW els2, ElementsOK(els2), Len(els2) = Len(dim.elements),
         \A i \in DOMAIN els2 : els2[i].name = dim.elements[i].name, ParentsOK(els2, dim.children)
  PROVE  /\ DimOK(WithElements(dim, els2))
         /\ WithElements(dim, els2).elements = els2 /\ WithElements(dim, els2).children = dim.children
<1>1. PICK els, ch, attrs, rows, names, aliases :
        /\ els = dim.elements /\ ch = dim.children /\ attrs = dim.attributes /\ rows = dim.values
        /\ names = dim.byName /\ aliases = dim.byAlias /\ dim = DimOf(els, ch, attrs, rows, names, aliases)
  BY DimIsOf DEF DimOK
<1>2. /\ ElementsOK(els) /\ TreeOK(ch, Len(els2)) /\ RowsOK(rows, attrs, Len(els2)) /\ NamesFound(names, els)
      /\ AliasesFound(aliases, rows, attrs) /\ ParentsOK(els2, ch)
  BY <1>1 DEF DimOK
<1>3. [DimOf(els, ch, attrs, rows, names, aliases) EXCEPT !.elements = els2] = DimOf(els2, ch, attrs, rows, names, aliases)
  BY DEF DimOf
<1>4. PICK new : new = WithElements(dim, els2)
  BY ONLY TRUE
<1>5. new = DimOf(els2, ch, attrs, rows, names, aliases)
  <2>1. new = [dim EXCEPT !.elements = els2]
    BY ONLY <1>4 DEF WithElements
  <2>2. PICK e : e = [DimOf(els, ch, attrs, rows, names, aliases) EXCEPT !.elements = els2]
    BY ONLY TRUE
  <2>3. new = e
    BY ONLY <1>1, <2>1, <2>2
  <2>4. e = DimOf(els2, ch, attrs, rows, names, aliases)
    BY ONLY <1>3, <2>2
  <2> QED BY ONLY <2>3, <2>4
<1>6. NamesFound(names, els2)
  <2>1. DOMAIN els2 = DOMAIN els
    BY <1>1, <1>2, SeqIs DEF ElementsOK
  <2>2. \A i \in DOMAIN els2 : els2[i].name = els[i].name
    BY <1>1
  <2> QED BY ONLY <1>2, <2>1, <2>2, SMTT(30) DEF NamesFound
<1>7. DimOK(new)
  BY ONLY ElementsOK(els2), <1>2, <1>5, <1>6, MakeDim DEF DimOf
<1>8. new.elements = els2 /\ new.children = ch
  BY ONLY <1>5 DEF DimOf
<1> QED BY ONLY <1>1, <1>4, <1>7, <1>8

\* Columns added, with no value in them yet.
LEMMA WithAttributesOK ==
  ASSUME NEW dim, DimOK(dim), NEW attrs2, ASequence(attrs2), DOMAIN dim.attributes \subseteq DOMAIN attrs2,
         \A a \in DOMAIN dim.attributes : attrs2[a] = dim.attributes[a]
  PROVE  DimOK(WithAttributes(dim, attrs2)) /\ WithAttributes(dim, attrs2).elements = dim.elements
         /\ WithAttributes(dim, attrs2).byName = dim.byName /\ WithAttributes(dim, attrs2).attributes = attrs2
<1>1. PICK els, ch, attrs, rows, names, aliases :
        /\ els = dim.elements /\ ch = dim.children /\ attrs = dim.attributes /\ rows = dim.values
        /\ names = dim.byName /\ aliases = dim.byAlias /\ dim = DimOf(els, ch, attrs, rows, names, aliases)
  BY DimIsOf DEF DimOK
<1>2. /\ ElementsOK(els) /\ TreeOK(ch, Len(els)) /\ RowsOK(rows, attrs, Len(els)) /\ NamesFound(names, els)
      /\ AliasesFound(aliases, rows, attrs) /\ ParentsOK(els, ch)
  BY <1>1 DEF DimOK
<1>3. [DimOf(els, ch, attrs, rows, names, aliases) EXCEPT !.attributes = attrs2] = DimOf(els, ch, attrs2, rows, names, aliases)
  BY SMTT(30) DEF DimOf
<1>4. PICK new : new = WithAttributes(dim, attrs2)
  BY ONLY TRUE
<1>5. new = DimOf(els, ch, attrs2, rows, names, aliases)
  BY ONLY <1>1, <1>3, <1>4 DEF WithAttributes
<1>6. DOMAIN attrs \subseteq DOMAIN attrs2 /\ \A a \in DOMAIN attrs : attrs2[a] = attrs[a]
  BY <1>1
<1>7. RowsOK(rows, attrs2, Len(els))
  BY ONLY <1>2, <1>6, ASequence(attrs2) DEF RowsOK
<1>8. DOMAIN rows = 1 .. Len(els)
  BY ONLY <1>2, SeqIs DEF RowsOK
<1>9. \A e \in DOMAIN rows : Carried(rows[e], attrs2) = Carried(rows[e], attrs)
  <2> SUFFICES ASSUME NEW e \in DOMAIN rows PROVE Carried(rows[e], attrs2) = Carried(rows[e], attrs)
    OBVIOUS
  <2>1. DOMAIN rows[e] \subseteq DOMAIN attrs
    BY <1>2, <1>8 DEF RowsOK
  <2>2. \A a \in DOMAIN rows[e] : a \in AliasColumns(attrs2) <=> a \in AliasColumns(attrs)
    BY <2>1, <1>6 DEF AliasColumns
  <2>3. (DOMAIN rows[e] \cap AliasColumns(attrs2)) \ {} = (DOMAIN rows[e] \cap AliasColumns(attrs)) \ {}
    BY <2>2
  <2> QED BY <2>3 DEF Carried
<1>10. AliasesFound(aliases, rows, attrs2)
  <2>1. \A e \in DOMAIN rows : \A x \in Carried(rows[e], attrs2) : x \in DOMAIN aliases /\ aliases[x] = e
    BY ONLY <1>2, <1>9 DEF AliasesFound
  <2>2. \A x \in DOMAIN aliases : aliases[x] \in DOMAIN rows /\ x \in Carried(rows[aliases[x]], attrs2)
    <3> SUFFICES ASSUME NEW x \in DOMAIN aliases
                 PROVE  aliases[x] \in DOMAIN rows /\ x \in Carried(rows[aliases[x]], attrs2)
      OBVIOUS
    <3>1. aliases[x] \in DOMAIN rows /\ x \in Carried(rows[aliases[x]], attrs)
      BY <1>2 DEF AliasesFound
    <3> QED BY ONLY <1>9, <3>1
  <2> QED BY ONLY <1>2, <2>1, <2>2 DEF AliasesFound
<1>11. DimOK(new)
  BY ONLY <1>2, <1>5, <1>7, <1>10, MakeDim DEF DimOf
<1>12. new.elements = els /\ new.byName = names /\ new.attributes = attrs2
  BY ONLY <1>5 DEF DimOf
<1> QED BY ONLY <1>1, <1>4, <1>11, <1>12

\* One element retyped, or pinned.
LEMMA OneElementChanged ==
  ASSUME NEW dim, DimOK(dim), NEW e \in DOMAIN dim.elements, NEW new,
         new = [name |-> new.name, kind |-> new.kind, pinned |-> new.pinned], new.name = dim.elements[e].name,
         new.kind \in ElementKinds, ChildSet(dim.children[e]) # {} => new.kind = Consolidated,
         NEW els2, els2 = [dim.elements EXCEPT ![e] = new]
  PROVE  /\ DimOK(WithElements(dim, els2)) /\ DOMAIN els2 = DOMAIN dim.elements /\ els2[e] = new
         /\ WithElements(dim, els2).elements = els2 /\ WithElements(dim, els2).children = dim.children
<1>1. PICK els : els = dim.elements
  BY ONLY TRUE
<1>2. PICK n \in Nat : n = Len(els) /\ DOMAIN els = 1 .. n /\ els = [i \in 1 .. n |-> els[i]] /\ ElementsOK(els)
  BY <1>1, DimFacts, SeqIs DEF DimOK
<1>3. /\ DOMAIN els2 = 1 .. n /\ els2[e] = new /\ (\A i \in 1 .. n : i # e => els2[i] = els[i])
      /\ els2 = [i \in 1 .. n |-> els2[i]]
  BY <1>1, <1>2
<1>4. ASequence(els2) /\ Len(els2) = n
  BY <1>3, ListIsSeq
<1>5. ElementsOK(els2)
  BY ONLY <1>2, <1>3, <1>4, new = [name |-> new.name, kind |-> new.kind, pinned |-> new.pinned],
          new.kind \in ElementKinds DEF ElementsOK
<1>6. \A i \in DOMAIN els2 : els2[i].name = els[i].name
  BY <1>1, <1>3
<1>7. ParentsOK(els2, dim.children)
  BY <1>1, <1>2, <1>3 DEF DimOK, ParentsOK
<1>8. Len(els2) = Len(dim.elements)
  BY <1>1, <1>2, <1>4
<1>9. \A i \in DOMAIN els2 : els2[i].name = dim.elements[i].name
  BY <1>1, <1>6
<1>10. /\ DimOK(WithElements(dim, els2))
       /\ WithElements(dim, els2).elements = els2 /\ WithElements(dim, els2).children = dim.children
  BY ONLY DimOK(dim), <1>5, <1>8, <1>9, <1>7, WithElementsOK
<1> QED BY <1>1, <1>2, <1>3, <1>10

LEMMA NoChildren ==
  ASSUME NEW edges, edges = <<>>
  PROVE  ChildSet(edges) = {}
BY NoEdges

LEMMA WithKindOK ==
  ASSUME NEW dim, DimOK(dim), NEW e \in DOMAIN dim.elements, NEW kind \in ElementKinds,
         kind = Consolidated \/ CanSetKind(dim, e, kind)
  PROVE  /\ DimOK(WithKind(dim, e, kind)) /\ DOMAIN WithKind(dim, e, kind).elements = DOMAIN dim.elements
         /\ WithKind(dim, e, kind).elements[e].kind = kind /\ WithKind(dim, e, kind).children = dim.children
         /\ PlacesStay(WithKind(dim, e, kind), dim, e)
<1>1. PICK was : was = dim.elements[e]
  BY ONLY TRUE
<1>2. was = [name |-> was.name, kind |-> was.kind, pinned |-> was.pinned] /\ was.kind \in ElementKinds
  BY <1>1 DEF DimOK, ElementsOK
<1>3. PICK new : new = [name |-> was.name, kind |-> kind, pinned |-> was.pinned]
  BY ONLY TRUE
<1>4. [was EXCEPT !.kind = kind] = new
  BY ONLY <1>2, <1>3
<1>5. PICK els2 : els2 = [dim.elements EXCEPT ![e] = new]
  BY ONLY TRUE
<1>6. WithKind(dim, e, kind) = WithElements(dim, els2)
  BY <1>1, <1>4, <1>5 DEF WithKind, WithElements
<1>7. new.name = was.name /\ new.kind = kind /\ new = [name |-> new.name, kind |-> new.kind, pinned |-> new.pinned]
  BY ONLY <1>3
<1>8. ChildSet(dim.children[e]) # {} => kind = Consolidated
  <2>1. ChildSet(dim.children[e]) # {} => dim.children[e] # <<>> /\ dim.elements[e].kind = Consolidated
    BY NoChildren DEF DimOK, ParentsOK
  <2> QED BY <2>1 DEF CanSetKind
<1>9. /\ DimOK(WithElements(dim, els2)) /\ DOMAIN els2 = DOMAIN dim.elements /\ els2[e] = new
      /\ WithElements(dim, els2).elements = els2 /\ WithElements(dim, els2).children = dim.children
  <2>1. new.name = dim.elements[e].name /\ new.kind \in ElementKinds /\ (ChildSet(dim.children[e]) # {} => new.kind = Consolidated)
    BY <1>1, <1>7, <1>8
  <2> QED BY ONLY DimOK(dim), e \in DOMAIN dim.elements, <1>5, <1>7, <2>1, OneElementChanged
<1>10. PlacesStay(WithElements(dim, els2), dim, e)
  <2>1. \A i \in DOMAIN els2 : els2[i].name = dim.elements[i].name /\ (i # e => els2[i] = dim.elements[i])
    BY ONLY <1>1, <1>5, <1>7, <1>9
  <2> QED BY ONLY <1>9, <2>1 DEF PlacesStay
<1> QED BY ONLY <1>6, <1>7, <1>9, <1>10

LEMMA PinnedOK ==
  ASSUME NEW dim, DimOK(dim), NEW e \in DOMAIN dim.elements, NEW up
  PROVE  DimOK(Pinned(dim, e, up)) /\ PlacesStay(Pinned(dim, e, up), dim, Gone) /\ SamePlaces(Pinned(dim, e, up), dim)
<1>1. PICK was : was = dim.elements[e]
  BY ONLY TRUE
<1>2. was = [name |-> was.name, kind |-> was.kind, pinned |-> was.pinned] /\ was.kind \in ElementKinds
  BY <1>1 DEF DimOK, ElementsOK
<1>3. PICK new : new = [name |-> was.name, kind |-> was.kind, pinned |-> up]
  BY ONLY TRUE
<1>4. [was EXCEPT !.pinned = up] = new
  BY ONLY <1>2, <1>3
<1>5. PICK els2 : els2 = [dim.elements EXCEPT ![e] = new]
  BY ONLY TRUE
<1>6. Pinned(dim, e, up) = WithElements(dim, els2)
  BY <1>1, <1>4, <1>5 DEF Pinned, WithElements
<1>7. new.name = was.name /\ new.kind = was.kind /\ new = [name |-> new.name, kind |-> new.kind, pinned |-> new.pinned]
  BY ONLY <1>3
<1>8. ChildSet(dim.children[e]) # {} => was.kind = Consolidated
  BY <1>1 DEF DimOK, ParentsOK
<1>9. /\ DimOK(WithElements(dim, els2)) /\ DOMAIN els2 = DOMAIN dim.elements /\ els2[e] = new
      /\ WithElements(dim, els2).elements = els2
  <2>1. new.name = dim.elements[e].name /\ new.kind \in ElementKinds /\ (ChildSet(dim.children[e]) # {} => new.kind = Consolidated)
    BY <1>1, <1>2, <1>7, <1>8
  <2> QED BY ONLY DimOK(dim), e \in DOMAIN dim.elements, <1>5, <1>7, <2>1, OneElementChanged
<1>10. PlacesStay(WithElements(dim, els2), dim, Gone)
  <2>1. \A i \in DOMAIN els2 : els2[i].name = dim.elements[i].name /\ els2[i].kind = dim.elements[i].kind
    BY ONLY <1>1, <1>5, <1>7, <1>9
  <2> QED BY ONLY <1>9, <2>1 DEF PlacesStay
<1> QED BY ONLY <1>6, <1>9, <1>10 DEF SamePlaces

LEMMA AddChildOK ==
  ASSUME NEW dim, DimOK(dim), NEW parent \in DOMAIN dim.elements, NEW child \in DOMAIN dim.elements, NEW weight,
         CanAddChild(dim, parent, child), child \notin ChildSet(dim.children[parent])
  PROVE  DimOK(AddChild(dim, parent, child, weight)) /\ AddChild(dim, parent, child, weight).elements = dim.elements
<1>1. PICK ch, els : ch = dim.children /\ els = dim.elements
  BY ONLY TRUE
<1>2. PICK n \in Nat : n = Len(els) /\ DOMAIN els = 1 .. n /\ TreeOK(ch, n) /\ ParentsOK(els, ch)
  BY <1>1, DimFacts DEF DimOK
<1>3. PICK more : more = [ch EXCEPT ![parent] = Append(@, Edge(child, weight))]
  BY ONLY TRUE
<1>4. AddChild(dim, parent, child, weight) = WithChildren(dim, more)
  BY <1>1, <1>3 DEF AddChild, WithChildren
<1>5. parent \in 1 .. n /\ child \in 1 .. n /\ child \notin ChildSet(ch[parent]) /\ els[parent].kind = Consolidated
  BY <1>1, <1>2 DEF CanAddChild
<1>6. Apart(ch, child, parent)
  <2>1. ~Reaches(ch, child, parent)
    BY <1>1 DEF CanAddChild
  <2>2. ListsOK(ch, n)
    BY <1>2 DEF TreeOK
  <2> QED BY ONLY n \in Nat, <1>5, <2>1, <2>2, NotReached
<1>7. TreeOK(more, n) /\ AlsoHas(more, ch, n, parent, child)
  <2>1. OneMore(more, ch, parent, Edge(child, weight))
    BY <1>3 DEF OneMore
  <2> QED BY ONLY n \in Nat, <1>2, <2>1, <1>5, <1>6, OneEdgeMore
<1>8. ParentsOK(els, more)
  BY ONLY <1>2, <1>5, <1>7 DEF ParentsOK, AlsoHas
<1>9. DimOK(WithChildren(dim, more)) /\ WithChildren(dim, more).elements = dim.elements
  <2>1. TreeOK(more, Len(dim.elements)) /\ ParentsOK(dim.elements, more)
    BY <1>1, <1>2, <1>7, <1>8
  <2> QED BY ONLY DimOK(dim), <2>1, WithChildrenOK
<1> QED BY ONLY <1>4, <1>9

\* Some lists without one child of theirs.
LEMMA EdgesTaken ==
  ASSUME NEW n \in Nat, NEW ch, TreeOK(ch, n), NEW c, NEW less, less = [p \in 1 .. n |-> less[p]],
         \A p \in 1 .. n : less[p] = ch[p] \/ less[p] = Without(ch[p], c)
  PROVE  /\ TreeOK(less, n)
         /\ \A p \in 1 .. n : ChildSet(less[p]) \subseteq ChildSet(ch[p])
         /\ \A x, p \in 1 .. n : Apart(ch, x, p) => Apart(less, x, p)
<1>1. \A p \in 1 .. n : EdgesOK(ch[p], n)
  BY DEF TreeOK, ListsOK
<1>2. ASSUME NEW p \in 1 .. n PROVE EdgesOK(less[p], n) /\ ChildSet(less[p]) \subseteq ChildSet(ch[p])
  <2>1. EdgesOK(Without(ch[p], c), n) /\ ChildSet(Without(ch[p], c)) = ChildSet(ch[p]) \ {c}
    BY <1>1, WithoutOK
  <2> QED BY <1>1, <2>1
<1>3. ASequence(less) /\ Len(less) = n
  BY ListIsSeq
<1>4. ListsOK(less, n)
  BY <1>2, <1>3 DEF ListsOK
<1>5. \A p \in 1 .. n : ChildSet(less[p]) \subseteq ChildSet(ch[p])
  BY <1>2
<1> QED BY ONLY n \in Nat, TreeOK(ch, n), <1>4, <1>5, FewerEdges

LEMMA RemoveChildOK ==
  ASSUME NEW dim, DimOK(dim), NEW parent \in DOMAIN dim.elements, NEW child
  PROVE  DimOK(RemoveChild(dim, parent, child)) /\ RemoveChild(dim, parent, child).elements = dim.elements
<1>1. PICK ch, els : ch = dim.children /\ els = dim.elements
  BY ONLY TRUE
<1>2. PICK n \in Nat : n = Len(els) /\ DOMAIN els = 1 .. n /\ DOMAIN ch = 1 .. n /\ TreeOK(ch, n) /\ ParentsOK(els, ch)
                       /\ ASequence(ch) /\ Len(ch) = n
  BY <1>1, DimFacts DEF DimOK
<1>3. PICK less : less = [ch EXCEPT ![parent] = Without(@, child)]
  BY ONLY TRUE
<1>4. RemoveChild(dim, parent, child) = WithChildren(dim, less)
  BY <1>1, <1>3 DEF RemoveChild, WithChildren
<1>5. ch = [p \in 1 .. n |-> ch[p]]
  BY <1>2, SeqIs
<1>6. /\ less = [p \in 1 .. n |-> less[p]]
      /\ \A p \in 1 .. n : less[p] = ch[p] \/ less[p] = Without(ch[p], child)
  BY ONLY <1>3, <1>5
<1>7. TreeOK(less, n) /\ \A p \in 1 .. n : ChildSet(less[p]) \subseteq ChildSet(ch[p])
  BY <1>2, <1>6, EdgesTaken
<1>8. ParentsOK(els, less)
  BY <1>2, <1>7 DEF ParentsOK
<1>9. DimOK(WithChildren(dim, less)) /\ WithChildren(dim, less).elements = dim.elements
  <2>1. TreeOK(less, Len(dim.elements)) /\ ParentsOK(dim.elements, less)
    BY <1>1, <1>2, <1>7, <1>8
  <2> QED BY ONLY DimOK(dim), <2>1, WithChildrenOK
<1> QED BY ONLY <1>4, <1>9

LEMMA ReparentedOK ==
  ASSUME NEW dim, DimOK(dim), NEW child \in DOMAIN dim.elements, NEW parent \in DOMAIN dim.elements \cup {Gone},
         CanReparent(dim, child, parent), NEW weight
  PROVE  DimOK(Reparented(dim, child, parent, weight)) /\ PlacesStay(Reparented(dim, child, parent, weight), dim, parent)
         /\ (parent # Gone => Reparented(dim, child, parent, weight).elements[parent].kind = Consolidated)
         /\ SamePlaces(Reparented(dim, child, parent, weight), dim)
<1>1. PICK ch, els : ch = dim.children /\ els = dim.elements
  BY ONLY TRUE
<1>2. PICK n \in Nat : n = Len(els) /\ DOMAIN els = 1 .. n /\ DOMAIN ch = 1 .. n /\ TreeOK(ch, n) /\ ParentsOK(els, ch)
  BY <1>1, DimFacts DEF DimOK
<1>3. PICK kept : kept = [p \in DOMAIN dim.children |-> Without(dim.children[p], child)]
  BY ONLY TRUE
<1>4. kept = [p \in 1 .. n |-> kept[p]] /\ \A p \in 1 .. n : kept[p] = Without(ch[p], child)
  BY <1>1, <1>2, <1>3
<1>5. /\ TreeOK(kept, n)
      /\ \A p \in 1 .. n : ChildSet(kept[p]) \subseteq ChildSet(ch[p])
      /\ \A x, p \in 1 .. n : Apart(ch, x, p) => Apart(kept, x, p)
  BY ONLY n \in Nat, <1>2, <1>4, EdgesTaken
<1>6. CASE parent = Gone
  <2>1. Reparented(dim, child, parent, weight) = WithChildren(dim, kept)
    BY <1>3, <1>6 DEF Reparented, WithChildren
  <2>2. ParentsOK(els, kept)
    BY <1>2, <1>5 DEF ParentsOK
  <2>3. TreeOK(kept, Len(dim.elements)) /\ ParentsOK(dim.elements, kept)
    BY <1>1, <1>2, <1>5, <2>2
  <2>4. DimOK(WithChildren(dim, kept)) /\ WithChildren(dim, kept).elements = dim.elements
    BY ONLY DimOK(dim), <2>3, WithChildrenOK
  <2>5. PlacesStay(WithChildren(dim, kept), dim, parent) /\ SamePlaces(WithChildren(dim, kept), dim)
    BY ONLY <2>4, SameElements
  <2> QED BY ONLY <1>6, <2>1, <2>4, <2>5
<1>7. CASE parent # Gone
  <2>1. PICK more : more = [kept EXCEPT ![parent] = Append(@, Edge(child, weight))]
    BY ONLY TRUE
  <2>2. PICK held : held = WithKind(dim, parent, Consolidated)
    BY ONLY TRUE
  <2>3. Reparented(dim, child, parent, weight) = WithChildren(held, more)
    <3>1. Reparented(dim, child, parent, weight) = [dim EXCEPT !.elements[parent].kind = Consolidated, !.children = more]
      BY <1>3, <1>7, <2>1 DEF Reparented
    <3>2. [dim EXCEPT !.elements[parent].kind = Consolidated, !.children = more] =
          [[dim EXCEPT !.elements[parent].kind = Consolidated] EXCEPT !.children = more]
      OBVIOUS
    <3> QED BY ONLY <2>2, <3>1, <3>2 DEF WithKind, WithChildren
  <2>4. parent \in 1 .. n /\ child \in 1 .. n /\ parent \in DOMAIN dim.elements
    BY <1>1, <1>2, <1>7
  <2>5. /\ DimOK(held) /\ DOMAIN held.elements = DOMAIN dim.elements
        /\ held.elements[parent].kind = Consolidated /\ held.children = dim.children /\ PlacesStay(held, dim, parent)
    <3>1. Consolidated \in ElementKinds
      BY DEF ElementKinds
    <3> QED BY ONLY DimOK(dim), <2>2, <2>4, <3>1, WithKindOK
  <2>6. PICK els2 : els2 = held.elements
    BY ONLY TRUE
  <2>7. Len(els2) = n /\ DOMAIN els2 = 1 .. n /\ ParentsOK(els2, ch) /\ els2[parent].kind = Consolidated
    <3>1. Len(els2) \in Nat /\ DOMAIN els2 = 1 .. Len(els2)
      BY ONLY <2>5, <2>6, DimFacts
    <3>2. 1 .. Len(els2) = 1 .. n
      BY <3>1, <2>5, <2>6, <1>1, <1>2
    <3>3. Len(els2) = n
      <4>1. PICK m \in Nat : m = Len(els2) /\ 1 .. m = 1 .. n
        BY <3>1, <3>2
      <4>2. ~(m < n)
        <5>1. m < n => n \in 1 .. n /\ n \notin 1 .. m
          OBVIOUS
        <5> QED BY ONLY <4>1, <5>1
      <4>3. ~(n < m)
        <5>1. n < m => m \in 1 .. m /\ m \notin 1 .. n
          OBVIOUS
        <5> QED BY ONLY <4>1, <5>1
      <4> QED BY ONLY n \in Nat, <4>1, <4>2, <4>3, SMTT(30)
    <3> QED BY <3>1, <3>2, <3>3, <2>5, <2>6, <1>1 DEF DimOK
  <2>8. Apart(kept, child, parent)
    <3>1. ~Reaches(ch, child, parent)
      BY <1>1, <1>7 DEF CanReparent
    <3>2. ListsOK(ch, n)
      BY <1>2 DEF TreeOK
    <3>3. Apart(ch, child, parent)
      BY ONLY n \in Nat, <2>4, <3>1, <3>2, NotReached
    <3> QED BY ONLY <3>3, <1>5, <2>4
  <2>9. child \notin ChildSet(kept[parent])
    <3>1. EdgesOK(ch[parent], n)
      BY <1>2, <2>4 DEF TreeOK, ListsOK
    <3>2. ChildSet(Without(ch[parent], child)) = ChildSet(ch[parent]) \ {child}
      BY ONLY <3>1, WithoutOK
    <3>3. kept[parent] = Without(ch[parent], child)
      BY ONLY <1>4, <2>4
    <3> QED BY ONLY <3>2, <3>3
  <2>10. TreeOK(more, n) /\ AlsoHas(more, kept, n, parent, child)
    <3>1. OneMore(more, kept, parent, Edge(child, weight))
      BY ONLY <2>1 DEF OneMore
    <3> QED BY ONLY n \in Nat, <1>5, <2>4, <2>8, <2>9, <3>1, OneEdgeMore
  <2>11. ParentsOK(els2, more)
    <3>1. ASSUME NEW p \in 1 .. n, ChildSet(more[p]) # {} PROVE els2[p].kind = Consolidated
      <4>1. CASE p = parent
        BY <4>1, <2>7
      <4>2. CASE p # parent
        <5>1. ChildSet(more[p]) = ChildSet(kept[p])
          BY <4>2, <2>10 DEF AlsoHas
        <5>2. ChildSet(ch[p]) # {}
          BY <3>1, <5>1, <1>5
        <5> QED BY <5>2, <2>7 DEF ParentsOK
      <4> QED BY <4>1, <4>2
    <3> QED BY <3>1, <2>7 DEF ParentsOK
  <2>12. TreeOK(more, Len(held.elements)) /\ ParentsOK(held.elements, more)
    BY ONLY <2>6, <2>7, <2>10, <2>11
  <2>13. DimOK(WithChildren(held, more)) /\ WithChildren(held, more).elements = held.elements
    BY ONLY <2>5, <2>12, WithChildrenOK
  <2> QED BY ONLY <2>3, <2>5, <2>13 DEF PlacesStay, SamePlaces
<1> QED BY <1>6, <1>7

LEMMA AddAttributeOK ==
  ASSUME NEW dim, DimOK(dim), NEW name, NEW kind
  PROVE  DimOK(AddAttribute(dim, name, kind)) /\ AddAttribute(dim, name, kind).elements = dim.elements
<1>1. PICK attrs, new : attrs = dim.attributes /\ new = [name |-> name, kind |-> kind]
  BY ONLY TRUE
<1>2. ASequence(attrs) /\ Len(attrs) \in Nat /\ DOMAIN attrs = 1 .. Len(attrs)
  BY <1>1, DimFacts, SeqIs
<1>3. PICK attrs2 : attrs2 = Append(attrs, new)
  BY ONLY TRUE
<1>4. AddAttribute(dim, name, kind) = WithAttributes(dim, attrs2)
  BY <1>1, <1>3 DEF AddAttribute, WithAttributes
<1>5. ASequence(attrs2) /\ DOMAIN attrs2 = 1 .. (Len(attrs) + 1) /\ \A i \in 1 .. Len(attrs) : attrs2[i] = attrs[i]
  BY ONLY <1>2, <1>3, AppendIs
<1>6. DOMAIN dim.attributes \subseteq DOMAIN attrs2 /\ \A a \in DOMAIN dim.attributes : attrs2[a] = dim.attributes[a]
  BY <1>1, <1>2, <1>5
<1> QED BY ONLY DimOK(dim), <1>4, <1>5, <1>6, WithAttributesOK

\* What a row carries beside column a, and in it.
Rest(row, attrs, a) == {row[b] : b \in (DOMAIN row \cap AliasColumns(attrs)) \ {a}}
InColumn(row, attrs, a) == {row[b] : b \in (DOMAIN row \cap AliasColumns(attrs)) \cap {a}}

LEMMA RowSet ==
  ASSUME NEW row, NEW attrs, NEW a, NEW value, NEW row2, Binds(row2, row, a, value)
  PROVE  /\ a \in AliasColumns(attrs) => Carried(row2, attrs) = Rest(row, attrs, a) \cup {value}
         /\ Carried(row, attrs) = Rest(row, attrs, a) \cup InColumn(row, attrs, a)
<1>1. DOMAIN row2 = DOMAIN row \cup {a} /\ row2[a] = value /\ \A b \in DOMAIN row : b # a => row2[b] = row[b]
  BY DEF Binds
<1>2. ASSUME NEW x, a \in AliasColumns(attrs)
      PROVE  x \in Carried(row2, attrs) <=> x \in Rest(row, attrs, a) \cup {value}
  BY <1>1, <1>2 DEF Carried, Rest
<1>3. ASSUME NEW x PROVE x \in Carried(row, attrs) <=> x \in Rest(row, attrs, a) \cup InColumn(row, attrs, a)
  BY DEF Carried, Rest, InColumn
<1> QED BY <1>2, <1>3

LEMMA RowKept ==
  ASSUME NEW row, NEW attrs, NEW a, a \notin AliasColumns(attrs), NEW value, NEW row2, Binds(row2, row, a, value)
  PROVE  Carried(row2, attrs) = Carried(row, attrs)
<1>1. DOMAIN row2 = DOMAIN row \cup {a} /\ row2[a] = value /\ \A b \in DOMAIN row : b # a => row2[b] = row[b]
  BY DEF Binds
<1>2. ASSUME NEW x PROVE x \in Carried(row2, attrs) <=> x \in Carried(row, attrs)
  BY <1>1 DEF Carried
<1> QED BY <1>2

\* Rows that differ in one; the aliases to forget; and the map without them.
RowSetIn(rows2, rows, e, row2) ==
  /\ DOMAIN rows2 = DOMAIN rows /\ e \in DOMAIN rows /\ rows2[e] = row2
  /\ \A f \in DOMAIN rows : f # e => rows2[f] = rows[f]
Stale(stale, own, rest, value, e, aliases) ==
  \A x : x \in stale <=> /\ x \in own /\ x # value
                         /\ x \in DOMAIN aliases /\ aliases[x] = e /\ x \notin rest
Spares(left, aliases, stale) == DOMAIN left = DOMAIN aliases \ stale /\ \A x \in DOMAIN left : left[x] = aliases[x]

\* A value set: the aliases still found are those still carried.
LEMMA ForgetsTheStale ==
  ASSUME NEW rows, NEW attrs, NEW aliases, AliasesFound(aliases, rows, attrs), NEW e, NEW a,
         a \in AliasColumns(attrs), NEW value, value \in DOMAIN aliases => aliases[value] = e,
         NEW row2, Binds(row2, rows[e], a, value), NEW rows2, RowSetIn(rows2, rows, e, row2),
         NEW stale, Stale(stale, InColumn(rows[e], attrs, a), Rest(rows[e], attrs, a), value, e, aliases),
         NEW left, Spares(left, aliases, stale), NEW map, Binds(map, left, value, e)
  PROVE  AliasesFound(map, rows2, attrs)
<1>0. PICK n, rest, own : /\ n = DOMAIN rows
                          /\ rest = Rest(rows[e], attrs, a) /\ own = InColumn(rows[e], attrs, a)
  BY ONLY TRUE
<1>10. /\ DOMAIN rows = n /\ DOMAIN rows2 = n /\ e \in n /\ rows2[e] = row2 /\ \A f \in n : f # e => rows2[f] = rows[f]
  BY <1>0 DEF RowSetIn
<1>11. \A x : x \in stale <=> /\ x \in own /\ x # value
                              /\ x \in DOMAIN aliases /\ aliases[x] = e /\ x \notin rest
  BY <1>0 DEF Stale
<1>1. DOMAIN map = (DOMAIN aliases \ stale) \cup {value} /\ map[value] = e /\ IsMap(map)
      /\ \A x \in DOMAIN aliases \ stale : x # value => map[x] = aliases[x]
  BY DEF Binds, Spares
<1>2. /\ Carried(row2, attrs) = rest \cup {value}
      /\ Carried(rows[e], attrs) = rest \cup own
  BY <1>0, RowSet
<1>3. /\ \A f \in n : \A x \in Carried(rows[f], attrs) : x \in DOMAIN aliases /\ aliases[x] = f
      /\ \A x \in DOMAIN aliases : aliases[x] \in n /\ x \in Carried(rows[aliases[x]], attrs)
  BY <1>10 DEF AliasesFound
<1>4. ASSUME NEW f \in n, NEW x \in Carried(rows2[f], attrs) PROVE x \in DOMAIN map /\ map[x] = f
  <2>1. CASE f = e
    <3>1. x = value \/ x \in rest
      BY <1>2, <1>4, <1>10, <2>1
    <3>2. CASE x = value
      BY <3>2, <1>1, <2>1
    <3>3. CASE x # value
      <4>1. x \in rest /\ x \in Carried(rows[e], attrs)
        BY <3>1, <3>3, <1>2
      <4>2. x \in DOMAIN aliases /\ aliases[x] = e /\ x \notin stale
        BY <4>1, <1>3, <1>10, <1>11
      <4> QED BY <4>2, <3>3, <1>1, <2>1
    <3> QED BY <3>2, <3>3
  <2>2. CASE f # e
    <3>1. x \in Carried(rows[f], attrs)
      BY <2>2, <1>4, <1>10
    <3>2. x \in DOMAIN aliases /\ aliases[x] = f
      BY <3>1, <1>3
    <3>3. x # value /\ x \notin stale
      BY <3>2, <2>2, <1>11
    <3> QED BY <3>2, <3>3, <1>1
  <2> QED BY <2>1, <2>2
<1>5. ASSUME NEW x \in DOMAIN map PROVE map[x] \in n /\ x \in Carried(rows2[map[x]], attrs)
  <2>1. CASE x = value
    BY <2>1, <1>1, <1>2, <1>10
  <2>2. CASE x # value
    <3>1. x \in DOMAIN aliases /\ x \notin stale /\ map[x] = aliases[x]
      BY <2>2, <1>1
    <3>2. aliases[x] \in n /\ x \in Carried(rows[aliases[x]], attrs)
      BY <3>1, <1>3
    <3>3. CASE aliases[x] # e
      BY <3>1, <3>2, <3>3, <1>10
    <3>4. CASE aliases[x] = e
      <4>1. x \in rest \/ x \in own
        BY <1>2, <3>2, <3>4
      <4>2. x \in rest
        BY <4>1, <3>1, <3>4, <2>2, <1>11
      <4> QED BY <4>2, <3>1, <3>4, <1>2, <1>10
    <3> QED BY <3>3, <3>4
  <2> QED BY <2>1, <2>2
<1> QED BY <1>1, <1>4, <1>5, <1>10 DEF AliasesFound, IsMap

LEMMA AttributeIndexIs ==
  ASSUME NEW dim, NEW name
  PROVE  AttributeIndex(dim, name) # Gone => AttributeIndex(dim, name) \in DOMAIN dim.attributes
BY DEF AttributeIndex

LEMMA SetAttributeOK ==
  ASSUME NEW dim, DimOK(dim), NEW e \in DOMAIN dim.elements, NEW attribute, NEW value,
         CanSetAttribute(dim, e, attribute, value)
  PROVE  DimOK(SetAttribute(dim, e, attribute, value))
         /\ SetAttribute(dim, e, attribute, value).elements = dim.elements
<1>1. PICK els, ch, attrs, rows, names, aliases :
        /\ els = dim.elements /\ ch = dim.children /\ attrs = dim.attributes /\ rows = dim.values
        /\ names = dim.byName /\ aliases = dim.byAlias /\ dim = DimOf(els, ch, attrs, rows, names, aliases)
  BY DimIsOf DEF DimOK
<1>2. PICK n \in Nat : n = Len(els)
  BY <1>1, DimFacts
<1>3. /\ DOMAIN els = 1 .. n /\ DOMAIN rows = 1 .. n /\ rows = [i \in 1 .. n |-> rows[i]] /\ ElementsOK(els)
      /\ TreeOK(ch, n) /\ ParentsOK(els, ch) /\ RowsOK(rows, attrs, n) /\ NamesFound(names, els)
      /\ AliasesFound(aliases, rows, attrs)
  <2>1. /\ ElementsOK(dim.elements) /\ TreeOK(dim.children, Len(dim.elements)) /\ ParentsOK(dim.elements, dim.children)
        /\ RowsOK(dim.values, dim.attributes, Len(dim.elements)) /\ NamesFound(dim.byName, dim.elements)
        /\ AliasesFound(dim.byAlias, dim.values, dim.attributes)
    BY ONLY DimOK(dim) DEF DimOK
  <2>2. /\ DOMAIN dim.elements = 1 .. Len(dim.elements) /\ DOMAIN dim.values = 1 .. Len(dim.elements)
        /\ ASequence(dim.values) /\ Len(dim.values) = Len(dim.elements)
    BY ONLY DimOK(dim), DimFacts
  <2>3. /\ els = dim.elements /\ ch = dim.children /\ attrs = dim.attributes /\ rows = dim.values
        /\ names = dim.byName /\ aliases = dim.byAlias
    BY ONLY <1>1
  <2>4. rows = [i \in 1 .. n |-> rows[i]]
    BY ONLY <1>2, <2>2, <2>3, SeqIs, SMTT(30)
  <2> QED BY ONLY <1>2, <2>1, <2>2, <2>3, <2>4
<1>4. PICK a : a = AttributeIndex(dim, attribute)
  BY ONLY TRUE
<1>5. a \in DOMAIN attrs /\ e \in 1 .. n
  BY <1>1, <1>3, <1>4, AttributeIndexIs DEF CanSetAttribute
<1>6. PICK row2 : row2 = Bind(rows[e], a, value)
  BY ONLY TRUE
<1>7. PICK rows2 : rows2 = [rows EXCEPT ![e] = row2]
  BY ONLY TRUE
<1>8. /\ DOMAIN rows2 = 1 .. n /\ rows2[e] = row2 /\ (\A f \in 1 .. n : f # e => rows2[f] = rows[f])
      /\ rows2 = [i \in 1 .. n |-> rows2[i]]
  BY <1>3, <1>5, <1>7
<1>9. Binds(row2, rows[e], a, value)
  BY ONLY <1>6, BindIs
<1>10. RowsOK(rows2, attrs, n)
  <2>1. ASequence(rows2) /\ Len(rows2) = n
    BY <1>8, ListIsSeq
  <2>2. DOMAIN row2 = DOMAIN rows[e] \cup {a}
    BY <1>9 DEF Binds
  <2> QED BY ONLY <2>1, <2>2, <1>3, <1>5, <1>8 DEF RowsOK
<1>11. a \in AliasColumns(attrs) <=> a \in AliasAttributes(dim)
  BY <1>1 DEF AliasColumns, AliasAttributes
<1> DEFINE stale == {old \in AliasesOf(dim, e, {b \in DOMAIN dim.attributes : b # a}) :
                       /\ old # value /\ old \in DOMAIN dim.byAlias /\ dim.byAlias[old] = e
                       /\ old \notin AliasesOf(dim, e, {a})}
<1>12. PICK left : left = Restrict(aliases, DOMAIN aliases \ stale)
  BY ONLY TRUE
<1>13. PICK map : map = IF a \in AliasAttributes(dim) THEN Bind(left, value, e) ELSE aliases
  BY ONLY TRUE
<1>14. SetAttribute(dim, e, attribute, value) = DimOf(els, ch, attrs, rows2, names, map)
  <2>1. SetAttribute(dim, e, attribute, value) = [dim EXCEPT !.values[e] = row2, !.byAlias = map]
    BY <1>1, <1>4, <1>6, <1>12, <1>13 DEF SetAttribute
  <2>2. [dim EXCEPT !.values[e] = row2, !.byAlias = map] = [[dim EXCEPT !.values = rows2] EXCEPT !.byAlias = map]
    <3>1. rows2 = [dim.values EXCEPT ![e] = row2]
      BY ONLY <1>1, <1>7
    <3>2. [dim EXCEPT !.values[e] = row2, !.byAlias = map] =
          [[dim EXCEPT !.values = [dim.values EXCEPT ![e] = row2]] EXCEPT !.byAlias = map]
      BY ONLY TRUE
    <3> QED BY ONLY <3>1, <3>2
  <2>3. /\ [DimOf(els, ch, attrs, rows, names, aliases) EXCEPT !.values = rows2] = DimOf(els, ch, attrs, rows2, names, aliases)
        /\ [DimOf(els, ch, attrs, rows2, names, aliases) EXCEPT !.byAlias = map] = DimOf(els, ch, attrs, rows2, names, map)
    BY DEF DimOf
  <2>4. [dim EXCEPT !.values = rows2] = DimOf(els, ch, attrs, rows2, names, aliases)
    BY ONLY <1>1, <2>3
  <2>5. [[dim EXCEPT !.values = rows2] EXCEPT !.byAlias = map] = DimOf(els, ch, attrs, rows2, names, map)
    BY ONLY <2>4, <2>3
  <2> QED BY ONLY <2>1, <2>2, <2>5
<1>15. AliasesFound(map, rows2, attrs)
  <2>1. CASE a \notin AliasColumns(attrs)
    <3>1. map = aliases
      BY <2>1, <1>11, <1>13
    <3>2. \A f \in 1 .. n : Carried(rows2[f], attrs) = Carried(rows[f], attrs)
      <4>1. PICK row : row = rows[e]
        BY ONLY TRUE
      <4>2. Binds(row2, row, a, value)
        BY <1>9, <4>1
      <4>3. Carried(row2, attrs) = Carried(row, attrs)
        BY ONLY <2>1, <4>2, RowKept
      <4> QED BY ONLY <4>1, <4>3, <1>8
    <3> QED BY ONLY <3>1, <3>2, <1>3, <1>8 DEF AliasesFound
  <2>2. CASE a \in AliasColumns(attrs)
    <3>1. map = Bind(left, value, e)
      BY <2>2, <1>11, <1>13
    <3>2. Binds(map, left, value, e)
      BY ONLY <3>1, BindIs
    <3>3. PICK rest, own : rest = Rest(rows[e], attrs, a) /\ own = InColumn(rows[e], attrs, a)
      BY ONLY TRUE
    <3>4. AliasesOf(dim, e, {a}) = rest
      BY <1>1, <3>3 DEF AliasesOf, AliasAttributes, AliasColumns, Rest
    <3>5. AliasesOf(dim, e, {b \in DOMAIN dim.attributes : b # a}) = own
      <4>1. ASSUME NEW x PROVE x \in AliasesOf(dim, e, {b \in DOMAIN dim.attributes : b # a}) <=> x \in own
        BY <1>1, <3>3 DEF AliasesOf, AliasAttributes, AliasColumns, InColumn
      <4> QED BY SMTT(30), <4>1
    <3>6. Stale(stale, own, rest, value, e, aliases)
      BY <1>1, <3>4, <3>5 DEF Stale
    <3>7. Spares(left, aliases, stale)
      BY <1>12 DEF Restrict, Spares
    <3>8. value \in DOMAIN aliases => aliases[value] = e
      BY <1>1, <1>4, <2>2 DEF CanSetAttribute, AliasColumns
    <3>9. RowSetIn(rows2, rows, e, row2)
      BY <1>3, <1>5, <1>8 DEF RowSetIn
    <3> HIDE DEF stale
    <3> QED BY ONLY <1>3, <2>2, <3>8, <1>9, <3>9, <3>3, <3>6, <3>7, <3>2, ForgetsTheStale
  <2> QED BY <2>1, <2>2
<1>16. PICK new : new = SetAttribute(dim, e, attribute, value)
  BY ONLY TRUE
<1>17. DimOK(new)
  BY ONLY <1>2, <1>3, <1>10, <1>14, <1>15, <1>16, MakeDim DEF DimOf
<1>18. new.elements = els
  BY ONLY <1>14, <1>16 DEF DimOf
<1> QED BY ONLY <1>1, <1>16, <1>17, <1>18

\* A dimension rebuilt of elements of another, where from leads, and of one
\* new element, where from is 0.
Rebuilding(dim, els2, rows2, ch2, from, m, el) ==
  /\ m \in Nat /\ from \in [1 .. m -> 0 .. Len(dim.elements)]
  /\ \A i, j \in 1 .. m : from[i] = from[j] => i = j
  /\ els2 = [i \in 1 .. m |-> els2[i]] /\ rows2 = [i \in 1 .. m |-> rows2[i]] /\ ListsOK(ch2, m)
  /\ \A i \in 1 .. m : from[i] # 0 => els2[i] = dim.elements[from[i]] /\ rows2[i] = dim.values[from[i]]
  /\ \A i \in 1 .. m : from[i] = 0 => els2[i] = el /\ rows2[i] = NoFn
  /\ (\E i \in 1 .. m : from[i] = 0) => /\ el = [name |-> el.name, kind |-> el.kind, pinned |-> el.pinned]
                                      /\ el.name \notin Names(dim) /\ el.kind \in ElementKinds
  /\ \A i \in 1 .. m : \A c \in ChildSet(ch2[i]) :
       from[i] # 0 /\ from[c] # 0 /\ from[c] \in ChildSet(dim.children[from[i]])

MovesTo(to, dim) == DimOK(to.dim) /\ FollowsNames(to.dim, dim) /\ Follower(to.toNew, dim, to.dim)
\* Where each of n old positions went, when from leads from the m new ones.
LeadsBack(to, from, n, m) ==
  \A c \in 1 .. n : IF to[c] = Gone THEN \A i \in 1 .. m : from[i] # c ELSE to[c] \in 1 .. m /\ from[to[c]] = c

Remade(dim, els2, rows2, ch2) == [dim EXCEPT !.elements = els2, !.values = rows2, !.children = ch2]

LEMMA RebuiltOK ==
  ASSUME NEW dim, DimOK(dim), NEW els2, NEW rows2, NEW ch2, NEW from, NEW m, NEW el,
         Rebuilding(dim, els2, rows2, ch2, from, m, el)
  PROVE  /\ DimOK(Reindexed(Remade(dim, els2, rows2, ch2)))
         /\ FollowsNames(Reindexed(Remade(dim, els2, rows2, ch2)), dim)
         /\ Reindexed(Remade(dim, els2, rows2, ch2)).elements = els2
<1>0. PICK new : new = Remade(dim, els2, rows2, ch2)
  BY ONLY TRUE
<1>1. PICK els, ch, attrs, rows, names, aliases :
        /\ els = dim.elements /\ ch = dim.children /\ attrs = dim.attributes /\ rows = dim.values
        /\ names = dim.byName /\ aliases = dim.byAlias /\ dim = DimOf(els, ch, attrs, rows, names, aliases)
  BY DimIsOf DEF DimOK
<1>2. PICK n \in Nat : n = Len(els)
  BY SMTT(30), <1>1, DimFacts
<1>3. /\ DOMAIN els = 1 .. n /\ DOMAIN rows = 1 .. n /\ ElementsOK(els)
      /\ TreeOK(ch, n) /\ ParentsOK(els, ch) /\ RowsOK(rows, attrs, n) /\ NamesFound(names, els)
      /\ AliasesFound(aliases, rows, attrs)
  BY <1>1, <1>2, DimFacts DEF DimOK
<1>4. /\ m \in Nat /\ from \in [1 .. m -> 0 .. n]
      /\ \A i, j \in 1 .. m : from[i] = from[j] => i = j
      /\ els2 = [i \in 1 .. m |-> els2[i]] /\ rows2 = [i \in 1 .. m |-> rows2[i]] /\ ListsOK(ch2, m)
  BY <1>1, <1>2 DEF Rebuilding
<1>5. /\ \A i \in 1 .. m : from[i] # 0 => els2[i] = els[from[i]] /\ rows2[i] = rows[from[i]]
      /\ \A i \in 1 .. m : from[i] = 0 => els2[i] = el /\ rows2[i] = NoFn
      /\ (\E i \in 1 .. m : from[i] = 0) => /\ el = [name |-> el.name, kind |-> el.kind, pinned |-> el.pinned]
                                            /\ el.name \notin DOMAIN names /\ el.kind \in ElementKinds
  BY <1>1 DEF Rebuilding, Names
<1>6. \A i \in 1 .. m : \A c \in ChildSet(ch2[i]) :
        from[i] # 0 /\ from[c] # 0 /\ from[c] \in ChildSet(ch[from[i]])
  BY <1>1 DEF Rebuilding
<1>7. ASequence(els2) /\ Len(els2) = m /\ DOMAIN els2 = 1 .. m /\ ASequence(rows2) /\ Len(rows2) = m /\ DOMAIN rows2 = 1 .. m
  BY ONLY <1>4, ListIsSeq
<1>8. \A i \in 1 .. m : from[i] # 0 => from[i] \in 1 .. n
  BY ONLY <1>4, n \in Nat
<1>9. TreeOK(ch2, m)
  <2>1. m \in Nat /\ ListsOK(ch2, m) /\ from \in [1 .. m -> 0 .. n]
    BY <1>4
  <2> QED BY ONLY n \in Nat, <1>3, <2>1, <1>6, RearrangedTree
<1>10. ElementsOK(els2)
  BY ONLY <1>3, <1>5, <1>7, <1>8 DEF ElementsOK
<1>11. ParentsOK(els2, ch2)
  <2>1. ASSUME NEW i \in 1 .. m, ChildSet(ch2[i]) # {} PROVE els2[i].kind = Consolidated
    <3>1. from[i] # 0 /\ ChildSet(ch[from[i]]) # {}
      BY <1>6, <2>1
    <3> QED BY ZenonT(40), <3>1, <1>3, <1>5, <1>8 DEF ParentsOK
  <2> QED BY <2>1, <1>7 DEF ParentsOK
<1>12. DOMAIN NoFn = {} /\ Carried(NoFn, attrs) = {}
  BY DEF NoFn, Carried
<1>13. RowsOK(rows2, attrs, m)
  BY ONLY <1>3, <1>5, <1>7, <1>8, <1>12 DEF RowsOK
<1>14. ASSUME NEW i \in 1 .. m, NEW j \in 1 .. m, els2[i].name = els2[j].name PROVE i = j
  <2>1. CASE from[i] # 0 /\ from[j] # 0
    <3>1. from[i] \in 1 .. n /\ from[j] \in 1 .. n /\ els[from[i]].name = els[from[j]].name
      BY <1>5, <1>8, <1>14, <2>1
    <3>2. from[i] = from[j]
      BY ONLY <3>1, <1>3, SMTT(30) DEF NamesFound
    <3> QED BY ONLY <3>2, <1>4, i \in 1 .. m, j \in 1 .. m
  <2>2. \A k \in 1 .. m : from[k] # 0 => els2[k].name \in DOMAIN names
    BY ONLY <1>3, <1>5, <1>8 DEF NamesFound
  <2>3. \A k \in 1 .. m : from[k] = 0 => els2[k].name \notin DOMAIN names
    BY ONLY <1>5
  <2>4. CASE from[i] = 0 /\ from[j] = 0
    BY <1>4, <2>4
  <2> QED BY <2>1, <2>2, <2>3, <2>4, <1>14
<1>15. ASSUME NEW i \in 1 .. m, NEW j \in 1 .. m, NEW x, x \in Carried(rows2[i], attrs), x \in Carried(rows2[j], attrs)
       PROVE  i = j
  <2>1. from[i] # 0 /\ from[j] # 0
    BY <1>5, <1>12, <1>15
  <2>2. from[i] \in 1 .. n /\ from[j] \in 1 .. n /\ x \in Carried(rows[from[i]], attrs) /\ x \in Carried(rows[from[j]], attrs)
    BY <2>1, <1>5, <1>8, <1>15
  <2>3. from[i] = from[j]
    BY ONLY <2>2, <1>3 DEF AliasesFound
  <2> QED BY ONLY <2>3, <1>4, i \in 1 .. m, j \in 1 .. m
<1>16. NamesFound(NameMap(els2), els2)
  <2>1. \A i, j \in DOMAIN els2 : els2[i].name = els2[j].name => i = j
    BY <1>7, <1>14
  <2> QED BY ONLY <2>1, NameMapFinds
<1>17. AliasesFound(AliasMap(els2, rows2, attrs), rows2, attrs)
  <2>1. DOMAIN els2 = DOMAIN rows2
    BY <1>7
  <2>2. \A i, j \in DOMAIN rows2 : \A x : x \in Carried(rows2[i], attrs) /\ x \in Carried(rows2[j], attrs) => i = j
    BY <1>7, <1>15
  <2> QED BY ONLY <2>1, <2>2, AliasMapFinds
<1>18. new = DimOf(els2, ch2, attrs, rows2, names, aliases)
  <2>1. new = [[[dim EXCEPT !.elements = els2] EXCEPT !.values = rows2] EXCEPT !.children = ch2]
    BY ONLY <1>0 DEF Remade
  <2>2. /\ [DimOf(els, ch, attrs, rows, names, aliases) EXCEPT !.elements = els2] = DimOf(els2, ch, attrs, rows, names, aliases)
        /\ [DimOf(els2, ch, attrs, rows, names, aliases) EXCEPT !.values = rows2] = DimOf(els2, ch, attrs, rows2, names, aliases)
        /\ [DimOf(els2, ch, attrs, rows2, names, aliases) EXCEPT !.children = ch2] = DimOf(els2, ch2, attrs, rows2, names, aliases)
    BY DEF DimOf
  <2>3. [dim EXCEPT !.elements = els2] = DimOf(els2, ch, attrs, rows, names, aliases)
    BY ONLY <1>1, <2>2
  <2>4. [[dim EXCEPT !.elements = els2] EXCEPT !.values = rows2] = DimOf(els2, ch, attrs, rows2, names, aliases)
    BY ONLY <2>2, <2>3
  <2> QED BY ONLY <2>1, <2>2, <2>4
<1>19. IsDim(new) /\ new.elements = els2 /\ new.children = ch2 /\ new.attributes = attrs /\ new.values = rows2
  BY ONLY <1>18 DEF DimOf, IsDim
<1>20. Reindexed(new) = DimOf(els2, ch2, attrs, rows2, NameMap(els2), AliasMap(els2, rows2, attrs))
  <2>1. Reindexed(new) = DimOf(new.elements, new.children, new.attributes, new.values,
                               NameMap(new.elements), AliasMap(new.elements, new.values, new.attributes))
    BY <1>19, ReindexedIs
  <2> QED BY ONLY <1>19, <2>1
<1>21. PICK after, names2, aliases2 : /\ after = Reindexed(new) /\ names2 = NameMap(els2)
                                      /\ aliases2 = AliasMap(els2, rows2, attrs)
  BY ONLY TRUE
<1>22. after = DimOf(els2, ch2, attrs, rows2, names2, aliases2)
  BY ONLY <1>20, <1>21
<1>23. NamesFound(names2, els2) /\ AliasesFound(aliases2, rows2, attrs)
  BY ONLY <1>16, <1>17, <1>21
<1>24. DimOK(after)
  BY ONLY <1>22, <1>7, <1>10, <1>9, <1>11, <1>13, <1>23, MakeDim DEF DimOf
<1>25. after.elements = els2
  BY ONLY <1>22, SMTT(30) DEF DimOf
<1>26. FollowsNames(after, dim)
  <2>1. ASSUME NEW i \in 1 .. m, NEW j \in 1 .. n, els2[i].name = els[j].name PROVE els2[i].kind = els[j].kind
    <3>1. els[j].name \in DOMAIN names /\ names[els[j].name] = j
      BY ONLY <1>3, j \in 1 .. n DEF NamesFound
    <3>2. from[i] # 0
      BY ONLY <1>5, <2>1, <3>1
    <3>3. from[i] \in 1 .. n /\ els2[i] = els[from[i]]
      BY ONLY <1>5, <1>8, <3>2, i \in 1 .. m
    <3>4. names[els[from[i]].name] = from[i]
      BY ONLY <1>3, <3>3 DEF NamesFound
    <3> QED BY ONLY <2>1, <3>1, <3>3, <3>4
  <2> QED BY ONLY <1>1, <1>3, <1>7, <1>25, <2>1 DEF FollowsNames
<1> QED BY ONLY <1>0, <1>21, <1>24, <1>25, <1>26

LEMMA RebuiltMoves ==
  ASSUME NEW dim, DimOK(dim), NEW els2, NEW rows2, NEW ch2, NEW from, NEW m, NEW el,
         Rebuilding(dim, els2, rows2, ch2, from, m, el),
         NEW to, to.dim = Reindexed(Remade(dim, els2, rows2, ch2)), LeadsBack(to.toNew, from, Len(dim.elements), m)
  PROVE  MovesTo(to, dim)
<1>1. PICK new, toNew, els, n : new = to.dim /\ toNew = to.toNew /\ els = dim.elements /\ n = Len(dim.elements)
  BY ONLY TRUE
<1>2. DimOK(new) /\ FollowsNames(new, dim) /\ new.elements = els2
  <2>1. /\ DimOK(Reindexed(Remade(dim, els2, rows2, ch2)))
        /\ FollowsNames(Reindexed(Remade(dim, els2, rows2, ch2)), dim)
        /\ Reindexed(Remade(dim, els2, rows2, ch2)).elements = els2
    BY ONLY DimOK(dim), Rebuilding(dim, els2, rows2, ch2, from, m, el), RebuiltOK
  <2> QED BY ONLY <1>1, <2>1, to.dim = Reindexed(Remade(dim, els2, rows2, ch2))
<1>3. n \in Nat /\ DOMAIN els = 1 .. n /\ NamesFound(dim.byName, els) /\ NamesFound(new.byName, els2)
  BY <1>1, <1>2, DimFacts DEF DimOK
<1>4. /\ DOMAIN els2 = 1 .. m
      /\ \A i \in 1 .. m : from[i] \in 0 .. n
      /\ \A i \in 1 .. m : from[i] # 0 => els2[i] = els[from[i]]
      /\ \A i \in 1 .. m : from[i] = 0 => els2[i].name \notin Names(dim)
  <2>1. DOMAIN els2 = 1 .. m /\ from \in [1 .. m -> 0 .. n]
    BY <1>1 DEF Rebuilding
  <2>2. \A i \in 1 .. m : from[i] # 0 => els2[i] = els[from[i]]
    BY <1>1 DEF Rebuilding
  <2>3. \A i \in 1 .. m : from[i] = 0 => els2[i] = el /\ el.name \notin Names(dim)
    BY DEF Rebuilding
  <2> QED BY <2>1, <2>2, <2>3
<1>5. LeadsBack(toNew, from, n, m)
  BY <1>1
<1>6. ASSUME NEW old \in 1 .. n
      PROVE  toNew[old] = IF els[old].name \in Names(new) THEN IndexOf(new, els[old].name) ELSE Gone
  <2>1. els[old].name \in Names(dim) /\ dim.byName[els[old].name] = old
    BY <1>3 DEF NamesFound, Names
  <2>2. CASE toNew[old] = Gone
    <3>1. ASSUME els[old].name \in Names(new) PROVE FALSE
      <4>1. PICK i : i = new.byName[els[old].name]
        BY ONLY TRUE
      <4>2. i \in 1 .. m /\ els2[i].name = els[old].name
        BY <1>3, <1>4, <3>1, <4>1 DEF NamesFound, Names
      <4>3. from[i] # 0 /\ from[i] \in 1 .. n
        BY <1>4, <2>1, <4>2
      <4>4. els[from[i]].name = els[old].name
        BY <1>4, <4>2, <4>3
      <4>5. dim.byName[els[from[i]].name] = from[i]
        BY <1>3, <4>3 DEF NamesFound
      <4>6. from[i] = old
        BY <2>1, <4>4, <4>5
      <4> QED BY <1>5, <2>2, <4>2, <4>6 DEF LeadsBack
    <3> QED BY <2>2, <3>1
  <2>3. CASE toNew[old] # Gone
    <3>1. PICK i : i = toNew[old] /\ i \in 1 .. m /\ from[i] = old
      BY <1>5, <2>3 DEF LeadsBack
    <3>2. els2[i] = els[old]
      BY <1>4, <3>1
    <3>3. els2[i].name \in Names(new) /\ new.byName[els2[i].name] = i
      BY <1>3, <1>4, <3>1 DEF NamesFound, Names
    <3> QED BY <3>1, <3>2, <3>3 DEF IndexOf
  <2> QED BY <2>2, <2>3
<1>7. Follower(toNew, dim, new)
  BY <1>1, <1>3, <1>6 DEF Follower
<1> QED BY <1>1, <1>2, <1>7 DEF MovesTo

\* One item fewer, and one more.
Removed(t, s, n, e) ==
  /\ DOMAIN t = 1 .. (n - 1) /\ t = [i \in 1 .. (n - 1) |-> t[i]]
  /\ \A i \in 1 .. (n - 1) : t[i] = s[IF i < e THEN i ELSE i + 1]
Added(t, s, n, e, x) ==
  /\ DOMAIN t = 1 .. (n + 1) /\ t = [i \in 1 .. (n + 1) |-> t[i]] /\ t[e] = x
  /\ \A i \in 1 .. (n + 1) : i # e => t[i] = s[IF i < e THEN i ELSE i - 1]

LEMMA RemoveAtIs ==
  ASSUME NEW s, ASequence(s), NEW n \in Nat, n = Len(s), NEW e \in 1 .. n
  PROVE  Removed(RemoveAt(s, e), s, n, e)
<1>0. PICK t : t = RemoveAt(s, e)
  BY ONLY TRUE
<1> DEFINE T == Range(s)
<1>1. s \in Seq(T)
  BY DEF ASequence
<1> HIDE DEF T
<1>2. PICK a, b : a = SubSeq(s, 1, e - 1) /\ b = SubSeq(s, e + 1, n)
  BY ONLY TRUE
<1>3. a \in Seq(T) /\ Len(a) = e - 1 /\ \A i \in 1 .. (e - 1) : a[i] = s[i]
  BY <1>1, <1>2
<1>4. b \in Seq(T) /\ Len(b) = n - e /\ \A i \in 1 .. (n - e) : b[i] = s[e + i]
  BY <1>1, <1>2
<1>5. t = a \o b
  BY <1>0, <1>2 DEF RemoveAt
<1>6. t \in Seq(T) /\ Len(t) = n - 1
  BY <1>3, <1>4, <1>5
<1>7. ASSUME NEW i \in 1 .. (n - 1) PROVE t[i] = s[IF i < e THEN i ELSE i + 1]
  <2>1. CASE i < e
    BY <2>1, <1>3, <1>4, <1>5
  <2>2. CASE ~(i < e)
    <3>1. t[i] = b[i - (e - 1)] /\ i - (e - 1) \in 1 .. (n - e)
      BY <2>2, <1>3, <1>4, <1>5
    <3>2. b[i - (e - 1)] = s[e + (i - (e - 1))]
      BY <3>1, <1>4
    <3>3. e + (i - (e - 1)) = i + 1
      OBVIOUS
    <3> QED BY <3>1, <3>2, <3>3, <2>2
  <2> QED BY <2>1, <2>2
<1>8. DOMAIN t = 1 .. (n - 1) /\ t = [i \in 1 .. (n - 1) |-> t[i]]
  BY <1>6
<1>9. Removed(t, s, n, e)
  BY ONLY <1>7, <1>8 DEF Removed
<1> QED BY ONLY <1>0, <1>9

LEMMA InsertAtIs ==
  ASSUME NEW s, ASequence(s), NEW n \in Nat, n = Len(s), NEW e \in 1 .. (n + 1), NEW x
  PROVE  Added(InsertAt(s, e, x), s, n, e, x)
<1>0. PICK t : t = InsertAt(s, e, x)
  BY ONLY TRUE
<1> DEFINE T == Range(s) \cup {x}
<1>1. s \in Seq(T) /\ x \in T
  <2>1. s = [i \in 1 .. n |-> s[i]] /\ \A i \in 1 .. n : s[i] \in T
    BY SeqIs DEF Range
  <2> QED BY <2>1
<1> HIDE DEF T
<1>2. PICK a, b : a = SubSeq(s, 1, e - 1) /\ b = SubSeq(s, e, n)
  BY ONLY TRUE
<1>3. a \in Seq(T) /\ Len(a) = e - 1 /\ \A i \in 1 .. (e - 1) : a[i] = s[i]
  BY <1>1, <1>2
<1>4. b \in Seq(T) /\ Len(b) = n + 1 - e /\ \A i \in 1 .. (n + 1 - e) : b[i] = s[(e - 1) + i]
  BY <1>1, <1>2
<1>5. PICK c : c = a \o <<x>>
  BY ONLY TRUE
<1>6. c \in Seq(T) /\ Len(c) = e /\ c[e] = x /\ \A i \in 1 .. (e - 1) : c[i] = s[i]
  BY <1>1, <1>3, <1>5
<1>7. t = c \o b
  BY <1>0, <1>2, <1>5 DEF InsertAt
<1>11. t \in Seq(T) /\ Len(t) = n + 1
  <2>1. c \in Seq(T) /\ b \in Seq(T) /\ Len(c) = e /\ Len(b) = n + 1 - e
    BY <1>4, <1>6
  <2>2. c \o b \in Seq(T) /\ Len(c \o b) = Len(c) + Len(b)
    BY ONLY <2>1
  <2> QED BY <1>7, <2>1, <2>2
<1>12. t[e] = x
  <2>1. e \in 1 .. Len(c) /\ e <= Len(c)
    BY <1>6
  <2>2. t[e] = c[e]
    BY <1>4, <1>6, <1>7, <2>1
  <2> QED BY <1>6, <2>2
<1>8. t \in Seq(T) /\ Len(t) = n + 1 /\ t[e] = x
  BY <1>11, <1>12
<1>9. ASSUME NEW i \in 1 .. (n + 1), i # e PROVE t[i] = s[IF i < e THEN i ELSE i - 1]
  <2>1. CASE i < e
    BY <2>1, <1>4, <1>6, <1>7
  <2>2. CASE ~(i < e)
    <3>1. t[i] = b[i - e] /\ i - e \in 1 .. (n + 1 - e)
      BY <2>2, <1>9, <1>4, <1>6, <1>7
    <3>2. b[i - e] = s[(e - 1) + (i - e)]
      BY <3>1, <1>4
    <3>3. (e - 1) + (i - e) = i - 1
      OBVIOUS
    <3> QED BY <3>1, <3>2, <3>3, <2>2
  <2> QED BY <2>1, <2>2
<1>10. DOMAIN t = 1 .. (n + 1) /\ t = [i \in 1 .. (n + 1) |-> t[i]]
  BY <1>8
<1>13. Added(t, s, n, e, x)
  BY ONLY <1>8, <1>9, <1>10 DEF Added
<1> QED BY ONLY <1>0, <1>13

\* Lists of edges that follow their elements to where those went.
Following(lists, ch2, from, toNew, ch, n, m) ==
  /\ ch2 = [i \in 1 .. m |-> Moved(lists[i], toNew)]
  /\ \A i \in 1 .. m : EdgesOK(lists[i], n)
  /\ \A i \in 1 .. m : \A c \in ChildSet(lists[i]) :
       /\ from[i] # 0 /\ c \in ChildSet(ch[from[i]])
       /\ toNew[c] \in 1 .. m /\ from[toNew[c]] = c

LEMMA FollowingOK ==
  ASSUME NEW n \in Nat, NEW m \in Nat, NEW lists, NEW ch2, NEW from, NEW toNew, NEW ch,
         Following(lists, ch2, from, toNew, ch, n, m)
  PROVE  /\ ListsOK(ch2, m)
         /\ \A i \in 1 .. m : \A c \in ChildSet(ch2[i]) :
              from[i] # 0 /\ from[c] # 0 /\ from[c] \in ChildSet(ch[from[i]])
<1>1. /\ \A i \in 1 .. m : EdgesOK(lists[i], n)
      /\ \A i \in 1 .. m : \A c \in ChildSet(lists[i]) :
           /\ from[i] # 0 /\ c \in ChildSet(ch[from[i]])
           /\ toNew[c] \in 1 .. m /\ from[toNew[c]] = c
  BY DEF Following
<1>2. ch2 = [i \in 1 .. m |-> ch2[i]] /\ \A i \in 1 .. m : ch2[i] = Moved(lists[i], toNew)
  BY DEF Following
<1>3. ASSUME NEW i \in 1 .. m
      PROVE  EdgesOK(ch2[i], m) /\ ChildSet(ch2[i]) = {toNew[c] : c \in ChildSet(lists[i])}
  <2>1. PICK edges : edges = lists[i]
    BY ONLY TRUE
  <2>2. EdgesOK(edges, n) /\ Movable(edges, toNew, m)
    BY <1>1, <2>1 DEF Movable
  <2>3. LeadsThere(Moved(edges, toNew), edges, toNew, m)
    BY ONLY <2>2, MovedOK
  <2>4. ch2[i] = Moved(edges, toNew)
    BY <1>2, <2>1
  <2> QED BY ONLY <2>1, <2>3, <2>4 DEF LeadsThere
<1>4. ASequence(ch2) /\ Len(ch2) = m
  BY <1>2, ListIsSeq
<1>5. ListsOK(ch2, m)
  BY <1>3, <1>4 DEF ListsOK
<1>6. ASSUME NEW i \in 1 .. m, NEW c \in ChildSet(ch2[i])
      PROVE  from[i] # 0 /\ from[c] # 0 /\ from[c] \in ChildSet(ch[from[i]])
  <2>1. PICK k \in ChildSet(lists[i]) : c = toNew[k]
    BY <1>3
  <2>2. k # 0
    <3>1. PICK edges : edges = lists[i] /\ EdgesOK(edges, n) /\ k \in ChildSet(edges)
      BY <1>1, <2>1
    <3>2. k \in 1 .. n
      BY ONLY <3>1 DEF EdgesOK, ChildSet
    <3> QED BY <3>2
  <2> QED BY <1>1, <2>1, <2>2
<1> QED BY <1>5, <1>6

LEMMA DeletedOK ==
  ASSUME NEW dim, DimOK(dim), NEW e \in DOMAIN dim.elements, CanDelete(dim, e)
  PROVE  MovesTo(Deleted(dim, e), dim)
<1>1. PICK els, ch, rows : els = dim.elements /\ ch = dim.children /\ rows = dim.values
  BY ONLY TRUE
<1>2. PICK n \in Nat : n = Len(els)
  BY <1>1, DimFacts
<1>3. /\ DOMAIN els = 1 .. n /\ ASequence(els) /\ ASequence(ch) /\ Len(ch) = n /\ ASequence(rows) /\ Len(rows) = n
      /\ e \in 1 .. n /\ (\A p \in 1 .. n : EdgesOK(ch[p], n)) /\ \A p \in 1 .. n : ChildSet(ch[p]) \subseteq 1 .. n
  BY <1>1, <1>2, DimFacts
<1>4. n - 1 \in Nat
  BY <1>3
<1>5. PICK els2, rows2, few : els2 = RemoveAt(els, e) /\ rows2 = RemoveAt(rows, e) /\ few = RemoveAt(ch, e)
  BY ONLY TRUE
<1> DEFINE from == [i \in 1 .. (n - 1) |-> IF i < e THEN i ELSE i + 1]
           toNew == [old \in DOMAIN dim.elements |-> IF old < e THEN old ELSE IF old = e THEN Gone ELSE old - 1]
           lists == [i \in 1 .. (n - 1) |-> Without(ch[from[i]], e)]
           ch2 == [i \in 1 .. (n - 1) |-> Moved(lists[i], toNew)]
<1>6. /\ els2 = [i \in 1 .. (n - 1) |-> els2[i]] /\ \A i \in 1 .. (n - 1) : els2[i] = els[from[i]]
  <2>1. Removed(els2, els, n, e)
    BY ONLY <1>3, <1>5, <1>2, RemoveAtIs
  <2> QED BY <2>1 DEF Removed
<1>7. /\ rows2 = [i \in 1 .. (n - 1) |-> rows2[i]] /\ \A i \in 1 .. (n - 1) : rows2[i] = rows[from[i]]
  <2>1. Removed(rows2, rows, n, e)
    BY ONLY <1>3, <1>5, <1>2, RemoveAtIs
  <2> QED BY <2>1 DEF Removed
<1>8. DOMAIN few = 1 .. (n - 1) /\ \A i \in 1 .. (n - 1) : few[i] = ch[from[i]]
  <2>1. Removed(few, ch, n, e)
    BY ONLY <1>3, <1>5, <1>2, RemoveAtIs
  <2> QED BY <2>1 DEF Removed
<1>9. \A i \in 1 .. (n - 1) : from[i] \in 1 .. n /\ from[i] # 0 /\ from[i] # e
  BY <1>3
<1>10. from \in [1 .. (n - 1) -> 0 .. n] /\ \A i, j \in 1 .. (n - 1) : from[i] = from[j] => i = j
  BY <1>3
<1>11. \A c \in 1 .. n : c # e => toNew[c] \in 1 .. (n - 1) /\ from[toNew[c]] = c
  <2> SUFFICES ASSUME NEW c \in 1 .. n, c # e PROVE toNew[c] \in 1 .. (n - 1) /\ from[toNew[c]] = c
    OBVIOUS
  <2>1. toNew[c] = IF c < e THEN c ELSE c - 1
    BY <1>1, <1>3
  <2>2. toNew[c] \in 1 .. (n - 1) /\ (toNew[c] < e <=> c < e)
    BY <2>1, <1>3
  <2> QED BY <2>1, <2>2
<1>12. Deleted(dim, e).dim = Reindexed(Remade(dim, els2, rows2, ch2))
  <2>1. [p \in DOMAIN few |-> Moved(Without(few[p], e), toNew)] = ch2
    BY <1>8
  <2> QED BY <1>1, <1>5, <2>1 DEF Deleted, Remade
<1>13. \A i \in 1 .. (n - 1) : lists[i] = Without(ch[from[i]], e)
  OBVIOUS
<1>14. ch2 = [i \in 1 .. (n - 1) |-> Moved(lists[i], toNew)]
  OBVIOUS
<1>17. Deleted(dim, e).toNew = toNew
  BY DEF Deleted
<1>18. toNew[e] = Gone /\ \A c \in 1 .. n : c # e => toNew[c] # Gone
  BY <1>1, <1>3 DEF Gone
<1> HIDE DEF from, toNew, lists, ch2
<1>15. Following(lists, ch2, from, toNew, ch, n, n - 1)
  <2>1. ASSUME NEW i \in 1 .. (n - 1)
        PROVE  /\ EdgesOK(lists[i], n)
               /\ \A c \in ChildSet(lists[i]) : c \in ChildSet(ch[from[i]]) /\ c # e
    <3>1. PICK edges : edges = ch[from[i]] /\ EdgesOK(edges, n)
      BY <1>3, <1>9
    <3>2. EdgesOK(Without(edges, e), n) /\ ChildSet(Without(edges, e)) = ChildSet(edges) \ {e}
      BY ONLY <3>1, WithoutOK
    <3>3. lists[i] = Without(edges, e)
      BY <1>13, <3>1
    <3> QED BY ONLY <3>1, <3>2, <3>3
  <2>2. ASSUME NEW i \in 1 .. (n - 1), NEW c \in ChildSet(lists[i])
        PROVE  from[i] # 0 /\ c \in ChildSet(ch[from[i]]) /\ toNew[c] \in 1 .. (n - 1) /\ from[toNew[c]] = c
    <3>1. c \in ChildSet(ch[from[i]]) /\ c # e /\ from[i] \in 1 .. n /\ from[i] # 0
      BY <1>9, <2>1
    <3>2. c \in 1 .. n
      BY ONLY <1>3, <3>1
    <3> QED BY ONLY <3>1, <3>2, <1>11
  <2> QED BY ONLY <1>14, <2>1, <2>2 DEF Following
<1>16. Rebuilding(dim, els2, rows2, ch2, from, n - 1, 0)
  <2>1. /\ ListsOK(ch2, n - 1)
        /\ \A i \in 1 .. (n - 1) : \A c \in ChildSet(ch2[i]) :
              from[i] # 0 /\ from[c] # 0 /\ from[c] \in ChildSet(ch[from[i]])
    BY ONLY n \in Nat, <1>4, <1>15, FollowingOK
  <2> QED BY ONLY <1>1, <1>2, <1>4, <1>6, <1>7, <1>9, <1>10, <2>1, ZenonT(40) DEF Rebuilding
<1>19. PICK to : to = Deleted(dim, e)
  BY ONLY TRUE
<1>20. LeadsBack(toNew, from, n, n - 1)
  BY <1>9, <1>11, <1>18 DEF LeadsBack
<1>21. to.dim = Reindexed(Remade(dim, els2, rows2, ch2)) /\ LeadsBack(to.toNew, from, Len(dim.elements), n - 1)
  BY ONLY <1>1, <1>2, <1>12, <1>17, <1>19, <1>20
<1> QED BY ONLY DimOK(dim), <1>16, <1>19, <1>21, RebuiltMoves

LEMMA InsertedOK ==
  ASSUME NEW dim, DimOK(dim), NEW name, name \notin Names(dim), NEW kind \in ElementKinds,
         NEW e \in 1 .. (Size(dim) + 1)
  PROVE  MovesTo(Inserted(dim, name, kind, e), dim)
<1>1. PICK els, ch, rows : els = dim.elements /\ ch = dim.children /\ rows = dim.values
  BY ONLY TRUE
<1>2. PICK n \in Nat : n = Len(els) /\ n = Len(dim.elements)
  BY <1>1, DimFacts
<1>3. /\ DOMAIN els = 1 .. n /\ ASequence(els) /\ ASequence(ch) /\ Len(ch) = n /\ ASequence(rows) /\ Len(rows) = n
      /\ e \in 1 .. (n + 1) /\ (\A p \in 1 .. n : EdgesOK(ch[p], n)) /\ \A p \in 1 .. n : ChildSet(ch[p]) \subseteq 1 .. n
  BY <1>1, <1>2, DimFacts DEF Size
<1>4. n + 1 \in Nat
  OBVIOUS
<1>5. PICK el : el = [name |-> name, kind |-> kind, pinned |-> FALSE]
  BY ONLY TRUE
<1>6. PICK els2, rows2, more : els2 = InsertAt(els, e, el) /\ rows2 = InsertAt(rows, e, NoFn) /\ more = InsertAt(ch, e, <<>>)
  BY ONLY TRUE
<1> DEFINE from == [i \in 1 .. (n + 1) |-> IF i < e THEN i ELSE IF i = e THEN 0 ELSE i - 1]
           toNew == [old \in DOMAIN dim.elements |-> IF old < e THEN old ELSE old + 1]
           lists == [i \in 1 .. (n + 1) |-> IF i = e THEN <<>> ELSE ch[from[i]]]
           ch2 == [i \in 1 .. (n + 1) |-> Moved(lists[i], toNew)]
<1>7. \A i \in 1 .. (n + 1) : i # e => from[i] = IF i < e THEN i ELSE i - 1
  OBVIOUS
<1>8. from[e] = 0 /\ lists[e] = <<>> /\ \A i \in 1 .. (n + 1) : from[i] = 0 => i = e
  BY <1>3
<1>9. \A i \in 1 .. (n + 1) : i # e => from[i] \in 1 .. n /\ from[i] # 0 /\ lists[i] = ch[from[i]]
  BY <1>3
<1>10. from \in [1 .. (n + 1) -> 0 .. n] /\ \A i, j \in 1 .. (n + 1) : from[i] = from[j] => i = j
  BY <1>3
<1>11. \A c \in 1 .. n : toNew[c] \in 1 .. (n + 1) /\ from[toNew[c]] = c
  <2> SUFFICES ASSUME NEW c \in 1 .. n PROVE toNew[c] \in 1 .. (n + 1) /\ from[toNew[c]] = c
    OBVIOUS
  <2>1. toNew[c] = IF c < e THEN c ELSE c + 1
    BY <1>1, <1>3
  <2>2. toNew[c] \in 1 .. (n + 1) /\ (toNew[c] < e <=> c < e) /\ toNew[c] # e
    BY <2>1, <1>3
  <2> QED BY <2>1, <2>2
<1>12. Len(els) = n /\ Len(ch) = n /\ Len(rows) = n
  BY <1>2, <1>3
<1>13. /\ els2 = [i \in 1 .. (n + 1) |-> els2[i]] /\ els2[e] = el
       /\ \A i \in 1 .. (n + 1) : i # e => els2[i] = els[IF i < e THEN i ELSE i - 1]
  <2>1. Added(els2, els, n, e, el)
    BY ONLY n \in Nat, <1>3, <1>6, <1>12, InsertAtIs
  <2> QED BY ONLY <2>1 DEF Added
<1>14. /\ rows2 = [i \in 1 .. (n + 1) |-> rows2[i]] /\ rows2[e] = NoFn
       /\ \A i \in 1 .. (n + 1) : i # e => rows2[i] = rows[IF i < e THEN i ELSE i - 1]
  <2>1. Added(rows2, rows, n, e, NoFn)
    BY ONLY n \in Nat, <1>3, <1>6, <1>12, InsertAtIs
  <2> QED BY ONLY <2>1 DEF Added
<1>15. /\ DOMAIN more = 1 .. (n + 1) /\ more[e] = <<>>
       /\ \A i \in 1 .. (n + 1) : i # e => more[i] = ch[IF i < e THEN i ELSE i - 1]
  <2>1. Added(more, ch, n, e, <<>>)
    BY ONLY n \in Nat, <1>3, <1>6, <1>12, InsertAtIs
  <2> QED BY ONLY <2>1 DEF Added
<1>16. Inserted(dim, name, kind, e).dim = Reindexed(Remade(dim, els2, rows2, ch2))
  <2>1. \A i \in 1 .. (n + 1) : more[i] = lists[i]
    BY <1>15
  <2>2. [p \in DOMAIN more |-> Moved(more[p], toNew)] = ch2
    BY <1>15, <2>1
  <2> QED BY <1>1, <1>5, <1>6, <2>2 DEF Inserted, Remade
<1>17. ch2 = [i \in 1 .. (n + 1) |-> Moved(lists[i], toNew)]
  OBVIOUS
<1>20. Inserted(dim, name, kind, e).toNew = toNew
  BY DEF Inserted
<1> HIDE DEF from, toNew, lists, ch2
<1>18. Following(lists, ch2, from, toNew, ch, n, n + 1)
  <2>1. ASSUME NEW i \in 1 .. (n + 1) PROVE EdgesOK(lists[i], n)
    BY <1>3, <1>8, <1>9, NoEdges
  <2>2. ASSUME NEW i \in 1 .. (n + 1), NEW c \in ChildSet(lists[i])
        PROVE  from[i] # 0 /\ c \in ChildSet(ch[from[i]]) /\ toNew[c] \in 1 .. (n + 1) /\ from[toNew[c]] = c
    <3>1. i # e
      BY <1>8, <2>2, NoEdges
    <3>2. from[i] \in 1 .. n /\ from[i] # 0 /\ c \in ChildSet(ch[from[i]])
      BY <1>9, <2>2, <3>1
    <3>3. c \in 1 .. n
      BY ONLY <1>3, <3>2
    <3> QED BY ONLY <3>2, <3>3, <1>11
  <2> QED BY ONLY <1>17, <2>1, <2>2 DEF Following
<1>19. Rebuilding(dim, els2, rows2, ch2, from, n + 1, el)
  <2>1. /\ ListsOK(ch2, n + 1)
        /\ \A i \in 1 .. (n + 1) : \A c \in ChildSet(ch2[i]) :
              from[i] # 0 /\ from[c] # 0 /\ from[c] \in ChildSet(ch[from[i]])
    BY ONLY n \in Nat, <1>4, <1>18, FollowingOK
  <2>2. \A i \in 1 .. (n + 1) : from[i] # 0 => els2[i] = els[from[i]] /\ rows2[i] = rows[from[i]]
    BY ONLY <1>7, <1>8, <1>13, <1>14
  <2>3. \A i \in 1 .. (n + 1) : from[i] = 0 => els2[i] = el /\ rows2[i] = NoFn
    BY ONLY <1>8, <1>13, <1>14
  <2>4. el = [name |-> el.name, kind |-> el.kind, pinned |-> el.pinned] /\ el.name \notin Names(dim) /\ el.kind \in ElementKinds
    BY <1>5
  <2> QED BY ONLY <1>1, <1>2, <1>4, <1>10, <1>13, <1>14, <2>1, <2>2, <2>3, <2>4 DEF Rebuilding
<1>21. PICK to : to = Inserted(dim, name, kind, e)
  BY ONLY TRUE
<1>22. LeadsBack(toNew, from, n, n + 1)
  BY <1>11 DEF LeadsBack, Gone
<1>23. to.dim = Reindexed(Remade(dim, els2, rows2, ch2)) /\ LeadsBack(to.toNew, from, Len(dim.elements), n + 1)
  BY ONLY <1>2, <1>16, <1>20, <1>21, <1>22
<1> QED BY ONLY DimOK(dim), <1>19, <1>21, <1>23, RebuiltMoves

LEMMA ReorderedOK ==
  ASSUME NEW dim, DimOK(dim), NEW order, ASequence(order), CanReorder(dim, order)
  PROVE  MovesTo(Reordered(dim, order), dim)
<1>1. PICK els, ch, rows, names : els = dim.elements /\ ch = dim.children /\ rows = dim.values /\ names = dim.byName
  BY ONLY TRUE
<1>2. PICK n \in Nat : n = Len(els) /\ n = Len(dim.elements)
  BY <1>1, DimFacts
<1>3. /\ DOMAIN els = 1 .. n /\ (\A p \in 1 .. n : EdgesOK(ch[p], n)) /\ \A p \in 1 .. n : ChildSet(ch[p]) \subseteq 1 .. n
      /\ NamesFound(names, els) /\ DOMAIN order = 1 .. n
  BY <1>1, <1>2, DimFacts, SeqIs DEF CanReorder, Size, DimOK
<1> DEFINE from == [new \in DOMAIN order |-> IndexOf(dim, order[new])]
           toNew == [old \in DOMAIN order |-> CHOOSE new \in DOMAIN order : from[new] = old]
           els2 == [new \in DOMAIN order |-> dim.elements[from[new]]]
           rows2 == [new \in DOMAIN order |-> dim.values[from[new]]]
           lists == [new \in DOMAIN order |-> dim.children[from[new]]]
           ch2 == [new \in DOMAIN order |-> Moved(dim.children[from[new]], toNew)]
<1>4. \A x : x \in DOMAIN names <=> \E i \in 1 .. n : x = order[i]
  <2>1. {order[i] : i \in DOMAIN order} = DOMAIN names
    BY <1>1 DEF CanReorder, ToSet, Names
  <2> QED BY <1>3, <2>1
<1>5. \A i \in 1 .. n : from[i] = names[order[i]] /\ from[i] \in 1 .. n
  <2>1. \A i \in 1 .. n : from[i] = names[order[i]] /\ order[i] \in DOMAIN names
    BY <1>1, <1>3, <1>4 DEF IndexOf
  <2> QED BY ONLY <1>3, <2>1 DEF NamesFound
<1>6. from = [i \in 1 .. n |-> from[i]]
  BY <1>3
<1>7. /\ els2 = [i \in 1 .. n |-> els2[i]] /\ rows2 = [i \in 1 .. n |-> rows2[i]]
      /\ \A i \in 1 .. n : els2[i] = els[from[i]] /\ rows2[i] = rows[from[i]] /\ lists[i] = ch[from[i]]
  BY <1>1, <1>3
<1>8. \A old \in 1 .. n : toNew[old] = CHOOSE new \in 1 .. n : from[new] = old
  BY <1>3
<1>9. ch2 = [i \in 1 .. n |-> Moved(lists[i], toNew)]
  BY <1>3
<1>10. Reordered(dim, order).dim = Reindexed(Remade(dim, els2, rows2, ch2)) /\ Reordered(dim, order).toNew = toNew
  BY DEF Reordered, Remade
<1> HIDE DEF from, toNew, lists, ch2, els2, rows2
<1>11. \A p \in 1 .. n : \E i \in 1 .. n : from[i] = p
  <2> SUFFICES ASSUME NEW p \in 1 .. n PROVE \E i \in 1 .. n : from[i] = p
    OBVIOUS
  <2>1. els[p].name \in DOMAIN names /\ names[els[p].name] = p
    BY <1>3 DEF NamesFound
  <2>2. PICK i \in 1 .. n : els[p].name = order[i]
    BY ONLY <1>4, <2>1
  <2> QED BY <1>5, <2>1, <2>2
<1>12. \A i, j \in 1 .. n : from[i] = from[j] => i = j
  <2> DEFINE D == 1 .. n
  <2>1. from \in [D -> D] /\ \A p \in D : \E i \in D : from[i] = p
    BY <1>5, <1>6, <1>11
  <2>2. IsFiniteSet(D)
    BY FS_Interval
  <2> HIDE DEF D
  <2>3. from \in Surjection(D, D)
    BY <2>1 DEF Surjection
  <2>4. from \in Injection(D, D)
    BY ONLY <2>2, <2>3, FS_Surjection
  <2>5. \A i, j \in D : from[i] = from[j] => i = j
    BY <2>4 DEF Injection, IsInjective
  <2> QED BY <2>5 DEF D
<1>13. \A c \in 1 .. n : toNew[c] \in 1 .. n /\ from[toNew[c]] = c
  BY <1>8, <1>11
<1>14. Following(lists, ch2, from, toNew, ch, n, n)
  <2>1. ASSUME NEW i \in 1 .. n PROVE EdgesOK(lists[i], n)
    BY <1>3, <1>5, <1>7
  <2>2. ASSUME NEW i \in 1 .. n, NEW c \in ChildSet(lists[i])
        PROVE  from[i] # 0 /\ c \in ChildSet(ch[from[i]]) /\ toNew[c] \in 1 .. n /\ from[toNew[c]] = c
    <3>1. from[i] \in 1 .. n /\ from[i] # 0 /\ c \in ChildSet(ch[from[i]])
      BY <1>5, <1>7, <2>2
    <3>2. c \in 1 .. n
      BY ONLY <1>3, <3>1
    <3> QED BY ONLY <3>1, <3>2, <1>13
  <2> QED BY ONLY <1>9, <2>1, <2>2 DEF Following
<1>15. Rebuilding(dim, els2, rows2, ch2, from, n, 0)
  <2>1. /\ ListsOK(ch2, n)
        /\ \A i \in 1 .. n : \A c \in ChildSet(ch2[i]) :
              from[i] # 0 /\ from[c] # 0 /\ from[c] \in ChildSet(ch[from[i]])
    BY ONLY n \in Nat, <1>14, FollowingOK
  <2>2. from \in [1 .. n -> 0 .. n] /\ \A i \in 1 .. n : from[i] # 0
    BY <1>5, <1>6
  <2> QED BY ONLY n \in Nat, <1>1, <1>2, <1>7, <1>12, <2>1, <2>2 DEF Rebuilding
<1>16. PICK to : to = Reordered(dim, order)
  BY ONLY TRUE
<1>17. LeadsBack(toNew, from, n, n)
  BY <1>13 DEF LeadsBack, Gone
<1>18. to.dim = Reindexed(Remade(dim, els2, rows2, ch2)) /\ LeadsBack(to.toNew, from, Len(dim.elements), n)
  BY ONLY <1>2, <1>10, <1>16, <1>17
<1> QED BY ONLY DimOK(dim), <1>15, <1>16, <1>18, RebuiltMoves

-----------------------------------------------------------------------------
(* A batch of edits, one after the other.                                    *)
SubsetsAreSteps(n) ==
  /\ \A s \in SUBSET (1 .. n) : Cardinality(s) \in Nat /\ Cardinality(s) <= n /\ (Cardinality(s) <= 0 => s = {})
  /\ \A s \in SUBSET (1 .. n) : s # {} => Cardinality(s \ {Max(s)}) = Cardinality(s) - 1
  /\ \A k \in 0 .. (n - 1) : /\ 1 .. (k + 1) \in SUBSET (1 .. n) /\ 1 .. (k + 1) # {}
                             /\ Max(1 .. (k + 1)) = k + 1 /\ (1 .. (k + 1)) \ {k + 1} = 1 .. k

LEMMA SubsetsInSteps ==
  ASSUME NEW n \in Nat
  PROVE  SubsetsAreSteps(n)
<1> DEFINE D == 1 .. n
<1>1. IsFiniteSet(D) /\ Cardinality(D) = n
  <2>1. IsFiniteSet(1 .. n) /\ Cardinality(1 .. n) = IF 1 > n THEN 0 ELSE n - 1 + 1
    BY FS_Interval
  <2> QED BY <2>1
<1>2. D \subseteq 0 .. n
  OBVIOUS
<1>3. \A k \in 0 .. (n - 1) : 1 .. (k + 1) \subseteq D /\ k + 1 \in 1 .. (k + 1) /\ (1 .. (k + 1)) \ {k + 1} = 1 .. k
  OBVIOUS
<1> HIDE DEF D
<1>4. \A s \in SUBSET D : s # {} => Max(s) \in s /\ \A x \in s : Max(s) >= x
  BY <1>2, GreatestNumber
<1>5. ASSUME NEW s \in SUBSET D
      PROVE  IsFiniteSet(s) /\ Cardinality(s) \in Nat /\ Cardinality(s) <= n /\ (Cardinality(s) = 0 => s = {})
  <2>1. IsFiniteSet(s) /\ Cardinality(s) <= n
    BY <1>1, FS_Subset
  <2>2. Cardinality(s) \in Nat
    BY <2>1, FS_CardinalityType
  <2> QED BY <2>1, <2>2, FS_EmptySet
<1>6. \A s \in SUBSET D : s # {} => Cardinality(s \ {Max(s)}) = Cardinality(s) - 1
  BY <1>4, <1>5, FS_RemoveElement
<1>7. ASSUME NEW k \in 0 .. (n - 1) PROVE Max(1 .. (k + 1)) = k + 1
  <2>1. PICK m : m = Max(1 .. (k + 1))
    BY ONLY TRUE
  <2>2. m \in 1 .. (k + 1) /\ m >= k + 1
    BY <1>3, <1>4, <2>1
  <2> QED BY <2>1, <2>2
<1>8. \A s \in SUBSET D : Cardinality(s) \in Nat /\ Cardinality(s) <= n /\ (Cardinality(s) <= 0 => s = {})
  BY <1>5
<1> QED BY <1>3, <1>6, <1>7, <1>8 DEF SubsetsAreSteps, D

IsGrowth(stages, items, from) ==
  /\ stages[0] = from
  /\ \A k \in 0 .. (Len(items) - 1) : stages[k + 1] = GrowElement(stages[k], items[k + 1])

\* Elements grown in turn.
LEMMA ElementsByStages ==
  ASSUME NEW items, ASequence(items), NEW from
  PROVE  \E stages : IsGrowth(stages, items, from) /\ FoldLeft(GrowElement, from, items) = stages[Len(items)]
<1> DEFINE n == Len(items)
           D == DOMAIN items
           Body(it, s) == IF s = {} THEN from ELSE GrowElement(it[s \ {Max(s)}], items[Max(s)])
           Solves(it, m) == \A s \in SUBSET D : Cardinality(s) <= m => it[s] = Body(it, s)
           M == {m \in Nat : \E it : Solves(it, m)}
<1>1. n \in Nat /\ D = 1 .. n
  BY SeqIs
<1> HIDE DEF D, n
<1>2. SubsetsAreSteps(n)
  BY <1>1, SubsetsInSteps
<1>3. /\ \A s \in SUBSET D : Cardinality(s) \in Nat /\ Cardinality(s) <= n /\ (Cardinality(s) <= 0 => s = {})
      /\ \A s \in SUBSET D : s # {} => Cardinality(s \ {Max(s)}) = Cardinality(s) - 1
  BY <1>1, <1>2 DEF SubsetsAreSteps
<1>4. 0 \in M
  <2> DEFINE it == [s \in SUBSET D |-> from]
  <2>1. Solves(it, 0)
    BY <1>3
  <2> HIDE DEF it, Solves
  <2> QED BY <2>1
<1>5. ASSUME NEW m \in Nat, m \in M PROVE m + 1 \in M
  <2>1. PICK it : Solves(it, m)
    BY <1>5
  <2> DEFINE next == [s \in SUBSET D |-> Body(it, s)]
  <2>2. \A s \in SUBSET D : next[s] = Body(it, s)
    OBVIOUS
  <2> HIDE DEF next
  <2>3. ASSUME NEW s \in SUBSET D, Cardinality(s) <= m + 1 PROVE next[s] = Body(next, s)
    <3>1. CASE s = {}
      BY <3>1, <2>2
    <3>2. CASE s # {}
      <4> DEFINE t == s \ {Max(s)}
      <4>1. t \in SUBSET D /\ Cardinality(t) <= m
        BY <3>2, <1>3, <2>3
      <4>2. it[t] = Body(it, t) /\ next[t] = Body(it, t)
        BY <4>1, <2>1, <2>2
      <4>3. next[s] = GrowElement(it[t], items[Max(s)])
        BY <3>2, <2>2
      <4> QED BY <3>2, <4>2, <4>3
    <3> QED BY <3>1, <3>2
  <2>4. Solves(next, m + 1)
    BY <2>3
  <2> HIDE DEF Solves
  <2> QED BY <2>4
<1>6. PICK some : Solves(some, n)
  <2>1. Nat \subseteq M
    <3> HIDE DEF M
    <3> QED BY <1>4, <1>5, AllNumbers
  <2> HIDE DEF Solves
  <2> QED BY <2>1, <1>1
<1> DEFINE fold == [s \in SUBSET D |-> some[s]]
           iter == CHOOSE it : it = [s \in SUBSET D |-> Body(it, s)]
<1>7. fold = [s \in SUBSET D |-> Body(fold, s)]
  <2>1. \A s \in SUBSET D : some[s] = Body(some, s) /\ Body(some, s) = Body(fold, s)
    BY <1>3, <1>6
  <2> QED BY <2>1
<1>8. iter = [s \in SUBSET D |-> Body(iter, s)]
  <2> HIDE DEF fold, Body
  <2> QED BY <1>7
<1>9. FoldLeft(GrowElement, from, items) = iter[D]
  BY DEF FoldLeft, MapThenFoldSet, D
<1> HIDE DEF iter
<1>10. iter[{}] = from
  BY <1>8
<1>11. ASSUME NEW k \in 0 .. (n - 1)
       PROVE  iter[1 .. (k + 1)] = GrowElement(iter[1 .. k], items[k + 1])
  <2>1. PICK s : s = 1 .. (k + 1)
    BY ONLY TRUE
  <2>2. s \in SUBSET D /\ s # {} /\ Max(s) = k + 1 /\ s \ {k + 1} = 1 .. k
    BY <1>1, <1>2, <2>1 DEF SubsetsAreSteps
  <2>3. iter[s] = Body(iter, s)
    <3> HIDE DEF Body
    <3> QED BY <1>8, <2>2
  <2> QED BY <2>1, <2>2, <2>3
<1> DEFINE stages == [k \in 0 .. n |-> iter[1 .. k]]
<1>12. stages[0] = from /\ stages[n] = iter[D]
  <2>1. 1 .. 0 = {}
    OBVIOUS
  <2> QED BY <1>1, <1>10, <2>1
<1>13. \A k \in 0 .. (n - 1) : stages[k + 1] = GrowElement(stages[k], items[k + 1])
  BY <1>1, <1>11
<1> HIDE DEF stages
<1> QED BY <1>9, <1>12, <1>13 DEF IsGrowth, n

IsLinking(stages, items, from) ==
  /\ stages[0] = from
  /\ \A k \in 0 .. (Len(items) - 1) : stages[k + 1] = GrowEdge(stages[k], items[k + 1])

\* Edges grown in turn.
LEMMA EdgesByStages ==
  ASSUME NEW items, ASequence(items), NEW from
  PROVE  \E stages : IsLinking(stages, items, from) /\ FoldLeft(GrowEdge, from, items) = stages[Len(items)]
<1> DEFINE n == Len(items)
           D == DOMAIN items
           Body(it, s) == IF s = {} THEN from ELSE GrowEdge(it[s \ {Max(s)}], items[Max(s)])
           Solves(it, m) == \A s \in SUBSET D : Cardinality(s) <= m => it[s] = Body(it, s)
           M == {m \in Nat : \E it : Solves(it, m)}
<1>1. n \in Nat /\ D = 1 .. n
  BY SeqIs
<1> HIDE DEF D, n
<1>2. SubsetsAreSteps(n)
  BY <1>1, SubsetsInSteps
<1>3. /\ \A s \in SUBSET D : Cardinality(s) \in Nat /\ Cardinality(s) <= n /\ (Cardinality(s) <= 0 => s = {})
      /\ \A s \in SUBSET D : s # {} => Cardinality(s \ {Max(s)}) = Cardinality(s) - 1
  BY <1>1, <1>2 DEF SubsetsAreSteps
<1>4. 0 \in M
  <2> DEFINE it == [s \in SUBSET D |-> from]
  <2>1. Solves(it, 0)
    BY <1>3
  <2> HIDE DEF it, Solves
  <2> QED BY <2>1
<1>5. ASSUME NEW m \in Nat, m \in M PROVE m + 1 \in M
  <2>1. PICK it : Solves(it, m)
    BY <1>5
  <2> DEFINE next == [s \in SUBSET D |-> Body(it, s)]
  <2>2. \A s \in SUBSET D : next[s] = Body(it, s)
    OBVIOUS
  <2> HIDE DEF next
  <2>3. ASSUME NEW s \in SUBSET D, Cardinality(s) <= m + 1 PROVE next[s] = Body(next, s)
    <3>1. CASE s = {}
      BY <3>1, <2>2
    <3>2. CASE s # {}
      <4> DEFINE t == s \ {Max(s)}
      <4>1. t \in SUBSET D /\ Cardinality(t) <= m
        BY <3>2, <1>3, <2>3
      <4>2. it[t] = Body(it, t) /\ next[t] = Body(it, t)
        BY <4>1, <2>1, <2>2
      <4>3. next[s] = GrowEdge(it[t], items[Max(s)])
        BY <3>2, <2>2
      <4> QED BY <3>2, <4>2, <4>3
    <3> QED BY <3>1, <3>2
  <2>4. Solves(next, m + 1)
    BY <2>3
  <2> HIDE DEF Solves
  <2> QED BY <2>4
<1>6. PICK some : Solves(some, n)
  <2>1. Nat \subseteq M
    <3> HIDE DEF M
    <3> QED BY <1>4, <1>5, AllNumbers
  <2> HIDE DEF Solves
  <2> QED BY <2>1, <1>1
<1> DEFINE fold == [s \in SUBSET D |-> some[s]]
           iter == CHOOSE it : it = [s \in SUBSET D |-> Body(it, s)]
<1>7. fold = [s \in SUBSET D |-> Body(fold, s)]
  <2>1. \A s \in SUBSET D : some[s] = Body(some, s) /\ Body(some, s) = Body(fold, s)
    BY <1>3, <1>6
  <2> QED BY <2>1
<1>8. iter = [s \in SUBSET D |-> Body(iter, s)]
  <2> HIDE DEF fold, Body
  <2> QED BY <1>7
<1>9. FoldLeft(GrowEdge, from, items) = iter[D]
  BY DEF FoldLeft, MapThenFoldSet, D
<1> HIDE DEF iter
<1>10. iter[{}] = from
  BY <1>8
<1>11. ASSUME NEW k \in 0 .. (n - 1)
       PROVE  iter[1 .. (k + 1)] = GrowEdge(iter[1 .. k], items[k + 1])
  <2>1. PICK s : s = 1 .. (k + 1)
    BY ONLY TRUE
  <2>2. s \in SUBSET D /\ s # {} /\ Max(s) = k + 1 /\ s \ {k + 1} = 1 .. k
    BY <1>1, <1>2, <2>1 DEF SubsetsAreSteps
  <2>3. iter[s] = Body(iter, s)
    <3> HIDE DEF Body
    <3> QED BY <1>8, <2>2
  <2> QED BY <2>1, <2>2, <2>3
<1> DEFINE stages == [k \in 0 .. n |-> iter[1 .. k]]
<1>12. stages[0] = from /\ stages[n] = iter[D]
  <2>1. 1 .. 0 = {}
    OBVIOUS
  <2> QED BY <1>1, <1>10, <2>1
<1>13. \A k \in 0 .. (n - 1) : stages[k + 1] = GrowEdge(stages[k], items[k + 1])
  BY <1>1, <1>11
<1> HIDE DEF stages
<1> QED BY <1>9, <1>12, <1>13 DEF IsLinking, n

IsSetting(stages, items, from) ==
  /\ stages[0] = from
  /\ \A k \in 0 .. (Len(items) - 1) : stages[k + 1] = SetOne(stages[k], items[k + 1])

\* Values set in turn.
LEMMA ValuesByStages ==
  ASSUME NEW items, ASequence(items), NEW from
  PROVE  \E stages : IsSetting(stages, items, from) /\ FoldLeft(SetOne, from, items) = stages[Len(items)]
<1> DEFINE n == Len(items)
           D == DOMAIN items
           Body(it, s) == IF s = {} THEN from ELSE SetOne(it[s \ {Max(s)}], items[Max(s)])
           Solves(it, m) == \A s \in SUBSET D : Cardinality(s) <= m => it[s] = Body(it, s)
           M == {m \in Nat : \E it : Solves(it, m)}
<1>1. n \in Nat /\ D = 1 .. n
  BY SeqIs
<1> HIDE DEF D, n
<1>2. SubsetsAreSteps(n)
  BY <1>1, SubsetsInSteps
<1>3. /\ \A s \in SUBSET D : Cardinality(s) \in Nat /\ Cardinality(s) <= n /\ (Cardinality(s) <= 0 => s = {})
      /\ \A s \in SUBSET D : s # {} => Cardinality(s \ {Max(s)}) = Cardinality(s) - 1
  BY <1>1, <1>2 DEF SubsetsAreSteps
<1>4. 0 \in M
  <2> DEFINE it == [s \in SUBSET D |-> from]
  <2>1. Solves(it, 0)
    BY <1>3
  <2> HIDE DEF it, Solves
  <2> QED BY <2>1
<1>5. ASSUME NEW m \in Nat, m \in M PROVE m + 1 \in M
  <2>1. PICK it : Solves(it, m)
    BY <1>5
  <2> DEFINE next == [s \in SUBSET D |-> Body(it, s)]
  <2>2. \A s \in SUBSET D : next[s] = Body(it, s)
    OBVIOUS
  <2> HIDE DEF next
  <2>3. ASSUME NEW s \in SUBSET D, Cardinality(s) <= m + 1 PROVE next[s] = Body(next, s)
    <3>1. CASE s = {}
      BY <3>1, <2>2
    <3>2. CASE s # {}
      <4> DEFINE t == s \ {Max(s)}
      <4>1. t \in SUBSET D /\ Cardinality(t) <= m
        BY <3>2, <1>3, <2>3
      <4>2. it[t] = Body(it, t) /\ next[t] = Body(it, t)
        BY <4>1, <2>1, <2>2
      <4>3. next[s] = SetOne(it[t], items[Max(s)])
        BY <3>2, <2>2
      <4> QED BY <3>2, <4>2, <4>3
    <3> QED BY <3>1, <3>2
  <2>4. Solves(next, m + 1)
    BY <2>3
  <2> HIDE DEF Solves
  <2> QED BY <2>4
<1>6. PICK some : Solves(some, n)
  <2>1. Nat \subseteq M
    <3> HIDE DEF M
    <3> QED BY <1>4, <1>5, AllNumbers
  <2> HIDE DEF Solves
  <2> QED BY <2>1, <1>1
<1> DEFINE fold == [s \in SUBSET D |-> some[s]]
           iter == CHOOSE it : it = [s \in SUBSET D |-> Body(it, s)]
<1>7. fold = [s \in SUBSET D |-> Body(fold, s)]
  <2>1. \A s \in SUBSET D : some[s] = Body(some, s) /\ Body(some, s) = Body(fold, s)
    BY <1>3, <1>6
  <2> QED BY <2>1
<1>8. iter = [s \in SUBSET D |-> Body(iter, s)]
  <2> HIDE DEF fold, Body
  <2> QED BY <1>7
<1>9. FoldLeft(SetOne, from, items) = iter[D]
  BY DEF FoldLeft, MapThenFoldSet, D
<1> HIDE DEF iter
<1>10. iter[{}] = from
  BY <1>8
<1>11. ASSUME NEW k \in 0 .. (n - 1)
       PROVE  iter[1 .. (k + 1)] = SetOne(iter[1 .. k], items[k + 1])
  <2>1. PICK s : s = 1 .. (k + 1)
    BY ONLY TRUE
  <2>2. s \in SUBSET D /\ s # {} /\ Max(s) = k + 1 /\ s \ {k + 1} = 1 .. k
    BY <1>1, <1>2, <2>1 DEF SubsetsAreSteps
  <2>3. iter[s] = Body(iter, s)
    <3> HIDE DEF Body
    <3> QED BY <1>8, <2>2
  <2> QED BY <2>1, <2>2, <2>3
<1> DEFINE stages == [k \in 0 .. n |-> iter[1 .. k]]
<1>12. stages[0] = from /\ stages[n] = iter[D]
  <2>1. 1 .. 0 = {}
    OBVIOUS
  <2> QED BY <1>1, <1>10, <2>1
<1>13. \A k \in 0 .. (n - 1) : stages[k + 1] = SetOne(stages[k], items[k + 1])
  BY <1>1, <1>11
<1> HIDE DEF stages
<1> QED BY <1>9, <1>12, <1>13 DEF IsSetting, n


\* Dimensions, of which the first batch of elements keeps what they were.
DimsOK(ds) == ds = [d \in 1 .. Rank |-> ds[d]] /\ \A d \in 1 .. Rank : DimOK(ds[d])
Follows(ds, old) == \A d \in 1 .. Rank : PlacesStay(ds[d], old[d], Gone)
BatchOK(so, old) == so.failed \in BOOLEAN /\ (~so.failed => DimsOK(so.dims) /\ Follows(so.dims, old))

LEMMA FollowsItself ==
  ASSUME NEW ds
  PROVE  Follows(ds, ds)
BY DEF Follows, PlacesStay

LEMMA GoneIsNowhere ==
  ASSUME NEW dim, DimOK(dim)
  PROVE  Gone \notin DOMAIN dim.elements
<1>1. PICK n \in Nat : DOMAIN dim.elements = 1 .. n
  BY DimFacts
<1> QED BY <1>1 DEF Gone

LEMMA OneDimChanged ==
  ASSUME NEW ds, DimsOK(ds), NEW d \in 1 .. Rank, NEW dim, DimOK(dim)
  PROVE  DimsOK([ds EXCEPT ![d] = dim])
<1>1. PICK new : new = [ds EXCEPT ![d] = dim]
  BY ONLY TRUE
<1>2. DOMAIN ds = 1 .. Rank
  BY DEF DimsOK
<1>3. new[d] = dim /\ (\A x \in 1 .. Rank : x # d => new[x] = ds[x]) /\ new = [x \in 1 .. Rank |-> new[x]]
  BY <1>1, <1>2
<1>4. DimsOK(new)
  BY <1>3 DEF DimsOK
<1> QED BY ONLY <1>1, <1>4

LEMMA OneDimFollows ==
  ASSUME NEW ds, DimsOK(ds), NEW old, DimsOK(old), Follows(ds, old), NEW d \in 1 .. Rank, NEW dim, PlacesStay(dim, ds[d], Gone)
  PROVE  Follows([ds EXCEPT ![d] = dim], old)
<1>1. PICK new : new = [ds EXCEPT ![d] = dim]
  BY ONLY TRUE
<1>2. DOMAIN ds = 1 .. Rank
  BY DEF DimsOK
<1>3. new[d] = dim /\ \A x \in 1 .. Rank : x # d => new[x] = ds[x]
  BY <1>1, <1>2
<1>4. PlacesStay(dim, old[d], Gone)
  <2>1. PlacesStay(ds[d], old[d], Gone) /\ Gone \notin DOMAIN old[d].elements
    BY GoneIsNowhere DEF Follows, DimsOK
  <2> QED BY ONLY PlacesStay(dim, ds[d], Gone), <2>1 DEF PlacesStay
<1>5. ASSUME NEW x \in 1 .. Rank PROVE PlacesStay(new[x], old[x], Gone)
  BY <1>3, <1>4 DEF Follows
<1>6. Follows(new, old)
  BY <1>5 DEF Follows
<1> QED BY ONLY <1>1, <1>6

LEMMA FailedOK ==
  ASSUME NEW old
  PROVE  BatchOK(Failed, old)
BY DEF BatchOK, Failed

LEMMA GrownOK ==
  ASSUME NEW ds, DimsOK(ds), NEW old, Follows(ds, old)
  PROVE  BatchOK(Grown(ds), old) /\ Grown(ds).failed = FALSE /\ Grown(ds).dims = ds
<1>1. PICK so : so = Grown(ds)
  BY ONLY TRUE
<1>2. so.failed = FALSE /\ so.dims = ds
  BY <1>1 DEF Grown
<1>3. BatchOK(so, old)
  BY <1>2 DEF BatchOK
<1> QED BY <1>1, <1>2, <1>3

LEMMA GrowElementOK ==
  ASSUME NEW old, DimsOK(old), NEW so, BatchOK(so, old), NEW el, el.kind \in ElementKinds
  PROVE  BatchOK(GrowElement(so, el), old)
<1>1. CASE so.failed \/ el.d \notin DOMAIN so.dims
  BY <1>1, FailedOK DEF GrowElement
<1>2. CASE ~(so.failed \/ el.d \notin DOMAIN so.dims)
  <2>1. PICK ds, d : ds = so.dims /\ d = el.d
    BY ONLY TRUE
  <2>2. DimsOK(ds) /\ Follows(ds, old) /\ d \in 1 .. Rank /\ DimOK(ds[d])
    BY <1>2, <2>1 DEF BatchOK, DimsOK
  <2>3. PICK dim : dim = ds[d]
    BY ONLY TRUE
  <2>4. CASE el.name \notin Names(dim)
    <3>1. GrowElement(so, el) = Grown([ds EXCEPT ![d] = AddElement(dim, el.name, el.kind)])
      BY <1>2, <2>1, <2>3, <2>4 DEF GrowElement
    <3>2. DimOK(AddElement(dim, el.name, el.kind)) /\ PlacesStay(AddElement(dim, el.name, el.kind), dim, Gone)
      BY <2>2, <2>3, <2>4, AddElementOK
    <3>3. DimsOK([ds EXCEPT ![d] = AddElement(dim, el.name, el.kind)])
      BY ONLY <2>2, <3>2, OneDimChanged
    <3>4. Follows([ds EXCEPT ![d] = AddElement(dim, el.name, el.kind)], old)
      BY ONLY DimsOK(old), <2>2, <2>3, <3>2, OneDimFollows
    <3> QED BY ONLY <3>1, <3>3, <3>4, GrownOK
  <2>5. CASE el.name \in Names(dim)
    <3>1. GrowElement(so, el) = so \/ GrowElement(so, el) = Failed
      BY <1>2, <2>1, <2>3, <2>5 DEF GrowElement
    <3> QED BY <3>1, FailedOK
  <2> QED BY <2>4, <2>5
<1> QED BY <1>1, <1>2

LEMMA NamedOnes ==
  ASSUME NEW dim, DimOK(dim), NEW name \in Names(dim)
  PROVE  IndexOf(dim, name) \in DOMAIN dim.elements /\ dim.elements[IndexOf(dim, name)].name = name
BY DEF DimOK, NamesFound, Names, IndexOf

LEMMA GrowEdgeOK ==
  ASSUME NEW old, DimsOK(old), NEW so, BatchOK(so, old), NEW edge
  PROVE  BatchOK(GrowEdge(so, edge), old)
<1>1. CASE so.failed \/ edge.d \notin DOMAIN so.dims
  BY <1>1, FailedOK DEF GrowEdge
<1>2. CASE ~(so.failed \/ edge.d \notin DOMAIN so.dims)
  <2>1. PICK ds, d : ds = so.dims /\ d = edge.d
    BY ONLY TRUE
  <2>2. DimsOK(ds) /\ Follows(ds, old) /\ d \in 1 .. Rank /\ DimOK(ds[d])
    BY <1>2, <2>1 DEF BatchOK, DimsOK
  <2>3. PICK dim : dim = ds[d]
    BY ONLY TRUE
  <2>4. CASE ~({edge.parent, edge.child} \subseteq Names(dim))
    BY <1>2, <2>1, <2>3, <2>4, FailedOK DEF GrowEdge
  <2>5. CASE {edge.parent, edge.child} \subseteq Names(dim)
    <3>1. PICK parent, child : parent = IndexOf(dim, edge.parent) /\ child = IndexOf(dim, edge.child)
      BY ONLY TRUE
    <3>2. parent \in DOMAIN dim.elements /\ child \in DOMAIN dim.elements
      BY <2>2, <2>3, <2>5, <3>1, NamedOnes
    <3> DEFINE has == {e \in ToSet(dim.children[parent]) : e.child = child}
    <3>3. CASE has # {} \/ ~CanAddChild(dim, parent, child)
      <4>1. GrowEdge(so, edge) = so \/ GrowEdge(so, edge) = Failed
        BY <1>2, <2>1, <2>3, <2>5, <3>1, <3>3 DEF GrowEdge
      <4> QED BY SMTT(30), <4>1, FailedOK
    <3>4. CASE has = {} /\ CanAddChild(dim, parent, child)
      <4>1. GrowEdge(so, edge) = Grown([ds EXCEPT ![d] = AddChild(dim, parent, child, edge.weight)])
        BY <1>2, <2>1, <2>3, <2>5, <3>1, <3>4 DEF GrowEdge
      <4>2. child \notin ChildSet(dim.children[parent])
        BY <3>4 DEF ChildSet, ToSet
      <4>3. DimOK(AddChild(dim, parent, child, edge.weight)) /\ AddChild(dim, parent, child, edge.weight).elements = dim.elements
        <5> HIDE DEF has
        <5> QED BY <2>2, <2>3, <3>2, <3>4, <4>2, AddChildOK
      <4>4. DimsOK([ds EXCEPT ![d] = AddChild(dim, parent, child, edge.weight)])
        BY ONLY <2>2, <4>3, OneDimChanged
      <4>5. PlacesStay(AddChild(dim, parent, child, edge.weight), dim, Gone)
        BY ONLY <4>3, SameElements
      <4>6. Follows([ds EXCEPT ![d] = AddChild(dim, parent, child, edge.weight)], old)
        BY ONLY DimsOK(old), <2>2, <2>3, <4>5, OneDimFollows
      <4> QED BY ONLY <4>1, <4>4, <4>6, GrownOK
    <3> QED BY <3>3, <3>4
  <2> QED BY <2>4, <2>5
<1> QED BY <1>1, <1>2

\* A batch rejected or carried out whole leaves the dimensions sound.
LEMMA GrowthOK ==
  ASSUME NEW ds, DimsOK(ds), NEW elements, ASequence(elements), \A i \in DOMAIN elements : elements[i].kind \in ElementKinds,
         NEW edges, ASequence(edges)
  PROVE  BatchOK(ApplyGrowth(ds, elements, edges), ds)
<1>1. PICK mid : mid = FoldLeft(GrowElement, Grown(ds), elements)
  BY ONLY TRUE
<1>2. BatchOK(mid, ds)
  <2>1. PICK from : from = Grown(ds) /\ BatchOK(from, ds)
    BY GrownOK, FollowsItself
  <2>2. PICK stages : IsGrowth(stages, elements, from) /\ FoldLeft(GrowElement, from, elements) = stages[Len(elements)]
    BY ONLY ASequence(elements), ElementsByStages
  <2> DEFINE n == Len(elements)
             U == {k \in Nat : k <= n => BatchOK(stages[k], ds)}
  <2>3. n \in Nat /\ DOMAIN elements = 1 .. n
    BY SeqIs
  <2>4. stages[0] = from /\ \A k \in 0 .. (n - 1) : stages[k + 1] = GrowElement(stages[k], elements[k + 1])
    BY <2>2 DEF IsGrowth
  <2> HIDE DEF n
  <2>5. 0 \in U
    BY <2>1, <2>4
  <2>6. ASSUME NEW k \in Nat, k \in U PROVE k + 1 \in U
    <3> SUFFICES ASSUME k + 1 <= n PROVE BatchOK(stages[k + 1], ds)
      OBVIOUS
    <3>1. k \in 0 .. (n - 1) /\ k + 1 \in 1 .. n /\ BatchOK(stages[k], ds)
      BY <2>3, <2>6
    <3>2. elements[k + 1].kind \in ElementKinds
      BY <2>3, <3>1
    <3>3. PICK so, el : so = stages[k] /\ el = elements[k + 1]
      BY ONLY TRUE
    <3>4. BatchOK(GrowElement(so, el), ds)
      BY ONLY DimsOK(ds), <3>1, <3>2, <3>3, GrowElementOK
    <3> QED BY ONLY <2>4, <3>1, <3>3, <3>4
  <2>7. Nat \subseteq U
    <3> HIDE DEF U
    <3> QED BY <2>5, <2>6, AllNumbers
  <2> QED BY <1>1, <2>1, <2>2, <2>3, <2>7 DEF n
<1>3. PICK stages : IsLinking(stages, edges, mid) /\ FoldLeft(GrowEdge, mid, edges) = stages[Len(edges)]
  BY ONLY ASequence(edges), EdgesByStages
<1> DEFINE n == Len(edges)
           U == {k \in Nat : k <= n => BatchOK(stages[k], ds)}
<1>4. n \in Nat
  BY SeqIs
<1>5. stages[0] = mid /\ \A k \in 0 .. (n - 1) : stages[k + 1] = GrowEdge(stages[k], edges[k + 1])
  BY <1>3 DEF IsLinking
<1> HIDE DEF n
<1>6. 0 \in U
  BY <1>2, <1>5
<1>7. ASSUME NEW k \in Nat, k \in U PROVE k + 1 \in U
  <2> SUFFICES ASSUME k + 1 <= n PROVE BatchOK(stages[k + 1], ds)
    OBVIOUS
  <2>1. k \in 0 .. (n - 1) /\ BatchOK(stages[k], ds)
    BY <1>4, <1>7
  <2>2. PICK so, edge : so = stages[k] /\ edge = edges[k + 1]
    BY ONLY TRUE
  <2>3. BatchOK(GrowEdge(so, edge), ds)
    BY ONLY DimsOK(ds), <2>1, <2>2, GrowEdgeOK
  <2> QED BY ONLY <1>5, <2>1, <2>2, <2>3
<1>8. Nat \subseteq U
  <2> HIDE DEF U
  <2> QED BY <1>6, <1>7, AllNumbers
<1>9. BatchOK(stages[n], ds)
  BY <1>4, <1>8
<1> QED BY <1>1, <1>3, <1>9 DEF ApplyGrowth, n

SettingOK(so, els) == so.failed \in BOOLEAN /\ (~so.failed => DimOK(so.dim) /\ so.dim.elements = els)

LEMMA SetOneOK ==
  ASSUME NEW so, NEW els, SettingOK(so, els), NEW v, v.element \in DOMAIN els
  PROVE  SettingOK(SetOne(so, v), els)
<1>1. CASE so.failed \/ ~CanSetAttribute(so.dim, v.element, v.attribute, v.value)
  BY <1>1 DEF SetOne, Failed, SettingOK
<1>2. CASE ~(so.failed \/ ~CanSetAttribute(so.dim, v.element, v.attribute, v.value))
  <2>1. PICK dim : dim = so.dim /\ DimOK(dim) /\ dim.elements = els
    BY <1>2 DEF SettingOK
  <2>2. PICK new : new = SetAttribute(dim, v.element, v.attribute, v.value)
    BY ONLY TRUE
  <2>3. SetOne(so, v) = [failed |-> FALSE, dim |-> new]
    BY <1>2, <2>1, <2>2 DEF SetOne
  <2>4. DimOK(new) /\ new.elements = els
    <3>1. CanSetAttribute(dim, v.element, v.attribute, v.value) /\ v.element \in DOMAIN dim.elements
      BY <1>2, <2>1
    <3> QED BY ONLY <2>1, <2>2, <3>1, SetAttributeOK
  <2> QED BY ONLY <2>3, <2>4 DEF SettingOK
<1> QED BY <1>1, <1>2

LEMMA SettingInTurnOK ==
  ASSUME NEW dim, DimOK(dim), NEW values, ASequence(values), \A i \in DOMAIN values : values[i].element \in DOMAIN dim.elements
  PROVE  SettingOK(SetInTurn(dim, values), dim.elements)
<1>1. PICK from, els : from = [failed |-> FALSE, dim |-> dim] /\ els = dim.elements
  BY ONLY TRUE
<1>2. SettingOK(from, els)
  BY <1>1 DEF SettingOK
<1>3. PICK stages : IsSetting(stages, values, from) /\ FoldLeft(SetOne, from, values) = stages[Len(values)]
  BY ONLY ASequence(values), ValuesByStages
<1> DEFINE n == Len(values)
           U == {k \in Nat : k <= n => SettingOK(stages[k], els)}
<1>4. n \in Nat /\ DOMAIN values = 1 .. n
  BY SeqIs
<1>5. stages[0] = from /\ \A k \in 0 .. (n - 1) : stages[k + 1] = SetOne(stages[k], values[k + 1])
  BY <1>3 DEF IsSetting
<1> HIDE DEF n
<1>6. 0 \in U
  BY <1>2, <1>5
<1>7. ASSUME NEW k \in Nat, k \in U PROVE k + 1 \in U
  <2> SUFFICES ASSUME k + 1 <= n PROVE SettingOK(stages[k + 1], els)
    OBVIOUS
  <2>1. k \in 0 .. (n - 1) /\ k + 1 \in 1 .. n /\ SettingOK(stages[k], els)
    BY <1>4, <1>7
  <2>2. values[k + 1].element \in DOMAIN els
    BY <1>1, <1>4, <2>1
  <2>3. PICK so, v : so = stages[k] /\ v = values[k + 1]
    BY ONLY TRUE
  <2>4. SettingOK(SetOne(so, v), els)
    BY ONLY <2>1, <2>2, <2>3, SetOneOK
  <2> QED BY ONLY <1>5, <2>1, <2>3, <2>4
<1>8. Nat \subseteq U
  <2> HIDE DEF U
  <2> QED BY <1>6, <1>7, AllNumbers
<1>9. SettingOK(stages[n], els)
  BY <1>4, <1>8
<1> QED BY <1>1, <1>3, <1>9 DEF SetInTurn, n
=============================================================================
