-------------------------------- MODULE Facts --------------------------------
(* Facts that the proofs about the databases share: least and greatest numbers, *)
(* counting, and what the loops of Selection return.  What is defined by         *)
(* recursion is followed from a least counterexample.                            *)
EXTENDS Selection, FiniteSetsExt, FiniteSetTheorems, SequenceTheorems, WellFoundedInduction, TLAPS

(* Finite sets of numbers. *)

\* A set of numbers that is not empty has a least one.
LEMMA NatHasMin ==
  ASSUME NEW S \in SUBSET Nat, S # {}
  PROVE  \E x \in S : \A y \in S : x <= y
<1>1. IsWellFoundedOn(OpToRel(<, Nat), Nat)
  BY NatLessThanWellFounded
<1>2. PICK x \in S : \A y \in S : ~ (<<y, x>> \in OpToRel(<, Nat))
  BY <1>1, WFMin
<1>3. \A y \in S : ~ (y < x)
  BY <1>2 DEF OpToRel
<1> QED BY <1>3

\* Min, as the model takes it with CHOOSE, is that least number.
LEMMA MinOfNats ==
  ASSUME NEW S \in SUBSET Nat, S # {}
  PROVE  Min(S) \in S /\ \A y \in S : Min(S) <= y
<1>1. \E x \in S : \A y \in S : x <= y
  BY NatHasMin
<1> QED BY <1>1 DEF Min

\* A finite set of numbers that is not empty has a greatest one.
LEMMA FiniteHasMax ==
  ASSUME NEW S \in SUBSET Nat, IsFiniteSet(S), S # {}
  PROVE  \E x \in S : \A y \in S : x >= y
<1> DEFINE Unbounded == {U \in FiniteSubsetsOf(S) : U # {} /\ ~ \E x \in U : \A y \in U : x >= y}
<1> SUFFICES ASSUME Unbounded # {} PROVE FALSE
  BY FS_Subset DEF FiniteSubsetsOf
<1>1. PICK U \in Unbounded : \A V \in Unbounded : ~ (<<V, U>> \in StrictSubsetOrdering(S))
  <2>1. IsWellFoundedOn(StrictSubsetOrdering(S), FiniteSubsetsOf(S))
    BY FS_StrictSubsetOrderingWellFounded
  <2>2. Unbounded \subseteq FiniteSubsetsOf(S)
    OBVIOUS
  <2> HIDE DEF Unbounded
  <2> QED BY <2>1, <2>2, WFMin
<1>2. PICK u \in U : TRUE
  OBVIOUS
<1> DEFINE V == U \ {u}
<1>3. V \in FiniteSubsetsOf(S) /\ <<V, U>> \in StrictSubsetOrdering(S)
  BY <1>2, FS_RemoveElement DEF FiniteSubsetsOf, StrictSubsetOrdering
<1>4. CASE V = {}
  <2>1. U = {u} BY <1>2, <1>4
  <2> QED BY <2>1 DEF FiniteSubsetsOf
<1>5. CASE V # {}
  <2>1. PICK v \in V : \A y \in V : v >= y
    BY <1>1, <1>3, <1>5
  <2>2. u \in Nat /\ v \in Nat /\ U \subseteq Nat
    BY <2>1 DEF FiniteSubsetsOf
  <2> QED BY <2>1, <2>2
<1> QED BY <1>4, <1>5

\* Max, which NextPid and the member orders use, is that greatest number.
LEMMA MaxOfNats ==
  ASSUME NEW S \in SUBSET Nat, IsFiniteSet(S), S # {}
  PROVE  Max(S) \in S /\ \A y \in S : Max(S) >= y
<1>1. \E x \in S : \A y \in S : x >= y
  BY FiniteHasMax
<1> QED BY <1>1 DEF Max

\* The values of a finite table are finitely many.
LEMMA ImageIsFinite ==
  ASSUME NEW f, IsFiniteSet(DOMAIN f)
  PROVE  IsFiniteSet({f[x] : x \in DOMAIN f})
<1> DEFINE S == DOMAIN f
           T == {f[x] : x \in S}
           g == [x \in S |-> f[x]]
<1>1. g \in Surjection(S, T)
  BY DEF Surjection
<1> QED BY <1>1, FS_Surjection

\* Whatever is counted among finitely many rows is a number.
LEMMA CountIsNat ==
  ASSUME NEW S, IsFiniteSet(S), NEW T \in SUBSET S
  PROVE  IsFiniteSet(T) /\ Cardinality(T) \in Nat
BY FS_Subset, FS_CardinalityType
------------------------------------------------------------------------------
(* Selection. *)

\* One turn of the loop of Selected, and its turns up to n.
Turn(s, P, kept, n) == IF n \in P THEN Append(kept, s[n]) ELSE kept
Loop(s, P, f, n) == f[0] = <<>> /\ \A i \in 1..n : f[i] = Turn(s, P, f[i - 1], i)

LEMMA TurnKeeps ==
  ASSUME NEW S, NEW s \in Seq(S), NEW P, NEW kept \in Seq(S), NEW n \in 1..Len(s)
  PROVE  Turn(s, P, kept, n) \in Seq(S)
<1>1. s[n] \in S
  BY ElementOfSeq
<1> QED BY <1>1, AppendProperties DEF Turn

\* The loop runs to its end.
LEMMA LoopRuns ==
  ASSUME NEW S, NEW s \in Seq(S), NEW P
  PROVE  \E f \in [0..Len(s) -> Seq(S)] : Loop(s, P, f, Len(s))
<1> DEFINE Runs(n) == \E f \in [0..n -> Seq(S)] : Loop(s, P, f, n)
           Stuck == {n \in 0..Len(s) : ~ Runs(n)}
<1>1. Len(s) \in Nat /\ \A i \in 1..Len(s) : s[i] \in S
  OBVIOUS
<1>2. SUFFICES ASSUME Stuck # {} PROVE FALSE
  BY <1>1
<1>3. PICK n \in Stuck : \A m \in Stuck : n <= m
  <2>1. Stuck \in SUBSET Nat
    BY <1>1
  <2> HIDE DEF Stuck
  <2> QED BY <1>2, <2>1, NatHasMin
<1>4. n # 0
  <2>1. [i \in 0..0 |-> <<>>] \in [0..0 -> Seq(S)]
    BY EmptySeq
  <2>2. Loop(s, P, [i \in 0..0 |-> <<>>], 0)
    BY DEF Loop
  <2>3. Runs(0)
    BY <2>1, <2>2
  <2> QED BY <1>3, <2>3
<1>5. n \in 1..Len(s) /\ n - 1 \in 0..Len(s)
  BY <1>1, <1>3, <1>4
<1> HIDE DEF Runs
<1>11. Runs(n - 1)
  BY <1>1, <1>3, <1>5
<1>6. PICK f \in [0..(n - 1) -> Seq(S)] : Loop(s, P, f, n - 1)
  BY <1>11 DEF Runs
<1> DEFINE last == Turn(s, P, f[n - 1], n)
           g == [i \in 0..n |-> IF i = n THEN last ELSE f[i]]
<1>7. last \in Seq(S)
  BY <1>1, <1>5, <1>6, TurnKeeps
<1> HIDE DEF last
<1>8. g \in [0..n -> Seq(S)]
  BY <1>5, <1>6, <1>7
<1>9. Loop(s, P, g, n)
  <2>1. g[0] = <<>>
    BY <1>5, <1>6 DEF Loop
  <2>2. ASSUME NEW i \in 1..n PROVE g[i] = Turn(s, P, g[i - 1], i)
    <3>1. CASE i = n
      <4>1. g[i] = last /\ g[i - 1] = f[n - 1]
        BY <1>5, <3>1
      <4> QED BY <4>1, <3>1 DEF last
    <3>2. CASE i # n
      <4>1. g[i] = f[i] /\ g[i - 1] = f[i - 1] /\ i \in 1..(n - 1)
        BY <1>5, <3>2
      <4> HIDE DEF g
      <4> QED BY <4>1, <1>6 DEF Loop
    <3> QED BY <3>1, <3>2
  <2> HIDE DEF g
  <2> QED BY <2>1, <2>2 DEF Loop
<1>10. Runs(n)
  BY <1>8, <1>9 DEF Runs
<1> QED BY <1>3, <1>10

LEMMA SelectedRuns ==
  ASSUME NEW S, NEW s \in Seq(S), NEW P
  PROVE  \E f \in [0..Len(s) -> Seq(S)] : Loop(s, P, f, Len(s)) /\ Selected(s, P) = f[Len(s)]
<1> DEFINE Step(f) == [n \in 0..Len(s) |-> IF n = 0 THEN <<>>
                                         ELSE IF n \in P THEN Append(f[n - 1], s[n]) ELSE f[n - 1]]
           kept == CHOOSE f : f = Step(f)
<1>1. Selected(s, P) = kept[Len(s)]
  BY DEF Selected
<1>2. PICK f \in [0..Len(s) -> Seq(S)] : Loop(s, P, f, Len(s))
  BY LoopRuns
<1>3. Len(s) \in Nat
  BY LenProperties
<1>4. f = Step(f)
  <2>1. ASSUME NEW n \in 0..Len(s) PROVE f[n] = Step(f)[n]
    <3>1. CASE n = 0
      BY <1>2, <3>1 DEF Loop
    <3>2. CASE n # 0
      <4>1. n \in 1..Len(s)
        BY <1>3, <3>2
      <4>2. f[n] = Turn(s, P, f[n - 1], n)
        BY <1>2, <4>1 DEF Loop
      <4> QED BY <3>2, <4>2 DEF Turn
    <3> QED BY <3>1, <3>2
  <2> QED BY <2>1
<1>5. kept = Step(kept)
  BY <1>4
<1> HIDE DEF kept
<1>6. DOMAIN kept = 0..Len(s) /\ kept[0] = <<>>
  BY <1>3, <1>5
<1>7. ASSUME NEW n \in 1..Len(s) PROVE kept[n] = Turn(s, P, kept[n - 1], n)
  <2>1. kept[n] = Step(kept)[n]
    BY <1>5
  <2>2. n \in 0..Len(s) /\ n # 0
    BY <1>3
  <2> QED BY <2>1, <2>2 DEF Turn
<1>8. \A n \in 0..Len(s) : kept[n] = f[n]
  <2> DEFINE Apart == {n \in 0..Len(s) : kept[n] # f[n]}
  <2>1. SUFFICES ASSUME Apart # {} PROVE FALSE
    OBVIOUS
  <2>2. PICK n \in Apart : \A m \in Apart : n <= m
    <3>1. Apart \in SUBSET Nat
      BY <1>3
    <3> HIDE DEF Apart
    <3> QED BY <2>1, <3>1, NatHasMin
  <2>3. n # 0
    BY <1>2, <1>6 DEF Loop
  <2>4. n \in 1..Len(s) /\ n - 1 \in 0..Len(s)
    BY <1>3, <2>2, <2>3
  <2>5. kept[n - 1] = f[n - 1]
    BY <1>3, <2>2, <2>4
  <2>6. kept[n] = f[n]
    BY <1>2, <1>7, <2>4, <2>5 DEF Loop
  <2> QED BY <2>2, <2>6
<1>9. kept[Len(s)] = f[Len(s)]
  BY <1>3, <1>8
<1> QED BY <1>1, <1>2, <1>9

\* pos tells where in s the elements of t come from: the places of P, in order.
Places(s, P, t, pos) ==
  /\ pos \in [1..Len(t) -> P]
  /\ \A k \in 1..Len(t) : t[k] = s[pos[k]]
  /\ \A k, l \in 1..Len(t) : k < l => pos[k] < pos[l]
  /\ \A i \in P : \E k \in 1..Len(t) : pos[k] = i

\* One turn keeps the places.
LEMMA TurnPlaces ==
  ASSUME NEW S, NEW s \in Seq(S), NEW P \in SUBSET (1..Len(s)), NEW n \in 1..Len(s),
         NEW kept \in Seq(S), NEW pos, Places(s, P \cap 1..(n - 1), kept, pos)
  PROVE  \E q : Places(s, P \cap 1..n, Turn(s, P, kept, n), q)
<1>1. Len(s) \in Nat /\ n \in Nat /\ Len(kept) \in Nat /\ s[n] \in S
  BY LenProperties, ElementOfSeq
<1>2. CASE n \notin P
  <2>1. P \cap 1..n = P \cap 1..(n - 1)
    BY <1>1, <1>2
  <2> QED BY <1>2, <2>1 DEF Turn
<1>3. CASE n \in P
  <2> DEFINE t == Append(kept, s[n])
             m == Len(kept) + 1
             q == [k \in 1..m |-> IF k = m THEN n ELSE pos[k]]
  <2>1. Len(t) = m /\ t[m] = s[n] /\ \A k \in 1..Len(kept) : t[k] = kept[k]
    BY <1>1, AppendProperties
  <2>2. Turn(s, P, kept, n) = t
    BY <1>3 DEF Turn
  <2> HIDE DEF t
  <2>3. /\ pos \in [1..Len(kept) -> P \cap 1..(n - 1)]
        /\ \A k \in 1..Len(kept) : kept[k] = s[pos[k]]
        /\ \A k, l \in 1..Len(kept) : k < l => pos[k] < pos[l]
        /\ \A i \in P \cap 1..(n - 1) : \E k \in 1..Len(kept) : pos[k] = i
    BY DEF Places
  <2>4. \A k \in 1..m : k = m \/ k \in 1..Len(kept)
    BY <1>1
  <2>5. q \in [1..m -> P \cap 1..n]
    BY <1>1, <1>3, <2>3, <2>4
  <2>6. \A k \in 1..m : t[k] = s[q[k]]
    <3>1. t[m] = s[q[m]]
      BY <1>1, <2>1
    <3>2. ASSUME NEW k \in 1..Len(kept) PROVE t[k] = s[q[k]]
      <4>1. t[k] = kept[k] /\ kept[k] = s[pos[k]]
        BY <2>1, <2>3
      <4>2. k # m /\ k \in 1..m
        BY <1>1
      <4>3. q[k] = pos[k]
        BY <4>2
      <4> QED BY <4>1, <4>3
    <3> HIDE DEF q, m
    <3> QED BY <2>4, <3>1, <3>2
  <2>7. ASSUME NEW k \in 1..m, NEW l \in 1..m, k < l PROVE q[k] < q[l]
    <3>1. k \in 1..Len(kept) /\ q[k] = pos[k] /\ pos[k] \in 1..(n - 1)
      <4>1. k # m /\ k \in 1..Len(kept)
        BY <1>1, <2>7
      <4> QED BY <2>3, <4>1
    <3>2. CASE l = m
      BY <1>1, <3>1, <3>2
    <3>3. CASE l # m
      <4>1. l \in 1..Len(kept)
        BY <2>4, <3>3
      <4>2. q[l] = pos[l]
        BY <3>3
      <4> HIDE DEF q
      <4> QED BY <2>3, <2>7, <3>1, <4>1, <4>2
    <3> QED BY <3>2, <3>3
  <2>8. \A i \in P \cap 1..n : \E k \in 1..m : q[k] = i
    <3>1. SUFFICES ASSUME NEW i \in P \cap 1..n PROVE \E k \in 1..m : q[k] = i
      OBVIOUS
    <3>2. CASE i = n
      <4>1. m \in 1..m /\ q[m] = n
        BY <1>1
      <4> QED BY <3>2, <4>1
    <3>3. CASE i # n
      <4>1. i \in P \cap 1..(n - 1)
        BY <1>1, <3>3
      <4>2. PICK k \in 1..Len(kept) : pos[k] = i
        BY <2>3, <4>1
      <4>3. k \in 1..m /\ q[k] = i
        BY <1>1, <4>2
      <4> QED BY <4>3
    <3> QED BY <3>2, <3>3
  <2> HIDE DEF q
  <2>9. Places(s, P \cap 1..n, t, q)
    BY <2>1, <2>5, <2>6, <2>7, <2>8 DEF Places
  <2> QED BY <2>2, <2>9
<1> QED BY <1>2, <1>3

\* What Selected returns: the elements at the positions, in their order.
LEMMA SelectedPlaces ==
  ASSUME NEW S, NEW s \in Seq(S), NEW P \in SUBSET (1..Len(s))
  PROVE  Selected(s, P) \in Seq(S) /\ \E pos : Places(s, P, Selected(s, P), pos)
<1>1. PICK f \in [0..Len(s) -> Seq(S)] : Loop(s, P, f, Len(s)) /\ Selected(s, P) = f[Len(s)]
  BY SelectedRuns
<1> DEFINE Placed(n) == \E pos : Places(s, P \cap 1..n, f[n], pos)
           Lost == {n \in 0..Len(s) : ~ Placed(n)}
<1>2. Len(s) \in Nat
  BY LenProperties
<1>3. Lost = {}
  <2>1. SUFFICES ASSUME Lost # {} PROVE FALSE
    OBVIOUS
  <2>2. PICK n \in Lost : \A m \in Lost : n <= m
    <3>1. Lost \in SUBSET Nat
      BY <1>2
    <3> HIDE DEF Lost
    <3> QED BY <2>1, <3>1, NatHasMin
  <2>3. n # 0
    <3>1. f[0] = <<>> /\ Len(<<>>) = 0 /\ P \cap 1..0 = {}
      BY <1>1, EmptySeq DEF Loop
    <3>2. Places(s, {}, <<>>, [k \in {} |-> 0])
      <4>1. 1..Len(<<>>) = {}
        BY <3>1
      <4> QED BY <4>1 DEF Places
    <3>3. Placed(0)
      BY <3>1, <3>2
    <3> QED BY <2>2, <3>3
  <2>4. n \in 1..Len(s) /\ n - 1 \in 0..Len(s) /\ n - 1 < n
    BY <1>2, <2>2, <2>3
  <2>5. PICK pos : Places(s, P \cap 1..(n - 1), f[n - 1], pos)
    <3>1. n - 1 \notin Lost
      <4>1. n \in Nat /\ n - 1 \in Nat
        BY <1>2, <2>4
      <4>2. ~ (n <= n - 1)
        BY <4>1
      <4> HIDE DEF Lost
      <4> QED BY <2>2, <4>2
    <3>2. Placed(n - 1)
      <4> HIDE DEF Placed
      <4> QED BY <2>4, <3>1
    <3> QED BY <3>2
  <2>6. f[n] = Turn(s, P, f[n - 1], n)
    BY <1>1, <2>4 DEF Loop
  <2>7. f[n - 1] \in Seq(S)
    BY <1>1, <2>4
  <2>8. \E q : Places(s, P \cap 1..n, Turn(s, P, f[n - 1], n), q)
    BY <2>4, <2>5, <2>7, TurnPlaces
  <2> QED BY <2>2, <2>6, <2>8
<1>4. Placed(Len(s)) /\ f[Len(s)] \in Seq(S)
  <2> HIDE DEF Placed
  <2> QED BY <1>1, <1>2, <1>3
<1>5. P \cap 1..Len(s) = P
  OBVIOUS
<1> QED BY <1>1, <1>4, <1>5

\* The elements before one of those selected are those selected before it.
Preceding(P, i) == {j \in P : j < i}

\* They are as many as its place says.
LEMMA PlacesCount ==
  ASSUME NEW s, NEW P \in SUBSET Nat, NEW t, Len(t) \in Nat, NEW pos, Places(s, P, t, pos),
         NEW k \in 1..Len(t)
  PROVE  Cardinality(Preceding(P, pos[k])) = k - 1
<1> DEFINE B == {i \in P : i < pos[k]}
           g == [l \in 1..(k - 1) |-> pos[l]]
<1>1. /\ pos \in [1..Len(t) -> P]
      /\ \A j, l \in 1..Len(t) : j < l => pos[j] < pos[l]
      /\ \A i \in P : \E l \in 1..Len(t) : pos[l] = i
  BY DEF Places
<1>2. \A l \in 1..(k - 1) : l \in 1..Len(t) /\ l < k
  OBVIOUS
<1>3. g \in [1..(k - 1) -> B]
  BY <1>1, <1>2
<1>4. \A i \in B : \E l \in 1..(k - 1) : g[l] = i
  <2>1. SUFFICES ASSUME NEW i \in B PROVE \E l \in 1..(k - 1) : g[l] = i
    OBVIOUS
  <2>2. PICK l \in 1..Len(t) : pos[l] = i
    BY <1>1
  <2>3. pos[k] \in Nat /\ pos[l] \in Nat /\ pos[l] < pos[k]
    BY <1>1, <2>2
  <2>4. l < k
    BY <1>1, <2>2, <2>3
  <2> QED BY <2>2, <2>4
<1>5. \A j, l \in 1..(k - 1) : g[j] = g[l] => j = l
  <2>1. SUFFICES ASSUME NEW j \in 1..(k - 1), NEW l \in 1..(k - 1), g[j] = g[l], j # l PROVE FALSE
    OBVIOUS
  <2>2. pos[j] \in Nat /\ pos[l] \in Nat /\ pos[j] = pos[l] /\ (j < l \/ l < j)
    <3>1. g[j] = pos[j] /\ g[l] = pos[l] /\ j \in 1..Len(t) /\ l \in 1..Len(t)
      BY <1>2
    <3>2. pos[j] \in Nat /\ pos[l] \in Nat
      BY <1>1, <3>1
    <3>3. j \in Nat /\ l \in Nat
      OBVIOUS
    <3>4. j < l \/ l < j
      BY <2>1, <3>3
    <3> HIDE DEF g
    <3>5. pos[j] = pos[l]
      BY <2>1, <3>1, Zenon
    <3> QED BY <3>2, <3>4, <3>5
  <2>3. pos[j] < pos[l] \/ pos[l] < pos[j]
    BY <1>1, <1>2, <2>2
  <2> QED BY <2>2, <2>3
<1>6. g \in Bijection(1..(k - 1), B)
  BY <1>3, <1>4, <1>5 DEF Bijection, Injection, Surjection, IsInjective
<1>7. ExistsBijection(1..(k - 1), B)
  BY <1>6 DEF ExistsBijection
<1>8. k - 1 \in Nat
  OBVIOUS
<1> HIDE DEF B
<1>9. Cardinality(B) = k - 1
  BY <1>7, <1>8, FS_CountingElements
<1> QED BY <1>9 DEF B, Preceding

\* No element comes from two places.
LEMMA PlacesApart ==
  ASSUME NEW s, NEW P \in SUBSET Nat, NEW t, Len(t) \in Nat, NEW pos, Places(s, P, t, pos),
         NEW k \in 1..Len(t), NEW l \in 1..Len(t), pos[k] = pos[l]
  PROVE  k = l
<1>1. pos[k] \in Nat /\ pos[l] \in Nat
  BY DEF Places
<1>2. k < l => pos[k] < pos[l]
  BY DEF Places
<1>3. l < k => pos[l] < pos[k]
  BY DEF Places
<1> QED BY <1>1, <1>2, <1>3

\* There is only one sequence of the elements at some places.
LEMMA PlacesUnique ==
  ASSUME NEW s, NEW P \in SUBSET Nat, NEW t, Len(t) \in Nat, NEW u, Len(u) \in Nat,
         NEW p, NEW q, Places(s, P, t, p), Places(s, P, u, q)
  PROVE  \A k \in 1..Len(t) : k \in 1..Len(u) /\ t[k] = u[k]
<1>1. SUFFICES ASSUME NEW k \in 1..Len(t) PROVE k \in 1..Len(u) /\ t[k] = u[k]
  OBVIOUS
<1>2. p[k] \in P /\ t[k] = s[p[k]]
  BY DEF Places
<1>3. PICK l \in 1..Len(u) : q[l] = p[k]
  BY <1>2 DEF Places
<1>4. Cardinality(Preceding(P, p[k])) = k - 1
  BY PlacesCount
<1>7. Cardinality(Preceding(P, q[l])) = l - 1
  BY PlacesCount
<1>5. k = l
  BY <1>3, <1>4, <1>7
<1>6. u[l] = s[q[l]]
  BY DEF Places
<1> QED BY <1>2, <1>3, <1>5, <1>6

\* It is what Selected returns.
LEMMA SelectedIs ==
  ASSUME NEW S, NEW s \in Seq(S), NEW P \in SUBSET (1..Len(s)), NEW t \in Seq(S), NEW p, Places(s, P, t, p)
  PROVE  Selected(s, P) = t
<1> DEFINE u == Selected(s, P)
<1>1. u \in Seq(S) /\ \E q : Places(s, P, u, q)
  BY SelectedPlaces
<1> HIDE DEF u
<1>7. PICK q : Places(s, P, u, q)
  BY <1>1
<1>2. Len(t) \in Nat /\ Len(u) \in Nat /\ P \in SUBSET Nat
  BY <1>1, LenProperties
<1>3. \A k \in 1..Len(t) : k \in 1..Len(u) /\ t[k] = u[k]
  BY <1>2, <1>7, PlacesUnique
<1>4. \A k \in 1..Len(u) : k \in 1..Len(t)
  BY <1>2, <1>7, PlacesUnique
<1>5. Len(u) = Len(t)
  BY <1>2, <1>3, <1>4
<1>6. u = t
  BY <1>1, <1>3, <1>5, SeqEqual
<1> QED BY <1>6 DEF u

\* One place more, after the others.
LEMMA SelectedNext ==
  ASSUME NEW S, NEW s \in Seq(S), NEW n \in 1..Len(s), NEW P \in SUBSET (1..(n - 1))
  PROVE  Selected(s, P \cup {n}) = Append(Selected(s, P), s[n])
<1> DEFINE Q == P \cup {n}
           t == Selected(s, P)
<1>1. Len(s) \in Nat /\ n \in Nat /\ s[n] \in S
  BY LenProperties, ElementOfSeq
<1>2. P \in SUBSET (1..Len(s)) /\ Q \in SUBSET (1..Len(s)) /\ Q \cap 1..(n - 1) = P /\ Q \cap 1..n = Q
  <2>1. \A i \in P : i \in 1..Len(s) /\ i \in 1..n /\ i # n
    BY <1>1
  <2>2. n \in 1..n /\ n \notin 1..(n - 1)
    BY <1>1
  <2> QED BY <2>1, <2>2
<1>3. t \in Seq(S) /\ \E p : Places(s, P, t, p)
  BY <1>2, SelectedPlaces
<1>4. Turn(s, Q, t, n) = Append(t, s[n])
  BY DEF Turn
<1> HIDE DEF t
<1> HIDE DEF Q
<1>8. PICK p : Places(s, Q \cap 1..(n - 1), t, p)
  BY <1>2, <1>3
<1>5. PICK q : Places(s, Q, Append(t, s[n]), q)
  <2>1. \E q : Places(s, Q \cap 1..n, Turn(s, Q, t, n), q)
    BY <1>2, <1>3, <1>8, TurnPlaces
  <2> QED BY <1>2, <1>4, <2>1
<1>6. Append(t, s[n]) \in Seq(S)
  BY <1>1, <1>3, AppendProperties
<1>7. Selected(s, Q) = Append(t, s[n])
  BY <1>2, <1>5, <1>6, SelectedIs
<1> QED BY <1>7 DEF Q, t

\* No place, no element.
LEMMA SelectedNone ==
  ASSUME NEW S, NEW s \in Seq(S)
  PROVE  Selected(s, {}) = <<>>
<1>1. <<>> \in Seq(S) /\ 1..Len(<<>>) = {}
  BY EmptySeq
<1>2. {} \in SUBSET (1..Len(s)) /\ Places(s, {}, <<>>, [k \in {} |-> 0])
  BY <1>1 DEF Places
<1>3. PICK p : Places(s, {}, <<>>, p)
  BY <1>2
<1> QED BY <1>1, <1>2, <1>3, SelectedIs
=============================================================================
