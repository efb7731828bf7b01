----------------------------- MODULE SqliteProofs -----------------------------
(* The invariants of stage_sqlite, for every library, every set of tracks     *)
(* that can be asked for and every playlist edit: each pass leaves a copy that *)
(* is sound but for its browse orders, only a sorted copy is installed, and    *)
(* the copy is what the request makes of the library, pass by pass.            *)
EXTENDS SqliteEdit, Facts

------------------------------------------------------------------------------
(* Ranks. *)

\* Rank follows the order of the keys it ranks (reindex_named_table).
LEMMA RankOrders ==
  ASSUME NEW S \in SUBSET Nat, IsFiniteSet(S), NEW u \in S, NEW v \in S
  PROVE  /\ Rank(u, S) \in Nat
         /\ u < v <=> Rank(u, S) < Rank(v, S)
<1> DEFINE Below(x) == {w \in S : w < x}
<1>1. \A x \in S : IsFiniteSet(Below(x)) /\ Cardinality(Below(x)) \in Nat
  BY CountIsNat
<1>2. ASSUME NEW x \in S, NEW y \in S, x < y
      PROVE  Cardinality(Below(x)) < Cardinality(Below(y))
  <2> x \in Nat /\ y \in Nat /\ ~ (x < x)
    OBVIOUS
  <2>0. ASSUME NEW w \in S, w < x PROVE w < y
    <3> w \in Nat
      OBVIOUS
    <3> QED BY <2>0, <1>2
  <2>1. Below(x) \in SUBSET Below(y) /\ x \in Below(y) /\ x \notin Below(x)
    BY <1>2, <2>0
  <2>2. Cardinality(Below(x)) <= Cardinality(Below(y)) /\ Cardinality(Below(x)) # Cardinality(Below(y))
    BY <1>1, <2>1, FS_Subset
  <2> QED BY <2>2, <1>1
<1>3. Rank(u, S) = 100 * (1 + Cardinality(Below(u))) /\ Rank(v, S) = 100 * (1 + Cardinality(Below(v)))
  BY DEF Rank
<1>4. u < v \/ u = v \/ v < u
  OBVIOUS
<1>5. u < v => Cardinality(Below(u)) < Cardinality(Below(v))
  BY <1>2
<1>6. v < u => Cardinality(Below(v)) < Cardinality(Below(u))
  BY <1>2
<1> HIDE DEF Below
<1> QED BY <1>1, <1>3, <1>4, <1>5, <1>6

------------------------------------------------------------------------------
(* Sums. *)

\* f is, on every subset of T, the sum that MapThenSumSet builds.
IsSum(f, size, T) ==
  f = [s \in SUBSET T |-> IF s = {} THEN 0
                          ELSE LET x == CHOOSE x \in s : TRUE IN size[x] + f[s \ {x}]]

\* The sum over a set does not depend on the set it is taken in.
LEMMA SumsAgree ==
  ASSUME NEW size, NEW T, IsFiniteSet(T), NEW other, NEW U, \A x \in T \cap U : size[x] = other[x],
         NEW f, NEW g, IsSum(f, size, T), IsSum(g, other, U), NEW s \in (SUBSET T) \cap (SUBSET U)
  PROVE  f[s] = g[s]
<1> DEFINE Bad == {V \in (SUBSET T) \cap (SUBSET U) : f[V] # g[V]}
<1> SUFFICES ASSUME Bad # {} PROVE FALSE
  OBVIOUS
<1>1. PICK V \in Bad : \A W \in Bad : ~ (<<W, V>> \in StrictSubsetOrdering(T))
  <2>1. IsWellFoundedOn(StrictSubsetOrdering(T), FiniteSubsetsOf(T))
    BY FS_StrictSubsetOrderingWellFounded
  <2>2. Bad \subseteq FiniteSubsetsOf(T)
    BY FS_FiniteSubsetsOfFinite
  <2> HIDE DEF Bad
  <2> QED BY <2>1, <2>2, WFMin
<1>2. V # {}
  BY DEF IsSum
<1> DEFINE x == CHOOSE x \in V : TRUE
<1>3. x \in V
  BY <1>2
<1>4. V \ {x} \notin Bad
  <2>1. <<V \ {x}, V>> \in StrictSubsetOrdering(T)
    BY <1>3 DEF StrictSubsetOrdering
  <2> HIDE DEF Bad
  <2> QED BY <2>1, <1>1
<1>5. f[V \ {x}] = g[V \ {x}]
  BY <1>4
<1>6. f[V] = size[x] + f[V \ {x}]
  BY <1>2 DEF IsSum
<1>7. g[V] = size[x] + g[V \ {x}]
  BY <1>2, <1>3 DEF IsSum
<1> QED BY <1>5, <1>6, <1>7

\* The functions that are sums of numbers.
Sums(size, T) == {f \in [SUBSET T -> Nat] : IsSum(f, size, T)}

\* The function that MapThenSumSet chooses exists, for every finite set.
LEMMA SumExists ==
  ASSUME NEW size, NEW T, IsFiniteSet(T), size \in [T -> Nat]
  PROVE  \E f \in [SUBSET T -> Nat] : IsSum(f, size, T)
<1> DEFINE Bad == {V \in SUBSET T : Sums(size, V) = {}}
<1> SUFFICES ASSUME Bad # {} PROVE FALSE
  BY DEF Sums
<1>1. PICK V \in Bad : \A W \in Bad : ~ (<<W, V>> \in StrictSubsetOrdering(T))
  <2>1. IsWellFoundedOn(StrictSubsetOrdering(T), FiniteSubsetsOf(T))
    BY FS_StrictSubsetOrderingWellFounded
  <2>2. Bad \subseteq FiniteSubsetsOf(T)
    BY FS_FiniteSubsetsOfFinite
  <2> HIDE DEF Bad
  <2> QED BY <2>1, <2>2, WFMin
<1> DEFINE F(s) == CHOOSE f \in Sums(size, s) : TRUE
           Least(s) == CHOOSE x \in s : TRUE
           Total(s) == IF s = {} THEN 0 ELSE size[Least(s)] + F(s \ {Least(s)})[s \ {Least(s)}]
           h == [s \in SUBSET V |-> Total(s)]
<1>2. ASSUME NEW s \in SUBSET V, s # V PROVE F(s) \in Sums(size, s)
  <2>1. <<s, V>> \in StrictSubsetOrdering(T)
    BY <1>2 DEF StrictSubsetOrdering
  <2>2. s \notin Bad
    <3> HIDE DEF Bad
    <3> QED BY <2>1, <1>1
  <2>3. Sums(size, s) # {}
    BY <2>2
  <2> QED BY <2>3
<1>3. ASSUME NEW s \in SUBSET V, s # {} PROVE Least(s) \in s /\ Least(s) \in T /\ s \ {Least(s)} # V
  BY <1>3
<1>4. h \in [SUBSET V -> Nat]
  <2> SUFFICES ASSUME NEW s \in SUBSET V PROVE Total(s) \in Nat
    OBVIOUS
  <2>1. CASE s = {}
    BY <2>1
  <2>2. CASE s # {}
    <3> DEFINE r == s \ {Least(s)}
    <3>1. F(r) \in Sums(size, r)
      BY <1>2, <1>3, <2>2
    <3>2. F(r)[r] \in Nat
      BY <3>1 DEF Sums
    <3>3. size[Least(s)] \in Nat
      BY <1>3, <2>2
    <3> QED BY <3>2, <3>3
  <2> QED BY <2>1, <2>2
<1>5. ASSUME NEW s \in SUBSET V, s # V PROVE Total(s) = F(s)[s]
  <2>1. CASE s = {}
    <3>1. F(s) \in Sums(size, s)
      BY <1>2, <1>5
    <3>2. F(s)[s] = 0
      <4> HIDE DEF F
      <4> QED BY <3>1, <2>1 DEF Sums, IsSum
    <3> QED BY <3>2, <2>1
  <2>2. CASE s # {}
    <3> DEFINE r == s \ {Least(s)}
    <3>1. F(r) \in Sums(size, r) /\ F(s) \in Sums(size, s) /\ r \in (SUBSET r) \cap (SUBSET s)
      BY <1>2, <1>3, <1>5, <2>2
    <3>2. IsFiniteSet(r)
      BY FS_Subset
    <3>3. F(r)[r] = F(s)[r]
      <4> HIDE DEF F, r
      <4> QED BY <3>1, <3>2, SumsAgree DEF Sums
    <3>4. F(s)[s] = size[Least(s)] + F(s)[r]
      <4> HIDE DEF F
      <4> QED BY <3>1, <2>2 DEF Sums, IsSum
    <3> QED BY <3>3, <3>4, <2>2
  <2> QED BY <2>1, <2>2
<1>6. IsSum(h, size, V)
  <2> SUFFICES ASSUME NEW s \in SUBSET V, s # {}
               PROVE  h[s] = size[Least(s)] + h[s \ {Least(s)}]
    <3>1. h = [s \in SUBSET V |-> h[s]] /\ h[{}] = 0
      OBVIOUS
    <3> HIDE DEF h
    <3> QED BY <3>1 DEF IsSum
  <2>1. h[s \ {Least(s)}] = F(s \ {Least(s)})[s \ {Least(s)}]
    BY <1>3, <1>5
  <2> QED BY <2>1
<1>7. h \in Sums(size, V)
  BY <1>4, <1>6 DEF Sums
<1> QED BY <1>7, <1>1

\* One element more adds its size.
Additive(f, size, T) == \A s \in SUBSET T : \A p \in T \ s : f[s \cup {p}] = f[s] + size[p]

\* A sum does so, whichever element CHOOSE takes first.
LEMMA SumAdds ==
  ASSUME NEW size, NEW T, IsFiniteSet(T), size \in [T -> Nat], NEW f \in [SUBSET T -> Nat], IsSum(f, size, T)
  PROVE  Additive(f, size, T)
<1> SUFFICES ASSUME NEW s \in SUBSET T, NEW p \in T \ s
             PROVE  f[s \cup {p}] = f[s] + size[p]
  BY DEF Additive
<1> DEFINE Bad == {V \in SUBSET T : \E q \in T \ V : f[V \cup {q}] # f[V] + size[q]}
<1> SUFFICES ASSUME Bad # {} PROVE FALSE
  OBVIOUS
<1>1. PICK V \in Bad : \A W \in Bad : ~ (<<W, V>> \in StrictSubsetOrdering(T))
  <2>1. IsWellFoundedOn(StrictSubsetOrdering(T), FiniteSubsetsOf(T))
    BY FS_StrictSubsetOrderingWellFounded
  <2>2. Bad \subseteq FiniteSubsetsOf(T)
    BY FS_FiniteSubsetsOfFinite
  <2> HIDE DEF Bad
  <2> QED BY <2>1, <2>2, WFMin
<1>2. PICK q \in T \ V : f[V \cup {q}] # f[V] + size[q]
  OBVIOUS
<1> DEFINE x == CHOOSE x \in V \cup {q} : TRUE
<1>3. x \in V \cup {q} /\ V \cup {q} \in SUBSET T
  OBVIOUS
<1>4. f[V \cup {q}] = size[x] + f[(V \cup {q}) \ {x}]
  BY <1>3 DEF IsSum
<1>5. /\ size[x] \in Nat /\ size[q] \in Nat /\ f[V] \in Nat
      /\ f[V \ {x}] \in Nat /\ f[(V \ {x}) \cup {q}] \in Nat
  BY <1>3
<1> HIDE DEF x
<1>6. CASE x = q
  <2>1. (V \cup {q}) \ {x} = V
    BY <1>6
  <2>2. f[V \cup {q}] = size[q] + f[V]
    BY <1>4, <1>6, <2>1
  <2> HIDE DEF Bad
  <2> QED BY <1>2, <1>5, <2>2
<1>7. CASE x # q
  <2>1. x \in V /\ V \ {x} \in SUBSET T /\ x \in T \ (V \ {x}) /\ q \in T \ (V \ {x})
    BY <1>3, <1>7
  <2>2. V \ {x} \notin Bad
    <3>1. <<V \ {x}, V>> \in StrictSubsetOrdering(T)
      BY <2>1 DEF StrictSubsetOrdering
    <3> HIDE DEF Bad
    <3> QED BY <3>1, <1>1
  <2>3. f[(V \ {x}) \cup {x}] = f[V \ {x}] + size[x] /\ f[(V \ {x}) \cup {q}] = f[V \ {x}] + size[q]
    BY <2>1, <2>2
  <2>4. (V \ {x}) \cup {x} = V /\ (V \ {x}) \cup {q} = (V \cup {q}) \ {x}
    BY <2>1, <1>7
  <2>5. f[V] = f[V \ {x}] + size[x] /\ f[V \cup {q}] = size[x] + f[(V \ {x}) \cup {q}]
    BY <1>4, <2>3, <2>4
  <2> HIDE DEF Bad
  <2> QED BY <1>2, <1>5, <2>3, <2>5
<1> QED BY <1>6, <1>7

------------------------------------------------------------------------------
(* The size of a library. *)

\* Finitely many items, each with a size.
Sized(items) == IsFiniteSet(DOMAIN items) /\ \A p \in DOMAIN items : items[p].size \in Nat

\* SizeOf is that function on all items.
LEMMA SizeIsSum ==
  ASSUME NEW items, Sized(items), NEW f \in [SUBSET (DOMAIN items) -> Nat],
         IsSum(f, [p \in DOMAIN items |-> items[p].size], DOMAIN items)
  PROVE  SizeOf(items) = f[DOMAIN items]
<1> DEFINE T == DOMAIN items
           size == [p \in T |-> items[p].size]
           g == CHOOSE g : g = [s \in SUBSET T |-> IF s = {} THEN 0
                          ELSE LET x == CHOOSE x \in s : TRUE IN items[x].size + g[s \ {x}]]
<1>1. SizeOf(items) = g[T]
  BY DEF SizeOf, MapThenSumSet, MapThenFoldSet
<1>2. f = [s \in SUBSET T |-> IF s = {} THEN 0
                          ELSE LET x == CHOOSE x \in s : TRUE IN items[x].size + f[s \ {x}]]
  BY DEF IsSum
<1>3. g = [s \in SUBSET T |-> IF s = {} THEN 0
                          ELSE LET x == CHOOSE x \in s : TRUE IN items[x].size + g[s \ {x}]]
  BY <1>2
<1> HIDE DEF g
<1>4. IsSum(g, size, T)
  BY <1>3 DEF IsSum
<1>5. g[T] = f[T]
  BY <1>4, SumsAgree DEF Sized
<1> QED BY <1>1, <1>5

\* db.size depends on the sizes of the items only.
LEMMA SizeOfKept ==
  ASSUME NEW items, NEW others, Sized(items), DOMAIN others = DOMAIN items,
         \A p \in DOMAIN items : others[p].size = items[p].size
  PROVE  SizeOf(others) = SizeOf(items) /\ SizeOf(items) \in Nat
<1> DEFINE T == DOMAIN items
           size == [p \in T |-> items[p].size]
<1>1. [p \in T |-> others[p].size] = size /\ size \in [T -> Nat] /\ Sized(others)
  BY DEF Sized
<1>2. PICK f \in [SUBSET T -> Nat] : IsSum(f, size, T)
  BY <1>1, SumExists DEF Sized
<1>3. SizeOf(items) = f[T]
  BY <1>2, SizeIsSum
<1>4. SizeOf(others) = f[T]
  BY <1>1, <1>2, SizeIsSum
<1> QED BY <1>3, <1>4

\* An item more adds its size: what the addition writes to db.size is a sum.
LEMMA SizeOfAdded ==
  ASSUME NEW items, NEW others, NEW p, Sized(others), p \notin DOMAIN items,
         DOMAIN others = DOMAIN items \cup {p}, \A q \in DOMAIN items : others[q] = items[q]
  PROVE  SizeOf(others) = SizeOf(items) + others[p].size
<1> DEFINE T == DOMAIN others
           S == DOMAIN items
           size == [q \in T |-> others[q].size]
           part == [q \in S |-> items[q].size]
<1>1. size \in [T -> Nat] /\ part \in [S -> Nat] /\ Sized(items) /\ IsFiniteSet(T) /\ S \in SUBSET T
  BY FS_Subset DEF Sized
<1>2. PICK f \in [SUBSET T -> Nat] : IsSum(f, size, T)
  BY <1>1, SumExists DEF Sized
<1>3. PICK g \in [SUBSET S -> Nat] : IsSum(g, part, S)
  BY <1>1, SumExists DEF Sized
<1>4. SizeOf(others) = f[T] /\ SizeOf(items) = g[S]
  BY <1>1, <1>2, <1>3, SizeIsSum
<1>5. p \in T \ S /\ T = S \cup {p} /\ size[p] = others[p].size /\ \A x \in T \cap S : size[x] = part[x]
  OBVIOUS
<1> HIDE DEF T, S, size, part
<1>6. f[T] = f[S] + size[p]
  <2>1. p \in T \ S
    BY <1>5
  <2>2. Additive(f, size, T)
    BY <1>1, <1>2, SumAdds
  <2>3. f[S \cup {p}] = f[S] + size[p]
    BY <1>1, <2>1, <2>2 DEF Additive
  <2> QED BY <1>5, <2>3
<1>7. S \in (SUBSET T) \cap (SUBSET S)
  BY <1>1
<1>8. f[S] = g[S]
  BY <1>1, <1>2, <1>3, <1>5, <1>7, SumsAgree
<1> QED BY <1>4, <1>5, <1>6, <1>8

------------------------------------------------------------------------------
(* Databases that differ in orders only *)

\* What two databases have in common that differ in orders only.
SameRows(db, d) ==
  /\ DOMAIN d.item = DOMAIN db.item /\ DOMAIN d.album = DOMAIN db.album
  /\ DOMAIN d.artist = DOMAIN db.artist
  /\ \A p \in DOMAIN db.item :
       /\ d.item[p].album = db.item[p].album /\ d.item[p].artist = db.item[p].artist
       /\ d.item[p].genre = db.item[p].genre /\ d.item[p].art = db.item[p].art
       /\ d.item[p].size = db.item[p].size /\ d.item[p].key = db.item[p].key
  /\ \A a \in DOMAIN db.album :
       /\ d.album[a].name = db.album[a].name /\ d.album[a].artist = db.album[a].artist
       /\ d.album[a].count = db.album[a].count /\ d.album[a].art = db.album[a].art
       /\ d.album[a].sort = db.album[a].sort
  /\ \A r \in DOMAIN db.artist :
       /\ d.artist[r].name = db.artist[r].name /\ d.artist[r].sort = db.artist[r].sort
       /\ d.artist[r].albums = db.artist[r].albums /\ d.artist[r].art = db.artist[r].art
  /\ d.genre = db.genre /\ d.container = db.container /\ d.members = db.members
  /\ d.ui = db.ui /\ d.rows = db.rows /\ d.size = db.size

\* ItemsOf selects among the items.
LEMMA ItemsAreItems ==
  ASSUME NEW items, NEW f, NEW k
  PROVE  ItemsOf(items, f, k) \subseteq DOMAIN items
BY DEF ItemsOf

\* Databases that differ in orders only count the same items.
LEMMA ItemSets ==
  ASSUME NEW db, NEW d, SameRows(db, d)
  PROVE  \A k : /\ ItemsOf(d.item, "album", k) = ItemsOf(db.item, "album", k)
               /\ ItemsOf(d.item, "artist", k) = ItemsOf(db.item, "artist", k)
               /\ ItemsOf(d.item, "genre", k) = ItemsOf(db.item, "genre", k)
BY DEF ItemsOf, SameRows

\* Orders do not matter for where rows point.
LEMMA SameReferences ==
  ASSUME NEW db, NEW d, SameRows(db, d), References(db)
  PROVE  References(d)
<1>1. \A a : ItemsOf(d.item, "album", a) = ItemsOf(db.item, "album", a)
  BY ItemSets
<1>2. \A a : ItemsOf(db.item, "album", a) \subseteq DOMAIN db.item
  BY DEF ItemsOf
<1>3. \A p \in DOMAIN d.item :
        /\ d.item[p].album \in DOMAIN d.album
        /\ d.item[p].artist \in DOMAIN d.artist \cup {0}
        /\ d.item[p].genre \in DOMAIN d.genre \cup {0}
  BY DEF SameRows, References
<1>4. ASSUME NEW a \in DOMAIN d.album
      PROVE  /\ d.album[a].artist \in DOMAIN d.artist \cup {0}
             /\ d.album[a].art # 0 => d.album[a].art \in {p \in ItemsOf(d.item, "album", a) : d.item[p].art}
  <2>1. a \in DOMAIN db.album /\ d.album[a].artist = db.album[a].artist /\ d.album[a].art = db.album[a].art
    BY DEF SameRows
  <2>2. {p \in ItemsOf(d.item, "album", a) : d.item[p].art} = {p \in ItemsOf(db.item, "album", a) : db.item[p].art}
    BY <1>1, <1>2 DEF SameRows
  <2>3. DOMAIN d.artist = DOMAIN db.artist
    BY DEF SameRows
  <2> QED BY <2>1, <2>2, <2>3 DEF References
<1>5. \A r \in DOMAIN d.artist :
        LET a == d.artist[r].art
        IN  a # 0 => a \in DOMAIN d.album /\ d.album[a].artist = r /\ d.album[a].art # 0
  BY DEF SameRows, References
<1>6. /\ \A m \in d.members : m.container \in DOMAIN d.container /\ m.item \in DOMAIN d.item
      /\ d.ui = DOMAIN d.container /\ \A row \in d.rows : row[2] \in DOMAIN d.item
  BY DEF SameRows, References
<1> QED BY <1>3, <1>4, <1>5, <1>6 DEF References

\* Nor for who an album is by.
LEMMA SameCoherence ==
  ASSUME NEW db, NEW d, SameRows(db, d), References(db), Coherent(db)
  PROVE  Coherent(d)
BY DEF SameRows, References, Coherent

\* Nor for which rows have tracks.
LEMMA SameEarned ==
  ASSUME NEW db, NEW d, SameRows(db, d), Earned(db)
  PROVE  Earned(d)
<1>1. \A k : /\ ItemsOf(d.item, "album", k) = ItemsOf(db.item, "album", k)
             /\ ItemsOf(d.item, "artist", k) = ItemsOf(db.item, "artist", k)
             /\ ItemsOf(d.item, "genre", k) = ItemsOf(db.item, "genre", k)
  BY ItemSets
<1> QED BY <1>1 DEF SameRows, Earned

\* Nor for what is counted.
LEMMA SameCounts ==
  ASSUME NEW db, NEW d, SameRows(db, d), Typed(db), Counts(db)
  PROVE  Counts(d)
<1>1. \A k : /\ ItemsOf(d.item, "album", k) = ItemsOf(db.item, "album", k)
             /\ ItemsOf(d.item, "artist", k) = ItemsOf(db.item, "artist", k)
             /\ ItemsOf(d.item, "genre", k) = ItemsOf(db.item, "genre", k)
             /\ ItemsOf(db.item, "artist", k) \subseteq DOMAIN db.item
             /\ ItemsOf(db.item, "genre", k) \subseteq DOMAIN db.item
  BY ItemSets, ItemsAreItems
<1>2. \A a \in DOMAIN d.album : d.album[a].count = Cardinality(ItemsOf(d.item, "album", a))
  BY <1>1 DEF SameRows, Counts
<1>3. ASSUME NEW r \in DOMAIN d.artist
      PROVE  d.artist[r].albums = Cardinality({d.item[p].album : p \in ItemsOf(d.item, "artist", r)})
  <2>1. \A p \in DOMAIN db.item : d.item[p].album = db.item[p].album
    BY DEF SameRows
  <2>2. {d.item[p].album : p \in ItemsOf(d.item, "artist", r)} = {db.item[p].album : p \in ItemsOf(db.item, "artist", r)}
    BY <1>1, <2>1
  <2>3. r \in DOMAIN db.artist /\ d.artist[r].albums = db.artist[r].albums
    BY DEF SameRows
  <2> QED BY <2>2, <2>3 DEF Counts
<1>4. ASSUME NEW g \in DOMAIN d.genre PROVE d.genre[g] = GenreCounts(d.genre[g], d.item, g)
  <2>1. {d.item[p].album : p \in ItemsOf(d.item, "genre", g)} = {db.item[p].album : p \in ItemsOf(db.item, "genre", g)}
    BY <1>1 DEF SameRows
  <2>2. {d.item[p].artist : p \in ItemsOf(d.item, "genre", g)} = {db.item[p].artist : p \in ItemsOf(db.item, "genre", g)}
    BY <1>1 DEF SameRows
  <2>3. GenreCounts(d.genre[g], d.item, g) = GenreCounts(db.genre[g], db.item, g)
    BY <2>1, <2>2 DEF GenreCounts, SameRows
  <2> QED BY <2>3 DEF SameRows, Counts
<1>5. d.size = SizeOf(d.item)
  <2>1. Sized(db.item)
    BY DEF Sized, Typed, IsTable, ItemRows
  <2>2. SizeOf(d.item) = SizeOf(db.item)
    BY <2>1, SizeOfKept DEF SameRows
  <2> QED BY <2>2 DEF SameRows, Counts
<1> QED BY <1>2, <1>3, <1>4, <1>5 DEF Counts

------------------------------------------------------------------------------
(* Browse orders. *)

\* What the browse orders rank is a finite set of numbers.
LEMMA KeysAreNats ==
  ASSUME NEW db, Typed(db)
  PROVE  /\ ArtistKeys(db) \subseteq Nat /\ IsFiniteSet(ArtistKeys(db))
         /\ {db.item[p].key : p \in DOMAIN db.item} \subseteq Nat
         /\ IsFiniteSet({db.item[p].key : p \in DOMAIN db.item})
<1>1. \A r \in DOMAIN db.artist : db.artist[r].sort \in Nat
  BY DEF Typed, IsTable, ArtistRows
<1>2. \A p \in DOMAIN db.item : db.item[p].key \in Nat
  BY DEF Typed, IsTable, ItemRows
<1>3. IsFiniteSet(DOMAIN db.artist) /\ IsFiniteSet(DOMAIN db.item)
  BY DEF Typed, IsTable
<1>4. IsFiniteSet({db.artist[r].sort : r \in DOMAIN db.artist})
  <2> DEFINE f == [r \in DOMAIN db.artist |-> db.artist[r].sort]
  <2>1. IsFiniteSet({f[r] : r \in DOMAIN f})
    BY <1>3, ImageIsFinite
  <2> QED BY <2>1
<1>5. IsFiniteSet({db.item[p].key : p \in DOMAIN db.item})
  <2> DEFINE f == [r \in DOMAIN db.item |-> db.item[r].key]
  <2>1. IsFiniteSet({f[r] : r \in DOMAIN f})
    BY <1>3, ImageIsFinite
  <2> QED BY <2>1
<1> QED BY <1>1, <1>2, <1>4, <1>5 DEF ArtistKeys

\* ReindexedArtists writes the rank of every artist and nothing else.
LEMMA ArtistsReindexed ==
  ASSUME NEW db, Typed(db)
  PROVE  /\ Typed(ReindexedArtists(db)) /\ SameRows(db, ReindexedArtists(db))
         /\ ReindexedArtists(db).item = db.item /\ ReindexedArtists(db).album = db.album
         /\ \A r \in DOMAIN db.artist :
              ReindexedArtists(db).artist[r].order = Rank(db.artist[r].sort, ArtistKeys(db))
<1> DEFINE d == ReindexedArtists(db)
<1>1. DOMAIN d = Tables /\ d.item = db.item /\ d.album = db.album /\ d.genre = db.genre
      /\ d.container = db.container /\ d.members = db.members /\ d.ui = db.ui
      /\ d.rows = db.rows /\ d.size = db.size
      /\ d.artist = [r \in DOMAIN db.artist |-> [db.artist[r] EXCEPT !.order = Rank(db.artist[r].sort, ArtistKeys(db))]]
  BY DEF ReindexedArtists, Typed, Tables
<1>2. ASSUME NEW r \in DOMAIN db.artist
      PROVE  /\ d.artist[r] \in ArtistRows
             /\ d.artist[r].order = Rank(db.artist[r].sort, ArtistKeys(db))
             /\ d.artist[r].name = db.artist[r].name /\ d.artist[r].sort = db.artist[r].sort
             /\ d.artist[r].albums = db.artist[r].albums /\ d.artist[r].art = db.artist[r].art
  <2>1. db.artist[r] \in ArtistRows
    BY DEF Typed, IsTable
  <2>2. Rank(db.artist[r].sort, ArtistKeys(db)) \in Nat
    BY KeysAreNats, RankOrders DEF ArtistKeys
  <2> QED BY <1>1, <2>1, <2>2 DEF ArtistRows
<1>3. IsTable(d.artist, ArtistRows)
  BY <1>1, <1>2 DEF IsTable, Typed
<1>4. Typed(d)
  BY <1>1, <1>3 DEF Typed
<1>5. SameRows(db, d)
  BY <1>1, <1>2 DEF SameRows
<1> QED BY <1>1, <1>2, <1>4, <1>5

\* ReindexedItems writes the artist rank of every item and nothing else.
LEMMA ItemsReindexed ==
  ASSUME NEW db, Typed(db)
  PROVE  /\ Typed(ReindexedItems(db)) /\ SameRows(db, ReindexedItems(db))
         /\ ReindexedItems(db).artist = db.artist /\ ReindexedItems(db).album = db.album
         /\ \A p \in DOMAIN db.item :
              ReindexedItems(db).item[p].artistOrder = Rank(db.item[p].key, {db.item[q].key : q \in DOMAIN db.item})
<1> DEFINE d == ReindexedItems(db)
           keys == {db.item[p].key : p \in DOMAIN db.item}
<1>1. DOMAIN d = Tables /\ d.artist = db.artist /\ d.album = db.album /\ d.genre = db.genre
      /\ d.container = db.container /\ d.members = db.members /\ d.ui = db.ui
      /\ d.rows = db.rows /\ d.size = db.size
      /\ d.item = [p \in DOMAIN db.item |-> [db.item[p] EXCEPT !.artistOrder = Rank(db.item[p].key, keys)]]
  BY DEF ReindexedItems, Typed, Tables
<1>2. ASSUME NEW p \in DOMAIN db.item
      PROVE  /\ d.item[p] \in ItemRows
             /\ d.item[p].artistOrder = Rank(db.item[p].key, keys)
             /\ d.item[p].album = db.item[p].album /\ d.item[p].artist = db.item[p].artist
             /\ d.item[p].genre = db.item[p].genre /\ d.item[p].art = db.item[p].art
             /\ d.item[p].size = db.item[p].size /\ d.item[p].key = db.item[p].key
  <2>1. db.item[p] \in ItemRows
    BY DEF Typed, IsTable
  <2>2. Rank(db.item[p].key, keys) \in Nat
    BY KeysAreNats, RankOrders
  <2> HIDE DEF keys
  <2> QED BY <1>1, <2>1, <2>2 DEF ItemRows
<1>3. IsTable(d.item, ItemRows)
  BY <1>1, <1>2 DEF IsTable, Typed
<1>4. Typed(d)
  BY <1>1, <1>3 DEF Typed
<1>5. SameRows(db, d)
  BY <1>1, <1>2 DEF SameRows
<1> QED BY <1>1, <1>2, <1>4, <1>5

\* ReindexedAlbums writes both orders of every album and nothing else.
LEMMA AlbumsReindexed ==
  ASSUME NEW db, Typed(db)
  PROVE  /\ Typed(ReindexedAlbums(db)) /\ SameRows(db, ReindexedAlbums(db))
         /\ ReindexedAlbums(db).artist = db.artist /\ ReindexedAlbums(db).item = db.item
         /\ \A a \in DOMAIN db.album :
              /\ ReindexedAlbums(db).album[a].order = AlbumPosition(db, a)
              /\ ReindexedAlbums(db).album[a].artistOrder = AlbumArtistOrder(db, a)
<1> DEFINE d == ReindexedAlbums(db)
<1>1. DOMAIN d = Tables /\ d.artist = db.artist /\ d.item = db.item /\ d.genre = db.genre
      /\ d.container = db.container /\ d.members = db.members /\ d.ui = db.ui
      /\ d.rows = db.rows /\ d.size = db.size
      /\ d.album = [a \in DOMAIN db.album |-> [db.album[a] EXCEPT !.order = AlbumPosition(db, a),
                                                                 !.artistOrder = AlbumArtistOrder(db, a)]]
  BY DEF ReindexedAlbums, Typed, Tables
<1>2. ASSUME NEW a \in DOMAIN db.album
      PROVE  /\ d.album[a] \in AlbumRows
             /\ d.album[a].order = AlbumPosition(db, a)
             /\ d.album[a].artistOrder = AlbumArtistOrder(db, a)
             /\ d.album[a].name = db.album[a].name /\ d.album[a].artist = db.album[a].artist
             /\ d.album[a].count = db.album[a].count /\ d.album[a].art = db.album[a].art
             /\ d.album[a].sort = db.album[a].sort
  <2>1. db.album[a] \in AlbumRows
    BY DEF Typed, IsTable
  <2>2. AlbumPosition(db, a) \in Nat
    <3> DEFINE T == {b \in DOMAIN db.album :
                      \/ db.album[b].sort < db.album[a].sort
                      \/ db.album[b].sort = db.album[a].sort /\ b < a}
    <3>1. Cardinality(T) \in Nat
      BY CountIsNat DEF Typed, IsTable
    <3>2. AlbumPosition(db, a) = 100 * (1 + Cardinality(T))
      BY DEF AlbumPosition
    <3> HIDE DEF T
    <3> QED BY <3>1, <3>2
  <2>3. AlbumArtistOrder(db, a) \in Nat
    <3>1. \A k \in ArtistKeys(db) : Rank(k, ArtistKeys(db)) \in Nat
      BY KeysAreNats, RankOrders
    <3>2. db.album[a].artistOrder \in Nat
      BY <2>1 DEF AlbumRows
    <3> QED BY <3>1, <3>2 DEF AlbumArtistOrder
  <2>4. d.album[a] = [db.album[a] EXCEPT !.order = AlbumPosition(db, a), !.artistOrder = AlbumArtistOrder(db, a)]
    BY <1>1
  <2> HIDE DEF d
  <2> QED BY <2>1, <2>2, <2>3, <2>4 DEF AlbumRows
<1>3. IsTable(d.album, AlbumRows)
  BY <1>1, <1>2 DEF IsTable, Typed
<1>4. Typed(d)
  BY <1>1, <1>3 DEF Typed
<1>5. SameRows(db, d)
  BY <1>1, <1>2 DEF SameRows
<1> QED BY <1>1, <1>2, <1>4, <1>5

\* Two albums keep the order of their keys, then of their ids.
LEMMA PositionOrders ==
  ASSUME NEW db, Typed(db), NEW a \in DOMAIN db.album, NEW b \in DOMAIN db.album
  PROVE  /\ db.album[a].sort < db.album[b].sort => AlbumPosition(db, a) < AlbumPosition(db, b)
         /\ AlbumPosition(db, a) = AlbumPosition(db, b) => a = b
<1> DEFINE Key(x) == db.album[x].sort
           Earlier(x, y) == Key(x) < Key(y) \/ (Key(x) = Key(y) /\ x < y)
           Below(y) == {x \in DOMAIN db.album : Earlier(x, y)}
<1>1. \A x \in DOMAIN db.album : Key(x) \in Nat /\ x \in Nat
  BY DEF Typed, IsTable, AlbumRows
<1>2. \A x : IsFiniteSet(Below(x)) /\ Cardinality(Below(x)) \in Nat
  BY CountIsNat DEF Typed, IsTable
<1>3. \A x \in DOMAIN db.album : AlbumPosition(db, x) = 100 * (1 + Cardinality(Below(x)))
  BY DEF AlbumPosition
<1> HIDE DEF Key
<1>4. ASSUME NEW x \in DOMAIN db.album, NEW y \in DOMAIN db.album, Earlier(x, y)
      PROVE  Cardinality(Below(x)) < Cardinality(Below(y))
  <2>1. ASSUME NEW w \in DOMAIN db.album, Earlier(w, x) PROVE Earlier(w, y)
    <3> /\ Key(w) \in Nat /\ Key(x) \in Nat /\ Key(y) \in Nat
        /\ w \in Nat /\ x \in Nat /\ y \in Nat
      BY <1>1
    <3> QED BY <1>4, <2>1
  <2>2. Below(x) \in SUBSET Below(y)
    BY <2>1
  <2>3. x \in Below(y) /\ x \notin Below(x)
    BY <1>1, <1>4
  <2>4. Cardinality(Below(x)) <= Cardinality(Below(y)) /\ Cardinality(Below(x)) # Cardinality(Below(y))
    <3> HIDE DEF Below
    <3> QED BY <1>2, <2>2, <2>3, FS_Subset
  <2> HIDE DEF Below
  <2> QED BY <2>4, <1>2
<1>5. Earlier(a, b) \/ a = b \/ Earlier(b, a)
  BY <1>1
<1>6. Key(a) < Key(b) => Earlier(a, b)
  OBVIOUS
<1> HIDE DEF Earlier, Below
<1>7. Earlier(a, b) => AlbumPosition(db, a) < AlbumPosition(db, b)
  BY <1>2, <1>3, <1>4
<1>8. Earlier(b, a) => AlbumPosition(db, b) < AlbumPosition(db, a)
  BY <1>2, <1>3, <1>4
<1>9. AlbumPosition(db, a) \in Nat /\ AlbumPosition(db, b) \in Nat
  BY <1>2, <1>3
<1> QED BY <1>5, <1>6, <1>7, <1>8, <1>9 DEF Key

\* Differing in orders only is transitive.
LEMMA SameTwice ==
  ASSUME NEW db, NEW d, NEW e, SameRows(db, d), SameRows(d, e)
  PROVE  SameRows(db, e)
BY DEF SameRows

\* reindex_browse_orders sorts every list and changes nothing else.
LEMMA ReindexedIsSorted ==
  ASSUME NEW db, Typed(db)
  PROVE  /\ Typed(Reindexed(db)) /\ SameRows(db, Reindexed(db))
         /\ Sorted(Reindexed(db)) /\ PlainRanksAgree(Reindexed(db))
<1> DEFINE d == ReindexedArtists(db)
           e == ReindexedItems(d)
           f == ReindexedAlbums(e)
<1>1. Typed(d) /\ SameRows(db, d) /\ d.item = db.item /\ d.album = db.album
      /\ \A r \in DOMAIN db.artist : d.artist[r].order = Rank(db.artist[r].sort, ArtistKeys(db))
  BY ArtistsReindexed
<1> HIDE DEF d
<1>2. Typed(e) /\ SameRows(d, e) /\ e.artist = d.artist /\ e.album = d.album
      /\ \A p \in DOMAIN d.item : e.item[p].artistOrder = Rank(d.item[p].key, {d.item[q].key : q \in DOMAIN d.item})
  BY <1>1, ItemsReindexed
<1> HIDE DEF e
<1>3. Typed(f) /\ SameRows(e, f) /\ f.artist = e.artist /\ f.item = e.item
      /\ \A a \in DOMAIN e.album :
              /\ f.album[a].order = AlbumPosition(e, a) /\ f.album[a].artistOrder = AlbumArtistOrder(e, a)
  BY <1>2, AlbumsReindexed
<1>4. Reindexed(db) = f
  BY DEF Reindexed, d, e
<1> HIDE DEF f
<1>5. SameRows(db, f)
  BY <1>1, <1>2, <1>3, SameTwice
<1>6. ArtistKeys(e) = ArtistKeys(db) /\ \A r \in DOMAIN db.artist : db.artist[r].sort \in ArtistKeys(db)
  BY <1>1, <1>2 DEF ArtistKeys, SameRows
<1>7. ASSUME NEW r \in DOMAIN f.artist, NEW s \in DOMAIN f.artist
      PROVE  f.artist[r].sort < f.artist[s].sort <=> f.artist[r].order < f.artist[s].order
  <2>1. r \in DOMAIN db.artist /\ s \in DOMAIN db.artist
        /\ f.artist[r].sort = db.artist[r].sort /\ f.artist[s].sort = db.artist[s].sort
    BY <1>5 DEF SameRows
  <2>2. f.artist[r].order = Rank(db.artist[r].sort, ArtistKeys(db))
        /\ f.artist[s].order = Rank(db.artist[s].sort, ArtistKeys(db))
    BY <1>1, <1>2, <1>3, <2>1
  <2>3. db.artist[r].sort \in ArtistKeys(db) /\ db.artist[s].sort \in ArtistKeys(db)
    BY <1>6, <2>1
  <2>4. db.artist[r].sort < db.artist[s].sort
          <=> Rank(db.artist[r].sort, ArtistKeys(db)) < Rank(db.artist[s].sort, ArtistKeys(db))
    BY <2>3, KeysAreNats, RankOrders
  <2> QED BY <2>1, <2>2, <2>4
<1>8. ASSUME NEW p \in DOMAIN f.item, NEW q \in DOMAIN f.item
      PROVE  f.item[p].key < f.item[q].key <=> f.item[p].artistOrder < f.item[q].artistOrder
  <2> DEFINE keys == {d.item[x].key : x \in DOMAIN d.item}
  <2>1. p \in DOMAIN d.item /\ q \in DOMAIN d.item
        /\ f.item[p].key = d.item[p].key /\ f.item[q].key = d.item[q].key
    BY <1>2, <1>3 DEF SameRows
  <2>2. f.item[p].artistOrder = Rank(d.item[p].key, keys) /\ f.item[q].artistOrder = Rank(d.item[q].key, keys)
    BY <1>2, <1>3, <2>1
  <2>3. keys \in SUBSET Nat /\ IsFiniteSet(keys)
    BY <1>1, KeysAreNats
  <2>4. d.item[p].key \in keys /\ d.item[q].key \in keys
    BY <2>1
  <2> HIDE DEF keys
  <2>5. d.item[p].key < d.item[q].key <=> Rank(d.item[p].key, keys) < Rank(d.item[q].key, keys)
    BY <2>3, <2>4, RankOrders
  <2> QED BY <2>1, <2>2, <2>5
<1>9. ASSUME NEW a \in DOMAIN f.album, NEW b \in DOMAIN f.album
      PROVE  /\ f.album[a].sort < f.album[b].sort => f.album[a].order < f.album[b].order
             /\ f.album[a].order = f.album[b].order => a = b
  <2>1. a \in DOMAIN e.album /\ b \in DOMAIN e.album
        /\ f.album[a].sort = e.album[a].sort /\ f.album[b].sort = e.album[b].sort
    BY <1>3 DEF SameRows
  <2>2. f.album[a].order = AlbumPosition(e, a) /\ f.album[b].order = AlbumPosition(e, b)
    BY <1>3, <2>1
  <2> QED BY <1>2, <2>1, <2>2, PositionOrders
<1>10. PlainRanksAgree(f)
  <2> SUFFICES ASSUME NEW a \in DOMAIN f.album, NEW r \in DOMAIN f.artist, f.album[a].artist = r,
                      f.artist[r].sort = SortKey[f.artist[r].name]
               PROVE  f.album[a].artistOrder = f.artist[r].order
    BY DEF PlainRanksAgree, RanksOf, Plain
  <2>1. a \in DOMAIN e.album /\ r \in DOMAIN e.artist /\ e.album[a].artist = r
        /\ e.artist[r].sort = SortKey[e.artist[r].name] /\ f.album[a].artistOrder = AlbumArtistOrder(e, a)
    BY <1>3 DEF SameRows
  <2>2. e.artist[r].sort \in ArtistKeys(e)
    BY <2>1 DEF ArtistKeys
  <2>3. f.album[a].artistOrder = Rank(e.artist[r].sort, ArtistKeys(e))
    BY <2>1, <2>2 DEF AlbumArtistOrder
  <2>4. r \in DOMAIN db.artist /\ e.artist[r].sort = db.artist[r].sort
    BY <1>1, <1>2, <2>1 DEF SameRows
  <2> QED BY <1>1, <1>2, <1>3, <1>6, <2>3, <2>4
<1> QED BY <1>3, <1>4, <1>5, <1>7, <1>8, <1>9, <1>10 DEF Sorted

\* A sound library stays sound when it is sorted.
LEMMA ReindexedIsSound ==
  ASSUME NEW db, Typed(db), References(db), Counts(db), Earned(db), Coherent(db)
  PROVE  /\ Typed(Reindexed(db)) /\ References(Reindexed(db)) /\ Counts(Reindexed(db))
         /\ Earned(Reindexed(db)) /\ Coherent(Reindexed(db))
         /\ Sorted(Reindexed(db)) /\ PlainRanksAgree(Reindexed(db))
BY ReindexedIsSorted, SameReferences, SameCounts, SameEarned, SameCoherence

------------------------------------------------------------------------------
(* Removal *)

\* ORDER BY order, pid LIMIT 1 finds a row when there is one.
LEMMA FirstIsFound ==
  ASSUME NEW table, NEW keys \in SUBSET (DOMAIN table), DOMAIN table \subseteq Nat,
         \A k \in DOMAIN table : table[k].order \in Nat
  PROVE  /\ keys = {} => FirstOr0(table, keys) = 0
         /\ keys # {} => FirstOr0(table, keys) \in keys
         /\ FirstOr0(table, keys) \in Nat
<1> SUFFICES ASSUME keys # {} PROVE FirstOr0(table, keys) \in keys
  BY DEF FirstOr0
<1> DEFINE orders == {table[k].order : k \in keys}
<1>1. orders \in SUBSET Nat /\ orders # {}
  OBVIOUS
<1>2. PICK o \in orders : \A x \in orders : o <= x
  BY <1>1, NatHasMin
<1> DEFINE least == {k \in keys : table[k].order = o}
<1>3. least \in SUBSET Nat /\ least # {}
  OBVIOUS
<1>4. PICK k \in least : \A l \in least : k <= l
  BY <1>3, NatHasMin
<1>5. \A l \in keys : table[k].order < table[l].order \/ (table[k].order = table[l].order /\ k <= l)
  <2> SUFFICES ASSUME NEW l \in keys, table[l].order # o PROVE o < table[l].order
    BY <1>4
  <2>1. o <= table[l].order /\ o \in Nat /\ table[l].order \in Nat
    BY <1>1, <1>2
  <2> QED BY <2>1
<1> QED BY <1>4, <1>5 DEF FirstOr0

\* The rows without those of the removed tracks.
Left(db, gone) == [p \in DOMAIN db.item \ gone |-> db.item[p]]

\* They are a table again, with the same rows.
LEMMA LeftItems ==
  ASSUME NEW db, Typed(db), NEW gone \in SUBSET (DOMAIN db.item)
  PROVE  /\ IsTable(Left(db, gone), ItemRows)
         /\ DOMAIN Left(db, gone) = DOMAIN db.item \ gone
         /\ \A p \in DOMAIN Left(db, gone) : Left(db, gone)[p] = db.item[p]
<1>1. DOMAIN Left(db, gone) \subseteq DOMAIN db.item
  BY DEF Left
<1>2. IsTable(Left(db, gone), ItemRows)
  <2>1. IsFiniteSet(DOMAIN Left(db, gone))
    BY <1>1, FS_Subset DEF Typed, IsTable
  <2> QED BY <2>1, <1>1 DEF Left, Typed, IsTable
<1> QED BY <1>2 DEF Left

\* What an aggregate that lost no track counts has not changed.
LEMMA UntouchedItems ==
  ASSUME NEW db, NEW gone \in SUBSET (DOMAIN db.item)
  PROVE  /\ \A a : a \notin Touched(db, gone, "album") =>
              ItemsOf(Left(db, gone), "album", a) = ItemsOf(db.item, "album", a)
         /\ \A r : r \notin Touched(db, gone, "artist") =>
              ItemsOf(Left(db, gone), "artist", r) = ItemsOf(db.item, "artist", r)
         /\ \A g : g \notin Touched(db, gone, "genre") =>
              ItemsOf(Left(db, gone), "genre", g) = ItemsOf(db.item, "genre", g)
BY DEF Left, ItemsOf, Touched

\* The albums that have a track left, counted, with a cover that is left.
AlbumsLeft(db, gone, albums) ==
  /\ IsTable(albums, AlbumRows)
  /\ DOMAIN albums = {a \in DOMAIN db.album : ItemsOf(Left(db, gone), "album", a) # {}}
  /\ \A a \in DOMAIN albums :
       /\ albums[a].name = db.album[a].name /\ albums[a].artist = db.album[a].artist
       /\ albums[a].count = Cardinality(ItemsOf(Left(db, gone), "album", a))
       /\ albums[a].art # 0 =>
            albums[a].art \in {p \in ItemsOf(Left(db, gone), "album", a) : Left(db, gone)[p].art}
       /\ a \notin Touched(db, gone, "album") => albums[a] = db.album[a]

\* AlbumsAfter leaves exactly those, whether or not an album lost a track.
LEMMA AlbumsAfterRemoval ==
  ASSUME NEW db, Consistent(db), NEW gone \in SUBSET (DOMAIN db.item)
  PROVE  AlbumsLeft(db, gone, AlbumsAfter(db, Left(db, gone), Touched(db, gone, "album")))
<1> DEFINE items == Left(db, gone)
           touched == Touched(db, gone, "album")
           albums == AlbumsAfter(db, items, touched)
           art(a) == {p \in ItemsOf(items, "album", a) : items[p].art}
<1>1. Typed(db)
  BY DEF Consistent
<1>2. /\ IsTable(items, ItemRows) /\ DOMAIN items = DOMAIN db.item \ gone
      /\ \A p \in DOMAIN items : items[p] = db.item[p]
      /\ \A a : a \notin touched => ItemsOf(items, "album", a) = ItemsOf(db.item, "album", a)
      /\ \A a : ItemsOf(items, "album", a) \subseteq DOMAIN items
      /\ \A a : ItemsOf(db.item, "album", a) \subseteq DOMAIN db.item
  BY <1>1, LeftItems, UntouchedItems, ItemsAreItems
<1> HIDE DEF items, touched, albums
<1>3. DOMAIN albums = {a \in DOMAIN db.album : ItemsOf(items, "album", a) # {}}
  <2>1. DOMAIN albums = {b \in DOMAIN db.album : b \in touched /\ b # 0 => ItemsOf(items, "album", b) # {}}
    BY DEF AlbumsAfter, albums
  <2>2. \A b \in DOMAIN db.album : b # 0 /\ (b \notin touched => ItemsOf(items, "album", b) # {})
    BY <1>2 DEF Consistent, Earned, Typed, IsTable
  <2> QED BY <2>1, <2>2
<1>4. ASSUME NEW a \in DOMAIN albums, a \in touched
      PROVE  albums[a] = [db.album[a] EXCEPT !.count = Cardinality(ItemsOf(items, "album", a)),
                                             !.art = FirstOr0(items, art(a))]
  BY <1>3, <1>4 DEF AlbumsAfter, albums
<1>5. ASSUME NEW a \in DOMAIN albums, a \notin touched PROVE albums[a] = db.album[a]
  BY <1>3, <1>5 DEF AlbumsAfter, albums
<1>6. ASSUME NEW a \in DOMAIN albums
      PROVE  /\ albums[a] \in AlbumRows
             /\ albums[a].name = db.album[a].name /\ albums[a].artist = db.album[a].artist
             /\ albums[a].count = Cardinality(ItemsOf(items, "album", a))
             /\ albums[a].art # 0 => albums[a].art \in art(a)
             /\ a \notin touched => albums[a] = db.album[a]
  <2>1. db.album[a] \in AlbumRows
    BY <1>3 DEF Consistent, Typed, IsTable
  <2>2. CASE a \in touched
    <3>1. Cardinality(ItemsOf(items, "album", a)) \in Nat
      BY <1>2, CountIsNat DEF IsTable
    <3>2. art(a) \in SUBSET (DOMAIN items) /\ DOMAIN items \subseteq Nat /\ \A p \in DOMAIN items : items[p].order \in Nat
      BY <1>2 DEF IsTable, ItemRows
    <3>3. FirstOr0(items, art(a)) \in Nat /\ (FirstOr0(items, art(a)) # 0 => FirstOr0(items, art(a)) \in art(a))
      BY <3>2, FirstIsFound
    <3> HIDE DEF art
    <3> QED BY <1>4, <2>1, <2>2, <3>1, <3>3 DEF AlbumRows
  <2>3. CASE a \notin touched
    <3>1. ItemsOf(items, "album", a) = ItemsOf(db.item, "album", a)
      BY <1>2, <2>3
    <3>2. /\ db.album[a].count = Cardinality(ItemsOf(db.item, "album", a))
          /\ db.album[a].art # 0 => db.album[a].art \in {p \in ItemsOf(db.item, "album", a) : db.item[p].art}
      BY <1>3 DEF Consistent, Counts, References
    <3>3. {p \in ItemsOf(db.item, "album", a) : db.item[p].art} = art(a)
      BY <1>2, <3>1
    <3> QED BY <1>5, <2>1, <2>3, <3>1, <3>2, <3>3
  <2> QED BY <2>2, <2>3
<1>7. IsTable(albums, AlbumRows)
  <2>1. IsFiniteSet(DOMAIN albums) /\ DOMAIN albums \subseteq Nat \ {0}
    BY <1>3, FS_Subset DEF Consistent, Typed, IsTable
  <2>2. albums = [a \in DOMAIN albums |-> albums[a]]
    BY DEF AlbumsAfter, albums
  <2> QED BY <2>1, <2>2, <1>6 DEF IsTable
<1> QED BY <1>3, <1>6, <1>7 DEF AlbumsLeft, items, touched, albums

\* The albums of some tracks, and their artists, are finitely many.
LEMMA ValuesAreCounted ==
  ASSUME NEW items, IsTable(items, ItemRows), NEW S \in SUBSET (DOMAIN items)
  PROVE  /\ Cardinality({items[p].album : p \in S}) \in Nat
         /\ Cardinality({items[p].artist : p \in S}) \in Nat
<1>1. IsFiniteSet(S)
  BY FS_Subset DEF IsTable
<1>2. IsFiniteSet({items[p].album : p \in S})
  <2> DEFINE f == [p \in S |-> items[p].album]
  <2>1. IsFiniteSet({f[p] : p \in DOMAIN f})
    BY <1>1, ImageIsFinite
  <2> QED BY <2>1
<1>3. IsFiniteSet({items[p].artist : p \in S})
  <2> DEFINE f == [p \in S |-> items[p].artist]
  <2>1. IsFiniteSet({f[p] : p \in DOMAIN f})
    BY <1>1, ImageIsFinite
  <2> QED BY <2>1
<1> QED BY <1>2, <1>3, FS_CardinalityType

\* The artists that have a track left, counted, shown by an album that is left.
ArtistsLeft(db, gone, albums, artists) ==
  /\ IsTable(artists, ArtistRows)
  /\ DOMAIN artists = {r \in DOMAIN db.artist : ItemsOf(Left(db, gone), "artist", r) # {}}
  /\ \A r \in DOMAIN artists :
       /\ artists[r].name = db.artist[r].name /\ artists[r].sort = db.artist[r].sort
       /\ artists[r].albums = Cardinality({Left(db, gone)[p].album : p \in ItemsOf(Left(db, gone), "artist", r)})
       /\ artists[r].art # 0 =>
            artists[r].art \in {a \in DOMAIN albums : albums[a].artist = r /\ albums[a].art # 0}

\* ArtistsAfter leaves exactly those: no cover of an artist is left behind.
LEMMA ArtistsAfterRemoval ==
  ASSUME NEW db, Consistent(db), NEW gone \in SUBSET (DOMAIN db.item),
         NEW albums, AlbumsLeft(db, gone, albums)
  PROVE  ArtistsLeft(db, gone, albums, ArtistsAfter(db, Left(db, gone), albums, Touched(db, gone, "artist")))
<1> DEFINE items == Left(db, gone)
           touched == Touched(db, gone, "artist")
           artists == ArtistsAfter(db, items, albums, touched)
           covers(r) == {a \in DOMAIN albums : albums[a].artist = r /\ albums[a].art # 0}
           Albums(r) == {items[p].album : p \in ItemsOf(items, "artist", r)}
<1>1. Typed(db)
  BY DEF Consistent
<1>2. /\ IsTable(items, ItemRows) /\ DOMAIN items = DOMAIN db.item \ gone
      /\ \A p \in DOMAIN items : items[p] = db.item[p]
      /\ \A r : r \notin touched => ItemsOf(items, "artist", r) = ItemsOf(db.item, "artist", r)
      /\ \A r : ItemsOf(items, "artist", r) \subseteq DOMAIN items
      /\ \A a : ItemsOf(items, "album", a) \subseteq DOMAIN items
  BY <1>1, LeftItems, UntouchedItems, ItemsAreItems
<1>3. /\ IsTable(albums, AlbumRows)
      /\ DOMAIN albums = {a \in DOMAIN db.album : ItemsOf(items, "album", a) # {}}
      /\ \A a \in DOMAIN albums : a \notin Touched(db, gone, "album") => albums[a] = db.album[a]
  BY DEF AlbumsLeft
<1>4. \A a : a \notin Touched(db, gone, "album") => ItemsOf(items, "album", a) = ItemsOf(db.item, "album", a)
  BY UntouchedItems
<1> HIDE DEF items, touched, artists
<1>5. DOMAIN artists = {r \in DOMAIN db.artist : ItemsOf(items, "artist", r) # {}}
  <2>1. DOMAIN artists = {s \in DOMAIN db.artist : s \in touched /\ s # 0 => ItemsOf(items, "artist", s) # {}}
    BY DEF ArtistsAfter, artists
  <2>2. \A s \in DOMAIN db.artist : s # 0 /\ (s \notin touched => ItemsOf(items, "artist", s) # {})
    BY <1>2 DEF Consistent, Earned, Typed, IsTable
  <2> QED BY <2>1, <2>2
<1>6. ASSUME NEW r \in DOMAIN artists, r \in touched
      PROVE  artists[r] = [db.artist[r] EXCEPT !.albums = Cardinality(Albums(r)), !.art = FirstOr0(albums, covers(r))]
  BY <1>5, <1>6 DEF ArtistsAfter, artists
<1>7. ASSUME NEW r \in DOMAIN artists, r \notin touched PROVE artists[r] = db.artist[r]
  BY <1>5, <1>7 DEF ArtistsAfter, artists
\* The album that shows for an artist that lost no track lost none either.
<1>8. ASSUME NEW r \in DOMAIN artists, r \notin touched, db.artist[r].art # 0
      PROVE  db.artist[r].art \in covers(r)
  <2> DEFINE a == db.artist[r].art
  <2>1. a \in DOMAIN db.album /\ db.album[a].artist = r /\ db.album[a].art # 0
    BY <1>5, <1>8 DEF Consistent, References
  <2>2. a \notin Touched(db, gone, "album")
    <3> SUFFICES ASSUME NEW p \in gone, db.item[p].album = a PROVE FALSE
      BY DEF Touched
    <3>1. db.item[p].artist = r
      BY <2>1 DEF Consistent, Coherent
    <3> QED BY <3>1, <1>8 DEF Touched, touched
  <2>3. ItemsOf(items, "album", a) # {}
    BY <1>4, <2>1, <2>2 DEF Consistent, Earned
  <2>4. a \in DOMAIN albums /\ albums[a] = db.album[a]
    BY <1>3, <2>1, <2>2, <2>3
  <2> QED BY <2>1, <2>4
<1>9. ASSUME NEW r \in DOMAIN artists
      PROVE  /\ artists[r] \in ArtistRows
             /\ artists[r].name = db.artist[r].name /\ artists[r].sort = db.artist[r].sort
             /\ artists[r].albums = Cardinality(Albums(r))
             /\ artists[r].art # 0 => artists[r].art \in covers(r)
  <2>1. db.artist[r] \in ArtistRows
    BY <1>5 DEF Consistent, Typed, IsTable
  <2>2. CASE r \in touched
    <3>1. Cardinality(Albums(r)) \in Nat
      BY <1>2, ValuesAreCounted
    <3>2. covers(r) \in SUBSET (DOMAIN albums) /\ DOMAIN albums \subseteq Nat /\ \A a \in DOMAIN albums : albums[a].order \in Nat
      BY <1>3 DEF IsTable, AlbumRows
    <3>3. FirstOr0(albums, covers(r)) \in Nat /\ (FirstOr0(albums, covers(r)) # 0 => FirstOr0(albums, covers(r)) \in covers(r))
      BY <3>2, FirstIsFound
    <3> HIDE DEF covers, Albums
    <3> QED BY <1>6, <2>1, <2>2, <3>1, <3>3 DEF ArtistRows
  <2>3. CASE r \notin touched
    <3>1. ItemsOf(items, "artist", r) = ItemsOf(db.item, "artist", r)
      BY <1>2, <2>3
    <3>2. db.artist[r].albums = Cardinality({db.item[p].album : p \in ItemsOf(db.item, "artist", r)})
      BY <1>5 DEF Consistent, Counts
    <3>3. {db.item[p].album : p \in ItemsOf(db.item, "artist", r)} = Albums(r)
      BY <1>2, <3>1
    <3> HIDE DEF covers, Albums
    <3> QED BY <1>7, <1>8, <2>1, <2>3, <3>2, <3>3
  <2> QED BY <2>2, <2>3
<1>10. IsTable(artists, ArtistRows)
  <2>1. IsFiniteSet(DOMAIN artists) /\ DOMAIN artists \subseteq Nat \ {0}
    BY <1>5, FS_Subset DEF Consistent, Typed, IsTable
  <2>2. artists = [r \in DOMAIN artists |-> artists[r]]
    BY DEF ArtistsAfter, artists
  <2> QED BY <2>1, <2>2, <1>9 DEF IsTable
<1> QED BY <1>5, <1>9, <1>10 DEF ArtistsLeft, items, touched, artists

\* The genres that have a track left, counted.
GenresLeft(db, gone, genres) ==
  /\ IsTable(genres, GenreRows)
  /\ DOMAIN genres = {g \in DOMAIN db.genre : ItemsOf(Left(db, gone), "genre", g) # {}}
  /\ \A g \in DOMAIN genres : genres[g] = GenreCounts(genres[g], Left(db, gone), g)

\* GenresAfter leaves exactly those.
LEMMA GenresAfterRemoval ==
  ASSUME NEW db, Consistent(db), NEW gone \in SUBSET (DOMAIN db.item)
  PROVE  GenresLeft(db, gone, GenresAfter(db, Left(db, gone), Touched(db, gone, "genre")))
<1> DEFINE items == Left(db, gone)
           touched == Touched(db, gone, "genre")
           genres == GenresAfter(db, items, touched)
<1>1. Typed(db)
  BY DEF Consistent
<1>2. /\ IsTable(items, ItemRows) /\ DOMAIN items = DOMAIN db.item \ gone
      /\ \A p \in DOMAIN items : items[p] = db.item[p]
      /\ \A g : g \notin touched => ItemsOf(items, "genre", g) = ItemsOf(db.item, "genre", g)
      /\ \A g : ItemsOf(items, "genre", g) \subseteq DOMAIN items
  BY <1>1, LeftItems, UntouchedItems, ItemsAreItems
<1> HIDE DEF items, touched, genres
<1>3. DOMAIN genres = {g \in DOMAIN db.genre : ItemsOf(items, "genre", g) # {}}
  <2>1. DOMAIN genres = {h \in DOMAIN db.genre : h \in touched /\ h # 0 => ItemsOf(items, "genre", h) # {}}
    BY DEF GenresAfter, genres
  <2>2. \A h \in DOMAIN db.genre : h # 0 /\ (h \notin touched => ItemsOf(items, "genre", h) # {})
    BY <1>2 DEF Consistent, Earned, Typed, IsTable
  <2> QED BY <2>1, <2>2
<1>4. ASSUME NEW g \in DOMAIN genres
      PROVE  genres[g] \in GenreRows /\ genres[g] = GenreCounts(genres[g], items, g)
  <2> DEFINE albums == Cardinality({items[p].album : p \in ItemsOf(items, "genre", g)})
             artists == Cardinality({items[p].artist : p \in ItemsOf(items, "genre", g)})
  <2>0. db.genre[g] \in GenreRows
    BY <1>3 DEF Consistent, Typed, IsTable
  <2>1. albums \in Nat /\ artists \in Nat
    BY <1>2, ValuesAreCounted
  <2>2. \A row : GenreCounts(row, items, g) = [row EXCEPT !.albums = albums, !.artists = artists]
    BY DEF GenreCounts
  <2>3. CASE g \in touched
    <3>1. genres[g] = GenreCounts(db.genre[g], items, g)
      BY <1>3, <2>3 DEF GenresAfter, genres
    <3> HIDE DEF albums, artists
    <3>2. genres[g] = [db.genre[g] EXCEPT !.albums = albums, !.artists = artists]
      BY <2>2, <3>1
    <3>3. genres[g] \in GenreRows
      BY <2>0, <2>1, <3>2 DEF GenreRows
    <3>4. [genres[g] EXCEPT !.albums = albums, !.artists = artists] = genres[g]
      BY <2>0, <2>1, <3>2 DEF GenreRows
    <3> QED BY <2>2, <3>3, <3>4
  <2>4. CASE g \notin touched
    <3>1. genres[g] = db.genre[g]
      BY <1>3, <2>4 DEF GenresAfter, genres
    <3>2. db.genre[g] = GenreCounts(db.genre[g], db.item, g)
      BY <1>3 DEF Consistent, Counts
    <3>3. ItemsOf(items, "genre", g) = ItemsOf(db.item, "genre", g)
      BY <1>2, <2>4
    <3>4. /\ {db.item[p].album : p \in ItemsOf(db.item, "genre", g)} = {items[p].album : p \in ItemsOf(items, "genre", g)}
          /\ {db.item[p].artist : p \in ItemsOf(db.item, "genre", g)} = {items[p].artist : p \in ItemsOf(items, "genre", g)}
      BY <1>2, <3>3
    <3>5. GenreCounts(db.genre[g], db.item, g) = GenreCounts(db.genre[g], items, g)
      BY <3>4 DEF GenreCounts
    <3> QED BY <2>0, <3>1, <3>2, <3>5
  <2> QED BY <2>3, <2>4
<1>5. IsTable(genres, GenreRows)
  <2>1. IsFiniteSet(DOMAIN genres) /\ DOMAIN genres \subseteq Nat \ {0}
    BY <1>3, FS_Subset DEF Consistent, Typed, IsTable
  <2>2. genres = [g \in DOMAIN genres |-> genres[g]]
    BY DEF GenresAfter, genres
  <2> QED BY <2>1, <2>2, <1>4 DEF IsTable
<1> QED BY <1>3, <1>4, <1>5 DEF GenresLeft, items, touched, genres

\* Renumbered writes the orders of the items and nothing else.
LEMMA RenumberedItems ==
  ASSUME NEW items, IsTable(items, ItemRows)
  PROVE  /\ IsTable(Renumbered(items), ItemRows)
         /\ DOMAIN Renumbered(items) = DOMAIN items
         /\ \A p \in DOMAIN items :
              /\ Renumbered(items)[p].album = items[p].album /\ Renumbered(items)[p].artist = items[p].artist
              /\ Renumbered(items)[p].genre = items[p].genre /\ Renumbered(items)[p].art = items[p].art
              /\ Renumbered(items)[p].size = items[p].size /\ Renumbered(items)[p].key = items[p].key
<1> DEFINE place(p) == Cardinality({q \in DOMAIN items :
                          \/ items[q].order < items[p].order
                          \/ items[q].order = items[p].order /\ q < p})
<1>1. \A p \in DOMAIN items : place(p) \in Nat
  BY CountIsNat DEF IsTable
<1>2. Renumbered(items) = [p \in DOMAIN items |-> [items[p] EXCEPT !.order = place(p)]]
  BY DEF Renumbered
<1> HIDE DEF place
<1>3. ASSUME NEW p \in DOMAIN items
      PROVE  /\ Renumbered(items)[p] \in ItemRows
             /\ Renumbered(items)[p].album = items[p].album /\ Renumbered(items)[p].artist = items[p].artist
             /\ Renumbered(items)[p].genre = items[p].genre /\ Renumbered(items)[p].art = items[p].art
             /\ Renumbered(items)[p].size = items[p].size /\ Renumbered(items)[p].key = items[p].key
  <2>1. items[p] \in ItemRows
    BY DEF IsTable
  <2>2. Renumbered(items)[p] = [items[p] EXCEPT !.order = place(p)]
    BY <1>2
  <2> QED BY <1>1, <2>1, <2>2 DEF ItemRows
<1> QED BY <1>2, <1>3 DEF IsTable

\* What removing tracks leaves is a sound library again.
LEMMA RemovedIsConsistent ==
  ASSUME NEW db, Consistent(db), NEW gone \in SUBSET (DOMAIN db.item)
  PROVE  Consistent(Removed(db, gone))
<1> DEFINE items == Left(db, gone)
           albums == AlbumsAfter(db, items, Touched(db, gone, "album"))
           artists == ArtistsAfter(db, items, albums, Touched(db, gone, "artist"))
           genres == GenresAfter(db, items, Touched(db, gone, "genre"))
           members == RenumberedMembers({m \in db.members : m.item \notin gone})
           d == Removed(db, gone)
<1>1. /\ DOMAIN d = Tables /\ d.item = Renumbered(items) /\ d.album = albums /\ d.artist = artists
      /\ d.genre = genres /\ d.container = db.container /\ d.ui = db.ui /\ d.members = members
      /\ d.rows = {row \in db.rows : row[2] \notin gone} /\ d.size = SizeOf(items)
  BY DEF Removed, Left, Consistent, Typed, Tables
<1>2. AlbumsLeft(db, gone, albums)
  BY AlbumsAfterRemoval
<1>3. ArtistsLeft(db, gone, albums, artists)
  BY <1>2, ArtistsAfterRemoval
<1>4. GenresLeft(db, gone, genres)
  BY GenresAfterRemoval
<1>5. /\ IsTable(items, ItemRows) /\ DOMAIN items = DOMAIN db.item \ gone
      /\ \A p \in DOMAIN items : items[p] = db.item[p]
  BY LeftItems DEF Consistent
<1>6. /\ IsTable(d.item, ItemRows) /\ DOMAIN d.item = DOMAIN items
      /\ \A p \in DOMAIN items :
           /\ d.item[p].album = items[p].album /\ d.item[p].artist = items[p].artist
           /\ d.item[p].genre = items[p].genre /\ d.item[p].art = items[p].art
           /\ d.item[p].size = items[p].size /\ d.item[p].key = items[p].key
  BY <1>1, <1>5, RenumberedItems
<1>7. \A m \in members : /\ DOMAIN m = {"container", "item", "order"}
                         /\ \E n \in db.members : n.item \notin gone /\ m.item = n.item /\ m.container = n.container
  <2> SUFFICES ASSUME NEW m \in members
               PROVE  /\ DOMAIN m = {"container", "item", "order"}
                      /\ \E n \in db.members : n.item \notin gone /\ m.item = n.item /\ m.container = n.container
    OBVIOUS
  <2>1. PICK n \in db.members : n.item \notin gone /\ \E o : m = [n EXCEPT !.order = o]
    BY DEF RenumberedMembers
  <2>2. DOMAIN n = {"container", "item", "order"}
    BY DEF Consistent, Typed
  <2> QED BY <2>1, <2>2
<1> HIDE DEF items, albums, artists, genres, members, d
<1>8. Typed(d)
  BY <1>1, <1>2, <1>3, <1>4, <1>6, <1>7 DEF Typed, AlbumsLeft, ArtistsLeft, GenresLeft, Consistent
<1>9. \A k : /\ ItemsOf(d.item, "album", k) = ItemsOf(items, "album", k)
             /\ ItemsOf(d.item, "artist", k) = ItemsOf(items, "artist", k)
             /\ ItemsOf(d.item, "genre", k) = ItemsOf(items, "genre", k)
             /\ ItemsOf(items, "album", k) \subseteq DOMAIN items
             /\ ItemsOf(items, "artist", k) \subseteq DOMAIN items
             /\ ItemsOf(items, "genre", k) \subseteq DOMAIN items
  BY <1>6 DEF ItemsOf
<1>10. ASSUME NEW p \in DOMAIN items
       PROVE  /\ p \in ItemsOf(items, "album", items[p].album) /\ p \in ItemsOf(items, "artist", items[p].artist)
              /\ p \in ItemsOf(items, "genre", items[p].genre)
              /\ items[p].artist = db.album[items[p].album].artist
              /\ items[p].album \in DOMAIN albums /\ items[p].artist \in DOMAIN artists \cup {0}
              /\ items[p].genre \in DOMAIN genres \cup {0}
  <2>1. /\ p \in ItemsOf(items, "album", items[p].album) /\ p \in ItemsOf(items, "artist", items[p].artist)
        /\ p \in ItemsOf(items, "genre", items[p].genre)
    BY DEF ItemsOf
  <2>2. /\ items[p].album \in DOMAIN db.album /\ items[p].artist \in DOMAIN db.artist \cup {0}
        /\ items[p].genre \in DOMAIN db.genre \cup {0} /\ items[p].artist = db.album[items[p].album].artist
    BY <1>5 DEF Consistent, References, Coherent
  <2> QED BY <1>2, <1>3, <1>4, <2>1, <2>2 DEF AlbumsLeft, ArtistsLeft, GenresLeft, items
<1>11. References(d)
  <2>1. \A p \in DOMAIN d.item :
          /\ d.item[p].album \in DOMAIN d.album
          /\ d.item[p].artist \in DOMAIN d.artist \cup {0}
          /\ d.item[p].genre \in DOMAIN d.genre \cup {0}
    BY <1>1, <1>6, <1>10
  <2>2. ASSUME NEW a \in DOMAIN d.album
        PROVE  /\ d.album[a].artist \in DOMAIN d.artist \cup {0}
               /\ d.album[a].art # 0 => d.album[a].art \in {p \in ItemsOf(d.item, "album", a) : d.item[p].art}
    <3>1. PICK p \in ItemsOf(items, "album", a) : TRUE
      BY <1>1, <1>2 DEF AlbumsLeft, items
    <3>2. p \in DOMAIN items /\ items[p].album = a
      BY DEF ItemsOf
    <3>3. albums[a].artist = db.album[a].artist
      BY <1>1, <1>2 DEF AlbumsLeft
    <3>4. d.album[a].artist \in DOMAIN d.artist \cup {0}
      BY <1>1, <1>10, <3>2, <3>3
    <3>5. albums[a].art # 0 => albums[a].art \in {q \in ItemsOf(items, "album", a) : items[q].art}
      BY <1>1, <1>2 DEF AlbumsLeft, items
    <3>6. {q \in ItemsOf(items, "album", a) : items[q].art} = {q \in ItemsOf(d.item, "album", a) : d.item[q].art}
      BY <1>6, <1>9
    <3> QED BY <1>1, <3>4, <3>5, <3>6
  <2>3. \A r \in DOMAIN d.artist :
          LET a == d.artist[r].art
          IN  a # 0 => a \in DOMAIN d.album /\ d.album[a].artist = r /\ d.album[a].art # 0
    BY <1>1, <1>3 DEF ArtistsLeft
  <2>4. \A m \in d.members : m.container \in DOMAIN d.container /\ m.item \in DOMAIN d.item
    BY <1>1, <1>5, <1>6, <1>7 DEF Consistent, References
  <2>5. d.ui = DOMAIN d.container /\ \A row \in d.rows : row[2] \in DOMAIN d.item
    BY <1>1, <1>5, <1>6 DEF Consistent, References
  <2> QED BY <2>1, <2>2, <2>3, <2>4, <2>5 DEF References
<1>12. Counts(d)
  <2>1. \A a \in DOMAIN d.album : d.album[a].count = Cardinality(ItemsOf(d.item, "album", a))
    BY <1>1, <1>2, <1>9 DEF AlbumsLeft, items
  <2>2. ASSUME NEW r \in DOMAIN d.artist
        PROVE  d.artist[r].albums = Cardinality({d.item[p].album : p \in ItemsOf(d.item, "artist", r)})
    <3>1. {d.item[p].album : p \in ItemsOf(d.item, "artist", r)} = {items[p].album : p \in ItemsOf(items, "artist", r)}
      BY <1>6, <1>9
    <3> QED BY <1>1, <1>3, <3>1 DEF ArtistsLeft, items
  <2>3. ASSUME NEW g \in DOMAIN d.genre PROVE d.genre[g] = GenreCounts(d.genre[g], d.item, g)
    <3>1. {d.item[p].album : p \in ItemsOf(d.item, "genre", g)} = {items[p].album : p \in ItemsOf(items, "genre", g)}
      BY <1>6, <1>9
    <3>2. {d.item[p].artist : p \in ItemsOf(d.item, "genre", g)} = {items[p].artist : p \in ItemsOf(items, "genre", g)}
      BY <1>6, <1>9
    <3>3. GenreCounts(d.genre[g], d.item, g) = GenreCounts(genres[g], items, g)
      BY <1>1, <3>1, <3>2 DEF GenreCounts
    <3> QED BY <1>1, <1>4, <3>3 DEF GenresLeft, items
  <2>4. d.size = SizeOf(d.item)
    <3>1. Sized(items)
      BY <1>5 DEF Sized, IsTable, ItemRows
    <3> QED BY <1>1, <1>6, <3>1, SizeOfKept
  <2> QED BY <2>1, <2>2, <2>3, <2>4 DEF Counts
<1>13. Earned(d)
  <2>1. /\ \A a \in DOMAIN d.album : ItemsOf(d.item, "album", a) # {}
        /\ \A r \in DOMAIN d.artist : ItemsOf(d.item, "artist", r) # {}
        /\ \A g \in DOMAIN d.genre : ItemsOf(d.item, "genre", g) # {}
    BY <1>1, <1>2, <1>3, <1>4, <1>9 DEF AlbumsLeft, ArtistsLeft, GenresLeft, items
  <2>2. \A r \in DOMAIN d.artist : r \in DOMAIN db.artist /\ d.artist[r].name = db.artist[r].name
    BY <1>1, <1>3 DEF ArtistsLeft
  <2>3. \A a \in DOMAIN d.album : /\ a \in DOMAIN db.album /\ d.album[a].name = db.album[a].name
                                  /\ d.album[a].artist = db.album[a].artist
    BY <1>1, <1>2 DEF AlbumsLeft
  <2> QED BY <2>1, <2>2, <2>3 DEF Earned, Consistent
<1>14. Coherent(d)
  <2>1. ASSUME NEW p \in DOMAIN d.item PROVE d.item[p].artist = d.album[d.item[p].album].artist
    BY <1>1, <1>2, <1>6, <1>10 DEF AlbumsLeft
  <2> QED BY <1>1, <2>1 DEF Coherent, Consistent
<1> QED BY <1>8, <1>11, <1>12, <1>13, <1>14 DEF Consistent, d

------------------------------------------------------------------------------
(* Addition: lookups *)

\* A rank is a number.
LEMMA RankIsNat ==
  ASSUME NEW S, IsFiniteSet(S), NEW k
  PROVE  Rank(k, S) \in Nat
<1>1. Cardinality({v \in S : v < k}) \in Nat
  BY CountIsNat
<1> QED BY <1>1 DEF Rank

\* A row of the right type under a new key keeps the type of a table.
LEMMA InsertedTable ==
  ASSUME NEW table, NEW rows, IsTable(table, rows), NEW key \in Nat \ {0}, NEW row \in rows
  PROVE  IsTable(Inserted(table, key, row), rows)
<1>1. IsFiniteSet(DOMAIN table \cup {key})
  BY FS_AddElement DEF IsTable
<1>2. Inserted(table, key, row) \in [DOMAIN table \cup {key} -> rows]
  BY DEF IsTable, Inserted
<1>3. DOMAIN Inserted(table, key, row) = DOMAIN table \cup {key}
  BY DEF Inserted
<1> QED BY <1>1, <1>2, <1>3 DEF IsTable

\* MAX(pid) + 1 over albums and artists is the id of neither.
LEMMA NextPidIsNew ==
  ASSUME NEW db, Typed(db)
  PROVE  NextPid(db) \in Nat \ {0} /\ NextPid(db) \notin DOMAIN db.album /\ NextPid(db) \notin DOMAIN db.artist
<1> DEFINE pids == DOMAIN db.album \cup DOMAIN db.artist \cup {0}
<1>1. pids \in SUBSET Nat /\ pids # {}
  BY DEF Typed, IsTable
<1>2. IsFiniteSet(pids)
  <2>1. IsFiniteSet(DOMAIN db.album \cup DOMAIN db.artist)
    BY FS_Union DEF Typed, IsTable
  <2> QED BY <2>1, FS_AddElement
<1>3. Max(pids) \in pids /\ \A x \in pids : Max(pids) >= x
  BY <1>1, <1>2, MaxOfNats
<1>4. Max(pids) \in Nat /\ NextPid(db) = Max(pids) + 1 /\ \A x \in pids : x \in Nat
  BY <1>1, <1>3 DEF NextPid
<1>5. NextPid(db) \notin pids
  <2> SUFFICES ASSUME NextPid(db) \in pids PROVE FALSE
    OBVIOUS
  <2>1. Max(pids) >= Max(pids) + 1
    BY <1>3, <1>4
  <2> HIDE DEF pids
  <2> QED BY <1>4, <2>1
<1> HIDE DEF pids
<1>6. NextPid(db) \in Nat \ {0}
  BY <1>4
<1> QED BY <1>5, <1>6 DEF pids

\* A lookup that finds nothing has no row of the same spelling.
LEMMA MatchingFinds ==
  ASSUME NEW table, NEW rows, NEW name
  PROVE  /\ Matching(table, rows, name) \subseteq rows
         /\ Matching(table, rows, name) = {} => \A k \in rows : SortKey[table[k].name] # SortKey[name]
BY DEF Matching

\* The artist's row after resolve_named_entity: found, or new and like no other.
ArtistIn(old, new, r, name) ==
  /\ IsTable(new, ArtistRows) /\ DOMAIN new = DOMAIN old \cup ({r} \ {0})
  /\ \A s \in DOMAIN old : new[s] = old[s]
  /\ r # 0 /\ r \notin DOMAIN old =>
       /\ new[r].name = name /\ new[r].art = 0
       /\ \A s \in DOMAIN old : SortKey[old[s].name] # SortKey[name]

\* resolve_named_entity for the artist of an addition.
LEMMA ArtistResolved ==
  ASSUME NEW db, Typed(db), NEW name \in Names, NEW r, r = ResolvedArtist(db, name)
  PROVE  LET d == WithArtist(db, r, name)
         IN  /\ Typed(d) /\ ArtistIn(db.artist, d.artist, r, name)
             /\ r \in Nat /\ (r \notin DOMAIN db.artist => r \notin DOMAIN db.album)
             /\ d.item = db.item /\ d.album = db.album /\ d.genre = db.genre /\ d.container = db.container
             /\ d.ui = db.ui /\ d.members = db.members /\ d.rows = db.rows /\ d.size = db.size
<1> DEFINE found == Matching(db.artist, DOMAIN db.artist, name)
           d == WithArtist(db, r, name)
<1>1. 0 \notin DOMAIN db.artist /\ 0 \notin DOMAIN db.album /\ DOMAIN db.artist \subseteq Nat
  BY DEF Typed, IsTable
<1>2. CASE r = 0 \/ r \in DOMAIN db.artist
  <2>1. d = db
    BY <1>2 DEF WithArtist
  <2> QED BY <1>1, <1>2, <2>1 DEF Typed, ArtistIn
<1>3. CASE r # 0 /\ r \notin DOMAIN db.artist
  <2>1. name # NoName
    BY <1>3 DEF ResolvedArtist
  <2>2. found = {} /\ r = NextPid(db)
    <3>1. ASSUME found # {} PROVE FALSE
      <4>1. r = Min(found)
        BY <2>1, <3>1 DEF ResolvedArtist
      <4>2. found \subseteq DOMAIN db.artist
        BY MatchingFinds
      <4>3. Min(found) \in found
        BY <1>1, <3>1, <4>2, MinOfNats
      <4> QED BY <1>3, <4>1, <4>2, <4>3
    <3> QED BY <2>1, <3>1 DEF ResolvedArtist
  <2>3. r \in Nat \ {0} /\ r \notin DOMAIN db.album /\ r \notin DOMAIN db.artist
    BY <2>2, NextPidIsNew
  <2> DEFINE keys == {SortKey[db.artist[s].name] : s \in DOMAIN db.artist}
             row == [name |-> name, sort |-> StoredKey[name], albums |-> 1, art |-> 0, order |-> Rank(SortKey[name], keys)]
  <2>4. DOMAIN d = Tables /\ d.artist = Inserted(db.artist, r, row)
        /\ d.item = db.item /\ d.album = db.album /\ d.genre = db.genre /\ d.container = db.container
        /\ d.ui = db.ui /\ d.members = db.members /\ d.rows = db.rows /\ d.size = db.size
    BY <1>3 DEF WithArtist, Typed, Tables
  <2>5. Rank(SortKey[name], keys) \in Nat
    <3> DEFINE f == [s \in DOMAIN db.artist |-> SortKey[db.artist[s].name]]
    <3>0. IsFiniteSet(DOMAIN db.artist)
      BY DEF Typed, IsTable
    <3>1. IsFiniteSet({f[s] : s \in DOMAIN f})
      BY <3>0, ImageIsFinite
    <3>2. IsFiniteSet(keys)
      BY <3>1
    <3> HIDE DEF keys
    <3> QED BY <3>2, RankIsNat
  <2> HIDE DEF keys
  <2>6. row \in ArtistRows /\ row.name = name /\ row.art = 0
    BY <2>5, NamesAssumption DEF ArtistRows
  <2> HIDE DEF row
  <2>7. /\ DOMAIN d.artist = DOMAIN db.artist \cup {r} /\ d.artist[r] = row
        /\ \A s \in DOMAIN db.artist : d.artist[s] = db.artist[s]
    BY <2>3, <2>4 DEF Inserted
  <2>8. IsTable(d.artist, ArtistRows)
    BY <2>3, <2>4, <2>6, InsertedTable DEF Typed
  <2>9. \A s \in DOMAIN db.artist : SortKey[db.artist[s].name] # SortKey[name]
    BY <2>2, MatchingFinds
  <2>10. ArtistIn(db.artist, d.artist, r, name)
    BY <1>3, <2>6, <2>7, <2>9, <2>8 DEF ArtistIn
  <2>11. Typed(d)
    BY <2>4, <2>8 DEF Typed
  <2> QED BY <2>3, <2>4, <2>10, <2>11
<1> QED BY <1>2, <1>3

\* The album's row after resolve_album.
AlbumIn(old, new, a, name, r) ==
  /\ IsTable(new, AlbumRows) /\ DOMAIN new = DOMAIN old \cup {a}
  /\ \A b \in DOMAIN old : new[b] = old[b]
  /\ new[a].artist = r
  /\ a \notin DOMAIN old =>
       /\ new[a].name = name /\ new[a].art = 0
       /\ \A b \in DOMAIN old : old[b].artist = r => SortKey[old[b].name] # SortKey[name]

\* resolve_album, which needs the row of the artist when the album is new.
LEMMA AlbumResolved ==
  ASSUME NEW db, Typed(db), NEW name \in Names, NEW r, NEW a, a = ResolvedAlbum(db, name, r),
         a \in DOMAIN db.album \/ r \in DOMAIN db.artist
  PROVE  LET d == WithAlbum(db, a, name, r)
         IN  /\ Typed(d) /\ AlbumIn(db.album, d.album, a, name, r)
             /\ d.item = db.item /\ d.artist = db.artist /\ d.genre = db.genre /\ d.container = db.container
             /\ d.ui = db.ui /\ d.members = db.members /\ d.rows = db.rows /\ d.size = db.size
<1> DEFINE own == {b \in DOMAIN db.album : db.album[b].artist = r}
           found == Matching(db.album, own, name)
           d == WithAlbum(db, a, name, r)
<1>1. DOMAIN db.album \subseteq Nat
  BY DEF Typed, IsTable
<1>2. found # {} => a \in own
  <2> SUFFICES ASSUME found # {} PROVE a \in own
    OBVIOUS
  <2>1. a = Min(found)
    BY DEF ResolvedAlbum
  <2>2. found \subseteq own
    BY MatchingFinds
  <2>3. found \in SUBSET Nat
    BY <1>1, <2>2
  <2>4. Min(found) \in found
    BY <2>3, MinOfNats
  <2> QED BY <2>1, <2>2, <2>4
<1>3. found = {} => a = NextPid(db)
  BY DEF ResolvedAlbum
<1>4. NextPid(db) \in Nat \ {0} /\ NextPid(db) \notin DOMAIN db.album
  BY NextPidIsNew
<1>5. found = {} => \A b \in own : SortKey[db.album[b].name] # SortKey[name]
  <2> HIDE DEF own
  <2> QED BY MatchingFinds
<1> HIDE DEF found
<1>6. CASE a \in DOMAIN db.album
  <2>1. d = db
    BY <1>6 DEF WithAlbum
  <2>2. a \in own
    BY <1>2, <1>3, <1>4, <1>6
  <2> QED BY <1>6, <2>1, <2>2 DEF Typed, AlbumIn
<1>7. CASE a \notin DOMAIN db.album
  <2>1. found = {} /\ a \in Nat \ {0} /\ r \in DOMAIN db.artist
    BY <1>2, <1>3, <1>4, <1>7
  <2> DEFINE names == {SortKey[db.album[b].name] : b \in DOMAIN db.album}
             artists == {SortKey[db.artist[s].name] : s \in DOMAIN db.artist}
             row == [name |-> name, sort |-> StoredKey[name], artist |-> r, count |-> 1, art |-> 0, order |-> Rank(SortKey[name], names),
                     artistOrder |-> Rank(SortKey[db.artist[r].name], artists)]
  <2>2. DOMAIN d = Tables /\ d.album = Inserted(db.album, a, row)
        /\ d.item = db.item /\ d.artist = db.artist /\ d.genre = db.genre /\ d.container = db.container
        /\ d.ui = db.ui /\ d.members = db.members /\ d.rows = db.rows /\ d.size = db.size
    BY <1>7 DEF WithAlbum, Typed, Tables
  <2>3. \A k : Rank(k, names) \in Nat
    <3> DEFINE f == [b \in DOMAIN db.album |-> SortKey[db.album[b].name]]
    <3>0. IsFiniteSet(DOMAIN db.album)
      BY DEF Typed, IsTable
    <3>1. IsFiniteSet({f[b] : b \in DOMAIN f})
      BY <3>0, ImageIsFinite
    <3>2. IsFiniteSet(names)
      BY <3>1
    <3> HIDE DEF names
    <3> QED BY <3>2, RankIsNat
  <2>4. \A k : Rank(k, artists) \in Nat
    <3> DEFINE f == [s \in DOMAIN db.artist |-> SortKey[db.artist[s].name]]
    <3>0. IsFiniteSet(DOMAIN db.artist)
      BY DEF Typed, IsTable
    <3>1. IsFiniteSet({f[s] : s \in DOMAIN f})
      BY <3>0, ImageIsFinite
    <3>2. IsFiniteSet(artists)
      BY <3>1
    <3> HIDE DEF artists
    <3> QED BY <3>2, RankIsNat
  <2> HIDE DEF names, artists
  <2>5. r \in Nat
    BY <2>1 DEF Typed, IsTable
  <2>6. row \in AlbumRows /\ row.name = name /\ row.art = 0 /\ row.artist = r
    BY <2>3, <2>4, <2>5, NamesAssumption DEF AlbumRows
  <2> HIDE DEF row
  <2>7. /\ DOMAIN d.album = DOMAIN db.album \cup {a} /\ d.album[a] = row
        /\ \A b \in DOMAIN db.album : d.album[b] = db.album[b]
    BY <1>7, <2>2 DEF Inserted
  <2>8. IsTable(d.album, AlbumRows)
    BY <2>1, <2>2, <2>6, InsertedTable DEF Typed
  <2>9. \A b \in DOMAIN db.album : db.album[b].artist = r => SortKey[db.album[b].name] # SortKey[name]
    BY <2>1, <1>5
  <2>10. AlbumIn(db.album, d.album, a, name, r)
    BY <1>7, <2>6, <2>7, <2>8, <2>9 DEF AlbumIn
  <2>11. Typed(d)
    BY <2>2, <2>8 DEF Typed
  <2> QED BY <2>2, <2>10, <2>11
<1> QED BY <1>6, <1>7

\* The genre's row after resolve_named_entity.
GenreIn(old, new, g) ==
  /\ IsTable(new, GenreRows) /\ DOMAIN new = DOMAIN old \cup ({g} \ {0})
  /\ \A h \in DOMAIN old : new[h] = old[h]

\* resolve_named_entity for the genre of an addition.
LEMMA GenreResolved ==
  ASSUME NEW db, Typed(db), NEW name \in Names, NEW g, g = ResolvedGenre(db, name)
  PROVE  LET d == WithGenre(db, g, name)
         IN  /\ Typed(d) /\ GenreIn(db.genre, d.genre, g) /\ g \in Nat
             /\ d.item = db.item /\ d.artist = db.artist /\ d.album = db.album /\ d.container = db.container
             /\ d.ui = db.ui /\ d.members = db.members /\ d.rows = db.rows /\ d.size = db.size
<1> DEFINE found == Matching(db.genre, DOMAIN db.genre, name)
           d == WithGenre(db, g, name)
           pids == DOMAIN db.genre \cup {0}
<1>1. 0 \notin DOMAIN db.genre /\ DOMAIN db.genre \subseteq Nat
  BY DEF Typed, IsTable
<1>2. CASE g = 0 \/ g \in DOMAIN db.genre
  <2>1. d = db
    BY <1>2 DEF WithGenre
  <2> QED BY <1>1, <1>2, <2>1 DEF Typed, GenreIn
<1>3. CASE g # 0 /\ g \notin DOMAIN db.genre
  <2>1. found = {}
    <3> SUFFICES ASSUME found # {} PROVE FALSE
      OBVIOUS
    <3>1. g = Min(found)
      BY <1>3 DEF ResolvedGenre
    <3>2. found \subseteq DOMAIN db.genre
      BY MatchingFinds
    <3>3. found \in SUBSET Nat
      BY <1>1, <3>2
    <3>4. Min(found) \in found
      BY <3>3, MinOfNats
    <3> QED BY <1>3, <3>1, <3>2, <3>4
  <2>2. g = Max(pids) + 1
    BY <1>3, <2>1 DEF ResolvedGenre
  <2>3. IsFiniteSet(DOMAIN db.genre)
    BY DEF Typed, IsTable
  <2>4. IsFiniteSet(pids) /\ pids \in SUBSET Nat /\ pids # {}
    BY <1>1, <2>3, FS_AddElement
  <2>5. Max(pids) \in pids
    BY <2>4, MaxOfNats
  <2>6. g \in Nat \ {0}
    BY <1>3, <2>2, <2>4, <2>5
  <2> DEFINE row == [name |-> name, albums |-> 1, artists |-> 1]
  <2>7. DOMAIN d = Tables /\ d.genre = Inserted(db.genre, g, row)
        /\ d.item = db.item /\ d.artist = db.artist /\ d.album = db.album /\ d.container = db.container
        /\ d.ui = db.ui /\ d.members = db.members /\ d.rows = db.rows /\ d.size = db.size
    BY <1>3 DEF WithGenre, Typed, Tables
  <2>8. row \in GenreRows
    BY DEF GenreRows
  <2> HIDE DEF row
  <2>9. IsTable(d.genre, GenreRows)
    BY <2>6, <2>7, <2>8, InsertedTable DEF Typed
  <2>10. DOMAIN d.genre = DOMAIN db.genre \cup {g} /\ \A h \in DOMAIN db.genre : d.genre[h] = db.genre[h]
    BY <1>3, <2>7 DEF Inserted
  <2>11. GenreIn(db.genre, d.genre, g)
    BY <1>3, <2>9, <2>10 DEF GenreIn
  <2>12. Typed(d)
    BY <2>7, <2>9 DEF Typed
  <2> QED BY <2>6, <2>7, <2>11, <2>12
<1> QED BY <1>2, <1>3

------------------------------------------------------------------------------
(* Addition: memberships and derived rows *)

\* The playlists of a library: every member is listed in one and is a track.
Lists(db, pids) ==
  /\ DOMAIN db.container \subseteq Nat \ {0}
  /\ \A c \in DOMAIN db.container : DOMAIN db.container[c] = {"name", "hidden", "smart", "kind", "parent"}
  /\ \A m \in db.members : DOMAIN m = {"container", "item", "order"}
                           /\ m.container \in DOMAIN db.container /\ m.item \in pids
  /\ db.ui = DOMAIN db.container
  /\ MasterList \in DOMAIN db.container /\ db.container[MasterList].hidden

\* Tables that no playlist statement writes.
SameTracks(db, d) ==
  /\ DOMAIN d = Tables
  /\ d.item = db.item /\ d.album = db.album /\ d.artist = db.artist /\ d.genre = db.genre
  /\ d.rows = db.rows /\ d.size = db.size

\* A sound library has such playlists.
LEMMA ConsistentLists ==
  ASSUME NEW db, Typed(db), References(db), Coherent(db)
  PROVE  Lists(db, DOMAIN db.item)
BY DEF Typed, References, Coherent, Lists

\* A membership more keeps the playlists whole.
LEMMA JoinedLists ==
  ASSUME NEW db, DOMAIN db = Tables, NEW pids, Lists(db, pids), NEW p \in pids, NEW c \in DOMAIN db.container
  PROVE  SameTracks(db, Joined(db, p, c)) /\ Joined(db, p, c).container = db.container /\ Lists(Joined(db, p, c), pids)
<1> DEFINE d == Joined(db, p, c)
           o == Max({m.order + 1 : m \in MembersOf(db, c)} \cup {0})
           row == [container |-> c, item |-> p, order |-> o]
<1>1. DOMAIN d = Tables /\ d.members = db.members \cup {row}
      /\ d.item = db.item /\ d.album = db.album /\ d.artist = db.artist /\ d.genre = db.genre
      /\ d.rows = db.rows /\ d.size = db.size /\ d.container = db.container /\ d.ui = db.ui
  BY DEF Joined, Tables
<1> HIDE DEF o
<1>2. DOMAIN row = {"container", "item", "order"} /\ row.container = c /\ row.item = p
  OBVIOUS
<1> HIDE DEF row, d
<1>3. Lists(d, pids)
  BY <1>1, <1>2 DEF Lists
<1> QED BY <1>1, <1>3 DEF SameTracks, d

\* So does the podcast list that an episode needs.
LEMMA PodcastListAdded ==
  ASSUME NEW db, DOMAIN db = Tables, NEW pids, Lists(db, pids)
  PROVE  /\ SameTracks(db, WithPodcastList(db)) /\ Lists(WithPodcastList(db), pids)
         /\ PodcastContainer(db) \in DOMAIN WithPodcastList(db).container
<1> DEFINE d == WithPodcastList(db)
<1>1. CASE PodcastLists(db) # {}
  <2>1. d = db
    BY <1>1 DEF WithPodcastList
  <2>2. PodcastLists(db) \in SUBSET Nat
    BY DEF PodcastLists, Lists
  <2>3. PodcastContainer(db) \in DOMAIN db.container
    BY <1>1, <2>2, MinOfNats DEF PodcastContainer, PodcastLists
  <2> QED BY <2>1, <2>3 DEF SameTracks
<1>2. CASE PodcastLists(db) = {}
  <2> DEFINE row == Container("Podcasts", TRUE, "podcasts")
  <2>1. DOMAIN d = Tables /\ d.container = Inserted(db.container, PodcastList, row)
        /\ d.ui = db.ui \cup {PodcastList}
        /\ d.item = db.item /\ d.album = db.album /\ d.artist = db.artist /\ d.genre = db.genre
        /\ d.rows = db.rows /\ d.size = db.size /\ d.members = db.members
    BY <1>2 DEF WithPodcastList, Tables
  <2>2. DOMAIN row = {"name", "hidden", "smart", "kind", "parent"} /\ row.hidden
    BY DEF Container
  <2> HIDE DEF row
  <2>3. /\ DOMAIN d.container = DOMAIN db.container \cup {PodcastList}
        /\ \A c \in DOMAIN d.container : d.container[c] = IF c = PodcastList THEN row ELSE db.container[c]
    BY <2>1 DEF Inserted
  <2>4. PodcastContainer(db) = PodcastList
    BY <1>2 DEF PodcastContainer
  <2> HIDE DEF d
  <2>5. Lists(d, pids)
    BY <2>1, <2>2, <2>3, NamesAssumption DEF Lists
  <2> QED BY <2>1, <2>3, <2>4, <2>5 DEF SameTracks, d
<1> QED BY <1>1, <1>2

\* And so both memberships of an addition.
LEMMA ListedLists ==
  ASSUME NEW db, DOMAIN db = Tables, NEW pids, Lists(db, pids), NEW p \in pids, NEW podcast
  PROVE  SameTracks(db, ListedIn(db, p, podcast)) /\ Lists(ListedIn(db, p, podcast), pids)
<1> DEFINE d == Joined(db, p, MasterList)
           e == WithPodcastList(d)
           f == Joined(e, p, PodcastContainer(db))
<1>1. SameTracks(db, d) /\ d.container = db.container /\ Lists(d, pids)
  BY JoinedLists DEF Lists
<1>2. PodcastContainer(d) = PodcastContainer(db)
  BY <1>1 DEF PodcastContainer, PodcastLists
<1> HIDE DEF d
<1>3. SameTracks(d, e) /\ Lists(e, pids) /\ PodcastContainer(db) \in DOMAIN e.container
  BY <1>1, <1>2, PodcastListAdded DEF SameTracks
<1> HIDE DEF e
<1>4. SameTracks(e, f) /\ Lists(f, pids)
  BY <1>3, JoinedLists DEF SameTracks
<1>5. SameTracks(db, f)
  BY <1>1, <1>3, <1>4 DEF SameTracks
<1>6. ListedIn(db, p, podcast) = IF podcast THEN f ELSE d
  BY DEF ListedIn, d, e
<1> QED BY <1>1, <1>4, <1>5, <1>6

\* The last pass of an addition: the rows it is about are counted and shown.
RowsDerived(items, album, artist, genre, d, add, r, a, g) ==
  /\ DOMAIN d.album = DOMAIN album /\ DOMAIN d.artist = DOMAIN artist /\ DOMAIN d.genre = DOMAIN genre
  /\ d.album = [b \in DOMAIN album |-> d.album[b]]
  /\ d.artist = [s \in DOMAIN artist |-> d.artist[s]]
  /\ d.genre = [h \in DOMAIN genre |-> d.genre[h]]
  /\ \A b \in DOMAIN album : d.album[b] =
       IF b # a THEN album[b]
       ELSE [album[a] EXCEPT !.count = Cardinality(ItemsOf(items, "album", a)),
                             !.art = IF add.art /\ album[a].art = 0 THEN add.pid ELSE album[a].art]
  /\ \A s \in DOMAIN artist : d.artist[s] =
       IF s # r THEN artist[s]
       ELSE [artist[r] EXCEPT !.albums = Cardinality({items[p].album : p \in ItemsOf(items, "artist", r)}),
                              !.art = IF add.art /\ artist[r].art = 0 THEN a ELSE artist[r].art]
  /\ \A h \in DOMAIN genre : d.genre[h] = IF h # g THEN genre[h] ELSE GenreCounts(genre[g], items, g)

\* update_derived_rows and link_artwork_rows do that and nothing else.
LEMMA DerivedRows ==
  ASSUME NEW db, DOMAIN db = Tables, NEW add, NEW r, NEW a \in DOMAIN db.album, NEW g
  PROVE  LET d == Derived(db, add, r, a, g)
         IN  /\ DOMAIN d = Tables
             /\ d.item = db.item /\ d.container = db.container /\ d.ui = db.ui /\ d.members = db.members
             /\ d.rows = db.rows /\ d.size = db.size + add.size
             /\ RowsDerived(db.item, db.album, db.artist, db.genre, d, add, r, a, g)
<1> DEFINE d == Derived(db, add, r, a, g)
           count == Cardinality(ItemsOf(db.item, "album", a))
           albums == Cardinality({db.item[p].album : p \in ItemsOf(db.item, "artist", r)})
           cover == IF add.art /\ db.album[a].art = 0 THEN add.pid ELSE db.album[a].art
           shown == IF add.art /\ db.artist[r].art = 0 THEN a ELSE db.artist[r].art
<1>1. d = [db EXCEPT !.album[a] = [@ EXCEPT !.count = count, !.art = cover],
                     !.artist = [s \in DOMAIN @ |-> IF s # r THEN @[s] ELSE [@[s] EXCEPT !.albums = albums, !.art = shown]],
                     !.genre = [h \in DOMAIN @ |-> IF h = g THEN GenreCounts(@[h], db.item, g) ELSE @[h]],
                     !.size = @ + add.size]
  BY DEF Derived
<1> HIDE DEF d, count, albums, cover, shown
<1>2. /\ DOMAIN d = Tables
      /\ d.item = db.item /\ d.container = db.container /\ d.ui = db.ui /\ d.members = db.members
      /\ d.rows = db.rows /\ d.size = db.size + add.size
  BY <1>1 DEF Tables
<1>3. d.album = [db.album EXCEPT ![a] = [db.album[a] EXCEPT !.count = count, !.art = cover]]
  BY <1>1 DEF Tables
<1>4. d.artist = [s \in DOMAIN db.artist |-> IF s # r THEN db.artist[s] ELSE [db.artist[s] EXCEPT !.albums = albums, !.art = shown]]
  BY <1>1 DEF Tables
<1>5. d.genre = [h \in DOMAIN db.genre |-> IF h = g THEN GenreCounts(db.genre[h], db.item, g) ELSE db.genre[h]]
  BY <1>1 DEF Tables
<1>6. /\ DOMAIN d.album = DOMAIN db.album /\ d.album = [b \in DOMAIN db.album |-> d.album[b]]
      /\ \A b \in DOMAIN db.album : d.album[b] = IF b # a THEN db.album[b] ELSE [db.album[a] EXCEPT !.count = count, !.art = cover]
  BY <1>3
<1>7. /\ DOMAIN d.artist = DOMAIN db.artist /\ d.artist = [s \in DOMAIN db.artist |-> d.artist[s]]
      /\ \A s \in DOMAIN db.artist : d.artist[s] = IF s # r THEN db.artist[s] ELSE [db.artist[r] EXCEPT !.albums = albums, !.art = shown]
  BY <1>4
<1>8. /\ DOMAIN d.genre = DOMAIN db.genre /\ d.genre = [h \in DOMAIN db.genre |-> d.genre[h]]
      /\ \A h \in DOMAIN db.genre : d.genre[h] = IF h # g THEN db.genre[h] ELSE GenreCounts(db.genre[g], db.item, g)
  BY <1>5
<1>9. RowsDerived(db.item, db.album, db.artist, db.genre, d, add, r, a, g)
  BY <1>6, <1>7, <1>8 DEF RowsDerived, count, albums, cover, shown
<1> QED BY <1>2, <1>9 DEF d

\* The row of the added track joins those of its album, artist and genre.
ItemIn(old, new, add, r, a, g) ==
  /\ IsTable(new, ItemRows) /\ DOMAIN new = DOMAIN old \cup {add.pid}
  /\ \A p \in DOMAIN old : new[p] = old[p]
  /\ new[add.pid].album = a /\ new[add.pid].artist = r /\ new[add.pid].genre = g
  /\ new[add.pid].art = add.art /\ new[add.pid].size = add.size

\* The inserted row is one, whatever its order and rank.
LEMMA ItemAdded ==
  ASSUME NEW db, Typed(db), NEW add \in AdditionRows, add.pid # 0, add.pid \notin DOMAIN db.item,
         NEW r \in Nat, NEW a \in Nat, NEW g \in Nat
  PROVE  ItemIn(db.item, Inserted(db.item, add.pid, ItemRow(db, add, r, a, g)), add, r, a, g)
<1> DEFINE row == ItemRow(db, add, r, a, g)
           keys == {db.item[p].key : p \in DOMAIN db.item}
           ends == {db.item[p].order + 1 : p \in DOMAIN db.item}
<1>1. IsFiniteSet(DOMAIN db.item) /\ \A p \in DOMAIN db.item : db.item[p].order \in Nat
  BY DEF Typed, IsTable, ItemRows
<1>2. Rank(SortKey[add.artist], keys) \in Nat
  <2>1. IsFiniteSet(keys)
    BY KeysAreNats
  <2> HIDE DEF keys
  <2> QED BY <2>1, RankIsNat
<1>3. Max(ends \cup {0}) \in Nat
  <2> DEFINE f == [p \in DOMAIN db.item |-> db.item[p].order + 1]
  <2>1. IsFiniteSet({f[p] : p \in DOMAIN f})
    BY <1>1, ImageIsFinite
  <2>2. IsFiniteSet(ends)
    BY <2>1
  <2>5. ends \in SUBSET Nat
    BY <1>1
  <2> HIDE DEF ends
  <2>3. IsFiniteSet(ends \cup {0}) /\ ends \cup {0} \in SUBSET Nat
    BY <2>2, <2>5, FS_AddElement
  <2>4. Max(ends \cup {0}) \in ends \cup {0}
    BY <2>3, MaxOfNats
  <2> QED BY <2>3, <2>4
<1>4. StoredKey[add.artist] \in Nat
  BY NamesAssumption DEF AdditionRows
<1>5. row = [album |-> a, artist |-> r, genre |-> g, art |-> add.art, size |-> add.size,
             order |-> Max(ends \cup {0}), key |-> StoredKey[add.artist], artistOrder |-> Rank(SortKey[add.artist], keys)]
  BY DEF ItemRow, ItemOrder
<1> HIDE DEF keys, ends, row
<1>6. row \in ItemRows /\ row.album = a /\ row.artist = r /\ row.genre = g /\ row.art = add.art /\ row.size = add.size
  BY <1>2, <1>3, <1>4, <1>5 DEF ItemRows, AdditionRows
<1>7. add.pid \in Nat \ {0}
  BY DEF AdditionRows
<1>8. IsTable(Inserted(db.item, add.pid, row), ItemRows)
  BY <1>6, <1>7, InsertedTable DEF Typed
<1>9. /\ DOMAIN Inserted(db.item, add.pid, row) = DOMAIN db.item \cup {add.pid}
      /\ Inserted(db.item, add.pid, row)[add.pid] = row
      /\ \A p \in DOMAIN db.item : Inserted(db.item, add.pid, row)[p] = db.item[p]
  BY DEF Inserted
<1> QED BY <1>6, <1>8, <1>9 DEF ItemIn, row

\* Everything an addition does, table by table.
TrackIn(db, d, add, r, a, g) ==
  /\ ItemIn(db.item, d.item, add, r, a, g)
  /\ \E album, artist, genre :
       /\ AlbumIn(db.album, album, a, add.album, r) /\ ArtistIn(db.artist, artist, r, add.artist)
       /\ GenreIn(db.genre, genre, g)
       /\ RowsDerived(d.item, album, artist, genre, d, add, r, a, g)
  /\ DOMAIN d = Tables /\ Lists(d, DOMAIN d.item) /\ d.size = db.size + add.size
  /\ d.rows = db.rows \cup (CompanionRows(add.podcast) \X {add.pid})
  /\ \A row \in d.rows : row[2] \in DOMAIN d.item
  /\ d.container = ListedIn(db, add.pid, add.podcast).container
  /\ d.members = ListedIn(db, add.pid, add.podcast).members

\* The lists of an addition depend on the lists only.
LEMMA SameListedIn ==
  ASSUME NEW db, DOMAIN db = Tables, NEW d, DOMAIN d = Tables,
         d.container = db.container, d.members = db.members, NEW p, NEW podcast
  PROVE  /\ ListedIn(d, p, podcast).container = ListedIn(db, p, podcast).container
         /\ ListedIn(d, p, podcast).members = ListedIn(db, p, podcast).members
<1>1. ASSUME NEW x, NEW y, DOMAIN x = Tables, DOMAIN y = Tables, NEW c,
             x.container = y.container, x.members = y.members
      PROVE  /\ DOMAIN Joined(x, p, c) = Tables /\ DOMAIN Joined(y, p, c) = Tables
             /\ Joined(x, p, c).container = Joined(y, p, c).container /\ Joined(x, p, c).members = Joined(y, p, c).members
  <2> DEFINE row == [container |-> c, item |-> p, order |-> Max({m.order + 1 : m \in MembersOf(y, c)} \cup {0})]
  <2>1. MembersOf(x, c) = MembersOf(y, c)
    BY <1>1 DEF MembersOf
  <2>2. Joined(x, p, c) = [x EXCEPT !.members = @ \cup {row}] /\ Joined(y, p, c) = [y EXCEPT !.members = @ \cup {row}]
    BY <2>1 DEF Joined
  <2> HIDE DEF row
  <2> QED BY <1>1, <2>2 DEF Tables
<1>2. ASSUME NEW x, NEW y, DOMAIN x = Tables, DOMAIN y = Tables,
             x.container = y.container, x.members = y.members
      PROVE  /\ PodcastContainer(x) = PodcastContainer(y)
             /\ DOMAIN WithPodcastList(x) = Tables /\ DOMAIN WithPodcastList(y) = Tables
             /\ WithPodcastList(x).container = WithPodcastList(y).container
             /\ WithPodcastList(x).members = WithPodcastList(y).members
  <2>1. PodcastLists(x) = PodcastLists(y) /\ PodcastContainer(x) = PodcastContainer(y)
    BY <1>2 DEF PodcastLists, PodcastContainer
  <2> DEFINE row == Container("Podcasts", TRUE, "podcasts")
  <2>2. WithPodcastList(x) = IF PodcastLists(y) # {} THEN x
                             ELSE [x EXCEPT !.container = Inserted(@, PodcastList, row), !.ui = @ \cup {PodcastList}]
    BY <2>1 DEF WithPodcastList
  <2>3. WithPodcastList(y) = IF PodcastLists(y) # {} THEN y
                             ELSE [y EXCEPT !.container = Inserted(@, PodcastList, row), !.ui = @ \cup {PodcastList}]
    BY DEF WithPodcastList
  <2> HIDE DEF row
  <2> QED BY <1>2, <2>1, <2>2, <2>3 DEF Tables
<1> DEFINE j(x) == Joined(x, p, MasterList)
           w(x) == WithPodcastList(j(x))
           k(x) == Joined(w(x), p, PodcastContainer(x))
<1>3. ListedIn(d, p, podcast) = (IF podcast THEN k(d) ELSE j(d)) /\ ListedIn(db, p, podcast) = (IF podcast THEN k(db) ELSE j(db))
  BY DEF ListedIn
<1>4. DOMAIN j(d) = Tables /\ DOMAIN j(db) = Tables /\ j(d).container = j(db).container /\ j(d).members = j(db).members
  BY <1>1
<1>5. /\ DOMAIN w(d) = Tables /\ DOMAIN w(db) = Tables
      /\ w(d).container = w(db).container /\ w(d).members = w(db).members
  <2> HIDE DEF j
  <2> QED BY <1>2, <1>4
<1>6. PodcastContainer(d) = PodcastContainer(db)
  BY <1>2
<1>7. k(d).container = k(db).container /\ k(d).members = k(db).members
  <2> HIDE DEF w
  <2> QED BY <1>1, <1>5, <1>6
<1> HIDE DEF j, k
<1> QED BY <1>3, <1>4, <1>7

\* insert_track, from the lookups to the derived rows, does that.
LEMMA AddedTrack ==
  ASSUME NEW db, Consistent(db), NEW add \in AdditionRows, Addable(db, add)
  PROVE  \E r, g \in Nat, a \in Nat \ {0} : TrackIn(db, Added(db, add), add, r, a, g)
<1> DEFINE r  == ResolvedArtist(db, add.artist)
           d1 == WithArtist(db, r, add.artist)
           a  == ResolvedAlbum(d1, add.album, r)
           d2 == WithAlbum(d1, a, add.album, r)
           g  == ResolvedGenre(d2, add.genre)
           d3 == WithGenre(d2, g, add.genre)
           items == Inserted(db.item, add.pid, ItemRow(db, add, r, a, g))
           rows == db.rows \cup (CompanionRows(add.podcast) \X {add.pid})
           d4 == [d3 EXCEPT !.item = Inserted(@, add.pid, ItemRow(db, add, r, a, g)),
                            !.rows = @ \cup (CompanionRows(add.podcast) \X {add.pid})]
           d5 == ListedIn(d4, add.pid, add.podcast)
           d6 == Derived(d5, add, r, a, g)
<1>1. add.artist \in Names /\ add.album \in Names /\ add.genre \in Names /\ add.pid \in Nat
  BY DEF AdditionRows
<1>2. add.pid # 0 /\ add.pid \notin DOMAIN db.item /\ (a \in DOMAIN d1.album \/ r \in DOMAIN d1.artist)
  BY DEF Addable
<1>3. Typed(db) /\ References(db) /\ Coherent(db)
  BY DEF Consistent
<1>4. /\ Typed(d1) /\ ArtistIn(db.artist, d1.artist, r, add.artist) /\ r \in Nat
      /\ d1.item = db.item /\ d1.album = db.album /\ d1.genre = db.genre /\ d1.container = db.container
      /\ d1.ui = db.ui /\ d1.members = db.members /\ d1.rows = db.rows /\ d1.size = db.size
  BY <1>1, <1>3, ArtistResolved
<1>5. Added(db, add) = d6
  BY DEF Added
<1> HIDE DEF r, d1
<1>6. /\ Typed(d2) /\ AlbumIn(db.album, d2.album, a, add.album, r)
      /\ d2.item = db.item /\ d2.artist = d1.artist /\ d2.genre = db.genre /\ d2.container = db.container
      /\ d2.ui = db.ui /\ d2.members = db.members /\ d2.rows = db.rows /\ d2.size = db.size
  BY <1>1, <1>2, <1>4, AlbumResolved
<1> HIDE DEF a, d2
<1>7. /\ Typed(d3) /\ GenreIn(db.genre, d3.genre, g) /\ g \in Nat
      /\ d3.item = db.item /\ d3.artist = d1.artist /\ d3.album = d2.album /\ d3.container = db.container
      /\ d3.ui = db.ui /\ d3.members = db.members /\ d3.rows = db.rows /\ d3.size = db.size
  BY <1>1, <1>6, GenreResolved
<1> HIDE DEF g, d3
<1>8. a \in Nat \ {0} /\ a \in DOMAIN d2.album
  BY <1>6 DEF AlbumIn, IsTable
<1>9. ItemIn(db.item, items, add, r, a, g)
  BY <1>2, <1>3, <1>4, <1>7, <1>8, ItemAdded
<1>10. /\ DOMAIN d4 = Tables /\ d4.item = items /\ d4.rows = rows
       /\ d4.artist = d1.artist /\ d4.album = d2.album /\ d4.genre = d3.genre /\ d4.container = db.container
       /\ d4.ui = db.ui /\ d4.members = db.members /\ d4.size = db.size
  BY <1>7 DEF Typed, Tables
<1> HIDE DEF items, rows, d4
<1>11. Lists(d4, DOMAIN items) /\ add.pid \in DOMAIN items
  <2>1. Lists(db, DOMAIN db.item)
    BY <1>3, ConsistentLists
  <2>2. DOMAIN items = DOMAIN db.item \cup {add.pid}
    BY <1>9 DEF ItemIn
  <2> QED BY <1>10, <2>1, <2>2 DEF Lists
<1>12. SameTracks(d4, d5) /\ Lists(d5, DOMAIN items)
  BY <1>10, <1>11, ListedLists
<1> HIDE DEF d5
<1>13. DOMAIN d5 = Tables /\ d5.item = items /\ d5.rows = rows /\ d5.artist = d1.artist /\ d5.album = d2.album
       /\ d5.genre = d3.genre /\ d5.size = db.size
  BY <1>10, <1>12 DEF SameTracks
<1>14. /\ DOMAIN d6 = Tables
       /\ d6.item = items /\ d6.container = d5.container /\ d6.ui = d5.ui /\ d6.members = d5.members
       /\ d6.rows = rows /\ d6.size = db.size + add.size
       /\ RowsDerived(items, d2.album, d1.artist, d3.genre, d6, add, r, a, g)
  BY <1>8, <1>13, DerivedRows
<1> HIDE DEF d6
<1>15. Lists(d6, DOMAIN items)
  BY <1>12, <1>14 DEF Lists
<1>16. \A row \in rows : row[2] \in DOMAIN items
  BY <1>3, <1>9 DEF rows, References, ItemIn
<1>17. /\ d6.container = ListedIn(db, add.pid, add.podcast).container
       /\ d6.members = ListedIn(db, add.pid, add.podcast).members
  <2>1. DOMAIN db = Tables
    BY <1>3 DEF Typed
  <2>2. d5.container = ListedIn(db, add.pid, add.podcast).container
        /\ d5.members = ListedIn(db, add.pid, add.podcast).members
    BY <1>10, <2>1, SameListedIn DEF d5
  <2> QED BY <1>14, <2>2
<1>18. d6.rows = db.rows \cup (CompanionRows(add.podcast) \X {add.pid})
  BY <1>14 DEF rows
<1>19. TrackIn(db, d6, add, r, a, g)
  BY <1>4, <1>6, <1>7, <1>9, <1>14, <1>15, <1>16, <1>17, <1>18 DEF TrackIn
<1> QED BY <1>4, <1>5, <1>7, <1>8, <1>19

\* A library with the track in is sound again, but for its orders.
LEMMA TrackInIsConsistent ==
  ASSUME NEW db, Consistent(db), NEW add \in AdditionRows, add.pid # 0, add.pid \notin DOMAIN db.item,
         NEW d, NEW r \in Nat, NEW g \in Nat, NEW a \in Nat \ {0}, TrackIn(db, d, add, r, a, g)
  PROVE  Consistent(d)
<1> DEFINE p == add.pid
           items == d.item
<1>1. PICK album, artist, genre :
        /\ AlbumIn(db.album, album, a, add.album, r) /\ ArtistIn(db.artist, artist, r, add.artist)
        /\ GenreIn(db.genre, genre, g) /\ RowsDerived(items, album, artist, genre, d, add, r, a, g)
  BY DEF TrackIn
<1>2. /\ IsTable(items, ItemRows) /\ DOMAIN items = DOMAIN db.item \cup {p}
      /\ \A q \in DOMAIN db.item : items[q] = db.item[q]
      /\ items[p].album = a /\ items[p].artist = r /\ items[p].genre = g
      /\ items[p].art = add.art /\ items[p].size = add.size
  BY DEF TrackIn, ItemIn
<1>3. /\ DOMAIN d = Tables /\ Lists(d, DOMAIN items) /\ d.size = db.size + add.size
      /\ \A row \in d.rows : row[2] \in DOMAIN items
  BY DEF TrackIn
<1>4. p \in Nat \ {0} /\ p \notin DOMAIN db.item /\ add.size \in Nat /\ add.art \in BOOLEAN
  BY DEF AdditionRows
<1>5. Typed(db) /\ References(db) /\ Counts(db) /\ Earned(db) /\ Coherent(db)
  BY DEF Consistent
<1> HIDE DEF items, p
\* Which tracks the aggregates have.
<1>6. \A k : /\ ItemsOf(items, "album", k) = ItemsOf(db.item, "album", k) \cup (IF k = a THEN {p} ELSE {})
             /\ ItemsOf(items, "artist", k) = ItemsOf(db.item, "artist", k) \cup (IF k = r THEN {p} ELSE {})
             /\ ItemsOf(items, "genre", k) = ItemsOf(db.item, "genre", k) \cup (IF k = g THEN {p} ELSE {})
  <2>1. \A k : ItemsOf(items, "album", k) = ItemsOf(db.item, "album", k) \cup (IF k = a THEN {p} ELSE {})
    BY <1>2 DEF ItemsOf
  <2>2. \A k : ItemsOf(items, "artist", k) = ItemsOf(db.item, "artist", k) \cup (IF k = r THEN {p} ELSE {})
    BY <1>2 DEF ItemsOf
  <2>3. \A k : ItemsOf(items, "genre", k) = ItemsOf(db.item, "genre", k) \cup (IF k = g THEN {p} ELSE {})
    BY <1>2 DEF ItemsOf
  <2> QED BY <2>1, <2>2, <2>3
<1>7. \A k : /\ ItemsOf(items, "album", k) \subseteq DOMAIN items /\ ItemsOf(items, "artist", k) \subseteq DOMAIN items
             /\ ItemsOf(items, "genre", k) \subseteq DOMAIN items
             /\ ItemsOf(db.item, "album", k) \subseteq DOMAIN db.item /\ ItemsOf(db.item, "artist", k) \subseteq DOMAIN db.item
             /\ ItemsOf(db.item, "genre", k) \subseteq DOMAIN db.item
  BY ItemsAreItems
<1> DEFINE count == Cardinality(ItemsOf(items, "album", a))
           albums == Cardinality({items[q].album : q \in ItemsOf(items, "artist", r)})
           cover == IF add.art /\ album[a].art = 0 THEN p ELSE album[a].art
           shown == IF add.art /\ artist[r].art = 0 THEN a ELSE artist[r].art
<1>8. count \in Nat /\ albums \in Nat
  <2>1. count \in Nat
    BY <1>2, <1>7, CountIsNat DEF IsTable
  <2>2. albums \in Nat
    <3>1. IsTable(items, ItemRows) /\ ItemsOf(items, "artist", r) \in SUBSET (DOMAIN items)
      BY <1>2, <1>7
    <3> QED BY <3>1, ValuesAreCounted
  <2> QED BY <2>1, <2>2
<1>9. /\ DOMAIN d.album = DOMAIN album /\ DOMAIN d.artist = DOMAIN artist /\ DOMAIN d.genre = DOMAIN genre
      /\ \A b \in DOMAIN album : d.album[b] = IF b # a THEN album[b] ELSE [album[a] EXCEPT !.count = count, !.art = cover]
      /\ \A s \in DOMAIN artist : d.artist[s] = IF s # r THEN artist[s] ELSE [artist[r] EXCEPT !.albums = albums, !.art = shown]
      /\ \A h \in DOMAIN genre : d.genre[h] = IF h # g THEN genre[h] ELSE GenreCounts(genre[g], items, g)
  BY <1>1 DEF RowsDerived, p
<1>10. /\ IsTable(album, AlbumRows) /\ DOMAIN album = DOMAIN db.album \cup {a} /\ album[a].artist = r
       /\ \A b \in DOMAIN db.album : album[b] = db.album[b]
       /\ a \notin DOMAIN db.album => album[a].art = 0 /\ album[a].name = add.album
       /\ a \notin DOMAIN db.album =>
            \A b \in DOMAIN db.album : db.album[b].artist = r => SortKey[db.album[b].name] # SortKey[add.album]
  BY <1>1 DEF AlbumIn
<1>11. /\ IsTable(artist, ArtistRows) /\ DOMAIN artist = DOMAIN db.artist \cup ({r} \ {0})
       /\ \A s \in DOMAIN db.artist : artist[s] = db.artist[s]
       /\ r # 0 /\ r \notin DOMAIN db.artist => artist[r].art = 0 /\ artist[r].name = add.artist
       /\ r # 0 /\ r \notin DOMAIN db.artist => \A s \in DOMAIN db.artist : SortKey[db.artist[s].name] # SortKey[add.artist]
  BY <1>1 DEF ArtistIn
<1>12. /\ IsTable(genre, GenreRows) /\ DOMAIN genre = DOMAIN db.genre \cup ({g} \ {0})
       /\ \A h \in DOMAIN db.genre : genre[h] = db.genre[h]
  BY <1>1 DEF GenreIn
<1>13. /\ d.album[a] \in AlbumRows /\ d.album[a].artist = r /\ d.album[a].name = album[a].name
       /\ d.album[a].count = count /\ d.album[a].art = cover
  <2>1. album[a] \in AlbumRows
    BY <1>10 DEF IsTable
  <2>2. cover \in Nat
    BY <1>4, <2>1 DEF AlbumRows
  <2>3. d.album[a] = [album[a] EXCEPT !.count = count, !.art = cover]
    BY <1>9, <1>10
  <2> HIDE DEF count, cover
  <2> QED BY <1>8, <1>10, <2>1, <2>2, <2>3 DEF AlbumRows
<1>14. ASSUME r # 0
       PROVE  /\ d.artist[r] \in ArtistRows /\ d.artist[r].name = artist[r].name
              /\ d.artist[r].albums = albums /\ d.artist[r].art = shown
  <2>1. artist[r] \in ArtistRows
    BY <1>11, <1>14 DEF IsTable
  <2>2. shown \in Nat
    BY <2>1 DEF ArtistRows
  <2>3. d.artist[r] = [artist[r] EXCEPT !.albums = albums, !.art = shown]
    BY <1>9, <1>11, <1>14
  <2> HIDE DEF albums, shown
  <2> QED BY <1>8, <2>1, <2>2, <2>3 DEF ArtistRows
<1>15. ASSUME g # 0 PROVE d.genre[g] \in GenreRows /\ d.genre[g] = GenreCounts(d.genre[g], items, g)
  <2> DEFINE ca == Cardinality({items[q].album : q \in ItemsOf(items, "genre", g)})
             cr == Cardinality({items[q].artist : q \in ItemsOf(items, "genre", g)})
  <2>1. genre[g] \in GenreRows
    BY <1>12, <1>15 DEF IsTable
  <2>2. ca \in Nat /\ cr \in Nat
    <3>1. IsTable(items, ItemRows) /\ ItemsOf(items, "genre", g) \in SUBSET (DOMAIN items)
      BY <1>2, <1>7
    <3> QED BY <3>1, ValuesAreCounted
  <2>3. \A row : GenreCounts(row, items, g) = [row EXCEPT !.albums = ca, !.artists = cr]
    BY DEF GenreCounts
  <2>4. d.genre[g] = GenreCounts(genre[g], items, g)
    BY <1>9, <1>12, <1>15
  <2> HIDE DEF ca, cr
  <2>5. d.genre[g] = [genre[g] EXCEPT !.albums = ca, !.artists = cr]
    BY <2>3, <2>4
  <2>6. d.genre[g] \in GenreRows /\ [d.genre[g] EXCEPT !.albums = ca, !.artists = cr] = d.genre[g]
    BY <2>1, <2>2, <2>5 DEF GenreRows
  <2> QED BY <2>3, <2>6
<1>16. /\ \A b \in DOMAIN db.album : b # a => d.album[b] = db.album[b]
       /\ \A s \in DOMAIN db.artist : s # r => d.artist[s] = db.artist[s]
       /\ \A h \in DOMAIN db.genre : h # g => d.genre[h] = db.genre[h]
  <2>1. \A b \in DOMAIN db.album : b # a => d.album[b] = db.album[b]
    BY <1>9, <1>10
  <2>2. \A s \in DOMAIN db.artist : s # r => d.artist[s] = db.artist[s]
    BY <1>9, <1>11
  <2>3. \A h \in DOMAIN db.genre : h # g => d.genre[h] = db.genre[h]
    BY <1>9, <1>12
  <2> QED BY <2>1, <2>2, <2>3
<1>17. 0 \notin DOMAIN db.artist /\ 0 \notin DOMAIN db.genre /\ 0 \notin DOMAIN db.album
  BY <1>5 DEF Typed, IsTable
<1> HIDE DEF count, albums
<1>18. Typed(d)
  <2>1. IsTable(d.album, AlbumRows)
    <3>1. \A b \in DOMAIN album : d.album[b] \in AlbumRows
      BY <1>9, <1>10, <1>13 DEF IsTable
    <3>2. d.album = [b \in DOMAIN album |-> d.album[b]]
      BY <1>1 DEF RowsDerived
    <3>3. d.album \in [DOMAIN album -> AlbumRows]
      BY <3>1, <3>2
    <3> QED BY <1>9, <1>10, <3>3 DEF IsTable
  <2>2. IsTable(d.artist, ArtistRows)
    <3>1. \A s \in DOMAIN artist : d.artist[s] \in ArtistRows
      <4>1. 0 \notin DOMAIN artist
        BY <1>11 DEF IsTable
      <4> QED BY <1>9, <1>11, <1>14, <4>1 DEF IsTable
    <3>2. d.artist = [s \in DOMAIN artist |-> d.artist[s]]
      BY <1>1 DEF RowsDerived
    <3>3. d.artist \in [DOMAIN artist -> ArtistRows]
      BY <3>1, <3>2
    <3> QED BY <1>9, <1>11, <3>3 DEF IsTable
  <2>3. IsTable(d.genre, GenreRows)
    <3>1. \A h \in DOMAIN genre : d.genre[h] \in GenreRows
      <4>1. 0 \notin DOMAIN genre
        BY <1>12 DEF IsTable
      <4> QED BY <1>9, <1>12, <1>15, <4>1 DEF IsTable
    <3>2. d.genre = [h \in DOMAIN genre |-> d.genre[h]]
      BY <1>1 DEF RowsDerived
    <3>3. d.genre \in [DOMAIN genre -> GenreRows]
      BY <3>1, <3>2
    <3> QED BY <1>9, <1>12, <3>3 DEF IsTable
  <2> QED BY <1>2, <1>3, <2>1, <2>2, <2>3 DEF Typed, Lists, items
<1>19. References(d)
  <2>1. ASSUME NEW q \in DOMAIN items
        PROVE  /\ items[q].album \in DOMAIN d.album /\ items[q].artist \in DOMAIN d.artist \cup {0}
               /\ items[q].genre \in DOMAIN d.genre \cup {0}
    <3>1. CASE q = p
      BY <1>2, <1>9, <1>10, <1>11, <1>12, <3>1
    <3>2. CASE q # p
      <4>1. /\ db.item[q].album \in DOMAIN db.album /\ db.item[q].artist \in DOMAIN db.artist \cup {0}
            /\ db.item[q].genre \in DOMAIN db.genre \cup {0} /\ items[q] = db.item[q]
        BY <1>2, <1>5, <3>2 DEF References
      <4> QED BY <1>9, <1>10, <1>11, <1>12, <4>1
    <3> QED BY <3>1, <3>2
  <2>2. ASSUME NEW b \in DOMAIN d.album
        PROVE  /\ d.album[b].artist \in DOMAIN d.artist \cup {0}
               /\ d.album[b].art # 0 => d.album[b].art \in {q \in ItemsOf(items, "album", b) : items[q].art}
    <3>1. b \in DOMAIN db.album => 
            /\ db.album[b].artist \in DOMAIN db.artist \cup {0}
            /\ db.album[b].art # 0 => db.album[b].art \in {q \in ItemsOf(db.item, "album", b) : db.item[q].art}
      BY <1>5 DEF References
    <3>2. b \in DOMAIN db.album =>
            {q \in ItemsOf(db.item, "album", b) : db.item[q].art} \subseteq {q \in ItemsOf(items, "album", b) : items[q].art}
      BY <1>2, <1>6, <1>7
    <3>3. CASE b # a
      <4>1. b \in DOMAIN db.album /\ d.album[b] = db.album[b]
        BY <1>9, <1>10, <1>16, <3>3
      <4> QED BY <1>9, <1>11, <3>1, <3>2, <4>1
    <3>4. CASE b = a
      <4>1. d.album[b].artist \in DOMAIN d.artist \cup {0}
        BY <1>9, <1>11, <1>13, <3>4
      <4>2. CASE add.art /\ album[a].art = 0
        <5>1. p \in ItemsOf(items, "album", a) /\ items[p].art /\ cover = p
          BY <1>2, <1>6, <4>2
        <5> QED BY <1>13, <3>4, <4>1, <5>1
      <4>3. CASE ~ (add.art /\ album[a].art = 0)
        <5>1. d.album[b].art = album[a].art
          BY <1>13, <3>4, <4>3
        <5>2. album[a].art # 0 => a \in DOMAIN db.album /\ album[a].art = db.album[a].art
          BY <1>10
        <5> QED BY <3>1, <3>2, <3>4, <4>1, <5>1, <5>2
      <4> QED BY <4>2, <4>3
    <3> QED BY <3>3, <3>4
  <2>3. ASSUME NEW s \in DOMAIN d.artist, NEW b, b = d.artist[s].art, b # 0
        PROVE  b \in DOMAIN d.album /\ d.album[b].artist = s /\ d.album[b].art # 0
    <3>1. ASSUME s \in DOMAIN db.artist, b = db.artist[s].art
          PROVE  b \in DOMAIN d.album /\ d.album[b].artist = s /\ d.album[b].art # 0
      <4>1. b \in DOMAIN db.album /\ db.album[b].artist = s /\ db.album[b].art # 0
        BY <1>5, <2>3, <3>1 DEF References
      <4>2. CASE b # a
        BY <1>9, <1>10, <1>16, <4>1, <4>2
      <4>3. CASE b = a
        BY <1>9, <1>10, <1>13, <4>1, <4>3
      <4> QED BY <4>2, <4>3
    <3>2. CASE s # r
      <4>1. s \in DOMAIN db.artist /\ d.artist[s] = db.artist[s]
        BY <1>9, <1>11, <1>16, <3>2
      <4> QED BY <2>3, <3>1, <4>1
    <3>3. CASE s = r
      <4>1. r # 0
        BY <1>9, <1>11, <1>17, <3>3
      <4>2. b = shown
        BY <1>14, <2>3, <3>3, <4>1
      <4>3. CASE add.art /\ artist[r].art = 0
        <5>1. b = a
          BY <4>2, <4>3
        <5>2. cover # 0
          BY <1>4, <4>3
        <5> QED BY <1>9, <1>10, <1>13, <3>3, <5>1, <5>2
      <4>4. CASE ~ (add.art /\ artist[r].art = 0)
        <5>1. b = artist[r].art
          BY <4>2, <4>4
        <5>2. r \in DOMAIN db.artist /\ b = db.artist[r].art
          BY <1>11, <2>3, <4>1, <5>1
        <5> QED BY <3>1, <3>3, <5>2
      <4> QED BY <4>3, <4>4
    <3> QED BY <3>2, <3>3
  <2> QED BY <1>3, <2>1, <2>2, <2>3 DEF References, Lists, items
<1>20. Counts(d)
  <2>1. ASSUME NEW b \in DOMAIN d.album PROVE d.album[b].count = Cardinality(ItemsOf(items, "album", b))
    <3>1. CASE b # a
      <4>1. b \in DOMAIN db.album
        BY <1>9, <1>10, <3>1
      <4>2. d.album[b] = db.album[b]
        BY <1>16, <4>1, <3>1
      <4>3. ItemsOf(items, "album", b) = ItemsOf(db.item, "album", b)
        BY <1>6, <3>1
      <4> QED BY <1>5, <4>1, <4>2, <4>3 DEF Counts
    <3>2. CASE b = a
      BY <1>13, <3>2 DEF count
    <3> QED BY <3>1, <3>2
  <2>2. ASSUME NEW s \in DOMAIN d.artist
        PROVE  d.artist[s].albums = Cardinality({items[q].album : q \in ItemsOf(items, "artist", s)})
    <3>1. CASE s # r
      <4>1. s \in DOMAIN db.artist
        BY <1>9, <1>11, <3>1
      <4>2. d.artist[s] = db.artist[s]
        BY <1>16, <4>1, <3>1
      <4>3. ItemsOf(items, "artist", s) = ItemsOf(db.item, "artist", s)
        BY <1>6, <3>1
      <4>4. {items[q].album : q \in ItemsOf(items, "artist", s)} = {db.item[q].album : q \in ItemsOf(db.item, "artist", s)}
        BY <1>2, <1>7, <4>1, <4>2, <4>3
      <4> QED BY <1>5, <4>1, <4>2, <4>3, <4>4 DEF Counts
    <3>2. CASE s = r
      <4>1. r # 0
        BY <1>9, <1>11, <1>17, <3>2
      <4> QED BY <1>14, <3>2, <4>1 DEF albums
    <3> QED BY <3>1, <3>2
  <2>3. ASSUME NEW h \in DOMAIN d.genre PROVE d.genre[h] = GenreCounts(d.genre[h], items, h)
    <3>1. CASE h # g
      <4>1. h \in DOMAIN db.genre
        BY <1>9, <1>12, <3>1
      <4>2. d.genre[h] = db.genre[h]
        BY <1>16, <4>1, <3>1
      <4>3. ItemsOf(items, "genre", h) = ItemsOf(db.item, "genre", h)
        BY <1>6, <3>1
      <4>4. /\ {items[q].album : q \in ItemsOf(items, "genre", h)} = {db.item[q].album : q \in ItemsOf(db.item, "genre", h)}
            /\ {items[q].artist : q \in ItemsOf(items, "genre", h)} = {db.item[q].artist : q \in ItemsOf(db.item, "genre", h)}
        BY <1>2, <1>7, <4>1, <4>2, <4>3
      <4>5. GenreCounts(d.genre[h], items, h) = GenreCounts(db.genre[h], db.item, h)
        BY <4>1, <4>2, <4>3, <4>4 DEF GenreCounts
      <4> QED BY <1>5, <4>1, <4>2, <4>3, <4>5 DEF Counts
    <3>2. CASE h = g
      <4>1. g # 0
        BY <1>9, <1>12, <1>17, <3>2
      <4> QED BY <1>15, <3>2, <4>1
    <3> QED BY <3>1, <3>2
  <2>4. d.size = SizeOf(items)
    <3>1. Sized(items)
      BY <1>2 DEF Sized, IsTable, ItemRows
    <3>2. SizeOf(items) = SizeOf(db.item) + items[p].size
      BY <1>2, <1>4, <3>1, SizeOfAdded
    <3>3. db.size = SizeOf(db.item)
      BY <1>5 DEF Counts
    <3> QED BY <1>2, <1>3, <3>2, <3>3
  <2> QED BY <2>1, <2>2, <2>3, <2>4 DEF Counts, items
<1>21. Earned(d)
  <2>1. \A b \in DOMAIN d.album : ItemsOf(items, "album", b) # {}
    BY <1>5, <1>6, <1>9, <1>10 DEF Earned
  <2>2. \A s \in DOMAIN d.artist : ItemsOf(items, "artist", s) # {}
    BY <1>5, <1>6, <1>9, <1>11 DEF Earned
  <2>3. \A h \in DOMAIN d.genre : ItemsOf(items, "genre", h) # {}
    BY <1>5, <1>6, <1>9, <1>12 DEF Earned
  <2>4. ASSUME NEW s \in DOMAIN d.artist PROVE d.artist[s].name = artist[s].name
    BY <1>9, <1>11, <1>14, <1>17
  <2>5. ASSUME NEW s \in DOMAIN artist, NEW t \in DOMAIN artist, SortKey[artist[s].name] = SortKey[artist[t].name]
        PROVE  s = t
    BY <1>5, <1>11, <2>5 DEF Earned
  <2>6. ASSUME NEW b \in DOMAIN d.album PROVE d.album[b].name = album[b].name /\ d.album[b].artist = album[b].artist
    BY <1>9, <1>10, <1>13
  <2>7. ASSUME NEW b \in DOMAIN album, NEW c \in DOMAIN album, SortKey[album[b].name] = SortKey[album[c].name],
               album[b].artist = album[c].artist
        PROVE  b = c
    BY <1>5, <1>10, <2>7 DEF Earned
  <2> QED BY <1>9, <2>1, <2>2, <2>3, <2>4, <2>5, <2>6, <2>7 DEF Earned, items
<1>22. Coherent(d)
  <2>1. ASSUME NEW q \in DOMAIN items PROVE items[q].artist = d.album[items[q].album].artist
    <3>1. CASE q = p
      BY <1>2, <1>13, <3>1
    <3>2. CASE q # p
      <4>1. q \in DOMAIN db.item /\ items[q] = db.item[q]
        BY <1>2, <3>2
      <4>2. db.item[q].album \in DOMAIN db.album /\ db.item[q].artist = db.album[db.item[q].album].artist
        BY <1>5, <4>1 DEF References, Coherent
      <4>3. d.album[db.item[q].album].artist = db.album[db.item[q].album].artist
        BY <1>10, <1>13, <1>16, <4>2
      <4> QED BY <4>1, <4>2, <4>3
    <3> QED BY <3>1, <3>2
  <2> QED BY <1>3, <2>1 DEF Coherent, Lists, items
<1> QED BY <1>18, <1>19, <1>20, <1>21, <1>22 DEF Consistent

\* One addition keeps the library sound, but for its orders.
LEMMA AddedIsConsistent ==
  ASSUME NEW db, Consistent(db), NEW add \in AdditionRows, Addable(db, add)
  PROVE  Consistent(Added(db, add))
<1>1. PICK r \in Nat, g \in Nat, a \in Nat \ {0} : TrackIn(db, Added(db, add), add, r, a, g)
  BY AddedTrack
<1>2. add.pid # 0 /\ add.pid \notin DOMAIN db.item
  BY DEF Addable
<1> QED BY <1>1, <1>2, TrackInIsConsistent

------------------------------------------------------------------------------
(* Playlists *)

\* Statements that leave the tracks alone keep what is said of them.
LEMMA SameTracksConsistent ==
  ASSUME NEW db, Consistent(db), NEW d, SameTracks(db, d), Lists(d, DOMAIN db.item)
  PROVE  Consistent(d)
<1>1. Typed(db) /\ References(db) /\ Counts(db) /\ Earned(db) /\ Coherent(db)
  BY DEF Consistent
<1>2. /\ DOMAIN d = Tables /\ d.item = db.item /\ d.album = db.album /\ d.artist = db.artist /\ d.genre = db.genre
      /\ d.rows = db.rows /\ d.size = db.size
  BY DEF SameTracks
<1>3. Typed(d)
  BY <1>1, <1>2 DEF Typed, Lists
<1>4. References(d)
  BY <1>1, <1>2 DEF References, Lists
<1>5. Counts(d)
  BY <1>1, <1>2 DEF Counts
<1>6. Earned(d)
  BY <1>1, <1>2 DEF Earned
<1>7. Coherent(d)
  BY <1>1, <1>2 DEF Coherent, Lists
<1> QED BY <1>3, <1>4, <1>5, <1>6, <1>7 DEF Consistent

\* And their orders.
LEMMA SameTracksSorted ==
  ASSUME NEW db, Sorted(db), PlainRanksAgree(db), NEW d, SameTracks(db, d)
  PROVE  Sorted(d) /\ PlainRanksAgree(d)
BY DEF SameTracks, Sorted, PlainRanksAgree, RanksOf, Plain

\* Replacing the members of a playlist by tracks keeps the playlists whole.
LEMMA ReplacedLists ==
  ASSUME NEW db, DOMAIN db = Tables, NEW pids, Lists(db, pids), NEW c \in DOMAIN db.container,
         NEW members, \A i \in DOMAIN members : members[i] \in pids
  PROVE  SameTracks(db, ReplacedMembers(db, c, members)) /\ Lists(ReplacedMembers(db, c, members), pids)
<1> DEFINE d == ReplacedMembers(db, c, members)
           new == {[container |-> c, item |-> members[i], order |-> i - 1] : i \in DOMAIN members}
<1>1. /\ DOMAIN d = Tables /\ d.members = {m \in db.members : m.container # c} \cup new
      /\ d.item = db.item /\ d.album = db.album /\ d.artist = db.artist /\ d.genre = db.genre
      /\ d.rows = db.rows /\ d.size = db.size /\ d.container = db.container /\ d.ui = db.ui
  BY DEF ReplacedMembers, Tables
<1>2. ASSUME NEW m \in new
      PROVE  DOMAIN m = {"container", "item", "order"} /\ m.container = c /\ m.item \in pids
  <2>1. PICK i \in DOMAIN members : m = [container |-> c, item |-> members[i], order |-> i - 1]
    OBVIOUS
  <2> QED BY <2>1
<1> HIDE DEF d, new
<1>3. Lists(d, pids)
  BY <1>1, <1>2 DEF Lists
<1> QED BY <1>1, <1>3 DEF SameTracks, d

\* So does another name.
LEMMA NamedLists ==
  ASSUME NEW db, DOMAIN db = Tables, NEW pids, Lists(db, pids), NEW c \in DOMAIN db.container, NEW name
  PROVE  /\ SameTracks(db, WithName(db, c, name)) /\ Lists(WithName(db, c, name), pids)
         /\ DOMAIN WithName(db, c, name).container = DOMAIN db.container
<1> DEFINE d == WithName(db, c, name)
<1>1. CASE name = NoName
  BY <1>1 DEF WithName, SameTracks
<1>2. CASE name # NoName
  <2>1. d = [db EXCEPT !.container[c].name = name]
    BY <1>2 DEF WithName
  <2>2. /\ DOMAIN d = Tables /\ d.members = db.members /\ d.ui = db.ui
        /\ d.item = db.item /\ d.album = db.album /\ d.artist = db.artist /\ d.genre = db.genre
        /\ d.rows = db.rows /\ d.size = db.size
        /\ d.container = [db.container EXCEPT ![c].name = name]
    BY <2>1 DEF Tables
  <2>3. /\ DOMAIN d.container = DOMAIN db.container
        /\ \A b \in DOMAIN db.container : d.container[b] = IF b = c THEN [db.container[c] EXCEPT !.name = name] ELSE db.container[b]
    BY <2>2
  <2>4. /\ DOMAIN [db.container[c] EXCEPT !.name = name] = DOMAIN db.container[c]
        /\ [db.container[c] EXCEPT !.name = name].hidden = db.container[c].hidden
    BY DEF Lists
  <2> HIDE DEF d
  <2>5. \A b \in DOMAIN db.container :
          DOMAIN d.container[b] = DOMAIN db.container[b] /\ d.container[b].hidden = db.container[b].hidden
    BY <2>3, <2>4
  <2>6. Lists(d, pids)
    BY <2>2, <2>3, <2>5 DEF Lists
  <2> QED BY <2>2, <2>3, <2>6 DEF SameTracks, d
<1> QED BY <1>1, <1>2

\* So does each edit of edit_staged_playlists: the master list cannot be its target.
LEMMA EditedLists ==
  ASSUME NEW db, DOMAIN db = Tables, Lists(db, DOMAIN db.item), NEW c \in Nat \ {0}, NEW want,
         want.op \in {"create", "update", "rename", "delete"}, Applicable(db, c, want)
  PROVE  SameTracks(db, PlaylistEdited(db, c, want)) /\ Lists(PlaylistEdited(db, c, want), DOMAIN db.item)
<1> DEFINE pids == DOMAIN db.item
           e == PlaylistEdited(db, c, want)
<1>1. CASE want.op = "create"
  <2> DEFINE row == Container(want.name, FALSE, "list")
             d == [db EXCEPT !.container = Inserted(@, c, Container(want.name, FALSE, "list")), !.ui = @ \cup {c}]
  <2>1. c \notin DOMAIN db.container /\ MembersExist(db, want.members) /\ e = ReplacedMembers(d, c, want.members)
    BY <1>1 DEF Applicable, PlaylistEdited
  <2>2. /\ DOMAIN d = Tables /\ d.members = db.members /\ d.ui = db.ui \cup {c}
        /\ d.item = db.item /\ d.album = db.album /\ d.artist = db.artist /\ d.genre = db.genre
        /\ d.rows = db.rows /\ d.size = db.size /\ d.container = Inserted(db.container, c, row)
    BY DEF Tables
  <2>3. DOMAIN row = {"name", "hidden", "smart", "kind", "parent"}
    BY DEF Container
  <2> HIDE DEF row, d
  <2>4. /\ DOMAIN d.container = DOMAIN db.container \cup {c} /\ d.container[c] = row
        /\ \A b \in DOMAIN db.container : d.container[b] = db.container[b]
    BY <2>1, <2>2 DEF Inserted
  <2>5. Lists(d, pids)
    BY <2>1, <2>2, <2>3, <2>4 DEF Lists
  <2>6. \A i \in DOMAIN want.members : want.members[i] \in pids
    BY <2>1 DEF MembersExist
  <2>7. SameTracks(d, e) /\ Lists(e, pids)
    BY <2>1, <2>2, <2>4, <2>5, <2>6, ReplacedLists
  <2> QED BY <2>2, <2>7 DEF SameTracks
<1>2. CASE want.op = "update"
  <2> DEFINE d == WithName(db, c, want.name)
  <2>1. c \in DOMAIN db.container /\ MembersExist(db, want.members) /\ e = ReplacedMembers(d, c, want.members)
    BY <1>2 DEF Applicable, PlaylistEdited, Standard
  <2>2. SameTracks(db, d) /\ Lists(d, pids) /\ c \in DOMAIN d.container /\ DOMAIN d = Tables
    BY <2>1, NamedLists DEF SameTracks
  <2>3. \A i \in DOMAIN want.members : want.members[i] \in pids
    BY <2>1 DEF MembersExist
  <2> HIDE DEF d
  <2>4. SameTracks(d, e) /\ Lists(e, pids)
    BY <2>1, <2>2, <2>3, ReplacedLists
  <2> QED BY <2>2, <2>4 DEF SameTracks
<1>3. CASE want.op = "rename"
  <2>1. c \in DOMAIN db.container /\ e = WithName(db, c, want.name)
    BY <1>3 DEF Applicable, PlaylistEdited, Standard
  <2> QED BY <2>1, NamedLists
<1>4. CASE want.op = "delete"
  <2>1. c \in DOMAIN db.container /\ ~db.container[c].hidden
    BY <1>4 DEF Applicable, Standard
  <2>2. e = [db EXCEPT !.members = {m \in @ : m.container # c}, !.ui = @ \ {c},
                       !.container = [d \in DOMAIN @ \ {c} |-> @[d]]]
    BY <1>4 DEF PlaylistEdited
  <2>3. /\ DOMAIN e = Tables /\ e.members = {m \in db.members : m.container # c} /\ e.ui = db.ui \ {c}
        /\ e.item = db.item /\ e.album = db.album /\ e.artist = db.artist /\ e.genre = db.genre
        /\ e.rows = db.rows /\ e.size = db.size
        /\ e.container = [b \in DOMAIN db.container \ {c} |-> db.container[b]]
    BY <2>2 DEF Tables
  <2>4. MasterList # c
    BY <2>1 DEF Lists
  <2> HIDE DEF e
  <2>5. Lists(e, pids)
    BY <2>3, <2>4 DEF Lists
  <2> QED BY <2>3, <2>5 DEF SameTracks, e
<1> QED BY <1>1, <1>2, <1>3, <1>4

------------------------------------------------------------------------------
(* Each pass leaves a sound copy *)

\* The browse orders are out of step while tracks are being added.
Indexed == phase \in {"add", "refused"} => added = 0

\* The installed library is sound, and the copy is sound but for its orders.
SqliteInvariant ==
  /\ SoundLibrary(installed)
  /\ Consistent(staged)
  /\ Indexed => Sorted(staged) /\ PlainRanksAgree(staged)
  /\ phase = "remove" => added = 0 /\ edit.removals \subseteq DOMAIN staged.item
  /\ edit.additions \in Seq(AdditionRows) /\ added \in 0..Len(edit.additions)
  /\ edit.playlists \in PlaylistEdits \cup {{}}

\* The opened library is sound, and nothing is asked for yet.
LEMMA InitIsSound == Init => SqliteInvariant
<1> SUFFICES ASSUME Init PROVE SqliteInvariant
  OBVIOUS
<1>1. edit.additions = <<>> /\ edit.playlists = {} /\ added = 0 /\ phase = "idle"
  BY DEF Init, NoEdit
<1>2. edit.additions \in Seq(AdditionRows) /\ added \in 0..Len(edit.additions)
  BY <1>1, EmptySeq
<1>3. SoundLibrary(installed) /\ SoundLibrary(staged)
  BY SqliteAssumption DEF Init
<1> QED BY <1>1, <1>2, <1>3 DEF SqliteInvariant, SoundLibrary

\* What a caller asks for has its type once ids are given.
LEMMA BeginIsSound == SqliteInvariant /\ Begin => SqliteInvariant'
<1> SUFFICES ASSUME SqliteInvariant, Begin PROVE SqliteInvariant'
  OBVIOUS
<1> DEFINE room == MaxAdditions - Cardinality(ItemPids \cap DOMAIN installed.item)
<1>1. PICK n \in 0..room :
        edit' \in [removals : SUBSET DOMAIN installed.item, additions : [1..n -> Resolved], playlists : PlaylistEdits]
  BY DEF Begin
<1>2. n \in Nat
  <2>1. IsFiniteSet(ItemPids \cap DOMAIN installed.item)
    BY SqliteAssumption, FS_Subset
  <2>2. room \in Int
    BY <2>1, FS_CardinalityType, SqliteAssumption
  <2> HIDE DEF room
  <2> QED BY <2>2
<1>3. Resolved \subseteq AdditionRows
  BY SqliteAssumption DEF Resolved, AdditionRows
<1>4. edit'.additions \in Seq(AdditionRows)
  <2>1. edit'.additions \in [1..n -> AdditionRows]
    BY <1>1, <1>3
  <2> QED BY <1>2, <2>1, SeqDef
<1>5. 0 \in 0..Len(edit'.additions)
  BY <1>4, LenProperties
<1> QED BY <1>1, <1>4, <1>5 DEF Begin, SqliteInvariant, SoundLibrary, Indexed

\* edit_staged_databases: refused, nothing to do, or removed and sorted.
LEMMA RemoveTracksIsSound == SqliteInvariant /\ RemoveTracks => SqliteInvariant'
<1> SUFFICES ASSUME SqliteInvariant, RemoveTracks PROVE SqliteInvariant'
  OBVIOUS
<1> DEFINE db == Removed(staged, edit.removals)
<1>1. phase = "remove" /\ added = 0 /\ edit.removals \in SUBSET (DOMAIN staged.item)
      /\ Consistent(staged) /\ Sorted(staged) /\ PlainRanksAgree(staged)
  BY DEF RemoveTracks, SqliteInvariant, Indexed
<1>2. Consistent(db)
  BY <1>1, RemovedIsConsistent
<1>3. SoundLibrary(Reindexed(db))
  BY <1>2, ReindexedIsSound DEF Consistent, SoundLibrary
<1>4. CASE Refused
  BY <1>1, <1>4 DEF Refused, SqliteInvariant, Indexed
<1>5. CASE Continue("add", staged)
  BY <1>1, <1>5 DEF Continue, SqliteInvariant, Indexed
<1>6. CASE Continue("add", Reindexed(db))
  BY <1>1, <1>3, <1>6 DEF Continue, SqliteInvariant, Indexed, SoundLibrary
<1> QED BY <1>4, <1>5, <1>6 DEF RemoveTracks

\* One turn of the loop: refused, or a track more in a sound copy.
LEMMA AddTrackIsSound == SqliteInvariant /\ AddTrack => SqliteInvariant'
<1> SUFFICES ASSUME SqliteInvariant, AddTrack PROVE SqliteInvariant'
  OBVIOUS
<1> DEFINE add == edit.additions[added + 1]
<1>1. /\ phase = "add" /\ added < Len(edit.additions)
      /\ edit.additions \in Seq(AdditionRows) /\ added \in 0..Len(edit.additions)
      /\ Consistent(staged)
  BY DEF AddTrack, SqliteInvariant
<1>2. Len(edit.additions) \in Nat
  BY <1>1, LenProperties
<1>3. added + 1 \in 1..Len(edit.additions)
  BY <1>1, <1>2
<1>4. add \in AdditionRows
  BY <1>1, <1>3, ElementOfSeq
<1> HIDE DEF add
<1>5. CASE Refused
  BY <1>1, <1>5 DEF Refused, SqliteInvariant, Indexed
<1>6. CASE /\ Addable(staged, add) /\ staged' = Added(staged, add) /\ added' = added + 1
           /\ UNCHANGED <<installed, phase, edit, edits>>
  <2>1. Consistent(staged')
    BY <1>1, <1>4, <1>6, AddedIsConsistent
  <2>2. added' \in 0..Len(edit.additions) /\ added' # 0
    BY <1>2, <1>3, <1>6
  <2> QED BY <1>1, <1>6, <2>1, <2>2 DEF SqliteInvariant, Indexed, SoundLibrary
<1> QED BY <1>5, <1>6 DEF AddTrack, add

\* The end of the loop sorts the copy.
LEMMA IndexTracksIsSound == SqliteInvariant /\ IndexTracks => SqliteInvariant'
<1> SUFFICES ASSUME SqliteInvariant, IndexTracks PROVE SqliteInvariant'
  OBVIOUS
<1>1. phase = "add" /\ added = Len(edit.additions) /\ Consistent(staged)
  BY DEF IndexTracks, SqliteInvariant
<1>2. SoundLibrary(Reindexed(staged))
  BY <1>1, ReindexedIsSound DEF Consistent, SoundLibrary
<1>3. CASE edit.additions = <<>> /\ Continue("playlists", staged)
  <2>1. added = 0
    BY <1>1, <1>3
  <2> QED BY <1>3, <2>1 DEF Continue, SqliteInvariant, Indexed
<1>4. CASE Refused
  BY <1>1, <1>4 DEF Refused, SqliteInvariant, Indexed
<1>5. CASE Continue("playlists", Reindexed(staged))
  BY <1>2, <1>5 DEF Continue, SqliteInvariant, Indexed, SoundLibrary
<1> QED BY <1>3, <1>4, <1>5 DEF IndexTracks

\* Playlist edits do not touch the tracks.
LEMMA EditPlaylistIsSound == SqliteInvariant /\ EditPlaylist => SqliteInvariant'
<1> SUFFICES ASSUME SqliteInvariant, EditPlaylist PROVE SqliteInvariant'
  OBVIOUS
<1>1. phase = "playlists" /\ Consistent(staged) /\ Sorted(staged) /\ PlainRanksAgree(staged)
  BY DEF EditPlaylist, SqliteInvariant, Indexed
<1>2. CASE Refused
  BY <1>1, <1>2 DEF Refused, SqliteInvariant, Indexed
<1>3. CASE ~ Refused
  <2>1. PICK e \in edit.playlists :
          /\ Applicable(staged, e.id, e) /\ staged' = PlaylistEdited(staged, e.id, e)
          /\ UNCHANGED <<installed, phase, edit, added, edits>>
    BY <1>3 DEF EditPlaylist
  <2>2. e.id \in Nat \ {0} /\ e.op \in {"create", "update", "rename", "delete"}
    <3>1. edit.playlists \in PlaylistEdits
      BY <2>1 DEF SqliteInvariant
    <3> QED BY <2>1, <3>1, SqliteAssumption DEF SoundQueue
  <2>3. DOMAIN staged = Tables /\ Lists(staged, DOMAIN staged.item)
    BY <1>1, ConsistentLists DEF Consistent, Typed
  <2>4. SameTracks(staged, staged') /\ Lists(staged', DOMAIN staged.item)
    BY <2>1, <2>2, <2>3, EditedLists
  <2>5. Consistent(staged') /\ Sorted(staged') /\ PlainRanksAgree(staged')
    BY <1>1, <2>4, SameTracksConsistent, SameTracksSorted
  <2>6. installed' = installed /\ phase' = phase /\ edit' = edit /\ added' = added
    BY <2>1
  <2> QED BY <1>1, <2>5, <2>6 DEF SqliteInvariant, Indexed, SoundLibrary
<1> QED BY <1>2, <1>3

\* Their check writes nothing.
LEMMA CheckPlaylistsIsSound == SqliteInvariant /\ CheckPlaylists => SqliteInvariant'
BY DEF CheckPlaylists, Refused, Continue, SqliteInvariant, Indexed

\* Verification writes nothing.
LEMMA VerifyIsSound == SqliteInvariant /\ Verify => SqliteInvariant'
BY DEF Verify, Continue, SqliteInvariant, Indexed

\* Only a copy that is sorted, and so sound, is installed.
LEMMA InstallIsSound == SqliteInvariant /\ Install => SqliteInvariant'
<1> SUFFICES ASSUME SqliteInvariant, Install PROVE SqliteInvariant'
  OBVIOUS
<1>1. edit'.additions = <<>> /\ edit'.playlists = {} /\ added' = 0 /\ phase' = "idle"
      /\ installed' = staged /\ staged' = staged
  BY DEF Install, NoEdit
<1>2. edit'.additions \in Seq(AdditionRows) /\ added' \in 0..Len(edit'.additions)
  BY <1>1, EmptySeq
<1>3. Consistent(staged) /\ Sorted(staged) /\ PlainRanksAgree(staged)
  BY DEF Install, SqliteInvariant, Indexed
<1> QED BY <1>1, <1>2, <1>3 DEF SqliteInvariant, SoundLibrary

\* Every generation that stage_sqlite installs is sound, and so is the copy
\* between two of its passes, up to the browse orders.
THEOREM SqliteInvariance == Spec => []SqliteInvariant
<1>1. Init => SqliteInvariant
  BY InitIsSound
<1>2. SqliteInvariant /\ [Next]_vars => SqliteInvariant'
  <2>1. SqliteInvariant /\ UNCHANGED vars => SqliteInvariant'
    BY DEF vars, SqliteInvariant, Indexed
  <2> QED BY <2>1, BeginIsSound, RemoveTracksIsSound, AddTrackIsSound, IndexTracksIsSound,
             EditPlaylistIsSound, CheckPlaylistsIsSound, VerifyIsSound, InstallIsSound DEF Next
<1> QED BY <1>1, <1>2, PTL DEF Spec

\* delete_direct_references and update_derived_rows leave no row that points to
\* a row that is gone.
THEOREM ReferencesStay == Spec => []RefsIntact
<1>1. SqliteInvariant => RefsIntact
  BY DEF SqliteInvariant, SoundLibrary, Consistent, RefsIntact
<1> QED BY <1>1, SqliteInvariance, PTL

\* The counts in the rows are what counting gives, whichever pass ran last.
THEOREM CountsStayExact == Spec => []CountsExact
<1>1. SqliteInvariant => CountsExact
  BY DEF SqliteInvariant, SoundLibrary, Consistent, CountsExact
<1> QED BY <1>1, SqliteInvariance, PTL

\* No artist, album or genre outlives its tracks or is there in two spellings
\* (resolve_named_entity, resolve_album).
THEOREM RowsStayEarned == Spec => []RowsEarned
<1>1. SqliteInvariant => RowsEarned
  BY DEF SqliteInvariant, SoundLibrary, Consistent, RowsEarned
<1> QED BY <1>1, SqliteInvariance, PTL

\* reindex_browse_orders: the browse lists of every generation are sorted.
THEOREM ListsStaySorted == Spec => []BrowseSorted
<1>1. SqliteInvariant => BrowseSorted
  BY DEF SqliteInvariant, SoundLibrary, BrowseSorted
<1> QED BY <1>1, SqliteInvariance, PTL

\* In every generation the albums of an artist that sorts under its own name have
\* its rank (reindex_browse_orders); add.rs:1074 claims it of every artist, and
\* AlbumFollowsArtist, which says so, does not hold.
THEOREM PlainRanksStayEqual == Spec => []AlbumFollowsPlainArtist
<1>1. SqliteInvariant => AlbumFollowsPlainArtist
  BY DEF SqliteInvariant, SoundLibrary, AlbumFollowsPlainArtist
<1> QED BY <1>1, SqliteInvariance, PTL

------------------------------------------------------------------------------
(* The lists *)

\* The rows of a list are numbered 0..n-1.
Numbered(rows, n) ==
  /\ \A m \in rows : m.order \in Nat /\ m.order < n
  /\ \A i \in Nat : i < n => \E m \in rows : m.order = i
  /\ \A k, m \in rows : k.order = m.order => k = m

\* The memberships of a container are the sequence s.
IsList(db, c, s) ==
  /\ s \in Seq(Nat) /\ Numbered(MembersOf(db, c), Len(s))
  /\ \A m \in MembersOf(db, c) : m.item = s[m.order + 1]

\* Numbered rows are as many as the numbers.
LEMMA NumberedCount ==
  ASSUME NEW rows, NEW n \in Nat, Numbered(rows, n)
  PROVE  IsFiniteSet(rows) /\ Cardinality(rows) = n
<1> DEFINE g == [i \in 1..n |-> CHOOSE m \in rows : m.order = i - 1]
<1>1. /\ \A m \in rows : m.order \in Nat /\ m.order < n
      /\ \A k, m \in rows : k.order = m.order => k = m
  BY DEF Numbered
<1>2. ASSUME NEW i \in 1..n PROVE g[i] \in rows /\ g[i].order = i - 1
  <2>1. \E m \in rows : m.order = i - 1
    <3>1. i - 1 \in Nat /\ i - 1 < n
      OBVIOUS
    <3> QED BY <3>1 DEF Numbered
  <2> QED BY <2>1
<1>3. g \in [1..n -> rows]
  BY <1>2
<1> HIDE DEF g
<1>4. \A i, j \in 1..n : g[i] = g[j] => i = j
  BY <1>2
<1>5. ASSUME NEW m \in rows PROVE \E i \in 1..n : g[i] = m
  <2>1. m.order + 1 \in 1..n /\ (m.order + 1) - 1 = m.order
    BY <1>1
  <2>2. g[m.order + 1] \in rows /\ g[m.order + 1].order = m.order
    BY <1>2, <2>1
  <2> QED BY <1>1, <2>1, <2>2
<1>6. g \in Bijection(1..n, rows)
  BY <1>3, <1>4, <1>5 DEF Bijection, Injection, Surjection, IsInjective
<1>7. ExistsBijection(1..n, rows)
  BY <1>6 DEF ExistsBijection
<1>8. Cardinality(rows) = n
  BY <1>7, FS_CountingElements
<1>9. IsFiniteSet(rows)
  BY <1>7, FS_NatBijection
<1> QED BY <1>8, <1>9

\* Those with the numbers below k are k.
LEMMA NumberedBelow ==
  ASSUME NEW rows, NEW n \in Nat, Numbered(rows, n), NEW k \in Nat, k <= n
  PROVE  Cardinality({m \in rows : m.order < k}) = k
<1>1. Numbered({m \in rows : m.order < k}, k)
  BY DEF Numbered
<1> QED BY <1>1, NumberedCount

\* A list is what is read.
LEMMA ListedIs ==
  ASSUME NEW db, NEW c, NEW s, IsList(db, c, s)
  PROVE  /\ Listed(db, c) = s /\ IsFiniteSet(MembersOf(db, c)) /\ Cardinality(MembersOf(db, c)) = Len(s)
         /\ {m.order : m \in MembersOf(db, c)} = 0..(Len(s) - 1)
<1> DEFINE rows == MembersOf(db, c)
           read == [i \in 1..Cardinality(rows) |->
                     (CHOOSE m \in rows : Cardinality({n \in rows : n.order < m.order}) = i - 1).item]
<1>1. s \in Seq(Nat) /\ Numbered(rows, Len(s)) /\ \A m \in rows : m.item = s[m.order + 1]
  BY DEF IsList
<1> HIDE DEF rows
<1>2. Len(s) \in Nat
  BY <1>1, LenProperties
<1>3. IsFiniteSet(rows) /\ Cardinality(rows) = Len(s)
  BY <1>1, <1>2, NumberedCount
<1>4. /\ \A m \in rows : m.order \in Nat /\ m.order < Len(s)
      /\ \A i \in Nat : i < Len(s) => \E m \in rows : m.order = i
      /\ \A k, m \in rows : k.order = m.order => k = m
  BY <1>1 DEF Numbered
<1>5. ASSUME NEW m \in rows PROVE Cardinality({n \in rows : n.order < m.order}) = m.order
  <2>1. m.order \in Nat /\ m.order <= Len(s)
    BY <1>2, <1>4
  <2> QED BY <1>1, <1>2, <2>1, NumberedBelow
<1>6. ASSUME NEW i \in 1..Len(s) PROVE read[i] = s[i]
  <2> DEFINE Fits(m) == Cardinality({n \in rows : n.order < m.order}) = i - 1
             found == CHOOSE m \in rows : Fits(m)
  <2>1. i - 1 \in Nat /\ i - 1 < Len(s)
    BY <1>2
  <2>2. PICK m \in rows : m.order = i - 1
    BY <1>4, <2>1
  <2>3. Fits(m)
    BY <1>5, <2>2
  <2>4. read[i] = found.item
    BY <1>3
  <2> HIDE DEF Fits
  <2>5. found \in rows /\ Fits(found)
    BY <2>2, <2>3
  <2> HIDE DEF found
  <2>6. found.order = i - 1
    BY <1>5, <2>5 DEF Fits
  <2>7. found.item = s[found.order + 1]
    BY <1>1, <2>5
  <2>8. found.order + 1 = i
    BY <2>6
  <2> QED BY <2>4, <2>7, <2>8
<1>7. Listed(db, c) = read
  BY DEF Listed, rows
<1>8. DOMAIN read = 1..Len(s)
  BY <1>3
<1> HIDE DEF read
<1>9. DOMAIN s = 1..Len(s) /\ s = [i \in 1..Len(s) |-> s[i]]
  BY <1>1, SeqDef, LenProperties
<1>10. read = s
  <2>1. read = [i \in DOMAIN read |-> read[i]]
    BY DEF read
  <2> QED BY <1>6, <1>8, <1>9, <2>1
<1>11. {m.order : m \in rows} = 0..(Len(s) - 1)
  <2>1. \A m \in rows : m.order \in 0..(Len(s) - 1)
    BY <1>2, <1>4
  <2>2. \A i \in 0..(Len(s) - 1) : i \in Nat /\ i < Len(s)
    BY <1>2
  <2> QED BY <1>4, <2>1, <2>2
<1> QED BY <1>3, <1>7, <1>10, <1>11 DEF rows

\* What is read of a list without gaps is the list.
LEMMA ContiguousIsList ==
  ASSUME NEW db, NEW c, Contiguous(db.members), IsFiniteSet(MembersOf(db, c)),
         \A m \in db.members : m.item \in Nat
  PROVE  IsList(db, c, Listed(db, c))
<1> DEFINE rows == MembersOf(db, c)
           size == Cardinality(rows)
           read == Listed(db, c)
<1>1. size \in Nat
  BY FS_CardinalityType
<1>2. {m.order : m \in rows} = 0..(size - 1)
  <2>1. CASE rows = {}
    BY <2>1, FS_EmptySet
  <2>2. CASE rows # {}
    <3>1. PICK m \in db.members : m.container = c
      BY <2>2 DEF MembersOf
    <3>2. rows = {n \in db.members : n.container = m.container}
      BY <3>1 DEF MembersOf
    <3> QED BY <3>2 DEF Contiguous
  <2> QED BY <2>1, <2>2
<1> DEFINE g == [m \in rows |-> m.order]
<1>3. g \in Surjection(rows, 0..(size - 1))
  BY <1>2 DEF Surjection
<1>4. Cardinality(0..(size - 1)) = size
  BY <1>1, FS_Interval
<1>5. g \in Injection(rows, 0..(size - 1))
  <2> HIDE DEF g
  <2> QED BY <1>3, <1>4, FS_SurjSameCardinalityImpliesInj
<1>6. Numbered(rows, size)
  <2>1. ASSUME NEW m \in rows PROVE m.order \in Nat /\ m.order < size
    <3>1. m.order \in 0..(size - 1)
      BY <1>2
    <3> QED BY <1>1, <3>1
  <2>2. ASSUME NEW i \in Nat, i < size PROVE \E m \in rows : m.order = i
    <3>1. i \in 0..(size - 1)
      BY <1>1, <2>2
    <3> QED BY <1>2, <3>1
  <2>3. ASSUME NEW k \in rows, NEW m \in rows, k.order = m.order PROVE k = m
    BY <1>5, <2>3 DEF Injection, IsInjective
  <2> QED BY <2>1, <2>2, <2>3 DEF Numbered
<1> DEFINE found(i) == CHOOSE m \in rows : Cardinality({n \in rows : n.order < m.order}) = i - 1
<1>7. ASSUME NEW m \in rows PROVE Cardinality({n \in rows : n.order < m.order}) = m.order
  <2>1. m.order \in Nat /\ m.order <= size
    BY <1>1, <1>6 DEF Numbered
  <2> HIDE DEF rows, size
  <2> QED BY <1>1, <1>6, <2>1, NumberedBelow
<1>8. read = [i \in 1..size |-> found(i).item]
  BY DEF Listed
<1>9. ASSUME NEW i \in 1..size PROVE found(i) \in rows /\ found(i).order = i - 1
  <2> DEFINE Fits(m) == Cardinality({n \in rows : n.order < m.order}) = i - 1
  <2>1. i - 1 \in Nat /\ i - 1 < size
    BY <1>1
  <2>2. PICK m \in rows : m.order = i - 1
    BY <1>6, <2>1 DEF Numbered
  <2>3. Fits(m)
    BY <1>7, <2>2
  <2>4. found(i) \in rows /\ Fits(found(i))
    BY <2>2, <2>3
  <2> HIDE DEF found
  <2> QED BY <1>7, <2>4
<1>10. \A i \in 1..size : found(i).item \in Nat
  <2> HIDE DEF found
  <2> QED BY <1>9 DEF MembersOf
<1> HIDE DEF found, size
<1>11. read \in Seq(Nat) /\ Len(read) = size /\ \A i \in 1..size : read[i] = found(i).item
  <2>1. read \in [1..size -> Nat]
    BY <1>8, <1>10
  <2>2. read \in Seq(Nat)
    BY <1>1, <2>1, SeqDef
  <2>3. Len(read) = size
    BY <1>1, <2>1, <2>2, LenProperties
  <2> QED BY <1>8, <2>2, <2>3
<1> HIDE DEF read
<1>12. ASSUME NEW m \in rows PROVE m.item = read[m.order + 1]
  <2>1. m.order + 1 \in 1..size /\ (m.order + 1) - 1 = m.order
    BY <1>1, <1>6 DEF Numbered
  <2>2. found(m.order + 1) \in rows /\ found(m.order + 1).order = m.order
    BY <1>9, <2>1
  <2>3. found(m.order + 1) = m
    BY <1>6, <2>2 DEF Numbered
  <2> QED BY <1>11, <2>1, <2>3
<1> QED BY <1>6, <1>11, <1>12 DEF IsList, read

\* Lists have no gaps.
LEMMA ListsAreContiguous ==
  ASSUME NEW db, \A m \in db.members : \E s : IsList(db, m.container, s)
  PROVE  Contiguous(db.members)
<1>1. SUFFICES ASSUME NEW m \in db.members
               PROVE  {n.order : n \in {k \in db.members : k.container = m.container}}
                        = 0..(Cardinality({k \in db.members : k.container = m.container}) - 1)
  BY DEF Contiguous
<1>2. PICK s : IsList(db, m.container, s)
  OBVIOUS
<1>3. {n.order : n \in MembersOf(db, m.container)} = 0..(Cardinality(MembersOf(db, m.container)) - 1)
  BY <1>2, ListedIs
<1>4. MembersOf(db, m.container) = {k \in db.members : k.container = m.container}
  BY DEF MembersOf
<1> QED BY <1>3, <1>4

\* A list depends on the rows of its container only.
LEMMA SameList ==
  ASSUME NEW db, NEW d, NEW c, MembersOf(d, c) = MembersOf(db, c)
  PROVE  \A s : IsList(db, c, s) <=> IsList(d, c, s)
BY DEF IsList

\* The elements that stay when tracks are removed.
Staying(s, gone) == Selected(s, {i \in DOMAIN s : s[i] \notin gone})

\* RemovedMembers renumbers what stays of every list.
LEMMA RenumberedList ==
  ASSUME NEW db, NEW d, NEW gone, NEW c, NEW s, IsList(db, c, s),
         \A m \in db.members : DOMAIN m = {"container", "item", "order"},
         d.members = RenumberedMembers({m \in db.members : m.item \notin gone})
  PROVE  IsList(d, c, Staying(s, gone))
<1> DEFINE rows == MembersOf(db, c)
           left == {m \in db.members : m.item \notin gone}
           kept == {m \in rows : m.item \notin gone}
           P == {i \in DOMAIN s : s[i] \notin gone}
           t == Staying(s, gone)
           At(m) == Cardinality({n \in kept : n.order < m.order})
           Moved(m) == [m EXCEPT !.order = At(m)]
<1>1. /\ s \in Seq(Nat) /\ Len(s) \in Nat /\ DOMAIN s = 1..Len(s)
      /\ \A m \in rows : m.order \in Nat /\ m.order < Len(s) /\ m.item = s[m.order + 1]
      /\ \A i \in Nat : i < Len(s) => \E m \in rows : m.order = i
      /\ \A k, m \in rows : k.order = m.order => k = m
  BY LenProperties DEF IsList, Numbered
<1>2. P \in SUBSET (1..Len(s)) /\ P \in SUBSET Nat
  BY <1>1
<1>3. t \in Seq(Nat) /\ \E pos : Places(s, P, t, pos)
  BY <1>1, <1>2, SelectedPlaces DEF Staying
<1>4. PICK pos : Places(s, P, t, pos)
  BY <1>3
<1> HIDE DEF t
<1>5. Len(t) \in Nat /\ DOMAIN t = 1..Len(t)
  BY <1>3, LenProperties
<1>6. MembersOf(d, c) = {Moved(m) : m \in kept}
  <2> DEFINE Put(m) == [m EXCEPT !.order = Cardinality({n \in left : n.container = m.container /\ n.order < m.order})]
  <2>1. d.members = {Put(m) : m \in left}
    BY DEF RenumberedMembers
  <2>2. ASSUME NEW m \in left PROVE Put(m).container = m.container
    OBVIOUS
  <2>3. ASSUME NEW m \in kept PROVE Put(m) = Moved(m)
    <3>1. m.container = c
      BY DEF MembersOf
    <3>2. {n \in left : n.container = m.container /\ n.order < m.order} = {n \in kept : n.order < m.order}
      BY <3>1 DEF MembersOf
    <3> QED BY <3>2
  <2>4. \A m : m \in kept <=> m \in left /\ m.container = c
    BY DEF MembersOf
  <2> HIDE DEF Put, Moved, left, kept
  <2>5. MembersOf(d, c) = {Put(m) : m \in kept}
    BY <2>1, <2>2, <2>4 DEF MembersOf
  <2> QED BY <2>3, <2>5
<1>7. \A m \in kept : DOMAIN m = {"container", "item", "order"}
  BY DEF MembersOf
<1>8. ASSUME NEW m \in kept PROVE Moved(m).order = At(m) /\ Moved(m).item = m.item
  BY <1>7
<1>9. \A i \in P : \E m \in kept : m.order = i - 1
  <2>1. SUFFICES ASSUME NEW i \in P PROVE \E m \in kept : m.order = i - 1
    OBVIOUS
  <2>2. i - 1 \in Nat /\ i - 1 < Len(s) /\ (i - 1) + 1 = i
    BY <1>2
  <2>3. PICK m \in rows : m.order = i - 1
    BY <1>1, <2>2
  <2> QED BY <1>1, <2>2, <2>3
<1>10. ASSUME NEW m \in kept PROVE m.order + 1 \in P /\ m.order \in Nat
  <2>1. m.order + 1 \in 1..Len(s)
    BY <1>1
  <2> QED BY <1>1, <2>1
<1> HIDE DEF rows, Moved
<1>11. ASSUME NEW m \in kept PROVE At(m) = Cardinality(Preceding(P, m.order + 1))
  <2> DEFINE low == {n \in kept : n.order < m.order}
             g == [n \in low |-> n.order + 1]
  <2>1. g \in [low -> Preceding(P, m.order + 1)]
    BY <1>10 DEF Preceding
  <2>2. \A i \in Preceding(P, m.order + 1) : \E n \in low : g[n] = i
    <3>1. SUFFICES ASSUME NEW i \in Preceding(P, m.order + 1) PROVE \E n \in low : g[n] = i
      OBVIOUS
    <3>2. i \in P /\ i < m.order + 1 /\ i \in Nat /\ m.order \in Nat
      BY <1>2, <1>10 DEF Preceding
    <3>3. PICK n \in kept : n.order = i - 1
      BY <1>9, <3>2
    <3>4. n \in low /\ g[n] = i
      BY <3>2, <3>3
    <3> QED BY <3>4
  <2>3. \A k, n \in low : g[k] = g[n] => k = n
    <3>1. SUFFICES ASSUME NEW k \in low, NEW n \in low, g[k] = g[n] PROVE k = n
      OBVIOUS
    <3>2. k.order = n.order
      BY <1>10, <3>1
    <3> QED BY <1>1, <3>2
  <2> HIDE DEF g
  <2>6. IsFiniteSet(low)
    <3>1. IsFiniteSet(rows) /\ low \in SUBSET rows
      BY ListedIs DEF rows
    <3> QED BY <3>1, FS_Subset
  <2> DEFINE S == Preceding(P, m.order + 1)
  <2> HIDE DEF low, S
  <2>4. g \in Bijection(low, S)
    <3>1. g \in [low -> S] /\ \A i \in S : \E n \in low : g[n] = i
      BY <2>1, <2>2 DEF S
    <3> QED BY <2>3, <3>1 DEF Bijection, Injection, Surjection, IsInjective
  <2>5. Cardinality(low) = Cardinality(Preceding(P, m.order + 1))
    BY <2>4, <2>6, FS_Bijection DEF ExistsBijection, S
  <2> QED BY <2>5 DEF low
<1> HIDE DEF P
<1>12. ASSUME NEW m \in kept
       PROVE  \E k \in 1..Len(t) : pos[k] = m.order + 1 /\ At(m) = k - 1 /\ m.item = t[k]
  <2>1. PICK k \in 1..Len(t) : pos[k] = m.order + 1
    BY <1>4, <1>10 DEF Places
  <2>2. Cardinality(Preceding(P, pos[k])) = k - 1
    BY <1>2, <1>4, <1>5, PlacesCount
  <2>3. t[k] = s[pos[k]]
    BY <1>4 DEF Places
  <2>4. m.item = s[m.order + 1]
    BY <1>1
  <2> HIDE DEF At
  <2> QED BY <1>11, <2>1, <2>2, <2>3, <2>4
<1> HIDE DEF At, kept
<1> DEFINE new == {Moved(m) : m \in kept}
<1>13. ASSUME NEW m \in kept
       PROVE  \E k \in 1..Len(t) : pos[k] = m.order + 1 /\ Moved(m).order = k - 1 /\ Moved(m).item = t[k]
  BY <1>8, <1>12
<1>14. ASSUME NEW n \in new PROVE n.order \in Nat /\ n.order < Len(t) /\ n.item = t[n.order + 1]
  <2>1. PICK m \in kept : n = Moved(m)
    OBVIOUS
  <2>2. PICK k \in 1..Len(t) : n.order = k - 1 /\ n.item = t[k]
    BY <1>13, <2>1
  <2>3. k - 1 \in Nat /\ k - 1 < Len(t) /\ (k - 1) + 1 = k
    BY <1>5
  <2> QED BY <2>2, <2>3
<1>15. ASSUME NEW i \in Nat, i < Len(t) PROVE \E n \in new : n.order = i
  <2>1. i + 1 \in 1..Len(t)
    BY <1>5, <1>15
  <2>2. pos[i + 1] \in P
    BY <1>4, <2>1 DEF Places
  <2>3. PICK m \in kept : m.order = pos[i + 1] - 1
    BY <1>9, <2>2
  <2>4. PICK k \in 1..Len(t) : pos[k] = m.order + 1 /\ Moved(m).order = k - 1
    BY <1>13
  <2>5. pos[k] = pos[i + 1]
    <3>1. pos[i + 1] \in Nat
      BY <1>2, <2>2
    <3>2. pos[k] = (pos[i + 1] - 1) + 1
      BY <2>3, <2>4
    <3> QED BY <3>1, <3>2
  <2>6. k = i + 1
    <3>1. PICK l \in 1..Len(t) : l = i + 1
      BY <2>1
    <3>2. pos[k] = pos[l]
      BY <2>5, <3>1
    <3>3. k = l
      BY <1>2, <1>4, <1>5, <3>2, PlacesApart
    <3> QED BY <3>1, <3>3
  <2> QED BY <2>4, <2>6
<1>16. ASSUME NEW a \in new, NEW b \in new, a.order = b.order PROVE a = b
  <2>1. PICK m \in kept : a = Moved(m)
    OBVIOUS
  <2>2. PICK n \in kept : b = Moved(n)
    OBVIOUS
  <2>3. PICK k \in 1..Len(t) : pos[k] = m.order + 1 /\ a.order = k - 1
    BY <1>13, <2>1
  <2>4. PICK l \in 1..Len(t) : pos[l] = n.order + 1 /\ b.order = l - 1
    BY <1>13, <2>2
  <2>5. k = l
    <3>1. k - 1 = l - 1
      BY <1>16, <2>3, <2>4
    <3> QED BY <3>1
  <2>6. m.order = n.order
    <3>1. m.order + 1 = n.order + 1 /\ m.order \in Nat /\ n.order \in Nat
      BY <1>10, <2>3, <2>4, <2>5
    <3> QED BY <3>1
  <2>7. m = n
    <3>1. m \in rows /\ n \in rows
      BY DEF kept
    <3> QED BY <1>1, <2>6, <3>1
  <2> QED BY <2>1, <2>2, <2>7
<1> HIDE DEF new
<1>17. Numbered(new, Len(t)) /\ \A n \in new : n.item = t[n.order + 1]
  BY <1>14, <1>15, <1>16 DEF Numbered
<1> QED BY <1>3, <1>6, <1>17 DEF IsList, new, t

\* insert_container_membership puts a track at the end of a list, and leaves the others.
LEMMA JoinedList ==
  ASSUME NEW db, DOMAIN db = Tables, NEW p \in Nat, NEW c
  PROVE  /\ \A s : IsList(db, c, s) => IsList(Joined(db, p, c), c, Append(s, p))
         /\ \A b : b # c => MembersOf(Joined(db, p, c), b) = MembersOf(db, b)
<1> DEFINE d == Joined(db, p, c)
           rows == MembersOf(db, c)
           last == Max({m.order + 1 : m \in rows} \cup {0})
           row == [container |-> c, item |-> p, order |-> last]
<1>1. d.members = db.members \cup {row}
  BY DEF Joined, Tables
<1>2. row.container = c /\ row.item = p /\ row.order = last
  OBVIOUS
<1> HIDE DEF d, row, last
<1>3. MembersOf(d, c) = rows \cup {row} /\ \A b : b # c => MembersOf(d, b) = MembersOf(db, b)
  BY <1>1, <1>2 DEF MembersOf
<1>4. ASSUME NEW s, IsList(db, c, s) PROVE IsList(d, c, Append(s, p))
  <2>1. /\ s \in Seq(Nat) /\ Len(s) \in Nat
        /\ \A m \in rows : m.order \in Nat /\ m.order < Len(s) /\ m.item = s[m.order + 1]
        /\ \A i \in Nat : i < Len(s) => \E m \in rows : m.order = i
        /\ \A k, m \in rows : k.order = m.order => k = m
    BY <1>4, LenProperties DEF IsList, Numbered
  <2> DEFINE t == Append(s, p)
             ends == {m.order + 1 : m \in rows} \cup {0}
  <2>2. /\ t \in Seq(Nat) /\ Len(t) = Len(s) + 1 /\ t[Len(s) + 1] = p
        /\ \A i \in 1..Len(s) : t[i] = s[i]
    BY <2>1, AppendProperties
  <2>3. last = Len(s)
    <3>1. \A x \in ends : x \in 0..Len(s)
      BY <2>1
    <3>2. Len(s) \in ends
      <4>1. CASE Len(s) = 0
        BY <4>1
      <4>2. CASE Len(s) # 0
        <5>1. Len(s) - 1 \in Nat /\ Len(s) - 1 < Len(s) /\ (Len(s) - 1) + 1 = Len(s)
          BY <2>1, <4>2
        <5>2. PICK m \in rows : m.order = Len(s) - 1
          BY <2>1, <5>1
        <5> QED BY <5>1, <5>2
      <4> QED BY <4>1, <4>2
    <3>3. IsFiniteSet(ends)
      <4>1. ends \in SUBSET (0..Len(s))
        BY <3>1
      <4>2. IsFiniteSet(0..Len(s))
        BY <2>1, FS_Interval
      <4> HIDE DEF ends
      <4> QED BY <4>1, <4>2, FS_Subset
    <3>4. ends \in SUBSET Nat /\ ends # {}
      BY <3>1, <3>2
    <3>5. last = Max(ends)
      BY DEF last
    <3> HIDE DEF ends
    <3>6. Max(ends) \in ends /\ \A y \in ends : Max(ends) >= y
      BY <3>3, <3>4, MaxOfNats
    <3>7. Max(ends) \in 0..Len(s) /\ Max(ends) >= Len(s)
      BY <3>1, <3>2, <3>6
    <3> QED BY <2>1, <3>5, <3>7
  <2> HIDE DEF t
  <2>4. ASSUME NEW m \in rows \cup {row}
        PROVE  m.order \in Nat /\ m.order < Len(t) /\ m.item = t[m.order + 1]
    <3>1. CASE m = row
      <4>1. m.order = Len(s) /\ m.item = p
        BY <1>2, <2>3, <3>1
      <4> QED BY <2>1, <2>2, <4>1
    <3>2. CASE m \in rows
      <4>1. m.order \in Nat /\ m.order < Len(s) /\ m.item = s[m.order + 1]
        BY <2>1, <3>2
      <4>2. m.order + 1 \in 1..Len(s)
        BY <2>1, <4>1
      <4> QED BY <2>1, <2>2, <4>1, <4>2
    <3> QED BY <3>1, <3>2
  <2>5. ASSUME NEW i \in Nat, i < Len(t) PROVE \E m \in rows \cup {row} : m.order = i
    <3>1. i < Len(s) \/ i = Len(s)
      BY <2>1, <2>2, <2>5
    <3> QED BY <1>2, <2>1, <2>3, <3>1
  <2>6. ASSUME NEW k \in rows \cup {row}, NEW m \in rows \cup {row}, k.order = m.order PROVE k = m
    <3>1. \A r \in rows : r.order # Len(s)
      BY <2>1
    <3> QED BY <1>2, <2>1, <2>3, <2>6, <3>1
  <2> HIDE DEF rows
  <2>7. Numbered(rows \cup {row}, Len(t)) /\ \A m \in rows \cup {row} : m.item = t[m.order + 1]
    BY <2>4, <2>5, <2>6 DEF Numbered
  <2> QED BY <1>3, <2>2, <2>7 DEF IsList, t
<1> QED BY <1>3, <1>4 DEF d

\* replace_members makes a list what was asked for, and leaves the others.
LEMMA ReplacedList ==
  ASSUME NEW db, DOMAIN db = Tables, NEW s \in Seq(Nat), NEW c
  PROVE  /\ IsList(ReplacedMembers(db, c, s), c, s)
         /\ \A b : b # c => MembersOf(ReplacedMembers(db, c, s), b) = MembersOf(db, b)
<1> DEFINE d == ReplacedMembers(db, c, s)
           Put(i) == [container |-> c, item |-> s[i], order |-> i - 1]
           new == {Put(i) : i \in DOMAIN s}
<1>1. d.members = {m \in db.members : m.container # c} \cup new
  BY DEF ReplacedMembers, Tables
<1>2. \A i : Put(i).container = c /\ Put(i).item = s[i] /\ Put(i).order = i - 1
  OBVIOUS
<1> HIDE DEF d, Put
<1>3. MembersOf(d, c) = new /\ \A b : b # c => MembersOf(d, b) = MembersOf(db, b)
  BY <1>1, <1>2 DEF MembersOf
<1>4. Len(s) \in Nat /\ DOMAIN s = 1..Len(s)
  BY LenProperties
<1>5. ASSUME NEW m \in new PROVE m.order \in Nat /\ m.order < Len(s) /\ m.item = s[m.order + 1]
  <2>1. PICK i \in 1..Len(s) : m = Put(i)
    BY <1>4
  <2>2. i - 1 \in Nat /\ i - 1 < Len(s) /\ (i - 1) + 1 = i
    BY <1>4
  <2> QED BY <1>2, <2>1, <2>2
<1>6. ASSUME NEW i \in Nat, i < Len(s) PROVE \E m \in new : m.order = i
  <2>1. i + 1 \in DOMAIN s /\ (i + 1) - 1 = i
    BY <1>4, <1>6
  <2>2. Put(i + 1) \in new
    BY <2>1
  <2> HIDE DEF new
  <2> QED BY <1>2, <2>1, <2>2
<1>7. ASSUME NEW k \in new, NEW m \in new, k.order = m.order PROVE k = m
  <2>1. PICK i \in 1..Len(s) : k = Put(i)
    BY <1>4
  <2>2. PICK j \in 1..Len(s) : m = Put(j)
    BY <1>4
  <2>3. i - 1 = j - 1
    BY <1>2, <1>7, <2>1, <2>2
  <2>4. i = j
    BY <2>3
  <2> QED BY <2>1, <2>2, <2>4
<1> HIDE DEF new
<1>8. Numbered(new, Len(s))
  BY <1>5, <1>6, <1>7 DEF Numbered
<1> QED BY <1>3, <1>5, <1>8 DEF IsList, d

\* Renumbered items have the orders 0..n-1.
LEMMA RenumberedOrders ==
  ASSUME NEW items, IsTable(items, ItemRows)
  PROVE  {Renumbered(items)[p].order : p \in DOMAIN Renumbered(items)} = 0..(Cardinality(DOMAIN Renumbered(items)) - 1)
<1> DEFINE T == DOMAIN items
           n == Cardinality(T)
           Lower(p) == {q \in T : \/ items[q].order < items[p].order
                                  \/ items[q].order = items[p].order /\ q < p}
           place == [p \in T |-> Cardinality(Lower(p))]
<1>1. IsFiniteSet(T) /\ n \in Nat /\ T \in SUBSET Nat /\ \A p \in T : items[p].order \in Nat
  BY FS_CardinalityType DEF IsTable, ItemRows
<1>2. \A p \in T : IsFiniteSet(Lower(p)) /\ Cardinality(Lower(p)) \in Nat
  BY <1>1, CountIsNat
<1>3. ASSUME NEW p \in T PROVE Cardinality(Lower(p)) \in 0..(n - 1)
  <2>1. Lower(p) \in SUBSET T /\ p \in T /\ p \notin Lower(p)
    BY <1>1
  <2>2. Cardinality(Lower(p)) <= n /\ Cardinality(Lower(p)) # n
    BY <1>1, <2>1, FS_Subset
  <2> QED BY <1>1, <1>2, <2>2
<1>4. ASSUME NEW p \in T, NEW q \in Lower(p) PROVE Cardinality(Lower(q)) < Cardinality(Lower(p))
  <2>1. q \in T /\ q \notin Lower(q)
    BY <1>1
  <2>2. ASSUME NEW x \in Lower(q) PROVE x \in Lower(p)
    <3>1. items[x].order \in Nat /\ items[q].order \in Nat /\ items[p].order \in Nat /\ x \in Nat /\ p \in Nat /\ q \in Nat
      BY <1>1
    <3> QED BY <2>2, <3>1
  <2>3. Lower(q) \in SUBSET Lower(p) /\ Lower(q) # Lower(p)
    BY <2>1, <2>2
  <2> HIDE DEF Lower
  <2>4. Cardinality(Lower(q)) <= Cardinality(Lower(p)) /\ Cardinality(Lower(q)) # Cardinality(Lower(p))
    BY <1>2, <2>3, FS_Subset
  <2> QED BY <1>2, <2>1, <2>4
<1>5. ASSUME NEW p \in T, NEW q \in T, p # q PROVE p \in Lower(q) \/ q \in Lower(p)
  <2>1. items[q].order \in Nat /\ items[p].order \in Nat /\ p \in Nat /\ q \in Nat
    BY <1>1
  <2> QED BY <1>5, <2>1
<1>6. /\ DOMAIN Renumbered(items) = T
      /\ \A p \in T : Renumbered(items)[p].order = place[p]
  <2>1. Renumbered(items) = [p \in T |-> [items[p] EXCEPT !.order = place[p]]]
    BY DEF Renumbered
  <2>2. \A p \in T : "order" \in DOMAIN items[p]
    BY DEF IsTable, ItemRows
  <2> HIDE DEF place
  <2> QED BY <2>1, <2>2
<1> HIDE DEF Lower
<1>7. place \in Injection(T, 0..(n - 1))
  <2>1. place \in [T -> 0..(n - 1)]
    BY <1>3
  <2>2. \A p, q \in T : place[p] = place[q] => p = q
    BY <1>2, <1>4, <1>5
  <2> QED BY <2>1, <2>2 DEF Injection, IsInjective
<1>8. IsFiniteSet(0..(n - 1)) /\ Cardinality(0..(n - 1)) = n
  BY <1>1, FS_Interval
<1>9. place \in Surjection(T, 0..(n - 1))
  <2> HIDE DEF place, n
  <2> QED BY <1>7, <1>8, FS_Injection DEF n
<1>10. {place[p] : p \in T} = 0..(n - 1)
  <2> HIDE DEF place, n
  <2> QED BY <1>9 DEF Surjection
<1> HIDE DEF place
<1> QED BY <1>6, <1>10

\* The podcast list and the others of an opened library, as sequences.
LEMMA SoundLists ==
  ASSUME NEW db, Consistent(db), ListsSound(db), NEW c \in DOMAIN db.container
  PROVE  IsList(db, c, Listed(db, c)) /\ Listed(db, c) \in Seq(Nat)
<1>1. \A m \in db.members : m.item \in Nat
  BY DEF Consistent, References, Typed, IsTable
<1>2. IsFiniteSet(MembersOf(db, c)) /\ Contiguous(db.members)
  BY DEF ListsSound
<1>3. IsList(db, c, Listed(db, c))
  BY <1>1, <1>2, ContiguousIsList
<1> QED BY <1>3 DEF IsList

\* The checks of a removal find nothing.
LEMMA RemovalIsValid ==
  ASSUME NEW db, Consistent(db), ListsSound(db), NEW gone \in SUBSET (DOMAIN db.item)
  PROVE  /\ RemovalValid(Removed(db, gone), gone)
         /\ \A c \in DOMAIN db.container : IsList(Removed(db, gone), c, Staying(Listed(db, c), gone))
         /\ DOMAIN Removed(db, gone).item = DOMAIN db.item \ gone
         /\ Removed(db, gone).container = db.container
<1> DEFINE d == Removed(db, gone)
           items == [p \in DOMAIN db.item \ gone |-> db.item[p]]
           left == {m \in db.members : m.item \notin gone}
<1>1. /\ d.item = Renumbered(items) /\ d.members = RenumberedMembers(left)
      /\ d.rows = {row \in db.rows : row[2] \notin gone} /\ d.container = db.container
  BY DEF Removed, Consistent, Typed, Tables
<1> HIDE DEF d
<1>2. Typed(db) /\ References(db)
  BY DEF Consistent
<1>3. IsTable(items, ItemRows) /\ DOMAIN items = DOMAIN db.item \ gone
  <2>1. /\ IsFiniteSet(DOMAIN db.item) /\ DOMAIN db.item \subseteq Nat \ {0}
        /\ db.item \in [DOMAIN db.item -> ItemRows]
    BY <1>2 DEF Typed, IsTable
  <2>2. IsFiniteSet(DOMAIN db.item \ gone)
    BY <2>1, FS_Subset
  <2>3. items \in [DOMAIN db.item \ gone -> ItemRows]
    BY <2>1
  <2> QED BY <2>1, <2>2, <2>3 DEF IsTable
<1>4. DOMAIN d.item = DOMAIN db.item \ gone
  BY <1>1, <1>3, RenumberedItems
<1>5. {d.item[p].order : p \in DOMAIN d.item} = 0..(Cardinality(DOMAIN d.item) - 1)
  <2> DEFINE new == Renumbered(items)
  <2> HIDE DEF items
  <2>1. {new[p].order : p \in DOMAIN new} = 0..(Cardinality(DOMAIN new) - 1)
    BY <1>3, RenumberedOrders
  <2>2. d.item = new
    BY <1>1
  <2> HIDE DEF new
  <2> QED BY <2>1, <2>2
<1>6. ASSUME NEW c \in DOMAIN db.container PROVE IsList(d, c, Staying(Listed(db, c), gone))
  <2>1. IsList(db, c, Listed(db, c))
    BY SoundLists
  <2>2. \A m \in db.members : DOMAIN m = {"container", "item", "order"}
    BY <1>2 DEF Typed
  <2> QED BY <1>1, <2>1, <2>2, RenumberedList
<1>7. \A m \in d.members : m.container \in DOMAIN db.container /\ m.item \notin gone
  <2>1. \A m \in left : /\ DOMAIN m = {"container", "item", "order"}
                        /\ m.container \in DOMAIN db.container /\ m.item \notin gone
    BY <1>2 DEF Typed, References
  <2> HIDE DEF left
  <2>2. ASSUME NEW m \in d.members PROVE \E n \in left : m.container = n.container /\ m.item = n.item
    <3> DEFINE at(n) == Cardinality({o \in left : o.container = n.container /\ o.order < n.order})
    <3>1. PICK n \in left : m = [n EXCEPT !.order = at(n)]
      BY <1>1, <2>2 DEF RenumberedMembers
    <3> QED BY <2>1, <3>1
  <2> QED BY <2>1, <2>2
<1>8. Contiguous(d.members)
  BY <1>6, <1>7, ListsAreContiguous
<1>9. RemovalValid(d, gone)
  BY <1>1, <1>4, <1>5, <1>7, <1>8 DEF RemovalValid
<1> QED BY <1>1, <1>4, <1>6, <1>9 DEF d

\* The rows of a track among the memberships.
PlacesOf(db, p) == {m \in db.members : m.item = p}

\* A membership more, and where it is.
LEMMA JoinedPlaces ==
  ASSUME NEW db, DOMAIN db = Tables, NEW p, NEW c
  PROVE  LET d == Joined(db, p, c)
         IN  /\ DOMAIN d = Tables /\ d.container = db.container
             /\ \A q : q # p => PlacesOf(d, q) = PlacesOf(db, q)
             /\ \E row : row.container = c /\ PlacesOf(d, p) = PlacesOf(db, p) \cup {row}
<1> DEFINE d == Joined(db, p, c)
           row == [container |-> c, item |-> p, order |-> Max({m.order + 1 : m \in MembersOf(db, c)} \cup {0})]
<1>1. DOMAIN d = Tables /\ d.container = db.container /\ d.members = db.members \cup {row}
  BY DEF Joined, Tables
<1>2. row.container = c /\ row.item = p
  OBVIOUS
<1> HIDE DEF d, row
<1> QED BY <1>1, <1>2 DEF PlacesOf, d

\* The podcast list that an episode needs, and nothing else.
LEMMA WithPodcastListIs ==
  ASSUME NEW db, DOMAIN db = Tables
  PROVE  LET d == WithPodcastList(db)
         IN  /\ DOMAIN d = Tables /\ d.members = db.members
             /\ d.container = IF PodcastLists(db) # {} THEN db.container
                              ELSE Inserted(db.container, PodcastList, Container("Podcasts", TRUE, "podcasts"))
BY DEF WithPodcastList, Tables

\* The containers after an addition.
ContainersAfter(db, podcast) ==
  IF podcast /\ PodcastLists(db) = {}
  THEN Inserted(db.container, PodcastList, Container("Podcasts", TRUE, "podcasts"))
  ELSE db.container

\* An addition puts the track at the end of the master list, an episode also at the
\* end of the podcast list, and leaves the other lists and tracks.
LEMMA ListedInIs ==
  ASSUME NEW db, DOMAIN db = Tables, NEW p \in Nat, NEW podcast \in BOOLEAN, PlacesOf(db, p) = {},
         PodcastContainer(db) # MasterList
  PROVE  LET d == ListedIn(db, p, podcast)
         IN  /\ d.container = ContainersAfter(db, podcast)
             /\ \A s : IsList(db, MasterList, s) => IsList(d, MasterList, Append(s, p))
             /\ podcast => \A s : IsList(db, PodcastContainer(db), s) => IsList(d, PodcastContainer(db), Append(s, p))
             /\ \A c : c # MasterList /\ (podcast => c # PodcastContainer(db)) => MembersOf(d, c) = MembersOf(db, c)
             /\ \A q : q # p => PlacesOf(d, q) = PlacesOf(db, q)
             /\ Cardinality(PlacesOf(d, p)) = IF podcast THEN 2 ELSE 1
<1> DEFINE P == PodcastContainer(db)
           a == Joined(db, p, MasterList)
           b == WithPodcastList(a)
           d == Joined(b, p, P)
<1>1. /\ DOMAIN a = Tables /\ a.container = db.container
      /\ \A q : q # p => PlacesOf(a, q) = PlacesOf(db, q)
      /\ \E row : row.container = MasterList /\ PlacesOf(a, p) = {row}
  BY JoinedPlaces
<1>2. /\ \A s : IsList(db, MasterList, s) => IsList(a, MasterList, Append(s, p))
      /\ \A c : c # MasterList => MembersOf(a, c) = MembersOf(db, c)
  BY JoinedList
<1>3. PodcastLists(a) = PodcastLists(db)
  BY <1>1 DEF PodcastLists
<1>4. ListedIn(db, p, podcast) = IF podcast THEN d ELSE a
  BY DEF ListedIn
<1>5. CASE ~ podcast
  <2>1. PICK row : PlacesOf(a, p) = {row}
    BY <1>1
  <2>2. Cardinality(PlacesOf(a, p)) = 1
    BY <2>1, FS_Singleton
  <2> HIDE DEF a
  <2> QED BY <1>1, <1>2, <1>4, <1>5, <2>2 DEF ContainersAfter
<1>6. CASE podcast
  <2>1. DOMAIN b = Tables /\ b.members = a.members /\ b.container = ContainersAfter(db, podcast)
    <3> HIDE DEF a
    <3> QED BY <1>1, <1>3, <1>6, WithPodcastListIs DEF ContainersAfter
  <2>2. /\ \A c : MembersOf(b, c) = MembersOf(a, c) /\ \A q : PlacesOf(b, q) = PlacesOf(a, q)
        /\ \A s, c : IsList(a, c, s) <=> IsList(b, c, s)
    BY <2>1 DEF MembersOf, PlacesOf, IsList
  <2> HIDE DEF b, P
  <2>3. /\ DOMAIN d = Tables /\ d.container = b.container
        /\ \A q : q # p => PlacesOf(d, q) = PlacesOf(b, q)
        /\ \E row : row.container = P /\ PlacesOf(d, p) = PlacesOf(b, p) \cup {row}
    BY <2>1, JoinedPlaces
  <2>4. /\ \A s : IsList(b, P, s) => IsList(d, P, Append(s, p))
        /\ \A c : c # P => MembersOf(d, c) = MembersOf(b, c)
    BY <2>1, JoinedList
  <2> HIDE DEF a, d
  <2>5. Cardinality(PlacesOf(d, p)) = 2
    <3>1. PICK one : one.container = MasterList /\ PlacesOf(a, p) = {one}
      BY <1>1
    <3>2. PICK two : two.container = P /\ PlacesOf(d, p) = {one} \cup {two}
      BY <2>2, <2>3, <3>1
    <3>3. one # two
      BY <3>1, <3>2 DEF P
    <3>4. IsFiniteSet({one}) /\ Cardinality({one}) = 1 /\ two \notin {one}
      BY <3>3, FS_Singleton
    <3>5. Cardinality({one} \cup {two}) = 1 + 1
      BY <3>4, FS_AddElement
    <3> QED BY <3>2, <3>5
  <2>6. ASSUME NEW s, IsList(db, MasterList, s) PROVE IsList(d, MasterList, Append(s, p))
    <3>1. IsList(b, MasterList, Append(s, p))
      BY <1>2, <2>2, <2>6
    <3>2. MembersOf(d, MasterList) = MembersOf(b, MasterList)
      BY <2>4 DEF P
    <3> QED BY <3>1, <3>2 DEF IsList
  <2>7. ASSUME NEW s, IsList(db, P, s) PROVE IsList(d, P, Append(s, p))
    <3>1. MembersOf(b, P) = MembersOf(db, P)
      BY <1>2, <2>2 DEF P
    <3>2. IsList(b, P, s)
      BY <2>7, <3>1 DEF IsList
    <3> QED BY <2>4, <3>2
  <2>8. \A c : c # MasterList /\ c # P => MembersOf(d, c) = MembersOf(db, c)
    BY <1>2, <2>2, <2>4
  <2>9. \A q : q # p => PlacesOf(d, q) = PlacesOf(db, q)
    BY <1>1, <2>2, <2>3
  <2>10. ListedIn(db, p, podcast) = d
    BY <1>4, <1>6
  <2> QED BY <1>6, <2>1, <2>3, <2>5, <2>6, <2>7, <2>8, <2>9, <2>10 DEF P
<1> QED BY <1>5, <1>6

------------------------------------------------------------------------------
(* What is asked for *)

\* An edit that a session lets through, on the library it has opened.
Asked(old, e) ==
  /\ e.additions \in Seq(AdditionRows) /\ e.removals \in SUBSET (DOMAIN old.item)
  /\ \A i \in DOMAIN e.additions :
       e.additions[i].pid \in ItemPids /\ e.additions[i].pid \notin DOMAIN old.item
  /\ SoundQueue(e.playlists)
  /\ \A x \in e.playlists : IF x.op = "create" THEN x.id \notin DOMAIN old.container \cup DOMAIN old.item
                            ELSE Standard(old, x.id)

\* The tracks that are asked for, as validate_semantics lists them, and those of
\* the first n that go into the lists.
PidsOf(e) == [i \in DOMAIN e.additions |-> e.additions[i].pid]
First(e, n) == Selected(PidsOf(e), 1..n)
Episodes(e, n) == Selected(PidsOf(e), {i \in 1..n : e.additions[i].podcast})

Joining1(old, e, n, c) ==
  IF c = MasterList THEN First(e, n) ELSE IF c \in PodcastLists(old) THEN Episodes(e, n) ELSE <<>>

\* A list after the removals and the first n additions.
Wanted(old, e, n, c) == Staying(Listed(old, c), e.removals) \o Joining1(old, e, n, c)

\* A podcast list had to be made for the first n additions.
NewList(old, e, n) == PodcastLists(old) = {} /\ \E i \in 1..n : e.additions[i].podcast

\* The lists after the first n additions.
ListsAsked(old, e, n, db) ==
  /\ \A c \in DOMAIN old.container :
       /\ c \in DOMAIN db.container /\ db.container[c] = old.container[c]
       /\ IsList(db, c, Wanted(old, e, n, c))
  /\ NewList(old, e, n) =>
       /\ PodcastList \in DOMAIN db.container
       /\ db.container[PodcastList] = Container("Podcasts", TRUE, "podcasts")
       /\ IsList(db, PodcastList, Episodes(e, n))
  /\ \A c \in DOMAIN db.container : c \in DOMAIN old.container \/ (c = PodcastList /\ NewList(old, e, n))

\* A library that an edit can be asked of.
Opened(old) == Consistent(old) /\ ListsSound(old)

\* The pids that are asked for are numbers.
LEMMA PidsAreNats ==
  ASSUME NEW old, NEW e, Asked(old, e)
  PROVE  /\ PidsOf(e) \in Seq(Nat) /\ Len(PidsOf(e)) = Len(e.additions) /\ Len(e.additions) \in Nat
         /\ DOMAIN e.additions = 1..Len(e.additions)
         /\ \A i \in 1..Len(e.additions) : /\ PidsOf(e)[i] = e.additions[i].pid /\ e.additions[i].pid \in Nat
                                           /\ e.additions[i] \in AdditionRows /\ e.additions[i].podcast \in BOOLEAN
<1>1. e.additions \in Seq(AdditionRows)
  BY DEF Asked
<1>2. Len(e.additions) \in Nat /\ DOMAIN e.additions = 1..Len(e.additions)
  BY <1>1, LenProperties
<1>3. \A i \in 1..Len(e.additions) : e.additions[i] \in AdditionRows
  BY <1>1, ElementOfSeq
<1>4. \A i \in 1..Len(e.additions) : e.additions[i].pid \in Nat /\ e.additions[i].podcast \in BOOLEAN
  BY <1>3 DEF AdditionRows
<1>5. PidsOf(e) \in [1..Len(e.additions) -> Nat]
  BY <1>2, <1>4 DEF PidsOf
<1>6. PidsOf(e) \in Seq(Nat)
  BY <1>2, <1>5, SeqDef
<1>7. Len(PidsOf(e)) = Len(e.additions)
  BY <1>2, <1>5, <1>6, LenProperties
<1> QED BY <1>2, <1>3, <1>4, <1>6, <1>7 DEF PidsOf

\* One addition more is one more of the first, and of the episodes if it is one.
LEMMA OneMore ==
  ASSUME NEW old, NEW e, Asked(old, e), NEW n \in 0..(Len(e.additions) - 1),
         NEW add, add = e.additions[n + 1]
  PROVE  /\ First(e, n) \in Seq(Nat) /\ Episodes(e, n) \in Seq(Nat)
         /\ First(e, n + 1) = Append(First(e, n), add.pid)
         /\ Episodes(e, n + 1) = IF add.podcast THEN Append(Episodes(e, n), add.pid) ELSE Episodes(e, n)
<1> DEFINE s == PidsOf(e)
           P == {i \in 1..n : e.additions[i].podcast}
<1>1. s \in Seq(Nat) /\ Len(s) = Len(e.additions) /\ Len(s) \in Nat
      /\ \A i \in 1..Len(s) : s[i] = e.additions[i].pid
  BY PidsAreNats
<1> HIDE DEF s
<1>2. PICK m \in 1..Len(s) : m = n + 1
  BY <1>1
<1>3. 1..n \in SUBSET (1..Len(s)) /\ P \in SUBSET (1..Len(s))
      /\ 1..n \in SUBSET (1..(m - 1)) /\ P \in SUBSET (1..(m - 1))
  BY <1>1, <1>2
<1>4. 1..m = (1..n) \cup {m} /\ s[m] = add.pid
  BY <1>1, <1>2
<1>5. {i \in 1..m : e.additions[i].podcast} = IF add.podcast THEN P \cup {m} ELSE P
  BY <1>2, <1>4
<1>6. First(e, n) = Selected(s, 1..n) /\ Episodes(e, n) = Selected(s, P)
      /\ First(e, m) = Selected(s, (1..n) \cup {m})
      /\ Episodes(e, m) = Selected(s, IF add.podcast THEN P \cup {m} ELSE P)
  BY <1>4, <1>5 DEF First, Episodes, s
<1> HIDE DEF P
<1>7. Selected(s, 1..n) \in Seq(Nat)
  BY <1>1, <1>3, SelectedPlaces
<1>8. Selected(s, P) \in Seq(Nat)
  BY <1>1, <1>3, SelectedPlaces
<1>9. Selected(s, (1..n) \cup {m}) = Append(Selected(s, 1..n), s[m])
  BY <1>1, <1>3, SelectedNext
<1>10. Selected(s, P \cup {m}) = Append(Selected(s, P), s[m])
  BY <1>1, <1>3, SelectedNext
<1> QED BY <1>2, <1>4, <1>6, <1>7, <1>8, <1>9, <1>10

\* What joins a list joins what has joined.
LEMMA AppendedConcat ==
  ASSUME NEW s \in Seq(Nat), NEW t \in Seq(Nat), NEW p \in Nat
  PROVE  s \o Append(t, p) = Append(s \o t, p)
<1>1. Append(t, p) = t \o <<p>> /\ s \o t \in Seq(Nat) /\ <<p>> \in Seq(Nat)
  BY AppendIsConcat, ConcatProperties
<1>2. Append(s \o t, p) = (s \o t) \o <<p>>
  BY <1>1, AppendIsConcat
<1>3. (s \o t) \o <<p>> = s \o (t \o <<p>>)
  BY <1>1, ConcatAssociative
<1> QED BY <1>1, <1>2, <1>3

\* An episode goes where the opened library would have put it.
LEMMA PodcastPlace ==
  ASSUME NEW old, Opened(old), NEW e, NEW n, NEW db, ListsAsked(old, e, n, db)
  PROVE  /\ PodcastContainer(db) = PodcastContainer(old) /\ PodcastContainer(old) # MasterList
         /\ PodcastLists(db) = {} <=> PodcastLists(old) = {} /\ ~ NewList(old, e, n)
         /\ \A c \in PodcastLists(old) : c = PodcastContainer(old)
         /\ PodcastLists(old) = {} => PodcastContainer(old) = PodcastList /\ PodcastList \notin DOMAIN old.container
<1>1. /\ \A c \in PodcastLists(old) : c # MasterList
      /\ \A c, d \in PodcastLists(old) : c = d
      /\ PodcastList \in DOMAIN old.container => PodcastList \in PodcastLists(old)
      /\ MasterList \in DOMAIN old.container /\ DOMAIN old.container \subseteq Nat
  BY DEF Opened, ListsSound, Consistent, Coherent, Typed
<1>2. Container("Podcasts", TRUE, "podcasts").kind = "podcasts"
  BY DEF Container
<1>3. \A c : c \in PodcastLists(db) <=> c \in PodcastLists(old) \/ (c = PodcastList /\ NewList(old, e, n))
  BY <1>2 DEF ListsAsked, PodcastLists
<1>4. CASE PodcastLists(old) = {}
  <2>1. PodcastContainer(old) = PodcastList /\ PodcastList \notin DOMAIN old.container
    BY <1>1, <1>4 DEF PodcastContainer
  <2>2. CASE NewList(old, e, n)
    <3>1. PodcastLists(db) = {PodcastList}
      BY <1>3, <1>4, <2>2
    <3>2. {PodcastList} \in SUBSET Nat /\ {PodcastList} # {}
      BY NamesAssumption
    <3>3. Min({PodcastList}) \in {PodcastList}
      BY <3>2, MinOfNats
    <3> QED BY <1>1, <1>4, <2>1, <2>2, <3>1, <3>3 DEF PodcastContainer
  <2>3. CASE ~ NewList(old, e, n)
    <3>1. PodcastLists(db) = {}
      BY <1>3, <1>4, <2>3
    <3> QED BY <1>1, <1>4, <2>1, <2>3, <3>1 DEF PodcastContainer
  <2> QED BY <2>2, <2>3
<1>5. CASE PodcastLists(old) # {}
  <2>1. ~ NewList(old, e, n)
    BY <1>5 DEF NewList
  <2>2. PodcastLists(db) = PodcastLists(old)
    BY <1>3, <2>1
  <2>3. PodcastLists(old) \in SUBSET Nat
    BY <1>1 DEF PodcastLists
  <2>4. Min(PodcastLists(old)) \in PodcastLists(old)
    BY <1>5, <2>3, MinOfNats
  <2>5. PodcastContainer(old) = Min(PodcastLists(old)) /\ PodcastContainer(db) = Min(PodcastLists(old))
    BY <1>5, <2>2 DEF PodcastContainer
  <2> QED BY <1>1, <1>5, <2>1, <2>2, <2>4, <2>5
<1> QED BY <1>4, <1>5

\* What stays of a list is a sequence.
LEMMA StayingIsSeq ==
  ASSUME NEW s \in Seq(Nat), NEW gone
  PROVE  Staying(s, gone) \in Seq(Nat)
<1>1. {i \in DOMAIN s : s[i] \notin gone} \in SUBSET (1..Len(s))
  BY LenProperties
<1> QED BY <1>1, SelectedPlaces DEF Staying

\* Before the first addition, nothing joins.
LEMMA NothingJoins ==
  ASSUME NEW old, NEW e, Asked(old, e)
  PROVE  First(e, 0) = <<>> /\ Episodes(e, 0) = <<>> /\ ~ NewList(old, e, 0)
<1>1. PidsOf(e) \in Seq(Nat)
  BY PidsAreNats
<1>2. 1..0 = {}
  OBVIOUS
<1>3. {i \in {} : e.additions[i].podcast} = {}
  OBVIOUS
<1>4. Selected(PidsOf(e), {}) = <<>>
  BY <1>1, SelectedNone
<1> QED BY <1>2, <1>3, <1>4 DEF First, Episodes, NewList

\* No episode, nothing in the list of the episodes.
LEMMA NoEpisodes ==
  ASSUME NEW old, NEW e, Asked(old, e), NEW n, \A i \in 1..n : ~ e.additions[i].podcast
  PROVE  Episodes(e, n) = <<>>
<1>1. PidsOf(e) \in Seq(Nat)
  BY PidsAreNats
<1>2. {i \in 1..n : e.additions[i].podcast} = {}
  OBVIOUS
<1> QED BY <1>1, <1>2, SelectedNone DEF Episodes

\* insert_track leaves the lists as they are asked for.
LEMMA ListsAfterAdding ==
  ASSUME NEW old, Opened(old), NEW e, Asked(old, e), NEW n \in 0..(Len(e.additions) - 1),
         NEW db, Typed(db), References(db), ListsAsked(old, e, n, db),
         NEW add, add = e.additions[n + 1], PlacesOf(db, add.pid) = {},
         NEW d, d.container = ListedIn(db, add.pid, add.podcast).container,
         d.members = ListedIn(db, add.pid, add.podcast).members
  PROVE  /\ ListsAsked(old, e, n + 1, d)
         /\ \A q : q # add.pid => PlacesOf(d, q) = PlacesOf(db, q)
         /\ Cardinality(PlacesOf(d, add.pid)) = IF add.podcast THEN 2 ELSE 1
<1> DEFINE P == PodcastContainer(old)
           p == add.pid
           list == Container("Podcasts", TRUE, "podcasts")
<1>1. p \in Nat /\ add.podcast \in BOOLEAN
  <2>1. n + 1 \in 1..Len(e.additions)
    BY PidsAreNats
  <2> QED BY <2>1, PidsAreNats
<1>2. /\ First(e, n) \in Seq(Nat) /\ Episodes(e, n) \in Seq(Nat)
      /\ First(e, n + 1) = Append(First(e, n), p)
      /\ Episodes(e, n + 1) = IF add.podcast THEN Append(Episodes(e, n), p) ELSE Episodes(e, n)
  BY OneMore
<1>3. /\ PodcastContainer(db) = P /\ P # MasterList
      /\ PodcastLists(db) = {} <=> PodcastLists(old) = {} /\ ~ NewList(old, e, n)
      /\ \A c \in PodcastLists(old) : c = P
      /\ PodcastLists(old) = {} => P = PodcastList /\ PodcastList \notin DOMAIN old.container
  BY PodcastPlace
<1> HIDE DEF P
<1>4. DOMAIN db = Tables
  BY DEF Typed
<1>5. /\ d.container = ContainersAfter(db, add.podcast)
      /\ \A s : IsList(db, MasterList, s) => IsList(d, MasterList, Append(s, p))
      /\ add.podcast => \A s : IsList(db, P, s) => IsList(d, P, Append(s, p))
      /\ \A c : c # MasterList /\ (add.podcast => c # P) => \A s : IsList(db, c, s) <=> IsList(d, c, s)
      /\ \A q : q # p => PlacesOf(d, q) = PlacesOf(db, q)
      /\ Cardinality(PlacesOf(d, p)) = IF add.podcast THEN 2 ELSE 1
  <2> DEFINE x == ListedIn(db, p, add.podcast)
  <2>1. /\ x.container = ContainersAfter(db, add.podcast)
        /\ \A s : IsList(db, MasterList, s) => IsList(x, MasterList, Append(s, p))
        /\ add.podcast => \A s : IsList(db, P, s) => IsList(x, P, Append(s, p))
        /\ \A c : c # MasterList /\ (add.podcast => c # P) => MembersOf(x, c) = MembersOf(db, c)
        /\ \A q : q # p => PlacesOf(x, q) = PlacesOf(db, q)
        /\ Cardinality(PlacesOf(x, p)) = IF add.podcast THEN 2 ELSE 1
    BY <1>1, <1>3, <1>4, ListedInIs
  <2>2. d.container = x.container /\ d.members = x.members
    OBVIOUS
  <2> HIDE DEF x
  <2>3. \A c : MembersOf(d, c) = MembersOf(x, c)
    BY <2>2 DEF MembersOf
  <2>4. \A q : PlacesOf(d, q) = PlacesOf(x, q)
    BY <2>2 DEF PlacesOf
  <2>5. \A c, s : IsList(d, c, s) <=> IsList(x, c, s)
    BY <2>3 DEF IsList
  <2>6. \A c : c # MasterList /\ (add.podcast => c # P) => \A s : IsList(db, c, s) <=> IsList(d, c, s)
    BY <2>1, <2>3 DEF IsList
  <2> QED BY <2>1, <2>2, <2>4, <2>5, <2>6
<1>6. NewList(old, e, n + 1) <=> NewList(old, e, n) \/ (PodcastLists(old) = {} /\ add.podcast)
  <2>1. \A i : i \in 1..(n + 1) <=> i \in 1..n \/ i = n + 1
    OBVIOUS
  <2> QED BY <2>1 DEF NewList
<1>7. /\ DOMAIN db.container \subseteq DOMAIN d.container
      /\ \A c \in DOMAIN db.container : d.container[c] = db.container[c]
      /\ add.podcast /\ PodcastLists(db) = {} => /\ DOMAIN d.container = DOMAIN db.container \cup {PodcastList}
                                                 /\ d.container[PodcastList] = list
      /\ ~ (add.podcast /\ PodcastLists(db) = {}) => DOMAIN d.container = DOMAIN db.container
  <2> HIDE DEF list
  <2>1. CASE add.podcast /\ PodcastLists(db) = {}
    <3>1. PodcastList \notin DOMAIN db.container
      BY <1>3, <2>1 DEF ListsAsked
    <3>2. d.container = Inserted(db.container, PodcastList, list)
      BY <1>5, <2>1 DEF ContainersAfter, list
    <3> QED BY <2>1, <3>1, <3>2 DEF Inserted
  <2>2. CASE ~ (add.podcast /\ PodcastLists(db) = {})
    BY <1>5, <2>2 DEF ContainersAfter
  <2> QED BY <2>1, <2>2
<1>8. ASSUME NEW c \in DOMAIN old.container
      PROVE  c \in DOMAIN d.container /\ d.container[c] = old.container[c] /\ IsList(d, c, Wanted(old, e, n + 1, c))
  <2> DEFINE base == Staying(Listed(old, c), e.removals)
  <2>1. c \in DOMAIN db.container /\ db.container[c] = old.container[c] /\ IsList(db, c, Wanted(old, e, n, c))
    BY DEF ListsAsked
  <2>2. base \in Seq(Nat)
    <3>1. Listed(old, c) \in Seq(Nat)
      BY SoundLists DEF Opened
    <3> QED BY <3>1, StayingIsSeq
  <2>3. \A m : Wanted(old, e, m, c) = base \o Joining1(old, e, m, c)
    BY DEF Wanted
  <2> HIDE DEF base
  <2>4. IsList(d, c, Wanted(old, e, n + 1, c))
    <3>1. CASE c = MasterList
      <4>1. Wanted(old, e, n, c) = base \o First(e, n) /\ Wanted(old, e, n + 1, c) = base \o First(e, n + 1)
        BY <2>3, <3>1 DEF Joining1
      <4>2. base \o Append(First(e, n), p) = Append(base \o First(e, n), p)
        BY <1>1, <1>2, <2>2, AppendedConcat
      <4> QED BY <1>2, <1>5, <2>1, <3>1, <4>1, <4>2
    <3>2. CASE c # MasterList /\ c \in PodcastLists(old)
      <4>1. Wanted(old, e, n, c) = base \o Episodes(e, n) /\ Wanted(old, e, n + 1, c) = base \o Episodes(e, n + 1)
        BY <2>3, <3>2 DEF Joining1
      <4>2. c = P
        BY <1>3, <3>2
      <4>3. base \o Append(Episodes(e, n), p) = Append(base \o Episodes(e, n), p)
        BY <1>1, <1>2, <2>2, AppendedConcat
      <4>4. CASE add.podcast
        <5>1. IsList(d, c, Append(base \o Episodes(e, n), p))
          BY <1>5, <2>1, <4>1, <4>2, <4>4
        <5> QED BY <1>2, <4>1, <4>3, <4>4, <5>1
      <4>5. CASE ~ add.podcast
        <5>1. IsList(d, c, base \o Episodes(e, n))
          BY <1>5, <2>1, <3>2, <4>1, <4>5
        <5> QED BY <1>2, <4>1, <4>5, <5>1
      <4> QED BY <4>4, <4>5
    <3>3. CASE c # MasterList /\ c \notin PodcastLists(old)
      <4>1. Wanted(old, e, n + 1, c) = Wanted(old, e, n, c)
        BY <2>3, <3>3 DEF Joining1
      <4>2. c # P
        <5>1. CASE PodcastLists(old) = {}
          BY <1>3, <5>1
        <5>2. CASE PodcastLists(old) # {}
          <6>1. PodcastLists(old) \in SUBSET Nat
            BY DEF Opened, Consistent, Typed, PodcastLists
          <6>2. P = Min(PodcastLists(old))
            BY <5>2 DEF P, PodcastContainer
          <6>3. P \in PodcastLists(old)
            BY <5>2, <6>1, <6>2, MinOfNats
          <6> QED BY <3>3, <6>3
        <5> QED BY <5>1, <5>2
      <4> QED BY <1>5, <2>1, <3>3, <4>1, <4>2
    <3> QED BY <3>1, <3>2, <3>3
  <2> QED BY <1>7, <2>1, <2>4
<1>9. ASSUME NewList(old, e, n + 1)
      PROVE  /\ PodcastList \in DOMAIN d.container /\ d.container[PodcastList] = list
             /\ IsList(d, PodcastList, Episodes(e, n + 1))
  <2>1. P = PodcastList /\ PodcastLists(old) = {} /\ PodcastList # MasterList
    BY <1>3, <1>9 DEF NewList
  <2>2. IsList(db, PodcastList, Episodes(e, n))
    <3>1. CASE NewList(old, e, n)
      BY <3>1 DEF ListsAsked
    <3>2. CASE ~ NewList(old, e, n)
      <4>1. Episodes(e, n) = <<>>
        <5>1. \A i \in 1..n : ~ e.additions[i].podcast
          BY <2>1, <3>2 DEF NewList
        <5> QED BY <5>1, NoEpisodes
      <4>2. PodcastList \notin DOMAIN db.container
        BY <1>3, <2>1, <3>2 DEF ListsAsked
      <4>3. MembersOf(db, PodcastList) = {}
        BY <4>2 DEF MembersOf, References
      <4>4. <<>> \in Seq(Nat) /\ Len(<<>>) = 0
        BY EmptySeq
      <4>5. IsList(db, PodcastList, <<>>)
        BY <4>3, <4>4 DEF IsList, Numbered
      <4> QED BY <4>1, <4>5
    <3> QED BY <3>1, <3>2
  <2>3. IsList(d, PodcastList, Episodes(e, n + 1))
    <3>1. CASE add.podcast
      <4>1. IsList(d, PodcastList, Append(Episodes(e, n), p))
        BY <1>5, <2>1, <2>2, <3>1
      <4> QED BY <1>2, <3>1, <4>1
    <3>2. CASE ~ add.podcast
      <4>1. IsList(d, PodcastList, Episodes(e, n))
        BY <1>5, <2>1, <2>2, <3>2
      <4> QED BY <1>2, <3>2, <4>1
    <3> QED BY <3>1, <3>2
  <2>4. PodcastList \in DOMAIN d.container /\ d.container[PodcastList] = list
    <3>1. CASE NewList(old, e, n)
      <4>1. PodcastList \in DOMAIN db.container /\ db.container[PodcastList] = list
        BY <3>1 DEF ListsAsked
      <4> QED BY <1>7, <4>1
    <3>2. CASE ~ NewList(old, e, n)
      BY <1>3, <1>6, <1>7, <1>9, <2>1, <3>2
    <3> QED BY <3>1, <3>2
  <2> QED BY <2>3, <2>4
<1>10. ASSUME NEW c \in DOMAIN d.container
       PROVE  c \in DOMAIN old.container \/ (c = PodcastList /\ NewList(old, e, n + 1))
  <2>1. CASE c \in DOMAIN db.container
    BY <1>6, <2>1 DEF ListsAsked
  <2>2. CASE c \notin DOMAIN db.container
    <3>1. add.podcast /\ PodcastLists(db) = {}
      BY <1>7, <2>2
    <3>2. c = PodcastList
      <4>1. DOMAIN d.container = DOMAIN db.container \cup {PodcastList}
        BY <1>7, <3>1
      <4> HIDE DEF list
      <4> QED BY <2>2, <4>1
    <3>3. PodcastLists(old) = {}
      BY <1>3, <3>1
    <3> QED BY <1>6, <3>1, <3>2, <3>3
  <2> QED BY <2>1, <2>2
<1> HIDE DEF list
<1>11. ListsAsked(old, e, n + 1, d)
  BY <1>8, <1>9, <1>10 DEF ListsAsked, list
<1> QED BY <1>5, <1>11

\* The tracks after the first n additions, no id of them used twice.
TracksAsked(old, e, n, db) ==
  /\ DOMAIN db.item = (DOMAIN old.item \ e.removals) \cup {e.additions[i].pid : i \in 1..n}
  /\ \A i, j \in 1..n : e.additions[i].pid = e.additions[j].pid => i = j

\* Each of them has its companion rows and its memberships.
RowsAsked(e, n, db) ==
  \A i \in 1..n :
    /\ {row \in db.rows : row[2] = e.additions[i].pid}
         = CompanionRows(e.additions[i].podcast) \X {e.additions[i].pid}
    /\ Cardinality(PlacesOf(db, e.additions[i].pid)) = IF e.additions[i].podcast THEN 2 ELSE 1

\* insert_track leaves the tracks as they are asked for.
LEMMA TracksAfterAdding ==
  ASSUME NEW old, Opened(old), NEW e, Asked(old, e), NEW n \in 0..(Len(e.additions) - 1),
         NEW db, Consistent(db), ListsAsked(old, e, n, db), TracksAsked(old, e, n, db), RowsAsked(e, n, db),
         NEW add, add = e.additions[n + 1], Addable(db, add)
  PROVE  /\ ListsAsked(old, e, n + 1, Added(db, add)) /\ TracksAsked(old, e, n + 1, Added(db, add))
         /\ RowsAsked(e, n + 1, Added(db, add))
<1> DEFINE d == Added(db, add)
           p == add.pid
           Pid(i) == e.additions[i].pid
<1>1. add \in AdditionRows
  <2>1. n + 1 \in 1..Len(e.additions)
    BY PidsAreNats
  <2> QED BY <2>1, PidsAreNats
<1>2. PICK r \in Nat, g \in Nat, a \in Nat \ {0} : TrackIn(db, d, add, r, a, g)
  BY <1>1, AddedTrack
<1> HIDE DEF d
<1>3. /\ DOMAIN d.item = DOMAIN db.item \cup {p}
      /\ d.rows = db.rows \cup (CompanionRows(add.podcast) \X {p})
      /\ d.container = ListedIn(db, add.pid, add.podcast).container
      /\ d.members = ListedIn(db, add.pid, add.podcast).members
  BY <1>2 DEF TrackIn, ItemIn
<1>4. Typed(db) /\ References(db) /\ p \notin DOMAIN db.item
  BY DEF Consistent, Addable
<1>5. PlacesOf(db, p) = {} /\ \A row \in db.rows : row[2] # p
  BY <1>4 DEF References, PlacesOf
<1>6. /\ ListsAsked(old, e, n + 1, d)
      /\ \A q : q # p => PlacesOf(d, q) = PlacesOf(db, q)
      /\ Cardinality(PlacesOf(d, p)) = IF add.podcast THEN 2 ELSE 1
  BY <1>3, <1>4, <1>5, ListsAfterAdding
<1>7. \A i : i \in 1..(n + 1) <=> i \in 1..n \/ i = n + 1
  OBVIOUS
<1>8. Pid(n + 1) = p
  OBVIOUS
<1>9. \A i \in 1..n : Pid(i) \in DOMAIN db.item /\ Pid(i) # p
  BY <1>4 DEF TracksAsked
<1> HIDE DEF Pid, p
<1>10. TracksAsked(old, e, n + 1, d)
  <2>1. {Pid(i) : i \in 1..(n + 1)} = {Pid(i) : i \in 1..n} \cup {p}
    BY <1>7, <1>8
  <2>2. DOMAIN db.item = (DOMAIN old.item \ e.removals) \cup {Pid(i) : i \in 1..n}
        /\ \A i, j \in 1..n : Pid(i) = Pid(j) => i = j
    BY DEF TracksAsked, Pid
  <2>3. DOMAIN d.item = (DOMAIN old.item \ e.removals) \cup {Pid(i) : i \in 1..(n + 1)}
    BY <1>3, <2>1, <2>2
  <2>4. \A i, j \in 1..(n + 1) : Pid(i) = Pid(j) => i = j
    BY <1>7, <1>8, <1>9, <2>2
  <2> QED BY <2>3, <2>4 DEF TracksAsked, Pid
<1>11. RowsAsked(e, n + 1, d)
  <2>1. SUFFICES ASSUME NEW i \in 1..(n + 1)
                 PROVE  /\ {row \in d.rows : row[2] = Pid(i)} = CompanionRows(e.additions[i].podcast) \X {Pid(i)}
                        /\ Cardinality(PlacesOf(d, Pid(i))) = IF e.additions[i].podcast THEN 2 ELSE 1
    BY DEF RowsAsked, Pid
  <2> DEFINE new == CompanionRows(add.podcast) \X {p}
  <2>2. \A row \in new : row[2] = p
    OBVIOUS
  <2>3. d.rows = db.rows \cup new
    BY <1>3
  <2> HIDE DEF new
  <2>4. CASE i = n + 1
    <3>1. {row \in d.rows : row[2] = p} = new
      BY <1>5, <2>2, <2>3
    <3>2. Pid(i) = p /\ e.additions[i] = add
      BY <1>8, <2>4
    <3> QED BY <1>6, <3>1, <3>2 DEF new
  <2>5. CASE i # n + 1
    <3>1. i \in 1..n /\ Pid(i) # p
      BY <1>7, <1>9, <2>5
    <3>2. {row \in d.rows : row[2] = Pid(i)} = {row \in db.rows : row[2] = Pid(i)}
      BY <2>2, <2>3, <3>1
    <3>3. PlacesOf(d, Pid(i)) = PlacesOf(db, Pid(i))
      BY <1>6, <3>1
    <3>4. /\ {row \in db.rows : row[2] = Pid(i)} = CompanionRows(e.additions[i].podcast) \X {Pid(i)}
          /\ Cardinality(PlacesOf(db, Pid(i))) = IF e.additions[i].podcast THEN 2 ELSE 1
      BY <3>1 DEF RowsAsked, Pid
    <3> QED BY <3>2, <3>3, <3>4
  <2> QED BY <2>4, <2>5
<1> QED BY <1>6, <1>10, <1>11 DEF d

\* An addition is refused for an id that is used twice or an artist that is missing.
LEMMA RefusedForCause ==
  ASSUME NEW old, NEW e, Asked(old, e), NEW n \in 0..(Len(e.additions) - 1),
         NEW db, Typed(db), TracksAsked(old, e, n, db),
         NEW add, add = e.additions[n + 1], ~ Addable(db, add)
  PROVE  \/ add.artist = NoName
         \/ \E i \in 1..n : e.additions[i].pid = add.pid
<1>1. add \in AdditionRows /\ n + 1 \in DOMAIN e.additions
  <2>1. n + 1 \in 1..Len(e.additions)
    BY PidsAreNats
  <2> QED BY <2>1, PidsAreNats
<1>2. add.pid # 0 /\ add.pid \notin DOMAIN old.item
  BY <1>1, SqliteAssumption DEF Asked
<1>3. add.artist = NoName \/ add.pid \in DOMAIN db.item
  <2> DEFINE r == ResolvedArtist(db, add.artist)
             d == WithArtist(db, r, add.artist)
             found == Matching(db.artist, DOMAIN db.artist, add.artist)
  <2>1. SUFFICES ASSUME add.artist # NoName, add.pid \notin DOMAIN db.item PROVE FALSE
    OBVIOUS
  <2>2. r # 0
    <3>1. r = IF found # {} THEN Min(found) ELSE NextPid(db)
      BY <2>1 DEF ResolvedArtist
    <3>2. found \in SUBSET Nat /\ 0 \notin found
      BY MatchingFinds DEF Typed, IsTable
    <3>3. NextPid(db) # 0
      BY NextPidIsNew
    <3> HIDE DEF found
    <3>4. found # {} => Min(found) \in found
      BY <3>2, MinOfNats
    <3> QED BY <3>1, <3>2, <3>3, <3>4
  <2>3. ArtistIn(db.artist, d.artist, r, add.artist)
    <3>1. add.artist \in Names
      BY <1>1 DEF AdditionRows
    <3> QED BY <3>1, ArtistResolved
  <2>4. r \in DOMAIN d.artist
    <3> HIDE DEF d, r
    <3> QED BY <2>2, <2>3 DEF ArtistIn
  <2> QED BY <1>2, <2>1, <2>4 DEF Addable
<1> QED BY <1>2, <1>3 DEF TracksAsked

\* Sorting touches neither the lists nor which tracks there are.
LEMMA SortedAsked ==
  ASSUME NEW old, NEW e, NEW n, NEW db, NEW d, SameRows(db, d)
  PROVE  /\ ListsAsked(old, e, n, db) => ListsAsked(old, e, n, d)
         /\ TracksAsked(old, e, n, db) => TracksAsked(old, e, n, d)
         /\ RowsAsked(e, n, db) => RowsAsked(e, n, d)
<1>1. d.container = db.container /\ d.members = db.members /\ d.rows = db.rows /\ DOMAIN d.item = DOMAIN db.item
  BY DEF SameRows
<1>2. \A c, s : IsList(d, c, s) <=> IsList(db, c, s)
  BY <1>1 DEF IsList, MembersOf
<1>3. \A p : PlacesOf(d, p) = PlacesOf(db, p)
  BY <1>1 DEF PlacesOf
<1>4. ListsAsked(old, e, n, db) => ListsAsked(old, e, n, d)
  BY <1>1, <1>2 DEF ListsAsked
<1>5. TracksAsked(old, e, n, db) => TracksAsked(old, e, n, d)
  BY <1>1 DEF TracksAsked
<1>6. RowsAsked(e, n, db) => RowsAsked(e, n, d)
  BY <1>1, <1>3 DEF RowsAsked
<1> QED BY <1>4, <1>5, <1>6

\* The removals leave what is asked for before any addition.
LEMMA RemovedAsked ==
  ASSUME NEW old, Opened(old), NEW e, Asked(old, e)
  PROVE  LET d == Removed(old, e.removals)
         IN  ListsAsked(old, e, 0, d) /\ TracksAsked(old, e, 0, d) /\ RowsAsked(e, 0, d)
<1> DEFINE d == Removed(old, e.removals)
<1>1. e.removals \in SUBSET (DOMAIN old.item) /\ Consistent(old) /\ ListsSound(old)
  BY DEF Asked, Opened
<1>2. /\ \A c \in DOMAIN old.container : IsList(d, c, Staying(Listed(old, c), e.removals))
      /\ DOMAIN d.item = DOMAIN old.item \ e.removals
      /\ d.container = old.container
  BY <1>1, RemovalIsValid
<1> HIDE DEF d
<1>3. First(e, 0) = <<>> /\ Episodes(e, 0) = <<>> /\ ~ NewList(old, e, 0)
  BY NothingJoins
<1>4. ASSUME NEW c \in DOMAIN old.container PROVE Wanted(old, e, 0, c) = Staying(Listed(old, c), e.removals)
  <2>1. Joining1(old, e, 0, c) = <<>>
    BY <1>3 DEF Joining1
  <2>2. Staying(Listed(old, c), e.removals) \in Seq(Nat)
    BY <1>1, SoundLists, StayingIsSeq
  <2> QED BY <2>1, <2>2, ConcatEmptySeq DEF Wanted
<1>5. ListsAsked(old, e, 0, d)
  BY <1>2, <1>3, <1>4 DEF ListsAsked
<1>6. 1..0 = {}
  OBVIOUS
<1>7. TracksAsked(old, e, 0, d) /\ RowsAsked(e, 0, d)
  BY <1>2, <1>6 DEF TracksAsked, RowsAsked
<1> QED BY <1>5, <1>7 DEF d

\* All of a list stays when nothing is removed.
LEMMA NothingRemoved ==
  ASSUME NEW old, Opened(old), NEW e, Asked(old, e), e.removals = {}
  PROVE  ListsAsked(old, e, 0, old) /\ TracksAsked(old, e, 0, old) /\ RowsAsked(e, 0, old)
<1>1. Consistent(old) /\ ListsSound(old)
  BY DEF Opened
<1>2. First(e, 0) = <<>> /\ Episodes(e, 0) = <<>> /\ ~ NewList(old, e, 0)
  BY NothingJoins
<1>3. ASSUME NEW c \in DOMAIN old.container PROVE IsList(old, c, Wanted(old, e, 0, c))
  <2> DEFINE s == Listed(old, c)
  <2>1. IsList(old, c, s) /\ s \in Seq(Nat)
    BY <1>1, SoundLists
  <2> HIDE DEF s
  <2>2. Staying(s, {}) = s
    <3>1. {i \in DOMAIN s : s[i] \notin {}} = 1..Len(s) /\ Len(s) \in Nat
      BY <2>1, LenProperties
    <3>2. Places(s, 1..Len(s), s, [i \in 1..Len(s) |-> i])
      BY <3>1 DEF Places
    <3>3. Selected(s, 1..Len(s)) = s
      <4>1. 1..Len(s) \in SUBSET (1..Len(s))
        OBVIOUS
      <4>2. PICK pos : Places(s, 1..Len(s), s, pos)
        BY <3>2
      <4> QED BY <2>1, <4>1, <4>2, SelectedIs
    <3> QED BY <3>1, <3>3 DEF Staying
  <2>3. Joining1(old, e, 0, c) = <<>>
    BY <1>2 DEF Joining1
  <2>4. Wanted(old, e, 0, c) = s \o <<>>
    BY <2>2, <2>3 DEF Wanted, s
  <2>5. s \o <<>> = s
    BY <2>1, ConcatEmptySeq
  <2> QED BY <2>1, <2>4, <2>5
<1>4. ListsAsked(old, e, 0, old)
  BY <1>2, <1>3 DEF ListsAsked
<1>5. 1..0 = {}
  OBVIOUS
<1>6. TracksAsked(old, e, 0, old) /\ RowsAsked(e, 0, old)
  BY <1>5 DEF TracksAsked, RowsAsked
<1> QED BY <1>4, <1>6

\* A container under a new name, if one is given.
Renamed(row, name) == IF name = NoName THEN row ELSE [row EXCEPT !.name = name]

\* Another name changes the name.
LEMMA WithNameIs ==
  ASSUME NEW db, DOMAIN db = Tables, NEW c \in DOMAIN db.container, NEW name
  PROVE  LET d == WithName(db, c, name)
         IN  /\ DOMAIN d = Tables /\ d.members = db.members /\ d.item = db.item
             /\ DOMAIN d.container = DOMAIN db.container /\ d.container[c] = Renamed(db.container[c], name)
             /\ \A b \in DOMAIN db.container : b # c => d.container[b] = db.container[b]
<1>1. CASE name = NoName
  BY <1>1 DEF WithName, Renamed
<1>2. CASE name # NoName
  <2> DEFINE d == WithName(db, c, name)
  <2>1. d = [db EXCEPT !.container[c].name = name]
    BY <1>2 DEF WithName
  <2>2. /\ DOMAIN d = Tables /\ d.members = db.members /\ d.item = db.item
        /\ d.container = [db.container EXCEPT ![c] = [db.container[c] EXCEPT !.name = name]]
    BY <2>1 DEF Tables
  <2>3. Renamed(db.container[c], name) = [db.container[c] EXCEPT !.name = name]
    BY <1>2 DEF Renamed
  <2> HIDE DEF d
  <2> QED BY <2>2, <2>3 DEF d
<1> QED BY <1>1, <1>2

\* Replaced members change no container.
LEMMA ReplacedTables ==
  ASSUME NEW db, DOMAIN db = Tables, NEW c, NEW s
  PROVE  LET d == ReplacedMembers(db, c, s)
         IN  DOMAIN d = Tables /\ d.item = db.item /\ d.container = db.container
<1> DEFINE new == {[container |-> c, item |-> s[i], order |-> i - 1] : i \in DOMAIN s}
<1>1. ReplacedMembers(db, c, s) = [db EXCEPT !.members = {m \in @ : m.container # c} \cup new]
  BY DEF ReplacedMembers
<1> HIDE DEF new
<1> QED BY <1>1 DEF Tables

\* An edit changes the playlist it is for.
EditOnly(db, d, x) ==
  /\ DOMAIN d = Tables /\ d.item = db.item
  /\ \A b : b # x.id => MembersOf(d, b) = MembersOf(db, b)
  /\ \A b : b # x.id => (b \in DOMAIN d.container <=> b \in DOMAIN db.container)
  /\ \A b \in DOMAIN db.container : b # x.id => d.container[b] = db.container[b]

\* And as it says.
EditDone(db, d, x) ==
  /\ x.op = "create" => /\ x.id \in DOMAIN d.container /\ d.container[x.id] = Container(x.name, FALSE, "list")
                        /\ IsList(d, x.id, x.members)
  /\ x.op = "update" => /\ x.id \in DOMAIN d.container
                        /\ d.container[x.id] = Renamed(db.container[x.id], x.name)
                        /\ IsList(d, x.id, x.members)
  /\ x.op = "rename" => /\ x.id \in DOMAIN d.container
                        /\ d.container[x.id] = Renamed(db.container[x.id], x.name)
                        /\ MembersOf(d, x.id) = MembersOf(db, x.id)
  /\ x.op = "delete" => x.id \notin DOMAIN d.container

\* edit_staged_playlists does what an edit says, to the one playlist it names.
LEMMA PlaylistEditedIs ==
  ASSUME NEW db, DOMAIN db = Tables, NEW x, x.op \in {"create", "update", "rename", "delete"},
         x.members \in Seq(Nat), Applicable(db, x.id, x)
  PROVE  EditOnly(db, PlaylistEdited(db, x.id, x), x) /\ EditDone(db, PlaylistEdited(db, x.id, x), x)
<1> DEFINE d == PlaylistEdited(db, x.id, x)
<1>1. CASE x.op = "create"
  <2> DEFINE row == Container(x.name, FALSE, "list")
             b == [db EXCEPT !.container = Inserted(@, x.id, row), !.ui = @ \cup {x.id}]
  <2>1. x.id \notin DOMAIN db.container /\ d = ReplacedMembers(b, x.id, x.members)
    BY <1>1 DEF Applicable, PlaylistEdited
  <2> HIDE DEF row
  <2>2. /\ DOMAIN b = Tables /\ b.members = db.members /\ b.item = db.item
        /\ b.container = Inserted(db.container, x.id, row)
    BY DEF Tables
  <2> HIDE DEF b
  <2>3. /\ DOMAIN b.container = DOMAIN db.container \cup {x.id} /\ b.container[x.id] = row
        /\ \A k \in DOMAIN db.container : b.container[k] = db.container[k]
    BY <2>1, <2>2 DEF Inserted
  <2>4. IsList(d, x.id, x.members) /\ \A k : k # x.id => MembersOf(d, k) = MembersOf(b, k)
    BY <2>1, <2>2, ReplacedList
  <2>5. DOMAIN d = Tables /\ d.item = b.item /\ d.container = b.container
    BY <2>1, <2>2, ReplacedTables
  <2>6. \A k : MembersOf(b, k) = MembersOf(db, k)
    BY <2>2 DEF MembersOf
  <2> HIDE DEF d
  <2>7. EditOnly(db, d, x)
    BY <2>2, <2>3, <2>4, <2>5, <2>6 DEF EditOnly
  <2>8. EditDone(db, d, x)
    BY <1>1, <2>3, <2>4, <2>5 DEF EditDone, row
  <2> QED BY <2>7, <2>8 DEF d
<1>2. CASE x.op = "update"
  <2> DEFINE b == WithName(db, x.id, x.name)
  <2>1. x.id \in DOMAIN db.container /\ d = ReplacedMembers(b, x.id, x.members)
    BY <1>2 DEF Applicable, PlaylistEdited, Standard
  <2>2. /\ DOMAIN b = Tables /\ b.members = db.members /\ b.item = db.item
        /\ DOMAIN b.container = DOMAIN db.container /\ b.container[x.id] = Renamed(db.container[x.id], x.name)
        /\ \A k \in DOMAIN db.container : k # x.id => b.container[k] = db.container[k]
    BY <2>1, WithNameIs
  <2> HIDE DEF b
  <2>4. IsList(d, x.id, x.members) /\ \A k : k # x.id => MembersOf(d, k) = MembersOf(b, k)
    BY <2>1, <2>2, ReplacedList
  <2>5. DOMAIN d = Tables /\ d.item = b.item /\ d.container = b.container
    BY <2>1, <2>2, ReplacedTables
  <2>6. \A k : MembersOf(b, k) = MembersOf(db, k)
    BY <2>2 DEF MembersOf
  <2> HIDE DEF d
  <2>7. EditOnly(db, d, x)
    BY <2>2, <2>4, <2>5, <2>6 DEF EditOnly
  <2>8. EditDone(db, d, x)
    BY <1>2, <2>1, <2>2, <2>4, <2>5 DEF EditDone
  <2> QED BY <2>7, <2>8 DEF d
<1>3. CASE x.op = "rename"
  <2>1. x.id \in DOMAIN db.container /\ d = WithName(db, x.id, x.name)
    BY <1>3 DEF Applicable, PlaylistEdited, Standard
  <2>2. /\ DOMAIN d = Tables /\ d.members = db.members /\ d.item = db.item
        /\ DOMAIN d.container = DOMAIN db.container /\ d.container[x.id] = Renamed(db.container[x.id], x.name)
        /\ \A k \in DOMAIN db.container : k # x.id => d.container[k] = db.container[k]
    BY <2>1, WithNameIs
  <2> HIDE DEF d
  <2>3. \A k : MembersOf(d, k) = MembersOf(db, k)
    BY <2>2 DEF MembersOf
  <2>7. EditOnly(db, d, x)
    BY <2>2, <2>3 DEF EditOnly
  <2>8. EditDone(db, d, x)
    BY <1>3, <2>1, <2>2, <2>3 DEF EditDone
  <2> QED BY <2>7, <2>8 DEF d
<1>4. CASE x.op = "delete"
  <2>1. d = [db EXCEPT !.members = {m \in @ : m.container # x.id}, !.ui = @ \ {x.id},
                       !.container = [k \in DOMAIN @ \ {x.id} |-> @[k]]]
    BY <1>4 DEF PlaylistEdited
  <2>2. /\ DOMAIN d = Tables /\ d.members = {m \in db.members : m.container # x.id} /\ d.item = db.item
        /\ d.container = [k \in DOMAIN db.container \ {x.id} |-> db.container[k]]
    BY <2>1 DEF Tables
  <2> HIDE DEF d
  <2>3. \A k : k # x.id => MembersOf(d, k) = MembersOf(db, k)
    BY <2>2 DEF MembersOf
  <2>7. EditOnly(db, d, x)
    BY <2>2, <2>3 DEF EditOnly
  <2>8. EditDone(db, d, x)
    BY <1>4, <2>2 DEF EditDone
  <2> QED BY <2>7, <2>8 DEF d
<1> QED BY <1>1, <1>2, <1>3, <1>4

\* A playlist after its edit.
Done(old, e, db, x) ==
  /\ x.op = "create" => /\ x.id \in DOMAIN db.container /\ db.container[x.id] = Container(x.name, FALSE, "list")
                        /\ IsList(db, x.id, x.members)
  /\ x.op = "update" => /\ x.id \in DOMAIN db.container
                        /\ db.container[x.id] = Renamed(old.container[x.id], x.name)
                        /\ IsList(db, x.id, x.members)
  /\ x.op = "rename" => /\ x.id \in DOMAIN db.container
                        /\ db.container[x.id] = Renamed(old.container[x.id], x.name)
                        /\ IsList(db, x.id, Wanted(old, e, Len(e.additions), x.id))
  /\ x.op = "delete" => x.id \notin DOMAIN db.container

\* The lists after all additions and the playlist edits whose ids are in A.
PlaylistsAsked(old, e, A, db) ==
  LET n == Len(e.additions)
  IN  /\ A \subseteq {x.id : x \in e.playlists}
      /\ \A c \in DOMAIN old.container \ A :
           /\ c \in DOMAIN db.container /\ db.container[c] = old.container[c]
           /\ IsList(db, c, Wanted(old, e, n, c))
      /\ NewList(old, e, n) =>
           /\ PodcastList \in DOMAIN db.container
           /\ db.container[PodcastList] = Container("Podcasts", TRUE, "podcasts")
           /\ IsList(db, PodcastList, Episodes(e, n))
      /\ \A x \in e.playlists : x.id \in A => Done(old, e, db, x)
      /\ \A c \in DOMAIN db.container :
           \/ c \in DOMAIN old.container
           \/ c = PodcastList /\ NewList(old, e, n)
           \/ \E x \in e.playlists : x.id = c /\ c \in A /\ x.op = "create"

\* The first edit finds the lists as the additions leave them.
LEMMA NoneEdited ==
  ASSUME NEW old, NEW e, NEW db, ListsAsked(old, e, Len(e.additions), db)
  PROVE  PlaylistsAsked(old, e, {}, db)
BY DEF ListsAsked, PlaylistsAsked

\* What a queue of edits is.
LEMMA QueueIs ==
  ASSUME NEW old, NEW e, Asked(old, e), NEW x \in e.playlists
  PROVE  /\ x.op \in {"create", "update", "rename", "delete"} /\ x.members \in Seq(Nat) /\ x.id \in Nat \ {0}
         /\ \A y \in e.playlists : y.id = x.id => y = x
         /\ x.op = "create" => /\ x.id \notin ItemPids /\ x.id # PodcastList
                               /\ x.id \notin DOMAIN old.container /\ x.id \notin DOMAIN old.item
         /\ x.op # "create" => Standard(old, x.id) /\ x.id \in DOMAIN old.container
<1>1. SoundQueue(e.playlists)
  BY DEF Asked
<1>2. /\ x.op \in {"create", "update", "rename", "delete"} /\ x.members \in Seq(Nat) /\ x.id \in Nat \ {0}
      /\ x.op = "create" => x.id \notin ItemPids /\ x.id # PodcastList
  BY <1>1 DEF SoundQueue
<1>3. \A y \in e.playlists : y.id = x.id => y = x
  BY <1>1 DEF SoundQueue
<1>4. IF x.op = "create" THEN x.id \notin DOMAIN old.container \cup DOMAIN old.item ELSE Standard(old, x.id)
  BY DEF Asked
<1> QED BY <1>2, <1>3, <1>4 DEF Standard

\* No edit is for the master list or for a podcast list.
LEMMA NotHidden ==
  ASSUME NEW old, Opened(old), NEW e, Asked(old, e), NEW x \in e.playlists
  PROVE  /\ x.id # MasterList /\ x.id \notin PodcastLists(old)
         /\ PodcastLists(old) = {} => x.id # PodcastList
<1>1. /\ \A c \in PodcastLists(old) : old.container[c].hidden
      /\ PodcastList \in DOMAIN old.container => PodcastList \in PodcastLists(old)
      /\ MasterList \in DOMAIN old.container /\ old.container[MasterList].hidden
  BY DEF Opened, ListsSound, Consistent, Coherent
<1>2. CASE x.op = "create"
  <2>1. x.id # PodcastList /\ x.id \notin DOMAIN old.container
    BY <1>2, QueueIs
  <2> QED BY <1>1, <2>1 DEF PodcastLists
<1>3. CASE x.op # "create"
  <2>1. x.id \in DOMAIN old.container /\ ~ old.container[x.id].hidden
    BY <1>3, QueueIs DEF Standard
  <2> QED BY <1>1, <2>1
<1> QED BY <1>2, <1>3

\* An edit leaves the lists as they are asked for.
LEMMA PlaylistsAfterEdit ==
  ASSUME NEW old, Opened(old), NEW e, Asked(old, e), NEW A, NEW db, DOMAIN db = Tables,
         PlaylistsAsked(old, e, A, db), NEW x \in e.playlists, x.id \notin A, Applicable(db, x.id, x)
  PROVE  /\ PlaylistsAsked(old, e, A \cup {x.id}, PlaylistEdited(db, x.id, x))
         /\ PlaylistEdited(db, x.id, x).item = db.item
<1> DEFINE d == PlaylistEdited(db, x.id, x)
           n == Len(e.additions)
           B == A \cup {x.id}
           episodes == Container("Podcasts", TRUE, "podcasts")
<1>1. /\ x.op \in {"create", "update", "rename", "delete"} /\ x.members \in Seq(Nat)
      /\ \A y \in e.playlists : y.id = x.id => y = x
      /\ x.op = "create" => x.id \notin DOMAIN old.container
      /\ x.op # "create" => x.id \in DOMAIN old.container
  BY QueueIs
<1>2. EditOnly(db, d, x) /\ EditDone(db, d, x)
  BY <1>1, PlaylistEditedIs
<1> HIDE DEF d, n, episodes
<1>3. /\ d.item = db.item
      /\ \A b, s : b # x.id => (IsList(d, b, s) <=> IsList(db, b, s))
      /\ \A b : b # x.id => (b \in DOMAIN d.container <=> b \in DOMAIN db.container)
      /\ \A b \in DOMAIN db.container : b # x.id => d.container[b] = db.container[b]
  BY <1>2 DEF EditOnly, IsList
<1>4. /\ A \subseteq {y.id : y \in e.playlists}
      /\ \A c \in DOMAIN old.container \ A :
           /\ c \in DOMAIN db.container /\ db.container[c] = old.container[c]
           /\ IsList(db, c, Wanted(old, e, n, c))
      /\ NewList(old, e, n) =>
           /\ PodcastList \in DOMAIN db.container /\ db.container[PodcastList] = episodes
           /\ IsList(db, PodcastList, Episodes(e, n))
      /\ \A y \in e.playlists : y.id \in A => Done(old, e, db, y)
      /\ \A c \in DOMAIN db.container :
           \/ c \in DOMAIN old.container
           \/ c = PodcastList /\ NewList(old, e, n)
           \/ \E y \in e.playlists : y.id = c /\ c \in A /\ y.op = "create"
  BY DEF PlaylistsAsked, n, episodes
<1>5. NewList(old, e, n) => x.id # PodcastList
  BY NotHidden DEF NewList
<1>6. ASSUME NEW c \in DOMAIN old.container \ B
      PROVE  /\ c \in DOMAIN d.container /\ d.container[c] = old.container[c]
             /\ IsList(d, c, Wanted(old, e, n, c))
  BY <1>3, <1>4
<1>7. NewList(old, e, n) =>
        /\ PodcastList \in DOMAIN d.container /\ d.container[PodcastList] = episodes
        /\ IsList(d, PodcastList, Episodes(e, n))
  BY <1>3, <1>4, <1>5
<1>8. Done(old, e, d, x)
  <2>1. x.op # "create" => /\ db.container[x.id] = old.container[x.id]
                           /\ IsList(db, x.id, Wanted(old, e, n, x.id))
    BY <1>1, <1>4
  <2>2. x.op = "rename" => IsList(d, x.id, Wanted(old, e, n, x.id))
    BY <1>2, <2>1 DEF EditDone, IsList
  <2> QED BY <1>2, <2>1, <2>2 DEF EditDone, Done, n
<1>9. ASSUME NEW y \in e.playlists, y.id \in A PROVE Done(old, e, d, y)
  <2>1. y.id # x.id /\ Done(old, e, db, y)
    BY <1>4, <1>9
  <2> QED BY <1>3, <2>1 DEF Done
<1>10. ASSUME NEW c \in DOMAIN d.container
       PROVE  \/ c \in DOMAIN old.container
              \/ c = PodcastList /\ NewList(old, e, n)
              \/ \E y \in e.playlists : y.id = c /\ c \in B /\ y.op = "create"
  <2>1. CASE c = x.id
    BY <1>1, <2>1
  <2>2. CASE c # x.id
    <3>1. c \in DOMAIN db.container
      BY <1>3, <2>2
    <3> QED BY <1>4, <3>1
  <2> QED BY <2>1, <2>2
<1>11. B \subseteq {y.id : y \in e.playlists}
  BY <1>4
<1>12. \A y \in e.playlists : y.id \in B => Done(old, e, d, y)
  BY <1>1, <1>8, <1>9
<1> HIDE DEF B
<1>13. PlaylistsAsked(old, e, B, d)
  BY <1>6, <1>7, <1>10, <1>11, <1>12 DEF PlaylistsAsked, n, episodes
<1> QED BY <1>3, <1>13 DEF B, d

\* An edit is refused for a member that is removed or was never there.
LEMMA EditRefusedForCause ==
  ASSUME NEW old, NEW e, Asked(old, e), NEW A, NEW db,
         PlaylistsAsked(old, e, A, db), TracksAsked(old, e, Len(e.additions), db),
         NEW x \in e.playlists, x.id \notin A, ~ Applicable(db, x.id, x)
  PROVE  \E i \in DOMAIN x.members : x.members[i] \notin DOMAIN old.item \ e.removals
<1> SUFFICES ASSUME \A i \in DOMAIN x.members : x.members[i] \in DOMAIN old.item \ e.removals
             PROVE  FALSE
  OBVIOUS
<1>1. /\ x.op \in {"create", "update", "rename", "delete"}
      /\ \A y \in e.playlists : y.id = x.id => y = x
      /\ x.op = "create" => /\ x.id \notin ItemPids /\ x.id # PodcastList
                            /\ x.id \notin DOMAIN old.container /\ x.id \notin DOMAIN old.item
      /\ x.op # "create" => Standard(old, x.id) /\ x.id \in DOMAIN old.container
  BY QueueIs
<1>2. DOMAIN db.item = (DOMAIN old.item \ e.removals) \cup {e.additions[i].pid : i \in 1..Len(e.additions)}
  BY DEF TracksAsked
<1>3. MembersExist(db, x.members)
  BY <1>2 DEF MembersExist
<1>4. CASE x.op = "create"
  <2>1. x.id \notin DOMAIN db.container
    BY <1>1, <1>4 DEF PlaylistsAsked
  <2>2. \A i \in 1..Len(e.additions) : e.additions[i].pid \in ItemPids
    BY PidsAreNats DEF Asked
  <2>3. x.id \notin DOMAIN db.item
    BY <1>1, <1>2, <1>4, <2>2
  <2> QED BY <1>3, <1>4, <2>1, <2>3 DEF Applicable
<1>5. CASE x.op # "create"
  <2>1. Standard(db, x.id)
    BY <1>1, <1>5 DEF PlaylistsAsked, Standard
  <2> QED BY <1>1, <1>3, <1>5, <2>1 DEF Applicable
<1> QED BY <1>4, <1>5

\* The ids of the playlists that are edited.
AllIds(e) == {x.id : x \in e.playlists}

\* Every container has a list.
LEMMA EveryList ==
  ASSUME NEW old, NEW e, Asked(old, e), NEW A, NEW db, PlaylistsAsked(old, e, A, db)
  PROVE  \A c \in DOMAIN db.container : \E s : IsList(db, c, s)
<1> SUFFICES ASSUME NEW c \in DOMAIN db.container PROVE \E s : IsList(db, c, s)
  OBVIOUS
<1>1. CASE c \in DOMAIN old.container \ A
  BY <1>1 DEF PlaylistsAsked
<1>2. CASE c \in A
  <2>1. PICK x \in e.playlists : x.id = c
    BY <1>2 DEF PlaylistsAsked
  <2>2. Done(old, e, db, x)
    BY <1>2, <2>1 DEF PlaylistsAsked
  <2>3. x.op \in {"create", "update", "rename", "delete"}
    BY QueueIs
  <2> QED BY <2>1, <2>2, <2>3 DEF Done
<1>3. CASE c \notin DOMAIN old.container /\ c \notin A
  BY <1>3 DEF PlaylistsAsked
<1> QED BY <1>1, <1>2, <1>3

\* The checks after the loop find nothing.
LEMMA PlaylistsAreValid ==
  ASSUME NEW old, NEW e, Asked(old, e), NEW db, References(db), PlaylistsAsked(old, e, AllIds(e), db)
  PROVE  \A x \in e.playlists : PlaylistsValid(db, x.id, x)
<1>1. /\ \A m \in db.members : m.container \in DOMAIN db.container /\ m.item \in DOMAIN db.item
      /\ db.ui = DOMAIN db.container
  BY DEF References
<1>2. Contiguous(db.members)
  <2>1. \A c \in DOMAIN db.container : \E s : IsList(db, c, s)
    BY EveryList
  <2>2. \A m \in db.members : \E s : IsList(db, m.container, s)
    BY <1>1, <2>1
  <2> QED BY <2>2, ListsAreContiguous
<1>3. ASSUME NEW x \in e.playlists
      PROVE  x.op = "delete" <=> x.id \notin DOMAIN db.container
  <2>1. x.id \in AllIds(e) /\ x.op \in {"create", "update", "rename", "delete"}
    BY QueueIs DEF AllIds
  <2>2. Done(old, e, db, x)
    BY <2>1 DEF PlaylistsAsked
  <2> QED BY <2>1, <2>2 DEF Done
<1> QED BY <1>1, <1>2, <1>3 DEF PlaylistsValid

\* A row keeps its columns under another name.
LEMMA RenamedRow ==
  ASSUME NEW row, IsContainer(row), NEW name
  PROVE  /\ IsContainer(Renamed(row, name)) /\ Renamed(row, name).kind = row.kind
         /\ Renamed(row, name).hidden = row.hidden
         /\ Renamed(row, name) = [row EXCEPT !.name = IF name # NoName THEN name ELSE row.name]
         /\ row = [row EXCEPT !.name = row.name]
<1>1. row = [name |-> row.name, hidden |-> row.hidden, smart |-> row.smart, kind |-> row.kind, parent |-> row.parent]
  BY DEF IsContainer
<1>2. ASSUME NEW other
      PROVE  [row EXCEPT !.name = other]
               = [name |-> other, hidden |-> row.hidden, smart |-> row.smart, kind |-> row.kind, parent |-> row.parent]
  BY <1>1
<1>3. row = [row EXCEPT !.name = row.name]
  BY <1>1, <1>2
<1>4. Renamed(row, name) = [row EXCEPT !.name = IF name # NoName THEN name ELSE row.name]
  BY <1>3 DEF Renamed
<1> DEFINE new == IF name # NoName THEN name ELSE row.name
<1> HIDE DEF new
<1>5. Renamed(row, name)
        = [name |-> new, hidden |-> row.hidden, smart |-> row.smart, kind |-> row.kind, parent |-> row.parent]
  BY <1>2, <1>4 DEF new
<1> QED BY <1>3, <1>4, <1>5 DEF IsContainer

\* What is installed can be edited again.
LEMMA ListsStaySound ==
  ASSUME NEW old, Opened(old), NEW e, Asked(old, e), NEW db, References(db),
         PlaylistsAsked(old, e, AllIds(e), db)
  PROVE  ListsSound(db)
<1> DEFINE n == Len(e.additions)
           episodes == Container("Podcasts", TRUE, "podcasts")
<1>1. /\ \A c \in DOMAIN old.container : IsContainer(old.container[c])
      /\ \A c \in PodcastLists(old) : old.container[c].hidden /\ c # MasterList
      /\ \A c, d \in PodcastLists(old) : c = d
      /\ PodcastList \in DOMAIN old.container => PodcastList \in PodcastLists(old)
      /\ MasterList \in DOMAIN old.container
  BY DEF Opened, ListsSound, Consistent, Coherent
<1>2. IsContainer(episodes) /\ episodes.kind = "podcasts" /\ episodes.hidden
  BY DEF Container, IsContainer
<1>3. ASSUME NEW x \in e.playlists
      PROVE  /\ x.id \in AllIds(e) /\ Done(old, e, db, x) /\ x.id \notin PodcastLists(old)
             /\ x.op \in {"create", "update", "rename", "delete"}
             /\ x.op = "create" => x.id # PodcastList
             /\ x.op # "create" => x.id \in DOMAIN old.container
  <2>1. x.id \in AllIds(e)
    BY DEF AllIds
  <2> QED BY <2>1, QueueIs, NotHidden DEF PlaylistsAsked
<1> HIDE DEF episodes
<1>4. ASSUME NEW x \in e.playlists, x.id \in DOMAIN db.container
      PROVE  IsContainer(db.container[x.id]) /\ db.container[x.id].kind # "podcasts"
  <2>1. CASE x.op = "create"
    <3>1. db.container[x.id] = Container(x.name, FALSE, "list")
      BY <1>3, <2>1 DEF Done
    <3> QED BY <1>3, <3>1 DEF Container, IsContainer
  <2>2. CASE x.op # "create"
    <3>1. x.id \in DOMAIN old.container /\ db.container[x.id] = Renamed(old.container[x.id], x.name)
      BY <1>3, <1>4, <2>2 DEF Done
    <3>2. old.container[x.id].kind # "podcasts"
      BY <1>3, <3>1 DEF PodcastLists
    <3>3. IsContainer(old.container[x.id])
      BY <1>1, <1>3, <3>1
    <3> QED BY <3>1, <3>2, <3>3, RenamedRow
  <2> QED BY <2>1, <2>2
<1>5. ASSUME NEW c \in DOMAIN db.container
      PROVE  \/ c \in DOMAIN old.container /\ db.container[c] = old.container[c]
             \/ c = PodcastList /\ NewList(old, e, n) /\ db.container[c] = episodes
             \/ \E x \in e.playlists : x.id = c
  BY DEF PlaylistsAsked, AllIds, episodes
<1>6. \A c \in DOMAIN db.container : IsContainer(db.container[c])
  BY <1>1, <1>2, <1>4, <1>5
<1>7. \A c : c \in PodcastLists(db) <=> c \in PodcastLists(old) \/ (c = PodcastList /\ NewList(old, e, n))
  <2>1. ASSUME NEW c \in PodcastLists(db)
        PROVE  c \in PodcastLists(old) \/ (c = PodcastList /\ NewList(old, e, n))
    <3>1. c \in DOMAIN db.container /\ db.container[c].kind = "podcasts"
      BY DEF PodcastLists
    <3> QED BY <1>4, <1>5, <3>1 DEF PodcastLists
  <2>2. ASSUME NEW c \in PodcastLists(old) PROVE c \in PodcastLists(db)
    <3>1. c \in DOMAIN old.container \ AllIds(e)
      BY <1>3 DEF PodcastLists, AllIds
    <3>2. c \in DOMAIN db.container /\ db.container[c] = old.container[c]
      BY <3>1 DEF PlaylistsAsked
    <3> QED BY <3>2 DEF PodcastLists
  <2>3. NewList(old, e, n) => PodcastList \in PodcastLists(db)
    <3>1. NewList(old, e, n) => PodcastList \in DOMAIN db.container /\ db.container[PodcastList] = episodes
      BY DEF PlaylistsAsked, episodes
    <3> QED BY <1>2, <3>1 DEF PodcastLists
  <2> QED BY <2>1, <2>2, <2>3
<1> HIDE DEF n
<1>8. NewList(old, e, n) => PodcastLists(old) = {}
  BY DEF NewList
<1>9. ASSUME NEW c \in PodcastLists(db) PROVE db.container[c].hidden /\ c # MasterList
  <2>1. CASE c \in PodcastLists(old)
    <3>1. c \in DOMAIN old.container \ AllIds(e)
      BY <1>3, <2>1 DEF PodcastLists, AllIds
    <3>2. db.container[c] = old.container[c]
      BY <3>1 DEF PlaylistsAsked
    <3> QED BY <1>1, <2>1, <3>2
  <2>2. CASE c = PodcastList /\ NewList(old, e, n)
    <3>1. db.container[c] = episodes
      BY <2>2 DEF PlaylistsAsked, episodes, n
    <3>2. c # MasterList
      BY <1>1, <1>8, <2>2
    <3> QED BY <1>2, <3>1, <3>2
  <2> QED BY <1>7, <2>1, <2>2
<1>10. \A c, d \in PodcastLists(db) : c = d
  BY <1>1, <1>7, <1>8
<1>11. PodcastList \in DOMAIN db.container => PodcastList \in PodcastLists(db)
  <2>1. SUFFICES ASSUME PodcastList \in DOMAIN db.container PROVE PodcastList \in PodcastLists(db)
    OBVIOUS
  <2>2. CASE PodcastList \in DOMAIN old.container
    BY <1>1, <1>7, <2>2
  <2>3. CASE PodcastList \notin DOMAIN old.container
    BY <1>3, <1>5, <1>7, <2>1, <2>3
  <2> QED BY <2>2, <2>3
<1>12. Contiguous(db.members) /\ \A c \in DOMAIN db.container : IsFiniteSet(MembersOf(db, c))
  <2>1. \A c \in DOMAIN db.container : \E s : IsList(db, c, s)
    BY EveryList
  <2>2. \A m \in db.members : \E s : IsList(db, m.container, s)
    BY <2>1 DEF References
  <2>3. ASSUME NEW c \in DOMAIN db.container PROVE IsFiniteSet(MembersOf(db, c))
    <3>1. PICK s : IsList(db, c, s)
      BY <2>1
    <3> QED BY <3>1, ListedIs
  <2> QED BY <2>2, <2>3, ListsAreContiguous
<1> QED BY <1>6, <1>9, <1>10, <1>11, <1>12 DEF ListsSound

\* All additions are the first of them.
LEMMA AllFirst ==
  ASSUME NEW old, NEW e, Asked(old, e)
  PROVE  First(e, Len(e.additions)) = PidsOf(e)
<1> DEFINE s == PidsOf(e)
<1>1. s \in Seq(Nat) /\ Len(s) = Len(e.additions) /\ Len(s) \in Nat
  BY PidsAreNats
<1> HIDE DEF s
<1>2. Places(s, 1..Len(s), s, [i \in 1..Len(s) |-> i])
  BY <1>1 DEF Places
<1>3. PICK pos : Places(s, 1..Len(s), s, pos)
  BY <1>2
<1>4. 1..Len(s) \in SUBSET (1..Len(s))
  OBVIOUS
<1>5. Selected(s, 1..Len(s)) = s
  BY <1>1, <1>3, <1>4, SelectedIs
<1> QED BY <1>1, <1>5 DEF First, s

\* An episode is in the list of the episodes.
LEMMA SomeEpisodes ==
  ASSUME NEW old, NEW e, Asked(old, e), NEW i \in 1..Len(e.additions), e.additions[i].podcast
  PROVE  Episodes(e, Len(e.additions)) # <<>>
<1> DEFINE s == PidsOf(e)
           P == {j \in 1..Len(e.additions) : e.additions[j].podcast}
<1>1. s \in Seq(Nat) /\ Len(s) = Len(e.additions) /\ i \in P /\ P \in SUBSET (1..Len(s))
  BY PidsAreNats
<1> HIDE DEF s, P
<1>2. PICK pos : Places(s, P, Selected(s, P), pos)
  BY <1>1, SelectedPlaces
<1>3. \E k \in 1..Len(Selected(s, P)) : pos[k] = i
  BY <1>1, <1>2 DEF Places
<1>4. 1..Len(<<>>) = {}
  BY EmptySeq
<1>5. Selected(s, P) # <<>>
  BY <1>3, <1>4
<1> QED BY <1>5 DEF Episodes, s, P

\* As many tracks as were there, less those removed, and those added.
LEMMA TracksAreCounted ==
  ASSUME NEW old, Opened(old), NEW e, Asked(old, e), NEW db, TracksAsked(old, e, Len(e.additions), db)
  PROVE  /\ Cardinality(DOMAIN db.item)
              = Cardinality(DOMAIN old.item) - Cardinality(e.removals) + Len(e.additions)
         /\ DOMAIN db.item \cap e.removals = {}
         /\ \A i \in 1..Len(e.additions) : e.additions[i].pid \in DOMAIN db.item
<1> DEFINE n == Len(e.additions)
           pids == {e.additions[i].pid : i \in 1..n}
           items == DOMAIN old.item
           g == [i \in 1..n |-> e.additions[i].pid]
<1>1. n \in Nat /\ \A i \in 1..n : e.additions[i].pid \notin items
  BY PidsAreNats DEF Asked
<1>2. /\ DOMAIN db.item = (items \ e.removals) \cup pids
      /\ \A i, j \in 1..n : e.additions[i].pid = e.additions[j].pid => i = j
  BY DEF TracksAsked
<1>3. IsFiniteSet(items) /\ e.removals \in SUBSET items
  BY DEF Opened, Consistent, Typed, IsTable, Asked
<1>4. g \in Bijection(1..n, pids)
  BY <1>2 DEF Bijection, Injection, Surjection, IsInjective
<1>5. IsFiniteSet(1..n) /\ Cardinality(1..n) = n
  BY <1>1, FS_Interval
<1>6. pids \cap items = {}
  BY <1>1
<1> HIDE DEF n, pids, g, items
<1>7. IsFiniteSet(pids) /\ Cardinality(pids) = n
  <2>1. ExistsBijection(1..n, pids)
    BY <1>4 DEF ExistsBijection
  <2> QED BY <1>5, <2>1, FS_Bijection
<1>8. IsFiniteSet(items \ e.removals) /\ Cardinality(items \ e.removals) = Cardinality(items) - Cardinality(e.removals)
  <2>1. items \cap e.removals = e.removals
    BY <1>3
  <2> QED BY <1>3, <2>1, FS_Difference
<1>9. (items \ e.removals) \cap pids = {}
  BY <1>6
<1>10. Cardinality((items \ e.removals) \cup pids) = Cardinality(items \ e.removals) + Cardinality(pids) - Cardinality({})
  BY <1>7, <1>8, <1>9, FS_Union
<1>11. Cardinality({}) = 0 /\ Cardinality(items) \in Nat /\ Cardinality(e.removals) \in Nat
  BY <1>3, FS_EmptySet, FS_Subset, FS_CardinalityType
<1>12. Cardinality(DOMAIN db.item) = Cardinality(items) - Cardinality(e.removals) + n
  BY <1>1, <1>2, <1>7, <1>8, <1>10, <1>11
<1>13. DOMAIN db.item \cap e.removals = {}
  BY <1>2, <1>3, <1>6
<1>14. \A i \in 1..n : e.additions[i].pid \in DOMAIN db.item
  BY <1>2 DEF pids
<1> QED BY <1>12, <1>13, <1>14 DEF n, items

\* validate_semantics accepts what the passes have made.
LEMMA SemanticsHold ==
  ASSUME Opened(installed), Asked(installed, edit),
         PlaylistsAsked(installed, edit, AllIds(edit), staged), TracksAsked(installed, edit, Len(edit.additions), staged)
  PROVE  Semantics
<1> DEFINE n == Len(edit.additions)
           old == installed.container
           new == staged.container
           Stays(c) == Staying(Listed(installed, c), edit.removals)
<1>1. /\ AddedPids = PidsOf(edit) /\ AddedPids \in Seq(Nat) /\ Len(AddedPids) = n /\ n \in Nat
      /\ DOMAIN edit.additions = 1..n /\ PodcastPids = Episodes(edit, n) /\ First(edit, n) = AddedPids
  BY PidsAreNats, AllFirst DEF AddedPids, PidsOf, PodcastPids, Episodes
<1>2. TracksAsRequested
  <2>1. \A i \in DOMAIN AddedPids : i \in 1..n /\ AddedPids[i] = edit.additions[i].pid
    BY <1>1 DEF AddedPids
  <2> QED BY <2>1, TracksAreCounted DEF TracksAsRequested
<1>3. ASSUME NEW x \in edit.playlists
      PROVE  /\ x.id \in AllIds(edit) /\ Done(installed, edit, staged, x)
             /\ OfPlaylist(x.id) = {x} /\ OpOf(x.id) = x.op /\ Requested(x.id) = x
             /\ x.op \in {"create", "update", "rename", "delete"}
             /\ x.id # MasterList /\ x.id \notin PodcastLists(installed)
             /\ x.op = "create" <=> x.id \notin DOMAIN old
  <2>1. x.id \in AllIds(edit)
    BY DEF AllIds
  <2>2. OfPlaylist(x.id) = {x}
    BY QueueIs DEF OfPlaylist
  <2>3. (CHOOSE y \in {x} : TRUE) = x
    OBVIOUS
  <2>4. OpOf(x.id) = x.op /\ Requested(x.id) = x
    BY <2>2, <2>3 DEF OpOf, Requested
  <2> QED BY <2>1, <2>2, <2>4, QueueIs, NotHidden DEF PlaylistsAsked
<1>4. ASSUME NEW c, c \notin AllIds(edit) PROVE OpOf(c) = "none"
  <2>1. OfPlaylist(c) = {}
    BY <1>4 DEF OfPlaylist, AllIds
  <2> QED BY <2>1 DEF OpOf
<1>5. ASSUME NEW c \in DOMAIN old
      PROVE  ExpectedMembers(c) = IF OpOf(c) = "update" THEN Requested(c).members ELSE Stays(c)
  BY DEF ExpectedMembers, Staying
<1>6. ASSUME NEW c \in DOMAIN old PROVE Stays(c) \in Seq(Nat) /\ IsContainer(old[c])
  <2>1. Listed(installed, c) \in Seq(Nat)
    BY SoundLists DEF Opened
  <2> QED BY <2>1, StayingIsSeq DEF Opened, ListsSound
<1>7. ASSUME NEW c \in DOMAIN old PROVE Wanted(installed, edit, n, c) = Stays(c) \o Joining1(installed, edit, n, c)
  BY DEF Wanted
<1>8. MasterList \in DOMAIN old /\ MasterList \notin PodcastLists(installed)
  BY DEF Opened, ListsSound, Consistent, Coherent
<1> HIDE DEF n, old, new, Stays
<1>9. ASSUME NEW c \in DOMAIN old, c \notin AllIds(edit)
      PROVE  /\ c \in Kept /\ c \in DOMAIN new /\ new[c] = [old[c] EXCEPT !.name = ExpectedName(c)]
             /\ Listed(staged, c) = ExpectedMembers(c) \o Joining1(installed, edit, n, c)
             /\ ExpectedMembers(c) \in Seq(Nat)
  <2>1. OpOf(c) = "none"
    BY <1>4, <1>9
  <2>2. ExpectedMembers(c) = Stays(c) /\ ExpectedName(c) = old[c].name /\ c \in Kept
    BY <1>5, <2>1 DEF ExpectedName, Kept, old
  <2>3. c \in DOMAIN new /\ new[c] = old[c] /\ IsList(staged, c, Wanted(installed, edit, n, c))
    BY <1>9 DEF PlaylistsAsked, n, old, new
  <2>4. Listed(staged, c) = Wanted(installed, edit, n, c)
    BY <2>3, ListedIs
  <2>5. old[c] = [old[c] EXCEPT !.name = old[c].name]
    BY <1>6, RenamedRow
  <2> QED BY <1>6, <1>7, <2>2, <2>3, <2>4, <2>5
<1>10. ASSUME NEW c \in Kept, c \in AllIds(edit)
       PROVE  /\ c \in DOMAIN new /\ new[c] = [old[c] EXCEPT !.name = ExpectedName(c)]
              /\ Listed(staged, c) = ExpectedMembers(c) /\ ExpectedMembers(c) \in Seq(Nat)
              /\ c # MasterList /\ c \notin PodcastLists(installed)
  <2>1. PICK x \in edit.playlists : x.id = c
    BY <1>10 DEF AllIds
  <2>2. c \in DOMAIN old /\ x.op \in {"update", "rename"} /\ OpOf(c) = x.op /\ Requested(c) = x
        /\ Done(installed, edit, staged, x) /\ c # MasterList /\ c \notin PodcastLists(installed)
    BY <1>3, <2>1 DEF Kept, old
  <2>3. c \in DOMAIN new /\ new[c] = Renamed(old[c], x.name)
    BY <2>1, <2>2 DEF Done, old, new
  <2>4. ExpectedName(c) = IF x.name # NoName THEN x.name ELSE old[c].name
    BY <2>2 DEF ExpectedName, old
  <2>5. Renamed(old[c], x.name) = [old[c] EXCEPT !.name = ExpectedName(c)]
    BY <1>6, <2>2, <2>4, RenamedRow
  <2>6. Listed(staged, c) = ExpectedMembers(c) /\ ExpectedMembers(c) \in Seq(Nat)
    <3>1. CASE x.op = "update"
      <4>1. IsList(staged, c, x.members)
        BY <2>1, <2>2, <3>1 DEF Done
      <4>2. ExpectedMembers(c) = x.members
        BY <1>5, <2>2, <3>1
      <4>3. Listed(staged, c) = x.members
        BY <4>1, ListedIs
      <4> QED BY <4>1, <4>2, <4>3 DEF IsList
    <3>2. CASE x.op = "rename"
      <4>1. IsList(staged, c, Wanted(installed, edit, n, c))
        BY <2>1, <2>2, <3>2 DEF Done, n
      <4>2. ExpectedMembers(c) = Stays(c)
        BY <1>5, <2>2, <3>2
      <4>3. Joining1(installed, edit, n, c) = <<>>
        BY <2>2 DEF Joining1
      <4>4. Wanted(installed, edit, n, c) = Stays(c)
        BY <1>6, <1>7, <2>2, <4>3, ConcatEmptySeq
      <4>5. Listed(staged, c) = Stays(c)
        BY <4>1, <4>4, ListedIs
      <4> QED BY <1>6, <2>2, <4>2, <4>5
    <3> QED BY <2>2, <3>1, <3>2
  <2> QED BY <2>2, <2>3, <2>5, <2>6
<1>11. \A c \in Kept : c \in DOMAIN old
  BY DEF Kept, old
<1>12. MasterList \notin AllIds(edit)
  BY <1>3 DEF AllIds
<1>13. KeptAsRequested
  <2>1. SUFFICES ASSUME NEW c \in Kept
                 PROVE  /\ c \in DOMAIN new /\ new[c] = [old[c] EXCEPT !.name = ExpectedName(c)]
                        /\ IF old[c].kind = "podcasts"
                           THEN Listed(staged, c) = ExpectedMembers(c) \o PodcastPids
                           ELSE c \in Joining \/ Listed(staged, c) = ExpectedMembers(c)
    BY DEF KeptAsRequested, old, new
  <2>2. c \in PodcastLists(installed) <=> old[c].kind = "podcasts"
    BY <1>11 DEF PodcastLists, old
  <2>3. CASE c \in AllIds(edit)
    BY <1>10, <2>2, <2>3
  <2>4. CASE c \notin AllIds(edit)
    <3>1. /\ c \in DOMAIN new /\ new[c] = [old[c] EXCEPT !.name = ExpectedName(c)]
          /\ Listed(staged, c) = ExpectedMembers(c) \o Joining1(installed, edit, n, c)
          /\ ExpectedMembers(c) \in Seq(Nat)
      BY <1>9, <1>11, <2>4
    <3>2. CASE c = MasterList
      <4>1. Listed(staged, c) = ExpectedMembers(c) \o AddedPids
        BY <1>1, <3>1, <3>2 DEF Joining1
      <4>2. c \in Joining
        BY <1>8, <2>2, <3>2, <4>1 DEF Joining, old
      <4> QED BY <1>8, <2>2, <3>1, <3>2, <4>2
    <3>3. CASE c # MasterList /\ c \in PodcastLists(installed)
      BY <1>1, <2>2, <3>1, <3>3 DEF Joining1
    <3>4. CASE c # MasterList /\ c \notin PodcastLists(installed)
      <4>1. Joining1(installed, edit, n, c) = <<>>
        BY <3>4 DEF Joining1
      <4>2. Listed(staged, c) = ExpectedMembers(c)
        BY <3>1, <4>1, ConcatEmptySeq
      <4> QED BY <2>2, <3>1, <3>4, <4>2
    <3> QED BY <3>2, <3>3, <3>4
  <2> QED BY <2>3, <2>4
<1>14. NewPodcastList <=> NewList(installed, edit, n)
  <2>1. PodcastLists(installed) = {} <=> \A c \in DOMAIN old : old[c].kind # "podcasts"
    BY DEF PodcastLists, old
  <2>2. PodcastPids # <<>> <=> \E i \in 1..n : edit.additions[i].podcast
    <3>1. ASSUME NEW i \in 1..n, edit.additions[i].podcast PROVE PodcastPids # <<>>
      BY <1>1, <3>1, SomeEpisodes DEF n
    <3>2. ASSUME \A i \in 1..n : ~ edit.additions[i].podcast PROVE PodcastPids = <<>>
      BY <1>1, <3>2, NoEpisodes
    <3> QED BY <3>1, <3>2
  <2> QED BY <2>1, <2>2 DEF NewPodcastList, NewList, old
<1>15. NewList(installed, edit, n) =>
         /\ PodcastList \in DOMAIN new /\ new[PodcastList] = Container("Podcasts", TRUE, "podcasts")
         /\ Listed(staged, PodcastList) = PodcastPids
  <2>1. SUFFICES ASSUME NewList(installed, edit, n)
                 PROVE  /\ PodcastList \in DOMAIN new /\ new[PodcastList] = Container("Podcasts", TRUE, "podcasts")
                        /\ Listed(staged, PodcastList) = PodcastPids
    OBVIOUS
  <2>2. /\ PodcastList \in DOMAIN new /\ new[PodcastList] = Container("Podcasts", TRUE, "podcasts")
        /\ IsList(staged, PodcastList, Episodes(edit, n))
    BY <2>1 DEF PlaylistsAsked, n, new
  <2> QED BY <1>1, <2>2, ListedIs
<1>16. ASSUME NEW x \in edit.playlists, x.op = "create"
       PROVE  /\ x.id \in DOMAIN new /\ new[x.id] = Container(x.name, FALSE, "list")
              /\ Listed(staged, x.id) = x.members
  <2>1. /\ x.id \in DOMAIN new /\ new[x.id] = Container(x.name, FALSE, "list")
        /\ IsList(staged, x.id, x.members)
    BY <1>3, <1>16 DEF Done, new
  <2> QED BY <2>1, ListedIs
<1>17. CreatedAsRequested
  BY <1>14, <1>15, <1>16 DEF CreatedAsRequested, new
<1>18. DOMAIN new = Kept \cup {e.id : e \in {x \in edit.playlists : x.op = "create"}}
                         \cup (IF NewPodcastList THEN {PodcastList} ELSE {})
  <2> DEFINE created == {e.id : e \in {x \in edit.playlists : x.op = "create"}}
  <2>1. ASSUME NEW c \in DOMAIN new
        PROVE  c \in Kept \/ c \in created \/ (NewPodcastList /\ c = PodcastList)
    <3>1. CASE c \in DOMAIN old
      <4>1. CASE c \notin AllIds(edit)
        BY <1>9, <3>1, <4>1
      <4>2. CASE c \in AllIds(edit)
        <5>1. PICK x \in edit.playlists : x.id = c
          BY <4>2 DEF AllIds
        <5>2. OpOf(c) = x.op /\ x.op # "delete"
          BY <1>3, <5>1 DEF Done, new
        <5> QED BY <3>1, <5>2 DEF Kept, old
      <4> QED BY <4>1, <4>2
    <3>2. CASE c \notin DOMAIN old
      <4>1. \/ c = PodcastList /\ NewList(installed, edit, n)
            \/ \E x \in edit.playlists : x.id = c /\ x.op = "create"
        BY <3>2 DEF PlaylistsAsked, n, old, new
      <4> QED BY <1>14, <4>1
    <3> QED BY <3>1, <3>2
  <2>2. \A c \in created : c \in DOMAIN new
    BY <1>16
  <2>3. \A c \in Kept : c \in DOMAIN new
    BY <1>9, <1>10, <1>11
  <2>4. NewPodcastList => PodcastList \in DOMAIN new
    BY <1>14, <1>15
  <2> HIDE DEF created
  <2>5. DOMAIN new = Kept \cup created \cup (IF NewPodcastList THEN {PodcastList} ELSE {})
    BY <2>1, <2>2, <2>3, <2>4
  <2> QED BY <2>5 DEF created
<1>19. edit.additions # <<>> => Cardinality(Joining) = 1
  <2>1. SUFFICES ASSUME edit.additions # <<>> PROVE Cardinality(Joining) = 1
    OBVIOUS
  <2>2. AddedPids # <<>>
    <3>1. n # 0
      <4>1. edit.additions \in Seq(AdditionRows)
        BY DEF Asked
      <4> QED BY <2>1, <4>1, EmptySeq DEF n
    <3>2. Len(<<>>) = 0
      BY EmptySeq
    <3> QED BY <1>1, <3>1, <3>2
  <2>3. MasterList \in Joining
    <3>1. /\ MasterList \in Kept
          /\ Listed(staged, MasterList) = ExpectedMembers(MasterList) \o Joining1(installed, edit, n, MasterList)
      BY <1>8, <1>9, <1>12
    <3>2. Joining1(installed, edit, n, MasterList) = AddedPids
      BY <1>1 DEF Joining1
    <3>3. old[MasterList].kind # "podcasts"
      BY <1>8 DEF PodcastLists, old
    <3> QED BY <3>1, <3>2, <3>3 DEF Joining, old
  <2>4. ASSUME NEW c \in Joining PROVE c = MasterList
    <3>1. SUFFICES ASSUME c # MasterList PROVE FALSE
      OBVIOUS
    <3>2. c \in Kept /\ old[c].kind # "podcasts" /\ Listed(staged, c) = ExpectedMembers(c) \o AddedPids
      BY DEF Joining, old
    <3>3. c \notin PodcastLists(installed)
      BY <3>2 DEF PodcastLists, old
    <3>4. Listed(staged, c) = ExpectedMembers(c) /\ ExpectedMembers(c) \in Seq(Nat)
      <4>1. CASE c \in AllIds(edit)
        BY <1>10, <3>2, <4>1
      <4>2. CASE c \notin AllIds(edit)
        <5>1. Joining1(installed, edit, n, c) = <<>>
          BY <3>1, <3>3 DEF Joining1
        <5>2. Listed(staged, c) = ExpectedMembers(c) \o <<>> /\ ExpectedMembers(c) \in Seq(Nat)
          BY <1>9, <1>11, <3>2, <4>2, <5>1
        <5> QED BY <5>2, ConcatEmptySeq
      <4> QED BY <4>1, <4>2
    <3>5. ExpectedMembers(c) \o AddedPids # ExpectedMembers(c)
      BY <1>1, <2>2, <3>4, ConcatEqualIffEmpty
    <3> QED BY <3>2, <3>4, <3>5
  <2>5. Joining = {MasterList}
    BY <2>3, <2>4
  <2> QED BY <2>5, FS_Singleton
<1> QED BY <1>2, <1>13, <1>17, <1>18, <1>19 DEF Semantics, new

------------------------------------------------------------------------------
(* The request and the copy, pass by pass *)

\* Between two passes the copy is what the part of the request that has been
\* worked off makes of the opened library, and only an unsound one is refused.
RequestInvariant ==
  /\ ListsSound(installed) /\ phase # "rejected"
  /\ phase = "refused" => ~Sound
  /\ phase \notin {"idle", "refused"} => Asked(installed, edit)
  /\ phase = "remove" => staged = installed /\ added = 0
  /\ phase = "add" => /\ ListsAsked(installed, edit, added, staged) /\ TracksAsked(installed, edit, added, staged)
                      /\ RowsAsked(edit, added, staged)
  /\ phase \in {"remove", "add"} => applied = {}
  /\ phase = "playlists" => PlaylistsAsked(installed, edit, applied, staged)
  /\ phase \in {"verify", "staged"} => PlaylistsAsked(installed, edit, AllIds(edit), staged)
  /\ phase \in {"playlists", "verify", "staged"} => TracksAsked(installed, edit, Len(edit.additions), staged)

\* Nothing is asked for yet.
LEMMA InitIsAsked == Init => RequestInvariant
<1> SUFFICES ASSUME Init PROVE RequestInvariant
  OBVIOUS
<1>1. installed = InitialDb /\ phase = "idle"
  BY DEF Init
<1> QED BY <1>1, SqliteAssumption DEF RequestInvariant

\* stage_sqlite works on an edit that a session lets through.
LEMMA BeginIsAsked == RequestInvariant /\ Begin => RequestInvariant'
<1> SUFFICES ASSUME RequestInvariant, Begin PROVE RequestInvariant'
  OBVIOUS
<1> DEFINE room == MaxAdditions - Cardinality(ItemPids \cap DOMAIN installed.item)
<1>1. PICK n \in 0..room :
        edit' \in [removals : SUBSET DOMAIN installed.item, additions : [1..n -> Resolved], playlists : PlaylistEdits]
  BY DEF Begin
<1>2. n \in Nat
  <2>1. IsFiniteSet(ItemPids \cap DOMAIN installed.item)
    BY SqliteAssumption, FS_Subset
  <2>2. room \in Int
    BY <2>1, FS_CardinalityType, SqliteAssumption
  <2> HIDE DEF room
  <2> QED BY <2>2
<1>3. \A row \in Resolved : row \in AdditionRows /\ row.pid \in ItemPids /\ row.pid \notin DOMAIN installed.item
  <2>1. ASSUME NEW add \in Additions, NEW p \in ItemPids
        PROVE  [add EXCEPT !.pid = p] \in AdditionRows /\ [add EXCEPT !.pid = p].pid = p
    <3>1. add \in AdditionRows /\ p \in Nat
      BY SqliteAssumption
    <3> QED BY <3>1 DEF AdditionRows
  <2> SUFFICES ASSUME NEW row \in Resolved
               PROVE  row \in AdditionRows /\ row.pid \in ItemPids /\ row.pid \notin DOMAIN installed.item
    OBVIOUS
  <2>2. PICK add \in Additions, p \in ItemPids \ DOMAIN installed.item : row = [add EXCEPT !.pid = p]
    BY DEF Resolved
  <2> QED BY <2>1, <2>2
<1>4. edit'.additions \in Seq(AdditionRows) /\ DOMAIN edit'.additions = 1..n
  <2>1. edit'.additions \in [1..n -> AdditionRows]
    BY <1>1, <1>3
  <2> QED BY <1>2, <2>1, SeqDef
<1>5. \A i \in DOMAIN edit'.additions :
        edit'.additions[i].pid \in ItemPids /\ edit'.additions[i].pid \notin DOMAIN installed.item
  BY <1>1, <1>3
<1>6. edit'.removals \in SUBSET (DOMAIN installed.item) /\ SoundQueue(edit'.playlists)
  BY <1>1, SqliteAssumption
<1>7. \A x \in edit'.playlists :
        IF x.op = "create" THEN x.id \notin DOMAIN installed.container \cup DOMAIN installed.item
        ELSE Standard(installed, x.id)
  BY DEF Begin, Queueable
<1>8. Asked(installed, edit')
  BY <1>4, <1>5, <1>6, <1>7 DEF Asked
<1>9. staged' = installed /\ added' = 0 /\ applied' = {} /\ phase' = "remove" /\ installed' = installed
  BY DEF Begin
<1> HIDE DEF room
<1> QED BY <1>8, <1>9 DEF RequestInvariant

\* The opened library is one that an edit can be asked of.
LEMMA InstalledIsOpened == SqliteInvariant /\ RequestInvariant => Opened(installed)
BY DEF SqliteInvariant, SoundLibrary, RequestInvariant, Opened

\* Removals are not refused, and leave what is asked for.
LEMMA RemoveTracksIsAsked == SqliteInvariant /\ RequestInvariant /\ RemoveTracks => RequestInvariant'
<1> SUFFICES ASSUME SqliteInvariant, RequestInvariant, RemoveTracks PROVE RequestInvariant'
  OBVIOUS
<1> DEFINE db == Removed(staged, edit.removals)
<1>1. Opened(installed) /\ Asked(installed, edit) /\ staged = installed /\ added = 0 /\ applied = {}
      /\ phase = "remove" /\ ListsSound(installed) /\ Consistent(installed)
  BY InstalledIsOpened DEF RemoveTracks, RequestInvariant, Opened
<1>2. edit.removals \in SUBSET (DOMAIN installed.item)
  BY <1>1 DEF Asked
<1>3. RemovalValid(db, edit.removals) /\ Typed(db)
  BY <1>1, <1>2, RemovalIsValid, RemovedIsConsistent DEF Consistent
<1>4. SameRows(db, Reindexed(db))
  BY <1>3, ReindexedIsSorted
<1>5. ListsAsked(installed, edit, 0, db) /\ TracksAsked(installed, edit, 0, db) /\ RowsAsked(edit, 0, db)
  BY <1>1, RemovedAsked
<1>6. PICK d : /\ Continue("add", d) /\ ListsAsked(installed, edit, 0, d) /\ TracksAsked(installed, edit, 0, d)
               /\ RowsAsked(edit, 0, d)
  <2>1. CASE edit.removals = {}
    BY <1>1, <2>1, NothingRemoved DEF RemoveTracks
  <2>2. CASE edit.removals # {}
    <3>1. /\ ListsAsked(installed, edit, 0, Reindexed(db)) /\ TracksAsked(installed, edit, 0, Reindexed(db))
          /\ RowsAsked(edit, 0, Reindexed(db))
      BY <1>4, <1>5, SortedAsked
    <3>2. Continue("add", Reindexed(db))
      BY <1>3, <2>2 DEF RemoveTracks
    <3> HIDE DEF db
    <3> QED BY <3>1, <3>2
  <2> QED BY <2>1, <2>2
<1>7. phase' = "add" /\ staged' = d /\ installed' = installed /\ edit' = edit /\ added' = 0 /\ applied' = {}
  BY <1>1, <1>6 DEF Continue
<1> HIDE DEF db
<1> QED BY <1>1, <1>6, <1>7 DEF RequestInvariant

\* What is unsound stays unsound when a pass is refused.
LEMMA RefusedIsUnsound == RequestInvariant /\ Refused /\ ~Sound => RequestInvariant'
<1> SUFFICES ASSUME RequestInvariant, Refused, ~Sound PROVE RequestInvariant'
  OBVIOUS
<1>1. phase' = "refused" /\ installed' = installed /\ edit' = edit
  BY DEF Refused
<1>2. ~Sound'
  BY <1>1 DEF Sound, Items
<1> QED BY <1>1, <1>2 DEF RequestInvariant

\* One turn of the loop adds what is asked for, or what must not be asked for.
LEMMA AddTrackIsAsked == SqliteInvariant /\ RequestInvariant /\ AddTrack => RequestInvariant'
<1> SUFFICES ASSUME SqliteInvariant, RequestInvariant, AddTrack PROVE RequestInvariant'
  OBVIOUS
<1>1. /\ Opened(installed) /\ Asked(installed, edit) /\ ListsAsked(installed, edit, added, staged)
      /\ TracksAsked(installed, edit, added, staged) /\ RowsAsked(edit, added, staged)
      /\ phase = "add" /\ applied = {} /\ ListsSound(installed)
  BY InstalledIsOpened DEF AddTrack, RequestInvariant
<1>2. added < Len(edit.additions) /\ added \in 0..Len(edit.additions) /\ Consistent(staged)
  BY DEF AddTrack, SqliteInvariant
<1>3. Len(edit.additions) \in Nat /\ DOMAIN edit.additions = 1..Len(edit.additions) /\ Typed(staged)
  BY <1>1, <1>2, PidsAreNats DEF Consistent
<1>4. added \in 0..(Len(edit.additions) - 1) /\ added + 1 \in DOMAIN edit.additions
  BY <1>2, <1>3
<1>5. PICK a : a = edit.additions[added + 1]
  OBVIOUS
<1>6. CASE ~ Addable(staged, a)
  <2>1. a.artist = NoName \/ \E i \in 1..added : edit.additions[i].pid = a.pid
    BY <1>1, <1>3, <1>4, <1>5, <1>6, RefusedForCause
  <2>2. PICK j : j = added + 1 /\ j \in DOMAIN edit.additions /\ a = edit.additions[j]
    BY <1>4, <1>5
  <2>3. ASSUME \E i \in 1..added : edit.additions[i].pid = a.pid PROVE ~Sound
    <3>1. PICK i \in 1..added : edit.additions[i].pid = a.pid
      BY <2>3
    <3>2. i \in DOMAIN edit.additions /\ i # j
      BY <1>2, <1>3, <2>2
    <3> QED BY <2>2, <3>1, <3>2 DEF Sound
  <2>4. ASSUME a.artist = NoName PROVE ~Sound
    BY <2>2, <2>4 DEF Sound
  <2>5. ~Sound
    BY <2>1, <2>3, <2>4
  <2>6. Refused
    BY <1>5, <1>6 DEF AddTrack
  <2> QED BY <2>5, <2>6, RefusedIsUnsound
<1>7. CASE Addable(staged, a)
  <2>1. staged' = Added(staged, a) /\ added' = added + 1 /\ UNCHANGED <<installed, phase, edit, applied, edits>>
    BY <1>5, <1>7 DEF AddTrack
  <2>2. /\ ListsAsked(installed, edit, added + 1, Added(staged, a))
        /\ TracksAsked(installed, edit, added + 1, Added(staged, a)) /\ RowsAsked(edit, added + 1, Added(staged, a))
    BY <1>1, <1>2, <1>4, <1>5, <1>7, TracksAfterAdding
  <2>3. PICK d : d = Added(staged, a)
    OBVIOUS
  <2>4. ListsAsked(installed, edit, added', d) /\ TracksAsked(installed, edit, added', d) /\ RowsAsked(edit, added', d)
    BY <2>1, <2>2, <2>3
  <2>5. staged' = d /\ phase' = "add" /\ installed' = installed /\ edit' = edit /\ applied' = {}
    BY <1>1, <2>1, <2>3
  <2> QED BY <1>1, <2>4, <2>5 DEF RequestInvariant
<1> QED BY <1>6, <1>7

\* What the loop has added passes the checks after it.
LEMMA AdditionsAreValid ==
  ASSUME NEW old, NEW e, Asked(old, e), NEW n, n = Len(e.additions), NEW db, Consistent(db),
         ListsAsked(old, e, n, db), RowsAsked(e, n, db)
  PROVE  AdditionsValid(db, e.additions)
<1>1. \A i \in DOMAIN e.additions :
        LET p == e.additions[i].pid
        IN  /\ CompanionRows(e.additions[i].podcast) \X {p} = {row \in db.rows : row[2] = p}
            /\ Cardinality({m \in db.members : m.item = p}) = IF e.additions[i].podcast THEN 2 ELSE 1
  BY PidsAreNats DEF RowsAsked, PlacesOf
<1>2. \A c \in DOMAIN db.container : \E s : IsList(db, c, s)
  BY NoneEdited, EveryList
<1>3. \A m \in db.members : m.container \in DOMAIN db.container
  BY DEF Consistent, References
<1>4. Contiguous(db.members)
  BY <1>2, <1>3, ListsAreContiguous
<1>5. \A a \in DOMAIN db.album : db.album[a].count = Cardinality(ItemsOf(db.item, "album", a))
  BY DEF Consistent, Counts
<1> QED BY <1>1, <1>4, <1>5 DEF AdditionsValid

\* The end of the loop refuses nothing.
LEMMA IndexTracksIsAsked == SqliteInvariant /\ RequestInvariant /\ IndexTracks => RequestInvariant'
<1> SUFFICES ASSUME SqliteInvariant, RequestInvariant, IndexTracks PROVE RequestInvariant'
  OBVIOUS
<1>1. PICK n : n = Len(edit.additions)
  OBVIOUS
<1>2. /\ Asked(installed, edit) /\ ListsAsked(installed, edit, n, staged) /\ TracksAsked(installed, edit, n, staged)
      /\ RowsAsked(edit, n, staged) /\ applied = {} /\ ListsSound(installed)
  BY <1>1 DEF IndexTracks, RequestInvariant
<1>3. Consistent(staged) /\ Typed(staged)
  BY DEF SqliteInvariant, Consistent
<1>4. AdditionsValid(staged, edit.additions)
  BY <1>1, <1>2, <1>3, AdditionsAreValid
<1>5. SameRows(staged, Reindexed(staged))
  BY <1>3, ReindexedIsSorted
<1>6. ListsAsked(installed, edit, n, Reindexed(staged)) /\ TracksAsked(installed, edit, n, Reindexed(staged))
  BY <1>2, <1>5, SortedAsked
<1>7. PICK d : Continue("playlists", d) /\ ListsAsked(installed, edit, n, d) /\ TracksAsked(installed, edit, n, d)
  <2>1. CASE edit.additions = <<>>
    BY <1>2, <2>1 DEF IndexTracks
  <2>2. CASE edit.additions # <<>>
    BY <1>4, <1>6, <2>2 DEF IndexTracks
  <2> QED BY <2>1, <2>2
<1>8. PlaylistsAsked(installed, edit, {}, d)
  BY <1>1, <1>7, NoneEdited
<1>9. phase' = "playlists" /\ staged' = d /\ installed' = installed /\ edit' = edit /\ applied' = {}
  BY <1>2, <1>7 DEF Continue
<1> QED BY <1>1, <1>2, <1>7, <1>8, <1>9 DEF RequestInvariant

\* One turn of the loop edits what is asked for, or lists what must not be asked for.
LEMMA EditPlaylistIsAsked == SqliteInvariant /\ RequestInvariant /\ EditPlaylist => RequestInvariant'
<1> SUFFICES ASSUME SqliteInvariant, RequestInvariant, EditPlaylist PROVE RequestInvariant'
  OBVIOUS
<1>1. PICK n : n = Len(edit.additions)
  OBVIOUS
<1>2. /\ Opened(installed) /\ Asked(installed, edit) /\ PlaylistsAsked(installed, edit, applied, staged)
      /\ TracksAsked(installed, edit, n, staged) /\ phase = "playlists" /\ ListsSound(installed)
  BY <1>1, InstalledIsOpened DEF EditPlaylist, RequestInvariant
<1>3. DOMAIN staged = Tables
  BY DEF SqliteInvariant, Consistent, Typed
<1>4. PICK x \in edit.playlists :
        /\ x.id \notin applied
        /\ IF ~Applicable(staged, x.id, x) THEN Refused
           ELSE /\ staged' = PlaylistEdited(staged, x.id, x) /\ applied' = applied \cup {x.id}
                /\ UNCHANGED <<installed, phase, edit, added, edits>>
  BY DEF EditPlaylist
<1>5. CASE ~Applicable(staged, x.id, x)
  <2>1. \E i \in DOMAIN x.members : x.members[i] \notin DOMAIN installed.item \ edit.removals
    BY <1>1, <1>2, <1>4, <1>5, EditRefusedForCause
  <2>2. ~Sound
    BY <2>1 DEF Sound, Items
  <2>3. Refused
    BY <1>4, <1>5
  <2> QED BY <2>2, <2>3, RefusedIsUnsound
<1>6. CASE Applicable(staged, x.id, x)
  <2>1. PICK d : d = PlaylistEdited(staged, x.id, x)
    OBVIOUS
  <2>2. PlaylistsAsked(installed, edit, applied \cup {x.id}, d) /\ d.item = staged.item
    BY <1>2, <1>3, <1>4, <1>6, <2>1, PlaylistsAfterEdit
  <2>3. TracksAsked(installed, edit, n, d)
    BY <1>2, <2>2 DEF TracksAsked
  <2>4. staged' = d /\ applied' = applied \cup {x.id} /\ phase' = "playlists" /\ installed' = installed /\ edit' = edit
    BY <1>2, <1>4, <1>6, <2>1
  <2>5. PlaylistsAsked(installed, edit, applied', d)
    BY <2>2, <2>4
  <2> QED BY <1>1, <1>2, <2>3, <2>4, <2>5 DEF RequestInvariant
<1> QED BY <1>5, <1>6

\* The check after the loop finds nothing.
LEMMA CheckPlaylistsIsAsked == SqliteInvariant /\ RequestInvariant /\ CheckPlaylists => RequestInvariant'
<1> SUFFICES ASSUME SqliteInvariant, RequestInvariant, CheckPlaylists PROVE RequestInvariant'
  OBVIOUS
<1>1. PICK n : n = Len(edit.additions)
  OBVIOUS
<1>2. /\ Asked(installed, edit) /\ PlaylistsAsked(installed, edit, applied, staged)
      /\ TracksAsked(installed, edit, n, staged) /\ ListsSound(installed)
  BY <1>1 DEF CheckPlaylists, RequestInvariant
<1>3. applied = AllIds(edit)
  <2>1. applied \subseteq AllIds(edit)
    BY <1>2 DEF PlaylistsAsked, AllIds
  <2>2. AllIds(edit) \subseteq applied
    BY DEF CheckPlaylists, AllIds
  <2> QED BY <2>1, <2>2
<1>4. PlaylistsAsked(installed, edit, AllIds(edit), staged)
  BY <1>2, <1>3
<1>5. References(staged)
  BY DEF SqliteInvariant, Consistent
<1>6. \A x \in edit.playlists : PlaylistsValid(staged, x.id, x)
  BY <1>2, <1>4, <1>5, PlaylistsAreValid
<1>7. Continue("verify", staged)
  BY <1>6 DEF CheckPlaylists
<1>8. phase' = "verify" /\ staged' = staged /\ installed' = installed /\ edit' = edit
  BY <1>7 DEF Continue
<1> QED BY <1>1, <1>2, <1>4, <1>8 DEF RequestInvariant

\* validate_semantics finds what was asked for.
LEMMA VerifyIsAsked == SqliteInvariant /\ RequestInvariant /\ Verify => RequestInvariant'
<1> SUFFICES ASSUME SqliteInvariant, RequestInvariant, Verify PROVE RequestInvariant'
  OBVIOUS
<1>1. PICK n : n = Len(edit.additions)
  OBVIOUS
<1>2. /\ Opened(installed) /\ Asked(installed, edit) /\ PlaylistsAsked(installed, edit, AllIds(edit), staged)
      /\ TracksAsked(installed, edit, n, staged) /\ ListsSound(installed)
  BY <1>1, InstalledIsOpened DEF Verify, RequestInvariant
<1>3. Semantics
  BY <1>1, <1>2, SemanticsHold
<1>4. phase' = "staged" /\ staged' = staged /\ installed' = installed /\ edit' = edit
  BY <1>3 DEF Verify, Continue
<1> QED BY <1>1, <1>2, <1>4 DEF RequestInvariant

\* What is installed can be asked of again.
LEMMA InstallIsAsked == SqliteInvariant /\ RequestInvariant /\ Install => RequestInvariant'
<1> SUFFICES ASSUME SqliteInvariant, RequestInvariant, Install PROVE RequestInvariant'
  OBVIOUS
<1>1. Opened(installed) /\ Asked(installed, edit) /\ PlaylistsAsked(installed, edit, AllIds(edit), staged)
  BY InstalledIsOpened DEF Install, RequestInvariant
<1>2. References(staged)
  BY DEF SqliteInvariant, Consistent
<1>3. ListsSound(staged)
  BY <1>1, <1>2, ListsStaySound
<1>4. phase' = "idle" /\ installed' = staged
  BY DEF Install
<1> QED BY <1>3, <1>4 DEF RequestInvariant

\* After each pass the copy is what the request makes of the opened library, and
\* a request that is refused half way names a missing track or artist, or an id twice.
THEOREM RequestInvariance == Spec => [](SqliteInvariant /\ RequestInvariant)
<1>1. Init => RequestInvariant
  BY InitIsAsked
<1>2. SqliteInvariant /\ RequestInvariant /\ [Next]_vars => RequestInvariant'
  <2>1. RequestInvariant /\ UNCHANGED vars => RequestInvariant'
    BY DEF vars, RequestInvariant, Sound, Items
  <2> QED BY <2>1, BeginIsAsked, RemoveTracksIsAsked, AddTrackIsAsked, IndexTracksIsAsked,
             EditPlaylistIsAsked, CheckPlaylistsIsAsked, VerifyIsAsked, InstallIsAsked DEF Next
<1> QED BY <1>1, <1>2, SqliteInvariance, PTL DEF Spec

\* validate_semantics never rejects what the editing passes have made of an edit.
THEOREM OwnWorkIsAccepted == Spec => []OwnWorkAccepted
<1>1. RequestInvariant => OwnWorkAccepted
  BY DEF RequestInvariant, OwnWorkAccepted
<1> QED BY <1>1, RequestInvariance, PTL

\* Nor does a check inside a pass refuse a sound request.
THEOREM SoundRequestsAreStaged == Spec => []SoundRequestsPass
<1>1. RequestInvariant => SoundRequestsPass
  BY DEF RequestInvariant, SoundRequestsPass
<1> QED BY <1>1, RequestInvariance, PTL
==============================================================================
