------------------------------ MODULE DictProofs -----------------------------
(***************************************************************************)
(* Theorems about Dict for any keys, hash function, sizes and limits: the  *)
(* two tables are at every moment one set of keys, and a safe iterator     *)
(* goes through it once.  Where sizes are powers of two and a cursor has   *)
(* the bits for them (CursorAssumption, which only the theorem on SCAN and *)
(* the lemmas on sizes cite), a SCAN misses no key.                        *)
(***************************************************************************)
EXTENDS Dict, FiniteSetTheorems, TLAPS

\* Every non-empty set of natural numbers has a least element.
LEMMA LeastNumber ==
    ASSUME NEW T \in SUBSET Nat, T # {}
    PROVE  \E x \in T : \A y \in T : x <= y
<1> DEFINE U == {0..n : n \in T}
<1>1. U \subseteq FiniteSubsetsOf(Nat) /\ U # {}
  <2>1. \A n \in T : 0..n \in SUBSET Nat /\ IsFiniteSet(0..n)
    BY FS_Interval
  <2>2. \A n \in T : 0..n \in FiniteSubsetsOf(Nat)
    BY <2>1, Zenon DEF FiniteSubsetsOf
  <2> QED
    BY <2>2, Zenon
<1>2. PICK m \in U : \A u \in U : ~(<<u, m>> \in StrictSubsetOrdering(Nat))
  <2> HIDE DEF U
  <2> QED
    BY <1>1, WFMin, FS_StrictSubsetOrderingWellFounded
<1>3. PICK x \in T : m = 0..x
  BY Zenon
<1>4. ASSUME NEW y \in T, y < x PROVE FALSE
  <2>1. 0..y \in SUBSET Nat /\ 0..x \in SUBSET Nat
    OBVIOUS
  <2>2. 0..y \subseteq 0..x /\ 0..y # 0..x
    BY <1>4
  <2>3. 0..y \in U
    BY Zenon
  <2>4. <<0..y, 0..x>> \in StrictSubsetOrdering(Nat)
    <3> DEFINE A == 0..y
               B == 0..x
    <3> HIDE DEF A, B
    <3>1. A \in SUBSET Nat /\ B \in SUBSET Nat /\ A \subseteq B /\ A # B
      BY <2>1, <2>2 DEF A, B
    <3>2. <<A, B>> \in StrictSubsetOrdering(Nat)
      BY <3>1 DEF StrictSubsetOrdering
    <3> QED
      BY <3>2 DEF A, B
  <2> QED
    BY <1>2, <1>3, <2>3, <2>4, Zenon
<1>5. \A y \in T : x \in Nat /\ y \in Nat /\ ~(y < x)
  BY <1>4
<1> QED
  BY <1>5

\* Powers of two are positive, and the n-th one is at least n.
LEMMA PowersOfTwo ==
    ASSUME NEW n \in Nat
    PROVE  2^n \in Nat /\ 2^n >= n /\ 2^n >= 1
<1> DEFINE S == 1..n
           f == [i \in 1..n |-> {i}]
<1>1. IsFiniteSet(S) /\ Cardinality(S) = n
  BY FS_Interval
<1>2. /\ IsFiniteSet(SUBSET S) /\ Cardinality(SUBSET S) = 2^n
      /\ Cardinality(SUBSET S) \in Nat
  BY <1>1, FS_SUBSET, FS_CardinalityType
<1>3. Cardinality(SUBSET S) >= 1
  BY <1>2, FS_EmptySet
<1>4. ~(Cardinality(SUBSET S) < Cardinality(S))
  <2>1. f \in [S -> SUBSET S] /\ \A i, j \in S : f[i] = f[j] => i = j
    OBVIOUS
  <2> HIDE DEF S, f
  <2> QED
    BY <1>1, <1>2, <2>1, FS_PigeonHole
<1> QED
  BY <1>1, <1>2, <1>3, <1>4
-----------------------------------------------------------------------------

Chains == UNION {[0..n-1 -> SUBSET Keys] : n \in Nat}
Hts == [size : Nat, table : Chains, used : Int]
Dicts == [ht : [{0, 1} -> Hts], rehashidx : Int, iterators : Int]

\* Every entry is in the bucket its hash selects, and used counts the entries.
TableOK(h) ==
    /\ h \in Hts
    /\ h.table \in [0..h.size-1 -> SUBSET Keys]
    /\ h.used = Cardinality(Entries(h))
    /\ \A i \in 0..h.size-1 : \A k \in h.table[i] : Index(k, h.size) = i

\* While buckets move, both tables exist and the old one is empty up to rehashidx.
Rehashing(x) ==
    /\ x.rehashidx \in 0..x.ht[0].size /\ x.ht[1].size # x.ht[0].size
    /\ x.ht[0].size > 0 /\ x.ht[1].size > 0
    /\ \A i \in 0..x.rehashidx-1 : x.ht[0].table[i] = {}

DictOK(x) ==
    /\ x \in Dicts /\ TableOK(x.ht[0]) /\ TableOK(x.ht[1])
    /\ Entries(x.ht[0]) \cap Entries(x.ht[1]) = {}
    /\ IF dictIsRehashing(x) THEN Rehashing(x) ELSE x.ht[1] = EmptyTable

KeysOf(x) == Entries(x.ht[0]) \cup Entries(x.ht[1])
-----------------------------------------------------------------------------
(* One table. *)

\* Sets of keys are finite.
LEMMA KeyCount ==
    ASSUME NEW S \in SUBSET Keys
    PROVE  IsFiniteSet(S) /\ Cardinality(S) \in Nat /\ (Cardinality(S) = 0 <=> S = {})
  BY DictAssumption, FS_Subset, FS_CardinalityType, FS_EmptySet

\* Disjoint ones add up.
LEMMA UnionCount ==
    ASSUME NEW S \in SUBSET Keys, NEW T \in SUBSET Keys, S \cap T = {}
    PROVE  Cardinality(S \cup T) = Cardinality(S) + Cardinality(T)
<1>1. IsFiniteSet(S) /\ IsFiniteSet(T) /\ Cardinality(S) \in Nat /\ Cardinality(T) \in Nat
  BY KeyCount
<1>2. Cardinality(S \cup T) = Cardinality(S) + Cardinality(T) - Cardinality(S \cap T)
  BY <1>1, FS_Union
<1>3. Cardinality(S \cap T) = 0
  BY FS_EmptySet
<1> QED
  BY <1>1, <1>2, <1>3

\* What is taken away counts no more.
LEMMA RestCount ==
    ASSUME NEW S \in SUBSET Keys, NEW T \in SUBSET Keys, T \subseteq S
    PROVE  Cardinality(S \ T) = Cardinality(S) - Cardinality(T)
<1>1. /\ S \ T \in SUBSET Keys /\ Cardinality(S) \in Nat /\ Cardinality(T) \in Nat
      /\ Cardinality(S \ T) \in Nat
  <2>1. S \ T \in SUBSET Keys
    OBVIOUS
  <2> QED
    BY <2>1, KeyCount, Zenon
<1>2. Cardinality((S \ T) \cup T) = Cardinality(S \ T) + Cardinality(T)
  <2>1. (S \ T) \cap T = {}
    OBVIOUS
  <2> QED
    BY <1>1, <2>1, UnionCount, Zenon
<1>3. (S \ T) \cup T = S
  OBVIOUS
<1>4. Cardinality(S) = Cardinality(S \ T) + Cardinality(T)
  BY <1>2, <1>3, Zenon
<1> QED
  BY <1>1, <1>4

\* A hash selects one of the buckets.
LEMMA IndexInTable ==
    ASSUME NEW k \in Keys, NEW n \in Nat, n > 0
    PROVE  Index(k, n) \in 0..n-1
  BY DictAssumption DEF Index

\* A key is an entry of a table when it is in the bucket that its hash selects.
LEMMA EntryFacts ==
    ASSUME NEW h, TableOK(h)
    PROVE  /\ Entries(h) \in SUBSET Keys
           /\ \A k : k \in Entries(h) <=> \E i \in 0..h.size-1 : k \in h.table[i]
           /\ h.size = 0 => Entries(h) = {}
           /\ \A k \in Keys : h.size > 0 =>
                (k \in Entries(h) <=> k \in h.table[Index(k, h.size)])
<1>1. h.size \in Nat
  BY DEF TableOK, Hts
<1>2. \A k : k \in Entries(h) <=> \E i \in 0..h.size-1 : k \in h.table[i]
  BY DEF Entries
<1>3. Entries(h) \in SUBSET Keys
  BY <1>2 DEF TableOK
<1>4. \A k \in Keys : h.size > 0 => Index(k, h.size) \in 0..h.size-1
  BY <1>1, IndexInTable
<1> QED
  BY <1>1, <1>2, <1>3, <1>4 DEF TableOK

\* _dictReset() makes a table without entries.
LEMMA EmptyTableOK == TableOK(EmptyTable) /\ Entries(EmptyTable) = {} /\ EmptyTable.size = 0
<1>1. <<>> \in [0..0-1 -> SUBSET Keys]
  OBVIOUS
<1>2. EmptyTable.size = 0 /\ EmptyTable.used = 0 /\ EmptyTable.table = <<>>
  BY DEF EmptyTable
<1>3. EmptyTable \in Hts
  BY <1>1 DEF EmptyTable, Hts, Chains
<1>4. Entries(EmptyTable) = {}
  BY <1>2 DEF Entries
<1> QED
  BY <1>1, <1>2, <1>3, <1>4, FS_EmptySet DEF TableOK

\* So does dictExpand().
LEMMA NewTableOK ==
    ASSUME NEW n \in Nat
    PROVE  TableOK(NewTable(n)) /\ Entries(NewTable(n)) = {} /\ NewTable(n).size = n
<1>1. /\ NewTable(n).size = n /\ NewTable(n).used = 0
      /\ NewTable(n).table = [i \in 0..n-1 |-> {}]
  BY DEF NewTable
<1>2. [i \in 0..n-1 |-> {}] \in Chains
  BY DEF Chains
<1>3. NewTable(n) \in Hts
  BY <1>2 DEF NewTable, Hts
<1>4. Entries(NewTable(n)) = {}
  BY <1>1 DEF Entries
<1> QED
  BY <1>1, <1>3, <1>4, FS_EmptySet DEF TableOK

\* A table whose chains are replaced by T.
ChainsFor(h) == [0..h.size-1 -> SUBSET Keys]
Chained(h, T, n) == [h EXCEPT !.table = T, !.used = n]
IsChained(g, h, T, n) ==
    /\ g \in Hts /\ g.size = h.size /\ g.table = T /\ g.used = n
    /\ \A k : k \in Entries(g) <=> \E i \in 0..h.size-1 : k \in T[i]

\* It has the entries of T.
LEMMA NewChains ==
    ASSUME NEW h, TableOK(h), NEW T \in ChainsFor(h), NEW n \in Int
    PROVE  IsChained(Chained(h, T, n), h, T, n)
<1> DEFINE g == Chained(h, T, n)
<1>1. h \in Hts /\ h.size \in Nat
  BY DEF TableOK, Hts
<1>2. T \in Chains
  BY <1>1 DEF Chains, ChainsFor
<1>3. g \in Hts /\ g.size = h.size /\ g.table = T /\ g.used = n
  BY <1>1, <1>2 DEF Hts, Chained
<1> QED
  BY <1>3 DEF Entries, IsChained

\* g is h without the entries of its buckets B.
IsEmptied(g, h, B) ==
    /\ TableOK(g) /\ g.size = h.size
    /\ Entries(g) = Entries(h) \ UNION {h.table[i] : i \in B}
    /\ \A i \in 0..h.size-1 : g.table[i] = IF i \in B THEN {} ELSE h.table[i]

\* Emptying buckets B takes away their entries.
LEMMA EmptiedOK ==
    ASSUME NEW h, TableOK(h), NEW B \in SUBSET (0..h.size-1)
    PROVE  IsEmptied(Emptied(h, B), h, B)
<1> DEFINE S == UNION {h.table[i] : i \in B}
           T == [i \in 0..h.size-1 |-> IF i \in B THEN {} ELSE h.table[i]]
           n == h.used - Cardinality(S)
           g == Emptied(h, B)
<1>1. /\ h.table \in [0..h.size-1 -> SUBSET Keys] /\ h.used = Cardinality(Entries(h))
      /\ \A i \in 0..h.size-1 : \A k \in h.table[i] : Index(k, h.size) = i
  BY DEF TableOK
<1>2. /\ Entries(h) \in SUBSET Keys
      /\ \A k : k \in Entries(h) <=> \E i \in 0..h.size-1 : k \in h.table[i]
  BY EntryFacts
<1>3. \A k : k \in S <=> \E i \in B : k \in h.table[i]
  OBVIOUS
<1>4. S \subseteq Entries(h)
  <2> HIDE DEF S
  <2> QED
    BY <1>2, <1>3
<1>5. /\ n = Cardinality(Entries(h) \ S) /\ n \in Int
  <2> HIDE DEF S
  <2> QED
    <3>1. S \in SUBSET Keys
      BY <1>2, <1>4
    <3>2. Cardinality(Entries(h) \ S) = Cardinality(Entries(h)) - Cardinality(S)
      BY <1>2, <1>4, <3>1, RestCount, Zenon
    <3>3. Cardinality(Entries(h)) \in Nat /\ Cardinality(S) \in Nat
      BY <1>2, <3>1, KeyCount
    <3> QED
      BY <1>1, <3>2, <3>3
<1>6. T \in [0..h.size-1 -> SUBSET Keys]
  BY <1>1
<1>7. g = Chained(h, T, n)
  BY <1>1 DEF Emptied, Chained
<1>8. /\ g \in Hts /\ g.size = h.size /\ g.table = T /\ g.used = n
      /\ \A q : q \in Entries(g) <=> \E i \in 0..h.size-1 : q \in T[i]
  <2> HIDE DEF T, n, g
  <2> QED
    <3>1. T \in ChainsFor(h)
      BY <1>6 DEF ChainsFor
    <3>2. IsChained(g, h, T, n)
      BY <1>5, <1>7, <3>1, NewChains, Zenon
    <3> QED
      BY <3>2 DEF IsChained
<1>9. \A i \in 0..h.size-1 : T[i] = IF i \in B THEN {} ELSE h.table[i]
  OBVIOUS
<1> HIDE DEF S, T, n, g
<1>10. Entries(g) = Entries(h) \ S
  <2>1. \A k \in S : k \notin Entries(g)
    BY <1>1, <1>3, <1>8, <1>9
  <2>2. \A k \in Entries(h) : k \in S \/ k \in Entries(g)
    BY <1>2, <1>3, <1>8, <1>9
  <2>3. Entries(g) \subseteq Entries(h)
    BY <1>2, <1>8, <1>9
  <2> QED
    BY <2>1, <2>2, <2>3
<1>11. TableOK(g)
  BY <1>1, <1>5, <1>6, <1>8, <1>9, <1>10 DEF TableOK
<1> QED
  BY <1>8, <1>9, <1>10, <1>11 DEF S, g, IsEmptied

\* Filling in the entries of S adds them, if there are buckets.
LEMMA FilledOK ==
    ASSUME NEW h, TableOK(h), h.size > 0, NEW S \in SUBSET Keys, S \cap Entries(h) = {}
    PROVE  /\ TableOK(Filled(h, S)) /\ Filled(h, S).size = h.size
           /\ Entries(Filled(h, S)) = Entries(h) \cup S
           /\ Filled(h, S).used = h.used + Cardinality(S)
<1> DEFINE T == [i \in 0..h.size-1 |-> h.table[i] \cup {k \in S : Index(k, h.size) = i}]
           n == h.used + Cardinality(S)
           g == Filled(h, S)
<1>1. /\ h.table \in [0..h.size-1 -> SUBSET Keys] /\ h.used = Cardinality(Entries(h))
      /\ \A i \in 0..h.size-1 : \A k \in h.table[i] : Index(k, h.size) = i
  BY DEF TableOK
<1>2. /\ Entries(h) \in SUBSET Keys
      /\ \A k : k \in Entries(h) <=> \E i \in 0..h.size-1 : k \in h.table[i]
  BY EntryFacts
<1>3. \A k \in S : Index(k, h.size) \in 0..h.size-1
  <2>1. h.size \in Nat
    BY DEF TableOK, Hts
  <2> QED
    BY <2>1, IndexInTable
<1>4. /\ n = Cardinality(Entries(h) \cup S) /\ n \in Int
  <2>1. Cardinality(Entries(h) \cup S) = Cardinality(Entries(h)) + Cardinality(S)
    <3>1. Entries(h) \cap S = {}
      OBVIOUS
    <3> QED
      BY <1>2, <3>1, UnionCount, Zenon
  <2>2. Cardinality(Entries(h)) \in Nat /\ Cardinality(S) \in Nat
    BY <1>2, KeyCount
  <2> QED
    BY <1>1, <2>1, <2>2
<1>5. T \in [0..h.size-1 -> SUBSET Keys]
  BY <1>1
<1>6. g = Chained(h, T, n)
  BY <1>1 DEF Filled, Chained
<1>7. /\ g \in Hts /\ g.size = h.size /\ g.table = T /\ g.used = n
      /\ \A q : q \in Entries(g) <=> \E i \in 0..h.size-1 : q \in T[i]
  <2> HIDE DEF T, n, g
  <2> QED
    <3>1. T \in ChainsFor(h)
      BY <1>5 DEF ChainsFor
    <3>2. IsChained(g, h, T, n)
      BY <1>4, <1>6, <3>1, NewChains, Zenon
    <3> QED
      BY <3>2 DEF IsChained
<1>8. \A i \in 0..h.size-1 : T[i] = h.table[i] \cup {k \in S : Index(k, h.size) = i}
  OBVIOUS
<1> HIDE DEF T, n, g
<1>9. Entries(g) = Entries(h) \cup S
  <2>1. \A k \in S : k \in Entries(g)
    BY <1>3, <1>7, <1>8
  <2>2. \A k \in Entries(h) : k \in Entries(g)
    BY <1>2, <1>7, <1>8
  <2>3. Entries(g) \subseteq Entries(h) \cup S
    BY <1>2, <1>7, <1>8
  <2> QED
    BY <2>1, <2>2, <2>3
<1>10. TableOK(g)
  BY <1>1, <1>4, <1>5, <1>7, <1>8, <1>9 DEF TableOK
<1> QED
  BY <1>7, <1>9, <1>10 DEF g, n

\* g is h with, or without, an entry for k.
IsWith(g, h, k) ==
    /\ TableOK(g) /\ g.size = h.size /\ Entries(g) = Entries(h) \cup {k}
    /\ \A i \in 0..h.size-1 :
         g.table[i] = IF i = Index(k, h.size) THEN h.table[i] \cup {k} ELSE h.table[i]
IsWithout(g, h, k) ==
    /\ TableOK(g) /\ g.size = h.size /\ Entries(g) = Entries(h) \ {k}
    /\ \A i \in 0..h.size-1 :
         g.table[i] = IF i = Index(k, h.size) THEN h.table[i] \ {k} ELSE h.table[i]

\* An entry that is added at its bucket's head, and one that is unlinked.
LEMMA WithOK ==
    ASSUME NEW h, TableOK(h), h.size > 0, NEW k \in Keys
    PROVE  /\ k \notin Entries(h) => IsWith(With(h, k), h, k)
           /\ k \in Entries(h) => IsWithout(Without(h, k), h, k)
<1> DEFINE j == Index(k, h.size)
<1>1. /\ h.table \in [0..h.size-1 -> SUBSET Keys] /\ h.used = Cardinality(Entries(h))
      /\ \A i \in 0..h.size-1 : \A q \in h.table[i] : Index(q, h.size) = i
      /\ h \in Hts /\ h.used \in Int /\ h.size \in Nat
  BY DEF TableOK, Hts
<1>2. /\ Entries(h) \in SUBSET Keys
      /\ \A q : q \in Entries(h) <=> \E i \in 0..h.size-1 : q \in h.table[i]
  BY EntryFacts
<1>3. j \in 0..h.size-1
  BY <1>1, IndexInTable
<1>4. /\ {k} \in SUBSET Keys /\ Cardinality({k}) = 1 /\ Cardinality(Entries(h)) \in Nat
  BY <1>2, KeyCount, FS_Singleton
<1>5. /\ k \notin Entries(h) => Cardinality(Entries(h) \cup {k}) = Cardinality(Entries(h)) + 1
      /\ k \in Entries(h) => Cardinality(Entries(h) \ {k}) = Cardinality(Entries(h)) - 1
  <2>1. k \notin Entries(h) => Entries(h) \cap {k} = {}
    OBVIOUS
  <2>2. k \in Entries(h) => {k} \subseteq Entries(h)
    OBVIOUS
  <2>3. k \notin Entries(h) =>
            Cardinality(Entries(h) \cup {k}) = Cardinality(Entries(h)) + Cardinality({k})
    BY <1>2, <1>4, <2>1, UnionCount, Zenon
  <2>4. k \in Entries(h) =>
            Cardinality(Entries(h) \ {k}) = Cardinality(Entries(h)) - Cardinality({k})
    BY <1>2, <1>4, <2>2, RestCount, Zenon
  <2> QED
    BY <1>4, <2>3, <2>4
<1> DEFINE T == [h.table EXCEPT ![j] = h.table[j] \cup {k}]
           U == [h.table EXCEPT ![j] = h.table[j] \ {k}]
           g == With(h, k)
           f == Without(h, k)
<1>6. /\ g = Chained(h, T, h.used + 1)
      /\ f = Chained(h, U, h.used - 1)
  BY <1>1 DEF With, Without, Hts, Chained
<1>7. /\ T \in [0..h.size-1 -> SUBSET Keys] /\ U \in [0..h.size-1 -> SUBSET Keys]
      /\ \A i \in 0..h.size-1 :
            /\ T[i] = IF i = j THEN h.table[i] \cup {k} ELSE h.table[i]
            /\ U[i] = IF i = j THEN h.table[i] \ {k} ELSE h.table[i]
  BY <1>1, <1>3
<1>8. /\ g \in Hts /\ g.size = h.size /\ g.table = T /\ g.used = h.used + 1
      /\ \A q : q \in Entries(g) <=> \E i \in 0..h.size-1 : q \in T[i]
  <2> HIDE DEF T, g
  <2>1. h.used + 1 \in Int
    BY <1>1
  <2> QED
    <3>1. T \in ChainsFor(h)
      BY <1>7 DEF ChainsFor
    <3>2. IsChained(g, h, T, h.used + 1)
      BY <1>6, <2>1, <3>1, NewChains, Zenon
    <3> QED
      BY <3>2 DEF IsChained
<1>9. /\ f \in Hts /\ f.size = h.size /\ f.table = U /\ f.used = h.used - 1
      /\ \A q : q \in Entries(f) <=> \E i \in 0..h.size-1 : q \in U[i]
  <2> HIDE DEF U, f
  <2>1. h.used - 1 \in Int
    BY <1>1
  <2> QED
    <3>1. U \in ChainsFor(h)
      BY <1>7 DEF ChainsFor
    <3>2. IsChained(f, h, U, h.used - 1)
      BY <1>6, <2>1, <3>1, NewChains, Zenon
    <3> QED
      BY <3>2 DEF IsChained
<1> HIDE DEF T, U, g, f, j
<1>10. ASSUME k \notin Entries(h) PROVE TableOK(g) /\ Entries(g) = Entries(h) \cup {k}
  <2>1. Entries(g) = Entries(h) \cup {k}
    <3>1. k \in Entries(g)
      BY <1>3, <1>7, <1>8
    <3>2. \A q : q # k => (q \in Entries(g) <=> q \in Entries(h))
      BY <1>2, <1>7, <1>8
    <3> QED
      BY <3>1, <3>2
  <2>2. g.used = Cardinality(Entries(g))
    BY <1>1, <1>5, <1>8, <1>10, <2>1
  <2>3. ASSUME NEW i \in 0..h.size-1, NEW q \in T[i] PROVE Index(q, h.size) = i
    <3>1. q \in h.table[i] \/ (q = k /\ i = j)
      BY <1>7
    <3> QED
      BY <1>1, <3>1 DEF j
  <2> QED
    BY <1>7, <1>8, <2>1, <2>2, <2>3 DEF TableOK
<1>11. ASSUME k \in Entries(h) PROVE TableOK(f) /\ Entries(f) = Entries(h) \ {k}
  <2>1. Entries(f) = Entries(h) \ {k}
    <3>1. k \notin Entries(f)
      <4> SUFFICES ASSUME NEW i \in 0..h.size-1, k \in U[i] PROVE FALSE
        BY <1>9, Zenon
      <4>1. i # j /\ k \in h.table[i]
        BY <1>7
      <4>2. Index(k, h.size) = i
        BY <1>1, <4>1, Zenon
      <4> QED
        BY <4>1, <4>2 DEF j
    <3>2. \A q : q # k => (q \in Entries(f) <=> q \in Entries(h))
      BY <1>2, <1>7, <1>9
    <3> QED
      BY <3>1, <3>2
  <2>2. f.used = Cardinality(Entries(f))
    BY <1>1, <1>5, <1>9, <1>11, <2>1
  <2>3. \A i \in 0..h.size-1 : \A q \in U[i] : Index(q, h.size) = i
    BY <1>1, <1>7 DEF j
  <2> QED
    BY <1>7, <1>9, <2>1, <2>2, <2>3 DEF TableOK
<1> QED
  BY <1>7, <1>8, <1>9, <1>10, <1>11 DEF g, f, j, IsWith, IsWithout
-----------------------------------------------------------------------------
(* The two tables. *)

\* A dict with tables h0 and h1 and rehashidx r.
Retabled(x, h0, h1, r) == [x EXCEPT !.ht = Pair(h0, h1), !.rehashidx = r]
IsRetabled(y, x, h0, h1, r) ==
    /\ y \in Dicts /\ y.ht[0] = h0 /\ y.ht[1] = h1
    /\ y.rehashidx = r /\ y.iterators = x.iterators

\* It is a dict with these fields.
LEMMA RetabledOK ==
    ASSUME NEW x \in Dicts, NEW h0 \in Hts, NEW h1 \in Hts, NEW r \in Int
    PROVE  IsRetabled(Retabled(x, h0, h1, r), x, h0, h1, r)
<1>1. Pair(h0, h1) \in [{0, 1} -> Hts] /\ Pair(h0, h1)[0] = h0 /\ Pair(h0, h1)[1] = h1
  BY DEF Pair
<1> QED
  BY <1>1 DEF Dicts, Retabled, IsRetabled

\* y has the keys of x, and is walked by the same iterators.
Same(y, x) == DictOK(y) /\ KeysOf(y) = KeysOf(x) /\ y.iterators = x.iterators

\* What a well-formed dict consists of.
LEMMA DictFacts ==
    ASSUME NEW x, DictOK(x)
    PROVE  /\ x.ht[0] \in Hts /\ x.ht[1] \in Hts
           /\ x.ht[0].size \in Nat /\ x.ht[1].size \in Nat
           /\ x.ht[0].used \in Nat /\ x.ht[1].used \in Nat
           /\ Entries(x.ht[0]) \in SUBSET Keys /\ Entries(x.ht[1]) \in SUBSET Keys
           /\ x.rehashidx \in Int
           /\ dictSize(x) = 0 <=> KeysOf(x) = {}
<1>1. x.ht[0] \in Hts /\ x.ht[1] \in Hts /\ x.rehashidx \in Int
  BY DEF DictOK, Dicts
<1>2. TableOK(x.ht[0]) /\ TableOK(x.ht[1])
  BY DEF DictOK
<1>3. Entries(x.ht[0]) \in SUBSET Keys /\ Entries(x.ht[1]) \in SUBSET Keys
  BY <1>2, EntryFacts, Zenon
<1>4. /\ x.ht[0].used = Cardinality(Entries(x.ht[0]))
      /\ x.ht[1].used = Cardinality(Entries(x.ht[1]))
  BY <1>2 DEF TableOK
<1>5. /\ x.ht[0].used \in Nat /\ (x.ht[0].used = 0 <=> Entries(x.ht[0]) = {})
      /\ x.ht[1].used \in Nat /\ (x.ht[1].used = 0 <=> Entries(x.ht[1]) = {})
  BY <1>3, <1>4, KeyCount, Zenon
<1>6. dictSize(x) = 0 <=> KeysOf(x) = {}
  BY <1>5 DEF dictSize, KeysOf
<1>7. x.ht[0].size \in Nat /\ x.ht[1].size \in Nat
  BY <1>1 DEF Hts
<1> QED
  BY <1>1, <1>3, <1>5, <1>6, <1>7

\* _dictNextPower() finds a size.
LEMMA NextPowerOK ==
    ASSUME NEW n \in Nat
    PROVE  _dictNextPower(n) \in Nat /\ _dictNextPower(n) > 0
<1> DEFINE sizes == {InitialSize * 2^e : e \in 0..n}
           T == {s \in sizes : s >= n}
<1>1. \A e \in 0..n : 2^e \in Nat /\ 2^e >= 1
  BY PowersOfTwo
<1>2. \A s \in sizes : s \in Nat /\ s > 0
  <2> SUFFICES ASSUME NEW e \in 0..n PROVE InitialSize * 2^e \in Nat /\ InitialSize * 2^e > 0
    OBVIOUS
  <2>1. PICK p \in Nat : p = 2^e /\ p >= 1
    BY <1>1
  <2>2. \A a, b \in Nat : a > 0 /\ b >= 1 => a * b \in Nat /\ a * b > 0
    OBVIOUS
  <2> QED
    BY <2>1, <2>2, DictAssumption
<1>3. T # {}
  <2>1. PICK p \in Nat : p = 2^n /\ p >= n
    BY PowersOfTwo
  <2>2. \A a, b \in Nat : a > 0 => a * b >= b
    OBVIOUS
  <2>3. InitialSize * 2^n \in sizes
    OBVIOUS
  <2>4. InitialSize * 2^n >= n
    <3>1. InitialSize * p >= p /\ InitialSize * p \in Int
      BY <2>1, <2>2, DictAssumption
    <3> QED
      BY <2>1, <3>1
  <2> QED
    BY <2>3, <2>4
<1> HIDE DEF sizes
<1>4. T \in SUBSET Nat
  BY <1>2
<1>5. PICK s \in T : \A r \in T : s <= r
  <2> HIDE DEF T
  <2> QED
    BY <1>3, <1>4, LeastNumber
<1>6. \E q \in sizes : q >= n /\ \A r \in sizes : r >= n => q <= r
  BY <1>5
<1>7. _dictNextPower(n) \in sizes
  BY <1>6 DEF _dictNextPower, sizes
<1> QED
  BY <1>2, <1>7

\* The keys in the buckets after bucket i of table t.
Later(x, t, i) ==
    {k \in Keys : \E u \in {0, 1} : \E j \in 0..x.ht[u].size-1 :
        (u > t \/ (u = t /\ j > i)) /\ k \in x.ht[u].table[j]}

\* Only k may have been added to the buckets.
More(y, x, k) ==
    \A u \in {0, 1} : /\ y.ht[u].size = x.ht[u].size
                      /\ \A j \in 0..x.ht[u].size-1 :
                            /\ x.ht[u].table[j] \subseteq y.ht[u].table[j]
                            /\ y.ht[u].table[j] \subseteq x.ht[u].table[j] \cup {k}

\* k has been taken out of them.
Less(y, x, k) ==
    \A u \in {0, 1} : /\ y.ht[u].size = x.ht[u].size
                      /\ \A j \in 0..x.ht[u].size-1 :
                            y.ht[u].table[j] = x.ht[u].table[j] \ {k}

LEMMA LaterMore ==
    ASSUME NEW x, NEW y, NEW k, More(y, x, k), NEW t, NEW i
    PROVE  /\ Later(x, t, i) \subseteq Later(y, t, i)
           /\ Later(y, t, i) \subseteq Later(x, t, i) \cup {k}
<1> USE DEF More
<1>1. ASSUME NEW q \in Later(x, t, i) PROVE q \in Later(y, t, i)
  <2>1. PICK v \in {0, 1} : \E j \in 0..x.ht[v].size-1 :
            (v > t \/ (v = t /\ j > i)) /\ q \in x.ht[v].table[j]
    BY <1>1 DEF Later
  <2>2. PICK j \in 0..x.ht[v].size-1 :
            (v > t \/ (v = t /\ j > i)) /\ q \in x.ht[v].table[j]
    BY <2>1
  <2>3. j \in 0..y.ht[v].size-1 /\ q \in y.ht[v].table[j]
    BY <2>2
  <2> QED
    BY <1>1, <2>2, <2>3 DEF Later
<1>2. ASSUME NEW q \in Later(y, t, i), q # k PROVE q \in Later(x, t, i)
  <2>1. PICK v \in {0, 1} : \E j \in 0..y.ht[v].size-1 :
            (v > t \/ (v = t /\ j > i)) /\ q \in y.ht[v].table[j]
    BY <1>2 DEF Later
  <2>2. PICK j \in 0..y.ht[v].size-1 :
            (v > t \/ (v = t /\ j > i)) /\ q \in y.ht[v].table[j]
    BY <2>1
  <2>3. j \in 0..x.ht[v].size-1 /\ q \in x.ht[v].table[j]
    BY <1>2, <2>2
  <2> QED
    BY <1>2, <2>2, <2>3 DEF Later
<1> QED
  BY <1>1, <1>2

LEMMA LaterLess ==
    ASSUME NEW x, NEW y, NEW k, Less(y, x, k), NEW t, NEW i
    PROVE  Later(y, t, i) = Later(x, t, i) \ {k}
<1> USE DEF Less
<1>1. ASSUME NEW q \in Later(x, t, i), q # k PROVE q \in Later(y, t, i)
  <2>1. PICK v \in {0, 1} : \E j \in 0..x.ht[v].size-1 :
            (v > t \/ (v = t /\ j > i)) /\ q \in x.ht[v].table[j]
    BY <1>1 DEF Later
  <2>2. PICK j \in 0..x.ht[v].size-1 :
            (v > t \/ (v = t /\ j > i)) /\ q \in x.ht[v].table[j]
    BY <2>1
  <2>3. j \in 0..y.ht[v].size-1 /\ q \in y.ht[v].table[j]
    BY <1>1, <2>2
  <2> QED
    BY <1>1, <2>2, <2>3 DEF Later
<1>2. ASSUME NEW q \in Later(y, t, i) PROVE q \in Later(x, t, i) /\ q # k
  <2>1. PICK v \in {0, 1} : \E j \in 0..y.ht[v].size-1 :
            (v > t \/ (v = t /\ j > i)) /\ q \in y.ht[v].table[j]
    BY <1>2 DEF Later
  <2>2. PICK j \in 0..y.ht[v].size-1 :
            (v > t \/ (v = t /\ j > i)) /\ q \in y.ht[v].table[j]
    BY <2>1
  <2>3. j \in 0..x.ht[v].size-1 /\ q \in x.ht[v].table[j] /\ q # k
    BY <2>2
  <2> QED
    BY <1>2, <2>2, <2>3 DEF Later
<1> QED
  BY <1>1, <1>2

\* No entry has moved.
Still(y, x) == \A t, i : Later(y, t, i) = Later(x, t, i)

\* dictExpand() neither loses nor moves an entry.
LEMMA ExpandOK ==
    ASSUME NEW x, DictOK(x), NEW n \in Nat
    PROVE  /\ Same(dictExpand(x, n), x) /\ Still(dictExpand(x, n), x)
           /\ x.ht[0].size > 0 \/ CanExpand(x, n) => dictExpand(x, n).ht[0].size > 0
<1> DEFINE m == _dictNextPower(n)
           y == dictExpand(x, n)
<1>1. m \in Nat /\ m > 0
  BY NextPowerOK
<1>2. /\ TableOK(NewTable(m)) /\ Entries(NewTable(m)) = {} /\ NewTable(m).size = m
      /\ NewTable(m) \in Hts
  BY <1>1, NewTableOK DEF TableOK
<1>3. CASE ~CanExpand(x, n)
  BY <1>3 DEF dictExpand, Same, Still
<1>4. CASE CanExpand(x, n)
  <2>1. ~dictIsRehashing(x) /\ m # x.ht[0].size /\ x.ht[1] = EmptyTable /\ x \in Dicts
    BY <1>4 DEF CanExpand, DictOK
  <2>2. /\ TableOK(x.ht[0]) /\ TableOK(x.ht[1]) /\ x.ht[0] \in Hts /\ x.ht[1] \in Hts
        /\ x.ht[0].size \in Nat
    BY DictFacts DEF DictOK
  <2>3. x.ht[1].size = 0 /\ Entries(x.ht[1]) = {}
    BY <2>1, EmptyTableOK
  <2> HIDE DEF m
  <2>4. CASE x.ht[0].size = 0
    <3>1. y = [x EXCEPT !.ht[0] = NewTable(m)]
      BY <1>4, <2>4 DEF dictExpand, m
    <3>2. /\ y \in Dicts /\ y.ht[0] = NewTable(m) /\ y.ht[1] = x.ht[1]
          /\ y.rehashidx = x.rehashidx /\ y.iterators = x.iterators
      BY <1>2, <2>1, <3>1 DEF Dicts
    <3> HIDE DEF y
    <3>3. Entries(x.ht[0]) = {}
      BY <2>2, <2>4, EntryFacts
    <3>4. DictOK(y)
      BY <1>2, <2>1, <2>2, <2>3, <3>2 DEF DictOK, dictIsRehashing
    <3>5. KeysOf(y) = KeysOf(x)
      BY <1>2, <3>2, <3>3 DEF KeysOf
    <3>6. Still(y, x)
      <4>1. \A j \in 0..m-1 : NewTable(m).table[j] = {}
        BY DEF NewTable
      <4> QED
        BY <1>2, <2>3, <2>4, <3>2, <4>1 DEF Still, Later
    <3> QED
      BY <1>1, <1>2, <3>2, <3>4, <3>5, <3>6 DEF Same, y
  <2>5. CASE x.ht[0].size # 0
    <3>1. y = Retabled(x, x.ht[0], NewTable(m), 0)
      BY <1>4, <2>5 DEF dictExpand, m, Retabled
    <3> HIDE DEF y
    <3>2. /\ y \in Dicts /\ y.ht[0] = x.ht[0] /\ y.ht[1] = NewTable(m)
          /\ y.rehashidx = 0 /\ y.iterators = x.iterators
      <4>1. 0 \in Int
        OBVIOUS
      <4>2. IsRetabled(y, x, x.ht[0], NewTable(m), 0)
        BY <1>2, <2>1, <2>2, <3>1, <4>1, RetabledOK, Zenon
      <4> QED
        BY <4>2 DEF IsRetabled
    <3>3. Rehashing(y)
      BY <1>1, <1>2, <2>1, <2>2, <2>5, <3>2 DEF Rehashing
    <3>4. DictOK(y)
      BY <1>2, <2>2, <3>2, <3>3 DEF DictOK, dictIsRehashing
    <3>5. KeysOf(y) = KeysOf(x)
      BY <1>2, <2>3, <3>2 DEF KeysOf
    <3>6. Still(y, x)
      <4>1. \A j \in 0..m-1 : NewTable(m).table[j] = {}
        BY DEF NewTable
      <4> QED
        BY <1>2, <2>3, <3>2, <4>1 DEF Still, Later
    <3> QED
      BY <2>2, <2>5, <3>2, <3>4, <3>5, <3>6 DEF Same, y
  <2> QED
    BY <2>4, <2>5
<1> QED
  BY <1>3, <1>4

\* After _dictExpandIfNeeded() there is a bucket for a new entry.
LEMMA ExpandIfNeededOK ==
    ASSUME NEW x, DictOK(x)
    PROVE  /\ Same(_dictExpandIfNeeded(x), x) /\ Still(_dictExpandIfNeeded(x), x)
           /\ _dictExpandIfNeeded(x).ht[0].size > 0
<1> DEFINE y == _dictExpandIfNeeded(x)
<1>1. /\ x.ht[0].size \in Nat /\ x.ht[0].used \in Nat
      /\ x.ht[0].used = Cardinality(Entries(x.ht[0]))
  BY DictFacts DEF DictOK, TableOK
<1>2. InitialSize \in Nat /\ x.ht[0].used * 2 \in Nat
  BY <1>1, DictAssumption
<1>3. CASE y = x /\ x.ht[0].size > 0
  BY <1>3 DEF Same, Still
<1>4. CASE dictIsRehashing(x)
  <2>1. y = x
    BY <1>4 DEF _dictExpandIfNeeded
  <2>2. x.ht[0].size > 0
    BY <1>4 DEF DictOK, Rehashing
  <2> QED
    BY <1>3, <2>1, <2>2
<1>5. CASE ~dictIsRehashing(x) /\ x.ht[0].size = 0
  <2>1. y = dictExpand(x, InitialSize)
    BY <1>5 DEF _dictExpandIfNeeded
  <2>2. CanExpand(x, InitialSize)
    <3>1. x.ht[0].used = 0
      <4>1. Entries(x.ht[0]) = {}
        BY <1>5, EntryFacts DEF DictOK
      <4> QED
        BY <1>1, <4>1, FS_EmptySet
    <3>2. _dictNextPower(InitialSize) # 0
      BY <1>2, NextPowerOK
    <3> QED
      BY <1>2, <1>5, <3>1, <3>2 DEF CanExpand
  <2> QED
    BY <1>2, <2>1, <2>2, ExpandOK, Zenon
<1>6. CASE ~dictIsRehashing(x) /\ x.ht[0].size > 0
  <2>1. y = x \/ y = dictExpand(x, x.ht[0].used * 2)
    BY <1>6 DEF _dictExpandIfNeeded
  <2>2. /\ Same(dictExpand(x, x.ht[0].used * 2), x) /\ Still(dictExpand(x, x.ht[0].used * 2), x)
        /\ dictExpand(x, x.ht[0].used * 2).ht[0].size > 0
    BY <1>2, <1>6, ExpandOK, Zenon
  <2> QED
    BY <1>3, <1>6, <2>1, <2>2, Zenon
<1> QED
  BY <1>1, <1>4, <1>5, <1>6

\* A bucket that moves takes its entries with it, and the last one ends the move.
LEMMA MoveBucketsOK ==
    ASSUME NEW x, DictOK(x), dictIsRehashing(x), NEW b \in x.rehashidx..x.ht[0].size
    PROVE  Same(MoveBuckets(x, b), x)
<1> DEFINE B == {i \in 0..x.ht[0].size-1 : x.rehashidx <= i /\ i < b}
           S == UNION {x.ht[0].table[i] : i \in B}
           old == Emptied(x.ht[0], B)
           new == Filled(x.ht[1], S)
           y == MoveBuckets(x, b)
<1>1. /\ TableOK(x.ht[0]) /\ TableOK(x.ht[1]) /\ x \in Dicts /\ Rehashing(x)
      /\ Entries(x.ht[0]) \cap Entries(x.ht[1]) = {}
  BY DEF DictOK
<1>2. /\ Entries(x.ht[0]) \in SUBSET Keys /\ x.rehashidx \in Int
      /\ x.ht[0].size \in Nat /\ x.ht[1].size \in Nat
  BY DictFacts
<1>3. B \in SUBSET (0..x.ht[0].size-1)
  OBVIOUS
<1>4. S \subseteq Entries(x.ht[0])
  BY <1>3 DEF Entries
<1>5. y = IF old.used = 0 THEN [x EXCEPT !.ht = Pair(new, EmptyTable), !.rehashidx = -1]
          ELSE [x EXCEPT !.ht = Pair(old, new), !.rehashidx = b]
  BY DEF MoveBuckets
<1>6. /\ TableOK(old) /\ old.size = x.ht[0].size /\ Entries(old) = Entries(x.ht[0]) \ S
      /\ \A i \in 0..x.ht[0].size-1 : old.table[i] = IF i \in B THEN {} ELSE x.ht[0].table[i]
  <2> HIDE DEF B
  <2>1. IsEmptied(old, x.ht[0], B)
    BY <1>1, <1>3, EmptiedOK, Zenon
  <2> QED
    BY <2>1 DEF IsEmptied
<1>7. \A i \in 0..x.ht[0].size-1 : i \in B <=> (x.rehashidx <= i /\ i < b)
  OBVIOUS
<1> HIDE DEF B, S, y
<1>8. /\ TableOK(new) /\ new.size = x.ht[1].size /\ Entries(new) = Entries(x.ht[1]) \cup S
  <2>1. S \in SUBSET Keys /\ S \cap Entries(x.ht[1]) = {} /\ x.ht[1].size > 0
    BY <1>1, <1>2, <1>4 DEF Rehashing
  <2> QED
    BY <1>1, <2>1, FilledOK, Zenon
<1> HIDE DEF old, new
<1>9. old \in Hts /\ new \in Hts /\ EmptyTable \in Hts
  BY <1>6, <1>8, EmptyTableOK DEF TableOK
<1>10. CASE old.used = 0
  <2>1. y = [x EXCEPT !.ht = Pair(new, EmptyTable), !.rehashidx = -1]
    BY <1>5, <1>10
  <2>0. y = Retabled(x, new, EmptyTable, -1)
    BY <2>1, Zenon DEF Retabled
  <2>2. /\ y \in Dicts /\ y.ht[0] = new /\ y.ht[1] = EmptyTable
        /\ y.rehashidx = -1 /\ y.iterators = x.iterators
    <3>1. -1 \in Int
      OBVIOUS
    <3>2. IsRetabled(y, x, new, EmptyTable, -1)
      BY <1>1, <1>9, <2>0, <3>1, RetabledOK, Zenon
    <3> QED
      BY <3>2 DEF IsRetabled
  <2>3. Entries(old) = {}
    <3>1. old.used = Cardinality(Entries(old)) /\ Entries(old) \in SUBSET Keys
      BY <1>2, <1>6 DEF TableOK
    <3> QED
      BY <1>10, <3>1, KeyCount
  <2>4. DictOK(y)
    BY <1>8, <2>2, EmptyTableOK DEF DictOK, dictIsRehashing
  <2>5. KeysOf(y) = KeysOf(x)
    BY <1>4, <1>6, <1>8, <2>2, <2>3, EmptyTableOK DEF KeysOf
  <2> QED
    BY <2>2, <2>4, <2>5 DEF Same, y
<1>11. CASE old.used # 0
  <2>1. y = [x EXCEPT !.ht = Pair(old, new), !.rehashidx = b]
    BY <1>5, <1>11
  <2>2. /\ y \in Dicts /\ y.ht[0] = old /\ y.ht[1] = new
        /\ y.rehashidx = b /\ y.iterators = x.iterators
    <3>1. b \in Int
      BY <1>2
    <3>2. y = Retabled(x, old, new, b)
      BY <2>1 DEF Retabled
    <3>3. IsRetabled(y, x, old, new, b)
      BY <1>1, <1>9, <3>1, <3>2, RetabledOK, Zenon
    <3> QED
      BY <3>3 DEF IsRetabled
  <2>3. Rehashing(y)
    BY <1>1, <1>2, <1>6, <1>7, <1>8, <2>2 DEF Rehashing
  <2>4. Entries(old) \cap Entries(new) = {}
    BY <1>1, <1>6, <1>8
  <2>5. DictOK(y)
    BY <1>6, <1>8, <2>2, <2>3, <2>4 DEF DictOK, dictIsRehashing, Rehashing
  <2>6. KeysOf(y) = KeysOf(x)
    BY <1>4, <1>6, <1>8, <2>2 DEF KeysOf
  <2> QED
    BY <2>2, <2>5, <2>6 DEF Same, y
<1> QED
  BY <1>10, <1>11 DEF y

\* dictRehash() finds the next bucket to move, and ends when there is none.
LEMMA RehashOK ==
    ASSUME NEW x, DictOK(x)
    PROVE  Same(dictRehash(x), x)
<1> DEFINE full == {i \in 0..x.ht[0].size-1 : i >= x.rehashidx /\ x.ht[0].table[i] # {}}
           next == CHOOSE i \in full : \A j \in full : i <= j
           y == dictRehash(x)
<1>1. CASE ~dictIsRehashing(x)
  BY <1>1 DEF dictRehash, Same
<1>2. CASE dictIsRehashing(x)
  <2>1. /\ Rehashing(x) /\ x \in Dicts /\ TableOK(x.ht[0]) /\ TableOK(x.ht[1])
        /\ Entries(x.ht[0]) \cap Entries(x.ht[1]) = {}
    BY <1>2 DEF DictOK
  <2>2. /\ x.rehashidx \in 0..x.ht[0].size /\ x.ht[0].size \in Nat
        /\ \A i \in 0..x.rehashidx-1 : x.ht[0].table[i] = {}
    BY <2>1, DictFacts DEF Rehashing
  <2>3. CASE full = {}
    <3>1. y = MoveBuckets(x, x.rehashidx)
      BY <1>2, <2>3 DEF dictRehash
    <3>2. x.rehashidx \in x.rehashidx..x.ht[0].size
      BY <2>2
    <3> QED
      BY <1>2, <3>1, <3>2, MoveBucketsOK
  <2>4. CASE full # {}
    <3>1. next \in full /\ \A j \in full : next <= j
      <4>1. full \in SUBSET Nat
        BY <2>2
      <4> HIDE DEF full
      <4> QED
        BY <2>4, <4>1, LeastNumber
    <3>2. next \in 0..x.ht[0].size-1 /\ next >= x.rehashidx
      BY <3>1
    <3>3. \A j \in 0..x.ht[0].size-1 : j < next => x.ht[0].table[j] = {}
      <4> SUFFICES ASSUME NEW j \in 0..x.ht[0].size-1, j < next, x.ht[0].table[j] # {}
                   PROVE  FALSE
        OBVIOUS
      <4>1. j < x.rehashidx
        <5>1. j \notin full
          <6> HIDE DEF next, full
          <6> QED
            BY <2>2, <3>1, <3>2
        <5> QED
          BY <2>2, <5>1
      <4> QED
        BY <2>2, <4>1
    <3>4. y = IF next - x.rehashidx >= EmptyVisits
              THEN [x EXCEPT !.rehashidx = @ + EmptyVisits] ELSE MoveBuckets(x, next + 1)
      BY <1>2, <2>4 DEF dictRehash
    <3> HIDE DEF next, full, y
    <3>5. CASE next - x.rehashidx >= EmptyVisits
      <4> DEFINE r == x.rehashidx + EmptyVisits
      <4>1. r \in 0..x.ht[0].size /\ r <= next /\ r # -1
        BY <2>2, <3>2, <3>5, DictAssumption
      <4>2. y = [x EXCEPT !.rehashidx = r]
        BY <3>4, <3>5
      <4> HIDE DEF r
      <4>3. /\ y \in Dicts /\ y.ht = x.ht /\ y.rehashidx = r /\ y.iterators = x.iterators
        BY <2>1, <2>2, <4>1, <4>2 DEF Dicts
      <4>4. Rehashing(y)
        BY <2>1, <2>2, <3>2, <3>3, <4>1, <4>3 DEF Rehashing
      <4>5. DictOK(y)
        BY <2>1, <4>1, <4>3, <4>4 DEF DictOK, dictIsRehashing
      <4> QED
        BY <4>3, <4>5 DEF Same, KeysOf, y
    <3>6. CASE ~(next - x.rehashidx >= EmptyVisits)
      <4>1. y = MoveBuckets(x, next + 1)
        BY <3>4, <3>6
      <4>2. next + 1 \in x.rehashidx..x.ht[0].size
        BY <2>2, <3>2
      <4> QED
        BY <1>2, <4>1, <4>2, MoveBucketsOK, Zenon DEF y
    <3> QED
      BY <3>5, <3>6
  <2> QED
    BY <2>3, <2>4
<1> QED
  BY <1>1, <1>2

\* _dictRehashStep() does nothing under an iterator.
LEMMA RehashStepOK ==
    ASSUME NEW x, DictOK(x)
    PROVE  Same(_dictRehashStep(x), x) /\ (x.iterators # 0 => _dictRehashStep(x) = x)
  BY RehashOK DEF _dictRehashStep, Same

\* A lookup finds a key wherever it is.
LEMMA LookupOK ==
    ASSUME NEW x, DictOK(x), NEW k \in Keys
    PROVE  /\ x.ht[0].size > 0 =>
                ((\E u \in Tables(x) : k \in Bucket(x, u, k)) <=> k \in KeysOf(x))
           /\ Found(x, k) <=> k \in KeysOf(x)
<1>1. TableOK(x.ht[0]) /\ TableOK(x.ht[1]) /\ x.ht[0].size \in Nat /\ x.ht[1].size \in Nat
  BY DictFacts DEF DictOK
<1>2. ASSUME x.ht[0].size > 0
      PROVE  (\E u \in Tables(x) : k \in Bucket(x, u, k)) <=> k \in KeysOf(x)
  <2>1. k \in Bucket(x, 0, k) <=> k \in Entries(x.ht[0])
    BY <1>1, <1>2, EntryFacts DEF Bucket
  <2>2. CASE dictIsRehashing(x)
    <3>1. x.ht[1].size > 0
      BY <2>2 DEF DictOK, Rehashing
    <3>2. k \in Bucket(x, 1, k) <=> k \in Entries(x.ht[1])
      BY <1>1, <3>1, EntryFacts DEF Bucket
    <3> QED
      BY <2>1, <2>2, <3>2 DEF Tables, KeysOf
  <2>3. CASE ~dictIsRehashing(x)
    <3>1. Entries(x.ht[1]) = {}
      BY <2>3, EmptyTableOK DEF DictOK
    <3> QED
      BY <2>1, <2>3, <3>1 DEF Tables, KeysOf
  <2> QED
    BY <2>2, <2>3
<1>3. CASE dictSize(x) = 0
  BY <1>2, <1>3, DictFacts DEF Found
<1>4. CASE dictSize(x) # 0
  <2>1. x.ht[0].size > 0
    <3> SUFFICES ASSUME x.ht[0].size = 0 PROVE FALSE
      BY <1>1
    <3>1. ~dictIsRehashing(x)
      BY DEF DictOK, Rehashing
    <3>2. Entries(x.ht[0]) = {} /\ Entries(x.ht[1]) = {}
      BY <1>1, <3>1, EntryFacts, EmptyTableOK DEF DictOK
    <3> QED
      BY <1>4, <3>2, DictFacts DEF KeysOf
  <2> QED
    BY <1>2, <1>4, <2>1 DEF Found
<1> QED
  BY <1>2, <1>3, <1>4

\* Table t is replaced by h.
Put(x, t, h) == [x EXCEPT !.ht[t] = h]
IsPut(y, x, t, h) ==
    /\ y \in Dicts /\ y.ht[t] = h /\ y.ht[1 - t] = x.ht[1 - t]
    /\ y.rehashidx = x.rehashidx /\ y.iterators = x.iterators

\* The other fields stay.
LEMMA OneTable ==
    ASSUME NEW x \in Dicts, NEW t \in {0, 1}, NEW h \in Hts
    PROVE  IsPut(Put(x, t, h), x, t, h)
  BY DEF Dicts, Put, IsPut

\* An entry is added to the table t that new entries go to.
LEMMA AddOK ==
    ASSUME NEW x, DictOK(x), x.ht[0].size > 0, NEW k \in Keys, k \notin KeysOf(x),
           NEW t, t = AddTo(x), NEW y, y = Put(x, t, With(x.ht[t], k))
    PROVE  /\ DictOK(y) /\ KeysOf(y) = KeysOf(x) \cup {k} /\ y.iterators = x.iterators
           /\ \A u, i : /\ Later(x, u, i) \subseteq Later(y, u, i)
                        /\ Later(y, u, i) \subseteq Later(x, u, i) \cup {k}
<1>1. t \in {0, 1} /\ x.ht[t].size > 0 /\ (t = 1 <=> dictIsRehashing(x))
  BY DEF AddTo, DictOK, Rehashing
<1>2. /\ x \in Dicts /\ TableOK(x.ht[t]) /\ TableOK(x.ht[1 - t])
      /\ Entries(x.ht[t]) \cap Entries(x.ht[1 - t]) = {}
      /\ KeysOf(x) = Entries(x.ht[t]) \cup Entries(x.ht[1 - t])
  BY <1>1 DEF DictOK, KeysOf
<1> DEFINE h == With(x.ht[t], k)
<1>3. /\ TableOK(h) /\ h.size = x.ht[t].size /\ Entries(h) = Entries(x.ht[t]) \cup {k}
      /\ \A i \in 0..x.ht[t].size-1 :
            h.table[i] = IF i = Index(k, x.ht[t].size) THEN x.ht[t].table[i] \cup {k}
                         ELSE x.ht[t].table[i]
  <2>1. k \notin Entries(x.ht[t])
    BY <1>2
  <2>2. IsWith(h, x.ht[t], k)
    BY <1>1, <1>2, <2>1, WithOK, Zenon
  <2> HIDE DEF h
  <2> QED
    BY <2>2 DEF IsWith
<1>4. h \in Hts
  BY <1>3 DEF TableOK
<1>5. /\ y \in Dicts /\ y.ht[t] = h /\ y.ht[1 - t] = x.ht[1 - t]
      /\ y.rehashidx = x.rehashidx /\ y.iterators = x.iterators
  <2>1. IsPut(y, x, t, h)
    BY <1>1, <1>2, <1>4, OneTable, Zenon
  <2> HIDE DEF h
  <2> QED
    BY <2>1 DEF IsPut
<1> HIDE DEF h
<1>6. KeysOf(y) = KeysOf(x) \cup {k}
  BY <1>1, <1>2, <1>3, <1>5 DEF KeysOf
<1>7. DictOK(y)
  <2>1. TableOK(y.ht[0]) /\ TableOK(y.ht[1]) /\ Entries(y.ht[0]) \cap Entries(y.ht[1]) = {}
    BY <1>1, <1>2, <1>3, <1>5
  <2>2. CASE t = 1
    <3>1. Rehashing(x) /\ y.ht[0] = x.ht[0] /\ y.ht[1].size = x.ht[1].size
      BY <1>1, <1>3, <1>5, <2>2 DEF DictOK
    <3> QED
      BY <1>1, <1>5, <2>1, <2>2, <3>1 DEF DictOK, Rehashing, dictIsRehashing
  <2>3. CASE t = 0
    BY <1>1, <1>5, <2>1, <2>3 DEF DictOK, dictIsRehashing
  <2> QED
    BY <1>1, <2>2, <2>3
<1>8. \A u \in {0, 1} : /\ y.ht[u].size = x.ht[u].size
                        /\ \A j \in 0..x.ht[u].size-1 :
                              /\ x.ht[u].table[j] \subseteq y.ht[u].table[j]
                              /\ y.ht[u].table[j] \subseteq x.ht[u].table[j] \cup {k}
  <2> SUFFICES ASSUME NEW u \in {0, 1}
               PROVE  /\ y.ht[u].size = x.ht[u].size
                      /\ \A j \in 0..x.ht[u].size-1 :
                              /\ x.ht[u].table[j] \subseteq y.ht[u].table[j]
                              /\ y.ht[u].table[j] \subseteq x.ht[u].table[j] \cup {k}
    OBVIOUS
  <2>1. CASE u = t
    <3>1. y.ht[u] = h
      BY <1>5, <2>1
    <3>2. y.ht[u].size = x.ht[u].size
      BY <1>3, <2>1, <3>1
    <3>3. ASSUME NEW j \in 0..x.ht[u].size-1
          PROVE  /\ x.ht[u].table[j] \subseteq y.ht[u].table[j]
                 /\ y.ht[u].table[j] \subseteq x.ht[u].table[j] \cup {k}
      <4>1. y.ht[u].table[j] = x.ht[u].table[j] \/ y.ht[u].table[j] = x.ht[u].table[j] \cup {k}
        BY <1>3, <2>1, <3>1
      <4> QED
        BY <4>1
    <3> QED
      BY <3>2, <3>3
  <2>2. CASE u = 1 - t
    BY <1>5, <2>2
  <2> QED
    BY <1>1, <2>1, <2>2
<1>9. \A u, i : /\ Later(x, u, i) \subseteq Later(y, u, i)
                /\ Later(y, u, i) \subseteq Later(x, u, i) \cup {k}
  <2>1. More(y, x, k)
    BY <1>8, Zenon DEF More
  <2> QED
    BY <2>1, LaterMore
<1> QED
  BY <1>5, <1>6, <1>7, <1>9

\* An entry is taken out of the table t that it is in.
LEMMA DeleteOK ==
    ASSUME NEW x, DictOK(x), NEW k \in Keys, NEW t \in {0, 1}, k \in Entries(x.ht[t]),
           NEW y, y = Put(x, t, Without(x.ht[t], k))
    PROVE  /\ DictOK(y) /\ KeysOf(y) = KeysOf(x) \ {k} /\ y.iterators = x.iterators
           /\ \A u, i : Later(y, u, i) = Later(x, u, i) \ {k}
<1>1. /\ x \in Dicts /\ TableOK(x.ht[t]) /\ TableOK(x.ht[1 - t])
      /\ Entries(x.ht[t]) \cap Entries(x.ht[1 - t]) = {}
      /\ KeysOf(x) = Entries(x.ht[t]) \cup Entries(x.ht[1 - t])
  BY DEF DictOK, KeysOf
<1>2. x.ht[t].size > 0 /\ x.ht[t].size \in Nat
  <2>1. x.ht[t].size \in Nat
    BY <1>1 DEF TableOK, Hts
  <2>2. x.ht[t].size # 0
    BY <1>1, EntryFacts, Zenon
  <2> QED
    BY <2>1, <2>2
<1> DEFINE h == Without(x.ht[t], k)
<1>3. /\ TableOK(h) /\ h.size = x.ht[t].size /\ Entries(h) = Entries(x.ht[t]) \ {k}
      /\ \A i \in 0..x.ht[t].size-1 :
            h.table[i] = IF i = Index(k, x.ht[t].size) THEN x.ht[t].table[i] \ {k}
                         ELSE x.ht[t].table[i]
  <2>1. IsWithout(h, x.ht[t], k)
    BY <1>1, <1>2, WithOK, Zenon
  <2> HIDE DEF h
  <2> QED
    BY <2>1 DEF IsWithout
<1>4. h \in Hts
  BY <1>3 DEF TableOK
<1>5. /\ y \in Dicts /\ y.ht[t] = h /\ y.ht[1 - t] = x.ht[1 - t]
      /\ y.rehashidx = x.rehashidx /\ y.iterators = x.iterators
  <2>1. IsPut(y, x, t, h)
    BY <1>1, <1>4, OneTable, Zenon
  <2> HIDE DEF h
  <2> QED
    BY <2>1 DEF IsPut
<1> HIDE DEF h
<1>6. KeysOf(y) = KeysOf(x) \ {k}
  BY <1>1, <1>3, <1>5 DEF KeysOf
<1>7. \A u \in {0, 1} : /\ y.ht[u].size = x.ht[u].size
                        /\ \A j \in 0..x.ht[u].size-1 :
                              y.ht[u].table[j] = x.ht[u].table[j] \ {k}
  <2> SUFFICES ASSUME NEW u \in {0, 1}
               PROVE  /\ y.ht[u].size = x.ht[u].size
                      /\ \A j \in 0..x.ht[u].size-1 :
                              y.ht[u].table[j] = x.ht[u].table[j] \ {k}
    OBVIOUS
  <2>1. CASE u = t
    <3>1. y.ht[u] = h
      BY <1>5, <2>1
    <3>2. y.ht[u].size = x.ht[u].size
      BY <1>3, <2>1, <3>1
    <3>3. ASSUME NEW j \in 0..x.ht[u].size-1
          PROVE  y.ht[u].table[j] = x.ht[u].table[j] \ {k}
      <4>1. CASE j = Index(k, x.ht[u].size)
        BY <1>3, <2>1, <3>1, <4>1
      <4>2. CASE j # Index(k, x.ht[u].size)
        <5>1. y.ht[u].table[j] = x.ht[u].table[j]
          BY <1>3, <2>1, <3>1, <4>2
        <5>2. k \notin x.ht[u].table[j]
          BY <1>1, <2>1, <4>2 DEF TableOK
        <5> QED
          BY <5>1, <5>2
      <4> QED
        BY <4>1, <4>2
    <3> QED
      BY <3>2, <3>3
  <2>2. CASE u = 1 - t
    <3>1. k \notin Entries(x.ht[u])
      BY <1>1, <2>2
    <3>2. \A j \in 0..x.ht[u].size-1 : k \notin x.ht[u].table[j]
      BY <3>1 DEF Entries
    <3> QED
      BY <1>5, <2>2, <3>2
  <2> QED
    BY <2>1, <2>2
<1>8. DictOK(y)
  <2>1. TableOK(y.ht[0]) /\ TableOK(y.ht[1]) /\ Entries(y.ht[0]) \cap Entries(y.ht[1]) = {}
    BY <1>1, <1>3, <1>5
  <2>2. CASE dictIsRehashing(x)
    <3>1. Rehashing(x) /\ x.ht[0].size \in Nat
      BY <2>2, DictFacts DEF DictOK
    <3>2. y.ht[0].size = x.ht[0].size /\ y.ht[1].size = x.ht[1].size
      BY <1>7
    <3>3. ASSUME NEW j \in 0..y.rehashidx-1 PROVE y.ht[0].table[j] = {}
      <4>1. j \in 0..x.ht[0].size-1 /\ x.ht[0].table[j] = {}
        BY <1>5, <3>1 DEF Rehashing
      <4>2. y.ht[0].table[j] = x.ht[0].table[j] \ {k}
        BY <1>7, <4>1
      <4> QED
        BY <4>1, <4>2
    <3>4. Rehashing(y) /\ dictIsRehashing(y)
      BY <1>5, <2>2, <3>1, <3>2, <3>3, Zenon DEF Rehashing, dictIsRehashing
    <3> QED
      BY <1>5, <2>1, <3>4, Zenon DEF DictOK
  <2>3. CASE ~dictIsRehashing(x)
    <3>1. x.ht[1] = EmptyTable
      BY <2>3 DEF DictOK
    <3>2. t = 0
      BY <3>1, EmptyTableOK
    <3> QED
      BY <1>5, <2>1, <2>3, <3>1, <3>2 DEF DictOK, dictIsRehashing
  <2> QED
    BY <2>2, <2>3
<1>9. \A u, i : Later(y, u, i) = Later(x, u, i) \ {k}
  <2>1. Less(y, x, k)
    BY <1>7, Zenon DEF Less
  <2> QED
    BY <2>1, LaterLess
<1> QED
  BY <1>5, <1>6, <1>8, <1>9
-----------------------------------------------------------------------------
(* The inductive invariant. *)

Iters == [open : BOOLEAN, table : {0, 1}, index : Int, todo : SUBSET Keys,
          entry : SUBSET Keys, kept : SUBSET Keys, returned : SUBSET Keys]

\* The iterator has paused the rehashing.
Started == iter.index # -1 \/ iter.table # 0

\* A key that was there all the time has been returned, is in what is left of the
\* chain, or in a bucket still to come; one that was returned is in neither.
WalkOK ==
    /\ iter.kept \subseteq KeysOf(d) /\ iter.returned \subseteq KeysOf(d)
    /\ iter.todo \subseteq KeysOf(d)
    /\ iter.todo \cap iter.returned = {} /\ iter.todo \cap iter.entry = {}
    /\ (iter.todo \cup iter.returned) \cap Later(d, iter.table, iter.index) = {}
    /\ iter.kept \subseteq iter.returned \cup iter.todo \cup Later(d, iter.table, iter.index)
    /\ ~Started => iter.todo = {} /\ iter.returned = {}

IInv ==
    /\ DictOK(d) /\ iter \in Iters
    /\ d.iterators = IF iter.open /\ Started THEN 1 ELSE 0
    /\ iter.open => WalkOK

\* An iterator that has not started has every key before it.
LEMMA AllLater ==
    ASSUME NEW x, DictOK(x)
    PROVE  Later(x, 0, -1) = KeysOf(x)
<1>1. TableOK(x.ht[0]) /\ TableOK(x.ht[1]) /\ x.ht[0].size \in Nat /\ x.ht[1].size \in Nat
  BY DictFacts DEF DictOK
<1>2. /\ Entries(x.ht[0]) \in SUBSET Keys /\ Entries(x.ht[1]) \in SUBSET Keys
      /\ \A k : k \in Entries(x.ht[0]) <=> \E j \in 0..x.ht[0].size-1 : k \in x.ht[0].table[j]
      /\ \A k : k \in Entries(x.ht[1]) <=> \E j \in 0..x.ht[1].size-1 : k \in x.ht[1].table[j]
  BY <1>1, EntryFacts, Zenon
<1>3. \A k \in KeysOf(x) : k \in Later(x, 0, -1)
  <2> SUFFICES ASSUME NEW k \in Keys, NEW u \in {0, 1}, NEW j \in 0..x.ht[u].size-1,
                      k \in x.ht[u].table[j]
               PROVE  k \in Later(x, 0, -1)
    BY <1>2 DEF KeysOf
  <2>1. u > 0 \/ (u = 0 /\ j > -1)
    BY <1>1
  <2> QED
    BY <2>1 DEF Later
<1>4. \A k \in Later(x, 0, -1) : k \in KeysOf(x)
  BY <1>2 DEF Later, KeysOf
<1> QED
  BY <1>3, <1>4

\* The buckets that are left hold the keys after the iterator.
LEMMA AheadKeys ==
    ASSUME DictOK(d), iter \in Iters
    PROVE  /\ \A b \in Ahead(d) : b[1] \in {0, 1} /\ b[2] \in Nat /\ b[2] < d.ht[b[1]].size
           /\ \A b \in Ahead(d) : b = <<b[1], b[2]>>
           /\ \A b \in Ahead(d) : b[1] > iter.table \/ (b[1] = iter.table /\ b[2] > iter.index)
           /\ \A k : k \in Later(d, iter.table, iter.index)
                        <=> \E b \in Ahead(d) : k \in d.ht[b[1]].table[b[2]]
<1>1. /\ d.ht[0].size \in Nat /\ d.ht[1].size \in Nat
      /\ d.ht[0].table \in [0..d.ht[0].size-1 -> SUBSET Keys]
      /\ d.ht[1].table \in [0..d.ht[1].size-1 -> SUBSET Keys]
  BY DictFacts DEF DictOK, TableOK
<1>2. \A b \in Ahead(d) :
        /\ b[1] \in {0, 1} /\ b[2] \in Nat /\ b[2] < d.ht[b[1]].size /\ b = <<b[1], b[2]>>
        /\ b[1] > iter.table \/ (b[1] = iter.table /\ b[2] > iter.index)
  BY <1>1 DEF Ahead, dictSlots
<1>3. ASSUME NEW k \in Later(d, iter.table, iter.index)
      PROVE  \E b \in Ahead(d) : k \in d.ht[b[1]].table[b[2]]
  <2>1. PICK u \in {0, 1} : \E j \in 0..d.ht[u].size-1 :
            (u > iter.table \/ (u = iter.table /\ j > iter.index)) /\ k \in d.ht[u].table[j]
    BY <1>3 DEF Later
  <2>2. PICK j \in 0..d.ht[u].size-1 :
            (u > iter.table \/ (u = iter.table /\ j > iter.index)) /\ k \in d.ht[u].table[j]
    BY <2>1
  <2>3. u = 1 => dictIsRehashing(d)
    <3>1. d.ht[1] = EmptyTable => d.ht[1].size = 0
      BY EmptyTableOK
    <3> QED
      BY <1>1, <2>2, <3>1 DEF DictOK
  <2>4. j \in 0..dictSlots(d) /\ j < d.ht[u].size
    <3>1. d.ht[0].size \in Nat /\ d.ht[1].size \in Nat
      BY <1>1, DictFacts
    <3>2. d.ht[u].size \in Nat /\ j \in Nat /\ j < d.ht[u].size
      BY <2>2, <3>1
    <3>3. d.ht[u].size <= d.ht[0].size + d.ht[1].size
      BY <3>1
    <3> QED
      BY <3>1, <3>2, <3>3 DEF dictSlots
  <2>5. <<u, j>> \in Ahead(d)
    BY <2>2, <2>3, <2>4 DEF Ahead
  <2> QED
    BY <2>2, <2>5
<1>4. ASSUME NEW b \in Ahead(d), NEW k \in d.ht[b[1]].table[b[2]]
      PROVE  k \in Later(d, iter.table, iter.index)
  <2>1. b[1] \in {0, 1} /\ b[2] \in 0..d.ht[b[1]].size-1
    BY <1>1, <1>2
  <2>2. k \in Keys
    BY <1>1, <2>1
  <2> QED
    BY <1>2, <2>1, <2>2 DEF Later
<1> QED
  BY <1>2, <1>3, <1>4

\* A set of buckets has a first one.
LEMMA FirstBucket ==
    ASSUME NEW S, S # {}, \A b \in S : b[1] \in {0, 1} /\ b[2] \in Nat /\ b = <<b[1], b[2]>>
    PROVE  \E b \in S : \A c \in S : c # b => Before(b, c)
<1>1. ASSUME NEW t \in {0, 1}, \A b \in S : b[1] >= t, \E b \in S : b[1] = t
      PROVE  \E b \in S : \A c \in S : c # b => Before(b, c)
  <2> DEFINE T == {n \in Nat : \E b \in S : b[1] = t /\ b[2] = n}
  <2>1. PICK n \in T : \A m \in T : n <= m
    <3>1. T \in SUBSET Nat /\ T # {}
      BY <1>1
    <3> HIDE DEF T
    <3> QED
      BY <3>1, LeastNumber
  <2>2. PICK b \in S : b[1] = t /\ b[2] = n
    BY <2>1
  <2>3. ASSUME NEW c \in S, c # b PROVE Before(b, c)
    <3>1. CASE c[1] # t
      BY <1>1, <2>2, <3>1 DEF Before
    <3>2. CASE c[1] = t
      <4>1. c[2] \in T
        BY <3>2
      <4>2. c[2] # n
        BY <2>2, <2>3, <3>2
      <4> QED
        BY <2>1, <2>2, <3>2, <4>1, <4>2 DEF Before
    <3> QED
      BY <3>1, <3>2
  <2> QED
    BY <2>2, <2>3
<1>2. CASE \E b \in S : b[1] = 0
  BY <1>1, <1>2
<1>3. CASE ~\E b \in S : b[1] = 0
  BY <1>1, <1>3
<1> QED
  BY <1>2, <1>3

\* A new dict.
LEMMA NoKeys ==
    ASSUME NEW x, x = [ht |-> Pair(EmptyTable, EmptyTable), rehashidx |-> -1, iterators |-> 0]
    PROVE  DictOK(x) /\ KeysOf(x) = {} /\ x.iterators = 0
<1>1. TableOK(EmptyTable) /\ Entries(EmptyTable) = {} /\ EmptyTable \in Hts
  BY EmptyTableOK DEF TableOK
<1>2. /\ x.ht[0] = EmptyTable /\ x.ht[1] = EmptyTable /\ x.rehashidx = -1 /\ x.iterators = 0
  BY DEF Pair
<1>3. x \in Dicts
  <2>1. Pair(EmptyTable, EmptyTable) \in [{0, 1} -> Hts]
    BY <1>1 DEF Pair
  <2> QED
    BY <2>1 DEF Dicts
<1> QED
  BY <1>1, <1>2, <1>3 DEF DictOK, KeysOf, dictIsRehashing

\* Initially the dict is empty and nobody walks it.
LEMMA InitIInv == Init => IInv
<1> SUFFICES ASSUME Init PROVE IInv
  OBVIOUS
<1>1. DictOK(d) /\ d.iterators = 0
  BY NoKeys DEF Init
<1>2. iter \in Iters /\ iter.open = FALSE
  BY DEF Init, Closed, Iters
<1> QED
  BY <1>1, <1>2 DEF IInv

\* A call that moves no entry under a started iterator, and adds at most keys that
\* were not there, leaves the walk as it was.
LEMMA WalkKept ==
    ASSUME IInv, DictOK(d'), iter' = iter, d'.iterators = d.iterators,
           KeysOf(d) \subseteq KeysOf(d'),
           iter.open /\ Started =>
              /\ Later(d, iter.table, iter.index) \subseteq Later(d', iter.table, iter.index)
              /\ Later(d', iter.table, iter.index) \cap KeysOf(d)
                    \subseteq Later(d, iter.table, iter.index)
    PROVE  IInv'
<1>1. Started' <=> Started
  BY DEF Started
<1>2. ASSUME iter.open PROVE WalkOK'
  <2>1. WalkOK
    BY <1>2 DEF IInv
  <2>2. CASE Started
    BY <1>1, <1>2, <2>1, <2>2 DEF WalkOK
  <2>3. CASE ~Started
    <3>1. iter.index = -1 /\ iter.table = 0
      BY <2>3 DEF Started
    <3>2. Later(d', iter.table, iter.index) = KeysOf(d')
      BY <3>1, AllLater
    <3> QED
      BY <1>1, <2>1, <2>3, <3>2 DEF WalkOK
  <2> QED
    BY <2>2, <2>3
<1> QED
  BY <1>1, <1>2 DEF IInv

\* The rehashing step of a lookup.
LEMMA LookupStep ==
    ASSUME IInv, NEW x, x = d \/ x = _dictRehashStep(d)
    PROVE  Same(x, d) /\ (iter.open /\ Started => x = d)
<1>1. DictOK(d) /\ (iter.open /\ Started => d.iterators = 1)
  BY DEF IInv
<1>2. Same(d, d)
  BY <1>1 DEF Same
<1>3. Same(_dictRehashStep(d), d) /\ (d.iterators # 0 => _dictRehashStep(d) = d)
  BY <1>1, RehashStepOK
<1> QED
  BY <1>1, <1>2, <1>3

\* dictAdd() keeps it, and adds the key.
LEMMA AddStep ==
    ASSUME IInv, NEW k \in Keys, dictAdd(k)
    PROVE  /\ IInv' /\ KeysOf(d') = KeysOf(d) \cup {k}
           /\ reply' = <<"add", k, k \notin KeysOf(d)>>
<1> DEFINE w == _dictRehashStep(d)
           x == _dictExpandIfNeeded(w)
           t == AddTo(x)
           exists == \E u \in Tables(x) : k \in Bucket(x, u, k)
<1>1. /\ d' = IF exists THEN x ELSE [x EXCEPT !.ht[t] = With(x.ht[t], k)]
      /\ reply' = <<"add", k, ~exists>> /\ iter' = iter
  BY DEF dictAdd
<1>2. Same(w, d) /\ (iter.open /\ Started => w = d)
  BY LookupStep
<1>3. DictOK(w) /\ KeysOf(w) = KeysOf(d) /\ w.iterators = d.iterators
  BY <1>2 DEF Same
<1> HIDE DEF w
<1>4. Same(x, w) /\ Still(x, w) /\ x.ht[0].size > 0
  BY <1>3, ExpandIfNeededOK
<1> HIDE DEF x
<1>5. DictOK(x) /\ KeysOf(x) = KeysOf(d) /\ x.iterators = d.iterators
  BY <1>3, <1>4 DEF Same
<1>6. iter.open /\ Started => \A u, i : Later(x, u, i) = Later(d, u, i)
  BY <1>2, <1>4 DEF Still
<1>7. exists <=> k \in KeysOf(d)
  BY <1>4, <1>5, LookupOK
<1> HIDE DEF exists, t
<1>8. CASE k \in KeysOf(d)
  <2>1. exists /\ d' = x
    BY <1>1, <1>7, <1>8
  <2>2. IInv'
    BY <1>1, <1>5, <1>6, <2>1, WalkKept
  <2>3. reply' = <<"add", k, FALSE>>
    BY <1>1, <2>1
  <2> QED
    BY <1>5, <1>8, <2>1, <2>2, <2>3
<1>9. CASE k \notin KeysOf(d)
  <2>1. ~exists /\ d' = Put(x, t, With(x.ht[t], k))
    BY <1>1, <1>7, <1>9 DEF Put
  <2>2. /\ DictOK(d') /\ KeysOf(d') = KeysOf(x) \cup {k} /\ d'.iterators = x.iterators
        /\ \A u, i : /\ Later(x, u, i) \subseteq Later(d', u, i)
                     /\ Later(d', u, i) \subseteq Later(x, u, i) \cup {k}
    BY <1>4, <1>5, <1>9, <2>1, AddOK DEF t
  <2>3. IInv'
    BY <1>1, <1>5, <1>6, <1>9, <2>2, WalkKept
  <2>4. reply' = <<"add", k, TRUE>>
    BY <1>1, <2>1
  <2> QED
    BY <1>5, <1>9, <2>2, <2>3, <2>4
<1> QED
  BY <1>8, <1>9

\* So does a lookup, which changes no key.
LEMMA FindStep ==
    ASSUME IInv, NEW k \in Keys, dictFind(k)
    PROVE  IInv' /\ KeysOf(d') = KeysOf(d) /\ reply' = <<"find", k, k \in KeysOf(d)>>
<1>1. /\ d' = d \/ d' = _dictRehashStep(d)
      /\ reply' = <<"find", k, Found(d', k)>> /\ iter' = iter
  BY DEF dictFind
<1>2. Same(d', d) /\ (iter.open /\ Started => d' = d)
  BY <1>1, LookupStep
<1>3. DictOK(d') /\ KeysOf(d') = KeysOf(d) /\ d'.iterators = d.iterators
  BY <1>2 DEF Same
<1>4. IInv'
  BY <1>1, <1>2, <1>3, WalkKept
<1>5. Found(d', k) <=> k \in KeysOf(d)
  BY <1>3, LookupOK
<1> QED
  BY <1>1, <1>3, <1>4, <1>5 DEF Found

\* And dictGetRandomKey().
LEMMA RandomStep ==
    ASSUME IInv, dictGetRandomKey
    PROVE  IInv' /\ KeysOf(d') = KeysOf(d) /\ reply' = <<"random", KeysOf(d) # {}>>
<1>1. /\ d' = d \/ d' = _dictRehashStep(d)
      /\ reply' = <<"random", dictSize(d') # 0>> /\ iter' = iter
  BY DEF dictGetRandomKey
<1>2. Same(d', d) /\ (iter.open /\ Started => d' = d)
  BY <1>1, LookupStep
<1>3. DictOK(d') /\ KeysOf(d') = KeysOf(d) /\ d'.iterators = d.iterators
  BY <1>2 DEF Same
<1>4. IInv'
  BY <1>1, <1>2, <1>3, WalkKept
<1>5. dictSize(d') = 0 <=> KeysOf(d) = {}
  BY <1>3, DictFacts
<1> QED
  BY <1>1, <1>3, <1>4, <1>5

\* dictGenericDelete() takes the key out; a started iterator has it behind itself.
LEMMA DeleteStep ==
    ASSUME IInv, NEW k \in Keys, iter.open => k \in iter.entry, dictGenericDelete(k)
    PROVE  /\ IInv' /\ KeysOf(d') = KeysOf(d) \ {k}
           /\ reply' = <<"delete", k, k \in KeysOf(d)>>
<1> DEFINE x == IF dictSize(d) = 0 THEN d ELSE _dictRehashStep(d)
           t == CHOOSE u \in Tables(x) :
                    /\ k \in Bucket(x, u, k)
                    /\ \A v \in Tables(x) : v < u => k \notin Bucket(x, v, k)
<1>1. /\ d' = IF ~Found(x, k) THEN x ELSE [x EXCEPT !.ht[t] = Without(x.ht[t], k)]
      /\ reply' = <<"delete", k, Found(x, k)>>
      /\ iter' = [iter EXCEPT !.kept = iter.kept \ {k}, !.returned = iter.returned \ {k}]
  BY DEF dictGenericDelete
<1>2. Same(x, d) /\ (iter.open /\ Started => x = d)
  <2>1. x = d \/ x = _dictRehashStep(d)
    OBVIOUS
  <2> HIDE DEF x
  <2> QED
    BY <2>1, LookupStep
<1> HIDE DEF x
<1>3. DictOK(x) /\ KeysOf(x) = KeysOf(d) /\ x.iterators = d.iterators
  BY <1>2 DEF Same
<1>4. Found(x, k) <=> k \in KeysOf(d)
  BY <1>3, LookupOK
<1>5. /\ DictOK(d') /\ KeysOf(d') = KeysOf(d) \ {k} /\ d'.iterators = d.iterators
      /\ \A u, i : Later(d', u, i) = Later(x, u, i) \ {k}
  <2>1. CASE k \notin KeysOf(d)
    <3>1. d' = x
      BY <1>1, <1>4, <2>1
    <3>2. \A u, i : k \notin Later(x, u, i)
      <4>1. /\ \A q : q \in Entries(x.ht[0]) <=> \E j \in 0..x.ht[0].size-1 : q \in x.ht[0].table[j]
            /\ \A q : q \in Entries(x.ht[1]) <=> \E j \in 0..x.ht[1].size-1 : q \in x.ht[1].table[j]
        BY <1>3, EntryFacts, Zenon DEF DictOK
      <4> QED
        BY <1>3, <2>1, <4>1 DEF Later, KeysOf
    <3> QED
      BY <1>3, <2>1, <3>1, <3>2
  <2>2. CASE k \in KeysOf(d)
    <3>1. \E u \in Tables(x) : k \in Bucket(x, u, k)
      BY <1>4, <2>2 DEF Found
    <3>2. \E u \in Tables(x) : /\ k \in Bucket(x, u, k)
                               /\ \A v \in Tables(x) : v < u => k \notin Bucket(x, v, k)
      BY <3>1 DEF Tables
    <3>3. t \in Tables(x) /\ k \in Bucket(x, t, k)
      BY <3>2
    <3> HIDE DEF t
    <3>4. t \in {0, 1} /\ k \in Entries(x.ht[t])
      <4>1. t \in {0, 1} /\ TableOK(x.ht[t]) /\ x.ht[t].size \in Nat
        BY <1>3, <3>3, DictFacts DEF Tables, DictOK
      <4>2. x.ht[t].size > 0
        <5>1. CASE dictIsRehashing(x)
          BY <1>3, <3>3, <5>1 DEF Tables, DictOK, Rehashing
        <5>2. CASE ~dictIsRehashing(x)
          <6>1. t = 0 /\ Entries(x.ht[1]) = {}
            BY <1>3, <3>3, <5>2, EmptyTableOK DEF Tables, DictOK
          <6>2. k \in Entries(x.ht[0])
            BY <1>3, <2>2, <6>1 DEF KeysOf
          <6> QED
            BY <4>1, <6>1, <6>2, EntryFacts
        <5> QED
          BY <5>1, <5>2
      <4> QED
        BY <3>3, <4>1, <4>2, EntryFacts DEF Bucket
    <3>5. d' = Put(x, t, Without(x.ht[t], k))
      BY <1>1, <1>4, <2>2 DEF Put
    <3> QED
      BY <1>3, <3>4, <3>5, DeleteOK
  <2> QED
    BY <2>1, <2>2
<1>6. /\ iter' \in Iters /\ iter'.open = iter.open /\ iter'.table = iter.table
      /\ iter'.index = iter.index /\ iter'.todo = iter.todo /\ iter'.entry = iter.entry
      /\ iter'.kept = iter.kept \ {k} /\ iter'.returned = iter.returned \ {k}
  BY <1>1 DEF IInv, Iters
<1>7. Started' <=> Started
  BY <1>6 DEF Started
<1>8. ASSUME iter.open PROVE WalkOK'
  <2>1. WalkOK /\ k \notin iter.todo
    BY <1>8 DEF IInv, WalkOK
  <2>2. CASE Started
    <3>1. Later(d', iter.table, iter.index) = Later(d, iter.table, iter.index) \ {k}
      BY <1>2, <1>5, <1>8, <2>2
    <3> QED
      BY <1>5, <1>6, <1>7, <2>1, <2>2, <3>1 DEF WalkOK
  <2>3. CASE ~Started
    <3>1. iter.index = -1 /\ iter.table = 0
      BY <2>3 DEF Started
    <3>2. Later(d', iter.table, iter.index) = KeysOf(d')
      BY <1>5, <3>1, AllLater
    <3> QED
      BY <1>5, <1>6, <1>7, <2>1, <2>3, <3>2 DEF WalkOK
  <2> QED
    BY <2>2, <2>3
<1>9. IInv'
  BY <1>5, <1>6, <1>7, <1>8 DEF IInv
<1>10. reply' = <<"delete", k, k \in KeysOf(d)>>
  BY <1>1, <1>4 DEF Found
<1> QED
  BY <1>5, <1>9, <1>10

\* A key is in one bucket only.
LEMMA OneBucket ==
    ASSUME NEW x, DictOK(x), NEW t \in {0, 1}, NEW i \in 0..x.ht[t].size-1,
           NEW k \in x.ht[t].table[i]
    PROVE  k \in KeysOf(x) /\ k \in Keys /\ k \notin Later(x, t, i)
<1>1. \A u \in {0, 1} : TableOK(x.ht[u])
  BY DEF DictOK
<1>2. \A u \in {0, 1} : \A j \in 0..x.ht[u].size-1 :
        \A q \in x.ht[u].table[j] : q \in Keys /\ q \in Entries(x.ht[u])
                                     /\ Index(q, x.ht[u].size) = j
  BY <1>1 DEF TableOK, Entries
<1>3. \A u \in {0, 1} : k \in Entries(x.ht[u]) => u = t
  BY <1>2 DEF DictOK
<1> QED
  BY <1>2, <1>3 DEF Later, KeysOf

\* dictNext() goes on with the first bucket ahead that is not empty.
LEMMA NextStep ==
    ASSUME IInv, dictNext
    PROVE  /\ IInv' /\ d'.ht = d.ht /\ UNCHANGED reply
           /\ iter'.entry \cap iter.returned = {}
<1> DEFINE opening == iter.index = -1 /\ iter.table = 0
           full == {b \in Ahead(d) : d.ht[b[1]].table[b[2]] # {}}
           next == CHOOSE b \in full : \A c \in full : c # b => Before(b, c)
           C == d.ht[next[1]].table[next[2]]
<1>1. iter.open /\ DictOK(d) /\ iter \in Iters /\ WalkOK /\ UNCHANGED reply
  BY DEF dictNext, IInv
<1>2. d.iterators = IF Started THEN 1 ELSE 0
  BY <1>1 DEF IInv
<1>3. d' = IF ~Started THEN [d EXCEPT !.iterators = d.iterators + 1] ELSE d
  BY DEF dictNext, Started
<1>4. /\ d' \in Dicts /\ d'.ht = d.ht /\ d'.rehashidx = d.rehashidx /\ d'.iterators = 1
  BY <1>1, <1>2, <1>3 DEF DictOK, Dicts
<1>5. DictOK(d') /\ KeysOf(d') = KeysOf(d) /\ \A t, i : Later(d', t, i) = Later(d, t, i)
  BY <1>1, <1>4 DEF DictOK, KeysOf, Later, dictIsRehashing, Rehashing
<1>6. CASE \E k \in iter.todo : iter' = [iter EXCEPT !.entry = {k}, !.todo = Rest(iter.todo, k),
                                                     !.returned = iter.returned \cup {k}]
  <2>1. PICK k \in iter.todo : iter' = [iter EXCEPT !.entry = {k}, !.todo = iter.todo \ {k},
                                                    !.returned = iter.returned \cup {k}]
    BY <1>6 DEF Rest
  <2>2. k \in Keys
    BY <1>1 DEF Iters
  <2>3. /\ iter' \in Iters /\ iter'.open = iter.open /\ iter'.table = iter.table
        /\ iter'.index = iter.index /\ iter'.todo = iter.todo \ {k} /\ iter'.entry = {k}
        /\ iter'.kept = iter.kept /\ iter'.returned = iter.returned \cup {k}
    BY <1>1, <2>1, <2>2 DEF Iters
  <2>4. Started /\ Started'
    BY <1>1, <2>3 DEF WalkOK, Started
  <2>5. WalkOK'
    BY <1>1, <1>5, <2>3, <2>4 DEF WalkOK
  <2>6. k \notin iter.returned
    BY <1>1 DEF WalkOK
  <2> QED
    BY <1>1, <1>4, <1>5, <2>3, <2>4, <2>5, <2>6 DEF IInv
<1>7. CASE /\ iter.todo = {} /\ full # {}
           /\ \E k \in C : iter' = [iter EXCEPT !.table = next[1], !.index = next[2],
                                                !.todo = Rest(C, k), !.entry = {k},
                                                !.returned = iter.returned \cup {k}]
  <2>1. /\ \A b \in Ahead(d) : b[1] \in {0, 1} /\ b[2] \in Nat /\ b[2] < d.ht[b[1]].size
        /\ \A b \in Ahead(d) : b = <<b[1], b[2]>>
        /\ \A b \in Ahead(d) : b[1] > iter.table \/ (b[1] = iter.table /\ b[2] > iter.index)
        /\ \A k : k \in Later(d, iter.table, iter.index)
                        <=> \E b \in Ahead(d) : k \in d.ht[b[1]].table[b[2]]
    BY <1>1, AheadKeys
  <2>2. next \in full /\ \A c \in full : c # next => Before(next, c)
    <3>1. \A b \in full : b[1] \in {0, 1} /\ b[2] \in Nat /\ b = <<b[1], b[2]>>
      BY <2>1
    <3> HIDE DEF full
    <3>2. \E b \in full : \A c \in full : c # b => Before(b, c)
      BY <1>7, <3>1, FirstBucket, Zenon
    <3> QED
      BY <3>2
  <2>3. next \in Ahead(d) /\ \A c \in Ahead(d) :
            d.ht[c[1]].table[c[2]] # {} /\ c # next => Before(next, c)
    BY <2>2
  <2>4. PICK k \in C : iter' = [iter EXCEPT !.table = next[1], !.index = next[2],
                                            !.todo = C \ {k}, !.entry = {k},
                                            !.returned = iter.returned \cup {k}]
    BY <1>7 DEF Rest
  <2> HIDE DEF next, full
  <2> DEFINE t == next[1]
             i == next[2]
             L == Later(d, iter.table, iter.index)
             M == Later(d, t, i)
  <2>5. /\ t \in {0, 1} /\ i \in Nat /\ i \in 0..d.ht[t].size-1
        /\ t > iter.table \/ (t = iter.table /\ i > iter.index)
    <3>1. d.ht[0].size \in Nat /\ d.ht[1].size \in Nat
      BY <1>1, DictFacts
    <3> QED
      BY <2>1, <2>3, <3>1
  <2>6. /\ C \subseteq KeysOf(d) /\ C \subseteq Keys /\ C \cap M = {}
    BY <1>1, <2>5, OneBucket
  <2>7. C \subseteq L
    BY <2>1, <2>3
  <2>8. M \subseteq L
    <3>1. iter.table \in {0, 1} /\ iter.index \in Int
      BY <1>1 DEF Iters
    <3>2. ASSUME NEW u \in {0, 1}, NEW j \in 0..d.ht[u].size-1, u > t \/ (u = t /\ j > i)
          PROVE  u > iter.table \/ (u = iter.table /\ j > iter.index)
      <4>1. j \in Int
        BY <1>1, <3>2, DictFacts
      <4> QED
        BY <2>5, <3>1, <3>2, <4>1
    <3> QED
      BY <3>2 DEF Later
  <2>9. L \subseteq C \cup M
    <3> SUFFICES ASSUME NEW q \in L, q \notin C PROVE q \in M
      OBVIOUS
    <3>1. PICK b \in Ahead(d) : q \in d.ht[b[1]].table[b[2]]
      BY <2>1
    <3>2. b # next
      BY <3>1
    <3>3. Before(next, b)
      BY <2>3, <3>1, <3>2
    <3>4. b[1] \in {0, 1} /\ b[2] \in 0..d.ht[b[1]].size-1
      <4>1. d.ht[0].size \in Nat /\ d.ht[1].size \in Nat
        BY <1>1, DictFacts
      <4> QED
        BY <2>1, <4>1
    <3>5. q \in Keys
      BY <1>1, <3>1, <3>4, OneBucket
    <3>6. b[1] > t \/ (b[1] = t /\ b[2] > i)
      BY <2>5, <3>3, <3>4 DEF Before
    <3> QED
      BY <3>1, <3>4, <3>5, <3>6 DEF Later
  <2>10. /\ iter' \in Iters /\ iter'.open = iter.open /\ iter'.table = t
         /\ iter'.index = i /\ iter'.todo = C \ {k} /\ iter'.entry = {k}
         /\ iter'.kept = iter.kept /\ iter'.returned = iter.returned \cup {k}
    <3>1. C \ {k} \in SUBSET Keys /\ {k} \in SUBSET Keys /\ i \in Int
      BY <2>4, <2>5, <2>6
    <3> HIDE DEF C
    <3> QED
      BY <1>1, <2>4, <2>5, <3>1 DEF Iters
  <2>11. Started'
    BY <2>5, <2>10 DEF Started
  <2>12. Later(d', iter'.table, iter'.index) = M
    BY <1>5, <2>10
  <2>13. WalkOK
    BY <1>1
  <2>14. k \in C
    BY <2>4
  <2> HIDE DEF C, M, L
  <2>15. /\ iter.kept \subseteq KeysOf(d) /\ iter.returned \subseteq KeysOf(d)
         /\ iter.returned \cap L = {} /\ iter.kept \subseteq iter.returned \cup L
    BY <1>7, <2>13 DEF WalkOK, L
  <2>16. WalkOK'
    <3>1. /\ iter'.kept \subseteq KeysOf(d') /\ iter'.returned \subseteq KeysOf(d')
          /\ iter'.todo \subseteq KeysOf(d')
      BY <1>5, <2>6, <2>10, <2>14, <2>15
    <3>2. iter'.todo \cap iter'.returned = {} /\ iter'.todo \cap iter'.entry = {}
      BY <2>7, <2>10, <2>15
    <3>3. (iter'.todo \cup iter'.returned) \cap M = {}
      BY <2>6, <2>8, <2>10, <2>14, <2>15
    <3>4. iter'.kept \subseteq iter'.returned \cup iter'.todo \cup M
      BY <2>9, <2>10, <2>15
    <3> QED
      BY <2>11, <2>12, <3>1, <3>2, <3>3, <3>4 DEF WalkOK
  <2>17. k \notin iter.returned
    BY <2>7, <2>14, <2>15
  <2> QED
    BY <1>1, <1>4, <1>5, <2>10, <2>11, <2>16, <2>17 DEF IInv
<1> QED
  BY <1>6, <1>7 DEF dictNext

\* The resizing and rehashing of databasesCron() change no key.
LEMMA CronStep ==
    ASSUME IInv, ~iter.open, databasesCron
    PROVE  IInv' /\ KeysOf(d') = KeysOf(d) /\ UNCHANGED reply
<1> DEFINE x == IF htNeedsResize(d) THEN dictResize(d) ELSE d
<1>1. /\ iter' = iter /\ UNCHANGED reply
      /\ \/ d' = x
         \/ dictIsRehashing(x) /\ \E b \in x.rehashidx..x.ht[0].size : d' = MoveBuckets(x, b)
  BY DEF databasesCron
<1>2. DictOK(d) /\ Same(d, d)
  BY DEF IInv, Same
<1>3. Same(dictResize(d), d)
  <2>1. d.ht[0].used \in Nat /\ InitialSize \in Nat
    BY <1>2, DictFacts, DictAssumption
  <2>2. PICK n \in Nat : dictResize(d) = d \/ dictResize(d) = dictExpand(d, n)
    BY <2>1 DEF dictResize
  <2>3. Same(dictExpand(d, n), d)
    BY <1>2, ExpandOK
  <2> QED
    BY <1>2, <2>2, <2>3
<1>4. Same(x, d)
  BY <1>2, <1>3
<1> HIDE DEF x
<1>5. DictOK(x) /\ KeysOf(x) = KeysOf(d) /\ x.iterators = d.iterators
  BY <1>4 DEF Same
<1>6. Same(d', x)
  <2>1. CASE d' = x
    BY <1>5, <2>1 DEF Same
  <2>2. ASSUME dictIsRehashing(x), NEW b \in x.rehashidx..x.ht[0].size, d' = MoveBuckets(x, b)
        PROVE  Same(d', x)
    BY <1>5, <2>2, MoveBucketsOK
  <2> QED
    BY <1>1, <2>1, <2>2
<1>7. DictOK(d') /\ KeysOf(d') = KeysOf(d) /\ d'.iterators = d.iterators
  BY <1>5, <1>6 DEF Same
<1> QED
  BY <1>1, <1>7, WalkKept

\* Opening and releasing an iterator.
LEMMA IteratorStep ==
    ASSUME IInv, (~iter.open /\ dictGetSafeIterator) \/ dictReleaseIterator
    PROVE  IInv' /\ KeysOf(d') = KeysOf(d) /\ UNCHANGED reply /\ iter'.open # iter.open
<1>1. DictOK(d) /\ iter \in Iters
  BY DEF IInv
<1>2. /\ Closed \in Iters /\ Closed.open = FALSE /\ Closed.index = -1 /\ Closed.table = 0
      /\ Closed.todo = {} /\ Closed.entry = {} /\ Closed.returned = {}
  BY DEF Closed, Iters
<1>3. CASE ~iter.open /\ dictGetSafeIterator
  <2>1. /\ iter' = [Closed EXCEPT !.open = TRUE, !.kept = KeysOf(d)]
        /\ d' = d /\ UNCHANGED reply
    BY <1>3 DEF dictGetSafeIterator, AllKeys, KeysOf
  <2>2. KeysOf(d) \in SUBSET Keys
    BY <1>1, DictFacts DEF KeysOf
  <2>3. /\ iter' \in Iters /\ iter'.open = TRUE /\ iter'.index = -1 /\ iter'.table = 0
        /\ iter'.todo = {} /\ iter'.entry = {} /\ iter'.returned = {} /\ iter'.kept = KeysOf(d)
    BY <1>2, <2>1, <2>2 DEF Iters
  <2>4. ~Started' /\ d.iterators = 0
    BY <1>3, <2>3 DEF Started, IInv
  <2>5. Later(d', iter'.table, iter'.index) = KeysOf(d)
    BY <1>1, <2>1, <2>3, AllLater
  <2>6. WalkOK'
    BY <2>1, <2>3, <2>4, <2>5 DEF WalkOK
  <2>7. IInv'
    BY <1>1, <2>1, <2>3, <2>4, <2>6 DEF IInv
  <2> QED
    BY <1>1, <1>3, <2>1, <2>3, <2>7 DEF Iters
<1>4. CASE dictReleaseIterator
  <2>1. /\ iter.open /\ iter' = Closed /\ UNCHANGED reply
        /\ d' = IF ~Started THEN d ELSE [d EXCEPT !.iterators = d.iterators - 1]
    BY <1>4 DEF dictReleaseIterator, Started
  <2>2. d.iterators = IF Started THEN 1 ELSE 0
    BY <2>1 DEF IInv
  <2>3. d' \in Dicts /\ d'.ht = d.ht /\ d'.rehashidx = d.rehashidx /\ d'.iterators = 0
    BY <1>1, <2>1, <2>2 DEF DictOK, Dicts
  <2>4. DictOK(d') /\ KeysOf(d') = KeysOf(d)
    BY <1>1, <2>3 DEF DictOK, KeysOf, dictIsRehashing, Rehashing
  <2> QED
    BY <1>2, <2>1, <2>3, <2>4 DEF IInv
<1> QED
  BY <1>3, <1>4

\* Every step keeps the invariant, is a step of the set of keys, and returns no key
\* that a safe iterator has already returned.
Returns == iter.open /\ iter'.open /\ iter'.entry # iter.entry
             => iter'.entry \cap (iter.returned \cap iter.kept) = {}
Simulates == Abstract!Next \/ UNCHANGED <<AllKeys, reply>>

\* What each of the calls does.
LEMMA NextIInv ==
    ASSUME IInv, [Next]_vars
    PROVE  IInv' /\ Simulates /\ Returns
<1>0. AllKeys = KeysOf(d) /\ AllKeys' = KeysOf(d')
  BY DEF AllKeys, KeysOf
<1>1. CASE UNCHANGED vars
  <2>1. d' = d /\ iter' = iter /\ reply' = reply
    BY <1>1 DEF vars
  <2> QED
    BY <1>0, <2>1 DEF IInv, WalkOK, Started, Simulates, Returns
<1>2. ASSUME NEW k \in Keys, dictAdd(k) PROVE IInv' /\ Simulates /\ Returns
  <2>1. /\ IInv' /\ KeysOf(d') = KeysOf(d) \cup {k} /\ iter' = iter
        /\ reply' = <<"add", k, k \notin KeysOf(d)>>
    BY <1>2, AddStep DEF dictAdd
  <2>2. Abstract!Add(k)
    BY <1>0, <2>1, Zenon DEF Abstract!Add
  <2> QED
    BY <2>1, <2>2 DEF Simulates, Abstract!Next, Returns
<1>3. ASSUME NEW k \in Keys, dictFind(k) PROVE IInv' /\ Simulates /\ Returns
  <2>1. /\ IInv' /\ KeysOf(d') = KeysOf(d) /\ iter' = iter
        /\ reply' = <<"find", k, k \in KeysOf(d)>>
    BY <1>3, FindStep DEF dictFind
  <2>2. Abstract!Find(k)
    BY <1>0, <2>1, Zenon DEF Abstract!Find
  <2> QED
    BY <2>1, <2>2 DEF Simulates, Abstract!Next, Returns
<1>4. ASSUME NEW k \in (IF iter.open THEN iter.entry ELSE Keys), dictGenericDelete(k)
      PROVE  IInv' /\ Simulates /\ Returns
  <2>1. k \in Keys /\ (iter.open => k \in iter.entry) /\ iter \in Iters
    BY DEF IInv, Iters
  <2>2. /\ IInv' /\ KeysOf(d') = KeysOf(d) \ {k}
        /\ reply' = <<"delete", k, k \in KeysOf(d)>>
    BY <1>4, <2>1, DeleteStep
  <2>3. iter'.entry = iter.entry
    BY <1>4, <2>1 DEF dictGenericDelete, Iters
  <2>4. Abstract!Delete(k)
    BY <1>0, <2>2, Zenon DEF Abstract!Delete
  <2> QED
    BY <2>1, <2>2, <2>3, <2>4 DEF Simulates, Abstract!Next, Returns
<1>5. CASE dictNext
  <2>1. /\ IInv' /\ d'.ht = d.ht /\ UNCHANGED reply /\ iter'.entry \cap iter.returned = {}
    BY <1>5, NextStep
  <2>2. KeysOf(d') = KeysOf(d)
    BY <2>1 DEF KeysOf
  <2> QED
    BY <1>0, <2>1, <2>2 DEF Simulates, Returns
<1>6. CASE (~iter.open /\ dictGetSafeIterator) \/ dictReleaseIterator
  <2>1. IInv' /\ KeysOf(d') = KeysOf(d) /\ UNCHANGED reply
    BY <1>6, IteratorStep
  <2>2. ~(iter.open /\ iter'.open)
    <3>1. dictReleaseIterator => iter'.open = FALSE
      BY DEF dictReleaseIterator, Closed
    <3> QED
      BY <1>6, <3>1
  <2> QED
    BY <1>0, <2>1, <2>2 DEF Simulates, Returns
<1>7. CASE Scan \/ updateDictResizePolicy
  <2>1. d' = d /\ iter' = iter /\ reply' = reply
    BY <1>7 DEF Scan, updateDictResizePolicy
  <2> QED
    BY <1>0, <2>1 DEF IInv, WalkOK, Started, Simulates, Returns
<1>8. CASE ~iter.open /\ dictEmpty
  <2>1. /\ d' = [ht |-> Pair(EmptyTable, EmptyTable), rehashidx |-> -1, iterators |-> 0]
        /\ iter' = iter /\ reply' = reply
    BY <1>8 DEF dictEmpty
  <2>2. DictOK(d') /\ KeysOf(d') = {} /\ d'.iterators = 0
    BY <2>1, NoKeys
  <2>3. IInv'
    BY <1>8, <2>1, <2>2 DEF IInv
  <2>4. Abstract!Empty
    BY <1>0, <2>1, <2>2 DEF Abstract!Empty
  <2> QED
    BY <2>1, <2>3, <2>4 DEF Simulates, Abstract!Next, Returns
<1>9. CASE ~iter.open /\ databasesCron
  <2>1. IInv' /\ KeysOf(d') = KeysOf(d) /\ UNCHANGED reply
    BY <1>9, CronStep
  <2> QED
    BY <1>0, <1>9, <2>1 DEF Simulates, Returns
<1>10. CASE dictGetRandomKey
  <2>1. /\ IInv' /\ KeysOf(d') = KeysOf(d) /\ iter' = iter
        /\ reply' = <<"random", KeysOf(d) # {}>>
    BY <1>10, RandomStep DEF dictGetRandomKey
  <2>2. Abstract!Random
    BY <1>0, <2>1, Zenon DEF Abstract!Random
  <2> QED
    BY <2>1, <2>2 DEF Simulates, Abstract!Next, Returns
<1> QED
  BY <1>1, <1>2, <1>3, <1>4, <1>5, <1>6, <1>7, <1>8, <1>9, <1>10 DEF Next
-----------------------------------------------------------------------------
\* The inductive invariant holds in every reachable state.
THEOREM Invariance == Spec => []IInv
<1>1. IInv /\ [Next]_vars => IInv'
  BY NextIInv
<1> QED
  BY <1>1, InitIInv, PTL DEF Spec

\* Every key is in one bucket of one table, the one its hash selects, what has been
\* moved is empty, used counts the entries, and rehashing is paused exactly while a
\* safe iterator walks.
THEOREM TypeCorrect == Spec => []TypeOK
<1>1. IInv => TypeOK
  <2> SUFFICES ASSUME IInv PROVE TypeOK
    OBVIOUS
  <2>1. DictOK(d) /\ d.iterators = IF iter.open /\ Started THEN 1 ELSE 0
    BY DEF IInv
  <2>2. \A t \in {0, 1} : TableOK(d.ht[t])
    BY <2>1 DEF DictOK
  <2>3. IF dictIsRehashing(d) THEN Rehashing(d) ELSE d.ht[1] = EmptyTable
    BY <2>1 DEF DictOK
  <2>4. d.iterators = IF iter.open /\ (iter.index # -1 \/ iter.table # 0) THEN 1 ELSE 0
    BY <2>1 DEF Started
  <2> QED
    BY <2>1, <2>2, <2>3, <2>4 DEF TypeOK, TableOK, Rehashing, DictOK
<1> QED
  BY <1>1, Invariance, PTL

\* dictGetRandomKey() can come upon every key and upon nothing else.
THEOREM EveryKeyDrawn == Spec => []EveryKeyCanBeDrawn
<1>1. IInv => EveryKeyCanBeDrawn
  <2> SUFFICES ASSUME IInv PROVE RandomKeys(d) = AllKeys
    BY DEF EveryKeyCanBeDrawn
  <2>1. DictOK(d) /\ d.ht[0].size \in Nat /\ d.ht[1].size \in Nat
    BY DictFacts DEF IInv
  <2>2. CASE dictIsRehashing(d)
    <3>1. /\ d.rehashidx \in 0..d.ht[0].size
          /\ \A i \in 0..d.rehashidx-1 : d.ht[0].table[i] = {}
      BY <2>1, <2>2 DEF DictOK, Rehashing
    <3>2. \A i \in 0..d.ht[0].size-1 : i \in d.rehashidx..d.ht[0].size-1 \/ i \in 0..d.rehashidx-1
      BY <2>1, <3>1
    <3>3. \A i \in d.rehashidx..d.ht[0].size-1 : i \in 0..d.ht[0].size-1
      BY <2>1, <3>1
    <3> DEFINE Old == UNION {d.ht[0].table[i] : i \in d.rehashidx..d.ht[0].size-1}
    <3> DEFINE New == UNION {d.ht[1].table[i] : i \in 0..d.ht[1].size-1}
    <3>4. Old = Entries(d.ht[0])
      BY <3>1, <3>2, <3>3 DEF Entries
    <3>5. New = Entries(d.ht[1])
      BY DEF Entries
    <3>6. RandomKeys(d) = Old \cup New
      BY <2>2, Zenon DEF RandomKeys
    <3> HIDE DEF Old, New
    <3>7. RandomKeys(d) = Entries(d.ht[0]) \cup Entries(d.ht[1])
      BY <3>4, <3>5, <3>6
    <3> QED
      BY <3>7 DEF AllKeys
  <2>3. CASE ~dictIsRehashing(d)
    <3>1. Entries(d.ht[1]) = {}
      BY <2>1, <2>3, EmptyTableOK DEF DictOK
    <3> QED
      BY <2>3, <3>1 DEF RandomKeys, AllKeys, Entries
  <2> QED
    BY <2>2, <2>3
<1> QED
  BY <1>1, Invariance, PTL

\* A safe iterator that is through has returned every key that was there all the
\* time, although the dict may have begun to grow under it.
THEOREM WalkIsComplete == Spec => []IteratorComplete
<1>1. IInv => IteratorComplete
  <2> SUFFICES ASSUME IInv, iter.open, iter.todo = {},
                      \A b \in Ahead(d) : d.ht[b[1]].table[b[2]] = {}
               PROVE  iter.kept \subseteq iter.returned
    BY DEF IteratorComplete
  <2>1. DictOK(d) /\ iter \in Iters /\ WalkOK
    BY DEF IInv
  <2>2. Later(d, iter.table, iter.index) = {}
    BY <2>1, AheadKeys
  <2> QED
    BY <2>1, <2>2 DEF WalkOK
<1> QED
  BY <1>1, Invariance, PTL

\* A safe iterator returns no key twice.
THEOREM WalkReturnsOnce == Spec => IteratorOnce
<1>1. IInv /\ [Next]_vars => [Returns]_vars
  BY NextIInv
<1> QED
  BY <1>1, Invariance, PTL DEF Spec, IteratorOnce, Returns

\* The two tables are one set of keys to their callers.
THEOREM DictIsKeySet == Spec => ImplementsKeySet
<1>1. Init => Abstract!Init
  <2> SUFFICES ASSUME Init PROVE Abstract!Init
    OBVIOUS
  <2>1. KeysOf(d) = {} /\ reply = <<>>
    BY NoKeys DEF Init
  <2> QED
    BY <2>1 DEF Abstract!Init, AllKeys, KeysOf
<1>2. IInv /\ [Next]_vars => [Abstract!Next]_<<AllKeys, reply>>
  BY NextIInv DEF Simulates
<1> QED
  BY <1>1, <1>2, Invariance, PTL DEF Spec, ImplementsKeySet, Abstract!Spec
-----------------------------------------------------------------------------
(* Powers of two and bits. *)

\* A subset of A and one of B make one of their union.
LEMMA PowerSum ==
    ASSUME NEW a \in Nat, NEW b \in Nat
    PROVE  2^(a + b) = 2^a * 2^b
<1> DEFINE A == 1..a
           B == (a + 1)..(a + b)
           C == 1..(a + b)
           P == (SUBSET A) \X (SUBSET B)
           f == [s \in SUBSET C |-> <<s \cap A, s \cap B>>]
<1>1. /\ IsFiniteSet(A) /\ Cardinality(A) = a
      /\ IsFiniteSet(B) /\ Cardinality(B) = b
      /\ IsFiniteSet(C) /\ Cardinality(C) = a + b
  <2>1. \A i, j \in Int : /\ IsFiniteSet(i..j)
                          /\ Cardinality(i..j) = IF i > j THEN 0 ELSE j - i + 1
    BY FS_Interval
  <2>2. a + 1 \in Int /\ a + b \in Int /\ a \in Int /\ 1 \in Int
    OBVIOUS
  <2>3. IsFiniteSet(A) /\ IsFiniteSet(B) /\ IsFiniteSet(C)
    BY <2>1, <2>2
  <2>4. /\ Cardinality(A) = IF 1 > a THEN 0 ELSE a - 1 + 1
        /\ Cardinality(B) = IF a + 1 > a + b THEN 0 ELSE (a + b) - (a + 1) + 1
        /\ Cardinality(C) = IF 1 > a + b THEN 0 ELSE (a + b) - 1 + 1
    BY <2>1, <2>2
  <2> QED
    BY <2>3, <2>4
<1>2. C = A \cup B /\ A \cap B = {}
  OBVIOUS
<1> HIDE DEF A, B, C
<1>3. /\ IsFiniteSet(SUBSET A) /\ Cardinality(SUBSET A) = 2^a
      /\ IsFiniteSet(SUBSET B) /\ Cardinality(SUBSET B) = 2^b
      /\ IsFiniteSet(SUBSET C) /\ Cardinality(SUBSET C) = 2^(a + b)
  BY <1>1, FS_SUBSET
<1>4. Cardinality(P) = 2^a * 2^b
  <2>1. Cardinality(P) = Cardinality(SUBSET A) * Cardinality(SUBSET B)
    BY <1>3, FS_Product
  <2> QED
    BY <1>3, <2>1
<1>5. f \in [SUBSET C -> P] /\ \A s, t \in SUBSET C : f[s] = f[t] => s = t
  <2>1. \A s \in SUBSET C : s = (s \cap A) \cup (s \cap B)
    BY <1>2
  <2>2. \A s \in SUBSET C : f[s] = <<s \cap A, s \cap B>> /\ f[s] \in P
    OBVIOUS
  <2>3. \A s, t \in SUBSET C : f[s] = f[t] => s \cap A = t \cap A /\ s \cap B = t \cap B
    BY <2>2
  <2> QED
    BY <2>1, <2>2, <2>3
<1>6. \A p \in P : \E s \in SUBSET C : f[s] = p
  <2> SUFFICES ASSUME NEW p \in P PROVE \E s \in SUBSET C : f[s] = p
    OBVIOUS
  <2>0. PICK u \in SUBSET A, v \in SUBSET B : p = <<u, v>>
    OBVIOUS
  <2>1. u \cup v \in SUBSET C /\ (u \cup v) \cap A = u /\ (u \cup v) \cap B = v
    BY <1>2
  <2> QED
    BY <2>0, <2>1
<1>7. ExistsBijection(SUBSET C, P)
  <2> HIDE DEF f, P
  <2>1. f \in Bijection(SUBSET C, P)
    BY <1>5, <1>6 DEF Bijection, Injection, Surjection, IsInjective
  <2> QED
    BY <2>1 DEF ExistsBijection
<1> HIDE DEF P
<1> QED
  BY <1>3, <1>4, <1>7, FS_Bijection

\* The next power of two is the double.
LEMMA Double ==
    ASSUME NEW n \in Nat
    PROVE  2^(n + 1) = 2 * 2^n /\ 2^n \in Nat /\ 2^n >= 1 /\ 2^0 = 1
<1>1. 2^0 = 1 /\ 2^1 = 2
  OBVIOUS
<1>2. 2^(n + 1) = 2^n * 2^1
  BY PowerSum
<1> QED
  BY <1>1, <1>2, PowersOfTwo

\* Quotient and remainder.
LEMMA Division ==
    ASSUME NEW x \in Nat, NEW p \in Nat, p > 0
    PROVE  /\ x = p * (x \div p) + (x % p) /\ 0 <= x % p /\ x % p < p
           /\ x \div p \in Nat /\ x % p \in Nat
  OBVIOUS

\* Quotient and remainder are the only ones.
LEMMA OneQuotient ==
    ASSUME NEW x \in Nat, NEW p \in Nat, p > 0, NEW q \in Nat, NEW r \in Nat,
           x = p * q + r, r < p
    PROVE  x \div p = q /\ x % p = r
  OBVIOUS

\* The quotient of a number below a product is below the other factor.
LEMMA QuotientBelow ==
    ASSUME NEW x \in Nat, NEW p \in Nat, p > 0, NEW q \in Nat
    PROVE  x < p * q <=> x \div p < q
  BY Division

\* The next bit of a number.
LEMMA NextBit ==
    ASSUME NEW x \in Nat, NEW p \in Nat, p > 0
    PROVE  /\ Bit(x, p) \in {0, 1}
           /\ x % (2 * p) = (x % p) + p * Bit(x, p)
           /\ x \div p = 2 * (x \div (2 * p)) + Bit(x, p)
<1> DEFINE q == x \div p
           h == q \div 2
           c == q % 2
           r == x % p
<1>1. q \in Nat /\ r \in Nat /\ r < p /\ x = p * q + r
  BY Division
<1>2. h \in Nat /\ c \in {0, 1} /\ q = 2 * h + c
  BY <1>1
<1>3. Bit(x, p) = c
  BY DEF Bit
<1> HIDE DEF q, h, c, r
<1>4. x = (2 * p) * h + (p * c + r) /\ p * c + r \in Nat /\ p * c + r < 2 * p
  BY <1>1, <1>2
<1>5. x \div (2 * p) = h /\ x % (2 * p) = p * c + r
  BY <1>2, <1>4, OneQuotient
<1> QED
  BY <1>1, <1>2, <1>3, <1>5 DEF q, r

\* A set of numbers that has 0 and with each number the next one has them all.
LEMMA AllNumbers ==
    ASSUME NEW S \in SUBSET Nat, 0 \in S, \A n \in S : n + 1 \in S
    PROVE  S = Nat
<1> DEFINE T == Nat \ S
<1> SUFFICES ASSUME T # {} PROVE FALSE
  OBVIOUS
<1>1. T \in SUBSET Nat
  OBVIOUS
<1>2. PICK n \in T : \A m \in T : n <= m
  <2> HIDE DEF T
  <2> QED
    BY <1>1, LeastNumber
<1>3. n - 1 \in Nat /\ n - 1 \notin T
  BY <1>2
<1> QED
  BY <1>3

\* The remainder by 2^e is made of the e lowest bits, the quotient of the others.
LEMMA LowBits ==
    ASSUME NEW x \in Nat, NEW y \in Nat, NEW e \in Nat
    PROVE  x % 2^e = y % 2^e <=> \A i \in 0..e-1 : Bit(x, 2^i) = Bit(y, 2^i)
<1> DEFINE Q(n) == x % 2^n = y % 2^n <=> \A i \in 0..n-1 : Bit(x, 2^i) = Bit(y, 2^i)
           S == {n \in Nat : Q(n)}
<1>1. 0 \in S
  <2>1. 2^0 = 1 /\ x % 1 = 0 /\ y % 1 = 0
    OBVIOUS
  <2> QED
    BY <2>1
<1>2. ASSUME NEW n \in S PROVE n + 1 \in S
  <2>0. n \in Nat /\ Q(n)
    OBVIOUS
  <2>1. PICK p \in Nat : p = 2^n /\ 2^(n + 1) = 2 * p /\ p > 0
    BY <2>0, Double
  <2>2. /\ Bit(x, p) \in {0, 1} /\ x % (2 * p) = (x % p) + p * Bit(x, p)
        /\ Bit(y, p) \in {0, 1} /\ y % (2 * p) = (y % p) + p * Bit(y, p)
    BY <2>1, NextBit
  <2>3. x % p \in Nat /\ x % p < p /\ y % p \in Nat /\ y % p < p
    BY <2>1, Division
  <2>4. x % (2 * p) = y % (2 * p) <=> x % p = y % p /\ Bit(x, p) = Bit(y, p)
    BY <2>1, <2>2, <2>3
  <2>5. (\A i \in 0..(n+1)-1 : Bit(x, 2^i) = Bit(y, 2^i))
          <=> (\A i \in 0..n-1 : Bit(x, 2^i) = Bit(y, 2^i)) /\ Bit(x, 2^n) = Bit(y, 2^n)
    <3>1. \A i : i \in 0..(n+1)-1 <=> i \in 0..n-1 \/ i = n
      BY <2>0
    <3> QED
      BY <3>1
  <2>6. Q(n + 1)
    BY <2>0, <2>1, <2>4, <2>5
  <2> QED
    BY <2>0, <2>6
<1>3. S = Nat
  <2> HIDE DEF Q
  <2>1. S \in SUBSET Nat
    OBVIOUS
  <2> HIDE DEF S
  <2> QED
    BY <1>1, <1>2, <2>1, AllNumbers
<1> QED
  BY <1>3

\* Numbers with the same high bits have the same quotient, and the other way round.
LEMMA HighBits ==
    ASSUME NEW b \in Nat, NEW x \in 0..2^b-1, NEW y \in 0..2^b-1, NEW e \in 0..b
    PROVE  x \div 2^e = y \div 2^e <=> \A i \in e..b-1 : Bit(x, 2^i) = Bit(y, 2^i)
<1> DEFINE Q(n) == x \div 2^n = y \div 2^n <=> \A i \in n..b-1 : Bit(x, 2^i) = Bit(y, 2^i)
           S == {k \in Nat : k <= b => Q(b - k)}
<1>0. 2^b \in Nat /\ 2^b > 0 /\ x \in Nat /\ y \in Nat /\ x < 2^b /\ y < 2^b
  BY Double
<1>1. 0 \in S
  <2>1. x \div 2^b = 0 /\ y \div 2^b = 0
    <3>1. PICK p \in Nat : p = 2^b
      BY <1>0
    <3>2. x = p * 0 + x /\ y = p * 0 + y
      BY <1>0, <3>1
    <3> QED
      BY <1>0, <3>1, <3>2, OneQuotient
  <2>2. b - 0 = b /\ b..b-1 = {}
    OBVIOUS
  <2> QED
    BY <2>1, <2>2
<1>2. ASSUME NEW k \in S PROVE k + 1 \in S
  <2> SUFFICES ASSUME k + 1 <= b PROVE Q(b - (k + 1))
    OBVIOUS
  <2>0. PICK n \in Nat : n = b - (k + 1) /\ n + 1 = b - k /\ n < b
    OBVIOUS
  <2>1. PICK p \in Nat : p = 2^n /\ 2^(n + 1) = 2 * p /\ p > 0
    BY <2>0, Double
  <2>2. /\ Bit(x, p) \in {0, 1} /\ x \div p = 2 * (x \div (2 * p)) + Bit(x, p)
        /\ Bit(y, p) \in {0, 1} /\ y \div p = 2 * (y \div (2 * p)) + Bit(y, p)
    BY <1>0, <2>1, NextBit
  <2>3. x \div (2 * p) \in Nat /\ y \div (2 * p) \in Nat
    BY <1>0, <2>1, Division
  <2>4. x \div p = y \div p <=> x \div (2 * p) = y \div (2 * p) /\ Bit(x, p) = Bit(y, p)
    BY <2>2, <2>3
  <2>5. (\A i \in n..b-1 : Bit(x, 2^i) = Bit(y, 2^i))
          <=> (\A i \in (n+1)..b-1 : Bit(x, 2^i) = Bit(y, 2^i)) /\ Bit(x, 2^n) = Bit(y, 2^n)
    <3>1. \A i : i \in n..b-1 <=> i \in (n+1)..b-1 \/ i = n
      BY <2>0
    <3> QED
      BY <3>1
  <2>6. Q(n + 1)
    BY <2>0
  <2>7. Q(n)
    BY <2>1, <2>4, <2>5, <2>6
  <2> QED
    BY <2>0, <2>7
<1>3. S = Nat
  <2> HIDE DEF Q
  <2>1. S \in SUBSET Nat
    OBVIOUS
  <2> HIDE DEF S
  <2> QED
    BY <1>1, <1>2, <2>1, AllNumbers
<1>4. b - e \in S /\ b - (b - e) = e /\ b - e <= b
  <2>1. b - e \in Nat /\ b - (b - e) = e /\ b - e <= b
    OBVIOUS
  <2> HIDE DEF S
  <2> QED
    BY <1>3, <2>1
<1> HIDE DEF Q
<1>5. Q(e)
  BY <1>4
<1> QED
  BY <1>5 DEF Q

\* A bit more at the end.
LEMMA ShiftedBits ==
    ASSUME NEW r \in Nat, NEW c \in {0, 1}, NEW p \in Nat, p > 0
    PROVE  Bit(2 * r + c, 2 * p) = Bit(r, p) /\ Bit(2 * r + c, 1) = c
<1> DEFINE q == r \div p
           m == r % p
<1>1. q \in Nat /\ m \in Nat /\ m < p /\ r = p * q + m
  BY Division
<1> HIDE DEF q, m
<1>2. 2 * r + c = (2 * p) * q + (2 * m + c) /\ 2 * m + c \in Nat /\ 2 * m + c < 2 * p
  BY <1>1
<1>3. (2 * r + c) \div (2 * p) = q
  BY <1>1, <1>2, OneQuotient
<1>4. (2 * r + c) \div 1 = 2 * r + c /\ (2 * r + c) % 2 = c
  OBVIOUS
<1> QED
  BY <1>3, <1>4 DEF Bit, q

\* There is a number with the first e bits of v in reverse order.
LEMMA ReverseExists ==
    ASSUME NEW v \in Nat, NEW e \in Nat
    PROVE  \E r \in 0..2^e-1 : \A i \in 0..e-1 : Bit(r, 2^(e-1-i)) = Bit(v, 2^i)
<1> DEFINE Q(n) == \E r \in 0..2^n-1 : \A i \in 0..n-1 : Bit(r, 2^(n-1-i)) = Bit(v, 2^i)
           S == {n \in Nat : Q(n)}
<1>1. 0 \in S
  <2>1. 0 \in 0..2^0-1 /\ 0..0-1 = {}
    OBVIOUS
  <2> QED
    BY <2>1
<1>2. ASSUME NEW n \in S PROVE n + 1 \in S
  <2>0. n \in Nat /\ Q(n)
    OBVIOUS
  <2>1. PICK p \in Nat : p = 2^n /\ 2^(n + 1) = 2 * p /\ p > 0
    BY <2>0, Double
  <2>2. PICK r \in 0..p-1 : \A i \in 0..n-1 : Bit(r, 2^(n-1-i)) = Bit(v, 2^i)
    BY <2>0, <2>1
  <2>3. PICK c \in {0, 1} : c = Bit(v, p)
    BY <2>1, NextBit
  <2>4. r \in Nat /\ 2 * r + c \in 0..2^(n+1)-1
    BY <2>1, <2>2, <2>3
  <2>5. ASSUME NEW i \in 0..(n+1)-1 PROVE Bit(2 * r + c, 2^((n+1)-1-i)) = Bit(v, 2^i)
    <3>1. CASE i = n
      <4>1. (n+1)-1-i = 0 /\ 2^0 = 1
        BY <2>0, <3>1
      <4>2. Bit(2 * r + c, 1) = c
        BY <2>1, <2>4, ShiftedBits
      <4> QED
        BY <2>1, <2>3, <3>1, <4>1, <4>2
    <3>2. CASE i # n
      <4>1. i \in 0..n-1 /\ n-1-i \in Nat /\ (n+1)-1-i = (n-1-i) + 1
        BY <2>0, <3>2
      <4>2. PICK q \in Nat : q = 2^(n-1-i) /\ 2^((n-1-i)+1) = 2 * q /\ q > 0
        BY <4>1, Double
      <4>3. Bit(2 * r + c, 2 * q) = Bit(r, q)
        BY <2>4, <4>2, ShiftedBits
      <4> QED
        BY <2>2, <4>1, <4>2, <4>3
    <3> QED
      BY <3>1, <3>2
  <2>6. Q(n + 1)
    BY <2>4, <2>5
  <2> QED
    BY <2>0, <2>6
<1>3. S = Nat
  <2> HIDE DEF Q
  <2>1. S \in SUBSET Nat
    OBVIOUS
  <2> HIDE DEF S
  <2> QED
    BY <1>1, <1>2, <2>1, AllNumbers
<1> QED
  BY <1>3
-----------------------------------------------------------------------------
(* rev(). *)

\* Powers of two are ordered as their exponents.
LEMMA PowerOrder ==
    ASSUME NEW i \in Nat, NEW j \in Nat, i < j
    PROVE  2 * 2^i <= 2^j /\ 2^i < 2^j /\ 2^j \div (2 * 2^i) = 2^(j-1-i)
<1>1. j-1-i \in Nat /\ i + 1 \in Nat /\ (i + 1) + (j-1-i) = j
  OBVIOUS
<1>2. PICK p \in Nat, q \in Nat : /\ p = 2^i /\ p >= 1 /\ q = 2^(j-1-i) /\ q >= 1
                                  /\ 2^(i+1) = 2 * p
  BY <1>1, Double
<1>3. 2^j = (2 * p) * q
  BY <1>1, <1>2, PowerSum
<1>4. (2 * p) * q >= 2 * p
  BY <1>2
<1>5. ((2 * p) * q) \div (2 * p) = q
  <2>1. PICK x \in Nat : x = (2 * p) * q
    BY <1>2
  <2>2. x = (2 * p) * q + 0 /\ 0 < 2 * p
    BY <1>2, <2>1
  <2> QED
    BY <1>2, <2>1, <2>2, OneQuotient
<1> QED
  BY <1>2, <1>3, <1>4, <1>5

\* The bits of rev[v] are those of v from the other end.
LEMMA RevBits ==
    ASSUME NEW b \in Nat, Word = 2^b, NEW v \in 0..Word-1
    PROVE  /\ rev[v] \in 0..Word-1
           /\ \A i \in 0..b-1 : Bit(rev[v], 2^(b-1-i)) = Bit(v, 2^i)
<1> DEFINE R(r) == \A p \in Powers : Bit(r, Word \div (2 * p)) = Bit(v, p)
<1>0. v \in Nat /\ Word \in Nat /\ Word >= b
  BY PowersOfTwo
<1>1. \A i \in 0..b-1 : 2^i \in Powers /\ Word \div (2 * 2^i) = 2^(b-1-i)
  <2> SUFFICES ASSUME NEW i \in 0..b-1
               PROVE  2^i \in Powers /\ Word \div (2 * 2^i) = 2^(b-1-i)
    OBVIOUS
  <2>1. i \in Nat /\ i < b /\ i \in 0..Word
    BY <1>0
  <2>2. 2^i < Word /\ Word \div (2 * 2^i) = 2^(b-1-i) /\ 2^i \in Nat /\ 2^i >= 1
    BY <2>1, PowerOrder, Double
  <2>3. 2^i \in 1..Word
    BY <1>0, <2>2
  <2> QED
    BY <2>1, <2>2, <2>3 DEF Powers
<1>2. \A p \in Powers : \E i \in 0..b-1 : p = 2^i
  <2> SUFFICES ASSUME NEW p \in Powers PROVE \E i \in 0..b-1 : p = 2^i
    OBVIOUS
  <2>1. PICK i \in 0..Word : p = 2^i /\ p < Word
    BY DEF Powers
  <2>2. i \in Nat
    BY <1>0
  <2>3. i < b
    <3> SUFFICES ASSUME i >= b PROVE FALSE
      BY <2>2
    <3>1. i = b \/ b < i
      BY <2>2
    <3>2. b < i => 2^b < 2^i
      BY <2>2, PowerOrder
    <3>3. 2^b \in Nat /\ 2^i \in Nat
      BY <2>2, Double
    <3> QED
      BY <2>1, <3>1, <3>2, <3>3
  <2> QED
    BY <2>1, <2>2, <2>3
<1>3. \A r : R(r) <=> \A i \in 0..b-1 : Bit(r, 2^(b-1-i)) = Bit(v, 2^i)
  <2> SUFFICES ASSUME NEW r
               PROVE  R(r) <=> \A i \in 0..b-1 : Bit(r, 2^(b-1-i)) = Bit(v, 2^i)
    OBVIOUS
  <2>1. ASSUME R(r), NEW i \in 0..b-1 PROVE Bit(r, 2^(b-1-i)) = Bit(v, 2^i)
    BY <1>1, <2>1
  <2>2. ASSUME \A i \in 0..b-1 : Bit(r, 2^(b-1-i)) = Bit(v, 2^i), NEW p \in Powers
        PROVE  Bit(r, Word \div (2 * p)) = Bit(v, p)
    <3>1. PICK i \in 0..b-1 : p = 2^i
      BY <1>2
    <3> QED
      BY <1>1, <2>2, <3>1
  <2> QED
    BY <2>1, <2>2
<1>4. \E r \in 0..Word-1 : R(r)
  <2>1. \E r \in 0..2^b-1 : \A i \in 0..b-1 : Bit(r, 2^(b-1-i)) = Bit(v, 2^i)
    BY <1>0, ReverseExists
  <2> HIDE DEF R
  <2> QED
    BY <1>3, <2>1
<1>5. rev[v] = CHOOSE r \in 0..Word-1 : R(r)
  BY DEF rev
<1> HIDE DEF R
<1>6. rev[v] \in 0..Word-1 /\ R(rev[v])
  BY <1>4, <1>5
<1> QED
  BY <1>3, <1>6

\* rev() undoes itself.
LEMMA RevTwice ==
    ASSUME NEW b \in Nat, Word = 2^b, NEW v \in 0..Word-1
    PROVE  rev[rev[v]] = v
<1>0. Word \in Nat
  BY PowersOfTwo
<1>1. PICK r \in 0..Word-1 : r = rev[v] /\ \A i \in 0..b-1 : Bit(r, 2^(b-1-i)) = Bit(v, 2^i)
  BY RevBits
<1>2. PICK s \in 0..Word-1 : s = rev[r] /\ \A i \in 0..b-1 : Bit(s, 2^(b-1-i)) = Bit(r, 2^i)
  BY RevBits
<1>3. ASSUME NEW i \in 0..b-1 PROVE Bit(s, 2^i) = Bit(v, 2^i)
  <2>1. b-1-i \in 0..b-1 /\ b-1-(b-1-i) = i
    OBVIOUS
  <2>2. Bit(s, 2^(b-1-(b-1-i))) = Bit(r, 2^(b-1-i))
    BY <1>2, <2>1
  <2> QED
    BY <1>1, <2>1, <2>2
<1>4. s % 2^b = v % 2^b
  <2>1. s \in Nat /\ v \in Nat
    BY <1>0
  <2> QED
    BY <1>3, <2>1, LowBits
<1>5. s % Word = s /\ v % Word = v
  <2>1. \A x \in 0..Word-1 : x \in Nat /\ 0 \in Nat /\ x = Word * 0 + x /\ x < Word
    BY <1>0
  <2>2. Word > 0
    BY <1>0
  <2> QED
    BY <1>0, <2>1, <2>2, OneQuotient
<1> QED
  BY <1>1, <1>2, <1>4, <1>5

\* The low bits become the high ones.
LEMMA RevBlocks ==
    ASSUME NEW b \in Nat, Word = 2^b, NEW a \in 0..b, NEW u \in 0..Word-1, NEW v \in 0..Word-1
    PROVE  u % 2^a = v % 2^a <=> rev[u] \div 2^(b-a) = rev[v] \div 2^(b-a)
<1>0. Word \in Nat /\ a \in Nat /\ b - a \in 0..b
  BY PowersOfTwo
<1>1. PICK r \in 0..Word-1 : r = rev[u] /\ \A i \in 0..b-1 : Bit(r, 2^(b-1-i)) = Bit(u, 2^i)
  BY RevBits
<1>2. PICK s \in 0..Word-1 : s = rev[v] /\ \A i \in 0..b-1 : Bit(s, 2^(b-1-i)) = Bit(v, 2^i)
  BY RevBits
<1>3. u % 2^a = v % 2^a <=> \A i \in 0..a-1 : Bit(u, 2^i) = Bit(v, 2^i)
  <2>1. u \in Nat /\ v \in Nat
    BY <1>0
  <2>2. \A e \in Nat : u % 2^e = v % 2^e <=> \A i \in 0..e-1 : Bit(u, 2^i) = Bit(v, 2^i)
    BY <2>1, LowBits
  <2> QED
    BY <1>0, <2>2
<1>4. r \div 2^(b-a) = s \div 2^(b-a) <=> \A i \in (b-a)..b-1 : Bit(r, 2^i) = Bit(s, 2^i)
  BY <1>0, HighBits
<1>5. \A i \in 0..a-1 : b-1-i \in (b-a)..b-1 /\ i \in 0..b-1
  BY <1>0
<1>6. \A j \in (b-a)..b-1 : b-1-j \in 0..a-1 /\ b-1-(b-1-j) = j
  BY <1>0
<1>7. (\A i \in (b-a)..b-1 : Bit(r, 2^i) = Bit(s, 2^i))
        => \A i \in 0..a-1 : Bit(u, 2^i) = Bit(v, 2^i)
  BY <1>1, <1>2, <1>5
<1>8. ASSUME \A i \in 0..a-1 : Bit(u, 2^i) = Bit(v, 2^i), NEW j \in (b-a)..b-1
      PROVE  Bit(r, 2^j) = Bit(s, 2^j)
  <2>1. b-1-j \in 0..a-1 /\ b-1-j \in 0..b-1 /\ b-1-(b-1-j) = j
    BY <1>0, <1>6
  <2>2. Bit(r, 2^(b-1-(b-1-j))) = Bit(u, 2^(b-1-j)) /\ Bit(s, 2^(b-1-(b-1-j))) = Bit(v, 2^(b-1-j))
    BY <1>1, <1>2, <2>1
  <2> QED
    BY <1>8, <2>1, <2>2
<1> QED
  BY <1>1, <1>2, <1>3, <1>4, <1>7, <1>8

\* No bits and all bits are their own reverse.
LEMMA RevEnds ==
    ASSUME NEW b \in Nat, Word = 2^b
    PROVE  rev[0] = 0 /\ rev[Word - 1] = Word - 1
<1>0. Word \in Nat /\ Word >= 1
  BY Double
<1>1. ASSUME NEW x \in 0..Word-1, NEW c, \A i \in 0..b-1 : Bit(x, 2^i) = c
      PROVE  rev[x] = x
  <2>1. PICK r \in 0..Word-1 : r = rev[x] /\ \A i \in 0..b-1 : Bit(r, 2^(b-1-i)) = Bit(x, 2^i)
    BY RevBits
  <2>2. ASSUME NEW i \in 0..b-1 PROVE Bit(r, 2^i) = Bit(x, 2^i)
    <3>1. b-1-i \in 0..b-1 /\ b-1-(b-1-i) = i
      OBVIOUS
    <3>2. Bit(r, 2^(b-1-(b-1-i))) = Bit(x, 2^(b-1-i))
      BY <2>1, <3>1
    <3> QED
      BY <1>1, <3>1, <3>2
  <2>3. r \div 2^0 = x \div 2^0
    <3>1. 0 \in 0..b
      OBVIOUS
    <3> QED
      BY <2>2, <3>1, HighBits
  <2>4. r \div 2^0 = r /\ x \div 2^0 = x
    BY <1>0
  <2> QED
    BY <2>1, <2>3, <2>4
<1>2. \A i \in 0..b-1 : Bit(0, 2^i) = 0
  <2> SUFFICES ASSUME NEW i \in 0..b-1 PROVE Bit(0, 2^i) = 0
    OBVIOUS
  <2>1. PICK p \in Nat : p = 2^i /\ p > 0
    BY Double
  <2>2. 0 = p * 0 + 0
    BY <2>1
  <2>3. 0 \div p = 0
    BY <2>1, <2>2, OneQuotient
  <2> QED
    BY <2>1, <2>3 DEF Bit
<1>3. \A i \in 0..b-1 : Bit(Word - 1, 2^i) = 1
  <2> SUFFICES ASSUME NEW i \in 0..b-1 PROVE Bit(Word - 1, 2^i) = 1
    OBVIOUS
  <2>0. i \in Nat /\ b-1-i \in Nat /\ (i + 1) + (b-1-i) = b
    OBVIOUS
  <2>1. PICK p \in Nat, q \in Nat : /\ p = 2^i /\ p >= 1 /\ q = 2^(b-1-i) /\ q >= 1
                                    /\ 2^(i+1) = 2 * p
    BY <2>0, Double
  <2>2. Word = (2 * p) * q
    <3>1. i + 1 \in Nat
      BY <2>0
    <3>2. 2^((i + 1) + (b-1-i)) = 2^(i + 1) * 2^(b-1-i)
      BY <2>0, <3>1, PowerSum
    <3> QED
      BY <2>0, <2>1, <3>2
  <2>3. Word - 1 = p * (2 * q - 1) + (p - 1) /\ 2 * q - 1 \in Nat /\ p - 1 \in Nat
    BY <2>1, <2>2
  <2>4. (Word - 1) \div p = 2 * q - 1
    <3>1. PICK x \in Nat, y \in Nat, z \in Nat : x = Word - 1 /\ y = 2 * q - 1 /\ z = p - 1
      BY <1>0, <2>1
    <3> QED
      BY <2>1, <2>3, <3>1, OneQuotient
  <2>5. (2 * q - 1) % 2 = 1
    BY <2>1
  <2> QED
    BY <2>1, <2>4, <2>5 DEF Bit
<1> QED
  BY <1>0, <1>1, <1>2, <1>3
-----------------------------------------------------------------------------
(* The cursor. *)

\* Numbers that agree in more low bits agree in fewer.
LEMMA FewerBits ==
    ASSUME NEW b \in Nat, NEW a \in 0..b, NEW x \in Nat, NEW y \in Nat
    PROVE  /\ x % 2^b = y % 2^b => x % 2^a = y % 2^a
           /\ x % 2^b \in 0..2^b-1 /\ (x % 2^b) % 2^a = x % 2^a
<1>0. a \in Nat /\ 2^b \in Nat /\ 2^b > 0
  BY Double
<1>1. \A i \in 0..a-1 : i \in 0..b-1
  BY <1>0
<1>2. ASSUME NEW u \in Nat, NEW v \in Nat, u % 2^b = v % 2^b PROVE u % 2^a = v % 2^a
  <2>0. \A e \in Nat : u % 2^e = v % 2^e <=> \A i \in 0..e-1 : Bit(u, 2^i) = Bit(v, 2^i)
    BY LowBits
  <2>1. \A i \in 0..b-1 : Bit(u, 2^i) = Bit(v, 2^i)
    BY <1>2, <2>0
  <2>2. \A i \in 0..a-1 : Bit(u, 2^i) = Bit(v, 2^i)
    BY <1>1, <2>1
  <2> QED
    BY <1>0, <2>0, <2>2
<1>3. PICK r \in Nat : r = x % 2^b /\ r < 2^b
  BY <1>0, Division
<1>4. r % 2^b = r
  <2>1. PICK p \in Nat : p = 2^b
    BY <1>0
  <2>2. r = p * 0 + r
    BY <2>1
  <2> QED
    BY <1>0, <1>3, <2>1, <2>2, OneQuotient
<1>5. r % 2^a = x % 2^a
  BY <1>2, <1>3, <1>4
<1>6. x % 2^b \in 0..2^b-1 /\ (x % 2^b) % 2^a = x % 2^a
  BY <1>0, <1>3, <1>5
<1>7. x % 2^b = y % 2^b => x % 2^a = y % 2^a
  BY <1>2
<1> QED
  BY <1>6, <1>7

\* One step of the cursor v over a table of 2^a buckets.  In the order of the reversed
\* cursors it goes to the end of the block of v, whose members select the bucket of v.
Stepped(v, n, c) ==
    /\ c \in 0..Word-1
    /\ c # 0 => rev[c] > rev[v]
    /\ \A h \in 0..Word-1 : rev[h] >= rev[v] => h % n = v % n \/ (c # 0 /\ rev[h] >= rev[c])
    /\ c # 0 => \E x \in 0..Word-1 : rev[x] = rev[c] - 1 /\ x % n = v % n

\* NextCursor() is such a step.
LEMMA CursorStep ==
    ASSUME NEW b \in Nat, Word = 2^b, NEW a \in 0..b, NEW v \in 0..Word-1
    PROVE  Stepped(v, 2^a, NextCursor(v, 2^a))
<1>0. a \in Nat /\ b - a \in Nat /\ b - a \in 0..b /\ a + (b - a) = b /\ b - (b - a) = a
  OBVIOUS
<1>1. PICK n \in Nat, m \in Nat : n = 2^a /\ m = 2^(b-a) /\ n >= 1 /\ m >= 1
  BY <1>0, Double
<1>2. Word = n * m /\ Word \in Nat /\ Word >= 1 /\ Word >= n
  <2>1. Word = n * m
    BY <1>0, <1>1, PowerSum
  <2> QED
    BY <1>1, <2>1
<1> DEFINE w == v % n
           x == w + Word - n
<1>3. w \in Nat /\ w < n
  BY <1>1, <1>2, Division
<1>4. x \in 0..Word-1 /\ x = n * (m - 1) + w /\ m - 1 \in Nat
  BY <1>1, <1>2, <1>3
<1>5. NextCursor(v, n) = rev[(rev[x] + 1) % Word]
  BY DEF NextCursor, Increment
<1> HIDE DEF w, x
<1>6. x \div n = m - 1 /\ x % n = w
  <2>1. PICK y \in Nat, z \in Nat : y = x /\ z = m - 1
    BY <1>2, <1>4
  <2> QED
    BY <1>1, <1>3, <1>4, <2>1, OneQuotient
<1>7. /\ (Word - 1) \div n = m - 1 /\ (Word - 1) % m = m - 1
  <2>1. PICK y \in Nat, k \in Nat, l \in Nat : y = Word - 1 /\ k = m - 1 /\ l = n - 1
    BY <1>1, <1>2
  <2>2. y = n * k + l /\ y = m * l + k /\ l < n /\ k < m
    BY <1>1, <1>2, <2>1
  <2>3. n > 0 /\ m > 0
    BY <1>1
  <2>4. y \div n = k
    BY <2>2, <2>3, OneQuotient
  <2>5. y % m = k
    BY <2>2, <2>3, OneQuotient
  <2> QED
    BY <2>1, <2>4, <2>5
<1>8. PICK R \in 0..Word-1, X \in 0..Word-1 : R = rev[v] /\ X = rev[x]
  BY <1>4, RevBits
<1>9. PICK q \in Nat : q = R \div m /\ m * q <= R /\ R < m * (q + 1)
  <2>1. R \in Nat
    BY <1>2
  <2>2. m > 0
    BY <1>1
  <2>3. PICK q \in Nat, r \in Nat : q = R \div m /\ R = m * q + r /\ r < m
    BY <2>1, <2>2, Division
  <2>4. m * (q + 1) = m * q + m
    BY <1>1
  <2> QED
    BY <1>1, <2>1, <2>3, <2>4
<1>10. X \div m = q
  <2>1. x % n = v % n
    BY <1>6 DEF w
  <2> QED
    BY <1>1, <1>4, <1>8, <1>9, <2>1, RevBlocks
<1>11. X % m = m - 1
  <2>1. Word - 1 \in 0..Word-1 /\ rev[Word - 1] = Word - 1
    BY <1>2, RevEnds
  <2>2. rev[X] = x
    BY <1>4, <1>8, RevTwice
  <2>3. X % 2^(b-a) = (Word - 1) % 2^(b-a)
          <=> rev[X] \div 2^(b-(b-a)) = rev[Word-1] \div 2^(b-(b-a))
    BY <1>0, <1>8, <2>1, RevBlocks
  <2> QED
    BY <1>0, <1>1, <1>6, <1>7, <2>1, <2>2, <2>3
<1>12. X + 1 = m * (q + 1)
  <2>1. X \in Nat
    BY <1>2
  <2>2. X = m * (X \div m) + (X % m)
    BY <1>1, <2>1, Division
  <2>3. m * (q + 1) = m * q + m
    BY <1>1
  <2> QED
    BY <1>1, <1>10, <1>11, <2>2, <2>3
<1>13. ASSUME NEW h \in 0..Word-1, rev[h] >= R, rev[h] < X + 1 PROVE h % n = v % n
  <2>1. PICK H \in Nat : H = rev[h] /\ H >= m * q /\ H < m * (q + 1)
    <3>1. rev[h] \in 0..Word-1
      BY RevBits
    <3>2. rev[h] \in Nat /\ R \in Nat /\ m * q \in Nat
      BY <1>1, <1>2, <3>1
    <3> QED
      BY <1>9, <1>12, <1>13, <3>2
  <2>2. H \div m = q
    <3>1. H - m * q \in Nat /\ H - m * q < m
      BY <1>1, <2>1
    <3>2. PICK r \in Nat : r = H - m * q
      BY <3>1
    <3>3. H = m * q + r
      BY <1>1, <3>2
    <3> QED
      BY <1>1, <3>1, <3>2, <3>3, OneQuotient
  <2>3. rev[h] \div 2^(b-a) = rev[v] \div 2^(b-a)
    BY <1>1, <1>8, <1>9, <2>1, <2>2
  <2> QED
    BY <1>1, <2>3, RevBlocks
<1>14. R < X + 1 /\ X + 1 \in Nat /\ X + 1 <= Word
  BY <1>2, <1>9, <1>12
<1>15. \A h \in 0..Word-1 : rev[h] \in 0..Word-1
  BY RevBits
<1>16. CASE X + 1 = Word
  <2>1. (X + 1) % Word = 0 /\ rev[0] = 0
    BY <1>2, <1>16, RevEnds
  <2>2. NextCursor(v, n) = 0
    BY <1>5, <1>8, <2>1
  <2>3. ASSUME NEW h \in 0..Word-1, rev[h] >= R PROVE h % n = v % n
    BY <1>2, <1>13, <1>15, <1>16, <2>3
  <2> QED
    BY <1>1, <1>2, <1>8, <2>2, <2>3 DEF Stepped
<1>17. CASE X + 1 < Word
  <2> DEFINE c == NextCursor(v, n)
  <2>1. X + 1 \in 0..Word-1 /\ (X + 1) % Word = X + 1
    BY <1>2, <1>14, <1>17
  <2>2. c = rev[X + 1]
    BY <1>5, <1>8, <2>1
  <2>3. c \in 0..Word-1 /\ rev[c] = X + 1
    BY <2>1, <2>2, RevBits, RevTwice
  <2> HIDE DEF c
  <2>4. c # 0
    <3>1. rev[0] = 0
      BY RevEnds
    <3> QED
      BY <1>2, <2>3, <3>1
  <2>5. ASSUME NEW h \in 0..Word-1, rev[h] >= R PROVE h % n = v % n \/ rev[h] >= rev[c]
    <3>1. rev[h] \in Nat /\ X + 1 \in Nat
      BY <1>2, <1>15
    <3> QED
      BY <1>13, <2>3, <2>5, <3>1
  <2>6. rev[x] = rev[c] - 1 /\ x % n = v % n
    BY <1>2, <1>6, <1>8, <2>3 DEF w
  <2>7. rev[c] > rev[v]
    BY <1>2, <1>8, <1>14, <2>3
  <2>8. Stepped(v, n, c)
    BY <1>4, <1>8, <2>3, <2>4, <2>5, <2>6, <2>7 DEF Stepped
  <2> QED
    BY <1>1, <2>8 DEF c
<1> QED
  BY <1>2, <1>14, <1>16, <1>17
-----------------------------------------------------------------------------
(* The loop of dictScan() over the buckets of the larger table. *)

\* The loop of dictScan() over the buckets of the larger table, one call of it, and
\* the cursors at which it may stand after all but the last n reversed cursors.
GoStep(g, u, small, large) ==
    LET w == NextCursor(u, large)
    IN  IF (w % large) \div small = 0 THEN [visited |-> {u}, next |-> w]
        ELSE [visited |-> {u} \cup g[w].visited, next |-> g[w].next]
IsGo(g, D, small, large) == g = [u \in D |-> GoStep(g, u, small, large)]
From(n) == {u \in 0..Word-1 : rev[u] >= Word - n}

\* Unless it stops, the loop goes on from a later cursor.
LEMMA GoesOn ==
    ASSUME NEW b \in Nat, Word = 2^b, NEW l \in 0..b, NEW s \in 0..l, NEW u \in 0..Word-1,
           NEW w, w = NextCursor(u, 2^l), (w % 2^l) \div 2^s # 0
    PROVE  w \in 0..Word-1 /\ w # 0 /\ rev[w] > rev[u]
<1>1. Stepped(u, 2^l, w)
  BY CursorStep
<1>2. w # 0
  <2> SUFFICES ASSUME w = 0 PROVE FALSE
    OBVIOUS
  <2>1. s \in Nat /\ l \in Nat
    OBVIOUS
  <2>2. PICK p \in Nat, q \in Nat : p = 2^l /\ q = 2^s /\ p > 0 /\ q > 0
    BY <2>1, Double
  <2>3. 0 = p * 0 + 0 /\ 0 = q * 0 + 0
    BY <2>2
  <2>4. 0 % p = 0 /\ 0 \div q = 0
    BY <2>2, <2>3, OneQuotient
  <2> QED
    BY <2>2, <2>4
<1> QED
  BY <1>1, <1>2 DEF Stepped

\* These sets grow to that of all cursors, and a later cursor is in an earlier one.
LEMMA FromNext ==
    ASSUME NEW b \in Nat, Word = 2^b
    PROVE  /\ From(0) = {} /\ From(Word) = 0..Word-1
           /\ \A n \in Nat : From(n) \subseteq From(n + 1)
           /\ \A n \in Nat : \A u \in From(n + 1), w \in 0..Word-1 :
                 rev[w] > rev[u] => w \in From(n)
<1>1. Word \in Nat
  BY PowersOfTwo
<1>2. \A u \in 0..Word-1 : rev[u] \in Nat /\ rev[u] < Word
  BY <1>1, RevBits
<1> QED
  BY <1>1, <1>2 DEF From

\* So the loop is well defined: by induction on the reversed cursors from the last.
LEMMA GoExists ==
    ASSUME NEW b \in Nat, Word = 2^b, NEW l \in 0..b, NEW s \in 0..l
    PROVE  \E g : IsGo(g, 0..Word-1, 2^s, 2^l)
<1> DEFINE S == {n \in Nat : \E g : IsGo(g, From(n), 2^s, 2^l)}
<1>0. Word \in Nat
  BY PowersOfTwo
<1>1. 0 \in S
  <2> DEFINE g == [u \in {} |-> {}]
  <2>1. From(0) = {}
    BY FromNext
  <2>2. g = [u \in {} |-> GoStep(g, u, 2^s, 2^l)]
    OBVIOUS
  <2>3. IsGo(g, From(0), 2^s, 2^l)
    BY <2>1, <2>2 DEF IsGo
  <2> QED
    BY <2>3
<1>2. ASSUME NEW n \in S PROVE n + 1 \in S
  <2>1. n \in Nat
    OBVIOUS
  <2>2. PICK g : IsGo(g, From(n), 2^s, 2^l)
    OBVIOUS
  <2> DEFINE f == [u \in From(n + 1) |->
                      IF u \in From(n) THEN g[u] ELSE GoStep(g, u, 2^s, 2^l)]
  <2>3. /\ From(n) \subseteq From(n + 1)
        /\ \A u \in From(n + 1), w \in 0..Word-1 : rev[w] > rev[u] => w \in From(n)
    BY <2>1, FromNext
  <2>4. \A u \in From(n) : f[u] = g[u] /\ g[u] = GoStep(g, u, 2^s, 2^l)
    BY <2>2, <2>3 DEF IsGo
  <2>5. \A u \in From(n + 1) : f[u] = GoStep(g, u, 2^s, 2^l)
    BY <2>4
  <2> HIDE DEF f
  <2>6. ASSUME NEW u \in From(n + 1) PROVE GoStep(f, u, 2^s, 2^l) = GoStep(g, u, 2^s, 2^l)
    <3>1. PICK w : w = NextCursor(u, 2^l)
      OBVIOUS
    <3>2. ASSUME (w % 2^l) \div 2^s # 0 PROVE f[w] = g[w]
      <4>1. u \in 0..Word-1
        BY DEF From
      <4>2. w \in 0..Word-1 /\ rev[w] > rev[u]
        BY <3>1, <3>2, <4>1, GoesOn
      <4> QED
        BY <2>3, <2>4, <4>2
    <3> QED
      BY <3>1, <3>2 DEF GoStep
  <2>7. f = [u \in From(n + 1) |-> GoStep(f, u, 2^s, 2^l)]
    <3>1. f = [u \in From(n + 1) |-> f[u]]
      BY DEF f
    <3> QED
      BY <2>5, <2>6, <3>1
  <2>8. IsGo(f, From(n + 1), 2^s, 2^l)
    BY <2>7 DEF IsGo
  <2> QED
    BY <2>1, <2>8
<1>3. S = Nat
  <2>1. S \in SUBSET Nat
    OBVIOUS
  <2> HIDE DEF S
  <2> QED
    BY <1>1, <1>2, <2>1, AllNumbers
<1>4. \E g : IsGo(g, From(Word), 2^s, 2^l)
  BY <1>0, <1>3
<1> QED
  BY <1>4, FromNext

\* What a call that stands at u does: a later cursor, and all that lies between the
\* two is in the bucket of the smaller table and in a visited one of the larger.
Covers(u, e, n, m) ==
    /\ e.next \in 0..Word-1
    /\ \A h \in 0..Word-1 : rev[h] >= rev[u] =>
          \/ h % n = u % n /\ \E x \in e.visited : h % m = x % m
          \/ e.next # 0 /\ rev[h] >= rev[e.next]

\* Where the loop goes on the cursor has not left the bucket of the smaller table.
LEMMA SameBlock ==
    ASSUME NEW b \in Nat, Word = 2^b, NEW l \in 0..b, NEW s \in 0..l, NEW u \in 0..Word-1,
           NEW w \in 0..Word-1, w # 0, Stepped(u, 2^l, w), (w % 2^l) \div 2^s # 0
    PROVE  w % 2^s = u % 2^s
<1>0. Word \in Nat /\ s \in 0..b /\ b - s \in 0..b /\ b - s \in Nat /\ b - (b - s) = s
      /\ s \in Nat /\ l \in Nat
  BY PowersOfTwo
<1>1. PICK x \in 0..Word-1 : rev[x] = rev[w] - 1 /\ x % 2^l = u % 2^l
  BY DEF Stepped
<1>2. x % 2^s = u % 2^s
  <2>1. x \in Nat /\ u \in Nat
    BY <1>0
  <2> QED
    BY <1>0, <1>1, <2>1, FewerBits
<1>3. PICK M \in Nat : M = 2^(b-s) /\ M > 0
  BY <1>0, Double
<1>4. PICK X \in 0..Word-1, Y \in 0..Word-1 : X = rev[x] /\ Y = rev[w] /\ X = Y - 1 /\ rev[Y] = w
  BY <1>1, RevBits, RevTwice
<1>5. X \in Nat /\ Y \in Nat
  BY <1>0
<1>6. Y % M # 0
  <2> SUFFICES ASSUME Y % M = 0 PROVE FALSE
    OBVIOUS
  <2>1. 0 \in 0..Word-1 /\ rev[0] = 0
    BY <1>0, RevEnds
  <2>2. 0 % M = 0
    <3>1. 0 = M * 0 + 0
      BY <1>3
    <3> QED
      BY <1>3, <3>1, OneQuotient
  <2>3. Y % 2^(b-s) = 0 % 2^(b-s) <=> rev[Y] \div 2^(b-(b-s)) = rev[0] \div 2^(b-(b-s))
    BY <1>0, <2>1, RevBlocks
  <2>4. w \div 2^s = 0 \div 2^s
    BY <1>0, <1>3, <1>4, <2>1, <2>2, <2>3
  <2>5. PICK n \in Nat, m \in Nat : n = 2^s /\ m = 2^l /\ n > 0 /\ m >= n
    <3>1. PICK n \in Nat, m \in Nat : n = 2^s /\ m = 2^l /\ n > 0
      BY <1>0, Double
    <3>2. s = l \/ s < l
      BY <1>0
    <3>3. s < l => 2^s < 2^l
      BY <1>0, PowerOrder
    <3> QED
      BY <3>1, <3>2, <3>3
  <2>6. w < n
    <3>1. w \in Nat /\ 0 = n * 0 + 0
      BY <1>0, <2>5
    <3>2. 0 \div n = 0
      BY <2>5, <3>1, OneQuotient
    <3>3. w \div n = 0
      BY <2>4, <2>5, <3>2
    <3>4. w = n * (w \div n) + (w % n) /\ w % n < n
      BY <2>5, <3>1, Division
    <3> QED
      BY <2>5, <3>1, <3>3, <3>4
  <2>7. w % m = w
    <3>1. w \in Nat /\ w = m * 0 + w /\ w < m
      BY <1>0, <2>5, <2>6
    <3> QED
      BY <2>5, <3>1, OneQuotient
  <2>8. w \div n = 0
    <3>1. w \in Nat /\ w = n * 0 + w
      BY <1>0, <2>5
    <3> QED
      BY <2>5, <2>6, <3>1, OneQuotient
  <2> QED
    BY <2>5, <2>7, <2>8
<1>7. X \div M = Y \div M
  <2>1. PICK q \in Nat, r \in Nat : Y = M * q + r /\ r < M /\ q = Y \div M /\ r = Y % M
    BY <1>3, <1>5, Division
  <2>2. PICK t \in Nat : t = r - 1
    BY <1>6, <2>1
  <2>3. X = M * q + t /\ t < M
    BY <1>3, <1>4, <1>5, <2>1, <2>2
  <2>4. X \div M = q
    BY <1>3, <1>5, <2>3, OneQuotient
  <2> QED
    BY <2>1, <2>4
<1>8. x % 2^s = w % 2^s
  <2>1. x % 2^s = w % 2^s <=> rev[x] \div 2^(b-s) = rev[w] \div 2^(b-s)
    BY <1>0, RevBlocks
  <2> QED
    BY <1>3, <1>4, <1>7, <2>1
<1> QED
  BY <1>2, <1>8

\* Numbers in one bucket of the larger table are in one bucket of the smaller.
LEMMA SameBits ==
    ASSUME NEW l \in Nat, NEW s \in 0..l
    PROVE  \A x, y \in Nat : x % 2^l = y % 2^l => x % 2^s = y % 2^s
<1> TAKE x, y \in Nat
<1>1. /\ x % 2^l = y % 2^l => x % 2^s = y % 2^s
      /\ x % 2^l \in 0..2^l-1 /\ (x % 2^l) % 2^s = x % 2^s
  BY FewerBits, Zenon
<1> QED
  BY <1>1

\* The loop covers what its calls cover, by the same induction.
LEMMA GoCovers ==
    ASSUME NEW b \in Nat, Word = 2^b, NEW l \in 0..b, NEW s \in 0..l,
           NEW g, IsGo(g, 0..Word-1, 2^s, 2^l)
    PROVE  \A u \in 0..Word-1 : Covers(u, g[u], 2^s, 2^l)
<1> DEFINE S == {k \in Nat : \A u \in From(k) : Covers(u, g[u], 2^s, 2^l)}
<1>0. Word \in Nat /\ s \in 0..b /\ l \in Nat /\ s \in Nat
  BY PowersOfTwo
<1>a. \A h \in 0..Word-1 : rev[h] \in Nat /\ rev[h] < Word /\ h \in Nat
  BY <1>0, RevBits
<1>b. PICK n \in Nat, m \in Nat : n = 2^s /\ m = 2^l /\ n > 0 /\ m > 0
  BY <1>0, Double
<1>c. \A x, y \in Nat : x % m = y % m => x % n = y % n
  <2>1. \A x, y \in Nat : x % 2^l = y % 2^l => x % 2^s = y % 2^s
    BY <1>0, SameBits, Zenon
  <2> QED
    BY <1>b, <2>1
<1>1. 0 \in S
  BY FromNext
<1>2. ASSUME NEW k \in S PROVE k + 1 \in S
  <2>1. k \in Nat /\ \A u \in From(k) : Covers(u, g[u], n, m)
    BY <1>b
  <2>2. \A u \in From(k + 1), w \in 0..Word-1 : rev[w] > rev[u] => w \in From(k)
    BY <2>1, FromNext
  <2>3. ASSUME NEW u \in From(k + 1) PROVE Covers(u, g[u], n, m)
    <3>1. u \in 0..Word-1 /\ u \in Nat
      BY <1>a DEF From
    <3>2. PICK w : w = NextCursor(u, m)
      OBVIOUS
    <3>3. Stepped(u, m, w)
      BY <1>b, <3>1, <3>2, CursorStep
    <3>4. g[u] = GoStep(g, u, n, m)
      BY <1>b, <3>1 DEF IsGo
    <3>5. CASE (w % m) \div n = 0
      <4>1. g[u] = [visited |-> {u}, next |-> w]
        BY <3>2, <3>4, <3>5 DEF GoStep
      <4>2. g[u].visited = {u} /\ g[u].next = w
        BY <4>1
      <4>3. \A h \in 0..Word-1 : h % m = u % m => h % n = u % n
        BY <1>a, <1>c, <3>1
      <4> QED
        BY <3>3, <4>2, <4>3 DEF Stepped, Covers
    <3>6. CASE (w % m) \div n # 0
      <4>1. g[u] = [visited |-> {u} \cup g[w].visited, next |-> g[w].next]
        BY <3>2, <3>4, <3>6 DEF GoStep
      <4>2. g[u].visited = {u} \cup g[w].visited /\ g[u].next = g[w].next
        BY <4>1
      <4>3. w \in 0..Word-1 /\ w # 0 /\ rev[w] > rev[u]
        BY <1>b, <3>1, <3>2, <3>6, GoesOn
      <4>4. Covers(w, g[w], n, m)
        BY <2>1, <2>2, <4>3
      <4>5. w % n = u % n
        BY <1>b, <3>1, <3>3, <3>6, <4>3, SameBlock
      <4>6. \A h \in 0..Word-1 : h % m = u % m => h % n = u % n
        BY <1>a, <1>c, <3>1
      <4>7. ASSUME NEW h \in 0..Word-1, rev[h] >= rev[u]
            PROVE  \/ h % n = u % n /\ \E x \in g[u].visited : h % m = x % m
                   \/ g[u].next # 0 /\ rev[h] >= rev[g[u].next]
        <5>1. h % m = u % m \/ rev[h] >= rev[w]
          BY <3>3, <4>7 DEF Stepped
        <5> QED
          BY <4>2, <4>4, <4>5, <4>6, <5>1 DEF Covers
      <4> QED
        BY <4>2, <4>4, <4>7 DEF Covers
    <3> QED
      BY <3>5, <3>6
  <2> QED
    BY <1>b, <2>1, <2>3
<1>3. S = Nat
  <2>1. S \in SUBSET Nat
    OBVIOUS
  <2> HIDE DEF S
  <2> QED
    BY <1>1, <1>2, <2>1, AllNumbers
<1>4. \A u \in From(Word) : Covers(u, g[u], 2^s, 2^l)
  BY <1>0, <1>3
<1> QED
  BY <1>4, FromNext

\* This is the loop of Expansion().
LEMMA ExpansionCovers ==
    ASSUME NEW b \in Nat, Word = 2^b, NEW l \in 0..b, NEW s \in 0..l, NEW v \in 0..Word-1
    PROVE  Covers(v, Expansion(v, 2^s, 2^l), 2^s, 2^l)
<1> DEFINE go == CHOOSE g : IsGo(g, 0..Word-1, 2^s, 2^l)
<1>1. IsGo(go, 0..Word-1, 2^s, 2^l)
  BY GoExists
<1>2. Expansion(v, 2^s, 2^l) = go[v]
  BY DEF Expansion, IsGo, GoStep
<1> HIDE DEF go
<1> QED
  BY <1>1, <1>2, GoCovers
-----------------------------------------------------------------------------
(* The sizes of the tables. *)

\* The sizes that tables with buckets have.
Sizes == {n \in Nat : n <= Word /\ \E e \in Nat : n = 2^e}
SizesOK(x) == \A t \in {0, 1} : x.ht[t].size = 0 \/ x.ht[t].size \in Sizes

\* The cursor's bits.
LEMMA WordIsPower ==
    \E a, b \in Nat : a <= b /\ InitialSize = 2^a /\ Word = 2^b
<1>1. PICK a \in 0..InitialSize, b \in 0..Word : a <= b /\ InitialSize = 2^a /\ Word = 2^b
  BY CursorAssumption
<1>2. a \in Nat /\ b \in Nat
  BY DictAssumption
<1> QED
  BY <1>1, <1>2

\* Sizes are powers of two that a word has the bits for, in the same order.
LEMMA SizeBits ==
    ASSUME NEW b \in Nat, Word = 2^b, NEW n \in Sizes, NEW m \in Sizes, n <= m
    PROVE  \E l \in 0..b : \E s \in 0..l : n = 2^s /\ m = 2^l
<1>1. PICK s \in Nat : n = 2^s
  BY DEF Sizes
<1>2. PICK l \in Nat : m = 2^l
  BY DEF Sizes
<1>3. n \in Nat /\ m \in Nat /\ m <= Word /\ Word \in Nat
  BY DictAssumption DEF Sizes
<1>4. ~(b < l)
  <2> SUFFICES ASSUME b < l PROVE FALSE
    OBVIOUS
  <2>1. 2^b < 2^l
    BY PowerOrder
  <2> QED
    BY <1>2, <1>3, <2>1
<1>5. ~(l < s)
  <2> SUFFICES ASSUME l < s PROVE FALSE
    OBVIOUS
  <2>1. 2^l < 2^s
    BY PowerOrder
  <2> QED
    BY <1>1, <1>2, <1>3, <2>1
<1>6. l \in 0..b /\ s \in 0..l
  BY <1>4, <1>5
<1> QED
  BY <1>1, <1>2, <1>6

\* _dictNextPower() of a number that a word holds is such a size.
LEMMA NextPowerSize ==
    ASSUME NEW n \in Nat, n <= Word
    PROVE  _dictNextPower(n) \in Sizes
<1> DEFINE sizes == {InitialSize * 2^e : e \in 0..n}
           T == {s \in sizes : s >= n}
<1>1. PICK a \in Nat, b \in Nat : a <= b /\ InitialSize = 2^a /\ Word = 2^b
  BY WordIsPower
<1>2. PICK c \in Nat : c = b - a
  BY <1>1
<1>3. InitialSize \in Nat /\ InitialSize > 0 /\ Word \in Nat
  BY DictAssumption
<1>4. Word = InitialSize * 2^c
  <2>1. a + c = b
    BY <1>1, <1>2
  <2>2. 2^(a + c) = 2^a * 2^c
    BY PowerSum
  <2> QED
    BY <1>1, <2>1, <2>2
<1>5. ASSUME NEW e \in 0..n
      PROVE  InitialSize * 2^e \in Nat /\ \E i \in Nat : InitialSize * 2^e = 2^i
  <2>1. e \in Nat /\ a + e \in Nat
    OBVIOUS
  <2>2. 2^(a + e) = 2^a * 2^e
    BY <2>1, PowerSum
  <2>3. 2^(a + e) \in Nat
    BY <2>1, PowersOfTwo
  <2> QED
    BY <1>1, <2>1, <2>2, <2>3
<1>6. \E r \in sizes : r >= n /\ r <= Word
  <2>1. CASE c <= n
    <3>1. c \in 0..n
      BY <2>1
    <3> QED
      BY <1>3, <1>4, <3>1
  <2>2. CASE c > n
    <3>1. PICK p \in Nat, q \in Nat : p = 2^n /\ q = 2^c /\ p >= n
      BY PowersOfTwo
    <3>2. p < q
      BY <2>2, <3>1, PowerOrder
    <3>3. \A i, x, y \in Nat : i > 0 /\ x < y => i * x >= x /\ i * x <= i * y
      OBVIOUS
    <3>4. InitialSize * p >= p /\ InitialSize * p <= InitialSize * q
      BY <1>3, <3>1, <3>2, <3>3
    <3>5. n \in 0..n
      OBVIOUS
    <3>6. InitialSize * 2^n \in sizes /\ InitialSize * 2^n \in Nat
      BY <1>5, <3>5
    <3> QED
      <4>1. PICK r \in sizes : r = InitialSize * p /\ r \in Nat
        BY <3>1, <3>6
      <4>2. PICK R \in Nat : R = InitialSize * q /\ R = Word
        BY <1>3, <1>4, <3>1
      <4>3. r >= p /\ r <= R
        BY <3>4, <4>1, <4>2
      <4>4. r >= n /\ r <= Word
        BY <1>3, <3>1, <4>1, <4>2, <4>3
      <4> QED
        BY <4>4
  <2> QED
    BY <1>2, <2>1, <2>2
<1>7. \A s \in sizes : s \in Nat /\ \E i \in Nat : s = 2^i
  BY <1>5
<1> HIDE DEF sizes
<1>8. T \in SUBSET Nat /\ T # {}
  BY <1>6, <1>7
<1>9. PICK s \in T : \A r \in T : s <= r
  <2> HIDE DEF T
  <2> QED
    BY <1>8, LeastNumber
<1>10. \E q \in sizes : q >= n /\ \A r \in sizes : r >= n => q <= r
  BY <1>9
<1>11. /\ _dictNextPower(n) \in sizes
       /\ \A r \in sizes : r >= n => _dictNextPower(n) <= r
  BY <1>10 DEF _dictNextPower, sizes
<1>12. _dictNextPower(n) <= Word
  <2>1. PICK r \in sizes : r >= n /\ r <= Word
    BY <1>6
  <2>2. _dictNextPower(n) <= r /\ r \in Nat /\ _dictNextPower(n) \in Nat
    BY <1>7, <1>11, <2>1
  <2> QED
    BY <1>3, <2>1, <2>2
<1> QED
  BY <1>7, <1>11, <1>12 DEF Sizes

\* What a dict is asked to expand to fits.
LEMMA AskedSizes ==
    ASSUME NEW x, DictOK(x)
    PROVE  /\ InitialSize \in Nat /\ InitialSize <= Word
           /\ x.ht[0].used \in Nat /\ x.ht[0].used * 2 <= Word /\ x.ht[0].used <= Word
<1>1. InitialSize \in Nat /\ InitialSize <= Word
  <2>1. PICK a \in Nat, b \in Nat : a <= b /\ InitialSize = 2^a /\ Word = 2^b
    BY WordIsPower
  <2>2. a = b \/ 2^a < 2^b
    BY <2>1, PowerOrder
  <2> QED
    BY <2>1, <2>2, DictAssumption
<1>2. x.ht[0].used \in Nat /\ Entries(x.ht[0]) \in SUBSET Keys
      /\ x.ht[0].used = Cardinality(Entries(x.ht[0]))
  BY DictFacts DEF DictOK, TableOK
<1>3. Cardinality(Keys) \in Nat /\ Cardinality(Entries(x.ht[0])) <= Cardinality(Keys)
  BY <1>2, DictAssumption, FS_Subset, FS_CardinalityType
<1>4. 2 * Cardinality(Keys) <= Word /\ Word \in Nat
  BY DictAssumption, CursorAssumption
<1> QED
  BY <1>1, <1>2, <1>3, <1>4

\* dictExpand() makes a table of such a size.
LEMMA ExpandSizes ==
    ASSUME NEW x, DictOK(x), SizesOK(x), NEW n \in Nat, n <= Word
    PROVE  SizesOK(dictExpand(x, n))
<1> DEFINE m == _dictNextPower(n)
           y == dictExpand(x, n)
<1>1. m \in Sizes /\ m \in Nat
  BY NextPowerSize DEF Sizes
<1> HIDE DEF m
<1>2. NewTable(m).size = m /\ NewTable(m) \in Hts
  BY <1>1, NewTableOK DEF TableOK
<1>3. x \in Dicts /\ x.ht[0] \in Hts /\ x.ht[1] \in Hts
  BY DictFacts DEF DictOK
<1>4. CASE ~CanExpand(x, n)
  BY <1>4 DEF dictExpand
<1>5. CASE CanExpand(x, n) /\ x.ht[0].size = 0
  <2>1. y = [x EXCEPT !.ht[0] = NewTable(m)]
    BY <1>5 DEF dictExpand, m
  <2>2. y.ht[0] = NewTable(m) /\ y.ht[1] = x.ht[1]
    BY <1>3, <2>1 DEF Dicts
  <2> HIDE DEF y
  <2>3. SizesOK(y)
    BY <1>1, <1>2, <2>2 DEF SizesOK
  <2> QED
    BY <2>3 DEF y
<1>6. CASE CanExpand(x, n) /\ x.ht[0].size # 0
  <2>1. y = [x EXCEPT !.ht = Pair(x.ht[0], NewTable(m)), !.rehashidx = 0]
    BY <1>6 DEF dictExpand, m
  <2>2. y.ht[0] = x.ht[0] /\ y.ht[1] = NewTable(m)
    BY <1>3, <2>1 DEF Dicts, Pair
  <2> HIDE DEF y
  <2>3. SizesOK(y)
    BY <1>1, <1>2, <2>2 DEF SizesOK
  <2> QED
    BY <2>3 DEF y
<1> QED
  BY <1>4, <1>5, <1>6

\* Moving buckets changes no size.
LEMMA MoveSizes ==
    ASSUME NEW x, DictOK(x), SizesOK(x), NEW b
    PROVE  SizesOK(MoveBuckets(x, b))
<1> DEFINE B == {i \in 0..x.ht[0].size-1 : x.rehashidx <= i /\ i < b}
           S == UNION {x.ht[0].table[i] : i \in B}
           old == Emptied(x.ht[0], B)
           new == Filled(x.ht[1], S)
           y == MoveBuckets(x, b)
<1>1. x \in Dicts /\ x.ht[0] \in Hts /\ x.ht[1] \in Hts
  BY DictFacts DEF DictOK
<1>2. old.size = x.ht[0].size /\ new.size = x.ht[1].size
  <2> HIDE DEF B, S
  <2> QED
    BY <1>1 DEF Emptied, Filled, Hts
<1>3. y = IF old.used = 0 THEN [x EXCEPT !.ht = Pair(new, EmptyTable), !.rehashidx = -1]
          ELSE [x EXCEPT !.ht = Pair(old, new), !.rehashidx = b]
  BY Zenon DEF MoveBuckets
<1> HIDE DEF B, S, old, new, y
<1>4. (y.ht[0] = new /\ y.ht[1] = EmptyTable) \/ (y.ht[0] = old /\ y.ht[1] = new)
  BY <1>1, <1>3 DEF Dicts, Pair
<1>5. SizesOK(y)
  BY <1>2, <1>4, EmptyTableOK DEF SizesOK
<1> QED
  BY <1>5 DEF y

\* Nor does a rehashing step.
LEMMA RehashSizes ==
    ASSUME NEW x, DictOK(x), SizesOK(x)
    PROVE  SizesOK(_dictRehashStep(x))
<1>1. x \in Dicts
  BY DEF DictOK
<1>2. ASSUME NEW y, y = [x EXCEPT !.rehashidx = @ + EmptyVisits] PROVE SizesOK(y)
  BY <1>1, <1>2 DEF Dicts, SizesOK
<1>3. \/ dictRehash(x) = x \/ \E b : dictRehash(x) = MoveBuckets(x, b)
      \/ dictRehash(x) = [x EXCEPT !.rehashidx = @ + EmptyVisits]
  BY DEF dictRehash
<1>4. SizesOK(dictRehash(x))
  BY <1>2, <1>3, MoveSizes
<1> QED
  BY <1>4 DEF _dictRehashStep

\* Growing and shrinking keep the sizes powers of two.
LEMMA ExpandIfNeededSizes ==
    ASSUME NEW x, DictOK(x), SizesOK(x)
    PROVE  SizesOK(_dictExpandIfNeeded(x)) /\ SizesOK(dictResize(x))
<1>1. /\ InitialSize \in Nat /\ InitialSize <= Word
      /\ x.ht[0].used \in Nat /\ x.ht[0].used * 2 <= Word /\ x.ht[0].used <= Word
      /\ x.ht[0].used * 2 \in Nat
  BY AskedSizes
<1>2. /\ SizesOK(dictExpand(x, InitialSize)) /\ SizesOK(dictExpand(x, x.ht[0].used))
      /\ SizesOK(dictExpand(x, x.ht[0].used * 2))
  BY <1>1, ExpandSizes
<1>3. \/ _dictExpandIfNeeded(x) = x \/ _dictExpandIfNeeded(x) = dictExpand(x, InitialSize)
      \/ _dictExpandIfNeeded(x) = dictExpand(x, x.ht[0].used * 2)
  BY DEF _dictExpandIfNeeded
<1>4. \/ dictResize(x) = x \/ dictResize(x) = dictExpand(x, InitialSize)
      \/ dictResize(x) = dictExpand(x, x.ht[0].used)
  BY DEF dictResize
<1> QED
  BY <1>2, <1>3, <1>4, Zenon

\* Adding and deleting an entry keep them.
LEMMA PutSizes ==
    ASSUME NEW x, DictOK(x), SizesOK(x), NEW k, NEW t \in {0, 1}
    PROVE  SizesOK(Put(x, t, With(x.ht[t], k))) /\ SizesOK(Put(x, t, Without(x.ht[t], k)))
<1>1. x \in Dicts /\ x.ht[t] \in Hts
  BY DictFacts DEF DictOK
<1>2. With(x.ht[t], k).size = x.ht[t].size /\ Without(x.ht[t], k).size = x.ht[t].size
  BY <1>1 DEF With, Without, Hts
<1>3. ASSUME NEW h, h.size = x.ht[t].size PROVE SizesOK(Put(x, t, h))
  <2>1. \A u \in {0, 1} : Put(x, t, h).ht[u] = IF u = t THEN h ELSE x.ht[u]
    BY <1>1 DEF Put, Dicts
  <2> QED
    BY <1>3, <2>1 DEF SizesOK
<1> QED
  BY <1>2, <1>3
-----------------------------------------------------------------------------
(* SCAN. *)

\* Where the hash of k stands among the reversed cursors.
Place(k) == rev[Hash[k] % Word]

\* The bucket of k in a table of n buckets is that of its hash as a cursor.
LEMMA HashBits ==
    ASSUME NEW k \in Keys, NEW n \in Sizes
    PROVE  Hash[k] % Word \in 0..Word-1 /\ (Hash[k] % Word) % n = Index(k, n)
<1>1. PICK b \in Nat : Word = 2^b
  BY WordIsPower
<1>2. n <= n
  BY DEF Sizes
<1>3. PICK l \in 0..b : \E s \in 0..l : n = 2^s /\ n = 2^l
  BY <1>1, <1>2, SizeBits
<1>4. Hash[k] \in Nat
  BY DictAssumption
<1>5. (Hash[k] % 2^b) % 2^l = Hash[k] % 2^l /\ Hash[k] % 2^b \in 0..2^b-1
  BY <1>4, FewerBits
<1> QED
  BY <1>1, <1>3, <1>5 DEF Index

\* The call from cursor v gives every key that is not before v to the callback or
\* leaves it for the calls from the cursor it returns.
Returned(x, v, r) ==
    /\ r.next \in 0..Word-1
    /\ \A k \in KeysOf(x) : Place(k) >= rev[v] =>
          k \in r.keys \/ (r.next # 0 /\ Place(k) >= rev[r.next])

\* With one table the call visits the bucket of v and steps over its block.
LEMMA ScanOneTable ==
    ASSUME NEW x, DictOK(x), SizesOK(x), NEW v \in 0..Word-1,
           dictSize(x) # 0, ~dictIsRehashing(x)
    PROVE  Returned(x, v, dictScan(x, v))
<1> DEFINE n == x.ht[0].size
           r == dictScan(x, v)
<1>1. r = [keys |-> x.ht[0].table[v % n], next |-> NextCursor(v, n)]
  BY DEF dictScan
<1>2. TableOK(x.ht[0]) /\ n \in Nat /\ Entries(x.ht[0]) \in SUBSET Keys
  BY DictFacts DEF DictOK
<1>3. KeysOf(x) = Entries(x.ht[0]) /\ KeysOf(x) # {}
  BY DictFacts, EmptyTableOK DEF DictOK, KeysOf
<1>4. n # 0
  BY <1>2, <1>3, EntryFacts
<1>5. n \in Sizes
  BY <1>4 DEF SizesOK
<1>6. r.keys = x.ht[0].table[v % n] /\ r.next = NextCursor(v, n)
  BY <1>1
<1>7. Stepped(v, n, r.next)
  <2>1. PICK b \in Nat : Word = 2^b
    BY WordIsPower
  <2>2. n <= n
    BY <1>2
  <2>3. PICK l \in 0..b : \E s \in 0..l : n = 2^s /\ n = 2^l
    BY <1>5, <2>1, <2>2, SizeBits
  <2>4. Stepped(v, 2^l, NextCursor(v, 2^l))
    BY <2>1, CursorStep
  <2> QED
    BY <1>6, <2>3, <2>4
<1> HIDE DEF r
<1>8. ASSUME NEW k \in KeysOf(x), Place(k) >= rev[v]
      PROVE  k \in r.keys \/ (r.next # 0 /\ Place(k) >= rev[r.next])
  <2>1. k \in Keys
    BY <1>2, <1>3
  <2>2. PICK h \in 0..Word-1 : h = Hash[k] % Word /\ h % n = Index(k, n)
    BY <1>5, <2>1, HashBits
  <2>3. h % n = v % n \/ (r.next # 0 /\ rev[h] >= rev[r.next])
    BY <1>7, <1>8, <2>2 DEF Stepped, Place
  <2>4. k \in x.ht[0].table[Index(k, n)]
    BY <1>2, <1>3, <1>4, <2>1, EntryFacts
  <2> QED
    BY <1>6, <2>2, <2>3, <2>4 DEF Place
<1>9. r.next \in 0..Word-1
  BY <1>7 DEF Stepped
<1> QED
  BY <1>8, <1>9 DEF Returned, r

\* With two it visits the bucket of v in the smaller table and all those of the larger
\* one that share it.
LEMMA ScanTwoTables ==
    ASSUME NEW x, DictOK(x), SizesOK(x), NEW v \in 0..Word-1,
           dictSize(x) # 0, dictIsRehashing(x)
    PROVE  Returned(x, v, dictScan(x, v))
<1> DEFINE t0 == IF x.ht[0].size <= x.ht[1].size THEN 0 ELSE 1
           small == x.ht[t0]
           large == x.ht[1 - t0]
           e == Expansion(v, small.size, large.size)
           r == dictScan(x, v)
<1>1. r = [keys |-> small.table[v % small.size]
                    \cup UNION {large.table[u % large.size] : u \in e.visited},
           next |-> e.next]
  BY DEF dictScan
<1>2. /\ TableOK(x.ht[0]) /\ TableOK(x.ht[1]) /\ x.ht[0].size \in Nat /\ x.ht[1].size \in Nat
      /\ x.ht[0].size > 0 /\ x.ht[1].size > 0
  BY DictFacts DEF DictOK, Rehashing
<1>3. t0 \in {0, 1} /\ (t0 = 0 => 1 - t0 = 1) /\ (t0 = 1 => 1 - t0 = 0)
  OBVIOUS
<1>4. small.size <= large.size
  BY <1>2
<1> HIDE DEF t0
<1>5. /\ TableOK(small) /\ TableOK(large) /\ small.size > 0 /\ large.size > 0
      /\ small.size \in Sizes /\ large.size \in Sizes
      /\ KeysOf(x) = Entries(small) \cup Entries(large)
  <2>1. /\ TableOK(small) /\ TableOK(large) /\ small.size > 0 /\ large.size > 0
        /\ KeysOf(x) = Entries(small) \cup Entries(large)
    BY <1>2, <1>3 DEF KeysOf
  <2>2. x.ht[0].size \in Sizes /\ x.ht[1].size \in Sizes
    BY <1>2 DEF SizesOK
  <2>3. small.size \in Sizes /\ large.size \in Sizes
    BY <1>3, <2>2
  <2> QED
    BY <2>1, <2>3
<1> HIDE DEF small, large
<1>6. PICK n, m : n = small.size /\ m = large.size
  OBVIOUS
<1>7. Covers(v, e, n, m)
  <2>1. PICK b \in Nat : Word = 2^b
    BY WordIsPower
  <2>2. PICK l \in 0..b : \E s \in 0..l : n = 2^s /\ m = 2^l
    BY <1>4, <1>5, <1>6, <2>1, SizeBits
  <2>3. PICK s \in 0..l : n = 2^s /\ m = 2^l
    BY <2>2
  <2>4. Covers(v, Expansion(v, 2^s, 2^l), 2^s, 2^l)
    BY <2>1, ExpansionCovers
  <2> QED
    BY <1>6, <2>3, <2>4
<1> HIDE DEF e
<1>8. /\ r.next = e.next
      /\ r.keys = small.table[v % n] \cup UNION {large.table[u % m] : u \in e.visited}
  BY <1>1, <1>6
<1> HIDE DEF r
<1>9. ASSUME NEW k \in KeysOf(x), Place(k) >= rev[v]
      PROVE  k \in r.keys \/ (r.next # 0 /\ Place(k) >= rev[r.next])
  <2>1. k \in Keys
    BY <1>5, EntryFacts
  <2>2. PICK h : /\ h = Hash[k] % Word /\ h \in 0..Word-1
                 /\ h % n = Index(k, n) /\ h % m = Index(k, m)
    BY <1>5, <1>6, <2>1, HashBits
  <2>3. \/ h % n = v % n /\ \E u \in e.visited : h % m = u % m
        \/ e.next # 0 /\ rev[h] >= rev[e.next]
    BY <1>7, <1>9, <2>2 DEF Covers, Place
  <2>4. k \in small.table[Index(k, n)] \/ k \in large.table[Index(k, m)]
    BY <1>5, <1>6, <2>1, EntryFacts
  <2>5. CASE h % n = v % n /\ \E u \in e.visited : h % m = u % m
    <3>1. PICK u \in e.visited : h % m = u % m
      BY <2>5
    <3>2. k \in small.table[v % n] \/ k \in large.table[u % m]
      BY <2>2, <2>4, <2>5, <3>1
    <3> QED
      BY <1>8, <3>1, <3>2
  <2> QED
    BY <1>8, <2>2, <2>3, <2>5 DEF Place
<1>10. r.next \in 0..Word-1
  BY <1>7, <1>8 DEF Covers
<1> QED
  BY <1>9, <1>10 DEF Returned, r

\* An empty dict ends the SCAN at once.
LEMMA ScanReturns ==
    ASSUME NEW x, DictOK(x), SizesOK(x), NEW v \in 0..Word-1
    PROVE  Returned(x, v, dictScan(x, v))
<1>1. CASE dictSize(x) = 0
  <2>1. dictScan(x, v) = [keys |-> {}, next |-> 0]
    BY <1>1 DEF dictScan
  <2>2. KeysOf(x) = {}
    BY <1>1, DictFacts
  <2> QED
    BY <2>1, <2>2, DictAssumption DEF Returned
<1> QED
  BY <1>1, ScanOneTable, ScanTwoTables

\* The keys that a SCAN still owes are in the dict, and no cursor has passed them.
Scans == [on : BOOLEAN, cursor : 0..Word-1, missing : SUBSET Keys]
ScanOK ==
    /\ scan \in Scans /\ scan.missing \subseteq KeysOf(d)
    /\ ~scan.on => scan.missing = {}
    /\ scan.on => \A k \in scan.missing : Place(k) >= rev[scan.cursor]

\* With the invariant of the other theorems it is inductive.
ScanInv == IInv /\ SizesOK(d) /\ ScanOK

\* No SCAN is on.
LEMMA InitScan == Init => ScanInv
<1> SUFFICES ASSUME Init PROVE ScanInv
  OBVIOUS
<1>1. SizesOK(d)
  BY EmptyTableOK DEF Init, SizesOK, Pair
<1>2. scan \in Scans /\ scan.on = FALSE /\ scan.missing = {}
  BY DictAssumption DEF Init, Scans
<1> QED
  BY <1>1, <1>2, InitIInv DEF ScanInv, ScanOK

\* The first call owes every key, and each call hands over what its cursor passes.
LEMMA ScanStep ==
    ASSUME ScanInv, Scan
    PROVE  ScanOK'
<1> DEFINE v == IF scan.on THEN scan.cursor ELSE 0
           r == dictScan(d, v)
           missing == IF scan.on THEN scan.missing ELSE KeysOf(d)
<1>1. /\ scan' = [on |-> r.next # 0, cursor |-> r.next, missing |-> missing \ r.keys]
      /\ d' = d
  BY DEF Scan, AllKeys, KeysOf
<1>2. DictOK(d) /\ SizesOK(d) /\ ScanOK
  BY DEF ScanInv, IInv
<1>3. v \in 0..Word-1
  BY <1>2, DictAssumption DEF ScanOK, Scans
<1>4. KeysOf(d) \in SUBSET Keys
  BY <1>2, DictFacts DEF KeysOf
<1>5. missing \subseteq KeysOf(d) /\ \A k \in missing : Place(k) >= rev[v]
  <2>1. CASE scan.on
    BY <1>2, <2>1 DEF ScanOK
  <2>2. CASE ~scan.on
    <3>1. PICK b \in Nat : Word = 2^b
      BY WordIsPower
    <3>2. rev[0] = 0
      BY <3>1, RevEnds
    <3>3. ASSUME NEW k \in KeysOf(d) PROVE Place(k) >= 0
      <4>1. Hash[k] % Word \in 0..Word-1
        BY <1>4, DictAssumption
      <4>2. rev[Hash[k] % Word] \in 0..Word-1
        BY <3>1, <4>1, RevBits
      <4> QED
        BY <4>2, DictAssumption DEF Place
    <3> QED
      BY <2>2, <3>2, <3>3
  <2> QED
    BY <2>1, <2>2
<1>6. Returned(d, v, r)
  BY <1>2, <1>3, ScanReturns
<1> HIDE DEF v, r, missing
<1>7. /\ scan'.on = (r.next # 0) /\ scan'.cursor = r.next /\ scan'.missing = missing \ r.keys
  BY <1>1
<1>8. scan' \in Scans
  BY <1>1, <1>4, <1>5, <1>6 DEF Returned, Scans
<1>9. \A k \in missing \ r.keys : r.next # 0 /\ Place(k) >= rev[r.next]
  BY <1>5, <1>6 DEF Returned
<1> QED
  BY <1>1, <1>5, <1>7, <1>8, <1>9 DEF ScanOK

\* Whatever else happens a SCAN owes at most what it owed and the dict still has.
LEMMA ScanKept ==
    ASSUME ScanOK, UNCHANGED scan, scan.missing \subseteq KeysOf(d')
    PROVE  ScanOK'
  BY DEF ScanOK

\* So does a SCAN some of whose keys are deleted.
LEMMA ScanForgets ==
    ASSUME ScanOK, NEW S, scan' = [scan EXCEPT !.missing = S], S \subseteq scan.missing,
           S \subseteq KeysOf(d')
    PROVE  ScanOK'
<1>1. /\ scan' \in Scans /\ scan'.missing = S /\ scan'.on = scan.on
      /\ scan'.cursor = scan.cursor
  BY DEF ScanOK, Scans
<1> QED
  BY <1>1 DEF ScanOK

\* Every call keeps the invariant.
LEMMA NextScan ==
    ASSUME ScanInv, [Next]_vars
    PROVE  ScanInv'
<1>0. IInv /\ SizesOK(d) /\ ScanOK /\ DictOK(d) /\ IInv'
  BY NextIInv DEF ScanInv, IInv
<1>00. scan.missing \subseteq KeysOf(d) /\ iter \in Iters
  BY <1>0 DEF ScanOK, IInv
<1>a. ASSUME NEW x, x = d \/ x = _dictRehashStep(d) PROVE SizesOK(x) /\ DictOK(x)
  BY <1>0, <1>a, RehashSizes, RehashStepOK DEF Same
<1> SUFFICES SizesOK(d') /\ ScanOK'
  BY <1>0 DEF ScanInv
<1>1. CASE UNCHANGED vars
  <2>1. d' = d /\ scan' = scan
    BY <1>1 DEF vars
  <2> QED
    BY <1>0, <2>1 DEF ScanOK
<1>2. ASSUME NEW k \in Keys, dictAdd(k) PROVE SizesOK(d') /\ ScanOK'
  <2> DEFINE w == _dictRehashStep(d)
             x == _dictExpandIfNeeded(w)
  <2>1. /\ d' = x \/ d' = [x EXCEPT !.ht[AddTo(x)] = With(x.ht[AddTo(x)], k)]
        /\ UNCHANGED scan
    BY <1>2 DEF dictAdd
  <2>2. SizesOK(w) /\ DictOK(w)
    BY <1>a
  <2> HIDE DEF w
  <2>3. SizesOK(x) /\ DictOK(x)
    BY <2>2, ExpandIfNeededSizes, ExpandIfNeededOK DEF Same
  <2> HIDE DEF x
  <2>4. AddTo(x) \in {0, 1}
    BY DEF AddTo
  <2>5. SizesOK(Put(x, AddTo(x), With(x.ht[AddTo(x)], k)))
    BY <2>3, <2>4, PutSizes
  <2>6. SizesOK(d')
    BY <2>1, <2>3, <2>5, Zenon DEF Put
  <2>7. KeysOf(d) \subseteq KeysOf(d')
    BY <1>0, <1>2, AddStep
  <2> QED
    BY <1>0, <1>00, <2>1, <2>6, <2>7, ScanKept
<1>3. ASSUME NEW k \in Keys, dictFind(k) PROVE SizesOK(d') /\ ScanOK'
  <2>1. (d' = d \/ d' = _dictRehashStep(d)) /\ UNCHANGED scan
    BY <1>3 DEF dictFind
  <2>2. KeysOf(d') = KeysOf(d)
    BY <1>0, <1>3, FindStep
  <2> QED
    BY <1>0, <1>00, <1>a, <2>1, <2>2, ScanKept
<1>4. ASSUME NEW k \in (IF iter.open THEN iter.entry ELSE Keys), dictGenericDelete(k)
      PROVE  SizesOK(d') /\ ScanOK'
  <2>0. k \in Keys /\ (iter.open => k \in iter.entry)
    BY <1>00 DEF Iters
  <2>1. PICK x : /\ x = d \/ x = _dictRehashStep(d)
                 /\ \/ d' = x
                    \/ \E t \in Tables(x) : d' = Put(x, t, Without(x.ht[t], k))
    <3> DEFINE x == IF dictSize(d) = 0 THEN d ELSE _dictRehashStep(d)
               first(u) == /\ k \in Bucket(x, u, k)
                           /\ \A v \in Tables(x) : v < u => k \notin Bucket(x, v, k)
               t == CHOOSE u \in Tables(x) : first(u)
    <3>1. d' = IF ~Found(x, k) THEN x ELSE Put(x, t, Without(x.ht[t], k))
      BY <1>4, Zenon DEF dictGenericDelete, Put
    <3>2. x = d \/ x = _dictRehashStep(d)
      OBVIOUS
    <3> HIDE DEF x
    <3>3. ASSUME Found(x, k) PROVE t \in Tables(x)
      <4>1. \E u \in Tables(x) : first(u)
        <5>1. PICK u \in Tables(x) : k \in Bucket(x, u, k)
          BY <3>3 DEF Found
        <5>2. CASE 0 \in Tables(x) /\ k \in Bucket(x, 0, k)
          BY <5>2 DEF Tables
        <5>3. CASE ~(0 \in Tables(x) /\ k \in Bucket(x, 0, k))
          BY <5>1, <5>3 DEF Tables
        <5> QED
          BY <5>2, <5>3
      <4> HIDE DEF first
      <4> QED
        BY <4>1
    <3> HIDE DEF t
    <3> QED
      BY <3>1, <3>2, <3>3
  <2>2. SizesOK(x) /\ DictOK(x)
    BY <1>a, <2>1
  <2>3. SizesOK(d')
    <3>1. \A t \in Tables(x) : t \in {0, 1}
      BY DEF Tables
    <3> QED
      BY <2>1, <2>2, <3>1, PutSizes
  <2>4. KeysOf(d') = KeysOf(d) \ {k}
    BY <1>0, <1>4, <2>0, DeleteStep
  <2>5. PICK S : S = scan.missing \ {k}
    OBVIOUS
  <2>6. scan' = [scan EXCEPT !.missing = S]
    BY <1>4, <2>5 DEF dictGenericDelete
  <2>7. S \subseteq scan.missing /\ S \subseteq KeysOf(d')
    BY <1>00, <2>4, <2>5
  <2>8. ScanOK'
    BY <1>0, <2>6, <2>7, ScanForgets, Zenon
  <2> QED
    BY <2>3, <2>8
<1>5. CASE dictNext
  <2>1. d'.ht = d.ht /\ UNCHANGED scan
    BY <1>0, <1>5, NextStep DEF dictNext
  <2>2. KeysOf(d') = KeysOf(d) /\ SizesOK(d')
    BY <1>0, <2>1 DEF KeysOf, SizesOK
  <2> QED
    BY <1>0, <1>00, <2>1, <2>2, ScanKept
<1>6. CASE (~iter.open /\ dictGetSafeIterator) \/ dictReleaseIterator
  <2>1. KeysOf(d') = KeysOf(d) /\ UNCHANGED scan
    BY <1>0, <1>6, IteratorStep DEF dictGetSafeIterator, dictReleaseIterator
  <2>2. d' = d \/ d' = [d EXCEPT !.iterators = @ - 1]
    BY <1>6 DEF dictGetSafeIterator, dictReleaseIterator
  <2>3. d'.ht = d.ht
    BY <1>0, <2>2 DEF DictOK, Dicts
  <2>4. SizesOK(d')
    BY <1>0, <2>3 DEF SizesOK
  <2> QED
    BY <1>0, <1>00, <2>1, <2>4, ScanKept
<1>7. CASE Scan
  <2>1. d' = d
    BY <1>7 DEF Scan
  <2> QED
    BY <1>0, <1>7, <2>1, ScanStep
<1>8. CASE updateDictResizePolicy
  <2>1. d' = d /\ UNCHANGED scan
    BY <1>8 DEF updateDictResizePolicy
  <2> QED
    BY <1>0, <1>00, <2>1, ScanKept
<1>9. CASE dictEmpty
  <2>1. /\ d'.ht = Pair(EmptyTable, EmptyTable)
        /\ scan' = [scan EXCEPT !.missing = {}]
    BY <1>9 DEF dictEmpty
  <2>2. SizesOK(d')
    BY <2>1, EmptyTableOK DEF SizesOK, Pair
  <2>3. PICK S : S = {}
    OBVIOUS
  <2>4. /\ S \subseteq scan.missing /\ S \subseteq KeysOf(d')
        /\ scan' = [scan EXCEPT !.missing = S]
    BY <2>1, <2>3
  <2>5. ScanOK'
    BY <1>0, <2>4, ScanForgets, Zenon
  <2> QED
    BY <2>2, <2>5
<1>10. CASE ~iter.open /\ databasesCron
  <2> DEFINE x == IF htNeedsResize(d) THEN dictResize(d) ELSE d
  <2>1. (d' = x \/ \E b : d' = MoveBuckets(x, b)) /\ UNCHANGED scan
    BY <1>10 DEF databasesCron
  <2>2. SizesOK(x)
    BY <1>0, ExpandIfNeededSizes
  <2>3. DictOK(x)
    <3>1. d.ht[0].used \in Nat /\ InitialSize \in Nat
      BY <1>0, AskedSizes
    <3>2. PICK n \in Nat : dictResize(d) = d \/ dictResize(d) = dictExpand(d, n)
      BY <3>1 DEF dictResize
    <3>3. DictOK(dictExpand(d, n))
      BY <1>0, ExpandOK DEF Same
    <3> QED
      BY <1>0, <3>2, <3>3
  <2> HIDE DEF x
  <2>4. SizesOK(d')
    BY <2>1, <2>2, <2>3, MoveSizes
  <2>5. KeysOf(d') = KeysOf(d)
    BY <1>0, <1>10, CronStep
  <2> QED
    BY <1>0, <1>00, <2>1, <2>4, <2>5, ScanKept
<1>11. CASE dictGetRandomKey
  <2>1. (d' = d \/ d' = _dictRehashStep(d)) /\ UNCHANGED scan
    BY <1>11 DEF dictGetRandomKey
  <2>2. KeysOf(d') = KeysOf(d)
    BY <1>0, <1>11, RandomStep
  <2> QED
    BY <1>0, <1>00, <1>a, <2>1, <2>2, ScanKept
<1> QED
  BY <1>0, <1>1, <1>2, <1>3, <1>4, <1>5, <1>6, <1>7, <1>8, <1>9, <1>10, <1>11 DEF Next

\* A SCAN that is over has given its client every key that was in the dict from the
\* first call of dictScan() to the last, whatever was added, deleted, resized and
\* rehashed between the calls.
THEOREM ScanMissesNothing == Spec => []ScanComplete
<1>1. ScanInv /\ [Next]_vars => ScanInv'
  BY NextScan
<1>2. ScanInv => ScanComplete
  BY DEF ScanInv, ScanOK, ScanComplete
<1> QED
  BY <1>1, <1>2, InitScan, PTL DEF Spec
==============================================================================
