-------------------------------- MODULE Sums --------------------------------
(***************************************************************************)
(* Sums of a function over a finite set, as MapThenSumSet computes them:   *)
(* the fold equals a cardinality, from which the arithmetic follows.       *)
(***************************************************************************)
EXTENDS Integers, FiniteSets, FiniteSetsExt, FiniteSetTheorems, TLAPS

Total(f, S) == MapThenSumSet(LAMBDA x : f[x], S)

\* The units that add up to Total(f, S): f[x] of them for every x of S.
Units(f, S) == UNION {{x} \X (1..f[x]) : x \in S}

\* The element MapThenSumSet takes first.
Chosen(S) == CHOOSE x \in S : TRUE

\* The recursion of MapThenSumSet over the subsets of S.
SumsOver(f, S, g) ==
    g = [s \in SUBSET S |-> IF s = {} THEN 0
                            ELSE f[Chosen(s)] + g[s \ {Chosen(s)}]]

\* The interval 1..n has n elements.
LEMMA IntervalCount ==
    ASSUME NEW n \in Nat
    PROVE  IsFiniteSet(1..n) /\ Cardinality(1..n) = n
<1>1. 1 \in Int /\ n \in Int
  OBVIOUS
<1>2. (IF 1 > n THEN 0 ELSE n - 1 + 1) = n
  OBVIOUS
<1> QED
  BY <1>1, <1>2, FS_Interval

\* Disjoint finite sets are counted one after the other.
LEMMA DisjointCount ==
    ASSUME NEW S, NEW T, IsFiniteSet(S), IsFiniteSet(T), S \cap T = {}
    PROVE  Cardinality(S \cup T) = Cardinality(S) + Cardinality(T)
<1>1. PICK s \in Nat, t \in Nat : s = Cardinality(S) /\ t = Cardinality(T)
  BY FS_CardinalityType
<1>2. Cardinality(S \cup T) = s + t - Cardinality(S \cap T)
  BY <1>1, FS_Union
<1>3. Cardinality(S \cap T) = 0
  BY FS_EmptySet
<1>4. s + t - 0 = s + t
  BY <1>1
<1> QED
  BY <1>1, <1>2, <1>3, <1>4

LEMMA UnitsFinite ==
    ASSUME NEW f, NEW S, IsFiniteSet(S), \A x \in S : f[x] \in Nat
    PROVE  IsFiniteSet(Units(f, S)) /\ Cardinality(Units(f, S)) \in Nat
<1> DEFINE of(x) == {x} \X (1..f[x])
           parts == {of(x) : x \in S}
<1>1. \A x \in S : IsFiniteSet(of(x))
  <2> SUFFICES ASSUME NEW x \in S PROVE IsFiniteSet(of(x))
    OBVIOUS
  <2>1. f[x] \in Nat
    OBVIOUS
  <2>2. IsFiniteSet(1..f[x])
    BY <2>1, IntervalCount
  <2> QED
    BY <2>2, FS_Singleton, FS_Product
<1>2. IsFiniteSet(parts)
  <2> DEFINE h == [x \in S |-> of(x)]
  <2>1. h \in Surjection(S, parts)
    BY DEF Surjection
  <2> QED
    BY <2>1, FS_Surjection
<1>3. \A p \in parts : IsFiniteSet(p)
  BY <1>1
<1>4. IsFiniteSet(UNION parts)
  <2> HIDE DEF parts
  <2> QED
    BY <1>2, <1>3, FS_UNION
<1>5. IsFiniteSet(Units(f, S))
  BY <1>4 DEF Units
<1> QED
  BY <1>5, FS_CardinalityType

\* One more element adds its own units.
LEMMA UnitsOfOneMore ==
    ASSUME NEW f, NEW S, IsFiniteSet(S), \A x \in S : f[x] \in Nat, NEW x \in S
    PROVE  Cardinality(Units(f, S)) = f[x] + Cardinality(Units(f, S \ {x}))
<1> DEFINE mine == {x} \X (1..f[x])
           rest == Units(f, S \ {x})
<1>1. f[x] \in Nat
  OBVIOUS
<1>2. IsFiniteSet(mine) /\ Cardinality(mine) = f[x]
  <2>1. IsFiniteSet(1..f[x]) /\ Cardinality(1..f[x]) = f[x]
    BY <1>1, IntervalCount
  <2>2. IsFiniteSet({x}) /\ Cardinality({x}) = 1
    BY FS_Singleton
  <2>3. 1 * f[x] = f[x]
    BY <1>1
  <2> QED
    BY <2>1, <2>2, <2>3, FS_Product
<1>3. IsFiniteSet(rest) /\ Cardinality(rest) \in Nat
  <2>1. IsFiniteSet(S \ {x})
    BY FS_RemoveElement
  <2> QED
    BY <2>1, UnitsFinite
<1>4. Units(f, S) = mine \cup rest
  BY DEF Units
<1>5. mine \cap rest = {}
  BY DEF Units
<1>6. Cardinality(mine \cup rest) = Cardinality(mine) + Cardinality(rest)
  <2> HIDE DEF mine, rest
  <2> QED
    BY <1>2, <1>3, <1>5, DisjointCount
<1> QED
  BY <1>2, <1>4, <1>6

\* The fold of MapThenSumSet counts the units.
LEMMA TotalIsCount ==
    ASSUME NEW f, NEW S, IsFiniteSet(S), \A x \in S : f[x] \in Nat
    PROVE  Total(f, S) = Cardinality(Units(f, S))
<1> DEFINE count == [s \in SUBSET S |-> Cardinality(Units(f, s))]
           iter == CHOOSE g : SumsOver(f, S, g)
<1>0. \A s \in SUBSET S : s # {} => Chosen(s) \in s
  BY DEF Chosen
<1>1. \A s \in SUBSET S : count[s] = IF s = {} THEN 0
                            ELSE f[Chosen(s)] + count[s \ {Chosen(s)}]
  <2> SUFFICES ASSUME NEW s \in SUBSET S
               PROVE  count[s] = IF s = {} THEN 0
                                 ELSE f[Chosen(s)] + count[s \ {Chosen(s)}]
    OBVIOUS
  <2>1. IsFiniteSet(s) /\ \A x \in s : f[x] \in Nat
    BY FS_Subset
  <2>2. CASE s = {}
    <3>1. Units(f, s) = {}
      BY <2>2 DEF Units
    <3> QED
      BY <2>2, <3>1, FS_EmptySet
  <2>3. CASE s # {}
    <3>1. Chosen(s) \in s /\ s \ {Chosen(s)} \in SUBSET S
      BY <1>0, <2>3
    <3> QED
      BY <2>1, <2>3, <3>1, UnitsOfOneMore
  <2> QED
    BY <2>2, <2>3
<1>2. SumsOver(f, S, count)
  <2> DEFINE body(s) == IF s = {} THEN 0 ELSE f[Chosen(s)] + count[s \ {Chosen(s)}]
  <2>1. count = [s \in SUBSET S |-> count[s]]
    OBVIOUS
  <2>2. \A s \in SUBSET S : count[s] = body(s)
    BY <1>1
  <2> HIDE DEF count, body
  <2>3. count = [s \in SUBSET S |-> body(s)]
    BY <2>1, <2>2
  <2> QED
    BY <2>3 DEF SumsOver, body
<1>3. SumsOver(f, S, iter)
  BY <1>2
<1>4. Total(f, S) = iter[S]
  BY DEF Total, MapThenSumSet, MapThenFoldSet, SumsOver, Chosen
<1> HIDE DEF iter
<1>5. \A s \in SUBSET S : iter[s] = IF s = {} THEN 0
                            ELSE f[Chosen(s)] + iter[s \ {Chosen(s)}]
  BY <1>3 DEF SumsOver
<1> HIDE DEF count
<1> DEFINE wrong == {s \in SUBSET S : iter[s] # count[s]}
<1>6. wrong = {}
  <2> SUFFICES ASSUME wrong # {} PROVE FALSE
    OBVIOUS
  <2>1. FiniteSubsetsOf(S) = SUBSET S
    BY FS_FiniteSubsetsOfFinite
  <2>2. IsWellFoundedOn(StrictSubsetOrdering(S), SUBSET S)
    BY <2>1, FS_StrictSubsetOrderingWellFounded
  <2>3. PICK s \in wrong : \A r \in wrong : <<r, s>> \notin StrictSubsetOrdering(S)
    <3>1. wrong \subseteq SUBSET S
      OBVIOUS
    <3> HIDE DEF wrong
    <3> QED
      BY <2>2, <3>1, WFMin
  <2>4. s # {}
    BY <1>1, <1>5
  <2>5. Chosen(s) \in s /\ s \ {Chosen(s)} \in SUBSET S
    BY <1>0, <2>4
  <2>6. <<s \ {Chosen(s)}, s>> \in StrictSubsetOrdering(S)
    BY <2>5 DEF StrictSubsetOrdering
  <2>7. iter[s \ {Chosen(s)}] = count[s \ {Chosen(s)}]
    BY <2>3, <2>5, <2>6
  <2> QED
    BY <1>1, <1>5, <2>4, <2>7
<1>7. iter[S] = count[S]
  BY <1>6
<1> QED
  BY <1>4, <1>7 DEF count

\* A sum is a natural number, 0 over the empty set.
LEMMA TotalType ==
    ASSUME NEW f, NEW S, IsFiniteSet(S), \A x \in S : f[x] \in Nat
    PROVE  Total(f, S) \in Nat
BY TotalIsCount, UnitsFinite

LEMMA TotalOfNone == \A f : Total(f, {}) = 0
<1> TAKE f
<1>1. Units(f, {}) = {}
  BY DEF Units
<1> QED
  BY <1>1, TotalIsCount, FS_EmptySet

\* Sums over disjoint sets add up.
LEMMA TotalOfUnion ==
    ASSUME NEW f, NEW S, NEW T, IsFiniteSet(S), IsFiniteSet(T), S \cap T = {},
           \A x \in S \cup T : f[x] \in Nat
    PROVE  Total(f, S \cup T) = Total(f, S) + Total(f, T)
<1>1. IsFiniteSet(S \cup T)
  BY FS_Union
<1>2. Units(f, S \cup T) = Units(f, S) \cup Units(f, T)
  BY DEF Units
<1>3. Units(f, S) \cap Units(f, T) = {}
  BY DEF Units
<1>4. /\ IsFiniteSet(Units(f, S)) /\ Cardinality(Units(f, S)) \in Nat
      /\ IsFiniteSet(Units(f, T)) /\ Cardinality(Units(f, T)) \in Nat
  BY UnitsFinite
<1>5. Cardinality(Units(f, S \cup T)) = Cardinality(Units(f, S)) + Cardinality(Units(f, T))
  BY <1>2, <1>3, <1>4, DisjointCount
<1> QED
  BY <1>1, <1>5, TotalIsCount

\* A sum grows with its set.
LEMMA TotalOfSubset ==
    ASSUME NEW f, NEW S, IsFiniteSet(S), \A x \in S : f[x] \in Nat, NEW T \in SUBSET S
    PROVE  Total(f, T) <= Total(f, S) /\ Total(f, S) = Total(f, T) + Total(f, S \ T)
<1>1. IsFiniteSet(T) /\ IsFiniteSet(S \ T) /\ T \cup (S \ T) = S
  BY FS_Subset
<1>2. Total(f, T) \in Nat /\ Total(f, S \ T) \in Nat
  BY <1>1, TotalType
<1>3. Total(f, S) = Total(f, T) + Total(f, S \ T)
  BY <1>1, TotalOfUnion
<1> QED
  BY <1>2, <1>3

\* A sum over one element is the element's value.
LEMMA TotalOfOne ==
    ASSUME NEW f, NEW x, f[x] \in Nat
    PROVE  Total(f, {x}) = f[x]
<1>1. IsFiniteSet({x}) /\ {x} \ {x} = {}
  BY FS_Singleton
<1>2. Cardinality(Units(f, {x})) = f[x] + Cardinality(Units(f, {}))
  BY <1>1, UnitsOfOneMore
<1>3. Total(f, {}) = 0 /\ Total(f, {}) = Cardinality(Units(f, {}))
  BY TotalOfNone, TotalIsCount, FS_EmptySet
<1> QED
  BY <1>1, <1>2, <1>3, TotalIsCount

-----------------------------------------------------------------------------
(* Induction over a finite set, for a property given as the set of the     *)
(* subsets that have it.                                                   *)

LEMMA SubsetInduction ==
    ASSUME NEW S, IsFiniteSet(S), NEW Good, {} \in Good,
           \A s \in SUBSET S : \A x \in S \ s : s \in Good => s \cup {x} \in Good
    PROVE  S \in Good
<1> DEFINE bad == {s \in SUBSET S : s \notin Good}
<1> SUFFICES ASSUME bad # {} PROVE FALSE
  OBVIOUS
<1>1. IsWellFoundedOn(StrictSubsetOrdering(S), SUBSET S)
  BY FS_FiniteSubsetsOfFinite, FS_StrictSubsetOrderingWellFounded
<1>2. PICK s \in bad : \A r \in bad : <<r, s>> \notin StrictSubsetOrdering(S)
  <2>1. bad \subseteq SUBSET S
    OBVIOUS
  <2> HIDE DEF bad
  <2> QED
    BY <1>1, <2>1, WFMin
<1>3. PICK x \in s : TRUE
  OBVIOUS
<1>4. <<s \ {x}, s>> \in StrictSubsetOrdering(S)
  BY <1>3 DEF StrictSubsetOrdering
<1>5. s \ {x} \in Good
  BY <1>2, <1>4
<1>6. (s \ {x}) \cup {x} = s /\ x \in S \ (s \ {x}) /\ s \ {x} \in SUBSET S
  BY <1>3
<1>7. s \in Good
  BY <1>5, <1>6
<1> QED
  BY <1>7

LEMMA TotalOfOneMore ==
    ASSUME NEW f, NEW S, IsFiniteSet(S), NEW x, x \notin S,
           \A y \in S \cup {x} : f[y] \in Nat
    PROVE  Total(f, S \cup {x}) = Total(f, S) + f[x]
<1>1. IsFiniteSet({x}) /\ S \cap {x} = {}
  BY FS_Singleton
<1>2. f[x] \in Nat
  OBVIOUS
<1>3. Total(f, S \cup {x}) = Total(f, S) + Total(f, {x})
  BY <1>1, TotalOfUnion
<1>4. Total(f, {x}) = f[x]
  BY <1>2, TotalOfOne
<1> QED
  BY <1>3, <1>4

\* Sums of two functions add up argument by argument.
LEMMA TotalOfSums ==
    ASSUME NEW S, IsFiniteSet(S), NEW f, NEW g, NEW h,
           \A x \in S : f[x] \in Nat /\ g[x] \in Nat /\ h[x] = f[x] + g[x]
    PROVE  Total(h, S) = Total(f, S) + Total(g, S)
<1> DEFINE Good == {s \in SUBSET S : Total(h, s) = Total(f, s) + Total(g, s)}
<1>1. {} \in Good
  BY TotalOfNone
<1>2. ASSUME NEW s \in SUBSET S, NEW x \in S \ s, s \in Good
      PROVE  s \cup {x} \in Good
  <2>1. IsFiniteSet(s)
    BY FS_Subset
  <2>2. \A y \in s \cup {x} : f[y] \in Nat /\ g[y] \in Nat /\ h[y] \in Nat
    OBVIOUS
  <2>3. /\ Total(f, s \cup {x}) = Total(f, s) + f[x]
        /\ Total(g, s \cup {x}) = Total(g, s) + g[x]
        /\ Total(h, s \cup {x}) = Total(h, s) + h[x]
    BY <2>1, <2>2, TotalOfOneMore
  <2>4. PICK a \in Nat, b \in Nat : a = Total(f, s) /\ b = Total(g, s)
    BY <2>1, <2>2, TotalType
  <2>5. PICK c \in Nat, d \in Nat : c = f[x] /\ d = g[x] /\ h[x] = c + d
    BY <2>2
  <2>6. Total(h, s) = a + b
    BY <1>2, <2>4
  <2>7. (a + b) + (c + d) = (a + c) + (b + d)
    OBVIOUS
  <2>8. Total(h, s \cup {x}) = Total(f, s \cup {x}) + Total(g, s \cup {x})
    BY <2>3, <2>4, <2>5, <2>6, <2>7
  <2> QED
    BY <2>8
<1>3. S \in Good
  <2> HIDE DEF Good
  <2> QED
    BY <1>1, <1>2, SubsetInduction
<1> QED
  BY <1>3

\* Counting the elements of T by their key: every element has one.
LEMMA TotalOfCounts ==
    ASSUME NEW T, IsFiniteSet(T), NEW S, IsFiniteSet(S), NEW key \in [T -> S], NEW n,
           \A c \in S : n[c] = Cardinality({i \in T : key[i] = c})
    PROVE  Total(n, S) = Cardinality(T)
<1> DEFINE keyed(s) == {i \in T : key[i] \in s}
           Good == {s \in SUBSET S : Total(n, s) = Cardinality(keyed(s))}
<1>0. \A s : IsFiniteSet(keyed(s))
  BY FS_Subset
<1>1. {} \in Good
  <2>1. keyed({}) = {}
    OBVIOUS
  <2>2. Total(n, {}) = Cardinality(keyed({}))
    BY <2>1, TotalOfNone, FS_EmptySet
  <2> QED
    BY <2>2
<1>2. ASSUME NEW s \in SUBSET S, NEW x \in S \ s, s \in Good
      PROVE  s \cup {x} \in Good
  <2> DEFINE mine == {i \in T : key[i] = x}
  <2>1. IsFiniteSet(s) /\ \A y \in s \cup {x} : n[y] \in Nat
    <3>1. \A c \in S : IsFiniteSet({i \in T : key[i] = c})
      BY FS_Subset
    <3> QED
      BY <3>1, FS_Subset, FS_CardinalityType
  <2>2. Total(n, s \cup {x}) = Total(n, s) + n[x]
    BY <2>1, TotalOfOneMore
  <2>3. keyed(s \cup {x}) = keyed(s) \cup mine /\ keyed(s) \cap mine = {}
    OBVIOUS
  <2>4. IsFiniteSet(keyed(s)) /\ IsFiniteSet(mine)
    BY FS_Subset
  <2>5. Cardinality(keyed(s \cup {x})) = Cardinality(keyed(s)) + Cardinality(mine)
    <3> HIDE DEF keyed, mine
    <3> QED
      BY <2>3, <2>4, DisjointCount
  <2>6. Total(n, s) = Cardinality(keyed(s)) /\ n[x] = Cardinality(mine)
    BY <1>2
  <2>7. Total(n, s \cup {x}) = Cardinality(keyed(s \cup {x}))
    BY <2>2, <2>5, <2>6
  <2> QED
    BY <2>7
<1>3. S \in Good
  <2> HIDE DEF Good
  <2> QED
    BY <1>1, <1>2, SubsetInduction
<1>4. keyed(S) = T
  OBVIOUS
<1> QED
  BY <1>3, <1>4

\* Elements that count for nothing may be left out.
LEMMA TotalOfPositive ==
    ASSUME NEW S, IsFiniteSet(S), NEW f, \A x \in S : f[x] \in Nat
    PROVE  Total(f, {x \in S : f[x] > 0}) = Total(f, S)
<1> DEFINE T == {x \in S : f[x] > 0}
<1>1. IsFiniteSet(T) /\ \A x \in T : f[x] \in Nat
  BY FS_Subset
<1>2. Units(f, T) = Units(f, S)
  <2>1. \A x \in S : f[x] \in Nat /\ (x \notin T => 1..f[x] = {})
    OBVIOUS
  <2> QED
    BY <2>1 DEF Units
<1> QED
  BY <1>1, <1>2, TotalIsCount

\* A sum of ones counts.
LEMMA TotalOfOnes ==
    ASSUME NEW S, IsFiniteSet(S), NEW f, \A x \in S : f[x] = 1
    PROVE  Total(f, S) = Cardinality(S)
<1> DEFINE key == [x \in S |-> x]
<1>1. key \in [S -> S]
  OBVIOUS
<1>2. \A c \in S : f[c] = Cardinality({x \in S : key[x] = c})
  <2> TAKE c \in S
  <2>1. {x \in S : key[x] = c} = {c}
    OBVIOUS
  <2>2. Cardinality({c}) = 1
    BY FS_Singleton
  <2> QED
    BY <2>1, <2>2
<1> HIDE DEF key
<1> QED
  BY <1>1, <1>2, TotalOfCounts

=============================================================================
