----------------------------- MODULE SnowLemmas -----------------------------
(***************************************************************************)
(* What the proofs about the snowman chains rest on: numbers and sums, the *)
(* tree of blocks, and the tries that snowflake trees stand for.  Instead  *)
(* of induction over bits, blocks or the size of a set, a least or         *)
(* greatest counterexample is taken.                                       *)
(***************************************************************************)
EXTENDS BlockTree, FiniteSetTheorems, WellFoundedInduction, TLAPS

-----------------------------------------------------------------------------
(* Numbers and sums. *)

(* A nonempty set of naturals has a least element. *)
LEMMA MinExists ==
  ASSUME NEW T \in SUBSET Nat, T # {}
  PROVE  \E i \in T : \A j \in T : i <= j
<1>1. PICK x \in T : \A y \in T : ~(<<y, x>> \in OpToRel(<, Nat))
  BY Zenon, NatLessThanWellFounded, WFMin
<1>2. ASSUME NEW y \in T PROVE x <= y
  <2>1. ~(<<y, x>> \in OpToRel(<, Nat))
    BY Zenon, <1>1
  <2>2. ~(y < x)
    BY <2>1 DEF OpToRel
  <2> QED BY <2>2
<1> QED BY <1>2

(* A nonempty set of naturals below a bound has a greatest element. *)
LEMMA MaxExists ==
  ASSUME NEW k \in Nat, NEW H \in SUBSET (0..k), H # {}
  PROVE  \E i \in H : \A j \in H : j <= i
<1> DEFINE T == {k - i : i \in H}
<1>1. T \in SUBSET Nat /\ T # {}
  <2>1. ASSUME NEW i \in H PROVE k - i \in Nat
    OBVIOUS
  <2>2. PICK i \in H : TRUE
    BY Zenon
  <2>3. k - i \in T
    OBVIOUS
  <2> QED BY <2>1, <2>3
<1> HIDE DEF T
<1>2. PICK m \in T : \A n \in T : m <= n
  BY <1>1, MinExists
<1>3. PICK i \in H : m = k - i
  BY <1>2 DEF T
<1>4. ASSUME NEW j \in H PROVE j <= i
  <2>1. k - j \in T
    BY DEF T
  <2>2. m <= k - j
    BY <2>1, <1>2
  <2> QED BY <2>2, <1>3
<1> QED BY <1>4

(* A nonempty set of finite sets has a member of which no proper subset is *)
(* a member.                                                               *)
LEMMA SmallestSet ==
  ASSUME NEW C, C # {}, \A S \in C : IsFiniteSet(S)
  PROVE  \E S \in C : \A T \in C : T \subseteq S => T = S
<1> DEFINE sizes == {Cardinality(S) : S \in C}
<1>1. sizes \in SUBSET Nat /\ sizes # {}
  BY FS_CardinalityType
<1> HIDE DEF sizes
<1>2. PICK n \in sizes : \A m \in sizes : n <= m
  BY <1>1, MinExists
<1>3. PICK S \in C : n = Cardinality(S)
  BY <1>2 DEF sizes
<1>4. ASSUME NEW T \in C, T \subseteq S PROVE T = S
  <2>1. Cardinality(S) <= Cardinality(T)
    BY <1>2, <1>3 DEF sizes
  <2>2. Cardinality(T) <= Cardinality(S) /\ (Cardinality(S) = Cardinality(T) => S = T)
    BY <1>4, FS_Subset
  <2>3. Cardinality(S) \in Nat /\ Cardinality(T) \in Nat
    BY FS_CardinalityType
  <2> QED BY <2>1, <2>2, <2>3
<1> QED BY <1>4

-----------------------------------------------------------------------------
(* Sums.  IsSum(f, S, g) says that g solves the equation by which          *)
(* MapThenSumSet is defined.                                               *)

Pick(s) == CHOOSE x \in s : TRUE

IsSum(f, S, g) ==
  g = [s \in SUBSET S |-> IF s = {} THEN 0 ELSE f[Pick(s)] + g[s \ {Pick(s)}]]

Sum(f, S) == MapThenSumSet(LAMBDA x : f[x], S)

(* What Sum is: the value of a solution, if there is one. *)
LEMMA SumIs ==
  ASSUME NEW f, NEW S
  PROVE  Sum(f, S) = (CHOOSE g : IsSum(f, S, g))[S]
BY DEF Sum, MapThenSumSet, MapThenFoldSet, IsSum, Pick

(* Two solutions agree where both are defined. *)
LEMMA SumUnique ==
  ASSUME NEW f, NEW S, NEW T, NEW g, NEW h, IsFiniteSet(S),
         S \subseteq T, IsSum(f, S, g), IsSum(f, T, h)
  PROVE  \A s \in SUBSET S : g[s] = h[s]
<1> DEFINE C == {s \in SUBSET S : g[s] # h[s]}
<1>1. SUFFICES ASSUME C # {} PROVE FALSE
  OBVIOUS
<1>2. \A s \in C : IsFiniteSet(s)
  BY FS_Subset
<1>3. PICK s \in C : \A t \in C : t \subseteq s => t = s
  <2> HIDE DEF C
  <2> QED BY <1>1, <1>2, SmallestSet
<1> DEFINE t == s \ {Pick(s)}
<1>4. s # {}
  BY <1>3 DEF IsSum
<1>5. Pick(s) \in s
  BY <1>4 DEF Pick
<1>6. g[t] = h[t]
  BY <1>3, <1>5
<1>7. g[s] = f[Pick(s)] + g[t] /\ h[s] = f[Pick(s)] + h[t]
  BY Zenon, <1>4 DEF IsSum
<1> QED BY <1>3, <1>6, <1>7

(* There is a solution for a finite set. *)
LEMMA SumExists ==
  ASSUME NEW f, NEW S, IsFiniteSet(S)
  PROVE  \E g : IsSum(f, S, g)
<1> DEFINE C == {s \in SUBSET S : ~\E g : IsSum(f, s, g)}
<1>1. SUFFICES ASSUME C # {} PROVE FALSE
  OBVIOUS
<1>2. \A s \in C : IsFiniteSet(s)
  BY FS_Subset
<1>3. PICK s \in C : \A t \in C : t \subseteq s => t = s
  <2> HIDE DEF C
  <2> QED BY <1>1, <1>2, SmallestSet
<1> DEFINE Sol(u) == CHOOSE g : IsSum(f, u, g)
           h == [u \in SUBSET s |-> IF u = {} THEN 0
                                    ELSE f[Pick(u)] + Sol(u \ {Pick(u)})[u \ {Pick(u)}]]
<1>4. ASSUME NEW u \in SUBSET s, u # s PROVE IsSum(f, u, Sol(u)) /\ IsFiniteSet(u)
  BY <1>2, <1>3, <1>4, FS_Subset
<1>5. ASSUME NEW u \in SUBSET s, u # s PROVE Sol(u)[u] = h[u]
  <2> DEFINE v == u \ {Pick(u)}
  <2>1. IsSum(f, u, Sol(u)) /\ IsSum(f, v, Sol(v)) /\ IsFiniteSet(v)
    <3>1. v # s
      BY <1>5
    <3> QED BY Zenon, <1>4, <1>5, <3>1
  <2>2. Sol(v)[v] = Sol(u)[v]
    <3> HIDE DEF Sol, h
    <3>1. v \subseteq u /\ v \in SUBSET v
      OBVIOUS
    <3> QED BY <2>1, <3>1, SumUnique
  <2>3. Sol(u)[u] = IF u = {} THEN 0 ELSE f[Pick(u)] + Sol(u)[v]
    <3> HIDE DEF Sol, h
    <3> QED BY Zenon, <2>1 DEF IsSum
  <2> HIDE DEF Sol
  <2> QED BY <2>2, <2>3
<1>6. ASSUME NEW u \in SUBSET s, u # {}
      PROVE  h[u] = f[Pick(u)] + h[u \ {Pick(u)}]
  <2>1. Pick(u) \in u
    BY <1>6 DEF Pick
  <2>2. u \ {Pick(u)} \in SUBSET s /\ u \ {Pick(u)} # s
    BY <2>1
  <2>3. Sol(u \ {Pick(u)})[u \ {Pick(u)}] = h[u \ {Pick(u)}]
    BY Zenon, <1>5, <2>2
  <2> HIDE DEF Sol
  <2> QED BY <1>6, <2>3
<1>7. IsSum(f, s, h)
  <2>1. h[{}] = 0
    OBVIOUS
  <2>2. h = [u \in SUBSET s |-> h[u]]
    OBVIOUS
  <2> HIDE DEF h
  <2> QED BY Zenon, <1>6, <2>1, <2>2 DEF IsSum
<1> QED BY <1>3, <1>7

(* The equations of a sum: of nothing, and of one element and the rest. *)
LEMMA SumEmpty ==
  ASSUME NEW f
  PROVE  Sum(f, {}) = 0
<1> DEFINE g == CHOOSE g : IsSum(f, {}, g)
<1>1. IsSum(f, {}, g)
  BY SumExists, FS_EmptySet
<1> HIDE DEF g
<1>2. g[{}] = 0
  BY <1>1 DEF IsSum
<1> QED BY <1>2, SumIs DEF g

(* A sum is one term and the rest. *)
LEMMA SumPick ==
  ASSUME NEW f, NEW S, IsFiniteSet(S), S # {}
  PROVE  /\ Pick(S) \in S
         /\ Sum(f, S) = f[Pick(S)] + Sum(f, S \ {Pick(S)})
<1> DEFINE T == S \ {Pick(S)}
           g == CHOOSE g : IsSum(f, S, g)
           h == CHOOSE h : IsSum(f, T, h)
<1>1. IsFiniteSet(T)
  BY FS_Subset
<1>2. IsSum(f, S, g) /\ IsSum(f, T, h)
  BY <1>1, SumExists
<1> HIDE DEF g, h
<1>3. g[T] = h[T]
  BY <1>1, <1>2, SumUnique
<1>4. g[S] = f[Pick(S)] + g[T]
  BY Zenon, <1>2 DEF IsSum
<1>5. Sum(f, S) = g[S] /\ Sum(f, T) = h[T]
  BY SumIs DEF g, h
<1>6. Pick(S) \in S
  BY DEF Pick
<1> QED BY <1>3, <1>4, <1>5, <1>6

(* A sum of naturals is one. *)
LEMMA SumNat ==
  ASSUME NEW f, NEW S, IsFiniteSet(S), \A x \in S : f[x] \in Nat
  PROVE  Sum(f, S) \in Nat
<1> DEFINE C == {s \in SUBSET S : Sum(f, s) \notin Nat}
<1>1. SUFFICES ASSUME C # {} PROVE FALSE
  OBVIOUS
<1>2. \A s \in C : IsFiniteSet(s)
  BY FS_Subset
<1>3. PICK s \in C : \A t \in C : t \subseteq s => t = s
  <2> HIDE DEF C
  <2> QED BY <1>1, <1>2, SmallestSet
<1>4. s # {}
  <2> SUFFICES ASSUME s = {} PROVE Sum(f, s) \in Nat
    BY <1>3
  <2>1. Sum(f, s) = 0
    BY SumEmpty
  <2> QED BY <2>1
<1>5. Pick(s) \in s /\ Sum(f, s) = f[Pick(s)] + Sum(f, s \ {Pick(s)})
  BY <1>2, <1>4, SumPick
<1>6. Sum(f, s \ {Pick(s)}) \in Nat
  BY <1>3, <1>5
<1>7. f[Pick(s)] \in Nat
  BY <1>5
<1> QED BY <1>3, <1>5, <1>6, <1>7

(* Any element can be taken out first. *)
LEMMA SumRemove ==
  ASSUME NEW f, NEW S, IsFiniteSet(S), \A x \in S : f[x] \in Nat, NEW x \in S
  PROVE  Sum(f, S) = f[x] + Sum(f, S \ {x})
<1> DEFINE C == {s \in SUBSET S : \E y \in s : Sum(f, s) # f[y] + Sum(f, s \ {y})}
<1>1. SUFFICES ASSUME C # {} PROVE FALSE
  BY Zenon
<1>2. \A s \in C : IsFiniteSet(s)
  BY FS_Subset
<1>3. PICK s \in C : \A t \in C : t \subseteq s => t = s
  <2> HIDE DEF C
  <2> QED BY <1>1, <1>2, SmallestSet
<1>4. PICK y \in s : Sum(f, s) # f[y] + Sum(f, s \ {y})
  BY <1>3
<1> DEFINE z == Pick(s)
           rest == s \ {y, z}
<1>5. z \in s /\ Sum(f, s) = f[z] + Sum(f, s \ {z})
  BY <1>2, <1>4, SumPick
<1>6. y # z
  BY <1>4, <1>5
<1>7. \A t \in SUBSET s : t # s => \A w \in t : Sum(f, t) = f[w] + Sum(f, t \ {w})
  BY Zenon, <1>3
<1> HIDE DEF C, z
<1>8. Sum(f, s \ {z}) = f[y] + Sum(f, (s \ {z}) \ {y})
  BY <1>5, <1>6, <1>7
<1>9. Sum(f, s \ {y}) = f[z] + Sum(f, (s \ {y}) \ {z})
  BY <1>5, <1>6, <1>7
<1>10. (s \ {z}) \ {y} = rest /\ (s \ {y}) \ {z} = rest
  OBVIOUS
<1>11. s \subseteq S
  BY <1>3 DEF C
<1>12. f[y] \in Nat /\ f[z] \in Nat /\ Sum(f, rest) \in Nat
  <2>1. IsFiniteSet(rest)
    BY <1>11, FS_Subset
  <2>2. \A w \in rest : f[w] \in Nat
    BY <1>11
  <2>3. Sum(f, rest) \in Nat
    BY <2>1, <2>2, SumNat
  <2> QED BY <1>5, <1>11, <2>3
<1>13. Sum(f, s) = f[y] + Sum(f, s \ {y})
  <2>1. Sum(f, s \ {z}) = f[y] + Sum(f, rest) /\ Sum(f, s \ {y}) = f[z] + Sum(f, rest)
    BY <1>8, <1>9, <1>10
  <2> HIDE DEF rest
  <2> QED BY <1>5, <1>12, <2>1
<1> QED BY <1>4, <1>13

(* One more element adds its value. *)
LEMMA SumAdd ==
  ASSUME NEW f, NEW S, IsFiniteSet(S), NEW x, x \notin S,
         \A y \in S \cup {x} : f[y] \in Nat
  PROVE  Sum(f, S \cup {x}) = f[x] + Sum(f, S)
<1>1. IsFiniteSet(S \cup {x}) /\ x \in S \cup {x} /\ (S \cup {x}) \ {x} = S
  BY FS_AddElement
<1> QED BY <1>1, SumRemove

(* The sum over two sets that have nothing in common. *)
LEMMA SumUnion ==
  ASSUME NEW f, NEW S, NEW T, IsFiniteSet(S), IsFiniteSet(T), S \cap T = {},
         \A x \in S \cup T : f[x] \in Nat
  PROVE  Sum(f, S \cup T) = Sum(f, S) + Sum(f, T)
<1> DEFINE C == {s \in SUBSET S : Sum(f, s \cup T) # Sum(f, s) + Sum(f, T)}
<1>1. SUFFICES ASSUME C # {} PROVE FALSE
  OBVIOUS
<1>2. \A s \in C : IsFiniteSet(s)
  BY FS_Subset
<1>3. PICK s \in C : \A t \in C : t \subseteq s => t = s
  <2> HIDE DEF C
  <2> QED BY <1>1, <1>2, SmallestSet
<1>0. Sum(f, T) \in Nat
  BY SumNat
<1>4. s # {}
  <2> SUFFICES ASSUME s = {} PROVE Sum(f, s \cup T) = Sum(f, s) + Sum(f, T)
    BY <1>3
  <2>1. Sum(f, s) = 0 /\ s \cup T = T
    BY SumEmpty
  <2> QED BY <1>0, <2>1
<1>5. PICK x \in s : TRUE
  BY <1>4
<1> DEFINE t == s \ {x}
<1>6. Sum(f, t \cup T) = Sum(f, t) + Sum(f, T)
  BY <1>3, <1>5
<1>7. s \subseteq S /\ IsFiniteSet(t) /\ IsFiniteSet(t \cup T) /\ IsFiniteSet(s)
  BY Zenon, <1>2, <1>3, FS_Subset, FS_Union
<1>8. Sum(f, s) = f[x] + Sum(f, t)
  BY <1>7, SumRemove
<1>9. Sum(f, s \cup T) = f[x] + Sum(f, t \cup T)
  <2>1. s \cup T = (t \cup T) \cup {x} /\ x \notin t \cup T
    BY <1>7
  <2> QED BY <1>7, <2>1, SumAdd
<1>10. f[x] \in Nat /\ Sum(f, t) \in Nat
  BY <1>7, SumNat
<1> QED BY <1>0, <1>3, <1>6, <1>8, <1>9, <1>10

(* A sum depends on nothing but the values, and grows with the set. *)
LEMMA SumCongruent ==
  ASSUME NEW f, NEW g, NEW S, IsFiniteSet(S),
         \A x \in S : f[x] \in Nat /\ f[x] = g[x]
  PROVE  Sum(f, S) = Sum(g, S)
<1> DEFINE C == {s \in SUBSET S : Sum(f, s) # Sum(g, s)}
<1>1. SUFFICES ASSUME C # {} PROVE FALSE
  OBVIOUS
<1>2. \A s \in C : IsFiniteSet(s)
  BY FS_Subset
<1>3. PICK s \in C : \A t \in C : t \subseteq s => t = s
  <2> HIDE DEF C
  <2> QED BY <1>1, <1>2, SmallestSet
<1>4. s # {}
  BY Zenon, <1>3, SumEmpty
<1>5. /\ Pick(s) \in s
      /\ Sum(f, s) = f[Pick(s)] + Sum(f, s \ {Pick(s)})
      /\ Sum(g, s) = g[Pick(s)] + Sum(g, s \ {Pick(s)})
  BY <1>2, <1>4, SumPick
<1>6. Sum(f, s \ {Pick(s)}) = Sum(g, s \ {Pick(s)})
  BY <1>3, <1>5
<1> QED BY <1>3, <1>5, <1>6

(* A sum over a larger set is no smaller. *)
LEMMA SumMonotonic ==
  ASSUME NEW f, NEW S, NEW T, IsFiniteSet(T), S \subseteq T, \A x \in T : f[x] \in Nat
  PROVE  Sum(f, S) <= Sum(f, T)
<1>1. IsFiniteSet(S) /\ IsFiniteSet(T \ S)
  BY FS_Subset
<1>2. S \cup (T \ S) = T /\ S \cap (T \ S) = {}
  OBVIOUS
<1>3. Sum(f, T) = Sum(f, S) + Sum(f, T \ S)
  BY <1>1, <1>2, SumUnion
<1>4. Sum(f, S) \in Nat /\ Sum(f, T \ S) \in Nat
  BY <1>1, SumNat
<1> QED BY <1>3, <1>4

(* A sum that is not zero has an element, and one that is not zero. *)
LEMMA SumPositive ==
  ASSUME NEW f, NEW S, IsFiniteSet(S), \A x \in S : f[x] \in Nat, Sum(f, S) # 0
  PROVE  \E x \in S : f[x] > 0
<1> SUFFICES ASSUME \A x \in S : f[x] = 0 PROVE FALSE
  OBVIOUS
<1> DEFINE C == {s \in SUBSET S : Sum(f, s) # 0}
<1>1. C # {}
  OBVIOUS
<1>2. \A s \in C : IsFiniteSet(s)
  BY FS_Subset
<1>3. PICK s \in C : \A t \in C : t \subseteq s => t = s
  <2> HIDE DEF C
  <2> QED BY <1>1, <1>2, SmallestSet
<1>4. s # {}
  BY Zenon, <1>3, SumEmpty
<1>5. Pick(s) \in s /\ Sum(f, s) = f[Pick(s)] + Sum(f, s \ {Pick(s)})
  BY Zenon, <1>2, <1>4, SumPick
<1>6. Sum(f, s \ {Pick(s)}) = 0
  BY <1>3, <1>5
<1>7. f[Pick(s)] = 0
  BY <1>3, <1>5
<1> QED BY <1>3, <1>5, <1>6, <1>7

(* A sum over sets that have nothing in common is one over all of them. *)
LEMMA SumOfSums ==
  ASSUME NEW v, NEW D, IsFiniteSet(D), \A x \in D : v[x] \in Nat,
         NEW S, IsFiniteSet(S), NEW p, NEW E,
         \A y \in S : E[y] \subseteq D /\ p[y] = Sum(v, E[y]),
         \A y, z \in S : y # z => E[y] \cap E[z] = {}
  PROVE  Sum(p, S) = Sum(v, UNION {E[y] : y \in S})
<1> DEFINE U(s) == UNION {E[y] : y \in s}
           C == {s \in SUBSET S : Sum(p, s) # Sum(v, U(s))}
<1>1. SUFFICES ASSUME C # {} PROVE FALSE
  OBVIOUS
<1>2. \A s \in C : IsFiniteSet(s)
  BY FS_Subset
<1>3. PICK s \in C : \A t \in C : t \subseteq s => t = s
  <2> HIDE DEF C
  <2> QED BY <1>1, <1>2, SmallestSet
<1>4. s # {}
  <2> SUFFICES ASSUME s = {} PROVE Sum(p, s) = Sum(v, U(s))
    BY <1>3
  <2>1. U(s) = {}
    OBVIOUS
  <2> QED BY <2>1, SumEmpty
<1> DEFINE y == Pick(s)
           t == s \ {y}
<1>5. y \in s /\ Sum(p, s) = p[y] + Sum(p, t)
  BY Zenon, <1>2, <1>4, SumPick
<1>6. Sum(p, t) = Sum(v, U(t)) /\ s \subseteq S
  BY <1>3, <1>5
<1> HIDE DEF C, y
<1>7. U(s) = E[y] \cup U(t)
  BY <1>5
<1>8. E[y] \cap U(t) = {}
  BY <1>5, <1>6
<1>9. E[y] \subseteq D /\ U(t) \subseteq D
  BY <1>5, <1>6
<1>10. IsFiniteSet(E[y]) /\ IsFiniteSet(U(t))
  BY <1>9, FS_Subset
<1>11. \A x \in E[y] \cup U(t) : v[x] \in Nat
  BY <1>9
<1> HIDE DEF U
<1>12. Sum(v, U(s)) = Sum(v, E[y]) + Sum(v, U(t))
  <2> HIDE DEF t
  <2>1. Sum(v, E[y] \cup U(t)) = Sum(v, E[y]) + Sum(v, U(t))
    BY <1>8, <1>10, <1>11, SumUnion
  <2> QED BY <1>7, <2>1
<1>13. p[y] = Sum(v, E[y])
  BY <1>5, <1>6
<1> QED BY <1>3, <1>5, <1>6, <1>12, <1>13 DEF C

-----------------------------------------------------------------------------
(* The block tree. *)

(* A set of blocks has a lowest one. *)
LEMMA Lowest ==
  ASSUME NEW C \in SUBSET Nodes, C # {}
  PROVE  \E x \in C : \A y \in C : HeightOf[x] <= HeightOf[y]
<1> DEFINE T == {HeightOf[x] : x \in C}
<1>1. T \in SUBSET Nat /\ T # {}
  BY BlocksAssumption
<1> HIDE DEF T
<1>2. PICK h \in T : \A j \in T : h <= j
  BY <1>1, MinExists
<1> QED BY <1>2 DEF T

(* A block's ancestry: itself, and blocks of smaller heights. *)
LEMMA AncestryIs ==
  ASSUME NEW x \in Nodes
  PROVE  /\ x \in Ancestry[x] /\ Ancestry[x] \subseteq Nodes
         /\ \A y \in Ancestry[x] : y # x => HeightOf[y] < HeightOf[x]
         /\ x # Genesis => /\ x \in IDs /\ ParentOf[x] \in Nodes
                           /\ Ancestry[x] = {x} \cup Ancestry[ParentOf[x]]
                           /\ HeightOf[x] = HeightOf[ParentOf[x]] + 1
                           /\ HeightOf[ParentOf[x]] < HeightOf[x]
         /\ x = Genesis => Ancestry[x] = {Genesis}
         /\ HeightOf[x] \in Nat
<1>1. HeightOf[x] \in Nat /\ Ancestry[x] \subseteq Nodes
  BY BlocksAssumption
<1>2. CASE x = Genesis
  BY <1>1, <1>2, BlocksAssumption
<1>3. CASE x # Genesis
  <2>1. x \in IDs /\ ParentOf[x] \in Nodes /\ Genesis \notin IDs
    BY <1>3, BlocksAssumption DEF Nodes
  <2>2. /\ Ancestry[x] = {x} \cup Ancestry[ParentOf[x]]
        /\ HeightOf[x] = HeightOf[ParentOf[x]] + 1
        /\ \A y \in Ancestry[ParentOf[x]] : HeightOf[y] < HeightOf[x]
    BY <2>1, BlocksAssumption
  <2>3. HeightOf[ParentOf[x]] \in Nat
    BY <2>1, BlocksAssumption
  <2> QED BY <1>1, <1>3, <2>1, <2>2, <2>3
<1> QED BY <1>2, <1>3

(* Ancestry is transitive. *)
LEMMA AncestryTransitive ==
  ASSUME NEW x \in Nodes, NEW y \in Ancestry[x]
  PROVE  Ancestry[y] \subseteq Ancestry[x]
<1> DEFINE C == {z \in Nodes : \E w \in Ancestry[z] : ~(Ancestry[w] \subseteq Ancestry[z])}
<1> SUFFICES ASSUME C # {} PROVE FALSE
  OBVIOUS
<1>1. PICK z \in C : \A w \in C : HeightOf[z] <= HeightOf[w]
  BY Zenon, Lowest
<1>2. PICK w \in Ancestry[z] : ~(Ancestry[w] \subseteq Ancestry[z])
  BY <1>1
<1>3. z # Genesis
  BY <1>2, AncestryIs
<1>4. w # z
  BY <1>2
<1>5. w \in Ancestry[ParentOf[z]]
  BY <1>2, <1>3, <1>4, AncestryIs
<1>6. ParentOf[z] \notin C
  <2>1. ParentOf[z] \in Nodes /\ HeightOf[ParentOf[z]] < HeightOf[z]
    BY <1>3, AncestryIs
  <2>2. HeightOf[ParentOf[z]] \in Nat /\ HeightOf[z] \in Nat
    BY <2>1, AncestryIs
  <2> HIDE DEF C
  <2> QED BY <1>1, <2>1, <2>2
<1>7. Ancestry[w] \subseteq Ancestry[ParentOf[z]]
  BY <1>3, <1>5, <1>6, AncestryIs
<1> QED BY <1>2, <1>3, <1>7, AncestryIs

(* Of two ancestors of a block, one is an ancestor of the other. *)
LEMMA AncestryLinear ==
  ASSUME NEW x \in Nodes, NEW u \in Ancestry[x], NEW v \in Ancestry[x],
         HeightOf[u] <= HeightOf[v]
  PROVE  u \in Ancestry[v]
<1> DEFINE Bad(z, a, b) == HeightOf[a] <= HeightOf[b] /\ a \notin Ancestry[b]
           C == {z \in Nodes : \E a, b \in Ancestry[z] : Bad(z, a, b)}
<1> SUFFICES ASSUME C # {} PROVE FALSE
  OBVIOUS
<1>1. PICK z \in C : \A w \in C : HeightOf[z] <= HeightOf[w]
  BY Zenon, Lowest
<1>2. PICK a \in Ancestry[z], b \in Ancestry[z] : Bad(z, a, b)
  BY <1>1
<1>3. z \in Nodes /\ a \in Nodes /\ b \in Nodes /\ b # z
  BY <1>2, AncestryIs
<1>4. z # Genesis
  BY <1>2, <1>3, AncestryIs
<1>5. a # z
  <2> SUFFICES ASSUME a = z PROVE FALSE
    OBVIOUS
  <2>1. HeightOf[b] < HeightOf[z] /\ HeightOf[z] <= HeightOf[b]
    BY <1>2, <1>3, AncestryIs
  <2>2. HeightOf[b] \in Nat /\ HeightOf[z] \in Nat
    BY <1>3, AncestryIs
  <2> QED BY <2>1, <2>2
<1>6. a \in Ancestry[ParentOf[z]] /\ b \in Ancestry[ParentOf[z]] /\ ParentOf[z] \in Nodes
  BY <1>2, <1>3, <1>4, <1>5, AncestryIs
<1>7. ParentOf[z] \in C
  BY <1>2, <1>6
<1>8. HeightOf[ParentOf[z]] < HeightOf[z] /\ HeightOf[ParentOf[z]] \in Nat /\ HeightOf[z] \in Nat
  BY <1>3, <1>4, <1>6, AncestryIs
<1> HIDE DEF C
<1> QED BY <1>1, <1>7, <1>8

(* A block that extends another one extends a child of it. *)
LEMMA AncestryChild ==
  ASSUME NEW x \in Nodes, NEW a \in Ancestry[x], a # x
  PROVE  \E y \in Ancestry[x] : y \in IDs /\ ParentOf[y] = a
<1> DEFINE C == {y \in Ancestry[x] : y # a /\ a \in Ancestry[y]}
<1>1. x \in C /\ C \in SUBSET Nodes
  BY AncestryIs
<1>2. PICK y \in C : \A w \in C : HeightOf[y] <= HeightOf[w]
  BY Zenon, <1>1, Lowest
<1>3. y \in Nodes /\ y # Genesis
  BY <1>1, <1>2, AncestryIs
<1>4. y \in IDs /\ ParentOf[y] \in Nodes /\ a \in Ancestry[ParentOf[y]]
  BY <1>2, <1>3, AncestryIs
<1>5. ParentOf[y] \in Ancestry[x]
  <2>1. ParentOf[y] \in Ancestry[y]
    BY <1>3, <1>4, AncestryIs
  <2> QED BY <1>2, <2>1, AncestryTransitive
<1>6. ParentOf[y] \notin C
  <2>1. HeightOf[ParentOf[y]] < HeightOf[y] /\ HeightOf[ParentOf[y]] \in Nat /\ HeightOf[y] \in Nat
    BY <1>3, <1>4, AncestryIs
  <2> HIDE DEF C
  <2> QED BY <1>2, <2>1
<1> QED BY <1>2, <1>4, <1>5, <1>6

(* A block whose parent is a has no other ancestor between a and itself. *)
LEMMA AncestryOfChild ==
  ASSUME NEW y \in IDs
  PROVE  /\ ParentOf[y] \in Nodes /\ ParentOf[y] \in Ancestry[y] /\ y # ParentOf[y]
         /\ y \notin Ancestry[ParentOf[y]]
<1>1. y \in Nodes /\ y # Genesis
  BY BlocksAssumption DEF Nodes
<1>2. ParentOf[y] \in Nodes /\ Ancestry[y] = {y} \cup Ancestry[ParentOf[y]]
  BY <1>1, AncestryIs
<1>3. ParentOf[y] \in Ancestry[ParentOf[y]]
  BY <1>2, AncestryIs
<1>4. HeightOf[ParentOf[y]] < HeightOf[y] /\ HeightOf[ParentOf[y]] \in Nat /\ HeightOf[y] \in Nat
  BY <1>1, <1>2, AncestryIs
<1>5. ASSUME y \in Ancestry[ParentOf[y]] PROVE FALSE
  BY <1>2, <1>4, <1>5, AncestryIs
<1> QED BY <1>2, <1>3, <1>4, <1>5

-----------------------------------------------------------------------------
(* Votes. *)

(* Parameters.Verify makes AlphaPreference positive. *)
LEMMA AlphaPositive ==
  AlphaPreference > 0 /\ AlphaPreference \in Nat
<1>1. K \div 2 >= 0
  BY ParametersVerify
<1> QED BY <1>1, ParametersVerify

(* The length of a bag of votes is a sum over IDs. *)
LEMMA CountIsSum ==
  ASSUME NEW votes, NEW ids
  PROVE  Count(votes, ids) = Sum(votes, ids)
BY DEF Count, Sum

(* Enough votes are somebody's votes. *)
LEMMA EnoughVotes ==
  ASSUME NEW votes, NEW ids,
         Count(votes, ids) >= AlphaPreference \/ ~(Count(votes, ids) < AlphaPreference)
  PROVE  ids # {}
<1> SUFFICES ASSUME ids = {} PROVE FALSE
  OBVIOUS
<1>1. Count(votes, ids) = 0
  BY CountIsSum, SumEmpty
<1> QED BY <1>1, AlphaPositive

(* IDs have NumBits bits, so there are finitely many. *)
LEMMA IDsFinite == IsFiniteSet(IDs)
<1> DEFINE f == [x \in IDs |-> {i \in Bits : IDBits[x][i] = 1}]
<1>1. IsFiniteSet(SUBSET Bits)
  <2>1. IsFiniteSet(Bits)
    BY FS_Interval, ParametersVerify DEF Bits
  <2> QED BY <2>1, FS_SUBSET
<1>2. ASSUME NEW x \in IDs, NEW y \in IDs, f[x] = f[y] PROVE x = y
  <2>1. IDBits[x] \in [Bits -> {0, 1}] /\ IDBits[y] \in [Bits -> {0, 1}]
    BY ParametersVerify
  <2>2. \A i \in Bits : IDBits[x][i] = IDBits[y][i]
    BY <1>2, <2>1
  <2>3. IDBits[x] = IDBits[y]
    BY <2>1, <2>2
  <2> QED BY <2>3, ParametersVerify
<1>3. f \in [IDs -> SUBSET Bits]
  OBVIOUS
<1>4. f \in Injection(IDs, SUBSET Bits)
  <2> HIDE DEF f
  <2> QED BY <1>2, <1>3 DEF Injection, IsInjective
<1> QED BY <1>1, <1>4, FS_Injection

(* There is a finite number of votes. *)
LEMMA CountNat ==
  ASSUME NEW p, NEW ids \in SUBSET IDs, \A x \in ids : p[x] \in Nat
  PROVE  IsFiniteSet(ids) /\ Count(p, ids) \in Nat
BY IDsFinite, FS_Subset, CountIsSum, SumNat

(* A larger set of IDs has no fewer votes. *)
LEMMA CountMonotonic ==
  ASSUME NEW p, NEW ids \in SUBSET IDs, \A x \in ids : p[x] \in Nat, NEW part \in SUBSET ids
  PROVE  Count(p, part) <= Count(p, ids)
BY CountNat, CountIsSum, SumMonotonic

(* A voted member, and two of them, have no more votes than all. *)
LEMMA CountOfOne ==
  ASSUME NEW p, NEW ids \in SUBSET IDs, \A x \in ids : p[x] \in Nat, NEW x \in ids
  PROVE  p[x] <= Count(p, ids)
<1>1. IsFiniteSet(ids)
  BY CountNat
<1>2. Count(p, ids) = p[x] + Sum(p, ids \ {x})
  BY <1>1, CountIsSum, SumRemove
<1>3. Sum(p, ids \ {x}) \in Nat
  BY <1>1, FS_Subset, SumNat
<1> QED BY <1>2, <1>3

(* Two disjoint sets of IDs share the votes. *)
LEMMA CountDisjoint ==
  ASSUME NEW p, NEW ids \in SUBSET IDs, \A x \in ids : p[x] \in Nat,
         NEW S \in SUBSET ids, NEW T \in SUBSET ids, S \cap T = {}
  PROVE  Count(p, S) + Count(p, T) <= Count(p, ids)
<1>1. IsFiniteSet(S) /\ IsFiniteSet(T) /\ S \cup T \in SUBSET ids
  BY CountNat, FS_Subset
<1>2. Sum(p, S \cup T) = Sum(p, S) + Sum(p, T)
  BY <1>1, SumUnion
<1>3. Count(p, S \cup T) <= Count(p, ids)
  BY <1>1, CountMonotonic
<1> QED BY <1>2, <1>3, CountIsSum

(* Two sets cannot both have AlphaPreference of the votes. *)
LEMMA NoTwoMajorities ==
  ASSUME NEW p, NEW ids \in SUBSET IDs, \A x \in ids : p[x] \in Nat, Count(p, ids) <= K,
         NEW S \in SUBSET ids, NEW T \in SUBSET ids,
         Count(p, S) >= AlphaPreference, Count(p, T) >= AlphaPreference
  PROVE  S \cap T # {}
<1> SUFFICES ASSUME S \cap T = {} PROVE FALSE
  OBVIOUS
<1>1. Count(p, S) + Count(p, T) <= Count(p, ids)
  BY CountDisjoint
<1>2. Count(p, S) \in Nat /\ Count(p, T) \in Nat /\ Count(p, ids) \in Nat
  BY CountNat
<1>3. K \in Nat /\ AlphaPreference \in Nat /\ K \div 2 < AlphaPreference
  BY ParametersVerify
<1>4. K < AlphaPreference + AlphaPreference
  BY <1>3
<1> QED BY <1>1, <1>2, <1>3, <1>4

(* A set of blocks has a highest one. *)
LEMMA Highest ==
  ASSUME NEW C \in SUBSET Nodes, C # {}
  PROVE  \E x \in C : \A y \in C : HeightOf[y] <= HeightOf[x]
<1> DEFINE HasHighest(S) == \E x \in S : \A y \in S : HeightOf[y] <= HeightOf[x]
           Bad == {S \in SUBSET C : S # {} /\ ~HasHighest(S)}
<1> SUFFICES ASSUME C \in Bad PROVE FALSE
  OBVIOUS
<1>1. IsFiniteSet(Nodes)
  <2>1. Nodes = IDs \cup {Genesis}
    BY DEF Nodes
  <2> QED BY <2>1, IDsFinite, FS_AddElement
<1>2. Bad # {} /\ \A S \in Bad : IsFiniteSet(S)
  <2>1. \A S \in Bad : S \subseteq Nodes
    OBVIOUS
  <2> QED BY <1>1, <2>1, FS_Subset
<1> HIDE DEF Bad
<1>3. PICK S \in Bad : \A T \in Bad : T \subseteq S => T = S
  BY <1>2, SmallestSet
<1>4. S \subseteq C /\ S # {} /\ ~HasHighest(S)
  BY <1>3 DEF Bad
<1>5. PICK a \in S : TRUE
  BY <1>4
<1>6. \A x \in S : HeightOf[x] \in Nat
  BY <1>4, AncestryIs
<1>7. S \ {a} # {}
  <2> SUFFICES ASSUME S = {a} PROVE FALSE
    BY <1>5
  <2>1. \A y \in S : HeightOf[y] <= HeightOf[a]
    BY <1>6
  <2> QED BY <1>4, <2>1
<1>8. S \ {a} \notin Bad
  BY <1>3, <1>5
<1>9. HasHighest(S \ {a})
  BY <1>4, <1>7, <1>8 DEF Bad
<1>10. PICK b \in S \ {a} : \A y \in S \ {a} : HeightOf[y] <= HeightOf[b]
  BY <1>9
<1>11. \/ \A y \in S : HeightOf[y] <= HeightOf[b]
       \/ \A y \in S : HeightOf[y] <= HeightOf[a]
  BY <1>5, <1>6, <1>10
<1> QED BY <1>4, <1>5, <1>10, <1>11
=============================================================================
