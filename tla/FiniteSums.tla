------------------------------ MODULE FiniteSums ----------------------------
(***************************************************************************)
(* The greatest element of a finite set, and sums over one.                *)
(* SumFunctionOnSet is recursive over the subsets of the set; what it      *)
(* computes follows from the fact that a non-empty collection of subsets   *)
(* of a finite set has a smallest member, which takes the place of an      *)
(* induction.                                                              *)
(***************************************************************************)
EXTENDS Integers, FiniteSetsExt, FiniteSetTheorems, TLAPS

(* A set of subsets of a finite set has a smallest one.                    *)
LEMMA SmallestSubset ==
  ASSUME NEW S, IsFiniteSet(S), NEW T \in SUBSET (SUBSET S), T # {}
  PROVE  \E x \in T : \A y \in T : y \subseteq x => y = x
  <1>1. IsWellFoundedOn(StrictSubsetOrdering(S), FiniteSubsetsOf(S))
    BY FS_StrictSubsetOrderingWellFounded
  <1>2. T \subseteq FiniteSubsetsOf(S)
    BY FS_FiniteSubsetsOfFinite
  <1>3. PICK x \in T : \A y \in T : <<y, x>> \notin StrictSubsetOrdering(S)
    BY <1>1, <1>2, WFMin
  <1> QED
    BY <1>3 DEF StrictSubsetOrdering

(* Of finitely many numbers one is the greatest.                           *)
LEMMA GreatestExists ==
  ASSUME NEW S, IsFiniteSet(S)
  PROVE  S \subseteq Int /\ S # {} => \E x \in S : \A y \in S : y <= x
  <1> DEFINE Bad == {s \in SUBSET S : /\ s \subseteq Int /\ s # {}
                                     /\ ~ \E x \in s : \A y \in s : y <= x}
  <1>1. SUFFICES ASSUME S \in Bad PROVE FALSE
    OBVIOUS
  <1>2. PICK s \in Bad : \A t \in Bad : t \subseteq s => t = s
    <2>1. Bad \in SUBSET (SUBSET S)
      OBVIOUS
    <2>2. Bad # {}
      BY <1>1
    <2> HIDE DEF Bad
    <2> QED
      BY <2>1, <2>2, SmallestSubset
  <1>3. s \subseteq S /\ s \subseteq Int /\ s # {} /\ ~ \E x \in s : \A y \in s : y <= x
    OBVIOUS
  <1>4. PICK a \in s : TRUE
    BY <1>3
  <1> DEFINE r == s \ {a}
  <1>5. r \in SUBSET S /\ r \subseteq s /\ r # s
    BY <1>3, <1>4
  <1>6. r \notin Bad
    <2> HIDE DEF Bad, r
    <2> QED
      BY <1>2, <1>5
  <1>7. r # {}
    BY <1>3, <1>4
  <1>8. PICK b \in r : \A y \in r : y <= b
    BY <1>5, <1>6, <1>7
  <1> HIDE DEF Bad
  <1>9. a \in Int /\ b \in Int /\ b \in s /\ \A y \in s : y \in Int /\ (y = a \/ y <= b)
    BY <1>3, <1>4, <1>5, <1>8
  <1>10. CASE a <= b
    BY <1>3, <1>9, <1>10
  <1>11. CASE b <= a
    BY <1>3, <1>4, <1>9, <1>11
  <1> QED
    BY <1>9, <1>10, <1>11

(* Max is the greatest number of a set that has one.                       *)
LEMMA GreatestOfFinite ==
  ASSUME NEW S, S \subseteq Int, IsFiniteSet(S), S # {}
  PROVE  Max(S) \in S /\ \A y \in S : y <= Max(S)
  <1>1. PICK x \in S : \A y \in S : y <= x
    BY GreatestExists
  <1>2. \A y \in S : x >= y
    BY <1>1
  <1>3. Max(S) \in S /\ \A y \in S : Max(S) >= y
    BY <1>2 DEF Max
  <1> QED
    BY <1>3

(* What is as great as every element is Max.                               *)
LEMMA GreatestIs ==
  ASSUME NEW S, S \subseteq Int, NEW m \in S, \A y \in S : y <= m
  PROVE  Max(S) = m
  <1>1. \E x \in S : \A y \in S : x >= y
    OBVIOUS
  <1>2. Max(S) \in S /\ \A y \in S : Max(S) >= y
    BY <1>1 DEF Max
  <1>3. Max(S) \in Int /\ m \in Int /\ Max(S) >= m /\ Max(S) <= m
    BY <1>2
  <1> QED
    BY <1>3

(* The recursive function g that defines the sum of f over S.              *)
Pick(S) == CHOOSE i \in S : TRUE
Sums(g, f, S) ==
  g = [s \in SUBSET S |-> IF s = {} THEN 0 ELSE f[Pick(s)] + g[s \ {Pick(s)}]]

(* The sum is the value of that function at the whole set.                 *)
LEMMA SumDef ==
  ASSUME NEW f, NEW S
  PROVE  SumFunctionOnSet(f, S) = (CHOOSE g : Sums(g, f, S))[S]
  BY DEF Sums, Pick, SumFunctionOnSet, FoldFunctionOnSet, MapThenFoldSet

(* Of a non-empty set an element of it is picked.                          *)
LEMMA Picked ==
  ASSUME NEW S, S # {}
  PROVE  Pick(S) \in S
  BY DEF Pick

(* There is at most one such function,                                     *)
LEMMA SumsAgree ==
  ASSUME NEW S, IsFiniteSet(S), NEW f, NEW g, NEW h, Sums(g, f, S), Sums(h, f, S)
  PROVE  g = h
  <1> DEFINE Bad == {s \in SUBSET S : g[s] # h[s]}
  <1>1. CASE Bad = {}
    <2>1. \A s \in SUBSET S : g[s] = h[s]
      BY <1>1
    <2>2. g = [s \in SUBSET S |-> g[s]] /\ h = [s \in SUBSET S |-> h[s]]
      BY DEF Sums
    <2> QED
      BY <2>1, <2>2
  <1>2. CASE Bad # {}
    <2>0. Bad \in SUBSET (SUBSET S)
      OBVIOUS
    <2>1. PICK s \in Bad : \A t \in Bad : t \subseteq s => t = s
      <3> HIDE DEF Bad
      <3> QED
        BY <1>2, <2>0, SmallestSubset
    <2>2. s \in SUBSET S /\ g[s] # h[s]
      OBVIOUS
    <2>3. /\ g[s] = IF s = {} THEN 0 ELSE f[Pick(s)] + g[s \ {Pick(s)}]
          /\ h[s] = IF s = {} THEN 0 ELSE f[Pick(s)] + h[s \ {Pick(s)}]
      BY <2>2 DEF Sums
    <2>4. s # {} /\ Pick(s) \in s
      BY <2>2, <2>3, Picked
    <2>5. s \ {Pick(s)} \in SUBSET S /\ s \ {Pick(s)} \subseteq s /\ s \ {Pick(s)} # s
      BY <2>2, <2>4
    <2>6. g[s \ {Pick(s)}] = h[s \ {Pick(s)}]
      BY <2>1, <2>5
    <2> QED
      BY <2>2, <2>3, <2>6
  <1> QED
    BY <1>1, <1>2

(* its restriction to the subsets of a subset is the one of that subset,   *)
LEMMA SumsRestrict ==
  ASSUME NEW S, NEW U \in SUBSET S, NEW f, NEW g, Sums(g, f, S)
  PROVE  Sums([s \in SUBSET U |-> g[s]], f, U)
  <1> DEFINE h == [s \in SUBSET U |-> g[s]]
  <1>1. ASSUME NEW s \in SUBSET U
        PROVE  g[s] = IF s = {} THEN 0 ELSE f[Pick(s)] + h[s \ {Pick(s)}]
    <2>1. s \in SUBSET S /\ s \ {Pick(s)} \in SUBSET U
      OBVIOUS
    <2>2. h[s \ {Pick(s)}] = g[s \ {Pick(s)}]
      BY <2>1
    <2>3. g[s] = IF s = {} THEN 0 ELSE f[Pick(s)] + g[s \ {Pick(s)}]
      BY <2>1 DEF Sums
    <2> HIDE DEF h
    <2> QED
      BY <2>2, <2>3
  <1>2. h = [s \in SUBSET U |-> IF s = {} THEN 0 ELSE f[Pick(s)] + h[s \ {Pick(s)}]]
    <2>1. h = [s \in SUBSET U |-> g[s]]
      OBVIOUS
    <2> HIDE DEF h
    <2> QED
      BY <1>1, <2>1
  <1> QED
    BY <1>2 DEF Sums

(* so that the sum satisfies the recursive equation where there is one,    *)
LEMMA SumEquation ==
  ASSUME NEW S, IsFiniteSet(S), NEW f, \E g : Sums(g, f, S)
  PROVE  SumFunctionOnSet(f, S) =
           IF S = {} THEN 0 ELSE f[Pick(S)] + SumFunctionOnSet(f, S \ {Pick(S)})
  <1> DEFINE U == S \ {Pick(S)}
  <1>1. PICK g : Sums(g, f, S)
    OBVIOUS
  <1>2. SumFunctionOnSet(f, S) = g[S]
    <2>1. Sums(CHOOSE h : Sums(h, f, S), f, S)
      OBVIOUS
    <2> QED
      BY <1>1, <2>1, SumDef, SumsAgree
  <1>3. SumFunctionOnSet(f, U) = g[U]
    <2> DEFINE h == [s \in SUBSET U |-> g[s]]
    <2>1. U \in SUBSET S /\ IsFiniteSet(U)
      BY FS_Subset
    <2>2. Sums(h, f, U)
      <3> HIDE DEF U
      <3> QED
        BY <1>1, <2>1, SumsRestrict
    <2>3. h[U] = g[U]
      OBVIOUS
    <2> HIDE DEF h, U
    <2>4. Sums(CHOOSE k : Sums(k, f, U), f, U)
      BY <2>2
    <2>5. (CHOOSE k : Sums(k, f, U)) = h
      BY <2>1, <2>2, <2>4, SumsAgree
    <2> QED
      BY <2>3, <2>5, SumDef
  <1>4. g[S] = IF S = {} THEN 0 ELSE f[Pick(S)] + g[U]
    BY <1>1 DEF Sums
  <1> QED
    BY <1>2, <1>3, <1>4

(* and there is one.                                                       *)
LEMMA SumsExist ==
  ASSUME NEW S, IsFiniteSet(S), NEW f
  PROVE  \E g : Sums(g, f, S)
  <1> DEFINE Bad == {s \in SUBSET S : ~ \E g : Sums(g, f, s)}
  <1>1. SUFFICES ASSUME Bad # {} PROVE FALSE
    OBVIOUS
  <1>2. PICK T \in Bad : \A t \in Bad : t \subseteq T => t = T
    <2>1. Bad \in SUBSET (SUBSET S)
      OBVIOUS
    <2> HIDE DEF Bad
    <2> QED
      BY <1>1, <2>1, SmallestSubset
  <1>3. T \in SUBSET S /\ ~ \E g : Sums(g, f, T)
    OBVIOUS
  <1>4. \A t \in SUBSET T : t # T => \E g : Sums(g, f, t)
    BY <1>2, <1>3
  <1> HIDE DEF Bad
  <1> DEFINE g == [s \in SUBSET T |-> IF s = {} THEN 0
                                      ELSE f[Pick(s)] + SumFunctionOnSet(f, s \ {Pick(s)})]
  <1>5. ASSUME NEW s \in SUBSET T, s # {}
        PROVE  g[s \ {Pick(s)}] = SumFunctionOnSet(f, s \ {Pick(s)})
    <2> DEFINE u == s \ {Pick(s)}
    <2>1. Pick(s) \in s
      BY <1>5, Picked
    <2>2. u \in SUBSET T /\ u # T
      BY <2>1
    <2>3. IsFiniteSet(u)
      BY <1>3, <2>2, FS_Subset
    <2>4. \E h : Sums(h, f, u)
      BY <1>4, <2>2
    <2>5. g[u] = IF u = {} THEN 0 ELSE f[Pick(u)] + SumFunctionOnSet(f, u \ {Pick(u)})
      BY <2>2
    <2> HIDE DEF g, u
    <2>6. SumFunctionOnSet(f, u) =
            IF u = {} THEN 0 ELSE f[Pick(u)] + SumFunctionOnSet(f, u \ {Pick(u)})
      BY <2>3, <2>4, SumEquation
    <2> QED
      BY <2>5, <2>6 DEF u
  <1>6. g = [s \in SUBSET T |-> IF s = {} THEN 0 ELSE f[Pick(s)] + g[s \ {Pick(s)}]]
    <2>1. g = [s \in SUBSET T |-> IF s = {} THEN 0
                                  ELSE f[Pick(s)] + SumFunctionOnSet(f, s \ {Pick(s)})]
      OBVIOUS
    <2> HIDE DEF g
    <2> QED
      BY <1>5, <2>1
  <1>7. Sums(g, f, T)
    BY <1>6 DEF Sums
  <1> HIDE DEF g
  <1> QED
    BY <1>3, <1>7

(* So the sum does what its recursive definition says.                     *)
LEMMA SumPick ==
  ASSUME NEW S, IsFiniteSet(S), NEW f
  PROVE  SumFunctionOnSet(f, S) =
           IF S = {} THEN 0 ELSE f[Pick(S)] + SumFunctionOnSet(f, S \ {Pick(S)})
  BY SumEquation, SumsExist

(* A sum of integers is one.                                               *)
LEMMA SumInt ==
  ASSUME NEW S, IsFiniteSet(S), NEW f, \A i \in S : f[i] \in Int
  PROVE  SumFunctionOnSet(f, S) \in Int
  <1> DEFINE Bad == {s \in SUBSET S : SumFunctionOnSet(f, s) \notin Int}
  <1>1. SUFFICES ASSUME Bad # {} PROVE FALSE
    OBVIOUS
  <1>2. PICK T \in Bad : \A t \in Bad : t \subseteq T => t = T
    <2>1. Bad \in SUBSET (SUBSET S)
      OBVIOUS
    <2> HIDE DEF Bad
    <2> QED
      BY <1>1, <2>1, SmallestSubset
  <1>3. T \in SUBSET S /\ SumFunctionOnSet(f, T) \notin Int /\ IsFiniteSet(T)
    BY FS_Subset
  <1>4. SumFunctionOnSet(f, T) =
          IF T = {} THEN 0 ELSE f[Pick(T)] + SumFunctionOnSet(f, T \ {Pick(T)})
    BY <1>3, SumPick
  <1>5. T # {} /\ Pick(T) \in T
    BY <1>3, <1>4, Picked
  <1>6. SumFunctionOnSet(f, T \ {Pick(T)}) \in Int
    BY <1>2, <1>3, <1>5
  <1> QED
    BY <1>3, <1>4, <1>5, <1>6

(* A sum of natural numbers is one: no credit is negative.                 *)
LEMMA SumNat ==
  ASSUME NEW S, IsFiniteSet(S), NEW f, \A i \in S : f[i] \in Nat
  PROVE  SumFunctionOnSet(f, S) \in Nat
  <1> DEFINE Bad == {s \in SUBSET S : SumFunctionOnSet(f, s) \notin Nat}
  <1>1. SUFFICES ASSUME Bad # {} PROVE FALSE
    OBVIOUS
  <1>2. PICK T \in Bad : \A t \in Bad : t \subseteq T => t = T
    <2>1. Bad \in SUBSET (SUBSET S)
      OBVIOUS
    <2> HIDE DEF Bad
    <2> QED
      BY <1>1, <2>1, SmallestSubset
  <1>3. T \in SUBSET S /\ SumFunctionOnSet(f, T) \notin Nat /\ IsFiniteSet(T)
    BY FS_Subset
  <1>4. SumFunctionOnSet(f, T) =
          IF T = {} THEN 0 ELSE f[Pick(T)] + SumFunctionOnSet(f, T \ {Pick(T)})
    BY <1>3, SumPick
  <1>5. T # {} /\ Pick(T) \in T
    BY <1>3, <1>4, Picked
  <1>6. SumFunctionOnSet(f, T \ {Pick(T)}) \in Nat
    BY <1>2, <1>3, <1>5
  <1> QED
    BY <1>3, <1>4, <1>5, <1>6

(* Any element may be added last.                                          *)
LEMMA SumRemove ==
  ASSUME NEW S, IsFiniteSet(S), NEW f, \A i \in S : f[i] \in Int, NEW i \in S
  PROVE  SumFunctionOnSet(f, S) = f[i] + SumFunctionOnSet(f, S \ {i})
  <1> DEFINE Bad == {s \in SUBSET S :
                       \E j \in s : SumFunctionOnSet(f, s) # f[j] + SumFunctionOnSet(f, s \ {j})}
  <1>1. SUFFICES ASSUME Bad # {} PROVE FALSE
    OBVIOUS
  <1>2. PICK T \in Bad : \A t \in Bad : t \subseteq T => t = T
    <2>1. Bad \in SUBSET (SUBSET S)
      OBVIOUS
    <2> HIDE DEF Bad
    <2> QED
      BY <1>1, <2>1, SmallestSubset
  <1>3. T \in SUBSET S /\ IsFiniteSet(T)
    BY FS_Subset
  <1>4. PICK j \in T : SumFunctionOnSet(f, T) # f[j] + SumFunctionOnSet(f, T \ {j})
    OBVIOUS
  <1>5. \A t \in SUBSET T :
          t # T => \A k \in t : SumFunctionOnSet(f, t) = f[k] + SumFunctionOnSet(f, t \ {k})
    BY <1>2, <1>3
  <1> HIDE DEF Bad
  <1> DEFINE p == Pick(T)
             rest == SumFunctionOnSet(f, (T \ {p}) \ {j})
  <1>6. p \in T /\ SumFunctionOnSet(f, T) = f[p] + SumFunctionOnSet(f, T \ {p})
    BY <1>3, <1>4, SumPick, Picked
  <1>7. p # j
    BY <1>4, <1>6
  <1> HIDE DEF p
  <1>8. SumFunctionOnSet(f, T \ {p}) = f[j] + rest
    BY <1>4, <1>5, <1>6, <1>7
  <1>9. SumFunctionOnSet(f, T \ {j}) = f[p] + SumFunctionOnSet(f, (T \ {j}) \ {p})
    BY <1>4, <1>5, <1>6, <1>7
  <1>10. (T \ {j}) \ {p} = (T \ {p}) \ {j}
    OBVIOUS
  <1>11. rest \in Int /\ f[p] \in Int /\ f[j] \in Int
    <2>1. IsFiniteSet((T \ {p}) \ {j}) /\ (T \ {p}) \ {j} \subseteq S
      BY <1>3, FS_Subset
    <2> QED
      BY <1>3, <1>4, <1>6, <2>1, SumInt
  <1> HIDE DEF rest
  <1>12. SumFunctionOnSet(f, T) = f[j] + SumFunctionOnSet(f, T \ {j})
    <2>1. SumFunctionOnSet(f, T \ {j}) = f[p] + rest
      BY <1>9, <1>10 DEF rest
    <2> QED
      BY <1>6, <1>8, <1>11, <2>1
  <1> QED
    BY <1>4, <1>12

(* Functions that agree on a set have the same sum over it.                *)
LEMMA SumSame ==
  ASSUME NEW S, IsFiniteSet(S), NEW f, NEW g, \A i \in S : f[i] = g[i]
  PROVE  SumFunctionOnSet(f, S) = SumFunctionOnSet(g, S)
  <1> DEFINE Bad == {s \in SUBSET S : SumFunctionOnSet(f, s) # SumFunctionOnSet(g, s)}
  <1>1. SUFFICES ASSUME Bad # {} PROVE FALSE
    OBVIOUS
  <1>2. PICK T \in Bad : \A t \in Bad : t \subseteq T => t = T
    <2>1. Bad \in SUBSET (SUBSET S)
      OBVIOUS
    <2> HIDE DEF Bad
    <2> QED
      BY <1>1, <2>1, SmallestSubset
  <1>3. T \in SUBSET S /\ SumFunctionOnSet(f, T) # SumFunctionOnSet(g, T) /\ IsFiniteSet(T)
    BY FS_Subset
  <1>4. /\ SumFunctionOnSet(f, T) =
             IF T = {} THEN 0 ELSE f[Pick(T)] + SumFunctionOnSet(f, T \ {Pick(T)})
        /\ SumFunctionOnSet(g, T) =
             IF T = {} THEN 0 ELSE g[Pick(T)] + SumFunctionOnSet(g, T \ {Pick(T)})
    BY <1>3, SumPick
  <1>5. T # {} /\ Pick(T) \in T
    BY <1>3, <1>4, Picked
  <1>6. SumFunctionOnSet(f, T \ {Pick(T)}) = SumFunctionOnSet(g, T \ {Pick(T)})
    BY <1>2, <1>3, <1>5
  <1>7. f[Pick(T)] = g[Pick(T)]
    BY <1>3, <1>5
  <1> QED
    BY <1>3, <1>4, <1>5, <1>6, <1>7

(* The empty sum is zero.                                                  *)
LEMMA SumEmpty ==
  ASSUME NEW f
  PROVE  SumFunctionOnSet(f, {}) = 0
  BY FS_EmptySet, SumPick

(* One element more adds its value.                                        *)
LEMMA SumAdd ==
  ASSUME NEW S, IsFiniteSet(S), NEW i, i \notin S, NEW f, \A j \in S \cup {i} : f[j] \in Int
  PROVE  SumFunctionOnSet(f, S \cup {i}) = f[i] + SumFunctionOnSet(f, S)
  <1>1. IsFiniteSet(S \cup {i})
    BY FS_AddElement
  <1>2. (S \cup {i}) \ {i} = S
    OBVIOUS
  <1> QED
    BY <1>1, <1>2, SumRemove

(* Fewer natural numbers have no greater sum.                              *)
LEMMA SumSubset ==
  ASSUME NEW S, IsFiniteSet(S), NEW f, \A i \in S : f[i] \in Nat, NEW U \in SUBSET S
  PROVE  SumFunctionOnSet(f, U) <= SumFunctionOnSet(f, S)
  <1> DEFINE Bad == {s \in SUBSET S :
                       U \subseteq s /\ ~(SumFunctionOnSet(f, U) <= SumFunctionOnSet(f, s))}
  <1>1. SUFFICES ASSUME Bad # {} PROVE FALSE
    OBVIOUS
  <1>2. PICK T \in Bad : \A t \in Bad : t \subseteq T => t = T
    <2>1. Bad \in SUBSET (SUBSET S)
      OBVIOUS
    <2> HIDE DEF Bad
    <2> QED
      BY <1>1, <2>1, SmallestSubset
  <1>3. /\ T \in SUBSET S /\ U \subseteq T /\ IsFiniteSet(T) /\ IsFiniteSet(U)
        /\ ~(SumFunctionOnSet(f, U) <= SumFunctionOnSet(f, T))
    BY FS_Subset
  <1>4. SumFunctionOnSet(f, U) \in Nat
    BY <1>3, SumNat
  <1>5. PICK i \in T : i \notin U
    BY <1>3, <1>4
  <1>6. SumFunctionOnSet(f, T) = f[i] + SumFunctionOnSet(f, T \ {i})
    BY <1>3, <1>5, SumRemove
  <1>7. SumFunctionOnSet(f, T \ {i}) \in Nat
    <2>1. IsFiniteSet(T \ {i}) /\ \A j \in T \ {i} : f[j] \in Nat
      BY <1>3, FS_Subset
    <2> QED
      BY <2>1, SumNat
  <1>8. SumFunctionOnSet(f, U) <= SumFunctionOnSet(f, T \ {i})
    BY <1>2, <1>3, <1>5
  <1> QED
    BY <1>3, <1>4, <1>5, <1>6, <1>7, <1>8

(* Where functions differ in one place, so do their sums.                  *)
LEMMA SumExcept ==
  ASSUME NEW S, IsFiniteSet(S), NEW i \in S, NEW f, NEW g,
         \A j \in S : f[j] \in Int /\ g[j] \in Int,
         \A j \in S : j # i => g[j] = f[j]
  PROVE  SumFunctionOnSet(g, S) = SumFunctionOnSet(f, S) + (g[i] - f[i])
  <1>1. IsFiniteSet(S \ {i})
    BY FS_Subset
  <1>2. SumFunctionOnSet(g, S \ {i}) = SumFunctionOnSet(f, S \ {i})
    BY <1>1, SumSame
  <1>3. SumFunctionOnSet(f, S \ {i}) \in Int
    BY <1>1, SumInt
  <1>4. /\ SumFunctionOnSet(f, S) = f[i] + SumFunctionOnSet(f, S \ {i})
        /\ SumFunctionOnSet(g, S) = g[i] + SumFunctionOnSet(g, S \ {i})
    BY SumRemove
  <1> QED
    BY <1>2, <1>3, <1>4
=============================================================================
