------------------------------ MODULE SumTheorems ------------------------------
(***************************************************************************)
(* The sums of the models (the SUMs of the SQL queries, the token balances *)
(* of a vault) are MapThenSumSet over a finite set.  What the proofs need  *)
(* of them: the sum of no element, of one element more, its type, and that *)
(* it grows with the set and with the terms.                               *)
(***************************************************************************)
EXTENDS FiniteSetsExt, FiniteSetTheorems, TLAPS

\* The sum of weight[x] for the elements x of S.
SumOf(weight, S) == MapThenSumSet(LAMBDA x : weight[x], S)

Pick(S) == CHOOSE x \in S : TRUE

\* The equation of the recursive function by which the library adds.
Adds(sum, weight, S) ==
    sum = [T \in SUBSET S |->
              IF T = {} THEN 0 ELSE weight[Pick(T)] + sum[T \ {Pick(T)}]]

-----------------------------------------------------------------------------
(* Induction over a finite set, for a property that is given by the set of  *)
(* the subsets that have it.                                                *)

LEMMA SetInduction ==
    ASSUME NEW S, IsFiniteSet(S), NEW Good,
           {} \in Good,
           \A T \in SUBSET S : T # {} /\ (\A x \in T : T \ {x} \in Good) => T \in Good
    PROVE  \A T \in SUBSET S : T \in Good
<1> DEFINE Bad == {T \in SUBSET S : T \notin Good}
<1>1. SUFFICES ASSUME Bad # {} PROVE FALSE
  OBVIOUS
<1>2. IsWellFoundedOn(StrictSubsetOrdering(S), FiniteSubsetsOf(S))
  BY FS_StrictSubsetOrderingWellFounded
<1>3. Bad \subseteq FiniteSubsetsOf(S)
  BY FS_FiniteSubsetsOfFinite
<1>4. PICK T \in Bad : \A U \in Bad : <<U, T>> \notin StrictSubsetOrdering(S)
  <2> HIDE DEF Bad
  <2>1. QED
    BY <1>1, <1>2, <1>3, WFMin
<1>5. ASSUME NEW x \in T PROVE T \ {x} \in Good
  <2>1. /\ <<T \ {x}, T>> \in (SUBSET S) \X (SUBSET S)
        /\ T \ {x} \subseteq T /\ T \ {x} # T
    OBVIOUS
  <2>2. <<T \ {x}, T>>[1] = T \ {x} /\ <<T \ {x}, T>>[2] = T
    OBVIOUS
  <2>3. <<T \ {x}, T>> \in StrictSubsetOrdering(S)
    BY <2>1, <2>2, Zenon DEF StrictSubsetOrdering
  <2>4. QED
    BY <1>4, <2>1, <2>3
<1>6. QED
  BY <1>4, <1>5

\* The equation has at most one solution.
LEMMA AddsUnique ==
    ASSUME NEW S, IsFiniteSet(S), NEW weight, NEW f, NEW g,
           Adds(f, weight, S), Adds(g, weight, S)
    PROVE  f = g
<1> DEFINE Good == {T \in SUBSET S : f[T] = g[T]}
<1>1. {} \in Good
  BY DEF Adds
<1>2. ASSUME NEW T \in SUBSET S, T # {}, \A x \in T : T \ {x} \in Good
      PROVE  T \in Good
  <2>1. Pick(T) \in T
    BY <1>2 DEF Pick
  <2>2. f[T \ {Pick(T)}] = g[T \ {Pick(T)}]
    BY <1>2, <2>1
  <2>3. f[T] = weight[Pick(T)] + f[T \ {Pick(T)}]
    BY <1>2 DEF Adds
  <2>4. g[T] = weight[Pick(T)] + g[T \ {Pick(T)}]
    BY <1>2 DEF Adds
  <2>5. QED
    BY <2>2, <2>3, <2>4
<1>3. \A T \in SUBSET S : T \in Good
  <2> HIDE DEF Good
  <2>1. \A T \in SUBSET S : T # {} /\ (\A x \in T : T \ {x} \in Good) => T \in Good
    BY <1>2, Zenon
  <2>2. QED
    BY <1>1, <2>1, SetInduction
<1>4. f = [T \in SUBSET S |-> f[T]] /\ g = [T \in SUBSET S |-> g[T]]
  BY DEF Adds
<1>5. QED
  BY <1>3, <1>4

\* A solution for a set is one for its subsets.
LEMMA AddsSubset ==
    ASSUME NEW S, NEW weight, NEW f, Adds(f, weight, S), NEW T \in SUBSET S
    PROVE  Adds([U \in SUBSET T |-> f[U]], weight, T)
<1> DEFINE g == [U \in SUBSET T |-> f[U]]
<1>1. ASSUME NEW U \in SUBSET T
      PROVE  g[U] = IF U = {} THEN 0 ELSE weight[Pick(U)] + g[U \ {Pick(U)}]
  <2>1. f[U] = IF U = {} THEN 0 ELSE weight[Pick(U)] + f[U \ {Pick(U)}]
    BY DEF Adds
  <2>2. U \ {Pick(U)} \in SUBSET T
    OBVIOUS
  <2>3. QED
    BY <2>1, <2>2
<1>2. QED
  BY <1>1 DEF Adds

\* The equation has a solution: glue the solutions for the smaller sets.
LEMMA AddsExists ==
    ASSUME NEW S, IsFiniteSet(S), NEW weight
    PROVE  \E sum : Adds(sum, weight, S)
<1> DEFINE Good == {T \in SUBSET S : \E sum : Adds(sum, weight, T)}
<1>1. {} \in Good
  <2>1. Adds([T \in SUBSET {} |-> 0], weight, {})
    BY DEF Adds
  <2>2. QED
    BY <2>1
<1>2. ASSUME NEW T \in SUBSET S, T # {}, \A x \in T : T \ {x} \in Good
      PROVE  T \in Good
  <2> DEFINE Solution(U) == CHOOSE sum : Adds(sum, weight, U)
             glued == [U \in SUBSET T |->
                          IF U = {} THEN 0
                          ELSE weight[Pick(U)] + Solution(U \ {Pick(U)})[U \ {Pick(U)}]]
  <2>1. ASSUME NEW U \in SUBSET T, U # T
        PROVE  /\ Adds(Solution(U), weight, U)
               /\ \A V \in SUBSET U : Solution(U)[V] = Solution(V)[V]
    <3>1. PICK x \in T : U \in SUBSET (T \ {x})
      BY <2>1
    <3>2. PICK sum : Adds(sum, weight, T \ {x})
      BY <1>2
    <3>3. ASSUME NEW V \in SUBSET U
          PROVE  Adds(Solution(V), weight, V)
      <4>1. \E f : Adds(f, weight, V)
        BY <3>1, <3>2, AddsSubset
      <4>2. QED
        BY <4>1
    <3>4. ASSUME NEW V \in SUBSET U
          PROVE  Solution(U)[V] = Solution(V)[V]
      <4>1. Adds([W \in SUBSET V |-> Solution(U)[W]], weight, V)
        <5> HIDE DEF Solution
        <5>1. QED
          BY <3>3, AddsSubset
      <4>2. IsFiniteSet(V)
        BY FS_Subset
      <4>3. [W \in SUBSET V |-> Solution(U)[W]] = Solution(V)
        <5> HIDE DEF Solution
        <5>1. QED
          BY <4>1, <4>2, <3>3, AddsUnique
      <4>4. [W \in SUBSET V |-> Solution(U)[W]][V] = Solution(U)[V]
        OBVIOUS
      <4>5. QED
        BY <4>3, <4>4
    <3> HIDE DEF Solution
    <3>5. QED
      BY <3>3, <3>4
  <2>2. ASSUME NEW U \in SUBSET T, U # {}
        PROVE  glued[U \ {Pick(U)}] = Solution(U \ {Pick(U)})[U \ {Pick(U)}]
    <3> DEFINE V == U \ {Pick(U)}
    <3>1. Pick(U) \in U /\ V \in SUBSET T /\ V # T
      BY <2>2 DEF Pick
    <3>2. Adds(Solution(V), weight, V)
      BY <2>1, <3>1
    <3>3. CASE V = {}
      <4> HIDE DEF Solution
      <4>1. Solution(V)[V] = 0
        BY <3>2, <3>3 DEF Adds
      <4>2. glued[V] = 0
        BY <3>1, <3>3
      <4>3. QED
        BY <4>1, <4>2
    <3>4. CASE V # {}
      <4> HIDE DEF Solution
      <4>1. Solution(V)[V] = weight[Pick(V)] + Solution(V)[V \ {Pick(V)}]
        BY <3>2, <3>4 DEF Adds
      <4>2. Solution(V)[V \ {Pick(V)}] = Solution(V \ {Pick(V)})[V \ {Pick(V)}]
        BY <2>1, <3>1
      <4>3. glued[V] = weight[Pick(V)] + Solution(V \ {Pick(V)})[V \ {Pick(V)}]
        BY <3>1, <3>4
      <4>4. QED
        BY <4>1, <4>2, <4>3
    <3>5. QED
      BY <3>3, <3>4
  <2>3. Adds(glued, weight, T)
    <3> HIDE DEF Solution
    <3>1. \A U \in SUBSET T :
              glued[U] = IF U = {} THEN 0 ELSE weight[Pick(U)] + glued[U \ {Pick(U)}]
      BY <2>2
    <3>2. QED
      BY <3>1 DEF Adds
  <2> HIDE DEF Solution, glued
  <2>4. \E sum : Adds(sum, weight, T)
    BY <2>3
  <2>5. QED
    BY <2>4
<1>3. S \in Good
  <2> HIDE DEF Good
  <2>1. \A T \in SUBSET S : T # {} /\ (\A x \in T : T \ {x} \in Good) => T \in Good
    BY <1>2, Zenon
  <2>2. \A T \in SUBSET S : T \in Good
    BY <1>1, <2>1, SetInduction
  <2>3. QED
    BY <2>2
<1>4. QED
  BY <1>3

-----------------------------------------------------------------------------
(* Sums. *)

\* The library adds by a solution of the equation.
LEMMA SumOfEquation ==
    ASSUME NEW S, NEW weight
    PROVE  SumOf(weight, S) = (CHOOSE sum : Adds(sum, weight, S))[S]
BY DEF SumOf, MapThenSumSet, MapThenFoldSet, Adds, Pick

LEMMA SumBySolution ==
    ASSUME NEW S, IsFiniteSet(S), NEW weight, NEW sum, Adds(sum, weight, S)
    PROVE  \A T \in SUBSET S : SumOf(weight, T) = sum[T]
<1> SUFFICES ASSUME NEW T \in SUBSET S PROVE SumOf(weight, T) = sum[T]
  OBVIOUS
<1> DEFINE restricted == [U \in SUBSET T |-> sum[U]]
           chosen == CHOOSE f : Adds(f, weight, T)
<1>1. Adds(restricted, weight, T)
  BY AddsSubset
<1>2. Adds(chosen, weight, T)
  <2> HIDE DEF restricted
  <2>1. QED
    BY <1>1
<1>3. chosen = restricted
  <2> HIDE DEF restricted, chosen
  <2>1. QED
    BY <1>1, <1>2, AddsUnique, FS_Subset
<1>4. QED
  BY <1>3, SumOfEquation

LEMMA SumOfEmpty ==
    ASSUME NEW weight
    PROVE  SumOf(weight, {}) = 0
<1>1. PICK sum : Adds(sum, weight, {})
  BY AddsExists, FS_EmptySet
<1>2. SumOf(weight, {}) = sum[{}]
  BY <1>1, SumBySolution, FS_EmptySet
<1>3. QED
  BY <1>1, <1>2 DEF Adds

LEMMA SumOfPick ==
    ASSUME NEW S, IsFiniteSet(S), S # {}, NEW weight
    PROVE  Pick(S) \in S /\ SumOf(weight, S) = weight[Pick(S)] + SumOf(weight, S \ {Pick(S)})
<1>1. PICK sum : Adds(sum, weight, S)
  BY AddsExists
<1>2. SumOf(weight, S) = sum[S] /\ SumOf(weight, S \ {Pick(S)}) = sum[S \ {Pick(S)}]
  BY <1>1, SumBySolution
<1>3. QED
  BY <1>1, <1>2 DEF Adds, Pick

LEMMA SumOfType ==
    ASSUME NEW S, IsFiniteSet(S), NEW weight, \A x \in S : weight[x] \in Nat
    PROVE  SumOf(weight, S) \in Nat
<1> DEFINE Good == {T \in SUBSET S : SumOf(weight, T) \in Nat}
<1>1. {} \in Good
  BY SumOfEmpty
<1>2. ASSUME NEW T \in SUBSET S, T # {}, \A x \in T : T \ {x} \in Good
      PROVE  T \in Good
  <2>1. Pick(T) \in T /\ SumOf(weight, T) = weight[Pick(T)] + SumOf(weight, T \ {Pick(T)})
    BY <1>2, SumOfPick, FS_Subset
  <2>2. QED
    BY <1>2, <2>1
<1>3. S \in Good
  <2> HIDE DEF Good
  <2>1. \A T \in SUBSET S : T # {} /\ (\A x \in T : T \ {x} \in Good) => T \in Good
    BY <1>2
  <2>2. \A T \in SUBSET S : T \in Good
    BY <1>1, <2>1, SetInduction
  <2>3. QED
    BY <2>2
<1>4. QED
  BY <1>3

\* The order of the terms does not matter.
LEMMA SumOfRemove ==
    ASSUME NEW S, IsFiniteSet(S), NEW weight, \A x \in S : weight[x] \in Nat, NEW e \in S
    PROVE  SumOf(weight, S) = weight[e] + SumOf(weight, S \ {e})
<1> DEFINE Good == {T \in SUBSET S :
                       \A x \in T : SumOf(weight, T) = weight[x] + SumOf(weight, T \ {x})}
<1>1. {} \in Good
  OBVIOUS
<1>2. ASSUME NEW T \in SUBSET S, T # {}, \A x \in T : T \ {x} \in Good
      PROVE  T \in Good
  <2> SUFFICES ASSUME NEW x \in T
               PROVE  SumOf(weight, T) = weight[x] + SumOf(weight, T \ {x})
    OBVIOUS
  <2> DEFINE p == Pick(T)
             rest == T \ {p, x}
  <2>1. p \in T /\ SumOf(weight, T) = weight[p] + SumOf(weight, T \ {p})
    BY <1>2, SumOfPick, FS_Subset
  <2>2. CASE x = p
    BY <2>1, <2>2
  <2>3. CASE x # p
    <3> HIDE DEF p
    <3>1. (T \ {p}) \ {x} = rest /\ (T \ {x}) \ {p} = rest
      OBVIOUS
    <3>2. x \in T \ {p} /\ p \in T \ {x}
      BY <2>1, <2>3
    <3>3. SumOf(weight, T \ {p}) = weight[x] + SumOf(weight, rest)
      BY <1>2, <2>1, <3>1, <3>2
    <3>4. SumOf(weight, T \ {x}) = weight[p] + SumOf(weight, rest)
      BY <1>2, <2>1, <3>1, <3>2
    <3>5. weight[x] \in Nat /\ weight[p] \in Nat /\ SumOf(weight, rest) \in Nat
      BY <2>1, FS_Subset, SumOfType
    <3> HIDE DEF rest
    <3>6. QED
      BY <2>1, <3>3, <3>4, <3>5
  <2>4. QED
    BY <2>2, <2>3
<1>3. S \in Good
  <2> HIDE DEF Good
  <2>1. \A T \in SUBSET S : T # {} /\ (\A x \in T : T \ {x} \in Good) => T \in Good
    BY <1>2
  <2>2. \A T \in SUBSET S : T \in Good
    BY <1>1, <2>1, SetInduction
  <2>3. QED
    BY <2>2
<1>4. QED
  BY <1>3

\* One element more: the sum grows by its term.
THEOREM SumOfAdd ==
    ASSUME NEW S, IsFiniteSet(S), NEW e, e \notin S,
           NEW weight, \A x \in S \cup {e} : weight[x] \in Nat
    PROVE  /\ IsFiniteSet(S \cup {e})
           /\ SumOf(weight, S \cup {e}) = weight[e] + SumOf(weight, S)
<1>1. IsFiniteSet(S \cup {e})
  BY FS_AddElement
<1>2. (S \cup {e}) \ {e} = S /\ e \in S \cup {e}
  OBVIOUS
<1>3. SumOf(weight, S \cup {e}) = weight[e] + SumOf(weight, (S \cup {e}) \ {e})
  BY <1>1, <1>2, SumOfRemove
<1>4. QED
  BY <1>1, <1>2, <1>3

\* The terms of a set go, one to one, into no smaller terms of another set.
LEMMA SumOfInjection ==
    ASSUME NEW S, IsFiniteSet(S), NEW T, IsFiniteSet(T),
           NEW weight, \A x \in S : weight[x] \in Nat,
           NEW other, \A y \in T : other[y] \in Nat,
           NEW f \in [S -> T], \A x, y \in S : f[x] = f[y] => x = y,
           \A x \in S : weight[x] <= other[f[x]]
    PROVE  SumOf(weight, S) <= SumOf(other, T)
<1> DEFINE Good == {U \in SUBSET S :
                      \A V \in SUBSET T :
                         (\A x \in U : f[x] \in V) => SumOf(weight, U) <= SumOf(other, V)}
<1>1. {} \in Good
  <2>1. ASSUME NEW V \in SUBSET T PROVE SumOf(other, V) \in Nat
    BY FS_Subset, SumOfType
  <2>2. QED
    BY <2>1, SumOfEmpty
<1>2. ASSUME NEW U \in SUBSET S, U # {}, \A x \in U : U \ {x} \in Good
      PROVE  U \in Good
  <2> SUFFICES ASSUME NEW V \in SUBSET T, \A x \in U : f[x] \in V
               PROVE  SumOf(weight, U) <= SumOf(other, V)
    OBVIOUS
  <2>1. PICK x \in U : TRUE
    BY <1>2
  <2> DEFINE W == V \ {f[x]}
  <2>2. IsFiniteSet(U) /\ IsFiniteSet(V) /\ IsFiniteSet(U \ {x}) /\ IsFiniteSet(W)
    BY FS_Subset
  <2>3. SumOf(weight, U) = weight[x] + SumOf(weight, U \ {x})
    BY <2>1, <2>2, SumOfRemove
  <2>4. SumOf(other, V) = other[f[x]] + SumOf(other, W)
    BY <2>1, <2>2, SumOfRemove
  <2>5. SumOf(weight, U \ {x}) <= SumOf(other, W)
    <3>1. W \in SUBSET T /\ \A y \in U \ {x} : f[y] \in W
      BY <2>1
    <3>2. U \ {x} \in Good
      BY <1>2, <2>1
    <3>3. QED
      BY <3>1, <3>2
  <2>6. /\ weight[x] \in Nat /\ other[f[x]] \in Nat /\ weight[x] <= other[f[x]]
        /\ SumOf(weight, U \ {x}) \in Nat /\ SumOf(other, W) \in Nat
    BY <2>1, <2>2, SumOfType
  <2> HIDE DEF W
  <2>7. QED
    BY <2>3, <2>4, <2>5, <2>6
<1>3. S \in Good
  <2> HIDE DEF Good
  <2>1. \A U \in SUBSET S : U # {} /\ (\A x \in U : U \ {x} \in Good) => U \in Good
    BY <1>2
  <2>2. \A U \in SUBSET S : U \in Good
    BY <1>1, <2>1, SetInduction
  <2>3. QED
    BY <2>2
<1>4. QED
  BY <1>3

\* A sum grows with the set and with its terms.
THEOREM SumOfMonotone ==
    ASSUME NEW T, IsFiniteSet(T), NEW S \in SUBSET T,
           NEW weight, \A x \in S : weight[x] \in Nat,
           NEW other, \A y \in T : other[y] \in Nat,
           \A x \in S : weight[x] <= other[x]
    PROVE  SumOf(weight, S) <= SumOf(other, T)
<1> DEFINE f == [x \in S |-> x]
<1>1. /\ f \in [S -> T] /\ \A x, y \in S : f[x] = f[y] => x = y
      /\ \A x \in S : weight[x] <= other[f[x]]
  OBVIOUS
<1>2. IsFiniteSet(S)
  BY FS_Subset
<1> HIDE DEF f
<1>3. QED
  BY <1>1, <1>2, SumOfInjection

\* The same terms have the same sum.
THEOREM SumOfCongruent ==
    ASSUME NEW S, IsFiniteSet(S), NEW weight, NEW other,
           \A x \in S : weight[x] \in Nat /\ other[x] = weight[x]
    PROVE  SumOf(weight, S) = SumOf(other, S)
<1>1. SumOf(weight, S) <= SumOf(other, S)
  BY SumOfMonotone
<1>2. SumOf(other, S) <= SumOf(weight, S)
  BY SumOfMonotone
<1>3. SumOf(weight, S) \in Nat /\ SumOf(other, S) \in Nat
  BY SumOfType
<1>4. QED
  BY <1>1, <1>2, <1>3

\* One term changes: the sum changes by as much.
LEMMA SumOfUpdate ==
    ASSUME NEW S, IsFiniteSet(S), NEW e,
           NEW weight, NEW other, \A x \in S : weight[x] \in Nat /\ other[x] \in Nat,
           \A x \in S \ {e} : other[x] = weight[x]
    PROVE  /\ e \in S => SumOf(other, S) + weight[e] = SumOf(weight, S) + other[e]
           /\ e \notin S => SumOf(other, S) = SumOf(weight, S)
<1>1. IsFiniteSet(S \ {e})
  BY FS_Subset
<1>2. SumOf(other, S \ {e}) = SumOf(weight, S \ {e}) /\ SumOf(weight, S \ {e}) \in Nat
  BY <1>1, SumOfCongruent, SumOfType
<1>3. CASE e \in S
  <2>1. SumOf(other, S) = other[e] + SumOf(other, S \ {e})
    BY <1>3, SumOfRemove
  <2>2. SumOf(weight, S) = weight[e] + SumOf(weight, S \ {e})
    BY <1>3, SumOfRemove
  <2>3. QED
    BY <1>2, <1>3, <2>1, <2>2
<1>4. CASE e \notin S
  <2>1. S \ {e} = S
    BY <1>4
  <2>2. QED
    BY <1>2, <1>4, <2>1
<1>5. QED
  BY <1>3, <1>4

\* Two sets, of which one may have a part of the other's elements.
THEOREM SumOfUnion ==
    ASSUME NEW S, IsFiniteSet(S), NEW T, IsFiniteSet(T),
           NEW weight, \A x \in S \cup T : weight[x] \in Nat
    PROVE  /\ SumOf(weight, S \cup T) <= SumOf(weight, S) + SumOf(weight, T)
           /\ S \cap T = {} => SumOf(weight, S \cup T) = SumOf(weight, S) + SumOf(weight, T)
<1> DEFINE Good == {U \in SUBSET S :
                      /\ SumOf(weight, U \cup T) <= SumOf(weight, U) + SumOf(weight, T)
                      /\ S \cap T = {} =>
                            SumOf(weight, U \cup T) = SumOf(weight, U) + SumOf(weight, T)}
<1>0. ASSUME NEW U \in SUBSET S
      PROVE  /\ IsFiniteSet(U) /\ IsFiniteSet(U \cup T)
             /\ SumOf(weight, U) \in Nat /\ SumOf(weight, U \cup T) \in Nat
             /\ SumOf(weight, T) \in Nat
  <2>1. IsFiniteSet(U) /\ IsFiniteSet(U \cup T)
    BY FS_Subset, FS_Union
  <2>2. QED
    BY <2>1, SumOfType
<1>1. {} \in Good
  <2>1. {} \cup T = T
    OBVIOUS
  <2>2. SumOf(weight, {}) = 0 /\ SumOf(weight, T) \in Nat
    BY SumOfEmpty, SumOfType
  <2>3. QED
    BY <2>1, <2>2
<1>2. ASSUME NEW U \in SUBSET S, U # {}, \A x \in U : U \ {x} \in Good
      PROVE  U \in Good
  <2>1. PICK x \in U : TRUE
    BY <1>2
  <2> DEFINE V == U \ {x}
  <2>2. V \in Good /\ V \in SUBSET S
    BY <1>2, <2>1
  <2>3. SumOf(weight, U) = weight[x] + SumOf(weight, V) /\ weight[x] \in Nat
    BY <1>0, <2>1, SumOfRemove
  <2>4. CASE x \in T
    <3>1. U \cup T = V \cup T /\ S \cap T # {}
      BY <2>1, <2>4
    <3>2. SumOf(weight, V \cup T) <= SumOf(weight, V) + SumOf(weight, T)
      BY <2>2
    <3> HIDE DEF V
    <3>3. SumOf(weight, U \cup T) <= SumOf(weight, U) + SumOf(weight, T)
      BY <1>0, <2>2, <2>3, <3>1, <3>2
    <3>4. QED
      BY <3>1, <3>3
  <2>5. CASE x \notin T
    <3>1. (U \cup T) \ {x} = V \cup T
      BY <2>1, <2>5
    <3>2. SumOf(weight, U \cup T) = weight[x] + SumOf(weight, V \cup T)
      <4>1. \A y \in U \cup T : weight[y] \in Nat
        OBVIOUS
      <4>2. x \in U \cup T /\ IsFiniteSet(U \cup T)
        BY <1>0, <2>1
      <4>3. SumOf(weight, U \cup T) = weight[x] + SumOf(weight, (U \cup T) \ {x})
        BY <4>1, <4>2, SumOfRemove
      <4>4. QED
        BY <3>1, <4>3
    <3>3. /\ SumOf(weight, V \cup T) <= SumOf(weight, V) + SumOf(weight, T)
          /\ S \cap T = {} => SumOf(weight, V \cup T) = SumOf(weight, V) + SumOf(weight, T)
      BY <2>2
    <3>4. /\ SumOf(weight, V) \in Nat /\ SumOf(weight, V \cup T) \in Nat
          /\ SumOf(weight, T) \in Nat
      BY <1>0, <2>2
    <3> HIDE DEF V
    <3>5. /\ SumOf(weight, U \cup T) <= SumOf(weight, U) + SumOf(weight, T)
          /\ S \cap T = {} =>
                SumOf(weight, U \cup T) = SumOf(weight, U) + SumOf(weight, T)
      BY <2>3, <3>2, <3>3, <3>4
    <3>6. QED
      BY <3>5
  <2>6. QED
    BY <2>4, <2>5
<1>3. S \in Good
  <2> HIDE DEF Good
  <2>1. \A U \in SUBSET S : U # {} /\ (\A x \in U : U \ {x} \in Good) => U \in Good
    BY <1>2
  <2>2. \A U \in SUBSET S : U \in Good
    BY <1>1, <2>1, SetInduction
  <2>3. QED
    BY <2>2
<1>4. QED
  BY <1>3
================================================================================
