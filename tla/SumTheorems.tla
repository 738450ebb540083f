----------------------------- MODULE SumTheorems -----------------------------
(*************************************************************************)
(* Facts the proofs of several modules share: sums over finite sets of   *)
(* indices with integer values (SumFunction and SumFunctionOnSet of the  *)
(* community module Functions); least and unbeaten elements and ranks;   *)
(* induction and recursion over the natural numbers.                     *)
(*                                                                       *)
(* The community modules define the sum by a recursive function on the   *)
(* subsets of the indices, that is, by CHOOSE.  That there is such a     *)
(* function, that there is only one, and what it computes is shown by    *)
(* taking a minimal counterexample among the finite subsets (WFMin), and *)
(* recursion over the naturals by taking the least one (LeastNatural).   *)
(*************************************************************************)
EXTENDS Integers, FiniteSets, Functions, FiniteSetTheorems, TLAPS

\* The index the recursion takes out of T first.
Pick(T) == CHOOSE x \in T : TRUE

\* g is the recursive function that sums f over the subsets of T.
Sums(g, f, T) ==
  g = [s \in SUBSET T |-> IF s = {} THEN 0 ELSE f[Pick(s)] + g[s \ {Pick(s)}]]

LEMMA PickInside == ASSUME NEW T, T # {} PROVE Pick(T) \in T
  BY DEF Pick

\* Induction over finite sets, as a minimal element of a set of subsets.
LEMMA SmallestSubset ==
  ASSUME NEW S, IsFiniteSet(S), NEW Bad \in SUBSET SUBSET S, Bad # {}
  PROVE  \E T \in Bad : \A U \in SUBSET T : U # T => U \notin Bad
<1>1. Bad \subseteq FiniteSubsetsOf(S)  BY FS_FiniteSubsetsOfFinite
<1>2. PICK T \in Bad : \A U \in Bad : ~ (<<U, T>> \in StrictSubsetOrdering(S))
  BY <1>1, FS_StrictSubsetOrderingWellFounded, WFMin
<1> QED  BY <1>2 DEF StrictSubsetOrdering

LEMMA SumsAtEmpty == ASSUME NEW f, NEW T, NEW g, Sums(g, f, T) PROVE g[{}] = 0
  BY DEF Sums

LEMMA SumsAt ==
  ASSUME NEW f, NEW T, NEW g, Sums(g, f, T), NEW s \in SUBSET T, s # {}
  PROVE  g[s] = f[Pick(s)] + g[s \ {Pick(s)}]
  BY DEF Sums

\* Such functions agree where both are defined.
LEMMA SumsAgree ==
  ASSUME NEW f, NEW T, IsFiniteSet(T), NEW g, Sums(g, f, T),
         NEW U, NEW h, Sums(h, f, U), T \subseteq U
  PROVE  g[T] = h[T]
<1> DEFINE Bad == {s \in SUBSET T : g[s] # h[s]}
<1> SUFFICES ASSUME Bad # {} PROVE FALSE  OBVIOUS
<1>1. PICK s \in Bad : \A u \in SUBSET s : u # s => u \notin Bad
  <2>1. Bad \in SUBSET SUBSET T  OBVIOUS
  <2> HIDE DEF Bad
  <2> QED  BY <2>1, SmallestSubset
<1>2. s # {}  BY SumsAtEmpty
<1>3. Pick(s) \in s  BY <1>2, PickInside
<1>4. s \ {Pick(s)} \in SUBSET s /\ s \ {Pick(s)} # s  BY <1>3
<1>5. g[s \ {Pick(s)}] = h[s \ {Pick(s)}]  BY <1>1, <1>4
<1>6. g[s] = f[Pick(s)] + g[s \ {Pick(s)}]  BY <1>2 DEF Sums
<1>7. h[s] = f[Pick(s)] + h[s \ {Pick(s)}]  BY <1>2 DEF Sums
<1> QED  BY <1>1, <1>5, <1>6, <1>7

LEMMA SumsExist ==
  ASSUME NEW f, NEW S, IsFiniteSet(S)
  PROVE  \E g : Sums(g, f, S)
<1> DEFINE Bad == {s \in SUBSET S : ~ \E g : Sums(g, f, s)}
<1> SUFFICES ASSUME Bad # {} PROVE FALSE  OBVIOUS
<1>1. PICK s \in Bad : \A u \in SUBSET s : u # s => u \notin Bad
  <2>1. Bad \in SUBSET SUBSET S  OBVIOUS
  <2> HIDE DEF Bad
  <2> QED  BY <2>1, SmallestSubset
<1>2. \A u \in SUBSET s : u # s => \E g : Sums(g, f, u)  BY <1>1
<1> DEFINE sum(u) == CHOOSE g : Sums(g, f, u)
           value(u) == sum(u)[u]
           total(u) == IF u = {} THEN 0 ELSE f[Pick(u)] + value(u \ {Pick(u)})
           all == [u \in SUBSET s |-> total(u)]
<1>3. \A u \in SUBSET s : u # s => Sums(sum(u), f, u)  BY <1>2
<1>4. \A u \in SUBSET s : IsFiniteSet(u)  BY <1>1, FS_Subset
<1>5. ASSUME NEW u \in SUBSET s, u # s PROVE all[u] = value(u)
  <2>1. CASE u = {}
    <3>1. Sums(sum(u), f, u)  BY <1>3, <1>5
    <3> HIDE DEF sum
    <3>2. value(u) = 0  BY <2>1, <3>1, SumsAtEmpty
    <3> QED  BY <2>1, <3>2
  <2>2. CASE u # {}
    <3> DEFINE v == u \ {Pick(u)}
    <3>1. Pick(u) \in u  BY <2>2, PickInside
    <3>2. v \in SUBSET s /\ v # s /\ v \subseteq u  BY <3>1
    <3>3. Sums(sum(u), f, u) /\ Sums(sum(v), f, v)  BY <1>3, <1>5, <3>2
    <3>4. IsFiniteSet(v)  BY <1>4, <3>2
    <3> HIDE DEF sum, v
    <3>5. sum(v)[v] = sum(u)[v]  BY <3>2, <3>3, <3>4, SumsAgree
    <3>6. sum(u)[u] = f[Pick(u)] + sum(u)[v]  BY <2>2, <3>3, SumsAt DEF v
    <3> QED  BY <2>2, <3>5, <3>6 DEF v
  <2> QED  BY <2>1, <2>2
<1>6. ASSUME NEW u \in SUBSET s, u # {} PROVE all[u] = f[Pick(u)] + all[u \ {Pick(u)}]
  <2>1. Pick(u) \in u  BY <1>6, PickInside
  <2>2. u \ {Pick(u)} \in SUBSET s /\ u \ {Pick(u)} # s  BY <2>1
  <2>3. all[u \ {Pick(u)}] = value(u \ {Pick(u)})  BY <1>5, <2>2
  <2> HIDE DEF value
  <2> QED  BY <1>6, <2>3
<1>7. all[{}] = 0  OBVIOUS
<1> HIDE DEF total
<1>8. all = [u \in SUBSET s |-> all[u]]  OBVIOUS
<1> HIDE DEF all
<1>9. Sums(all, f, s)  BY <1>6, <1>7, <1>8 DEF Sums
<1> QED  BY <1>1, <1>9

-----------------------------------------------------------------------------
(* What the sums of the community module are *)

\* The sum over a finite set of indices takes out one index after another.
LEMMA SumOnRecursion ==
  ASSUME NEW f, NEW T, IsFiniteSet(T)
  PROVE  /\ SumFunctionOnSet(f, {}) = 0
         /\ T # {} => SumFunctionOnSet(f, T)
                        = f[Pick(T)] + SumFunctionOnSet(f, T \ {Pick(T)})
<1> DEFINE Of(U) == CHOOSE g : Sums(g, f, U)
<1>1. \A U : SumFunctionOnSet(f, U) = Of(U)[U]
  BY DEF SumFunctionOnSet, FoldFunctionOnSet, MapThenFoldSet, Sums, Pick
<1>2. ASSUME NEW U, IsFiniteSet(U) PROVE Sums(Of(U), f, U)
  BY <1>2, SumsExist
<1> HIDE DEF Of
<1>3. SumFunctionOnSet(f, {}) = 0
  BY <1>1, <1>2, FS_EmptySet, SumsAtEmpty
<1>4. ASSUME T # {}
      PROVE  SumFunctionOnSet(f, T) = f[Pick(T)] + SumFunctionOnSet(f, T \ {Pick(T)})
  <2> DEFINE U == T \ {Pick(T)}
  <2>1. IsFiniteSet(U) /\ U \subseteq T  BY FS_Subset
  <2>2. Sums(Of(T), f, T) /\ Sums(Of(U), f, U)  BY <1>2, <2>1
  <2>3. Of(U)[U] = Of(T)[U]  BY <2>1, <2>2, SumsAgree
  <2>4. Of(T)[T] = f[Pick(T)] + Of(T)[U]  BY <1>4, <2>2, SumsAt
  <2> QED  BY <1>1, <2>3, <2>4
<1> QED  BY <1>3, <1>4

\* A sum of integers is an integer, and any of its indices may be taken out of it.
THEOREM SumOnSplit ==
  ASSUME NEW T, IsFiniteSet(T), NEW f, \A t \in T : f[t] \in Int
  PROVE  /\ SumFunctionOnSet(f, T) \in Int
         /\ \A x \in T : SumFunctionOnSet(f, T) = f[x] + SumFunctionOnSet(f, T \ {x})
<1> DEFINE Sum(U) == SumFunctionOnSet(f, U)
           Good(U) == Sum(U) \in Int /\ \A x \in U : Sum(U) = f[x] + Sum(U \ {x})
           Bad == {U \in SUBSET T : ~ Good(U)}
<1> SUFFICES ASSUME Bad # {} PROVE FALSE  OBVIOUS
<1>1. PICK U \in Bad : \A V \in SUBSET U : V # U => V \notin Bad
  <2>1. Bad \in SUBSET SUBSET T  OBVIOUS
  <2> HIDE DEF Bad
  <2> QED  BY <2>1, SmallestSubset
<1>2. U \in SUBSET T /\ IsFiniteSet(U) /\ ~ Good(U)  BY <1>1, FS_Subset
<1>3. \A V \in SUBSET U : V # U => Good(V)  BY <1>1, <1>2
<1>4. \A V \in SUBSET T : IsFiniteSet(V)  BY FS_Subset
<1>5. U # {}
  <2> SUFFICES ASSUME U = {} PROVE FALSE  OBVIOUS
  <2>1. Sum({}) = 0  BY <1>2, SumOnRecursion
  <2> QED  BY <1>2, <2>1
<1> DEFINE p == Pick(U)
<1>6. p \in U  BY <1>5, PickInside
<1>7. Sum(U) = f[p] + Sum(U \ {p})  BY <1>2, <1>5, SumOnRecursion
<1>8. Sum(U \ {p}) \in Int /\ f[p] \in Int  BY <1>2, <1>3, <1>6
<1> HIDE DEF Sum, p
<1>9. Sum(U) \in Int  BY <1>7, <1>8
<1>10. ASSUME NEW x \in U PROVE Sum(U) = f[x] + Sum(U \ {x})
  <2>1. CASE x = p  BY <1>7, <2>1
  <2>2. CASE x # p
    <3> DEFINE V == (U \ {p}) \ {x}
    <3>1. V = (U \ {x}) \ {p}  OBVIOUS
    <3>2. Sum(U \ {p}) = f[x] + Sum(V)  BY <1>3, <1>6, <2>2
    <3>3. Sum(U \ {x}) = f[p] + Sum(V)  BY <1>3, <1>6, <2>2, <3>1
    <3>4. Sum(V) \in Int  BY <1>3, <1>6
    <3>5. f[x] \in Int  BY <1>2
    <3> HIDE DEF V
    <3> QED  BY <1>7, <1>8, <3>2, <3>3, <3>4, <3>5
  <2> QED  BY <2>1, <2>2
<1> QED  BY <1>2, <1>9, <1>10

\* Sums of what is the same are the same.
THEOREM SumOnSame ==
  ASSUME NEW T, IsFiniteSet(T), NEW f, NEW g, \A t \in T : f[t] = g[t]
  PROVE  SumFunctionOnSet(f, T) = SumFunctionOnSet(g, T)
<1> DEFINE Bad == {U \in SUBSET T : SumFunctionOnSet(f, U) # SumFunctionOnSet(g, U)}
<1> SUFFICES ASSUME Bad # {} PROVE FALSE  OBVIOUS
<1>1. PICK U \in Bad : \A V \in SUBSET U : V # U => V \notin Bad
  <2>1. Bad \in SUBSET SUBSET T  OBVIOUS
  <2> HIDE DEF Bad
  <2> QED  BY <2>1, SmallestSubset
<1>2. U \in SUBSET T /\ IsFiniteSet(U)  BY <1>1, FS_Subset
<1>3. CASE U = {}
  <2>1. SumFunctionOnSet(f, U) = 0 /\ SumFunctionOnSet(g, U) = 0  BY <1>2, <1>3, SumOnRecursion
  <2> QED  BY <1>1, <2>1
<1>4. CASE U # {}
  <2> DEFINE V == U \ {Pick(U)}
  <2>1. Pick(U) \in U  BY <1>4, PickInside
  <2>2. V \in SUBSET U /\ V # U /\ V \in SUBSET T  BY <1>2, <2>1
  <2>3. SumFunctionOnSet(f, V) = SumFunctionOnSet(g, V)  BY <1>1, <2>2
  <2>4. SumFunctionOnSet(f, U) = f[Pick(U)] + SumFunctionOnSet(f, V)
    BY <1>2, <1>4, SumOnRecursion
  <2>5. SumFunctionOnSet(g, U) = g[Pick(U)] + SumFunctionOnSet(g, V)
    BY <1>2, <1>4, SumOnRecursion
  <2> QED  BY <1>1, <1>2, <2>1, <2>3, <2>4, <2>5
<1> QED  BY <1>3, <1>4

\* A sum over nothing but zeros is zero.
THEOREM SumOnZeros ==
  ASSUME NEW T, IsFiniteSet(T), NEW f, \A t \in T : f[t] = 0
  PROVE  SumFunctionOnSet(f, T) = 0
<1> DEFINE Bad == {U \in SUBSET T : SumFunctionOnSet(f, U) # 0}
<1> SUFFICES ASSUME Bad # {} PROVE FALSE  OBVIOUS
<1>1. PICK U \in Bad : \A V \in SUBSET U : V # U => V \notin Bad
  <2>1. Bad \in SUBSET SUBSET T  OBVIOUS
  <2> HIDE DEF Bad
  <2> QED  BY <2>1, SmallestSubset
<1>2. U \in SUBSET T /\ IsFiniteSet(U)  BY <1>1, FS_Subset
<1>3. U # {}  BY <1>1, <1>2, SumOnRecursion
<1> DEFINE V == U \ {Pick(U)}
<1>4. Pick(U) \in U  BY <1>3, PickInside
<1>5. V \in SUBSET U /\ V # U /\ V \in SUBSET T  BY <1>2, <1>4
<1>6. SumFunctionOnSet(f, V) = 0  BY <1>1, <1>5
<1>7. SumFunctionOnSet(f, U) = f[Pick(U)] + SumFunctionOnSet(f, V)
  BY <1>2, <1>3, SumOnRecursion
<1> QED  BY <1>1, <1>2, <1>4, <1>6, <1>7

\* Indices at which there is nothing do not count.
THEOREM SumOnExtended ==
  ASSUME NEW T, IsFiniteSet(T), NEW S \in SUBSET T, NEW f,
         \A t \in T : f[t] \in Int, \A t \in T \ S : f[t] = 0
  PROVE  SumFunctionOnSet(f, T) = SumFunctionOnSet(f, S)
<1> DEFINE Sum(U) == SumFunctionOnSet(f, U)
           Bad == {U \in SUBSET T : S \subseteq U /\ Sum(U) # Sum(S)}
<1> SUFFICES ASSUME Bad # {} PROVE FALSE  OBVIOUS
<1>1. PICK U \in Bad : \A V \in SUBSET U : V # U => V \notin Bad
  <2>1. Bad \in SUBSET SUBSET T  OBVIOUS
  <2> HIDE DEF Bad
  <2> QED  BY <2>1, SmallestSubset
<1>2. U \in SUBSET T /\ IsFiniteSet(U) /\ S \subseteq U /\ Sum(U) # Sum(S)  BY <1>1, FS_Subset
<1>3. PICK x \in U : x \notin S  BY <1>2
<1>4. Sum(U) = f[x] + Sum(U \ {x})  BY <1>2, SumOnSplit
<1>5. Sum(U \ {x}) = Sum(S)
  <2>1. U \ {x} \in SUBSET U /\ U \ {x} # U /\ U \ {x} \in SUBSET T /\ S \subseteq U \ {x}
    BY <1>2, <1>3
  <2> QED  BY <1>1, <2>1
<1>6. Sum(S) \in Int
  <2>1. IsFiniteSet(S)  BY FS_Subset
  <2> QED  BY <2>1, SumOnSplit
<1>7. f[x] = 0  BY <1>2, <1>3
<1> HIDE DEF Sum
<1> QED  BY <1>2, <1>4, <1>5, <1>6, <1>7

\* The sum of a sum at each index is the sum of the sums.
THEOREM SumOnAdded ==
  ASSUME NEW T, IsFiniteSet(T), NEW f, NEW g, NEW h,
         \A t \in T : f[t] \in Int /\ g[t] \in Int /\ h[t] = f[t] + g[t]
  PROVE  SumFunctionOnSet(h, T) = SumFunctionOnSet(f, T) + SumFunctionOnSet(g, T)
<1> DEFINE F(U) == SumFunctionOnSet(f, U)
           G(U) == SumFunctionOnSet(g, U)
           H(U) == SumFunctionOnSet(h, U)
           Bad == {U \in SUBSET T : H(U) # F(U) + G(U)}
<1> SUFFICES ASSUME Bad # {} PROVE FALSE  OBVIOUS
<1>1. PICK U \in Bad : \A V \in SUBSET U : V # U => V \notin Bad
  <2>1. Bad \in SUBSET SUBSET T  OBVIOUS
  <2> HIDE DEF Bad
  <2> QED  BY <2>1, SmallestSubset
<1>2. U \in SUBSET T /\ IsFiniteSet(U) /\ H(U) # F(U) + G(U)  BY <1>1, FS_Subset
<1>3. CASE U = {}
  <2>1. F(U) = 0 /\ G(U) = 0 /\ H(U) = 0  BY <1>2, <1>3, SumOnRecursion
  <2> QED  BY <1>2, <2>1
<1>4. CASE U # {}
  <2> DEFINE x == Pick(U)
             V == U \ {x}
  <2>1. x \in U  BY <1>4, PickInside
  <2>2. V \in SUBSET U /\ V # U /\ V \in SUBSET T /\ IsFiniteSet(V)  BY <1>2, <2>1, FS_Subset
  <2>3. H(V) = F(V) + G(V)  BY <1>1, <2>2
  <2>4. F(U) = f[x] + F(V) /\ G(U) = g[x] + G(V) /\ H(U) = h[x] + H(V)
    BY <1>2, <1>4, SumOnRecursion
  <2>5. F(V) \in Int /\ G(V) \in Int  BY <2>2, SumOnSplit
  <2>6. f[x] \in Int /\ g[x] \in Int /\ h[x] = f[x] + g[x]  BY <1>2, <2>1
  <2> HIDE DEF F, G, H, V, x
  <2> QED  BY <1>2, <2>3, <2>4, <2>5, <2>6
<1> QED  BY <1>3, <1>4

\* The sum after one of its summands has changed.
THEOREM SumOnChanged ==
  ASSUME NEW T, IsFiniteSet(T), NEW f, NEW g, NEW x \in T,
         \A t \in T : f[t] \in Int /\ g[t] \in Int,
         \A t \in T \ {x} : f[t] = g[t]
  PROVE  SumFunctionOnSet(g, T) = SumFunctionOnSet(f, T) - f[x] + g[x]
<1> DEFINE F(U) == SumFunctionOnSet(f, U)
           G(U) == SumFunctionOnSet(g, U)
<1>1. IsFiniteSet(T \ {x})  BY FS_RemoveElement
<1>2. F(T) = f[x] + F(T \ {x}) /\ G(T) = g[x] + G(T \ {x})  BY SumOnSplit
<1>3. F(T \ {x}) = G(T \ {x})  BY <1>1, SumOnSame
<1>4. F(T \ {x}) \in Int  BY <1>1, SumOnSplit
<1> HIDE DEF F, G
<1>5. f[x] \in Int /\ g[x] \in Int  OBVIOUS
<1>6. G(T) = F(T) - f[x] + g[x]  BY <1>2, <1>3, <1>4, <1>5
<1> QED  BY <1>6 DEF F, G

\* A sum is the sum over some of the indices and that over the others.
THEOREM SumOnParts ==
  ASSUME NEW T, IsFiniteSet(T), NEW S \in SUBSET T, NEW f, \A t \in T : f[t] \in Int
  PROVE  SumFunctionOnSet(f, T) = SumFunctionOnSet(f, S) + SumFunctionOnSet(f, T \ S)
<1> DEFINE in == [t \in T |-> IF t \in S THEN f[t] ELSE 0]
           out == [t \in T |-> IF t \in S THEN 0 ELSE f[t]]
<1>1. /\ \A t \in T : in[t] \in Int /\ out[t] \in Int /\ f[t] = in[t] + out[t]
      /\ \A t \in S : in[t] = f[t]
      /\ \A t \in T \ S : out[t] = f[t]
      /\ \A t \in T \ S : in[t] = 0
      /\ \A t \in S : out[t] = 0
  OBVIOUS
<1> HIDE DEF in, out
<1>2. IsFiniteSet(S) /\ IsFiniteSet(T \ S)  BY FS_Subset
<1>3. SumFunctionOnSet(f, T) = SumFunctionOnSet(in, T) + SumFunctionOnSet(out, T)
  BY <1>1, SumOnAdded
<1>4. SumFunctionOnSet(in, T) = SumFunctionOnSet(in, S)  BY <1>1, SumOnExtended
<1>5. SumFunctionOnSet(out, T) = SumFunctionOnSet(out, T \ S)
  <2>1. T \ S \in SUBSET T /\ \A t \in T \ (T \ S) : out[t] = 0  BY <1>1
  <2> QED  BY <1>1, <2>1, SumOnExtended
<1>6. SumFunctionOnSet(in, S) = SumFunctionOnSet(f, S)  BY <1>1, <1>2, SumOnSame
<1>7. SumFunctionOnSet(out, T \ S) = SumFunctionOnSet(f, T \ S)  BY <1>1, <1>2, SumOnSame
<1> QED  BY <1>3, <1>4, <1>5, <1>6, <1>7

\* What is summed may be taken for a function on the whole of a larger set.
THEOREM SumOnFiltered ==
  ASSUME NEW T, IsFiniteSet(T), NEW S \in SUBSET T, NEW f, \A t \in S : f[t] \in Int
  PROVE  SumFunctionOnSet(f, S)
           = SumFunctionOnSet([t \in T |-> IF t \in S THEN f[t] ELSE 0], T)
<1> DEFINE g == [t \in T |-> IF t \in S THEN f[t] ELSE 0]
<1>1. /\ \A t \in T : g[t] \in Int
      /\ \A t \in S : g[t] = f[t]
      /\ \A t \in T \ S : g[t] = 0
  OBVIOUS
<1> HIDE DEF g
<1>2. IsFiniteSet(S)  BY FS_Subset
<1>3. SumFunctionOnSet(g, T) = SumFunctionOnSet(g, S)  BY <1>1, SumOnExtended
<1>4. SumFunctionOnSet(g, S) = SumFunctionOnSet(f, S)  BY <1>1, <1>2, SumOnSame
<1> QED  BY <1>3, <1>4 DEF g

\* The sum of the opposite values.
THEOREM SumOnNegated ==
  ASSUME NEW T, IsFiniteSet(T), NEW f, NEW g,
         \A t \in T : f[t] \in Int /\ g[t] = -f[t]
  PROVE  SumFunctionOnSet(g, T) = -SumFunctionOnSet(f, T)
<1> DEFINE zero == [t \in T |-> 0]
<1>1. \A t \in T : f[t] \in Int /\ g[t] \in Int /\ zero[t] = f[t] + g[t]  OBVIOUS
<1>2. \A t \in T : zero[t] = 0  OBVIOUS
<1> HIDE DEF zero
<1>3. SumFunctionOnSet(zero, T) = SumFunctionOnSet(f, T) + SumFunctionOnSet(g, T)
  BY <1>1, SumOnAdded
<1>4. SumFunctionOnSet(zero, T) = 0  BY <1>2, SumOnZeros
<1>5. SumFunctionOnSet(f, T) \in Int /\ SumFunctionOnSet(g, T) \in Int
  BY <1>1, SumOnSplit
<1> QED  BY <1>3, <1>4, <1>5

-----------------------------------------------------------------------------
(* Least and greatest elements *)

\* A set of natural numbers has a least one.
THEOREM LeastNatural ==
  ASSUME NEW S \in SUBSET Nat, S # {}
  PROVE  \E n \in S : \A m \in S : n <= m
<1>1. PICK n \in S : \A m \in S : ~ (<<m, n>> \in OpToRel(<, Nat))
  BY NatLessThanWellFounded, WFMin
<1>2. \A m \in S : ~ (m < n)  BY <1>1 DEF OpToRel
<1> QED  BY <1>2

\* Of finitely many things some are beaten by none, if what beats what is a
\* transitive relation and nothing beats itself.
THEOREM UnbeatenExists ==
  ASSUME NEW C, IsFiniteSet(C), C # {}, NEW R \in SUBSET (C \X C),
         \A x \in C : <<x, x>> \notin R,
         \A x, y, z \in C : <<x, y>> \in R /\ <<y, z>> \in R => <<x, z>> \in R
  PROVE  \E m \in C : \A x \in C : <<x, m>> \notin R
<1> DEFINE Unbeaten(m, T) == m \in T /\ \A x \in T : <<x, m>> \notin R
           Bad == {T \in SUBSET C : T # {} /\ \A m \in T : ~ Unbeaten(m, T)}
<1> SUFFICES ASSUME C \in Bad PROVE FALSE  OBVIOUS
<1>1. PICK T \in Bad : \A U \in SUBSET T : U # T => U \notin Bad
  <2>1. Bad \in SUBSET SUBSET C /\ Bad # {}  OBVIOUS
  <2> HIDE DEF Bad
  <2> QED  BY <2>1, SmallestSubset
<1>2. PICK x \in T : TRUE  OBVIOUS
<1>3. CASE T = {x}
  BY <1>3
<1>4. CASE T # {x}
  <2>1. T \ {x} # {} /\ T \ {x} \in SUBSET T /\ T \ {x} # T  BY <1>2, <1>4
  <2>2. PICK m \in T \ {x} : \A y \in T \ {x} : <<y, m>> \notin R
    BY <1>1, <2>1
  <2>3. <<x, m>> \in R  BY <1>2, <2>2
  <2>4. PICK y \in T : <<y, x>> \in R  BY <1>2
  <2>5. <<y, m>> \in R  BY <1>2, <2>2, <2>3, <2>4
  <2> QED  BY <1>2, <2>2, <2>4, <2>5
<1> QED  BY <1>3, <1>4

\* R is a strict linear order of S.
LinearOrder(S, R) ==
  /\ R \subseteq S \X S
  /\ \A x \in S : <<x, x>> \notin R
  /\ \A x, y, z \in S : <<x, y>> \in R /\ <<y, z>> \in R => <<x, z>> \in R
  /\ \A x, y \in S : x # y => <<x, y>> \in R \/ <<y, x>> \in R

\* The place of each element of S in its order R.
Rank(S, R) == [x \in S |-> Cardinality({y \in S : <<y, x>> \in R}) + 1]

\* In a finite set with a linear order the ranks of the elements are 1, 2, 3 ...,
\* each once and in their order.
THEOREM Ranks ==
  ASSUME NEW S, IsFiniteSet(S), NEW R, LinearOrder(S, R), NEW rank, rank = Rank(S, R)
  PROVE  /\ rank \in [S -> 1..Cardinality(S)]
         /\ \A x, y \in S : <<x, y>> \in R => rank[x] < rank[y]
         /\ \A x, y \in S : rank[x] = rank[y] => x = y
         /\ \A k \in 1..Cardinality(S) : \E x \in S : rank[x] = k
<1> DEFINE Below(x) == {y \in S : <<y, x>> \in R}
           N == Cardinality(S)
<1>0. /\ R \subseteq S \X S
      /\ \A x \in S : <<x, x>> \notin R
      /\ \A x, y, z \in S : <<x, y>> \in R /\ <<y, z>> \in R => <<x, z>> \in R
      /\ \A x, y \in S : x # y => <<x, y>> \in R \/ <<y, x>> \in R
  BY DEF LinearOrder
<1>1. N \in Nat  BY FS_CardinalityType
<1>2. ASSUME NEW x \in S
      PROVE  IsFiniteSet(Below(x)) /\ Cardinality(Below(x)) \in Nat
  BY FS_Subset, FS_CardinalityType
<1>3. ASSUME NEW x \in S PROVE Cardinality(Below(x)) + 1 \in 1..N
  <2>1. Below(x) \subseteq S \ {x} /\ x \in S  BY <1>0
  <2>2. IsFiniteSet(S \ {x}) /\ Cardinality(S \ {x}) = N - 1  BY FS_RemoveElement
  <2> HIDE DEF Below, N
  <2>3. Cardinality(Below(x)) <= N - 1  BY <2>1, <2>2, FS_Subset
  <2> QED  BY <1>1, <1>2, <2>3
<1>4. ASSUME NEW x \in S, NEW y \in S, <<x, y>> \in R
      PROVE  Cardinality(Below(x)) < Cardinality(Below(y))
  <2>1. Below(x) \cup {x} \subseteq Below(y) /\ x \notin Below(x)  BY <1>0, <1>4
  <2> HIDE DEF Below
  <2>2. Cardinality(Below(x) \cup {x}) = Cardinality(Below(x)) + 1
    BY <1>2, <2>1, FS_AddElement
  <2>3. Cardinality(Below(x) \cup {x}) <= Cardinality(Below(y))  BY <1>2, <2>1, FS_Subset
  <2> QED  BY <1>2, <2>2, <2>3
<1>5. \A x \in S : rank[x] = Cardinality(Below(x)) + 1  BY DEF Rank
<1>6. rank = [x \in S |-> rank[x]]  BY DEF Rank
<1> HIDE DEF Below
<1>7. \A x \in S : rank[x] \in 1..N  BY <1>3, <1>5
<1>8. rank \in [S -> 1..N]  BY <1>6, <1>7
<1>9. \A x, y \in S : <<x, y>> \in R => rank[x] < rank[y]  BY <1>2, <1>4, <1>5
<1>10. \A x, y \in S : rank[x] = rank[y] => x = y
  <2> SUFFICES ASSUME NEW x \in S, NEW y \in S, x # y PROVE rank[x] # rank[y]  OBVIOUS
  <2>1. rank[x] < rank[y] \/ rank[y] < rank[x]  BY <1>0, <1>9
  <2>2. rank[x] \in Int /\ rank[y] \in Int  BY <1>7
  <2> QED  BY <2>1, <2>2
<1>11. \A k \in 1..N : \E x \in S : rank[x] = k
  <2>1. rank \in Injection(S, 1..N)  BY <1>8, <1>10 DEF Injection, IsInjective
  <2>2. IsFiniteSet(1..N) /\ Cardinality(1..N) = N  BY <1>1, FS_Interval
  <2>3. rank \in Surjection(S, 1..N)  BY <2>1, <2>2, FS_Injection
  <2> QED  BY <2>3 DEF Surjection
<1> QED  BY <1>8, <1>9, <1>10, <1>11

\* Numbers from 1 to n that increase from each to the next are 1, 2, ... n.
THEOREM IncreasingIsIdentity ==
  ASSUME NEW n \in Nat, NEW f \in [1..n -> 1..n], \A i, j \in 1..n : i < j => f[i] < f[j]
  PROVE  \A i \in 1..n : f[i] = i
<1>1. \A i \in 1..n : f[i] \in 1..n  OBVIOUS
<1>2. \A i \in 1..n : f[i] >= i
  <2> DEFINE Bad == {i \in 1..n : ~ (f[i] >= i)}
  <2> SUFFICES ASSUME Bad # {} PROVE FALSE  OBVIOUS
  <2>1. PICK i \in Bad : \A j \in Bad : i <= j
    <3>1. Bad \in SUBSET Nat  OBVIOUS
    <3> HIDE DEF Bad
    <3> QED  BY <3>1, LeastNatural
  <2>2. i \in 1..n /\ f[i] < i  BY <1>1, <2>1
  <2>3. i - 1 \in 1..n /\ i - 1 < i  BY <1>1, <2>2
  <2>4. f[i - 1] >= i - 1  BY <2>1, <2>2, <2>3
  <2>5. f[i - 1] < f[i]  BY <2>2, <2>3
  <2> QED  BY <1>1, <2>2, <2>3, <2>4, <2>5
<1>3. \A i \in 1..n : f[i] <= i
  <2> DEFINE Bad == {k \in 0..(n - 1) : ~ (f[n - k] <= n - k)}
  <2> SUFFICES ASSUME NEW i \in 1..n, ~ (f[i] <= i) PROVE FALSE  OBVIOUS
  <2>1. n - i \in 0..(n - 1) /\ n - (n - i) = i  OBVIOUS
  <2>2. Bad # {}  BY <2>1
  <2>3. PICK k \in Bad : \A m \in Bad : k <= m
    <3>1. Bad \in SUBSET Nat  OBVIOUS
    <3> HIDE DEF Bad
    <3> QED  BY <2>2, <3>1, LeastNatural
  <2>4. k \in 0..(n - 1) /\ n - k \in 1..n /\ f[n - k] > n - k  BY <1>1, <2>3
  <2>5. k # 0  BY <1>1, <2>4
  <2>6. k - 1 \in 0..(n - 1) /\ n - (k - 1) \in 1..n /\ n - k < n - (k - 1) /\ ~ (k <= k - 1)
    BY <2>4, <2>5
  <2>7. f[n - (k - 1)] <= n - (k - 1)  BY <2>3, <2>6
  <2>8. f[n - k] < f[n - (k - 1)]  BY <2>4, <2>6
  <2> QED  BY <1>1, <2>4, <2>6, <2>7, <2>8
<1> QED  BY <1>1, <1>2, <1>3

-----------------------------------------------------------------------------
(* Recursion over the naturals, with a step that is a function *)

Iterates(g, V, first, step, n) ==
    g \in [0..n -> V] /\ g[0] = first /\ \A k \in 0..(n - 1) : g[k + 1] = step[g[k]]

LEMMA IteratesExist ==
  ASSUME NEW V, NEW first \in V, NEW step \in [V -> V], NEW n \in Nat
  PROVE  \E g : Iterates(g, V, first, step, n)
<1> DEFINE Bad == {k \in Nat : ~ \E g : Iterates(g, V, first, step, k)}
<1> SUFFICES ASSUME Bad # {} PROVE FALSE  OBVIOUS
<1>1. PICK k \in Bad : \A m \in Bad : k <= m
  <2>1. Bad \in SUBSET Nat  OBVIOUS
  <2> HIDE DEF Bad
  <2> QED  BY <2>1, LeastNatural
<1>2. k \in Nat /\ ~ \E g : Iterates(g, V, first, step, k)  BY <1>1
<1>3. CASE k = 0
  <2> DEFINE g == [i \in 0..0 |-> first]
  <2>1. Iterates(g, V, first, step, 0)  BY DEF Iterates
  <2> QED  BY <1>2, <1>3, <2>1
<1>4. CASE k # 0
  <2>1. k - 1 \in Nat /\ ~ (k <= k - 1)  BY <1>2, <1>4
  <2>2. k - 1 \notin Bad  BY <1>1, <2>1
  <2>3. PICK g : Iterates(g, V, first, step, k - 1)  BY <2>1, <2>2
  <2> DEFINE h == [i \in 0..k |-> IF i = k THEN step[g[k - 1]] ELSE g[i]]
  <2>4. g \in [0..(k - 1) -> V] /\ g[0] = first
    BY <2>3 DEF Iterates
  <2>5. h \in [0..k -> V]
    <3>1. step[g[k - 1]] \in V  BY <2>1, <2>4
    <3>2. \A i \in 0..k : i # k => g[i] \in V  BY <1>2, <2>4
    <3> QED  BY <3>1, <3>2
  <2>6. h[0] = first  BY <1>2, <1>4, <2>4
  <2>7. ASSUME NEW i \in 0..(k - 1) PROVE h[i + 1] = step[h[i]]
    <3>1. h[i] = g[i] /\ i + 1 \in 0..k  BY <1>2
    <3>2. CASE i = k - 1  BY <1>2, <3>1, <3>2
    <3>3. CASE i # k - 1
      <4>1. i \in 0..((k - 1) - 1) /\ i + 1 # k  BY <1>2, <3>3
      <4>2. g[i + 1] = step[g[i]]  BY <2>3, <4>1 DEF Iterates
      <4> QED  BY <3>1, <4>1, <4>2
    <3> QED  BY <3>2, <3>3
  <2>8. Iterates(h, V, first, step, k)
    <3> HIDE DEF h
    <3> QED  BY <2>5, <2>6, <2>7 DEF Iterates
  <2> QED  BY <1>2, <2>8
<1> QED  BY <1>3, <1>4

LEMMA IteratesAgree ==
  ASSUME NEW V, NEW first, NEW step, NEW n \in Nat, NEW g, NEW h,
         Iterates(g, V, first, step, n), Iterates(h, V, first, step, n + 1), NEW i \in 0..n
  PROVE  g[i] = h[i]
<1> DEFINE Bad == {k \in 0..n : g[k] # h[k]}
<1> SUFFICES ASSUME Bad # {} PROVE FALSE  OBVIOUS
<1>1. PICK k \in Bad : \A m \in Bad : k <= m
  <2>1. Bad \in SUBSET Nat  OBVIOUS
  <2> HIDE DEF Bad
  <2> QED  BY <2>1, LeastNatural
<1>2. k \in 0..n /\ g[k] # h[k]  BY <1>1
<1>3. k # 0  BY <1>2 DEF Iterates
<1>4. k - 1 \in 0..(n - 1) /\ k - 1 \in 0..((n + 1) - 1) /\ k - 1 \in 0..n /\ (k - 1) + 1 = k
  BY <1>2, <1>3
<1>5. g[k - 1] = h[k - 1]
  <2>1. ~ (k <= k - 1)  BY <1>2
  <2> QED  BY <1>1, <1>4, <2>1
<1>6. g[k] = step[g[k - 1]] /\ h[k] = step[h[k - 1]]
  <2>1. g[(k - 1) + 1] = step[g[k - 1]]  BY <1>4 DEF Iterates
  <2>2. h[(k - 1) + 1] = step[h[k - 1]]  BY <1>4 DEF Iterates
  <2> QED  BY <1>4, <2>1, <2>2
<1> QED  BY <1>2, <1>5, <1>6

\* g begins with first and repeats the step for ever.
Repeats(g, first, step, V) ==
  g \in [Nat -> V] /\ g[0] = first /\ \A n \in Nat : g[n + 1] = step[g[n]]

\* A first value and a step from any value to the next define a sequence.
THEOREM Recursion ==
  ASSUME NEW V, NEW first \in V, NEW step \in [V -> V]
  PROVE  \E g : Repeats(g, first, step, V)
<1> DEFINE Of(n) == CHOOSE g : Iterates(g, V, first, step, n)
           G == [n \in Nat |-> Of(n)[n]]
<1>1. ASSUME NEW n \in Nat PROVE Iterates(Of(n), V, first, step, n)
  BY IteratesExist
<1> HIDE DEF Of
<1>2. ASSUME NEW n \in Nat PROVE Of(n)[n] \in V
  BY <1>1 DEF Iterates
<1>3. G \in [Nat -> V]  BY <1>2
<1>4. G[0] = first  BY <1>1 DEF Iterates
<1>5. ASSUME NEW n \in Nat PROVE G[n + 1] = step[G[n]]
  <2>1. n + 1 \in Nat /\ n \in 0..n /\ n \in 0..((n + 1) - 1)  OBVIOUS
  <2>2. Iterates(Of(n), V, first, step, n) /\ Iterates(Of(n + 1), V, first, step, n + 1)
    BY <1>1, <2>1
  <2>3. Of(n)[n] = Of(n + 1)[n]  BY <2>1, <2>2, IteratesAgree
  <2>4. Of(n + 1)[n + 1] = step[Of(n + 1)[n]]  BY <2>1, <2>2 DEF Iterates
  <2> QED  BY <2>1, <2>3, <2>4
<1>6. Repeats(G, first, step, V)  BY <1>3, <1>4, <1>5 DEF Repeats
<1> QED  BY <1>6

\* Induction up to N.
THEOREM UpTo ==
  ASSUME NEW N \in Nat, NEW S, 0 \in S, \A n \in 1..N : n - 1 \in S => n \in S
  PROVE  \A n \in 0..N : n \in S
<1> DEFINE Bad == {n \in 0..N : n \notin S}
<1> SUFFICES ASSUME Bad # {} PROVE FALSE  OBVIOUS
<1>1. PICK k \in Bad : \A m \in Bad : k <= m
  <2>1. Bad \in SUBSET Nat  OBVIOUS
  <2> HIDE DEF Bad
  <2> QED  BY <2>1, LeastNatural
<1>2. k \in 1..N /\ k - 1 \in 0..N /\ ~ (k <= k - 1)  BY <1>1
<1>3. k - 1 \in S  BY <1>1, <1>2
<1> QED  BY <1>1, <1>2, <1>3

\* Each of the N steps leads from a value in V to another.
Steps(step, N, V) == \A n \in 1..N : \A v \in V : step[n][v] \in V
\* g begins with first and takes the steps.
Proceeds(g, first, step, N, V) ==
  g \in [0..N -> V] /\ g[0] = first /\ \A n \in 1..N : g[n] = step[n][g[n - 1]]

\* A first value and, for every number up to N, a step define a sequence.
THEOREM RecursionAlong ==
  ASSUME NEW V, NEW N \in Nat, NEW first \in V, NEW step, Steps(step, N, V)
  PROVE  \E g : Proceeds(g, first, step, N, V)
<1> DEFINE W == Nat \X V
           next == [w \in W |-> <<w[1] + 1, IF w[1] + 1 \in 1..N THEN step[w[1] + 1][w[2]]
                                            ELSE w[2]>>]
<1>1. ASSUME NEW n \in Nat, NEW v \in V
      PROVE  next[<<n, v>>] = <<n + 1, IF n + 1 \in 1..N THEN step[n + 1][v] ELSE v>>
  OBVIOUS
<1>2. next \in [W -> W]
  <2>1. ASSUME NEW w \in W PROVE next[w] \in W
    <3>1. PICK n \in Nat, v \in V : w = <<n, v>>  OBVIOUS
    <3>2. n + 1 \in Nat /\ (IF n + 1 \in 1..N THEN step[n + 1][v] ELSE v) \in V  BY DEF Steps
    <3> QED  BY <1>1, <3>1, <3>2
  <2>2. next = [w \in W |-> next[w]]  OBVIOUS
  <2> HIDE DEF next
  <2> QED  BY <2>1, <2>2
<1>3. <<0, first>> \in W  OBVIOUS
<1>10. ASSUME NEW w \in W PROVE \E m \in Nat, v \in V : w = <<m, v>>  OBVIOUS
<1> HIDE DEF next, W
<1>4. PICK h : h \in [Nat -> W] /\ h[0] = <<0, first>> /\ \A n \in Nat : h[n + 1] = next[h[n]]
  <2>1. \E h : Repeats(h, <<0, first>>, next, W)  BY <1>2, <1>3, Recursion
  <2> QED  BY <2>1 DEF Repeats
<1> DEFINE Counts == {n \in 0..N : h[n][1] = n}
<1>5. \A n \in 0..N : n \in Counts
  <2>1. 0 \in Counts  BY <1>4
  <2>2. ASSUME NEW n \in 1..N, n - 1 \in Counts PROVE n \in Counts
    <3>1. n - 1 \in Nat /\ (n - 1) + 1 = n /\ h[n - 1][1] = n - 1  BY <2>2
    <3>2. PICK m \in Nat, v \in V : h[n - 1] = <<m, v>>
      <4>1. h[n - 1] \in W  BY <1>4, <3>1
      <4> QED  BY <1>10, <4>1
    <3>3. h[n] = next[h[n - 1]]  BY <1>4, <3>1
    <3>4. h[n][1] = m + 1 /\ m = n - 1  BY <1>1, <3>1, <3>2, <3>3
    <3> QED  BY <3>1, <3>4
  <2> HIDE DEF Counts
  <2> QED  BY <2>1, <2>2, UpTo
<1> DEFINE g == [n \in 0..N |-> h[n][2]]
<1>6. ASSUME NEW n \in 0..N PROVE h[n] = <<n, g[n]>> /\ g[n] \in V
  <2>1. n \in Nat /\ h[n][1] = n  BY <1>5
  <2>2. PICK m \in Nat, v \in V : h[n] = <<m, v>>
    <3>1. h[n] \in W  BY <1>4, <2>1
    <3> QED  BY <1>10, <3>1
  <2> QED  BY <2>1, <2>2
<1>7. g[0] = first  BY <1>4
<1>8. ASSUME NEW n \in 1..N PROVE g[n] = step[n][g[n - 1]]
  <2>1. n - 1 \in Nat /\ n - 1 \in 0..N /\ n \in 0..N /\ (n - 1) + 1 = n  OBVIOUS
  <2>2. h[n] = next[h[n - 1]]  BY <1>4, <2>1
  <2>3. h[n - 1] = <<n - 1, g[n - 1]>> /\ g[n - 1] \in V /\ h[n] = <<n, g[n]>>
    BY <1>6, <2>1
  <2>4. h[n] = <<n, step[n][g[n - 1]]>>
    <3>1. next[<<n - 1, g[n - 1]>>]
            = <<(n - 1) + 1, IF (n - 1) + 1 \in 1..N THEN step[(n - 1) + 1][g[n - 1]]
                             ELSE g[n - 1]>>
      BY <1>1, <2>1, <2>3
    <3> QED  BY <2>1, <2>2, <2>3, <3>1
  <2> QED  BY <2>3, <2>4
<1>9. g \in [0..N -> V]  BY <1>6
<1>11. Proceeds(g, first, step, N, V)  BY <1>7, <1>8, <1>9 DEF Proceeds
<1> QED  BY <1>11
=============================================================================
