-------------------------------- MODULE Sums --------------------------------
(***************************************************************************)
(* What a sum over a finite set is, for the weights of a period            *)
(* (DatedKinds) and the guarantee of a depositor (Lps).                    *)
(*                                                                         *)
(* SumFunctionOnSet is defined by a recursive function on the subsets of   *)
(* the set.  Each fact is proved of a set of least cardinality: if it did  *)
(* not hold of some finite set, there would be a smallest such set.        *)
(***************************************************************************)
EXTENDS Integers, Functions, TLAPS, FiniteSetTheorems, WellFoundedInduction

Pick(s) == CHOOSE x \in s : TRUE
Unfolds(g, f, S) ==
    g = [s \in SUBSET S |-> IF s = {} THEN 0 ELSE f[Pick(s)] + g[s \ {Pick(s)}]]

(* A set of naturals that is not empty has a least element.                 *)
LEMMA Least ==
    ASSUME NEW D \in SUBSET Nat, D # {}
    PROVE  \E n \in D : \A m \in D : n <= m
<1>1. PICK n \in D : \A m \in D : ~ <<m, n>> \in OpToRel(<, Nat)
  BY NatLessThanWellFounded, WFMin
<1>2. ASSUME NEW m \in D PROVE n <= m
  <2>1. ~ m < n
    BY <1>1 DEF OpToRel
  <2> QED BY <2>1
<1> QED BY <1>2

(* A set that holds the first number and after each number the next one.    *)
LEMMA Upward ==
    ASSUME NEW m \in Nat, NEW n \in Nat, NEW P, m \in P,
           \A d \in m + 1 .. n : d - 1 \in P => d \in P
    PROVE  \A d \in m .. n : d \in P
<1> DEFINE Missed == {d \in Nat : d \in m .. n /\ d \notin P}
<1>1. Missed = {}
  <2> SUFFICES ASSUME Missed # {} PROVE FALSE
    OBVIOUS
  <2>1. PICK d \in Missed : \A e \in Missed : d <= e
    BY Least
  <2>2. d \in Nat /\ d \in m .. n /\ d \notin P
    BY <2>1
  <2>3. d - 1 \in Nat /\ d - 1 \in m .. n /\ d \in m + 1 .. n
    BY <2>2
  <2>4. d - 1 \in Missed
    BY <2>2, <2>3
  <2> HIDE DEF Missed
  <2> QED BY <2>1, <2>2, <2>4
<1> QED BY <1>1

LEMMA Picked == \A s : s # {} => Pick(s) \in s
BY DEF Pick

(* Taking an element out of a finite set.                                   *)
LEMMA Smaller ==
    ASSUME NEW S, IsFiniteSet(S), NEW x \in S
    PROVE  /\ IsFiniteSet(S \ {x}) /\ Cardinality(S) \in Nat /\ Cardinality(S \ {x}) \in Nat
           /\ Cardinality(S \ {x}) = Cardinality(S) - 1
BY FS_RemoveElement, FS_CardinalityType

(* The recursion reaches every subset, up to each size in turn.             *)
LEMMA Reaches ==
    ASSUME NEW S, IsFiniteSet(S), NEW f
    PROVE  \E g : Unfolds(g, f, S)
<1> DEFINE Up(n) == {s \in SUBSET S : Cardinality(s) <= n}
           To(g, n) == g = [s \in Up(n) |-> IF s = {} THEN 0 ELSE f[Pick(s)] + g[s \ {Pick(s)}]]
           Missed == {n \in Nat : ~ \E g : To(g, n)}
<1>1. \A s \in SUBSET S : IsFiniteSet(s) /\ Cardinality(s) \in Nat /\ Cardinality(s) <= Cardinality(S)
  BY FS_Subset, FS_CardinalityType
<1>2. ASSUME NEW s \in SUBSET S, s # {}
      PROVE  /\ s \ {Pick(s)} \in SUBSET S
             /\ Cardinality(s \ {Pick(s)}) = Cardinality(s) - 1
             /\ Cardinality(s) \in Nat
  BY <1>1, <1>2, Picked, Smaller
<1>3. Missed = {}
  <2> SUFFICES ASSUME Missed # {} PROVE FALSE
    OBVIOUS
  <2>1. PICK n \in Missed : \A m \in Missed : n <= m
    BY Least
  <2>2. CASE n = 0
    <3>1. \A s \in Up(0) : s = {}
      BY <1>1, FS_EmptySet, FS_CardinalityType
    <3>2. To([s \in Up(0) |-> 0], 0)
      BY <3>1
    <3> QED BY <2>1, <2>2, <3>2
  <2>3. CASE n # 0
    <3>1. n - 1 \in Nat /\ n - 1 \notin Missed
      <4>1. n \in Nat
        BY <2>1
      <4> HIDE DEF Missed
      <4> QED BY <2>1, <2>3, <4>1
    <3>2. PICK h : To(h, n - 1)
      BY <3>1
    <3> DEFINE g == [s \in Up(n) |-> IF s = {} THEN 0 ELSE f[Pick(s)] + h[s \ {Pick(s)}]]
    <3>3. ASSUME NEW s \in Up(n - 1) PROVE s \in Up(n) /\ g[s] = h[s]
      <4>1. s \in Up(n)
        BY <1>1, <3>1
      <4>2. h[s] = IF s = {} THEN 0 ELSE f[Pick(s)] + h[s \ {Pick(s)}]
        BY <3>2
      <4> QED BY <4>1, <4>2
    <3>4. ASSUME NEW s \in Up(n), s # {} PROVE g[s \ {Pick(s)}] = h[s \ {Pick(s)}]
      <4>1. s \ {Pick(s)} \in Up(n - 1)
        BY <1>2, <3>4, <3>1
      <4> QED BY <3>3, <4>1
    <3>5. To(g, n)
      BY <3>4
    <3> QED BY <2>1, <3>5
  <2> QED BY <2>2, <2>3
<1>4. Cardinality(S) \in Nat /\ Up(Cardinality(S)) = SUBSET S
  BY <1>1, FS_CardinalityType
<1>5. PICK g : To(g, Cardinality(S))
  BY <1>3, <1>4
<1> QED BY <1>4, <1>5 DEF Unfolds

(* It is the same on the subsets of two sets.                               *)
LEMMA Agrees ==
    ASSUME NEW S, NEW T, IsFiniteSet(S), S \subseteq T, NEW f, NEW g, NEW h,
           Unfolds(g, f, S), Unfolds(h, f, T)
    PROVE  \A s \in SUBSET S : g[s] = h[s]
<1> DEFINE Apart == {n \in Nat : \E s \in SUBSET S : Cardinality(s) = n /\ g[s] # h[s]}
<1>1. \A s \in SUBSET S : IsFiniteSet(s) /\ Cardinality(s) \in Nat
  BY FS_Subset, FS_CardinalityType
<1>2. Apart = {}
  <2> SUFFICES ASSUME Apart # {} PROVE FALSE
    OBVIOUS
  <2>1. PICK n \in Apart : \A m \in Apart : n <= m
    BY Least
  <2>2. PICK s \in SUBSET S : Cardinality(s) = n /\ g[s] # h[s]
    BY <2>1
  <2>3. /\ g[s] = IF s = {} THEN 0 ELSE f[Pick(s)] + g[s \ {Pick(s)}]
        /\ h[s] = IF s = {} THEN 0 ELSE f[Pick(s)] + h[s \ {Pick(s)}]
    BY DEF Unfolds
  <2>4. s # {} /\ g[s \ {Pick(s)}] # h[s \ {Pick(s)}]
    BY <2>2, <2>3
  <2>5. s \ {Pick(s)} \in SUBSET S /\ Cardinality(s \ {Pick(s)}) = n - 1 /\ n - 1 \in Nat
    BY <1>1, <2>2, <2>4, Picked, Smaller
  <2>6. n - 1 \in Apart
    BY <2>4, <2>5
  <2> QED BY <2>1, <2>5, <2>6
<1> QED BY <1>1, <1>2

(* One step of a sum.                                                       *)
LEMMA Unfolded ==
    ASSUME NEW S, IsFiniteSet(S), NEW f
    PROVE  SumFunctionOnSet(f, S) =
             IF S = {} THEN 0 ELSE f[Pick(S)] + SumFunctionOnSet(f, S \ {Pick(S)})
<1> DEFINE It(T) == CHOOSE g : Unfolds(g, f, T)
<1>1. \A T : SumFunctionOnSet(f, T) = It(T)[T]
  BY DEF SumFunctionOnSet, FoldFunctionOnSet, MapThenFoldSet, Unfolds, Pick
<1>2. Unfolds(It(S), f, S)
  BY Reaches
<1> HIDE DEF It
<1>3. CASE S = {}
  BY <1>1, <1>2, <1>3 DEF Unfolds
<1>4. CASE S # {}
  <2> DEFINE R == S \ {Pick(S)}
  <2>1. R \subseteq S /\ IsFiniteSet(R)
    BY FS_Subset
  <2>2. Unfolds(It(R), f, R)
    BY <2>1, Reaches DEF It
  <2>3. It(S)[R] = It(R)[R]
    BY <1>2, <2>1, <2>2, Agrees
  <2>4. It(S)[S] = f[Pick(S)] + It(S)[R]
    BY <1>2, <1>4 DEF Unfolds
  <2> QED BY <1>1, <1>4, <2>3, <2>4
<1> QED BY <1>3, <1>4

(* A sum of integers is one.                                                *)
LEMMA SumTyped ==
    ASSUME NEW S, IsFiniteSet(S), NEW f, \A x \in S : f[x] \in Int
    PROVE  SumFunctionOnSet(f, S) \in Int
<1> DEFINE Sum(T) == SumFunctionOnSet(f, T)
           Odd == {n \in Nat : \E T \in SUBSET S : Cardinality(T) = n /\ Sum(T) \notin Int}
<1>1. \A T \in SUBSET S : IsFiniteSet(T) /\ Cardinality(T) \in Nat
  BY FS_Subset, FS_CardinalityType
<1>2. \A T \in SUBSET S : Sum(T) = IF T = {} THEN 0 ELSE f[Pick(T)] + Sum(T \ {Pick(T)})
  BY <1>1, Unfolded
<1> HIDE DEF Sum
<1>3. Odd = {}
  <2> SUFFICES ASSUME Odd # {} PROVE FALSE
    OBVIOUS
  <2>1. PICK n \in Odd : \A m \in Odd : n <= m
    BY Least
  <2>2. PICK T \in SUBSET S : Cardinality(T) = n /\ Sum(T) \notin Int
    BY <2>1
  <2>3. T # {} /\ f[Pick(T)] \in Int /\ Sum(T \ {Pick(T)}) \notin Int
    BY <1>2, <2>2, Picked
  <2>4. T \ {Pick(T)} \in SUBSET S /\ Cardinality(T \ {Pick(T)}) = n - 1 /\ n - 1 \in Nat
    BY <1>1, <2>2, <2>3, Picked, Smaller
  <2>5. n - 1 \in Odd
    BY <2>3, <2>4
  <2> QED BY <2>1, <2>4, <2>5
<1> QED BY <1>1, <1>3 DEF Sum

(* The order in which the elements are taken does not matter.               *)
LEMMA SumStep ==
    ASSUME NEW S, IsFiniteSet(S), NEW f, \A x \in S : f[x] \in Int, NEW x \in S
    PROVE  SumFunctionOnSet(f, S) = f[x] + SumFunctionOnSet(f, S \ {x})
<1> DEFINE Sum(T) == SumFunctionOnSet(f, T)
           Odd == {n \in Nat : \E T \in SUBSET S : \E y \in T :
                      Cardinality(T) = n /\ Sum(T) # f[y] + Sum(T \ {y})}
<1>1. \A T \in SUBSET S : IsFiniteSet(T) /\ Cardinality(T) \in Nat
  BY FS_Subset, FS_CardinalityType
<1>2. \A T \in SUBSET S : Sum(T) = IF T = {} THEN 0 ELSE f[Pick(T)] + Sum(T \ {Pick(T)})
  BY <1>1, Unfolded
<1>3. \A T \in SUBSET S : Sum(T) \in Int
  BY <1>1, SumTyped
<1> HIDE DEF Sum
<1>4. Odd = {}
  <2> SUFFICES ASSUME Odd # {} PROVE FALSE
    OBVIOUS
  <2>1. PICK n \in Odd : \A m \in Odd : n <= m
    BY Least
  <2>0. PICK T \in SUBSET S : \E y \in T : Cardinality(T) = n /\ Sum(T) # f[y] + Sum(T \ {y})
    BY <2>1
  <2>2. PICK y \in T : Cardinality(T) = n /\ Sum(T) # f[y] + Sum(T \ {y})
    BY <2>0
  <2> DEFINE p == Pick(T)
             A == T \ {p}
             B == T \ {y}
             C == T \ {p, y}
  <2>3. p \in T /\ Sum(T) = f[p] + Sum(A) /\ p # y
    BY <1>2, <2>2, Picked
  <2> HIDE DEF p
  <2>4. /\ A \in SUBSET S /\ B \in SUBSET S /\ y \in A /\ p \in B /\ A \ {y} = C /\ B \ {p} = C
        /\ Cardinality(A) = n - 1 /\ Cardinality(B) = n - 1 /\ n - 1 \in Nat
    BY <1>1, <2>2, <2>3, Smaller
  <2>5. n - 1 \notin Odd
    <3>1. n \in Nat
      BY <2>1
    <3> HIDE DEF Odd
    <3> QED BY <2>1, <2>4, <3>1
  <2>6. Sum(A) = f[y] + Sum(C) /\ Sum(B) = f[p] + Sum(C)
    <3>1. Sum(A) = f[y] + Sum(A \ {y}) /\ Sum(B) = f[p] + Sum(B \ {p})
      <4> HIDE DEF A, B
      <4> QED BY <2>4, <2>5
    <3> QED BY <2>4, <3>1
  <2>7. f[y] \in Int /\ f[p] \in Int /\ Sum(C) \in Int
    BY <1>3, <2>2, <2>3
  <2> QED BY <2>2, <2>3, <2>6, <2>7
<1>5. Cardinality(S) \in Nat
  BY <1>1
<1>6. Sum(S) = f[x] + Sum(S \ {x})
  BY <1>4, <1>5
<1> QED BY <1>6 DEF Sum

(* A sum depends only on what is summed.                                    *)
LEMMA SumSame ==
    ASSUME NEW S, IsFiniteSet(S), NEW f, NEW g, \A x \in S : f[x] = g[x]
    PROVE  SumFunctionOnSet(f, S) = SumFunctionOnSet(g, S)
<1> DEFINE F(T) == SumFunctionOnSet(f, T)
           G(T) == SumFunctionOnSet(g, T)
           Odd == {n \in Nat : \E T \in SUBSET S : Cardinality(T) = n /\ F(T) # G(T)}
<1>1. \A T \in SUBSET S : IsFiniteSet(T) /\ Cardinality(T) \in Nat
  BY FS_Subset, FS_CardinalityType
<1>2. \A T \in SUBSET S :
        /\ F(T) = IF T = {} THEN 0 ELSE f[Pick(T)] + F(T \ {Pick(T)})
        /\ G(T) = IF T = {} THEN 0 ELSE g[Pick(T)] + G(T \ {Pick(T)})
  BY <1>1, Unfolded
<1> HIDE DEF F, G
<1>3. Odd = {}
  <2> SUFFICES ASSUME Odd # {} PROVE FALSE
    OBVIOUS
  <2>1. PICK n \in Odd : \A m \in Odd : n <= m
    BY Least
  <2>2. PICK T \in SUBSET S : Cardinality(T) = n /\ F(T) # G(T)
    BY <2>1
  <2>3. T # {} /\ f[Pick(T)] = g[Pick(T)] /\ F(T \ {Pick(T)}) # G(T \ {Pick(T)})
    BY <1>2, <2>2, Picked
  <2>4. T \ {Pick(T)} \in SUBSET S /\ Cardinality(T \ {Pick(T)}) = n - 1 /\ n - 1 \in Nat
    BY <1>1, <2>2, <2>3, Picked, Smaller
  <2>5. n - 1 \in Odd
    BY <2>3, <2>4
  <2> QED BY <2>1, <2>4, <2>5
<1> QED BY <1>1, <1>3 DEF F, G

(* The sum of two summands.                                                 *)
LEMMA SumBoth ==
    ASSUME NEW S, IsFiniteSet(S), NEW f, NEW g, NEW h,
           \A x \in S : f[x] \in Int /\ g[x] \in Int /\ h[x] = f[x] + g[x]
    PROVE  SumFunctionOnSet(h, S) = SumFunctionOnSet(f, S) + SumFunctionOnSet(g, S)
<1> DEFINE F(T) == SumFunctionOnSet(f, T)
           G(T) == SumFunctionOnSet(g, T)
           H(T) == SumFunctionOnSet(h, T)
           Odd == {n \in Nat : \E T \in SUBSET S : Cardinality(T) = n /\ H(T) # F(T) + G(T)}
<1>1. \A T \in SUBSET S : IsFiniteSet(T) /\ Cardinality(T) \in Nat
  BY FS_Subset, FS_CardinalityType
<1>2. \A T \in SUBSET S :
        /\ F(T) = IF T = {} THEN 0 ELSE f[Pick(T)] + F(T \ {Pick(T)})
        /\ G(T) = IF T = {} THEN 0 ELSE g[Pick(T)] + G(T \ {Pick(T)})
        /\ H(T) = IF T = {} THEN 0 ELSE h[Pick(T)] + H(T \ {Pick(T)})
  BY <1>1, Unfolded
<1>3. \A T \in SUBSET S : F(T) \in Int /\ G(T) \in Int
  BY <1>1, SumTyped
<1> HIDE DEF F, G, H
<1>4. Odd = {}
  <2> SUFFICES ASSUME Odd # {} PROVE FALSE
    OBVIOUS
  <2>1. PICK n \in Odd : \A m \in Odd : n <= m
    BY Least
  <2>2. PICK T \in SUBSET S : Cardinality(T) = n /\ H(T) # F(T) + G(T)
    BY <2>1
  <2> DEFINE p == Pick(T)
             R == T \ {Pick(T)}
  <2>3. T # {}
    <3>1. T = {} => F(T) = 0 /\ G(T) = 0 /\ H(T) = 0
      BY <1>2
    <3> QED BY <2>2, <3>1
  <2>4. R \in SUBSET S /\ Cardinality(R) = n - 1 /\ n - 1 \in Nat /\ p \in S
    BY <1>1, <2>2, <2>3, Picked, Smaller
  <2>5. F(T) = f[p] + F(R) /\ G(T) = g[p] + G(R) /\ H(T) = h[p] + H(R)
    BY <1>2, <2>3
  <2>6. f[p] \in Int /\ g[p] \in Int /\ h[p] = f[p] + g[p] /\ F(R) \in Int /\ G(R) \in Int
    BY <1>3, <2>4
  <2> HIDE DEF p, R
  <2>7. H(R) # F(R) + G(R)
    BY <2>2, <2>5, <2>6
  <2>8. n - 1 \in Odd
    BY <2>4, <2>7
  <2> QED BY <2>1, <2>4, <2>8
<1> QED BY <1>1, <1>4 DEF F, G, H
=============================================================================
