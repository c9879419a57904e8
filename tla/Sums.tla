-------------------------------- MODULE Sums --------------------------------
(***************************************************************************)
(* What every proof about money and goods needs: the sum of f[x] over a    *)
(* finite set, SumFunctionOnSet(f, S) of the community modules, is a       *)
(* recursive function that takes the elements in an order of its own       *)
(* choosing.  Here: the recursion has a solution, the order does not       *)
(* matter, and what a sum becomes when one element is added, removed or    *)
(* changed.  Induction is by a least counterexample: a set of natural      *)
(* numbers that is not empty has a least element (well-foundedness of < on *)
(* Nat), so no theorem with an operator for a parameter is needed.         *)
(***************************************************************************)
EXTENDS Integers, Functions, FiniteSets, FiniteSetTheorems, WellFoundedInduction, TLAPS

\* A set of natural numbers that is not empty has a least element.
LEMMA LeastNumber ==
  ASSUME NEW W, W \subseteq Nat, W # {}
  PROVE  \E n \in W : \A m \in W : n <= m
<1>1. IsWellFoundedOn(OpToRel(<, Nat), Nat)
  BY NatLessThanWellFounded
<1>2. PICK n \in W : \A m \in W : <<m, n>> \notin OpToRel(<, Nat)
  BY <1>1, WFMin
<1>3. ASSUME NEW m \in W PROVE n <= m
  <2>1. n \in Nat /\ m \in Nat
    OBVIOUS
  <2>2. <<m, n>> \notin OpToRel(<, Nat)
    BY <1>2
  <2>3. ~(m < n)
    BY <2>1, <2>2 DEF OpToRel
  <2> QED
    BY <2>1, <2>3
<1> QED
  BY <1>3

\* Induction over the natural numbers, for the members of a set.
LEMMA CountUp ==
  ASSUME NEW W, 0 \in W, \A n \in Nat : n \in W => n + 1 \in W
  PROVE  \A n \in Nat : n \in W
<1>1. SUFFICES ASSUME Nat \ W # {} PROVE FALSE
  OBVIOUS
<1>2. PICK n \in Nat \ W : \A m \in Nat \ W : n <= m
  <2>1. Nat \ W \subseteq Nat
    OBVIOUS
  <2> QED
    BY <1>1, <2>1, LeastNumber
<1>3. n # 0 /\ n - 1 \in Nat /\ ~(n <= n - 1)
  BY <1>2
<1>4. n - 1 \in W
  BY <1>2, <1>3
<1> QED
  BY <1>2, <1>3, <1>4

\* Induction over the subsets of a finite set, one element at a time.
LEMMA GrowSet ==
  ASSUME NEW S, IsFiniteSet(S), NEW W, {} \in W,
         \A s \in SUBSET S, x \in S : s \in W /\ x \notin s => s \cup {x} \in W
  PROVE  S \in W
<1> DEFINE Sized == {n \in Nat : \A s \in SUBSET S : Cardinality(s) = n => s \in W}
<1>1. 0 \in Sized
  BY FS_EmptySet, FS_Subset
<1>2. ASSUME NEW n \in Nat, n \in Sized PROVE n + 1 \in Sized
  <2> SUFFICES ASSUME NEW s \in SUBSET S, Cardinality(s) = n + 1 PROVE s \in W
    OBVIOUS
  <2>1. IsFiniteSet(s)
    BY FS_Subset
  <2>2. PICK x \in s : TRUE
    <3>1. s # {}
      <4>1. Cardinality({}) = 0
        BY FS_EmptySet
      <4> QED
        BY <4>1
    <3> QED
      BY <3>1
  <2>3. Cardinality(s \ {x}) = n
    <3>1. Cardinality(s \ {x}) = Cardinality(s) - 1
      BY <2>1, <2>2, FS_RemoveElement
    <3> QED
      BY <3>1
  <2>4. s \ {x} \in W
    BY <1>2, <2>3
  <2>5. (s \ {x}) \cup {x} = s
    BY <2>2
  <2>6. (s \ {x}) \cup {x} \in W
    BY <2>4
  <2> QED
    BY <2>5, <2>6
<1> HIDE DEF Sized
<1>3. \A n \in Nat : n \in Sized
  BY <1>1, <1>2, CountUp
<1>4. Cardinality(S) \in Nat
  BY FS_CardinalityType
<1> QED
  BY <1>3, <1>4 DEF Sized

------------------------------------------------------------------------------
\* The recursion, named: the element it takes, one step of it, its solution.
Picked(s) == CHOOSE x \in s : TRUE

SumStep(g, f, s) == IF s = {} THEN 0 ELSE f[Picked(s)] + g[s \ {Picked(s)}]

PartialSums(f, S) == CHOOSE g : g = [s \in SUBSET S |-> SumStep(g, f, s)]

\* A sum is the last of its partial sums.
LEMMA SumIsPartial ==
  ASSUME NEW f, NEW S
  PROVE  SumFunctionOnSet(f, S) = PartialSums(f, S)[S]
BY DEF SumFunctionOnSet, FoldFunctionOnSet, MapThenFoldSet, PartialSums, SumStep, Picked

\* The recursion has a solution on the subsets of a finite set: a solution on
\* the subsets of n elements extends to those of n + 1.
LEMMA PartialStep ==
  ASSUME NEW f, NEW S, IsFiniteSet(S)
  PROVE  \A s \in SUBSET S : PartialSums(f, S)[s] = SumStep(PartialSums(f, S), f, s)
<1> DEFINE D(n) == {s \in SUBSET S : Cardinality(s) <= n}
           W == {n \in Nat : \E g : g = [s \in D(n) |-> SumStep(g, f, s)]}
<1>a. \A s \in SUBSET S : IsFiniteSet(s) /\ Cardinality(s) \in Nat
  BY FS_Subset, FS_CardinalityType
<1>b. \A n \in Nat : \A s \in D(n) : \/ s = {}
                                     \/ s \ {Picked(s)} \in D(n) /\ n # 0 /\ s \ {Picked(s)} \in D(n - 1)
  <2> SUFFICES ASSUME NEW n \in Nat, NEW s \in D(n), s # {}
               PROVE s \ {Picked(s)} \in D(n) /\ n # 0 /\ s \ {Picked(s)} \in D(n - 1)
    OBVIOUS
  <2>1. Picked(s) \in s
    BY DEF Picked
  <2>2. Cardinality(s \ {Picked(s)}) = Cardinality(s) - 1 /\ IsFiniteSet(s \ {Picked(s)})
    BY <1>a, <2>1, FS_RemoveElement
  <2>3. Cardinality(s \ {Picked(s)}) \in Nat /\ Cardinality(s) \in Nat
    BY <1>a, <2>2, FS_CardinalityType
  <2> QED
    BY <2>2, <2>3
<1>1. 0 \in W
  <2> DEFINE g == [s \in D(0) |-> 0]
  <2>1. g = [s \in D(0) |-> SumStep(g, f, s)]
    BY <1>b DEF SumStep
  <2> QED
    BY <2>1
<1>2. ASSUME NEW n \in Nat, n \in W PROVE n + 1 \in W
  <2>1. PICK g : g = [s \in D(n) |-> SumStep(g, f, s)]
    BY <1>2
  <2> DEFINE h == [s \in D(n + 1) |-> SumStep(g, f, s)]
  <2>2. \A s \in D(n) : s \in D(n + 1) /\ h[s] = g[s]
    <3>1. \A s \in D(n) : s \in D(n + 1)
      BY <1>a
    <3> QED
      BY <2>1, <3>1
  <2>3. \A s \in D(n + 1) : s # {} => s \ {Picked(s)} \in D(n)
    BY <1>b
  <2>4. \A s \in D(n + 1) : SumStep(g, f, s) = SumStep(h, f, s)
    BY <2>2, <2>3 DEF SumStep
  <2>5. h = [s \in D(n + 1) |-> SumStep(h, f, s)]
    <3> HIDE DEF D
    <3> DEFINE k == h
    <3>1. k = [s \in D(n + 1) |-> SumStep(g, f, s)]
      OBVIOUS
    <3>2. \A s \in D(n + 1) : SumStep(g, f, s) = SumStep(k, f, s)
      BY <2>4
    <3> HIDE DEF k
    <3>3. k = [s \in D(n + 1) |-> SumStep(k, f, s)]
      BY <3>1, <3>2
    <3> QED
      BY <3>3 DEF k
  <2>6. n + 1 \in Nat
    OBVIOUS
  <2> HIDE DEF D, h
  <2> QED
    BY <2>5, <2>6
<1>3. Cardinality(S) \in W
  <2> HIDE DEF W
  <2> QED
    BY <1>1, <1>2, CountUp, FS_CardinalityType
<1>4. D(Cardinality(S)) = SUBSET S
  BY FS_Subset
<1>5. \E g : g = [s \in SUBSET S |-> SumStep(g, f, s)]
  BY <1>3, <1>4
<1> DEFINE p == PartialSums(f, S)
<1>6. p = [s \in SUBSET S |-> SumStep(p, f, s)]
  BY <1>5 DEF PartialSums
<1> HIDE DEF p
<1>7. \A s \in SUBSET S : p[s] = SumStep(p, f, s)
  BY <1>6
<1> QED
  BY <1>7 DEF p

\* Partial sums of integers are integers.
LEMMA PartialTyped ==
  ASSUME NEW f, NEW S, IsFiniteSet(S), \A x \in S : f[x] \in Int
  PROVE  \A s \in SUBSET S : PartialSums(f, S)[s] \in Int
<1> DEFINE g == PartialSums(f, S)
<1>0. \A s \in SUBSET S : g[s] = SumStep(g, f, s)
  BY PartialStep
<1> HIDE DEF g
<1>a. \A s \in SUBSET S : IsFiniteSet(s) /\ Cardinality(s) \in Nat
  BY FS_Subset, FS_CardinalityType
<1>z. g[{}] = 0
  <2>1. g[{}] = SumStep(g, f, {})
    BY <1>0
  <2> QED
    BY <2>1 DEF SumStep
<1> DEFINE P == {n \in Nat : \A s \in SUBSET S : Cardinality(s) <= n => g[s] \in Int}
<1>1. 0 \in P
  <2> SUFFICES ASSUME NEW s \in SUBSET S, Cardinality(s) <= 0 PROVE g[s] \in Int
    OBVIOUS
  <2>1. s = {}
    BY <1>a, FS_EmptySet
  <2>2. g[s] = 0
    BY <1>z, <2>1
  <2> QED
    BY <2>2
<1>2. ASSUME NEW n \in Nat, n \in P PROVE n + 1 \in P
  <2>a. SUFFICES \A s \in SUBSET S : s # {} /\ Cardinality(s) <= n + 1 => g[s] \in Int
    <3>1. \A s \in SUBSET S : s = {} => g[s] \in Int
      BY <1>z
    <3> QED
      BY <3>1
  <2>b. TAKE s \in SUBSET S
  <2>c. HAVE s # {} /\ Cardinality(s) <= n + 1
  <2>1. Picked(s) \in s
    BY <2>c DEF Picked
  <2>2. Cardinality(s \ {Picked(s)}) = Cardinality(s) - 1
    BY <1>a, <2>1, FS_RemoveElement
  <2>3. Cardinality(s \ {Picked(s)}) <= n
    BY <1>a, <2>2, <2>c
  <2>4. g[s \ {Picked(s)}] \in Int
    BY <1>2, <2>3
  <2>5. g[s] = f[Picked(s)] + g[s \ {Picked(s)}]
    BY <1>0, <2>c DEF SumStep
  <2> QED
    BY <2>1, <2>4, <2>5
<1> HIDE DEF P
<1>3. Cardinality(S) \in P
  BY <1>1, <1>2, CountUp, <1>a
<1> QED
  BY <1>3, FS_Subset DEF P, g

\* A sum over a smaller set is one of the partial sums over a larger one.
LEMMA PartialAgree ==
  ASSUME NEW f, NEW S, IsFiniteSet(S), NEW s \in SUBSET S
  PROVE  PartialSums(f, S)[s] = SumFunctionOnSet(f, s)
<1> DEFINE g == PartialSums(f, S)
           h == PartialSums(f, s)
<1>0. IsFiniteSet(s)
  BY FS_Subset
<1>1. \A t \in SUBSET s : g[t] = SumStep(g, f, t)
  BY PartialStep
<1>2. \A t \in SUBSET s : h[t] = SumStep(h, f, t)
  BY <1>0, PartialStep
<1>a. \A t \in SUBSET s : IsFiniteSet(t) /\ Cardinality(t) \in Nat
  BY <1>0, FS_Subset, FS_CardinalityType
<1> HIDE DEF g, h
<1> DEFINE P == {n \in Nat : \A t \in SUBSET s : Cardinality(t) <= n => g[t] = h[t]}
<1>3. 0 \in P
  <2> SUFFICES ASSUME NEW t \in SUBSET s, Cardinality(t) <= 0 PROVE g[t] = h[t]
    OBVIOUS
  <2>1. t = {}
    BY <1>a, FS_EmptySet
  <2> QED
    BY <1>1, <1>2, <2>1 DEF SumStep
<1>4. ASSUME NEW n \in Nat, n \in P PROVE n + 1 \in P
  <2> SUFFICES ASSUME NEW t \in SUBSET s, Cardinality(t) <= n + 1, t # {} PROVE g[t] = h[t]
    BY <1>1, <1>2 DEF SumStep
  <2>1. Picked(t) \in t
    BY DEF Picked
  <2>2. Cardinality(t \ {Picked(t)}) = Cardinality(t) - 1
    BY <1>a, <2>1, FS_RemoveElement
  <2>3. Cardinality(t \ {Picked(t)}) <= n
    BY <1>a, <2>2
  <2>4. g[t \ {Picked(t)}] = h[t \ {Picked(t)}]
    BY <1>4, <2>3
  <2>5. g[t] = f[Picked(t)] + g[t \ {Picked(t)}] /\ h[t] = f[Picked(t)] + h[t \ {Picked(t)}]
    BY <1>1, <1>2 DEF SumStep
  <2> QED
    BY <2>4, <2>5
<1> HIDE DEF P
<1>5. Cardinality(s) \in P
  BY <1>3, <1>4, CountUp, <1>a
<1>6. g[s] = h[s]
  BY <1>5, <1>a DEF P
<1> QED
  BY <1>6, SumIsPartial DEF g, h

\* Nothing adds up to nothing.
LEMMA SumEmpty ==
  ASSUME NEW f
  PROVE  SumFunctionOnSet(f, {}) = 0
<1>1. IsFiniteSet({}) /\ {} \in SUBSET {}
  BY FS_EmptySet
<1>2. PartialSums(f, {})[{}] = SumStep(PartialSums(f, {}), f, {})
  BY <1>1, PartialStep
<1> QED
  BY <1>2, SumIsPartial DEF SumStep

\* Integers add up to an integer.
LEMMA SumInt ==
  ASSUME NEW f, NEW S, IsFiniteSet(S), \A x \in S : f[x] \in Int
  PROVE  SumFunctionOnSet(f, S) \in Int
BY PartialTyped, SumIsPartial

\* The element the recursion takes first comes off.
LEMMA SumFirst ==
  ASSUME NEW f, NEW S, IsFiniteSet(S), S # {}
  PROVE  SumFunctionOnSet(f, S) = f[Picked(S)] + SumFunctionOnSet(f, S \ {Picked(S)})
<1> DEFINE g == PartialSums(f, S)
<1>1. g[S] = SumStep(g, f, S)
  BY PartialStep
<1>2. g[S] = SumFunctionOnSet(f, S) /\ g[S \ {Picked(S)}] = SumFunctionOnSet(f, S \ {Picked(S)})
  BY PartialAgree
<1> HIDE DEF g
<1> QED
  BY <1>1, <1>2 DEF SumStep

\* Any element comes off: the order of the summands does not matter.
LEMMA SumRemove ==
  ASSUME NEW f, NEW S, IsFiniteSet(S), \A x \in S : f[x] \in Int, NEW a \in S
  PROVE  SumFunctionOnSet(f, S) = f[a] + SumFunctionOnSet(f, S \ {a})
<1> DEFINE Sum(s) == SumFunctionOnSet(f, s)
           P == {n \in Nat : \A s \in SUBSET S : Cardinality(s) <= n
                                => \A x \in s : Sum(s) = f[x] + Sum(s \ {x})}
<1>a. \A s \in SUBSET S : IsFiniteSet(s) /\ Cardinality(s) \in Nat /\ Sum(s) \in Int
  BY FS_Subset, FS_CardinalityType, SumInt
<1>b. \A s \in SUBSET S : s # {} => Sum(s) = f[Picked(s)] + Sum(s \ {Picked(s)})
  BY <1>a, SumFirst
<1> HIDE DEF Sum
<1>1. 0 \in P
  BY <1>a, FS_EmptySet
<1>2. ASSUME NEW n \in Nat, n \in P PROVE n + 1 \in P
  <2> SUFFICES ASSUME NEW s \in SUBSET S, Cardinality(s) <= n + 1, NEW x \in s
               PROVE Sum(s) = f[x] + Sum(s \ {x})
    OBVIOUS
  <2> DEFINE y == Picked(s)
  <2>1. y \in s
    BY DEF Picked
  <2>2. Sum(s) = f[y] + Sum(s \ {y})
    BY <1>b
  <2> HIDE DEF y
  <2>3. CASE x = y
    BY <2>2, <2>3
  <2>4. CASE x # y
    <3>1. Cardinality(s \ {y}) = Cardinality(s) - 1 /\ Cardinality(s \ {x}) = Cardinality(s) - 1
      BY <1>a, <2>1, FS_RemoveElement
    <3>2. Cardinality(s \ {y}) <= n /\ Cardinality(s \ {x}) <= n
      BY <1>a, <3>1
    <3>3. Sum(s \ {y}) = f[x] + Sum((s \ {y}) \ {x})
      BY <1>2, <2>4, <3>2
    <3>4. Sum(s \ {x}) = f[y] + Sum((s \ {x}) \ {y})
      BY <1>2, <2>1, <2>4, <3>2
    <3>5. (s \ {x}) \ {y} = (s \ {y}) \ {x}
      OBVIOUS
    <3>6. Sum((s \ {y}) \ {x}) \in Int /\ f[x] \in Int /\ f[y] \in Int
      BY <1>a, <2>1
    <3>7. Sum(s) = f[y] + (f[x] + Sum((s \ {y}) \ {x}))
      BY <2>2, <3>3
    <3>8. Sum(s \ {x}) = f[y] + Sum((s \ {y}) \ {x})
      BY <3>4, <3>5
    <3> QED
      BY <3>6, <3>7, <3>8
  <2> QED
    BY <2>3, <2>4
<1> HIDE DEF P
<1>3. Cardinality(S) \in P
  BY <1>1, <1>2, CountUp, <1>a
<1> QED
  BY <1>3, <1>a DEF P, Sum

\* A new element adds its value.
LEMMA SumAdd ==
  ASSUME NEW f, NEW S, IsFiniteSet(S), NEW a, a \notin S, \A x \in S \cup {a} : f[x] \in Int
  PROVE  SumFunctionOnSet(f, S \cup {a}) = SumFunctionOnSet(f, S) + f[a]
<1>1. IsFiniteSet(S \cup {a})
  BY FS_AddElement
<1>2. (S \cup {a}) \ {a} = S
  OBVIOUS
<1>3. SumFunctionOnSet(f, S \cup {a}) = f[a] + SumFunctionOnSet(f, (S \cup {a}) \ {a})
  BY <1>1, SumRemove
<1>4. SumFunctionOnSet(f, S) \in Int /\ f[a] \in Int
  BY SumInt
<1>5. SumFunctionOnSet(f, S \cup {a}) = f[a] + SumFunctionOnSet(f, S)
  BY <1>2, <1>3
<1> QED
  BY <1>4, <1>5

\* Functions that agree on a set have one sum over it.
LEMMA SumEqual ==
  ASSUME NEW f, NEW g, NEW S, IsFiniteSet(S), \A x \in S : f[x] = g[x]
  PROVE  SumFunctionOnSet(f, S) = SumFunctionOnSet(g, S)
<1> DEFINE P == {n \in Nat : \A s \in SUBSET S : Cardinality(s) <= n
                                => SumFunctionOnSet(f, s) = SumFunctionOnSet(g, s)}
<1>a. \A s \in SUBSET S : IsFiniteSet(s) /\ Cardinality(s) \in Nat
  BY FS_Subset, FS_CardinalityType
<1>1. 0 \in P
  BY <1>a, FS_EmptySet, SumEmpty
<1>2. ASSUME NEW n \in Nat, n \in P PROVE n + 1 \in P
  <2> SUFFICES ASSUME NEW s \in SUBSET S, Cardinality(s) <= n + 1, s # {}
               PROVE SumFunctionOnSet(f, s) = SumFunctionOnSet(g, s)
    BY SumEmpty
  <2>1. Picked(s) \in s
    BY DEF Picked
  <2>2. Cardinality(s \ {Picked(s)}) = Cardinality(s) - 1
    BY <1>a, <2>1, FS_RemoveElement
  <2>3. SumFunctionOnSet(f, s \ {Picked(s)}) = SumFunctionOnSet(g, s \ {Picked(s)})
    BY <1>a, <1>2, <2>2
  <2>4. /\ SumFunctionOnSet(f, s) = f[Picked(s)] + SumFunctionOnSet(f, s \ {Picked(s)})
        /\ SumFunctionOnSet(g, s) = g[Picked(s)] + SumFunctionOnSet(g, s \ {Picked(s)})
    BY <1>a, SumFirst
  <2> QED
    BY <2>1, <2>3, <2>4
<1> HIDE DEF P
<1>3. Cardinality(S) \in P
  BY <1>1, <1>2, CountUp, <1>a
<1> QED
  BY <1>3, <1>a DEF P

\* Changing one summand changes the sum by as much.
LEMMA SumChange ==
  ASSUME NEW f, NEW g, NEW S, IsFiniteSet(S), NEW a \in S,
         \A x \in S : f[x] \in Int /\ g[x] \in Int,
         \A x \in S \ {a} : f[x] = g[x]
  PROVE  SumFunctionOnSet(g, S) = SumFunctionOnSet(f, S) - f[a] + g[a]
<1>1. IsFiniteSet(S \ {a})
  BY FS_RemoveElement
<1>2. SumFunctionOnSet(f, S) = f[a] + SumFunctionOnSet(f, S \ {a})
  BY SumRemove
<1>3. SumFunctionOnSet(g, S) = g[a] + SumFunctionOnSet(g, S \ {a})
  BY SumRemove
<1>4. SumFunctionOnSet(f, S \ {a}) = SumFunctionOnSet(g, S \ {a})
  BY <1>1, SumEqual
<1>5. SumFunctionOnSet(f, S \ {a}) \in Int
  BY <1>1, SumInt
<1> QED
  BY <1>2, <1>3, <1>4, <1>5

\* Natural numbers add up to a natural number.
LEMMA SumNat ==
  ASSUME NEW f, NEW S, IsFiniteSet(S), \A x \in S : f[x] \in Nat
  PROVE  SumFunctionOnSet(f, S) \in Nat
<1> DEFINE W == {s \in SUBSET S : SumFunctionOnSet(f, s) \in Nat}
<1>1. {} \in W
  BY SumEmpty
<1>2. ASSUME NEW s \in SUBSET S, NEW x \in S, s \in W, x \notin s PROVE s \cup {x} \in W
  <2>1. IsFiniteSet(s)
    BY FS_Subset
  <2>2. SumFunctionOnSet(f, s \cup {x}) = SumFunctionOnSet(f, s) + f[x]
    BY <1>2, <2>1, SumAdd
  <2>3. SumFunctionOnSet(f, s) \in Nat /\ f[x] \in Nat
    BY <1>2
  <2> QED
    BY <2>2, <2>3
<1> HIDE DEF W
<1>3. S \in W
  BY <1>1, <1>2, GrowSet
<1> QED
  BY <1>3 DEF W

\* Zeros add up to zero.
LEMMA SumZero ==
  ASSUME NEW f, NEW S, IsFiniteSet(S), \A x \in S : f[x] = 0
  PROVE  SumFunctionOnSet(f, S) = 0
<1> DEFINE W == {s \in SUBSET S : SumFunctionOnSet(f, s) = 0}
<1>1. {} \in W
  BY SumEmpty
<1>2. ASSUME NEW s \in SUBSET S, NEW x \in S, s \in W, x \notin s PROVE s \cup {x} \in W
  <2>1. IsFiniteSet(s)
    BY FS_Subset
  <2>2. SumFunctionOnSet(f, s \cup {x}) = SumFunctionOnSet(f, s) + f[x]
    BY <1>2, <2>1, SumAdd
  <2>3. SumFunctionOnSet(f, s) = 0 /\ f[x] = 0
    BY <1>2
  <2> QED
    BY <2>2, <2>3
<1> HIDE DEF W
<1>3. S \in W
  BY <1>1, <1>2, GrowSet
<1> QED
  BY <1>3 DEF W

\* The sum of two functions is the function of the sums, element by element.
LEMMA SumPlus ==
  ASSUME NEW f, NEW g, NEW h, NEW S, IsFiniteSet(S),
         \A x \in S : f[x] \in Int /\ g[x] \in Int /\ h[x] = f[x] + g[x]
  PROVE  SumFunctionOnSet(h, S) = SumFunctionOnSet(f, S) + SumFunctionOnSet(g, S)
<1> DEFINE W == {s \in SUBSET S : SumFunctionOnSet(h, s)
                                    = SumFunctionOnSet(f, s) + SumFunctionOnSet(g, s)}
<1>1. {} \in W
  BY SumEmpty
<1>2. ASSUME NEW s \in SUBSET S, NEW x \in S, s \in W, x \notin s PROVE s \cup {x} \in W
  <2>1. IsFiniteSet(s)
    BY FS_Subset
  <2>2. \A y \in S : h[y] \in Int
    OBVIOUS
  <2>3. /\ SumFunctionOnSet(f, s \cup {x}) = SumFunctionOnSet(f, s) + f[x]
        /\ SumFunctionOnSet(g, s \cup {x}) = SumFunctionOnSet(g, s) + g[x]
        /\ SumFunctionOnSet(h, s \cup {x}) = SumFunctionOnSet(h, s) + h[x]
    BY <1>2, <2>1, <2>2, SumAdd
  <2>4. SumFunctionOnSet(f, s) \in Int /\ SumFunctionOnSet(g, s) \in Int
    BY <2>1, SumInt
  <2>5. SumFunctionOnSet(h, s) = SumFunctionOnSet(f, s) + SumFunctionOnSet(g, s)
    BY <1>2
  <2>6. f[x] \in Int /\ g[x] \in Int /\ h[x] = f[x] + g[x]
    OBVIOUS
  <2> QED
    BY <2>3, <2>4, <2>5, <2>6
<1> HIDE DEF W
<1>3. S \in W
  BY <1>1, <1>2, GrowSet
<1> QED
  BY <1>3 DEF W

\* Disjoint sets add up.
LEMMA SumUnion ==
  ASSUME NEW f, NEW S, NEW T, IsFiniteSet(S), IsFiniteSet(T), S \cap T = {},
         \A x \in S \cup T : f[x] \in Int
  PROVE  SumFunctionOnSet(f, S \cup T) = SumFunctionOnSet(f, S) + SumFunctionOnSet(f, T)
<1> DEFINE W == {s \in SUBSET T : /\ IsFiniteSet(S \cup s)
                                  /\ SumFunctionOnSet(f, S \cup s)
                                       = SumFunctionOnSet(f, S) + SumFunctionOnSet(f, s)}
<1>0. SumFunctionOnSet(f, S) \in Int
  BY SumInt
<1>1. {} \in W
  <2>1. S \cup {} = S
    OBVIOUS
  <2> QED
    BY <1>0, <2>1, SumEmpty
<1>2. ASSUME NEW s \in SUBSET T, NEW x \in T, s \in W, x \notin s PROVE s \cup {x} \in W
  <2>1. IsFiniteSet(s) /\ IsFiniteSet(S \cup s)
    BY <1>2, FS_Subset
  <2>2. x \notin S \cup s /\ f[x] \in Int
    BY <1>2
  <2>3. S \cup (s \cup {x}) = (S \cup s) \cup {x}
    OBVIOUS
  <2>4. SumFunctionOnSet(f, (S \cup s) \cup {x}) = SumFunctionOnSet(f, S \cup s) + f[x]
    BY <2>1, <2>2, SumAdd
  <2>5. SumFunctionOnSet(f, s \cup {x}) = SumFunctionOnSet(f, s) + f[x]
    BY <1>2, <2>1, SumAdd
  <2>6. SumFunctionOnSet(f, s) \in Int
    BY <2>1, SumInt
  <2>7. SumFunctionOnSet(f, S \cup s) = SumFunctionOnSet(f, S) + SumFunctionOnSet(f, s)
    BY <1>2
  <2>8. IsFiniteSet((S \cup s) \cup {x})
    BY <2>1, FS_AddElement
  <2>9. SumFunctionOnSet(f, (S \cup s) \cup {x}) = SumFunctionOnSet(f, S) + SumFunctionOnSet(f, s \cup {x})
    BY <1>0, <2>2, <2>4, <2>5, <2>6, <2>7
  <2> QED
    BY <2>3, <2>8, <2>9
<1> HIDE DEF W
<1>3. T \in W
  BY <1>1, <1>2, GrowSet
<1> QED
  BY <1>3 DEF W

\* A part of natural numbers adds up to no more than the whole.
LEMMA SumSubset ==
  ASSUME NEW f, NEW S, IsFiniteSet(S), \A x \in S : f[x] \in Nat, NEW T \in SUBSET S
  PROVE  SumFunctionOnSet(f, T) <= SumFunctionOnSet(f, S)
<1>1. IsFiniteSet(T) /\ IsFiniteSet(S \ T) /\ T \cup (S \ T) = S /\ T \cap (S \ T) = {}
  BY FS_Subset
<1>2. \A x \in T \cup (S \ T) : f[x] \in Int
  OBVIOUS
<1>3. SumFunctionOnSet(f, T \cup (S \ T)) = SumFunctionOnSet(f, T) + SumFunctionOnSet(f, S \ T)
  BY <1>1, <1>2, SumUnion
<1>4. SumFunctionOnSet(f, T) \in Nat /\ SumFunctionOnSet(f, S \ T) \in Nat
  BY <1>1, SumNat
<1>5. SumFunctionOnSet(f, S) = SumFunctionOnSet(f, T) + SumFunctionOnSet(f, S \ T)
  BY <1>1, <1>3
<1> QED
  BY <1>4, <1>5

\* One of several natural numbers is at most their sum.
LEMMA SumMember ==
  ASSUME NEW f, NEW S, IsFiniteSet(S), \A x \in S : f[x] \in Nat, NEW a \in S
  PROVE  f[a] <= SumFunctionOnSet(f, S)
<1>1. SumFunctionOnSet(f, S) = f[a] + SumFunctionOnSet(f, S \ {a})
  BY SumRemove
<1>2. SumFunctionOnSet(f, S \ {a}) \in Nat
  BY FS_RemoveElement, SumNat
<1> QED
  BY <1>1, <1>2

\* Summands that are zero outside a part do not count.
LEMMA SumSupport ==
  ASSUME NEW f, NEW g, NEW S, IsFiniteSet(S), NEW T \in SUBSET S,
         \A x \in T : f[x] \in Int /\ g[x] = f[x],
         \A x \in S \ T : g[x] = 0
  PROVE  SumFunctionOnSet(g, S) = SumFunctionOnSet(f, T)
<1>1. IsFiniteSet(T) /\ IsFiniteSet(S \ T) /\ T \cup (S \ T) = S /\ T \cap (S \ T) = {}
  BY FS_Subset
<1>2. \A x \in T \cup (S \ T) : g[x] \in Int
  OBVIOUS
<1>3. SumFunctionOnSet(g, T \cup (S \ T)) = SumFunctionOnSet(g, T) + SumFunctionOnSet(g, S \ T)
  BY <1>1, <1>2, SumUnion
<1>4. SumFunctionOnSet(g, S \ T) = 0
  BY <1>1, SumZero
<1>5. SumFunctionOnSet(g, T) = SumFunctionOnSet(f, T)
  BY <1>1, SumEqual
<1>6. SumFunctionOnSet(f, T) \in Int
  BY <1>1, SumInt
<1>7. SumFunctionOnSet(g, S) = SumFunctionOnSet(g, T) + SumFunctionOnSet(g, S \ T)
  BY <1>1, <1>3
<1> QED
  BY <1>4, <1>5, <1>6, <1>7

\* A finite set that is not empty has a greatest element, by any measure.
LEMMA Greatest ==
  ASSUME NEW f, NEW S, IsFiniteSet(S), S # {}, \A x \in S : f[x] \in Int
  PROVE  \E x \in S : \A y \in S : f[y] <= f[x]
<1> DEFINE W == {s \in SUBSET S : s # {} => \E x \in s : \A y \in s : f[y] <= f[x]}
<1>1. {} \in W
  OBVIOUS
<1>2. ASSUME NEW s \in SUBSET S, NEW x \in S, s \in W, x \notin s PROVE s \cup {x} \in W
  <2>1. CASE s = {}
    BY <2>1
  <2>2. CASE s # {}
    <3>1. PICK z \in s : \A y \in s : f[y] <= f[z]
      BY <1>2, <2>2
    <3>2. CASE f[x] <= f[z]
      BY <3>1, <3>2
    <3>3. CASE ~(f[x] <= f[z])
      <4>1. \A y \in s \cup {x} : f[y] <= f[x]
        BY <3>1, <3>3
      <4> QED
        BY <4>1
    <3> QED
      BY <3>2, <3>3
  <2> QED
    BY <2>1, <2>2
<1> HIDE DEF W
<1>3. S \in W
  BY <1>1, <1>2, GrowSet
<1> QED
  BY <1>3 DEF W

\* g is f, moved n positions up.
Shifted(f, g, n, m) == \A i \in 1..m : f[i] \in Int /\ g[n + i] = f[i]

\* Moving the positions of a sum along the integers does not change it.
LEMMA SumShift ==
  ASSUME NEW f, NEW g, NEW n \in Nat, NEW m \in Nat, Shifted(f, g, n, m)
  PROVE  SumFunctionOnSet(g, (n + 1)..(n + m)) = SumFunctionOnSet(f, 1..m)
<1> USE DEF Shifted
<1> DEFINE W == {k \in Nat : k <= m => SumFunctionOnSet(g, (n + 1)..(n + k))
                                         = SumFunctionOnSet(f, 1..k)}
<1>1. 0 \in W
  <2>1. (n + 1)..(n + 0) = {} /\ 1..0 = {}
    OBVIOUS
  <2> QED
    BY <2>1, SumEmpty
<1>2. ASSUME NEW k \in Nat, k \in W PROVE k + 1 \in W
  <2> SUFFICES ASSUME k + 1 <= m
               PROVE  SumFunctionOnSet(g, (n + 1)..(n + (k + 1))) = SumFunctionOnSet(f, 1..(k + 1))
    OBVIOUS
  <2> DEFINE A == 1..k
             B == (n + 1)..(n + k)
             a == k + 1
             b == n + (k + 1)
  <2>1. /\ (n + 1)..(n + (k + 1)) = B \cup {b} /\ b \notin B
        /\ 1..(k + 1) = A \cup {a} /\ a \notin A
    OBVIOUS
  <2>2. IsFiniteSet(A) /\ IsFiniteSet(B)
    BY FS_Interval
  <2>3. \A x \in A \cup {a} : f[x] \in Int
    OBVIOUS
  <2>4. \A x \in B \cup {b} : g[x] \in Int
    <3> TAKE x \in B \cup {b}
    <3>1. x - n \in 1..m /\ x = n + (x - n)
      OBVIOUS
    <3> QED
      BY <3>1
  <2>5. g[b] = f[a]
    OBVIOUS
  <2>6. SumFunctionOnSet(g, B) = SumFunctionOnSet(f, A)
    BY <1>2
  <2> HIDE DEF A, B, a, b
  <2>7. SumFunctionOnSet(f, A \cup {a}) = SumFunctionOnSet(f, A) + f[a]
    BY <2>1, <2>2, <2>3, SumAdd
  <2>8. SumFunctionOnSet(g, B \cup {b}) = SumFunctionOnSet(g, B) + g[b]
    BY <2>1, <2>2, <2>4, SumAdd
  <2> QED
    BY <2>1, <2>5, <2>6, <2>7, <2>8
<1> HIDE DEF W
<1>3. m \in W
  BY <1>1, <1>2, CountUp
<1> QED
  BY <1>3 DEF W

\* The sum over a concatenation is the sum of the sums over its two parts.
LEMMA SumConcat ==
  ASSUME NEW f, NEW g, NEW h, NEW n \in Nat, NEW m \in Nat,
         Shifted(f, h, 0, n), Shifted(g, h, n, m)
  PROVE  SumFunctionOnSet(h, 1..(n + m)) = SumFunctionOnSet(f, 1..n) + SumFunctionOnSet(g, 1..m)
<1> DEFINE A == 1..n
           B == (n + 1)..(n + m)
<1>0. /\ \A i \in 1..n : f[i] \in Int /\ h[i] = f[i]
      /\ \A i \in 1..m : g[i] \in Int /\ h[n + i] = g[i]
  BY DEF Shifted
<1>1. 1..(n + m) = A \cup B /\ A \cap B = {}
  OBVIOUS
<1>2. IsFiniteSet(A) /\ IsFiniteSet(B)
  BY FS_Interval
<1>3. \A x \in A \cup B : h[x] \in Int
  <2> TAKE x \in A \cup B
  <2>1. CASE x \in A
    BY <1>0, <2>1
  <2>2. CASE x \in B
    <3>1. x - n \in 1..m /\ x = n + (x - n)
      BY <2>2
    <3> QED
      BY <1>0, <3>1
  <2> QED
    BY <2>1, <2>2
<1>4. SumFunctionOnSet(h, B) = SumFunctionOnSet(g, 1..m)
  BY SumShift
<1>5. SumFunctionOnSet(h, A) = SumFunctionOnSet(f, A)
  BY <1>0, <1>2, SumEqual
<1> HIDE DEF B
<1>6. SumFunctionOnSet(h, A \cup B) = SumFunctionOnSet(h, A) + SumFunctionOnSet(h, B)
  BY <1>1, <1>2, <1>3, SumUnion
<1> QED
  BY <1>1, <1>4, <1>5, <1>6

\* The sum of what is bounded line by line is bounded.
LEMMA SumBounded ==
  ASSUME NEW f, NEW g, NEW h, NEW S, IsFiniteSet(S), NEW a \in Int, NEW t \in Int, NEW c \in Int,
         \A x \in S : /\ f[x] \in Int /\ g[x] \in Int /\ h[x] \in Int
                      /\ a * f[x] <= t * g[x] + c * h[x]
  PROVE  a * SumFunctionOnSet(f, S) <= t * SumFunctionOnSet(g, S) + c * SumFunctionOnSet(h, S)
PROOF
  <1> DEFINE F(s) == SumFunctionOnSet(f, s)
             G(s) == SumFunctionOnSet(g, s)
             H(s) == SumFunctionOnSet(h, s)
             W == {s \in SUBSET S : a * F(s) <= t * G(s) + c * H(s)}
  <1>1. {} \in W
    BY SumEmpty
  <1>2. ASSUME NEW s \in SUBSET S, NEW x \in S, s \in W, x \notin s PROVE s \cup {x} \in W
    <2>1. IsFiniteSet(s)
      BY FS_Subset
    <2>2. /\ F(s \cup {x}) = F(s) + f[x] /\ G(s \cup {x}) = G(s) + g[x]
          /\ H(s \cup {x}) = H(s) + h[x]
      BY <1>2, <2>1, SumAdd
    <2>3. F(s) \in Int /\ G(s) \in Int /\ H(s) \in Int
      BY <2>1, SumInt
    <2>4. a * F(s) <= t * G(s) + c * H(s)
      BY <1>2
    <2>5. s \cup {x} \in SUBSET S
      OBVIOUS
    <2> HIDE DEF F, G, H
    <2>6. a * f[x] <= t * g[x] + c * h[x] /\ f[x] \in Int /\ g[x] \in Int /\ h[x] \in Int
      OBVIOUS
    <2>7. a * F(s \cup {x}) <= t * G(s \cup {x}) + c * H(s \cup {x})
      BY <2>2, <2>3, <2>4, <2>6
    <2> QED
      BY <2>5, <2>7
  <1> HIDE DEF W
  <1>3. S \in W
    BY <1>1, <1>2, GrowSet
  <1> QED
    BY <1>3 DEF W
=============================================================================
