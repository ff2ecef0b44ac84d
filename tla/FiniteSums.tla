------------------------------ MODULE FiniteSums ----------------------------
(***************************************************************************)
(* Facts about sums over finite sets, SumFunctionOnSet of the module       *)
(* Functions. A sum is defined by taking out one element after another;    *)
(* what holds of all sums is shown by looking at a smallest set of which   *)
(* it does not hold.                                                       *)
(***************************************************************************)
EXTENDS Functions, FiniteSets, FiniteSetTheorems, WellFoundedInduction, TLAPS

(* Any set of natural numbers has a least one.                             *)
LEMMA LeastNatural ==
    ASSUME NEW T, T \subseteq Nat, T # {}
    PROVE  \E x \in T : \A y \in T : x <= y
  <1>1. PICK R : R = OpToRel(<, Nat)
    OBVIOUS
  <1>2. IsWellFoundedOn(R, Nat)
    BY <1>1, NatLessThanWellFounded
  <1>3. PICK x \in T : \A y \in T : ~ (<<y, x>> \in R)
    BY <1>2, WFMin
  <1>4. \A y \in T : x <= y
    <2> TAKE y \in T
    <2>1. x \in Nat /\ y \in Nat
      OBVIOUS
    <2>2. y < x => <<y, x>> \in R
      BY <1>1, <2>1 DEF OpToRel
    <2> QED
      BY <1>3, <2>1, <2>2
  <1> QED
    BY <1>4

(* A family of finite sets that is not empty has a smallest member: no set  *)
(* with one element less is in it.                                         *)
LEMMA SmallestSet ==
    ASSUME NEW S, IsFiniteSet(S), NEW F \in SUBSET SUBSET S, F # {}
    PROVE  \E s \in F : \A x \in s : s \ {x} \notin F
  <1> DEFINE sizes == {Cardinality(s) : s \in F}
  <1>1. \A s \in F : IsFiniteSet(s) /\ Cardinality(s) \in Nat
    BY FS_Subset, FS_CardinalityType
  <1>2. sizes \subseteq Nat /\ sizes # {}
    BY <1>1
  <1>3. PICK n \in sizes : \A m \in sizes : n <= m
    BY <1>2, LeastNatural
  <1>4. PICK s \in F : n = Cardinality(s)
    OBVIOUS
  <1>5. ASSUME NEW x \in s, s \ {x} \in F PROVE FALSE
    <2>1. Cardinality(s \ {x}) = Cardinality(s) - 1
      BY <1>1, FS_RemoveElement
    <2>2. n <= Cardinality(s \ {x})
      BY <1>3, <1>5
    <2> QED
      BY <1>1, <1>4, <2>1, <2>2
  <1> QED
    BY <1>5

-----------------------------------------------------------------------------
(* The definition of a sum has a meaning.                                  *)
Pick(s) == CHOOSE x \in s : TRUE

AddedUp(f, g, s) == IF s = {} THEN 0 ELSE f[Pick(s)] + g[s \ {Pick(s)}]

AddsUp(f, S, g) == g = [s \in SUBSET S |-> AddedUp(f, g, s)]

LEMMA SumDefined ==
    ASSUME NEW f, NEW S
    PROVE  SumFunctionOnSet(f, S) = (CHOOSE g : AddsUp(f, S, g))[S]
  BY DEF SumFunctionOnSet, FoldFunctionOnSet, MapThenFoldSet, AddsUp, AddedUp, Pick

(* There is a function that gives each subset its sum: one for the subsets  *)
(* of up to n elements is extended to those of n + 1.                      *)
LEMMA AddsExists ==
    ASSUME NEW S, IsFiniteSet(S), NEW f, \A x \in S : f[x] \in Nat
    PROVE  \E g \in [SUBSET S -> Nat] : AddsUp(f, S, g)
  <1> DEFINE Upto(n) == {s \in SUBSET S : Cardinality(s) <= n}
             AddsUpto(g, n) == /\ g \in [Upto(n) -> Nat]
                               /\ \A s \in Upto(n) : g[s] = AddedUp(f, g, s)
             bad == {n \in Nat : ~\E g : AddsUpto(g, n)}
  <1>1. \A s \in SUBSET S : IsFiniteSet(s) /\ Cardinality(s) \in Nat
    BY FS_Subset, FS_CardinalityType
  <1>2. \A s \in SUBSET S : s # {} => Pick(s) \in s
    BY DEF Pick
  <1>3. bad = {}
    <2>1. SUFFICES ASSUME bad # {} PROVE FALSE
      OBVIOUS
    <2>2. PICK n \in bad : \A m \in bad : n <= m
      BY <2>1, LeastNatural
    <2>3. CASE n = 0
      <3>1. \A s \in Upto(0) : s = {}
        BY <1>1, FS_EmptySet
      <3> DEFINE g == [s \in Upto(0) |-> 0]
      <3>2. AddsUpto(g, 0)
        BY <3>1 DEF AddedUp
      <3> QED
        BY <2>2, <2>3, <3>2
    <2>4. CASE n > 0
      <3>1. n - 1 \in Nat /\ n - 1 \notin bad
        <4>1. n \in Nat
          OBVIOUS
        <4> HIDE DEF bad
        <4> QED
          BY <2>2, <2>4, <4>1
      <3>2. PICK g : AddsUpto(g, n - 1)
        BY <3>1
      <3> DEFINE h == [s \in Upto(n) |-> AddedUp(f, g, s)]
      <3>3. ASSUME NEW s \in Upto(n), s # {} PROVE s \ {Pick(s)} \in Upto(n - 1)
        <4>1. Cardinality(s \ {Pick(s)}) = Cardinality(s) - 1
          BY <1>1, <1>2, <3>3, FS_RemoveElement
        <4> QED
          BY <1>1, <2>2, <4>1
      <3>4. h \in [Upto(n) -> Nat]
        <4>1. ASSUME NEW s \in Upto(n) PROVE AddedUp(f, g, s) \in Nat
          <5>1. CASE s = {}
            BY <5>1 DEF AddedUp
          <5>2. CASE s # {}
            <6>1. g[s \ {Pick(s)}] \in Nat /\ f[Pick(s)] \in Nat
              BY <1>2, <3>2, <3>3, <5>2
            <6> QED
              BY <5>2, <6>1 DEF AddedUp
          <5> QED
            BY <5>1, <5>2
        <4> QED
          BY <4>1
      <3>5. ASSUME NEW s \in Upto(n - 1) PROVE s \in Upto(n) /\ h[s] = g[s]
        <4>1. s \in Upto(n)
          BY <1>1, <2>2
        <4> QED
          BY <3>2, <4>1
      <3>6. ASSUME NEW s \in Upto(n) PROVE h[s] = AddedUp(f, h, s)
        BY <3>3, <3>5 DEF AddedUp
      <3>7. AddsUpto(h, n)
        BY <3>4, <3>6
      <3> QED
        BY <2>2, <3>7
    <2> QED
      BY <2>2, <2>3, <2>4
  <1>4. PICK g : AddsUpto(g, Cardinality(S))
    BY <1>1, <1>3
  <1>5. Upto(Cardinality(S)) = SUBSET S
    BY FS_Subset
  <1> HIDE DEF Upto
  <1>6. g \in [SUBSET S -> Nat] /\ \A s \in SUBSET S : g[s] = AddedUp(f, g, s)
    BY <1>4, <1>5
  <1> QED
    BY <1>6 DEF AddsUp

(* Whichever set it was made for, such a function gives the same sums.     *)
LEMMA AddsAgree ==
    ASSUME NEW S, IsFiniteSet(S), NEW T \in SUBSET S, NEW f, NEW g, NEW h,
           AddsUp(f, S, g), AddsUp(f, T, h)
    PROVE  g[T] = h[T]
  <1> DEFINE F == {s \in SUBSET T : g[s] # h[s]}
  <1>1. SUFFICES ASSUME F # {} PROVE FALSE
    OBVIOUS
  <1>2. PICK s \in F : \A x \in s : s \ {x} \notin F
    <2>1. IsFiniteSet(T)
      BY FS_Subset
    <2> QED
      BY <1>1, <2>1, SmallestSet
  <1>3. g[s] = AddedUp(f, g, s) /\ h[s] = AddedUp(f, h, s)
    BY DEF AddsUp
  <1>4. CASE s = {}
    BY <1>3, <1>4 DEF AddedUp
  <1>5. CASE s # {}
    <2>1. Pick(s) \in s
      BY <1>5 DEF Pick
    <2>2. g[s \ {Pick(s)}] = h[s \ {Pick(s)}]
      BY <1>2, <2>1
    <2> QED
      BY <1>3, <1>5, <2>2 DEF AddedUp
  <1> QED
    BY <1>4, <1>5

LEMMA SumPick ==
    ASSUME NEW S, IsFiniteSet(S), NEW f, \A x \in S : f[x] \in Nat
    PROVE  /\ SumFunctionOnSet(f, S) \in Nat
           /\ S # {} => SumFunctionOnSet(f, S)
                            = f[Pick(S)] + SumFunctionOnSet(f, S \ {Pick(S)})
  <1> DEFINE g == CHOOSE h : AddsUp(f, S, h)
             R == S \ {Pick(S)}
             r == CHOOSE h : AddsUp(f, R, h)
  <1>1. SumFunctionOnSet(f, S) = g[S] /\ SumFunctionOnSet(f, R) = r[R]
    BY SumDefined
  <1>2. AddsUp(f, S, g) /\ AddsUp(f, R, r)
    <2>1. IsFiniteSet(R)
      BY FS_Subset
    <2> QED
      BY <2>1, AddsExists
  <1>3. g[S] \in Nat
    <2>1. PICK h \in [SUBSET S -> Nat] : AddsUp(f, S, h)
      BY AddsExists
    <2>2. g[S] = h[S]
      BY <1>2, <2>1, AddsAgree
    <2> QED
      BY <2>1, <2>2
  <1>4. g[S] = AddedUp(f, g, S)
    BY <1>2 DEF AddsUp
  <1>5. g[R] = r[R]
    <2>1. R \in SUBSET S /\ IsFiniteSet(R)
      BY FS_Subset
    <2> HIDE DEF g, r, R
    <2>2. PICK m : m = [s \in SUBSET R |-> g[s]]
      OBVIOUS
    <2>3. AddsUp(f, R, m)
      <3>1. \A s \in SUBSET R : s # {} => s \ {Pick(s)} \in SUBSET R
        OBVIOUS
      <3>2. \A s \in SUBSET R : AddedUp(f, g, s) = AddedUp(f, m, s)
        BY <2>2, <3>1 DEF AddedUp
      <3>3. \A s \in SUBSET R : g[s] = AddedUp(f, g, s)
        BY <1>2, <2>1 DEF AddsUp
      <3> QED
        BY <2>2, <3>2, <3>3 DEF AddsUp
    <2>4. m[R] = r[R]
      BY <1>2, <2>1, <2>3, AddsAgree
    <2> QED
      BY <2>2, <2>4
  <1> QED
    BY <1>1, <1>3, <1>4, <1>5 DEF AddedUp

-----------------------------------------------------------------------------
(* Sums                                                                    *)
LEMMA SumNat ==
    ASSUME NEW S, IsFiniteSet(S), NEW f, \A x \in S : f[x] \in Nat
    PROVE  SumFunctionOnSet(f, S) \in Nat
  BY SumPick

LEMMA SumEmpty ==
    ASSUME NEW f
    PROVE  SumFunctionOnSet(f, {}) = 0
  <1>1. IsFiniteSet({})
    BY FS_EmptySet
  <1>2. PICK g : AddsUp(f, {}, g)
    BY <1>1, AddsExists
  <1>3. AddsUp(f, {}, CHOOSE h : AddsUp(f, {}, h))
    BY <1>2
  <1> QED
    BY <1>3, SumDefined DEF AddsUp, AddedUp

(* Any element may be taken out.                                           *)
LEMMA SumWithout ==
    ASSUME NEW S, IsFiniteSet(S), NEW f, \A x \in S : f[x] \in Nat, NEW x \in S
    PROVE  SumFunctionOnSet(f, S) = f[x] + SumFunctionOnSet(f, S \ {x})
  <1> DEFINE F == {s \in SUBSET S :
                    \E y \in s : SumFunctionOnSet(f, s) # f[y] + SumFunctionOnSet(f, s \ {y})}
  <1>1. SUFFICES ASSUME F # {} PROVE FALSE
    OBVIOUS
  <1>2. PICK s \in F : \A y \in s : s \ {y} \notin F
    BY <1>1, SmallestSet
  <1>3. PICK y \in s : SumFunctionOnSet(f, s) # f[y] + SumFunctionOnSet(f, s \ {y})
    OBVIOUS
  <1>4. IsFiniteSet(s) /\ \A z \in s : f[z] \in Nat
    BY FS_Subset
  <1>5. PICK z \in s : SumFunctionOnSet(f, s) = f[z] + SumFunctionOnSet(f, s \ {z})
    <2>1. Pick(s) \in s
      BY <1>3 DEF Pick
    <2> QED
      BY <1>4, <2>1, SumPick
  <1>6. y # z
    BY <1>3, <1>5
  <1>7. SumFunctionOnSet(f, s \ {z}) = f[y] + SumFunctionOnSet(f, (s \ {z}) \ {y})
    BY <1>2, <1>6
  <1>8. SumFunctionOnSet(f, s \ {y}) = f[z] + SumFunctionOnSet(f, (s \ {y}) \ {z})
    BY <1>2, <1>6
  <1>9. (s \ {z}) \ {y} = (s \ {y}) \ {z}
    OBVIOUS
  <1>10. PICK r : r = SumFunctionOnSet(f, (s \ {y}) \ {z}) /\ r \in Nat
    <2>1. IsFiniteSet((s \ {y}) \ {z})
      BY <1>4, FS_Subset
    <2> QED
      BY <1>4, <2>1, SumNat
  <1>11. f[y] \in Nat /\ f[z] \in Nat
    BY <1>4
  <1>12. SumFunctionOnSet(f, s \ {z}) = f[y] + r /\ SumFunctionOnSet(f, s \ {y}) = f[z] + r
    BY <1>7, <1>8, <1>9, <1>10
  <1>13. f[z] + (f[y] + r) = f[y] + (f[z] + r)
    BY <1>10, <1>11
  <1> HIDE DEF F
  <1> QED
    BY <1>3, <1>5, <1>12, <1>13

LEMMA SumWith ==
    ASSUME NEW S, IsFiniteSet(S), NEW f, NEW x, x \notin S,
           \A y \in S \cup {x} : f[y] \in Nat
    PROVE  SumFunctionOnSet(f, S \cup {x}) = f[x] + SumFunctionOnSet(f, S)
  <1>1. IsFiniteSet(S \cup {x}) /\ (S \cup {x}) \ {x} = S
    BY FS_AddElement
  <1> QED
    BY <1>1, SumWithout

(* Only the values on the set matter.                                      *)
LEMMA SumSame ==
    ASSUME NEW S, IsFiniteSet(S), NEW f, NEW g,
           \A x \in S : f[x] \in Nat /\ f[x] = g[x]
    PROVE  SumFunctionOnSet(f, S) = SumFunctionOnSet(g, S)
  <1> DEFINE F == {s \in SUBSET S : SumFunctionOnSet(f, s) # SumFunctionOnSet(g, s)}
  <1>1. SUFFICES ASSUME F # {} PROVE FALSE
    OBVIOUS
  <1>2. PICK s \in F : \A y \in s : s \ {y} \notin F
    BY <1>1, SmallestSet
  <1>3. PICK x : x \in s
    BY SumEmpty
  <1>4. IsFiniteSet(s) /\ \A z \in s : f[z] \in Nat /\ g[z] \in Nat
    BY FS_Subset
  <1>5. /\ SumFunctionOnSet(f, s) = f[x] + SumFunctionOnSet(f, s \ {x})
        /\ SumFunctionOnSet(g, s) = g[x] + SumFunctionOnSet(g, s \ {x})
    BY <1>3, <1>4, SumWithout
  <1>6. SumFunctionOnSet(f, s \ {x}) = SumFunctionOnSet(g, s \ {x}) /\ f[x] = g[x]
    BY <1>2, <1>3
  <1> QED
    BY <1>5, <1>6

(* The sum over two sets that have nothing in common.                      *)
LEMMA SumUnion ==
    ASSUME NEW S, IsFiniteSet(S), NEW T, IsFiniteSet(T), S \cap T = {}, NEW f,
           \A x \in S \cup T : f[x] \in Nat
    PROVE  SumFunctionOnSet(f, S \cup T) = SumFunctionOnSet(f, S) + SumFunctionOnSet(f, T)
  <1> DEFINE F == {t \in SUBSET T : SumFunctionOnSet(f, S \cup t)
                        # SumFunctionOnSet(f, S) + SumFunctionOnSet(f, t)}
  <1>1. SUFFICES ASSUME F # {} PROVE FALSE
    OBVIOUS
  <1>2. PICK t \in F : \A y \in t : t \ {y} \notin F
    BY <1>1, SmallestSet
  <1>3. SumFunctionOnSet(f, S) \in Nat
    BY SumNat
  <1>4. PICK x : x \in t
    <2>1. t = {} => FALSE
      <3>1. S \cup {} = S
        OBVIOUS
      <3> QED
        BY <1>3, <3>1, SumEmpty
    <2> QED
      BY <2>1
  <1>5. IsFiniteSet(t) /\ IsFiniteSet(S \cup t) /\ IsFiniteSet(t \ {x})
    BY FS_Subset, FS_Union
  <1>6. SumFunctionOnSet(f, S \cup t) = f[x] + SumFunctionOnSet(f, (S \cup t) \ {x})
    BY <1>4, <1>5, SumWithout
  <1>7. SumFunctionOnSet(f, t) = f[x] + SumFunctionOnSet(f, t \ {x})
    BY <1>4, <1>5, SumWithout
  <1>8. (S \cup t) \ {x} = S \cup (t \ {x})
    BY <1>4
  <1>9. SumFunctionOnSet(f, S \cup (t \ {x}))
            = SumFunctionOnSet(f, S) + SumFunctionOnSet(f, t \ {x})
    BY <1>2, <1>4
  <1>10. SumFunctionOnSet(f, t \ {x}) \in Nat /\ f[x] \in Nat
    BY <1>4, <1>5, SumNat
  <1> QED
    BY <1>3, <1>6, <1>7, <1>8, <1>9, <1>10

LEMMA SumSubset ==
    ASSUME NEW S, IsFiniteSet(S), NEW T \in SUBSET S, NEW f, \A x \in S : f[x] \in Nat
    PROVE  SumFunctionOnSet(f, T) <= SumFunctionOnSet(f, S)
  <1>1. IsFiniteSet(T) /\ IsFiniteSet(S \ T) /\ S = T \cup (S \ T) /\ T \cap (S \ T) = {}
    BY FS_Subset
  <1>2. SumFunctionOnSet(f, S) = SumFunctionOnSet(f, T) + SumFunctionOnSet(f, S \ T)
    BY <1>1, SumUnion
  <1>3. SumFunctionOnSet(f, T) \in Nat /\ SumFunctionOnSet(f, S \ T) \in Nat
    BY <1>1, SumNat
  <1> QED
    BY <1>2, <1>3

LEMMA SumAtMost ==
    ASSUME NEW S, IsFiniteSet(S), NEW f, NEW m \in Nat,
           \A x \in S : f[x] \in Nat /\ f[x] <= m
    PROVE  SumFunctionOnSet(f, S) <= m * Cardinality(S)
  <1> DEFINE F == {s \in SUBSET S : ~(SumFunctionOnSet(f, s) <= m * Cardinality(s))}
  <1>1. SUFFICES ASSUME F # {} PROVE FALSE
    OBVIOUS
  <1>2. PICK s \in F : \A y \in s : s \ {y} \notin F
    BY <1>1, SmallestSet
  <1>3. IsFiniteSet(s) /\ Cardinality(s) \in Nat
    BY FS_Subset, FS_CardinalityType
  <1>4. PICK x : x \in s
    BY SumEmpty, FS_EmptySet
  <1>5. SumFunctionOnSet(f, s) = f[x] + SumFunctionOnSet(f, s \ {x})
    BY <1>3, <1>4, SumWithout
  <1>6. Cardinality(s \ {x}) = Cardinality(s) - 1 /\ IsFiniteSet(s \ {x})
    BY <1>3, <1>4, FS_RemoveElement
  <1>7. SumFunctionOnSet(f, s \ {x}) <= m * (Cardinality(s) - 1)
    BY <1>2, <1>4, <1>6
  <1>8. SumFunctionOnSet(f, s \ {x}) \in Nat /\ f[x] \in Nat /\ f[x] <= m
    BY <1>4, <1>6, SumNat
  <1>9. m * (Cardinality(s) - 1) = m * Cardinality(s) - m /\ m * Cardinality(s) \in Nat
    BY <1>3
  <1> QED
    BY <1>5, <1>7, <1>8, <1>9

(* A sum does not depend on what its terms are indexed by.                 *)
LEMMA SumRenamed ==
    ASSUME NEW S, IsFiniteSet(S), NEW T, NEW f, NEW g, NEW w \in [S -> T],
           \A x, y \in S : w[x] = w[y] => x = y,
           \A y \in T : \E x \in S : w[x] = y,
           \A x \in S : f[x] \in Nat /\ g[w[x]] = f[x]
    PROVE  SumFunctionOnSet(f, S) = SumFunctionOnSet(g, T)
  <1> DEFINE Image(s) == {w[x] : x \in s}
             F == {s \in SUBSET S : SumFunctionOnSet(f, s) # SumFunctionOnSet(g, Image(s))}
  <1>1. SUFFICES ASSUME F # {} PROVE FALSE
    <2>1. Image(S) = T
      OBVIOUS
    <2>2. SumFunctionOnSet(f, S) = SumFunctionOnSet(g, Image(S))
      OBVIOUS
    <2> HIDE DEF Image
    <2> QED
      BY <2>1, <2>2
  <1>2. PICK s \in F : \A x \in s : s \ {x} \notin F
    BY <1>1, SmallestSet
  <1>3. /\ s \in SUBSET S /\ IsFiniteSet(s)
        /\ SumFunctionOnSet(f, s) # SumFunctionOnSet(g, Image(s))
    BY <1>2, FS_Subset
  <1>4. CASE s = {}
    <2>1. Image(s) = {}
      BY <1>4
    <2> HIDE DEF Image, F
    <2> QED
      BY <1>3, <1>4, <2>1, SumEmpty
  <1>5. CASE s # {}
    <2>1. PICK x \in s : TRUE
      BY <1>5
    <2>2. SumFunctionOnSet(f, s \ {x}) = SumFunctionOnSet(g, Image(s \ {x}))
      BY <1>2, <1>3
    <2>3. /\ Image(s \ {x}) = Image(s) \ {w[x]} /\ w[x] \in Image(s)
          /\ \A y \in Image(s) : g[y] \in Nat
      BY <1>3
    <2>4. IsFiniteSet(Image(s))
      <3>1. [z \in s |-> w[z]] \in Surjection(s, Image(s))
        BY DEF Surjection
      <3> QED
        BY <1>3, <3>1, FS_Surjection
    <2> HIDE DEF Image, F
    <2>5. SumFunctionOnSet(f, s) = f[x] + SumFunctionOnSet(f, s \ {x})
      BY <1>3, SumWithout
    <2>6. SumFunctionOnSet(g, Image(s)) = g[w[x]] + SumFunctionOnSet(g, Image(s) \ {w[x]})
      BY <2>3, <2>4, SumWithout
    <2>7. SumFunctionOnSet(g, Image(s)) = g[w[x]] + SumFunctionOnSet(g, Image(s \ {x}))
      BY <2>3, <2>6, Zenon
    <2> QED
      BY <1>3, <2>2, <2>5, <2>7
  <1> QED
    BY <1>4, <1>5
=============================================================================
