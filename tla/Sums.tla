-------------------------------- MODULE Sums --------------------------------
(***************************************************************************)
(* Sums over finite sets and sequences: what MapThenSumSet and FoldSeq of  *)
(* the community modules compute.  The provers cannot instantiate an       *)
(* induction theorem, whose parameter is an operator, so each induction is *)
(* a proof by contradiction from the least counterexample.                 *)
(***************************************************************************)
EXTENDS Integers, FiniteSets, FiniteSetsExt, Sequences, SequencesExt, FiniteSetTheorems,
        WellFoundedInduction, TLAPS

SumOf(f, S) == MapThenSumSet(LAMBDA x : f[x], S)

(* A set of numbers has a least element. *)
LEMMA LeastNumber ==
  ASSUME NEW S, S \subseteq Nat, S # {}
  PROVE  \E m \in S : \A k \in S : m <= k
<1> DEFINE R == OpToRel(<, Nat)
<1>1. PICK x \in S : TRUE
  OBVIOUS
<1>2. PICK m \in S : \A k \in S : ~ (<<k, m>> \in R)
  <2>1. IsWellFoundedOn(R, Nat)
    BY NatLessThanWellFounded
  <2> HIDE DEF R
  <2> QED BY <1>1, <2>1, WFMin
<1>3. ASSUME NEW k \in S PROVE m <= k
  <2>1. k \in Nat /\ m \in Nat
    OBVIOUS
  <2>2. ~(k < m)
    BY <1>2, <2>1 DEF OpToRel
  <2> QED BY <2>1, <2>2
<1> QED BY <1>3

(* Among subsets of a finite set there is one of which no part that lacks  *)
(* one element is another.                                                 *)
LEMMA LeastSet ==
  ASSUME NEW S, IsFiniteSet(S), NEW Bad, Bad \subseteq SUBSET S, Bad # {}
  PROVE  \E s \in Bad : IsFiniteSet(s) /\ \A x \in s : s \ {x} \notin Bad
<1> DEFINE N == {Cardinality(s) : s \in Bad}
<1>1. \A s \in Bad : IsFiniteSet(s) /\ Cardinality(s) \in Nat
  BY FS_Subset, FS_CardinalityType
<1>2. N \subseteq Nat /\ N # {}
  BY <1>1
<1>3. PICK n \in N : \A k \in N : n <= k
  <2> HIDE DEF N
  <2> QED BY <1>2, LeastNumber
<1>4. PICK s \in Bad : n = Cardinality(s)
  OBVIOUS
<1>5. ASSUME NEW x \in s PROVE s \ {x} \notin Bad
  <2>1. Cardinality(s \ {x}) = Cardinality(s) - 1 /\ Cardinality(s) \in Nat
    BY <1>1, FS_RemoveElement
  <2> QED BY <1>3, <1>4, <2>1
<1> QED BY <1>1, <1>5

-----------------------------------------------------------------------------
(* The recursion of MapThenSumSet *)
Chosen(s) == CHOOSE x \in s : TRUE
IsIter(f, S, iter) ==
  iter = [s \in SUBSET S |-> IF s = {} THEN 0 ELSE f[Chosen(s)] + iter[s \ {Chosen(s)}]]
Iter(f, S) == CHOOSE iter : IsIter(f, S, iter)

(* MapThenSumSet is the value of such a function. *)
LEMMA SumIsIter ==
  ASSUME NEW f, NEW S
  PROVE  SumOf(f, S) = Iter(f, S)[S]
BY DEF SumOf, MapThenSumSet, MapThenFoldSet, Iter, IsIter, Chosen

(* There is such a function. *)
LEMMA IterExists ==
  ASSUME NEW f, NEW S, IsFiniteSet(S)
  PROVE  IsIter(f, S, Iter(f, S))
<1> DEFINE Small(n) == {s \in SUBSET S : Cardinality(s) <= n}
           Body(s, g) == IF s = {} THEN 0 ELSE f[Chosen(s)] + g[s \ {Chosen(s)}]
           Fits(n, g) == g = [s \in Small(n) |-> Body(s, g)]
           Bad == {n \in Nat : ~\E g : Fits(n, g)}
<1>0. \A s \in SUBSET S : IsFiniteSet(s) /\ Cardinality(s) \in Nat
  BY FS_Subset, FS_CardinalityType
<1>1. \A s : s # {} => Chosen(s) \in s
  BY DEF Chosen
<1>2. ASSUME NEW n \in Nat, NEW s \in Small(n), s # {}
      PROVE  s \ {Chosen(s)} \in SUBSET S /\ Cardinality(s \ {Chosen(s)}) <= n - 1
  <2>1. s \in SUBSET S /\ Cardinality(s) <= n
    OBVIOUS
  <2>2. Cardinality(s \ {Chosen(s)}) = Cardinality(s) - 1 /\ Cardinality(s) \in Nat
    BY <1>0, <1>1, <1>2, <2>1, FS_RemoveElement
  <2> QED BY <2>1, <2>2
<1>3. Bad = {}
  <2> SUFFICES ASSUME Bad # {} PROVE FALSE
    OBVIOUS
  <2>1. PICK n \in Bad : \A k \in Bad : n <= k
    <3>1. Bad \subseteq Nat
      OBVIOUS
    <3> HIDE DEF Bad
    <3> QED BY <3>1, LeastNumber
  <2>2. n \in Nat /\ ~\E g : Fits(n, g)
    OBVIOUS
  <2>3. CASE n = 0
    <3>1. \A s \in Small(0) : s = {}
      BY <1>0, FS_EmptySet
    <3>2. Fits(0, [s \in Small(0) |-> 0])
      <4> HIDE DEF Small
      <4> QED BY <3>1
    <3> HIDE DEF Fits
    <3> QED BY <2>2, <2>3, <3>2
  <2>4. CASE n # 0
    <3>1. n - 1 \in Nat /\ n - 1 \notin Bad
      <4>1. n - 1 \in Nat /\ ~(n <= n - 1)
        BY <2>2, <2>4
      <4> HIDE DEF Bad
      <4> QED BY <2>1, <4>1
    <3>2. PICK g : Fits(n - 1, g)
      BY <3>1
    <3> DEFINE h == [s \in Small(n) |-> Body(s, g)]
    <3>3. ASSUME NEW s \in Small(n) PROVE Body(s, g) = Body(s, h)
      <4>1. CASE s = {}
        BY <4>1
      <4>2. CASE s # {}
        <5> DEFINE t == s \ {Chosen(s)}
        <5>1. t \in Small(n - 1) /\ t \in Small(n)
          <6>1. t \in SUBSET S /\ Cardinality(t) <= n - 1
            BY <1>2, <2>2, <4>2
          <6>2. Cardinality(t) <= n
            BY <1>0, <2>2, <6>1
          <6> QED BY <6>1, <6>2
        <5>2. g[t] = Body(t, g)
          <6> HIDE DEF Small, Body, t
          <6> QED BY <3>2, <5>1
        <5>3. h[t] = Body(t, g)
          <6> HIDE DEF Small, Body, t
          <6> QED BY <5>1
        <5>4. g[t] = h[t]
          BY <5>2, <5>3
        <5> QED BY <4>2, <5>4
      <4> QED BY <4>1, <4>2
    <3>4. h = [s \in Small(n) |-> Body(s, h)]
      <4>1. h = [s \in Small(n) |-> Body(s, g)]
        OBVIOUS
      <4> HIDE DEF h, Body, Small
      <4> QED BY <3>3, <4>1
    <3> HIDE DEF h, Small, Body
    <3> QED BY <2>2, <3>4
  <2> QED BY <2>3, <2>4
<1>4. PICK g : Fits(Cardinality(S), g)
  BY <1>0, <1>3
<1>5. Small(Cardinality(S)) = SUBSET S
  <2>1. \A s \in SUBSET S : Cardinality(s) <= Cardinality(S)
    BY FS_Subset
  <2> QED BY <2>1
<1>6. IsIter(f, S, g)
  BY <1>4, <1>5 DEF IsIter
<1> QED BY <1>6 DEF Iter

(* One step of the iteration. *)
LEMMA IterStep ==
  ASSUME NEW f, NEW S, IsFiniteSet(S), NEW s \in SUBSET S
  PROVE  /\ s # {} => Chosen(s) \in s
         /\ Iter(f, S)[s] = IF s = {} THEN 0 ELSE f[Chosen(s)] + Iter(f, S)[s \ {Chosen(s)}]
<1>1. s # {} => Chosen(s) \in s
  BY DEF Chosen
<1>2. IsIter(f, S, Iter(f, S))
  BY IterExists
<1> HIDE DEF Iter
<1> QED BY <1>1, <1>2 DEF IsIter

(* Two of them agree where their summands do. *)
LEMMA IterSame ==
  ASSUME NEW f, NEW S, IsFiniteSet(S), NEW g, NEW T, IsFiniteSet(T),
         NEW i, IsIter(f, S, i), NEW j, IsIter(g, T, j),
         NEW U \in SUBSET (S \cap T), \A x \in U : f[x] = g[x]
  PROVE  i[U] = j[U]
<1> DEFINE Bad == {s \in SUBSET U : i[s] # j[s]}
<1>1. IsFiniteSet(U) /\ Bad \subseteq SUBSET U
  BY FS_Subset
<1>2. Bad = {}
  <2> SUFFICES ASSUME Bad # {} PROVE FALSE
    OBVIOUS
  <2>1. PICK s \in Bad : \A x \in s : s \ {x} \notin Bad
    <3> HIDE DEF Bad
    <3> QED BY <1>1, LeastSet
  <2>2. s \in SUBSET S /\ s \in SUBSET T /\ s \in SUBSET U
    OBVIOUS
  <2>3. s # {} /\ Chosen(s) \in s
    <3>1. s # {} => Chosen(s) \in s
      BY DEF Chosen
    <3>2. i[s] # j[s]
      OBVIOUS
    <3> QED BY <2>2, <3>1, <3>2 DEF IsIter
  <2>4. i[s \ {Chosen(s)}] = j[s \ {Chosen(s)}]
    BY <2>1, <2>2, <2>3
  <2>5. f[Chosen(s)] = g[Chosen(s)]
    BY <2>2, <2>3
  <2>6. i[s] = f[Chosen(s)] + i[s \ {Chosen(s)}]
    BY <2>2, <2>3 DEF IsIter
  <2>7. j[s] = g[Chosen(s)] + j[s \ {Chosen(s)}]
    BY <2>2, <2>3 DEF IsIter
  <2> QED BY <2>4, <2>5, <2>6, <2>7
<1> QED BY <1>2

(* Whatever satisfies the recursion computes the sum: so does the one of   *)
(* MapThenSumSet for an expression in the place of f[x].                   *)
LEMMA IterIsSum ==
  ASSUME NEW f, NEW S, IsFiniteSet(S), NEW i, IsIter(f, S, i)
  PROVE  i[S] = SumOf(f, S)
<1>1. IsIter(f, S, Iter(f, S))
  BY IterExists
<1>2. i[S] = Iter(f, S)[S]
  <2> HIDE DEF Iter
  <2> QED BY <1>1, IterSame
<1> QED BY <1>2, SumIsIter

(* The sum of a set depends on its summands only. *)
LEMMA SumSame ==
  ASSUME NEW f, NEW g, NEW S, IsFiniteSet(S), \A x \in S : f[x] = g[x]
  PROVE  SumOf(f, S) = SumOf(g, S)
<1>1. IsIter(f, S, Iter(f, S)) /\ IsIter(g, S, Iter(g, S))
  BY IterExists
<1>2. Iter(f, S)[S] = Iter(g, S)[S]
  <2> HIDE DEF Iter
  <2> QED BY <1>1, IterSame
<1> QED BY <1>2, SumIsIter

(* One summand, and the rest. *)
LEMMA SumStep ==
  ASSUME NEW f, NEW S, IsFiniteSet(S)
  PROVE  /\ S # {} => Chosen(S) \in S
         /\ SumOf(f, S) = IF S = {} THEN 0 ELSE f[Chosen(S)] + SumOf(f, S \ {Chosen(S)})
<1>1. IsFiniteSet(S \ {Chosen(S)}) /\ S \ {Chosen(S)} \in SUBSET S
  BY FS_RemoveElement
<1>2. Iter(f, S)[S \ {Chosen(S)}] = SumOf(f, S \ {Chosen(S)})
  <2> DEFINE R == S \ {Chosen(S)}
  <2>1. IsIter(f, S, Iter(f, S)) /\ IsIter(f, R, Iter(f, R)) /\ R \in SUBSET (S \cap R)
    BY <1>1, IterExists
  <2>2. Iter(f, S)[R] = Iter(f, R)[R]
    <3> DEFINE i == Iter(f, S)
               j == Iter(f, R)
    <3>1. IsFiniteSet(R) /\ IsIter(f, S, i) /\ IsIter(f, R, j)
          /\ R \in SUBSET (S \cap R) /\ \A x \in R : f[x] = f[x]
      BY <1>1, <2>1
    <3> HIDE DEF i, j, R
    <3>2. i[R] = j[R]
      <4>1. \A U \in SUBSET (S \cap R) : (\A x \in U : f[x] = f[x]) => i[U] = j[U]
        BY <3>1, IterSame
      <4> QED BY <3>1, <4>1
    <3> QED BY <3>2 DEF i, j
  <2> QED BY <2>2, SumIsIter
<1>3. SumOf(f, S) = Iter(f, S)[S]
  BY SumIsIter
<1>4. /\ S # {} => Chosen(S) \in S
      /\ Iter(f, S)[S] = IF S = {} THEN 0 ELSE f[Chosen(S)] + Iter(f, S)[S \ {Chosen(S)}]
  <2>1. \A s \in SUBSET S :
          /\ s # {} => Chosen(s) \in s
          /\ Iter(f, S)[s] = IF s = {} THEN 0 ELSE f[Chosen(s)] + Iter(f, S)[s \ {Chosen(s)}]
    BY IterStep
  <2> QED BY <2>1
<1> HIDE DEF Iter, Chosen, SumOf
<1> QED BY <1>2, <1>3, <1>4

(* Nothing adds up to nothing. *)
LEMMA SumEmpty ==
  ASSUME NEW f
  PROVE  SumOf(f, {}) = 0
BY SumStep, FS_EmptySet

(* A sum of integers is an integer. *)
LEMMA SumType ==
  ASSUME NEW f, NEW S, IsFiniteSet(S), \A x \in S : f[x] \in Int
  PROVE  SumOf(f, S) \in Int
<1> DEFINE Bad == {s \in SUBSET S : SumOf(f, s) \notin Int}
<1>1. Bad = {}
  <2> SUFFICES ASSUME Bad # {} PROVE FALSE
    OBVIOUS
  <2>1. PICK s \in Bad : IsFiniteSet(s) /\ \A x \in s : s \ {x} \notin Bad
    <3>1. Bad \subseteq SUBSET S
      OBVIOUS
    <3> HIDE DEF Bad
    <3> QED BY <3>1, LeastSet
  <2>2. s # {} /\ Chosen(s) \in s
    <3>1. s # {}
      BY SumEmpty
    <3> QED BY <2>1, <3>1, SumStep
  <2>3. SumOf(f, s \ {Chosen(s)}) \in Int /\ f[Chosen(s)] \in Int
    BY <2>1, <2>2
  <2>4. SumOf(f, s) = f[Chosen(s)] + SumOf(f, s \ {Chosen(s)})
    BY <2>1, <2>2, SumStep
  <2> QED BY <2>3, <2>4
<1> QED BY <1>1

(* The order of the summands does not matter. *)
LEMMA SumRemove ==
  ASSUME NEW f, NEW S, IsFiniteSet(S), \A x \in S : f[x] \in Int, NEW x \in S
  PROVE  SumOf(f, S) = f[x] + SumOf(f, S \ {x})
<1> DEFINE Wrong(s) == \E y \in s : SumOf(f, s) # f[y] + SumOf(f, s \ {y})
           Bad == {s \in SUBSET S : Wrong(s)}
<1>1. Bad = {}
  <2> SUFFICES ASSUME Bad # {} PROVE FALSE
    OBVIOUS
  <2>1. PICK s \in Bad : IsFiniteSet(s) /\ \A y \in s : s \ {y} \notin Bad
    <3>1. Bad \subseteq SUBSET S
      OBVIOUS
    <3> HIDE DEF Bad
    <3> QED BY <3>1, LeastSet
  <2>2. PICK y \in s : SumOf(f, s) # f[y] + SumOf(f, s \ {y})
    OBVIOUS
  <2> DEFINE c == Chosen(s)
             t == s \ {c}
             u == s \ {y}
  <2>3. /\ s # {} /\ c \in s /\ SumOf(f, s) = f[c] + SumOf(f, t)
        /\ \A z \in s : f[z] \in Int
    BY <2>1, SumStep
  <2> HIDE DEF c
  <2>4. c # y
    BY <2>2, <2>3
  <2>5. y \in t /\ c \in u /\ t \ {y} = u \ {c} /\ IsFiniteSet(t) /\ IsFiniteSet(u)
    BY <2>1, <2>3, <2>4, FS_RemoveElement
  <2>6. t \notin Bad /\ u \notin Bad /\ t \in SUBSET S /\ u \in SUBSET S
    BY <2>1, <2>3
  <2>7. SumOf(f, t) = f[y] + SumOf(f, t \ {y}) /\ SumOf(f, u) = f[c] + SumOf(f, u \ {c})
    BY <2>5, <2>6
  <2>8. SumOf(f, t \ {y}) \in Int
    <3>1. IsFiniteSet(t \ {y}) /\ \A z \in t \ {y} : f[z] \in Int
      BY <2>3, <2>5, FS_RemoveElement
    <3> QED BY <3>1, SumType
  <2>9. f[y] \in Int /\ f[c] \in Int
    BY <2>3
  <2>10. SumOf(f, s) = f[y] + SumOf(f, u)
    <3> HIDE DEF t, u
    <3>1. SumOf(f, s) = f[c] + (f[y] + SumOf(f, t \ {y}))
      BY <2>3, <2>7
    <3>2. SumOf(f, u) = f[c] + SumOf(f, t \ {y})
      BY <2>5, <2>7
    <3> QED BY <2>8, <2>9, <3>1, <3>2
  <2> QED BY <2>2, <2>10
<1> QED BY <1>1

(* One more summand. *)
LEMMA SumAdd ==
  ASSUME NEW f, NEW S, IsFiniteSet(S), NEW x, x \notin S, \A y \in S \cup {x} : f[y] \in Int
  PROVE  SumOf(f, S \cup {x}) = f[x] + SumOf(f, S)
<1>1. IsFiniteSet(S \cup {x}) /\ (S \cup {x}) \ {x} = S
  BY FS_AddElement
<1> QED BY <1>1, SumRemove

(* Two sets without a common element. *)
LEMMA SumUnion ==
  ASSUME NEW f, NEW S, IsFiniteSet(S), NEW T, IsFiniteSet(T), S \cap T = {},
         \A x \in S \cup T : f[x] \in Int
  PROVE  SumOf(f, S \cup T) = SumOf(f, S) + SumOf(f, T)
<1> DEFINE Bad == {s \in SUBSET T : SumOf(f, S \cup s) # SumOf(f, S) + SumOf(f, s)}
<1>1. Bad = {}
  <2> SUFFICES ASSUME Bad # {} PROVE FALSE
    OBVIOUS
  <2>1. PICK s \in Bad : IsFiniteSet(s) /\ \A x \in s : s \ {x} \notin Bad
    <3>1. Bad \subseteq SUBSET T
      OBVIOUS
    <3> HIDE DEF Bad
    <3> QED BY <3>1, LeastSet
  <2>2. s \in SUBSET T /\ SumOf(f, S \cup s) # SumOf(f, S) + SumOf(f, s) /\ SumOf(f, S) \in Int
    BY SumType
  <2>3. s # {}
    <3>1. S \cup {} = S /\ SumOf(f, {}) = 0
      BY SumEmpty
    <3> QED BY <2>2, <3>1
  <2>4. PICK x \in s : TRUE
    BY <2>3
  <2> DEFINE t == s \ {x}
  <2>5. t \in SUBSET T /\ IsFiniteSet(t) /\ IsFiniteSet(S \cup t) /\ IsFiniteSet(S \cup s)
    BY <2>1, <2>2, FS_RemoveElement, FS_Union
  <2>6. SumOf(f, S \cup t) = SumOf(f, S) + SumOf(f, t)
    BY <2>1, <2>5
  <2>7. SumOf(f, s) = f[x] + SumOf(f, t) /\ f[x] \in Int /\ SumOf(f, t) \in Int
    <3>1. \A y \in s : f[y] \in Int
      BY <2>2
    <3>2. SumOf(f, s) = f[x] + SumOf(f, t)
      BY <2>1, <3>1, SumRemove
    <3>3. SumOf(f, t) \in Int
      BY <2>5, <3>1, SumType
    <3> QED BY <2>4, <3>1, <3>2, <3>3
  <2>8. SumOf(f, S \cup s) = f[x] + SumOf(f, S \cup t)
    <3>1. (S \cup s) \ {x} = S \cup t /\ x \in S \cup s
      BY <2>2
    <3>2. \A y \in S \cup s : f[y] \in Int
      BY <2>2
    <3> QED BY <2>5, <3>1, <3>2, SumRemove
  <2> HIDE DEF t
  <2> QED BY <2>2, <2>6, <2>7, <2>8
<1> QED BY <1>1

(* The summands may be counted under other names. *)
Renames(f, S, g, h) ==
  /\ IsFiniteSet(S)
  /\ \A x \in S : f[x] \in Int /\ g[h[x]] = f[x]
  /\ \A x, y \in S : h[x] = h[y] => x = y

LEMMA SumRenamed ==
  ASSUME NEW f, NEW S, NEW g, NEW h, Renames(f, S, g, h)
  PROVE  /\ IsFiniteSet({h[x] : x \in S})
         /\ SumOf(g, {h[x] : x \in S}) = SumOf(f, S)
<1> /\ IsFiniteSet(S)
    /\ \A x \in S : f[x] \in Int /\ g[h[x]] = f[x]
    /\ \A x, y \in S : h[x] = h[y] => x = y
  BY DEF Renames
<1> DEFINE Im(s) == {h[x] : x \in s}
           Good(s) == IsFiniteSet(Im(s)) /\ SumOf(g, Im(s)) = SumOf(f, s)
           Bad == {s \in SUBSET S : ~Good(s)}
<1>1. Bad = {}
  <2> SUFFICES ASSUME Bad # {} PROVE FALSE
    OBVIOUS
  <2>1. PICK s \in Bad : IsFiniteSet(s) /\ \A x \in s : s \ {x} \notin Bad
    <3>1. Bad \subseteq SUBSET S
      OBVIOUS
    <3> HIDE DEF Bad
    <3> QED BY <3>1, LeastSet
  <2>2. s \in SUBSET S /\ ~Good(s)
    OBVIOUS
  <2>3. s # {}
    <3>1. Im({}) = {}
      OBVIOUS
    <3>2. Good({})
      BY <3>1, SumEmpty, FS_EmptySet
    <3> HIDE DEF Good
    <3> QED BY <2>2, <3>2
  <2>4. PICK x \in s : TRUE
    BY <2>3
  <2> DEFINE t == s \ {x}
  <2>5. Good(t)
    <3>1. t \in SUBSET S /\ t \notin Bad
      BY <2>1, <2>2, <2>4
    <3> HIDE DEF Good, t
    <3> QED BY <3>1
  <2>6. Im(s) = Im(t) \cup {h[x]} /\ h[x] \notin Im(t)
    BY <2>2, <2>4
  <2>7. IsFiniteSet(Im(t)) /\ IsFiniteSet(Im(s)) /\ IsFiniteSet(t)
    <3>1. IsFiniteSet(Im(t)) /\ IsFiniteSet(t)
      BY <2>1, <2>5, FS_RemoveElement
    <3>2. IsFiniteSet(Im(t) \cup {h[x]})
      <4> HIDE DEF Im, t
      <4> QED BY <3>1, FS_AddElement
    <3> HIDE DEF Im, t
    <3> QED BY <2>6, <3>1, <3>2
  <2>8. \A y \in Im(s) : g[y] \in Int
    BY <2>2
  <2>9. SumOf(g, Im(s)) = g[h[x]] + SumOf(g, Im(t))
    <3> HIDE DEF Im, t
    <3> QED BY <2>6, <2>7, <2>8, SumAdd
  <2>10. SumOf(f, s) = f[x] + SumOf(f, t)
    BY <2>1, <2>2, <2>4, SumRemove
  <2>11. g[h[x]] = f[x] /\ SumOf(g, Im(t)) = SumOf(f, t)
    BY <2>2, <2>4, <2>5
  <2>12. SumOf(g, Im(s)) = SumOf(f, s)
    <3> HIDE DEF Im, t
    <3> QED BY <2>9, <2>10, <2>11
  <2>13. Good(s)
    BY <2>7, <2>12
  <2> HIDE DEF Good
  <2> QED BY <2>2, <2>13
<1>2. S \notin Bad
  BY <1>1
<1> QED BY <1>2

(* A sum of natural numbers is one. *)
LEMMA SumPositive ==
  ASSUME NEW f, NEW S, IsFiniteSet(S), \A x \in S : f[x] \in Nat
  PROVE  SumOf(f, S) \in Nat
<1> DEFINE Bad == {s \in SUBSET S : SumOf(f, s) \notin Nat}
<1>1. Bad = {}
  <2> SUFFICES ASSUME Bad # {} PROVE FALSE
    OBVIOUS
  <2>1. PICK s \in Bad : IsFiniteSet(s) /\ \A x \in s : s \ {x} \notin Bad
    <3>1. Bad \subseteq SUBSET S
      OBVIOUS
    <3> HIDE DEF Bad
    <3> QED BY <3>1, LeastSet
  <2>2. s # {} /\ Chosen(s) \in s
    <3>1. s # {}
      BY SumEmpty
    <3> QED BY <2>1, <3>1, SumStep
  <2>3. SumOf(f, s \ {Chosen(s)}) \in Nat /\ f[Chosen(s)] \in Nat
    BY <2>1, <2>2
  <2>4. SumOf(f, s) = f[Chosen(s)] + SumOf(f, s \ {Chosen(s)})
    BY <2>1, <2>2, SumStep
  <2> QED BY <2>3, <2>4
<1> QED BY <1>1

-----------------------------------------------------------------------------
(* The recursion of FlattenSeq *)
IsFlatten(ss, F) ==
  F = [i \in 1..Len(ss) |-> IF i = 1 THEN ss[i] ELSE F[i - 1] \o ss[i]]

(* FlattenSeq is the last of such functions. *)
LEMMA FlattenIs ==
  ASSUME NEW ss, Len(ss) \in Nat \ {0}
  PROVE  \E F : IsFlatten(ss, F) /\ FlattenSeq(ss) = F[Len(ss)]
<1> DEFINE Body(i, F) == IF i = 1 THEN ss[i] ELSE F[i - 1] \o ss[i]
           Fits(n, F) == F = [i \in 1..n |-> Body(i, F)]
           Bad == {n \in Nat : ~\E F : Fits(n, F)}
           C == CHOOSE F : IsFlatten(ss, F)
<1>1. Bad = {}
  <2> SUFFICES ASSUME Bad # {} PROVE FALSE
    OBVIOUS
  <2>1. PICK n \in Bad : \A k \in Bad : n <= k
    <3>1. Bad \subseteq Nat
      OBVIOUS
    <3> HIDE DEF Bad
    <3> QED BY <3>1, LeastNumber
  <2>2. n \in Nat /\ ~\E F : Fits(n, F)
    OBVIOUS
  <2>3. n # 0
    <3>1. Fits(0, [i \in 1..0 |-> 0])
      OBVIOUS
    <3> HIDE DEF Fits
    <3> QED BY <2>2, <3>1
  <2>4. n - 1 \in Nat /\ n - 1 \notin Bad
    <3>1. n - 1 \in Nat /\ ~(n <= n - 1)
      BY <2>2, <2>3
    <3> HIDE DEF Bad
    <3> QED BY <2>1, <3>1
  <2>5. PICK G : Fits(n - 1, G)
    BY <2>4
  <2> DEFINE H == [i \in 1..n |-> Body(i, G)]
  <2>6. ASSUME NEW i \in 1..n PROVE Body(i, G) = Body(i, H)
    <3>1. CASE i = 1
      BY <3>1
    <3>2. CASE i # 1
      <4>1. i - 1 \in 1..(n - 1) /\ i - 1 \in 1..n
        BY <2>2, <3>2
      <4>2. G[i - 1] = Body(i - 1, G)
        <5> HIDE DEF Body
        <5> QED BY <2>5, <4>1
      <4>3. H[i - 1] = Body(i - 1, G)
        <5> HIDE DEF Body
        <5> QED BY <4>1
      <4> HIDE DEF H
      <4> QED BY <3>2, <4>2, <4>3
    <3> QED BY <3>1, <3>2
  <2>7. H = [i \in 1..n |-> Body(i, H)]
    <3>1. H = [i \in 1..n |-> Body(i, G)]
      OBVIOUS
    <3> HIDE DEF H, Body
    <3> QED BY <2>6, <3>1
  <2> HIDE DEF H, Body
  <2> QED BY <2>2, <2>7
<1>2. IsFlatten(ss, C)
  <2>1. \E F : Fits(Len(ss), F)
    BY <1>1
  <2>2. \E F : IsFlatten(ss, F)
    BY <2>1 DEF IsFlatten
  <2> QED BY <2>2
<1>3. FlattenSeq(ss) = C[Len(ss)]
  BY DEF FlattenSeq, IsFlatten
<1> HIDE DEF C
<1> QED BY <1>2, <1>3
=============================================================================
