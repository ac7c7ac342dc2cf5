---------------------------- MODULE SumTheorems ----------------------------
(***************************************************************************)
(* Least members of sets of natural numbers, and sums over finite sets: of *)
(* the blocks of a pool, and of the products of a convolution.             *)
(***************************************************************************)
EXTENDS Integers, FiniteSets, FiniteSetsExt, FiniteSetTheorems, 
        WellFoundedInduction, TLAPS

(***************************************************************************)
(* A set of natural numbers has a least member. So a set without 0, in     *)
(* which no member is the first, has none: this is how the lemmas below do *)
(* induction.                                                              *)
(***************************************************************************)
LEMMA LeastMember == 
    ASSUME NEW T, T \subseteq Nat, T # {}
    PROVE  \E x \in T : \A y \in T : x <= y
<1> DEFINE R == {ss \in Nat \X Nat : ss[1] < ss[2]}
<1>1. IsWellFoundedOn(R, Nat)
  BY NatLessThanWellFounded DEF OpToRel
<1>2. \A x, y \in Nat : <<y, x>> \notin R => x <= y
  OBVIOUS
<1> HIDE DEF R
<1>3. \E x \in T : \A y \in T : <<y, x>> \notin R
  BY <1>1, WFMin
<1>4. PICK x \in T : \A y \in T : <<y, x>> \notin R
  BY <1>3
<1>5. \A y \in T : x <= y
  BY <1>2, <1>4
<1> QED BY <1>5

LEMMA NoFirstMember ==
    ASSUME NEW F, 0 \notin F, \A k \in Nat : k + 1 \in F => k \in F
    PROVE  \A k \in Nat : k \notin F
<1> SUFFICES ASSUME NEW k \in Nat, k \in F PROVE FALSE
  OBVIOUS
<1>1. F \cap Nat \subseteq Nat /\ F \cap Nat # {}
  OBVIOUS
<1> DEFINE G == F \cap Nat
<1>2. PICK m \in G : \A n \in G : m <= n
  <2> HIDE DEF G
  <2>1. G \subseteq Nat /\ G # {}
    BY <1>1 DEF G
  <2> QED BY <2>1, LeastMember
<1>3. m \in Nat /\ m # 0
  OBVIOUS
<1>4. m - 1 \in Nat /\ (m - 1) + 1 = m
  BY <1>3
<1>5. m - 1 \in F
  BY <1>4
<1> QED BY <1>2, <1>4, <1>5

(***************************************************************************)
(* The sum of a function over a finite set, as MapThenSumSet defines it:   *)
(* by a recursive function that takes one chosen member after the other. f *)
(* is that function if f[s] is the sum over s for every subset s of T.     *)
(***************************************************************************)
SumOf(b, T) == MapThenSumSet(LAMBDA o : b[o], T)
Chosen(s) == CHOOSE x \in s : TRUE
SumStep(b, s, f) == IF s = {} THEN 0 ELSE b[Chosen(s)] + f[s \ {Chosen(s)}]
Sums(b, T, f) == f = [s \in SUBSET T |-> SumStep(b, s, f)]
SumsUpTo(b, T, k, f) == 
    \A s \in SUBSET T : Cardinality(s) <= k => f[s] = SumStep(b, s, f)
SameOn(b, c, s) == \A x \in s : b[x] = c[x]
IntsOn(b, T) == \A x \in T : b[x] \in Int

LEMMA SumIs == 
    ASSUME NEW b, NEW T PROVE SumOf(b, T) = (CHOOSE f : Sums(b, T, f))[T]
BY DEF SumOf, MapThenSumSet, MapThenFoldSet, Sums, Chosen, SumStep

LEMMA ChosenIn == ASSUME NEW s, s # {} PROVE Chosen(s) \in s
BY DEF Chosen

LEMMA SmallerByOne == 
    ASSUME NEW s, IsFiniteSet(s), NEW x \in s
    PROVE  /\ IsFiniteSet(s \ {x}) /\ Cardinality(s) \in Nat
          /\ Cardinality(s \ {x}) = Cardinality(s) - 1
          /\ Cardinality(s \ {x}) \in Nat
BY FS_RemoveElement, FS_CardinalityType, FS_Subset

(***************************************************************************)
(* There is such a function, by induction on the size of the subsets it is *)
(* right for.                                                              *)
(***************************************************************************)
LEMMA SumsExistUpTo ==
    ASSUME NEW b, NEW T, IsFiniteSet(T), NEW k \in Nat
    PROVE  \E f : SumsUpTo(b, T, k, f)
<1> DEFINE F == {n \in Nat : ~ \E f : SumsUpTo(b, T, n, f)}
<1>1. 0 \notin F
  <2>1. SumsUpTo(b, T, 0, [s \in SUBSET T |-> 0])
    <3> SUFFICES ASSUME NEW s \in SUBSET T, Cardinality(s) <= 0 PROVE s = {}
      BY DEF SumsUpTo, SumStep
    <3>1. IsFiniteSet(s) /\ Cardinality(s) \in Nat
      BY FS_Subset, FS_CardinalityType
    <3> QED BY <3>1, FS_EmptySet
  <2> QED BY <2>1
<1>2. ASSUME NEW n \in Nat, n \notin F PROVE n + 1 \notin F
  <2>1. PICK f : SumsUpTo(b, T, n, f)
    BY <1>2
  <2> DEFINE g == [s \in SUBSET T |-> SumStep(b, s, f)]
  <2>2. SumsUpTo(b, T, n + 1, g)
    <3> SUFFICES ASSUME NEW s \in SUBSET T, Cardinality(s) <= n + 1
                 PROVE  g[s] = SumStep(b, s, g)
      BY DEF SumsUpTo
    <3>1. CASE s = {}
      BY <3>1 DEF SumStep
    <3>2. CASE s # {}
      <4> DEFINE r == s \ {Chosen(s)}
      <4>1. r \in SUBSET T /\ Cardinality(r) <= n
        BY <3>2, ChosenIn, SmallerByOne, FS_Subset
      <4>2. f[r] = SumStep(b, r, f)
        BY <2>1, <4>1 DEF SumsUpTo
      <4>3. g[r] = f[r]
        BY <4>1, <4>2
      <4> QED BY <3>2, <4>3 DEF SumStep
    <3> QED BY <3>1, <3>2
  <2> QED BY <2>2
<1> HIDE DEF F
<1>3. k \notin F
  BY <1>1, <1>2, NoFirstMember
<1> QED BY <1>3 DEF F

LEMMA SumsExist == ASSUME NEW b, NEW T, IsFiniteSet(T) PROVE \E f : Sums(b, T, f)
<1>1. Cardinality(T) \in Nat
  BY FS_CardinalityType
<1>2. PICK f : SumsUpTo(b, T, Cardinality(T), f)
  BY <1>1, SumsExistUpTo
<1> DEFINE g == [s \in SUBSET T |-> f[s]]
<1>3. ASSUME NEW s \in SUBSET T PROVE g[s] = SumStep(b, s, g)
  <2>1. Cardinality(s) <= Cardinality(T)
    BY FS_Subset
  <2>2. f[s] = SumStep(b, s, f)
    BY <1>2, <2>1 DEF SumsUpTo
  <2>3. s # {} => g[s \ {Chosen(s)}] = f[s \ {Chosen(s)}]
    OBVIOUS
  <2> QED BY <2>2, <2>3 DEF SumStep
<1>4. g = [s \in SUBSET T |-> SumStep(b, s, g)]
  BY <1>3
<1> QED BY <1>4 DEF Sums

(***************************************************************************)
(* Two such functions agree where what they sum up does.                   *)
(***************************************************************************)
LEMMA SumsAgree ==
    ASSUME NEW b, NEW c, NEW T, NEW U, IsFiniteSet(T), NEW f, NEW g, 
          Sums(b, T, f), Sums(c, U, g), 
          NEW s, s \subseteq T, s \subseteq U, SameOn(b, c, s)
    PROVE  f[s] = g[s]
<1> DEFINE F == {n \in Nat : \E r \in SUBSET s : Cardinality(r) = n /\ f[r] # g[r]}
<1>1. ASSUME NEW r \in SUBSET s PROVE f[r] = SumStep(b, r, f) /\ g[r] = SumStep(c, r, g)
  BY <1>1 DEF Sums
<1>2. 0 \notin F
  <2> SUFFICES ASSUME NEW r \in SUBSET s, Cardinality(r) = 0 PROVE f[r] = g[r]
    OBVIOUS
  <2>1. r = {}
    BY FS_Subset, FS_EmptySet
  <2> QED BY <1>1, <2>1 DEF SumStep
<1>3. ASSUME NEW n \in Nat, n + 1 \in F PROVE n \in F
  <2>1. PICK r \in SUBSET s : Cardinality(r) = n + 1 /\ f[r] # g[r]
    BY <1>3
  <2> DEFINE p == r \ {Chosen(r)}
  <2>2. IsFiniteSet(r) /\ r # {}
    BY <2>1, FS_Subset, FS_EmptySet
  <2>3. Chosen(r) \in r /\ Cardinality(p) = n /\ p \in SUBSET s
    BY <2>1, <2>2, ChosenIn, SmallerByOne
  <2>4. f[r] = b[Chosen(r)] + f[p] /\ g[r] = c[Chosen(r)] + g[p]
    BY <1>1, <2>1, <2>2 DEF SumStep
  <2>5. f[p] # g[p]
    BY <2>1, <2>3, <2>4 DEF SameOn
  <2> QED BY <2>3, <2>5
<1>4. IsFiniteSet(s) /\ Cardinality(s) \in Nat
  BY FS_Subset, FS_CardinalityType
<1> HIDE DEF F
<1>5. Cardinality(s) \notin F
  BY <1>2, <1>3, <1>4, NoFirstMember
<1> QED BY <1>4, <1>5 DEF F

(***************************************************************************)
(* So the sum is what any such function says, and a sum depends on nothing *)
(* but what is summed up.                                                  *)
(***************************************************************************)
LEMMA SumOfSums == 
    ASSUME NEW b, NEW T, IsFiniteSet(T), NEW s, s \in SUBSET T, NEW f, Sums(b, T, f)
    PROVE  SumOf(b, s) = f[s]
<1>1. IsFiniteSet(s)
  BY FS_Subset
<1> DEFINE g == CHOOSE h : Sums(b, s, h)
<1>2. Sums(b, s, g)
  BY <1>1, SumsExist
<1>3. SumOf(b, s) = g[s]
  BY SumIs
<1> HIDE DEF g
<1>4. s \subseteq s /\ s \subseteq T /\ SameOn(b, b, s)
  BY DEF SameOn
<1>5. g[s] = f[s]
  BY <1>1, <1>2, <1>4, SumsAgree
<1> QED BY <1>3, <1>5

LEMMA SumOfSame == 
    ASSUME NEW b, NEW c, NEW T, IsFiniteSet(T), SameOn(b, c, T)
    PROVE  SumOf(b, T) = SumOf(c, T)
<1>1. PICK f : Sums(b, T, f)
  BY SumsExist
<1>2. PICK g : Sums(c, T, g)
  BY SumsExist
<1>3. SumOf(b, T) = f[T] /\ SumOf(c, T) = g[T]
  BY <1>1, <1>2, SumOfSums
<1>4. T \subseteq T
  OBVIOUS
<1>5. f[T] = g[T]
  BY <1>1, <1>2, <1>4, SumsAgree
<1> QED BY <1>3, <1>5

(***************************************************************************)
(* Sums of integers are integers, and whichever member is taken first, the *)
(* sum is the same.                                                        *)
(***************************************************************************)
LEMMA SumIsInt ==
    ASSUME NEW b, NEW T, IsFiniteSet(T), NEW f, Sums(b, T, f), IntsOn(b, T)
    PROVE  \A r \in SUBSET T : f[r] \in Int
<1> DEFINE F == {n \in Nat : \E r \in SUBSET T : Cardinality(r) = n /\ f[r] \notin Int}
<1>1. ASSUME NEW r \in SUBSET T PROVE f[r] = SumStep(b, r, f) /\ IsFiniteSet(r)
  BY FS_Subset DEF Sums
<1>2. 0 \notin F
  <2> SUFFICES ASSUME NEW r \in SUBSET T, Cardinality(r) = 0 PROVE f[r] \in Int
    OBVIOUS
  <2>1. r = {}
    BY <1>1, FS_EmptySet
  <2>2. f[r] = 0
    BY <1>1, <2>1 DEF SumStep
  <2> QED BY <2>2
<1>3. ASSUME NEW n \in Nat, n + 1 \in F PROVE n \in F
  <2>1. PICK r \in SUBSET T : Cardinality(r) = n + 1 /\ f[r] \notin Int
    BY <1>3
  <2> DEFINE p == r \ {Chosen(r)}
  <2>2. r # {}
    BY <2>1, FS_EmptySet
  <2>3. Chosen(r) \in r
    BY <2>2, ChosenIn
  <2>4. Cardinality(p) = n /\ p \in SUBSET T
    BY <1>1, <2>1, <2>3, SmallerByOne
  <2>5. f[r] = b[Chosen(r)] + f[p] /\ b[Chosen(r)] \in Int
    BY <1>1, <2>2, <2>3 DEF SumStep, IntsOn
  <2>6. f[p] \notin Int
    BY <2>1, <2>5
  <2> QED BY <2>4, <2>6
<1> HIDE DEF F
<1>4. ASSUME NEW r \in SUBSET T PROVE f[r] \in Int
  <2>1. Cardinality(r) \in Nat
    BY <1>1, FS_CardinalityType
  <2>2. Cardinality(r) \notin F
    BY <1>2, <1>3, <2>1, NoFirstMember
  <2> QED BY <2>1, <2>2 DEF F
<1> QED BY <1>4

LEMMA SumTakesAny ==
    ASSUME NEW b, NEW T, IsFiniteSet(T), NEW f, Sums(b, T, f), IntsOn(b, T)
    PROVE  \A r \in SUBSET T : \A x \in r : f[r] = b[x] + f[r \ {x}]
<1> DEFINE Good(r) == \A x \in r : f[r] = b[x] + f[r \ {x}]
           F == {n \in Nat : \E r \in SUBSET T : Cardinality(r) = n /\ ~Good(r)}
<1>1. ASSUME NEW r \in SUBSET T 
      PROVE  f[r] = SumStep(b, r, f) /\ IsFiniteSet(r) /\ f[r] \in Int
  BY FS_Subset, SumIsInt DEF Sums
<1>2. 0 \notin F
  <2> SUFFICES ASSUME NEW r \in SUBSET T, Cardinality(r) = 0 PROVE r = {}
    OBVIOUS
  <2> QED BY <1>1, FS_EmptySet
<1>3. ASSUME NEW n \in Nat, n \notin F PROVE n + 1 \notin F
  <2> SUFFICES ASSUME NEW r \in SUBSET T, Cardinality(r) = n + 1, NEW x \in r
               PROVE  f[r] = b[x] + f[r \ {x}]
    OBVIOUS
  <2> DEFINE c == Chosen(r)
             p == r \ {c}
             q == r \ {x}
             m == p \ {x}
  <2>1. c \in r
    BY ChosenIn
  <2>2. f[r] = b[c] + f[p]
    BY <1>1 DEF SumStep
  <2>3. CASE x = c
    BY <2>2, <2>3
  <2>4. CASE x # c
    <3>1. Cardinality(q) = n /\ Cardinality(p) = n
      BY <1>1, <2>1, SmallerByOne
    <3>2. q \in SUBSET T /\ p \in SUBSET T /\ m \in SUBSET T
      OBVIOUS
    <3>3. Good(q) /\ Good(p)
      BY <1>3, <3>1, <3>2
    <3>4. c \in q /\ q \ {c} = m /\ x \in p
      BY <2>1, <2>4
    <3>5. f[q] = b[c] + f[m] /\ f[p] = b[x] + f[m]
      BY <3>3, <3>4
    <3>6. b[x] \in Int /\ b[c] \in Int /\ f[m] \in Int
      BY <1>1, <2>1, <3>2 DEF IntsOn
    <3>7. f[r] = b[x] + f[q]
      BY <2>2, <3>5, <3>6
    <3> QED BY <3>7
  <2> QED BY <2>3, <2>4
<1> HIDE DEF F
<1>4. ASSUME NEW r \in SUBSET T PROVE Good(r)
  <2>1. Cardinality(r) \in Nat
    BY <1>1, FS_CardinalityType
  <2>2. Cardinality(r) \notin F
    BY <1>2, <1>3, <2>1, NoFirstMember
  <2> QED BY <2>1, <2>2 DEF F
<1> QED BY <1>4

(***************************************************************************)
(* A sum as it is taken apart: nothing, integers, one member and the rest. *)
(***************************************************************************)
LEMMA SumOfNone == ASSUME NEW b PROVE SumOf(b, {}) = 0
<1>1. IsFiniteSet({})
  BY FS_EmptySet
<1>2. PICK f : Sums(b, {}, f)
  BY <1>1, SumsExist
<1>3. SumOf(b, {}) = f[{}]
  BY <1>1, <1>2, SumOfSums
<1>4. f[{}] = 0
  BY <1>2 DEF Sums, SumStep
<1> QED BY <1>3, <1>4

LEMMA SumOfInts == 
    ASSUME NEW b, NEW T, IsFiniteSet(T), IntsOn(b, T)
    PROVE  SumOf(b, T) \in Int
<1>1. PICK f : Sums(b, T, f)
  BY SumsExist
<1>2. T \in SUBSET T
  OBVIOUS
<1>3. SumOf(b, T) = f[T]
  BY <1>1, <1>2, SumOfSums
<1> QED BY <1>1, <1>2, <1>3, SumIsInt

LEMMA SumOfRemove == 
    ASSUME NEW b, NEW T, IsFiniteSet(T), IntsOn(b, T), NEW x \in T
    PROVE  SumOf(b, T) = b[x] + SumOf(b, T \ {x})
<1>1. PICK f : Sums(b, T, f)
  BY SumsExist
<1>2. T \in SUBSET T /\ T \ {x} \in SUBSET T
  OBVIOUS
<1>3. SumOf(b, T) = f[T] /\ SumOf(b, T \ {x}) = f[T \ {x}]
  BY <1>1, <1>2, SumOfSums
<1> QED BY <1>1, <1>2, <1>3, SumTakesAny

(***************************************************************************)
(* Two sums are the same if e pairs what they sum up, and what is left is  *)
(* zero.                                                                   *)
(***************************************************************************)
LEMMA SumRearranged ==
    ASSUME NEW b, NEW S, IsFiniteSet(S), IntsOn(b, S), 
           NEW g, NEW T, IsFiniteSet(T), NEW e \in [S -> T],
           \A x, y \in S : e[x] = e[y] => x = y,
           \A x \in S : g[e[x]] = b[x],
           \A z \in T : (\A x \in S : e[x] # z) => g[z] = 0
    PROVE  SumOf(g, T) = SumOf(b, S)
<1>1. PICK f : Sums(b, S, f)
  BY SumsExist
<1>2. PICK h : Sums(g, T, h)
  BY SumsExist
<1> DEFINE Origins(t) == {x \in S : e[x] \in t}
           F == {n \in Nat : \E t \in SUBSET T : Cardinality(t) = n /\ h[t] # f[Origins(t)]}
<1>3. ASSUME NEW t \in SUBSET T 
      PROVE  h[t] = SumStep(g, t, h) /\ IsFiniteSet(t)
  BY <1>2, FS_Subset DEF Sums
<1>4. ASSUME NEW t PROVE Origins(t) \in SUBSET S
  OBVIOUS
<1>5. \A s \in SUBSET S : f[s] \in Int
  BY <1>1, SumIsInt
<1>6. 0 \notin F
  <2> SUFFICES ASSUME NEW t \in SUBSET T, Cardinality(t) = 0 PROVE h[t] = f[Origins(t)]
    OBVIOUS
  <2>1. t = {} /\ Origins(t) = {}
    BY <1>3, FS_EmptySet
  <2>2. f[{}] = SumStep(b, {}, f)
    BY <1>1 DEF Sums
  <2> HIDE DEF Origins
  <2> QED BY <1>3, <2>1, <2>2 DEF SumStep
<1>7. ASSUME NEW n \in Nat, n + 1 \in F PROVE n \in F
  <2>1. PICK t \in SUBSET T : Cardinality(t) = n + 1 /\ h[t] # f[Origins(t)]
    BY <1>7 DEF F
  <2> DEFINE z == Chosen(t)
             r == t \ {z}
  <2>2. IsFiniteSet(t) /\ t # {}
    BY <1>3, <2>1, FS_EmptySet
  <2> HIDE DEF Origins, F
  <2>3. z \in t /\ Cardinality(r) = n /\ r \in SUBSET T
    <3>1. z \in t
      BY <2>2, ChosenIn
    <3> HIDE DEF z
    <3>2. Cardinality(r) = Cardinality(t) - 1
      BY <2>2, <3>1, SmallerByOne
    <3> QED BY <2>1, <3>1, <3>2
  <2>4. h[t] = g[z] + h[r]
    BY <1>3, <2>2 DEF SumStep
  <2>5. h[r] # f[Origins(r)]
    <3> HIDE DEF z, r
    <3>1. CASE \E x \in S : e[x] = z
      <4>1. PICK x \in S : e[x] = z
        BY <3>1
      <4>2. x \in Origins(t) /\ Origins(t) \ {x} = Origins(r)
        BY <2>3, <4>1 DEF Origins, r
      <4>3. f[Origins(t)] = b[x] + f[Origins(t) \ {x}]
        BY <1>1, <1>4, <4>2, SumTakesAny
      <4> QED BY <2>1, <2>4, <4>1, <4>2, <4>3
    <3>2. CASE \A x \in S : e[x] # z
      <4>1. g[z] = 0
        BY <2>3, <3>2
      <4>2. Origins(t) = Origins(r)
        BY <3>2 DEF Origins, r
      <4>3. f[Origins(r)] \in Int
        BY <1>4, <1>5
      <4> QED BY <2>1, <2>4, <4>1, <4>2, <4>3
    <3> QED BY <3>1, <3>2
  <2> QED BY <2>3, <2>5 DEF F
<1> HIDE DEF F
<1>8. IsFiniteSet(T) /\ Cardinality(T) \in Nat
  BY FS_CardinalityType
<1>9. h[T] = f[Origins(T)]
  <2>1. Cardinality(T) \notin F
    BY <1>6, <1>7, <1>8, NoFirstMember
  <2> QED BY <1>8, <2>1 DEF F
<1>10. Origins(T) = S
  OBVIOUS
<1>11. SumOf(g, T) = h[T] /\ SumOf(b, S) = f[S]
  <2>1. T \in SUBSET T /\ S \in SUBSET S
    OBVIOUS
  <2> QED BY <1>1, <1>2, <2>1, SumOfSums
<1> QED BY <1>9, <1>10, <1>11

(***************************************************************************)
(* If nothing that is summed up differs from its counterpart by more than  *)
(* d says, the sums do not by more than the sum of that.                   *)
(***************************************************************************)
LEMMA SumOfBounds ==
    ASSUME NEW b, NEW g, NEW d, NEW T, IsFiniteSet(T),
           IntsOn(b, T), IntsOn(g, T), IntsOn(d, T),
           \A x \in T : -d[x] <= b[x] - g[x] /\ b[x] - g[x] <= d[x]
    PROVE  /\ SumOf(b, T) \in Int /\ SumOf(g, T) \in Int /\ SumOf(d, T) \in Int
           /\ -SumOf(d, T) <= SumOf(b, T) - SumOf(g, T)
           /\ SumOf(b, T) - SumOf(g, T) <= SumOf(d, T)
<1>1. PICK f : Sums(b, T, f)
  BY SumsExist
<1>2. PICK h : Sums(g, T, h)
  BY SumsExist
<1>3. PICK k : Sums(d, T, k)
  BY SumsExist
<1> DEFINE Close(s) == -k[s] <= f[s] - h[s] /\ f[s] - h[s] <= k[s]
           F == {n \in Nat : \E s \in SUBSET T : Cardinality(s) = n /\ ~Close(s)}
<1>4. ASSUME NEW s \in SUBSET T 
      PROVE  /\ f[s] = SumStep(b, s, f) /\ h[s] = SumStep(g, s, h) 
             /\ k[s] = SumStep(d, s, k)
             /\ f[s] \in Int /\ h[s] \in Int /\ k[s] \in Int
             /\ IsFiniteSet(s)
  <2>1. f[s] \in Int /\ h[s] \in Int /\ k[s] \in Int
    BY <1>1, <1>2, <1>3, SumIsInt
  <2> QED BY <1>1, <1>2, <1>3, <2>1, FS_Subset DEF Sums
<1>5. 0 \notin F
  <2> SUFFICES ASSUME NEW s \in SUBSET T, Cardinality(s) = 0 PROVE Close(s)
    OBVIOUS
  <2>1. s = {}
    BY <1>4, FS_EmptySet
  <2>2. f[s] = 0 /\ h[s] = 0 /\ k[s] = 0
    BY <1>4, <2>1 DEF SumStep
  <2> QED BY <2>2
<1>6. ASSUME NEW n \in Nat, n + 1 \in F PROVE n \in F
  <2>1. PICK s \in SUBSET T : Cardinality(s) = n + 1 /\ ~Close(s)
    BY <1>6
  <2> DEFINE z == Chosen(s)
             r == s \ {z}
  <2>2. IsFiniteSet(s) /\ s # {}
    BY <1>4, <2>1, FS_EmptySet
  <2>3. z \in s
    BY <2>2, ChosenIn
  <2>4. f[s] = b[z] + f[r] /\ h[s] = g[z] + h[r] /\ k[s] = d[z] + k[r]
    BY <1>4, <2>2 DEF SumStep
  <2> HIDE DEF z
  <2>5. Cardinality(r) = n /\ r \in SUBSET T
    BY <2>1, <2>2, <2>3, SmallerByOne
  <2>6. /\ b[z] \in Int /\ g[z] \in Int /\ d[z] \in Int
        /\ -d[z] <= b[z] - g[z] /\ b[z] - g[z] <= d[z]
    BY <2>3 DEF IntsOn
  <2>7. f[r] \in Int /\ h[r] \in Int /\ k[r] \in Int
    BY <1>4, <2>5
  <2> HIDE DEF r
  <2>8. ~Close(r)
    BY <2>1, <2>4, <2>6, <2>7
  <2> QED BY <2>5, <2>8
<1> HIDE DEF F
<1>7. IsFiniteSet(T) /\ Cardinality(T) \in Nat /\ T \in SUBSET T
  BY FS_CardinalityType
<1>8. Close(T)
  <2>1. Cardinality(T) \notin F
    BY <1>5, <1>6, <1>7, NoFirstMember
  <2> QED BY <1>7, <2>1 DEF F
<1>9. SumOf(b, T) = f[T] /\ SumOf(g, T) = h[T] /\ SumOf(d, T) = k[T]
  BY <1>1, <1>2, <1>3, <1>7, SumOfSums
<1> QED BY <1>4, <1>7, <1>8, <1>9
=============================================================================
