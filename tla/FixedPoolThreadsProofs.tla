----------------------- MODULE FixedPoolThreadsProofs -----------------------
(***************************************************************************)
(* FixedPool between threads: as long as one thread at most allocates or   *)
(* resizes, calls that return blocks may interleave with it in any way,    *)
(* whoever the spin lock lets in.  The walk reads headers only, no data of *)
(* a client is written over, and between calls the blocks tile the pool.   *)
(***************************************************************************)
EXTENDS FixedPoolThreads, SumTheorems, TLAPS

(***************************************************************************)
(* Arithmetic of words: multiples of the word are closed under the sums    *)
(* and differences the pool makes, and two that differ are a word apart.   *)
(***************************************************************************)
LEMMA Multiple == 
    ASSUME NEW a \in Nat
    PROVE  /\ a % W \in 0 .. W - 1 /\ a % W <= a
           /\ \E k \in Nat : a - (a % W) = k * W
<1>1. a = W * (a \div W) + (a % W) /\ a \div W \in Nat /\ a % W \in 0 .. W - 1
  BY ThreadsAssumption, SMT
<1>2. a - (a % W) = (a \div W) * W
  BY <1>1, ThreadsAssumption
<1>3. (a \div W) * W >= 0
  BY <1>1, ThreadsAssumption
<1>4. a % W <= a
  BY <1>1, <1>2, <1>3, ThreadsAssumption
<1> QED
  BY <1>1, <1>2, <1>4

LEMMA ProductIsMultiple == ASSUME NEW k \in Nat PROVE (k * W) % W = 0
BY ThreadsAssumption, SMT

LEMMA Floor == 
    ASSUME NEW a \in Nat
    PROVE  a - (a % W) \in Nat /\ (a - (a % W)) % W = 0
BY Multiple, ProductIsMultiple, ThreadsAssumption

LEMMA MultipleOf ==
    ASSUME NEW a \in Nat, a % W = 0
    PROVE  \E k \in Nat : a = k * W
BY Multiple

LEMMA SumOfMultiples ==
    ASSUME NEW a \in Nat, NEW b \in Nat, a % W = 0, b % W = 0
    PROVE  (a + b) % W = 0
<1>1. PICK k \in Nat : a = k * W  BY MultipleOf
<1>2. PICK j \in Nat : b = j * W  BY MultipleOf
<1>3. a + b = (k + j) * W         BY <1>1, <1>2, ThreadsAssumption
<1> QED                           BY <1>3, ProductIsMultiple

LEMMA DifferenceOfMultiples ==
    ASSUME NEW a \in Nat, NEW b \in Nat, a % W = 0, b % W = 0, b < a
    PROVE  (a - b) % W = 0 /\ b + W <= a
<1>1. PICK k \in Nat : a = k * W  BY MultipleOf
<1>2. PICK j \in Nat : b = j * W  BY MultipleOf
<1>3. a - b = (k - j) * W         BY <1>1, <1>2, ThreadsAssumption
<1>4. j < k                       BY <1>1, <1>2, ThreadsAssumption
<1>5. k - j \in Nat               BY <1>4
<1>6. (k - j) * W >= W            BY <1>4, <1>5, ThreadsAssumption
<1>7. (a - b) % W = 0             BY <1>3, <1>5, ProductIsMultiple
<1> QED                           BY <1>3, <1>6, <1>7, ThreadsAssumption

LEMMA WordIsMultiple == W % W = 0 /\ 0 % W = 0
BY ThreadsAssumption, SMT

LEMMA NoWrap == ASSUME NEW a \in Nat, a < SizeMod PROVE a % SizeMod = a
BY ThreadsAssumption, SMT

\* The words of the pool are the multiples of the word below its end.
LEMMA WordsAre == \A v : v \in Words <=> v \in 0 .. PoolSize - 1 /\ v % W = 0
<1>1. PICK q \in Nat : PoolSize = q * W
  BY MultipleOf, ThreadsAssumption
<1>2. PoolSize \div W = q
  BY <1>1, ThreadsAssumption, SMT
<1>3. ASSUME NEW v \in Words PROVE v \in 0 .. PoolSize - 1 /\ v % W = 0
  <2>1. PICK k \in 0 .. q - 1 : v = k * W
    BY <1>2, <1>3 DEF Words
  <2>2. k \in Nat /\ q - k >= 1 /\ q - k \in Nat
    BY <1>1, <2>1
  <2>3. v \in Nat /\ (q - k) * W = PoolSize - v /\ (q - k) * W >= W
    BY <1>1, <2>1, <2>2, ThreadsAssumption
  <2> QED BY <2>1, <2>2, <2>3, ProductIsMultiple, ThreadsAssumption
<1>4. ASSUME NEW v \in 0 .. PoolSize - 1, v % W = 0 PROVE v \in Words
  <2>1. PICK k \in Nat : v = k * W
    BY <1>4, MultipleOf
  <2>2. k < q
    <3> SUFFICES ASSUME q <= k PROVE FALSE
      BY <1>1
    <3>1. k - q \in Nat /\ (k - q) * W = v - PoolSize
      BY <1>1, <2>1, ThreadsAssumption
    <3>2. (k - q) * W >= 0
      BY <3>1, ThreadsAssumption
    <3> QED BY <3>1, <3>2, ThreadsAssumption
  <2> QED BY <1>2, <2>1, <2>2 DEF Words
<1> QED BY <1>3, <1>4

(***************************************************************************)
(* The two roundings of a request, and how they compare: a block that is   *)
(* resized has room for what the client stores, and one that had to grow   *)
(* is no longer than the one it is exchanged for.                          *)
(***************************************************************************)
RoundUp(m) == m - (m % W) + W

LEMMA RoundUpFits ==
    ASSUME NEW m \in Nat
    PROVE  RoundUp(m) \in Nat /\ RoundUp(m) % W = 0 
           /\ m < RoundUp(m) /\ RoundUp(m) <= m + W
<1>1. m % W \in 0 .. W - 1 /\ m % W <= m
  BY Multiple
<1>2. (m - (m % W) + W) % W = 0
  BY Floor, SumOfMultiples, WordIsMultiple, ThreadsAssumption
<1> QED BY <1>1, <1>2, ThreadsAssumption DEF RoundUp

LEMMA RealAllocationIs ==
    ASSUME NEW n \in Nat, n # 0, NEW m, m = W + Larger(W, n), m + W < SizeMod
    PROVE  RealAllocation(n) = IF m % W = 0 THEN m ELSE RoundUp(m)
<1>1. m \in Nat /\ m % SizeMod = m
  BY NoWrap, ThreadsAssumption DEF Larger
<1>2. RoundUp(m) \in Nat /\ RoundUp(m) < SizeMod
  BY <1>1, RoundUpFits, ThreadsAssumption
<1>3. RoundUp(m) % SizeMod = RoundUp(m)
  BY <1>2, NoWrap
<1> QED BY <1>1, <1>3 DEF RealAllocation, RoundUp

LEMMA RealAllocationFits ==
    ASSUME NEW n \in Nat, n # 0, Larger(W, n) + 2 * W < SizeMod
    PROVE  /\ RealAllocation(n) \in Nat
           /\ RealAllocation(n) % W = 0
           /\ RealAllocation(n) >= 2 * W
           /\ RealAllocation(n) >= n + W
<1> DEFINE m == W + Larger(W, n)
<1>1. m \in Nat /\ m >= 2 * W /\ m >= n + W /\ m + W < SizeMod
  BY ThreadsAssumption DEF Larger
<1>2. RealAllocation(n) = IF m % W = 0 THEN m ELSE RoundUp(m)
  BY <1>1, RealAllocationIs
<1> HIDE DEF m
<1>3. RoundUp(m) \in Nat /\ RoundUp(m) % W = 0 /\ m < RoundUp(m)
  BY <1>1, RoundUpFits
<1>4. W \in Nat /\ n + W \in Nat /\ 2 * W \in Nat
  BY ThreadsAssumption
<1>5. CASE m % W = 0
  BY <1>1, <1>2, <1>5
<1>6. CASE m % W # 0
  BY <1>1, <1>2, <1>3, <1>4, <1>6
<1> QED BY <1>5, <1>6

LEMMA ResizedLengthIs ==
    ASSUME NEW n \in Nat, n + 3 * W < SizeMod
    PROVE  ResizedLength(n) = RoundUp(n + W)
<1> DEFINE m == n + W
<1>1. m \in Nat /\ m + W < SizeMod
  BY ThreadsAssumption
<1>2. m % SizeMod = m
  BY <1>1, NoWrap, ThreadsAssumption
<1>3. RoundUp(m) \in Nat /\ RoundUp(m) < SizeMod
  BY <1>1, RoundUpFits, ThreadsAssumption
<1>4. m + (W - (m % W)) = RoundUp(m)
  <2>1. m % W \in 0 .. W - 1
    BY <1>1, Multiple
  <2> HIDE DEF m
  <2> QED BY <1>1, <2>1, ThreadsAssumption DEF RoundUp
<1>5. RoundUp(m) % SizeMod = RoundUp(m)
  BY <1>3, NoWrap
<1> QED BY <1>2, <1>4, <1>5 DEF ResizedLength

LEMMA ResizedLengthFits ==
    ASSUME NEW n \in Nat, n + 3 * W < SizeMod
    PROVE  /\ ResizedLength(n) \in Nat
           /\ ResizedLength(n) % W = 0
           /\ ResizedLength(n) >= 2 * W
<1>1. n + W \in Nat
  BY ThreadsAssumption
<1>2. ResizedLength(n) \in Nat /\ ResizedLength(n) % W = 0 /\ W < ResizedLength(n)
  BY <1>1, ResizedLengthIs, RoundUpFits, ThreadsAssumption
<1>3. W + W <= ResizedLength(n)
  BY <1>2, DifferenceOfMultiples, WordIsMultiple, ThreadsAssumption
<1> QED BY <1>2, <1>3, ThreadsAssumption

\* A block that was too short for n bytes is not longer than a new one.
LEMMA GrowthFits ==
    ASSUME NEW n \in Nat, n # 0, n + 3 * W < SizeMod, 
           NEW len \in Nat, len % W = 0, len < ResizedLength(n)
    PROVE  len <= RealAllocation(n)
<1> DEFINE m == W + Larger(W, n)
<1>1. /\ m \in Nat /\ n + W \in Nat /\ n + W <= m /\ Larger(W, n) + 2 * W < SizeMod
      /\ m + W < SizeMod
  BY ThreadsAssumption DEF Larger
<1>2. RealAllocation(n) = IF m % W = 0 THEN m ELSE RoundUp(m)
  BY <1>1, RealAllocationIs
<1>3. RealAllocation(n) \in Nat /\ RealAllocation(n) % W = 0
  BY <1>1, RealAllocationFits
<1> HIDE DEF m
<1>4. m <= RealAllocation(n)
  BY <1>1, <1>2, RoundUpFits
<1>5. ResizedLength(n) \in Nat /\ ResizedLength(n) <= n + W + W
  BY <1>1, ResizedLengthIs, RoundUpFits
<1>6. len < RealAllocation(n) + W
  BY <1>1, <1>3, <1>4, <1>5, ThreadsAssumption
<1>7. RealAllocation(n) < len => RealAllocation(n) + W <= len
  BY <1>3, DifferenceOfMultiples
<1> QED BY <1>3, <1>6, <1>7, ThreadsAssumption

\* What the client stores in a block of n bytes fits in a block resized to n.
LEMMA FillFits ==
    ASSUME NEW n \in Nat, n + 3 * W < SizeMod
    PROVE  /\ RealAllocation(Larger(1, n)) \in Nat
           /\ RealAllocation(Larger(1, n)) <= ResizedLength(n)
<1> DEFINE k == Larger(1, n)
           m == W + Larger(W, k)
<1>1. /\ k \in Nat /\ k # 0 /\ m \in Nat 
      /\ Larger(W, k) + 2 * W < SizeMod /\ m + W < SizeMod
  BY ThreadsAssumption DEF Larger
<1>2. RealAllocation(k) = IF m % W = 0 THEN m ELSE RoundUp(m)
  <2> HIDE DEF k
  <2> QED BY <1>1, RealAllocationIs
<1>3. RealAllocation(k) \in Nat
  BY <1>1, RealAllocationFits
<1>4. n + W \in Nat /\ ResizedLength(n) = RoundUp(n + W) /\ n + W < RoundUp(n + W)
  BY ResizedLengthIs, RoundUpFits, ThreadsAssumption
<1>5. CASE k <= W
  <2>1. m = W + W
    BY <1>1, <1>5, ThreadsAssumption DEF Larger
  <2>2. m % W = 0
    BY <2>1, SumOfMultiples, WordIsMultiple, ThreadsAssumption
  <2>3. 2 * W <= ResizedLength(n)
    BY ResizedLengthFits
  <2> HIDE DEF k, m
  <2>4. RealAllocation(k) = 2 * W
    BY <1>2, <2>1, <2>2, ThreadsAssumption
  <2> QED BY <1>3, <2>3, <2>4 DEF k
<1>6. CASE W < k
  <2>1. m = n + W
    BY <1>1, <1>6, ThreadsAssumption DEF Larger
  <2> HIDE DEF m, k
  <2>2. CASE m % W = 0
    BY <1>2, <1>3, <1>4, <2>1, <2>2, RoundUpFits DEF k
  <2>3. CASE m % W # 0
    BY <1>2, <1>3, <1>4, <2>1, <2>3, RoundUpFits DEF k
  <2> QED BY <2>2, <2>3
<1> QED BY <1>1, <1>5, <1>6, ThreadsAssumption
-----------------------------------------------------------------------------
(***************************************************************************)
(* The blocks: b gives each start its length, and own says whose it is.    *)
(* Between a write to a header and the write that completes the change     *)
(* the words of the pool do not give b; whose the block is then does.      *)
(***************************************************************************)
Shape(b) ==
    /\ b \in [DOMAIN b -> Nat]
    /\ DOMAIN b \subseteq 0 .. PoolSize - 1
    /\ 0 \in DOMAIN b
    /\ \A o \in DOMAIN b : /\ o + b[o] \in DOMAIN b \cup {PoolSize}
                           /\ \A p \in DOMAIN b : ~(o < p /\ p < o + b[o])
                           /\ 2 * W <= b[o]
                           /\ o % W = 0 
                           /\ b[o] % W = 0

\* The block at o, cut at size: unchanged if that is all of it.
SplitAt(b, o, size) ==
    [p \in DOMAIN b \cup ({o + size} \ {PoolSize}) |->
        IF p = o THEN size
        ELSE IF p \in DOMAIN b THEN b[p]
        ELSE b[o] - size]

\* A length a block of length len may be cut at.
Proper(len, size) == /\ size \in Nat /\ size % W = 0 /\ 2 * W <= size
                     /\ size = len \/ size + 2 * W <= len

LEMMA BlockBounds ==
    ASSUME NEW b, Shape(b), NEW o \in DOMAIN b
    PROVE  /\ o \in Nat /\ b[o] \in Nat /\ o % W = 0 /\ b[o] % W = 0
           /\ 2 * W <= b[o] /\ o + b[o] <= PoolSize
           /\ o + b[o] \in DOMAIN b \cup {PoolSize}
           /\ o \in Words /\ o + W \in Words /\ o + W < o + b[o]
<1>1. /\ o \in 0 .. PoolSize - 1 /\ b[o] \in Nat /\ o % W = 0 /\ b[o] % W = 0
      /\ 2 * W <= b[o] /\ o + b[o] \in DOMAIN b \cup {PoolSize}
  BY DEF Shape
<1>2. o + b[o] \in 0 .. PoolSize
  BY <1>1, ThreadsAssumption DEF Shape
<1>3. o + W < o + b[o] /\ o + W \in Nat /\ (o + W) % W = 0
  BY <1>1, SumOfMultiples, WordIsMultiple, ThreadsAssumption
<1> QED BY <1>1, <1>2, <1>3, WordsAre, ThreadsAssumption

\* Two blocks share no word.
LEMMA BlocksApart ==
    ASSUME NEW b, Shape(b), NEW o \in DOMAIN b, NEW p \in DOMAIN b, o # p
    PROVE  o + b[o] <= p \/ p + b[p] <= o
<1>1. o \in Nat /\ p \in Nat /\ b[o] \in Nat /\ b[p] \in Nat
  BY BlockBounds
<1>2. ~(o < p /\ p < o + b[o]) /\ ~(p < o /\ o < p + b[p])
  BY DEF Shape
<1> QED BY <1>1, <1>2

LEMMA SplitNothing ==
    ASSUME NEW b, Shape(b), NEW o \in DOMAIN b
    PROVE  SplitAt(b, o, b[o]) = b
<1>1. DOMAIN b \cup ({o + b[o]} \ {PoolSize}) = DOMAIN b
  BY DEF Shape
<1>2. b = [p \in DOMAIN b |-> b[p]]
  BY DEF Shape
<1> QED BY <1>1, <1>2 DEF SplitAt

\* What a cut changes.
IsSplit(s, b, o, size) ==
    /\ o + size \notin DOMAIN b /\ o + size # o
    /\ DOMAIN s = DOMAIN b \cup {o + size}
    /\ s[o] = size
    /\ s[o + size] = b[o] - size
    /\ \A p \in DOMAIN b \ {o} : s[p] = b[p]

LEMMA SplitFields ==
    ASSUME NEW b, Shape(b), NEW o \in DOMAIN b, 
           NEW size, size # b[o], Proper(b[o], size)
    PROVE  IsSplit(SplitAt(b, o, size), b, o, size)
<1>1. /\ o \in Nat /\ b[o] \in Nat /\ o + b[o] <= PoolSize
      /\ size \in Nat /\ size + 2 * W <= b[o] /\ 2 * W <= size
  BY BlockBounds DEF Proper
<1>2. o < o + size /\ o + size < o + b[o] /\ o + size # PoolSize
  BY <1>1, ThreadsAssumption
<1>3. o + size \notin DOMAIN b
  BY <1>2 DEF Shape
<1> QED BY <1>2, <1>3 DEF SplitAt, IsSplit

\* Cutting a block leaves two proper blocks.
LEMMA SplitKeepsShape ==
    ASSUME NEW b, Shape(b), NEW o \in DOMAIN b, NEW size \in Nat, 
           Proper(b[o], size)
    PROVE  Shape(SplitAt(b, o, size))
<1>1. CASE size = b[o]
  BY <1>1, SplitNothing
<1>2. CASE size # b[o]
  <2> DEFINE s == SplitAt(b, o, size)
             r == o + size
  <2>1. /\ r \notin DOMAIN b /\ r # o /\ DOMAIN s = DOMAIN b \cup {r}
        /\ s[o] = size /\ s[r] = b[o] - size
        /\ \A p \in DOMAIN b \ {o} : s[p] = b[p]
    <3>1. IsSplit(s, b, o, size)
      BY <1>2, SplitFields
    <3> QED BY <3>1 DEF IsSplit
  <2>2. /\ o \in Nat /\ b[o] \in Nat /\ o % W = 0 /\ b[o] % W = 0
        /\ o + b[o] <= PoolSize /\ o + b[o] \in DOMAIN b \cup {PoolSize}
        /\ size % W = 0 /\ 2 * W <= size /\ size + 2 * W <= b[o]
        /\ W \in Nat \ {0} /\ PoolSize \in Nat
    BY <1>2, BlockBounds, ThreadsAssumption DEF Proper
  <2>3. s = [p \in DOMAIN s |-> s[p]]
    BY DEF SplitAt
  <2>4. (b[o] - size) % W = 0 /\ r % W = 0
    <3>1. size < b[o]
      BY <2>2
    <3> QED BY <2>2, <3>1, DifferenceOfMultiples, SumOfMultiples
  <2>5. /\ b[o] - size \in Nat /\ 2 * W <= b[o] - size /\ r \in 0 .. PoolSize - 1
        /\ o < r /\ r < o + b[o] /\ r + (b[o] - size) = o + b[o]
    BY <2>2
  <2> HIDE DEF s, r
  <2>6. \A p \in DOMAIN b \ {o} : 
          /\ p \in 0 .. PoolSize - 1 /\ b[p] \in Nat /\ p % W = 0 /\ b[p] % W = 0
          /\ 2 * W <= b[p] /\ p + b[p] \in DOMAIN b \cup {PoolSize}
          /\ o + b[o] <= p \/ p + b[p] <= o
    BY BlocksApart, BlockBounds DEF Shape
  <2>7. s \in [DOMAIN s -> Nat] /\ DOMAIN s \subseteq 0 .. PoolSize - 1 /\ 0 \in DOMAIN s
    <3>1. \A p \in DOMAIN s : s[p] \in Nat
      BY <2>1, <2>5, <2>6
    <3>2. DOMAIN b \subseteq 0 .. PoolSize - 1 /\ 0 \in DOMAIN b
      BY DEF Shape
    <3> QED BY <2>1, <2>3, <2>5, <3>1, <3>2
  <2>8. ASSUME NEW p \in DOMAIN s
        PROVE  /\ p + s[p] \in DOMAIN s \cup {PoolSize}
               /\ 2 * W <= s[p] /\ p % W = 0 /\ s[p] % W = 0
    <3>1. CASE p = o
      BY <2>1, <2>2, <3>1 DEF r
    <3>2. CASE p = r
      BY <2>1, <2>2, <2>4, <2>5, <3>2
    <3>3. CASE p \in DOMAIN b \ {o}
      BY <2>1, <2>6, <3>3
    <3> QED BY <2>1, <3>1, <3>2, <3>3
  <2>9. ASSUME NEW p \in DOMAIN s, NEW q \in DOMAIN s, p < q, q < p + s[p]
        PROVE  FALSE
    <3>1. CASE p = o
      <4>1. q \in DOMAIN b \ {o}
        BY <2>1, <2>2, <2>9, <3>1 DEF r
      <4> QED BY <2>1, <2>2, <2>6, <2>9, <3>1, <4>1
    <3>2. CASE p = r
      <4>1. q \in DOMAIN b \ {o}
        BY <2>1, <2>2, <2>5, <2>9, <3>2
      <4> QED BY <2>1, <2>2, <2>5, <2>6, <2>9, <3>2, <4>1
    <3>3. CASE p \in DOMAIN b \ {o}
      <4>1. CASE q = r
        BY <2>1, <2>2, <2>5, <2>6, <2>9, <3>3, <4>1
      <4>2. CASE q \in DOMAIN b
        BY <2>1, <2>9, <3>3, <4>2 DEF Shape
      <4> QED BY <2>1, <4>1, <4>2
    <3> QED BY <2>1, <3>1, <3>2, <3>3
  <2> QED BY <2>7, <2>8, <2>9 DEF Shape, s
<1> QED BY <1>1, <1>2
\* The header of what is cut off is inside of the pool and behind the cut.
LEMMA RestWords ==
    ASSUME NEW b, Shape(b), NEW o \in DOMAIN b, NEW size, 
           Proper(b[o], size), size # b[o]
    PROVE  /\ o + size \in Words /\ o + size + W \in Words
           /\ o + size > o /\ o + size + W > o
           /\ o + size + W < o + b[o]
<1>1. /\ size \in Nat /\ size % W = 0 /\ 2 * W <= size /\ size + 2 * W <= b[o]
  BY DEF Proper
<1>2. o \in Nat /\ b[o] \in Nat /\ o % W = 0 /\ o + b[o] <= PoolSize
  BY BlockBounds
<1>3. W \in Nat /\ W > 0 /\ PoolSize \in Nat
  BY ThreadsAssumption
<1>4. o + size \in Nat /\ (o + size) % W = 0
  BY <1>1, <1>2, SumOfMultiples
<1>5. o + size + W \in Nat /\ (o + size + W) % W = 0
  <2> DEFINE r == o + size
  <2>1. r \in Nat /\ r % W = 0 /\ W \in Nat /\ W % W = 0
    BY <1>3, <1>4, WordIsMultiple
  <2> HIDE DEF r
  <2>2. (r + W) % W = 0
    BY <2>1, SumOfMultiples
  <2>3. r + W \in Nat
    BY <2>1
  <2> QED BY <2>2, <2>3 DEF r
<1>6. /\ o + size < PoolSize /\ o + size + W < PoolSize
      /\ o + size > o /\ o + size + W > o /\ o + size + W < o + b[o]
  BY <1>1, <1>2, <1>3
<1> QED BY <1>3, <1>4, <1>5, <1>6, WordsAre
-----------------------------------------------------------------------------
(***************************************************************************)
(* Whose a block is: nobody's, a client's, or that of the call of a thread *)
(* that was given it or took it.                                           *)
(***************************************************************************)
Blocks == [start : Nat, end : Nat, fill : Nat]

FreeOne   == <<"free", NoBlock>>
LiveBy(x) == <<"live", x>>
OldOf(t)  == <<"old", t>>
NewOf(t)  == <<"new", t>>

Owners == {FreeOne} \cup {LiveBy(x) : x \in Blocks}
          \cup {OldOf(t) : t \in Threads} \cup {NewOf(t) : t \in Threads}

LEMMA OwnersDiffer ==
    /\ \A x, y : /\ LiveBy(x) = LiveBy(y) => x = y
                 /\ OldOf(x) = OldOf(y) => x = y
                 /\ NewOf(x) = NewOf(y) => x = y
                 /\ FreeOne # LiveBy(x) /\ FreeOne # OldOf(x) /\ FreeOne # NewOf(x)
                 /\ LiveBy(x) # OldOf(y) /\ LiveBy(x) # NewOf(y) 
                 /\ OldOf(x) # NewOf(y)
BY DEF FreeOne, LiveBy, OldOf, NewOf

LEMMA OwnersHave ==
    /\ FreeOne \in Owners
    /\ \A x \in Blocks : LiveBy(x) \in Owners
    /\ \A t \in Threads : OldOf(t) \in Owners /\ NewOf(t) \in Owners
    /\ \A w \in Owners : \/ w = FreeOne
                         \/ \E x \in Blocks : w = LiveBy(x)
                         \/ \E t \in Threads : w = OldOf(t) \/ w = NewOf(t)
BY DEF Owners

Memories == [Words -> 0 .. PoolSize \cup {Data, Pattern, Unset}]

Steps == {"idle", "walk", "mark", "credit", "leave", "copy", "pattern", "space",
          "debit", "free", "quit", "cut"}

Calls == [pc : Steps, i : Nat, n : Nat, size : Nat, tmp : Nat, old : Blocks,
          got : BOOLEAN, look : Looks]

\* The call still works on the block it was given; it has taken one.
HasOld(c) == c.old # NoBlock /\ c.pc # "idle" /\ c.pc # "quit"
HasNew(c) == c.pc = "mark" \/ c.pc = "credit" \/ c.got

\* The client's data is in x; x is the block at o.
Filled(m, x) == \A v \in Words : x.start + W <= v /\ v < x.fill => m[v] = Data
Whole(x, o, len) == /\ x.start = o /\ x.end = o + len 
                    /\ o <= x.fill /\ x.fill <= o + len

\* reallocate() may still fail, and give the client its block back.
Returnable(c) == c.pc \in {"walk", "mark", "credit", "leave"}

(***************************************************************************)
(* What holds of the words of a block at o, of length len.                 *)
(***************************************************************************)
FreeOK(o, len, m) == m[o] = 0 /\ m[o + W] = len

LiveOK(o, len, m, x, l) == 
    x \in l /\ Whole(x, o, len) /\ m[o] = len /\ Filled(m, x)

OldOK(o, len, m, c) ==
    /\ HasOld(c) /\ c.old.start = o
    /\ c.pc = "cut" => /\ c.n \in Requests /\ c.tmp = len
                       /\ m[o] = ResizedLength(c.n) /\ ResizedLength(c.n) + W < len
    /\ c.pc # "cut" => m[o] = len
    /\ c.pc \in {"debit", "free"} => m[o + W] = len
    /\ Returnable(c) => Whole(c.old, o, len) /\ Filled(m, c.old)
    /\ Returnable(c) \/ c.pc = "copy" => c.n \in Requests /\ len < ResizedLength(c.n)

NewOK(o, len, m, c) ==
    /\ HasNew(c) /\ c.i = o
    /\ c.n \in Requests /\ c.n # 0 /\ RealAllocation(c.n) <= c.size
    /\ c.pc = "mark" => 
         /\ m[o] = 0 /\ m[o + W] = len /\ Proper(len, c.size)
         /\ c.size # len => m[o + c.size] = 0 /\ m[o + c.size + W] = len - c.size
    /\ c.pc # "mark" => m[o] = len /\ c.size = len

BlockOK(o, len, who, m, cs, l) ==
    /\ who = FreeOne => FreeOK(o, len, m)
    /\ \A x \in Blocks : who = LiveBy(x) => LiveOK(o, len, m, x, l)
    /\ \A t \in Threads : who = OldOf(t) => OldOK(o, len, m, cs[t])
    /\ \A t \in Threads : who = NewOf(t) => NewOK(o, len, m, cs[t])

(***************************************************************************)
(* What holds of a call c of thread t: of its fields, of the blocks it has *)
(* and, if nobody else uses the pool, of those its walk has passed.        *)
(***************************************************************************)
FieldsOK(c, duty) ==
    /\ c.pc # "idle" => duty # {}
    /\ c.pc \in {"walk", "mark", "cut"} => Allocates(duty)
    /\ c.pc \in {"idle", "walk", "mark", "credit", "cut"} => ~c.got
    /\ c.pc = "walk" => c.n \in Requests /\ c.n # 0 /\ c.size = RealAllocation(c.n)
    /\ c.pc \in {"copy", "pattern", "space", "debit", "free", "cut"} => c.old # NoBlock
    /\ c.pc = "copy" => c.got

Passed(i, size, b, own) == 
    \A p \in DOMAIN b : p < i /\ own[p] = FreeOne => b[p] < size

Single(t, d) == \A u \in Threads \ {t} : d[u] = {}

\* What a walk knows of the block it is at from having looked before.
Standing(t, c, b, own, d) ==
    /\ c.look # "size" => c.i \in DOMAIN b
    /\ c.look \in {"room", "fits", "gap", "skip"} => own[c.i] = FreeOne
    /\ c.look = "fits" => c.size <= b[c.i]
    /\ c.look \in {"gap", "skip"} => b[c.i] < c.size
    /\ c.look \in {"taken", "pass"} /\ Single(t, d) => own[c.i] # FreeOne

CallOK(t, c, b, own, d) ==
    /\ FieldsOK(c, d[t])
    /\ c.pc = "walk" => c.i \in DOMAIN b \cup {PoolSize} /\ Standing(t, c, b, own, d)
    /\ HasOld(c) => c.old.start \in DOMAIN b /\ own[c.old.start] = OldOf(t)
    /\ HasNew(c) => c.i \in DOMAIN b /\ own[c.i] = NewOf(t)
    /\ c.pc \in {"walk", "mark"} /\ Single(t, d) => Passed(c.i, RealAllocation(c.n), b, own)

(***************************************************************************)
(* The state is the one that b and own describe.                           *)
(***************************************************************************)
Good(d, b, own, m, cs, l) ==
    /\ Shape(b)
    /\ own \in [DOMAIN b -> Owners]
    /\ d \in Duties
    /\ m \in Memories
    /\ cs \in [Threads -> Calls]
    /\ l \subseteq Blocks
    /\ \A o \in DOMAIN b : BlockOK(o, b[o], own[o], m, cs, l)
    /\ \A x \in l : x.start \in DOMAIN b /\ own[x.start] = LiveBy(x)
    /\ \A t \in Threads : CallOK(t, cs[t], b, own, d)
-----------------------------------------------------------------------------
(***************************************************************************)
(* A block whose words do not change stays what it is.                     *)
(***************************************************************************)
SameIn(o, len, m, m2) == \A v \in Words : o <= v /\ v < o + len => m2[v] = m[v]

LEMMA HeadersSame ==
    ASSUME NEW b, Shape(b), NEW o \in DOMAIN b, NEW m, NEW m2,
           SameIn(o, b[o], m, m2)
    PROVE  m2[o] = m[o] /\ m2[o + W] = m[o + W]
BY BlockBounds, ThreadsAssumption DEF SameIn

LEMMA FilledSame ==
    ASSUME NEW b, Shape(b), NEW o \in DOMAIN b, NEW m, NEW m2,
           SameIn(o, b[o], m, m2), NEW x \in Blocks, Whole(x, o, b[o]), Filled(m, x)
    PROVE  Filled(m2, x)
<1>1. o \in Nat /\ b[o] \in Nat
  BY BlockBounds
<1>2. ASSUME NEW v \in Words, x.start + W <= v, v < x.fill
      PROVE  m2[v] = m[v]
  <2>1. v \in Nat /\ x.start = o /\ x.fill <= o + b[o] /\ x.fill \in Nat
    BY WordsAre DEF Whole, Blocks
  <2>2. o <= v /\ v < o + b[o]
    BY <1>1, <1>2, <2>1, ThreadsAssumption
  <2> QED BY <2>2 DEF SameIn
<1> QED BY <1>2 DEF Filled

LEMMA OldSame ==
    ASSUME NEW b, Shape(b), NEW o \in DOMAIN b, NEW m, NEW m2,
           SameIn(o, b[o], m, m2), NEW c \in Calls, OldOK(o, b[o], m, c)
    PROVE  OldOK(o, b[o], m2, c)
<1>1. m2[o] = m[o] /\ m2[o + W] = m[o + W]
  BY HeadersSame
<1>2. c.old \in Blocks
  BY DEF Calls
<1>3. Returnable(c) => Filled(m2, c.old)
  BY <1>2, FilledSame DEF OldOK
<1> QED BY <1>1, <1>3 DEF OldOK

LEMMA NewSame ==
    ASSUME NEW b, Shape(b), NEW o \in DOMAIN b, NEW m, NEW m2,
           SameIn(o, b[o], m, m2), NEW c, NewOK(o, b[o], m, c)
    PROVE  NewOK(o, b[o], m2, c)
<1>1. m2[o] = m[o] /\ m2[o + W] = m[o + W]
  BY HeadersSame
<1>2. ASSUME c.pc = "mark", c.size # b[o]
      PROVE  m2[o + c.size] = m[o + c.size] /\ m2[o + c.size + W] = m[o + c.size + W]
  <2>1. Proper(b[o], c.size)
    BY <1>2 DEF NewOK
  <2>2. /\ o + c.size \in Words /\ o + c.size + W \in Words
        /\ o + c.size > o /\ o + c.size + W < o + b[o]
    BY <1>2, <2>1, RestWords
  <2>3. o \in Nat /\ b[o] \in Nat /\ c.size \in Nat /\ W \in Nat
    BY <2>1, BlockBounds, ThreadsAssumption DEF Proper
  <2> QED BY <2>2, <2>3 DEF SameIn
<1> QED BY <1>1, <1>2 DEF NewOK
-----------------------------------------------------------------------------
(***************************************************************************)
(* A step of thread t works on one block o at most, which is nobody's, a   *)
(* client's or the thread's own: it may be cut, whose it is may change.    *)
(***************************************************************************)
Given(b, own, o, size, who) ==
    [p \in DOMAIN SplitAt(b, o, size) |->
        IF p = o THEN who
        ELSE IF p \in DOMAIN b THEN own[p]
        ELSE FreeOne]

Yields(w, t) == \/ w = FreeOne \/ w = OldOf(t) \/ w = NewOf(t)
                \/ \E x \in Blocks : w = LiveBy(x)

\* No other thread is at a block that is taken.
Undisturbed(w, t, cs) == w = FreeOne => \A u \in Threads \ {t} : cs[u].pc # "walk"

\* Nothing is written outside of the block, and what is cut off is free.
SameOutside(o, len, m, m2) == 
    \A v \in Words : v < o \/ o + len <= v => m2[v] = m[v]

RestOK(o, size, len, m2) == size # len => FreeOK(o + size, len - size, m2)

\* The clients' blocks are those they had, but for the one at o.
ClientsOK(o, who, l, l2) ==
    /\ \A x \in l : x.start # o => x \in l2
    /\ \A x \in l2 : (x.start = o /\ who = LiveBy(x)) \/ (x \in l /\ x.start # o)

\* What the thread has in other blocks is in order after the step.
TheOther(p, len, who, t, m, c2) == 
    (who = OldOf(t) => OldOK(p, len, m, c2)) /\ (who = NewOf(t) => NewOK(p, len, m, c2))

LEMMA SplitOrSame ==
    ASSUME NEW b, Shape(b), NEW o \in DOMAIN b, NEW size, Proper(b[o], size),
           NEW s, s = SplitAt(b, o, size)
    PROVE  /\ Shape(s) /\ o \in DOMAIN s /\ s[o] = size
           /\ DOMAIN b \subseteq DOMAIN s
           /\ \A p \in DOMAIN b \ {o} : s[p] = b[p]
           /\ \A p \in DOMAIN s \ DOMAIN b : 
                 p = o + size /\ s[p] = b[o] - size /\ size # b[o]
<1>1. size \in Nat /\ Shape(s)
  BY SplitKeepsShape DEF Proper
<1>2. CASE size = b[o]
  <2>1. s = b
    BY <1>2, SplitNothing
  <2> QED BY <1>1, <1>2, <2>1
<1>3. CASE size # b[o]
  <2>1. IsSplit(s, b, o, size)
    BY <1>3, SplitFields
  <2> QED BY <1>1, <1>3, <2>1 DEF IsSplit
<1> QED BY <1>2, <1>3

LEMMA BlockStep ==
    ASSUME NEW d, NEW b, NEW own, NEW m, NEW cs, NEW l, Good(d, b, own, m, cs, l),
           NEW t \in Threads, d[t] # {},
           NEW o \in DOMAIN b, NEW size, Proper(b[o], size), 
           NEW who \in Owners, Yields(own[o], t), Undisturbed(own[o], t, cs),
           NEW m2 \in Memories, NEW c2 \in Calls, NEW l2 \in SUBSET Blocks,
           SameOutside(o, b[o], m, m2), RestOK(o, size, b[o], m2),
           ClientsOK(o, who, l, l2),
           BlockOK(o, size, who, m2, [cs EXCEPT ![t] = c2], l2),
           \A p \in DOMAIN b \ {o} : TheOther(p, b[p], own[p], t, m, c2),
           CallOK(t, c2, SplitAt(b, o, size), Given(b, own, o, size, who), d)
    PROVE  Good(d, SplitAt(b, o, size), Given(b, own, o, size, who), m2,
                [cs EXCEPT ![t] = c2], l2)
<1> DEFINE s == SplitAt(b, o, size)
           g == Given(b, own, o, size, who)
           cs2 == [cs EXCEPT ![t] = c2]
<1>1. Shape(b) /\ own \in [DOMAIN b -> Owners] /\ cs \in [Threads -> Calls]
  BY DEF Good
<1>2. /\ Shape(s) /\ o \in DOMAIN s /\ s[o] = size
      /\ DOMAIN b \subseteq DOMAIN s
      /\ \A p \in DOMAIN b \ {o} : s[p] = b[p]
      /\ \A p \in DOMAIN s \ DOMAIN b : 
            p = o + size /\ s[p] = b[o] - size /\ size # b[o]
  <2> HIDE DEF s
  <2>1. s = SplitAt(b, o, size)
    BY DEF s
  <2> QED BY <1>1, <2>1, SplitOrSame
<1>3. /\ g \in [DOMAIN s -> Owners] /\ g[o] = who
      /\ \A p \in DOMAIN b \ {o} : g[p] = own[p]
      /\ \A p \in DOMAIN s \ DOMAIN b : g[p] = FreeOne
  BY <1>1, <1>2, OwnersHave DEF Given
<1>4. cs2 \in [Threads -> Calls] /\ cs2[t] = c2
      /\ \A u \in Threads \ {t} : cs2[u] = cs[u]
  BY <1>1
<1> HIDE DEF s, g, cs2
<1>5. \A p \in DOMAIN b \ {o} : SameIn(p, b[p], m, m2)
  <2> SUFFICES ASSUME NEW p \in DOMAIN b \ {o}, NEW v \in Words, p <= v, v < p + b[p]
               PROVE  m2[v] = m[v]
    BY DEF SameIn
  <2>1. p \in Nat /\ o \in Nat /\ b[p] \in Nat /\ b[o] \in Nat /\ v \in Nat
    BY <1>1, BlockBounds, WordsAre
  <2>2. o + b[o] <= p \/ p + b[p] <= o
    BY <1>1, BlocksApart
  <2>3. v < o \/ o + b[o] <= v
    BY <2>1, <2>2
  <2> QED BY <2>3 DEF SameOutside
<1>6. ASSUME NEW p \in DOMAIN b \ {o}
      PROVE  BlockOK(p, s[p], g[p], m2, cs2, l2)
  <2>1. s[p] = b[p] /\ g[p] = own[p] /\ SameIn(p, b[p], m, m2)
    BY <1>2, <1>3, <1>5
  <2>2. BlockOK(p, b[p], own[p], m, cs, l)
    BY DEF Good
  <2>3. own[p] = FreeOne => FreeOK(p, b[p], m2)
    BY <1>1, <2>1, <2>2, HeadersSame DEF BlockOK, FreeOK
  <2>4. ASSUME NEW x \in Blocks, own[p] = LiveBy(x)
        PROVE  LiveOK(p, b[p], m2, x, l2)
    <3>1. x \in l /\ Whole(x, p, b[p]) /\ m[p] = b[p] /\ Filled(m, x)
      BY <2>2, <2>4 DEF BlockOK, LiveOK
    <3>2. x \in l2
      BY <3>1 DEF ClientsOK, Whole
    <3>3. m2[p] = b[p] /\ Filled(m2, x)
      BY <1>1, <2>1, <3>1, HeadersSame, FilledSame
    <3> QED BY <3>1, <3>2, <3>3 DEF LiveOK
  <2>5. TheOther(p, b[p], own[p], t, m, c2)
    OBVIOUS
  <2>6. ASSUME NEW u \in Threads, own[p] = OldOf(u)
        PROVE  OldOK(p, b[p], m2, cs2[u])
    <3>1. OldOK(p, b[p], m, cs2[u]) /\ cs2[u] \in Calls
      <4>1. CASE u = t
        BY <1>4, <2>5, <2>6, <4>1 DEF TheOther
      <4>2. CASE u # t
        BY <1>4, <2>2, <2>6, <4>2 DEF BlockOK
      <4> QED BY <4>1, <4>2
    <3> QED BY <1>1, <2>1, <3>1, OldSame
  <2>7. ASSUME NEW u \in Threads, own[p] = NewOf(u)
        PROVE  NewOK(p, b[p], m2, cs2[u])
    <3>1. NewOK(p, b[p], m, cs2[u])
      <4>1. CASE u = t
        BY <1>4, <2>5, <2>7, <4>1 DEF TheOther
      <4>2. CASE u # t
        BY <1>4, <2>2, <2>7, <4>2 DEF BlockOK
      <4> QED BY <4>1, <4>2
    <3> QED BY <1>1, <2>1, <3>1, NewSame
  <2> QED BY <2>1, <2>3, <2>4, <2>6, <2>7 DEF BlockOK
<1>7. BlockOK(o, s[o], g[o], m2, cs2, l2)
  BY <1>2, <1>3 DEF cs2
<1>8. ASSUME NEW p \in DOMAIN s \ DOMAIN b
      PROVE  BlockOK(p, s[p], g[p], m2, cs2, l2)
  <2>1. FreeOK(p, s[p], m2) /\ g[p] = FreeOne
    BY <1>2, <1>3 DEF RestOK
  <2> QED BY <2>1, OwnersDiffer DEF BlockOK
<1>9. \A x \in l2 : x.start \in DOMAIN s /\ g[x.start] = LiveBy(x)
  <2> SUFFICES ASSUME NEW x \in l2
               PROVE  x.start \in DOMAIN s /\ g[x.start] = LiveBy(x)
    OBVIOUS
  <2>1. CASE x.start = o /\ who = LiveBy(x)
    BY <1>2, <1>3, <2>1
  <2>2. CASE x \in l /\ x.start # o
    <3>1. x.start \in DOMAIN b \ {o} /\ own[x.start] = LiveBy(x)
      BY <2>2 DEF Good
    <3> QED BY <1>2, <1>3, <3>1
  <2> QED BY <2>1, <2>2 DEF ClientsOK
<1>10. ASSUME NEW u \in Threads PROVE CallOK(u, cs2[u], s, g, d)
  <2>1. CASE u = t
    BY <1>4, <2>1 DEF s, g
  <2>2. CASE u # t
    <3>1. CallOK(u, cs[u], b, own, d) /\ cs2[u] = cs[u]
      BY <1>4, <2>2 DEF Good
    <3>2. ~Single(u, d)
      BY <2>2 DEF Single
    <3>3. own[o] # OldOf(u) /\ own[o] # NewOf(u)
      BY <2>2, OwnersDiffer DEF Yields
    <3>4. HasOld(cs[u]) => cs[u].old.start \in DOMAIN b \ {o} 
                           /\ own[cs[u].old.start] = OldOf(u)
      BY <3>1, <3>3 DEF CallOK
    <3>5. HasNew(cs[u]) => cs[u].i \in DOMAIN b \ {o} /\ own[cs[u].i] = NewOf(u)
      BY <3>1, <3>3 DEF CallOK
    <3>6. HasOld(cs[u]) => cs[u].old.start \in DOMAIN s /\ g[cs[u].old.start] = OldOf(u)
      BY <1>2, <1>3, <3>4
    <3>7. HasNew(cs[u]) => cs[u].i \in DOMAIN s /\ g[cs[u].i] = NewOf(u)
      BY <1>2, <1>3, <3>5
    <3>8. cs[u].pc = "walk" => cs[u].i \in DOMAIN s \cup {PoolSize}
                               /\ Standing(u, cs[u], s, g, d)
      <4> SUFFICES ASSUME cs[u].pc = "walk" 
                   PROVE  cs[u].i \in DOMAIN s \cup {PoolSize} /\ Standing(u, cs[u], s, g, d)
        OBVIOUS
      <4>1. cs[u].i \in DOMAIN b \cup {PoolSize} /\ Standing(u, cs[u], b, own, d)
        BY <3>1 DEF CallOK
      <4>2. own[o] # FreeOne
        BY <2>2 DEF Undisturbed
      <4>3. ASSUME cs[u].look \in {"room", "fits", "gap", "skip"} 
            PROVE  cs[u].i \in DOMAIN b \ {o}
        BY <4>1, <4>2, <4>3 DEF Standing
      <4> QED BY <1>2, <1>3, <3>2, <4>1, <4>3 DEF Standing
    <3>9. FieldsOK(cs[u], d[u])
      BY <3>1 DEF CallOK
    <3> QED BY <3>1, <3>2, <3>6, <3>7, <3>8, <3>9 DEF CallOK
  <2> QED BY <2>1, <2>2
<1>11. \A p \in DOMAIN s : BlockOK(p, s[p], g[p], m2, cs2, l2)
  BY <1>6, <1>7, <1>8
<1>12. d \in Duties
  BY DEF Good
<1> QED BY <1>2, <1>3, <1>4, <1>9, <1>10, <1>11, <1>12 DEF Good, s, g, cs2

(***************************************************************************)
(* A step of thread t that only moves its call along.                      *)
(***************************************************************************)
LEMMA CallStep ==
    ASSUME NEW d, NEW b, NEW own, NEW m, NEW cs, NEW l, Good(d, b, own, m, cs, l),
           NEW t \in Threads, d[t] # {}, NEW c2 \in Calls, 
           \A p \in DOMAIN b : TheOther(p, b[p], own[p], t, m, c2),
           CallOK(t, c2, b, own, d)
    PROVE  Good(d, b, own, m, [cs EXCEPT ![t] = c2], l)
<1> DEFINE cs2 == [cs EXCEPT ![t] = c2]
<1>1. cs \in [Threads -> Calls]
  BY DEF Good
<1>2. cs2 \in [Threads -> Calls] /\ cs2[t] = c2
      /\ \A u \in Threads \ {t} : cs2[u] = cs[u]
  BY <1>1
<1> HIDE DEF cs2
<1>3. ASSUME NEW p \in DOMAIN b PROVE BlockOK(p, b[p], own[p], m, cs2, l)
  <2>1. BlockOK(p, b[p], own[p], m, cs, l) /\ TheOther(p, b[p], own[p], t, m, c2)
    BY DEF Good
  <2>2. ASSUME NEW u \in Threads, own[p] = OldOf(u) PROVE OldOK(p, b[p], m, cs2[u])
    <3>1. CASE u = t
      BY <1>2, <2>1, <2>2, <3>1 DEF TheOther
    <3>2. CASE u # t
      BY <1>2, <2>1, <2>2, <3>2 DEF BlockOK
    <3> QED BY <3>1, <3>2
  <2>3. ASSUME NEW u \in Threads, own[p] = NewOf(u) PROVE NewOK(p, b[p], m, cs2[u])
    <3>1. CASE u = t
      BY <1>2, <2>1, <2>3, <3>1 DEF TheOther
    <3>2. CASE u # t
      BY <1>2, <2>1, <2>3, <3>2 DEF BlockOK
    <3> QED BY <3>1, <3>2
  <2> QED BY <2>1, <2>2, <2>3 DEF BlockOK
<1>4. ASSUME NEW u \in Threads PROVE CallOK(u, cs2[u], b, own, d)
  <2>1. CASE u = t
    BY <1>2, <2>1
  <2>2. CASE u # t
    BY <1>2, <2>2 DEF Good
  <2> QED BY <2>1, <2>2
<1> QED BY <1>2, <1>3, <1>4 DEF Good, cs2

(***************************************************************************)
(* What a block is when it is known whose it is.                           *)
(***************************************************************************)
LEMMA FreeIs ==
    ASSUME NEW o, NEW len, NEW m, NEW cs, NEW l, FreeOK(o, len, m)
    PROVE  BlockOK(o, len, FreeOne, m, cs, l)
BY OwnersDiffer DEF BlockOK

LEMMA LiveIs ==
    ASSUME NEW o, NEW len, NEW m, NEW cs, NEW l, NEW x, LiveOK(o, len, m, x, l)
    PROVE  BlockOK(o, len, LiveBy(x), m, cs, l)
BY OwnersDiffer DEF BlockOK

LEMMA OldIs ==
    ASSUME NEW o, NEW len, NEW m, NEW cs, NEW l, NEW t, OldOK(o, len, m, cs[t])
    PROVE  BlockOK(o, len, OldOf(t), m, cs, l)
BY OwnersDiffer DEF BlockOK

LEMMA NewIs ==
    ASSUME NEW o, NEW len, NEW m, NEW cs, NEW l, NEW t, NewOK(o, len, m, cs[t])
    PROVE  BlockOK(o, len, NewOf(t), m, cs, l)
BY OwnersDiffer DEF BlockOK

LEMMA WholeIsProper ==
    ASSUME NEW b, Shape(b), NEW o \in DOMAIN b
    PROVE  Proper(b[o], b[o])
BY BlockBounds DEF Proper

(***************************************************************************)
(* A step of thread t that works on a block without cutting it.            *)
(***************************************************************************)
LEMMA WholeStep ==
    ASSUME NEW d, NEW b, NEW own, NEW m, NEW cs, NEW l, Good(d, b, own, m, cs, l),
           NEW t \in Threads, d[t] # {},
           NEW o \in DOMAIN b, NEW who \in Owners, Yields(own[o], t),
           Undisturbed(own[o], t, cs),
           NEW own2, own2 = [own EXCEPT ![o] = who],
           NEW m2 \in Memories, NEW c2 \in Calls, NEW l2 \in SUBSET Blocks,
           SameOutside(o, b[o], m, m2), ClientsOK(o, who, l, l2),
           BlockOK(o, b[o], who, m2, [cs EXCEPT ![t] = c2], l2),
           \A p \in DOMAIN b \ {o} : TheOther(p, b[p], own[p], t, m, c2),
           CallOK(t, c2, b, own2, d)
    PROVE  Good(d, b, own2, m2, [cs EXCEPT ![t] = c2], l2)
<1>1. Shape(b) /\ own \in [DOMAIN b -> Owners]
  BY DEF Good
<1>2. SplitAt(b, o, b[o]) = b /\ Proper(b[o], b[o])
  BY <1>1, SplitNothing, WholeIsProper
<1>3. Given(b, own, o, b[o], who) = own2
  BY <1>1, <1>2 DEF Given
<1>4. RestOK(o, b[o], b[o], m2)
  BY DEF RestOK
<1>5. CallOK(t, c2, SplitAt(b, o, b[o]), Given(b, own, o, b[o], who), d)
  BY <1>2, <1>3
<1>6. Good(d, SplitAt(b, o, b[o]), Given(b, own, o, b[o], who), m2,
           [cs EXCEPT ![t] = c2], l2)
  <2> DEFINE size == b[o]
  <2>1. /\ Proper(b[o], size) /\ RestOK(o, size, b[o], m2)
        /\ BlockOK(o, size, who, m2, [cs EXCEPT ![t] = c2], l2)
        /\ CallOK(t, c2, SplitAt(b, o, size), Given(b, own, o, size, who), d)
    BY <1>2, <1>4, <1>5
  <2> HIDE DEF size
  <2>2. Good(d, SplitAt(b, o, size), Given(b, own, o, size, who), m2,
             [cs EXCEPT ![t] = c2], l2)
    BY <2>1, BlockStep
  <2> QED BY <2>2 DEF size
<1> QED BY <1>2, <1>3, <1>6

(***************************************************************************)
(* The invariant, and what it says of a call and of a block.               *)
(***************************************************************************)
PoolOK == \E b, own : Good(does, b, own, mem, call, live)

ThreadsInv == 
    /\ PoolOK
    /\ allocatedSpace \in 0 .. SizeMod - 1
    /\ Lock!LockTypeOK

LEMMA GoodParts ==
    ASSUME NEW b, NEW own, Good(does, b, own, mem, call, live)
    PROVE  /\ Shape(b) /\ own \in [DOMAIN b -> Owners]
           /\ does \in Duties /\ mem \in Memories
           /\ call \in [Threads -> Calls] /\ live \subseteq Blocks
           /\ \A o \in DOMAIN b : BlockOK(o, b[o], own[o], mem, call, live)
           /\ \A x \in live : x.start \in DOMAIN b /\ own[x.start] = LiveBy(x)
           /\ \A t \in Threads : call[t] \in Calls /\ CallOK(t, call[t], b, own, does)
BY DEF Good

\* A thread between calls has no block.
LEMMA IdleHasNone ==
    ASSUME NEW b, NEW own, Good(does, b, own, mem, call, live),
           NEW t \in Threads, At(t, "idle"), NEW c2
    PROVE  \A p \in DOMAIN b : /\ own[p] # OldOf(t) /\ own[p] # NewOf(t)
                               /\ TheOther(p, b[p], own[p], t, mem, c2)
<1> SUFFICES ASSUME NEW p \in DOMAIN b PROVE own[p] # OldOf(t) /\ own[p] # NewOf(t)
  BY DEF TheOther
<1>1. BlockOK(p, b[p], own[p], mem, call, live) /\ ~call[t].got
  BY GoodParts DEF At, CallOK, FieldsOK
<1> QED BY <1>1 DEF BlockOK, OldOK, NewOK, HasOld, HasNew, At

\* A thread has at most the block it was given and the one it took.
LEMMA HasThese ==
    ASSUME NEW b, NEW own, Good(does, b, own, mem, call, live),
           NEW t \in Threads, NEW p \in DOMAIN b
    PROVE  /\ own[p] = OldOf(t) => p = call[t].old.start /\ OldOK(p, b[p], mem, call[t])
           /\ own[p] = NewOf(t) => p = call[t].i /\ NewOK(p, b[p], mem, call[t])
BY GoodParts DEF BlockOK, OldOK, NewOK

LEMMA OneAllocates ==
    ASSUME Orderly, NEW b, NEW own, Good(does, b, own, mem, call, live),
           NEW t \in Threads, call[t].pc \in {"walk", "mark", "cut"},
           NEW u \in Threads, call[u].pc \in {"walk", "mark", "cut"}
    PROVE  t = u
<1>1. does \in Duties /\ Allocates(does[t]) /\ Allocates(does[u])
  BY GoodParts DEF CallOK, FieldsOK
<1> QED BY <1>1 DEF Orderly

\* While no block is being cut, the words at the start of a block are its
\* header.
LEMMA HeaderRead ==
    ASSUME NEW b, NEW own, Good(does, b, own, mem, call, live),
           \A u \in Threads : ~At(u, "cut"), NEW o \in DOMAIN b
    PROVE  /\ OnHeader(o) /\ Length(o) = b[o]
           /\ own[o] = FreeOne => mem[o] = 0
           /\ mem[o] = 0 => \/ own[o] = FreeOne
                            \/ \E u \in Threads : own[o] = NewOf(u) /\ At(u, "mark")
<1>1. /\ BlockOK(o, b[o], own[o], mem, call, live) /\ own[o] \in Owners
      /\ DOMAIN mem = Words
  BY GoodParts DEF Memories
<1>2. /\ o \in Words /\ o + W \in Words /\ b[o] \in Nat \ {0}
  BY GoodParts, BlockBounds, ThreadsAssumption
<1>3. CASE own[o] = FreeOne
  BY <1>1, <1>2, <1>3 DEF BlockOK, FreeOK, OnHeader, Length
<1>4. CASE own[o] # FreeOne /\ mem[o] = b[o]
  BY <1>1, <1>2, <1>4 DEF OnHeader, Length
<1>5. ASSUME NEW u \in Threads, own[o] = NewOf(u), At(u, "mark")
      PROVE  mem[o] = 0 /\ mem[o + W] = b[o]
  BY <1>1, <1>5 DEF BlockOK, NewOK, At
<1>6. CASE \E u \in Threads : own[o] = NewOf(u) /\ At(u, "mark")
  BY <1>1, <1>2, <1>5, <1>6, OwnersDiffer DEF OnHeader, Length
<1>7. own[o] = FreeOne \/ mem[o] = b[o]
      \/ \E u \in Threads : own[o] = NewOf(u) /\ At(u, "mark")
  <2>1. ASSUME NEW x \in Blocks, own[o] = LiveBy(x) PROVE mem[o] = b[o]
    BY <1>1, <2>1 DEF BlockOK, LiveOK
  <2>2. ASSUME NEW u \in Threads, own[o] = OldOf(u) PROVE mem[o] = b[o]
    BY <1>1, <2>2 DEF BlockOK, OldOK, At
  <2>3. ASSUME NEW u \in Threads, own[o] = NewOf(u), ~At(u, "mark") PROVE mem[o] = b[o]
    BY <1>1, <2>3 DEF BlockOK, NewOK, At
  <2> QED BY <1>1, <2>1, <2>2, <2>3, OwnersHave
<1> QED BY <1>3, <1>4, <1>6, <1>7
-----------------------------------------------------------------------------
(***************************************************************************)
(* allocate(): the steps that only move the call.                          *)
(***************************************************************************)
LEMMA RequestFits ==
    ASSUME Regular, NEW n \in Requests, n # 0
    PROVE  /\ n \in Nat /\ RealAllocation(n) \in Nat /\ RealAllocation(n) % W = 0
           /\ RealAllocation(n) >= 2 * W
<1>1. n \in Nat /\ n + 3 * W < SizeMod
  BY ThreadsAssumption DEF Regular
<1>2. Larger(W, n) + 2 * W < SizeMod
  BY <1>1, ThreadsAssumption DEF Larger
<1> QED BY <1>1, <1>2, RealAllocationFits

LEMMA CallAllocateKeeps ==
    ASSUME PoolOK, Regular, NEW t \in Threads, NEW n \in Requests, CallAllocate(t, n),
           UNCHANGED does
    PROVE  PoolOK'
<1>1. PICK b, own : Good(does, b, own, mem, call, live)
  BY DEF PoolOK
<1> DEFINE c2 == [Idle EXCEPT !.pc = "walk", !.n = n, !.size = RealAllocation(n)]
<1>2. /\ At(t, "idle") /\ n # 0 /\ "allocate" \in does[t]
      /\ call' = [call EXCEPT ![t] = c2] /\ UNCHANGED <<mem, live>>
  BY DEF CallAllocate, Goto
<1>3. n \in Nat /\ RealAllocation(n) \in Nat /\ NoBlock \in Blocks
  BY <1>2, RequestFits, ThreadsAssumption DEF NoBlock, Blocks
<1>4. /\ c2 \in Calls /\ c2.pc = "walk" /\ c2.n = n /\ c2.size = RealAllocation(n)
      /\ c2.i = 0 /\ c2.old = NoBlock /\ ~c2.got /\ c2.look = "size"
  BY <1>3 DEF Idle, Calls, Steps, Looks
<1> HIDE DEF c2
<1>5. \A p \in DOMAIN b : TheOther(p, b[p], own[p], t, mem, c2)
  BY <1>1, <1>2, IdleHasNone
<1>6. does[t] # {} /\ FieldsOK(c2, does[t])
  BY <1>2, <1>4 DEF FieldsOK, Allocates
<1>7. 0 \in DOMAIN b /\ \A p \in DOMAIN b : ~(p < 0)
  BY <1>1, GoodParts DEF Shape
<1>8. CallOK(t, c2, b, own, does)
  BY <1>4, <1>6, <1>7 DEF CallOK, HasOld, HasNew, Passed, Standing
<1>9. Good(does, b, own, mem, call', live)
  BY <1>1, <1>2, <1>4, <1>5, <1>6, <1>8, CallStep
<1> QED BY <1>2, <1>9 DEF PoolOK

\* A call that goes on has the blocks it had.
LEMMA SameBlocks ==
    ASSUME NEW b, NEW own, Good(does, b, own, mem, call, live),
           NEW t \in Threads, ~At(t, "idle"), NEW c2 \in Calls, 
           \A p \in DOMAIN b : 
              /\ OldOK(p, b[p], mem, call[t]) => OldOK(p, b[p], mem, c2)
              /\ NewOK(p, b[p], mem, call[t]) => NewOK(p, b[p], mem, c2),
           CallOK(t, c2, b, own, does)
    PROVE  Good(does, b, own, mem, [call EXCEPT ![t] = c2], live)
<1>1. does[t] # {}
  BY GoodParts DEF CallOK, FieldsOK, At
<1>2. \A p \in DOMAIN b : TheOther(p, b[p], own[p], t, mem, c2)
  BY HasThese DEF TheOther
<1> QED BY <1>1, <1>2, CallStep

(***************************************************************************)
(* The loop of allocate(): it looks again at the block it is at, goes on   *)
(* to the next one, or leaves.                                             *)
(***************************************************************************)
LEMMA WalkStep ==
    ASSUME NEW b, NEW own, Good(does, b, own, mem, call, live),
           NEW t \in Threads, call[t].pc = "walk", 
           NEW i, i = call[t].i, i < PoolSize, NEW j, NEW look \in Looks,
           NEW c2, c2 = [call[t] EXCEPT !.i = j, !.look = look],
           \/ j = i
           \/ /\ j = i + b[i]
              /\ Single(t, does) /\ own[i] = FreeOne => b[i] < call[t].size,
           Standing(t, c2, b, own, does)
    PROVE  Good(does, b, own, mem, [call EXCEPT ![t] = c2], live)
<1> DEFINE c == call[t]
<1>1. /\ c \in Calls /\ CallOK(t, c, b, own, does) /\ Shape(b) /\ c.i = i
  BY GoodParts
<1>2. /\ i \in DOMAIN b /\ ~c.got /\ FieldsOK(c, does[t])
      /\ c.n \in Requests /\ c.size = RealAllocation(c.n)
  <2>1. FieldsOK(c, does[t]) /\ i \in DOMAIN b \cup {PoolSize} /\ ~(PoolSize < PoolSize)
    BY <1>1, ThreadsAssumption DEF CallOK
  <2> QED BY <2>1 DEF FieldsOK
<1>3. /\ i \in Nat /\ b[i] \in Nat \ {0} /\ i + b[i] \in DOMAIN b \cup {PoolSize}
  BY <1>1, <1>2, BlockBounds, ThreadsAssumption
<1>4. j \in Nat /\ j \in DOMAIN b \cup {PoolSize}
  BY <1>2, <1>3
<1>5. /\ c2 \in Calls /\ c2.pc = "walk" /\ c2.i = j /\ c2.n = c.n
      /\ c2.size = c.size /\ c2.tmp = c.tmp /\ c2.old = c.old /\ c2.got = c.got
  BY <1>1, <1>4 DEF Calls
<1>6. c.pc = "walk" /\ (Single(t, does) /\ own[i] = FreeOne /\ j # i => b[i] < c.size)
  OBVIOUS
<1> HIDE DEF c
<1>7. Single(t, does) => Passed(j, RealAllocation(c.n), b, own)
  <2> SUFFICES ASSUME Single(t, does), NEW p \in DOMAIN b, p < j, own[p] = FreeOne
               PROVE  b[p] < RealAllocation(c.n)
    BY DEF Passed
  <2>1. Passed(i, RealAllocation(c.n), b, own)
    BY <1>1, <1>6 DEF CallOK
  <2>2. p \in Nat /\ ~(i < p /\ p < i + b[i])
    BY <1>1, <1>2, BlockBounds DEF Shape
  <2>3. p < i \/ (p = i /\ j # i)
    BY <1>3, <2>2
  <2> QED BY <1>2, <1>6, <2>1, <2>3 DEF Passed
<1>8. CallOK(t, c2, b, own, does)
  <2>1. FieldsOK(c2, does[t])
    BY <1>2, <1>5, <1>6 DEF FieldsOK
  <2>2. ~HasNew(c2) /\ (HasOld(c2) <=> HasOld(c))
    BY <1>2, <1>5, <1>6 DEF HasOld, HasNew
  <2> QED BY <1>1, <1>4, <1>5, <1>7, <2>1, <2>2 DEF CallOK
<1>9. \A p \in DOMAIN b : /\ OldOK(p, b[p], mem, c) => OldOK(p, b[p], mem, c2)
                          /\ NewOK(p, b[p], mem, c) => NewOK(p, b[p], mem, c2)
  BY <1>2, <1>5, <1>6 DEF OldOK, NewOK, HasOld, HasNew, Returnable
<1>10. ~At(t, "idle")
  BY DEF At
<1> QED BY <1>5, <1>8, <1>9, <1>10, SameBlocks DEF c

LEMMA WalkLeaves ==
    ASSUME NEW b, NEW own, Good(does, b, own, mem, call, live),
           NEW t \in Threads, call[t].pc = "walk", NEW look \in Looks,
           NEW c2, c2 = [call[t] EXCEPT !.pc = "leave", !.look = look]
    PROVE  Good(does, b, own, mem, [call EXCEPT ![t] = c2], live)
<1> DEFINE c == call[t]
<1>1. c.pc = "walk" /\ c \in Calls /\ CallOK(t, c, b, own, does)
  BY GoodParts
<1>2. ~c.got /\ FieldsOK(c, does[t])
  BY <1>1 DEF CallOK, FieldsOK
<1>3. /\ c2 \in Calls /\ c2.pc = "leave" /\ c2.i = c.i /\ c2.n = c.n
      /\ c2.size = c.size /\ c2.tmp = c.tmp /\ c2.old = c.old /\ c2.got = c.got
  BY <1>1 DEF Calls, Steps
<1> HIDE DEF c
<1>4. CallOK(t, c2, b, own, does)
  <2>1. FieldsOK(c2, does[t])
    BY <1>1, <1>2, <1>3 DEF FieldsOK
  <2>2. ~HasNew(c2) /\ (HasOld(c2) <=> HasOld(c))
    BY <1>1, <1>2, <1>3 DEF HasOld, HasNew
  <2> QED BY <1>1, <1>3, <2>1, <2>2 DEF CallOK
<1>5. \A p \in DOMAIN b : /\ OldOK(p, b[p], mem, c) => OldOK(p, b[p], mem, c2)
                          /\ NewOK(p, b[p], mem, c) => NewOK(p, b[p], mem, c2)
  BY <1>1, <1>2, <1>3 DEF OldOK, NewOK, HasOld, HasNew, Returnable
<1>6. ~At(t, "idle")
  BY DEF At
<1> QED BY <1>3, <1>4, <1>5, <1>6, SameBlocks DEF c

\* What a walk reads at the block it is at.
LEMMA WalkReads ==
    ASSUME Orderly, NEW b, NEW own, Good(does, b, own, mem, call, live),
           NEW t \in Threads, NEW look, Reads(t, look), NEW i, i = call[t].i
    PROVE  /\ call[t].pc = "walk" /\ call[t].look = look /\ i < PoolSize /\ i \in DOMAIN b
           /\ Standing(t, call[t], b, own, does) /\ call[t] \in Calls /\ b[i] \in Nat
           /\ mem[i] = 0 => own[i] = FreeOne
           /\ mem[i] # 0 => own[i] # FreeOne /\ mem[i] = b[i]
           /\ own[i] = FreeOne => mem[i + W] = b[i]
<1>1. /\ call[t].pc = "walk" /\ call[t].look = look /\ i < PoolSize
  BY DEF Reads, Walking, At
<1>2. /\ call[t] \in Calls /\ CallOK(t, call[t], b, own, does) /\ Shape(b)
  BY GoodParts
<1>3. i \in DOMAIN b /\ Standing(t, call[t], b, own, does) /\ b[i] \in Nat
  <2>1. i \in DOMAIN b /\ Standing(t, call[t], b, own, does)
    BY <1>1, <1>2, ThreadsAssumption DEF CallOK
  <2> QED BY <1>2, <2>1, BlockBounds
<1>4. \A u \in Threads : ~At(u, "cut")
  BY <1>1, OneAllocates DEF At
<1>5. \A u \in Threads : ~At(u, "mark")
  BY <1>1, OneAllocates DEF At
<1>6. /\ Length(i) = b[i]
      /\ own[i] = FreeOne => mem[i] = 0
      /\ mem[i] = 0 => own[i] = FreeOne
  BY <1>3, <1>4, <1>5, HeaderRead
<1> QED BY <1>1, <1>2, <1>3, <1>6 DEF Length

LEMMA WalkSizeKeeps ==
    ASSUME PoolOK, Orderly, NEW t \in Threads, WalkSize(t), UNCHANGED does
    PROVE  PoolOK'
<1>1. PICK b, own : Good(does, b, own, mem, call, live)
  BY DEF PoolOK
<1> DEFINE i == call[t].i
           look == IF mem[i] = 0 THEN "room" ELSE "taken"
           c2 == [call[t] EXCEPT !.look = look]
<1>2. /\ Reads(t, "size") /\ call' = [call EXCEPT ![t] = c2] /\ UNCHANGED <<mem, live>>
  <2>1. Word(t) = i
    BY DEF WalkSize, Word, Reads
  <2> QED BY <2>1 DEF WalkSize, Look, ReadsOnly, Goto
<1>3. /\ call[t].pc = "walk" /\ i < PoolSize /\ i \in DOMAIN b /\ call[t] \in Calls
      /\ mem[i] = 0 => own[i] = FreeOne
      /\ mem[i] # 0 => own[i] # FreeOne
  BY <1>1, <1>2, WalkReads
<1>4. look \in Looks /\ c2 = [call[t] EXCEPT !.i = i, !.look = look]
  BY <1>3 DEF Looks, Calls
<1>5. c2.look = look /\ c2.i = i
  BY <1>3 DEF Calls
<1>6. Standing(t, c2, b, own, does)
  BY <1>3, <1>5 DEF Standing
<1> HIDE DEF look, c2
<1>7. Good(does, b, own, mem, [call EXCEPT ![t] = c2], live)
  BY <1>1, <1>3, <1>4, <1>6, WalkStep
<1> QED BY <1>2, <1>7 DEF PoolOK

LEMMA WalkRoomKeeps ==
    ASSUME PoolOK, Orderly, NEW t \in Threads, WalkRoom(t), UNCHANGED does
    PROVE  PoolOK'
<1>1. PICK b, own : Good(does, b, own, mem, call, live)
  BY DEF PoolOK
<1> DEFINE i == call[t].i
           look == IF call[t].size <= mem[i + W] THEN "fits" ELSE "gap"
           c2 == [call[t] EXCEPT !.look = look]
<1>2. /\ Reads(t, "room") /\ call' = [call EXCEPT ![t] = c2] /\ UNCHANGED <<mem, live>>
  <2>1. Word(t) = i + W
    BY DEF WalkRoom, Word, Reads
  <2> QED BY <2>1 DEF WalkRoom, Look, ReadsOnly, Goto
<1>3. /\ call[t].pc = "walk" /\ i < PoolSize /\ i \in DOMAIN b /\ call[t] \in Calls
      /\ own[i] = FreeOne /\ mem[i + W] = b[i] /\ b[i] \in Nat
  <2>1. call[t].look = "room" /\ Standing(t, call[t], b, own, does)
    BY <1>1, <1>2, WalkReads
  <2> QED BY <1>1, <1>2, <2>1, WalkReads DEF Standing
<1>4. look \in Looks /\ c2 = [call[t] EXCEPT !.i = i, !.look = look]
  BY <1>3 DEF Looks, Calls
<1>5. c2.look = look /\ c2.i = i /\ c2.size = call[t].size /\ call[t].size \in Nat
  BY <1>3 DEF Calls
<1>6. Standing(t, c2, b, own, does)
  BY <1>3, <1>5 DEF Standing
<1> HIDE DEF look, c2
<1>7. Good(does, b, own, mem, [call EXCEPT ![t] = c2], live)
  BY <1>1, <1>3, <1>4, <1>6, WalkStep
<1> QED BY <1>2, <1>7 DEF PoolOK

LEMMA WalkChecksKeeps ==
    ASSUME PoolOK, Orderly, NEW t \in Threads, WalkChecks(t), UNCHANGED does
    PROVE  PoolOK'
<1>1. PICK b, own : Good(does, b, own, mem, call, live)
  BY DEF PoolOK
<1> DEFINE c == call[t]
           i == call[t].i
<1>2. PICK look \in {"gap", "taken"} :
        /\ Reads(t, look) /\ UNCHANGED <<mem, live>>
        /\ call' = [call EXCEPT ![t] = 
                      IF mem[Word(t)] = 0 THEN GiveUp(c)
                      ELSE [c EXCEPT !.look = IF look = "gap" THEN "skip" ELSE "pass"]]
  BY DEF WalkChecks, ReadsOnly, Goto
<1>3. /\ c.pc = "walk" /\ c.look = look /\ i < PoolSize /\ i \in DOMAIN b /\ c \in Calls
      /\ Standing(t, c, b, own, does)
  BY <1>1, <1>2, WalkReads
<1>4. CASE mem[Word(t)] = 0
  <2> DEFINE c2 == [c EXCEPT !.pc = "leave", !.look = "size"]
  <2>1. call' = [call EXCEPT ![t] = c2] /\ "size" \in Looks
    BY <1>2, <1>4 DEF GiveUp, Looks
  <2> HIDE DEF c2
  <2>2. c2 = [c EXCEPT !.pc = "leave", !.look = "size"]
    BY DEF c2
  <2>3. Good(does, b, own, mem, [call EXCEPT ![t] = c2], live)
    BY <1>1, <1>3, <2>1, <2>2, WalkLeaves
  <2> QED BY <1>2, <2>1, <2>3 DEF PoolOK
<1>5. CASE mem[Word(t)] # 0
  <2> DEFINE look2 == IF look = "gap" THEN "skip" ELSE "pass"
             c2 == [c EXCEPT !.look = look2]
  <2>1. call' = [call EXCEPT ![t] = c2]
    BY <1>2, <1>5
  <2>2. look2 \in Looks /\ c2 = [c EXCEPT !.i = i, !.look = look2]
    BY <1>3 DEF Looks, Calls
  <2>3. c2.look = look2 /\ c2.i = i /\ c2.size = c.size
    BY <1>3 DEF Calls
  <2>4. Standing(t, c2, b, own, does)
    BY <1>3, <2>3 DEF Standing
  <2> HIDE DEF look2, c2
  <2>5. Good(does, b, own, mem, [call EXCEPT ![t] = c2], live)
    BY <1>1, <1>3, <2>2, <2>4, WalkStep
  <2> QED BY <1>2, <2>1, <2>5 DEF PoolOK
<1> QED BY <1>4, <1>5

LEMMA WalkOverKeeps ==
    ASSUME PoolOK, Orderly, NEW t \in Threads, WalkOver(t), UNCHANGED does
    PROVE  PoolOK'
<1>1. PICK b, own : Good(does, b, own, mem, call, live)
  BY DEF PoolOK
<1> DEFINE c == call[t]
           i == call[t].i
           j == i + mem[Word(t)]
           c2 == [c EXCEPT !.i = j, !.look = "size"]
<1>2. /\ call' = [call EXCEPT ![t] = c2] /\ UNCHANGED <<mem, live>>
  BY DEF WalkOver, ReadsOnly, Goto
<1>3. PICK look \in {"skip", "pass", "size", "room"} : 
        /\ Reads(t, look)
        /\ look = "size" => mem[Word(t)] # 0
        /\ look = "room" => mem[Word(t)] \in 1 .. c.size - 1
  BY Zenon DEF WalkOver, StepsOver
<1>4. /\ c.pc = "walk" /\ c.look = look /\ i < PoolSize /\ i \in DOMAIN b /\ c \in Calls
      /\ Standing(t, c, b, own, does) /\ b[i] \in Nat
      /\ mem[i] = 0 => own[i] = FreeOne
      /\ mem[i] # 0 => own[i] # FreeOne /\ mem[i] = b[i]
      /\ own[i] = FreeOne => mem[i + W] = b[i]
  BY <1>1, <1>3, WalkReads
<1>5. c.size \in Nat /\ i \in Nat
  BY <1>4 DEF Calls
<1>6. j = i \/ (j = i + b[i] /\ (own[i] = FreeOne => b[i] < c.size))
  <2>1. CASE look \in {"skip", "room"}
    <3>1. own[i] = FreeOne /\ Word(t) = i + W
      BY <1>4, <2>1 DEF Standing, Word
    <3>2. mem[i + W] = b[i]
      BY <1>4, <3>1
    <3>3. b[i] < c.size
      BY <1>3, <1>4, <1>5, <2>1, <3>1, <3>2 DEF Standing
    <3> QED BY <3>1, <3>2, <3>3
  <2>2. CASE look \in {"pass", "size"}
    <3>1. Word(t) = i
      BY <1>4, <2>2 DEF Word
    <3>2. CASE mem[i] = 0
      <4>1. j = i + 0
        BY <3>1, <3>2
      <4> QED BY <1>5, <4>1
    <3>3. CASE mem[i] # 0
      BY <1>4, <3>1, <3>3
    <3> QED BY <3>2, <3>3
  <2> QED BY <2>1, <2>2
<1>7. "size" \in Looks /\ c2.look = "size"
  BY <1>4 DEF Looks, Calls
<1>8. Standing(t, c2, b, own, does)
  BY <1>7 DEF Standing
<1>9. c2 = [c EXCEPT !.i = j, !.look = "size"]
  OBVIOUS
<1> HIDE DEF c2, j
<1>10. Good(does, b, own, mem, [call EXCEPT ![t] = c2], live)
  BY <1>1, <1>4, <1>6, <1>7, <1>8, <1>9, WalkStep
<1> QED BY <1>2, <1>10 DEF PoolOK

LEMMA WalkEndsKeeps ==
    ASSUME PoolOK, NEW t \in Threads, WalkEnds(t), UNCHANGED does
    PROVE  PoolOK'
<1>1. PICK b, own : Good(does, b, own, mem, call, live)
  BY DEF PoolOK
<1> DEFINE c2 == [call[t] EXCEPT !.pc = "leave", !.look = call[t].look]
<1>2. call[t].pc = "walk" /\ call[t] \in Calls /\ call[t].look \in Looks
  BY <1>1, GoodParts DEF WalkEnds, Walking, At, Calls
<1>3. /\ call' = [call EXCEPT ![t] = c2] /\ UNCHANGED <<mem, live>>
  BY <1>2 DEF WalkEnds, Goto, Calls
<1>4. c2 = [call[t] EXCEPT !.pc = "leave", !.look = call[t].look]
  OBVIOUS
<1> HIDE DEF c2
<1>5. Good(does, b, own, mem, [call EXCEPT ![t] = c2], live)
  BY <1>1, <1>2, <1>4, WalkLeaves
<1> QED BY <1>3, <1>5 DEF PoolOK

LEMMA CreditKeeps ==
    ASSUME PoolOK, NEW t \in Threads, Credit(t), UNCHANGED does
    PROVE  PoolOK'
<1>1. PICK b, own : Good(does, b, own, mem, call, live)
  BY DEF PoolOK
<1> DEFINE c == call[t]
           c2 == [c EXCEPT !.pc = "leave", !.got = TRUE]
<1>2. /\ c.pc = "credit" /\ call' = [call EXCEPT ![t] = c2] /\ UNCHANGED <<mem, live>>
  BY DEF Credit, At, Goto
<1>3. /\ c \in Calls /\ CallOK(t, c, b, own, does)
  BY <1>1, GoodParts
<1>4. ~c.got /\ FieldsOK(c, does[t])
  BY <1>2, <1>3 DEF CallOK, FieldsOK
<1>5. /\ c2 \in Calls /\ c2.pc = "leave" /\ c2.i = c.i /\ c2.n = c.n
      /\ c2.size = c.size /\ c2.tmp = c.tmp /\ c2.old = c.old /\ c2.got
  BY <1>3 DEF Calls, Steps
<1> HIDE DEF c2, c
<1>6. CallOK(t, c2, b, own, does)
  <2>1. FieldsOK(c2, does[t])
    BY <1>2, <1>4, <1>5 DEF FieldsOK
  <2>2. (HasNew(c2) <=> HasNew(c)) /\ (HasOld(c2) <=> HasOld(c))
    BY <1>2, <1>4, <1>5 DEF HasOld, HasNew
  <2> QED BY <1>3, <1>5, <2>1, <2>2 DEF CallOK
<1>7. \A p \in DOMAIN b : /\ OldOK(p, b[p], mem, c) => OldOK(p, b[p], mem, c2)
                          /\ NewOK(p, b[p], mem, c) => NewOK(p, b[p], mem, c2)
  BY <1>2, <1>4, <1>5 DEF OldOK, NewOK, HasOld, HasNew, Returnable
<1>8. ~At(t, "idle")
  BY <1>2 DEF At, c
<1>9. Good(does, b, own, mem, call', live)
  BY <1>1, <1>2, <1>5, <1>6, <1>7, <1>8, SameBlocks DEF c
<1> QED BY <1>2, <1>9 DEF PoolOK

(***************************************************************************)
(* allocate(): the block is found and its header written.                  *)
(***************************************************************************)
LEMMA GivenFields ==
    ASSUME NEW b, Shape(b), NEW own, NEW o \in DOMAIN b, NEW size, 
           Proper(b[o], size), NEW who, 
           NEW g, g = Given(b, own, o, size, who), NEW s, s = SplitAt(b, o, size)
    PROVE  /\ DOMAIN b \subseteq DOMAIN s /\ s[o] = size /\ g[o] = who
           /\ \A p \in DOMAIN b \ {o} : g[p] = own[p] /\ s[p] = b[p]
<1>1. o \in DOMAIN s /\ s[o] = size /\ DOMAIN b \subseteq DOMAIN s
      /\ \A p \in DOMAIN b \ {o} : s[p] = b[p]
  BY SplitOrSame
<1> QED BY <1>1 DEF Given

\* Where a block may be cut, and what is written behind the cut.
IsCut(b, i, size, m, m2) ==
    /\ Proper(b[i], size) /\ m2 \in Memories 
    /\ SameOutside(i, b[i], m, m2) /\ m2[i] = m[i] /\ m2[i + W] = m[i + W]
    /\ FreeOK(i + size, b[i] - size, m2)

LEMMA CutHere ==
    ASSUME NEW b, Shape(b), NEW m \in Memories, NEW i \in DOMAIN b,
           NEW size \in Nat, size % W = 0, 2 * W <= size, size + W < b[i],
           NEW m2, m2 = [m EXCEPT ![i + size] = 0, ![i + size + W] = b[i] - size]
    PROVE  IsCut(b, i, size, m, m2)
<1>1. /\ i \in Nat /\ b[i] \in Nat /\ i % W = 0 /\ b[i] % W = 0
      /\ i + b[i] <= PoolSize /\ W \in Nat \ {0} /\ PoolSize \in Nat
      /\ i \in Words /\ i + W \in Words
  BY BlockBounds, ThreadsAssumption
<1>11. /\ i \in Nat /\ b[i] \in Nat /\ W \in Nat /\ W > 0 /\ PoolSize \in Nat
       /\ i + b[i] <= PoolSize
  BY <1>1
<1>2. /\ size + W \in Nat /\ (size + W) % W = 0 /\ (i + size) % W = 0
      /\ i + size \in Nat /\ i + size + W \in Nat
  BY <1>1, SumOfMultiples, WordIsMultiple
<1>3. size + W + W <= b[i]
  BY <1>1, <1>2, DifferenceOfMultiples
<1>4. (i + size + W) % W = 0 /\ i + size + W < PoolSize
  BY <1>1, <1>2, <1>3, SumOfMultiples, WordIsMultiple
<1>5. i + size \in Words /\ i + size + W \in Words
  BY <1>1, <1>2, <1>4, WordsAre
<1>6. b[i] - size \in 0 .. PoolSize
  BY <1>3, <1>11
<1>7. Proper(b[i], size)
  BY <1>1, <1>3 DEF Proper
<1>8. m2 \in Memories /\ m2[i + size] = 0 /\ m2[i + size + W] = b[i] - size
      /\ \A v \in Words : v # i + size /\ v # i + size + W => m2[v] = m[v]
  BY <1>1, <1>2, <1>5, <1>6 DEF Memories
<1>9. SameOutside(i, b[i], m, m2)
  <2> SUFFICES ASSUME NEW v \in Words, v < i \/ i + b[i] <= v PROVE m2[v] = m[v]
    BY DEF SameOutside
  <2>1. v \in Nat
    BY WordsAre
  <2>2. v # i + size /\ v # i + size + W
    BY <1>3, <1>11, <2>1
  <2> QED BY <1>8, <2>2
<1>10. m2[i] = m[i] /\ m2[i + W] = m[i + W]
  <2>1. i # i + size /\ i # i + size + W /\ i + W # i + size /\ i + W # i + size + W
    BY <1>11
  <2> QED BY <1>1, <1>8, <2>1
<1> QED BY <1>7, <1>8, <1>9, <1>10 DEF FreeOK, IsCut

LEMMA WalkFindsKeeps ==
    ASSUME PoolOK, Orderly, Regular, NEW t \in Threads, WalkFinds(t), UNCHANGED does
    PROVE  PoolOK'
<1>1. PICK b, own : Good(does, b, own, mem, call, live)
  BY DEF PoolOK
<1> DEFINE c == call[t]
           i == call[t].i
           size == call[t].size
           space == mem[i + W]
<1>2. /\ c.pc = "walk" /\ c.look = "fits" /\ i < PoolSize
      /\ \/ /\ space <= size + W /\ mem' = mem
            /\ call' = [call EXCEPT ![t] = [c EXCEPT !.pc = "mark", !.look = "size",
                                                     !.size = space]]
         \/ /\ size + W < space
            /\ mem' = [mem EXCEPT ![i + size] = 0, ![i + size + W] = space - size]
            /\ call' = [call EXCEPT ![t] = [c EXCEPT !.pc = "mark", !.look = "size"]]
      /\ UNCHANGED live
  BY DEF WalkFinds, Reads, Walking, At, Goto
<1>3. /\ c \in Calls /\ CallOK(t, c, b, own, does) /\ Shape(b)
      /\ mem \in Memories /\ own \in [DOMAIN b -> Owners] /\ live \subseteq Blocks
  BY <1>1, GoodParts
<1>4. /\ i \in DOMAIN b /\ c.i = i /\ c.size = size /\ ~c.got /\ FieldsOK(c, does[t])
      /\ c.n \in Requests /\ c.n # 0 /\ size = RealAllocation(c.n)
      /\ size \in Nat /\ size % W = 0 /\ size >= 2 * W
  <2>1. FieldsOK(c, does[t]) /\ i \in DOMAIN b \cup {PoolSize} /\ ~(PoolSize < PoolSize)
    BY <1>2, <1>3, ThreadsAssumption DEF CallOK
  <2>2. /\ c.n \in Requests /\ c.n # 0 /\ size = RealAllocation(c.n) /\ ~c.got
        /\ i \in DOMAIN b
    BY <1>2, <2>1 DEF FieldsOK
  <2> QED BY <2>1, <2>2, RequestFits
<1>5. \A u \in Threads : ~At(u, "cut")
  BY <1>1, <1>2, OneAllocates DEF At
<1>6. own[i] = FreeOne /\ space = b[i] /\ mem[i] = 0 /\ size <= space
  <2>1. own[i] = FreeOne /\ size <= b[i]
    BY <1>2, <1>3 DEF CallOK, Standing
  <2>2. FreeOK(i, b[i], mem)
    BY <1>1, <1>4, <2>1, GoodParts DEF BlockOK
  <2> QED BY <2>1, <2>2 DEF FreeOK
<1>7. FreeOK(i, b[i], mem) /\ b[i] \in Nat /\ W \in Nat
  BY <1>3, <1>4, <1>6, BlockBounds, ThreadsAssumption, GoodParts, <1>1 DEF BlockOK, FreeOK
<1> HIDE DEF c, i, size, space
<1>8. PICK s2 \in Nat : 
        /\ call' = [call EXCEPT ![t] = [c EXCEPT !.pc = "mark", !.look = "size", !.size = s2]]
        /\ size <= s2 /\ Proper(b[i], s2)
        /\ mem' \in Memories /\ SameOutside(i, b[i], mem, mem') 
        /\ FreeOK(i, b[i], mem') /\ RestOK(i, s2, b[i], mem')
  <2>1. CASE space <= size + W /\ mem' = mem
             /\ call' = [call EXCEPT ![t] = [c EXCEPT !.pc = "mark", !.look = "size", !.size = space]]
    <3>1. Proper(b[i], b[i]) /\ size <= b[i]
      BY <1>2, <1>3, <1>4, <1>6, WholeIsProper
    <3>2. SameOutside(i, b[i], mem, mem') /\ RestOK(i, b[i], b[i], mem')
          /\ FreeOK(i, b[i], mem') /\ mem' \in Memories
      BY <1>3, <1>7, <2>1 DEF SameOutside, RestOK
    <3> QED BY <1>6, <1>7, <2>1, <3>1, <3>2
  <2>2. CASE /\ size + W < space
             /\ mem' = [mem EXCEPT ![i + size] = 0, ![i + size + W] = space - size]
             /\ call' = [call EXCEPT ![t] = [c EXCEPT !.pc = "mark", !.look = "size"]]
    <3>1. /\ Proper(b[i], size) /\ mem' \in Memories
          /\ SameOutside(i, b[i], mem, mem') /\ FreeOK(i, b[i], mem')
          /\ FreeOK(i + size, b[i] - size, mem')
      <4> DEFINE m2 == mem'
      <4>1. m2 = [mem EXCEPT ![i + size] = 0, ![i + size + W] = b[i] - size]
            /\ size + W < b[i]
        BY <1>6, <2>2
      <4> HIDE DEF m2
      <4>2. IsCut(b, i, size, mem, m2)
        BY <1>3, <1>4, <4>1, CutHere
      <4>3. FreeOK(i, b[i], m2)
        BY <1>7, <4>2 DEF FreeOK, IsCut
      <4> QED BY <4>2, <4>3 DEF m2, IsCut
    <3>2. [c EXCEPT !.pc = "mark", !.look = "size"] = [c EXCEPT !.pc = "mark", !.look = "size", !.size = size]
      BY <1>3, <1>4 DEF Calls
    <3>3. call' = [call EXCEPT ![t] = [c EXCEPT !.pc = "mark", !.look = "size", !.size = size]]
      BY <2>2, <3>2
    <3>4. RestOK(i, size, b[i], mem')
      BY <3>1 DEF RestOK
    <3>5. size \in Nat /\ size <= size
      BY <1>4
    <3> QED BY <3>1, <3>3, <3>4, <3>5, Zenon
  <2>3. \/ /\ space <= size + W /\ mem' = mem
           /\ call' = [call EXCEPT ![t] = [c EXCEPT !.pc = "mark", !.look = "size", !.size = space]]
        \/ /\ size + W < space
           /\ mem' = [mem EXCEPT ![i + size] = 0, ![i + size + W] = space - size]
           /\ call' = [call EXCEPT ![t] = [c EXCEPT !.pc = "mark", !.look = "size"]]
    BY <1>2
  <2> QED BY <2>1, <2>2, <2>3, Zenon
<1> DEFINE c2 == [c EXCEPT !.pc = "mark", !.look = "size", !.size = s2]
           own2 == [own EXCEPT ![i] = NewOf(t)]
<1>9. /\ c2 \in Calls /\ c2.pc = "mark" /\ c2.i = i /\ c2.n = c.n
      /\ c2.size = s2 /\ c2.tmp = c.tmp /\ c2.old = c.old /\ c2.got = c.got
  BY <1>3, <1>4 DEF Calls, Steps, Looks
<1>10. own2[i] = NewOf(t) /\ \A p \in DOMAIN b \ {i} : own2[p] = own[p]
  BY <1>3, <1>4
<1>11. call' = [call EXCEPT ![t] = c2]
  BY <1>8
<1> HIDE DEF c2, own2
<1>12. NewOK(i, b[i], mem', c2)
  <2>1. HasNew(c2) /\ c2.n \in Requests /\ c2.n # 0 /\ RealAllocation(c2.n) <= c2.size
    BY <1>4, <1>8, <1>9 DEF HasNew
  <2>2. mem'[i] = 0 /\ mem'[i + W] = b[i] /\ Proper(b[i], s2)
        /\ (s2 # b[i] => mem'[i + s2] = 0 /\ mem'[i + s2 + W] = b[i] - s2)
    BY <1>8 DEF FreeOK, RestOK
  <2> QED BY <1>9, <2>1, <2>2 DEF NewOK
<1>13. CallOK(t, c2, b, own2, does)
  <2>1. FieldsOK(c2, does[t])
    BY <1>2, <1>4, <1>9 DEF FieldsOK
  <2>2. HasOld(c2) => c2.old.start \in DOMAIN b /\ own2[c2.old.start] = OldOf(t)
    <3>1. HasOld(c2) => HasOld(c)
      BY <1>2, <1>9 DEF HasOld
    <3>2. HasOld(c) => c.old.start \in DOMAIN b /\ own[c.old.start] = OldOf(t)
      BY <1>3 DEF CallOK
    <3> QED BY <1>6, <1>9, <1>10, <3>1, <3>2, OwnersDiffer
  <2>3. Passed(i, RealAllocation(c.n), b, own) => Passed(i, RealAllocation(c.n), b, own2)
    BY <1>10, OwnersDiffer DEF Passed
  <2> QED BY <1>2, <1>3, <1>4, <1>9, <1>10, <2>1, <2>2, <2>3 DEF CallOK
<1>14. \A p \in DOMAIN b \ {i} : TheOther(p, b[p], own[p], t, mem, c2)
  <2> SUFFICES ASSUME NEW p \in DOMAIN b \ {i} PROVE TheOther(p, b[p], own[p], t, mem, c2)
    OBVIOUS
  <2>1. /\ own[p] = OldOf(t) => OldOK(p, b[p], mem, c)
        /\ own[p] = NewOf(t) => NewOK(p, b[p], mem, c)
    BY <1>1, HasThese DEF c
  <2>2. ~HasNew(c)
    BY <1>2, <1>4 DEF HasNew
  <2>3. OldOK(p, b[p], mem, c) => OldOK(p, b[p], mem, c2)
    BY <1>2, <1>9 DEF OldOK, HasOld, Returnable
  <2> QED BY <2>1, <2>2, <2>3 DEF TheOther, NewOK
<1>15. ClientsOK(i, NewOf(t), live, live)
  BY <1>1, <1>6, GoodParts, OwnersDiffer DEF ClientsOK
<1>16. BlockOK(i, b[i], NewOf(t), mem', [call EXCEPT ![t] = c2], live)
  <2>1. [call EXCEPT ![t] = c2][t] = c2
    BY <1>1, GoodParts
  <2> QED BY <1>12, <2>1, NewIs
<1>17. /\ does[t] # {} /\ Yields(own[i], t) /\ Undisturbed(own[i], t, call)
       /\ NewOf(t) \in Owners
  <2>1. \A u \in Threads \ {t} : call[u].pc # "walk"
    BY <1>1, <1>2, OneAllocates DEF c
  <2> QED BY <1>2, <1>4, <1>6, <2>1, OwnersHave DEF FieldsOK, Yields, Undisturbed
<1>18. Good(does, b, own2, mem', [call EXCEPT ![t] = c2], live)
  <2> DEFINE m2 == mem'
  <2>1. own2 = [own EXCEPT ![i] = NewOf(t)]
    BY DEF own2
  <2>2. /\ m2 \in Memories /\ SameOutside(i, b[i], mem, m2) 
        /\ BlockOK(i, b[i], NewOf(t), m2, [call EXCEPT ![t] = c2], live)
    BY <1>8, <1>16
  <2> HIDE DEF m2
  <2>3. Good(does, b, own2, m2, [call EXCEPT ![t] = c2], live)
    BY <1>1, <1>3, <1>4, <1>9, <1>13, <1>14, <1>15, <1>17, <2>1, <2>2, WholeStep
  <2> QED BY <2>3 DEF m2
<1> QED BY <1>2, <1>11, <1>18 DEF PoolOK

\* A call of allocate() that has its block: the header at i gets its length,
\* and what is behind it becomes a block.
LEMMA MarkKeeps ==
    ASSUME PoolOK, NEW t \in Threads, Mark(t), UNCHANGED does,
           allocatedSpace \in Nat
    PROVE  PoolOK'
<1>1. PICK b, own : Good(does, b, own, mem, call, live)
  BY DEF PoolOK
<1> DEFINE c == call[t]
           i == call[t].i
           size == call[t].size
           m2 == mem'
           c2 == [c EXCEPT !.pc = "credit", !.tmp = allocatedSpace]
<1>2. /\ c.pc = "mark" /\ m2 = [mem EXCEPT ![i] = size]
      /\ call' = [call EXCEPT ![t] = c2] /\ UNCHANGED live
  BY DEF Mark, At, Goto
<1>3. /\ c \in Calls /\ CallOK(t, c, b, own, does) /\ Shape(b)
      /\ mem \in Memories /\ own \in [DOMAIN b -> Owners] /\ live \subseteq Blocks
      /\ c.i = i /\ c.size = size
  BY <1>1, GoodParts
<1>4. i \in DOMAIN b /\ own[i] = NewOf(t) /\ FieldsOK(c, does[t]) /\ ~c.got
  BY <1>2, <1>3 DEF CallOK, HasNew, FieldsOK
<1>5. NewOK(i, b[i], mem, c)
  BY <1>1, <1>4, HasThese
<1>6. /\ c2 \in Calls /\ c2.pc = "credit" /\ c2.i = i /\ c2.n = c.n
      /\ c2.size = size /\ c2.old = c.old /\ c2.got = c.got
  BY <1>3 DEF Calls, Steps
<1> HIDE DEF c, i, size, m2, c2
<1>7. /\ c.n \in Requests /\ c.n # 0 /\ RealAllocation(c.n) <= size
      /\ Proper(b[i], size) /\ RestOK(i, size, b[i], mem)
  BY <1>2, <1>3, <1>5 DEF NewOK, RestOK, FreeOK
<1>8. /\ i \in Nat /\ b[i] \in Nat /\ i + b[i] <= PoolSize /\ i \in Words
      /\ size \in Nat /\ 2 * W <= size /\ size <= b[i] /\ W \in Nat /\ W > 0
      /\ PoolSize \in Nat
  BY <1>3, <1>4, <1>7, BlockBounds, ThreadsAssumption DEF Proper
<1>9. m2 \in Memories /\ m2[i] = size /\ \A v \in Words \ {i} : m2[v] = mem[v]
  BY <1>2, <1>3, <1>8 DEF Memories
<1>10. SameOutside(i, b[i], mem, m2)
  BY <1>8, <1>9 DEF SameOutside
<1>11. RestOK(i, size, b[i], m2)
  <2> SUFFICES ASSUME size # b[i] PROVE FreeOK(i + size, b[i] - size, m2)
    BY DEF RestOK
  <2>1. /\ i + size \in Words /\ i + size + W \in Words
        /\ i + size > i /\ i + size + W > i
    BY <1>3, <1>4, <1>7, RestWords
  <2>2. FreeOK(i + size, b[i] - size, mem)
    BY <1>7 DEF RestOK
  <2>3. i + size # i /\ i + size + W # i
    BY <1>8, <2>1
  <2> QED BY <1>9, <2>1, <2>2, <2>3 DEF FreeOK
<1>12. NewOK(i, size, m2, c2)
  BY <1>6, <1>7, <1>9 DEF NewOK, HasNew
<1>13. BlockOK(i, size, NewOf(t), m2, [call EXCEPT ![t] = c2], live)
  <2>1. [call EXCEPT ![t] = c2][t] = c2
    BY <1>1, GoodParts
  <2> QED BY <1>12, <2>1, NewIs
<1>14. CallOK(t, c2, SplitAt(b, i, size), Given(b, own, i, size, NewOf(t)), does)
  <2> DEFINE s == SplitAt(b, i, size)
             g == Given(b, own, i, size, NewOf(t))
  <2>1. /\ DOMAIN b \subseteq DOMAIN s /\ g[i] = NewOf(t)
        /\ \A p \in DOMAIN b \ {i} : g[p] = own[p]
    <3> HIDE DEF s, g
    <3>1. s = SplitAt(b, i, size) /\ g = Given(b, own, i, size, NewOf(t))
      BY DEF s, g
    <3> QED BY <1>3, <1>4, <1>7, <3>1, GivenFields
  <2> HIDE DEF s, g
  <2>2. FieldsOK(c2, does[t])
    BY <1>2, <1>4, <1>6 DEF FieldsOK
  <2>3. HasOld(c2) => c2.old.start \in DOMAIN s /\ g[c2.old.start] = OldOf(t)
    <3>1. HasOld(c2) => HasOld(c)
      BY <1>2, <1>6 DEF HasOld
    <3>2. HasOld(c) => c.old.start \in DOMAIN b /\ own[c.old.start] = OldOf(t)
      BY <1>3 DEF CallOK
    <3> QED BY <1>4, <1>6, <2>1, <3>1, <3>2, OwnersDiffer
  <2>4. CallOK(t, c2, s, g, does)
    BY <1>4, <1>6, <2>1, <2>2, <2>3 DEF CallOK
  <2> QED BY <2>4 DEF s, g
<1>15. \A p \in DOMAIN b \ {i} : TheOther(p, b[p], own[p], t, mem, c2)
  <2> SUFFICES ASSUME NEW p \in DOMAIN b \ {i} PROVE TheOther(p, b[p], own[p], t, mem, c2)
    OBVIOUS
  <2>1. /\ own[p] = OldOf(t) => OldOK(p, b[p], mem, c)
        /\ own[p] = NewOf(t) => p = i
    BY <1>1, HasThese DEF c, i
  <2>2. OldOK(p, b[p], mem, c) => OldOK(p, b[p], mem, c2)
    BY <1>2, <1>6 DEF OldOK, HasOld, Returnable
  <2> QED BY <2>1, <2>2 DEF TheOther
<1>16. ClientsOK(i, NewOf(t), live, live)
  BY <1>1, <1>4, GoodParts, OwnersDiffer DEF ClientsOK
<1>17. /\ does[t] # {} /\ Yields(own[i], t) /\ Undisturbed(own[i], t, call)
       /\ NewOf(t) \in Owners
  BY <1>2, <1>4, OwnersHave, OwnersDiffer DEF FieldsOK, Yields, Undisturbed
<1>18. Good(does, SplitAt(b, i, size), Given(b, own, i, size, NewOf(t)), m2,
            [call EXCEPT ![t] = c2], live)
  BY <1>1, <1>3, <1>4, <1>6, <1>7, <1>9, <1>10, <1>11, <1>13, <1>14, <1>15, <1>16, <1>17,
     BlockStep
<1> QED BY <1>2, <1>18 DEF PoolOK, m2

(***************************************************************************)
(* A call returns the block at o, of length size, to the client, who       *)
(* stores in it.                                                           *)
(***************************************************************************)
LEMMA Idles == Idle \in Calls /\ Idle.pc = "idle" /\ ~Idle.got /\ Idle.old = NoBlock
BY ThreadsAssumption DEF Idle, Calls, Steps, Looks, NoBlock, Blocks

LEMMA HandOut ==
    ASSUME NEW b, NEW own, Good(does, b, own, mem, call, live),
           NEW t \in Threads, does[t] # {},
           NEW o \in DOMAIN b, NEW size, Proper(b[o], size), Yields(own[o], t),
           own[o] # FreeOne, \A p \in DOMAIN b \ {o} : own[p] # OldOf(t) /\ own[p] # NewOf(t),
           NEW x \in Blocks, Whole(x, o, size),
           NEW m1 \in Memories, SameOutside(o, b[o], mem, m1), m1[o] = size,
           RestOK(o, size, b[o], m1),
           NEW l2 \in SUBSET Blocks, x \in l2, ClientsOK(o, LiveBy(x), live, l2)
    PROVE  \E b2, own2 : 
              Good(does, b2, own2, Stored(x, m1), [call EXCEPT ![t] = Idle], l2)
<1> DEFINE m2 == Stored(x, m1)
<1>1. /\ Shape(b) /\ own \in [DOMAIN b -> Owners] /\ call \in [Threads -> Calls]
  BY GoodParts
<1>2. /\ o \in Nat /\ b[o] \in Nat /\ o + b[o] <= PoolSize /\ o \in Words
      /\ size \in Nat /\ 2 * W <= size /\ size <= b[o] /\ W \in Nat /\ W > 0
      /\ PoolSize \in Nat
  BY <1>1, BlockBounds, ThreadsAssumption DEF Proper
<1>3. x.start = o /\ x.fill <= o + size /\ x.fill \in Nat
  BY DEF Whole, Blocks
<1>4. DOMAIN m1 = Words /\ \A v \in Words : v \in Nat
  BY WordsAre DEF Memories
<1>5. m2 \in Memories /\ \A v \in Words : 
         m2[v] = IF o + W <= v /\ v < x.fill THEN Data ELSE m1[v]
  BY <1>3, <1>4 DEF Stored, Memories
<1> HIDE DEF m2
<1>6. SameOutside(o, b[o], mem, m2)
  <2> SUFFICES ASSUME NEW v \in Words, v < o \/ o + b[o] <= v PROVE m2[v] = mem[v]
    BY DEF SameOutside
  <2>1. ~(o + W <= v /\ v < x.fill)
    BY <1>2, <1>3, <1>4
  <2> QED BY <1>5, <2>1 DEF SameOutside
<1>7. m2[o] = size
  BY <1>2, <1>5
<1>8. RestOK(o, size, b[o], m2)
  <2> SUFFICES ASSUME size # b[o] PROVE FreeOK(o + size, b[o] - size, m2)
    BY DEF RestOK
  <2>1. o + size \in Words /\ o + size + W \in Words
    BY <1>1, RestWords
  <2>2. ~(o + size < x.fill) /\ ~(o + size + W < x.fill)
    BY <1>2, <1>3
  <2>3. FreeOK(o + size, b[o] - size, m1)
    BY DEF RestOK
  <2> QED BY <1>5, <2>1, <2>2, <2>3 DEF FreeOK
<1>9. Filled(m2, x)
  BY <1>3, <1>5 DEF Filled
<1>10. BlockOK(o, size, LiveBy(x), m2, [call EXCEPT ![t] = Idle], l2)
  BY <1>7, <1>9, LiveIs DEF LiveOK
<1>11. \A p \in DOMAIN b \ {o} : TheOther(p, b[p], own[p], t, mem, Idle)
  BY DEF TheOther
<1>12. CallOK(t, Idle, SplitAt(b, o, size), Given(b, own, o, size, LiveBy(x)), does)
  BY Idles DEF CallOK, FieldsOK, HasOld, HasNew
<1>13. Idle \in Calls /\ LiveBy(x) \in Owners /\ Undisturbed(own[o], t, call)
  BY Idles, OwnersHave DEF Undisturbed
<1>14. Good(does, SplitAt(b, o, size), Given(b, own, o, size, LiveBy(x)), m2,
            [call EXCEPT ![t] = Idle], l2)
  BY <1>5, <1>6, <1>8, <1>10, <1>11, <1>12, <1>13, BlockStep
<1> QED BY <1>14 DEF m2

\* A block that is not a client's is at the start of no client's block.
LEMMA NoClientHere ==
    ASSUME NEW b, NEW own, Good(does, b, own, mem, call, live),
           NEW o, \A y : own[o] # LiveBy(y)
    PROVE  \A y \in live : y.start # o
<1> SUFFICES ASSUME NEW y \in live, y.start = o PROVE FALSE
  OBVIOUS
<1>1. own[y.start] = LiveBy(y)
  BY DEF Good
<1> QED BY <1>1

LEMMA NewBlockFits ==
    ASSUME NEW b, NEW own, Good(does, b, own, mem, call, live), Regular,
           NEW t \in Threads, HasNew(call[t]), call[t].pc # "mark"
    PROVE  /\ call[t].i \in DOMAIN b /\ own[call[t].i] = NewOf(t)
           /\ mem[call[t].i] = b[call[t].i]
           /\ NewBlock(t) \in Blocks /\ NewBlock(t).start = call[t].i
           /\ Whole(NewBlock(t), call[t].i, b[call[t].i])
<1> DEFINE c == call[t]
           i == call[t].i
           x == NewBlock(t)
<1>1. /\ Shape(b) /\ i \in DOMAIN b /\ own[i] = NewOf(t)
  BY GoodParts DEF CallOK
<1>2. NewOK(i, b[i], mem, c)
  BY <1>1, HasThese
<1>3. /\ mem[i] = b[i] /\ c.size = b[i]
      /\ c.n \in Requests /\ c.n # 0 /\ RealAllocation(c.n) <= b[i]
  BY <1>2 DEF NewOK
<1>4. c.n \in Nat /\ RealAllocation(c.n) \in Nat
  BY <1>3, RequestFits
<1>5. i \in Nat /\ b[i] \in Nat
  BY <1>1, BlockBounds
<1>6. x = [start |-> i, end |-> i + c.size, fill |-> FillEnd(i, c.n)]
  BY DEF NewBlock
<1> HIDE DEF c, i, x
<1>7. Larger(1, c.n) = c.n
  BY <1>3, <1>4 DEF Larger
<1>8. FillEnd(i, c.n) = i + RealAllocation(c.n)
  BY <1>7 DEF FillEnd
<1>9. x \in Blocks /\ x.start = i /\ x.end = i + b[i] /\ x.fill = i + RealAllocation(c.n)
  BY <1>3, <1>4, <1>5, <1>6, <1>8 DEF Blocks
<1>10. Whole(x, i, b[i])
  BY <1>3, <1>4, <1>5, <1>9 DEF Whole
<1> QED BY <1>1, <1>3, <1>9, <1>10 DEF c, i, x

\* The call of thread t ends and hands its new block to the client.
LEMMA NewHandOut ==
    ASSUME NEW b, NEW own, Good(does, b, own, mem, call, live), Regular,
           NEW t \in Threads, ~At(t, "idle"), HasNew(call[t]), call[t].pc # "mark", 
           ~HasOld(call[t])
    PROVE  \E b2, own2 : Good(does, b2, own2, Stored(NewBlock(t), mem), 
                              [call EXCEPT ![t] = Idle], live \cup {NewBlock(t)})
<1> DEFINE o == call[t].i
           x == NewBlock(t)
<1>1. /\ o \in DOMAIN b /\ own[o] = NewOf(t) /\ mem[o] = b[o]
      /\ x \in Blocks /\ x.start = o /\ Whole(x, o, b[o])
  BY NewBlockFits
<1>2. \A p \in DOMAIN b \ {o} : own[p] # OldOf(t) /\ own[p] # NewOf(t)
  BY HasThese DEF OldOK
<1>3. Shape(b) /\ mem \in Memories /\ live \subseteq Blocks /\ does[t] # {}
  BY GoodParts DEF CallOK, FieldsOK, At
<1> HIDE DEF o, x
<1>4. Proper(b[o], b[o]) /\ Yields(own[o], t) /\ SameOutside(o, b[o], mem, mem)
      /\ RestOK(o, b[o], b[o], mem) /\ own[o] # FreeOne
  BY <1>1, <1>3, WholeIsProper, OwnersDiffer DEF Yields, SameOutside, RestOK
<1>5. ClientsOK(o, LiveBy(x), live, live \cup {x})
  <2>1. \A y \in live : y.start # o
    BY <1>1, NoClientHere, OwnersDiffer
  <2> QED BY <1>1, <2>1 DEF ClientsOK
<1>6. live \cup {x} \in SUBSET Blocks
  BY <1>1, <1>3
<1> DEFINE size == b[o]
           l2 == live \cup {x}
<1>7. /\ Proper(b[o], size) /\ Whole(x, o, size) /\ mem[o] = size
      /\ RestOK(o, size, b[o], mem)
      /\ l2 \in SUBSET Blocks /\ x \in l2 /\ ClientsOK(o, LiveBy(x), live, l2)
  BY <1>1, <1>4, <1>5, <1>6
<1> HIDE DEF size, l2
<1>8. \E b2, own2 : Good(does, b2, own2, Stored(x, mem), [call EXCEPT ![t] = Idle], l2)
  BY <1>1, <1>2, <1>3, <1>4, <1>7, HandOut
<1> QED BY <1>8 DEF x, l2

LEMMA LeaveAllocateKeeps ==
    ASSUME PoolOK, Regular, NEW t \in Threads, LeaveAllocate(t), UNCHANGED does
    PROVE  PoolOK'
<1>1. PICK b, own : Good(does, b, own, mem, call, live)
  BY DEF PoolOK
<1> DEFINE c == call[t]
<1>2. c.pc = "leave"
  BY DEF LeaveAllocate, At
<1>3. /\ c \in Calls /\ CallOK(t, c, b, own, does) /\ Shape(b)
      /\ mem \in Memories /\ own \in [DOMAIN b -> Owners] /\ live \subseteq Blocks
      /\ call \in [Threads -> Calls]
  BY <1>1, GoodParts
<1>4. does[t] # {} /\ ~At(t, "idle")
  BY <1>2, <1>3 DEF CallOK, FieldsOK, At
<1>5. CASE /\ c.got /\ c.old = NoBlock
           /\ mem' = Stored(NewBlock(t), mem)
           /\ live' = live \cup {NewBlock(t)}
           /\ call' = [call EXCEPT ![t] = Idle]
  <2>1. HasNew(c) /\ ~HasOld(c)
    BY <1>5 DEF HasNew, HasOld
  <2>2. \E b2, own2 : Good(does, b2, own2, Stored(NewBlock(t), mem), 
                           [call EXCEPT ![t] = Idle], live \cup {NewBlock(t)})
    BY <1>1, <1>2, <1>4, <2>1, NewHandOut
  <2> QED BY <1>5, <2>2 DEF PoolOK
<1>6. CASE /\ c.got /\ c.old # NoBlock
           /\ call' = [call EXCEPT ![t] = [c EXCEPT !.pc = "copy"]]
           /\ UNCHANGED <<mem, live>>
  <2> DEFINE c2 == [c EXCEPT !.pc = "copy"]
  <2>1. /\ c2 \in Calls /\ c2.pc = "copy" /\ c2.i = c.i /\ c2.n = c.n
        /\ c2.size = c.size /\ c2.tmp = c.tmp /\ c2.old = c.old /\ c2.got = c.got
    BY <1>3 DEF Calls, Steps
  <2>2. call' = [call EXCEPT ![t] = c2]
    BY <1>6
  <2> HIDE DEF c2, c
  <2>3. CallOK(t, c2, b, own, does)
    <3>1. FieldsOK(c2, does[t])
      BY <1>4, <1>6, <2>1 DEF FieldsOK
    <3>2. HasNew(c) /\ (HasOld(c2) <=> HasOld(c))
      BY <1>2, <1>6, <2>1 DEF HasOld, HasNew
    <3> QED BY <1>3, <2>1, <3>1, <3>2 DEF CallOK
  <2>4. \A p \in DOMAIN b : /\ OldOK(p, b[p], mem, c) => OldOK(p, b[p], mem, c2)
                            /\ NewOK(p, b[p], mem, c) => NewOK(p, b[p], mem, c2)
    BY <1>2, <1>6, <2>1 DEF OldOK, NewOK, HasOld, HasNew, Returnable
  <2>5. Good(does, b, own, mem, call', live)
    BY <1>1, <1>4, <2>1, <2>2, <2>3, <2>4, SameBlocks DEF c
  <2> QED BY <1>6, <2>5 DEF PoolOK
<1>7. CASE /\ ~c.got
           /\ live' = live \cup ({c.old} \ {NoBlock})
           /\ call' = [call EXCEPT ![t] = Idle]
           /\ UNCHANGED mem
  <2>1. ~HasNew(c)
    BY <1>2, <1>7 DEF HasNew
  <2>2. CASE c.old = NoBlock
    <3>1. live' = live /\ ~HasOld(c)
      BY <1>7, <2>2 DEF HasOld
    <3>2. \A p \in DOMAIN b : TheOther(p, b[p], own[p], t, mem, Idle)
      BY <1>1, <2>1, <3>1, HasThese DEF TheOther, OldOK, NewOK
    <3>3. CallOK(t, Idle, b, own, does)
      BY Idles DEF CallOK, FieldsOK, HasOld, HasNew
    <3>4. Good(does, b, own, mem, [call EXCEPT ![t] = Idle], live)
      BY <1>1, <1>4, <3>2, <3>3, CallStep, Idles
    <3> QED BY <1>7, <3>1, <3>4 DEF PoolOK
  <2>3. CASE c.old # NoBlock
    <3> DEFINE x == c.old
               o == c.old.start
               own2 == [own EXCEPT ![o] = LiveBy(x)]
    <3>1. live' = live \cup {x} /\ HasOld(c) /\ x \in Blocks
      BY <1>2, <1>3, <1>7, <2>3 DEF HasOld, Calls
    <3>2. o \in DOMAIN b /\ own[o] = OldOf(t)
      BY <1>3, <3>1 DEF CallOK
    <3>3. OldOK(o, b[o], mem, c)
      BY <1>1, <3>2, HasThese
    <3>4. Whole(x, o, b[o]) /\ Filled(mem, x) /\ mem[o] = b[o]
      BY <1>2, <3>3 DEF OldOK, Returnable
    <3>5. x.start = o
      OBVIOUS
    <3>6. \A p \in DOMAIN b \ {o} : TheOther(p, b[p], own[p], t, mem, Idle)
      BY <1>1, <2>1, HasThese DEF TheOther, NewOK
    <3> HIDE DEF c, x, o
    <3>7. ClientsOK(o, LiveBy(x), live, live \cup {x})
      <4>1. \A y \in live : y.start # o
        BY <1>1, <3>2, NoClientHere, OwnersDiffer
      <4> QED BY <3>5, <4>1 DEF ClientsOK
    <3>8. BlockOK(o, b[o], LiveBy(x), mem, [call EXCEPT ![t] = Idle], live \cup {x})
      BY <3>4, LiveIs DEF LiveOK
    <3>9. /\ Yields(own[o], t) /\ LiveBy(x) \in Owners /\ SameOutside(o, b[o], mem, mem)
          /\ live \cup {x} \in SUBSET Blocks /\ Undisturbed(own[o], t, call)
      BY <1>3, <3>1, <3>2, OwnersHave, OwnersDiffer DEF Yields, SameOutside, Undisturbed
    <3>10. CallOK(t, Idle, b, own2, does)
      BY Idles DEF CallOK, FieldsOK, HasOld, HasNew
    <3> DEFINE l2 == live \cup {x}
    <3>11. /\ ClientsOK(o, LiveBy(x), live, l2) /\ l2 \in SUBSET Blocks
           /\ BlockOK(o, b[o], LiveBy(x), mem, [call EXCEPT ![t] = Idle], l2)
           /\ own2 = [own EXCEPT ![o] = LiveBy(x)]
      BY <3>7, <3>8, <3>9
    <3> HIDE DEF l2, own2
    <3>12. Good(does, b, own2, mem, [call EXCEPT ![t] = Idle], l2)
      BY <1>1, <1>3, <1>4, <3>2, <3>6, <3>9, <3>10, <3>11, WholeStep, Idles
    <3> QED BY <1>7, <3>1, <3>12 DEF PoolOK, l2
  <2> QED BY <2>2, <2>3
<1> QED BY <1>5, <1>6, <1>7 DEF LeaveAllocate, Goto
-----------------------------------------------------------------------------
(***************************************************************************)
(* A client gives up its block x to a call of thread t.                    *)
(***************************************************************************)
LEMMA TakeBlock ==
    ASSUME NEW b, NEW own, Good(does, b, own, mem, call, live),
           NEW t \in Threads, At(t, "idle"), does[t] # {}, NEW x \in live,
           NEW m2 \in Memories, SameOutside(x.start, b[x.start], mem, m2),
           NEW c2 \in Calls, c2.old = x, ~c2.got, c2.pc \in {"pattern", "cut", "walk"}, c2.look = "size",
           OldOK(x.start, b[x.start], m2, c2), FieldsOK(c2, does[t]), c2.i = 0
    PROVE  \E own2 : Good(does, b, own2, m2, [call EXCEPT ![t] = c2], live \ {x})
<1> DEFINE o == x.start
           own2 == [own EXCEPT ![o] = OldOf(t)]
           l2 == live \ {x}
<1>1. /\ Shape(b) /\ own \in [DOMAIN b -> Owners] /\ live \subseteq Blocks
      /\ call \in [Threads -> Calls]
      /\ o \in DOMAIN b /\ own[o] = LiveBy(x) /\ x \in Blocks
      /\ \A y \in live : own[y.start] = LiveBy(y)
  BY GoodParts
<1>2. own2[o] = OldOf(t) /\ \A p \in DOMAIN b \ {o} : own2[p] = own[p]
  BY <1>1
<1>3. \A p \in DOMAIN b \ {o} : TheOther(p, b[p], own[p], t, mem, c2)
  BY IdleHasNone
<1>4. 0 \in DOMAIN b /\ \A p \in DOMAIN b : ~(p < 0)
  BY <1>1 DEF Shape
<1>5. BlockOK(o, b[o], OldOf(t), m2, [call EXCEPT ![t] = c2], l2)
  <2>1. [call EXCEPT ![t] = c2][t] = c2
    BY <1>1
  <2> QED BY <2>1, OldIs
<1>6. /\ Yields(own[o], t) /\ Undisturbed(own[o], t, call)
      /\ OldOf(t) \in Owners /\ l2 \in SUBSET Blocks
  BY <1>1, OwnersHave, OwnersDiffer DEF Yields, Undisturbed
<1>7. own2 = [own EXCEPT ![o] = OldOf(t)] /\ SameOutside(o, b[o], mem, m2)
  OBVIOUS
<1>8. ClientsOK(o, OldOf(t), live, l2)
  <2>1. \A y \in live : y.start = o => y = x
    BY <1>1, OwnersDiffer
  <2>2. \A y \in l2 : y \in live /\ y.start # o
    BY <2>1
  <2>3. \A y \in live : y.start # o => y \in l2
    OBVIOUS
  <2> QED BY <2>2, <2>3 DEF ClientsOK
<1> HIDE DEF o, own2, l2
<1>9. CallOK(t, c2, b, own2, does)
  <2>1. c2.old.start \in DOMAIN b /\ own2[c2.old.start] = OldOf(t)
    BY <1>1, <1>2 DEF o
  <2>2. ~HasNew(c2) /\ c2.pc # "mark"
    BY DEF HasNew
  <2>3. Passed(c2.i, RealAllocation(c2.n), b, own2) /\ Standing(t, c2, b, own2, does)
    BY <1>4 DEF Passed, Standing
  <2> QED BY <1>4, <2>1, <2>2, <2>3 DEF CallOK
<1>10. Good(does, b, own2, m2, [call EXCEPT ![t] = c2], l2)
  BY <1>1, <1>3, <1>5, <1>6, <1>7, <1>8, <1>9, WholeStep
<1> QED BY <1>10 DEF l2

LEMMA CallDeallocateKeeps ==
    ASSUME PoolOK, NEW t \in Threads, NEW x \in live, CallDeallocate(t, x), 
           UNCHANGED does
    PROVE  PoolOK'
<1>1. PICK b, own : Good(does, b, own, mem, call, live)
  BY DEF PoolOK
<1> DEFINE c2 == [Idle EXCEPT !.pc = "pattern", !.old = x]
<1>2. /\ At(t, "idle") /\ "deallocate" \in does[t] /\ live' = live \ {x}
      /\ call' = [call EXCEPT ![t] = c2] /\ UNCHANGED mem
  BY DEF CallDeallocate, Goto
<1>3. /\ Shape(b) /\ mem \in Memories /\ x \in Blocks
      /\ x.start \in DOMAIN b /\ own[x.start] = LiveBy(x)
      /\ BlockOK(x.start, b[x.start], own[x.start], mem, call, live)
  BY <1>1, GoodParts
<1>4. /\ c2 \in Calls /\ c2.pc = "pattern" /\ c2.old = x /\ ~c2.got /\ c2.i = 0 /\ c2.look = "size"
  BY <1>3, ThreadsAssumption DEF Idle, Calls, Steps, Looks
<1> HIDE DEF c2
<1>5. mem[x.start] = b[x.start]
  BY <1>3 DEF BlockOK, LiveOK
<1>6. x # NoBlock
  <2>1. x.start < PoolSize
    BY <1>3, ThreadsAssumption DEF Shape
  <2> QED BY <2>1, ThreadsAssumption DEF NoBlock
<1>7. OldOK(x.start, b[x.start], mem, c2) /\ FieldsOK(c2, does[t]) /\ does[t] # {}
  BY <1>2, <1>4, <1>5, <1>6 DEF OldOK, HasOld, Returnable, FieldsOK
<1>8. SameOutside(x.start, b[x.start], mem, mem)
  BY DEF SameOutside
<1>9. \E own2 : Good(does, b, own2, mem, [call EXCEPT ![t] = c2], live \ {x})
  BY <1>1, <1>2, <1>3, <1>4, <1>7, <1>8, TakeBlock
<1> QED BY <1>2, <1>9 DEF PoolOK

(***************************************************************************)
(* The steps of deallocate() on the block of the call, until it is free.   *)
(***************************************************************************)
LEMMA WorkOnOld ==
    ASSUME NEW b, NEW own, Good(does, b, own, mem, call, live),
           NEW t \in Threads, call[t].pc \in {"copy", "pattern", "space", "debit", "free"},
           NEW o, o = call[t].old.start,
           NEW m2 \in Memories, SameOutside(o, b[o], mem, m2),
           NEW c2 \in Calls, c2.pc \in {"pattern", "space", "debit", "free", "quit"},
           c2.i = call[t].i, c2.n = call[t].n, c2.size = call[t].size,
           c2.old = call[t].old, c2.got = call[t].got,
           c2.pc = "quit" => FreeOK(o, b[o], m2),
           c2.pc # "quit" => OldOK(o, b[o], m2, c2)
    PROVE  \E own2 : Good(does, b, own2, m2, [call EXCEPT ![t] = c2], live)
<1> DEFINE who == IF c2.pc = "quit" THEN FreeOne ELSE OldOf(t)
           own2 == [own EXCEPT ![o] = who]
           c == call[t]
<1>1. /\ Shape(b) /\ own \in [DOMAIN b -> Owners] /\ live \subseteq Blocks
      /\ call \in [Threads -> Calls] /\ CallOK(t, c, b, own, does)
  BY GoodParts
<1>2. FieldsOK(c, does[t]) /\ does[t] # {} /\ c.old # NoBlock
  BY <1>1 DEF CallOK, FieldsOK
<1>3. o \in DOMAIN b /\ own[o] = OldOf(t)
  BY <1>1, <1>2 DEF CallOK, HasOld
<1>4. own2[o] = who /\ \A p \in DOMAIN b \ {o} : own2[p] = own[p]
  BY <1>1, <1>3
<1>5. \A p \in DOMAIN b \ {o} : TheOther(p, b[p], own[p], t, mem, c2)
  <2> SUFFICES ASSUME NEW p \in DOMAIN b \ {o} PROVE TheOther(p, b[p], own[p], t, mem, c2)
    OBVIOUS
  <2>1. own[p] # OldOf(t)
    BY HasThese
  <2>2. own[p] = NewOf(t) => NewOK(p, b[p], mem, c)
    BY HasThese
  <2>3. NewOK(p, b[p], mem, c) => NewOK(p, b[p], mem, c2)
    BY DEF NewOK, HasNew
  <2> QED BY <2>1, <2>2, <2>3 DEF TheOther
<1>6. BlockOK(o, b[o], who, m2, [call EXCEPT ![t] = c2], live)
  <2>1. [call EXCEPT ![t] = c2][t] = c2
    BY <1>1
  <2>2. CASE c2.pc = "quit"
    BY <2>2, FreeIs
  <2>3. CASE c2.pc # "quit"
    BY <2>1, <2>3, OldIs
  <2> QED BY <2>2, <2>3
<1>7. Yields(own[o], t) /\ Undisturbed(own[o], t, call) /\ who \in Owners
  BY <1>3, OwnersHave, OwnersDiffer DEF Yields, Undisturbed
<1>8. ClientsOK(o, who, live, live)
  <2>1. \A y \in live : y.start # o
    BY <1>3, NoClientHere, OwnersDiffer
  <2> QED BY <2>1 DEF ClientsOK
<1>9. CallOK(t, c2, b, own2, does)
  <2>1. FieldsOK(c2, does[t])
    BY <1>2 DEF FieldsOK
  <2>2. HasOld(c2) => c2.old.start \in DOMAIN b /\ own2[c2.old.start] = OldOf(t)
    BY <1>3, <1>4 DEF HasOld
  <2>3. HasNew(c2) => HasNew(c)
    BY DEF HasNew
  <2>4. HasNew(c) => c.i \in DOMAIN b /\ own[c.i] = NewOf(t)
    BY <1>1 DEF CallOK
  <2>5. HasNew(c2) => c2.i \in DOMAIN b /\ own2[c2.i] = NewOf(t)
    BY <1>3, <1>4, <2>3, <2>4, OwnersDiffer
  <2> QED BY <2>1, <2>2, <2>5 DEF CallOK
<1>10. own2 = [own EXCEPT ![o] = who] /\ live \in SUBSET Blocks
  BY <1>1
<1> HIDE DEF own2, who, c
<1>11. Good(does, b, own2, m2, [call EXCEPT ![t] = c2], live)
  BY <1>1, <1>2, <1>3, <1>5, <1>6, <1>7, <1>8, <1>9, <1>10, WholeStep
<1> QED BY <1>11

LEMMA OldHere ==
    ASSUME NEW b, NEW own, Good(does, b, own, mem, call, live),
           NEW t \in Threads, call[t].pc \in {"copy", "pattern", "space", "debit", "free"},
           NEW o, o = call[t].old.start
    PROVE  /\ Shape(b) /\ mem \in Memories /\ call[t] \in Calls
           /\ o \in DOMAIN b /\ OldOK(o, b[o], mem, call[t]) /\ mem[o] = b[o]
           /\ o \in Nat /\ b[o] \in Nat /\ 2 * W <= b[o] /\ o + b[o] <= PoolSize
           /\ o \in Words /\ o + W \in Words
<1>1. /\ Shape(b) /\ mem \in Memories /\ call[t] \in Calls
      /\ CallOK(t, call[t], b, own, does)
  BY GoodParts
<1>2. o \in DOMAIN b /\ own[o] = OldOf(t)
  BY <1>1 DEF CallOK, FieldsOK, HasOld
<1>3. OldOK(o, b[o], mem, call[t])
  BY <1>2, HasThese
<1>4. mem[o] = b[o]
  BY <1>3 DEF OldOK
<1> QED BY <1>1, <1>2, <1>3, <1>4, BlockBounds

LEMMA FillPatternKeeps ==
    ASSUME PoolOK, NEW t \in Threads, FillPattern(t), UNCHANGED does
    PROVE  PoolOK'
<1>1. PICK b, own : Good(does, b, own, mem, call, live)
  BY DEF PoolOK
<1> DEFINE o == call[t].old.start
           end == o + mem[o]
           m2 == [w \in DOMAIN mem |->
                     IF (o + 2 * W <= w /\ w < end) \/ w = end - W
                     THEN Pattern ELSE mem[w]]
           c2 == [call[t] EXCEPT !.pc = "space"]
<1>2. /\ call[t].pc = "pattern" /\ mem' = m2
      /\ call' = [call EXCEPT ![t] = c2] /\ UNCHANGED live
  BY DEF FillPattern, At, Goto
<1>3. /\ mem \in Memories /\ call[t] \in Calls
      /\ OldOK(o, b[o], mem, call[t]) /\ mem[o] = b[o]
      /\ o \in Nat /\ b[o] \in Nat /\ 2 * W <= b[o] /\ o + b[o] <= PoolSize
      /\ o \in Words
  BY <1>1, <1>2, OldHere
<1>4. /\ c2 \in Calls /\ c2.pc = "space" /\ c2.i = call[t].i /\ c2.n = call[t].n
      /\ c2.size = call[t].size /\ c2.old = call[t].old /\ c2.got = call[t].got
  BY <1>3 DEF Calls, Steps
<1>5. /\ m2 \in Memories
      /\ \A w \in Words : m2[w] = IF (o + 2 * W <= w /\ w < end) \/ w = end - W
                                  THEN Pattern ELSE mem[w]
  BY <1>3 DEF Memories
<1>6. end = o + b[o] /\ W \in Nat /\ W > 0
  BY <1>3, ThreadsAssumption
<1> HIDE DEF m2, end, c2
<1>7. SameOutside(o, b[o], mem, m2)
  <2> SUFFICES ASSUME NEW v \in Words, v < o \/ o + b[o] <= v PROVE m2[v] = mem[v]
    BY DEF SameOutside
  <2>1. v \in Nat
    BY WordsAre
  <2>2. ~((o + 2 * W <= v /\ v < end) \/ v = end - W)
    BY <1>3, <1>6, <2>1
  <2> QED BY <1>5, <2>2
<1>8. m2[o] = b[o]
  <2>1. ~((o + 2 * W <= o /\ o < end) \/ o = end - W)
    BY <1>3, <1>6
  <2> QED BY <1>3, <1>5, <2>1
<1>9. OldOK(o, b[o], m2, c2)
  BY <1>2, <1>3, <1>4, <1>8 DEF OldOK, HasOld, Returnable
<1> HIDE DEF o
<1>10. \E own2 : Good(does, b, own2, m2, [call EXCEPT ![t] = c2], live)
  <2>1. o = call[t].old.start
    BY DEF o
  <2> QED BY <1>1, <1>2, <1>4, <1>5, <1>7, <1>9, <2>1, WorkOnOld
<1> QED BY <1>2, <1>10 DEF PoolOK

LEMMA SpaceKeeps ==
    ASSUME PoolOK, NEW t \in Threads, Space(t), UNCHANGED does,
           allocatedSpace \in Nat
    PROVE  PoolOK'
<1>1. PICK b, own : Good(does, b, own, mem, call, live)
  BY DEF PoolOK
<1> DEFINE o == call[t].old.start
           m2 == [mem EXCEPT ![o + W] = mem[o]]
           c2 == [call[t] EXCEPT !.pc = "debit", !.tmp = allocatedSpace]
<1>2. /\ call[t].pc = "space" /\ mem' = m2
      /\ call' = [call EXCEPT ![t] = c2] /\ UNCHANGED live
  BY DEF Space, At, Goto
<1>3. /\ mem \in Memories /\ call[t] \in Calls
      /\ OldOK(o, b[o], mem, call[t]) /\ mem[o] = b[o]
      /\ o \in Nat /\ b[o] \in Nat /\ 2 * W <= b[o] /\ o + b[o] <= PoolSize
      /\ o \in Words /\ o + W \in Words
  BY <1>1, <1>2, OldHere
<1>4. /\ c2 \in Calls /\ c2.pc = "debit" /\ c2.i = call[t].i /\ c2.n = call[t].n
      /\ c2.size = call[t].size /\ c2.old = call[t].old /\ c2.got = call[t].got
  BY <1>3 DEF Calls, Steps
<1>5. W \in Nat /\ W > 0 /\ PoolSize \in Nat
  BY ThreadsAssumption
<1>6. m2 \in Memories /\ m2[o + W] = b[o] /\ \A v \in Words \ {o + W} : m2[v] = mem[v]
  BY <1>3, <1>5 DEF Memories
<1> HIDE DEF m2, c2
<1>7. SameOutside(o, b[o], mem, m2)
  <2> SUFFICES ASSUME NEW v \in Words, v < o \/ o + b[o] <= v PROVE m2[v] = mem[v]
    BY DEF SameOutside
  <2>1. v \in Nat
    BY WordsAre
  <2>2. v # o + W
    BY <1>3, <1>5, <2>1
  <2> QED BY <1>6, <2>2
<1>8. m2[o] = b[o]
  <2>1. o # o + W
    BY <1>3, <1>5
  <2> QED BY <1>3, <1>6, <2>1
<1>9. OldOK(o, b[o], m2, c2)
  BY <1>2, <1>3, <1>4, <1>6, <1>8 DEF OldOK, HasOld, Returnable
<1> HIDE DEF o
<1>10. \E own2 : Good(does, b, own2, m2, [call EXCEPT ![t] = c2], live)
  <2>1. o = call[t].old.start
    BY DEF o
  <2> QED BY <1>1, <1>2, <1>4, <1>6, <1>7, <1>9, <2>1, WorkOnOld
<1> QED BY <1>2, <1>10 DEF PoolOK

LEMMA DebitKeeps ==
    ASSUME PoolOK, NEW t \in Threads, Debit(t), UNCHANGED does
    PROVE  PoolOK'
<1>1. PICK b, own : Good(does, b, own, mem, call, live)
  BY DEF PoolOK
<1> DEFINE o == call[t].old.start
           c2 == [call[t] EXCEPT !.pc = "free"]
<1>2. /\ call[t].pc = "debit" /\ call' = [call EXCEPT ![t] = c2] 
      /\ UNCHANGED <<mem, live>>
  BY DEF Debit, At, Goto
<1>3. /\ mem \in Memories /\ call[t] \in Calls /\ OldOK(o, b[o], mem, call[t])
  BY <1>1, <1>2, OldHere
<1>4. /\ c2 \in Calls /\ c2.pc = "free" /\ c2.i = call[t].i /\ c2.n = call[t].n
      /\ c2.size = call[t].size /\ c2.old = call[t].old /\ c2.got = call[t].got
  BY <1>3 DEF Calls, Steps
<1> HIDE DEF c2
<1>5. SameOutside(o, b[o], mem, mem)
  BY DEF SameOutside
<1>6. OldOK(o, b[o], mem, c2)
  BY <1>2, <1>3, <1>4 DEF OldOK, HasOld, Returnable
<1> HIDE DEF o
<1>7. \E own2 : Good(does, b, own2, mem, [call EXCEPT ![t] = c2], live)
  <2>1. o = call[t].old.start
    BY DEF o
  <2> QED BY <1>1, <1>2, <1>3, <1>4, <1>5, <1>6, <2>1, WorkOnOld
<1> QED BY <1>2, <1>7 DEF PoolOK

LEMMA FreeKeeps ==
    ASSUME PoolOK, NEW t \in Threads, Free(t), UNCHANGED does
    PROVE  PoolOK'
<1>1. PICK b, own : Good(does, b, own, mem, call, live)
  BY DEF PoolOK
<1> DEFINE o == call[t].old.start
           m2 == [mem EXCEPT ![o] = 0]
           c2 == [call[t] EXCEPT !.pc = "quit"]
<1>2. /\ call[t].pc = "free" /\ mem' = m2
      /\ call' = [call EXCEPT ![t] = c2] /\ UNCHANGED live
  BY DEF Free, At, Goto
<1>3. /\ mem \in Memories /\ call[t] \in Calls
      /\ OldOK(o, b[o], mem, call[t]) /\ mem[o] = b[o]
      /\ o \in Nat /\ b[o] \in Nat /\ 2 * W <= b[o] /\ o + b[o] <= PoolSize
      /\ o \in Words /\ o + W \in Words
  BY <1>1, <1>2, OldHere
<1>4. /\ c2 \in Calls /\ c2.pc = "quit" /\ c2.i = call[t].i /\ c2.n = call[t].n
      /\ c2.size = call[t].size /\ c2.old = call[t].old /\ c2.got = call[t].got
  BY <1>3 DEF Calls, Steps
<1>5. W \in Nat /\ W > 0 /\ PoolSize \in Nat
  BY ThreadsAssumption
<1>6. m2 \in Memories /\ m2[o] = 0 /\ \A v \in Words \ {o} : m2[v] = mem[v]
  BY <1>3, <1>5 DEF Memories
<1> HIDE DEF m2, c2
<1>7. SameOutside(o, b[o], mem, m2)
  <2> SUFFICES ASSUME NEW v \in Words, v < o \/ o + b[o] <= v PROVE m2[v] = mem[v]
    BY DEF SameOutside
  <2>1. v \in Nat
    BY WordsAre
  <2>2. v # o
    BY <1>3, <1>5, <2>1
  <2> QED BY <1>6, <2>2
<1>8. FreeOK(o, b[o], m2)
  <2>1. o # o + W /\ mem[o + W] = b[o]
    BY <1>2, <1>3, <1>5 DEF OldOK
  <2> QED BY <1>3, <1>6, <2>1 DEF FreeOK
<1> HIDE DEF o
<1>9. \E own2 : Good(does, b, own2, m2, [call EXCEPT ![t] = c2], live)
  <2>1. o = call[t].old.start
    BY DEF o
  <2> QED BY <1>1, <1>2, <1>4, <1>6, <1>7, <1>8, <2>1, WorkOnOld
<1> QED BY <1>2, <1>9 DEF PoolOK

\* copy() writes over the block that is to be freed, from the new one, which
\* is no shorter.
LEMMA CopyKeeps ==
    ASSUME PoolOK, Regular, NEW t \in Threads, Copy(t), UNCHANGED does
    PROVE  PoolOK'
<1>1. PICK b, own : Good(does, b, own, mem, call, live)
  BY DEF PoolOK
<1> DEFINE o == call[t].old.start
           i == call[t].i
           n == call[t].n
           m2 == [w \in DOMAIN mem |->
                    IF o + W <= w /\ w < o + mem[o] THEN mem[w - o + i] ELSE mem[w]]
           c2 == [call[t] EXCEPT !.pc = "pattern"]
<1>2. /\ call[t].pc = "copy" /\ mem' = m2
      /\ call' = [call EXCEPT ![t] = c2] /\ UNCHANGED live
  BY DEF Copy, At, Goto
<1>3. /\ mem \in Memories /\ call[t] \in Calls /\ Shape(b) /\ o \in DOMAIN b
      /\ OldOK(o, b[o], mem, call[t]) /\ mem[o] = b[o]
      /\ o \in Nat /\ b[o] \in Nat /\ 2 * W <= b[o] /\ o + b[o] <= PoolSize
      /\ o \in Words
  BY <1>1, <1>2, OldHere
<1>4. i \in DOMAIN b /\ b[o] <= b[i]
  <2>1. CallOK(t, call[t], b, own, does) /\ call[t].got
    BY <1>1, <1>2, GoodParts DEF CallOK, FieldsOK
  <2>2. i \in DOMAIN b /\ own[i] = NewOf(t)
    BY <2>1 DEF CallOK, HasNew
  <2>3. NewOK(i, b[i], mem, call[t])
    BY <1>1, <2>2, HasThese
  <2>4. n \in Requests /\ n # 0 /\ RealAllocation(n) <= b[i]
    BY <1>2, <2>3 DEF NewOK
  <2>5. b[o] < ResizedLength(n)
    BY <1>2, <1>3 DEF OldOK
  <2>6. n \in Nat /\ n + 3 * W < SizeMod /\ b[o] % W = 0 
    BY <1>3, <2>4, BlockBounds, ThreadsAssumption DEF Regular
  <2>7. b[o] <= RealAllocation(n) /\ RealAllocation(n) \in Nat
    BY <1>3, <2>4, <2>5, <2>6, GrowthFits, RequestFits
  <2>8. b[i] \in Nat
    BY <1>3, <2>2, BlockBounds
  <2> QED BY <1>3, <2>2, <2>4, <2>7, <2>8
<1>5. /\ c2 \in Calls /\ c2.pc = "pattern" /\ c2.i = call[t].i /\ c2.n = call[t].n
      /\ c2.size = call[t].size /\ c2.old = call[t].old /\ c2.got = call[t].got
  BY <1>3 DEF Calls, Steps
<1>6. W \in Nat /\ W > 0 /\ PoolSize \in Nat
  BY ThreadsAssumption
<1> HIDE DEF c2
<1>7. ASSUME NEW w \in Words, o + W <= w, w < o + b[o]
      PROVE  w - o + i \in Words
  <2>1. w \in Nat /\ w % W = 0 /\ o % W = 0 /\ i % W = 0 /\ i \in Nat /\ b[i] \in Nat
        /\ i + b[i] <= PoolSize
    BY <1>3, <1>4, WordsAre, BlockBounds
  <2>2. o < w
    BY <1>3, <1>6, <1>7, <2>1
  <2>3. w - o \in Nat /\ (w - o) % W = 0
    BY <1>3, <2>1, <2>2, DifferenceOfMultiples
  <2>4. (w - o + i) % W = 0
    <3> DEFINE r == w - o
    <3> HIDE DEF r, i
    <3>1. r \in Nat /\ r % W = 0
      BY <2>3 DEF r
    <3>2. (r + i) % W = 0
      BY <2>1, <3>1, SumOfMultiples
    <3> QED BY <3>2 DEF r
  <2>5. w - o + i < PoolSize /\ w - o + i \in Nat
    BY <1>3, <1>4, <1>7, <2>1, <2>2, <1>6
  <2> QED BY <1>6, <2>4, <2>5, WordsAre
<1>8. /\ m2 \in Memories
      /\ \A w \in Words : m2[w] = IF o + W <= w /\ w < o + b[o] 
                                  THEN mem[w - o + i] ELSE mem[w]
  <2>1. DOMAIN mem = Words
    BY <1>3 DEF Memories
  <2>2. \A w \in Words : m2[w] = IF o + W <= w /\ w < o + b[o] 
                                 THEN mem[w - o + i] ELSE mem[w]
    BY <1>3, <2>1
  <2> HIDE DEF i, o
  <2>3. \A w \in Words : m2[w] \in 0 .. PoolSize \cup {Data, Pattern, Unset}
    BY <1>3, <1>7, <2>2 DEF Memories
  <2>4. m2 = [w \in Words |-> m2[w]]
    BY <2>1
  <2> QED BY <2>2, <2>3, <2>4 DEF Memories
<1> HIDE DEF m2, i, n
<1>9. SameOutside(o, b[o], mem, m2)
  <2> SUFFICES ASSUME NEW v \in Words, v < o \/ o + b[o] <= v PROVE m2[v] = mem[v]
    BY DEF SameOutside
  <2>1. v \in Nat
    BY WordsAre
  <2>2. ~(o + W <= v /\ v < o + b[o])
    BY <1>3, <1>6, <2>1
  <2> QED BY <1>8, <2>2
<1>10. m2[o] = b[o]
  <2>1. ~(o + W <= o)
    BY <1>3, <1>6
  <2> QED BY <1>3, <1>8, <2>1
<1>11. OldOK(o, b[o], m2, c2)
  BY <1>2, <1>3, <1>5, <1>10 DEF OldOK, HasOld, Returnable
<1> HIDE DEF o
<1>12. \E own2 : Good(does, b, own2, m2, [call EXCEPT ![t] = c2], live)
  <2>1. o = call[t].old.start
    BY DEF o
  <2> QED BY <1>1, <1>2, <1>5, <1>8, <1>9, <1>11, <2>1, WorkOnOld
<1> QED BY <1>2, <1>12 DEF PoolOK

LEMMA LeaveDeallocateKeeps ==
    ASSUME PoolOK, Regular, NEW t \in Threads, LeaveDeallocate(t), UNCHANGED does
    PROVE  PoolOK'
<1>1. PICK b, own : Good(does, b, own, mem, call, live)
  BY DEF PoolOK
<1>2. call[t].pc = "quit" /\ call' = [call EXCEPT ![t] = Idle]
  BY DEF LeaveDeallocate, At, Goto
<1>3. ~HasOld(call[t]) /\ ~At(t, "idle")
  BY <1>2 DEF HasOld, At
<1>4. CASE call[t].got
  <2>1. mem' = Stored(NewBlock(t), mem) /\ live' = live \cup {NewBlock(t)}
    BY <1>4 DEF LeaveDeallocate
  <2>2. HasNew(call[t])
    BY <1>4 DEF HasNew
  <2>3. \E b2, own2 : Good(does, b2, own2, Stored(NewBlock(t), mem), 
                           [call EXCEPT ![t] = Idle], live \cup {NewBlock(t)})
    BY <1>1, <1>2, <1>3, <2>2, NewHandOut
  <2> QED BY <1>2, <2>1, <2>3 DEF PoolOK
<1>5. CASE ~call[t].got
  <2>1. UNCHANGED <<mem, live>>
    BY <1>5 DEF LeaveDeallocate
  <2>2. ~HasNew(call[t])
    BY <1>2, <1>5 DEF HasNew
  <2>3. \A p \in DOMAIN b : TheOther(p, b[p], own[p], t, mem, Idle)
    BY <1>1, <1>3, <2>2, HasThese DEF TheOther, OldOK, NewOK
  <2>4. does[t] # {}
    BY <1>1, <1>2, GoodParts DEF CallOK, FieldsOK
  <2>5. CallOK(t, Idle, b, own, does)
    BY Idles DEF CallOK, FieldsOK, HasOld, HasNew
  <2>6. Good(does, b, own, mem, [call EXCEPT ![t] = Idle], live)
    BY <1>1, <2>3, <2>4, <2>5, CallStep, Idles
  <2> QED BY <1>2, <2>1, <2>6 DEF PoolOK
<1> QED BY <1>4, <1>5
-----------------------------------------------------------------------------
(***************************************************************************)
(* reallocate().                                                           *)
(***************************************************************************)
\* The client's block x resized in place to a length that n bytes fit in.
LEMMA ResizedFits ==
    ASSUME Regular, NEW x \in Blocks, NEW n \in Requests, 
           NEW len \in Nat, ResizedLength(n) <= len
    PROVE  /\ Resized(x, len, n) \in Blocks /\ Resized(x, len, n).start = x.start
           /\ Whole(Resized(x, len, n), x.start, len)
<1> DEFINE r == Resized(x, len, n)
           fill == RealAllocation(Larger(1, n))
<1>1. fill \in Nat /\ fill <= ResizedLength(n) /\ ResizedLength(n) \in Nat
  BY FillFits, ResizedLengthFits, ThreadsAssumption DEF Regular
<1>2. x.start \in Nat
  BY DEF Blocks
<1>3. r = [start |-> x.start, end |-> x.start + len, fill |-> x.start + fill]
  BY DEF Resized, FillEnd
<1> HIDE DEF r, fill
<1>4. r \in Blocks /\ r.start = x.start /\ r.end = x.start + len /\ r.fill = x.start + fill
  BY <1>1, <1>2, <1>3 DEF Blocks
<1>5. Whole(r, x.start, len)
  BY <1>1, <1>2, <1>4 DEF Whole
<1> QED BY <1>4, <1>5 DEF r

\* A client's block that no call works on.
LEMMA ClientHas ==
    ASSUME NEW b, NEW own, Good(does, b, own, mem, call, live), NEW x \in live
    PROVE  /\ x \in Blocks /\ x.start \in DOMAIN b /\ own[x.start] = LiveBy(x)
           /\ mem[x.start] = b[x.start] /\ Whole(x, x.start, b[x.start])
           /\ Filled(mem, x) /\ x # NoBlock
<1>1. /\ Shape(b) /\ x \in Blocks /\ x.start \in DOMAIN b /\ own[x.start] = LiveBy(x)
      /\ BlockOK(x.start, b[x.start], own[x.start], mem, call, live)
  BY GoodParts
<1>2. LiveOK(x.start, b[x.start], mem, x, live)
  BY <1>1 DEF BlockOK
<1>3. x # NoBlock
  <2>1. x.start < PoolSize
    BY <1>1, ThreadsAssumption DEF Shape
  <2> QED BY <2>1, ThreadsAssumption DEF NoBlock
<1> QED BY <1>1, <1>2, <1>3 DEF LiveOK

LEMMA CallReallocateKeeps ==
    ASSUME PoolOK, Regular, NEW t \in Threads, NEW x \in live, NEW n \in Requests,
           CallReallocate(t, x, n), UNCHANGED does
    PROVE  PoolOK'
<1>1. PICK b, own : Good(does, b, own, mem, call, live)
  BY DEF PoolOK
<1> DEFINE o == x.start
           newSize == ResizedLength(n)
<1>2. /\ Shape(b) /\ mem \in Memories /\ live \subseteq Blocks
      /\ x \in Blocks /\ o \in DOMAIN b /\ own[o] = LiveBy(x)
      /\ mem[o] = b[o] /\ Whole(x, o, b[o]) /\ Filled(mem, x) /\ x # NoBlock
      /\ \A y \in live : own[y.start] = LiveBy(y)
  BY <1>1, ClientHas, GoodParts
<1>3. /\ newSize \in Nat /\ newSize % W = 0 /\ newSize >= 2 * W
  BY ResizedLengthFits, ThreadsAssumption DEF Regular
<1>4. /\ o \in Nat /\ b[o] \in Nat /\ 2 * W <= b[o] /\ o + b[o] <= PoolSize /\ o \in Words
      /\ W \in Nat /\ W > 0 /\ PoolSize \in Nat
  BY <1>2, BlockBounds, ThreadsAssumption
<1>5. At(t, "idle") /\ "reallocate" \in does[t] /\ does[t] # {} /\ Allocates(does[t])
  BY DEF CallReallocate, Allocates
<1>6. \/ /\ newSize <= b[o]
         /\ Returns(t, x, Resized(x, b[o], n), mem)
      \/ /\ newSize + W < b[o]
         /\ mem' = [mem EXCEPT ![o] = newSize]
         /\ live' = live \ {x}
         /\ call' = [call EXCEPT ![t] = [Idle EXCEPT !.pc = "cut", !.n = n, !.tmp = b[o],
                                                     !.old = x]]
      \/ /\ b[o] < newSize
         /\ live' = live \ {x}
         /\ call' = [call EXCEPT ![t] = [Idle EXCEPT !.pc = "walk", !.n = n, !.old = x,
                                                     !.size = RealAllocation(n)]]
         /\ UNCHANGED mem
  BY <1>2 DEF CallReallocate, Goto
<1>7. CASE newSize <= b[o] /\ Returns(t, x, Resized(x, b[o], n), mem)
  <2> DEFINE r == Resized(x, b[o], n)
             size == b[o]
             l2 == (live \ {x}) \cup {r}
  <2>1. /\ mem' = Stored(r, mem) /\ live' = l2 /\ call' = [call EXCEPT ![t] = Idle]
    BY <1>7 DEF Returns, Goto
  <2>2. r \in Blocks /\ r.start = o /\ Whole(r, o, b[o])
    BY <1>2, <1>4, <1>7, ResizedFits
  <2>3. \A p \in DOMAIN b \ {o} : own[p] # OldOf(t) /\ own[p] # NewOf(t)
    BY <1>1, <1>5, IdleHasNone
  <2>4. Proper(b[o], size) /\ Yields(own[o], t) /\ SameOutside(o, b[o], mem, mem)
        /\ RestOK(o, size, b[o], mem) /\ mem[o] = size /\ Whole(r, o, size)
        /\ own[o] # FreeOne
    BY <1>2, <2>2, WholeIsProper, OwnersDiffer DEF Yields, SameOutside, RestOK
  <2> HIDE DEF r, size
  <2>5. ClientsOK(o, LiveBy(r), live, l2)
    <3>1. \A y \in live : y.start = o => y = x
      BY <1>2, OwnersDiffer
    <3> QED BY <2>2, <3>1 DEF ClientsOK
  <2>6. l2 \in SUBSET Blocks /\ r \in l2
    BY <1>2, <2>2
  <2> HIDE DEF l2, o
  <2>7. \E b2, own2 : Good(does, b2, own2, Stored(r, mem), [call EXCEPT ![t] = Idle], l2)
    BY <1>1, <1>2, <1>5, <2>2, <2>3, <2>4, <2>5, <2>6, HandOut
  <2> QED BY <2>1, <2>7 DEF PoolOK
<1>8. CASE /\ newSize + W < b[o]
           /\ mem' = [mem EXCEPT ![o] = newSize]
           /\ live' = live \ {x}
           /\ call' = [call EXCEPT ![t] = [Idle EXCEPT !.pc = "cut", !.n = n, !.tmp = b[o],
                                                       !.old = x]]
  <2> DEFINE c2 == [Idle EXCEPT !.pc = "cut", !.n = n, !.tmp = b[o], !.old = x]
             m2 == [mem EXCEPT ![o] = newSize]
  <2>1. /\ c2 \in Calls /\ c2.pc = "cut" /\ c2.n = n /\ c2.tmp = b[o] 
        /\ c2.old = x /\ ~c2.got /\ c2.i = 0 /\ c2.look = "size"
    BY <1>2, <1>4, ThreadsAssumption DEF Idle, Calls, Steps, Looks
  <2>2. /\ m2 \in Memories /\ m2[o] = newSize /\ \A v \in Words \ {o} : m2[v] = mem[v]
    <3>1. newSize \in 0 .. PoolSize
      BY <1>3, <1>4, <1>8
    <3> QED BY <1>2, <1>4, <3>1 DEF Memories
  <2>3. call' = [call EXCEPT ![t] = c2] /\ mem' = m2 /\ live' = live \ {x}
    BY <1>8
  <2> HIDE DEF c2, m2
  <2>4. SameOutside(o, b[o], mem, m2)
    <3> SUFFICES ASSUME NEW v \in Words, v < o \/ o + b[o] <= v PROVE m2[v] = mem[v]
      BY DEF SameOutside
    <3>1. v \in Nat
      BY WordsAre
    <3>2. v # o
      BY <1>4, <3>1
    <3> QED BY <2>2, <3>2
  <2>5. OldOK(o, b[o], m2, c2) /\ FieldsOK(c2, does[t])
    BY <1>2, <1>5, <1>8, <2>1, <2>2 DEF OldOK, HasOld, Returnable, FieldsOK
  <2>6. \E own2 : Good(does, b, own2, m2, [call EXCEPT ![t] = c2], live \ {x})
    BY <1>1, <1>5, <2>1, <2>2, <2>4, <2>5, TakeBlock
  <2> QED BY <2>3, <2>6 DEF PoolOK
<1>9. CASE /\ b[o] < newSize
           /\ live' = live \ {x}
           /\ call' = [call EXCEPT ![t] = [Idle EXCEPT !.pc = "walk", !.n = n, !.old = x,
                                                       !.size = RealAllocation(n)]]
           /\ UNCHANGED mem
  <2> DEFINE c2 == [Idle EXCEPT !.pc = "walk", !.n = n, !.old = x, !.size = RealAllocation(n)]
  <2>1. n # 0
    <3> SUFFICES ASSUME n = 0 PROVE newSize <= 2 * W
      BY <1>3, <1>4, <1>9
    <3>1. n + 3 * W < SizeMod /\ n \in Nat
      BY ThreadsAssumption DEF Regular
    <3>2. newSize = RoundUp(n + W)
      BY <3>1, ResizedLengthIs
    <3>3. n + W = W
      BY <1>4
    <3>4. RoundUp(W) <= W + W
      BY <1>4, RoundUpFits
    <3> QED BY <1>4, <3>2, <3>3, <3>4
  <2>2. n \in Nat /\ RealAllocation(n) \in Nat
    BY <2>1, RequestFits
  <2>3. /\ c2 \in Calls /\ c2.pc = "walk" /\ c2.n = n /\ c2.size = RealAllocation(n)
        /\ c2.old = x /\ ~c2.got /\ c2.i = 0 /\ c2.look = "size"
    BY <1>2, <2>2, ThreadsAssumption DEF Idle, Calls, Steps, Looks
  <2>4. call' = [call EXCEPT ![t] = c2] /\ live' = live \ {x} /\ mem' = mem
    BY <1>9
  <2> HIDE DEF c2
  <2>5. SameOutside(o, b[o], mem, mem)
    BY DEF SameOutside
  <2>6. OldOK(o, b[o], mem, c2) /\ FieldsOK(c2, does[t])
    BY <1>2, <1>5, <1>9, <2>1, <2>3 DEF OldOK, HasOld, Returnable, FieldsOK
  <2>7. \E own2 : Good(does, b, own2, mem, [call EXCEPT ![t] = c2], live \ {x})
    BY <1>1, <1>2, <1>5, <2>3, <2>5, <2>6, TakeBlock
  <2> QED BY <2>4, <2>7 DEF PoolOK
<1> QED BY <1>6, <1>7, <1>8, <1>9

LEMMA CutRestKeeps ==
    ASSUME PoolOK, Regular, NEW t \in Threads, CutRest(t), UNCHANGED does
    PROVE  PoolOK'
<1>1. PICK b, own : Good(does, b, own, mem, call, live)
  BY DEF PoolOK
<1> DEFINE x == call[t].old
           o == call[t].old.start
           n == call[t].n
           size == ResizedLength(n)
           r == Resized(x, size, n)
           m1 == [mem EXCEPT ![o + size] = 0, ![o + size + W] = call[t].tmp - size]
           l2 == (live \ {x}) \cup {r}
<1>2. /\ call[t].pc = "cut" /\ mem' = Stored(r, m1) /\ live' = l2
      /\ call' = [call EXCEPT ![t] = Idle]
  BY DEF CutRest, At, Returns, Goto
<1>3. /\ Shape(b) /\ mem \in Memories /\ live \subseteq Blocks /\ call[t] \in Calls
      /\ CallOK(t, call[t], b, own, does)
  BY <1>1, GoodParts
<1>4. /\ FieldsOK(call[t], does[t]) /\ o \in DOMAIN b /\ own[o] = OldOf(t) 
      /\ does[t] # {} /\ ~HasNew(call[t])
  <2>1. FieldsOK(call[t], does[t])
    BY <1>3 DEF CallOK
  <2>2. HasOld(call[t]) /\ does[t] # {} /\ ~HasNew(call[t])
    BY <1>2, <2>1 DEF FieldsOK, HasOld, HasNew
  <2> QED BY <1>3, <2>1, <2>2 DEF CallOK
<1>5. OldOK(o, b[o], mem, call[t])
  BY <1>1, <1>4, HasThese
<1>6. /\ n \in Requests /\ call[t].tmp = b[o] /\ mem[o] = size /\ size + W < b[o]
  BY <1>2, <1>5 DEF OldOK
<1>7. size \in Nat /\ size % W = 0 /\ 2 * W <= size
  <2>1. n \in Nat /\ n + 3 * W < SizeMod
    BY <1>6, ThreadsAssumption DEF Regular
  <2> QED BY <2>1, ResizedLengthFits
<1>8. r \in Blocks /\ r.start = o /\ Whole(r, o, size)
  <2>1. x \in Blocks
    BY <1>3 DEF Calls
  <2> QED BY <1>6, <1>7, <2>1, ResizedFits
<1>9. m1 = [mem EXCEPT ![o + size] = 0, ![o + size + W] = b[o] - size]
  BY <1>6
<1>10. x.start = o
  OBVIOUS
<1> HIDE DEF x, o, n, size, r, m1
<1>11. IsCut(b, o, size, mem, m1)
  BY <1>3, <1>4, <1>6, <1>7, <1>9, CutHere
<1>12. /\ Proper(b[o], size) /\ m1 \in Memories /\ SameOutside(o, b[o], mem, m1) 
       /\ m1[o] = size /\ RestOK(o, size, b[o], m1)
  BY <1>6, <1>11 DEF IsCut, RestOK
<1>13. \A p \in DOMAIN b \ {o} : own[p] # OldOf(t) /\ own[p] # NewOf(t)
  BY <1>1, <1>4, HasThese DEF NewOK, o
<1>14. ClientsOK(o, LiveBy(r), live, l2)
  <2>1. \A y \in live : y.start # o
    BY <1>1, <1>4, NoClientHere, OwnersDiffer
  <2> QED BY <1>8, <1>10, <2>1 DEF ClientsOK
<1>15. l2 \in SUBSET Blocks /\ r \in l2 /\ Yields(own[o], t) /\ own[o] # FreeOne
  BY <1>3, <1>4, <1>8, OwnersDiffer DEF Yields
<1> HIDE DEF l2
<1>16. \E b2, own2 : Good(does, b2, own2, Stored(r, m1), [call EXCEPT ![t] = Idle], l2)
  BY <1>1, <1>4, <1>8, <1>12, <1>13, <1>14, <1>15, HandOut
<1> QED BY <1>2, <1>16 DEF PoolOK
-----------------------------------------------------------------------------
(***************************************************************************)
(* The pool starts as one free block.                                      *)
(***************************************************************************)
LEMMA InitGood ==
    ASSUME Init
    PROVE  PoolOK
<1> DEFINE b == [o \in {0} |-> PoolSize]
           own == [o \in {0} |-> FreeOne]
<1>1. /\ DOMAIN b = {0} /\ b[0] = PoolSize /\ own[0] = FreeOne
      /\ b \in [DOMAIN b -> Nat] /\ own \in [DOMAIN b -> Owners]
  BY ThreadsAssumption, OwnersHave
<1> HIDE DEF b, own
<1>2. Shape(b)
  BY <1>1, ThreadsAssumption, WordIsMultiple DEF Shape
<1>3. 0 \in Words /\ W \in Words /\ 0 + W = W /\ W # 0
  BY <1>1, <1>2, BlockBounds, ThreadsAssumption
<1>4. mem = [w \in Words |-> CASE w = 0 -> 0 [] w = W -> PoolSize [] OTHER -> Unset]
  BY DEF Init
<1>5. mem[0] = 0 /\ mem[W] = PoolSize
  BY <1>3, <1>4
<1>6. mem \in Memories
  BY <1>4, ThreadsAssumption DEF Memories
<1>7. does \in Duties /\ live = {} /\ call = [t \in Threads |-> Idle]
  BY DEF Init
<1>8. call \in [Threads -> Calls] /\ \A t \in Threads : call[t] = Idle
  BY <1>7, Idles
<1>9. ASSUME NEW t \in Threads PROVE CallOK(t, call[t], b, own, does)
  BY <1>8, Idles DEF CallOK, FieldsOK, HasOld, HasNew
<1>10. ASSUME NEW o \in DOMAIN b PROVE BlockOK(o, b[o], own[o], mem, call, live)
  BY <1>1, <1>3, <1>5, OwnersDiffer DEF BlockOK, FreeOK
<1>11. Good(does, b, own, mem, call, live)
  BY <1>1, <1>2, <1>6, <1>7, <1>8, <1>9, <1>10 DEF Good
<1> QED BY <1>11 DEF PoolOK

LEMMA InitHolds ==
    ASSUME Init
    PROVE  ThreadsInv
<1>1. allocatedSpace \in 0 .. SizeMod - 1
  BY ThreadsAssumption DEF Init
<1>2. Lock!LockTypeOK
  BY DEF Init, Lock!LockInit, Lock!LockTypeOK, Lock!GuardState
<1> QED BY <1>1, <1>2, InitGood DEF ThreadsInv

(***************************************************************************)
(* The flag and the guards stay what they may be.                          *)
(***************************************************************************)
LEMMA LockKeeps ==
    ASSUME Lock!LockTypeOK, NEW t \in Threads, 
           \/ Lock!Enter(t) \/ Lock!Acquire(t) \/ Lock!Store(t) \/ Lock!Unlock(t)
           \/ UNCHANGED lockVars
    PROVE  Lock!LockTypeOK'
<1>1. CASE Lock!Enter(t)
  BY <1>1 DEF Lock!LockTypeOK, Lock!Enter, Lock!Move, Lock!GuardState
<1>2. CASE Lock!Acquire(t)
  BY <1>2 DEF Lock!LockTypeOK, Lock!Acquire, Lock!Grant, Lock!Move, Lock!GuardState
<1>3. CASE Lock!Store(t)
  BY <1>3 DEF Lock!LockTypeOK, Lock!Store, Lock!Move, Lock!GuardState
<1>4. CASE Lock!Unlock(t)
  BY <1>4 DEF Lock!LockTypeOK, Lock!Unlock, Lock!Move, Lock!GuardState
<1>5. CASE UNCHANGED lockVars
  BY <1>5 DEF Lock!LockTypeOK, lockVars
<1> QED BY <1>1, <1>2, <1>3, <1>4, <1>5

LEMMA ModInRange == ASSUME NEW a \in Int PROVE a % SizeMod \in 0 .. SizeMod - 1
BY ThreadsAssumption, SMT

(***************************************************************************)
(* Every step keeps the invariant.                                         *)
(***************************************************************************)
LEMMA ContinueKeeps ==
    ASSUME ThreadsInv, Regular, Orderly, NEW t \in Threads, Continue(t), UNCHANGED does
    PROVE  ThreadsInv'
<1> DEFINE space == allocatedSpace
<1>1. PoolOK /\ space \in 0 .. SizeMod - 1 /\ Lock!LockTypeOK /\ space \in Nat
  BY ThreadsAssumption DEF ThreadsInv
<1> USE DEF ThreadsInv
<1>2. CASE Spin(t)
  <2>1. UNCHANGED <<mem, call, live>> /\ Lock!Acquire(t) /\ UNCHANGED allocatedSpace
    BY <1>2 DEF Spin
  <2>2. PoolOK'
    BY <1>1, <2>1 DEF PoolOK
  <2> QED BY <1>1, <2>1, <2>2, LockKeeps
<1>3. CASE Grab(t)
  <2>1. UNCHANGED <<mem, call, live>> /\ Lock!Store(t) /\ UNCHANGED allocatedSpace
    BY <1>3 DEF Grab
  <2>2. PoolOK'
    BY <1>1, <2>1 DEF PoolOK
  <2> QED BY <1>1, <2>1, <2>2, LockKeeps
<1>4. CASE WalkSize(t) \/ WalkRoom(t) \/ WalkChecks(t) \/ WalkOver(t)
  <2>1. UNCHANGED lockVars /\ UNCHANGED allocatedSpace
    BY <1>4 DEF WalkSize, WalkRoom, WalkChecks, WalkOver, Look, ReadsOnly, lockVars
  <2> QED BY <1>1, <1>4, <2>1, WalkSizeKeeps, WalkRoomKeeps, WalkChecksKeeps, WalkOverKeeps,
             LockKeeps
<1>5. CASE WalkFinds(t)
  <2>1. UNCHANGED lockVars /\ UNCHANGED allocatedSpace
    BY <1>5 DEF WalkFinds, lockVars
  <2> QED BY <1>1, <1>5, <2>1, WalkFindsKeeps, LockKeeps
<1>6. CASE WalkEnds(t)
  <2>1. UNCHANGED lockVars /\ UNCHANGED allocatedSpace
    BY <1>6 DEF WalkEnds, lockVars
  <2> QED BY <1>1, <1>6, <2>1, WalkEndsKeeps, LockKeeps
<1>7. CASE Mark(t)
  <2>1. UNCHANGED lockVars /\ UNCHANGED allocatedSpace
    BY <1>7 DEF Mark, lockVars
  <2> QED BY <1>1, <1>7, <2>1, MarkKeeps, LockKeeps
<1>8. CASE Credit(t)
  <2>1. UNCHANGED lockVars /\ allocatedSpace' = (call[t].tmp + call[t].size) % SizeMod
    BY <1>8 DEF Credit, lockVars
  <2>2. call[t].tmp + call[t].size \in Int
    <3>1. call[t] \in Calls
      BY <1>1, GoodParts DEF PoolOK
    <3> QED BY <3>1 DEF Calls
  <2> QED BY <1>1, <1>8, <2>1, <2>2, ModInRange, CreditKeeps, LockKeeps
<1>9. CASE LeaveAllocate(t)
  <2>1. Lock!Unlock(t) /\ UNCHANGED allocatedSpace
    BY <1>9 DEF LeaveAllocate
  <2> QED BY <1>1, <1>9, <2>1, LeaveAllocateKeeps, LockKeeps
<1>10. CASE FillPattern(t)
  <2>1. Lock!Enter(t) /\ UNCHANGED allocatedSpace
    BY <1>10 DEF FillPattern
  <2> QED BY <1>1, <1>10, <2>1, FillPatternKeeps, LockKeeps
<1>11. CASE Space(t)
  <2>1. UNCHANGED lockVars /\ UNCHANGED allocatedSpace
    BY <1>11 DEF Space, lockVars
  <2> QED BY <1>1, <1>11, <2>1, SpaceKeeps, LockKeeps
<1>12. CASE Debit(t)
  <2>1. /\ UNCHANGED lockVars /\ At(t, "debit")
        /\ allocatedSpace' = (call[t].tmp - mem[call[t].old.start]) % SizeMod
    BY <1>12 DEF Debit, lockVars
  <2>2. PICK b, own : Good(does, b, own, mem, call, live)
    BY <1>1 DEF PoolOK
  <2> DEFINE o == call[t].old.start
  <2>3. call[t] \in Calls /\ mem[o] \in Nat
    <3>1. call[t] \in Calls /\ CallOK(t, call[t], b, own, does)
      BY <2>2, GoodParts
    <3>2. HasOld(call[t])
      BY <2>1, <3>1 DEF HasOld, CallOK, FieldsOK, At
    <3>3. o \in DOMAIN b /\ own[o] = OldOf(t)
      BY <3>1, <3>2 DEF CallOK
    <3>4. BlockOK(o, b[o], own[o], mem, call, live) /\ b[o] \in Nat
      BY <2>2, <3>3, GoodParts, BlockBounds
    <3>5. OldOK(o, b[o], mem, call[t])
      BY <3>3, <3>4 DEF BlockOK
    <3> QED BY <2>1, <3>1, <3>4, <3>5 DEF OldOK, At
  <2>4. call[t].tmp - mem[o] \in Int
    BY <2>3 DEF Calls
  <2> QED BY <1>1, <1>12, <2>1, <2>4, ModInRange, DebitKeeps, LockKeeps
<1>13. CASE Free(t)
  <2>1. UNCHANGED lockVars /\ UNCHANGED allocatedSpace
    BY <1>13 DEF Free, lockVars
  <2> QED BY <1>1, <1>13, <2>1, FreeKeeps, LockKeeps
<1>14. CASE LeaveDeallocate(t)
  <2>1. Lock!Unlock(t) /\ UNCHANGED allocatedSpace
    BY <1>14 DEF LeaveDeallocate
  <2> QED BY <1>1, <1>14, <2>1, LeaveDeallocateKeeps, LockKeeps
<1>15. CASE CutRest(t)
  <2>1. UNCHANGED lockVars /\ UNCHANGED allocatedSpace
    BY <1>15 DEF CutRest, Returns, lockVars
  <2> QED BY <1>1, <1>15, <2>1, CutRestKeeps, LockKeeps
<1>16. CASE Copy(t)
  <2>1. UNCHANGED lockVars /\ UNCHANGED allocatedSpace
    BY <1>16 DEF Copy, lockVars
  <2> QED BY <1>1, <1>16, <2>1, CopyKeeps, LockKeeps
<1> QED BY <1>2, <1>3, <1>4, <1>5, <1>6, <1>7, <1>8, <1>9, <1>10, <1>11, <1>12,
           <1>13, <1>14, <1>15, <1>16 DEF Continue

LEMMA CallKeeps ==
    ASSUME ThreadsInv, Regular, Orderly, NEW t \in Threads, Call(t), UNCHANGED does
    PROVE  ThreadsInv'
<1>1. PoolOK /\ allocatedSpace \in 0 .. SizeMod - 1 /\ Lock!LockTypeOK
  BY DEF ThreadsInv
<1> USE DEF ThreadsInv
<1>2. ASSUME NEW n \in Requests, CallAllocate(t, n) PROVE ThreadsInv'
  <2>1. Lock!Enter(t) /\ UNCHANGED allocatedSpace
    BY <1>2 DEF CallAllocate
  <2> QED BY <1>1, <1>2, <2>1, CallAllocateKeeps, LockKeeps
<1>3. ASSUME NEW x \in live, CallDeallocate(t, x) PROVE ThreadsInv'
  <2>1. UNCHANGED lockVars /\ UNCHANGED allocatedSpace
    BY <1>3 DEF CallDeallocate, lockVars
  <2> QED BY <1>1, <1>3, <2>1, CallDeallocateKeeps, LockKeeps
<1>4. ASSUME NEW x \in live, NEW n \in Requests, CallReallocate(t, x, n) PROVE ThreadsInv'
  <2>1. (Lock!Enter(t) \/ UNCHANGED lockVars) /\ UNCHANGED allocatedSpace
    BY <1>4 DEF CallReallocate, Returns, lockVars
  <2> QED BY <1>1, <1>4, <2>1, CallReallocateKeeps, LockKeeps
<1> QED BY <1>2, <1>3, <1>4 DEF Call

LEMMA StepKeeps ==
    ASSUME ThreadsInv, Regular, Orderly, [Next]_vars
    PROVE  ThreadsInv'
<1>1. ASSUME NEW t \in Threads, Call(t) \/ Continue(t), UNCHANGED does
      PROVE  ThreadsInv'
  BY <1>1, ContinueKeeps, CallKeeps
<1>2. CASE UNCHANGED vars
  BY <1>2 DEF vars, ThreadsInv, PoolOK, Lock!LockTypeOK
<1> QED BY <1>1, <1>2 DEF Next

(***************************************************************************)
(* The invariant of several threads.                                       *)
(***************************************************************************)
THEOREM ThreadsInvariant ==
    ASSUME Regular, Orderly
    PROVE  Spec => []ThreadsInv
<1>1. Init => ThreadsInv
  BY InitHolds
<1>2. ThreadsInv /\ [Next]_vars => ThreadsInv'
  BY StepKeeps
<1> QED BY <1>1, <1>2, PTL DEF Spec
-----------------------------------------------------------------------------
(***************************************************************************)
(* A walk.  Where it goes on, what it reaches, and what it visits of that. *)
(***************************************************************************)
Goes(i) == i < PoolSize /\ OnHeader(i)
Onward(i) == Goes(i) /\ i + Length(i) <= PoolSize
Closed(S) == \A q \in S : Onward(q) => q + Length(q) \in S
Reach(i) == {p \in 0 .. PoolSize : \A S \in SUBSET (0 .. PoolSize) : i \in S /\ Closed(S) => p \in S}
Reached == [i \in 0 .. PoolSize |-> {p \in Reach(i) : Goes(p)}]

OneVisit(f, i) ==
    IF i >= PoolSize \/ ~OnHeader(i) THEN {}
    ELSE {i} \cup IF i + Length(i) > PoolSize THEN {} ELSE f[i + Length(i)]

LEMMA ReachHere ==
    ASSUME NEW i \in 0 .. PoolSize
    PROVE  /\ i \in Reach(i)
           /\ ~Onward(i) => Reach(i) = {i}
<1>1. i \in Reach(i)
  BY DEF Reach
<1>2. ASSUME ~Onward(i) PROVE Reach(i) \subseteq {i}
  <2>1. {i} \in SUBSET (0 .. PoolSize) /\ i \in {i} /\ Closed({i})
    BY <1>2 DEF Closed
  <2> QED BY <2>1 DEF Reach
<1> QED BY <1>1, <1>2

LEMMA ReachOnward ==
    ASSUME NEW i \in 0 .. PoolSize, Onward(i), NEW j \in 0 .. PoolSize, j = i + Length(i)
    PROVE  Reach(i) = {i} \cup Reach(j)
<1> DEFINE R == {i} \cup Reach(j)
<1>1. R \in SUBSET (0 .. PoolSize) /\ i \in R
  BY DEF Reach
<1>2. ASSUME NEW q \in Reach(j), Onward(q) PROVE q + Length(q) \in Reach(j)
  <2>1. q \in 0 .. PoolSize
    BY DEF Reach
  <2>2. q + Length(q) \in 0 .. PoolSize
    BY <1>2, <2>1, ThreadsAssumption DEF Onward, Goes, OnHeader, Length
  <2>3. ASSUME NEW S \in SUBSET (0 .. PoolSize), j \in S, Closed(S)
        PROVE  q + Length(q) \in S
    BY <1>2, <2>3 DEF Reach, Closed
  <2> QED BY <2>2, <2>3 DEF Reach
<1>3. Closed(R)
  BY <1>2, ReachHere DEF Closed
<1>4. Reach(i) \subseteq R
  BY <1>1, <1>3 DEF Reach
<1>5. ASSUME NEW p \in Reach(j) PROVE p \in Reach(i)
  <2>1. ASSUME NEW S \in SUBSET (0 .. PoolSize), i \in S, Closed(S) PROVE p \in S
    BY <2>1, <1>5 DEF Reach, Closed
  <2> QED BY <2>1 DEF Reach
<1>6. i \in Reach(i)
  BY ReachHere
<1> QED BY <1>4, <1>5, <1>6

LEMMA ReachedVisits ==
    ASSUME NEW i \in 0 .. PoolSize
    PROVE  Reached[i] = OneVisit(Reached, i)
<1>1. CASE ~Goes(i)
  <2>1. Reach(i) = {i}
    BY <1>1, ReachHere DEF Onward
  <2>2. Reached[i] = {}
    BY <1>1, <2>1 DEF Reached
  <2>3. OneVisit(Reached, i) = {}
    BY <1>1, ThreadsAssumption DEF OneVisit, Goes
  <2> QED BY <2>2, <2>3
<1>2. CASE Goes(i) /\ ~Onward(i)
  <2>1. Reach(i) = {i}
    BY <1>2, ReachHere
  <2>2. Reached[i] = {i}
    BY <1>2, <2>1 DEF Reached
  <2>3. Length(i) \in Nat /\ i \in Nat
    BY <1>2 DEF Goes, OnHeader, Length
  <2>4. OneVisit(Reached, i) = {i}
    BY <1>2, <2>3, ThreadsAssumption DEF OneVisit, Goes, Onward
  <2> QED BY <2>2, <2>4
<1>3. CASE Onward(i)
  <2> DEFINE j == i + Length(i)
  <2>1. Length(i) \in Nat /\ i \in Nat /\ j \in 0 .. PoolSize
    BY <1>3, ThreadsAssumption DEF Onward, Goes, OnHeader, Length
  <2>2. Reach(i) = {i} \cup Reach(j)
    BY <1>3, <2>1, ReachOnward
  <2>3. Reached[i] = {i} \cup Reached[j]
    BY <1>3, <2>1, <2>2 DEF Reached, Onward
  <2>4. OneVisit(Reached, i) = {i} \cup Reached[j]
    BY <1>3, <2>1, ThreadsAssumption DEF OneVisit, Goes, Onward
  <2> QED BY <2>3, <2>4
<1> QED BY <1>1, <1>2, <1>3 DEF Onward

\* So there is a function as Visits is meant to be, and Visits is one.
LEMMA VisitsAre == \A i \in 0 .. PoolSize : Visits[i] = OneVisit(Visits, i)
<1>1. Reached = [i \in 0 .. PoolSize |-> OneVisit(Reached, i)]
  <2>1. Reached = [i \in 0 .. PoolSize |-> Reached[i]]
    BY DEF Reached
  <2> QED BY <2>1, ReachedVisits
<1>2. \E f : f = [i \in 0 .. PoolSize |-> OneVisit(f, i)]
  BY <1>1
<1> DEFINE D == CHOOSE f : f = [i \in 0 .. PoolSize |-> OneVisit(f, i)]
<1>3. D = [i \in 0 .. PoolSize |-> OneVisit(D, i)]
  BY <1>2
<1>4. Visits = D
  BY DEF Visits, OneVisit
<1> HIDE DEF D
<1>5. \A i \in 0 .. PoolSize : D[i] = OneVisit(D, i)
  BY <1>3
<1> QED BY <1>4, <1>5
-----------------------------------------------------------------------------
(***************************************************************************)
(* While no block is being cut a walk from a block visits it and all those *)
(* behind it: the last block that it does not hold for would have none.    *)
(***************************************************************************)
From(b, o) == {p \in DOMAIN b : o <= p}

LEMMA OneBlockOn ==
    ASSUME NEW b, NEW own, Good(does, b, own, mem, call, live),
           \A u \in Threads : ~At(u, "cut"), NEW o \in DOMAIN b,
           \A p \in DOMAIN b : o < p => Visits[p] = From(b, p)
    PROVE  Visits[o] = From(b, o)
<1> DEFINE n == o + b[o]
<1>1. OnHeader(o) /\ Length(o) = b[o] /\ Shape(b)
  BY HeaderRead, GoodParts
<1>2. /\ o \in Nat /\ b[o] \in Nat /\ 0 < b[o] /\ n <= PoolSize /\ n \in Nat
      /\ n \in DOMAIN b \cup {PoolSize} /\ o \in 0 .. PoolSize /\ n \in 0 .. PoolSize
      /\ ~(o >= PoolSize) /\ ~(n > PoolSize) /\ o < n
  BY <1>1, BlockBounds, ThreadsAssumption
<1>3. Visits[o] = {o} \cup Visits[n]
  BY <1>1, <1>2, VisitsAre DEF OneVisit
<1>4. \A p \in DOMAIN b : p \in Nat /\ p < PoolSize /\ (o < p => n <= p)
  <2> HIDE DEF n
  <2>1. \A p \in DOMAIN b : p \in 0 .. PoolSize - 1 /\ ~(o < p /\ p < n)
    BY <1>1 DEF Shape, n
  <2> QED BY <1>2, <2>1, ThreadsAssumption
<1>5. From(b, o) = {o} \cup From(b, n)
  <2> HIDE DEF n
  <2> QED BY <1>2, <1>4 DEF From
<1>6. Visits[n] = From(b, n)
  <2>1. CASE n \in DOMAIN b
    BY <1>2, <2>1
  <2>2. CASE n = PoolSize
    <3>1. Visits[n] = {}
      BY <1>2, <2>2, VisitsAre DEF OneVisit
    <3>2. From(b, n) = {}
      BY <1>4, <2>2, ThreadsAssumption DEF From
    <3> QED BY <3>1, <3>2
  <2> QED BY <1>2, <2>1, <2>2
<1> QED BY <1>3, <1>5, <1>6

LEMMA VisitedAre ==
    ASSUME NEW b, NEW own, Good(does, b, own, mem, call, live),
           \A u \in Threads : ~At(u, "cut")
    PROVE  Visited = DOMAIN b
<1>1. Shape(b) /\ 0 \in DOMAIN b /\ \A p \in DOMAIN b : p \in 0 .. PoolSize
  <2>1. Shape(b)
    BY GoodParts
  <2>2. 0 \in DOMAIN b /\ \A p \in DOMAIN b : p \in 0 .. PoolSize - 1
    BY <2>1 DEF Shape
  <2> QED BY <2>1, <2>2, ThreadsAssumption
<1>2. ASSUME NEW o \in DOMAIN b PROVE Visits[o] = From(b, o)
  <2> DEFINE T == {PoolSize - p : p \in {q \in DOMAIN b : Visits[q] # From(b, q)}}
  <2> SUFFICES ASSUME Visits[o] # From(b, o) PROVE FALSE
    OBVIOUS
  <2>1. T \subseteq Nat /\ T # {}
    BY <1>1, ThreadsAssumption
  <2>2. PICK k \in T : \A y \in T : k <= y
    <3> HIDE DEF T
    <3> QED BY <2>1, LeastMember
  <2>3. PICK p \in DOMAIN b : Visits[p] # From(b, p) /\ k = PoolSize - p
    BY <2>2
  <2>4. ASSUME NEW q \in DOMAIN b, p < q PROVE Visits[q] = From(b, q)
    <3> SUFFICES ASSUME Visits[q] # From(b, q) PROVE FALSE
      OBVIOUS
    <3>1. PoolSize - q \in T
      OBVIOUS
    <3>2. k <= PoolSize - q
      BY <2>2, <3>1
    <3> QED BY <1>1, <2>3, <2>4, <3>2, ThreadsAssumption
  <2>5. Visits[p] = From(b, p)
    BY <2>4, OneBlockOn
  <2> QED BY <2>3, <2>5
<1>3. From(b, 0) = DOMAIN b
  BY <1>1 DEF From
<1> QED BY <1>1, <1>2, <1>3 DEF Visited

(***************************************************************************)
(* What the invariant says of each of the properties the run checks.       *)
(***************************************************************************)
LEMMA NobodyCuts ==
    ASSUME NEW b, NEW own, Good(does, b, own, mem, call, live), Orderly,
           NEW t \in Threads, At(t, "walk") \/ At(t, "mark")
    PROVE  \A u \in Threads : ~At(u, "cut")
BY OneAllocates DEF At

LEMMA HeadersSeen == ASSUME ThreadsInv, Orderly PROVE WalkSeesHeaders
<1> SUFFICES ASSUME NEW t \in Threads, Walking(t), call[t].i < PoolSize
             PROVE  /\ OnHeader(call[t].i)
                    /\ call[t].look \in {"room", "fits", "gap", "skip"} => 
                          mem[call[t].i] = 0
  BY DEF WalkSeesHeaders
<1>1. PICK b, own : Good(does, b, own, mem, call, live)
  BY DEF ThreadsInv, PoolOK
<1>2. At(t, "walk") /\ CallOK(t, call[t], b, own, does)
  BY <1>1, GoodParts DEF Walking
<1>3. call[t].i \in DOMAIN b /\ Standing(t, call[t], b, own, does)
  BY <1>2, ThreadsAssumption DEF CallOK, At
<1>4. OnHeader(call[t].i) /\ (own[call[t].i] = FreeOne => mem[call[t].i] = 0)
  BY <1>1, <1>2, <1>3, NobodyCuts, HeaderRead
<1> QED BY <1>3, <1>4 DEF Standing

LEMMA DataThere == ASSUME ThreadsInv PROVE DataUntouched
<1>1. PICK b, own : Good(does, b, own, mem, call, live)
  BY DEF ThreadsInv, PoolOK
<1>2. mem \in Memories /\ DOMAIN mem = Words /\ live \subseteq Blocks
  BY <1>1, GoodParts DEF Memories
<1>3. ASSUME NEW x \in live
      PROVE  x.start <= x.fill /\ x.fill <= x.end /\ x.end <= PoolSize /\ Filled(mem, x)
  <2>1. /\ x.start \in DOMAIN b /\ Whole(x, x.start, b[x.start]) /\ Filled(mem, x)
    BY <1>1, <1>3, ClientHas
  <2> QED BY <1>1, <2>1, GoodParts, BlockBounds DEF Whole
<1>4. TypeOK
  BY <1>2, <1>3 DEF TypeOK, ThreadsInv, Memories
<1> QED BY <1>2, <1>3, <1>4 DEF DataUntouched, Filled
-----------------------------------------------------------------------------
LEMMA QuietWhole == ASSUME ThreadsInv PROVE QuietPool
<1> SUFFICES ASSUME Quiet
             PROVE  /\ \A o \in Visited : o + Length(o) \in Visited \cup {PoolSize}
                    /\ {<<o, o + Length(o)>> : o \in {p \in Visited : mem[p] # 0}}
                         = {<<x.start, x.end>> : x \in live}
                    /\ \A x, y \in live : x.start = y.start => x = y
  BY DEF QuietPool
<1>1. PICK b, own : Good(does, b, own, mem, call, live)
  BY DEF ThreadsInv, PoolOK
<1>2. \A u \in Threads : At(u, "idle") /\ ~At(u, "cut") /\ ~At(u, "mark")
  BY DEF Quiet, At
<1>3. Visited = DOMAIN b
  BY <1>1, <1>2, VisitedAre
<1>4. \A o \in DOMAIN b : Length(o) = b[o] /\ (own[o] = FreeOne <=> mem[o] = 0)
  BY <1>1, <1>2, HeaderRead
<1>5. \A o \in DOMAIN b : o + b[o] \in DOMAIN b \cup {PoolSize}
  BY <1>1, GoodParts DEF Shape
<1>6. ASSUME NEW o \in DOMAIN b, mem[o] # 0
      PROVE  \E x \in live : <<o, o + Length(o)>> = <<x.start, x.end>>
  <2>1. own[o] # FreeOne /\ own[o] \in Owners /\ BlockOK(o, b[o], own[o], mem, call, live)
    BY <1>1, <1>4, <1>6, GoodParts
  <2>2. \A u \in Threads : own[o] # OldOf(u) /\ own[o] # NewOf(u)
    BY <1>1, <1>2, IdleHasNone
  <2>3. PICK x \in Blocks : own[o] = LiveBy(x)
    BY <2>1, <2>2, OwnersHave
  <2>4. x \in live /\ x.start = o /\ x.end = o + b[o]
    BY <2>1, <2>3 DEF BlockOK, LiveOK, Whole
  <2> QED BY <1>4, <2>4
<1>7. ASSUME NEW x \in live
      PROVE  /\ x.start \in DOMAIN b /\ mem[x.start] # 0
             /\ <<x.start, x.start + Length(x.start)>> = <<x.start, x.end>>
             /\ own[x.start] = LiveBy(x)
  <2>1. /\ x.start \in DOMAIN b /\ own[x.start] = LiveBy(x)
        /\ x.end = x.start + b[x.start]
    BY <1>1, <1>7, ClientHas DEF Whole
  <2> QED BY <1>4, <2>1, OwnersDiffer
<1>8. {<<o, o + Length(o)>> : o \in {p \in DOMAIN b : mem[p] # 0}}
        = {<<x.start, x.end>> : x \in live}
  BY <1>6, <1>7
<1>9. \A x, y \in live : x.start = y.start => x = y
  BY <1>7, OwnersDiffer
<1>10. \A o \in DOMAIN b : o + Length(o) \in DOMAIN b \cup {PoolSize}
  BY <1>4, <1>5
<1> QED BY <1>3, <1>8, <1>9, <1>10

LEMMA FirstFits == ASSUME ThreadsInv, Orderly PROVE FirstFitFound
<1> SUFFICES ASSUME NEW t \in Threads, Alone(t), At(t, "mark"),
                    NEW o \in Visited, o < call[t].i, mem[o] = 0
             PROVE  mem[o + W] < RealAllocation(call[t].n)
  BY DEF FirstFitFound
<1>1. PICK b, own : Good(does, b, own, mem, call, live)
  BY DEF ThreadsInv, PoolOK
<1>2. \A u \in Threads : ~At(u, "cut")
  BY <1>1, NobodyCuts
<1>3. o \in DOMAIN b
  BY <1>1, <1>2, VisitedAre
<1>4. /\ Length(o) = b[o]
      /\ own[o] = FreeOne \/ \E u \in Threads : own[o] = NewOf(u) /\ At(u, "mark")
  BY <1>1, <1>2, <1>3, HeaderRead
<1>5. own[o] = FreeOne
  <2> SUFFICES ASSUME NEW u \in Threads, own[o] = NewOf(u), At(u, "mark") PROVE FALSE
    BY <1>4
  <2>1. u = t
    BY <1>1, OneAllocates DEF At
  <2>2. o = call[t].i
    BY <1>1, <1>3, <2>1, HasThese
  <2>3. o \in Nat
    BY <1>1, <1>3, GoodParts, BlockBounds
  <2> QED BY <2>2, <2>3
<1>6. CallOK(t, call[t], b, own, does)
  BY <1>1, GoodParts
<1>7. Passed(call[t].i, RealAllocation(call[t].n), b, own)
  BY <1>6 DEF CallOK, Single, Alone, At
<1>8. b[o] < RealAllocation(call[t].n)
  BY <1>3, <1>5, <1>7 DEF Passed
<1> QED BY <1>4, <1>8 DEF Length

(***************************************************************************)
(* Whatever the calls of other threads write, and whoever the spin lock    *)
(* lets in: no word a client has stored is written by the pool, every      *)
(* block stays within the pool and every word is one of those modelled.    *)
(***************************************************************************)
THEOREM DataIsUntouched ==
    ASSUME Regular, Orderly
    PROVE  Spec => []DataUntouched
<1>1. ThreadsInv => DataUntouched
  BY DataThere
<1> QED BY <1>1, ThreadsInvariant, PTL

(***************************************************************************)
(* The loop of allocate() takes headers only for headers, and a block it   *)
(* has found free is free until it takes it, however often it looks.       *)
(***************************************************************************)
THEOREM WalkReadsHeaders ==
    ASSUME Regular, Orderly
    PROVE  Spec => []WalkSeesHeaders
<1>1. ThreadsInv => WalkSeesHeaders
  BY HeadersSeen
<1> QED BY <1>1, ThreadsInvariant, PTL

(***************************************************************************)
(* Between calls the blocks tile the pool, and those that are not free are *)
(* those of the clients: nothing is leaked, nothing is handed out twice.   *)
(***************************************************************************)
THEOREM PoolIsWhole ==
    ASSUME Regular, Orderly
    PROVE  Spec => []QuietPool
<1>1. ThreadsInv => QuietPool
  BY QuietWhole
<1> QED BY <1>1, ThreadsInvariant, PTL

(***************************************************************************)
(* allocate() of a thread that is alone takes the lowest block that fits.  *)
(***************************************************************************)
THEOREM FirstFitIsFound ==
    ASSUME Regular, Orderly
    PROVE  Spec => []FirstFitFound
<1>1. ThreadsInv => FirstFitFound
  BY FirstFits
<1> QED BY <1>1, ThreadsInvariant, PTL
=============================================================================
