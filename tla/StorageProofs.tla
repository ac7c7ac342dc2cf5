---------------------------- MODULE StorageProofs ----------------------------
(***************************************************************************)
(* The blocks of FixedPool tile the pool, have room for their headers and  *)
(* for what was asked, and the pool implements Heap: for every pool of     *)
(* whole words, every width and every set of requests that do not wrap.    *)
(*                                                                         *)
(* Then the mutexes a pool may be made with, and their guards; and last    *)
(* the slots of HandleBuffer: removed handles stay dead, and others give   *)
(* access until they are removed, for every number of slots, generations   *)
(* and resizes.                                                            *)
(***************************************************************************)
EXTENDS FixedPool, SpinLock, HandleBuffer, SumTheorems, FiniteSetTheorems, TLAPS

(***************************************************************************)
(* Multiples of the word are closed under the arithmetic of the pool, and  *)
(* two of them that differ are a word apart.                               *)
(***************************************************************************)
LEMMA MultipleOf ==
    ASSUME NEW a \in Nat, a % W = 0
    PROVE  \E k \in Nat : a = k * W
<1>1. a = W * (a \div W) + (a % W) /\ a \div W \in Nat
  BY PoolAssumption, SMT
<1>2. a = (a \div W) * W
  BY <1>1, PoolAssumption
<1> QED
  BY <1>1, <1>2

LEMMA ProductIsMultiple == ASSUME NEW k \in Nat PROVE (k * W) % W = 0
BY PoolAssumption, SMT

LEMMA Division == 
    ASSUME NEW a \in Nat
    PROVE  a % W \in 0 .. W - 1 /\ a % W <= a /\ (a - (a % W)) % W = 0
<1>1. a = W * (a \div W) + (a % W) /\ a \div W \in Nat /\ a % W \in 0 .. W - 1
  BY PoolAssumption, SMT
<1>2. a - (a % W) = (a \div W) * W
  BY <1>1, PoolAssumption
<1>3. (a - (a % W)) % W = 0
  BY <1>1, <1>2, ProductIsMultiple
<1>4. (a \div W) * W >= 0
  BY <1>1, PoolAssumption
<1> QED
  BY <1>1, <1>2, <1>3, <1>4, PoolAssumption

LEMMA SumOfMultiples ==
    ASSUME NEW a \in Nat, NEW b \in Nat, a % W = 0, b % W = 0
    PROVE  (a + b) % W = 0
<1>1. PICK k \in Nat : a = k * W  BY MultipleOf
<1>2. PICK j \in Nat : b = j * W  BY MultipleOf
<1>3. a + b = (k + j) * W         BY <1>1, <1>2, PoolAssumption
<1> QED                           BY <1>3, ProductIsMultiple

LEMMA DifferenceOfMultiples ==
    ASSUME NEW a \in Nat, NEW b \in Nat, a % W = 0, b % W = 0, b < a
    PROVE  (a - b) % W = 0 /\ b + W <= a
<1>1. PICK k \in Nat : a = k * W  BY MultipleOf
<1>2. PICK j \in Nat : b = j * W  BY MultipleOf
<1>3. a - b = (k - j) * W         BY <1>1, <1>2, PoolAssumption
<1>4. j < k                       BY <1>1, <1>2, PoolAssumption
<1>5. k - j \in Nat               BY <1>4
<1>6. (k - j) * W >= W            BY <1>4, <1>5, PoolAssumption
<1>7. (a - b) % W = 0             BY <1>3, <1>5, ProductIsMultiple
<1> QED                           BY <1>3, <1>6, <1>7, PoolAssumption

LEMMA WordIsMultiple == W % W = 0
BY PoolAssumption, SMT

LEMMA NoWrap == ASSUME NEW a \in Nat, a < SizeMod PROVE a % SizeMod = a
BY PoolAssumption, SMT

(***************************************************************************)
(* realAllocation() returns whole words: a header and at least the         *)
(* request, at least two words.                                            *)
(***************************************************************************)
LEMMA RealAllocationFits ==
    ASSUME Regular, NEW n \in Requests, n # 0
    PROVE  /\ RealAllocation(n) \in Nat
           /\ RealAllocation(n) % W = 0
           /\ RealAllocation(n) >= 2 * W
           /\ RealAllocation(n) >= n + W
<1> DEFINE m == W + Larger(W, n)
           floored == m - (m % W)
<1>1. n \in Nat /\ n + 3 * W < SizeMod /\ W \in Nat \ {0} /\ SizeMod \in Nat
  BY PoolAssumption DEF Regular
<1>2. m \in Nat /\ m >= 2 * W /\ m >= n + W /\ m < SizeMod - W
  BY <1>1, PoolAssumption DEF Larger
<1> HIDE DEF m
<1>3. m % SizeMod = m
  BY <1>1, <1>2, NoWrap
<1>4. CASE m % W = 0
  <2>1. RealAllocation(n) = m
    BY <1>3, <1>4 DEF RealAllocation, m
  <2> QED
    BY <2>1, <1>2, <1>4
<1>5. CASE m % W # 0
  <2>1. m % W \in 0 .. W - 1 /\ m % W <= m /\ floored % W = 0
    BY <1>2, Division
  <2>2. floored \in Nat /\ floored + W \in Nat 
        /\ floored + W > m /\ floored + W <= m + W
    BY <2>1, <1>1, <1>2
  <2>3. (floored + W) % W = 0
    BY <2>1, <2>2, <1>1, SumOfMultiples, WordIsMultiple
  <2>4. (floored + W) % SizeMod = floored + W
    BY <2>2, <1>1, <1>2, NoWrap
  <2>5. RealAllocation(n) = floored + W
    BY <1>3, <1>5, <2>4 DEF RealAllocation, m
  <2> HIDE DEF floored
  <2> QED
    BY <2>2, <2>3, <2>5, <1>1, <1>2
<1> QED BY <1>4, <1>5

(***************************************************************************)
(* The length reallocate() aims at has the same bounds.                    *)
(***************************************************************************)
LEMMA ResizedLengthFits ==
    ASSUME Regular, NEW n \in Requests
    PROVE  /\ ResizedLength(n) \in Nat
           /\ ResizedLength(n) % W = 0
           /\ ResizedLength(n) >= 2 * W
           /\ ResizedLength(n) >= n + W
<1> DEFINE m == n + W
           floored == m - (m % W)
<1>1. n \in Nat /\ n + 3 * W < SizeMod /\ W \in Nat \ {0} /\ SizeMod \in Nat
  BY PoolAssumption DEF Regular
<1>2. m \in Nat /\ m >= W /\ m < SizeMod - W
  BY <1>1
<1>3. m % SizeMod = m
  BY <1>1, <1>2, NoWrap
<1>4. m % W \in 0 .. W - 1 /\ m % W <= m /\ floored % W = 0
  BY <1>2, Division
<1>5. floored \in Nat /\ floored + W \in Nat 
      /\ floored + W > m /\ floored + W <= m + W
  BY <1>4, <1>1, <1>2
<1>6. (floored + W) % W = 0
  BY <1>4, <1>5, <1>1, SumOfMultiples, WordIsMultiple
<1>7. (floored + W) % SizeMod = floored + W
  BY <1>5, <1>1, <1>2, NoWrap
<1>8. m + (W - (m % W)) = floored + W
  BY <1>1, <1>2, <1>4
<1>9. ResizedLength(n) = floored + W
  BY <1>3, <1>7, <1>8 DEF ResizedLength
<1>10. floored + W >= 2 * W
  <2>1. floored >= W
    <3>1. CASE floored = 0
      BY <3>1, <1>1, <1>2, <1>4, <1>5
    <3>2. CASE floored > 0
      <4>1. 0 % W = 0
        BY <1>1, SMT
      <4>2. 0 + W <= floored
        BY <3>2, <4>1, <1>4, <1>5, DifferenceOfMultiples
      <4> QED BY <4>2, <1>1
    <3> QED BY <3>1, <3>2, <1>5
  <2> QED BY <2>1, <1>1, <1>5
<1> QED 
  BY <1>1, <1>5, <1>6, <1>9, <1>10
-----------------------------------------------------------------------------
(***************************************************************************)
(* The inductive invariant.  BlocksTile alone is not inductive: that a cut *)
(* leaves two proper blocks needs whole words and room for two headers.    *)
(***************************************************************************)
PoolInv == /\ PoolTypeOK
           /\ BlocksTile
           /\ HeadersFit
           /\ BlocksAligned
           /\ RequestsHonoured

(***************************************************************************)
(* The part of it that is about the blocks only, as a predicate of any     *)
(* assignment of lengths b.                                                *)
(***************************************************************************)
Shape(b) ==
    /\ DOMAIN b \subseteq 0 .. PoolSize - 1
    /\ b \in [DOMAIN b -> 1 .. PoolSize]
    /\ 0 \in DOMAIN b
    /\ \A o \in DOMAIN b : /\ o + b[o] \in DOMAIN b \cup {PoolSize}
                           /\ \A p \in DOMAIN b : ~(o < p /\ p < o + b[o])
                           /\ 2 * W <= b[o]
                           /\ o % W = 0 
                           /\ b[o] % W = 0

LEMMA PoolInvIsShape ==
    PoolInv <=> /\ Shape(blocks)
                /\ asked \in [used -> Requests]
                /\ used \subseteq Starts
                /\ intact \subseteq used
                /\ allocatedSpace \in Int
                /\ leaked \in 0 .. MaxLeak
                /\ RequestsHonoured
BY DEF PoolInv, Shape, PoolTypeOK, BlocksTile, HeadersFit, BlocksAligned, Starts

LEMMA PoolInvIsShapeNext ==
    /\ Shape(blocks')
    /\ asked' \in [used' -> Requests]
    /\ used' \subseteq Starts'
    /\ intact' \subseteq used'
    /\ allocatedSpace' \in Int
    /\ leaked' \in 0 .. MaxLeak
    /\ RequestsHonoured'
    => PoolInv'
BY DEF PoolInv, Shape, PoolTypeOK, BlocksTile, HeadersFit, BlocksAligned, Starts

LEMMA PoolInvGivesShapeNext == ASSUME PoolInv' PROVE Shape(blocks')
BY DEF PoolInv, Shape, PoolTypeOK, BlocksTile, HeadersFit, BlocksAligned, Starts

(***************************************************************************)
(* A length that may be given to the block at o.                           *)
(***************************************************************************)
Proper(o, bytes) ==
    /\ bytes \in Nat
    /\ bytes % W = 0
    /\ 2 * W <= bytes
    /\ bytes = blocks[o] \/ bytes + 2 * W <= blocks[o]

LEMMA GrantedIsProper ==
    ASSUME Shape(blocks), NEW o \in Starts, NEW bytes \in Nat,
           bytes % W = 0, 2 * W <= bytes, bytes <= blocks[o]
    PROVE  Proper(o, Granted(o, bytes)) /\ bytes <= Granted(o, bytes)
<1>1. blocks[o] \in Nat /\ blocks[o] % W = 0 /\ W \in Nat \ {0}
  BY PoolAssumption DEF Shape, Starts
<1>2. CASE blocks[o] <= bytes + W
  BY <1>1, <1>2, PoolAssumption DEF Proper, Granted
<1>3. CASE bytes + W < blocks[o]
  <2>1. bytes + W \in Nat /\ (bytes + W) % W = 0
    BY <1>1, SumOfMultiples, WordIsMultiple
  <2>2. bytes + W + W <= blocks[o]
    BY <2>1, <1>1, <1>3, DifferenceOfMultiples
  <2>3. Granted(o, bytes) = bytes
    BY <1>1, <1>3 DEF Granted
  <2> QED
    BY <2>2, <2>3, <1>1 DEF Proper
<1> QED BY <1>1, <1>2, <1>3

(***************************************************************************)
(* Cutting a block at a proper length keeps the shape, changes no other    *)
(* block and never makes a block longer.                                   *)
(***************************************************************************)
LEMMA CutKeepsShape ==
    ASSUME Shape(blocks), NEW o \in Starts, NEW bytes, Proper(o, bytes)
    PROVE  /\ Shape(Cut(o, bytes))
           /\ Starts \subseteq DOMAIN Cut(o, bytes)
           /\ Cut(o, bytes)[o] = bytes
           /\ \A p \in Starts \ {o} : Cut(o, bytes)[p] = blocks[p]
<1> DEFINE b == Cut(o, bytes)
           c == o + bytes
<1>1. /\ o \in Nat /\ blocks[o] \in Nat /\ bytes \in Nat /\ W \in Nat \ {0}
      /\ o % W = 0 /\ blocks[o] % W = 0 /\ bytes % W = 0
      /\ PoolSize \in Nat /\ o + blocks[o] <= PoolSize
  <2>1. /\ PoolSize \in Nat /\ W \in Nat \ {0}
        /\ bytes \in Nat /\ bytes % W = 0
    BY PoolAssumption DEF Proper
  <2>2. /\ o \in 0 .. PoolSize - 1 /\ blocks[o] \in 1 .. PoolSize
        /\ o % W = 0 /\ blocks[o] % W = 0
    BY DEF Shape, Starts
  <2>3. o + blocks[o] \in 0 .. PoolSize - 1 \cup {PoolSize}
    BY DEF Shape, Starts
  <2> QED BY <2>1, <2>2, <2>3
<1>2. CASE bytes = blocks[o]
  BY <1>2 DEF Cut, Starts
<1>3. CASE bytes # blocks[o]
  <2>1. bytes + 2 * W <= blocks[o] /\ 2 * W <= bytes
    BY <1>3 DEF Proper
  <2>2. /\ DOMAIN b = Starts \cup {c}
        /\ c \notin Starts /\ c # o
        /\ b[o] = bytes
        /\ b[c] = blocks[o] - bytes
        /\ \A p \in Starts \ {o} : b[p] = blocks[p]
    <3>1. c \notin Starts
      BY <1>1, <2>1 DEF Shape, Starts
    <3> QED
      BY <1>1, <1>3, <2>1, <3>1 DEF Cut
  <2>3. /\ b[c] \in Nat /\ b[c] % W = 0 /\ 2 * W <= b[c]
        /\ c \in Nat /\ c % W = 0
    <3>1. (blocks[o] - bytes) % W = 0
      BY <1>1, <2>1, DifferenceOfMultiples
    <3>2. (o + bytes) % W = 0
      BY <1>1, SumOfMultiples
    <3> QED
      BY <3>1, <3>2, <2>2, <1>1, <2>1
  <2> HIDE DEF b
  <2>4. \A p \in Starts \ {o} : 
           /\ p \in Nat /\ blocks[p] \in Nat
           /\ ~(p < c /\ c < p + blocks[p])
    <3> SUFFICES ASSUME NEW p \in Starts \ {o}
                 PROVE  /\ p \in Nat /\ blocks[p] \in Nat
                        /\ ~(p < c /\ c < p + blocks[p])
      OBVIOUS
    <3>1. p \in Nat /\ blocks[p] \in Nat
      BY DEF Shape, Starts
    <3>2. CASE p < o
      BY <3>1, <3>2, <1>1, <2>1 DEF Shape, Starts
    <3>3. CASE o < p
      BY <3>1, <3>3, <1>1, <2>1 DEF Shape, Starts
    <3> QED BY <3>1, <3>2, <3>3, <1>1
  <2>5. DOMAIN b \subseteq 0 .. PoolSize - 1 /\ 0 \in DOMAIN b
    BY <1>1, <2>1, <2>2, <2>3 DEF Shape, Starts
  <2>6. b \in [DOMAIN b -> 1 .. PoolSize]
    <3>1. b = [p \in DOMAIN b |-> b[p]]
      BY <1>3, <2>2 DEF b, Cut
    <3>2. \A p \in DOMAIN b : b[p] \in 1 .. PoolSize
      BY <1>1, <2>1, <2>2, <2>3 DEF Shape, Starts
    <3> QED BY <3>1, <3>2
  <2>7. \A p \in DOMAIN b : p + b[p] \in DOMAIN b \cup {PoolSize}
    <3> SUFFICES ASSUME NEW p \in DOMAIN b 
                 PROVE  p + b[p] \in DOMAIN b \cup {PoolSize}
      OBVIOUS
    <3>1. CASE p = o
      BY <3>1, <2>2
    <3>2. CASE p = c
      <4>1. c + b[c] = o + blocks[o]
        BY <2>2, <1>1
      <4> QED
        BY <3>2, <4>1, <2>2 DEF Shape, Starts
    <3>3. CASE p \in Starts \ {o}
      BY <3>3, <2>2 DEF Shape, Starts
    <3> QED BY <3>1, <3>2, <3>3, <2>2
  <2>8. \A p \in DOMAIN b, q \in DOMAIN b : ~(p < q /\ q < p + b[p])
    <3> SUFFICES ASSUME NEW p \in DOMAIN b, NEW q \in DOMAIN b,
                        p < q, q < p + b[p]
                 PROVE  FALSE
      OBVIOUS
    <3>1. CASE p = o
      BY <3>1, <1>1, <2>1, <2>2, <2>3 DEF Shape, Starts
    <3>2. CASE p = c
      BY <3>2, <1>1, <2>1, <2>2, <2>3 DEF Shape, Starts
    <3>3. CASE p \in Starts \ {o} /\ q = c
      BY <3>3, <2>2, <2>4
    <3>4. CASE p \in Starts \ {o} /\ q \in Starts
      BY <3>4, <2>2 DEF Shape, Starts
    <3> QED BY <3>1, <3>2, <3>3, <3>4, <2>2
  <2>9. \A p \in DOMAIN b : 2 * W <= b[p] /\ p % W = 0 /\ b[p] % W = 0
    BY <1>1, <2>1, <2>2, <2>3 DEF Shape, Starts
  <2> QED
    BY <2>2, <2>5, <2>6, <2>7, <2>8, <2>9 DEF Shape, b
<1> QED BY <1>2, <1>3
-----------------------------------------------------------------------------
(***************************************************************************)
(* What allocate() finds and takes for a request.                          *)
(***************************************************************************)
LEMMA FoundBlock ==
    ASSUME PoolInv, Regular, NEW n \in Requests, n # 0,
           NEW o \in FirstFit(RealAllocation(n))
    PROVE  /\ o \in Starts /\ o \notin used
           /\ Proper(o, Granted(o, RealAllocation(n)))
           /\ n + W <= Granted(o, RealAllocation(n))
<1>1. o \in Starts /\ o \notin used /\ RealAllocation(n) <= blocks[o]
  BY DEF FirstFit, Fitting, FreeStarts
<1>2. /\ RealAllocation(n) \in Nat /\ RealAllocation(n) % W = 0
      /\ 2 * W <= RealAllocation(n) /\ n + W <= RealAllocation(n)
  BY RealAllocationFits, PoolAssumption
<1>3. /\ Proper(o, Granted(o, RealAllocation(n)))
      /\ RealAllocation(n) <= Granted(o, RealAllocation(n))
  BY <1>1, <1>2, GrantedIsProper, PoolInvIsShape
<1>4. n \in Nat /\ W \in Nat /\ Granted(o, RealAllocation(n)) \in Nat
  BY <1>3, PoolAssumption DEF Proper
<1> QED BY <1>1, <1>2, <1>3, <1>4

LEMMA InitInv == ASSUME Regular, PoolInit PROVE PoolInv
<1>1. DOMAIN blocks = {0} /\ blocks[0] = PoolSize
  BY DEF PoolInit
<1>2. 0 % W = 0
  BY PoolAssumption, SMT
<1>3. Shape(blocks)
  <2>1. blocks \in [{0} -> 1 .. PoolSize]
    BY PoolAssumption DEF PoolInit
  <2> QED
    BY <1>1, <1>2, <2>1, PoolAssumption DEF Shape, Regular
<1>4. used = {} /\ asked \in [used -> Requests]
  BY DEF PoolInit, used
<1> QED
  BY <1>3, <1>4, PoolInvIsShape, PoolAssumption DEF PoolInit, RequestsHonoured

LEMMA AllocateInv ==
    ASSUME PoolInv, Regular, NEW n \in Requests, Allocate(n)
    PROVE  PoolInv'
<1>1. n # 0
  BY DEF Allocate
<1>2. PICK o \in FirstFit(RealAllocation(n)) :
        /\ blocks' = Cut(o, Granted(o, RealAllocation(n)))
        /\ asked' = [p \in used \cup {o} |-> IF p = o THEN n ELSE asked[p]]
        /\ allocatedSpace' = allocatedSpace + Granted(o, RealAllocation(n))
        /\ intact' = intact \cup {o}
        /\ leaked' = leaked
  BY DEF Allocate
<1> DEFINE bytes == Granted(o, RealAllocation(n))
<1>3. o \in Starts /\ o \notin used /\ Proper(o, bytes) /\ n + W <= bytes
  BY <1>1, FoundBlock
<1>4. /\ Shape(blocks') /\ Starts \subseteq Starts' 
      /\ blocks'[o] = bytes /\ \A p \in Starts \ {o} : blocks'[p] = blocks[p]
  BY <1>2, <1>3, CutKeepsShape, PoolInvIsShape DEF Starts
<1>5. bytes \in Int
  BY <1>3 DEF Proper
<1> HIDE DEF bytes
<1>6. used' = used \cup {o} /\ asked' \in [used' -> Requests]
  BY <1>2, PoolInvIsShape DEF used
<1>7. used' \subseteq Starts' /\ intact' \subseteq used' /\ allocatedSpace' \in Int
  BY <1>2, <1>3, <1>4, <1>5, <1>6, PoolInvIsShape DEF bytes
<1>8. RequestsHonoured'
  BY <1>2, <1>3, <1>4, <1>6, PoolInvIsShape DEF RequestsHonoured
<1> QED
  BY <1>2, <1>4, <1>6, <1>7, <1>8, PoolInvIsShape, PoolInvIsShapeNext

LEMMA DeallocateInv ==
    ASSUME PoolInv, NEW o \in used, Deallocate(o)
    PROVE  PoolInv'
<1>1. used' = used \ {o} /\ asked' \in [used' -> Requests]
      /\ \A p \in used' : asked'[p] = asked[p]
  BY PoolInvIsShape DEF Deallocate, used
<1>2. blocks' = blocks /\ leaked' = leaked /\ Starts' = Starts
      /\ intact' = intact \ {o}
  BY DEF Deallocate, Starts
<1>3. allocatedSpace' \in Int
  BY PoolInvIsShape DEF Deallocate, Shape, Starts
<1>4. RequestsHonoured'
  BY <1>1, <1>2, PoolInvIsShape DEF RequestsHonoured
<1> QED
  BY <1>1, <1>2, <1>3, <1>4, PoolInvIsShape, PoolInvIsShapeNext

LEMMA ReallocateKeepsInv ==
    ASSUME PoolInv, Regular, NEW o \in used, NEW n \in Requests, 
           ReallocateKeeps(o, n)
    PROVE  PoolInv'
<1>1. used' = used /\ asked' \in [used' -> Requests] /\ asked'[o] = n
      /\ \A p \in used \ {o} : asked'[p] = asked[p]
  BY PoolInvIsShape DEF ReallocateKeeps, used
<1>2. blocks' = blocks /\ leaked' = leaked /\ Starts' = Starts
      /\ intact' = intact /\ allocatedSpace' = allocatedSpace
  BY DEF ReallocateKeeps, Starts
<1>3. n + W <= blocks[o]
  <2>1. n + W <= ResizedLength(n) /\ ResizedLength(n) <= blocks[o]
    BY ResizedLengthFits, PoolAssumption DEF ReallocateKeeps
  <2>2. n \in Nat /\ W \in Nat /\ ResizedLength(n) \in Nat /\ blocks[o] \in Nat
    BY ResizedLengthFits, PoolAssumption, PoolInvIsShape DEF Shape, Starts
  <2> QED BY <2>1, <2>2
<1>4. RequestsHonoured'
  BY <1>1, <1>2, <1>3, PoolInvIsShape DEF RequestsHonoured
<1> QED
  BY <1>1, <1>2, <1>4, PoolInvIsShape, PoolInvIsShapeNext

LEMMA ShrinkIsProper ==
    ASSUME PoolInv, Regular, NEW o \in used, NEW n \in Requests, 
           ReallocateShrinks(o, n)
    PROVE  Proper(o, ResizedLength(n)) /\ o \in Starts
<1>1. o \in Starts /\ blocks[o] \in Nat
  BY PoolInvIsShape DEF Shape, Starts
<1>2. /\ ResizedLength(n) \in Nat /\ ResizedLength(n) % W = 0 
      /\ 2 * W <= ResizedLength(n) /\ W \in Nat
  BY ResizedLengthFits, PoolAssumption
<1>3. ResizedLength(n) + W < blocks[o]
  BY DEF ReallocateShrinks
<1>4. Granted(o, ResizedLength(n)) = ResizedLength(n)
  BY <1>1, <1>2, <1>3 DEF Granted
<1> QED 
  BY <1>1, <1>2, <1>3, <1>4, GrantedIsProper, PoolInvIsShape

LEMMA ReallocateShrinksInv ==
    ASSUME PoolInv, Regular, NEW o \in used, NEW n \in Requests, 
           ReallocateShrinks(o, n)
    PROVE  PoolInv'
<1> DEFINE new == ResizedLength(n)
<1>1. /\ new \in Nat /\ new % W = 0 /\ 2 * W <= new /\ n + W <= new
      /\ n \in Nat /\ W \in Nat
  BY ResizedLengthFits, PoolAssumption
<1>2. new + W < blocks[o] /\ blocks' = Cut(o, new) 
      /\ leaked' = leaked + (blocks[o] - new)
      /\ leaked + (blocks[o] - new) <= MaxLeak
      /\ asked' = [asked EXCEPT ![o] = n]
      /\ allocatedSpace' = allocatedSpace /\ intact' = intact
  BY DEF ReallocateShrinks
<1> HIDE DEF new
<1>3. o \in Starts /\ blocks[o] \in Nat
  BY PoolInvIsShape DEF Shape, Starts
<1>4. Proper(o, new)
  BY ShrinkIsProper DEF new
<1>5. /\ Shape(blocks') /\ Starts \subseteq Starts' 
      /\ blocks'[o] = new /\ \A p \in Starts \ {o} : blocks'[p] = blocks[p]
  BY <1>2, <1>3, <1>4, CutKeepsShape, PoolInvIsShape DEF Starts
<1>6. used' = used /\ asked' \in [used' -> Requests] /\ asked'[o] = n
      /\ \A p \in used \ {o} : asked'[p] = asked[p]
  BY <1>2, PoolInvIsShape DEF used
<1>7. leaked' \in 0 .. MaxLeak
  BY <1>1, <1>2, <1>3, PoolInvIsShape, PoolAssumption
<1>8. RequestsHonoured'
  BY <1>1, <1>5, <1>6, PoolInvIsShape DEF RequestsHonoured
<1> QED
  BY <1>2, <1>5, <1>6, <1>7, <1>8, PoolInvIsShape, PoolInvIsShapeNext

LEMMA MovesForBytes ==
    ASSUME PoolInv, Regular, NEW o \in used, NEW n \in Requests, 
           ReallocateMoves(o, n)
    PROVE  n # 0
<1>1. blocks[o] < ResizedLength(n) /\ 2 * W <= blocks[o]
  BY PoolInvIsShape DEF ReallocateMoves, Shape, Starts
<1>2. ResizedLength(0) <= 2 * W
  <2>1. W % SizeMod = W /\ (0 + W) = W /\ (2 * W) % SizeMod = 2 * W
    BY PoolAssumption, NoWrap
  <2> QED
    BY <2>1, WordIsMultiple, PoolAssumption DEF ResizedLength
<1>3. ResizedLength(n) \in Nat /\ blocks[o] \in Nat /\ W \in Nat
  BY ResizedLengthFits, PoolAssumption, PoolInvIsShape DEF Shape, Starts
<1> QED BY <1>1, <1>2, <1>3

LEMMA ReallocateMovesInv ==
    ASSUME PoolInv, Regular, NEW o \in used, NEW n \in Requests, 
           ReallocateMoves(o, n)
    PROVE  PoolInv'
<1>1. n # 0
  BY MovesForBytes
<1>2. PICK new \in FirstFit(RealAllocation(n)) :
        /\ blocks' = Cut(new, Granted(new, RealAllocation(n)))
        /\ asked' = [p \in (used \cup {new}) \ {o} |-> 
                       IF p = new THEN n ELSE asked[p]]
        /\ allocatedSpace' = 
              allocatedSpace + Granted(new, RealAllocation(n)) - blocks[o]
        /\ intact' = Copied(o, new, intact) \ {o}
        /\ leaked' = leaked
  BY DEF ReallocateMoves
<1> DEFINE bytes == Granted(new, RealAllocation(n))
<1>3. new \in Starts /\ new \notin used /\ Proper(new, bytes) /\ n + W <= bytes
  BY <1>1, FoundBlock
<1>4. /\ Shape(blocks') /\ Starts \subseteq Starts' 
      /\ blocks'[new] = bytes 
      /\ \A p \in Starts \ {new} : blocks'[p] = blocks[p]
  BY <1>2, <1>3, CutKeepsShape, PoolInvIsShape DEF Starts
<1>5. bytes \in Int /\ blocks[o] \in Int
  BY <1>3, PoolInvIsShape DEF Proper, Shape, Starts
<1>6. /\ used' = (used \cup {new}) \ {o} /\ asked' \in [used' -> Requests]
      /\ new # o
  BY <1>2, <1>3, PoolInvIsShape DEF used
<1>7. used' \subseteq Starts' /\ intact' \subseteq used'
  BY <1>2, <1>3, <1>4, <1>6, PoolInvIsShape DEF Copied
<1>8. allocatedSpace' \in Int
  BY <1>2, <1>5, PoolInvIsShape
<1> HIDE DEF bytes
<1>9. RequestsHonoured'
  BY <1>2, <1>3, <1>4, <1>6, PoolInvIsShape DEF RequestsHonoured
<1> QED
  BY <1>2, <1>4, <1>6, <1>7, <1>8, <1>9, PoolInvIsShape, PoolInvIsShapeNext

LEMMA StutterInv == ASSUME PoolInv, UNCHANGED poolVars PROVE PoolInv'
BY DEF poolVars, PoolInv, PoolTypeOK, BlocksTile, HeadersFit, BlocksAligned, 
       RequestsHonoured, used, Starts

LEMMA NextInv == ASSUME PoolInv, Regular, [PoolNext]_poolVars PROVE PoolInv'
<1>1. CASE UNCHANGED poolVars
  BY <1>1, StutterInv
<1>2. ASSUME NEW n \in Requests, Allocate(n) PROVE PoolInv'
  BY <1>2, AllocateInv
<1>3. ASSUME NEW n \in Requests, AllocateFails(n) PROVE PoolInv'
  BY <1>3, StutterInv DEF AllocateFails
<1>4. ASSUME NEW o \in used, Deallocate(o) PROVE PoolInv'
  BY <1>4, DeallocateInv
<1>5. ASSUME NEW o \in used, NEW n \in Requests, ReallocateKeeps(o, n) 
      PROVE PoolInv'
  BY <1>5, ReallocateKeepsInv
<1>6. ASSUME NEW o \in used, NEW n \in Requests, ReallocateShrinks(o, n) 
      PROVE PoolInv'
  BY <1>6, ReallocateShrinksInv
<1>7. ASSUME NEW o \in used, NEW n \in Requests, ReallocateMoves(o, n) 
      PROVE PoolInv'
  BY <1>7, ReallocateMovesInv
<1>8. ASSUME NEW o \in used, NEW n \in Requests, ReallocateFails(o, n) 
      PROVE PoolInv'
  BY <1>8, StutterInv DEF ReallocateFails
<1> QED
  BY <1>1, <1>2, <1>3, <1>4, <1>5, <1>6, <1>7, <1>8 DEF PoolNext

LEMMA PoolInvariant == ASSUME Regular PROVE PoolSpec => []PoolInv
<1>1. PoolInit => PoolInv
  BY InitInv
<1>2. PoolInv /\ [PoolNext]_poolVars => PoolInv'
  BY NextInv
<1> QED
  BY <1>1, <1>2, PTL DEF PoolSpec

(***************************************************************************)
(* Every reachable state of a pool of whole words is well typed, whatever  *)
(* its size, the width of a word and the sequence of calls.                *)
(***************************************************************************)
THEOREM PoolTypeCorrect == ASSUME Regular PROVE PoolSpec => []PoolTypeOK
<1>1. PoolInv => PoolTypeOK
  BY DEF PoolInv
<1> QED
  BY <1>1, PoolInvariant, PTL

(***************************************************************************)
(* The blocks always tile the pool, hold their headers and lie on words:   *)
(* no two allocations overlap and none leaves the pool.                    *)
(***************************************************************************)
THEOREM PoolNeverOverlaps == 
    ASSUME Regular PROVE PoolSpec => [](BlocksTile /\ HeadersFit /\ BlocksAligned)
<1>1. PoolInv => BlocksTile /\ HeadersFit /\ BlocksAligned
  BY DEF PoolInv
<1> QED
  BY <1>1, PoolInvariant, PTL

(***************************************************************************)
(* Every block, free or not, has room for two headers, whatever was cut.   *)
(***************************************************************************)
THEOREM PoolHeadersFit == ASSUME Regular PROVE PoolSpec => []HeadersFit
<1>1. PoolInv => HeadersFit
  BY DEF PoolInv
<1> QED
  BY <1>1, PoolInvariant, PTL

(***************************************************************************)
(* Every pointer has the room its owner last asked for.                    *)
(***************************************************************************)
THEOREM PoolHonoursRequests == 
    ASSUME Regular PROVE PoolSpec => []RequestsHonoured
<1>1. PoolInv => RequestsHonoured
  BY DEF PoolInv
<1> QED
  BY <1>1, PoolInvariant, PTL
-----------------------------------------------------------------------------
LEMMA CutNeverLengthens ==
    ASSUME Shape(blocks), NEW o \in Starts, NEW bytes, Proper(o, bytes), 
           NEW p \in DOMAIN Cut(o, bytes)
    PROVE  /\ Cut(o, bytes)[p] \in Nat 
           /\ \E q \in Starts : Cut(o, bytes)[p] <= blocks[q]
<1>1. blocks[o] \in Nat /\ bytes \in Nat /\ bytes <= blocks[o] /\ W \in Nat
      /\ \A q \in Starts : blocks[q] \in Nat
  BY PoolAssumption DEF Shape, Starts, Proper
<1>2. CASE bytes = blocks[o]
  BY <1>1, <1>2 DEF Cut, Starts
<1>3. CASE bytes # blocks[o]
  <2>1. CASE p = o
    BY <1>1, <1>3, <2>1 DEF Cut
  <2>2. CASE p # o /\ p = o + bytes
    <3>1. Cut(o, bytes)[p] = blocks[o] - bytes
      BY <1>3, <2>2 DEF Cut
    <3>2. blocks[o] - bytes \in Nat /\ blocks[o] - bytes <= blocks[o]
      BY <1>1
    <3> QED BY <3>1, <3>2
  <2>3. CASE p # o /\ p # o + bytes
    <3>1. p \in Starts /\ Cut(o, bytes)[p] = blocks[p]
      BY <1>3, <2>3 DEF Cut
    <3> QED BY <1>1, <3>1
  <2> QED BY <2>1, <2>2, <2>3
<1> QED BY <1>2, <1>3

LEMMA CutStaysOutOfReach ==
    ASSUME Shape(blocks), NEW o \in Starts, NEW bytes, Proper(o, bytes),
           blocks' = Cut(o, bytes), NEW n \in Nat, 
           \A q \in Starts : blocks[q] < n
    PROVE  \A p \in Starts' : blocks'[p] < n
<1> SUFFICES ASSUME NEW p \in DOMAIN Cut(o, bytes)
             PROVE  Cut(o, bytes)[p] < n
  BY DEF Starts
<1>1. PICK q \in Starts : Cut(o, bytes)[p] <= blocks[q]
  BY CutNeverLengthens
<1>2. Cut(o, bytes)[p] \in Nat /\ blocks[q] \in Nat
  BY CutNeverLengthens DEF Shape, Starts
<1> QED BY <1>1, <1>2

(***************************************************************************)
(* A request that no block of the pool is long enough for is refused for   *)
(* ever: no sequence of calls makes a longer block.                        *)
(***************************************************************************)
THEOREM PoolRefusalIsFinal == ASSUME Regular PROVE PoolSpec => RefusalIsFinal
<1> DEFINE Final == \A n \in Requests : OutOfReach(n) => OutOfReach(n)'
<1>1. ASSUME PoolInv, [PoolNext]_poolVars PROVE Final \/ UNCHANGED poolVars
  <2> SUFFICES ASSUME NEW n \in Requests, OutOfReach(n)
               PROVE  OutOfReach(n)'
    OBVIOUS
  <2>1. \A o \in Starts : blocks[o] < RealAllocation(n)
    BY DEF OutOfReach
  <2>2. RealAllocation(n) \in Nat
    <3>1. CASE n = 0
      BY <3>1 DEF RealAllocation
    <3>2. CASE n # 0
      BY <3>2, RealAllocationFits
    <3> QED BY <3>1, <3>2
  <2>3. CASE blocks' = blocks
    BY <2>1, <2>3 DEF OutOfReach, Starts
  <2>4. ASSUME NEW o \in Starts, NEW bytes, Proper(o, bytes), 
               blocks' = Cut(o, bytes)
        PROVE  OutOfReach(n)'
    BY <1>1, <2>1, <2>2, <2>4, CutStaysOutOfReach, PoolInvIsShape DEF OutOfReach
  <2>5. ASSUME NEW m \in Requests, Allocate(m) PROVE OutOfReach(n)'
    <3>1. PICK o \in FirstFit(RealAllocation(m)) : 
             blocks' = Cut(o, Granted(o, RealAllocation(m)))
      BY <2>5 DEF Allocate
    <3>2. o \in Starts /\ Proper(o, Granted(o, RealAllocation(m)))
      BY <1>1, <2>5, FoundBlock DEF Allocate
    <3> QED BY <3>1, <3>2, <2>4
  <2>6. ASSUME NEW o \in used, NEW m \in Requests, ReallocateShrinks(o, m)
        PROVE  OutOfReach(n)'
    <3>1. o \in Starts /\ Proper(o, ResizedLength(m))
      BY <1>1, <2>6, ShrinkIsProper
    <3> QED BY <2>6, <3>1, <2>4 DEF ReallocateShrinks
  <2>7. ASSUME NEW o \in used, NEW m \in Requests, ReallocateMoves(o, m)
        PROVE  OutOfReach(n)'
    <3>1. PICK new \in FirstFit(RealAllocation(m)) : 
             blocks' = Cut(new, Granted(new, RealAllocation(m)))
      BY <2>7 DEF ReallocateMoves
    <3>2. m # 0
      BY <1>1, <2>7, MovesForBytes
    <3>3. new \in Starts /\ Proper(new, Granted(new, RealAllocation(m)))
      BY <1>1, <3>2, FoundBlock
    <3> QED BY <3>1, <3>3, <2>4
  <2> QED
    BY <1>1, <2>3, <2>5, <2>6, <2>7 
    DEF PoolNext, AllocateFails, Deallocate, ReallocateKeeps, ReallocateFails, poolVars
<1>2. PoolInv /\ [PoolNext]_poolVars => [Final]_poolVars
  BY <1>1
<1> QED
  BY <1>2, PoolInvariant, PTL DEF PoolSpec, RefusalIsFinal
-----------------------------------------------------------------------------
(***************************************************************************)
(* The refinement mapping as an operator of the lengths b and the          *)
(* allocated blocks A, and what it makes of blocks that tile the pool.     *)
(***************************************************************************)
Regions(b, A) == [a \in {o + W : o \in A} |-> b[a - W] - W]

LEMMA RegionsOfBlocks ==
    ASSUME NEW b, Shape(b), NEW A, A \subseteq DOMAIN b
    PROVE  /\ DOMAIN Regions(b, A) = {o + W : o \in A}
           /\ \A o \in A : /\ o \in Nat /\ b[o] \in Nat /\ W \in Nat
                          /\ (o + W) - W = o
                          /\ Regions(b, A)[o + W] = b[o] - W
                          /\ o + W \in Promise!Multiples
                          /\ b[o] - W \in Promise!Multiples
                          /\ 0 < b[o] - W
                          /\ o + b[o] <= PoolSize
           /\ \A o, p \in A : o # p => o + b[o] <= p \/ p + b[p] <= o
<1>1. W \in Nat \ {0} /\ PoolSize \in Nat
  BY PoolAssumption
<1>2. ASSUME NEW o \in A
      PROVE  /\ o \in Nat /\ b[o] \in Nat /\ 2 * W <= b[o]
             /\ o % W = 0 /\ b[o] % W = 0
             /\ o + b[o] <= PoolSize
  BY <1>1 DEF Shape
<1>3. ASSUME NEW o \in A
      PROVE  /\ (o + W) - W = o
             /\ Regions(b, A)[o + W] = b[o] - W
             /\ o + W \in Promise!Multiples
             /\ b[o] - W \in Promise!Multiples
             /\ 0 < b[o] - W
  <2>1. (o + W) - W = o
    BY <1>1, <1>2
  <2>2. W < b[o] 
    BY <1>1, <1>2
  <2>3. (o + W) % W = 0 /\ (b[o] - W) % W = 0
    BY <1>1, <1>2, <2>2, SumOfMultiples, DifferenceOfMultiples, WordIsMultiple
  <2>4. o + W \in 0 .. PoolSize /\ b[o] - W \in 0 .. PoolSize /\ 0 < b[o] - W
    BY <1>1, <1>2, <2>2
  <2> QED
    BY <2>1, <2>3, <2>4 DEF Regions, Promise!Multiples
<1>4. ASSUME NEW o \in A, NEW p \in A, o < p
      PROVE  o + b[o] <= p
  BY <1>2, <1>4 DEF Shape
<1>5. ASSUME NEW o \in A, NEW p \in A, o # p 
      PROVE  o + b[o] <= p \/ p + b[p] <= o
  <2>1. o < p \/ p < o
    BY <1>2, <1>5
  <2> QED BY <2>1, <1>4
<1>6. DOMAIN Regions(b, A) = {o + W : o \in A}
  BY DEF Regions
<1> QED
  BY <1>1, <1>2, <1>3, <1>5, <1>6

LEMMA RegionsAre == 
    /\ regions = Regions(blocks, used) 
    /\ regions' = Regions(blocks', used')
BY DEF regions, Regions

(***************************************************************************)
(* A block that is newly allocated is a region clear of those that stay.   *)
(***************************************************************************)
LEMMA NewRegion ==
    ASSUME NEW b, Shape(b), NEW c, Shape(c), 
           NEW A, A \subseteq DOMAIN b, A \subseteq DOMAIN c, 
           NEW o \in DOMAIN c, o \notin A,
           \A p \in A : c[p] = b[p]
    PROVE  LET r == Regions(b, A)
               a == o + W
               n == c[o] - W
           IN  /\ a \notin DOMAIN r /\ n > 0 /\ a + n <= PoolSize
               /\ \A d \in DOMAIN r : a + n <= d \/ d + r[d] <= a
               /\ a \in Promise!Multiples /\ n \in Promise!Multiples
<1> DEFINE B == A \cup {o}
           r == Regions(b, A)
<1>1. /\ \A p \in B : /\ p \in Nat /\ c[p] \in Nat /\ W \in Nat
                      /\ p + W \in Promise!Multiples
                      /\ c[p] - W \in Promise!Multiples
                      /\ 0 < c[p] - W
                      /\ p + c[p] <= PoolSize
      /\ \A p, q \in B : p # q => p + c[p] <= q \/ q + c[q] <= p
  <2>1. B \subseteq DOMAIN c
    OBVIOUS
  <2> HIDE DEF B
  <2> QED BY <2>1, RegionsOfBlocks
<1>2. DOMAIN r = {p + W : p \in A} /\ \A p \in A : r[p + W] = c[p] - W
  <2>1. DOMAIN r = {p + W : p \in A} 
    BY DEF Regions
  <2>2. \A p \in A : r[p + W] = b[p] - W
    BY RegionsOfBlocks
  <2> HIDE DEF r
  <2> QED BY <2>1, <2>2
<1>3. o + W \notin DOMAIN r
  BY <1>1, <1>2
<1>4. ASSUME NEW d \in DOMAIN r 
      PROVE  (o + W) + (c[o] - W) <= d \/ d + r[d] <= o + W
  <2>1. PICK p \in A : d = p + W /\ r[d] = c[p] - W
    BY <1>2
  <2>2. p \in B /\ o \in B /\ p # o
    OBVIOUS
  <2>3. o + c[o] <= p \/ p + c[p] <= o
    BY <1>1, <2>2
  <2> QED
    BY <2>1, <2>2, <2>3, <1>1
<1>5. (o + W) + (c[o] - W) <= PoolSize
  BY <1>1
<1> QED
  BY <1>1, <1>3, <1>4, <1>5

LEMMA RegionsAreThis ==
    ASSUME NEW c, Shape(c), NEW B, B \subseteq DOMAIN c, 
           NEW f, f = [d \in DOMAIN f |-> f[d]], 
           DOMAIN f = {p + W : p \in B},
           \A p \in B : f[p + W] = c[p] - W
    PROVE  Regions(c, B) = f
<1>1. \A p \in B : Regions(c, B)[p + W] = c[p] - W
  BY RegionsOfBlocks
<1>2. Regions(c, B) = [d \in DOMAIN f |-> Regions(c, B)[d]]
  BY DEF Regions
<1>3. \A d \in DOMAIN f : Regions(c, B)[d] = f[d]
  BY <1>1
<1> QED BY <1>2, <1>3

LEMMA SameAddress == \A o, p \in Nat : o + W = p + W => o = p
BY PoolAssumption

LEMMA AllocateGives ==
    ASSUME PoolInv, PoolInv', Regular, NEW n \in Requests, Allocate(n)
    PROVE  Promise!HeapNext
<1>1. Shape(blocks) /\ Shape(blocks') /\ used \subseteq Starts /\ W \in Nat
  BY PoolInvIsShape, PoolInvGivesShapeNext, PoolAssumption
<1>2. PICK o \in FirstFit(RealAllocation(n)) :
        /\ blocks' = Cut(o, Granted(o, RealAllocation(n)))
        /\ asked' = [p \in used \cup {o} |-> IF p = o THEN n ELSE asked[p]]
  BY DEF Allocate
<1>3. /\ o \in Starts /\ o \notin used 
      /\ Starts \subseteq Starts' /\ \A p \in used : blocks'[p] = blocks[p]
  <2>1. o \in Starts /\ o \notin used 
        /\ Proper(o, Granted(o, RealAllocation(n)))
    BY FoundBlock DEF Allocate
  <2> QED
    BY <2>1, <1>1, <1>2, CutKeepsShape DEF Starts
<1> DEFINE a == o + W
           k == blocks'[o] - W
           r == Regions(blocks, used)
           f == [d \in DOMAIN r \cup {a} |-> IF d = a THEN k ELSE r[d]]
<1>4. /\ a \notin DOMAIN r /\ k > 0 /\ a + k <= PoolSize
      /\ \A d \in DOMAIN r : a + k <= d \/ d + r[d] <= a
      /\ a \in Promise!Multiples /\ k \in Promise!Multiples
  BY <1>1, <1>3, NewRegion DEF Starts
<1>5. used' = used \cup {o}
  BY <1>2 DEF used
<1>6. Regions(blocks', used') = f
  <2>1. /\ DOMAIN r = {p + W : p \in used} 
        /\ \A p \in used : r[p + W] = blocks[p] - W
    BY <1>1, RegionsOfBlocks DEF Starts
  <2>2. DOMAIN f = {p + W : p \in used'} /\ f = [d \in DOMAIN f |-> f[d]]
    BY <2>1, <1>5
  <2>3. \A p \in used' : f[p + W] = blocks'[p] - W
    <3> HIDE DEF r
    <3>1. ASSUME NEW p \in used PROVE f[p + W] = blocks'[p] - W
      <4>1. p + W \in DOMAIN r /\ p + W # a
        BY <2>1, <1>4
      <4> QED BY <4>1, <2>1, <1>3
    <3>2. f[o + W] = blocks'[o] - W
      OBVIOUS
    <3> QED BY <3>1, <3>2, <1>5
  <2>4. used' \subseteq DOMAIN blocks'
    BY <1>1, <1>3, <1>5 DEF Starts
  <2> HIDE DEF f
  <2> QED BY <2>2, <2>3, <2>4, <1>1, RegionsAreThis
<1>7. Promise!Give(a, k)
  BY <1>4, <1>6, RegionsAre DEF Promise!Give, Promise!Live, Promise!Clear
<1> QED
  BY <1>4, <1>7 DEF Promise!HeapNext

LEMMA DeallocateTakes ==
    ASSUME PoolInv, NEW o \in used, Deallocate(o)
    PROVE  Promise!HeapNext
<1>1. Shape(blocks) /\ used \subseteq Starts /\ W \in Nat
  BY PoolInvIsShape, PoolAssumption
<1>2. used' = used \ {o} /\ blocks' = blocks
  BY DEF Deallocate, used
<1> DEFINE r == Regions(blocks, used)
           f == [d \in DOMAIN r \ {o + W} |-> r[d]]
<1>3. /\ DOMAIN r = {p + W : p \in used} 
      /\ \A p \in used : r[p + W] = blocks[p] - W /\ p \in Nat
  BY <1>1, RegionsOfBlocks DEF Starts
<1> HIDE DEF r
<1>4. Regions(blocks', used') = f
  <2>1. DOMAIN f = {p + W : p \in used'} /\ f = [d \in DOMAIN f |-> f[d]]
    BY <1>2, <1>3, SameAddress
  <2>2. \A p \in used' : f[p + W] = blocks'[p] - W
    BY <1>2, <1>3, SameAddress
  <2>3. used' \subseteq DOMAIN blocks'
    BY <1>1, <1>2 DEF Starts
  <2> HIDE DEF f
  <2> QED BY <2>1, <2>2, <2>3, <1>1, <1>2, RegionsAreThis
<1>5. Promise!Take(o + W) /\ o + W \in Promise!Live
  BY <1>3, <1>4, RegionsAre DEF Promise!Take, Promise!Live, r
<1> QED
  BY <1>5 DEF Promise!HeapNext

LEMMA ReallocateShrinksRegion ==
    ASSUME PoolInv, PoolInv', Regular, NEW o \in used, NEW n \in Requests, 
           ReallocateShrinks(o, n)
    PROVE  Promise!HeapNext
<1>1. Shape(blocks) /\ Shape(blocks') /\ used \subseteq Starts /\ W \in Nat
  BY PoolInvIsShape, PoolInvGivesShapeNext, PoolAssumption
<1>2. /\ ResizedLength(n) + W < blocks[o] 
      /\ blocks' = Cut(o, ResizedLength(n)) /\ used' = used
  BY PoolInvIsShape DEF ReallocateShrinks, used
<1>3. ResizedLength(n) \in Nat /\ blocks[o] \in Nat
  BY <1>1, ResizedLengthFits DEF Shape, Starts
<1>4. Proper(o, ResizedLength(n))
  BY ShrinkIsProper
<1>5. /\ Starts \subseteq Starts' /\ blocks'[o] = ResizedLength(n)
      /\ \A p \in used \ {o} : blocks'[p] = blocks[p]
  BY <1>1, <1>2, <1>4, CutKeepsShape DEF Starts
<1> DEFINE a == o + W
           k == blocks'[o] - W
           r == Regions(blocks, used)
           f == [r EXCEPT ![a] = k]
<1>6. /\ DOMAIN r = {p + W : p \in used} 
      /\ \A p \in used : r[p + W] = blocks[p] - W /\ p \in Nat
  BY <1>1, RegionsOfBlocks DEF Starts
<1>7. a \in Promise!Multiples /\ k \in Promise!Multiples /\ 0 < k
  <2>1. used \subseteq DOMAIN blocks'
    BY <1>1, <1>5 DEF Starts
  <2> QED BY <2>1, <1>1, RegionsOfBlocks
<1>8. k < r[a]
  BY <1>1, <1>2, <1>3, <1>5, <1>6
<1> HIDE DEF r
<1>9. Regions(blocks', used') = f
  <2>1. DOMAIN f = {p + W : p \in used'} /\ f = [d \in DOMAIN f |-> f[d]]
    BY <1>2, <1>6
  <2>2. \A p \in used' : f[p + W] = blocks'[p] - W
    BY <1>2, <1>5, <1>6, SameAddress
  <2>3. used' \subseteq DOMAIN blocks'
    BY <1>1, <1>2, <1>5 DEF Starts
  <2> HIDE DEF f
  <2> QED BY <2>1, <2>2, <2>3, <1>1, RegionsAreThis
<1>10. Promise!Shrink(a, k) /\ a \in Promise!Live
  BY <1>6, <1>7, <1>8, <1>9, RegionsAre DEF Promise!Shrink, Promise!Live, r
<1> QED
  BY <1>7, <1>10 DEF Promise!HeapNext

LEMMA ReallocateMovesRegion ==
    ASSUME PoolInv, PoolInv', Regular, NEW o \in used, NEW n \in Requests, 
           ReallocateMoves(o, n)
    PROVE  Promise!HeapNext
<1>1. Shape(blocks) /\ Shape(blocks') /\ used \subseteq Starts /\ W \in Nat
  BY PoolInvIsShape, PoolInvGivesShapeNext, PoolAssumption
<1>2. PICK new \in FirstFit(RealAllocation(n)) :
        /\ blocks' = Cut(new, Granted(new, RealAllocation(n)))
        /\ asked' = [p \in (used \cup {new}) \ {o} |-> 
                       IF p = new THEN n ELSE asked[p]]
  BY DEF ReallocateMoves
<1>3. /\ new \in Starts /\ new \notin used 
      /\ Starts \subseteq Starts' /\ \A p \in used : blocks'[p] = blocks[p]
  <2>1. new \in Starts /\ new \notin used 
        /\ Proper(new, Granted(new, RealAllocation(n)))
    BY FoundBlock, MovesForBytes
  <2> QED
    BY <2>1, <1>1, <1>2, CutKeepsShape DEF Starts
<1> DEFINE a == o + W
           b == new + W
           k == blocks'[new] - W
           r == Regions(blocks, used)
           f == [d \in (DOMAIN r \ {a}) \cup {b} |-> IF d = b THEN k ELSE r[d]]
<1>4. /\ b \notin DOMAIN r /\ k > 0 /\ b + k <= PoolSize
      /\ \A d \in DOMAIN r : b + k <= d \/ d + r[d] <= b
      /\ b \in Promise!Multiples /\ k \in Promise!Multiples
  BY <1>1, <1>3, NewRegion DEF Starts
<1>5. used' = (used \cup {new}) \ {o} /\ new # o
  BY <1>2, <1>3 DEF used
<1>6. /\ DOMAIN r = {p + W : p \in used} 
      /\ \A p \in used : r[p + W] = blocks[p] - W /\ p \in Nat
  BY <1>1, RegionsOfBlocks DEF Starts
<1> HIDE DEF r
<1>7. Regions(blocks', used') = f
  <2>1. DOMAIN f = {p + W : p \in used'} /\ f = [d \in DOMAIN f |-> f[d]]
    BY <1>5, <1>6, SameAddress
  <2>2. \A p \in used' : f[p + W] = blocks'[p] - W
    <3>1. ASSUME NEW p \in used \ {o} PROVE f[p + W] = blocks'[p] - W
      <4>1. p + W \in DOMAIN r \ {a} /\ p + W # b
        BY <1>4, <1>6, SameAddress
      <4> QED BY <4>1, <1>3, <1>6
    <3>2. f[new + W] = blocks'[new] - W
      OBVIOUS
    <3> QED BY <3>1, <3>2, <1>5
  <2>3. used' \subseteq DOMAIN blocks'
    BY <1>1, <1>3, <1>5 DEF Starts
  <2> HIDE DEF f
  <2> QED BY <2>1, <2>2, <2>3, <1>1, RegionsAreThis
<1>8. Promise!Exchange(a, b, k) /\ a \in Promise!Live
  BY <1>4, <1>6, <1>7, RegionsAre 
  DEF Promise!Exchange, Promise!Live, Promise!Clear, r
<1> QED
  BY <1>4, <1>8 DEF Promise!HeapNext

(***************************************************************************)
(* FixedPool implements Heap: every operation gives, takes, shrinks or     *)
(* exchanges one region clear of the others, or changes no region.         *)
(***************************************************************************)
THEOREM PoolImplementsHeap == ASSUME Regular PROVE PoolSpec => ImplementsHeap
<1>1. PoolInit => Promise!HeapInit
  BY DEF PoolInit, Promise!HeapInit, Promise!Live, regions, used
<1>2. PoolInv /\ PoolInv' /\ [PoolNext]_poolVars => [Promise!HeapNext]_regions
  <2> SUFFICES ASSUME PoolInv, PoolInv', [PoolNext]_poolVars
               PROVE  [Promise!HeapNext]_regions
    OBVIOUS
  <2>1. CASE blocks' = blocks /\ used' = used
    BY <2>1, RegionsAre
  <2>2. ASSUME NEW n \in Requests, Allocate(n) PROVE Promise!HeapNext
    BY <2>2, AllocateGives
  <2>3. ASSUME NEW o \in used, Deallocate(o) PROVE Promise!HeapNext
    BY <2>3, DeallocateTakes
  <2>4. ASSUME NEW o \in used, NEW n \in Requests, ReallocateShrinks(o, n)
        PROVE  Promise!HeapNext
    BY <2>4, ReallocateShrinksRegion
  <2>5. ASSUME NEW o \in used, NEW n \in Requests, ReallocateMoves(o, n)
        PROVE  Promise!HeapNext
    BY <2>5, ReallocateMovesRegion
  <2>6. ASSUME NEW o \in used, NEW n \in Requests, ReallocateKeeps(o, n)
        PROVE  blocks' = blocks /\ used' = used
    BY <2>6, PoolInvIsShape DEF ReallocateKeeps, used
  <2>7. UNCHANGED poolVars => blocks' = blocks /\ used' = used
    BY DEF poolVars, used
  <2> QED
    BY <2>1, <2>2, <2>3, <2>4, <2>5, <2>6, <2>7 
    DEF PoolNext, AllocateFails, ReallocateFails
<1>3. Promise!HeapInit /\ [][Promise!HeapNext]_regions <=> ImplementsHeap
  BY DEF ImplementsHeap, Promise!HeapSpec
<1> QED
  BY <1>1, <1>2, <1>3, PoolInvariant, PTL DEF PoolSpec
-----------------------------------------------------------------------------
(***************************************************************************)
(* Accounting follows from PoolInv step by step: allocated blocks are cut, *)
(* taken and returned one at a time.  To cut a block changes the length of *)
(* no other.                                                               *)
(***************************************************************************)
SumUsed == SumOf(blocks, used)
Books == allocatedSpace = SumUsed + leaked

LEMMA UsedIsFinite == 
    ASSUME PoolInv 
    PROVE  /\ IsFiniteSet(used) /\ used \subseteq Starts
           /\ IntsOn(blocks, Starts) /\ IntsOn(blocks, used)
<1>1. used \subseteq Starts /\ Starts \subseteq 0 .. PoolSize - 1 
      /\ IntsOn(blocks, Starts) /\ IntsOn(blocks, used)
  BY DEF PoolInv, PoolTypeOK, IntsOn
<1>2. IsFiniteSet(0 .. PoolSize - 1)
  BY FS_Interval, PoolAssumption
<1> QED BY <1>1, <1>2, FS_Subset

\* The sum after one block is cut, and then taken or not.
LEMMA SumAfterCut ==
    ASSUME PoolInv, NEW o \in Starts, NEW b, NEW bytes \in Int, b[o] = bytes,
           \A p \in Starts \ {o} : b[p] = blocks[p]
    PROVE  /\ o \notin used => SumOf(b, used \cup {o}) = SumOf(blocks, used) + bytes
           /\ o \notin used => SumOf(b, used) = SumOf(blocks, used)
           /\ o \in used => SumOf(b, used) = SumOf(blocks, used) - blocks[o] + bytes
           /\ SumOf(blocks, used) \in Int
<1>1. /\ IsFiniteSet(used) /\ used \subseteq Starts
      /\ IntsOn(blocks, Starts) /\ IntsOn(blocks, used)
  BY UsedIsFinite
<1>2. IntsOn(b, used \cup {o})
  BY <1>1 DEF IntsOn
<1>3. IsFiniteSet(used \cup {o}) /\ IsFiniteSet(used \ {o})
  BY <1>1, FS_AddElement, FS_Subset
<1>4. SameOn(b, blocks, used \ {o})
  BY <1>1 DEF SameOn
<1>5. SumOf(b, used \ {o}) = SumOf(blocks, used \ {o})
  BY <1>3, <1>4, SumOfSame
<1> DEFINE rest == SumOf(blocks, used \ {o})
<1>6. SumOf(b, used \cup {o}) = bytes + rest
  <2>1. o \in used \cup {o}
    OBVIOUS
  <2>2. SumOf(b, used \cup {o}) = bytes + SumOf(b, (used \cup {o}) \ {o})
    BY <1>2, <1>3, <2>1, SumOfRemove
  <2>3. (used \cup {o}) \ {o} = used \ {o}
    OBVIOUS
  <2> QED BY <1>5, <2>2, <2>3
<1>7. SumOf(blocks, used) \in Int
  BY <1>1, SumOfInts
<1>8. rest \in Int
  <2>1. IntsOn(blocks, used \ {o})
    BY <1>1 DEF IntsOn
  <2> QED BY <1>3, <2>1, SumOfInts
<1>9. ASSUME o \notin used
      PROVE  /\ SumOf(b, used \cup {o}) = SumOf(blocks, used) + bytes
             /\ SumOf(b, used) = SumOf(blocks, used)
  <2>1. used \ {o} = used
    BY <1>9
  <2>2. rest = SumOf(blocks, used)
    BY <2>1
  <2>3. SumOf(b, used) = SumOf(blocks, used)
    BY <1>5, <2>1
  <2> HIDE DEF rest
  <2> QED BY <1>6, <1>7, <2>2, <2>3
<1>10. ASSUME o \in used
       PROVE  SumOf(b, used) = SumOf(blocks, used) - blocks[o] + bytes
  <2>1. used \cup {o} = used
    BY <1>10
  <2>2. SumOf(b, used) = bytes + rest
    BY <1>6, <2>1
  <2>3. SumOf(blocks, used) = blocks[o] + rest
    BY <1>1, <1>10, SumOfRemove
  <2>4. blocks[o] \in Int
    BY <1>1 DEF IntsOn
  <2> HIDE DEF rest
  <2> QED BY <1>8, <2>2, <2>3, <2>4
<1> QED BY <1>7, <1>9, <1>10

LEMMA BooksBalance == 
    ASSUME PoolInv, PoolInv', Regular, Books, [PoolNext]_poolVars PROVE Books'
<1>1. /\ SumUsed \in Int /\ leaked \in Int /\ allocatedSpace = SumUsed + leaked
      /\ \A o \in Starts : blocks[o] \in Int
  <2>1. SumUsed \in Int
    BY UsedIsFinite, SumOfInts DEF SumUsed
  <2>2. leaked \in Int
    BY PoolAssumption DEF PoolInv, PoolTypeOK
  <2>3. \A o \in Starts : blocks[o] \in Int
    BY UsedIsFinite DEF IntsOn
  <2> QED BY <2>1, <2>2, <2>3 DEF Books
<1>2. ASSUME used' = used, blocks' = blocks, allocatedSpace' = allocatedSpace, 
             leaked' = leaked 
      PROVE  Books'
  BY <1>1, <1>2 DEF Books, SumUsed
<1>3. ASSUME NEW n \in Requests, Allocate(n) PROVE Books'
  <2>1. PICK o \in FirstFit(RealAllocation(n)) :
          /\ blocks' = Cut(o, Granted(o, RealAllocation(n)))
          /\ asked' = [p \in used \cup {o} |-> IF p = o THEN n ELSE asked[p]]
          /\ allocatedSpace' = allocatedSpace + Granted(o, RealAllocation(n))
          /\ leaked' = leaked
    BY <1>3 DEF Allocate
  <2> DEFINE bytes == Granted(o, RealAllocation(n))
  <2>2. o \in Starts /\ o \notin used /\ Proper(o, bytes)
    BY <1>3, FoundBlock DEF Allocate
  <2>3. bytes \in Int /\ used' = used \cup {o}
    BY <2>1, <2>2 DEF Proper, used
  <2>4. blocks'[o] = bytes /\ \A p \in Starts \ {o} : blocks'[p] = blocks[p]
    BY <2>1, <2>2, CutKeepsShape, PoolInvIsShape
  <2> HIDE DEF bytes
  <2>5. SumOf(blocks', used \cup {o}) = SumUsed + bytes
    BY <2>2, <2>3, <2>4, SumAfterCut DEF SumUsed
  <2>6. SumUsed' = SumUsed + bytes
    BY <2>3, <2>5 DEF SumUsed
  <2>7. allocatedSpace' = allocatedSpace + bytes /\ leaked' = leaked
    BY <2>1 DEF bytes
  <2> QED BY <1>1, <2>3, <2>6, <2>7 DEF Books
<1>4. ASSUME NEW o \in used, Deallocate(o) PROVE Books'
  <2>1. /\ used' = used \ {o} /\ blocks' = blocks /\ leaked' = leaked
        /\ allocatedSpace' = allocatedSpace - blocks[o]
    BY <1>4 DEF Deallocate, used
  <2>2. SumUsed = blocks[o] + SumOf(blocks, used \ {o})
    BY UsedIsFinite, SumOfRemove DEF SumUsed
  <2>3. IsFiniteSet(used \ {o}) /\ IntsOn(blocks, used \ {o}) /\ blocks[o] \in Int
    BY UsedIsFinite, FS_Subset DEF IntsOn
  <2>4. SumOf(blocks, used \ {o}) \in Int
    BY <2>3, SumOfInts
  <2>5. SumUsed' = SumUsed - blocks[o]
    BY <2>1, <2>2, <2>3, <2>4 DEF SumUsed
  <2> QED BY <1>1, <2>1, <2>3, <2>5 DEF Books
<1>5. ASSUME NEW o \in used, NEW n \in Requests, ReallocateShrinks(o, n)
      PROVE  Books'
  <2> DEFINE new == ResizedLength(n)
  <2>1. /\ used' = used /\ blocks' = Cut(o, new) 
        /\ allocatedSpace' = allocatedSpace
        /\ leaked' = leaked + (blocks[o] - new)
    BY <1>5 DEF ReallocateShrinks, used
  <2>2. o \in Starts /\ Proper(o, new) /\ new \in Int
    BY <1>5, ShrinkIsProper DEF Proper
  <2>3. blocks'[o] = new /\ \A p \in Starts \ {o} : blocks'[p] = blocks[p]
    BY <2>1, <2>2, CutKeepsShape, PoolInvIsShape
  <2> HIDE DEF new
  <2>4. SumOf(blocks', used) = SumUsed - blocks[o] + new
    BY <2>2, <2>3, SumAfterCut DEF SumUsed
  <2>5. SumUsed' = SumUsed - blocks[o] + new
    BY <2>1, <2>4 DEF SumUsed
  <2> QED BY <1>1, <2>1, <2>2, <2>5 DEF Books
<1>6. ASSUME NEW o \in used, NEW n \in Requests, ReallocateMoves(o, n)
      PROVE  Books'
  <2>1. PICK new \in FirstFit(RealAllocation(n)) :
          /\ blocks' = Cut(new, Granted(new, RealAllocation(n)))
          /\ asked' = [p \in (used \cup {new}) \ {o} |-> 
                         IF p = new THEN n ELSE asked[p]]
          /\ allocatedSpace' = 
                allocatedSpace + Granted(new, RealAllocation(n)) - blocks[o]
          /\ leaked' = leaked
    BY <1>6 DEF ReallocateMoves
  <2> DEFINE bytes == Granted(new, RealAllocation(n))
  <2>2. new \in Starts /\ new \notin used /\ Proper(new, bytes)
    BY <1>6, MovesForBytes, FoundBlock
  <2>3. bytes \in Int /\ used' = (used \cup {new}) \ {o} /\ o # new
    BY <2>1, <2>2 DEF Proper, used
  <2>4. blocks'[new] = bytes /\ \A p \in Starts \ {new} : blocks'[p] = blocks[p]
    BY <2>1, <2>2, CutKeepsShape, PoolInvIsShape
  <2> HIDE DEF bytes
  <2>5. SumOf(blocks', used \cup {new}) = SumUsed + bytes
    BY <2>2, <2>3, <2>4, SumAfterCut DEF SumUsed
  <2>6. o \in Starts /\ blocks'[o] = blocks[o] /\ blocks[o] \in Int
    BY <1>1, <2>3, <2>4, UsedIsFinite
  <2> DEFINE both == used \cup {new}
  <2>7. IsFiniteSet(both) /\ IntsOn(blocks', both) /\ o \in both
    BY <1>1, <2>3, <2>4, UsedIsFinite, FS_AddElement DEF IntsOn
  <2>8. IsFiniteSet(both \ {o}) /\ IntsOn(blocks', both \ {o})
    BY <2>7, FS_Subset DEF IntsOn
  <2> HIDE DEF both
  <2>9. SumOf(blocks', both) = blocks'[o] + SumOf(blocks', both \ {o})
    BY <2>7, SumOfRemove
  <2>10. SumOf(blocks', both \ {o}) \in Int
    BY <2>8, SumOfInts
  <2>11. SumUsed' = SumUsed + bytes - blocks[o]
    <3>1. SumOf(blocks', both) = SumUsed + bytes
      BY <2>5 DEF both
    <3>2. SumUsed' = SumOf(blocks', both \ {o})
      BY <2>3 DEF SumUsed, both
    <3> QED BY <1>1, <2>3, <2>6, <2>9, <2>10, <3>1, <3>2
  <2>12. allocatedSpace' = allocatedSpace + bytes - blocks[o] /\ leaked' = leaked
    BY <2>1 DEF bytes
  <2> QED BY <1>1, <2>3, <2>6, <2>11, <2>12 DEF Books
<1>7. ASSUME NEW o \in used, NEW n \in Requests, ReallocateKeeps(o, n) PROVE Books'
  <2>1. used' = used
    BY <1>7 DEF ReallocateKeeps, used
  <2> QED BY <1>2, <1>7, <2>1 DEF ReallocateKeeps
<1>8. CASE UNCHANGED poolVars
  BY <1>2, <1>8 DEF poolVars, used
<1> QED
  BY <1>3, <1>4, <1>5, <1>6, <1>7, <1>8 DEF PoolNext, AllocateFails, ReallocateFails

(***************************************************************************)
(* allocated() is what the allocated blocks take up until a block is shrunk *)
(* in place, and never less: Books says by how much it is too high.        *)
(***************************************************************************)
THEOREM PoolAccounting == ASSUME Regular PROVE PoolSpec => []Accounting
<1>1. PoolInit => Books
  <2> SUFFICES ASSUME PoolInit PROVE Books
    OBVIOUS
  <2>1. used = {}
    BY DEF PoolInit, used
  <2>2. SumOf(blocks, {}) = 0
    BY SumOfNone
  <2> QED BY <2>1, <2>2 DEF PoolInit, Books, SumUsed
<1>2. PoolInv /\ PoolInv' /\ Books /\ [PoolNext]_poolVars => Books'
  BY BooksBalance
<1>3. PoolSpec => []Books
  BY <1>1, <1>2, PoolInvariant, PTL DEF PoolSpec
<1>4. PoolInv /\ Books => Accounting
  <2> SUFFICES ASSUME PoolInv, Books PROVE Accounting
    OBVIOUS
  <2>1. leaked \in Nat
    BY PoolAssumption DEF PoolInv, PoolTypeOK
  <2>2. SumUsed \in Int
    BY UsedIsFinite, SumOfInts DEF SumUsed
  <2>3. SumUsed = MapThenSumSet(LAMBDA o : blocks[o], used)
    BY DEF SumUsed, SumOf
  <2>4. (leaked = 0 => allocatedSpace = SumUsed) /\ SumUsed <= allocatedSpace
    BY <2>1, <2>2 DEF Books
  <2> QED BY <2>3, <2>4 DEF Accounting, Shrunk
<1> QED
  BY <1>3, <1>4, PoolInvariant, PTL
-----------------------------------------------------------------------------
(***************************************************************************)
(* What the mutexes and their guards guarantee to any number of threads.   *)
(* The flag of each of them is set only while a guard will clear it; only  *)
(* Mutex excludes: for SpinLock the statement is false.                    *)
(***************************************************************************)

(***************************************************************************)
(* A std::mutex is locked while somebody owns it and is never seen free    *)
(* without being taken.                                                    *)
(***************************************************************************)
OwnersHold == kind = "Mutex" =>
    /\ \A t \in Threads : guard[t] # "seen"
    /\ \A t \in Threads : guard[t] = "owns" => held

LockInv == LockTypeOK /\ HeldHasOwner /\ OwnersHold 
           /\ StdMutexExcludes

(***************************************************************************)
(* The inductive invariant is kept by every step of every guard.           *)
(***************************************************************************)
LEMMA LockInitInv == LockInit => LockInv
BY DEF LockInit, LockInv, LockTypeOK, GuardState, HeldHasOwner, OwnersHold,
       StdMutexExcludes, MutualExclusion, Owners

LEMMA LockNextInv == LockInv /\ [LockNext]_lockVars => LockInv'
<1> SUFFICES ASSUME LockInv, [LockNext]_lockVars PROVE LockInv'
  OBVIOUS
<1> USE DEF LockInv, LockTypeOK, GuardState, HeldHasOwner, OwnersHold,
            StdMutexExcludes, MutualExclusion, Owners, Move
<1>1. ASSUME NEW t \in Threads, NEW from \in {"none", "waiting"}, Grant(t, from) 
      PROVE  LockInv'
  <2>1. CASE kind = "SpinLock" /\ Move(t, from, "seen") /\ held' = held /\ ~held
    BY <2>1
  <2>2. CASE kind = "Mutex" /\ Move(t, from, "owns") /\ held' = TRUE /\ ~held
    BY <2>2
  <2>3. CASE kind = "MutexDummy" /\ Move(t, from, "owns") /\ held' = held
    BY <1>1, <2>3
  <2> QED BY <1>1, <2>1, <2>2, <2>3 DEF Grant
<1>2. ASSUME NEW t \in Threads, LockStep(t) PROVE LockInv'
  <2>1. CASE Enter(t)    BY <2>1 DEF Enter
  <2>2. CASE Acquire(t)  BY <1>1, <2>2 DEF Acquire
  <2>3. CASE Store(t)    BY <2>3 DEF Store
  <2>4. CASE TryAcquire(t)  BY <1>1, <2>4 DEF TryAcquire
  <2>5. CASE TryMiss(t)  BY <2>5 DEF TryMiss
  <2>6. CASE Unlock(t)   BY <2>6 DEF Unlock
  <2>7. CASE Leave(t)    BY <2>7 DEF Leave
  <2> QED BY <1>2, <2>1, <2>2, <2>3, <2>4, <2>5, <2>6, <2>7 DEF LockStep
<1>3. CASE UNCHANGED lockVars
  BY <1>3 DEF lockVars
<1> QED BY <1>2, <1>3 DEF LockNext

(***************************************************************************)
(* The invariant holds in every behaviour.                                 *)
(***************************************************************************)
THEOREM LockInvariant == LockSpec => []LockInv
<1> QED BY LockInitInv, LockNextInv, PTL DEF LockSpec

(***************************************************************************)
(* The flag of any of the mutexes is set only while a guard will clear it. *)
(***************************************************************************)
THEOREM FlagHasOwner == LockSpec => [](LockTypeOK /\ HeldHasOwner)
<1>1. LockInv => LockTypeOK /\ HeldHasOwner
  BY DEF LockInv
<1> QED BY <1>1, LockInvariant, PTL

(***************************************************************************)
(* Guards of a Mutex exclude one another.                                  *)
(***************************************************************************)
THEOREM MutexExcludes == LockSpec => []StdMutexExcludes
<1>1. LockInv => StdMutexExcludes
  BY DEF LockInv
<1> QED BY <1>1, LockInvariant, PTL

(***************************************************************************)
(* Only the destructor of a guard that took the lock clears the flag.      *)
(***************************************************************************)
THEOREM OwnersRelease == LockSpec => OnlyOwnerReleases
<1> DEFINE Releases == held /\ ~held' => \E t \in Owners : guard'[t] = "none"
<1>1. LockInv /\ [LockNext]_lockVars => [Releases]_lockVars
  <2> SUFFICES ASSUME LockTypeOK, LockNext, held, ~held' 
               PROVE  \E t \in Owners : guard'[t] = "none"
    BY DEF LockInv
  <2>1. PICK t \in Threads : LockStep(t)
    BY DEF LockNext
  <2>2. Unlock(t)
    BY <2>1 DEF LockStep, Enter, Acquire, Store, TryAcquire, TryMiss, Leave,
                Grant, Move, LockTypeOK
  <2>3. guard[t] = "owns" /\ guard'[t] = "none"
    BY <2>2 DEF Unlock, Move, LockTypeOK
  <2> QED BY <2>3 DEF Owners
<1> QED BY <1>1, LockInvariant, PTL DEF LockSpec, OnlyOwnerReleases
-----------------------------------------------------------------------------
(***************************************************************************)
(* The inductive invariant: those of the client's handles that are to a    *)
(* slot carry its generation, the retired ones an older one.               *)
(***************************************************************************)
OwnedCurrent == 
    \A h \in owned : h.index \in Slots => h.generation = next[h.index].generation
RetiredOlder == 
    \A h \in retired : h.index \in Slots => h.generation < next[h.index].generation

HandleInv == TypeOK /\ OwnedCurrent /\ RetiredOlder

LEMMA HandleModType == HandleMod \in Nat \ {0}
BY HandleAssumption DEF HandleMod

LEMMA HandleModWraps == ASSUME NEW n \in Int PROVE n % HandleMod \in 0 .. HandleMod - 1
BY HandleModType, SMT

LEMMA LinkedType ==
    ASSUME NEW n \in 1 .. MaskIndex - 1
    PROVE  DOMAIN Linked(n) = 0 .. n - 1 /\ Linked(n) \in [0 .. n - 1 -> Words]
BY HandleAssumption DEF Linked, Pack, LastGeneration, Words

LEMMA SizesFit == ASSUME NEW n \in 1 .. MaskIndex - 1 PROVE n \in 0 .. HandleMod - 1
<1>1. MaskIndex + 1 \in Nat /\ Generations \in Nat /\ Generations >= 2 /\ MaskIndex \in Nat
  BY HandleAssumption
<1>2. Generations * (MaskIndex + 1) >= 2 * (MaskIndex + 1)
  BY <1>1
<1> QED
  BY <1>1, <1>2 DEF HandleMod

LEMMA HandleInit == Init => HandleInv
<1> SUFFICES ASSUME Init PROVE HandleInv
  OBVIOUS
<1>1. next = Linked(InitSize) /\ InitSize \in 1 .. MaskIndex - 1
  BY HandleAssumption DEF Init
<1>2. TypeOK
  <2>1. Slots = 0 .. InitSize - 1 /\ next \in [0 .. InitSize - 1 -> Words]
    BY <1>1, LinkedType DEF Slots
  <2>2. mStart \in 0 .. MaskIndex
    BY HandleAssumption DEF Init
  <2>3. mFree \in 0 .. HandleMod - 1
    BY <1>1, SizesFit DEF Init
  <2> QED BY <1>1, <2>1, <2>2, <2>3 DEF Init, TypeOK
<1>3. OwnedCurrent /\ RetiredOlder
  BY DEF Init, OwnedCurrent, RetiredOlder
<1> QED BY <1>2, <1>3 DEF HandleInv

(***************************************************************************)
(* create() takes the generation of the slot as it is; where it reads past *)
(* the end, the handle is to no slot.                                      *)
(***************************************************************************)
LEMMA CreateStep == ASSUME HandleInv, NEW e \in First, Create(e) PROVE HandleInv'
<1> DEFINE h == Pack(mStart, e.generation)
<1>1. /\ next' = next /\ retired' = retired 
      /\ owned' = owned \cup {h} /\ mStart' = e.index
      /\ mFree' = (mFree - 1) % HandleMod
  BY DEF Create
<1>2. Slots' = Slots
  BY <1>1 DEF Slots
<1>3. e \in Words
  <2>1. Beyond \subseteq Words
    BY HandleAssumption DEF Words, LastGeneration
  <2> QED BY <2>1 DEF First, HandleInv, TypeOK
<1>4. h \in Words
  BY <1>3 DEF Pack, HandleInv, TypeOK, Words
<1>5. mFree' \in 0 .. HandleMod - 1
  <2>1. mFree - 1 \in Int
    BY HandleModType DEF HandleInv, TypeOK
  <2> QED BY <1>1, <2>1, HandleModWraps
<1>6. TypeOK'
  BY <1>1, <1>2, <1>3, <1>4, <1>5 DEF HandleInv, TypeOK, Words
<1>7. h.index \in Slots => h.generation = next[h.index].generation
  BY DEF Pack, First
<1>8. OwnedCurrent' /\ RetiredOlder'
  BY <1>1, <1>2, <1>7 DEF HandleInv, OwnedCurrent, RetiredOlder
<1> QED BY <1>6, <1>8 DEF HandleInv

(***************************************************************************)
(* remove() makes a slot older than every handle given out for it.  The    *)
(* last generation gives no access, so the next one never wraps around.    *)
(***************************************************************************)
LEMMA RemoveStep == 
    ASSUME HandleInv, NEW h \in owned \cup retired, Remove(h) PROVE HandleInv'
<1>1. /\ next' = [i \in Slots |-> 
                    IF i = h.index THEN Pack(i, NextGeneration(next[i].generation))
                                   ELSE next[i]]
      /\ mStart' = h.index /\ mFree' = (mFree + 1) % HandleMod
      /\ owned' = owned \ {h} /\ retired' = retired \cup {h} /\ MayHave(h)
  BY DEF Remove
<1>2. Slots' = Slots
  BY <1>1 DEF Slots
<1>3. h \in Words /\ next \in [Slots -> Words] /\ LastGeneration \in Nat
  BY HandleAssumption DEF HandleInv, TypeOK, LastGeneration
<1>4. PICK n \in 1 .. MaskIndex - 1 : Slots = 0 .. n - 1
  BY DEF HandleInv, TypeOK
<1>5. h.index \in Slots => Has(h)
  <2>1. size = n
    BY <1>4, FS_Interval, HandleAssumption DEF size
  <2> QED BY <1>1, <1>4, <2>1, HandleAssumption DEF MayHave
<1>6. ASSUME h.index \in Slots
      PROVE  /\ h.generation = next[h.index].generation
             /\ NextGeneration(next[h.index].generation) = h.generation + 1
             /\ h.generation + 1 \in 0 .. LastGeneration
  <2>1. /\ h.generation = next[h.index].generation
        /\ h.generation \in Nat /\ h.generation + 1 < Generations /\ Generations \in Nat
    BY <1>3, <1>5, <1>6, HandleAssumption DEF Has, Words, LastGeneration
  <2>2. (h.generation + 1) % Generations = h.generation + 1
    BY <2>1, SMT
  <2> QED BY <2>1, <2>2 DEF NextGeneration, LastGeneration
\* The generation of each slot after the step.
<1>7. \A i \in Slots : 
         next'[i].generation = IF i = h.index THEN h.generation + 1 ELSE next[i].generation
  BY <1>1, <1>6 DEF Pack
<1>8. next' \in [Slots -> Words]
  <2> SUFFICES ASSUME NEW i \in Slots PROVE next'[i] \in Words
    BY <1>1
  <2>1. i \in 0 .. MaskIndex
    BY <1>4, HandleAssumption
  <2> QED BY <1>1, <1>3, <1>6, <2>1 DEF Pack, Words
<1>9. mFree' \in 0 .. HandleMod - 1
  <2>1. mFree + 1 \in Int
    BY HandleModType DEF HandleInv, TypeOK
  <2> QED BY <1>1, <2>1, HandleModWraps
<1>10. TypeOK'
  BY <1>1, <1>2, <1>3, <1>8, <1>9 DEF HandleInv, TypeOK, Words
<1>11. OwnedCurrent'
  <2> SUFFICES ASSUME NEW k \in owned, k # h, k.index \in Slots
               PROVE  k.generation = next'[k.index].generation
    BY <1>1, <1>2 DEF OwnedCurrent
  <2>1. k \in Words /\ k.generation = next[k.index].generation
    BY DEF HandleInv, TypeOK, OwnedCurrent
  <2>2. k.index # h.index
    BY <1>3, <1>6, <2>1 DEF Words
  <2> QED BY <1>7, <2>1, <2>2
<1>12. RetiredOlder'
  <2> SUFFICES ASSUME NEW k \in retired \cup {h}, k.index \in Slots
               PROVE  k.generation < next'[k.index].generation
    BY <1>1, <1>2 DEF RetiredOlder
  <2>1. k.generation \in Nat /\ h.generation \in Nat
    BY <1>3 DEF HandleInv, TypeOK, Words
  <2>2. CASE k = h
    BY <1>7, <2>1, <2>2
  <2>3. CASE k \in retired
    <3>1. k.generation < next[k.index].generation
      BY <2>3 DEF HandleInv, RetiredOlder
    <3> QED BY <1>6, <1>7, <2>1, <3>1
  <2> QED BY <2>2, <2>3
<1> QED BY <1>10, <1>11, <1>12 DEF HandleInv

(***************************************************************************)
(* resize() leaves the client without handles, with memory or without.     *)
(***************************************************************************)
LEMMA ResizeStep == 
    ASSUME HandleInv, NEW n \in Resizes, Resize(n) \/ ResizeFails(n) PROVE HandleInv'
<1>1. n \in 1 .. MaskIndex - 1 /\ MaskIndex \in Nat
  BY HandleAssumption
<1>2. mFree' = n /\ owned' = {} /\ retired' = {} /\ mStart' = mStart
  BY DEF Resize, ResizeFails
<1>3. CASE Resize(n)
  <2>1. Slots' = 0 .. n - 1 /\ next' \in [0 .. n - 1 -> Words]
    BY <1>1, <1>3, LinkedType DEF Slots, Resize
  <2> QED
    BY <1>1, <1>2, <2>1, SizesFit DEF HandleInv, TypeOK, OwnedCurrent, RetiredOlder
<1>4. CASE ResizeFails(n)
  <2>1. Slots' = Slots
    BY <1>4 DEF ResizeFails, Slots
  <2>2. next' \in [Slots -> Words]
    <3>1. ASSUME NEW i \in Slots PROVE i + 1 \in 0 .. MaskIndex
      BY <1>1 DEF HandleInv, TypeOK
    <3>2. 0 \in 0 .. LastGeneration /\ MaskIndex \in 0 .. MaskIndex
      BY HandleAssumption DEF LastGeneration
    <3>3. next \in [Slots -> Words]
      BY DEF HandleInv, TypeOK
    <3> QED BY <1>4, <3>1, <3>2, <3>3 DEF ResizeFails, Pack, Words
  <2> QED
    BY <1>1, <1>2, <2>1, <2>2, SizesFit DEF HandleInv, TypeOK, OwnedCurrent, RetiredOlder
<1> QED BY <1>3, <1>4

LEMMA NextStep == HandleInv /\ [Next]_vars => HandleInv'
<1> SUFFICES ASSUME HandleInv, [Next]_vars PROVE HandleInv'
  OBVIOUS
<1>1. ASSUME NEW e \in First, Create(e) PROVE HandleInv'
  BY <1>1, CreateStep
<1>2. ASSUME NEW h \in owned \cup retired, Remove(h) PROVE HandleInv'
  BY <1>2, RemoveStep
<1>3. ASSUME NEW n \in Resizes, Resize(n) \/ ResizeFails(n) PROVE HandleInv'
  BY <1>3, ResizeStep
<1>4. CASE UNCHANGED vars
  BY <1>4 DEF vars, HandleInv, TypeOK, OwnedCurrent, RetiredOlder, Slots
<1> QED
  BY <1>1, <1>2, <1>3, <1>4 DEF Next, CreateFails, RemoveFails

(***************************************************************************)
(* The invariant holds in every behaviour.                                 *)
(***************************************************************************)
THEOREM HandleInvariant == Spec => []HandleInv
<1> QED BY HandleInit, NextStep, PTL DEF Spec

(***************************************************************************)
(* Links, counters and handles keep the ranges their bit fields have.      *)
(***************************************************************************)
THEOREM HandleTypeCorrect == Spec => []TypeOK
<1>1. HandleInv => TypeOK
  BY DEF HandleInv
<1> QED BY <1>1, HandleInvariant, PTL

(***************************************************************************)
(* A removed handle never gives access again, whatever the sequence of     *)
(* create() and remove(), the number of slots and of generations.          *)
(***************************************************************************)
THEOREM StaleHandlesStayDead == Spec => []StaleStaysDead
<1>1. HandleInv => StaleStaysDead
  <2> SUFFICES ASSUME HandleInv, NEW h \in retired, h.index \in Slots PROVE ~Has(h)
    BY DEF StaleStaysDead, Has
  <2>1. h.generation < next[h.index].generation
    BY DEF HandleInv, RetiredOlder
  <2>2. h.generation \in Nat
    BY DEF HandleInv, TypeOK, Words
  <2> QED BY <2>1, <2>2 DEF Has
<1> QED BY <1>1, HandleInvariant, PTL

(***************************************************************************)
(* A handle that gives access goes on to do so until the client removes    *)
(* it or resizes: nothing else ages its slot.                              *)
(***************************************************************************)
THEOREM HandleAccessLasts == Spec => AccessLasts
<1> DEFINE Lasts == \A h \in owned : 
                      Has(h) => \/ Has(h)' 
                                \/ Remove(h) 
                                \/ \E n \in Resizes : Resize(n) \/ ResizeFails(n)
<1>1. HandleInv /\ [Next]_vars => [Lasts]_vars
  <2> SUFFICES ASSUME HandleInv, Next, NEW h \in owned, Has(h), ~Remove(h),
                      ~ \E n \in Resizes : Resize(n) \/ ResizeFails(n)
               PROVE  Has(h)'
    OBVIOUS
  <2>1. /\ h.index \in Slots /\ h # InvalidHandle
        /\ next[h.index].generation # LastGeneration
        /\ h.generation = next[h.index].generation
    BY DEF Has
  <2>2. CASE next' = next
    BY <2>1, <2>2 DEF Has, Slots
  <2>3. ASSUME NEW k \in owned \cup retired, Remove(k) PROVE Has(h)'
    <3>1. next' = [i \in Slots |-> 
                     IF i = k.index THEN Pack(i, NextGeneration(next[i].generation))
                                    ELSE next[i]]
      BY <2>3 DEF Remove
    <3>2. CASE k.index # h.index
      BY <2>1, <3>1, <3>2 DEF Has, Slots
    \* Only one handle gives access to a slot.
    <3>3. CASE k.index = h.index
      <4>1. PICK n \in 1 .. MaskIndex - 1 : Slots = 0 .. n - 1
        BY DEF HandleInv, TypeOK
      <4>2. size = n
        BY <4>1, FS_Interval, HandleAssumption DEF size
      <4>3. Has(k)
        BY <2>1, <2>3, <3>3, <4>1, <4>2, HandleAssumption DEF Remove, MayHave
      <4>4. k = h
        BY <2>1, <3>3, <4>3 DEF Has, HandleInv, TypeOK, Words
      <4> QED BY <2>3, <4>4
    <3> QED BY <3>2, <3>3
  <2>4. CASE \E e \in First : Create(e)
    BY <2>2, <2>4 DEF Create
  <2>5. CASE UNCHANGED vars
    BY <2>2, <2>5 DEF vars
  <2> QED BY <2>3, <2>4, <2>5 DEF Next, CreateFails, RemoveFails
<1> QED BY <1>1, HandleInvariant, PTL DEF Spec, AccessLasts
=============================================================================
