-------------------------- MODULE ResamplersProofs --------------------------
(***************************************************************************)
(* Blocks are used up, outputs keep in step with what was fed, and the     *)
(* estimates hold, for every pair of rates and every way to cut a stream   *)
(* into blocks, alone and in front of the convolver.                       *)
(***************************************************************************)
EXTENDS Convolver, SumTheorems, FiniteSetTheorems, SequenceTheorems, TLAPS

(***************************************************************************)
(* A set of outputs that has, with each, all those before it, is the first *)
(* few of them.                                                            *)
(***************************************************************************)
LEMMA FirstFew ==
    ASSUME NEW room \in Nat, NEW S, S \subseteq 0 .. room - 1, 
           \A o \in S : \A p \in 0 .. o : p \in S
    PROVE  /\ Cardinality(S) \in 0 .. room
           /\ S = 0 .. Cardinality(S) - 1
<1> DEFINE T == {k \in 0 .. room : k \notin S}
<1>1. T \subseteq Nat /\ room \in T
  OBVIOUS
<1>2. PICK k \in T : \A m \in T : k <= m
  <2> HIDE DEF T
  <2> QED BY <1>1, LeastMember
<1>3. k \in 0 .. room /\ k \notin S
  OBVIOUS
<1> HIDE DEF T
<1>4. \A m \in 0 .. k - 1 : m \in S
  BY <1>2, <1>3 DEF T
<1>5. \A m \in S : m < k
  BY <1>3
<1>6. S = 0 .. k - 1
  <2>1. ASSUME NEW x \in S PROVE x \in 0 .. k - 1
    BY <1>3, <1>5
  <2> QED BY <1>4, <2>1
<1>7. Cardinality(0 .. k - 1) = k
  <2>1. CASE k = 0
    <3>1. 0 .. k - 1 = {}
      BY <2>1
    <3> QED BY <2>1, <3>1, FS_EmptySet
  <2>2. CASE k > 0
    BY <1>3, <2>2, FS_Interval
  <2> QED BY <1>3, <2>1, <2>2
<1> QED BY <1>3, <1>6, <1>7
-----------------------------------------------------------------------------
(***************************************************************************)
(* What the conversions of counts and positions do.                        *)
(***************************************************************************)
LEMMA Quotient ==
    ASSUME NEW a \in Nat, NEW b \in Nat \ {0}
    PROVE  /\ a \div b \in Nat
           /\ (a \div b) * b <= a /\ a < (a \div b) * b + b
           /\ a % b = a - (a \div b) * b /\ a % b \in 0 .. b - 1
<1>1. a \div b \in Int /\ a % b \in Int /\ 0 <= a % b /\ a % b < b
      /\ a = b * (a \div b) + (a % b)
  BY SMT
<1>2. a \div b >= 0
  BY SMT
<1> QED BY <1>1, <1>2

LEMMA RoundedQuotient ==
    ASSUME NEW a \in Nat, NEW b \in Nat \ {0}
    PROVE  /\ Rounded(a, b) \in Nat
           /\ 2 * (Rounded(a, b) * b) <= 2 * a + b
           /\ 2 * a < 2 * (Rounded(a, b) * b) + b
<1> DEFINE q == (2 * a + b) \div (2 * b)
<1>1. 2 * a + b \in Nat /\ 2 * b \in Nat \ {0}
  OBVIOUS
<1>2. q \in Nat /\ q * (2 * b) <= 2 * a + b /\ 2 * a + b < q * (2 * b) + 2 * b
  BY <1>1, Quotient
<1>3. Rounded(a, b) = q
  BY DEF Rounded
<1> HIDE DEF q
<1>4. q * (2 * b) = 2 * (q * b)
  BY <1>2
<1> QED BY <1>2, <1>3, <1>4

LEMMA Product == ASSUME NEW a \in Nat, NEW b \in Nat PROVE a * b \in Nat
OBVIOUS

\* A factor is cancelled.
LEMMA Cancel == 
    ASSUME NEW a \in Int, NEW c \in Int, NEW b \in Nat \ {0}
    PROVE  /\ a * b < c * b <=> a < c
           /\ a * b <= c * b <=> a <= c
BY SMT

LEMMA Scaled ==
    ASSUME NEW x \in Int, NEW low \in Int, NEW high \in Int, NEW k \in Nat,
           low <= x, x <= high
    PROVE  low * k <= x * k /\ x * k <= high * k
BY SMT

\* Multiplication is distributive, for provers that do not see it.
LEMMA Distributes ==
    ASSUME NEW a \in Int, NEW b \in Int, NEW c \in Int
    PROVE  /\ (a + b) * c = (a * c) + (b * c)
           /\ (a - b) * c = (a * c) - (b * c)
BY SMT
-----------------------------------------------------------------------------
(***************************************************************************)
(* The inductive invariant: what is claimed of the last block, and what    *)
(* the next one relies on.  The next output of Speex is less than a step   *)
(* away; the last frame of Linear is one before the stream goes on, at     *)
(* most one step of the output and one frame.                              *)
(***************************************************************************)
StreamType ==
    /\ kind \in AllKinds
    /\ mRateIn \in Nat \ {0} /\ mRateOut \in Nat \ {0}
    /\ maxBlock \in Nat \ {0}
    /\ mLastFrame \in [Channels -> Int]
    /\ mState \in 0 .. mRateIn - 1
    /\ fed \in Nat /\ block \in Nat
    /\ resampled \in [Channels -> Seq(Int)]

LastFramesBehind ==
    kind = "linear" => \A c \in Channels :
        mLastFrame[c] * mRateOut - ((fed + 1) * mRateOut) * (c + 1) 
            \in -(mRateIn + mRateOut) * (c + 1) .. 0

StreamInv == /\ StreamType
             /\ LastFramesBehind
             /\ NothingLeft
             /\ Interpolates \/ InStep
             /\ LinearLags
             /\ EstimatesHold

Simple == kind \in {"hold", "linear"}
-----------------------------------------------------------------------------
(***************************************************************************)
(* There is room for nine outputs more than the frames are long.           *)
(***************************************************************************)
LEMMA BufferSuffices ==
    ASSUME StreamType, NEW b \in Nat, NEW n \in Nat, n <= b
    PROVE  LET room == calculateBufferSize(b, mRateIn, mRateOut) IN
           /\ room \in Nat /\ room >= 10
           /\ n * mRateOut <= (room - 9) * mRateIn
<1> DEFINE q == Rounded(b * mRateOut, mRateIn)
           room == calculateBufferSize(b, mRateIn, mRateOut)
<1>1. mRateIn \in Nat \ {0} /\ mRateOut \in Nat \ {0}
  BY DEF StreamType
<1>2. room = q + 10
  BY DEF calculateBufferSize, estimateOut
<1>3. q \in Nat /\ 2 * (b * mRateOut) < 2 * (q * mRateIn) + mRateIn
      /\ b * mRateOut \in Nat
  BY <1>1, Product, RoundedQuotient
<1> HIDE DEF q, room
<1>4. n * mRateOut <= b * mRateOut /\ n * mRateOut \in Nat
  BY <1>1, Cancel, Product
<1>5. (q + 1) * mRateIn = (q * mRateIn) + mRateIn /\ q * mRateIn \in Nat
  BY <1>1, <1>3, Product, Distributes
<1>6. room - 9 = q + 1
  BY <1>2, <1>3
<1>7. room \in Nat /\ room >= 10 /\ n * mRateOut <= (room - 9) * mRateIn
  BY <1>1, <1>2, <1>3, <1>4, <1>5, <1>6
<1> QED BY <1>7 DEF room

LEMMA RoomSuffices ==
    ASSUME StreamType, NEW n \in 1 .. MaxBlock, NEW room \in Rooms(n)
    PROVE  /\ room \in Nat /\ room >= 10
           /\ n * mRateOut <= (room - 9) * mRateIn
<1>1. PICK b \in {n, MaxBlock} : room = calculateBufferSize(b, mRateIn, mRateOut)
  BY DEF Rooms
<1>2. b \in Nat /\ n \in Nat /\ n <= b
  BY ResamplersAssumption
<1> QED BY <1>1, <1>2, BufferSuffices

(***************************************************************************)
(* The frame output o is taken from is the one of its time, rounded.       *)
(***************************************************************************)
LEMMA IndexBounds ==
    ASSUME StreamType, NEW o \in Nat
    PROVE  /\ Index(o) \in Nat /\ Index(o) * mRateOut \in Nat 
           /\ o * mRateIn \in Nat
           /\ kind # "hold" => 
                /\ Index(o) * mRateOut <= o * mRateIn
                /\ o * mRateIn < Index(o) * mRateOut + mRateOut
                /\ (o * mRateIn) % mRateOut = o * mRateIn - Index(o) * mRateOut
           /\ 2 * (Index(o) * mRateOut) <= 2 * (o * mRateIn) + mRateOut
           /\ kind = "hold" =>
                2 * (o * mRateIn) < 2 * (Index(o) * mRateOut) + mRateOut
<1>1. mRateIn \in Nat \ {0} /\ mRateOut \in Nat \ {0} /\ o * mRateIn \in Nat
  BY Product DEF StreamType
<1>2. CASE kind = "hold"
  <2>1. Index(o) = Rounded(o * mRateIn, mRateOut)
    BY <1>2 DEF Index
  <2>2. Index(o) \in Nat
    BY <1>1, <2>1, RoundedQuotient
  <2> QED BY <1>1, <1>2, <2>1, <2>2, RoundedQuotient, Product
<1>3. CASE kind # "hold"
  <2>1. Index(o) = (o * mRateIn) \div mRateOut
    BY <1>3 DEF Index
  <2>2. Index(o) \in Nat
    BY <1>1, <2>1, Quotient
  <2>3. Index(o) * mRateOut <= o * mRateIn 
        /\ o * mRateIn < Index(o) * mRateOut + mRateOut
        /\ (o * mRateIn) % mRateOut = o * mRateIn - Index(o) * mRateOut
    BY <1>1, <2>1, Quotient
  <2>4. Index(o) * mRateOut \in Nat
    BY <1>1, <2>2, Product
  <2> QED BY <1>1, <1>3, <2>2, <2>3, <2>4
<1> QED BY <1>2, <1>3

LEMMA FirstIndex == ASSUME StreamType PROVE Index(0) = 0
<1>1. mRateIn \in Nat \ {0} /\ mRateOut \in Nat \ {0} /\ 0 * mRateIn = 0
  BY DEF StreamType
<1>2. /\ Index(0) \in Nat /\ Index(0) * mRateOut \in Nat
      /\ 2 * (Index(0) * mRateOut) <= 2 * (0 * mRateIn) + mRateOut
  BY IndexBounds
<1>3. 2 * (Index(0) * mRateOut) <= mRateOut
  BY <1>1, <1>2
<1>4. Index(0) * mRateOut < 1 * mRateOut
  BY <1>1, <1>2, <1>3
<1> QED BY <1>1, <1>2, <1>4, Cancel

(***************************************************************************)
(* How many outputs the simple resamplers give: they go on until an output *)
(* would be taken from a frame that is not there, and room never stops     *)
(* them before all frames are used up.                                     *)
(***************************************************************************)
LEMMA OutputsAre ==
    ASSUME StreamType, NEW n \in 1 .. MaxBlock, NEW room \in Rooms(n)
    PROVE  /\ Outputs(n, room) \in 1 .. room /\ room \in Nat
           /\ n <= Index(Outputs(n, room))
           /\ \A p \in 0 .. Outputs(n, room) - 1 : Index(p) <= n
<1> DEFINE S == {o \in 0 .. room - 1 : \A p \in 0 .. o : ~Beyond(Index(p), n)}
           count == Cardinality(S)
<1>1. Outputs(n, room) = count
  BY DEF Outputs
<1>2. /\ n \in Nat \ {0} /\ mRateIn \in Nat \ {0} /\ mRateOut \in Nat \ {0}
      /\ room \in Nat /\ room >= 10 /\ n * mRateOut <= (room - 9) * mRateIn
  BY RoomSuffices, ResamplersAssumption DEF StreamType
<1>3. S \subseteq 0 .. room - 1 /\ \A o \in S : \A p \in 0 .. o : p \in S
  BY <1>2
<1>4. count \in 0 .. room /\ S = 0 .. count - 1
  <2> HIDE DEF S
  <2> QED BY <1>2, <1>3, FirstFew
<1>5. \A p \in 0 .. count - 1 : ~Beyond(Index(p), n)
  <2>1. ASSUME NEW p \in S PROVE ~Beyond(Index(p), n)
    BY <1>2
  <2> QED BY <1>4, <2>1
<1>6. \A i \in Nat : Beyond(i, n) <=> IF kind = "hold" THEN n <= i ELSE n < i
  BY DEF Beyond
<1>7. \A p \in 0 .. count - 1 : Index(p) <= n
  <2> SUFFICES ASSUME NEW p \in 0 .. count - 1 PROVE Index(p) <= n
    OBVIOUS
  <2>1. p \in Nat /\ ~Beyond(Index(p), n)
    BY <1>4, <1>5
  <2>2. Index(p) \in Nat
    BY <2>1, IndexBounds
  <2> QED BY <1>2, <1>6, <2>1, <2>2
<1>8. count # 0
  <2>1. ~Beyond(Index(0), n)
    BY <1>2, <1>6, FirstIndex
  <2>2. 0 \in S
    BY <1>2, <2>1
  <2> QED BY <1>4, <2>2
<1>9. CASE count < room
  <2>1. count \in 0 .. room - 1 /\ count \notin S
    <3> HIDE DEF S, count
    <3> QED BY <1>2, <1>4, <1>9
  <2>2. PICK p \in 0 .. count : Beyond(Index(p), n)
    BY <2>1
  <2>3. p = count
    BY <1>4, <1>5, <2>2
  <2>4. Index(count) \in Nat
    BY <1>4, IndexBounds
  <2> QED BY <1>1, <1>2, <1>4, <1>6, <1>7, <1>8, <2>2, <2>3, <2>4
<1>10. CASE count = room
  <2> HIDE DEF S
  <2>1. (room - 9) * mRateIn = (room * mRateIn) - (9 * mRateIn)
    BY <1>2, Distributes
  <2>2. room * mRateIn \in Nat /\ n * mRateOut \in Nat /\ n * mRateOut <= room * mRateIn
    BY <1>2, <2>1, Product
  <2>3. Index(room) \in Nat /\ Index(room) * mRateOut \in Nat
        /\ room * mRateIn < Index(room) * mRateOut + mRateOut
    BY <1>2, <2>2, IndexBounds
  <2>4. n * mRateOut < (Index(room) + 1) * mRateOut
    BY <1>2, <2>2, <2>3, Distributes
  <2>5. n < Index(room) + 1
    BY <1>2, <2>3, <2>4, Cancel
  <2> QED BY <1>1, <1>2, <1>4, <1>7, <1>8, <1>10, <2>3, <2>5
<1> HIDE DEF count
<1> QED BY <1>2, <1>4, <1>9, <1>10
-----------------------------------------------------------------------------
(***************************************************************************)
(* What has to hold of a block of n frames, the first of which is frame    *)
(* from of the stream, and what came out for it.                           *)
(***************************************************************************)
EstimatesFor(n, count) ==
    /\ Near(count, estimateOut(n, mRateIn, mRateOut))
    /\ \A m \in 1 .. MaxBlock : 
          n = estimateNeed(m, mRateIn, mRateOut) => Near(count, m)
    /\ Simple => count > 0

InStepFor(from, c, r) == \A j \in DOMAIN r :
    LET at == (from + 1 - getLatency) * mRateOut + (j - 1) * mRateIn
        ahead == r[j] - StreamAt(at) * (c + 1)
    IN  CASE kind = "hold"   -> ahead * 2 \in -mRateOut * (c + 1) .. mRateOut * (c + 1)
          [] kind = "linear" -> Interpolates => ahead = 0
          [] OTHER           -> ahead \in 0 .. mRateIn * (c + 1) - 1

LagsFor(from, c, r) == kind = "linear" => \A j \in DOMAIN r :
    LET at == (from + 1) * mRateOut + (j - 1) * mRateIn
    IN  r[j] - at * (c + 1) \in -(mRateIn + mRateOut) * (c + 1) .. 0

BehindFor(from, c, frame) ==
    frame * mRateOut - ((from + 1) * mRateOut) * (c + 1) 
        \in -(mRateIn + mRateOut) * (c + 1) .. 0

LEMMA BlockEstablishes ==
    ASSUME StreamType, NEW n \in 1 .. MaxBlock, 
           UNCHANGED <<kind, mRateIn, mRateOut, maxBlock>>,
           fed' = fed + n, block' = n, left' = 0,
           mState' \in 0 .. mRateIn - 1, 
           mLastFrame' \in [Channels -> Int],
           resampled' \in [Channels -> Seq(Int)],
           kind = "linear" => \A c \in Channels : BehindFor(fed + n, c, mLastFrame'[c]),
           \A c \in Channels : /\ EstimatesFor(n, Len(resampled'[c]))
                               /\ Interpolates \/ InStepFor(fed, c, resampled'[c])
                               /\ LagsFor(fed, c, resampled'[c])
    PROVE  StreamInv'
<1>1. n \in Nat /\ fed \in Nat /\ fed' \in Nat /\ fed' - block' = fed
  BY ResamplersAssumption DEF StreamType
<1>2. StreamType'
  BY <1>1 DEF StreamType
<1>3. LastFramesBehind'
  BY DEF LastFramesBehind, BehindFor
<1>4. NothingLeft'
  BY DEF NothingLeft
<1>5. (Interpolates \/ InStep') /\ LinearLags'
  <2>1. getLatency' = getLatency
    BY DEF getLatency, FilterLength
  <2>2. Interpolates \/ InStep'
    BY <1>1, <2>1 DEF InStep, InStepFor, StreamAt
  <2> QED BY <1>1, <2>2 DEF LinearLags, LagsFor
<1>6. EstimatesHold'
  BY DEF EstimatesHold, EstimatesFor, Near, validSize, estimateNeed, Simple
<1> QED BY <1>2, <1>3, <1>4, <1>5, <1>6 DEF StreamInv

(***************************************************************************)
(* Counts that are as near as this to what a block is long are near to     *)
(* the estimates: half an output, or half a frame, is rounded off.         *)
(***************************************************************************)
LEMMA NearIs ==
    ASSUME StreamType, NEW count \in Nat, NEW e \in Nat,
           -2 * (mRateIn + mRateOut) <= 2 * (count * mRateIn) - 2 * (e * mRateIn),
           2 * (count * mRateIn) - 2 * (e * mRateIn) <= 3 * (mRateIn + mRateOut)
    PROVE  Near(count, e)
<1>1. mRateIn \in Nat \ {0} /\ mRateOut \in Nat \ {0}
  BY DEF StreamType
<1>2. 2 * (count - e) * mRateIn = 2 * (count * mRateIn) - 2 * (e * mRateIn)
  BY <1>1
<1>3. count * mRateIn \in Int /\ e * mRateIn \in Int
  BY <1>1
<1> QED BY <1>1, <1>2, <1>3 DEF Near

LEMMA SimpleEstimates ==
    ASSUME StreamType, Simple, NEW n \in Nat \ {0}, NEW count \in Nat \ {0},
           2 * (n * mRateOut) - mRateOut <= 2 * (count * mRateIn),
           count * mRateIn < n * mRateOut + mRateOut + mRateIn
    PROVE  EstimatesFor(n, count)
<1>1. /\ mRateIn \in Nat \ {0} /\ mRateOut \in Nat \ {0}
      /\ n * mRateOut \in Nat /\ count * mRateIn \in Nat
  BY Product DEF StreamType
<1>2. Near(count, estimateOut(n, mRateIn, mRateOut))
  <2> DEFINE e == Rounded(n * mRateOut, mRateIn)
  <2>1. /\ e \in Nat
        /\ 2 * (e * mRateIn) <= 2 * (n * mRateOut) + mRateIn
        /\ 2 * (n * mRateOut) < 2 * (e * mRateIn) + mRateIn
    BY <1>1, RoundedQuotient
  <2>2. e * mRateIn \in Nat
    BY <1>1, <2>1, Product
  <2>3. estimateOut(n, mRateIn, mRateOut) = e
    BY DEF estimateOut
  <2> HIDE DEF e
  <2>4. /\ -2 * (mRateIn + mRateOut) <= 2 * (count * mRateIn) - 2 * (e * mRateIn)
        /\ 2 * (count * mRateIn) - 2 * (e * mRateIn) <= 3 * (mRateIn + mRateOut)
    BY <1>1, <2>1, <2>2
  <2> QED BY <2>1, <2>3, <2>4, NearIs
<1>3. ASSUME NEW m \in 1 .. MaxBlock, n = estimateNeed(m, mRateIn, mRateOut)
      PROVE  Near(count, m)
  <2>1. m \in Nat /\ m * mRateIn \in Nat
    BY <1>1, Product, ResamplersAssumption
  <2>2. n = Rounded(m * mRateIn, mRateOut)
    BY <1>3 DEF estimateNeed, Simple
  <2>3. /\ 2 * (n * mRateOut) <= 2 * (m * mRateIn) + mRateOut
        /\ 2 * (m * mRateIn) < 2 * (n * mRateOut) + mRateOut
    BY <1>1, <2>1, <2>2, RoundedQuotient
  <2>4. /\ -2 * (mRateIn + mRateOut) <= 2 * (count * mRateIn) - 2 * (m * mRateIn)
        /\ 2 * (count * mRateIn) - 2 * (m * mRateIn) <= 3 * (mRateIn + mRateOut)
    BY <1>1, <2>1, <2>3
  <2> QED BY <2>1, <2>4, NearIs
<1> QED BY <1>2, <1>3 DEF EstimatesFor

\* The outputs of the simple resamplers are as long as the block.
LEMMA OutputsAreNear ==
    ASSUME StreamType, Simple, NEW n \in 1 .. MaxBlock, NEW room \in Rooms(n)
    PROVE  LET count == Outputs(n, room) IN
           /\ 2 * (n * mRateOut) - mRateOut <= 2 * (count * mRateIn)
           /\ count * mRateIn < n * mRateOut + mRateOut + mRateIn
           /\ kind = "linear" => 
                /\ (Index(count - 1) - n) * mRateOut <= 0
                /\ -(mRateIn + mRateOut) <= (Index(count - 1) - n) * mRateOut
<1> DEFINE count == Outputs(n, room)
           p == count - 1
           i == Index(count)
           h == Index(p)
<1>1. count \in 1 .. room /\ room \in Nat /\ n <= i /\ h <= n
  <2>1. count \in 1 .. room /\ room \in Nat /\ n <= i
        /\ \A q \in 0 .. count - 1 : Index(q) <= n
    BY OutputsAre
  <2>2. p \in 0 .. count - 1
    BY <2>1
  <2> QED BY <2>1, <2>2
<1>2. /\ mRateIn \in Nat \ {0} /\ mRateOut \in Nat \ {0} /\ n \in Nat
      /\ n * mRateOut \in Nat
  BY Product, ResamplersAssumption DEF StreamType
<1>3. count \in Nat /\ p \in Nat
  BY <1>1
<1>4. /\ i \in Nat /\ i * mRateOut \in Nat /\ count * mRateIn \in Nat
      /\ kind # "hold" => i * mRateOut <= count * mRateIn
      /\ 2 * (i * mRateOut) <= 2 * (count * mRateIn) + mRateOut
  BY <1>3, IndexBounds
<1>5. /\ h \in Nat /\ h * mRateOut \in Nat /\ p * mRateIn \in Nat
      /\ p * mRateIn < h * mRateOut + mRateOut
  <2>1. /\ h \in Nat /\ h * mRateOut \in Nat /\ p * mRateIn \in Nat
        /\ kind # "hold" => p * mRateIn < h * mRateOut + mRateOut
        /\ kind = "hold" => 2 * (p * mRateIn) < 2 * (h * mRateOut) + mRateOut
    BY <1>3, IndexBounds
  <2> HIDE DEF h, p
  <2> QED BY <1>2, <2>1
<1>6. p * mRateIn = count * mRateIn - mRateIn
  BY <1>2, <1>3, Distributes
<1>7. n * mRateOut <= i * mRateOut /\ h * mRateOut <= n * mRateOut
  BY <1>1, <1>2, <1>4, <1>5, Cancel
<1>8. (h - n) * mRateOut = h * mRateOut - n * mRateOut
  BY <1>2, <1>5, Distributes
<1> HIDE DEF i, h, p
<1>9. 2 * (n * mRateOut) - mRateOut <= 2 * (count * mRateIn)
  BY <1>2, <1>4, <1>7
<1>10. count * mRateIn < n * mRateOut + mRateOut + mRateIn
  BY <1>2, <1>4, <1>5, <1>6, <1>7
<1>11. kind = "linear" => /\ (h - n) * mRateOut <= 0
                          /\ -(mRateIn + mRateOut) <= (h - n) * mRateOut
  BY <1>2, <1>4, <1>5, <1>6, <1>7, <1>8
<1> QED BY <1>9, <1>10, <1>11 DEF h, p
-----------------------------------------------------------------------------
(***************************************************************************)
(* Hold takes the nearest frame.                                           *)
(***************************************************************************)
Time(c, o) == ((fed + 1) * mRateOut + o * mRateIn) * (c + 1)

LEMMA HoldInStep ==
    ASSUME StreamType, kind = "hold", NEW c \in Nat, NEW o \in Nat
    PROVE  /\ HoldFrame(c, o) \in Int
           /\ (HoldFrame(c, o) - Time(c, o)) * 2 
                 \in -mRateOut * (c + 1) .. mRateOut * (c + 1)
<1> DEFINE i == Index(o)
           x == 2 * (i * mRateOut) - 2 * (o * mRateIn)
<1>1. /\ mRateIn \in Nat \ {0} /\ mRateOut \in Nat \ {0} /\ fed \in Nat
      /\ i \in Nat /\ i * mRateOut \in Nat /\ o * mRateIn \in Nat
      /\ -mRateOut <= x /\ x <= mRateOut /\ x \in Int
  <2>1. /\ i \in Nat /\ i * mRateOut \in Nat /\ o * mRateIn \in Nat
        /\ 2 * (i * mRateOut) <= 2 * (o * mRateIn) + mRateOut
        /\ 2 * (o * mRateIn) < 2 * (i * mRateOut) + mRateOut
    BY IndexBounds
  <2> HIDE DEF i
  <2> QED BY <2>1 DEF StreamType
<1>2. HoldFrame(c, o) = ((fed + i + 1) * (c + 1)) * mRateOut
  BY DEF HoldFrame, Frame
<1> HIDE DEF i
<1>3. HoldFrame(c, o) \in Int
  BY <1>1, <1>2
<1>4. (HoldFrame(c, o) - Time(c, o)) * 2 = x * (c + 1)
  BY <1>1, <1>2 DEF Time
<1> HIDE DEF x
<1>5. -mRateOut * (c + 1) <= x * (c + 1) /\ x * (c + 1) <= mRateOut * (c + 1)
  <2>1. -mRateOut \in Int /\ c + 1 \in Nat
    BY <1>1
  <2> QED BY <1>1, <2>1, Scaled
<1> QED BY <1>1, <1>3, <1>4, <1>5

(***************************************************************************)
(* Linear mixes the frame of the output before with the one of this: where *)
(* the two are the same frame it is late by what the mix would have been,  *)
(* and never by more than a step and a frame.                              *)
(***************************************************************************)
LEMMA MixIsBehind ==
    ASSUME StreamType, kind = "linear", NEW o \in Nat, o # 0
    PROVE  LET i == Index(o)
               h == Index(o - 1)
               mix == (o * mRateIn) % mRateOut
               x == (h - i) * mRateOut + mix * (i - h) - mix
           IN  x \in Int /\ mix \in Nat /\ -(mRateIn + mRateOut) <= x /\ x <= 0
<1> DEFINE i == Index(o)
           h == Index(o - 1)
           mix == (o * mRateIn) % mRateOut
           x == (h - i) * mRateOut + mix * (i - h) - mix
           d == i - h
<1>1. /\ mRateIn \in Nat \ {0} /\ mRateOut \in Nat \ {0} /\ o - 1 \in Nat
      /\ i \in Nat /\ i * mRateOut \in Nat /\ o * mRateIn \in Nat
      /\ i * mRateOut <= o * mRateIn /\ o * mRateIn < i * mRateOut + mRateOut
      /\ mix = o * mRateIn - i * mRateOut
  BY IndexBounds DEF StreamType
<1>2. /\ h \in Nat /\ h * mRateOut \in Nat /\ (o - 1) * mRateIn \in Nat
      /\ h * mRateOut <= (o - 1) * mRateIn 
      /\ (o - 1) * mRateIn < h * mRateOut + mRateOut
  BY <1>1, IndexBounds
<1>3. (o - 1) * mRateIn = o * mRateIn - mRateIn
  BY <1>1, Distributes
<1> HIDE DEF i, h
<1>4. mix \in 0 .. mRateOut - 1
  BY <1>1
<1>5. (i - h) * mRateOut = i * mRateOut - h * mRateOut
  BY <1>1, <1>2, Distributes
<1>6. d \in Nat /\ d * mRateOut <= mRateIn + mRateOut - mix
  <2>1. -1 * mRateOut < d * mRateOut
    BY <1>1, <1>2, <1>3, <1>5
  <2>2. d \in Int
    BY <1>1, <1>2
  <2>3. -1 < d
    BY <1>1, <2>1, <2>2, Cancel
  <2> QED BY <1>1, <1>2, <1>3, <1>5, <2>2, <2>3
<1> HIDE DEF mix, d
<1>7. x = (d * mix) - (d * mRateOut) - mix
  BY <1>1, <1>2, <1>4 DEF d
<1>8. d * mix \in Nat /\ d * mix <= d * mRateOut /\ d * mRateOut \in Nat
  <2>1. mix \in Nat
    BY <1>4
  <2> QED BY <1>1, <1>4, <1>6, <2>1, Product
<1> HIDE DEF x
<1> QED BY <1>1, <1>4, <1>6, <1>7, <1>8 DEF x, i, h, mix

LEMMA LinearInStep ==
    ASSUME StreamType, LastFramesBehind, kind = "linear", 
           NEW c \in Channels, NEW o \in Nat
    PROVE  /\ LinearFrame(c, o) \in Int
           /\ LinearFrame(c, o) - Time(c, o) 
                 \in -(mRateIn + mRateOut) * (c + 1) .. 0
<1>1. /\ mRateIn \in Nat \ {0} /\ mRateOut \in Nat \ {0} /\ fed \in Nat
      /\ c \in Nat /\ mLastFrame[c] \in Int
  BY ResamplersAssumption DEF StreamType
<1> DEFINE i == Index(o)
           mix == (o * mRateIn) % mRateOut
           next == (fed + i + 1) * (c + 1)
<1>2. i \in Nat
  BY IndexBounds
<1>3. LinearFrame(c, o) = LastOf(c, o) * mRateOut + mix * (next - LastOf(c, o))
  BY DEF LinearFrame, Frame
<1>4. CASE o = 0
  <2>1. mix = 0
    <3>1. o * mRateIn = 0 /\ o * mRateIn \in Nat
      BY <1>1, <1>4
    <3>2. i = 0
      BY <1>4, FirstIndex
    <3>3. mix = o * mRateIn - i * mRateOut
      BY <1>4, IndexBounds
    <3> QED BY <1>1, <3>1, <3>2, <3>3
  <2>2. LastOf(c, o) = mLastFrame[c]
    BY <1>4 DEF LastOf
  <2> HIDE DEF mix, i
  <2>3. LinearFrame(c, o) = mLastFrame[c] * mRateOut
    BY <1>1, <1>2, <1>3, <2>1, <2>2
  <2>4. Time(c, o) = ((fed + 1) * mRateOut) * (c + 1)
    BY <1>1, <1>4 DEF Time
  <2>5. mLastFrame[c] * mRateOut - ((fed + 1) * mRateOut) * (c + 1) 
           \in -(mRateIn + mRateOut) * (c + 1) .. 0
    BY DEF LastFramesBehind
  <2> QED BY <1>1, <2>3, <2>4, <2>5
<1>5. CASE o # 0
  <2> DEFINE h == Index(o - 1)
             x == (h - i) * mRateOut + mix * (i - h) - mix
  <2>1. x \in Int /\ mix \in Nat /\ -(mRateIn + mRateOut) <= x /\ x <= 0
    BY <1>5, MixIsBehind
  <2>2. h \in Nat
    BY <1>5, IndexBounds
  <2>3. mix = o * mRateIn - i * mRateOut
    BY <1>5, IndexBounds
  <2>4. LastOf(c, o) = (fed + h + 1) * (c + 1)
    BY <1>5 DEF LastOf, Frame
  <2> HIDE DEF i, h, mix
  <2>5. LinearFrame(c, o) = ((fed + h + 1) * (c + 1)) * mRateOut 
                              + mix * ((i - h) * (c + 1))
    BY <1>1, <1>2, <1>3, <2>1, <2>2, <2>4
  <2>6. LinearFrame(c, o) \in Int
    BY <1>1, <1>2, <2>1, <2>2, <2>5
  <2>7. Time(c, o) = ((fed + 1) * mRateOut + (mix + i * mRateOut)) * (c + 1)
    BY <1>1, <1>2, <2>1, <2>3 DEF Time
  <2>8. LinearFrame(c, o) - Time(c, o) = x * (c + 1)
    BY <1>1, <1>2, <2>1, <2>2, <2>5, <2>7
  <2> HIDE DEF x
  <2>9. /\ -(mRateIn + mRateOut) * (c + 1) <= x * (c + 1)
        /\ x * (c + 1) <= 0 * (c + 1)
    <3> DEFINE low == -(mRateIn + mRateOut)
    <3>1. low \in Int /\ c + 1 \in Nat /\ 0 \in Int
      BY <1>1
    <3>2. low * (c + 1) = -(mRateIn + mRateOut) * (c + 1)
      BY <1>1
    <3>3. low <= x
      BY <2>1
    <3> HIDE DEF low
    <3>4. low * (c + 1) <= x * (c + 1) /\ x * (c + 1) <= 0 * (c + 1)
      BY <2>1, <3>1, <3>3, Scaled
    <3> QED BY <3>2, <3>4
  <2>10. x * (c + 1) \in Int /\ 0 * (c + 1) = 0 
    BY <1>1, <2>1
  <2> QED BY <1>1, <2>6, <2>8, <2>9, <2>10
<1> QED BY <1>4, <1>5

(***************************************************************************)
(* A block through Hold or Linear.                                         *)
(***************************************************************************)
LEMMA SimpleBlock ==
    ASSUME StreamInv, NEW n \in 1 .. MaxBlock, NEW room \in Rooms(n),
           ProcessFrames(n, room),
           UNCHANGED <<kind, mRateIn, mRateOut, maxBlock>>,
           fed' = fed + n, block' = n
    PROVE  StreamInv'
<1> DEFINE count == Outputs(n, room)
           F(c, o) == IF kind = "hold" THEN HoldFrame(c, o) ELSE LinearFrame(c, o)
<1>1. StreamType /\ LastFramesBehind /\ Simple
  BY DEF StreamInv, ProcessFrames, Simple
<1>2. /\ resampled' = [c \in Channels |-> [j \in 1 .. count |-> F(c, j - 1)]]
      /\ mLastFrame' = IF kind = "linear" 
                       THEN [c \in Channels |-> LastOf(c, count)] ELSE mLastFrame
      /\ left' = n - Lesser(n, Index(count))
      /\ mState' = mState
  BY DEF ProcessFrames
<1>3. count \in Nat \ {0} /\ n <= Index(count) /\ n \in Nat \ {0}
      /\ Index(count) \in Nat
  <2>1. count \in 1 .. room /\ room \in Nat /\ n <= Index(count)
    BY <1>1, OutputsAre
  <2>2. count \in Nat
    BY <2>1
  <2> QED BY <1>1, <2>1, <2>2, IndexBounds
<1>4. left' = 0
  BY <1>2, <1>3 DEF Lesser
<1>5. /\ 2 * (n * mRateOut) - mRateOut <= 2 * (count * mRateIn)
      /\ count * mRateIn < n * mRateOut + mRateOut + mRateIn
      /\ kind = "linear" => 
           /\ (Index(count - 1) - n) * mRateOut <= 0
           /\ -(mRateIn + mRateOut) <= (Index(count - 1) - n) * mRateOut
  BY <1>1, OutputsAreNear
<1>6. EstimatesFor(n, count)
  BY <1>1, <1>3, <1>5, SimpleEstimates
<1> HIDE DEF count
<1>7. ASSUME NEW c \in Channels, NEW o \in Nat
      PROVE  /\ F(c, o) \in Int
             /\ kind = "hold" => (F(c, o) - Time(c, o)) * 2 
                                   \in -mRateOut * (c + 1) .. mRateOut * (c + 1)
             /\ kind = "linear" => F(c, o) - Time(c, o) 
                                     \in -(mRateIn + mRateOut) * (c + 1) .. 0
  <2>1. c \in Nat
    BY ResamplersAssumption
  <2>2. CASE kind = "hold"
    BY <1>1, <2>1, <2>2, HoldInStep
  <2>3. CASE kind = "linear"
    BY <1>1, <2>3, LinearInStep
  <2> QED BY <1>1, <2>2, <2>3 DEF Simple
<1> HIDE DEF F
<1>8. ASSUME NEW c \in Channels
      PROVE  /\ resampled'[c] = [j \in 1 .. count |-> F(c, j - 1)] 
             /\ resampled'[c] \in Seq(Int) /\ Len(resampled'[c]) = count
             /\ Interpolates \/ InStepFor(fed, c, resampled'[c]) 
             /\ LagsFor(fed, c, resampled'[c])
  <2>1. resampled'[c] = [j \in 1 .. count |-> F(c, j - 1)]
    BY <1>2
  <2>2. \A j \in 1 .. count : j - 1 \in Nat /\ F(c, j - 1) \in Int
    BY <1>3, <1>7
  <2>3. resampled'[c] \in Seq(Int) /\ Len(resampled'[c]) = count
    <3>1. resampled'[c] \in [1 .. count -> Int]
      BY <2>1, <2>2
    <3> QED BY <1>3, <3>1, SeqDef, LenProperties
  <2>4. /\ DOMAIN resampled'[c] = 1 .. count
        /\ \A j \in 1 .. count : resampled'[c][j] = F(c, j - 1) /\ j - 1 \in Nat
    BY <2>1, <2>2
  <2>5. LagsFor(fed, c, resampled'[c])
    BY <1>7, <2>4 DEF LagsFor, Time
  <2>6. Interpolates \/ InStepFor(fed, c, resampled'[c])
    <3>1. CASE kind = "hold"
      <4>1. ASSUME NEW j \in 1 .. count
            PROVE  LET at == (fed + 1 - getLatency) * mRateOut + (j - 1) * mRateIn
                   IN  StreamAt(at) * (c + 1) = Time(c, j - 1)
        <5> DEFINE at == (fed + 1) * mRateOut + (j - 1) * mRateIn
        <5>1. getLatency = 0
          BY <3>1 DEF getLatency
        <5>2. fed + 1 \in Nat /\ mRateOut \in Nat /\ j - 1 \in Nat /\ mRateIn \in Nat
          BY <1>1, <2>4 DEF StreamType
        <5>3. at \in Nat
          BY <5>2, Product
        <5>4. fed + 1 - getLatency = fed + 1
          BY <5>1, <5>2
        <5>5. StreamAt(at) = at
          <6> HIDE DEF at
          <6> QED BY <5>3 DEF StreamAt
        <5> QED BY <5>4, <5>5 DEF Time
      <4> QED BY <1>7, <2>4, <3>1, <4>1 DEF InStepFor
    <3>2. CASE kind = "linear"
      BY <3>2 DEF InStepFor
    <3> QED BY <1>1, <3>1, <3>2 DEF Simple
  <2> QED BY <2>1, <2>3, <2>5, <2>6
<1>9. /\ mLastFrame' \in [Channels -> Int]
      /\ kind = "linear" => \A c \in Channels : BehindFor(fed + n, c, mLastFrame'[c])
  <2>1. CASE kind = "linear"
    <3> DEFINE h == Index(count - 1)
    <3>1. h \in Nat /\ fed \in Nat /\ mRateIn \in Nat /\ mRateOut \in Nat
      <4>1. count - 1 \in Nat
        BY <1>3
      <4>2. h \in Nat
        BY <1>1, <4>1, IndexBounds
      <4> QED BY <1>1, <4>2 DEF StreamType
    <3>2. /\ (h - n) * mRateOut <= 0
          /\ -(mRateIn + mRateOut) <= (h - n) * mRateOut
      BY <1>5, <2>1
    <3>3. \A c \in Channels : mLastFrame'[c] = (fed + h + 1) * (c + 1)
      BY <1>2, <1>3, <2>1 DEF LastOf, Frame
    <3> HIDE DEF h
    <3>4. ASSUME NEW c \in Channels 
          PROVE  BehindFor(fed + n, c, mLastFrame'[c]) /\ mLastFrame'[c] \in Int
      <4> DEFINE x == (h - n) * mRateOut
                 low == -(mRateIn + mRateOut)
      <4>1. c \in Nat /\ mLastFrame'[c] = (fed + h + 1) * (c + 1)
        BY <3>3, ResamplersAssumption
      <4>2. mLastFrame'[c] * mRateOut - ((fed + n + 1) * mRateOut) * (c + 1) = x * (c + 1)
        BY <1>3, <3>1, <4>1
      <4>3. x \in Int /\ low \in Int /\ 0 \in Int /\ c + 1 \in Nat /\ low <= x /\ x <= 0
        BY <1>3, <3>1, <3>2, <4>1
      <4>4. low * (c + 1) = -(mRateIn + mRateOut) * (c + 1)
        BY <3>1, <4>1
      <4> HIDE DEF x, low
      <4>5. low * (c + 1) <= x * (c + 1) /\ x * (c + 1) <= 0 * (c + 1)
        BY <4>3, Scaled
      <4>6. x * (c + 1) \in Int /\ 0 * (c + 1) = 0 /\ low * (c + 1) \in Int
        BY <4>1, <4>3
      <4> QED BY <3>1, <4>1, <4>2, <4>4, <4>5, <4>6 DEF BehindFor
    <3> QED BY <1>2, <2>1, <3>4
  <2>2. CASE kind # "linear"
    BY <1>1, <1>2, <2>2 DEF StreamType
  <2> QED BY <2>1, <2>2
<1>10. resampled' \in [Channels -> Seq(Int)]
  BY <1>2, <1>8
<1>11. mState' \in 0 .. mRateIn - 1
  BY <1>1, <1>2 DEF StreamType
<1> QED
  BY <1>1, <1>4, <1>6, <1>8, <1>9, <1>10, <1>11, BlockEstablishes
-----------------------------------------------------------------------------
(***************************************************************************)
(* What Speex has to do of n frames: outputs at steps of the stream's      *)
(* time, as many as are due, with no frame left over, and less than a step *)
(* to the next.  first is the frame the n frames start with, state where   *)
(* the first output is.                                                    *)
(***************************************************************************)
Times(first, state, count) ==
    [j \in 1 .. count |-> (first + 1 - Delay) * mRateOut + state + (j - 1) * mRateIn]

\* The filter is a whole number of times eight frames long, so that its middle
\* is one, and behind it by that many are the outputs.
LEMMA DelayIs ==
    ASSUME StreamType
    PROVE  Delay \in Int /\ Delay = FilterLength \div 2
<1>1. mRateIn \in Nat \ {0} /\ mRateOut \in Nat \ {0}
  BY DEF StreamType
<1>2. \E k \in Int : FilterLength = 8 * k
  <2>1. CASE mRateOut < mRateIn
    <3> DEFINE q == (BaseLength * mRateIn) \div mRateOut
    <3>1. BaseLength * mRateIn \in Nat
      BY <1>1, Product, ResamplersAssumption
    <3>2. q \in Nat
      BY <1>1, <3>1, Quotient
    <3>3. FilterLength = 8 * ((q - 1) \div 8) + 8
      BY <2>1 DEF FilterLength
    <3> HIDE DEF q
    <3> DEFINE r == (q - 1) \div 8
    <3>4. r \in Int
      BY <3>2
    <3>5. FilterLength = 8 * r + 8
      BY <3>3
    <3> HIDE DEF r
    <3>6. FilterLength = 8 * (r + 1) /\ r + 1 \in Int
      BY <3>4, <3>5
    <3> QED BY <3>6
  <2>2. CASE ~(mRateOut < mRateIn)
    <3>1. FilterLength = BaseLength /\ BaseLength \in Nat /\ BaseLength % 8 = 0
      BY <2>2, ResamplersAssumption DEF FilterLength
    <3>2. BaseLength = 8 * (BaseLength \div 8) /\ BaseLength \div 8 \in Int
      BY <3>1
    <3> QED BY <3>1, <3>2
  <2> QED BY <2>1, <2>2
<1>3. PICK k \in Int : FilterLength = 8 * k
  BY <1>2
<1>4. FilterLength \div 2 = 4 * k
  BY <1>3
<1> QED BY <1>3, <1>4 DEF Delay

After(state, count, n) == state + count * mRateIn - n * mRateOut

Whole(e, first, state, n) == \E count \in Nat :
    /\ e = [times |-> Times(first, state, count), left |-> 0, 
            state |-> After(state, count, n)]
    /\ After(state, count, n) \in 0 .. mRateIn - 1

LEMMA EngineIsWhole ==
    ASSUME StreamType, NEW first \in Nat, NEW state \in 0 .. mRateIn - 1,
           NEW n \in Nat \ {0}, NEW room \in Nat,
           n * mRateOut <= (room - 9) * mRateIn
    PROVE  Whole(Engine(state, first, n, room), first, state, n)
<1> DEFINE due == {o \in 0 .. room - 1 : state + o * mRateIn < n * mRateOut}
           count == Cardinality(due)
           next == state + count * mRateIn
           q == next \div mRateOut
<1>1. /\ mRateIn \in Nat \ {0} /\ mRateOut \in Nat \ {0} /\ state \in Nat
      /\ n * mRateOut \in Nat /\ state < mRateIn
  BY Product DEF StreamType
<1>2. ASSUME NEW o \in Nat, NEW p \in 0 .. o, 
             state + o * mRateIn < n * mRateOut
      PROVE  state + p * mRateIn < n * mRateOut
  <2>1. p * mRateIn <= o * mRateIn /\ p * mRateIn \in Nat /\ o * mRateIn \in Nat
    BY <1>1, Cancel, Product
  <2> QED BY <1>1, <1>2, <2>1
<1>3. due \subseteq 0 .. room - 1 /\ \A o \in due : \A p \in 0 .. o : p \in due
  BY <1>2
<1>4. count \in 0 .. room /\ due = 0 .. count - 1
  <2> HIDE DEF due
  <2> QED BY <1>3, FirstFew
<1>5. count \in Nat /\ count * mRateIn \in Nat
  <2>1. count \in Nat
    BY <1>4
  <2> QED BY <1>1, <2>1, Product
<1>6. count > 0 => next - mRateIn < n * mRateOut
  <2> SUFFICES ASSUME count > 0 PROVE next - mRateIn < n * mRateOut
    OBVIOUS
  <2>1. count - 1 \in 0 .. count - 1
    BY <1>5
  <2>2. count - 1 \in due
    BY <1>4, <2>1
  <2>3. state + (count - 1) * mRateIn < n * mRateOut
    BY <2>2
  <2>4. (count - 1) * mRateIn = count * mRateIn - mRateIn
    BY <1>1, <1>5, Distributes
  <2> QED BY <1>1, <1>5, <2>3, <2>4
<1>7. count < room
  <2> SUFFICES ASSUME count = room PROVE FALSE
    BY <1>4
  <2> HIDE DEF due
  <2>1. (room - 9) * mRateIn = (room * mRateIn) - (9 * mRateIn)
    BY <1>1, Distributes
  <2>2. room * mRateIn = count * mRateIn /\ room * mRateIn \in Nat
    BY <1>1, Product
  <2>3. count > 0
    <3>1. CASE room = 0
      BY <1>1, <2>1, <2>2, <3>1
    <3> QED BY <1>5, <3>1
  <2> QED BY <1>1, <1>5, <1>6, <2>1, <2>2, <2>3
<1>8. n * mRateOut <= next
  <2>1. count \in 0 .. room - 1 /\ count \notin due
    <3> HIDE DEF due, count
    <3> QED BY <1>4, <1>5, <1>7
  <2>2. ~(state + count * mRateIn < n * mRateOut)
    BY <2>1
  <2> HIDE DEF due, count
  <2> QED BY <1>1, <1>5, <2>2
<1> HIDE DEF due, count
<1>9. next \in Nat /\ next - n * mRateOut \in 0 .. mRateIn - 1
  BY <1>1, <1>5, <1>6, <1>8
<1>10. Lesser(n, q) = n
  <2>1. q \in Nat /\ next < q * mRateOut + mRateOut /\ q * mRateOut \in Nat
    BY <1>1, <1>9, Quotient, Product
  <2> HIDE DEF q, next
  <2>2. n * mRateOut < (q + 1) * mRateOut
    BY <1>1, <1>8, <1>9, <2>1, Distributes
  <2>3. n < q + 1
    BY <1>1, <2>1, <2>2, Cancel
  <2> QED BY <2>1, <2>3 DEF Lesser
<1>11. Engine(state, first, n, room) =
         [times |-> Times(first, state, count), left |-> n - n, 
          state |-> next - n * mRateOut]
  BY <1>10 DEF Engine, due, count, Times
<1> QED BY <1>1, <1>5, <1>9, <1>11 DEF Whole, After

\* One after the other, two such blocks are one.
LEMMA WholeAfterWhole ==
    ASSUME StreamType, NEW first \in Nat, NEW state \in Nat, 
           NEW m \in Nat, NEW n \in Nat, NEW d, NEW e,
           Whole(d, first, state, m), Whole(e, first + m, d.state, n)
    PROVE  Whole([times |-> d.times \o e.times, left |-> d.left + e.left, 
                  state |-> e.state], first, state, m + n)
<1>1. /\ mRateIn \in Nat \ {0} /\ mRateOut \in Nat \ {0}
      /\ m * mRateOut \in Nat /\ n * mRateOut \in Nat
  BY Product DEF StreamType
<1>2. PICK k \in Nat :
        /\ d = [times |-> Times(first, state, k), left |-> 0, 
                state |-> After(state, k, m)]
        /\ After(state, k, m) \in 0 .. mRateIn - 1
  BY DEF Whole
<1> DEFINE mid == After(state, k, m)
<1>3. PICK l \in Nat :
        /\ e = [times |-> Times(first + m, mid, l), left |-> 0, 
                state |-> After(mid, l, n)]
        /\ After(mid, l, n) \in 0 .. mRateIn - 1
  BY <1>2 DEF Whole
<1>4. k * mRateIn \in Nat /\ l * mRateIn \in Nat /\ mid \in Nat
  <2>1. mid \in 0 .. mRateIn - 1
    BY <1>2
  <2> HIDE DEF mid
  <2> QED BY <1>1, <2>1, Product
<1>5. (k + l) * mRateIn = k * mRateIn + l * mRateIn 
      /\ (m + n) * mRateOut = m * mRateOut + n * mRateOut
  BY <1>1, Distributes
<1>6. mid = state + k * mRateIn - m * mRateOut
  BY DEF After
<1> HIDE DEF mid
<1>7. After(mid, l, n) = After(state, k + l, m + n)
  BY <1>1, <1>4, <1>5, <1>6 DEF After
<1>8. Times(first, state, k) \o Times(first + m, mid, l) = Times(first, state, k + l)
  <2> DEFINE s == Times(first, state, k)
             t == Times(first + m, mid, l)
             u == Times(first, state, k + l)
  <2>1. /\ s \in [1 .. k -> Int] /\ t \in [1 .. l -> Int] 
        /\ u \in [1 .. k + l -> Int]
    BY <1>1, <1>4, DelayIs DEF Times
  <2>2. /\ s \in Seq(Int) /\ t \in Seq(Int) /\ u \in Seq(Int)
        /\ Len(s) = k /\ Len(t) = l /\ Len(u) = k + l
    <3>1. k + l \in Nat
      OBVIOUS
    <3> HIDE DEF s, t, u
    <3> QED BY <2>1, <3>1, SeqDef, LenProperties
  <2>3. ASSUME NEW j \in 1 .. k PROVE s[j] = u[j]
    BY DEF Times
  <2>4. ASSUME NEW j \in 1 .. l PROVE t[j] = u[k + j]
    <3> DEFINE from == first + 1 - Delay
    <3>1. t[j] = (first + m + 1 - Delay) * mRateOut + mid + (j - 1) * mRateIn
      BY DEF Times
    <3>2. u[k + j] = from * mRateOut + state + (k + j - 1) * mRateIn
      BY DEF Times
    <3> HIDE DEF t, u
    <3>3. from \in Int /\ first + m + 1 - Delay = from + m
      BY DelayIs
    <3> HIDE DEF from
    <3>4. (from + m) * mRateOut = from * mRateOut + m * mRateOut
          /\ (k + j - 1) * mRateIn = k * mRateIn + (j - 1) * mRateIn
      BY <1>1, <3>3
    <3>5. from * mRateOut \in Int /\ (j - 1) * mRateIn \in Int
      BY <1>1, <3>3
    <3> QED BY <1>1, <1>4, <1>6, <3>1, <3>2, <3>3, <3>4, <3>5
  <2> HIDE DEF s, t, u
  <2>5. /\ s \o t \in Seq(Int) /\ Len(s \o t) = k + l
        /\ \A j \in 1 .. k + l : (s \o t)[j] = IF j <= k THEN s[j] ELSE t[j - k]
    BY <2>2, ConcatProperties
  <2>6. ASSUME NEW j \in 1 .. k + l PROVE (s \o t)[j] = u[j]
    <3>1. CASE j <= k
      <4>1. j \in 1 .. k
        BY <3>1
      <4> QED BY <2>3, <2>5, <3>1, <4>1
    <3>2. CASE ~(j <= k)
      <4>1. j - k \in 1 .. l /\ k + (j - k) = j
        BY <3>2
      <4> QED BY <2>4, <2>5, <3>2, <4>1
    <3> QED BY <3>1, <3>2
  <2>7. s \o t = u
    BY <2>2, <2>5, <2>6, SeqEqual
  <2> QED BY <2>7 DEF s, t, u
<1>9. [times |-> d.times \o e.times, left |-> d.left + e.left, state |-> e.state]
        = [times |-> Times(first, state, k + l), left |-> 0,
           state |-> After(state, k + l, m + n)]
  <2>1. d.times = Times(first, state, k) /\ d.left = 0
    BY <1>2
  <2>2. e.times = Times(first + m, mid, l) /\ e.left = 0 /\ e.state = After(mid, l, n)
    BY <1>3
  <2>3. d.left + e.left = 0
    BY <2>1, <2>2
  <2> QED BY <1>7, <1>8, <2>1, <2>2, <2>3
<1>10. k + l \in Nat /\ After(state, k + l, m + n) \in 0 .. mRateIn - 1
  BY <1>3, <1>7
<1> QED BY <1>9, <1>10 DEF Whole
-----------------------------------------------------------------------------
(***************************************************************************)
(* The chunks that ResamplerSpeex converts a block in: what is done after  *)
(* chunk j is a function of what was done after the one before it.  Such a *)
(* function exists, and after chunk j it has done the frames of j chunks.  *)
(***************************************************************************)
ChunkDone(n, done, j) ==
    IF j = 0 THEN [times |-> <<>>, left |-> 0, state |-> mState]
    ELSE LET before == done[j - 1]
             blockLeft == Lesser(ConvertIn, n - ChunkFrom(j))
             e == Engine(before.state, fed + ChunkFrom(j), blockLeft, ConvertOut)
         IN  [times |-> before.times \o e.times, 
              left |-> before.left + e.left,
              state |-> e.state]

ChunkedUpTo(n, done, k) == 
    \A j \in 0 .. Chunks(n) : j <= k => done[j] = ChunkDone(n, done, j)

LEMMA ConvertedIs == 
    ASSUME NEW n
    PROVE  Converted(n) = 
             (CHOOSE done : done = [j \in 0 .. Chunks(n) |-> ChunkDone(n, done, j)])[Chunks(n)]
BY DEF Converted, ChunkDone

LEMMA ChunkedExists ==
    ASSUME NEW n, Chunks(n) \in Nat, NEW k \in Nat
    PROVE  \E done : ChunkedUpTo(n, done, k)
<1> DEFINE F == {m \in Nat : ~ \E done : ChunkedUpTo(n, done, m)}
<1>1. 0 \notin F
  <2> DEFINE g == [j \in 0 .. Chunks(n) |-> ChunkDone(n, <<>>, 0)]
  <2>1. ChunkedUpTo(n, g, 0)
    BY DEF ChunkedUpTo, ChunkDone
  <2> QED BY <2>1
<1>2. ASSUME NEW m \in Nat, m \notin F PROVE m + 1 \notin F
  <2>1. PICK f : ChunkedUpTo(n, f, m)
    BY <1>2
  <2> DEFINE g == [j \in 0 .. Chunks(n) |-> ChunkDone(n, f, j)]
  <2>2. ChunkedUpTo(n, g, m + 1)
    <3> SUFFICES ASSUME NEW j \in 0 .. Chunks(n), j <= m + 1
                 PROVE  g[j] = ChunkDone(n, g, j)
      BY DEF ChunkedUpTo
    <3>1. CASE j = 0
      BY <3>1 DEF ChunkDone
    <3>2. CASE j # 0
      <4>1. j - 1 \in 0 .. Chunks(n) /\ j - 1 <= m
        BY <3>2
      <4>2. g[j - 1] = f[j - 1]
        BY <2>1, <4>1 DEF ChunkedUpTo
      <4>3. ChunkDone(n, g, j) = ChunkDone(n, f, j)
        BY <4>2 DEF ChunkDone
      <4> QED BY <4>3
    <3> QED BY <3>1, <3>2
  <2> QED BY <2>2
<1> HIDE DEF F
<1>3. k \notin F
  BY <1>1, <1>2, NoFirstMember
<1> QED BY <1>3 DEF F

LEMMA ConvertedByChunks ==
    ASSUME NEW n, Chunks(n) \in Nat
    PROVE  \E done : /\ ChunkedUpTo(n, done, Chunks(n))
                     /\ Converted(n) = done[Chunks(n)]
<1> DEFINE N == Chunks(n)
           Is(done) == done = [j \in 0 .. N |-> ChunkDone(n, done, j)]
<1>1. PICK f : ChunkedUpTo(n, f, N)
  BY ChunkedExists
<1> DEFINE g == [j \in 0 .. N |-> f[j]]
<1>2. ASSUME NEW j \in 0 .. N PROVE g[j] = ChunkDone(n, g, j)
  <2>1. f[j] = ChunkDone(n, f, j)
    BY <1>1 DEF ChunkedUpTo
  <2>2. ChunkDone(n, g, j) = ChunkDone(n, f, j)
    <3>1. CASE j = 0
      BY <3>1 DEF ChunkDone
    <3>2. CASE j # 0
      <4>1. j - 1 \in 0 .. N
        BY <3>2
      <4>2. g[j - 1] = f[j - 1]
        BY <4>1
      <4> HIDE DEF g
      <4> QED BY <4>2 DEF ChunkDone
    <3> QED BY <3>1, <3>2
  <2> QED BY <2>1, <2>2
<1>3. Is(g)
  <2>1. g = [j \in 0 .. N |-> g[j]]
    OBVIOUS
  <2> HIDE DEF g
  <2> QED BY <1>2, <2>1
<1> DEFINE done == CHOOSE d : Is(d)
<1>4. Is(done)
  <2> HIDE DEF Is, g
  <2> QED BY <1>3
<1>5. Converted(n) = done[N]
  BY ConvertedIs
<1> HIDE DEF done
<1>6. ChunkedUpTo(n, done, N)
  <2>1. ASSUME NEW j \in 0 .. N PROVE done[j] = ChunkDone(n, done, j)
    BY <1>4
  <2> QED BY <2>1 DEF ChunkedUpTo
<1> QED BY <1>5, <1>6

\* A buffer is padded, by less than one multiple of the alignment.
LEMMA ChunkSize ==
    ASSUME NEW n \in Nat
    PROVE  /\ closestChunkSize(n) \in Nat /\ n <= closestChunkSize(n)
           /\ n % Align = 0 => closestChunkSize(n) = n
<1> DEFINE q == (n + Align - 1) \div Align
<1>1. Align \in Nat \ {0} /\ n + Align - 1 \in Nat
  BY ResamplersAssumption
<1>2. q \in Nat /\ q * Align <= n + Align - 1 /\ n + Align - 1 < q * Align + Align
  BY <1>1, Quotient
<1>3. closestChunkSize(n) = q * Align
  BY DEF closestChunkSize
<1> HIDE DEF q
<1>4. q * Align \in Nat /\ n <= q * Align
  BY <1>1, <1>2, Product
<1>5. ASSUME n % Align = 0 PROVE q * Align = n
  <2> DEFINE k == n \div Align
  <2>1. k \in Nat /\ n = k * Align
    <3>1. k \in Nat /\ n % Align = n - k * Align /\ k * Align \in Nat
      BY <1>1, Quotient, Product
    <3> HIDE DEF k
    <3> QED BY <1>5, <3>1
  <2> HIDE DEF k
  <2>2. (k + 1) * Align = k * Align + Align /\ k * Align \in Nat
    BY <1>1, <2>1, Distributes, Product
  <2>3. q * Align < (k + 1) * Align
    BY <1>1, <1>2, <1>4, <2>1, <2>2
  <2>4. q < k + 1
    BY <1>1, <1>2, <2>1, <2>3, Cancel
  <2>5. k * Align <= q * Align
    BY <1>4, <2>1
  <2>6. k <= q
    BY <1>1, <1>2, <2>1, <2>5, Cancel
  <2> QED BY <1>2, <2>1, <2>4, <2>6
<1> QED BY <1>3, <1>4, <1>5

\* A block that is short enough is one chunk; else a chunk is not padded.
LEMMA ConvertedIsWhole ==
    ASSUME StreamType, NEW n \in Nat \ {0}, n <= maxBlock \/ maxBlock % Align = 0
    PROVE  Whole(Converted(n), fed, mState, n)
<1> DEFINE N == Chunks(n)
           M == ConvertIn
           Before(j) == Lesser(n, j * M)
<1>1. /\ M \in Nat \ {0} /\ fed \in Nat /\ mState \in Nat /\ mState \in 0 .. mRateIn - 1
      /\ mRateIn \in Nat \ {0} /\ mRateOut \in Nat \ {0}
      /\ maxBlock \in Nat /\ Lesser(M, n) <= maxBlock
  <2>1. /\ maxBlock \in Nat \ {0} /\ fed \in Nat /\ mState \in 0 .. mRateIn - 1 
        /\ mRateIn \in Nat \ {0} /\ mRateOut \in Nat \ {0}
    BY DEF StreamType
  <2>2. M \in Nat /\ maxBlock <= M /\ (maxBlock % Align = 0 => M = maxBlock)
    BY <2>1, ChunkSize DEF ConvertIn
  <2>3. Lesser(M, n) <= maxBlock
    <3> HIDE DEF M
    <3> QED BY <2>1, <2>2 DEF Lesser
  <2> HIDE DEF M
  <2> QED BY <2>1, <2>2, <2>3
<1> HIDE DEF M
<1>2. /\ N \in Nat /\ N * M <= n + M - 1 /\ n + M - 1 < N * M + M 
      /\ N * M \in Nat
  <2>1. n + M - 1 \in Nat
    BY <1>1
  <2> QED BY <1>1, <2>1, Quotient, Product DEF Chunks, M
<1>3. PICK done : ChunkedUpTo(n, done, N) /\ Converted(n) = done[N]
  BY <1>2, ConvertedByChunks
<1> DEFINE Good(j) == Whole(done[j], fed, mState, Before(j))
           F == {j \in 0 .. N : ~Good(j)}
<1>4. Good(0)
  <2>1. done[0] = [times |-> <<>>, left |-> 0, state |-> mState]
    <3>1. 0 \in 0 .. N /\ 0 <= N
      BY <1>2
    <3>2. done[0] = ChunkDone(n, done, 0)
      BY <1>3, <3>1 DEF ChunkedUpTo
    <3> QED BY <3>2 DEF ChunkDone
  <2>2. Before(0) = 0
    BY <1>1 DEF Lesser
  <2>3. Times(fed, mState, 0) = <<>>
    BY DEF Times
  <2>4. After(mState, 0, 0) = mState
    BY <1>1 DEF After
  <2> HIDE DEF Before
  <2> QED BY <1>1, <2>1, <2>2, <2>3, <2>4 DEF Whole
<1>5. ASSUME NEW k \in Nat, k + 1 \in 0 .. N, Good(k) PROVE Good(k + 1)
  <2> DEFINE d == done[k]
             c == k * M
             l == Lesser(M, n - ChunkFrom(k + 1))
             e == Engine(d.state, fed + c, l, ConvertOut)
  <2>1. ChunkFrom(k + 1) = c /\ c \in Nat /\ (k + 1) * M = c + M
    BY <1>1, Product, Distributes DEF ChunkFrom, M
  <2>2. c < n
    <3>1. (k + 1) * M <= N * M
      BY <1>1, <1>2, <1>5, Cancel
    <3> QED BY <1>1, <1>2, <2>1, <3>1
  <2>3. Before(k) = c /\ Before(k + 1) = c + l /\ l \in Nat \ {0} /\ l <= maxBlock
    BY <1>1, <2>1, <2>2 DEF Lesser
  <2>4. Whole(d, fed, mState, c)
    BY <1>5, <2>3
  <2> HIDE DEF c, l
  <2>5. d.state \in 0 .. mRateIn - 1
    BY <2>4 DEF Whole
  <2>6. ConvertOut \in Nat /\ l * mRateOut <= (ConvertOut - 9) * mRateIn
    <3> DEFINE room == calculateBufferSize(maxBlock, mRateIn, mRateOut)
    <3>1. room \in Nat /\ room >= 10 /\ l * mRateOut <= (room - 9) * mRateIn
      BY <1>1, <2>3, BufferSuffices
    <3>2. ConvertOut \in Nat /\ room <= ConvertOut
      BY <3>1, ChunkSize DEF ConvertOut
    <3> HIDE DEF room
    <3>3. (room - 9) * mRateIn <= (ConvertOut - 9) * mRateIn
      BY <1>1, <3>1, <3>2, Cancel
    <3>4. (room - 9) * mRateIn \in Int /\ (ConvertOut - 9) * mRateIn \in Int 
          /\ l * mRateOut \in Int
      BY <1>1, <2>3, <3>1, <3>2
    <3> QED BY <3>1, <3>2, <3>3, <3>4
  <2>7. fed + c \in Nat
    BY <1>1, <2>1
  <2> HIDE DEF d
  <2>8. Whole(e, fed + c, d.state, l)
    BY <2>3, <2>5, <2>6, <2>7, EngineIsWhole
  <2>9. done[k + 1] = [times |-> d.times \o e.times, left |-> d.left + e.left,
                       state |-> e.state]
    <3>1. done[k + 1] = ChunkDone(n, done, k + 1)
      BY <1>2, <1>3, <1>5 DEF ChunkedUpTo
    <3>2. k + 1 # 0 /\ (k + 1) - 1 = k
      OBVIOUS
    <3> QED BY <2>1, <3>1, <3>2 DEF ChunkDone, d, l, M
  <2> HIDE DEF e
  <2>10. Whole(done[k + 1], fed, mState, c + l)
    <3>1. c \in Nat /\ l \in Nat /\ fed \in Nat /\ mState \in Nat
      BY <1>1, <2>1, <2>3
    <3>2. Whole([times |-> d.times \o e.times, left |-> d.left + e.left,
                 state |-> e.state], fed, mState, c + l)
      BY <1>1, <2>4, <2>8, <3>1, WholeAfterWhole
    <3> QED BY <2>9, <3>2
  <2> QED BY <2>3, <2>10
<1>6. 0 \notin F /\ \A k \in Nat : k + 1 \in F => k \in F
  <2> HIDE DEF Good
  <2>1. ASSUME NEW k \in Nat, k + 1 \in F PROVE k \in F
    <3>1. k + 1 \in 0 .. N /\ ~Good(k + 1)
      BY <2>1
    <3>2. ~Good(k)
      BY <1>5, <3>1
    <3> QED BY <1>2, <3>1, <3>2
  <2> QED BY <1>4, <2>1
<1> HIDE DEF F
<1>7. N \notin F
  BY <1>2, <1>6, NoFirstMember
<1>8. Good(N)
  <2> HIDE DEF Good
  <2> QED BY <1>2, <1>7 DEF F
<1>9. Before(N) = n
  BY <1>1, <1>2 DEF Lesser
<1> QED BY <1>3, <1>8, <1>9
-----------------------------------------------------------------------------
(***************************************************************************)
(* A block through Speex: an output more or less than a whole number of    *)
(* steps, all of which there is room for.                                  *)
(***************************************************************************)
LEMMA EngineEstimates ==
    ASSUME StreamType, ~Simple, NEW n \in Nat \ {0}, NEW count \in Nat,
           n * mRateOut < count * mRateIn + mRateIn,
           count * mRateIn < n * mRateOut + mRateIn
    PROVE  EstimatesFor(n, count)
<1>1. /\ mRateIn \in Nat \ {0} /\ mRateOut \in Nat \ {0}
      /\ n * mRateOut \in Nat /\ count * mRateIn \in Nat
  BY Product DEF StreamType
<1>2. Near(count, estimateOut(n, mRateIn, mRateOut))
  <2> DEFINE e == Rounded(n * mRateOut, mRateIn)
  <2>1. /\ e \in Nat
        /\ 2 * (e * mRateIn) <= 2 * (n * mRateOut) + mRateIn
        /\ 2 * (n * mRateOut) < 2 * (e * mRateIn) + mRateIn
    BY <1>1, RoundedQuotient
  <2>2. e * mRateIn \in Nat
    BY <1>1, <2>1, Product
  <2>3. estimateOut(n, mRateIn, mRateOut) = e
    BY DEF estimateOut
  <2> HIDE DEF e
  <2>4. e * mRateIn < (count + 2) * mRateIn
    <3>1. (count + 2) * mRateIn = (count * mRateIn) + (2 * mRateIn)
      BY <1>1, Distributes
    <3> QED BY <1>1, <2>1, <2>2, <3>1
  <2>5. e <= count + 1
    BY <1>1, <2>1, <2>4, Cancel
  <2>6. e * mRateIn <= (count * mRateIn) + mRateIn
    <3>1. (count + 1) * mRateIn = (count * mRateIn) + (1 * mRateIn)
      BY <1>1, Distributes
    <3>2. e * mRateIn <= (count + 1) * mRateIn
      BY <1>1, <2>1, <2>5, Cancel
    <3> QED BY <1>1, <3>1, <3>2
  <2>7. /\ -2 * (mRateIn + mRateOut) <= 2 * (count * mRateIn) - 2 * (e * mRateIn)
        /\ 2 * (count * mRateIn) - 2 * (e * mRateIn) <= 3 * (mRateIn + mRateOut)
    BY <1>1, <2>1, <2>2, <2>6
  <2> QED BY <2>1, <2>3, <2>7, NearIs
<1>3. ASSUME NEW m \in 1 .. MaxBlock, n = estimateNeed(m, mRateIn, mRateOut)
      PROVE  Near(count, m)
  <2>1. m \in Nat /\ m * mRateIn \in Nat
    BY <1>1, Product, ResamplersAssumption
  <2>2. n = (m * mRateIn) \div mRateOut
    BY <1>3 DEF estimateNeed, Simple
  <2>3. n * mRateOut <= m * mRateIn /\ m * mRateIn < n * mRateOut + mRateOut
    BY <1>1, <2>1, <2>2, Quotient
  <2>4. /\ -2 * (mRateIn + mRateOut) <= 2 * (count * mRateIn) - 2 * (m * mRateIn)
        /\ 2 * (count * mRateIn) - 2 * (m * mRateIn) <= 3 * (mRateIn + mRateOut)
    BY <1>1, <2>1, <2>3
  <2> QED BY <2>1, <2>4, NearIs
<1> QED BY <1>2, <1>3 DEF EstimatesFor

LEMMA EngineBlock ==
    ASSUME StreamInv, NEW n \in 1 .. MaxBlock, NEW room \in Rooms(n),
           ProcessEngine(n, room),
           UNCHANGED <<kind, mRateIn, mRateOut, maxBlock>>,
           fed' = fed + n, block' = n,
           kind = "speex_double" => n <= maxBlock \/ maxBlock % Align = 0
    PROVE  StreamInv'
<1> DEFINE e == IF kind = "speex_float" THEN Engine(mState, fed, n, room) 
                ELSE Converted(n)
           count == Lesser(Len(e.times), room)
<1>1. StreamType /\ LastFramesBehind /\ ~Simple /\ kind # "linear" /\ kind # "hold"
  BY DEF StreamInv, ProcessEngine, Simple
<1>2. /\ resampled' = [c \in Channels |-> [j \in 1 .. count |-> StreamAt(e.times[j]) * (c + 1)]]
      /\ left' = e.left + Len(e.times) - count
      /\ mState' = e.state
      /\ mLastFrame' = mLastFrame
  BY DEF ProcessEngine
<1>3. /\ n \in Nat \ {0} /\ room \in Nat /\ n * mRateOut \in Nat
      /\ n * mRateOut <= (room - 9) * mRateIn
      /\ mRateIn \in Nat \ {0} /\ mRateOut \in Nat \ {0}
      /\ fed \in Nat /\ mState \in 0 .. mRateIn - 1 /\ mState \in Nat
  <2>1. n \in Nat \ {0} /\ mRateIn \in Nat \ {0} /\ mRateOut \in Nat \ {0}
        /\ fed \in Nat /\ mState \in 0 .. mRateIn - 1 /\ mState \in Nat
    BY <1>1, ResamplersAssumption DEF StreamType
  <2> QED BY <1>1, <2>1, RoomSuffices, Product
<1>4. Whole(e, fed, mState, n)
  <2>1. CASE kind = "speex_float"
    BY <1>1, <1>3, <2>1, EngineIsWhole
  <2>2. CASE kind # "speex_float"
    BY <1>1, <1>3, <2>2, ConvertedIsWhole DEF ProcessEngine
  <2> QED BY <2>1, <2>2
<1> HIDE DEF e
<1>5. PICK k \in Nat : 
        /\ e = [times |-> Times(fed, mState, k), left |-> 0,
                state |-> After(mState, k, n)]
        /\ After(mState, k, n) \in 0 .. mRateIn - 1
  BY <1>4 DEF Whole
<1>6. k * mRateIn \in Nat /\ n * mRateOut < k * mRateIn + mRateIn 
      /\ k * mRateIn < n * mRateOut + mRateIn
  <2>1. k * mRateIn \in Nat
    BY <1>3, Product
  <2> QED BY <1>3, <1>5, <2>1 DEF After
<1>7. k < room
  <2>1. (room - 9) * mRateIn = (room * mRateIn) - (9 * mRateIn) 
        /\ room * mRateIn \in Nat
    BY <1>3, Distributes, Product
  <2>2. k * mRateIn < room * mRateIn
    BY <1>3, <1>6, <2>1
  <2> QED BY <1>3, <2>2, Cancel
<1>8. e.times = Times(fed, mState, k) /\ e.left = 0 /\ e.state = After(mState, k, n)
  BY <1>5
<1>9. Len(e.times) = k
  <2>1. Times(fed, mState, k) \in [1 .. k -> Int]
    BY <1>1, <1>3, DelayIs DEF Times
  <2>2. Times(fed, mState, k) \in Seq(Int)
    BY <2>1, SeqDef
  <2> QED BY <1>8, <2>1, <2>2, LenProperties
<1>10. count = k
  BY <1>3, <1>7, <1>9 DEF Lesser
<1>11. left' = 0 /\ mState' \in 0 .. mRateIn - 1
  BY <1>2, <1>5, <1>8, <1>9, <1>10
<1> HIDE DEF count
<1>12. ASSUME NEW c \in Channels
       PROVE  /\ resampled'[c] \in Seq(Int) /\ Len(resampled'[c]) = k
              /\ InStepFor(fed, c, resampled'[c]) /\ LagsFor(fed, c, resampled'[c])
  <2> DEFINE u(j) == (fed + 1 - getLatency) * mRateOut + (j - 1) * mRateIn
             t(j) == u(j) + mState
  <2>1. getLatency = Delay /\ getLatency \in Int
    BY <1>1, DelayIs DEF getLatency
  <2>2. \A j \in 1 .. k : u(j) \in Int /\ t(j) \in Int /\ e.times[j] = t(j)
    <3>1. \A j \in 1 .. k : e.times[j] = (fed + 1 - Delay) * mRateOut + mState + (j - 1) * mRateIn
      BY <1>8 DEF Times
    <3> QED BY <1>3, <2>1, <3>1
  <2>3. c \in Nat
    BY ResamplersAssumption
  <2> HIDE DEF u, t
  <2>4. /\ DOMAIN resampled'[c] = 1 .. k
        /\ \A j \in 1 .. k : resampled'[c][j] = StreamAt(t(j)) * (c + 1)
    BY <1>2, <1>10, <2>2
  <2>5. ASSUME NEW j \in 1 .. k
        PROVE  /\ resampled'[c][j] \in Int
               /\ resampled'[c][j] - StreamAt(u(j)) * (c + 1) \in 0 .. mRateIn * (c + 1) - 1
    <3> DEFINE a == StreamAt(t(j))
               b == StreamAt(u(j))
               x == a - b
    <3>1. a \in Int /\ b \in Int /\ x \in 0 .. mRateIn - 1
      BY <1>3, <2>2 DEF StreamAt, t
    <3>2. resampled'[c][j] = a * (c + 1)
      BY <2>4
    <3> HIDE DEF a, b
    <3>3. x \in Nat /\ x < mRateIn /\ c + 1 \in Nat \ {0}
      BY <1>3, <2>3, <3>1
    <3>4. a * (c + 1) - b * (c + 1) = x * (c + 1) /\ a * (c + 1) \in Int
      BY <2>3, <3>1, Distributes
    <3> HIDE DEF x
    <3>5. x * (c + 1) \in Nat /\ mRateIn * (c + 1) \in Nat /\ x * (c + 1) < mRateIn * (c + 1)
      BY <1>3, <3>3, Product, Cancel
    <3> QED BY <3>2, <3>4, <3>5 DEF b
  <2>6. resampled'[c] \in Seq(Int) /\ Len(resampled'[c]) = k
    <3>1. resampled'[c] = [j \in 1 .. k |-> StreamAt(t(j)) * (c + 1)]
      BY <1>2, <1>10, <2>2
    <3>2. resampled'[c] \in [1 .. k -> Int]
      BY <2>4, <2>5, <3>1
    <3>3. resampled'[c] \in Seq(Int)
      BY <3>2, SeqDef
    <3> QED BY <3>2, <3>3, LenProperties
  <2>7. InStepFor(fed, c, resampled'[c])
    BY <1>1, <2>4, <2>5 DEF InStepFor, u
  <2>8. LagsFor(fed, c, resampled'[c])
    BY <1>1 DEF LagsFor
  <2> QED BY <2>6, <2>7, <2>8
<1>13. resampled' \in [Channels -> Seq(Int)]
  BY <1>2, <1>12
<1>14. EstimatesFor(n, k)
  BY <1>1, <1>3, <1>6, EngineEstimates
<1>15. mLastFrame' \in [Channels -> Int]
  BY <1>1, <1>2 DEF StreamType
<1> QED BY <1>1, <1>11, <1>12, <1>13, <1>14, <1>15, BlockEstablishes
-----------------------------------------------------------------------------
(***************************************************************************)
(* The steps of a stream, and of a stream with a convolver behind it.      *)
(***************************************************************************)
Fresh == /\ maxBlock \in Nat \ {0}
         /\ kind \in AllKinds
         /\ mRateIn \in Nat \ {0} /\ mRateOut \in Nat \ {0}
         /\ mLastFrame = [c \in Channels |-> 0]
         /\ mState = 0
         /\ fed = 0 /\ block = 0 /\ left = 0
         /\ resampled = [c \in Channels |-> <<>>]

LEMMA FreshStream == Fresh => StreamInv
<1> SUFFICES ASSUME Fresh PROVE StreamInv
  OBVIOUS
<1>1. \A c \in Channels : c \in Nat /\ resampled[c] = <<>> /\ mLastFrame[c] = 0
  BY ResamplersAssumption DEF Fresh
<1>2. /\ mRateIn \in Nat \ {0} /\ mRateOut \in Nat \ {0} /\ mState \in 0 .. mRateIn - 1
      /\ fed = 0 /\ fed \in Nat /\ block = 0 /\ block \in Nat
  BY DEF Fresh
<1>3. StreamType
  BY <1>1, <1>2 DEF Fresh, StreamType
<1>4. LastFramesBehind
  <2> SUFFICES ASSUME NEW c \in Channels
               PROVE  mLastFrame[c] * mRateOut - ((fed + 1) * mRateOut) * (c + 1) 
                        \in -(mRateIn + mRateOut) * (c + 1) .. 0
    BY DEF LastFramesBehind
  <2>1. mLastFrame[c] * mRateOut - ((fed + 1) * mRateOut) * (c + 1) 
          = -(mRateOut * (c + 1))
    BY <1>1, <1>2
  <2>2. -(mRateIn + mRateOut) * (c + 1) = -(mRateIn * (c + 1)) - mRateOut * (c + 1)
    BY <1>1, <1>2
  <2>3. mRateIn * (c + 1) \in Nat /\ mRateOut * (c + 1) \in Nat
    BY <1>1, <1>2, Product
  <2> QED BY <2>1, <2>2, <2>3
<1>5. NothingLeft
  BY DEF NothingLeft, Fresh
<1>6. (Interpolates \/ InStep) /\ LinearLags
  BY <1>1 DEF InStep, LinearLags
<1>7. EstimatesHold
  BY <1>2 DEF EstimatesHold
<1> QED BY <1>3, <1>4, <1>5, <1>6, <1>7 DEF StreamInv

LEMMA StreamStep ==
    ASSUME StreamInv, ResamplersNext, ~PadsChunks
    PROVE  StreamInv'
<1>1. CASE init
  <2>1. PICK k \in Kinds, r \in Rates, longest \in 1 .. MaxBlock :
          Starts(k, r[1], r[2], longest)
    BY <1>1 DEF init
  <2>2. Fresh'
    BY <2>1, ResamplersAssumption DEF Starts, Fresh
  <2>3. Fresh' => StreamInv'
    BY FreshStream, PTL
  <2> QED BY <2>2, <2>3
<1>2. ASSUME NEW n \in 1 .. MaxBlock, process(n) PROVE StreamInv'
  <2>1. PICK room \in Rooms(n) : ProcessFrames(n, room) \/ ProcessEngine(n, room)
    BY <1>2 DEF process
  <2>2. UNCHANGED <<kind, mRateIn, mRateOut, maxBlock>> 
        /\ fed' = fed + n /\ block' = n
        /\ (kind = "speex_double" => n <= maxBlock \/ maxBlock % Align = 0)
    BY <1>2 DEF process
  <2>3. CASE ProcessFrames(n, room)
    BY <2>2, <2>3, SimpleBlock
  <2>4. CASE ProcessEngine(n, room)
    BY <2>2, <2>4, EngineBlock
  <2> QED BY <2>1, <2>3, <2>4
<1> QED BY <1>1, <1>2 DEF ResamplersNext

LEMMA StreamStutter == StreamInv /\ UNCHANGED vars => StreamInv'
BY DEF vars, StreamInv, StreamType, LastFramesBehind, NothingLeft, InStep, 
       LinearLags, StreamAt, getLatency, FilterLength, EstimatesHold, Near, 
       validSize, estimateNeed

(***************************************************************************)
(* The invariant holds of every stream, and so do the four claims, as long *)
(* as no block is longer than the padded chunks of ResamplerSpeex allow.   *)
(***************************************************************************)
THEOREM ResamplersInvariant ==
    ASSUME ~PadsChunks
    PROVE  ResamplersSpec => []StreamInv
<1>1. ResamplersInit => StreamInv
  <2>1. ResamplersInit => Fresh
    BY ResamplersAssumption DEF ResamplersInit, Fresh
  <2> QED BY <2>1, FreshStream
<1>2. StreamInv /\ [ResamplersNext]_vars => StreamInv'
  BY StreamStep, StreamStutter
<1> QED BY <1>1, <1>2, PTL DEF ResamplersSpec

(***************************************************************************)
(* A buffer of calculateBufferSize() takes all that comes out, whatever    *)
(* the rates and the lengths of the blocks: no frame is left over.  What   *)
(* ResamplerSpeex was told is the longest block is, or is a multiple of    *)
(* the alignment.                                                          *)
(***************************************************************************)
THEOREM BlocksUsedUp ==
    ASSUME ~PadsChunks
    PROVE  ResamplersSpec => []NothingLeft
<1>1. StreamInv => NothingLeft
  BY DEF StreamInv
<1> QED BY <1>1, ResamplersInvariant, PTL

(***************************************************************************)
(* Every output of every block of Hold and Speex is near the input of its  *)
(* time, as many frames earlier as the latency that is reported.           *)
(***************************************************************************)
THEOREM StreamsInStep ==
    ASSUME ~PadsChunks, ~Interpolates
    PROVE  ResamplersSpec => []InStep
<1>1. StreamInv => InStep
  BY DEF StreamInv
<1> QED BY <1>1, ResamplersInvariant, PTL

(***************************************************************************)
(* Linear is late by a step of the output and a frame at most, across the  *)
(* borders of blocks too, and never early.                                 *)
(***************************************************************************)
THEOREM LinearIsLate ==
    ASSUME ~PadsChunks
    PROVE  ResamplersSpec => []LinearLags
<1>1. StreamInv => LinearLags
  BY DEF StreamInv
<1> QED BY <1>1, ResamplersInvariant, PTL

(***************************************************************************)
(* estimateOut() and estimateNeed() are what comes out, give or take.      *)
(***************************************************************************)
THEOREM EstimatesAreNear ==
    ASSUME ~PadsChunks
    PROVE  ResamplersSpec => []EstimatesHold
<1>1. StreamInv => EstimatesHold
  BY DEF StreamInv
<1> QED BY <1>1, ResamplersInvariant, PTL

\* A convolver behind it does nothing to a stream.
LEMMA ConvolverKeepsStream == ConvolverSpec => ResamplersSpec
<1>1. ConvolverInit => ResamplersInit
  BY DEF ConvolverInit
<1>2. [ConvolverNext]_convolverVars => [ResamplersNext]_vars
  BY DEF ConvolverNext, convolverVars, load, take, convolve
<1> QED BY <1>1, <1>2, PTL DEF ConvolverSpec, ResamplersSpec
-----------------------------------------------------------------------------
(***************************************************************************)
(* The response as it is kept: the valid samples, silence where it is      *)
(* padded, and no loud one that is not kept.                               *)
(***************************************************************************)
ResponseOK(r) ==
    /\ r \in Seq(Seq(Int)) /\ r # <<>> /\ r[1] # <<>>
    /\ \A c \in DOMAIN r : Len(r[c]) = Len(r[1])

Kept(r, ir, valid, size) ==
    /\ valid \in Nat /\ size \in Nat \ {0}
    /\ r \in Seq(Seq(Int)) /\ r # <<>> 
    /\ Len(ir) = Len(r)
    /\ \A c \in DOMAIN r :
          /\ Len(r[c]) = valid /\ Len(ir[c]) = size
          /\ \A j \in 1 .. size : ir[c][j] = IF j <= valid THEN r[c][j] ELSE 0
          /\ \A j \in 1 .. valid : size < j => ~Loud(r[c][j])

KeptOK == \/ response = <<>> /\ mIr = <<>>
          \/ \E valid, size \in Nat : Kept(response, mIr, valid, size)

LEMMA TrimmedIs ==
    ASSUME NEW r, ResponseOK(r)
    PROVE  /\ Trimmed(r) \in 1 .. Len(r[1]) /\ Len(r[1]) \in Nat
           /\ \A c \in DOMAIN r : \A i \in DOMAIN r[c] :
                 Trimmed(r) < i => ~Loud(r[c][i])
<1> DEFINE loud == {i \in 2 .. Len(r[1]) : \E c \in DOMAIN r : Loud(r[c][i])}
           n == Len(r[1])
<1>1. 1 \in DOMAIN r /\ DOMAIN r = 1 .. Len(r) /\ Len(r) \in Nat
  BY DEF ResponseOK
<1>2. r[1] \in Seq(Int) /\ n \in Nat /\ n # 0
  BY <1>1 DEF ResponseOK
<1>3. \A c \in DOMAIN r : DOMAIN r[c] = 1 .. n
  BY <1>2 DEF ResponseOK
<1>4. Trimmed(r) = IF loud = {} THEN n ELSE Max(loud)
  BY DEF Trimmed
<1>5. loud \subseteq 2 .. n
  OBVIOUS
<1> HIDE DEF n
<1>6. CASE loud = {}
  BY <1>2, <1>3, <1>4, <1>6 DEF n
<1>7. CASE loud # {}
  <2> DEFINE T == {n - i : i \in loud}
  <2> HIDE DEF loud
  <2>1. T \subseteq Nat /\ T # {}
    <3>1. \A i \in loud : n - i \in Nat
      BY <1>2, <1>5
    <3>2. PICK i \in loud : TRUE
      BY <1>7
    <3>3. n - i \in T
      BY <3>2
    <3>4. T \subseteq Nat
      BY <3>1
    <3> QED BY <3>3, <3>4
  <2> HIDE DEF T
  <2>2. PICK x \in T : \A y \in T : x <= y
    BY <2>1, LeastMember
  <2>3. PICK i \in loud : x = n - i
    BY DEF T
  <2>4. \A k \in loud : n - k \in T
    BY DEF T
  <2>5. \A k \in loud : i >= k
    BY <1>2, <1>5, <2>2, <2>3, <2>4
  <2>6. Max(loud) \in loud /\ \A k \in loud : Max(loud) >= k
    BY <2>5 DEF Max
  <2>7. Max(loud) \in 2 .. n
    BY <1>5, <2>6
  <2>8. ASSUME NEW c \in DOMAIN r, NEW k \in DOMAIN r[c], Max(loud) < k PROVE ~Loud(r[c][k])
    <3>1. k \in 2 .. n
      BY <1>2, <1>3, <2>7, <2>8
    <3>2. k \notin loud
      BY <1>2, <2>6, <2>7, <2>8, <3>1
    <3> QED BY <3>1, <3>2 DEF loud, n
  <2> QED BY <1>2, <1>4, <1>7, <2>7, <2>8 DEF n
<1> QED BY <1>6, <1>7

LEMMA KeptIs ==
    ASSUME KeptOK, mIr # <<>>, NEW k \in DOMAIN response
    PROVE  /\ Len(mIr) = Len(response) /\ Len(response) \in Nat \ {0}
           /\ DOMAIN response = 1 .. Len(response)
           /\ response[k] \in Seq(Int) /\ Len(response[k]) \in Nat
           /\ Len(mIr[1]) \in Nat \ {0}
           /\ \A j \in 1 .. Len(mIr[1]) : 
                 mIr[k][j] = IF j <= Len(response[k]) THEN response[k][j] ELSE 0
           /\ \A j \in DOMAIN response[k] : Len(mIr[1]) < j => ~Loud(response[k][j])
<1>1. PICK valid \in Nat, size \in Nat : Kept(response, mIr, valid, size)
  BY DEF KeptOK
<1>2. /\ Len(mIr) = Len(response) /\ Len(response) \in Nat \ {0}
      /\ DOMAIN response = 1 .. Len(response)
      /\ response[k] \in Seq(Int) /\ Len(response[k]) = valid
  BY <1>1 DEF Kept
<1>3. 1 \in DOMAIN response
  BY <1>2
<1>4. Len(mIr[1]) = size /\ size \in Nat \ {0}
  BY <1>1, <1>3 DEF Kept
<1>5. DOMAIN response[k] = 1 .. valid
  BY <1>2
<1> QED BY <1>1, <1>2, <1>4, <1>5 DEF Kept

(***************************************************************************)
(* The sums, as sums of functions.                                         *)
(***************************************************************************)
Input(c) == resampled[c % Cardinality(Channels)]
Place(c) == (c % Len(response)) + 1
Earliest(c, i) == IF i >= Len(Input(c)) - 1 THEN i - (Len(Input(c)) - 1) ELSE 0
Latest(i) == IF i < Len(mIr[1]) - 1 THEN i ELSE Len(mIr[1]) - 1
Reached(c, i) == Earliest(c, i) .. Latest(i)
KeptTerms(c, i) == 
    [j \in Reached(c, i) |-> mIr[Place(c)][j + 1] * Input(c)[i - j + 1]]

Meeting(c, i) == 
    {p \in (DOMAIN response[Place(c)]) \X (DOMAIN Input(c)) : p[1] + p[2] = i + 2}
EndTerms(c, i) == 
    [p \in {q \in Meeting(c, i) : SilentFrom(q[1])} |-> Magnitude(Terms(c, i)[p])]

\* Of the terms those that are kept, and of the silent end what it amounts to.
Audible(c, i) == 
    [p \in Meeting(c, i) |-> IF p[1] <= Len(mIr[1]) THEN Terms(c, i)[p] ELSE 0]
Inaudible(c, i) ==
    [p \in Meeting(c, i) |-> IF SilentFrom(p[1]) THEN Magnitude(Terms(c, i)[p]) ELSE 0]

LEMMA TotalIs == ASSUME NEW f PROVE Total(f) = SumOf(f, DOMAIN f)
BY DEF Total, SumOf

LEMMA SumsAre ==
    ASSUME NEW c, NEW i, Len(mIr) = Len(response)
    PROVE  /\ Convolved(c, i) = SumOf(KeptTerms(c, i), Reached(c, i))
           /\ Terms(c, i) = [p \in Meeting(c, i) |-> 
                               response[Place(c)][p[1]] * Input(c)[p[2]]]
           /\ Convolution(c, i) = SumOf(Terms(c, i), Meeting(c, i))
           /\ SilentEnd(c, i) = SumOf(EndTerms(c, i), DOMAIN EndTerms(c, i))
<1>1. Convolved(c, i) = Total(KeptTerms(c, i))
  BY DEF Convolved, KeptTerms, Reached, Earliest, Latest, Input, Place, validSize
<1>2. DOMAIN KeptTerms(c, i) = Reached(c, i)
  BY DEF KeptTerms
<1>3. Terms(c, i) = [p \in Meeting(c, i) |-> response[Place(c)][p[1]] * Input(c)[p[2]]]
  BY DEF Terms, Meeting, Place, Input
<1>4. DOMAIN Terms(c, i) = Meeting(c, i)
  BY <1>3
<1>5. SilentEnd(c, i) = Total(EndTerms(c, i))
  BY <1>4 DEF SilentEnd, EndTerms
<1> QED BY <1>1, <1>2, <1>3, <1>4, <1>5, TotalIs DEF Convolution

LEMMA InputIs ==
    ASSUME StreamType, \A d \in Channels : validSize(d) > 0, NEW c \in Nat
    PROVE  Input(c) \in Seq(Int) /\ Len(Input(c)) \in Nat \ {0}
<1> DEFINE N == Cardinality(Channels)
<1>1. N \in Nat /\ N # 0 /\ Channels = 0 .. N - 1
  BY ConvolverAssumption, FS_CardinalityType, FS_EmptySet
<1> HIDE DEF N
<1>2. c % N \in Channels
  BY <1>1
<1>3. Input(c) = resampled[c % N]
  BY DEF Input, N
<1>4. resampled[c % N] \in Seq(Int) /\ Len(resampled[c % N]) > 0
  BY <1>2 DEF StreamType, validSize
<1> QED BY <1>3, <1>4

(***************************************************************************)
(* What is kept of the response meets the valid frames where the response  *)
(* does, up to the last sample that is kept.                               *)
(***************************************************************************)
LEMMA ConvolvedIsAudible ==
    ASSUME KeptOK, mIr # <<>>, StreamType, \A d \in Channels : validSize(d) > 0, 
           NEW c \in Nat, NEW i \in Nat
    PROVE  /\ IsFiniteSet(Meeting(c, i)) /\ IntsOn(Terms(c, i), Meeting(c, i))
           /\ Convolved(c, i) = SumOf(Audible(c, i), Meeting(c, i))
           /\ Place(c) \in DOMAIN response
           /\ Meeting(c, i) \subseteq (DOMAIN response[Place(c)]) \X (DOMAIN Input(c))
<1> DEFINE k == Place(c)
           n == Len(mIr[1])
           ng == Len(Input(c))
           S == Reached(c, i)
           b == KeptTerms(c, i)
           M == Meeting(c, i)
           a == Audible(c, i)
           L == Len(response[k])
<1>1. /\ Len(mIr) = Len(response) /\ Len(response) \in Nat \ {0}
      /\ DOMAIN response = 1 .. Len(response)
  <2>1. response # <<>>
    BY DEF KeptOK, Kept
  <2>2. 1 \in DOMAIN response
    BY <2>1 DEF KeptOK, Kept
  <2> QED BY <2>2, KeptIs
<1>2. k \in DOMAIN response
  BY <1>1 DEF Place
<1>3. /\ response[k] \in Seq(Int) /\ L \in Nat /\ n \in Nat \ {0}
      /\ \A j \in 1 .. n : mIr[k][j] = IF j <= L THEN response[k][j] ELSE 0
  BY <1>2, KeptIs
<1>4. Input(c) \in Seq(Int) /\ ng \in Nat \ {0}
  BY InputIs
<1>5. /\ DOMAIN response[k] = 1 .. L /\ DOMAIN Input(c) = 1 .. ng
      /\ \A q \in 1 .. L : response[k][q] \in Int
      /\ \A q \in 1 .. ng : Input(c)[q] \in Int
  BY <1>3, <1>4
<1>6. S = {j \in 0 .. n - 1 : i - j + 1 \in 1 .. ng}
  <2> HIDE DEF n, ng
  <2>1. Latest(i) = IF i < n - 1 THEN i ELSE n - 1
    BY <1>3 DEF Latest, n
  <2>2. Earliest(c, i) = IF i >= ng - 1 THEN i - (ng - 1) ELSE 0
    BY DEF Earliest, ng
  <2> QED BY <1>3, <1>4, <2>1, <2>2 DEF Reached
<1>7. M = {p \in (1 .. L) \X (1 .. ng) : p[1] + p[2] = i + 2}
  BY <1>5 DEF Meeting
<1>8. Terms(c, i) = [p \in M |-> response[k][p[1]] * Input(c)[p[2]]]
  BY <1>1, SumsAre
<1>9. b = [j \in S |-> mIr[k][j + 1] * Input(c)[i - j + 1]]
  BY DEF KeptTerms
<1>10. a = [p \in M |-> IF p[1] <= n THEN Terms(c, i)[p] ELSE 0]
  BY DEF Audible
<1>11. Convolved(c, i) = SumOf(b, S)
  BY <1>1, SumsAre
<1> DEFINE V == {j \in S : j + 1 <= L}
<1> HIDE DEF k, n, ng, S, b, M, a, L
<1>12. IsFiniteSet(S) /\ IsFiniteSet(M) /\ IsFiniteSet(V)
  <2>1. IsFiniteSet(0 .. n - 1) /\ IsFiniteSet(1 .. L) /\ IsFiniteSet(1 .. ng)
    BY <1>3, <1>4, FS_Interval
  <2>2. IsFiniteSet((1 .. L) \X (1 .. ng))
    BY <2>1, FS_Product
  <2> QED BY <1>6, <1>7, <2>1, <2>2, FS_Subset
<1>13. IntsOn(Terms(c, i), M)
  <2> SUFFICES ASSUME NEW p \in M PROVE Terms(c, i)[p] \in Int
    BY DEF IntsOn
  <2>1. p[1] \in 1 .. L /\ p[2] \in 1 .. ng
    BY <1>7
  <2>2. response[k][p[1]] \in Int /\ Input(c)[p[2]] \in Int
    BY <1>5, <2>1
  <2>3. Terms(c, i)[p] = response[k][p[1]] * Input(c)[p[2]]
    BY <1>8
  <2> QED BY <2>2, <2>3
<1> DEFINE e == [j \in V |-> <<j + 1, i - j + 1>>]
<1>14. ASSUME NEW j \in V 
       PROVE  /\ j \in S /\ j \in 0 .. n - 1 /\ j + 1 \in 1 .. n /\ j + 1 \in 1 .. L
              /\ i - j + 1 \in 1 .. ng
              /\ e[j] \in M
  <2>1. j \in S /\ j \in 0 .. n - 1 /\ i - j + 1 \in 1 .. ng /\ j + 1 <= L
    BY <1>6
  <2>2. j + 1 \in 1 .. n /\ j + 1 \in 1 .. L /\ (j + 1) + (i - j + 1) = i + 2
    BY <1>3, <2>1
  <2> QED BY <1>7, <2>1, <2>2
<1>15. /\ \A j \in V : b[j] = response[k][j + 1] * Input(c)[i - j + 1] /\ b[j] \in Int
       /\ \A j \in S : j \notin V => b[j] = 0
  <2>1. ASSUME NEW j \in V 
        PROVE  b[j] = response[k][j + 1] * Input(c)[i - j + 1] /\ b[j] \in Int
    <3>1. mIr[k][j + 1] = response[k][j + 1] /\ response[k][j + 1] \in Int
          /\ Input(c)[i - j + 1] \in Int
      BY <1>3, <1>5, <1>14
    <3> QED BY <1>9, <1>14, <3>1
  <2>2. ASSUME NEW j \in S, j \notin V PROVE b[j] = 0
    <3>1. j + 1 \in 1 .. n /\ ~(j + 1 <= L) /\ i - j + 1 \in 1 .. ng
      BY <1>3, <1>6, <2>2
    <3>2. mIr[k][j + 1] = 0 /\ Input(c)[i - j + 1] \in Int
      BY <1>3, <1>5, <3>1
    <3>3. b[j] = mIr[k][j + 1] * Input(c)[i - j + 1]
      BY <1>9
    <3> QED BY <3>2, <3>3
  <2> QED BY <2>1, <2>2
<1>16. e \in [V -> M]
  BY <1>14
<1>17. \A x, y \in V : e[x] = e[y] => x = y
  BY <1>14
<1>18. ASSUME NEW j \in V PROVE a[e[j]] = b[j]
  <2>1. e[j] = <<j + 1, i - j + 1>> /\ e[j] \in M /\ e[j][1] = j + 1 /\ e[j][2] = i - j + 1
    BY <1>14
  <2> HIDE DEF e
  <2>2. a[e[j]] = Terms(c, i)[e[j]]
    BY <1>10, <1>14, <2>1
  <2>3. Terms(c, i)[e[j]] = response[k][j + 1] * Input(c)[i - j + 1]
    BY <1>8, <2>1
  <2> QED BY <1>15, <2>2, <2>3
<1>19. ASSUME NEW p \in M, \A j \in V : e[j] # p PROVE a[p] = 0
  <2>1. p \in (1 .. L) \X (1 .. ng) /\ p[1] + p[2] = i + 2
    BY <1>7
  <2>2. p[1] \in 1 .. L /\ p[2] \in 1 .. ng /\ p = <<p[1], p[2]>>
    BY <2>1
  <2>3. ~(p[1] <= n)
    <3> SUFFICES ASSUME p[1] <= n PROVE FALSE
      OBVIOUS
    <3>1. p[1] - 1 \in 0 .. n - 1 /\ i - (p[1] - 1) + 1 = p[2] /\ (p[1] - 1) + 1 = p[1]
      <4> DEFINE x == p[1]
                 y == p[2]
      <4>1. x \in 1 .. L /\ y \in 1 .. ng /\ x + y = i + 2 /\ x <= n
        BY <2>1, <2>2
      <4> HIDE DEF x, y
      <4>2. x - 1 \in 0 .. n - 1 /\ i - (x - 1) + 1 = y /\ (x - 1) + 1 = x
        BY <1>3, <1>4, <4>1
      <4> QED BY <4>2 DEF x, y
    <3>2. p[1] - 1 \in V
      BY <1>3, <1>6, <2>2, <3>1
    <3>3. e[p[1] - 1] = <<(p[1] - 1) + 1, i - (p[1] - 1) + 1>>
      BY <3>2
    <3>4. e[p[1] - 1] = p
      BY <2>2, <3>1, <3>3
    <3> QED BY <1>19, <3>2, <3>4
  <2> QED BY <1>10, <2>3
<1> HIDE DEF e
<1>20. SumOf(a, M) = SumOf(b, S)
  <2>1. IntsOn(b, V)
    BY <1>15 DEF IntsOn
  <2>2. SumOf(a, M) = SumOf(b, V)
    BY <1>12, <1>16, <1>17, <1>18, <1>19, <2>1, SumRearranged
  <2> DEFINE g == [j \in V |-> j]
  <2>3. g \in [V -> S] /\ \A j \in V : g[j] = j
    OBVIOUS
  <2> HIDE DEF g
  <2>4. /\ \A x, y \in V : g[x] = g[y] => x = y
        /\ \A x \in V : b[g[x]] = b[x]
        /\ \A z \in S : (\A x \in V : g[x] # z) => b[z] = 0
    BY <1>15, <2>3
  <2>5. SumOf(b, S) = SumOf(b, V)
    BY <1>12, <2>1, <2>3, <2>4, SumRearranged
  <2> QED BY <2>2, <2>5
<1>21. M \subseteq (DOMAIN response[k]) \X (DOMAIN Input(c))
  BY <1>5, <1>7
<1> QED BY <1>2, <1>11, <1>12, <1>13, <1>20, <1>21 DEF M, a, k

(***************************************************************************)
(* What is cut off is behind the last loud sample, so that no term differs *)
(* by more than one of the silent end amounts to.                          *)
(***************************************************************************)
LEMMA ConvolvedIsNear ==
    ASSUME KeptOK, mIr # <<>>, StreamType, \A d \in Channels : validSize(d) > 0, 
           NEW c \in Nat, NEW i \in Nat
    PROVE  /\ Convolved(c, i) \in Int /\ Convolution(c, i) \in Int
           /\ Magnitude(Convolved(c, i) - Convolution(c, i)) <= SilentEnd(c, i)
<1> DEFINE M == Meeting(c, i)
           t == Terms(c, i)
           a == Audible(c, i)
           d == Inaudible(c, i)
           E == {q \in M : SilentFrom(q[1])}
           b == EndTerms(c, i)
           n == Len(mIr[1])
<1>1. Len(mIr) = Len(response)
  <2>1. response # <<>>
    BY DEF KeptOK, Kept
  <2>2. 1 \in DOMAIN response
    BY <2>1 DEF KeptOK, Kept
  <2> QED BY <2>2, KeptIs
<1>2. /\ IsFiniteSet(M) /\ IntsOn(t, M)
      /\ Convolved(c, i) = SumOf(a, M) /\ Convolution(c, i) = SumOf(t, M)
      /\ \A p \in M : p[1] \in DOMAIN response[Place(c)]
      /\ Place(c) \in DOMAIN response
  BY <1>1, ConvolvedIsAudible, SumsAre
<1>3. SilentEnd(c, i) = SumOf(b, DOMAIN b) /\ DOMAIN b = E
  BY <1>1, SumsAre DEF EndTerms
<1>4. ASSUME NEW p \in M
      PROVE  /\ t[p] \in Int
             /\ a[p] = IF p[1] <= n THEN t[p] ELSE 0
             /\ d[p] = IF SilentFrom(p[1]) THEN Magnitude(t[p]) ELSE 0
             /\ p \in E => b[p] = Magnitude(t[p])
  BY <1>2 DEF IntsOn, Audible, Inaudible, EndTerms
<1>5. ASSUME NEW p \in M, ~(p[1] <= n) PROVE SilentFrom(p[1])
  <2>1. n \in Nat /\ \A x \in DOMAIN response : \A m \in DOMAIN response[x] :
                      n < m => ~Loud(response[x][m])
    BY <1>2, KeptIs
  <2>2. \A x \in DOMAIN response : \A m \in DOMAIN response[x] : m \in Nat
    <3>1. \A x \in DOMAIN response : response[x] \in Seq(Int)
      BY KeptIs
    <3> QED BY <3>1
  <2>3. p[1] \in Nat
    BY <1>2, <2>2
  <2> HIDE DEF n
  <2>4. \A m \in Nat : p[1] <= m => n < m
    BY <1>5, <2>1, <2>3
  <2> QED BY <2>1, <2>2, <2>4 DEF SilentFrom
<1> HIDE DEF M, t, a, d, E, b, n
<1>6. ASSUME NEW p \in M
      PROVE  /\ a[p] \in Int /\ d[p] \in Int
             /\ -d[p] <= a[p] - t[p] /\ a[p] - t[p] <= d[p]
  BY <1>4, <1>5 DEF Magnitude
<1>7. IntsOn(a, M) /\ IntsOn(d, M)
  BY <1>6 DEF IntsOn
<1>8. /\ SumOf(a, M) \in Int /\ SumOf(t, M) \in Int /\ SumOf(d, M) \in Int
      /\ -SumOf(d, M) <= SumOf(a, M) - SumOf(t, M)
      /\ SumOf(a, M) - SumOf(t, M) <= SumOf(d, M)
  BY <1>2, <1>6, <1>7, SumOfBounds
<1>9. SumOf(d, M) = SumOf(b, E)
  <2> DEFINE e == [p \in E |-> p]
  <2>1. E \subseteq M /\ IsFiniteSet(E)
    BY <1>2, FS_Subset DEF E
  <2>2. e \in [E -> M] /\ (\A p \in E : e[p] = p)
    BY <2>1
  <2>3. \A p \in E : b[p] = d[p] /\ b[p] \in Int
    BY <1>4, <1>6, <2>1 DEF E
  <2>4. \A p \in M : p \notin E => d[p] = 0
    BY <1>4 DEF E
  <2>5. IntsOn(b, E)
    BY <2>3 DEF IntsOn
  <2> HIDE DEF e
  <2>6. /\ \A x, y \in E : e[x] = e[y] => x = y
        /\ \A x \in E : d[e[x]] = b[x]
        /\ \A z \in M : (\A x \in E : e[x] # z) => d[z] = 0
    BY <2>2, <2>3, <2>4
  <2> QED BY <1>2, <2>1, <2>2, <2>5, <2>6, SumRearranged
<1>10. /\ Convolved(c, i) \in Int /\ Convolution(c, i) \in Int
       /\ SilentEnd(c, i) = SumOf(d, M)
  BY <1>2, <1>3, <1>8, <1>9
<1> QED BY <1>2, <1>8, <1>10 DEF Magnitude

(***************************************************************************)
(* Loading keeps the response, and nothing else changes it.                *)
(***************************************************************************)
ConvolverInv == StreamInv /\ KeptOK

LEMMA LoadKeeps ==
    ASSUME KeptOK, ~LeavesOld, NEW r \in Responses, load(r), r.samples[1] # <<>>
    PROVE  KeptOK'
<1> DEFINE s == r.samples
           v == r.valid
           n == Trimmed(s)
           stays == Len(mIr) = Len(s) /\ Len(mIr[1]) = n
           size == IF stays THEN n ELSE closestChunkSize(n)
           L == Len(s[1])
<1>1. ResponseOK(s) /\ v \in 0 .. L /\ L % Align = 0
  BY ConvolverAssumption DEF ResponseOK
<1>2. /\ n \in 1 .. L /\ L \in Nat
      /\ \A c \in DOMAIN s : \A i \in DOMAIN s[c] : n < i => ~Loud(s[c][i])
  BY <1>1, TrimmedIs
<1>3. /\ DOMAIN s = 1 .. Len(s) /\ Len(s) \in Nat \ {0} 
      /\ \A c \in DOMAIN s : s[c] \in Seq(Int) /\ Len(s[c]) = L
  BY <1>1 DEF ResponseOK
<1>4. /\ response' = [c \in DOMAIN s |-> SubSeq(s[c], 1, v)]
      /\ mIr' = [c \in DOMAIN s |-> [j \in 1 .. size |-> 
                   IF j <= v THEN s[c][j] ELSE IF stays THEN mIr[c][j] ELSE 0]]
      /\ stays => n <= v
  BY DEF load
<1>5. size \in Nat \ {0} /\ n <= size
  <2>1. closestChunkSize(n) \in Nat /\ n <= closestChunkSize(n)
    BY <1>2, ChunkSize
  <2> QED BY <1>2, <2>1
<1>6. stays => size <= v
  BY <1>4
<1> HIDE DEF s, v, n, L, stays, size
<1>7. ASSUME NEW c \in DOMAIN s
      PROVE  /\ response'[c] \in Seq(Int) /\ Len(response'[c]) = v
             /\ \A j \in 1 .. v : response'[c][j] = s[c][j]
  <2>1. response'[c] = SubSeq(s[c], 1, v) /\ s[c] \in Seq(Int) /\ Len(s[c]) = L
    BY <1>3, <1>4
  <2>2. v \in 0 .. Len(s[c]) /\ 1 \in 1 .. Len(s[c]) + 1
    BY <1>1, <1>2, <2>1
  <2>3. v - 1 + 1 = v /\ \A j \in 1 .. v : 1 + j - 1 = j
    BY <2>2
  <2> QED BY <2>1, <2>2, <2>3
<1>8. ASSUME NEW c \in DOMAIN s
      PROVE  /\ Len(mIr'[c]) = size
             /\ \A j \in 1 .. size : mIr'[c][j] = IF j <= v THEN response'[c][j] ELSE 0
             /\ \A j \in 1 .. v : size < j => ~Loud(response'[c][j])
  <2>1. mIr'[c] = [j \in 1 .. size |-> 
                   IF j <= v THEN s[c][j] ELSE IF stays THEN mIr[c][j] ELSE 0]
    BY <1>4
  <2>2. Len(mIr'[c]) = size
    BY <1>5, <2>1
  <2>3. ASSUME NEW j \in 1 .. size 
        PROVE  mIr'[c][j] = IF j <= v THEN response'[c][j] ELSE 0
    <3>1. mIr'[c][j] = IF j <= v THEN s[c][j] ELSE IF stays THEN mIr[c][j] ELSE 0
      BY <2>1
    <3>2. v \in Nat /\ j \in 1 .. size
      BY <1>1, <1>2
    <3>3. ~(j <= v) => ~stays
      BY <1>5, <1>6, <3>2
    <3>4. j <= v => j \in 1 .. v
      BY <3>2
    <3> QED BY <1>7, <3>1, <3>3, <3>4
  <2>4. ASSUME NEW j \in 1 .. v, size < j PROVE ~Loud(response'[c][j])
    <3>1. response'[c][j] = s[c][j] /\ j \in 1 .. Len(s[c])
      BY <1>1, <1>2, <1>3, <1>7
    <3>2. j \in DOMAIN s[c] /\ n < j
      BY <1>2, <1>3, <1>5, <2>4, <3>1
    <3> QED BY <1>2, <3>1, <3>2
  <2> QED BY <2>2, <2>3, <2>4
<1>9. /\ response' = [c \in 1 .. Len(s) |-> response'[c]] /\ Len(response') = Len(s)
      /\ DOMAIN response' = DOMAIN s /\ Len(mIr') = Len(s)
  <2>1. response' = [c \in 1 .. Len(s) |-> SubSeq(s[c], 1, v)]
    BY <1>3, <1>4
  <2>2. DOMAIN mIr' = 1 .. Len(s) /\ mIr' = [c \in 1 .. Len(s) |-> mIr'[c]]
    BY <1>3, <1>4
  <2>3. DOMAIN response' = 1 .. Len(s)
    BY <2>1
  <2>4. response' = [c \in 1 .. Len(s) |-> response'[c]]
    BY <2>1
  <2>5. Len(response') = Len(s)
    BY <1>3, <2>4
  <2>6. Len(mIr') = Len(s)
    BY <1>3, <2>2
  <2> QED BY <1>3, <2>3, <2>4, <2>5, <2>6
<1>10. response' \in Seq(Seq(Int)) /\ response' # <<>>
  <2>1. response' \in [1 .. Len(s) -> Seq(Int)]
    BY <1>3, <1>7, <1>9
  <2> QED BY <1>3, <1>9, <2>1, SeqDef
<1>11. Kept(response', mIr', v, size)
  BY <1>1, <1>2, <1>5, <1>7, <1>8, <1>9, <1>10 DEF Kept
<1>12. \E valid, z \in Nat : Kept(response', mIr', valid, z)
  <2>1. v \in Nat /\ size \in Nat
    BY <1>1, <1>2, <1>5
  <2> QED BY <1>11, <2>1 DEF Kept
<1> QED BY <1>12 DEF KeptOK, Kept, Loud, Magnitude

LEMMA KeptStep == 
    ASSUME ~LeavesOld
    PROVE  KeptOK /\ [ConvolverNext]_convolverVars => KeptOK'
<1> SUFFICES ASSUME KeptOK, [ConvolverNext]_convolverVars PROVE KeptOK'
  OBVIOUS
<1>1. CASE UNCHANGED <<response, mIr>>
  BY <1>1 DEF KeptOK, Kept, Loud, Magnitude
<1>2. ASSUME NEW r \in Responses, load(r) PROVE KeptOK'
  <2>1. CASE r.samples[1] = <<>>
    BY <1>1, <1>2, <2>1 DEF load
  <2>2. CASE r.samples[1] # <<>>
    BY <1>2, <2>2, LoadKeeps
  <2> QED BY <2>1, <2>2
<1> QED BY <1>1, <1>2 DEF ConvolverNext, convolverVars, take, convolve

(***************************************************************************)
(* The inductive invariant of a stream with a convolver behind it: what is *)
(* kept of the response is what was valid of the one loaded last, up to    *)
(* its last loud sample, and silence, where none is loaded that is shorter *)
(* than what stays of the one before.                                      *)
(***************************************************************************)
THEOREM ConvolverInvariant ==
    ASSUME ~PadsChunks, ~LeavesOld
    PROVE  ConvolverSpec => []ConvolverInv
<1>1. ConvolverInit => KeptOK
  BY DEF ConvolverInit, KeptOK
<1>2. ConvolverSpec => []StreamInv
  BY ConvolverKeepsStream, ResamplersInvariant, PTL
<1> QED BY <1>1, <1>2, KeptStep, PTL DEF ConvolverSpec, ConvolverInv

(***************************************************************************)
(* A block is convolved with all that was valid of the response that was   *)
(* loaded last, but for the silent end that was trimmed, whatever is       *)
(* silent.                                                                 *)
(***************************************************************************)
THEOREM ConvolverConvolves ==
    ASSUME ~PadsChunks, ~LeavesOld
    PROVE  ConvolverSpec => ConvolvesWhole
<1> DEFINE Whole1 == \A n \in OutSizes, level \in Levels : convolve(n, level) => 
             \A c \in OutChannels, i \in 0 .. n - 1 :
                 Magnitude(out'[c][i] - level - Convolution(c, i)) <= SilentEnd(c, i)
<1>1. ConvolverInv => Whole1
  <2> SUFFICES ASSUME ConvolverInv, NEW n \in OutSizes, NEW level \in Levels, 
                      convolve(n, level),
                      NEW c \in OutChannels, NEW i \in 0 .. n - 1
               PROVE  Magnitude(out'[c][i] - level - Convolution(c, i)) <= SilentEnd(c, i)
    OBVIOUS
  <2>1. c \in Nat /\ i \in Nat /\ level \in Int
    BY ConvolverAssumption
  <2>2. KeptOK /\ StreamType /\ mIr # <<>> /\ \A d \in Channels : validSize(d) > 0
    BY DEF ConvolverInv, StreamInv, convolve
  <2>3. out'[c][i] = level + Convolved(c, i)
    BY DEF convolve
  <2>4. /\ Convolved(c, i) \in Int /\ Convolution(c, i) \in Int
        /\ Magnitude(Convolved(c, i) - Convolution(c, i)) <= SilentEnd(c, i)
    BY <2>1, <2>2, ConvolvedIsNear
  <2>5. out'[c][i] - level - Convolution(c, i) = Convolved(c, i) - Convolution(c, i)
    BY <2>1, <2>3, <2>4
  <2> QED BY <2>4, <2>5
<1>2. ConvolverInv => [Whole1]_convolverVars
  BY <1>1
<1> HIDE DEF Whole1
<1>3. [](ConvolverInv) => [][Whole1]_convolverVars
  BY <1>2, PTL
<1> QED BY <1>3, ConvolverInvariant, PTL DEF ConvolvesWhole, Whole1
=============================================================================
