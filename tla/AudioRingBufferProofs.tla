------------------------ MODULE AudioRingBufferProofs ------------------------
(***************************************************************************)
(* The ring buffer is a bounded FIFO queue for every size and every        *)
(* sequence of pushes, pops, peeks and resizes of a careful client.        *)
(***************************************************************************)
EXTENDS AudioRingBuffer, SequenceTheorems, TLAPS

(***************************************************************************)
(* Values of type size stay what they are.                                 *)
(***************************************************************************)
LEMMA WrapFits == ASSUME NEW n \in 0 .. SizeMod - 1 PROVE Wrap(n) = n
<1>1. n \in Nat /\ SizeMod \in Nat /\ n < SizeMod
  BY RingAssumption
<1> QED BY <1>1, SMT DEF Wrap

(***************************************************************************)
(* The frames of a buffer with `head' frames before position `tail' are a  *)
(* sequence of that length: the place of each lies in the buffer.          *)
(***************************************************************************)
LEMMA PlaceType == 
    ASSUME NEW N \in Nat \ {0}, NEW head \in 0 .. N, NEW tail \in 0 .. N - 1, 
           NEW k \in 1 .. head
    PROVE  Place(k - 1, head, tail, N) \in 0 .. N - 1
<1>1. /\ N \in Int /\ head \in Int /\ tail \in Int /\ k \in Int
      /\ 1 <= k /\ k <= head /\ head <= N /\ 0 <= tail /\ tail < N
  OBVIOUS
<1>2. CASE tail < head - (k - 1)
  BY <1>1, <1>2 DEF Place
<1>3. CASE ~(tail < head - (k - 1))
  BY <1>1, <1>3 DEF Place
<1> QED BY <1>2, <1>3

QueueOf(b, head, tail, N) == [k \in 1 .. head |-> b[Place(k - 1, head, tail, N)]]

LEMMA QueueType ==
    ASSUME NEW N \in Nat \ {0}, NEW b \in [0 .. N - 1 -> Frames], 
           NEW head \in 0 .. N, NEW tail \in 0 .. N - 1
    PROVE  /\ QueueOf(b, head, tail, N) \in Seq(Frames) 
           /\ Len(QueueOf(b, head, tail, N)) = head
           /\ \A k \in 1 .. head : 
                 QueueOf(b, head, tail, N)[k] = b[Place(k - 1, head, tail, N)]
<1> DEFINE q == QueueOf(b, head, tail, N)
<1>1. \A k \in 1 .. head : b[Place(k - 1, head, tail, N)] \in Frames
  BY PlaceType
<1>2. head \in Nat
  OBVIOUS
<1>3. q \in [1 .. head -> Frames]
  BY <1>1 DEF QueueOf
<1>4. q \in Seq(Frames) /\ Len(q) = head
  BY <1>2, <1>3
<1>5. \A k \in 1 .. head : q[k] = b[Place(k - 1, head, tail, N)]
  BY DEF QueueOf
<1> QED BY <1>4, <1>5

LEMMA QueuedType ==
    ASSUME RingTypeOK
    PROVE  /\ Queued \in Seq(Frames) /\ Len(Queued) = mHead
           /\ \A k \in 1 .. mHead : Queued[k] = buf[Place(k - 1, mHead, mTail, size)]
<1>1. /\ size \in Nat \ {0} /\ buf \in [0 .. size - 1 -> Frames]
      /\ mHead \in 0 .. size /\ mTail \in 0 .. size - 1
  BY DEF RingTypeOK
<1>2. Queued = QueueOf(buf, mHead, mTail, size)
  BY DEF Queued, QueueOf
<1> QED BY <1>1, <1>2, QueueType

\* The same in the state after a step.
LEMMA QueuedTypeNext ==
    ASSUME RingTypeOK'
    PROVE  /\ Queued' \in Seq(Frames) /\ Len(Queued') = mHead'
           /\ \A k \in 1 .. mHead' : 
                 Queued'[k] = buf'[Place(k - 1, mHead', mTail', size')]
<1>1. /\ size' \in Nat \ {0} /\ buf' \in [0 .. size' - 1 -> Frames]
      /\ mHead' \in 0 .. size' /\ mTail' \in 0 .. size' - 1
  BY DEF RingTypeOK
<1>2. Queued' = QueueOf(buf', mHead', mTail', size')
  BY DEF Queued, QueueOf
<1> QED BY <1>1, <1>2, QueueType

LEMMA RingInit == Init => RingTypeOK
BY RingAssumption DEF Init, RingTypeOK

(***************************************************************************)
(* What Store does, without the wrapping arithmetic: n frames follow those *)
(* that are there.                                                         *)
(***************************************************************************)
LEMMA StoreFits ==
    ASSUME RingTypeOK, NEW in \in Seq(Frames), NEW filled \in 0 .. mHead,
           NEW n \in 1 .. Len(in), filled + n <= size, size' = size,
           count' \in 0 .. SizeMod - 1,
           Store(in, n, filled)
    PROVE  /\ RingTypeOK'
           /\ mHead' = filled + n
           /\ \A k \in 1 .. filled : 
                 buf'[Place(k - 1, mHead', mTail', size)] = buf[Place(mHead - filled + k - 1, mHead, mTail, size)]
           /\ \A k \in 1 .. n : buf'[Place(filled + k - 1, mHead', mTail', size)] = in[k]
<1>1. /\ size \in Nat \ {0} /\ 2 * size < SizeMod /\ SizeMod \in Nat
      /\ mHead \in 0 .. size /\ mTail \in 0 .. size - 1
      /\ buf \in [0 .. size - 1 -> Frames]
      /\ filled \in Nat /\ n \in Nat /\ Len(in) \in Nat /\ n <= Len(in)
  BY RingAssumption DEF RingTypeOK
<1>2. spaceLeftTail = size - mTail
  BY <1>1, WrapFits DEF spaceLeftTail
<1>3. mHead' = filled + n
  BY <1>1, WrapFits DEF Store
<1>4. mTail' = IF size - mTail < n THEN n - (size - mTail) 
               ELSE IF size - mTail = n THEN 0 ELSE mTail + n
  BY <1>2 DEF Store
<1>5. mTail' \in 0 .. size - 1
  BY <1>1, <1>4
<1>6. \A i \in 0 .. size - 1 : 
         buf'[i] = IF mTail <= i /\ i < mTail + n THEN in[i - mTail + 1]
                   ELSE IF i < n - (size - mTail) THEN in[size - mTail + i + 1]
                   ELSE buf[i]
  BY <1>1, <1>2 DEF Store
<1>7. DOMAIN buf' = 0 .. size - 1 /\ buf' = [i \in 0 .. size - 1 |-> buf'[i]]
  BY <1>1 DEF Store
<1>8. \A i \in 0 .. size - 1 : buf'[i] \in Frames
  <2> TAKE i \in 0 .. size - 1
  <2>1. \A j \in 1 .. Len(in) : in[j] \in Frames
    OBVIOUS
  <2>2. CASE mTail <= i /\ i < mTail + n
    <3>1. i - mTail + 1 \in 1 .. Len(in)  BY <1>1, <2>2
    <3> QED BY <1>6, <2>1, <2>2, <3>1
  <2>3. CASE ~(mTail <= i /\ i < mTail + n) /\ i < n - (size - mTail)
    <3>1. size - mTail + i + 1 \in 1 .. Len(in)  BY <1>1, <2>3
    <3> QED BY <1>6, <2>1, <2>3, <3>1
  <2>4. CASE ~(mTail <= i /\ i < mTail + n) /\ ~(i < n - (size - mTail))
    BY <1>1, <1>6, <2>4
  <2> QED BY <2>2, <2>3, <2>4
<1>9. buf' \in [0 .. size - 1 -> Frames]
  BY <1>7, <1>8
<1>10. RingTypeOK'
  BY <1>1, <1>3, <1>5, <1>9 DEF RingTypeOK
<1>11. ASSUME NEW k \in 1 .. filled
       PROVE  buf'[Place(k - 1, mHead', mTail', size)] = buf[Place(mHead - filled + k - 1, mHead, mTail, size)]
  <2> DEFINE p == Place(mHead - filled + k - 1, mHead, mTail, size)
  <2>1. k \in Nat /\ p \in 0 .. size - 1 /\ p = mTail - filled + k - 1 + 
             (IF mTail < filled - k + 1 THEN size ELSE 0)
    BY <1>1 DEF Place
  <2>2. Place(k - 1, mHead', mTail', size) = p
    BY <1>1, <1>3, <1>4, <2>1 DEF Place
  <2>3. ~(mTail <= p /\ p < mTail + n) /\ ~(p < n - (size - mTail))
    BY <1>1, <2>1
  <2> QED BY <1>6, <2>1, <2>2, <2>3
<1>12. ASSUME NEW k \in 1 .. n
       PROVE  buf'[Place(filled + k - 1, mHead', mTail', size)] = in[k]
  <2> DEFINE p == IF mTail + k - 1 < size THEN mTail + k - 1 
                  ELSE mTail + k - 1 - size
  <2>1. k \in Nat /\ p \in 0 .. size - 1
    BY <1>1
  <2>2. Place(filled + k - 1, mHead', mTail', size) = p
    BY <1>1, <1>3, <1>4, <2>1 DEF Place
  <2>3. CASE mTail + k - 1 < size
    <3>1. mTail <= p /\ p < mTail + n /\ p - mTail + 1 = k  BY <1>1, <2>1, <2>3
    <3> QED BY <1>6, <2>1, <2>2, <3>1
  <2>4. CASE ~(mTail + k - 1 < size)
    <3>1. /\ ~(mTail <= p /\ p < mTail + n) /\ p < n - (size - mTail)
          /\ size - mTail + p + 1 = k
      BY <1>1, <2>1, <2>4
    <3> QED BY <1>6, <2>1, <2>2, <3>1
  <2> QED BY <2>3, <2>4
<1> QED BY <1>3, <1>10, <1>11, <1>12

(***************************************************************************)
(* A push behind `filled' frames, the newest of those in the buffer,       *)
(* appends as many of the new ones as there is space for.                  *)
(***************************************************************************)
LEMMA PushAppends ==
    ASSUME RingTypeOK, NEW in \in Seq(Frames), Len(in) < SizeMod, 
           NEW filled \in 0 .. mHead, PushOnto(in, filled)
    PROVE  LET n == Lesser(Len(in), size - filled)
           IN  /\ RingTypeOK' /\ size' = size
               /\ got' = Nothing /\ count' = n
               /\ Queued' = SubSeq(Queued, mHead - filled + 1, mHead) 
                              \o SubSeq(in, 1, n)
<1> DEFINE n == Lesser(Len(in), size - filled)
           kept == SubSeq(Queued, mHead - filled + 1, mHead)
           added == SubSeq(in, 1, n)
<1>1. /\ size \in Nat \ {0} /\ 2 * size < SizeMod /\ SizeMod \in Nat
      /\ mHead \in 0 .. size /\ mTail \in 0 .. size - 1
      /\ buf \in [0 .. size - 1 -> Frames]
      /\ filled \in Nat /\ filled <= size /\ Len(in) \in Nat
  BY RingAssumption DEF RingTypeOK
<1>2. Wrap(size - filled) = size - filled
  BY <1>1, WrapFits
<1>3. /\ n \in 0 .. Len(in) /\ filled + n <= size
      /\ IF n > 0 THEN Store(in, n, filled) 
         ELSE mHead' = filled /\ buf' = buf /\ mTail' = mTail
      /\ got' = Nothing /\ count' = n /\ size' = size
      /\ count' \in 0 .. SizeMod - 1
  BY <1>1, <1>2 DEF PushOnto, Lesser
<1>4. /\ RingTypeOK' /\ mHead' = filled + n
      /\ \A k \in 1 .. filled : 
            buf'[Place(k - 1, mHead', mTail', size)] = buf[Place(mHead - filled + k - 1, mHead, mTail, size)]
      /\ \A k \in 1 .. n : buf'[Place(filled + k - 1, mHead', mTail', size)] = in[k]
  <2>1. CASE n > 0
    <3>1. n \in 1 .. Len(in) /\ Store(in, n, filled)
      BY <1>1, <1>3, <2>1
    <3> QED BY <1>1, <1>3, <3>1, StoreFits
  <2>2. CASE n = 0
    <3>1. mHead' = filled /\ buf' = buf /\ mTail' = mTail /\ size' = size
      BY <1>1, <1>3, <2>2
    <3>2. RingTypeOK'
      BY <1>1, <1>3, <3>1 DEF RingTypeOK
    <3>3. ASSUME NEW k \in 1 .. filled
          PROVE  buf'[Place(k - 1, mHead', mTail', size)] = buf[Place(mHead - filled + k - 1, mHead, mTail, size)]
      BY <1>1, <3>1 DEF Place
    <3> QED BY <2>2, <3>1, <3>2, <3>3
  <2> QED BY <1>1, <1>3, <2>1, <2>2
<1>5. /\ Queued' \in Seq(Frames) /\ Len(Queued') = filled + n
      /\ \A k \in 1 .. filled + n : Queued'[k] = buf'[Place(k - 1, mHead', mTail', size)]
  BY <1>3, <1>4, QueuedTypeNext
<1>6. /\ Queued \in Seq(Frames) /\ Len(Queued) = mHead
      /\ \A k \in 1 .. mHead : Queued[k] = buf[Place(k - 1, mHead, mTail, size)]
  BY QueuedType
<1>7. /\ kept \in Seq(Frames) /\ Len(kept) = filled
      /\ \A k \in 1 .. filled : kept[k] = Queued[mHead - filled + k]
  <2>1. \A i \in mHead - filled + 1 .. mHead : Queued[i] \in Frames
    BY <1>1, <1>6
  <2>2. mHead - filled + 1 \in Int /\ mHead \in Int
    BY <1>1
  <2> HIDE <1>6
  <2>3. /\ kept \in Seq(Frames)
        /\ Len(kept) = IF mHead - filled + 1 <= mHead 
                       THEN mHead - (mHead - filled + 1) + 1 ELSE 0
        /\ \A k \in 1 .. mHead - (mHead - filled + 1) + 1 : 
              kept[k] = Queued[mHead - filled + 1 + k - 1]
    BY <2>1, <2>2, SubSeqProperties
  <2> HIDE DEF kept
  <2> QED BY <1>1, <2>3
<1>8. /\ added \in Seq(Frames) /\ Len(added) = n
      /\ \A k \in 1 .. n : added[k] = in[k]
  <2>1. \A i \in 1 .. n : in[i] \in Frames
    BY <1>1, <1>3
  <2>2. n \in Nat
    BY <1>3, <1>1
  <2> HIDE DEF n
  <2>3. /\ added \in Seq(Frames)
        /\ Len(added) = IF 1 <= n THEN n - 1 + 1 ELSE 0
        /\ \A k \in 1 .. n - 1 + 1 : added[k] = in[1 + k - 1]
    BY <2>1, <2>2, SubSeqProperties
  <2> HIDE DEF added
  <2> QED BY <2>2, <2>3
<1>9. /\ kept \o added \in Seq(Frames) /\ Len(kept \o added) = filled + n
      /\ \A k \in 1 .. filled + n : 
            (kept \o added)[k] = IF k <= filled THEN kept[k] ELSE added[k - filled]
  <2>1. kept \in Seq(Frames) /\ added \in Seq(Frames) 
        /\ Len(kept) = filled /\ Len(added) = n
    BY <1>7, <1>8
  <2> HIDE DEF kept, added, n
  <2> QED BY <2>1, ConcatProperties
<1>10. ASSUME NEW k \in 1 .. filled + n PROVE Queued'[k] = (kept \o added)[k]
  <2>1. n \in Nat /\ k \in Nat
    BY <1>1, <1>3
  <2> HIDE DEF kept, added, n
  <2>2. CASE k <= filled
    <3> DEFINE o == mHead - filled + k
    <3>1. k \in 1 .. filled /\ o \in 1 .. mHead
      BY <1>1, <2>1, <2>2
    <3>2. buf'[Place(k - 1, mHead', mTail', size)] = buf[Place(o - 1, mHead, mTail, size)]
      <4>1. mHead - filled + k - 1 = o - 1
        BY <1>1, <2>1
      <4>2. buf'[Place(k - 1, mHead', mTail', size)] 
              = buf[Place(mHead - filled + k - 1, mHead, mTail, size)]
        BY <1>4, <3>1
      <4> HIDE DEF o
      <4> QED BY <4>1, <4>2
    <3>3. kept[k] = Queued[o] /\ (kept \o added)[k] = kept[k]
      BY <1>7, <1>9, <2>2, <3>1
    <3> HIDE DEF o
    <3>4. Queued[o] = buf[Place(o - 1, mHead, mTail, size)]
      BY <1>6, <3>1
    <3>5. Queued'[k] = buf'[Place(k - 1, mHead', mTail', size)]
      BY <1>5
    <3> QED BY <3>2, <3>3, <3>4, <3>5
  <2>3. CASE ~(k <= filled)
    <3>1. k - filled \in 1 .. n /\ filled + (k - filled) - 1 = k - 1
      BY <1>1, <2>1, <2>3
    <3>2. buf'[Place(filled + (k - filled) - 1, mHead', mTail', size)] = in[k - filled]
      BY <1>4, <3>1
    <3> QED BY <1>5, <1>8, <1>9, <2>3, <3>1, <3>2
  <2> QED BY <2>2, <2>3
<1>11. Queued' = kept \o added
  <2> HIDE DEF kept, added, n
  <2> QED BY <1>5, <1>9, <1>10, SeqEqual
<1> QED BY <1>3, <1>4, <1>11

(***************************************************************************)
(* peek() delivers the frames from offsetSrc on, in order, when there is   *)
(* room for them.                                                          *)
(***************************************************************************)
LEMMA ReadDelivers ==
    ASSUME RingTypeOK, NEW elements \in 0 .. SizeMod - 1, 
           NEW space \in 0 .. SizeMod - 1, elements <= space,
           NEW offset \in 0 .. mHead, Read(elements, offset, space)
    PROVE  LET n == Lesser(elements, mHead - offset)
           IN  /\ n \in 0 .. mHead - offset /\ HeadFrom(offset) = mHead - offset
               /\ count' = n
               /\ got' = [j \in 0 .. n - 1 |-> Queued[offset + j + 1]]
<1> DEFINE h == mHead - offset
           n == Lesser(elements, h)
           ts == mTail - h + (IF mTail < h THEN size ELSE 0)
           left == size - ts
           frame(j) == IF j < left THEN At(ts + j) ELSE At(j - left)
           first == Clip(Lesser(n, left), 0, space)
           second == IF left < n THEN Clip(n - left, left, space) ELSE 0
<1>1. /\ size \in Nat \ {0} /\ 2 * size < SizeMod /\ SizeMod \in Nat
      /\ mHead \in 0 .. size /\ mTail \in 0 .. size - 1
      /\ DOMAIN buf = 0 .. size - 1
      /\ offset \in Nat /\ offset <= mHead
      /\ elements \in Nat /\ space \in Nat /\ space < SizeMod
  BY RingAssumption DEF RingTypeOK
<1>2. h \in 0 .. size /\ HeadFrom(offset) = h
  BY <1>1, WrapFits DEF HeadFrom
<1>3. n \in 0 .. h /\ n <= space
  BY <1>1, <1>2 DEF Lesser
<1>4. ts \in 0 .. size - 1 /\ Wrap(ts) = ts
  <2>1. ts \in 0 .. size - 1
    BY <1>1, <1>2
  <2>2. ts \in 0 .. SizeMod - 1
    BY <1>1, <2>1
  <2> QED BY <2>1, <2>2, WrapFits
<1>5. left \in 1 .. size /\ Wrap(left) = left
  <2>1. left \in 1 .. size
    BY <1>1, <1>4
  <2>2. left \in 0 .. SizeMod - 1
    BY <1>1, <2>1
  <2> QED BY <2>1, <2>2, WrapFits
<1>6. /\ count' = n
      /\ got' = [j \in (0 .. first - 1) \cup (left .. left + second - 1) |-> frame(j)]
  <2>1. Wrap(mTail - h + (IF mTail < h THEN size ELSE 0)) = ts
    BY <1>1, <1>4
  <2>2. Wrap(size - ts) = left
    BY <1>1, <1>5
  <2> QED BY <1>2, <2>1, <2>2 DEF Read
<1>7. (0 .. first - 1) \cup (left .. left + second - 1) = 0 .. n - 1
  <2>0. left \in Nat /\ n \in Nat /\ h \in Nat
    BY <1>1, <1>2, <1>3, <1>5
  <2>1. Wrap(space - 0) = space
    <3>1. space - 0 = space  BY <1>1
    <3> QED BY <3>1, WrapFits
  <2>2. first = Lesser(n, left)
    <3> HIDE DEF n, left
    <3> QED BY <1>3, <2>0, <2>1, <1>1 DEF Clip, Lesser
  <2>3. CASE left < n
    <3>1. Wrap(space - left) = space - left
      <4> HIDE DEF n, left
      <4>1. space - left \in 0 .. SizeMod - 1
        BY <1>1, <1>3, <2>0, <2>3
      <4> QED BY <4>1, WrapFits
    <3>2. first = left /\ second = n - left
      <4> HIDE DEF n, left
      <4> QED BY <1>1, <1>3, <2>0, <2>2, <2>3, <3>1 DEF Lesser, Clip
    <3> HIDE DEF n, left, first, second
    <3> QED BY <2>0, <2>3, <3>2
  <2>4. CASE ~(left < n)
    <3>1. first = n /\ second = 0
      <4> HIDE DEF n, left
      <4> QED BY <2>0, <2>2, <2>4 DEF Lesser
    <3> HIDE DEF n, left, first, second
    <3> QED BY <2>0, <2>4, <3>1
  <2> QED BY <2>3, <2>4
<1>8. ASSUME NEW j \in 0 .. n - 1 PROVE frame(j) = Queued[offset + j + 1]
  <2> DEFINE k == offset + j + 1
             p == IF j < left THEN ts + j ELSE j - left
  <2>1. j \in Int /\ 0 <= j /\ j < h
    BY <1>1, <1>2, <1>3
  <2>2. k \in 1 .. mHead
    BY <1>1, <2>1
  <2>3. Queued[k] = buf[Place(k - 1, mHead, mTail, size)]
    BY <2>2, QueuedType
  <2>4. p = Place(k - 1, mHead, mTail, size)
    BY <1>1, <2>1 DEF Place
  <2>5. p \in 0 .. size - 1
    BY <1>1, <1>4, <2>1
  <2>6. frame(j) = buf[p]
    BY <1>1, <2>5 DEF At
  <2> QED BY <2>3, <2>4, <2>6
<1>9. got' = [j \in 0 .. n - 1 |-> Queued[offset + j + 1]]
  <2> HIDE DEF frame, first, second, left, n
  <2> QED BY <1>6, <1>7, <1>8
<1> QED BY <1>2, <1>3, <1>6, <1>9

(***************************************************************************)
(* Each operation keeps the invariant and is the one of BoundedFifo.       *)
(***************************************************************************)
LEMMA PushStep ==
    ASSUME RingTypeOK, NEW in \in Inputs, Push(in) PROVE RingTypeOK' /\ Fifo!Push(in)
<1>1. /\ in \in Seq(Frames) /\ Len(in) \in Nat /\ Len(in) < SizeMod
      /\ mHead \in 0 .. mHead /\ mHead \in Nat
      /\ Queued \in Seq(Frames) /\ Len(Queued) = mHead
  BY RingAssumption, QueuedType DEF RingTypeOK
<1> DEFINE n == Lesser(Len(in), size - mHead)
<1>2. /\ RingTypeOK' /\ size' = size /\ got' = Nothing /\ count' = n
      /\ Queued' = SubSeq(Queued, mHead - mHead + 1, mHead) \o SubSeq(in, 1, n)
  BY <1>1, PushAppends DEF Push
<1>3. SubSeq(Queued, mHead - mHead + 1, mHead) = Queued
  <2>1. mHead - mHead + 1 = 1
    BY <1>1
  <2>2. SubSeq(Queued, 1, Len(Queued)) = Queued
    BY <1>1, SubSeqFull
  <2> QED BY <1>1, <2>1, <2>2
<1>4. n = Fifo!Shorter(Len(in), size - Len(Queued))
  BY <1>1 DEF Lesser, Fifo!Shorter
<1> QED
  <2> HIDE DEF n
  <2> QED BY <1>2, <1>3, <1>4 DEF Fifo!Push, Nothing

\* Giving up what there is no room for makes room for all that can be kept.
LEMMA RoomMade ==
    ASSUME NEW s \in Nat, NEW held \in 0 .. s, NEW coming \in Nat,
           NEW lost \in 0 .. held, lost = held - Lesser(held, s - Lesser(coming, s))
    PROVE  LET n == Lesser(coming, s - (held - lost))
           IN  n = Lesser(coming, s) /\ held - lost + n <= s
<1>1. CASE coming <= s /\ held <= s - coming
  BY <1>1 DEF Lesser
<1>2. CASE coming <= s /\ s - coming < held
  BY <1>2 DEF Lesser
<1>3. CASE s < coming
  BY <1>3 DEF Lesser
<1> QED BY <1>1, <1>2, <1>3

LEMMA PushOverStep ==
    ASSUME Careful, RingTypeOK, NEW in \in Inputs, PushOver(in)
    PROVE  RingTypeOK' /\ Fifo!PushOver(in)
<1>1. /\ in \in Seq(Frames) /\ Len(in) \in Nat /\ Len(in) < SizeMod
      /\ mHead \in Nat /\ mHead \in 0 .. size /\ size \in Nat /\ size < SizeMod
      /\ Queued \in Seq(Frames) /\ Len(Queued) = mHead
  BY RingAssumption, QueuedType DEF RingTypeOK
<1> DEFINE lost == GivenUp(in)
           filled == mHead - lost
           n == Lesser(Len(in), size - filled)
<1>2. remaining = size - mHead
  <2>1. size - mHead \in 0 .. SizeMod - 1
    BY <1>1, RingAssumption
  <2> QED BY <1>1, <2>1, WrapFits DEF remaining
<1>3. /\ lost \in 0 .. mHead /\ lost = mHead - Lesser(mHead, size - Lesser(Len(in), size))
      /\ n = Lesser(Len(in), size) /\ mHead - lost + n <= size
  <2>1. lost = Displaced(in)
    BY DEF PushOver, Careful
  <2>2. lost = mHead - Lesser(mHead, size - Lesser(Len(in), size))
    BY <2>1 DEF Displaced
  <2>3. lost \in 0 .. mHead
    BY <1>1, <1>2 DEF GivenUp, Lesser
  <2>4. n = Lesser(Len(in), size) /\ mHead - lost + n <= size
    <3> HIDE DEF lost
    <3> QED BY <1>1, <2>2, <2>3, RoomMade
  <2> QED BY <2>2, <2>3, <2>4
<1>4. filled \in 0 .. mHead
  BY <1>1, <1>3
<1>5. PushOnto(in, filled)
  BY DEF PushOver
<1>6. /\ RingTypeOK' /\ size' = size /\ got' = Nothing /\ count' = n
      /\ Queued' = SubSeq(Queued, mHead - filled + 1, mHead) \o SubSeq(in, 1, n)
  <2> HIDE DEF filled
  <2> QED BY <1>1, <1>4, <1>5, PushAppends
<1>7. filled = Fifo!Shorter(Len(Queued), size - n)
  <2> HIDE DEF lost, n
  <2> QED BY <1>1, <1>3 DEF Lesser, Fifo!Shorter
<1>8. n = Fifo!Shorter(Len(in), size)
  BY <1>3 DEF Lesser, Fifo!Shorter
<1> QED
  <2> HIDE DEF n, lost, filled
  <2> QED BY <1>1, <1>3, <1>6, <1>7, <1>8 DEF Fifo!PushOver, Nothing

LEMMA PeekStep ==
    ASSUME RingTypeOK, NEW elements \in 0 .. SizeMod - 1, 
           NEW space \in 0 .. SizeMod - 1, elements <= space,
           NEW offset \in 0 .. mHead, Peek(elements, offset, space)
    PROVE  RingTypeOK' /\ Fifo!Peek(elements, offset)
<1> DEFINE n == Lesser(elements, mHead - offset)
<1>1. /\ n \in 0 .. mHead - offset /\ count' = n
      /\ got' = [j \in 0 .. n - 1 |-> Queued[offset + j + 1]]
  BY ReadDelivers DEF Peek
<1>2. /\ size' = size /\ buf' = buf /\ mHead' = mHead /\ mTail' = mTail
  BY DEF Peek
<1>3. Queued' = Queued
  BY <1>2 DEF Queued
<1>4. mHead \in 0 .. size /\ size < SizeMod /\ size \in Nat /\ SizeMod \in Nat
  BY RingAssumption DEF RingTypeOK
<1>5. n \in 0 .. SizeMod - 1
  <2> HIDE DEF n
  <2> QED BY <1>1, <1>4
<1>6. RingTypeOK'
  BY <1>1, <1>2, <1>5 DEF RingTypeOK
<1>7. n = Fifo!Shorter(elements, Len(Queued) - offset) /\ offset <= Len(Queued)
  <2>1. Len(Queued) = mHead
    BY QueuedType
  <2> QED BY <1>4, <2>1 DEF Lesser, Fifo!Shorter
<1> QED
  <2> HIDE DEF n
  <2> QED BY <1>1, <1>2, <1>3, <1>6, <1>7 DEF Fifo!Peek

LEMMA PopStep ==
    ASSUME RingTypeOK, NEW elements \in 0 .. SizeMod - 1, 
           NEW space \in 0 .. SizeMod - 1, elements <= space,
           Pop(elements, 0, space)
    PROVE  RingTypeOK' /\ Fifo!Pop(elements)
<1> DEFINE n == Lesser(elements, mHead)
           rest == SubSeq(Queued, n + 1, mHead)
<1>1. /\ size \in Nat \ {0} /\ 2 * size < SizeMod /\ SizeMod \in Nat
      /\ mHead \in 0 .. size /\ mTail \in 0 .. size - 1
      /\ buf \in [0 .. size - 1 -> Frames]
      /\ Queued \in Seq(Frames) /\ Len(Queued) = mHead
      /\ \A k \in 1 .. mHead : Queued[k] = buf[Place(k - 1, mHead, mTail, size)]
  BY RingAssumption, QueuedType DEF RingTypeOK
<1>2. /\ n \in 0 .. mHead /\ HeadFrom(0) = mHead /\ count' = n
      /\ got' = [j \in 0 .. n - 1 |-> Queued[j + 1]]
  <2>1. 0 \in 0 .. mHead /\ mHead - 0 = mHead /\ \A j \in Int : 0 + j + 1 = j + 1
    BY <1>1
  <2>2. /\ Lesser(elements, mHead - 0) \in 0 .. mHead - 0 
        /\ HeadFrom(0) = mHead - 0
        /\ count' = Lesser(elements, mHead - 0)
        /\ got' = [j \in 0 .. Lesser(elements, mHead - 0) - 1 |-> Queued[0 + j + 1]]
    BY <2>1, ReadDelivers DEF Pop
  <2>3. /\ n \in 0 .. mHead /\ HeadFrom(0) = mHead /\ count' = n
        /\ got' = [j \in 0 .. n - 1 |-> Queued[0 + j + 1]]
    BY <2>1, <2>2
  <2>4. [j \in 0 .. n - 1 |-> Queued[0 + j + 1]] = [j \in 0 .. n - 1 |-> Queued[j + 1]]
    <3> HIDE DEF n
    <3> QED BY <2>1
  <2> QED BY <2>3, <2>4
<1>3. mHead' = mHead - n /\ size' = size /\ buf' = buf /\ mTail' = mTail
  <2>1. mHead' = Wrap(mHead - n) /\ size' = size /\ buf' = buf /\ mTail' = mTail
    BY <1>2 DEF Pop
  <2>2. mHead - n \in 0 .. SizeMod - 1
    <3> HIDE DEF n
    <3> QED BY <1>1, <1>2
  <2> HIDE DEF n
  <2> QED BY <2>1, <2>2, WrapFits
<1>4. n \in Nat /\ mHead' \in 0 .. size /\ n \in 0 .. SizeMod - 1
  <2> HIDE DEF n
  <2> QED BY <1>1, <1>2, <1>3
<1>5. RingTypeOK'
  <2> HIDE DEF n
  <2> QED BY <1>1, <1>2, <1>3, <1>4 DEF RingTypeOK
<1>6. /\ Queued' \in Seq(Frames) /\ Len(Queued') = mHead - n
      /\ \A k \in 1 .. mHead - n : Queued'[k] = buf[Place(k - 1, mHead - n, mTail, size)]
  <2> HIDE DEF n
  <2> QED BY <1>3, <1>5, QueuedTypeNext
<1>7. /\ rest \in Seq(Frames) /\ Len(rest) = mHead - n
      /\ \A k \in 1 .. mHead - n : rest[k] = Queued[n + k]
  <2> HIDE DEF n
  <2>1. \A i \in n + 1 .. mHead : Queued[i] \in Frames
    BY <1>1, <1>4
  <2>2. /\ rest \in Seq(Frames)
        /\ Len(rest) = IF n + 1 <= mHead THEN mHead - (n + 1) + 1 ELSE 0
        /\ \A k \in 1 .. mHead - (n + 1) + 1 : rest[k] = Queued[n + 1 + k - 1]
    BY <1>1, <1>4, <2>1, SubSeqProperties
  <2> HIDE DEF rest
  <2>3. mHead \in Nat /\ n \in Nat /\ n <= mHead /\ mHead - (n + 1) + 1 = mHead - n
    BY <1>1, <1>2, <1>4
  <2>4. Len(rest) = mHead - n
    BY <2>2, <2>3
  <2>5. ASSUME NEW k \in 1 .. mHead - n PROVE rest[k] = Queued[n + k]
    <3>1. rest[k] = Queued[n + 1 + k - 1]
      BY <2>2, <2>3
    <3>2. n + 1 + k - 1 = n + k
      BY <2>3
    <3> QED BY <3>1, <3>2
  <2> QED BY <2>2, <2>4, <2>5
<1>8. ASSUME NEW k \in 1 .. mHead - n PROVE Queued'[k] = rest[k]
  <2> HIDE DEF n
  <2> DEFINE o == n + k
  <2>1. k \in Nat /\ o \in 1 .. mHead
    BY <1>1, <1>4
  <2>2. Place(k - 1, mHead - n, mTail, size) = Place(o - 1, mHead, mTail, size)
    BY <1>1, <1>4, <2>1 DEF Place
  <2>3. Queued[o] = buf[Place(o - 1, mHead, mTail, size)]
    <3> HIDE DEF o
    <3> QED BY <1>1, <2>1
  <2> HIDE DEF rest
  <2>4. Queued'[k] = buf[Place(k - 1, mHead - n, mTail, size)] /\ rest[k] = Queued[o]
    BY <1>6, <1>7
  <2> HIDE DEF o
  <2> QED BY <2>2, <2>3, <2>4
<1>9. Queued' = rest
  <2> HIDE DEF rest, n
  <2> QED BY <1>6, <1>7, <1>8, SeqEqual
<1>10. n = Fifo!Shorter(elements, Len(Queued))
  BY <1>1 DEF Lesser, Fifo!Shorter
<1> QED
  <2> HIDE DEF n
  <2> QED BY <1>1, <1>2, <1>3, <1>5, <1>9, <1>10 DEF Fifo!Pop

LEMMA ResetStep == ASSUME RingTypeOK, Reset PROVE RingTypeOK' /\ Fifo!Clear
<1>1. RingTypeOK'
  BY RingAssumption DEF Reset, RingTypeOK
<1>2. Queued' \in Seq(Frames) /\ Len(Queued') = 0
  BY <1>1, QueuedTypeNext DEF Reset
<1>3. Queued' = <<>>
  BY <1>2, EmptySeq
<1> QED BY <1>1, <1>3 DEF Reset, Fifo!Clear, Nothing

\* A buffer made longer counts the frames it counted, whatever they are now.
LEMMA ResizeStep ==
    ASSUME Careful, RingTypeOK, NEW n \in Nat \ {0}, 2 * n < SizeMod, size <= n, Resize(n)
    PROVE  RingTypeOK' /\ Fifo!Stretch(n)
<1>1. /\ size \in Nat /\ mHead \in 0 .. size /\ mTail \in 0 .. size - 1
      /\ buf \in [0 .. size - 1 -> Frames] /\ Silence \in Frames
      /\ SizeMod \in Nat
  BY RingAssumption DEF RingTypeOK
<1>2. /\ size' = n /\ mHead' = mHead /\ mTail' = mTail /\ got' = Nothing /\ count' = 0
      /\ buf' = [i \in 0 .. n - 1 |-> IF n = size THEN buf[i] ELSE Silence]
  BY DEF Resize, Careful
<1>3. buf' \in [0 .. n - 1 -> Frames]
  BY <1>1, <1>2
<1>4. mHead \in 0 .. n /\ mTail \in 0 .. n - 1 /\ 0 \in 0 .. SizeMod - 1
  BY <1>1
<1>5. RingTypeOK'
  BY <1>2, <1>3, <1>4 DEF RingTypeOK
<1>6. Queued \in Seq(Frames) /\ Len(Queued) = mHead
  BY QueuedType
<1>7. Queued' \in Seq(Frames) /\ Len(Queued') = mHead
  BY <1>2, <1>5, QueuedTypeNext
<1>8. Queued' \in [DOMAIN Queued -> Frames]
  BY <1>1, <1>6, <1>7
<1>9. ASSUME n = size PROVE Queued' = Queued
  <2>1. buf' = buf
    BY <1>1, <1>2, <1>9
  <2> QED BY <1>2, <1>9, <2>1 DEF Queued
<1> QED BY <1>2, <1>5, <1>8, <1>9 DEF Fifo!Stretch, Nothing

LEMMA NextStep ==
    ASSUME Careful, RingTypeOK, [Next]_vars 
    PROVE  RingTypeOK' /\ [Fifo!FifoNext]_(Fifo!fifo)
<1>1. ASSUME NEW in \in Inputs, Push(in) \/ PushOver(in)
      PROVE  RingTypeOK' /\ Fifo!FifoNext
  BY <1>1, PushStep, PushOverStep DEF Fifo!FifoNext
<1>2. ASSUME NEW elements \in Asked, NEW space \in Rooms, NEW offset \in PeekOffsets,
             Peek(elements, offset, space)
      PROVE  RingTypeOK' /\ Fifo!FifoNext
  <2>1. /\ elements \in 0 .. SizeMod - 1 /\ space \in 0 .. SizeMod - 1
        /\ elements <= space /\ offset \in Nat
    BY RingAssumption DEF Careful
  <2>2. offset \in 0 .. mHead /\ offset \in 0 .. size
    BY <1>2, <2>1, RingAssumption DEF Careful, Peek, Starts, RingTypeOK
  <2> QED BY <1>2, <2>1, <2>2, PeekStep DEF Fifo!FifoNext
<1>3. ASSUME NEW elements \in Asked, NEW space \in Rooms, Pop(elements, 0, space)
      PROVE  RingTypeOK' /\ Fifo!FifoNext
  <2>1. /\ elements \in 0 .. SizeMod - 1 /\ space \in 0 .. SizeMod - 1
        /\ elements <= space
    BY RingAssumption DEF Careful
  <2> QED BY <1>3, <2>1, PopStep DEF Fifo!FifoNext
<1>4. CASE Reset
  BY <1>4, ResetStep DEF Fifo!FifoNext
<1>5. ASSUME NEW n \in Resizes, Resize(n)
      PROVE  RingTypeOK' /\ Fifo!FifoNext
  <2>1. n \in Nat \ {0} /\ 2 * n < SizeMod /\ size <= n
    BY <1>5, RingAssumption DEF Careful, Resize
  <2> QED BY <1>5, <2>1, ResizeStep DEF Fifo!FifoNext
<1>6. CASE UNCHANGED vars
  BY <1>6 DEF vars, RingTypeOK, Queued, Fifo!fifo
<1> QED BY <1>1, <1>2, <1>3, <1>4, <1>5, <1>6 DEF Next, Careful

LEMMA InitStep == Init => Fifo!FifoInit
<1> SUFFICES ASSUME Init PROVE Fifo!FifoInit
  OBVIOUS
<1>1. Queued \in Seq(Frames) /\ Len(Queued) = 0
  BY RingInit, QueuedType DEF Init
<1>2. Queued = <<>>
  BY <1>1, EmptySeq
<1> QED BY <1>2 DEF Init, Fifo!FifoInit, Nothing

(***************************************************************************)
(* The fill count and the write position stay within the buffer, unless a  *)
(* resize() gets no memory or makes it shorter (Careful).                  *)
(***************************************************************************)
THEOREM RingTypeCorrect == ASSUME Careful PROVE Spec => []RingTypeOK
<1>1. RingTypeOK /\ [Next]_vars => RingTypeOK'
  BY NextStep
<1> QED BY <1>1, RingInit, PTL DEF Spec

(***************************************************************************)
(* Frames come out in the order they went in, none twice and none altered, *)
(* for every size of the buffer and of the pushes, and only the oldest are *)
(* lost, to a pushOver() that has no room for them.  A buffer that is made *)
(* longer goes on as one, from frames that may be others.                  *)
(***************************************************************************)
THEOREM RingIsFifo == ASSUME Careful PROVE Spec => ImplementsFifo
<1>1. RingTypeOK /\ [Next]_vars => RingTypeOK'
  BY NextStep
<1>2. RingTypeOK /\ [Next]_vars => [Fifo!FifoNext]_(Fifo!fifo)
  BY NextStep
<1> QED BY <1>1, <1>2, RingInit, InitStep, PTL DEF Spec, ImplementsFifo, Fifo!FifoSpec
=============================================================================
