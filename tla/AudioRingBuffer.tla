--------------------------- MODULE AudioRingBuffer ---------------------------
(***************************************************************************)
(* AudioRingBufferTpl (TAudioRingBuffer.hpp).  Despite its name mHead is   *)
(* the number of frames in the buffer; mTail is where the next one goes.   *)
(* Size is unsigned: its arithmetic wraps around.  A frame stands for the  *)
(* samples of all channels at one position: each channel is treated alike. *)
(*                                                                         *)
(* The frames given to a push are the validSize() frames of the source     *)
(* from offsetSrc on.  Those a pop or peek delivers are placed relative to *)
(* offsetDst, in a destination with room for `room' frames after it.       *)
(***************************************************************************)
EXTENDS Integers, Sequences

CONSTANTS Frames, Silence,  \* what clients push; what reset() fills with
          Garbage,          \* what is found outside of the buffer
          Size,             \* frames the buffer is built for
          SizeMod,          \* the number of values of type Size
          Inputs,           \* the sequences of frames that are pushed
          Asked,            \* the numbers of frames asked for
          PeekOffsets, PopOffsets,
          Beyond,           \* the client may start beyond what is in the buffer
                            \* and make the buffer shorter
          DropsEarly,       \* the client may call pushOver() where it gives up frames
                            \* that there is room for
          ResizesFail,      \* resize() may get no memory
          Rooms,            \* space in the destinations
          Resizes           \* sizes the inherited resize() is called with

ASSUME RingAssumption ==
    /\ Size \in Nat \ {0}
    /\ SizeMod \in Nat /\ 2 * Size < SizeMod
    /\ Silence \in Frames
    /\ Inputs \subseteq Seq(Frames)
    /\ \A in \in Inputs : Len(in) < SizeMod
    /\ Asked \subseteq 0 .. SizeMod - 1 
    /\ PeekOffsets \subseteq Nat /\ PopOffsets \subseteq Nat
    /\ Beyond \in BOOLEAN /\ DropsEarly \in BOOLEAN /\ ResizesFail \in BOOLEAN
    /\ Rooms \subseteq 0 .. SizeMod - 1
    /\ Resizes \subseteq Nat \ {0}

VARIABLES size,      \* Base::size()
          buf,       \* position |-> frame
          mHead, mTail,
          got,       \* what the last call put at each position of the destination
          room,      \* positions the destination has
          count      \* what the last call returned

vars == <<size, buf, mHead, mTail, got, room, count>>

Lesser(m, n) == IF m < n THEN m ELSE n
Wrap(n) == n % SizeMod
Nothing == <<>>

Init ==
    /\ size = Size
    /\ buf = [i \in 0 .. Size - 1 |-> Silence]
    /\ mHead = 0 /\ mTail = 0
    /\ got = Nothing /\ room = 0 /\ count = 0

Reset ==
    /\ buf' = [i \in DOMAIN buf |-> Silence]
    /\ mHead' = 0 /\ mTail' = 0
    /\ got' = Nothing /\ room' = 0 /\ count' = 0
    /\ UNCHANGED size
-----------------------------------------------------------------------------
remaining == Wrap(size - mHead)

\* Frames up to the end of the buffer, from where the next one goes.
spaceLeftTail == Wrap(size - mTail)

\* Defect: the part that wraps around starts with the first frame again.
StoreRepeats(in, n, filled) ==
    /\ IF spaceLeftTail < n
       THEN /\ buf' = [i \in DOMAIN buf |->
                         IF i >= mTail THEN in[i - mTail + 1]
                         ELSE IF i < n - spaceLeftTail THEN in[i + 1]
                         ELSE buf[i]]
            /\ mTail' = n - spaceLeftTail
       ELSE /\ buf' = [i \in DOMAIN buf |->
                         IF mTail <= i /\ i < mTail + n THEN in[i - mTail + 1] 
                         ELSE buf[i]]
            /\ mTail' = IF spaceLeftTail = n THEN 0 ELSE mTail + n
    /\ mHead' = Wrap(filled + n)

\* The first n frames of `in' are written from mTail on, in one part or, over
\* the end of the buffer, in two; `filled' is mHead before.
Store(in, n, filled) ==
    /\ IF spaceLeftTail < n
       THEN /\ buf' = [i \in DOMAIN buf |->
                         IF i >= mTail THEN in[i - mTail + 1]
                         ELSE IF i < n - spaceLeftTail THEN in[spaceLeftTail + i + 1]
                         ELSE buf[i]]
            /\ mTail' = n - spaceLeftTail
       ELSE /\ buf' = [i \in DOMAIN buf |->
                         IF mTail <= i /\ i < mTail + n THEN in[i - mTail + 1] 
                         ELSE buf[i]]
            /\ mTail' = IF spaceLeftTail = n THEN 0 ELSE mTail + n
    /\ mHead' = Wrap(filled + n)

\* push() when `filled' frames are in the buffer.
PushOnto(in, filled) ==
    LET n == Lesser(Len(in), Wrap(size - filled))
    IN  /\ IF n > 0 THEN Store(in, n, filled)
           ELSE mHead' = filled /\ UNCHANGED <<buf, mTail>>
        /\ got' = Nothing /\ room' = 0 /\ count' = n
        /\ UNCHANGED size

Push(in) == PushOnto(in, mHead)

\* The frames pushOver() gives up: as many as come in, or all, as soon as the
\* new ones fill the buffer.
GivenUp(in) == IF remaining <= Len(in) THEN Lesser(Len(in), mHead) ELSE 0

\* Those there is no room for.
Displaced(in) == mHead - Lesser(mHead, size - Lesser(Len(in), size))

\* Unless DropsEarly the client looks at filled() and remaining() first.
PushOver(in) ==
    /\ GivenUp(in) = Displaced(in) \/ DropsEarly
    /\ PushOnto(in, mHead - GivenUp(in))
-----------------------------------------------------------------------------
\* What set() writes of n frames when it starts at position `at'.
Clip(n, at, space) == Lesser(n, Wrap(space - at))

At(i) == IF i \in DOMAIN buf THEN buf[i] ELSE Garbage

\* The frames in the buffer from offsetSrc on.
HeadFrom(offsetSrc) == Wrap(mHead - offsetSrc)

\* peek(): at most `elements' frames, from offsetSrc on, in one part or, over
\* the end of the buffer, in two.
Read(elements, offsetSrc, space) ==
    LET head == HeadFrom(offsetSrc)
        n == Lesser(elements, head)
        tailStart == Wrap(mTail - head + (IF mTail < head THEN size ELSE 0))
        spaceLeft == Wrap(size - tailStart)
        first == Clip(Lesser(n, spaceLeft), 0, space)
        second == IF spaceLeft < n THEN Clip(n - spaceLeft, spaceLeft, space) ELSE 0
    IN  /\ got' = [j \in (0 .. first - 1) \cup (spaceLeft .. spaceLeft + second - 1) |->
                     IF j < spaceLeft THEN At(tailStart + j) ELSE At(j - spaceLeft)]
        /\ room' = space
        /\ count' = n

\* The client looks at filled() first, unless Beyond.
Starts(offsetSrc) == offsetSrc <= mHead \/ Beyond

Peek(elements, offsetSrc, space) ==
    /\ Starts(offsetSrc)
    /\ Read(elements, offsetSrc, space)
    /\ UNCHANGED <<size, buf, mHead, mTail>>

\* pop() is peek() and mHead -= elementsOut.
Pop(elements, offsetSrc, space) ==
    /\ Starts(offsetSrc)
    /\ Read(elements, offsetSrc, space)
    /\ mHead' = Wrap(mHead - Lesser(elements, HeadFrom(offsetSrc)))
    /\ UNCHANGED <<size, buf, mTail>>

\* The inherited resize(), to a length that alignment does not round up.  Other
\* than for the length it has the buffer gets new memory, all of it default
\* constructed, or none and is empty; mHead and mTail stay as they are.  The client
\* makes it longer only, unless Beyond.
Resize(n) ==
    /\ size <= n \/ Beyond
    /\ size' \in IF ResizesFail /\ n # size THEN {n, 0} ELSE {n}
    /\ buf' = [i \in 0 .. size' - 1 |-> IF n = size THEN buf[i] ELSE Silence]
    /\ got' = Nothing /\ room' = 0 /\ count' = 0
    /\ UNCHANGED <<mHead, mTail>>

Next ==
    \/ Reset
    \/ \E in \in Inputs : Push(in) \/ PushOver(in)
    \/ \E elements \in Asked, space \in Rooms :
          \/ \E offsetSrc \in PeekOffsets : Peek(elements, offsetSrc, space)
          \/ \E offsetSrc \in PopOffsets : Pop(elements, offsetSrc, space)
    \/ \E n \in Resizes : Resize(n)

Spec == Init /\ [][Next]_vars
-----------------------------------------------------------------------------
\* A client that takes what it pops from the front, asks for no more than its
\* destination has room for, calls pushOver() where that drops what it must, and
\* resizes to lengths far from the largest Size, where there is memory.
Careful == /\ ~Beyond /\ ~DropsEarly /\ ~ResizesFail /\ PopOffsets = {0}
           /\ \A n \in Resizes : 2 * n < SizeMod
           /\ \A n \in Asked, space \in Rooms : n <= space

RingTypeOK ==
    /\ size \in Nat \ {0} /\ 2 * size < SizeMod
    /\ buf \in [0 .. size - 1 -> Frames]
    /\ mHead \in 0 .. size
    /\ mTail \in 0 .. size - 1
    /\ count \in 0 .. SizeMod - 1

(***************************************************************************)
(* The buffer implements BoundedFifo: whatever mix of pushes, pops and     *)
(* peeks, wherever the data wraps around the end, frames come out as they  *)
(* went in, in order, and none is lost that was counted as stored but the  *)
(* oldest, to a pushOver() of more than there is room for.  A buffer made  *)
(* longer keeps a count it has room for.                                   *)
(***************************************************************************)
Place(k, head, tail, n) == tail - head + k + (IF tail < head - k THEN n ELSE 0)
Queued == [k \in 1 .. mHead |-> buf[Place(k - 1, mHead, mTail, size)]]

Fifo == INSTANCE BoundedFifo 
          WITH queue <- Queued, frames <- got, capacity <- size,
               Capacity <- Size, Capacities <- Resizes
ImplementsFifo == Fifo!FifoSpec
=============================================================================
