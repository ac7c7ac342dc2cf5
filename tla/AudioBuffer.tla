------------------------------ MODULE AudioBuffer ------------------------------
(***************************************************************************)
(* AudioBuffer (TAudioBuffer.hpp): the channels of a signal, one after the *)
(* other in one HeapBuffer, each padded so that the next one is aligned.   *)
(* The buffer is set from arrays, two-dimensional and interleaved ones and *)
(* other buffers, mixed with other buffers, given memory of the client and *)
(* resized, when the allocation may fail.                                  *)
(*                                                                         *)
(* Every store goes to an address of the flat memory.  Samples are numbers *)
(* modulo SampleMod: what matters is which of them are combined.  A loop   *)
(* over vectors of samples does what the one over samples does, as long as *)
(* its addresses are aligned, and is not told apart from it.               *)
(***************************************************************************)
EXTENDS Integers, FiniteSets

CONSTANTS Align,        \* Alignment / sizeof(T)
          SampleMod,
          FromInt, ToInt,    \* integer samples scaled to T, and T to integers
          MaxChannels, 
          MaxCells,     \* bound: samples in the memory
          Lengths,      \* lengths asked for
          Offsets,
          Lines,        \* arrays: [scaled, data], data a function on 0 .. n - 1
          Sheets,       \* 2D arrays: [channels, size, scaled, data], see At
          Others,       \* other buffers: [channels, size, valid, data]
          Levels,       \* constants to set, add and multiply with
          CutsMixes,    \* the client may give add() and multiply() a length that
                        \* is less than what both buffers have
          CountsNarrow, \* the client may rely on what putInterleaved() returns
                        \* for fewer channels than the buffer has
          ResizesFail   \* resize() may get no memory

Samples == 0 .. SampleMod - 1
Flat(n) == [0 .. n - 1 -> Samples]

ASSUME AudioBufferAssumption ==
    /\ {Align, SampleMod, MaxChannels} \subseteq Nat \ {0} /\ MaxCells \in Nat
    /\ FromInt \in [Samples -> Samples] /\ ToInt \in [Samples -> Samples]
    /\ \A s \in Samples : ToInt[FromInt[s]] = s
    /\ Lengths \subseteq Nat /\ Offsets \subseteq Nat /\ Levels \subseteq Samples
    /\ \A a \in Lines : a.scaled \in BOOLEAN /\ a.data \in Flat(Cardinality(DOMAIN a.data))
    /\ \A a \in Sheets \cup Others : /\ {a.channels, a.size} \subseteq Nat
                                     /\ a.data \in Flat(a.channels * a.size)
    /\ \A a \in Sheets : a.scaled \in BOOLEAN
    /\ \A b \in Others : /\ b.valid \in 0 .. b.size /\ b.channels <= MaxChannels
                         /\ b.channels = 0 => b.size = 0
    /\ {CutsMixes, CountsNarrow, ResizesFail} \subseteq BOOLEAN

VARIABLES mBuffer,      \* what the HeapBuffer holds, a function on 0 .. n - 1
          mValidSize, mChannels,
          access,       \* whose memory it is: "own", "lent" or "const"
          asked         \* the length add() or multiply() has just been given, or 0

buffer == <<mBuffer, mValidSize, mChannels, access>>
vars == <<buffer, asked>>

Lesser(m, n) == IF m < n THEN m ELSE n
Silence(n) == [k \in 0 .. n - 1 |-> 0]

Init == /\ mBuffer = Silence(0) /\ mValidSize = 0 /\ mChannels = 0
        /\ access = "own" /\ asked = 0

Cells == Cardinality(DOMAIN mBuffer)
size == IF Cells = 0 THEN 0 ELSE Cells \div mChannels

\* The address of the first sample of a channel.
get(c) == c * size

\* Sample i of channel c of a 2D array or another other.
At(a, c, i) == a.data[c * a.size + i]

Incoming(scaled, s) == IF scaled THEN FromInt[s] ELSE s
Outgoing(scaled, s) == IF scaled THEN ToInt[s] ELSE s

\* A client does not write to memory it has lent as const, and does not let a
\* buffer be read that counts more samples than it has got memory for.
Writable == access # "const"
Sound == mValidSize <= size
-----------------------------------------------------------------------------
\* The memory after length samples have been stored in each of the channels,
\* from offset on: Value(c, i, old) is the one that replaces old as the ith.
Stored(chans, offset, length, Value(_, _, _)) ==
    [k \in DOMAIN mBuffer |->
        LET into == {c \in chans : k - get(c) - offset \in 0 .. length - 1}
        IN  IF into = {} THEN mBuffer[k]
            ELSE LET c == CHOOSE c \in into : \A d \in into : d <= c
                 IN  Value(c, k - get(c) - offset, mBuffer[k])]

\* Defect: as much as is asked for is stored, wherever the channel ends.
RoomUnbounded(length, offset) == length

\* How much of length there is room for from an offset on.
Room(length, offset) == Lesser(length, size - offset)

\* set(samples, length, channel, offsetDst)
SetLine(line, length, c, offsetDst) ==
    /\ Writable /\ offsetDst <= size 
    /\ 0 .. length - 1 \subseteq DOMAIN line.data
    /\ mBuffer' = IF mChannels <= c THEN mBuffer
                  ELSE Stored({c}, offsetDst, Room(length, offsetDst),
                              LAMBDA d, i, old : Incoming(line.scaled, line.data[i]))
    /\ UNCHANGED <<mValidSize, mChannels, access>>

\* set(samples, length, chan, offsetSrc, offsetDst) from a 2D array: a chan of
\* 0 stands for all channels.
SetSheet(sheet, length, chan, offsetSrc, offsetDst) ==
    LET chans == Lesser(IF chan = 0 THEN mChannels ELSE chan, mChannels) 
    IN  /\ Writable /\ offsetDst <= size
        /\ chans <= sheet.channels /\ offsetSrc + length <= sheet.size
        /\ mBuffer' = Stored(0 .. chans - 1, offsetDst, Room(length, offsetDst),
                             LAMBDA c, i, old : Incoming(sheet.scaled, At(sheet, c, offsetSrc + i)))
        /\ UNCHANGED <<mValidSize, mChannels, access>>

\* set(buffer, length, offsetSrc, offsetDst): a length of 0 stands for all that
\* is valid, from offsetSrc on even if that is past its end.
SetOther(other, length, offsetSrc, offsetDst) ==
    LET long == IF length = 0 THEN other.valid ELSE length
        chans == Lesser(other.channels, mChannels)
    IN  /\ Writable /\ offsetDst <= size
        /\ offsetSrc + long <= other.size
        /\ mBuffer' = Stored(0 .. chans - 1, offsetDst, Room(long, offsetDst),
                             LAMBDA c, i, old : At(other, c, offsetSrc + i))
        /\ UNCHANGED <<mValidSize, mChannels, access>>

\* set(value, length, offsetDst): a length of 0 stands for all.
SetLevel(level, length, offsetDst) ==
    LET long == IF length = 0 THEN size ELSE length
    IN  /\ Writable /\ offsetDst <= size
        /\ mBuffer' = Stored(0 .. mChannels - 1, offsetDst, Room(long, offsetDst),
                             LAMBDA c, i, old : level)
        /\ UNCHANGED <<mValidSize, mChannels, access>>

\* The memory after setFromInterleaved(): frame i of channel c is at
\* c + (offsetSrc + i) * chan of the array.
Deinterleaved(line, length, chan, offsetSrc, offsetDst) ==
    Stored(0 .. Lesser(chan, mChannels) - 1, offsetDst, Room(length, offsetDst),
           LAMBDA c, i, old : Incoming(line.scaled, line.data[c + (offsetSrc + i) * chan]))

SetFromInterleaved(line, length, chan, offsetSrc, offsetDst) ==
    /\ Writable /\ offsetDst <= size
    /\ 0 .. (offsetSrc + length) * chan - 1 \subseteq DOMAIN line.data
    /\ mBuffer' = Deinterleaved(line, length, chan, offsetSrc, offsetDst)
    /\ mValidSize' = offsetDst + Room(length, offsetDst)
    /\ UNCHANGED <<mChannels, access>>
-----------------------------------------------------------------------------
\* mBuffer.closestChunkSize(length, Alignment / sizeof(T))
closestChunkSize(n) ==
    IF n % Align = 0 THEN n ELSE (n \div Align + 1) * Align

\* What is valid of a buffer made n samples long.
ValidFor(n) == IF mValidSize = 0 THEN n ELSE Lesser(mValidSize, n)

\* Whether n samples are got.
Grants(n) == IF ResizesFail /\ n > 0 THEN BOOLEAN ELSE {TRUE}

\* resize(length, chan) that has to allocate, and gets the memory or does not:
\* nobody looks, and the buffer is left with channels but without samples.
Reshaped(n, chan, got) ==
    /\ mBuffer' = IF got THEN Silence(chan * closestChunkSize(n)) ELSE Silence(0)
    /\ mChannels' = chan
    /\ mValidSize' = ValidFor(n)
    /\ access' = "own"

Resize(n, chan) ==
    /\ chan * closestChunkSize(n) <= MaxCells
    /\ IF chan = mChannels /\ size = n THEN UNCHANGED buffer
       ELSE \E got \in Grants(chan * n) : Reshaped(n, chan, got)

\* resize(length): the same channels, or one.
ResizeLength(n) == Resize(n, IF mChannels = 0 THEN 1 ELSE mChannels)

\* resize(buffer)
ResizeTo(other) == Resize(other.size, other.channels)

\* clone(buffer): resize(buffer), then set(buffer) with the length of what is
\* valid there, which it is not here unless it was before.
Clone(other) ==
    LET same == other.channels = mChannels /\ other.size = size
        long == closestChunkSize(other.size)
    IN  /\ other.channels * long <= MaxCells
        /\ \/ /\ same /\ Writable
              /\ mBuffer' = Stored(0 .. mChannels - 1, 0, other.valid,
                                   LAMBDA c, i, old : At(other, c, i))
              /\ UNCHANGED <<mValidSize, mChannels, access>>
           \/ /\ ~same
              /\ \E got \in Grants(other.channels * other.size) :
                    mBuffer' = [k \in 0 .. (IF got THEN other.channels * long ELSE 0) - 1 |->
                                  IF k % long < other.valid
                                  THEN At(other, k \div long, k % long) ELSE 0]
              /\ mChannels' = other.channels
              /\ mValidSize' = ValidFor(other.size)
              /\ access' = "own"

\* inject(mem, size, chan), with memory for chan channels of n samples.  Memory
\* that is borrowed is not replaced by other borrowed memory: disown() asserts.
Inject(data, n, chan, kind) ==
    /\ access = "own" /\ data \in Flat(chan * n) /\ chan * n <= MaxCells
    /\ mBuffer' = data
    /\ mChannels' = chan
    /\ mValidSize' = (chan * n) \div chan
    /\ access' = kind

\* operator=(AudioBuffer&&) from a buffer with memory of its own, to one without:
\* what it had would be nobody's.
MoveFrom(other) ==
    /\ access = "own" => Cells = 0
    /\ other.size % Align = 0 /\ other.channels * other.size <= MaxCells
    /\ mBuffer' = other.data
    /\ mChannels' = other.channels
    /\ mValidSize' = other.valid
    /\ access' = "own"

\* A buffer moved from keeps its sizes and works with its memory as if it were
\* lent by the other.  Memory that is borrowed is not moved: disown() asserts.
MoveAway ==
    /\ access = "own" /\ Cells > 0
    /\ access' = "lent"
    /\ UNCHANGED <<mBuffer, mValidSize, mChannels, asked>>

SetValidSize(n) ==
    /\ n <= size
    /\ mValidSize' = Lesser(size, n)
    /\ UNCHANGED <<mBuffer, mChannels, access>>
-----------------------------------------------------------------------------
\* add(buffer, length) and multiply(buffer, length): the length that is asked for
\* is overwritten with what both have.  Op combines the old sample and the other.
Mixed(other, length, offsetSrc, offsetDst, Op(_, _)) ==
    LET both == Lesser(other.valid - offsetSrc, mValidSize - offsetDst)
    IN  /\ Writable /\ Sound
        /\ offsetDst <= mValidSize /\ offsetSrc <= other.valid
        /\ length = 0 \/ both <= length \/ CutsMixes
        /\ mBuffer' = Stored(0 .. Lesser(other.channels, mChannels) - 1, offsetDst, both,
                             LAMBDA c, i, old : Op(old, At(other, c, offsetSrc + i)))
        /\ asked' = length
        /\ UNCHANGED <<mValidSize, mChannels, access>>

\* add(value) and multiply(value)
Levelled(level, Op(_, _)) ==
    /\ Writable /\ Sound
    /\ mBuffer' = Stored(0 .. mChannels - 1, 0, mValidSize,
                         LAMBDA c, i, old : Op(old, level))
    /\ UNCHANGED <<mValidSize, mChannels, access>>

Sum2(a, b) == (a + b) % SampleMod
Product2(a, b) == (a * b) % SampleMod

Add(other, length, offsetSrc, offsetDst) ==
    Mixed(other, length, offsetSrc, offsetDst, Sum2)
Multiply(other, length, offsetSrc, offsetDst) ==
    Mixed(other, length, offsetSrc, offsetDst, Product2)
AddLevel(level) == Levelled(level, Sum2)
MultiplyLevel(level) == Levelled(level, Product2)
-----------------------------------------------------------------------------
\* How much of length put() finds valid from an offset on; 0 stands for all.
Present(length, offset) ==
    Lesser(IF length = 0 THEN mValidSize ELSE length, mValidSize - offset)

\* put(target, length, channel, offset): the target, from 0 on.
PutLine(length, c, offset, scaled) ==
    IF mChannels <= c THEN Silence(0)
    ELSE [i \in 0 .. Present(length, offset) - 1 |->
            Outgoing(scaled, mBuffer[get(c) + offset + i])]

\* put(target, length, chan, offset) to a 2D array: what comes back is the
\* number of samples the last channel had.
PutSheet(length, chan, offset, scaled) ==
    [c \in 0 .. (IF chan = 0 THEN mChannels ELSE chan) - 1 |->
        PutLine(length, c, offset, scaled)]

\* Defect: the frames are as far apart as the buffer has channels.
InterleavesAll(chan) == mChannels

\* How many channels putInterleaved() writes.
Interleaves(chan) == IF chan = 0 THEN mChannels ELSE Lesser(chan, mChannels)

\* putInterleaved(buffer, length, offset, chan): sample i of channel c goes to
\* c + i * chan.  It divides by the channels of this buffer in the end.
PutInterleaved(length, offset, chan, scaled) ==
    LET chans == Interleaves(chan)
        frames == Present(length, offset)
        all == (0 .. chans - 1) \X (0 .. frames - 1)
        from(j) == CHOOSE p \in all : p[1] + p[2] * chans = j
    IN  [data |-> [j \in {p[1] + p[2] * chans : p \in all} |->
                     Outgoing(scaled, mBuffer[get(from(j)[1]) + offset + from(j)[2]])],
         frames |-> (chans * frames) \div mChannels]
-----------------------------------------------------------------------------
\* Calls that change the buffer, other than those that mix two.
Call ==
    \/ \E line \in Lines, n \in Lengths, c \in 0 .. MaxChannels, d \in Offsets :
          SetLine(line, n, c, d)
    \/ \E a \in Sheets, n \in Lengths, chan \in 0 .. MaxChannels, s \in Offsets, d \in Offsets :
          SetSheet(a, n, chan, s, d)
    \/ \E b \in Others, n \in Lengths, s \in Offsets, d \in Offsets : SetOther(b, n, s, d)
    \/ \E v \in Levels, n \in Lengths, d \in Offsets : SetLevel(v, n, d)
    \/ \E line \in Lines, n \in Lengths, chan \in 1 .. MaxChannels + 1, s \in Offsets, d \in Offsets :
          SetFromInterleaved(line, n, chan, s, d)
    \/ \E n \in Lengths, chan \in 0 .. MaxChannels : Resize(n, chan)
    \/ \E n \in Lengths : ResizeLength(n)
    \/ \E b \in Others : ResizeTo(b) \/ Clone(b) \/ MoveFrom(b)
    \/ \E line \in Lines, n \in Lengths \ {0}, chan \in 1 .. MaxChannels, kind \in {"lent", "const"} :
          Inject(line.data, n, chan, kind)
    \/ \E n \in Lengths : SetValidSize(n)
    \/ \E v \in Levels : AddLevel(v) \/ MultiplyLevel(v)

Next ==
    \/ Call /\ asked' = 0
    \/ MoveAway
    \/ \E b \in Others, n \in Lengths, s \in Offsets, d \in Offsets :
          Add(b, n, s, d) \/ Multiply(b, n, s, d)

Spec == Init /\ [][Next]_vars
-----------------------------------------------------------------------------
(***************************************************************************)
(* Properties                                                              *)
(***************************************************************************)

\* The memory is divided among the channels without a rest, each is as long
\* as its padding says unless it is borrowed, and never more is counted as
\* valid than there is memory for, unless there are no channels or an allocation
\* has failed: every call that changes the one has to change the other.
AudioTypeOK ==
    /\ mBuffer \in Flat(Cells) /\ Cells \in 0 .. MaxCells /\ size \in Nat
    /\ mChannels \in 0 .. MaxChannels /\ mValidSize \in Nat
    /\ access \in {"own", "lent", "const"}
    /\ Cells = mChannels * size
    /\ access = "own" => size % Align = 0
    /\ size > 0 \/ (mChannels > 0 /\ ~ResizesFail) => Sound

\* What the promises of Planes are for: clients that ask add() and multiply()
\* for no less than both buffers have, while there is memory.
Careful == ~CutsMixes /\ ~ResizesFail

\* The channels as their users see them.
planes == [c \in 0 .. mChannels - 1 |-> [i \in 0 .. size - 1 |-> mBuffer[get(c) + i]]]

\* Frames n on of an interleaved array of chan channels.
Apart(line, chan, first, n) ==
    [c \in 0 .. chan - 1 |->
        [i \in 0 .. n - 1 |-> Incoming(line.scaled, line.data[c + (first + i) * chan])]]

\* Channels 0 to chans - 1 of a 2D array, or of another other.
Part(a, scaled, chans, first, n) ==
    [c \in 0 .. chans - 1 |-> [i \in 0 .. n - 1 |-> Incoming(scaled, At(a, c, first + i))]]

LineParts == {[d \in {x[1]} |-> [i \in 0 .. x[3] - 1 |-> Incoming(x[2].scaled, x[2].data[i])]] :
                x \in {y \in (0 .. MaxChannels) \X Lines \X Lengths :
                         0 .. y[3] - 1 \subseteq DOMAIN y[2].data}}

SheetParts == {Part(x[1], x[1].scaled, x[2], x[3], x[4]) :
                 x \in {y \in Sheets \X (0 .. MaxChannels) \X Offsets \X Lengths :
                          y[2] <= y[1].channels /\ y[3] + y[4] <= y[1].size}}

OtherParts == {Part(x[1], FALSE, x[1].channels, x[2], x[3]) :
                 x \in {y \in Others \X Offsets \X (Lengths \cup {b.valid : b \in Others}) :
                          y[2] + y[3] <= y[1].size}}

Interleavings == {[part |-> Apart(x[1], x[2], x[3], x[4]), long |-> x[4]] :
                    x \in {y \in Lines \X (1 .. MaxChannels + 1) \X Offsets \X Lengths :
                             0 .. (y[3] + y[4]) * y[2] - 1 \subseteq DOMAIN y[1].data}}

ValidParts == {Part(x[1], FALSE, x[1].channels, x[2], x[1].valid - x[2]) :
                 x \in {y \in Others \X Offsets : y[2] <= y[1].valid}}

Clones == {[chans |-> b.channels, length |-> b.size,
            part |-> Part(b, FALSE, b.channels, 0, b.valid)] : b \in Others}

Moves == {[planes |-> Part(b, FALSE, b.channels, 0, b.size), length |-> b.size,
           valid |-> b.valid] : b \in Others}

Lendings == {[c \in 0 .. x[2] - 1 |-> [i \in 0 .. x[3] - 1 |-> x[1].data[c * x[3] + i]]] :
               x \in {y \in Lines \X (1 .. MaxChannels) \X Lengths :
                        DOMAIN y[1].data = 0 .. y[2] * y[3] - 1}}

P == INSTANCE Planes WITH
        length <- size, valid <- mValidSize,
        Parts <- LineParts \cup SheetParts \cup OtherParts, Takes <- Interleavings,
        Tracks <- ValidParts, Copies <- Clones, Loans <- Lendings, Gifts <- Moves,
        Starts <- Offsets, Padding <- Align

\* Through one flat memory the buffer keeps channels apart: a call changes the
\* samples it is about, as many as it was told to, and none of another channel,
\* whatever padding, offsets and lengths it works with.
ImplementsPlanes == P!PlanesSpec

\* put(), to an array, a 2D one and interleaved, delivers the samples of the
\* channels that are valid, putInterleaved() returns the number of frames (for
\* fewer channels than there are: CountsNarrow), and what was interleaved and is
\* set again from that comes back as it was.  Sizes agree, and channels end where
\* the next one is aligned.
PutsDeliver ==
    /\ AudioTypeOK
    /\ mChannels > 0 =>
       \A n \in Lengths, offset \in Offsets \cap 0 .. mValidSize, scaled \in BOOLEAN :
           LET heard == {i \in 0 .. mValidSize - 1 : offset <= i /\ (n > 0 => i < offset + n)}
               whole(c) == [j \in {i - offset : i \in heard} |->
                              Outgoing(scaled, planes[c][offset + j])]
               frames == Cardinality(heard)
           IN  /\ \A chan \in 0 .. mChannels :
                     PutSheet(n, chan, offset, scaled)
                       = [c \in 0 .. (IF chan = 0 THEN mChannels ELSE chan) - 1 |-> whole(c)]
               /\ \A chan \in 0 .. MaxChannels + 1 :
                     LET chans == IF chan = 0 THEN mChannels ELSE Lesser(chan, mChannels)
                         out == PutInterleaved(n, offset, chan, scaled)
                     IN  /\ DOMAIN out.data = 0 .. chans * frames - 1
                         /\ \A c \in 0 .. chans - 1 : \A i \in 0 .. frames - 1 :
                               out.data[c + i * chans] = whole(c)[i]
                         /\ chans = mChannels \/ CountsNarrow => out.frames = frames
                         /\ chans = mChannels =>
                               Deinterleaved([scaled |-> scaled, data |-> out.data], frames,
                                             chans, 0, offset) = mBuffer
=============================================================================
