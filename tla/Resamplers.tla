----------------------------- MODULE Resamplers -----------------------------
(***************************************************************************)
(* ResamplerHold, ResamplerLinear and the two ways through ResamplerSpeex  *)
(* (types/audio/resampler), for one stream that a client feeds in blocks.  *)
(*                                                                         *)
(* The stream is a ramp: frame k of channel c is (k + 1) * (c + 1), after  *)
(* the silence resamplers start from, so that a sample tells its time.     *)
(* Factors are exact: the double that a factor is rounded to, and the      *)
(* sample type a position is, are not modelled, and Speex's filter is one  *)
(* that takes a ramp for what it is.  What comes out is counted in parts   *)
(* of 1 / mRateOut.                                                        *)
(*                                                                         *)
(* The clients keep the frame after the valid ones readable, and the next  *)
(* of the stream there: ResamplerLinear goes one frame too far.            *)
(*                                                                         *)
(* Two switches let in what is left out otherwise.                         *)
(*   PadsChunks:   blocks longer than the maximum ResamplerSpeex was told, *)
(*                 where that is not a multiple of the alignment.  It      *)
(*                 converts them in chunks that are padded, to a buffer    *)
(*                 that is not as long as what comes out for one, and      *)
(*                 frames are dropped.                                     *)
(*   Interpolates: ResamplerLinear, which does not, interpolates the       *)
(*                 stream one frame behind.                                *)
(***************************************************************************)
EXTENDS Integers, Sequences, FiniteSets

CONSTANTS Kinds,          \* of resamplers, among those of AllKinds
          Channels,       \* channels: 0, 1, ...
          Rates,          \* pairs of rates clients ask for
          Align,          \* frames that a channel of a buffer is padded to
          BaseLength,     \* of Speex's filter, at the quality that is asked for
          PadsChunks, Interpolates,
          MaxBlock,       \* bound: frames in a block
          MaxFrames       \* bound: frames in a stream

AllKinds == {"hold", "linear", "speex_float", "speex_double"}

ASSUME ResamplersAssumption ==
    /\ Kinds \subseteq AllKinds
    /\ Channels \subseteq Nat
    /\ Rates \subseteq (Nat \ {0}) \X (Nat \ {0})
    /\ Align \in Nat \ {0}
    /\ BaseLength \in Nat \ {0} /\ BaseLength % 8 = 0
    /\ PadsChunks \in BOOLEAN /\ Interpolates \in BOOLEAN
    /\ MaxBlock \in Nat \ {0} /\ MaxFrames \in Nat

VARIABLES kind,
          mRateIn, mRateOut,
          maxBlock,       \* what init() made ResamplerSpeex's buffers for
          mLastFrame,     \* of ResamplerLinear
          mState,         \* of ResamplerSpeex: where its next output is
          fed,            \* frames of the stream until the last block
          block,          \* frames of the last block
          resampled,      \* valid frames that came out for it
          left            \* frames of it that nothing came out for

vars == <<kind, mRateIn, mRateOut, maxBlock, mLastFrame, mState, fed, block,
          resampled, left>>

Lesser(m, n) == IF m < n THEN m ELSE n

Frame(c, k) == (k + 1) * (c + 1)

\* round() of a quotient that is not negative.
Rounded(a, b) == (2 * a + b) \div (2 * b)

estimateOut(in, rateIn, rateOut) == Rounded(in * rateOut, rateIn)

\* Defect: the rates are swapped.
estimateNeedSwapped(out, rateIn, rateOut) == estimateOut(out, rateIn, rateOut)

estimateNeed(out, rateIn, rateOut) ==
    IF kind \in {"hold", "linear"} THEN Rounded(out * rateIn, rateOut)
    ELSE (out * rateIn) \div rateOut

\* Defect: there is no padding.
calculateBufferSizeBare(frames, rateIn, rateOut) ==
    estimateOut(frames, rateIn, rateOut)

calculateBufferSize(frames, rateIn, rateOut) ==
    estimateOut(frames, rateIn, rateOut) + 10
-----------------------------------------------------------------------------
\* init() starts a stream.
Starts(k, rateIn, rateOut, longest) ==
    /\ kind' = k
    /\ mRateIn' = rateIn /\ mRateOut' = rateOut
    /\ maxBlock' = longest
    /\ mLastFrame' = [c \in Channels |-> 0]
    /\ mState' = 0
    /\ fed' = 0 /\ block' = 0 /\ left' = 0
    /\ resampled' = [c \in Channels |-> <<>>]

ResamplersInit ==
    /\ kind \in Kinds
    /\ \E r \in Rates : mRateIn = r[1] /\ mRateOut = r[2]
    /\ maxBlock = MaxBlock
    /\ mLastFrame = [c \in Channels |-> 0]
    /\ mState = 0
    /\ fed = 0 /\ block = 0 /\ left = 0
    /\ resampled = [c \in Channels |-> <<>>]

init == \E k \in Kinds, r \in Rates, longest \in 1 .. MaxBlock :
    /\ k # "speex_double" => longest = MaxBlock
    /\ Starts(k, r[1], r[2], longest)

\* The size of a buffer for what comes out: for this block, or for any.
Rooms(n) == {calculateBufferSize(b, mRateIn, mRateOut) : b \in {n, MaxBlock}}
-----------------------------------------------------------------------------
\* The valid frame output o is taken from.
Index(o) == IF kind = "hold" THEN Rounded(o * mRateIn, mRateOut)
            ELSE (o * mRateIn) \div mRateOut

Beyond(i, n) == IF kind = "hold" THEN n <= i ELSE n < i

\* How many outputs there are for n frames, in a buffer of this size.
Outputs(n, room) ==
    Cardinality({o \in 0 .. room - 1 : \A p \in 0 .. o : ~Beyond(Index(p), n)})

HoldFrame(c, o) == Frame(c, fed + Index(o)) * mRateOut

\* Defect: one last frame is kept for all channels.
LastOfShared(c, o) ==
    IF o = 0 THEN mLastFrame[CHOOSE d \in Channels : TRUE] ELSE Frame(c, fed + Index(o - 1))

\* The frame before output o: the one the last output was taken from.
LastOf(c, o) == IF o = 0 THEN mLastFrame[c] ELSE Frame(c, fed + Index(o - 1))

LinearFrame(c, o) ==
    LET last == LastOf(c, o)
        next == Frame(c, fed + Index(o))
        mix == (o * mRateIn) % mRateOut
    IN  last * mRateOut + mix * (next - last)

\* process() of the two simple resamplers.
ProcessFrames(n, room) ==
    LET count == Outputs(n, room)
        FrameOf(c, o) == IF kind = "hold" THEN HoldFrame(c, o) ELSE LinearFrame(c, o)
    IN  /\ kind \in {"hold", "linear"}
        /\ resampled' = [c \in Channels |-> [j \in 1 .. count |-> FrameOf(c, j - 1)]]
        /\ mLastFrame' = IF kind = "linear" 
                         THEN [c \in Channels |-> LastOf(c, count)] ELSE mLastFrame
        /\ left' = n - Lesser(n, Index(count))
        /\ UNCHANGED mState
-----------------------------------------------------------------------------
\* Frames that Speex's filter is long: longer than its base where the rate goes down.
FilterLength ==
    IF mRateOut < mRateIn 
    THEN 8 * (((BaseLength * mRateIn) \div mRateOut - 1) \div 8) + 8 
    ELSE BaseLength

\* Defect: the filter's peak is one later, the first of its second half.
DelayLess == (FilterLength - 1) - FilterLength \div 2

\* Frames an output is behind: before a frame are all but one of those that the
\* filter is long, and its peak is at the last of the first half.
Delay == (FilterLength - 1) - (FilterLength \div 2 - 1)

\* speex_resampler_process_float(): outputs, at times of the stream, for the n 
\* frames from the first on, as long as there is room; how many frames it took
\* and where the next output is, after them.
Engine(state, first, n, room) ==
    LET due == {o \in 0 .. room - 1 : state + o * mRateIn < n * mRateOut}
        next == state + Cardinality(due) * mRateIn
        taken == Lesser(n, next \div mRateOut)
    IN  [times |-> [j \in 1 .. Cardinality(due) |-> 
                      (first + 1 - Delay) * mRateOut + state + (j - 1) * mRateIn],
         left |-> n - taken,
         state |-> next - taken * mRateOut]

closestChunkSize(n) == ((n + Align - 1) \div Align) * Align

\* The sizes of mConvertIn and mConvertOut.
ConvertIn == closestChunkSize(maxBlock)
ConvertOut == closestChunkSize(calculateBufferSize(maxBlock, mRateIn, mRateOut))

\* Where chunk j of a block is.
ChunkFrom(j) == (j - 1) * ConvertIn

Chunks(n) == (n + ConvertIn - 1) \div ConvertIn

\* What ResamplerSpeex has done after some chunks of a block.
Converted(n) ==
    LET done[j \in 0 .. Chunks(n)] ==
          IF j = 0 THEN [times |-> <<>>, left |-> 0, state |-> mState]
          ELSE LET before == done[j - 1]
                   blockLeft == Lesser(ConvertIn, n - ChunkFrom(j))
                   e == Engine(before.state, fed + ChunkFrom(j), blockLeft, ConvertOut)
               IN  [times |-> before.times \o e.times, 
                    left |-> before.left + e.left,
                    state |-> e.state]
    IN  done[Chunks(n)]

\* The stream at a time: silence, and then the ramp.
StreamAt(time) == IF time < 0 THEN 0 ELSE time

\* process() of ResamplerSpeex: what was converted is stored as far as there
\* is room.
ProcessEngine(n, room) ==
    LET e == IF kind = "speex_float" THEN Engine(mState, fed, n, room) ELSE Converted(n)
        count == Lesser(Len(e.times), room)
    IN  /\ kind \in {"speex_float", "speex_double"}
        /\ resampled' = [c \in Channels |-> 
                           [j \in 1 .. count |-> StreamAt(e.times[j]) * (c + 1)]]
        /\ left' = e.left + Len(e.times) - count
        /\ mState' = e.state
        /\ UNCHANGED mLastFrame

process(n) ==
    /\ fed + n <= MaxFrames
    /\ kind = "speex_double" => n <= maxBlock \/ maxBlock % Align = 0 \/ PadsChunks
    /\ \E room \in Rooms(n) : ProcessFrames(n, room) \/ ProcessEngine(n, room)
    /\ fed' = fed + n /\ block' = n
    /\ UNCHANGED <<kind, mRateIn, mRateOut, maxBlock>>

ResamplersNext == init \/ \E n \in 1 .. MaxBlock : process(n)

ResamplersSpec == ResamplersInit /\ [][ResamplersNext]_vars
-----------------------------------------------------------------------------
validSize(c) == Len(resampled[c])

(***************************************************************************)
(* A buffer of calculateBufferSize() is a "safe buffer size in frames to   *)
(* store the result": a block ends because it is used up, whatever the     *)
(* rates and whatever came before, and no frame is dropped in between.     *)
(***************************************************************************)
NothingLeft == left = 0

getLatency == CASE kind = "hold"   -> 0
                [] kind = "linear" -> 1
                [] OTHER           -> FilterLength \div 2

(***************************************************************************)
(* The resamplers keep in step with what they are fed, in every block of a *)
(* stream and on every channel: an output is the input of its time, as     *)
(* many frames earlier as getLatency() says, half a frame off with Hold    *)
(* and up to one step of the output ahead with Speex.                      *)
(***************************************************************************)
InStep == \A c \in Channels : \A j \in DOMAIN resampled[c] :
    LET at == (fed - block + 1 - getLatency) * mRateOut + (j - 1) * mRateIn
        ahead == resampled[c][j] - StreamAt(at) * (c + 1)
    IN  CASE kind = "hold"   -> ahead * 2 \in -mRateOut * (c + 1) .. mRateOut * (c + 1)
          [] kind = "linear" -> Interpolates => ahead = 0
          [] OTHER           -> ahead \in 0 .. mRateIn * (c + 1) - 1

(***************************************************************************)
(* What ResamplerLinear does instead: an output is never ahead of its time *)
(* and never later than one step of the output and one frame, whatever was *)
(* in the block before.                                                    *)
(***************************************************************************)
LinearLags == kind = "linear" => \A c \in Channels : \A j \in DOMAIN resampled[c] :
    LET at == (fed - block + 1) * mRateOut + (j - 1) * mRateIn
    IN  resampled[c][j] - at * (c + 1) \in -(mRateIn + mRateOut) * (c + 1) .. 0

(***************************************************************************)
(* The estimates are what comes out, give or take: of a block, and of one  *)
(* as long as estimateNeed() says for a number of outputs.  There is at    *)
(* most one frame too few, and what becomes of one, and at most one and a  *)
(* half of each too many.  Hold and Linear never return an empty block.    *)
(***************************************************************************)
Near(count, expected) == 
    2 * (count - expected) * mRateIn 
        \in -2 * (mRateIn + mRateOut) .. 3 * (mRateIn + mRateOut)

EstimatesHold == block > 0 => \A c \in Channels :
    /\ Near(validSize(c), estimateOut(block, mRateIn, mRateOut))
    /\ \A m \in 1 .. MaxBlock : 
          block = estimateNeed(m, mRateIn, mRateOut) => Near(validSize(c), m)
    /\ kind \in {"hold", "linear"} => validSize(c) > 0
=============================================================================
