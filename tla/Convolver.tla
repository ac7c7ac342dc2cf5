------------------------------ MODULE Convolver ------------------------------
(***************************************************************************)
(* ConvolverBrute (types/audio/convolver/TConvolverBrute.hpp) behind a     *)
(* resampler: its input is a buffer that one has filled, and ends with the *)
(* frames that came out, its validSize().                                  *)
(*                                                                         *)
(* process() adds to what is in its output.  The clients load a response   *)
(* first and pass on no empty block: ng - 1 and nf - 1 would wrap around,  *)
(* and what is behind the valid frames would be read.  Their input has a   *)
(* channel: those of the output are taken modulo the number of its.        *)
(*                                                                         *)
(* A response is a buffer: the samples of all that it is long, padded, and *)
(* how many of them are valid.  load() overwrites what it keeps where that *)
(* has the length that is asked for, with the valid samples and no more.   *)
(* With the switch LeavesOld it may leave samples of the response before:  *)
(* the clients load none otherwise that is shorter than what stays.        *)
(***************************************************************************)
EXTENDS Resamplers, FiniteSetsExt

CONSTANTS Responses,      \* impulse responses: samples of channels, valid
          OutChannels,    \* of the output
          OutSizes, 
          Levels,         \* what the output holds before, everywhere
          Silence,        \* samples up to it are not heard
          LeavesOld

ASSUME ConvolverAssumption ==
    /\ IsFiniteSet(Channels) /\ Channels # {} 
    /\ Channels = 0 .. Cardinality(Channels) - 1
    /\ \A r \in Responses : 
          /\ r.samples \in Seq(Seq(Int)) /\ r.samples # <<>> 
          /\ \A c \in DOMAIN r.samples : Len(r.samples[c]) = Len(r.samples[1])
          /\ Len(r.samples[1]) % Align = 0 /\ r.valid \in 0 .. Len(r.samples[1])
    /\ OutChannels \subseteq Nat /\ OutSizes \subseteq Nat /\ Levels \subseteq Int
    /\ Silence \in Nat /\ LeavesOld \in BOOLEAN

VARIABLES response,       \* what was valid of the one loaded last, if that was not empty
          mIr,            \* channels |-> samples, padded
          out

convolverVars == <<vars, response, mIr, out>>

ConvolverInit == ResamplersInit /\ response = <<>> /\ mIr = <<>> /\ out = <<>>

Magnitude(s) == IF s < 0 THEN -s ELSE s

Loud(s) == Silence < Magnitude(s)

\* Defect: what is silent in the first channel is trimmed.
TrimmedFirst(r) ==
    LET loud == {i \in 2 .. Len(r[1]) : Loud(r[1][i])}
    IN  IF loud = {} THEN Len(r[1]) ELSE Max(loud)

\* As many samples as there are until the last loud one of any channel; the
\* first is not looked at, and a response that is silent is not trimmed.
Trimmed(r) ==
    LET loud == {i \in 2 .. Len(r[1]) : \E c \in DOMAIN r : Loud(r[c][i])}
    IN  IF loud = {} THEN Len(r[1]) ELSE Max(loud)

\* mIr.resize(), which does nothing if that is its size, and mIr.set().
load(r) ==
    LET n == Trimmed(r.samples)
        stays == Len(mIr) = Len(r.samples) /\ Len(mIr[1]) = n
        Behind(c, j) == IF stays THEN mIr[c][j] ELSE 0
        Sample(c, j) == IF j <= r.valid THEN r.samples[c][j] ELSE Behind(c, j)
        size == IF stays THEN n ELSE closestChunkSize(n)
    IN  /\ IF r.samples[1] = <<>> THEN UNCHANGED <<response, mIr>>
           ELSE /\ stays => n <= r.valid \/ LeavesOld
                /\ response' = [c \in DOMAIN r.samples |-> SubSeq(r.samples[c], 1, r.valid)]
                /\ mIr' = [c \in DOMAIN r.samples |-> [j \in 1 .. size |-> Sample(c, j)]]
        /\ UNCHANGED <<vars, out>>

Total(f) == MapThenSumSet(LAMBDA x : f[x], DOMAIN f)

\* Sample i of the output: the samples of the response that meet a valid frame.
Convolved(c, i) ==
    LET nf == Len(mIr[1])
        ng == validSize(c % Cardinality(Channels))
        jmn == IF i >= ng - 1 THEN i - (ng - 1) ELSE 0
        jmx == IF i < nf - 1 THEN i ELSE nf - 1
        ir == mIr[(c % Len(mIr)) + 1]
        in == resampled[c % Cardinality(Channels)]
    IN  Total([j \in jmn .. jmx |-> ir[j + 1] * in[i - j + 1]])

convolve(n, level) ==
    /\ out = <<>> /\ mIr # <<>> /\ \A c \in Channels : validSize(c) > 0
    /\ out' = [c \in OutChannels |-> [i \in 0 .. n - 1 |-> level + Convolved(c, i)]]
    /\ UNCHANGED <<vars, response, mIr>>

take == out' = <<>> /\ UNCHANGED <<vars, response, mIr>>

\* Bound: the client takes what is in the output before it does anything else.
ConvolverNext ==
    \/ out = <<>> /\ ResamplersNext /\ UNCHANGED <<response, mIr, out>>
    \/ \E r \in Responses : out = <<>> /\ load(r)
    \/ take
    \/ \E n \in OutSizes, level \in Levels : convolve(n, level)

ConvolverSpec == ConvolverInit /\ [][ConvolverNext]_convolverVars
-----------------------------------------------------------------------------
(***************************************************************************)
(* A convolution with what was loaded, whatever was before: trimming it,   *)
(* padding what is kept, taking its channels and those of the input in     *)
(* turn and starting and ending before the other does adds nothing that is *)
(* not valid, and leaves nothing out but what the silent end of the        *)
(* response amounts to.                                                    *)
(***************************************************************************)
Terms(c, i) ==
    LET ir == response[(c % Len(response)) + 1]
        in == resampled[c % Cardinality(Channels)]
        meeting == {p \in (DOMAIN ir) \X (DOMAIN in) : p[1] + p[2] = i + 2}
    IN  [p \in meeting |-> ir[p[1]] * in[p[2]]]

Convolution(c, i) == Total(Terms(c, i))

SilentFrom(k) == 
    \A d \in DOMAIN response : \A m \in DOMAIN response[d] : k <= m => ~Loud(response[d][m])

SilentEnd(c, i) ==
    Total([p \in {q \in DOMAIN Terms(c, i) : SilentFrom(q[1])} |-> Magnitude(Terms(c, i)[p])])

ConvolvesWhole == [][\A n \in OutSizes, level \in Levels : convolve(n, level) => 
    \A c \in OutChannels, i \in 0 .. n - 1 :
        Magnitude(out'[c][i] - level - Convolution(c, i)) <= SilentEnd(c, i)
    ]_convolverVars
=============================================================================
