-------------------------------- MODULE Planes --------------------------------
(***************************************************************************)
(* What the users of an audio buffer may rely on: every channel is an      *)
(* array of its own, all of the same length, and so much of them is valid. *)
(* A call changes the samples it is about, and what does not fit is lost:  *)
(* nothing goes into the next channel.  AudioBuffer is shown to implement  *)
(* this.                                                                   *)
(***************************************************************************)
EXTENDS Integers

CONSTANTS Parts,      \* what is recorded: channel |-> its samples, from 0 on
          Takes,      \* what is recorded and says how much is valid: [part, long]
          Tracks,     \* what is valid in other buffers, to be mixed in
          Copies,     \* what is cloned: [part, length]
          Loans,      \* memory to work with
          Gifts,      \* what is moved: [planes, length, valid]
          Levels, Starts, Lengths, MaxChannels,
          Padding,    \* channels are longer than asked for by less than this
          SampleMod

VARIABLES planes,     \* channel |-> its samples, from 0 on
          length,     \* of each channel
          valid,
          asked       \* how much was to be mixed by the call just made: 0 for all,
                      \* or if it was another one

planesVars == <<planes, length, valid, asked>>

Channels == DOMAIN planes
Least(m, n) == IF m < n THEN m ELSE n
Silent(chans, n) == [c \in 0 .. chans - 1 |-> [i \in 0 .. n - 1 |-> 0]]

\* The channels of base with those of part, from first on, combined with them.
With(base, part, first, Combined(_, _)) ==
    [c \in DOMAIN base |->
        [i \in DOMAIN base[c] |->
            IF c \in DOMAIN part /\ i - first \in DOMAIN part[c]
            THEN Combined(base[c][i], part[c][i - first])
            ELSE base[c][i]]]

New(old, new) == new
Sum(old, new) == (old + new) % SampleMod
Product(old, new) == (old * new) % SampleMod

Record(part, first) ==
    /\ planes' = With(planes, part, first, New)
    /\ UNCHANGED <<length, valid>>

Take(take, first) ==
    /\ planes' = With(planes, take.part, first, New)
    /\ valid' = Least(first + take.long, length)
    /\ UNCHANGED length

\* Every channel is at one level from first on.
Level(level, first, n) ==
    /\ planes' = With(planes, [c \in Channels |-> [i \in 0 .. n - 1 |-> level]], first, New)
    /\ UNCHANGED <<length, valid>>

\* The first n samples of each channel, or all for 0; nothing past what is valid
\* is heard.
Heard(part, first, n) ==
    [c \in DOMAIN part |->
        [i \in {j \in DOMAIN part[c] : first + j < valid /\ (n > 0 => j < n)} |-> part[c][i]]]

Mix(part, first, n) ==
    /\ \/ planes' = With(planes, Heard(part, first, n), first, Sum)
       \/ planes' = With(planes, Heard(part, first, n), first, Product)
    /\ UNCHANGED <<length, valid>>
    /\ asked' = n

\* There are new channels, or none.  What was valid stays so, if they are long
\* enough, and if nothing was all of what was asked for is.
Remake(chans, n, part) ==
    /\ length' \in IF chans = 0 THEN {0} ELSE n .. n + Padding - 1
    /\ planes' = With(Silent(chans, length'), part, 0, New)
    /\ valid' = IF valid = 0 THEN n ELSE Least(valid, n)

\* Channels that are as they should be are kept.
Resize(chans, n) ==
    \/ Remake(chans, n, Silent(0, 0))
    \/ Channels = 0 .. chans - 1 /\ length = n /\ UNCHANGED <<planes, length, valid>>

Clone(copy) ==
    \/ Remake(copy.chans, copy.length, copy.part)
    \/ /\ Channels = 0 .. copy.chans - 1 /\ length = copy.length
       /\ Record(copy.part, 0)

\* All of what is borrowed is valid.
Borrow(loan) ==
    /\ planes' = loan
    /\ \A c \in DOMAIN loan : DOMAIN loan[c] = 0 .. length' - 1
    /\ valid' = length'

Adopt(gift) ==
    planes' = gift.planes /\ length' = gift.length /\ valid' = gift.valid

Trim(n) == n <= length /\ valid' = n /\ UNCHANGED <<planes, length>>
-----------------------------------------------------------------------------
PlanesInit == planes = Silent(0, 0) /\ length = 0 /\ valid = 0 /\ asked = 0

PlanesCall ==
    \/ \E n \in Lengths : Trim(n)
    \/ \E chans \in 0 .. MaxChannels, n \in Lengths : Resize(chans, n)
    \/ \E copy \in Copies : Clone(copy) \/ Resize(copy.chans, copy.length)
    \/ \E loan \in Loans : Borrow(loan)
    \/ \E gift \in Gifts : Adopt(gift)
    \/ \E first \in Starts :
          \/ \E part \in Parts : Record(part, first)
          \/ \E take \in Takes : Take(take, first)
          \/ \E v \in Levels, n \in Lengths \cup {length} : Level(v, first, n)

PlanesNext ==
    \/ PlanesCall /\ asked' = 0
    \/ \E first \in Starts, track \in Tracks, n \in Lengths : Mix(track, first, n)
    \/ \E v \in Levels : Mix([c \in Channels |-> [i \in 0 .. length - 1 |-> v]], 0, 0)

PlanesSpec == PlanesInit /\ [][PlanesNext]_planesVars
=============================================================================
