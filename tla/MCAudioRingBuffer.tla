-------------------------- MODULE MCAudioRingBuffer --------------------------
(* AudioRingBuffer with a few frames.                                      *)
EXTENDS AudioRingBuffer

CONSTANTS a, b, s

MCFrames == {a, b, s}

\* Every input of up to three frames, and one that is more than fits.
MCInputs == UNION {[1 .. n -> {a, b}] : n \in 0 .. 3} \cup {<<a, b, a, a, b>>}
=============================================================================
