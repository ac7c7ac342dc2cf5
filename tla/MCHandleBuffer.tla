-------------------------- MODULE MCHandleBuffer --------------------------
(* HandleBuffer with a few slots and generations.                          *)
EXTENDS HandleBuffer

\* Past the end: a slot that there is, or one that is past the end itself and
\* of the generation that stands for no element.
MCBeyond == {Pack(0, 1), Pack(2, LastGeneration)}
=============================================================================
