----------------------------- MODULE PoolSizes -----------------------------
(***************************************************************************)
(* The sizes FixedPool computes with (TFixedPool.hpp).  They are in bytes, *)
(* of type Size, as wide as a pointer; its arithmetic wraps around.        *)
(***************************************************************************)
EXTENDS Integers

CONSTANTS W,           \* sizeof(Size) = sizeof(void*)
          SizeMod      \* the number of values of Size

Larger(m, n) == IF m < n THEN n ELSE m

(***************************************************************************)
(* Bytes an allocation of n bytes takes: the length word and the payload,  *)
(* at least two words, up to a multiple of the word.  Size wraps around.   *)
(***************************************************************************)
RealAllocation(n) ==
    LET minSize == (W + Larger(W, n)) % SizeMod
    IN  IF n = 0 THEN 0
        ELSE IF minSize % W = 0 THEN minSize
        ELSE (minSize - (minSize % W) + W) % SizeMod

\* Defect: the length word is forgotten.
ResizedLengthNoHeader(n) == n + (W - (n % W))

(***************************************************************************)
(* The length reallocate() wants: it rounds up past a multiple of the word *)
(* too, so it is a word more than realAllocation() for such sizes.         *)
(***************************************************************************)
ResizedLength(n) ==
    LET newSize == (n + W) % SizeMod
    IN  (newSize + (W - (newSize % W))) % SizeMod
=============================================================================
