-------------------------------- MODULE Heap --------------------------------
(***************************************************************************)
(* What the owner of an allocator may rely on, whichever allocator it is:  *)
(* the regions handed out and not yet returned lie in the arena and do not *)
(* overlap.  A region is the usable memory behind a pointer, addr |->      *)
(* length.  FixedPool is shown to implement this.                          *)
(***************************************************************************)
EXTENDS Naturals

CONSTANTS ArenaSize,   \* bytes of the arena
          Unit         \* addresses and lengths are multiples of this

Multiples == {a \in 0 .. ArenaSize : a % Unit = 0}

VARIABLE region        \* live regions: a function from address to length

Live == DOMAIN region

Clear(a, n, other) == \A b \in other : a + n <= b \/ b + region[b] <= a

HeapInit == Live = {}

\* A new region, clear of every live one; malloc.
Give(a, n) == 
    /\ a \notin Live /\ n > 0 /\ a + n <= ArenaSize
    /\ Clear(a, n, Live)
    /\ region' = [b \in Live \cup {a} |-> IF b = a THEN n ELSE region[b]]

\* A live region is returned; free.
Take(a) == 
    /\ a \in Live
    /\ region' = [b \in Live \ {a} |-> region[b]]

\* A live region gives back its tail; realloc in place.
Shrink(a, n) ==
    /\ a \in Live /\ n > 0 /\ n < region[a]
    /\ region' = [region EXCEPT ![a] = n]

\* A live region is exchanged for another one, clear of it; realloc.
Exchange(a, b, n) ==
    /\ a \in Live
    /\ b \notin Live /\ n > 0 /\ b + n <= ArenaSize
    /\ Clear(b, n, Live)
    /\ region' = [c \in (Live \ {a}) \cup {b} |->
                    IF c = b THEN n ELSE region[c]]

HeapNext == 
    \/ \E a \in Multiples, n \in Multiples : Give(a, n)
    \/ \E a \in Live :
          \/ Take(a)
          \/ \E n \in Multiples : 
                Shrink(a, n) \/ \E b \in Multiples : Exchange(a, b, n)

HeapSpec == HeapInit /\ [][HeapNext]_region
=============================================================================
