----------------------------- MODULE FixedPool -----------------------------
(***************************************************************************)
(* memory::FixedPool (TFixedPool.hpp) used by one thread at a time: a      *)
(* first-fit allocator over a chunk of memory.  The pool is cut into       *)
(* blocks that follow one another.  A block starts with a word that holds  *)
(* its length while it is allocated and 0 while it is free; the second     *)
(* word of a free block holds the length instead, and belongs to the       *)
(* client while the block is allocated.  Offsets and lengths are in bytes. *)
(*                                                                         *)
(* The client is correct: it returns or resizes only pointers it owns and  *)
(* writes only inside its blocks.  FixedPoolThreads has the steps inside   *)
(* the operations and the lock.                                            *)
(***************************************************************************)
EXTENDS PoolSizes, FiniteSets, FiniteSetsExt

CONSTANTS PoolSize,    \* size of the chunk given to the constructor
          Requests,    \* sizes the client asks for
          MaxLeak      \* bound: bytes that shrinking may leave unaccounted

ASSUME PoolAssumption ==
    /\ W \in Nat \ {0}
    /\ PoolSize \in Nat /\ PoolSize >= 2 * W
    /\ SizeMod \in Nat /\ SizeMod > PoolSize + 3 * W
    /\ Requests \subseteq 0 .. SizeMod - 1
    /\ MaxLeak \in Nat

VARIABLES blocks,          \* start of a block |-> its length
          asked,           \* start of an allocated block |-> the size last asked for it
          allocatedSpace,  \* what allocated() returns
          intact,          \* allocated blocks that hold what their client put there
          leaked           \* history: bytes reallocate() has cut off in place

poolVars == <<blocks, asked, allocatedSpace, intact, leaked>>

Starts == DOMAIN blocks
used == DOMAIN asked
FreeStarts == Starts \ used

PoolInit == 
    /\ blocks = [o \in {0} |-> PoolSize]
    /\ asked = <<>>
    /\ allocatedSpace = 0
    /\ intact = {}
    /\ leaked = 0
-----------------------------------------------------------------------------
\* Defect: an allocated block is taken as well.
FittingUsed(size) == {o \in Starts : size <= blocks[o]}

\* The free blocks that are long enough for a length of size, and the one of
\* them, if any, that allocate() takes: it walks from the start upwards.
Fitting(size) == {o \in FreeStarts : size <= blocks[o]}
FirstFit(size) == {o \in Fitting(size) : \A p \in Fitting(size) : o <= p}

\* Defect: < for <=, a rest of one word becomes a free block.
GrantedOffByOne(o, size) == IF blocks[o] < size + W THEN blocks[o] ELSE size

\* The length the block at o gets: all of it when the rest could not hold
\* the two words of a free block.
Granted(o, size) == IF blocks[o] <= size + W THEN blocks[o] ELSE size

\* Defect: the free block is given the length of the whole old block.
CutTooLong(o, size) ==
    IF size = blocks[o] THEN blocks
    ELSE [p \in Starts \cup {o + size} |->
            IF p = o THEN size
            ELSE IF p = o + size THEN blocks[o]
            ELSE blocks[p]]

\* The block at o cut so that its first part has length size.
Cut(o, size) ==
    IF size = blocks[o] THEN blocks
    ELSE [p \in Starts \cup {o + size} |->
            IF p = o THEN size
            ELSE IF p = o + size THEN blocks[o] - size
            ELSE blocks[p]]

\* copy(dst, src): the destination holds what the source held.
Copied(dst, src, good) == 
    IF src \in good THEN good \cup {dst} ELSE good \ {dst}

Allocate(n) ==
    /\ n # 0
    /\ \E o \in FirstFit(RealAllocation(n)) : 
        LET size == Granted(o, RealAllocation(n)) IN
        /\ blocks' = Cut(o, size)
        /\ asked' = [p \in used \cup {o} |-> IF p = o THEN n ELSE asked[p]]
        /\ allocatedSpace' = allocatedSpace + size
        /\ intact' = intact \cup {o}        \* the client fills the block
        /\ UNCHANGED leaked

\* allocate(0), and an allocation no free block is large enough for.
AllocateFails(n) ==
    /\ n = 0 \/ Fitting(RealAllocation(n)) = {}
    /\ UNCHANGED poolVars

\* Defects: only the payload is taken off the books; the next block is
\* merged without a look at whether it is free.
DeallocatePayload(o) ==
    /\ o \in used
    /\ asked' = [p \in used \ {o} |-> asked[p]]
    /\ allocatedSpace' = allocatedSpace - (blocks[o] - W)
    /\ intact' = intact \ {o}
    /\ UNCHANGED <<blocks, leaked>>

DeallocateMerges(o) ==
    LET next == o + blocks[o]
    IN  /\ o \in used
        /\ asked' = [p \in used \ {o} |-> asked[p]]
        /\ allocatedSpace' = allocatedSpace - blocks[o]
        /\ intact' = intact \ {o}
        /\ blocks' = IF next \notin Starts THEN blocks
                     ELSE [p \in Starts \ {next} |->
                             IF p = o THEN blocks[o] + blocks[next]
                             ELSE blocks[p]]
        /\ UNCHANGED leaked

\* Neighbouring free blocks are not merged.
Deallocate(o) ==
    /\ o \in used
    /\ asked' = [p \in used \ {o} |-> asked[p]]
    /\ allocatedSpace' = allocatedSpace - blocks[o]
    /\ intact' = intact \ {o}
    /\ UNCHANGED <<blocks, leaked>>

\* reallocate(): the block is small enough already, and the rest of it could
\* not hold a free block.
ReallocateKeeps(o, n) ==
    LET new == ResizedLength(n)
    IN  /\ o \in used
        /\ new <= blocks[o] /\ blocks[o] <= new + W
        /\ asked' = [asked EXCEPT ![o] = n]
        /\ UNCHANGED <<blocks, allocatedSpace, intact, leaked>>

\* reallocate(): the block is cut where it stands.  allocatedSpace still
\* counts the bytes cut off.
ReallocateShrinks(o, n) ==
    LET new == ResizedLength(n)
    IN  /\ o \in used
        /\ new + W < blocks[o]
        /\ leaked + (blocks[o] - new) <= MaxLeak
        /\ blocks' = Cut(o, new)
        /\ leaked' = leaked + (blocks[o] - new)
        /\ asked' = [asked EXCEPT ![o] = n]
        /\ UNCHANGED <<allocatedSpace, intact>>

\* reallocate(): a new block is allocated, copy(ptr, newPtr, bytes) is
\* called, and the old block is deallocated.
ReallocateMoves(o, n) ==
    /\ o \in used
    /\ blocks[o] < ResizedLength(n)
    /\ \E new \in FirstFit(RealAllocation(n)) :
        LET size == Granted(new, RealAllocation(n)) IN
        /\ blocks' = Cut(new, size)
        /\ asked' = [p \in (used \cup {new}) \ {o} |->
                       IF p = new THEN n ELSE asked[p]]
        /\ allocatedSpace' = allocatedSpace + size - blocks[o]
        /\ intact' = Copied(o, new, intact) \ {o}
        /\ UNCHANGED leaked

\* reallocate(): no space for the new block, the old one stays as it is.
ReallocateFails(o, n) ==
    /\ o \in used
    /\ blocks[o] < ResizedLength(n)
    /\ Fitting(RealAllocation(n)) = {}
    /\ UNCHANGED poolVars

PoolNext ==
    \/ \E n \in Requests : Allocate(n) \/ AllocateFails(n)
    \/ \E o \in used : Deallocate(o)
    \/ \E o \in used, n \in Requests :
          \/ ReallocateKeeps(o, n)
          \/ ReallocateShrinks(o, n)
          \/ ReallocateMoves(o, n)
          \/ ReallocateFails(o, n)

PoolSpec == PoolInit /\ [][PoolNext]_poolVars
-----------------------------------------------------------------------------
\* A pool of whole words and requests whose arithmetic does not wrap, as in
\* the tests; the operations check neither.
Regular == /\ PoolSize % W = 0
           /\ \A n \in Requests : n + 3 * W < SizeMod

PoolTypeOK ==
    /\ Starts \subseteq 0 .. PoolSize - 1
    /\ blocks \in [Starts -> 1 .. PoolSize]
    /\ asked \in [used -> Requests]
    /\ used \subseteq Starts
    /\ intact \subseteq used
    /\ allocatedSpace \in Int
    /\ leaked \in 0 .. MaxLeak

(***************************************************************************)
(* Every block ends where the next one starts or where the pool ends, and  *)
(* no block starts inside another: the walk of allocate() visits all of    *)
(* them, and no two allocations overlap.                                   *)
(***************************************************************************)
BlocksTile ==
    /\ 0 \in Starts
    /\ \A o \in Starts : 
          /\ o + blocks[o] \in Starts \cup {PoolSize}
          /\ \A p \in Starts : ~(o < p /\ p < o + blocks[o])

(***************************************************************************)
(* Every block has room for the two words that mark it free: "blocks can   *)
(* never be less than 2 * sizeof(Size)", and the header of a block never   *)
(* reaches past the end of the pool.                                       *)
(***************************************************************************)
HeadersFit == \A o \in Starts : 2 * W <= blocks[o]

(***************************************************************************)
(* Every block starts and ends on a word: "all succeeding allocations will *)
(* also be aligned".                                                       *)
(***************************************************************************)
BlocksAligned == \A o \in Starts : o % W = 0 /\ blocks[o] % W = 0

(***************************************************************************)
(* The memory behind a pointer is as large as its owner last asked for,    *)
(* through any sequence of allocations and reallocations.                  *)
(***************************************************************************)
RequestsHonoured == \A o \in used : asked[o] + W <= blocks[o]

(***************************************************************************)
(* allocated() is "how many bytes are already allocated", and a client     *)
(* that has returned everything passes the assertion of the destructor,    *)
(* allocatedSpace == 0, as long as it has never shrunk a block in place;   *)
(* after that allocated() may be too high, and is never too low.           *)
(***************************************************************************)
Shrunk == leaked # 0
Accounting == 
    LET space == MapThenSumSet(LAMBDA o : blocks[o], used)
    IN  /\ ~Shrunk => allocatedSpace = space
        /\ space <= allocatedSpace

(***************************************************************************)
(* Once the longest block of the pool, free or not, is too short for a     *)
(* request, that request fails for ever, whatever is returned to the pool: *)
(* deallocate() leaves the pool as fragmented as it was.                   *)
(***************************************************************************)
OutOfReach(n) == \A o \in Starts : blocks[o] < RealAllocation(n)
RefusalIsFinal == 
    [][\A n \in Requests : OutOfReach(n) => OutOfReach(n)']_poolVars

(***************************************************************************)
(* The pool implements Heap: a pointer is a word past the start of its     *)
(* block.                                                                  *)
(***************************************************************************)
regions == [a \in {o + W : o \in used} |-> blocks[a - W] - W]

Promise == INSTANCE Heap WITH ArenaSize <- PoolSize, Unit <- W, region <- regions
ImplementsHeap == Promise!HeapSpec

(***************************************************************************)
(* No operation damages what a client keeps in its blocks.  reallocate()   *)
(* copies from the new block to the old one.                               *)
(***************************************************************************)
DataSurvives == intact = used
=============================================================================
