------------------------------ MODULE HeapBuffer ------------------------------
(***************************************************************************)
(* HeapBuffer (THeapBuffer.hpp): "a bad std::vector without exceptions     *)
(* which can also work with borrowed memory".  Several buffers move their  *)
(* contents to one another, grow and shrink, borrow the client's memory    *)
(* and allocate from one allocator, which may fail.                        *)
(*                                                                         *)
(* A cell of a memory holds an element, constructed and not yet destroyed, *)
(* is Raw, or Left: it holds the bytes of an element no buffer counts, the *)
(* one a pop() has copied out or a copy of one of the client's.  Elements  *)
(* are counted, not bytes; `bytes', which wraps around, matters only for   *)
(* how many elements an allocation has room for.                           *)
(* Alignment moves every element of an allocation alike and is left out.   *)
(***************************************************************************)
EXTENDS Integers, Sequences, FiniteSets

CONSTANTS Buffers,
          Memories,       \* allocations, numbers; as many at a time as there are
          Null,           \* the null pointer
          Foreign,        \* memory of the client: foreign memory |-> elements in it
          Values, Default, Raw, Left,
          ChunkSize,
          ElementSize,    \* sizeof(T)
          SizeMod,        \* the number of values of type Size
          MaxSize         \* bound: elements in a buffer

CONSTANTS                 \* what the clients do
          Datas,          \* sequences set() is called with
          MovesReserved,  \* move buffers that are empty but have memory
          Overwrites,     \* move to buffers that have memory
          ReservesBorrowed,  \* call reserve() on a buffer that borrows
          ShrinksMayFail  \* the allocator may fail when a buffer shrinks

ASSUME HeapBufferAssumption ==
    /\ Memories \subseteq Nat /\ Null \notin Memories
    /\ DOMAIN Foreign \cap (Memories \cup {Null}) = {}
    /\ \A f \in DOMAIN Foreign : Foreign[f] \in 1 .. MaxSize
    /\ Default \in Values /\ Raw # Left /\ {Raw, Left} \cap Values = {}
    /\ \A data \in Datas : data \in Seq(Values) /\ Len(data) <= MaxSize
    /\ {ChunkSize, ElementSize, SizeMod} \subseteq Nat \ {0} /\ MaxSize \in Nat

VARIABLES mBuf, mSize, mRealSize,
          cells           \* live memory |-> its cells

vars == <<mBuf, mSize, mRealSize, cells>>

Lesser(m, n) == IF m < n THEN m ELSE n

Fresh == /\ mBuf = [b \in Buffers |-> Null]
         /\ mSize = [b \in Buffers |-> 0]
         /\ mRealSize = [b \in Buffers |-> 0]

Init == /\ Fresh
        /\ cells = [f \in DOMAIN Foreign |-> [i \in 0 .. Foreign[f] - 1 |-> Default]]

injected(b) == mRealSize[b] = 0 /\ 0 < mSize[b] /\ mBuf[b] # Null
Owns(b) == mRealSize[b] > 0 /\ mBuf[b] # Null

\* A client does not touch a buffer whose memory another one has got, other
\* than to destroy it or to give it new contents.
Usable(b) == injected(b) => mBuf[b] \in DOMAIN Foreign
-----------------------------------------------------------------------------
\* Defect: the last chunk, which is not full, is left out.
closestChunkSizeDown(n) == (n \div ChunkSize) * ChunkSize

closestChunkSize(n) == 
    IF n % ChunkSize = 0 THEN n ELSE ((n \div ChunkSize + 1) * ChunkSize) % SizeMod

\* Elements an allocation of this length has room for.
RoomFor(chunk) == ((chunk * ElementSize) % SizeMod) \div ElementSize

\* What the allocator may return for a length of chunk: nothing for none.
Offered(chunk) ==
    IF chunk = 0 THEN {Null}
    ELSE {m \in Memories \ DOMAIN cells : \A k \in Memories \ DOMAIN cells : m <= k}

\* Defect: the old memory is kept.
MovedKept(b, chunk, m, c) ==
    LET old == mBuf[b]
        kept == Lesser(mSize[b], chunk)
        room == [i \in 0 .. RoomFor(chunk) - 1 |->
                   IF old # Null /\ i < kept THEN c[old][i] ELSE Raw]
    IN  [x \in DOMAIN c \cup ({m} \ {Null}) |-> IF x = m THEN room ELSE c[x]]

\* allocate(chunk) that got memory m, when the memory is as in c: what the
\* buffer had is copied, and its old memory freed if it is its own.
Moved(b, chunk, m, c) ==
    LET old == mBuf[b]
        kept == Lesser(mSize[b], chunk)
        room == [i \in 0 .. RoomFor(chunk) - 1 |->
                   IF old # Null /\ i < kept THEN c[old][i] ELSE Raw]
        rest == IF Owns(b) THEN DOMAIN c \ {old} ELSE DOMAIN c
    IN  [x \in rest \cup ({m} \ {Null}) |-> IF x = m THEN room ELSE c[x]]

\* Cells first .. end - 1 of memory m, constructed or destroyed.
Written(c, m, first, end, v) ==
    IF end <= first THEN c
    ELSE [c EXCEPT ![m] = [i \in DOMAIN @ |-> IF first <= i /\ i < end THEN v ELSE @[i]]]

SetFields(b, m, n, real) ==
    /\ mBuf' = [mBuf EXCEPT ![b] = m]
    /\ mSize' = [mSize EXCEPT ![b] = n]
    /\ mRealSize' = [mRealSize EXCEPT ![b] = real]

\* The memory once the elements from n on are destroyed.
Destroyed(b, n) ==
    IF mBuf[b] = Null \/ injected(b) THEN cells
    ELSE Written(cells, mBuf[b], n, mSize[b], Raw)
-----------------------------------------------------------------------------
\* Whether resize(n, downsize) allocates.
Reallocates(b, n, downsize) ==
    \/ mRealSize[b] < closestChunkSize(n)
    \/ downsize /\ mRealSize[b] > closestChunkSize(n)

\* The memory m a resize to n elements moves to: of borrowed memory more may
\* have been copied than is counted.
Resettled(b, n, chunk, m) ==
    LET moved == Moved(b, chunk, m, Destroyed(b, n))
    IN  IF injected(b) THEN Written(moved, m, n, Lesser(mSize[b], chunk), Left)
        ELSE moved

\* Where the elements of a buffer may be after resize(n, downsize).
Homes(b, n, downsize) ==
    IF Reallocates(b, n, downsize) THEN Offered(closestChunkSize(n)) ELSE {mBuf[b]}

RealSize(b, n, downsize) ==
    IF Reallocates(b, n, downsize) THEN closestChunkSize(n) ELSE mRealSize[b]

\* Defect: the elements that go are not destroyed.
ResizedLeaves(b, n, downsize, m) ==
    LET settled == IF Reallocates(b, n, downsize) 
                   THEN Moved(b, closestChunkSize(n), m, cells) ELSE cells
    IN  Written(settled, m, mSize[b], n, Default)

\* The memory after resize(n, downsize) that has its elements in m: those
\* that are new are constructed.
Resized(b, n, downsize, m) ==
    LET settled == IF Reallocates(b, n, downsize) 
                   THEN Resettled(b, n, closestChunkSize(n), m) ELSE Destroyed(b, n)
    IN  Written(settled, m, mSize[b], n, Default)

Resize(b, n, downsize) ==
    /\ Usable(b)
    /\ \E m \in Homes(b, n, downsize) :
          /\ cells' = Resized(b, n, downsize, m)
          /\ SetFields(b, m, n, RealSize(b, n, downsize))

\* The allocation fails: elements that were to go are destroyed by then.
ResizeFails(b, n, downsize) ==
    /\ Usable(b)
    /\ Reallocates(b, n, downsize) /\ closestChunkSize(n) > 0
    /\ n < mSize[b] => ShrinksMayFail
    /\ cells' = Destroyed(b, n)
    /\ UNCHANGED <<mBuf, mSize, mRealSize>>

Reserve(b, n) ==
    /\ Usable(b)
    /\ injected(b) => ReservesBorrowed
    /\ mRealSize[b] <= n
    /\ \E m \in Offered(n) :
          /\ cells' = Moved(b, n, m, cells)
          /\ SetFields(b, m, mSize[b], n)

Push(b, v) ==
    LET n == mSize[b] + 1 
        chunk == closestChunkSize(n)
    IN  /\ Usable(b) /\ mSize[b] < MaxSize
        /\ \/ /\ n <= mRealSize[b]
              /\ cells' = Written(cells, mBuf[b], mSize[b], n, v)
              /\ SetFields(b, mBuf[b], n, mRealSize[b])
           \/ /\ mRealSize[b] < n
              /\ \E m \in Offered(chunk) :
                    /\ cells' = Written(Moved(b, chunk, m, cells), m, mSize[b], n, v)
                    /\ SetFields(b, m, n, chunk)

\* push() and reserve() that get no memory.
GrowthFails(b) == Usable(b) /\ UNCHANGED vars

\* The element is copied to the client and not destroyed.
Pop(b) ==
    /\ Usable(b) /\ 0 < mSize[b]
    /\ mSize' = [mSize EXCEPT ![b] = @ - 1]
    /\ cells' = Written(cells, mBuf[b], mSize[b] - 1, mSize[b], Left)
    /\ UNCHANGED <<mBuf, mRealSize>>

\* Defect: the gap is filled with the element next to it.
RemoveShifts(b, i) ==
    LET last == mSize[b] - 1
        m == mBuf[b]
    IN  /\ Usable(b) /\ i < mSize[b]
        /\ cells' = Written(Written(cells, m, i, i + 1, cells[m][Lesser(i + 1, last)]), 
                            m, last, last + 1, Raw)
        /\ mSize' = [mSize EXCEPT ![b] = last]
        /\ UNCHANGED <<mBuf, mRealSize>>

\* The last element fills the gap.
Remove(b, i) ==
    LET last == mSize[b] - 1
        m == mBuf[b]
    IN  /\ Usable(b) /\ i < mSize[b]
        /\ cells' = Written(Written(cells, m, i, i + 1, cells[m][last]), 
                            m, last, last + 1, Raw)
        /\ mSize' = [mSize EXCEPT ![b] = last]
        /\ UNCHANGED <<mBuf, mRealSize>>

\* The memory once resize(0) has cleared a buffer.
Cleared(b) ==
    IF Owns(b) THEN [x \in DOMAIN cells \ {mBuf[b]} |-> cells[x]] ELSE cells

\* set() with data of the client: resize(0), then a second resize() that the
\* elements are constructed over.
Set(b, data) ==
    LET n == Len(data)
        chunk == closestChunkSize(n)
        cleared == Cleared(b)
    IN  \/ /\ n = 0
           /\ cells' = cleared
           /\ SetFields(b, IF Owns(b) THEN Null ELSE mBuf[b], 0, 0)
        \/ /\ 0 < n
           /\ \E m \in Offered(chunk) :
                /\ cells' = [x \in DOMAIN cleared \cup {m} |->
                               IF x = m 
                               THEN [i \in 0 .. RoomFor(chunk) - 1 |->
                                       IF i < n THEN data[i + 1] ELSE Raw]
                               ELSE cleared[x]]
                /\ SetFields(b, m, n, chunk)

\* The second resize() of set() fails.
SetFails(b) ==
    /\ cells' = Cleared(b)
    /\ SetFields(b, IF Owns(b) THEN Null ELSE mBuf[b], 0, 0)

\* disown(): the memory is no longer this buffer's, unless it is empty.
Disowned(b) == IF mSize[b] = 0 THEN mRealSize[b] ELSE 0

\* Defect: the source keeps its memory.
MoveShares(b, from) ==
    /\ b # from /\ ~injected(from)
    /\ Owns(b) => Overwrites
    /\ mSize[from] = 0 /\ Owns(from) => MovesReserved
    /\ mBuf' = [mBuf EXCEPT ![b] = mBuf[from]]
    /\ mSize' = [mSize EXCEPT ![b] = mSize[from]]
    /\ mRealSize' = [mRealSize EXCEPT ![b] = mRealSize[from]]
    /\ UNCHANGED cells

\* The move constructor, for a buffer without memory, and the move assignment.
\* disown() asserts that its buffer does not borrow.
Move(b, from) ==
    /\ b # from /\ ~injected(from)
    /\ Owns(b) => Overwrites
    /\ mSize[from] = 0 /\ Owns(from) => MovesReserved
    /\ mBuf' = [mBuf EXCEPT ![b] = mBuf[from]]
    /\ mSize' = [mSize EXCEPT ![b] = mSize[from]]
    /\ mRealSize' = [mRealSize EXCEPT ![b] = mRealSize[from],
                                      ![from] = Disowned(from)]
    /\ UNCHANGED cells

\* inject(): what the buffer owns is freed first.  disown() asserts that the
\* buffer does not borrow.
Borrow(b, f, elements) ==
    /\ ~injected(b)
    /\ cells' = [x \in DOMAIN Cleared(b) |-> IF x = f THEN elements ELSE cells[x]]
    /\ SetFields(b, f, Foreign[f], 0)

\* inject() of all of a foreign memory nobody else borrows, once the client
\* has put elements there.
Inject(b, f) ==
    /\ \A o \in Buffers \ {b} : mBuf[o] # f
    /\ Borrow(b, f, [i \in DOMAIN cells[f] |-> Default])

\* ~HeapBuffer(); a new buffer takes its place.
Destroy(b) ==
    /\ cells' = Cleared(b)
    /\ SetFields(b, Null, 0, 0)

Next == \E b \in Buffers :
    \/ \E n \in 0 .. MaxSize, downsize \in BOOLEAN : 
          Resize(b, n, downsize) \/ ResizeFails(b, n, downsize)
    \/ \E n \in 0 .. MaxSize : Reserve(b, n)
    \/ \E v \in Values : Push(b, v)
    \/ GrowthFails(b) 
    \/ Pop(b)
    \/ \E i \in 0 .. MaxSize - 1 : Remove(b, i)
    \/ \E data \in Datas : Set(b, data)
    \/ SetFails(b)
    \/ \E from \in Buffers : Move(b, from)
    \/ \E f \in DOMAIN Foreign : Inject(b, f)
    \/ Destroy(b)

Spec == Init /\ [][Next]_vars
-----------------------------------------------------------------------------
HeapBufferTypeOK ==
    /\ mBuf \in [Buffers -> Memories \cup DOMAIN Foreign \cup {Null}]
    /\ mSize \in [Buffers -> 0 .. MaxSize]
    /\ mRealSize \in [Buffers -> 0 .. SizeMod - 1]
    /\ DOMAIN cells \subseteq Memories \cup DOMAIN Foreign
    /\ \A m \in DOMAIN cells : \A i \in DOMAIN cells[m] : cells[m][i] \in Values \cup {Raw, Left}

(***************************************************************************)
(* Memory that is to be freed has one owner, and it is still allocated: a  *)
(* move "will mark the original buffer as injected", so that no two        *)
(* buffers free the same memory.                                           *)
(***************************************************************************)
OneOwner ==
    \A b \in Buffers : Owns(b) =>
        /\ mBuf[b] \in DOMAIN cells
        /\ \A o \in Buffers : Owns(o) /\ mBuf[o] = mBuf[b] => o = b

(***************************************************************************)
(* Every allocation belongs to a buffer that will free it: once the        *)
(* buffers are gone nothing is left in the allocator, which the main       *)
(* function of the tests checks.  And memory that was lent is never freed  *)
(* by a buffer: it "won't be delete with the object".                      *)
(***************************************************************************)
NoLeak == 
    DOMAIN cells = DOMAIN Foreign \cup {mBuf[b] : b \in {o \in Buffers : Owns(o)}}

(***************************************************************************)
(* The memory of a buffer has room for the elements it counts, and for as  *)
(* many as it says are allocated.                                          *)
(***************************************************************************)
SizeFits == HeapBufferTypeOK /\ \A b \in Buffers : 
    /\ Usable(b) /\ 0 < mSize[b] => 
          mBuf[b] \in DOMAIN cells /\ mSize[b] - 1 \in DOMAIN cells[mBuf[b]]
    /\ Owns(b) => mSize[b] <= mRealSize[b] /\ 0 .. mRealSize[b] - 1 \subseteq DOMAIN cells[mBuf[b]]

(***************************************************************************)
(* The cells a buffer counts hold elements: none is destroyed twice.  The  *)
(* others do not, but where pop() has left one or more was copied from the *)
(* client than is counted: no other is lost when the memory is freed,      *)
(* "object destructors were already called".                               *)
(***************************************************************************)
ElementsCounted == \A b \in Buffers :
    /\ Usable(b) => \A i \in 0 .. mSize[b] - 1 : cells[mBuf[b]][i] \in Values
    /\ Owns(b) => \A i \in DOMAIN cells[mBuf[b]] : 
                      mSize[b] <= i => cells[mBuf[b]][i] \in {Raw, Left}

(***************************************************************************)
(* The buffers implement Vectors: growing, shrinking, borrowing, moving    *)
(* and failing allocations neither change an element nor its place.        *)
(***************************************************************************)
contents == 
    [b \in Buffers |-> 
       IF Usable(b) THEN [j \in 1 .. mSize[b] |-> cells[mBuf[b]][j - 1]] ELSE <<>>]

Promise == INSTANCE Vectors 
             WITH Vectors <- Buffers, Lent <- {Foreign[f] : f \in DOMAIN Foreign}
ImplementsVectors == Promise!VectorsSpec
=============================================================================
