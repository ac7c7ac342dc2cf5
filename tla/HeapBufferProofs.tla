--------------------------- MODULE HeapBufferProofs ---------------------------
(***************************************************************************)
(* What growable buffers promise to clients that are careful, for any      *)
(* number of buffers, elements and allocations: each piece of memory has   *)
(* one owner and none is lost, the counted cells are the constructed ones, *)
(* and together the buffers are the sequences of Vectors.                  *)
(*                                                                         *)
(* Careful clients do none of the four things the findings are about, and  *)
(* Roomy is the assumption that no length in bytes reaches the limit of    *)
(* type Size: with either given up there are counterexamples.              *)
(*                                                                         *)
(* The second half is about the strings, which are such buffers: what they *)
(* hold, what copies and queries make of it, and that they stay within     *)
(* their allocations.                                                      *)
(***************************************************************************)
EXTENDS Strings, SequenceTheorems, FiniteSetTheorems, SumTheorems, TLAPS

Careful == ~MovesReserved /\ ~Overwrites /\ ~ReservesBorrowed /\ ~ShrinksMayFail

Roomy == (MaxSize + ChunkSize) * ElementSize < SizeMod

(***************************************************************************)
(* The inductive invariant.  A buffer that owns memory m has exactly real  *)
(* cells there, of which it counts the first n; one that borrows counts no *)
(* more than it was given.                                                 *)
(***************************************************************************)
Cell == Values \cup {Raw, Left}

BufferOK(m, n, real, c) ==
    /\ 0 < real => /\ m \in Memories /\ m \in DOMAIN c /\ n <= real
                   /\ DOMAIN c[m] = 0 .. real - 1
                   /\ \A i \in 0 .. real - 1 : 
                         IF i < n THEN c[m][i] \in Values ELSE c[m][i] \in {Raw, Left}
    /\ real = 0 /\ 0 < n => 
          /\ m # Null
          /\ m \in DOMAIN Foreign => /\ n <= Foreign[m]
                                     /\ \A i \in 0 .. n - 1 : c[m][i] \in Values

\* Borrows or owns: nobody else may have the same memory then.
Keeps(m, n, real) == 0 < real \/ (0 < n /\ m \in DOMAIN Foreign)
Holds(b) == Keeps(mBuf[b], mSize[b], mRealSize[b])

FieldsOK ==
    /\ mBuf \in [Buffers -> Memories \cup DOMAIN Foreign \cup {Null}]
    /\ mSize \in [Buffers -> 0 .. MaxSize]
    /\ mRealSize \in [Buffers -> 0 .. MaxSize + ChunkSize]

BuffersOK == \A b \in Buffers : BufferOK(mBuf[b], mSize[b], mRealSize[b], cells)

Separate == \A b, o \in Buffers : Holds(b) /\ Holds(o) /\ mBuf[b] = mBuf[o] => b = o

Owned == {mBuf[b] : b \in {o \in Buffers : 0 < mRealSize[o]}}

\* The memory without what a buffer owns, and what it gets instead.
Rest(b) == IF Owns(b) THEN DOMAIN cells \ {mBuf[b]} ELSE DOMAIN cells
Got(m, real) == IF 0 < real THEN {m} ELSE {}

LentOK(c) == \A f \in DOMAIN Foreign : 
    /\ f \in DOMAIN c /\ DOMAIN c[f] = 0 .. Foreign[f] - 1
    /\ \A i \in DOMAIN c[f] : c[f][i] \in Cell

HeapInv == 
    /\ FieldsOK /\ BuffersOK /\ Separate
    /\ DOMAIN cells = DOMAIN Foreign \cup Owned
    /\ LentOK(cells)
-----------------------------------------------------------------------------
(***************************************************************************)
(* Lengths                                                                 *)
(***************************************************************************)
LEMMA Products ==
    ASSUME NEW a \in Nat, NEW b \in Nat, a <= b, NEW k \in Nat \ {0}
    PROVE  a * k \in Nat /\ a * k <= b * k /\ a <= a * k
BY Z3

LEMMA Quotients ==
    ASSUME NEW a \in Nat, NEW k \in Nat \ {0}
    PROVE  (a * k) \div k = a
BY Z3

LEMMA Remainders ==
    ASSUME NEW a \in Nat, NEW k \in Nat \ {0}, a < k
    PROVE  a % k = a
OBVIOUS

\* The next multiple of the chunk size does not wrap around.
LEMMA Chunks ==
    ASSUME Roomy, NEW n \in 0 .. MaxSize
    PROVE  /\ closestChunkSize(n) \in 0 .. MaxSize + ChunkSize
           /\ n <= closestChunkSize(n)
           /\ n = 0 => closestChunkSize(n) = 0
           /\ n % ChunkSize # 0 => n < closestChunkSize(n)
<1>1. ChunkSize \in Nat \ {0} /\ ElementSize \in Nat \ {0} /\ SizeMod \in Nat \ {0} /\ MaxSize \in Nat
  BY HeapBufferAssumption
<1>2. MaxSize + ChunkSize < SizeMod
  BY <1>1, Products DEF Roomy
<1>3. CASE n % ChunkSize = 0
  BY <1>1, <1>3 DEF closestChunkSize
<1>4. CASE n % ChunkSize # 0
  <2> DEFINE q == n \div ChunkSize
             up == (q + 1) * ChunkSize
  <2>1. q \in Nat /\ n % ChunkSize \in 0 .. ChunkSize - 1 /\ n = (q * ChunkSize) + (n % ChunkSize)
    BY <1>1, Z3
  <2>2. up = q * ChunkSize + ChunkSize
    BY <1>1, <2>1, Z3
  <2>3. q * ChunkSize \in Nat
    BY <1>1, <2>1, Products
  <2> HIDE DEF up
  <2>4. up \in Nat /\ n < up /\ up <= n + ChunkSize
    BY <1>1, <2>1, <2>2, <2>3
  <2>5. up < SizeMod
    BY <1>1, <1>2, <2>4
  <2>6. closestChunkSize(n) = up
    BY <1>1, <1>4, <2>4, <2>5, Remainders DEF closestChunkSize, up
  <2>7. n # 0
    BY <1>1, <1>4
  <2> QED BY <1>1, <2>4, <2>6, <2>7
<1> QED BY <1>3, <1>4

\* An allocation has room for what it was asked for.
LEMMA Rooms ==
    ASSUME Roomy, NEW chunk \in 0 .. MaxSize + ChunkSize
    PROVE  RoomFor(chunk) = chunk
<1>1. ElementSize \in Nat \ {0} /\ SizeMod \in Nat \ {0} /\ MaxSize + ChunkSize \in Nat /\ chunk \in Nat
  BY HeapBufferAssumption
<1>2. /\ chunk * ElementSize \in Nat
      /\ chunk * ElementSize <= (MaxSize + ChunkSize) * ElementSize
  BY <1>1, Products
<1>3. (MaxSize + ChunkSize) * ElementSize \in Nat
  BY <1>1, Products
<1>4. chunk * ElementSize < SizeMod
  BY <1>1, <1>2, <1>3 DEF Roomy
<1>5. (chunk * ElementSize) % SizeMod = chunk * ElementSize
  BY <1>1, <1>2, <1>4, Remainders
<1> QED BY <1>1, <1>5, Quotients DEF RoomFor
-----------------------------------------------------------------------------
(***************************************************************************)
(* Memory                                                                  *)
(***************************************************************************)
\* d is c but for the cells first .. end - 1 of memory m.
Writes(d, c, m, first, end, v) ==
    /\ DOMAIN d = DOMAIN c
    /\ \A x \in DOMAIN c \ {m} : d[x] = c[x]
    /\ m \in DOMAIN c => 
          /\ DOMAIN d[m] = DOMAIN c[m]
          /\ \A i \in DOMAIN c[m] : i \in Int => 
                d[m][i] = IF first <= i /\ i < end THEN v ELSE c[m][i]

LEMMA WrittenCells ==
    ASSUME NEW c, NEW m, NEW first \in Int, NEW end \in Int, NEW v
    PROVE  Writes(Written(c, m, first, end, v), c, m, first, end, v)
<1>1. CASE end <= first
  BY <1>1 DEF Written, Writes
<1>2. CASE ~(end <= first)
  BY <1>2 DEF Written, Writes
<1> QED BY <1>1, <1>2

\* Memory that is offered is new, or there is none for no elements.
LEMMA Offers ==
    ASSUME HeapInv, NEW chunk \in Nat, NEW m \in Offered(chunk)
    PROVE  /\ chunk = 0 => m = Null
           /\ 0 < chunk => /\ m \in Memories \ DOMAIN cells /\ m # Null /\ m \notin DOMAIN Foreign
                           /\ \A o \in Buffers : Holds(o) => mBuf[o] # m
<1>1. CASE chunk = 0
  BY <1>1 DEF Offered
<1>2. CASE 0 < chunk
  <2>1. m \in Memories \ DOMAIN cells /\ m # Null /\ m \notin DOMAIN Foreign
    BY <1>2, HeapBufferAssumption DEF Offered
  <2>2. ASSUME NEW o \in Buffers, Holds(o) PROVE mBuf[o] \in DOMAIN cells
    BY <2>2 DEF HeapInv, Holds, Keeps, Owned
  <2> QED BY <1>2, <2>1, <2>2
<1> QED BY <1>1, <1>2

\* The cells of an allocation that buffer b gets when the memory is as in c.
Settles(d, b, chunk, m, c) ==
    /\ DOMAIN d = Rest(b) \cup Got(m, chunk)
    /\ \A x \in DOMAIN d : x # m => d[x] = c[x]
    /\ 0 < chunk =>
          /\ DOMAIN d[m] = 0 .. chunk - 1
          /\ \A i \in 0 .. chunk - 1 : 
                d[m][i] = IF mBuf[b] # Null /\ i < mSize[b] THEN c[mBuf[b]][i] ELSE Raw

LEMMA MovedMemory ==
    ASSUME Roomy, NEW b \in Buffers, mSize[b] \in Nat, NEW chunk \in 0 .. MaxSize + ChunkSize, 
           NEW m \in Offered(chunk), NEW c, DOMAIN c = DOMAIN cells
    PROVE  Settles(Moved(b, chunk, m, c), b, chunk, m, c)
<1> DEFINE room == [i \in 0 .. RoomFor(chunk) - 1 |->
                      IF mBuf[b] # Null /\ i < Lesser(mSize[b], chunk) THEN c[mBuf[b]][i] ELSE Raw]
           rest == IF Owns(b) THEN DOMAIN c \ {mBuf[b]} ELSE DOMAIN c
           d == Moved(b, chunk, m, c)
<1>1. d = [x \in rest \cup ({m} \ {Null}) |-> IF x = m THEN room ELSE c[x]]
  BY DEF Moved
<1>2. chunk \in Nat /\ RoomFor(chunk) = chunk /\ mSize[b] \in Nat
  BY Rooms, HeapBufferAssumption
<1>3. chunk = 0 => m = Null
  BY <1>2 DEF Offered
<1>4. 0 < chunk => m # Null
  BY <1>2, HeapBufferAssumption DEF Offered
<1>5. DOMAIN d = rest \cup (IF 0 < chunk THEN {m} ELSE {})
  BY <1>1, <1>2, <1>3, <1>4
<1>6. \A x \in DOMAIN d : x # m => d[x] = c[x]
  BY <1>1
<1>7. 0 < chunk => d[m] = room
  BY <1>1, <1>4
<1>8. /\ DOMAIN room = 0 .. chunk - 1
      /\ \A i \in 0 .. chunk - 1 : 
            room[i] = IF mBuf[b] # Null /\ i < mSize[b] THEN c[mBuf[b]][i] ELSE Raw
  BY <1>2 DEF Lesser
<1> HIDE DEF room, d
<1>9. Settles(d, b, chunk, m, c)
  BY <1>5, <1>6, <1>7, <1>8 DEF Settles, Rest, Got
<1> QED BY <1>9 DEF d

LEMMA MovedCells ==
    ASSUME HeapInv, Roomy, NEW b \in Buffers, NEW chunk \in 0 .. MaxSize + ChunkSize, 
           NEW m \in Offered(chunk), NEW c, DOMAIN c = DOMAIN cells
    PROVE  Settles(Moved(b, chunk, m, c), b, chunk, m, c)
<1>1. mSize[b] \in Nat
  BY HeapBufferAssumption DEF HeapInv, FieldsOK
<1> QED BY <1>1, MovedMemory

\* What a resize() destroys of memory that its buffer owns all of.
Shaped(b) ==
    /\ mSize[b] \in Nat /\ mRealSize[b] \in Nat
    /\ Owns(b) <=> 0 < mRealSize[b]
    /\ injected(b) <=> mRealSize[b] = 0 /\ 0 < mSize[b]
    /\ 0 < mRealSize[b] => /\ mBuf[b] \in DOMAIN cells
                           /\ DOMAIN cells[mBuf[b]] = 0 .. mRealSize[b] - 1

LEMMA DestroyedMemory ==
    ASSUME NEW b \in Buffers, NEW n \in Nat, Shaped(b)
    PROVE  /\ DOMAIN Destroyed(b, n) = DOMAIN cells
           /\ \A x \in DOMAIN cells : x # mBuf[b] \/ ~Owns(b) => Destroyed(b, n)[x] = cells[x]
           /\ mSize[b] <= n => Destroyed(b, n) = cells
           /\ Owns(b) => 
                 /\ DOMAIN Destroyed(b, n)[mBuf[b]] = DOMAIN cells[mBuf[b]]
                 /\ \A i \in DOMAIN cells[mBuf[b]] : 
                       Destroyed(b, n)[mBuf[b]][i] = 
                          IF n <= i /\ i < mSize[b] THEN Raw ELSE cells[mBuf[b]][i]
<1> DEFINE d == Destroyed(b, n)
<1>1. /\ mSize[b] \in Nat /\ mRealSize[b] \in Nat
      /\ Owns(b) <=> 0 < mRealSize[b]
      /\ injected(b) <=> mRealSize[b] = 0 /\ 0 < mSize[b]
      /\ 0 < mRealSize[b] => /\ mBuf[b] \in DOMAIN cells
                             /\ DOMAIN cells[mBuf[b]] = 0 .. mRealSize[b] - 1
  BY DEF Shaped
<1>2. CASE Owns(b)
  <2>1. /\ mBuf[b] # Null /\ ~injected(b) /\ mBuf[b] \in DOMAIN cells
        /\ DOMAIN cells[mBuf[b]] = 0 .. mRealSize[b] - 1
    BY <1>1, <1>2 DEF Owns
  <2>2. d = Written(cells, mBuf[b], n, mSize[b], Raw)
    BY <2>1 DEF Destroyed
  <2> HIDE DEF d
  <2>3. /\ DOMAIN d = DOMAIN cells
        /\ \A x \in DOMAIN cells \ {mBuf[b]} : d[x] = cells[x]
        /\ DOMAIN d[mBuf[b]] = DOMAIN cells[mBuf[b]]
        /\ \A i \in DOMAIN cells[mBuf[b]] : i \in Int =>
              d[mBuf[b]][i] = IF n <= i /\ i < mSize[b] THEN Raw ELSE cells[mBuf[b]][i]
    <3>1. n \in Int /\ mSize[b] \in Int
      BY <1>1
    <3>2. Writes(d, cells, mBuf[b], n, mSize[b], Raw)
      BY <2>2, <3>1, WrittenCells
    <3> QED BY <2>1, <3>2 DEF Writes
  <2>4. mSize[b] <= n => d = cells
    BY <2>2 DEF Written
  <2>5. \A i \in DOMAIN cells[mBuf[b]] : i \in Int
    BY <1>1, <2>1
  <2> QED BY <1>2, <2>3, <2>4, <2>5 DEF d
<1>3. CASE ~Owns(b)
  <2>1. d = cells
    <3>1. CASE mBuf[b] = Null \/ injected(b)
      BY <3>1 DEF Destroyed
    <3>2. CASE ~(mBuf[b] = Null \/ injected(b))
      <4>1. mSize[b] <= n
        BY <1>1, <1>3, <3>2
      <4> QED BY <4>1 DEF Destroyed, Written
    <3> QED BY <3>1, <3>2
  <2> QED BY <1>3, <2>1
<1> QED BY <1>2, <1>3
-----------------------------------------------------------------------------
(***************************************************************************)
(* What the operations have in common: one buffer changes its fields, and  *)
(* no memory that another one counts on.                                   *)
(***************************************************************************)
LEMMA Fields ==
    ASSUME HeapInv, NEW b \in Buffers
    PROVE  /\ mBuf[b] \in Memories \cup DOMAIN Foreign \cup {Null}
           /\ mSize[b] \in 0 .. MaxSize /\ mSize[b] \in Nat
           /\ mRealSize[b] \in 0 .. MaxSize + ChunkSize /\ mRealSize[b] \in Nat
           /\ MaxSize \in Nat /\ ChunkSize \in Nat \ {0}
           /\ BufferOK(mBuf[b], mSize[b], mRealSize[b], cells)
           /\ Owns(b) <=> 0 < mRealSize[b]
           /\ Owns(b) => mBuf[b] \in Memories /\ mBuf[b] \notin DOMAIN Foreign /\ Holds(b)
           /\ injected(b) <=> mRealSize[b] = 0 /\ 0 < mSize[b]
<1>1. MaxSize \in Nat /\ ChunkSize \in Nat \ {0}
  BY HeapBufferAssumption
<1>2. /\ mBuf[b] \in Memories \cup DOMAIN Foreign \cup {Null}
      /\ mSize[b] \in 0 .. MaxSize /\ mRealSize[b] \in 0 .. MaxSize + ChunkSize
      /\ BufferOK(mBuf[b], mSize[b], mRealSize[b], cells)
  BY DEF HeapInv, FieldsOK, BuffersOK
<1>3. mSize[b] \in Nat /\ mRealSize[b] \in Nat
  BY <1>1, <1>2
<1>4. 0 < mRealSize[b] => /\ mBuf[b] \in Memories /\ mBuf[b] \notin DOMAIN Foreign 
                          /\ mBuf[b] # Null /\ Holds(b)
  BY <1>2, HeapBufferAssumption DEF BufferOK, Holds, Keeps
<1>5. mRealSize[b] = 0 /\ 0 < mSize[b] => mBuf[b] # Null
  BY <1>2 DEF BufferOK
<1> QED BY <1>1, <1>2, <1>3, <1>4, <1>5 DEF Owns, injected

LEMMA FieldsSet ==
    ASSUME HeapInv, NEW b \in Buffers, NEW m, NEW n, NEW real, SetFields(b, m, n, real)
    PROVE  /\ mBuf'[b] = m /\ mSize'[b] = n /\ mRealSize'[b] = real
           /\ \A o \in Buffers \ {b} : /\ mBuf'[o] = mBuf[o] /\ mSize'[o] = mSize[o]
                                       /\ mRealSize'[o] = mRealSize[o]
BY DEF SetFields, HeapInv, FieldsOK

\* The elements of a buffer as contents has them.
Content(m, n, c) == [j \in 1 .. n |-> c[m][j - 1]]

LEMMA OneChanges ==
    ASSUME HeapInv, NEW b \in Buffers, 
           NEW m \in Memories \cup DOMAIN Foreign \cup {Null},
           NEW n \in 0 .. MaxSize, NEW real \in 0 .. MaxSize + ChunkSize,
           SetFields(b, m, n, real), BufferOK(m, n, real, cells'),
           Keeps(m, n, real) => \A o \in Buffers \ {b} : Holds(o) => mBuf[o] # m,
           DOMAIN cells' = Rest(b) \cup Got(m, real),
           \A o \in Buffers \ {b} : Holds(o) => cells'[mBuf[o]] = cells[mBuf[o]],
           LentOK(cells')
    PROVE  /\ HeapInv'
           /\ (real = 0 /\ 0 < n => m \in DOMAIN Foreign)
              => contents' = [contents EXCEPT ![b] = Content(m, n, cells')]
<1>1. /\ mBuf'[b] = m /\ mSize'[b] = n /\ mRealSize'[b] = real
      /\ \A o \in Buffers \ {b} : /\ mBuf'[o] = mBuf[o] /\ mSize'[o] = mSize[o]
                                  /\ mRealSize'[o] = mRealSize[o]
  BY FieldsSet
<1>2. FieldsOK'
  BY DEF SetFields, HeapInv, FieldsOK
<1>3. Holds(b)' = Keeps(m, n, real) /\ \A o \in Buffers \ {b} : Holds(o)' = Holds(o)
  BY <1>1 DEF Holds
<1>4. Separate'
  <2> SUFFICES ASSUME NEW x \in Buffers, NEW y \in Buffers, Holds(x)', Holds(y)', mBuf'[x] = mBuf'[y]
               PROVE  x = y
    BY DEF Separate
  <2>1. CASE x # b /\ y # b
    BY <1>1, <1>3, <2>1 DEF HeapInv, Separate
  <2>2. CASE x = b /\ y # b
    BY <1>1, <1>3, <2>2
  <2>3. CASE x # b /\ y = b
    BY <1>1, <1>3, <2>3
  <2> QED BY <2>1, <2>2, <2>3
<1>5. ASSUME NEW o \in Buffers \ {b} PROVE BufferOK(mBuf[o], mSize[o], mRealSize[o], cells')
  <2>1. BufferOK(mBuf[o], mSize[o], mRealSize[o], cells)
    BY Fields
  <2>2. Holds(o) => cells'[mBuf[o]] = cells[mBuf[o]]
    OBVIOUS
  <2>3. ASSUME 0 < mRealSize[o] PROVE mBuf[o] \in DOMAIN cells'
    <3>1. mBuf[o] \in DOMAIN cells /\ Holds(o)
      BY <2>1, <2>3 DEF BufferOK, Holds, Keeps
    <3>2. Owns(b) => mBuf[o] # mBuf[b]
      BY <3>1, Fields DEF HeapInv, Separate
    <3> QED BY <3>1, <3>2 DEF Rest, Got
  <2> QED BY <2>1, <2>2, <2>3 DEF BufferOK, Holds, Keeps
<1>6. BuffersOK'
  BY <1>1, <1>5 DEF BuffersOK
<1>7. DOMAIN cells' = DOMAIN Foreign \cup Owned'
  <2>1. \A x \in Owned' : x \in DOMAIN cells'
    BY <1>6 DEF Owned, BuffersOK, BufferOK
  <2>2. \A x \in DOMAIN Foreign : x \in DOMAIN cells'
    BY DEF LentOK
  <2>3. ASSUME NEW x \in DOMAIN cells' PROVE x \in DOMAIN Foreign \cup Owned'
    <3>1. CASE 0 < real /\ x = m
      BY <1>1, <3>1 DEF Owned
    <3>2. CASE ~(0 < real /\ x = m)
      <4>1. x \in DOMAIN Foreign \cup Owned /\ (Owns(b) => x # mBuf[b])
        BY <3>2 DEF HeapInv, Rest, Got
      <4>2. CASE x \in Owned
        <5>1. PICK o \in Buffers : 0 < mRealSize[o] /\ x = mBuf[o]
          BY <4>2 DEF Owned
        <5>2. o # b
          BY <4>1, <5>1, Fields
        <5> QED BY <1>1, <5>1, <5>2 DEF Owned
      <4> QED BY <4>1, <4>2
    <3> QED BY <3>1, <3>2
  <2> QED BY <2>1, <2>2, <2>3
<1>8. HeapInv'
  BY <1>2, <1>4, <1>6, <1>7 DEF HeapInv
<1>9. ASSUME real = 0 /\ 0 < n => m \in DOMAIN Foreign
      PROVE  contents' = [contents EXCEPT ![b] = Content(m, n, cells')]
  <2> DEFINE view(o) == IF Usable(o) THEN [j \in 1 .. mSize[o] |-> cells[mBuf[o]][j - 1]] ELSE <<>>
  <2>1. contents = [o \in Buffers |-> view(o)] /\ contents' = [o \in Buffers |-> view(o)']
    BY DEF contents
  <2>2. view(b)' = Content(m, n, cells')
    BY <1>1, <1>9 DEF Usable, injected, Content
  <2>3. ASSUME NEW o \in Buffers \ {b} PROVE view(o)' = view(o)
    <3>1. Usable(o)' = Usable(o) /\ mBuf'[o] = mBuf[o] /\ mSize'[o] = mSize[o]
      BY <1>1 DEF Usable, injected
    <3>2. CASE Usable(o) /\ 0 < mSize[o]
      <4>1. Holds(o)
        BY <3>2, Fields DEF Usable, Holds, Keeps
      <4> QED BY <3>1, <4>1
    <3>3. CASE ~Usable(o)
      BY <3>1, <3>3
    <3>4. CASE ~(0 < mSize[o])
      <4>1. 1 .. mSize[o] = {}
        BY <3>4, Fields
      <4> QED BY <3>1, <4>1
    <3> QED BY <3>2, <3>3, <3>4
  <2> HIDE DEF view
  <2> QED BY <2>1, <2>2, <2>3
<1> QED BY <1>8, <1>9

LEMMA Contents ==
    ASSUME NEW m, NEW n \in Nat, NEW c, \A i \in 0 .. n - 1 : c[m][i] \in Values
    PROVE  /\ Content(m, n, c) \in Seq(Values) /\ Len(Content(m, n, c)) = n
           /\ n = 0 => Content(m, n, c) = <<>>
<1>1. \A j \in 1 .. n : j - 1 \in 0 .. n - 1
  OBVIOUS
<1>2. Content(m, n, c) \in [1 .. n -> Values]
  BY <1>1 DEF Content
<1>3. Content(m, n, c) \in Seq(Values)
  BY <1>2, SeqDef
<1>4. Len(Content(m, n, c)) = n
  BY <1>2, <1>3, LenProperties
<1> QED BY <1>3, <1>4, EmptySeq

\* The sequence a buffer stands for.
LEMMA Contains ==
    ASSUME HeapInv, NEW b \in Buffers
    PROVE  /\ contents = [o \in Buffers |-> contents[o]] /\ DOMAIN contents = Buffers
           /\ ~Usable(b) => contents[b] = <<>>
           /\ Usable(b) => 
                 /\ contents[b] = Content(mBuf[b], mSize[b], cells)
                 /\ contents[b] \in Seq(Values) /\ Len(contents[b]) = mSize[b]
                 /\ \A j \in 1 .. mSize[b] : contents[b][j] = cells[mBuf[b]][j - 1]
                 /\ \A i \in 0 .. mSize[b] - 1 : cells[mBuf[b]][i] \in Values
<1>1. contents = [o \in Buffers |-> contents[o]] /\ DOMAIN contents = Buffers
  BY DEF contents
<1>2. ~Usable(b) => contents[b] = <<>>
  BY DEF contents
<1>3. ASSUME Usable(b)
      PROVE  /\ contents[b] = Content(mBuf[b], mSize[b], cells)
             /\ contents[b] \in Seq(Values) /\ Len(contents[b]) = mSize[b]
             /\ \A j \in 1 .. mSize[b] : contents[b][j] = cells[mBuf[b]][j - 1]
             /\ \A i \in 0 .. mSize[b] - 1 : cells[mBuf[b]][i] \in Values
  <2>1. contents[b] = Content(mBuf[b], mSize[b], cells)
    BY <1>3 DEF contents, Content
  <2>2. \A i \in 0 .. mSize[b] - 1 : cells[mBuf[b]][i] \in Values
    <3>1. CASE 0 < mRealSize[b]
      BY <3>1, Fields DEF BufferOK
    <3>2. CASE ~(0 < mRealSize[b])
      BY <1>3, <3>2, Fields DEF BufferOK, Usable
    <3> QED BY <3>1, <3>2
  <2>3. contents[b] \in Seq(Values) /\ Len(contents[b]) = mSize[b]
    BY <2>1, <2>2, Fields, Contents
  <2>4. \A j \in 1 .. mSize[b] : contents[b][j] = cells[mBuf[b]][j - 1]
    BY <2>1 DEF Content
  <2> QED BY <2>1, <2>2, <2>3, <2>4
<1> QED BY <1>1, <1>2, <1>3

\* The buffer keeps its memory.
LEMMA InPlace ==
    ASSUME HeapInv, NEW b \in Buffers, Holds(b), NEW n \in 0 .. MaxSize,
           SetFields(b, mBuf[b], n, mRealSize[b]),
           n <= mSize[b] \/ n <= mRealSize[b],
           DOMAIN cells' = DOMAIN cells,
           \A x \in DOMAIN cells \ {mBuf[b]} : cells'[x] = cells[x],
           DOMAIN cells'[mBuf[b]] = DOMAIN cells[mBuf[b]],
           \A i \in DOMAIN cells[mBuf[b]] : 
              IF i < n THEN cells'[mBuf[b]][i] \in Values 
              ELSE cells'[mBuf[b]][i] \in IF Owns(b) THEN {Raw, Left} ELSE Cell
    PROVE  HeapInv' /\ contents' = [contents EXCEPT ![b] = Content(mBuf[b], n, cells')]
<1>1. BufferOK(mBuf[b], mSize[b], mRealSize[b], cells) /\ (Owns(b) <=> 0 < mRealSize[b])
  BY Fields
<1>2. mSize[b] \in Nat /\ mRealSize[b] \in Nat /\ n \in Nat
  BY Fields
<1>3. mBuf[b] \in DOMAIN cells
  BY <1>1 DEF Holds, Keeps, BufferOK, HeapInv
<1>4. ~Owns(b) => /\ mRealSize[b] = 0 /\ 0 < mSize[b] /\ mBuf[b] \in DOMAIN Foreign /\ n <= mSize[b]
                  /\ n <= Foreign[mBuf[b]] /\ Foreign[mBuf[b]] \in Nat
                  /\ DOMAIN cells[mBuf[b]] = 0 .. Foreign[mBuf[b]] - 1
  BY <1>1, <1>2, HeapBufferAssumption DEF Holds, Keeps, BufferOK, HeapInv, LentOK
<1>5. BufferOK(mBuf[b], n, mRealSize[b], cells')
  <2>1. CASE Owns(b)
    BY <1>1, <1>2, <1>3, <2>1 DEF BufferOK
  <2>2. CASE ~Owns(b)
    BY <1>1, <1>2, <1>3, <1>4, <2>2, HeapBufferAssumption DEF BufferOK
  <2> QED BY <2>1, <2>2
<1>6. \A o \in Buffers \ {b} : Holds(o) => mBuf[o] # mBuf[b]
  BY DEF HeapInv, Separate
<1>7. \A o \in Buffers \ {b} : Holds(o) => mBuf[o] \in DOMAIN cells
  BY Fields DEF Holds, Keeps, BufferOK, HeapInv
<1>8. \A o \in Buffers \ {b} : Holds(o) => cells'[mBuf[o]] = cells[mBuf[o]]
  BY <1>6, <1>7
<1>9. LentOK(cells')
  <2> SUFFICES ASSUME NEW f \in DOMAIN Foreign
               PROVE  /\ f \in DOMAIN cells' /\ DOMAIN cells'[f] = 0 .. Foreign[f] - 1
                      /\ \A i \in DOMAIN cells'[f] : cells'[f][i] \in Cell
    BY DEF LentOK
  <2>1. /\ f \in DOMAIN cells /\ DOMAIN cells[f] = 0 .. Foreign[f] - 1
        /\ \A i \in DOMAIN cells[f] : cells[f][i] \in Cell
    BY DEF HeapInv, LentOK
  <2>2. CASE f # mBuf[b]
    BY <2>1, <2>2
  <2>3. CASE f = mBuf[b]
    BY <2>1, <2>3 DEF Cell
  <2> QED BY <2>2, <2>3
<1>10. DOMAIN cells' = Rest(b) \cup Got(mBuf[b], mRealSize[b])
  BY <1>1, <1>3 DEF Rest, Got
<1>11. mRealSize[b] = 0 /\ 0 < n => mBuf[b] \in DOMAIN Foreign
  BY <1>1, <1>4
<1> QED BY <1>5, <1>6, <1>8, <1>9, <1>10, <1>11, Fields, OneChanges

\* It gets new memory.
LEMMA Anew ==
    ASSUME HeapInv, NEW b \in Buffers, NEW n \in 0 .. MaxSize, 
           NEW real \in 0 .. MaxSize + ChunkSize, 0 < real, n <= real,
           NEW m \in Offered(real), SetFields(b, m, n, real),
           DOMAIN cells' = Rest(b) \cup {m},
           \A x \in DOMAIN cells' : x # m => cells'[x] = cells[x],
           DOMAIN cells'[m] = 0 .. real - 1,
           \A i \in 0 .. real - 1 : 
              IF i < n THEN cells'[m][i] \in Values ELSE cells'[m][i] \in {Raw, Left}
    PROVE  HeapInv' /\ contents' = [contents EXCEPT ![b] = Content(m, n, cells')]
<1>1. /\ real \in Nat /\ m \in Memories /\ m \notin DOMAIN Foreign
      /\ \A o \in Buffers : Holds(o) => mBuf[o] # m
  BY Offers, HeapBufferAssumption
<1>2. BufferOK(m, n, real, cells')
  BY <1>1 DEF BufferOK
<1>3. \A o \in Buffers \ {b} : Holds(o) => mBuf[o] \in DOMAIN cells
  BY Fields DEF Holds, Keeps, BufferOK, HeapInv
<1>4. \A o \in Buffers \ {b} : Holds(o) => (Owns(b) => mBuf[o] # mBuf[b])
  BY Fields DEF HeapInv, Separate
<1>5. \A o \in Buffers \ {b} : Holds(o) => cells'[mBuf[o]] = cells[mBuf[o]]
  BY <1>1, <1>3, <1>4 DEF Rest, Got
<1>6. LentOK(cells')
  <2> SUFFICES ASSUME NEW f \in DOMAIN Foreign PROVE f \in DOMAIN cells' /\ cells'[f] = cells[f]
    BY DEF LentOK, HeapInv
  <2>1. f \in DOMAIN cells /\ f # m /\ (Owns(b) => f # mBuf[b])
    BY <1>1, Fields DEF HeapInv
  <2> QED BY <2>1 DEF Rest, Got
<1> QED BY <1>1, <1>2, <1>5, <1>6, OneChanges DEF Rest, Got

\* It has none of its own any more.
LEMMA Emptied ==
    ASSUME HeapInv, NEW b \in Buffers, NEW m \in Memories \cup DOMAIN Foreign \cup {Null},
           SetFields(b, m, 0, 0),
           DOMAIN cells' = Rest(b),
           \A x \in DOMAIN cells' : cells'[x] = cells[x]
    PROVE  HeapInv' /\ contents' = [contents EXCEPT ![b] = <<>>]
<1>1. BufferOK(m, 0, 0, cells') /\ ~Keeps(m, 0, 0)
  BY DEF BufferOK, Keeps
<1>2. \A o \in Buffers \ {b} : Holds(o) => mBuf[o] \in DOMAIN cells
  BY Fields DEF Holds, Keeps, BufferOK, HeapInv
<1>3. \A o \in Buffers \ {b} : Holds(o) => (Owns(b) => mBuf[o] # mBuf[b])
  BY Fields DEF HeapInv, Separate
<1>4. \A o \in Buffers \ {b} : Holds(o) => cells'[mBuf[o]] = cells[mBuf[o]]
  BY <1>2, <1>3 DEF Rest, Got
<1>5. LentOK(cells')
  <2> SUFFICES ASSUME NEW f \in DOMAIN Foreign PROVE f \in DOMAIN cells' /\ cells'[f] = cells[f]
    BY DEF LentOK, HeapInv
  <2>1. f \in DOMAIN cells /\ (Owns(b) => f # mBuf[b])
    BY Fields DEF HeapInv
  <2> QED BY <2>1 DEF Rest, Got
<1>6. 0 \in 0 .. MaxSize /\ 0 \in 0 .. MaxSize + ChunkSize
  BY HeapBufferAssumption
<1>7. HeapInv' /\ contents' = [contents EXCEPT ![b] = Content(m, 0, cells')]
  BY <1>1, <1>4, <1>5, <1>6, OneChanges DEF Rest, Got
<1>8. Content(m, 0, cells') = <<>>
  <2>1. 0 \in Nat /\ 0 .. 0 - 1 = {}
    OBVIOUS
  <2> QED BY <2>1, Contents
<1> QED BY <1>7, <1>8
-----------------------------------------------------------------------------
(***************************************************************************)
(* Every operation keeps the invariant, and is one of Vectors or nothing.  *)
(***************************************************************************)
Kept == HeapInv' /\ (Promise!VectorsNext \/ UNCHANGED contents)

\* The new sequence of one buffer.
LEMMA NewContents ==
    ASSUME HeapInv, NEW b \in Buffers, NEW s, contents' = [contents EXCEPT ![b] = s]
    PROVE  /\ s = <<>> => Promise!Empty(b)
           /\ s = contents[b] => UNCHANGED contents
           /\ contents'[b] = s /\ \A o \in Buffers \ {b} : contents'[o] = contents[o]
<1>1. contents = [o \in Buffers |-> contents[o]] /\ DOMAIN contents = Buffers
  BY Contains
<1>2. contents' = [o \in Buffers |-> IF o = b THEN s ELSE contents[o]]
  BY <1>1
<1> QED BY <1>1, <1>2 DEF Promise!Empty

LEMMA DestroyKeeps ==
    ASSUME HeapInv, NEW b \in Buffers, Destroy(b)
    PROVE  Kept
<1>1. SetFields(b, Null, 0, 0) /\ cells' = Cleared(b)
  BY DEF Destroy
<1>2. HeapInv' /\ contents' = [contents EXCEPT ![b] = <<>>]
  BY <1>1, Emptied DEF Cleared, Rest, Got
<1> QED BY <1>2, NewContents DEF Kept, Promise!VectorsNext

LEMMA SetFailsKeeps ==
    ASSUME HeapInv, NEW b \in Buffers, SetFails(b)
    PROVE  Kept
<1> DEFINE m == IF Owns(b) THEN Null ELSE mBuf[b]
<1>1. SetFields(b, m, 0, 0) /\ cells' = Cleared(b) /\ m \in Memories \cup DOMAIN Foreign \cup {Null}
  BY Fields DEF SetFails
<1> HIDE DEF m
<1>2. HeapInv' /\ contents' = [contents EXCEPT ![b] = <<>>]
  BY <1>1, Emptied DEF Cleared, Rest, Got
<1> QED BY <1>2, NewContents DEF Kept, Promise!VectorsNext

LEMMA SetKeeps ==
    ASSUME HeapInv, Roomy, NEW b \in Buffers, NEW data \in Datas, Set(b, data)
    PROVE  Kept
<1> DEFINE n == Len(data)
           chunk == closestChunkSize(n)
           cleared == Cleared(b)
<1>1. data \in Seq(Values) /\ n \in 0 .. MaxSize /\ n \in Nat
  BY HeapBufferAssumption, LenProperties
<1>2. CASE n = 0
  <2>1. SetFails(b)
    <3>1. SetFields(b, IF Owns(b) THEN Null ELSE mBuf[b], 0, 0) /\ cells' = cleared
      BY <1>2 DEF Set
    <3> QED BY <3>1 DEF SetFails
  <2> QED BY <2>1, SetFailsKeeps
<1>3. CASE 0 < n
  <2>1. PICK m \in Offered(chunk) :
          /\ cells' = [x \in DOMAIN cleared \cup {m} |->
                         IF x = m THEN [i \in 0 .. RoomFor(chunk) - 1 |->
                                          IF i < n THEN data[i + 1] ELSE Raw]
                         ELSE cleared[x]]
          /\ SetFields(b, m, n, chunk)
    <3>1. ~(n = 0)
      BY <1>1, <1>3
    <3> QED BY <3>1 DEF Set
  <2>2. chunk \in 0 .. MaxSize + ChunkSize /\ n <= chunk /\ RoomFor(chunk) = chunk
    BY <1>1, Chunks, Rooms
  <2>3. 0 < chunk /\ chunk \in Nat
    BY <1>1, <1>3, <2>2, HeapBufferAssumption
  <2>4. /\ DOMAIN cleared = Rest(b)
        /\ \A x \in DOMAIN cleared : cleared[x] = cells[x]
    BY DEF Cleared, Rest, Got
  <2> HIDE DEF cleared, chunk
  <2>5. /\ DOMAIN cells' = Rest(b) \cup {m}
        /\ \A x \in DOMAIN cells' : x # m => cells'[x] = cells[x]
    BY <2>1, <2>4
  <2>6. cells'[m] = [i \in 0 .. chunk - 1 |-> IF i < n THEN data[i + 1] ELSE Raw]
    BY <2>1, <2>2
  <2>7. \A i \in 0 .. n - 1 : data[i + 1] \in Values
    BY <1>1, LenProperties
  <2>8. \A i \in 0 .. chunk - 1 : IF i < n THEN cells'[m][i] \in Values ELSE cells'[m][i] \in {Raw, Left}
    BY <1>1, <2>3, <2>6, <2>7
  <2>9. DOMAIN cells'[m] = 0 .. chunk - 1
    BY <2>6
  <2>10. SetFields(b, m, n, chunk)
    BY <2>1
  <2>11. HeapInv' /\ contents' = [contents EXCEPT ![b] = Content(m, n, cells')]
    BY <1>1, <2>2, <2>3, <2>5, <2>8, <2>9, <2>10, Anew
  <2>12. Content(m, n, cells') = data
    <3>1. \A j \in 1 .. n : cells'[m][j - 1] = data[j]
      BY <1>1, <2>2, <2>3, <2>6
    <3>2. Content(m, n, cells') = [j \in 1 .. n |-> data[j]]
      BY <3>1 DEF Content
    <3>3. data \in [1 .. n -> Values]
      BY <1>1, LenProperties
    <3> QED BY <3>2, <3>3
  <2>13. Promise!Assign(b, data)
    BY <2>11, <2>12 DEF Promise!Assign
  <2> QED BY <2>11, <2>13 DEF Kept, Promise!VectorsNext
<1> QED BY <1>1, <1>2, <1>3

\* A client that reads cell by cell sees a sequence s.
LEMMA ContentIs ==
    ASSUME NEW m, NEW c, NEW s \in Seq(Values), NEW n, n = Len(s), 
           \A j \in 1 .. n : c[m][j - 1] = s[j]
    PROVE  Content(m, n, c) = s
<1>1. s \in [1 .. n -> Values]
  BY LenProperties
<1>2. Content(m, n, c) = [j \in 1 .. n |-> s[j]]
  BY DEF Content
<1> QED BY <1>1, <1>2

LEMMA ReserveKeeps ==
    ASSUME HeapInv, Careful, Roomy, NEW b \in Buffers, NEW n \in 0 .. MaxSize, Reserve(b, n)
    PROVE  Kept
<1>1. /\ ~injected(b) /\ Usable(b) /\ mRealSize[b] <= n
  BY DEF Reserve, Careful, Usable
<1>2. PICK m \in Offered(n) : cells' = Moved(b, n, m, cells) /\ SetFields(b, m, mSize[b], n)
  BY DEF Reserve
<1>3. n \in Nat /\ n \in 0 .. MaxSize + ChunkSize /\ MaxSize \in Nat
  BY HeapBufferAssumption
<1>4. mSize[b] \in 0 .. MaxSize /\ mRealSize[b] \in Nat /\ mSize[b] \in Nat
  BY Fields
<1>5. mRealSize[b] = 0 => mSize[b] = 0
  BY <1>1, <1>4, Fields
<1>6. mSize[b] <= n
  BY <1>1, <1>3, <1>4, <1>5, Fields DEF BufferOK
<1>7. Settles(cells', b, n, m, cells)
  BY <1>2, <1>3, MovedCells
<1>8. /\ contents[b] \in Seq(Values) /\ Len(contents[b]) = mSize[b]
      /\ \A j \in 1 .. mSize[b] : contents[b][j] = cells[mBuf[b]][j - 1]
      /\ \A i \in 0 .. mSize[b] - 1 : cells[mBuf[b]][i] \in Values
  BY <1>1, Contains
<1>9. CASE n = 0
  <2>1. m = Null /\ mSize[b] = 0 /\ ~Owns(b)
    BY <1>1, <1>2, <1>3, <1>4, <1>5, <1>9, Offers, Fields
  <2>2. Null \notin DOMAIN cells
    BY Fields, HeapBufferAssumption DEF HeapInv, Owned
  <2>3. /\ SetFields(b, Null, 0, 0) /\ ~(0 < n)
        /\ DOMAIN cells' = Rest(b)
        /\ \A x \in DOMAIN cells' : cells'[x] = cells[x]
    BY <1>2, <1>7, <1>9, <2>1, <2>2 DEF Rest, Got, Settles
  <2>5. HeapInv' /\ contents' = [contents EXCEPT ![b] = <<>>]
    BY <2>3, Emptied
  <2>4. contents[b] = <<>>
    BY <1>8, <2>1, EmptySeq
  <2> QED BY <2>4, <2>5, NewContents DEF Kept
<1>10. CASE 0 < n
  <2>1. \A i \in 0 .. n - 1 : 
           IF i < mSize[b] THEN cells'[m][i] \in Values /\ cells'[m][i] = cells[mBuf[b]][i]
           ELSE cells'[m][i] = Raw
    <3>1. 0 < mSize[b] => mBuf[b] # Null
      BY <1>4, Fields, HeapBufferAssumption DEF BufferOK
    <3> QED BY <1>3, <1>4, <1>7, <1>8, <1>10, <3>1 DEF Settles
  <2>2. HeapInv' /\ contents' = [contents EXCEPT ![b] = Content(m, mSize[b], cells')]
    BY <1>2, <1>3, <1>4, <1>6, <1>7, <1>10, <2>1, Anew DEF Settles, Got
  <2>3. \A j \in 1 .. mSize[b] : cells'[m][j - 1] = contents[b][j]
    <3>1. \A j \in 1 .. mSize[b] : j - 1 \in 0 .. n - 1 /\ j - 1 < mSize[b]
      BY <1>3, <1>4, <1>6
    <3> QED BY <1>8, <2>1, <3>1
  <2>4. Content(m, mSize[b], cells') = contents[b]
    <3> DEFINE s == contents[b]
               k == mSize[b]
               c == cells'
    <3>1. s \in Seq(Values) /\ k = Len(s) /\ \A j \in 1 .. k : c[m][j - 1] = s[j]
      BY <1>8, <2>3
    <3> HIDE DEF s, k, c
    <3>2. Content(m, k, c) = s
      BY <3>1, ContentIs
    <3> QED BY <3>2 DEF s, k, c
  <2> QED BY <2>2, <2>4, NewContents DEF Kept
<1> QED BY <1>3, <1>9, <1>10

LEMMA PushKeeps ==
    ASSUME HeapInv, Roomy, NEW b \in Buffers, NEW v \in Values, Push(b, v)
    PROVE  Kept
<1> DEFINE size == mSize[b]
           n == size + 1
           chunk == closestChunkSize(n)
           s == Append(contents[b], v)
<1>1. Usable(b) /\ size < MaxSize
  BY DEF Push
<1>2. /\ size \in Nat /\ mRealSize[b] \in Nat /\ MaxSize \in Nat /\ n \in Nat
      /\ n \in 0 .. MaxSize /\ ChunkSize \in Nat
  BY <1>1, Fields
<1>3. /\ contents[b] \in Seq(Values) /\ Len(contents[b]) = size
      /\ \A j \in 1 .. size : contents[b][j] = cells[mBuf[b]][j - 1]
      /\ \A i \in 0 .. size - 1 : cells[mBuf[b]][i] \in Values
  BY <1>1, Contains
<1>4. /\ s \in Seq(Values) /\ Len(s) = n /\ s[n] = v
      /\ \A j \in 1 .. size : s[j] = contents[b][j]
  BY <1>3, AppendProperties
<1> HIDE DEF n, size, s
<1>5. ASSUME NEW m, HeapInv', contents' = [contents EXCEPT ![b] = Content(m, n, cells')],
             \A i \in 0 .. size - 1 : cells'[m][i] = cells[mBuf[b]][i], cells'[m][size] = v
      PROVE  Kept
  <2>1. \A j \in 1 .. n : \/ j - 1 \in 0 .. size - 1 /\ j \in 1 .. size 
                          \/ j = n /\ j - 1 = size
    BY <1>2 DEF n
  <2>2. \A j \in 1 .. n : cells'[m][j - 1] = s[j]
    BY <1>3, <1>4, <1>5, <2>1
  <2>3. Content(m, n, cells') = s
    <3> DEFINE c == cells'
    <3>1. s \in Seq(Values) /\ n = Len(s) /\ \A j \in 1 .. n : c[m][j - 1] = s[j]
      BY <1>4, <2>2
    <3> HIDE DEF c
    <3>2. Content(m, n, c) = s
      BY <3>1, ContentIs
    <3> QED BY <3>2 DEF c
  <2>4. Promise!Append1(b, v)
    BY <1>5, <2>3 DEF Promise!Append1, s
  <2> QED BY <1>5, <2>4 DEF Kept, Promise!VectorsNext
<1>6. CASE n <= mRealSize[b] /\ cells' = Written(cells, mBuf[b], size, n, v)
           /\ SetFields(b, mBuf[b], n, mRealSize[b])
  <2>1. 0 < mRealSize[b]
    BY <1>2, <1>6 DEF n
  <2>2. /\ Owns(b) /\ Holds(b) /\ mBuf[b] \in DOMAIN cells 
        /\ DOMAIN cells[mBuf[b]] = 0 .. mRealSize[b] - 1
        /\ \A i \in 0 .. mRealSize[b] - 1 : 
              IF i < size THEN cells[mBuf[b]][i] \in Values ELSE cells[mBuf[b]][i] \in {Raw, Left}
    BY <2>1, Fields DEF BufferOK, size
  <2>3. /\ DOMAIN cells' = DOMAIN cells
        /\ \A x \in DOMAIN cells \ {mBuf[b]} : cells'[x] = cells[x]
        /\ DOMAIN cells'[mBuf[b]] = DOMAIN cells[mBuf[b]]
        /\ \A i \in DOMAIN cells[mBuf[b]] : i \in Int =>
              cells'[mBuf[b]][i] = IF size <= i /\ i < n THEN v ELSE cells[mBuf[b]][i]
    <3>1. size \in Int /\ n \in Int
      BY <1>2
    <3>2. Writes(cells', cells, mBuf[b], size, n, v)
      BY <1>6, <3>1, WrittenCells
    <3> QED BY <2>2, <3>2 DEF Writes
  <2>4. \A i \in DOMAIN cells[mBuf[b]] : i \in Int /\ (i < n <=> i < size \/ i = size)
    BY <1>2, <2>2 DEF n
  <2>5. \A i \in DOMAIN cells[mBuf[b]] : 
           IF i < n THEN cells'[mBuf[b]][i] \in Values ELSE cells'[mBuf[b]][i] \in {Raw, Left}
    BY <1>2, <2>2, <2>3, <2>4
  <2>6. HeapInv' /\ contents' = [contents EXCEPT ![b] = Content(mBuf[b], n, cells')]
    BY <1>2, <1>6, <2>2, <2>3, <2>5, InPlace
  <2>7. size \in DOMAIN cells[mBuf[b]] /\ \A i \in 0 .. size - 1 : i \in DOMAIN cells[mBuf[b]]
    BY <1>2, <1>6, <2>2 DEF n
  <2>8. cells'[mBuf[b]][size] = v /\ \A i \in 0 .. size - 1 : cells'[mBuf[b]][i] = cells[mBuf[b]][i]
    BY <1>2, <2>3, <2>7 DEF n
  <2> QED BY <1>5, <2>6, <2>8
<1>7. ASSUME NEW m \in Offered(chunk), cells' = Written(Moved(b, chunk, m, cells), m, size, n, v),
             SetFields(b, m, n, chunk)
      PROVE  Kept
  <2>1. chunk \in 0 .. MaxSize + ChunkSize /\ n <= chunk
    BY <1>2, Chunks
  <2>2. 0 < chunk /\ chunk \in Nat
    BY <1>2, <2>1 DEF n
  <2> HIDE DEF chunk
  <2> DEFINE d == Moved(b, chunk, m, cells)
  <2>3. Settles(d, b, chunk, m, cells)
    BY <1>7, <2>1, <2>2, MovedCells
  <2>4. cells' = Written(d, m, size, n, v)
    BY <1>7
  <2> HIDE DEF d
  <2>5. /\ DOMAIN cells' = DOMAIN d
        /\ \A x \in DOMAIN d : x # m => cells'[x] = d[x]
        /\ DOMAIN cells'[m] = DOMAIN d[m]
        /\ \A i \in 0 .. chunk - 1 :
              cells'[m][i] = IF size <= i /\ i < n THEN v ELSE d[m][i]
    <3>1. m \in DOMAIN d /\ \A i \in 0 .. chunk - 1 : i \in DOMAIN d[m] /\ i \in Int
      BY <2>2, <2>3 DEF Settles, Got
    <3>2. size \in Int /\ n \in Int
      BY <1>2
    <3>3. Writes(cells', d, m, size, n, v)
      BY <2>4, <3>2, WrittenCells
    <3> QED BY <3>1, <3>3 DEF Writes
  <2>6. 0 < size => mBuf[b] # Null
    BY <1>2, Fields, HeapBufferAssumption DEF BufferOK, size
  <2>7. \A i \in 0 .. chunk - 1 : /\ i < size => cells'[m][i] = cells[mBuf[b]][i] /\ i \in 0 .. size - 1
                                  /\ i = size => cells'[m][i] = v
                                  /\ size < i => cells'[m][i] = Raw
    BY <1>2, <2>2, <2>3, <2>5, <2>6 DEF n, size, Settles
  <2>8. ASSUME NEW i \in 0 .. chunk - 1 
        PROVE  IF i < n THEN cells'[m][i] \in Values ELSE cells'[m][i] \in {Raw, Left}
    <3>1. CASE i < size
      <4>1. cells'[m][i] = cells[mBuf[b]][i] /\ i \in 0 .. size - 1
        BY <2>7, <3>1
      <4>2. i < n
        BY <1>2, <2>2, <3>1 DEF n
      <4> QED BY <1>3, <4>1, <4>2
    <3>2. CASE i = size
      <4>1. cells'[m][i] = v /\ i < n
        BY <1>2, <2>7, <3>2 DEF n
      <4> QED BY <4>1
    <3>3. CASE size < i
      <4>1. cells'[m][i] = Raw /\ ~(i < n)
        BY <1>2, <2>2, <2>7, <3>3 DEF n
      <4> QED BY <4>1
    <3>4. i < size \/ i = size \/ size < i
      BY <1>2, <2>2
    <3> QED BY <3>1, <3>2, <3>3, <3>4
  <2>9. HeapInv' /\ contents' = [contents EXCEPT ![b] = Content(m, n, cells')]
    <3>1. DOMAIN d = Rest(b) \cup {m} /\ \A x \in DOMAIN d : x # m => d[x] = cells[x]
      BY <2>2, <2>3 DEF Settles, Got
    <3>2. DOMAIN d[m] = 0 .. chunk - 1
      BY <2>2, <2>3 DEF Settles
    <3>3. /\ DOMAIN cells' = Rest(b) \cup {m} /\ DOMAIN cells'[m] = 0 .. chunk - 1
          /\ \A x \in DOMAIN cells' : x # m => cells'[x] = cells[x]
      BY <2>5, <3>1, <3>2
    <3> QED BY <1>2, <1>7, <2>1, <2>2, <2>8, <3>3, Anew
  <2>10. size \in 0 .. chunk - 1 /\ \A i \in 0 .. size - 1 : i \in 0 .. chunk - 1
    BY <1>2, <2>1, <2>2 DEF n
  <2>11. cells'[m][size] = v /\ \A i \in 0 .. size - 1 : cells'[m][i] = cells[mBuf[b]][i]
    BY <1>2, <2>7, <2>10
  <2> QED BY <1>5, <2>9, <2>11
<1> QED BY <1>6, <1>7 DEF Push, n, size

\* What there is of a buffer that counts elements.
LEMMA Counted ==
    ASSUME HeapInv, NEW b \in Buffers, Usable(b), 0 < mSize[b]
    PROVE  /\ Holds(b) /\ mBuf[b] # Null /\ mBuf[b] \in DOMAIN cells
           /\ \A i \in 0 .. mSize[b] - 1 : i \in DOMAIN cells[mBuf[b]] /\ cells[mBuf[b]][i] \in Values
           /\ \A i \in DOMAIN cells[mBuf[b]] : 
                 /\ i \in Nat /\ cells[mBuf[b]][i] \in Cell
                 /\ Owns(b) /\ mSize[b] <= i => cells[mBuf[b]][i] \in {Raw, Left}
<1>1. /\ mSize[b] \in Nat /\ mRealSize[b] \in Nat
      /\ BufferOK(mBuf[b], mSize[b], mRealSize[b], cells)
      /\ Owns(b) <=> 0 < mRealSize[b]
  BY Fields
<1>2. \A i \in 0 .. mSize[b] - 1 : cells[mBuf[b]][i] \in Values
  BY Contains
<1>3. CASE 0 < mRealSize[b]
  <2>1. /\ mBuf[b] \in Memories /\ mBuf[b] \in DOMAIN cells /\ mSize[b] <= mRealSize[b]
        /\ DOMAIN cells[mBuf[b]] = 0 .. mRealSize[b] - 1
        /\ \A i \in 0 .. mRealSize[b] - 1 : 
              IF i < mSize[b] THEN cells[mBuf[b]][i] \in Values ELSE cells[mBuf[b]][i] \in {Raw, Left}
    BY <1>1, <1>3 DEF BufferOK
  <2>2. Holds(b) /\ mBuf[b] # Null
    BY <1>3, <2>1, HeapBufferAssumption DEF Holds, Keeps
  <2>3. ASSUME NEW i \in DOMAIN cells[mBuf[b]]
        PROVE  /\ i \in Nat /\ cells[mBuf[b]][i] \in Cell
               /\ mSize[b] <= i => cells[mBuf[b]][i] \in {Raw, Left}
    <3>1. CASE i < mSize[b]
      BY <1>1, <2>1, <3>1 DEF Cell
    <3>2. CASE ~(i < mSize[b])
      BY <1>1, <2>1, <3>2 DEF Cell
    <3> QED BY <3>1, <3>2
  <2> QED BY <1>1, <1>2, <2>1, <2>2, <2>3
<1>4. CASE mRealSize[b] = 0
  <2>1. mBuf[b] \in DOMAIN Foreign /\ mSize[b] <= Foreign[mBuf[b]] /\ Foreign[mBuf[b]] \in Nat
    BY <1>1, <1>4, HeapBufferAssumption DEF BufferOK, Usable, injected
  <2>2. /\ mBuf[b] \in DOMAIN cells /\ DOMAIN cells[mBuf[b]] = 0 .. Foreign[mBuf[b]] - 1
        /\ \A i \in DOMAIN cells[mBuf[b]] : cells[mBuf[b]][i] \in Cell
    BY <2>1 DEF HeapInv, LentOK
  <2>3. Holds(b) /\ mBuf[b] # Null
    BY <2>1, HeapBufferAssumption DEF Holds, Keeps
  <2>4. /\ \A i \in 0 .. mSize[b] - 1 : i \in DOMAIN cells[mBuf[b]]
        /\ \A i \in DOMAIN cells[mBuf[b]] : i \in Nat
    BY <1>1, <2>1, <2>2
  <2>5. ~Owns(b)
    BY <1>1, <1>4
  <2> QED BY <1>2, <2>2, <2>3, <2>4, <2>5
<1> QED BY <1>1, <1>3, <1>4

LEMMA PopKeeps ==
    ASSUME HeapInv, NEW b \in Buffers, Pop(b)
    PROVE  Kept
<1> DEFINE n == mSize[b] - 1
           m == mBuf[b]
           s == SubSeq(contents[b], 1, n)
<1>1. /\ Usable(b) /\ 0 < mSize[b] /\ cells' = Written(cells, m, n, mSize[b], Left)
      /\ SetFields(b, m, n, mRealSize[b])
  <2>1. mBuf = [mBuf EXCEPT ![b] = mBuf[b]] /\ mRealSize = [mRealSize EXCEPT ![b] = mRealSize[b]]
    BY DEF HeapInv, FieldsOK
  <2> QED BY <2>1 DEF Pop, SetFields
<1>2. mSize[b] \in Nat /\ mSize[b] \in 0 .. MaxSize /\ MaxSize \in Nat
  BY Fields
<1>3. n \in 0 .. MaxSize /\ n \in Nat /\ n <= mSize[b] /\ n < mSize[b] /\ mSize[b] = n + 1
  BY <1>1, <1>2
<1>4. /\ Holds(b) /\ m \in DOMAIN cells
      /\ \A i \in 0 .. mSize[b] - 1 : i \in DOMAIN cells[m] /\ cells[m][i] \in Values
      /\ \A i \in DOMAIN cells[m] : 
            /\ i \in Nat /\ cells[m][i] \in Cell
            /\ Owns(b) /\ mSize[b] <= i => cells[m][i] \in {Raw, Left}
  BY <1>1, Counted
<1>5. /\ contents[b] \in Seq(Values) /\ Len(contents[b]) = mSize[b]
      /\ \A j \in 1 .. mSize[b] : contents[b][j] = cells[m][j - 1]
  BY <1>1, Contains
<1>6. /\ s \in Seq(Values) /\ Len(s) = n /\ \A j \in 1 .. n : s[j] = contents[b][j]
  <2>1. 1 \in Int /\ n \in Int /\ n <= Len(contents[b])
    BY <1>3, <1>5
  <2>2. contents[b] \in [1 .. mSize[b] -> Values]
    BY <1>5, LenProperties
  <2>3. \A j \in 1 .. n : contents[b][j] \in Values
    BY <1>3, <2>2
  <2> QED BY <1>3, <1>5, <2>1, <2>3, SubSeqProperties
<1>7. contents[b] # <<>> /\ s = SubSeq(contents[b], 1, Len(contents[b]) - 1)
  BY <1>1, <1>2, <1>5, EmptySeq
<1> HIDE DEF n, m, s
<1>8. /\ DOMAIN cells' = DOMAIN cells
      /\ \A x \in DOMAIN cells \ {m} : cells'[x] = cells[x]
      /\ DOMAIN cells'[m] = DOMAIN cells[m]
      /\ \A i \in DOMAIN cells[m] : i \in Int => 
            cells'[m][i] = IF n <= i /\ i < mSize[b] THEN Left ELSE cells[m][i]
  <2>1. n \in Int /\ mSize[b] \in Int
    BY <1>3
  <2>2. Writes(cells', cells, m, n, mSize[b], Left)
    BY <1>1, <2>1, WrittenCells
  <2> QED BY <1>4, <2>2 DEF Writes
<1>9. ASSUME NEW i \in DOMAIN cells[m]
      PROVE  IF i < n THEN cells'[m][i] \in Values ELSE cells'[m][i] \in IF Owns(b) THEN {Raw, Left} ELSE Cell
  <2>1. i \in Nat /\ cells'[m][i] = IF n <= i /\ i < mSize[b] THEN Left ELSE cells[m][i]
    BY <1>4, <1>8
  <2>2. CASE i < n
    BY <1>3, <1>4, <2>1, <2>2
  <2>3. CASE n <= i /\ i < mSize[b]
    BY <1>3, <2>1, <2>3 DEF Cell
  <2>4. CASE mSize[b] <= i
    <3>1. ~(i < n) /\ cells'[m][i] = cells[m][i]
      BY <1>3, <2>1, <2>4
    <3> QED BY <1>4, <2>4, <3>1
  <2> QED BY <1>3, <2>1, <2>2, <2>3, <2>4
<1>10. HeapInv' /\ contents' = [contents EXCEPT ![b] = Content(m, n, cells')]
  BY <1>1, <1>3, <1>4, <1>8, <1>9, InPlace DEF m
<1>11. \A j \in 1 .. n : cells'[m][j - 1] = s[j]
  <2>1. ASSUME NEW j \in 1 .. n 
        PROVE  /\ j - 1 \in 0 .. mSize[b] - 1 /\ j - 1 \in Int /\ ~(n <= j - 1) /\ j \in 1 .. mSize[b]
    BY <1>3
  <2> QED BY <1>4, <1>5, <1>6, <1>8, <2>1
<1>12. Content(m, n, cells') = s
  <2> DEFINE c == cells'
  <2>1. s \in Seq(Values) /\ n = Len(s) /\ \A j \in 1 .. n : c[m][j - 1] = s[j]
    BY <1>6, <1>11
  <2> HIDE DEF c
  <2>2. Content(m, n, c) = s
    BY <2>1, ContentIs
  <2> QED BY <2>2 DEF c
<1>13. Promise!DropLast(b)
  BY <1>7, <1>10, <1>12 DEF Promise!DropLast
<1> QED BY <1>10, <1>13 DEF Kept, Promise!VectorsNext

LEMMA RemoveKeeps ==
    ASSUME HeapInv, NEW b \in Buffers, NEW g \in 0 .. MaxSize - 1, Remove(b, g)
    PROVE  Kept
<1> DEFINE n == mSize[b] - 1
           m == mBuf[b]
           c == Written(cells, m, g, g + 1, cells[m][n])
           old == contents[b]
           s == [j \in 1 .. Len(old) - 1 |-> IF j = g + 1 THEN old[Len(old)] ELSE old[j]]
<1>1. /\ Usable(b) /\ g < mSize[b] /\ cells' = Written(c, m, n, n + 1, Raw)
      /\ SetFields(b, m, n, mRealSize[b])
  <2>1. mBuf = [mBuf EXCEPT ![b] = mBuf[b]] /\ mRealSize = [mRealSize EXCEPT ![b] = mRealSize[b]]
    BY DEF HeapInv, FieldsOK
  <2> QED BY <2>1 DEF Remove, SetFields
<1>2. mSize[b] \in Nat /\ mSize[b] \in 0 .. MaxSize /\ MaxSize \in Nat
  BY Fields
<1>3. /\ n \in 0 .. MaxSize /\ n \in Nat /\ n <= mSize[b] /\ n < mSize[b] /\ mSize[b] = n + 1
      /\ g \in Nat /\ g <= n /\ 0 < mSize[b]
  BY <1>1, <1>2
<1>4. /\ Holds(b) /\ m \in DOMAIN cells
      /\ \A i \in 0 .. mSize[b] - 1 : i \in DOMAIN cells[m] /\ cells[m][i] \in Values
      /\ \A i \in DOMAIN cells[m] : 
            /\ i \in Nat /\ cells[m][i] \in Cell
            /\ Owns(b) /\ mSize[b] <= i => cells[m][i] \in {Raw, Left}
  BY <1>1, <1>3, Counted
<1>5. /\ old \in Seq(Values) /\ Len(old) = mSize[b]
      /\ \A j \in 1 .. mSize[b] : old[j] = cells[m][j - 1]
  BY <1>1, Contains
<1>6. old \in [1 .. mSize[b] -> Values]
  BY <1>5, LenProperties
<1> HIDE DEF old
<1>7. /\ s \in Seq(Values) /\ Len(s) = n 
      /\ \A j \in 1 .. n : s[j] = IF j = g + 1 THEN old[mSize[b]] ELSE old[j]
  <2>1. s \in [1 .. n -> Values]
    BY <1>3, <1>5, <1>6
  <2>2. \A j \in 1 .. n : s[j] = IF j = g + 1 THEN old[mSize[b]] ELSE old[j]
    BY <1>5
  <2> HIDE DEF s
  <2>3. s \in Seq(Values)
    BY <1>3, <2>1, SeqDef
  <2>4. Len(s) = n
    BY <1>3, <2>1, <2>3, LenProperties
  <2> QED BY <2>2, <2>3, <2>4
<1> HIDE DEF n, m, s, c
<1>8. /\ DOMAIN c = DOMAIN cells
      /\ \A x \in DOMAIN cells \ {m} : c[x] = cells[x]
      /\ DOMAIN c[m] = DOMAIN cells[m]
      /\ \A i \in DOMAIN cells[m] : i \in Int => 
            c[m][i] = IF g <= i /\ i < g + 1 THEN cells[m][n] ELSE cells[m][i]
  <2>1. c = Written(cells, m, g, g + 1, cells[m][n]) /\ g \in Int /\ g + 1 \in Int
    BY <1>3 DEF c
  <2>2. Writes(c, cells, m, g, g + 1, cells[m][n])
    BY <2>1, WrittenCells
  <2> QED BY <1>4, <2>2 DEF Writes
<1>9. /\ DOMAIN cells' = DOMAIN cells
      /\ \A x \in DOMAIN cells \ {m} : cells'[x] = cells[x]
      /\ DOMAIN cells'[m] = DOMAIN cells[m]
      /\ \A i \in DOMAIN cells[m] : i \in Int => 
            cells'[m][i] = IF n <= i /\ i < n + 1 THEN Raw ELSE c[m][i]
  <2>1. n \in Int /\ n + 1 \in Int /\ m \in DOMAIN c
    BY <1>3, <1>4, <1>8
  <2>2. Writes(cells', c, m, n, n + 1, Raw)
    BY <1>1, <2>1, WrittenCells
  <2> QED BY <1>8, <2>1, <2>2 DEF Writes
<1>10. ASSUME NEW i \in DOMAIN cells[m]
       PROVE  cells'[m][i] = IF i = n THEN Raw ELSE IF i = g THEN cells[m][n] ELSE cells[m][i]
  BY <1>3, <1>4, <1>8, <1>9
<1>11. ASSUME NEW i \in DOMAIN cells[m]
       PROVE  IF i < n THEN cells'[m][i] \in Values ELSE cells'[m][i] \in IF Owns(b) THEN {Raw, Left} ELSE Cell
  <2>1. i \in Nat /\ cells'[m][i] = IF i = n THEN Raw ELSE IF i = g THEN cells[m][n] ELSE cells[m][i]
    BY <1>4, <1>10
  <2>2. CASE i < n
    BY <1>3, <1>4, <2>1, <2>2
  <2>3. CASE i = n
    BY <1>3, <2>1, <2>3 DEF Cell
  <2>4. CASE mSize[b] <= i
    <3>1. ~(i < n) /\ cells'[m][i] = cells[m][i]
      BY <1>3, <2>1, <2>4
    <3> QED BY <1>4, <2>4, <3>1
  <2> QED BY <1>3, <2>1, <2>2, <2>3, <2>4
<1>12. HeapInv' /\ contents' = [contents EXCEPT ![b] = Content(m, n, cells')]
  BY <1>1, <1>3, <1>4, <1>9, <1>11, InPlace DEF m
<1>13. \A j \in 1 .. n : cells'[m][j - 1] = s[j]
  <2> SUFFICES ASSUME NEW j \in 1 .. n PROVE cells'[m][j - 1] = s[j]
    OBVIOUS
  <2>1. j - 1 \in 0 .. mSize[b] - 1 /\ j - 1 # n /\ j \in 1 .. mSize[b] /\ (j - 1 = g <=> j = g + 1)
    BY <1>3
  <2>2. cells'[m][j - 1] = IF j = g + 1 THEN cells[m][n] ELSE cells[m][j - 1]
    BY <1>4, <1>10, <2>1
  <2>3. old[mSize[b]] = cells[m][n] /\ old[j] = cells[m][j - 1]
    BY <1>3, <1>5, <2>1
  <2> QED BY <1>7, <2>2, <2>3
<1>14. Content(m, n, cells') = s
  <2>1. s \in Seq(Values) /\ Len(s) = n
    BY <1>7
  <2> QED BY <1>13, <2>1, ContentIs
<1>15. Promise!TakeOut(b, g + 1)
  BY <1>3, <1>5, <1>12, <1>14 DEF Promise!TakeOut, s, old
<1>16. g + 1 \in 1 .. MaxSize
  BY <1>2, <1>3
<1> QED BY <1>12, <1>15, <1>16 DEF Kept, Promise!VectorsNext

\* resize() destroys first: what is beyond the new size, in memory of its own.
LEMMA DestroyedCells ==
    ASSUME HeapInv, NEW b \in Buffers, NEW n \in Nat
    PROVE  /\ DOMAIN Destroyed(b, n) = DOMAIN cells
           /\ \A x \in DOMAIN cells : x # mBuf[b] \/ ~Owns(b) => Destroyed(b, n)[x] = cells[x]
           /\ mSize[b] <= n => Destroyed(b, n) = cells
           /\ Owns(b) => 
                 /\ DOMAIN Destroyed(b, n)[mBuf[b]] = DOMAIN cells[mBuf[b]]
                 /\ \A i \in DOMAIN cells[mBuf[b]] : 
                       Destroyed(b, n)[mBuf[b]][i] = 
                          IF n <= i /\ i < mSize[b] THEN Raw ELSE cells[mBuf[b]][i]
<1>1. Shaped(b)
  BY Fields DEF Shaped, BufferOK
<1> QED BY <1>1, DestroyedMemory

LEMMA ResizeFailsKeeps ==
    ASSUME HeapInv, Careful, NEW b \in Buffers, NEW n \in 0 .. MaxSize, NEW downsize \in BOOLEAN,
           ResizeFails(b, n, downsize)
    PROVE  UNCHANGED vars
<1>1. n \in Nat /\ mSize[b] \in Nat /\ ~(n < mSize[b])
  BY Fields DEF ResizeFails, Careful
<1>2. mSize[b] <= n
  BY <1>1
<1>3. Destroyed(b, n) = cells
  BY <1>1, <1>2, DestroyedCells
<1> QED BY <1>3 DEF ResizeFails, vars

\* The elements after a resize to n: those that were, and new ones.
LEMMA ResizedContents ==
    ASSUME HeapInv, NEW b \in Buffers, Usable(b), NEW n \in 0 .. MaxSize, NEW m,
           HeapInv', contents' = [contents EXCEPT ![b] = Content(m, n, cells')],
           \A i \in 0 .. n - 1 : cells'[m][i] = IF i < mSize[b] THEN cells[mBuf[b]][i] ELSE Default
    PROVE  Kept
<1> DEFINE old == contents[b]
<1>1. /\ old \in Seq(Values) /\ Len(old) = mSize[b] /\ mSize[b] \in Nat /\ n \in Nat
      /\ \A j \in 1 .. mSize[b] : old[j] = cells[mBuf[b]][j - 1]
  BY Contains, Fields
<1> HIDE DEF old
<1>2. ASSUME NEW j \in 1 .. n 
      PROVE  cells'[m][j - 1] = IF j <= Len(old) THEN old[j] ELSE Default
  <2>1. j - 1 \in 0 .. n - 1 /\ (j - 1 < mSize[b] <=> j <= mSize[b])
    BY <1>1
  <2>2. j <= mSize[b] => j \in 1 .. mSize[b]
    BY <1>1
  <2> QED BY <1>1, <2>1, <2>2
<1>3. Content(m, n, cells') = [j \in 1 .. n |-> IF j <= Len(old) THEN old[j] ELSE Default]
  BY <1>2 DEF Content
<1>4. Promise!SetLength(b, n)
  BY <1>3 DEF Promise!SetLength, old
<1> QED BY <1>4 DEF Kept, Promise!VectorsNext

LEMMA ResizeKeeps ==
    ASSUME HeapInv, Roomy, NEW b \in Buffers, NEW n \in 0 .. MaxSize, NEW downsize \in BOOLEAN,
           Resize(b, n, downsize)
    PROVE  Kept
<1> DEFINE size == mSize[b]
           chunk == closestChunkSize(n)
           c == Destroyed(b, n)
<1>1. /\ size \in Nat /\ size \in 0 .. MaxSize /\ mRealSize[b] \in Nat /\ n \in Nat
      /\ Owns(b) <=> 0 < mRealSize[b]
      /\ injected(b) <=> mRealSize[b] = 0 /\ 0 < size
  BY Fields
<1>2. Usable(b)
  BY DEF Resize
<1>3. chunk \in 0 .. MaxSize + ChunkSize /\ n <= chunk /\ (n = 0 => chunk = 0) /\ chunk \in Nat
  BY Chunks, HeapBufferAssumption
<1>4. /\ DOMAIN c = DOMAIN cells
      /\ \A x \in DOMAIN cells : x # mBuf[b] \/ ~Owns(b) => c[x] = cells[x]
      /\ size <= n => c = cells
      /\ Owns(b) => 
            /\ DOMAIN c[mBuf[b]] = DOMAIN cells[mBuf[b]]
            /\ \A i \in DOMAIN cells[mBuf[b]] : 
                  c[mBuf[b]][i] = IF n <= i /\ i < size THEN Raw ELSE cells[mBuf[b]][i]
  BY <1>1, DestroyedCells
<1>5. 0 < size => /\ Holds(b) /\ mBuf[b] # Null /\ mBuf[b] \in DOMAIN cells
                  /\ \A i \in 0 .. size - 1 : i \in DOMAIN cells[mBuf[b]] /\ cells[mBuf[b]][i] \in Values
  BY <1>2, Counted
<1>6. CASE ~Reallocates(b, n, downsize)
  <2>1. /\ cells' = Written(c, mBuf[b], size, n, Default)
        /\ SetFields(b, mBuf[b], n, mRealSize[b])
    BY <1>6 DEF Resize, Homes, RealSize, Resized
  <2>2. chunk <= mRealSize[b] /\ n <= mRealSize[b]
    BY <1>1, <1>3, <1>6 DEF Reallocates
  <2> HIDE DEF c, chunk
  <2>3. CASE Owns(b)
    <3>1. /\ Holds(b) /\ mBuf[b] \in DOMAIN cells 
          /\ DOMAIN cells[mBuf[b]] = 0 .. mRealSize[b] - 1
          /\ \A i \in 0 .. mRealSize[b] - 1 : 
                IF i < size THEN cells[mBuf[b]][i] \in Values ELSE cells[mBuf[b]][i] \in {Raw, Left}
      BY <1>1, <2>3, Fields DEF BufferOK
    <3>2. /\ DOMAIN cells' = DOMAIN c
          /\ \A x \in DOMAIN c \ {mBuf[b]} : cells'[x] = c[x]
          /\ DOMAIN cells'[mBuf[b]] = DOMAIN c[mBuf[b]]
          /\ \A i \in DOMAIN c[mBuf[b]] : i \in Int =>
                cells'[mBuf[b]][i] = IF size <= i /\ i < n THEN Default ELSE c[mBuf[b]][i]
      <4>1. size \in Int /\ n \in Int /\ mBuf[b] \in DOMAIN c
        BY <1>1, <1>4, <3>1
      <4>2. Writes(cells', c, mBuf[b], size, n, Default)
        BY <2>1, <4>1, WrittenCells
      <4> QED BY <4>1, <4>2 DEF Writes
    <3>3. ASSUME NEW i \in DOMAIN cells[mBuf[b]]
          PROVE  /\ i \in Nat
                 /\ i < n => cells'[mBuf[b]][i] = IF i < size THEN cells[mBuf[b]][i] ELSE Default
                 /\ ~(i < n) => cells'[mBuf[b]][i] \in {Raw, Left}
      <4>1. i \in Nat /\ i \in 0 .. mRealSize[b] - 1 
        BY <1>1, <3>1
      <4>2. cells'[mBuf[b]][i] = IF size <= i /\ i < n THEN Default 
                                 ELSE IF n <= i /\ i < size THEN Raw ELSE cells[mBuf[b]][i]
        BY <1>4, <2>3, <3>2, <4>1
      <4> QED BY <1>1, <3>1, <4>1, <4>2
    <3>4. ASSUME NEW i \in DOMAIN cells[mBuf[b]]
          PROVE  IF i < n THEN cells'[mBuf[b]][i] \in Values 
                 ELSE cells'[mBuf[b]][i] \in IF Owns(b) THEN {Raw, Left} ELSE Cell
      <4>1. CASE i < n /\ i < size
        <5>1. cells[mBuf[b]][i] \in Values
          BY <3>1, <4>1
        <5> QED BY <3>3, <4>1, <5>1
      <4>2. CASE i < n /\ ~(i < size)
        BY <3>3, <4>2, HeapBufferAssumption
      <4>3. CASE ~(i < n)
        BY <2>3, <3>3, <4>3
      <4> QED BY <4>1, <4>2, <4>3
    <3>5. \A x \in DOMAIN cells \ {mBuf[b]} : cells'[x] = cells[x]
      BY <1>4, <3>2
    <3>6. DOMAIN cells' = DOMAIN cells /\ DOMAIN cells'[mBuf[b]] = DOMAIN cells[mBuf[b]]
      BY <1>4, <2>3, <3>2
    <3>7. HeapInv' /\ contents' = [contents EXCEPT ![b] = Content(mBuf[b], n, cells')]
      BY <2>1, <2>2, <3>1, <3>4, <3>5, <3>6, InPlace
    <3>8. \A i \in 0 .. n - 1 : i \in DOMAIN cells[mBuf[b]] /\ i < n
      BY <1>1, <2>2, <3>1
    <3>9. \A i \in 0 .. n - 1 : cells'[mBuf[b]][i] = IF i < size THEN cells[mBuf[b]][i] ELSE Default
      BY <3>3, <3>8
    <3> QED BY <1>2, <3>7, <3>9, ResizedContents
  <2>4. CASE ~Owns(b)
    <3>1. n = 0 /\ mRealSize[b] = 0
      BY <1>1, <2>2, <2>4
    <3>2. cells' = c /\ \A x \in DOMAIN cells : c[x] = cells[x]
      BY <1>1, <1>4, <2>1, <2>4, <3>1 DEF Written
    <3>3. SetFields(b, mBuf[b], 0, 0) /\ DOMAIN cells' = Rest(b)
      BY <1>4, <2>1, <2>4, <3>1, <3>2 DEF Rest
    <3>4. HeapInv' /\ contents' = [contents EXCEPT ![b] = <<>>]
      BY <1>4, <3>2, <3>3, Fields, Emptied
    <3> QED BY <3>4, NewContents DEF Kept, Promise!VectorsNext
  <2> QED BY <2>3, <2>4
<1>7. CASE Reallocates(b, n, downsize)
  <2> DEFINE d(m) == Moved(b, chunk, m, c)
             e(m) == IF injected(b) THEN Written(d(m), m, n, Lesser(size, chunk), Left) ELSE d(m)
  <2>1. PICK m \in Offered(chunk) : cells' = Written(e(m), m, size, n, Default) /\ SetFields(b, m, n, chunk)
    BY <1>7 DEF Resize, Homes, RealSize, Resized, Resettled
  <2>2. Settles(d(m), b, chunk, m, c)
    BY <1>3, <1>4, MovedCells
  <2> HIDE DEF c, chunk, d
  <2>3. CASE chunk = 0
    <3>1. n = 0 /\ m = Null /\ 0 < mRealSize[b] /\ Owns(b) /\ ~injected(b)
      BY <1>1, <1>3, <1>7, <2>3, Offers DEF Reallocates, chunk
    <3>2. cells' = d(m) /\ SetFields(b, Null, 0, 0)
      BY <1>1, <2>1, <2>3, <3>1 DEF Written
    <3>3. DOMAIN cells' = Rest(b) /\ \A x \in DOMAIN cells' : x # mBuf[b] /\ x # Null /\ x \in DOMAIN cells
      <4>1. DOMAIN cells' = Rest(b)
        BY <2>2, <2>3, <3>2 DEF Settles, Got
      <4>2. Null \notin DOMAIN cells
        BY Fields, HeapBufferAssumption DEF HeapInv, Owned
      <4> QED BY <3>1, <4>1, <4>2 DEF Rest
    <3>4. \A x \in DOMAIN cells' : cells'[x] = cells[x]
      BY <1>4, <2>2, <3>1, <3>2, <3>3 DEF Settles
    <3>5. HeapInv' /\ contents' = [contents EXCEPT ![b] = <<>>]
      BY <3>2, <3>3, <3>4, Emptied
    <3> QED BY <3>5, NewContents DEF Kept, Promise!VectorsNext
  <2>4. CASE 0 < chunk
    <3>1. m \in DOMAIN d(m) /\ DOMAIN d(m) = Rest(b) \cup {m} /\ DOMAIN d(m)[m] = 0 .. chunk - 1
      BY <2>2, <2>4 DEF Settles, Got
    <3>2. m \notin DOMAIN cells
      BY <1>3, <2>4, Offers DEF chunk
    <3>3. /\ DOMAIN e(m) = DOMAIN d(m) 
          /\ \A x \in DOMAIN d(m) \ {m} : e(m)[x] = d(m)[x]
          /\ DOMAIN e(m)[m] = DOMAIN d(m)[m]
          /\ \A i \in 0 .. chunk - 1 : 
                e(m)[m][i] = IF injected(b) /\ n <= i /\ i < Lesser(size, chunk) THEN Left ELSE d(m)[m][i]
      <4>1. CASE injected(b)
        <5>1. e(m) = Written(d(m), m, n, Lesser(size, chunk), Left)
          BY <4>1
        <5>2. n \in Int /\ Lesser(size, chunk) \in Int /\ \A i \in 0 .. chunk - 1 : i \in Int
          BY <1>1, <1>3, <2>4 DEF Lesser, chunk
        <5> HIDE DEF e
        <5>3. Writes(e(m), d(m), m, n, Lesser(size, chunk), Left)
          BY <5>1, <5>2, WrittenCells
        <5> QED BY <3>1, <4>1, <5>2, <5>3 DEF Writes
      <4>2. CASE ~injected(b)
        BY <4>2
      <4> QED BY <4>1, <4>2
    <3> HIDE DEF e
    <3>4. /\ DOMAIN cells' = DOMAIN e(m)
          /\ \A x \in DOMAIN e(m) \ {m} : cells'[x] = e(m)[x]
          /\ DOMAIN cells'[m] = DOMAIN e(m)[m]
          /\ \A i \in 0 .. chunk - 1 : 
                cells'[m][i] = IF size <= i /\ i < n THEN Default ELSE e(m)[m][i]
      <4>1. size \in Int /\ n \in Int /\ \A i \in 0 .. chunk - 1 : i \in Int
        BY <1>1
      <4>2. Writes(cells', e(m), m, size, n, Default)
        BY <2>1, <4>1, WrittenCells
      <4> QED BY <3>1, <3>3, <4>1, <4>2 DEF Writes
    <3>5. DOMAIN cells' = Rest(b) \cup {m} /\ DOMAIN cells'[m] = 0 .. chunk - 1
      BY <3>1, <3>3, <3>4
    <3>6. \A x \in DOMAIN cells' : x # m => cells'[x] = cells[x]
      <4> SUFFICES ASSUME NEW x \in Rest(b), x # m PROVE cells'[x] = cells[x]
        BY <3>5
      <4>1. cells'[x] = d(m)[x] /\ d(m)[x] = c[x]
        BY <2>2, <3>1, <3>3, <3>4 DEF Settles
      <4>2. x \in DOMAIN cells /\ (Owns(b) => x # mBuf[b])
        BY DEF Rest
      <4> QED BY <1>4, <4>1, <4>2
    <3>7. ASSUME NEW i \in 0 .. chunk - 1
          PROVE  /\ i < n => cells'[m][i] = IF i < size THEN cells[mBuf[b]][i] ELSE Default
                 /\ ~(i < n) => cells'[m][i] \in {Raw, Left}
      <4>1. i \in Nat
        OBVIOUS
      <4>2. d(m)[m][i] = IF mBuf[b] # Null /\ i < size THEN c[mBuf[b]][i] ELSE Raw
        BY <2>2, <2>4 DEF Settles
      <4>3. cells'[m][i] = IF size <= i /\ i < n THEN Default 
                           ELSE IF injected(b) /\ n <= i /\ i < Lesser(size, chunk) THEN Left 
                           ELSE d(m)[m][i]
        BY <3>3, <3>4
      <4>4. CASE ~(i < size)
        <5>1. ~(i < Lesser(size, chunk)) /\ d(m)[m][i] = Raw
          BY <1>1, <1>3, <4>1, <4>2, <4>4 DEF Lesser, chunk
        <5> QED BY <1>1, <4>1, <4>3, <4>4, <5>1
      <4>5. CASE i < size
        <5>1. /\ 0 < size /\ mBuf[b] # Null /\ mBuf[b] \in DOMAIN cells
              /\ i \in DOMAIN cells[mBuf[b]] /\ d(m)[m][i] = c[mBuf[b]][i] /\ ~(size <= i)
          BY <1>1, <1>5, <4>1, <4>2, <4>5
        <5>2. CASE i < n
          <6>1. cells'[m][i] = c[mBuf[b]][i]
            BY <1>1, <4>1, <4>3, <5>1, <5>2
          <6>2. c[mBuf[b]][i] = cells[mBuf[b]][i]
            <7>1. CASE Owns(b)
              BY <1>1, <1>4, <4>1, <5>1, <5>2, <7>1
            <7>2. CASE ~Owns(b)
              BY <1>4, <5>1, <7>2
            <7> QED BY <7>1, <7>2
          <6> QED BY <4>5, <5>2, <6>1, <6>2
        <5>3. CASE ~(i < n)
          <6>1. CASE injected(b)
            <7>1. i < Lesser(size, chunk)
              BY <1>1, <1>3, <4>5 DEF Lesser, chunk
            <7> QED BY <1>1, <4>1, <4>3, <5>1, <5>3, <6>1, <7>1
          <6>2. CASE ~injected(b)
            <7>1. Owns(b)
              BY <1>1, <5>1, <6>2
            <7>2. c[mBuf[b]][i] = Raw
              BY <1>1, <1>4, <4>1, <4>5, <5>1, <5>3, <7>1
            <7> QED BY <4>3, <5>1, <5>3, <6>2, <7>2
          <6> QED BY <6>1, <6>2
        <5> QED BY <5>2, <5>3
      <4> QED BY <4>4, <4>5
    <3>8. ASSUME NEW i \in 0 .. chunk - 1
          PROVE  IF i < n THEN cells'[m][i] \in Values ELSE cells'[m][i] \in {Raw, Left}
      <4>1. CASE i < n /\ i < size
        <5>1. cells[mBuf[b]][i] \in Values
          BY <1>1, <1>5, <4>1
        <5> QED BY <3>7, <4>1, <5>1
      <4>2. CASE i < n /\ ~(i < size)
        BY <3>7, <4>2, HeapBufferAssumption
      <4>3. CASE ~(i < n)
        BY <3>7, <4>3
      <4> QED BY <4>1, <4>2, <4>3
    <3>9. HeapInv' /\ contents' = [contents EXCEPT ![b] = Content(m, n, cells')]
      BY <1>3, <2>1, <2>4, <3>5, <3>6, <3>8, Anew DEF chunk
    <3>10. \A i \in 0 .. n - 1 : i \in 0 .. chunk - 1 /\ i < n
      BY <1>1, <1>3 DEF chunk
    <3>11. \A i \in 0 .. n - 1 : cells'[m][i] = IF i < size THEN cells[mBuf[b]][i] ELSE Default
      BY <3>7, <3>10
    <3> QED BY <1>2, <3>9, <3>11, ResizedContents
  <2>5. chunk = 0 \/ 0 < chunk
    BY <1>3 DEF chunk
  <2> QED BY <2>3, <2>4, <2>5
<1> QED BY <1>6, <1>7

\* The source keeps its pointer and its size, but owns nothing any more.
LEMMA MoveKeeps ==
    ASSUME HeapInv, Careful, NEW b \in Buffers, NEW from \in Buffers, Move(b, from)
    PROVE  Kept
<1>1. /\ b # from /\ ~injected(from) /\ ~Owns(b) /\ (Owns(from) => mSize[from] # 0)
      /\ cells' = cells
  BY DEF Move, Careful
<1>2. /\ mBuf'[b] = mBuf[from] /\ mSize'[b] = mSize[from] /\ mRealSize'[b] = mRealSize[from]
      /\ mBuf'[from] = mBuf[from] /\ mSize'[from] = mSize[from] 
      /\ mRealSize'[from] = Disowned(from)
      /\ \A o \in Buffers \ {b, from} : /\ mBuf'[o] = mBuf[o] /\ mSize'[o] = mSize[o]
                                        /\ mRealSize'[o] = mRealSize[o]
  BY <1>1 DEF Move, HeapInv, FieldsOK
<1>3. /\ mSize[from] \in Nat /\ mRealSize[from] \in Nat /\ mRealSize[b] = 0
      /\ BufferOK(mBuf[from], mSize[from], mRealSize[from], cells)
      /\ Owns(from) <=> 0 < mRealSize[from]
      /\ Owns(from) => mBuf[from] \in Memories /\ mBuf[from] \notin DOMAIN Foreign
  BY <1>1, Fields
<1>4. mRealSize'[from] = 0 /\ (0 < mSize[from] => Owns(from) /\ mBuf[from] # Null)
  BY <1>1, <1>2, <1>3, Fields DEF Disowned, Owns
<1>5. FieldsOK'
  <2>1. /\ \A o \in Buffers : mBuf'[o] \in Memories \cup DOMAIN Foreign \cup {Null}
        /\ \A o \in Buffers : mSize'[o] \in 0 .. MaxSize
        /\ \A o \in Buffers : mRealSize'[o] \in 0 .. MaxSize + ChunkSize
    <3> SUFFICES ASSUME NEW o \in Buffers
                 PROVE  /\ mBuf'[o] \in Memories \cup DOMAIN Foreign \cup {Null}
                        /\ mSize'[o] \in 0 .. MaxSize /\ mRealSize'[o] \in 0 .. MaxSize + ChunkSize
      OBVIOUS
    <3>1. CASE o = b
      BY <1>2, <3>1, Fields
    <3>2. CASE o = from
      <4>1. 0 \in 0 .. MaxSize + ChunkSize
        BY HeapBufferAssumption
      <4> QED BY <1>2, <1>4, <3>2, <4>1, Fields
    <3>3. CASE o \notin {b, from}
      BY <1>2, <3>3, Fields
    <3> QED BY <3>1, <3>2, <3>3
  <2>2. /\ mBuf' = [o \in Buffers |-> mBuf'[o]] /\ mSize' = [o \in Buffers |-> mSize'[o]]
        /\ mRealSize' = [o \in Buffers |-> mRealSize'[o]]
    BY DEF Move, HeapInv, FieldsOK
  <2> QED BY <2>1, <2>2 DEF FieldsOK
<1>6. BuffersOK'
  <2> SUFFICES ASSUME NEW o \in Buffers PROVE BufferOK(mBuf'[o], mSize'[o], mRealSize'[o], cells)
    BY <1>1 DEF BuffersOK
  <2>1. CASE o = b
    BY <1>2, <1>3, <2>1
  <2>2. CASE o = from
    BY <1>2, <1>3, <1>4, <2>2 DEF BufferOK
  <2>3. CASE o \notin {b, from}
    BY <1>2, <2>3, Fields
  <2> QED BY <2>1, <2>2, <2>3
<1>7. /\ Holds(b)' = Holds(from) /\ ~Holds(from)'
      /\ \A o \in Buffers \ {b, from} : Holds(o)' = Holds(o)
  BY <1>2, <1>3, <1>4 DEF Holds, Keeps
<1>8. Separate'
  <2> SUFFICES ASSUME NEW x \in Buffers, NEW y \in Buffers, Holds(x)', Holds(y)', mBuf'[x] = mBuf'[y]
               PROVE  x = y
    BY DEF Separate
  <2>1. x # from /\ y # from
    BY <1>7
  <2>2. CASE x # b /\ y # b
    BY <1>2, <1>7, <2>1, <2>2 DEF HeapInv, Separate
  <2>3. CASE x = b /\ y # b
    BY <1>2, <1>7, <2>1, <2>3 DEF HeapInv, Separate
  <2>4. CASE x # b /\ y = b
    BY <1>2, <1>7, <2>1, <2>4 DEF HeapInv, Separate
  <2> QED BY <2>2, <2>3, <2>4
<1>9. Owned' = Owned
  <2>1. ASSUME NEW x \in Owned PROVE x \in Owned'
    <3>1. PICK o \in Buffers : 0 < mRealSize[o] /\ x = mBuf[o]
      BY DEF Owned
    <3>2. CASE o = from
      BY <1>2, <3>1, <3>2 DEF Owned
    <3>3. CASE o # from
      <4>1. o # b
        BY <1>3, <3>1
      <4> QED BY <1>2, <3>1, <3>3, <4>1 DEF Owned
    <3> QED BY <3>2, <3>3
  <2>2. ASSUME NEW x \in Owned' PROVE x \in Owned
    <3>1. PICK o \in Buffers : 0 < mRealSize'[o] /\ x = mBuf'[o]
      BY DEF Owned
    <3>2. CASE o = b
      BY <1>2, <3>1, <3>2 DEF Owned
    <3>3. CASE o # b
      <4>1. o # from
        BY <1>4, <3>1
      <4> QED BY <1>2, <3>1, <3>3, <4>1 DEF Owned
    <3> QED BY <3>2, <3>3
  <2> QED BY <2>1, <2>2
<1>10. HeapInv'
  BY <1>1, <1>5, <1>6, <1>8, <1>9 DEF HeapInv
<1>11. contents' = [contents EXCEPT ![b] = contents[from], ![from] = <<>>]
  <2>1. contents'[b] = contents[from]
    <3>1. Usable(b)' /\ Usable(from)
      BY <1>1, <1>2 DEF Usable, injected
    <3> QED BY <1>1, <1>2, <3>1, <1>10, Contains DEF contents
  <2>2. contents'[from] = <<>>
    <3>1. CASE 0 < mSize[from]
      <4>1. ~Usable(from)'
        BY <1>2, <1>3, <1>4, <3>1 DEF Usable, injected
      <4> QED BY <4>1 DEF contents
    <3>2. CASE mSize[from] = 0
      <4>1. Usable(from)'
        BY <1>2, <3>2 DEF Usable, injected
      <4>2. contents'[from] = Content(mBuf'[from], 0, cells')
        BY <1>2, <3>2, <4>1 DEF contents, Content
      <4>3. 0 \in Nat /\ 0 .. 0 - 1 = {}
        OBVIOUS
      <4> QED BY <4>2, <4>3, Contents
    <3> QED BY <1>3, <3>1, <3>2
  <2>3. ASSUME NEW o \in Buffers \ {b, from} PROVE contents'[o] = contents[o]
    <3>1. Usable(o)' = Usable(o)
      BY <1>2 DEF Usable, injected
    <3> QED BY <1>1, <1>2, <3>1 DEF contents
  <2>4. contents = [o \in Buffers |-> contents[o]] /\ contents' = [o \in Buffers |-> contents'[o]]
    BY DEF contents
  <2> QED BY <1>1, <2>1, <2>2, <2>3, <2>4
<1>12. Promise!HandOver(b, from)
  BY <1>1, <1>11 DEF Promise!HandOver
<1> QED BY <1>10, <1>12 DEF Kept, Promise!VectorsNext

LEMMA InjectKeeps ==
    ASSUME HeapInv, NEW b \in Buffers, NEW f \in DOMAIN Foreign, Inject(b, f)
    PROVE  Kept
<1> DEFINE n == Foreign[f]
<1>1. /\ \A o \in Buffers \ {b} : mBuf[o] # f
      /\ cells' = [x \in DOMAIN Cleared(b) |-> IF x = f THEN [i \in DOMAIN cells[f] |-> Default] ELSE cells[x]]
      /\ SetFields(b, f, n, 0)
  BY DEF Inject, Borrow
<1>2. n \in 1 .. MaxSize /\ n \in Nat /\ n \in 0 .. MaxSize /\ 0 \in 0 .. MaxSize + ChunkSize
  BY HeapBufferAssumption
<1>3. DOMAIN cells' = Rest(b)
  BY <1>1 DEF Cleared, Rest
<1>4. /\ \A g \in DOMAIN Foreign : 
            /\ g \in DOMAIN cells /\ DOMAIN cells[g] = 0 .. Foreign[g] - 1
            /\ \A i \in DOMAIN cells[g] : cells[g][i] \in Cell
      /\ Owns(b) => mBuf[b] \notin DOMAIN Foreign
  BY Fields DEF HeapInv, LentOK
<1>5. f \in DOMAIN cells' /\ cells'[f] = [i \in 0 .. n - 1 |-> Default]
  BY <1>1, <1>3, <1>4 DEF Rest
<1>6. \A x \in DOMAIN cells' : x # f => cells'[x] = cells[x]
  BY <1>1
<1> HIDE DEF n
<1>7. BufferOK(f, n, 0, cells')
  <2>1. f # Null
    BY HeapBufferAssumption
  <2> QED BY <1>2, <1>5, <2>1, HeapBufferAssumption DEF BufferOK, n
<1>8. LentOK(cells')
  <2> SUFFICES ASSUME NEW g \in DOMAIN Foreign
               PROVE  /\ g \in DOMAIN cells' /\ DOMAIN cells'[g] = 0 .. Foreign[g] - 1
                      /\ \A i \in DOMAIN cells'[g] : cells'[g][i] \in Cell
    BY DEF LentOK
  <2>1. g \in DOMAIN cells'
    BY <1>3, <1>4 DEF Rest
  <2>2. CASE g = f
    BY <1>5, <2>1, <2>2, HeapBufferAssumption DEF n, Cell
  <2>3. CASE g # f
    BY <1>4, <1>6, <2>1, <2>3
  <2> QED BY <2>2, <2>3
<1>9. \A o \in Buffers \ {b} : Holds(o) => cells'[mBuf[o]] = cells[mBuf[o]]
  <2> SUFFICES ASSUME NEW o \in Buffers \ {b}, Holds(o) PROVE mBuf[o] \in DOMAIN cells' /\ mBuf[o] # f
    BY <1>6
  <2>1. mBuf[o] \in DOMAIN cells
    BY Fields DEF Holds, Keeps, BufferOK, HeapInv
  <2>2. Owns(b) => mBuf[o] # mBuf[b]
    BY Fields DEF HeapInv, Separate
  <2> QED BY <1>1, <1>3, <2>1, <2>2 DEF Rest
<1>10. HeapInv' /\ contents' = [contents EXCEPT ![b] = Content(f, n, cells')]
  BY <1>1, <1>2, <1>3, <1>7, <1>8, <1>9, OneChanges DEF Got
<1>11. Content(f, n, cells') = [j \in 1 .. n |-> Default]
  <2>1. \A j \in 1 .. n : j - 1 \in 0 .. n - 1
    BY <1>2
  <2> QED BY <1>5, <2>1 DEF Content
<1>12. Promise!Assign(b, [j \in 1 .. n |-> Default])
  BY <1>10, <1>11 DEF Promise!Assign
<1>13. n \in {Foreign[g] : g \in DOMAIN Foreign}
  BY DEF n
<1> QED BY <1>10, <1>12, <1>13 DEF Kept, Promise!VectorsNext
-----------------------------------------------------------------------------
LEMMA HeapInit ==
    ASSUME Init PROVE HeapInv /\ Promise!VectorsInit
<1>1. /\ mBuf = [b \in Buffers |-> Null] /\ mSize = [b \in Buffers |-> 0]
      /\ mRealSize = [b \in Buffers |-> 0]
      /\ cells = [f \in DOMAIN Foreign |-> [i \in 0 .. Foreign[f] - 1 |-> Default]]
  BY DEF Init, Fresh
<1>2. 0 \in 0 .. MaxSize /\ 0 \in 0 .. MaxSize + ChunkSize /\ Default \in Cell
  BY HeapBufferAssumption DEF Cell
<1>3. FieldsOK
  BY <1>1, <1>2 DEF FieldsOK
<1>4. BuffersOK /\ Separate /\ Owned = {}
  BY <1>1 DEF BuffersOK, BufferOK, Separate, Holds, Keeps, Owned
<1>5. LentOK(cells) /\ DOMAIN cells = DOMAIN Foreign
  BY <1>1, <1>2 DEF LentOK
<1>6. HeapInv
  BY <1>3, <1>4, <1>5 DEF HeapInv
<1>7. \A b \in Buffers : contents[b] = <<>>
  <2> SUFFICES ASSUME NEW b \in Buffers PROVE contents[b] = <<>>
    OBVIOUS
  <2>1. Usable(b) /\ mSize[b] = 0
    BY <1>1 DEF Usable, injected
  <2> QED BY <1>6, <2>1, Contains, EmptySeq
<1>8. contents = [b \in Buffers |-> contents[b]]
  BY DEF contents
<1> QED BY <1>6, <1>7, <1>8 DEF Promise!VectorsInit

LEMMA HeapNext ==
    ASSUME HeapInv, Careful, Roomy, [Next]_vars PROVE Kept
<1>1. CASE UNCHANGED vars
  <2>1. UNCHANGED <<mBuf, mSize, mRealSize, cells>>
    BY <1>1 DEF vars
  <2>2. HeapInv'
    BY <2>1 DEF HeapInv, FieldsOK, BuffersOK, Separate, Holds, Owned
  <2>3. UNCHANGED contents
    BY <2>1 DEF contents, Usable, injected
  <2> QED BY <2>2, <2>3 DEF Kept
<1>2. ASSUME NEW b \in Buffers, NEW n \in 0 .. MaxSize, NEW downsize \in BOOLEAN,
             Resize(b, n, downsize) PROVE Kept
  BY <1>2, ResizeKeeps
<1>3. ASSUME NEW b \in Buffers, NEW n \in 0 .. MaxSize, NEW downsize \in BOOLEAN,
             ResizeFails(b, n, downsize) PROVE Kept
  BY <1>1, <1>3, ResizeFailsKeeps
<1>4. ASSUME NEW b \in Buffers, NEW n \in 0 .. MaxSize, Reserve(b, n) PROVE Kept
  BY <1>4, ReserveKeeps
<1>5. ASSUME NEW b \in Buffers, NEW v \in Values, Push(b, v) PROVE Kept
  BY <1>5, PushKeeps
<1>6. ASSUME NEW b \in Buffers, GrowthFails(b) PROVE Kept
  BY <1>1, <1>6 DEF GrowthFails
<1>7. ASSUME NEW b \in Buffers, Pop(b) PROVE Kept
  BY <1>7, PopKeeps
<1>8. ASSUME NEW b \in Buffers, NEW i \in 0 .. MaxSize - 1, Remove(b, i) PROVE Kept
  BY <1>8, RemoveKeeps
<1>9. ASSUME NEW b \in Buffers, NEW data \in Datas, Set(b, data) PROVE Kept
  BY <1>9, SetKeeps
<1>10. ASSUME NEW b \in Buffers, SetFails(b) PROVE Kept
  BY <1>10, SetFailsKeeps
<1>11. ASSUME NEW b \in Buffers, NEW from \in Buffers, Move(b, from) PROVE Kept
  BY <1>11, MoveKeeps
<1>12. ASSUME NEW b \in Buffers, NEW f \in DOMAIN Foreign, Inject(b, f) PROVE Kept
  BY <1>12, InjectKeeps
<1>13. ASSUME NEW b \in Buffers, Destroy(b) PROVE Kept
  BY <1>13, DestroyKeeps
<1> QED BY <1>1, <1>2, <1>3, <1>4, <1>5, <1>6, <1>7, <1>8, <1>9, <1>10, <1>11, <1>12, <1>13 DEF Next

(***************************************************************************)
(* Whatever careful clients do with any number of buffers.                 *)
(***************************************************************************)
THEOREM HeapInvariant == 
    ASSUME Careful, Roomy PROVE Spec => []HeapInv
<1>1. Init => HeapInv
  BY HeapInit
<1>2. HeapInv /\ [Next]_vars => HeapInv'
  BY HeapNext DEF Kept
<1> QED BY <1>1, <1>2, PTL DEF Spec

\* No memory has two owners that would both free it, and none is freed while a
\* buffer owns it.
THEOREM HeapOneOwner == 
    ASSUME Careful, Roomy PROVE Spec => []OneOwner
<1>1. HeapInv => OneOwner
  <2> SUFFICES ASSUME HeapInv, NEW b \in Buffers, Owns(b)
               PROVE  /\ mBuf[b] \in DOMAIN cells
                      /\ \A o \in Buffers : Owns(o) /\ mBuf[o] = mBuf[b] => o = b
    BY DEF OneOwner
  <2>1. mBuf[b] \in DOMAIN cells
    BY Fields DEF BufferOK
  <2>2. \A o \in Buffers : Owns(o) => Holds(o)
    BY Fields
  <2> QED BY <2>1, <2>2 DEF HeapInv, Separate
<1> QED BY <1>1, HeapInvariant, PTL

\* What is allocated is what the buffers own: nothing is lost.
THEOREM HeapNoLeak == 
    ASSUME Careful, Roomy PROVE Spec => []NoLeak
<1>1. HeapInv => NoLeak
  <2> SUFFICES ASSUME HeapInv PROVE NoLeak
    OBVIOUS
  <2>1. \A b \in Buffers : Owns(b) <=> 0 < mRealSize[b]
    BY Fields
  <2>2. Owned = {mBuf[b] : b \in {o \in Buffers : Owns(o)}}
    BY <2>1 DEF Owned
  <2> QED BY <2>2 DEF HeapInv, NoLeak
<1> QED BY <1>1, HeapInvariant, PTL

\* The memory of a buffer has room for what the buffer counts and claims.
THEOREM HeapSizeFits == 
    ASSUME Careful, Roomy PROVE Spec => []SizeFits
<1>1. HeapInv => SizeFits
  <2> SUFFICES ASSUME HeapInv PROVE SizeFits
    OBVIOUS
  <2>1. MaxSize + ChunkSize < SizeMod /\ MaxSize + ChunkSize \in Nat /\ SizeMod \in Nat
    <3>1. /\ MaxSize + ChunkSize \in Nat /\ ElementSize \in Nat \ {0} /\ SizeMod \in Nat
      BY HeapBufferAssumption
    <3>2. /\ MaxSize + ChunkSize <= (MaxSize + ChunkSize) * ElementSize
          /\ (MaxSize + ChunkSize) * ElementSize \in Nat
      BY <3>1, Products
    <3> QED BY <3>1, <3>2 DEF Roomy
  <2>2. HeapBufferTypeOK
    <3>1. DOMAIN cells \subseteq Memories \cup DOMAIN Foreign
      BY Fields DEF HeapInv, Owned, BufferOK
    <3>2. mRealSize \in [Buffers -> 0 .. SizeMod - 1]
      <4>1. \A r \in 0 .. MaxSize + ChunkSize : r \in 0 .. SizeMod - 1
        BY <2>1
      <4> QED BY <4>1 DEF HeapInv, FieldsOK
    <3>3. ASSUME NEW m \in DOMAIN cells, NEW i \in DOMAIN cells[m] PROVE cells[m][i] \in Cell
      <4>1. CASE m \in DOMAIN Foreign
        BY <4>1 DEF HeapInv, LentOK
      <4>2. CASE m \in Owned
        <5>1. PICK b \in Buffers : 0 < mRealSize[b] /\ m = mBuf[b]
          BY <4>2 DEF Owned
        <5>2. BufferOK(m, mSize[b], mRealSize[b], cells)
          BY <5>1, Fields
        <5> QED BY <5>1, <5>2 DEF BufferOK, Cell
      <4> QED BY <4>1, <4>2 DEF HeapInv
    <3> QED BY <3>1, <3>2, <3>3 DEF HeapBufferTypeOK, HeapInv, FieldsOK, Cell
  <2>3. ASSUME NEW b \in Buffers, Usable(b), 0 < mSize[b]
        PROVE  mBuf[b] \in DOMAIN cells /\ mSize[b] - 1 \in DOMAIN cells[mBuf[b]]
    <3>1. mSize[b] - 1 \in 0 .. mSize[b] - 1
      BY <2>3, Fields
    <3> QED BY <2>3, <3>1, Counted
  <2>4. ASSUME NEW b \in Buffers, Owns(b)
        PROVE  mSize[b] <= mRealSize[b] /\ 0 .. mRealSize[b] - 1 \subseteq DOMAIN cells[mBuf[b]]
    BY <2>4, Fields DEF BufferOK
  <2> QED BY <2>2, <2>3, <2>4 DEF SizeFits
<1> QED BY <1>1, HeapInvariant, PTL

\* The counted cells are the constructed ones: nothing is destroyed twice, and
\* nothing but what pop() and borrowing leave is freed undestroyed.
THEOREM HeapElementsCounted == 
    ASSUME Careful, Roomy PROVE Spec => []ElementsCounted
<1>1. HeapInv => ElementsCounted
  <2> SUFFICES ASSUME HeapInv, NEW b \in Buffers
               PROVE  /\ Usable(b) => \A i \in 0 .. mSize[b] - 1 : cells[mBuf[b]][i] \in Values
                      /\ Owns(b) => \A i \in DOMAIN cells[mBuf[b]] : 
                                        mSize[b] <= i => cells[mBuf[b]][i] \in {Raw, Left}
    BY DEF ElementsCounted
  <2>1. Usable(b) => \A i \in 0 .. mSize[b] - 1 : cells[mBuf[b]][i] \in Values
    BY Contains
  <2>2. ASSUME Owns(b), NEW i \in DOMAIN cells[mBuf[b]], mSize[b] <= i
        PROVE  cells[mBuf[b]][i] \in {Raw, Left}
    <3>1. i \in 0 .. mRealSize[b] - 1 /\ mSize[b] \in Nat /\ mRealSize[b] \in Nat
      BY <2>2, Fields DEF BufferOK
    <3>2. ~(i < mSize[b])
      BY <2>2, <3>1
    <3> QED BY <2>2, <3>1, <3>2, Fields DEF BufferOK
  <2> QED BY <2>1, <2>2
<1> QED BY <1>1, HeapInvariant, PTL

\* To who uses them the buffers are sequences: wherever their elements are,
\* however often they moved, every call does what Vectors says or nothing.
THEOREM HeapImplementsVectors == 
    ASSUME Careful, Roomy PROVE Spec => ImplementsVectors
<1>1. Init => Promise!VectorsInit
  BY HeapInit
<1>2. HeapInv /\ [Next]_vars => [Promise!VectorsNext]_contents
  BY HeapNext DEF Kept
<1> QED BY <1>1, <1>2, HeapInvariant, PTL DEF Spec, ImplementsVectors, Promise!VectorsSpec
-----------------------------------------------------------------------------
(***************************************************************************)
(* Strings: the text in a sequence of characters.                          *)
(***************************************************************************)
LEMMA FirstNumbers ==
    ASSUME NEW k \in Nat, 0 < k
    PROVE  Cardinality(0 .. k - 1) = k
<1>1. 0 \in Int /\ k - 1 \in Int
  OBVIOUS
<1>2. Cardinality(0 .. k - 1) = IF 0 > k - 1 THEN 0 ELSE (k - 1) - 0 + 1
  BY <1>1, FS_Interval
<1> QED BY <1>2

\* The place of the first terminator.
LEMMA Ends ==
    ASSUME NEW S, NEW a \in Seq(S)
    PROVE  /\ End(a) \in 0 .. Len(a) /\ Len(a) \in Nat
           /\ \A j \in 1 .. Len(a) : j < End(a) \/ End(a) = 0 => a[j] # Terminator
           /\ 0 < End(a) => a[End(a)] = Terminator
<1> DEFINE I == {i \in 1 .. Len(a) : a[i] = Terminator}
<1>1. End(a) = IF I # {} THEN CHOOSE x \in I : \A y \in I : x <= y ELSE 0
  BY DEF End, Seqs!SelectInSeq, Seqs!Min
<1>2. Len(a) \in Nat
  BY LenProperties
<1>3. CASE I = {}
  BY <1>1, <1>2, <1>3
<1>4. CASE I # {}
  <2>1. I \subseteq Nat
    BY <1>2
  <2>2. \E x \in I : \A y \in I : x <= y
    BY <1>4, <2>1, LeastMember
  <2>3. End(a) \in I /\ \A y \in I : End(a) <= y
    BY <1>1, <1>4, <2>2
  <2> QED BY <1>2, <2>3
<1> QED BY <1>3, <1>4

\* A place that is the first of a terminator is the one.
LEMMA EndIs ==
    ASSUME NEW S, NEW a \in Seq(S), NEW n \in 1 .. Len(a), a[n] = Terminator,
           \A j \in 1 .. n - 1 : a[j] # Terminator
    PROVE  End(a) = n /\ TextOf(a) = SubSeq(a, 1, n - 1)
<1>1. Len(a) \in Nat /\ End(a) \in 0 .. Len(a)
  BY Ends
<1>2. End(a) # 0 /\ ~(n < End(a))
  BY <1>1, Ends
<1>3. ~(End(a) < n)
  <2> SUFFICES ASSUME End(a) < n PROVE FALSE
    OBVIOUS
  <2>1. End(a) \in 1 .. n - 1 /\ 0 < End(a)
    BY <1>1, <1>2
  <2> QED BY <2>1, Ends
<1>4. End(a) = n
  BY <1>1, <1>2, <1>3
<1> QED BY <1>4, <1>1 DEF TextOf

\* The text: the characters before the first terminator.
LEMMA TextIs ==
    ASSUME NEW S, NEW a \in Seq(S), NEW t \in Seq(S), NEW n \in 1 .. Len(a), 
           a[n] = Terminator, n = Len(t) + 1,
           \A j \in 1 .. n - 1 : a[j] = t[j] /\ t[j] # Terminator
    PROVE  End(a) = n /\ TextOf(a) = t
<1>1. Len(a) \in Nat /\ Len(t) \in Nat /\ DOMAIN a = 1 .. Len(a)
  BY LenProperties
<1>2. End(a) = n /\ TextOf(a) = SubSeq(a, 1, n - 1)
  BY EndIs
<1>3. \A i \in 1 .. n - 1 : a[i] \in S
  BY <1>1, ElementOfSeq
<1>4. /\ SubSeq(a, 1, n - 1) \in Seq(S) /\ Len(SubSeq(a, 1, n - 1)) = n - 1
      /\ \A i \in 1 .. n - 1 : SubSeq(a, 1, n - 1)[i] = a[i]
  BY <1>1, <1>3, SubSeqProperties
<1>5. SubSeq(a, 1, n - 1) = t
  BY <1>1, <1>4, SeqEqual
<1> QED BY <1>2, <1>5
-----------------------------------------------------------------------------
(***************************************************************************)
(* What clients give to strings.                                           *)
(***************************************************************************)
LEMMA CStrings ==
    ASSUME NEW t \in Phrases
    PROVE  /\ t \in Seq(Values) /\ Len(t) \in Nat /\ DOMAIN t = 1 .. Len(t)
           /\ \A j \in 1 .. Len(t) : t[j] # Terminator /\ CString(t)[j] = t[j] /\ t[j] \in Values
           /\ CString(t) \in Seq(Values) /\ Len(CString(t)) = Len(t) + 1
           /\ CString(t)[Len(t) + 1] = Terminator
           /\ DOMAIN CString(t) = 1 .. Len(t) + 1
           /\ End(CString(t)) = Len(t) + 1 /\ TextOf(CString(t)) = t
           /\ CString(t) # <<>>
<1>1. t \in Seq(Values \ {Terminator}) /\ Terminator \in Values
  BY StringsAssumption, HeapBufferAssumption DEF Terminator
<1>2. /\ t \in Seq(Values) /\ Len(t) \in Nat /\ DOMAIN t = 1 .. Len(t)
      /\ \A j \in 1 .. Len(t) : t[j] \in Values \ {Terminator}
  BY <1>1, SeqMonotonic, LenProperties, ElementOfSeq
<1>3. /\ CString(t) \in Seq(Values) /\ Len(CString(t)) = Len(t) + 1 /\ CString(t) # <<>>
      /\ CString(t)[Len(t) + 1] = Terminator
      /\ \A j \in 1 .. Len(t) : CString(t)[j] = t[j]
  BY <1>1, <1>2, AppendProperties DEF CString
<1>4. DOMAIN CString(t) = 1 .. Len(t) + 1
  BY <1>3, LenProperties
<1>5. Len(t) + 1 \in 1 .. Len(CString(t)) /\ \A j \in 1 .. (Len(t) + 1) - 1 : j \in 1 .. Len(t)
  BY <1>2, <1>3
<1>6. End(CString(t)) = Len(t) + 1 /\ TextOf(CString(t)) = t
  BY <1>2, <1>3, <1>5, TextIs
<1> QED BY <1>2, <1>3, <1>4, <1>6

(***************************************************************************)
(* Queries, of any sequences of characters.                                *)
(***************************************************************************)
LEMMA EqualsAgrees ==
    ASSUME NEW s \in Buffers, NEW t \in Phrases, contents[s] \in Seq(Values), 0 < End(contents[s])
    PROVE  Equals(s, t) <=> TextOf(contents[s]) = t
<1> DEFINE a == contents[s]
           b == CString(t)
<1>1. /\ End(a) \in 0 .. Len(a) /\ Len(a) \in Nat /\ 0 < End(a) /\ a[End(a)] = Terminator
      /\ \A j \in 1 .. Len(a) : j < End(a) => a[j] # Terminator
      /\ DOMAIN a = 1 .. Len(a)
  BY Ends, LenProperties
<1>2. /\ t \in Seq(Values) /\ Len(t) \in Nat /\ Len(b) = Len(t) + 1 /\ b[Len(t) + 1] = Terminator
      /\ \A j \in 1 .. Len(t) : t[j] # Terminator /\ b[j] = t[j]
  BY CStrings
<1>3. Equals(s, t) <=> \E i \in DOMAIN a : /\ i <= Len(b) /\ b[i] = Terminator
                                           /\ \A j \in 1 .. i : a[j] = b[j]
  BY DEF Equals
<1>4. a \in Seq(Values)
  OBVIOUS
<1> HIDE DEF a, b
<1>5. ASSUME Equals(s, t) PROVE TextOf(a) = t
  <2>1. PICK i \in 1 .. Len(a) : i <= Len(b) /\ b[i] = Terminator /\ \A j \in 1 .. i : a[j] = b[j]
    BY <1>1, <1>3, <1>5
  <2>2. i = Len(t) + 1
    <3>1. ~(i <= Len(t))
      BY <1>1, <1>2, <2>1
    <3> QED BY <1>1, <1>2, <2>1, <3>1
  <2>3. a[i] = Terminator /\ \A j \in 1 .. i - 1 : a[j] = t[j] /\ t[j] # Terminator
    BY <1>1, <1>2, <2>1, <2>2
  <2> QED BY <1>2, <1>4, <2>2, <2>3, TextIs
<1>6. ASSUME TextOf(a) = t PROVE Equals(s, t)
  <2> DEFINE n == End(a)
  <2>1. SubSeq(a, 1, n - 1) = t
    BY <1>1, <1>6 DEF TextOf
  <2>2. \A i \in 1 .. n - 1 : a[i] \in Values
    BY <1>1, <1>4, ElementOfSeq
  <2>3. Len(t) = n - 1 /\ \A i \in 1 .. n - 1 : t[i] = a[i]
    BY <1>1, <2>1, <2>2, SubSeqProperties
  <2>4. n \in DOMAIN a /\ n <= Len(b) /\ b[n] = Terminator /\ a[n] = b[n]
    BY <1>1, <1>2, <2>3
  <2>5. \A j \in 1 .. n : a[j] = b[j]
    BY <1>1, <1>2, <2>3, <2>4
  <2> QED BY <1>3, <2>4, <2>5
<1> QED BY <1>5, <1>6 DEF a

Label == [j \in 1 .. N |-> mData[j - 1]]

LEMMA Labels ==
    ASSUME mData \in [0 .. N - 1 -> Values]
    PROVE  /\ N \in Nat \ {0}
           /\ Label \in Seq(Values) /\ Len(Label) = N 
           /\ \A j \in 1 .. N : Label[j] = mData[j - 1]
           /\ LabelText = TextOf(Label)
<1>1. N \in Nat \ {0}
  BY StringsAssumption
<1>2. Label \in [1 .. N -> Values]
  BY <1>1 DEF Label
<1>3. Label \in Seq(Values)
  BY <1>1, <1>2
<1>4. Len(Label) = N
  BY <1>1, <1>2, <1>3, LenProperties
<1> QED BY <1>1, <1>3, <1>4 DEF Label, LabelText

LEMMA LabelAgrees ==
    ASSUME mData \in [0 .. N - 1 -> Values], NEW t \in Phrases, Len(t) < N
    PROVE  LabelEquals(t) <=> LabelText = t
<1> DEFINE b == CString(t)
<1>1. /\ t \in Seq(Values) /\ Len(t) \in Nat /\ Len(b) = Len(t) + 1 /\ b[Len(t) + 1] = Terminator
      /\ \A j \in 1 .. Len(t) : t[j] # Terminator /\ b[j] = t[j]
  BY CStrings
<1>2. /\ N \in Nat \ {0} /\ Label \in Seq(Values) /\ Len(Label) = N
      /\ \A j \in 1 .. N : Label[j] = mData[j - 1]
      /\ LabelText = TextOf(Label)
  BY Labels
<1>3. LabelEquals(t) <=> IF mData[0] = Terminator THEN t = <<>>
                         ELSE \A i \in 0 .. N - 1 : 
                                (\A j \in 1 .. i : b[j] # Terminator) => mData[i] = b[i + 1]
  BY DEF LabelEquals
<1> HIDE DEF b
<1>4. ASSUME LabelEquals(t) PROVE LabelText = t
  <2>1. CASE mData[0] = Terminator
    <3>1. t = <<>> /\ Len(t) = 0
      BY <1>3, <1>4, <2>1, EmptySeq
    <3>2. 1 \in 1 .. Len(Label) /\ Label[1] = Terminator
      BY <1>2, <2>1
    <3> QED BY <1>1, <1>2, <3>1, <3>2, TextIs
  <2>2. CASE mData[0] # Terminator
    <3>1. ASSUME NEW i \in 0 .. Len(t) PROVE mData[i] = b[i + 1]
      <4>1. i \in 0 .. N - 1
        BY <1>1, <1>2
      <4>2. \A j \in 1 .. i : j \in 1 .. Len(t)
        BY <1>1
      <4> QED BY <1>1, <1>3, <1>4, <2>2, <4>1, <4>2
    <3>2. ASSUME NEW j \in 1 .. Len(t) + 1 PROVE Label[j] = b[j]
      <4>1. j - 1 \in 0 .. Len(t) /\ j \in 1 .. N /\ (j - 1) + 1 = j
        BY <1>1, <1>2
      <4> QED BY <1>2, <3>1, <4>1
    <3>3. Len(t) + 1 \in 1 .. Len(Label) /\ Label[Len(t) + 1] = Terminator
      BY <1>1, <1>2, <3>2
    <3>4. \A j \in 1 .. (Len(t) + 1) - 1 : Label[j] = t[j] /\ t[j] # Terminator
      BY <1>1, <3>2
    <3>5. Label \in Seq(Values) /\ t \in Seq(Values)
      BY <1>1, <1>2
    <3>6. TextOf(Label) = t
      BY <3>3, <3>4, <3>5, TextIs
    <3> QED BY <1>2, <3>6
  <2> QED BY <2>1, <2>2
<1>5. ASSUME LabelText = t PROVE LabelEquals(t)
  <2> DEFINE n == End(Label)
  <2>1. /\ n \in 0 .. N
        /\ \A j \in 1 .. N : j < n => Label[j] # Terminator
        /\ 0 < n => Label[n] = Terminator
    BY <1>2, Ends
  <2>2. n # 0 /\ SubSeq(Label, 1, n - 1) = t
    BY <1>2, <1>5 DEF TextOf
  <2>3. \A i \in 1 .. n - 1 : Label[i] \in Values
    BY <1>2, <2>1, ElementOfSeq
  <2>4. Len(t) = n - 1 /\ \A i \in 1 .. n - 1 : t[i] = Label[i]
    BY <1>2, <2>1, <2>2, <2>3, SubSeqProperties
  <2> HIDE DEF n
  <2>5. \A j \in 1 .. Len(t) + 1 : Label[j] = b[j]
    BY <1>1, <2>1, <2>2, <2>4
  <2>6. CASE mData[0] = Terminator
    <3>1. Label[1] = Terminator
      BY <1>2, <2>6
    <3>2. ~(1 < n)
      BY <1>2, <2>1, <3>1
    <3>3. Len(t) = 0
      BY <1>1, <2>1, <2>2, <2>4, <3>2
    <3> QED BY <1>1, <1>3, <2>6, <3>3, EmptySeq
  <2>7. CASE mData[0] # Terminator
    <3>1. ASSUME NEW i \in 0 .. N - 1, \A j \in 1 .. i : b[j] # Terminator
          PROVE  mData[i] = b[i + 1]
      <4>1. ~(Len(t) + 1 <= i)
        BY <1>1, <3>1
      <4>2. i + 1 \in 1 .. Len(t) + 1 /\ i + 1 \in 1 .. N /\ (i + 1) - 1 = i
        BY <1>1, <1>2, <4>1
      <4> QED BY <1>2, <2>5, <4>2
    <3> QED BY <1>3, <2>7, <3>1
  <2> QED BY <2>6, <2>7
<1> QED BY <1>4, <1>5

LEMMA ContainsAgrees ==
    ASSUME NEW a \in Seq(Values), NEW b \in Seq(Values), 
           0 < End(a), End(a) = Len(a), 0 < End(b), End(b) = Len(b),
           ~IsEnd(TextOf(b), TextOf(a))
    PROVE  contains(a, b) <=> Occurs(TextOf(b), TextOf(a))
<1> DEFINE u == TextOf(a)
           t == TextOf(b)
<1>1. /\ Len(a) \in Nat \ {0} /\ a[Len(a)] = Terminator
      /\ \A j \in 1 .. Len(a) : j < Len(a) => a[j] # Terminator
      /\ Len(b) \in Nat \ {0} /\ b[Len(b)] = Terminator
  BY Ends
<1>2. u = SubSeq(a, 1, Len(a) - 1) /\ t = SubSeq(b, 1, Len(b) - 1)
  BY DEF TextOf
<1>3. /\ \A j \in 1 .. Len(a) - 1 : a[j] \in Values
      /\ \A j \in 1 .. Len(b) - 1 : b[j] \in Values
  BY <1>1, ElementOfSeq
<1>4. /\ u \in Seq(Values) /\ Len(u) = Len(a) - 1 /\ \A j \in 1 .. Len(a) - 1 : u[j] = a[j]
      /\ t \in Seq(Values) /\ Len(t) = Len(b) - 1 /\ \A j \in 1 .. Len(b) - 1 : t[j] = b[j]
  BY <1>1, <1>2, <1>3, SubSeqProperties
<1> HIDE DEF u, t
<1>5. DOMAIN t = 1 .. Len(b) - 1
  BY <1>4, LenProperties
<1>6. ASSUME NEW i \in 0 .. Len(a) - 1
      PROVE  (/\ i + Len(b) <= Len(a) /\ \A j \in 1 .. Len(b) - 1 : a[i + j] = b[j]
              /\ a[i + Len(b)] # b[Len(b)])
             <=> /\ i \in 0 .. Len(u) - Len(t) - 1
                 /\ \A j \in DOMAIN t : u[i + j] = t[j]
  <2>1. i + Len(b) <= Len(a) => i + Len(b) \in 1 .. Len(a)
    BY <1>1
  <2>2. (i + Len(b) <= Len(a) /\ a[i + Len(b)] # b[Len(b)]) <=> i \in 0 .. Len(u) - Len(t) - 1
    <3>1. i + Len(b) <= Len(a) => (a[i + Len(b)] # b[Len(b)] <=> i + Len(b) < Len(a))
      BY <1>1, <2>1
    <3> QED BY <1>1, <1>4, <3>1
  <2>3. ASSUME i \in 0 .. Len(u) - Len(t) - 1, NEW j \in 1 .. Len(b) - 1
        PROVE  u[i + j] = a[i + j] /\ t[j] = b[j]
    <3>1. i + j \in 1 .. Len(a) - 1
      BY <1>1, <1>4, <2>3
    <3> QED BY <1>4, <3>1
  <2> QED BY <1>5, <2>2, <2>3
<1>7. contains(a, b) <=> \E i \in 0 .. Len(a) - 1 : 
          /\ i + Len(b) <= Len(a) /\ \A j \in 1 .. Len(b) - 1 : a[i + j] = b[j]
          /\ a[i + Len(b)] # b[Len(b)]
  BY <1>1 DEF contains
<1>8. Occurs(t, u) <=> \E i \in 0 .. Len(u) - Len(t) - 1 : \A j \in DOMAIN t : u[i + j] = t[j]
  <2>1. \A i \in 0 .. Len(u) - Len(t) : 
           \/ i = Len(u) - Len(t) /\ Len(t) <= Len(u)
           \/ i \in 0 .. Len(u) - Len(t) - 1
    BY <1>1, <1>4
  <2>2. \A i \in 0 .. Len(u) - Len(t) - 1 : i \in 0 .. Len(u) - Len(t)
    BY <1>1, <1>4
  <2>3. ~IsEnd(t, u)
    BY DEF t, u
  <2> QED BY <2>1, <2>2, <2>3 DEF Occurs, IsEnd, OccursAt
<1>9. \A i \in 0 .. Len(u) - Len(t) - 1 : i \in 0 .. Len(a) - 1
  BY <1>1, <1>4
<1>10. contains(a, b) <=> Occurs(t, u)
  BY <1>6, <1>7, <1>8, <1>9
<1> QED BY <1>10 DEF t, u
-----------------------------------------------------------------------------
(***************************************************************************)
(* The inductive invariant of the strings.  One that owns memory has it    *)
(* for itself, exactly as long as its real size says; the others borrow a  *)
(* literal, or are empty.  Literals are never written to.                  *)
(***************************************************************************)
StringFieldsOK ==
    /\ mBuf \in [Buffers -> Memories \cup DOMAIN Foreign \cup {Null}]
    /\ mSize \in [Buffers -> 0 .. MaxSize]
    /\ mRealSize \in [Buffers -> 0 .. MaxSize + ChunkSize]
    /\ mData \in [0 .. N - 1 -> Values]

StringOK(m, n, real, c) ==
    /\ 0 < real => /\ m \in Memories \cap DOMAIN c /\ n <= real
                   /\ DOMAIN c[m] = 0 .. real - 1
    /\ real = 0 /\ 0 < n => m \in DOMAIN Foreign /\ n <= Foreign[m]
    /\ \A i \in 0 .. n - 1 : c[m][i] \in Values

StringsOK == \A b \in Buffers : StringOK(mBuf[b], mSize[b], mRealSize[b], cells)

Apart == \A b, o \in Buffers : 
    0 < mRealSize[b] => /\ mBuf[b] # array
                        /\ 0 < mRealSize[o] /\ mBuf[b] = mBuf[o] => b = o

LiteralCells(f) == [i \in 0 .. Foreign[f] - 1 |-> Literals[f][i + 1]]

LiteralsKept(c) == \A f \in DOMAIN Foreign : f \in DOMAIN c /\ c[f] = LiteralCells(f)

\* Of an array that was lost nothing is known any more.
Allocated == DOMAIN cells = DOMAIN Foreign \cup Owned \cup ({array} \ {Null})

ArrayOK ==
    /\ array = Null => ~strayed
    /\ array # Null => /\ array \in Memories \cap DOMAIN cells
                       /\ \E k \in Lengths : DOMAIN cells[array] = 0 .. k - 1

\* The blocks of the array tell whether the client has strayed, all others are
\* as they were constructed.
GuardsOK ==
    /\ DOMAIN guards = DOMAIN cells \ DOMAIN Foreign
    /\ \A m \in DOMAIN guards \ {array} : guards[m] = construct(Bytes(cells, m))
    /\ array # Null => (Corrupt(guards[array], Bytes(cells, array)) <=> strayed)

StringsInv ==
    /\ StringFieldsOK /\ StringsOK /\ Apart /\ LiteralsKept(cells)
    /\ Allocated /\ ArrayOK /\ GuardsOK
LEMMA StringFields ==
    ASSUME StringsInv, NEW b \in Buffers
    PROVE  /\ mBuf[b] \in Memories \cup DOMAIN Foreign \cup {Null}
           /\ mSize[b] \in 0 .. MaxSize /\ mSize[b] \in Nat
           /\ mRealSize[b] \in 0 .. MaxSize + ChunkSize /\ mRealSize[b] \in Nat
           /\ MaxSize \in Nat /\ ChunkSize \in Nat \ {0}
           /\ StringOK(mBuf[b], mSize[b], mRealSize[b], cells)
           /\ Owns(b) <=> 0 < mRealSize[b]
           /\ injected(b) <=> mRealSize[b] = 0 /\ 0 < mSize[b]
           /\ Usable(b) /\ Shaped(b)
<1>1. MaxSize \in Nat /\ ChunkSize \in Nat \ {0} /\ Null \notin Memories /\ Null \notin DOMAIN Foreign
  BY HeapBufferAssumption
<1>2. /\ mBuf[b] \in Memories \cup DOMAIN Foreign \cup {Null}
      /\ mSize[b] \in 0 .. MaxSize /\ mRealSize[b] \in 0 .. MaxSize + ChunkSize
      /\ StringOK(mBuf[b], mSize[b], mRealSize[b], cells)
  BY DEF StringsInv, StringFieldsOK, StringsOK
<1>3. mSize[b] \in Nat /\ mRealSize[b] \in Nat
  BY <1>1, <1>2
<1>4. 0 < mRealSize[b] => mBuf[b] # Null
  BY <1>1, <1>2 DEF StringOK
<1>5. mRealSize[b] = 0 /\ 0 < mSize[b] => mBuf[b] # Null /\ mBuf[b] \in DOMAIN Foreign
  BY <1>1, <1>2 DEF StringOK
<1>6. /\ Owns(b) <=> 0 < mRealSize[b]
      /\ injected(b) <=> mRealSize[b] = 0 /\ 0 < mSize[b]
  BY <1>3, <1>4, <1>5 DEF Owns, injected
<1>7. Usable(b)
  BY <1>5, <1>6 DEF Usable
<1>8. Shaped(b)
  BY <1>2, <1>3, <1>6 DEF Shaped, StringOK
<1> QED BY <1>1, <1>2, <1>3, <1>6, <1>7, <1>8

\* What a string holds.
LEMMA StringContents ==
    ASSUME StringsInv, NEW b \in Buffers
    PROVE  /\ contents[b] = Content(mBuf[b], mSize[b], cells)
           /\ contents[b] \in Seq(Values) /\ Len(contents[b]) = mSize[b]
           /\ \A j \in 1 .. mSize[b] : contents[b][j] = cells[mBuf[b]][j - 1]
<1>1. contents[b] = Content(mBuf[b], mSize[b], cells)
  BY StringFields DEF contents, Content
<1>2. mSize[b] \in Nat /\ \A i \in 0 .. mSize[b] - 1 : cells[mBuf[b]][i] \in Values
  BY StringFields DEF StringOK
<1>3. /\ Content(mBuf[b], mSize[b], cells) \in Seq(Values) 
      /\ Len(Content(mBuf[b], mSize[b], cells)) = mSize[b]
  BY <1>2, Contents
<1>4. \A j \in 1 .. mSize[b] : Content(mBuf[b], mSize[b], cells)[j] = cells[mBuf[b]][j - 1]
  BY DEF Content
<1> QED BY <1>1, <1>3, <1>4

LEMMA StringOffers ==
    ASSUME NEW chunk \in Nat, NEW m \in Offered(chunk)
    PROVE  /\ chunk = 0 => m = Null
           /\ 0 < chunk => m \in Memories \ DOMAIN cells /\ m # Null /\ m \notin DOMAIN Foreign
BY HeapBufferAssumption DEF Offered
-----------------------------------------------------------------------------
(***************************************************************************)
(* What the operations of a string have in common: it has its characters   *)
(* in memory m now, and no other memory has changed.                       *)
(***************************************************************************)
Settled(s, m, n, real, c) ==
    /\ m \in Memories \cup DOMAIN Foreign \cup {Null}
    /\ n \in 0 .. MaxSize /\ real \in 0 .. MaxSize + ChunkSize
    /\ DOMAIN c = Rest(s) \cup Got(m, real)
    /\ \A x \in Rest(s) : ~(0 < real /\ x = m) => c[x] = cells[x]
    /\ 0 < real => /\ m \in Memories /\ n <= real /\ DOMAIN c[m] = 0 .. real - 1
                   /\ m \in DOMAIN cells => Owns(s) /\ m = mBuf[s] /\ real = mRealSize[s]
    /\ real = 0 /\ 0 < n => m \in DOMAIN Foreign /\ n <= Foreign[m]
    /\ \A i \in 0 .. n - 1 : c[m][i] \in Values

LEMMA StringSettles ==
    ASSUME StringsInv, NEW s \in Buffers, NEW m, NEW n, NEW real,
           Settled(s, m, n, real, cells'), SetFields(s, m, n, real), Allocator, KeepsClient
    PROVE  /\ StringsInv' 
           /\ contents' = [contents EXCEPT ![s] = Content(m, n, cells')]
<1>1. /\ mBuf'[s] = m /\ mSize'[s] = n /\ mRealSize'[s] = real
      /\ \A o \in Buffers \ {s} : /\ mBuf'[o] = mBuf[o] /\ mSize'[o] = mSize[o]
                                  /\ mRealSize'[o] = mRealSize[o]
  BY DEF SetFields, StringsInv, StringFieldsOK
<1>2. array' = array /\ strayed' = strayed /\ mData' = mData
  BY DEF KeepsClient
<1>3. StringFieldsOK'
  <2>1. mBuf' \in [Buffers -> Memories \cup DOMAIN Foreign \cup {Null}]
    BY DEF SetFields, StringsInv, StringFieldsOK, Settled
  <2>2. mSize' \in [Buffers -> 0 .. MaxSize]
    BY DEF SetFields, StringsInv, StringFieldsOK, Settled
  <2>3. mRealSize' \in [Buffers -> 0 .. MaxSize + ChunkSize]
    BY DEF SetFields, StringsInv, StringFieldsOK, Settled
  <2>4. mData' \in [0 .. N - 1 -> Values]
    BY <1>2 DEF StringsInv, StringFieldsOK
  <2> QED BY <2>1, <2>2, <2>3, <2>4 DEF StringFieldsOK
<1>4. ASSUME 0 < real PROVE m # array /\ \A o \in Buffers \ {s} : 0 < mRealSize[o] => mBuf[o] # m
  <2>1. m \in Memories /\ (m \in DOMAIN cells => 0 < mRealSize[s] /\ m = mBuf[s])
    BY <1>4, StringFields DEF Settled
  <2>2. array # Null => array \in DOMAIN cells
    BY DEF StringsInv, ArrayOK
  <2>3. m # Null
    BY <2>1, HeapBufferAssumption
  <2>4. m # array
    BY <2>1, <2>2, <2>3 DEF StringsInv, Apart
  <2>5. ASSUME NEW o \in Buffers \ {s}, 0 < mRealSize[o] PROVE mBuf[o] # m
    <3>1. mBuf[o] \in DOMAIN cells
      BY <2>5, StringFields DEF StringOK
    <3> QED BY <2>1, <2>5, <3>1 DEF StringsInv, Apart
  <2> QED BY <2>4, <2>5
<1>5. Apart'
  <2> SUFFICES ASSUME NEW x \in Buffers, NEW y \in Buffers, 0 < mRealSize'[x]
               PROVE  mBuf'[x] # array' /\ (0 < mRealSize'[y] /\ mBuf'[x] = mBuf'[y] => x = y)
    BY DEF Apart
  <2>1. CASE x # s
    <3>1. mBuf[x] # array /\ (\A o \in Buffers : 0 < mRealSize[o] /\ mBuf[x] = mBuf[o] => x = o)
      BY <1>1, <2>1 DEF StringsInv, Apart
    <3>2. CASE y # s
      BY <1>1, <1>2, <2>1, <3>1, <3>2
    <3>3. CASE y = s
      BY <1>1, <1>2, <1>4, <2>1, <3>1, <3>3
    <3> QED BY <3>2, <3>3
  <2>2. CASE x = s
    BY <1>1, <1>2, <1>4, <2>2
  <2> QED BY <2>1, <2>2
\* Memory that another string or the client has is not touched.
<1>6. ASSUME NEW x \in DOMAIN cells, Owns(s) => x # mBuf[s]
      PROVE  x \in DOMAIN cells' /\ cells'[x] = cells[x] /\ (0 < real => x # m)
  <2>1. x \in Rest(s)
    BY <1>6 DEF Rest
  <2>2. 0 < real => x # m
    BY <1>6 DEF Settled
  <2> QED BY <2>1, <2>2 DEF Settled
<1>7. ASSUME NEW o \in Buffers \ {s} PROVE StringOK(mBuf[o], mSize[o], mRealSize[o], cells')
  <2>1. /\ StringOK(mBuf[o], mSize[o], mRealSize[o], cells)
        /\ mSize[o] \in Nat /\ mRealSize[o] \in Nat
    BY StringFields
  <2>2. ASSUME 0 < mRealSize[o] \/ 0 < mSize[o]
        PROVE  mBuf[o] \in DOMAIN cells' /\ cells'[mBuf[o]] = cells[mBuf[o]]
    <3>1. mBuf[o] \in DOMAIN cells /\ (0 < mRealSize[o] \/ mBuf[o] \in DOMAIN Foreign)
      BY <2>1, <2>2 DEF StringOK, StringsInv, LiteralsKept
    <3>2. Owns(s) => mBuf[o] # mBuf[s]
      <4> SUFFICES ASSUME Owns(s), mBuf[o] = mBuf[s] PROVE FALSE
        OBVIOUS
      <4>1. 0 < mRealSize[s] /\ mBuf[s] \in Memories
        BY StringFields DEF StringOK
      <4>2. 0 < mRealSize[o]
        BY <3>1, <4>1, HeapBufferAssumption
      <4> QED BY <4>1, <4>2 DEF StringsInv, Apart
    <3> QED BY <1>6, <3>1, <3>2
  <2>3. ~(0 < mSize[o]) => 0 .. mSize[o] - 1 = {}
    BY <2>1
  <2> QED BY <2>1, <2>2, <2>3 DEF StringOK
<1>8. StringOK(m, n, real, cells')
  BY DEF Settled, StringOK, Got
<1>9. StringsOK'
  BY <1>1, <1>7, <1>8 DEF StringsOK
<1>10. ASSUME NEW f \in DOMAIN Foreign PROVE f \in DOMAIN cells' /\ cells'[f] = cells[f] /\ f \in DOMAIN cells
  <2>1. f \in DOMAIN cells
    BY DEF StringsInv, LiteralsKept
  <2>2. Owns(s) => f # mBuf[s]
    BY StringFields, HeapBufferAssumption DEF StringOK
  <2> QED BY <1>6, <2>1, <2>2
<1>11. LiteralsKept(cells')
  BY <1>10 DEF StringsInv, LiteralsKept
<1>12. array # Null => array \in Memories /\ array \in DOMAIN cells' /\ cells'[array] = cells[array]
  <2> SUFFICES ASSUME array # Null
               PROVE  array \in Memories /\ array \in DOMAIN cells' /\ cells'[array] = cells[array]
    OBVIOUS
  <2>1. array \in Memories /\ array \in DOMAIN cells
    BY DEF StringsInv, ArrayOK
  <2>2. Owns(s) => array # mBuf[s]
    BY StringFields DEF StringsInv, Apart
  <2> QED BY <1>6, <2>1, <2>2
<1>13. ArrayOK'
  BY <1>2, <1>12 DEF StringsInv, ArrayOK
<1>14. Allocated'
  <2>1. \A x \in Owned' : x \in DOMAIN cells'
    BY <1>9 DEF Owned, StringsOK, StringOK
  <2>2. ASSUME NEW x \in DOMAIN cells' PROVE x \in DOMAIN Foreign \cup Owned' \cup ({array'} \ {Null})
    <3>1. CASE 0 < real /\ x = m
      BY <1>1, <3>1 DEF Owned
    <3>2. CASE ~(0 < real /\ x = m)
      <4>1. x \in DOMAIN Foreign \cup Owned \cup ({array} \ {Null}) /\ (Owns(s) => x # mBuf[s])
        BY <3>2 DEF StringsInv, Allocated, Settled, Rest, Got
      <4>2. CASE x \in Owned
        <5>1. PICK o \in Buffers : 0 < mRealSize[o] /\ x = mBuf[o]
          BY <4>2 DEF Owned
        <5>2. o # s
          BY <4>1, <5>1, StringFields
        <5> QED BY <1>1, <5>1, <5>2 DEF Owned
      <4> QED BY <1>2, <4>1, <4>2
    <3> QED BY <3>1, <3>2
  <2> QED BY <1>2, <1>10, <1>12, <2>1, <2>2 DEF Allocated
<1>15. GuardsOK'
  <2>1. guards' = [x \in DOMAIN cells' \ DOMAIN Foreign |->
                     IF x \in DOMAIN cells THEN guards[x] ELSE construct(Bytes(cells', x))]
    BY DEF Allocator, Guarded
  <2>2. DOMAIN guards' = DOMAIN cells' \ DOMAIN Foreign
    BY <2>1
  <2>3. ASSUME NEW x \in DOMAIN guards' \ {array'} PROVE guards'[x] = construct(Bytes(cells', x))
    <3>1. x \in DOMAIN cells' /\ x \notin DOMAIN Foreign /\ x # array
      BY <1>2, <2>2
    <3>2. CASE x \in DOMAIN cells
      <4>1. guards'[x] = guards[x] /\ guards[x] = construct(Bytes(cells, x))
        BY <2>1, <3>1, <3>2 DEF StringsInv, GuardsOK
      <4>2. DOMAIN cells'[x] = DOMAIN cells[x]
        <5>1. CASE Owns(s) /\ x = mBuf[s]
          <6>1. 0 < real /\ x = m /\ real = mRealSize[s] /\ DOMAIN cells'[m] = 0 .. real - 1
            BY <3>1, <3>2, <5>1 DEF Settled, Rest, Got
          <6>2. DOMAIN cells[mBuf[s]] = 0 .. mRealSize[s] - 1
            BY <5>1, StringFields DEF StringOK
          <6> QED BY <5>1, <6>1, <6>2
        <5>2. CASE Owns(s) => x # mBuf[s]
          BY <1>6, <3>2, <5>2
        <5> QED BY <5>1, <5>2
      <4> QED BY <4>1, <4>2 DEF Bytes
    <3>3. CASE x \notin DOMAIN cells
      BY <2>1, <3>1, <3>3
    <3> QED BY <3>2, <3>3
  <2>4. array' # Null => (Corrupt(guards'[array'], Bytes(cells', array')) <=> strayed')
    <3> SUFFICES ASSUME array # Null
                 PROVE  Corrupt(guards'[array], Bytes(cells', array)) <=> strayed
      BY <1>2
    <3>1. array \in DOMAIN cells /\ array \in DOMAIN cells' /\ array \notin DOMAIN Foreign
      BY <1>12, HeapBufferAssumption DEF StringsInv, ArrayOK
    <3>2. guards'[array] = guards[array]
      BY <2>1, <3>1
    <3>3. Bytes(cells', array) = Bytes(cells, array)
      BY <1>12 DEF Bytes
    <3> QED BY <3>2, <3>3 DEF StringsInv, GuardsOK
  <2> QED BY <2>2, <2>3, <2>4 DEF GuardsOK
<1>16. contents' = [contents EXCEPT ![s] = Content(m, n, cells')]
  <2>1. StringsInv'
    BY <1>3, <1>5, <1>9, <1>11, <1>13, <1>14, <1>15 DEF StringsInv
  <2> DEFINE view(o) == IF Usable(o) THEN [j \in 1 .. mSize[o] |-> cells[mBuf[o]][j - 1]] ELSE <<>>
  <2>2. contents = [o \in Buffers |-> view(o)] /\ contents' = [o \in Buffers |-> view(o)']
    BY DEF contents
  <2>3. Usable(s)' /\ \A o \in Buffers : Usable(o) /\ Usable(o)'
    <3>1. \A o \in Buffers : Usable(o)
      BY StringFields
    <3>2. ASSUME NEW o \in Buffers PROVE Usable(o)'
      <4>1. StringOK(mBuf'[o], mSize'[o], mRealSize'[o], cells')
        BY <1>9 DEF StringsOK
      <4> QED BY <4>1 DEF Usable, injected, StringOK
    <3> QED BY <3>1, <3>2
  <2>4. view(s)' = Content(m, n, cells')
    BY <1>1, <2>3 DEF Content
  <2>5. ASSUME NEW o \in Buffers \ {s} PROVE view(o)' = view(o)
    <3>1. mBuf'[o] = mBuf[o] /\ mSize'[o] = mSize[o] /\ Usable(o) /\ Usable(o)' /\ mSize[o] \in Nat
      BY <1>1, <2>3, StringFields
    <3>2. CASE 0 < mSize[o]
      <4>1. /\ StringOK(mBuf[o], mSize[o], mRealSize[o], cells)
            /\ mRealSize[o] \in Nat
        BY StringFields
      <4>2. mBuf[o] \in DOMAIN cells /\ (0 < mRealSize[o] \/ mBuf[o] \in DOMAIN Foreign)
        BY <3>2, <4>1 DEF StringOK, StringsInv, LiteralsKept
      <4>3. Owns(s) => mBuf[o] # mBuf[s]
        <5> SUFFICES ASSUME Owns(s), mBuf[o] = mBuf[s] PROVE FALSE
          OBVIOUS
        <5>1. 0 < mRealSize[s] /\ mBuf[s] \in Memories
          BY StringFields DEF StringOK
        <5>2. 0 < mRealSize[o]
          BY <4>2, <5>1, HeapBufferAssumption
        <5> QED BY <5>1, <5>2 DEF StringsInv, Apart
      <4>4. cells'[mBuf[o]] = cells[mBuf[o]]
        BY <1>6, <4>2, <4>3
      <4> QED BY <3>1, <4>4
    <3>3. CASE ~(0 < mSize[o])
      <4>1. 1 .. mSize[o] = {}
        BY <3>1, <3>3
      <4> QED BY <3>1, <4>1
    <3> QED BY <3>2, <3>3
  <2> HIDE DEF view
  <2> QED BY <2>2, <2>4, <2>5
<1> QED BY <1>3, <1>5, <1>9, <1>11, <1>13, <1>14, <1>15, <1>16 DEF StringsInv
-----------------------------------------------------------------------------
(***************************************************************************)
(* The operations of a string                                              *)
(***************************************************************************)
LEMMA SetStringKeeps ==
    ASSUME StringsInv, Roomy, NEW s \in Buffers, NEW chars \in Seq(Values), Len(chars) <= MaxSize,
           SetString(s, chars)
    PROVE  StringsInv' /\ contents' = [contents EXCEPT ![s] = chars]
<1> DEFINE n == Len(chars)
           chunk == closestChunkSize(n)
           cleared == Cleared(s)
<1>1. /\ Set(s, chars) /\ Allocator /\ KeepsClient
  BY DEF SetString
<1>2. n \in Nat /\ n \in 0 .. MaxSize /\ DOMAIN chars = 1 .. n /\ \A j \in 1 .. n : chars[j] \in Values
  BY HeapBufferAssumption, LenProperties, ElementOfSeq
<1>3. DOMAIN cleared = Rest(s) /\ \A x \in Rest(s) : cleared[x] = cells[x]
  BY DEF Cleared, Rest
<1>4. CASE n = 0
  <2> DEFINE m == IF Owns(s) THEN Null ELSE mBuf[s]
  <2>1. cells' = cleared /\ SetFields(s, m, 0, 0)
    BY <1>1, <1>4 DEF Set
  <2>2. m \in Memories \cup DOMAIN Foreign \cup {Null} /\ 0 \in 0 .. MaxSize /\ 0 \in 0 .. MaxSize + ChunkSize
    BY <1>2, StringFields
  <2> HIDE DEF m, cleared
  <2>3. Settled(s, m, 0, 0, cells')
    BY <1>3, <2>1, <2>2 DEF Settled, Got
  <2>4. StringsInv' /\ contents' = [contents EXCEPT ![s] = Content(m, 0, cells')]
    BY <1>1, <2>1, <2>3, StringSettles
  <2>5. Content(m, 0, cells') = <<>> /\ chars = <<>>
    BY <1>4, EmptySeq DEF Content
  <2> QED BY <2>4, <2>5
<1>5. CASE 0 < n
  <2>1. PICK m \in Offered(chunk) :
          /\ cells' = [x \in DOMAIN cleared \cup {m} |->
                         IF x = m 
                         THEN [i \in 0 .. RoomFor(chunk) - 1 |-> IF i < n THEN chars[i + 1] ELSE Raw]
                         ELSE cleared[x]]
          /\ SetFields(s, m, n, chunk)
    <3>1. ~(n = 0)
      BY <1>5
    <3> QED BY <1>1, <3>1, Zenon DEF Set
  <2>2. chunk \in 0 .. MaxSize + ChunkSize /\ n <= chunk /\ RoomFor(chunk) = chunk /\ chunk \in Nat
    BY <1>2, Chunks, Rooms, HeapBufferAssumption
  <2>3. 0 < chunk /\ m \in Memories \ DOMAIN cells
    BY <1>2, <1>5, <2>2, StringOffers
  <2> HIDE DEF cleared, chunk
  <2>4. /\ DOMAIN cells' = Rest(s) \cup Got(m, chunk)
        /\ \A x \in Rest(s) : x # m => cells'[x] = cells[x]
    BY <1>3, <2>1, <2>3 DEF Got
  <2>5. cells'[m] = [i \in 0 .. chunk - 1 |-> IF i < n THEN chars[i + 1] ELSE Raw]
    BY <2>1, <2>2
  <2>6. \A i \in 0 .. n - 1 : i \in 0 .. chunk - 1 /\ i < n /\ i + 1 \in 1 .. n
    BY <1>2, <2>2
  <2>7. \A i \in 0 .. n - 1 : cells'[m][i] = chars[i + 1]
    BY <2>5, <2>6
  <2>8. Settled(s, m, n, chunk, cells')
    BY <1>2, <2>2, <2>3, <2>4, <2>5, <2>6, <2>7 DEF Settled
  <2>9. StringsInv' /\ contents' = [contents EXCEPT ![s] = Content(m, n, cells')]
    BY <1>1, <2>1, <2>8, StringSettles
  <2>10. Content(m, n, cells') = chars
    <3>1. \A i \in 0 .. n - 1 : cells'[m][i] \in Values
      BY <1>2, <2>6, <2>7
    <3>2. Content(m, n, cells') \in Seq(Values) /\ Len(Content(m, n, cells')) = n
      BY <1>2, <3>1, Contents
    <3>3. \A j \in 1 .. n : Content(m, n, cells')[j] = chars[j]
      <4>1. \A j \in 1 .. n : j - 1 \in 0 .. n - 1 /\ (j - 1) + 1 = j
        BY <1>2
      <4> QED BY <2>7, <4>1 DEF Content
    <3> QED BY <3>2, <3>3, SeqEqual
  <2> QED BY <2>9, <2>10
<1> QED BY <1>2, <1>4, <1>5

LEMMA DestroyStringKeeps ==
    ASSUME StringsInv, NEW s \in Buffers, DestroyString(s)
    PROVE  StringsInv' /\ contents' = [contents EXCEPT ![s] = <<>>]
<1>1. cells' = Cleared(s) /\ SetFields(s, Null, 0, 0) /\ Allocator /\ KeepsClient
  BY DEF DestroyString, Destroy
<1>2. DOMAIN cells' = Rest(s) /\ \A x \in Rest(s) : cells'[x] = cells[x]
  BY <1>1 DEF Cleared, Rest
<1>3. 0 \in 0 .. MaxSize /\ 0 \in 0 .. MaxSize + ChunkSize
  BY StringFields
<1>4. Settled(s, Null, 0, 0, cells')
  BY <1>2, <1>3 DEF Settled, Got
<1>5. StringsInv' /\ contents' = [contents EXCEPT ![s] = Content(Null, 0, cells')]
  BY <1>1, <1>4, StringSettles
<1>6. Content(Null, 0, cells') = <<>>
  BY DEF Content
<1> QED BY <1>5, <1>6

\* A literal ends with its terminator, as all that clients give to strings.
LEMMA LiteralTexts ==
    ASSUME StringsInv, NEW f \in DOMAIN Foreign
    PROVE  \E t \in Phrases : Literals[f] = CString(t) /\ Content(f, Foreign[f], cells) = CString(t)
<1>1. PICK t \in Phrases : Literals[f] = CString(t) /\ Foreign[f] = Len(CString(t))
  BY StringsAssumption DEF CString
<1>2. DOMAIN CString(t) = 1 .. Foreign[f] /\ Foreign[f] \in Nat /\ CString(t) \in Seq(Values)
  BY <1>1, CStrings
<1>3. cells[f] = [i \in 0 .. Foreign[f] - 1 |-> CString(t)[i + 1]]
  BY <1>1 DEF StringsInv, LiteralsKept, LiteralCells
<1>4. \A j \in 1 .. Foreign[f] : j - 1 \in 0 .. Foreign[f] - 1 /\ (j - 1) + 1 = j
  BY <1>2
<1>5. Content(f, Foreign[f], cells) = [j \in 1 .. Foreign[f] |-> CString(t)[j]]
  BY <1>3, <1>4 DEF Content
<1>6. CString(t) = [j \in 1 .. Foreign[f] |-> CString(t)[j]]
  BY <1>2
<1> QED BY <1>1, <1>5, <1>6

LEMMA SetInjectedKeeps ==
    ASSUME StringsInv, NEW s \in Buffers, NEW f \in DOMAIN Foreign, SetInjected(s, f)
    PROVE  StringsInv' /\ \E t \in Phrases : contents' = [contents EXCEPT ![s] = CString(t)]
<1>1. /\ cells' = [x \in DOMAIN Cleared(s) |-> IF x = f THEN cells[f] ELSE cells[x]]
      /\ SetFields(s, f, Foreign[f], 0) /\ Allocator /\ KeepsClient
  BY DEF SetInjected, Borrow
<1>2. DOMAIN cells' = Rest(s) /\ \A x \in Rest(s) : cells'[x] = cells[x]
  BY <1>1 DEF Cleared, Rest
<1>3. Foreign[f] \in 0 .. MaxSize /\ 0 \in 0 .. MaxSize + ChunkSize /\ Foreign[f] \in Nat
  BY HeapBufferAssumption, StringFields
<1>4. PICK t \in Phrases : Literals[f] = CString(t) /\ Content(f, Foreign[f], cells) = CString(t)
  BY LiteralTexts
<1>5. f \in Rest(s)
  <2>1. f \in DOMAIN cells
    BY DEF StringsInv, LiteralsKept
  <2>2. Owns(s) => f # mBuf[s]
    BY StringFields, HeapBufferAssumption DEF StringOK
  <2> QED BY <2>1, <2>2 DEF Rest
<1>6. cells'[f] = cells[f]
  BY <1>2, <1>5
<1>7. \A i \in 0 .. Foreign[f] - 1 : cells'[f][i] \in Values
  <2>1. cells[f] = [i \in 0 .. Foreign[f] - 1 |-> Literals[f][i + 1]]
    BY DEF StringsInv, LiteralsKept, LiteralCells
  <2>2. Literals[f] \in Seq(Values) /\ Foreign[f] = Len(Literals[f])
    BY <1>4, CStrings, StringsAssumption
  <2>3. \A i \in 0 .. Foreign[f] - 1 : i + 1 \in 1 .. Len(Literals[f])
    BY <1>3, <2>2
  <2> QED BY <1>6, <2>1, <2>2, <2>3, ElementOfSeq
<1>8. Settled(s, f, Foreign[f], 0, cells')
  BY <1>2, <1>3, <1>7 DEF Settled, Got
<1>9. StringsInv' /\ contents' = [contents EXCEPT ![s] = Content(f, Foreign[f], cells')]
  BY <1>1, <1>8, StringSettles
<1>10. Content(f, Foreign[f], cells') = CString(t)
  BY <1>4, <1>6 DEF Content
<1> QED BY <1>9, <1>10

\* reserve() of a string that does not borrow, to as much as it has or more.
LEMMA ReserveStringKeeps ==
    ASSUME StringsInv, Roomy, ~ReservesBorrowed, NEW s \in Buffers, NEW n \in 0 .. MaxSize, ReserveString(s, n)
    PROVE  StringsInv' /\ contents' = contents
<1>1. /\ ~injected(s) /\ mRealSize[s] <= n /\ Allocator /\ KeepsClient
  BY DEF ReserveString, Reserve
<1>2. PICK m \in Offered(n) : cells' = Moved(s, n, m, cells) /\ SetFields(s, m, mSize[s], n)
  BY DEF ReserveString, Reserve
<1>3. /\ mSize[s] \in Nat /\ mRealSize[s] \in Nat /\ MaxSize \in Nat /\ ChunkSize \in Nat
      /\ StringOK(mBuf[s], mSize[s], mRealSize[s], cells)
      /\ mSize[s] \in 0 .. MaxSize
      /\ Owns(s) <=> 0 < mRealSize[s]
      /\ injected(s) <=> mRealSize[s] = 0 /\ 0 < mSize[s]
  BY StringFields
<1>4. n \in 0 .. MaxSize + ChunkSize /\ n \in Nat
  BY <1>3
<1>5. Settles(cells', s, n, m, cells)
  BY <1>2, <1>3, <1>4, MovedMemory
<1>6. mSize[s] <= n /\ (0 < mSize[s] => 0 < n /\ mBuf[s] # Null)
  <2>1. 0 < mSize[s] => 0 < mRealSize[s] /\ mSize[s] <= mRealSize[s]
    BY <1>1, <1>3 DEF StringOK
  <2> QED BY <1>1, <1>3, <1>4, <2>1 DEF Owns
<1>7. /\ n = 0 => m = Null
      /\ 0 < n => m \in Memories \ DOMAIN cells
  BY <1>4, StringOffers
<1>8. \A i \in 0 .. mSize[s] - 1 : cells'[m][i] = cells[mBuf[s]][i]
  <2> SUFFICES ASSUME NEW i \in 0 .. mSize[s] - 1 PROVE cells'[m][i] = cells[mBuf[s]][i]
    OBVIOUS
  <2>1. 0 < mSize[s] /\ i \in 0 .. n - 1 /\ i < mSize[s]
    BY <1>3, <1>4, <1>6
  <2> QED BY <1>5, <1>6, <2>1 DEF Settles
<1>9. /\ \A x \in Rest(s) : x # m => cells'[x] = cells[x]
      /\ DOMAIN cells' = Rest(s) \cup Got(m, n)
      /\ 0 < n => DOMAIN cells'[m] = 0 .. n - 1
  BY <1>5 DEF Settles
<1>10. n = 0 => \A x \in Rest(s) : cells'[x] = cells[x]
  <2> SUFFICES ASSUME n = 0, NEW x \in Rest(s) PROVE cells'[x] = cells[x]
    OBVIOUS
  <2>1. x # Null
    BY HeapBufferAssumption DEF StringsInv, Allocated, Owned, Rest, StringsOK, StringOK
  <2> QED BY <1>7, <1>9, <2>1
<1>11. Settled(s, m, mSize[s], n, cells')
  <2>1. \A i \in 0 .. mSize[s] - 1 : cells'[m][i] \in Values
    BY <1>3, <1>8 DEF StringOK
  <2>2. m \in Memories \cup DOMAIN Foreign \cup {Null}
    BY <1>4, <1>7
  <2>3. ~(n = 0 /\ 0 < mSize[s])
    BY <1>6
  <2> QED BY <1>3, <1>4, <1>6, <1>7, <1>9, <1>10, <2>1, <2>2, <2>3 DEF Settled
<1>12. StringsInv' /\ contents' = [contents EXCEPT ![s] = Content(m, mSize[s], cells')]
  BY <1>1, <1>2, <1>11, StringSettles
<1>13. Content(m, mSize[s], cells') = Content(mBuf[s], mSize[s], cells)
  <2>1. \A j \in 1 .. mSize[s] : j - 1 \in 0 .. mSize[s] - 1
    BY <1>3
  <2> QED BY <1>8, <2>1 DEF Content
<1>14. contents[s] = Content(mBuf[s], mSize[s], cells) /\ contents = [contents EXCEPT ![s] = contents[s]]
  BY StringContents DEF contents
<1> QED BY <1>12, <1>13, <1>14

LEMMA SetCharKeeps ==
    ASSUME StringsInv, NEW s \in Buffers, NEW i \in 0 .. MaxSize - 1, NEW c \in Typed, SetChar(s, i, c)
    PROVE  StringsInv' /\ i + 1 \in DOMAIN contents[s] /\ contents' = [contents EXCEPT ![s][i + 1] = c]
<1>1. /\ ~injected(s) /\ i < mSize[s] /\ cells' = Written(cells, mBuf[s], i, i + 1, c)
      /\ mBuf' = mBuf /\ mSize' = mSize /\ mRealSize' = mRealSize /\ Allocator /\ KeepsClient
  BY DEF SetChar
<1>2. /\ mSize[s] \in Nat /\ mRealSize[s] \in Nat /\ MaxSize \in Nat /\ ChunkSize \in Nat
      /\ StringOK(mBuf[s], mSize[s], mRealSize[s], cells)
      /\ mSize[s] \in 0 .. MaxSize /\ mRealSize[s] \in 0 .. MaxSize + ChunkSize
      /\ mBuf[s] \in Memories \cup DOMAIN Foreign \cup {Null}
      /\ Owns(s) <=> 0 < mRealSize[s]
      /\ injected(s) <=> mRealSize[s] = 0 /\ 0 < mSize[s]
  BY StringFields
<1>3. i \in Int /\ i + 1 \in Int /\ c \in Values /\ i \in Nat /\ 0 < mSize[s]
  BY <1>1, <1>2, StringsAssumption
<1> DEFINE m == mBuf[s]
           n == mSize[s]
           real == mRealSize[s]
<1>4. 0 < real /\ Owns(s) /\ m \in Memories /\ m \in DOMAIN cells /\ n <= real
      /\ DOMAIN cells[m] = 0 .. real - 1
  BY <1>1, <1>2, <1>3 DEF StringOK
<1>5. Writes(cells', cells, m, i, i + 1, c)
  BY <1>1, <1>3, WrittenCells
<1>6. SetFields(s, m, n, real)
  BY <1>1 DEF SetFields, StringsInv, StringFieldsOK
<1>7. \A k \in 0 .. n - 1 : cells'[m][k] = IF k = i THEN c ELSE cells[m][k]
  <2> SUFFICES ASSUME NEW k \in 0 .. n - 1 PROVE cells'[m][k] = IF k = i THEN c ELSE cells[m][k]
    OBVIOUS
  <2>1. k \in DOMAIN cells[m] /\ k \in Int /\ (i <= k /\ k < i + 1 <=> k = i)
    BY <1>2, <1>3, <1>4
  <2> QED BY <1>4, <1>5, <2>1 DEF Writes
<1>8. Settled(s, m, n, real, cells')
  <2>1. DOMAIN cells' = Rest(s) \cup Got(m, real)
    BY <1>4, <1>5 DEF Writes, Rest, Got
  <2>2. \A x \in Rest(s) : ~(0 < real /\ x = m) => cells'[x] = cells[x]
    BY <1>4, <1>5 DEF Writes, Rest
  <2>3. DOMAIN cells'[m] = 0 .. real - 1
    BY <1>4, <1>5 DEF Writes
  <2>4. \A k \in 0 .. n - 1 : cells'[m][k] \in Values
    BY <1>2, <1>3, <1>7 DEF StringOK
  <2> HIDE DEF m, n, real
  <2>5. m = mBuf[s] /\ n = mSize[s] /\ real = mRealSize[s]
    BY DEF m, n, real
  <2>6. ~(real = 0)
    BY <1>4
  <2> QED BY <1>2, <1>4, <2>1, <2>2, <2>3, <2>4, <2>5, <2>6 DEF Settled
<1>9. StringsInv' /\ contents' = [contents EXCEPT ![s] = Content(m, n, cells')]
  BY <1>1, <1>6, <1>8, StringSettles
<1>10. /\ contents[s] = Content(m, n, cells) /\ DOMAIN contents[s] = 1 .. n
  BY StringContents, LenProperties
<1>11. i + 1 \in 1 .. n
  BY <1>1, <1>2, <1>3
<1>12. Content(m, n, cells') = [Content(m, n, cells) EXCEPT ![i + 1] = c]
  <2>1. \A j \in 1 .. n : j - 1 \in 0 .. n - 1 /\ (j - 1 = i <=> j = i + 1)
    BY <1>2, <1>3
  <2> HIDE DEF m, n, real
  <2> QED BY <1>7, <2>1 DEF Content
<1>13. contents' = [contents EXCEPT ![s] = [contents[s] EXCEPT ![i + 1] = c]]
  BY <1>9, <1>10, <1>12
<1> QED BY <1>9, <1>10, <1>11, <1>13
-----------------------------------------------------------------------------
(***************************************************************************)
(* resize(n, true), which append() and prepend() begin with: the string    *)
(* has as much memory as n rounds up to, with what it held and terminators *)
(* after that.                                                             *)
(***************************************************************************)
Regrown(s, n, m, real, c) ==
    /\ n <= real /\ real \in 0 .. MaxSize + ChunkSize
    /\ Settled(s, m, n, real, c)
    /\ \A i \in 0 .. n - 1 : 
          c[m][i] = IF i < mSize[s] THEN cells[mBuf[s]][i] ELSE Terminator

LEMMA RegrownMoves ==
    ASSUME StringsInv, Roomy, NEW s \in Buffers, NEW n \in 0 .. MaxSize, 
           Reallocates(s, n, TRUE), NEW m \in Offered(closestChunkSize(n))
    PROVE  Regrown(s, n, m, closestChunkSize(n), Resized(s, n, TRUE, m))
<1> DEFINE chunk == closestChunkSize(n)
           d == Destroyed(s, n)
           moved == Moved(s, chunk, m, d)
           settled == Resettled(s, n, chunk, m)
           c == Resized(s, n, TRUE, m)
<1>1. /\ mSize[s] \in Nat /\ mRealSize[s] \in Nat /\ MaxSize \in Nat /\ ChunkSize \in Nat
      /\ StringOK(mBuf[s], mSize[s], mRealSize[s], cells)
      /\ Owns(s) <=> 0 < mRealSize[s]
      /\ injected(s) <=> mRealSize[s] = 0 /\ 0 < mSize[s]
      /\ Shaped(s)
      /\ n \in Nat /\ n \in Int /\ mSize[s] \in Int
  BY StringFields
<1>2. chunk \in 0 .. MaxSize + ChunkSize /\ chunk \in Nat /\ n <= chunk /\ (n = 0 => chunk = 0)
  BY <1>1, Chunks
<1>3. /\ chunk = 0 => m = Null
      /\ 0 < chunk => m \in Memories \ DOMAIN cells /\ m # Null
  BY <1>2, StringOffers
<1>4. /\ DOMAIN d = DOMAIN cells
      /\ \A x \in DOMAIN cells : x # mBuf[s] \/ ~Owns(s) => d[x] = cells[x]
      /\ Owns(s) => \A i \in DOMAIN cells[mBuf[s]] : 
                      d[mBuf[s]][i] = IF n <= i /\ i < mSize[s] THEN Raw ELSE cells[mBuf[s]][i]
  BY <1>1, DestroyedMemory
<1> HIDE DEF chunk, d
<1>5. Settles(moved, s, chunk, m, d)
  BY <1>1, <1>2, <1>4, MovedMemory DEF chunk
<1>6. settled = IF injected(s) THEN Written(moved, m, n, Lesser(mSize[s], chunk), Left) ELSE moved
  BY DEF Resettled, d
<1>7. c = Written(settled, m, mSize[s], n, Default)
  BY DEF Resized, chunk
<1> HIDE DEF moved, settled, c
<1>8. settled = moved \/ Writes(settled, moved, m, n, Lesser(mSize[s], chunk), Left)
  <2>1. Lesser(mSize[s], chunk) \in Int
    BY <1>1, <1>2 DEF Lesser
  <2> QED BY <1>1, <1>6, <2>1, WrittenCells
<1>9. Writes(c, settled, m, mSize[s], n, Default)
  BY <1>1, <1>7, WrittenCells
<1>10. DOMAIN moved = Rest(s) \cup Got(m, chunk) /\ DOMAIN settled = DOMAIN moved /\ DOMAIN c = DOMAIN moved
  BY <1>5, <1>8, <1>9 DEF Settles, Writes
<1>11. \A x \in Rest(s) : x # m => c[x] = cells[x]
  <2> SUFFICES ASSUME NEW x \in Rest(s), x # m PROVE c[x] = cells[x]
    OBVIOUS
  <2>1. x \in DOMAIN cells /\ (x # mBuf[s] \/ ~Owns(s))
    BY DEF Rest
  <2>2. c[x] = settled[x] /\ settled[x] = moved[x]
    BY <1>8, <1>9, <1>10 DEF Writes
  <2>3. moved[x] = d[x]
    BY <1>5, <1>10 DEF Settles
  <2> QED BY <1>4, <2>1, <2>2, <2>3
<1>12. CASE chunk = 0
  <2>1. n = 0 /\ m = Null
    BY <1>1, <1>2, <1>3, <1>12
  <2>2. \A x \in Rest(s) : x # Null
    BY HeapBufferAssumption DEF StringsInv, Allocated, Owned, Rest, StringsOK, StringOK
  <2>3. Settled(s, m, n, chunk, c)
    BY <1>1, <1>2, <1>10, <1>11, <1>12, <2>1, <2>2 DEF Settled
  <2>4. 0 .. n - 1 = {}
    BY <2>1
  <2>5. Regrown(s, n, m, chunk, c)
    BY <1>2, <2>3, <2>4 DEF Regrown
  <2> QED BY <2>5 DEF chunk, c
<1>13. CASE 0 < chunk
  <2>1. /\ DOMAIN moved[m] = 0 .. chunk - 1 /\ m \in DOMAIN moved
        /\ \A i \in 0 .. chunk - 1 : 
             moved[m][i] = IF mBuf[s] # Null /\ i < mSize[s] THEN d[mBuf[s]][i] ELSE Raw
    BY <1>5, <1>10, <1>13 DEF Settles, Got
  <2>2. /\ DOMAIN settled[m] = 0 .. chunk - 1
        /\ \A i \in 0 .. n - 1 : settled[m][i] = moved[m][i]
    <3>1. CASE settled = moved
      BY <2>1, <3>1
    <3>2. CASE Writes(settled, moved, m, n, Lesser(mSize[s], chunk), Left)
      <4>1. DOMAIN settled[m] = 0 .. chunk - 1
        BY <2>1, <3>2 DEF Writes
      <4>2. ASSUME NEW i \in 0 .. n - 1 PROVE settled[m][i] = moved[m][i]
        <5>1. i \in DOMAIN moved[m] /\ i \in Int /\ ~(n <= i)
          BY <1>1, <1>2, <2>1
        <5> QED BY <2>1, <3>2, <5>1 DEF Writes
      <4> QED BY <4>1, <4>2
    <3> QED BY <1>8, <3>1, <3>2
  <2>3. DOMAIN c[m] = 0 .. chunk - 1
    BY <1>9, <1>10, <2>1, <2>2 DEF Writes
  <2>4. ASSUME NEW i \in 0 .. n - 1
        PROVE  c[m][i] = IF i < mSize[s] THEN cells[mBuf[s]][i] ELSE Terminator
    <3>1. i \in 0 .. chunk - 1 /\ i \in Int /\ i < n /\ i \in Nat
      BY <1>1, <1>2
    <3>2. c[m][i] = IF mSize[s] <= i THEN Default ELSE settled[m][i]
      BY <1>9, <1>10, <2>1, <2>2, <3>1 DEF Writes
    <3>3. CASE i < mSize[s]
      <4>1. 0 < mSize[s] /\ ~(mSize[s] <= i) /\ i \in 0 .. mSize[s] - 1
        BY <1>1, <3>1, <3>3
      <4>2. mBuf[s] # Null
        BY <1>1, <4>1, HeapBufferAssumption DEF StringOK
      <4>3. c[m][i] = d[mBuf[s]][i]
        BY <2>1, <2>2, <3>1, <3>2, <3>3, <4>1, <4>2
      <4>4. d[mBuf[s]][i] = cells[mBuf[s]][i]
        <5>1. CASE Owns(s)
          <6>1. i \in DOMAIN cells[mBuf[s]]
            BY <1>1, <4>1, <5>1 DEF StringOK
          <6>2. ~(n <= i)
            BY <1>1, <3>1
          <6> QED BY <1>4, <5>1, <6>1, <6>2
        <5>2. CASE ~Owns(s)
          <6>1. mBuf[s] \in DOMAIN Foreign
            BY <1>1, <4>1, <5>2 DEF StringOK
          <6>2. mBuf[s] \in DOMAIN cells
            BY <6>1 DEF StringsInv, LiteralsKept
          <6> QED BY <1>4, <5>2, <6>2
        <5> QED BY <5>1, <5>2
      <4> QED BY <3>3, <4>3, <4>4
    <3>4. CASE ~(i < mSize[s])
      <4>1. mSize[s] <= i
        BY <1>1, <3>1, <3>4
      <4> QED BY <3>2, <3>4, <4>1 DEF Terminator
    <3> QED BY <3>3, <3>4
  <2>5. \A i \in 0 .. n - 1 : c[m][i] \in Values
    <3>1. Terminator \in Values
      BY HeapBufferAssumption DEF Terminator
    <3>2. ASSUME NEW i \in 0 .. n - 1, i < mSize[s] PROVE cells[mBuf[s]][i] \in Values
      <4>1. i \in 0 .. mSize[s] - 1
        BY <1>1, <3>2
      <4> QED BY <1>1, <4>1 DEF StringOK
    <3> QED BY <2>4, <3>1, <3>2
  <2>6. Settled(s, m, n, chunk, c)
    BY <1>1, <1>2, <1>3, <1>10, <1>11, <1>13, <2>3, <2>5 DEF Settled
  <2>7. Regrown(s, n, m, chunk, c)
    BY <1>2, <2>4, <2>6 DEF Regrown
  <2> QED BY <2>7 DEF chunk, c
<1>14. chunk = 0 \/ 0 < chunk
  BY <1>2
<1> QED BY <1>12, <1>13, <1>14

LEMMA RegrownStays ==
    ASSUME StringsInv, Roomy, NEW s \in Buffers, NEW n \in 0 .. MaxSize, ~Reallocates(s, n, TRUE)
    PROVE  /\ mRealSize[s] = closestChunkSize(n)
           /\ Regrown(s, n, mBuf[s], closestChunkSize(n), Resized(s, n, TRUE, mBuf[s]))
<1> DEFINE m == mBuf[s]
           chunk == closestChunkSize(n)
           d == Destroyed(s, n)
           c == Resized(s, n, TRUE, m)
<1>1. /\ mSize[s] \in Nat /\ mRealSize[s] \in Nat /\ MaxSize \in Nat /\ ChunkSize \in Nat
      /\ StringOK(mBuf[s], mSize[s], mRealSize[s], cells)
      /\ m \in Memories \cup DOMAIN Foreign \cup {Null}
      /\ Owns(s) <=> 0 < mRealSize[s]
      /\ injected(s) <=> mRealSize[s] = 0 /\ 0 < mSize[s]
      /\ Shaped(s)
      /\ n \in Nat /\ n \in Int /\ mSize[s] \in Int
  BY StringFields
<1>2. chunk \in 0 .. MaxSize + ChunkSize /\ chunk \in Nat /\ n <= chunk /\ (n = 0 => chunk = 0)
  BY <1>1, Chunks
<1>3. mRealSize[s] = chunk
  BY <1>1, <1>2 DEF Reallocates
<1>4. /\ DOMAIN d = DOMAIN cells
      /\ \A x \in DOMAIN cells : x # mBuf[s] \/ ~Owns(s) => d[x] = cells[x]
      /\ Owns(s) => 
            /\ DOMAIN d[mBuf[s]] = DOMAIN cells[mBuf[s]]
            /\ \A i \in DOMAIN cells[mBuf[s]] : 
                 d[mBuf[s]][i] = IF n <= i /\ i < mSize[s] THEN Raw ELSE cells[mBuf[s]][i]
  BY <1>1, DestroyedMemory
<1>5. c = Written(d, m, mSize[s], n, Default)
  BY DEF Resized
<1> HIDE DEF chunk, d, c
<1>6. Writes(c, d, m, mSize[s], n, Default)
  BY <1>1, <1>5, WrittenCells
<1>7. CASE chunk = 0
  <2>1. n = 0 /\ c = d /\ ~Owns(s)
    BY <1>1, <1>2, <1>3, <1>5, <1>7 DEF Written
  <2>2. Settled(s, m, n, chunk, c)
    BY <1>1, <1>2, <1>4, <1>7, <2>1 DEF Settled, Rest, Got
  <2>3. 0 .. n - 1 = {}
    BY <2>1
  <2>4. Regrown(s, n, m, chunk, c)
    BY <1>2, <2>2, <2>3 DEF Regrown
  <2> QED BY <1>3, <2>4 DEF chunk, c
<1>8. CASE 0 < chunk
  <2>1. /\ Owns(s) /\ m \in Memories /\ m \in DOMAIN cells /\ DOMAIN cells[m] = 0 .. chunk - 1
        /\ mSize[s] <= chunk
    BY <1>1, <1>3, <1>8 DEF StringOK
  <2>2. /\ DOMAIN c = Rest(s) \cup Got(m, chunk)
        /\ \A x \in Rest(s) : x # m => c[x] = cells[x]
        /\ DOMAIN c[m] = 0 .. chunk - 1
    BY <1>4, <1>6, <1>8, <2>1 DEF Writes, Rest, Got
  <2>3. ASSUME NEW i \in 0 .. n - 1
        PROVE  c[m][i] = IF i < mSize[s] THEN cells[m][i] ELSE Terminator
    <3>1. i \in 0 .. chunk - 1 /\ i \in Int /\ i < n /\ ~(n <= i) /\ (mSize[s] <= i <=> ~(i < mSize[s]))
      BY <1>1, <1>2
    <3>2. c[m][i] = IF mSize[s] <= i THEN Default ELSE d[m][i]
      BY <1>4, <1>6, <2>1, <3>1 DEF Writes
    <3>3. d[m][i] = cells[m][i]
      BY <1>4, <2>1, <3>1
    <3> QED BY <3>1, <3>2, <3>3 DEF Terminator
  <2>4. \A i \in 0 .. n - 1 : c[m][i] \in Values
    <3>1. Terminator \in Values
      BY HeapBufferAssumption DEF Terminator
    <3>2. ASSUME NEW i \in 0 .. n - 1, i < mSize[s] PROVE cells[mBuf[s]][i] \in Values
      <4>1. i \in 0 .. mSize[s] - 1
        BY <1>1, <3>2
      <4> QED BY <1>1, <4>1 DEF StringOK
    <3> QED BY <2>3, <3>1, <3>2
  <2>5. Settled(s, m, n, chunk, c)
    BY <1>1, <1>2, <1>3, <1>8, <2>1, <2>2, <2>4 DEF Settled
  <2>6. Regrown(s, n, m, chunk, c)
    BY <1>2, <2>3, <2>5 DEF Regrown
  <2> QED BY <1>3, <2>6 DEF chunk, c
<1>9. chunk = 0 \/ 0 < chunk
  BY <1>2
<1> QED BY <1>7, <1>8, <1>9

LEMMA Regrows ==
    ASSUME StringsInv, Roomy, NEW s \in Buffers, NEW n \in 0 .. MaxSize, NEW m \in Homes(s, n, TRUE)
    PROVE  /\ RealSize(s, n, TRUE) = closestChunkSize(n)
           /\ Regrown(s, n, m, closestChunkSize(n), Resized(s, n, TRUE, m))
<1>1. CASE Reallocates(s, n, TRUE)
  BY <1>1, RegrownMoves DEF Homes, RealSize
<1>2. CASE ~Reallocates(s, n, TRUE)
  <2>1. m = mBuf[s]
    BY <1>2 DEF Homes
  <2> QED BY <1>2, <2>1, RegrownStays DEF RealSize
<1> QED BY <1>1, <1>2

LEMMA ResizeStringKeeps ==
    ASSUME StringsInv, Roomy, NEW s \in Buffers, NEW n \in 0 .. MaxSize, ResizeString(s, n)
    PROVE  /\ StringsInv' 
           /\ contents' = [contents EXCEPT ![s] = 
                [i \in 1 .. n |-> IF i <= Len(contents[s]) THEN contents[s][i] ELSE Terminator]]
<1>1. PICK m \in Homes(s, n, TRUE) : /\ cells' = Resized(s, n, TRUE, m)
                                     /\ SetFields(s, m, n, RealSize(s, n, TRUE))
  BY DEF ResizeString, Resize
<1>2. Allocator /\ KeepsClient
  BY DEF ResizeString
<1> DEFINE real == closestChunkSize(n)
<1>3. SetFields(s, m, n, real) /\ Regrown(s, n, m, real, cells')
  BY <1>1, Regrows
<1> HIDE DEF real
<1>4. StringsInv' /\ contents' = [contents EXCEPT ![s] = Content(m, n, cells')]
  BY <1>2, <1>3, StringSettles DEF Regrown
<1>5. /\ Len(contents[s]) = mSize[s] /\ mSize[s] \in Nat /\ n \in Nat
      /\ \A j \in 1 .. mSize[s] : contents[s][j] = cells[mBuf[s]][j - 1]
  BY StringContents, StringFields
<1>6. ASSUME NEW j \in 1 .. n
      PROVE  cells'[m][j - 1] = IF j <= Len(contents[s]) THEN contents[s][j] ELSE Terminator
  <2>1. j - 1 \in 0 .. n - 1 /\ (j - 1 < mSize[s] <=> j <= mSize[s]) /\ (j <= mSize[s] => j \in 1 .. mSize[s])
    BY <1>5
  <2> QED BY <1>3, <1>5, <2>1 DEF Regrown
<1>7. Content(m, n, cells') = 
        [i \in 1 .. n |-> IF i <= Len(contents[s]) THEN contents[s][i] ELSE Terminator]
  BY <1>6 DEF Content
<1> QED BY <1>4, <1>7
-----------------------------------------------------------------------------
(***************************************************************************)
(* append() and prepend()                                                  *)
(***************************************************************************)
LEMMA Fronts ==
    ASSUME NEW a \in Seq(Values), a # <<>>
    PROVE  /\ Len(a) \in Nat /\ 0 < Len(a)
           /\ Seqs!Front(a) \in Seq(Values) /\ Len(Seqs!Front(a)) = Len(a) - 1
           /\ DOMAIN Seqs!Front(a) = 1 .. Len(a) - 1
           /\ \A i \in 1 .. Len(a) - 1 : Seqs!Front(a)[i] = a[i]
           /\ TextsPromise!Front(a) = Seqs!Front(a)
<1>1. Len(a) \in Nat /\ 0 < Len(a)
  BY EmptySeq
<1> DEFINE k == Len(a) - 1
<1>2. k \in Nat /\ \A i \in 1 .. k : a[i] \in Values
  BY <1>1, ElementOfSeq
<1> HIDE DEF k
<1>3. /\ SubSeq(a, 1, k) \in Seq(Values) /\ Len(SubSeq(a, 1, k)) = k
      /\ \A i \in 1 .. k : SubSeq(a, 1, k)[i] = a[i]
  BY <1>2, SubSeqProperties
<1>4. DOMAIN SubSeq(a, 1, k) = 1 .. k
  BY <1>3, LenProperties
<1>5. Seqs!Front(a) = SubSeq(a, 1, k) /\ TextsPromise!Front(a) = SubSeq(a, 1, k)
  BY DEF Seqs!Front, TextsPromise!Front, k
<1> QED BY <1>1, <1>3, <1>4, <1>5 DEF k

\* d is c but for what is stored in, or shifted within, memory m.
Stores(d, c, m, first, chars) ==
    /\ DOMAIN d = DOMAIN c
    /\ \A x \in DOMAIN c \ {m} : d[x] = c[x]
    /\ DOMAIN d[m] = DOMAIN c[m]
    /\ \A i \in DOMAIN c[m] : 
          d[m][i] = IF i - first + 1 \in DOMAIN chars THEN chars[i - first + 1] ELSE c[m][i]

LEMMA StoredCells ==
    ASSUME NEW c, NEW m \in DOMAIN c, NEW first, NEW chars
    PROVE  Stores(Stored(c, m, first, chars), c, m, first, chars)
BY DEF Stored, Stores

Shifts(d, c, m, old, n) ==
    /\ DOMAIN d = DOMAIN c
    /\ \A x \in DOMAIN c \ {m} : d[x] = c[x]
    /\ DOMAIN d[m] = DOMAIN c[m]
    /\ \A i \in DOMAIN c[m] : 
          d[m][i] = IF n - old < i /\ i <= n THEN c[m][i - (n - old)] ELSE c[m][i]

LEMMA Moved1Cells ==
    ASSUME NEW c, NEW m \in DOMAIN c, NEW old, NEW n
    PROVE  Shifts(Moved1(c, m, old, n), c, m, old, n)
BY DEF Moved1, Shifts

\* append() stores all of the other string, within the allocation.
LEMMA AppendToKeeps ==
    ASSUME StringsInv, Roomy, NEW s \in Buffers, NEW chars \in Seq(Values), AppendTo(s, chars)
    PROVE  /\ StringsInv' /\ contents[s] # <<>> /\ chars # <<>>
           /\ contents' = [contents EXCEPT ![s] = Seqs!Front(contents[s]) \o chars]
<1> DEFINE start == mSize[s] - 1
           n == mSize[s] - 1 + Len(chars)
           real == closestChunkSize(n)
           a == contents[s]
<1>1. /\ Usable(s) /\ 0 < mSize[s] /\ chars # <<>> /\ n <= MaxSize /\ KeepsClient
  BY DEF AppendTo, Appended
<1>2. PICK m \in Homes(s, n, TRUE) :
         /\ cells' = Stored(Resized(s, n, TRUE, m), m, start, chars)
         /\ SetFields(s, m, n, RealSize(s, n, TRUE))
         /\ guards' = Spilled(Guarded, m, Bytes(cells', m) - start + 1, chars)
  BY DEF AppendTo, Appended
<1>3. /\ mSize[s] \in Nat /\ MaxSize \in Nat /\ Len(chars) \in Nat /\ 0 < Len(chars)
      /\ DOMAIN chars = 1 .. Len(chars) /\ \A j \in 1 .. Len(chars) : chars[j] \in Values
      /\ ChunkSize \in Nat
  BY <1>1, StringFields, LenProperties, EmptySeq, ElementOfSeq
<1>4. n \in 0 .. MaxSize /\ 0 < n /\ start \in Nat /\ n = start + Len(chars)
  BY <1>1, <1>3
<1>4a. mSize[s] = start + 1
  BY <1>3
<1> HIDE DEF n, start
<1> DEFINE r == Resized(s, n, TRUE, m)
<1>5. RealSize(s, n, TRUE) = real /\ Regrown(s, n, m, real, r)
  BY <1>2, <1>4, Regrows
<1> HIDE DEF r, real
<1>6. real \in Nat /\ n <= real /\ 0 < real
  BY <1>3, <1>4, <1>5 DEF Regrown
<1>7. /\ m \in DOMAIN r /\ DOMAIN r[m] = 0 .. real - 1
      /\ \A i \in 0 .. n - 1 : r[m][i] = IF i < mSize[s] THEN cells[mBuf[s]][i] ELSE Terminator
  BY <1>5, <1>6 DEF Regrown, Settled, Got
<1>8. /\ DOMAIN cells' = DOMAIN r 
      /\ \A x \in DOMAIN r \ {m} : cells'[x] = r[x]
      /\ DOMAIN cells'[m] = 0 .. real - 1
      /\ \A i \in 0 .. real - 1 : cells'[m][i] = 
            IF i - start + 1 \in DOMAIN chars THEN chars[i - start + 1] ELSE r[m][i]
  <2>1. Stores(cells', r, m, start, chars)
    BY <1>2, <1>7, StoredCells DEF r
  <2> QED BY <1>7, <2>1 DEF Stores
<1>9. ASSUME NEW i \in 0 .. n - 1
      PROVE  cells'[m][i] = IF i < start THEN cells[mBuf[s]][i] ELSE chars[i - start + 1]
  <2>1. i \in 0 .. real - 1 
    BY <1>4, <1>6
  <2>2. i - start + 1 \in DOMAIN chars <=> ~(i < start)
    BY <1>3, <1>4
  <2>3. i < start => i < mSize[s]
    BY <1>4a, <1>4
  <2> QED BY <1>7, <1>8, <2>1, <2>2, <2>3
<1>10. Settled(s, m, n, real, cells')
  <2>1. ASSUME NEW i \in 0 .. n - 1 PROVE cells'[m][i] \in Values
    <3>1. CASE i < start
      <4>1. i \in 0 .. mSize[s] - 1
        BY <1>4a, <1>4, <3>1
      <4>2. cells[mBuf[s]][i] \in Values
        BY <4>1, StringFields DEF StringOK
      <4> QED BY <1>9, <3>1, <4>2
    <3>2. CASE ~(i < start)
      <4>1. i - start + 1 \in 1 .. Len(chars)
        BY <1>3, <1>4, <3>2
      <4> QED BY <1>3, <1>9, <3>2, <4>1
    <3> QED BY <3>1, <3>2
  <2>2. Settled(s, m, n, real, r)
    BY <1>5 DEF Regrown
  <2>3. \A x \in Rest(s) : x # m => cells'[x] = r[x]
    BY <1>8, <2>2 DEF Settled
  <2> QED BY <1>6, <1>8, <2>1, <2>2, <2>3 DEF Settled
<1>11. Allocator
  <2>1. Bytes(cells', m) = real
    BY <1>6, <1>8, FirstNumbers DEF Bytes
  <2>2. Bytes(cells', m) - start + 1 \notin DOMAIN chars
    BY <1>3, <1>4, <1>6, <2>1
  <2> QED BY <1>2, <2>2 DEF Spilled, Allocator
<1>12. StringsInv' /\ contents' = [contents EXCEPT ![s] = Content(m, n, cells')]
  BY <1>1, <1>2, <1>5, <1>10, <1>11, StringSettles
<1>13. /\ a \in Seq(Values) /\ Len(a) = mSize[s] /\ a # <<>>
       /\ \A j \in 1 .. mSize[s] : a[j] = cells[mBuf[s]][j - 1]
  BY <1>1, StringContents, EmptySeq
<1> HIDE DEF a
<1>14. Content(m, n, cells') = Seqs!Front(a) \o chars
  <2> DEFINE z == Seqs!Front(a) \o chars
             y == Content(m, n, cells')
  <2>1. /\ Seqs!Front(a) \in Seq(Values) /\ Len(Seqs!Front(a)) = start 
        /\ \A j \in 1 .. start : Seqs!Front(a)[j] = a[j]
    <3>1. Len(a) - 1 = start
      BY <1>4a, <1>4, <1>13
    <3> QED BY <1>13, <3>1, Fronts
  <2>2. /\ z \in Seq(Values) /\ Len(z) = n
        /\ \A j \in 1 .. n : z[j] = IF j <= start THEN Seqs!Front(a)[j] ELSE chars[j - start]
    BY <1>4, <2>1, ConcatProperties
  <2>3. y \in Seq(Values) /\ Len(y) = n
    BY <1>4, <1>10, Contents DEF Settled
  <2>4. ASSUME NEW j \in 1 .. n PROVE y[j] = z[j]
    <3>1. y[j] = cells'[m][j - 1]
      BY DEF Content
    <3>2. j - 1 \in 0 .. n - 1 /\ (j - 1 < start <=> j <= start) /\ (j - 1) - start + 1 = j - start
      BY <1>4
    <3>3. y[j] = IF j <= start THEN cells[mBuf[s]][j - 1] ELSE chars[j - start]
      BY <1>9, <3>1, <3>2
    <3>4. j <= start => j \in 1 .. start /\ j \in 1 .. mSize[s]
      BY <1>4a, <1>4
    <3> HIDE DEF y, z
    <3> QED BY <1>13, <2>1, <2>2, <3>3, <3>4
  <2> HIDE DEF y, z
  <2>5. y = z
    BY <2>2, <2>3, <2>4, SeqEqual
  <2> QED BY <2>5 DEF y, z
<1> QED BY <1>1, <1>12, <1>13, <1>14 DEF a

\* prepend() keeps to the allocation as long as it does not use all of it.
LEMMA PrependKeeps ==
    ASSUME StringsInv, Roomy, ~FillsChunks, NEW s \in Buffers, NEW chars \in Seq(Values), 
           Prepend(s, chars)
    PROVE  /\ StringsInv' /\ contents[s] # <<>> /\ chars # <<>>
           /\ ~PrependsToText => 
                 contents' = [contents EXCEPT ![s] = Seqs!Front(chars) \o contents[s]]
<1> DEFINE old == mSize[s]
           n == mSize[s] + Len(chars) - 1
           front == Seqs!Front(chars)
           k == Len(chars) - 1
           real == closestChunkSize(n)
           a == contents[s]
<1>1. /\ Usable(s) /\ 0 < old /\ chars # <<>> /\ n <= MaxSize /\ KeepsClient
      /\ n % ChunkSize # 0
  BY DEF Prepend
<1>2. PICK m \in Homes(s, n, TRUE) :
         /\ cells' = Stored(Moved1(Resized(s, n, TRUE, m), m, old, n), m, 0, front)
         /\ SetFields(s, m, n, RealSize(s, n, TRUE))
         /\ guards' = IF n \in DOMAIN Resized(s, n, TRUE, m)[m] \/ old = n
                      THEN Guarded
                      ELSE Spilled(Guarded, m, 1, <<Resized(s, n, TRUE, m)[m][old]>>)
  BY DEF Prepend
<1>3. /\ old \in Nat /\ MaxSize \in Nat /\ Len(chars) \in Nat /\ 0 < Len(chars)
      /\ front \in Seq(Values) /\ Len(front) = k /\ DOMAIN front = 1 .. k
      /\ \A j \in 1 .. k : front[j] \in Values
      /\ ChunkSize \in Nat
  BY <1>1, StringFields, Fronts, ElementOfSeq
<1>4. n \in 0 .. MaxSize /\ 0 < n /\ k \in Nat /\ n = old + k
  BY <1>1, <1>3
<1> HIDE DEF n, k, front, old
<1> DEFINE r == Resized(s, n, TRUE, m)
<1>5. RealSize(s, n, TRUE) = real /\ Regrown(s, n, m, real, r)
  BY <1>2, <1>4, Regrows
<1>6. n < real
  BY <1>1, <1>4, Chunks
<1> HIDE DEF r, real
<1>7. real \in Nat /\ 0 < real
  BY <1>3, <1>4, <1>5, <1>6 DEF Regrown
<1>8. /\ m \in DOMAIN r /\ DOMAIN r[m] = 0 .. real - 1
      /\ \A i \in 0 .. n - 1 : r[m][i] = IF i < old THEN cells[mBuf[s]][i] ELSE Terminator
  BY <1>5, <1>7 DEF Regrown, Settled, Got, old
<1>9. /\ DOMAIN cells' = DOMAIN r 
      /\ \A x \in DOMAIN r \ {m} : cells'[x] = r[x]
      /\ DOMAIN cells'[m] = 0 .. real - 1
      /\ \A i \in 0 .. real - 1 : cells'[m][i] = 
            IF i - 0 + 1 \in DOMAIN front THEN front[i - 0 + 1] 
            ELSE IF n - old < i /\ i <= n THEN r[m][i - (n - old)] ELSE r[m][i]
  <2> DEFINE moved == Moved1(r, m, old, n)
  <2>1. Shifts(moved, r, m, old, n)
    BY <1>8, Moved1Cells
  <2>2. cells' = Stored(moved, m, 0, front)
    BY <1>2 DEF r
  <2> HIDE DEF moved
  <2>3. m \in DOMAIN moved
    BY <1>8, <2>1 DEF Shifts
  <2>4. Stores(cells', moved, m, 0, front)
    BY <2>2, <2>3, StoredCells
  <2> QED BY <1>8, <2>1, <2>4 DEF Shifts, Stores
<1>10. ASSUME NEW i \in 0 .. n - 1
       PROVE  /\ i < k => cells'[m][i] = front[i + 1]
              /\ k < i => cells'[m][i] = cells[mBuf[s]][i - k]
              /\ cells'[m][i] \in Values
  <2>1. i \in 0 .. real - 1 /\ i - 0 + 1 = i + 1 /\ n - old = k /\ i <= n
    BY <1>3, <1>4, <1>6, <1>7
  <2>2. CASE i < k
    <3>1. i + 1 \in DOMAIN front /\ i + 1 \in 1 .. k
      BY <1>3, <1>4, <2>2
    <3>2. cells'[m][i] = front[i + 1] /\ ~(k < i)
      BY <1>4, <1>9, <2>1, <2>2, <3>1
    <3> QED BY <1>3, <3>1, <3>2
  <2>3. CASE k < i
    <3>1. i + 1 \notin DOMAIN front
      BY <1>3, <1>4, <2>3
    <3>2. cells'[m][i] = r[m][i - k]
      BY <1>9, <2>1, <2>3, <3>1
    <3>3. i - k \in 0 .. n - 1 /\ i - k < old /\ i - k \in 0 .. old - 1
      BY <1>3, <1>4, <2>3
    <3>4. cells[mBuf[s]][i - k] \in Values
      BY <3>3, StringFields DEF StringOK, old
    <3>5. ~(i < k)
      BY <1>4, <2>3
    <3> QED BY <1>8, <3>2, <3>3, <3>4, <3>5
  <2>4. CASE i = k
    <3>1. i + 1 \notin DOMAIN front /\ ~(k < i) /\ ~(i < k)
      BY <1>3, <1>4, <2>4
    <3>2. cells'[m][i] = r[m][i]
      BY <1>9, <2>1, <3>1
    <3>3. r[m][i] \in Values
      BY <1>5 DEF Regrown, Settled
    <3> QED BY <3>1, <3>2, <3>3
  <2> QED BY <1>4, <2>2, <2>3, <2>4
<1>11. Settled(s, m, n, real, cells')
  <2>1. Settled(s, m, n, real, r)
    BY <1>5 DEF Regrown
  <2>2. \A x \in Rest(s) : x # m => cells'[x] = r[x]
    BY <1>9, <2>1 DEF Settled
  <2> QED BY <1>7, <1>9, <1>10, <2>1, <2>2 DEF Settled
<1>12. Allocator
  <2>1. n \in 0 .. real - 1
    BY <1>4, <1>6, <1>7
  <2> QED BY <1>2, <1>8, <2>1 DEF Allocator, r
<1>13. StringsInv' /\ contents' = [contents EXCEPT ![s] = Content(m, n, cells')]
  BY <1>1, <1>2, <1>5, <1>11, <1>12, StringSettles
<1>14. /\ a \in Seq(Values) /\ Len(a) = old /\ a # <<>>
       /\ \A j \in 1 .. old : a[j] = cells[mBuf[s]][j - 1]
  BY <1>1, StringContents, EmptySeq DEF old
<1>15. PrependsToText \/ Len(chars) = 1 \/ a = CString(<<>>)
  BY DEF Prepend
<1>16. a = CString(<<>>) => old = 1 /\ a[1] = Terminator
  BY <1>14 DEF CString
<1> HIDE DEF a
\* What stays where it was is the first character of the old text.
<1>17. ASSUME ~PrependsToText PROVE cells'[m][k] = a[1]
  <2>1. k \in 0 .. n - 1 /\ k \in 0 .. real - 1 /\ n - old = k
    BY <1>1, <1>3, <1>4, <1>6, <1>7
  <2>2. k - 0 + 1 \notin DOMAIN front /\ ~(k < k)
    BY <1>3, <1>4
  <2>3. cells'[m][k] = r[m][k]
    BY <1>9, <2>1, <2>2
  <2>4. r[m][k] = IF k < old THEN cells[mBuf[s]][k] ELSE Terminator
    BY <1>8, <2>1
  <2>5. a[1] = cells[mBuf[s]][0]
    BY <1>1, <1>3, <1>14
  <2>6. k = 0 \/ (old = 1 /\ a[1] = Terminator)
    <3>1. Len(chars) = 1 => k = 0
      BY DEF k
    <3>2. Len(chars) = 1 \/ a = CString(<<>>)
      BY <1>15, <1>17
    <3> QED BY <1>16, <3>1, <3>2
  <2>7. k < old => k = 0
    BY <1>1, <1>4, <2>6
  <2> QED BY <1>1, <2>3, <2>4, <2>5, <2>6, <2>7
<1>18. ASSUME ~PrependsToText PROVE Content(m, n, cells') = front \o a
  <2> DEFINE z == front \o a
             y == Content(m, n, cells')
  <2>1. /\ z \in Seq(Values) /\ Len(z) = Len(front) + Len(a)
        /\ \A j \in 1 .. Len(front) + Len(a) : 
              z[j] = IF j <= Len(front) THEN front[j] ELSE a[j - Len(front)]
    BY <1>3, <1>14, ConcatProperties
  <2>2. Len(front) + Len(a) = n
    BY <1>3, <1>4, <1>14
  <2>3. y \in Seq(Values) /\ Len(y) = n
    BY <1>4, <1>11, Contents DEF Settled
  <2> HIDE DEF z
  <2>4. ASSUME NEW j \in 1 .. n PROVE y[j] = z[j]
    <3>1. y[j] = cells'[m][j - 1]
      BY DEF Content
    <3> HIDE DEF y
    <3>2. j - 1 \in 0 .. n - 1 /\ (j - 1) + 1 = j
      BY <1>4
    <3>3. z[j] = IF j <= k THEN front[j] ELSE a[j - k]
      BY <1>3, <2>1, <2>2
    <3>4. CASE j <= k
      <4>1. j - 1 < k
        BY <1>4, <3>4
      <4> QED BY <1>10, <3>1, <3>2, <3>3, <3>4, <4>1
    <3>5. CASE j = k + 1
      <4>1. j - 1 = k /\ j - k = 1 /\ ~(j <= k)
        BY <1>4, <3>5
      <4> QED BY <1>17, <1>18, <3>1, <3>3, <4>1
    <3>6. CASE k + 1 < j
      <4>1. k < j - 1 /\ ~(j <= k) /\ j - k \in 1 .. old /\ (j - k) - 1 = (j - 1) - k
        BY <1>3, <1>4, <3>6
      <4>2. cells'[m][j - 1] = cells[mBuf[s]][(j - 1) - k]
        BY <1>10, <3>2, <4>1
      <4>3. a[j - k] = cells[mBuf[s]][(j - k) - 1]
        BY <1>14, <4>1
      <4> QED BY <3>1, <3>3, <4>1, <4>2, <4>3
    <3>7. j <= k \/ j = k + 1 \/ k + 1 < j
      BY <1>4
    <3> QED BY <3>4, <3>5, <3>6, <3>7
  <2> HIDE DEF y
  <2>5. y = z
    BY <2>1, <2>2, <2>3, <2>4, SeqEqual
  <2> QED BY <2>5 DEF y, z
<1>19. ~PrependsToText => contents' = [contents EXCEPT ![s] = front \o a]
  BY <1>13, <1>18
<1> QED BY <1>1, <1>13, <1>14, <1>19 DEF a, front
-----------------------------------------------------------------------------
(***************************************************************************)
(* The client                                                              *)
(***************************************************************************)
LEMMA ConstructIntact ==
    ASSUME NEW n
    PROVE  ~Corrupt(construct(n), n)
<1>1. construct(n) = [first |-> [size |-> n, magic |-> MAGIC_STRING_START, start |-> 1],
                      last |-> [size |-> n, magic |-> MAGIC_STRING_END, start |-> 0]]
  BY DEF construct, MagicBlock
<1>2. checkMagicString(construct(n).first) /\ checkMagicString(construct(n).last)
  BY <1>1 DEF checkMagicString
<1>3. construct(n).first.size = n /\ construct(n).last.size = n
  BY <1>1
<1> QED BY <1>2, <1>3 DEF Corrupt, check

\* One field of one block overwritten is seen exactly if it reads differently.
StrayedBlock(n, block, field, v) == 
    LET old == construct(n)[block] 
        new == [old EXCEPT ![field] = v]
    IN  new # old /\ ~(field = "start" /\ (v # 0 <=> old.start # 0))

StrayedBlocks(n, block, field, v) == [construct(n) EXCEPT ![block] = [@ EXCEPT ![field] = v]]

LEMMA StraySeen ==
    ASSUME NEW n, NEW block \in {"first", "last"}, NEW field \in {"size", "start", "magic"}, NEW v,
           field = "magic" => v \notin {MAGIC_STRING_START, MAGIC_STRING_END}
    PROVE  Corrupt(StrayedBlocks(n, block, field, v), n) <=> StrayedBlock(n, block, field, v)
<1> DEFINE first == [size |-> n, magic |-> MAGIC_STRING_START, start |-> 1]
           last == [size |-> n, magic |-> MAGIC_STRING_END, start |-> 0]
           g == StrayedBlocks(n, block, field, v)
<1>1. construct(n) = [first |-> first, last |-> last]
  BY DEF construct, MagicBlock
<1>2. MAGIC_STRING_START # MAGIC_STRING_END
  BY DEF MAGIC_STRING_START, MAGIC_STRING_END
<1>3. Corrupt(g, n) <=> 
         \/ g.first.magic # IF g.first.start # 0 THEN MAGIC_STRING_START ELSE MAGIC_STRING_END
         \/ g.last.magic # IF g.last.start # 0 THEN MAGIC_STRING_START ELSE MAGIC_STRING_END
         \/ g.first.size # n \/ g.last.size # n
  BY DEF Corrupt, check, checkMagicString
<1>4. CASE block = "first"
  <2>1. construct(n)[block] = first
    BY <1>1, <1>4
  <2>2. g = [first |-> [first EXCEPT ![field] = v], last |-> last]
    BY <1>1, <1>4 DEF StrayedBlocks
  <2>3. CASE field = "size"
    <3>1. [first EXCEPT ![field] = v] = [size |-> v, magic |-> MAGIC_STRING_START, start |-> 1]
      BY <2>3
    <3>2. [first EXCEPT ![field] = v] # first <=> v # n
      BY <3>1
    <3> QED BY <1>2, <1>3, <2>1, <2>2, <2>3, <3>1, <3>2 DEF StrayedBlock
  <2>4. CASE field = "start"
    <3>1. [first EXCEPT ![field] = v] = [size |-> n, magic |-> MAGIC_STRING_START, start |-> v]
      BY <2>4
    <3>2. v = 0 => [first EXCEPT ![field] = v] # first
      BY <3>1
    <3> QED BY <1>2, <1>3, <2>1, <2>2, <2>4, <3>1, <3>2 DEF StrayedBlock
  <2>5. CASE field = "magic"
    <3>1. [first EXCEPT ![field] = v] = [size |-> n, magic |-> v, start |-> 1]
      BY <2>5
    <3>2. [first EXCEPT ![field] = v] # first
      BY <2>5, <3>1
    <3> QED BY <1>2, <1>3, <2>1, <2>2, <2>5, <3>1, <3>2 DEF StrayedBlock
  <2> QED BY <2>3, <2>4, <2>5
<1>5. CASE block = "last"
  <2>1. construct(n)[block] = last
    BY <1>1, <1>5
  <2>2. g = [first |-> first, last |-> [last EXCEPT ![field] = v]]
    BY <1>1, <1>5 DEF StrayedBlocks
  <2>3. CASE field = "size"
    <3>1. [last EXCEPT ![field] = v] = [size |-> v, magic |-> MAGIC_STRING_END, start |-> 0]
      BY <2>3
    <3>2. [last EXCEPT ![field] = v] # last <=> v # n
      BY <3>1
    <3> QED BY <1>2, <1>3, <2>1, <2>2, <2>3, <3>1, <3>2 DEF StrayedBlock
  <2>4. CASE field = "start"
    <3>1. [last EXCEPT ![field] = v] = [size |-> n, magic |-> MAGIC_STRING_END, start |-> v]
      BY <2>4
    <3>2. v # 0 => [last EXCEPT ![field] = v] # last
      BY <3>1
    <3> QED BY <1>2, <1>3, <2>1, <2>2, <2>4, <3>1, <3>2 DEF StrayedBlock
  <2>5. CASE field = "magic"
    <3>1. [last EXCEPT ![field] = v] = [size |-> n, magic |-> v, start |-> 0]
      BY <2>5
    <3>2. [last EXCEPT ![field] = v] # last
      BY <2>5, <3>1
    <3> QED BY <1>2, <1>3, <2>1, <2>2, <2>5, <3>1, <3>2 DEF StrayedBlock
  <2> QED BY <2>3, <2>4, <2>5
<1> QED BY <1>4, <1>5

\* The memory of the client alone has changed, was got or given back.
ClientsOnly(c, m) ==
    /\ DOMAIN c = (DOMAIN cells \ {array}) \cup ({m} \ {Null})
    /\ \A x \in DOMAIN cells \ {array} : x # m /\ c[x] = cells[x]
    /\ m # Null => /\ m \in Memories
                   /\ \E k \in Lengths : DOMAIN c[m] = 0 .. k - 1
                   /\ m \in DOMAIN cells => DOMAIN c[m] = DOMAIN cells[m]

LEMMA ClientKeeps ==
    ASSUME StringsInv, NEW c, Client(c), ClientsOnly(c, array'), mData' = mData,
           array' = Null \/ array' # array => ~strayed',
           array' # Null /\ array' = array => (strayed' <=> strayed)
    PROVE  StringsInv' /\ contents' = contents
<1>1. cells' = c /\ mBuf' = mBuf /\ mSize' = mSize /\ mRealSize' = mRealSize /\ Allocator
  BY DEF Client
<1>2. array # Null => /\ array \in Memories /\ array \in DOMAIN cells /\ array \notin DOMAIN Foreign
                      /\ \A b \in Buffers : 0 < mRealSize[b] => mBuf[b] # array
  BY HeapBufferAssumption DEF StringsInv, ArrayOK, Apart
\* What a string holds, or borrows, is untouched.
<1>3. ASSUME NEW b \in Buffers, 0 < mRealSize[b] \/ 0 < mSize[b]
      PROVE  /\ mBuf[b] \in DOMAIN cells /\ mBuf[b] \in DOMAIN c /\ c[mBuf[b]] = cells[mBuf[b]]
             /\ mBuf[b] # array'
  <2>1. StringOK(mBuf[b], mSize[b], mRealSize[b], cells) /\ mRealSize[b] \in Nat /\ mSize[b] \in Nat
    BY StringFields
  <2>2. mBuf[b] \in DOMAIN cells /\ mBuf[b] # Null /\ (0 < mRealSize[b] \/ mBuf[b] \in DOMAIN Foreign)
    BY <1>3, <2>1, HeapBufferAssumption DEF StringOK, StringsInv, LiteralsKept
  <2>3. mBuf[b] # array
    <3>1. CASE array = Null
      BY <2>2, <3>1
    <3>2. CASE array # Null
      BY <1>2, <2>2, <3>2
    <3> QED BY <3>1, <3>2
  <2> QED BY <2>2, <2>3 DEF ClientsOnly
<1>4. StringFieldsOK'
  BY <1>1 DEF StringsInv, StringFieldsOK
<1>5. StringsOK'
  <2> SUFFICES ASSUME NEW b \in Buffers PROVE StringOK(mBuf[b], mSize[b], mRealSize[b], c)
    BY <1>1 DEF StringsOK
  <2>1. StringOK(mBuf[b], mSize[b], mRealSize[b], cells) /\ mRealSize[b] \in Nat /\ mSize[b] \in Nat
    BY StringFields
  <2>2. ~(0 < mSize[b]) => 0 .. mSize[b] - 1 = {}
    BY <2>1
  <2> QED BY <1>3, <2>1, <2>2 DEF StringOK
<1>6. Apart'
  BY <1>1, <1>3 DEF StringsInv, Apart
<1>7. LiteralsKept(cells')
  <2> SUFFICES ASSUME NEW f \in DOMAIN Foreign PROVE f \in DOMAIN c /\ c[f] = cells[f] /\ f \in DOMAIN cells
    BY <1>1 DEF LiteralsKept, StringsInv
  <2>1. f \in DOMAIN cells /\ f # Null
    BY HeapBufferAssumption DEF StringsInv, LiteralsKept
  <2>2. f # array
    BY <1>2, <2>1
  <2> QED BY <2>1, <2>2 DEF ClientsOnly
<1>8. Allocated'
  <2>1. Owned' = Owned
    BY <1>1 DEF Owned
  <2>2. array \notin Owned \/ array = Null
    BY <1>2 DEF Owned
  <2>3. Null \notin Owned /\ Null \notin DOMAIN Foreign /\ (array # Null => array \notin DOMAIN Foreign)
    BY <1>2, <1>3, HeapBufferAssumption, StringFields DEF Owned, StringOK
  <2>4. DOMAIN cells = DOMAIN Foreign \cup Owned \cup ({array} \ {Null})
    BY DEF StringsInv, Allocated
  <2>5. DOMAIN cells \ {array} = DOMAIN Foreign \cup Owned
    BY <2>2, <2>3, <2>4
  <2>6. DOMAIN cells' = DOMAIN Foreign \cup Owned \cup ({array'} \ {Null})
    BY <1>1, <2>5 DEF ClientsOnly
  <2> QED BY <2>1, <2>6 DEF Allocated
<1>9. ArrayOK'
  BY <1>1 DEF ArrayOK, ClientsOnly
<1>10. GuardsOK'
  <2>1. guards' = [x \in DOMAIN c \ DOMAIN Foreign |->
                     IF x \in DOMAIN cells THEN guards[x] ELSE construct(Bytes(c, x))]
    BY <1>1 DEF Allocator, Guarded
  <2>2. DOMAIN guards' = DOMAIN cells' \ DOMAIN Foreign
    BY <1>1, <2>1
  <2>3. ASSUME NEW x \in DOMAIN guards' \ {array'} PROVE guards'[x] = construct(Bytes(cells', x))
    <3>1. x \in DOMAIN cells \ {array} /\ x \in DOMAIN c /\ x \notin DOMAIN Foreign /\ c[x] = cells[x]
      BY <1>1, <2>2 DEF ClientsOnly
    <3>2. guards'[x] = guards[x] /\ guards[x] = construct(Bytes(cells, x))
      BY <2>1, <3>1 DEF StringsInv, GuardsOK
    <3> QED BY <1>1, <3>1, <3>2 DEF Bytes
  <2>4. ASSUME array' # Null PROVE Corrupt(guards'[array'], Bytes(cells', array')) <=> strayed'
    <3>1. array' \in DOMAIN c /\ array' \in Memories /\ array' \notin DOMAIN Foreign
      BY <2>4, HeapBufferAssumption DEF ClientsOnly
    <3>2. CASE array' = array
      <4>1. array \in DOMAIN cells
        BY <1>2, <2>4, <3>2
      <4>2. guards'[array] = guards[array] 
        BY <2>1, <3>1, <3>2, <4>1
      <4>3. Bytes(cells', array) = Bytes(cells, array)
        BY <1>1, <2>4, <3>2, <4>1 DEF Bytes, ClientsOnly
      <4> QED BY <2>4, <3>2, <4>2, <4>3 DEF StringsInv, GuardsOK
    <3>3. CASE array' # array
      <4>1. array' \notin DOMAIN cells
        BY <3>3 DEF ClientsOnly
      <4>2. guards'[array'] = construct(Bytes(cells', array'))
        BY <1>1, <2>1, <3>1, <4>1
      <4> QED BY <3>3, <4>2, ConstructIntact
    <3> QED BY <3>2, <3>3
  <2> QED BY <2>2, <2>3, <2>4 DEF GuardsOK
<1>11. contents' = contents
  <2> DEFINE view(o) == IF Usable(o) THEN [j \in 1 .. mSize[o] |-> cells[mBuf[o]][j - 1]] ELSE <<>>
  <2>1. contents = [o \in Buffers |-> view(o)] /\ contents' = [o \in Buffers |-> view(o)']
    BY DEF contents
  <2>2. ASSUME NEW o \in Buffers PROVE view(o)' = view(o)
    <3>1. Usable(o) <=> Usable(o)'
      BY <1>1 DEF Usable, injected
    <3>2. mSize[o] \in Nat
      BY StringFields
    <3>3. CASE 0 < mSize[o]
      BY <1>1, <1>3, <3>1, <3>3
    <3>4. CASE ~(0 < mSize[o])
      <4>1. 1 .. mSize[o] = {}
        BY <3>2, <3>4
      <4> QED BY <1>1, <3>1, <4>1
    <3> QED BY <3>3, <3>4
  <2> HIDE DEF view
  <2> QED BY <2>1, <2>2
<1> QED BY <1>4, <1>5, <1>6, <1>7, <1>8, <1>9, <1>10, <1>11 DEF StringsInv

LEMMA NoNullCells ==
    ASSUME StringsInv
    PROVE  Null \notin DOMAIN cells
<1>1. Null \notin Owned /\ Null \notin DOMAIN Foreign
  BY HeapBufferAssumption, StringFields DEF Owned, StringOK
<1> QED BY <1>1 DEF StringsInv, Allocated

LEMMA MallocKeeps ==
    ASSUME StringsInv, NEW n \in Lengths, tklb_malloc(n)
    PROVE  StringsInv' /\ contents' = contents
<1>1. n \in Nat /\ 0 < n
  BY StringsAssumption
<1>2. PICK m \in Offered(n) :
         /\ Client([x \in DOMAIN cells \cup {m} |->
                      IF x = m THEN [i \in 0 .. n - 1 |-> Raw] ELSE cells[x]])
         /\ array' = m
  BY DEF tklb_malloc
<1>3. m \in Memories \ DOMAIN cells /\ m # Null
  BY <1>1, StringOffers
<1>4. array = Null /\ strayed' = strayed /\ mData' = mData /\ ~strayed
  BY DEF tklb_malloc, StringsInv, ArrayOK
<1> DEFINE c == [x \in DOMAIN cells \cup {m} |-> IF x = m THEN [i \in 0 .. n - 1 |-> Raw] ELSE cells[x]]
<1>5. DOMAIN c = (DOMAIN cells \ {array}) \cup ({m} \ {Null})
  BY <1>3, <1>4, NoNullCells
<1>6. \A x \in DOMAIN cells \ {array} : x # m /\ c[x] = cells[x]
  BY <1>3
<1>7. DOMAIN c[m] = 0 .. n - 1
  OBVIOUS
<1>8. Client(c) /\ array' = m
  BY <1>2
<1> HIDE DEF c
<1>9. ClientsOnly(c, array')
  BY <1>3, <1>5, <1>6, <1>7, <1>8 DEF ClientsOnly
<1>10. /\ array' = Null \/ array' # array => ~strayed'
       /\ array' # Null /\ array' = array => (strayed' <=> strayed)
  BY <1>4
<1> QED BY <1>4, <1>8, <1>9, <1>10, ClientKeeps

LEMMA FreeKeeps ==
    ASSUME StringsInv, tklb_free
    PROVE  StringsInv' /\ contents' = contents
<1> DEFINE c == [x \in DOMAIN cells \ {array} |-> cells[x]]
<1>1. array # Null /\ Client(c) /\ array' = Null /\ strayed' = FALSE /\ mData' = mData
  BY DEF tklb_free
<1>2. DOMAIN c = (DOMAIN cells \ {array}) \cup ({Null} \ {Null})
  OBVIOUS
<1>3. \A x \in DOMAIN cells \ {array} : x # Null /\ c[x] = cells[x]
  BY NoNullCells
<1> HIDE DEF c
<1>4. ClientsOnly(c, array')
  BY <1>1, <1>2, <1>3 DEF ClientsOnly
<1> QED BY <1>1, <1>4, ClientKeeps

\* The memory of the array, as a client that has not lost it knows it.
LEMMA ArrayCells ==
    ASSUME StringsInv, array # Null
    PROVE  /\ array \in Memories /\ array \in DOMAIN cells
           /\ DOMAIN cells[array] = 0 .. Bytes(cells, array) - 1
           /\ Bytes(cells, array) \in Lengths /\ Bytes(cells, array) \in Nat /\ 0 < Bytes(cells, array)
<1>1. array \in Memories /\ array \in DOMAIN cells
  BY DEF StringsInv, ArrayOK
<1>2. PICK k \in Lengths : DOMAIN cells[array] = 0 .. k - 1
  BY DEF StringsInv, ArrayOK
<1>3. k \in Nat /\ 0 < k
  BY StringsAssumption
<1>4. Cardinality(0 .. k - 1) = k
  BY <1>3, FirstNumbers
<1> QED BY <1>1, <1>2, <1>3, <1>4 DEF Bytes

LEMMA CopiedKeeps ==
    ASSUME StringsInv, array # Null, NEW chars, Copied(chars)
    PROVE  /\ StringsInv' /\ contents' = contents /\ mData' = mData /\ array' = array
           /\ Bytes(cells', array) = Bytes(cells, array)
           /\ Stores(cells', cells, array, 0, chars)
<1> DEFINE c == Stored(cells, array, 0, chars)
<1>1. Client(c) /\ array' = array /\ strayed' = strayed /\ mData' = mData
  BY DEF Copied, KeepsClient
<1>2. Stores(c, cells, array, 0, chars)
  BY ArrayCells, StoredCells
<1> HIDE DEF c
<1>3. /\ array \in Memories /\ array \in DOMAIN cells
      /\ \E k \in Lengths : DOMAIN cells[array] = 0 .. k - 1
  BY DEF StringsInv, ArrayOK
<1>4. ClientsOnly(c, array')
  BY <1>1, <1>2, <1>3 DEF ClientsOnly, Stores
<1>5. (array' = Null \/ array' # array => ~strayed')
  BY <1>1
<1>6. StringsInv' /\ contents' = contents
  BY <1>1, <1>4, <1>5, ClientKeeps
<1>7. cells' = c
  BY <1>1 DEF Client
<1>8. Bytes(c, array) = Bytes(cells, array)
  BY <1>2 DEF Bytes, Stores
<1> QED BY <1>1, <1>2, <1>6, <1>7, <1>8

LEMMA StringCopyKeeps ==
    ASSUME StringsInv, NEW t, NEW size, NEW terminate, stringCopy(t, size, terminate)
    PROVE  StringsInv' /\ contents' = contents
<1>1. array # Null /\ \E chars : Copied(chars)
  BY DEF stringCopy
<1> QED BY <1>1, CopiedKeeps

LEMMA PutLabelKeeps ==
    ASSUME StringsInv, NEW length, PutLabel(length)
    PROVE  StringsInv' /\ contents' = contents
<1>1. array # Null /\ \E chars : Copied(chars)
  BY DEF PutLabel
<1> QED BY <1>1, CopiedKeeps

LEMMA StrayKeeps ==
    ASSUME StringsInv, NEW block \in {"first", "last"}, NEW field \in {"size", "start", "magic"}, NEW v,
           field = "magic" => v \notin {MAGIC_STRING_START, MAGIC_STRING_END},
           Stray(block, field, v)
    PROVE  StringsInv' /\ contents' = contents
<1> DEFINE n == Bytes(cells, array)
           g == StrayedBlocks(n, block, field, v)
<1>1. array # Null /\ guards[array] = construct(n)
  BY DEF Stray, Untouched
<1>2. /\ mBuf' = mBuf /\ mSize' = mSize /\ mRealSize' = mRealSize /\ cells' = cells
      /\ array' = array /\ mData' = mData
  BY DEF Stray, vars
<1>3. guards' = [guards EXCEPT ![array] = g]
  <2>1. guards' = [guards EXCEPT ![array][block] = [guards[array][block] EXCEPT ![field] = v]]
    BY DEF Stray
  <2>2. guards' = [guards EXCEPT ![array] = [guards[array] EXCEPT ![block] = [guards[array][block] EXCEPT ![field] = v]]]
    BY <2>1
  <2>3. g = [construct(n) EXCEPT ![block] = [construct(n)[block] EXCEPT ![field] = v]]
    <3>1. block \in DOMAIN construct(n)
      BY DEF construct
    <3> QED BY <3>1 DEF StrayedBlocks
  <2> QED BY <1>1, <2>2, <2>3
<1>4. strayed' <=> StrayedBlock(n, block, field, v)
  BY <1>1 DEF Stray, StrayedBlock
<1>5. Corrupt(g, n) <=> strayed'
  BY <1>4, StraySeen
<1>6. array \in DOMAIN guards
  BY <1>1, HeapBufferAssumption DEF StringsInv, GuardsOK, ArrayOK
<1> HIDE DEF g
<1>7. GuardsOK'
  BY <1>2, <1>3, <1>5, <1>6 DEF StringsInv, GuardsOK, Bytes
<1>8. StringFieldsOK' /\ StringsOK' /\ Apart' /\ LiteralsKept(cells') /\ Allocated'
  BY <1>2 DEF StringsInv, StringFieldsOK, StringsOK, Apart, LiteralsKept, Allocated, Owned
<1>9. ArrayOK'
  BY <1>1, <1>2 DEF StringsInv, ArrayOK
<1>10. contents' = contents
  BY <1>2 DEF contents, Usable, injected
<1> QED BY <1>7, <1>8, <1>9, <1>10 DEF StringsInv

LEMMA SetLabelKeeps ==
    ASSUME StringsInv, NEW t \in Phrases, SetLabel(t)
    PROVE  StringsInv' /\ contents' = contents
<1>1. /\ mBuf' = mBuf /\ mSize' = mSize /\ mRealSize' = mRealSize /\ cells' = cells
      /\ array' = array /\ guards' = guards /\ strayed' = strayed /\ mData' = LabelWith(t)
  BY DEF SetLabel, vars
<1>2. LabelWith(t) \in [0 .. N - 1 -> Values]
  <2>1. Terminator \in Values
    BY HeapBufferAssumption DEF Terminator
  <2>2. ASSUME NEW i \in 0 .. N - 1, i < Len(t) PROVE t[i + 1] \in Values
    <3>1. Len(t) \in Nat /\ i + 1 \in 1 .. Len(t)
      BY <2>2, CStrings, StringsAssumption
    <3> QED BY <3>1, CStrings
  <2> QED BY <2>1, <2>2 DEF LabelWith
<1>3. StringFieldsOK'
  BY <1>1, <1>2 DEF StringsInv, StringFieldsOK
<1>4. StringsOK' /\ Apart' /\ LiteralsKept(cells') /\ Allocated' /\ ArrayOK' /\ GuardsOK'
  BY <1>1 DEF StringsInv, StringsOK, Apart, LiteralsKept, Allocated, Owned, ArrayOK, GuardsOK, Bytes
<1>5. contents' = contents
  BY <1>1 DEF contents, Usable, injected
<1> QED BY <1>3, <1>4, <1>5 DEF StringsInv

LEMMA StringsStutter ==
    ASSUME StringsInv, UNCHANGED stringVars
    PROVE  StringsInv' /\ contents' = contents
<1>1. /\ mBuf' = mBuf /\ mSize' = mSize /\ mRealSize' = mRealSize /\ cells' = cells
      /\ array' = array /\ guards' = guards /\ strayed' = strayed /\ mData' = mData
  BY DEF stringVars, vars
<1>2. StringsInv'
  BY <1>1 DEF StringsInv, StringFieldsOK, StringsOK, Apart, LiteralsKept, Allocated, Owned, ArrayOK, 
              GuardsOK, Bytes
<1>3. contents' = contents
  BY <1>1 DEF contents, Usable, injected
<1> QED BY <1>2, <1>3
-----------------------------------------------------------------------------
(***************************************************************************)
(* Every step keeps the invariant, and is one of Texts.                    *)
(***************************************************************************)
LEMMA SourceTexts ==
    ASSUME StringsInv, NEW s \in Buffers, NEW chars \in Sources(s)
    PROVE  chars \in Seq(Values) /\ Len(chars) <= MaxSize /\ chars \in TextsPromise!Sources(s)
<1>1. ASSUME NEW t \in Phrases, chars = CString(t)
      PROVE  chars \in Seq(Values) /\ Len(chars) <= MaxSize
  <2>1. Len(t) < MaxSize /\ Len(t) \in Nat /\ MaxSize \in Nat
    BY StringsAssumption, HeapBufferAssumption, CStrings
  <2> QED BY <1>1, <2>1, CStrings
<1>2. ASSUME NEW o \in Buffers \ {s}, chars = contents[o]
      PROVE  chars \in Seq(Values) /\ Len(chars) <= MaxSize
  BY <1>2, StringContents, StringFields
<1>3. chars \in TextsPromise!Sources(s)
  BY DEF Sources, TextsPromise!Sources, TextsPromise!CString, CString
<1> QED BY <1>1, <1>2, <1>3 DEF Sources

LEMMA CutTexts ==
    ASSUME NEW t \in Phrases, NEW length \in 1 .. Len(t) + 1
    PROVE  LET chars == CString(SubSeq(t, 1, length - 1)) IN
           /\ chars \in Seq(Values) /\ Len(chars) <= MaxSize
           /\ length - 1 \in 0 .. MaxSize /\ length - 1 <= Len(t)
<1> DEFINE k == length - 1
<1>1. Len(t) < MaxSize /\ Len(t) \in Nat /\ MaxSize \in Nat /\ t \in Seq(Values)
  BY StringsAssumption, HeapBufferAssumption, CStrings
<1>2. k \in 0 .. MaxSize /\ k <= Len(t) /\ k \in Nat
  BY <1>1
<1> HIDE DEF k
<1>3. SubSeq(t, 1, k) \in Seq(Values) /\ Len(SubSeq(t, 1, k)) = k
  <2>1. k \in 0 .. Len(t)
    BY <1>1, <1>2
  <2>2. k = 0 => 1 .. k = {}
    OBVIOUS
  <2> QED BY <1>1, <1>2, <2>1, <2>2, SubSeqProperties
<1>4. Terminator \in Values
  BY HeapBufferAssumption DEF Terminator
<1>5. CString(SubSeq(t, 1, k)) \in Seq(Values) /\ Len(CString(SubSeq(t, 1, k))) = k + 1
  BY <1>3, <1>4, AppendProperties DEF CString
<1>6. k + 1 <= MaxSize
  BY <1>1, <1>2
<1> QED BY <1>2, <1>5, <1>6 DEF k

LEMMA SetLengthKeeps ==
    ASSUME StringsInv, Roomy, NEW s \in Buffers, NEW t \in Phrases, NEW length \in 1 .. MaxSize, 
           SetLength(s, t, length)
    PROVE  StringsInv' /\ TextsPromise!TextsNext
<1>1. length \in 1 .. Len(t) + 1 /\ SetString(s, CString(SubSeq(t, 1, length - 1)))
  BY DEF SetLength
<1> DEFINE chars == CString(SubSeq(t, 1, length - 1))
<1>2. StringsInv' /\ contents' = [contents EXCEPT ![s] = chars]
  BY <1>1, CutTexts, SetStringKeeps
<1>3. PICK len \in 0 .. MaxSize : len <= Len(t) /\ chars = CString(SubSeq(t, 1, len))
  BY <1>1, CutTexts
<1>4. TextsPromise!Assign(s, TextsPromise!CString(SubSeq(t, 1, len)))
  BY <1>2, <1>3 DEF TextsPromise!Assign, TextsPromise!CString, CString
<1> QED BY <1>2, <1>3, <1>4 DEF TextsPromise!TextsNext

LEMMA StringStepKeeps ==
    ASSUME StringsInv, ~ReservesBorrowed, Roomy, ~FillsChunks, NEW s \in Buffers,
           \/ \E chars \in Sources(s) :
                 SetString(s, chars) \/ AppendTo(s, chars) \/ Prepend(s, chars)
           \/ \E t \in Phrases, length \in 1 .. MaxSize : SetLength(s, t, length)
           \/ \E f \in DOMAIN Foreign : SetInjected(s, f)
           \/ \E n \in 0 .. MaxSize : ResizeString(s, n) \/ ReserveString(s, n)
           \/ \E i \in 0 .. MaxSize - 1, c \in Typed : SetChar(s, i, c)
           \/ DestroyString(s)
    PROVE  StringsInv' /\ (~PrependsToText => [TextsPromise!TextsNext]_contents)
<1>1. ASSUME NEW chars \in Sources(s), SetString(s, chars)
      PROVE  StringsInv' /\ TextsPromise!TextsNext
  <2>1. StringsInv' /\ contents' = [contents EXCEPT ![s] = chars] /\ chars \in TextsPromise!Sources(s)
    BY <1>1, SourceTexts, SetStringKeeps
  <2>2. TextsPromise!Assign(s, chars)
    BY <2>1 DEF TextsPromise!Assign
  <2> QED BY <2>1, <2>2 DEF TextsPromise!TextsNext
<1>2. ASSUME NEW chars \in Sources(s), AppendTo(s, chars)
      PROVE  StringsInv' /\ TextsPromise!TextsNext
  <2>1. /\ StringsInv' /\ contents[s] # <<>> /\ chars # <<>> /\ chars \in TextsPromise!Sources(s)
        /\ contents' = [contents EXCEPT ![s] = Seqs!Front(contents[s]) \o chars]
    BY <1>2, SourceTexts, AppendToKeeps
  <2>2. TextsPromise!Front(contents[s]) = Seqs!Front(contents[s])
    BY <2>1, StringContents, Fronts
  <2>3. TextsPromise!AppendTo(s, chars)
    BY <2>1, <2>2 DEF TextsPromise!AppendTo
  <2> QED BY <2>1, <2>3 DEF TextsPromise!TextsNext
<1>3. ASSUME NEW chars \in Sources(s), Prepend(s, chars)
      PROVE  StringsInv' /\ (~PrependsToText => TextsPromise!TextsNext)
  <2>1. /\ StringsInv' /\ contents[s] # <<>> /\ chars # <<>> 
        /\ chars \in TextsPromise!Sources(s) /\ chars \in Seq(Values)
        /\ ~PrependsToText =>
              contents' = [contents EXCEPT ![s] = Seqs!Front(chars) \o contents[s]]
    BY <1>3, SourceTexts, PrependKeeps
  <2>2. TextsPromise!Front(chars) = Seqs!Front(chars)
    BY <2>1, Fronts
  <2>3. ~PrependsToText => TextsPromise!Prepend(s, chars)
    BY <2>1, <2>2 DEF TextsPromise!Prepend
  <2> QED BY <2>1, <2>3 DEF TextsPromise!TextsNext
<1>4. ASSUME NEW t \in Phrases, NEW length \in 1 .. MaxSize, SetLength(s, t, length)
      PROVE  StringsInv' /\ TextsPromise!TextsNext
  BY <1>4, SetLengthKeeps
<1>5. ASSUME NEW f \in DOMAIN Foreign, SetInjected(s, f)
      PROVE  StringsInv' /\ TextsPromise!TextsNext
  <2>1. PICK t \in Phrases : contents' = [contents EXCEPT ![s] = CString(t)]
    BY <1>5, SetInjectedKeeps
  <2>2. CString(t) \in TextsPromise!Sources(s)
    BY DEF TextsPromise!Sources, TextsPromise!CString, CString
  <2>3. TextsPromise!Assign(s, CString(t))
    BY <2>1 DEF TextsPromise!Assign
  <2>4. StringsInv'
    BY <1>5, SetInjectedKeeps
  <2> QED BY <2>2, <2>3, <2>4 DEF TextsPromise!TextsNext
<1>6. ASSUME NEW n \in 0 .. MaxSize, ResizeString(s, n)
      PROVE  StringsInv' /\ TextsPromise!TextsNext
  <2>1. /\ StringsInv' 
        /\ contents' = [contents EXCEPT ![s] = 
             [i \in 1 .. n |-> IF i <= Len(contents[s]) THEN contents[s][i] ELSE Terminator]]
    BY <1>6, ResizeStringKeeps
  <2>2. TextsPromise!SetLength(s, n)
    BY <2>1 DEF TextsPromise!SetLength
  <2> QED BY <2>1, <2>2 DEF TextsPromise!TextsNext
<1>7. ASSUME NEW n \in 0 .. MaxSize, ReserveString(s, n)
      PROVE  StringsInv' /\ contents' = contents
  BY <1>7, ReserveStringKeeps
<1>8. ASSUME NEW i \in 0 .. MaxSize - 1, NEW c \in Typed, SetChar(s, i, c)
      PROVE  StringsInv' /\ TextsPromise!TextsNext
  <2>1. /\ StringsInv' /\ i + 1 \in DOMAIN contents[s] 
        /\ contents' = [contents EXCEPT ![s][i + 1] = c]
    BY <1>8, SetCharKeeps
  <2>2. TextsPromise!SetChar(s, i + 1, c)
    BY <2>1 DEF TextsPromise!SetChar
  <2>3. i + 1 \in 1 .. MaxSize /\ c \in Values
    BY StringsAssumption, StringFields
  <2> QED BY <2>1, <2>2, <2>3 DEF TextsPromise!TextsNext
<1>9. ASSUME DestroyString(s) PROVE StringsInv' /\ TextsPromise!TextsNext
  <2>1. StringsInv' /\ contents' = [contents EXCEPT ![s] = <<>>]
    BY <1>9, DestroyStringKeeps
  <2>2. TextsPromise!Assign(s, <<>>)
    BY <2>1 DEF TextsPromise!Assign
  <2> QED BY <2>1, <2>2 DEF TextsPromise!TextsNext
<1> QED BY <1>1, <1>2, <1>3, <1>4, <1>5, <1>6, <1>7, <1>8, <1>9

LEMMA StringsStep ==
    ASSUME StringsInv, ~ReservesBorrowed, Roomy, ~FillsChunks, [StringsNext]_stringVars
    PROVE  StringsInv' /\ (~PrependsToText => [TextsPromise!TextsNext]_contents)
<1>1. ASSUME NEW block \in {"first", "last"}, StrayByte(block)
      PROVE  StringsInv' /\ contents' = contents
  <2>1. ASSUME NEW field \in {"size", "start"}, NEW v \in Values, Stray(block, field, v)
        PROVE  StringsInv' /\ contents' = contents
    BY <2>1, StrayKeeps
  <2>2. ASSUME Stray(block, "magic", Other) PROVE StringsInv' /\ contents' = contents
    BY <2>2, StrayKeeps, StringsAssumption
  <2> QED BY <1>1, <2>1, <2>2 DEF StrayByte
<1>2. CASE UNCHANGED stringVars
  BY <1>2, StringsStutter
<1>3. CASE StringsNext
  <2>1. CASE \E s \in {o \in Buffers : Beside(o)} :
                \/ \E chars \in Sources(s) :
                      SetString(s, chars) \/ AppendTo(s, chars) \/ Prepend(s, chars)
                \/ \E t \in Phrases, length \in 1 .. MaxSize : SetLength(s, t, length)
                \/ \E f \in DOMAIN Foreign : SetInjected(s, f)
                \/ \E n \in 0 .. MaxSize : ResizeString(s, n) \/ ReserveString(s, n)
                \/ \E i \in 0 .. MaxSize - 1, c \in Typed : SetChar(s, i, c)
                \/ DestroyString(s)
    BY <2>1, StringStepKeeps
  <2>2. CASE \E n \in Lengths : tklb_malloc(n)
    BY <2>2, MallocKeeps
  <2>3. CASE tklb_free
    BY <2>3, FreeKeeps
  <2>4. CASE \E t \in Phrases, size \in 0 .. MaxSize, terminate \in BOOLEAN : 
                stringCopy(t, size, terminate)
    BY <2>4, StringCopyKeeps
  <2>5. CASE \E block \in {"first", "last"} : StrayByte(block)
    BY <1>1, <2>5
  <2>6. CASE \E t \in Phrases : SetLabel(t)
    BY <2>6, SetLabelKeeps
  <2>7. CASE \E length \in 1 .. MaxSize : PutLabel(length)
    BY <2>7, PutLabelKeeps
  <2> QED BY <1>3, <2>1, <2>2, <2>3, <2>4, <2>5, <2>6, <2>7 DEF StringsNext
<1> QED BY <1>2, <1>3

LEMMA StringsStart ==
    ASSUME StringsInit
    PROVE  StringsInv /\ contents = [b \in Buffers |-> <<>>]
<1>1. /\ mBuf = [b \in Buffers |-> Null] /\ mSize = [b \in Buffers |-> 0] 
      /\ mRealSize = [b \in Buffers |-> 0]
      /\ cells = [f \in DOMAIN Foreign |-> LiteralCells(f)]
      /\ guards = <<>> /\ array = Null /\ strayed = FALSE
      /\ mData = [i \in 0 .. N - 1 |-> Terminator]
  BY DEF StringsInit, Fresh, LiteralCells
<1>2. MaxSize \in Nat /\ ChunkSize \in Nat /\ Terminator \in Values
  BY HeapBufferAssumption DEF Terminator
<1>3. StringFieldsOK
  BY <1>1, <1>2 DEF StringFieldsOK
<1>4. StringsOK
  BY <1>1 DEF StringsOK, StringOK
<1>5. Apart /\ ArrayOK
  BY <1>1 DEF Apart, ArrayOK
<1>6. LiteralsKept(cells)
  BY <1>1 DEF LiteralsKept
<1>7. Allocated
  <2>1. \A b \in Buffers : ~(0 < mRealSize[b])
    BY <1>1
  <2>2. Owned = {}
    BY <2>1 DEF Owned
  <2>3. DOMAIN cells = DOMAIN Foreign /\ {array} \ {Null} = {}
    BY <1>1
  <2> QED BY <2>2, <2>3 DEF Allocated
<1>8. GuardsOK
  BY <1>1 DEF GuardsOK
<1>9. contents = [b \in Buffers |-> <<>>]
  BY <1>1 DEF contents, Usable, injected
<1> QED BY <1>3, <1>4, <1>5, <1>6, <1>7, <1>8, <1>9 DEF StringsInv
-----------------------------------------------------------------------------
(***************************************************************************)
(* What copies leave                                                       *)
(***************************************************************************)
LEMMA Fitted ==
    ASSUME NEW t \in Seq(Values), NEW room \in Nat \ {0}
    PROVE  /\ Fitting(t, room) \in Seq(Values) /\ Len(t) \in Nat
           /\ Len(Fitting(t, room)) = Lesser(Len(t), room - 1)
           /\ Lesser(Len(t), room - 1) \in 0 .. Len(t)
           /\ \A j \in 1 .. Lesser(Len(t), room - 1) : Fitting(t, room)[j] = t[j]
<1> DEFINE k == Lesser(Len(t), room - 1)
<1>1. k \in 0 .. Len(t) /\ Len(t) \in Nat
  BY LenProperties DEF Lesser
<1> HIDE DEF k
<1>2. /\ SubSeq(t, 1, k) \in Seq(Values) /\ Len(SubSeq(t, 1, k)) = k
      /\ \A j \in 1 .. k : SubSeq(t, 1, k)[j] = t[j]
  <2>1. k = 0 => 1 .. k = {}
    OBVIOUS
  <2>2. \A j \in 1 .. k : 1 + j - 1 = j
    BY <1>1
  <2> QED BY <1>1, <2>1, <2>2, SubSeqProperties
<1>3. Fitting(t, room) = SubSeq(t, 1, k)
  BY DEF Fitting, k
<1> QED BY <1>1, <1>2, <1>3 DEF k

\* What is copied with a terminator is the text of the array.
LEMMA ArrayHolds ==
    ASSUME StringsInv, array # Null, NEW chars, Copied(chars), NEW u \in Seq(Values),
           NEW n \in Nat, n = Len(u) + 1, n <= Bytes(cells, array), 
           n \in DOMAIN chars, chars[n] = Terminator,
           \A j \in 1 .. n - 1 : j \in DOMAIN chars /\ chars[j] = u[j] /\ u[j] # Terminator
    PROVE  ArrayText' = u
<1> DEFINE size == Bytes(cells, array)
           a == [j \in 1 .. size |-> cells'[array][j - 1]]
           S == Values \cup {cells'[array][j - 1] : j \in 1 .. size}
<1>1. size \in Nat /\ DOMAIN cells[array] = 0 .. size - 1
  BY ArrayCells
<1>2. /\ array' = array /\ Bytes(cells', array) = size
      /\ Stores(cells', cells, array, 0, chars)
  BY CopiedKeeps
<1>3. a \in Seq(S) /\ Len(a) = size
  <2>1. \A j \in 1 .. size : cells'[array][j - 1] \in S
    OBVIOUS
  <2> HIDE DEF S, size
  <2>2. a \in [1 .. size -> S]
    BY <2>1
  <2> QED BY <1>1, <2>2
<1>4. u \in Seq(S) /\ Len(u) \in Nat
  BY ElementOfSeq, LenProperties
<1>5. ASSUME NEW j \in 1 .. size, j \in DOMAIN chars PROVE a[j] = chars[j]
  <2>1. j - 1 \in DOMAIN cells[array] /\ (j - 1) - 0 + 1 = j
    BY <1>1
  <2>2. cells'[array][j - 1] = chars[j]
    BY <1>5, <1>2, <2>1 DEF Stores
  <2> QED BY <2>2
<1>6. n \in 1 .. size /\ \A j \in 1 .. n - 1 : j \in 1 .. size
  BY <1>1, <1>4
<1> HIDE DEF a, S
<1>7. TextOf(a) = u
  <2>1. n \in 1 .. Len(a) /\ a[n] = Terminator
    BY <1>3, <1>5, <1>6
  <2>2. \A j \in 1 .. n - 1 : a[j] = u[j] /\ u[j] # Terminator
    BY <1>5, <1>6
  <2> QED BY <1>3, <1>4, <2>1, <2>2, TextIs
<1>8. ArrayText' = TextOf(a)
  BY <1>2 DEF ArrayText, a
<1> QED BY <1>7, <1>8

LEMMA CopyFits ==
    ASSUME StringsInv, NEW t \in Phrases, NEW size \in 1 .. MaxSize, stringCopy(t, size, TRUE)
    PROVE  ArrayText' = Fitting(t, size)
<1> DEFINE src == CString(t)
           chars == CopiedChars(src, size, TRUE)
           u == Fitting(t, size)
           k == Lesser(Len(t), size - 1)
<1>1. size \in Nat \ {0} /\ size > 0 /\ ~(size = 0)
  BY HeapBufferAssumption
<1>2. array # Null /\ size <= Bytes(cells, array) /\ Copied(chars)
  BY <1>1 DEF stringCopy
<1>3. /\ t \in Seq(Values) /\ Len(t) \in Nat /\ End(src) = Len(t) + 1
      /\ src \in Seq(Values) /\ Len(src) = Len(t) + 1 /\ src[Len(t) + 1] = Terminator
      /\ \A j \in 1 .. Len(t) : t[j] # Terminator /\ src[j] = t[j]
  BY CStrings
<1>4. /\ u \in Seq(Values) /\ Len(u) = k /\ k \in 0 .. Len(t) /\ k \in Nat
      /\ \A j \in 1 .. k : u[j] = t[j]
  BY <1>1, <1>3, Fitted
<1>5. ASSUME NEW m \in 1 .. Len(src)
      PROVE  /\ SubSeq(src, 1, m) \in Seq(Values) /\ DOMAIN SubSeq(src, 1, m) = 1 .. m
             /\ \A j \in 1 .. m : SubSeq(src, 1, m)[j] = src[j]
  <2>1. m \in 0 .. Len(src) /\ Len(src) \in Nat /\ \A j \in 1 .. m : 1 + j - 1 = j
    BY <1>3
  <2> HIDE DEF src
  <2>2. /\ SubSeq(src, 1, m) \in Seq(Values) /\ Len(SubSeq(src, 1, m)) = m
        /\ \A j \in 1 .. m : SubSeq(src, 1, m)[j] = src[j]
    BY <1>3, <2>1, SubSeqProperties
  <2> QED BY <2>2, LenProperties
<1>6. k + 1 \in DOMAIN chars /\ chars[k + 1] = Terminator
      /\ \A j \in 1 .. k : j \in DOMAIN chars /\ chars[j] = src[j]
  <2>1. CASE Len(t) + 1 <= size
    <3>1. k = Len(t) /\ k + 1 \in 1 .. Len(src) /\ \A j \in 1 .. k : j \in 1 .. k + 1
      BY <1>1, <1>3, <2>1 DEF Lesser
    <3>2. chars = SubSeq(src, 1, k + 1)
      BY <1>3, <2>1, <3>1 DEF CopiedChars
    <3>3. k + 1 \in 1 .. k + 1
      BY <1>4
    <3> HIDE DEF chars, k, src
    <3> QED BY <1>3, <1>5, <3>1, <3>2, <3>3
  <2>2. CASE ~(Len(t) + 1 <= size)
    <3>1. k + 1 = size /\ size \in 1 .. Len(src) /\ \A j \in 1 .. k : j \in 1 .. size /\ j # size
      BY <1>1, <1>3, <2>2 DEF Lesser
    <3>2. chars = [SubSeq(src, 1, size) EXCEPT ![size] = Terminator]
      BY <1>3, <2>2 DEF CopiedChars
    <3>3. size \in 1 .. size
      BY <1>1
    <3> HIDE DEF chars, k, src
    <3> QED BY <1>5, <3>1, <3>2, <3>3
  <2> QED BY <2>1, <2>2
<1>7. k + 1 <= Bytes(cells, array) /\ k + 1 \in Nat /\ (k + 1) - 1 = k
  <2>1. k <= size - 1
    BY <1>1, <1>3 DEF Lesser
  <2>2. Bytes(cells, array) \in Nat
    BY <1>2, ArrayCells
  <2> HIDE DEF k
  <2> QED BY <1>1, <1>2, <1>4, <2>1, <2>2
<1> HIDE DEF chars, u, k, src
<1>8. \A j \in 1 .. k : chars[j] = u[j] /\ u[j] # Terminator
  <2>1. \A j \in 1 .. k : j \in 1 .. Len(t)
    BY <1>3, <1>4
  <2> QED BY <1>3, <1>4, <1>6, <2>1
<1>9. ArrayText' = u
  BY <1>2, <1>4, <1>6, <1>7, <1>8, ArrayHolds
<1> QED BY <1>9 DEF u

\* The text of a StackString, with or without room for a terminator.
LEMMA LabelTexts ==
    ASSUME StringsInv
    PROVE  /\ LabelText \in Seq(Values) /\ Len(LabelText) \in 0 .. N /\ N \in Nat \ {0}
           /\ \A j \in 1 .. Len(LabelText) : LabelText[j] = mData[j - 1] /\ LabelText[j] # Terminator
           /\ Len(LabelText) < N => mData[Len(LabelText)] = Terminator
<1> DEFINE e == End(Label)
<1>1. /\ N \in Nat \ {0} /\ Label \in Seq(Values) /\ Len(Label) = N 
      /\ \A j \in 1 .. N : Label[j] = mData[j - 1]
      /\ LabelText = TextOf(Label)
  BY Labels DEF StringsInv, StringFieldsOK
<1>2. /\ e \in 0 .. N /\ (0 < e => Label[e] = Terminator)
      /\ \A j \in 1 .. N : j < e \/ e = 0 => Label[j] # Terminator
  BY <1>1, Ends
<1> HIDE DEF e
<1>3. CASE e = 0
  <2>1. LabelText = Label
    BY <1>1, <1>3 DEF TextOf, e
  <2> QED BY <1>1, <1>2, <1>3, <2>1
<1>4. CASE e # 0
  <2> DEFINE k == e - 1
  <2>1. k \in 0 .. N /\ k < N /\ e = k + 1 /\ k \in Nat /\ \A j \in 1 .. k : 1 + j - 1 = j
    BY <1>1, <1>2, <1>4
  <2> HIDE DEF k
  <2>2. LabelText = SubSeq(Label, 1, k)
    BY <1>1, <1>4, <2>1 DEF TextOf, e
  <2>3. /\ SubSeq(Label, 1, k) \in Seq(Values) /\ Len(SubSeq(Label, 1, k)) = k
        /\ \A j \in 1 .. k : SubSeq(Label, 1, k)[j] = Label[j]
    <3>1. k = 0 => 1 .. k = {}
      OBVIOUS
    <3> QED BY <1>1, <2>1, <3>1, SubSeqProperties
  <2>4. \A j \in 1 .. k : j \in 1 .. N /\ j < e
    BY <1>1, <2>1
  <2>5. mData[k] = Terminator
    <3>1. e \in 1 .. N /\ e - 1 = k /\ 0 < e
      BY <1>1, <1>2, <2>1
    <3> QED BY <1>1, <1>2, <3>1
  <2> QED BY <1>1, <1>2, <2>1, <2>2, <2>3, <2>4, <2>5
<1> QED BY <1>3, <1>4

LEMMA PutFits ==
    ASSUME StringsInv, NEW length \in 1 .. MaxSize, PutLabel(length)
    PROVE  ArrayText' = Fitting(LabelText, length)
<1> DEFINE max == Lesser(N, length - 1)
           chars == [j \in 1 .. max + 1 |-> IF j <= max THEN mData[j - 1] ELSE Terminator]
           u == Fitting(LabelText, length)
           l == Len(LabelText)
           k == Lesser(l, length - 1)
<1>1. length \in Nat \ {0} /\ length >= 1
  BY HeapBufferAssumption
<1>2. array # Null /\ length <= Bytes(cells, array) /\ Copied(chars)
  BY ArrayCells, <1>1 DEF PutLabel
<1>3. /\ LabelText \in Seq(Values) /\ l \in 0 .. N /\ N \in Nat \ {0}
      /\ \A j \in 1 .. l : LabelText[j] = mData[j - 1] /\ LabelText[j] # Terminator
      /\ l < N => mData[l] = Terminator
  BY LabelTexts
<1>4. /\ u \in Seq(Values) /\ Len(u) = k /\ \A j \in 1 .. k : u[j] = LabelText[j]
  BY <1>1, <1>3, Fitted
<1> HIDE DEF l
<1>5. /\ k \in Nat /\ k <= l /\ k <= length - 1 /\ k <= max /\ max \in Nat
      /\ k < max => k = l /\ l < N
  BY <1>1, <1>3 DEF Lesser
<1> HIDE DEF k, max
<1>6. k + 1 \in DOMAIN chars /\ chars[k + 1] = Terminator
  <2>1. k + 1 \in 1 .. max + 1 /\ (k + 1) - 1 = k /\ (k + 1 <= max => k < max)
    BY <1>5
  <2> QED BY <1>3, <1>5, <2>1
<1>7. \A j \in 1 .. k : j \in DOMAIN chars /\ chars[j] = u[j] /\ u[j] # Terminator
  <2>1. \A j \in 1 .. k : j \in 1 .. max + 1 /\ j <= max /\ j \in 1 .. l
    BY <1>3, <1>5
  <2> QED BY <1>3, <1>4, <2>1
<1>8. k + 1 <= Bytes(cells, array) /\ k + 1 \in Nat /\ (k + 1) - 1 = k
  <2>1. Bytes(cells, array) \in Nat
    BY <1>2, ArrayCells
  <2> QED BY <1>1, <1>2, <1>5, <2>1
<1> HIDE DEF chars, u
<1>9. ArrayText' = u
  BY <1>2, <1>4, <1>6, <1>7, <1>8, ArrayHolds
<1> QED BY <1>9 DEF u

LEMMA LabelFits ==
    ASSUME NEW t \in Phrases, SetLabel(t)
    PROVE  LabelText' = Fitting(t, N)
<1> DEFINE a == [j \in 1 .. N |-> LabelWith(t)[j - 1]]
           u == Fitting(t, N)
           k == Lesser(Len(t), N - 1)
<1>1. N \in Nat \ {0}
  BY StringsAssumption
<1>2. t \in Seq(Values) /\ Len(t) \in Nat /\ \A j \in 1 .. Len(t) : t[j] # Terminator /\ t[j] \in Values
  BY CStrings
<1>3. u \in Seq(Values) /\ Len(u) = k /\ \A j \in 1 .. k : u[j] = t[j]
  BY <1>1, <1>2, Fitted
<1>4. k \in Nat /\ k <= Len(t) /\ k <= N - 1 /\ (k < Len(t) => k = N - 1)
  BY <1>1, <1>2 DEF Lesser
<1>5. \A j \in 1 .. N : /\ j <= k => a[j] = t[j]
                        /\ ~(j <= k) => a[j] = Terminator
  <2> SUFFICES ASSUME NEW j \in 1 .. N
               PROVE  a[j] = IF j <= k THEN t[j] ELSE Terminator
    OBVIOUS
  <2>1. j - 1 \in 0 .. N - 1 /\ (j - 1) + 1 = j
    BY <1>1
  <2>2. a[j] = IF j - 1 < Len(t) /\ j - 1 < N - 1 THEN t[j] ELSE Terminator
    BY <2>1 DEF LabelWith
  <2>3. j - 1 < Len(t) /\ j - 1 < N - 1 <=> j <= k
    BY <1>1, <1>2 DEF Lesser
  <2> HIDE DEF k
  <2> QED BY <2>2, <2>3
<1> HIDE DEF k, u
<1>6. a \in Seq(Values) /\ Len(a) = N
  <2>1. Terminator \in Values
    BY HeapBufferAssumption DEF Terminator
  <2>2. ASSUME NEW j \in 1 .. N PROVE a[j] \in Values
    <3>1. j <= k => j \in 1 .. Len(t)
      BY <1>1, <1>2, <1>4
    <3> HIDE DEF a
    <3> QED BY <1>2, <1>5, <2>1, <3>1
  <2> HIDE DEF a
  <2>3. DOMAIN a = 1 .. N /\ a = [j \in 1 .. N |-> a[j]]
    BY DEF a
  <2> QED BY <1>1, <2>2, <2>3
<1> HIDE DEF a
<1>7. TextOf(a) = u
  <2>1. k + 1 \in 1 .. Len(a) /\ a[k + 1] = Terminator /\ k + 1 = Len(u) + 1
    BY <1>1, <1>3, <1>4, <1>5, <1>6
  <2>2. \A j \in 1 .. (k + 1) - 1 : a[j] = u[j] /\ u[j] # Terminator
    BY <1>1, <1>2, <1>3, <1>4, <1>5
  <2> QED BY <1>3, <1>6, <2>1, <2>2, TextIs
<1>8. LabelText' = TextOf(a)
  BY DEF LabelText, a, SetLabel
<1> QED BY <1>7, <1>8 DEF u
-----------------------------------------------------------------------------
(***************************************************************************)
(* Theorems of the strings.  Nothing is reserved for a borrowed text, no   *)
(* length reaches the limit of Size, and what is prepended leaves room:    *)
(* prepend() writes past the end of an allocation that it fills.  It loses *)
(* the first character of a text that is not empty, and contains() does    *)
(* not find what a text ends with: where that matters, clients prepend to  *)
(* empty strings only, and do not search for the end of a text.            *)
(***************************************************************************)
\* A string owns its memory alone or borrows a literal, literals are never
\* written to, and all blocks but those of the array are as constructed.
THEOREM StringsInvariant ==
    ASSUME Roomy, ~ReservesBorrowed, ~FillsChunks PROVE StringsSpec => []StringsInv
<1>1. StringsInit => StringsInv
  BY StringsStart
<1>2. StringsInv /\ [StringsNext]_stringVars => StringsInv'
  BY StringsStep
<1> QED BY <1>1, <1>2, PTL DEF StringsSpec

\* The magic blocks of an allocation fail the check exactly when the client
\* has written outside of it.  No string does, whatever is done to it.
THEOREM StringsOnlyStraysReported ==
    ASSUME Roomy, ~ReservesBorrowed, ~FillsChunks PROVE StringsSpec => []OnlyStraysReported
<1>1. StringsInv => OnlyStraysReported
  <2> SUFFICES ASSUME StringsInv, NEW m \in DOMAIN guards
               PROVE  Corrupt(guards[m], Bytes(cells, m)) <=> strayed /\ m = array
    BY DEF OnlyStraysReported
  <2>1. CASE m = array
    <3>1. array # Null
      BY <2>1, NoNullCells DEF StringsInv, GuardsOK
    <3> QED BY <2>1, <3>1 DEF StringsInv, GuardsOK
  <2>2. CASE m # array
    BY <2>2, ConstructIntact DEF StringsInv, GuardsOK
  <2> QED BY <2>1, <2>2
<1> QED BY <1>1, StringsInvariant, PTL

\* operator== and contains() see what the strings hold, of texts that do not
\* end with what is searched for.
THEOREM StringsQueriesAgree ==
    ASSUME Roomy, ~ReservesBorrowed, ~FillsChunks, ~SearchesEnds
    PROVE  StringsSpec => []QueriesAgree
<1>1. StringsInv => QueriesAgree
  <2> SUFFICES ASSUME StringsInv PROVE QueriesAgree
    OBVIOUS
  <2>1. \A b \in Buffers : contents[b] \in Seq(Values)
    BY StringContents
  <2>2. mData \in [0 .. N - 1 -> Values]
    BY DEF StringsInv, StringFieldsOK
  <2>3. ASSUME NEW s \in Buffers, NEW t \in Phrases, End(contents[s]) > 0
        PROVE  Equals(s, t) <=> TextOf(contents[s]) = t
    <3>1. 0 < End(contents[s])
      BY <2>1, <2>3, Ends
    <3> QED BY <2>1, <3>1, EqualsAgrees
  <2>4. \A t \in Phrases : Len(t) < N => (LabelEquals(t) <=> LabelText = t)
    BY <2>2, LabelAgrees
  <2>5. ASSUME NEW s \in Buffers, NEW o \in Buffers,
               End(contents[s]) > 0, End(contents[s]) = Len(contents[s]),
               End(contents[o]) > 0, End(contents[o]) = Len(contents[o]),
               IsEnd(TextOf(contents[o]), TextOf(contents[s])) => SearchesEnds
        PROVE  contains(contents[s], contents[o]) <=> Occurs(TextOf(contents[o]), TextOf(contents[s]))
    <3>1. 0 < End(contents[s]) /\ 0 < End(contents[o])
      BY <2>1, <2>5, Ends
    <3> QED BY <2>1, <2>5, <3>1, ContainsAgrees
  <2> QED BY <2>3, <2>4, <2>5 DEF QueriesAgree
<1> QED BY <1>1, StringsInvariant, PTL

\* What is copied into the array and the StackString is the text, or what fits.
THEOREM StringsCopiesFit ==
    ASSUME Roomy, ~ReservesBorrowed, ~FillsChunks PROVE StringsSpec => CopiesFit
<1>1. StringsInv => 
         /\ \A t \in Phrases, size \in 1 .. MaxSize :
               stringCopy(t, size, TRUE) => ArrayText' = Fitting(t, size)
         /\ \A length \in 1 .. MaxSize :
               PutLabel(length) => ArrayText' = Fitting(LabelText, length)
         /\ \A t \in Phrases : SetLabel(t) => LabelText' = Fitting(t, N)
  BY CopyFits, PutFits, LabelFits
<1> QED BY <1>1, StringsInvariant, PTL DEF CopiesFit

\* The strings implement Texts: a step of a string is the one of its text, all
\* others leave every text as it is.  Nothing is prepended to a text.
THEOREM StringsImplementTexts ==
    ASSUME Roomy, ~ReservesBorrowed, ~FillsChunks, ~PrependsToText
    PROVE  StringsSpec => ImplementsTexts
<1>1. StringsInit => TextsPromise!TextsInit
  BY StringsStart DEF TextsPromise!TextsInit
<1>2. StringsInv /\ [StringsNext]_stringVars => [TextsPromise!TextsNext]_contents
  BY StringsStep
<1> QED BY <1>1, <1>2, StringsInvariant, PTL DEF StringsSpec, ImplementsTexts, TextsPromise!TextsSpec
=============================================================================
