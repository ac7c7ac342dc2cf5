------------------------------- MODULE Strings -------------------------------
(***************************************************************************)
(* String and StackString (TString.hpp) and stringCopy() (TMemory.hpp)     *)
(* over memory from tklb_malloc(), in a build with TKLB_MEMORY_CHECK.      *)
(* A String keeps its characters and the terminator in a HeapBuffer; the   *)
(* client has an array of its own from the same allocator, and a           *)
(* StackString.  Every allocation is between two magic blocks; clients     *)
(* stray outside of theirs, strings should not.                            *)
(*                                                                         *)
(* A byte is a number, a character and the size in a magic block alike, so *)
(* that a character may happen to be what it overwrites.  tklb_malloc()    *)
(* does not return without memory in such a build: it would construct its  *)
(* blocks at the null pointer.                                             *)
(***************************************************************************)
EXTENDS HeapBuffer, MemoryCheck

Seqs == INSTANCE SequencesExt

CONSTANTS Literals,       \* foreign memory |-> the characters in it
          Phrases,        \* texts the clients use, without the terminator
          Typed,          \* characters the clients store through operator[]
          Lengths,        \* lengths of the client's arrays
          N,              \* of StackString
          Short,          \* characters stringCopy() looks at: 64
          Other           \* bytes that are in no magic string

\* What careful clients do not do, as the code is:
CONSTANTS FillsChunks,    \* prepend so much that all of the allocation is used
          PrependsToText, \* prepend something to a text that is not empty
          SearchesEnds    \* search a text for what it ends with

Terminator == Default

\* Literals are C strings, and there is room for every text in a buffer.
ASSUME StringsAssumption ==
    /\ Values \subseteq Nat /\ Terminator = 0 /\ ElementSize = 1
    /\ DOMAIN Literals = DOMAIN Foreign
    /\ \A f \in DOMAIN Foreign : 
          /\ Foreign[f] = Len(Literals[f])
          /\ \E t \in Phrases : Literals[f] = Append(t, Terminator)
    /\ \A t \in Phrases : t \in Seq(Values \ {Terminator}) /\ Len(t) < MaxSize
    /\ Typed \subseteq Values /\ Lengths \subseteq Nat \ {0}
    /\ {N, Short} \subseteq Nat \ {0}
    /\ Other \notin {MAGIC_STRING_START, MAGIC_STRING_END}

VARIABLES guards,         \* allocations |-> their magic blocks
          array,          \* memory of the client
          strayed,        \* whether the client has changed the blocks of its array
          mData           \* characters of a StackString

stringVars == <<vars, guards, array, strayed, mData>>

CString(t) == Append(t, Terminator)

\* The place of the terminator, 0 if there is none.
End(chars) == Seqs!SelectInSeq(chars, LAMBDA c : c = Terminator)

\* The text that characters hold: all up to the first terminator.
TextOf(chars) == IF End(chars) = 0 THEN chars ELSE SubSeq(chars, 1, End(chars) - 1)

StringsInit ==
    /\ Fresh
    /\ cells = [f \in DOMAIN Foreign |-> 
                  [i \in 0 .. Foreign[f] - 1 |-> Literals[f][i + 1]]]
    /\ guards = <<>> /\ array = Null /\ strayed = FALSE
    /\ mData = [i \in 0 .. N - 1 |-> Terminator]
-----------------------------------------------------------------------------
Bytes(c, m) == Cardinality(DOMAIN c[m])

\* The blocks around the memory as it is now: tklb_malloc() constructs those of
\* new allocations.
Guarded ==
    [m \in DOMAIN cells' \ DOMAIN Foreign |->
       IF m \in DOMAIN cells THEN guards[m] ELSE construct(Bytes(cells', m))]

Allocator == guards' = Guarded

\* Characters stored through operator[] from an index on.  The one after the
\* allocation is a byte of its last block: of the size.
Stored(c, m, first, chars) ==
    [c EXCEPT ![m] = [i \in DOMAIN @ |-> 
       IF i - first + 1 \in DOMAIN chars THEN chars[i - first + 1] ELSE @[i]]]

Spilled(g, m, i, chars) ==
    IF i \in DOMAIN chars THEN [g EXCEPT ![m].last.size = chars[i]] ELSE g

\* What a string is set to, appended or prepended: a C string, of which append()
\* and prepend() make a String that is gone when they return, or another String.
Sources(s) == {CString(t) : t \in Phrases} \cup {contents[o] : o \in Buffers \ {s}}

KeepsClient == UNCHANGED <<array, strayed, mData>>
-----------------------------------------------------------------------------
SetString(s, chars) == Set(s, chars) /\ Allocator /\ KeepsClient

\* set() with a length, of which the last character becomes the terminator.
SetLength(s, t, length) ==
    /\ length \in 1 .. Len(t) + 1
    /\ SetString(s, CString(SubSeq(t, 1, length - 1)))

SetInjected(s, f) == Borrow(s, f, cells[f]) /\ Allocator /\ KeepsClient

\* Defect: both terminators are counted.
AppendedLong(s, chars) == mSize[s] + Len(chars)

\* The own terminator is cropped off.
Appended(s, chars) == mSize[s] - 1 + Len(chars)

\* Of strings that hold at least their terminator: the size of one that has
\* none is 0, and start would wrap around.
AppendTo(s, chars) ==
    LET start == mSize[s] - 1 
        size == Appended(s, chars)
    IN  /\ Usable(s) /\ 0 < mSize[s] /\ chars # <<>> /\ size <= MaxSize
        /\ \E m \in Homes(s, size, TRUE) :
              /\ cells' = Stored(Resized(s, size, TRUE, m), m, start, chars)
              /\ SetFields(s, m, size, RealSize(s, size, TRUE))
              /\ guards' = Spilled(Guarded, m, Bytes(cells', m) - start + 1, chars)
    /\ KeepsClient

\* The characters move up by one too many: all but the first, which is lost,
\* and the one after them, which may be outside of the allocation.
Moved1(c, m, oldSize, size) ==
    [c EXCEPT ![m] = [i \in DOMAIN @ |->
       IF size - oldSize < i /\ i <= size THEN @[i - (size - oldSize)] ELSE @[i]]]

Prepend(s, chars) ==
    LET oldSize == mSize[s]
        size == oldSize + Len(chars) - 1
    IN  /\ Usable(s) /\ 0 < oldSize /\ chars # <<>> /\ size <= MaxSize
        /\ size % ChunkSize = 0 => FillsChunks
        /\ PrependsToText \/ Len(chars) = 1 \/ contents[s] = CString(<<>>)
        /\ \E m \in Homes(s, size, TRUE) :
              LET resized == Resized(s, size, TRUE, m) IN
              /\ cells' = Stored(Moved1(resized, m, oldSize, size), m, 0, Seqs!Front(chars))
              /\ SetFields(s, m, size, RealSize(s, size, TRUE))
              /\ guards' = IF size \in DOMAIN resized[m] \/ oldSize = size
                           THEN Guarded
                           ELSE Spilled(Guarded, m, 1, <<resized[m][oldSize]>>)
    /\ KeepsClient

ResizeString(s, size) == Resize(s, size, TRUE) /\ Allocator /\ KeepsClient

ReserveString(s, size) == Reserve(s, size) /\ Allocator /\ KeepsClient

\* operator[] of a string that is not const.
SetChar(s, i, c) ==
    /\ Usable(s) /\ ~injected(s) /\ i < mSize[s]
    /\ cells' = Written(cells, mBuf[s], i, i + 1, c)
    /\ UNCHANGED <<mBuf, mSize, mRealSize>>
    /\ Allocator /\ KeepsClient

DestroyString(s) == Destroy(s) /\ Allocator /\ KeepsClient
-----------------------------------------------------------------------------
Client(c) == /\ cells' = c /\ UNCHANGED <<mBuf, mSize, mRealSize>>
             /\ Allocator

\* tklb_malloc() of the client's array.
tklb_malloc(n) ==
    /\ array = Null /\ \E s \in Buffers : \A o \in Buffers \ {s} : mBuf[o] = Null
    /\ \E m \in Offered(n) : 
          /\ Client([x \in DOMAIN cells \cup {m} |->
                       IF x = m THEN [i \in 0 .. n - 1 |-> Raw] ELSE cells[x]])
          /\ array' = m
    /\ UNCHANGED <<strayed, mData>>

\* tklb_free(): an array whose first block is not intact is not given back,
\* and lost for the client.
tklb_free ==
    /\ array # Null
    /\ ~check(guards[array], Bytes(cells, array)).underrun
    /\ Client([x \in DOMAIN cells \ {array} |-> cells[x]])
    /\ array' = Null /\ strayed' = FALSE
    /\ UNCHANGED mData

\* Bound: a client that has written outside of its array does nothing more
\* with it than free it, and does so once, before anything is in the array.
Untouched == guards[array] = construct(Bytes(cells, array))

Copied(chars) ==
    /\ Untouched
    /\ Client(Stored(cells, array, 0, chars)) 
    /\ KeepsClient

\* Defect: the terminator comes after the last character.
CopiedPastEnd(src, size, terminate) ==
    LET i == End(src)
    IN  IF i <= size THEN SubSeq(src, 1, i)
        ELSE SubSeq(src, 1, size) \o (IF terminate THEN <<Terminator>> ELSE <<>>)

\* What stringCopy() stores: all of a C string that fits, or what fits of it,
\* with the last character run over.
CopiedChars(src, size, terminate) ==
    LET i == End(src)
    IN  IF i <= size THEN SubSeq(src, 1, i)
        ELSE [SubSeq(src, 1, size) EXCEPT ![size] = IF terminate THEN Terminator ELSE @]

\* Without a size it is looked for among the first characters: that of a short
\* string does not count the terminator.
stringCopy(t, size, terminate) ==
    LET src == CString(t)
        found == Len(t) < Short
        length == IF size > 0 THEN size ELSE IF found THEN Len(t) ELSE Short - 1
        ends == IF size > 0 THEN terminate ELSE ~found
    IN  /\ array # Null /\ length <= Bytes(cells, array)
        /\ Copied(IF length = 0 THEN <<>> ELSE CopiedChars(src, length, ends))

\* The client writes outside of its array, and so one field of a magic block.
\* A flag that reads as before is not seen to be changed.
Stray(block, field, v) ==
    LET old == guards[array][block]
        new == [old EXCEPT ![field] = v]
    IN  /\ array # Null /\ Untouched /\ cells[array][0] = Raw
        /\ guards' = [guards EXCEPT ![array][block] = new]
        /\ strayed' = (new # old /\ ~(field = "start" /\ (v # 0 <=> old.start # 0)))
        /\ UNCHANGED <<vars, array, mData>>

StrayByte(block) ==
    \/ \E field \in {"size", "start"}, v \in Values : Stray(block, field, v)
    \/ Stray(block, "magic", Other)
-----------------------------------------------------------------------------
LabelText == TextOf([j \in 1 .. N |-> mData[j - 1]])

LabelWith(t) ==
    [i \in 0 .. N - 1 |-> IF i < Len(t) /\ i < N - 1 THEN t[i + 1] ELSE Terminator]

SetLabel(t) ==
    /\ mData' = LabelWith(t)
    /\ UNCHANGED <<vars, guards, array, strayed>>

\* put() into a part of the array; of none, length - 1 would wrap around.
PutLabel(length) ==
    /\ array # Null /\ length \in 1 .. Bytes(cells, array)
    /\ Copied([j \in 1 .. Lesser(N, length - 1) + 1 |-> 
                 IF j <= Lesser(N, length - 1) THEN mData[j - 1] ELSE Terminator])
-----------------------------------------------------------------------------
\* Bound: while the client has its array, one string at a time has memory.
Beside(s) == array = Null \/ \A o \in Buffers \ {s} : mBuf[o] = Null

StringsNext ==
    \/ \E s \in {o \in Buffers : Beside(o)} :
          \/ \E chars \in Sources(s) :
                SetString(s, chars) \/ AppendTo(s, chars) \/ Prepend(s, chars)
          \/ \E t \in Phrases, length \in 1 .. MaxSize : SetLength(s, t, length)
          \/ \E f \in DOMAIN Foreign : SetInjected(s, f)
          \/ \E n \in 0 .. MaxSize : ResizeString(s, n) \/ ReserveString(s, n)
          \/ \E i \in 0 .. MaxSize - 1, c \in Typed : SetChar(s, i, c)
          \/ DestroyString(s)
    \/ \E n \in Lengths : tklb_malloc(n)
    \/ tklb_free
    \/ \E t \in Phrases, size \in 0 .. MaxSize, terminate \in BOOLEAN : 
          stringCopy(t, size, terminate)
    \/ \E block \in {"first", "last"} : StrayByte(block)
    \/ \E t \in Phrases : SetLabel(t)
    \/ \E length \in 1 .. MaxSize : PutLabel(length)

StringsSpec == StringsInit /\ [][StringsNext]_stringVars
-----------------------------------------------------------------------------
\* Defect: the last character of the other text, its terminator, is not compared.
EqualsStart(s, t) == 
    LET b == CString(t) 
        a == contents[s] IN
    \E i \in DOMAIN a : 
       /\ i <= Len(b) /\ b[i] = Terminator
       /\ \A j \in 1 .. i - 1 : a[j] = b[j]

Equals(s, t) == 
    LET b == CString(t) 
        a == contents[s] IN
    \E i \in DOMAIN a : 
       /\ i <= Len(b) /\ b[i] = Terminator
       /\ \A j \in 1 .. i : a[j] = b[j]

\* contains(): all characters but the last must be those of b, and the last,
\* the terminator, must not be.
contains(a, b) ==
    \E i \in 0 .. Len(a) - 1 :
       /\ Len(b) > 0 /\ i + Len(b) <= Len(a)
       /\ \A j \in 1 .. Len(b) - 1 : a[i + j] = b[j]
       /\ a[i + Len(b)] # b[Len(b)]

LabelEquals(t) ==
    LET b == CString(t) IN
    IF mData[0] = Terminator THEN t = <<>>
    ELSE \A i \in 0 .. N - 1 : 
            (\A j \in 1 .. i : b[j] # Terminator) => mData[i] = b[i + 1]
-----------------------------------------------------------------------------
(***************************************************************************)
(* The magic blocks "detect heap corruption", and nothing else: an         *)
(* allocation fails the check that comes with tklb_free() exactly when a   *)
(* client has written outside of it.  Strings do not, however they are     *)
(* set, appended to, cut, moved by an allocation or copied from.           *)
(***************************************************************************)
OnlyStraysReported ==
    \A m \in DOMAIN guards : 
        Corrupt(guards[m], Bytes(cells, m)) <=> strayed /\ m = array

(***************************************************************************)
(* What is copied is the text, or as much of it as fits with a terminator: *)
(* by stringCopy() with a size, by put(), and into a StackString.  The     *)
(* array of the client is never left without a terminator then.            *)
(***************************************************************************)
Fitting(t, room) == SubSeq(t, 1, Lesser(Len(t), room - 1))

ArrayText == TextOf([j \in 1 .. Bytes(cells, array) |-> cells[array][j - 1]])

CopiesFit == [][
    /\ \A t \in Phrases, size \in 1 .. MaxSize :
          stringCopy(t, size, TRUE) => ArrayText' = Fitting(t, size)
    /\ \A length \in 1 .. MaxSize :
          PutLabel(length) => ArrayText' = Fitting(LabelText, length)
    /\ \A t \in Phrases : SetLabel(t) => LabelText' = Fitting(t, N)]_stringVars

(***************************************************************************)
(* Queries see the texts: operator== tells two texts apart wherever they   *)
(* differ, and contains() finds what occurs.  Clients do not search a text *)
(* for what it ends with, unless SearchesEnds says so.                     *)
(***************************************************************************)
OccursAt(t, u, i) == \A j \in DOMAIN t : u[i + j] = t[j]

Occurs(t, u) == \E i \in 0 .. Len(u) - Len(t) : OccursAt(t, u, i)

IsEnd(t, u) == Len(t) <= Len(u) /\ OccursAt(t, u, Len(u) - Len(t))

QueriesAgree ==
    /\ \A s \in Buffers, t \in Phrases :
          End(contents[s]) > 0 => (Equals(s, t) <=> TextOf(contents[s]) = t)
    /\ \A t \in Phrases : Len(t) < N => (LabelEquals(t) <=> LabelText = t)
    /\ \A s, o \in Buffers : 
          LET a == contents[s]
              b == contents[o]
          IN  /\ End(a) > 0 /\ End(a) = Len(a) /\ End(b) > 0 /\ End(b) = Len(b)
              /\ IsEnd(TextOf(b), TextOf(a)) => SearchesEnds
              => (contains(a, b) <=> Occurs(TextOf(b), TextOf(a)))

(***************************************************************************)
(* The strings implement Texts: what they hold is what was assigned and    *)
(* appended, through every reallocation, chunk and borrowed literal.       *)
(***************************************************************************)
TextsPromise == INSTANCE Texts
                  WITH Names <- Buffers, Chars <- Values,
                       MaxLength <- MaxSize, texts <- contents
ImplementsTexts == TextsPromise!TextsSpec
=============================================================================
