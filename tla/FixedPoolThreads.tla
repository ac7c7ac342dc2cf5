-------------------------- MODULE FixedPoolThreads --------------------------
(***************************************************************************)
(* FixedPool shared by several threads, word by word (TFixedPool.hpp), in  *)
(* the MEMORY_CHECK build.  Each access to a header, to allocatedSpace or  *)
(* to the lock is a step, and the loop of allocate() looks up to three     *)
(* times at the header of a block, which may have changed in between.      *)
(* The lock is the library's SpinLock, whose test and store are two steps. *)
(* reallocate() does not take the lock when it shrinks a block in place.   *)
(*                                                                         *)
(* Client threads own blocks together: any of them may return or resize a  *)
(* block that no call is working on.                                       *)
(***************************************************************************)
EXTENDS PoolSizes

CONSTANTS Threads,
          PoolSize,
          Requests,     \* sizes the clients ask for
          Duties,       \* which operations each thread may use, in each program
          Data,         \* words that are no numbers: what a client stores,
          Pattern,      \* what deallocate() fills a block with,
          Unset         \* and memory never written

Operations == {"allocate", "deallocate", "reallocate"}

ASSUME ThreadsAssumption ==
    /\ W \in Nat \ {0} /\ SizeMod \in Nat \ {0} /\ PoolSize \in Nat
    /\ PoolSize % W = 0 /\ PoolSize >= 2 * W
    /\ Requests \subseteq Nat
    /\ Duties \subseteq [Threads -> SUBSET Operations]

VARIABLES does,           \* the program: thread |-> operations it uses
          mem,            \* the words of the pool
          allocatedSpace,
          held, guard,    \* the SpinLock
          call,           \* the call each thread is in, with its locals
          live            \* the clients' blocks: [start, end, fill]

Lock == INSTANCE SpinLock WITH Kinds <- {"SpinLock"}, kind <- "SpinLock"

vars == <<does, mem, allocatedSpace, held, guard, call, live>>
lockVars == <<held, guard>>

(***************************************************************************)
(* A client's block: its words are start .. end - 1, of which it has       *)
(* stored in those from start + W to fill - 1.                             *)
(***************************************************************************)
NoBlock == [start |-> PoolSize, end |-> PoolSize, fill |-> PoolSize]

\* The end of what is stored in a block of n bytes.
FillEnd(start, n) == start + RealAllocation(Larger(1, n))

(***************************************************************************)
(* pc    the next step of the call, "idle" between calls                   *)
(* i     where the walk of allocate() is, then the block it takes          *)
(* n     the size asked for                                                *)
(* size  the length allocate() looks for, then the length it grants        *)
(* tmp   allocatedSpace as the call has read it                            *)
(* old   the block deallocate() or reallocate() was given, or NoBlock      *)
(* got   allocate() found a block                                          *)
(* look  what the walk reads of the header it is at:                       *)
(*         "size"    whether the block is free                             *)
(*         "room"    of a free one, whether it is long enough              *)
(*         "fits"    how long it is, to take it                            *)
(*         "gap"     that it has a length, "skip" the length to step over  *)
(*         "taken"   of another one, that it has a length,                 *)
(*         "pass"    the length to step over                               *)
(***************************************************************************)
Idle == [pc |-> "idle", i |-> 0, n |-> 0, size |-> 0, tmp |-> 0,
         old |-> NoBlock, got |-> FALSE, look |-> "size"]

Looks == {"size", "room", "fits", "gap", "skip", "taken", "pass"}

At(t, pc) == call[t].pc = pc
Goto(t, c) == call' = [call EXCEPT ![t] = c]
Inside(t) == guard[t] = "owns"

\* The memory after a client has stored in its block.
Stored(block, m) ==
    [w \in DOMAIN m |->
        IF block.start + W <= w /\ w < block.fill THEN Data ELSE m[w]]

\* The pool, as the words it is made of.
Words == {k * W : k \in 0 .. (PoolSize \div W) - 1}

Init ==
    /\ does \in Duties
    /\ mem = [w \in Words |->
                CASE w = 0 -> 0 [] w = W -> PoolSize [] OTHER -> Unset]
    /\ allocatedSpace = 0
    /\ Lock!LockInit
    /\ call = [t \in Threads |-> Idle]
    /\ live = {}
-----------------------------------------------------------------------------
\* SpinLock::lock(), whichever operation waits for it.
Spin(t) == Lock!Acquire(t) /\ UNCHANGED <<mem, allocatedSpace, call, live>>
Grab(t) == Lock!Store(t) /\ UNCHANGED <<mem, allocatedSpace, call, live>>

\* allocate(n) up to the constructor of the guard; allocate(0) returns.
CallAllocate(t, n) ==
    /\ "allocate" \in does[t]
    /\ At(t, "idle") /\ n # 0
    /\ Goto(t, [Idle EXCEPT !.pc = "walk", !.n = n, !.size = RealAllocation(n)])
    /\ Lock!Enter(t)
    /\ UNCHANGED <<mem, allocatedSpace, live>>

(***************************************************************************)
(* The loop of allocate().  The words of a header are numbers; what the    *)
(* loop does with a word that is none is not modelled (WalkSeesHeaders).   *)
(***************************************************************************)
OnHeader(i) ==
    /\ i \in DOMAIN mem /\ mem[i] \in Nat
    /\ mem[i] = 0 => i + W \in DOMAIN mem /\ mem[i + W] \in Nat \ {0}

Walking(t) == At(t, "walk") /\ Inside(t)

\* The word of the header at call[t].i that the walk reads next.
Word(t) == IF call[t].look \in {"room", "fits", "gap", "skip"} THEN call[t].i + W
                                                              ELSE call[t].i

\* The walk reads a number, and goes on with another look, or with c.
Reads(t, look) ==
    /\ Walking(t) /\ call[t].i < PoolSize /\ call[t].look = look
    /\ Word(t) \in DOMAIN mem /\ mem[Word(t)] \in Nat

ReadsOnly(t, c) == Goto(t, c) /\ UNCHANGED <<mem, allocatedSpace, lockVars, live>>
Look(t, look) == ReadsOnly(t, [call[t] EXCEPT !.look = look])

\* if (block.size == 0)
WalkSize(t) ==
    /\ Reads(t, "size")
    /\ Look(t, IF mem[Word(t)] = 0 THEN "room" ELSE "taken")

\* Defect: a block of exactly the right length is stepped over.
WalkRoomExact(t) ==
    /\ Reads(t, "room")
    /\ Look(t, IF call[t].size < mem[Word(t)] THEN "fits" ELSE "gap")

\* if (size <= block.space)
WalkRoom(t) ==
    /\ Reads(t, "room")
    /\ Look(t, IF call[t].size <= mem[Word(t)] THEN "fits" ELSE "gap")

\* The block is free and long enough.  Its rest becomes a free block, or is
\* taken too if it cannot hold a header.
WalkFinds(t) ==
    LET i == call[t].i
        size == call[t].size
        space == mem[i + W]
    IN  /\ Reads(t, "fits")
        /\ \/ /\ space <= size + W
              /\ Goto(t, [call[t] EXCEPT !.pc = "mark", !.look = "size", !.size = space])
              /\ UNCHANGED mem
           \/ /\ size + W < space
              /\ Goto(t, [call[t] EXCEPT !.pc = "mark", !.look = "size"])
              /\ mem' = [mem EXCEPT ![i + size] = 0,
                                    ![i + size + W] = space - size]
        /\ UNCHANGED <<allocatedSpace, lockVars, live>>

\* "Block was overrun": allocate() gives up at a length of 0, which a block
\* in use has as well when it has been returned since the last look.
GiveUp(c) == [c EXCEPT !.pc = "leave", !.look = "size"]
WalkChecks(t) ==
    LET c == call[t] IN
    \/ /\ Reads(t, "gap")
       /\ ReadsOnly(t, IF mem[Word(t)] = 0 THEN GiveUp(c) ELSE [c EXCEPT !.look = "skip"])
    \/ /\ Reads(t, "taken")
       /\ ReadsOnly(t, IF mem[Word(t)] = 0 THEN GiveUp(c) ELSE [c EXCEPT !.look = "pass"])

\* i += block.space, i += block.size.  The reads race with other threads, so
\* a compiler may as well add the word that was compared.
StepsOver(t) ==
    \/ Reads(t, "skip")
    \/ Reads(t, "pass")
    \/ Reads(t, "size") /\ mem[Word(t)] # 0
    \/ Reads(t, "room") /\ mem[Word(t)] \in 1 .. call[t].size - 1

\* Defect: what is added is block.size, whether the block is free or not.
WalkOverStuck(t) ==
    /\ StepsOver(t)
    /\ ReadsOnly(t, [call[t] EXCEPT !.i = @ + mem[@], !.look = "size"])

WalkOver(t) ==
    /\ StepsOver(t)
    /\ ReadsOnly(t, [call[t] EXCEPT !.i = @ + mem[Word(t)], !.look = "size"])

WalkEnds(t) ==
    /\ Walking(t) /\ call[t].i >= PoolSize
    /\ Goto(t, [call[t] EXCEPT !.pc = "leave"])
    /\ UNCHANGED <<mem, allocatedSpace, lockVars, live>>

\* block.size = size, and the read of allocatedSpace += size.
Mark(t) ==
    /\ At(t, "mark")
    /\ mem' = [mem EXCEPT ![call[t].i] = call[t].size]
    /\ Goto(t, [call[t] EXCEPT !.pc = "credit", !.tmp = allocatedSpace])
    /\ UNCHANGED <<allocatedSpace, lockVars, live>>

Credit(t) ==
    /\ At(t, "credit")
    /\ allocatedSpace' = (call[t].tmp + call[t].size) % SizeMod
    /\ Goto(t, [call[t] EXCEPT !.pc = "leave", !.got = TRUE])
    /\ UNCHANGED <<mem, lockVars, live>>

\* The guard is destroyed.  A call of allocate() hands the block, if it found
\* one, to the client; reallocate() goes on with copy(), or returns nullptr
\* and leaves the client its old block.
NewBlock(t) == [start |-> call[t].i, end |-> call[t].i + call[t].size,
                fill |-> FillEnd(call[t].i, call[t].n)]

LeaveAllocate(t) ==
    /\ At(t, "leave")
    /\ Lock!Unlock(t)
    /\ \/ /\ call[t].got /\ call[t].old = NoBlock
          /\ mem' = Stored(NewBlock(t), mem)
          /\ live' = live \cup {NewBlock(t)}
          /\ Goto(t, Idle)
       \/ /\ call[t].got /\ call[t].old # NoBlock
          /\ Goto(t, [call[t] EXCEPT !.pc = "copy"])
          /\ UNCHANGED <<mem, live>>
       \/ /\ ~call[t].got
          /\ live' = live \cup ({call[t].old} \ {NoBlock})
          /\ Goto(t, Idle)
          /\ UNCHANGED mem
    /\ UNCHANGED allocatedSpace
-----------------------------------------------------------------------------
CallDeallocate(t, b) ==
    /\ "deallocate" \in does[t]
    /\ At(t, "idle")
    /\ live' = live \ {b}
    /\ Goto(t, [Idle EXCEPT !.pc = "pattern", !.old = b])
    /\ UNCHANGED <<mem, allocatedSpace, lockVars>>

\* Defect: the pattern goes one word past the block.
FillPatternPastEnd(t) ==
    LET o == call[t].old.start
        end == o + mem[o]
    IN  /\ At(t, "pattern")
        /\ mem' = [w \in DOMAIN mem |->
                     IF (o + 2 * W <= w /\ w < end) \/ w = end + W
                     THEN Pattern ELSE mem[w]]
        /\ Goto(t, [call[t] EXCEPT !.pc = "space"])
        /\ Lock!Enter(t)
        /\ UNCHANGED <<allocatedSpace, live>>

\* MEMORY_CHECK fills the block before the guard is built: all of it but the
\* first two words, and the last.
FillPattern(t) ==
    LET o == call[t].old.start
        end == o + mem[o]
    IN  /\ At(t, "pattern")
        /\ mem' = [w \in DOMAIN mem |->
                     IF (o + 2 * W <= w /\ w < end) \/ w = end - W
                     THEN Pattern ELSE mem[w]]
        /\ Goto(t, [call[t] EXCEPT !.pc = "space"])
        /\ Lock!Enter(t)
        /\ UNCHANGED <<allocatedSpace, live>>

\* block.space = block.size, and the read of allocatedSpace -= block.size.
Space(t) ==
    LET o == call[t].old.start IN
    /\ At(t, "space") /\ Inside(t)
    /\ mem' = [mem EXCEPT ![o + W] = mem[o]]
    /\ Goto(t, [call[t] EXCEPT !.pc = "debit", !.tmp = allocatedSpace])
    /\ UNCHANGED <<allocatedSpace, lockVars, live>>

Debit(t) ==
    /\ At(t, "debit")
    /\ allocatedSpace' = (call[t].tmp - mem[call[t].old.start]) % SizeMod
    /\ Goto(t, [call[t] EXCEPT !.pc = "free"])
    /\ UNCHANGED <<mem, lockVars, live>>

\* Defect: the block is not marked free.
FreeForgotten(t) ==
    /\ At(t, "free")
    /\ Goto(t, [call[t] EXCEPT !.pc = "quit"])
    /\ UNCHANGED <<mem, allocatedSpace, lockVars, live>>

Free(t) ==
    /\ At(t, "free")
    /\ mem' = [mem EXCEPT ![call[t].old.start] = 0]
    /\ Goto(t, [call[t] EXCEPT !.pc = "quit"])
    /\ UNCHANGED <<allocatedSpace, lockVars, live>>

\* The guard is destroyed; reallocate() returns the new block.
LeaveDeallocate(t) ==
    /\ At(t, "quit")
    /\ Lock!Unlock(t)
    /\ IF call[t].got
       THEN /\ mem' = Stored(NewBlock(t), mem)
            /\ live' = live \cup {NewBlock(t)}
       ELSE UNCHANGED <<mem, live>>
    /\ Goto(t, Idle)
    /\ UNCHANGED allocatedSpace
-----------------------------------------------------------------------------
\* The client's block b once it has been resized to n bytes and stored in.
Resized(b, len, n) ==
    [start |-> b.start, end |-> b.start + len, fill |-> FillEnd(b.start, n)]

Returns(t, b, c, m) ==
    /\ live' = (live \ {b}) \cup {c}
    /\ mem' = Stored(c, m)
    /\ Goto(t, Idle)
    /\ UNCHANGED <<allocatedSpace, lockVars>>

\* The header of b is read, and written, without the lock.
CallReallocate(t, b, n) ==
    LET oldSize == mem[b.start]
        newSize == ResizedLength(n)
    IN  /\ "reallocate" \in does[t]
        /\ At(t, "idle")
        /\ oldSize \in Nat
        /\ \/ /\ newSize <= oldSize /\ oldSize <= newSize + W
              /\ Returns(t, b, Resized(b, oldSize, n), mem)
           \/ /\ newSize + W < oldSize
              /\ mem' = [mem EXCEPT ![b.start] = newSize]
              /\ live' = live \ {b}
              /\ Goto(t, [Idle EXCEPT !.pc = "cut", !.n = n, !.tmp = oldSize,
                                      !.old = b])
              /\ UNCHANGED <<allocatedSpace, lockVars>>
           \/ /\ oldSize < newSize
              /\ live' = live \ {b}
              /\ Goto(t, [Idle EXCEPT !.pc = "walk", !.n = n, !.old = b,
                                      !.size = RealAllocation(n)])
              /\ Lock!Enter(t)
              /\ UNCHANGED <<mem, allocatedSpace>>

\* Defect: the rest gets no header.
CutRestForgotten(t) ==
    LET b == call[t].old IN
    /\ At(t, "cut")
    /\ Returns(t, b, Resized(b, ResizedLength(call[t].n), call[t].n), mem)

\* The header of the free block behind a block that was shrunk.
CutRest(t) ==
    LET b == call[t].old
        newSize == ResizedLength(call[t].n)
        rest == b.start + newSize
    IN  /\ At(t, "cut")
        /\ Returns(t, b, Resized(b, newSize, call[t].n),
                   [mem EXCEPT ![rest] = 0,
                               ![rest + W] = call[t].tmp - newSize])

\* copy(ptr, newPtr, bytes): the first argument is the destination.
Copy(t) ==
    LET o == call[t].old.start IN
    /\ At(t, "copy")
    /\ mem' = [w \in DOMAIN mem |->
                 IF o + W <= w /\ w < o + mem[o]
                 THEN mem[w - o + call[t].i] ELSE mem[w]]
    /\ Goto(t, [call[t] EXCEPT !.pc = "pattern"])
    /\ UNCHANGED <<allocatedSpace, lockVars, live>>
-----------------------------------------------------------------------------
Continue(t) ==
    \/ Spin(t) \/ Grab(t)
    \/ WalkSize(t) \/ WalkRoom(t) \/ WalkFinds(t) \/ WalkChecks(t) \/ WalkOver(t)
    \/ WalkEnds(t) \/ Mark(t) \/ Credit(t)
    \/ LeaveAllocate(t)
    \/ FillPattern(t) \/ Space(t) \/ Debit(t) \/ Free(t) \/ LeaveDeallocate(t)
    \/ CutRest(t) \/ Copy(t)

Call(t) ==
    \/ \E n \in Requests : CallAllocate(t, n)
    \/ \E b \in live : CallDeallocate(t, b)
    \/ \E b \in live, n \in Requests : CallReallocate(t, b, n)

Next == \E t \in Threads : (Call(t) \/ Continue(t)) /\ UNCHANGED does

\* A thread inside a call keeps running; clients need not make calls.
Spec == Init /\ [][Next]_vars /\ \A t \in Threads : WF_vars(Continue(t) /\ UNCHANGED does)
-----------------------------------------------------------------------------
\* The length a header gives its block.
Length(o) == IF mem[o] = 0 THEN mem[o + W] ELSE mem[o]

\* The blocks a walk visits from word i, if the words it reads are headers.
Visits[i \in 0 .. PoolSize] ==
    IF i >= PoolSize \/ ~OnHeader(i) THEN {}
    ELSE {i} \cup IF i + Length(i) > PoolSize THEN {} ELSE Visits[i + Length(i)]

Visited == Visits[0]

Quiet == \A t \in Threads : At(t, "idle")

(***************************************************************************)
(* What the pool asks of its users: sizes whose arithmetic does not wrap   *)
(* around, and one thread at most that allocates or resizes, whoever       *)
(* returns blocks.  (For two that allocate the spin lock is not enough: it *)
(* lets both in, and reallocate() shrinks a block without it.)             *)
(***************************************************************************)
Regular == \A n \in Requests : n + 3 * W < SizeMod

Allocates(duty) == "allocate" \in duty \/ "reallocate" \in duty

Orderly == \A d \in Duties, t, u \in Threads :
              Allocates(d[t]) /\ Allocates(d[u]) => t = u

TypeOK ==
    /\ mem \in [Words -> 0 .. PoolSize \cup {Data, Pattern, Unset}]
    /\ allocatedSpace \in 0 .. SizeMod - 1
    /\ Lock!LockTypeOK
    /\ \A b \in live : b.start <= b.fill /\ b.fill <= b.end /\ b.end <= PoolSize

(***************************************************************************)
(* The allocator never writes where a client has stored, whatever headers, *)
(* patterns and copies other calls are writing.  Nor does it leave the pool.*)
(***************************************************************************)
DataUntouched ==
    /\ TypeOK
    /\ \A b \in live, w \in DOMAIN mem :
          b.start + W <= w /\ w < b.fill => mem[w] = Data

(***************************************************************************)
(* The walk of allocate() never takes a word a client or nobody has        *)
(* written for a header, however often it looks: what was free when it     *)
(* looked first is still free, and what was not is at least a header.      *)
(***************************************************************************)
WalkSeesHeaders ==
    \A t \in Threads :
        Walking(t) /\ call[t].i < PoolSize =>
            /\ OnHeader(call[t].i)
            /\ call[t].look \in {"room", "fits", "gap", "skip"} => mem[call[t].i] = 0

(***************************************************************************)
(* Between calls, a walk from the start visits blocks that end where the   *)
(* pool ends, and those that are not free are those the clients have: no   *)
(* two blocks of the clients share a word, "Found free spot".              *)
(***************************************************************************)
QuietPool ==
    Quiet =>
      /\ \A o \in Visited : o + Length(o) \in Visited \cup {PoolSize}
      /\ {<<o, o + Length(o)>> : o \in {p \in Visited : mem[p] # 0}}
           = {<<b.start, b.end>> : b \in live}
      /\ \A b, c \in live : b.start = c.start => b = c

\* Thread t is the only one that uses the pool.
Alone(t) == \A u \in Threads \ {t} : does[u] = {}

(***************************************************************************)
(* allocate() takes the lowest block that is long enough: when it has made *)
(* its choice no block below, free now, would do.  (While another thread   *)
(* returns blocks one may become free behind the walk.)                    *)
(***************************************************************************)
FirstFitFound ==
    \A t \in Threads :
        Alone(t) /\ At(t, "mark") =>
            \A o \in Visited :
                o < call[t].i /\ mem[o] = 0 =>
                    mem[o + W] < RealAllocation(call[t].n)

(***************************************************************************)
(* Every call of a thread that is alone returns: the walk ends, the lock   *)
(* is got.  (Of two threads one may keep the lock from the other.)         *)
(***************************************************************************)
CallsReturn ==
    \A t \in Threads : Alone(t) /\ ~At(t, "idle") ~> At(t, "idle")
=============================================================================
