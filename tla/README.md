# tklb in TLA+

tklb is a header-only C++14 library: a fixed-size memory pool, containers that
work without exceptions or the standard library, locks, an event bus, and audio
buffers, resamplers, convolvers and codecs on top of them. This directory models
the stateful parts of it in TLA+, checks them with TLC on small instances, and
proves the most important results with TLAPS for every value of the constants.

Paths below are relative to `src/src/` of the repository (`memory/`, `types/`,
`util/`).

## 1. Inventory

| Component | State | Operations | What makes it hard | What makes it correct |
|---|---|---|---|---|
| **Locks and guards** `TSpinLock`, `TMutex`, `TMutexDummy`, `TLockGuard` | the flag `mSpinLock`; `mGotLock` of a guard | `lock`, `try_lock`, `unlock`; constructors and destructors of `LockGuard`, `LockGuardTry` | `SpinLock` tests and sets its flag in two accesses; a guard must unlock once, and only if it locked | whoever owns the lock will release it; a failed try releases nothing; a `Mutex` excludes; waiting threads are not left waiting for nobody |
| **FixedPool** `TFixedPool` | the chunk of memory with block headers in it, `allocatedSpace`, a mutex | `allocate`, `deallocate`, `reallocate`, `allocated` | first fit over headers that live between the data of the clients; size arithmetic that wraps; `reallocate` partly without the lock; the `MEMORY_CHECK` build writes patterns before it locks | blocks tile the pool, never overlap, have room for what was asked; the books add up; the walk only ever meets headers |
| **HandleBuffer** `THandleBuffer` | slots with a packed index and generation, `mStart`, `mFree` | `resize`, `create`, `remove`, `at`, `has`, `iterate` | generations run out; the free list shares a word with the generation | a removed handle never gives access again; one that gives access goes on to until it is removed |
| **HeapBuffer** `THeapBuffer` | `mBuf`, `mSize`, `mRealSize` | construct, move, `set`, `inject`, `resize`, `reserve`, `push`, `pop`, `remove`, destroy | owned and borrowed memory told apart by `mRealSize`; any allocation may fail half way through | one owner for each allocation, nothing leaks, borrowed memory is never freed, each cell is constructed and destroyed once |
| **AudioRingBuffer** `types/audio/TAudioRingBuffer` | an `AudioBuffer`, `mHead` (a count), `mTail` (an index) | `push`, `pushOver`, `peek`, `pop`, `reset`, inherited `resize` | unsigned index arithmetic in four cases of head and tail; split writes and reads | it is a FIFO |
| **EventBus** `TEventBus`, `TDelegate` | one list of subscriptions for each event, a mutex | constructor and destructor of a subscription, `fireEvent` | callbacks that use the bus that calls them; a look at the list before the lock | no destroyed subscription in a list; nobody called twice or missed; a dispatch ends, if callbacks stop subscribing |
| **AudioBuffer** `types/audio/TAudioBuffer` | one `HeapBuffer` with all channels, `mValidSize`, `mChannels` | `resize`, `clone`, `set`, `setFromInterleaved`, `get`, `add`, `multiply`, `put`, `putInterleaved`, `inject`, `setValidSize`, moves | several sizes that have to agree, of which one is derived by a division; padding between channels; an allocation may fail | valid size within size; no store reaches another channel; what is put out is what is valid |
| **String** `TString`, `stringCopy` in `TMemory` | a `HeapBuffer` of characters with its terminator; a `StackString`'s array | `set`, `inject`, `append`, `prepend`, `resize`, `reserve`, `[]`, `contains`, `==`; `stringCopy`, `put` | the terminator, in every size; texts that move while they are added to, and borrowed literals | the text is that of the operations on sequences; nothing is stored outside of an allocation; copies fit and end |
| **Memory check** `TMemoryCheck`, and the build of `TMemory`, `TAllocator` with it | magic blocks around each allocation | `tklb_malloc`, `tklb_free`, `check` | the last block is looked for where the first one says it is | what is reported is what somebody wrote outside of an allocation |
| **Resamplers** `TResamplerHold`, `TResamplerLinear`, `TResamplerSpeex`, `TIResampler` | rates, last frames, the state of the Speex library, a conversion buffer | `init`, `process`, `estimateOut`, `estimateNeed`, `calculateBufferSize` | counts rounded one way in the estimates and another in the loops; history across blocks; chunks that are padded | no frame is left over, dropped or taken at another time than the latency says; estimates are near |
| **Convolvers** `TConvolverBrute`, `TConvolverFFT`, `TConvolverRef` | the impulse response | `load`, `process` | ranges cut by unsigned arithmetic at both ends; a response trimmed, and copied over the one before | a convolution with what was loaded last |
| **Codecs** `TWave`, `TVorbis` | a decoder of a vendored library | `load`, `save` | a loop over a decoder that may deliver less than promised | decoding ends |
| **Logger** `TLogger` | a static buffer and a plain `bool` as its lock | `tklb_print_path` | threads | one message in the buffer at a time |
| **FFT, oversampler** | tables and filters | `forward`, `back`, `process` | floating point | out of reach of a model checker |
| **Utilities** `util/` | none | stateless | | |

How they interact. `FixedPool` and `EventBus` take their mutex by way of a
`LockGuard` (`using Lock = LockGuard<Mutex>`), so the protocol of the guards is
part of theirs: `FixedPoolThreads` composes `SpinLock`, and `EventBus` has the
two kinds of mutex it can be built with. `EventBus` keeps its lists in
`HeapBuffer`s and relies on `remove` filling the gap with the last element.
`AudioBuffer` holds its channels in one `HeapBuffer`, `AudioRingBuffer` inherits
from `AudioBuffer` and reads and writes by its `set`. `HandleBuffer` and
`String` build on `HeapBuffer` too. `HeapBuffer` gets memory from an allocator,
which may be a `FixedPool`, or `tklb_malloc` with the magic blocks of
`MemoryCheck`; there is no other tie between them, the allocator of the model is
any that may fail. A convolver's input and a resampler's output are
`AudioBuffer`s, tied by their `validSize`. A subscription calls the client by
a `Delegate`, and the client may call the bus from there: the only callbacks.
The rest are plain calls; nothing is persisted and there are no messages.

`PROJECT.json` lists every component with what is modelled of it, the hazards
with their lines, and the source lines of every definition.

## 2. Modules

| Module | What it is |
|---|---|
| `SpinLock` | the three mutexes and both guards, `Threads` and the class of the mutex as parameters |
| `PoolSizes` | the size arithmetic of `FixedPool`, wrapping around at `SizeMod` |
| `FixedPool` | the pool with one client at a time: one action for each outcome of an operation |
| `Heap` | the abstract specification of a memory allocator: regions that never overlap |
| `FixedPoolThreads` | the same code word by word and step by step, with the lock of `SpinLock`, for several threads |
| `HandleBuffer` | slots, the free list through them, and the handles the client has and has had |
| `HeapBuffer` | buffers, allocations and the cells in them |
| `Vectors` | its abstract specification: sequences, one for each buffer |
| `AudioRingBuffer` | the ring |
| `BoundedFifo` | its abstract specification: a queue with a capacity |
| `AudioBuffer` | the channels of a signal in one flat memory |
| `Planes` | its abstract specification: an array for each channel |
| `EventBus` | lists, a mutex, and for each thread the stack of calls under way |
| `MemoryCheck` | magic blocks and what `check` finds of them |
| `Strings` | strings, over the buffers of `HeapBuffer`, whose allocations have the blocks of `MemoryCheck`; an array of the client and a `StackString` |
| `Texts` | the abstract specification of strings: sequences, one for each string |
| `Resamplers` | a stream that is resampled in blocks, by each of the resamplers |
| `Convolver` | `ConvolverBrute`, fed by `Resamplers` |
| `MC...` | the small instances TLC checks |
| `...Proofs` | the theorems about a module and their proofs; those about `Strings` are in `HeapBufferProofs`, those about `FixedPool`, `SpinLock` and `HandleBuffer` in `StorageProofs`, those about `Convolver` in `ResamplersProofs` |
| `SumTheorems` | least members and sums over finite sets, for the proofs |

### How state and actions correspond to the code

**SpinLock.** `guard[t]` is where thread `t` is in the life of its guard, `held`
the flag. `lock()` of a `SpinLock` is `Acquire` (the read that ends the loop)
and `Store` (the assignment after it). A `Mutex` takes the flag with the read; a
`MutexDummy` has nothing to take. Reads of the loop that find the flag set
change nothing and are stuttering.

**FixedPool.** `blocks` maps the start of each block to its length, which the
code keeps in the first word of an allocated block and the second of a free one;
`asked` has the allocated ones, with the size last asked for. `intact` records
which of them still hold what their client put there, and `leaked` how much
`reallocate` has cut off without telling `allocatedSpace`; both are history,
which no action reads other than for the bound. Of `leaked` the properties ask
only whether it is 0 (`Shrunk`). `allocate` is `Allocate` or
`AllocateFails`, `reallocate` one of `ReallocateKeeps`, `Shrinks`, `Moves` and
`Fails` as its `if`s go.

**FixedPoolThreads.** `mem` is the chunk word by word, in the `MEMORY_CHECK`
build: headers, data of the clients, the pattern `deallocate` fills blocks with,
or words never written. `call[t]` has the locals of the call thread `t` is in.
Every access to a header, to `allocatedSpace` or to the lock is a step; an update
of `allocatedSpace` is a read and a write. The loop of `allocate` looks at a header
several times, and `look` says what for: whether the block is free, whether it is
long enough, how long, and again how far the next one is, of which 0 makes it give
up ("Block was overrun"). Others may write between the looks. What the loop does with
a word that is no header is not modelled: `WalkSeesHeaders` says that it does not happen.
`does` fixes which operations each thread uses.

**HandleBuffer.** `next` maps each slot to its packed word, as a record of the two
bit fields. The elements themselves are left out. `owned` and `retired` are what
the client knows: the handles it got and those it has removed since the last
`resize`. Nothing keeps `mStart` within the slots after a `resize`, and `at` lets
the index `size` through: what is read past the end is any of the words in `Beyond`.
`ResizeFails` is the one that gets no memory, which nobody notices: it links as
many slots as were asked for, over the end.

**HeapBuffer.** `cells` maps each live allocation, and each memory of the client,
to its cells: an element, `Raw`, or `Left` for bytes of an element that is no
longer, or not, counted. Alignment, and bytes where elements do, are abstracted.
An operation that allocates comes in two: it gets memory or it fails.

**AudioRingBuffer.** A frame stands for the samples of all channels at a position.
`got`, `room` and `count` are what the last call delivered, to where and what it
returned. `GivenUp` is how many frames `pushOver` drops, `Displaced` how many it has to.

**AudioBuffer.** `mBuffer` is the memory, `size` and `get` are derived from its
length as in the code. Every store is to an address, by `Stored`, so that one
that is too long would go on in the next channel. `access` says whose memory it
is. `asked` is the length `add` or `multiply` was given, so that the specification can
say what should have come of it. Inputs are a few arrays, two-dimensional arrays and
other buffers; integer
samples go through `FromInt` and `ToInt`. `put` and its relatives change nothing
and are operators. A buffer that is moved from keeps its sizes and, since `disown`
clears no pointer, its memory, as if that were lent: `MoveAway`, and `MoveFrom` on
the other side. The loops over vectors of samples are taken to do what the
others do, which is so where offsets are multiples of a vector.

**EventBus.** `calls[t]` is the stack of calls of a thread, the innermost last: a
callback that uses the bus pushes onto it. A dispatch records whom it has called
and who was there when it began.

**MemoryCheck.** A block is its three fields in memory order; `check` is the code's
two tests and its search for the last block. A flag is a byte of which all but 0
are true.

**Strings.** The variables of `HeapBuffer` are the strings' buffers, and its
operations are theirs: `SetString` is `Set` with the allocator of the build,
which constructs magic blocks around what is new (`guards`). `append` and
`prepend` resize and then store through `operator[]`; `Stored` and `Spilled` are
such a store where it meets the memory, and where it meets the block behind it.
A character is a number, so that it may be what it overwrites. `mData` is a
`StackString`, `array` memory of the client, `strayed` whether the client has
changed one of its blocks. Strings that `append` and `prepend` make of a C string
and destroy are left out: their text is an input.

**Resamplers.** The stream is a ramp after silence, different on each channel, so that
a frame tells when it was and on which channel. `fed` and `block` are where the stream
is, `resampled` what the last block became, `left` how many of its frames nothing came
of. The loops over outputs are `Outputs` and a function of the output's number; the
loop over chunks of the double build is `Converted`, with chunks as long as
`mConvertIn` is (`ConvertIn`, padded to the alignment) and a buffer for what comes out
that is sized for `maxBlock` (`ConvertOut`). The Speex library is modelled from
`src/external/speex_resampler/resample.c`: `Engine` gives one output for each step of
the ratio, as far as there is room, taken from the input that the peak of its filter is
at (`FilterLength`, `Delay`), so that outputs are late by what `getLatency` says. The
filter itself is taken to be one that leaves a ramp as it is. `mState` is what the library
keeps between blocks.

**Convolver.** A response is a buffer: its samples, as long as it is padded, and how many
are valid. `load` is `mIr.resize`, which does nothing where `mIr` has that size,
followed by a `set` of the valid samples; `mIr` is what that leaves, padded. `response`
is what was valid of the one loaded last, the specification's side. `Convolved` is the sum
with the bounds of the code. The input is what the resampler left in its output.

The operators marked *Defect* just before the definition they vary are the bugs
one could have written there. No action uses them: each is there to show, in
place of its definition, that the properties notice.

## 3. Runs

All of them are complete searches; none takes more than about two and a half minutes
with two workers.

| Run | Instance | What it shows |
|---|---|---|
| `locks` | 3 threads, each kind of mutex | the flag has an owner who will clear it (`HeldHasOwner`), only an owner clears it (`OnlyOwnerReleases`), a `Mutex` excludes (`StdMutexExcludes`), a waiting thread implies that some thread gets in (`SomeoneGetsIn`) |
| `fixed_pool` | 9 words of 2 bytes, requests of 0, 1, 3, 4, 7 bytes | `BlocksTile`, `HeadersFit`, `RequestsHonoured`; `allocated()` is what is allocated until a block is shrunk in place, and never less (`Accounting`); fragmentation is for ever (`RefusalIsFinal`); the pool is a `Heap`, which has alignment in it (`ImplementsHeap`) |
| `pool_threads` | 8 words; one thread that does everything, or one that allocates what another returns | `DataUntouched`, `WalkSeesHeaders`, `QuietPool`, `FirstFitFound`, and every call of a thread that is alone returns (`CallsReturn`) |
| `handles` | 3 slots at first, resized to 2, 3, 4, with memory and without; 4 generations; 2 words past the end | a removed handle gives no access (`StaleStaysDead`), and one that gives access does so until it is removed itself (`AccessLasts`) |
| `ring` | 3 frames, resized to 3 or 4; every input of up to 3 frames of 2 values, one of 5; pops and peeks of 0 to 5 | the ring is a FIFO which `pushOver` takes no more from than it must (`ImplementsFifo`), for careful clients (section 5) |
| `heap_buffer` | 2 buffers, 2 allocations, one memory of the client, chunks of 2, up to 3 elements | `OneOwner`, `NoLeak`, `SizeFits`, `ElementsCounted`, and the buffers are `Vectors` (`ImplementsVectors`) |
| `audio_buffer` | 2 channels, 4 samples of 3 values, padded to 2 or borrowed; lengths 0 to 3, offsets 0 and 1, two arrays, a 2D one, two other buffers | the buffer is `Planes`, whose calls do as much as they are told to (`ImplementsPlanes`); `put` to an array, a 2D one and interleaved delivers what is valid, and what was interleaved comes back (`PutsDeliver`) |
| `event_bus` | 3 subscriptions to one event, calls 3 deep; the default bus with callbacks that do anything, and buses with a `Mutex` and 2 threads | `ListsAreLive`, `HeardAtMostOnce`, `NobodyMissed`, `DispatchAlone`; a dispatch ends if subscribing does (`DispatchEnds`); and a bus whose callback waits for its own thread is dead for all (`BusDies`) |
| `strings` | 2 strings, 3 allocations in chunks of 2, texts of up to 2 characters, a literal, an array of 2 bytes, a `StackString<2>` | the magic blocks report the client's strays and nothing a string does (`OnlyStraysReported`); `CopiesFit`; `QueriesAgree` but for matches at the end; the strings are `Texts` (`ImplementsTexts`), prepending only to those without characters |
| `convolver` | 2 channels, 8 pairs of rates, streams of 20 frames in blocks of 1 to 3, each resampler; 6 responses, loaded one after the other, 3 output channels | a block fits the buffer that was asked for (`NothingLeft`), outputs are of their time, behind the latency that is reported (`InStep`), or lag as Linear does (`LinearLags`), estimates are near (`EstimatesHold`), and the output is the convolution with what was loaded last, but for its silent end (`ConvolvesWhole`) |

Type invariants are a conjunct of one of the properties of their run where they
say more than types (`SizeFits`, `PutsDeliver`, `ListsAreLive`, `DataUntouched`), or
are proved (section 4).

Two runs show where the code does not do what it says:

| Run | What it finds |
|---|---|
| `fixed_pool_data` | `DataSurvives`: `reallocate` that moves copies from the new block to the old one |
| `handles_fresh` | `CreateIsFresh`: `remove` links the freed slot to itself, so that two calls of `create` return the same handle |

### Bounds, and why they are enough

- *Locks*: three threads are one that owns, one that is between test and store,
  and one that waits or has missed. The theorems have any number.
- *Pool*: nine words are up to four blocks. The requests need two to five words,
  multiples of the word and not, zero included. A block can be exactly long
  enough, a word longer (which is given away with it), two words longer (the
  shortest rest that is a block) or more. `MaxLeak` only bounds the number of
  shrinks in a row. `SizeMod` is far above the sizes of this run (`Regular`).
- *Pool, threads*: eight words are two or three blocks, which has the walk step
  over used blocks and free ones that are too short, and find exact ones.
- *Handles*: four generations wrap around within few removals; sizes below, at and
  above the first have `mStart` within, at and past the end after a resize. A word
  past the end names a slot or none, and is of a generation that may be in use or of
  the one that is not.
- *Ring*: three frames have every case of head and tail, and inputs of up to five
  the full and overfull ones. Growing keeps the indices with new memory.
- *Buffers*: chunks of two with three elements give one and two chunks, a chunk
  that is not full and growth over its end; two allocations run out in the middle
  of an operation. A third is never needed at once by a buffer that moves.
- *Audio buffer*: four samples are two channels of one alignment each, or one of two;
  with channels padded to two samples a length can be padded or not, and borrowed memory has odd lengths. Two channels are one to spill into and
  one to spill from, interleaved arrays have up to three. Samples of three values
  tell sums from products, and scaled ones from those that are not.
- *Bus*: three subscriptions are the one that calls, one before it and one after
  it, or the one that fills the gap. `MaxDepth` 3 is a callback, a call it makes,
  and one more from within that.
- *Strings*: with chunks of two, texts of no, one and two characters have the
  terminator in the middle and at the end of a chunk, and in a new one. Values are
  characters and sizes at once: one of them is the size of the array. `Beside`
  leaves one string with memory while the client has its array, since nothing
  ties them but the allocator; two strings have memory at once without it. After
  the client has strayed it only frees (`Untouched`). `FillsChunks` leaves out the
  prepend that fills all chunks, `PrependsToText` those to a text that has characters,
  and `SearchesEnds` searches for what a text ends with (section 5).
- *Resampling*: rates that are equal, that go into each other up and down, that do
  not, and that are further apart than the 10 frames of padding. Up to three frames
  are blocks of each length after each other, with a conversion
  buffer of one, two or all of them, padded to two, so that a last chunk is shorter.
  The filter of 8 frames, the shortest Speex has, is one of 16 or 32 where the rate goes
  down, which puts outputs up to 16 frames behind: streams of 20 frames are heard from
  at every pair of rates.
- *Convolution*: responses longer and shorter than the block, of one channel and
  two, silent at an end, everywhere, and in one channel where the other is not; the
  silent samples are zeros and, as `Silence` is 1, others. Some are valid as far as
  they are padded and others not, and one is copied over another where that stands.

### Fairness

Safety needs none. The liveness properties assume:

- *locks*: weak fairness of a thread inside `lock()`, `try_lock()` or the guarded
  scope (the operating system schedules it; guarded scopes are short blocks).
  It is not assumed that a thread which waits reads the flag while it is free:
  `lock()` is unfair, and `SomeoneGetsIn` says *some* thread.
- *pool*: weak fairness of a thread inside a call. `CallsReturn` is about a thread
  that is alone: of two, one may keep the lock from the other for ever.
- *bus*: weak fairness of the bus code a thread is in, and strong fairness of the
  return of callbacks at each depth: a callback may call the bus, many times, but
  returns after a while. Weak fairness would not do, since a callback that calls
  the bus again disables its own return each time.

`event_bus` does not check for deadlock, since a bus with a `Mutex` whose
callbacks use it really stops: `BusDies` says so.

## 4. Theorems

| Theorem | Assumes | For every |
|---|---|---|
| `FlagHasOwner`, `MutexExcludes`, `OwnersRelease` (`StorageProofs`) | nothing | set of threads |
| `PoolTypeCorrect`, `PoolNeverOverlaps`, `PoolHeadersFit`, `PoolHonoursRequests`, `PoolAccounting`, `PoolRefusalIsFinal`, `PoolImplementsHeap` (`StorageProofs`) | `Regular` | word, pool, request sizes |
| `ThreadsInvariant`, `DataIsUntouched`, `WalkReadsHeaders`, `PoolIsWhole`, `FirstFitIsFound` (`FixedPoolThreadsProofs`) | `Regular`, `Orderly` | set of threads, word, pool, request sizes, programs |
| `HandleTypeCorrect`, `StaleHandlesStayDead`, `HandleAccessLasts` (`StorageProofs`) | nothing | number of slots, generations, sizes of `resize`, words past the end |
| `RingTypeCorrect`, `RingIsFifo` (`AudioRingBufferProofs`) | `Careful` | ring size, frames, inputs, requests, longer sizes of `resize` |
| `HeapInvariant`, `HeapOneOwner`, `HeapNoLeak`, `HeapSizeFits`, `HeapElementsCounted`, `HeapImplementsVectors` (`HeapBufferProofs`) | `Careful`, `Roomy` | buffers, allocations, memories of the client, values, sizes of elements and chunks |
| `StringsInvariant`, `StringsOnlyStraysReported`, `StringsQueriesAgree`, `StringsCopiesFit`, `StringsImplementTexts` (`HeapBufferProofs`) | `Roomy`, no `ReservesBorrowed`, no `FillsChunks`; `StringsQueriesAgree` no `SearchesEnds`, `StringsImplementTexts` no `PrependsToText` | strings, texts, literals, characters, arrays, sizes of chunks and of the `StackString` |
| `AudioTypeInvariant`, `AudioPutsDeliver`, `AudioImplementsPlanes` (`AudioBufferProofs`) | the first nothing, the second no `ResizesFail` and no `CountsNarrow`, the third `Careful`: no `ResizesFail` and no `CutsMixes` | alignment, channels, sizes, lengths, offsets, inputs, samples |
| `BusInvariant`, `BusListsAreLive`, `BusHeardAtMostOnce`, `BusNobodyMissed`, `BusDispatchAlone`, `BusDiesOfItself` (`EventBusProofs`) | nothing | threads, events, finite set of subscriptions, depth of calls, each kind of bus |
| `ResamplersInvariant`, `BlocksUsedUp`, `StreamsInStep`, `LinearIsLate`, `EstimatesAreNear` (`ResamplersProofs`) | no `PadsChunks`; `StreamsInStep` no `Interpolates` | pairs of rates, block lengths, alignments, lengths of the filter, channels |
| `ConvolverInvariant`, `ConvolverConvolves` (`ResamplersProofs`) | no `PadsChunks`, no `LeavesOld` | the same; responses, what counts as silent, output channels and sizes |

Besides what the last two columns say, the named assumptions of the modules about
the types of their constants hold (`...Assumption`); TLC evaluates them in the runs.

**Locks.** `LockInv` adds `OwnersHold` to the statements: the flag of a `Mutex` is set
while anybody owns it, and nobody has seen it free without taking it. Mutual
exclusion alone does not keep itself: a second thread could take a flag that is
clear though the lock is owned. For a `SpinLock` both fail, and so does mutual
exclusion: two threads may read the flag before either sets it.

**Pool.** `Regular` says that the pool is a whole number of words and that requests
stay three words below the largest `Size`. The code checks neither. Without the
first a free block can be left that is too short for its two words; without the
second a request wraps around to a tiny one. The invariant `PoolInv` is the
conjunction of the type invariant with `BlocksTile`, `HeadersFit`, `BlocksAligned`
and `RequestsHonoured`; none is inductive alone, since a cut keeps blocks tiled
only if lengths are whole words of at least two. Everything about the blocks goes
through `Shape`, a predicate of any assignment of lengths, and the lemma that a
proper `Cut` keeps it. `RefusalIsFinal` follows from cuts never making a block
longer. The refinement maps each operation to a step of `Heap` or a stutter.
`Accounting` is about a sum over blocks, which the library folds with a recursive
function of sets. In `SumTheorems`, `Sums` says that a function is that one, `SumOf` is
its value, and that it exists, and takes the elements of a set in any order
(`SumTakesAny`), is proved by induction on the size of the set; what a cut, a removal and a change of
one block do to the sum then follows. What is proved to be inductive is that
`allocatedSpace` is the sum and `leaked` (`Books`): equal for clients that have not
shrunk a block in place, and never less for any.

**Threads.** `mem` has only headers, and while a call is under way not even those
add up: `WalkFinds` writes the header of the rest before `Mark` shortens the block,
`reallocate` the other way around, and a block that is being freed has its pattern
before it has its length in the second word. So the invariant says that there *are*
an assignment `b` of lengths, which has the `Shape` of a tiled pool, and one, `own`,
of owners: nobody, a client's block, or the call of a thread that was given the
block or took it. `BlockOK` says, owner by owner and step by step of the call, what
stands in the words of a block, and `CallOK` which blocks a call has and what its
walk has passed. A step works on one block, which it may cut and whose owner it may
change; `BlockStep` says once what that leaves of all the others, and there is a
lemma for each action on top of it. The walk's looks are steps of their own: `CallOK`
says that a block once found free stays free and as long, since only the thread that
walks takes any, while one that was in use may have been freed, which the next look may
or may not see. That `Visited`, which is defined by recursion,
is all the blocks goes by the last block of which it is not so, after showing that a
function as its definition asks for exists.

`Orderly` has one thread at most allocate or resize, and any number return
blocks. The proof uses no mutual exclusion, which the lock, a `SpinLock`, does not
give: the writes of `deallocate` stay within the block it was given, and the only
thing two calls both write is `allocatedSpace`, which may come out wrong (section 5)
and which nothing else depends on. `reallocate` may shrink a block without the lock
since the one who would walk over it is itself. The run has the two programs at
the ends: one thread that does everything, and one that allocates for another.

**Handles.** `HandleInv` has two conjuncts besides types: the client's handles carry the
generation of their slot (`OwnedCurrent`), and retired ones an *older* one
(`RetiredOlder`), as far as there is such a slot. The second is what
makes `StaleStaysDead` true, though generations wrap: a slot whose generation is
the last one resolves for nobody, so it can never be removed from again and its
generation never wraps. The first is what makes `AccessLasts` true: another handle that
gives access to the same slot, as `create` may return one, is the same handle. A read
past the end makes handles to no slot, of which nothing follows for those that are.
Neither says that a handle from `create` gives access: that of a slot in its last
generation does not, though the comments of `create` and `at` promise it, and
`CreateIsFresh` shows two calls that return the same one.

**Ring.** `Careful` says that pops start at the front, offsets lie within the
contents, destinations are long enough, `pushOver` is called where it drops no more than
it must, and the buffer is only made longer, and gets the memory for it. Under it the
unsigned arithmetic never wraps (`WrapFits`), and with `Place`, the position of
the k-th frame, one lemma for each of `Store` and `Read` says what the two parts
of a split access amount to. The refinement is then about `SubSeq` and `\o`. `resize` gets new memory and
leaves `mHead` and `mTail` alone: the ring counts the frames it counted, but they are
others, unless the length is the one it has.

**Buffers.** `Careful` has the four switches of section 5 off; each of them makes
one of the four invariants fail. `Roomy` says that no length in bytes reaches the
limit of `Size`: beyond it `mSize * sizeof(T)` wraps around and a buffer is granted
less than it counts. `HeapInv` says of each buffer (`BufferOK`) that it owns exactly
`mRealSize` cells of which it counts the first `mSize`, or borrows and counts no
more than it was lent, and that no two own the same memory (`Separate`). `NoLeak`
is not inductive without `Separate`, and neither is `ElementsCounted`, since a
destructor of one buffer would clear cells that another one counts. One lemma,
about `Moved`, says what a move to new memory leaves (`Settles`), and the operations that
allocate go through it. `cells` has exactly what is lent and what is owned. In the
refinement every step is one of `Vectors` or a stutter.

**Strings.** `StringsInv` is about four parts of the state at once. A string owns
exactly `mRealSize` bytes, alone, or borrows no more of a literal than there is
(`StringOK`, `Apart`); what it counts are characters, and literals are as they were
(`LiteralsKept`), without which a borrowed text could change under its string. All that
is allocated is owned by a string or the array (`Allocated`). And the blocks of every
allocation but the array are those that were constructed, while those of the array fail
their check exactly when the client has strayed (`GuardsOK`): of `OnlyStraysReported`
alone nothing would follow for an allocation that a string resizes in place. An
operation of a string is an allocation, a move and some stores. `Settled` says what
memory has to be like after them, and `StringSettles` that the invariant holds
then and one text has changed; `Regrown` says what `resize`, with which `append` and
`prepend` begin, leaves. The stores are then shown to stay below `mRealSize`. For
`append` that is so since the terminator is stored over. For `prepend`, which stores at
`mData[mData.size()]`, it is so only where the rounded length is above the length
(`Chunks`), which is what no `FillsChunks` says; with it the theorem is false
(section 5). That prepending is to put one text before the other is proved for clients
that prepend to texts without characters: of any other the code loses the first, so that
the switch `PrependsToText` makes the refinement fail. The texts themselves go by the first terminator (`End`), of which
`TextIs` says how it is recognised.

**Audio buffer.** `AudioTypeOK` is inductive as it stands, and what it says of the sizes
is what everything else rests on: the memory is the product of channels and samples
of each, so that every place of it is sample `i` of channel `c` for one `c` and one
`i` (`AddressOf`, `AddressIsOne`). `Stored` does not know of channels: it takes, for
each place, the last channel whose range covers it. `Within` says that a range does
not pass the end of its channel, and under it there is one such channel at most
(`IntoIsOne`); so a store looks, channel by channel, as if each had an array of
its own (`StoredShows`), which `Planes` says they have. Each call that stores then has
to show two things: that what it stores are samples and stays `Within`, which is
where `Room` and the valid sizes come in, and what that is of its input (`Covers`,
and `Mixes` for those that combine). Calls that get new memory go through `Typed`. `Mix` of
`Planes` takes no more samples than it was asked for, which the code ignores, so that
`Careful` has to say that clients ask for no less than there is. The
refinement is then one action of `Planes` for each call, and `resize` and a move away,
where nothing has to be done, a stutter. `AudioPutsDeliver` needs no more than the
type and that what is valid is there: places of an interleaved array are numbered like those of the memory, with
frames for channels (`PlacesAre`), and integer samples come back as they were since
there are no fewer of them than integers (`RoundTrip`).

Two of the assumptions on the constants serve these proofs: other buffers have no more
channels than the model allows for, a bound, and one without channels has no
samples, which is what `size()` returns (`TAudioBuffer.hpp:533`).

**Bus.** `BusInv` ties the stacks of calls to the lists and the lock. A call below
the top of a stack waits for a callback (`Stacked`); a subscription is built or
destroyed by one call (`Distinct`); lists hold who is alive, once (`ListsOK`); and
each dispatch (`CallOK`) has heard nobody behind its index, and everybody up to it
unless somebody left. The first half keeps `HeardAtMostOnce`: `remove` fills a gap
with the *last* element, which a dispatch before the gap has not met, and a
dispatch behind it has. The second half keeps `NobodyMissed`, and is lost for good
when somebody leaves (`disturbed`). `Locked` says that whoever is past a `Mutex` holds it, in
its outermost call, and `Alone` that where callbacks leave the bus alone no call is
nested. `BusDiesOfItself` is about the future: from a state in which a
thread waits for itself, no step of any thread gets past the lock.

**Resamplers.** `StreamInv` adds to the four claims what the next block starts
from: the next output of Speex is less than a step away, and the last frame of
Linear is one before the stream goes on, at most one step of the output and one
frame back (`LastFramesBehind`), without which the first output of a block could
be anything. A factor is a quotient, so everything is multiplied out and becomes
an inequality between products, with a lemma for each way of rounding. The
outputs of a block are an initial part of the numbers (`FirstFew`), of which
`OutputsAre` finds the end. By the ten frames of padding no frame is left when they
end, be it because the frames end first or, as for one frame at 1:12 through
`ResamplerLinear`, whose loop goes on for as long as it finds the frame behind the
block, because the room does. For Speex, `Whole` says what a block or a part of one has
to do: as many outputs as are due, no frame left, less than a step to the next. The
library does so (`EngineIsWhole`), two such parts are one (`WholeAfterWhole`), and so,
by induction over chunks, is what the double build converts, as long as `mConvertOut`,
which is sized for `maxBlock`, has room for a chunk: where no chunk is longer than
`maxBlock`, either because blocks are not or because padding does not make it so.
`PadsChunks` lets in the others, of which the claims do not hold (section 5). `DelayIs`
relates what the filter does to what `getLatency` reports: its peak is half its length
behind, whichever length, which `StreamsInStep` needs. The proof found that
the first bound on the estimates, one of each rate, held at the pairs of rates TLC
was given but not at 10 and 7, which the run has now. That steps of the convolver leave
the stream alone (`ConvolverKeepsStream`) makes what was proved of streams hold in
front of it.

**Convolver.** `KeptOK` says that `mIr` is what was valid of the response loaded last, as
far as it goes, and zeros behind that, and that what it does not keep is nowhere loud:
by `TrimmedIs`, since `load` asks for no less than `Trimmed`. It is inductive since
either `mIr` is new, and so zero where nothing is copied to, or all of it is copied over
(`LoadKeeps`); that is what no `LeavesOld` says. `ConvolvesWhole` compares two sums:
of the code's range of the response, cut at both ends, and of all pairs of a sample and
a valid frame that belong to an output. `SumRearranged` says that two sums are the same
if what they sum up is paired off and the rest is zero, so that the code's, of which
the padding adds zeros, is the sum over pairs with a sample that is kept
(`ConvolvedIsAudible`); and by `SumOfBounds`,
which adds up differences, it is no further from the whole one than what those pairs
amount to. With `Silence` 0 nothing is lost. `Silence` stands for the 0.0001 of `load`, and
"silent" are the samples at or below it.

Induction over data goes by `LeastMember`: a set of natural numbers that is not
empty has a least member, which `WFMin` of the library gives without an operator
parameter. So the counterexamples to a claim have a first one, and that a function
defined by recursion exists is itself such a claim.

TLC checks the inductive invariants' conjuncts in the runs above, or did so before
they were proved; the proofs add every other value of the constants. Of
`ThreadsInv`, which says that lengths and owners exist, it checks the four properties
that follow.

### What is only model-checked

- `CreateIsFresh` and `DataSurvives`, which do not hold.
- The liveness properties (`SomeoneGetsIn`, `CallsReturn`, `DispatchEnds`): fairness and
  `ENABLED` are outside of what the prover does.

## 5. Where the code needs a careful client

Each of the following is a switch or a parameter of the models; the passing runs
leave it out, and turning it on shows what goes wrong:

- *`SpinLock`*: two threads that allocate from a `FixedPool` (`Duties` with two
  threads that have `"allocate"`) can take the same block, and updates of
  `allocatedSpace` are lost even when one only returns what the other allocates.
- *`FixedPool`*: `Regular`, see above. `reallocate` cuts a block without the lock
  (`TFixedPool.hpp:217`): with `Duties` of one thread that resizes and one that
  allocates, the walk of the other meets a word that is no header
  (`WalkSeesHeaders`). `reallocate` that shrinks a block in place
  leaves `allocatedSpace` as it was, so that from then on `allocated()` is more than is
  allocated, and the destructor's assertion that it is 0 (`TFixedPool.hpp:69`) fails for a
  client that returned everything: without `~Shrunk` in it `Accounting` fails.
- *`HeapBuffer`*: `MovesReserved` (empty buffers that have memory are moved, which
  leaves two owners, `THeapBuffer.hpp:180`: `OneOwner` fails),
  `Overwrites` (move assignment to a buffer that has memory leaks it),
  `ReservesBorrowed` (`reserve` on borrowed memory allocates for fewer elements
  than are counted), `ShrinksMayFail` (a shrink that gets no memory has destroyed
  elements it still counts).
- *`AudioRingBuffer`*: `Beyond` (an offset beyond the contents wraps around and runs
  `mHead` below zero; after a `resize` to fewer frames `mHead` may be above the size,
  and the space left wraps around), `PopOffsets` (a pop from the middle drops the oldest frames
  instead of those it delivers), `Rooms` (the second part of a split read starts
  past the end of a destination that is too short), `DropsEarly` (`pushOver` drops as many
  old frames as come in as soon as those fill the buffer, or more, and not just those
  there is no room for, `TAudioRingBuffer.hpp:86`: it "pushes out old data if not enough
  space"), `ResizesFail` (a `resize` that gets no memory leaves a ring without frames that
  counts some). Each makes `ImplementsFifo` fail.
- *`AudioBuffer`*: `ResizesFail` (after a failed `resize`, which returns true, more is valid
  than there is), `CutsMixes` (`add` and `multiply` overwrite the length they are given,
  339, 388, and change samples past it), `CountsNarrow` (`putInterleaved` to fewer channels
  than the buffer has returns fewer frames than it wrote, 726; without channels it divides
  by zero). The first two make `ImplementsPlanes` fail, the first and the last
  `PutsDeliver`. `clone`
  leaves the valid size as it was, so of a longer buffer not all need be valid.
  `inject` has no return
  statement where it succeeds (498, 523), which is undefined; the model takes it
  to return. A buffer that was given const memory goes on asserting in debug
  builds that it is const once it has memory of its own, since nothing resets
  `IS_CONST`. A buffer that was moved from still points at the memory, which the other
  one may free or change: the model's client leaves the other alone while it uses it.
  Offsets that are not multiples of a vector are unaligned loads.
- *`HandleBuffer`*: handles that were never handed out give access to slots
  without elements, and `iterate` visits them. What follows from an `mStart` that a
  `resize` did not reset is in the model: `create` finds no slot in a buffer that was
  full, or reads past the end. A constructor that gets no memory links its slots at the
  null pointer, and is left out. What `resize` and `remove` write past the end is somebody
  else's memory, of which the model has nothing.
- *`EventBus`*: callbacks that subscribe a new object in every call keep the loop of a
  dispatch, which looks at the growing length each time (`TEventBus.hpp:64`), going for
  ever. `DispatchEnds` is about those that stop (`SubscribingStops`). In a run the set of
  subscriptions is finite, and so is any list of them; the premise says what that bound
  stands for.
- *`String`*: `prepend` starts moving one place too high (`TString.hpp:230`): the
  first character of the old text is lost (`PrependsToText`, with which
  `ImplementsTexts` fails), and the first store is
  `mData[mData.size()]`, which the assertion of `operator[]` forbids. It is in the
  slack of the last chunk, or, if the text fills its chunks, in the magic block
  behind it: with `FillsChunks`, `OnlyStraysReported` fails. `append` to a string
  without a terminator has its start wrap around, and `append` of a string to
  itself reads what it has moved; neither is among the inputs. What `reserve` got
  is given back by the next `append`, whose `resize` may downsize. `contains`
  does not find a text at the very end of another, for which `SearchesEnds` makes
  `QueriesAgree` fail.
- *`stringCopy`*: without a size, which its comment allows for short terminated
  strings, it copies a short text but not its terminator (`TMemory.hpp:120`): the
  loop that looks for the terminator counts up to it and turns `terminate` off. Of a
  text of 64 characters or more it keeps 62. Without `terminate` a copy that does not
  fit has no terminator. `StackString::put` into no room at all has `length - 1` wrap
  around.
- *`MemoryCheck`*: it tells what was written, not who. A size overwritten with what
  it was, or a flag with another byte that is true, is not seen; `strayed` says so.
- *Resamplers*: `PadsChunks`: with double samples `ResamplerSpeex` converts a block longer
  than `maxBlock` in chunks of `mConvertIn.size()`, which is `maxBlock` padded to the
  alignment, while `mConvertOut` is sized for `maxBlock` itself. With a `maxBlock` of 1,
  a block of 3 and rates of 1:12 a chunk of 2 frames has 24 outputs to give and room for
  22, and its second frame is dropped before it is used up: `NothingLeft` and `InStep` fail;
  with blocks of 4 and an alignment of 4, so does `EstimatesHold`. `Interpolates`: `InStep` asks of Linear what it asks of the
  others, and fails; `LinearLags` says what is left of it. `ResamplerLinear` reads the frame
  behind the valid ones (85), which clients have to keep there. Its first output of a frame starts from the last one
  with nothing mixed in, and at the second both ends are the same frame: going up, it
  does not interpolate but holds. Each block starts at output 0 again, so that
  every block gives a frame's worth of outputs too many with `ResamplerLinear` and
  half a frame's too few with `ResamplerHold`: blocks are in step each by
  itself (`InStep`), and what a client strings together of them is not. `ResamplerSpeex`
  with double samples and no `maxBlock` never ends its loop over chunks.
- *`ConvolverBrute`*: `LeavesOld`: a response that is trimmed to the length that `mIr` has is
  copied over it, and only as far as it is valid (`TConvolverBrute.hpp:53`). `load` trims by the samples
  there are, padding included, and does not trim at all what is silent behind its first
  sample: where that is more than is valid, samples of the response before remain and
  are convolved with, and `ConvolvesWhole` fails. After `<<0, 3, 1, 0>>`, of which 1 is
  silent, a response of one valid sample, `<<2, 0>>`, leaves `[2, 3]`. An empty block or an unloaded response makes `ng - 1` or
  `nf - 1` wrap around (77, 78). A response that is silent throughout is not trimmed
  to nothing but kept as it is.

## 6. Not modelled

`PROJECT.json` has a reason for each. Briefly:

- *FFT and oversampler*: floating point transforms and filters of vendored libraries,
  which a model checker cannot reach.
- *Codecs, `ConvolverFFT`, `ConvolverRef`, `ResamplerCosine`*: they do not compile at this
  commit (unfinished classes, and included paths that do not exist), so that there is
  no program to be faithful to; `TResamplerDbry.hpp` is empty. `IResampler::resample` cannot be
  instantiated.
- *Logger*: planned.
- *Utilities*: stateless arithmetic, compile-time traits, wrappers of timers and of a
  profiler.
- Of the resamplers, the rounding of a factor to a double and of positions to the
  sample type. Vendored libraries: Speex, dr_wav, Vorbis, pffft, hiir, tracy, fmt.

Also left out: clients that return pointers they do not own (the pool's
check adds the address to itself, `TFixedPool.hpp:167`, and refuses few of them);
`set` of a `HeapBuffer` with its own data; a bus that is destroyed before its
subscriptions; ring sources with fewer channels than the ring.

## 7. Plan

Done, in this order: `SpinLock`; `PoolSizes`, `FixedPool`, `Heap` and their proofs;
`FixedPoolThreads`, which composes `SpinLock`; `HandleBuffer` and its proofs;
`AudioRingBuffer`, `BoundedFifo` and their proofs; `HeapBuffer`, `Vectors`;
`EventBus`; `AudioBuffer`, `Planes`; `MemoryCheck`, `Strings`, which composes it with
`HeapBuffer`, and `Texts`; `Resamplers`, and `Convolver`, which composes it.

To model:

1. The logger's lock, as another user of the protocol of `SpinLock`.
2. Operations of a buffer on itself: `append` of a string to itself, `set` and `add` of an
   `AudioBuffer` with overlapping parts of its own.

Proved, in this order: locks, pool, handles, ring (section 4); `EventBus`; `HeapBuffer`
and its refinement; the counters of `HandleBuffer` and `FixedPool`; `Resamplers`;
`FixedPoolThreads`; `Strings` and its refinement; `AudioBuffer` and its refinement;
`Convolver`.
