---------------------------- MODULE HandleBuffer ----------------------------
(***************************************************************************)
(* HandleBuffer<T, Handle, GenerationBits> (THandleBuffer.hpp): slots that *)
(* are referred to by handles.  A Handle packs an index and a generation;  *)
(* so does Element::next, whose index part links the free slots and whose  *)
(* generation part is that of the slot.  Here each is a record of its two  *)
(* bit fields.  The values stored in the slots are left out: a value lives *)
(* exactly as long as the handle that create() returned for it.            *)
(***************************************************************************)
EXTENDS Integers, FiniteSets

CONSTANTS Generations,   \* 2^GenerationBits
          MaskIndex,     \* the largest index part, which stands for "no slot"
          InitSize,      \* size given to the constructor
          Resizes,       \* sizes the client calls resize() with
          Beyond         \* what a read past the last slot may find

ASSUME HandleAssumption ==
    /\ Generations \in Nat /\ Generations >= 2
    /\ MaskIndex \in Nat 
    /\ InitSize \in 1 .. MaskIndex - 1
    /\ Resizes \subseteq 1 .. MaskIndex - 1
    /\ Beyond \subseteq [index : 0 .. MaskIndex, generation : 0 .. Generations - 1]

VARIABLES next,       \* mElements: index |-> next, the size is that of the domain
          mStart,     \* first free slot or MaskIndex
          mFree,      \* number of free slots, an unsigned number
          owned,      \* handles the client got from create() and has not removed
          retired     \* handles it has removed since the last resize()

vars == <<next, mStart, mFree, owned, retired>>

HandleMod == Generations * (MaskIndex + 1)      \* values of type Handle
LastGeneration == Generations - 1               \* MaskGeneration, shifted
Pack(i, g) == [index |-> i, generation |-> g]
InvalidHandle == Pack(MaskIndex, LastGeneration)

Slots == DOMAIN next
size == Cardinality(Slots)
Words == [index : 0 .. MaskIndex, generation : 0 .. LastGeneration]

\* resize() links every slot to the one after it and resets its generation.
Linked(n) == [i \in 0 .. n - 1 |-> Pack(IF i = n - 1 THEN MaskIndex ELSE i + 1, 0)]

Init == 
    /\ next = Linked(InitSize)
    /\ mStart = 0
    /\ mFree = InitSize
    /\ owned = {}
    /\ retired = {}

(***************************************************************************)
(* at(), for a handle to one of the slots.  One of the last generation     *)
(* passes for one never initialized.                                       *)
(***************************************************************************)
Has(h) ==
    /\ h # InvalidHandle
    /\ h.index \in Slots
    /\ next[h.index].generation # LastGeneration
    /\ h.generation = next[h.index].generation

\* at() lets the index size through, and reads past the end of mElements.
MayHave(h) == Has(h) \/ (h.index = size /\ h # InvalidHandle)

\* mStart is not reset, and the client's handles are void: "does not maintain
\* existing data or handles for now".
Resize(n) ==
    /\ next' = Linked(n)
    /\ mFree' = n
    /\ owned' = {}
    /\ retired' = {}
    /\ UNCHANGED mStart

\* mElements gets no memory, which goes unnoticed: the loop links as many
\* slots as were asked for, those past the end included, and the last slot
\* there is has no next.
ResizeFails(n) ==
    /\ n # size
    /\ next' = [i \in Slots |-> 
                  IF i = size - 1 THEN Pack(MaskIndex, 0)
                  ELSE IF i < n THEN Pack(i + 1, 0) ELSE next[i]]
    /\ mFree' = n
    /\ owned' = {}
    /\ retired' = {}
    /\ UNCHANGED mStart

\* The word of the element at mStart, which may be past the end.
First == IF mStart \in Slots THEN {next[mStart]} ELSE Beyond

\* Defect: the generation goes up here.
CreateAges(e) ==
    LET g == (e.generation + 1) % Generations
    IN  /\ mStart # MaskIndex
        /\ e \in First
        /\ mStart' = e.index
        /\ mFree' = (mFree - 1) % HandleMod
        /\ next' = [i \in Slots |-> IF i = mStart THEN Pack(e.index, g) ELSE next[i]]
        /\ owned' = owned \cup {Pack(mStart, g)}
        /\ UNCHANGED retired

\* The element at mStart leaves the free list.  Its next stays as it is.
Create(e) ==
    /\ mStart # MaskIndex
    /\ e \in First
    /\ mStart' = e.index
    /\ mFree' = (mFree - 1) % HandleMod
    /\ owned' = owned \cup {Pack(mStart, e.generation)}
    /\ UNCHANGED <<next, retired>>

CreateFails == mStart = MaskIndex /\ UNCHANGED vars

\* Defect: the generation stays.
NextGenerationSame(g) == g

\* The generation of a slot after a removal: it is compared with the mask
\* before the mask is shifted, so the comparison never holds and the
\* generation wraps around where the Handle ends.
NextGeneration(g) == (g + 1) % Generations

(***************************************************************************)
(* remove().  The slot is linked to itself and becomes the first free one; *)
(* past the end there is no slot to link.                                  *)
(***************************************************************************)
Remove(h) ==
    /\ MayHave(h)
    /\ next' = [i \in Slots |-> 
                  IF i = h.index THEN Pack(i, NextGeneration(next[i].generation))
                                 ELSE next[i]]
    /\ mStart' = h.index
    /\ mFree' = (mFree + 1) % HandleMod
    /\ owned' = owned \ {h}
    /\ retired' = retired \cup {h}

RemoveFails(h) == ~Has(h) /\ UNCHANGED vars

\* The client removes a handle it has, or has had.
Next ==
    \/ \E e \in First : Create(e)
    \/ CreateFails
    \/ \E h \in owned \cup retired : Remove(h) \/ RemoveFails(h)
    \/ \E n \in Resizes : Resize(n) \/ ResizeFails(n)

Spec == Init /\ [][Next]_vars
-----------------------------------------------------------------------------
TypeOK ==
    /\ \E n \in 1 .. MaskIndex - 1 : Slots = 0 .. n - 1
    /\ next \in [Slots -> Words]
    /\ mStart \in 0 .. MaskIndex
    /\ mFree \in 0 .. HandleMod - 1
    /\ owned \subseteq Words
    /\ retired \subseteq Words

(***************************************************************************)
(* A handle that was removed never gives access to a slot again, however   *)
(* often the slot is reused: "old handle becomes invalid and access is     *)
(* portected".                                                             *)
(***************************************************************************)
StaleStaysDead == \A h \in retired : ~Has(h)

(***************************************************************************)
(* The client loses access to an element only by its own doing: a handle   *)
(* of its that gives access goes on to do so, whatever is created and      *)
(* removed around it, until that handle itself is removed or the buffer is *)
(* resized.                                                                *)
(***************************************************************************)
AccessLasts == 
    [][\A h \in owned : 
          Has(h) => \/ Has(h)' 
                    \/ Remove(h) 
                    \/ \E n \in Resizes : Resize(n) \/ ResizeFails(n)]_vars

(***************************************************************************)
(* create() returns "a valid handle if there was space left, InvalidHandle *)
(* otherwise": never a handle that is in use.                              *)
(***************************************************************************)
CreateIsFresh == 
    [][\A e \in First : Create(e) => Pack(mStart, e.generation) \notin owned]_vars
=============================================================================
