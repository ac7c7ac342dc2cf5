------------------------------- MODULE Vectors -------------------------------
(***************************************************************************)
(* What the users of several growable buffers may rely on: each holds a    *)
(* sequence of its own, which changes as the operations say and is handed  *)
(* over whole by a move.  HeapBuffer is shown to implement this.           *)
(***************************************************************************)
EXTENDS Naturals, Sequences

CONSTANTS Vectors,     \* the buffers
          Values,      \* what they hold
          Default,     \* an element constructed from nothing
          Datas,       \* what is assigned to them
          Lent,        \* lengths of what they are given to work with
          MaxSize

VARIABLE contents

Empty(v) == contents' = [contents EXCEPT ![v] = <<>>]

Append1(v, x) == contents' = [contents EXCEPT ![v] = Append(@, x)]

DropLast(v) == 
    /\ contents[v] # <<>>
    /\ contents' = [contents EXCEPT ![v] = SubSeq(@, 1, Len(@) - 1)]

\* The last element fills the gap.
TakeOut(v, i) ==
    /\ i \in 1 .. Len(contents[v])
    /\ contents' = [contents EXCEPT ![v] = 
                      [j \in 1 .. Len(@) - 1 |-> IF j = i THEN @[Len(@)] ELSE @[j]]]

SetLength(v, n) ==
    contents' = [contents EXCEPT ![v] = 
                   [j \in 1 .. n |-> IF j <= Len(@) THEN @[j] ELSE Default]]

Assign(v, data) == contents' = [contents EXCEPT ![v] = data]

\* `from' gives everything it has to `to', and keeps nothing.
HandOver(to, from) ==
    /\ to # from
    /\ contents' = [contents EXCEPT ![to] = contents[from], ![from] = <<>>]

VectorsInit == contents = [v \in Vectors |-> <<>>]

VectorsNext == \E v \in Vectors :
    \/ Empty(v)
    \/ DropLast(v)
    \/ \E x \in Values : Append1(v, x)
    \/ \E i \in 1 .. MaxSize : TakeOut(v, i)
    \/ \E n \in 0 .. MaxSize : SetLength(v, n)
    \/ \E data \in Datas : Assign(v, data)
    \/ \E n \in Lent : Assign(v, [j \in 1 .. n |-> Default])
    \/ \E from \in Vectors : HandOver(v, from)

VectorsSpec == VectorsInit /\ [][VectorsNext]_contents
=============================================================================
