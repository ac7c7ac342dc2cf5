----------------------------- MODULE MCHeapBuffer -----------------------------
(* HeapBuffer with a few buffers, allocations and elements.                *)
EXTENDS HeapBuffer, TLC

CONSTANTS a, d, f

MCForeign == f :> 2
NoForeign == <<>>

MCDatas == {<<>>, <<a>>, <<d, a, a>>}
=============================================================================
