-------------------------------- MODULE Texts --------------------------------
(***************************************************************************)
(* What the users of strings may rely on: each is a sequence of characters *)
(* of its own, the last of them the terminator, that assigning, appending  *)
(* prepending and cutting change as they say.  Strings is shown to         *)
(* implement this for clients that prepend to empty strings only.          *)
(***************************************************************************)
EXTENDS Naturals, Sequences, SequencesExt

CONSTANTS Names,
          Phrases,       \* texts that are assigned, appended or prepended
          Terminator,
          Chars,
          MaxLength

VARIABLE texts

CString(t) == Append(t, Terminator)

Assign(n, t) == texts' = [texts EXCEPT ![n] = t]

AppendTo(n, t) == texts' = [texts EXCEPT ![n] = Front(@) \o t]

Prepend(n, t) == texts' = [texts EXCEPT ![n] = Front(t) \o @]

SetLength(n, len) == 
    texts' = [texts EXCEPT ![n] = 
                [i \in 1 .. len |-> IF i <= Len(@) THEN @[i] ELSE Terminator]]

SetChar(n, i, c) ==
    /\ i \in DOMAIN texts[n]
    /\ texts' = [texts EXCEPT ![n][i] = c]

\* What a text is made from: one that is given, or that of another string.
Sources(n) == {CString(t) : t \in Phrases} \cup {texts[o] : o \in Names \ {n}}

TextsInit == texts = [n \in Names |-> <<>>]

TextsNext == \E n \in Names :
    \/ \E t \in Sources(n) : 
          \/ Assign(n, t) 
          \/ /\ texts[n] # <<>> /\ t # <<>>
             /\ AppendTo(n, t) \/ Prepend(n, t)
    \/ \E t \in Phrases, len \in 0 .. MaxLength : 
          len <= Len(t) /\ Assign(n, CString(SubSeq(t, 1, len)))
    \/ \E len \in 0 .. MaxLength : SetLength(n, len)
    \/ \E i \in 1 .. MaxLength, c \in Chars : SetChar(n, i, c)
    \/ Assign(n, <<>>)

TextsSpec == TextsInit /\ [][TextsNext]_texts
=============================================================================
