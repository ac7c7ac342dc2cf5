------------------------------ MODULE MCStrings ------------------------------
(* Two strings, one array, one label, and a literal of three characters.   *)
EXTENDS Strings, TLC

CONSTANT f

MCLiterals == f :> <<2, 1, 0>>
MCForeign == f :> 3
MCPhrases == {<<>>, <<2>>, <<2, 1>>}
MCDatas == {}
=============================================================================
