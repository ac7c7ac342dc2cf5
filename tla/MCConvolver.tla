----------------------------- MODULE MCConvolver -----------------------------
(* Two channels; up and down, by factors that go into each other and not,   *)
(* and by more than there is padding for.                                   *)
EXTENDS Convolver

MCRates == {<<1, 1>>, <<1, 2>>, <<2, 1>>, <<2, 3>>, <<3, 2>>, <<1, 12>>, <<4, 1>>, <<10, 7>>}

Response(samples, valid) == [samples |-> samples, valid |-> valid]

\* None, one sample, one with a silent end, silence, what is loud behind what is
\* valid, and two channels.
MCResponses ==
    {Response(<<<<>>>>, 0), 
     Response(<<<<2, 0>>>>, 1), 
     Response(<<<<0, 3, 1, 0>>>>, 3), 
     Response(<<<<0, 0>>>>, 2), 
     Response(<<<<1, 0, 0, 3>>>>, 2),
     Response(<<<<2, -2, 0, 1>>, <<0, 0, 3, -1>>>>, 4)}
=============================================================================
