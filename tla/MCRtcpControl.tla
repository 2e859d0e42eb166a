--------------------------- MODULE MCRtcpControl ----------------------------
EXTENDS RtcpControl

(* Sources 1 and 3 share a bucket of two; each reports for itself, says    *)
(* BYE with one or two blocks, and 3 also reports on behalf of 1.          *)
MCSSRCs == {1, 2, 3}

MCCompounds ==
    LET compound(s, sdes, bye) == [ssrc |-> s, sdes |-> sdes, bye |-> bye]
    IN {compound(3, <<3, 1>>, 0), compound(3, <<3>>, 1), compound(1, <<1>>, 1),
        compound(2, <<2>>, 2)}
=============================================================================
