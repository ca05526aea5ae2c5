---------------------------- MODULE MCFrameStream ----------------------------
(***************************************************************************)
(* Instances of FrameStream for TLC: bytes have four values, bodies at     *)
(* most three bytes.                                                       *)
(***************************************************************************)
EXTENDS FrameStream

\* A short message, the longest legal one, and one byte too many.
MCMessages == {<<1>>, <<1, 2, 3>>, <<1, 2, 3, 1>>}

\* Length 0; a length over the limit, with bytes that follow; a body that is not
\* an object.
MCJunk == {<<0, 0, 0, 0>>, <<1, 0, 0, 1, 1>>, <<0, 0, 0, 2, 2, 1>>}

MCLinks == {<<"client", "mock">>, <<"client", "native">>, <<"mock", "client">>,
            <<"native", "client">>}

=============================================================================
