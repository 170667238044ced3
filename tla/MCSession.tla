----------------------------- MODULE MCSession -----------------------------
(* Instances of Session for TLC.                                           *)
EXTENDS Session

\* Stream muxer configurations: none, yamux, and yamux as second choice.
SomeMuxers == {<<>>, <<"yamux">>, <<"mplex", "yamux">>}
=============================================================================
