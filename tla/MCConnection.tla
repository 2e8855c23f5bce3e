---------------------------- MODULE MCConnection ----------------------------
(* Connection for TLC: what the peer sends. *)
EXTENDS Connection

OneMessage == {<<"data">>}
GoodAndBad == {<<"data", "finish">>, <<"bad", "finish">>}
Silence == {<<>>}
=============================================================================
