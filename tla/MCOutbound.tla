----------------------------- MODULE MCOutbound -----------------------------
(* A character of two bytes and a secret of two, cut in every way.           *)
EXTENDS Outbound

CONSTANTS i1, i2

MCOpsOf  == (i1 :> {"exec"}) @@ (i2 :> {"terminal", "update"})
MCSecret == <<"k", "y">>
MCConts  == {"c"}
MCChunks == {<<"u", "c">>, <<"k">>, <<"y", "\n">>, <<"y", "u", "c">>}
=============================================================================
