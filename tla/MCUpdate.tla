------------------------------ MODULE MCUpdate ------------------------------
(* A pre-release, its release and an earlier one; a server that also answers *)
(* unsigned tokens, and code its manifests do not name.                      *)
EXTENDS Update

CONSTANTS j1, j2, p1, p2

v1 == [core |-> 1, pre |-> 0]
vb == [core |-> 2, pre |-> 1]
v2 == [core |-> 2, pre |-> 0]

Token(flaws, v, min, fits, code) ==
    [flaws |-> flaws, ver |-> v, min |-> min, fits |-> fits, code |-> code]

vm == [core |-> 3, pre |-> 0]

MCVersions == {v1, vb, v2, vm}
MCBase     == v1
MCDuds     == {vb}
MCMutes    == {vm}
MCTokens   ==
    {Token({}, vb, Nil, TRUE, "ours"),
     Token({}, v2, Nil, TRUE, "ours"),
     Token({}, vm, v1, TRUE, "ours"),
     Token({}, v2, Nil, FALSE, "ours"),
     Token({"fields"}, v2, Nil, TRUE, "ours"),
     Token({"signature"}, v2, Nil, TRUE, "theirs"),
     Token({}, vm, v2, TRUE, "ours")}

=============================================================================
