------------------------------ MODULE MCFiles ------------------------------
(***************************************************************************)
(* Files for TLC: every list of up to three small files is packed, and      *)
(* programs run on one of the images, which has an empty file and a name    *)
(* that occurs twice.                                                       *)
(***************************************************************************)
EXTENDS Files

MCChar == {"a", "b", "c", "d", "/", "x", "y"}
MCPaths == {<<"a">>, <<"d", "/", "a", "b">>, <<"a", "b", "c">>}
MCFile == [path : MCPaths, bytes : {<<>>, <<"x">>, <<"x", "y">>}]
MCInputs == SeqOf(MCFile, 3) \ {<<>>}

InUse ==
    argv = <<[path |-> <<"a">>, bytes |-> <<"x", "y">>],
             [path |-> <<"d", "/", "a", "b">>, bytes |-> <<>>],
             [path |-> <<"a">>, bytes |-> <<"x">>]>>

MCNext == IF InUse THEN Next ELSE UNCHANGED vars
MCSpec == Init /\ [][MCNext]_vars

MCFds == {-1, 0, 3, 4, 5}
MCNames == {<<"a">>, <<"a", "b">>, <<"c">>}
=============================================================================
