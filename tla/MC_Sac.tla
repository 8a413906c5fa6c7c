------------------------------- MODULE MC_Sac -------------------------------
(***************************************************************************)
(* Instances of SacDisco for TLC: blocks of two bytes and two pointers.    *)
(***************************************************************************)
EXTENDS SacDisco

\* Two names, used in the root and in each other, and a third one below them.
MC_Caminos == {<<"a">>, <<"b">>, <<"a", "b">>, <<"b", "a">>, <<"a", "b", "c">>}

\* Two elements of the root.
MC_Planos == {<<"a">>, <<"b">>}

\* Less than a block, and more than a block.
MC_Textos == {<<1>>, <<2, 3, 4>>}
=============================================================================
