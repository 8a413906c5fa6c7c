------------------------------ MODULE MC_Muse ------------------------------
(***************************************************************************)
(* Instances of Muse for TLC: pages of two bytes.                          *)
(***************************************************************************)
EXTENDS Muse, TLC

\* A buffer inside a page, and one over two or three pages; all bytes differ.
MC_Textos == {<<"a">>, <<"b", "c", "d">>}

MC_Simetria == Permutations(Ids)
=============================================================================
