--------------------------- MODULE MC_SacServidor ---------------------------
(***************************************************************************)
(* Instances of SacServidor for TLC: the process c1 has two threads, c2 one.*)
(* At the start the path q is free, and p may have a directory h in it.    *)
(***************************************************************************)
EXTENDS SacServidor

CONSTANTS c1, c2, t1, t2, t3

MCClienteDe == [t \in Hebras |-> IF t = t3 THEN c2 ELSE c1]
MCDirs == {<<"p">>, <<"p", "h">>, <<"q">>}

Sobre(op, d) == [op |-> op, dir |-> d, nuevo |-> Nadie]
MCOperaciones ==
    {Sobre("opendir", <<"p">>), Sobre("rmdir", <<"p">>), Sobre("write", <<"p">>),
     [op |-> "rename", dir |-> <<"p">>, nuevo |-> <<"q">>]}
    \cup {Sobre("readdir", d) : d \in MCDirs}

MCInit ==
    /\ Init
    /\ directorios[<<"p">>] # "no" /\ directorios[<<"p", "h">>] # "vacio"
    /\ directorios[<<"q">>] = "no"

MCSpec == MCInit /\ [][Next]_vars /\ Justicia

=============================================================================
