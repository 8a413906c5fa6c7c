------------------------------- MODULE Memoria -------------------------------
(***************************************************************************)
(* What MUSE promises to the processes that use it: each one has a memory  *)
(* of its own, made of cells.  A process gets new cells, shares those of a *)
(* file it maps, gives cells up, and copies bytes to its addresses.  Only  *)
(* the muse_cpy under way changes a cell that some process can address:    *)
(* the next of its bytes, each at the address it was sent to.  Where a     *)
(* cell is kept (which frame, which slot of the swap file) cannot be seen. *)
(***************************************************************************)
EXTENDS Integers, Sequences

CONSTANTS Ids,           \* processes
          Direcciones,   \* logical addresses
          Textos,        \* buffers that they copy
          SinCelda,      \* what an address that is not reserved names
          SinCopia       \* no muse_cpy is under way

VARIABLES celdas,        \* celdas[p][d]: the cell that p sees at address d
          valor,         \* valor[c]: the byte in cell c
          copia          \* the muse_cpy under way: whose, where, what, how much is done

vars == <<celdas, valor, copia>>

De(p) == {celdas[p][d] : d \in Direcciones} \ {SinCelda}
Vistas == UNION {De(p) : p \in Ids}

Init == /\ celdas = [p \in Ids |-> [d \in Direcciones |-> SinCelda]]
        /\ valor = <<>>
        /\ copia = SinCopia

\* The cells that somebody can address and that change.
Cambian == {c \in Vistas : valor'[c] # valor[c]}

\* p gets cells at addresses it had not reserved, and keeps those it had.
Reservar(p) ==
    /\ copia = SinCopia /\ copia' = SinCopia /\ Cambian = {}
    /\ \A q \in Ids \ {p} : celdas'[q] = celdas[q]
    /\ \A d \in Direcciones :
          celdas[p][d] # SinCelda => celdas'[p][d] = celdas[p][d]

\* p gives up some of its addresses.
Liberar(p) ==
    /\ copia = SinCopia /\ copia' = SinCopia /\ Cambian = {}
    /\ \A q \in Ids \ {p} : celdas'[q] = celdas[q]
    /\ \A d \in Direcciones : celdas'[p][d] \in {celdas[p][d], SinCelda}

\* p starts to copy a buffer to its address d.
Copiar(p, d, texto) ==
    /\ copia = SinCopia
    /\ copia' = [id |-> p, dir |-> d, datos |-> texto, hecho |-> 0]
    /\ celdas' = celdas /\ Cambian = {}

\* Where byte j of the buffer goes.
Destino(j) == celdas[copia.id][copia.dir + j]

\* The copy under way writes its next bytes, each where it goes, and nothing else.
Escribir ==
    /\ copia # SinCopia /\ celdas' = celdas
    /\ \E n \in copia.hecho..Len(copia.datos) :
          /\ \A j \in copia.hecho..n - 1 :
                Destino(j) # SinCelda /\ valor'[Destino(j)] = copia.datos[j + 1]
          /\ Cambian \subseteq {Destino(j) : j \in copia.hecho..n - 1}
          /\ copia' = IF n = Len(copia.datos) THEN SinCopia
                      ELSE [copia EXCEPT !.hecho = n]

\* A cell nobody can address may hold anything.
Interno == celdas' = celdas /\ copia' = copia /\ Cambian = {}

Next == \/ Interno \/ Escribir
        \/ \E p \in Ids : \/ Reservar(p) \/ Liberar(p)
                          \/ \E d \in Direcciones, texto \in Textos : Copiar(p, d, texto)

Spec == Init /\ [][Next]_vars
=============================================================================
