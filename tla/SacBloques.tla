------------------------------ MODULE SacBloques ------------------------------
(***************************************************************************)
(* The blocks of the SAC disk (UwUntu/SAC/disco.c): the bitmap, the blocks *)
(* of pointers and the bytes of the files.  Every operator takes a file    *)
(* with the disk under it, a record                                        *)
(*    ind, tam          simple_indirect and tam_archivo of its node        *)
(*    usados            the blocks marked in the bitmap                    *)
(*    ptr, datos        each block read as pointers, and read as bytes     *)
(*    ok                the server has not dereferenced a bad pointer      *)
(*    ret               what the function returns                          *)
(* and answers the record that the C function leaves behind.               *)
(***************************************************************************)
EXTENDS Integers, Sequences, FiniteSets, FiniteSetsExt, Functions, SequencesExt

CONSTANTS BLOCK_SIZE,         \* bytes in a block
          CANT_DIRECTOS,      \* pointers in a block of pointers
          CANT_INDIR_SIMPLE,  \* blocks of pointers of a file
          CantBloques         \* blocks of the disk after the table of nodes

ASSUME SacBloquesConstantes ==
    {BLOCK_SIZE, CANT_DIRECTOS, CANT_INDIR_SIMPLE, CantBloques} \subseteq Nat \ {0}

Bloques == 1..CantBloques
Punteros == {-1, 0} \cup Bloques
Basura == -1               \* a byte that no write gave a value
Bytes == 0..BLOCK_SIZE - 1
Directos == 0..CANT_DIRECTOS - 1
Indirectos == 0..CANT_INDIR_SIMPLE - 1

Menor(a, b) == IF a < b THEN a ELSE b
Ceros(n) == [x \in 1..n |-> 0]
Desde(s, n) == SubSeq(s, n + 1, Len(s))

\* Rounds up; a negative size that is no multiple rounds to one block more,
\* because the division of C truncates towards zero.
cant_bloques_necesaria(t) ==
    (t + BLOCK_SIZE - 1) \div BLOCK_SIZE
      + (IF t < 0 /\ t % BLOCK_SIZE # 0 THEN 1 ELSE 0)

(***************************************************************************)
(* A position of a file: its data block, counted through the blocks of     *)
(* pointers (indice_ptr_ind * CANT_DIRECTOS + ind_ptr_dir), and the offset *)
(* inside that block.                                                      *)
(***************************************************************************)
NroBloque(off) == off \div BLOCK_SIZE
EnBloque(off) == off % BLOCK_SIZE
Indirecto(k) == k \div CANT_DIRECTOS
Directo(k) == k % CANT_DIRECTOS
Puntero(d, k) == d.ptr[d.ind[Indirecto(k)]][Directo(k)]

CantDatos == CANT_INDIR_SIMPLE * CANT_DIRECTOS

\* The data blocks that a double loop over i and j visits from offset off on:
\* i stops at the first block of pointers missing, j at the first null pointer.
Visitados(d, off) ==
    LET i0 == Indirecto(NroBloque(off))
        j0 == Directo(NroBloque(off))
        Desde0(k) == IF Indirecto(k) = i0 THEN j0 ELSE 0
    IN {k \in 0..CantDatos - 1 :
          /\ Indirecto(k) >= i0
          /\ \A i \in i0..Indirecto(k) : d.ind[i] # 0
          /\ Directo(k) >= Desde0(k)
          /\ \A j \in Desde0(k)..Directo(k) : d.ptr[d.ind[Indirecto(k)]][j] # 0}

\* The same blocks, in the order of the loop.
Visita(d, off) ==
    LET visitados == Visitados(d, off)
        Antes(k) == Cardinality({h \in visitados : h < k})
    IN [x \in 1..Cardinality(visitados) |-> CHOOSE k \in visitados : Antes(k) = x - 1]

Caida(d) == [d EXCEPT !.ok = FALSE]

buscar_bloque_libre(d) ==
    IF Bloques \subseteq d.usados THEN -1 ELSE Min(Bloques \ d.usados)

\* memcpy of s at offset o of the data block b.
Copiar(d, b, o, s) ==
    IF b \notin Bloques THEN (IF s = <<>> THEN d ELSE Caida(d))
    ELSE [d EXCEPT !.datos[b] =
            [x \in Bytes |-> IF x - o + 1 \in DOMAIN s THEN s[x - o + 1] ELSE @[x]]]

\* Block b becomes the i-th block of pointers of the file, all of them null.
ConBloquePtr(d, i, b) ==
    [d EXCEPT !.ind[i] = b, !.usados = @ \cup {b},
              !.ptr[b] = [j \in Directos |-> 0],
              !.datos[b] = [x \in Bytes |-> Basura]]

(***************************************************************************)
(* Writing.                                                                *)
(***************************************************************************)

agregar_bloque_ptrDir_SinVolver(d, i) ==
    LET b == buscar_bloque_libre(d)
        e == ConBloquePtr(d, i, b)
        dato == buscar_bloque_libre(e)
    IN IF b = -1 THEN [d EXCEPT !.ind[i] = -1, !.ret = -1]
       ELSE [e EXCEPT !.ptr[b][0] = dato, !.ret = dato]

\* Without a block for the data, the block of pointers stays with a -1 in it.
agregar_bloque_ptrDir(d, i) ==
    LET b == buscar_bloque_libre(d) IN
    IF b = -1 THEN [d EXCEPT !.ret = -1]
    ELSE LET e == ConBloquePtr(d, i, b)
             dato == buscar_bloque_libre(e)
         IN [e EXCEPT !.ptr[b][0] = dato, !.ret = dato]

bloque_indirecto_para_escribir(d) ==
    LET vacios == {i \in Indirectos : d.ind[i] = 0}
        i == Min(vacios)
        ultimo == d.ind[i - 1]
        huecos == {j \in Directos : d.ptr[ultimo][j] = 0}
        b == buscar_bloque_libre(d)
    IN IF vacios = {} THEN [d EXCEPT !.ret = -1]
       ELSE IF i = 0 \/ huecos = {} THEN agregar_bloque_ptrDir(d, i)
       ELSE IF b = -1 THEN [d EXCEPT !.ret = -1]
       ELSE [d EXCEPT !.ptr[ultimo][Min(huecos)] = b, !.ret = b]

escribir_sobre_bloque_incompleto_Repite(d, c) ==
    LET o == EnBloque(d.tam)
        k == NroBloque(d.tam)
        n == Menor(Len(c), BLOCK_SIZE - o)
        texto == SubSeq(c, 1, n) \o Ceros(BLOCK_SIZE - o - n)
    IN IF o = 0 \/ d.ind[Indirecto(k)] = 0 THEN [d |-> d, resto |-> c]
       ELSE [d |-> [Copiar(d, Puntero(d, k), o, texto) EXCEPT !.tam = @ + n],
             resto |-> IF n = Len(c) THEN <<>> ELSE SubSeq(c, 1, Len(c) - n)]

\* Fills the last block of the file; answers the file and what is left of c.
escribir_sobre_bloque_incompleto(d, c) ==
    LET o == EnBloque(d.tam)
        k == NroBloque(d.tam)
        n == Menor(Len(c), BLOCK_SIZE - o)
        texto == SubSeq(c, 1, n) \o Ceros(BLOCK_SIZE - o - n)
    IN IF o = 0 THEN [d |-> d, resto |-> c]
       ELSE IF d.ind[Indirecto(k)] = 0 THEN [d |-> Caida(d), resto |-> c]
       ELSE [d |-> [Copiar(d, Puntero(d, k), o, texto) EXCEPT !.tam = @ + n],
             resto |-> Desde(c, n)]

EscribirBloque_SinMarcar(s) ==
    LET e == bloque_indirecto_para_escribir(s.d)
        n == Menor(Len(s.resto), BLOCK_SIZE)
        texto == SubSeq(s.resto, 1, n) \o Ceros(BLOCK_SIZE - n)
    IN IF e.ret = -1 THEN [s EXCEPT !.d = e, !.lleno = TRUE]
       ELSE [s EXCEPT !.d = [Copiar(e, e.ret, 0, texto) EXCEPT !.tam = @ + n],
                      !.resto = Desde(@, n), !.bloques_escritos = @ + 1]

\* One turn of the while: a new block, marked in the bitmap and written.
EscribirBloque(s) ==
    LET e == bloque_indirecto_para_escribir(s.d)
        n == Menor(Len(s.resto), BLOCK_SIZE)
        texto == SubSeq(s.resto, 1, n) \o Ceros(BLOCK_SIZE - n)
    IN IF e.ret = -1 THEN [s EXCEPT !.d = e, !.lleno = TRUE]
       ELSE [s EXCEPT
               !.d = [Copiar(e, e.ret, 0, texto) EXCEPT !.usados = @ \cup {e.ret},
                                                       !.tam = @ + n],
               !.resto = Desde(@, n), !.bloques_escritos = @ + 1]

escribir_final_archivo(d, c) ==
    LET a_escribir == escribir_sobre_bloque_incompleto(d, c)
        inicio == [d |-> a_escribir.d, resto |-> a_escribir.resto,
                   bloques_escritos |-> 0, lleno |-> FALSE]
        turnos == cant_bloques_necesaria(Len(c))
        turno[n \in 0..turnos] ==
            IF n = 0 THEN inicio
            ELSE LET s == turno[n - 1] IN
                 IF ~s.d.ok \/ s.lleno \/ s.resto = <<>> THEN s ELSE EscribirBloque(s)
        fin == turno[turnos]
        ret == IF fin.lleno THEN fin.bloques_escritos * BLOCK_SIZE ELSE Len(c)
    IN IF c = <<>> THEN [d EXCEPT !.ret = 0] ELSE [fin.d EXCEPT !.ret = ret]

\* One turn of the loop of escribir_dentro_archivo.  The branch of the first
\* block (j = ind_ptr_dir) is taken again in every block of pointers, and j
\* does not stop when everything is written.
EscribirEncima(s, k, c, cant, off) ==
    LET j0 == Directo(NroBloque(off))
        i0 == Indirecto(NroBloque(off))
        lugar == BLOCK_SIZE - EnBloque(off)
        n == Menor(cant - s.escrita, BLOCK_SIZE)
        corta == Directo(k) = 0 /\ Indirecto(k) > i0 /\ s.escrita >= cant
    IN IF s.fin \/ ~s.d.ok \/ corta THEN [s EXCEPT !.fin = TRUE]
       ELSE IF Directo(k) = j0
       THEN [d |-> Copiar(s.d, Puntero(s.d, k), EnBloque(off),
                          SubSeq(c, 1, Menor(cant, lugar))),
             escrita |-> s.escrita + lugar, fin |-> cant <= lugar]
       ELSE IF n < 0 THEN [s EXCEPT !.d = Caida(@)]
       ELSE [s EXCEPT !.d = Copiar(@, Puntero(@, k), 0,
                                   SubSeq(c, s.escrita + 1, s.escrita + n)),
                      !.escrita = @ + n]

\* Writes cant bytes of c over the blocks that the file has from off on.
escribir_dentro_archivo(d, c, cant, off) ==
    LET visitados == Visitados(d, off)
        turno[k \in 0..CantDatos] ==
            IF k = 0 THEN [d |-> d, escrita |-> 0, fin |-> FALSE]
            ELSE IF k - 1 \notin visitados THEN turno[k - 1]
            ELSE EscribirEncima(turno[k - 1], k - 1, c, cant, off)
    IN IF cant <= 0 THEN d ELSE turno[CantDatos].d

\* A write beyond the end appends first, from before the start of its buffer.
escribir_archivo(d, c, off) ==
    LET dentro == d.tam - off
        fuera == [x \in 1..Len(c) - dentro |->
                    IF x + dentro \in DOMAIN c THEN c[x + dentro] ELSE Basura]
        e == escribir_final_archivo(d, fuera)
    IN IF off + Len(c) > d.tam
       THEN IF ~e.ok THEN e
            ELSE [escribir_dentro_archivo(e, c, dentro, off) EXCEPT !.ret = dentro + e.ret]
       ELSE [escribir_dentro_archivo(d, c, Len(c), off) EXCEPT !.ret = Len(c)]

(***************************************************************************)
(* Truncating.                                                             *)
(***************************************************************************)

\* One turn of the loops that lengthen a file: data block k gets a new block,
\* and the next block of pointers comes with the last pointer of this one.
AgregarDato(d, k, quedan) ==
    LET b == buscar_bloque_libre(d)
        e == [d EXCEPT !.ptr[d.ind[Indirecto(k)]][Directo(k)] = b, !.usados = @ \cup {b}]
        p == buscar_bloque_libre(e)
    IN IF b = -1 THEN [d EXCEPT !.ret = -1]
       ELSE IF d.ind[Indirecto(k)] = 0 THEN Caida(d)
       ELSE IF ~quedan \/ Directo(k) < CANT_DIRECTOS - 1 THEN e
       ELSE IF p = -1 THEN Caida(e)
       ELSE ConBloquePtr(e, Indirecto(k) + 1, p)

Alargar(d, off) ==
    LET espacio_ult_bloque == BLOCK_SIZE - EnBloque(d.tam)
        agregar == Max({0, cant_bloques_necesaria(off - d.tam - espacio_ult_bloque)})
        b == buscar_bloque_libre(d)
        base == IF d.tam > 0 THEN d ELSE IF b = -1 THEN Caida(d) ELSE ConBloquePtr(d, 0, b)
        turno[n \in 0..agregar] ==
            IF n = 0 THEN [base EXCEPT !.ret = 0]
            ELSE LET e == turno[n - 1] IN
                 IF ~e.ok \/ e.ret = -1 THEN e
                 ELSE AgregarDato(e, NroBloque(d.tam) + n - 1, n < agregar)
        fin == turno[agregar]
    IN IF off < espacio_ult_bloque THEN [d EXCEPT !.tam = @ + off, !.ret = 0]
       ELSE IF fin.ret = -1 THEN fin ELSE [fin EXCEPT !.tam = off]

\* The data blocks ks and the blocks of pointers is of the file: free in the
\* bitmap, and null where they were.
Soltar(d, ks, is) ==
    LET Nulo(b, j) == \E k \in ks : b = d.ind[Indirecto(k)] /\ j = Directo(k)
    IN [d EXCEPT
            !.ind = [i \in Indirectos |-> IF i \in is THEN 0 ELSE @[i]],
            !.usados = @ \ ({Puntero(d, k) : k \in ks} \cup {d.ind[i] : i \in is}),
            !.ptr = [b \in Bloques |-> [j \in Directos |->
                        IF Nulo(b, j) THEN 0 ELSE @[b][j]]]]

Acortar_LimpiaPrimero(d, off) ==
    [d EXCEPT !.usados = @ \ {Puntero(d, k) : k \in Visitados(d, off)},
              !.tam = off, !.ret = 0]

\* The first block visited loses one byte; the others, up to one more than
\* cant_bloques_a_truncar, are freed with the blocks of pointers after the first.
Acortar(d, off) ==
    LET i0 == Indirecto(NroBloque(off))
        j0 == Directo(NroBloque(off))
        a_truncar == cant_bloques_necesaria(d.tam) - cant_bloques_necesaria(off)
        todos == Visitados(d, off)
        visitados == {k \in todos : Cardinality({h \in todos : h < k}) <= a_truncar}
        primeros == {k \in visitados : Directo(k) = j0}
        quedan == {k \in primeros : \A h \in primeros : h >= k}
        borrados == visitados \ quedan
        Antes(i) == Cardinality({k \in todos : Indirecto(k) < i})
        indBorrados == {i \in Indirectos : /\ i > i0 /\ Antes(i) <= a_truncar
                                           /\ \A h \in i0..i : d.ind[h] # 0}
        malos == {k \in visitados : Puntero(d, k) \notin Bloques}
        corto == [Soltar(d, borrados, indBorrados) EXCEPT !.tam = off, !.ret = 0]
    IN IF malos # {} THEN Caida(d)
       ELSE IF quedan = {} THEN corto
       ELSE Copiar(corto, Puntero(d, Min(quedan)), EnBloque(off), <<0>>)

truncar_archivo_por_nodo(d, off) == IF off > d.tam THEN Alargar(d, off) ELSE Acortar(d, off)

(***************************************************************************)
(* Reading and erasing.                                                    *)
(***************************************************************************)

\* ret is the sequence of bytes copied: the blocks visited one after the other,
\* the first one at ind_ptr_dir from its offset on.
leer_archivo(d, cant, off) ==
    LET visitados == Visita(d, off)
        primero == SelectInSeq(visitados, LAMBDA k : Directo(k) = Directo(NroBloque(off)))
        salto == IF primero = 0 THEN 0 ELSE EnBloque(off)
        n == Menor(Menor(cant, d.tam - off), Len(visitados) * BLOCK_SIZE - salto)
        En(x) == IF x > (primero - 1) * BLOCK_SIZE THEN x - 1 + salto ELSE x - 1
        Bloque(x) == Puntero(d, visitados[NroBloque(En(x)) + 1])
    IN IF off > d.tam THEN [d EXCEPT !.ret = <<>>]
       ELSE IF \E x \in 1..n : Bloque(x) \notin Bloques THEN [d EXCEPT !.ok = FALSE, !.ret = <<>>]
       ELSE [d EXCEPT !.ret = [x \in 1..n |-> d.datos[Bloque(x)][EnBloque(En(x))]]]

borrar_archivo_por_nodo_SoloDatos(d) ==
    [d EXCEPT !.usados = @ \ {Puntero(d, k) : k \in Visitados(d, 0)},
              !.ind = [i \in Indirectos |-> 0], !.tam = 0]

\* Every block of the file, until the first null pointer, is free again.  A -1
\* is an int here and reaches no bit of the map (in Acortar it is unsigned).
borrar_archivo_por_nodo(d) ==
    LET bloques == {i \in Indirectos : \A h \in 0..i : d.ind[h] # 0}
    IN [Soltar(d, Visitados(d, 0), bloques) EXCEPT !.tam = 0]
=============================================================================
