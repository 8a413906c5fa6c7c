------------------------------- MODULE SacDisco -------------------------------
(***************************************************************************)
(* SAC, the file system server (UwUntu/SAC): the table of nodes and the    *)
(* disk.  The accept loop of SAC.c takes a request when the one before has *)
(* been answered, so each operation of disco.c is one step.  The requests  *)
(* come from the callbacks of SAC-cli, behind the kernel of the clients:   *)
(* the kernel asks the server for each directory of a path before it uses  *)
(* the path, unlinks files, removes directories, and moves nothing into    *)
(* itself.                                                                 *)
(***************************************************************************)
EXTENDS SacBloques

CONSTANTS MAX_FILE_COUNT,    \* nodes of the table
          Nombres,           \* names of files and directories
          Caminos,           \* paths that the clients use: sequences of names
          Textos,            \* buffers that they write
          Offsets,           \* offsets where they write
          Tamanios,          \* sizes to which they truncate
          MaxTam,            \* bound: bytes of a file
          MaxPedidos         \* bound: operations that change the disk

ASSUME SacDiscoConstantes ==
    /\ MAX_FILE_COUNT \in Nat \ {0, 1} /\ {MaxTam, MaxPedidos} \subseteq Nat
    /\ MaxTam < (CANT_INDIR_SIMPLE - 1) * CANT_DIRECTOS * BLOCK_SIZE
    /\ Offsets \cup Tamanios \subseteq Nat
    /\ "" \notin Nombres /\ "/" \notin Nombres
    /\ \A p \in Caminos : p \in Seq(Nombres) \ {<<>>}
    /\ \A t \in Textos : t \in Seq(ToSet(t)) \ {<<>>}

VARIABLES
    tabla_nodos,   \* the node of each file or directory; 0 is the root
    bitmap,        \* blocks marked as used
    ptr_direct,    \* each block, read as pointers
    datos,         \* each block, read as bytes
    en_pie,        \* the server runs
    pedidos        \* operations done, bounded by MaxPedidos

disco == <<bitmap, ptr_direct, datos>>
vars == <<tabla_nodos, disco, en_pie, pedidos>>

Nodos == 0..MAX_FILE_COUNT - 1
Raiz == 0
Nulo == -1

crear_nodo(estado, nombre, padre) ==
    [estado |-> estado, nombre_archivo |-> nombre, bloque_padre |-> padre,
     tam_archivo |-> 0, simple_indirect |-> [i \in Indirectos |-> 0]]

\* main: a new disk, formatted, with the root in node 0.
Init ==
    /\ tabla_nodos = [n \in Nodos |-> IF n = Raiz THEN crear_nodo("DIRECTORIO", "/", Raiz)
                                      ELSE crear_nodo("BORRADO", "", Raiz)]
    /\ bitmap = {}
    /\ ptr_direct = [b \in Bloques |-> [j \in Directos |-> 0]]
    /\ datos = [b \in Bloques |-> [x \in Bytes |-> Basura]]
    /\ en_pie = TRUE
    /\ pedidos = 0

Estado(n) == tabla_nodos[n].estado
Padre(n) == tabla_nodos[n].bloque_padre
Nombre(n) == tabla_nodos[n].nombre_archivo
Vivos == {n \in Nodos : Estado(n) # "BORRADO"}
Archivos == {n \in Nodos : Estado(n) = "OCUPADO"}

\* The file of node n with the disk under it, as SacBloques wants it.
Archivo(n) ==
    [ind |-> tabla_nodos[n].simple_indirect, tam |-> tabla_nodos[n].tam_archivo,
     usados |-> bitmap, ptr |-> ptr_direct, datos |-> datos, ok |-> TRUE, ret |-> 0]

\* What a client reads from the start to the end of the file.
Contenido(n) == leer_archivo(Archivo(n), tabla_nodos[n].tam_archivo, 0).ret

(***************************************************************************)
(* Searching a path.  A search climbs from every node with the last name,  *)
(* one name of the path at a time.                                         *)
(***************************************************************************)
buscar(nombre) == {n \in Nodos : Nombre(n) = nombre}

extraer_nodo(n) == IF n \in Nodos \ {Raiz} THEN n ELSE Nulo

buscar_archivo_SinNodoUno(p) ==
    LET hijos == buscar(Last(p))
        abuelos == {Padre(h) : h \in hijos}
    IN IF p = <<>> THEN Raiz
       ELSE IF hijos = {} \/ (Len(p) > 1 /\ abuelos \cap {Raiz, 1} # {}) THEN Nulo
       ELSE Min(hijos)

\* extraer_nodo answers no node for the root, which ends the whole search; a
\* path of one name is the first node with that name, under any parent.
buscar_archivo(p) ==
    LET hijos == buscar(Last(p))
        ronda[k \in 0..Len(p) - 1] ==
            IF k = 0 THEN [h \in hijos |-> h]
            ELSE LET antes == ronda[k - 1]
                     padres == [h \in DOMAIN antes |-> extraer_nodo(Padre(antes[h]))] IN
                 IF Nulo \in Range(padres) THEN <<>>
                 ELSE Restrict(padres, {h \in DOMAIN padres :
                                          Nombre(padres[h]) = p[Len(p) - k]})
        fin == ronda[Len(p) - 1]
    IN IF p = <<>> THEN Raiz
       ELSE IF hijos = {} THEN Nulo
       ELSE IF Len(p) = 1 THEN extraer_nodo(Min(hijos))
       ELSE IF Cardinality(DOMAIN fin) = 1 /\ \A h \in DOMAIN fin : Padre(fin[h]) = Raiz
       THEN extraer_nodo(Min(DOMAIN fin))
       ELSE Nulo

\* What the kernel of the client learns from sac_getattr.
EsDirectorio(p) == buscar_archivo(p) # Nulo /\ Estado(buscar_archivo(p)) = "DIRECTORIO"
EsArchivo(p) == buscar_archivo(p) # Nulo /\ Estado(buscar_archivo(p)) = "OCUPADO"
Alcanzable(p) == \A k \in 0..Len(p) - 1 : EsDirectorio(SubSeq(p, 1, k))

(***************************************************************************)
(* The operations.                                                         *)
(***************************************************************************)
buscar_nodo_libre == {n \in Nodos : Estado(n) = "BORRADO"}

\* A request of a client, while the bound lasts.
Pedido == en_pie /\ pedidos < MaxPedidos /\ pedidos' = pedidos + 1

CrearElemento(p, estado) ==
    LET padre == buscar_archivo(Front(p))
        libre == Min(buscar_nodo_libre)
    IN /\ Pedido /\ Alcanzable(p)
       /\ buscar_archivo(p) = Nulo
       /\ padre # Nulo /\ Estado(padre) = "DIRECTORIO"
       /\ buscar_nodo_libre # {}
       /\ tabla_nodos' = [tabla_nodos EXCEPT ![libre] = crear_nodo(estado, Last(p), padre)]
       /\ UNCHANGED <<disco, en_pie>>

\* The node n and the disk as the operation left them, unless it crashed.
Dejar(n, d) ==
    IF d.ok
    THEN /\ tabla_nodos' = [tabla_nodos EXCEPT ![n].tam_archivo = d.tam,
                                               ![n].simple_indirect = d.ind]
         /\ bitmap' = d.usados /\ ptr_direct' = d.ptr /\ datos' = d.datos
         /\ UNCHANGED en_pie
    ELSE en_pie' = FALSE /\ UNCHANGED <<tabla_nodos, disco>>

EscribirArchivo(p, c, off) ==
    LET n == buscar_archivo(p) IN
    /\ Pedido /\ Alcanzable(p) /\ EsArchivo(p)
    /\ Max({off, tabla_nodos[n].tam_archivo}) + Len(c) <= MaxTam
    /\ Dejar(n, escribir_archivo(Archivo(n), c, off))

TruncarArchivo(p, off) ==
    LET n == buscar_archivo(p) IN
    /\ Pedido /\ Alcanzable(p) /\ EsArchivo(p)
    /\ off + tabla_nodos[n].tam_archivo <= MaxTam
    /\ Dejar(n, truncar_archivo_por_nodo(Archivo(n), off))

\* Reading changes nothing, but a bad pointer brings the server down.
LeerArchivo(p, cant, off) ==
    LET n == buscar_archivo(p) IN
    /\ Pedido /\ Alcanzable(p) /\ EsArchivo(p)
    /\ ~leer_archivo(Archivo(n), cant, off).ok
    /\ en_pie' = FALSE /\ UNCHANGED <<tabla_nodos, disco>>

\* The node of a file that borrar_archivo_por_nodo or a directory erases.
NodoBorrado == crear_nodo("BORRADO", "", Raiz)

BorrarArchivo(p) ==
    LET n == buscar_archivo(p)
        d == borrar_archivo_por_nodo(Archivo(n))
    IN /\ Pedido /\ Alcanzable(p) /\ EsArchivo(p)
       /\ tabla_nodos' = [tabla_nodos EXCEPT ![n] = [NodoBorrado EXCEPT
                                                       !.simple_indirect = d.ind]]
       /\ bitmap' = d.usados /\ ptr_direct' = d.ptr
       /\ UNCHANGED <<datos, en_pie>>

Contenidos_UnNivel(n) == {m \in Vivos : Padre(m) = n}

\* What is inside n, inside its directories, and so on: the smallest set that
\* holds the elements of n and of every directory in the set.
Contenidos(n) ==
    LET Cerrado(S) == \A m \in Vivos :
            Padre(m) \in S \cup {n} /\ Estado(Padre(m)) = "DIRECTORIO" => m \in S
    IN {m \in Nodos : \A S \in SUBSET Nodos : Cerrado(S) => m \in S}

\* The recursion of borrar_directorio_por_nodo does not end in a directory
\* that is inside itself.
BorrarDirectorio(p) ==
    LET n == buscar_archivo(p)
        todos == {n} \cup Contenidos(n)
        Borrado(m) == borrar_archivo_por_nodo(Archivo(m))
        enDisco == todos \cap Archivos
    IN /\ Pedido /\ Alcanzable(p) /\ EsDirectorio(p)
       /\ IF n \in Contenidos(n) THEN en_pie' = FALSE /\ UNCHANGED <<tabla_nodos, disco>>
          ELSE /\ tabla_nodos' = [m \in Nodos |->
                    IF m \notin todos THEN tabla_nodos[m]
                    ELSE [NodoBorrado EXCEPT !.simple_indirect = Borrado(m).ind]]
               /\ bitmap' = bitmap \ UNION {bitmap \ Borrado(m).usados : m \in enDisco}
               /\ ptr_direct' = [b \in Bloques |-> [j \in Directos |->
                    IF \E m \in enDisco : Borrado(m).ptr[b][j] = 0 THEN 0
                    ELSE ptr_direct[b][j]]]
               /\ UNCHANGED <<datos, en_pie>>

\* The new name may belong to another element of the same kind.
Renombrar(viejo, nuevo) ==
    LET n == buscar_archivo(viejo)
        padre == buscar_archivo(Front(nuevo))
    IN /\ Pedido /\ Alcanzable(viejo) /\ Alcanzable(nuevo)
       /\ ~IsPrefix(viejo, nuevo) /\ ~IsPrefix(nuevo, viejo)
       /\ EsDirectorio(viejo) => ~EsArchivo(nuevo)
       /\ EsArchivo(viejo) => ~EsDirectorio(nuevo)
       /\ n # Nulo /\ padre # Nulo
       /\ tabla_nodos' = [tabla_nodos EXCEPT ![n].nombre_archivo = Last(nuevo),
                                             ![n].bloque_padre = padre]
       /\ UNCHANGED <<disco, en_pie>>

Next ==
    \/ \E p \in Caminos, e \in {"OCUPADO", "DIRECTORIO"} : CrearElemento(p, e)
    \/ \E p \in Caminos, c \in Textos, off \in Offsets : EscribirArchivo(p, c, off)
    \/ \E p \in Caminos, off \in Tamanios : TruncarArchivo(p, off)
    \/ \E p \in Caminos, off \in Offsets : LeerArchivo(p, MaxTam, off)
    \/ \E p \in Caminos : BorrarArchivo(p)
    \/ \E p \in Caminos : BorrarDirectorio(p)
    \/ \E p, q \in Caminos : Renombrar(p, q)

Spec == Init /\ [][Next]_vars

-----------------------------------------------------------------------------
(***************************************************************************)
(* Correctness.                                                            *)
(***************************************************************************)

\* Every variable holds values of its C type, pointers stay on the disk, and what
\* is kept of a search that failed is the first pointer of a block of them.
TipoOK ==
    /\ tabla_nodos \in [Nodos ->
         [estado : {"BORRADO", "OCUPADO", "DIRECTORIO"}, nombre_archivo : Nombres \cup {"", "/"},
          bloque_padre : Nodos, tam_archivo : 0..MaxTam,
          simple_indirect : [Indirectos -> {0} \cup Bloques]]]
    /\ bitmap \subseteq Bloques
    /\ ptr_direct \in [Bloques -> [Directos -> Punteros]]
    /\ \A b \in Bloques, j \in Directos : ptr_direct[b][j] = -1 => j = 0
    /\ DOMAIN datos = Bloques /\ \A b \in Bloques : DOMAIN datos[b] = Bytes
    /\ en_pie \in BOOLEAN
    /\ pedidos \in 0..MaxPedidos

\* Where the files keep a block: <<n, i, -1>> is a block of pointers of node n,
\* <<n, i, j>> the data block of its j-th pointer.
Lugares ==
    {<<n, i, -1>> : n \in Archivos, i \in Indirectos}
      \cup {<<n, i, j>> : n \in Archivos, i \in Indirectos, j \in Directos}
BloqueEn(l) ==
    LET ind == tabla_nodos[l[1]].simple_indirect[l[2]] IN
    IF ind = 0 \/ l[3] = -1 THEN ind ELSE ptr_direct[ind][l[3]]
EnUso == {l \in Lugares : BloqueEn(l) \in Bloques}

\* A block that a file uses is marked in the bitmap, so that no search of a
\* free block finds it, and it is in one place of one file: through full disks,
\* truncations, deletions and files that were lengthened over their own blocks.
BloqueDeUno ==
    /\ \A l \in EnUso : BloqueEn(l) \in bitmap
    /\ \A l, m \in EnUso : BloqueEn(l) = BloqueEn(m) => l = m

\* The parent of each file and directory is a directory that exists: erasing a
\* directory leaves nothing inside it behind, whatever the searches found.
SinHuerfanos ==
    \A n \in Vivos : Padre(n) \in Vivos /\ Estado(Padre(n)) = "DIRECTORIO"

\* The path of a node, when its parents lead to the root.
Ancestro(n) ==
    LET sube[k \in Nodos] == IF k = 0 THEN n ELSE Padre(sube[k - 1]) IN sube
Cuelga(n) == \E k \in Nodos : Ancestro(n)[k] = Raiz
CaminoDe(n) ==
    LET alto == Min({k \in Nodos : Ancestro(n)[k] = Raiz})
    IN [x \in 1..alto |-> Nombre(Ancestro(n)[alto - x])]

NombresDistintos == \A n, m \in Vivos : Nombre(n) = Nombre(m) => n = m

\* While no name is used twice in the whole disk, buscar_archivo finds by its
\* path every element that hangs from the root, after any creations, moves of
\* directories and deletions.
BusquedaCorrecta ==
    NombresDistintos =>
        \A n \in Vivos : Cuelga(n) => buscar_archivo(CaminoDe(n)) = n

\* The size of a file, and the bytes of each of its data blocks.
Guardado(n) ==
    <<tabla_nodos[n].tam_archivo,
      [l \in Indirectos \X Directos |->
         IF <<n, l[1], l[2]>> \in EnUso THEN datos[BloqueEn(<<n, l[1], l[2]>>)] ELSE <<>>]>>

\* An operation changes the size or the bytes of one file at most.
UnoALaVez ==
    [][Cardinality({n \in Archivos : Estado(n)' = "OCUPADO"
                                   /\ Guardado(n)' # Guardado(n)}) <= 1]_vars

\* A file whose size and whose pointers agree: one data block for each block of
\* its size, in order, and as many blocks of pointers as these need.
Sano(n) ==
    LET f == tabla_nodos[n]
        cuantos == cant_bloques_necesaria(f.tam_archivo)
    IN /\ Visitados(Archivo(n), 0) = 0..cuantos - 1
       /\ \A l \in EnUso : l[1] = n => /\ l[2] * CANT_DIRECTOS < cuantos
                                        /\ l[2] * CANT_DIRECTOS + l[3] < cuantos
       /\ \A k \in 0..cuantos - 1 : Puntero(Archivo(n), k) \in Bloques
DiscoSano ==
    /\ \A n \in Archivos : Sano(n)
    /\ bitmap = {BloqueEn(l) : l \in EnUso}

\* The disk has the blocks that file n needs to hold c from off on.
BloquesDe(tam) ==
    LET cuantos == cant_bloques_necesaria(tam)
    IN cuantos + (cuantos + CANT_DIRECTOS - 1) \div CANT_DIRECTOS
Cabe(n, c, off) ==
    LET tam == tabla_nodos[n].tam_archivo
    IN BloquesDe(Max({tam, off + Len(c)})) - BloquesDe(tam) <= Cardinality(Bloques \ bitmap)

\* A sound disk stays sound, with every block that no file uses free, unless
\* it fills up or a file is truncated; cutting a file inside a block is safe.
SigueSano ==
    [][DiscoSano =>
        \/ DiscoSano'
        \/ \E p \in Caminos, c \in Textos, off \in Offsets :
              EscribirArchivo(p, c, off) /\ ~Cabe(buscar_archivo(p), c, off)
        \/ \E p \in Caminos, off \in Tamanios :
              /\ TruncarArchivo(p, off)
              /\ off > tabla_nodos[buscar_archivo(p)].tam_archivo \/ EnBloque(off) = 0]_vars

\* The bytes s with c over them from off on.
Pisar(s, c, off) ==
    [x \in 1..Max({Len(s), off + Len(c)}) |-> IF x - off \in DOMAIN c THEN c[x - off] ELSE s[x]]

\* What a client reads of file n after writing c at off.
TrasEscribir(n, c, off) ==
    LET e == escribir_archivo(Archivo(n), c, off) IN leer_archivo(e, e.tam, 0).ret

\* A write to a sound file, inside one block of pointers and not beyond the
\* end, is what a client reads afterwards, and nothing else of the file changes.
EscrituraEntera ==
    DiscoSano =>
        \A n \in Archivos, c \in Textos, off \in Offsets :
            LET tam == tabla_nodos[n].tam_archivo IN
            /\ off <= tam /\ tam + Len(c) <= MaxTam /\ Cabe(n, c, off)
            /\ Indirecto(NroBloque(off)) = Indirecto(NroBloque(off + Len(c) - 1))
            => TrasEscribir(n, c, off) = Pisar(Contenido(n), c, off)

\* What truncar_archivo is for: the bytes written at the end of a file, on a
\* disk with room for them, are the bytes that are read there.
EscrituraSeLee ==
    \A n \in Archivos, c \in Textos :
        LET tam == tabla_nodos[n].tam_archivo IN
        tam + Len(c) <= MaxTam /\ Cabe(n, c, tam) =>
            LET leido == TrasEscribir(n, c, tam)
            IN Len(leido) = tam + Len(c) /\ SubSeq(leido, tam + 1, tam + Len(c)) = c

\* crear_elemento creates an element when the search does not find it: what is in
\* a directory is found by its path.
ExistenteSeEncuentra ==
    \A n \in Vivos : Cuelga(n) => buscar_archivo(CaminoDe(n)) # Nulo
=============================================================================
