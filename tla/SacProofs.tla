------------------------------ MODULE SacProofs ------------------------------
(***************************************************************************)
(* What holds of the SAC disk for any number of nodes, names, paths, blocks*)
(* and bytes.  First the directories: the proofs look at the states and    *)
(* the parents of the nodes, and of the operations on blocks they only     *)
(* need that these change the size and the pointers of one node (Dejar).   *)
(* Then the blocks: those of one file through each operation of            *)
(* SacBloques, which touches no block of the others (Sigue); those of all  *)
(* the files through each step (PasoBien); and what a step changes.  Last  *)
(* the search of a node, round by round.                                   *)
(***************************************************************************)
EXTENDS SacDisco, Minimos, FiniteSetTheorems

Campos == {"estado", "nombre_archivo", "bloque_padre", "tam_archivo", "simple_indirect"}

\* The parents of a table t of nodes: the root is a directory, its own parent (no
\* path of an element leads to it), and the parent of each element is a directory.
\* It need not be a tree: a directory may have been moved into itself.
PadresOK(t) ==
  /\ DOMAIN t = Nodos /\ \A n \in Nodos : DOMAIN t[n] = Campos
  /\ t[Raiz].estado = "DIRECTORIO" /\ t[Raiz].bloque_padre = Raiz
  /\ \A n \in Nodos : t[n].estado # "BORRADO" =>
       t[n].bloque_padre \in Nodos /\ t[t[n].bloque_padre].estado = "DIRECTORIO"

\* The strengthening of SinHuerfanos that every step keeps.
IInv == PadresOK(tabla_nodos)

(***************************************************************************)
(* What the operators answer.                                              *)
(***************************************************************************)

\* extraer_nodo never answers the root.
LEMMA Extraido ==
  ASSUME NEW n
  PROVE  extraer_nodo(n) \in (Nodos \ {Raiz}) \cup {Nulo}
  BY DEF extraer_nodo

\* The root is a node, and no node is none.
LEMMA RaizYNulo == Raiz \in Nodos /\ Nulo \notin Nodos
  <1>1. MAX_FILE_COUNT \in Nat \ {0, 1}
    BY SacDiscoConstantes, Zenon
  <1>2. QED
    BY <1>1 DEF Nulo, Raiz, Nodos

\* A search answers a node of the table or none, and the root for "/" only.
LEMMA Buscado ==
  ASSUME NEW p
  PROVE  /\ buscar_archivo(p) \in Nodos \cup {Nulo}
         /\ p # <<>> => buscar_archivo(p) # Raiz
  <1>1. Raiz \in Nodos /\ Raiz # Nulo
    BY RaizYNulo
  <1>2. \/ buscar_archivo(p) = Raiz /\ p = <<>>
        \/ buscar_archivo(p) = Nulo
        \/ \E n : buscar_archivo(p) = extraer_nodo(n)
    BY Zenon DEF buscar_archivo
  <1>3. QED
    BY <1>1, <1>2, Extraido

\* The first free node is a node that is free.
LEMMA NodoLibre ==
  ASSUME buscar_nodo_libre # {}
  PROVE  Min(buscar_nodo_libre) \in Nodos /\ Estado(Min(buscar_nodo_libre)) = "BORRADO"
  <1>1. buscar_nodo_libre \in SUBSET Nat
    BY DEF buscar_nodo_libre, Nodos
  <1>2. Min(buscar_nodo_libre) \in buscar_nodo_libre
    BY <1>1, PrimeroEsta
  <1>3. QED
    BY <1>2 DEF buscar_nodo_libre

(***************************************************************************)
(* What keeps the parents of a table.                                      *)
(***************************************************************************)

\* The fields that PadresOK looks at did not change.
LEMMA MismosPadres ==
  ASSUME NEW t, NEW u, PadresOK(t), DOMAIN u = Nodos,
         \A m \in Nodos : /\ DOMAIN u[m] = Campos
                         /\ u[m].estado = t[m].estado
                         /\ u[m].bloque_padre = t[m].bloque_padre
  PROVE  PadresOK(u)
  BY RaizYNulo DEF PadresOK

\* A free node, which is nobody's parent, is filled below a directory.
LEMMA ConHijo ==
  ASSUME NEW t, NEW u, PadresOK(t), NEW libre \in Nodos, NEW padre \in Nodos, NEW nodo,
         t[libre].estado = "BORRADO", t[padre].estado = "DIRECTORIO",
         DOMAIN nodo = Campos, nodo.bloque_padre = padre,
         u = [t EXCEPT ![libre] = nodo]
  PROVE  PadresOK(u)
  <1>1. DOMAIN u = Nodos /\ u[libre] = nodo /\ \A n \in Nodos \ {libre} : u[n] = t[n]
    BY DEF PadresOK
  <1>2. padre # libre /\ u[padre].estado = "DIRECTORIO"
    BY <1>1
  <1>3. libre # Raiz
    BY DEF PadresOK
  <1>4. ASSUME NEW n \in Nodos, u[n].estado # "BORRADO"
        PROVE  u[n].bloque_padre \in Nodos /\ u[u[n].bloque_padre].estado = "DIRECTORIO"
    <2>1. CASE n = libre
      BY <1>1, <1>2, <2>1
    <2>2. CASE n # libre
      <3>1. t[n].bloque_padre \in Nodos /\ t[t[n].bloque_padre].estado = "DIRECTORIO"
        BY <1>1, <1>4, <2>2 DEF PadresOK
      <3>2. QED
        BY <1>1, <2>2, <3>1
    <2>3. QED
      BY <2>1, <2>2
  <1>5. QED
    BY <1>1, <1>3, <1>4, RaizYNulo DEF PadresOK

\* The nodes of todos are erased, with everything that hangs from them.
LEMMA SinRama ==
  ASSUME NEW t, NEW u, PadresOK(t), NEW todos \in SUBSET Nodos, Raiz \notin todos,
         \A n \in Nodos \ todos :
            t[n].estado # "BORRADO" => t[n].bloque_padre \notin todos,
         DOMAIN u = Nodos,
         \A n \in todos : DOMAIN u[n] = Campos /\ u[n].estado = "BORRADO",
         \A n \in Nodos \ todos : u[n] = t[n]
  PROVE  PadresOK(u)
  <1>1. ASSUME NEW n \in Nodos, u[n].estado # "BORRADO"
        PROVE  u[n].bloque_padre \in Nodos /\ u[u[n].bloque_padre].estado = "DIRECTORIO"
    <2>1. n \notin todos /\ u[n] = t[n]
      BY <1>1
    <2>2. t[n].bloque_padre \in Nodos /\ t[t[n].bloque_padre].estado = "DIRECTORIO"
      BY <1>1, <2>1 DEF PadresOK
    <2>3. QED
      BY <1>1, <2>1, <2>2
  <1>2. u[Raiz].estado = "DIRECTORIO" /\ u[Raiz].bloque_padre = Raiz
    BY RaizYNulo DEF PadresOK
  <1>3. \A n \in Nodos : DOMAIN u[n] = Campos
    BY DEF PadresOK
  <1>4. QED
    BY <1>1, <1>2, <1>3 DEF PadresOK

(***************************************************************************)
(* The steps.                                                              *)
(***************************************************************************)
LEMMA IInvInicial == Init => IInv
  <1> SUFFICES ASSUME Init PROVE PadresOK(tabla_nodos)
    BY DEF IInv
  <1>1. Raiz \in Nodos
    BY RaizYNulo
  <1>2. DOMAIN tabla_nodos = Nodos /\ \A n \in Nodos : DOMAIN tabla_nodos[n] = Campos
    BY DEF Init, Campos, crear_nodo
  <1>3. tabla_nodos[Raiz].estado = "DIRECTORIO" /\ tabla_nodos[Raiz].bloque_padre = Raiz
    BY <1>1 DEF Init, crear_nodo
  <1>4. \A n \in Nodos : tabla_nodos[n].estado # "BORRADO" => n = Raiz
    BY DEF Init, crear_nodo
  <1>5. QED
    BY <1>1, <1>2, <1>3, <1>4 DEF PadresOK

\* A new element goes to a free node, below a directory.
LEMMA PasoCrear ==
  ASSUME IInv, NEW p, NEW estado, CrearElemento(p, estado)
  PROVE  IInv'
  <1> DEFINE padre == buscar_archivo(Front(p))
             libre == Min(buscar_nodo_libre)
             nodo == crear_nodo(estado, Last(p), padre)
  <1>1. /\ buscar_nodo_libre # {} /\ padre # Nulo /\ Estado(padre) = "DIRECTORIO"
        /\ tabla_nodos' = [tabla_nodos EXCEPT ![libre] = nodo]
    BY Zenon DEF CrearElemento
  <1>2. libre \in Nodos /\ tabla_nodos[libre].estado = "BORRADO"
    BY <1>1, NodoLibre, Zenon DEF Estado
  <1>3. padre \in Nodos /\ tabla_nodos[padre].estado = "DIRECTORIO"
    BY <1>1, Buscado DEF Estado
  <1>4. DOMAIN nodo = Campos /\ nodo.bloque_padre = padre
    BY DEF crear_nodo, Campos
  <1> HIDE DEF padre, libre, nodo
  <1>5. QED
    BY <1>1, <1>2, <1>3, <1>4, ConHijo DEF IInv

\* A write or a truncation, whatever it does to the disk, leaves the tree alone.
LEMMA PasoDejar ==
  ASSUME IInv, NEW n, NEW d, Dejar(n, d)
  PROVE  IInv'
  <1>1. CASE tabla_nodos' = tabla_nodos
    BY <1>1 DEF IInv
  <1>2. CASE tabla_nodos' = [tabla_nodos EXCEPT ![n].tam_archivo = d.tam,
                                                ![n].simple_indirect = d.ind]
    <2>1. DOMAIN tabla_nodos' = Nodos
      BY <1>2 DEF IInv, PadresOK
    <2>2. \A m \in Nodos : /\ DOMAIN tabla_nodos'[m] = Campos
                           /\ tabla_nodos'[m].estado = tabla_nodos[m].estado
                           /\ tabla_nodos'[m].bloque_padre = tabla_nodos[m].bloque_padre
      BY <1>2 DEF IInv, PadresOK, Campos
    <2>3. QED
      BY <2>1, <2>2, MismosPadres DEF IInv
  <1>3. QED
    BY <1>1, <1>2, Zenon DEF Dejar

\* No directory's parent is the file that is erased: parents are directories.
LEMMA PasoBorrarArchivo ==
  ASSUME IInv, NEW p, BorrarArchivo(p)
  PROVE  IInv'
  <1> DEFINE n == buscar_archivo(p)
             nodo == [NodoBorrado EXCEPT !.simple_indirect = borrar_archivo_por_nodo(Archivo(n)).ind]
  <1>1. /\ n # Nulo /\ Estado(n) = "OCUPADO"
        /\ tabla_nodos' = [tabla_nodos EXCEPT ![n] = nodo]
    BY Zenon DEF BorrarArchivo, EsArchivo
  <1>2. n \in Nodos /\ tabla_nodos[n].estado = "OCUPADO"
    BY <1>1, Buscado DEF Estado
  <1>3. DOMAIN nodo = Campos /\ nodo.estado = "BORRADO"
    BY DEF NodoBorrado, crear_nodo, Campos
  <1> HIDE DEF n, nodo
  <1>4. /\ DOMAIN tabla_nodos' = Nodos /\ tabla_nodos'[n] = nodo
        /\ \A m \in Nodos \ {n} : tabla_nodos'[m] = tabla_nodos[m]
    BY <1>1, <1>2 DEF IInv, PadresOK
  <1>5. /\ Raiz \notin {n} /\ {n} \in SUBSET Nodos
        /\ \A m \in Nodos \ {n} : tabla_nodos[m].estado # "BORRADO" =>
              tabla_nodos[m].bloque_padre \notin {n}
    BY <1>2 DEF IInv, PadresOK
  <1>6. \A m \in {n} : DOMAIN tabla_nodos'[m] = Campos /\ tabla_nodos'[m].estado = "BORRADO"
    BY <1>3, <1>4
  <1>7. QED
    BY <1>4, <1>5, <1>6, SinRama, ZenonT(60) DEF IInv

\* What is inside n holds the elements of its directories, and never the root.
LEMMA DentroCerrado ==
  ASSUME IInv, NEW n \in Nodos \ {Raiz}
  PROVE  /\ Contenidos(n) \in SUBSET (Nodos \ {Raiz})
         /\ \A m \in Nodos :
              /\ tabla_nodos[m].estado # "BORRADO"
              /\ tabla_nodos[m].bloque_padre \in {n} \cup Contenidos(n)
              => m \in Contenidos(n)
  <1> DEFINE Cerrado(S) == \A m \in Vivos :
               Padre(m) \in S \cup {n} /\ Estado(Padre(m)) = "DIRECTORIO" => m \in S
  <1>1. \A m : m \in Contenidos(n) <=>
                 m \in Nodos /\ \A S \in SUBSET Nodos : Cerrado(S) => m \in S
    BY Zenon DEF Contenidos
  <1>2. Cerrado(Nodos \ {Raiz})
    BY DEF IInv, PadresOK, Vivos, Padre
  <1>3. ASSUME NEW m \in Contenidos(n) PROVE m \in Nodos \ {Raiz}
    BY <1>1, <1>2
  <1>4. ASSUME NEW m \in Nodos, tabla_nodos[m].estado # "BORRADO",
               tabla_nodos[m].bloque_padre \in {n} \cup Contenidos(n),
               NEW S \in SUBSET Nodos, Cerrado(S)
        PROVE  m \in S
    <2>1. m \in Vivos /\ Padre(m) \in {n} \cup Contenidos(n)
      BY <1>4 DEF Vivos, Padre, Estado
    <2>2. Estado(Padre(m)) = "DIRECTORIO"
      BY <1>4 DEF IInv, PadresOK, Padre, Estado
    <2>3. Padre(m) \in S \cup {n}
      BY <1>1, <1>4, <2>1
    <2>4. QED
      BY <1>4, <2>1, <2>2, <2>3
  <1> HIDE DEF Cerrado
  <1>5. QED
    BY <1>1, <1>3, <1>4

\* The nodes that are erased are the directory and all that hangs from it.
LEMMA PasoBorrarDirectorio ==
  ASSUME IInv, NEW p \in Caminos, BorrarDirectorio(p)
  PROVE  IInv'
  <1> DEFINE n == buscar_archivo(p)
             todos == {n} \cup Contenidos(n)
             nodo(m) == [NodoBorrado EXCEPT
                           !.simple_indirect = borrar_archivo_por_nodo(Archivo(m)).ind]
             tras == [m \in Nodos |-> IF m \notin todos THEN tabla_nodos[m] ELSE nodo(m)]
  <1>1. n # Nulo /\ (tabla_nodos' = tabla_nodos \/ tabla_nodos' = tras)
    BY Zenon DEF BorrarDirectorio, EsDirectorio
  <1>2. p # <<>>
    BY SacDiscoConstantes, Zenon
  <1>3. n \in Nodos \ {Raiz}
    BY <1>1, <1>2, Buscado
  <1>4. \A m : DOMAIN nodo(m) = Campos /\ nodo(m).estado = "BORRADO"
    BY DEF NodoBorrado, crear_nodo, Campos
  <1> HIDE DEF n, nodo
  <1>5. todos \in SUBSET Nodos /\ Raiz \notin todos
    BY <1>3, DentroCerrado
  <1>6. \A m \in Nodos \ todos : tabla_nodos[m].estado # "BORRADO" =>
                                    tabla_nodos[m].bloque_padre \notin todos
    BY <1>3, DentroCerrado
  <1>7. /\ DOMAIN tras = Nodos
        /\ \A m \in todos : DOMAIN tras[m] = Campos /\ tras[m].estado = "BORRADO"
        /\ \A m \in Nodos \ todos : tras[m] = tabla_nodos[m]
    BY <1>4, <1>5
  <1> HIDE DEF todos, tras
  <1>8. PadresOK(tras)
    BY <1>5, <1>6, <1>7, SinRama DEF IInv
  <1>9. QED
    BY <1>1, <1>8 DEF IInv

\* What the kernel has looked up before a move is a directory.
LEMMA PasoRenombrar ==
  ASSUME IInv, NEW viejo \in Caminos, NEW nuevo \in Caminos, Renombrar(viejo, nuevo)
  PROVE  IInv'
  <1> DEFINE n == buscar_archivo(viejo)
             padre == buscar_archivo(Front(nuevo))
  <1>1. /\ n # Nulo /\ padre # Nulo /\ Alcanzable(nuevo)
        /\ tabla_nodos' = [tabla_nodos EXCEPT ![n].nombre_archivo = Last(nuevo),
                                              ![n].bloque_padre = padre]
    BY Zenon DEF Renombrar
  <1>2. nuevo \in Seq(Nombres) /\ nuevo # <<>> /\ viejo # <<>>
    BY SacDiscoConstantes, Zenon
  <1>3. n \in Nodos \ {Raiz} /\ padre \in Nodos
    BY <1>1, <1>2, Buscado
  <1>4. tabla_nodos[padre].estado = "DIRECTORIO"
    <2>1. Len(nuevo) - 1 \in 0..Len(nuevo) - 1
      BY <1>2
    <2>2. EsDirectorio(SubSeq(nuevo, 1, Len(nuevo) - 1))
      BY <1>1, <2>1, Zenon DEF Alcanzable
    <2>3. QED
      BY <2>2, Zenon DEF EsDirectorio, Front, Estado
  <1> HIDE DEF n, padre
  <1>5. /\ DOMAIN tabla_nodos' = Nodos
        /\ \A m \in Nodos \ {n} : tabla_nodos'[m] = tabla_nodos[m]
        /\ DOMAIN tabla_nodos'[n] = Campos
        /\ tabla_nodos'[n].estado = tabla_nodos[n].estado
        /\ tabla_nodos'[n].bloque_padre = padre
    BY <1>1, <1>3 DEF IInv, PadresOK, Campos
  <1>6. \A m \in Nodos : /\ DOMAIN tabla_nodos'[m] = Campos
                         /\ tabla_nodos'[m].estado = tabla_nodos[m].estado
    BY <1>5 DEF IInv, PadresOK
  <1>7. \A m \in Nodos : tabla_nodos'[m].estado # "BORRADO" =>
           /\ tabla_nodos'[m].bloque_padre \in Nodos
           /\ tabla_nodos'[tabla_nodos'[m].bloque_padre].estado = "DIRECTORIO"
    BY <1>3, <1>4, <1>5, <1>6 DEF IInv, PadresOK
  <1>8. tabla_nodos'[Raiz].estado = "DIRECTORIO" /\ tabla_nodos'[Raiz].bloque_padre = Raiz
    BY <1>3, <1>5, RaizYNulo DEF IInv, PadresOK
  <1>9. QED
    BY <1>5, <1>6, <1>7, <1>8 DEF IInv, PadresOK

\* Every step keeps the parents.
LEMMA IInvInductivo == IInv /\ [Next]_vars => IInv'
  <1> SUFFICES ASSUME IInv, [Next]_vars PROVE IInv'
    OBVIOUS
  <1>1. ASSUME NEW p \in Caminos, NEW e \in {"OCUPADO", "DIRECTORIO"}, CrearElemento(p, e)
        PROVE  IInv'
    BY <1>1, PasoCrear
  <1>2. ASSUME NEW p \in Caminos, NEW c \in Textos, NEW off \in Offsets,
               EscribirArchivo(p, c, off)
        PROVE  IInv'
    BY <1>2, PasoDejar DEF EscribirArchivo
  <1>3. ASSUME NEW p \in Caminos, NEW off \in Tamanios, TruncarArchivo(p, off)
        PROVE  IInv'
    BY <1>3, PasoDejar DEF TruncarArchivo
  <1>4. ASSUME NEW p \in Caminos, NEW off \in Offsets, LeerArchivo(p, MaxTam, off)
        PROVE  IInv'
    BY <1>4 DEF LeerArchivo, IInv
  <1>5. ASSUME NEW p \in Caminos, BorrarArchivo(p) PROVE IInv'
    BY <1>5, PasoBorrarArchivo
  <1>6. ASSUME NEW p \in Caminos, BorrarDirectorio(p) PROVE IInv'
    BY <1>6, PasoBorrarDirectorio
  <1>7. ASSUME NEW p \in Caminos, NEW q \in Caminos, Renombrar(p, q) PROVE IInv'
    BY <1>7, PasoRenombrar
  <1>8. CASE UNCHANGED vars
    BY <1>8 DEF vars, IInv
  <1>9. QED
    BY <1>1, <1>2, <1>3, <1>4, <1>5, <1>6, <1>7, <1>8 DEF Next

(***************************************************************************)
(* The theorems on directories.                                            *)
(***************************************************************************)

\* In every reachable disk each element is inside a directory, and the root stays
\* one: nothing erases it, moves it or gives its node to a new element.
THEOREM Invariante == Spec => []IInv
  <1>1. QED
    BY IInvInicial, IInvInductivo, PTL DEF Spec

\* The parent of each file and directory is a directory that exists, for any
\* table, any names and any requests: borrar_directorio leaves no orphans.
THEOREM SinHuerfanosSiempre == Spec => []SinHuerfanos
  <1>1. IInv => SinHuerfanos
    BY DEF IInv, PadresOK, SinHuerfanos, Vivos, Padre, Estado
  <1>2. QED
    BY <1>1, Invariante, PTL

(***************************************************************************)
(* The blocks of one file.  A place of a file is a pair <<i, j>>: the i-th *)
(* block of pointers (j = -1) or the j-th block of data under it.          *)
(***************************************************************************)
CamposDisco == {"ind", "tam", "usados", "ptr", "datos", "ok", "ret"}
Columnas == Directos \cup {-1}
Sitio(d, i, j) == IF d.ind[i] = 0 \/ j = -1 THEN d.ind[i] ELSE d.ptr[d.ind[i]][j]

\* A file with the disk under it, with the types of C.
TipoDe(d) ==
    /\ DOMAIN d = CamposDisco
    /\ d.ind \in [Indirectos -> {0} \cup Bloques]
    /\ d.usados \in SUBSET Bloques
    /\ d.ptr \in [Bloques -> [Directos -> Punteros]]
    /\ \A b \in Bloques, j \in Directos : d.ptr[b][j] = -1 => j = 0
    /\ DOMAIN d.datos = Bloques
    /\ \A b \in Bloques : DOMAIN d.datos[b] = Bytes

\* The file keeps each of its blocks in one place, marked in the bitmap, and
\* none of the blocks O, which the other files use.
SitiosUnicos(d) ==
    \A i, h \in Indirectos, j, k \in Columnas :
        Sitio(d, i, j) \in Bloques /\ Sitio(d, i, j) = Sitio(d, h, k) => i = h /\ j = k
Bien(d, O) ==
    /\ TipoDe(d)
    /\ O \subseteq d.usados
    /\ \A i \in Indirectos, j \in Columnas :
          Sitio(d, i, j) \in Bloques => Sitio(d, i, j) \in d.usados \ O
    /\ SitiosUnicos(d)

\* From d to e nothing is written in the blocks O.
Intacto(d, e, O) == \A b \in O : e.ptr[b] = d.ptr[b] /\ e.datos[b] = d.datos[b]

\* No block of the disk has the number of a null pointer or of a failed search.
LEMMA SinBloque == 0 \notin Bloques /\ -1 \notin Bloques /\ -1 \notin Directos /\ 0 \in Directos
  BY SacBloquesConstantes DEF Bloques, Directos

\* buscar_bloque_libre answers a block that is not marked, or -1.
LEMMA LibreEs ==
  ASSUME NEW d
  PROVE  LET b == buscar_bloque_libre(d) IN
         /\ b \in (Bloques \ d.usados) \cup {-1}
         /\ b # -1 => b \in Bloques \ d.usados
  <1>1. CASE Bloques \subseteq d.usados
    BY <1>1 DEF buscar_bloque_libre
  <1>2. CASE ~(Bloques \subseteq d.usados)
    <2>1. Bloques \ d.usados \in SUBSET Nat /\ Bloques \ d.usados # {}
      BY <1>2 DEF Bloques
    <2>2. Min(Bloques \ d.usados) \in Bloques \ d.usados
      BY <2>1, PrimeroEsta
    <2>3. QED
      BY <1>2, <2>2 DEF buscar_bloque_libre
  <1>3. QED
    BY <1>1, <1>2

\* From d to e, the block b goes to the place <<i0, j0>>, and the other places
\* keep their block or lose it.
SoloCambia(d, e, b, i0, j0) ==
    \A i \in Indirectos, j \in Columnas :
        Sitio(e, i, j) \in Bloques =>
            /\ Sitio(e, i, j) \in e.usados
            /\ \/ Sitio(e, i, j) = Sitio(d, i, j)
               \/ i = i0 /\ j = j0 /\ Sitio(e, i, j) = b

\* A place may get a block that was free.
LEMMA UnSitioNuevo ==
  ASSUME NEW d, NEW e, NEW O, NEW b, NEW i0, NEW j0,
         Bien(d, O), TipoDe(e), O \subseteq e.usados, b \notin d.usados,
         SoloCambia(d, e, b, i0, j0)
  PROVE  Bien(e, O)
  <1>0. SitiosUnicos(d)
    BY DEF Bien
  <1>1. b \notin O
    BY DEF Bien
  <1>2. ASSUME NEW i \in Indirectos, NEW j \in Columnas, Sitio(e, i, j) \in Bloques
        PROVE  Sitio(e, i, j) \in e.usados \ O
    BY <1>1, <1>2 DEF Bien, SoloCambia
  <1>3. ASSUME NEW i \in Indirectos, NEW h \in Indirectos, NEW j \in Columnas,
               NEW k \in Columnas, Sitio(e, i, j) \in Bloques, Sitio(e, i, j) = Sitio(e, h, k)
        PROVE  i = h /\ j = k
    <2>1. CASE Sitio(e, i, j) = b
      <3>1. Sitio(d, i, j) # b /\ Sitio(d, h, k) # b
        <4>1. b \in Bloques
          BY <1>3, <2>1
        <4>2. QED
          BY <4>1 DEF Bien
      <3>2. QED
        BY <1>3, <2>1, <3>1 DEF SoloCambia
    <2>2. CASE Sitio(e, i, j) # b
      <3>1. Sitio(e, i, j) = Sitio(d, i, j) /\ Sitio(e, h, k) = Sitio(d, h, k)
        BY <1>3, <2>2 DEF SoloCambia
      <3>2. QED
        <4>1. Sitio(d, i, j) \in Bloques /\ Sitio(d, i, j) = Sitio(d, h, k)
          BY <1>3, <3>1
        <4>2. QED
          BY <1>0, <4>1, Zenon DEF SitiosUnicos
    <2>3. QED
      BY <2>1, <2>2
  <1>4. SitiosUnicos(e)
    BY <1>3 DEF SitiosUnicos
  <1>5. QED
    BY <1>2, <1>4 DEF Bien

\* A field that is not of the disk does not matter.
LEMMA MismoDisco ==
  ASSUME NEW d, NEW e, NEW O, Bien(d, O), DOMAIN e = CamposDisco,
         e.ind = d.ind, e.usados = d.usados, e.ptr = d.ptr, e.datos = d.datos
  PROVE  Bien(e, O) /\ Intacto(d, e, O)
  BY DEF Bien, TipoDe, Sitio, SitiosUnicos, Intacto

\* A block of the file is not of the others.
LEMMA SitioPropio ==
  ASSUME NEW d, NEW O, Bien(d, O), NEW i \in Indirectos, d.ind[i] # 0
  PROVE  /\ d.ind[i] \in d.usados \ O /\ d.ind[i] \in Bloques
         /\ Sitio(d, i, -1) = d.ind[i]
         /\ \A j \in Directos : /\ Sitio(d, i, j) = d.ptr[d.ind[i]][j]
                                /\ d.ptr[d.ind[i]][j] \notin O
                                /\ j \in Columnas
         /\ -1 \in Columnas
  <1>1. d.ind[i] \in Bloques
    BY DEF Bien, TipoDe
  <1>2. Sitio(d, i, -1) = d.ind[i] /\ -1 \in Columnas
    BY DEF Sitio, Columnas
  <1>3. d.ind[i] \in d.usados \ O
    BY <1>1, <1>2 DEF Bien
  <1>4. ASSUME NEW j \in Directos
        PROVE  /\ Sitio(d, i, j) = d.ptr[d.ind[i]][j]
               /\ d.ptr[d.ind[i]][j] \notin O
               /\ j \in Columnas
    <2>1. Sitio(d, i, j) = d.ptr[d.ind[i]][j] /\ j \in Columnas
      BY SinBloque DEF Sitio, Columnas
    <2>2. O \subseteq Bloques
      BY DEF Bien, TipoDe
    <2>3. Sitio(d, i, j) \in Bloques => Sitio(d, i, j) \notin O
      BY <2>1 DEF Bien
    <2>4. QED
      BY <2>1, <2>2, <2>3
  <1>5. QED
    BY <1>1, <1>2, <1>3, <1>4

\* A free block becomes a block of pointers of the file.
LEMMA ConIndirecto ==
  ASSUME NEW d, NEW O, Bien(d, O), NEW i, NEW b \in Bloques \ d.usados,
         NEW e, e = ConBloquePtr(d, i, b)
  PROVE  /\ Bien(e, O) /\ Intacto(d, e, O)
         /\ e.tam = d.tam /\ e.ok = d.ok /\ e.ret = d.ret
         /\ i \in Indirectos => e.ind[i] = b
  <1>1. /\ DOMAIN e = CamposDisco /\ e.tam = d.tam /\ e.ok = d.ok /\ e.ret = d.ret
        /\ e.ind = [d.ind EXCEPT ![i] = b] /\ e.usados = d.usados \cup {b}
        /\ e.ptr = [d.ptr EXCEPT ![b] = [j \in Directos |-> 0]]
        /\ e.datos = [d.datos EXCEPT ![b] = [x \in Bytes |-> Basura]]
    BY DEF ConBloquePtr, Bien, TipoDe, CamposDisco
  <1>2. TipoDe(e)
    <2>1. TipoDe(d)
      BY DEF Bien
    <2>2. e.ind \in [Indirectos -> {0} \cup Bloques] /\ e.usados \in SUBSET Bloques
      <3>1. PICK f \in [Indirectos -> {0} \cup Bloques] : f = d.ind
        BY <2>1 DEF TipoDe
      <3>2. [f EXCEPT ![i] = b] \in [Indirectos -> {0} \cup Bloques]
        OBVIOUS
      <3>3. e.usados \in SUBSET Bloques
        BY <1>1, <2>1 DEF TipoDe
      <3>4. QED
        BY <1>1, <3>1, <3>2, <3>3
    <2>3. e.ptr \in [Bloques -> [Directos -> Punteros]]
      <3>1. [j \in Directos |-> 0] \in [Directos -> Punteros]
        BY DEF Punteros
      <3>2. QED
        BY <1>1, <2>1, <3>1 DEF TipoDe
    <2>4. DOMAIN e.datos = Bloques /\ \A h \in Bloques : DOMAIN e.datos[h] = Bytes
      BY <1>1, <2>1 DEF TipoDe
    <2>5. \A h \in Bloques, j \in Directos : e.ptr[h][j] = -1 => j = 0
      BY <1>1, <2>1 DEF TipoDe
    <2>6. QED
      BY <1>1, <2>2, <2>3, <2>4, <2>5 DEF TipoDe
  <1>3. b \notin O /\ b # 0 /\ b # -1
    BY SinBloque DEF Bien
  <1>4. Intacto(d, e, O)
    BY <1>1, <1>3 DEF Bien, TipoDe, Intacto
  <1>5. ASSUME NEW h \in Indirectos, NEW j \in Columnas, Sitio(e, h, j) \in Bloques
        PROVE  /\ Sitio(e, h, j) \in e.usados
               /\ \/ Sitio(e, h, j) = Sitio(d, h, j)
                  \/ h = i /\ j = -1 /\ Sitio(e, h, j) = b
    <2>1. CASE h = i
      <3>1. e.ind[h] = b
        BY <1>1, <2>1 DEF Bien, TipoDe
      <3>2. ASSUME j # -1 PROVE FALSE
        <4>1. Sitio(e, h, j) = 0
          BY <1>1, <1>3, <3>1, <3>2 DEF Sitio, Columnas, Bien, TipoDe
        <4>2. QED
          BY <1>5, <4>1, SinBloque
      <3>3. QED
        BY <1>1, <2>1, <3>1, <3>2 DEF Sitio
    <2>2. CASE h # i
      <3>1. e.ind[h] = d.ind[h]
        BY <1>1, <2>2 DEF Bien, TipoDe
      <3>2. d.ind[h] # b
        BY <1>3, SitioPropio DEF Bien
      <3>3. d.ind[h] # 0 => e.ptr[d.ind[h]] = d.ptr[d.ind[h]]
        BY <1>1, <3>2, SitioPropio DEF Bien, TipoDe
      <3>4. Sitio(e, h, j) = Sitio(d, h, j)
        BY <3>1, <3>3 DEF Sitio
      <3>5. QED
        BY <1>1, <1>5, <3>4 DEF Bien
    <2>3. QED
      BY <2>1, <2>2
  <1>6. Bien(e, O)
    <2>1. O \subseteq e.usados
      BY <1>1 DEF Bien
    <2>2. SoloCambia(d, e, b, i, -1)
      BY <1>5 DEF SoloCambia
    <2>3. QED
      BY <1>2, <2>1, <2>2, UnSitioNuevo
  <1>7. QED
    BY <1>1, <1>4, <1>6 DEF Bien, TipoDe

\* Dividing and what is left.
LEMMA Entre ==
  ASSUME NEW k \in Nat, NEW c \in Nat \ {0}
  PROVE  /\ k = (k \div c) * c + (k % c)
         /\ k \div c \in Nat /\ k % c \in Nat /\ k % c < c /\ k \div c <= k
  OBVIOUS

\* A position below a rows of c columns is in one of the rows.
LEMMA EntreAcotado ==
  ASSUME NEW k \in Nat, NEW c \in Nat \ {0}, NEW a \in Nat, k < a * c
  PROVE  k \div c \in 0..a - 1
  <1>1. PICK q \in Nat, r \in Nat : q = k \div c /\ k = q * c + r /\ r < c
    BY Entre
  <1>2. ASSUME q >= a PROVE FALSE
    <2>1. PICK x \in Nat : q = a + x
      BY <1>2
    <2>2. q * c = a * c + x * c
      BY <2>1
    <2>3. x * c \in Nat /\ a * c \in Nat /\ q * c \in Nat
      OBVIOUS
    <2>4. QED
      BY <1>1, <2>2, <2>3
  <1>3. QED
    BY <1>1, <1>2

\* The data blocks that the file may have, behind a block of pointers.
Propios(d) == {k \in 0..CantDatos - 1 : d.ind[Indirecto(k)] # 0}

\* The place of a data block is a place of the file.
LEMMA PosicionEs ==
  ASSUME NEW k \in 0..CantDatos - 1
  PROVE  Indirecto(k) \in Indirectos /\ Directo(k) \in Directos
  <1>1. CANT_DIRECTOS \in Nat \ {0} /\ CANT_INDIR_SIMPLE \in Nat \ {0}
    BY SacBloquesConstantes
  <1>2. k \in Nat /\ k < CANT_INDIR_SIMPLE * CANT_DIRECTOS
    <2>1. CantDatos \in Nat
      BY <1>1 DEF CantDatos
    <2>2. QED
      BY <2>1 DEF CantDatos
  <1>3. Indirecto(k) \in Indirectos
    BY <1>1, <1>2, EntreAcotado DEF Indirecto, Indirectos
  <1>4. Directo(k) \in Directos
    BY <1>1, <1>2, Entre DEF Directo, Directos
  <1>5. QED
    BY <1>3, <1>4

\* The pointer to a data block of the file is one of its places.
LEMMA PunteroPropio ==
  ASSUME NEW d, NEW O, Bien(d, O), NEW k \in Propios(d)
  PROVE  /\ Indirecto(k) \in Indirectos /\ Directo(k) \in Directos
         /\ Puntero(d, k) = Sitio(d, Indirecto(k), Directo(k))
         /\ Puntero(d, k) \notin O
         /\ d.ind[Indirecto(k)] = Sitio(d, Indirecto(k), -1)
         /\ d.ind[Indirecto(k)] \in Bloques \ O
  <1>1. Indirecto(k) \in Indirectos /\ Directo(k) \in Directos /\ d.ind[Indirecto(k)] # 0
    BY PosicionEs DEF Propios
  <1>2. QED
    BY <1>1, SitioPropio DEF Puntero

\* The double loops stop at the first block of pointers that is missing.
LEMMA VisitadosPropios ==
  ASSUME NEW d, NEW off
  PROVE  Visitados(d, off) \subseteq Propios(d)
  <1>1. ASSUME NEW k \in Visitados(d, off)
        PROVE  k \in Propios(d)
    <2>1. /\ k \in 0..CantDatos - 1 /\ Indirecto(k) >= Indirecto(NroBloque(off))
          /\ \A i \in Indirecto(NroBloque(off))..Indirecto(k) : d.ind[i] # 0
      BY DEF Visitados
    <2>2. Indirecto(k) \in Indirecto(NroBloque(off))..Indirecto(k)
      BY <2>1, PosicionEs DEF Indirectos
    <2>3. QED
      BY <2>1, <2>2 DEF Propios
  <1>2. QED
    BY <1>1

\* From d to e, the j-th pointer of the i-th block of pointers becomes b.
PonePuntero(d, e, O, i, j, b) ==
    /\ DOMAIN e = CamposDisco /\ e.ind = d.ind
    /\ e.ptr = [d.ptr EXCEPT ![d.ind[i]][j] = b]
    /\ d.usados \subseteq e.usados /\ e.usados \subseteq Bloques
    /\ b \in Bloques => b \in e.usados
    /\ DOMAIN e.datos = Bloques /\ \A h \in Bloques : DOMAIN e.datos[h] = Bytes
    /\ \A h \in O : e.datos[h] = d.datos[h]

\* A pointer of the file, that was null or not, gets a free block or a -1.
LEMMA ConDato ==
  ASSUME NEW d, NEW O, Bien(d, O), NEW i \in Indirectos, d.ind[i] # 0, NEW j \in Directos,
         NEW b \in (Bloques \ d.usados) \cup {-1}, b = -1 => j = 0,
         NEW e, PonePuntero(d, e, O, i, j, b)
  PROVE  Bien(e, O) /\ Intacto(d, e, O)
  <1> USE DEF PonePuntero
  <1>0. TipoDe(d) /\ O \subseteq d.usados
    BY DEF Bien
  <1>1. PICK q \in Bloques : q = d.ind[i] /\ q \notin O
    BY SitioPropio
  <1>2. /\ \A h \in Bloques \ {q} : e.ptr[h] = d.ptr[h]
        /\ e.ptr[q][j] = b /\ \A k \in Directos \ {j} : e.ptr[q][k] = d.ptr[q][k]
    BY <1>0, <1>1 DEF TipoDe
  <1>3. TipoDe(e)
    <2>1. b \in Punteros
      BY DEF Punteros
    <2>2. e.ptr \in [Bloques -> [Directos -> Punteros]]
      <3>1. PICK p \in [Bloques -> [Directos -> Punteros]] : p = d.ptr
        BY <1>0 DEF TipoDe
      <3>2. [p EXCEPT ![q][j] = b] \in [Bloques -> [Directos -> Punteros]]
        BY <2>1
      <3>3. QED
        BY <1>1, <3>1, <3>2
    <2>3. QED
      BY <1>0, <2>2 DEF TipoDe
  <1>4. Intacto(d, e, O)
    BY <1>0, <1>1, <1>2 DEF Intacto, TipoDe
  <1>5. b \notin d.usados
    BY <1>0, SinBloque DEF TipoDe
  <1>6. ASSUME NEW h \in Indirectos, NEW k \in Columnas, Sitio(e, h, k) \in Bloques
        PROVE  /\ Sitio(e, h, k) \in e.usados
               /\ \/ Sitio(e, h, k) = Sitio(d, h, k)
                  \/ h = i /\ k = j /\ Sitio(e, h, k) = b
    <2>1. CASE Sitio(e, h, k) = Sitio(d, h, k)
      BY <1>6, <2>1 DEF Bien
    <2>2. CASE Sitio(e, h, k) # Sitio(d, h, k)
      <3>1. d.ind[h] # 0 /\ k # -1 /\ k \in Directos
        BY <2>2 DEF Sitio, Columnas
      <3>2. d.ind[h] \in Bloques /\ Sitio(d, h, -1) = d.ind[h] /\ -1 \in Columnas
        BY <3>1, SitioPropio
      <3>3. Sitio(e, h, k) = e.ptr[d.ind[h]][k] /\ Sitio(d, h, k) = d.ptr[d.ind[h]][k]
        BY <3>1 DEF Sitio
      <3>4. d.ind[h] = q /\ k = j
        BY <1>2, <2>2, <3>1, <3>2, <3>3
      <3>5. h = i
        <4>1. Sitio(d, i, -1) = q
          BY <1>1 DEF Sitio
        <4>2. Sitio(d, h, -1) = q
          BY <3>2, <3>4
        <4>3. SitiosUnicos(d)
          BY DEF Bien
        <4>4. QED
          BY <3>2, <4>1, <4>2, <4>3 DEF SitiosUnicos
      <3>6. Sitio(e, h, k) = b
        BY <1>2, <3>3, <3>4
      <3>7. QED
        BY <1>6, <3>4, <3>5, <3>6
    <2>3. QED
      BY <2>1, <2>2
  <1>7. O \subseteq e.usados
    BY <1>0
  <1>8. Bien(e, O)
    <2>1. SoloCambia(d, e, b, i, j)
      BY <1>6 DEF SoloCambia
    <2>2. QED
      BY <1>3, <1>5, <1>7, <2>1, UnSitioNuevo
  <1>9. QED
    BY <1>4, <1>8

\* Bytes are written in a block that is not of the other files.
LEMMA Copiado ==
  ASSUME NEW d, NEW O, Bien(d, O), NEW b, b \notin O, NEW o, NEW s,
         NEW e, e = Copiar(d, b, o, s)
  PROVE  /\ Bien(e, O) /\ Intacto(d, e, O)
         /\ DOMAIN e = CamposDisco /\ e.tam = d.tam /\ e.ind = d.ind /\ e.ptr = d.ptr
         /\ e.usados = d.usados /\ e.ret = d.ret
         /\ b \in Bloques => e.ok = d.ok
  <1>0. TipoDe(d) /\ DOMAIN d = CamposDisco
    BY DEF Bien, TipoDe
  <1>1. CASE b \notin Bloques
    <2>1. /\ DOMAIN e = CamposDisco /\ e.tam = d.tam /\ e.ind = d.ind /\ e.ptr = d.ptr
          /\ e.usados = d.usados /\ e.ret = d.ret /\ e.datos = d.datos
      BY <1>0, <1>1 DEF Copiar, Caida, CamposDisco
    <2>2. QED
      BY <1>1, <2>1, MismoDisco
  <1>2. CASE b \in Bloques
    <2>1. PICK f : f = [x \in Bytes |-> IF x - o + 1 \in DOMAIN s THEN s[x - o + 1]
                                         ELSE d.datos[b][x]]
      OBVIOUS
    <2>2. DOMAIN f = Bytes
      BY <2>1
    <2>3. /\ DOMAIN e = CamposDisco /\ e.tam = d.tam /\ e.ind = d.ind /\ e.ptr = d.ptr
          /\ e.usados = d.usados /\ e.ret = d.ret /\ e.datos = [d.datos EXCEPT ![b] = f]
          /\ e.ok = d.ok
      BY <1>0, <1>2, <2>1 DEF Copiar, CamposDisco
    <2>4. /\ DOMAIN e.datos = Bloques
          /\ \A h \in Bloques : e.datos[h] = IF h = b THEN f ELSE d.datos[h]
      BY <1>0, <2>3 DEF TipoDe
    <2>5. TipoDe(e)
      BY <1>0, <2>2, <2>3, <2>4 DEF TipoDe
    <2>6. \A i, j : Sitio(e, i, j) = Sitio(d, i, j)
      BY <2>3 DEF Sitio
    <2>7. Bien(e, O)
      BY <2>3, <2>5, <2>6 DEF Bien, SitiosUnicos
    <2>8. Intacto(d, e, O)
      BY <1>0, <2>3, <2>4 DEF Intacto, Bien, TipoDe
    <2>9. QED
      BY <2>3, <2>7, <2>8
  <1>3. QED
    BY <1>1, <1>2

\* What two operations leave alone, both leave alone.
LEMMA IntactoSigue ==
  ASSUME NEW d, NEW e, NEW f, NEW O, Intacto(d, e, O), Intacto(e, f, O)
  PROVE  Intacto(d, f, O)
  BY DEF Intacto

\* Blocks of the file are free again, and null where they were.
LEMMA Soltado ==
  ASSUME NEW d, NEW O, Bien(d, O), NEW ks, ks \subseteq Propios(d),
         NEW is, is \subseteq {i \in Indirectos : d.ind[i] # 0},
         NEW e, e = Soltar(d, ks, is)
  PROVE  /\ Bien(e, O) /\ Intacto(d, e, O)
         /\ DOMAIN e = CamposDisco /\ e.tam = d.tam /\ e.ok = d.ok /\ e.datos = d.datos
  <1>0. TipoDe(d) /\ O \subseteq d.usados /\ d.usados \subseteq Bloques
    BY DEF Bien, TipoDe
  <1> DEFINE Nuevo(b, j) == \E k \in ks : b = d.ind[Indirecto(k)] /\ j = Directo(k)
             libres == {Puntero(d, k) : k \in ks} \cup {d.ind[i] : i \in is}
  <1>1. /\ DOMAIN e = CamposDisco /\ e.tam = d.tam /\ e.ok = d.ok /\ e.datos = d.datos
        /\ e.ind = [i \in Indirectos |-> IF i \in is THEN 0 ELSE d.ind[i]]
        /\ e.usados = d.usados \ libres
        /\ e.ptr = [b \in Bloques |-> [j \in Directos |->
                       IF Nuevo(b, j) THEN 0 ELSE d.ptr[b][j]]]
    BY <1>0 DEF Soltar, TipoDe, CamposDisco
  <1>2. \A b \in libres : b \notin O
    BY PunteroPropio, SitioPropio
  <1>3. O \subseteq e.usados
    BY <1>0, <1>1, <1>2
  <1>4. ASSUME NEW b \in O PROVE e.ptr[b] = d.ptr[b]
    <2>1. b \in Bloques
      BY <1>0
    <2>2. \A j \in Directos : ~Nuevo(b, j)
      BY PunteroPropio
    <2>3. d.ptr[b] = [j \in Directos |-> d.ptr[b][j]]
      BY <1>0, <2>1 DEF TipoDe
    <2> HIDE DEF Nuevo
    <2>4. QED
      BY <1>1, <2>1, <2>2, <2>3
  <1>5. Intacto(d, e, O)
    BY <1>1, <1>4 DEF Intacto
  <1>6. TipoDe(e)
    <2>1. e.ind \in [Indirectos -> {0} \cup Bloques] /\ e.usados \in SUBSET Bloques
      BY <1>0, <1>1 DEF TipoDe
    <2>2. e.ptr \in [Bloques -> [Directos -> Punteros]]
      <3>1. \A b \in Bloques, j \in Directos : d.ptr[b][j] \in Punteros /\ 0 \in Punteros
        BY <1>0 DEF TipoDe, Punteros
      <3> HIDE DEF Nuevo
      <3>2. QED
        BY <1>1, <3>1
    <2>3. QED
      BY <1>0, <1>1, <2>1, <2>2 DEF TipoDe
  <1>7. ASSUME NEW i \in Indirectos, NEW j \in Columnas, Sitio(e, i, j) \in Bloques
        PROVE  Sitio(e, i, j) \in e.usados /\ Sitio(e, i, j) = Sitio(d, i, j)
    <2>1. i \notin is /\ e.ind[i] = d.ind[i] /\ d.ind[i] # 0
      BY <1>1, <1>7, SinBloque DEF Sitio
    <2>2. d.ind[i] \in Bloques /\ Sitio(d, i, -1) = d.ind[i] /\ -1 \in Columnas
      BY <2>1, SitioPropio
    <2>3. j # -1 => j \in Directos /\ ~Nuevo(d.ind[i], j) /\ e.ptr[d.ind[i]][j] = d.ptr[d.ind[i]][j]
      <3>1. j # -1 => j \in Directos /\ Sitio(e, i, j) = e.ptr[d.ind[i]][j]
        BY <2>1 DEF Columnas, Sitio
      <3>2. j # -1 => e.ptr[d.ind[i]][j] = IF Nuevo(d.ind[i], j) THEN 0 ELSE d.ptr[d.ind[i]][j]
        <4> HIDE DEF Nuevo
        <4>1. QED
          BY <1>1, <2>2, <3>1
      <3> HIDE DEF Nuevo
      <3>3. QED
        BY <1>7, <3>1, <3>2, SinBloque
    <2>4. Sitio(e, i, j) = Sitio(d, i, j)
      BY <2>1, <2>3 DEF Sitio
    <2>5. Sitio(d, i, j) \in d.usados /\ SitiosUnicos(d)
      BY <1>7, <2>4 DEF Bien
    <2>6. ASSUME NEW k \in ks, Puntero(d, k) = Sitio(d, i, j)
          PROVE  FALSE
      <3>1. /\ Indirecto(k) \in Indirectos /\ Directo(k) \in Directos
            /\ Sitio(d, Indirecto(k), Directo(k)) = Sitio(d, i, j)
        BY <2>6, PunteroPropio
      <3>2. Directo(k) \in Columnas
        BY <3>1 DEF Columnas
      <3>3. i = Indirecto(k) /\ j = Directo(k)
        BY <1>7, <2>4, <2>5, <3>1, <3>2 DEF SitiosUnicos
      <3>4. j # -1
        BY <3>1, <3>3, SinBloque
      <3>5. QED
        BY <2>3, <3>3, <3>4
    <2>7. ASSUME NEW h \in is, d.ind[h] = Sitio(d, i, j)
          PROVE  FALSE
      <3>1. h \in Indirectos /\ Sitio(d, h, -1) = Sitio(d, i, j)
        BY <2>7, SitioPropio
      <3>2. i = h
        BY <1>7, <2>2, <2>4, <2>5, <3>1 DEF SitiosUnicos
      <3>3. QED
        BY <2>1, <3>2
    <2>8. QED
      BY <1>1, <2>4, <2>5, <2>6, <2>7
  <1>8. Bien(e, O)
    <2>1. 0 \notin d.usados
      BY <1>0, SinBloque
    <2>2. SoloCambia(d, e, 0, 0, 0)
      BY <1>7 DEF SoloCambia
    <2>3. QED
      BY <1>3, <1>6, <2>1, <2>2, UnSitioNuevo
  <1>9. QED
    BY <1>1, <1>5, <1>8

\* What an operation leaves of the file d: its blocks are its own and nothing
\* is written in those of the others.
Sigue(d, e, O) == Bien(e, O) /\ Intacto(d, e, O)

\* One operation after the other.
LEMMA SigueSiguiendo ==
  ASSUME NEW d, NEW e, NEW f, NEW O, Sigue(d, e, O), Sigue(e, f, O)
  PROVE  Sigue(d, f, O)
  BY IntactoSigue DEF Sigue

\* Only the fields of the disk matter.
LEMMA SigueIgual ==
  ASSUME NEW d, NEW e, NEW f, NEW O, Sigue(d, e, O), DOMAIN f = CamposDisco,
         f.ind = e.ind, f.usados = e.usados, f.ptr = e.ptr, f.datos = e.datos
  PROVE  Sigue(d, f, O)
  BY MismoDisco, IntactoSigue DEF Sigue

\* The block of data that bloque_indirecto_para_escribir answers is not marked
\* yet: e with it in the bitmap.
Marcado(e) == [e EXCEPT !.usados = @ \cup {e.ret}]

\* The answer e for the file d: no block, or a block that no file uses.
Busca(d, e, O) ==
  /\ DOMAIN e = CamposDisco /\ e.tam = d.tam /\ e.ok = d.ok
  /\ e.ret = -1 => Sigue(d, e, O)
  /\ e.ret # -1 => e.ret \in Bloques \ O /\ Sigue(d, Marcado(e), O)

\* Marking a block changes the bitmap only.
LEMMA MarcadoEs ==
  ASSUME NEW e, DOMAIN e = CamposDisco, NEW m, m = Marcado(e)
  PROVE  /\ DOMAIN m = CamposDisco /\ m.ind = e.ind /\ m.ptr = e.ptr /\ m.datos = e.datos
         /\ m.tam = e.tam /\ m.ok = e.ok /\ m.ret = e.ret /\ m.usados = e.usados \cup {e.ret}
  BY DEF Marcado, CamposDisco

\* agregar_bloque_ptrDir takes a free block for the pointers, and finds another
\* for the data, that it does not mark.
LEMMA AgregaIndirecto ==
  ASSUME NEW d, NEW O, Bien(d, O), NEW i \in Indirectos,
         NEW f, f = agregar_bloque_ptrDir(d, i)
  PROVE  Busca(d, f, O)
  <1>0. DOMAIN d = CamposDisco
    BY DEF Bien, TipoDe
  <1>1. PICK b : b = buscar_bloque_libre(d)
    OBVIOUS
  <1>2. b \in (Bloques \ d.usados) \cup {-1}
    BY <1>1, LibreEs
  <1>3. CASE b = -1
    <2>1. f = [d EXCEPT !.ret = -1]
      BY <1>1, <1>3 DEF agregar_bloque_ptrDir
    <2>2. /\ DOMAIN f = CamposDisco /\ f.ind = d.ind /\ f.usados = d.usados /\ f.ptr = d.ptr
          /\ f.datos = d.datos /\ f.tam = d.tam /\ f.ok = d.ok /\ f.ret = -1
      BY <1>0, <2>1 DEF CamposDisco
    <2>3. Sigue(d, f, O)
      BY <2>2, MismoDisco DEF Sigue
    <2>4. QED
      BY <2>2, <2>3 DEF Busca
  <1>4. CASE b # -1
    <2>1. PICK e : e = ConBloquePtr(d, i, b)
      OBVIOUS
    <2>2. b \in Bloques \ d.usados
      BY <1>2, <1>4
    <2>3. /\ Bien(e, O) /\ Intacto(d, e, O) /\ e.tam = d.tam /\ e.ok = d.ok /\ e.ind[i] = b
      BY <2>1, <2>2, ConIndirecto
    <2>4. PICK dato : dato = buscar_bloque_libre(e)
      OBVIOUS
    <2>5. dato \in (Bloques \ e.usados) \cup {-1}
      BY <2>4, LibreEs
    <2>6. f = [e EXCEPT !.ptr[b][0] = dato, !.ret = dato]
      BY <1>1, <1>4, <2>1, <2>4 DEF agregar_bloque_ptrDir
    <2>7. /\ DOMAIN f = CamposDisco /\ f.ind = e.ind /\ f.usados = e.usados
          /\ f.ptr = [e.ptr EXCEPT ![e.ind[i]][0] = dato] /\ f.datos = e.datos
          /\ f.tam = d.tam /\ f.ok = d.ok /\ f.ret = dato
      BY <2>3, <2>6 DEF CamposDisco, Bien, TipoDe
    <2>8. TipoDe(e) /\ O \subseteq e.usados /\ e.usados \subseteq Bloques
      BY <2>3 DEF Bien, TipoDe
    <2>9. DOMAIN f.datos = Bloques /\ \A h \in Bloques : DOMAIN f.datos[h] = Bytes
      BY <2>7, <2>8 DEF TipoDe
    <2>10. e.ind[i] # 0 /\ 0 \in Directos
      BY <2>2, <2>3, SinBloque
    <2>11. CASE dato = -1
      <3>1. Bien(f, O) /\ Intacto(e, f, O)
        <4>1. PonePuntero(e, f, O, i, 0, dato)
          BY <2>7, <2>8, <2>9, <2>11, SinBloque DEF PonePuntero
        <4>2. QED
          BY <2>3, <2>5, <2>10, <4>1, ConDato
      <3>2. QED
        BY <2>3, <2>7, <2>11, <3>1, IntactoSigue DEF Busca, Sigue
    <2>12. CASE dato # -1
      <3>1. PICK m : m = Marcado(f)
        OBVIOUS
      <3>2. /\ DOMAIN m = CamposDisco /\ m.ind = e.ind /\ m.usados = e.usados \cup {dato}
            /\ m.ptr = [e.ptr EXCEPT ![e.ind[i]][0] = dato] /\ m.datos = e.datos
        BY <2>7, <3>1, MarcadoEs
      <3>3. dato \in Bloques \ e.usados
        BY <2>5, <2>12
      <3>4. e.usados \subseteq m.usados /\ m.usados \subseteq Bloques /\ dato \in m.usados
        BY <2>8, <3>2, <3>3
      <3>5. DOMAIN m.datos = Bloques /\ \A h \in Bloques : DOMAIN m.datos[h] = Bytes
        BY <2>8, <3>2 DEF TipoDe
      <3>6. Bien(m, O) /\ Intacto(e, m, O)
        <4>1. PonePuntero(e, m, O, i, 0, dato)
          BY <3>2, <3>4, <3>5 DEF PonePuntero
        <4>2. QED
          BY <2>3, <2>5, <2>10, <4>1, ConDato
      <3>7. Sigue(d, m, O)
        BY <2>3, <3>6, IntactoSigue DEF Sigue
      <3>8. QED
        BY <2>7, <2>8, <2>12, <3>1, <3>3, <3>7 DEF Busca
    <2>13. QED
      BY <2>11, <2>12
  <1>5. QED
    BY <1>3, <1>4

\* bloque_indirecto_para_escribir answers -1 or a block that no file has.
LEMMA BuscaDato ==
  ASSUME NEW d, NEW O, Bien(d, O), NEW f, f = bloque_indirecto_para_escribir(d)
  PROVE  Busca(d, f, O)
  <1>0. DOMAIN d = CamposDisco /\ TipoDe(d) /\ O \subseteq d.usados /\ d.usados \subseteq Bloques
    BY DEF Bien, TipoDe
  <1>1. PICK vacios : vacios = {i \in Indirectos : d.ind[i] = 0}
    OBVIOUS
  <1>2. PICK i : i = Min(vacios)
    OBVIOUS
  <1>3. PICK ultimo : ultimo = d.ind[i - 1]
    OBVIOUS
  <1>4. PICK huecos : huecos = {j \in Directos : d.ptr[ultimo][j] = 0}
    OBVIOUS
  <1>5. PICK b : b = buscar_bloque_libre(d)
    OBVIOUS
  <1>6. f = IF vacios = {} THEN [d EXCEPT !.ret = -1]
            ELSE IF i = 0 \/ huecos = {} THEN agregar_bloque_ptrDir(d, i)
            ELSE IF b = -1 THEN [d EXCEPT !.ret = -1]
            ELSE [d EXCEPT !.ptr[ultimo][Min(huecos)] = b, !.ret = b]
    BY <1>1, <1>2, <1>3, <1>4, <1>5 DEF bloque_indirecto_para_escribir
  <1>7. CASE f = [d EXCEPT !.ret = -1]
    <2>1. /\ DOMAIN f = CamposDisco /\ f.ind = d.ind /\ f.usados = d.usados /\ f.ptr = d.ptr
          /\ f.datos = d.datos /\ f.tam = d.tam /\ f.ok = d.ok /\ f.ret = -1
      BY <1>0, <1>7 DEF CamposDisco
    <2>2. Sigue(d, f, O)
      BY <2>1, MismoDisco DEF Sigue
    <2>3. QED
      BY <2>1, <2>2 DEF Busca
  <1>8. CASE vacios # {}
    <2>1. i \in vacios /\ \A h \in vacios : i <= h
      <3>1. vacios \in SUBSET Nat
        BY <1>1 DEF Indirectos
      <3>2. i \in vacios
        BY <1>2, <1>8, <3>1, PrimeroEsta
      <3>3. PICK x \in vacios : \A h \in vacios : x <= h
        BY <1>8, <3>1, HayMinimo
      <3>4. QED
        BY <1>2, <3>1, <3>3 DEF Min
    <2>2. i \in Indirectos
      BY <1>1, <2>1
    <2>3. CASE i = 0 \/ huecos = {}
      BY <1>6, <1>8, <2>2, <2>3, AgregaIndirecto
    <2>4. CASE ~(i = 0 \/ huecos = {}) /\ b # -1
      <3>1. i - 1 \in Indirectos /\ i - 1 \notin vacios
        BY <2>1, <2>2, <2>4, SacBloquesConstantes DEF Indirectos
      <3>2. d.ind[i - 1] # 0
        BY <1>1, <3>1
      <3>3. PICK j \in Directos : j = Min(huecos)
        <4>1. huecos \in SUBSET Nat /\ huecos # {}
          BY <1>4, <2>4 DEF Directos
        <4>2. QED
          BY <1>4, <4>1, PrimeroEsta
      <3>4. b \in Bloques \ d.usados
        BY <1>5, <2>4, LibreEs
      <3>5. f = [d EXCEPT !.ptr[ultimo][j] = b, !.ret = b]
        BY <1>6, <1>8, <2>4, <3>3
      <3>6. /\ DOMAIN f = CamposDisco /\ f.ind = d.ind /\ f.usados = d.usados
            /\ f.ptr = [d.ptr EXCEPT ![d.ind[i - 1]][j] = b] /\ f.datos = d.datos
            /\ f.tam = d.tam /\ f.ok = d.ok /\ f.ret = b
        BY <1>0, <1>3, <3>5 DEF CamposDisco
      <3>7. PICK m : m = Marcado(f)
        OBVIOUS
      <3>8. /\ DOMAIN m = CamposDisco /\ m.ind = d.ind /\ m.usados = d.usados \cup {b}
            /\ m.ptr = [d.ptr EXCEPT ![d.ind[i - 1]][j] = b] /\ m.datos = d.datos
        BY <3>6, <3>7, MarcadoEs
      <3>9. d.usados \subseteq m.usados /\ m.usados \subseteq Bloques /\ b \in m.usados
        BY <1>0, <3>4, <3>8
      <3>10. DOMAIN m.datos = Bloques /\ \A h \in Bloques : DOMAIN m.datos[h] = Bytes
        BY <1>0, <3>8 DEF TipoDe
      <3>11. b \in (Bloques \ d.usados) \cup {-1}
        BY <3>4
      <3>12. Bien(m, O) /\ Intacto(d, m, O)
        <4>1. PonePuntero(d, m, O, i - 1, j, b)
          BY <3>8, <3>9, <3>10 DEF PonePuntero
        <4>2. QED
          BY <3>1, <3>2, <3>4, <3>11, <4>1, ConDato, SinBloque
      <3>13. b \notin O
        BY <1>0, <3>4
      <3>14. QED
        BY <2>4, <3>4, <3>6, <3>7, <3>12, <3>13 DEF Busca, Sigue
    <2>5. QED
      BY <1>6, <1>7, <1>8, <2>3, <2>4
  <1>9. QED
    BY <1>6, <1>7, <1>8

\* The bytes v of a block with s over them from offset o on.
Sobre(v, o, s) == [x \in Bytes |-> IF x - o + 1 \in DOMAIN s THEN s[x - o + 1] ELSE v[x]]

\* memcpy changes the bytes of one block.
LEMMA CopiarEn ==
  ASSUME NEW d, DOMAIN d = CamposDisco, NEW b \in Bloques, NEW o, NEW s,
         NEW e, e = Copiar(d, b, o, s)
  PROVE  /\ DOMAIN e = CamposDisco /\ e.ind = d.ind /\ e.ptr = d.ptr /\ e.usados = d.usados
         /\ e.tam = d.tam /\ e.ok = d.ok /\ e.ret = d.ret
         /\ e.datos = [d.datos EXCEPT ![b] = Sobre(d.datos[b], o, s)]
  BY DEF Copiar, CamposDisco, Sobre

\* What is left of the buffer after its first n bytes.
LEMMA QuedaTexto ==
  ASSUME NEW A, NEW c \in Seq(A), NEW n \in 0..Len(c)
  PROVE  Desde(c, n) \in Seq(A) /\ Len(Desde(c, n)) = Len(c) - n
  BY DEF Desde

\* The less of two numbers.
LEMMA MenorEs ==
  ASSUME NEW a \in Nat, NEW b \in Nat
  PROVE  Menor(a, b) \in 0..a /\ Menor(a, b) <= b
  BY DEF Menor

\* The turns of the loop of escribir_final_archivo, that began with the file d:
\* what is written and what is left make the size that was asked for.
CamposTurno == {"d", "resto", "bloques_escritos", "lleno"}
EnTurno(s, d, O, A, total) ==
    /\ DOMAIN s = CamposTurno
    /\ Sigue(d, s.d, O)
    /\ s.resto \in Seq(A)
    /\ s.d.tam \in Nat /\ s.d.tam + Len(s.resto) = total

\* A turn of the loop gets a block of its own, and marks it.
LEMMA EscribeBloque ==
  ASSUME NEW d, NEW O, NEW A, NEW total, NEW s, EnTurno(s, d, O, A, total)
  PROVE  EnTurno(EscribirBloque(s), d, O, A, total)
  <1>0. /\ DOMAIN s = CamposTurno /\ Bien(s.d, O) /\ Sigue(d, s.d, O) /\ s.resto \in Seq(A)
        /\ s.d.tam \in Nat /\ s.d.tam + Len(s.resto) = total /\ Len(s.resto) \in Nat
    BY DEF EnTurno, Sigue
  <1>1. PICK e : e = bloque_indirecto_para_escribir(s.d)
    OBVIOUS
  <1>2. Busca(s.d, e, O)
    BY <1>0, <1>1, BuscaDato
  <1>3. PICK n : n = Menor(Len(s.resto), BLOCK_SIZE)
    OBVIOUS
  <1>4. n \in 0..Len(s.resto) /\ n \in Nat
    <2>1. BLOCK_SIZE \in Nat
      BY SacBloquesConstantes
    <2>2. QED
      <3>1. PICK l \in Nat : l = Len(s.resto)
        BY <1>0
      <3>2. n \in 0..l
        BY <1>3, <2>1, <3>1, MenorEs
      <3>3. QED
        BY <3>1, <3>2
  <1>5. PICK texto : texto = SubSeq(s.resto, 1, n) \o Ceros(BLOCK_SIZE - n)
    OBVIOUS
  <1>6. PICK u : u = EscribirBloque(s)
    OBVIOUS
  <1>7. CASE e.ret = -1
    <2>1. u = [s EXCEPT !.d = e, !.lleno = TRUE]
      BY <1>1, <1>6, <1>7 DEF EscribirBloque
    <2>2. DOMAIN u = CamposTurno /\ u.d = e /\ u.resto = s.resto
      BY <1>0, <2>1 DEF CamposTurno
    <2>3. Sigue(d, e, O) /\ e.tam = s.d.tam
      BY <1>0, <1>2, <1>7, SigueSiguiendo DEF Busca
    <2>4. QED
      BY <1>0, <1>6, <2>2, <2>3 DEF EnTurno
  <1>8. CASE e.ret # -1
    <2>1. PICK m : m = Marcado(e)
      OBVIOUS
    <2>2. /\ DOMAIN e = CamposDisco /\ e.ret \in Bloques \ O /\ Sigue(d, m, O)
          /\ e.tam = s.d.tam
      BY <1>0, <1>2, <1>8, <2>1, SigueSiguiendo DEF Busca
    <2>3. /\ DOMAIN m = CamposDisco /\ m.ind = e.ind /\ m.ptr = e.ptr /\ m.datos = e.datos
          /\ m.usados = e.usados \cup {e.ret}
      BY <2>1, <2>2, MarcadoEs
    <2>4. PICK x : x = Copiar(e, e.ret, 0, texto)
      OBVIOUS
    <2>5. PICK y : y = Copiar(m, e.ret, 0, texto)
      OBVIOUS
    <2>6. Sigue(d, y, O)
      <3>1. Bien(m, O)
        BY <2>2 DEF Sigue
      <3>2. Sigue(m, y, O)
        BY <2>2, <2>5, <3>1, Copiado DEF Sigue
      <3>3. QED
        BY <2>2, <3>2, SigueSiguiendo
    <2>7. /\ DOMAIN x = CamposDisco /\ x.ind = y.ind /\ x.ptr = y.ptr /\ x.datos = y.datos
          /\ y.usados = x.usados \cup {e.ret} /\ x.tam = s.d.tam
      <3>1. /\ DOMAIN x = CamposDisco /\ x.ind = e.ind /\ x.ptr = e.ptr
            /\ x.usados = e.usados /\ x.tam = e.tam
            /\ x.datos = [e.datos EXCEPT ![e.ret] = Sobre(e.datos[e.ret], 0, texto)]
        BY <2>2, <2>4, CopiarEn
      <3>2. /\ y.ind = m.ind /\ y.ptr = m.ptr /\ y.usados = m.usados
            /\ y.datos = [m.datos EXCEPT ![e.ret] = Sobre(m.datos[e.ret], 0, texto)]
        BY <2>2, <2>3, <2>5, CopiarEn
      <3>3. QED
        BY <2>2, <2>3, <3>1, <3>2
    <2>8. PICK g : g = [x EXCEPT !.usados = @ \cup {e.ret}, !.tam = @ + n]
      OBVIOUS
    <2>9. /\ DOMAIN g = CamposDisco /\ g.ind = y.ind /\ g.ptr = y.ptr /\ g.datos = y.datos
          /\ g.usados = y.usados /\ g.tam = s.d.tam + n
      BY <2>7, <2>8 DEF CamposDisco
    <2>10. Sigue(d, g, O)
      BY <2>6, <2>9, SigueIgual
    <2>11. u = [s EXCEPT !.d = g, !.resto = Desde(@, n), !.bloques_escritos = @ + 1]
      BY <1>1, <1>3, <1>5, <1>6, <1>8, <2>4, <2>8 DEF EscribirBloque
    <2>12. DOMAIN u = CamposTurno /\ u.d = g /\ u.resto = Desde(s.resto, n)
      BY <1>0, <2>11 DEF CamposTurno
    <2>13. u.resto \in Seq(A) /\ Len(u.resto) = Len(s.resto) - n
      BY <1>0, <1>4, <2>12, QuedaTexto
    <2>14. g.tam \in Nat /\ g.tam + Len(u.resto) = total
      BY <1>0, <1>4, <2>9, <2>13
    <2>15. QED
      BY <1>6, <2>10, <2>12, <2>13, <2>14 DEF EnTurno
  <1>9. QED
    BY <1>7, <1>8

\* The last block of the file is its own.
LEMMA EscribeIncompleto ==
  ASSUME NEW d, NEW O, Bien(d, O), d.tam \in Nat, d.tam < CantDatos * BLOCK_SIZE,
         NEW A, NEW c \in Seq(A), NEW r, r = escribir_sobre_bloque_incompleto(d, c)
  PROVE  /\ Sigue(d, r.d, O) /\ r.resto \in Seq(A) /\ r.d.tam \in Nat
         /\ r.d.tam + Len(r.resto) = d.tam + Len(c)
  <1>0. DOMAIN d = CamposDisco
    BY DEF Bien, TipoDe
  <1>1. BLOCK_SIZE \in Nat \ {0} /\ CantDatos \in Nat
    BY SacBloquesConstantes DEF CantDatos
  <1>2. PICK o, k : o = EnBloque(d.tam) /\ k = NroBloque(d.tam)
    OBVIOUS
  <1>3. o \in Nat /\ o < BLOCK_SIZE /\ k \in 0..CantDatos - 1
    BY <1>1, <1>2, Entre, EntreAcotado DEF EnBloque, NroBloque
  <1>4. PICK n : n = Menor(Len(c), BLOCK_SIZE - o)
    OBVIOUS
  <1>5. n \in 0..Len(c) /\ n \in Nat /\ Len(c) \in Nat
    <2>1. BLOCK_SIZE - o \in Nat
      BY <1>1, <1>3
    <2>2. QED
      BY <1>4, <2>1, MenorEs
  <1>6. PICK texto : texto = SubSeq(c, 1, n) \o Ceros(BLOCK_SIZE - o - n)
    OBVIOUS
  <1>7. Sigue(d, d, O)
    BY DEF Sigue, Intacto
  <1>8. CASE o = 0
    <2>1. r = [d |-> d, resto |-> c]
      BY <1>2, <1>8 DEF escribir_sobre_bloque_incompleto
    <2>2. r.d = d /\ r.resto = c
      BY <2>1
    <2>3. QED
      BY <1>7, <2>2
  <1>9. CASE o # 0 /\ d.ind[Indirecto(k)] = 0
    <2>1. r = [d |-> Caida(d), resto |-> c]
      BY <1>2, <1>9 DEF escribir_sobre_bloque_incompleto
    <2>2. PICK e : e = Caida(d)
      OBVIOUS
    <2>3. /\ DOMAIN e = CamposDisco /\ e.ind = d.ind /\ e.ptr = d.ptr /\ e.datos = d.datos
          /\ e.usados = d.usados /\ e.tam = d.tam
      BY <1>0, <2>2 DEF Caida, CamposDisco
    <2>4. Sigue(d, e, O)
      BY <1>7, <2>3, SigueIgual
    <2>5. r.d = e /\ r.resto = c
      BY <2>1, <2>2
    <2>6. QED
      BY <2>3, <2>4, <2>5
  <1>10. CASE o # 0 /\ d.ind[Indirecto(k)] # 0
    <2>1. PICK b : b = Puntero(d, k)
      OBVIOUS
    <2>2. PICK x : x = Copiar(d, b, o, texto)
      OBVIOUS
    <2>3. PICK g : g = [x EXCEPT !.tam = @ + n]
      OBVIOUS
    <2>4. r = [d |-> g, resto |-> Desde(c, n)]
      BY <1>2, <1>4, <1>6, <1>10, <2>1, <2>2, <2>3 DEF escribir_sobre_bloque_incompleto
    <2>5. b \notin O
      BY <1>3, <1>10, <2>1, PunteroPropio DEF Propios
    <2>6. Sigue(d, x, O) /\ DOMAIN x = CamposDisco /\ x.tam = d.tam
      BY <2>2, <2>5, Copiado DEF Sigue
    <2>7. /\ DOMAIN g = CamposDisco /\ g.ind = x.ind /\ g.ptr = x.ptr /\ g.datos = x.datos
          /\ g.usados = x.usados /\ g.tam = d.tam + n
      BY <2>3, <2>6 DEF CamposDisco
    <2>8. Sigue(d, g, O)
      BY <2>6, <2>7, SigueIgual
    <2>9. r.d = g /\ r.resto = Desde(c, n)
      BY <2>4
    <2>10. r.resto \in Seq(A) /\ Len(r.resto) = Len(c) - n
      BY <1>5, <2>9, QuedaTexto
    <2>11. QED
      BY <1>5, <2>7, <2>8, <2>9, <2>10
  <1>11. QED
    BY <1>8, <1>9, <1>10

\* A turn of the loop, unless it has ended.
Seguir(s) == IF ~s.d.ok \/ s.lleno \/ s.resto = <<>> THEN s ELSE EscribirBloque(s)

\* The turns t of the loop of escribir_final_archivo.
SonTurnos(t, N, d, c, e) ==
    /\ DOMAIN t[0] = CamposTurno /\ t[0].lleno = FALSE
    /\ t[0].d = escribir_sobre_bloque_incompleto(d, c).d
    /\ t[0].resto = escribir_sobre_bloque_incompleto(d, c).resto
    /\ \A n \in 0..N - 1 : t[n + 1] = Seguir(t[n])
    /\ e = [t[N].d EXCEPT !.ret = IF t[N].lleno THEN t[N].bloques_escritos * BLOCK_SIZE
                                  ELSE Len(c)]

\* The loop of escribir_final_archivo takes as many turns as c has blocks.
LEMMA TurnosFinal ==
  ASSUME NEW d, NEW A, NEW c \in Seq(A), c # <<>>, NEW e, e = escribir_final_archivo(d, c),
         NEW N, N = cant_bloques_necesaria(Len(c))
  PROVE  N \in Nat /\ \E t : SonTurnos(t, N, d, c, e)
  <1> DEFINE inicio == [d |-> escribir_sobre_bloque_incompleto(d, c).d,
                        resto |-> escribir_sobre_bloque_incompleto(d, c).resto,
                        bloques_escritos |-> 0, lleno |-> FALSE]
             turnos == cant_bloques_necesaria(Len(c))
             Sig(s) == IF ~s.d.ok \/ s.lleno \/ s.resto = <<>> THEN s ELSE EscribirBloque(s)
             EsTurno(t, m) == t = [n \in 0..m |-> IF n = 0 THEN inicio ELSE Sig(t[n - 1])]
             turno == CHOOSE t : EsTurno(t, turnos)
  <1>1. Len(c) \in Nat
    OBVIOUS
  <1>2. /\ inicio.d = escribir_sobre_bloque_incompleto(d, c).d
        /\ inicio.resto = escribir_sobre_bloque_incompleto(d, c).resto
        /\ DOMAIN inicio = CamposTurno /\ inicio.lleno = FALSE
    BY DEF CamposTurno
  <1>3. e = [turno[turnos].d EXCEPT !.ret =
             IF turno[turnos].lleno THEN turno[turnos].bloques_escritos * BLOCK_SIZE
             ELSE Len(c)]
    BY DEF escribir_final_archivo
  <1>4. turnos \in Nat
    <2>1. turnos = (Len(c) + BLOCK_SIZE - 1) \div BLOCK_SIZE + 0
      BY <1>1 DEF cant_bloques_necesaria
    <2>2. Len(c) + BLOCK_SIZE - 1 \in Nat /\ BLOCK_SIZE \in Nat \ {0}
      BY <1>1, SacBloquesConstantes
    <2>3. (Len(c) + BLOCK_SIZE - 1) \div BLOCK_SIZE \in Nat
      BY <2>2, Entre
    <2>4. QED
      BY <2>1, <2>3
  <1> HIDE DEF inicio, turnos, Sig
  <1>5. \E t : EsTurno(t, turnos)
    <2> DEFINE S == {m \in 0..turnos : \E t : EsTurno(t, m)}
    <2>1. 0 \in S
      <3>1. PICK t : t = [n \in 0..0 |-> inicio]
        OBVIOUS
      <3>2. EsTurno(t, 0)
        BY <3>1
      <3>3. QED
        BY <1>4, <3>2
    <2>2. ASSUME NEW m \in 0..turnos, m \in S, m # turnos
          PROVE  m + 1 \in S
      <3>1. PICK t : t = [n \in 0..m |-> IF n = 0 THEN inicio ELSE Sig(t[n - 1])]
        BY <2>2
      <3>2. PICK u : u = [n \in 0..m + 1 |-> IF n = 0 THEN inicio ELSE Sig(t[n - 1])]
        OBVIOUS
      <3>3. \A n \in 0..m : u[n] = t[n]
        BY <3>1, <3>2
      <3>4. \A n \in 0..m + 1 : n # 0 => u[n - 1] = t[n - 1]
        BY <3>3
      <3>5. EsTurno(u, m + 1)
        BY <3>2, <3>4
      <3>6. m + 1 \in 0..turnos
        BY <1>4, <2>2
      <3> HIDE DEF EsTurno
      <3>7. QED
        BY <3>5, <3>6
    <2> HIDE DEF EsTurno
    <2>3. turnos \in S
      <3> HIDE DEF S
      <3>1. 0..turnos \subseteq S
        BY <1>4, <2>1, <2>2, HastaN
      <3>2. QED
        BY <1>4, <3>1
    <2>4. QED
      BY <2>3
  <1>6. EsTurno(turno, turnos)
    BY <1>5
  <1> HIDE DEF turno
  <1>7. turno[0] = inicio /\ \A n \in 0..turnos - 1 : turno[n + 1] = Sig(turno[n])
    BY <1>4, <1>6
  <1>8. N = turnos
    BY DEF turnos
  <1>9. \A n : Sig(turno[n]) = Seguir(turno[n])
    BY DEF Sig, Seguir
  <1>10. SonTurnos(turno, N, d, c, e)
    BY <1>2, <1>3, <1>7, <1>8, <1>9 DEF SonTurnos
  <1>11. QED
    BY <1>4, <1>8, <1>10

\* Appending writes in free blocks and in the last block of the file.
LEMMA EscribeFinal ==
  ASSUME NEW d, NEW O, Bien(d, O), d.tam \in Nat, d.tam < CantDatos * BLOCK_SIZE,
         NEW A, NEW c \in Seq(A), NEW e, e = escribir_final_archivo(d, c)
  PROVE  /\ Sigue(d, e, O) /\ DOMAIN e = CamposDisco
         /\ e.tam \in Nat /\ e.tam <= d.tam + Len(c)
  <1>0. DOMAIN d = CamposDisco /\ Sigue(d, d, O) /\ Len(c) \in Nat
    BY DEF Bien, TipoDe, Sigue, Intacto
  <1>1. PICK r : r = escribir_sobre_bloque_incompleto(d, c)
    OBVIOUS
  <1>2. /\ Sigue(d, r.d, O) /\ r.resto \in Seq(A) /\ r.d.tam \in Nat
        /\ r.d.tam + Len(r.resto) = d.tam + Len(c)
    BY <1>1, EscribeIncompleto
  <1>3. CASE c = <<>>
    <2>1. e = [d EXCEPT !.ret = 0]
      BY <1>3 DEF escribir_final_archivo
    <2>2. /\ DOMAIN e = CamposDisco /\ e.ind = d.ind /\ e.ptr = d.ptr /\ e.datos = d.datos
          /\ e.usados = d.usados /\ e.tam = d.tam
      BY <1>0, <2>1 DEF CamposDisco
    <2>3. Sigue(d, e, O)
      BY <1>0, <2>2, SigueIgual
    <2>4. QED
      BY <1>0, <2>2, <2>3
  <1>4. CASE c # <<>>
    <2>0. PICK N \in Nat : N = cant_bloques_necesaria(Len(c))
      BY <1>4, TurnosFinal
    <2>1. PICK t : SonTurnos(t, N, d, c, e)
      BY <1>4, <2>0, TurnosFinal
    <2> DEFINE total == d.tam + Len(c)
               S == {m \in 0..N : EnTurno(t[m], d, O, A, total)}
    <2>2. EnTurno(t[0], d, O, A, total)
      BY <1>1, <1>2, <2>1 DEF EnTurno, SonTurnos
    <2>3. ASSUME NEW s, EnTurno(s, d, O, A, total)
          PROVE  EnTurno(Seguir(s), d, O, A, total)
      BY <2>3, EscribeBloque DEF Seguir
    <2> HIDE DEF total
    <2>4. 0 \in S
      BY <2>2
    <2>5. ASSUME NEW m \in 0..N, m \in S, m # N
          PROVE  m + 1 \in S
      <3>1. t[m + 1] = Seguir(t[m]) /\ m + 1 \in 0..N
        BY <2>1, <2>5 DEF SonTurnos
      <3>2. QED
        BY <2>3, <2>5, <3>1
    <2>6. N \in S
      <3> HIDE DEF S
      <3>1. 0..N \subseteq S
        BY <2>4, <2>5, HastaN
      <3>2. QED
        BY <3>1
    <2>7. PICK fin : fin = t[N].d
      OBVIOUS
    <2>8. Sigue(d, fin, O) /\ fin.tam \in Nat /\ fin.tam <= d.tam + Len(c)
      <3>1. /\ Sigue(d, fin, O) /\ t[N].resto \in Seq(A)
            /\ fin.tam \in Nat /\ fin.tam + Len(t[N].resto) = total
        BY <2>6, <2>7 DEF EnTurno
      <3>2. QED
        BY <1>0, <3>1 DEF total
    <2>9. \E ret : e = [fin EXCEPT !.ret = ret]
      BY <2>1, <2>7 DEF SonTurnos
    <2>10. DOMAIN fin = CamposDisco
      BY <2>8 DEF Sigue, Bien, TipoDe
    <2>11. /\ DOMAIN e = CamposDisco /\ e.ind = fin.ind /\ e.ptr = fin.ptr
           /\ e.datos = fin.datos /\ e.usados = fin.usados /\ e.tam = fin.tam
      BY <2>9, <2>10 DEF CamposDisco
    <2>12. Sigue(d, e, O)
      BY <2>8, <2>11, SigueIgual
    <2>13. QED
      BY <2>8, <2>11, <2>12
  <1>5. QED
    BY <1>3, <1>4

\* Doing nothing is an operation.
LEMMA SigueDeSi ==
  ASSUME NEW d, NEW O, Bien(d, O)
  PROVE  Sigue(d, d, O) /\ DOMAIN d = CamposDisco
  BY DEF Sigue, Intacto, Bien, TipoDe

\* What an operation leaves is a file with a disk under it.
LEMMA SigueBien ==
  ASSUME NEW d, NEW e, NEW O, Sigue(d, e, O)
  PROVE  Bien(e, O) /\ DOMAIN e = CamposDisco
  BY DEF Sigue, Bien, TipoDe

\* The server falls, and what it wrote stays.
LEMMA CaidaEs ==
  ASSUME NEW d, NEW O, Bien(d, O), NEW e, e = Caida(d)
  PROVE  Sigue(d, e, O) /\ e.tam = d.tam /\ e.ind = d.ind /\ e.ptr = d.ptr /\ e.ok = FALSE
         /\ e.usados = d.usados
  <1>1. DOMAIN d = CamposDisco /\ Sigue(d, d, O)
    BY SigueDeSi
  <1>2. /\ DOMAIN e = CamposDisco /\ e.ind = d.ind /\ e.ptr = d.ptr /\ e.datos = d.datos
        /\ e.usados = d.usados /\ e.tam = d.tam /\ e.ok = FALSE
    BY <1>1 DEF Caida, CamposDisco
  <1>3. QED
    BY <1>1, <1>2, SigueIgual

\* The answer is not on the disk.
LEMMA ConRet ==
  ASSUME NEW d, NEW O, Bien(d, O), NEW e, \E x : e = [d EXCEPT !.ret = x]
  PROVE  Sigue(d, e, O) /\ e.tam = d.tam
  <1>1. DOMAIN d = CamposDisco /\ Sigue(d, d, O)
    BY SigueDeSi
  <1>2. /\ DOMAIN e = CamposDisco /\ e.ind = d.ind /\ e.ptr = d.ptr /\ e.datos = d.datos
        /\ e.usados = d.usados /\ e.tam = d.tam
    BY <1>1 DEF CamposDisco
  <1>3. QED
    BY <1>1, <1>2, SigueIgual

(***************************************************************************)
(* Writing over what there is.                                             *)
(***************************************************************************)
EnPaso(s, d, O) ==
    /\ DOMAIN s = {"d", "escrita", "fin"}
    /\ Sigue(d, s.d, O)
    /\ s.d.ind = d.ind /\ s.d.ptr = d.ptr /\ s.d.tam = d.tam /\ s.d.usados = d.usados

\* A turn writes in a block that the file already had.
LEMMA EscribeEncima ==
  ASSUME NEW d, NEW O, Bien(d, O), NEW s, EnPaso(s, d, O), NEW k \in Propios(d),
         NEW c, NEW cant, NEW off
  PROVE  EnPaso(EscribirEncima(s, k, c, cant, off), d, O)
  <1>0. /\ DOMAIN s = {"d", "escrita", "fin"} /\ Sigue(d, s.d, O) /\ Bien(s.d, O)
        /\ s.d.ind = d.ind /\ s.d.ptr = d.ptr /\ s.d.tam = d.tam /\ s.d.usados = d.usados
    BY DEF EnPaso, Sigue
  <1>1. Puntero(s.d, k) \notin O
    <2>1. k \in Propios(s.d)
      BY <1>0 DEF Propios
    <2>2. QED
      BY <1>0, <2>1, PunteroPropio
  <1>2. ASSUME NEW o, NEW t, NEW e, e = Copiar(s.d, Puntero(s.d, k), o, t)
        PROVE  /\ Sigue(d, e, O) /\ e.ind = d.ind /\ e.ptr = d.ptr /\ e.tam = d.tam
               /\ e.usados = d.usados
    BY <1>0, <1>1, <1>2, Copiado, SigueSiguiendo DEF Sigue
  <1>3. PICK u : u = EscribirEncima(s, k, c, cant, off)
    OBVIOUS
  <1>4. DOMAIN u = {"d", "escrita", "fin"} /\ u.d \in {s.d, Caida(s.d)}
          \cup {Copiar(s.d, Puntero(s.d, k), o, t) : o \in {0, EnBloque(off)},
                  t \in {SubSeq(c, 1, Menor(cant, BLOCK_SIZE - EnBloque(off))),
                         SubSeq(c, s.escrita + 1,
                                s.escrita + Menor(cant - s.escrita, BLOCK_SIZE))}}
    BY <1>0, <1>3 DEF EscribirEncima
  <1>5. CASE u.d = s.d
    BY <1>0, <1>3, <1>4, <1>5 DEF EnPaso
  <1>6. CASE u.d = Caida(s.d)
    <2>1. /\ Sigue(s.d, u.d, O) /\ u.d.ind = d.ind /\ u.d.ptr = d.ptr /\ u.d.tam = d.tam
          /\ u.d.usados = d.usados
      BY <1>0, <1>6, CaidaEs
    <2>2. QED
      BY <1>0, <1>3, <1>4, <2>1, SigueSiguiendo DEF EnPaso
  <1>7. CASE \E o, t : u.d = Copiar(s.d, Puntero(s.d, k), o, t)
    BY <1>2, <1>3, <1>4, <1>7 DEF EnPaso
  <1>8. QED
    BY <1>4, <1>5, <1>6, <1>7

\* A turn of the loop of escribir_dentro_archivo, at the data block n.
Pasar(s, d, n, c, cant, off) ==
    IF n \notin Visitados(d, off) THEN s ELSE EscribirEncima(s, n, c, cant, off)

\* The turns t of that loop.
SonPasos(t, d, c, cant, off, e) ==
    /\ t[0] = [d |-> d, escrita |-> 0, fin |-> FALSE]
    /\ \A n \in 0..CantDatos - 1 : t[n + 1] = Pasar(t[n], d, n, c, cant, off)
    /\ e = t[CantDatos].d

\* The loop of escribir_dentro_archivo goes through the blocks of a file.
LEMMA PasosDentro ==
  ASSUME NEW d, NEW c, NEW cant, ~(cant <= 0), NEW off,
         NEW e, e = escribir_dentro_archivo(d, c, cant, off)
  PROVE  \E t : SonPasos(t, d, c, cant, off, e)
  <1>0. CantDatos \in Nat
    BY SacBloquesConstantes DEF CantDatos
  <1> DEFINE inicio == [d |-> d, escrita |-> 0, fin |-> FALSE]
             Sig(s, n) == IF n - 1 \notin Visitados(d, off) THEN s
                          ELSE EscribirEncima(s, n - 1, c, cant, off)
             EsTurno(t, m) == t = [k \in 0..m |-> IF k = 0 THEN inicio ELSE Sig(t[k - 1], k)]
             turno == CHOOSE t : EsTurno(t, CantDatos)
  <1>1. e = turno[CantDatos].d
    BY DEF escribir_dentro_archivo
  <1> HIDE DEF inicio, Sig
  <1>2. \E t : EsTurno(t, CantDatos)
    <2> DEFINE S == {m \in 0..CantDatos : \E t : EsTurno(t, m)}
    <2>1. 0 \in S
      <3>1. PICK t : t = [n \in 0..0 |-> inicio]
        OBVIOUS
      <3>2. EsTurno(t, 0)
        BY <3>1
      <3>3. QED
        BY <1>0, <3>2
    <2>2. ASSUME NEW m \in 0..CantDatos, m \in S, m # CantDatos
          PROVE  m + 1 \in S
      <3>1. PICK t : t = [k \in 0..m |-> IF k = 0 THEN inicio ELSE Sig(t[k - 1], k)]
        BY <2>2
      <3>2. PICK u : u = [k \in 0..m + 1 |-> IF k = 0 THEN inicio ELSE Sig(t[k - 1], k)]
        OBVIOUS
      <3>3. \A n \in 0..m : u[n] = t[n]
        BY <3>1, <3>2
      <3>4. \A n \in 0..m + 1 : n # 0 => u[n - 1] = t[n - 1]
        BY <3>3
      <3>5. EsTurno(u, m + 1)
        BY <3>2, <3>4
      <3>6. m + 1 \in 0..CantDatos
        BY <1>0, <2>2
      <3> HIDE DEF EsTurno
      <3>7. QED
        BY <3>5, <3>6
    <2> HIDE DEF EsTurno
    <2>3. CantDatos \in S
      <3> HIDE DEF S
      <3>1. 0..CantDatos \subseteq S
        BY <1>0, <2>1, <2>2, HastaN
      <3>2. QED
        BY <1>0, <3>1
    <2>4. QED
      BY <2>3
  <1>3. EsTurno(turno, CantDatos)
    BY <1>2
  <1> HIDE DEF turno
  <1>4. turno[0] = inicio /\ \A n \in 0..CantDatos - 1 : turno[n + 1] = Sig(turno[n], n + 1)
    BY <1>0, <1>3
  <1>5. \A n \in 0..CantDatos - 1 : turno[n + 1] = Pasar(turno[n], d, n, c, cant, off)
    <2>1. ASSUME NEW n \in 0..CantDatos - 1
          PROVE  turno[n + 1] = Pasar(turno[n], d, n, c, cant, off)
      <3>1. (n + 1) - 1 = n
        BY <1>0
      <3>2. Sig(turno[n], n + 1) = Pasar(turno[n], d, n, c, cant, off)
        BY <3>1, Zenon DEF Sig, Pasar
      <3>3. QED
        BY <1>4, <3>2
    <2>2. QED
      BY <2>1
  <1>6. turno[0] = [d |-> d, escrita |-> 0, fin |-> FALSE]
    BY <1>4 DEF inicio
  <1>7. QED
    BY <1>1, <1>5, <1>6 DEF SonPasos

\* Writing over the blocks that the file has keeps its places.
LEMMA EscribeDentro ==
  ASSUME NEW d, NEW O, Bien(d, O), NEW c, NEW cant, NEW off,
         NEW e, e = escribir_dentro_archivo(d, c, cant, off)
  PROVE  /\ Sigue(d, e, O) /\ e.tam = d.tam
         /\ e.ind = d.ind /\ e.ptr = d.ptr /\ e.usados = d.usados
  <1>1. CASE cant <= 0
    <2>1. e = d
      BY <1>1 DEF escribir_dentro_archivo
    <2>2. QED
      BY <2>1, SigueDeSi
  <1>2. CASE ~(cant <= 0)
    <2>1. PICK t : SonPasos(t, d, c, cant, off, e)
      BY <1>2, PasosDentro
    <2>2. CantDatos \in Nat
      BY SacBloquesConstantes DEF CantDatos
    <2> DEFINE S == {m \in 0..CantDatos : EnPaso(t[m], d, O)}
    <2>3. 0 \in S
      BY <2>1, <2>2, SigueDeSi DEF SonPasos, EnPaso
    <2>4. ASSUME NEW m \in 0..CantDatos, m \in S, m # CantDatos
          PROVE  m + 1 \in S
      <3>1. t[m + 1] = Pasar(t[m], d, m, c, cant, off) /\ m + 1 \in 0..CantDatos
        BY <2>1, <2>2, <2>4 DEF SonPasos
      <3>2. EnPaso(Pasar(t[m], d, m, c, cant, off), d, O)
        BY <2>4, VisitadosPropios, EscribeEncima DEF Pasar
      <3>3. QED
        BY <3>1, <3>2
    <2>5. CantDatos \in S
      <3> HIDE DEF S
      <3>1. 0..CantDatos \subseteq S
        BY <2>2, <2>3, <2>4, HastaN
      <3>2. QED
        BY <2>2, <3>1
    <2>6. QED
      BY <2>1, <2>5 DEF SonPasos, EnPaso
  <1>3. QED
    BY <1>1, <1>2

\* The size afterwards is the old one or reaches the end of what is written.
LEMMA EscribeArchivo ==
  ASSUME NEW d, NEW O, Bien(d, O), d.tam \in Nat, d.tam < CantDatos * BLOCK_SIZE,
         NEW A, NEW c \in Seq(A), NEW off \in Nat,
         NEW e, e = escribir_archivo(d, c, off)
  PROVE  Sigue(d, e, O) /\ e.tam \in Nat /\ (e.tam = d.tam \/ e.tam <= off + Len(c))
  <1>1. PICK dentro : dentro = d.tam - off
    OBVIOUS
  <1>2. Len(c) \in Nat /\ dentro \in Int
    BY <1>1
  <1>3. CASE off + Len(c) > d.tam
    <2> DEFINE U == A \cup {Basura}
    <2>1. PICK fuera : fuera = [x \in 1..Len(c) - dentro |->
                                  IF x + dentro \in DOMAIN c THEN c[x + dentro] ELSE Basura]
      OBVIOUS
    <2>2. PICK l \in Nat : l = Len(c) - dentro
      BY <1>1, <1>2, <1>3
    <2>3. fuera \in Seq(U) /\ Len(fuera) = l
      <3>1. \A x \in 1..l : fuera[x] \in U
        BY <2>1, <2>2
      <3>2. fuera \in [1..l -> U]
        BY <2>1, <2>2, <3>1
      <3>3. QED
        BY <2>2, <3>2
    <2>4. PICK f : f = escribir_final_archivo(d, fuera)
      OBVIOUS
    <2>5. /\ Sigue(d, f, O) /\ Bien(f, O) /\ f.tam \in Nat /\ f.tam <= d.tam + Len(fuera)
      BY <2>3, <2>4, EscribeFinal DEF Sigue
    <2>6. f.tam <= off + Len(c)
      <3>1. d.tam + l = off + Len(c)
        BY <1>1, <1>2, <2>2
      <3>2. f.tam <= d.tam + l
        BY <2>3, <2>5
      <3>3. QED
        BY <3>1, <3>2, Zenon
    <2>7. CASE ~f.ok
      <3>1. e = f
        BY <1>1, <1>3, <2>1, <2>4, <2>7 DEF escribir_archivo
      <3>2. QED
        BY <2>5, <2>6, <3>1
    <2>8. CASE f.ok
      <3>1. PICK g : g = escribir_dentro_archivo(f, c, dentro, off)
        OBVIOUS
      <3>2. e = [g EXCEPT !.ret = dentro + f.ret]
        BY <1>1, <1>3, <2>1, <2>4, <2>8, <3>1 DEF escribir_archivo
      <3>3. Sigue(f, g, O) /\ g.tam = f.tam
        BY <2>5, <3>1, EscribeDentro
      <3>4. Sigue(g, e, O) /\ e.tam = g.tam
        <4>1. Bien(g, O)
          BY <3>3 DEF Sigue
        <4>2. \E x : e = [g EXCEPT !.ret = x]
          BY <3>2
        <4>3. QED
          BY <4>1, <4>2, ConRet
      <3>5. QED
        BY <2>5, <2>6, <3>3, <3>4, SigueSiguiendo
    <2>9. QED
      BY <2>7, <2>8
  <1>4. CASE ~(off + Len(c) > d.tam)
    <2>1. PICK g : g = escribir_dentro_archivo(d, c, Len(c), off)
      OBVIOUS
    <2>2. e = [g EXCEPT !.ret = Len(c)]
      BY <1>4, <2>1 DEF escribir_archivo
    <2>3. Sigue(d, g, O) /\ g.tam = d.tam
      BY <2>1, EscribeDentro
    <2>4. Sigue(g, e, O) /\ e.tam = g.tam
      <3>1. Bien(g, O)
        BY <2>3 DEF Sigue
      <3>2. \E x : e = [g EXCEPT !.ret = x]
        BY <2>2
      <3>3. QED
        BY <3>1, <3>2, ConRet
    <2>5. QED
      BY <2>3, <2>4, SigueSiguiendo
  <1>5. QED
    BY <1>3, <1>4

(***************************************************************************)
(* Truncating and erasing.                                                 *)
(***************************************************************************)
LEMMA AgregaDato ==
  ASSUME NEW d, NEW O, Bien(d, O), NEW k \in 0..CantDatos - 1, NEW quedan,
         NEW e, e = AgregarDato(d, k, quedan)
  PROVE  Sigue(d, e, O) /\ e.tam = d.tam
  <1>0. DOMAIN d = CamposDisco /\ TipoDe(d)
    BY DEF Bien, TipoDe
  <1>1. PICK b : b = buscar_bloque_libre(d)
    OBVIOUS
  <1>2. PICK i, j : i = Indirecto(k) /\ j = Directo(k)
    OBVIOUS
  <1>3. i \in Indirectos /\ j \in Directos
    BY <1>2, PosicionEs
  <1>4. PICK f : f = [d EXCEPT !.ptr[d.ind[i]][j] = b, !.usados = @ \cup {b}]
    OBVIOUS
  <1>5. PICK p : p = buscar_bloque_libre(f)
    OBVIOUS
  <1>6. e = IF b = -1 THEN [d EXCEPT !.ret = -1]
            ELSE IF d.ind[i] = 0 THEN Caida(d)
            ELSE IF ~quedan \/ j < CANT_DIRECTOS - 1 THEN f
            ELSE IF p = -1 THEN Caida(f)
            ELSE ConBloquePtr(f, i + 1, p)
    BY <1>1, <1>2, <1>4, <1>5 DEF AgregarDato
  <1>7. CASE b = -1
    <2>1. \E x : e = [d EXCEPT !.ret = x]
      BY <1>6, <1>7
    <2>2. QED
      BY <2>1, ConRet
  <1>8. CASE b # -1 /\ d.ind[i] = 0
    BY <1>6, <1>8, CaidaEs
  <1>9. CASE b # -1 /\ d.ind[i] # 0
    <2>1. b \in Bloques \ d.usados
      BY <1>1, <1>9, LibreEs
    <2>2. /\ DOMAIN f = CamposDisco /\ f.ind = d.ind /\ f.usados = d.usados \cup {b}
          /\ f.ptr = [d.ptr EXCEPT ![d.ind[i]][j] = b] /\ f.datos = d.datos /\ f.tam = d.tam
      BY <1>0, <1>4 DEF CamposDisco
    <2>3. Sigue(d, f, O) /\ Bien(f, O)
      <3>1. PonePuntero(d, f, O, i, j, b)
        BY <1>0, <2>1, <2>2 DEF PonePuntero, TipoDe
      <3>2. b \in (Bloques \ d.usados) \cup {-1}
        BY <2>1
      <3>3. QED
        BY <1>3, <1>9, <3>1, <3>2, ConDato DEF Sigue
    <2>4. CASE e = f
      BY <2>2, <2>3, <2>4
    <2>5. CASE e = Caida(f)
      <3>1. Sigue(f, e, O) /\ e.tam = f.tam
        BY <2>3, <2>5, CaidaEs
      <3>2. QED
        BY <2>2, <2>3, <3>1, SigueSiguiendo
    <2>6. CASE p # -1 /\ e = ConBloquePtr(f, i + 1, p)
      <3>1. p \in Bloques \ f.usados
        BY <1>5, <2>6, LibreEs
      <3>2. Sigue(f, e, O) /\ e.tam = f.tam
        BY <2>3, <2>6, <3>1, ConIndirecto DEF Sigue
      <3>3. QED
        BY <2>2, <2>3, <3>2, SigueSiguiendo
    <2>7. QED
      BY <1>6, <1>9, <2>4, <2>5, <2>6
  <1>10. QED
    BY <1>7, <1>8, <1>9

\* The greater of a number and zero.
LEMMA MaxConCero ==
  ASSUME NEW x \in Int
  PROVE  Max({0, x}) \in Nat /\ (Max({0, x}) = x \/ Max({0, x}) = 0)
  <1>1. \E m \in {0, x} : \A y \in {0, x} : m >= y
    <2>1. CASE x >= 0
      BY <2>1
    <2>2. CASE x < 0
      BY <2>2
    <2>3. QED
      BY <2>1, <2>2
  <1>2. Max({0, x}) \in {0, x} /\ \A y \in {0, x} : Max({0, x}) >= y
    BY <1>1 DEF Max
  <1>3. QED
    BY <1>2

\* A size of t bytes more than some blocks: the blocks that are counted for t.
LEMMA BloquesAcotados ==
  ASSUME NEW t \in Int, t > -BLOCK_SIZE
  PROVE  /\ cant_bloques_necesaria(t) \in Int
         /\ cant_bloques_necesaria(t) <= 1 \/ (cant_bloques_necesaria(t) - 1) * BLOCK_SIZE < t
  <1>1. PICK B \in Nat \ {0} : B = BLOCK_SIZE
    BY SacBloquesConstantes
  <1>2. PICK x \in Nat : x = t + B - 1
    BY <1>1
  <1>3. PICK q \in Nat, r \in Nat : q = x \div B /\ x = q * B + r /\ r < B
    BY Entre
  <1>4. CASE t < 0
    <2>1. q = 0
      <3>1. x < B
        BY <1>2, <1>4
      <3>2. ASSUME q >= 1 PROVE FALSE
        <4>1. PICK y \in Nat : q = y + 1
          BY <3>2
        <4>2. q * B = y * B + B /\ y * B \in Nat
          BY <4>1
        <4>3. QED
          BY <1>3, <3>1, <4>2
      <3>3. QED
        BY <3>2
    <2>2. cant_bloques_necesaria(t) = q + (IF t < 0 /\ t % B # 0 THEN 1 ELSE 0)
      BY <1>1, <1>2, <1>3 DEF cant_bloques_necesaria
    <2>3. QED
      BY <2>1, <2>2
  <1>5. CASE t >= 0
    <2>1. cant_bloques_necesaria(t) = q
      BY <1>1, <1>2, <1>3, <1>5 DEF cant_bloques_necesaria
    <2>2. (q - 1) * B = q * B - B /\ q * B \in Nat
      OBVIOUS
    <2>3. q * B - B < t
      BY <1>2, <1>3, <2>2
    <2>4. QED
      BY <1>1, <2>1, <2>2, <2>3
  <1>6. QED
    BY <1>4, <1>5

\* The positions that lengthening a file fills are all in the file.
LEMMA AlargarDentro ==
  ASSUME NEW tam \in Nat, NEW off \in Nat, off > tam, off < CantDatos * BLOCK_SIZE,
         NEW agregar, agregar = Max({0, cant_bloques_necesaria(
                                          off - tam - (BLOCK_SIZE - EnBloque(tam)))})
  PROVE  /\ agregar \in Nat
         /\ \A n \in 1..agregar : NroBloque(tam) + n - 1 \in 0..CantDatos - 1
  <1>1. PICK B \in Nat \ {0} : B = BLOCK_SIZE
    BY SacBloquesConstantes
  <1>2. PICK q \in Nat, o \in Nat : /\ q = NroBloque(tam) /\ o = EnBloque(tam)
                                    /\ tam = q * B + o /\ o < B
    BY <1>1, Entre DEF NroBloque, EnBloque
  <1>3. PICK t \in Int : t = off - tam - (B - o)
    BY <1>1
  <1>4. PICK w \in Nat : w = q * B
    OBVIOUS
  <1>5. tam = w + o /\ off = w + B + t /\ t > -B
    <2>1. tam = w + o /\ o < B
      BY <1>2, <1>4
    <2>2. QED
      BY <1>3, <2>1
  <1>6. PICK m \in Int : m = cant_bloques_necesaria(t) /\ (m <= 1 \/ (m - 1) * B < t)
    BY <1>1, <1>5, BloquesAcotados
  <1>7. agregar \in Nat /\ (agregar = m \/ agregar = 0)
    <2>1. agregar = Max({0, m})
      BY <1>1, <1>2, <1>3, <1>6
    <2>2. QED
      BY <2>1, MaxConCero
  <1>8. PICK D \in Nat : D = CantDatos
    BY SacBloquesConstantes DEF CantDatos
  <1>9. ASSUME NEW n \in 1..agregar
        PROVE  NroBloque(tam) + n - 1 \in 0..CantDatos - 1
    <2>1. PICK x \in Nat : x = n - 1 /\ x <= m - 1 /\ m >= 1
      BY <1>7, <1>9
    <2>2. x * B < t \/ x = 0
      <3>1. CASE m <= 1
        BY <2>1, <3>1
      <3>2. CASE (m - 1) * B < t
        <4>1. PICK y \in Nat : m - 1 = x + y
          BY <2>1
        <4>2. (m - 1) * B = x * B + y * B /\ y * B \in Nat /\ x * B \in Nat
          BY <4>1
        <4>3. QED
          BY <3>2, <4>2
      <3>3. QED
        BY <1>6, <3>1, <3>2
    <2>3. PICK z \in Nat : z = x * B
      OBVIOUS
    <2>4. w + z < off
      <3>1. CASE x = 0
        <4>1. z = 0
          BY <2>3, <3>1
        <4>2. w <= tam
          BY <1>5
        <4>3. QED
          BY <4>1, <4>2
      <3>2. CASE z < t
        BY <1>5, <3>2
      <3>3. QED
        BY <2>2, <2>3, <3>1, <3>2
    <2>5. (q + x) * B = w + z
      BY <1>4, <2>3
    <2>6. q + x < D
      <3>1. ASSUME q + x >= D PROVE FALSE
        <4>1. PICK y \in Nat : q + x = D + y
          BY <3>1
        <4>2. (q + x) * B = D * B + y * B /\ y * B \in Nat /\ D * B \in Nat
          BY <4>1
        <4>3. off < D * B
          BY <1>1, <1>8
        <4>4. QED
          BY <2>4, <2>5, <4>2, <4>3
      <3>2. QED
        BY <3>1
    <2>7. QED
      BY <1>2, <1>8, <2>1, <2>6
  <1>10. QED
    BY <1>7, <1>9

\* Lengthening takes free blocks only.
LEMMA AlargaArchivo ==
  ASSUME NEW d, NEW O, Bien(d, O), d.tam \in Nat, NEW off \in Nat, off > d.tam,
         off < CantDatos * BLOCK_SIZE, NEW e, e = Alargar(d, off)
  PROVE  Sigue(d, e, O) /\ e.tam \in {d.tam, d.tam + off, off}
  <1>1. PICK b : b = buscar_bloque_libre(d)
    OBVIOUS
  <1> DEFINE espacio == BLOCK_SIZE - EnBloque(d.tam)
             agregar == Max({0, cant_bloques_necesaria(off - d.tam - espacio)})
             base == IF d.tam > 0 THEN d
                     ELSE IF buscar_bloque_libre(d) = -1 THEN Caida(d)
                     ELSE ConBloquePtr(d, 0, buscar_bloque_libre(d))
             inicio == [base EXCEPT !.ret = 0]
             Sig(f, n) == IF ~f.ok \/ f.ret = -1 THEN f
                          ELSE AgregarDato(f, NroBloque(d.tam) + n - 1, n < agregar)
             EsTurno(t, m) == t = [n \in 0..m |-> IF n = 0 THEN inicio ELSE Sig(t[n - 1], n)]
             turno == CHOOSE t : EsTurno(t, agregar)
             EnCurso(f) == Sigue(d, f, O) /\ f.tam = d.tam
  <1>2. e = IF off < espacio THEN [d EXCEPT !.tam = @ + off, !.ret = 0]
            ELSE IF turno[agregar].ret = -1 THEN turno[agregar]
            ELSE [turno[agregar] EXCEPT !.tam = off]
    BY DEF Alargar
  <1>3. agregar \in Nat /\ \A n \in 1..agregar : NroBloque(d.tam) + n - 1 \in 0..CantDatos - 1
    BY AlargarDentro
  <1>4. EnCurso(inicio)
    <2>1. EnCurso(base) /\ Bien(base, O)
      <3>1. CASE base = d
        BY <3>1, SigueDeSi
      <3>2. CASE base = Caida(d)
        BY <3>2, CaidaEs DEF Sigue
      <3>3. CASE b # -1 /\ base = ConBloquePtr(d, 0, b)
        <4>1. b \in Bloques \ d.usados
          BY <1>1, <3>3, LibreEs
        <4> HIDE DEF base
        <4>2. QED
          BY <3>3, <4>1, ConIndirecto DEF Sigue
      <3>4. QED
        BY <1>1, <3>1, <3>2, <3>3
    <2> HIDE DEF base
    <2>2. \E x : inicio = [base EXCEPT !.ret = x]
      OBVIOUS
    <2>3. Sigue(base, inicio, O) /\ inicio.tam = base.tam
      <3> HIDE DEF inicio
      <3>1. QED
        BY <2>1, <2>2, ConRet
    <2>4. QED
      BY <2>1, <2>3, SigueSiguiendo
  <1> HIDE DEF agregar, inicio, base
  <1>5. ASSUME NEW f, EnCurso(f), NEW n \in 1..agregar
        PROVE  EnCurso(Sig(f, n))
    <2>1. NroBloque(d.tam) + n - 1 \in 0..CantDatos - 1
      BY <1>3
    <2>2. PICK g : g = AgregarDato(f, NroBloque(d.tam) + n - 1, n < agregar)
      OBVIOUS
    <2>3. Sigue(f, g, O) /\ g.tam = f.tam
      <3>1. Bien(f, O)
        BY <1>5 DEF Sigue
      <3>2. QED
        BY <2>1, <2>2, <3>1, AgregaDato
    <2>4. EnCurso(g)
      BY <1>5, <2>3, SigueSiguiendo
    <2>5. QED
      BY <1>5, <2>2, <2>4
  <1> HIDE DEF Sig, EnCurso
  <1>6. \E t : EsTurno(t, agregar)
    <2> DEFINE S == {m \in 0..agregar : \E t : EsTurno(t, m)}
    <2>1. 0 \in S
      <3>1. PICK t : t = [n \in 0..0 |-> inicio]
        OBVIOUS
      <3>2. EsTurno(t, 0)
        BY <3>1
      <3>3. QED
        BY <1>3, <3>2
    <2>2. ASSUME NEW m \in 0..agregar, m \in S, m # agregar
          PROVE  m + 1 \in S
      <3>1. PICK t : t = [n \in 0..m |-> IF n = 0 THEN inicio ELSE Sig(t[n - 1], n)]
        BY <2>2
      <3>2. PICK u : u = [n \in 0..m + 1 |-> IF n = 0 THEN inicio ELSE Sig(t[n - 1], n)]
        OBVIOUS
      <3>3. \A n \in 0..m : u[n] = t[n]
        BY <3>1, <3>2
      <3>4. \A n \in 0..m + 1 : n # 0 => u[n - 1] = t[n - 1]
        BY <3>3
      <3>5. EsTurno(u, m + 1)
        BY <3>2, <3>4
      <3>6. m + 1 \in 0..agregar
        BY <1>3, <2>2
      <3> HIDE DEF EsTurno
      <3>7. QED
        BY <3>5, <3>6
    <2> HIDE DEF EsTurno
    <2>3. agregar \in S
      <3> HIDE DEF S
      <3>1. 0..agregar \subseteq S
        BY <1>3, <2>1, <2>2, HastaN
      <3>2. QED
        BY <1>3, <3>1
    <2>4. QED
      BY <2>3
  <1>7. EsTurno(turno, agregar)
    BY <1>6
  <1> HIDE DEF turno
  <1>8. EnCurso(turno[agregar])
    <2> DEFINE S == {m \in 0..agregar : EnCurso(turno[m])}
    <2>1. 0 \in S
      BY <1>3, <1>4, <1>7
    <2>2. ASSUME NEW m \in 0..agregar, m \in S, m # agregar
          PROVE  m + 1 \in S
      <3>1. turno[m + 1] = Sig(turno[m], m + 1) /\ m + 1 \in 1..agregar
        BY <1>3, <1>7, <2>2
      <3>2. QED
        BY <1>5, <2>2, <3>1
    <2>3. agregar \in S
      <3> HIDE DEF S
      <3>1. 0..agregar \subseteq S
        BY <1>3, <2>1, <2>2, HastaN
      <3>2. QED
        BY <1>3, <3>1
    <2>4. QED
      BY <2>3
  <1>9. PICK fin : fin = turno[agregar]
    OBVIOUS
  <1>10. Sigue(d, fin, O) /\ fin.tam = d.tam /\ Bien(fin, O) /\ DOMAIN fin = CamposDisco
    BY <1>8, <1>9, SigueBien DEF EnCurso
  <1>11. CASE e = fin
    BY <1>10, <1>11
  <1>12. CASE e = [d EXCEPT !.tam = @ + off, !.ret = 0]
    <2>1. PICK t : t = d.tam + off
      OBVIOUS
    <2>2. DOMAIN d = CamposDisco
      BY SigueDeSi
    <2>3. /\ DOMAIN e = CamposDisco /\ e.ind = d.ind /\ e.ptr = d.ptr
          /\ e.datos = d.datos /\ e.usados = d.usados /\ e.tam = t
      BY <1>12, <2>1, <2>2 DEF CamposDisco
    <2>4. Sigue(d, e, O)
      BY <2>3, SigueDeSi, SigueIgual
    <2>5. QED
      BY <2>1, <2>3, <2>4
  <1>13. CASE e = [fin EXCEPT !.tam = off]
    <2>1. /\ DOMAIN e = CamposDisco /\ e.ind = fin.ind /\ e.ptr = fin.ptr
          /\ e.datos = fin.datos /\ e.usados = fin.usados /\ e.tam = off
      BY <1>10, <1>13 DEF CamposDisco
    <2>2. Sigue(d, e, O)
      BY <1>10, <2>1, SigueIgual
    <2>3. QED
      BY <2>1, <2>2
  <1>14. QED
    BY <1>2, <1>9, <1>11, <1>12, <1>13

\* Shortening frees blocks of the file, and cuts one of them.
LEMMA AcortaArchivo ==
  ASSUME NEW d, NEW O, Bien(d, O), NEW off \in Nat, NEW e, e = Acortar(d, off)
  PROVE  Sigue(d, e, O) /\ e.tam \in {d.tam, off}
  <1> DEFINE i0 == Indirecto(NroBloque(off))
             j0 == Directo(NroBloque(off))
             a_truncar == cant_bloques_necesaria(d.tam) - cant_bloques_necesaria(off)
             todos == Visitados(d, off)
             visitados == {k \in todos : Cardinality({h \in todos : h < k}) <= a_truncar}
             primeros == {k \in visitados : Directo(k) = j0}
             quedan == {k \in primeros : \A h \in primeros : h >= k}
             borrados == visitados \ quedan
             Antes(i) == Cardinality({k \in todos : Indirecto(k) < i})
             indBorrados == {i \in Indirectos : /\ i > i0 /\ Antes(i) <= a_truncar
                                                /\ \A h \in i0..i : d.ind[h] # 0}
             soltado == Soltar(d, borrados, indBorrados)
             corto == [soltado EXCEPT !.tam = off, !.ret = 0]
  <1>1. \/ e = Caida(d)
        \/ e = corto
        \/ quedan # {} /\ e = Copiar(corto, Puntero(d, Min(quedan)), EnBloque(off), <<0>>)
    BY DEF Acortar
  <1>2. visitados \subseteq Propios(d)
    BY VisitadosPropios
  <1>3. borrados \subseteq Propios(d) /\ quedan \subseteq Propios(d)
    <2> HIDE DEF visitados
    <2>1. QED
      BY <1>2
  <1>4. indBorrados \subseteq {i \in Indirectos : d.ind[i] # 0}
    <2>1. ASSUME NEW i \in indBorrados PROVE i \in Indirectos /\ d.ind[i] # 0
      <3>1. i \in Indirectos /\ i > i0 /\ \A h \in i0..i : d.ind[h] # 0
        BY <2>1
      <3>2. i \in i0..i
        <4>1. BLOCK_SIZE \in Nat \ {0} /\ CANT_DIRECTOS \in Nat \ {0}
          BY SacBloquesConstantes
        <4>2. NroBloque(off) \in Nat
          BY <4>1, Entre DEF NroBloque
        <4>3. i0 \in Nat
          BY <4>1, <4>2, Entre DEF Indirecto
        <4> HIDE DEF i0
        <4>4. QED
          BY <3>1, <4>3 DEF Indirectos
      <3>3. QED
        BY <3>1, <3>2
    <2> HIDE DEF indBorrados
    <2>2. QED
      BY <2>1
  <1> HIDE DEF borrados, indBorrados, quedan
  <1>5. /\ Sigue(d, soltado, O) /\ DOMAIN soltado = CamposDisco
    BY <1>3, <1>4, Soltado DEF Sigue
  <1> HIDE DEF soltado
  <1>6. Sigue(d, corto, O) /\ corto.tam = off
    <2>1. /\ DOMAIN corto = CamposDisco /\ corto.ind = soltado.ind /\ corto.ptr = soltado.ptr
          /\ corto.datos = soltado.datos /\ corto.usados = soltado.usados /\ corto.tam = off
      BY <1>5 DEF CamposDisco
    <2> HIDE DEF corto
    <2>2. QED
      BY <1>5, <2>1, SigueIgual
  <1> HIDE DEF corto
  <1>7. CASE e = Caida(d)
    BY <1>7, CaidaEs
  <1>8. CASE e = corto
    BY <1>6, <1>8
  <1>9. CASE quedan # {} /\ e = Copiar(corto, Puntero(d, Min(quedan)), EnBloque(off), <<0>>)
    <2>1. quedan \in SUBSET Nat
      <3>1. Propios(d) \in SUBSET Nat
        BY DEF Propios
      <3>2. QED
        BY <1>3, <3>1
    <2>2. Min(quedan) \in Propios(d)
      BY <1>3, <1>9, <2>1, PrimeroEsta
    <2>3. Puntero(d, Min(quedan)) \notin O
      BY <2>2, PunteroPropio
    <2>4. Sigue(corto, e, O) /\ e.tam = corto.tam
      <3>1. Bien(corto, O)
        BY <1>6 DEF Sigue
      <3>2. QED
        BY <1>9, <2>3, <3>1, Copiado DEF Sigue
    <2>5. QED
      BY <1>6, <2>4, SigueSiguiendo
  <1>10. QED
    BY <1>1, <1>7, <1>8, <1>9

\* Truncating, up or down.
LEMMA TruncaArchivo ==
  ASSUME NEW d, NEW O, Bien(d, O), d.tam \in Nat, NEW off \in Nat,
         off < CantDatos * BLOCK_SIZE, NEW e, e = truncar_archivo_por_nodo(d, off)
  PROVE  Sigue(d, e, O) /\ e.tam \in {d.tam, d.tam + off, off}
  <1>1. CASE off > d.tam
    BY <1>1, AlargaArchivo DEF truncar_archivo_por_nodo
  <1>2. CASE ~(off > d.tam)
    BY <1>2, AcortaArchivo DEF truncar_archivo_por_nodo
  <1>3. QED
    BY <1>1, <1>2

\* Erasing frees blocks of the file, and writes no byte.
LEMMA BorraArchivo ==
  ASSUME NEW d, NEW O, Bien(d, O), NEW e, e = borrar_archivo_por_nodo(d)
  PROVE  Sigue(d, e, O) /\ e.datos = d.datos
  <1> DEFINE bloques == {i \in Indirectos : \A h \in 0..i : d.ind[h] # 0}
  <1>1. PICK f : f = Soltar(d, Visitados(d, 0), bloques)
    OBVIOUS
  <1>2. e = [f EXCEPT !.tam = 0]
    BY <1>1 DEF borrar_archivo_por_nodo
  <1>3. bloques \subseteq {i \in Indirectos : d.ind[i] # 0}
    BY DEF Indirectos
  <1>4. Sigue(d, f, O) /\ DOMAIN f = CamposDisco /\ f.datos = d.datos
    <2> HIDE DEF bloques
    <2>1. QED
      BY <1>1, <1>3, VisitadosPropios, Soltado DEF Sigue
  <1>5. /\ DOMAIN e = CamposDisco /\ e.ind = f.ind /\ e.ptr = f.ptr
        /\ e.datos = f.datos /\ e.usados = f.usados
    BY <1>2, <1>4 DEF CamposDisco
  <1>6. QED
    BY <1>4, <1>5, SigueIgual

(***************************************************************************)
(* The blocks of all the files: the table t of nodes, the files A, the     *)
(* bitmap us and the blocks of pointers p.                                 *)
(***************************************************************************)
EnSitio(t, p, m, i, j) ==
    LET ind == t[m].simple_indirect[i] IN IF ind = 0 \/ j = -1 THEN ind ELSE p[ind][j]

\* No other place of the files A has the block of <<m, i, j>>.
SinOtro(A, t, p, m, i, j) ==
    \A n \in A, h \in Indirectos, k \in Columnas :
        EnSitio(t, p, m, i, j) = EnSitio(t, p, n, h, k) => m = n /\ i = h /\ j = k

Reparto(A, t, us, p) ==
    \A m \in A, i \in Indirectos, j \in Columnas :
        EnSitio(t, p, m, i, j) \in Bloques =>
            EnSitio(t, p, m, i, j) \in us /\ SinOtro(A, t, p, m, i, j)

\* The places of SacDisco are those of EnSitio.
LEMMA LugarEs ==
  /\ \A l : l \in Lugares <=> \E m \in Archivos, i \in Indirectos, j \in Columnas :
                                 l = <<m, i, j>>
  /\ \A m, i, j : BloqueEn(<<m, i, j>>) = EnSitio(tabla_nodos, ptr_direct, m, i, j)
  <1>1. \A l : l \in Lugares <=> \E m \in Archivos, i \in Indirectos, j \in Columnas :
                                 l = <<m, i, j>>
    BY DEF Lugares, Columnas
  <1>2. \A m, i, j : BloqueEn(<<m, i, j>>) = EnSitio(tabla_nodos, ptr_direct, m, i, j)
    BY DEF BloqueEn, EnSitio
  <1>3. QED
    BY <1>1, <1>2

\* BloqueDeUno, on the table and the disk as they are.
LEMMA RepartoEs == BloqueDeUno <=> Reparto(Archivos, tabla_nodos, bitmap, ptr_direct)
  <1>1. \A l, m : l \in EnUso /\ m = l => m \in Lugares /\ BloqueEn(l) \in Bloques
    BY DEF EnUso
  <1>2. ASSUME BloqueDeUno PROVE Reparto(Archivos, tabla_nodos, bitmap, ptr_direct)
    <2>1. ASSUME NEW m \in Archivos, NEW i \in Indirectos, NEW j \in Columnas,
                 EnSitio(tabla_nodos, ptr_direct, m, i, j) \in Bloques
          PROVE  /\ <<m, i, j>> \in EnUso
                 /\ BloqueEn(<<m, i, j>>) = EnSitio(tabla_nodos, ptr_direct, m, i, j)
      BY <2>1, LugarEs DEF EnUso
    <2>2. ASSUME NEW m \in Archivos, NEW i \in Indirectos, NEW j \in Columnas,
                 EnSitio(tabla_nodos, ptr_direct, m, i, j) \in Bloques
          PROVE  EnSitio(tabla_nodos, ptr_direct, m, i, j) \in bitmap
      BY <1>2, <2>1, <2>2 DEF BloqueDeUno
    <2>3. ASSUME NEW m \in Archivos, NEW i \in Indirectos, NEW j \in Columnas,
                 NEW n \in Archivos, NEW h \in Indirectos, NEW k \in Columnas,
                 EnSitio(tabla_nodos, ptr_direct, m, i, j) \in Bloques,
                 EnSitio(tabla_nodos, ptr_direct, m, i, j)
                   = EnSitio(tabla_nodos, ptr_direct, n, h, k)
          PROVE  m = n /\ i = h /\ j = k
      <3>1. /\ <<m, i, j>> \in EnUso /\ <<n, h, k>> \in EnUso
            /\ BloqueEn(<<m, i, j>>) = BloqueEn(<<n, h, k>>)
        BY <2>1, <2>3
      <3>2. <<m, i, j>> = <<n, h, k>>
        BY <1>2, <3>1 DEF BloqueDeUno
      <3>3. QED
        BY <3>2
    <2>4. QED
      BY <2>2, <2>3 DEF Reparto, SinOtro
  <1>3. ASSUME Reparto(Archivos, tabla_nodos, bitmap, ptr_direct) PROVE BloqueDeUno
    <2>1. ASSUME NEW l \in EnUso
          PROVE  BloqueEn(l) \in Bloques /\ \E m \in Archivos, i \in Indirectos, j \in Columnas :
                   l = <<m, i, j>> /\ BloqueEn(l) = EnSitio(tabla_nodos, ptr_direct, m, i, j)
      BY LugarEs DEF EnUso
    <2>2. ASSUME NEW l \in EnUso PROVE BloqueEn(l) \in bitmap
      BY <1>3, <2>1 DEF Reparto
    <2>3. ASSUME NEW l \in EnUso, NEW q \in EnUso, BloqueEn(l) = BloqueEn(q) PROVE l = q
      <3>1. PICK m \in Archivos, i \in Indirectos, j \in Columnas :
               l = <<m, i, j>> /\ BloqueEn(l) = EnSitio(tabla_nodos, ptr_direct, m, i, j)
        BY <2>1
      <3>2. PICK n \in Archivos, h \in Indirectos, k \in Columnas :
               q = <<n, h, k>> /\ BloqueEn(q) = EnSitio(tabla_nodos, ptr_direct, n, h, k)
        BY <2>1
      <3>3. EnSitio(tabla_nodos, ptr_direct, m, i, j) \in Bloques
        BY <2>1, <3>1
      <3>4. m = n /\ i = h /\ j = k
        <4>1. EnSitio(tabla_nodos, ptr_direct, m, i, j)
                = EnSitio(tabla_nodos, ptr_direct, n, h, k)
          BY <2>3, <3>1, <3>2
        <4>2. SinOtro(Archivos, tabla_nodos, ptr_direct, m, i, j)
          BY <1>3, <3>3 DEF Reparto
        <4>3. QED
          BY <4>1, <4>2, Zenon DEF SinOtro
      <3>5. QED
        BY <3>1, <3>2, <3>4
    <2>4. QED
      BY <2>2, <2>3 DEF BloqueDeUno
  <1>4. QED
    BY <1>2, <1>3

\* BloqueDeUno, on the table and the disk as a step leaves them.
LEMMA RepartoSera == BloqueDeUno' <=> Reparto(Archivos', tabla_nodos', bitmap', ptr_direct')
  <1>1. (BloqueDeUno <=> Reparto(Archivos, tabla_nodos, bitmap, ptr_direct))'
    BY RepartoEs, PTL
  <1>2. QED
    BY <1>1 DEF Reparto, SinOtro, EnSitio

(***************************************************************************)
(* The blocks of one file among the blocks of all.                         *)
(***************************************************************************)
ArchivoDe(t, us, p, D, n) ==
    [ind |-> t[n].simple_indirect, tam |-> t[n].tam_archivo,
     usados |-> us, ptr |-> p, datos |-> D, ok |-> TRUE, ret |-> 0]

\* The blocks of the files other than n.
Otros(A, t, p, n) ==
    {b \in Bloques : \E m \in A \ {n}, i \in Indirectos, j \in Columnas : EnSitio(t, p, m, i, j) = b}

TipoBloques(t, us, p, D) ==
    /\ \A m \in Nodos : t[m].simple_indirect \in [Indirectos -> {0} \cup Bloques]
    /\ us \in SUBSET Bloques
    /\ p \in [Bloques -> [Directos -> Punteros]]
    /\ \A b \in Bloques, j \in Directos : p[b][j] = -1 => j = 0
    /\ DOMAIN D = Bloques
    /\ \A b \in Bloques : DOMAIN D[b] = Bytes

\* The files A keep their size, their places and the bytes of their blocks.
Iguales(A, t, p, D, u, q, E) ==
    \A m \in A :
        /\ u[m].tam_archivo = t[m].tam_archivo
        /\ \A i \in Indirectos, j \in Columnas :
              /\ EnSitio(u, q, m, i, j) = EnSitio(t, p, m, i, j)
              /\ EnSitio(t, p, m, i, j) \in Bloques =>
                    E[EnSitio(t, p, m, i, j)] = D[EnSitio(t, p, m, i, j)]

\* Each file has its blocks apart from the blocks of the others.
LEMMA BienArchivo ==
  ASSUME NEW t, NEW us, NEW p, NEW D, NEW A \in SUBSET Nodos, NEW n \in A,
         TipoBloques(t, us, p, D), Reparto(A, t, us, p)
  PROVE  Bien(ArchivoDe(t, us, p, D, n), Otros(A, t, p, n))
  <1>1. PICK d : d = ArchivoDe(t, us, p, D, n)
    OBVIOUS
  <1>2. PICK O : O = Otros(A, t, p, n)
    OBVIOUS
  <1>3. /\ DOMAIN d = CamposDisco /\ d.ind = t[n].simple_indirect /\ d.usados = us
        /\ d.ptr = p /\ d.datos = D
    BY <1>1 DEF ArchivoDe, CamposDisco
  <1>4. TipoDe(d)
    BY <1>3 DEF TipoDe, TipoBloques
  <1>5. \A i, j : Sitio(d, i, j) = EnSitio(t, p, n, i, j)
    BY <1>3 DEF Sitio, EnSitio
  <1>6. ASSUME NEW b \in O
        PROVE  b \in us /\ \A i \in Indirectos, j \in Columnas : EnSitio(t, p, n, i, j) # b
    <2>1. PICK m \in A \ {n}, h \in Indirectos, k \in Columnas : EnSitio(t, p, m, h, k) = b
      BY <1>2 DEF Otros
    <2>2. b \in Bloques
      BY <1>2 DEF Otros
    <2>3. b \in us
      BY <2>1, <2>2 DEF Reparto
    <2>4. ASSUME NEW i \in Indirectos, NEW j \in Columnas, EnSitio(t, p, n, i, j) = b
          PROVE  FALSE
      <3>1. EnSitio(t, p, m, h, k) \in Bloques
            /\ EnSitio(t, p, m, h, k) = EnSitio(t, p, n, i, j)
        BY <2>1, <2>2, <2>4
      <3>2. m = n
        <4>1. SinOtro(A, t, p, m, h, k)
          BY <3>1 DEF Reparto
        <4>2. QED
          BY <3>1, <4>1, Zenon DEF SinOtro
      <3>3. QED
        BY <3>2
    <2>5. QED
      BY <2>3, <2>4
  <1>7. SitiosUnicos(d)
    <2>1. ASSUME NEW i \in Indirectos, NEW h \in Indirectos, NEW j \in Columnas,
                 NEW k \in Columnas, Sitio(d, i, j) \in Bloques, Sitio(d, i, j) = Sitio(d, h, k)
          PROVE  i = h /\ j = k
      <3>1. EnSitio(t, p, n, i, j) \in Bloques
            /\ EnSitio(t, p, n, i, j) = EnSitio(t, p, n, h, k)
        BY <1>5, <2>1
      <3>2. QED
        <4>1. SinOtro(A, t, p, n, i, j)
          BY <3>1 DEF Reparto
        <4>2. QED
          BY <3>1, <4>1, Zenon DEF SinOtro
    <2>2. QED
      BY <2>1 DEF SitiosUnicos
  <1>8. \A i \in Indirectos, j \in Columnas :
           Sitio(d, i, j) \in Bloques => Sitio(d, i, j) \in d.usados \ O
    BY <1>3, <1>5, <1>6 DEF Reparto
  <1>9. QED
    BY <1>1, <1>2, <1>3, <1>4, <1>6, <1>7, <1>8 DEF Bien

\* A file m other than n sees nothing of what happens outside the others of n.
LEMMA OtrosIguales ==
  ASSUME NEW t, NEW us, NEW p, NEW D, NEW u, NEW q, NEW E, NEW A \in SUBSET Nodos,
         NEW n, NEW Z \in SUBSET (A \ {n}), TipoBloques(t, us, p, D),
         \A b \in Otros(A, t, p, n) : q[b] = p[b] /\ E[b] = D[b],
         \A m \in Z : /\ u[m].tam_archivo = t[m].tam_archivo
                       /\ u[m].simple_indirect = t[m].simple_indirect
  PROVE  Iguales(Z, t, p, D, u, q, E)
  <1>1. ASSUME NEW m \in Z, NEW i \in Indirectos, NEW j \in Columnas
        PROVE  /\ EnSitio(u, q, m, i, j) = EnSitio(t, p, m, i, j)
               /\ EnSitio(t, p, m, i, j) \in Bloques =>
                     E[EnSitio(t, p, m, i, j)] = D[EnSitio(t, p, m, i, j)]
    <2>1. m \in A \ {n}
      OBVIOUS
    <2>2. \A k \in Columnas : EnSitio(t, p, m, i, k) \in Bloques =>
                                 EnSitio(t, p, m, i, k) \in Otros(A, t, p, n)
      BY <2>1 DEF Otros
    <2>3. PICK b : b = t[m].simple_indirect[i]
      OBVIOUS
    <2>4. b # 0 => b \in Otros(A, t, p, n)
      <3>1. b \in {0} \cup Bloques
        BY <2>1, <2>3 DEF TipoBloques
      <3>2. EnSitio(t, p, m, i, -1) = b /\ -1 \in Columnas
        BY <2>3 DEF EnSitio, Columnas
      <3>3. QED
        BY <2>2, <3>1, <3>2
    <2>5. b # 0 => q[b] = p[b]
      BY <2>4
    <2>6. EnSitio(u, q, m, i, j) = EnSitio(t, p, m, i, j)
      BY <2>3, <2>5 DEF EnSitio
    <2>7. QED
      BY <2>2, <2>6
  <1>2. QED
    BY <1>1 DEF Iguales

\* An operation on file n leaves the blocks of all the files apart.
LEMMA UnoCambia ==
  ASSUME NEW t, NEW us, NEW p, NEW D, NEW u, NEW e, NEW A \in SUBSET Nodos, NEW n \in A,
         Reparto(A, t, us, p), Bien(e, Otros(A, t, p, n)), u[n].simple_indirect = e.ind,
         Iguales(A \ {n}, t, p, D, u, e.ptr, e.datos)
  PROVE  Reparto(A, u, e.usados, e.ptr)
  <1>1. PICK O : O = Otros(A, t, p, n)
    OBVIOUS
  <1>2. PICK q : q = e.ptr
    OBVIOUS
  <1>3. \A i, j : EnSitio(u, q, n, i, j) = Sitio(e, i, j)
    BY <1>2 DEF EnSitio, Sitio
  <1>4. ASSUME NEW m \in A \ {n}, NEW i \in Indirectos, NEW j \in Columnas
        PROVE  /\ EnSitio(u, q, m, i, j) = EnSitio(t, p, m, i, j)
               /\ EnSitio(u, q, m, i, j) \in Bloques => EnSitio(u, q, m, i, j) \in O
    BY <1>1, <1>2 DEF Iguales, Otros
  <1>5. ASSUME NEW i \in Indirectos, NEW j \in Columnas, EnSitio(u, q, n, i, j) \in Bloques
        PROVE  EnSitio(u, q, n, i, j) \in e.usados \ O
    BY <1>1, <1>3, <1>5 DEF Bien
  <1>6. ASSUME NEW m \in A, NEW i \in Indirectos, NEW j \in Columnas,
               EnSitio(u, q, m, i, j) \in Bloques
        PROVE  EnSitio(u, q, m, i, j) \in e.usados
    <2>1. O \subseteq e.usados
      BY <1>1 DEF Bien
    <2>2. QED
      BY <1>4, <1>5, <1>6, <2>1
  <1>7. ASSUME NEW m \in A, NEW k \in A, NEW i \in Indirectos, NEW h \in Indirectos,
               NEW j \in Columnas, NEW l \in Columnas, EnSitio(u, q, m, i, j) \in Bloques,
               EnSitio(u, q, m, i, j) = EnSitio(u, q, k, h, l)
        PROVE  m = k /\ i = h /\ j = l
    <2>1. CASE m = n /\ k = n
      <3>1. Sitio(e, i, j) \in Bloques /\ Sitio(e, i, j) = Sitio(e, h, l) /\ SitiosUnicos(e)
        BY <1>3, <1>7, <2>1 DEF Bien
      <3>2. i = h /\ j = l
        BY <3>1, Zenon DEF SitiosUnicos
      <3>3. QED
        BY <2>1, <3>2
    <2>2. CASE m # n /\ k # n
      <3>1. EnSitio(t, p, m, i, j) \in Bloques
            /\ EnSitio(t, p, m, i, j) = EnSitio(t, p, k, h, l)
        BY <1>4, <1>7, <2>2
      <3>2. QED
        <4>1. SinOtro(A, t, p, m, i, j)
          BY <3>1 DEF Reparto
        <4>2. QED
          BY <3>1, <4>1, Zenon DEF SinOtro
    <2>3. CASE m = n /\ k # n
      <3>1. EnSitio(u, q, m, i, j) \notin O
        BY <1>5, <1>7, <2>3
      <3>2. EnSitio(u, q, k, h, l) \in O
        BY <1>4, <1>7, <2>3
      <3>3. QED
        BY <1>7, <3>1, <3>2
    <2>4. CASE m # n /\ k = n
      <3>1. EnSitio(u, q, m, i, j) \in O
        BY <1>4, <1>7, <2>4
      <3>2. EnSitio(u, q, k, h, l) \notin O
        BY <1>5, <1>7, <2>4
      <3>3. QED
        BY <1>7, <3>1, <3>2
    <2>5. QED
      BY <2>1, <2>2, <2>3, <2>4
  <1>8. Reparto(A, u, e.usados, q)
    BY <1>6, <1>7 DEF Reparto, SinOtro
  <1>9. QED
    BY <1>2, <1>8

\* Of the files B, those of Z keep their blocks marked and the others have none.
SinNuevos(Z, B, t, p, u, us) ==
    /\ \A m \in Z, i \in Indirectos, j \in Columnas :
          EnSitio(t, p, m, i, j) \in Bloques => EnSitio(t, p, m, i, j) \in us
    /\ \A m \in B \ Z, i \in Indirectos : u[m].simple_indirect[i] = 0

\* What is left of the files keeps its blocks apart.
LEMMA Quedan ==
  ASSUME NEW t, NEW us, NEW p, NEW D, NEW u, NEW vs, NEW q, NEW E, NEW A, NEW B,
         NEW Z \in SUBSET A, Reparto(A, t, us, p), Iguales(Z, t, p, D, u, q, E),
         SinNuevos(Z, B, t, p, u, vs)
  PROVE  Reparto(B, u, vs, q)
  <1>1. ASSUME NEW m \in B, NEW i \in Indirectos, NEW j \in Columnas,
               EnSitio(u, q, m, i, j) \in Bloques
        PROVE  m \in Z /\ EnSitio(u, q, m, i, j) = EnSitio(t, p, m, i, j)
    <2>1. CASE m \in Z
      BY <2>1 DEF Iguales
    <2>2. CASE m \notin Z
      <3>1. EnSitio(u, q, m, i, j) = 0
        BY <2>2 DEF EnSitio, SinNuevos
      <3>2. QED
        BY <1>1, <3>1, SinBloque
    <2>3. QED
      BY <2>1, <2>2
  <1>2. ASSUME NEW m \in B, NEW k \in B, NEW i \in Indirectos, NEW h \in Indirectos,
               NEW j \in Columnas, NEW l \in Columnas, EnSitio(u, q, m, i, j) \in Bloques,
               EnSitio(u, q, m, i, j) = EnSitio(u, q, k, h, l)
        PROVE  m = k /\ i = h /\ j = l
    <2>1. /\ m \in A /\ k \in A /\ EnSitio(t, p, m, i, j) \in Bloques
          /\ EnSitio(t, p, m, i, j) = EnSitio(t, p, k, h, l)
      BY <1>1, <1>2
    <2>2. QED
      <3>1. SinOtro(A, t, p, m, i, j)
        BY <2>1 DEF Reparto
      <3>2. QED
        BY <2>1, <3>1, Zenon DEF SinOtro
  <1>3. ASSUME NEW m \in B, NEW i \in Indirectos, NEW j \in Columnas,
               EnSitio(u, q, m, i, j) \in Bloques
        PROVE  EnSitio(u, q, m, i, j) \in vs
    BY <1>1, <1>3 DEF SinNuevos
  <1>4. QED
    BY <1>2, <1>3 DEF Reparto, SinOtro

\* The names and the nodes of the table.
NombresDeNodo == Nombres \cup {"", "/"}
TipoNodo ==
    [estado : {"BORRADO", "OCUPADO", "DIRECTORIO"}, nombre_archivo : NombresDeNodo,
     bloque_padre : Nodos, tam_archivo : 0..MaxTam,
     simple_indirect : [Indirectos -> {0} \cup Bloques]]

(***************************************************************************)
(* The steps: each keeps the types and the blocks apart, and every file    *)
(* that it leaves, but one, as it was.                                     *)
(***************************************************************************)
PasoBien ==
    /\ TipoOK'
    /\ BloqueDeUno'
    /\ \E x : Iguales((Archivos \cap Archivos') \ {x}, tabla_nodos, ptr_direct, datos,
                      tabla_nodos', ptr_direct', datos')

\* What the proofs use of TipoOK.
LEMMA TiposDelDisco ==
  ASSUME TipoOK
  PROVE  /\ tabla_nodos \in [Nodos -> TipoNodo]
         /\ TipoBloques(tabla_nodos, bitmap, ptr_direct, datos)
         /\ Archivos \in SUBSET Nodos
         /\ \A n : Archivo(n) = ArchivoDe(tabla_nodos, bitmap, ptr_direct, datos, n)
  <1>1. tabla_nodos \in [Nodos -> TipoNodo]
    BY Zenon DEF TipoOK, TipoNodo, NombresDeNodo
  <1>2. \A m \in Nodos : tabla_nodos[m].simple_indirect \in [Indirectos -> {0} \cup Bloques]
    BY <1>1 DEF TipoNodo
  <1>3. TipoBloques(tabla_nodos, bitmap, ptr_direct, datos)
    <2>1. /\ bitmap \subseteq Bloques /\ ptr_direct \in [Bloques -> [Directos -> Punteros]]
          /\ \A b \in Bloques, j \in Directos : ptr_direct[b][j] = -1 => j = 0
          /\ DOMAIN datos = Bloques /\ \A b \in Bloques : DOMAIN datos[b] = Bytes
      BY Zenon DEF TipoOK
    <2>2. QED
      BY <1>2, <2>1 DEF TipoBloques
  <1>4. Archivos \in SUBSET Nodos
    BY DEF Archivos
  <1>5. \A n : Archivo(n) = ArchivoDe(tabla_nodos, bitmap, ptr_direct, datos, n)
    BY DEF Archivo, ArchivoDe
  <1>6. QED
    BY <1>1, <1>3, <1>4, <1>5

\* TipoOK after a request.
LEMMA TiposSeran ==
  ASSUME tabla_nodos' \in [Nodos -> TipoNodo], bitmap' \subseteq Bloques,
         ptr_direct' \in [Bloques -> [Directos -> Punteros]], DOMAIN datos' = Bloques,
         \A b \in Bloques, j \in Directos : ptr_direct'[b][j] = -1 => j = 0,
         \A b \in Bloques : DOMAIN datos'[b] = Bytes,
         TipoOK, Pedido, en_pie' = en_pie \/ en_pie' = FALSE
  PROVE  TipoOK'
  <1>1. en_pie \in BOOLEAN /\ pedidos \in 0..MaxPedidos
    BY Zenon DEF TipoOK
  <1>2. MaxPedidos \in Nat
    BY SacDiscoConstantes, Zenon
  <1>3. pedidos < MaxPedidos /\ pedidos' = pedidos + 1
    BY DEF Pedido
  <1>4. pedidos' \in 0..MaxPedidos
    BY <1>1, <1>2, <1>3
  <1>5. en_pie' \in BOOLEAN
    BY <1>1
  <1>6. QED
    BY <1>4, <1>5, Zenon DEF TipoOK, TipoNodo, NombresDeNodo

\* The file that an operation takes is what the lemmas on one file want.
LEMMA ArchivoBien ==
  ASSUME TipoOK, BloqueDeUno, NEW n \in Archivos
  PROVE  Bien(Archivo(n), Otros(Archivos, tabla_nodos, ptr_direct, n))
  BY TiposDelDisco, RepartoEs, BienArchivo

\* From the table t to u, the node n gets a size and blocks of pointers.
Dejado(t, u, n, tam, ind) ==
    u = [t EXCEPT ![n].tam_archivo = tam, ![n].simple_indirect = ind]

\* The table has its type with the new node in it.
LEMMA NodoDejado ==
  ASSUME NEW t \in [Nodos -> TipoNodo], NEW n \in Nodos, NEW tam \in 0..MaxTam,
         NEW ind \in [Indirectos -> {0} \cup Bloques], NEW u, Dejado(t, u, n, tam, ind)
  PROVE  /\ u \in [Nodos -> TipoNodo]
         /\ u[n].estado = t[n].estado /\ u[n].simple_indirect = ind /\ u[n].tam_archivo = tam
         /\ \A m \in Nodos \ {n} : u[m] = t[m]
  <1>1. PICK a \in TipoNodo : a = t[n]
    OBVIOUS
  <1>2. PICK nodo : nodo = [[a EXCEPT !.tam_archivo = tam] EXCEPT !.simple_indirect = ind]
    OBVIOUS
  <1>3. /\ nodo \in TipoNodo /\ nodo.estado = a.estado
        /\ nodo.simple_indirect = ind /\ nodo.tam_archivo = tam
    BY <1>2 DEF TipoNodo
  <1>4. u = [t EXCEPT ![n] = nodo]
    BY <1>1, <1>2 DEF Dejado
  <1>5. QED
    BY <1>1, <1>3, <1>4

\* The greater of two numbers.
LEMMA TamanioSuma ==
  ASSUME NEW off \in Nat, NEW tam \in Nat
  PROVE  /\ Max({off, tam}) \in {off, tam}
         /\ Max({off, tam}) \in Nat /\ Max({off, tam}) >= off /\ Max({off, tam}) >= tam
  <1>1. \E m \in {off, tam} : \A y \in {off, tam} : m >= y
    <2>1. CASE off >= tam
      BY <2>1
    <2>2. CASE off < tam
      BY <2>2
    <2>3. QED
      BY <2>1, <2>2
  <1>2. Max({off, tam}) \in {off, tam} /\ \A y \in {off, tam} : Max({off, tam}) >= y
    BY <1>1 DEF Max
  <1>3. QED
    BY <1>2

\* No file grows beyond its last pointer: MaxTam is below it.
LEMMA TamanioAcotado == MaxTam \in Nat /\ MaxTam < CantDatos * BLOCK_SIZE
  <1>1. PICK B \in Nat \ {0}, C \in Nat \ {0}, I \in Nat \ {0} :
          B = BLOCK_SIZE /\ C = CANT_DIRECTOS /\ I = CANT_INDIR_SIMPLE
    BY SacBloquesConstantes
  <1>2. MaxTam \in Nat /\ MaxTam < (I - 1) * C * B
    BY <1>1, SacDiscoConstantes
  <1>3. PICK x \in Nat : x = (I - 1) * C /\ I * C = x + C
    <2>1. (I - 1) * C = I * C - C /\ I - 1 \in Nat
      BY <1>1
    <2>2. (I - 1) * C \in Nat
      BY <1>1, <2>1
    <2>3. QED
      BY <2>1, <2>2
  <1>4. (I * C) * B = x * B + C * B /\ C * B \in Nat /\ x * B \in Nat
    BY <1>1, <1>3
  <1>5. CantDatos * BLOCK_SIZE = (I * C) * B
    BY <1>1 DEF CantDatos
  <1>6. QED
    BY <1>1, <1>2, <1>3, <1>4, <1>5

\* The disk after an operation on file n that did not bring the server down.
LEMMA LoDejado ==
  ASSUME TipoOK, BloqueDeUno, NEW n \in Archivos, NEW d, Dejar(n, d), Pedido,
         Sigue(Archivo(n), d, Otros(Archivos, tabla_nodos, ptr_direct, n)),
         d.tam \in 0..MaxTam
  PROVE  \/ en_pie' = FALSE /\ UNCHANGED <<tabla_nodos, disco>> /\ ~d.ok
         \/ /\ TipoOK' /\ Archivos' = Archivos /\ d.ok
            /\ tabla_nodos'[n].tam_archivo = d.tam /\ tabla_nodos'[n].simple_indirect = d.ind
            /\ bitmap' = d.usados /\ ptr_direct' = d.ptr /\ datos' = d.datos
            /\ Iguales(Archivos \ {n}, tabla_nodos, ptr_direct, datos,
                       tabla_nodos', d.ptr, d.datos)
  <1>1. CASE en_pie' = FALSE /\ UNCHANGED <<tabla_nodos, disco>> /\ ~d.ok
    BY <1>1
  <1>2. CASE /\ tabla_nodos' = [tabla_nodos EXCEPT ![n].tam_archivo = d.tam,
                                                   ![n].simple_indirect = d.ind]
             /\ bitmap' = d.usados /\ ptr_direct' = d.ptr /\ datos' = d.datos
             /\ UNCHANGED en_pie /\ d.ok
    <2>1. PICK O : O = Otros(Archivos, tabla_nodos, ptr_direct, n)
      OBVIOUS
    <2>2. PICK a : a = Archivo(n)
      OBVIOUS
    <2>3. a.ptr = ptr_direct /\ a.datos = datos
      BY <2>2 DEF Archivo
    <2>4. Bien(d, O) /\ Intacto(a, d, O) /\ TipoDe(d)
      BY <2>1, <2>2 DEF Sigue, Bien
    <2>5. n \in Nodos /\ tabla_nodos \in [Nodos -> TipoNodo]
      BY TiposDelDisco
    <2>6. d.ind \in [Indirectos -> {0} \cup Bloques]
      BY <2>4 DEF TipoDe
    <2>7. /\ tabla_nodos' \in [Nodos -> TipoNodo]
          /\ tabla_nodos'[n].estado = tabla_nodos[n].estado
          /\ tabla_nodos'[n].tam_archivo = d.tam
          /\ tabla_nodos'[n].simple_indirect = d.ind
          /\ \A m \in Nodos \ {n} : tabla_nodos'[m] = tabla_nodos[m]
      <3>1. PICK ind, tam : ind = d.ind /\ tam = d.tam
        OBVIOUS
      <3>2. Dejado(tabla_nodos, tabla_nodos', n, tam, ind)
        BY <1>2, <3>1 DEF Dejado
      <3>3. QED
        BY <2>5, <2>6, <3>1, <3>2, NodoDejado
    <2>8. TipoOK'
      BY <1>2, <2>4, <2>7, TiposSeran DEF TipoDe
    <2>9. Archivos' = Archivos
      BY <2>7 DEF Archivos, Estado
    <2>10. Iguales(Archivos \ {n}, tabla_nodos, ptr_direct, datos, tabla_nodos', d.ptr, d.datos)
      <3>1. \A b \in O : d.ptr[b] = ptr_direct[b] /\ d.datos[b] = datos[b]
        BY <2>3, <2>4 DEF Intacto
      <3>2. \A m \in Archivos \ {n} : tabla_nodos'[m] = tabla_nodos[m]
        BY <2>7, TiposDelDisco
      <3>3. QED
        BY <2>1, <3>1, <3>2, TiposDelDisco, OtrosIguales
    <2>11. QED
      BY <1>2, <2>7, <2>8, <2>9, <2>10
  <1>3. QED
    BY <1>1, <1>2, Zenon DEF Dejar

\* Whatever the operation leaves of the file n, unless the server falls.
LEMMA PasoDejarBloques ==
  ASSUME TipoOK, BloqueDeUno, NEW n \in Archivos, NEW d, Dejar(n, d), Pedido,
         Sigue(Archivo(n), d, Otros(Archivos, tabla_nodos, ptr_direct, n)),
         d.tam \in 0..MaxTam
  PROVE  PasoBien
  <1>1. CASE en_pie' = FALSE /\ UNCHANGED <<tabla_nodos, disco>>
    <2>1. TipoOK'
      BY <1>1, TiposDelDisco, TiposSeran DEF disco, TipoBloques
    <2>2. Archivos' = Archivos
      BY <1>1 DEF Archivos, Estado
    <2>3. BloqueDeUno'
      BY <1>1, <2>2, RepartoEs, RepartoSera DEF disco
    <2>4. Iguales((Archivos \cap Archivos') \ {n}, tabla_nodos, ptr_direct, datos,
                  tabla_nodos', ptr_direct', datos')
      BY <1>1 DEF disco, Iguales, EnSitio
    <2>5. QED
      BY <2>1, <2>3, <2>4 DEF PasoBien
  <1>2. CASE /\ TipoOK' /\ Archivos' = Archivos /\ tabla_nodos'[n].simple_indirect = d.ind
             /\ bitmap' = d.usados /\ ptr_direct' = d.ptr /\ datos' = d.datos
             /\ Iguales(Archivos \ {n}, tabla_nodos, ptr_direct, datos,
                        tabla_nodos', d.ptr, d.datos)
    <2>1. PICK O : O = Otros(Archivos, tabla_nodos, ptr_direct, n)
      OBVIOUS
    <2>2. Bien(d, O)
      BY <2>1 DEF Sigue
    <2>3. Reparto(Archivos, tabla_nodos', d.usados, d.ptr)
      BY <1>2, <2>1, <2>2, TiposDelDisco, RepartoEs, UnoCambia
    <2>4. BloqueDeUno'
      BY <1>2, <2>3, RepartoSera
    <2>5. (Archivos \cap Archivos') \ {n} = Archivos \ {n}
      BY <1>2
    <2>6. QED
      BY <1>2, <2>4, <2>5 DEF PasoBien
  <1>3. QED
    BY <1>1, <1>2, LoDejado

\* What a write does: the size of the file stays below the bound.
LEMMA LoEscrito ==
  ASSUME TipoOK, BloqueDeUno, NEW p \in Caminos, NEW c \in Textos, NEW off \in Offsets,
         EscribirArchivo(p, c, off), NEW n, n = buscar_archivo(p),
         NEW a, a = Archivo(n), NEW d, d = escribir_archivo(a, c, off)
  PROVE  /\ Pedido /\ Dejar(n, d) /\ n \in Archivos
         /\ off \in Nat /\ c \in Seq(ToSet(c)) /\ Len(c) \in Nat /\ c # <<>>
         /\ a.tam \in 0..MaxTam /\ a.tam = tabla_nodos[n].tam_archivo
         /\ off + Len(c) <= MaxTam /\ a.tam + Len(c) <= MaxTam
         /\ Bien(a, Otros(Archivos, tabla_nodos, ptr_direct, n))
         /\ Sigue(a, d, Otros(Archivos, tabla_nodos, ptr_direct, n))
         /\ d.tam \in 0..MaxTam
  <1>1. /\ Pedido /\ EsArchivo(p) /\ Dejar(n, d)
        /\ Max({off, tabla_nodos[n].tam_archivo}) + Len(c) <= MaxTam
    BY Zenon DEF EscribirArchivo
  <1>2. n \in Archivos
    BY <1>1, Buscado DEF EsArchivo, Archivos
  <1>3. PICK tam \in 0..MaxTam : tam = a.tam /\ tam = tabla_nodos[n].tam_archivo
    BY <1>2, TiposDelDisco DEF Archivo, TipoNodo
  <1>4. off \in Nat /\ c \in Seq(ToSet(c)) /\ Len(c) \in Nat /\ c # <<>>
    <2>1. Offsets \cup Tamanios \subseteq Nat
      BY SacDiscoConstantes, Zenon
    <2>2. c \in Seq(ToSet(c)) /\ c # <<>>
      BY SacDiscoConstantes, Zenon
    <2>3. QED
      BY <2>1, <2>2
  <1>5. PICK O : O = Otros(Archivos, tabla_nodos, ptr_direct, n)
    OBVIOUS
  <1>6. Bien(a, O)
    BY <1>2, <1>5, ArchivoBien
  <1>7. Sigue(a, d, O) /\ d.tam \in Nat /\ (d.tam = tam \/ d.tam <= off + Len(c))
    <2>1. a.tam \in Nat /\ a.tam < CantDatos * BLOCK_SIZE
      <3>1. CantDatos * BLOCK_SIZE \in Nat
        BY SacBloquesConstantes DEF CantDatos
      <3>2. QED
        BY <1>3, <3>1, TamanioAcotado
    <2>2. QED
      BY <1>3, <1>4, <1>6, <2>1, EscribeArchivo
  <1>8. off + Len(c) <= MaxTam /\ tam + Len(c) <= MaxTam
    <2>1. PICK x : x = Max({off, tam})
      OBVIOUS
    <2>2. x \in Nat /\ x >= off /\ x >= tam
      BY <1>3, <1>4, <2>1, TamanioSuma
    <2>3. x + Len(c) <= MaxTam
      BY <1>1, <1>3, <2>1
    <2>4. QED
      BY <1>3, <1>4, <2>2, <2>3, TamanioAcotado
  <1>9. d.tam \in 0..MaxTam
    BY <1>3, <1>4, <1>7, <1>8, TamanioAcotado
  <1>10. QED
    BY <1>1, <1>2, <1>3, <1>4, <1>5, <1>6, <1>7, <1>8, <1>9

\* A write keeps the blocks of the files apart.
LEMMA PasoEscribir ==
  ASSUME TipoOK, BloqueDeUno, NEW p \in Caminos, NEW c \in Textos, NEW off \in Offsets,
         EscribirArchivo(p, c, off)
  PROVE  PasoBien
  <1>1. PICK n : n = buscar_archivo(p)
    OBVIOUS
  <1>2. PICK d : d = escribir_archivo(Archivo(n), c, off)
    OBVIOUS
  <1>3. QED
    BY <1>1, <1>2, LoEscrito, PasoDejarBloques

\* What a truncation does: the size of the file stays below the bound.
LEMMA LoTruncado ==
  ASSUME TipoOK, BloqueDeUno, NEW p \in Caminos, NEW off \in Tamanios,
         TruncarArchivo(p, off), NEW n, n = buscar_archivo(p),
         NEW a, a = Archivo(n), NEW d, d = truncar_archivo_por_nodo(a, off)
  PROVE  /\ Pedido /\ Dejar(n, d) /\ n \in Archivos /\ off \in Nat
         /\ a.tam \in 0..MaxTam /\ a.tam = tabla_nodos[n].tam_archivo
         /\ Bien(a, Otros(Archivos, tabla_nodos, ptr_direct, n))
         /\ Sigue(a, d, Otros(Archivos, tabla_nodos, ptr_direct, n))
         /\ d.tam \in 0..MaxTam
  <1>1. /\ Pedido /\ EsArchivo(p) /\ Dejar(n, d)
        /\ off + tabla_nodos[n].tam_archivo <= MaxTam
    BY Zenon DEF TruncarArchivo
  <1>2. n \in Archivos
    BY <1>1, Buscado DEF EsArchivo, Archivos
  <1>3. PICK tam \in 0..MaxTam : tam = a.tam /\ tam = tabla_nodos[n].tam_archivo
    BY <1>2, TiposDelDisco DEF Archivo, TipoNodo
  <1>4. off \in Nat /\ off + tam <= MaxTam /\ MaxTam \in Nat
    BY <1>1, <1>3, SacDiscoConstantes
  <1>5. PICK O : O = Otros(Archivos, tabla_nodos, ptr_direct, n)
    OBVIOUS
  <1>6. Bien(a, O)
    BY <1>2, <1>5, ArchivoBien
  <1>7. Sigue(a, d, O) /\ d.tam \in {tam, tam + off, off}
    <2>1. off < CantDatos * BLOCK_SIZE
      <3>1. CantDatos * BLOCK_SIZE \in Nat
        BY SacBloquesConstantes DEF CantDatos
      <3>2. QED
        BY <1>3, <1>4, <3>1, TamanioAcotado
    <2>2. a.tam \in Nat
      BY <1>3
    <2>3. Sigue(a, d, O) /\ d.tam \in {a.tam, a.tam + off, off}
      BY <1>4, <1>6, <2>1, <2>2, TruncaArchivo, Zenon
    <2>4. QED
      BY <1>3, <2>3
  <1>8. d.tam \in 0..MaxTam
    BY <1>3, <1>4, <1>7
  <1>9. QED
    BY <1>1, <1>2, <1>3, <1>4, <1>5, <1>6, <1>7, <1>8

\* A truncation keeps the blocks of the files apart.
LEMMA PasoTruncar ==
  ASSUME TipoOK, BloqueDeUno, NEW p \in Caminos, NEW off \in Tamanios, TruncarArchivo(p, off)
  PROVE  PasoBien
  <1>1. PICK n : n = buscar_archivo(p)
    OBVIOUS
  <1>2. PICK d : d = truncar_archivo_por_nodo(Archivo(n), off)
    OBVIOUS
  <1>3. QED
    BY <1>1, <1>2, LoTruncado, PasoDejarBloques

\* A step that writes in no file: the files Z keep their blocks, and a file that
\* is not one of them has none.
LEMMA PasoSinEscribir ==
  ASSUME TipoOK, BloqueDeUno, TipoOK', NEW Z \in SUBSET Archivos,
         Archivos \cap Archivos' \subseteq Z,
         Iguales(Z, tabla_nodos, ptr_direct, datos, tabla_nodos', ptr_direct', datos'),
         SinNuevos(Z, Archivos', tabla_nodos, ptr_direct, tabla_nodos', bitmap')
  PROVE  PasoBien
  <1>1. Reparto(Archivos', tabla_nodos', bitmap', ptr_direct')
    BY RepartoEs, Quedan
  <1>2. BloqueDeUno'
    BY <1>1, RepartoSera
  <1>3. Iguales((Archivos \cap Archivos') \ {Nulo}, tabla_nodos, ptr_direct, datos,
                tabla_nodos', ptr_direct', datos')
    BY DEF Iguales
  <1>4. QED
    BY <1>2, <1>3, Zenon DEF PasoBien

\* The blocks of the files are marked in the bitmap.
LEMMA Marcados ==
  ASSUME BloqueDeUno, NEW m \in Archivos, NEW i \in Indirectos, NEW j \in Columnas,
         EnSitio(tabla_nodos, ptr_direct, m, i, j) \in Bloques
  PROVE  EnSitio(tabla_nodos, ptr_direct, m, i, j) \in bitmap
  BY RepartoEs DEF Reparto

\* The elements of a path of the clients are names.
LEMMA UltimoNombre ==
  ASSUME NEW p \in Caminos
  PROVE  Last(p) \in NombresDeNodo /\ p # <<>>
  <1>1. p \in Seq(Nombres) /\ p # <<>>
    BY SacDiscoConstantes, Zenon
  <1>2. QED
    <2>1. Last(p) \in Nombres
      BY <1>1 DEF Last
    <2>2. QED
      BY <1>1, <2>1, Zenon DEF NombresDeNodo

\* A node that crear_nodo fills in has no blocks.
LEMMA NodoNuevo ==
  ASSUME NEW estado \in {"BORRADO", "OCUPADO", "DIRECTORIO"},
         NEW nombre \in NombresDeNodo, NEW padre \in Nodos,
         NEW nodo, nodo = crear_nodo(estado, nombre, padre)
  PROVE  /\ nodo \in TipoNodo /\ nodo.estado = estado /\ nodo.tam_archivo = 0
         /\ nodo.simple_indirect = [i \in Indirectos |-> 0]
  <1>1. PICK ceros \in [Indirectos -> {0} \cup Bloques] : ceros = [i \in Indirectos |-> 0]
    OBVIOUS
  <1>2. 0 \in 0..MaxTam
    BY TamanioAcotado
  <1>3. nodo = [estado |-> estado, nombre_archivo |-> nombre, bloque_padre |-> padre,
                tam_archivo |-> 0, simple_indirect |-> ceros]
    BY <1>1 DEF crear_nodo
  <1>4. QED
    BY <1>1, <1>2, <1>3 DEF TipoNodo

\* A new element has no blocks, so its free node may hold old pointers.
LEMMA LoCreado ==
  ASSUME TipoOK, NEW p \in Caminos, NEW e \in {"OCUPADO", "DIRECTORIO"}, CrearElemento(p, e)
  PROVE  /\ TipoOK' /\ bitmap' = bitmap
         /\ Iguales(Archivos, tabla_nodos, ptr_direct, datos, tabla_nodos', ptr_direct', datos')
         /\ Archivos \subseteq Archivos'
         /\ \A m \in Archivos' \ Archivos :
              /\ tabla_nodos'[m].tam_archivo = 0
              /\ \A i \in Indirectos : tabla_nodos'[m].simple_indirect[i] = 0
  <1>1. PICK padre, libre : padre = buscar_archivo(Front(p)) /\ libre = Min(buscar_nodo_libre)
    OBVIOUS
  <1>2. PICK nodo : nodo = crear_nodo(e, Last(p), padre)
    OBVIOUS
  <1>3. /\ Pedido /\ padre # Nulo /\ buscar_nodo_libre # {}
        /\ tabla_nodos' = [tabla_nodos EXCEPT ![libre] = nodo]
        /\ UNCHANGED <<disco, en_pie>>
    BY <1>1, <1>2, Zenon DEF CrearElemento
  <1>4. libre \in Nodos /\ tabla_nodos[libre].estado = "BORRADO"
    BY <1>1, <1>3, NodoLibre, Zenon DEF Estado
  <1>5. /\ nodo \in TipoNodo /\ nodo.tam_archivo = 0
        /\ nodo.simple_indirect = [i \in Indirectos |-> 0]
    <2>1. padre \in Nodos
      BY <1>1, <1>3, Buscado
    <2>2. Last(p) \in NombresDeNodo
      BY UltimoNombre
    <2>3. QED
      BY <1>2, <2>1, <2>2, NodoNuevo
  <1>6. tabla_nodos \in [Nodos -> TipoNodo]
    BY TiposDelDisco
  <1>7. /\ tabla_nodos' \in [Nodos -> TipoNodo] /\ tabla_nodos'[libre] = nodo
        /\ \A m \in Nodos \ {libre} : tabla_nodos'[m] = tabla_nodos[m]
    BY <1>3, <1>4, <1>5, <1>6
  <1>8. bitmap' = bitmap /\ ptr_direct' = ptr_direct /\ datos' = datos /\ en_pie' = en_pie
    BY <1>3 DEF disco
  <1>9. TipoOK'
    BY <1>3, <1>7, <1>8, TiposDelDisco, TiposSeran DEF TipoBloques
  <1>10. /\ libre \notin Archivos /\ Archivos' \subseteq Archivos \cup {libre}
         /\ Archivos \subseteq Archivos'
    BY <1>4, <1>7 DEF Archivos, Estado
  <1>11. Iguales(Archivos, tabla_nodos, ptr_direct, datos, tabla_nodos', ptr_direct', datos')
    <2>1. \A m \in Archivos : tabla_nodos'[m] = tabla_nodos[m]
      BY <1>7, <1>10, TiposDelDisco
    <2>2. QED
      BY <1>8, <2>1 DEF Iguales, EnSitio
  <1>12. QED
    BY <1>5, <1>7, <1>8, <1>9, <1>10, <1>11

\* A new element keeps the blocks of the files apart.
LEMMA PasoCrearBloques ==
  ASSUME TipoOK, BloqueDeUno, NEW p \in Caminos, NEW e \in {"OCUPADO", "DIRECTORIO"},
         CrearElemento(p, e)
  PROVE  PasoBien
  BY LoCreado, PasoSinEscribir, Marcados DEF SinNuevos

\* A move leaves the blocks of the node alone.
LEMMA LoMovido ==
  ASSUME TipoOK, NEW p \in Caminos, NEW q \in Caminos, Renombrar(p, q)
  PROVE  /\ TipoOK' /\ bitmap' = bitmap /\ Archivos' = Archivos
         /\ Iguales(Archivos, tabla_nodos, ptr_direct, datos, tabla_nodos', ptr_direct', datos')
  <1>1. PICK n, padre : n = buscar_archivo(p) /\ padre = buscar_archivo(Front(q))
    OBVIOUS
  <1>2. /\ Pedido /\ n # Nulo /\ padre # Nulo
        /\ tabla_nodos' = [tabla_nodos EXCEPT ![n].nombre_archivo = Last(q),
                                              ![n].bloque_padre = padre]
        /\ UNCHANGED <<disco, en_pie>>
    BY <1>1, Zenon DEF Renombrar
  <1>3. n \in Nodos /\ padre \in Nodos
    BY <1>1, <1>2, Buscado
  <1>4. PICK a \in TipoNodo : a = tabla_nodos[n]
    BY <1>3, TiposDelDisco
  <1>5. PICK nodo : nodo = [[a EXCEPT !.nombre_archivo = Last(q)] EXCEPT !.bloque_padre = padre]
    OBVIOUS
  <1>6. /\ nodo \in TipoNodo /\ nodo.estado = a.estado /\ nodo.tam_archivo = a.tam_archivo
        /\ nodo.simple_indirect = a.simple_indirect
    BY <1>3, <1>5, UltimoNombre DEF TipoNodo
  <1>7. tabla_nodos \in [Nodos -> TipoNodo]
    BY TiposDelDisco
  <1>8. tabla_nodos' = [tabla_nodos EXCEPT ![n] = nodo]
    BY <1>2, <1>3, <1>4, <1>5, <1>7
  <1>9. /\ tabla_nodos' \in [Nodos -> TipoNodo] /\ tabla_nodos'[n] = nodo
        /\ \A m \in Nodos \ {n} : tabla_nodos'[m] = tabla_nodos[m]
    BY <1>3, <1>6, <1>7, <1>8
  <1>10. bitmap' = bitmap /\ ptr_direct' = ptr_direct /\ datos' = datos /\ en_pie' = en_pie
    BY <1>2 DEF disco
  <1>11. TipoOK'
    BY <1>2, <1>9, <1>10, TiposDelDisco, TiposSeran DEF TipoBloques
  <1>12. Archivos' = Archivos
    BY <1>4, <1>6, <1>9 DEF Archivos, Estado
  <1>13. Iguales(Archivos, tabla_nodos, ptr_direct, datos, tabla_nodos', ptr_direct', datos')
    <2>1. \A m \in Nodos : /\ tabla_nodos'[m].simple_indirect = tabla_nodos[m].simple_indirect
                           /\ tabla_nodos'[m].tam_archivo = tabla_nodos[m].tam_archivo
      BY <1>4, <1>6, <1>9
    <2>2. QED
      BY <1>10, <2>1, TiposDelDisco DEF Iguales, EnSitio
  <1>14. QED
    BY <1>10, <1>11, <1>12, <1>13

\* A move keeps the blocks of the files apart.
LEMMA PasoRenombrarBloques ==
  ASSUME TipoOK, BloqueDeUno, NEW p \in Caminos, NEW q \in Caminos, Renombrar(p, q)
  PROVE  PasoBien
  BY LoMovido, PasoSinEscribir, Marcados DEF SinNuevos

\* What borrar_archivo_por_nodo leaves in the node that it erases.
LEMMA NodoTrasBorrar ==
  ASSUME TipoOK, NEW m \in Nodos,
         NEW nodo, nodo = [NodoBorrado EXCEPT
                             !.simple_indirect = borrar_archivo_por_nodo(Archivo(m)).ind]
  PROVE  nodo \in TipoNodo /\ nodo.estado = "BORRADO"
  <1>1. PICK a : a = Archivo(m)
    OBVIOUS
  <1>2. DOMAIN a = CamposDisco /\ a.ind \in [Indirectos -> {0} \cup Bloques]
    BY <1>1, TiposDelDisco DEF Archivo, CamposDisco, TipoNodo
  <1>3. PICK is, ks : borrar_archivo_por_nodo(a) = [Soltar(a, ks, is) EXCEPT !.tam = 0]
    BY DEF borrar_archivo_por_nodo
  <1>4. PICK f : f = Soltar(a, ks, is)
    OBVIOUS
  <1>5. DOMAIN f = CamposDisco /\ f.ind = [i \in Indirectos |-> IF i \in is THEN 0 ELSE a.ind[i]]
    BY <1>2, <1>4 DEF Soltar, CamposDisco
  <1>6. PICK ind \in [Indirectos -> {0} \cup Bloques] : ind = borrar_archivo_por_nodo(a).ind
    <2>1. f.ind \in [Indirectos -> {0} \cup Bloques]
      BY <1>2, <1>5
    <2>2. borrar_archivo_por_nodo(a).ind = f.ind
      BY <1>3, <1>4, <1>5 DEF CamposDisco
    <2>3. QED
      BY <2>1, <2>2
  <1>7. NodoBorrado \in TipoNodo /\ NodoBorrado.estado = "BORRADO"
    <2>1. "" \in NombresDeNodo
      BY Zenon DEF NombresDeNodo
    <2>2. QED
      BY <2>1, NodoNuevo, RaizYNulo, Zenon DEF NodoBorrado
  <1>8. nodo = [NodoBorrado EXCEPT !.simple_indirect = ind]
    BY <1>1, <1>6
  <1>9. QED
    BY <1>7, <1>8 DEF TipoNodo

\* Erasing a file frees its blocks and no other.
LEMMA LoBorrado ==
  ASSUME TipoOK, BloqueDeUno, NEW p \in Caminos, BorrarArchivo(p),
         NEW n, n = buscar_archivo(p), NEW d, d = borrar_archivo_por_nodo(Archivo(n))
  PROVE  /\ TipoOK' /\ n \in Archivos /\ Archivos' = Archivos \ {n}
         /\ bitmap' = d.usados /\ Bien(d, Otros(Archivos, tabla_nodos, ptr_direct, n))
         /\ Iguales(Archivos', tabla_nodos, ptr_direct, datos, tabla_nodos', ptr_direct', datos')
  <1>2. PICK a : a = Archivo(n)
    OBVIOUS
  <1>4. PICK nodo : nodo = [NodoBorrado EXCEPT
                              !.simple_indirect = borrar_archivo_por_nodo(Archivo(n)).ind]
    OBVIOUS
  <1>5. /\ Pedido /\ EsArchivo(p)
        /\ tabla_nodos' = [tabla_nodos EXCEPT ![n] = nodo]
        /\ bitmap' = d.usados /\ ptr_direct' = d.ptr
        /\ UNCHANGED <<datos, en_pie>>
    BY <1>2, <1>4, Zenon DEF BorrarArchivo
  <1>6. n \in Archivos /\ n \in Nodos
    BY <1>5, Buscado DEF EsArchivo, Archivos
  <1>7. PICK O : O = Otros(Archivos, tabla_nodos, ptr_direct, n)
    OBVIOUS
  <1>8. Bien(d, O) /\ Intacto(a, d, O) /\ TipoDe(d)
    <2>1. Bien(a, O)
      BY <1>2, <1>6, <1>7, ArchivoBien
    <2>2. QED
      BY <1>2, <2>1, BorraArchivo DEF Sigue, Bien
  <1>9. nodo \in TipoNodo /\ nodo.estado = "BORRADO"
    BY <1>4, <1>6, NodoTrasBorrar
  <1>10. tabla_nodos \in [Nodos -> TipoNodo]
    BY TiposDelDisco
  <1>11. /\ tabla_nodos' \in [Nodos -> TipoNodo] /\ tabla_nodos'[n] = nodo
         /\ \A m \in Nodos \ {n} : tabla_nodos'[m] = tabla_nodos[m]
    BY <1>5, <1>6, <1>9, <1>10
  <1>12. TipoOK'
    BY <1>5, <1>8, <1>11, TiposDelDisco, TiposSeran DEF TipoBloques, TipoDe
  <1>13. PICK Z : Z = Archivos \ {n}
    OBVIOUS
  <1>14. Archivos' = Z
    BY <1>9, <1>11, <1>13 DEF Archivos, Estado
  <1>15. Iguales(Z, tabla_nodos, ptr_direct, datos, tabla_nodos', ptr_direct', datos')
    <2>1. a.ptr = ptr_direct
      BY <1>2 DEF Archivo
    <2>2. \A b \in O : ptr_direct'[b] = ptr_direct[b] /\ datos'[b] = datos[b]
      BY <1>5, <1>8, <2>1 DEF Intacto
    <2>3. \A m \in Z : tabla_nodos'[m] = tabla_nodos[m]
      BY <1>11, <1>13, TiposDelDisco
    <2>4. QED
      BY <1>7, <1>13, <2>2, <2>3, TiposDelDisco, OtrosIguales
  <1>16. QED
    BY <1>5, <1>6, <1>7, <1>8, <1>12, <1>13, <1>14, <1>15

\* Erasing a file keeps the blocks of the others apart.
LEMMA PasoBorrarBloques ==
  ASSUME TipoOK, BloqueDeUno, NEW p \in Caminos, BorrarArchivo(p)
  PROVE  PasoBien
  <1>1. PICK n : n = buscar_archivo(p)
    OBVIOUS
  <1>2. PICK d : d = borrar_archivo_por_nodo(Archivo(n))
    OBVIOUS
  <1>3. PICK O : O = Otros(Archivos, tabla_nodos, ptr_direct, n)
    OBVIOUS
  <1>4. /\ TipoOK' /\ n \in Archivos /\ Archivos' = Archivos \ {n} /\ O \subseteq bitmap'
        /\ Iguales(Archivos', tabla_nodos, ptr_direct, datos, tabla_nodos', ptr_direct', datos')
    BY <1>1, <1>2, <1>3, LoBorrado DEF Bien
  <1>5. SinNuevos(Archivos', Archivos', tabla_nodos, ptr_direct, tabla_nodos', bitmap')
    BY <1>3, <1>4 DEF SinNuevos, Otros
  <1>6. QED
    BY <1>4, <1>5, PasoSinEscribir

\* Each file of the directory frees its own blocks, which no file that stays has.
LEMMA LoBorradoDir ==
  ASSUME TipoOK, BloqueDeUno, NEW p \in Caminos, BorrarDirectorio(p)
  PROVE  /\ TipoOK' /\ Archivos' \subseteq Archivos
         /\ Iguales(Archivos', tabla_nodos, ptr_direct, datos, tabla_nodos', ptr_direct', datos')
         /\ \A m \in Archivos', i \in Indirectos, j \in Columnas :
              EnSitio(tabla_nodos, ptr_direct, m, i, j) \in Bloques =>
                 EnSitio(tabla_nodos, ptr_direct, m, i, j) \in bitmap'
         /\ bitmap' \subseteq bitmap
         /\ \A m \in Archivos \ Archivos' :
              bitmap' \ borrar_archivo_por_nodo(Archivo(m)).usados = {}
  <1> DEFINE n == buscar_archivo(p)
             todos == {n} \cup Contenidos(n)
             Borrado(m) == borrar_archivo_por_nodo(Archivo(m))
             enDisco == todos \cap Archivos
             nodo(m) == [NodoBorrado EXCEPT !.simple_indirect = Borrado(m).ind]
             libres == UNION {bitmap \ Borrado(m).usados : m \in enDisco}
             q == [b \in Bloques |-> [j \in Directos |->
                    IF \E m \in enDisco : Borrado(m).ptr[b][j] = 0 THEN 0
                    ELSE ptr_direct[b][j]]]
             Z == Archivos \ todos
  <1>1. /\ Pedido
        /\ \/ en_pie' = FALSE /\ UNCHANGED <<tabla_nodos, disco>>
           \/ /\ tabla_nodos' = [m \in Nodos |-> IF m \notin todos THEN tabla_nodos[m] ELSE nodo(m)]
              /\ bitmap' = bitmap \ libres /\ ptr_direct' = q /\ UNCHANGED <<datos, en_pie>>
    BY Zenon DEF BorrarDirectorio
  <1>2. \A m \in Nodos : nodo(m) \in TipoNodo /\ nodo(m).estado = "BORRADO"
    <2>1. ASSUME NEW m \in Nodos PROVE nodo(m) \in TipoNodo /\ nodo(m).estado = "BORRADO"
      BY NodoTrasBorrar
    <2> HIDE DEF nodo
    <2>2. QED
      BY <2>1
  <1>3. tabla_nodos \in [Nodos -> TipoNodo] /\ Archivos \in SUBSET Nodos
    BY TiposDelDisco
  <1>4. CASE en_pie' = FALSE /\ UNCHANGED <<tabla_nodos, disco>>
    <2>1. TipoOK'
      BY <1>1, <1>4, TiposDelDisco, TiposSeran DEF disco, TipoBloques
    <2>2. Archivos' = Archivos
      BY <1>4 DEF Archivos, Estado
    <2>3. Iguales(Archivos, tabla_nodos, ptr_direct, datos, tabla_nodos', ptr_direct', datos')
      BY <1>4 DEF disco, Iguales, EnSitio
    <2>4. bitmap' = bitmap
      BY <1>4 DEF disco
    <2>5. Archivos \ Archivos' = {}
      BY <2>2
    <2>6. QED
      BY <2>1, <2>2, <2>3, <2>4, <2>5, Marcados
  <1> HIDE DEF nodo
  <1>5. CASE /\ tabla_nodos' = [m \in Nodos |-> IF m \notin todos THEN tabla_nodos[m] ELSE nodo(m)]
             /\ bitmap' = bitmap \ libres /\ ptr_direct' = q /\ UNCHANGED <<datos, en_pie>>
    <2>1. PICK O : O = Otros(Z, tabla_nodos, ptr_direct, n)
      OBVIOUS
    <2>2. ASSUME NEW b \in O, NEW m \in enDisco
          PROVE  b \in Borrado(m).usados /\ Borrado(m).ptr[b] = ptr_direct[b]
      <3>1. PICK P : P = Otros(Archivos, tabla_nodos, ptr_direct, m)
        OBVIOUS
      <3>2. b \in P
        BY <2>1, <3>1 DEF Otros
      <3>3. PICK d : d = Borrado(m)
        OBVIOUS
      <3>4. PICK a : a = Archivo(m)
        OBVIOUS
      <3>5. Bien(d, P) /\ Intacto(a, d, P)
        <4>1. Bien(a, P)
          BY <3>1, <3>4, ArchivoBien
        <4>2. QED
          BY <3>3, <3>4, <4>1, BorraArchivo DEF Sigue
      <3>6. a.ptr = ptr_direct
        BY <3>4 DEF Archivo
      <3>7. QED
        BY <3>2, <3>3, <3>5, <3>6 DEF Bien, Intacto
    <2>3. O \subseteq Bloques
      BY <2>1 DEF Otros
    <2>4. O \subseteq bitmap
      <3>1. ASSUME NEW b \in O PROVE b \in bitmap
        <4>1. PICK m \in Archivos, i \in Indirectos, j \in Columnas :
                EnSitio(tabla_nodos, ptr_direct, m, i, j) = b
          BY <2>1 DEF Otros
        <4>2. QED
          BY <2>3, <4>1, Marcados
      <3>2. QED
        BY <3>1
    <2> HIDE DEF Borrado, enDisco, Z
    <2>5. ASSUME NEW b \in O PROVE b \in bitmap' /\ ptr_direct'[b] = ptr_direct[b]
      <3>1. b \in bitmap'
        BY <1>5, <2>2, <2>4
      <3>2. \A j \in Directos : ptr_direct'[b][j] = ptr_direct[b][j]
        BY <1>5, <2>2, <2>3
      <3>3. DOMAIN ptr_direct'[b] = Directos /\ DOMAIN ptr_direct[b] = Directos
        BY <1>5, <2>3, TiposDelDisco DEF TipoBloques
      <3>4. QED
        BY <1>5, <2>3, <3>1, <3>2, <3>3, TiposDelDisco DEF TipoBloques
    <2>6. /\ q \in [Bloques -> [Directos -> Punteros]]
          /\ \A b \in Bloques, j \in Directos : q[b][j] = -1 => j = 0
      <3>1. \A b \in Bloques, j \in Directos :
              ptr_direct[b][j] \in Punteros /\ (ptr_direct[b][j] = -1 => j = 0)
        BY TiposDelDisco DEF TipoBloques
      <3>2. \A b \in Bloques, j \in Directos : q[b][j] \in {0, ptr_direct[b][j]}
        OBVIOUS
      <3>3. q \in [Bloques -> [Directos -> Punteros]]
        BY <3>1 DEF Punteros
      <3>4. QED
        BY <3>1, <3>2, <3>3
    <2> HIDE DEF q, libres, todos
    <2>7. tabla_nodos' \in [Nodos -> TipoNodo]
      BY <1>2, <1>3, <1>5
    <2>8. TipoOK'
      BY <1>1, <1>5, <2>6, <2>7, TiposDelDisco, TiposSeran DEF TipoBloques
    <2>9. Archivos' = Z /\ Z \subseteq Archivos /\ Archivos \ Z = todos \cap Archivos
      BY <1>2, <1>3, <1>5 DEF Archivos, Estado, Z
    <2>10. \A m \in Z : tabla_nodos'[m] = tabla_nodos[m] /\ m # n
      BY <1>3, <1>5 DEF Z, todos
    <2>11. Iguales(Z, tabla_nodos, ptr_direct, datos, tabla_nodos', ptr_direct', datos')
      <3>1. Z \in SUBSET Nodos /\ Z \in SUBSET (Z \ {n})
        BY <1>3, <2>9, <2>10
      <3>2. \A b \in O : ptr_direct'[b] = ptr_direct[b] /\ datos'[b] = datos[b]
        BY <1>5, <2>5
      <3> HIDE DEF n
      <3>3. QED
        BY <2>1, <2>10, <3>1, <3>2, TiposDelDisco, OtrosIguales
    <2>12. ASSUME NEW m \in Z, NEW i \in Indirectos, NEW j \in Columnas,
                  EnSitio(tabla_nodos, ptr_direct, m, i, j) \in Bloques
           PROVE  EnSitio(tabla_nodos, ptr_direct, m, i, j) \in bitmap'
      BY <2>1, <2>5, <2>10, <2>12 DEF Otros
    <2>13. \A m \in Archivos \ Z : bitmap' \ Borrado(m).usados = {}
      BY <1>5, <2>9 DEF libres, enDisco
    <2>14. bitmap' \subseteq bitmap
      BY <1>5
    <2>15. QED
      BY <2>8, <2>9, <2>11, <2>12, <2>13, <2>14 DEF Borrado
  <1>6. QED
    BY <1>1, <1>4, <1>5

\* Erasing a directory keeps the blocks of the other files apart.
LEMMA PasoBorrarDirBloques ==
  ASSUME TipoOK, BloqueDeUno, NEW p \in Caminos, BorrarDirectorio(p)
  PROVE  PasoBien
  <1>1. SinNuevos(Archivos', Archivos', tabla_nodos, ptr_direct, tabla_nodos', bitmap')
    BY LoBorradoDir DEF SinNuevos
  <1>2. QED
    BY <1>1, LoBorradoDir, PasoSinEscribir

\* A step that changes nothing but whether the server runs.
LEMMA PasoLeerBloques ==
  ASSUME TipoOK, BloqueDeUno, NEW p, NEW cant, NEW off, LeerArchivo(p, cant, off)
  PROVE  PasoBien
  <1>1. Pedido /\ en_pie' = FALSE /\ UNCHANGED <<tabla_nodos, disco>>
    BY Zenon DEF LeerArchivo
  <1>2. TipoOK'
    BY <1>1, TiposDelDisco, TiposSeran DEF disco, TipoBloques
  <1>3. Archivos' = Archivos /\ bitmap' = bitmap
    BY <1>1 DEF Archivos, Estado, disco
  <1>4. Iguales(Archivos, tabla_nodos, ptr_direct, datos, tabla_nodos', ptr_direct', datos')
    BY <1>1 DEF disco, Iguales, EnSitio
  <1>5. QED
    BY <1>2, <1>3, <1>4, PasoSinEscribir, Marcados DEF SinNuevos

\* A step of something else.
LEMMA PasoQuieto ==
  ASSUME TipoOK, BloqueDeUno, UNCHANGED vars
  PROVE  PasoBien
  <1>1. UNCHANGED <<tabla_nodos, bitmap, ptr_direct, datos, en_pie, pedidos>>
    BY DEF vars, disco
  <1>2. TipoOK'
    BY <1>1, Zenon DEF TipoOK
  <1>3. Archivos' = Archivos
    BY <1>1 DEF Archivos, Estado
  <1>4. Iguales(Archivos, tabla_nodos, ptr_direct, datos, tabla_nodos', ptr_direct', datos')
    BY <1>1 DEF Iguales, EnSitio
  <1>5. QED
    BY <1>1, <1>2, <1>3, <1>4, PasoSinEscribir, Marcados DEF SinNuevos

\* Every step keeps the types and the blocks apart, and changes one file at most.
LEMMA PasoDelDisco ==
  ASSUME TipoOK, BloqueDeUno, [Next]_vars
  PROVE  PasoBien
  <1>1. ASSUME NEW p \in Caminos, NEW e \in {"OCUPADO", "DIRECTORIO"}, CrearElemento(p, e)
        PROVE  PasoBien
    BY <1>1, PasoCrearBloques
  <1>2. ASSUME NEW p \in Caminos, NEW c \in Textos, NEW off \in Offsets,
               EscribirArchivo(p, c, off)
        PROVE  PasoBien
    BY <1>2, PasoEscribir
  <1>3. ASSUME NEW p \in Caminos, NEW off \in Tamanios, TruncarArchivo(p, off)
        PROVE  PasoBien
    BY <1>3, PasoTruncar
  <1>4. ASSUME NEW p \in Caminos, NEW off \in Offsets, LeerArchivo(p, MaxTam, off)
        PROVE  PasoBien
    BY <1>4, PasoLeerBloques
  <1>5. ASSUME NEW p \in Caminos, BorrarArchivo(p) PROVE PasoBien
    BY <1>5, PasoBorrarBloques
  <1>6. ASSUME NEW p \in Caminos, BorrarDirectorio(p) PROVE PasoBien
    BY <1>6, PasoBorrarDirBloques
  <1>7. ASSUME NEW p \in Caminos, NEW q \in Caminos, Renombrar(p, q) PROVE PasoBien
    BY <1>7, PasoRenombrarBloques
  <1>8. CASE UNCHANGED vars
    BY <1>8, PasoQuieto
  <1>9. QED
    BY <1>1, <1>2, <1>3, <1>4, <1>5, <1>6, <1>7, <1>8 DEF Next

\* A formatted disk has no files.
LEMMA DiscoInicial == Init => TipoOK /\ BloqueDeUno
  <1> SUFFICES ASSUME Init PROVE TipoOK /\ BloqueDeUno
    OBVIOUS
  <1>1. PICK raiz, libre : /\ raiz = crear_nodo("DIRECTORIO", "/", Raiz)
                           /\ libre = crear_nodo("BORRADO", "", Raiz)
    OBVIOUS
  <1>2. "/" \in NombresDeNodo /\ "" \in NombresDeNodo
    BY Zenon DEF NombresDeNodo
  <1>3. raiz \in TipoNodo /\ raiz.estado = "DIRECTORIO"
    BY <1>1, <1>2, RaizYNulo, NodoNuevo, Zenon
  <1>4. libre \in TipoNodo /\ libre.estado = "BORRADO"
    BY <1>1, <1>2, RaizYNulo, NodoNuevo, Zenon
  <1>5. tabla_nodos = [n \in Nodos |-> IF n = Raiz THEN raiz ELSE libre]
    BY <1>1, Zenon DEF Init
  <1>6. tabla_nodos \in [Nodos -> TipoNodo]
    BY <1>3, <1>4, <1>5
  <1>7. Archivos = {}
    BY <1>3, <1>4, <1>5 DEF Archivos, Estado
  <1>8. BloqueDeUno
    BY <1>7, RepartoEs DEF Reparto
  <1>9. /\ bitmap = {} /\ ptr_direct = [b \in Bloques |-> [j \in Directos |-> 0]]
        /\ datos = [b \in Bloques |-> [x \in Bytes |-> Basura]] /\ en_pie = TRUE /\ pedidos = 0
    BY Zenon DEF Init
  <1>10. /\ ptr_direct \in [Bloques -> [Directos -> Punteros]]
         /\ \A b \in Bloques, j \in Directos : ptr_direct[b][j] = -1 => j = 0
    BY <1>9 DEF Punteros
  <1>11. DOMAIN datos = Bloques /\ \A b \in Bloques : DOMAIN datos[b] = Bytes
    BY <1>9
  <1>12. bitmap \subseteq Bloques /\ en_pie \in BOOLEAN
    BY <1>9
  <1>13. pedidos \in 0..MaxPedidos
    <2>1. MaxPedidos \in Nat
      BY SacDiscoConstantes, Zenon
    <2>2. QED
      BY <1>9, <2>1
  <1>14. TipoOK
    BY <1>6, <1>10, <1>11, <1>12, <1>13, Zenon DEF TipoOK, TipoNodo, NombresDeNodo
  <1>15. QED
    BY <1>8, <1>14

(***************************************************************************)
(* The size and the bytes of a file.                                       *)
(***************************************************************************)
GuardadoDe(A, t, p, D, n) ==
    <<t[n].tam_archivo,
      [l \in Indirectos \X Directos |->
         IF n \in A /\ EnSitio(t, p, n, l[1], l[2]) \in Bloques
         THEN D[EnSitio(t, p, n, l[1], l[2])] ELSE <<>>]>>

\* Guardado, on the table and the disk as they are.
LEMMA GuardadoEs ==
  \A n : Guardado(n) = GuardadoDe(Archivos, tabla_nodos, ptr_direct, datos, n)
  <1>1. ASSUME NEW n, NEW i \in Indirectos, NEW j \in Directos
        PROVE  /\ <<n, i, j>> \in EnUso <=>
                    n \in Archivos /\ EnSitio(tabla_nodos, ptr_direct, n, i, j) \in Bloques
               /\ BloqueEn(<<n, i, j>>) = EnSitio(tabla_nodos, ptr_direct, n, i, j)
    <2>1. BloqueEn(<<n, i, j>>) = EnSitio(tabla_nodos, ptr_direct, n, i, j)
      BY LugarEs
    <2>2. <<n, i, j>> \in Lugares <=> n \in Archivos
      BY LugarEs DEF Columnas
    <2>3. QED
      BY <2>1, <2>2 DEF EnUso
  <1>2. ASSUME NEW n
        PROVE  Guardado(n) = GuardadoDe(Archivos, tabla_nodos, ptr_direct, datos, n)
    <2>1. ASSUME NEW l \in Indirectos \X Directos
          PROVE  /\ <<n, l[1], l[2]>> \in EnUso <=>
                      n \in Archivos /\ EnSitio(tabla_nodos, ptr_direct, n, l[1], l[2]) \in Bloques
                 /\ BloqueEn(<<n, l[1], l[2]>>) = EnSitio(tabla_nodos, ptr_direct, n, l[1], l[2])
      BY <1>1
    <2>2. QED
      BY <2>1 DEF Guardado, GuardadoDe
  <1>3. QED
    BY <1>2

\* Guardado, on the table and the disk as a step leaves them.
LEMMA GuardadoSera ==
  \A n : Guardado(n)' = GuardadoDe(Archivos', tabla_nodos', ptr_direct', datos', n)
  <1>1. (\A n : Guardado(n) = GuardadoDe(Archivos, tabla_nodos, ptr_direct, datos, n))'
    BY GuardadoEs, PTL
  <1>2. QED
    BY <1>1 DEF GuardadoDe, EnSitio

\* A file that stays as it was is stored as it was.
LEMMA GuardadoIgual ==
  ASSUME NEW A, NEW B, NEW t, NEW p, NEW D, NEW u, NEW q, NEW E, NEW Z \in SUBSET (A \cap B),
         Iguales(Z, t, p, D, u, q, E), NEW n \in Z
  PROVE  GuardadoDe(B, u, q, E, n) = GuardadoDe(A, t, p, D, n)
  <1>1. u[n].tam_archivo = t[n].tam_archivo
    BY DEF Iguales
  <1>2. ASSUME NEW l \in Indirectos \X Directos
        PROVE  /\ EnSitio(u, q, n, l[1], l[2]) = EnSitio(t, p, n, l[1], l[2])
               /\ EnSitio(t, p, n, l[1], l[2]) \in Bloques =>
                     E[EnSitio(t, p, n, l[1], l[2])] = D[EnSitio(t, p, n, l[1], l[2])]
    <2>1. l[1] \in Indirectos /\ l[2] \in Columnas
      BY DEF Columnas
    <2>2. QED
      BY <2>1 DEF Iguales
  <1>3. n \in A /\ n \in B
    OBVIOUS
  <1>4. QED
    BY <1>1, <1>2, <1>3 DEF GuardadoDe

\* The files that such a step changes are one at most.
LEMMA CambiaUno ==
  ASSUME PasoBien
  PROVE  Cardinality({n \in Archivos : Estado(n)' = "OCUPADO"
                                     /\ Guardado(n)' # Guardado(n)}) <= 1
  <1> DEFINE cambian == {n \in Archivos : Estado(n)' = "OCUPADO" /\ Guardado(n)' # Guardado(n)}
  <1>1. PICK x : Iguales((Archivos \cap Archivos') \ {x}, tabla_nodos, ptr_direct, datos,
                         tabla_nodos', ptr_direct', datos')
    BY DEF PasoBien
  <1>2. ASSUME NEW n \in cambian PROVE n = x
    <2>1. n \in Archivos /\ Estado(n)' = "OCUPADO" /\ Guardado(n)' # Guardado(n)
      OBVIOUS
    <2>2. n \in Archivos'
      BY <2>1 DEF Archivos
    <2>3. ASSUME n # x PROVE FALSE
      <3>1. n \in (Archivos \cap Archivos') \ {x}
        BY <2>1, <2>2, <2>3
      <3>2. GuardadoDe(Archivos', tabla_nodos', ptr_direct', datos', n)
              = GuardadoDe(Archivos, tabla_nodos, ptr_direct, datos, n)
        BY <1>1, <3>1, GuardadoIgual
      <3>3. QED
        BY <2>1, <3>2, GuardadoEs, GuardadoSera
    <2>4. QED
      BY <2>3
  <1> HIDE DEF cambian
  <1>3. cambian \in SUBSET {x}
    BY <1>2
  <1>4. Cardinality(cambian) <= 1
    <2>1. IsFiniteSet({x}) /\ Cardinality({x}) = 1
      BY FS_Singleton
    <2>2. Cardinality(cambian) <= Cardinality({x})
      BY <1>3, <2>1, FS_Subset, Zenon
    <2>3. QED
      BY <2>1, <2>2
  <1>5. QED
    BY <1>4 DEF cambian

(***************************************************************************)
(* The theorems on blocks.                                                 *)
(***************************************************************************)

\* In every reachable disk the values have their C types, pointers stay on the
\* disk, and the files have their blocks apart.
THEOREM Disco == Spec => [](TipoOK /\ BloqueDeUno)
  <1>1. TipoOK /\ BloqueDeUno /\ [Next]_vars => (TipoOK /\ BloqueDeUno)'
    BY PasoDelDisco DEF PasoBien
  <1>2. QED
    BY DiscoInicial, <1>1, PTL DEF Spec

\* Each variable keeps the values of its C type.
THEOREM Tipos == Spec => []TipoOK
  BY Disco, PTL

\* A block that a file uses is marked, and is in one place of one file: for any
\* sizes of block, of disk and of table, and any requests.
THEOREM BloqueDeUnoSiempre == Spec => []BloqueDeUno
  BY Disco, PTL

\* No operation changes the size or the bytes of two files: a write, a truncation
\* or an erasure reaches no block of another file.
THEOREM UnoALaVezSiempre == Spec => UnoALaVez
  <1>1. TipoOK /\ BloqueDeUno /\ [Next]_vars
          => [Cardinality({n \in Archivos : Estado(n)' = "OCUPADO"
                                          /\ Guardado(n)' # Guardado(n)}) <= 1]_vars
    BY PasoDelDisco, CambiaUno
  <1>2. QED
    BY Disco, <1>1, PTL DEF Spec, UnoALaVez

(***************************************************************************)
(* Searching.                                                              *)
(***************************************************************************)

\* The live nodes, but the root, are those whose name a path can have: a search
\* finds no node that was erased.
NombresOK ==
    \A n \in Nodos : tabla_nodos[n].nombre_archivo \in Nombres
                        <=> tabla_nodos[n].estado # "BORRADO" /\ n # Raiz

\* One round of buscar_archivo: from the nodes antes to their parents.
Ronda(antes, nombre) ==
    LET padres == [h \in DOMAIN antes |-> extraer_nodo(Padre(antes[h]))] IN
    IF Nulo \in Range(padres) THEN <<>>
    ELSE Restrict(padres, {h \in DOMAIN padres : Nombre(padres[h]) = nombre})

\* The rounds of a search, one after the other, and what it answers.
SonRondas(ronda, p) ==
    /\ ronda[0] = [h \in buscar(Last(p)) |-> h]
    /\ \A k \in 1..Len(p) - 1 : ronda[k] = Ronda(ronda[k - 1], p[Len(p) - k])
Encuentra(fin) ==
    IF Cardinality(DOMAIN fin) = 1 /\ \A h \in DOMAIN fin : Padre(fin[h]) = Raiz
    THEN extraer_nodo(Min(DOMAIN fin)) ELSE Nulo

\* A search goes up one round for each name of the path but the last.
LEMMA Rondas ==
  ASSUME NEW p, p # <<>>, Len(p) \in Nat \ {0}
  PROVE  \E ronda : /\ SonRondas(ronda, p)
                    /\ buscar_archivo(p) =
                         IF buscar(Last(p)) = {} THEN Nulo
                         ELSE IF Len(p) = 1 THEN extraer_nodo(Min(buscar(Last(p))))
                         ELSE Encuentra(ronda[Len(p) - 1])
  <1> DEFINE N == Len(p) - 1
             inicio == [h \in buscar(Last(p)) |-> h]
             Sig(s, k) == Ronda(s, p[Len(p) - k])
             EsTurno(t, m) == t = [k \in 0..m |-> IF k = 0 THEN inicio ELSE Sig(t[k - 1], k)]
             turno == CHOOSE t : EsTurno(t, N)
  <1>1. buscar_archivo(p) =
          IF buscar(Last(p)) = {} THEN Nulo
          ELSE IF Len(p) = 1 THEN extraer_nodo(Min(buscar(Last(p))))
          ELSE Encuentra(turno[N])
    BY DEF buscar_archivo, Ronda, Encuentra
  <1>2. N \in Nat
    OBVIOUS
  <1> HIDE DEF inicio, Sig, N
  <1>3. \E t : EsTurno(t, N)
    <2> DEFINE S == {m \in 0..N : \E t : EsTurno(t, m)}
    <2>1. 0 \in S
      <3>1. PICK t : t = [n \in 0..0 |-> inicio]
        OBVIOUS
      <3>2. EsTurno(t, 0)
        BY <3>1
      <3>3. QED
        BY <1>2, <3>2
    <2>2. ASSUME NEW m \in 0..N, m \in S, m # N
          PROVE  m + 1 \in S
      <3>1. PICK t : t = [k \in 0..m |-> IF k = 0 THEN inicio ELSE Sig(t[k - 1], k)]
        BY <2>2
      <3>2. PICK u : u = [k \in 0..m + 1 |-> IF k = 0 THEN inicio ELSE Sig(t[k - 1], k)]
        OBVIOUS
      <3>3. \A n \in 0..m : u[n] = t[n]
        BY <3>1, <3>2
      <3>4. \A n \in 0..m + 1 : n # 0 => u[n - 1] = t[n - 1]
        BY <3>3
      <3>5. EsTurno(u, m + 1)
        BY <3>2, <3>4
      <3>6. m + 1 \in 0..N
        BY <1>2, <2>2
      <3> HIDE DEF EsTurno
      <3>7. QED
        BY <3>5, <3>6
    <2> HIDE DEF EsTurno
    <2>3. N \in S
      <3> HIDE DEF S
      <3>1. 0..N \subseteq S
        BY <1>2, <2>1, <2>2, HastaN
      <3>2. QED
        BY <1>2, <3>1
    <2>4. QED
      BY <2>3
  <1>4. EsTurno(turno, N)
    BY <1>3
  <1> HIDE DEF turno
  <1>5. turno[0] = inicio /\ \A k \in 1..N : turno[k] = Sig(turno[k - 1], k)
    BY <1>2, <1>4
  <1>6. SonRondas(turno, p)
    BY <1>5 DEF SonRondas, inicio, Sig, N
  <1>7. QED
    BY <1>1, <1>6 DEF N

\* A round only loses nodes that had the name at the start.
LEMMA RondasDentro ==
  ASSUME NEW p, Len(p) \in Nat \ {0}, NEW ronda, SonRondas(ronda, p)
  PROVE  DOMAIN ronda[Len(p) - 1] \subseteq buscar(Last(p))
  <1> DEFINE N == Len(p) - 1
             S == {k \in 0..N : DOMAIN ronda[k] \subseteq buscar(Last(p))}
  <1>1. N \in Nat
    OBVIOUS
  <1>2. 0 \in S
    BY DEF SonRondas
  <1>3. ASSUME NEW k \in 0..N, k \in S, k # N
        PROVE  k + 1 \in S
    <2>1. k + 1 \in 1..N /\ k + 1 - 1 = k
      BY <1>3
    <2>2. PICK x : ronda[k + 1] = Ronda(ronda[k], x)
      BY <2>1 DEF SonRondas
    <2>3. DOMAIN <<>> = {}
      OBVIOUS
    <2>4. DOMAIN Ronda(ronda[k], x) \subseteq DOMAIN ronda[k]
      BY <2>3 DEF Ronda, Restrict
    <2>5. QED
      BY <1>3, <2>1, <2>2, <2>4
  <1>4. N \in S
    <2> HIDE DEF S, N
    <2>1. 0..N \subseteq S
      BY <1>1, <1>2, <1>3, HastaN
    <2>2. QED
      BY <1>1, <2>1
  <1>5. QED
    BY <1>4

\* There are finitely many nodes.
LEMMA NodosFinitos == IsFiniteSet(Nodos) /\ Nodos \subseteq Nat /\ MAX_FILE_COUNT \in Nat
  <1>1. MAX_FILE_COUNT \in Nat \ {0, 1}
    BY SacDiscoConstantes, Zenon
  <1>2. IsFiniteSet(0..MAX_FILE_COUNT - 1)
    BY <1>1, FS_Interval
  <1>3. QED
    BY <1>1, <1>2 DEF Nodos

\* What a search finds has the last name of the path.
LEMMA BuscadoPorNombre ==
  ASSUME NEW p \in Caminos, buscar_archivo(p) # Nulo
  PROVE  /\ buscar_archivo(p) \in Nodos \ {Raiz}
         /\ Nombre(buscar_archivo(p)) = Last(p) /\ Last(p) \in Nombres
  <1>1. /\ p \in Seq(Nombres) /\ p # <<>> /\ Len(p) \in Nat \ {0}
    <2>1. p \in Seq(Nombres) \ {<<>>}
      BY SacDiscoConstantes, Zenon
    <2>2. QED
      BY <2>1
  <1>2. Last(p) \in Nombres
    BY <1>1 DEF Last
  <1>3. PICK n : n = buscar_archivo(p)
    OBVIOUS
  <1>4. n \in Nodos \ {Raiz}
    BY <1>1, <1>3, Buscado
  <1>5. PICK H : H = buscar(Last(p))
    OBVIOUS
  <1>6. H \subseteq Nodos /\ \A h \in H : Nombre(h) = Last(p)
    BY <1>5 DEF buscar
  <1>7. ASSUME NEW h \in H PROVE extraer_nodo(h) \in {h, Nulo}
    BY DEF extraer_nodo
  <1>8. PICK ronda : /\ SonRondas(ronda, p)
                     /\ n = IF H = {} THEN Nulo
                            ELSE IF Len(p) = 1 THEN extraer_nodo(Min(H))
                            ELSE Encuentra(ronda[Len(p) - 1])
    BY <1>1, <1>3, <1>5, Rondas
  <1>9. n \in H
    <2>1. H # {} /\ n # Nulo
      BY <1>3, <1>8
    <2>2. H \in SUBSET Nat
      BY <1>6, NodosFinitos
    <2>3. CASE Len(p) = 1
      <3>1. Min(H) \in H
        BY <2>1, <2>2, PrimeroEsta
      <3>2. QED
        BY <1>7, <1>8, <2>1, <2>3, <3>1
    <2>4. CASE Len(p) # 1
      <3>1. PICK D : D = DOMAIN ronda[Len(p) - 1]
        OBVIOUS
      <3>2. D \subseteq H
        BY <1>1, <1>5, <1>8, <3>1, RondasDentro
      <3>3. Cardinality(D) = 1 /\ n = extraer_nodo(Min(D))
        BY <1>8, <2>1, <2>4, <3>1 DEF Encuentra
      <3>4. D # {}
        BY <3>3, FS_EmptySet
      <3>5. D \in SUBSET Nat
        BY <2>2, <3>2
      <3>6. Min(D) \in D
        BY <3>4, <3>5, PrimeroEsta
      <3>7. QED
        BY <1>7, <2>1, <3>2, <3>3, <3>6
    <2>5. QED
      BY <2>3, <2>4
  <1>10. QED
    BY <1>2, <1>3, <1>4, <1>6, <1>9

\* The nodes Z get a name or lose it; the others keep theirs.
LEMMA NombresCambian ==
  ASSUME NombresOK, NEW Z,
         \A m \in Nodos \ Z : /\ tabla_nodos'[m].estado = tabla_nodos[m].estado
                              /\ tabla_nodos'[m].nombre_archivo = tabla_nodos[m].nombre_archivo,
         \A m \in Z \cap Nodos : tabla_nodos'[m].nombre_archivo \in Nombres
                        <=> tabla_nodos'[m].estado # "BORRADO" /\ m # Raiz
  PROVE  NombresOK'
  BY DEF NombresOK

\* At first the root is the only element.
LEMMA NombresIniciales == Init => NombresOK
  <1> SUFFICES ASSUME Init PROVE NombresOK
    OBVIOUS
  <1>1. \A n \in Nodos : tabla_nodos[n] = IF n = Raiz THEN crear_nodo("DIRECTORIO", "/", Raiz)
                                          ELSE crear_nodo("BORRADO", "", Raiz)
    BY DEF Init
  <1>2. "" \notin Nombres /\ "/" \notin Nombres
    BY SacDiscoConstantes, Zenon
  <1>3. \A n \in Nodos \ {Raiz} :
          tabla_nodos[n].estado = "BORRADO" /\ tabla_nodos[n].nombre_archivo = ""
    <2>1. PICK libre : libre = crear_nodo("BORRADO", "", Raiz)
      OBVIOUS
    <2>2. libre.estado = "BORRADO" /\ libre.nombre_archivo = ""
      BY <2>1 DEF crear_nodo
    <2>3. QED
      BY <1>1, <2>1, <2>2, Zenon
  <1>4. tabla_nodos[Raiz].nombre_archivo \notin Nombres
    <2>1. tabla_nodos[Raiz] = crear_nodo("DIRECTORIO", "/", Raiz)
      BY <1>1, RaizYNulo, Zenon
    <2>2. crear_nodo("DIRECTORIO", "/", Raiz).nombre_archivo = "/"
      BY DEF crear_nodo
    <2>3. QED
      BY <1>2, <2>1, <2>2, Zenon
  <1>5. ASSUME NEW n \in Nodos
        PROVE  tabla_nodos[n].nombre_archivo \in Nombres
                 <=> tabla_nodos[n].estado # "BORRADO" /\ n # Raiz
    <2>1. CASE n = Raiz
      BY <1>4, <2>1
    <2>2. CASE n # Raiz
      BY <1>2, <1>3, <2>2
    <2>3. QED
      BY <2>1, <2>2
  <1>6. QED
    BY <1>5 DEF NombresOK

\* A node that was erased has no name.
LEMMA SinNombre ==
  ASSUME NEW ind
  PROVE  LET nodo == [NodoBorrado EXCEPT !.simple_indirect = ind]
         IN nodo.estado = "BORRADO" /\ nodo.nombre_archivo \notin Nombres
  <1>1. "" \notin Nombres
    BY SacDiscoConstantes, Zenon
  <1>2. QED
    BY <1>1 DEF NodoBorrado, crear_nodo

\* A write or a truncation changes no name.
LEMMA NombresDejar ==
  ASSUME TipoOK, NombresOK, NEW n, NEW d, Dejar(n, d)
  PROVE  NombresOK'
  <1>1. tabla_nodos \in [Nodos -> TipoNodo]
    BY TiposDelDisco
  <1>2. CASE UNCHANGED tabla_nodos
    BY <1>2 DEF NombresOK
  <1>3. CASE tabla_nodos' = [tabla_nodos EXCEPT ![n].tam_archivo = d.tam,
                                               ![n].simple_indirect = d.ind]
    <2>1. \A m \in Nodos : /\ tabla_nodos'[m].estado = tabla_nodos[m].estado
                           /\ tabla_nodos'[m].nombre_archivo = tabla_nodos[m].nombre_archivo
      BY <1>1, <1>3 DEF TipoNodo
    <2>2. QED
      BY <2>1, NombresCambian, {} \cap Nodos = {}
  <1>4. QED
    BY <1>2, <1>3 DEF Dejar

\* A free node gets the name of the new element.
LEMMA NombresCrear ==
  ASSUME TipoOK, IInv, NombresOK, NEW p \in Caminos, NEW e \in {"OCUPADO", "DIRECTORIO"},
         CrearElemento(p, e)
  PROVE  NombresOK'
  <1>1. PICK libre : libre = Min(buscar_nodo_libre)
    OBVIOUS
  <1>2. PICK padre : tabla_nodos' = [tabla_nodos EXCEPT ![libre] = crear_nodo(e, Last(p), padre)]
    BY <1>1, Zenon DEF CrearElemento
  <1>3. buscar_nodo_libre # {}
    BY Zenon DEF CrearElemento
  <1>4. libre \in Nodos /\ Estado(libre) = "BORRADO"
    BY <1>1, <1>3, NodoLibre
  <1>5. libre # Raiz
    BY <1>4 DEF IInv, PadresOK, Estado
  <1>6. Last(p) \in Nombres
    <2>1. p \in Seq(Nombres) \ {<<>>}
      BY SacDiscoConstantes, Zenon
    <2>2. QED
      BY <2>1 DEF Last
  <1>7. tabla_nodos \in [Nodos -> TipoNodo]
    BY TiposDelDisco
  <1>8. tabla_nodos'[libre].nombre_archivo = Last(p) /\ tabla_nodos'[libre].estado = e
    BY <1>2, <1>4, <1>7 DEF crear_nodo
  <1>9. \A m \in Nodos \ {libre} : tabla_nodos'[m] = tabla_nodos[m]
    BY <1>2, <1>7
  <1>10. QED
    BY <1>5, <1>6, <1>8, <1>9 DEF NombresOK

\* The node of a file that is erased loses its name.
LEMMA NombresBorrar ==
  ASSUME TipoOK, NombresOK, NEW p \in Caminos, BorrarArchivo(p)
  PROVE  NombresOK'
  <1>1. PICK n : n = buscar_archivo(p)
    OBVIOUS
  <1>2. PICK ind : tabla_nodos' = [tabla_nodos EXCEPT ![n] =
                                     [NodoBorrado EXCEPT !.simple_indirect = ind]]
    BY <1>1, Zenon DEF BorrarArchivo
  <1>3. tabla_nodos \in [Nodos -> TipoNodo]
    BY TiposDelDisco
  <1>4. \A m \in Nodos \ {n} : tabla_nodos'[m] = tabla_nodos[m]
    BY <1>2, <1>3
  <1>5. n \in Nodos => tabla_nodos'[n] = [NodoBorrado EXCEPT !.simple_indirect = ind]
    BY <1>2, <1>3
  <1>6. QED
    BY <1>4, <1>5, SinNombre DEF NombresOK

\* The nodes of a directory that is erased lose their names.
LEMMA NombresBorrarDir ==
  ASSUME TipoOK, NombresOK, NEW p, BorrarDirectorio(p)
  PROVE  NombresOK'
  <1>1. CASE UNCHANGED tabla_nodos
    BY <1>1 DEF NombresOK
  <1>2. CASE ~ UNCHANGED tabla_nodos
    <2> DEFINE todos == {buscar_archivo(p)} \cup Contenidos(buscar_archivo(p))
               nodo(m) == [NodoBorrado EXCEPT
                             !.simple_indirect = borrar_archivo_por_nodo(Archivo(m)).ind]
    <2>1. tabla_nodos' = [m \in Nodos |-> IF m \notin todos THEN tabla_nodos[m] ELSE nodo(m)]
      BY <1>2, Zenon DEF BorrarDirectorio
    <2>2. \A m : nodo(m).estado = "BORRADO" /\ nodo(m).nombre_archivo \notin Nombres
      BY SinNombre
    <2> HIDE DEF todos, nodo
    <2>3. \A m \in Nodos \ todos : tabla_nodos'[m] = tabla_nodos[m]
      BY <2>1
    <2>4. \A m \in todos \cap Nodos : tabla_nodos'[m] = nodo(m)
      BY <2>1
    <2>5. QED
      BY <2>2, <2>3, <2>4, NombresCambian
  <1>3. QED
    BY <1>1, <1>2

\* What is renamed is not the root, and gets the name of a path.
LEMMA NombresRenombrar ==
  ASSUME TipoOK, NombresOK, NEW p \in Caminos, NEW q \in Caminos, Renombrar(p, q)
  PROVE  NombresOK'
  <1>1. PICK n : n = buscar_archivo(p)
    OBVIOUS
  <1>2. PICK padre : tabla_nodos' = [tabla_nodos EXCEPT ![n].nombre_archivo = Last(q),
                                                        ![n].bloque_padre = padre]
    BY <1>1, Zenon DEF Renombrar
  <1>3. n # Nulo
    BY <1>1, Zenon DEF Renombrar
  <1>4. n \in Nodos \ {Raiz} /\ Nombre(n) \in Nombres
    BY <1>1, <1>3, BuscadoPorNombre
  <1>5. Last(q) \in Nombres
    <2>1. q \in Seq(Nombres) \ {<<>>}
      BY SacDiscoConstantes, Zenon
    <2>2. QED
      BY <2>1 DEF Last
  <1>6. tabla_nodos \in [Nodos -> TipoNodo]
    BY TiposDelDisco
  <1>7. \A m \in Nodos \ {n} : tabla_nodos'[m] = tabla_nodos[m]
    BY <1>2, <1>6
  <1>8. tabla_nodos'[n].estado = tabla_nodos[n].estado /\ tabla_nodos'[n].nombre_archivo = Last(q)
    BY <1>2, <1>4, <1>6 DEF TipoNodo
  <1>9. tabla_nodos[n].estado # "BORRADO"
    BY <1>4 DEF NombresOK, Nombre
  <1>10. QED
    BY <1>4, <1>5, <1>7, <1>8, <1>9 DEF NombresOK

\* Each operation names what it creates or moves, and takes the name from what it erases.
LEMMA NombresInductivo ==
  ASSUME TipoOK, IInv, NombresOK, [Next]_vars
  PROVE  NombresOK'
  <1>1. ASSUME NEW p \in Caminos, NEW e \in {"OCUPADO", "DIRECTORIO"}, CrearElemento(p, e)
        PROVE  NombresOK'
    BY <1>1, NombresCrear
  <1>2. ASSUME NEW p \in Caminos, NEW c \in Textos, NEW off \in Offsets, EscribirArchivo(p, c, off)
        PROVE  NombresOK'
    <2>1. PICK n, d : Dejar(n, d)
      BY <1>2, Zenon DEF EscribirArchivo
    <2>2. QED
      BY <2>1, NombresDejar
  <1>3. ASSUME NEW p \in Caminos, NEW off \in Tamanios, TruncarArchivo(p, off)
        PROVE  NombresOK'
    <2>1. PICK n, d : Dejar(n, d)
      BY <1>3, Zenon DEF TruncarArchivo
    <2>2. QED
      BY <2>1, NombresDejar
  <1>4. ASSUME NEW p \in Caminos, NEW off \in Offsets, LeerArchivo(p, MaxTam, off)
        PROVE  NombresOK'
    <2>1. tabla_nodos' = tabla_nodos
      BY <1>4, Zenon DEF LeerArchivo
    <2>2. QED
      BY <2>1 DEF NombresOK
  <1>5. ASSUME NEW p \in Caminos, BorrarArchivo(p)
        PROVE  NombresOK'
    BY <1>5, NombresBorrar
  <1>6. ASSUME NEW p \in Caminos, BorrarDirectorio(p)
        PROVE  NombresOK'
    BY <1>6, NombresBorrarDir
  <1>7. ASSUME NEW p \in Caminos, NEW q \in Caminos, Renombrar(p, q)
        PROVE  NombresOK'
    BY <1>7, NombresRenombrar
  <1>8. CASE UNCHANGED vars
    BY <1>8 DEF vars, NombresOK
  <1>9. QED
    BY <1>1, <1>2, <1>3, <1>4, <1>5, <1>6, <1>7, <1>8 DEF Next

\* The ancestors of a node, one parent at a time.
LEMMA AncestroEs ==
  ASSUME NEW n
  PROVE  /\ Ancestro(n)[0] = n
         /\ \A k \in 1..MAX_FILE_COUNT - 1 : Ancestro(n)[k] = Padre(Ancestro(n)[k - 1])
  <1> DEFINE N == MAX_FILE_COUNT - 1
             EsTurno(t, m) == t = [k \in 0..m |-> IF k = 0 THEN n ELSE Padre(t[k - 1])]
             sube == CHOOSE t : EsTurno(t, N)
  <1>1. Ancestro(n) = sube
    BY DEF Ancestro, Nodos
  <1>2. N \in Nat
    <2>1. MAX_FILE_COUNT \in Nat \ {0, 1}
      BY SacDiscoConstantes, Zenon
    <2>2. QED
      BY <2>1
  <1> HIDE DEF N
  <1>3. \E t : EsTurno(t, N)
    <2> DEFINE S == {m \in 0..N : \E t : EsTurno(t, m)}
    <2>1. 0 \in S
      <3>1. PICK t : t = [k \in 0..0 |-> n]
        OBVIOUS
      <3>2. EsTurno(t, 0)
        BY <3>1
      <3>3. QED
        BY <1>2, <3>2
    <2>2. ASSUME NEW m \in 0..N, m \in S, m # N
          PROVE  m + 1 \in S
      <3>1. PICK t : t = [k \in 0..m |-> IF k = 0 THEN n ELSE Padre(t[k - 1])]
        BY <2>2
      <3>2. PICK u : u = [k \in 0..m + 1 |-> IF k = 0 THEN n ELSE Padre(t[k - 1])]
        OBVIOUS
      <3>3. \A k \in 0..m : u[k] = t[k]
        BY <3>1, <3>2
      <3>4. \A k \in 0..m + 1 : k # 0 => u[k - 1] = t[k - 1]
        BY <3>3
      <3>5. EsTurno(u, m + 1)
        BY <3>2, <3>4
      <3>6. m + 1 \in 0..N
        BY <1>2, <2>2
      <3> HIDE DEF EsTurno
      <3>7. QED
        BY <3>5, <3>6
    <2> HIDE DEF EsTurno
    <2>3. N \in S
      <3> HIDE DEF S
      <3>1. 0..N \subseteq S
        BY <1>2, <2>1, <2>2, HastaN
      <3>2. QED
        BY <1>2, <3>1
    <2>4. QED
      BY <2>3
  <1>4. EsTurno(sube, N)
    BY <1>3
  <1> HIDE DEF sube
  <1>5. sube[0] = n /\ \A k \in 1..N : sube[k] = Padre(sube[k - 1])
    BY <1>2, <1>4
  <1>6. QED
    BY <1>1, <1>5 DEF N

\* A node that hangs from the root: how deep it is, and its path.
Hondura(n, alto) ==
    /\ alto \in Nodos /\ Ancestro(n)[alto] = Raiz
    /\ \A k \in 0..alto - 1 : Ancestro(n)[k] \in Nodos \ {Raiz}
    /\ CaminoDe(n) = [x \in 1..alto |-> Nombre(Ancestro(n)[alto - x])]

\* How many parents there are from a node that hangs from the root to it.
LEMMA HonduraDe ==
  ASSUME TipoOK, NEW n \in Nodos, Cuelga(n)
  PROVE  \E alto : Hondura(n, alto)
  <1> DEFINE S == {k \in Nodos : Ancestro(n)[k] = Raiz}
  <1>1. S # {} /\ S \in SUBSET Nat
    BY NodosFinitos DEF Cuelga
  <1>2. PICK alto : alto = Min(S)
    OBVIOUS
  <1>3. alto \in S
    BY <1>1, <1>2, PrimeroEsta
  <1>4. \A k \in S : alto <= k
    <2>1. PICK x \in S : \A k \in S : x <= k
      BY <1>1, HayMinimo
    <2> HIDE DEF S
    <2>2. QED
      BY <1>1, <1>2, <2>1 DEF Min
  <1>5. CaminoDe(n) = [x \in 1..alto |-> Nombre(Ancestro(n)[alto - x])]
    BY <1>2 DEF CaminoDe
  <1>6. alto \in Nat /\ alto < MAX_FILE_COUNT /\ MAX_FILE_COUNT \in Nat
    BY <1>3, NodosFinitos DEF Nodos
  <1>7. \A k \in 0..alto - 1 : k \in Nodos /\ k \notin S
    BY <1>3, <1>4, <1>6 DEF Nodos
  <1> DEFINE T == {k \in 0..alto : Ancestro(n)[k] \in Nodos}
  <1>8. 0..alto \subseteq T
    <2>1. 0 \in T
      BY <1>6, AncestroEs
    <2>2. ASSUME NEW k \in 0..alto, k \in T, k # alto PROVE k + 1 \in T
      <3>1. k + 1 \in 1..MAX_FILE_COUNT - 1 /\ k + 1 \in 0..alto /\ k + 1 - 1 = k
        BY <1>6, <2>2
      <3>2. Ancestro(n)[k + 1] = Padre(Ancestro(n)[k])
        BY <3>1, AncestroEs
      <3>3. \A m \in Nodos : Padre(m) \in Nodos
        BY TiposDelDisco DEF Padre, TipoNodo
      <3>4. QED
        BY <2>2, <3>1, <3>2, <3>3
    <2> HIDE DEF T
    <2>3. QED
      BY <1>6, <2>1, <2>2, HastaN
  <1>9. \A k \in 0..alto - 1 : Ancestro(n)[k] \in Nodos \ {Raiz}
    BY <1>6, <1>7, <1>8
  <1>10. QED
    BY <1>3, <1>5, <1>9 DEF Hondura

\* On a path of its own, a search climbs from the node to the root.
LEMMA SubeSolo ==
  ASSUME NEW n, NEW alto \in Nat \ {0}, alto < MAX_FILE_COUNT, MAX_FILE_COUNT \in Nat,
         NEW p, \A x \in 1..alto : p[x] = Nombre(Ancestro(n)[alto - x]),
         \A k \in 0..alto - 1 : Ancestro(n)[k] \in Nodos \ {Raiz},
         buscar(Last(p)) = {n}, Len(p) = alto,
         NEW ronda, SonRondas(ronda, p)
  PROVE  /\ DOMAIN ronda[alto - 1] = {n}
         /\ ronda[alto - 1][n] = Ancestro(n)[alto - 1]
  <1> DEFINE S == {k \in 0..alto - 1 : ronda[k] = [h \in {n} |-> Ancestro(n)[k]]}
  <1>1. 0 \in S
    <2>1. Ancestro(n)[0] = n
      BY AncestroEs
    <2>2. ronda[0] = [h \in {n} |-> h]
      BY DEF SonRondas
    <2>3. QED
      BY <2>1, <2>2
  <1>2. ASSUME NEW k \in 0..alto - 1, k \in S, k # alto - 1 PROVE k + 1 \in S
    <2>1. k + 1 \in 1..alto - 1 /\ k + 1 \in 1..MAX_FILE_COUNT - 1 /\ k + 1 - 1 = k
      BY <1>2
    <2>2. PICK x : x = p[alto - (k + 1)]
      OBVIOUS
    <2>3. x = Nombre(Ancestro(n)[k + 1])
      <3>1. alto - (k + 1) \in 1..alto /\ alto - (alto - (k + 1)) = k + 1
        BY <2>1
      <3>2. QED
        BY <2>2, <3>1
    <2>4. ronda[k + 1] = Ronda(ronda[k], x)
      BY <2>1, <2>2 DEF SonRondas
    <2>5. PICK a : a = ronda[k]
      OBVIOUS
    <2>6. a = [h \in {n} |-> Ancestro(n)[k]]
      BY <1>2, <2>5
    <2>7. PICK m : m = Ancestro(n)[k + 1]
      OBVIOUS
    <2>8. m = Padre(Ancestro(n)[k]) /\ m \in Nodos \ {Raiz}
      BY <2>1, <2>7, AncestroEs
    <2>9. PICK padres : padres = [h \in DOMAIN a |-> extraer_nodo(Padre(a[h]))]
      OBVIOUS
    <2>10. padres = [h \in {n} |-> m]
      <3>1. extraer_nodo(m) = m
        BY <2>8 DEF extraer_nodo
      <3>2. QED
        BY <2>6, <2>8, <2>9, <3>1
    <2>11. Nulo \notin Range(padres)
      BY <2>8, <2>10, RaizYNulo DEF Range
    <2>12. {h \in DOMAIN padres : Nombre(padres[h]) = x} = {n}
      BY <2>3, <2>7, <2>10
    <2>13. Ronda(a, x) = Restrict(padres, {n})
      BY <2>9, <2>11, <2>12 DEF Ronda
    <2>14. Ronda(a, x) = [h \in {n} |-> m]
      BY <2>10, <2>13 DEF Restrict
    <2>15. QED
      BY <2>1, <2>4, <2>5, <2>7, <2>14
  <1>3. alto - 1 \in S
    <2> DEFINE N == alto - 1
    <2>1. N \in Nat
      OBVIOUS
    <2> HIDE DEF S, N
    <2>2. \A k \in 0..N : k \in S /\ k # N => k + 1 \in S
      BY <1>2 DEF N
    <2>3. 0..N \subseteq S
      BY <1>1, <2>1, <2>2, HastaN
    <2>4. QED
      BY <2>1, <2>3 DEF N
  <1>4. QED
    BY <1>3

\* Only the node has its name, and its parents lead to the root.
LEMMA BusquedaBuena ==
  ASSUME TipoOK, IInv, NombresOK
  PROVE  BusquedaCorrecta
  <1> SUFFICES ASSUME NombresDistintos, NEW n \in Vivos, Cuelga(n)
               PROVE  buscar_archivo(CaminoDe(n)) = n
    BY DEF BusquedaCorrecta
  <1>1. n \in Nodos /\ tabla_nodos[n].estado # "BORRADO"
    BY DEF Vivos, Estado
  <1>2. PICK alto : Hondura(n, alto)
    BY <1>1, HonduraDe
  <1>3. PICK p : p = CaminoDe(n)
    OBVIOUS
  <1>4. p = [x \in 1..alto |-> Nombre(Ancestro(n)[alto - x])]
    BY <1>2, <1>3 DEF Hondura
  <1>5. alto \in Nat /\ alto < MAX_FILE_COUNT /\ MAX_FILE_COUNT \in Nat
    BY <1>2, NodosFinitos DEF Hondura, Nodos
  <1>6. \A k \in 0..alto - 1 : Ancestro(n)[k] \in Nodos \ {Raiz}
    BY <1>2 DEF Hondura
  <1>7. Ancestro(n)[alto] = Raiz /\ Ancestro(n)[0] = n
    BY <1>2, AncestroEs DEF Hondura
  <1>8. CASE alto = 0
    <2>1. p = <<>> /\ n = Raiz
      BY <1>4, <1>7, <1>8
    <2>2. QED
      BY <1>3, <2>1 DEF buscar_archivo
  <1>9. CASE alto # 0
    <2>1. Len(p) = alto /\ p # <<>>
      BY <1>4, <1>5, <1>9
    <2>2. n # Raiz /\ Last(p) = Nombre(n)
      <3>1. 0 \in 0..alto - 1 /\ alto \in 1..alto
        BY <1>5, <1>9
      <3>2. Last(p) = p[alto]
        BY <2>1 DEF Last
      <3>3. QED
        BY <1>4, <1>6, <1>7, <3>1, <3>2
    <2>3. Nombre(n) \in Nombres
      BY <1>1, <2>2 DEF NombresOK, Nombre
    <2>4. buscar(Last(p)) = {n}
      <3>1. ASSUME NEW m \in Nodos, Nombre(m) = Nombre(n) PROVE m = n
        <4>1. m \in Vivos
          BY <2>3, <3>1 DEF NombresOK, Nombre, Vivos, Estado
        <4>2. QED
          BY <3>1, <4>1 DEF NombresDistintos
      <3>2. QED
        BY <1>1, <2>2, <3>1 DEF buscar
    <2>5. {n} \in SUBSET Nat /\ {n} # {}
      BY <1>1, NodosFinitos
    <2>6. Min({n}) = n
      BY <2>5, PrimeroEsta
    <2>7. extraer_nodo(n) = n
      BY <1>1, <2>2 DEF extraer_nodo
    <2>8. PICK ronda : /\ SonRondas(ronda, p)
                       /\ buscar_archivo(p) = IF Len(p) = 1 THEN extraer_nodo(Min({n}))
                                              ELSE Encuentra(ronda[Len(p) - 1])
      BY <1>5, <1>9, <2>1, <2>4, Rondas
    <2>9. CASE alto = 1
      BY <1>3, <2>1, <2>6, <2>7, <2>8, <2>9
    <2>10. CASE alto # 1
      <3>1. PICK fin : fin = ronda[alto - 1]
        OBVIOUS
      <3>2. DOMAIN fin = {n} /\ fin[n] = Ancestro(n)[alto - 1]
        <4>1. alto \in Nat \ {0} /\ SonRondas(ronda, p) /\ Len(p) = alto
          BY <1>5, <1>9, <2>1, <2>8
        <4>2. \A x \in 1..alto : p[x] = Nombre(Ancestro(n)[alto - x])
          BY <1>4
        <4>3. DOMAIN ronda[alto - 1] = {n} /\ ronda[alto - 1][n] = Ancestro(n)[alto - 1]
          <5>1. alto < MAX_FILE_COUNT /\ MAX_FILE_COUNT \in Nat
            BY <1>5
          <5>2. \A k \in 0..alto - 1 : Ancestro(n)[k] \in Nodos \ {Raiz}
            BY <1>6
          <5>3. QED
            BY <2>4, <4>1, <4>2, <5>1, <5>2, SubeSolo
        <4>4. QED
          BY <3>1, <4>3
      <3>3. Padre(Ancestro(n)[alto - 1]) = Raiz
        <4>1. alto \in 1..MAX_FILE_COUNT - 1
          BY <1>5, <1>9
        <4>2. QED
          BY <1>7, <4>1, AncestroEs
      <3>4. DOMAIN fin = {n} /\ \A h \in DOMAIN fin : Padre(fin[h]) = Raiz
        BY <3>2, <3>3
      <3>5. Cardinality(DOMAIN fin) = 1
        BY <3>4, FS_Singleton
      <3>6. Encuentra(fin) = n
        BY <2>6, <2>7, <3>4, <3>5 DEF Encuentra
      <3>7. QED
        BY <1>3, <2>1, <2>8, <2>10, <3>1, <3>6
    <2>11. QED
      BY <2>9, <2>10
  <1>10. QED
    BY <1>8, <1>9

\* In every reachable disk the elements are the nodes with a name of a path.
LEMMA Nombrados == Spec => []NombresOK
  <1>1. TipoOK /\ IInv /\ NombresOK /\ [Next]_vars => NombresOK'
    BY NombresInductivo
  <1>2. QED
    BY Tipos, Invariante, NombresIniciales, <1>1, PTL DEF Spec

\* A search finds by its path each element that hangs from the root, while all names
\* are different: for any table and any names.
THEOREM BusquedaCorrectaSiempre == Spec => []BusquedaCorrecta
  <1>1. TipoOK /\ IInv /\ NombresOK => BusquedaCorrecta
    BY BusquedaBuena
  <1>2. QED
    BY Tipos, Invariante, Nombrados, <1>1, PTL
=============================================================================
