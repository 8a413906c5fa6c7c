-------------------------------- MODULE Muse --------------------------------
(***************************************************************************)
(* MUSE, the memory server (UwUntu/MUSE/MUSE.c): segments and pages of the *)
(* processes, frames of the main memory, the swap file, the clock          *)
(* replacement and the mapped files.  One thread attends one request at a  *)
(* time; a request that walks pages (alloc, map, cpy, get, sync) takes one *)
(* step per page and per swap.  The clients call libMUSE.h.                *)
(***************************************************************************)
EXTENDS Integers, Sequences, FiniteSets, Functions, SequencesExt

CONSTANTS Ids,            \* process ids of the clients
          Archivos,       \* paths that muse_map receives
          MEMORY_SIZE, PAGE_SIZE, SWAP_SIZE,    \* the configuration file
          Cero, Basura,   \* a byte of a fresh file, a byte never written
          Textos,         \* buffers that the clients copy
          Largos,         \* sizes that they ask for: alloc, map, get, sync
          Direcciones,    \* addresses that they use
          Observadas,     \* addresses that the properties look at
          Pedidos,        \* operations that they call
          MaxPedidos,     \* bound: requests of all the clients
          SinCelda        \* not a cell

ASSUME MuseConstantes ==
    /\ {PAGE_SIZE, MEMORY_SIZE, SWAP_SIZE, MaxPedidos} \subseteq Nat
    /\ PAGE_SIZE > 0 /\ MEMORY_SIZE >= PAGE_SIZE
    /\ Largos \subseteq Nat \ {0} /\ Direcciones \cup Observadas \subseteq Nat
    /\ \A t \in Textos : t \in Seq(ToSet(t)) \ {<<>>}
    /\ SinCelda \notin Nat \X Nat

VARIABLES
    procesos,           \* procesos[id]: the segments of an open process
    archivosMappeados,  \* by path: the files mapped so far
    paginas,            \* every page made; a page is named by its position
    frames,             \* what each frame is used for
    memoria,            \* memoriaPrincipal, by frame
    swaps,              \* the page in each slot of the swap file; 0 is free
    disco,              \* the swap file, by slot
    punteroClock,
    tarea,              \* the request being attended
    respuesta,          \* the last reply, until the next request
    muertos,            \* clients that libMUSE killed after an error
    vivo,               \* the server has not crashed
    pedidos             \* requests taken, bounded by MaxPedidos

fisica == <<paginas, frames, memoria, swaps, disco, punteroClock>>
tablas == <<procesos, archivosMappeados>>
vars == <<fisica, tablas, tarea, respuesta, muertos, vivo, pedidos>>

N == MEMORY_SIZE \div PAGE_SIZE
Frames == 0..N - 1
Slots == 0..(SWAP_SIZE \div PAGE_SIZE) - 1
Offsets == 0..PAGE_SIZE - 1

Menor(a, b) == IF a < b THEN a ELSE b
Nada == [op |-> "nada"]

Init ==
    /\ procesos = <<>>
    /\ archivosMappeados = <<>>
    /\ paginas = <<>>
    /\ frames = [f \in Frames |-> [pagina |-> 0, bitUso |-> FALSE,
                                   bitMod |-> FALSE, enUso |-> FALSE]]
    /\ memoria = [f \in Frames |-> [o \in Offsets |-> Basura]]
    /\ swaps = [s \in Slots |-> 0]
    /\ disco = [s \in Slots |-> [o \in Offsets |-> Basura]]
    /\ punteroClock = 0
    /\ tarea = Nada
    /\ respuesta = Nada
    /\ muertos = {}
    /\ vivo = TRUE
    /\ pedidos = 0

(***************************************************************************)
(* Segments.                                                               *)
(***************************************************************************)
Contiene(seg, dir) == seg.baseLogica <= dir /\ dir <= seg.baseLogica + seg.tamano

\* The position of the first segment that contains dir; 0 if none does.
obtenerSegmento(segs, dir) ==
    SelectInSeq(segs, LAMBDA seg : Contiene(seg, dir))

segUltimaPosicion(segs) ==
    IF segs = <<>> THEN 0 ELSE Last(segs).baseLogica + Last(segs).tamano

\* list_sort by base; the library may leave equal bases in any order.
Ordenes(segs) ==
    {s \in {[i \in DOMAIN segs |-> segs[p[i]]] :
              p \in {f \in [DOMAIN segs -> DOMAIN segs] : IsInjective(f)}} :
        \A i, j \in DOMAIN s : i < j => s[i].baseLogica <= s[j].baseLogica}

\* The last segment may grow, another one only into the gap that follows it.
Agrandable(segs, tam, tipo, i) ==
    /\ segs[i].tipo = tipo
    /\ i < Len(segs) =>
         segs[i].baseLogica + segs[i].tamano + tam < segs[i + 1].baseLogica

\* 0 is the -1 of the code.  The search reads past a last segment of the other
\* type, a null pointer: see Alloc.
segmentoAgrandar(segs, tam, tipo) ==
    SelectInSeq([i \in DOMAIN segs |-> i], LAMBDA i : Agrandable(segs, tam, tipo, i))

(***************************************************************************)
(* Frames and swap.                                                        *)
(***************************************************************************)
Vuelta(f) == IF f >= punteroClock THEN f - punteroClock ELSE f + N - punteroClock
Primero(S) == CHOOSE f \in S : \A g \in S : Vuelta(f) <= Vuelta(g)
SinUso(mod) == {f \in Frames : ~frames[f].bitUso /\ frames[f].bitMod = mod}
Limpios == {f \in Frames : ~frames[f].bitMod}

\* The four passes of clockModificado: the first look for (0,0); the second for
\* (0,1), clearing the use bits on its way; the last two repeat them.
clockModificado ==
    IF SinUso(FALSE) # {} THEN Primero(SinUso(FALSE))
    ELSE IF SinUso(TRUE) # {} THEN Primero(SinUso(TRUE))
    ELSE IF Limpios # {} THEN Primero(Limpios)
    ELSE punteroClock

Barridos == IF SinUso(FALSE) # {} THEN {}
            ELSE IF SinUso(TRUE) # {}
                 THEN {f \in Frames : Vuelta(f) < Vuelta(clockModificado)}
            ELSE Frames

TrasClock == [f \in Frames |-> IF f \in Barridos
                               THEN [frames[f] EXCEPT !.bitUso = FALSE] ELSE frames[f]]

moverPunteroEnClock == punteroClock' = IF clockModificado + 1 >= N THEN 0
                                       ELSE clockModificado + 1

FramesLibres == {f \in Frames : ~frames[f].enUso}
SlotsLibres == {s \in Slots : swaps[s] = 0}
Minimo(S) == CHOOSE x \in S : \A y \in S : x <= y

\* escribirMMap takes the first free slot for the page of the victim's frame.
Victima == frames[clockModificado].pagina
escribirMMap == Minimo(SlotsLibres)
ContenidoDe_Puntero(pag) == memoria[punteroClock]
ContenidoDe(pag) == memoria[paginas[pag].nroframe]

\* leerMMap looks the page up in the slots.
leerMMap(pag) == CHOOSE s \in Slots : swaps[s] = pag

(***************************************************************************)
(* Requests.  The server attends one at a time; a process calls only after *)
(* muse_init, and not after libMUSE has killed it for an error.            *)
(***************************************************************************)
Recibir(op) ==
    /\ op \in Pedidos /\ vivo /\ tarea = Nada /\ pedidos < MaxPedidos
    /\ pedidos' = pedidos + 1

Llamar(op, id) == Recibir(op) /\ id \in DOMAIN procesos \ muertos

Segs(id) == procesos[id]
Buscado(id, dir) == Segs(id)[obtenerSegmento(Segs(id), dir)]
Hay(id, dir) == obtenerSegmento(Segs(id), dir) # 0
EnMapa(id, dir) == Hay(id, dir) /\ Buscado(id, dir).tipo = "MAP"
ConSegs(id, segs) == [procesos EXCEPT ![id] = segs]

\* The reply; muse_get and muse_cpy of libMUSE kill their process on a -1.
Contestar(op, id, dir, n, res, datos) ==
    /\ respuesta' = [op |-> op, id |-> id, dir |-> dir, n |-> n,
                     res |-> res, datos |-> datos]
    /\ tarea' = Nada
    /\ muertos' = IF op \in {"cpy", "get"} /\ res = -1 THEN muertos \cup {id} ELSE muertos
    /\ UNCHANGED vivo

Empezar(t) == /\ tarea' = t
              /\ respuesta' = Nada
              /\ UNCHANGED <<muertos, vivo>>

\* The process of the server dies: a null pointer, or a write out of the map.
Caer == vivo' = FALSE /\ UNCHANGED <<fisica, tablas, tarea, respuesta, muertos>>

muse_init(id) ==
    /\ Recibir("init") /\ id \notin DOMAIN procesos \cup muertos
    /\ procesos' = [i \in DOMAIN procesos \cup {id} |->
                      IF i = id THEN <<>> ELSE procesos[i]]
    /\ Contestar("init", id, 0, 0, 0, <<>>)
    /\ UNCHANGED <<fisica, archivosMappeados>>

\* quitarUsuario frees the frame number that each page of the process holds.
FramesDe(segs) == {paginas[g].nroframe :
                     g \in UNION {ToSet(segs[i].tablaPaginas) : i \in DOMAIN segs}}

muse_close(id) ==
    /\ Llamar("close", id)
    /\ frames' = [f \in Frames |-> IF f \in FramesDe(Segs(id))
                                   THEN [frames[f] EXCEPT !.enUso = FALSE] ELSE frames[f]]
    /\ procesos' = Restrict(procesos, DOMAIN procesos \ {id})
    /\ Empezar(Nada)
    /\ UNCHANGED <<paginas, memoria, swaps, disco, punteroClock, archivosMappeados>>

NuevoSegmento(id, tam, tipo, pags, metadatas) ==
    [baseLogica |-> segUltimaPosicion(Segs(id)), tamano |-> tam, tipo |-> tipo,
     tablaPaginas |-> pags, metadatas |-> metadatas]

\* The room left in the last page, which growing takes whole.
Hueco_Vacia(seg) == PAGE_SIZE
Hueco(seg) == PAGE_SIZE - paginas[Last(seg.tablaPaginas)].desplazamiento

\* agrandarSegmento up to its loop over new pages.
agrandarSegmento(id, segs, i, tam) ==
    LET seg == segs[i]
        dir == seg.baseLogica + seg.tamano
        resta == IF Hueco(seg) > tam THEN 0 ELSE tam - Hueco(seg)
    IN  /\ procesos' = ConSegs(id, [segs EXCEPT
               ![i].tamano = @ + tam,
               ![i].metadatas = @ \cup {[dir |-> dir, tam |-> tam]}])
        /\ paginas' = [paginas EXCEPT ![Last(seg.tablaPaginas)].desplazamiento = PAGE_SIZE]
        /\ IF resta = 0 THEN Contestar("alloc", id, dir, tam, dir, <<>>)
           ELSE Empezar([op |-> "crecer", id |-> id, seg |-> i, dir |-> dir,
                         tam |-> tam, resta |-> resta])
        /\ UNCHANGED <<frames, memoria, swaps, disco, punteroClock, archivosMappeados>>

\* crearNuevoSegmento up to its loop: the segment is added when the loop ends.
crearNuevoSegmento(id, tam, tipo, path, flag) ==
    /\ Empezar([op |-> "crear", id |-> id, tam |-> tam, resta |-> tam, tipo |-> tipo,
                path |-> path, flag |-> flag, pags |-> <<>>])
    /\ UNCHANGED fisica

muse_alloc(id, tam) ==
    /\ Llamar("alloc", id)
    /\ \E segs \in Ordenes(Segs(id)) :
          \/ /\ segs = <<>>
             /\ crearNuevoSegmento(id, tam, "HEAP", SinCelda, SinCelda)
             /\ UNCHANGED tablas
          \/ /\ segmentoAgrandar(segs, tam, "HEAP") # 0
             /\ agrandarSegmento(id, segs, segmentoAgrandar(segs, tam, "HEAP"), tam)
          \/ \* past the last segment, of a mapped file
             /\ segs # <<>> /\ segmentoAgrandar(segs, tam, "HEAP") = 0
             /\ Caer

\* muse_free only moves the base of the segment.  No segment, or no block at its
\* base, is a null pointer.  The second mapping of a file leaves metadatas unset
\* (here, empty): the search through it crashes or finds nothing.
Bloque(seg, dir) == {m \in seg.metadatas : m.dir = dir}

SinBloque(id, dir) ==
    Hay(id, dir) => /\ Buscado(id, dir).baseLogica = dir
                    /\ Bloque(Buscado(id, dir), dir) = {}

muse_free(id, dir) ==
    /\ Llamar("free", id)
    /\ LET i == obtenerSegmento(Segs(id), dir)
       IN  \/ /\ ~SinBloque(id, dir)
              /\ procesos' = IF Segs(id)[i].baseLogica # dir THEN procesos
                             ELSE [procesos EXCEPT ![id][i].baseLogica =
                                     @ + (CHOOSE m \in Bloque(Segs(id)[i], dir) : TRUE).tam]
              /\ Empezar(Nada)
              /\ UNCHANGED <<fisica, archivosMappeados>>
           \/ /\ ~SinBloque(id, dir) => Buscado(id, dir).metadatas = {}
              /\ Caer

(***************************************************************************)
(* The loop that makes pages.                                              *)
(***************************************************************************)
Creando == vivo /\ tarea # Nada /\ tarea.op \in {"crear", "crecer"}

\* The page just made, the last of paginas', joins its segment; when no byte is
\* left the segment is complete and the request answered.
Anexar(pag) ==
    LET resta == tarea.resta - Menor(tarea.resta, PAGE_SIZE)
        id == tarea.id
    IN  IF tarea.op = "crecer"
        THEN /\ procesos' = [procesos EXCEPT
                   ![id][tarea.seg].tablaPaginas = Append(@, pag)]
             /\ UNCHANGED archivosMappeados
             /\ IF resta = 0
                THEN Contestar("alloc", id, tarea.dir, tarea.tam, tarea.dir, <<>>)
                ELSE Empezar([tarea EXCEPT !.resta = resta])
        ELSE LET pags == Append(tarea.pags, pag)
                 dir == segUltimaPosicion(Segs(id))
             IN  IF resta > 0
                 THEN /\ Empezar([tarea EXCEPT !.resta = resta, !.pags = pags])
                      /\ UNCHANGED tablas
                 ELSE /\ procesos' = ConSegs(id, Append(Segs(id),
                            NuevoSegmento(id, tarea.tam, tarea.tipo, pags,
                                          {[dir |-> dir, tam |-> tarea.tam]})))
                      /\ IF tarea.tipo = "HEAP"
                         THEN /\ UNCHANGED archivosMappeados
                              /\ Contestar("alloc", id, dir, tarea.tam, dir, <<>>)
                         ELSE /\ archivosMappeados' =
                                   [p \in DOMAIN archivosMappeados \cup {tarea.path} |->
                                      IF p # tarea.path THEN archivosMappeados[p]
                                      ELSE [compartido |-> tarea.flag, instancias |-> 1,
                                            paginas |-> pags, abierto |-> TRUE,
                                            map |-> [k \in 1..tarea.tam |-> Cero]]]
                              /\ Contestar("map", id, dir, tarea.tam, dir, <<>>)

\* crearPagina in frame f; pags and fs are the pages and frames at that point.
crearPagina(f, pags, fs) ==
    /\ paginas' = Append(pags, [nroframe |-> f, ubicacion |-> "MP",
                                desplazamiento |-> Menor(tarea.resta, PAGE_SIZE)])
    /\ frames' = [fs EXCEPT ![f] = [pagina |-> Len(pags) + 1, bitUso |-> TRUE,
                                    bitMod |-> TRUE, enUso |-> TRUE]]
    /\ Anexar(Len(pags) + 1)
    /\ UNCHANGED memoria

\* obtenerFrameLibre finds a frame that nobody uses.
CrearEnLibre ==
    /\ Creando /\ FramesLibres # {}
    /\ crearPagina(Minimo(FramesLibres), paginas, frames)
    /\ UNCHANGED <<swaps, disco, punteroClock, pedidos>>

\* The page of the victim goes to the first free slot of the swap file.
Desalojadas_Olvida == paginas
Desalojadas == [paginas EXCEPT ![Victima].ubicacion = "SWAP"]

\* obtenerFrameLibre takes the frame of a victim.
CrearDesalojando ==
    /\ Creando /\ FramesLibres = {} /\ SlotsLibres # {}
    /\ crearPagina(clockModificado, Desalojadas, TrasClock)
    /\ moverPunteroEnClock
    /\ disco' = [disco EXCEPT ![escribirMMap] = ContenidoDe(Victima)]
    /\ swaps' = [swaps EXCEPT ![escribirMMap] = Victima]
    /\ UNCHANGED pedidos

(***************************************************************************)
(* The loop of muse_copy and muse_get over the pages, muse_sync included.  *)
(***************************************************************************)
Recorriendo == vivo /\ tarea # Nada /\ tarea.op \in {"cpy", "get", "sync"}
Tabla == Segs(tarea.id)[tarea.seg].tablaPaginas
Pag == Tabla[tarea.nro]
EnTabla == tarea.nro <= Len(Tabla)

Recorrer(op, id, dir, n, texto, path, len) ==
    LET dirPag == dir - Buscado(id, dir).baseLogica
    IN  Empezar([op |-> op, id |-> id, seg |-> obtenerSegmento(Segs(id), dir),
                 dir |-> dir, n |-> n, resta |-> n,
                 nro |-> dirPag \div PAGE_SIZE + 1, desp |-> dirPag % PAGE_SIZE,
                 datos |-> texto, path |-> path, len |-> len])

Cabe(id, dir, n) ==
    LET seg == Buscado(id, dir) IN dir + n <= seg.baseLogica + seg.tamano

muse_cpy(id, dir, texto) ==
    /\ Llamar("cpy", id)
    /\ IF Hay(id, dir) /\ Cabe(id, dir, Len(texto))
       THEN Recorrer("cpy", id, dir, Len(texto), texto, SinCelda, 0)
       ELSE Contestar("cpy", id, dir, Len(texto), -1, texto)
    /\ UNCHANGED <<fisica, tablas>>

\* Out of the range of the segment muse_get answers 0 and copies nothing.
muse_get(id, dir, n) ==
    /\ Llamar("get", id)
    /\ IF Hay(id, dir)
       THEN IF Cabe(id, dir, n)
            THEN Recorrer("get", id, dir, n, <<>>, SinCelda, 0)
            ELSE Contestar("get", id, dir, n, 0, <<>>)
       ELSE Contestar("get", id, dir, n, -1, <<>>)
    /\ UNCHANGED <<fisica, tablas>>

\* The slot of the page is freed after the victim has taken another one.
SlotsTras_Retiene == [swaps EXCEPT ![escribirMMap] = Victima]
SlotsTras == [swaps EXCEPT ![escribirMMap] = Victima, ![leerMMap(Pag)] = 0]

\* The next page is in swap: a victim leaves its frame to it.  The frame keeps
\* its bits, and whether it counts as in use.
TraerPagina ==
    /\ Recorriendo /\ EnTabla /\ paginas[Pag].ubicacion = "SWAP" /\ SlotsLibres # {}
    /\ LET f == clockModificado
       IN  /\ paginas' = [Desalojadas EXCEPT ![Pag].ubicacion = "MP", ![Pag].nroframe = f]
           /\ frames' = [TrasClock EXCEPT ![f].pagina = Pag]
           /\ disco' = [disco EXCEPT ![escribirMMap] = ContenidoDe(Victima)]
           /\ swaps' = SlotsTras
           /\ memoria' = [memoria EXCEPT ![f] = disco[leerMMap(Pag)]]
    /\ moverPunteroEnClock
    /\ UNCHANGED <<tablas, tarea, respuesta, muertos, vivo, pedidos>>

\* The swap file is full: escribirMMap writes before its first slot.
SwapLleno ==
    /\ SlotsLibres = {}
    /\ \/ Creando /\ FramesLibres = {}
       \/ Recorriendo /\ EnTabla /\ paginas[Pag].ubicacion = "SWAP"
    /\ Caer
    /\ UNCHANGED pedidos

aCopiar == Menor(tarea.resta, paginas[Pag].desplazamiento - tarea.desp)

\* The walk goes on at the start of the next page.
Avanzar_SiCopio == IF aCopiar = 0 THEN tarea ELSE [tarea EXCEPT !.nro = @ + 1, !.desp = 0]
Avanzar_MismoDesp == [tarea EXCEPT !.nro = @ + 1]
Avanzar == [tarea EXCEPT !.nro = @ + 1, !.desp = 0]

\* What muse_sync leaves in the file: what muse_get read, then the rest of a
\* buffer that nobody wrote.
Volcado(path, datos, len) ==
    archivosMappeados' = [archivosMappeados EXCEPT ![path].map =
        [k \in DOMAIN @ |-> IF k > len THEN @[k]
                            ELSE IF k <= Len(datos) THEN datos[k] ELSE Basura]]

\* One page of the walk.
CopiarPagina ==
    /\ Recorriendo /\ EnTabla /\ paginas[Pag].ubicacion = "MP" /\ aCopiar >= 0
    /\ LET f == paginas[Pag].nroframe
           hecho == tarea.n - tarea.resta
           resta == tarea.resta - aCopiar
           leido == tarea.datos \o [k \in 1..aCopiar |-> memoria[f][tarea.desp + k - 1]]
           datos == IF tarea.op = "cpy" THEN tarea.datos ELSE leido
       IN  /\ memoria' = IF tarea.op # "cpy" THEN memoria
                         ELSE [memoria EXCEPT ![f] = [o \in Offsets |->
                                 IF o - tarea.desp \in 0..aCopiar - 1
                                 THEN tarea.datos[hecho + o - tarea.desp + 1] ELSE @[o]]]
           /\ IF resta > 0
              THEN /\ Empezar([Avanzar EXCEPT !.resta = resta, !.datos = datos])
                   /\ UNCHANGED archivosMappeados
              ELSE /\ Contestar(tarea.op, tarea.id, tarea.dir, tarea.n, 0, datos)
                   /\ IF tarea.op = "sync" THEN Volcado(tarea.path, datos, tarea.len)
                      ELSE UNCHANGED archivosMappeados
    /\ UNCHANGED <<paginas, frames, swaps, disco, punteroClock, procesos, pedidos>>

\* list_get past the last page is null, and a length below zero overruns: a
\* mapping longer than its file leads here.
FueraDeTabla ==
    /\ Recorriendo
    /\ ~(EnTabla /\ (paginas[Pag].ubicacion = "MP" => aCopiar >= 0))
    /\ Caer
    /\ UNCHANGED pedidos

(***************************************************************************)
(* Mapped files.                                                           *)
(***************************************************************************)
\* The file of a segment is the one with the same list of pages.
ArchivosDe(seg) == {p \in DOMAIN archivosMappeados :
                      archivosMappeados[p].paginas = seg.tablaPaginas}
ArchivoDe(seg) == CHOOSE p \in ArchivosDe(seg) : TRUE

muse_map(id, path, length, flag) ==
    /\ Llamar("map", id)
    /\ \/ /\ path \notin DOMAIN archivosMappeados
          /\ crearNuevoSegmento(id, length, "MAP", path, flag)
          /\ UNCHANGED tablas
       \/ /\ path \in DOMAIN archivosMappeados
          /\ archivosMappeados[path].compartido = "SHARED"
          /\ archivosMappeados' = [archivosMappeados EXCEPT ![path].instancias = @ + 1]
          /\ procesos' = ConSegs(id, Append(Segs(id), NuevoSegmento(id, length, "MAP",
                                        archivosMappeados[path].paginas, {})))
          /\ Contestar("map", id, segUltimaPosicion(Segs(id)), length,
                       segUltimaPosicion(Segs(id)), <<>>)
          /\ UNCHANGED fisica
       \/ /\ path \in DOMAIN archivosMappeados
          /\ archivosMappeados[path].compartido = "PRIVATE"
          /\ Contestar("map", id, 0, length, -1, <<>>)
          /\ UNCHANGED <<fisica, tablas>>

\* muse_sync reads from the fourth byte of the segment on, whatever dir is, and
\* does not look at what muse_get answers.
DESFASE == 4

muse_sync(id, dir, len) ==
    /\ Llamar("sync", id)
    /\ \/ /\ ~EnMapa(id, dir)
          /\ Contestar("sync", id, dir, len, -1, <<>>)
          /\ UNCHANGED <<fisica, tablas>>
       \/ /\ EnMapa(id, dir)
          /\ LET path == ArchivoDe(Buscado(id, dir))
                 desde == Buscado(id, dir).baseLogica + DESFASE
                 n == len - DESFASE
             IN  \/ \* the memory of the file was unmapped before
                    ~archivosMappeados[path].abierto /\ Caer
                 \/ /\ archivosMappeados[path].abierto
                    /\ n > 0 /\ Hay(id, desde) /\ Cabe(id, desde, n)
                    /\ Recorrer("sync", id, desde, n, <<>>, path, len)
                    /\ UNCHANGED <<fisica, tablas>>
                 \/ /\ archivosMappeados[path].abierto
                    /\ ~(n > 0 /\ Hay(id, desde) /\ Cabe(id, desde, n))
                    /\ Volcado(path, <<>>, len)
                    /\ Contestar("sync", id, dir, len, 0, <<>>)
                    /\ UNCHANGED <<fisica, procesos>>

muse_unmap(id, dir) ==
    /\ Llamar("unmap", id)
    /\ \/ /\ ~EnMapa(id, dir)
          /\ Contestar("unmap", id, dir, 0, -1, <<>>)
          /\ UNCHANGED tablas
       \/ /\ EnMapa(id, dir)
          /\ LET p == ArchivoDe(Buscado(id, dir))
             IN  archivosMappeados' = [archivosMappeados EXCEPT
                    ![p].instancias = @ - 1,
                    ![p].abierto = @ /\ archivosMappeados[p].instancias > 1]
          /\ procesos' = ConSegs(id, RemoveAt(Segs(id), obtenerSegmento(Segs(id), dir)))
          /\ Contestar("unmap", id, dir, 0, 0, <<>>)
    /\ UNCHANGED fisica

Pedir(id) ==
    \/ muse_init(id)
    \/ muse_close(id)
    \/ \E n \in Largos : \/ muse_alloc(id, n)
                         \/ \E path \in Archivos, flag \in {"PRIVATE", "SHARED"} :
                               muse_map(id, path, n, flag)
    \/ \E dir \in Direcciones :
          \/ muse_free(id, dir)
          \/ muse_unmap(id, dir)
          \/ \E texto \in Textos : muse_cpy(id, dir, texto)
          \/ \E n \in Largos : muse_get(id, dir, n) \/ muse_sync(id, dir, n)

Atender == CrearEnLibre \/ CrearDesalojando \/ TraerPagina \/ CopiarPagina
           \/ SwapLleno \/ FueraDeTabla

Next == Atender \/ \E id \in Ids : Pedir(id)

Spec == Init /\ [][Next]_vars
SpecJusta == Spec /\ WF_vars(Atender)

(***************************************************************************)
(* Properties.                                                             *)
(***************************************************************************)
Hechas == DOMAIN paginas

Bytes == {Cero, Basura} \cup UNION {ToSet(t) : t \in Textos}
Bloques == [Offsets -> Bytes]
Positivos == Nat \ {0}

Pagina == [nroframe : Frames, ubicacion : {"MP", "SWAP"}, desplazamiento : 1..PAGE_SIZE]
Frame == [pagina : {0} \cup Hechas, bitUso : BOOLEAN, bitMod : BOOLEAN, enUso : BOOLEAN]
Segmento == [baseLogica : Nat, tamano : Nat, tipo : {"HEAP", "MAP"},
             tablaPaginas : Seq(Hechas) \ {<<>>},
             metadatas : SUBSET [dir : Nat, tam : Nat]]
Archivo == [compartido : {"PRIVATE", "SHARED"}, instancias : Int,
            paginas : Seq(Hechas) \ {<<>>}, abierto : BOOLEAN, map : Seq(Bytes)]

TareaCrear == [op : {"crear"}, id : DOMAIN procesos, tam : Positivos, resta : Positivos,
               tipo : {"HEAP", "MAP"}, path : Archivos \cup {SinCelda},
               flag : {"PRIVATE", "SHARED", SinCelda}, pags : Seq(Hechas)]
TareaCrecer == [op : {"crecer"}, id : DOMAIN procesos, seg : Positivos, dir : Nat,
                tam : Positivos, resta : Positivos]
TareaRecorrer == [op : {"cpy", "get", "sync"}, id : DOMAIN procesos, seg : Positivos,
                  dir : Nat, n : Positivos, resta : Positivos, nro : Positivos,
                  desp : Offsets, datos : Seq(Bytes),
                  path : Archivos \cup {SinCelda}, len : Nat]

\* The segment that a request works on exists; a new mapping has a path and a flag;
\* what a muse_cpy still has to copy is in its buffer.
TareaOK ==
    /\ tarea \in TareaCrecer \cup TareaRecorrer => tarea.seg \in DOMAIN Segs(tarea.id)
    /\ tarea \in TareaCrecer => Segs(tarea.id)[tarea.seg].tipo = "HEAP"
    /\ tarea \in TareaCrear /\ tarea.tipo = "MAP" =>
          /\ tarea.path \in Archivos \ DOMAIN archivosMappeados
          /\ tarea.flag \in {"PRIVATE", "SHARED"}
    /\ tarea \in TareaRecorrer =>
          /\ tarea.resta <= tarea.n
          /\ tarea.op = "cpy" => tarea.n = Len(tarea.datos)
          /\ tarea.op = "sync" => tarea.path \in DOMAIN archivosMappeados

FisicaOK ==
    /\ paginas \in Seq(Pagina)
    /\ frames \in [Frames -> Frame]
    /\ memoria \in [Frames -> Bloques]
    /\ swaps \in [Slots -> {0} \cup Hechas]
    /\ disco \in [Slots -> Bloques]
    /\ punteroClock \in Frames

ProcesosOK == /\ DOMAIN procesos \subseteq Ids
              /\ procesos \in [DOMAIN procesos -> Seq(Segmento)]

ArchivosOK == /\ DOMAIN archivosMappeados \subseteq Archivos
              /\ archivosMappeados \in [DOMAIN archivosMappeados -> Archivo]

\* The type invariant.
TypeOK ==
    /\ FisicaOK /\ ProcesosOK /\ ArchivosOK
    /\ tarea \in {Nada} \cup TareaCrear \cup TareaCrecer \cup TareaRecorrer
    /\ TareaOK
    /\ vivo \in BOOLEAN /\ muertos \subseteq Ids /\ pedidos \in 0..MaxPedidos

\* Every page is in one place: the page that a frame names is in memory, in that
\* frame; a page in swap has exactly one slot, and a slot holds a page that is in
\* swap.  What a frame still names of a process that closed counts too: it is
\* evicted like any other (crearPagina, muse_copy, muse_get, escribirMMap,
\* leerMMap).
UnLugar ==
    /\ \A f \in Frames : frames[f].pagina # 0 =>
          /\ paginas[frames[f].pagina].ubicacion = "MP"
          /\ paginas[frames[f].pagina].nroframe = f
    /\ \A s \in Slots : swaps[s] # 0 => paginas[swaps[s]].ubicacion = "SWAP"
    /\ \A g \in Hechas : paginas[g].ubicacion = "SWAP" =>
          \E s \in Slots : \A t \in Slots : swaps[t] = g <=> t = s

\* A frame in use holds a page, and when some page is in swap all frames do: the
\* clock always finds a victim with a page (clockModificado).
MarcosUsados ==
    /\ \A f \in Frames : frames[f].enUso => frames[f].pagina # 0
    /\ (\E g \in Hechas : paginas[g].ubicacion = "SWAP") =>
          \A f \in Frames : frames[f].pagina # 0

\* muse_sync and muse_unmap find the file of every mapped segment.
MapaConArchivo ==
    \A id \in DOMAIN procesos : \A i \in DOMAIN Segs(id) :
        Segs(id)[i].tipo = "MAP" => ArchivosDe(Segs(id)[i]) # {}

\* The inductive invariant.
IInv == TypeOK /\ UnLugar /\ MarcosUsados /\ MapaConArchivo

\* muse_alloc "reserva una porcion de memoria" (libMUSE.h): two pages of open
\* processes that are in memory are in different frames (obtenerFrameLibre,
\* quitarUsuario and the swapping of muse_copy and muse_get).
PaginasDe(id) == UNION {ToSet(Segs(id)[i].tablaPaginas) : i \in DOMAIN Segs(id)}
EnMemoria == {g \in UNION {PaginasDe(id) : id \in DOMAIN procesos} :
                paginas[g].ubicacion = "MP"}
FramePropio == \A g, h \in EnMemoria :
                  g # h => paginas[g].nroframe # paginas[h].nroframe

\* Where the page table leads from an address of a process.
SegDe(id, dir) == SelectInSeq(Segs(id), LAMBDA seg :
                     Contiene(seg, dir) /\ dir < seg.baseLogica + seg.tamano
                     /\ (dir - seg.baseLogica) \div PAGE_SIZE < Len(seg.tablaPaginas))

Celda(id, dir) ==
    IF id \notin DOMAIN procesos THEN SinCelda
    ELSE IF SegDe(id, dir) = 0 THEN SinCelda
    ELSE LET seg == Segs(id)[SegDe(id, dir)]
             d == dir - seg.baseLogica
         IN  <<seg.tablaPaginas[d \div PAGE_SIZE + 1], d % PAGE_SIZE>>

\* What a cell holds: in its frame, or in its slot of the swap file.
Byte(c) == IF paginas[c[1]].ubicacion = "MP" THEN memoria[paginas[c[1]].nroframe][c[2]]
           ELSE disco[leerMMap(c[1])][c[2]]

\* The muse_cpy under way, and how many of its bytes are copied.
CopiaEnCurso ==
    IF tarea.op # "cpy" THEN Nada
    ELSE [id |-> tarea.id, dir |-> tarea.dir, datos |-> tarea.datos,
          hecho |-> tarea.n - tarea.resta]

\* Paging cannot be seen: whatever is created, evicted, brought back or mapped,
\* what a process can address keeps its cells, and a byte changes only when the
\* muse_cpy under way copies it to the address that its process sent.
Virtual == INSTANCE Memoria WITH
    Direcciones <- Observadas,
    SinCopia <- Nada,
    celdas <- [id \in Ids |-> [d \in Observadas |-> Celda(id, d)]],
    valor <- [c \in Hechas \X Offsets |-> Byte(c)],
    copia <- CopiaEnCurso
MemoriaImplementada == Virtual!Spec

\* What a muse_get that copied something answers is what the addresses hold, and
\* after a muse_cpy that answers 0 they hold what was copied, across pages and
\* whatever was swapped meanwhile.
LecturaFiel ==
    (respuesta # Nada /\ respuesta.op \in {"get", "cpy"} /\ respuesta.res = 0) =>
        \A k \in DOMAIN respuesta.datos :
           /\ Celda(respuesta.id, respuesta.dir + k - 1) # SinCelda
           /\ respuesta.datos[k] = Byte(Celda(respuesta.id, respuesta.dir + k - 1))

\* The pages of a segment cover its size: all but the last are full, and the last
\* reaches the end (agrandarSegmento fills the last one and then adds).  A second
\* mapping, which has no metadatas, takes any length over the pages of the first.
PaginasCubren ==
    \A id \in DOMAIN procesos : \A i \in DOMAIN Segs(id) :
        LET seg == Segs(id)[i]
            k == Len(seg.tablaPaginas)
        IN  \/ tarea # Nada /\ tarea.op = "crecer" /\ tarea.id = id /\ tarea.seg = i
            \/ seg.metadatas = {}
            \/ /\ \A j \in 1..k - 1 : paginas[seg.tablaPaginas[j]].desplazamiento = PAGE_SIZE
               /\ (k - 1) * PAGE_SIZE + paginas[seg.tablaPaginas[k]].desplazamiento >= seg.tamano

\* Every request that is taken ends: no walk over pages goes on for ever.
PedidoTermina == (tarea # Nada) ~> (tarea = Nada \/ ~vivo)

\* muse_map answers "la posicion de memoria de MUSE mappeada" (libMUSE.h): the
\* segment it made is the one that its address finds.
PosicionMapeada ==
    (respuesta # Nada /\ respuesta.op = "map" /\ respuesta.res # -1) =>
        Buscado(respuesta.id, respuesta.dir).tipo = "MAP"

=============================================================================
