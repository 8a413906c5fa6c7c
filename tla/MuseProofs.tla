----------------------------- MODULE MuseProofs -----------------------------
(***************************************************************************)
(* What is proved of Muse for any number of processes, any sizes of page,  *)
(* memory and swap file, and any requests: its inductive invariant (types, *)
(* one place for every page, frames that the clock can give, files behind  *)
(* the mapped segments), and that the pages of every segment cover it.     *)
(* While nobody closes, no frame is shared; and while nobody frees either, *)
(* muse_get and muse_cpy are faithful and the server implements Memoria.   *)
(***************************************************************************)
EXTENDS Muse, Minimos, SequenceTheorems

\* The element that Minimo chooses.
LEMMA MinimoEsta ==
  ASSUME NEW S \in SUBSET Nat, S # {}
  PROVE  Minimo(S) \in S
  BY HayMinimo DEF Minimo

(***************************************************************************)
(* Numbers of the configuration.                                           *)
(***************************************************************************)
LEMMA Tamanos ==
  /\ PAGE_SIZE \in Nat \ {0}
  /\ N \in Nat \ {0}
  /\ MaxPedidos \in Nat
  <1>1. PAGE_SIZE \in Nat \ {0} /\ MEMORY_SIZE \in Nat /\ MaxPedidos \in Nat
    BY MuseConstantes
  <1>2. MEMORY_SIZE >= PAGE_SIZE
    BY MuseConstantes
  <1>3. N \in Nat
    BY <1>1 DEF N
  <1>4. N # 0
    BY <1>1, <1>2 DEF N
  <1>5. QED
    BY <1>1, <1>3, <1>4

LEMMA DivMod ==
  ASSUME NEW d \in Nat
  PROVE  d \div PAGE_SIZE \in Nat /\ d % PAGE_SIZE \in Offsets
  BY Tamanos DEF Offsets

LEMMA MarcosSlots == Frames \subseteq Nat /\ Slots \subseteq Nat /\ 0 \in Frames
  BY Tamanos DEF Frames, Slots

(***************************************************************************)
(* The clock.                                                              *)
(***************************************************************************)
LEMMA PrimeroDelReloj ==
  ASSUME punteroClock \in Frames, NEW S \in SUBSET Frames, S # {}
  PROVE  Primero(S) \in S
  <1> DEFINE T == {Vuelta(f) : f \in S}
  <1>1. \A f \in Frames : Vuelta(f) \in Nat
    BY Tamanos DEF Vuelta, Frames
  <1>2. T \in SUBSET Nat /\ T # {}
    BY <1>1
  <1>3. PICK x \in T : \A y \in T : x <= y
    BY <1>2, HayMinimo
  <1>4. PICK f \in S : Vuelta(f) = x
    OBVIOUS
  <1>5. \A g \in S : Vuelta(f) <= Vuelta(g)
    BY <1>3, <1>4
  <1>6. QED
    BY <1>5 DEF Primero

LEMMA Reloj ==
  ASSUME punteroClock \in Frames
  PROVE  clockModificado \in Frames
  BY PrimeroDelReloj DEF clockModificado, SinUso, Limpios

LEMMA RelojSigue ==
  ASSUME punteroClock \in Frames, moverPunteroEnClock
  PROVE  punteroClock' \in Frames
  BY Reloj, Tamanos DEF moverPunteroEnClock, Frames

\* The frames after the passes of the clock: only use bits changed.
LEMMA TrasClockTipo ==
  ASSUME frames \in [Frames -> Frame]
  PROVE  /\ TrasClock \in [Frames -> Frame]
         /\ \A f \in Frames : /\ TrasClock[f].pagina = frames[f].pagina
                              /\ TrasClock[f].enUso = frames[f].enUso
  BY DEF TrasClock, Frame

(***************************************************************************)
(* Sequences of segments and of pages.                                     *)
(***************************************************************************)
LEMMA SeqPone ==
  ASSUME NEW S, NEW s \in Seq(S), NEW i \in DOMAIN s, NEW x \in S
  PROVE  [s EXCEPT ![i] = x] \in Seq(S)
  OBVIOUS

LEMMA SeqAgrega ==
  ASSUME NEW S, NEW s \in Seq(S), NEW x \in S
  PROVE  /\ Append(s, x) \in Seq(S) \ {<<>>}
         /\ Len(Append(s, x)) = Len(s) + 1
         /\ \A i \in DOMAIN s : i \in DOMAIN Append(s, x) /\ Append(s, x)[i] = s[i]
         /\ Append(s, x)[Len(s) + 1] = x
         /\ \A i \in DOMAIN Append(s, x) : i \in DOMAIN s \/ i = Len(s) + 1
  OBVIOUS

LEMMA SeqQuita ==
  ASSUME NEW S, NEW s \in Seq(S), NEW i \in DOMAIN s
  PROVE  /\ RemoveAt(s, i) \in Seq(S)
         /\ Len(RemoveAt(s, i)) = Len(s) - 1
         /\ DOMAIN RemoveAt(s, i) = 1..Len(s) - 1
         /\ \A j \in 1..Len(s) - 1 : RemoveAt(s, i)[j] = s[IF j < i THEN j ELSE j + 1]
         /\ \A j \in DOMAIN RemoveAt(s, i) : \E k \in DOMAIN s : RemoveAt(s, i)[j] = s[k]
  <1> DEFINE a == SubSeq(s, 1, i - 1)
             b == SubSeq(s, i + 1, Len(s))
  <1>0. Len(s) \in Nat /\ i \in 1..Len(s) /\ DOMAIN s = 1..Len(s)
    OBVIOUS
  <1>1. /\ a \in Seq(S) /\ Len(a) = i - 1
        /\ \A j \in 1..i - 1 : a[j] = s[j]
    <2>1. \A j \in 1..i - 1 : s[j] \in S
      BY <1>0
    <2>2. /\ a \in Seq(S)
          /\ Len(a) = IF 1 <= i - 1 THEN (i - 1) - 1 + 1 ELSE 0
          /\ \A j \in 1..(i - 1) - 1 + 1 : a[j] = s[1 + j - 1]
      BY <1>0, <2>1, SubSeqProperties
    <2> HIDE DEF a
    <2>3. QED
      BY <1>0, <2>2
  <1>2. /\ b \in Seq(S) /\ Len(b) = Len(s) - i
        /\ \A j \in 1..Len(s) - i : b[j] = s[i + j]
    <2>1. \A j \in i + 1..Len(s) : s[j] \in S
      BY <1>0
    <2>2. /\ b \in Seq(S)
          /\ Len(b) = IF i + 1 <= Len(s) THEN Len(s) - (i + 1) + 1 ELSE 0
          /\ \A j \in 1..Len(s) - (i + 1) + 1 : b[j] = s[i + 1 + j - 1]
      BY <1>0, <2>1, SubSeqProperties
    <2> HIDE DEF b
    <2>3. i \in Nat /\ i >= 1 /\ i <= Len(s)
      BY <1>0
    <2>4. Len(s) - (i + 1) + 1 = Len(s) - i /\ (i + 1 <= Len(s) \/ Len(s) - i = 0)
      BY <1>0, <2>3
    <2>5. Len(b) = Len(s) - i
      BY <2>2, <2>4, <2>3, <1>0
    <2>6. ASSUME NEW j \in 1..Len(s) - i
          PROVE  b[j] = s[i + j]
      <3>1. b[j] = s[i + 1 + j - 1]
        BY <2>2, <2>4
      <3>2. i + 1 + j - 1 = i + j
        BY <2>3
      <3>3. QED
        BY <3>1, <3>2
    <2>7. QED
      BY <2>2, <2>5, <2>6
  <1>3. RemoveAt(s, i) = a \o b
    BY DEF RemoveAt
  <1> HIDE DEF a, b
  <1>4. /\ a \o b \in Seq(S) /\ Len(a \o b) = Len(a) + Len(b)
        /\ \A j \in 1..Len(a) + Len(b) :
              (a \o b)[j] = IF j <= Len(a) THEN a[j] ELSE b[j - Len(a)]
    BY <1>1, <1>2, ConcatProperties
  <1>5. DOMAIN (a \o b) = 1..Len(s) - 1 /\ Len(a \o b) = Len(s) - 1
    <2>1. Len(a) + Len(b) = Len(s) - 1
      BY <1>0, <1>1, <1>2
    <2>2. DOMAIN (a \o b) = 1..Len(a \o b)
      BY <1>4, LenProperties
    <2>3. QED
      BY <2>1, <2>2, <1>4
  <1>6. ASSUME NEW j \in 1..Len(s) - 1
        PROVE  /\ (a \o b)[j] = s[IF j < i THEN j ELSE j + 1]
               /\ (IF j < i THEN j ELSE j + 1) \in DOMAIN s
    <2>0. i \in Nat /\ j \in Nat
      BY <1>0
    <2>1. CASE j < i
      <3>1. j \in 1..i - 1 /\ j <= Len(a) /\ j \in 1..Len(a) + Len(b) /\ j \in 1..Len(s)
        BY <2>0, <2>1, <1>0, <1>1, <1>2
      <3>2. (a \o b)[j] = s[j]
        BY <3>1, <1>1, <1>4
      <3>3. QED
        BY <2>1, <3>1, <3>2, <1>0
    <2>2. CASE ~(j < i)
      <3>1. (a \o b)[j] = b[j - (i - 1)] /\ j - (i - 1) \in 1..Len(s) - i
        BY <2>0, <2>2, <1>0, <1>1, <1>2, <1>4, SMTT(30)
      <3>2. b[j - (i - 1)] = s[i + (j - (i - 1))] /\ i + (j - (i - 1)) = j + 1
        BY <3>1, <1>2, <1>0, <2>0
      <3>3. j + 1 \in DOMAIN s
        BY <1>0, <2>0
      <3>4. QED
        BY <2>2, <3>1, <3>2, <3>3
    <2>3. QED
      BY <2>1, <2>2
  <1>7. \A j \in 1..Len(s) - 1 : \E k \in DOMAIN s : (a \o b)[j] = s[k]
    BY <1>6
  <1>8. QED
    BY <1>3, <1>4, <1>5, <1>6, <1>7

LEMMA UltimaEsta ==
  ASSUME NEW S, NEW s \in Seq(S), s # <<>>
  PROVE  Last(s) \in S /\ Len(s) \in DOMAIN s
  BY DEF Last

LEMMA OrdenTipo ==
  ASSUME NEW S, NEW s \in Seq(S), NEW t \in Ordenes(s)
  PROVE  /\ t \in Seq(S) /\ DOMAIN t = DOMAIN s
         /\ \A i \in DOMAIN t : \E j \in DOMAIN s : t[i] = s[j]
  <1>1. PICK p \in [DOMAIN s -> DOMAIN s] : t = [i \in DOMAIN s |-> s[p[i]]]
    BY DEF Ordenes
  <1>2. DOMAIN s = 1..Len(s) /\ Len(s) \in Nat
    OBVIOUS
  <1>3. \A i \in DOMAIN s : s[p[i]] \in S
    OBVIOUS
  <1>4. QED
    BY <1>1, <1>2, <1>3

\* The search for a segment finds one that contains the address.
LEMMA Hallado ==
  ASSUME NEW S, NEW s \in Seq(S), NEW dir, obtenerSegmento(s, dir) # 0
  PROVE  obtenerSegmento(s, dir) \in DOMAIN s /\ Contiene(s[obtenerSegmento(s, dir)], dir)
  <1> DEFINE I == {i \in 1..Len(s) : Contiene(s[i], dir)}
  <1>1. obtenerSegmento(s, dir) = IF I # {} THEN Min(I) ELSE 0
    BY DEF obtenerSegmento, SelectInSeq
  <1>2. I \in SUBSET Nat
    OBVIOUS
  <1>3. Min(I) \in I
    BY <1>1, <1>2, PrimeroEsta
  <1>4. QED
    BY <1>1, <1>3

\* The segment that may grow is of the type asked for.
LEMMA AgrandableEsta ==
  ASSUME NEW S, NEW s \in Seq(S), NEW tam, NEW tipo, segmentoAgrandar(s, tam, tipo) # 0
  PROVE  /\ segmentoAgrandar(s, tam, tipo) \in DOMAIN s
         /\ s[segmentoAgrandar(s, tam, tipo)].tipo = tipo
         /\ Agrandable(s, tam, tipo, segmentoAgrandar(s, tam, tipo))
  <1> DEFINE ii == [i \in DOMAIN s |-> i]
             I == {i \in 1..Len(ii) : Agrandable(s, tam, tipo, ii[i])}
  <1>1. segmentoAgrandar(s, tam, tipo) = IF I # {} THEN Min(I) ELSE 0
    BY DEF segmentoAgrandar, SelectInSeq
  <1>2. Len(ii) = Len(s) /\ DOMAIN s = 1..Len(s)
    OBVIOUS
  <1>3. I \in SUBSET Nat
    BY <1>2
  <1>4. Min(I) \in I
    BY <1>1, <1>3, PrimeroEsta
  <1>5. QED
    BY <1>1, <1>2, <1>4 DEF Agrandable

(***************************************************************************)
(* Types that grow with the pages.                                         *)
(***************************************************************************)
LEMMA Crece ==
  ASSUME Hechas \subseteq Hechas'
  PROVE  /\ Segmento \subseteq Segmento' /\ Archivo \subseteq Archivo'
         /\ Frame \subseteq Frame' /\ Seq(Hechas) \subseteq Seq(Hechas')
         /\ Seq(Segmento) \subseteq Seq(Segmento')
  <1>1. Seq(Hechas) \subseteq Seq(Hechas')
    BY SeqMonotonic
  <1>2. Segmento \subseteq Segmento'
    BY <1>1 DEF Segmento
  <1>3. Archivo \subseteq Archivo'
    BY <1>1 DEF Archivo, Bytes
  <1>4. Frame \subseteq Frame'
    BY DEF Frame
  <1>5. QED
    BY <1>1, <1>2, <1>3, <1>4, SeqMonotonic

LEMMA HechasNat ==
  ASSUME FisicaOK
  PROVE  /\ Hechas = 1..Len(paginas) /\ Len(paginas) \in Nat
         /\ \A g \in Hechas : paginas[g] \in Pagina
  BY DEF FisicaOK, Hechas

\* A process gets another list of segments.
LEMMA PonSegs ==
  ASSUME ProcesosOK, Hechas \subseteq Hechas',
         NEW id \in DOMAIN procesos, NEW segs \in Seq(Segmento'),
         procesos' = ConSegs(id, segs)
  PROVE  /\ ProcesosOK' /\ DOMAIN procesos' = DOMAIN procesos
         /\ procesos'[id] = segs
         /\ \A i \in DOMAIN procesos : i # id => procesos'[i] = procesos[i]
  <1>1. DOMAIN procesos' = DOMAIN procesos
    BY DEF ConSegs, ProcesosOK
  <1>2. /\ procesos'[id] = segs
        /\ \A i \in DOMAIN procesos : i # id => procesos'[i] = procesos[i]
    BY DEF ConSegs, ProcesosOK
  <1>3. \A i \in DOMAIN procesos : procesos[i] \in Seq(Segmento')
    BY Crece DEF ProcesosOK
  <1>4. procesos' \in [DOMAIN procesos' -> Seq(Segmento')]
    BY <1>1, <1>3 DEF ConSegs, ProcesosOK
  <1>5. QED
    BY <1>1, <1>2, <1>4 DEF ProcesosOK

LEMMA ProcesosQuietos ==
  ASSUME ProcesosOK, Hechas \subseteq Hechas', UNCHANGED procesos
  PROVE  ProcesosOK'
  <1>1. \A i \in DOMAIN procesos : procesos[i] \in Seq(Segmento')
    BY Crece DEF ProcesosOK
  <1>2. QED
    BY <1>1 DEF ProcesosOK

LEMMA ArchivosQuietos ==
  ASSUME ArchivosOK, Hechas \subseteq Hechas', UNCHANGED archivosMappeados
  PROVE  ArchivosOK'
  <1>1. \A p \in DOMAIN archivosMappeados : archivosMappeados[p] \in Archivo'
    BY Crece DEF ArchivosOK
  <1>2. QED
    BY <1>1 DEF ArchivosOK

LEMMA FisicaQuieta ==
  ASSUME FisicaOK, UNCHANGED fisica
  PROVE  FisicaOK' /\ Hechas' = Hechas
  BY DEF FisicaOK, fisica, Hechas, Frame, Bloques, Bytes

LEMMA LugarQuieto ==
  ASSUME UnLugar, MarcosUsados, UNCHANGED fisica
  PROVE  UnLugar' /\ MarcosUsados'
  BY DEF UnLugar, MarcosUsados, fisica, Hechas

(***************************************************************************)
(* The files behind the mapped segments.                                   *)
(***************************************************************************)
ArchivosSiguen ==
    \A p \in DOMAIN archivosMappeados :
        /\ p \in DOMAIN archivosMappeados'
        /\ archivosMappeados'[p].paginas = archivosMappeados[p].paginas

\* Every mapped segment after the step was one before it, or has a file.
LEMMA MapaSigue ==
  ASSUME MapaConArchivo, ArchivosSiguen,
         \A id \in DOMAIN procesos' : \A i \in DOMAIN procesos'[id] :
            procesos'[id][i].tipo = "MAP" =>
               \/ /\ id \in DOMAIN procesos
                  /\ \E j \in DOMAIN procesos[id] :
                        /\ procesos[id][j].tipo = "MAP"
                        /\ procesos[id][j].tablaPaginas = procesos'[id][i].tablaPaginas
               \/ \E p \in DOMAIN archivosMappeados' :
                        archivosMappeados'[p].paginas = procesos'[id][i].tablaPaginas
  PROVE  MapaConArchivo'
  <1> SUFFICES ASSUME NEW id \in DOMAIN procesos', NEW i \in DOMAIN procesos'[id],
                      procesos'[id][i].tipo = "MAP"
               PROVE  \E p \in DOMAIN archivosMappeados' :
                         archivosMappeados'[p].paginas = procesos'[id][i].tablaPaginas
    BY DEF MapaConArchivo, ArchivosDe, Segs
  <1>1. CASE /\ id \in DOMAIN procesos
             /\ \E j \in DOMAIN procesos[id] :
                   /\ procesos[id][j].tipo = "MAP"
                   /\ procesos[id][j].tablaPaginas = procesos'[id][i].tablaPaginas
    <2>1. PICK j \in DOMAIN procesos[id] :
                   /\ procesos[id][j].tipo = "MAP"
                   /\ procesos[id][j].tablaPaginas = procesos'[id][i].tablaPaginas
      BY <1>1
    <2>2. PICK p \in DOMAIN archivosMappeados :
                 archivosMappeados[p].paginas = procesos[id][j].tablaPaginas
      BY <1>1, <2>1 DEF MapaConArchivo, ArchivosDe, Segs
    <2>3. QED
      BY <2>1, <2>2 DEF ArchivosSiguen
  <1>2. QED
    BY <1>1

LEMMA MapaQuieto ==
  ASSUME MapaConArchivo, ArchivosSiguen, UNCHANGED procesos
  PROVE  MapaConArchivo'
  BY MapaSigue

(***************************************************************************)
(* The request being attended and the rest of the control.                 *)
(***************************************************************************)
TareaTipo == /\ tarea \in {Nada} \cup TareaCrear \cup TareaCrecer \cup TareaRecorrer
             /\ TareaOK
ControlOK == vivo \in BOOLEAN /\ muertos \subseteq Ids /\ pedidos \in 0..MaxPedidos

LEMMA Partes ==
  IInv <=> /\ FisicaOK /\ ProcesosOK /\ ArchivosOK /\ TareaTipo /\ ControlOK
           /\ UnLugar /\ MarcosUsados /\ MapaConArchivo
  BY DEF IInv, TypeOK, TareaTipo, ControlOK

LEMMA Junta ==
  ASSUME FisicaOK', ProcesosOK', ArchivosOK', TareaTipo', ControlOK',
         UnLugar', MarcosUsados', MapaConArchivo'
  PROVE  IInv'
  BY DEF IInv, TypeOK, TareaTipo, ControlOK

LEMMA SinTarea ==
  ASSUME tarea' = Nada
  PROVE  TareaTipo'
  <1>1. Nada \notin TareaCrear \cup TareaCrecer \cup TareaRecorrer
    BY DEF Nada, TareaCrear, TareaCrecer, TareaRecorrer
  <1>2. tarea' \notin TareaCrear' \cup TareaCrecer' \cup TareaRecorrer'
    BY DEF Nada, TareaCrear, TareaCrecer, TareaRecorrer
  <1>3. QED
    BY <1>2 DEF TareaTipo, TareaOK

LEMMA Contesta ==
  ASSUME ControlOK, NEW op, NEW id \in Ids, NEW dir, NEW n, NEW res, NEW datos,
         Contestar(op, id, dir, n, res, datos)
  PROVE  TareaTipo' /\ vivo' \in BOOLEAN /\ muertos' \subseteq Ids
  BY SinTarea DEF Contestar, ControlOK

LEMMA Empieza ==
  ASSUME ControlOK, NEW t, Empezar(t)
  PROVE  vivo' \in BOOLEAN /\ muertos' \subseteq Ids /\ tarea' = t
  BY DEF Empezar, ControlOK

LEMMA Recibe ==
  ASSUME ControlOK, NEW op, Recibir(op)
  PROVE  pedidos' \in 0..MaxPedidos /\ vivo /\ tarea = Nada
  BY Tamanos DEF Recibir, ControlOK

\* Nothing but the control changes.
LEMMA DatosQuietos ==
  ASSUME IInv, UNCHANGED <<fisica, tablas>>
  PROVE  /\ FisicaOK' /\ ProcesosOK' /\ ArchivosOK'
         /\ UnLugar' /\ MarcosUsados' /\ MapaConArchivo'
         /\ Hechas' = Hechas /\ procesos' = procesos
         /\ archivosMappeados' = archivosMappeados
  <1>1. procesos' = procesos /\ archivosMappeados' = archivosMappeados /\ UNCHANGED fisica
    BY DEF tablas
  <1>2. FisicaOK' /\ Hechas' = Hechas
    BY <1>1, Partes, FisicaQuieta
  <1>3. ProcesosOK' /\ ArchivosOK'
    BY <1>1, <1>2, Partes, ProcesosQuietos, ArchivosQuietos
  <1>4. UnLugar' /\ MarcosUsados'
    BY <1>1, Partes, LugarQuieto
  <1>5. MapaConArchivo'
    BY <1>1, Partes, MapaQuieto DEF ArchivosSiguen
  <1>6. QED
    BY <1>1, <1>2, <1>3, <1>4, <1>5

LEMMA Cae ==
  ASSUME IInv, Caer, pedidos' \in 0..MaxPedidos
  PROVE  IInv'
  <1>1. UNCHANGED <<fisica, tablas>> /\ UNCHANGED <<tarea, muertos>> /\ vivo' = FALSE
    BY DEF Caer
  <1>2. /\ FisicaOK' /\ ProcesosOK' /\ ArchivosOK'
        /\ UnLugar' /\ MarcosUsados' /\ MapaConArchivo'
        /\ Hechas' = Hechas /\ procesos' = procesos
        /\ archivosMappeados' = archivosMappeados
    BY <1>1, DatosQuietos
  <1>3. TareaCrear' = TareaCrear /\ TareaCrecer' = TareaCrecer /\ TareaRecorrer' = TareaRecorrer
    BY <1>2 DEF TareaCrear, TareaCrecer, TareaRecorrer, Bytes
  <1>4. TareaOK' <=> TareaOK
    BY <1>1, <1>2, <1>3 DEF TareaOK, Segs
  <1>5. TareaTipo'
    BY <1>1, <1>3, <1>4, Partes DEF TareaTipo
  <1>6. ControlOK'
    BY <1>1, Partes DEF ControlOK
  <1>7. QED
    BY <1>2, <1>5, <1>6, Junta

(***************************************************************************)
(* The requests.                                                           *)
(***************************************************************************)
LEMMA Inicial == Init => IInv
  <1> SUFFICES ASSUME Init PROVE IInv
    OBVIOUS
  <1> USE DEF Init
  <1>1. Hechas = {}
    BY DEF Hechas
  <1>2. FisicaOK
    <2>1. paginas \in Seq(Pagina)
      OBVIOUS
    <2>2. frames \in [Frames -> Frame]
      BY DEF Frame
    <2>3. memoria \in [Frames -> Bloques] /\ disco \in [Slots -> Bloques]
      BY DEF Bloques, Bytes
    <2>4. swaps \in [Slots -> {0} \cup Hechas] /\ punteroClock \in Frames
      BY MarcosSlots
    <2>5. QED
      BY <2>1, <2>2, <2>3, <2>4 DEF FisicaOK
  <1>3. DOMAIN procesos = {} /\ DOMAIN archivosMappeados = {}
    OBVIOUS
  <1>4. ProcesosOK /\ ArchivosOK
    BY <1>3 DEF ProcesosOK, ArchivosOK
  <1>5. TareaTipo
    <2>1. Nada \notin TareaCrear \cup TareaCrecer \cup TareaRecorrer
      BY DEF Nada, TareaCrear, TareaCrecer, TareaRecorrer
    <2>2. QED
      BY <2>1 DEF TareaTipo, TareaOK
  <1>6. ControlOK
    BY Tamanos DEF ControlOK
  <1>7. UnLugar /\ MarcosUsados
    BY <1>1 DEF UnLugar, MarcosUsados
  <1>8. MapaConArchivo
    BY <1>3 DEF MapaConArchivo
  <1>9. QED
    BY <1>2, <1>4, <1>5, <1>6, <1>7, <1>8, Partes

LEMMA Inicio ==
  ASSUME IInv, NEW id \in Ids, muse_init(id)
  PROVE  IInv'
  <1>1. /\ UNCHANGED fisica /\ archivosMappeados' = archivosMappeados
        /\ procesos' = [i \in DOMAIN procesos \cup {id} |->
                          IF i = id THEN <<>> ELSE procesos[i]]
    BY DEF muse_init
  <1>2. FisicaOK' /\ Hechas' = Hechas /\ UnLugar' /\ MarcosUsados'
    BY <1>1, Partes, FisicaQuieta, LugarQuieto
  <1>3. ArchivosOK'
    BY <1>1, <1>2, Partes, ArchivosQuietos
  <1>4. ProcesosOK'
    <2>1. \A i \in DOMAIN procesos : procesos[i] \in Seq(Segmento')
      BY <1>2, Crece, Partes DEF ProcesosOK
    <2>2. <<>> \in Seq(Segmento')
      OBVIOUS
    <2>3. DOMAIN procesos' = DOMAIN procesos \cup {id} /\ DOMAIN procesos \subseteq Ids
      BY <1>1, Partes DEF ProcesosOK
    <2>4. QED
      BY <1>1, <2>1, <2>2, <2>3 DEF ProcesosOK
  <1>5. MapaConArchivo'
    <2>1. ASSUME NEW j \in DOMAIN procesos', NEW i \in DOMAIN procesos'[j]
          PROVE  j \in DOMAIN procesos /\ procesos'[j] = procesos[j]
      BY <1>1
    <2>2. ArchivosSiguen
      BY <1>1 DEF ArchivosSiguen
    <2>3. QED
      BY <2>1, <2>2, Partes, MapaSigue
  <1>6. TareaTipo' /\ ControlOK'
    BY Partes, Contesta, Recibe DEF muse_init, ControlOK
  <1>7. QED
    BY <1>2, <1>3, <1>4, <1>5, <1>6, Junta

LEMMA Cierre ==
  ASSUME IInv, NEW id \in Ids, muse_close(id)
  PROVE  IInv'
  <1>1. /\ UNCHANGED <<paginas, memoria, swaps, disco, punteroClock, archivosMappeados>>
        /\ frames' = [f \in Frames |-> IF f \in FramesDe(Segs(id))
                                   THEN [frames[f] EXCEPT !.enUso = FALSE] ELSE frames[f]]
        /\ procesos' = [i \in DOMAIN procesos \ {id} |-> procesos[i]]
        /\ tarea' = Nada
    BY DEF muse_close, Restrict, Empezar
  <1>2. FisicaOK /\ ProcesosOK /\ UnLugar /\ MarcosUsados /\ ControlOK
    BY Partes
  <1>3. Hechas' = Hechas
    BY <1>1 DEF Hechas
  <1>4. \A f \in Frames : /\ frames'[f] \in Frame
                          /\ frames'[f].pagina = frames[f].pagina
                          /\ frames'[f].enUso => frames[f].enUso
    BY <1>1, <1>2 DEF FisicaOK, Frame
  <1>5. FisicaOK'
    <2>0. frames' \in [Frames -> Frame]
      BY <1>1, <1>4
    <2>1. Frame' = Frame
      BY <1>3 DEF Frame
    <2>2. QED
      BY <1>1, <1>2, <1>3, <2>0, <2>1 DEF FisicaOK, Bloques, Bytes
  <1>6. UnLugar' /\ MarcosUsados'
    BY <1>1, <1>2, <1>3, <1>4 DEF UnLugar, MarcosUsados
  <1>7. ArchivosOK'
    BY <1>1, <1>3, Partes, ArchivosQuietos
  <1>8. ProcesosOK'
    <2>1. \A i \in DOMAIN procesos : procesos[i] \in Seq(Segmento')
      BY <1>3, Crece, Partes DEF ProcesosOK
    <2>2. DOMAIN procesos' = DOMAIN procesos \ {id} /\ DOMAIN procesos \subseteq Ids
      BY <1>1, Partes DEF ProcesosOK
    <2>3. QED
      BY <1>1, <2>1, <2>2 DEF ProcesosOK
  <1>9. MapaConArchivo'
    <2>1. ASSUME NEW j \in DOMAIN procesos'
          PROVE  j \in DOMAIN procesos /\ procesos'[j] = procesos[j]
      BY <1>1
    <2>2. ArchivosSiguen
      BY <1>1 DEF ArchivosSiguen
    <2>3. QED
      BY <2>1, <2>2, Partes, MapaSigue
  <1>10. TareaTipo' /\ ControlOK'
    BY <1>1, <1>2, SinTarea, Recibe, Empieza DEF muse_close, Llamar, ControlOK
  <1>11. QED
    BY <1>5, <1>6, <1>7, <1>8, <1>9, <1>10, Junta

\* A walk over the pages of a segment begins.
LEMMA Recorre ==
  ASSUME IInv, NEW op \in {"cpy", "get", "sync"}, NEW id \in DOMAIN procesos,
         NEW dir \in Nat, Hay(id, dir), NEW n \in Positivos, NEW datos \in Seq(Bytes),
         NEW path \in Archivos \cup {SinCelda}, NEW len \in Nat,
         op = "cpy" => n = Len(datos), op = "sync" => path \in DOMAIN archivosMappeados,
         Recorrer(op, id, dir, n, datos, path, len),
         UNCHANGED <<fisica, tablas>>
  PROVE  TareaTipo' /\ vivo' \in BOOLEAN /\ muertos' \subseteq Ids
  <1> DEFINE i == obtenerSegmento(Segs(id), dir)
             d == dir - Buscado(id, dir).baseLogica
             t == [op |-> op, id |-> id, seg |-> i, dir |-> dir, n |-> n, resta |-> n,
                   nro |-> d \div PAGE_SIZE + 1, desp |-> d % PAGE_SIZE,
                   datos |-> datos, path |-> path, len |-> len]
  <1>1. Segs(id) \in Seq(Segmento)
    BY Partes DEF ProcesosOK, Segs
  <1>2. i \in DOMAIN Segs(id) /\ Contiene(Segs(id)[i], dir)
    BY <1>1, Hallado DEF Hay
  <1>3. Segs(id)[i] \in Segmento /\ i \in Positivos
    BY <1>1, <1>2 DEF Positivos
  <1>4. d \in Nat
    BY <1>2, <1>3 DEF Contiene, Segmento, Buscado
  <1>5. d \div PAGE_SIZE + 1 \in Positivos /\ d % PAGE_SIZE \in Offsets
    <2> HIDE DEF d
    <2>1. d \div PAGE_SIZE \in Nat /\ d % PAGE_SIZE \in Offsets
      BY <1>4, DivMod
    <2> DEFINE c == d \div PAGE_SIZE
    <2> HIDE DEF c
    <2>2. c \in Nat => c + 1 \in Positivos
      BY DEF Positivos
    <2>3. QED
      BY <2>1, <2>2 DEF c
  <1>6. tarea' = t /\ vivo' \in BOOLEAN /\ muertos' \subseteq Ids
    BY Empieza, Partes DEF Recorrer
  <1>7. t \in TareaRecorrer
    <2> HIDE DEF i, d
    <2>1. QED
      BY <1>3, <1>5 DEF TareaRecorrer
  <1>8. /\ TareaCrear' = TareaCrear /\ TareaCrecer' = TareaCrecer
        /\ TareaRecorrer' = TareaRecorrer
        /\ procesos' = procesos /\ archivosMappeados' = archivosMappeados
    BY DatosQuietos DEF TareaCrear, TareaCrecer, TareaRecorrer, Bytes
  <1>9. /\ t.op = op /\ t.seg = i /\ t.id = id /\ t.resta = t.n /\ t.n = n
        /\ t.datos = datos /\ t.path = path /\ n <= n
    BY DEF Positivos
  <1> HIDE DEF t, i
  <1>10. t \notin TareaCrear \cup TareaCrecer
    BY <1>9 DEF TareaCrear, TareaCrecer
  <1>11. TareaOK'
    BY <1>2, <1>6, <1>7, <1>8, <1>9, <1>10 DEF TareaOK, Segs
  <1>12. QED
    BY <1>6, <1>7, <1>8, <1>11 DEF TareaTipo

LEMMA TextoTipo ==
  ASSUME NEW t \in Textos
  PROVE  t \in Seq(Bytes) /\ Len(t) \in Positivos
  <1>1. t \in Seq(ToSet(t)) /\ t # <<>>
    BY MuseConstantes
  <1>2. ToSet(t) \subseteq Bytes
    BY DEF Bytes
  <1>3. t \in Seq(Bytes)
    BY <1>1, <1>2, SeqMonotonic
  <1>4. QED
    BY <1>1, <1>3, EmptySeq DEF Positivos

LEMMA Copia ==
  ASSUME IInv, NEW id \in Ids, NEW dir \in Nat, NEW t \in Textos, muse_cpy(id, dir, t)
  PROVE  IInv'
  <1>1. /\ UNCHANGED <<fisica, tablas>> /\ ControlOK
        /\ id \in DOMAIN procesos /\ pedidos' \in 0..MaxPedidos
    BY Partes, Recibe DEF muse_cpy, Llamar
  <1>2. CASE Hay(id, dir) /\ Cabe(id, dir, Len(t))
    <2>1. Recorrer("cpy", id, dir, Len(t), t, SinCelda, 0)
      BY <1>2 DEF muse_cpy
    <2>2. TareaTipo' /\ vivo' \in BOOLEAN /\ muertos' \subseteq Ids
      BY <1>1, <1>2, <2>1, TextoTipo, Recorre
    <2>3. QED
      BY <1>1, <2>2, DatosQuietos, Junta DEF ControlOK
  <1>3. CASE ~(Hay(id, dir) /\ Cabe(id, dir, Len(t)))
    <2>1. Contestar("cpy", id, dir, Len(t), -1, t)
      BY <1>3 DEF muse_cpy
    <2>2. QED
      BY <1>1, <2>1, Contesta, DatosQuietos, Junta DEF ControlOK
  <1>4. QED
    BY <1>2, <1>3

LEMMA Lectura ==
  ASSUME IInv, NEW id \in Ids, NEW dir \in Nat, NEW n \in Positivos, muse_get(id, dir, n)
  PROVE  IInv'
  <1>1. /\ UNCHANGED <<fisica, tablas>> /\ ControlOK
        /\ id \in DOMAIN procesos /\ pedidos' \in 0..MaxPedidos
    BY Partes, Recibe DEF muse_get, Llamar
  <1>2. CASE Hay(id, dir) /\ Cabe(id, dir, n)
    <2>1. Recorrer("get", id, dir, n, <<>>, SinCelda, 0)
      BY <1>2 DEF muse_get
    <2>2. <<>> \in Seq(Bytes)
      OBVIOUS
    <2>3. TareaTipo' /\ vivo' \in BOOLEAN /\ muertos' \subseteq Ids
      BY <1>1, <1>2, <2>1, <2>2, Recorre
    <2>4. QED
      BY <1>1, <2>3, DatosQuietos, Junta DEF ControlOK
  <1>3. CASE ~(Hay(id, dir) /\ Cabe(id, dir, n))
    <2>1. \E res : Contestar("get", id, dir, n, res, <<>>)
      BY <1>3 DEF muse_get
    <2>2. QED
      BY <1>1, <2>1, Contesta, DatosQuietos, Junta DEF ControlOK
  <1>4. QED
    BY <1>2, <1>3

LEMMA UltimaPosicionTipo ==
  ASSUME NEW s \in Seq(Segmento)
  PROVE  segUltimaPosicion(s) \in Nat
  <1>1. CASE s = <<>>
    BY <1>1 DEF segUltimaPosicion
  <1>2. CASE s # <<>>
    <2>1. Last(s) \in Segmento
      BY <1>2, UltimaEsta
    <2>2. Last(s).baseLogica \in Nat /\ Last(s).tamano \in Nat
      BY <2>1 DEF Segmento
    <2>3. QED
      BY <1>2, <2>2 DEF segUltimaPosicion
  <1>3. QED
    BY <1>1, <1>2

\* A segment made at the end of the list of its process.
LEMMA NuevoTipo ==
  ASSUME ProcesosOK, Hechas \subseteq Hechas', NEW id \in DOMAIN procesos,
         NEW tam \in Positivos, NEW tipo \in {"HEAP", "MAP"},
         NEW pags \in Seq(Hechas') \ {<<>>},
         NEW ms \in SUBSET [dir : Nat, tam : Nat]
  PROVE  /\ NuevoSegmento(id, tam, tipo, pags, ms) \in Segmento'
         /\ NuevoSegmento(id, tam, tipo, pags, ms).tipo = tipo
         /\ NuevoSegmento(id, tam, tipo, pags, ms).tablaPaginas = pags
         /\ segUltimaPosicion(Segs(id)) \in Nat
  <1>1. segUltimaPosicion(Segs(id)) \in Nat
    BY UltimaPosicionTipo DEF ProcesosOK, Segs
  <1>2. tam \in Nat
    BY DEF Positivos
  <1>3. QED
    BY <1>1, <1>2 DEF NuevoSegmento, Segmento

\* The loop that makes the pages of a new segment begins.
LEMMA CreaTarea ==
  ASSUME IInv, NEW id \in DOMAIN procesos, NEW tam \in Positivos,
         NEW tipo \in {"HEAP", "MAP"}, NEW path \in Archivos \cup {SinCelda},
         NEW flag \in {"PRIVATE", "SHARED", SinCelda},
         tipo = "MAP" => /\ path \in Archivos \ DOMAIN archivosMappeados
                         /\ flag \in {"PRIVATE", "SHARED"},
         crearNuevoSegmento(id, tam, tipo, path, flag), UNCHANGED tablas
  PROVE  TareaTipo' /\ vivo' \in BOOLEAN /\ muertos' \subseteq Ids /\ UNCHANGED fisica
  <1> DEFINE t == [op |-> "crear", id |-> id, tam |-> tam, resta |-> tam, tipo |-> tipo,
                   path |-> path, flag |-> flag, pags |-> <<>>]
  <1>1. /\ tarea' = t /\ UNCHANGED <<fisica, tablas>> /\ UNCHANGED fisica
        /\ vivo' \in BOOLEAN /\ muertos' \subseteq Ids
    BY Empieza, Partes DEF crearNuevoSegmento
  <1>2. Hechas' = Hechas /\ procesos' = procesos /\ archivosMappeados' = archivosMappeados
    BY <1>1, DatosQuietos
  <1>3. t \in TareaCrear'
    BY <1>2 DEF TareaCrear
  <1>4. t \notin TareaCrecer' \cup TareaRecorrer'
    BY DEF TareaCrecer, TareaRecorrer
  <1>5. t.tipo = tipo /\ t.path = path /\ t.flag = flag
    OBVIOUS
  <1> HIDE DEF t
  <1>6. TareaOK'
    BY <1>1, <1>2, <1>4, <1>5 DEF TareaOK
  <1>7. QED
    BY <1>1, <1>3, <1>6 DEF TareaTipo

\* A page is filled: where it is does not change.
LEMMA LlenaPagina ==
  ASSUME FisicaOK, UnLugar, MarcosUsados, NEW g \in Hechas,
         paginas' = [paginas EXCEPT ![g].desplazamiento = PAGE_SIZE],
         UNCHANGED <<frames, memoria, swaps, disco, punteroClock>>
  PROVE  FisicaOK' /\ UnLugar' /\ MarcosUsados' /\ Hechas' = Hechas
  <1>1. Hechas' = Hechas
    BY DEF Hechas
  <1>2. PAGE_SIZE \in 1..PAGE_SIZE
    BY Tamanos
  <1>3. [paginas[g] EXCEPT !.desplazamiento = PAGE_SIZE] \in Pagina
    BY <1>2, HechasNat DEF Pagina
  <1>4. paginas' \in Seq(Pagina)
    BY <1>3, SeqPone DEF FisicaOK, Hechas
  <1>5. \A h \in Hechas : /\ paginas'[h].ubicacion = paginas[h].ubicacion
                           /\ paginas'[h].nroframe = paginas[h].nroframe
    BY HechasNat DEF Hechas, Pagina
  <1>6. \A f \in Frames : frames[f].pagina \in {0} \cup Hechas
    BY DEF FisicaOK, Frame
  <1>7. \A s \in Slots : swaps[s] \in {0} \cup Hechas
    BY DEF FisicaOK
  <1>8. UnLugar' /\ MarcosUsados'
    BY <1>1, <1>5, <1>6, <1>7 DEF UnLugar, MarcosUsados
  <1>9. FisicaOK'
    BY <1>1, <1>4 DEF FisicaOK, Frame, Bloques, Bytes
  <1>10. QED
    BY <1>1, <1>8, <1>9

\* A segment of the heap grows by tam bytes.
LEMMA Agranda ==
  ASSUME IInv, NEW id \in DOMAIN procesos, NEW segs \in Ordenes(Segs(id)),
         NEW i \in DOMAIN segs, segs[i].tipo = "HEAP", NEW tam \in Positivos,
         agrandarSegmento(id, segs, i, tam), pedidos' \in 0..MaxPedidos
  PROVE  IInv'
  <1> DEFINE seg == segs[i]
             dir == seg.baseLogica + seg.tamano
             resta == IF Hueco(seg) > tam THEN 0 ELSE tam - Hueco(seg)
             m == [dir |-> dir, tam |-> tam]
             nuevo == [seg EXCEPT !.tamano = @ + tam, !.metadatas = @ \cup {m}]
             nuevos == [segs EXCEPT ![i] = nuevo]
             t == [op |-> "crecer", id |-> id, seg |-> i, dir |-> dir,
                   tam |-> tam, resta |-> resta]
  <1>1. /\ FisicaOK /\ ProcesosOK /\ UnLugar /\ MarcosUsados /\ ControlOK
        /\ ArchivosOK /\ MapaConArchivo /\ tam \in Nat
    BY Partes DEF Positivos
  <1>2. /\ segs \in Seq(Segmento)
        /\ \A j \in DOMAIN segs : \E k \in DOMAIN Segs(id) : segs[j] = Segs(id)[k]
    BY <1>1, OrdenTipo DEF ProcesosOK, Segs
  <1>3. seg \in Segmento
    BY <1>2
  <1>4. seg.baseLogica \in Nat /\ seg.tamano \in Nat /\ dir \in Nat
    BY <1>3 DEF Segmento
  <1>5. Last(seg.tablaPaginas) \in Hechas
    BY <1>3, UltimaEsta DEF Segmento
  <1>6. Hueco(seg) \in Nat
    <2>1. paginas[Last(seg.tablaPaginas)] \in Pagina
      BY <1>1, <1>5, HechasNat
    <2>2. QED
      BY <2>1, Tamanos DEF Hueco, Pagina
  <1>7. resta \in Nat
    BY <1>1, <1>6
  <1>8. /\ nuevo \in Segmento /\ nuevo.tipo = seg.tipo
        /\ nuevo.tablaPaginas = seg.tablaPaginas
    <2> HIDE DEF dir, resta, seg
    <2>1. m \in [dir : Nat, tam : Nat]
      BY <1>1, <1>4
    <2> HIDE DEF m
    <2>2. seg.metadatas \cup {m} \in SUBSET [dir : Nat, tam : Nat]
      BY <1>3, <2>1 DEF Segmento
    <2>3. seg.tamano + tam \in Nat
      BY <1>1, <1>4
    <2>4. QED
      BY <1>3, <2>2, <2>3 DEF Segmento
  <1>9. /\ procesos' = ConSegs(id, nuevos)
        /\ paginas' = [paginas EXCEPT ![Last(seg.tablaPaginas)].desplazamiento = PAGE_SIZE]
        /\ UNCHANGED <<frames, memoria, swaps, disco, punteroClock, archivosMappeados>>
        /\ \/ resta = 0 /\ Contestar("alloc", id, dir, tam, dir, <<>>)
           \/ resta # 0 /\ Empezar(t)
    BY <1>1 DEF agrandarSegmento
  <1> HIDE DEF resta, nuevo, dir
  <1>10. FisicaOK' /\ UnLugar' /\ MarcosUsados' /\ Hechas' = Hechas
    BY <1>1, <1>5, <1>9, LlenaPagina
  <1>11. /\ nuevos \in Seq(Segmento') /\ DOMAIN nuevos = DOMAIN segs
         /\ nuevos[i] = nuevo
         /\ \A j \in DOMAIN segs : j # i => nuevos[j] = segs[j]
    <2>1. Segmento' = Segmento
      BY <1>10 DEF Segmento
    <2>2. QED
      BY <1>2, <1>8, <2>1, SeqPone
  <1> HIDE DEF nuevos
  <1>12. /\ ProcesosOK' /\ DOMAIN procesos' = DOMAIN procesos
         /\ procesos'[id] = nuevos
         /\ \A k \in DOMAIN procesos : k # id => procesos'[k] = procesos[k]
    BY <1>1, <1>9, <1>10, <1>11, PonSegs
  <1>13. ArchivosOK'
    BY <1>1, <1>9, <1>10, ArchivosQuietos
  <1>14. MapaConArchivo'
    <2>1. \A j \in DOMAIN nuevos : \E k \in DOMAIN Segs(id) :
             /\ nuevos[j].tipo = Segs(id)[k].tipo
             /\ nuevos[j].tablaPaginas = Segs(id)[k].tablaPaginas
      BY <1>2, <1>8, <1>11
    <2>2. ArchivosSiguen
      BY <1>9 DEF ArchivosSiguen
    <2>3. QED
      BY <1>1, <1>12, <2>1, <2>2, MapaSigue DEF Segs
  <1>15. TareaTipo' /\ vivo' \in BOOLEAN /\ muertos' \subseteq Ids
    <2>1. CASE resta = 0 /\ Contestar("alloc", id, dir, tam, dir, <<>>)
      BY <1>1, <2>1, Contesta DEF ProcesosOK
    <2>2. CASE resta # 0 /\ Empezar(t)
      <3>1. tarea' = t /\ vivo' \in BOOLEAN /\ muertos' \subseteq Ids
        BY <1>1, <2>2, Empieza
      <3>2. i \in Positivos /\ resta \in Positivos
        BY <1>2, <1>7, <2>2 DEF Positivos
      <3>3. t \in TareaCrecer'
        BY <1>4, <1>12, <3>2 DEF TareaCrecer
      <3>4. t \notin TareaCrear' \cup TareaRecorrer'
        BY DEF TareaCrear, TareaRecorrer
      <3>5. t.seg = i /\ t.id = id
        OBVIOUS
      <3> HIDE DEF t
      <3>6. TareaOK'
        BY <1>8, <1>11, <1>12, <3>1, <3>4, <3>5 DEF TareaOK, Segs
      <3>7. QED
        BY <3>1, <3>3, <3>6 DEF TareaTipo
    <2>3. QED
      BY <1>9, <2>1, <2>2
  <1>16. QED
    BY <1>10, <1>12, <1>13, <1>14, <1>15, Junta DEF ControlOK

LEMMA Reserva ==
  ASSUME IInv, NEW id \in Ids, NEW tam \in Positivos, muse_alloc(id, tam)
  PROVE  IInv'
  <1>1. id \in DOMAIN procesos /\ pedidos' \in 0..MaxPedidos /\ ControlOK
    BY Partes, Recibe DEF muse_alloc, Llamar
  <1>2. PICK segs \in Ordenes(Segs(id)) :
          \/ /\ crearNuevoSegmento(id, tam, "HEAP", SinCelda, SinCelda)
             /\ UNCHANGED tablas
          \/ /\ segmentoAgrandar(segs, tam, "HEAP") # 0
             /\ agrandarSegmento(id, segs, segmentoAgrandar(segs, tam, "HEAP"), tam)
          \/ Caer
    BY DEF muse_alloc
  <1>3. CASE crearNuevoSegmento(id, tam, "HEAP", SinCelda, SinCelda) /\ UNCHANGED tablas
    <2>1. TareaTipo' /\ vivo' \in BOOLEAN /\ muertos' \subseteq Ids /\ UNCHANGED fisica
      BY <1>1, <1>3, CreaTarea
    <2>2. QED
      BY <1>1, <1>3, <2>1, DatosQuietos, Junta DEF ControlOK
  <1>4. CASE /\ segmentoAgrandar(segs, tam, "HEAP") # 0
             /\ agrandarSegmento(id, segs, segmentoAgrandar(segs, tam, "HEAP"), tam)
    <2>1. segs \in Seq(Segmento)
      BY <1>1, OrdenTipo, Partes DEF ProcesosOK, Segs
    <2>2. QED
      BY <1>1, <1>4, <2>1, AgrandableEsta, Agranda
  <1>5. CASE Caer
    BY <1>1, <1>5, Cae
  <1>6. QED
    BY <1>2, <1>3, <1>4, <1>5

\* A request changes the segments of its process, and no page.
LEMMA CambiaSegs ==
  ASSUME IInv, NEW id \in DOMAIN procesos, NEW segs \in Seq(Segmento),
         procesos' = ConSegs(id, segs), UNCHANGED fisica, ArchivosSiguen,
         \A j \in DOMAIN segs : segs[j].tipo = "MAP" =>
            \/ \E k \in DOMAIN Segs(id) :
                  /\ Segs(id)[k].tipo = "MAP"
                  /\ Segs(id)[k].tablaPaginas = segs[j].tablaPaginas
            \/ \E p \in DOMAIN archivosMappeados :
                  archivosMappeados[p].paginas = segs[j].tablaPaginas
  PROVE  /\ FisicaOK' /\ ProcesosOK' /\ UnLugar' /\ MarcosUsados' /\ MapaConArchivo'
         /\ Hechas' = Hechas
  <1>1. FisicaOK' /\ UnLugar' /\ MarcosUsados' /\ Hechas' = Hechas
    BY Partes, FisicaQuieta, LugarQuieto
  <1>2. segs \in Seq(Segmento')
    BY <1>1 DEF Segmento
  <1>3. /\ ProcesosOK' /\ DOMAIN procesos' = DOMAIN procesos
        /\ procesos'[id] = segs
        /\ \A i \in DOMAIN procesos : i # id => procesos'[i] = procesos[i]
    BY <1>1, <1>2, Partes, PonSegs
  <1>4. \A j \in DOMAIN segs : segs[j].tipo = "MAP" =>
            \/ \E k \in DOMAIN procesos[id] :
                  /\ procesos[id][k].tipo = "MAP"
                  /\ procesos[id][k].tablaPaginas = segs[j].tablaPaginas
            \/ \E p \in DOMAIN archivosMappeados' :
                  archivosMappeados'[p].paginas = segs[j].tablaPaginas
    BY DEF Segs, ArchivosSiguen
  <1>5. MapaConArchivo'
    BY <1>3, <1>4, Partes, MapaSigue
  <1>6. QED
    BY <1>1, <1>3, <1>5

\* A request changes what is kept of a file, but not the list of its pages.
LEMMA CambiaArchivo ==
  ASSUME ArchivosOK, Hechas' = Hechas, NEW p \in DOMAIN archivosMappeados,
         NEW a \in Archivo, a.paginas = archivosMappeados[p].paginas,
         archivosMappeados' = [archivosMappeados EXCEPT ![p] = a]
  PROVE  ArchivosOK' /\ ArchivosSiguen /\ DOMAIN archivosMappeados' = DOMAIN archivosMappeados
  <1>1. Archivo' = Archivo
    BY DEF Archivo, Bytes
  <1>2. QED
    BY <1>1 DEF ArchivosOK, ArchivosSiguen

LEMMA VolcadoTipo ==
  ASSUME ArchivosOK, Hechas' = Hechas, NEW p \in DOMAIN archivosMappeados,
         NEW datos \in Seq(Bytes), NEW len, Volcado(p, datos, len)
  PROVE  ArchivosOK' /\ ArchivosSiguen /\ DOMAIN archivosMappeados' = DOMAIN archivosMappeados
  <1> DEFINE m == archivosMappeados[p].map
             v == [k \in DOMAIN m |-> IF k > len THEN m[k]
                                      ELSE IF k <= Len(datos) THEN datos[k] ELSE Basura]
             a == [archivosMappeados[p] EXCEPT !.map = v]
  <1>1. archivosMappeados[p] \in Archivo
    BY DEF ArchivosOK
  <1>2. m \in Seq(Bytes)
    BY <1>1 DEF Archivo
  <1>3. v \in Seq(Bytes)
    <2> HIDE DEF m
    <2>1. DOMAIN m = 1..Len(m) /\ Len(m) \in Nat
      BY <1>2
    <2>2. ASSUME NEW k \in 1..Len(m)
          PROVE  v[k] \in Bytes
      <3>1. m[k] \in Bytes /\ Basura \in Bytes
        BY <1>2, <2>1 DEF Bytes
      <3>2. k <= Len(datos) => datos[k] \in Bytes
        BY <2>1
      <3>3. QED
        BY <3>1, <3>2, <2>1
    <2>3. v \in [1..Len(m) -> Bytes]
      BY <2>1, <2>2
    <2> HIDE DEF v
    <2>4. QED
      BY <2>1, <2>3
  <1>4. archivosMappeados' = [archivosMappeados EXCEPT ![p] = a]
    BY DEF Volcado
  <1> HIDE DEF v
  <1>5. a \in Archivo /\ a.paginas = archivosMappeados[p].paginas
    BY <1>1, <1>3 DEF Archivo
  <1>6. QED
    BY <1>4, <1>5, CambiaArchivo

LEMMA Liberacion ==
  ASSUME IInv, NEW id \in Ids, NEW dir \in Nat, muse_free(id, dir)
  PROVE  IInv'
  <1> DEFINE i == obtenerSegmento(Segs(id), dir)
             seg == Segs(id)[i]
             m == CHOOSE x \in Bloque(seg, dir) : TRUE
             nuevo == [seg EXCEPT !.baseLogica = @ + m.tam]
             segs == [Segs(id) EXCEPT ![i] = nuevo]
  <1>1. id \in DOMAIN procesos /\ pedidos' \in 0..MaxPedidos /\ ControlOK
    BY Partes, Recibe DEF muse_free, Llamar
  <1>2. CASE Caer
    BY <1>1, <1>2, Cae
  <1>3. CASE /\ ~SinBloque(id, dir)
             /\ procesos' = IF seg.baseLogica # dir THEN procesos
                            ELSE [procesos EXCEPT ![id][i].baseLogica = @ + m.tam]
             /\ Empezar(Nada) /\ UNCHANGED <<fisica, archivosMappeados>>
    <2>1. TareaTipo' /\ ControlOK'
      BY <1>1, <1>3, Empieza, SinTarea DEF ControlOK
    <2>2. CASE procesos' = procesos
      BY <1>3, <2>1, <2>2, DatosQuietos, Junta DEF tablas
    <2>3. CASE seg.baseLogica = dir
      <3>1. /\ Hay(id, dir) /\ Bloque(seg, dir) # {}
            /\ procesos' = [procesos EXCEPT ![id][i].baseLogica = @ + m.tam]
        BY <1>3, <2>3 DEF SinBloque, Buscado
      <3>2. Segs(id) \in Seq(Segmento)
        BY <1>1, Partes DEF ProcesosOK, Segs
      <3>3. i \in DOMAIN Segs(id)
        BY <3>1, <3>2, Hallado DEF Hay
      <3>4. procesos' = ConSegs(id, segs)
        BY <1>1, <3>1, <3>3 DEF ConSegs, Segs
      <3> HIDE DEF i
      <3>5. seg \in Segmento
        BY <3>2, <3>3
      <3>6. m \in Bloque(seg, dir)
        BY <3>1
      <3> HIDE DEF seg, m
      <3>7. m.tam \in Nat /\ seg.baseLogica + m.tam \in Nat
        BY <3>5, <3>6 DEF Bloque, Segmento
      <3>8. /\ nuevo \in Segmento /\ nuevo.tipo = seg.tipo
            /\ nuevo.tablaPaginas = seg.tablaPaginas
        BY <3>5, <3>7 DEF Segmento
      <3> HIDE DEF nuevo
      <3>9. /\ segs \in Seq(Segmento)
            /\ \A j \in DOMAIN segs : /\ j \in DOMAIN Segs(id)
                                      /\ segs[j].tipo = Segs(id)[j].tipo
                                      /\ segs[j].tablaPaginas = Segs(id)[j].tablaPaginas
        BY <3>2, <3>3, <3>8, SeqPone DEF seg
      <3> HIDE DEF segs
      <3>10. UNCHANGED fisica /\ archivosMappeados' = archivosMappeados
        BY <1>3
      <3>11. ArchivosSiguen
        BY <3>10 DEF ArchivosSiguen
      <3>12. /\ FisicaOK' /\ ProcesosOK' /\ UnLugar' /\ MarcosUsados' /\ MapaConArchivo'
             /\ Hechas' = Hechas
        BY <1>1, <3>4, <3>9, <3>10, <3>11, CambiaSegs
      <3>13. ArchivosOK'
        BY <3>10, <3>12, Partes, ArchivosQuietos
      <3>14. QED
        BY <2>1, <3>12, <3>13, Junta
    <2>4. QED
      BY <1>3, <2>2, <2>3
  <1>4. QED
    BY <1>2, <1>3 DEF muse_free

LEMMA Mapeo ==
  ASSUME IInv, NEW id \in Ids, NEW path \in Archivos, NEW n \in Positivos,
         NEW flag \in {"PRIVATE", "SHARED"}, muse_map(id, path, n, flag)
  PROVE  IInv'
  <1>1. id \in DOMAIN procesos /\ pedidos' \in 0..MaxPedidos /\ ControlOK
    BY Partes, Recibe DEF muse_map, Llamar
  <1>2. CASE /\ path \notin DOMAIN archivosMappeados
             /\ crearNuevoSegmento(id, n, "MAP", path, flag) /\ UNCHANGED tablas
    <2>1. TareaTipo' /\ vivo' \in BOOLEAN /\ muertos' \subseteq Ids /\ UNCHANGED fisica
      BY <1>1, <1>2, CreaTarea
    <2>2. QED
      BY <1>1, <1>2, <2>1, DatosQuietos, Junta DEF ControlOK
  <1>3. CASE /\ path \in DOMAIN archivosMappeados
             /\ archivosMappeados' = [archivosMappeados EXCEPT ![path].instancias = @ + 1]
             /\ procesos' = ConSegs(id, Append(Segs(id), NuevoSegmento(id, n, "MAP",
                                           archivosMappeados[path].paginas, {})))
             /\ Contestar("map", id, segUltimaPosicion(Segs(id)), n,
                          segUltimaPosicion(Segs(id)), <<>>)
             /\ UNCHANGED fisica
    <2> DEFINE arch == archivosMappeados[path]
               a == [arch EXCEPT !.instancias = @ + 1]
               nuevo == NuevoSegmento(id, n, "MAP", arch.paginas, {})
               segs == Append(Segs(id), nuevo)
    <2>1. Hechas' = Hechas
      BY <1>3, Partes, FisicaQuieta
    <2>2. arch \in Archivo
      BY <1>3, Partes DEF ArchivosOK
    <2>3. a \in Archivo /\ a.paginas = arch.paginas
      BY <2>2 DEF Archivo
    <2>4. archivosMappeados' = [archivosMappeados EXCEPT ![path] = a]
      BY <1>3
    <2>5. ArchivosOK' /\ ArchivosSiguen
      BY <1>3, <2>1, <2>3, <2>4, Partes, CambiaArchivo
    <2>6. arch.paginas \in Seq(Hechas') \ {<<>>} /\ {} \in SUBSET [dir : Nat, tam : Nat]
      BY <2>1, <2>2 DEF Archivo
    <2>7. nuevo \in Segmento' /\ nuevo.tablaPaginas = arch.paginas
      BY <1>1, <2>1, <2>6, Partes, NuevoTipo
    <2>8. nuevo \in Segmento /\ Segs(id) \in Seq(Segmento)
      BY <1>1, <2>1, <2>7, Partes DEF Segmento, ProcesosOK, Segs
    <2>9. procesos' = ConSegs(id, segs) /\ UNCHANGED fisica
      BY <1>3
    <2> HIDE DEF nuevo
    <2>10. /\ segs \in Seq(Segmento)
           /\ \A j \in DOMAIN segs : \/ j \in DOMAIN Segs(id) /\ segs[j] = Segs(id)[j]
                                     \/ segs[j] = nuevo
      BY <2>8, SeqAgrega
    <2> HIDE DEF segs, arch
    <2>11. \A j \in DOMAIN segs : segs[j].tipo = "MAP" =>
            \/ \E k \in DOMAIN Segs(id) :
                  /\ Segs(id)[k].tipo = "MAP"
                  /\ Segs(id)[k].tablaPaginas = segs[j].tablaPaginas
            \/ \E p \in DOMAIN archivosMappeados :
                  archivosMappeados[p].paginas = segs[j].tablaPaginas
      BY <1>3, <2>7, <2>10 DEF arch
    <2>12. /\ FisicaOK' /\ ProcesosOK' /\ UnLugar' /\ MarcosUsados' /\ MapaConArchivo'
           /\ Hechas' = Hechas
      BY <1>1, <2>5, <2>9, <2>10, <2>11, CambiaSegs
    <2>13. TareaTipo' /\ ControlOK'
      BY <1>1, <1>3, Contesta DEF ControlOK
    <2>14. QED
      BY <2>5, <2>12, <2>13, Junta
  <1>4. CASE Contestar("map", id, 0, n, -1, <<>>) /\ UNCHANGED <<fisica, tablas>>
    BY <1>1, <1>4, Contesta, DatosQuietos, Junta DEF ControlOK
  <1>5. QED
    BY <1>2, <1>3, <1>4 DEF muse_map

\* A mapped segment has a file, and what is found of it.
LEMMA TieneArchivo ==
  ASSUME IInv, NEW id \in DOMAIN procesos, NEW dir \in Nat, EnMapa(id, dir)
  PROVE  /\ obtenerSegmento(Segs(id), dir) \in DOMAIN Segs(id)
         /\ Hay(id, dir) /\ Buscado(id, dir) \in Segmento
         /\ ArchivoDe(Buscado(id, dir)) \in DOMAIN archivosMappeados
  <1>1. Segs(id) \in Seq(Segmento)
    BY Partes DEF ProcesosOK, Segs
  <1>2. obtenerSegmento(Segs(id), dir) \in DOMAIN Segs(id)
    BY <1>1, Hallado DEF EnMapa, Hay
  <1>3. Buscado(id, dir) \in Segmento
    BY <1>1, <1>2 DEF Buscado
  <1>4. ArchivosDe(Buscado(id, dir)) # {}
    BY <1>2, Partes DEF MapaConArchivo, EnMapa, Buscado
  <1>5. ArchivoDe(Buscado(id, dir)) \in ArchivosDe(Buscado(id, dir))
    BY <1>4 DEF ArchivoDe
  <1>6. QED
    BY <1>2, <1>3, <1>5 DEF EnMapa, ArchivosDe

LEMMA Sincronizacion ==
  ASSUME IInv, NEW id \in Ids, NEW dir \in Nat, NEW len \in Positivos,
         muse_sync(id, dir, len)
  PROVE  IInv'
  <1> DEFINE path == ArchivoDe(Buscado(id, dir))
             desde == Buscado(id, dir).baseLogica + DESFASE
             n == len - DESFASE
  <1>1. id \in DOMAIN procesos /\ pedidos' \in 0..MaxPedidos /\ ControlOK
    BY Partes, Recibe DEF muse_sync, Llamar
  <1>2. CASE ~EnMapa(id, dir)
    <2>1. Contestar("sync", id, dir, len, -1, <<>>) /\ UNCHANGED <<fisica, tablas>>
      BY <1>2 DEF muse_sync
    <2>2. QED
      BY <1>1, <2>1, Contesta, DatosQuietos, Junta DEF ControlOK
  <1>3. CASE EnMapa(id, dir)
    <2>1. /\ Buscado(id, dir) \in Segmento /\ path \in DOMAIN archivosMappeados
          /\ path \in Archivos
      BY <1>1, <1>3, Partes, TieneArchivo DEF ArchivosOK
    <2>2. desde \in Nat /\ len \in Nat
      BY <2>1 DEF Segmento, DESFASE, Positivos
    <2>3. n \in Int
      BY <2>2 DEF DESFASE
    <2>4. <<>> \in Seq(Bytes)
      OBVIOUS
    <2>5. \/ Caer
          \/ /\ n > 0 /\ Hay(id, desde)
             /\ Recorrer("sync", id, desde, n, <<>>, path, len)
             /\ UNCHANGED <<fisica, tablas>>
          \/ /\ Volcado(path, <<>>, len)
             /\ Contestar("sync", id, dir, len, 0, <<>>)
             /\ UNCHANGED <<fisica, procesos>>
      BY <1>3 DEF muse_sync
    <2> HIDE DEF path, desde, n
    <2>6. CASE Caer
      BY <1>1, <2>6, Cae
    <2>7. CASE /\ n > 0 /\ Hay(id, desde)
               /\ Recorrer("sync", id, desde, n, <<>>, path, len)
               /\ UNCHANGED <<fisica, tablas>>
      <3>1. n \in Positivos
        BY <2>3, <2>7 DEF Positivos
      <3>2. TareaTipo' /\ vivo' \in BOOLEAN /\ muertos' \subseteq Ids
        BY <1>1, <2>1, <2>2, <2>4, <2>7, <3>1, Recorre
      <3>3. QED
        BY <1>1, <2>7, <3>2, DatosQuietos, Junta DEF ControlOK
    <2>8. CASE /\ Volcado(path, <<>>, len)
               /\ Contestar("sync", id, dir, len, 0, <<>>)
               /\ UNCHANGED <<fisica, procesos>>
      <3>1. FisicaOK' /\ UnLugar' /\ MarcosUsados' /\ Hechas' = Hechas
        BY <2>8, Partes, FisicaQuieta, LugarQuieto
      <3>2. ArchivosOK' /\ ArchivosSiguen
        BY <2>1, <2>4, <2>8, <3>1, Partes, VolcadoTipo
      <3>3. ProcesosOK' /\ MapaConArchivo'
        BY <2>8, <3>1, <3>2, Partes, ProcesosQuietos, MapaQuieto
      <3>4. QED
        BY <1>1, <2>8, <3>1, <3>2, <3>3, Contesta, Junta DEF ControlOK
    <2>9. QED
      BY <2>5, <2>6, <2>7, <2>8
  <1>4. QED
    BY <1>2, <1>3

LEMMA ArchivoTipo ==
  ASSUME NEW a \in Archivo, NEW n \in Int, NEW b \in BOOLEAN
  PROVE  /\ [a EXCEPT !.instancias = n, !.abierto = b] \in Archivo
         /\ [a EXCEPT !.instancias = n, !.abierto = b].paginas = a.paginas
  <1> DEFINE c == [a EXCEPT !.instancias = n]
  <1>1. c \in Archivo /\ c.paginas = a.paginas
    BY DEF Archivo
  <1>2. [c EXCEPT !.abierto = b] \in Archivo
    <2> HIDE DEF c
    <2>1. QED
      BY <1>1 DEF Archivo
  <1>3. [a EXCEPT !.instancias = n, !.abierto = b] = [c EXCEPT !.abierto = b]
    OBVIOUS
  <1>4. [a EXCEPT !.instancias = n, !.abierto = b].paginas = a.paginas
    BY DEF Archivo
  <1>5. QED
    BY <1>2, <1>3, <1>4

LEMMA Desmapeo ==
  ASSUME IInv, NEW id \in Ids, NEW dir \in Nat, muse_unmap(id, dir)
  PROVE  IInv'
  <1>1. /\ id \in DOMAIN procesos /\ pedidos' \in 0..MaxPedidos /\ ControlOK
        /\ UNCHANGED fisica
    BY Partes, Recibe DEF muse_unmap, Llamar
  <1>2. CASE ~EnMapa(id, dir)
    <2>1. Contestar("unmap", id, dir, 0, -1, <<>>) /\ UNCHANGED <<fisica, tablas>>
      BY <1>2 DEF muse_unmap
    <2>2. QED
      BY <1>1, <2>1, Contesta, DatosQuietos, Junta DEF ControlOK
  <1>3. CASE EnMapa(id, dir)
    <2> DEFINE p == ArchivoDe(Buscado(id, dir))
               i == obtenerSegmento(Segs(id), dir)
               arch == archivosMappeados[p]
               ab == arch.abierto /\ arch.instancias > 1
               a == [arch EXCEPT !.instancias = @ - 1, !.abierto = ab]
               segs == RemoveAt(Segs(id), i)
    <2>1. /\ archivosMappeados' = [archivosMappeados EXCEPT ![p] = a]
          /\ procesos' = ConSegs(id, segs)
          /\ Contestar("unmap", id, dir, 0, 0, <<>>)
      BY <1>3 DEF muse_unmap
    <2>2. i \in DOMAIN Segs(id) /\ p \in DOMAIN archivosMappeados
      BY <1>1, <1>3, TieneArchivo
    <2>3. Segs(id) \in Seq(Segmento) /\ arch \in Archivo
      BY <1>1, <2>2, Partes DEF ProcesosOK, Segs, ArchivosOK
    <2> HIDE DEF p, i, arch
    <2>4. a \in Archivo /\ a.paginas = arch.paginas
      <3>1. ab \in BOOLEAN
        BY Zenon
      <3> HIDE DEF ab
      <3>2. arch.instancias - 1 \in Int
        BY <2>3 DEF Archivo
      <3>3. QED
        BY <2>3, <3>1, <3>2, ArchivoTipo
    <2>5. /\ segs \in Seq(Segmento)
          /\ \A j \in DOMAIN segs : \E k \in DOMAIN Segs(id) : segs[j] = Segs(id)[k]
      BY <2>2, <2>3, SeqQuita
    <2> HIDE DEF segs, a
    <2>6. Hechas' = Hechas
      BY <1>1, Partes, FisicaQuieta
    <2>7. ArchivosOK' /\ ArchivosSiguen
      BY <2>1, <2>2, <2>4, <2>6, Partes, CambiaArchivo DEF arch
    <2>8. /\ FisicaOK' /\ ProcesosOK' /\ UnLugar' /\ MarcosUsados' /\ MapaConArchivo'
          /\ Hechas' = Hechas
      BY <1>1, <2>1, <2>5, <2>7, CambiaSegs
    <2>9. QED
      BY <1>1, <2>1, <2>7, <2>8, Contesta, Junta DEF ControlOK
  <1>4. QED
    BY <1>2, <1>3

(***************************************************************************)
(* The loop that makes pages.                                              *)
(***************************************************************************)
LEMMA RestaTipo ==
  ASSUME NEW r \in Positivos
  PROVE  /\ Menor(r, PAGE_SIZE) \in 1..PAGE_SIZE
         /\ r - Menor(r, PAGE_SIZE) \in Nat
  BY Tamanos DEF Menor, Positivos

\* The page is added to a segment of the heap that grows.
LEMMA Crecer ==
  ASSUME IInv, Hechas \subseteq Hechas', NEW pag \in Hechas',
         tarea # Nada, tarea.op = "crecer", Anexar(pag)
  PROVE  /\ ProcesosOK' /\ ArchivosOK' /\ MapaConArchivo' /\ TareaTipo'
         /\ vivo' \in BOOLEAN /\ muertos' \subseteq Ids
  <1> DEFINE resta == tarea.resta - Menor(tarea.resta, PAGE_SIZE)
             id == tarea.id
             seg == Segs(id)[tarea.seg]
             nuevo == [seg EXCEPT !.tablaPaginas = Append(@, pag)]
             segs == [Segs(id) EXCEPT ![tarea.seg] = nuevo]
             t == [tarea EXCEPT !.resta = resta]
  <1>1. tarea \in TareaCrecer
    BY Partes DEF TareaTipo, TareaCrear, TareaRecorrer
  <1>2. /\ id \in DOMAIN procesos /\ tarea.seg \in DOMAIN Segs(id) /\ seg.tipo = "HEAP"
        /\ tarea.resta \in Positivos
    BY <1>1, Partes DEF TareaTipo, TareaOK, TareaCrecer
  <1>3. resta \in Nat
    BY <1>2, RestaTipo
  <1>4. /\ procesos' = [procesos EXCEPT ![id][tarea.seg].tablaPaginas = Append(@, pag)]
        /\ archivosMappeados' = archivosMappeados
        /\ \/ Contestar("alloc", id, tarea.dir, tarea.tam, tarea.dir, <<>>)
           \/ resta # 0 /\ Empezar(t)
    BY DEF Anexar
  <1> HIDE DEF resta
  <1>5. Segs(id) \in Seq(Segmento) /\ Segs(id) \in Seq(Segmento')
    BY <1>2, Partes, Crece DEF ProcesosOK, Segs
  <1>6. procesos' = ConSegs(id, segs)
    BY <1>2, <1>4 DEF ConSegs, Segs
  <1>7. seg \in Segmento'
    BY <1>2, <1>5
  <1>8. Append(seg.tablaPaginas, pag) \in Seq(Hechas') \ {<<>>}
    BY <1>7, SeqAgrega DEF Segmento
  <1>9. nuevo \in Segmento' /\ nuevo.tipo = "HEAP"
    <2> HIDE DEF seg
    <2>1. QED
      BY <1>2, <1>7, <1>8 DEF Segmento
  <1> HIDE DEF nuevo
  <1>10. /\ segs \in Seq(Segmento') /\ DOMAIN segs = DOMAIN Segs(id)
         /\ segs[tarea.seg] = nuevo
         /\ \A j \in DOMAIN segs : j # tarea.seg => segs[j] = Segs(id)[j]
    BY <1>2, <1>5, <1>9, SeqPone
  <1> HIDE DEF segs
  <1>11. /\ ProcesosOK' /\ DOMAIN procesos' = DOMAIN procesos
         /\ procesos'[id] = segs
         /\ \A i \in DOMAIN procesos : i # id => procesos'[i] = procesos[i]
    BY <1>2, <1>6, <1>10, Partes, PonSegs
  <1>12. ArchivosOK'
    BY <1>4, Partes, ArchivosQuietos
  <1>13. MapaConArchivo'
    <2>1. ArchivosSiguen
      BY <1>4 DEF ArchivosSiguen
    <2>2. \A j \in DOMAIN segs : segs[j].tipo = "MAP" =>
              j \in DOMAIN procesos[id] /\ segs[j] = procesos[id][j]
      BY <1>9, <1>10 DEF Segs
    <2>3. QED
      BY <1>11, <2>1, <2>2, Partes, MapaSigue
  <1>14. TareaTipo' /\ vivo' \in BOOLEAN /\ muertos' \subseteq Ids
    <2>1. CASE Contestar("alloc", id, tarea.dir, tarea.tam, tarea.dir, <<>>)
      BY <1>2, <2>1, Partes, Contesta DEF ProcesosOK
    <2>2. CASE resta # 0 /\ Empezar(t)
      <3>1. tarea' = t /\ vivo' \in BOOLEAN /\ muertos' \subseteq Ids
        BY <2>2, Partes, Empieza
      <3>2. resta \in Positivos
        BY <1>3, <2>2 DEF Positivos
      <3>3. t \in TareaCrecer /\ t.seg = tarea.seg /\ t.id = id /\ t.op = "crecer"
        BY <1>1, <3>2 DEF TareaCrecer
      <3>4. t \in TareaCrecer' /\ t \notin TareaCrear' \cup TareaRecorrer'
        BY <1>11, <3>3 DEF TareaCrecer, TareaCrear, TareaRecorrer
      <3> HIDE DEF t
      <3>5. TareaOK'
        BY <1>2, <1>9, <1>10, <1>11, <3>1, <3>3, <3>4 DEF TareaOK, Segs
      <3>6. QED
        BY <3>1, <3>4, <3>5 DEF TareaTipo
    <2>3. QED
      BY <1>4, <2>1, <2>2
  <1>15. QED
    BY <1>11, <1>12, <1>13, <1>14

\* The page is one of a new segment.
LEMMA Crear ==
  ASSUME IInv, Hechas \subseteq Hechas', NEW pag \in Hechas',
         tarea # Nada, tarea.op = "crear", Anexar(pag)
  PROVE  /\ ProcesosOK' /\ ArchivosOK' /\ MapaConArchivo' /\ TareaTipo'
         /\ vivo' \in BOOLEAN /\ muertos' \subseteq Ids
  <1> DEFINE resta == tarea.resta - Menor(tarea.resta, PAGE_SIZE)
             id == tarea.id
             pags == Append(tarea.pags, pag)
             dir == segUltimaPosicion(Segs(id))
             ms == {[dir |-> dir, tam |-> tarea.tam]}
             t == [tarea EXCEPT !.resta = resta, !.pags = pags]
             nuevo == NuevoSegmento(id, tarea.tam, tarea.tipo, pags, ms)
             arch == [compartido |-> tarea.flag, instancias |-> 1,
                      paginas |-> pags, abierto |-> TRUE,
                      map |-> [k \in 1..tarea.tam |-> Cero]]
             archs == [p \in DOMAIN archivosMappeados \cup {tarea.path} |->
                          IF p # tarea.path THEN archivosMappeados[p] ELSE arch]
  <1>1. tarea \in TareaCrear
    BY Partes DEF TareaTipo, TareaCrecer, TareaRecorrer
  <1>2. /\ id \in DOMAIN procesos /\ tarea.resta \in Positivos /\ tarea.tam \in Positivos
        /\ tarea.pags \in Seq(Hechas) /\ tarea.tipo \in {"HEAP", "MAP"}
    BY <1>1 DEF TareaCrear
  <1>3. tarea.tipo = "MAP" => /\ tarea.path \in Archivos \ DOMAIN archivosMappeados
                              /\ tarea.flag \in {"PRIVATE", "SHARED"}
    BY <1>1, Partes DEF TareaTipo, TareaOK
  <1>4. resta \in Nat
    BY <1>2, RestaTipo
  <1>5. pags \in Seq(Hechas') \ {<<>>}
    BY <1>2, Crece, SeqAgrega
  <1>6. \/ resta # 0 /\ Empezar(t) /\ UNCHANGED tablas
        \/ /\ procesos' = ConSegs(id, Append(Segs(id), nuevo))
           /\ \/ /\ tarea.tipo = "HEAP" /\ archivosMappeados' = archivosMappeados
                 /\ Contestar("alloc", id, dir, tarea.tam, dir, <<>>)
              \/ /\ tarea.tipo = "MAP" /\ archivosMappeados' = archs
                 /\ Contestar("map", id, dir, tarea.tam, dir, <<>>)
    BY <1>2, <1>4 DEF Anexar
  <1> HIDE DEF resta, pags
  <1>7. CASE resta # 0 /\ Empezar(t) /\ UNCHANGED tablas
    <2>1. procesos' = procesos /\ archivosMappeados' = archivosMappeados
      BY <1>7 DEF tablas
    <2>2. ProcesosOK' /\ ArchivosOK' /\ MapaConArchivo'
      BY <2>1, Partes, ProcesosQuietos, ArchivosQuietos, MapaQuieto DEF ArchivosSiguen
    <2>3. tarea' = t /\ vivo' \in BOOLEAN /\ muertos' \subseteq Ids
      BY <1>7, Partes, Empieza
    <2>4. resta \in Positivos
      BY <1>4, <1>7 DEF Positivos
    <2>5. /\ t \in TareaCrear' /\ t.op = "crear" /\ t.tipo = tarea.tipo
          /\ t.path = tarea.path /\ t.flag = tarea.flag
      BY <1>1, <1>5, <2>1, <2>4 DEF TareaCrear
    <2>6. t \notin TareaCrecer' \cup TareaRecorrer'
      BY <2>5 DEF TareaCrecer, TareaRecorrer
    <2> HIDE DEF t
    <2>7. TareaOK'
      BY <1>3, <2>1, <2>3, <2>5, <2>6 DEF TareaOK
    <2>8. QED
      BY <2>2, <2>3, <2>5, <2>7 DEF TareaTipo
  <1>8. CASE /\ procesos' = ConSegs(id, Append(Segs(id), nuevo))
             /\ \/ /\ tarea.tipo = "HEAP" /\ archivosMappeados' = archivosMappeados
                   /\ Contestar("alloc", id, dir, tarea.tam, dir, <<>>)
                \/ /\ tarea.tipo = "MAP" /\ archivosMappeados' = archs
                   /\ Contestar("map", id, dir, tarea.tam, dir, <<>>)
    <2> DEFINE segs == Append(Segs(id), nuevo)
    <2>1. dir \in Nat
      BY <1>2, Partes, UltimaPosicionTipo DEF ProcesosOK, Segs
    <2>2. ms \in SUBSET [dir : Nat, tam : Nat]
      <3>1. tarea.tam \in Nat
        BY <1>2 DEF Positivos
      <3> HIDE DEF dir
      <3>2. QED
        BY <2>1, <3>1
    <2> HIDE DEF ms, dir
    <2>3. nuevo \in Segmento' /\ nuevo.tipo = tarea.tipo /\ nuevo.tablaPaginas = pags
      BY <1>2, <1>5, <2>2, Partes, NuevoTipo
    <2> HIDE DEF nuevo
    <2>4. Segs(id) \in Seq(Segmento) /\ Segs(id) \in Seq(Segmento')
      BY <1>2, Partes, Crece DEF ProcesosOK, Segs
    <2>5. /\ segs \in Seq(Segmento')
          /\ \A j \in DOMAIN segs : \/ j \in DOMAIN Segs(id) /\ segs[j] = Segs(id)[j]
                                    \/ segs[j] = nuevo
      BY <2>3, <2>4, SeqAgrega
    <2> HIDE DEF segs
    <2>6. /\ ProcesosOK' /\ DOMAIN procesos' = DOMAIN procesos
          /\ procesos'[id] = segs
          /\ \A i \in DOMAIN procesos : i # id => procesos'[i] = procesos[i]
      BY <1>2, <1>8, <2>5, Partes, PonSegs DEF segs
    <2>7. TareaTipo' /\ vivo' \in BOOLEAN /\ muertos' \subseteq Ids
      BY <1>2, <1>8, Partes, Contesta DEF ProcesosOK
    <2>8. CASE tarea.tipo = "HEAP" /\ archivosMappeados' = archivosMappeados
      <3>1. ArchivosOK'
        BY <2>8, Partes, ArchivosQuietos
      <3>2. ArchivosSiguen
        BY <2>8 DEF ArchivosSiguen
      <3>3. \A j \in DOMAIN segs : segs[j].tipo = "MAP" =>
               j \in DOMAIN procesos[id] /\ segs[j] = procesos[id][j]
        BY <2>3, <2>5, <2>8 DEF Segs
      <3>4. MapaConArchivo'
        BY <2>6, <3>2, <3>3, Partes, MapaSigue
      <3>5. QED
        BY <2>6, <2>7, <3>1, <3>4
    <2>9. CASE tarea.tipo = "MAP" /\ archivosMappeados' = archs
      <3>1. tarea.path \in Archivos \ DOMAIN archivosMappeados
        BY <1>3, <2>9
      <3>2. arch \in Archivo'
        <4>1. [k \in 1..tarea.tam |-> Cero] \in Seq(Bytes')
          BY <1>2 DEF Bytes, Positivos
        <4>2. QED
          BY <1>3, <1>5, <2>9, <4>1 DEF Archivo
      <3>3. arch.paginas = pags
        OBVIOUS
      <3> HIDE DEF arch
      <3>4. /\ DOMAIN archivosMappeados' = DOMAIN archivosMappeados \cup {tarea.path}
            /\ archivosMappeados'[tarea.path] = arch
            /\ \A p \in DOMAIN archivosMappeados :
                  archivosMappeados'[p] = archivosMappeados[p]
        BY <2>9, <3>1
      <3>5. ArchivosSiguen
        BY <3>4 DEF ArchivosSiguen
      <3>6. ArchivosOK'
        <4>1. \A p \in DOMAIN archivosMappeados : archivosMappeados[p] \in Archivo'
          BY Partes, Crece DEF ArchivosOK
        <4>2. \A p \in DOMAIN archivosMappeados' : archivosMappeados'[p] \in Archivo'
          BY <3>2, <3>4, <4>1
        <4>3. archivosMappeados' = [p \in DOMAIN archivosMappeados' |-> archivosMappeados'[p]]
          BY <2>9
        <4>4. DOMAIN archivosMappeados' \subseteq Archivos
          BY <3>1, <3>4, Partes DEF ArchivosOK
        <4>5. QED
          BY <4>2, <4>3, <4>4 DEF ArchivosOK
      <3>7. \A j \in DOMAIN segs : segs[j].tipo = "MAP" =>
              \/ j \in DOMAIN procesos[id] /\ segs[j] = procesos[id][j]
              \/ archivosMappeados'[tarea.path].paginas = segs[j].tablaPaginas
        BY <2>3, <2>5, <3>3, <3>4 DEF Segs
      <3>8. MapaConArchivo'
        BY <2>6, <3>4, <3>5, <3>7, Partes, MapaSigue
      <3>9. QED
        BY <2>6, <2>7, <3>6, <3>8
    <2>10. QED
      BY <1>8, <2>8, <2>9
  <1>9. QED
    BY <1>6, <1>7, <1>8

\* The page joins its segment, whichever the request.
LEMMA Anexa ==
  ASSUME IInv, Hechas \subseteq Hechas', NEW pag \in Hechas', Creando, Anexar(pag)
  PROVE  /\ ProcesosOK' /\ ArchivosOK' /\ MapaConArchivo' /\ TareaTipo'
         /\ vivo' \in BOOLEAN /\ muertos' \subseteq Ids
  <1>1. tarea # Nada /\ (tarea.op = "crear" \/ tarea.op = "crecer")
    BY DEF Creando
  <1>2. QED
    BY <1>1, Crear, Crecer

\* What is left of a request that makes pages is a number of bytes.
LEMMA CreandoResta ==
  ASSUME IInv, Creando
  PROVE  tarea.resta \in Positivos
  <1>1. tarea \in TareaCrear \cup TareaCrecer
    BY Partes DEF TareaTipo, TareaRecorrer, Creando
  <1>2. QED
    BY <1>1 DEF TareaCrear, TareaCrecer

\* The victim of the clock is a page that is in memory, in that frame.
LEMMA VictimaEsta ==
  ASSUME FisicaOK, UnLugar, \A f \in Frames : frames[f].pagina # 0
  PROVE  /\ clockModificado \in Frames /\ Victima \in Hechas
         /\ paginas[Victima].ubicacion = "MP"
         /\ paginas[Victima].nroframe = clockModificado
         /\ \A f \in Frames : frames[f].pagina = Victima => f = clockModificado
  <1>1. clockModificado \in Frames
    BY Reloj DEF FisicaOK
  <1>2. frames[clockModificado].pagina \in Hechas
    BY <1>1 DEF FisicaOK, Frame
  <1>3. QED
    BY <1>1, <1>2 DEF Victima, UnLugar

LEMMA SlotEsta ==
  ASSUME SlotsLibres # {}
  PROVE  escribirMMap \in Slots /\ swaps[escribirMMap] = 0
  BY MarcosSlots, MinimoEsta DEF escribirMMap, SlotsLibres

LEMMA LibreCrea ==
  ASSUME IInv, CrearEnLibre
  PROVE  IInv'
  <1> DEFINE f == Minimo(FramesLibres)
             n == Len(paginas) + 1
             nueva == [nroframe |-> f, ubicacion |-> "MP",
                       desplazamiento |-> Menor(tarea.resta, PAGE_SIZE)]
             marco == [pagina |-> n, bitUso |-> TRUE, bitMod |-> TRUE, enUso |-> TRUE]
  <1>1. FisicaOK /\ UnLugar /\ MarcosUsados /\ ControlOK
    BY Partes
  <1>2. f \in Frames
    BY MarcosSlots, MinimoEsta DEF CrearEnLibre, FramesLibres
  <1>3. /\ paginas' = Append(paginas, nueva) /\ frames' = [frames EXCEPT ![f] = marco]
        /\ UNCHANGED <<memoria, swaps, disco, punteroClock, pedidos>>
        /\ Creando /\ Anexar(n)
    BY DEF CrearEnLibre, crearPagina
  <1>4. nueva \in Pagina
    <2> HIDE DEF f
    <2>1. Menor(tarea.resta, PAGE_SIZE) \in 1..PAGE_SIZE
      BY <1>3, CreandoResta, RestaTipo
    <2>2. QED
      BY <1>2, <2>1 DEF Pagina
  <1> HIDE DEF f
  <1>5. nueva.nroframe = f /\ nueva.ubicacion = "MP"
    OBVIOUS
  <1> HIDE DEF nueva
  <1>6. /\ paginas' \in Seq(Pagina) /\ Hechas' = Hechas \cup {n} /\ n \notin Hechas /\ n # 0
        /\ paginas'[n] = nueva
        /\ \A g \in Hechas : paginas'[g] = paginas[g]
    <2>1. paginas \in Seq(Pagina) /\ Len(paginas) \in Nat
      BY <1>1, HechasNat DEF FisicaOK
    <2>2. QED
      BY <1>3, <1>4, <2>1 DEF Hechas
  <1>7. /\ frames'[f] = marco
        /\ \A h \in Frames : h # f => frames'[h] = frames[h]
        /\ \A h \in Frames : frames[h].pagina \in {0} \cup Hechas
    BY <1>1, <1>2, <1>3 DEF FisicaOK, Frame
  <1>8. FisicaOK'
    <2>1. marco \in Frame'
      BY <1>6 DEF Frame
    <2>2. \A h \in Frames : frames[h] \in Frame'
      BY <1>1, <1>6, Crece DEF FisicaOK
    <2>3. frames' \in [Frames -> Frame']
      BY <1>1, <1>3, <2>1, <2>2 DEF FisicaOK
    <2>4. QED
      BY <1>1, <1>3, <1>6, <2>3 DEF FisicaOK, Bloques, Bytes
  <1>9. marco.pagina = n /\ marco.enUso
    OBVIOUS
  <1> HIDE DEF marco, n
  <1>10. UnLugar'
    <2>1. \A h \in Frames : frames'[h].pagina # 0 =>
             /\ paginas'[frames'[h].pagina].ubicacion = "MP"
             /\ paginas'[frames'[h].pagina].nroframe = h
      <3> TAKE h \in Frames
      <3>1. CASE h = f
        BY <3>1, <1>5, <1>6, <1>7, <1>9
      <3>2. CASE h # f
        BY <3>2, <1>1, <1>6, <1>7 DEF UnLugar
      <3>3. QED
        BY <3>1, <3>2
    <2>2. \A s \in Slots : swaps'[s] # 0 => paginas'[swaps'[s]].ubicacion = "SWAP"
      BY <1>1, <1>3, <1>6, ZenonT(60) DEF UnLugar, FisicaOK
    <2>3. \A g \in Hechas' : paginas'[g].ubicacion = "SWAP" =>
             \E s \in Slots : \A t \in Slots : swaps'[t] = g <=> t = s
      <3> SUFFICES ASSUME NEW g \in Hechas', paginas'[g].ubicacion = "SWAP"
                   PROVE  \E s \in Slots : \A t \in Slots : swaps'[t] = g <=> t = s
        OBVIOUS
      <3>1. g \in Hechas /\ paginas[g].ubicacion = "SWAP"
        BY <1>5, <1>6
      <3>2. PICK s \in Slots : \A t \in Slots : swaps[t] = g <=> t = s
        BY <3>1, <1>1 DEF UnLugar
      <3>3. QED
        BY <3>2, <1>3
    <2>4. QED
      BY <2>1, <2>2, <2>3 DEF UnLugar
  <1>11. MarcosUsados'
    BY <1>1, <1>5, <1>6, <1>7, <1>9 DEF MarcosUsados
  <1>12. /\ ProcesosOK' /\ ArchivosOK' /\ MapaConArchivo' /\ TareaTipo' /\ ControlOK'
    BY <1>1, <1>3, <1>6, Anexa DEF ControlOK
  <1>13. QED
    BY <1>8, <1>10, <1>11, <1>12, Junta

\* What a new page n in the frame f of a victim v, which goes to slot s, changes.
EfectoDesalojar(f, v, s, n) ==
    /\ f \in Frames /\ v \in Hechas /\ s \in Slots /\ swaps[s] = 0
    /\ paginas[v].ubicacion = "MP" /\ paginas[v].nroframe = f
    /\ \A h \in Frames : /\ frames[h].pagina \in Hechas /\ frames[h].pagina # 0
                         /\ frames[h].pagina = v => h = f
    /\ paginas' \in Seq(Pagina) /\ Hechas' = Hechas \cup {n} /\ n \notin Hechas /\ n # 0
    /\ paginas'[n].nroframe = f /\ paginas'[n].ubicacion = "MP"
    /\ paginas'[n].desplazamiento = Menor(tarea.resta, PAGE_SIZE)
    /\ paginas'[v].ubicacion = "SWAP"
    /\ paginas'[v].desplazamiento = paginas[v].desplazamiento
    /\ \A g \in Hechas : g # v => paginas'[g] = paginas[g]
    /\ frames' \in [Frames -> Frame'] /\ frames'[f].pagina = n /\ frames'[f].enUso
    /\ \A h \in Frames : h # f => /\ frames'[h].pagina = frames[h].pagina
                                  /\ frames'[h].enUso = frames[h].enUso
    /\ swaps' = [swaps EXCEPT ![s] = v] /\ swaps'[s] = v
    /\ \A t \in Slots : t # s => swaps'[t] = swaps[t]
    /\ disco' = [disco EXCEPT ![s] = ContenidoDe(v)]
    /\ UNCHANGED <<memoria, pedidos>> /\ moverPunteroEnClock
    /\ Creando /\ Anexar(n)

LEMMA DesalojarHace ==
  ASSUME IInv, CrearDesalojando
  PROVE  \E f, v, s, n : EfectoDesalojar(f, v, s, n)
  <1> DEFINE f == clockModificado
             v == Victima
             s == escribirMMap
             n == Len(paginas) + 1
             nueva == [nroframe |-> f, ubicacion |-> "MP",
                       desplazamiento |-> Menor(tarea.resta, PAGE_SIZE)]
             marco == [pagina |-> n, bitUso |-> TRUE, bitMod |-> TRUE, enUso |-> TRUE]
  <1>1. FisicaOK /\ UnLugar /\ MarcosUsados /\ ControlOK
    BY Partes
  <1>2. \A h \in Frames : frames[h].pagina # 0
    BY <1>1 DEF MarcosUsados, CrearDesalojando, FramesLibres
  <1>3. /\ f \in Frames /\ v \in Hechas
        /\ paginas[v].ubicacion = "MP" /\ paginas[v].nroframe = f
        /\ \A h \in Frames : frames[h].pagina = v => h = f
    BY <1>1, <1>2, VictimaEsta
  <1>4. s \in Slots /\ swaps[s] = 0
    BY SlotEsta DEF CrearDesalojando
  <1>5. /\ paginas' = Append(Desalojadas, nueva)
        /\ frames' = [TrasClock EXCEPT ![f] = [pagina |-> Len(Desalojadas) + 1,
                          bitUso |-> TRUE, bitMod |-> TRUE, enUso |-> TRUE]]
        /\ swaps' = [swaps EXCEPT ![s] = v]
        /\ disco' = [disco EXCEPT ![s] = ContenidoDe(v)]
        /\ UNCHANGED <<memoria, pedidos>> /\ moverPunteroEnClock
        /\ Creando /\ Anexar(Len(Desalojadas) + 1)
    BY DEF CrearDesalojando, crearPagina
  <1>6. /\ Desalojadas \in Seq(Pagina) /\ Len(Desalojadas) = Len(paginas)
        /\ DOMAIN Desalojadas = Hechas
        /\ Desalojadas[v].ubicacion = "SWAP"
        /\ \A g \in Hechas : /\ g # v => Desalojadas[g] = paginas[g]
                             /\ Desalojadas[g].nroframe = paginas[g].nroframe
                             /\ Desalojadas[g].desplazamiento = paginas[g].desplazamiento
    <2>1. [paginas[v] EXCEPT !.ubicacion = "SWAP"] \in Pagina
      BY <1>1, <1>3, HechasNat DEF Pagina
    <2>2. paginas \in Seq(Pagina) /\ \A g \in Hechas : paginas[g] \in Pagina
      BY <1>1, HechasNat DEF FisicaOK
    <2>3. Desalojadas = [paginas EXCEPT ![v] = [paginas[v] EXCEPT !.ubicacion = "SWAP"]]
      BY <1>3 DEF Desalojadas
    <2> HIDE DEF v
    <2>4. Desalojadas \in Seq(Pagina)
      BY <1>3, <2>1, <2>2, <2>3, SeqPone DEF Hechas
    <2>5. QED
      BY <1>3, <2>1, <2>2, <2>3, <2>4 DEF Hechas, Pagina
  <1> HIDE DEF f, v, s
  <1>7. nueva \in Pagina
    <2>1. Menor(tarea.resta, PAGE_SIZE) \in 1..PAGE_SIZE
      BY <1>5, CreandoResta, RestaTipo
    <2>2. QED
      BY <1>3, <2>1 DEF Pagina
  <1>8. /\ nueva.nroframe = f /\ nueva.ubicacion = "MP"
        /\ nueva.desplazamiento = Menor(tarea.resta, PAGE_SIZE)
    OBVIOUS
  <1> HIDE DEF nueva
  <1>9. /\ paginas' \in Seq(Pagina) /\ Hechas' = Hechas \cup {n} /\ n \notin Hechas /\ n # 0
        /\ paginas'[n] = nueva
        /\ \A g \in Hechas : paginas'[g] = Desalojadas[g]
    <2>1. Len(paginas) \in Nat
      BY <1>1, HechasNat
    <2>2. QED
      BY <1>5, <1>6, <1>7, <2>1 DEF Hechas
  <1>10. /\ TrasClock \in [Frames -> Frame]
         /\ \A h \in Frames : /\ TrasClock[h].pagina = frames[h].pagina
                              /\ TrasClock[h].enUso = frames[h].enUso
    BY <1>1, TrasClockTipo DEF FisicaOK
  <1>11. /\ frames' = [TrasClock EXCEPT ![f] = marco]
         /\ frames'[f] = marco
         /\ \A h \in Frames : h # f => /\ frames'[h].pagina = frames[h].pagina
                                       /\ frames'[h].enUso = frames[h].enUso
         /\ \A h \in Frames : frames[h].pagina \in Hechas
    <2>1. frames' = [TrasClock EXCEPT ![f] = marco]
      BY <1>5, <1>6
    <2> HIDE DEF marco
    <2>2. QED
      BY <1>1, <1>2, <1>3, <1>10, <2>1 DEF FisicaOK, Frame
  <1>12. swaps'[s] = v /\ \A t \in Slots : t # s => swaps'[t] = swaps[t]
    BY <1>1, <1>4, <1>5 DEF FisicaOK
  <1>13. frames' \in [Frames -> Frame']
    <2>1. marco \in Frame'
      BY <1>9 DEF Frame
    <2> HIDE DEF marco
    <2>2. \A h \in Frames : TrasClock[h] \in Frame'
      BY <1>9, <1>10, Crece
    <2>3. QED
      BY <1>10, <1>11, <2>1, <2>2
  <1>14. marco.pagina = n /\ marco.enUso
    OBVIOUS
  <1> HIDE DEF marco, n
  <1>15. Creando /\ Anexar(n)
    BY <1>5, <1>6 DEF n
  <1>16. EfectoDesalojar(f, v, s, n)
    BY <1>2, <1>3, <1>4, <1>5, <1>6, <1>8, <1>9, <1>11, <1>12, <1>13, <1>14, <1>15
    DEF EfectoDesalojar
  <1>17. QED
    BY <1>16

LEMMA DesalojaCrea ==
  ASSUME IInv, CrearDesalojando
  PROVE  IInv'
  <1>0. FisicaOK /\ UnLugar /\ MarcosUsados /\ ControlOK
    BY Partes
  <1>1. PICK f, v, s, n : EfectoDesalojar(f, v, s, n)
    BY DesalojarHace
  <1>2. FisicaOK'
    <2>1. ContenidoDe(v) \in Bloques
      BY <1>0, <1>1 DEF EfectoDesalojar, ContenidoDe, FisicaOK
    <2>2. disco' \in [Slots -> Bloques] /\ memoria' \in [Frames -> Bloques]
      BY <1>0, <1>1, <2>1 DEF EfectoDesalojar, FisicaOK
    <2>3. swaps' \in [Slots -> {0} \cup Hechas']
      BY <1>0, <1>1 DEF EfectoDesalojar, FisicaOK
    <2>4. punteroClock' \in Frames
      BY <1>0, <1>1, RelojSigue DEF EfectoDesalojar, FisicaOK
    <2>5. QED
      BY <1>1, <2>2, <2>3, <2>4 DEF EfectoDesalojar, FisicaOK, Bloques, Bytes
  <1>3. UnLugar'
    <2>1. \A h \in Frames : frames'[h].pagina # 0 =>
             /\ paginas'[frames'[h].pagina].ubicacion = "MP"
             /\ paginas'[frames'[h].pagina].nroframe = h
      <3> TAKE h \in Frames
      <3>1. CASE h = f
        BY <3>1, <1>1 DEF EfectoDesalojar
      <3>2. CASE h # f
        <4>1. frames'[h].pagina = frames[h].pagina /\ frames[h].pagina # v
          BY <3>2, <1>1 DEF EfectoDesalojar
        <4>2. paginas'[frames[h].pagina] = paginas[frames[h].pagina]
          BY <4>1, <1>1 DEF EfectoDesalojar
        <4>3. QED
          BY <4>1, <4>2, <1>0, <1>1 DEF UnLugar, EfectoDesalojar
      <3>3. QED
        BY <3>1, <3>2
    <2>2. \A t \in Slots : swaps'[t] # 0 => paginas'[swaps'[t]].ubicacion = "SWAP"
      <3> SUFFICES ASSUME NEW t \in Slots, swaps'[t] # 0
                   PROVE  paginas'[swaps'[t]].ubicacion = "SWAP"
        OBVIOUS
      <3>1. CASE t = s
        BY <3>1, <1>1 DEF EfectoDesalojar
      <3>2. CASE t # s
        <4>1. swaps'[t] = swaps[t] /\ swaps[t] \in Hechas
          BY <3>2, <1>0, <1>1 DEF FisicaOK, EfectoDesalojar
        <4>2. paginas[swaps[t]].ubicacion = "SWAP"
          BY <4>1, <1>0, <1>1 DEF UnLugar, EfectoDesalojar
        <4>3. QED
          BY <4>1, <4>2, <1>1 DEF EfectoDesalojar
      <3>3. QED
        BY <3>1, <3>2
    <2>3. \A g \in Hechas' : paginas'[g].ubicacion = "SWAP" =>
             \E u \in Slots : \A t \in Slots : swaps'[t] = g <=> t = u
      <3> SUFFICES ASSUME NEW g \in Hechas', paginas'[g].ubicacion = "SWAP"
                   PROVE  \E u \in Slots : \A t \in Slots : swaps'[t] = g <=> t = u
        OBVIOUS
      <3>1. g \in Hechas
        BY <1>1 DEF EfectoDesalojar
      <3>2. CASE g = v
        <4>1. \A t \in Slots : swaps[t] # v
          BY <1>0, <1>1, HechasNat DEF UnLugar, EfectoDesalojar
        <4>2. QED
          BY <3>2, <4>1, <1>1 DEF EfectoDesalojar
      <3>3. CASE g # v
        <4>1. paginas[g].ubicacion = "SWAP"
          BY <3>1, <3>3, <1>1 DEF EfectoDesalojar
        <4>2. PICK u \in Slots : \A t \in Slots : swaps[t] = g <=> t = u
          BY <3>1, <4>1, <1>0, <1>1 DEF UnLugar, EfectoDesalojar
        <4>3. g # 0
          BY <3>1, <1>0, <1>1, HechasNat DEF EfectoDesalojar
        <4>4. u # s
          BY <4>2, <4>3, <1>1 DEF EfectoDesalojar
        <4>5. QED
          BY <3>3, <4>2, <4>4, <1>1 DEF EfectoDesalojar
      <3>4. QED
        BY <3>2, <3>3
    <2>4. QED
      BY <2>1, <2>2, <2>3 DEF UnLugar
  <1>4. MarcosUsados'
    <2>1. \A h \in Frames : frames'[h].pagina # 0
      BY <1>1 DEF EfectoDesalojar
    <2>2. QED
      BY <2>1 DEF MarcosUsados
  <1>5. /\ ProcesosOK' /\ ArchivosOK' /\ MapaConArchivo' /\ TareaTipo' /\ ControlOK'
    <2>1. Creando /\ Anexar(n) /\ n \in Hechas' /\ Hechas \subseteq Hechas' /\ pedidos' = pedidos
      BY <1>1 DEF EfectoDesalojar
    <2>2. QED
      BY <1>0, <2>1, Anexa DEF ControlOK
  <1>6. QED
    BY <1>2, <1>3, <1>4, <1>5, Junta

(***************************************************************************)
(* The walk over pages.                                                    *)
(***************************************************************************)
\* The page that a walk has reached is one of its segment.
LEMMA PagEsta ==
  ASSUME IInv, Recorriendo
  PROVE  /\ tarea \in TareaRecorrer /\ tarea.id \in DOMAIN procesos
         /\ EnTabla => Pag \in Hechas
  <1>1. tarea \in TareaRecorrer
    BY Partes DEF TareaTipo, Recorriendo, TareaCrear, TareaCrecer
  <1>2. /\ tarea.id \in DOMAIN procesos /\ tarea.nro \in Positivos
        /\ tarea.seg \in DOMAIN Segs(tarea.id)
    BY <1>1, Partes DEF TareaTipo, TareaOK, TareaRecorrer
  <1>3. Segs(tarea.id) \in Seq(Segmento)
    BY <1>2, Partes DEF ProcesosOK, Segs
  <1>4. Tabla \in Seq(Hechas)
    <2>1. Segs(tarea.id)[tarea.seg] \in Segmento
      BY <1>2, <1>3
    <2>2. QED
      BY <2>1 DEF Tabla, Segmento
  <1>5. EnTabla => tarea.nro \in 1..Len(Tabla)
    BY <1>2, <1>4 DEF EnTabla, Positivos
  <1>6. EnTabla => Pag \in Hechas
    BY <1>4, <1>5, ElementOfSeq DEF Pag
  <1>7. QED
    BY <1>1, <1>2, <1>6

\* The request goes on: only pages and frames change, and no page is made.
LEMMA TareaQuieta ==
  ASSUME TareaTipo, Hechas' = Hechas, UNCHANGED <<tablas, tarea>>
  PROVE  TareaTipo'
  <1>1. procesos' = procesos /\ archivosMappeados' = archivosMappeados /\ tarea' = tarea
    BY DEF tablas
  <1>2. TareaCrear' = TareaCrear /\ TareaCrecer' = TareaCrecer /\ TareaRecorrer' = TareaRecorrer
    BY <1>1 DEF TareaCrear, TareaCrecer, TareaRecorrer, Bytes
  <1>3. TareaOK' <=> TareaOK
    BY <1>1, <1>2 DEF TareaOK, Segs
  <1>4. QED
    BY <1>1, <1>2, <1>3 DEF TareaTipo

\* What bringing page q back from slot l changes: it takes the frame f of a victim
\* v, which goes to slot s.
EfectoTraer(f, v, s, q, l) ==
    /\ f \in Frames /\ v \in Hechas /\ s \in Slots /\ swaps[s] = 0 /\ l # s
    /\ q \in Hechas /\ q # v /\ q # 0 /\ v # 0 /\ paginas[q].ubicacion = "SWAP"
    /\ l \in Slots /\ \A t \in Slots : swaps[t] = q <=> t = l
    /\ paginas[v].ubicacion = "MP" /\ paginas[v].nroframe = f
    /\ \A h \in Frames : /\ frames[h].pagina \in Hechas /\ frames[h].pagina # 0
                         /\ frames[h].pagina = v => h = f
    /\ paginas' \in Seq(Pagina) /\ Hechas' = Hechas
    /\ paginas'[q].ubicacion = "MP" /\ paginas'[q].nroframe = f
    /\ paginas'[v].ubicacion = "SWAP"
    /\ \A g \in Hechas : /\ g # q /\ g # v => paginas'[g] = paginas[g]
                         /\ paginas'[g].desplazamiento = paginas[g].desplazamiento
    /\ frames' \in [Frames -> Frame] /\ frames'[f].pagina = q
    /\ \A h \in Frames : /\ h # f => frames'[h].pagina = frames[h].pagina
                         /\ frames'[h].enUso = frames[h].enUso
    /\ swaps'[s] = v /\ swaps'[l] = 0 /\ swaps' \in [Slots -> {0} \cup Hechas]
    /\ \A t \in Slots : t # s /\ t # l => swaps'[t] = swaps[t]
    /\ disco' = [disco EXCEPT ![s] = ContenidoDe(v)]
    /\ memoria' = [memoria EXCEPT ![f] = disco[l]]
    /\ moverPunteroEnClock
    /\ UNCHANGED <<tablas, tarea, respuesta, muertos, vivo, pedidos>>

LEMMA TraerHace ==
  ASSUME IInv, TraerPagina
  PROVE  \E f, v, s, q, l : EfectoTraer(f, v, s, q, l)
  <1> DEFINE f == clockModificado
             v == Victima
             s == escribirMMap
             q == Pag
             l == leerMMap(q)
  <1>1. FisicaOK /\ UnLugar /\ MarcosUsados /\ ControlOK /\ TareaTipo
    BY Partes
  <1>2. q \in Hechas /\ paginas[q].ubicacion = "SWAP"
    BY PagEsta DEF TraerPagina
  <1>3. \A h \in Frames : frames[h].pagina # 0
    BY <1>1, <1>2 DEF MarcosUsados
  <1>4. /\ f \in Frames /\ v \in Hechas
        /\ paginas[v].ubicacion = "MP" /\ paginas[v].nroframe = f
        /\ \A h \in Frames : frames[h].pagina = v => h = f
    BY <1>1, <1>3, VictimaEsta
  <1>5. s \in Slots /\ swaps[s] = 0
    BY SlotEsta DEF TraerPagina
  <1>6. l \in Slots /\ \A t \in Slots : swaps[t] = q <=> t = l
    <2>1. PICK u \in Slots : \A t \in Slots : swaps[t] = q <=> t = u
      BY <1>1, <1>2 DEF UnLugar
    <2>2. swaps[l] = q /\ l \in Slots
      BY <2>1 DEF leerMMap
    <2>3. QED
      BY <2>1, <2>2
  <1>7. /\ paginas' = [Desalojadas EXCEPT ![q].ubicacion = "MP", ![q].nroframe = f]
        /\ frames' = [TrasClock EXCEPT ![f].pagina = q]
        /\ disco' = [disco EXCEPT ![s] = ContenidoDe(v)]
        /\ swaps' = [swaps EXCEPT ![s] = v, ![l] = 0]
        /\ memoria' = [memoria EXCEPT ![f] = disco[l]]
        /\ moverPunteroEnClock
        /\ UNCHANGED <<tablas, tarea, respuesta, muertos, vivo, pedidos>>
    BY DEF TraerPagina, SlotsTras
  <1>8. q # v /\ q # 0 /\ v # 0
    BY <1>1, <1>2, <1>4, HechasNat
  <1>9. l # s
    BY <1>5, <1>6, <1>8
  <1>10. Desalojadas = [paginas EXCEPT ![v] = [paginas[v] EXCEPT !.ubicacion = "SWAP"]]
    BY <1>4 DEF Desalojadas
  <1> HIDE DEF f, v, s, q, l
  <1>11. /\ paginas' \in Seq(Pagina) /\ Hechas' = Hechas
         /\ paginas'[q].ubicacion = "MP" /\ paginas'[q].nroframe = f
         /\ paginas'[v].ubicacion = "SWAP"
         /\ \A g \in Hechas : /\ g # q /\ g # v => paginas'[g] = paginas[g]
                              /\ paginas'[g].desplazamiento = paginas[g].desplazamiento
    <2> DEFINE pv == [paginas[v] EXCEPT !.ubicacion = "SWAP"]
               pq == [paginas[q] EXCEPT !.ubicacion = "MP", !.nroframe = f]
    <2>1. /\ pv \in Pagina /\ pv.ubicacion = "SWAP"
          /\ pq \in Pagina /\ pq.ubicacion = "MP" /\ pq.nroframe = f
          /\ pv.desplazamiento = paginas[v].desplazamiento
          /\ pq.desplazamiento = paginas[q].desplazamiento
      <3>1. paginas[v] \in Pagina /\ paginas[q] \in Pagina
        BY <1>1, <1>2, <1>4, HechasNat
      <3>2. QED
        BY <1>4, <3>1 DEF Pagina
    <2>2. paginas \in Seq(Pagina) /\ DOMAIN paginas = Hechas
      BY <1>1 DEF FisicaOK, Hechas
    <2>3. Desalojadas[q] = paginas[q] /\ DOMAIN Desalojadas = DOMAIN paginas
      BY <1>2, <1>8, <1>10, <2>2
    <2>4. paginas' = [Desalojadas EXCEPT ![q] = pq]
      BY <1>2, <1>7, <2>2, <2>3
    <2> HIDE DEF pv, pq
    <2>5. Desalojadas = [paginas EXCEPT ![v] = pv]
      BY <1>10 DEF pv
    <2>6. Desalojadas \in Seq(Pagina)
      BY <1>4, <2>1, <2>2, <2>5, SeqPone
    <2>7. paginas' \in Seq(Pagina)
      BY <1>2, <2>1, <2>2, <2>3, <2>4, <2>6, SeqPone
    <2>8. /\ DOMAIN paginas' = Hechas /\ paginas'[q] = pq /\ paginas'[v] = pv
          /\ \A g \in Hechas : g # q /\ g # v => paginas'[g] = paginas[g]
      BY <1>2, <1>4, <1>8, <2>2, <2>3, <2>4, <2>5
    <2>9. QED
      BY <2>1, <2>7, <2>8 DEF Hechas
  <1>12. /\ TrasClock \in [Frames -> Frame]
         /\ \A h \in Frames : /\ TrasClock[h].pagina = frames[h].pagina
                              /\ TrasClock[h].enUso = frames[h].enUso
    BY <1>1, TrasClockTipo DEF FisicaOK
  <1>13. /\ frames' \in [Frames -> Frame]
         /\ frames'[f].pagina = q
         /\ \A h \in Frames : /\ h # f => frames'[h].pagina = frames[h].pagina
                              /\ frames'[h].enUso = frames[h].enUso
         /\ \A h \in Frames : frames[h].pagina \in Hechas
    <2>1. TrasClock[f] \in Frame
      BY <1>4, <1>12
    <2>2. [TrasClock[f] EXCEPT !.pagina = q] \in Frame
      BY <1>2, <2>1 DEF Frame
    <2>3. /\ [TrasClock[f] EXCEPT !.pagina = q].pagina = q
          /\ [TrasClock[f] EXCEPT !.pagina = q].enUso = TrasClock[f].enUso
      BY <2>1 DEF Frame
    <2>4. frames' = [TrasClock EXCEPT ![f] = [TrasClock[f] EXCEPT !.pagina = q]]
      BY <1>4, <1>7, <1>12
    <2>5. \A h \in Frames : frames[h].pagina \in Hechas
      BY <1>1, <1>3 DEF FisicaOK, Frame
    <2>6. QED
      BY <1>4, <1>12, <2>2, <2>3, <2>4, <2>5
  <1>14. /\ swaps'[s] = v /\ swaps'[l] = 0
         /\ \A t \in Slots : t # s /\ t # l => swaps'[t] = swaps[t]
         /\ swaps' \in [Slots -> {0} \cup Hechas]
    BY <1>1, <1>4, <1>5, <1>6, <1>7, <1>9 DEF FisicaOK
  <1>15. EfectoTraer(f, v, s, q, l)
    BY <1>2, <1>3, <1>4, <1>5, <1>6, <1>7, <1>8, <1>9, <1>11, <1>13, <1>14
    DEF EfectoTraer
  <1>16. QED
    BY <1>15

LEMMA Trae ==
  ASSUME IInv, TraerPagina
  PROVE  IInv'
  <1>0. FisicaOK /\ UnLugar /\ MarcosUsados /\ ControlOK /\ TareaTipo
    BY Partes
  <1>1. PICK f, v, s, q, l : EfectoTraer(f, v, s, q, l)
    BY TraerHace
  <1>2. FisicaOK'
    <2>1. Frame' = Frame
      BY <1>1 DEF EfectoTraer, Frame
    <2>2. ContenidoDe(v) \in Bloques /\ disco[l] \in Bloques
      BY <1>0, <1>1 DEF EfectoTraer, ContenidoDe, FisicaOK
    <2>3. disco' \in [Slots -> Bloques] /\ memoria' \in [Frames -> Bloques]
      BY <1>0, <1>1, <2>2 DEF EfectoTraer, FisicaOK
    <2>4. punteroClock' \in Frames
      BY <1>0, <1>1, RelojSigue DEF EfectoTraer, FisicaOK
    <2>5. QED
      BY <1>1, <2>1, <2>3, <2>4 DEF EfectoTraer, FisicaOK, Bloques, Bytes
  <1>3. UnLugar'
    <2>1. \A h \in Frames : frames'[h].pagina # 0 =>
             /\ paginas'[frames'[h].pagina].ubicacion = "MP"
             /\ paginas'[frames'[h].pagina].nroframe = h
      <3> TAKE h \in Frames
      <3>1. CASE h = f
        BY <3>1, <1>1 DEF EfectoTraer
      <3>2. CASE h # f
        <4>1. /\ frames'[h].pagina = frames[h].pagina /\ frames[h].pagina # v
              /\ paginas[frames[h].pagina].ubicacion = "MP"
              /\ paginas[frames[h].pagina].nroframe = h
          BY <1>0, <3>2, <1>1 DEF UnLugar, EfectoTraer
        <4>2. paginas'[frames[h].pagina] = paginas[frames[h].pagina]
          <5>1. frames[h].pagina \in Hechas /\ frames[h].pagina # v
            BY <4>1, <1>1 DEF EfectoTraer
          <5>2. paginas[q].ubicacion = "SWAP"
            BY <1>1 DEF EfectoTraer
          <5>3. QED
            BY <4>1, <5>1, <5>2, <1>1 DEF EfectoTraer
        <4>3. QED
          BY <4>1, <4>2
      <3>3. QED
        BY <3>1, <3>2
    <2>2. \A t \in Slots : swaps'[t] # 0 => paginas'[swaps'[t]].ubicacion = "SWAP"
      <3> SUFFICES ASSUME NEW t \in Slots, swaps'[t] # 0
                   PROVE  paginas'[swaps'[t]].ubicacion = "SWAP"
        OBVIOUS
      <3>1. CASE t = s
        BY <3>1, <1>1 DEF EfectoTraer
      <3>2. CASE t # s
        <4>1. t # l /\ swaps'[t] = swaps[t] /\ swaps[t] # q
          BY <3>2, <1>1 DEF EfectoTraer
        <4>2. swaps[t] \in Hechas
          BY <1>0, <4>1, <1>1 DEF FisicaOK, EfectoTraer
        <4>3. paginas[swaps[t]].ubicacion = "SWAP" /\ swaps[t] # v
          BY <1>0, <4>1, <1>1 DEF UnLugar, EfectoTraer
        <4>4. QED
          BY <4>1, <4>2, <4>3, <1>1 DEF EfectoTraer
      <3>3. QED
        BY <3>1, <3>2
    <2>3. \A g \in Hechas' : paginas'[g].ubicacion = "SWAP" =>
             \E u \in Slots : \A t \in Slots : swaps'[t] = g <=> t = u
      <3> SUFFICES ASSUME NEW g \in Hechas, paginas'[g].ubicacion = "SWAP"
                   PROVE  \E u \in Slots : \A t \in Slots : swaps'[t] = g <=> t = u
        BY <1>1 DEF EfectoTraer
      <3>1. g # q
        BY <1>1 DEF EfectoTraer
      <3>2. CASE g = v
        <4>1. \A t \in Slots : swaps[t] # v
          BY <1>0, <1>1 DEF UnLugar, EfectoTraer
        <4>2. QED
          BY <3>2, <4>1, <1>1 DEF EfectoTraer
      <3>3. CASE g # v
        <4>1. paginas[g].ubicacion = "SWAP"
          BY <3>1, <3>3, <1>1 DEF EfectoTraer
        <4>2. PICK u \in Slots : \A t \in Slots : swaps[t] = g <=> t = u
          BY <1>0, <4>1, <1>1 DEF UnLugar, EfectoTraer
        <4>3. g # 0
          BY <1>0, <1>1, HechasNat DEF EfectoTraer
        <4>4. u # s /\ u # l
          BY <3>1, <4>2, <4>3, <1>1 DEF EfectoTraer
        <4>5. QED
          BY <3>3, <4>2, <4>3, <4>4, <1>1 DEF EfectoTraer
      <3>4. QED
        BY <3>2, <3>3
    <2>4. QED
      BY <2>1, <2>2, <2>3 DEF UnLugar
  <1>4. MarcosUsados'
    <2>1. \A h \in Frames : frames'[h].pagina # 0
      BY <1>1 DEF EfectoTraer
    <2>2. QED
      BY <2>1 DEF MarcosUsados
  <1>5. /\ Hechas' = Hechas /\ procesos' = procesos
        /\ archivosMappeados' = archivosMappeados
        /\ UNCHANGED <<tablas, tarea, muertos, vivo, pedidos>>
    BY <1>1 DEF EfectoTraer, tablas
  <1>6. ProcesosOK' /\ ArchivosOK' /\ MapaConArchivo'
    BY <1>5, Partes, ProcesosQuietos, ArchivosQuietos, MapaQuieto DEF ArchivosSiguen
  <1>7. TareaTipo' /\ ControlOK'
    BY <1>0, <1>5, TareaQuieta DEF ControlOK
  <1>8. QED
    BY <1>2, <1>3, <1>4, <1>6, <1>7, Junta

\* The bytes of the page that a walk copies are in the page and in its buffer.
LEMMA ACopiarTipo ==
  ASSUME IInv, Recorriendo, EnTabla, aCopiar >= 0
  PROVE  /\ aCopiar \in Nat /\ tarea.resta - aCopiar \in Nat
         /\ tarea.desp \in Nat /\ tarea.desp + aCopiar <= PAGE_SIZE
         /\ tarea.n \in Nat /\ tarea.resta \in Nat /\ tarea.n - tarea.resta \in Nat
  <1>1. paginas[Pag].desplazamiento \in 1..PAGE_SIZE
    BY PagEsta, Partes, HechasNat DEF Pagina
  <1>2. tarea \in TareaRecorrer
    BY PagEsta
  <1>3. /\ tarea.resta \in Positivos /\ tarea.n \in Positivos /\ tarea.desp \in Offsets
        /\ tarea.resta <= tarea.n
    BY <1>2, Partes DEF TareaTipo, TareaOK, TareaRecorrer
  <1>4. tarea.resta \in Nat /\ tarea.n \in Nat /\ tarea.desp \in Nat
    BY <1>3 DEF Positivos, Offsets
  <1>5. paginas[Pag].desplazamiento \in Nat /\ paginas[Pag].desplazamiento <= PAGE_SIZE
    BY <1>1
  <1>6. aCopiar \in Int /\ aCopiar <= tarea.resta
        /\ aCopiar <= paginas[Pag].desplazamiento - tarea.desp
    BY <1>4, <1>5 DEF aCopiar, Menor
  <1> DEFINE d == paginas[Pag].desplazamiento
  <1> HIDE DEF d
  <1>7. QED
    BY <1>3, <1>4, <1>5, <1>6, Tamanos

\* What a walk that writes leaves in the frame.
LEMMA MemoriaTipo ==
  ASSUME IInv, CopiarPagina
  PROVE  memoria' \in [Frames -> Bloques]
  <1> DEFINE f == paginas[Pag].nroframe
             h == tarea.n - tarea.resta
             b == [o \in Offsets |-> IF o - tarea.desp \in 0..aCopiar - 1
                                     THEN tarea.datos[h + o - tarea.desp + 1]
                                     ELSE memoria[f][o]]
  <1>1. Recorriendo /\ EnTabla /\ aCopiar >= 0
    BY DEF CopiarPagina
  <1>2. memoria' = memoria \/ (tarea.op = "cpy" /\ memoria' = [memoria EXCEPT ![f] = b])
    BY DEF CopiarPagina
  <1>3. memoria \in [Frames -> Bloques]
    BY Partes DEF FisicaOK
  <1>4. f \in Frames
    BY <1>1, PagEsta, Partes, HechasNat DEF Pagina
  <1>5. CASE tarea.op = "cpy" /\ memoria' = [memoria EXCEPT ![f] = b]
    <2>1. tarea.datos \in Seq(Bytes) /\ tarea.n = Len(tarea.datos)
      BY <1>1, <1>5, PagEsta, Partes DEF TareaTipo, TareaOK, TareaRecorrer
    <2>2. ASSUME NEW o \in Offsets, o - tarea.desp \in 0..aCopiar - 1
          PROVE  tarea.datos[h + o - tarea.desp + 1] \in Bytes
      <3> DEFINE k == h + o - tarea.desp + 1
      <3>1. /\ aCopiar \in Nat /\ tarea.resta - aCopiar \in Nat /\ tarea.desp \in Nat
            /\ tarea.n \in Nat /\ tarea.resta \in Nat /\ h \in Nat /\ o \in Nat
        BY <1>1, ACopiarTipo DEF Offsets
      <3>2. o - tarea.desp >= 0 /\ o - tarea.desp <= aCopiar - 1
        BY <2>2, <3>1
      <3>3. k \in Nat /\ k >= 1 /\ k <= tarea.n
        BY <3>1, <3>2
      <3> HIDE DEF k
      <3>4. k \in 1..Len(tarea.datos)
        BY <2>1, <3>1, <3>3
      <3>5. QED
        BY <2>1, <3>4, ElementOfSeq DEF k
    <2>3. memoria[f] \in Bloques
      BY <1>3, <1>4
    <2>4. b \in Bloques
      BY <2>2, <2>3 DEF Bloques
    <2> HIDE DEF b, f
    <2>5. QED
      BY <1>3, <1>5, <2>4
  <1>6. QED
    BY <1>2, <1>3, <1>5

LEMMA CopiaPagina ==
  ASSUME IInv, CopiarPagina
  PROVE  IInv'
  <1> DEFINE f == paginas[Pag].nroframe
             parte == [k \in 1..aCopiar |-> memoria[f][tarea.desp + k - 1]]
             resta == tarea.resta - aCopiar
             datos == IF tarea.op = "cpy" THEN tarea.datos ELSE tarea.datos \o parte
             t == [Avanzar EXCEPT !.resta = resta, !.datos = datos]
  <1>1. Recorriendo /\ EnTabla /\ aCopiar >= 0
    BY DEF CopiarPagina
  <1>2. /\ FisicaOK /\ UnLugar /\ MarcosUsados /\ ControlOK /\ TareaTipo
        /\ tarea \in TareaRecorrer /\ tarea.id \in DOMAIN procesos /\ Pag \in Hechas
    BY <1>1, Partes, PagEsta
  <1>3. UNCHANGED <<paginas, frames, swaps, disco, punteroClock, procesos, pedidos>>
    BY DEF CopiarPagina
  <1>4. FisicaOK' /\ Hechas' = Hechas
    <2>1. Hechas' = Hechas /\ Frame' = Frame
      BY <1>3 DEF Hechas, Frame
    <2>2. QED
      BY <1>2, <1>3, <2>1, MemoriaTipo DEF FisicaOK, Bloques, Bytes
  <1>5. UnLugar' /\ MarcosUsados'
    BY <1>2, <1>3, <1>4 DEF UnLugar, MarcosUsados
  <1>6. /\ aCopiar \in Nat /\ resta \in Nat /\ tarea.desp \in Nat
        /\ tarea.desp + aCopiar <= PAGE_SIZE /\ tarea.resta \in Nat /\ tarea.n \in Nat
        /\ tarea.n - tarea.resta \in Nat
    BY <1>1, ACopiarTipo
  <1>7. /\ tarea.datos \in Seq(Bytes) /\ tarea.op \in {"cpy", "get", "sync"}
        /\ tarea.op = "cpy" => tarea.n = Len(tarea.datos)
        /\ tarea.op = "sync" => tarea.path \in DOMAIN archivosMappeados
        /\ tarea.seg \in DOMAIN Segs(tarea.id) /\ tarea.nro \in Positivos
    BY <1>2 DEF TareaTipo, TareaOK, TareaRecorrer
  <1>8. datos \in Seq(Bytes)
    <2>1. f \in Frames
      BY <1>2, HechasNat DEF Pagina
    <2>2. memoria[f] \in [Offsets -> Bytes]
      BY <1>2, <2>1 DEF FisicaOK, Bloques
    <2>3. ASSUME NEW k \in 1..aCopiar
          PROVE  memoria[f][tarea.desp + k - 1] \in Bytes
      <3>1. tarea.desp + k - 1 \in Offsets
        BY <1>6, Tamanos DEF Offsets
      <3>2. QED
        BY <2>2, <3>1
    <2> HIDE DEF f
    <2>4. parte \in Seq(Bytes)
      <3>1. parte \in [1..aCopiar -> Bytes]
        BY <2>3
      <3> HIDE DEF parte
      <3>2. QED
        BY <1>6, <3>1
    <2> HIDE DEF parte
    <2>5. QED
      BY <1>7, <2>4, ConcatProperties
  <1>9. \/ resta > 0 /\ Empezar(t) /\ UNCHANGED archivosMappeados
        \/ /\ Contestar(tarea.op, tarea.id, tarea.dir, tarea.n, 0, datos)
           /\ \/ tarea.op = "sync" /\ Volcado(tarea.path, datos, tarea.len)
              \/ UNCHANGED archivosMappeados
    BY DEF CopiarPagina
  <1>10. resta > 0 => resta \in Positivos /\ resta <= tarea.n
    BY <1>6 DEF Positivos
  <1>11. tarea.op = "cpy" => datos = tarea.datos
    OBVIOUS
  <1> HIDE DEF f, resta, datos
  <1>12. CASE resta > 0 /\ Empezar(t) /\ UNCHANGED archivosMappeados
    <2>1. ProcesosOK' /\ ArchivosOK' /\ MapaConArchivo'
      BY <1>3, <1>4, <1>12, Partes, ProcesosQuietos, ArchivosQuietos, MapaQuieto
      DEF ArchivosSiguen
    <2>2. tarea' = t /\ vivo' \in BOOLEAN /\ muertos' \subseteq Ids
      BY <1>2, <1>12, Empieza
    <2>3. tarea.nro + 1 \in Positivos /\ 0 \in Offsets
      BY <1>7, Tamanos DEF Positivos, Offsets
    <2>4. Avanzar = [tarea EXCEPT !.nro = tarea.nro + 1, !.desp = 0]
      BY DEF Avanzar
    <2>5. Avanzar \in TareaRecorrer /\ Avanzar.op = tarea.op /\ Avanzar.id = tarea.id
          /\ Avanzar.seg = tarea.seg /\ Avanzar.path = tarea.path /\ Avanzar.n = tarea.n
      BY <1>2, <2>3, <2>4 DEF TareaRecorrer
    <2>6. /\ t \in TareaRecorrer /\ t.op = tarea.op /\ t.id = tarea.id /\ t.n = tarea.n
          /\ t.seg = tarea.seg /\ t.path = tarea.path /\ t.resta = resta /\ t.datos = datos
      BY <1>8, <1>10, <1>12, <2>5 DEF TareaRecorrer
    <2>7. /\ t \in TareaRecorrer' /\ t \notin TareaCrear' \cup TareaCrecer'
          /\ procesos' = procesos /\ archivosMappeados' = archivosMappeados
      BY <1>3, <1>7, <1>12, <2>6 DEF TareaRecorrer, TareaCrear, TareaCrecer, Bytes
    <2> HIDE DEF t
    <2>8. TareaOK'
      BY <1>7, <1>10, <1>11, <1>12, <2>2, <2>6, <2>7 DEF TareaOK, Segs
    <2>9. QED
      BY <1>2, <1>3, <1>4, <1>5, <2>1, <2>2, <2>7, <2>8, Junta DEF TareaTipo, ControlOK
  <1>13. CASE /\ Contestar(tarea.op, tarea.id, tarea.dir, tarea.n, 0, datos)
              /\ \/ tarea.op = "sync" /\ Volcado(tarea.path, datos, tarea.len)
                 \/ UNCHANGED archivosMappeados
    <2>1. ArchivosOK' /\ ArchivosSiguen
      <3>1. CASE tarea.op = "sync" /\ Volcado(tarea.path, datos, tarea.len)
        BY <1>4, <1>7, <1>8, <3>1, Partes, VolcadoTipo
      <3>2. CASE UNCHANGED archivosMappeados
        BY <1>4, <3>2, Partes, ArchivosQuietos DEF ArchivosSiguen
      <3>3. QED
        BY <1>13, <3>1, <3>2
    <2>2. ProcesosOK' /\ MapaConArchivo'
      BY <1>3, <1>4, <2>1, Partes, ProcesosQuietos, MapaQuieto
    <2>3. tarea.id \in Ids
      BY <1>2, Partes DEF ProcesosOK
    <2>4. TareaTipo' /\ ControlOK'
      BY <1>2, <1>3, <1>13, <2>3, Contesta DEF ControlOK
    <2>5. QED
      BY <1>4, <1>5, <2>1, <2>2, <2>4, Junta
  <1>14. QED
    BY <1>9, <1>12, <1>13

(***************************************************************************)
(* The theorem.                                                            *)
(***************************************************************************)
LEMMA Paso ==
  IInv /\ [Next]_vars => IInv'
  <1> SUFFICES ASSUME IInv, [Next]_vars PROVE IInv'
    OBVIOUS
  <1>1. Direcciones \subseteq Nat /\ Largos \subseteq Positivos
    BY MuseConstantes DEF Positivos
  <1>2. pedidos \in 0..MaxPedidos
    BY Partes DEF ControlOK
  <1>3. CASE Atender
    <2>1. CASE CrearEnLibre
      BY <2>1, LibreCrea
    <2>2. CASE CrearDesalojando
      BY <2>2, DesalojaCrea
    <2>3. CASE TraerPagina
      BY <2>3, Trae
    <2>4. CASE CopiarPagina
      BY <2>4, CopiaPagina
    <2>5. CASE SwapLleno
      BY <1>2, <2>5, Cae DEF SwapLleno
    <2>6. CASE FueraDeTabla
      BY <1>2, <2>6, Cae DEF FueraDeTabla
    <2>7. QED
      BY <1>3, <2>1, <2>2, <2>3, <2>4, <2>5, <2>6 DEF Atender
  <1>4. ASSUME NEW id \in Ids, Pedir(id)
        PROVE  IInv'
    <2>1. CASE muse_init(id)
      BY <2>1, Inicio
    <2>2. CASE muse_close(id)
      BY <2>2, Cierre
    <2>3. CASE \E n \in Largos : muse_alloc(id, n)
      BY <1>1, <2>3, Reserva
    <2>4. CASE \E n \in Largos, path \in Archivos, flag \in {"PRIVATE", "SHARED"} :
                  muse_map(id, path, n, flag)
      BY <1>1, <2>4, Mapeo
    <2>5. CASE \E dir \in Direcciones : muse_free(id, dir)
      BY <1>1, <2>5, Liberacion
    <2>6. CASE \E dir \in Direcciones : muse_unmap(id, dir)
      BY <1>1, <2>6, Desmapeo
    <2>7. CASE \E dir \in Direcciones, texto \in Textos : muse_cpy(id, dir, texto)
      BY <1>1, <2>7, Copia
    <2>8. CASE \E dir \in Direcciones, n \in Largos : muse_get(id, dir, n)
      BY <1>1, <2>8, Lectura
    <2>9. CASE \E dir \in Direcciones, n \in Largos : muse_sync(id, dir, n)
      BY <1>1, <2>9, Sincronizacion
    <2>10. QED
      BY <1>4, <2>1, <2>2, <2>3, <2>4, <2>5, <2>6, <2>7, <2>8, <2>9 DEF Pedir
  <1>5. CASE UNCHANGED vars
    <2>1. UNCHANGED <<fisica, tablas>> /\ UNCHANGED <<tarea, vivo, muertos, pedidos>>
      BY <1>5 DEF vars
    <2>2. TareaTipo' /\ ControlOK'
      BY <2>1, DatosQuietos, Partes, TareaQuieta DEF ControlOK
    <2>3. QED
      BY <2>1, <2>2, DatosQuietos, Junta
  <1>6. QED
    BY <1>3, <1>4, <1>5 DEF Next

\* In every run of the server, whatever the clients call and however much the
\* swap file is used, the tables keep their types, every page is in one place,
\* the clock has a victim whenever it needs one and every mapped segment has its
\* file (crearPagina, muse_copy, muse_get, obtenerFrameLibre, muse_map,
\* muse_sync, muse_unmap).
THEOREM Invariante == Spec => []IInv
  <1>1. Init => IInv
    BY Inicial
  <1>2. IInv /\ [Next]_vars => IInv'
    BY Paso
  <1>3. QED
    BY <1>1, <1>2, PTL DEF Spec

(***************************************************************************)
(* While nobody closes, a frame belongs to one page.                       *)
(***************************************************************************)
Dueno ==
    /\ \A g \in Hechas : paginas[g].ubicacion = "MP" =>
          frames[paginas[g].nroframe].pagina = g
    /\ \A f \in Frames : frames[f].pagina # 0 => frames[f].enUso

LEMMA DuenoQuieto ==
  ASSUME Dueno, UNCHANGED fisica
  PROVE  Dueno'
  BY DEF Dueno, fisica, Hechas

LEMMA DuenoAgranda ==
  ASSUME IInv, Dueno, NEW id \in DOMAIN procesos, NEW segs \in Ordenes(Segs(id)),
         NEW i \in DOMAIN segs, NEW tam, agrandarSegmento(id, segs, i, tam)
  PROVE  Dueno'
  <1> DEFINE g == Last(segs[i].tablaPaginas)
  <1>1. segs \in Seq(Segmento)
    BY OrdenTipo, Partes DEF ProcesosOK, Segs
  <1>2. segs[i] \in Segmento
    BY <1>1
  <1>3. g \in Hechas
    BY <1>2, UltimaEsta DEF Segmento
  <1>4. paginas' = [paginas EXCEPT ![g].desplazamiento = PAGE_SIZE] /\ UNCHANGED frames
    BY DEF agrandarSegmento
  <1> HIDE DEF g
  <1>5. Hechas' = Hechas
    BY <1>4 DEF Hechas
  <1>6. \A h \in Hechas : /\ paginas'[h].ubicacion = paginas[h].ubicacion
                           /\ paginas'[h].nroframe = paginas[h].nroframe
    BY <1>3, <1>4, Partes, HechasNat DEF Hechas, Pagina
  <1>7. QED
    BY <1>4, <1>5, <1>6 DEF Dueno

\* No request but muse_close disturbs it.
LEMMA DuenoPedir ==
  ASSUME IInv, Dueno, NEW id \in Ids, Pedir(id), "close" \notin Pedidos
  PROVE  Dueno'
  <1>1. ~muse_close(id)
    BY DEF muse_close, Llamar, Recibir
  <1>2. CASE UNCHANGED fisica
    BY <1>2, DuenoQuieto
  <1>3. CASE \E n \in Largos : muse_alloc(id, n)
    <2>1. PICK n \in Largos : muse_alloc(id, n)
      BY <1>3
    <2>2. PICK segs \in Ordenes(Segs(id)) :
            \/ UNCHANGED fisica
            \/ /\ segmentoAgrandar(segs, n, "HEAP") # 0
               /\ agrandarSegmento(id, segs, segmentoAgrandar(segs, n, "HEAP"), n)
      BY <2>1 DEF muse_alloc, crearNuevoSegmento, Caer
    <2>3. id \in DOMAIN procesos
      BY <2>1 DEF muse_alloc, Llamar
    <2>4. segs \in Seq(Segmento)
      BY <2>3, OrdenTipo, Partes DEF ProcesosOK, Segs
    <2>5. QED
      BY <1>2, <2>2, <2>3, <2>4, AgrandableEsta, DuenoAgranda
  <1>4. CASE muse_init(id)
    BY <1>2, <1>4 DEF muse_init
  <1>5. CASE \E n \in Largos, path \in Archivos, flag \in {"PRIVATE", "SHARED"} :
                muse_map(id, path, n, flag)
    BY <1>2, <1>5 DEF muse_map, crearNuevoSegmento
  <1>6. CASE \E dir \in Direcciones : muse_free(id, dir)
    BY <1>2, <1>6 DEF muse_free, Caer
  <1>7. CASE \E dir \in Direcciones : muse_unmap(id, dir)
    BY <1>2, <1>7 DEF muse_unmap
  <1>8. CASE \E dir \in Direcciones, texto \in Textos : muse_cpy(id, dir, texto)
    BY <1>2, <1>8 DEF muse_cpy
  <1>9. CASE \E dir \in Direcciones, n \in Largos : muse_get(id, dir, n)
    BY <1>2, <1>9 DEF muse_get
  <1>10. CASE \E dir \in Direcciones, n \in Largos : muse_sync(id, dir, n)
    BY <1>2, <1>10 DEF muse_sync, Caer
  <1>11. QED
    BY <1>1, <1>3, <1>4, <1>5, <1>6, <1>7, <1>8, <1>9, <1>10 DEF Pedir

\* A page made in a frame that nobody uses: no page was there.
LEMMA DuenoLibre ==
  ASSUME IInv, Dueno, CrearEnLibre
  PROVE  Dueno'
  <1> DEFINE f == Minimo(FramesLibres)
             n == Len(paginas) + 1
             nueva == [nroframe |-> f, ubicacion |-> "MP",
                       desplazamiento |-> Menor(tarea.resta, PAGE_SIZE)]
             marco == [pagina |-> n, bitUso |-> TRUE, bitMod |-> TRUE, enUso |-> TRUE]
  <1>1. f \in Frames /\ ~frames[f].enUso
    BY MarcosSlots, MinimoEsta DEF CrearEnLibre, FramesLibres
  <1>2. frames[f].pagina = 0
    BY <1>1 DEF Dueno
  <1>3. paginas' = Append(paginas, nueva) /\ frames' = [frames EXCEPT ![f] = marco]
    BY DEF CrearEnLibre, crearPagina
  <1> HIDE DEF f
  <1>4. /\ nueva.nroframe = f /\ marco.pagina = n /\ marco.enUso
    OBVIOUS
  <1> HIDE DEF nueva, marco
  <1>5. /\ Hechas' = Hechas \cup {n} /\ n \notin Hechas /\ paginas'[n] = nueva
        /\ \A g \in Hechas : paginas'[g] = paginas[g] /\ paginas[g].nroframe \in Frames /\ g # 0
    <2>1. /\ paginas \in Seq(Pagina) /\ Len(paginas) \in Nat
          /\ \A g \in Hechas : paginas[g].nroframe \in Frames /\ g # 0
      BY Partes, HechasNat DEF FisicaOK, Pagina
    <2>2. QED
      BY <1>3, <2>1 DEF Hechas
  <1>6. frames'[f] = marco /\ \A h \in Frames : h # f => frames'[h] = frames[h]
    BY <1>1, <1>3, Partes DEF FisicaOK
  <1> HIDE DEF n
  <1>7. \A g \in Hechas' : paginas'[g].ubicacion = "MP" =>
           frames'[paginas'[g].nroframe].pagina = g
    <2> SUFFICES ASSUME NEW g \in Hechas', paginas'[g].ubicacion = "MP"
                 PROVE  frames'[paginas'[g].nroframe].pagina = g
      OBVIOUS
    <2>1. CASE g = n
      BY <2>1, <1>4, <1>5, <1>6
    <2>2. CASE g # n
      <3>1. frames[paginas[g].nroframe].pagina = g
        BY <2>2, <1>5 DEF Dueno
      <3>2. paginas[g].nroframe # f
        BY <2>2, <3>1, <1>2, <1>5
      <3>3. QED
        BY <2>2, <3>1, <3>2, <1>5, <1>6
    <2>3. QED
      BY <2>1, <2>2
  <1>8. \A h \in Frames : frames'[h].pagina # 0 => frames'[h].enUso
    BY <1>4, <1>6 DEF Dueno
  <1>9. QED
    BY <1>7, <1>8 DEF Dueno

\* A page made in the frame of a victim: the victim is not in memory any more.
LEMMA DuenoDesaloja ==
  ASSUME IInv, Dueno, CrearDesalojando
  PROVE  Dueno'
  <1>1. PICK f, v, s, n : EfectoDesalojar(f, v, s, n)
    BY DesalojarHace
  <1>2. \A g \in Hechas' : paginas'[g].ubicacion = "MP" =>
           frames'[paginas'[g].nroframe].pagina = g
    <2> SUFFICES ASSUME NEW g \in Hechas', paginas'[g].ubicacion = "MP"
                 PROVE  frames'[paginas'[g].nroframe].pagina = g
      OBVIOUS
    <2>1. CASE g = n
      BY <1>1, <2>1 DEF EfectoDesalojar
    <2>2. CASE g # n
      <3>1. g \in Hechas /\ g # v /\ paginas'[g] = paginas[g]
        BY <1>1, <2>2 DEF EfectoDesalojar
      <3>2. paginas[g].nroframe \in Frames
        BY <3>1, Partes, HechasNat DEF Pagina
      <3>3. frames[paginas[g].nroframe].pagina = g
        BY <3>1 DEF Dueno
      <3>4. frames[f].pagina = v
        <4>1. frames[paginas[v].nroframe].pagina = v
          BY <1>1 DEF Dueno, EfectoDesalojar
        <4>2. QED
          BY <1>1, <4>1 DEF EfectoDesalojar
      <3>5. paginas[g].nroframe # f
        BY <3>1, <3>3, <3>4
      <3>6. QED
        BY <1>1, <3>1, <3>2, <3>3, <3>5 DEF EfectoDesalojar
    <2>3. QED
      BY <2>1, <2>2
  <1>3. \A h \in Frames : frames'[h].pagina # 0 => frames'[h].enUso
    BY <1>1 DEF Dueno, EfectoDesalojar
  <1>4. QED
    BY <1>2, <1>3 DEF Dueno

LEMMA DuenoTrae ==
  ASSUME IInv, Dueno, TraerPagina
  PROVE  Dueno'
  <1>1. PICK f, v, s, q, l : EfectoTraer(f, v, s, q, l)
    BY TraerHace
  <1>2. \A g \in Hechas' : paginas'[g].ubicacion = "MP" =>
           frames'[paginas'[g].nroframe].pagina = g
    <2> SUFFICES ASSUME NEW g \in Hechas, paginas'[g].ubicacion = "MP"
                 PROVE  frames'[paginas'[g].nroframe].pagina = g
      BY <1>1 DEF EfectoTraer
    <2>1. CASE g = q
      BY <1>1, <2>1 DEF EfectoTraer
    <2>2. CASE g # q
      <3>1. g # v /\ paginas'[g] = paginas[g]
        BY <1>1, <2>2 DEF EfectoTraer
      <3>2. paginas[g].nroframe \in Frames
        BY <3>1, Partes, HechasNat DEF Pagina
      <3>3. frames[paginas[g].nroframe].pagina = g
        BY <3>1 DEF Dueno
      <3>4. frames[paginas[v].nroframe].pagina = v /\ paginas[v].nroframe = f
        BY <1>1 DEF Dueno, EfectoTraer
      <3>5. paginas[g].nroframe # f
        BY <3>1, <3>3, <3>4
      <3>6. QED
        BY <1>1, <3>1, <3>2, <3>3, <3>5 DEF EfectoTraer
    <2>3. QED
      BY <2>1, <2>2
  <1>3. \A h \in Frames : frames'[h].enUso
    BY <1>1 DEF Dueno, EfectoTraer
  <1>4. QED
    BY <1>2, <1>3 DEF Dueno

LEMMA DuenoPaso ==
  ASSUME "close" \notin Pedidos
  PROVE  IInv /\ Dueno /\ [Next]_vars => Dueno'
  <1> SUFFICES ASSUME IInv, Dueno, [Next]_vars PROVE Dueno'
    OBVIOUS
  <1>1. CASE UNCHANGED fisica
    BY <1>1, DuenoQuieto
  <1>2. CASE UNCHANGED <<paginas, frames>>
    BY <1>2 DEF Dueno, Hechas
  <1>3. CASE Atender
    <2>1. CASE CopiarPagina
      BY <1>2, <2>1 DEF CopiarPagina
    <2>2. CASE SwapLleno \/ FueraDeTabla
      BY <1>1, <2>2 DEF SwapLleno, FueraDeTabla, Caer
    <2>3. QED
      BY <1>3, <2>1, <2>2, DuenoLibre, DuenoDesaloja, DuenoTrae DEF Atender
  <1>4. CASE UNCHANGED vars
    BY <1>1, <1>4 DEF vars
  <1>5. QED
    BY <1>3, <1>4, DuenoPedir DEF Next

LEMMA DuenoBasta ==
  IInv /\ Dueno => FramePropio
  <1> SUFFICES ASSUME IInv, Dueno, NEW g \in EnMemoria, NEW h \in EnMemoria, g # h
               PROVE  paginas[g].nroframe # paginas[h].nroframe
    BY DEF FramePropio
  <1>1. \A id \in DOMAIN procesos : PaginasDe(id) \subseteq Hechas
    <2> SUFFICES ASSUME NEW id \in DOMAIN procesos, NEW i \in DOMAIN Segs(id)
                 PROVE  ToSet(Segs(id)[i].tablaPaginas) \subseteq Hechas
      BY DEF PaginasDe
    <2>1. Segs(id)[i] \in Segmento
      BY Partes DEF ProcesosOK, Segs
    <2>2. Segs(id)[i].tablaPaginas \in Seq(Hechas)
      BY <2>1 DEF Segmento
    <2>3. QED
      BY <2>2 DEF ToSet
  <1>2. EnMemoria \subseteq Hechas
    BY <1>1 DEF EnMemoria
  <1>3. frames[paginas[g].nroframe].pagina = g /\ frames[paginas[h].nroframe].pagina = h
    BY <1>2 DEF Dueno, EnMemoria
  <1>4. QED
    BY <1>3

\* While no client closes, no two pages in memory of the open processes share a
\* frame, whatever is created, evicted and brought back (obtenerFrameLibre,
\* muse_copy, muse_get).  muse_close is what breaks it: it frees the frame that
\* each page of the process held last, whoever has it now (quitarUsuario).
THEOREM FramePropioSinCierres ==
  ASSUME "close" \notin Pedidos
  PROVE  Spec => []FramePropio
  <1>1. Init => Dueno
    BY DEF Init, Dueno, Hechas
  <1>2. IInv /\ Dueno /\ [Next]_vars => Dueno'
    BY DuenoPaso
  <1>3. IInv /\ Dueno => FramePropio
    BY DuenoBasta
  <1>4. Spec => []IInv
    BY Invariante
  <1>5. QED
    BY <1>1, <1>2, <1>3, <1>4, PTL DEF Spec

(***************************************************************************)
(* The pages of a segment cover it.                                        *)
(***************************************************************************)
\* All the pages of a table but the last are full, and no page is twice in it.
Llena(t) == \A j \in 1..Len(t) - 1 : paginas[t[j]].desplazamiento = PAGE_SIZE
Distintas(t) == \A j, k \in DOMAIN t : t[j] = t[k] => j = k

Forma(seg) ==
    /\ seg.tamano > 0
    /\ seg.tipo = "HEAP" => seg.metadatas # {}
    /\ Llena(seg.tablaPaginas) /\ Distintas(seg.tablaPaginas)

Cubre(seg) ==
    (Len(seg.tablaPaginas) - 1) * PAGE_SIZE
        + paginas[Last(seg.tablaPaginas)].desplazamiento >= seg.tamano

\* The segment that alloc enlarged has its new size, and not yet its new pages.
Creciendo(id, i) ==
    tarea # Nada /\ tarea.op = "crecer" /\ tarea.id = id /\ tarea.seg = i
PorCrecer(seg, resta) ==
    /\ paginas[Last(seg.tablaPaginas)].desplazamiento = PAGE_SIZE
    /\ Len(seg.tablaPaginas) * PAGE_SIZE + resta >= seg.tamano

\* The pages that were made for a segment that is not there yet.
PorCrear(pags, resta, tam) ==
    /\ \A j \in DOMAIN pags : paginas[pags[j]].desplazamiento = PAGE_SIZE
    /\ Distintas(pags)
    /\ Len(pags) * PAGE_SIZE + resta = tam

Paginada(id, i) ==
    /\ Forma(procesos[id][i])
    /\ procesos[id][i].metadatas = {} \/ Creciendo(id, i) \/ Cubre(procesos[id][i])
SegmentosPaginados == \A id \in DOMAIN procesos : \A i \in DOMAIN procesos[id] : Paginada(id, i)
ArchivoPaginado(p) == Llena(archivosMappeados[p].paginas) /\ Distintas(archivosMappeados[p].paginas)
ArchivosPaginados == \A p \in DOMAIN archivosMappeados : ArchivoPaginado(p)
TareaPaginada ==
    /\ tarea # Nada /\ tarea.op = "crecer" =>
          PorCrecer(procesos[tarea.id][tarea.seg], tarea.resta)
    /\ tarea # Nada /\ tarea.op = "crear" =>
          PorCrear(tarea.pags, tarea.resta, tarea.tam)
Paginado == SegmentosPaginados /\ ArchivosPaginados /\ TareaPaginada

\* Pages are only filled.
SeLlenan ==
    \A g \in Hechas :
        /\ g \in Hechas'
        /\ \/ paginas'[g].desplazamiento = paginas[g].desplazamiento
           \/ paginas'[g].desplazamiento = PAGE_SIZE

LEMMA LlenaSigue ==
  ASSUME FisicaOK, SeLlenan, NEW t \in Seq(Hechas), Llena(t)
  PROVE  Llena(t)'
  <1>1. \A j \in 1..Len(t) - 1 : t[j] \in Hechas
    BY LenProperties, ElementOfSeq
  <1>2. QED
    BY <1>1 DEF Llena, SeLlenan

LEMMA CubreSigue ==
  ASSUME FisicaOK, SeLlenan, NEW seg \in Segmento, Cubre(seg)
  PROVE  Cubre(seg)'
  <1> DEFINE t == seg.tablaPaginas
             g == Last(t)
             a == (Len(t) - 1) * PAGE_SIZE
  <1>1. t \in Seq(Hechas) \ {<<>>} /\ seg.tamano \in Nat
    BY DEF Segmento
  <1>2. g \in Hechas /\ Len(t) \in Nat
    BY <1>1, UltimaEsta
  <1>3. paginas[g].desplazamiento \in 1..PAGE_SIZE /\ PAGE_SIZE \in Nat
    BY <1>2, HechasNat, Tamanos DEF Pagina
  <1>4. a \in Int
    BY <1>2, Tamanos
  <1>5. a + paginas[g].desplazamiento >= seg.tamano
    BY DEF Cubre
  <1>6. \/ paginas'[g].desplazamiento = paginas[g].desplazamiento
        \/ paginas'[g].desplazamiento = PAGE_SIZE
    BY <1>2 DEF SeLlenan
  <1>7. a + paginas'[g].desplazamiento >= seg.tamano
    <2> HIDE DEF a, g
    <2>1. QED
      BY <1>1, <1>3, <1>4, <1>5, <1>6
  <1>8. QED
    BY <1>7 DEF Cubre

LEMMA FormaSigue ==
  ASSUME FisicaOK, SeLlenan, NEW seg \in Segmento, Forma(seg)
  PROVE  Forma(seg)'
  <1>1. seg.tablaPaginas \in Seq(Hechas)
    BY DEF Segmento
  <1>2. Llena(seg.tablaPaginas)'
    BY <1>1, LlenaSigue DEF Forma
  <1>3. Distintas(seg.tablaPaginas)'
    BY DEF Forma, Distintas
  <1>4. QED
    BY <1>2, <1>3 DEF Forma

\* A segment with the same size, pages and blocks is paged as before.
Igual(a, b) == /\ a.tamano = b.tamano /\ a.tipo = b.tipo
               /\ a.tablaPaginas = b.tablaPaginas /\ a.metadatas = b.metadatas

LEMMA SegmentosSiguen ==
  ASSUME IInv, Paginado, SeLlenan,
         \A id \in DOMAIN procesos' : \A i \in DOMAIN procesos'[id] :
            \/ /\ id \in DOMAIN procesos
               /\ \E j \in DOMAIN procesos[id] :
                     ~Creciendo(id, j) /\ Igual(procesos'[id][i], procesos[id][j])
            \/ Paginada(id, i)'
  PROVE  SegmentosPaginados'
  <1> SUFFICES ASSUME NEW id \in DOMAIN procesos', NEW i \in DOMAIN procesos'[id]
               PROVE  Paginada(id, i)'
    BY DEF SegmentosPaginados
  <1>1. CASE /\ id \in DOMAIN procesos
             /\ \E j \in DOMAIN procesos[id] :
                   ~Creciendo(id, j) /\ Igual(procesos'[id][i], procesos[id][j])
    <2>1. PICK j \in DOMAIN procesos[id] :
             ~Creciendo(id, j) /\ Igual(procesos'[id][i], procesos[id][j])
      BY <1>1
    <2>2. PICK seg : seg = procesos[id][j]
      OBVIOUS
    <2>3. PICK nuevo : nuevo = procesos'[id][i]
      OBVIOUS
    <2>4. seg \in Segmento /\ FisicaOK
      BY <1>1, <2>2, Partes DEF ProcesosOK
    <2>5. Forma(seg) /\ (seg.metadatas = {} \/ Cubre(seg))
      BY <1>1, <2>1, <2>2 DEF Paginado, SegmentosPaginados, Paginada
    <2>6. Forma(seg)' /\ (seg.metadatas = {} \/ Cubre(seg)')
      BY <2>4, <2>5, FormaSigue, CubreSigue
    <2>7. Igual(nuevo, seg)
      BY <2>1, <2>2, <2>3
    <2>8. Forma(nuevo)' /\ (nuevo.metadatas = {} \/ Cubre(nuevo)')
      BY <2>6, <2>7 DEF Igual, Forma, Cubre
    <2>9. QED
      BY <2>3, <2>8 DEF Paginada, Forma, Cubre, Llena, Distintas
  <1>2. QED
    BY <1>1

LEMMA ArchivosPaginan ==
  ASSUME IInv, Paginado, SeLlenan,
         \A p \in DOMAIN archivosMappeados' :
            \/ /\ p \in DOMAIN archivosMappeados
               /\ archivosMappeados'[p].paginas = archivosMappeados[p].paginas
            \/ ArchivoPaginado(p)'
  PROVE  ArchivosPaginados'
  <1> SUFFICES ASSUME NEW p \in DOMAIN archivosMappeados'
               PROVE  ArchivoPaginado(p)'
    BY DEF ArchivosPaginados
  <1>1. CASE /\ p \in DOMAIN archivosMappeados
             /\ archivosMappeados'[p].paginas = archivosMappeados[p].paginas
    <2>1. PICK t : t = archivosMappeados[p].paginas
      OBVIOUS
    <2>2. t \in Seq(Hechas) /\ FisicaOK
      BY <1>1, <2>1, Partes DEF ArchivosOK, Archivo
    <2>3. Llena(t) /\ Distintas(t)
      BY <1>1, <2>1 DEF Paginado, ArchivosPaginados, ArchivoPaginado
    <2>4. Llena(t)' /\ Distintas(t)'
      BY <2>2, <2>3, LlenaSigue DEF Distintas
    <2>5. QED
      BY <1>1, <2>1, <2>4 DEF ArchivoPaginado, Llena, Distintas
  <1>2. QED
    BY <1>1

LEMMA LlenanQuietas ==
  ASSUME UNCHANGED paginas
  PROVE  SeLlenan /\ Hechas' = Hechas
  BY DEF SeLlenan, Hechas

\* No page is being made for a segment, before or after the step.
SinCrecer == tarea = Nada \/ tarea.op # "crecer"
SinCrear == tarea = Nada \/ tarea.op \notin {"crear", "crecer"}

LEMMA PaginadoSigue ==
  ASSUME IInv, Paginado, SeLlenan, SinCrecer, SinCrear',
         \A id \in DOMAIN procesos' : \A i \in DOMAIN procesos'[id] :
            \/ /\ id \in DOMAIN procesos
               /\ \E j \in DOMAIN procesos[id] : Igual(procesos'[id][i], procesos[id][j])
            \/ Paginada(id, i)',
         \A p \in DOMAIN archivosMappeados' :
            \/ /\ p \in DOMAIN archivosMappeados
               /\ archivosMappeados'[p].paginas = archivosMappeados[p].paginas
            \/ ArchivoPaginado(p)'
  PROVE  Paginado'
  <1>1. \A id, j : ~Creciendo(id, j)
    BY DEF SinCrecer, Creciendo
  <1>2. SegmentosPaginados'
    BY <1>1, SegmentosSiguen
  <1>3. ArchivosPaginados'
    BY ArchivosPaginan
  <1>4. TareaPaginada'
    BY DEF SinCrear, TareaPaginada
  <1>5. QED
    BY <1>2, <1>3, <1>4 DEF Paginado

\* Neither pages nor segments change.
LEMMA PaginadoQuieto ==
  ASSUME IInv, Paginado, UNCHANGED <<paginas, procesos, archivosMappeados>>,
         SinCrecer, SinCrear'
  PROVE  Paginado'
  BY LlenanQuietas, PaginadoSigue DEF Igual

LEMMA PaginadoCae ==
  ASSUME Paginado, UNCHANGED <<paginas, procesos, archivosMappeados, tarea>>
  PROVE  Paginado'
  BY DEF Paginado, SegmentosPaginados, Paginada, Forma, Cubre, Llena, Distintas,
         ArchivosPaginados, ArchivoPaginado, TareaPaginada, PorCrecer, PorCrear, Creciendo

LEMMA Llamado ==
  ASSUME NEW op, Recibir(op)
  PROVE  SinCrecer /\ tarea = Nada
  BY DEF Recibir, SinCrecer

LEMMA ContestaPag ==
  ASSUME NEW op, NEW id, NEW dir, NEW n, NEW res, NEW datos,
         Contestar(op, id, dir, n, res, datos)
  PROVE  SinCrear' /\ tarea' = Nada
  BY DEF Contestar, SinCrear, Nada

LEMMA RecorrePag ==
  ASSUME NEW op \in {"cpy", "get", "sync"}, NEW id, NEW dir, NEW n, NEW datos, NEW path, NEW len,
         Recorrer(op, id, dir, n, datos, path, len)
  PROVE  SinCrear'
  BY DEF Recorrer, Empezar, SinCrear

LEMMA PaginadoInicio ==
  ASSUME IInv, Paginado, NEW id \in Ids, muse_init(id)
  PROVE  Paginado'
  <1>1. /\ UNCHANGED fisica /\ archivosMappeados' = archivosMappeados
        /\ procesos' = [i \in DOMAIN procesos \cup {id} |->
                          IF i = id THEN <<>> ELSE procesos[i]]
        /\ SinCrecer /\ SinCrear'
    BY Llamado, ContestaPag DEF muse_init
  <1>2. ASSUME NEW j \in DOMAIN procesos', NEW i \in DOMAIN procesos'[j]
        PROVE  j \in DOMAIN procesos /\ procesos'[j] = procesos[j]
    BY <1>1
  <1>3. SeLlenan
    BY <1>1, LlenanQuietas DEF fisica
  <1>4. QED
    BY <1>1, <1>2, <1>3, PaginadoSigue DEF Igual

LEMMA PaginadoCierre ==
  ASSUME IInv, Paginado, NEW id \in Ids, muse_close(id)
  PROVE  Paginado'
  <1>1. /\ paginas' = paginas /\ archivosMappeados' = archivosMappeados
        /\ procesos' = [i \in DOMAIN procesos \ {id} |-> procesos[i]]
        /\ tarea' = Nada /\ SinCrecer
    BY Llamado DEF muse_close, Restrict, Empezar, Llamar
  <1>2. ASSUME NEW j \in DOMAIN procesos'
        PROVE  j \in DOMAIN procesos /\ procesos'[j] = procesos[j]
    BY <1>1
  <1>3. SinCrear'
    BY <1>1 DEF SinCrear
  <1>4. QED
    BY <1>1, <1>2, <1>3, LlenanQuietas, PaginadoSigue DEF Igual

LEMMA PaginadoLectura ==
  ASSUME IInv, Paginado, NEW id, NEW dir, NEW n, NEW t,
         muse_get(id, dir, n) \/ muse_cpy(id, dir, t)
  PROVE  Paginado'
  <1>1. SinCrecer /\ UNCHANGED <<paginas, procesos, archivosMappeados>>
    BY Llamado DEF muse_get, muse_cpy, Llamar, fisica, tablas
  <1>2. SinCrear'
    BY ContestaPag, RecorrePag DEF muse_get, muse_cpy
  <1>3. QED
    BY <1>1, <1>2, PaginadoQuieto

LEMMA PaginadoSync ==
  ASSUME IInv, Paginado, NEW id \in Ids, NEW dir, NEW len, muse_sync(id, dir, len)
  PROVE  Paginado'
  <1>1. SinCrecer /\ UNCHANGED <<paginas, procesos>>
    BY Llamado DEF muse_sync, Llamar, fisica, tablas, Caer
  <1>2. CASE Caer
    BY <1>2, PaginadoCae DEF Caer, fisica, tablas
  <1>3. CASE SinCrear' /\ UNCHANGED archivosMappeados
    BY <1>1, <1>3, PaginadoQuieto
  <1>4. CASE SinCrear' /\ \E path, datos, n : Volcado(path, datos, n)
    <2>1. PICK path, datos, n : Volcado(path, datos, n)
      BY <1>4
    <2>2. /\ DOMAIN archivosMappeados' = DOMAIN archivosMappeados
          /\ \A p \in DOMAIN archivosMappeados :
                archivosMappeados'[p].paginas = archivosMappeados[p].paginas
      <3>1. \A p \in DOMAIN archivosMappeados : archivosMappeados[p] \in Archivo
        BY Partes DEF ArchivosOK
      <3>2. QED
        BY <2>1, <3>1 DEF Volcado, Archivo
    <2>3. QED
      BY <1>1, <1>4, <2>2, LlenanQuietas, PaginadoSigue DEF Igual
  <1>5. QED
    BY <1>2, <1>3, <1>4, ContestaPag, RecorrePag DEF muse_sync, tablas

\* The list of segments of a process becomes segs, and nothing is made.
LEMMA PaginadoSegs ==
  ASSUME IInv, Paginado, SinCrecer, SinCrear', paginas' = paginas,
         NEW id \in DOMAIN procesos, NEW segs, procesos' = ConSegs(id, segs),
         \A i \in DOMAIN segs : \/ \E j \in DOMAIN Segs(id) : Igual(segs[i], Segs(id)[j])
                                \/ Paginada(id, i)',
         \A p \in DOMAIN archivosMappeados' :
            /\ p \in DOMAIN archivosMappeados
            /\ archivosMappeados'[p].paginas = archivosMappeados[p].paginas
  PROVE  Paginado'
  <1>1. /\ DOMAIN procesos' = DOMAIN procesos /\ procesos'[id] = segs
        /\ \A k \in DOMAIN procesos : k # id => procesos'[k] = procesos[k]
    BY Partes DEF ConSegs, ProcesosOK
  <1>2. ASSUME NEW k \in DOMAIN procesos', NEW i \in DOMAIN procesos'[k]
        PROVE  \/ /\ k \in DOMAIN procesos
                  /\ \E j \in DOMAIN procesos[k] : Igual(procesos'[k][i], procesos[k][j])
               \/ Paginada(k, i)'
    <2>1. CASE k = id
      BY <2>1, <1>1 DEF Segs
    <2>2. CASE k # id
      BY <2>2, <1>1 DEF Igual
    <2>3. QED
      BY <2>1, <2>2
  <1>3. SeLlenan
    BY LlenanQuietas
  <1>4. QED
    BY <1>2, <1>3, PaginadoSigue

LEMMA PaginadoLibera ==
  ASSUME IInv, Paginado, NEW id \in Ids, NEW dir, muse_free(id, dir)
  PROVE  Paginado'
  <1>1. /\ id \in DOMAIN procesos /\ SinCrecer
    BY Llamado DEF muse_free, Llamar
  <1>2. CASE Caer
    BY <1>2, PaginadoCae DEF Caer, fisica, tablas
  <1> DEFINE i == obtenerSegmento(Segs(id), dir)
  <1>3. CASE /\ procesos' = procesos \/ \E n : procesos' = [procesos EXCEPT ![id][i].baseLogica = n]
             /\ Empezar(Nada) /\ UNCHANGED <<fisica, archivosMappeados>>
    <2>1. paginas' = paginas /\ archivosMappeados' = archivosMappeados /\ SinCrear'
      BY <1>3 DEF Empezar, SinCrear, fisica
    <2>2. CASE procesos' = procesos
      BY <1>1, <2>1, <2>2, PaginadoQuieto
    <2>3. CASE \E n : procesos' = [procesos EXCEPT ![id][i].baseLogica = n]
      <3>1. PICK n : procesos' = [procesos EXCEPT ![id][i].baseLogica = n]
        BY <2>3
      <3>2. Segs(id) \in Seq(Segmento)
        BY <1>1, Partes DEF ProcesosOK, Segs
      <3> HIDE DEF i
      <3> DEFINE segs == [Segs(id) EXCEPT ![i].baseLogica = n]
      <3>3. procesos' = ConSegs(id, segs)
        BY <1>1, <3>1 DEF ConSegs, Segs
      <3>4. DOMAIN segs = DOMAIN Segs(id)
        OBVIOUS
      <3>5. ASSUME NEW k \in DOMAIN Segs(id)
            PROVE  Igual(segs[k], Segs(id)[k])
        <4>1. Segs(id)[k] \in Segmento
          BY <3>2
        <4>2. segs[k] = Segs(id)[k] \/ segs[k] = [Segs(id)[k] EXCEPT !.baseLogica = n]
          OBVIOUS
        <4> HIDE DEF segs
        <4>3. QED
          BY <4>1, <4>2 DEF Igual, Segmento
      <3> HIDE DEF segs
      <3>6. QED
        BY <1>1, <2>1, <3>3, <3>4, <3>5, PaginadoSegs
    <2>4. QED
      BY <1>3, <2>2, <2>3
  <1>4. QED
    <2>1. CASE /\ procesos' = IF Segs(id)[i].baseLogica # dir THEN procesos
                             ELSE [procesos EXCEPT ![id][i].baseLogica =
                                     @ + (CHOOSE m \in Bloque(Segs(id)[i], dir) : TRUE).tam]
               /\ Empezar(Nada)
               /\ UNCHANGED <<fisica, archivosMappeados>>
      <3>1. \/ procesos' = procesos
            \/ \E n : procesos' = [procesos EXCEPT ![id][i].baseLogica = n]
        <4>1. CASE Segs(id)[i].baseLogica # dir
          BY <2>1, <4>1
        <4>2. CASE Segs(id)[i].baseLogica = dir
          <5> DEFINE m == (CHOOSE m \in Bloque(Segs(id)[i], dir) : TRUE).tam
          <5> HIDE DEF m
          <5>1. procesos' = [procesos EXCEPT ![id][i].baseLogica = @ + m]
            BY <2>1, <4>2 DEF m
          <5>2. procesos' = [procesos EXCEPT ![id][i].baseLogica =
                                procesos[id][i].baseLogica + m]
            BY <5>1
          <5>3. QED
            BY <5>2
        <4>3. QED
          BY <4>1, <4>2
      <3>2. QED
        BY <2>1, <3>1, <1>3
    <2>2. QED
      BY <2>1, <1>2 DEF muse_free

LEMMA PaginadoDesmapeo ==
  ASSUME IInv, Paginado, NEW id \in Ids, NEW dir \in Nat, muse_unmap(id, dir)
  PROVE  Paginado'
  <1>1. /\ id \in DOMAIN procesos /\ SinCrecer /\ paginas' = paginas
    BY Llamado DEF muse_unmap, Llamar, fisica
  <1>2. CASE ~EnMapa(id, dir)
    <2>1. SinCrear' /\ UNCHANGED <<procesos, archivosMappeados>>
      BY <1>2, ContestaPag DEF muse_unmap, tablas
    <2>2. QED
      BY <1>1, <2>1, PaginadoQuieto
  <1>3. CASE EnMapa(id, dir)
    <2> DEFINE i == obtenerSegmento(Segs(id), dir)
               p == ArchivoDe(Buscado(id, dir))
               segs == RemoveAt(Segs(id), i)
    <2>1. /\ SinCrear' /\ procesos' = ConSegs(id, segs)
          /\ archivosMappeados' = [archivosMappeados EXCEPT
                    ![p].instancias = @ - 1,
                    ![p].abierto = @ /\ archivosMappeados[p].instancias > 1]
      BY <1>3, ContestaPag DEF muse_unmap
    <2>2. Segs(id) \in Seq(Segmento) /\ i \in DOMAIN Segs(id)
      BY <1>1, <1>3, TieneArchivo, Partes DEF ProcesosOK, Segs
    <2>3. \A j \in DOMAIN segs : \E k \in DOMAIN Segs(id) : segs[j] = Segs(id)[k]
      BY <2>2, SeqQuita
    <2> HIDE DEF p, segs
    <2>4. /\ DOMAIN archivosMappeados' = DOMAIN archivosMappeados
          /\ \A q \in DOMAIN archivosMappeados :
                archivosMappeados'[q].paginas = archivosMappeados[q].paginas
      <3>1. \A q \in DOMAIN archivosMappeados : archivosMappeados[q] \in Archivo
        BY Partes DEF ArchivosOK
      <3>2. QED
        BY <2>1, <3>1 DEF Archivo
    <2>5. \A j \in DOMAIN segs : \E k \in DOMAIN Segs(id) : Igual(segs[j], Segs(id)[k])
      BY <2>3 DEF Igual
    <2>6. QED
      BY <1>1, <2>1, <2>4, <2>5, PaginadoSegs
  <1>4. QED
    BY <1>2, <1>3

\* A request begins to make the pages of a new segment.
LEMMA PaginadoNuevo ==
  ASSUME IInv, Paginado, SinCrecer, NEW id, NEW tam \in Positivos, NEW tipo, NEW path, NEW flag,
         crearNuevoSegmento(id, tam, tipo, path, flag), UNCHANGED tablas
  PROVE  Paginado'
  <1>1. /\ UNCHANGED <<paginas, procesos, archivosMappeados>>
        /\ tarea'.op = "crear" /\ tarea'.pags = <<>> /\ tarea'.resta = tarea'.tam
        /\ tarea'.tam \in Nat
    BY DEF crearNuevoSegmento, Empezar, tablas, fisica, Positivos
  <1>2. \A i, j : ~Creciendo(i, j)
    BY DEF SinCrecer, Creciendo
  <1>3. SegmentosPaginados'
    BY <1>1, <1>2, LlenanQuietas, SegmentosSiguen DEF Igual
  <1>4. ArchivosPaginados'
    BY <1>1, LlenanQuietas, ArchivosPaginan
  <1>5. PorCrear(tarea.pags, tarea.resta, tarea.tam)'
    <2>1. PICK a : a = tarea'.tam
      OBVIOUS
    <2>2. PorCrear(<<>>, a, a)'
      BY <1>1, <2>1, Tamanos DEF PorCrear, Distintas
    <2>3. QED
      BY <1>1, <2>1, <2>2 DEF PorCrear, Distintas
  <1>6. TareaPaginada'
    BY <1>1, <1>5 DEF TareaPaginada
  <1>7. QED
    BY <1>3, <1>4, <1>6 DEF Paginado

LEMMA PaginadoMapeo ==
  ASSUME IInv, Paginado, NEW id \in Ids, NEW path \in Archivos, NEW len \in Positivos,
         NEW flag \in {"PRIVATE", "SHARED"}, muse_map(id, path, len, flag)
  PROVE  Paginado'
  <1>1. id \in DOMAIN procesos /\ SinCrecer
    BY Llamado DEF muse_map, Llamar
  <1>2. CASE crearNuevoSegmento(id, len, "MAP", path, flag) /\ UNCHANGED tablas
    BY <1>1, <1>2, PaginadoNuevo
  <1>3. CASE SinCrear' /\ UNCHANGED <<fisica, tablas>>
    BY <1>1, <1>3, PaginadoQuieto DEF fisica, tablas
  <1> DEFINE pags == archivosMappeados[path].paginas
             nuevo == NuevoSegmento(id, len, "MAP", pags, {})
             segs == Append(Segs(id), nuevo)
  <1>4. CASE /\ path \in DOMAIN archivosMappeados /\ SinCrear' /\ UNCHANGED fisica
             /\ archivosMappeados' = [archivosMappeados EXCEPT ![path].instancias = @ + 1]
             /\ procesos' = ConSegs(id, segs)
    <2>1. Segs(id) \in Seq(Segmento)
      BY <1>1, Partes DEF ProcesosOK, Segs
    <2>2. pags \in Seq(Hechas) /\ ArchivoPaginado(path)
      BY <1>4, Partes DEF ArchivosOK, Archivo, Paginado, ArchivosPaginados
    <2>3. paginas' = paginas
      BY <1>4 DEF fisica
    <2>4. /\ DOMAIN archivosMappeados' = DOMAIN archivosMappeados
          /\ \A q \in DOMAIN archivosMappeados :
                archivosMappeados'[q].paginas = archivosMappeados[q].paginas
      <3>1. \A q \in DOMAIN archivosMappeados : archivosMappeados[q] \in Archivo
        BY Partes DEF ArchivosOK
      <3>2. QED
        BY <1>4, <3>1 DEF Archivo
    <2>5. /\ nuevo.tamano = len /\ nuevo.tipo = "MAP" /\ nuevo.metadatas = {}
          /\ nuevo.tablaPaginas = pags
      BY DEF NuevoSegmento
    <2>6. PICK s : s = segs
      OBVIOUS
    <2>7. /\ \A i \in DOMAIN s : (i \in DOMAIN Segs(id) /\ s[i] = Segs(id)[i]) \/ s[i] = nuevo
      <3> HIDE DEF nuevo
      <3>1. QED
        BY <2>1, <2>6
    <2> HIDE DEF segs
    <2>8. procesos'[id] = s
      BY <1>1, <1>4, <2>6, Partes DEF ConSegs, ProcesosOK
    <2>9. ASSUME NEW i \in DOMAIN s
          PROVE  \/ \E j \in DOMAIN Segs(id) : Igual(s[i], Segs(id)[j])
                 \/ Paginada(id, i)'
      <3>1. CASE i \in DOMAIN Segs(id) /\ s[i] = Segs(id)[i]
        BY <3>1 DEF Igual
      <3>2. CASE s[i] = nuevo
        <4>1. PICK n : n = nuevo
          OBVIOUS
        <4>2. Forma(n)'
          <5>1. n.tamano > 0
            BY <2>5, <4>1 DEF Positivos
          <5>2. Llena(n.tablaPaginas)' /\ Distintas(n.tablaPaginas)'
            BY <2>2, <2>3, <2>5, <4>1 DEF ArchivoPaginado, Llena, Distintas
          <5>3. QED
            BY <2>5, <4>1, <5>1, <5>2 DEF Forma
        <4>3. procesos'[id][i] = n /\ n.metadatas = {}
          BY <2>5, <2>8, <3>2, <4>1
        <4>4. QED
          BY <4>2, <4>3 DEF Paginada, Forma, Llena, Distintas
      <3>3. QED
        BY <2>7, <3>1, <3>2
    <2>10. QED
      BY <1>1, <1>4, <2>3, <2>4, <2>6, <2>9, PaginadoSegs
  <1>5. QED
    BY <1>2, <1>3, <1>4, ContestaPag DEF muse_map, tablas

\* Where the segment stands in its list does not matter.
LEMMA PaginadaEsta ==
  ASSUME IInv, Paginado, SinCrecer, NEW id \in DOMAIN procesos,
         NEW segs \in Ordenes(Segs(id)), NEW i \in DOMAIN segs
  PROVE  /\ segs \in Seq(Segmento) /\ segs[i] \in Segmento /\ Forma(segs[i])
         /\ segs[i].metadatas = {} \/ Cubre(segs[i])
         /\ \E j \in DOMAIN Segs(id) : segs[i] = Segs(id)[j]
  <1>1. Segs(id) \in Seq(Segmento)
    BY Partes DEF ProcesosOK, Segs
  <1>2. /\ segs \in Seq(Segmento)
        /\ \A k \in DOMAIN segs : \E j \in DOMAIN Segs(id) : segs[k] = Segs(id)[j]
    BY <1>1, OrdenTipo
  <1>3. PICK j \in DOMAIN procesos[id] : segs[i] = procesos[id][j]
    BY <1>2 DEF Segs
  <1>4. Paginada(id, j) /\ ~Creciendo(id, j)
    BY DEF Paginado, SegmentosPaginados, SinCrecer, Creciendo
  <1>5. PICK s : s = segs[i]
    OBVIOUS
  <1>6. Forma(s) /\ (s.metadatas = {} \/ Cubre(s))
    BY <1>3, <1>4, <1>5 DEF Paginada
  <1>7. QED
    BY <1>2, <1>3, <1>5, <1>6 DEF Segs

LEMMA PaginadoAgranda ==
  ASSUME IInv, Paginado, SinCrecer, NEW id \in DOMAIN procesos,
         NEW segs \in Ordenes(Segs(id)), NEW i \in DOMAIN segs, segs[i].tipo = "HEAP",
         NEW tam \in Positivos, agrandarSegmento(id, segs, i, tam)
  PROVE  Paginado'
  <1> DEFINE m == [dir |-> segs[i].baseLogica + segs[i].tamano, tam |-> tam]
             nuevo == [segs[i] EXCEPT !.tamano = @ + tam, !.metadatas = @ \cup {m}]
             nuevos == [segs EXCEPT ![i] = nuevo]
  <1>1. PICK seg : seg = segs[i]
    OBVIOUS
  <1>2. /\ segs \in Seq(Segmento) /\ seg \in Segmento /\ Forma(seg) /\ Cubre(seg)
        /\ seg.tipo = "HEAP"
    BY <1>1, PaginadaEsta DEF Forma
  <1> DEFINE t == seg.tablaPaginas
  <1>3. PICK g : g = Last(t)
    OBVIOUS
  <1>4. /\ t \in Seq(Hechas) \ {<<>>} /\ g \in Hechas /\ Len(t) \in Nat
        /\ seg.tamano \in Nat
    BY <1>2, <1>3, UltimaEsta DEF Segmento
  <1> DEFINE h == PAGE_SIZE - paginas[g].desplazamiento
  <1>5. PICK resta : resta = IF h > tam THEN 0 ELSE tam - h
    OBVIOUS
  <1>6. /\ procesos' = ConSegs(id, [segs EXCEPT ![i].tamano = @ + tam,
                                                ![i].metadatas = @ \cup {m}])
        /\ paginas' = [paginas EXCEPT ![g].desplazamiento = PAGE_SIZE]
        /\ archivosMappeados' = archivosMappeados
        /\ \/ resta = 0 /\ tarea' = Nada
           \/ /\ resta # 0
              /\ tarea' = [op |-> "crecer", id |-> id, seg |-> i,
                           dir |-> segs[i].baseLogica + segs[i].tamano,
                           tam |-> tam, resta |-> resta]
    BY <1>1, <1>3, <1>5 DEF agrandarSegmento, Contestar, Empezar, Hueco
  <1>7. PICK n : n = nuevo
    OBVIOUS
  <1>8. /\ n.tamano = seg.tamano + tam /\ n.tipo = "HEAP" /\ n.metadatas # {}
        /\ n.tablaPaginas = t
    BY <1>1, <1>2, <1>7 DEF Segmento
  <1>9. [segs EXCEPT ![i].tamano = @ + tam, ![i].metadatas = @ \cup {m}] = [segs EXCEPT ![i] = n]
    BY <1>1, <1>2, <1>7
  <1> HIDE DEF m, nuevo
  <1>10. /\ DOMAIN procesos' = DOMAIN procesos /\ procesos'[id] = [segs EXCEPT ![i] = n]
         /\ \A k \in DOMAIN procesos : k # id => procesos'[k] = procesos[k]
    BY <1>6, <1>9, Partes DEF ConSegs, ProcesosOK
  <1>11. /\ procesos'[id][i] = n /\ DOMAIN procesos'[id] = DOMAIN segs
         /\ \A k \in DOMAIN segs : k # i => procesos'[id][k] = segs[k]
    BY <1>2, <1>10
  <1>12. FisicaOK /\ PAGE_SIZE \in Nat /\ tam \in Nat
    BY Partes, Tamanos DEF Positivos
  <1>13. paginas[g] \in Pagina
    BY <1>4, <1>12, HechasNat
  <1>14. /\ paginas'[g].desplazamiento = PAGE_SIZE /\ SeLlenan
    BY <1>4, <1>6, <1>13 DEF SeLlenan, Hechas, Pagina
  <1>15. Forma(n)'
    <2>1. Llena(t)' /\ Distintas(t)'
      BY <1>2, <1>4, <1>12, <1>14, LlenaSigue DEF Forma, Distintas
    <2>2. n.tamano > 0
      BY <1>4, <1>8, <1>12 DEF Positivos
    <2>3. QED
      BY <1>8, <2>1, <2>2 DEF Forma
  <1> DEFINE a == (Len(t) - 1) * PAGE_SIZE
  <1>16. a \in Int /\ Len(t) * PAGE_SIZE = a + PAGE_SIZE
    BY <1>4, <1>12
  <1>17. paginas[g].desplazamiento \in Nat
    BY <1>12, <1>13 DEF Pagina
  <1>18. a + paginas[g].desplazamiento >= seg.tamano
    BY <1>2, <1>3 DEF Cubre
  <1>19. resta = 0 => a + PAGE_SIZE >= seg.tamano + tam
    <2> DEFINE d == paginas[g].desplazamiento
    <2> HIDE DEF a, d
    <2>1. d \in Nat /\ a + d >= seg.tamano /\ resta = IF PAGE_SIZE - d > tam THEN 0 ELSE tam - (PAGE_SIZE - d)
      BY <1>5, <1>17, <1>18 DEF d
    <2>2. QED
      BY <2>1, <1>4, <1>12, <1>16
  <1>20. resta # 0 => a + PAGE_SIZE + resta >= seg.tamano + tam
    <2> DEFINE d == paginas[g].desplazamiento
    <2> HIDE DEF a, d
    <2>1. d \in Nat /\ a + d >= seg.tamano /\ resta = IF PAGE_SIZE - d > tam THEN 0 ELSE tam - (PAGE_SIZE - d)
      BY <1>5, <1>17, <1>18 DEF d
    <2>2. QED
      BY <2>1, <1>4, <1>12, <1>16
  <1>21. resta # 0 => PorCrecer(n, resta)'
    BY <1>3, <1>8, <1>14, <1>16, <1>20 DEF PorCrecer
  <1>22. Paginada(id, i)'
    <2>1. CASE resta = 0
      <3>1. Cubre(n)'
        BY <2>1, <1>3, <1>8, <1>14, <1>19 DEF Cubre
      <3>2. QED
        BY <3>1, <1>11, <1>15 DEF Paginada, Forma, Llena, Distintas, Cubre
    <2>2. CASE resta # 0
      <3>1. Creciendo(id, i)'
        BY <2>2, <1>6 DEF Creciendo, Nada
      <3>2. QED
        BY <3>1, <1>11, <1>15 DEF Paginada, Forma, Llena, Distintas
    <2>3. QED
      BY <2>1, <2>2
  <1>23. SegmentosPaginados'
    <2>1. \A k, j : ~Creciendo(k, j)
      BY DEF SinCrecer, Creciendo
    <2>2. ASSUME NEW k \in DOMAIN procesos', NEW j \in DOMAIN procesos'[k]
          PROVE  \/ /\ k \in DOMAIN procesos
                    /\ \E l \in DOMAIN procesos[k] : Igual(procesos'[k][j], procesos[k][l])
                 \/ Paginada(k, j)'
      <3>1. CASE k = id /\ j = i
        BY <3>1, <1>22
      <3>2. CASE k = id /\ j # i
        <4>1. procesos'[k][j] = segs[j] /\ j \in DOMAIN segs
          BY <3>2, <1>11
        <4>2. \E l \in DOMAIN procesos[id] : segs[j] = procesos[id][l]
          BY <4>1, PaginadaEsta DEF Segs
        <4>3. QED
          BY <3>2, <4>1, <4>2 DEF Igual
      <3>3. CASE k # id
        BY <3>3, <1>10 DEF Igual
      <3>4. QED
        BY <3>1, <3>2, <3>3
    <2>3. QED
      BY <2>1, <2>2, <1>14, SegmentosSiguen
  <1>24. ArchivosPaginados'
    BY <1>6, <1>14, ArchivosPaginan
  <1>25. TareaPaginada'
    <2>1. CASE resta = 0
      BY <2>1, <1>6 DEF TareaPaginada
    <2>2. CASE resta # 0
      <3>1. /\ tarea'.id = id /\ tarea'.seg = i /\ tarea'.resta = resta /\ tarea'.op = "crecer"
        BY <2>2, <1>6
      <3>2. PorCrecer(procesos[tarea.id][tarea.seg], tarea.resta)'
        BY <2>2, <3>1, <1>11, <1>21 DEF PorCrecer
      <3>3. QED
        BY <3>1, <3>2 DEF TareaPaginada
    <2>3. QED
      BY <2>1, <2>2
  <1>26. QED
    BY <1>23, <1>24, <1>25 DEF Paginado

LEMMA PaginadoReserva ==
  ASSUME IInv, Paginado, NEW id \in Ids, NEW tam \in Positivos, muse_alloc(id, tam)
  PROVE  Paginado'
  <1>1. id \in DOMAIN procesos /\ SinCrecer
    BY Llamado DEF muse_alloc, Llamar
  <1>2. PICK segs \in Ordenes(Segs(id)) :
          \/ crearNuevoSegmento(id, tam, "HEAP", SinCelda, SinCelda) /\ UNCHANGED tablas
          \/ /\ segmentoAgrandar(segs, tam, "HEAP") # 0
             /\ agrandarSegmento(id, segs, segmentoAgrandar(segs, tam, "HEAP"), tam)
          \/ Caer
    BY DEF muse_alloc
  <1>3. CASE crearNuevoSegmento(id, tam, "HEAP", SinCelda, SinCelda) /\ UNCHANGED tablas
    BY <1>1, <1>3, PaginadoNuevo
  <1>4. CASE Caer
    BY <1>4, PaginadoCae DEF Caer, fisica, tablas
  <1>5. CASE /\ segmentoAgrandar(segs, tam, "HEAP") # 0
             /\ agrandarSegmento(id, segs, segmentoAgrandar(segs, tam, "HEAP"), tam)
    <2>1. Segs(id) \in Seq(Segmento)
      BY <1>1, Partes DEF ProcesosOK, Segs
    <2>2. segs \in Seq(Segmento)
      BY <2>1, OrdenTipo
    <2>3. /\ segmentoAgrandar(segs, tam, "HEAP") \in DOMAIN segs
          /\ segs[segmentoAgrandar(segs, tam, "HEAP")].tipo = "HEAP"
      BY <1>5, <2>2, AgrandableEsta
    <2>4. QED
      BY <1>1, <1>5, <2>3, PaginadoAgranda
  <1>6. QED
    BY <1>2, <1>3, <1>4, <1>5

\* A page n is made for the request, with as many bytes as it holds.
HacePagina(n) ==
    /\ Hechas' = Hechas \cup {n} /\ n \notin Hechas /\ n # 0
    /\ paginas'[n].desplazamiento = Menor(tarea.resta, PAGE_SIZE)
    /\ \A g \in Hechas : paginas'[g].desplazamiento = paginas[g].desplazamiento
    /\ Creando /\ Anexar(n)

LEMMA HaceUna ==
  ASSUME IInv, CrearEnLibre \/ CrearDesalojando
  PROVE  \E n : HacePagina(n)
  <1>1. CASE CrearDesalojando
    <2>1. PICK f, v, s, n : EfectoDesalojar(f, v, s, n)
      BY <1>1, DesalojarHace
    <2>2. HacePagina(n)
      BY <2>1 DEF EfectoDesalojar, HacePagina
    <2>3. QED
      BY <2>2
  <1>2. CASE CrearEnLibre
    <2> DEFINE n == Len(paginas) + 1
               nueva == [nroframe |-> Minimo(FramesLibres), ubicacion |-> "MP",
                         desplazamiento |-> Menor(tarea.resta, PAGE_SIZE)]
    <2>1. paginas' = Append(paginas, nueva) /\ Creando /\ Anexar(n)
      BY <1>2 DEF CrearEnLibre, crearPagina
    <2>2. nueva.desplazamiento = Menor(tarea.resta, PAGE_SIZE)
      OBVIOUS
    <2> HIDE DEF nueva
    <2>3. paginas \in Seq(Pagina) /\ Len(paginas) \in Nat /\ Hechas = 1..Len(paginas)
      BY Partes, HechasNat DEF FisicaOK
    <2>4. /\ Hechas' = Hechas \cup {n} /\ n \notin Hechas /\ n # 0 /\ paginas'[n] = nueva
          /\ \A g \in Hechas : paginas'[g] = paginas[g]
      BY <2>1, <2>3 DEF Hechas
    <2>5. HacePagina(n)
      BY <2>1, <2>2, <2>4 DEF HacePagina
    <2>6. QED
      BY <2>5
  <1>3. QED
    BY <1>1, <1>2

\* The page joins a table whose pages are full.
LEMMA TablaCrece ==
  ASSUME NEW t \in Seq(Hechas), \A j \in DOMAIN t : paginas[t[j]].desplazamiento = PAGE_SIZE,
         Distintas(t), NEW n, HacePagina(n)
  PROVE  /\ Llena(Append(t, n))' /\ Distintas(Append(t, n))'
         /\ Append(t, n) # <<>> /\ Last(Append(t, n)) = n
         /\ Len(Append(t, n)) = Len(t) + 1 /\ Len(t) \in Nat
         /\ paginas'[n].desplazamiento = PAGE_SIZE =>
               \A j \in DOMAIN Append(t, n) :
                  paginas'[Append(t, n)[j]].desplazamiento = PAGE_SIZE
  <1>1. t \in Seq(Hechas \cup {n}) /\ n \in Hechas \cup {n}
    BY SeqMonotonic
  <1>2. PICK u : u = Append(t, n)
    OBVIOUS
  <1>3. /\ u \in Seq(Hechas \cup {n}) \ {<<>>} /\ Len(u) = Len(t) + 1 /\ Len(t) \in Nat
        /\ \A i \in DOMAIN t : i \in DOMAIN u /\ u[i] = t[i]
        /\ u[Len(t) + 1] = n
        /\ \A i \in DOMAIN u : i \in DOMAIN t \/ i = Len(t) + 1
        /\ DOMAIN t = 1..Len(t) /\ DOMAIN u = 1..Len(t) + 1
    BY <1>1, <1>2, SeqAgrega
  <1>4. Last(u) = n
    BY <1>3 DEF Last
  <1>5. \A j \in DOMAIN t : t[j] \in Hechas
    OBVIOUS
  <1>6. Distintas(u)'
    <2> SUFFICES ASSUME NEW j \in DOMAIN u, NEW k \in DOMAIN u, u[j] = u[k]
                 PROVE  j = k
      BY DEF Distintas
    <2>1. n \notin Hechas
      BY DEF HacePagina
    <2>2. QED
      BY <1>3, <1>5, <2>1 DEF Distintas
  <1>7. \A j \in DOMAIN t : paginas'[u[j]].desplazamiento = PAGE_SIZE
    BY <1>3, <1>5 DEF HacePagina
  <1>8. Llena(u)'
    BY <1>3, <1>7 DEF Llena
  <1>9. paginas'[n].desplazamiento = PAGE_SIZE =>
           \A j \in DOMAIN u : paginas'[u[j]].desplazamiento = PAGE_SIZE
    BY <1>3, <1>7
  <1>10. QED
    BY <1>2, <1>3, <1>4, <1>6, <1>8, <1>9 DEF Llena, Distintas

LEMMA TodasLlenas ==
  ASSUME NEW t \in Seq(Hechas) \ {<<>>}, Llena(t), paginas[Last(t)].desplazamiento = PAGE_SIZE
  PROVE  \A j \in DOMAIN t : paginas[t[j]].desplazamiento = PAGE_SIZE
  <1>1. DOMAIN t = 1..Len(t) /\ Len(t) \in Nat
    OBVIOUS
  <1>2. QED
    BY <1>1 DEF Llena, Last

LEMMA LlenanHace ==
  ASSUME NEW n, HacePagina(n)
  PROVE  SeLlenan
  BY DEF HacePagina, SeLlenan

\* The bytes of the page: all that was left, or a full page.
LEMMA RestaHace ==
  ASSUME IInv, NEW n, HacePagina(n)
  PROVE  LET resta == tarea.resta - Menor(tarea.resta, PAGE_SIZE)
         IN  /\ resta \in Nat /\ tarea.resta \in Nat /\ PAGE_SIZE \in Nat
             /\ resta = 0 => paginas'[n].desplazamiento = tarea.resta
             /\ resta # 0 => /\ paginas'[n].desplazamiento = PAGE_SIZE
                             /\ resta = tarea.resta - PAGE_SIZE
  <1>1. tarea.resta \in Nat
    BY CreandoResta DEF HacePagina, Positivos
  <1>2. PAGE_SIZE \in Nat
    BY Tamanos
  <1>3. QED
    BY <1>1, <1>2 DEF HacePagina, Menor

LEMMA PaginadoCrece ==
  ASSUME IInv, Paginado, NEW n, HacePagina(n), tarea.op = "crecer"
  PROVE  Paginado'
  <1>0. PICK id, i : id = tarea.id /\ i = tarea.seg
    OBVIOUS
  <1>1. tarea # Nada /\ tarea \in TareaCrecer
    BY Partes DEF TareaTipo, TareaCrear, TareaRecorrer, HacePagina, Creando
  <1>2. id \in DOMAIN procesos /\ i \in DOMAIN procesos[id]
    BY <1>0, <1>1, Partes DEF TareaTipo, TareaOK, TareaCrecer, Segs
  <1>3. procesos[id] \in Seq(Segmento) /\ FisicaOK
    BY <1>2, Partes DEF ProcesosOK
  <1>4. PICK seg \in Segmento : seg = procesos[id][i]
    BY <1>2, <1>3
  <1> DEFINE t == seg.tablaPaginas
  <1>5. t \in Seq(Hechas) \ {<<>>} /\ seg.tamano \in Nat
    BY DEF Segmento
  <1>6. PICK r : r = tarea.resta
    OBVIOUS
  <1>7. PICK resta : resta = tarea.resta - Menor(tarea.resta, PAGE_SIZE)
    OBVIOUS
  <1>8. /\ resta \in Nat /\ r \in Nat /\ PAGE_SIZE \in Nat
        /\ resta = 0 => paginas'[n].desplazamiento = r
        /\ resta # 0 => paginas'[n].desplazamiento = PAGE_SIZE /\ resta = r - PAGE_SIZE
    BY <1>6, <1>7, RestaHace
  <1>9. Forma(seg) /\ PorCrecer(seg, r)
    BY <1>0, <1>1, <1>2, <1>4, <1>6 DEF Paginado, SegmentosPaginados, Paginada, TareaPaginada
  <1>10. \A j \in DOMAIN t : paginas[t[j]].desplazamiento = PAGE_SIZE
    BY <1>5, <1>9, TodasLlenas DEF Forma, PorCrecer
  <1>11. PICK u : u = Append(t, n)
    OBVIOUS
  <1>12. /\ Llena(u)' /\ Distintas(u)' /\ u # <<>> /\ Last(u) = n
         /\ Len(u) = Len(t) + 1 /\ Len(t) \in Nat
    BY <1>5, <1>9, <1>10, <1>11, TablaCrece, SMTT(30) DEF Forma, Llena, Distintas
  <1>13. PICK nuevo : nuevo = [seg EXCEPT !.tablaPaginas = u]
    OBVIOUS
  <1>14. /\ nuevo.tamano = seg.tamano /\ nuevo.tipo = seg.tipo
         /\ nuevo.metadatas = seg.metadatas /\ nuevo.tablaPaginas = u
    BY <1>13 DEF Segmento
  <1>15. /\ procesos' = [procesos EXCEPT ![id][i].tablaPaginas = Append(@, n)]
         /\ archivosMappeados' = archivosMappeados
         /\ \/ resta = 0 /\ tarea' = Nada
            \/ resta # 0 /\ tarea' = [tarea EXCEPT !.resta = resta]
    BY <1>0, <1>7 DEF HacePagina, Anexar, Contestar, Empezar
  <1>16. /\ DOMAIN procesos' = DOMAIN procesos /\ procesos'[id][i] = nuevo
         /\ DOMAIN procesos'[id] = DOMAIN procesos[id]
         /\ \A k \in DOMAIN procesos : \A j \in DOMAIN procesos[k] :
               k # id \/ j # i => procesos'[k][j] = procesos[k][j]
         /\ \A k \in DOMAIN procesos : DOMAIN procesos'[k] = DOMAIN procesos[k]
    BY <1>2, <1>3, <1>4, <1>11, <1>13, <1>15
  <1>17. SeLlenan
    BY LlenanHace
  <1>18. Forma(nuevo)'
    BY <1>9, <1>12, <1>14 DEF Forma
  <1> DEFINE a == Len(t) * PAGE_SIZE
  <1>19. a \in Nat /\ (Len(u) - 1) * PAGE_SIZE = a /\ Len(u) * PAGE_SIZE = a + PAGE_SIZE
    BY <1>8, <1>12
  <1>20. a + r >= seg.tamano
    BY <1>9 DEF PorCrecer
  <1>21. CASE resta = 0
    <2>1. Cubre(nuevo)'
      BY <1>8, <1>12, <1>14, <1>19, <1>20, <1>21 DEF Cubre
    <2>2. Paginada(id, i)'
      BY <1>16, <1>18, <2>1 DEF Paginada, Forma, Llena, Distintas, Cubre
    <2>3. TareaPaginada'
      BY <1>15, <1>21 DEF TareaPaginada
    <2>4. QED
      <3>1. ASSUME NEW k \in DOMAIN procesos', NEW j \in DOMAIN procesos'[k]
            PROVE  \/ /\ k \in DOMAIN procesos
                      /\ \E l \in DOMAIN procesos[k] :
                            ~Creciendo(k, l) /\ Igual(procesos'[k][j], procesos[k][l])
                   \/ Paginada(k, j)'
        <4>1. CASE k = id /\ j = i
          BY <2>2, <4>1
        <4>2. CASE k # id \/ j # i
          BY <4>2, <1>0, <1>16 DEF Creciendo, Igual
        <4>3. QED
          BY <4>1, <4>2
      <3>2. SegmentosPaginados'
        BY <1>17, <3>1, SegmentosSiguen
      <3>3. ArchivosPaginados'
        BY <1>15, <1>17, ArchivosPaginan
      <3>4. QED
        BY <2>3, <3>2, <3>3 DEF Paginado
  <1>22. CASE resta # 0
    <2>1. /\ tarea' # Nada /\ tarea'.op = "crecer" /\ tarea'.id = id /\ tarea'.seg = i
          /\ tarea'.resta = resta
      <3>1. tarea' = [tarea EXCEPT !.resta = resta]
        BY <1>15, <1>22
      <3>2. tarea'.op = "crecer" /\ tarea'.id = id /\ tarea'.seg = i /\ tarea'.resta = resta
        BY <1>0, <1>1, <3>1 DEF TareaCrecer
      <3>3. QED
        BY <3>2 DEF Nada
    <2>2. Paginada(id, i)'
      BY <1>16, <1>18, <2>1 DEF Paginada, Creciendo, Forma, Llena, Distintas
    <2>3. a + PAGE_SIZE + resta >= seg.tamano
      <3> HIDE DEF a
      <3>1. QED
        BY <1>5, <1>8, <1>19, <1>20, <1>22
    <2>4. PorCrecer(nuevo, resta)'
      BY <1>8, <1>12, <1>14, <1>19, <1>22, <2>3 DEF PorCrecer
    <2>5. PorCrecer(procesos[tarea.id][tarea.seg], tarea.resta)'
      BY <1>16, <2>1, <2>4 DEF PorCrecer
    <2>6. TareaPaginada'
      BY <2>1, <2>5 DEF TareaPaginada
    <2>7. QED
      <3>1. ASSUME NEW k \in DOMAIN procesos', NEW j \in DOMAIN procesos'[k]
            PROVE  \/ /\ k \in DOMAIN procesos
                      /\ \E l \in DOMAIN procesos[k] :
                            ~Creciendo(k, l) /\ Igual(procesos'[k][j], procesos[k][l])
                   \/ Paginada(k, j)'
        <4>1. CASE k = id /\ j = i
          BY <2>2, <4>1
        <4>2. CASE k # id \/ j # i
          BY <4>2, <1>0, <1>16 DEF Creciendo, Igual
        <4>3. QED
          BY <4>1, <4>2
      <3>2. SegmentosPaginados'
        BY <1>17, <3>1, SegmentosSiguen
      <3>3. ArchivosPaginados'
        BY <1>15, <1>17, ArchivosPaginan
      <3>4. QED
        BY <2>6, <3>2, <3>3 DEF Paginado
  <1>23. QED
    BY <1>21, <1>22

LEMMA PaginadoCrea ==
  ASSUME IInv, Paginado, NEW n, HacePagina(n), tarea.op = "crear"
  PROVE  Paginado'
  <1>0. PICK id, tam : id = tarea.id /\ tam = tarea.tam
    OBVIOUS
  <1>1. tarea # Nada /\ tarea \in TareaCrear
    BY Partes DEF TareaTipo, TareaCrecer, TareaRecorrer, HacePagina, Creando
  <1>2. /\ id \in DOMAIN procesos /\ tarea.pags \in Seq(Hechas) /\ tam \in Positivos
        /\ tarea.tipo \in {"HEAP", "MAP"}
    BY <1>0, <1>1 DEF TareaCrear
  <1>3. PICK pags \in Seq(Hechas) : pags = tarea.pags
    BY <1>2
  <1>4. Segs(id) \in Seq(Segmento)
    BY <1>2, Partes DEF ProcesosOK, Segs
  <1>5. PICK r : r = tarea.resta
    OBVIOUS
  <1>6. PICK resta : resta = tarea.resta - Menor(tarea.resta, PAGE_SIZE)
    OBVIOUS
  <1>7. /\ resta \in Nat /\ r \in Nat /\ PAGE_SIZE \in Nat
        /\ resta = 0 => paginas'[n].desplazamiento = r
        /\ resta # 0 => paginas'[n].desplazamiento = PAGE_SIZE /\ resta = r - PAGE_SIZE
    BY <1>5, <1>6, RestaHace
  <1>8. PorCrear(pags, r, tam)
    BY <1>0, <1>1, <1>3, <1>5 DEF Paginado, TareaPaginada
  <1>9. PICK u : u = Append(pags, n)
    OBVIOUS
  <1>10. /\ Llena(u)' /\ Distintas(u)' /\ u # <<>> /\ Last(u) = n
         /\ Len(u) = Len(pags) + 1 /\ Len(pags) \in Nat
         /\ paginas'[n].desplazamiento = PAGE_SIZE =>
               \A j \in DOMAIN u : paginas'[u[j]].desplazamiento = PAGE_SIZE
    BY <1>8, <1>9, TablaCrece DEF PorCrear, Llena, Distintas
  <1>11. SeLlenan
    BY LlenanHace
  <1>12. \A k, j : ~Creciendo(k, j)
    BY DEF Creciendo
  <1> DEFINE a == Len(pags) * PAGE_SIZE
  <1>13. a \in Nat /\ (Len(u) - 1) * PAGE_SIZE = a /\ Len(u) * PAGE_SIZE = a + PAGE_SIZE
    BY <1>7, <1>10
  <1>14. a + r = tam
    BY <1>8 DEF PorCrear
  <1>15. PICK dir : dir = segUltimaPosicion(Segs(id))
    OBVIOUS
  <1>16. PICK nuevo : nuevo = NuevoSegmento(id, tarea.tam, tarea.tipo, u,
                                            {[dir |-> dir, tam |-> tarea.tam]})
    OBVIOUS
  <1>17. /\ nuevo.tamano = tam /\ nuevo.metadatas # {} /\ nuevo.tablaPaginas = u
    BY <1>0, <1>16 DEF NuevoSegmento
  <1>18. CASE resta # 0
    <2>1. tarea' = [tarea EXCEPT !.resta = resta, !.pags = u] /\ UNCHANGED tablas
      BY <1>3, <1>6, <1>7, <1>9, <1>18 DEF HacePagina, Anexar, Empezar
    <2>2. /\ tarea'.op = "crear" /\ tarea'.resta = resta /\ tarea'.pags = u
          /\ tarea'.tam = tam
      BY <1>0, <1>1, <2>1 DEF TareaCrear
    <2>3. procesos' = procesos /\ archivosMappeados' = archivosMappeados
      BY <2>1 DEF tablas
    <2>4. SegmentosPaginados'
      BY <1>11, <1>12, <2>3, SegmentosSiguen DEF Igual
    <2>5. ArchivosPaginados'
      BY <1>11, <2>3, ArchivosPaginan
    <2>6. a + PAGE_SIZE + resta = tam
      <3> HIDE DEF a
      <3>1. QED
        BY <1>7, <1>13, <1>14, <1>18
    <2>7. PorCrear(u, resta, tam)'
      BY <1>7, <1>10, <1>13, <1>18, <2>6 DEF PorCrear
    <2>8. PorCrear(tarea.pags, tarea.resta, tarea.tam)'
      BY <2>2, <2>7 DEF PorCrear, Distintas
    <2>9. TareaPaginada'
      BY <2>2, <2>8 DEF TareaPaginada
    <2>10. QED
      BY <2>4, <2>5, <2>9 DEF Paginado
  <1>19. CASE resta = 0
    <2>1. /\ procesos' = ConSegs(id, Append(Segs(id), nuevo)) /\ tarea' = Nada
          /\ \/ archivosMappeados' = archivosMappeados
             \/ \E c : archivosMappeados' =
                   [p \in DOMAIN archivosMappeados \cup {tarea.path} |->
                      IF p # tarea.path THEN archivosMappeados[p]
                      ELSE [compartido |-> tarea.flag, instancias |-> 1,
                            paginas |-> u, abierto |-> TRUE, map |-> c]]
      <3>1. procesos' = ConSegs(id, Append(Segs(id), nuevo)) /\ tarea' = Nada
        BY <1>0, <1>3, <1>6, <1>9, <1>15, <1>16, <1>19 DEF HacePagina, Anexar, Contestar
      <3>2. PICK c : c = [k \in 1..tarea.tam |-> Cero]
        OBVIOUS
      <3>3. \/ archivosMappeados' = archivosMappeados
            \/ archivosMappeados' =
                   [p \in DOMAIN archivosMappeados \cup {tarea.path} |->
                      IF p # tarea.path THEN archivosMappeados[p]
                      ELSE [compartido |-> tarea.flag, instancias |-> 1,
                            paginas |-> u, abierto |-> TRUE, map |-> c]]
        BY <1>3, <1>6, <1>9, <1>19, <3>2 DEF HacePagina, Anexar
      <3>4. QED
        BY <3>1, <3>3
    <2>2. Cubre(nuevo)'
      <3>1. paginas'[Last(u)].desplazamiento = r
        BY <1>7, <1>10, <1>19
      <3>2. (Len(u) - 1) * PAGE_SIZE + r >= tam
        <4> HIDE DEF a
        <4>1. QED
          BY <1>2, <1>7, <1>13, <1>14 DEF Positivos
      <3>3. QED
        BY <1>17, <3>1, <3>2 DEF Cubre
    <2>3. Forma(nuevo)'
      BY <1>2, <1>10, <1>17 DEF Forma, Positivos
    <2>4. /\ DOMAIN procesos' = DOMAIN procesos
          /\ procesos'[id] = Append(Segs(id), nuevo)
          /\ \A k \in DOMAIN procesos : k # id => procesos'[k] = procesos[k]
      BY <1>2, <2>1, Partes DEF ConSegs, ProcesosOK
    <2>5. \A j \in DOMAIN procesos'[id] :
             \/ j \in DOMAIN procesos[id] /\ procesos'[id][j] = procesos[id][j]
             \/ procesos'[id][j] = nuevo
      BY <1>4, <2>4 DEF Segs
    <2>6. SegmentosPaginados'
      <3>1. ASSUME NEW k \in DOMAIN procesos', NEW j \in DOMAIN procesos'[k]
            PROVE  \/ /\ k \in DOMAIN procesos
                      /\ \E l \in DOMAIN procesos[k] :
                            ~Creciendo(k, l) /\ Igual(procesos'[k][j], procesos[k][l])
                   \/ Paginada(k, j)'
        <4>1. CASE k = id /\ procesos'[id][j] = nuevo
          BY <2>2, <2>3, <4>1 DEF Paginada, Forma, Cubre, Llena, Distintas
        <4>2. CASE k = id /\ j \in DOMAIN procesos[id] /\ procesos'[id][j] = procesos[id][j]
          BY <4>2, <1>2, <1>12 DEF Igual
        <4>3. CASE k # id
          BY <4>3, <1>12, <2>4 DEF Igual
        <4>4. QED
          BY <2>5, <4>1, <4>2, <4>3
      <3>2. QED
        BY <1>11, <3>1, SegmentosSiguen
    <2>7. ArchivosPaginados'
      <3>1. CASE archivosMappeados' = archivosMappeados
        BY <1>11, <3>1, ArchivosPaginan
      <3>2. CASE \E c : archivosMappeados' =
                   [p \in DOMAIN archivosMappeados \cup {tarea.path} |->
                      IF p # tarea.path THEN archivosMappeados[p]
                      ELSE [compartido |-> tarea.flag, instancias |-> 1,
                            paginas |-> u, abierto |-> TRUE, map |-> c]]
        <4>1. ASSUME NEW p \in DOMAIN archivosMappeados'
              PROVE  \/ /\ p \in DOMAIN archivosMappeados
                        /\ archivosMappeados'[p].paginas = archivosMappeados[p].paginas
                     \/ archivosMappeados'[p].paginas = u
          BY <3>2
        <4>2. ASSUME NEW p \in DOMAIN archivosMappeados', archivosMappeados'[p].paginas = u
              PROVE  ArchivoPaginado(p)'
          BY <1>10, <4>2 DEF ArchivoPaginado, Llena, Distintas
        <4>3. QED
          BY <1>11, <4>1, <4>2, ArchivosPaginan
      <3>3. QED
        BY <2>1, <3>1, <3>2
    <2>8. TareaPaginada'
      BY <2>1 DEF TareaPaginada
    <2>9. QED
      BY <2>6, <2>7, <2>8 DEF Paginado
  <1>20. QED
    BY <1>18, <1>19

\* A walk changes no size: a page may come back from swap, or be read or written.
LEMMA PaginadoRecorre ==
  ASSUME IInv, Paginado, TraerPagina \/ CopiarPagina
  PROVE  Paginado'
  <1>1. SinCrecer /\ Recorriendo
    BY DEF SinCrecer, TraerPagina, CopiarPagina, Recorriendo
  <1>2. CASE TraerPagina
    <2>1. PICK f, v, s, q, l : EfectoTraer(f, v, s, q, l)
      BY <1>2, TraerHace
    <2>2. SeLlenan /\ UNCHANGED <<procesos, archivosMappeados, tarea>>
      BY <2>1 DEF EfectoTraer, SeLlenan, tablas
    <2>3. SinCrear'
      BY <1>1, <2>2 DEF SinCrear, Recorriendo
    <2>4. QED
      BY <1>1, <2>2, <2>3, PaginadoSigue DEF Igual
  <1>3. CASE CopiarPagina
    <2>1. paginas' = paginas /\ procesos' = procesos
      BY <1>3 DEF CopiarPagina
    <2>2. SinCrear'
      <3>1. tarea' = Nada \/ tarea'.op = tarea.op
        <4>1. tarea \in TareaRecorrer
          BY <1>1, PagEsta
        <4>2. \/ tarea' = Nada
              \/ \E r, d : tarea' = [Avanzar EXCEPT !.resta = r, !.datos = d]
          BY <1>3 DEF CopiarPagina, Contestar, Empezar
        <4>3. QED
          BY <4>1, <4>2 DEF Avanzar, TareaRecorrer
      <3>2. QED
        BY <1>1, <3>1 DEF SinCrear, Recorriendo
    <2>3. /\ DOMAIN archivosMappeados' = DOMAIN archivosMappeados
          /\ \A p \in DOMAIN archivosMappeados :
                archivosMappeados'[p].paginas = archivosMappeados[p].paginas
      <3>1. \/ archivosMappeados' = archivosMappeados
            \/ \E path, datos, n : Volcado(path, datos, n)
        BY <1>3 DEF CopiarPagina
      <3>2. \A p \in DOMAIN archivosMappeados : archivosMappeados[p] \in Archivo
        BY Partes DEF ArchivosOK
      <3>3. CASE \E path, datos, n : Volcado(path, datos, n)
        <4>1. PICK path, datos, n : Volcado(path, datos, n)
          BY <3>3
        <4>2. QED
          BY <4>1, <3>2 DEF Volcado, Archivo
      <3>4. QED
        BY <3>1, <3>3
    <2>4. QED
      BY <1>1, <2>1, <2>2, <2>3, LlenanQuietas, PaginadoSigue DEF Igual
  <1>4. QED
    BY <1>2, <1>3

LEMMA PaginadoPaso ==
  IInv /\ Paginado /\ [Next]_vars => Paginado'
  <1> SUFFICES ASSUME IInv, Paginado, [Next]_vars PROVE Paginado'
    OBVIOUS
  <1>1. Direcciones \subseteq Nat /\ Largos \subseteq Positivos
    BY MuseConstantes DEF Positivos
  <1>2. CASE UNCHANGED vars
    BY <1>2, PaginadoCae DEF vars, fisica, tablas
  <1>3. CASE Atender
    <2>1. CASE CrearEnLibre \/ CrearDesalojando
      <3>1. PICK n : HacePagina(n)
        BY <2>1, HaceUna
      <3>2. tarea.op = "crear" \/ tarea.op = "crecer"
        BY <3>1 DEF HacePagina, Creando
      <3>3. QED
        BY <3>1, <3>2, PaginadoCrece, PaginadoCrea
    <2>2. CASE TraerPagina \/ CopiarPagina
      BY <2>2, PaginadoRecorre
    <2>3. CASE SwapLleno \/ FueraDeTabla
      BY <2>3, PaginadoCae DEF SwapLleno, FueraDeTabla, Caer, fisica, tablas
    <2>4. QED
      BY <1>3, <2>1, <2>2, <2>3 DEF Atender
  <1>4. ASSUME NEW id \in Ids, Pedir(id)
        PROVE  Paginado'
    BY <1>1, <1>4, PaginadoInicio, PaginadoCierre, PaginadoReserva, PaginadoMapeo,
       PaginadoLibera, PaginadoDesmapeo, PaginadoLectura, PaginadoSync DEF Pedir
  <1>5. QED
    BY <1>2, <1>3, <1>4 DEF Next

LEMMA PaginadoBasta ==
  IInv /\ Paginado => PaginasCubren
  <1> SUFFICES ASSUME IInv, Paginado, NEW id \in DOMAIN procesos, NEW i \in DOMAIN Segs(id)
               PROVE  LET seg == Segs(id)[i]
                          k == Len(seg.tablaPaginas)
                      IN  \/ tarea # Nada /\ tarea.op = "crecer" /\ tarea.id = id /\ tarea.seg = i
                          \/ seg.metadatas = {}
                          \/ /\ \A j \in 1..k - 1 : paginas[seg.tablaPaginas[j]].desplazamiento = PAGE_SIZE
                             /\ (k - 1) * PAGE_SIZE + paginas[seg.tablaPaginas[k]].desplazamiento
                                  >= seg.tamano
    BY DEF PaginasCubren
  <1>1. Paginada(id, i)
    BY DEF Paginado, SegmentosPaginados, Segs
  <1>2. QED
    BY <1>1 DEF Paginada, Creciendo, Forma, Llena, Cubre, Last, Segs

\* In every run, with any requests and sizes, the pages of each segment that
\* muse_alloc or a first muse_map made cover it, except while the loop of
\* agrandarSegmento still makes the pages of the segment that it enlarged.
THEOREM PaginasSiempreCubren == Spec => []PaginasCubren
  <1>1. Init => Paginado
    BY DEF Init, Paginado, SegmentosPaginados, ArchivosPaginados, TareaPaginada
  <1>2. IInv /\ Paginado /\ [Next]_vars => Paginado'
    BY PaginadoPaso
  <1>3. IInv /\ Paginado => PaginasCubren
    BY PaginadoBasta
  <1>4. Spec => []IInv
    BY Invariante
  <1>5. QED
    BY <1>1, <1>2, <1>3, <1>4, PTL DEF Spec

(***************************************************************************)
(* Where an address leads.                                                 *)
(***************************************************************************)
LEMMA Division ==
  ASSUME NEW d \in Nat
  PROVE  /\ d = (d \div PAGE_SIZE) * PAGE_SIZE + (d % PAGE_SIZE)
         /\ d \div PAGE_SIZE \in Nat /\ d % PAGE_SIZE \in Offsets
  BY Tamanos DEF Offsets

LEMMA MasPaginas ==
  ASSUME NEW a \in Nat, NEW b \in Nat, a < b
  PROVE  a * PAGE_SIZE + PAGE_SIZE <= b * PAGE_SIZE
  BY Tamanos

LEMMA UnaDivision ==
  ASSUME NEW a \in Nat, NEW b \in Nat, NEW r \in Offsets, NEW s \in Offsets,
         a * PAGE_SIZE + r = b * PAGE_SIZE + s
  PROVE  a = b /\ r = s
  <1>1. ~(a < b)
    BY Tamanos, MasPaginas DEF Offsets
  <1>2. ~(b < a)
    BY Tamanos, MasPaginas DEF Offsets
  <1>3. a = b
    BY <1>1, <1>2
  <1>4. QED
    BY <1>3, Tamanos DEF Offsets

LEMMA Cuenta ==
  ASSUME NEW d \in Nat, NEW q \in Nat, NEW r \in Offsets, d = q * PAGE_SIZE + r
  PROVE  d \div PAGE_SIZE = q /\ d % PAGE_SIZE = r
  BY Division, UnaDivision

\* The list of a process is in the order of its addresses, and no segment
\* reaches the next one.
EnOrden(segs) ==
    /\ DOMAIN segs = 1..Len(segs) /\ Len(segs) \in Nat
    /\ \A i \in DOMAIN segs :
          /\ segs[i].baseLogica \in Nat /\ segs[i].tamano \in Nat /\ segs[i].tamano > 0
          /\ Len(segs[i].tablaPaginas) \in Nat
    /\ \A i, j \in DOMAIN segs :
          i < j => segs[i].baseLogica + segs[i].tamano <= segs[j].baseLogica

\* An increasing function of 1..n into itself is the identity.
LEMMA CreceIdentica ==
  ASSUME NEW n \in Nat, NEW p \in [1..n -> 1..n], \A i, j \in 1..n : i < j => p[i] < p[j]
  PROVE  \A i \in 1..n : p[i] = i
  <1>1. \A i \in 1..n : p[i] >= i
    <2> DEFINE B == {i \in 1..n : p[i] < i}
    <2> SUFFICES ASSUME B # {} PROVE FALSE
      OBVIOUS
    <2>1. PICK i \in B : \A j \in B : i <= j
      <3>1. B \in SUBSET Nat
        OBVIOUS
      <3>2. QED
        BY <3>1, HayMinimo
    <2>2. p[i] \in 1..n /\ p[i] < i
      OBVIOUS
    <2>3. p[p[i]] < p[i]
      BY <2>2
    <2>4. p[i] \in B
      BY <2>2, <2>3
    <2>5. QED
      BY <2>1, <2>2, <2>4
  <1>2. \A i \in 1..n : p[i] <= i
    <2> DEFINE B == {i \in 1..n : p[i] > i}
               D == {n - i : i \in B}
    <2> SUFFICES ASSUME B # {} PROVE FALSE
      OBVIOUS
    <2>1. PICK k \in D : \A j \in D : k <= j
      <3>1. D \in SUBSET Nat /\ D # {}
        BY SMTT(30)
      <3> HIDE DEF D
      <3>2. QED
        BY <3>1, HayMinimo
    <2>2. PICK i \in B : k = n - i
      OBVIOUS
    <2>3. p[i] \in 1..n /\ p[i] > i
      OBVIOUS
    <2>4. p[p[i]] > p[i]
      BY <2>3
    <2>5. p[i] \in B
      BY <2>3, <2>4
    <2>6. n - p[i] \in D /\ n - p[i] < k
      BY <2>2, <2>3, <2>5
    <2>7. k \in Int /\ n - p[i] \in Int
      BY <2>2, <2>3
    <2> HIDE DEF B, D
    <2>8. k <= n - p[i]
      BY <2>1, <2>6
    <2>9. QED
      BY <2>6, <2>7, <2>8
  <1>3. QED
    BY <1>1, <1>2

\* Sorting a list that is in order leaves it as it is.
LEMMA YaOrdenado ==
  ASSUME NEW S, NEW segs \in Seq(S), EnOrden(segs), NEW t \in Ordenes(segs)
  PROVE  t = segs
  <1> DEFINE n == Len(segs)
  <1>1. PICK p \in {f \in [DOMAIN segs -> DOMAIN segs] : IsInjective(f)} :
           t = [i \in DOMAIN segs |-> segs[p[i]]]
    BY DEF Ordenes
  <1>2. \A i, j \in DOMAIN t : i < j => t[i].baseLogica <= t[j].baseLogica
    BY DEF Ordenes
  <1>3. DOMAIN segs = 1..n /\ n \in Nat /\ p \in [1..n -> 1..n]
    BY <1>1 DEF EnOrden
  <1>4. \A i, j \in 1..n : i < j => segs[i].baseLogica < segs[j].baseLogica
    <2> TAKE i, j \in 1..n
    <2> HAVE i < j
    <2>1. /\ segs[i].baseLogica \in Nat /\ segs[i].tamano \in Nat /\ segs[i].tamano > 0
          /\ segs[j].baseLogica \in Nat
          /\ segs[i].baseLogica + segs[i].tamano <= segs[j].baseLogica
      BY <1>3 DEF EnOrden
    <2>2. QED
      BY <2>1
  <1>5. \A i, j \in 1..n : p[i] = p[j] => i = j
    BY <1>1, <1>3 DEF IsInjective
  <1>6. \A i \in 1..n : segs[i].baseLogica \in Nat
    BY <1>3 DEF EnOrden
  <1>7. ASSUME NEW i \in 1..n, NEW j \in 1..n, i < j
        PROVE  p[i] < p[j]
    <2>1. segs[p[i]].baseLogica <= segs[p[j]].baseLogica
      BY <1>1, <1>2, <1>3, <1>7
    <2>2. p[i] \in 1..n /\ p[j] \in 1..n /\ p[i] # p[j]
      BY <1>3, <1>5, <1>7
    <2>3. ~(p[j] < p[i])
      BY <1>4, <1>6, <2>1, <2>2
    <2>4. QED
      BY <2>2, <2>3
  <1>8. \A i \in 1..n : p[i] = i
    BY <1>3, <1>7, CreceIdentica
  <1>9. t = [i \in 1..n |-> segs[i]]
    BY <1>1, <1>3, <1>8
  <1>10. QED
    BY <1>3, <1>9

\* An address of a segment with a page behind it, and its cell.
EnSeg(seg, dir) ==
    Contiene(seg, dir) /\ dir < seg.baseLogica + seg.tamano
    /\ (dir - seg.baseLogica) \div PAGE_SIZE < Len(seg.tablaPaginas)
CeldaEn(seg, dir) ==
    <<seg.tablaPaginas[(dir - seg.baseLogica) \div PAGE_SIZE + 1],
      (dir - seg.baseLogica) % PAGE_SIZE>>
CeldaDe(segs, dir) ==
    LET i == SelectInSeq(segs, LAMBDA seg : EnSeg(seg, dir))
    IN  IF i = 0 THEN SinCelda ELSE CeldaEn(segs[i], dir)

LEMMA CeldaEs ==
  ASSUME NEW id, NEW dir
  PROVE  /\ Celda(id, dir) = IF id \in DOMAIN procesos THEN CeldaDe(procesos[id], dir)
                             ELSE SinCelda
         /\ Celda(id, dir)' = IF id \in DOMAIN procesos' THEN CeldaDe(procesos'[id], dir)
                              ELSE SinCelda
  BY DEF Celda, SegDe, Segs, CeldaDe, EnSeg, CeldaEn, SelectInSeq

\* At most one segment has the address: it says the cell.
LEMMA CeldaUna ==
  ASSUME NEW segs, EnOrden(segs), NEW dir \in Nat
  PROVE  /\ \A i \in DOMAIN segs : EnSeg(segs[i], dir) => CeldaDe(segs, dir) = CeldaEn(segs[i], dir)
         /\ \/ CeldaDe(segs, dir) = SinCelda /\ \A i \in DOMAIN segs : ~EnSeg(segs[i], dir)
            \/ \E i \in DOMAIN segs :
                  EnSeg(segs[i], dir) /\ CeldaDe(segs, dir) = CeldaEn(segs[i], dir)
  <1> DEFINE I == {i \in 1..Len(segs) : EnSeg(segs[i], dir)}
             k == SelectInSeq(segs, LAMBDA seg : EnSeg(seg, dir))
  <1>1. k = IF I # {} THEN Min(I) ELSE 0
    BY DEF SelectInSeq
  <1>2. DOMAIN segs = 1..Len(segs) /\ I \in SUBSET Nat
    BY DEF EnOrden
  <1>3. ASSUME NEW i \in DOMAIN segs, NEW j \in DOMAIN segs,
               EnSeg(segs[i], dir), EnSeg(segs[j], dir)
        PROVE  i = j
    <2>1. /\ segs[i].baseLogica <= dir /\ dir < segs[i].baseLogica + segs[i].tamano
          /\ segs[j].baseLogica <= dir /\ dir < segs[j].baseLogica + segs[j].tamano
      BY <1>3 DEF EnSeg, Contiene
    <2>2. /\ segs[i].baseLogica \in Nat /\ segs[i].tamano \in Nat
          /\ segs[j].baseLogica \in Nat /\ segs[j].tamano \in Nat
          /\ i \in Nat /\ j \in Nat
      BY <1>2 DEF EnOrden
    <2>3. /\ i < j => segs[i].baseLogica + segs[i].tamano <= segs[j].baseLogica
          /\ j < i => segs[j].baseLogica + segs[j].tamano <= segs[i].baseLogica
      BY DEF EnOrden
    <2>4. QED
      BY <2>1, <2>2, <2>3
  <1>4. CASE I = {}
    <2>1. CeldaDe(segs, dir) = SinCelda
      BY <1>1, <1>4 DEF CeldaDe
    <2>2. \A i \in DOMAIN segs : ~EnSeg(segs[i], dir)
      BY <1>2, <1>4
    <2>3. QED
      BY <2>1, <2>2
  <1>5. CASE I # {}
    <2>1. k \in I
      BY <1>1, <1>2, <1>5, PrimeroEsta
    <2>2. k # 0
      BY <2>1
    <2>3. CeldaDe(segs, dir) = CeldaEn(segs[k], dir)
      BY <2>2 DEF CeldaDe
    <2>4. k \in DOMAIN segs /\ EnSeg(segs[k], dir)
      BY <1>2, <2>1
    <2> HIDE DEF k, I
    <2>5. QED
      BY <1>3, <2>3, <2>4
  <1>6. QED
    BY <1>4, <1>5

LEMMA CeldaTipo ==
  ASSUME FisicaOK, NEW seg \in Segmento, NEW dir \in Nat, EnSeg(seg, dir)
  PROVE  /\ CeldaEn(seg, dir) \in Hechas \X Offsets
         /\ CeldaEn(seg, dir) # SinCelda
  <1>1. PICK d : d = dir - seg.baseLogica
    OBVIOUS
  <1>2. /\ seg.baseLogica \in Nat /\ seg.tablaPaginas \in Seq(Hechas)
    BY DEF Segmento
  <1>3. d \in Nat
    BY <1>1, <1>2 DEF EnSeg, Contiene
  <1>4. d \div PAGE_SIZE \in Nat /\ d % PAGE_SIZE \in Offsets
    BY <1>3, Division
  <1>5. d \div PAGE_SIZE + 1 \in 1..Len(seg.tablaPaginas)
    <2>1. PICK q : q = d \div PAGE_SIZE
      OBVIOUS
    <2>2. q \in Nat /\ q < Len(seg.tablaPaginas) /\ Len(seg.tablaPaginas) \in Nat
      BY <1>1, <1>2, <1>4, <2>1 DEF EnSeg
    <2>3. QED
      BY <2>1, <2>2
  <1>6. seg.tablaPaginas[d \div PAGE_SIZE + 1] \in Hechas
    BY <1>2, <1>5, ElementOfSeq
  <1>7. Hechas \subseteq Nat /\ Offsets \subseteq Nat
    BY HechasNat, Tamanos DEF Offsets
  <1>8. CeldaEn(seg, dir) = <<seg.tablaPaginas[d \div PAGE_SIZE + 1], d % PAGE_SIZE>>
    BY <1>1 DEF CeldaEn
  <1>9. CeldaEn(seg, dir) \in Hechas \X Offsets
    BY <1>4, <1>6, <1>8
  <1>10. Hechas \X Offsets \subseteq Nat \X Nat
    BY <1>7
  <1>11. QED
    BY <1>9, <1>10, MuseConstantes

(***************************************************************************)
(* What the cells hold while pages move.                                   *)
(***************************************************************************)
BytesQuietos == \A g \in Hechas, o \in Offsets : Byte(<<g, o>>)' = Byte(<<g, o>>)

LEMMA ByteEs ==
  ASSUME NEW g, NEW o
  PROVE  /\ Byte(<<g, o>>) = IF paginas[g].ubicacion = "MP" THEN memoria[paginas[g].nroframe][o]
                             ELSE disco[CHOOSE s \in Slots : swaps[s] = g][o]
         /\ Byte(<<g, o>>)' = IF paginas'[g].ubicacion = "MP"
                              THEN memoria'[paginas'[g].nroframe][o]
                              ELSE disco'[CHOOSE s \in Slots : swaps'[s] = g][o]
  BY DEF Byte, leerMMap

LEMMA UnSlot ==
  ASSUME NEW sw, NEW g, NEW l \in Slots, \A t \in Slots : sw[t] = g <=> t = l
  PROVE  (CHOOSE s \in Slots : sw[s] = g) = l
  OBVIOUS

LEMMA SlotDe ==
  ASSUME IInv, NEW g \in Hechas, paginas[g].ubicacion # "MP"
  PROVE  \E l \in Slots : \A t \in Slots : swaps[t] = g <=> t = l
  <1>1. paginas[g].ubicacion = "SWAP"
    BY Partes, HechasNat DEF Pagina
  <1>2. QED
    BY <1>1, Partes DEF UnLugar

LEMMA BytesMismos ==
  ASSUME UNCHANGED <<memoria, disco, swaps>>,
         \A g \in Hechas : /\ paginas'[g].ubicacion = paginas[g].ubicacion
                           /\ paginas'[g].nroframe = paginas[g].nroframe
  PROVE  BytesQuietos
  <1> SUFFICES ASSUME NEW g \in Hechas, NEW o \in Offsets
               PROVE  Byte(<<g, o>>)' = Byte(<<g, o>>)
    BY DEF BytesQuietos
  <1>1. swaps' = swaps /\ memoria' = memoria /\ disco' = disco
    OBVIOUS
  <1>2. Byte(<<g, o>>)' = IF paginas[g].ubicacion = "MP" THEN memoria[paginas[g].nroframe][o]
                          ELSE disco[CHOOSE s \in Slots : swaps[s] = g][o]
    BY <1>1, ByteEs
  <1>3. QED
    BY <1>2, ByteEs

LEMMA BytesDesaloja ==
  ASSUME IInv, NEW f, NEW v, NEW s, NEW n, EfectoDesalojar(f, v, s, n)
  PROVE  BytesQuietos
  <1> SUFFICES ASSUME NEW g \in Hechas, NEW o \in Offsets
               PROVE  Byte(<<g, o>>)' = Byte(<<g, o>>)
    BY DEF BytesQuietos
  <1>0. /\ disco \in [Slots -> Bloques] /\ g # 0 /\ v # 0
    BY Partes, HechasNat DEF FisicaOK, EfectoDesalojar
  <1>1. disco' = [disco EXCEPT ![s] = memoria[f]] /\ memoria' = memoria /\ s \in Slots
    BY DEF EfectoDesalojar, ContenidoDe
  <1>2. CASE g = v
    <2>1. \A t \in Slots : swaps[t] # v
      BY <1>0, Partes DEF UnLugar, EfectoDesalojar
    <2>2. \A t \in Slots : swaps'[t] = g <=> t = s
      BY <1>2, <2>1 DEF EfectoDesalojar
    <2>3. (CHOOSE t \in Slots : swaps'[t] = g) = s
      BY <1>1, <2>2, UnSlot
    <2>4. /\ paginas[g].ubicacion = "MP" /\ paginas[g].nroframe = f
          /\ paginas'[g].ubicacion = "SWAP"
      BY <1>2 DEF EfectoDesalojar
    <2>5. Byte(<<g, o>>) = memoria[f][o]
      BY <2>4, ByteEs
    <2>6. Byte(<<g, o>>)' = disco'[s][o]
      BY <2>3, <2>4, ByteEs
    <2>7. disco'[s] = memoria[f]
      BY <1>0, <1>1
    <2>8. QED
      BY <2>5, <2>6, <2>7
  <1>3. CASE g # v /\ paginas[g].ubicacion = "MP"
    <2>1. paginas'[g] = paginas[g]
      BY <1>3 DEF EfectoDesalojar
    <2>2. QED
      BY <1>1, <1>3, <2>1, ByteEs
  <1>4. CASE g # v /\ paginas[g].ubicacion # "MP"
    <2>1. paginas'[g] = paginas[g]
      BY <1>4 DEF EfectoDesalojar
    <2>2. PICK l \in Slots : \A t \in Slots : swaps[t] = g <=> t = l
      BY <1>4, SlotDe
    <2>3. l # s
      BY <1>0, <2>2 DEF EfectoDesalojar
    <2>4. \A t \in Slots : swaps'[t] = g <=> t = l
      BY <1>4, <2>2, <2>3 DEF EfectoDesalojar
    <2>5. /\ (CHOOSE t \in Slots : swaps[t] = g) = l
          /\ (CHOOSE t \in Slots : swaps'[t] = g) = l
      BY <2>2, <2>4, UnSlot
    <2>6. disco'[l] = disco[l]
      BY <1>0, <1>1, <2>3
    <2>7. Byte(<<g, o>>) = disco[l][o]
      BY <1>4, <2>5, ByteEs
    <2>8. Byte(<<g, o>>)' = disco'[l][o]
      BY <1>4, <2>1, <2>5, ByteEs
    <2>9. QED
      BY <2>6, <2>7, <2>8
  <1>5. QED
    BY <1>2, <1>3, <1>4

\* The page of the victim does not take that of another with it.
LEMMA BytesTrae ==
  ASSUME IInv, Dueno, NEW f, NEW v, NEW s, NEW q, NEW l, EfectoTraer(f, v, s, q, l)
  PROVE  BytesQuietos
  <1> SUFFICES ASSUME NEW g \in Hechas, NEW o \in Offsets
               PROVE  Byte(<<g, o>>)' = Byte(<<g, o>>)
    BY DEF BytesQuietos
  <1>0. /\ disco \in [Slots -> Bloques] /\ memoria \in [Frames -> Bloques] /\ g # 0
        /\ paginas[g].nroframe \in Frames
    BY Partes, HechasNat DEF FisicaOK, Pagina
  <1>1. /\ disco' = [disco EXCEPT ![s] = memoria[f]] /\ memoria' = [memoria EXCEPT ![f] = disco[l]]
        /\ s \in Slots /\ l \in Slots /\ f \in Frames /\ l # s /\ q # v /\ v # 0
    BY DEF EfectoTraer, ContenidoDe
  <1>2. CASE g = v
    <2>1. \A t \in Slots : swaps[t] # v
      BY <1>1, Partes DEF UnLugar, EfectoTraer
    <2>2. \A t \in Slots : swaps'[t] = g <=> t = s
      BY <1>1, <1>2, <2>1 DEF EfectoTraer
    <2>3. (CHOOSE t \in Slots : swaps'[t] = g) = s
      BY <1>1, <2>2, UnSlot
    <2>4. /\ paginas[g].ubicacion = "MP" /\ paginas[g].nroframe = f
          /\ paginas'[g].ubicacion = "SWAP"
      BY <1>2 DEF EfectoTraer
    <2>5. Byte(<<g, o>>) = memoria[f][o]
      BY <2>4, ByteEs
    <2>6. Byte(<<g, o>>)' = disco'[s][o]
      BY <2>3, <2>4, ByteEs
    <2>7. disco'[s] = memoria[f]
      BY <1>0, <1>1
    <2>8. QED
      BY <2>5, <2>6, <2>7
  <1>3. CASE g = q
    <2>1. \A t \in Slots : swaps[t] = g <=> t = l
      BY <1>3 DEF EfectoTraer
    <2>2. (CHOOSE t \in Slots : swaps[t] = g) = l
      BY <1>1, <2>1, UnSlot
    <2>3. /\ paginas[g].ubicacion = "SWAP"
          /\ paginas'[g].ubicacion = "MP" /\ paginas'[g].nroframe = f
      BY <1>3 DEF EfectoTraer
    <2>4. Byte(<<g, o>>) = disco[l][o]
      BY <2>2, <2>3, ByteEs
    <2>5. Byte(<<g, o>>)' = memoria'[f][o]
      BY <2>3, ByteEs
    <2>6. memoria'[f] = disco[l]
      BY <1>0, <1>1
    <2>7. QED
      BY <2>4, <2>5, <2>6
  <1>4. CASE g # v /\ g # q /\ paginas[g].ubicacion = "MP"
    <2>1. paginas'[g] = paginas[g]
      BY <1>4 DEF EfectoTraer
    <2>2. paginas[g].nroframe # f
      <3>1. frames[paginas[g].nroframe].pagina = g
        BY <1>4 DEF Dueno
      <3>2. frames[f].pagina = v
        BY DEF Dueno, EfectoTraer
      <3>3. QED
        BY <1>4, <3>1, <3>2
    <2>3. memoria'[paginas[g].nroframe] = memoria[paginas[g].nroframe]
      BY <1>0, <1>1, <2>2
    <2>4. QED
      BY <1>4, <2>1, <2>3, ByteEs
  <1>5. CASE g # v /\ g # q /\ paginas[g].ubicacion # "MP"
    <2>1. paginas'[g] = paginas[g]
      BY <1>5 DEF EfectoTraer
    <2>2. PICK u \in Slots : \A t \in Slots : swaps[t] = g <=> t = u
      BY <1>5, SlotDe
    <2>3. u # s /\ u # l
      BY <1>0, <1>5, <2>2 DEF EfectoTraer
    <2>4. \A t \in Slots : swaps'[t] = g <=> t = u
      BY <1>0, <1>5, <2>2, <2>3 DEF EfectoTraer
    <2>5. /\ (CHOOSE t \in Slots : swaps[t] = g) = u
          /\ (CHOOSE t \in Slots : swaps'[t] = g) = u
      BY <2>2, <2>4, UnSlot
    <2>6. disco'[u] = disco[u]
      BY <1>0, <1>1, <2>3
    <2>7. Byte(<<g, o>>) = disco[u][o]
      BY <1>5, <2>5, ByteEs
    <2>8. Byte(<<g, o>>)' = disco'[u][o]
      BY <1>5, <2>1, <2>5, ByteEs
    <2>9. QED
      BY <2>6, <2>7, <2>8
  <1>6. QED
    BY <1>2, <1>3, <1>4, <1>5

LEMMA BytesLibre ==
  ASSUME IInv, CrearEnLibre
  PROVE  BytesQuietos
  <1>1. /\ \E x : paginas' = Append(paginas, x)
        /\ UNCHANGED <<memoria, swaps, disco>>
    BY DEF CrearEnLibre, crearPagina
  <1>2. paginas \in Seq(Pagina) /\ Len(paginas) \in Nat
    BY Partes, HechasNat DEF FisicaOK
  <1>3. \A g \in Hechas : paginas'[g] = paginas[g]
    BY <1>1, <1>2 DEF Hechas
  <1>4. QED
    BY <1>1, <1>3, BytesMismos

LEMMA BytesAgranda ==
  ASSUME IInv, NEW id, NEW segs, NEW i, NEW tam, agrandarSegmento(id, segs, i, tam)
  PROVE  BytesQuietos
  <1>1. /\ \E g : paginas' = [paginas EXCEPT ![g].desplazamiento = PAGE_SIZE]
        /\ UNCHANGED <<memoria, swaps, disco>>
    BY DEF agrandarSegmento
  <1>2. PICK g : paginas' = [paginas EXCEPT ![g].desplazamiento = PAGE_SIZE]
    BY <1>1
  <1>3. \A h \in Hechas : paginas[h] \in Pagina
    BY Partes, HechasNat
  <1>4. \A h \in Hechas : /\ paginas'[h].ubicacion = paginas[h].ubicacion
                          /\ paginas'[h].nroframe = paginas[h].nroframe
    BY <1>2, <1>3 DEF Hechas, Pagina
  <1>5. QED
    BY <1>1, <1>4, BytesMismos

\* What muse_copy writes of a page.
LEMMA ByteCopiado ==
  ASSUME IInv, Dueno, CopiarPagina, NEW g \in Hechas, NEW o \in Offsets
  PROVE  Byte(<<g, o>>)' = IF tarea.op = "cpy" /\ g = Pag /\ o - tarea.desp \in 0..aCopiar - 1
                           THEN tarea.datos[tarea.n - tarea.resta + o - tarea.desp + 1]
                           ELSE Byte(<<g, o>>)
  <1>1. Recorriendo /\ EnTabla /\ paginas[Pag].ubicacion = "MP"
    BY DEF CopiarPagina
  <1>2. Pag \in Hechas
    BY <1>1, PagEsta
  <1>3. PICK f, h, p : f = paginas[Pag].nroframe /\ h = tarea.n - tarea.resta /\ p = Pag
    OBVIOUS
  <1>4. f \in Frames /\ memoria \in [Frames -> Bloques] /\ paginas[g].nroframe \in Frames
    BY <1>2, <1>3, Partes, HechasNat DEF FisicaOK, Pagina
  <1>5. UNCHANGED <<paginas, swaps, disco>>
    BY DEF CopiarPagina
  <1>6. CASE tarea.op # "cpy"
    <2>1. memoria' = memoria
      BY <1>6 DEF CopiarPagina
    <2>2. QED
      BY <1>5, <1>6, <2>1, ByteEs
  <1>7. CASE tarea.op = "cpy"
    <2>1. memoria' = [memoria EXCEPT ![f] = [x \in Offsets |->
                         IF x - tarea.desp \in 0..aCopiar - 1
                         THEN tarea.datos[h + x - tarea.desp + 1] ELSE @[x]]]
      BY <1>3, <1>7 DEF CopiarPagina
    <2>2. memoria'[f][o] = IF o - tarea.desp \in 0..aCopiar - 1
                           THEN tarea.datos[h + o - tarea.desp + 1] ELSE memoria[f][o]
      BY <1>4, <2>1
    <2>3. \A e \in Frames : e # f => memoria'[e] = memoria[e]
      BY <1>4, <2>1
    <2>4. CASE g = p
      BY <1>1, <1>3, <1>5, <1>7, <2>2, <2>4, ByteEs
    <2>5. CASE g # p
      <3>1. CASE paginas[g].ubicacion = "MP"
        <4>1. frames[paginas[g].nroframe].pagina = g /\ frames[f].pagina = p
          BY <1>1, <1>2, <1>3, <3>1 DEF Dueno
        <4>2. paginas[g].nroframe # f
          BY <2>5, <4>1
        <4>3. QED
          BY <1>3, <1>4, <1>5, <2>3, <2>5, <3>1, <4>2, ByteEs
      <3>2. CASE paginas[g].ubicacion # "MP"
        BY <1>3, <1>5, <2>5, <3>2, ByteEs
      <3>3. QED
        BY <3>1, <3>2
    <2>6. QED
      BY <2>4, <2>5
  <1>8. QED
    BY <1>6, <1>7

\* Only a muse_cpy changes what a cell holds.
LEMMA BytesPaso ==
  ASSUME IInv, Dueno, [Next]_vars, ~(CopiarPagina /\ tarea.op = "cpy")
  PROVE  BytesQuietos
  <1>1. CASE UNCHANGED <<paginas, memoria, disco, swaps>>
    BY <1>1, BytesMismos
  <1>2. CASE Atender
    <2>1. CASE CrearDesalojando
      BY <2>1, DesalojarHace, BytesDesaloja
    <2>2. CASE TraerPagina
      BY <2>2, TraerHace, BytesTrae
    <2>3. CASE CopiarPagina
      BY <1>1, <2>3 DEF CopiarPagina
    <2>4. CASE SwapLleno \/ FueraDeTabla
      BY <1>1, <2>4 DEF SwapLleno, FueraDeTabla, Caer, fisica
    <2>5. QED
      BY <1>2, <2>1, <2>2, <2>3, <2>4, BytesLibre DEF Atender
  <1>3. ASSUME NEW id \in Ids, Pedir(id)
        PROVE  BytesQuietos
    <2>1. CASE \E n \in Largos : muse_alloc(id, n)
      BY <1>1, <2>1, BytesAgranda DEF muse_alloc, crearNuevoSegmento, Caer, fisica
    <2>2. CASE muse_init(id) \/ muse_close(id)
      BY <1>1, <2>2 DEF muse_init, muse_close, fisica
    <2>3. CASE \E n, path, flag : muse_map(id, path, n, flag)
      BY <1>1, <2>3 DEF muse_map, crearNuevoSegmento, fisica
    <2>4. CASE \E dir : muse_free(id, dir) \/ muse_unmap(id, dir)
      BY <1>1, <2>4 DEF muse_free, muse_unmap, Caer, fisica
    <2>5. CASE \E dir, t : muse_cpy(id, dir, t)
      BY <1>1, <2>5 DEF muse_cpy, fisica
    <2>6. CASE \E dir, n : muse_get(id, dir, n) \/ muse_sync(id, dir, n)
      BY <1>1, <2>6 DEF muse_get, muse_sync, Caer, fisica
    <2>7. QED
      BY <1>3, <2>1, <2>2, <2>3, <2>4, <2>5, <2>6 DEF Pedir
  <1>4. CASE UNCHANGED vars
    BY <1>1, <1>4 DEF vars, fisica
  <1>5. QED
    BY <1>2, <1>3, <1>4 DEF Next

(***************************************************************************)
(* The segments of a process only grow, at the end or into a gap, until    *)
(* one of them is unmapped.                                                *)
(***************************************************************************)
\* The segment b has what a has, and perhaps more behind it.
Sigue(a, b) ==
    /\ b.baseLogica = a.baseLogica /\ a.tamano <= b.tamano
    /\ Len(a.tablaPaginas) <= Len(b.tablaPaginas)
    /\ \A j \in 1..Len(a.tablaPaginas) : b.tablaPaginas[j] = a.tablaPaginas[j]

Crecen(s, t) == \A i \in DOMAIN s : i \in DOMAIN t /\ Sigue(s[i], t[i])
Quedan(s, t) == \A j \in DOMAIN t : \E k \in DOMAIN s : t[j] = s[k]

LEMMA CeldaCrece ==
  ASSUME NEW s, NEW t, EnOrden(s), EnOrden(t), Crecen(s, t), NEW dir \in Nat,
         CeldaDe(s, dir) # SinCelda
  PROVE  CeldaDe(t, dir) = CeldaDe(s, dir)
  <1>1. PICK i \in DOMAIN s : EnSeg(s[i], dir) /\ CeldaDe(s, dir) = CeldaEn(s[i], dir)
    BY CeldaUna
  <1>2. PICK a, b : a = s[i] /\ b = t[i]
    OBVIOUS
  <1>3. /\ i \in DOMAIN t /\ Sigue(a, b)
        /\ a.baseLogica \in Nat /\ a.tamano \in Nat /\ Len(a.tablaPaginas) \in Nat
        /\ b.tamano \in Nat /\ Len(b.tablaPaginas) \in Nat
    BY <1>2 DEF Crecen, EnOrden
  <1>4. PICK q : q = (dir - a.baseLogica) \div PAGE_SIZE
    OBVIOUS
  <1>5. PICK d : d = dir - a.baseLogica
    OBVIOUS
  <1>6. /\ a.baseLogica <= dir /\ dir <= a.baseLogica + a.tamano
        /\ dir < a.baseLogica + a.tamano /\ q < Len(a.tablaPaginas)
    BY <1>1, <1>2, <1>4 DEF EnSeg, Contiene
  <1>7. d \in Nat
    BY <1>3, <1>5, <1>6
  <1>8. q \in Nat
    BY <1>4, <1>5, <1>7, Division
  <1>9. EnSeg(b, dir)
    <2>1. /\ b.baseLogica = a.baseLogica /\ a.tamano <= b.tamano
          /\ Len(a.tablaPaginas) <= Len(b.tablaPaginas)
      BY <1>3 DEF Sigue
    <2>2. b.baseLogica <= dir /\ dir < b.baseLogica + b.tamano /\ dir <= b.baseLogica + b.tamano
          /\ q < Len(b.tablaPaginas)
      BY <1>3, <1>6, <1>8, <2>1
    <2>3. QED
      BY <1>4, <2>1, <2>2 DEF EnSeg, Contiene
  <1>10. b.tablaPaginas[q + 1] = a.tablaPaginas[q + 1]
    <2>1. q + 1 \in 1..Len(a.tablaPaginas)
      BY <1>3, <1>6, <1>8
    <2>2. QED
      BY <1>3, <2>1 DEF Sigue
  <1>11. CeldaEn(b, dir) = CeldaEn(a, dir)
    BY <1>3, <1>4, <1>10 DEF CeldaEn, Sigue
  <1>12. CeldaDe(t, dir) = CeldaEn(b, dir)
    BY <1>2, <1>3, <1>9, CeldaUna
  <1>13. QED
    BY <1>1, <1>2, <1>11, <1>12

LEMMA CeldaQueda ==
  ASSUME NEW s, NEW t, EnOrden(s), EnOrden(t), Quedan(s, t), NEW dir \in Nat
  PROVE  CeldaDe(t, dir) \in {CeldaDe(s, dir), SinCelda}
  <1>1. CASE CeldaDe(t, dir) = SinCelda
    BY <1>1
  <1>2. CASE \E j \in DOMAIN t : EnSeg(t[j], dir) /\ CeldaDe(t, dir) = CeldaEn(t[j], dir)
    <2>1. PICK j \in DOMAIN t : EnSeg(t[j], dir) /\ CeldaDe(t, dir) = CeldaEn(t[j], dir)
      BY <1>2
    <2>2. PICK k \in DOMAIN s : t[j] = s[k]
      BY DEF Quedan
    <2>3. CeldaDe(s, dir) = CeldaEn(s[k], dir)
      BY <2>1, <2>2, CeldaUna
    <2>4. QED
      BY <2>1, <2>2, <2>3
  <1>3. QED
    BY <1>1, <1>2, CeldaUna

\* A segment is added behind the last.
LEMMA OrdenAgrega ==
  ASSUME NEW S, NEW s \in Seq(S), EnOrden(s), NEW x, x.baseLogica = segUltimaPosicion(s),
         x.tamano \in Nat, x.tamano > 0, Len(x.tablaPaginas) \in Nat
  PROVE  EnOrden(Append(s, x)) /\ Crecen(s, Append(s, x))
  <1>1. PICK t : t = Append(s, x)
    OBVIOUS
  <1>2. PICK n : n = Len(s)
    OBVIOUS
  <1>3. /\ n \in Nat /\ DOMAIN s = 1..n /\ DOMAIN t = 1..n + 1 /\ Len(t) = n + 1
        /\ \A i \in 1..n : t[i] = s[i]
        /\ t[n + 1] = x
    BY <1>1, <1>2
  <1>4. \A i \in 1..n : /\ s[i].baseLogica \in Nat /\ s[i].tamano \in Nat /\ s[i].tamano > 0
                        /\ Len(s[i].tablaPaginas) \in Nat
    BY <1>3 DEF EnOrden
  <1>5. x.baseLogica \in Nat /\ \A i \in 1..n : s[i].baseLogica + s[i].tamano <= x.baseLogica
    <2>1. CASE s = <<>>
      <3>1. x.baseLogica = 0 /\ n = 0
        BY <1>2, <2>1 DEF segUltimaPosicion
      <3>2. QED
        BY <3>1
    <2>2. CASE s # <<>>
      <3>1. /\ x.baseLogica = s[n].baseLogica + s[n].tamano /\ n \in 1..n
        BY <1>2, <1>3, <2>2 DEF segUltimaPosicion, Last
      <3>2. ASSUME NEW i \in 1..n
            PROVE  s[i].baseLogica + s[i].tamano <= x.baseLogica
        <4>1. i < n => s[i].baseLogica + s[i].tamano <= s[n].baseLogica
          BY <1>3, <3>1 DEF EnOrden
        <4>2. /\ s[i].baseLogica \in Nat /\ s[i].tamano \in Nat
              /\ s[n].baseLogica \in Nat /\ s[n].tamano \in Nat
          BY <1>4, <3>1
        <4>3. i < n \/ i = n
          BY <1>3
        <4>4. QED
          BY <3>1, <4>1, <4>2, <4>3, SMTT(30)
      <3>3. QED
        BY <1>4, <3>1, <3>2
    <2>3. QED
      BY <2>1, <2>2
  <1>6. \A i \in 1..n + 1 : /\ t[i].baseLogica \in Nat /\ t[i].tamano \in Nat /\ t[i].tamano > 0
                            /\ Len(t[i].tablaPaginas) \in Nat
    BY <1>3, <1>4, <1>5
  <1>7. ASSUME NEW i \in 1..n + 1, NEW j \in 1..n + 1, i < j
        PROVE  t[i].baseLogica + t[i].tamano <= t[j].baseLogica
    <2>1. i \in 1..n /\ (j \in 1..n \/ j = n + 1)
      BY <1>3, <1>7
    <2>2. j \in 1..n => s[i].baseLogica + s[i].tamano <= s[j].baseLogica
      BY <1>3, <1>7, <2>1 DEF EnOrden
    <2>3. QED
      BY <1>3, <1>5, <2>1, <2>2
  <1>8. EnOrden(t)
    BY <1>3, <1>6, <1>7 DEF EnOrden
  <1>9. Crecen(s, t)
    BY <1>3, <1>4 DEF Crecen, Sigue
  <1>10. QED
    BY <1>1, <1>8, <1>9

\* A segment grows, up to the next one.
LEMMA OrdenPone ==
  ASSUME NEW S, NEW s \in Seq(S), EnOrden(s), NEW i \in DOMAIN s, NEW x, Sigue(s[i], x),
         x.tamano \in Nat, Len(x.tablaPaginas) \in Nat,
         \A j \in DOMAIN s : i < j => x.baseLogica + x.tamano <= s[j].baseLogica,
         NEW t, t = [s EXCEPT ![i] = x]
  PROVE  EnOrden(t) /\ Crecen(s, t)
  <1>1. PICK n : n = Len(s)
    OBVIOUS
  <1>2. /\ n \in Nat /\ DOMAIN s = 1..n /\ DOMAIN t = 1..n /\ Len(t) = n
        /\ \A j \in 1..n : j # i => t[j] = s[j]
        /\ t[i] = x
    BY <1>1
  <1>3. \A j \in 1..n : /\ s[j].baseLogica \in Nat /\ s[j].tamano \in Nat /\ s[j].tamano > 0
                        /\ Len(s[j].tablaPaginas) \in Nat
    BY <1>2 DEF EnOrden
  <1>4. x.baseLogica = s[i].baseLogica /\ s[i].tamano <= x.tamano
    BY DEF Sigue
  <1>5. \A j \in 1..n : /\ t[j].baseLogica \in Nat /\ t[j].tamano \in Nat /\ t[j].tamano > 0
                        /\ Len(t[j].tablaPaginas) \in Nat
    <2> TAKE j \in 1..n
    <2>1. CASE j = i
      <3>1. s[i].baseLogica \in Nat /\ s[i].tamano \in Nat /\ s[i].tamano > 0
        BY <1>2, <1>3
      <3>2. QED
        BY <1>2, <1>4, <2>1, <3>1
    <2>2. CASE j # i
      BY <1>2, <1>3, <2>2
    <2>3. QED
      BY <2>1, <2>2
  <1>6. ASSUME NEW j \in 1..n, NEW k \in 1..n, j < k
        PROVE  t[j].baseLogica + t[j].tamano <= t[k].baseLogica
    <2>1. s[j].baseLogica + s[j].tamano <= s[k].baseLogica
      BY <1>2, <1>6 DEF EnOrden
    <2>2. t[k].baseLogica = s[k].baseLogica
      BY <1>2, <1>4
    <2>3. CASE j = i
      BY <1>2, <1>6, <2>2, <2>3
    <2>4. CASE j # i
      BY <1>2, <2>1, <2>2, <2>4
    <2>5. QED
      BY <2>3, <2>4
  <1>7. EnOrden(t)
    BY <1>2, <1>5, <1>6 DEF EnOrden
  <1>8. \A j \in 1..n : Sigue(s[j], s[j])
    BY <1>3 DEF Sigue
  <1>9. Crecen(s, t)
    BY <1>2, <1>8 DEF Crecen
  <1>10. QED
    BY <1>7, <1>9

\* A segment is taken out.
LEMMA OrdenQuita ==
  ASSUME NEW S, NEW s \in Seq(S), EnOrden(s), NEW i \in DOMAIN s, NEW t, t = RemoveAt(s, i)
  PROVE  EnOrden(t) /\ Quedan(s, t)
  <1>1. PICK n : n = Len(s)
    OBVIOUS
  <1> DEFINE c(j) == IF j < i THEN j ELSE j + 1
  <1>2. /\ n \in Nat /\ DOMAIN s = 1..n /\ i \in 1..n
        /\ DOMAIN t = 1..n - 1 /\ Len(t) = n - 1 /\ n - 1 \in Nat
        /\ \A j \in 1..n - 1 : t[j] = s[c(j)]
    <2>1. n \in Nat /\ DOMAIN s = 1..n /\ i \in 1..n
      BY <1>1
    <2>2. /\ Len(t) = n - 1 /\ DOMAIN t = 1..n - 1
          /\ \A j \in 1..n - 1 : t[j] = s[IF j < i THEN j ELSE j + 1]
      BY <1>1, SeqQuita
    <2>3. n - 1 \in Nat
      BY <2>1
    <2>4. QED
      BY <2>1, <2>2, <2>3
  <1>3. \A j \in 1..n - 1 : c(j) \in 1..n
    BY <1>2
  <1>4. \A j, k \in 1..n - 1 : j < k => c(j) < c(k)
    BY <1>2
  <1> HIDE DEF c
  <1>5. \A j \in 1..n - 1 : /\ t[j].baseLogica \in Nat /\ t[j].tamano \in Nat /\ t[j].tamano > 0
                            /\ Len(t[j].tablaPaginas) \in Nat
    BY <1>2, <1>3 DEF EnOrden
  <1>6. \A j, k \in 1..n - 1 : j < k => t[j].baseLogica + t[j].tamano <= t[k].baseLogica
    BY <1>2, <1>3, <1>4 DEF EnOrden
  <1>7. EnOrden(t)
    BY <1>2, <1>5, <1>6 DEF EnOrden
  <1>8. QED
    BY <1>2, <1>3, <1>7 DEF Quedan

\* The list of a process, empty before muse_init.
ListaDe(id) == IF id \in DOMAIN procesos THEN procesos[id] ELSE <<>>
Ordenados == \A id \in DOMAIN procesos : EnOrden(procesos[id])

\* A step changes the list of one process at most, which grows or loses segments.
ListasQuietas == \A id : ListaDe(id)' = ListaDe(id)
CambiaLista(id) ==
    /\ \A o : o # id => ListaDe(o)' = ListaDe(o)
    /\ Crecen(ListaDe(id), ListaDe(id)') \/ Quedan(ListaDe(id), ListaDe(id)')
PasoDeListas == Ordenados' /\ (ListasQuietas \/ \E id \in Ids : CambiaLista(id))

LEMMA ListaOrdenada ==
  ASSUME NEW id
  PROVE  /\ Ordenados => EnOrden(ListaDe(id))
         /\ Ordenados' => EnOrden(ListaDe(id)')
  <1>1. EnOrden(<<>>)
    BY DEF EnOrden
  <1>2. QED
    BY <1>1 DEF Ordenados, ListaDe

LEMMA ListasIguales ==
  ASSUME Ordenados, UNCHANGED procesos
  PROVE  PasoDeListas
  BY DEF Ordenados, PasoDeListas, ListasQuietas, ListaDe

LEMMA CambiaUna ==
  ASSUME IInv, Ordenados, NEW id \in DOMAIN procesos, NEW t, EnOrden(t),
         procesos' = [procesos EXCEPT ![id] = t],
         Crecen(procesos[id], t) \/ Quedan(procesos[id], t)
  PROVE  PasoDeListas
  <1>1. DOMAIN procesos' = DOMAIN procesos /\ id \in Ids
    BY Partes DEF ProcesosOK
  <1>2. procesos'[id] = t /\ \A o \in DOMAIN procesos : o # id => procesos'[o] = procesos[o]
    OBVIOUS
  <1>3. Ordenados'
    BY <1>1, <1>2 DEF Ordenados
  <1>4. /\ ListaDe(id) = procesos[id] /\ ListaDe(id)' = t
        /\ \A o : o # id => ListaDe(o)' = ListaDe(o)
    BY <1>1, <1>2 DEF ListaDe
  <1>5. CambiaLista(id)
    BY <1>4 DEF CambiaLista
  <1>6. QED
    BY <1>1, <1>3, <1>5 DEF PasoDeListas

LEMMA ListaTipo ==
  ASSUME IInv, Ordenados, NEW id \in DOMAIN procesos
  PROVE  /\ Segs(id) = procesos[id] /\ procesos[id] \in Seq(Segmento) /\ EnOrden(procesos[id])
         /\ segUltimaPosicion(Segs(id)) \in Nat
         /\ \A i \in DOMAIN procesos[id] : procesos[id][i] \in Segmento
  <1>1. Segs(id) = procesos[id] /\ procesos[id] \in Seq(Segmento) /\ EnOrden(procesos[id])
    BY Partes DEF ProcesosOK, Segs, Ordenados
  <1>2. QED
    BY <1>1, UltimaPosicionTipo

LEMMA ListasInicio ==
  ASSUME Ordenados, NEW id, muse_init(id)
  PROVE  PasoDeListas
  <1>1. /\ procesos' = [i \in DOMAIN procesos \cup {id} |->
                          IF i = id THEN <<>> ELSE procesos[i]]
        /\ id \notin DOMAIN procesos
    BY DEF muse_init
  <1>2. EnOrden(<<>>)
    BY DEF EnOrden
  <1>3. Ordenados'
    BY <1>1, <1>2 DEF Ordenados
  <1>4. ListasQuietas
    BY <1>1 DEF ListasQuietas, ListaDe
  <1>5. QED
    BY <1>3, <1>4 DEF PasoDeListas

LEMMA ListasNuevo ==
  ASSUME IInv, Ordenados, NEW id \in DOMAIN procesos, NEW tam \in Positivos, NEW tipo,
         NEW S, NEW pags \in Seq(S), NEW m,
         procesos' = ConSegs(id, Append(Segs(id), NuevoSegmento(id, tam, tipo, pags, m)))
  PROVE  PasoDeListas
  <1>1. PICK x : x = NuevoSegmento(id, tam, tipo, pags, m)
    OBVIOUS
  <1>2. /\ x.baseLogica = segUltimaPosicion(procesos[id]) /\ x.tamano = tam
        /\ x.tablaPaginas = pags
    BY <1>1 DEF NuevoSegmento, Segs
  <1>3. PICK t : t = Append(procesos[id], x)
    OBVIOUS
  <1>4. EnOrden(t) /\ Crecen(procesos[id], t)
    <2>1. x.tamano \in Nat /\ x.tamano > 0 /\ Len(x.tablaPaginas) \in Nat
      BY <1>2 DEF Positivos
    <2>2. QED
      BY <1>2, <1>3, <2>1, ListaTipo, OrdenAgrega
  <1>5. procesos' = [procesos EXCEPT ![id] = t]
    BY <1>1, <1>3 DEF ConSegs, Segs
  <1>6. QED
    BY <1>4, <1>5, CambiaUna

LEMMA ListasAgranda ==
  ASSUME IInv, Ordenados, NEW id \in DOMAIN procesos, NEW tam \in Positivos, NEW i,
         i = segmentoAgrandar(Segs(id), tam, "HEAP"), i # 0,
         agrandarSegmento(id, Segs(id), i, tam)
  PROVE  PasoDeListas
  <1>1. PICK s : s = procesos[id]
    OBVIOUS
  <1>2. s = Segs(id) /\ s \in Seq(Segmento) /\ EnOrden(s)
    BY <1>1, ListaTipo
  <1>3. i \in DOMAIN s /\ Agrandable(s, tam, "HEAP", i)
    BY <1>2, AgrandableEsta
  <1>4. PICK seg \in Segmento : seg = s[i]
    BY <1>2, <1>3
  <1>5. PICK ms : ms = seg.metadatas \cup {[dir |-> seg.baseLogica + seg.tamano, tam |-> tam]}
    OBVIOUS
  <1>6. PICK x : x = [seg EXCEPT !.tamano = @ + tam, !.metadatas = ms]
    OBVIOUS
  <1>7. /\ x.baseLogica = seg.baseLogica /\ x.tamano = seg.tamano + tam
        /\ x.tablaPaginas = seg.tablaPaginas
        /\ seg.baseLogica \in Nat /\ seg.tamano \in Nat /\ Len(seg.tablaPaginas) \in Nat
        /\ tam \in Nat
    BY <1>6 DEF Segmento, Positivos
  <1>8. procesos' = [procesos EXCEPT ![id] = [s EXCEPT ![i] = x]]
    <2>1. procesos' = ConSegs(id, [s EXCEPT ![i].tamano = @ + tam,
               ![i].metadatas = @ \cup {[dir |-> seg.baseLogica + seg.tamano, tam |-> tam]}])
      BY <1>2, <1>4 DEF agrandarSegmento
    <2>2. [s EXCEPT ![i].tamano = @ + tam,
               ![i].metadatas = @ \cup {[dir |-> seg.baseLogica + seg.tamano, tam |-> tam]}]
          = [s EXCEPT ![i] = x]
      BY <1>2, <1>3, <1>4, <1>5, <1>6 DEF Segmento
    <2>3. QED
      BY <2>1, <2>2 DEF ConSegs
  <1>9. ASSUME NEW j \in DOMAIN s, i < j
        PROVE  x.baseLogica + x.tamano <= s[j].baseLogica
    <2>1. /\ Len(s) \in Nat /\ DOMAIN s = 1..Len(s) /\ i \in 1..Len(s) /\ j \in 1..Len(s)
          /\ i + 1 \in 1..Len(s)
      BY <1>2, <1>3, <1>9
    <2>2. seg.baseLogica + seg.tamano + tam < s[i + 1].baseLogica
      <3>1. i < Len(s)
        BY <1>9, <2>1
      <3>2. i < Len(s) => s[i].baseLogica + s[i].tamano + tam < s[i + 1].baseLogica
        BY <1>3 DEF Agrandable
      <3>3. QED
        BY <1>4, <3>1, <3>2
    <2>3. j = i + 1 \/ i + 1 < j
      BY <1>9, <2>1
    <2>4. i + 1 < j => s[i + 1].baseLogica + s[i + 1].tamano <= s[j].baseLogica
      BY <1>2, <2>1 DEF EnOrden
    <2>5. s[i + 1].baseLogica \in Nat /\ s[i + 1].tamano \in Nat /\ s[j].baseLogica \in Nat
      BY <1>2, <2>1 DEF EnOrden
    <2>6. QED
      BY <1>7, <2>2, <2>3, <2>4, <2>5, SMTT(30)
  <1>10. Sigue(seg, x) /\ x.tamano \in Nat /\ Len(x.tablaPaginas) \in Nat
    BY <1>7 DEF Sigue
  <1>11. PICK t : t = [s EXCEPT ![i] = x]
    OBVIOUS
  <1>12. EnOrden(t) /\ Crecen(s, t)
    BY <1>2, <1>3, <1>4, <1>9, <1>10, <1>11, OrdenPone
  <1>13. QED
    BY <1>1, <1>8, <1>11, <1>12, CambiaUna

LEMMA ListasReserva ==
  ASSUME IInv, Ordenados, NEW id, NEW tam \in Positivos, muse_alloc(id, tam)
  PROVE  PasoDeListas
  <1>1. id \in DOMAIN procesos
    BY DEF muse_alloc, Llamar
  <1>2. PICK segs \in Ordenes(Segs(id)) :
          \/ UNCHANGED procesos
          \/ /\ segmentoAgrandar(segs, tam, "HEAP") # 0
             /\ agrandarSegmento(id, segs, segmentoAgrandar(segs, tam, "HEAP"), tam)
    BY DEF muse_alloc, Caer, tablas
  <1>3. segs = Segs(id)
    BY <1>1, ListaTipo, YaOrdenado
  <1>4. QED
    BY <1>1, <1>2, <1>3, ListasIguales, ListasAgranda

LEMMA ListasMapeo ==
  ASSUME IInv, Ordenados, NEW id, NEW path, NEW n \in Positivos, NEW flag,
         muse_map(id, path, n, flag)
  PROVE  PasoDeListas
  <1>1. id \in DOMAIN procesos
    BY DEF muse_map, Llamar
  <1>2. CASE UNCHANGED procesos
    BY <1>2, ListasIguales
  <1>3. CASE /\ path \in DOMAIN archivosMappeados
             /\ procesos' = ConSegs(id, Append(Segs(id), NuevoSegmento(id, n, "MAP",
                                        archivosMappeados[path].paginas, {})))
    <2>1. archivosMappeados[path].paginas \in Seq(Hechas)
      BY <1>3, Partes DEF ArchivosOK, Archivo
    <2>2. QED
      BY <1>1, <1>3, <2>1, ListasNuevo
  <1>4. QED
    BY <1>2, <1>3 DEF muse_map, tablas

LEMMA ListasDesmapeo ==
  ASSUME IInv, Ordenados, NEW id \in Ids, NEW dir \in Nat, muse_unmap(id, dir)
  PROVE  PasoDeListas
  <1>1. id \in DOMAIN procesos
    BY DEF muse_unmap, Llamar
  <1>2. CASE ~EnMapa(id, dir)
    BY <1>2, ListasIguales DEF muse_unmap, tablas
  <1>3. CASE EnMapa(id, dir)
    <2>1. PICK i : i = obtenerSegmento(Segs(id), dir)
      OBVIOUS
    <2>2. PICK t : t = RemoveAt(procesos[id], i)
      OBVIOUS
    <2>3. i \in DOMAIN procesos[id]
      BY <1>1, <1>3, <2>1, TieneArchivo DEF Segs
    <2>4. EnOrden(t) /\ Quedan(procesos[id], t)
      BY <1>1, <2>2, <2>3, ListaTipo, OrdenQuita
    <2>5. procesos' = [procesos EXCEPT ![id] = t]
      BY <1>3, <2>1, <2>2 DEF muse_unmap, ConSegs, Segs
    <2>6. QED
      BY <1>1, <2>4, <2>5, CambiaUna
  <1>4. QED
    BY <1>2, <1>3

LEMMA ListasCrece ==
  ASSUME IInv, Ordenados, NEW n, HacePagina(n), tarea.op = "crecer"
  PROVE  PasoDeListas
  <1>0. PICK id, i : id = tarea.id /\ i = tarea.seg
    OBVIOUS
  <1>1. tarea # Nada /\ tarea \in TareaCrecer
    BY Partes DEF TareaTipo, TareaCrear, TareaRecorrer, HacePagina, Creando
  <1>2. id \in DOMAIN procesos /\ i \in DOMAIN procesos[id]
    BY <1>0, <1>1, Partes DEF TareaTipo, TareaOK, TareaCrecer, Segs
  <1>3. PICK s : s = procesos[id]
    OBVIOUS
  <1>4. s \in Seq(Segmento) /\ EnOrden(s) /\ i \in DOMAIN s
    BY <1>2, <1>3, ListaTipo
  <1>5. PICK seg \in Segmento : seg = s[i]
    BY <1>4
  <1>6. PICK u : u = Append(seg.tablaPaginas, n)
    OBVIOUS
  <1>7. PICK x : x = [seg EXCEPT !.tablaPaginas = u]
    OBVIOUS
  <1>8. /\ x.baseLogica = seg.baseLogica /\ x.tamano = seg.tamano /\ x.tablaPaginas = u
        /\ seg.baseLogica \in Nat /\ seg.tamano \in Nat /\ seg.tablaPaginas \in Seq(Hechas)
    BY <1>7 DEF Segmento
  <1>9. /\ Len(u) = Len(seg.tablaPaginas) + 1 /\ Len(seg.tablaPaginas) \in Nat
        /\ \A j \in 1..Len(seg.tablaPaginas) : u[j] = seg.tablaPaginas[j]
    BY <1>6, <1>8
  <1>10. Sigue(seg, x) /\ x.tamano \in Nat /\ Len(x.tablaPaginas) \in Nat
    BY <1>8, <1>9 DEF Sigue
  <1>11. PICK t : t = [s EXCEPT ![i] = x]
    OBVIOUS
  <1>12. \A j \in DOMAIN s : i < j => x.baseLogica + x.tamano <= s[j].baseLogica
    BY <1>4, <1>5, <1>8 DEF EnOrden
  <1>13. EnOrden(t) /\ Crecen(s, t)
    BY <1>4, <1>5, <1>10, <1>11, <1>12, OrdenPone
  <1>14. procesos' = [procesos EXCEPT ![id] = t]
    <2>1. procesos' = [procesos EXCEPT ![id][i].tablaPaginas = Append(@, n)]
      BY <1>0 DEF HacePagina, Anexar
    <2>2. QED
      BY <1>2, <1>3, <1>4, <1>5, <1>6, <1>7, <1>11, <2>1
  <1>15. QED
    BY <1>2, <1>3, <1>13, <1>14, CambiaUna

LEMMA ListasCrea ==
  ASSUME IInv, Ordenados, NEW n, HacePagina(n), tarea.op = "crear"
  PROVE  PasoDeListas
  <1>1. tarea # Nada /\ tarea \in TareaCrear
    BY Partes DEF TareaTipo, TareaCrecer, TareaRecorrer, HacePagina, Creando
  <1>2. PICK id, tam, tipo, pags : /\ id = tarea.id /\ tam = tarea.tam /\ tipo = tarea.tipo
                                   /\ pags = Append(tarea.pags, n)
    OBVIOUS
  <1>3. id \in DOMAIN procesos /\ tam \in Positivos /\ tarea.pags \in Seq(Hechas)
    BY <1>1, <1>2 DEF TareaCrear
  <1>4. pags \in Seq(Hechas \cup {n})
    <2>1. tarea.pags \in Seq(Hechas \cup {n})
      BY <1>3, SeqMonotonic
    <2>2. QED
      BY <1>2, <2>1, SeqAgrega
  <1>5. CASE UNCHANGED procesos
    BY <1>5, ListasIguales
  <1>6. PICK m : m = {[dir |-> segUltimaPosicion(Segs(id)), tam |-> tam]}
    OBVIOUS
  <1>7. \/ UNCHANGED procesos
        \/ procesos' = ConSegs(id, Append(Segs(id), NuevoSegmento(id, tam, tipo, pags, m)))
    BY <1>2, <1>6 DEF HacePagina, Anexar, tablas
  <1>8. QED
    BY <1>3, <1>4, <1>5, <1>7, ListasNuevo

LEMMA ListasPaso ==
  ASSUME "close" \notin Pedidos, "free" \notin Pedidos, IInv, Ordenados, [Next]_vars
  PROVE  PasoDeListas
  <1>0. Direcciones \subseteq Nat /\ Largos \subseteq Positivos
    BY MuseConstantes DEF Positivos
  <1>1. CASE UNCHANGED procesos
    BY <1>1, ListasIguales
  <1>2. CASE Atender
    <2>1. CASE CrearEnLibre \/ CrearDesalojando
      <3>1. PICK n : HacePagina(n)
        BY <2>1, HaceUna
      <3>2. tarea.op = "crear" \/ tarea.op = "crecer"
        BY <3>1 DEF HacePagina, Creando
      <3>3. QED
        BY <3>1, <3>2, ListasCrece, ListasCrea
    <2>2. CASE TraerPagina \/ CopiarPagina \/ SwapLleno \/ FueraDeTabla
      BY <1>1, <2>2 DEF TraerPagina, CopiarPagina, SwapLleno, FueraDeTabla, Caer, tablas
    <2>3. QED
      BY <1>2, <2>1, <2>2 DEF Atender
  <1>3. ASSUME NEW id \in Ids, Pedir(id)
        PROVE  PasoDeListas
    <2>1. ~muse_close(id) /\ \A dir : ~muse_free(id, dir)
      BY DEF muse_close, muse_free, Llamar, Recibir
    <2>2. CASE \E dir \in Direcciones :
                 \/ \E texto \in Textos : muse_cpy(id, dir, texto)
                 \/ \E n \in Largos : muse_get(id, dir, n) \/ muse_sync(id, dir, n)
      BY <1>1, <2>2 DEF muse_cpy, muse_get, muse_sync, Caer, tablas
    <2>3. QED
      BY <1>0, <1>3, <2>1, <2>2, ListasInicio, ListasReserva, ListasMapeo, ListasDesmapeo DEF Pedir
  <1>4. CASE UNCHANGED vars
    BY <1>1, <1>4 DEF vars, tablas
  <1>5. QED
    BY <1>2, <1>3, <1>4 DEF Next

(***************************************************************************)
(* The walk of muse_cpy and muse_get over the pages.                       *)
(***************************************************************************)
\* A walk is inside its segment, and is at the address after those it has done.
Hecho(t) == t.n - t.resta
Recorrida(seg, t) ==
    /\ seg.baseLogica <= t.dir /\ t.dir + t.n <= seg.baseLogica + seg.tamano
    /\ t.op # "cpy" => Len(t.datos) = Hecho(t)
    /\ t.nro <= Len(seg.tablaPaginas) =>
          seg.baseLogica + (t.nro - 1) * PAGE_SIZE + t.desp = t.dir + Hecho(t)

\* The n addresses from dir on hold the first bytes of datos.
Leido(seg, dir, n, datos) ==
    \A m \in 0..n - 1 : EnSeg(seg, dir + m) /\ Byte(CeldaEn(seg, dir + m)) = datos[m + 1]

Caminando == tarea # Nada /\ tarea.op \in {"cpy", "get", "sync"}
TareaLeida ==
    Caminando => /\ Recorrida(procesos[tarea.id][tarea.seg], tarea)
                 /\ Leido(procesos[tarea.id][tarea.seg], tarea.dir, Hecho(tarea), tarea.datos)
Fiel == TareaLeida /\ (respuesta # Nada => tarea = Nada) /\ LecturaFiel

LEMMA LeidoSigue ==
  ASSUME FisicaOK, BytesQuietos, NEW seg \in Segmento, NEW dir \in Nat, NEW n \in Nat, NEW datos,
         Leido(seg, dir, n, datos)
  PROVE  Leido(seg, dir, n, datos)'
  <1> SUFFICES ASSUME NEW m \in 0..n - 1
               PROVE  EnSeg(seg, dir + m) /\ Byte(CeldaEn(seg, dir + m))' = datos[m + 1]
    BY DEF Leido
  <1>1. EnSeg(seg, dir + m) /\ Byte(CeldaEn(seg, dir + m)) = datos[m + 1]
    BY DEF Leido
  <1>2. CeldaEn(seg, dir + m) \in Hechas \X Offsets
    BY <1>1, CeldaTipo
  <1>3. PICK g \in Hechas, o \in Offsets : CeldaEn(seg, dir + m) = <<g, o>>
    BY <1>2
  <1>4. PICK c : c = CeldaEn(seg, dir + m)
    OBVIOUS
  <1>5. Byte(c)' = Byte(c)
    BY <1>3, <1>4 DEF BytesQuietos
  <1>6. QED
    BY <1>1, <1>4, <1>5

\* Steps after which there is no walk.
LEMMA FielOtra ==
  ASSUME respuesta' = Nada, ~Caminando'
  PROVE  Fiel'
  BY DEF Fiel, TareaLeida, LecturaFiel

LEMMA FielContesta ==
  ASSUME NEW op, NEW id, NEW dir, NEW n, NEW res, NEW datos,
         Contestar(op, id, dir, n, res, datos),
         op \notin {"get", "cpy"} \/ res # 0 \/ datos = <<>>
  PROVE  Fiel'
  <1>1. tarea' = Nada /\ respuesta' = [op |-> op, id |-> id, dir |-> dir, n |-> n,
                                       res |-> res, datos |-> datos]
    BY DEF Contestar
  <1>2. respuesta'.op = op /\ respuesta'.res = res /\ respuesta'.datos = datos
    BY <1>1
  <1>3. LecturaFiel'
    BY <1>2 DEF LecturaFiel
  <1>4. ~Caminando'
    BY <1>1 DEF Caminando
  <1>5. QED
    BY <1>1, <1>3, <1>4 DEF Fiel, TareaLeida

LEMMA FielEmpieza ==
  ASSUME NEW t, Empezar(t), t = Nada \/ t.op \in {"crear", "crecer"}
  PROVE  Fiel'
  <1>1. respuesta' = Nada /\ tarea' = t
    BY DEF Empezar
  <1>2. ~Caminando'
    BY <1>1 DEF Caminando
  <1>3. QED
    BY <1>1, <1>2, FielOtra

LEMMA BytesIguales ==
  ASSUME UNCHANGED <<paginas, memoria, disco, swaps>>
  PROVE  \A c : Byte(c)' = Byte(c)
  <1> SUFFICES ASSUME NEW c PROVE Byte(c)' = Byte(c)
    OBVIOUS
  <1>1. paginas' = paginas /\ swaps' = swaps /\ memoria' = memoria /\ disco' = disco
    OBVIOUS
  <1>2. Byte(c)' = IF paginas[c[1]].ubicacion = "MP" THEN memoria[paginas[c[1]].nroframe][c[2]]
                   ELSE disco[CHOOSE s \in Slots : swaps[s] = c[1]][c[2]]
    BY <1>1 DEF Byte, leerMMap
  <1>3. QED
    BY <1>2 DEF Byte, leerMMap

LEMMA ByteDeCelda ==
  ASSUME NEW id, NEW dir, NEW c, Celda(id, dir)' = c
  PROVE  Byte(Celda(id, dir))' = Byte(c)'
  BY DEF Byte, leerMMap

LEMMA FielCae ==
  ASSUME Fiel, UNCHANGED <<paginas, memoria, disco, swaps>>,
         UNCHANGED <<procesos, tarea, respuesta>>
  PROVE  Fiel'
  <1>1. procesos' = procesos /\ tarea' = tarea /\ respuesta' = respuesta
    OBVIOUS
  <1>2. \A c : Byte(c)' = Byte(c)
    BY BytesIguales
  <1>3. TareaLeida'
    <2> SUFFICES ASSUME Caminando' PROVE TareaLeida'
      BY DEF TareaLeida
    <2>1. PICK seg, t : seg = procesos[tarea.id][tarea.seg] /\ t = tarea
      OBVIOUS
    <2>2. Recorrida(seg, t) /\ Leido(seg, t.dir, Hecho(t), t.datos)
      BY <1>1, <2>1 DEF Fiel, TareaLeida, Caminando
    <2>3. Leido(seg, t.dir, Hecho(t), t.datos)'
      BY <1>2, <2>2 DEF Leido
    <2>4. QED
      BY <1>1, <2>1, <2>2, <2>3 DEF TareaLeida, Leido
  <1>4. LecturaFiel'
    <2> SUFFICES ASSUME respuesta # Nada, respuesta.op \in {"get", "cpy"}, respuesta.res = 0,
                        NEW k \in DOMAIN respuesta.datos
                 PROVE  /\ Celda(respuesta.id, respuesta.dir + k - 1)' # SinCelda
                        /\ respuesta'.datos[k]
                             = Byte(Celda(respuesta.id, respuesta.dir + k - 1))'
      BY <1>1 DEF LecturaFiel
    <2>1. PICK id, dir, v : /\ id = respuesta.id /\ dir = respuesta.dir + k - 1
                            /\ v = respuesta.datos[k]
      OBVIOUS
    <2>2. PICK c : c = Celda(id, dir)
      OBVIOUS
    <2>3. c # SinCelda /\ v = Byte(c)
      BY <2>1, <2>2 DEF Fiel, LecturaFiel
    <2>4. Celda(id, dir)' = c
      BY <1>1, <2>2, CeldaEs
    <2>5. Byte(Celda(id, dir))' = v
      BY <1>2, <2>3, <2>4, ByteDeCelda
    <2>6. QED
      BY <1>1, <2>1, <2>3, <2>4, <2>5
  <1>5. QED
    BY <1>1, <1>3, <1>4 DEF Fiel

LEMMA FielTrae ==
  ASSUME IInv, Dueno, Fiel, TraerPagina
  PROVE  Fiel'
  <1>1. /\ Recorriendo /\ procesos' = procesos /\ tarea' = tarea /\ respuesta' = respuesta
    BY DEF TraerPagina, tablas
  <1>2. respuesta = Nada
    BY <1>1 DEF Fiel, Recorriendo
  <1>3. BytesQuietos
    BY TraerHace, BytesTrae
  <1>4. PICK seg, t : seg = procesos[tarea.id][tarea.seg] /\ t = tarea
    OBVIOUS
  <1>5. Recorrida(seg, t) /\ Leido(seg, t.dir, Hecho(t), t.datos)
    BY <1>1, <1>4 DEF Fiel, TareaLeida, Caminando, Recorriendo
  <1>6. t \in TareaRecorrer /\ t.id \in DOMAIN procesos /\ t.resta <= t.n
    BY <1>1, <1>4, PagEsta, Partes DEF TareaTipo, TareaOK
  <1>7. seg \in Segmento
    BY <1>4, <1>6, Partes DEF TareaTipo, TareaOK, ProcesosOK, Segs
  <1>8. t.dir \in Nat /\ Hecho(t) \in Nat
    BY <1>6 DEF TareaRecorrer, Positivos, Hecho
  <1>9. Leido(seg, t.dir, Hecho(t), t.datos)'
    BY <1>3, <1>5, <1>7, <1>8, LeidoSigue, Partes
  <1>10. TareaLeida'
    BY <1>1, <1>4, <1>5, <1>9 DEF TareaLeida, Leido
  <1>11. QED
    BY <1>1, <1>2, <1>10 DEF Fiel, LecturaFiel

\* A walk begins with nothing done.
LEMMA FielRecorre ==
  ASSUME IInv, NEW op \in {"cpy", "get", "sync"}, NEW id \in DOMAIN procesos,
         NEW dir \in Nat, NEW n \in Positivos, NEW datos, NEW path, NEW len,
         Hay(id, dir), Cabe(id, dir, n), op = "cpy" \/ datos = <<>>,
         Recorrer(op, id, dir, n, datos, path, len), UNCHANGED procesos
  PROVE  Fiel'
  <1>1. PICK i, seg : i = obtenerSegmento(Segs(id), dir) /\ seg = Buscado(id, dir)
    OBVIOUS
  <1>2. Segs(id) = procesos[id] /\ procesos[id] \in Seq(Segmento)
    BY Partes DEF ProcesosOK, Segs
  <1>3. i \in DOMAIN procesos[id] /\ seg = procesos[id][i] /\ Contiene(seg, dir)
    BY <1>1, <1>2, Hallado DEF Hay, Buscado
  <1>4. /\ seg \in Segmento /\ seg.baseLogica \in Nat /\ seg.tamano \in Nat
        /\ Len(seg.tablaPaginas) \in Nat
    <2>1. seg \in Segmento
      BY <1>2, <1>3
    <2>2. QED
      BY <2>1 DEF Segmento
  <1>5. PICK d : d = dir - seg.baseLogica
    OBVIOUS
  <1>6. d \in Nat /\ seg.baseLogica <= dir
    BY <1>3, <1>4, <1>5 DEF Contiene
  <1>7. PICK q, r : q = d \div PAGE_SIZE /\ r = d % PAGE_SIZE
    OBVIOUS
  <1>8. q \in Nat /\ r \in Nat /\ d = q * PAGE_SIZE + r
    <2>1. q \in Nat /\ r \in Offsets /\ d = q * PAGE_SIZE + r
      BY <1>6, <1>7, Division
    <2>2. r \in Nat
      BY <2>1, Tamanos DEF Offsets
    <2>3. QED
      BY <2>1, <2>2
  <1>9. PICK t : t = [op |-> op, id |-> id, seg |-> i, dir |-> dir, n |-> n, resta |-> n,
                      nro |-> q + 1, desp |-> r, datos |-> datos, path |-> path, len |-> len]
    OBVIOUS
  <1>10. tarea' = t /\ respuesta' = Nada
    BY <1>1, <1>5, <1>7, <1>9 DEF Recorrer, Empezar
  <1>11. /\ t.op = op /\ t.id = id /\ t.seg = i /\ t.dir = dir /\ t.n = n /\ t.nro = q + 1
         /\ t.desp = r /\ t.datos = datos /\ Hecho(t) = 0
    <2>1. n - n = 0
      BY DEF Positivos
    <2>2. QED
      BY <1>9, <2>1 DEF Hecho
  <1>12. Recorrida(seg, t)
    <2>1. dir + n <= seg.baseLogica + seg.tamano
      BY <1>1 DEF Cabe
    <2>2. op # "cpy" => Len(datos) = 0
      OBVIOUS
    <2>3. q + 1 - 1 = q
      BY <1>8
    <2> DEFINE x == q * PAGE_SIZE
    <2>4. x \in Nat
      BY <1>8, Tamanos
    <2>5. seg.baseLogica + x + r = dir + 0
      <3>1. d = x + r
        BY <1>8
      <3> HIDE DEF x
      <3>2. QED
        BY <1>4, <1>5, <1>6, <1>8, <2>4, <3>1, SMTT(30)
    <2>6. (t.nro - 1) * PAGE_SIZE = x
      <3>1. t.nro - 1 = q
        BY <1>8, <1>11
      <3>2. QED
        BY <3>1
    <2> HIDE DEF x
    <2>7. t.op # "cpy" => Len(t.datos) = Hecho(t)
      BY <1>11, <2>2
    <2>8. t.dir + t.n <= seg.baseLogica + seg.tamano /\ seg.baseLogica <= t.dir
      BY <1>6, <1>11, <2>1
    <2>9. seg.baseLogica + (t.nro - 1) * PAGE_SIZE + t.desp = t.dir + Hecho(t)
      BY <1>11, <2>5, <2>6
    <2>10. QED
      BY <2>7, <2>8, <2>9 DEF Recorrida
  <1>13. Leido(seg, dir, 0, datos)'
    BY DEF Leido
  <1>14. procesos'[t.id][t.seg] = seg
    BY <1>3, <1>11
  <1>15. TareaLeida'
    BY <1>10, <1>11, <1>12, <1>13, <1>14 DEF TareaLeida, Leido
  <1>16. QED
    BY <1>10, <1>15 DEF Fiel, LecturaFiel

\* What is appended stands behind what was there.
LEMMA Pega ==
  ASSUME NEW S, NEW u \in Seq(S), NEW p \in Seq(S), NEW h, h = Len(u)
  PROVE  /\ u \o p \in Seq(S) /\ Len(u \o p) = h + Len(p)
         /\ \A k \in 1..h : (u \o p)[k] = u[k]
         /\ \A k \in 1..Len(p) : (u \o p)[h + k] = p[k]
  <1>1. Len(p) \in Nat /\ h \in Nat
    OBVIOUS
  <1>2. /\ u \o p \in Seq(S) /\ Len(u \o p) = h + Len(p)
        /\ \A i \in 1..h + Len(p) : (u \o p)[i] = IF i <= h THEN u[i] ELSE p[i - h]
    BY ConcatProperties
  <1>3. PICK v : v = u \o p
    OBVIOUS
  <1>4. PICK l : l = Len(p)
    OBVIOUS
  <1>5. \A i \in 1..h + l : v[i] = IF i <= h THEN u[i] ELSE p[i - h]
    BY <1>2, <1>3, <1>4
  <1>6. ASSUME NEW k \in 1..h PROVE v[k] = u[k]
    <2>1. k \in 1..h + l /\ k <= h
      BY <1>1, <1>4
    <2>2. QED
      BY <1>5, <2>1
  <1>7. ASSUME NEW k \in 1..l PROVE v[h + k] = p[k]
    <2>1. PICK i : i = h + k
      OBVIOUS
    <2>2. i \in 1..h + l /\ ~(i <= h) /\ i - h = k
      BY <1>1, <1>4, <2>1
    <2>3. v[i] = p[i - h]
      BY <1>5, <2>2
    <2>4. QED
      BY <2>1, <2>2, <2>3
  <1>8. QED
    BY <1>2, <1>3, <1>4, <1>6, <1>7

\* An address before the copied ones is in none of the copied places.
LEMMA Anterior ==
  ASSUME NEW base \in Nat, NEW x \in Nat, NEW desp \in Nat, NEW dir \in Nat, NEW h \in Nat,
         NEW a \in Nat, NEW m \in Nat, NEW o \in Nat, base + x + desp = dir + h, m < h,
         dir + m - base = x + o
  PROVE  ~(o - desp \in 0..a - 1)
  OBVIOUS

\* What one page of the walk does with what it reads.
SegTarea == procesos[tarea.id][tarea.seg]
DatosTras == IF tarea.op = "cpy" THEN tarea.datos
             ELSE tarea.datos \o [k \in 1..aCopiar |->
                                    memoria[paginas[Pag].nroframe][tarea.desp + k - 1]]

\* The page of the walk, its place in the segment, and what is still to be done.
Lugar(seg, a, nro, desp, dir, n, h) ==
    /\ nro \in Nat /\ desp \in Nat /\ dir \in Nat /\ n \in Nat /\ h \in Nat /\ a \in Nat
    /\ nro >= 1 /\ desp + a <= PAGE_SIZE /\ h + a <= n
    /\ seg.baseLogica + (nro - 1) * PAGE_SIZE + desp = dir + h
    /\ seg.baseLogica <= dir /\ dir + n <= seg.baseLogica + seg.tamano
    /\ nro <= Len(seg.tablaPaginas) /\ seg.tablaPaginas[nro] = Pag

LEMMA LugarEs ==
  ASSUME IInv, Paginado, Fiel, CopiarPagina, NEW t, t = tarea, NEW seg, seg = SegTarea,
         NEW a, a = aCopiar
  PROVE  /\ Lugar(seg, a, t.nro, t.desp, t.dir, t.n, Hecho(t))
         /\ seg \in Segmento /\ Forma(seg) /\ t.datos \in Seq(Bytes) /\ t \in TareaRecorrer
         /\ t.op # "cpy" => Len(t.datos) = Hecho(t)
         /\ Leido(seg, t.dir, Hecho(t), t.datos)
  <1>1. Recorriendo /\ EnTabla /\ paginas[Pag].ubicacion = "MP" /\ aCopiar >= 0
    BY DEF CopiarPagina
  <1>2. /\ t \in TareaRecorrer /\ t.id \in DOMAIN procesos /\ t.seg \in DOMAIN procesos[t.id]
    BY <1>1, PagEsta, Partes DEF TareaTipo, TareaOK, Segs
  <1>3. seg \in Segmento /\ Forma(seg)
    BY <1>2, Partes DEF ProcesosOK, Paginado, SegmentosPaginados, Paginada, SegTarea
  <1>4. Recorrida(seg, t) /\ Leido(seg, t.dir, Hecho(t), t.datos)
    BY <1>1 DEF Fiel, TareaLeida, Caminando, Recorriendo, SegTarea
  <1>5. t.nro <= Len(seg.tablaPaginas) /\ seg.tablaPaginas[t.nro] = Pag
    BY <1>1 DEF EnTabla, Pag, Tabla, Segs, SegTarea
  <1>6. /\ a \in Nat /\ t.desp \in Nat /\ t.desp + a <= PAGE_SIZE /\ t.resta - a \in Nat
        /\ t.n \in Nat /\ t.resta \in Nat /\ Hecho(t) \in Nat /\ Hecho(t) = t.n - t.resta
        /\ t.dir \in Nat /\ t.nro \in Nat /\ t.nro >= 1
    BY <1>1, <1>2, ACopiarTipo DEF TareaRecorrer, Positivos, Hecho
  <1>7. Hecho(t) + a <= t.n
    <2>1. PICK n, r, h : n = t.n /\ r = t.resta /\ h = Hecho(t)
      OBVIOUS
    <2>2. n \in Nat /\ r \in Nat /\ r - a \in Nat /\ h = n - r /\ a \in Nat
      BY <1>6, <2>1
    <2>3. h + a <= n
      BY <2>2
    <2>4. QED
      BY <2>1, <2>3
  <1>8. Lugar(seg, a, t.nro, t.desp, t.dir, t.n, Hecho(t))
    BY <1>4, <1>5, <1>6, <1>7 DEF Lugar, Recorrida
  <1>9. t.datos \in Seq(Bytes)
    BY <1>2 DEF TareaRecorrer
  <1>10. t.op # "cpy" => Len(t.datos) = Hecho(t)
    BY <1>4 DEF Recorrida
  <1>11. QED
    BY <1>2, <1>3, <1>4, <1>8, <1>9, <1>10

\* A get or a sync appends what the frame holds in the copied places.
LEMMA DatosEs ==
  ASSUME IInv, Paginado, Fiel, CopiarPagina, NEW t, t = tarea, NEW a, a = aCopiar,
         NEW h, h = Hecho(t), NEW f, f = paginas[Pag].nroframe, NEW datos, datos = DatosTras,
         NEW desp, desp = t.desp, t.op # "cpy"
  PROVE  /\ datos \in Seq(Bytes) /\ Len(datos) = h + a
         /\ \A k \in 1..h : datos[k] = t.datos[k]
         /\ \A k \in 1..a : datos[h + k] = memoria[f][desp + k - 1]
  <1>1. PICK seg : seg = SegTarea
    OBVIOUS
  <1>2. /\ Lugar(seg, a, t.nro, desp, t.dir, t.n, h)
        /\ t.datos \in Seq(Bytes) /\ Len(t.datos) = h
    BY <1>1, LugarEs
  <1>3. f \in Frames
    BY PagEsta, Partes, HechasNat DEF Pagina, CopiarPagina
  <1>4. PICK parte : parte = [k \in 1..a |-> memoria[f][desp + k - 1]]
    OBVIOUS
  <1>5. a \in Nat /\ desp \in Nat /\ desp + a <= PAGE_SIZE
    BY <1>2 DEF Lugar
  <1>6. \A k \in 1..a : parte[k] \in Bytes
    <2>1. \A k \in 1..a : desp + k - 1 \in Offsets
      BY <1>5, Tamanos DEF Offsets
    <2>2. memoria[f] \in [Offsets -> Bytes]
      BY <1>3, Partes DEF FisicaOK, Bloques
    <2>3. QED
      BY <1>4, <2>1, <2>2
  <1>7. parte \in Seq(Bytes) /\ Len(parte) = a
    <2>1. parte \in [1..a -> Bytes]
      BY <1>4, <1>6
    <2>2. QED
      BY <1>5, <2>1
  <1>8. PICK u \in Seq(Bytes) : u = t.datos
    BY <1>2
  <1>9. datos = u \o parte
    BY <1>4, <1>8 DEF DatosTras
  <1>10. Len(u) = h
    BY <1>2, <1>8
  <1>11. /\ datos \in Seq(Bytes) /\ Len(datos) = h + a
         /\ \A k \in 1..h : datos[k] = u[k]
         /\ \A k \in 1..a : datos[h + k] = parte[k]
    BY <1>7, <1>9, <1>10, Pega, SMTT(30)
  <1>12. QED
    BY <1>4, <1>8, <1>11

\* The cell of an address, by the quotient and the remainder of its distance.
LEMMA CeldaPartes ==
  ASSUME NEW seg, NEW e, NEW base, base = seg.baseLogica, NEW d, d = e - base,
         NEW q, q = d \div PAGE_SIZE, NEW o, o = d % PAGE_SIZE
  PROVE  /\ CeldaEn(seg, e) = <<seg.tablaPaginas[q + 1], o>>
         /\ EnSeg(seg, e) <=> /\ base <= e /\ e <= base + seg.tamano
                             /\ e < base + seg.tamano /\ q < Len(seg.tablaPaginas)
  BY DEF CeldaEn, EnSeg, Contiene

\* The addresses copied before still hold what they held.
LEMMA LeidoAntes ==
  ASSUME IInv, Dueno, CopiarPagina, NEW seg \in Segmento, Forma(seg), NEW a, a = aCopiar,
         NEW nro, NEW desp, desp = tarea.desp, NEW dir, NEW n, NEW h,
         Lugar(seg, a, nro, desp, dir, n, h), NEW datos, Leido(seg, dir, h, datos),
         NEW m \in 0..h - 1
  PROVE  EnSeg(seg, dir + m) /\ Byte(CeldaEn(seg, dir + m))' = datos[m + 1]
  <1>1. PICK base, tam, x, len : /\ base = seg.baseLogica /\ tam = seg.tamano
                                 /\ x = (nro - 1) * PAGE_SIZE /\ len = Len(seg.tablaPaginas)
    OBVIOUS
  <1>0. base = seg.baseLogica /\ len = Len(seg.tablaPaginas)
    BY <1>1
  <1>2. /\ nro \in Nat /\ desp \in Nat /\ dir \in Nat /\ n \in Nat /\ h \in Nat /\ a \in Nat
        /\ nro >= 1
    BY DEF Lugar
  <1>3. base + x + desp = dir + h /\ base <= dir
    BY <1>1 DEF Lugar
  <1>4. nro <= len /\ seg.tablaPaginas[nro] = Pag
    BY <1>1 DEF Lugar
  <1>5. base \in Nat /\ tam \in Nat /\ len \in Nat /\ seg.tablaPaginas \in Seq(Hechas)
    BY <1>1 DEF Segmento
  <1>6. x \in Nat
    <2>1. nro - 1 \in Nat
      BY <1>2
    <2>2. QED
      BY <1>1, <2>1, Tamanos
  <1>7. EnSeg(seg, dir + m) /\ Byte(CeldaEn(seg, dir + m)) = datos[m + 1]
    BY DEF Leido
  <1>22. PICK e : e = dir + m
    OBVIOUS
  <1>8. PICK d : d = e - base
    OBVIOUS
  <1>9. d \in Nat /\ m \in Nat /\ m < h /\ d = dir + m - base
    BY <1>2, <1>3, <1>5, <1>8, <1>22
  <1>10. PICK q, o : q = d \div PAGE_SIZE /\ o = d % PAGE_SIZE
    OBVIOUS
  <1>11. q \in Nat /\ o \in Offsets /\ d = q * PAGE_SIZE + o
    BY <1>9, <1>10, Division
  <1>23. EnSeg(seg, e)
    BY <1>7, <1>22
  <1>12. q < len
    BY <1>0, <1>8, <1>10, <1>23, CeldaPartes
  <1>13. q + 1 \in 1..len
    BY <1>5, <1>11, <1>12
  <1>14. DOMAIN seg.tablaPaginas = 1..len
    BY <1>1, <1>5
  <1>15. PICK p \in Hechas : p = seg.tablaPaginas[q + 1]
    BY <1>5, <1>13, <1>14
  <1>16. CeldaEn(seg, dir + m) = <<p, o>>
    <2>1. CeldaEn(seg, e) = <<p, o>>
      BY <1>0, <1>8, <1>10, <1>15, CeldaPartes
    <2>2. QED
      BY <1>22, <2>1
  <1>17. ~(p = Pag /\ o - desp \in 0..a - 1)
    <2> SUFFICES ASSUME p = Pag PROVE ~(o - desp \in 0..a - 1)
      OBVIOUS
    <2>1. q + 1 = nro
      <3>1. nro \in 1..len
        BY <1>2, <1>4, <1>5
      <3>2. seg.tablaPaginas[q + 1] = seg.tablaPaginas[nro]
        BY <1>4, <1>15
      <3>3. QED
        BY <1>13, <1>14, <3>1, <3>2 DEF Forma, Distintas
    <2>2. q = nro - 1
      BY <1>2, <1>11, <2>1
    <2>3. d = x + o
      BY <1>1, <1>11, <2>2
    <2>4. o \in Nat
      BY <1>11, Tamanos DEF Offsets
    <2>5. QED
      BY <1>2, <1>3, <1>5, <1>6, <1>9, <2>3, <2>4, Anterior
  <1>18. Byte(<<p, o>>)' = Byte(<<p, o>>)
    BY <1>11, <1>17, ByteCopiado
  <1>19. PICK c : c = CeldaEn(seg, dir + m)
    OBVIOUS
  <1>20. Byte(c)' = Byte(c)
    BY <1>16, <1>18, <1>19
  <1>21. QED
    BY <1>7, <1>19, <1>20

\* The addresses of this page are in its cells.
LEMMA LugarCelda ==
  ASSUME IInv, CopiarPagina, NEW seg \in Segmento, NEW a, NEW nro, NEW desp, NEW dir,
         NEW n, NEW h, Lugar(seg, a, nro, desp, dir, n, h), NEW k \in 0..a - 1,
         NEW o, o = desp + k
  PROVE  /\ EnSeg(seg, dir + (h + k)) /\ CeldaEn(seg, dir + (h + k)) = <<Pag, o>>
         /\ Pag \in Hechas /\ o \in Offsets /\ o - desp = k
  <1>1. PICK base, tam, q, x, len : /\ base = seg.baseLogica /\ tam = seg.tamano /\ q = nro - 1
                                    /\ x = q * PAGE_SIZE /\ len = Len(seg.tablaPaginas)
    OBVIOUS
  <1>2. /\ nro \in Nat /\ desp \in Nat /\ dir \in Nat /\ n \in Nat /\ h \in Nat /\ a \in Nat
        /\ nro >= 1 /\ desp + a <= PAGE_SIZE /\ h + a <= n
    BY DEF Lugar
  <1>3. base + x + desp = dir + h /\ base <= dir /\ dir + n <= base + tam
    BY <1>1 DEF Lugar
  <1>4. nro <= len /\ seg.tablaPaginas[nro] = Pag
    BY <1>1 DEF Lugar
  <1>0. base = seg.baseLogica /\ len = Len(seg.tablaPaginas) /\ tam = seg.tamano
    BY <1>1
  <1>5. base \in Nat /\ tam \in Nat /\ base + tam \in Nat
    <2>1. base \in Nat /\ tam \in Nat
      BY <1>1 DEF Segmento
    <2>2. QED
      BY <2>1
  <1>6. q \in Nat /\ x \in Nat /\ q + 1 = nro
    <2>1. q \in Nat /\ q + 1 = nro
      BY <1>1, <1>2
    <2>2. QED
      BY <1>1, <2>1, Tamanos
  <1>7. k \in Nat /\ k < a
    BY <1>2
  <1>20. PICK e : e = dir + (h + k)
    OBVIOUS
  <1>8. PICK d : d = e - base
    OBVIOUS
  <1>9. /\ d = x + o /\ d \in Nat /\ o \in Offsets /\ o - desp = k
        /\ base <= e /\ e < base + tam /\ e <= base + tam
    <2>1. PICK fin : fin = base + tam
      OBVIOUS
    <2>2. fin \in Nat /\ dir + n <= fin
      BY <1>3, <1>5, <2>1
    <2>3. base + x + desp = dir + h /\ base <= dir
      BY <1>3
    <2>4. x \in Nat /\ base \in Nat
      BY <1>5, <1>6
    <2>5. /\ d = x + o /\ d \in Nat /\ o \in Offsets /\ o - desp = k
          /\ base <= e /\ e < fin /\ e <= fin
      <3>1. e \in Nat /\ o \in Nat
        BY <1>2, <1>7, <1>20
      <3>2. d = x + o
        BY <1>2, <1>7, <1>8, <1>20, <2>3, <2>4, <3>1
      <3>3. d \in Nat /\ base <= e
        BY <1>8, <2>4, <3>1, <3>2
      <3>4. e < fin /\ e <= fin
        BY <1>2, <1>7, <1>20, <2>2, <3>1
      <3>5. o - desp = k /\ o < PAGE_SIZE
        BY <1>2, <1>7, <1>8, Tamanos
      <3>6. o \in Offsets
        BY <3>1, <3>5, Tamanos DEF Offsets
      <3>7. QED
        BY <3>2, <3>3, <3>4, <3>5, <3>6
    <2>6. QED
      BY <2>1, <2>5
  <1>10. d \div PAGE_SIZE = q /\ d % PAGE_SIZE = o
    BY <1>1, <1>6, <1>9, Cuenta
  <1>11. q < len
    <2>1. len \in Nat
      BY <1>1 DEF Segmento
    <2>2. QED
      BY <1>2, <1>4, <1>6, <2>1
  <1>12. EnSeg(seg, dir + (h + k))
    <2>1. EnSeg(seg, e)
      BY <1>0, <1>8, <1>9, <1>10, <1>11, CeldaPartes
    <2>2. QED
      BY <1>20, <2>1
  <1>13. PICK g \in Hechas : g = Pag
    BY PagEsta DEF CopiarPagina
  <1>14. CeldaEn(seg, dir + (h + k)) = <<g, o>>
    <2>1. CeldaEn(seg, e) = <<seg.tablaPaginas[q + 1], o>>
      BY <1>0, <1>8, <1>10, CeldaPartes
    <2>2. seg.tablaPaginas[q + 1] = g
      BY <1>4, <1>6, <1>13
    <2>3. QED
      BY <1>20, <2>1, <2>2
  <1>15. QED
    BY <1>9, <1>12, <1>13, <1>14

\* The addresses of this page hold what was copied to them or read from them.
LEMMA LeidoAhora ==
  ASSUME IInv, Paginado, Dueno, Fiel, CopiarPagina, NEW seg \in Segmento, NEW t, t = tarea,
         NEW a, a = aCopiar, NEW nro, NEW desp, desp = t.desp, NEW dir, NEW n, NEW h,
         h = Hecho(t), Lugar(seg, a, nro, desp, dir, n, h), NEW datos, datos = DatosTras,
         NEW k \in 0..a - 1
  PROVE  /\ EnSeg(seg, dir + (h + k))
         /\ Byte(CeldaEn(seg, dir + (h + k)))' = datos[h + k + 1]
  <1>1. PICK o, g : o = desp + k /\ g = Pag
    OBVIOUS
  <1>2. desp \in Nat /\ h \in Nat /\ a \in Nat
    BY DEF Lugar
  <1>7. k \in Nat /\ k < a
    BY <1>2
  <1>8. o = desp + k
    BY <1>1
  <1>12. /\ EnSeg(seg, dir + (h + k)) /\ CeldaEn(seg, dir + (h + k)) = <<g, o>>
         /\ g \in Hechas /\ o \in Offsets /\ o - desp = k
    BY <1>1, LugarCelda
  <1>9. o \in Offsets /\ o - desp = k
    BY <1>12
  <1>13. g \in Hechas /\ g = Pag
    BY <1>1, <1>12
  <1>14. CeldaEn(seg, dir + (h + k)) = <<g, o>>
    BY <1>12
  <1>15. o - desp \in 0..a - 1
    BY <1>9
  <1>16. Byte(<<g, o>>)' = datos[h + k + 1]
    <2>1. CASE t.op = "cpy"
      <3>1. Byte(<<g, o>>)' = t.datos[t.n - t.resta + o - desp + 1]
        BY <1>9, <1>13, <1>15, <2>1, ByteCopiado
      <3>2. t.n - t.resta + o - desp + 1 = h + k + 1
        <4>1. PICK y, z : y = t.n /\ z = t.resta
          OBVIOUS
        <4>2. t \in TareaRecorrer
          BY PagEsta DEF CopiarPagina
        <4>3. y \in Nat /\ z \in Nat
          BY <4>1, <4>2 DEF TareaRecorrer, Positivos
        <4>4. h = y - z
          BY <4>1 DEF Hecho
        <4>5. y - z + o - desp + 1 = h + k + 1
          BY <1>2, <1>7, <1>8, <4>3, <4>4
        <4>6. QED
          BY <4>1, <4>5
      <3>3. QED
        BY <2>1, <3>1, <3>2 DEF DatosTras
    <2>2. CASE t.op # "cpy"
      <3>1. Byte(<<g, o>>)' = Byte(<<g, o>>)
        BY <1>9, <1>13, <2>2, ByteCopiado
      <3>2. PICK f : f = paginas[Pag].nroframe
        OBVIOUS
      <3>3. Byte(<<g, o>>) = memoria[f][o]
        BY <1>13, <3>2, ByteEs DEF CopiarPagina
      <3>4. PICK j : j = k + 1
        OBVIOUS
      <3>5. j \in 1..a /\ desp + j - 1 = o /\ h + j = h + k + 1
        BY <1>2, <1>7, <1>8, <3>4
      <3>6. datos[h + j] = memoria[f][desp + j - 1]
        BY <2>2, <3>2, <3>5, DatosEs
      <3>7. QED
        BY <3>1, <3>3, <3>5, <3>6
    <2>3. QED
      BY <2>1, <2>2
  <1>17. PICK c : c = CeldaEn(seg, dir + (h + k))
    OBVIOUS
  <1>18. Byte(c)' = datos[h + k + 1]
    BY <1>14, <1>16, <1>17
  <1>19. QED
    BY <1>12, <1>17, <1>18

\* One page more is done.
LEMMA LeidoCopia ==
  ASSUME IInv, Paginado, Dueno, Fiel, CopiarPagina, NEW t, t = tarea, NEW seg, seg = SegTarea,
         NEW a, a = aCopiar, NEW dir, dir = t.dir, NEW h, h = Hecho(t),
         NEW datos, datos = DatosTras
  PROVE  /\ Leido(seg, dir, h + a, datos)'
         /\ t.op # "cpy" => Len(datos) = h + a
  <1>1. PICK nro, desp, n : nro = t.nro /\ desp = t.desp /\ n = t.n
    OBVIOUS
  <1>2. /\ Lugar(seg, a, nro, desp, dir, n, h) /\ seg \in Segmento /\ Forma(seg)
        /\ Leido(seg, dir, h, t.datos)
    BY <1>1, LugarEs
  <1>3. h \in Nat /\ a \in Nat
    BY <1>2 DEF Lugar
  <1>4. PICK f : f = paginas[Pag].nroframe
    OBVIOUS
  <1>5. ASSUME NEW m \in 0..h - 1
        PROVE  EnSeg(seg, dir + m) /\ Byte(CeldaEn(seg, dir + m))' = datos[m + 1]
    <2>1. PICK u : u = t.datos
      OBVIOUS
    <2>2. EnSeg(seg, dir + m) /\ Byte(CeldaEn(seg, dir + m))' = u[m + 1]
      BY <1>1, <1>2, <2>1, LeidoAntes
    <2>3. datos[m + 1] = u[m + 1]
      <3>1. CASE t.op = "cpy"
        BY <2>1, <3>1 DEF DatosTras
      <3>2. CASE t.op # "cpy"
        <4>1. PICK j : j = m + 1
          OBVIOUS
        <4>2. j \in 1..h
          BY <1>3, <4>1
        <4>3. datos[j] = u[j]
          BY <1>1, <1>4, <2>1, <3>2, <4>2, DatosEs
        <4>4. QED
          BY <4>1, <4>3
      <3>3. QED
        BY <3>1, <3>2
    <2>4. QED
      BY <2>2, <2>3
  <1>6. ASSUME NEW m \in 0..h + a - 1
        PROVE  EnSeg(seg, dir + m) /\ Byte(CeldaEn(seg, dir + m))' = datos[m + 1]
    <2>1. CASE m < h
      <3>1. m \in 0..h - 1
        BY <1>3, <2>1
      <3>2. QED
        BY <1>5, <3>1
    <2>2. CASE ~(m < h)
      <3>1. PICK k : k = m - h
        OBVIOUS
      <3>2. k \in 0..a - 1 /\ h + k = m
        BY <1>3, <2>2, <3>1
      <3>3. /\ EnSeg(seg, dir + (h + k))
            /\ Byte(CeldaEn(seg, dir + (h + k)))' = datos[h + k + 1]
        BY <1>1, <1>2, <3>2, LeidoAhora
      <3>4. QED
        BY <3>2, <3>3
    <2>3. QED
      BY <2>1, <2>2
  <1>10. PICK z : z = h + a
    OBVIOUS
  <1>11. \A m \in 0..z - 1 : EnSeg(seg, dir + m) /\ Byte(CeldaEn(seg, dir + m))' = datos[m + 1]
    BY <1>3, <1>6, <1>10
  <1>12. Leido(seg, dir, z, datos)'
    BY <1>11 DEF Leido
  <1>7. Leido(seg, dir, h + a, datos)'
    BY <1>10, <1>12
  <1>8. t.op # "cpy" => Len(datos) = h + a
    <2> SUFFICES ASSUME t.op # "cpy" PROVE Len(datos) = h + a
      OBVIOUS
    <2>1. desp = t.desp
      BY <1>1
    <2>2. QED
      BY <1>4, <2>1, DatosEs
  <1>9. QED
    BY <1>7, <1>8

\* A page that does not end the walk, and is not the last, was copied to its end.
LEMMA PaginaEntera ==
  ASSUME IInv, Paginado, Fiel, CopiarPagina, NEW t, t = tarea, NEW seg, seg = SegTarea,
         NEW a, a = aCopiar, NEW r, r = t.resta, r - a > 0, NEW nro, nro = t.nro,
         nro < Len(seg.tablaPaginas), NEW desp, desp = t.desp
  PROVE  desp + a = PAGE_SIZE
  <1>1. PICK v, D : v = D - desp /\ D = paginas[Pag].desplazamiento
    OBVIOUS
  <1>2. Recorriendo /\ EnTabla /\ aCopiar >= 0
    BY DEF CopiarPagina
  <1>3. desp \in Nat /\ r \in Nat /\ a \in Nat
    BY <1>2, ACopiarTipo
  <1>4. seg \in Segmento /\ Forma(seg) /\ nro >= 1 /\ nro \in Nat /\ seg.tablaPaginas[nro] = Pag
    BY LugarEs DEF Lugar
  <1>5. nro \in 1..Len(seg.tablaPaginas) - 1
    BY <1>4 DEF Segmento
  <1>6. D = PAGE_SIZE
    BY <1>1, <1>4, <1>5 DEF Forma, Llena
  <1>7. a = IF r < v THEN r ELSE v
    BY <1>1 DEF aCopiar, Menor
  <1>8. a = v
    <2>1. a # r
      BY <1>3
    <2>2. QED
      BY <1>7, <2>1
  <1>9. QED
    BY <1>1, <1>3, <1>6, <1>8, Tamanos

\* The walk goes on.
LEMMA FielSigue ==
  ASSUME IInv, Paginado, Dueno, Fiel, CopiarPagina, NEW t, t = tarea, NEW a, a = aCopiar,
         NEW r, r = t.resta, r - a > 0, NEW datos, datos = DatosTras
  PROVE  Fiel'
  <1>1. PICK seg, nro, desp, dir, n, h, base, x :
             /\ seg = SegTarea /\ nro = t.nro /\ desp = t.desp /\ dir = t.dir /\ n = t.n
             /\ h = Hecho(t) /\ base = seg.baseLogica /\ x = (nro - 1) * PAGE_SIZE
    OBVIOUS
  <1>2. Recorriendo /\ EnTabla /\ aCopiar >= 0
    BY DEF CopiarPagina
  <1>3. /\ Lugar(seg, a, nro, desp, dir, n, h) /\ seg \in Segmento /\ t \in TareaRecorrer
    BY <1>1, LugarEs
  <1>4. /\ nro \in Nat /\ desp \in Nat /\ dir \in Nat /\ n \in Nat /\ h \in Nat /\ a \in Nat
        /\ nro >= 1
    BY <1>3 DEF Lugar
  <1>5. base + x + desp = dir + h /\ base <= dir /\ dir + n <= base + seg.tamano
    BY <1>1, <1>3 DEF Lugar
  <1>6. base \in Nat
    BY <1>1, <1>3 DEF Segmento
  <1>7. r \in Nat /\ h = n - r
    BY <1>1, <1>2, ACopiarTipo DEF Hecho
  <1>8. /\ respuesta' = Nada /\ procesos' = procesos
        /\ tarea' = [Avanzar EXCEPT !.resta = r - a, !.datos = datos]
    BY DEF CopiarPagina, Empezar, DatosTras
  <1>9. PICK u : u = tarea'
    OBVIOUS
  <1>10. u = [t EXCEPT !.nro = nro + 1, !.desp = 0, !.resta = r - a, !.datos = datos]
    BY <1>1, <1>8, <1>9 DEF Avanzar
  <1>11. /\ u.op = t.op /\ u.id = t.id /\ u.seg = t.seg /\ u.dir = dir /\ u.n = n
         /\ u.nro = nro + 1 /\ u.desp = 0 /\ u.resta = r - a /\ u.datos = datos
    BY <1>1, <1>3, <1>10 DEF TareaRecorrer
  <1>12. Hecho(u) = h + a
    <2>1. n - (r - a) = h + a
      BY <1>4, <1>7
    <2>2. QED
      BY <1>11, <2>1 DEF Hecho
  <1>13. /\ Leido(seg, dir, h + a, datos)'
         /\ t.op # "cpy" => Len(datos) = h + a
    BY <1>1, LeidoCopia
  <1>14. nro + 1 <= Len(seg.tablaPaginas) => base + nro * PAGE_SIZE + 0 = dir + (h + a)
    <2> SUFFICES ASSUME nro + 1 <= Len(seg.tablaPaginas)
                 PROVE  base + nro * PAGE_SIZE + 0 = dir + (h + a)
      OBVIOUS
    <2>1. nro < Len(seg.tablaPaginas)
      <3>1. Len(seg.tablaPaginas) \in Nat
        BY <1>3 DEF Segmento
      <3>2. QED
        BY <1>4, <3>1
    <2>2. desp + a = PAGE_SIZE
      <3>1. seg = SegTarea /\ nro = t.nro /\ desp = t.desp
        BY <1>1
      <3>2. QED
        BY <2>1, <3>1, PaginaEntera
    <2>3. PICK y : y = nro * PAGE_SIZE
      OBVIOUS
    <2>4. y = x + PAGE_SIZE /\ x \in Nat /\ PAGE_SIZE \in Nat
      <3>1. PICK q : q = nro - 1
        OBVIOUS
      <3>2. q \in Nat /\ nro = q + 1
        BY <1>4, <3>1
      <3>3. (q + 1) * PAGE_SIZE = q * PAGE_SIZE + PAGE_SIZE /\ q * PAGE_SIZE \in Nat
        BY <3>2, Tamanos
      <3>4. x = q * PAGE_SIZE
        BY <1>1, <3>1
      <3>5. QED
        BY <2>3, <3>2, <3>3, <3>4, Tamanos
    <2>5. base + y + 0 = dir + (h + a)
      BY <1>4, <1>5, <1>6, <2>2, <2>4
    <2>6. QED
      BY <2>3, <2>5
  <1>15. Recorrida(seg, u)
    <2>1. u.nro - 1 = nro
      BY <1>4, <1>11
    <2>2. u.nro <= Len(seg.tablaPaginas) =>
             seg.baseLogica + (u.nro - 1) * PAGE_SIZE + u.desp = u.dir + Hecho(u)
      BY <1>1, <1>11, <1>12, <1>14, <2>1
    <2>3. seg.baseLogica <= u.dir /\ u.dir + u.n <= seg.baseLogica + seg.tamano
      BY <1>1, <1>5, <1>11
    <2>4. u.op # "cpy" => Len(u.datos) = Hecho(u)
      BY <1>11, <1>12, <1>13
    <2>5. QED
      BY <2>2, <2>3, <2>4 DEF Recorrida
  <1>16. procesos'[u.id][u.seg] = seg
    BY <1>1, <1>8, <1>11 DEF SegTarea
  <1>17. Leido(seg, u.dir, Hecho(u), u.datos)'
    <2>1. PICK z, w, d : z = Hecho(u) /\ w = u.datos /\ d = u.dir
      OBVIOUS
    <2>2. z = h + a /\ w = datos /\ d = dir
      BY <1>11, <1>12, <2>1
    <2>3. Leido(seg, d, z, w)'
      BY <1>13, <2>2
    <2>4. QED
      BY <2>1, <2>3
  <1>18. TareaLeida'
    <2>2. Recorrida(procesos[tarea.id][tarea.seg], tarea)'
      BY <1>9, <1>15, <1>16
    <2>3. Leido(procesos[tarea.id][tarea.seg], tarea.dir, Hecho(tarea), tarea.datos)'
      BY <1>9, <1>16, <1>17
    <2>4. QED
      BY <2>2, <2>3 DEF TareaLeida
  <1>19. QED
    BY <1>8, <1>18 DEF Fiel, LecturaFiel

\* The walk ends: what it answers is what the addresses hold.
LEMMA FielTermina ==
  ASSUME IInv, Paginado, Dueno, Ordenados, Fiel, CopiarPagina, NEW t, t = tarea,
         NEW a, a = aCopiar, NEW r, r = t.resta, ~(r - a > 0), NEW datos, datos = DatosTras
  PROVE  Fiel'
  <1>1. PICK op, id, seg, nro, desp, dir, n, h :
             /\ seg = SegTarea /\ nro = t.nro /\ desp = t.desp /\ dir = t.dir /\ n = t.n
             /\ h = Hecho(t) /\ op = t.op /\ id = t.id
    OBVIOUS
  <1>2. Recorriendo /\ EnTabla /\ aCopiar >= 0
    BY DEF CopiarPagina
  <1>3. /\ Lugar(seg, a, nro, desp, dir, n, h) /\ seg \in Segmento /\ t \in TareaRecorrer
        /\ t.datos \in Seq(Bytes)
    BY <1>1, LugarEs
  <1>4. dir \in Nat /\ n \in Nat /\ h \in Nat /\ a \in Nat
    BY <1>3 DEF Lugar
  <1>5. h + a = n
    <2>1. r \in Nat /\ r - a \in Nat /\ h = n - r
      BY <1>1, <1>2, ACopiarTipo DEF Hecho
    <2>2. QED
      BY <1>4, <2>1
  <1>6. procesos' = procesos /\ Contestar(op, id, dir, n, 0, datos)
    BY <1>1 DEF CopiarPagina, DatosTras
  <1>7. CASE op = "sync"
    BY <1>6, <1>7, FielContesta
  <1>8. CASE op # "sync"
    <2>1. /\ tarea' = Nada
          /\ respuesta' = [op |-> op, id |-> id, dir |-> dir, n |-> n, res |-> 0, datos |-> datos]
      BY <1>6 DEF Contestar
    <2>2. respuesta'.id = id /\ respuesta'.dir = dir /\ respuesta'.datos = datos
      BY <2>1
    <2>3. /\ Leido(seg, dir, h + a, datos)'
          /\ t.op # "cpy" => Len(datos) = h + a
      BY <1>1, LeidoCopia
    <2>4. Leido(seg, dir, n, datos)'
      BY <1>5, <2>3
    <2>5. datos \in Seq(Bytes) /\ Len(datos) = n
      <3>1. CASE op = "cpy"
        <4>1. datos = t.datos
          BY <1>1, <3>1 DEF DatosTras
        <4>2. t.n = Len(t.datos)
          BY <1>1, <1>3, <3>1, Partes DEF TareaTipo, TareaOK
        <4>3. QED
          BY <1>1, <1>3, <4>1, <4>2
      <3>2. CASE op # "cpy"
        <4>1. desp = t.desp /\ h = Hecho(t) /\ t.op # "cpy"
          BY <1>1, <3>2
        <4>2. PICK f : f = paginas[Pag].nroframe
          OBVIOUS
        <4>3. datos \in Seq(Bytes)
          BY <4>1, <4>2, DatosEs
        <4>4. QED
          BY <1>1, <1>5, <2>3, <3>2, <4>3
      <3>3. QED
        BY <3>1, <3>2
    <2>6. id \in DOMAIN procesos /\ t.seg \in DOMAIN procesos[id] /\ seg = procesos[id][t.seg]
      BY <1>1, <1>2, PagEsta, Partes DEF TareaTipo, TareaOK, Segs, SegTarea
    <2>7. ASSUME NEW k \in DOMAIN datos
          PROVE  /\ Celda(id, dir + k - 1)' # SinCelda
                 /\ datos[k] = Byte(Celda(id, dir + k - 1))'
      <3>1. k \in 1..n
        BY <2>5
      <3>2. PICK m, e : m = k - 1 /\ e = dir + k - 1
        OBVIOUS
      <3>3. m \in 0..n - 1 /\ dir + m = e /\ e \in Nat /\ m + 1 = k
        BY <1>4, <3>1, <3>2
      <3>4. EnSeg(seg, dir + m) /\ Byte(CeldaEn(seg, dir + m))' = datos[m + 1]
        BY <2>4, <3>3 DEF Leido
      <3>5. PICK c : c = CeldaEn(seg, e)
        OBVIOUS
      <3>6. EnSeg(seg, e) /\ Byte(c)' = datos[k]
        BY <3>3, <3>4, <3>5
      <3>7. c # SinCelda
        BY <1>3, <3>3, <3>5, <3>6, CeldaTipo, Partes
      <3>8. CeldaDe(procesos[id], e) = c
        BY <2>6, <3>3, <3>5, <3>6, CeldaUna DEF Ordenados
      <3>9. Celda(id, e)' = c
        BY <1>6, <2>6, <3>8, CeldaEs
      <3>10. Byte(Celda(id, e))' = datos[k]
        BY <3>6, <3>9, ByteDeCelda
      <3>11. QED
        BY <3>2, <3>7, <3>9, <3>10
    <2>8. LecturaFiel'
      BY <2>2, <2>7 DEF LecturaFiel
    <2>9. QED
      BY <2>1, <2>8 DEF Fiel, TareaLeida, Caminando
  <1>9. QED
    BY <1>7, <1>8

LEMMA FielCopia ==
  ASSUME IInv, Paginado, Dueno, Ordenados, Fiel, CopiarPagina
  PROVE  Fiel'
  <1>1. PICK t, a, r, datos : t = tarea /\ a = aCopiar /\ r = t.resta /\ datos = DatosTras
    OBVIOUS
  <1>2. QED
    BY <1>1, FielSigue, FielTermina

LEMMA FielHace ==
  ASSUME IInv, NEW p, HacePagina(p)
  PROVE  Fiel'
  <1>1. tarea # Nada /\ tarea \in TareaCrear \cup TareaCrecer
    BY Partes DEF TareaTipo, TareaRecorrer, HacePagina, Creando
  <1>2. CASE tarea.op = "crecer"
    <2>1. \/ Contestar("alloc", tarea.id, tarea.dir, tarea.tam, tarea.dir, <<>>)
          \/ \E r : Empezar([tarea EXCEPT !.resta = r])
      BY <1>2 DEF HacePagina, Anexar
    <2>2. \A r : [tarea EXCEPT !.resta = r].op = "crecer"
      BY <1>1, <1>2 DEF TareaCrear, TareaCrecer
    <2>3. QED
      BY <2>1, <2>2, FielContesta, FielEmpieza
  <1>3. CASE tarea.op # "crecer"
    <2>1. \/ \E op \in {"alloc", "map"} : \E dir : Contestar(op, tarea.id, dir, tarea.tam, dir, <<>>)
          \/ \E r, pags : Empezar([tarea EXCEPT !.resta = r, !.pags = pags])
      BY <1>3 DEF HacePagina, Anexar
    <2>2. \A r, pags : [tarea EXCEPT !.resta = r, !.pags = pags].op = "crear"
      BY <1>1, <1>3 DEF TareaCrear, TareaCrecer
    <2>3. CASE \E op \in {"alloc", "map"} : \E dir :
                  Contestar(op, tarea.id, dir, tarea.tam, dir, <<>>)
      BY <2>3, FielContesta
    <2>4. CASE \E r, pags : Empezar([tarea EXCEPT !.resta = r, !.pags = pags])
      BY <2>2, <2>4, FielEmpieza
    <2>5. QED
      BY <2>1, <2>3, <2>4
  <1>4. QED
    BY <1>2, <1>3

LEMMA FielNueva ==
  ASSUME NEW id, NEW tam, NEW tipo, NEW path, NEW flag,
         crearNuevoSegmento(id, tam, tipo, path, flag)
  PROVE  Fiel'
  <1>1. PICK t : t = [op |-> "crear", id |-> id, tam |-> tam, resta |-> tam, tipo |-> tipo,
                      path |-> path, flag |-> flag, pags |-> <<>>]
    OBVIOUS
  <1>2. Empezar(t) /\ t.op = "crear"
    BY <1>1 DEF crearNuevoSegmento
  <1>3. QED
    BY <1>2, FielEmpieza

LEMMA FielReserva ==
  ASSUME IInv, Fiel, NEW id \in Ids, NEW tam, muse_alloc(id, tam)
  PROVE  Fiel'
  <1>1. CASE crearNuevoSegmento(id, tam, "HEAP", SinCelda, SinCelda)
    BY <1>1, FielNueva
  <1>2. CASE \E segs, i : agrandarSegmento(id, segs, i, tam)
    <2>1. PICK segs, i : agrandarSegmento(id, segs, i, tam)
      BY <1>2
    <2>2. \/ \E dir : Contestar("alloc", id, dir, tam, dir, <<>>)
          \/ \E dir, r : Empezar([op |-> "crecer", id |-> id, seg |-> i, dir |-> dir,
                                  tam |-> tam, resta |-> r])
      BY <2>1 DEF agrandarSegmento
    <2>3. CASE \E dir : Contestar("alloc", id, dir, tam, dir, <<>>)
      BY <2>3, FielContesta
    <2>4. CASE \E dir, r : Empezar([op |-> "crecer", id |-> id, seg |-> i, dir |-> dir,
                                    tam |-> tam, resta |-> r])
      <3>1. PICK t : Empezar(t) /\ t.op = "crecer"
        BY <2>4
      <3>2. QED
        BY <3>1, FielEmpieza
    <2>5. QED
      BY <2>2, <2>3, <2>4
  <1>3. CASE Caer
    BY <1>3, FielCae DEF Caer, fisica, tablas
  <1>4. QED
    BY <1>1, <1>2, <1>3 DEF muse_alloc

LEMMA FielMapeo ==
  ASSUME NEW id, NEW path, NEW length, NEW flag, muse_map(id, path, length, flag)
  PROVE  Fiel'
  <1>1. \/ crearNuevoSegmento(id, length, "MAP", path, flag)
        \/ \E dir, res : Contestar("map", id, dir, length, res, <<>>)
    BY DEF muse_map
  <1>2. CASE \E dir, res : Contestar("map", id, dir, length, res, <<>>)
    BY <1>2, FielContesta
  <1>3. QED
    BY <1>1, <1>2, FielNueva

LEMMA FielLectura ==
  ASSUME IInv, NEW id \in Ids, NEW dir \in Nat, NEW n \in Positivos, muse_get(id, dir, n)
  PROVE  Fiel'
  <1>1. UNCHANGED procesos /\ id \in DOMAIN procesos
    BY DEF muse_get, tablas, Llamar
  <1>2. CASE Hay(id, dir) /\ Cabe(id, dir, n)
    <2>1. Recorrer("get", id, dir, n, <<>>, SinCelda, 0)
      BY <1>2 DEF muse_get
    <2>2. QED
      BY <1>1, <1>2, <2>1, FielRecorre
  <1>3. CASE ~(Hay(id, dir) /\ Cabe(id, dir, n))
    <2>1. \E res : Contestar("get", id, dir, n, res, <<>>)
      BY <1>3 DEF muse_get
    <2>2. QED
      BY <2>1, FielContesta
  <1>4. QED
    BY <1>2, <1>3

LEMMA FielEscritura ==
  ASSUME IInv, NEW id \in Ids, NEW dir \in Nat, NEW t \in Textos, muse_cpy(id, dir, t)
  PROVE  Fiel'
  <1>1. UNCHANGED procesos /\ id \in DOMAIN procesos
    BY DEF muse_cpy, tablas, Llamar
  <1>2. CASE Hay(id, dir) /\ Cabe(id, dir, Len(t))
    <2>1. Recorrer("cpy", id, dir, Len(t), t, SinCelda, 0)
      BY <1>2 DEF muse_cpy
    <2>2. QED
      BY <1>1, <1>2, <2>1, FielRecorre, TextoTipo
  <1>3. CASE ~(Hay(id, dir) /\ Cabe(id, dir, Len(t)))
    <2>1. Contestar("cpy", id, dir, Len(t), -1, t)
      BY <1>3 DEF muse_cpy
    <2>2. QED
      BY <2>1, FielContesta
  <1>4. QED
    BY <1>2, <1>3

LEMMA FielSync ==
  ASSUME IInv, Fiel, NEW id \in Ids, NEW dir \in Nat, NEW len \in Positivos,
         muse_sync(id, dir, len)
  PROVE  Fiel'
  <1>1. CASE \E res : Contestar("sync", id, dir, len, res, <<>>)
    BY <1>1, FielContesta
  <1>2. CASE Caer
    BY <1>2, FielCae DEF Caer, fisica, tablas
  <1>3. CASE ~(\E res : Contestar("sync", id, dir, len, res, <<>>)) /\ ~Caer
    <2>1. PICK path, desde, n :
             /\ EnMapa(id, dir) /\ desde = Buscado(id, dir).baseLogica + DESFASE
             /\ n = len - DESFASE /\ n > 0 /\ Hay(id, desde) /\ Cabe(id, desde, n)
             /\ Recorrer("sync", id, desde, n, <<>>, path, len) /\ UNCHANGED procesos
      BY <1>3 DEF muse_sync, tablas
    <2>2. id \in DOMAIN procesos
      BY DEF muse_sync, Llamar
    <2>3. n \in Positivos
      BY <2>1 DEF Positivos, DESFASE
    <2>4. desde \in Nat
      <3>1. PICK i : i = obtenerSegmento(Segs(id), dir)
        OBVIOUS
      <3>2. Segs(id) = procesos[id] /\ procesos[id] \in Seq(Segmento)
        BY <2>2, Partes DEF ProcesosOK, Segs
      <3>3. i \in DOMAIN procesos[id] /\ Buscado(id, dir) = procesos[id][i]
        BY <2>1, <3>1, <3>2, Hallado DEF EnMapa, Hay, Buscado
      <3>4. Buscado(id, dir).baseLogica \in Nat
        <4>1. PICK s : s = procesos[id]
          OBVIOUS
        <4>2. s[i] \in Segmento
          BY <3>2, <3>3, <4>1
        <4>3. Buscado(id, dir) \in Segmento
          BY <3>3, <4>1, <4>2
        <4>4. QED
          BY <4>3 DEF Segmento
      <3>5. QED
        BY <2>1, <3>4 DEF DESFASE
    <2>5. QED
      BY <2>1, <2>2, <2>3, <2>4, FielRecorre
  <1>4. QED
    BY <1>1, <1>2, <1>3

LEMMA FielPaso ==
  ASSUME "close" \notin Pedidos, "free" \notin Pedidos, IInv, Paginado, Dueno, Ordenados, Fiel,
         [Next]_vars
  PROVE  Fiel'
  <1>0. Direcciones \subseteq Nat /\ Largos \subseteq Positivos
    BY MuseConstantes DEF Positivos
  <1>1. CASE UNCHANGED vars
    BY <1>1, FielCae DEF vars, fisica, tablas
  <1>2. CASE Atender
    <2>1. CASE CrearEnLibre \/ CrearDesalojando
      BY <2>1, HaceUna, FielHace
    <2>2. CASE SwapLleno \/ FueraDeTabla
      BY <2>2, FielCae DEF SwapLleno, FueraDeTabla, Caer, fisica, tablas
    <2>3. QED
      BY <1>2, <2>1, <2>2, FielTrae, FielCopia DEF Atender
  <1>3. ASSUME NEW id \in Ids, Pedir(id)
        PROVE  Fiel'
    <2>1. ~muse_close(id) /\ \A dir : ~muse_free(id, dir)
      BY DEF muse_close, muse_free, Llamar, Recibir
    <2>2. CASE muse_init(id)
      BY <2>2, FielContesta DEF muse_init
    <2>3. CASE \E dir : muse_unmap(id, dir)
      <3>1. \E dir, res : Contestar("unmap", id, dir, 0, res, <<>>)
        BY <2>3 DEF muse_unmap
      <3>2. QED
        BY <3>1, FielContesta
    <2>4. CASE \E dir \in Direcciones :
                 \/ \E texto \in Textos : muse_cpy(id, dir, texto)
                 \/ \E n \in Largos : muse_get(id, dir, n) \/ muse_sync(id, dir, n)
      BY <1>0, <2>4, FielEscritura, FielLectura, FielSync
    <2>5. CASE \E n \in Largos : \/ muse_alloc(id, n)
                                 \/ \E path \in Archivos, flag \in {"PRIVATE", "SHARED"} :
                                       muse_map(id, path, n, flag)
      BY <2>5, FielReserva, FielMapeo
    <2>6. QED
      BY <1>3, <2>1, <2>2, <2>3, <2>4, <2>5 DEF Pedir
  <1>4. QED
    BY <1>1, <1>2, <1>3 DEF Next

LEMMA FielInicial == Init => IInv /\ Dueno /\ Paginado /\ Ordenados /\ Fiel
  <1> SUFFICES ASSUME Init PROVE Dueno /\ Paginado /\ Ordenados /\ Fiel
    BY Inicial
  <1>1. Dueno
    BY DEF Init, Dueno, Hechas
  <1>2. Paginado
    BY DEF Init, Paginado, SegmentosPaginados, ArchivosPaginados, TareaPaginada
  <1>3. Ordenados /\ Fiel
    BY DEF Init, Ordenados, Fiel, TareaLeida, Caminando, LecturaFiel
  <1>4. QED
    BY <1>1, <1>2, <1>3

\* In every run without closes and frees, what a muse_get that copied something
\* answers is what the addresses it asked for hold, and after a muse_cpy that
\* answered 0 they hold what was copied, whatever pages the walk crossed and
\* brought back from the swap file.  A close frees frames of other processes
\* (FramePropio), and two segments that a free leaves with one base may change
\* places in the list, and the address its cell.
THEOREM LecturaFielSinCierres ==
  ASSUME "close" \notin Pedidos, "free" \notin Pedidos
  PROVE  Spec => []LecturaFiel
  <1>1. Init => IInv /\ Dueno /\ Paginado /\ Ordenados /\ Fiel
    BY FielInicial
  <1>2. /\ IInv /\ Dueno /\ Paginado /\ Ordenados /\ Fiel /\ [Next]_vars
        => IInv' /\ Dueno' /\ Paginado' /\ Ordenados' /\ Fiel'
    BY Paso, DuenoPaso, PaginadoPaso, ListasPaso, FielPaso DEF PasoDeListas
  <1>3. Fiel => LecturaFiel
    BY DEF Fiel
  <1>4. QED
    BY <1>1, <1>2, <1>3, PTL DEF Spec

(***************************************************************************)
(* Paging cannot be seen: the server implements Memoria.                   *)
(***************************************************************************)
LEMMA HechasSiguen ==
  ASSUME IInv, [Next]_vars
  PROVE  Hechas \subseteq Hechas'
  <1>1. CASE UNCHANGED paginas
    BY <1>1 DEF Hechas
  <1>2. CASE Atender
    <2>1. CASE CrearEnLibre \/ CrearDesalojando
      BY <2>1, HaceUna DEF HacePagina
    <2>2. CASE TraerPagina
      BY <2>2 DEF TraerPagina, Desalojadas, Hechas
    <2>3. CASE CopiarPagina \/ SwapLleno \/ FueraDeTabla
      BY <1>1, <2>3 DEF CopiarPagina, SwapLleno, FueraDeTabla, Caer, fisica
    <2>4. QED
      BY <1>2, <2>1, <2>2, <2>3 DEF Atender
  <1>3. ASSUME NEW id \in Ids, Pedir(id)
        PROVE  Hechas \subseteq Hechas'
    <2>1. CASE \E n \in Largos : muse_alloc(id, n)
      BY <1>1, <2>1 DEF muse_alloc, crearNuevoSegmento, agrandarSegmento, Caer, fisica, Hechas
    <2>2. CASE muse_init(id) \/ muse_close(id)
      BY <1>1, <2>2 DEF muse_init, muse_close, fisica
    <2>3. CASE \E n, path, flag : muse_map(id, path, n, flag)
      BY <1>1, <2>3 DEF muse_map, crearNuevoSegmento, fisica
    <2>4. CASE \E dir : muse_free(id, dir) \/ muse_unmap(id, dir)
      BY <1>1, <2>4 DEF muse_free, muse_unmap, Caer, fisica
    <2>5. CASE \E dir, t : muse_cpy(id, dir, t)
      BY <1>1, <2>5 DEF muse_cpy, fisica
    <2>6. CASE \E dir, n : muse_get(id, dir, n) \/ muse_sync(id, dir, n)
      BY <1>1, <2>6 DEF muse_get, muse_sync, Caer, fisica
    <2>7. QED
      BY <1>3, <2>1, <2>2, <2>3, <2>4, <2>5, <2>6 DEF Pedir
  <1>4. CASE UNCHANGED vars
    BY <1>1, <1>4 DEF vars, fisica
  <1>5. QED
    BY <1>2, <1>3, <1>4 DEF Next

\* What an address sees, by the list of its process.
LEMMA CeldaLista ==
  ASSUME NEW id, NEW dir \in Nat
  PROVE  /\ Celda(id, dir) = CeldaDe(ListaDe(id), dir)
         /\ Celda(id, dir)' = CeldaDe(ListaDe(id)', dir)
  <1>1. EnOrden(<<>>) /\ DOMAIN <<>> = {}
    BY DEF EnOrden
  <1>2. CeldaDe(<<>>, dir) = SinCelda
    BY <1>1, CeldaUna
  <1>3. QED
    BY <1>2, CeldaEs DEF ListaDe

\* An address that is reserved sees a cell.
LEMMA CeldaVista ==
  ASSUME IInv, Ordenados, NEW id, NEW dir \in Nat
  PROVE  Celda(id, dir) \in (Hechas \X Offsets) \cup {SinCelda}
  <1>1. CASE id \in DOMAIN procesos
    <2>1. PICK s : s = procesos[id]
      OBVIOUS
    <2>2. EnOrden(s) /\ \A i \in DOMAIN s : s[i] \in Segmento
      BY <1>1, <2>1, ListaTipo
    <2>3. CeldaDe(s, dir) \in (Hechas \X Offsets) \cup {SinCelda}
      BY <2>2, CeldaUna, CeldaTipo, Partes
    <2>4. QED
      BY <1>1, <2>1, <2>3, CeldaEs
  <1>2. CASE id \notin DOMAIN procesos
    BY <1>2, CeldaEs
  <1>3. QED
    BY <1>1, <1>2

\* The three things that a step does to what the processes see.
CeldasQuietas == \A id, dir : dir \in Nat => Celda(id, dir)' = Celda(id, dir)
ReservaDe(id) ==
    /\ \A o, dir : o # id /\ dir \in Nat => Celda(o, dir)' = Celda(o, dir)
    /\ \A dir \in Nat : Celda(id, dir) # SinCelda => Celda(id, dir)' = Celda(id, dir)
LiberaDe(id) ==
    /\ \A o, dir : o # id /\ dir \in Nat => Celda(o, dir)' = Celda(o, dir)
    /\ \A dir \in Nat : Celda(id, dir)' \in {Celda(id, dir), SinCelda}

LEMMA CeldasPaso ==
  ASSUME Ordenados, PasoDeListas
  PROVE  CeldasQuietas \/ \E id \in Ids : ReservaDe(id) \/ LiberaDe(id)
  <1>1. CASE ListasQuietas
    BY <1>1, CeldaLista DEF ListasQuietas, CeldasQuietas
  <1>2. ASSUME NEW id \in Ids, CambiaLista(id)
        PROVE  ReservaDe(id) \/ LiberaDe(id)
    <2>1. PICK s, t : s = ListaDe(id) /\ t = ListaDe(id)'
      OBVIOUS
    <2>2. EnOrden(s) /\ EnOrden(t)
      BY <2>1, ListaOrdenada DEF PasoDeListas
    <2>3. \A o, dir : o # id /\ dir \in Nat => Celda(o, dir)' = Celda(o, dir)
      BY <1>2, CeldaLista DEF CambiaLista
    <2>4. \A dir \in Nat : Celda(id, dir) = CeldaDe(s, dir) /\ Celda(id, dir)' = CeldaDe(t, dir)
      BY <2>1, CeldaLista
    <2>5. CASE Crecen(s, t)
      BY <2>2, <2>3, <2>4, <2>5, CeldaCrece DEF ReservaDe
    <2>6. CASE Quedan(s, t)
      BY <2>2, <2>3, <2>4, <2>6, CeldaQueda DEF LiberaDe
    <2>7. QED
      BY <1>2, <2>1, <2>5, <2>6 DEF CambiaLista
  <1>3. QED
    BY <1>1, <1>2 DEF PasoDeListas

\* The a addresses from dir + h on get the bytes of t from h on; nothing else changes.
EscribeTramo(t, dir, h, a) ==
    /\ dir \in Nat /\ h \in Nat /\ a \in Nat /\ h + a <= Len(t.datos) /\ t.id \in Ids
    /\ t.n = Len(t.datos)
    /\ \A k \in 0..a - 1 : \E g \in Hechas, o \in Offsets :
          /\ Celda(t.id, dir + (h + k)) = <<g, o>>
          /\ Byte(<<g, o>>)' = t.datos[h + k + 1]
    /\ \A g \in Hechas, o \in Offsets : Byte(<<g, o>>)' # Byte(<<g, o>>) =>
          \E k \in 0..a - 1 : Celda(t.id, dir + (h + k)) = <<g, o>>

\* One page of a muse_cpy fills the addresses after those it has done with the next
\* bytes of the buffer, and changes no other cell.
LEMMA EscribeEnLoSuyo ==
  ASSUME IInv, Paginado, Dueno, Ordenados, Fiel, CopiarPagina, tarea.op = "cpy",
         NEW t, t = tarea, NEW dir, dir = t.dir, NEW h, h = Hecho(t), NEW a, a = aCopiar
  PROVE  EscribeTramo(t, dir, h, a)
  <1>1. PICK seg, nro, desp, n, id :
             seg = SegTarea /\ nro = t.nro /\ desp = t.desp /\ n = t.n /\ id = t.id
    OBVIOUS
  <1>2. Lugar(seg, a, nro, desp, dir, n, h) /\ seg \in Segmento
    BY <1>1, LugarEs
  <1>3. dir \in Nat /\ h \in Nat /\ a \in Nat /\ desp \in Nat /\ n \in Nat /\ h + a <= n
    BY <1>2 DEF Lugar
  <1>4. Recorriendo /\ EnTabla
    BY DEF CopiarPagina
  <1>5. id \in DOMAIN procesos /\ t.seg \in DOMAIN procesos[id] /\ seg = procesos[id][t.seg]
        /\ n = Len(t.datos)
    BY <1>1, <1>4, PagEsta, Partes DEF TareaTipo, TareaOK, Segs, SegTarea
  <1>6. id \in Ids
    BY <1>5, Partes DEF ProcesosOK
  <1>7. ASSUME NEW k \in 0..a - 1, NEW o, o = desp + k
        PROVE  /\ Celda(id, dir + (h + k)) = <<Pag, o>> /\ Pag \in Hechas /\ o \in Offsets
               /\ o - desp = k
    <2>1. /\ EnSeg(seg, dir + (h + k)) /\ CeldaEn(seg, dir + (h + k)) = <<Pag, o>>
          /\ Pag \in Hechas /\ o \in Offsets /\ o - desp = k
      BY <1>2, <1>7, LugarCelda
    <2>2. PICK x : x = dir + (h + k)
      OBVIOUS
    <2>3. x \in Nat
      BY <1>3, <2>2
    <2>4. CeldaDe(procesos[id], x) = <<Pag, o>>
      BY <1>5, <2>1, <2>2, <2>3, CeldaUna DEF Ordenados
    <2>5. QED
      BY <1>5, <2>1, <2>2, <2>4, CeldaEs
  <1>8. ASSUME NEW k \in 0..a - 1
        PROVE  \E g \in Hechas, o \in Offsets :
                  /\ Celda(t.id, dir + (h + k)) = <<g, o>>
                  /\ Byte(<<g, o>>)' = t.datos[h + k + 1]
    <2>1. PICK o, g : o = desp + k /\ g = Pag
      OBVIOUS
    <2>2. /\ Celda(id, dir + (h + k)) = <<g, o>> /\ g \in Hechas /\ o \in Offsets
          /\ o - desp = k
      BY <1>7, <2>1
    <2>3. Byte(<<g, o>>)' = tarea.datos[tarea.n - tarea.resta + o - tarea.desp + 1]
      <3>1. o - tarea.desp \in 0..aCopiar - 1
        BY <1>1, <2>2
      <3>2. QED
        BY <2>1, <2>2, <3>1, ByteCopiado
    <2>4. tarea.n - tarea.resta + o - tarea.desp + 1 = h + k + 1
      <3>1. tarea.n - tarea.resta = h /\ tarea.desp = desp
        BY <1>1 DEF Hecho
      <3>2. o \in Nat
        BY <1>3, <2>1
      <3>3. h + o - desp = h + k
        BY <1>3, <2>2, <3>2
      <3>4. QED
        BY <3>1, <3>3
    <2>5. Byte(<<g, o>>)' = t.datos[h + k + 1]
      BY <2>3, <2>4, Zenon
    <2>6. QED
      BY <1>1, <2>2, <2>5
  <1>9. ASSUME NEW g \in Hechas, NEW o \in Offsets, Byte(<<g, o>>)' # Byte(<<g, o>>)
        PROVE  \E k \in 0..a - 1 : Celda(t.id, dir + (h + k)) = <<g, o>>
    <2>1. g = Pag /\ o - desp \in 0..a - 1
      BY <1>1, <1>9, ByteCopiado
    <2>2. PICK k : k = o - desp
      OBVIOUS
    <2>3. o \in Nat
      BY Tamanos DEF Offsets
    <2>4. k \in 0..a - 1 /\ o = desp + k
      BY <1>3, <2>1, <2>2, <2>3
    <2>5. QED
      BY <1>1, <1>7, <2>1, <2>4
  <1>10. QED
    BY <1>1, <1>3, <1>5, <1>6, <1>8, <1>9 DEF EscribeTramo

\* A cell that some process sees, and that changes with a step.
Cambia(c) == Byte(c)' # Byte(c)

LEMMA CambianEs ==
  ASSUME IInv, Ordenados, Observadas = Nat, [Next]_vars
  PROVE  \A c \in Virtual!Cambian : c \in Hechas \X Offsets /\ Cambia(c)
  <1> SUFFICES ASSUME NEW c \in Virtual!Cambian
               PROVE  c \in Hechas \X Offsets /\ Cambia(c)
    OBVIOUS
  <1>1. PICK p \in Ids, d \in Nat : c = Celda(p, d) /\ c # SinCelda
    BY DEF Virtual!Cambian, Virtual!Vistas, Virtual!De
  <1>2. c \in Hechas \X Offsets
    BY <1>1, CeldaVista
  <1>3. c \in Hechas' \X Offsets
    BY <1>2, HechasSiguen
  <1>4. [z \in Hechas \X Offsets |-> Byte(z)]'[c] # [x \in Hechas \X Offsets |-> Byte(x)][c]
    BY DEF Virtual!Cambian
  <1>5. Cambia(c)
    BY <1>2, <1>3, <1>4 DEF Cambia
  <1>6. QED
    BY <1>2, <1>5

LEMMA NadaCambia ==
  ASSUME IInv, Ordenados, Observadas = Nat, [Next]_vars, BytesQuietos
  PROVE  Virtual!Cambian = {}
  <1>1. \A g \in Hechas, o \in Offsets : ~Cambia(<<g, o>>)
    BY DEF Cambia, BytesQuietos
  <1>2. \A c \in Hechas \X Offsets : ~Cambia(c)
    <2> SUFFICES ASSUME NEW c \in Hechas \X Offsets PROVE ~Cambia(c)
      OBVIOUS
    <2>1. PICK g \in Hechas, o \in Offsets : c = <<g, o>>
      OBVIOUS
    <2>2. Byte(c)' = Byte(c)
      BY <2>1 DEF BytesQuietos
    <2>3. QED
      BY <2>2 DEF Cambia
  <1>3. QED
    BY <1>2, CambianEs

VistaDe == [id \in Ids |-> [d \in Observadas |-> Celda(id, d)]]

\* While a muse_cpy walks, only its pages are copied or brought back.
LEMMA CopiaSigue ==
  ASSUME [Next]_vars, tarea.op = "cpy", ~CopiarPagina
  PROVE  procesos' = procesos /\ tarea' = tarea
  <1>1. tarea # Nada
    BY DEF Nada
  <1>2. ASSUME NEW id, Pedir(id)
        PROVE  FALSE
    <2>1. \A op : ~Recibir(op) /\ ~Llamar(op, id)
      BY <1>1 DEF Llamar, Recibir
    <2>2. ~muse_init(id) /\ ~muse_close(id)
      BY <2>1 DEF muse_init, muse_close
    <2>3. \A n : ~muse_alloc(id, n) /\ \A path, flag : ~muse_map(id, path, n, flag)
      BY <2>1 DEF muse_alloc, muse_map
    <2>4. \A dir : ~muse_free(id, dir) /\ ~muse_unmap(id, dir)
      BY <2>1 DEF muse_free, muse_unmap
    <2>5. \A dir, x : ~muse_cpy(id, dir, x) /\ ~muse_get(id, dir, x) /\ ~muse_sync(id, dir, x)
      BY <2>1 DEF muse_cpy, muse_get, muse_sync
    <2>6. QED
      BY <1>2, <2>2, <2>3, <2>4, <2>5 DEF Pedir
  <1>3. ~CrearEnLibre /\ ~CrearDesalojando
    BY DEF CrearEnLibre, CrearDesalojando, Creando
  <1>4. CASE UNCHANGED vars
    BY <1>4 DEF vars, tablas
  <1>5. CASE TraerPagina
    BY <1>5 DEF TraerPagina, tablas
  <1>6. CASE SwapLleno \/ FueraDeTabla
    BY <1>6 DEF SwapLleno, FueraDeTabla, Caer, tablas
  <1>7. QED
    BY <1>2, <1>3, <1>4, <1>5, <1>6 DEF Next, Atender

\* Only the call of a client starts a muse_cpy.
LEMMA SinCopiar ==
  ASSUME IInv, [Next]_vars, tarea.op # "cpy",
         \A id \in Ids, dir \in Direcciones, texto \in Textos : ~muse_cpy(id, dir, texto)
  PROVE  tarea'.op # "cpy"
  <1>1. ASSUME NEW op, NEW id, NEW dir, NEW n, NEW res, NEW datos,
               Contestar(op, id, dir, n, res, datos)
        PROVE  tarea'.op # "cpy"
    BY <1>1 DEF Contestar, Nada
  <1>2. ASSUME NEW op, NEW id, NEW dir, NEW n, NEW texto, NEW path, NEW len,
               Recorrer(op, id, dir, n, texto, path, len), op # "cpy"
        PROVE  tarea'.op # "cpy"
    BY <1>2 DEF Recorrer, Empezar
  <1>3. CASE CrearEnLibre \/ CrearDesalojando
    <2>1. PICK pag : Anexar(pag)
      BY <1>3 DEF CrearEnLibre, CrearDesalojando, crearPagina
    <2>2. tarea \in TareaCrear \cup TareaCrecer
      BY <1>3, Partes DEF CrearEnLibre, CrearDesalojando, Creando, TareaTipo, TareaRecorrer
    <2>3. CASE tarea.op = "crecer"
      <3>1. tarea \in TareaCrecer
        BY <2>2, <2>3 DEF TareaCrear
      <3>2. ASSUME NEW x, Empezar([tarea EXCEPT !.resta = x])
            PROVE  tarea'.op # "cpy"
        BY <2>3, <3>1, <3>2 DEF Empezar, TareaCrecer
      <3>3. QED
        BY <1>1, <2>1, <2>3, <3>2 DEF Anexar
    <2>4. CASE tarea.op # "crecer"
      <3>1. tarea \in TareaCrear
        BY <2>2, <2>4 DEF TareaCrecer
      <3>2. ASSUME NEW x, NEW y, Empezar([tarea EXCEPT !.resta = x, !.pags = y])
            PROVE  tarea'.op # "cpy"
        BY <3>1, <3>2 DEF Empezar, TareaCrear
      <3>3. PICK resta, pags, dir :
                 \/ Empezar([tarea EXCEPT !.resta = resta, !.pags = pags])
                 \/ Contestar("alloc", tarea.id, dir, tarea.tam, dir, <<>>)
                 \/ Contestar("map", tarea.id, dir, tarea.tam, dir, <<>>)
        <4>1. CASE tarea.resta - Menor(tarea.resta, PAGE_SIZE) > 0
          BY <2>1, <2>4, <4>1 DEF Anexar
        <4>2. CASE ~(tarea.resta - Menor(tarea.resta, PAGE_SIZE) > 0) /\ tarea.tipo = "HEAP"
          BY <2>1, <2>4, <4>2 DEF Anexar
        <4>3. CASE ~(tarea.resta - Menor(tarea.resta, PAGE_SIZE) > 0) /\ tarea.tipo # "HEAP"
          BY <2>1, <2>4, <4>3 DEF Anexar
        <4>4. QED
          BY <4>1, <4>2, <4>3
      <3>4. QED
        BY <1>1, <3>2, <3>3
    <2>5. QED
      BY <2>3, <2>4
  <1>4. CASE TraerPagina \/ SwapLleno \/ FueraDeTabla \/ UNCHANGED vars
    BY <1>4 DEF TraerPagina, SwapLleno, FueraDeTabla, Caer, vars
  <1>5. CASE CopiarPagina
    <2>1. tarea \in TareaRecorrer
      BY <1>5, PagEsta DEF CopiarPagina
    <2>2. ASSUME NEW x, NEW y, Empezar([Avanzar EXCEPT !.resta = x, !.datos = y])
          PROVE  tarea'.op # "cpy"
      BY <2>1, <2>2 DEF Empezar, Avanzar, TareaRecorrer
    <2> DEFINE leido == tarea.datos \o [k \in 1..aCopiar |->
                            memoria[paginas[Pag].nroframe][tarea.desp + k - 1]]
               datos == IF tarea.op = "cpy" THEN tarea.datos ELSE leido
    <2>3. \/ Empezar([Avanzar EXCEPT !.resta = tarea.resta - aCopiar, !.datos = datos])
          \/ Contestar(tarea.op, tarea.id, tarea.dir, tarea.n, 0, datos)
      BY <1>5 DEF CopiarPagina
    <2> HIDE DEF datos
    <2>4. QED
      BY <1>1, <2>2, <2>3
  <1>6. ASSUME NEW id \in Ids, Pedir(id)
        PROVE  tarea'.op # "cpy"
    <2>1. CASE muse_init(id) \/ muse_close(id)
      BY <1>1, <2>1 DEF muse_init, muse_close, Empezar, Nada
    <2>2. CASE \E n : muse_alloc(id, n)
      BY <1>1, <2>2 DEF muse_alloc, crearNuevoSegmento, agrandarSegmento, Caer, Empezar
    <2>3. CASE \E n, path, flag : muse_map(id, path, n, flag)
      BY <1>1, <2>3 DEF muse_map, crearNuevoSegmento, Empezar
    <2>4. CASE \E dir : muse_free(id, dir) \/ muse_unmap(id, dir)
      BY <1>1, <2>4 DEF muse_free, muse_unmap, Caer, Empezar, Nada
    <2>5. CASE \E dir, n : muse_get(id, dir, n) \/ muse_sync(id, dir, n)
      BY <1>1, <1>2, <2>5 DEF muse_get, muse_sync, Caer
    <2>6. QED
      BY <1>6, <2>1, <2>2, <2>3, <2>4, <2>5 DEF Pedir
  <1>7. QED
    BY <1>3, <1>4, <1>5, <1>6 DEF Next, Atender

\* The call that starts a muse_cpy, or that is refused.
LEMMA ImitaLlamada ==
  ASSUME IInv, Dueno, Ordenados, Observadas = Nat, [Next]_vars,
         NEW id \in Ids, NEW dir \in Direcciones, NEW texto \in Textos,
         muse_cpy(id, dir, texto)
  PROVE  Virtual!Interno \/ Virtual!Copiar(id, dir, texto)
  <1>1. tarea = Nada /\ procesos' = procesos
    BY DEF muse_cpy, Llamar, Recibir, tablas
  <1>2. tarea.op # "cpy" /\ CopiaEnCurso = Nada
    BY <1>1 DEF Nada, CopiaEnCurso
  <1>3. Virtual!Cambian = {}
    BY <1>2, BytesPaso, NadaCambia
  <1>4. VistaDe' = VistaDe
    BY <1>1, CeldaEs DEF VistaDe
  <1>5. CASE Hay(id, dir) /\ Cabe(id, dir, Len(texto))
    <2>1. PICK n : n = Len(texto)
      OBVIOUS
    <2>2. n \in Nat
      BY <2>1, MuseConstantes
    <2>3. /\ tarea'.op = "cpy" /\ tarea'.id = id /\ tarea'.dir = dir /\ tarea'.datos = texto
          /\ tarea'.n = n /\ tarea'.resta = n
      BY <1>5, <2>1 DEF muse_cpy, Recorrer, Empezar
    <2>4. tarea'.n - tarea'.resta = 0
      BY <2>2, <2>3
    <2>5. CopiaEnCurso' = [id |-> id, dir |-> dir, datos |-> texto, hecho |-> 0]
      BY <2>3, <2>4 DEF CopiaEnCurso
    <2>6. QED
      BY <1>2, <1>3, <1>4, <2>5 DEF Virtual!Copiar, VistaDe
  <1>6. CASE ~(Hay(id, dir) /\ Cabe(id, dir, Len(texto)))
    <2>1. tarea' = Nada
      BY <1>6 DEF muse_cpy, Contestar
    <2>2. CopiaEnCurso' = CopiaEnCurso
      BY <1>1, <2>1 DEF CopiaEnCurso
    <2>3. QED
      BY <1>3, <1>4, <2>2 DEF Virtual!Interno, VistaDe
  <1>7. QED
    BY <1>5, <1>6

\* One page of a muse_cpy writes the next bytes of its buffer.
LEMMA ImitaCopia ==
  ASSUME IInv, Paginado, Dueno, Ordenados, Fiel, Observadas = Nat, [Next]_vars,
         CopiarPagina, tarea.op = "cpy"
  PROVE  Virtual!Escribir
  <1>1. PICK t, dir, h, a : t = tarea /\ dir = t.dir /\ h = Hecho(t) /\ a = aCopiar
    OBVIOUS
  <1>2. PICK n : n = h + a
    OBVIOUS
  <1>3. /\ dir \in Nat /\ h \in Nat /\ a \in Nat /\ h + a <= Len(t.datos) /\ t.id \in Ids
        /\ t.n = Len(t.datos)
        /\ \A k \in 0..a - 1 : \E g \in Hechas, o \in Offsets :
              /\ Celda(t.id, dir + (h + k)) = <<g, o>>
              /\ Byte(<<g, o>>)' = t.datos[h + k + 1]
        /\ \A g \in Hechas, o \in Offsets : Byte(<<g, o>>)' # Byte(<<g, o>>) =>
              \E k \in 0..a - 1 : Celda(t.id, dir + (h + k)) = <<g, o>>
    <2>1. EscribeTramo(t, dir, h, a)
      BY <1>1, EscribeEnLoSuyo
    <2>2. QED
      BY <2>1 DEF EscribeTramo
  <1>4. PICK c : c = CopiaEnCurso
    OBVIOUS
  <1>5. c = [id |-> t.id, dir |-> dir, datos |-> t.datos, hecho |-> h]
    BY <1>1, <1>4 DEF CopiaEnCurso, Hecho
  <1>6. c # Nada
    <2>1. "id" \in DOMAIN c /\ "id" \notin DOMAIN Nada
      BY <1>5 DEF Nada
    <2>2. QED
      BY <2>1
  <1>7. VistaDe' = VistaDe
    <2>1. procesos' = procesos
      BY DEF CopiarPagina
    <2>2. QED
      BY <2>1, CeldaEs DEF VistaDe
  <1>8. \A x \in Nat : VistaDe[t.id][x] = Celda(t.id, x)
    BY <1>3 DEF VistaDe
  <1>9. ASSUME NEW j \in h..n - 1
        PROVE  /\ VistaDe[t.id][dir + j] # SinCelda
               /\ [z \in Hechas \X Offsets |-> Byte(z)]'[VistaDe[t.id][dir + j]] = t.datos[j + 1]
    <2>1. PICK k, x : k = j - h /\ x = dir + j
      OBVIOUS
    <2>2. k \in 0..a - 1 /\ x = dir + (h + k) /\ h + k + 1 = j + 1 /\ x \in Nat
      BY <1>2, <1>3, <2>1
    <2>3. PICK g \in Hechas, o \in Offsets :
             Celda(t.id, dir + (h + k)) = <<g, o>> /\ Byte(<<g, o>>)' = t.datos[h + k + 1]
      BY <1>3, <2>2
    <2>4. VistaDe[t.id][dir + j] = <<g, o>> /\ Byte(<<g, o>>)' = t.datos[j + 1]
      BY <1>8, <2>1, <2>2, <2>3
    <2>5. <<g, o>> # SinCelda
      <3>1. g \in Nat /\ o \in Nat
        BY HechasNat, Partes, Tamanos DEF Offsets
      <3>2. QED
        BY <3>1, MuseConstantes
    <2>6. <<g, o>> \in Hechas' \X Offsets
      BY HechasSiguen
    <2>7. [z \in Hechas \X Offsets |-> Byte(z)]'[<<g, o>>] = Byte(<<g, o>>)'
      BY <2>6
    <2>8. QED
      BY <2>4, <2>5, <2>7
  <1>10. ASSUME NEW e \in Virtual!Cambian
         PROVE  e \in {VistaDe[t.id][dir + j] : j \in h..n - 1}
    <2>1. PICK g \in Hechas, o \in Offsets : e = <<g, o>>
      BY CambianEs
    <2>2. Byte(e)' # Byte(e)
      BY CambianEs DEF Cambia
    <2>3. Byte(<<g, o>>)' # Byte(<<g, o>>)
      BY <2>1, <2>2
    <2>4. PICK k \in 0..a - 1 : Celda(t.id, dir + (h + k)) = <<g, o>>
      BY <1>3, <2>3
    <2>5. PICK j : j = h + k
      OBVIOUS
    <2>6. j \in h..n - 1 /\ dir + j \in Nat
      BY <1>2, <1>3, <2>5
    <2>7. VistaDe[t.id][dir + j] = e
      BY <1>8, <2>1, <2>4, <2>5, <2>6
    <2>8. QED
      BY <2>6, <2>7
  <1>11. n \in h..Len(t.datos)
    BY <1>2, <1>3
  <1>12. CopiaEnCurso' = IF n = Len(t.datos) THEN Nada ELSE [c EXCEPT !.hecho = n]
    <2>1. PICK r, m : r = t.resta - a /\ m = t.n
      OBVIOUS
    <2>2. m = Len(t.datos) /\ t.resta \in Nat /\ m \in Nat /\ r \in Nat /\ m - r = n
          /\ (r > 0 <=> n # m)
      <3>1. Recorriendo /\ EnTabla /\ aCopiar >= 0
        BY DEF CopiarPagina
      <3>2. t.resta - a \in Nat /\ t.n \in Nat /\ t.resta \in Nat
        BY <1>1, <3>1, ACopiarTipo
      <3>3. m = Len(t.datos)
        BY <1>3, <2>1
      <3>4. PICK s : s = t.resta
        OBVIOUS
      <3>5. s \in Nat /\ m \in Nat /\ r \in Nat /\ r = s - a /\ h = m - s
        BY <1>1, <2>1, <3>2, <3>4 DEF Hecho
      <3>6. m - r = n /\ (r > 0 <=> n # m)
        BY <1>2, <1>3, <3>5
      <3>7. QED
        BY <3>3, <3>4, <3>5, <3>6
    <2>3. CASE r > 0
      <3>1. tarea' = [Avanzar EXCEPT !.resta = r, !.datos = tarea.datos]
        BY <1>1, <2>1, <2>3 DEF CopiarPagina, Empezar
      <3>2. tarea \in TareaRecorrer
        BY PagEsta DEF CopiarPagina
      <3>3. /\ tarea'.op = "cpy" /\ tarea'.id = t.id /\ tarea'.dir = dir
            /\ tarea'.datos = t.datos /\ tarea'.n = m /\ tarea'.resta = r
        BY <1>1, <2>1, <3>1, <3>2 DEF Avanzar, TareaRecorrer
      <3>4. CopiaEnCurso' = [id |-> t.id, dir |-> dir, datos |-> t.datos, hecho |-> n]
        BY <2>2, <3>3 DEF CopiaEnCurso
      <3>5. QED
        BY <1>5, <2>2, <2>3, <3>4
    <2>4. CASE ~(r > 0)
      <3>1. tarea' = Nada
        BY <1>1, <2>1, <2>4 DEF CopiarPagina, Contestar
      <3>2. CopiaEnCurso' = Nada
        BY <3>1 DEF CopiaEnCurso, Nada
      <3>3. QED
        BY <2>2, <2>4, <3>2
    <2>5. QED
      BY <2>3, <2>4
  <1>13. QED
    <2>1. CopiaEnCurso.id = t.id /\ CopiaEnCurso.dir = dir /\ CopiaEnCurso.datos = t.datos /\ CopiaEnCurso.hecho = h
      BY <1>4, <1>5
    <2>2. \A j : Virtual!Destino(j) = VistaDe[t.id][dir + j]
      BY <2>1 DEF Virtual!Destino, VistaDe
    <2>3. \A j \in CopiaEnCurso.hecho..n - 1 :
             /\ Virtual!Destino(j) # SinCelda
             /\ [z \in Hechas \X Offsets |-> Byte(z)]'[Virtual!Destino(j)] = CopiaEnCurso.datos[j + 1]
      BY <1>9, <2>1, <2>2
    <2>4. Virtual!Cambian \subseteq {Virtual!Destino(j) : j \in CopiaEnCurso.hecho..n - 1}
      BY <1>10, <2>1, <2>2
    <2>5. /\ CopiaEnCurso # Nada /\ n \in CopiaEnCurso.hecho..Len(CopiaEnCurso.datos)
          /\ CopiaEnCurso' = IF n = Len(CopiaEnCurso.datos) THEN Nada ELSE [CopiaEnCurso EXCEPT !.hecho = n]
      BY <1>4, <1>6, <1>11, <1>12, <2>1
    <2>6. QED
      BY <1>7, <2>3, <2>4, <2>5 DEF Virtual!Escribir, VistaDe

LEMMA Imita ==
  ASSUME "close" \notin Pedidos, "free" \notin Pedidos, Observadas = Nat,
         IInv, Paginado, Dueno, Ordenados, Fiel, [Next]_vars
  PROVE  Virtual!Next
  <1>1. CASE CopiarPagina /\ tarea.op = "cpy"
    BY <1>1, ImitaCopia DEF Virtual!Next
  <1>2. CASE ~CopiarPagina /\ tarea.op = "cpy"
    <2>1. Virtual!Cambian = {}
      BY <1>2, BytesPaso, NadaCambia
    <2>2. VistaDe' = VistaDe
      BY <1>2, CopiaSigue, CeldaEs DEF VistaDe
    <2>3. CopiaEnCurso' = CopiaEnCurso
      BY <1>2, CopiaSigue DEF CopiaEnCurso
    <2>4. Virtual!Interno
      BY <2>1, <2>2, <2>3 DEF Virtual!Interno, VistaDe
    <2>5. QED
      BY <2>4 DEF Virtual!Next
  <1>3. ASSUME NEW id \in Ids, NEW dir \in Direcciones, NEW texto \in Textos,
               muse_cpy(id, dir, texto)
        PROVE  Virtual!Next
    <2>1. dir \in Observadas
      BY MuseConstantes
    <2>2. Virtual!Interno \/ Virtual!Copiar(id, dir, texto)
      BY <1>3, ImitaLlamada
    <2>3. QED
      BY <2>1, <2>2 DEF Virtual!Next
  <1>4. CASE /\ tarea.op # "cpy"
             /\ \A id \in Ids, dir \in Direcciones, texto \in Textos : ~muse_cpy(id, dir, texto)
    <2>1. Virtual!Cambian = {}
      BY <1>4, BytesPaso, NadaCambia
    <2>2. CopiaEnCurso = Nada /\ CopiaEnCurso' = Nada
      BY <1>4, SinCopiar DEF CopiaEnCurso
    <2>3. CASE CeldasQuietas
      <3>1. VistaDe' = VistaDe
        BY <2>3 DEF VistaDe, CeldasQuietas
      <3>2. Virtual!Interno
        BY <2>1, <2>2, <3>1 DEF Virtual!Interno, VistaDe
      <3>3. QED
        BY <3>2 DEF Virtual!Next
    <2>4. ASSUME NEW id \in Ids, ReservaDe(id)
          PROVE  Virtual!Next
      <3>1. \A q \in Ids \ {id} : VistaDe'[q] = VistaDe[q]
        BY <2>4 DEF VistaDe, ReservaDe
      <3>2. \A d \in Observadas :
               VistaDe[id][d] # SinCelda => VistaDe'[id][d] = VistaDe[id][d]
        BY <2>4 DEF VistaDe, ReservaDe
      <3>3. Virtual!Reservar(id)
        BY <2>1, <2>2, <3>1, <3>2 DEF Virtual!Reservar, VistaDe
      <3>4. QED
        BY <3>3 DEF Virtual!Next
    <2>5. ASSUME NEW id \in Ids, LiberaDe(id)
          PROVE  Virtual!Next
      <3>1. \A q \in Ids \ {id} : VistaDe'[q] = VistaDe[q]
        BY <2>5 DEF VistaDe, LiberaDe
      <3>2. \A d \in Observadas : VistaDe'[id][d] \in {VistaDe[id][d], SinCelda}
        BY <2>5 DEF VistaDe, LiberaDe
      <3>3. Virtual!Liberar(id)
        BY <2>1, <2>2, <3>1, <3>2 DEF Virtual!Liberar, VistaDe
      <3>4. QED
        BY <3>3 DEF Virtual!Next
    <2>6. QED
      BY <2>3, <2>4, <2>5, ListasPaso, CeldasPaso
  <1>5. QED
    BY <1>1, <1>2, <1>3, <1>4

LEMMA ImitaInicial ==
  ASSUME Init
  PROVE  Virtual!Init
  <1>1. \A id, d : Celda(id, d) = SinCelda
    BY DEF Init, Celda
  <1>2. Hechas \X Offsets = {}
    BY DEF Init, Hechas
  <1>3. [c \in {} |-> Byte(c)] = <<>>
    OBVIOUS
  <1>4. CopiaEnCurso = Nada
    BY DEF Init, CopiaEnCurso, Nada
  <1>5. QED
    BY <1>1, <1>2, <1>3, <1>4 DEF Virtual!Init

\* In every run without closes and frees the server is a Memoria: whatever it
\* creates, evicts, brings back, enlarges, maps or unmaps, a process keeps the
\* cells it sees until it gives them up, and a byte that some process can see
\* changes only when the muse_cpy under way copies it: each page of the copy
\* fills the addresses that follow those done so far, of the process that called,
\* with the next bytes of its buffer, and changes no other byte of anybody.
\* Where a page is cannot be seen.
THEOREM MuseImplementaMemoria ==
  ASSUME "close" \notin Pedidos, "free" \notin Pedidos, Observadas = Nat
  PROVE  Spec => MemoriaImplementada
  <1>1. Init => IInv /\ Dueno /\ Paginado /\ Ordenados /\ Fiel
    BY FielInicial
  <1>2. /\ IInv /\ Dueno /\ Paginado /\ Ordenados /\ Fiel /\ [Next]_vars
        => IInv' /\ Dueno' /\ Paginado' /\ Ordenados' /\ Fiel'
    BY Paso, DuenoPaso, PaginadoPaso, ListasPaso, FielPaso DEF PasoDeListas
  <1>3. Init => Virtual!Init
    BY ImitaInicial
  <1>4. IInv /\ Dueno /\ Paginado /\ Ordenados /\ Fiel /\ [Next]_vars => Virtual!Next
    BY Imita
  <1>5. QED
    BY <1>1, <1>2, <1>3, <1>4, PTL DEF Spec, MemoriaImplementada, Virtual!Spec

=============================================================================
