----------------------------- MODULE SuseProofs -----------------------------
(***************************************************************************)
(* What is proved of Suse for any number of programs, threads, descriptors *)
(* and semaphores.  First its inductive invariant IInv: every step of      *)
(* every thread, of the main thread and of every client keeps each         *)
(* variable in its type and leaves every busy thread with a program that   *)
(* connected.  TypeOK is cut into one part per group of variables, so that *)
(* a step only has to account for the parts it touches; the others are     *)
(* unchanged (Quietas).  Then, from it, that Suse implements the abstract  *)
(* semaphore, and that main waits for its join.                            *)
(***************************************************************************)
EXTENDS Suse, TLAPS

\* The parts of TypeOK and PedidoOK.
HilosOK == hilo \in [Todos -> TipoHilo] /\ PedidoOK

ConOK     == /\ socket \in [Conexiones -> Fds \cup {0}] /\ abiertas \subseteq Conexiones
             /\ nuevofd \in Fds \cup {0} /\ conectador \in Conexiones \cup {Nadie}
             /\ fd \in [Conexiones -> Fds \cup {0}]
             /\ programas \subseteq Conexiones
             /\ detras \in [Conexiones -> SUBSET Conexiones]
UltsOK    == /\ estado \in [Conexiones -> [Tids -> Estados]]
             /\ joineado \in [Conexiones -> {"Nuevo", "Joineado", "Liberado"}]
             /\ idos \subseteq Conexiones \X Tids
MarcaOK   == marca \subseteq UNION {MarcasDe(c) : c \in Conexiones}
TomadoOK  == tomado \subseteq {CandadoMulti} \cup UNION {MutexesDe(c) : c \in Conexiones}
GradoOK   == grado \in Int /\ multi \in Int
SemsOK    == val \in [Sems -> Int] /\ cola \in [Sems -> Seq(Esperador)]
ClienteOK == caido \in BOOLEAN /\ cliente \in [Conexiones -> TipoCliente]

Partes == /\ ConOK /\ UltsOK /\ MarcaOK /\ TomadoOK /\ GradoOK /\ SemsOK
          /\ HilosOK /\ ClienteOK

\* TypeOK and PedidoOK together are exactly the parts.
LEMMA SonPartes == TypeOK /\ PedidoOK <=> Partes
  BY DEF Partes, TypeOK, ConOK, UltsOK, MarcaOK, TomadoOK, GradoOK, SemsOK,
         HilosOK, ClienteOK

\* The same in the next state, for the direction that steps need.
LEMMA SonPartesPrimadas == Partes' => TypeOK' /\ PedidoOK'
  BY DEF Partes, TypeOK, ConOK, UltsOK, MarcaOK, TomadoOK, GradoOK, SemsOK,
         HilosOK, ClienteOK

\* A part whose variables do not change still holds.
LEMMA Quietas ==
  /\ ConOK /\ UNCHANGED con => ConOK'
  /\ UltsOK /\ UNCHANGED ults => UltsOK'
  /\ MarcaOK /\ UNCHANGED marca => MarcaOK'
  /\ TomadoOK /\ UNCHANGED tomado => TomadoOK'
  /\ GradoOK /\ UNCHANGED <<grado, multi>> => GradoOK'
  /\ SemsOK /\ UNCHANGED sems => SemsOK'
  /\ HilosOK /\ UNCHANGED hilo => HilosOK'
  /\ ClienteOK /\ UNCHANGED <<caido, cliente>> => ClienteOK'
  <1>1. ConOK /\ UNCHANGED con => ConOK'
    BY DEF ConOK, con
  <1>2. UltsOK /\ UNCHANGED ults => UltsOK'
    BY DEF UltsOK, ults
  <1>3. MarcaOK /\ UNCHANGED marca => MarcaOK'
    BY DEF MarcaOK
  <1>4. TomadoOK /\ UNCHANGED tomado => TomadoOK'
    BY DEF TomadoOK
  <1>5. GradoOK /\ UNCHANGED <<grado, multi>> => GradoOK'
    BY DEF GradoOK
  <1>6. SemsOK /\ UNCHANGED sems => SemsOK'
    BY DEF SemsOK, sems
  <1>7. HilosOK /\ UNCHANGED hilo => HilosOK'
    BY DEF HilosOK, PedidoOK
  <1>8. ClienteOK /\ UNCHANGED <<caido, cliente>> => ClienteOK'
    BY DEF ClienteOK
  <1>9. QED
    BY <1>1, <1>2, <1>3, <1>4, <1>5, <1>6, <1>7, <1>8

-----------------------------------------------------------------------------
\* A thread at rest, and the main thread in select, are well typed.
LEMMA HiloReposo ==
  /\ Reposo \in TipoHilo /\ PedidoDe(Reposo)
  /\ EnSelect \in TipoHilo /\ PedidoDe(EnSelect)
  BY SuseConstantes DEF Reposo, EnSelect, TipoHilo, Lugares, Vueltas, PedidoDe

\* Replacing one thread by a well-typed one keeps all threads well typed.
LEMMA HiloPone ==
  ASSUME HilosOK, NEW h \in Todos, NEW r \in TipoHilo, PedidoDe(r), Pone(h, r)
  PROVE  HilosOK'
  BY DEF Pone, HilosOK, PedidoOK

\* A thread that attends something has a program that connected.
LEMMA HiloProg ==
  ASSUME HilosOK, NEW h \in Todos, hilo[h].pc \notin {"libre", "select"}
  PROVE  hilo[h].prog \in Conexiones
  BY DEF HilosOK, PedidoOK, PedidoDe

\* Moving a busy thread to another place keeps the threads well typed.
LEMMA HiloVa ==
  ASSUME HilosOK, NEW h \in Todos, hilo[h].pc \notin {"libre", "select"},
         NEW p \in Lugares \ {"atender"}, Va(h, p)
  PROVE  HilosOK'
  <1>1. hilo[h] \in TipoHilo
    BY DEF HilosOK
  <1>2. hilo[h].prog \in Conexiones
    BY HiloProg
  <1>3. [hilo[h] EXCEPT !.pc = p] \in TipoHilo
    BY <1>1 DEF TipoHilo
  <1>4. PedidoDe([hilo[h] EXCEPT !.pc = p])
    BY <1>1, <1>2 DEF PedidoDe, TipoHilo
  <1>5. QED
    BY <1>3, <1>4, HiloPone DEF Va

\* So does ending it.
LEMMA HiloTermina ==
  ASSUME HilosOK, NEW h \in Todos, Termina(h)
  PROVE  HilosOK'
  BY HiloReposo, HiloPone DEF Termina

\* pc, visto and sigue change together where a degree is asked for or given back.
LEMMA HiloSalta ==
  ASSUME HilosOK, NEW h \in Todos, hilo[h].pc \notin {"libre", "select"},
         NEW p \in (Lugares \ {"atender"}) \cup Vueltas, NEW v \in Int, NEW g \in Vueltas,
         Pone(h, [hilo[h] EXCEPT !.pc = p, !.visto = v, !.sigue = g])
  PROVE  HilosOK'
  <1>1. hilo[h] \in TipoHilo
    BY DEF HilosOK
  <1>2. hilo[h].prog \in Conexiones
    BY HiloProg
  <1>3. p \in Lugares \cup {"libre"} /\ p # "atender"
    BY DEF Lugares, Vueltas
  <1> DEFINE r == [hilo[h] EXCEPT !.pc = p, !.visto = v, !.sigue = g]
  <1>4. r \in TipoHilo
    BY <1>1, <1>3 DEF TipoHilo
  <1>5. PedidoDe(r)
    BY <1>1, <1>2, <1>3 DEF PedidoDe, TipoHilo
  <1>6. QED
    BY <1>4, <1>5, HiloPone

\* Setting out to give a degree back is such a jump.
LEMMA HiloSoltar ==
  ASSUME HilosOK, GradoOK, NEW h \in Todos, hilo[h].pc \notin {"libre", "select"},
         NEW p \in Vueltas, VaASoltar(h, p)
  PROVE  HilosOK'
  <1>1. "suelta" \in Lugares \ {"atender"}
    BY DEF Lugares
  <1>2. grado \in Int
    BY DEF GradoOK
  <1>3. QED
    BY <1>1, <1>2, HiloSalta DEF VaASoltar

-----------------------------------------------------------------------------
\* Mutexes and flags.
LEMMA CandadoToma ==
  ASSUME TomadoOK, NEW c \in Conexiones, NEW m \in MutexesDe(c) \cup {CandadoMulti},
         Toma(m)
  PROVE  TomadoOK'
  BY DEF TomadoOK, Toma

\* Unlocking anything keeps tomado typed.
LEMMA CandadoAbre ==
  ASSUME TomadoOK, NEW S, Abre(S)
  PROVE  TomadoOK'
  BY DEF TomadoOK, Abre

\* The mutexes and flags of a program that connected have known names.
LEMMA Nombres ==
  ASSUME NEW c \in Conexiones
  PROVE  /\ Mutex(c) \in MutexesDe(c)
         /\ \A n \in {"mutex", "hilos", "join", "ult0", "bloqueadoes"} :
                <<c, n>> \in MutexesDe(c)
         /\ \A n \in {"tienehilos", "bloqueado", "planificando", "u0", "u1"} :
                <<c, n>> \in MarcasDe(c)
         /\ TieneHilos(c) \in MarcasDe(c) /\ Bloqueado(c) \in MarcasDe(c)
  BY DEF Mutex, MutexesDe, MarcasDe, TieneHilos, Bloqueado

\* Raising flags of one program, and taking any down, keeps marca typed.
LEMMA MarcaSube ==
  ASSUME MarcaOK, NEW c \in Conexiones, NEW S \in SUBSET MarcasDe(c), NEW B,
         marca' = (marca \ B) \cup S
  PROVE  MarcaOK'
  BY DEF MarcaOK

\* The state of one ult changes.
LEMMA EstadoPone ==
  ASSUME UltsOK, NEW c \in Conexiones, NEW t \in Tids, NEW e \in Estados,
         estado' = [estado EXCEPT ![c][t] = e],
         UNCHANGED <<joineado, idos>>
  PROVE  UltsOK'
  BY DEF UltsOK

-----------------------------------------------------------------------------
\* The release of a degree (292-304 and its copies).
LEMMA SoltarGradoPartes ==
  ASSUME Partes, NEW h \in Todos, SoltarGrado(h)
  PROVE  Partes'
  <1> USE DEF Partes
  <1>1. hilo[h].pc = "suelta" /\ hilo[h] \in TipoHilo
    BY DEF SoltarGrado, En, HilosOK
  <1>2. hilo[h].sigue \in Vueltas /\ hilo[h].visto \in Int
    BY <1>1 DEF TipoHilo
  <1>3. HilosOK'
    <2>1. CASE hilo[h].sigue = "libre"
      BY <2>1, HiloTermina DEF SoltarGrado
    <2>2. CASE hilo[h].sigue # "libre"
      <3>1. Pone(h, [hilo[h] EXCEPT !.pc = hilo[h].sigue, !.visto = 0, !.sigue = "libre"])
        BY <2>2 DEF SoltarGrado
      <3>2. "libre" \in Vueltas
        BY DEF Vueltas
      <3>3. /\ hilo[h].pc \notin {"libre", "select"} /\ 0 \in Int
            /\ hilo[h].sigue \in (Lugares \ {"atender"}) \cup Vueltas
        BY <1>1, <1>2
      <3>4. QED
        BY <3>1, <3>2, <3>3, HiloSalta
    <2>3. QED
      BY <2>1, <2>2
  <1>4. GradoOK'
    BY <1>2 DEF SoltarGrado, GradoOK
  <1>5. TomadoOK'
    BY DEF SoltarGrado, TomadoOK, Abre
  <1>6. QED
    BY <1>3, <1>4, <1>5, Quietas DEF SoltarGrado

\* atender passes the request to the handler of a listed program.
LEMMA AtenderPartes ==
  ASSUME Partes, NEW h \in Hilos, Atender(h)
  PROVE  Partes'
  <1> USE DEF Partes
  <1>1. /\ h \in Todos /\ hilo[h].pc = "atender" /\ hilo[h] \in TipoHilo
        /\ hilo[h].op \in Pedidos
    BY DEF Atender, En, HilosOK, Todos, PedidoOK, PedidoDe
  <1>2. HilosOK'
    <2>1. CASE \E c \in Vigentes(socket[hilo[h].prog]) :
                  Pone(h, [hilo[h] EXCEPT !.pc = hilo[h].op, !.prog = c])
      <3>1. PICK c \in Vigentes(socket[hilo[h].prog]) :
                  Pone(h, [hilo[h] EXCEPT !.pc = hilo[h].op, !.prog = c])
        BY <2>1
      <3> DEFINE r == [hilo[h] EXCEPT !.pc = hilo[h].op, !.prog = c]
      <3>2. c \in Conexiones
        BY DEF Vigentes, ConOK
      <3>3. hilo[h].op \in Lugares \ {"atender"}
        BY <1>1 DEF Pedidos, Lugares
      <3>4. r \in TipoHilo
        BY <1>1, <3>2, <3>3 DEF TipoHilo
      <3>5. r.pc = hilo[h].op /\ r.prog = c
        BY <1>1 DEF TipoHilo
      <3>6. PedidoDe(r)
        BY <3>2, <3>3, <3>5 DEF PedidoDe
      <3>7. QED
        BY <1>1, <3>1, <3>4, <3>6, HiloPone
    <2>2. CASE Termina(h)
      BY <1>1, <2>2, HiloTermina
    <2>3. CASE Va(h, "signal") \/ Cae(h)
      <3>1. {"signal", "colgado"} \subseteq Lugares \ {"atender"}
        BY DEF Lugares
      <3>2. QED
        BY <1>1, <2>3, <3>1, HiloVa DEF Cae
    <2>4. QED
      BY <2>1, <2>2, <2>3 DEF Atender
  <1>3. ClienteOK'
    BY DEF Atender, ClienteOK, Cae
  <1>4. QED
    BY <1>2, <1>3, Quietas DEF Atender

\* Entering the mutex of the program.
LEMMA TomaMutexPartes ==
  ASSUME Partes, NEW h \in Todos, NEW l \in Lugares, NEW p \in Lugares \ {"atender"},
         l # "select", l # "libre", TomaMutex(h, l, p)
  PROVE  Partes'
  <1> USE DEF Partes
  <1>1. hilo[h].pc \notin {"libre", "select"}
    BY DEF TomaMutex, En
  <1>2. HilosOK'
    BY <1>1, HiloVa DEF TomaMutex
  <1>3. hilo[h].prog \in Conexiones
    BY <1>1, HiloProg
  <1>4. TomadoOK'
    BY <1>3, Nombres, CandadoToma DEF TomaMutex
  <1>5. QED
    BY <1>2, <1>4, Quietas DEF TomaMutex

\* crear adds a ready ult; the first one opens hilos.
LEMMA CrearPartes ==
  ASSUME Partes, NEW h \in Hilos, Crear(h)
  PROVE  Partes'
  <1> USE DEF Partes
  <1> DEFINE c == hilo[h].prog
             t == hilo[h].tid
  <1>1. h \in Todos /\ hilo[h].pc \notin {"libre", "select"}
    BY DEF Crear, En, Todos
  <1>2. c \in Conexiones /\ t \in Tids
    BY <1>1, HiloProg DEF HilosOK, TipoHilo
  <1>3. UltsOK'
    <2>1. "Listo" \in Estados
      BY DEF Estados
    <2>2. QED
      BY <1>2, <2>1, EstadoPone DEF Crear
  <1>4. TomadoOK'
    BY CandadoAbre DEF Crear
  <1>5. HilosOK'
    <2>1. "crear3" \in Lugares \ {"atender"}
      BY DEF Lugares
    <2>2. QED
      BY <1>1, <2>1, HiloTermina, HiloVa DEF Crear
  <1>6. QED
    BY <1>3, <1>4, <1>5, Quietas DEF Crear

\* The first of them raises tienehilos.
LEMMA CrearFinPartes ==
  ASSUME Partes, NEW h \in Hilos, CrearFin(h)
  PROVE  Partes'
  <1> USE DEF Partes
  <1> DEFINE c == hilo[h].prog
  <1>1. h \in Todos /\ hilo[h].pc \notin {"libre", "select"}
    BY DEF CrearFin, En, Todos
  <1>2. c \in Conexiones
    BY <1>1, HiloProg
  <1>3. MarcaOK'
    <2>1. marca' = (marca \ {}) \cup {TieneHilos(c)}
      BY DEF CrearFin
    <2>2. QED
      BY <1>2, <2>1, Nombres, MarcaSube
  <1>4. TomadoOK'
    BY CandadoAbre DEF CrearFin
  <1>5. HilosOK'
    BY <1>1, HiloTermina DEF CrearFin
  <1>6. QED
    BY <1>3, <1>4, <1>5, Quietas DEF CrearFin

\* planificar, one lemma per step: the test of the degree.
LEMMA PlanPidePartes ==
  ASSUME Partes, NEW h \in Hilos, PlanPide(h)
  PROVE  Partes'
  <1> USE DEF Partes
  <1> DEFINE c == hilo[h].prog
  <1>1. h \in Todos /\ hilo[h].pc \notin {"libre", "select"}
    BY DEF PlanPide, En, Todos
  <1>2. c \in Conexiones /\ hilo[h] \in TipoHilo
    BY <1>1, HiloProg DEF HilosOK
  <1>3. HilosOK'
    <2>1. /\ {"planMulti", "planGrado"} \subseteq Lugares \ {"atender"}
          /\ {"planEntra", "planVuelve"} \subseteq Vueltas
      BY DEF Lugares, Vueltas
    <2>2. grado \in Int
      BY DEF GradoOK
    <2>3. QED
      BY <1>1, <2>1, <2>2, HiloSalta DEF PlanPide, PideGrado
  <1>4. QED
    BY <1>3, Quietas DEF PlanPide

\* The wait for multiprogramacion.
LEMMA PlanMultiPartes ==
  ASSUME Partes, NEW h \in Hilos, PlanMulti(h)
  PROVE  Partes'
  <1> USE DEF Partes
  <1> DEFINE c == hilo[h].prog
  <1>1. h \in Todos /\ hilo[h].pc \notin {"libre", "select"}
    BY DEF PlanMulti, En, Todos
  <1>2. c \in Conexiones /\ hilo[h] \in TipoHilo
    BY <1>1, HiloProg DEF HilosOK
  <1>3. HilosOK'
    <2>1. "planGrado" \in Lugares
      BY DEF Lugares
    <2> DEFINE r == [hilo[h] EXCEPT !.pc = "planGrado", !.visto = grado]
    <2>2. r \in TipoHilo
      BY <1>2, <2>1 DEF TipoHilo, GradoOK
    <2>3. PedidoDe(r)
      BY <1>2 DEF PedidoDe, TipoHilo
    <2>4. QED
      BY <1>1, <2>2, <2>3, HiloPone DEF PlanMulti
  <1>4. TomadoOK'
    BY <1>2, CandadoToma DEF PlanMulti
  <1>5. QED
    BY <1>3, <1>4, Quietas DEF PlanMulti

\* The decrement of the degree.
LEMMA PlanGradoPartes ==
  ASSUME Partes, NEW h \in Hilos, PlanGrado(h)
  PROVE  Partes'
  <1> USE DEF Partes
  <1> DEFINE c == hilo[h].prog
  <1>1. h \in Todos /\ hilo[h].pc \notin {"libre", "select"}
    BY DEF PlanGrado, En, Todos
  <1>2. c \in Conexiones /\ hilo[h] \in TipoHilo
    BY <1>1, HiloProg DEF HilosOK
  <1>3. hilo[h].visto \in Int /\ hilo[h].sigue \in Vueltas
    BY <1>2 DEF TipoHilo
  <1>4. HilosOK'
    <2>1. "libre" \in Vueltas /\ 0 \in Int
      BY DEF Vueltas
    <2>2. Pone(h, [hilo[h] EXCEPT !.pc = hilo[h].sigue, !.visto = 0, !.sigue = "libre"])
      BY DEF PlanGrado
    <2>3. hilo[h].sigue \in (Lugares \ {"atender"}) \cup Vueltas
      BY <1>3
    <2>4. QED
      BY <1>1, <2>1, <2>2, <2>3, HiloSalta
  <1>5. GradoOK'
    BY <1>3 DEF PlanGrado, GradoOK
  <1>6. QED
    BY <1>4, <1>5, Quietas DEF PlanGrado

\* planificando is raised.
LEMMA PlanEntraPartes ==
  ASSUME Partes, NEW h \in Hilos, PlanEntra(h)
  PROVE  Partes'
  <1> USE DEF Partes
  <1> DEFINE c == hilo[h].prog
  <1>1. h \in Todos /\ hilo[h].pc \notin {"libre", "select"}
    BY DEF PlanEntra, En, Todos
  <1>2. c \in Conexiones /\ hilo[h] \in TipoHilo
    BY <1>1, HiloProg DEF HilosOK
  <1>3. HilosOK'
    <2>1. {"planU1", "planHilos"} \subseteq Lugares \ {"atender"}
      BY DEF Lugares
    <2>2. QED
      BY <1>1, <2>1, HiloVa DEF PlanEntra
  <1>4. MarcaOK'
    <2>1. marca' = (marca \ {}) \cup {<<c, "planificando">>}
      BY DEF PlanEntra
    <2>2. QED
      BY <1>2, <2>1, Nombres, MarcaSube
  <1>5. QED
    BY <1>3, <1>4, Quietas DEF PlanEntra

\* The wait for the first ult.
LEMMA PlanHilosPartes ==
  ASSUME Partes, NEW h \in Hilos, PlanHilos(h)
  PROVE  Partes'
  <1> USE DEF Partes
  <1> DEFINE c == hilo[h].prog
  <1>1. h \in Todos /\ hilo[h].pc \notin {"libre", "select"}
    BY DEF PlanHilos, En, Todos
  <1>2. c \in Conexiones /\ hilo[h] \in TipoHilo
    BY <1>1, HiloProg DEF HilosOK
  <1>3. HilosOK'
    <2>1. {"planU1"} \subseteq Lugares \ {"atender"}
      BY DEF Lugares
    <2>2. QED
      BY <1>1, <2>1, HiloVa DEF PlanHilos
  <1>4. TomadoOK'
    BY <1>2, Nombres, CandadoToma DEF PlanHilos
  <1>5. QED
    BY <1>3, <1>4, Quietas DEF PlanHilos

\* The flag u1 is taken down.
LEMMA PlanU1Partes ==
  ASSUME Partes, NEW h \in Hilos, PlanU1(h)
  PROVE  Partes'
  <1> USE DEF Partes
  <1> DEFINE c == hilo[h].prog
  <1>1. h \in Todos /\ hilo[h].pc \notin {"libre", "select"}
    BY DEF PlanU1, En, Todos
  <1>2. c \in Conexiones /\ hilo[h] \in TipoHilo
    BY <1>1, HiloProg DEF HilosOK
  <1>3. HilosOK'
    <2>1. {"planJoin", "planMutex"} \subseteq Lugares \ {"atender"}
      BY DEF Lugares
    <2>2. QED
      BY <1>1, <2>1, HiloVa DEF PlanU1
  <1>4. MarcaOK'
    <2>1. marca' = (marca \ {<<c, "u1">>}) \cup {}
      BY DEF PlanU1
    <2>2. QED
      BY <1>2, <2>1, Nombres, MarcaSube
  <1>5. QED
    BY <1>3, <1>4, Quietas DEF PlanU1

\* The wait for the join.
LEMMA PlanJoinPartes ==
  ASSUME Partes, NEW h \in Hilos, PlanJoin(h)
  PROVE  Partes'
  <1> USE DEF Partes
  <1> DEFINE c == hilo[h].prog
  <1>1. h \in Todos /\ hilo[h].pc \notin {"libre", "select"}
    BY DEF PlanJoin, En, Todos
  <1>2. c \in Conexiones /\ hilo[h] \in TipoHilo
    BY <1>1, HiloProg DEF HilosOK
  <1>3. HilosOK'
    <2>1. {"planMutex"} \subseteq Lugares \ {"atender"}
      BY DEF Lugares
    <2>2. QED
      BY <1>1, <2>1, HiloVa DEF PlanJoin
  <1>4. TomadoOK'
    BY <1>2, Nombres, CandadoToma DEF PlanJoin
  <1>5. QED
    BY <1>3, <1>4, Quietas DEF PlanJoin

\* The running ult is put back.
LEMMA PlanDesalojaPartes ==
  ASSUME Partes, NEW h \in Hilos, PlanDesaloja(h)
  PROVE  Partes'
  <1> USE DEF Partes
  <1> DEFINE c == hilo[h].prog
  <1>1. h \in Todos /\ hilo[h].pc \notin {"libre", "select"}
    BY DEF PlanDesaloja, En, Todos
  <1>2. c \in Conexiones /\ hilo[h] \in TipoHilo
    BY <1>1, HiloProg DEF HilosOK
  <1>3. HilosOK'
    <2>1. "planEscanea" \in Lugares \ {"atender"} /\ "planEscanea" \in Vueltas
      BY DEF Lugares, Vueltas
    <2>2. QED
      BY <1>1, <2>1, HiloVa, HiloSoltar DEF PlanDesaloja
  <1>4. UltsOK'
    <2>1. "Listo" \in Estados
      BY DEF Estados
    <2>2. CASE \E t \in Corriendo(c) : estado' = [estado EXCEPT ![c][t] = "Listo"]
      <3>1. PICK t \in Corriendo(c) : estado' = [estado EXCEPT ![c][t] = "Listo"]
        BY <2>2
      <3>2. t \in Tids /\ UNCHANGED <<joineado, idos>>
        BY DEF Corriendo, PlanDesaloja
      <3>3. QED
        BY <1>2, <2>1, <3>1, <3>2, EstadoPone
    <2>3. CASE UNCHANGED estado
      BY <2>3 DEF PlanDesaloja, UltsOK
    <2>4. QED
      BY <2>2, <2>3 DEF PlanDesaloja
  <1>5. QED
    BY <1>3, <1>4, Quietas DEF PlanDesaloja

\* The search for a ready ult.
LEMMA PlanEscaneaPartes ==
  ASSUME Partes, NEW h \in Hilos, PlanEscanea(h)
  PROVE  Partes'
  <1> USE DEF Partes
  <1> DEFINE c == hilo[h].prog
  <1>1. h \in Todos /\ hilo[h].pc \notin {"libre", "select"}
    BY DEF PlanEscanea, En, Todos
  <1>2. c \in Conexiones /\ hilo[h] \in TipoHilo
    BY <1>1, HiloProg DEF HilosOK
  <1>3. HilosOK'
    <2>1. CASE \E t \in Elegibles(c) :
                  Pone(h, [hilo[h] EXCEPT !.pc = "planElige", !.tid = t])
      <3>1. PICK t \in Elegibles(c) :
                  Pone(h, [hilo[h] EXCEPT !.pc = "planElige", !.tid = t])
        BY <2>1
      <3>2. t \in Tids /\ "planElige" \in Lugares
        BY DEF Elegibles, Lugares
      <3> DEFINE r == [hilo[h] EXCEPT !.pc = "planElige", !.tid = t]
      <3>3. r \in TipoHilo
        BY <1>2, <3>2 DEF TipoHilo
      <3>4. PedidoDe(r)
        BY <1>2 DEF PedidoDe, TipoHilo
      <3>5. QED
        BY <1>1, <3>1, <3>3, <3>4, HiloPone
    <2>2. CASE Va(h, "planBloquea") \/ Cae(h)
      <3>1. {"planBloquea", "colgado"} \subseteq Lugares \ {"atender"}
        BY DEF Lugares
      <3>2. QED
        BY <1>1, <2>2, <3>1, HiloVa DEF Cae
    <2>3. QED
      BY <2>1, <2>2 DEF PlanEscanea
  <1>4. ClienteOK'
    BY DEF PlanEscanea, ClienteOK, Cae
  <1>5. QED
    BY <1>3, <1>4, Quietas DEF PlanEscanea

\* bloqueado is raised.
LEMMA PlanBloqueaPartes ==
  ASSUME Partes, NEW h \in Hilos, PlanBloquea(h)
  PROVE  Partes'
  <1> USE DEF Partes
  <1> DEFINE c == hilo[h].prog
  <1>1. h \in Todos /\ hilo[h].pc \notin {"libre", "select"}
    BY DEF PlanBloquea, En, Todos
  <1>2. c \in Conexiones /\ hilo[h] \in TipoHilo
    BY <1>1, HiloProg DEF HilosOK
  <1>3. HilosOK'
    <2>1. "planDuerme" \in Vueltas
      BY DEF Vueltas
    <2>2. QED
      BY <1>1, <2>1, HiloSoltar DEF PlanBloquea
  <1>4. MarcaOK'
    <2>1. marca' = (marca \ {}) \cup {Bloqueado(c)}
      BY DEF PlanBloquea
    <2>2. QED
      BY <1>2, <2>1, Nombres, MarcaSube
  <1>5. QED
    BY <1>3, <1>4, Quietas DEF PlanBloquea

\* The mutex is opened before sleeping.
LEMMA PlanDuermePartes ==
  ASSUME Partes, NEW h \in Hilos, PlanDuerme(h)
  PROVE  Partes'
  <1> USE DEF Partes
  <1> DEFINE c == hilo[h].prog
  <1>1. h \in Todos /\ hilo[h].pc \notin {"libre", "select"}
    BY DEF PlanDuerme, En, Todos
  <1>2. c \in Conexiones /\ hilo[h] \in TipoHilo
    BY <1>1, HiloProg DEF HilosOK
  <1>3. HilosOK'
    <2>1. {"planEspera"} \subseteq Lugares \ {"atender"}
      BY DEF Lugares
    <2>2. QED
      BY <1>1, <2>1, HiloVa DEF PlanDuerme
  <1>4. TomadoOK'
    BY CandadoAbre DEF PlanDuerme
  <1>5. QED
    BY <1>3, <1>4, Quietas DEF PlanDuerme

\* The wake-up, which asks for a degree again.
LEMMA PlanEsperaPartes ==
  ASSUME Partes, NEW h \in Hilos, PlanEspera(h)
  PROVE  Partes'
  <1> USE DEF Partes
  <1> DEFINE c == hilo[h].prog
  <1>1. h \in Todos /\ hilo[h].pc \notin {"libre", "select"}
    BY DEF PlanEspera, En, Todos
  <1>2. c \in Conexiones /\ hilo[h] \in TipoHilo
    BY <1>1, HiloProg DEF HilosOK
  <1>3. HilosOK'
    <2>1. /\ {"planMulti", "planGrado"} \subseteq Lugares \ {"atender"}
          /\ {"planEntra", "planVuelve"} \subseteq Vueltas
      BY DEF Lugares, Vueltas
    <2>2. grado \in Int
      BY DEF GradoOK
    <2>3. QED
      BY <1>1, <2>1, <2>2, HiloSalta DEF PlanEspera, PideGrado
  <1>4. TomadoOK'
    BY <1>2, Nombres, CandadoToma DEF PlanEspera
  <1>5. QED
    BY <1>3, <1>4, Quietas DEF PlanEspera

-----------------------------------------------------------------------------
\* Delivering the reply of planificar keeps the clients typed.
LEMMA ClienteEntrega ==
  ASSUME ClienteOK, UNCHANGED caido, NEW f, NEW t \in Tids, Entrega(f, t)
  PROVE  ClienteOK'
  <1>1. ASSUME NEW c \in Conexiones
        PROVE  cliente'[c] \in TipoCliente
    <2> DEFINE k == cliente[c]
               uno == [k EXCEPT !.fase = IF t \in k.vivos THEN "corre" ELSE "fin",
                                !.corre = t]
               otro == [k EXCEPT !.buzon = Append(@, t)]
    <2>1. k \in TipoCliente
      BY DEF ClienteOK
    <2>2. uno \in TipoCliente
      BY <2>1 DEF TipoCliente
    <2>3. Append(k.buzon, t) \in Seq(Tids)
      BY <2>1 DEF TipoCliente
    <2>4. otro \in TipoCliente
      BY <2>1, <2>3 DEF TipoCliente
    <2>5. cliente'[c] \in {k, uno, otro}
      BY <1>1 DEF Entrega
    <2>6. QED
      BY <2>1, <2>2, <2>4, <2>5
  <1>2. cliente' \in [Conexiones -> TipoCliente]
    BY <1>1 DEF Entrega
  <1>3. QED
    BY <1>2 DEF ClienteOK

\* The choice, the new state of the ult and the reply.
LEMMA PlanEligePartes ==
  ASSUME Partes, NEW h \in Hilos, PlanElige(h)
  PROVE  Partes'
  <1> USE DEF Partes
  <1> DEFINE c == hilo[h].prog
  <1>1. h \in Todos /\ hilo[h].pc \notin {"libre", "select"}
    BY DEF PlanElige, En, Todos
  <1>2. c \in Conexiones /\ hilo[h] \in TipoHilo
    BY <1>1, HiloProg DEF HilosOK
  <1>3. PICK t \in Elegibles(c) \cup {hilo[h].tid} :
          \/ /\ t \in Ults(c)
             /\ estado' = [estado EXCEPT ![c][t] = "Ejecutando"]
             /\ Entrega(fd[c], t)
             /\ Pone(h, [hilo[h] EXCEPT !.pc = "planFin", !.tid = t])
             /\ UNCHANGED caido
          \/ /\ t \notin Ults(c)
             /\ IF Ults(c) = {} THEN Cae(h)
                ELSE Va(h, "colgado") /\ UNCHANGED caido
             /\ UNCHANGED <<estado, cliente>>
    BY DEF PlanElige
  <1>4. t \in Tids
    BY <1>2 DEF Elegibles, TipoHilo
  <1>5. HilosOK'
    <2>1. {"planFin", "colgado"} \subseteq Lugares \ {"atender"}
      BY DEF Lugares
    <2>2. CASE Pone(h, [hilo[h] EXCEPT !.pc = "planFin", !.tid = t])
      <3> DEFINE r == [hilo[h] EXCEPT !.pc = "planFin", !.tid = t]
      <3>1. r \in TipoHilo
        BY <1>2, <1>4, <2>1 DEF TipoHilo
      <3>2. PedidoDe(r)
        BY <1>2 DEF PedidoDe, TipoHilo
      <3>3. QED
        BY <1>1, <2>2, <3>1, <3>2, HiloPone
    <2>3. CASE Va(h, "colgado")
      BY <1>1, <2>1, <2>3, HiloVa
    <2>4. QED
      BY <1>3, <2>2, <2>3 DEF Cae
  <1>6. UltsOK'
    <2>1. "Ejecutando" \in Estados /\ UNCHANGED <<joineado, idos>>
      BY DEF Estados, PlanElige
    <2>2. CASE estado' = [estado EXCEPT ![c][t] = "Ejecutando"]
      BY <1>2, <1>4, <2>1, <2>2, EstadoPone
    <2>3. CASE UNCHANGED estado
      BY <2>1, <2>3 DEF UltsOK
    <2>4. QED
      BY <1>3, <2>2, <2>3
  <1>7. ClienteOK'
    <2>1. CASE Entrega(fd[c], t) /\ UNCHANGED caido
      BY <1>4, <2>1, ClienteEntrega
    <2>2. CASE UNCHANGED cliente
      BY <1>3, <2>2 DEF ClienteOK, Cae
    <2>3. QED
      BY <1>3, <2>1, <2>2
  <1>8. QED
    BY <1>5, <1>6, <1>7, Quietas DEF PlanElige

\* The end of planificar.
LEMMA PlanFinPartes ==
  ASSUME Partes, NEW h \in Hilos, PlanFin(h)
  PROVE  Partes'
  <1> USE DEF Partes
  <1> DEFINE c == hilo[h].prog
  <1>1. h \in Todos /\ hilo[h].pc \notin {"libre", "select"}
    BY DEF PlanFin, En, Todos
  <1>2. c \in Conexiones /\ hilo[h] \in TipoHilo
    BY <1>1, HiloProg DEF HilosOK
  <1>3. HilosOK'
    BY <1>1, HiloTermina DEF PlanFin
  <1>4. TomadoOK'
    BY CandadoAbre DEF PlanFin
  <1> DEFINE S == IF <<c, "u0">> \notin marca /\ hilo[h].tid = 0
                  THEN {<<c, "u0">>, <<c, "u1">>} ELSE {}
  <1>5. MarcaOK'
    <2>1. marca' = (marca \ {<<c, "planificando">>}) \cup S
      BY DEF PlanFin
    <2>2. S \in SUBSET MarcasDe(c)
      BY <1>2, Nombres
    <2>3. QED
      BY <1>2, <2>1, <2>2, MarcaSube
  <1>6. QED
    BY <1>3, <1>4, <1>5, Quietas DEF PlanFin

\* joinear: the two tests of u0.
LEMMA JoinPidePartes ==
  ASSUME Partes, NEW h \in Hilos, JoinPide(h)
  PROVE  Partes'
  <1> USE DEF Partes
  <1>1. PICK l \in {"joinear", "joinU0"} :
          /\ En(h, l)
          /\ Va(h, IF <<hilo[h].prog, "u0">> \in marca THEN "joinMutex"
                   ELSE IF l = "joinear" THEN "joinJoin" ELSE "joinUlt0")
          /\ UNCHANGED <<con, ults, marca, tomado, grado, multi, sems, caido,
                         cliente>>
    BY DEF JoinPide
  <1>2. h \in Todos /\ hilo[h].pc \notin {"libre", "select"}
    BY <1>1 DEF En, Todos
  <1>3. {"joinMutex", "joinJoin", "joinUlt0"} \subseteq Lugares \ {"atender"}
    BY DEF Lugares
  <1>4. HilosOK'
    BY <1>1, <1>2, <1>3, HiloVa
  <1>5. QED
    BY <1>1, <1>4, Quietas

\* Its waits on join and ult0.
LEMMA JoinTomaPartes ==
  ASSUME Partes, NEW h \in Hilos, JoinToma(h)
  PROVE  Partes'
  <1> USE DEF Partes
  <1> DEFINE c == hilo[h].prog
  <1>1. h \in Todos /\ hilo[h].pc \notin {"libre", "select"}
    BY DEF JoinToma, En, Todos
  <1>2. c \in Conexiones /\ hilo[h] \in TipoHilo
    BY <1>1, HiloProg DEF HilosOK
  <1>3. HilosOK'
    <2>1. {"joinU0", "joinMutex"} \subseteq Lugares \ {"atender"}
      BY DEF Lugares
    <2>2. QED
      BY <1>1, <2>1, HiloVa DEF JoinToma
  <1>4. TomadoOK'
    BY <1>2, Nombres, CandadoToma DEF JoinToma
  <1>5. QED
    BY <1>3, <1>4, Quietas DEF JoinToma

\* Main is blocked, or about to be.
LEMMA JoinBloqueaPartes ==
  ASSUME Partes, NEW h \in Hilos, JoinBloquea(h)
  PROVE  Partes'
  <1> USE DEF Partes
  <1> DEFINE c == hilo[h].prog
  <1>1. h \in Todos /\ hilo[h].pc \notin {"libre", "select"}
    BY DEF JoinBloquea, En, Todos
  <1>2. c \in Conexiones /\ hilo[h] \in TipoHilo
    BY <1>1, HiloProg DEF HilosOK
  <1>3. HilosOK'
    <2>1. "joinMarca" \in Lugares \ {"atender"} /\ "joinEscribe" \in Vueltas
      BY DEF Lugares, Vueltas
    <2>2. QED
      BY <1>1, <2>1, HiloVa, HiloSoltar DEF JoinBloquea
  <1> DEFINE e == IF estado[c][0] = "Nada" THEN estado[c][0] ELSE "Bloqueado"
  <1>4. UltsOK'
    <2>1. 0 \in Tids /\ e \in Estados
      BY <1>2, SuseConstantes DEF UltsOK, Estados
    <2>2. CASE UNCHANGED estado
      BY <2>2, Quietas DEF JoinBloquea, ults
    <2>3. CASE estado' = [estado EXCEPT ![c][0] = IF @ = "Nada" THEN @ ELSE "Bloqueado"]
      <3>1. estado' = [estado EXCEPT ![c][0] = e] /\ UNCHANGED <<joineado, idos>>
        BY <1>2, <2>1, <2>3 DEF JoinBloquea, UltsOK
      <3>2. QED
        BY <1>2, <2>1, <3>1, EstadoPone
    <2>4. QED
      BY <2>2, <2>3 DEF JoinBloquea
  <1>5. QED
    BY <1>3, <1>4, Quietas DEF JoinBloquea

\* An ult that joinear or wait stopped is put to sleep.
LEMMA AdormecePartes ==
  ASSUME Partes, NEW h \in Hilos, NEW l, NEW t \in Tids, NEW p \in Lugares \ {"atender"},
         l \notin {"libre", "select"}, Adormece(h, l, t, p)
  PROVE  Partes'
  <1> USE DEF Partes
  <1> DEFINE c == hilo[h].prog
  <1>1. h \in Todos /\ hilo[h].pc \notin {"libre", "select"}
    BY DEF Adormece, En, Todos
  <1>2. c \in Conexiones
    BY <1>1, HiloProg
  <1>3. HilosOK'
    BY <1>1, HiloVa DEF Adormece
  <1>4. UltsOK'
    <2>1. CASE estado' = [estado EXCEPT ![c][t] = "Bloqueado"] /\ UNCHANGED idos
      <3>1. "Bloqueado" \in Estados
        BY DEF Estados
      <3>2. QED
        BY <1>2, <2>1, <3>1, EstadoPone DEF Adormece
    <2>2. CASE idos' = idos \cup {<<c, t>>} /\ UNCHANGED estado
      BY <1>2, <2>2 DEF Adormece, UltsOK
    <2>3. QED
      BY <2>1, <2>2 DEF Adormece
  <1>5. QED
    BY <1>3, <1>4, Quietas DEF Adormece

\* Main is.
LEMMA JoinEscribePartes ==
  ASSUME Partes, NEW h \in Hilos, JoinEscribe(h)
  PROVE  Partes'
  <1>1. 0 \in Tids /\ "joinMarca" \in Lugares \ {"atender"}
    BY SuseConstantes DEF Lugares
  <1>2. QED
    BY <1>1, AdormecePartes DEF JoinEscribe

\* The ult that waits is.
LEMMA EsperaEscribePartes ==
  ASSUME Partes, NEW h \in Hilos, EsperaEscribe(h)
  PROVE  Partes'
  <1>1. hilo[h].tid \in Tids /\ "waitFin" \in Lugares \ {"atender"}
    BY DEF Partes, HilosOK, TipoHilo, Lugares, Todos
  <1>2. QED
    BY <1>1, AdormecePartes DEF EsperaEscribe

\* The join is recorded, or main is ready at once.
LEMMA JoinMarcaPartes ==
  ASSUME Partes, NEW h \in Hilos, JoinMarca(h)
  PROVE  Partes'
  <1> USE DEF Partes
  <1> DEFINE c == hilo[h].prog
  <1>1. h \in Todos /\ hilo[h].pc \notin {"libre", "select"}
    BY DEF JoinMarca, En, Todos
  <1>2. c \in Conexiones /\ hilo[h] \in TipoHilo
    BY <1>1, HiloProg DEF HilosOK
  <1>3. HilosOK'
    <2>1. "colgado" \in Lugares \ {"atender"}
      BY DEF Lugares
    <2>2. QED
      BY <1>1, <2>1, HiloVa, HiloTermina DEF JoinMarca
  <1>4. UltsOK'
    <2>1. 0 \in Tids /\ "Listo" \in Estados
      BY SuseConstantes DEF Estados
    <2>2. CASE UNCHANGED <<estado, joineado>>
      BY <2>2, Quietas DEF JoinMarca, ults
    <2>3. CASE /\ estado' = [estado EXCEPT ![c][0] =
                                IF hilo[h].tid \in Ults(c) \/ @ = "Nada" THEN @ ELSE "Listo"]
                /\ joineado' = [joineado EXCEPT ![c] = "Joineado"]
      <3> DEFINE e == IF hilo[h].tid \in Ults(c) \/ estado[c][0] = "Nada"
                      THEN estado[c][0] ELSE "Listo"
      <3>1. e \in Estados
        BY <1>2, <2>1 DEF UltsOK
      <3>2. estado' = [estado EXCEPT ![c][0] = e]
        BY <1>2, <2>1, <2>3 DEF UltsOK
      <3>3. estado' \in [Conexiones -> [Tids -> Estados]]
        <4> HIDE DEF e
        <4> QED
          BY <1>2, <2>1, <3>1, <3>2 DEF UltsOK
      <3>4. QED
        BY <1>2, <2>3, <3>3 DEF UltsOK, JoinMarca
    <2>4. QED
      BY <2>2, <2>3 DEF JoinMarca
  <1>5. TomadoOK'
    <2>1. CASE UNCHANGED tomado
      BY <2>1, Quietas
    <2>2. CASE tomado' \subseteq tomado
      BY <2>2 DEF TomadoOK
    <2>3. QED
      BY <2>1, <2>2 DEF JoinMarca, Abre
  <1>6. QED
    BY <1>3, <1>4, <1>5, Quietas DEF JoinMarca

\* cerrar removes the ult and may free main.
LEMMA CerrarPartes ==
  ASSUME Partes, NEW h \in Hilos, Cerrar(h)
  PROVE  Partes'
  <1> USE DEF Partes
  <1> DEFINE c == hilo[h].prog
  <1>1. h \in Todos /\ hilo[h].pc \notin {"libre", "select"}
    BY DEF Cerrar, En, Todos
  <1>2. c \in Conexiones /\ hilo[h] \in TipoHilo
    BY <1>1, HiloProg DEF HilosOK
  <1> DEFINE t == hilo[h].tid
             dos == Cardinality(Ults(c)) = 2
             v == IF t \in Corriendo(c) /\ ~(dos /\ t = 0) THEN 1 ELSE 0
             r == [hilo[h] EXCEPT !.pc = "cerrar3", !.visto = v]
  <1>3. HilosOK'
    <2>1. {"cerrar3", "colgado"} \subseteq Lugares \ {"atender"}
      BY DEF Lugares
    <2>2. CASE Va(h, "colgado")
      BY <1>1, <2>1, <2>2, HiloVa
    <2>3. CASE Pone(h, r)
      <3>1. v \in Int
        OBVIOUS
      <3>2. r \in TipoHilo /\ r.pc = "cerrar3" /\ r.prog = c
        <4> HIDE DEF v, dos
        <4> QED
          BY <1>2, <2>1, <3>1 DEF TipoHilo
      <3>3. PedidoDe(r)
        BY <1>2, <3>2 DEF PedidoDe
      <3>4. QED
        BY <1>1, <2>3, <3>2, <3>3, HiloPone
    <2>4. QED
      BY <2>2, <2>3 DEF Cerrar, Cae
  <1>4. UltsOK'
    <2>1. CASE UNCHANGED <<estado, joineado>>
      BY <2>1, Quietas DEF Cerrar, ults
    <2>2. CASE
          /\ estado' = [estado EXCEPT ![c] = [u \in Tids |->
                              IF u = t THEN "Nada"
                              ELSE IF u = 0 /\ dos THEN "Listo" ELSE @[u]]]
          /\ joineado' = [joineado EXCEPT ![c] = IF dos THEN "Liberado" ELSE @]
      <3>1. estado' \in [Conexiones -> [Tids -> Estados]]
        BY <1>2, <2>2 DEF UltsOK, Estados
      <3>2. joineado' \in [Conexiones -> {"Nuevo", "Joineado", "Liberado"}]
        BY <1>2, <2>2 DEF UltsOK
      <3>3. QED
        BY <3>1, <3>2 DEF UltsOK, Cerrar
    <2>3. QED
      BY <2>1, <2>2 DEF Cerrar
  <1>5. TomadoOK'
    <2>1. CASE UNCHANGED tomado
      BY <2>1, Quietas
    <2>2. CASE Abre({Mutex(c)})
      BY <2>2, CandadoAbre
    <2>3. QED
      BY <2>1, <2>2 DEF Cerrar
  <1>6. ClienteOK'
    BY DEF Cerrar, ClienteOK, Cae
  <1>7. QED
    BY <1>3, <1>4, <1>5, <1>6, Quietas DEF Cerrar

\* Its second unlock and the release that follows.
LEMMA CerrarFinPartes ==
  ASSUME Partes, NEW h \in Hilos, CerrarFin(h)
  PROVE  Partes'
  <1> USE DEF Partes
  <1> DEFINE c == hilo[h].prog
  <1>1. h \in Todos /\ hilo[h].pc \notin {"libre", "select"}
    BY DEF CerrarFin, En, Todos
  <1>2. c \in Conexiones /\ hilo[h] \in TipoHilo
    BY <1>1, HiloProg DEF HilosOK
  <1>3. HilosOK'
    <2>1. "libre" \in Vueltas
      BY DEF Vueltas
    <2>2. QED
      BY <1>1, <2>1, HiloSoltar, HiloTermina DEF CerrarFin
  <1>4. TomadoOK'
    BY CandadoAbre DEF CerrarFin
  <1>5. QED
    BY <1>3, <1>4, Quietas DEF CerrarFin

-----------------------------------------------------------------------------
\* A client that just started, or just left, is well typed.
LEMMA ClienteNuevo ==
  ClienteInicial \in TipoCliente /\ [ClienteInicial EXCEPT !.fase = "fuera"] \in TipoCliente
  <1>1. 0 \in {n \in Nat : 0 .. n - 1 \subseteq Tids}
    OBVIOUS
  <1>2. 0 \in Tids /\ {} \subseteq Tids /\ 0 \in 0 .. MaxPedidos /\ <<>> \in Seq(Tids)
    BY SuseConstantes
  <1>3. QED
    BY <1>1, <1>2 DEF ClienteInicial, TipoCliente

\* A change at a name that is not in the configuration changes nothing.
LEMMA SemsPone ==
  ASSUME SemsOK, NEW s, NEW x, NEW q, s \in Sems => x \in Int /\ q \in Seq(Esperador),
         \/ val' = [val EXCEPT ![s] = x] /\ UNCHANGED cola
         \/ cola' = [cola EXCEPT ![s] = q] /\ UNCHANGED val
  PROVE  SemsOK' /\ (s \notin Sems => UNCHANGED sems)
  <1>1. CASE s \in Sems
    BY <1>1 DEF SemsOK
  <1>2. CASE s \notin Sems
    BY <1>2 DEF SemsOK, sems
  <1>3. QED
    BY <1>1, <1>2

\* wait takes a permit or joins the queue.
LEMMA EsperarPartes ==
  ASSUME Partes, NEW h \in Hilos, Esperar(h)
  PROVE  Partes'
  <1> USE DEF Partes
  <1> DEFINE c == hilo[h].prog
  <1>1. h \in Todos /\ hilo[h].pc \notin {"libre", "select"}
    BY DEF Esperar, En, Todos
  <1>2. c \in Conexiones /\ hilo[h] \in TipoHilo
    BY <1>1, HiloProg DEF HilosOK
  <1> DEFINE t == hilo[h].tid
             s == hilo[h].sem
  <1>3. HilosOK'
    <2>1. {"waitFin", "colgado"} \subseteq Lugares \ {"atender"} /\ "waitEscribe" \in Vueltas
      BY DEF Lugares, Vueltas
    <2>2. QED
      BY <1>1, <2>1, HiloVa, HiloSoltar DEF Esperar, Cae
  <1>4. UltsOK'
    <2>1. "Bloqueado" \in Estados /\ t \in Tids /\ UNCHANGED <<joineado, idos>>
      BY <1>2 DEF Estados, TipoHilo, Esperar
    <2>2. CASE estado' = [estado EXCEPT ![c][t] = "Bloqueado"]
      BY <1>2, <2>1, <2>2, EstadoPone
    <2>3. CASE UNCHANGED estado
      BY <2>1, <2>3 DEF UltsOK
    <2>4. QED
      BY <2>2, <2>3 DEF Esperar
  <1>5. SemsOK'
    <2>1. CASE val' = [val EXCEPT ![s] = @ - 1] /\ UNCHANGED cola
      <3>1. val' = [val EXCEPT ![s] = val[s] - 1]
        BY <2>1 DEF SemsOK
      <3>2. s \in Sems => val[s] - 1 \in Int /\ cola[s] \in Seq(Esperador)
        BY DEF SemsOK
      <3>3. QED
        BY <2>1, <3>1, <3>2, SemsPone
    <2>2. CASE cola' = [cola EXCEPT ![s] = Entra(@, <<fd[c], t>>)] /\ UNCHANGED val
      <3>1. <<fd[c], t>> \in Esperador
        BY <1>2 DEF Esperador, ConOK, TipoHilo
      <3>2. cola' = [cola EXCEPT ![s] = Append(cola[s], <<fd[c], t>>)]
        BY <2>2 DEF SemsOK, Entra
      <3>3. s \in Sems => val[s] \in Int /\ Append(cola[s], <<fd[c], t>>) \in Seq(Esperador)
        BY <3>1 DEF SemsOK
      <3>4. QED
        BY <2>2, <3>2, <3>3, SemsPone
    <2>3. QED
      BY <2>1, <2>2 DEF Esperar
  <1>6. ClienteOK'
    BY DEF Esperar, ClienteOK, Cae
  <1>7. QED
    BY <1>3, <1>4, <1>5, <1>6, Quietas DEF Esperar

\* The end of wait.
LEMMA EsperarFinPartes ==
  ASSUME Partes, NEW h \in Hilos, EsperarFin(h)
  PROVE  Partes'
  <1> USE DEF Partes
  <1> DEFINE c == hilo[h].prog
  <1>1. h \in Todos /\ hilo[h].pc \notin {"libre", "select"}
    BY DEF EsperarFin, En, Todos
  <1>2. c \in Conexiones /\ hilo[h] \in TipoHilo
    BY <1>1, HiloProg DEF HilosOK
  <1>3. HilosOK'
    BY <1>1, HiloTermina DEF EsperarFin
  <1>4. TomadoOK'
    BY CandadoAbre DEF EsperarFin
  <1>5. QED
    BY <1>3, <1>4, Quietas DEF EsperarFin

\* signal wakes the oldest waiter or gives a permit.
LEMMA SenalarPartes ==
  ASSUME Partes, NEW h \in Hilos, Senalar(h)
  PROVE  Partes'
  <1> USE DEF Partes
  <1> DEFINE c == hilo[h].prog
  <1>1. h \in Todos /\ hilo[h].pc \notin {"libre", "select"}
    BY DEF Senalar, En, Todos
  <1>2. c \in Conexiones /\ hilo[h] \in TipoHilo
    BY <1>1, HiloProg DEF HilosOK
  <1> DEFINE s == hilo[h].sem
             f == Head(cola[s])[1]
             t == Head(cola[s])[2]
             despierta == Despiertan(f, t)
             dormido == Dormidos(despierta)
  <1>3. HilosOK'
    BY <1>1, HiloTermina DEF Senalar
  <1>4. UltsOK'
    <2>1. CASE UNCHANGED estado
      BY <2>1 DEF Senalar, UltsOK
    <2>2. CASE estado' = [d \in Conexiones |->
                      IF d \in despierta THEN [estado[d] EXCEPT ![t] = "Listo"]
                      ELSE estado[d]]
      <3>1. "Listo" \in Estados
        BY DEF Estados
      <3>2. QED
        BY <2>2, <3>1 DEF Senalar, UltsOK
    <2>3. QED
      BY <2>1, <2>2 DEF Senalar
  <1>5. SemsOK'
    <2>1. CASE val' = [val EXCEPT ![s] = Devuelto(s)] /\ UNCHANGED cola
      <3>1. s \in Sems => Devuelto(s) \in Int /\ cola[s] \in Seq(Esperador)
        BY DEF SemsOK, Devuelto
      <3>2. QED
        BY <2>1, <3>1, SemsPone
    <2>2. CASE cola[s] # <<>> /\ cola' = [cola EXCEPT ![s] = Tail(@)] /\ UNCHANGED val
      <3>1. cola' = [cola EXCEPT ![s] = Tail(cola[s])]
        BY <2>2 DEF SemsOK
      <3>2. s \in Sems => val[s] \in Int /\ Tail(cola[s]) \in Seq(Esperador)
        BY <2>2 DEF SemsOK
      <3>3. QED
        BY <2>2, <3>1, <3>2, SemsPone
    <2>3. QED
      BY <2>1, <2>2 DEF Senalar
  <1>6. MarcaOK' /\ TomadoOK'
    <2>1. CASE UNCHANGED <<marca, tomado>>
      BY <2>1, Quietas
    <2>2. CASE /\ marca' = marca \ {Bloqueado(d) : d \in dormido}
                /\ Abre({<<d, "bloqueadoes">> : d \in dormido})
      <3>1. MarcaOK'
        BY <2>2 DEF MarcaOK
      <3>2. QED
        BY <2>2, <3>1, CandadoAbre
    <2>3. QED
      BY <2>1, <2>2 DEF Senalar
  <1>7. QED
    BY <1>3, <1>4, <1>5, <1>6, Quietas DEF Senalar

-----------------------------------------------------------------------------
\* A connection is accepted.
LEMMA AceptarPartes ==
  ASSUME Partes, NEW c \in Conexiones, Aceptar(c)
  PROVE  Partes'
  <1> USE DEF Partes
  <1> DEFINE r == [hilo[Principal] EXCEPT !.pc = "acepta", !.prog = c]
  <1>1. ConOK'
    BY DEF Aceptar, ConOK, Libres
  <1>2. HilosOK'
    <2>1. Principal \in Todos /\ hilo[Principal] \in TipoHilo
      BY DEF Todos, HilosOK
    <2>2. r \in TipoHilo /\ r.pc = "acepta" /\ r.prog = c
      BY <2>1 DEF TipoHilo, Lugares
    <2>3. PedidoDe(r)
      BY <2>2 DEF PedidoDe
    <2>4. QED
      BY <2>1, <2>2, <2>3, HiloPone DEF Aceptar
  <1>3. QED
    BY <1>1, <1>2, Quietas DEF Aceptar

\* Its conectar starts.
LEMMA LanzarPartes ==
  ASSUME Partes, Lanzar
  PROVE  Partes'
  <1> USE DEF Partes
  <1>1. Principal \in Todos /\ hilo[Principal].prog \in Conexiones
    <2>1. Principal \in Todos /\ hilo[Principal].pc \notin {"libre", "select"}
      BY DEF Todos, Lanzar, En
    <2>2. QED
      BY <2>1, HiloProg
  <1>2. HilosOK'
    BY <1>1, HiloReposo, HiloPone DEF Lanzar
  <1>3. ConOK'
    BY <1>1 DEF Lanzar, ConOK
  <1>4. QED
    BY <1>2, <1>3, Quietas DEF Lanzar

\* It makes a program with its three closed mutexes.
LEMMA ConectarPartes ==
  ASSUME Partes, Conectar
  PROVE  Partes'
  <1> USE DEF Partes
  <1>1. conectador \in Conexiones
    BY DEF Conectar, ConOK
  <1>2. ConOK'
    BY DEF Conectar, ConOK
  <1>3. Cerrados(conectador) \subseteq MutexesDe(conectador)
    BY <1>1, Nombres DEF Cerrados
  <1>4. TomadoOK'
    BY <1>1, <1>3 DEF Conectar, TomadoOK
  <1>5. QED
    BY <1>2, <1>4, Quietas DEF Conectar

\* And links it.
LEMMA EnlazarPartes ==
  ASSUME Partes, Enlazar
  PROVE  Partes'
  <1> USE DEF Partes
  <1>1. ConOK'
    BY DEF Enlazar, ConOK
  <1>2. QED
    BY <1>1, Quietas DEF Enlazar

\* A disconnection is noticed.
LEMMA DesconectarPartes ==
  ASSUME Partes, NEW c \in Conexiones, Desconectar(c)
  PROVE  Partes'
  <1> USE DEF Partes
  <1>1. PICK d \in Vigentes(socket[c]) :
          Pone(Principal, [hilo[Principal] EXCEPT
                    !.pc = IF <<d, "planificando">> \in marca
                           THEN "descMutex" ELSE "descUlts",
                    !.prog = d])
    BY DEF Desconectar
  <1> DEFINE p == IF <<d, "planificando">> \in marca THEN "descMutex" ELSE "descUlts"
             r == [hilo[Principal] EXCEPT !.pc = p, !.prog = d]
             fuera == [ClienteInicial EXCEPT !.fase = "fuera"]
  <1>2. Principal \in Todos /\ hilo[Principal] \in TipoHilo /\ d \in Conexiones
    BY DEF Todos, HilosOK, ConOK, Vigentes
  <1>3. p \in Lugares \ {"atender"}
    BY DEF Lugares
  <1>4. HilosOK'
    <2>1. Pone(Principal, r)
      BY <1>1
    <2>2. r \in TipoHilo /\ r.pc = p /\ r.prog = d
      <3> HIDE DEF p
      <3> QED
        BY <1>2, <1>3 DEF TipoHilo
    <2>3. PedidoDe(r)
      BY <1>2, <1>3, <2>2 DEF PedidoDe
    <2>4. QED
      BY <1>2, <2>1, <2>2, <2>3, HiloPone
  <1>5. ClienteOK'
    <2>1. fuera \in TipoCliente
      BY ClienteNuevo
    <2>2. cliente' = [cliente EXCEPT ![c] = fuera]
      BY DEF Desconectar
    <2>3. QED
      BY <2>1, <2>2 DEF ClienteOK, Desconectar
  <1>6. QED
    BY <1>4, <1>5, Quietas DEF Desconectar

\* The ults of a program that left give their degree back.
LEMMA DescUltsPartes ==
  ASSUME Partes, DescUlts
  PROVE  Partes'
  <1> USE DEF Partes
  <1>1. Principal \in Todos /\ hilo[Principal].pc \notin {"libre", "select"}
    BY DEF Todos, DescUlts, En
  <1>2. "descFin" \in Lugares \ {"atender"} /\ "descFin" \in Vueltas
    BY DEF Lugares, Vueltas
  <1>3. HilosOK'
    BY <1>1, <1>2, HiloVa, HiloSoltar DEF DescUlts
  <1>4. QED
    BY <1>3, Quietas DEF DescUlts

\* The program leaves the list.
LEMMA DescFinPartes ==
  ASSUME Partes, DescFin
  PROVE  Partes'
  <1> USE DEF Partes
  <1>1. HilosOK'
    BY HiloReposo, HiloPone DEF DescFin, Todos
  <1>2. ConOK'
    BY DEF DescFin, ConOK
  <1>3. QED
    BY <1>1, <1>2, Quietas DEF DescFin

-----------------------------------------------------------------------------
\* A request that is sent: the thread that attends it and the client's side.
LEMMA PidePartes ==
  ASSUME Partes, NEW c \in Conexiones, NEW op \in Pedidos, NEW t \in Tids,
         NEW s \in Sems \cup {Nadie}, NEW k \in TipoCliente, Pide(c, op, t, s, k)
  PROVE  Partes'
  <1> USE DEF Partes
  <1>1. PICK h \in Hilos :
          Pone(h, [Reposo EXCEPT !.pc = "atender", !.op = op, !.prog = c,
                                 !.tid = t, !.sem = s])
    BY DEF Pide
  <1> DEFINE r == [Reposo EXCEPT !.pc = "atender", !.op = op, !.prog = c,
                                 !.tid = t, !.sem = s]
             n == cliente[c].enviados + 1
             nuevo == [k EXCEPT !.enviados = n]
  <1>2. HilosOK'
    <2>1. "atender" \in Lugares
      BY DEF Lugares
    <2>2. r \in TipoHilo /\ r.prog = c /\ r.op = op
      BY <2>1, HiloReposo DEF TipoHilo
    <2>3. PedidoDe(r)
      BY <2>2 DEF PedidoDe
    <2>4. QED
      BY <1>1, <2>2, <2>3, HiloPone DEF Todos
  <1>3. ClienteOK'
    <2>1. n \in 0 .. MaxPedidos
      <3>1. cliente[c].enviados \in 0 .. MaxPedidos
        BY DEF ClienteOK, TipoCliente
      <3>2. QED
        BY <3>1, SuseConstantes DEF Pide
    <2>2. nuevo \in TipoCliente
      <3> HIDE DEF n
      <3> QED
        BY <2>1 DEF TipoCliente
    <2>3. QED
      BY <2>2 DEF Pide, ClienteOK
  <1>4. QED
    BY <1>2, <1>3, Quietas DEF Pide

\* Every call of libSUSE sends a well-formed request.
LEMMA PasoClientePartes ==
  ASSUME Partes, NEW c \in Conexiones, PasoCliente(c)
  PROVE  Partes'
  <1> USE DEF Partes
  <1> DEFINE k == cliente[c]
  <1>1. k \in TipoCliente
    BY DEF ClienteOK
  <1>2. /\ {"crear", "planificar", "joinear", "cerrar", "wait", "signal"} \subseteq Pedidos
        /\ 0 \in Tids /\ Nadie \in Sems \cup {Nadie}
    BY SuseConstantes DEF Pedidos
  <1>3. /\ k.corre \in Tids /\ k.vivos \subseteq Tids /\ k.buzon \in Seq(Tids)
        /\ k.creados \in Nat /\ 0 .. k.creados - 1 \subseteq Tids
    BY <1>1 DEF TipoCliente
  <1>4. CASE suse_create(c)
    <2> DEFINE n == k.creados + 1
               v == k.vivos \cup {k.creados}
    <2>1. k.creados \in Tids
      BY <1>4 DEF suse_create
    <2>2. n \in {m \in Nat : 0 .. m - 1 \subseteq Tids} /\ v \subseteq Tids
      BY <1>3, <2>1, SuseConstantes
    <2>3. [k EXCEPT !.creados = n, !.vivos = v] \in TipoCliente
      <3> HIDE DEF n, v
      <3> QED
        BY <1>1, <2>2 DEF TipoCliente
    <2>4. Pide(c, "crear", k.creados, Nadie, [k EXCEPT !.creados = n, !.vivos = v])
      BY <1>1, <1>4 DEF suse_create, TipoCliente
    <2>5. QED
      BY <1>2, <2>1, <2>3, <2>4, PidePartes
  <1>5. CASE suse_schedule_next(c)
    <2>1. CASE k.buzon = <<>>
      <3>1. [k EXCEPT !.fase = "espera"] \in TipoCliente
        BY <1>1 DEF TipoCliente
      <3>2. Pide(c, "planificar", 0, Nadie, [k EXCEPT !.fase = "espera"])
        BY <1>5, <2>1 DEF suse_schedule_next
      <3>3. QED
        BY <1>2, <3>1, <3>2, PidePartes
    <2>2. CASE k.buzon # <<>>
      <3> DEFINE x == Head(k.buzon)
                 b == Tail(k.buzon)
                 e == IF x \in k.vivos THEN "corre" ELSE "fin"
                 n == [k EXCEPT !.buzon = b, !.corre = x, !.fase = e]
      <3>1. x \in Tids /\ b \in Seq(Tids) /\ e \in {"corre", "fin"}
        BY <1>3, <2>2
      <3>2. n \in TipoCliente
        <4> HIDE DEF x, b, e
        <4> QED
          BY <1>1, <3>1 DEF TipoCliente
      <3>3. Pide(c, "planificar", 0, Nadie, n)
        BY <1>1, <1>5, <2>2 DEF suse_schedule_next, TipoCliente
      <3>4. QED
        BY <1>2, <3>2, <3>3, PidePartes
    <2>3. QED
      BY <2>1, <2>2
  <1>6. CASE suse_join(c)
    <2>1. PICK t \in 1 .. k.creados - 1 :
              Pide(c, "joinear", t, Nadie, [k EXCEPT !.fase = "debe"])
      BY <1>6 DEF suse_join
    <2>2. t \in Tids
      BY <1>3
    <2>3. [k EXCEPT !.fase = "debe"] \in TipoCliente
      BY <1>1 DEF TipoCliente
    <2>4. QED
      BY <1>2, <2>1, <2>2, <2>3, PidePartes
  <1>7. CASE suse_close(c)
    <2> DEFINE e == IF k.corre = 0 THEN "fin" ELSE "debe"
               v == k.vivos \ {k.corre}
               n == [k EXCEPT !.fase = e, !.vivos = v]
    <2>1. e \in {"fin", "debe"} /\ v \subseteq Tids
      BY <1>3
    <2>2. n \in TipoCliente
      <3> HIDE DEF e, v
      <3> QED
        BY <1>1, <2>1 DEF TipoCliente
    <2>3. Pide(c, "cerrar", k.corre, Nadie, n)
      BY <1>1, <1>7 DEF suse_close, TipoCliente
    <2>4. QED
      BY <1>2, <1>3, <2>2, <2>3, PidePartes
  <1>8. ASSUME NEW s \in Sems, suse_wait(c, s)
        PROVE  Partes'
    <2>1. [k EXCEPT !.fase = "debe"] \in TipoCliente
      BY <1>1 DEF TipoCliente
    <2>2. Pide(c, "wait", k.corre, s, [k EXCEPT !.fase = "debe"])
      BY <1>8 DEF suse_wait
    <2>3. QED
      BY <1>2, <1>3, <2>1, <2>2, PidePartes
  <1>9. ASSUME NEW s \in Sems, suse_signal(c, s)
        PROVE  Partes'
    <2>1. Pide(c, "signal", 0, s, k)
      BY <1>9 DEF suse_signal
    <2>2. QED
      BY <1>1, <1>2, <2>1, PidePartes
  <1>10. QED
    BY <1>4, <1>5, <1>6, <1>7, <1>8, <1>9 DEF PasoCliente

-----------------------------------------------------------------------------
\* The types hold at the start.
LEMMA InitPartes ==
  ASSUME Init
  PROVE  Partes
  <1> USE SuseConstantes DEF Init
  <1>1. ConOK
    BY DEF ConOK
  <1>2. UltsOK
    BY DEF UltsOK, Estados
  <1>3. MarcaOK /\ TomadoOK
    BY DEF MarcaOK, TomadoOK
  <1>4. GradoOK
    BY DEF GradoOK
  <1>5. SemsOK
    BY DEF SemsOK
  <1>6. HilosOK
    BY HiloReposo DEF HilosOK, PedidoOK, Todos
  <1>7. ClienteOK
    BY ClienteNuevo DEF ClienteOK
  <1>8. QED
    BY <1>1, <1>2, <1>3, <1>4, <1>5, <1>6, <1>7 DEF Partes

\* Every step of a thread that attends a request keeps them.
LEMMA PasoHiloPartes ==
  ASSUME Partes, NEW h \in Hilos, PasoHilo(h)
  PROVE  Partes'
  <1>1. h \in Todos
    BY DEF Todos
  <1>2. /\ {"crear", "planMutex", "planVuelve", "joinMutex", "cerrar", "wait"}
               \subseteq Lugares \ {"select", "libre"}
        /\ {"crear2", "planDesaloja", "planEscanea", "joinBloquea", "cerrar2", "wait2"}
               \subseteq Lugares \ {"atender"}
    BY DEF Lugares
  <1>3. CASE \/ Atender(h) \/ SoltarGrado(h) \/ Crear(h) \/ CrearFin(h)
             \/ TomaMutex(h, "crear", "crear2")
    BY <1>1, <1>2, <1>3, AtenderPartes, SoltarGradoPartes, CrearPartes, CrearFinPartes,
       TomaMutexPartes
  <1>4. CASE \/ PlanPide(h) \/ PlanMulti(h) \/ PlanGrado(h) \/ PlanEntra(h)
             \/ PlanHilos(h) \/ PlanU1(h) \/ PlanJoin(h)
    BY <1>4, PlanPidePartes, PlanMultiPartes, PlanGradoPartes, PlanEntraPartes,
       PlanHilosPartes, PlanU1Partes, PlanJoinPartes
  <1>5. CASE \/ TomaMutex(h, "planMutex", "planDesaloja") \/ PlanDesaloja(h)
             \/ PlanEscanea(h) \/ PlanBloquea(h) \/ PlanDuerme(h) \/ PlanEspera(h)
             \/ TomaMutex(h, "planVuelve", "planEscanea")
             \/ PlanElige(h) \/ PlanFin(h)
    BY <1>1, <1>2, <1>5, TomaMutexPartes, PlanDesalojaPartes, PlanEscaneaPartes,
       PlanBloqueaPartes, PlanDuermePartes, PlanEsperaPartes, PlanEligePartes, PlanFinPartes
  <1>6. CASE \/ JoinPide(h) \/ JoinToma(h) \/ TomaMutex(h, "joinMutex", "joinBloquea")
             \/ JoinBloquea(h) \/ JoinEscribe(h) \/ JoinMarca(h)
    BY <1>1, <1>2, <1>6, TomaMutexPartes, JoinPidePartes, JoinTomaPartes,
       JoinBloqueaPartes, JoinEscribePartes, JoinMarcaPartes
  <1>7. CASE \/ TomaMutex(h, "cerrar", "cerrar2") \/ Cerrar(h) \/ CerrarFin(h)
             \/ TomaMutex(h, "wait", "wait2") \/ Esperar(h) \/ EsperaEscribe(h)
             \/ EsperarFin(h) \/ Senalar(h)
    BY <1>1, <1>2, <1>7, TomaMutexPartes, CerrarPartes, CerrarFinPartes,
       EsperarPartes, EsperaEscribePartes, EsperarFinPartes, SenalarPartes
  <1>8. QED
    BY <1>3, <1>4, <1>5, <1>6, <1>7 DEF PasoHilo

\* So does every step of the main thread,
LEMMA PasoPrincipalPartes ==
  ASSUME Partes, PasoPrincipal
  PROVE  Partes'
  <1>1. Principal \in Todos
    BY DEF Todos
  <1>2. "descMutex" \in Lugares /\ "descUlts" \in Lugares \ {"atender"}
    BY DEF Lugares
  <1>3. CASE TomaMutex(Principal, "descMutex", "descUlts")
    BY <1>1, <1>2, <1>3, TomaMutexPartes
  <1>4. CASE DescUlts
    BY <1>4, DescUltsPartes
  <1>5. CASE SoltarGrado(Principal)
    BY <1>1, <1>5, SoltarGradoPartes
  <1>6. CASE DescFin
    BY <1>6, DescFinPartes
  <1>7. CASE Lanzar
    BY <1>7, LanzarPartes
  <1>8. QED
    BY <1>3, <1>4, <1>5, <1>6, <1>7 DEF PasoPrincipal

\* and so does every step of the system.
LEMMA NextPartes ==
  ASSUME Partes, [Next]_vars
  PROVE  Partes'
  <1>1. CASE UNCHANGED vars
    BY <1>1, Quietas DEF vars, con, ults, sems, Partes
  <1>2. CASE \E h \in Hilos : PasoHilo(h)
    BY <1>2, PasoHiloPartes
  <1>3. CASE PasoPrincipal
    BY <1>3, PasoPrincipalPartes
  <1>4. CASE PasoConectar
    BY <1>4, ConectarPartes, EnlazarPartes DEF PasoConectar
  <1>5. CASE \E c \in Conexiones : Aceptar(c) \/ Desconectar(c) \/ PasoCliente(c)
    BY <1>5, AceptarPartes, DesconectarPartes, PasoClientePartes
  <1>6. QED
    BY <1>1, <1>2, <1>3, <1>4, <1>5 DEF Next

-----------------------------------------------------------------------------
\* wait is the abstract wait: a permit is taken, or the waiter goes last.
LEMMA EsperarPromete ==
  ASSUME Partes, SemaforosOK, NEW h \in Hilos, Esperar(h)
  PROVE  Promesa!Next \/ UNCHANGED sems
  <1> USE DEF Partes
  <1> DEFINE c == hilo[h].prog
             s == hilo[h].sem
             w == <<fd[c], hilo[h].tid>>
  <1>1. h \in Todos /\ hilo[h].pc \notin {"libre", "select"}
    BY DEF Esperar, En, Todos
  <1>2. c \in Conexiones /\ hilo[h] \in TipoHilo
    BY <1>1, HiloProg DEF HilosOK
  <1>3. w \in Esperador
    BY <1>2 DEF Esperador, ConOK, TipoHilo
  <1>4. CASE s \notin Sems
    BY <1>4, SemsPone DEF Esperar, SemsOK, sems
  <1>5. CASE s \in Sems
    <2>1. val[s] \in 0 .. Maxs[s] /\ Maxs[s] \in Nat
      BY <1>5, SuseConstantes DEF SemaforosOK
    <2>2. CASE val[s] - 1 >= 0
      <3>1. Promesa!Conceder(s)
        BY <2>1, <2>2 DEF Esperar, Promesa!Conceder
      <3>2. QED
        BY <1>5, <3>1 DEF Promesa!Next
    <2>3. CASE ~(val[s] - 1 >= 0)
      <3>1. Promesa!Encolar(s, w)
        <4>1. \/ val[s] - 1 >= 0
              \/ /\ cola' = [cola EXCEPT ![s] = Append(@, w)]
                 /\ UNCHANGED val
          BY Zenon DEF Esperar, Entra
        <4>2. val[s] = 0
          BY <2>1, <2>3
        <4>3. QED
          BY <2>3, <4>1, <4>2, Zenon DEF Promesa!Encolar
      <3>2. QED
        BY <1>3, <1>5, <3>1 DEF Promesa!Next
    <2>4. QED
      BY <2>2, <2>3
  <1>6. QED
    BY <1>4, <1>5

\* signal is the abstract signal: the oldest waiter, or a permit up to the maximum.
LEMMA SenalarPromete ==
  ASSUME Partes, SemaforosOK, NEW h \in Hilos, Senalar(h)
  PROVE  Promesa!Next \/ UNCHANGED sems
  <1> USE DEF Partes
  <1> DEFINE s == hilo[h].sem
  <1>1. \/ /\ cola[s] = <<>>
           /\ val' = [val EXCEPT ![s] = Devuelto(s)]
           /\ UNCHANGED cola
        \/ /\ cola[s] # <<>>
           /\ cola' = [cola EXCEPT ![s] = Tail(@)]
           /\ UNCHANGED val
    BY DEF Senalar
  <1>2. CASE s \notin Sems
    BY <1>1, <1>2 DEF SemsOK, sems
  <1>3. CASE s \in Sems
    <2>1. val[s] \in 0 .. Maxs[s] /\ Maxs[s] \in Nat
      BY <1>3, SuseConstantes DEF SemaforosOK
    <2>2. CASE cola[s] # <<>>
      <3>1. Promesa!Atender(s)
        BY <1>1, <2>2 DEF Promesa!Atender
      <3>2. QED
        BY <1>3, <3>1 DEF Promesa!Next
    <2>3. CASE cola[s] = <<>> /\ val[s] < Maxs[s]
      <3>1. Promesa!Devolver(s)
        BY <1>1, <2>1, <2>3 DEF Promesa!Devolver, Devuelto
      <3>2. QED
        BY <1>3, <3>1 DEF Promesa!Next
    <2>4. CASE cola[s] = <<>> /\ ~(val[s] < Maxs[s])
      BY <1>1, <1>3, <2>1, <2>4 DEF Devuelto, SemsOK, sems
    <2>5. QED
      BY <2>2, <2>3, <2>4
  <1>4. QED
    BY <1>2, <1>3

\* wait and signal are the only handlers that touch a semaphore.
LEMMA NextPromete ==
  ASSUME Partes, SemaforosOK, [Next]_vars
  PROVE  Promesa!Next \/ UNCHANGED sems
  <1>1. CASE UNCHANGED vars
    BY <1>1 DEF vars, sems
  <1>2. ASSUME NEW h \in Hilos, PasoHilo(h)
        PROVE  Promesa!Next \/ UNCHANGED sems
    <2>1. CASE Esperar(h)
      BY <2>1, EsperarPromete
    <2>2. CASE Senalar(h)
      BY <2>2, SenalarPromete
    <2>3. CASE ~Esperar(h) /\ ~Senalar(h)
      BY <1>2, <2>3 DEF PasoHilo, Atender, SoltarGrado, TomaMutex, Crear, CrearFin,
         PlanPide, PlanMulti, PlanGrado, PlanEntra, PlanHilos, PlanU1, PlanJoin, PlanDesaloja,
         PlanEscanea, PlanBloquea, PlanDuerme, PlanEspera, PlanElige, PlanFin, JoinPide,
         JoinToma, JoinBloquea, JoinEscribe, Adormece, JoinMarca, Cerrar, CerrarFin,
         EsperaEscribe, EsperarFin
    <2>4. QED
      BY <2>1, <2>2, <2>3
  <1>3. CASE PasoPrincipal
    BY <1>3 DEF PasoPrincipal, TomaMutex, DescUlts, SoltarGrado, DescFin, Lanzar
  <1>4. CASE PasoConectar
    BY <1>4 DEF PasoConectar, Conectar, Enlazar
  <1>5. CASE \E c \in Conexiones : Aceptar(c) \/ Desconectar(c) \/ PasoCliente(c)
    BY <1>5 DEF Aceptar, Desconectar, PasoCliente, suse_create, suse_schedule_next,
       suse_join, suse_close, suse_wait, suse_signal, Pide
  <1>6. QED
    BY <1>1, <1>2, <1>3, <1>4, <1>5 DEF Next

\* What the abstract semaphore keeps by itself.
LEMMA PromesaSemaforos ==
  ASSUME SemsOK, SemaforosOK, Promesa!Next \/ UNCHANGED sems
  PROVE  SemaforosOK'
  <1>1. CASE UNCHANGED sems
    BY <1>1 DEF SemaforosOK, sems
  <1>2. CASE Promesa!Next
    <2>1. PICK s \in Sems : \/ Promesa!Conceder(s)
                            \/ \E w \in Esperador : Promesa!Encolar(s, w)
                            \/ Promesa!Atender(s)
                            \/ Promesa!Devolver(s)
      BY <1>2 DEF Promesa!Next
    <2>2. \A r \in Sems : val[r] \in Int /\ Maxs[r] \in Nat
      BY SuseConstantes DEF SemsOK
    <2>3. CASE Promesa!Conceder(s)
      BY <2>2, <2>3 DEF SemaforosOK, SemsOK, Promesa!Conceder
    <2>4. CASE \E w \in Esperador : Promesa!Encolar(s, w)
      BY <2>2, <2>4 DEF SemaforosOK, SemsOK, Promesa!Encolar
    <2>5. CASE Promesa!Atender(s)
      BY <2>2, <2>5 DEF SemaforosOK, SemsOK, Promesa!Atender
    <2>6. CASE Promesa!Devolver(s)
      BY <2>2, <2>6 DEF SemaforosOK, SemsOK, Promesa!Devolver
    <2>7. QED
      BY <2>1, <2>3, <2>4, <2>5, <2>6
  <1>3. QED
    BY <1>1, <1>2

-----------------------------------------------------------------------------
\* The inductive invariant, whatever the numbers of programs, threads and
\* semaphores and the degree of multiprogramming.
THEOREM Invariante == Spec => []IInv
  <1>1. Init => IInv
    <2> SUFFICES ASSUME Init PROVE IInv
      OBVIOUS
    <2>1. SemaforosOK
      BY SuseConstantes DEF Init, SemaforosOK
    <2>2. QED
      BY <2>1, InitPartes, SonPartes DEF IInv
  <1>2. IInv /\ [Next]_vars => IInv'
    <2> SUFFICES ASSUME IInv, [Next]_vars PROVE IInv'
      OBVIOUS
    <2>1. Partes
      BY SonPartes DEF IInv
    <2>2. TypeOK' /\ PedidoOK'
      <3>1. Partes'
        BY <2>1, NextPartes
      <3>2. QED
        BY <3>1, SonPartesPrimadas
    <2>3. SemaforosOK'
      BY <2>1, NextPromete, PromesaSemaforos DEF IInv, Partes
    <2>4. QED
      BY <2>2, <2>3 DEF IInv
  <1>3. QED
    BY <1>1, <1>2, PTL DEF Spec

\* Every variable keeps its type, in every interleaving of the handlers.
THEOREM Tipos == Spec => []TypeOK
  <1>1. IInv => TypeOK
    BY DEF IInv
  <1>2. QED
    BY <1>1, Invariante, PTL

\* wait and signal keep every semaphore between 0 and its maximum, and nobody
\* waits for a semaphore that has a permit (SUSE.c, wait and signal).
THEOREM Semaforos == Spec => []SemaforosOK
  <1>1. IInv => SemaforosOK
    BY DEF IInv
  <1>2. QED
    BY <1>1, Invariante, PTL

\* SUSE implements the abstract semaphore: every step of every handler is a
\* step of Semaforo or leaves the semaphores alone.
THEOREM Implementa == Spec => SemaforoImplementado
  <1>1. Init => Promesa!Init
    BY DEF Init, Promesa!Init
  <1>2. IInv /\ [Next]_vars => [Promesa!Next]_(Promesa!varsSem)
    BY SonPartes, NextPromete DEF IInv, Promesa!varsSem, sems
  <1>3. QED
    BY <1>1, <1>2, Invariante, PTL DEF Spec, SemaforoImplementado, Promesa!Spec

-----------------------------------------------------------------------------
\* MainDespuesDeJoin is not inductive: between the search and the writes of
\* planificar, the choice of main lives in the locals of a thread, so these
\* too must have been made after the join or the close that releases main.
EligeMain(r) == r.pc \in {"planElige", "planFin"} /\ r.tid = 0

MainInv ==
    /\ MainDespuesDeJoin
    /\ \A h \in Todos : EligeMain(hilo[h]) => joineado[hilo[h].prog] # "Nuevo"

\* joinear and cerrar never take a release back.
NoVuelveANuevo ==
    \A c \in Conexiones : joineado'[c] = "Nuevo" => joineado[c] = "Nuevo"

\* No ult is set running and no flag u0 is raised.
MainQuieto ==
    /\ NoVuelveANuevo
    /\ \A c \in Conexiones :
          /\ estado'[c][0] = "Ejecutando" => estado[c][0] = "Ejecutando"
          /\ <<c, "u0">> \in marca' => <<c, "u0">> \in marca

\* A thread that takes an ult with it keeps MainInv when, if that ult is main, main is released.
LEMMA MainElegido ==
  ASSUME Partes, MainInv, NoVuelveANuevo, MainQuieto \/ MainDespuesDeJoin',
         NEW h \in Todos, NEW r, Pone(h, r),
         EligeMain(r) => joineado'[r.prog] # "Nuevo"
  PROVE  MainInv'
  <1>1. MainDespuesDeJoin'
    BY DEF MainInv, MainDespuesDeJoin, MainQuieto, NoVuelveANuevo
  <1>2. ASSUME NEW g \in Todos, EligeMain(hilo'[g])
        PROVE  joineado'[hilo'[g].prog] # "Nuevo"
    <2>1. CASE g = h
      BY <1>2, <2>1 DEF Pone, Partes, HilosOK
    <2>2. CASE g # h
      <3>1. hilo'[g] = hilo[g] /\ hilo[g].prog \in Conexiones
        BY <1>2, <2>2, HiloProg DEF Pone, Partes, HilosOK, EligeMain
      <3>2. QED
        BY <1>2, <3>1 DEF MainInv, NoVuelveANuevo
    <2>3. QED
      BY <2>1, <2>2
  <1>3. QED
    BY <1>1, <1>2 DEF MainInv

\* Such a step keeps MainInv when its thread moves anywhere but to the end of
\* planificar.
LEMMA MainSigue ==
  ASSUME Partes, MainInv, MainQuieto, NEW h \in Todos, NEW r, Pone(h, r),
         r.pc \notin {"planElige", "planFin"}
  PROVE  MainInv'
  <1>1. MainDespuesDeJoin'
    BY DEF MainInv, MainDespuesDeJoin, MainQuieto, NoVuelveANuevo
  <1>2. ASSUME NEW g \in Todos, EligeMain(hilo'[g])
        PROVE  joineado'[hilo'[g].prog] # "Nuevo"
    <2>1. hilo'[g] = hilo[g] /\ hilo[g].prog \in Conexiones
      BY <1>2, HiloProg DEF Pone, Partes, HilosOK, EligeMain
    <2>2. QED
      BY <1>2, <2>1 DEF MainInv, MainQuieto, NoVuelveANuevo
  <1>3. QED
    BY <1>1, <1>2 DEF MainInv

\* The usual ways in which a thread moves are of that kind.
LEMMA MainVa ==
  ASSUME Partes, MainInv, MainQuieto, NEW h \in Todos,
         NEW p, p \notin {"planElige", "planFin"},
         \/ Va(h, p) \/ Termina(h)
         \/ VaASoltar(h, p) \/ PideGrado(h, p)
  PROVE  MainInv'
  <1>1. hilo[h] \in TipoHilo
    BY DEF Partes, HilosOK
  <1>2. CASE Va(h, p)
    BY <1>1, <1>2, MainSigue DEF Va, TipoHilo
  <1>3. CASE Termina(h)
    BY <1>3, MainSigue DEF Termina, Reposo
  <1>4. CASE VaASoltar(h, p)
    BY <1>1, <1>4, MainSigue DEF VaASoltar, TipoHilo
  <1>5. CASE PideGrado(h, p)
    BY <1>1, <1>5, MainSigue DEF PideGrado, TipoHilo
  <1>6. QED
    BY <1>2, <1>3, <1>4, <1>5

\* The release of a degree goes on at a place that chooses no ult.
LEMMA MainSoltar ==
  ASSUME Partes, MainInv, NEW h \in Todos, SoltarGrado(h)
  PROVE  MainInv'
  <1>1. hilo[h] \in TipoHilo /\ hilo[h].sigue \in Vueltas
    BY DEF Partes, HilosOK, TipoHilo
  <1>2. MainQuieto
    BY DEF SoltarGrado, MainQuieto, NoVuelveANuevo, ults
  <1>3. hilo[h].sigue \notin {"planElige", "planFin"}
    BY <1>1 DEF Vueltas
  <1>4. CASE hilo[h].sigue = "libre"
    BY <1>2, <1>4, MainVa DEF SoltarGrado
  <1>5. CASE hilo[h].sigue # "libre"
    BY <1>1, <1>2, <1>3, <1>5, MainSigue DEF SoltarGrado, TipoHilo
  <1>6. QED
    BY <1>4, <1>5

\* The steps of a thread that touch neither the ults nor the flags.
LEMMA MainAjenos ==
  ASSUME Partes, MainInv, NEW h \in Hilos,
         \/ Atender(h) \/ PlanPide(h) \/ PlanMulti(h) \/ PlanGrado(h)
         \/ PlanHilos(h) \/ PlanJoin(h) \/ PlanDuerme(h) \/ PlanEspera(h)
         \/ JoinPide(h) \/ JoinToma(h) \/ CerrarFin(h) \/ EsperarFin(h)
         \/ \E l, p : p \notin {"planElige", "planFin"} /\ TomaMutex(h, l, p)
  PROVE  MainInv'
  <1>1. h \in Todos /\ hilo[h] \in TipoHilo
    BY DEF Todos, Partes, HilosOK
  <1>2. MainQuieto
    BY DEF Atender, PlanPide, PlanMulti, PlanGrado, PlanHilos, PlanJoin, PlanDuerme,
       PlanEspera, JoinPide, JoinToma, CerrarFin, EsperarFin, TomaMutex, MainQuieto,
       NoVuelveANuevo, ults
  <1>3. CASE Atender(h)
    <2>1. hilo[h].op \in Pedidos
      BY <1>1, <1>3 DEF Atender, En, Partes, HilosOK, PedidoOK, PedidoDe
    <2>2. hilo[h].op \notin {"planElige", "planFin"}
      BY <2>1 DEF Pedidos
    <2>3. CASE \E c \in Vigentes(socket[hilo[h].prog]) :
                  Pone(h, [hilo[h] EXCEPT !.pc = hilo[h].op, !.prog = c])
      BY <1>1, <1>2, <2>2, <2>3, MainSigue DEF TipoHilo
    <2>4. CASE Termina(h) \/ Va(h, "signal") \/ Cae(h)
      BY <1>1, <1>2, <2>4, MainVa DEF Cae
    <2>5. QED
      BY <1>3, <2>3, <2>4 DEF Atender
  <1>4. CASE PlanMulti(h)
    BY <1>1, <1>2, <1>4, MainSigue DEF PlanMulti, TipoHilo
  <1>5. CASE PlanGrado(h)
    <2>1. hilo[h].sigue \notin {"planElige", "planFin"}
      BY <1>1 DEF TipoHilo, Vueltas
    <2>2. QED
      BY <1>1, <1>2, <1>5, <2>1, MainSigue DEF PlanGrado, TipoHilo
  <1>6. CASE PlanPide(h) \/ PlanEspera(h)
    BY <1>1, <1>2, <1>6, MainVa DEF PlanPide, PlanEspera
  <1>7. CASE PlanHilos(h) \/ PlanJoin(h) \/ PlanDuerme(h)
    BY <1>1, <1>2, <1>7, MainVa DEF PlanHilos, PlanJoin, PlanDuerme
  <1>8. CASE JoinPide(h)
    <2>1. PICK l \in {"joinear", "joinU0"} :
             Va(h, IF <<hilo[h].prog, "u0">> \in marca THEN "joinMutex"
                   ELSE IF l = "joinear" THEN "joinJoin" ELSE "joinUlt0")
      BY <1>8 DEF JoinPide
    <2>2. QED
      BY <1>1, <1>2, <2>1, MainVa
  <1>9. CASE JoinToma(h) \/ CerrarFin(h) \/ EsperarFin(h)
    BY <1>1, <1>2, <1>9, MainVa DEF JoinToma, CerrarFin, EsperarFin
  <1>10. CASE \E l, p : p \notin {"planElige", "planFin"} /\ TomaMutex(h, l, p)
    BY <1>1, <1>2, <1>10, MainVa DEF TomaMutex
  <1>11. QED
    BY <1>3, <1>4, <1>5, <1>6, <1>7, <1>8, <1>9, <1>10

\* The steps that change ults or flags without choosing an ult.
LEMMA MainCambia ==
  ASSUME Partes, MainInv, NEW h \in Hilos,
         \/ Crear(h) \/ CrearFin(h) \/ PlanEntra(h) \/ PlanU1(h) \/ PlanDesaloja(h)
         \/ PlanBloquea(h) \/ JoinBloquea(h) \/ JoinEscribe(h) \/ JoinMarca(h)
         \/ Cerrar(h) \/ Esperar(h) \/ EsperaEscribe(h) \/ Senalar(h)
  PROVE  MainInv'
  <1> USE SuseConstantes
  <1>1. /\ h \in Todos /\ hilo[h] \in TipoHilo /\ UltsOK
        /\ hilo[h].prog \in Conexiones \/ Senalar(h)
    BY HiloProg DEF Todos, Partes, HilosOK, En, Crear, CrearFin, PlanEntra, PlanU1,
       PlanDesaloja, PlanBloquea, JoinBloquea, JoinEscribe, Adormece, JoinMarca, Cerrar,
       Esperar, EsperaEscribe
  <1>2. CASE Crear(h)
    <2>1. MainQuieto
      BY <1>1, <1>2 DEF Crear, MainQuieto, NoVuelveANuevo, UltsOK
    <2>2. QED
      BY <1>1, <1>2, <2>1, MainVa DEF Crear
  <1>3. CASE CrearFin(h) \/ PlanEntra(h) \/ PlanU1(h)
    <2>1. MainQuieto
      BY <1>3 DEF CrearFin, PlanEntra, PlanU1, MainQuieto, NoVuelveANuevo, ults, TieneHilos
    <2>2. QED
      BY <1>1, <1>3, <2>1, MainVa DEF CrearFin, PlanEntra, PlanU1
  <1>4. CASE PlanDesaloja(h)
    <2> DEFINE c == hilo[h].prog
    <2>1. \/ \E t \in Corriendo(c) : estado' = [estado EXCEPT ![c][t] = "Listo"]
          \/ UNCHANGED estado
      BY <1>4 DEF PlanDesaloja
    <2>2. UNCHANGED joineado /\ UNCHANGED marca
      BY <1>4 DEF PlanDesaloja
    <2>3. MainQuieto
      <3>1. ASSUME NEW d \in Conexiones, estado'[d][0] = "Ejecutando"
            PROVE  estado[d][0] = "Ejecutando"
        <4>1. CASE UNCHANGED estado
          BY <3>1, <4>1
        <4>2. CASE \E t \in Corriendo(c) : estado' = [estado EXCEPT ![c][t] = "Listo"]
          <5>1. PICK t \in Tids : estado' = [estado EXCEPT ![c][t] = "Listo"]
            BY <4>2 DEF Corriendo
          <5>2. QED
            BY <1>1, <3>1, <5>1 DEF UltsOK
        <4>3. QED
          BY <2>1, <4>1, <4>2
      <3>2. QED
        BY <2>2, <3>1 DEF MainQuieto, NoVuelveANuevo
    <2>4. VaASoltar(h, "planEscanea") \/ Va(h, "planEscanea")
      BY <1>4 DEF PlanDesaloja
    <2>5. QED
      BY <1>1, <2>3, <2>4, MainVa
  <1>5. CASE PlanBloquea(h)
    <2>1. MainQuieto
      BY <1>5 DEF PlanBloquea, MainQuieto, NoVuelveANuevo, ults, Bloqueado
    <2>2. QED
      BY <1>1, <1>5, <2>1, MainVa DEF PlanBloquea
  <1>6. CASE JoinBloquea(h)
    <2>1. MainQuieto
      BY <1>1, <1>6 DEF JoinBloquea, MainQuieto, NoVuelveANuevo, UltsOK
    <2>2. QED
      BY <1>1, <1>6, <2>1, MainVa DEF JoinBloquea
  <1>7. CASE JoinMarca(h)
    <2>1. MainQuieto
      BY <1>1, <1>7 DEF JoinMarca, MainQuieto, NoVuelveANuevo, UltsOK, ults
    <2>2. QED
      BY <1>1, <1>7, <2>1, MainVa DEF JoinMarca
  <1>8. CASE Cerrar(h)
    <2>1. MainQuieto
      <3>1. CASE UNCHANGED <<estado, joineado>>
        BY <1>8, <3>1 DEF Cerrar, MainQuieto, NoVuelveANuevo
      <3>2. CASE ~UNCHANGED <<estado, joineado>>
        <4> DEFINE c == hilo[h].prog
                   dos == Cardinality(Ults(c)) = 2
        <4>1. /\ estado' = [estado EXCEPT ![c] = [u \in Tids |->
                              IF u = hilo[h].tid THEN "Nada"
                              ELSE IF u = 0 /\ dos THEN "Listo" ELSE @[u]]]
              /\ joineado' = [joineado EXCEPT ![c] = IF dos THEN "Liberado" ELSE @]
              /\ UNCHANGED marca
          BY <1>8, <3>2 DEF Cerrar
        <4>2. QED
          <5> HIDE DEF dos
          <5> QED
            BY <1>1, <4>1 DEF MainQuieto, NoVuelveANuevo, UltsOK
      <3>3. QED
        BY <3>1, <3>2
    <2>2. CASE Va(h, "colgado")
      BY <1>1, <2>1, <2>2, MainVa
    <2>3. CASE ~Va(h, "colgado")
      <3>1. PICK v : Pone(h, [hilo[h] EXCEPT !.pc = "cerrar3", !.visto = v])
        BY <1>8, <2>3 DEF Cerrar, Cae
      <3>2. QED
        BY <1>1, <2>1, <3>1, MainSigue DEF TipoHilo
    <2>4. QED
      BY <2>2, <2>3
  <1>9. CASE Esperar(h)
    <2>1. MainQuieto
      BY <1>1, <1>9 DEF Esperar, MainQuieto, NoVuelveANuevo, UltsOK
    <2>2. QED
      BY <1>1, <1>9, <2>1, MainVa DEF Esperar, Cae
  <1>10. CASE Senalar(h)
    <2>1. UNCHANGED joineado /\ marca' \subseteq marca /\ Termina(h)
      BY <1>10 DEF Senalar
    <2>2. \A c \in Conexiones : \/ estado'[c] = estado[c]
                               \/ \E t : estado'[c] = [estado[c] EXCEPT ![t] = "Listo"]
      BY <1>10 DEF Senalar
    <2>3. ASSUME NEW c \in Conexiones, estado'[c][0] = "Ejecutando"
          PROVE  estado[c][0] = "Ejecutando"
      <3>1. CASE estado'[c] = estado[c]
        BY <2>3, <3>1
      <3>2. CASE \E t : estado'[c] = [estado[c] EXCEPT ![t] = "Listo"]
        <4>1. PICK t : estado'[c] = [estado[c] EXCEPT ![t] = "Listo"]
          BY <3>2
        <4>2. estado[c] \in [Tids -> Estados]
          BY <1>1 DEF UltsOK
        <4>3. QED
          BY <2>3, <4>1, <4>2
      <3>3. QED
        BY <2>2, <3>1, <3>2
    <2>4. MainQuieto
      BY <2>1, <2>3 DEF MainQuieto, NoVuelveANuevo
    <2>5. QED
      BY <1>1, <2>1, <2>4, MainVa
  <1>11. CASE JoinEscribe(h) \/ EsperaEscribe(h)
    <2>1. \E t \in Tids : \E l, p : p \in {"joinMarca", "waitFin"} /\ Adormece(h, l, t, p)
      <3>1. 0 \in Tids /\ hilo[h].tid \in Tids
        BY <1>1 DEF TipoHilo
      <3>2. QED
        BY <1>11, <3>1 DEF JoinEscribe, EsperaEscribe
    <2> PICK t \in Tids : \E l, p : p \in {"joinMarca", "waitFin"} /\ Adormece(h, l, t, p)
      BY <2>1
    <2> PICK l, p : p \in {"joinMarca", "waitFin"} /\ Adormece(h, l, t, p)
      OBVIOUS
    <2>2. UNCHANGED joineado /\ UNCHANGED marca /\ Va(h, p)
      BY DEF Adormece
    <2>3. MainQuieto
      <3>1. \/ estado' = estado
            \/ estado' = [estado EXCEPT ![hilo[h].prog][t] = "Bloqueado"]
        BY DEF Adormece
      <3>2. \A d \in Conexiones : estado'[d][0] = "Ejecutando" => estado[d][0] = "Ejecutando"
        BY <1>1, <3>1 DEF UltsOK
      <3>3. QED
        BY <2>2, <3>2 DEF MainQuieto, NoVuelveANuevo
    <2>4. QED
      BY <1>1, <2>2, <2>3, MainVa
  <1>12. QED
    BY <1>2, <1>3, <1>4, <1>5, <1>6, <1>7, <1>8, <1>9, <1>10, <1>11

\* The search only finds main once it is released (310).
LEMMA MainPlanEscanea ==
  ASSUME Partes, MainInv, NEW h \in Hilos, PlanEscanea(h)
  PROVE  MainInv'
  <1> DEFINE c == hilo[h].prog
  <1>1. h \in Todos /\ hilo[h] \in TipoHilo /\ c \in Conexiones
    BY HiloProg DEF Todos, Partes, HilosOK, PlanEscanea, En
  <1>2. MainQuieto
    BY DEF PlanEscanea, MainQuieto, NoVuelveANuevo, ults
  <1>3. CASE Va(h, "planBloquea") \/ Cae(h)
    BY <1>1, <1>2, <1>3, MainVa DEF Cae
  <1>4. CASE \E t \in Elegibles(c) :
                Pone(h, [hilo[h] EXCEPT !.pc = "planElige", !.tid = t])
    <2>1. PICK t \in Elegibles(c) :
                Pone(h, [hilo[h] EXCEPT !.pc = "planElige", !.tid = t])
      BY <1>4
    <2>2. t = 0 => joineado[c] # "Nuevo"
      BY DEF Elegibles
    <2>3. UNCHANGED joineado
      BY DEF PlanEscanea, ults
    <2> DEFINE r == [hilo[h] EXCEPT !.pc = "planElige", !.tid = t]
    <2>4. r.prog = c /\ r.tid = t
      BY <1>1 DEF TipoHilo
    <2>5. EligeMain(r) => joineado'[r.prog] # "Nuevo"
      BY <2>2, <2>3, <2>4 DEF EligeMain
    <2>6. NoVuelveANuevo
      BY <1>2 DEF MainQuieto
    <2>7. QED
      BY <1>1, <1>2, <2>1, <2>5, <2>6, MainElegido
  <1>5. QED
    BY <1>3, <1>4 DEF PlanEscanea

\* Main is chosen among the eligible ults or is the one the search found (365-417).
LEMMA MainPlanElige ==
  ASSUME Partes, MainInv, NEW h \in Hilos, PlanElige(h)
  PROVE  MainInv'
  <1> DEFINE c == hilo[h].prog
  <1>1. /\ h \in Todos /\ hilo[h] \in TipoHilo /\ c \in Conexiones
        /\ hilo[h].pc = "planElige" /\ UltsOK
    BY HiloProg DEF Todos, Partes, HilosOK, PlanElige, En
  <1>2. PICK t \in Elegibles(c) \cup {hilo[h].tid} :
          \/ /\ estado' = [estado EXCEPT ![c][t] = "Ejecutando"]
             /\ Pone(h, [hilo[h] EXCEPT !.pc = "planFin", !.tid = t])
          \/ Va(h, "colgado") /\ UNCHANGED estado
    BY DEF PlanElige, Cae
  <1>3. t = 0 => joineado[c] # "Nuevo"
    BY <1>1 DEF Elegibles, MainInv, EligeMain
  <1>4. UNCHANGED joineado /\ UNCHANGED marca
    BY DEF PlanElige
  <1>5. CASE Va(h, "colgado") /\ UNCHANGED estado
    BY <1>1, <1>4, <1>5, MainVa DEF MainQuieto, NoVuelveANuevo
  <1>6. CASE /\ estado' = [estado EXCEPT ![c][t] = "Ejecutando"]
             /\ Pone(h, [hilo[h] EXCEPT !.pc = "planFin", !.tid = t])
    <2>1. MainDespuesDeJoin'
      BY <1>1, <1>3, <1>4, <1>6 DEF MainInv, MainDespuesDeJoin, UltsOK
    <2> DEFINE r == [hilo[h] EXCEPT !.pc = "planFin", !.tid = t]
    <2>2. r.prog = c /\ r.tid = t
      BY <1>1 DEF TipoHilo
    <2>3. EligeMain(r) => joineado'[r.prog] # "Nuevo"
      BY <1>3, <1>4, <2>2 DEF EligeMain
    <2>4. NoVuelveANuevo
      BY <1>4 DEF NoVuelveANuevo
    <2>5. QED
      BY <1>1, <1>6, <2>1, <2>3, <2>4, MainElegido
  <1>7. QED
    BY <1>2, <1>5, <1>6

\* u0 is raised for a main that was released when chosen (425-431).
LEMMA MainPlanFin ==
  ASSUME Partes, MainInv, NEW h \in Hilos, PlanFin(h)
  PROVE  MainInv'
  <1> DEFINE c == hilo[h].prog
  <1>1. /\ h \in Todos /\ hilo[h] \in TipoHilo /\ c \in Conexiones
        /\ hilo[h].pc = "planFin"
    BY HiloProg DEF Todos, Partes, HilosOK, PlanFin, En
  <1>2. UNCHANGED ults /\ Termina(h)
    BY DEF PlanFin
  <1>3. \A d \in Conexiones : <<d, "u0">> \in marca' =>
            <<d, "u0">> \in marca \/ (d = c /\ hilo[h].tid = 0)
    BY DEF PlanFin
  <1>4. MainDespuesDeJoin'
    BY <1>1, <1>2, <1>3 DEF MainInv, MainDespuesDeJoin, EligeMain, ults
  <1>5. QED
    <2>1. ~EligeMain(Reposo) /\ NoVuelveANuevo
      BY <1>2 DEF EligeMain, Reposo, NoVuelveANuevo, ults
    <2>2. QED
      BY <1>1, <1>2, <1>4, <2>1, MainElegido DEF Termina

\* The main thread and the clients never touch ults or flags.
LEMMA MainOtros ==
  ASSUME Partes, MainInv,
         \/ PasoPrincipal \/ PasoConectar
         \/ \E c \in Conexiones : Aceptar(c) \/ Desconectar(c) \/ PasoCliente(c)
  PROVE  MainInv'
  <1>1. Principal \in Todos /\ Hilos \subseteq Todos /\ hilo[Principal] \in TipoHilo
    BY DEF Todos, Partes, HilosOK
  <1>2. UNCHANGED ults /\ UNCHANGED marca
    BY DEF PasoPrincipal, TomaMutex, DescUlts, SoltarGrado, DescFin, Lanzar, PasoConectar,
       Conectar, Enlazar, Aceptar, Desconectar, PasoCliente, suse_create,
       suse_schedule_next, suse_join, suse_close, suse_wait, suse_signal, Pide
  <1>3. MainQuieto
    BY <1>2 DEF MainQuieto, NoVuelveANuevo, ults
  <1>4. CASE PasoPrincipal
    <2>1. CASE TomaMutex(Principal, "descMutex", "descUlts")
      BY <1>1, <1>3, <2>1, MainVa DEF TomaMutex
    <2>2. CASE DescUlts
      BY <1>1, <1>3, <2>2, MainVa DEF DescUlts
    <2>3. CASE SoltarGrado(Principal)
      BY <1>1, <2>3, MainSoltar
    <2>4. CASE DescFin \/ Lanzar
      BY <1>1, <1>3, <2>4, MainSigue DEF DescFin, Lanzar, EnSelect, Reposo
    <2>5. QED
      BY <1>4, <2>1, <2>2, <2>3, <2>4 DEF PasoPrincipal
  <1>5. CASE PasoConectar
    <2>1. UNCHANGED hilo
      BY <1>5 DEF PasoConectar, Conectar, Enlazar
    <2>2. QED
      BY <1>2, <2>1 DEF MainInv, MainDespuesDeJoin, EligeMain, ults
  <1>6. ASSUME NEW c \in Conexiones, Aceptar(c)
        PROVE  MainInv'
    BY <1>1, <1>3, <1>6, MainSigue DEF Aceptar, TipoHilo
  <1>7. ASSUME NEW c \in Conexiones, Desconectar(c)
        PROVE  MainInv'
    <2>1. PICK d \in Vigentes(socket[c]) :
              Pone(Principal, [hilo[Principal] EXCEPT
                    !.pc = IF <<d, "planificando">> \in marca
                           THEN "descMutex" ELSE "descUlts",
                    !.prog = d])
      BY <1>7 DEF Desconectar
    <2> DEFINE p == IF <<d, "planificando">> \in marca THEN "descMutex" ELSE "descUlts"
    <2>2. p \notin {"planElige", "planFin"}
      OBVIOUS
    <2>3. QED
      <3> HIDE DEF p
      <3>1. Pone(Principal, [hilo[Principal] EXCEPT !.pc = p, !.prog = d])
        BY <2>1 DEF p
      <3>2. QED
        BY <1>1, <1>3, <3>1, <2>2, MainSigue DEF TipoHilo
  <1>8. ASSUME NEW c \in Conexiones, PasoCliente(c)
        PROVE  MainInv'
    <2>1. PICK h \in Hilos : \E op, t, s :
              Pone(h, [Reposo EXCEPT !.pc = "atender", !.op = op, !.prog = c,
                                     !.tid = t, !.sem = s])
      BY <1>8 DEF PasoCliente, suse_create, suse_schedule_next, suse_join, suse_close,
         suse_wait, suse_signal, Pide
    <2>2. QED
      BY <1>1, <1>3, <2>1, MainSigue DEF Reposo
  <1>9. QED
    BY <1>4, <1>5, <1>6, <1>7, <1>8

\* No program's main thread gets the processor, nor is counted as started, before
\* its join or the close of its last ult (planificar's test of joineado, 310-420).
THEOREM MainEspera == Spec => []MainDespuesDeJoin
  <1>1. Init => MainInv
    BY SuseConstantes DEF Init, MainInv, MainDespuesDeJoin, EligeMain, Todos, Reposo, EnSelect
  <1>2. IInv /\ MainInv /\ [Next]_vars => MainInv'
    <2> SUFFICES ASSUME IInv, MainInv, [Next]_vars PROVE MainInv'
      OBVIOUS
    <2>1. Partes
      BY SonPartes DEF IInv
    <2>2. CASE UNCHANGED vars
      BY <2>2 DEF vars, ults, MainInv, MainDespuesDeJoin, EligeMain
    <2>3. ASSUME NEW h \in Hilos, PasoHilo(h)
          PROVE  MainInv'
      <3>1. h \in Todos
        BY DEF Todos
      <3>2. QED
        BY <2>1, <2>3, <3>1, MainSoltar, MainAjenos, MainCambia, MainPlanEscanea,
           MainPlanElige, MainPlanFin DEF PasoHilo
    <2>4. CASE \/ PasoPrincipal \/ PasoConectar
               \/ \E c \in Conexiones : Aceptar(c) \/ Desconectar(c) \/ PasoCliente(c)
      BY <2>1, <2>4, MainOtros
    <2>5. QED
      BY <2>2, <2>3, <2>4 DEF Next
  <1>3. MainInv => MainDespuesDeJoin
    BY DEF MainInv
  <1>4. QED
    BY <1>1, <1>2, <1>3, Invariante, PTL DEF Spec

=============================================================================
