-------------------------------- MODULE Suse --------------------------------
(***************************************************************************)
(* SUSE, the server that schedules the user level threads (ults) of its    *)
(* client programs: src/UwUntu/SUSE/Cosas/SUSE.c.                          *)
(*                                                                         *)
(* The main thread (Principal) accepts connections, notices disconnections *)
(* and starts one detached thread per request, so the requests of one      *)
(* client run concurrently and in any order.  A step of the model is the   *)
(* code between two points where another thread can interfere: a lock, an  *)
(* unlock, or an access to a variable that no lock protects.               *)
(*                                                                         *)
(* Estimates and times only decide which ready ult is the best one: they   *)
(* depend on clock() and are abstracted to a free choice.  The metrics     *)
(* that cerrar logs on its way out change nothing modelled here.           *)
(***************************************************************************)
EXTENDS Integers, Sequences, FiniteSets

CONSTANTS
    Conexiones,         \* the connections that clients may open
    Fds,                \* the descriptors the kernel hands out
    Tids,               \* thread ids of a program; 0 is its main thread
    Sems, Vals, Maxs,   \* the semaphores of Config.config
    Multiprogramacion,  \* the degree of multiprogramming of Config.config
    Hilos,              \* the threads that can attend requests at a time
    Principal,          \* the main thread
    Nadie,              \* no connection, no semaphore
    Operaciones,        \* what the clients do: requests, "desconectar"
    MaxPedidos          \* bound on the requests of one connection

Todos == Hilos \cup {Principal}

ASSUME SuseConstantes ==
    /\ Fds \subseteq Nat \ {0}
    /\ Tids \subseteq Nat /\ 0 \in Tids
    /\ \A t \in Tids : 0 .. t \subseteq Tids
    /\ Vals \in [Sems -> Nat] /\ Maxs \in [Sems -> Nat]
    /\ \A s \in Sems : Vals[s] <= Maxs[s]
    /\ Multiprogramacion \in Nat
    /\ Principal \notin Hilos
    /\ Nadie \notin Conexiones \cup Sems
    /\ MaxPedidos \in Nat

VARIABLES
    socket,     \* socket[c]: the descriptor accept gave to c; 0 before
    abiertas,   \* the connections that the server has open
    nuevofd,    \* the variable of the main thread where accept leaves it
    conectador, \* the connection whose conectar is under way, or Nadie
    fd,         \* fd[c]: pid of its struct programa, copied from nuevofd
    programas,  \* the connections whose struct programa is in the list
    detras,     \* detras[c]: those that were in the list when c went first
    estado,     \* estado[c][t]: state of its ult t, "Nada" when not in ults
    joineado,   \* joineado[c]: Nuevo, Joineado or Liberado
    idos,       \* ults made Bloqueado after cerrar unlinked them, as <<c, t>>
    marca,      \* the flags that are up, as pairs <<c, name>>
    tomado,     \* the mutexes that are locked, as pairs <<c, name>>
    grado,      \* gradodemultiprogramacion
    multi,      \* multi
    val, cola,  \* the semaphores; cola[s] has the oldest waiter first
    hilo,       \* hilo[h]: program counter and locals of a server thread
    caido,      \* the process of the server died
    cliente     \* cliente[c]: what its program is doing

con  == <<socket, abiertas, nuevofd, conectador, fd, programas, detras>>
ults == <<estado, joineado, idos>>
sems == <<val, cola>>
vars == <<socket, abiertas, nuevofd, conectador, fd, programas, detras,
          estado, joineado, idos, marca, tomado, grado, multi, val, cola,
          hilo, caido, cliente>>

-----------------------------------------------------------------------------
Estados == {"Nada", "Listo", "Ejecutando", "Bloqueado"}

\* The mutexes and flags of a struct programa; the one global mutex that
\* stays locked between two steps is multiprogramacion.
Mutex(c)         == <<c, "mutex">>
TieneHilos(c)    == <<c, "tienehilos">>
Bloqueado(c)     == <<c, "bloqueado">>
CandadoMulti     == <<Nadie, "multiprogramacion">>
MutexesDe(c)     == {<<c, n>> : n \in {"mutex", "hilos", "join", "ult0",
                                       "bloqueadoes"}}
MarcasDe(c)      == {<<c, n>> : n \in {"tienehilos", "bloqueado",
                                       "planificando", "u0", "u1"}}

Lugares == {"atender", "crear", "crear2", "crear3", "planificar",
            "planMulti", "planGrado", "planEntra", "planHilos", "planU1",
            "planJoin", "planMutex", "planDesaloja", "planEscanea",
            "planBloquea", "planDuerme", "planEspera", "planVuelve",
            "planElige", "planFin", "joinear", "joinJoin", "joinU0",
            "joinUlt0", "joinMutex", "joinBloquea", "joinEscribe",
            "joinMarca", "cerrar", "cerrar2", "cerrar3", "wait", "wait2",
            "waitEscribe", "waitFin", "signal", "suelta", "colgado",
            "select", "acepta", "descMutex", "descUlts", "descFin"}

\* A thread: where it is, the program and arguments of its request, the
\* value of grado it read, and where it goes on after giving back a degree.
Reposo  == [pc |-> "libre", op |-> "libre", prog |-> Nadie, tid |-> 0,
            sem |-> Nadie, visto |-> 0, sigue |-> "libre"]
EnSelect == [Reposo EXCEPT !.pc = "select"]

Ults(c)       == {t \in Tids : estado[c][t] # "Nada"}
Corriendo(c)  == {t \in Tids : estado[c][t] = "Ejecutando"}

\* buscarprograma: the first program of the list with that pid, if any.
Vigentes(f) == {c \in programas : /\ fd[c] = f
                                  /\ \A d \in programas : fd[d] = f => c \notin detras[d]}

Elegibles_ConMain(c) == {t \in Tids : estado[c][t] = "Listo"}

\* planificar skips the main thread until a join or a close releases it.
Elegibles(c) ==
    {t \in Tids : /\ estado[c][t] = "Listo"
                  /\ ~(joineado[c] = "Nuevo" /\ t = 0)}

ClienteInicial == [fase |-> "corre", corre |-> 0, creados |-> 0,
                   vivos |-> {}, enviados |-> 0, buzon |-> <<>>]

Init ==
    /\ socket = [c \in Conexiones |-> 0]
    /\ abiertas = {}
    /\ nuevofd = 0
    /\ conectador = Nadie
    /\ fd = [c \in Conexiones |-> 0]
    /\ programas = {}
    /\ detras = [c \in Conexiones |-> {}]
    /\ estado = [c \in Conexiones |-> [t \in Tids |-> "Nada"]]
    /\ joineado = [c \in Conexiones |-> "Nuevo"]
    /\ idos = {}
    /\ marca = {}
    /\ tomado = {CandadoMulti}
    /\ grado = Multiprogramacion
    /\ multi = 0
    /\ val = Vals
    /\ cola = [s \in Sems |-> <<>>]
    /\ hilo = [h \in Todos |-> IF h = Principal THEN EnSelect ELSE Reposo]
    /\ caido = FALSE
    /\ cliente = [c \in Conexiones |-> ClienteInicial]

-----------------------------------------------------------------------------
\* Steps of a thread.
En(h, lugar)     == ~caido /\ hilo[h].pc = lugar
Pone(h, r)       == hilo' = [hilo EXCEPT ![h] = r]
Va(h, lugar)     == Pone(h, [hilo[h] EXCEPT !.pc = lugar])
Termina(h)       == Pone(h, Reposo)
Toma(candado)    == candado \notin tomado /\ tomado' = tomado \cup {candado}
Abre(candados)   == tomado' = tomado \ candados
Cae(h)           == caido' = TRUE /\ Va(h, "colgado")

\* Give a degree back, then go on at lugar: the test reads grado now.
VaASoltar(h, lugar) ==
    Pone(h, [hilo[h] EXCEPT !.pc = "suelta", !.visto = grado, !.sigue = lugar])

\* The release that planificar, joinear, cerrar, wait and the disconnection
\* repeat.  No lock protects grado: the increment may start from the value
\* read by the test or from the current one.
SoltarGrado(h) ==
    /\ En(h, "suelta")
    /\ IF hilo[h].visto + 1 < Multiprogramacion
       THEN /\ grado' \in {hilo[h].visto + 1, grado + 1}
            /\ Abre({CandadoMulti})
       ELSE UNCHANGED <<grado, tomado>>
    /\ multi' = multi - 1
    /\ IF hilo[h].sigue = "libre" THEN Termina(h)
       ELSE Pone(h, [hilo[h] EXCEPT !.pc = hilo[h].sigue, !.visto = 0,
                                    !.sigue = "libre"])
    /\ UNCHANGED <<con, ults, marca, sems, caido, cliente>>

-----------------------------------------------------------------------------
\* atender looks the program up twice, once to see that it exists and once
\* for the argument of the handler; a disconnection in between makes that
\* argument NULL, which only cerrar tests for.  Until then prog is the client's
\* connection; the program that answers it need not be the one made for it.
ProgramasLibre == hilo[Principal].pc \notin {"suelta", "descFin"}

Atender(h) ==
    /\ En(h, "atender")
    /\ ProgramasLibre
    /\ \/ \E c \in Vigentes(socket[hilo[h].prog]) :
            /\ Pone(h, [hilo[h] EXCEPT !.pc = hilo[h].op, !.prog = c])
            /\ UNCHANGED caido
       \/ /\ Vigentes(socket[hilo[h].prog]) = {}
          /\ \/ Termina(h) /\ UNCHANGED caido
             \/ hilo[h].op = "signal" /\ Va(h, "signal") /\ UNCHANGED caido
             \/ hilo[h].op \notin {"signal", "cerrar"} /\ Cae(h)
    /\ UNCHANGED <<con, ults, marca, tomado, grado, multi, sems, cliente>>

\* Every handler that is about to lock programa->mutex.
TomaMutex(h, lugar, despues) ==
    /\ En(h, lugar)
    /\ Toma(Mutex(hilo[h].prog))
    /\ Va(h, despues)
    /\ UNCHANGED <<con, ults, marca, grado, multi, sems, caido, cliente>>

\* The first crear opens hilos, and only then raises tienehilos.
Crear(h) ==
    /\ En(h, "crear2")
    /\ LET c == hilo[h].prog IN
       /\ estado' = [estado EXCEPT ![c][hilo[h].tid] = "Listo"]
       /\ \/ TieneHilos(c) \in marca /\ Abre({Mutex(c)}) /\ Termina(h)
          \/ TieneHilos(c) \notin marca /\ Abre({<<c, "hilos">>}) /\ Va(h, "crear3")
    /\ UNCHANGED <<con, joineado, idos, marca, grado, multi, sems, caido, cliente>>

CrearFin(h) ==
    /\ En(h, "crear3")
    /\ marca' = marca \cup {TieneHilos(hilo[h].prog)}
    /\ Abre({Mutex(hilo[h].prog)})
    /\ Termina(h)
    /\ UNCHANGED <<con, ults, grado, multi, sems, caido, cliente>>

-----------------------------------------------------------------------------
\* planificar.  The test of grado, the wait for multiprogramacion and the
\* decrement are separate steps; the decrement may use the value read before.
PideGrado(h, lugar) ==
    Pone(h, [hilo[h] EXCEPT
                !.pc = IF grado - 1 < 0 THEN "planMulti" ELSE "planGrado",
                !.visto = grado, !.sigue = lugar])

PlanPide(h) ==
    /\ En(h, "planificar")
    /\ PideGrado(h, "planEntra")
    /\ UNCHANGED <<con, ults, marca, tomado, grado, multi, sems, caido, cliente>>

PlanMulti(h) ==
    /\ En(h, "planMulti")
    /\ Toma(CandadoMulti)
    /\ Pone(h, [hilo[h] EXCEPT !.pc = "planGrado", !.visto = grado])
    /\ UNCHANGED <<con, ults, marca, grado, multi, sems, caido, cliente>>

PlanGrado(h) ==
    /\ En(h, "planGrado")
    /\ grado' \in {hilo[h].visto - 1, grado - 1}
    /\ multi' = multi + 1
    /\ Pone(h, [hilo[h] EXCEPT !.pc = hilo[h].sigue, !.visto = 0,
                               !.sigue = "libre"])
    /\ UNCHANGED <<con, ults, marca, tomado, sems, caido, cliente>>

PlanEntra(h) ==
    /\ En(h, "planEntra")
    /\ marca' = marca \cup {<<hilo[h].prog, "planificando">>}
    /\ Va(h, IF TieneHilos(hilo[h].prog) \in marca THEN "planU1" ELSE "planHilos")
    /\ UNCHANGED <<con, ults, tomado, grado, multi, sems, caido, cliente>>

\* Waits for the first crear.
PlanHilos(h) ==
    /\ En(h, "planHilos")
    /\ Toma(<<hilo[h].prog, "hilos">>)
    /\ Va(h, "planU1")
    /\ UNCHANGED <<con, ults, marca, grado, multi, sems, caido, cliente>>

\* After main ran for the first time, waits for the join that it was in.
PlanU1(h) ==
    /\ En(h, "planU1")
    /\ marca' = marca \ {<<hilo[h].prog, "u1">>}
    /\ Va(h, IF <<hilo[h].prog, "u1">> \in marca THEN "planJoin" ELSE "planMutex")
    /\ UNCHANGED <<con, ults, tomado, grado, multi, sems, caido, cliente>>

PlanJoin(h) ==
    /\ En(h, "planJoin")
    /\ Toma(<<hilo[h].prog, "join">>)
    /\ Va(h, "planMutex")
    /\ UNCHANGED <<con, ults, marca, grado, multi, sems, caido, cliente>>

PlanDesaloja_Olvida(h) ==
    /\ En(h, "planDesaloja")
    /\ Va(h, "planEscanea")
    /\ UNCHANGED <<con, ults, marca, tomado, grado, multi, sems, caido, cliente>>

\* The ult that was running, if any, is ready again and its degree is back.
PlanDesaloja(h) ==
    /\ En(h, "planDesaloja")
    /\ LET c == hilo[h].prog IN
       \/ \E t \in Corriendo(c) :
             /\ estado' = [estado EXCEPT ![c][t] = "Listo"]
             /\ VaASoltar(h, "planEscanea")
       \/ /\ Corriendo(c) = {}
          /\ Va(h, "planEscanea")
          /\ UNCHANGED estado
    /\ UNCHANGED <<con, joineado, idos, marca, tomado, grado, multi, sems, caido,
                   cliente>>

\* Looks for a ready ult; signal changes states without the mutex, so what
\* it sees may be old by the next step.  With no ults at all tid stays
\* undefined and the null ult is written.
PlanEscanea(h) ==
    /\ En(h, "planEscanea")
    /\ LET c == hilo[h].prog IN
       \/ \E t \in Elegibles(c) :
             /\ Pone(h, [hilo[h] EXCEPT !.pc = "planElige", !.tid = t])
             /\ UNCHANGED caido
       \/ /\ Elegibles(c) = {} /\ Ults(c) # {}
          /\ Va(h, "planBloquea")
          /\ UNCHANGED caido
       \/ Ults(c) = {} /\ Cae(h)
    /\ UNCHANGED <<con, ults, marca, tomado, grado, multi, sems, cliente>>

PlanBloquea_Abre(h) ==
    /\ En(h, "planBloquea")
    /\ marca' = marca \cup {Bloqueado(hilo[h].prog)}
    /\ Abre({Mutex(hilo[h].prog)})
    /\ VaASoltar(h, "planDuerme")
    /\ UNCHANGED <<con, ults, grado, multi, sems, caido, cliente>>

PlanBloquea(h) ==
    /\ En(h, "planBloquea")
    /\ marca' = marca \cup {Bloqueado(hilo[h].prog)}
    /\ VaASoltar(h, "planDuerme")
    /\ UNCHANGED <<con, ults, tomado, grado, multi, sems, caido, cliente>>

PlanDuerme_SinAbrir(h) ==
    /\ En(h, "planDuerme")
    /\ Va(h, "planEspera")
    /\ UNCHANGED <<con, ults, marca, tomado, grado, multi, sems, caido, cliente>>

PlanDuerme(h) ==
    /\ En(h, "planDuerme")
    /\ Abre({Mutex(hilo[h].prog)})
    /\ Va(h, "planEspera")
    /\ UNCHANGED <<con, ults, marca, grado, multi, sems, caido, cliente>>

\* Woken by a signal: takes a degree again, then the mutex, then looks again.
PlanEspera(h) ==
    /\ En(h, "planEspera")
    /\ Toma(<<hilo[h].prog, "bloqueadoes">>)
    /\ PideGrado(h, "planVuelve")
    /\ UNCHANGED <<con, ults, marca, grado, multi, sems, caido, cliente>>

\* The reply goes to the client that holds the descriptor now.  A client that is not
\* waiting finds it in its socket at its next suse_schedule_next.
Entrega(f, t) ==
    cliente' = [c \in Conexiones |->
        IF c \notin abiertas \/ socket[c] # f \/ cliente[c].fase = "fuera"
        THEN cliente[c]
        ELSE IF cliente[c].fase = "espera"
             THEN [cliente[c] EXCEPT
                      !.fase = IF t \in cliente[c].vivos THEN "corre" ELSE "fin",
                      !.corre = t]
             ELSE [cliente[c] EXCEPT !.buzon = Append(@, t)]]

\* The best ready ult runs; if the one found first left the list meanwhile,
\* the search for it never ends.
PlanElige(h) ==
    /\ En(h, "planElige")
    /\ LET c == hilo[h].prog IN
       \E t \in Elegibles(c) \cup {hilo[h].tid} :
          \/ /\ t \in Ults(c)
             /\ estado' = [estado EXCEPT ![c][t] = "Ejecutando"]
             /\ Entrega(fd[c], t)
             /\ Pone(h, [hilo[h] EXCEPT !.pc = "planFin", !.tid = t])
             /\ UNCHANGED caido
          \/ /\ t \notin Ults(c)
             /\ IF Ults(c) = {} THEN Cae(h)
                ELSE Va(h, "colgado") /\ UNCHANGED caido
             /\ UNCHANGED <<estado, cliente>>
    /\ UNCHANGED <<con, joineado, idos, marca, tomado, grado, multi, sems>>

\* The first time that main is chosen lets the join it was in go on.
PlanFin(h) ==
    /\ En(h, "planFin")
    /\ LET c == hilo[h].prog
           primera == <<c, "u0">> \notin marca /\ hilo[h].tid = 0
       IN /\ marca' = (marca \ {<<c, "planificando">>}) \cup
                      IF primera THEN {<<c, "u0">>, <<c, "u1">>} ELSE {}
          /\ Abre({Mutex(c)} \cup IF primera THEN {<<c, "ult0">>} ELSE {})
    /\ Termina(h)
    /\ UNCHANGED <<con, ults, grado, multi, sems, caido, cliente>>

-----------------------------------------------------------------------------
\* joinear: until main has run once, the join waits for that on ult0 and
\* makes the next planificar wait for it on join.
JoinPide(h) ==
    \E lugar \in {"joinear", "joinU0"} :
        /\ En(h, lugar)
        /\ Va(h, IF <<hilo[h].prog, "u0">> \in marca THEN "joinMutex"
                 ELSE IF lugar = "joinear" THEN "joinJoin" ELSE "joinUlt0")
        /\ UNCHANGED <<con, ults, marca, tomado, grado, multi, sems, caido,
                       cliente>>

JoinToma(h) ==
    \/ /\ En(h, "joinJoin")
       /\ Toma(<<hilo[h].prog, "join">>)
       /\ Va(h, "joinU0")
       /\ UNCHANGED <<con, ults, marca, grado, multi, sems, caido, cliente>>
    \/ /\ En(h, "joinUlt0")
       /\ Toma(<<hilo[h].prog, "ult0">>)
       /\ Va(h, "joinMutex")
       /\ UNCHANGED <<con, ults, marca, grado, multi, sems, caido, cliente>>

\* The ult that wait or joinear stops has a degree to give back.
TieneGrado_Siempre(c, t) == t \in Ults(c)
TieneGrado(c, t) == t \in Corriendo(c)

\* A main that is running gives its degree back before it is put to sleep.
JoinBloquea(h) ==
    /\ En(h, "joinBloquea")
    /\ LET c == hilo[h].prog IN
       \/ /\ TieneGrado(c, 0)
          /\ VaASoltar(h, "joinEscribe")
          /\ UNCHANGED estado
       \/ /\ ~TieneGrado(c, 0)
          /\ estado' = [estado EXCEPT ![c][0] = IF @ = "Nada" THEN @ ELSE "Bloqueado"]
          /\ Va(h, "joinMarca")
    /\ UNCHANGED <<con, joineado, idos, marca, tomado, grado, multi, sems, caido,
                   cliente>>

\* The ult t, whose degree is back, is put to sleep; a cerrar that has taken
\* it off the list meanwhile may still have to read its state.
Adormece(h, lugar, t, despues) ==
    /\ En(h, lugar)
    /\ LET c == hilo[h].prog IN
       \/ /\ t \in Ults(c)
          /\ estado' = [estado EXCEPT ![c][t] = "Bloqueado"]
          /\ UNCHANGED idos
       \/ /\ t \notin Ults(c)
          /\ idos' = idos \cup {<<c, t>>}
          /\ UNCHANGED estado
    /\ Va(h, despues)
    /\ UNCHANGED <<con, joineado, marca, tomado, grado, multi, sems, caido, cliente>>

JoinEscribe(h)   == Adormece(h, "joinEscribe", 0, "joinMarca")
EsperaEscribe(h) == Adormece(h, "waitEscribe", hilo[h].tid, "waitFin")

\* A target that is gone already makes main ready at once; with other ults
\* but no main in the list, the search for main never ends.
JoinMarca(h) ==
    /\ En(h, "joinMarca")
    /\ LET c == hilo[h].prog
           vive == hilo[h].tid \in Ults(c)
       IN IF ~vive /\ Ults(c) # {} /\ 0 \notin Ults(c)
          THEN Va(h, "colgado") /\ UNCHANGED <<estado, joineado, tomado>>
          ELSE /\ estado' = [estado EXCEPT ![c][0] =
                                IF vive \/ @ = "Nada" THEN @ ELSE "Listo"]
               /\ joineado' = [joineado EXCEPT ![c] = "Joineado"]
               /\ Abre({Mutex(c)} \cup
                       IF <<c, "u1">> \in marca THEN {<<c, "join">>} ELSE {})
               /\ Termina(h)
    /\ UNCHANGED <<con, idos, marca, grado, multi, sems, caido, cliente>>

-----------------------------------------------------------------------------
\* cerrar, inside the mutex.  With two ults left, main is freed.  A tid that
\* is not in the list is searched forever, and so is a missing main; an
\* empty list is a null ult.  visto keeps whether the ult was running.
Cerrar(h) ==
    /\ En(h, "cerrar2")
    /\ LET c == hilo[h].prog
           t == hilo[h].tid
           dos == Cardinality(Ults(c)) = 2
       IN \/ /\ Ults(c) = {}
             /\ Cae(h)
             /\ UNCHANGED <<estado, joineado, tomado>>
          \/ /\ Ults(c) # {}
             /\ t \notin Ults(c) \/ (dos /\ 0 \notin Ults(c))
             /\ Va(h, "colgado")
             /\ UNCHANGED <<estado, joineado, tomado, caido>>
          \/ /\ t \in Ults(c) /\ (dos => 0 \in Ults(c))
             /\ estado' = [estado EXCEPT ![c] = [u \in Tids |->
                              IF u = t THEN "Nada"
                              ELSE IF u = 0 /\ dos THEN "Listo" ELSE @[u]]]
             /\ joineado' = [joineado EXCEPT ![c] = IF dos THEN "Liberado" ELSE @]
             /\ Abre({Mutex(c)})
             /\ Pone(h, [hilo[h] EXCEPT !.pc = "cerrar3",
                            !.visto = IF t \in Corriendo(c) /\ ~(dos /\ t = 0)
                                      THEN 1 ELSE 0])
             /\ UNCHANGED caido
    /\ UNCHANGED <<con, idos, marca, grado, multi, sems, cliente>>

\* The second unlock of the mutex that cerrar no longer holds, then the
\* release of the degree of the ult it removed, if it is still running.
CerrarFin(h) ==
    /\ En(h, "cerrar3")
    /\ LET c == hilo[h].prog IN
       /\ Abre({Mutex(c)})
       /\ IF hilo[h].visto = 1 /\ <<c, hilo[h].tid>> \notin idos
          THEN VaASoltar(h, "libre") ELSE Termina(h)
    /\ UNCHANGED <<con, ults, marca, grado, multi, sems, caido, cliente>>

\* The queue of a semaphore: waiters are pushed at one end of semaforeados and
\* leave by the other.
Entra_Adelante(q, w)   == <<w>> \o q
Entra_SoloPrograma(q, w) == Append(q, <<w[1]>>)
Entra(q, w)            == Append(q, w)

\* wait keeps semaforoses while it gives a degree back and puts the ult to
\* sleep; wait and signal start with it.
SemaforosLibre ==
    \A h \in Hilos : /\ hilo[h].pc # "waitEscribe"
                     /\ hilo[h].pc = "suelta" => hilo[h].sigue # "waitEscribe"

\* wait, inside the mutex and semaforoses.  A ult that has to wait but is
\* not in the list (its crear comes later) is a null pointer.
Esperar(h) ==
    /\ En(h, "wait2")
    /\ SemaforosLibre
    /\ LET c == hilo[h].prog
           t == hilo[h].tid
           s == hilo[h].sem
       IN \/ /\ val[s] - 1 >= 0
             /\ val' = [val EXCEPT ![s] = @ - 1]
             /\ Va(h, "waitFin")
             /\ UNCHANGED <<estado, cola, caido>>
          \/ /\ val[s] - 1 < 0
             /\ cola' = [cola EXCEPT ![s] = Entra(@, <<fd[c], t>>)]
             /\ UNCHANGED val
             /\ \/ /\ TieneGrado(c, t)
                   /\ VaASoltar(h, "waitEscribe")
                   /\ UNCHANGED <<estado, caido>>
                \/ /\ t \in Ults(c) /\ ~TieneGrado(c, t)
                   /\ estado' = [estado EXCEPT ![c][t] = "Bloqueado"]
                   /\ Va(h, "waitFin")
                   /\ UNCHANGED caido
                \/ t \notin Ults(c) /\ Cae(h) /\ UNCHANGED estado
    /\ UNCHANGED <<con, joineado, idos, marca, tomado, grado, multi, cliente>>

EsperarFin(h) ==
    /\ En(h, "waitFin")
    /\ Abre({Mutex(hilo[h].prog)})
    /\ Termina(h)
    /\ UNCHANGED <<con, ults, marca, grado, multi, sems, caido, cliente>>

\* A signal that finds nobody waiting.
Devuelto_SinMaximo(s) == val[s] + 1
Devuelto(s) == IF val[s] + 1 <= Maxs[s] THEN val[s] + 1 ELSE val[s]

\* The program of the waiter <<f, t>>, if it is still there with its ult.
Despiertan_Ninguno(f, t) == {}
Despiertan(f, t) == {c \in Vigentes(f) : t \in Ults(c)}

\* Of those, the ones whose planificar sleeps.
Dormidos_Todos(d) == d
Dormidos(d) == {c \in d : Bloqueado(c) \in marca}

\* signal, inside semaforoses and programases but not inside the mutex of
\* the program it wakes.  The oldest waiter leaves the queue even when its
\* program or its ult is gone, and then the signal wakes nobody.
Senalar(h) ==
    /\ En(h, "signal")
    /\ SemaforosLibre /\ ProgramasLibre
    /\ LET s == hilo[h].sem IN
       \/ /\ cola[s] = <<>>
          /\ val' = [val EXCEPT ![s] = Devuelto(s)]
          /\ UNCHANGED <<cola, estado, marca, tomado>>
       \/ /\ cola[s] # <<>>
          /\ cola' = [cola EXCEPT ![s] = Tail(@)]
          /\ UNCHANGED val
          /\ LET f == Head(cola[s])[1]
                 t == Head(cola[s])[2]
                 despierta == Despiertan(f, t)
                 dormido == Dormidos(despierta)
             IN /\ estado' = [c \in Conexiones |->
                      IF c \in despierta THEN [estado[c] EXCEPT ![t] = "Listo"]
                      ELSE estado[c]]
                /\ marca' = marca \ {Bloqueado(c) : c \in dormido}
                /\ Abre({<<c, "bloqueadoes">> : c \in dormido})
    /\ Termina(h)
    /\ UNCHANGED <<con, joineado, idos, grado, multi, caido, cliente>>

\* What a thread that attends a request does next.
PasoHilo(h) ==
    \/ Atender(h) \/ SoltarGrado(h)
    \/ TomaMutex(h, "crear", "crear2") \/ Crear(h) \/ CrearFin(h)
    \/ PlanPide(h) \/ PlanMulti(h) \/ PlanGrado(h) \/ PlanEntra(h)
    \/ PlanHilos(h) \/ PlanU1(h) \/ PlanJoin(h)
    \/ TomaMutex(h, "planMutex", "planDesaloja") \/ PlanDesaloja(h)
    \/ PlanEscanea(h) \/ PlanBloquea(h) \/ PlanDuerme(h) \/ PlanEspera(h)
    \/ TomaMutex(h, "planVuelve", "planEscanea")
    \/ PlanElige(h) \/ PlanFin(h)
    \/ JoinPide(h) \/ JoinToma(h) \/ TomaMutex(h, "joinMutex", "joinBloquea")
    \/ JoinBloquea(h) \/ JoinEscribe(h) \/ JoinMarca(h)
    \/ TomaMutex(h, "cerrar", "cerrar2") \/ Cerrar(h) \/ CerrarFin(h)
    \/ TomaMutex(h, "wait", "wait2") \/ Esperar(h) \/ EsperaEscribe(h)
    \/ EsperarFin(h) \/ Senalar(h)

-----------------------------------------------------------------------------
\* The main thread.  accept leaves the lowest free descriptor in nuevofd, the
\* variable that the conectar of the connection before may have yet to copy;
\* then it waits until that conectar has ended to start the next.
Libres == {f \in Fds : \A c \in abiertas : socket[c] # f}

Aceptar(c) ==
    /\ En(Principal, "select")
    /\ socket[c] = 0
    /\ \E f \in Libres :
          /\ \A g \in Libres : f <= g
          /\ socket' = [socket EXCEPT ![c] = f]
          /\ nuevofd' = f
    /\ abiertas' = abiertas \cup {c}
    /\ Pone(Principal, [hilo[Principal] EXCEPT !.pc = "acepta", !.prog = c])
    /\ UNCHANGED <<conectador, fd, programas, detras, ults, marca, tomado, grado,
                   multi, sems, caido, cliente>>

Lanzar ==
    /\ En(Principal, "acepta")
    /\ conectador = Nadie
    /\ conectador' = hilo[Principal].prog
    /\ Pone(Principal, EnSelect)
    /\ UNCHANGED <<socket, abiertas, nuevofd, fd, programas, detras, ults, marca,
                   tomado, grado, multi, sems, caido, cliente>>

\* conectar copies nuevofd, makes the program with its mutexes, and puts it at
\* the head of the list.
Cerrados_SinHilos(c) == {<<c, "bloqueadoes">>, <<c, "ult0">>}
Cerrados(c) == {<<c, "bloqueadoes">>, <<c, "ult0">>, <<c, "hilos">>}

Conectar ==
    /\ ~caido
    /\ conectador # Nadie /\ fd[conectador] = 0
    /\ fd' = [fd EXCEPT ![conectador] = nuevofd]
    /\ tomado' = tomado \cup Cerrados(conectador)
    /\ UNCHANGED <<socket, abiertas, nuevofd, conectador, programas, detras, ults,
                   marca, grado, multi, sems, hilo, caido, cliente>>

Enlazar ==
    /\ ~caido /\ ProgramasLibre
    /\ conectador # Nadie /\ fd[conectador] # 0
    /\ programas' = programas \cup {conectador}
    /\ detras' = [detras EXCEPT ![conectador] = programas]
    /\ conectador' = Nadie
    /\ UNCHANGED <<socket, abiertas, nuevofd, fd, ults, marca, tomado, grado,
                   multi, sems, hilo, caido, cliente>>

\* The main thread finds the client of c ready to be read, and its descriptor
\* in the list of programs; it waits for the conectar under way, if any.
Atendible(c) ==
    /\ En(Principal, "select")
    /\ c \in abiertas /\ Vigentes(socket[c]) # {}
    /\ conectador = Nadie

\* The client of c is gone.  If a planificar of the program found for it is
\* under way the main thread waits for the mutex, and never unlocks it.
Desconectar(c) ==
    /\ "desconectar" \in Operaciones
    /\ Atendible(c)
    /\ \E p \in Vigentes(socket[c]) :
          Pone(Principal, [hilo[Principal] EXCEPT
                    !.pc = IF <<p, "planificando">> \in marca
                           THEN "descMutex" ELSE "descUlts",
                    !.prog = p])
    /\ cliente' = [cliente EXCEPT ![c] = [ClienteInicial EXCEPT !.fase = "fuera"]]
    /\ UNCHANGED <<con, ults, marca, tomado, grado, multi, sems, caido>>

\* Inside programases: the ult that was running, if any, gives its degree
\* back, then the program leaves the list and its descriptor is closed.
DescUlts ==
    /\ En(Principal, "descUlts")
    /\ IF Corriendo(hilo[Principal].prog) # {}
       THEN VaASoltar(Principal, "descFin")
       ELSE Va(Principal, "descFin")
    /\ UNCHANGED <<con, ults, marca, tomado, grado, multi, sems, caido, cliente>>

DescFin ==
    /\ En(Principal, "descFin")
    /\ programas' = programas \ {hilo[Principal].prog}
    /\ abiertas' = {c \in abiertas : socket[c] # fd[hilo[Principal].prog]}
    /\ Pone(Principal, EnSelect)
    /\ UNCHANGED <<socket, nuevofd, conectador, fd, detras, ults, marca, tomado,
                   grado, multi, sems, caido, cliente>>

PasoPrincipal ==
    \/ TomaMutex(Principal, "descMutex", "descUlts")
    \/ DescUlts \/ SoltarGrado(Principal) \/ DescFin \/ Lanzar

PasoConectar == Conectar \/ Enlazar

-----------------------------------------------------------------------------
\* The client: libSUSE under a threads library.  Each request is one message
\* and the main thread starts one thread for it; only suse_schedule_next
\* waits for an answer, and it is what follows a join, a wait or a close.
Pide(c, op, t, s, nuevo) ==
    /\ op \in Operaciones
    /\ Atendible(c)
    /\ cliente[c].enviados < MaxPedidos
    /\ \E h \in Hilos :
          /\ En(h, "libre")
          /\ Pone(h, [Reposo EXCEPT !.pc = "atender", !.op = op,
                                    !.prog = c, !.tid = t, !.sem = s])
    /\ cliente' = [cliente EXCEPT ![c] =
                      [nuevo EXCEPT !.enviados = cliente[c].enviados + 1]]
    /\ UNCHANGED <<con, ults, marca, tomado, grado, multi, sems, caido>>

suse_create(c) ==
    LET k == cliente[c] IN
    /\ k.fase = "corre"
    /\ k.creados \in Tids
    /\ Pide(c, "crear", k.creados, Nadie,
            [k EXCEPT !.creados = @ + 1, !.vivos = @ \cup {k.creados}])

suse_schedule_next(c) ==
    LET k == cliente[c] IN
    /\ k.fase \in {"corre", "debe"} /\ k.creados > 0
    /\ Pide(c, "planificar", 0, Nadie,
            IF k.buzon = <<>> THEN [k EXCEPT !.fase = "espera"]
            ELSE [k EXCEPT !.buzon = Tail(@), !.corre = Head(k.buzon),
                           !.fase = IF Head(k.buzon) \in k.vivos THEN "corre"
                                    ELSE "fin"])

suse_join(c) ==
    LET k == cliente[c] IN
    /\ k.fase = "corre" /\ k.corre = 0
    /\ \E t \in 1 .. k.creados - 1 :
          Pide(c, "joinear", t, Nadie, [k EXCEPT !.fase = "debe"])

suse_close(c) ==
    LET k == cliente[c] IN
    /\ k.fase = "corre" /\ k.corre \in k.vivos
    /\ Pide(c, "cerrar", k.corre, Nadie,
            [k EXCEPT !.fase = IF k.corre = 0 THEN "fin" ELSE "debe",
                      !.vivos = @ \ {k.corre}])

suse_wait(c, s) ==
    LET k == cliente[c] IN
    /\ k.fase = "corre" /\ k.corre \in k.vivos
    /\ Pide(c, "wait", k.corre, s, [k EXCEPT !.fase = "debe"])

suse_signal(c, s) ==
    LET k == cliente[c] IN
    /\ k.fase = "corre" /\ k.corre \in k.vivos
    /\ Pide(c, "signal", 0, s, k)

PasoCliente(c) ==
    \/ suse_create(c) \/ suse_schedule_next(c)
    \/ suse_join(c) \/ suse_close(c)
    \/ \E s \in Sems : suse_wait(c, s) \/ suse_signal(c, s)

-----------------------------------------------------------------------------
Next ==
    \/ \E h \in Hilos : PasoHilo(h)
    \/ PasoPrincipal \/ PasoConectar
    \/ \E c \in Conexiones : Aceptar(c) \/ Desconectar(c) \/ PasoCliente(c)

Spec == Init /\ [][Next]_vars

\* A thread of the server that can go on does so; clients owe nothing.
Justicia ==
    /\ \A h \in Hilos : WF_vars(PasoHilo(h))
    /\ WF_vars(PasoPrincipal) /\ WF_vars(PasoConectar)

FairSpec == Spec /\ Justicia

-----------------------------------------------------------------------------
\* The handlers of a client's requests, and where a release of the degree or
\* a wake-up can lead.
Pedidos == {"crear", "planificar", "joinear", "cerrar", "wait", "signal"}
Vueltas == {"libre", "planEntra", "planVuelve", "planEscanea", "planDuerme",
            "joinEscribe", "waitEscribe", "descFin"}

Esperador == (Fds \cup {0}) \X Tids

TipoHilo == [pc : Lugares \cup {"libre"}, op : Pedidos \cup {"libre"},
             prog : Conexiones \cup {Nadie}, tid : Tids,
             sem : Sems \cup {Nadie}, visto : Int, sigue : Vueltas]

TipoCliente == [fase : {"corre", "debe", "espera", "fin", "fuera"},
                corre : Tids, creados : {n \in Nat : 0 .. n - 1 \subseteq Tids},
                vivos : SUBSET Tids, enviados : 0 .. MaxPedidos, buzon : Seq(Tids)]

\* Every variable has its type.
TypeOK ==
    /\ socket \in [Conexiones -> Fds \cup {0}] /\ abiertas \subseteq Conexiones
    /\ nuevofd \in Fds \cup {0} /\ conectador \in Conexiones \cup {Nadie}
    /\ fd \in [Conexiones -> Fds \cup {0}]
    /\ programas \subseteq Conexiones /\ detras \in [Conexiones -> SUBSET Conexiones]
    /\ estado \in [Conexiones -> [Tids -> Estados]]
    /\ joineado \in [Conexiones -> {"Nuevo", "Joineado", "Liberado"}]
    /\ idos \subseteq Conexiones \X Tids
    /\ marca \subseteq UNION {MarcasDe(c) : c \in Conexiones}
    /\ tomado \subseteq {CandadoMulti} \cup UNION {MutexesDe(c) : c \in Conexiones}
    /\ grado \in Int /\ multi \in Int
    /\ val \in [Sems -> Int]
    /\ cola \in [Sems -> Seq(Esperador)]
    /\ hilo \in [Todos -> TipoHilo]
    /\ caido \in BOOLEAN
    /\ cliente \in [Conexiones -> TipoCliente]

\* wait and signal keep every semaphore between 0 and its maximum, and a ult
\* waits for a semaphore only while it has no permits to give (697-733, 735-827).
SemaforosOK ==
    \A s \in Sems :
        /\ val[s] \in 0 .. Maxs[s]
        /\ cola[s] # <<>> => val[s] = 0

\* With handlers of any number of programs interleaved, each semaphore is a
\* counting semaphore that serves its waiters in order of arrival.
Promesa == INSTANCE Semaforo WITH Esperadores <- Esperador
SemaforoImplementado == Promesa!Spec

\* A program has one running ult at most, whatever order its requests are
\* attended in: planificar puts the old one back before it picks another.
UnoEjecutando == \A c \in Conexiones : Cardinality(Corriendo(c)) <= 1

\* The threads that raised bloqueado (or are about to sleep on bloqueadoes).
Durmiendo(c) ==
    {h \in Hilos : /\ hilo[h].prog = c
                   /\ \/ hilo[h].pc \in {"planDuerme", "planEspera"}
                      \/ hilo[h].pc = "suelta" /\ hilo[h].sigue = "planDuerme"}

\* The wake-ups of c: a flag still to be taken down, a mutex left open.
Fichas(c) == Cardinality({b \in {Bloqueado(c)} : b \in marca})
             + Cardinality({b \in {<<c, "bloqueadoes">>} : b \notin tomado})

\* No conectar has copied the nuevofd of a later accept, so every program has
\* the descriptor of the client it was made for.
CadaUnoSuFd == \A c \in Conexiones : fd[c] # 0 => fd[c] = socket[c]

\* bloqueado and bloqueadoes are one token: no wake-up is ever left over to
\* let a later planificar through without sleeping, and, while descriptors are
\* neither reused nor mistaken, a planificar that sleeps still has one to come:
\* the flag is up, or the signal that took it down has opened the mutex.
FichaDeDespertar ==
    \A c \in Conexiones :
        fd[c] # 0 =>
            /\ Fichas(c) <= Cardinality(Durmiendo(c))
            /\ "desconectar" \notin Operaciones /\ CadaUnoSuFd =>
                   Fichas(c) = Cardinality(Durmiendo(c))

\* The threads between the lock of programa->mutex and its unlock.
EnSeccion(c) ==
    LET dentro == {"crear2", "crear3", "planDesaloja", "planEscanea",
                   "planBloquea", "planDuerme", "planElige", "planFin",
                   "joinBloquea", "joinEscribe", "joinMarca", "cerrar2",
                   "wait2", "waitEscribe", "waitFin"}
    IN {h \in Hilos : /\ hilo[h].prog = c
                      /\ \/ hilo[h].pc \in dentro
                         \/ hilo[h].pc = "suelta" /\ hilo[h].sigue \in dentro}

\* Until the client of a program closes a ult (the second unlock of cerrar opens
\* a mutex that may be another handler's), its mutex keeps its handlers apart.
SinCierres(c) == cliente[c].vivos = 0 .. cliente[c].creados - 1

ExclusionMutua ==
    \A c \in Conexiones :
        CadaUnoSuFd /\ SinCierres(c) =>
            /\ Cardinality(EnSeccion(c)) <= 1
            /\ EnSeccion(c) # {} => Mutex(c) \in tomado

\* planificar never scans a program before its first ult exists: the mutex
\* hilos holds it until a crear has put one in the list.
ConPrimerUlt(c) ==
    \/ TieneHilos(c) \in marca
    \/ \E g \in Hilos : hilo[g].pc = "crear3" /\ hilo[g].prog = c

PlanificaConHilos ==
    \A h \in Hilos :
        hilo[h].pc \in {"planU1", "planJoin", "planMutex", "planDesaloja",
                        "planEscanea", "planElige", "planFin"} =>
            ConPrimerUlt(hilo[h].prog)

\* A blocked ult other than main is in the queue of some semaphore, so some
\* signal can still wake it, unless its program has the descriptor of another.
BloqueadoEsperaAlgo ==
    CadaUnoSuFd =>
        \A c \in programas : \A t \in Tids \ {0} :
            estado[c][t] = "Bloqueado" =>
                \E s \in Sems : \E i \in 1 .. Len(cola[s]) :
                    cola[s][i] = <<fd[c], t>>

\* The ult that a thread of joinear or wait puts to sleep, and those whose
\* degree is back although they still count as running.
Detenido(r) == <<r.prog, IF r.pc = "joinEscribe" THEN 0 ELSE r.tid>>

PorAdormecer ==
    {Detenido(hilo[h]) : h \in {g \in Hilos : hilo[g].pc \in {"joinEscribe", "waitEscribe"}}}

\* While nobody disconnects or closes a ult, the degree in use that metricas
\* reports is never below the number of ults that are running, but for those
\* about to be put to sleep: no two handlers release the degree of one ult.
MultiNoSubestima ==
    /\ "desconectar" \notin Operaciones
    /\ CadaUnoSuFd
    /\ \A c \in Conexiones : SinCierres(c)
    => multi >= Cardinality({x \in programas \X Tids :
                                /\ estado[x[1]][x[2]] = "Ejecutando"
                                /\ x \notin PorAdormecer})

\* Whatever planificar and joinear sleep on, they do not hold the mutex of the
\* program meanwhile: every crear, wait, signal and cerrar ends, unless the
\* server dies or a thread searches a list forever.
PedidosTerminan ==
    \A h \in Hilos :
        hilo[h].op \in {"crear", "wait", "signal", "cerrar"}
            ~> \/ hilo[h].pc = "libre"
               \/ caido
               \/ \E g \in Hilos : hilo[g].pc = "colgado"

\* Main is never given the processor, nor counted as started, before it has
\* joined or the last of its other ults has closed.
MainDespuesDeJoin ==
    \A c \in Conexiones :
        estado[c][0] = "Ejecutando" \/ <<c, "u0">> \in marca
            => joineado[c] # "Nuevo"

\* What a thread works on: one that is past select or the pool has a program
\* that once connected, and atender has a request that SUSE knows.
PedidoDe(r) ==
    /\ r.pc \notin {"libre", "select"} => r.prog \in Conexiones
    /\ r.pc = "atender" => r.op \in Pedidos

PedidoOK == \A h \in Todos : PedidoDe(hilo[h])

\* The inductive invariant: handlers keep every variable in its type because
\* they only ever work on a program that connected, and the semaphores keep
\* their bounds (656-827).
IInv == TypeOK /\ PedidoOK /\ SemaforosOK

=============================================================================
