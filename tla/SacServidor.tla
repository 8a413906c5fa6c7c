----------------------------- MODULE SacServidor -----------------------------
(***************************************************************************)
(* The server of SAC and its clients: src/UwUntu/SAC/SAC.c,                *)
(* src/UwUntu/SAC/escuchar-pedidos.c and src/UwUntu/SAC-cli.               *)
(*                                                                         *)
(* sac-cli is a FUSE file system: the kernel calls its callbacks from      *)
(* several threads, and each call opens a connection, sends one request,   *)
(* and reads one reply inside the mutex sockete of its process.  The       *)
(* server starts one thread per connection, but its accept loop locks the  *)
(* mutex thread before it accepts and the thread it starts unlocks it.     *)
(*                                                                         *)
(* The disk is cut down to what decides a reply: which directories there   *)
(* are below the root and whether each has something in it.  SacDisco      *)
(* models the rest; here a search finds what is there, as it does while    *)
(* all names differ (SacDisco!BusquedaCorrecta).                           *)
(* A request and its reply are atomic messages, except a write, which is   *)
(* longer than a segment and can be received in parts.                     *)
(***************************************************************************)
EXTENDS Naturals, Sequences, FiniteSets, SequencesExt

CONSTANTS
    Clientes,       \* the processes of sac-cli
    Hebras,         \* the threads that FUSE has in all of them
    ClienteDe,      \* ClienteDe[t]: the process of the thread t
    Hilos,          \* the threads that the server can have at a time
    Nombres,        \* the names of directories
    Dirs,           \* their paths, sequences of names
    Nadie,          \* no thread, no directory, no connection
    Operaciones,    \* the calls that programs make
    Fallas,         \* what may fail: "accept", "pthread_create", "cliente"
    MaxLlamadas,    \* bound on the calls of all of them
    MaxFallas       \* bound on the failures

\* The callbacks that send a request.  access calls open.  A call is about
\* the directory dir, or the one that has its file in it; only rename, of
\* dir or of the file of that path, has a second path.
Callbacks == {"getattr", "open", "opendir", "readdir", "read", "mknod", "mkdir",
              "unlink", "rmdir", "write", "truncate", "rename"}

ASSUME SacServidorConstantes ==
    /\ ClienteDe \in [Hebras -> Clientes]
    /\ Dirs \subseteq Seq(Nombres) \ {<<>>}
    /\ \A d \in Dirs : Front(d) \in Dirs \cup {<<>>}
    /\ Nadie \notin Hebras \cup Dirs \cup (Hebras \X Nat)
    /\ Operaciones \subseteq [op : Callbacks, dir : Dirs, nuevo : Dirs \cup {Nadie}]
    /\ \A p \in Operaciones : (p.op = "rename") = (p.nuevo # Nadie)
    /\ MaxLlamadas \in Nat /\ MaxFallas \in Nat

VARIABLES
    directorios,    \* directorios[d]: "no", "vacio" or "lleno"
    principal,      \* where the accept loop is: "lock" or "accept"
    thread,         \* the mutex thread is locked
    nuevo_cliente,  \* the variable of that name, on the stack of main
    cola,           \* the connections that wait for accept
    hilo,           \* hilo[h]: a thread of the server and its locals
    caido,          \* the process of the server died
    conexion,       \* conexion[x]: the two ends of a connection
    hebra,          \* hebra[t]: a thread of FUSE, its call and its open directory
    sockete,        \* sockete[c]: who holds the mutex of that name of sac-cli
    muertos,        \* the processes of sac-cli that died
    fallas          \* how many calls of the kernel failed

servidor == <<directorios, principal, thread, nuevo_cliente, hilo, caido>>
clientes == <<hebra, sockete, muertos>>
vars == <<directorios, principal, thread, nuevo_cliente, cola, hilo, caido,
          conexion, hebra, sockete, muertos, fallas>>

-----------------------------------------------------------------------------
Respuestas == {"nada", "si", "no", "vacia", "lista", "perdida"}

\* The n-th call of a thread has a connection of its own.
Conexiones == Hebras \X (1 .. MaxLlamadas)
Actual(t)  == <<t, hebra[t].n>>
De(x)      == ClienteDe[x[1]]

Nueva == [op |-> "getattr", dir |-> Nadie, nuevo |-> Nadie, cliente |-> "no",
          enviado |-> FALSE, servidor |-> "no", atendida |-> FALSE,
          respuesta |-> "nada", previas |-> {}]
Ocioso == [pc |-> "libre", con |-> Nadie, resp |-> "nada", resto |-> FALSE]

\* The call of x is under way, or has returned to the program.
EnCurso(x) == hebra[x[1]].pc # "libre" /\ hebra[x[1]].n = x[2]
Volvio(x)  == x[2] <= hebra[x[1]].n /\ ~EnCurso(x)

\* The path e is d or is below d, and what it is called when d is moved to a.
Bajo(e, d) == e # Nadie /\ IsPrefix(d, e)
Mudado(e, d, a) == a \o SubSeq(e, Len(d) + 1, Len(e))

\* What there is on the disk s of a directory; the root, <<>>, is always there.
\* A directory with another in it is not empty.
Padre(d)    == Front(d)
Hay(s, d)   == d = <<>> \/ s[d] # "no"
Lleno(s, d) == d = <<>> \/ s[d] = "lleno"
Arbol(s)    == \A d \in Dirs : s[d] # "no" => Lleno(s, Padre(d))

\* The server is idle after earlier calls, which left some directories there
\* and one of them open in every thread.
Init ==
    /\ directorios \in {s \in [Dirs -> {"no", "vacio", "lleno"}] : Arbol(s)}
    /\ \E abre \in {d \in Dirs : directorios[d] # "no"} \cup
                  (IF \A d \in Dirs : directorios[d] = "no" THEN {Nadie} ELSE {}) :
          hebra = [t \in Hebras |-> [pc |-> "libre", n |-> 0, abre |-> abre]]
    /\ principal = "lock" /\ thread = FALSE /\ nuevo_cliente = Nadie
    /\ cola = <<>>
    /\ hilo = [h \in Hilos |-> Ocioso]
    /\ caido = FALSE
    /\ conexion = [x \in Conexiones |-> Nueva]
    /\ sockete = [c \in Clientes |-> Nadie]
    /\ muertos = {} /\ fallas = 0

-----------------------------------------------------------------------------
\* The accept loop.  Nothing but the thread of the last request opens the
\* mutex, so after a failed accept the loop waits for itself, and after a
\* failed pthread_create for a thread that is not there.
TomarTurno_SinEsperar ==
    /\ ~caido /\ principal = "lock"
    /\ thread' = TRUE /\ principal' = "accept"
    /\ UNCHANGED <<directorios, nuevo_cliente, cola, hilo, caido, conexion,
                   clientes, fallas>>

TomarTurno ==
    /\ ~caido /\ principal = "lock" /\ ~thread
    /\ thread' = TRUE /\ principal' = "accept"
    /\ UNCHANGED <<directorios, nuevo_cliente, cola, hilo, caido, conexion,
                   clientes, fallas>>

Falla(que) == que \in Fallas /\ fallas < MaxFallas /\ fallas' = fallas + 1

FallaAccept ==
    /\ ~caido /\ principal = "accept"
    /\ Falla("accept")
    /\ principal' = "lock"
    /\ UNCHANGED <<directorios, thread, nuevo_cliente, cola, hilo, caido,
                   conexion, clientes>>

Aceptar ==
    /\ ~caido /\ principal = "accept" /\ cola # <<>>
    /\ principal' = "lock"
    /\ nuevo_cliente' = Head(cola) /\ cola' = Tail(cola)
    /\ \/ /\ \E h \in Hilos : /\ hilo[h].pc = "libre"
                              /\ hilo' = [hilo EXCEPT ![h].pc = "nace"]
          /\ conexion' = [conexion EXCEPT ![Head(cola)].servidor = "abierta"]
          /\ UNCHANGED fallas
       \/ /\ Falla("pthread_create")
          /\ conexion' = [conexion EXCEPT ![Head(cola)].servidor = "olvidada"]
          /\ UNCHANGED hilo
    /\ UNCHANGED <<directorios, thread, caido, clientes>>

-----------------------------------------------------------------------------
\* The thread of a request, atender_pedidos.
En(h, lugar) == ~caido /\ hilo[h].pc = lugar

\* Its argument is a pointer to the variable of main.
Copiar_Suelta(h) ==
    /\ En(h, "nace")
    /\ hilo' = [hilo EXCEPT ![h] = [Ocioso EXCEPT !.pc = "recv", !.con = nuevo_cliente]]
    /\ thread' = FALSE
    /\ UNCHANGED <<directorios, principal, nuevo_cliente, cola, caido, conexion,
                   clientes, fallas>>

Copiar(h) ==
    /\ En(h, "nace")
    /\ hilo' = [hilo EXCEPT ![h] = [Ocioso EXCEPT !.pc = "recv", !.con = nuevo_cliente]]
    /\ UNCHANGED <<directorios, principal, thread, nuevo_cliente, cola, caido,
                   conexion, clientes, fallas>>

\* control_error_conexion: the thread ends, with its descriptor open and the
\* mutex locked.
Abandonar(h) ==
    /\ En(h, "recv")
    /\ LET x == hilo[h].con IN
       /\ ~conexion[x].enviado /\ conexion[x].cliente = "cerrada"
       /\ conexion' = [conexion EXCEPT ![x].servidor = "olvidada"]
    /\ hilo' = [hilo EXCEPT ![h] = Ocioso]
    /\ UNCHANGED <<directorios, principal, thread, nuevo_cliente, cola, caido,
                   clientes, fallas>>

\* Something is put in the directory d, or something is taken out of it.
Poner(s, d) == [e \in Dirs |-> IF e = d THEN "lleno" ELSE s[e]]
Sacar(s, d) ==
    {s} \cup {z \in {[e \in Dirs |-> IF e = d THEN "vacio" ELSE s[e]]} :
                /\ d # <<>> /\ s[d] = "lleno"
                /\ \A e \in Dirs : Padre(e) = d => s[e] = "no"}

\* borrar_directorio erases what is below as well, and renombrar moves it.
Borrado(s, d) == [e \in Dirs |-> IF Bajo(e, d) THEN "no" ELSE s[e]]
Movido(s, d, a) ==
    [e \in Dirs |->
        IF Bajo(e, d) THEN "no"
        ELSE IF Bajo(e, a) /\ Mudado(e, a, d) \in Dirs /\ s[e] # "lleno"
                /\ s[Mudado(e, a, d)] # "no"
             THEN s[Mudado(e, a, d)] ELSE s[e]]

\* What the request q can leave on the disk and answer.  mkdir, mknod, unlink
\* and what is done to a file may also fail: the file is not there, or a
\* table, a name or the disk is full.
Hecho(zs) == {<<z, "si">> : z \in zs}

Efectos(s, q) ==
    LET d  == q.dir
        a  == q.nuevo
        no == {<<s, "no">>}
    IN CASE q.op \in {"getattr", "opendir"} ->
              {<<s, IF s[d] = "no" THEN "no" ELSE "si">>}
         [] q.op = "readdir" -> {<<s, IF s[d] = "vacio" THEN "vacia" ELSE "lista">>}
         [] q.op = "mkdir" ->
              no \cup {r \in Hecho({Poner([s EXCEPT ![d] = "vacio"], Padre(d))}) :
                          s[d] = "no" /\ Hay(s, Padre(d))}
         [] q.op = "mknod" -> no \cup {r \in Hecho({Poner(s, d)}) : s[d] # "no"}
         [] q.op = "unlink" -> no \cup {r \in Hecho(Sacar(s, d)) : s[d] = "lleno"}
         [] q.op = "rmdir" ->
              IF s[d] = "no" THEN no ELSE Hecho(Sacar(Borrado(s, d), Padre(d)))
         [] q.op = "rename" ->
              {r \in no : s[d] = "no" \/ ~Hay(s, Padre(a))} \cup
              {r \in Hecho({Poner(z, Padre(a)) : z \in Sacar(Movido(s, d, a), Padre(d))}) :
                  Lleno(s, Padre(d)) /\ Hay(s, Padre(a))}
         [] OTHER -> no \cup {r \in Hecho({s}) : s[d] = "lleno"}

\* listar_archivos_del_directorio answers NULL when there is no directory,
\* and atender_pedidos asks whether that list is empty.
Derriba_Vacio(op, e) == op = "readdir" /\ e \in {"no", "vacio"}
Derriba(op, e) == op = "readdir" /\ e = "no"

\* Receive the request and carry it out (the mutex m_truncar is only taken
\* inside this step).  A write may be received in part: the rest stays in the
\* socket.
Atender(h) ==
    /\ En(h, "recv")
    /\ LET x == hilo[h].con
           q == conexion[x]
       IN /\ q.enviado
          /\ \/ /\ Derriba(q.op, directorios[q.dir])
                /\ caido' = TRUE
                /\ UNCHANGED <<directorios, hilo, conexion>>
             \/ /\ ~Derriba(q.op, directorios[q.dir])
                /\ \E ef \in Efectos(directorios, q) :
                   \E resto \in IF q.op = "write" THEN BOOLEAN ELSE {FALSE} :
                      /\ directorios' = ef[1]
                      /\ hilo' = [hilo EXCEPT ![h].pc = "send", ![h].resp = ef[2],
                                              ![h].resto = resto]
                /\ conexion' = [conexion EXCEPT ![x].atendida = TRUE]
                /\ UNCHANGED caido
    /\ UNCHANGED <<principal, thread, nuevo_cliente, cola, clientes, fallas>>

\* Inside the server's own mutex sockete, which it keeps until recv returns.
Responder(h) ==
    /\ En(h, "send")
    /\ \A g \in Hilos : hilo[g].pc # "mensajito"
    /\ conexion' = [conexion EXCEPT ![hilo[h].con].respuesta = hilo[h].resp]
    /\ hilo' = [hilo EXCEPT ![h].pc = "mensajito"]
    /\ UNCHANGED <<directorios, principal, thread, nuevo_cliente, cola, caido,
                   clientes, fallas>>

\* The client sends one byte more than the message it announces, and the
\* server's last recv takes that for the answer of the client.
Sobrante_Nada == 0
Sobrante == 1

HayQueLeer(h) ==
    LET x == hilo[h].con
    IN Sobrante > 0 \/ hilo[h].resto \/ Volvio(x) \/ conexion[x].cliente = "cerrada"

\* Closing a socket with bytes that were not read resets the connection: the
\* client may lose a reply that it has not read yet.
SinLeer_SinRecv(h) == TRUE
SinLeer(h) == hilo[h].resto

Cerrar_SiAnduvo(h) ==
    /\ En(h, "mensajito")
    /\ HayQueLeer(h)
    /\ conexion' = [conexion EXCEPT ![hilo[h].con].servidor = "cerrada"]
    /\ thread' = (hilo[h].resp = "no")
    /\ hilo' = [hilo EXCEPT ![h] = Ocioso]
    /\ UNCHANGED <<directorios, principal, nuevo_cliente, cola, caido, clientes,
                   fallas>>

Cerrar(h) ==
    /\ En(h, "mensajito")
    /\ HayQueLeer(h)
    /\ LET x == hilo[h].con IN
       \E r \in {conexion[x].respuesta} \cup
                (IF SinLeer(h) /\ ~Volvio(x) THEN {"perdida"} ELSE {}) :
          conexion' = [conexion EXCEPT ![x].servidor = "cerrada", ![x].respuesta = r]
    /\ thread' = FALSE
    /\ hilo' = [hilo EXCEPT ![h] = Ocioso]
    /\ UNCHANGED <<directorios, principal, nuevo_cliente, cola, caido, clientes,
                   fallas>>

PasoHilo(h) == Copiar(h) \/ Abandonar(h) \/ Atender(h) \/ Responder(h) \/ Cerrar(h)

-----------------------------------------------------------------------------
\* The client: a callback and pedir_oper_sacServer.
HebrasDe(c) == {t \in Hebras : ClienteDe[t] = c}

\* FUSE holds the tree of its paths while a call is under way: what removes or
\* moves a path excludes every other call of the process about it or below it.
Quita == {"rmdir", "rename"}
Caminos(q) == {q.dir, q.nuevo} \ {Nadie}
Excluye(q, r) == q.op \in Quita /\ \E d \in Caminos(q), e \in Caminos(r) : Bajo(e, d)

\* The kernel reads only a directory that the thread has opened, and moves none
\* into itself.
Permitido(t, p) ==
    /\ p.op = "readdir" => hebra[t].abre = p.dir
    /\ p.op = "rename" => ~Bajo(p.dir, p.nuevo) /\ ~Bajo(p.nuevo, p.dir)
    /\ \A u \in HebrasDe(ClienteDe[t]) :
          hebra[u].pc # "libre" =>
              ~Excluye(p, conexion[Actual(u)]) /\ ~Excluye(conexion[Actual(u)], p)

\* The calls that returned before the server carried them out.
Debida(y) == Volvio(y) /\ De(y) \notin muertos /\ ~conexion[y].atendida

\* connect: the kernel of the server completes it before accept does.  What is
\* removed is dead for those of the process that opened it before.
Llamar(t, p) ==
    LET c == ClienteDe[t]
        x == <<t, hebra[t].n + 1>>
    IN /\ ~caido /\ c \notin muertos
       /\ hebra[t].pc = "libre" /\ hebra[t].n < MaxLlamadas
       /\ Cardinality({y \in Conexiones : conexion[y].cliente # "no"}) < MaxLlamadas
       /\ Permitido(t, p)
       /\ cola' = Append(cola, x)
       /\ conexion' = [conexion EXCEPT ![x] =
             [Nueva EXCEPT !.op = p.op, !.dir = p.dir, !.nuevo = p.nuevo,
                           !.cliente = "abierta", !.previas = {y \in Conexiones : Debida(y)}]]
       /\ hebra' = [u \in Hebras |->
             [pc   |-> IF u = t THEN "connect" ELSE hebra[u].pc,
              n    |-> IF u = t THEN hebra[t].n + 1 ELSE hebra[u].n,
              abre |-> IF u = t /\ p.op = "opendir" THEN p.dir
                       ELSE IF /\ p.op = "rmdir" /\ ClienteDe[u] = c
                               /\ Bajo(hebra[u].abre, p.dir)
                       THEN Nadie ELSE hebra[u].abre]]
       /\ UNCHANGED <<servidor, sockete, muertos, fallas>>

Enviar(t) ==
    /\ hebra[t].pc = "connect"
    /\ conexion' = [conexion EXCEPT ![Actual(t)].enviado = TRUE]
    /\ hebra' = [hebra EXCEPT ![t].pc = "send"]
    /\ UNCHANGED <<servidor, cola, sockete, muertos, fallas>>

TomarSockete(t) ==
    /\ hebra[t].pc = "send"
    /\ sockete[ClienteDe[t]] = Nadie
    /\ sockete' = [sockete EXCEPT ![ClienteDe[t]] = t]
    /\ hebra' = [hebra EXCEPT ![t].pc = "recv"]
    /\ UNCHANGED <<servidor, cola, conexion, muertos, fallas>>

\* ELIMINAR_DIRECTORIO has no case to receive with.  The length that comes
\* with a listing counts itself, so what follows only ends when the server
\* closes.  A dead server closes everything.
YaRecibe(x) ==
    \/ conexion[x].op = "rmdir" \/ caido
    \/ conexion[x].respuesta \notin {"nada", "lista"}
    \/ conexion[x].respuesta = "lista" /\ conexion[x].servidor = "cerrada"

\* A listing of nothing returns before the close.
Cierra_SiAnduvo(r) == r \notin {"vacia", "no"}
Cierra(r) == r # "vacia"

\* What the process has open below the path d, or below the path a, once it has
\* moved d to a.
Sigue(e, d, a) ==
    IF Bajo(e, d) THEN IF Mudado(e, d, a) \in Dirs THEN Mudado(e, d, a) ELSE Nadie
    ELSE IF Bajo(e, a) THEN Nadie ELSE e

\* The reply, mensajito, the unlock and the close.
Suelta_SiCierra(t, r) == IF Cierra(r) THEN Nadie ELSE t
Suelta(t, r) == Nadie

Recibir(t) ==
    /\ hebra[t].pc = "recv"
    /\ LET x == Actual(t)
           q == conexion[x]
           r == q.respuesta
       IN /\ YaRecibe(x)
          /\ conexion' = [conexion EXCEPT
                ![x].cliente = IF Cierra(r) THEN "cerrada" ELSE "abierta",
                ![x].previas = {}]
          /\ hebra' = [u \in Hebras |->
                [pc   |-> IF u = t THEN "libre" ELSE hebra[u].pc,
                 n    |-> hebra[u].n,
                 abre |-> IF u = t /\ q.op = "opendir" /\ r # "si" THEN Nadie
                          ELSE IF q.op = "rename" /\ r = "si" /\ ClienteDe[u] = ClienteDe[t]
                          THEN Sigue(hebra[u].abre, q.dir, q.nuevo) ELSE hebra[u].abre]]
          /\ sockete' = [sockete EXCEPT ![ClienteDe[t]] = Suelta(t, r)]
    /\ UNCHANGED <<servidor, cola, muertos, fallas>>

PasoHebra(t) == Enviar(t) \/ TomarSockete(t) \/ Recibir(t)

\* sac_rmdir copies from, and frees, the pointer that was never set.
MuereAlBorrar(c) ==
    \E t \in HebrasDe(c) : hebra[t].pc = "recv" /\ conexion[Actual(t)].op = "rmdir"

\* The process ends; the kernel closes its sockets.
Morir(c) ==
    /\ c \notin muertos
    /\ \/ MuereAlBorrar(c) /\ UNCHANGED fallas
       \/ Falla("cliente")
    /\ muertos' = muertos \cup {c}
    /\ conexion' = [x \in Conexiones |->
          IF De(x) = c /\ conexion[x].cliente = "abierta"
          THEN [conexion[x] EXCEPT !.cliente = "cerrada", !.previas = {}]
          ELSE conexion[x]]
    /\ hebra' = [t \in Hebras |->
          IF ClienteDe[t] = c THEN [hebra[t] EXCEPT !.pc = "libre", !.abre = Nadie]
          ELSE hebra[t]]
    /\ sockete' = [sockete EXCEPT ![c] = Nadie]
    /\ UNCHANGED <<servidor, cola>>

-----------------------------------------------------------------------------
Next ==
    \/ TomarTurno \/ FallaAccept \/ Aceptar
    \/ \E h \in Hilos : PasoHilo(h)
    \/ \E t \in Hebras, p \in Operaciones : Llamar(t, p)
    \/ \E t \in Hebras : PasoHebra(t)
    \/ \E c \in Clientes : Morir(c)

Spec == Init /\ [][Next]_vars

\* The threads of the server and those of FUSE that can go on do so.  Which
\* programs call and what fails is nobody's duty.
Justicia ==
    /\ WF_vars(TomarTurno) /\ WF_vars(Aceptar)
    /\ \A h \in Hilos : WF_vars(PasoHilo(h))
    /\ \A t \in Hebras : WF_vars(PasoHebra(t))

FairSpec == Spec /\ Justicia

-----------------------------------------------------------------------------
TipoConexion ==
    [op : Callbacks, dir : Dirs \cup {Nadie}, nuevo : Dirs \cup {Nadie},
     cliente : {"no", "abierta", "cerrada"}, enviado : BOOLEAN, servidor : {"no", "abierta", "cerrada", "olvidada"},
     atendida : BOOLEAN, respuesta : Respuestas, previas : SUBSET Conexiones]

\* Every variable has its type.
TypeOK ==
    /\ directorios \in [Dirs -> {"no", "vacio", "lleno"}]
    /\ principal \in {"lock", "accept"} /\ thread \in BOOLEAN
    /\ nuevo_cliente \in Conexiones \cup {Nadie}
    /\ cola \in Seq(Conexiones)
    /\ hilo \in [Hilos -> [pc : {"libre", "nace", "recv", "send", "mensajito"},
                           con : Conexiones \cup {Nadie}, resp : Respuestas,
                           resto : BOOLEAN]]
    /\ caido \in BOOLEAN
    /\ conexion \in [Conexiones -> TipoConexion]
    /\ hebra \in [Hebras -> [pc : {"libre", "connect", "send", "recv"},
                             n : 0 .. MaxLlamadas, abre : Dirs \cup {Nadie}]]
    /\ sockete \in [Clientes -> Hebras \cup {Nadie}]
    /\ muertos \subseteq Clientes /\ fallas \in 0 .. MaxFallas

\* The thread h of the server is the one that attends x.
ACargo(h, x) ==
    \/ hilo[h].pc = "nace" /\ nuevo_cliente = x
    \/ hilo[h].pc \notin {"libre", "nace"} /\ hilo[h].con = x

\* The two mutexes that are held between steps.  thread is held by the accept
\* loop while it waits for a connection and by the one thread that attends it
\* from then on; sockete of sac-cli by the thread that receives.
TurnoOK ==
    /\ principal = "accept" => thread /\ \A h \in Hilos : hilo[h].pc = "libre"
    /\ \A h \in Hilos : hilo[h].pc # "libre" =>
          thread /\ \A g \in Hilos : hilo[g].pc # "libre" => g = h

SocketeOK ==
    \A t \in Hebras, c \in Clientes :
        sockete[c] = t <=> hebra[t].pc = "recv" /\ ClienteDe[t] = c

\* What each thread of the server has in its hands, and what waits in the queue
\* (once and not yet accepted).
ConexionOK ==
    /\ \A h \in Hilos :
          /\ hilo[h].pc = "nace" => nuevo_cliente \in Conexiones
          /\ hilo[h].pc \in {"recv", "send", "mensajito"} => hilo[h].con \in Conexiones
    /\ \A i, j \in 1 .. Len(cola) :
          conexion[cola[i]].servidor = "no" /\ (cola[i] = cola[j] => i = j)

\* The mutexes and the connections in every hand.
IInv == TypeOK /\ TurnoOK /\ SocketeOK /\ ConexionOK

\* The argument of a thread is a variable of main, not a copy, and still every
\* connection that is accepted has one thread: the next accept, which writes
\* that variable again, comes after the thread that reads it has ended.
CadaUnoSuConexion ==
    \A x \in Conexiones :
        conexion[x].servidor = "abierta" =>
            Cardinality({h \in Hilos : ACargo(h, x)}) = 1

\* The mutex thread is locked and no thread is left to open it: the server
\* accepts nobody any more.
Perdido ==
    thread /\ principal = "lock" /\ \A h \in Hilos : hilo[h].pc = "libre"

\* The accept loop only stays locked out for ever when a process of sac-cli
\* dies (as sac_rmdir makes it do) or a call of the kernel fails: no error
\* that the server answers ends a thread without its unlock.
TurniqueteConDueno == Perdido => muertos # {} \/ fallas > 0

\* sac_rmdir returns before the server has heard of it.  Still, the server
\* carries the requests out in an order that programs cannot tell from that of
\* their calls: what returned before a call began is done before it.
OrdenDeLlamadas ==
    \A x \in Conexiones :
        conexion[x].atendida => \A y \in conexion[x].previas : conexion[y].atendida

\* The process c has moved to the path e a directory, or one above it.
Renombro(c, e) ==
    \E z \in Conexiones : /\ conexion[z].op = "rename" /\ conexion[z].atendida
                          /\ De(z) = c /\ Bajo(e, conexion[z].nuevo)

\* A listing brings the server down only if another process of sac-cli has
\* removed or moved the directory, or one above it: under the path that is listed or,
\* when the process that lists has moved it there, maybe under an earlier one.
CaidaPorOtroCliente ==
    caido =>
        \E h \in Hilos, y \in Conexiones :
            LET x == hilo[h].con IN
            /\ x # Nadie /\ conexion[x].op = "readdir"
            /\ conexion[y].op \in Quita /\ conexion[y].atendida /\ De(y) # De(x)
            /\ \/ Bajo(conexion[x].dir, conexion[y].dir)
               \/ Renombro(De(x), conexion[x].dir)

\* A call that returns has the reply to its own request, carried out: none is
\* lost to a reset of its connection, except a removal, which waits for none,
\* and a write that the server took in parts.
RespuestaLlega ==
    ~caido =>
        \A x \in Conexiones :
            Volvio(x) /\ De(x) \notin muertos /\ conexion[x].op \notin {"rmdir", "write"}
                => conexion[x].atendida /\ conexion[x].respuesta \notin {"nada", "perdida"}

\* sac-cli keeps a descriptor open for each empty directory that it has listed,
\* and for nothing else.
FugaSoloAlListarVacio ==
    \A c \in Clientes \ muertos :
        Cardinality({x \in Conexiones : De(x) = c /\ conexion[x].cliente = "abierta"})
        = Cardinality({t \in HebrasDe(c) : hebra[t].pc # "libre"})
          + Cardinality({x \in Conexiones : /\ De(x) = c /\ Volvio(x)
                                            /\ conexion[x].respuesta = "vacia"})

\* A call waits for its reply with the mutex of its process locked, the server
\* waits for the client with the turnstile closed, and still every call
\* returns, unless the server dies or locks itself out.
LlamadasTerminan ==
    \A t \in Hebras : hebra[t].pc # "libre" ~> hebra[t].pc = "libre" \/ Perdido

=============================================================================
