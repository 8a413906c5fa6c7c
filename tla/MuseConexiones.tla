--------------------------- MODULE MuseConexiones ---------------------------
(***************************************************************************)
(* The connections of MUSE: main of src/UwUntu/MUSE/MUSE.c and the library *)
(* of its clients, src/UwUntu/MUSE/libMUSE.h.                              *)
(*                                                                         *)
(* One thread serves everybody: select says which descriptors are ready,   *)
(* accept puts a new client in a slot of client_socket, and each slot that *)
(* is ready is read.  The slot of a client that leaves is set to its own   *)
(* index, not to 0, so from then on select watches a descriptor with that  *)
(* number, whatever it is: the swap file, the listening socket, another    *)
(* client or nothing.                                                      *)
(*                                                                         *)
(* Muse models what the requests do.  Here a request only answers or not,  *)
(* opens a file (muse_map never closes it) or brings the server down.      *)
(* A request is one message.                                               *)
(***************************************************************************)
EXTENDS Naturals, Sequences, FiniteSetsExt

CONSTANTS
    MaxConexiones,      \* bound on the clients, which are numbered as they come
    max_clients,        \* how many slots there are (30 in the code)
    master_socket,      \* the descriptor that listens; standard input and the
                        \* files that are open at the start are below it
    UltimoFd,           \* the last descriptor that the server may have
    MaxPedidos,         \* bound on the requests after muse_init
    Cerrado,            \* what an unused descriptor refers to,
    Ajeno,              \* a file or a terminal,
    Escucha             \* and master_socket

Conexiones == 1 .. MaxConexiones
Fds        == 0 .. UltimoFd
Ranuras    == 0 .. max_clients - 1

ASSUME MuseConexionesConstantes ==
    /\ MaxConexiones \in Nat /\ MaxPedidos \in Nat
    /\ max_clients \in Nat \ {0}
    /\ master_socket \in Nat \ {0}
    /\ UltimoFd \in Nat /\ UltimoFd >= max_clients /\ UltimoFd >= master_socket
    /\ Cerrado # Ajeno /\ Cerrado # Escucha /\ Ajeno # Escucha
    /\ {Cerrado, Ajeno, Escucha} \cap Conexiones = {}

VARIABLES
    extremo,        \* extremo[f]: what the descriptor f of the server refers to
    client_socket,  \* the slots; 0 is a free one
    readfds,        \* the set that select left
    activity,       \* what select returned: "listos" or "error"
    lugar,          \* where main is: "select", "accept" or "recorre"
    turno,          \* the index of the loop over the slots
    caido,          \* the process of the server ended
    cola,           \* the connections that wait for accept
    conexion,       \* conexion[k]: the k-th client, and what it sent
    pedidos         \* how many requests were made

vars == <<extremo, client_socket, readfds, activity, lugar, turno, caido, cola,
          conexion, pedidos>>
bucle == <<readfds, activity, lugar, turno>>

-----------------------------------------------------------------------------
\* muse_init, and the other calls by what they do to the connection: muse_get
\* may end its process, muse_free and muse_close have no answer, muse_map
\* opens the file, unless it is mapped already.
PedidosDe == {"get", "avisa", "map"}

Ausente == [estado |-> "no", entrada |-> <<>>, espera |-> FALSE]
Cortada == [estado |-> "fin", entrada |-> <<>>, espera |-> FALSE]

Init ==
    /\ extremo = [f \in Fds |-> IF f < master_socket THEN Ajeno
                                ELSE IF f = master_socket THEN Escucha ELSE Cerrado]
    /\ client_socket = [i \in Ranuras |-> 0]
    /\ readfds = {} /\ activity = "listos" /\ lugar = "select" /\ turno = 0
    /\ caido = FALSE /\ cola = <<>>
    /\ conexion = [k \in Conexiones |-> Ausente]
    /\ pedidos = 0

\* The process of the server ends: nothing of it is left, and the calls of its
\* clients return.
Caer ==
    /\ caido' = TRUE
    /\ extremo' = [f \in Fds |-> Cerrado]
    /\ client_socket' = [i \in Ranuras |-> 0]
    /\ readfds' = {} /\ activity' = "listos" /\ lugar' = "select" /\ turno' = 0
    /\ cola' = <<>>
    /\ conexion' = [k \in Conexiones |->
          IF conexion[k] = Ausente THEN Ausente ELSE Cortada]
    /\ UNCHANGED pedidos

\* What the kernel knows of a descriptor that select is asked about.
Listo(f) ==
    IF extremo[f] = Escucha THEN cola # <<>>
    ELSE extremo[f] \in Conexiones /\
         (conexion[extremo[f]].entrada # <<>> \/ conexion[extremo[f]].estado # "viva")

Vigilados == ({master_socket} \cup {client_socket[i] : i \in Ranuras}) \ {0}

\* select.  A file is ready at any time.  With a descriptor that is not open
\* it fails, which is only reported: readfds stays as it was filled, and the
\* rest of the loop takes every descriptor for a ready one.
Seleccionar ==
    /\ ~caido /\ lugar = "select"
    /\ \/ /\ \E f \in Vigilados : extremo[f] = Cerrado
          /\ readfds' = Vigilados /\ activity' = "error"
       \/ /\ \A f \in Vigilados : extremo[f] # Cerrado
          /\ \E A \in SUBSET {f \in Vigilados : extremo[f] = Ajeno} :
                readfds' = A \cup {f \in Vigilados : Listo(f)}
          /\ readfds' # {} /\ activity' = "listos"
    /\ lugar' = IF master_socket \in readfds' THEN "accept" ELSE "recorre"
    /\ turno' = 0
    /\ UNCHANGED <<extremo, client_socket, caido, cola, conexion, pedidos>>

\* The kernel gives the lowest number that is free.  With none, accept and
\* open fail, and the server ends.
FdsLibres == {f \in Fds : extremo[f] = Cerrado}
FdLibre   == Min(FdsLibres)

\* The first free slot takes the new client; with none, the client is
\* connected and forgotten.
Asignadas_Todas(fd) ==
    [i \in Ranuras |-> IF client_socket[i] = 0 THEN fd ELSE client_socket[i]]
Asignadas(fd) ==
    LET libres == {i \in Ranuras : client_socket[i] = 0}
    IN IF libres = {} THEN client_socket
       ELSE [client_socket EXCEPT ![Min(libres)] = fd]

\* accept blocks while nobody waits.  A failure ends the server.
Aceptar ==
    /\ ~caido /\ lugar = "accept"
    /\ \/ /\ extremo[master_socket] # Escucha \/ (cola # <<>> /\ FdsLibres = {})
          /\ Caer
       \/ /\ extremo[master_socket] = Escucha /\ cola # <<>> /\ FdsLibres # {}
          /\ extremo' = [extremo EXCEPT ![FdLibre] = Head(cola)]
          /\ client_socket' = Asignadas(FdLibre)
          /\ cola' = Tail(cola)
          /\ lugar' = "recorre"
          /\ UNCHANGED <<readfds, activity, turno, caido, conexion, pedidos>>

\* The slots of this round that the loop has yet to read.
Pendientes_SinPrimera == {i \in Ranuras : i >= turno /\ i > 0 /\ client_socket[i] \in readfds}
Pendientes == {i \in Ranuras : i >= turno /\ client_socket[i] \in readfds}

\* What the round has found out is not looked at again.
FinDeVuelta ==
    /\ ~caido /\ lugar = "recorre" /\ Pendientes = {}
    /\ lugar' = "select" /\ readfds' = {} /\ activity' = "listos" /\ turno' = 0
    /\ UNCHANGED <<extremo, client_socket, caido, cola, conexion, pedidos>>

EnTurno(i) == ~caido /\ lugar = "recorre" /\ Pendientes # {} /\ i = Min(Pendientes)
Sigue(i)   == turno' = i + 1 /\ UNCHANGED <<readfds, activity, lugar, caido, cola, pedidos>>

\* recibirInt read a 0.
Cerrar_AlReves(i) ==
    /\ extremo' = [extremo EXCEPT ![i] = Cerrado]
    /\ client_socket' = [client_socket EXCEPT ![i] = i]
Cerrar_SinMarcar(i) ==
    /\ extremo' = [extremo EXCEPT ![client_socket[i]] = Cerrado]
    /\ UNCHANGED client_socket
Cerrar(i) ==
    /\ extremo' = [extremo EXCEPT ![client_socket[i]] = Cerrado]
    /\ client_socket' = [client_socket EXCEPT ![i] = i]

\* A request of the client k.  Muse tells which of them bring the server down.
\* A muse_get that fails sends the bytes after the error, and the library ends
\* its process before it reads them, which resets the connection; an answer to
\* a process that is gone does that too, and a second send then ends the
\* server with SIGPIPE.
Atender(i) ==
    LET k == extremo[client_socket[i]]
        pedido == Head(conexion[k].entrada)
    IN /\ EnTurno(i)
       /\ k \in Conexiones /\ conexion[k].entrada # <<>>
       /\ \/ pedido # "init" /\ Caer
          \/ /\ \E estado \in IF pedido = "avisa" THEN {conexion[k].estado}
                               ELSE IF conexion[k].estado = "fin" THEN {"reset"}
                               ELSE IF pedido = "get" THEN {"viva", "reset"}
                               ELSE {"viva"} :
                   conexion' = [conexion EXCEPT ![k] =
                      [estado  |-> estado,
                       entrada |-> Tail(@.entrada),
                       espera  |-> @.espera /\ pedido = "avisa"]]
             /\ \/ extremo' = extremo
                \/ /\ pedido = "map" /\ FdsLibres # {}
                   /\ extremo' = [extremo EXCEPT ![FdLibre] = Ajeno]
             /\ UNCHANGED client_socket
             /\ Sigue(i)

\* The client has closed: recv returns 0.
Despedir(i) ==
    LET k == extremo[client_socket[i]]
    IN /\ EnTurno(i)
       /\ k \in Conexiones
       /\ conexion[k].entrada = <<>> /\ conexion[k].estado = "fin"
       /\ Cerrar(i)
       /\ UNCHANGED conexion
       /\ Sigue(i)

\* recv fails: there is no connection behind the descriptor, or it was reset.
\* recibirInt then returns a variable that nobody set: a 0 closes the
\* descriptor, a number that is no request does nothing, and a request with
\* what is read after it in the same way may bring the server down.
Equivocarse(i) ==
    LET k == extremo[client_socket[i]]
        falla == k \in Conexiones /\ conexion[k].entrada = <<>> /\ conexion[k].estado = "reset"
    IN /\ EnTurno(i)
       /\ k \notin Conexiones \/ falla
       /\ \/ Caer
          \/ /\ Cerrar(i) \/ UNCHANGED <<extremo, client_socket>>
             /\ conexion' = IF falla THEN [conexion EXCEPT ![k].estado = "fin"] ELSE conexion
             /\ Sigue(i)

PasoServidor ==
    \/ Seleccionar \/ Aceptar \/ FinDeVuelta
    \/ \E i \in Ranuras : Atender(i) \/ Despedir(i) \/ Equivocarse(i)

-----------------------------------------------------------------------------
\* The library.  muse_init connects, sends and waits.
muse_init(k) ==
    /\ ~caido
    /\ conexion[k] = Ausente
    /\ \A j \in Conexiones : j < k => conexion[j] # Ausente
    /\ conexion' = [conexion EXCEPT ![k] =
          [estado |-> "viva", entrada |-> <<"init">>, espera |-> TRUE]]
    /\ cola' = Append(cola, k)
    /\ UNCHANGED <<extremo, client_socket, bucle, caido, pedidos>>

\* The other calls; muse_free and muse_close wait for nothing.
Llamar(k, pedido) ==
    /\ ~caido
    /\ conexion[k].estado = "viva" /\ ~conexion[k].espera
    /\ pedidos < MaxPedidos /\ pedidos' = pedidos + 1
    /\ conexion' = [conexion EXCEPT ![k].entrada = Append(@, pedido),
                                    ![k].espera = (pedido # "avisa")]
    /\ UNCHANGED <<extremo, client_socket, bucle, caido, cola>>

\* The process ends, between two calls or killed in one.
Salir(k) ==
    /\ ~caido
    /\ conexion[k].estado = "viva"
    /\ conexion' = [conexion EXCEPT ![k].estado = "fin", ![k].espera = FALSE]
    /\ UNCHANGED <<extremo, client_socket, bucle, caido, cola, pedidos>>

-----------------------------------------------------------------------------
Next ==
    \/ PasoServidor
    \/ \E k \in Conexiones :
          \/ muse_init(k) \/ Salir(k)
          \/ \E pedido \in PedidosDe : Llamar(k, pedido)

Spec == Init /\ [][Next]_vars

\* The server goes on whenever it does not sleep; clients owe nothing.
FairSpec == Spec /\ WF_vars(PasoServidor)

-----------------------------------------------------------------------------
\* Every variable has its type.
TypeOK ==
    /\ extremo \in [Fds -> Conexiones \cup {Cerrado, Ajeno, Escucha}]
    /\ client_socket \in [Ranuras -> Fds]
    /\ readfds \subseteq Fds \ {0}
    /\ activity \in {"listos", "error"}
    /\ lugar \in {"select", "accept", "recorre"} /\ turno \in 0 .. max_clients
    /\ caido \in BOOLEAN
    /\ cola \in Seq(Conexiones)
    /\ conexion \in [Conexiones -> [estado : {"no", "viva", "fin", "reset"},
                                    entrada : Seq({"init"} \cup PedidosDe),
                                    espera : BOOLEAN]]
    /\ pedidos \in 0 .. MaxPedidos

\* The slot i was left by its client.
Vencida(i) == i # 0 /\ client_socket[i] = i

\* Two slots only name one descriptor if its number is that of a slot that its
\* client has left: the server never reads a client twice just because the
\* kernel has given a number again.
UnaRanuraPorCliente ==
    \A i, j \in Ranuras :
        i # j /\ client_socket[i] = client_socket[j] /\ client_socket[i] # 0
            => client_socket[i] \in Ranuras /\ Vencida(client_socket[i])

\* A slot names a client, or else a number that is that of a slot that was left.
RanurasNombran ==
    \A i \in Ranuras :
        LET f == client_socket[i]
        IN f # 0 => extremo[f] \in Conexiones \/ (f \in Ranuras /\ Vencida(f))

\* A connection has one descriptor or one place in the queue.  Descriptor 0,
\* which marks a free slot, is never closed.
DescriptoresOK ==
    /\ extremo[0] = Ajeno
    /\ \A f, g \in Fds : extremo[f] = extremo[g] /\ extremo[f] \in Conexiones => f = g
    /\ \A n, m \in 1 .. Len(cola) : cola[n] = cola[m] => n = m
    /\ \A n \in 1 .. Len(cola), f \in Fds : extremo[f] # cola[n]
    /\ \A k \in Conexiones :
          conexion[k].estado = "no" =>
              /\ \A f \in Fds : extremo[f] # k
              /\ \A n \in 1 .. Len(cola) : cola[n] # k

\* The inductive invariant.
IInv ==
    /\ TypeOK
    /\ ~caido => UnaRanuraPorCliente /\ RanurasNombran /\ DescriptoresOK

\* Slots that are left are lost, but the first max_clients clients that are
\* accepted all have one.
PrimerosConRanura ==
    \A k \in 1 .. Min({max_clients, MaxConexiones}), f \in Fds :
        extremo[f] = k => \E i \in Ranuras : client_socket[i] = f

\* However many stale slots are read, the server closes no client that has
\* not left.
SoloCierraAlQueSeFue ==
    \A k \in Conexiones :
        ~caido /\ conexion[k].estado = "viva" =>
            \/ \E f \in Fds : extremo[f] = k
            \/ \E n \in 1 .. Len(cola) : cola[n] = k

\* A slot that was left names a client, or made select fail.
Trabado ==
    \E i \in Ranuras : Vencida(i) /\ (activity = "error" \/ extremo[i] \in Conexiones)

\* The only thread sleeps where it should not: in accept with nobody waiting,
\* or in recv of a client that has sent nothing.
Dormido ==
    \/ lugar = "accept" /\ extremo[master_socket] = Escucha /\ cola = <<>>
    \/ /\ lugar = "recorre" /\ Pendientes # {}
       /\ LET k == extremo[client_socket[Min(Pendientes)]]
          IN k \in Conexiones /\ conexion[k].estado = "viva" /\ conexion[k].entrada = <<>>

\* One client never makes the others wait, unless somebody left a slot whose
\* number is that of a client or of nothing.
SoloDuermeSiTrabado == ~caido /\ Dormido => Trabado

\* The client k was accepted when no slot was free.
SinRanura(k) ==
    \E f \in Fds : extremo[f] = k /\ \A i \in Ranuras : client_socket[i] # f

\* Every call returns, unless the server ends, sleeps for a stale slot or has
\* none for the client: again and again nobody else waits (clients and calls
\* are bounded, so a call that never returned would make this false).
LlamadasVuelven ==
    []<>(\A k \in Conexiones :
            ~conexion[k].espera \/ caido \/ Trabado \/ SinRanura(k))

=============================================================================
