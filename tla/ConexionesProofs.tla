-------------------------- MODULE ConexionesProofs --------------------------
(***************************************************************************)
(* What holds of the connections of MUSE for any number of slots, of       *)
(* clients, of descriptors and of requests.  The slots are read by number, *)
(* so the proofs are about what a number that is in a slot can refer to:   *)
(* a client, or whatever is behind the index of a slot that was left.      *)
(***************************************************************************)
EXTENDS MuseConexiones, Minimos

Objetos == Conexiones \cup {Cerrado, Ajeno, Escucha}
Estados == {"no", "viva", "fin", "reset"}
Clientela == [Conexiones -> [estado : Estados, entrada : Seq({"init"} \cup PedidosDe),
                             espera : BOOLEAN]]

\* The number f is the index of a slot that was left.
Caducado(cs, f) == f \in Ranuras /\ f # 0 /\ cs[f] = f

\* The part of the invariant about the tables: e of descriptors, cs of slots,
\* q of connections that wait, c of clients.
Tablas(e, cs, q, c) ==
  /\ e \in [Fds -> Objetos] /\ cs \in [Ranuras -> Fds]
  /\ q \in Seq(Conexiones) /\ c \in Clientela
  /\ \A i, j \in Ranuras : i # j /\ cs[i] = cs[j] /\ cs[i] # 0 => Caducado(cs, cs[i])
  /\ \A i \in Ranuras : cs[i] # 0 => e[cs[i]] \in Conexiones \/ Caducado(cs, cs[i])
  /\ e[0] = Ajeno
  /\ \A f, g \in Fds : e[f] = e[g] /\ e[f] \in Conexiones => f = g
  /\ \A n, m \in 1 .. Len(q) : q[n] = q[m] => n = m
  /\ \A n \in 1 .. Len(q), f \in Fds : e[f] # q[n]
  /\ \A k \in Conexiones : c[k].estado = "no" =>
       /\ \A f \in Fds : e[f] # k
       /\ \A n \in 1 .. Len(q) : q[n] # k

\* The part about main.
BucleOK ==
  /\ readfds \subseteq Fds \ {0} /\ activity \in {"listos", "error"}
  /\ lugar \in {"select", "accept", "recorre"} /\ turno \in 0 .. max_clients
  /\ caido \in BOOLEAN /\ pedidos \in 0 .. MaxPedidos

\* The invariant of the runs, cut in two.
Partes ==
  /\ BucleOK
  /\ extremo \in [Fds -> Objetos] /\ client_socket \in [Ranuras -> Fds]
  /\ cola \in Seq(Conexiones) /\ conexion \in Clientela
  /\ ~caido => Tablas(extremo, client_socket, cola, conexion)

\* What the numbers are.
LEMMA Numeros ==
  /\ UltimoFd \in Nat /\ max_clients \in Nat \ {0} /\ master_socket \in Nat \ {0}
  /\ MaxConexiones \in Nat /\ MaxPedidos \in Nat
  /\ max_clients <= UltimoFd /\ master_socket <= UltimoFd
  BY MuseConexionesConstantes, Zenon

LEMMA Constantes ==
  /\ Ranuras \subseteq Fds /\ 0 \in Ranuras /\ 0 \in Fds
  /\ Fds \subseteq Nat /\ Conexiones \subseteq Nat /\ master_socket \in Fds \ {0}
  /\ \A i \in Ranuras : i \in Nat /\ i + 1 \in 0 .. max_clients
  BY Numeros DEF Ranuras, Fds, Conexiones

LEMMA NoSonClientes ==
  /\ Cerrado \notin Conexiones /\ Ajeno \notin Conexiones /\ Escucha \notin Conexiones
  /\ Cerrado # Ajeno /\ Cerrado # Escucha /\ Ajeno # Escucha
  BY MuseConexionesConstantes, Zenon

\* The invariant of the runs, by these parts.
LEMMA EnPartes == IInv <=> Partes
  <1>1. /\ UnaRanuraPorCliente <=>
             \A i, j \in Ranuras : i # j /\ client_socket[i] = client_socket[j]
                 /\ client_socket[i] # 0 => Caducado(client_socket, client_socket[i])
        /\ RanurasNombran <=>
             \A i \in Ranuras : client_socket[i] # 0 =>
                 \/ extremo[client_socket[i]] \in Conexiones
                 \/ Caducado(client_socket, client_socket[i])
    BY Zenon DEF UnaRanuraPorCliente, RanurasNombran, Vencida, Caducado
  <1>2. TypeOK <=> /\ BucleOK
                   /\ extremo \in [Fds -> Objetos] /\ client_socket \in [Ranuras -> Fds]
                   /\ cola \in Seq(Conexiones) /\ conexion \in Clientela
    BY DEF TypeOK, BucleOK, Objetos, Clientela, Estados
  <1>3. QED
    BY <1>1, <1>2, Zenon DEF IInv, Partes, Tablas, DescriptoresOK

(***************************************************************************)
(* What happens to the tables.                                             *)
(***************************************************************************)

\* A slot is left: its descriptor is closed and the slot gets its own index.
LEMMA TrasCerrar ==
  ASSUME NEW e, NEW cs, NEW q, NEW c, Tablas(e, cs, q, c), NEW i \in Ranuras, cs[i] # 0,
         NEW e2, NEW cs2,
         e2 = [e EXCEPT ![cs[i]] = Cerrado], cs2 = [cs EXCEPT ![i] = i]
  PROVE  Tablas(e2, cs2, q, c)
  <1>1. /\ cs[i] \in Fds
        /\ e2 \in [Fds -> Objetos] /\ cs2 \in [Ranuras -> Fds]
        /\ e2[cs[i]] = Cerrado /\ \A f \in Fds : f # cs[i] => e2[f] = e[f]
        /\ cs2[i] = i /\ \A j \in Ranuras : j # i => cs2[j] = cs[j]
    BY Constantes DEF Tablas, Objetos
  <1>2. \A f : Caducado(cs, f) => Caducado(cs2, f)
    BY <1>1 DEF Caducado
  <1>3. i # 0 => Caducado(cs2, i)
    BY <1>1 DEF Caducado
  <1>4. ASSUME NEW j \in Ranuras, NEW k \in Ranuras, j # k, cs2[j] = cs2[k], cs2[j] # 0
        PROVE  Caducado(cs2, cs2[j])
    <2>1. CASE j = i \/ k = i
      BY <1>1, <1>3, <1>4, <2>1
    <2>2. CASE j # i /\ k # i
      <3>1. cs2[j] = cs[j] /\ cs[j] = cs[k] /\ cs[j] # 0
        BY <1>1, <1>4, <2>2
      <3>2. Caducado(cs, cs[j])
        BY <1>4, <3>1, Zenon DEF Tablas
      <3>3. QED
        BY <1>2, <3>1, <3>2
    <2>3. QED
      BY <2>1, <2>2
  <1>5. \A j \in Ranuras : cs2[j] # 0 => e2[cs2[j]] \in Conexiones \/ Caducado(cs2, cs2[j])
    BY <1>1, <1>2, <1>3, ZenonT(60) DEF Tablas
  <1>6. /\ e2[0] = Ajeno
        /\ \A f, g \in Fds : e2[f] = e2[g] /\ e2[f] \in Conexiones => f = g
        /\ \A k \in Conexiones, f \in Fds : e2[f] = k => e[f] = k
    BY <1>1, Constantes, NoSonClientes DEF Tablas
  <1>7. \A n \in 1 .. Len(q) : q[n] \in Conexiones
    BY DEF Tablas
  <1>8. /\ \A n \in 1 .. Len(q), f \in Fds : e2[f] # q[n]
        /\ \A k \in Conexiones : c[k].estado = "no" => \A f \in Fds : e2[f] # k
    BY <1>6, <1>7, Zenon DEF Tablas
  <1>9. QED
    BY <1>1, <1>4, <1>5, <1>6, <1>8, Zenon DEF Tablas

\* The first connection of the queue gets a descriptor, and maybe a free slot.
LEMMA TrasAceptar ==
  ASSUME NEW e, NEW cs, NEW q, NEW c, Tablas(e, cs, q, c), q # <<>>,
         NEW fd \in Fds, e[fd] = Cerrado, NEW e2, NEW cs2,
         e2 = [e EXCEPT ![fd] = Head(q)],
         cs2 = cs \/ \E i \in Ranuras : cs[i] = 0 /\ cs2 = [cs EXCEPT ![i] = fd]
  PROVE  Tablas(e2, cs2, Tail(q), c)
  <1>1. /\ Head(q) = q[1] /\ 1 \in 1 .. Len(q) /\ q[1] \in Conexiones
        /\ Tail(q) \in Seq(Conexiones)
        /\ Len(Tail(q)) = Len(q) - 1 /\ Len(q) \in Nat
        /\ \A n \in 1 .. Len(q) - 1 : Tail(q)[n] = q[n + 1] /\ n + 1 \in 1 .. Len(q)
    BY DEF Tablas
  <1>2. /\ e2 \in [Fds -> Objetos] /\ e2[fd] = q[1]
        /\ \A f \in Fds : f # fd => e2[f] = e[f]
    BY <1>1 DEF Tablas, Objetos
  <1>3. fd # 0
    BY NoSonClientes DEF Tablas
  <1>4. /\ cs2 \in [Ranuras -> Fds]
        /\ \A i \in Ranuras : cs[i] # 0 => cs2[i] = cs[i]
        /\ \A i \in Ranuras : cs2[i] # cs[i] => cs2[i] = fd
        /\ \A i, j \in Ranuras : cs2[i] # cs[i] /\ cs2[j] # cs[j] => i = j
    BY DEF Tablas
  <1>5. \A f : Caducado(cs, f) => Caducado(cs2, f)
    BY <1>4 DEF Caducado
  <1>6. \A i \in Ranuras : cs[i] = fd => Caducado(cs, fd)
    BY <1>3, NoSonClientes DEF Tablas
  <1>7. ASSUME NEW i \in Ranuras, NEW j \in Ranuras, i # j, cs2[i] = cs2[j], cs2[i] # 0
        PROVE  Caducado(cs2, cs2[i])
    <2>1. CASE cs2[i] = cs[i] /\ cs2[j] = cs[j]
      BY <1>5, <1>7, <2>1 DEF Tablas
    <2>2. CASE cs2[i] # cs[i] /\ cs2[j] = cs[j]
      BY <1>4, <1>5, <1>6, <1>7, <2>2
    <2>3. CASE cs2[j] # cs[j] /\ cs2[i] = cs[i]
      BY <1>4, <1>5, <1>6, <1>7, <2>3
    <2>4. QED
      BY <1>4, <1>7, <2>1, <2>2, <2>3
  <1>8. ASSUME NEW i \in Ranuras, cs2[i] # 0
        PROVE  e2[cs2[i]] \in Conexiones \/ Caducado(cs2, cs2[i])
    <2>1. CASE cs2[i] = fd
      BY <1>1, <1>2, <2>1
    <2>2. CASE cs2[i] # fd
      <3>1. cs2[i] = cs[i] /\ cs2[i] \in Fds /\ e2[cs2[i]] = e[cs[i]]
        BY <1>2, <1>4, <2>2
      <3>2. QED
        BY <1>5, <1>8, <3>1 DEF Tablas
    <2>3. QED
      BY <2>1, <2>2
  <1>9. e2[0] = Ajeno
    BY <1>2, <1>3, Constantes DEF Tablas
  <1>10. \A f, g \in Fds : e2[f] = e2[g] /\ e2[f] \in Conexiones => f = g
    BY <1>1, <1>2 DEF Tablas
  <1>11. /\ \A n, m \in 1 .. Len(Tail(q)) : Tail(q)[n] = Tail(q)[m] => n = m
         /\ \A n \in 1 .. Len(Tail(q)), f \in Fds : e2[f] # Tail(q)[n]
    <2>1. \A n, m \in 1 .. Len(q) - 1 : Tail(q)[n] = Tail(q)[m] => n = m
      <3> TAKE n, m \in 1 .. Len(q) - 1
      <3>1. /\ n + 1 \in 1 .. Len(q) /\ m + 1 \in 1 .. Len(q)
            /\ Tail(q)[n] = q[n + 1] /\ Tail(q)[m] = q[m + 1]
        BY <1>1
      <3>2. q[n + 1] = q[m + 1] => n + 1 = m + 1
        BY <3>1 DEF Tablas
      <3>3. QED
        BY <1>1, <3>1, <3>2
    <2>2. \A n \in 1 .. Len(q) - 1, f \in Fds : e2[f] # Tail(q)[n]
      <3> TAKE n \in 1 .. Len(q) - 1, f \in Fds
      <3>1. n + 1 \in 1 .. Len(q) /\ n + 1 # 1 /\ Tail(q)[n] = q[n + 1]
        BY <1>1
      <3>2. q[n + 1] # q[1] /\ e[f] # q[n + 1]
        BY <1>1, <3>1 DEF Tablas
      <3>3. QED
        BY <1>2, <3>1, <3>2
    <2>3. QED
      BY <1>1, <2>1, <2>2
  <1>12. \A k \in Conexiones : c[k].estado = "no" =>
            /\ \A f \in Fds : e2[f] # k
            /\ \A n \in 1 .. Len(Tail(q)) : Tail(q)[n] # k
    BY <1>1, <1>2 DEF Tablas
  <1>13. QED
    BY <1>1, <1>2, <1>4, <1>7, <1>8, <1>9, <1>10, <1>11, <1>12 DEF Tablas

\* muse_map opens a file.
LEMMA TrasAbrir ==
  ASSUME NEW e, NEW cs, NEW q, NEW c, Tablas(e, cs, q, c),
         NEW fd \in Fds, e[fd] = Cerrado, NEW e2, e2 = [e EXCEPT ![fd] = Ajeno]
  PROVE  Tablas(e2, cs, q, c)
  <1>1. /\ e2 \in [Fds -> Objetos] /\ e2[fd] = Ajeno
        /\ \A f \in Fds : f # fd => e2[f] = e[f]
    BY DEF Tablas, Objetos
  <1>2. \A f \in Fds : \A k \in Conexiones : e2[f] = k <=> e[f] = k
    BY <1>1, NoSonClientes
  <1>3. \A n \in 1 .. Len(q) : q[n] \in Conexiones
    BY DEF Tablas
  <1>4. e2[0] = Ajeno
    BY <1>1, Constantes DEF Tablas
  <1>5. QED
    BY <1>1, <1>2, <1>3, <1>4 DEF Tablas

\* Clients send, are answered and leave.
LEMMA TrasHablar ==
  ASSUME NEW e, NEW cs, NEW q, NEW c, Tablas(e, cs, q, c), NEW c2 \in Clientela,
         \A k \in Conexiones : c2[k].estado = "no" => c[k].estado = "no"
  PROVE  Tablas(e, cs, q, c2)
  BY DEF Tablas

\* A client comes.
LEMMA TrasLlegar ==
  ASSUME NEW e, NEW cs, NEW q, NEW c, Tablas(e, cs, q, c), NEW c2 \in Clientela,
         NEW k \in Conexiones, c[k].estado = "no", c2[k].estado # "no",
         \A j \in Conexiones : j # k => c2[j] = c[j]
  PROVE  Tablas(e, cs, Append(q, k), c2)
  <1>1. /\ Append(q, k) \in Seq(Conexiones) /\ Len(q) \in Nat
        /\ Len(Append(q, k)) = Len(q) + 1 /\ Append(q, k)[Len(q) + 1] = k
        /\ \A n \in 1 .. Len(q) : Append(q, k)[n] = q[n]
        /\ \A n \in 1 .. Len(q) + 1 : n \in 1 .. Len(q) \/ n = Len(q) + 1
    BY DEF Tablas
  <1>2. /\ \A n \in 1 .. Len(q) : q[n] # k
        /\ \A f \in Fds : e[f] # k
    BY DEF Tablas
  <1>3. \A n, m \in 1 .. Len(q) + 1 : Append(q, k)[n] = Append(q, k)[m] => n = m
    BY <1>1, <1>2 DEF Tablas
  <1>4. \A n \in 1 .. Len(q) + 1, f \in Fds : e[f] # Append(q, k)[n]
    BY <1>1, <1>2 DEF Tablas
  <1>5. \A j \in Conexiones : c2[j].estado = "no" =>
           /\ \A f \in Fds : e[f] # j
           /\ \A n \in 1 .. Len(q) + 1 : Append(q, k)[n] # j
    BY <1>1 DEF Tablas
  <1> HIDE DEF Caducado
  <1>6. QED
    BY <1>1, <1>3, <1>4, <1>5 DEF Tablas

(***************************************************************************)
(* The steps keep the tables.                                              *)
(***************************************************************************)
LEMMA DescriptorLibre ==
  ASSUME FdsLibres # {}
  PROVE  FdLibre \in Fds /\ extremo[FdLibre] = Cerrado
  <1>1. FdsLibres \in SUBSET Nat
    BY Constantes DEF FdsLibres
  <1>2. Min(FdsLibres) \in FdsLibres
    BY <1>1, PrimeroEsta
  <1>3. QED
    BY <1>2 DEF FdLibre, FdsLibres

\* The first free slot, if there is one, gets the descriptor.
LEMMA RanuraLibre ==
  ASSUME NEW fd
  PROVE  \/ Asignadas(fd) = client_socket
         \/ \E i \in Ranuras : /\ client_socket[i] = 0
                               /\ Asignadas(fd) = [client_socket EXCEPT ![i] = fd]
  <1> DEFINE libres == {i \in Ranuras : client_socket[i] = 0}
  <1>1. CASE libres = {}
    BY <1>1 DEF Asignadas
  <1>2. CASE libres # {}
    <2>1. libres \in SUBSET Nat
      BY Constantes
    <2>2. Min(libres) \in libres
      BY <1>2, <2>1, PrimeroEsta
    <2>3. Asignadas(fd) = [client_socket EXCEPT ![Min(libres)] = fd]
      BY <1>2 DEF Asignadas
    <2>4. QED
      BY <2>2, <2>3
  <1>3. QED
    BY <1>1, <1>2

\* The slot that is read is one that select left, and not a free one.
LEMMA RanuraLeida ==
  ASSUME Partes, NEW i \in Ranuras, EnTurno(i)
  PROVE  /\ ~caido /\ lugar = "recorre" /\ i \in Pendientes /\ i \in Nat
         /\ client_socket[i] \in Fds \ {0}
  <1>1. Pendientes \in SUBSET Nat
    BY Constantes DEF Pendientes
  <1>2. Min(Pendientes) \in Pendientes
    BY <1>1, PrimeroEsta DEF EnTurno
  <1>3. i \in Pendientes
    BY <1>2 DEF EnTurno
  <1>4. QED
    BY <1>1, <1>3 DEF Partes, EnTurno, Pendientes, BucleOK

LEMMA TiposIniciales == Init => Partes
  <1> SUFFICES ASSUME Init PROVE Partes
    OBVIOUS
  <1>1. /\ extremo \in [Fds -> Objetos] /\ client_socket \in [Ranuras -> Fds]
        /\ \A f \in Fds : extremo[f] \notin Conexiones
        /\ extremo[0] = Ajeno /\ \A i \in Ranuras : client_socket[i] = 0
    BY Constantes, Numeros, NoSonClientes DEF Init, Objetos, Fds
  <1>2. conexion \in Clientela
    BY DEF Init, Ausente, Clientela, Estados
  <1>3. cola = <<>> /\ cola \in Seq(Conexiones)
    BY DEF Init
  <1>4. Tablas(extremo, client_socket, cola, conexion)
    BY <1>1, <1>2, <1>3 DEF Tablas
  <1>5. BucleOK
    <2>1. /\ caido \in BOOLEAN /\ readfds = {} /\ activity = "listos" /\ lugar = "select"
          /\ turno = 0 /\ pedidos = 0
      BY Zenon DEF Init
    <2>2. QED
      BY <2>1, Numeros DEF BucleOK
  <1>6. QED
    BY <1>1, <1>2, <1>3, <1>4, <1>5 DEF Partes

LEMMA PasoCaer ==
  ASSUME Partes, Caer
  PROVE  Partes' /\ caido'
  <1>1. extremo' \in [Fds -> Objetos] /\ client_socket' \in [Ranuras -> Fds]
    BY Constantes DEF Caer, Objetos
  <1>2. conexion' \in Clientela
    <2>1. conexion' = [k \in Conexiones |-> IF conexion[k] = Ausente THEN Ausente ELSE Cortada]
      BY Zenon DEF Caer
    <2>2. QED
      BY <2>1 DEF Clientela, Ausente, Cortada, Estados
  <1>4. cola' \in Seq(Conexiones) /\ caido' = TRUE
    BY DEF Caer
  <1>5. BucleOK'
    <2>1. /\ caido' = TRUE /\ readfds' = {} /\ activity' = "listos" /\ lugar' = "select"
          /\ turno' = 0 /\ pedidos' = pedidos
      BY Zenon DEF Caer
    <2>2. pedidos \in 0 .. MaxPedidos
      BY DEF Partes, BucleOK
    <2>3. QED
      BY <2>1, <2>2, Numeros DEF BucleOK
  <1>6. QED
    BY <1>1, <1>2, <1>4, <1>5 DEF Partes

LEMMA PasoSeleccionar ==
  ASSUME Partes, Seleccionar
  PROVE  Partes'
  <1>1. Vigilados \subseteq Fds \ {0}
    <2>1. \A i \in Ranuras : client_socket[i] \in Fds
      BY DEF Partes
    <2>2. QED
      BY <2>1, Constantes DEF Vigilados
  <1>2. readfds' \subseteq Vigilados
    BY DEF Seleccionar
  <1>3. BucleOK'
    BY <1>1, <1>2, Numeros DEF Partes, Seleccionar, BucleOK
  <1>4. UNCHANGED <<extremo, client_socket, caido, cola, conexion>>
    BY DEF Seleccionar
  <1>5. QED
    BY <1>3, <1>4 DEF Partes

LEMMA PasoAceptar ==
  ASSUME Partes, Aceptar
  PROVE  Partes'
  <1>1. CASE Caer
    BY <1>1, PasoCaer
  <1>2. CASE ~Caer
    <2>1. /\ ~caido /\ caido' = caido /\ cola # <<>> /\ FdsLibres # {}
          /\ extremo' = [extremo EXCEPT ![FdLibre] = Head(cola)]
          /\ client_socket' = Asignadas(FdLibre) /\ cola' = Tail(cola)
          /\ lugar' = "recorre"
          /\ UNCHANGED <<readfds, activity, turno, conexion, pedidos>>
      BY <1>2, Zenon DEF Aceptar
    <2>2. FdLibre \in Fds /\ extremo[FdLibre] = Cerrado
      BY <2>1, DescriptorLibre
    <2>3. Tablas(extremo, client_socket, cola, conexion)
      BY <2>1 DEF Partes
    <2>4. Tablas(extremo', client_socket', cola', conexion)
      BY <2>1, <2>2, <2>3, RanuraLibre, TrasAceptar
    <2>5. BucleOK'
      BY <2>1 DEF Partes, BucleOK
    <2>6. /\ extremo' \in [Fds -> Objetos] /\ client_socket' \in [Ranuras -> Fds]
          /\ cola' \in Seq(Conexiones) /\ conexion' \in Clientela
      BY <2>1, <2>4, Zenon DEF Tablas
    <2>7. QED
      BY <2>1, <2>4, <2>5, <2>6, Zenon DEF Partes
  <1>3. QED
    BY <1>1, <1>2

LEMMA PasoFinDeVuelta ==
  ASSUME Partes, FinDeVuelta
  PROVE  Partes'
  <1>1. /\ UNCHANGED <<extremo, client_socket, caido, cola, conexion, pedidos>>
        /\ lugar' = "select" /\ readfds' = {} /\ activity' = "listos" /\ turno' = 0
    BY Zenon DEF FinDeVuelta
  <1>2. BucleOK'
    BY <1>1, Numeros DEF Partes, BucleOK
  <1>3. QED
    BY <1>1, <1>2 DEF Partes

\* The turn of a slot, by what it does to the descriptors and to the client.
LEMMA BucleSigue ==
  ASSUME Partes, NEW i \in Ranuras, Sigue(i)
  PROVE  BucleOK'
  <1>1. turno' \in 0 .. max_clients
    BY Constantes DEF Sigue
  <1>2. QED
    BY <1>1 DEF Sigue, Partes, BucleOK

\* What a request does to its client, if the server stays.
LEMMA ClienteAtendido ==
  ASSUME Partes, NEW k \in Conexiones, conexion[k].entrada # <<>>, conexion[k].estado # "no",
         NEW estado \in Estados, estado # "no", NEW espera \in BOOLEAN,
         conexion' = [conexion EXCEPT ![k] =
            [estado |-> estado, entrada |-> Tail(@.entrada), espera |-> espera]]
  PROVE  /\ conexion' \in Clientela
         /\ \A j \in Conexiones : j # k => conexion'[j] = conexion[j]
         /\ \A j \in Conexiones : conexion'[j].estado = "no" => conexion[j].estado = "no"
  <1> DEFINE nuevo == [estado |-> estado, entrada |-> Tail(conexion[k].entrada), espera |-> espera]
  <1>1. conexion \in Clientela
    BY DEF Partes
  <1>2. conexion[k].entrada \in Seq({"init"} \cup PedidosDe)
    BY <1>1 DEF Clientela
  <1>3. Tail(conexion[k].entrada) \in Seq({"init"} \cup PedidosDe)
    BY <1>2
  <1>4. nuevo \in [estado : Estados, entrada : Seq({"init"} \cup PedidosDe), espera : BOOLEAN]
    BY <1>3
  <1>5. nuevo.estado # "no"
    OBVIOUS
  <1>6. conexion' = [conexion EXCEPT ![k] = nuevo]
    OBVIOUS
  <1> HIDE DEF nuevo
  <1>7. QED
    BY <1>1, <1>4, <1>5, <1>6 DEF Clientela

LEMMA EfectoAtender ==
  ASSUME Partes, NEW i \in Ranuras, Atender(i), ~Caer
  PROVE  /\ EnTurno(i) /\ Sigue(i) /\ UNCHANGED client_socket
         /\ \/ extremo' = extremo
            \/ \E fd \in Fds : extremo[fd] = Cerrado /\ extremo' = [extremo EXCEPT ![fd] = Ajeno]
         /\ extremo[client_socket[i]] \in Conexiones
         /\ conexion' \in Clientela
         /\ \A j \in Conexiones :
               j # extremo[client_socket[i]] => conexion'[j] = conexion[j]
         /\ \A j \in Conexiones : conexion'[j].estado = "no" => conexion[j].estado = "no"
  <1> DEFINE k == extremo[client_socket[i]]
             pedido == Head(conexion[k].entrada)
             espera == conexion[k].espera /\ pedido = "avisa"
             posibles == IF pedido = "avisa" THEN {conexion[k].estado}
                         ELSE IF conexion[k].estado = "fin" THEN {"reset"}
                         ELSE IF pedido = "get" THEN {"viva", "reset"}
                         ELSE {"viva"}
  <1>1. /\ EnTurno(i) /\ Sigue(i) /\ UNCHANGED client_socket
        /\ k \in Conexiones /\ conexion[k].entrada # <<>>
        /\ extremo' = extremo
           \/ (FdsLibres # {} /\ extremo' = [extremo EXCEPT ![FdLibre] = Ajeno])
        /\ \E estado \in posibles :
              conexion' = [conexion EXCEPT ![k] =
                 [estado |-> estado, entrada |-> Tail(@.entrada),
                  espera |-> @.espera /\ pedido = "avisa"]]
    BY Zenon DEF Atender
  <1>2. PICK estado \in posibles :
           conexion' = [conexion EXCEPT ![k] =
              [estado |-> estado, entrada |-> Tail(@.entrada), espera |-> espera]]
    BY <1>1
  <1>3. ~caido /\ client_socket[i] \in Fds
    BY <1>1, RanuraLeida
  <1>4. conexion[k].estado # "no"
    BY <1>1, <1>3 DEF Partes, Tablas
  <1>5. conexion[k].estado \in Estados
    <2>1. conexion \in Clientela
      BY DEF Partes
    <2>2. QED
      BY <1>1, <2>1 DEF Clientela
  <1>6. estado \in Estados /\ estado # "no"
    BY <1>2, <1>4, <1>5 DEF Estados
  <1>7. espera \in BOOLEAN
    BY Zenon
  <1> HIDE DEF espera, pedido, posibles
  <1>8. /\ conexion' \in Clientela
        /\ \A j \in Conexiones : j # k => conexion'[j] = conexion[j]
        /\ \A j \in Conexiones : conexion'[j].estado = "no" => conexion[j].estado = "no"
    BY <1>1, <1>2, <1>4, <1>6, <1>7, ClienteAtendido
  <1>9. \/ extremo' = extremo
        \/ \E fd \in Fds : extremo[fd] = Cerrado /\ extremo' = [extremo EXCEPT ![fd] = Ajeno]
    BY <1>1, DescriptorLibre
  <1>10. QED
    BY <1>1, <1>8, <1>9, Zenon

LEMMA PasoAtender ==
  ASSUME Partes, NEW i \in Ranuras, Atender(i)
  PROVE  Partes'
  <1>1. CASE Caer
    BY <1>1, PasoCaer
  <1>2. CASE ~Caer
    <2>1. /\ EnTurno(i) /\ Sigue(i) /\ UNCHANGED client_socket
          /\ \/ extremo' = extremo
             \/ \E fd \in Fds : extremo[fd] = Cerrado /\ extremo' = [extremo EXCEPT ![fd] = Ajeno]
          /\ conexion' \in Clientela
          /\ \A j \in Conexiones : conexion'[j].estado = "no" => conexion[j].estado = "no"
      BY <1>2, EfectoAtender
    <2>2. ~caido /\ UNCHANGED <<caido, cola>>
      BY <2>1, RanuraLeida DEF Sigue
    <2>3. Tablas(extremo, client_socket, cola, conexion)
      BY <2>2 DEF Partes
    <2>4. Tablas(extremo', client_socket, cola, conexion)
      BY <2>1, <2>3, TrasAbrir
    <2>5. Tablas(extremo', client_socket', cola', conexion')
      BY <2>1, <2>2, <2>4, TrasHablar
    <2>6. BucleOK'
      BY <2>1, BucleSigue
    <2>7. QED
      BY <2>5, <2>6, Zenon DEF Partes, Tablas
  <1>3. QED
    BY <1>1, <1>2

\* A slot that is closed, and what its client becomes.
LEMMA CierraRanura ==
  ASSUME Partes, NEW i \in Ranuras, EnTurno(i), Sigue(i),
         Cerrar(i) \/ UNCHANGED <<extremo, client_socket>>,
         conexion' \in Clientela,
         \A j \in Conexiones : conexion'[j].estado = "no" => conexion[j].estado = "no"
  PROVE  Partes'
  <1>1. ~caido /\ UNCHANGED <<caido, cola>> /\ client_socket[i] # 0
    BY RanuraLeida DEF Sigue
  <1>2. Tablas(extremo, client_socket, cola, conexion)
    BY <1>1 DEF Partes
  <1>3. Tablas(extremo', client_socket', cola, conexion)
    BY <1>1, <1>2, TrasCerrar DEF Cerrar
  <1>4. Tablas(extremo', client_socket', cola', conexion')
    BY <1>1, <1>3, TrasHablar
  <1>5. BucleOK'
    BY BucleSigue
  <1>6. QED
    BY <1>4, <1>5, Zenon DEF Partes, Tablas

LEMMA PasoDespedir ==
  ASSUME Partes, NEW i \in Ranuras, Despedir(i)
  PROVE  Partes'
  <1>1. EnTurno(i) /\ Sigue(i) /\ Cerrar(i) /\ conexion' = conexion
    BY Zenon DEF Despedir
  <1>2. conexion' \in Clientela
    BY <1>1 DEF Partes
  <1>3. QED
    BY <1>1, <1>2, CierraRanura

LEMMA EfectoEquivocarse ==
  ASSUME Partes, NEW i \in Ranuras, Equivocarse(i), ~Caer
  PROVE  /\ EnTurno(i) /\ Sigue(i)
         /\ Cerrar(i) \/ UNCHANGED <<extremo, client_socket>>
         /\ extremo[client_socket[i]] \in Conexiones =>
               conexion[extremo[client_socket[i]]].estado = "reset"
         /\ conexion' \in Clientela
         /\ \A j \in Conexiones :
               \/ conexion'[j] = conexion[j]
               \/ j = extremo[client_socket[i]] /\ conexion'[j].estado = "fin"
  <1> DEFINE k == extremo[client_socket[i]]
             falla == k \in Conexiones /\ conexion[k].entrada = <<>> /\ conexion[k].estado = "reset"
  <1>1. /\ EnTurno(i) /\ Sigue(i)
        /\ k \notin Conexiones \/ falla
        /\ Cerrar(i) \/ UNCHANGED <<extremo, client_socket>>
        /\ conexion' = IF falla THEN [conexion EXCEPT ![k].estado = "fin"] ELSE conexion
    BY Zenon DEF Equivocarse
  <1>2. conexion \in Clientela
    BY DEF Partes
  <1>3. CASE falla
    <2>1. k \in Conexiones /\ conexion' = [conexion EXCEPT ![k].estado = "fin"]
      BY <1>1, <1>3
    <2> HIDE DEF k, falla
    <2>2. /\ conexion' \in Clientela
          /\ \A j \in Conexiones : j # k => conexion'[j] = conexion[j]
          /\ conexion'[k].estado = "fin"
      BY <1>2, <2>1 DEF Clientela, Estados
    <2>3. QED
      BY <1>1, <1>3, <2>2 DEF k, falla
  <1>4. CASE ~falla
    BY <1>1, <1>2, <1>4, Zenon
  <1>5. QED
    BY <1>3, <1>4

LEMMA PasoEquivocarse ==
  ASSUME Partes, NEW i \in Ranuras, Equivocarse(i)
  PROVE  Partes'
  <1>1. CASE Caer
    BY <1>1, PasoCaer
  <1>2. CASE ~Caer
    BY <1>2, EfectoEquivocarse, CierraRanura
  <1>3. QED
    BY <1>1, <1>2

LEMMA PasoInit ==
  ASSUME Partes, NEW k \in Conexiones, muse_init(k)
  PROVE  Partes'
  <1> DEFINE nueva == [estado |-> "viva", entrada |-> <<"init">>, espera |-> TRUE]
  <1>1. /\ ~caido /\ UNCHANGED <<extremo, client_socket, bucle, caido, pedidos>>
        /\ conexion[k] = Ausente /\ cola' = Append(cola, k)
        /\ conexion' = [conexion EXCEPT ![k] = nueva]
    BY Zenon DEF muse_init
  <1>2. /\ nueva \in [estado : Estados, entrada : Seq({"init"} \cup PedidosDe), espera : BOOLEAN]
        /\ nueva.estado = "viva"
    BY DEF Estados
  <1>3. conexion[k].estado = "no"
    BY <1>1 DEF Ausente
  <1>4. Tablas(extremo, client_socket, cola, conexion) /\ conexion \in Clientela
    BY <1>1 DEF Partes
  <1> HIDE DEF nueva
  <1>5. /\ conexion' \in Clientela /\ conexion'[k].estado # "no"
        /\ \A j \in Conexiones : j # k => conexion'[j] = conexion[j]
    BY <1>1, <1>2, <1>4 DEF Clientela
  <1>6. Tablas(extremo', client_socket', cola', conexion')
    BY <1>1, <1>3, <1>4, <1>5, TrasLlegar
  <1>7. BucleOK'
    BY <1>1 DEF Partes, BucleOK, bucle
  <1>8. QED
    BY <1>6, <1>7, Zenon DEF Partes, Tablas

\* A client that speaks or leaves.
LEMMA ClienteHabla ==
  ASSUME Partes, ~caido, UNCHANGED <<extremo, client_socket, bucle, caido, cola>>,
         pedidos' \in 0 .. MaxPedidos, conexion' \in Clientela,
         \A j \in Conexiones : conexion'[j].estado = "no" => conexion[j].estado = "no"
  PROVE  Partes'
  <1>1. Tablas(extremo, client_socket, cola, conexion)
    BY DEF Partes
  <1>2. Tablas(extremo', client_socket', cola', conexion')
    BY <1>1, TrasHablar
  <1>3. BucleOK'
    BY DEF Partes, BucleOK, bucle
  <1>4. QED
    BY <1>2, <1>3, Zenon DEF Partes, Tablas

LEMMA PasoLlamar ==
  ASSUME Partes, NEW k \in Conexiones, NEW pedido \in PedidosDe, Llamar(k, pedido)
  PROVE  Partes'
  <1>1. /\ ~caido /\ conexion[k].estado = "viva"
        /\ UNCHANGED <<extremo, client_socket, bucle, caido, cola>>
        /\ pedidos < MaxPedidos /\ pedidos' = pedidos + 1
        /\ conexion' = [conexion EXCEPT ![k].entrada = Append(@, pedido),
                                        ![k].espera = (pedido # "avisa")]
    BY Zenon DEF Llamar
  <1>2. conexion \in Clientela /\ pedidos \in 0 .. MaxPedidos
    BY DEF Partes, BucleOK
  <1>3. Append(conexion[k].entrada, pedido) \in Seq({"init"} \cup PedidosDe)
    <2>1. conexion[k].entrada \in Seq({"init"} \cup PedidosDe)
      BY <1>2 DEF Clientela
    <2>2. QED
      BY <2>1
  <1>4. conexion' \in Clientela
    BY <1>1, <1>2, <1>3 DEF Clientela
  <1>5. \A j \in Conexiones : conexion'[j].estado = "no" => conexion[j].estado = "no"
    BY <1>1, <1>2 DEF Clientela
  <1>6. pedidos' \in 0 .. MaxPedidos
    BY <1>1, <1>2, Numeros
  <1>7. QED
    BY <1>1, <1>4, <1>5, <1>6, ClienteHabla

LEMMA PasoSalir ==
  ASSUME Partes, NEW k \in Conexiones, Salir(k)
  PROVE  Partes'
  <1>1. /\ ~caido /\ conexion[k].estado = "viva"
        /\ UNCHANGED <<extremo, client_socket, bucle, caido, cola, pedidos>>
        /\ conexion' = [conexion EXCEPT ![k].estado = "fin", ![k].espera = FALSE]
    BY Zenon DEF Salir
  <1>2. conexion \in Clientela /\ pedidos \in 0 .. MaxPedidos
    BY DEF Partes, BucleOK
  <1>3. conexion' \in Clientela
    BY <1>1, <1>2 DEF Clientela, Estados
  <1>4. \A j \in Conexiones : conexion'[j].estado = "no" => conexion[j].estado = "no"
    BY <1>1, <1>2 DEF Clientela
  <1>5. QED
    BY <1>1, <1>2, <1>3, <1>4, ClienteHabla

LEMMA PartesInductivo == Partes /\ [Next]_vars => Partes'
  <1> SUFFICES ASSUME Partes, [Next]_vars PROVE Partes'
    OBVIOUS
  <1>1. CASE Seleccionar
    BY <1>1, PasoSeleccionar
  <1>2. CASE Aceptar
    BY <1>2, PasoAceptar
  <1>3. CASE FinDeVuelta
    BY <1>3, PasoFinDeVuelta
  <1>4. ASSUME NEW i \in Ranuras, Atender(i) PROVE Partes'
    BY <1>4, PasoAtender
  <1>5. ASSUME NEW i \in Ranuras, Despedir(i) PROVE Partes'
    BY <1>5, PasoDespedir
  <1>6. ASSUME NEW i \in Ranuras, Equivocarse(i) PROVE Partes'
    BY <1>6, PasoEquivocarse
  <1>7. ASSUME NEW k \in Conexiones, muse_init(k) PROVE Partes'
    BY <1>7, PasoInit
  <1>8. ASSUME NEW k \in Conexiones, Salir(k) PROVE Partes'
    BY <1>8, PasoSalir
  <1>9. ASSUME NEW k \in Conexiones, NEW pedido \in PedidosDe, Llamar(k, pedido) PROVE Partes'
    BY <1>9, PasoLlamar
  <1>10. CASE UNCHANGED vars
    BY <1>10 DEF vars, Partes, BucleOK
  <1>11. QED
    BY <1>1, <1>2, <1>3, <1>4, <1>5, <1>6, <1>7, <1>8, <1>9, <1>10, Zenon
    DEF Next, PasoServidor

LEMMA SiemprePartes == Spec => []Partes
  <1>1. QED
    BY TiposIniciales, PartesInductivo, PTL DEF Spec

(***************************************************************************)
(* Why the server does not sleep.  What select found stays true until it   *)
(* is used, except of a number that is the index of a slot that was left.  *)
(***************************************************************************)

\* The client k is there and has sent nothing.
Callado(k) == conexion[k].estado = "viva" /\ conexion[k].entrada = <<>>

VigiliaOK ==
  /\ activity = "error" => \E i \in Ranuras : Caducado(client_socket, i)
  /\ extremo[master_socket] # Escucha => Caducado(client_socket, master_socket)
  /\ activity = "listos" /\ lugar = "accept" =>
       /\ extremo[master_socket] = Escucha => cola # <<>>
       /\ \A f \in readfds : /\ extremo[f] # Cerrado
                             /\ \A k \in Conexiones : extremo[f] = k => ~Callado(k)
  /\ activity = "listos" /\ lugar = "recorre" =>
       \A i \in Pendientes, k \in Conexiones :
          extremo[client_socket[i]] = k /\ Callado(k)
             => Caducado(client_socket, client_socket[i])

Vigilia == Partes /\ (~caido => VigiliaOK)

LEMMA VigiliaInicial == Init => VigiliaOK
  <1>1. ASSUME Init
        PROVE  /\ activity = "listos" /\ lugar = "select"
               /\ extremo[master_socket] = Escucha
    <2>1. activity = "listos" /\ lugar = "select"
      BY <1>1, Zenon DEF Init
    <2>2. extremo = [f \in Fds |-> IF f < master_socket THEN Ajeno
                                   ELSE IF f = master_socket THEN Escucha ELSE Cerrado]
      BY <1>1, Zenon DEF Init
    <2>3. extremo[master_socket] = Escucha
      BY <2>2, Constantes, Numeros
    <2>4. QED
      BY <2>1, <2>3
  <1>2. QED
    BY <1>1 DEF VigiliaOK

\* What select answers is true, and a descriptor that is not open is the index
\* of a slot that was left.
LEMMA VigiliaSeleccionar ==
  ASSUME Partes, VigiliaOK, Seleccionar
  PROVE  VigiliaOK'
  <1>1. /\ ~caido /\ UNCHANGED <<extremo, client_socket, cola, conexion>>
        /\ turno' = 0
        /\ lugar' = IF master_socket \in readfds' THEN "accept" ELSE "recorre"
        /\ \/ activity' = "error" /\ \E f \in Vigilados : extremo[f] = Cerrado
           \/ /\ activity' = "listos"
              /\ \A f \in Vigilados : extremo[f] # Cerrado
              /\ \E A \in SUBSET {f \in Vigilados : extremo[f] = Ajeno} :
                    readfds' = A \cup {f \in Vigilados : Listo(f)}
    BY Zenon DEF Seleccionar
  <1>2. \A f \in Vigilados : f = master_socket \/ \E i \in Ranuras : f = client_socket[i] /\ f # 0
    BY DEF Vigilados
  <1>3. ASSUME activity' = "error"
        PROVE  \E i \in Ranuras : Caducado(client_socket, i)
    <2>1. PICK f \in Vigilados : extremo[f] = Cerrado
      BY <1>1, <1>3
    <2>2. CASE f = master_socket
      BY <2>1, <2>2, NoSonClientes DEF VigiliaOK, Caducado
    <2>3. CASE \E i \in Ranuras : f = client_socket[i] /\ f # 0
      BY <1>1, <2>1, <2>3, NoSonClientes DEF Partes, Tablas, Caducado
    <2>4. QED
      BY <1>2, <2>2, <2>3
  <1>4. ASSUME activity' = "listos", NEW f \in readfds'
        PROVE  /\ extremo[f] # Cerrado
               /\ extremo[f] = Escucha => cola # <<>>
               /\ \A k \in Conexiones : extremo[f] = k => ~Callado(k)
    <2>1. f \in Vigilados /\ extremo[f] # Cerrado /\ (extremo[f] = Ajeno \/ Listo(f))
      BY <1>1, <1>4
    <2>2. QED
      BY <2>1, NoSonClientes DEF Listo, Callado
  <1>5. extremo'[master_socket] # Escucha => Caducado(client_socket', master_socket)
    BY <1>1 DEF VigiliaOK
  <1>6. activity' = "listos" /\ lugar' = "accept" => master_socket \in readfds'
    BY <1>1
  <1>7. \A k : Callado(k)' <=> Callado(k)
    BY <1>1 DEF Callado
  <1>8. \A i \in Pendientes' : client_socket'[i] \in readfds'
    BY DEF Pendientes
  <1> HIDE DEF Callado
  <1>9. QED
    BY <1>1, <1>3, <1>4, <1>5, <1>6, <1>7, <1>8 DEF VigiliaOK

\* The new client is behind a descriptor that select did not see.
LEMMA VigiliaAceptar ==
  ASSUME Partes, VigiliaOK, Aceptar, ~Caer
  PROVE  VigiliaOK'
  <1> DEFINE fd == FdLibre
  <1>1. /\ ~caido /\ lugar = "accept" /\ lugar' = "recorre"
        /\ extremo[master_socket] = Escucha /\ cola # <<>> /\ FdsLibres # {}
        /\ extremo' = [extremo EXCEPT ![fd] = Head(cola)]
        /\ client_socket' = Asignadas(fd)
        /\ UNCHANGED <<readfds, activity, turno, conexion>>
    BY Zenon DEF Aceptar
  <1>2. fd \in Fds /\ extremo[fd] = Cerrado
    BY <1>1, DescriptorLibre
  <1> HIDE DEF fd
  <1>3. /\ extremo \in [Fds -> Objetos] /\ client_socket \in [Ranuras -> Fds]
        /\ \A f \in Fds : f # fd => extremo'[f] = extremo[f]
    BY <1>1 DEF Partes
  <1>4. \A i \in Ranuras :
           \/ client_socket'[i] = client_socket[i]
           \/ client_socket[i] = 0 /\ client_socket'[i] = fd
    BY <1>1, <1>3, RanuraLibre
  <1>5. \A f : Caducado(client_socket, f) => Caducado(client_socket', f)
    BY <1>4 DEF Caducado
  <1>6. extremo'[master_socket] = Escucha
    BY <1>1, <1>2, <1>3, Constantes, NoSonClientes
  <1>7. ASSUME activity = "listos", NEW i \in Pendientes', NEW k \in Conexiones,
               extremo'[client_socket'[i]] = k, Callado(k)'
        PROVE  FALSE
    <2>1. i \in Ranuras /\ client_socket'[i] \in readfds
      BY <1>1, <1>7 DEF Pendientes
    <2>2. client_socket'[i] # fd
      BY <1>1, <1>2, <1>7, <2>1 DEF VigiliaOK
    <2>3. client_socket'[i] \in Fds /\ extremo'[client_socket'[i]] = extremo[client_socket'[i]]
      BY <1>3, <1>4, <2>1, <2>2
    <2>4. Callado(k)
      BY <1>1, <1>7 DEF Callado
    <2> HIDE DEF Callado
    <2>5. QED
      BY <1>1, <1>7, <2>1, <2>3, <2>4 DEF VigiliaOK
  <1>8. activity' = "error" => \E i \in Ranuras : Caducado(client_socket', i)
    BY <1>1, <1>5 DEF VigiliaOK
  <1> HIDE DEF Callado
  <1>9. QED
    BY <1>1, <1>6, <1>7, <1>8 DEF VigiliaOK

\* The turn of a slot: it closes descriptors or opens files, leaves slots, and
\* reads from the client of the slot or ends it.
LEMMA VigiliaEnTurno ==
  ASSUME Partes, VigiliaOK, NEW i \in Ranuras, EnTurno(i), Sigue(i),
         \A f : Caducado(client_socket, f) => Caducado(client_socket', f),
         \A j \in Ranuras : j # i => client_socket'[j] = client_socket[j],
         \A f \in Fds, k \in Conexiones : extremo'[f] = k => extremo[f] = k,
         extremo'[master_socket] # Escucha => Caducado(client_socket', master_socket),
         \A k \in Conexiones : \/ conexion'[k] = conexion[k]
                               \/ conexion'[k].estado # "viva"
                               \/ k = extremo[client_socket[i]]
  PROVE  VigiliaOK'
  <1>1. /\ ~caido /\ lugar = "recorre" /\ lugar' = "recorre" /\ i \in Nat /\ turno' = i + 1
        /\ activity' = activity /\ readfds' = readfds /\ i \in Pendientes
        /\ client_socket[i] \in Fds \ {0}
    BY RanuraLeida DEF Sigue
  <1>2. activity' = "error" => \E j \in Ranuras : Caducado(client_socket', j)
    BY <1>1 DEF VigiliaOK
  <1>3. ASSUME activity = "listos", NEW j \in Pendientes', NEW k \in Conexiones,
               extremo'[client_socket'[j]] = k, Callado(k)'
        PROVE  Caducado(client_socket', client_socket'[j])
    <2>1. j \in Ranuras /\ j \in Nat /\ j >= i + 1 /\ client_socket'[j] \in readfds
      BY <1>1, <1>3, Constantes DEF Pendientes
    <2>2. j # i /\ client_socket'[j] = client_socket[j] /\ client_socket[j] \in Fds
      BY <1>1, <2>1 DEF Partes
    <2>3. j \in Pendientes
      <3>1. i >= turno /\ turno \in Nat
        BY <1>1, Numeros DEF Pendientes, Partes, BucleOK
      <3>2. QED
        BY <1>1, <2>1, <2>2, <3>1 DEF Pendientes
    <2>4. extremo[client_socket[j]] = k
      BY <1>3, <2>2
    <2>5. Caducado(client_socket, client_socket[j])
      <3>1. CASE conexion'[k] = conexion[k]
        <4>1. Callado(k)
          BY <1>3, <3>1 DEF Callado
        <4> HIDE DEF Callado
        <4>2. QED
          BY <1>1, <1>3, <2>3, <2>4, <4>1 DEF VigiliaOK
      <3>2. CASE k = extremo[client_socket[i]]
        <4>1. Tablas(extremo, client_socket, cola, conexion)
          BY <1>1 DEF Partes
        <4>2. client_socket[j] = client_socket[i]
          BY <1>1, <2>2, <2>4, <3>2, <4>1 DEF Tablas
        <4>3. QED
          BY <1>1, <2>1, <2>2, <4>1, <4>2 DEF Tablas
      <3>3. conexion'[k].estado = "viva"
        BY <1>3 DEF Callado
      <3>4. QED
        BY <3>1, <3>2, <3>3
    <2>6. QED
      BY <2>2, <2>5
  <1> HIDE DEF Callado
  <1>4. QED
    BY <1>1, <1>2, <1>3 DEF VigiliaOK

LEMMA VigiliaAtender ==
  ASSUME Partes, VigiliaOK, NEW i \in Ranuras, Atender(i), ~Caer
  PROVE  VigiliaOK'
  <1>1. /\ EnTurno(i) /\ Sigue(i) /\ UNCHANGED client_socket
        /\ \/ extremo' = extremo
           \/ \E fd \in Fds : extremo[fd] = Cerrado /\ extremo' = [extremo EXCEPT ![fd] = Ajeno]
        /\ \A j \in Conexiones :
              j # extremo[client_socket[i]] => conexion'[j] = conexion[j]
    BY EfectoAtender
  <1>2. extremo \in [Fds -> Objetos]
    BY DEF Partes
  <1>3. \A f \in Fds, k \in Conexiones : extremo'[f] = k => extremo[f] = k
    BY <1>1, <1>2, NoSonClientes
  <1>4. extremo[master_socket] = Escucha => extremo'[master_socket] = Escucha
    BY <1>1, <1>2, Constantes, NoSonClientes
  <1>5. extremo'[master_socket] # Escucha => Caducado(client_socket', master_socket)
    BY <1>1, <1>4 DEF VigiliaOK
  <1>6. QED
    BY <1>1, <1>3, <1>5, VigiliaEnTurno

\* A slot that is closed was that of a client or one that named the index of a
\* slot that was left: the listening socket is only closed in the second way.
LEMMA VigiliaCerrar ==
  ASSUME Partes, VigiliaOK, NEW i \in Ranuras, EnTurno(i), Sigue(i),
         Cerrar(i) \/ UNCHANGED <<extremo, client_socket>>,
         \A k \in Conexiones : \/ conexion'[k] = conexion[k]
                               \/ conexion'[k].estado # "viva"
  PROVE  VigiliaOK'
  <1>1. ~caido /\ client_socket[i] \in Fds \ {0}
    BY RanuraLeida
  <1>2. /\ extremo \in [Fds -> Objetos] /\ client_socket \in [Ranuras -> Fds]
        /\ Tablas(extremo, client_socket, cola, conexion)
    BY <1>1 DEF Partes
  <1>3. /\ \A j \in Ranuras : j # i => client_socket'[j] = client_socket[j]
        /\ client_socket'[i] \in {i, client_socket[i]}
        /\ \A f \in Fds : f # client_socket[i] => extremo'[f] = extremo[f]
        /\ extremo'[client_socket[i]] \in {Cerrado, extremo[client_socket[i]]}
    BY <1>1, <1>2 DEF Cerrar
  <1>4. \A f : Caducado(client_socket, f) => Caducado(client_socket', f)
    BY <1>3 DEF Caducado
  <1>5. \A f \in Fds, k \in Conexiones : extremo'[f] = k => extremo[f] = k
    BY <1>3, NoSonClientes
  <1>6. ASSUME extremo'[master_socket] # Escucha
        PROVE  Caducado(client_socket, master_socket)
    <2>1. CASE extremo[master_socket] # Escucha
      BY <2>1 DEF VigiliaOK
    <2>2. CASE extremo[master_socket] = Escucha
      <3>1. client_socket[i] = master_socket
        BY <1>3, <1>6, <2>2, Constantes
      <3>2. QED
        BY <1>1, <1>2, <2>2, <3>1, NoSonClientes DEF Tablas
    <2>3. QED
      BY <2>1, <2>2
  <1>7. QED
    BY <1>3, <1>4, <1>5, <1>6, VigiliaEnTurno

LEMMA VigiliaDespedir ==
  ASSUME Partes, VigiliaOK, NEW i \in Ranuras, Despedir(i)
  PROVE  VigiliaOK'
  <1>1. EnTurno(i) /\ Sigue(i) /\ Cerrar(i) /\ conexion' = conexion
    BY Zenon DEF Despedir
  <1>2. QED
    BY <1>1, VigiliaCerrar

LEMMA VigiliaEquivocarse ==
  ASSUME Partes, VigiliaOK, NEW i \in Ranuras, Equivocarse(i), ~Caer
  PROVE  VigiliaOK'
  <1>1. /\ EnTurno(i) /\ Sigue(i)
        /\ Cerrar(i) \/ UNCHANGED <<extremo, client_socket>>
        /\ \A j \in Conexiones : conexion'[j] = conexion[j] \/ conexion'[j].estado = "fin"
    BY EfectoEquivocarse
  <1>2. \A j \in Conexiones : conexion'[j] = conexion[j] \/ conexion'[j].estado # "viva"
    BY <1>1
  <1>3. QED
    BY <1>1, <1>2, VigiliaCerrar

\* Clients only come, leave, or send something.
LEMMA VigiliaClientes ==
  ASSUME VigiliaOK, UNCHANGED <<extremo, client_socket, bucle>>,
         cola # <<>> => cola' # <<>>,
         \A k \in Conexiones : Callado(k)' => Callado(k)
  PROVE  VigiliaOK'
  <1>1. /\ UNCHANGED <<extremo, client_socket, readfds, activity, lugar, turno>>
        /\ Pendientes' = Pendientes
    BY DEF bucle, Pendientes
  <1> HIDE DEF Callado
  <1>2. QED
    BY <1>1 DEF VigiliaOK

LEMMA VigiliaPasoCliente ==
  ASSUME Partes, VigiliaOK, NEW k \in Conexiones,
         muse_init(k) \/ Salir(k) \/ \E pedido \in PedidosDe : Llamar(k, pedido)
  PROVE  VigiliaOK'
  <1>1. conexion \in Clientela /\ cola \in Seq(Conexiones)
    BY DEF Partes
  <1>2. CASE muse_init(k)
    <2>1. /\ UNCHANGED <<extremo, client_socket, bucle>> /\ cola' = Append(cola, k)
          /\ conexion' = [conexion EXCEPT ![k] =
                [estado |-> "viva", entrada |-> <<"init">>, espera |-> TRUE]]
      BY <1>2, Zenon DEF muse_init
    <2>2. cola' # <<>>
      BY <1>1, <2>1
    <2>3. \A j \in Conexiones : Callado(j)' => Callado(j)
      BY <1>1, <2>1 DEF Callado, Clientela
    <2>4. QED
      BY <2>1, <2>2, <2>3, VigiliaClientes
  <1>3. CASE Salir(k)
    <2>1. /\ UNCHANGED <<extremo, client_socket, bucle, cola>>
          /\ conexion' = [conexion EXCEPT ![k].estado = "fin", ![k].espera = FALSE]
      BY <1>3, Zenon DEF Salir
    <2>2. \A j \in Conexiones : Callado(j)' => Callado(j)
      BY <1>1, <2>1 DEF Callado, Clientela
    <2>3. QED
      BY <2>1, <2>2, VigiliaClientes
  <1>4. ASSUME NEW pedido \in PedidosDe, Llamar(k, pedido)
        PROVE  VigiliaOK'
    <2>1. /\ UNCHANGED <<extremo, client_socket, bucle, cola>>
          /\ conexion' = [conexion EXCEPT ![k].entrada = Append(@, pedido),
                                          ![k].espera = (pedido # "avisa")]
      BY <1>4, Zenon DEF Llamar
    <2>2. Append(conexion[k].entrada, pedido) # <<>>
      <3>1. conexion[k].entrada \in Seq({"init"} \cup PedidosDe)
        BY <1>1 DEF Clientela
      <3>2. QED
        BY <3>1
    <2>3. \A j \in Conexiones : Callado(j)' => Callado(j)
      BY <1>1, <2>1, <2>2 DEF Callado, Clientela
    <2>4. QED
      BY <2>1, <2>3, VigiliaClientes
  <1>5. QED
    BY <1>2, <1>3, <1>4

LEMMA VigiliaInductiva == Vigilia /\ [Next]_vars => Vigilia'
  <1> SUFFICES ASSUME Partes, ~caido => VigiliaOK, [Next]_vars, ~caido' PROVE VigiliaOK'
    BY PartesInductivo DEF Vigilia
  <1>1. ~Caer
    BY DEF Caer
  <1>2. CASE UNCHANGED vars
    <2>1. /\ UNCHANGED <<extremo, client_socket, bucle, caido, cola, conexion>>
      BY <1>2 DEF vars, bucle
    <2>2. \A k \in Conexiones : Callado(k)' => Callado(k)
      BY <2>1 DEF Callado
    <2>3. VigiliaOK
      BY <2>1, Zenon
    <2>4. QED
      BY <2>1, <2>2, <2>3, VigiliaClientes
  <1>3. ASSUME NEW k \in Conexiones,
               muse_init(k) \/ Salir(k) \/ \E pedido \in PedidosDe : Llamar(k, pedido)
        PROVE  VigiliaOK'
    <2>1. ~caido
      BY <1>3, Zenon DEF muse_init, Salir, Llamar
    <2>2. QED
      BY <1>3, <2>1, VigiliaPasoCliente
  <1>4. CASE Seleccionar
    BY <1>4, VigiliaSeleccionar DEF Seleccionar
  <1>5. CASE Aceptar
    BY <1>1, <1>5, VigiliaAceptar DEF Aceptar
  <1>6. CASE FinDeVuelta
    <2>1. /\ ~caido /\ UNCHANGED <<extremo, client_socket>>
          /\ lugar' = "select" /\ activity' = "listos"
      BY <1>6, Zenon DEF FinDeVuelta
    <2>2. QED
      BY <2>1 DEF VigiliaOK
  <1>7. ASSUME NEW i \in Ranuras, Atender(i) PROVE VigiliaOK'
    BY <1>1, <1>7, VigiliaAtender DEF Atender, EnTurno
  <1>8. ASSUME NEW i \in Ranuras, Despedir(i) PROVE VigiliaOK'
    BY <1>8, VigiliaDespedir DEF Despedir, EnTurno
  <1>9. ASSUME NEW i \in Ranuras, Equivocarse(i) PROVE VigiliaOK'
    BY <1>1, <1>9, VigiliaEquivocarse DEF Equivocarse, EnTurno
  <1>10. QED
    BY <1>2, <1>3, <1>4, <1>5, <1>6, <1>7, <1>8, <1>9, Zenon DEF Next, PasoServidor

(***************************************************************************)
(* Why a client that stays is not closed.                                  *)
(***************************************************************************)
Atendido(k) == (\E f \in Fds : extremo[f] = k) \/ (\E n \in 1 .. Len(cola) : cola[n] = k)

ViveAtendido == Partes /\ (~caido => \A k \in Conexiones :
                                        conexion[k].estado = "viva" => Atendido(k))

LEMMA ViveIgual ==
  ASSUME NEW k, Atendido(k), UNCHANGED <<extremo, cola>>
  PROVE  Atendido(k)'
  BY DEF Atendido

\* The first of the queue is behind a descriptor, and the others are still in it.
LEMMA ViveAceptar ==
  ASSUME Partes, Aceptar, ~Caer, NEW k \in Conexiones, Atendido(k)
  PROVE  Atendido(k)'
  <1>1. /\ cola # <<>> /\ FdsLibres # {} /\ cola' = Tail(cola)
        /\ extremo' = [extremo EXCEPT ![FdLibre] = Head(cola)]
    BY Zenon DEF Aceptar
  <1>2. FdLibre \in Fds /\ extremo[FdLibre] = Cerrado
    BY <1>1, DescriptorLibre
  <1>3. extremo \in [Fds -> Objetos] /\ cola \in Seq(Conexiones)
    BY DEF Partes
  <1>4. CASE \E f \in Fds : extremo[f] = k
    BY <1>1, <1>2, <1>3, <1>4, NoSonClientes DEF Atendido
  <1>5. ASSUME NEW n \in 1 .. Len(cola), cola[n] = k
        PROVE  Atendido(k)'
    <2>1. CASE n = 1
      BY <1>1, <1>2, <1>3, <1>5, <2>1 DEF Atendido
    <2>2. CASE n # 1
      <3>1. n - 1 \in 1 .. Len(Tail(cola)) /\ Tail(cola)[n - 1] = cola[n]
        BY <1>1, <1>3, <2>2
      <3>2. QED
        BY <1>1, <1>5, <3>1 DEF Atendido
    <2>3. QED
      BY <2>1, <2>2
  <1>6. QED
    BY <1>4, <1>5 DEF Atendido

\* A step that closes the slot of another client.
LEMMA ViveCerrar ==
  ASSUME Partes, NEW i \in Ranuras, EnTurno(i), Sigue(i),
         Cerrar(i) \/ UNCHANGED <<extremo, client_socket>>,
         NEW k \in Conexiones, Atendido(k), k # extremo[client_socket[i]]
  PROVE  Atendido(k)'
  <1>1. cola' = cola /\ client_socket[i] \in Fds /\ extremo \in [Fds -> Objetos]
    BY RanuraLeida DEF Sigue, Partes
  <1>2. \A f \in Fds : f # client_socket[i] => extremo'[f] = extremo[f]
    BY <1>1 DEF Cerrar
  <1>3. \A f \in Fds : extremo[f] = k => extremo'[f] = k
    BY <1>2
  <1>4. QED
    BY <1>1, <1>3, Zenon DEF Atendido

LEMMA ViveInductivo == ViveAtendido /\ [Next]_vars => ViveAtendido'
  <1> SUFFICES ASSUME Partes, [Next]_vars, ~caido',
                      ~caido => \A k \in Conexiones : conexion[k].estado = "viva" => Atendido(k),
                      NEW k \in Conexiones, conexion'[k].estado = "viva"
               PROVE  Atendido(k)'
    BY PartesInductivo DEF ViveAtendido
  <1>1. ~Caer
    BY DEF Caer
  <1>2. extremo \in [Fds -> Objetos] /\ cola \in Seq(Conexiones) /\ conexion \in Clientela
    BY DEF Partes
  <1>3. ASSUME ~caido, conexion'[k].estado = conexion[k].estado PROVE Atendido(k)
    BY <1>3
  <1>4. CASE UNCHANGED vars
    BY <1>3, <1>4, ViveIgual DEF vars
  <1>5. CASE Seleccionar
    BY <1>3, <1>5, ViveIgual DEF Seleccionar
  <1>6. CASE FinDeVuelta
    BY <1>3, <1>6, ViveIgual DEF FinDeVuelta
  <1>7. CASE Aceptar
    BY <1>1, <1>3, <1>7, ViveAceptar DEF Aceptar
  <1>8. ASSUME NEW i \in Ranuras, Atender(i) PROVE Atendido(k)'
    <2>1. /\ EnTurno(i) /\ Sigue(i)
          /\ \/ extremo' = extremo
             \/ \E fd \in Fds : extremo[fd] = Cerrado /\ extremo' = [extremo EXCEPT ![fd] = Ajeno]
          /\ extremo[client_socket[i]] \in Conexiones
          /\ \A j \in Conexiones :
                j # extremo[client_socket[i]] => conexion'[j] = conexion[j]
      BY <1>1, <1>8, EfectoAtender
    <2>2. ~caido /\ client_socket[i] \in Fds /\ cola' = cola
      BY <2>1, RanuraLeida DEF Sigue
    <2>3. \A f \in Fds : extremo[f] = k => extremo'[f] = k
      BY <1>2, <2>1, NoSonClientes
    <2>4. Atendido(k)
      <3>1. CASE k = extremo[client_socket[i]]
        BY <2>2, <3>1 DEF Atendido
      <3>2. CASE k # extremo[client_socket[i]]
        BY <1>3, <2>1, <2>2, <3>2
      <3>3. QED
        BY <3>1, <3>2
    <2>5. QED
      BY <2>2, <2>3, <2>4, Zenon DEF Atendido
  <1>9. ASSUME NEW i \in Ranuras, Despedir(i) PROVE Atendido(k)'
    <2>1. /\ EnTurno(i) /\ Sigue(i) /\ Cerrar(i) /\ conexion' = conexion
          /\ conexion[extremo[client_socket[i]]].estado = "fin"
      BY <1>9, Zenon DEF Despedir
    <2>2. ~caido
      BY <2>1, RanuraLeida
    <2>3. Atendido(k) /\ k # extremo[client_socket[i]]
      BY <1>3, <2>1, <2>2
    <2>4. QED
      BY <2>1, <2>3, ViveCerrar
  <1>10. ASSUME NEW i \in Ranuras, Equivocarse(i) PROVE Atendido(k)'
    <2>1. /\ EnTurno(i) /\ Sigue(i)
          /\ Cerrar(i) \/ UNCHANGED <<extremo, client_socket>>
          /\ extremo[client_socket[i]] \in Conexiones =>
                conexion[extremo[client_socket[i]]].estado = "reset"
          /\ \A j \in Conexiones :
                \/ conexion'[j] = conexion[j]
                \/ j = extremo[client_socket[i]] /\ conexion'[j].estado = "fin"
      BY <1>1, <1>10, EfectoEquivocarse
    <2>2. ~caido
      BY <2>1, RanuraLeida
    <2>3. conexion'[k] = conexion[k]
      BY <2>1
    <2>4. Atendido(k) /\ k # extremo[client_socket[i]]
      BY <1>3, <2>1, <2>2, <2>3
    <2>5. QED
      BY <2>1, <2>4, ViveCerrar
  <1>11. ASSUME NEW j \in Conexiones, muse_init(j) PROVE Atendido(k)'
    <2>1. /\ ~caido /\ extremo' = extremo /\ cola' = Append(cola, j)
          /\ conexion' = [conexion EXCEPT ![j] =
                [estado |-> "viva", entrada |-> <<"init">>, espera |-> TRUE]]
      BY <1>11, Zenon DEF muse_init
    <2>2. /\ \A n \in 1 .. Len(cola) : n \in 1 .. Len(cola') /\ cola'[n] = cola[n]
          /\ Len(cola) + 1 \in 1 .. Len(cola') /\ cola'[Len(cola) + 1] = j
      BY <1>2, <2>1
    <2>3. CASE k = j
      BY <2>2, <2>3 DEF Atendido
    <2>4. CASE k # j
      <3>1. conexion'[k] = conexion[k]
        BY <1>2, <2>1, <2>4 DEF Clientela
      <3>2. Atendido(k)
        BY <1>3, <2>1, <3>1
      <3>3. QED
        BY <2>1, <2>2, <3>2, Zenon DEF Atendido
    <2>5. QED
      BY <2>3, <2>4
  <1>12. ASSUME NEW j \in Conexiones, Salir(j) PROVE Atendido(k)'
    <2>1. /\ ~caido /\ UNCHANGED <<extremo, cola>>
          /\ conexion' = [conexion EXCEPT ![j].estado = "fin", ![j].espera = FALSE]
      BY <1>12, Zenon DEF Salir
    <2>2. conexion[k].estado = "viva"
      BY <1>2, <2>1 DEF Clientela
    <2>3. QED
      BY <2>1, <2>2, ViveIgual
  <1>13. ASSUME NEW j \in Conexiones, NEW pedido \in PedidosDe, Llamar(j, pedido)
         PROVE  Atendido(k)'
    <2>1. /\ ~caido /\ UNCHANGED <<extremo, cola>>
          /\ conexion' = [conexion EXCEPT ![j].entrada = Append(@, pedido),
                                          ![j].espera = (pedido # "avisa")]
      BY <1>13, Zenon DEF Llamar
    <2>2. conexion[k].estado = "viva"
      BY <1>2, <2>1 DEF Clientela
    <2>3. QED
      BY <2>1, <2>2, ViveIgual
  <1>14. QED
    BY <1>4, <1>5, <1>6, <1>7, <1>8, <1>9, <1>10, <1>11, <1>12, <1>13, Zenon
    DEF Next, PasoServidor

(***************************************************************************)
(* Why the first clients have a slot.  They are accepted in the order of   *)
(* their numbers, and the slot i is only filled when the client i + 1 was  *)
(* accepted: the slots before it were taken.                               *)
(***************************************************************************)
Aceptado(q, c, k) == c[k].estado # "no" /\ \A n \in 1 .. Len(q) : q[n] # k

\* Clients come in the order of their numbers, and wait in that order.
Llegada(q, c) ==
  /\ \A k \in Conexiones : c[k].estado = "no" => c[k] = Ausente
  /\ \A j, k \in Conexiones : j < k /\ c[j].estado = "no" => c[k].estado = "no"
  /\ \A n, m \in 1 .. Len(q) : n < m => q[n] < q[m]

\* The slots that were filled, and the clients that have one.
Llenas(cs, q, c) ==
  \A i \in Ranuras : cs[i] # 0 => i + 1 \in Conexiones /\ Aceptado(q, c, i + 1)
ConRanura(e, cs) ==
  \A k \in Conexiones, f \in Fds :
      k <= max_clients /\ e[f] = k => \E i \in Ranuras : cs[i] = f

Reparto ==
  /\ Partes
  /\ ~caido => /\ Llegada(cola, conexion) /\ Llenas(client_socket, cola, conexion)
               /\ ConRanura(extremo, client_socket)
  /\ caido => \A f \in Fds : extremo[f] = Cerrado

LEMMA RepartoInicial == Init => Reparto
  <1> SUFFICES ASSUME Init PROVE Reparto
    OBVIOUS
  <1>1. Partes
    BY TiposIniciales
  <1>2. /\ \A k \in Conexiones : conexion[k] = Ausente
        /\ cola = <<>> /\ \A i \in Ranuras : client_socket[i] = 0
    BY DEF Init
  <1>3. \A f \in Fds : extremo[f] \notin Conexiones
    BY NoSonClientes DEF Init
  <1>4. ~caido
    BY DEF Init
  <1>5. Llegada(cola, conexion)
    BY <1>2 DEF Llegada, Ausente
  <1>6. QED
    BY <1>1, <1>2, <1>3, <1>4, <1>5 DEF Reparto, Llenas, ConRanura

\* The first slot that is free comes before all the others that are.
LEMMA PrimeraRanura ==
  ASSUME NEW fd
  PROVE  \/ /\ \A i \in Ranuras : client_socket[i] # 0
            /\ Asignadas(fd) = client_socket
         \/ \E i \in Ranuras : /\ client_socket[i] = 0
                               /\ \A j \in Ranuras : client_socket[j] = 0 => i <= j
                               /\ Asignadas(fd) = [client_socket EXCEPT ![i] = fd]
  <1> DEFINE libres == {i \in Ranuras : client_socket[i] = 0}
  <1>1. CASE libres = {}
    BY <1>1 DEF Asignadas
  <1>2. CASE libres # {}
    <2>1. libres \in SUBSET Nat
      BY Constantes
    <2>2. Min(libres) \in libres /\ \A j \in libres : Min(libres) <= j
      BY <1>2, <2>1, HayMinimo DEF Min
    <2>3. Asignadas(fd) = [client_socket EXCEPT ![Min(libres)] = fd]
      BY <1>2 DEF Asignadas
    <2>4. QED
      BY <2>2, <2>3
  <1>3. QED
    BY <1>1, <1>2

\* The first of the queue is accepted: all those with a lower number were.
LEMMA AceptadosEnOrden ==
  ASSUME NEW q \in Seq(Conexiones), NEW c, Llegada(q, c), q # <<>>, c[q[1]].estado # "no"
  PROVE  /\ q[1] \in Conexiones
         /\ \A j \in Conexiones : j <= q[1] => Aceptado(Tail(q), c, j)
         /\ \A j \in Conexiones : Aceptado(q, c, j) => Aceptado(Tail(q), c, j)
         /\ Llegada(Tail(q), c)
  <1>1. /\ Len(q) \in Nat /\ 1 \in 1 .. Len(q) /\ q[1] \in Conexiones
        /\ Len(Tail(q)) = Len(q) - 1
        /\ \A n \in 1 .. Len(q) - 1 : Tail(q)[n] = q[n + 1] /\ n + 1 \in 1 .. Len(q)
        /\ \A n \in 1 .. Len(q) : q[n] \in Conexiones
    OBVIOUS
  <1>2. \A j \in Conexiones : j \in Nat
    BY Constantes
  <1>3. ASSUME NEW j \in Conexiones, j <= q[1] PROVE Aceptado(Tail(q), c, j)
    <2>1. c[j].estado # "no"
      BY <1>1, <1>2, <1>3 DEF Llegada
    <2>2. ASSUME NEW n \in 1 .. Len(Tail(q)) PROVE Tail(q)[n] # j
      <3>1. Tail(q)[n] = q[n + 1] /\ n + 1 \in 1 .. Len(q) /\ 1 < n + 1
        BY <1>1
      <3>2. q[1] < q[n + 1]
        BY <1>1, <3>1 DEF Llegada
      <3>3. QED
        BY <1>1, <1>2, <1>3, <3>1, <3>2
    <2>3. QED
      BY <2>1, <2>2 DEF Aceptado
  <1>4. \A j \in Conexiones : Aceptado(q, c, j) => Aceptado(Tail(q), c, j)
    BY <1>1 DEF Aceptado
  <1>5. \A n, m \in 1 .. Len(Tail(q)) : n < m => Tail(q)[n] < Tail(q)[m]
    <2> TAKE n, m \in 1 .. Len(Tail(q))
    <2>1. /\ n + 1 \in 1 .. Len(q) /\ m + 1 \in 1 .. Len(q)
          /\ Tail(q)[n] = q[n + 1] /\ Tail(q)[m] = q[m + 1]
      BY <1>1
    <2>2. n < m => q[n + 1] < q[m + 1]
      BY <2>1 DEF Llegada
    <2>3. QED
      BY <2>1, <2>2
  <1>6. Llegada(Tail(q), c)
    BY <1>5 DEF Llegada
  <1>7. QED
    BY <1>1, <1>3, <1>4, <1>6

LEMMA RepartoAceptar ==
  ASSUME Reparto, ~caido, Aceptar, ~Caer
  PROVE  /\ Llegada(cola, conexion)' /\ Llenas(client_socket, cola, conexion)'
         /\ ConRanura(extremo, client_socket)'
  <1> DEFINE fd == FdLibre
             k  == cola[1]
  <1>1. /\ cola # <<>> /\ FdsLibres # {} /\ cola' = Tail(cola) /\ conexion' = conexion
        /\ extremo' = [extremo EXCEPT ![fd] = Head(cola)]
        /\ client_socket' = Asignadas(fd)
    BY Zenon DEF Aceptar
  <1>2. fd \in Fds /\ extremo[fd] = Cerrado
    BY <1>1, DescriptorLibre
  <1>3. /\ Tablas(extremo, client_socket, cola, conexion)
        /\ Llegada(cola, conexion) /\ Llenas(client_socket, cola, conexion)
        /\ ConRanura(extremo, client_socket)
    BY DEF Reparto, Partes
  <1>4. /\ extremo \in [Fds -> Objetos] /\ client_socket \in [Ranuras -> Fds]
        /\ cola \in Seq(Conexiones) /\ extremo[0] = Ajeno
    BY <1>3 DEF Tablas
  <1>5. k = Head(cola) /\ 1 \in 1 .. Len(cola) /\ k \in Conexiones
    BY <1>1, <1>4
  <1>6. conexion[k].estado # "no"
    BY <1>3, <1>5 DEF Tablas
  <1>7. /\ \A j \in Conexiones : j <= k => Aceptado(Tail(cola), conexion, j)
        /\ \A j \in Conexiones : Aceptado(cola, conexion, j) => Aceptado(Tail(cola), conexion, j)
        /\ Llegada(Tail(cola), conexion)
    BY <1>1, <1>3, <1>4, <1>6, AceptadosEnOrden
  <1>8. k \in Nat /\ fd # 0 /\ max_clients \in Nat /\ MaxConexiones \in Nat
    BY <1>2, <1>4, <1>5, Constantes, Numeros, NoSonClientes
  <1>9. k <= max_clients => k - 1 \in Ranuras /\ client_socket[k - 1] = 0
    <2> HAVE k <= max_clients
    <2>1. k - 1 \in Ranuras /\ (k - 1) + 1 = k
      BY <1>5, <1>8 DEF Ranuras, Conexiones
    <2>2. ~Aceptado(cola, conexion, k)
      BY <1>5 DEF Aceptado
    <2>3. QED
      BY <1>3, <2>1, <2>2 DEF Llenas
  <1> HIDE DEF fd, k
  <1>10. extremo' = [extremo EXCEPT ![fd] = k]
    BY <1>1, <1>5
  <1>11. \A i \in Ranuras : client_socket[i] # 0 => client_socket'[i] = client_socket[i]
    BY <1>1, <1>4, PrimeraRanura
  <1>12. \A i \in Ranuras : client_socket'[i] # 0 /\ client_socket[i] = 0 => i + 1 <= k
    <2>1. ASSUME NEW i \in Ranuras, client_socket[i] = 0,
                 \A j \in Ranuras : client_socket[j] = 0 => i <= j
          PROVE  i + 1 <= k
      BY <1>8, <1>9, <2>1 DEF Ranuras
    <2>2. QED
      BY <1>1, <1>4, <2>1, PrimeraRanura
  <1>13. Llenas(client_socket, cola, conexion)'
    <2>1. ASSUME NEW i \in Ranuras, client_socket'[i] # 0
          PROVE  i + 1 \in Conexiones /\ Aceptado(Tail(cola), conexion, i + 1)
      <3>1. CASE client_socket[i] # 0
        BY <1>3, <1>7, <3>1 DEF Llenas
      <3>2. CASE client_socket[i] = 0
        <4>1. i + 1 <= k /\ i \in Nat
          BY <1>12, <2>1, <3>2, Constantes
        <4>2. i + 1 \in Conexiones
          BY <1>5, <1>8, <4>1 DEF Conexiones
        <4>3. QED
          BY <1>7, <4>1, <4>2
      <3>3. QED
        BY <3>1, <3>2
    <2>2. QED
      BY <1>1, <2>1 DEF Llenas
  <1>14. ConRanura(extremo, client_socket)'
    <2>1. ASSUME NEW j \in Conexiones, NEW f \in Fds, j <= max_clients, extremo'[f] = j
          PROVE  \E i \in Ranuras : client_socket'[i] = f
      <3>1. CASE f = fd
        <4>1. j = k
          BY <1>4, <1>10, <2>1, <3>1
        <4>2. k - 1 \in Ranuras /\ client_socket[k - 1] = 0
          BY <1>9, <2>1, <4>1
        <4>3. QED
          BY <1>1, <1>4, <3>1, <4>2, PrimeraRanura
      <3>2. CASE f # fd
        <4>1. extremo[f] = j
          BY <1>4, <1>10, <2>1, <3>2
        <4>2. PICK i \in Ranuras : client_socket[i] = f
          BY <1>3, <2>1, <4>1 DEF ConRanura
        <4>3. f # 0
          BY <1>4, <4>1, NoSonClientes
        <4>4. QED
          BY <1>11, <4>2, <4>3
      <3>3. QED
        BY <3>1, <3>2
    <2>2. QED
      BY <2>1 DEF ConRanura
  <1>15. QED
    BY <1>1, <1>7, <1>13, <1>14

\* A step that accepts nobody and where nobody comes.
LEMMA RepartoQuieto ==
  ASSUME Reparto, ~caido, cola' = cola,
         \A k \in Conexiones : conexion'[k].estado = "no" => conexion'[k] = conexion[k],
         \A k \in Conexiones : conexion[k].estado = "no" => conexion'[k] = conexion[k],
         \A i \in Ranuras : client_socket'[i] # 0 => client_socket[i] # 0,
         \A k \in Conexiones, f \in Fds : extremo'[f] = k =>
            extremo[f] = k /\ \A i \in Ranuras : client_socket[i] = f => client_socket'[i] = f
  PROVE  /\ Llegada(cola, conexion)' /\ Llenas(client_socket, cola, conexion)'
         /\ ConRanura(extremo, client_socket)'
  <1>1. /\ Llegada(cola, conexion) /\ Llenas(client_socket, cola, conexion)
        /\ ConRanura(extremo, client_socket)
    BY DEF Reparto
  <1>2. \A k \in Conexiones : conexion'[k].estado = "no" <=> conexion[k].estado = "no"
    OBVIOUS
  <1>3. Llegada(cola, conexion)'
    BY <1>1, <1>2 DEF Llegada
  <1>4. Llenas(client_socket, cola, conexion)'
    BY <1>1, <1>2 DEF Llenas, Aceptado
  <1>5. ConRanura(extremo, client_socket)'
    BY <1>1 DEF ConRanura
  <1>6. QED
    BY <1>3, <1>4, <1>5

LEMMA RepartoCerrar ==
  ASSUME Reparto, NEW i \in Ranuras, EnTurno(i), Sigue(i),
         Cerrar(i) \/ UNCHANGED <<extremo, client_socket>>,
         \A k \in Conexiones : conexion'[k].estado = "no" => conexion'[k] = conexion[k],
         \A k \in Conexiones : conexion[k].estado = "no" => conexion'[k] = conexion[k]
  PROVE  /\ Llegada(cola, conexion)' /\ Llenas(client_socket, cola, conexion)'
         /\ ConRanura(extremo, client_socket)'
  <1>1. /\ ~caido /\ cola' = cola /\ client_socket[i] \in Fds \ {0}
        /\ extremo \in [Fds -> Objetos] /\ client_socket \in [Ranuras -> Fds]
    BY RanuraLeida DEF Reparto, Partes, Sigue
  <1>2. \A j \in Ranuras : client_socket'[j] # 0 => client_socket[j] # 0
    BY <1>1 DEF Cerrar
  <1>3. \A k \in Conexiones, f \in Fds : extremo'[f] = k =>
           extremo[f] = k /\ \A j \in Ranuras : client_socket[j] = f => client_socket'[j] = f
    BY <1>1, NoSonClientes DEF Cerrar
  <1>4. QED
    BY <1>1, <1>2, <1>3, RepartoQuieto

LEMMA RepartoAtender ==
  ASSUME Reparto, NEW i \in Ranuras, Atender(i), ~Caer
  PROVE  /\ Llegada(cola, conexion)' /\ Llenas(client_socket, cola, conexion)'
         /\ ConRanura(extremo, client_socket)'
  <1>1. Partes
    BY DEF Reparto
  <1>2. /\ EnTurno(i) /\ Sigue(i) /\ UNCHANGED client_socket
        /\ \/ extremo' = extremo
           \/ \E fd \in Fds : extremo[fd] = Cerrado /\ extremo' = [extremo EXCEPT ![fd] = Ajeno]
        /\ extremo[client_socket[i]] \in Conexiones
        /\ \A j \in Conexiones :
              j # extremo[client_socket[i]] => conexion'[j] = conexion[j]
        /\ \A j \in Conexiones : conexion'[j].estado = "no" => conexion[j].estado = "no"
    BY <1>1, EfectoAtender
  <1>3. ~caido /\ client_socket[i] \in Fds /\ cola' = cola
    BY <1>1, <1>2, RanuraLeida DEF Sigue
  <1>4. conexion[extremo[client_socket[i]]].estado # "no" /\ extremo \in [Fds -> Objetos]
    BY <1>1, <1>2, <1>3 DEF Partes, Tablas
  <1>5. \A k \in Conexiones : conexion'[k].estado = "no" \/ conexion[k].estado = "no" =>
           conexion'[k] = conexion[k]
    BY <1>2, <1>4, Zenon
  <1>6. \A k \in Conexiones, f \in Fds : extremo'[f] = k => extremo[f] = k
    BY <1>2, <1>4, NoSonClientes
  <1>7. QED
    BY <1>2, <1>3, <1>5, <1>6, RepartoQuieto

\* A new client has the number after those that came.
LEMMA RepartoInit ==
  ASSUME Reparto, NEW k \in Conexiones, muse_init(k)
  PROVE  /\ Llegada(cola, conexion)' /\ Llenas(client_socket, cola, conexion)'
         /\ ConRanura(extremo, client_socket)'
  <1>1. /\ ~caido /\ UNCHANGED <<extremo, client_socket>>
        /\ conexion[k] = Ausente /\ cola' = Append(cola, k)
        /\ \A j \in Conexiones : j < k => conexion[j] # Ausente
        /\ conexion' = [conexion EXCEPT ![k] =
              [estado |-> "viva", entrada |-> <<"init">>, espera |-> TRUE]]
    BY Zenon DEF muse_init, bucle
  <1>2. /\ conexion \in Clientela /\ cola \in Seq(Conexiones)
        /\ Llegada(cola, conexion) /\ Llenas(client_socket, cola, conexion)
        /\ ConRanura(extremo, client_socket)
        /\ Tablas(extremo, client_socket, cola, conexion)
    BY <1>1, Zenon DEF Reparto, Partes
  <1>3. /\ conexion[k].estado = "no" /\ conexion'[k].estado = "viva"
        /\ \A j \in Conexiones : j # k => conexion'[j] = conexion[j]
    BY <1>1, <1>2 DEF Clientela, Ausente
  <1>4. /\ Len(cola) \in Nat /\ Len(cola') = Len(cola) + 1 /\ cola'[Len(cola) + 1] = k
        /\ \A n \in 1 .. Len(cola) : cola'[n] = cola[n] /\ cola[n] \in Conexiones
    BY <1>1, <1>2
  <1>5. \A j \in Conexiones : j \in Nat
    BY Constantes
  <1>6. \A n \in 1 .. Len(cola) : conexion[cola[n]].estado # "no"
    BY <1>2, <1>4 DEF Tablas
  <1>7. \A j \in Conexiones : conexion[j].estado # "no" => j < k
    BY <1>2, <1>3, <1>5 DEF Llegada
  <1>8. Llegada(cola, conexion)'
    <2>1. \A j \in Conexiones : conexion'[j].estado = "no" => conexion'[j] = Ausente
      BY <1>2, <1>3 DEF Llegada
    <2>2. ASSUME NEW j \in Conexiones, NEW m \in Conexiones, j < m, conexion'[j].estado = "no"
          PROVE  conexion'[m].estado = "no"
      <3>1. j # k /\ conexion[j].estado = "no" /\ conexion[j] = Ausente
        BY <1>2, <1>3, <2>2 DEF Llegada
      <3>2. ~(j < k)
        BY <1>1, <3>1
      <3>3. m # k /\ conexion[m].estado = "no"
        BY <1>2, <1>5, <2>2, <3>1, <3>2 DEF Llegada
      <3>4. QED
        BY <1>3, <3>3
    <2>3. \A n, m \in 1 .. Len(cola') : n < m => cola'[n] < cola'[m]
      <3> TAKE n, m \in 1 .. Len(cola')
      <3> HAVE n < m
      <3>1. n \in 1 .. Len(cola)
        BY <1>4
      <3>2. CASE m = Len(cola) + 1
        BY <1>4, <1>6, <1>7, <3>1, <3>2
      <3>3. CASE m # Len(cola) + 1
        <4>1. m \in 1 .. Len(cola)
          BY <1>4, <3>3
        <4>2. cola[n] < cola[m]
          BY <1>2, <3>1, <4>1 DEF Llegada
        <4>3. QED
          BY <1>4, <3>1, <4>1, <4>2
      <3>4. QED
        BY <3>2, <3>3
    <2>4. QED
      BY <2>1, <2>2, <2>3 DEF Llegada
  <1>9. \A j \in Conexiones : Aceptado(cola, conexion, j) => Aceptado(cola, conexion, j)'
    <2> TAKE j \in Conexiones
    <2> HAVE Aceptado(cola, conexion, j)
    <2>1. j # k /\ conexion'[j] = conexion[j] /\ conexion[j].estado # "no"
      BY <1>3 DEF Aceptado
    <2>2. \A n \in 1 .. Len(cola') : cola'[n] # j
      BY <1>4, <2>1 DEF Aceptado
    <2>3. QED
      BY <2>1, <2>2 DEF Aceptado
  <1>10. Llenas(client_socket, cola, conexion)'
    <2>1. \A i \in Ranuras : client_socket'[i] # 0 =>
             i + 1 \in Conexiones /\ Aceptado(cola, conexion, i + 1)
      BY <1>1, <1>2 DEF Llenas
    <2> HIDE DEF Aceptado
    <2>2. QED
      BY <1>9, <2>1 DEF Llenas
  <1>11. ConRanura(extremo, client_socket)'
    BY <1>1, <1>2 DEF ConRanura
  <1>12. QED
    BY <1>8, <1>10, <1>11

\* Nothing is left open when the server ends, and nothing happens after that.
LEMMA NadieTrasCaer ==
  ASSUME Reparto, [Next]_vars, caido'
  PROVE  \A f \in Fds : extremo'[f] = Cerrado
  <1>1. CASE Caer
    BY <1>1 DEF Caer
  <1>2. CASE UNCHANGED vars
    BY <1>2 DEF vars, Reparto
  <1>3. CASE Next /\ ~Caer
    <2>1. ~Seleccionar /\ ~Aceptar /\ ~FinDeVuelta
      BY <1>3, Zenon DEF Seleccionar, Aceptar, FinDeVuelta
    <2>2. \A i : ~(EnTurno(i) /\ Sigue(i))
      BY Zenon DEF EnTurno, Sigue
    <2>3. \A i \in Ranuras : ~Atender(i) /\ ~Despedir(i) /\ ~Equivocarse(i)
      BY <1>3, <2>2, Zenon DEF Atender, Despedir, Equivocarse
    <2>4. \A k \in Conexiones : ~muse_init(k) /\ ~Salir(k)
      BY Zenon DEF muse_init, Salir
    <2>5. \A k \in Conexiones, pedido \in PedidosDe : ~Llamar(k, pedido)
      BY Zenon DEF Llamar
    <2>6. QED
      BY <1>3, <2>1, <2>3, <2>4, <2>5, Zenon DEF Next, PasoServidor
  <1>4. QED
    BY <1>1, <1>2, <1>3

LEMMA RepartoInductivo == Reparto /\ [Next]_vars => Reparto'
  <1> DEFINE Meta == /\ Llegada(cola, conexion) /\ Llenas(client_socket, cola, conexion)
                     /\ ConRanura(extremo, client_socket)
  <1> SUFFICES ASSUME Reparto, [Next]_vars, ~caido' PROVE Meta'
    BY PartesInductivo, NadieTrasCaer DEF Reparto
  <1>1. ~Caer /\ Partes /\ conexion \in Clientela
    BY DEF Caer, Reparto, Partes
  <1>2. CASE UNCHANGED vars
    <2>1. ~caido /\ UNCHANGED <<extremo, client_socket, cola, conexion>>
      BY <1>2 DEF vars
    <2>2. QED
      BY <2>1, RepartoQuieto
  <1>3. ASSUME NEW k \in Conexiones, muse_init(k) PROVE Meta'
    BY <1>3, RepartoInit
  <1>4. ASSUME NEW k \in Conexiones, Salir(k) PROVE Meta'
    <2>1. /\ ~caido /\ UNCHANGED <<extremo, client_socket, cola>>
          /\ conexion[k].estado = "viva"
          /\ conexion' = [conexion EXCEPT ![k].estado = "fin", ![k].espera = FALSE]
      BY <1>4, Zenon DEF Salir, bucle
    <2>2. /\ conexion'[k].estado = "fin"
          /\ \A j \in Conexiones : j # k => conexion'[j] = conexion[j]
      BY <1>1, <2>1 DEF Clientela
    <2>3. QED
      BY <2>1, <2>2, RepartoQuieto
  <1>5. ASSUME NEW k \in Conexiones, NEW pedido \in PedidosDe, Llamar(k, pedido) PROVE Meta'
    <2>1. /\ ~caido /\ UNCHANGED <<extremo, client_socket, cola>>
          /\ conexion[k].estado = "viva"
          /\ conexion' = [conexion EXCEPT ![k].entrada = Append(@, pedido),
                                          ![k].espera = (pedido # "avisa")]
      BY <1>5, Zenon DEF Llamar, bucle
    <2>2. /\ conexion'[k].estado = "viva"
          /\ \A j \in Conexiones : j # k => conexion'[j] = conexion[j]
      BY <1>1, <2>1 DEF Clientela
    <2>3. QED
      BY <2>1, <2>2, RepartoQuieto
  <1>6. CASE Seleccionar
    <2>1. ~caido /\ UNCHANGED <<extremo, client_socket, cola, conexion>>
      BY <1>6, Zenon DEF Seleccionar
    <2>2. QED
      BY <2>1, RepartoQuieto
  <1>7. CASE Aceptar
    BY <1>1, <1>7, RepartoAceptar DEF Aceptar
  <1>8. CASE FinDeVuelta
    <2>1. ~caido /\ UNCHANGED <<extremo, client_socket, cola, conexion>>
      BY <1>8, Zenon DEF FinDeVuelta
    <2>2. QED
      BY <2>1, RepartoQuieto
  <1>9. ASSUME NEW i \in Ranuras, Atender(i) PROVE Meta'
    BY <1>1, <1>9, RepartoAtender
  <1>10. ASSUME NEW i \in Ranuras, Despedir(i) PROVE Meta'
    <2>1. EnTurno(i) /\ Sigue(i) /\ Cerrar(i) /\ conexion' = conexion
      BY <1>10, Zenon DEF Despedir
    <2>2. QED
      BY <2>1, RepartoCerrar
  <1>11. ASSUME NEW i \in Ranuras, Equivocarse(i) PROVE Meta'
    <2>1. /\ EnTurno(i) /\ Sigue(i)
          /\ Cerrar(i) \/ UNCHANGED <<extremo, client_socket>>
          /\ extremo[client_socket[i]] \in Conexiones =>
                conexion[extremo[client_socket[i]]].estado = "reset"
          /\ \A j \in Conexiones :
                \/ conexion'[j] = conexion[j]
                \/ j = extremo[client_socket[i]] /\ conexion'[j].estado = "fin"
      BY <1>1, <1>11, EfectoEquivocarse
    <2>2. \A j \in Conexiones : conexion'[j].estado = "no" \/ conexion[j].estado = "no" =>
             conexion'[j] = conexion[j]
      BY <2>1
    <2>3. QED
      BY <2>1, <2>2, RepartoCerrar
  <1> HIDE DEF Meta
  <1>12. QED
    BY <1>2, <1>3, <1>4, <1>5, <1>6, <1>7, <1>8, <1>9, <1>10, <1>11, Zenon
    DEF Next, PasoServidor

(***************************************************************************)
(* The theorems.                                                           *)
(***************************************************************************)

\* For any number of slots, clients and descriptors, however many slots have
\* been left: two slots only share a number, and a slot only names something
\* that is no client, when that number is the index of a slot that was left;
\* and each client has one descriptor at most.
THEOREM Invariante == Spec => []IInv
  <1>1. QED
    BY SiemprePartes, EnPartes, PTL

\* The only thread sleeps in accept with nobody waiting, or in recv of a client
\* that has sent nothing, only if some slot was left by its client and its
\* index is the number of a client or of a descriptor that is not open.
THEOREM SoloDuermePorUnaRanura == Spec => []SoloDuermeSiTrabado
  <1>1. Init => Vigilia
    BY TiposIniciales, VigiliaInicial DEF Vigilia
  <1>2. Vigilia => SoloDuermeSiTrabado
    <2> SUFFICES ASSUME Partes, VigiliaOK, Dormido PROVE Trabado
      BY DEF Vigilia, SoloDuermeSiTrabado
    <2>1. activity \in {"listos", "error"}
      BY DEF Partes, BucleOK
    <2>2. CASE activity = "error"
      BY <2>2 DEF VigiliaOK, Trabado, Vencida, Caducado
    <2>3. CASE activity = "listos"
      <3>1. ~(lugar = "accept" /\ extremo[master_socket] = Escucha /\ cola = <<>>)
        BY <2>3 DEF VigiliaOK
      <3>2. PICK i : /\ i = Min(Pendientes) /\ lugar = "recorre" /\ Pendientes # {}
                     /\ extremo[client_socket[i]] \in Conexiones
                     /\ Callado(extremo[client_socket[i]])
        BY <3>1 DEF Dormido, Callado
      <3>3. i \in Pendientes
        <4>1. Pendientes \in SUBSET Nat
          BY Constantes DEF Pendientes
        <4>2. QED
          BY <3>2, <4>1, PrimeroEsta
      <3> HIDE DEF Callado
      <3>4. Caducado(client_socket, client_socket[i])
        BY <2>3, <3>2, <3>3 DEF VigiliaOK
      <3>5. QED
        BY <3>2, <3>4 DEF Trabado, Vencida, Caducado
    <2>4. QED
      BY <2>1, <2>2, <2>3
  <1>3. QED
    BY <1>1, <1>2, VigiliaInductiva, PTL DEF Spec

\* However many stale slots the server reads and closes, a client that has not
\* left still has its descriptor or its place in the queue.
THEOREM NoCierraAlQueEsta == Spec => []SoloCierraAlQueSeFue
  <1>1. Init => ViveAtendido
    <2>1. Init => \A k \in Conexiones : conexion[k].estado # "viva"
      BY DEF Init, Ausente
    <2>2. QED
      BY <2>1, TiposIniciales DEF ViveAtendido
  <1>2. ViveAtendido => SoloCierraAlQueSeFue
    BY Zenon DEF ViveAtendido, Atendido, SoloCierraAlQueSeFue
  <1>3. QED
    BY <1>1, <1>2, ViveInductivo, PTL DEF Spec
\* As many clients as there are slots, the first that are accepted, each have a
\* slot as long as they have a descriptor, although the slots of those that
\* leave are lost.
THEOREM LosPrimerosTienenRanura == Spec => []PrimerosConRanura
  <1>1. Reparto => PrimerosConRanura
    <2> SUFFICES ASSUME Reparto, NEW k \in 1 .. Min({max_clients, MaxConexiones}),
                        NEW f \in Fds, extremo[f] = k
                 PROVE  \E i \in Ranuras : client_socket[i] = f
      BY DEF PrimerosConRanura
    <2>1. /\ {max_clients, MaxConexiones} \in SUBSET Nat
          /\ {max_clients, MaxConexiones} # {}
      BY Numeros
    <2>2. LET m == Min({max_clients, MaxConexiones})
          IN m \in Nat /\ m <= max_clients /\ m <= MaxConexiones
      BY <2>1, HayMinimo DEF Min
    <2>3. k \in Conexiones /\ k <= max_clients
      BY <2>2, Numeros DEF Conexiones
    <2>4. extremo \in [Fds -> Objetos]
      BY DEF Reparto, Partes
    <2>5. CASE caido
      BY <2>3, <2>5, NoSonClientes DEF Reparto
    <2>6. CASE ~caido
      BY <2>3, <2>6 DEF Reparto, ConRanura
    <2>7. QED
      BY <2>5, <2>6
  <1>2. QED
    BY <1>1, RepartoInicial, RepartoInductivo, PTL DEF Spec
=============================================================================
