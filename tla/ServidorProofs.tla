--------------------------- MODULE ServidorProofs ---------------------------
(***************************************************************************)
(* What holds of the server of SAC and its clients for any processes of    *)
(* sac-cli, any threads on either side, any directories, any calls and any *)
(* failures.                                                               *)
(***************************************************************************)
EXTENDS SacServidor, FiniteSetTheorems, TLAPS

\* The connection of a busy thread of the server.
Encargo(h) == IF hilo[h].pc = "nace" THEN nuevo_cliente ELSE hilo[h].con

\* The connection x belongs to a call that began.
Empezada(x) == x[2] <= hebra[x[1]].n

\* A thread that calls has a connection, and once it waits it has sent.
HebraOK ==
  \A t \in Hebras : hebra[t].pc # "libre" =>
    /\ Actual(t) \in Conexiones
    /\ hebra[t].pc \in {"send", "recv"} => conexion[Actual(t)].enviado

\* Only a process that dies closes before it has sent.
CerradaOK ==
  \A x \in Conexiones : conexion[x].cliente = "cerrada" =>
    conexion[x].enviado \/ De(x) \in muertos

\* The threads of the server and the connections that are open match.
CargoOK ==
  /\ \A h \in Hilos : hilo[h].pc # "libre" =>
       conexion[Encargo(h)].servidor = "abierta" /\ Empezada(Encargo(h))
  /\ \A x \in Conexiones : conexion[x].servidor = "abierta" => \E h \in Hilos : ACargo(h, x)

ColaOK == \A i \in 1 .. Len(cola) : Empezada(cola[i])

\* The inductive invariant.
Inductivo ==
  IInv /\ HebraOK /\ CerradaOK /\ CargoOK /\ ColaOK /\ TurniqueteConDueno

Estados   == {"no", "vacio", "lleno"}
TipoHilo  == [pc : {"libre", "nace", "recv", "send", "mensajito"},
              con : Conexiones \cup {Nadie}, resp : Respuestas, resto : BOOLEAN]
TipoHebra == [pc : {"libre", "connect", "send", "recv"},
              n : 0 .. MaxLlamadas, abre : Dirs \cup {Nadie}]

LEMMA Constantes ==
  /\ \A t \in Hebras : ClienteDe[t] \in Clientes
  /\ Nadie \notin Hebras /\ Nadie \notin Dirs /\ Nadie \notin Conexiones
  /\ MaxLlamadas \in Nat /\ MaxFallas \in Nat /\ Dirs \subseteq Seq(Nombres)
  /\ \A p \in Operaciones :
        /\ p.op \in Callbacks /\ p.dir \in Dirs /\ p.nuevo \in Dirs \cup {Nadie}
        /\ p.op = "rename" => p.nuevo # Nadie
  <1>1. /\ ClienteDe \in [Hebras -> Clientes]
        /\ Nadie \notin Hebras \cup Dirs \cup (Hebras \X Nat)
        /\ MaxLlamadas \in Nat /\ MaxFallas \in Nat /\ Dirs \subseteq Seq(Nombres) \ {<<>>}
        /\ Operaciones \subseteq [op : Callbacks, dir : Dirs, nuevo : Dirs \cup {Nadie}]
        /\ \A p \in Operaciones : (p.op = "rename") = (p.nuevo # Nadie)
    BY SacServidorConstantes, Zenon
  <1>2. \A p \in Operaciones :
           /\ p.op \in Callbacks /\ p.dir \in Dirs /\ p.nuevo \in Dirs \cup {Nadie}
           /\ p.op = "rename" => p.nuevo # Nadie
    BY <1>1
  <1>3. QED
    BY <1>1, <1>2 DEF Conexiones

LEMMA ConexionDe ==
  ASSUME NEW x \in Conexiones
  PROVE  /\ x[1] \in Hebras /\ x[2] \in 1 .. MaxLlamadas /\ x[2] \in Nat
         /\ De(x) \in Clientes /\ x = <<x[1], x[2]>>
  BY Constantes DEF Conexiones, De

(***************************************************************************)
(* The types.                                                              *)
(***************************************************************************)
LEMMA Tipos ==
  TypeOK <=>
    /\ directorios \in [Dirs -> Estados]
    /\ principal \in {"lock", "accept"} /\ thread \in BOOLEAN
    /\ nuevo_cliente \in Conexiones \cup {Nadie} /\ cola \in Seq(Conexiones)
    /\ hilo \in [Hilos -> TipoHilo] /\ caido \in BOOLEAN
    /\ conexion \in [Conexiones -> TipoConexion] /\ hebra \in [Hebras -> TipoHebra]
    /\ sockete \in [Clientes -> Hebras \cup {Nadie}]
    /\ muertos \subseteq Clientes /\ fallas \in 0 .. MaxFallas
  BY DEF TypeOK, Estados, TipoHilo, TipoHebra

LEMMA OciosoOK == Ocioso \in TipoHilo /\ Ocioso.pc = "libre"
  BY DEF Ocioso, TipoHilo, Respuestas

\* A field of a connection changes, and nothing else does.
LEMMA ConServidor ==
  ASSUME NEW c \in [Conexiones -> TipoConexion], NEW x \in Conexiones,
         NEW v \in {"no", "abierta", "cerrada", "olvidada"},
         NEW c2, c2 = [c EXCEPT ![x].servidor = v]
  PROVE  /\ c2 \in [Conexiones -> TipoConexion]
         /\ c2[x].servidor = v /\ c2[x].cliente = c[x].cliente /\ c2[x].enviado = c[x].enviado
         /\ \A y \in Conexiones : y # x => c2[y] = c[y]
  <1>1. c[x] \in TipoConexion
    OBVIOUS
  <1>2. [c[x] EXCEPT !.servidor = v] \in TipoConexion
    BY <1>1 DEF TipoConexion
  <1>3. /\ [c[x] EXCEPT !.servidor = v].servidor = v
        /\ [c[x] EXCEPT !.servidor = v].cliente = c[x].cliente
        /\ [c[x] EXCEPT !.servidor = v].enviado = c[x].enviado
    BY <1>1 DEF TipoConexion
  <1>4. c2 = [c EXCEPT ![x] = [c[x] EXCEPT !.servidor = v]]
    OBVIOUS
  <1> DEFINE r == [c[x] EXCEPT !.servidor = v]
  <1> HIDE DEF r
  <1>5. c2[x] = r /\ \A y \in Conexiones : y # x => c2[y] = c[y]
    BY <1>4 DEF r
  <1>6. c2 \in [Conexiones -> TipoConexion]
    BY <1>2, <1>4 DEF r
  <1>7. QED
    BY <1>3, <1>5, <1>6 DEF r

\* A thread of the server starts.
LEMMA NaceOK ==
  ASSUME NEW f \in [Hilos -> TipoHilo], NEW h \in Hilos
  PROVE  [f EXCEPT ![h].pc = "nace"] \in [Hilos -> TipoHilo]
  <1>1. [f[h] EXCEPT !.pc = "nace"] \in TipoHilo
    BY DEF TipoHilo
  <1>2. QED
    BY <1>1

\* A failure is counted.
LEMMA FallaOK ==
  ASSUME NEW que, TypeOK, Falla(que)
  PROVE  fallas' \in 0 .. MaxFallas /\ fallas' > 0
  BY Constantes DEF Falla, TypeOK

LEMMA TipoInicial == Init => TypeOK
  <1> SUFFICES ASSUME Init PROVE TypeOK
    OBVIOUS
  <1>0. directorios \in {s \in [Dirs -> Estados] : Arbol(s)}
    BY Zenon DEF Init, Estados
  <1>1. /\ directorios \in [Dirs -> Estados] /\ principal = "lock" /\ thread = FALSE
        /\ nuevo_cliente = Nadie /\ cola = <<>> /\ caido = FALSE
        /\ hilo = [h \in Hilos |-> Ocioso] /\ conexion = [x \in Conexiones |-> Nueva]
        /\ sockete = [c \in Clientes |-> Nadie] /\ muertos = {} /\ fallas = 0
    BY <1>0, Zenon DEF Init
  <1>2. PICK abre \in Dirs \cup {Nadie} :
           hebra = [t \in Hebras |-> [pc |-> "libre", n |-> 0, abre |-> abre]]
    <2>1. PICK abre \in {d \in Dirs : directorios[d] # "no"} \cup
                  (IF \A d \in Dirs : directorios[d] = "no" THEN {Nadie} ELSE {}) :
             hebra = [t \in Hebras |-> [pc |-> "libre", n |-> 0, abre |-> abre]]
      BY Zenon DEF Init
    <2>2. abre \in Dirs \cup {Nadie}
      OBVIOUS
    <2>3. QED
      BY <2>1, <2>2
  <1>3. hilo \in [Hilos -> TipoHilo]
    BY <1>1, OciosoOK
  <1>4. conexion \in [Conexiones -> TipoConexion]
    BY <1>1 DEF Nueva, TipoConexion, Callbacks, Respuestas
  <1>5. hebra \in [Hebras -> TipoHebra]
    BY <1>2, Constantes DEF TipoHebra
  <1>6. /\ principal \in {"lock", "accept"} /\ nuevo_cliente \in Conexiones \cup {Nadie}
        /\ cola \in Seq(Conexiones) /\ sockete \in [Clientes -> Hebras \cup {Nadie}]
        /\ muertos \subseteq Clientes /\ fallas \in 0 .. MaxFallas
    BY <1>1, Constantes
  <1>7. thread \in BOOLEAN /\ caido \in BOOLEAN
    BY <1>1
  <1>8. QED
    BY <1>1, <1>3, <1>4, <1>5, <1>6, <1>7, Tipos, Zenon

LEMMA TipoTomarTurno ==
  ASSUME TypeOK, TomarTurno
  PROVE  TypeOK'
  BY DEF TypeOK, TomarTurno, clientes

LEMMA TipoFallaAccept ==
  ASSUME TypeOK, FallaAccept
  PROVE  TypeOK'
  <1>1. fallas' \in 0 .. MaxFallas
    BY FallaOK DEF FallaAccept
  <1>2. QED
    BY <1>1 DEF TypeOK, FallaAccept, clientes

LEMMA TipoAceptar ==
  ASSUME TypeOK, Aceptar
  PROVE  TypeOK'
  <1>1. /\ cola # <<>> /\ principal' = "lock" /\ nuevo_cliente' = Head(cola) /\ cola' = Tail(cola)
        /\ UNCHANGED <<directorios, thread, caido, clientes>>
        /\ \/ /\ \E h \in Hilos : hilo' = [hilo EXCEPT ![h].pc = "nace"]
              /\ conexion' = [conexion EXCEPT ![Head(cola)].servidor = "abierta"]
              /\ fallas' = fallas
           \/ /\ Falla("pthread_create")
              /\ conexion' = [conexion EXCEPT ![Head(cola)].servidor = "olvidada"]
              /\ hilo' = hilo
    BY Zenon DEF Aceptar
  <1>2. /\ cola \in Seq(Conexiones) /\ hilo \in [Hilos -> TipoHilo]
        /\ conexion \in [Conexiones -> TipoConexion] /\ fallas \in 0 .. MaxFallas
    BY DEF TypeOK, TipoHilo
  <1>3. Head(cola) \in Conexiones /\ Tail(cola) \in Seq(Conexiones)
    BY <1>1, <1>2
  <1>4. conexion' \in [Conexiones -> TipoConexion]
    BY <1>1, <1>2, <1>3, ConServidor
  <1>a. hilo' = hilo \/ \E h \in Hilos : hilo' = [hilo EXCEPT ![h].pc = "nace"]
    BY <1>1, Zenon
  <1>5. hilo' \in [Hilos -> TipoHilo]
    BY <1>2, <1>a, NaceOK
  <1>6. fallas' \in 0 .. MaxFallas
    BY <1>1, <1>2, FallaOK
  <1>7. QED
    BY <1>1, <1>3, <1>4, <1>5, <1>6 DEF TypeOK, TipoHilo, clientes

LEMMA TipoCopiar ==
  ASSUME TypeOK, NEW h \in Hilos, Copiar(h)
  PROVE  TypeOK'
  <1>1. /\ hilo' = [hilo EXCEPT ![h] = [Ocioso EXCEPT !.pc = "recv", !.con = nuevo_cliente]]
        /\ UNCHANGED <<directorios, principal, thread, nuevo_cliente, cola, caido,
                       conexion, clientes, fallas>>
    BY Zenon DEF Copiar
  <1>2. [Ocioso EXCEPT !.pc = "recv", !.con = nuevo_cliente] \in TipoHilo
    BY OciosoOK DEF TypeOK, TipoHilo
  <1>3. hilo' \in [Hilos -> TipoHilo]
    BY <1>1, <1>2 DEF TypeOK, TipoHilo
  <1>4. QED
    BY <1>1, <1>3 DEF TypeOK, TipoHilo, clientes

\* The connection that a thread of the server has in its hands.
LEMMA Atendiendo ==
  ASSUME IInv, NEW h \in Hilos, hilo[h].pc \in {"recv", "send", "mensajito"}
  PROVE  /\ hilo[h].con \in Conexiones /\ Encargo(h) = hilo[h].con
         /\ thread /\ principal = "lock"
         /\ \A g \in Hilos : g # h => hilo[g].pc = "libre"
         /\ hilo[h] \in TipoHilo /\ conexion[hilo[h].con] \in TipoConexion
  <1>1. hilo[h].con \in Conexiones
    BY DEF IInv, ConexionOK
  <1>2. thread /\ \A g \in Hilos : g # h => hilo[g].pc = "libre"
    BY DEF IInv, TurnoOK
  <1>3. principal \in {"lock", "accept"} /\ principal # "accept"
    BY DEF IInv, TypeOK, TurnoOK
  <1>4. hilo[h] \in TipoHilo /\ conexion[hilo[h].con] \in TipoConexion
    BY <1>1, Tipos DEF IInv
  <1>5. QED
    BY <1>1, <1>2, <1>3, <1>4 DEF Encargo

\* One connection changes.
LEMMA UnaCambia ==
  ASSUME NEW c \in [Conexiones -> TipoConexion], NEW x \in Conexiones, NEW r \in TipoConexion,
         NEW c2, c2 = [c EXCEPT ![x] = r]
  PROVE  /\ c2 \in [Conexiones -> TipoConexion] /\ c2[x] = r
         /\ \A y \in Conexiones : y # x => c2[y] = c[y]
  OBVIOUS

LEMMA EfectoAbandonar ==
  ASSUME IInv, NEW h \in Hilos, Abandonar(h)
  PROVE  LET x == hilo[h].con IN
         /\ conexion' \in [Conexiones -> TipoConexion]
         /\ \A y \in Conexiones : y # x => conexion'[y] = conexion[y]
         /\ conexion'[x].servidor = "olvidada" /\ conexion'[x].cliente = conexion[x].cliente
         /\ conexion'[x].enviado = conexion[x].enviado
         /\ hilo' = [hilo EXCEPT ![h] = Ocioso]
  <1> DEFINE x == hilo[h].con
             q == [conexion[x] EXCEPT !.servidor = "olvidada"]
  <1>1. /\ hilo[h].pc = "recv" /\ hilo' = [hilo EXCEPT ![h] = Ocioso]
        /\ conexion' = [conexion EXCEPT ![x].servidor = "olvidada"]
    BY Zenon DEF Abandonar, En
  <1>2. /\ x \in Conexiones /\ conexion[x] \in TipoConexion
        /\ conexion \in [Conexiones -> TipoConexion]
    BY <1>1, Atendiendo, Tipos DEF IInv
  <1>3. q \in TipoConexion /\ q.servidor = "olvidada"
        /\ q.cliente = conexion[x].cliente /\ q.enviado = conexion[x].enviado
    BY <1>2 DEF TipoConexion
  <1>4. conexion' = [conexion EXCEPT ![x] = q]
    BY <1>1
  <1> HIDE DEF q
  <1>5. /\ conexion' \in [Conexiones -> TipoConexion] /\ conexion'[x] = q
        /\ \A y \in Conexiones : y # x => conexion'[y] = conexion[y]
    BY <1>2, <1>3, <1>4, UnaCambia, Zenon
  <1>6. QED
    BY <1>1, <1>3, <1>5, Zenon

\* What is left of the disk, what the answers say, and what takes a directory away.
LEMMA PonerSacar ==
  ASSUME NEW s \in [Dirs -> Estados], NEW d, NEW z \in Sacar(s, d)
  PROVE  /\ Poner(s, d) \in [Dirs -> Estados] /\ z \in [Dirs -> Estados]
         /\ \A e \in Dirs : s[e] # "no" => Poner(s, d)[e] # "no" /\ z[e] # "no"
  <1>1. Poner(s, d) = [e \in Dirs |-> IF e = d THEN "lleno" ELSE s[e]]
    BY DEF Poner
  <1>2. z = s \/ z = [e \in Dirs |-> IF e = d THEN "vacio" ELSE s[e]]
    BY DEF Sacar
  <1>3. QED
    BY <1>1, <1>2 DEF Estados

LEMMA EfectosDe ==
  ASSUME NEW s \in [Dirs -> Estados], NEW q, NEW ef \in Efectos(s, q)
  PROVE  /\ ef[1] \in [Dirs -> Estados] /\ ef[2] \in {"si", "no", "vacia", "lista"}
         /\ ef[2] = "vacia" => q.op = "readdir"
         /\ q.op = "opendir" => ef[1] = s /\ (s[q.dir] = "no" => ef[2] = "no")
         /\ \A e \in Dirs : s[e] # "no" /\ ef[1][e] = "no" => q.op \in Quita /\ Bajo(e, q.dir)
  <1> DEFINE d == q.dir
             a == q.nuevo
             Meta == /\ ef[1] \in [Dirs -> Estados] /\ ef[2] \in {"si", "no", "vacia", "lista"}
                     /\ ef[2] = "vacia" => q.op = "readdir"
                     /\ q.op = "opendir" => ef[1] = s /\ (s[d] = "no" => ef[2] = "no")
                     /\ \A e \in Dirs : s[e] # "no" /\ ef[1][e] = "no" =>
                                         q.op \in Quita /\ Bajo(e, d)
  <1>1. CASE ef[1] = s
    <2>1. ef[2] \in {"si", "no", "vacia", "lista"} /\ (ef[2] = "vacia" => q.op = "readdir")
          /\ (q.op = "opendir" /\ s[d] = "no" => ef[2] = "no")
      BY DEF Efectos, Hecho
    <2>2. QED
      BY <1>1, <2>1
  <1>2. ASSUME ef[1] # s PROVE Meta
    <2>1. /\ ef[2] = "si" /\ q.op # "opendir"
          /\ \/ ef[1] = Poner([s EXCEPT ![d] = "vacio"], Padre(d))
             \/ ef[1] = Poner(s, d)
             \/ ef[1] \in Sacar(s, d)
             \/ q.op = "rmdir" /\ ef[1] \in Sacar(Borrado(s, d), Padre(d))
             \/ /\ q.op = "rename"
                /\ \E z \in Sacar(Movido(s, d, a), Padre(d)) : ef[1] = Poner(z, Padre(a))
      BY <1>2 DEF Efectos, Hecho
    <2>2. ASSUME ef[1] = Poner([s EXCEPT ![d] = "vacio"], Padre(d))
          PROVE  ef[1] \in [Dirs -> Estados] /\ \A e \in Dirs : s[e] # "no" => ef[1][e] # "no"
      BY <2>2 DEF Poner, Estados
    <2>3. ASSUME ef[1] = Poner(s, d) \/ ef[1] \in Sacar(s, d)
          PROVE  ef[1] \in [Dirs -> Estados] /\ \A e \in Dirs : s[e] # "no" => ef[1][e] # "no"
      BY <2>3 DEF Poner, Sacar, Estados
    <2>4. ASSUME q.op = "rmdir", ef[1] \in Sacar(Borrado(s, d), Padre(d)) PROVE Meta
      <3>1. PICK b : b = Borrado(s, d)
        OBVIOUS
      <3>2. b \in [Dirs -> Estados] /\ \A e \in Dirs : ~Bajo(e, d) => b[e] = s[e]
        BY <3>1 DEF Borrado, Estados
      <3>3. ef[1] \in [Dirs -> Estados] /\ \A e \in Dirs : b[e] # "no" => ef[1][e] # "no"
        BY <2>4, <3>1, <3>2, PonerSacar
      <3>4. QED
        BY <2>1, <2>4, <3>2, <3>3 DEF Quita
    <2>5. ASSUME q.op = "rename", NEW z \in Sacar(Movido(s, d, a), Padre(d)),
                 ef[1] = Poner(z, Padre(a))
          PROVE  Meta
      <3>1. PICK b : b = Movido(s, d, a)
        OBVIOUS
      <3>2. b \in [Dirs -> Estados] /\ \A e \in Dirs : s[e] # "no" /\ ~Bajo(e, d) => b[e] # "no"
        BY <3>1 DEF Movido, Estados
      <3>3. z \in [Dirs -> Estados] /\ \A e \in Dirs : b[e] # "no" => z[e] # "no"
        BY <3>1, <3>2, PonerSacar
      <3>4. z \in Sacar(z, Padre(a))
        BY DEF Sacar
      <3>5. ef[1] \in [Dirs -> Estados] /\ \A e \in Dirs : z[e] # "no" => ef[1][e] # "no"
        BY <2>5, <3>3, <3>4, PonerSacar
      <3>6. QED
        BY <2>1, <2>5, <3>2, <3>3, <3>5 DEF Quita
    <2>6. QED
      BY <2>1, <2>2, <2>3, <2>4, <2>5
  <1>3. QED
    BY <1>1, <1>2

\* A move that is answered "si" leaves at the new path what was below the old one,
\* and one that is refused leaves everything.
LEMMA EfectoRenombrar ==
  ASSUME NEW s \in [Dirs -> Estados], NEW q, q.op = "rename", NEW ef \in Efectos(s, q),
         NEW e \in Dirs, NEW m \in Dirs, s[e] # "no",
         Mudado(m, q.nuevo, q.dir) = e, Bajo(m, q.nuevo), ~Bajo(m, q.dir)
  PROVE  ef[2] = "si" => ef[1][m] # "no"
  <1> SUFFICES ASSUME ef[2] = "si" PROVE ef[1][m] # "no"
    OBVIOUS
  <1>1. PICK z \in Sacar(Movido(s, q.dir, q.nuevo), Padre(q.dir)) : ef[1] = Poner(z, Padre(q.nuevo))
    BY DEF Efectos, Hecho
  <1>2. PICK b : b = Movido(s, q.dir, q.nuevo)
    OBVIOUS
  <1>3. b \in [Dirs -> Estados]
    BY <1>2 DEF Movido, Estados
  <1>4. b[m] = IF s[m] # "lleno" /\ s[e] # "no" THEN s[e] ELSE s[m]
    BY <1>2 DEF Movido
  <1>5. b[m] # "no"
    BY <1>4
  <1>6. z \in [Dirs -> Estados] /\ z[m] # "no"
    BY <1>1, <1>2, <1>3, <1>5, PonerSacar
  <1>7. z \in Sacar(z, Padre(q.nuevo))
    BY DEF Sacar
  <1>8. QED
    BY <1>1, <1>6, <1>7, PonerSacar

LEMMA EfectoAtender ==
  ASSUME IInv, NEW h \in Hilos, Atender(h)
  PROVE  LET x == hilo[h].con IN
         /\ conexion' \in [Conexiones -> TipoConexion]
         /\ \A y \in Conexiones : y # x => conexion'[y] = conexion[y]
         /\ conexion'[x].servidor = conexion[x].servidor
         /\ conexion'[x].cliente = conexion[x].cliente
         /\ conexion'[x].enviado = conexion[x].enviado
         /\ directorios' \in [Dirs -> Estados] /\ caido' \in BOOLEAN
         /\ \/ hilo' = hilo
            \/ \E r \in TipoHilo : /\ r.pc = "send" /\ r.con = x
                                   /\ hilo' = [hilo EXCEPT ![h] = r]
  <1> DEFINE x == hilo[h].con
             op == conexion[x].op
             efectos == Efectos(directorios, conexion[x])
  <1>1. hilo[h].pc = "recv"
    BY Zenon DEF Atender, En
  <1>2. /\ x \in Conexiones /\ hilo[h] \in TipoHilo /\ conexion[x] \in TipoConexion
        /\ conexion \in [Conexiones -> TipoConexion] /\ hilo \in [Hilos -> TipoHilo]
        /\ directorios \in [Dirs -> Estados] /\ caido \in BOOLEAN
    BY <1>1, Atendiendo, Tipos, Zenon DEF IInv
  <1>3. CASE caido' = TRUE /\ UNCHANGED <<directorios, hilo, conexion>>
    BY <1>2, <1>3
  <1>4. CASE /\ \E ef \in efectos, resto \in BOOLEAN :
                   /\ directorios' = ef[1]
                   /\ hilo' = [hilo EXCEPT ![h].pc = "send", ![h].resp = ef[2],
                                           ![h].resto = resto]
             /\ conexion' = [conexion EXCEPT ![x].atendida = TRUE]
             /\ caido' = caido
    <2>1. \A ef \in efectos : ef[1] \in [Dirs -> Estados] /\ ef[2] \in Respuestas
      BY <1>2, EfectosDe DEF Respuestas
    <2>2. [conexion[x] EXCEPT !.atendida = TRUE] \in TipoConexion
      BY <1>2 DEF TipoConexion
    <2>3. /\ [conexion[x] EXCEPT !.atendida = TRUE].servidor = conexion[x].servidor
          /\ [conexion[x] EXCEPT !.atendida = TRUE].cliente = conexion[x].cliente
          /\ [conexion[x] EXCEPT !.atendida = TRUE].enviado = conexion[x].enviado
      BY <1>2 DEF TipoConexion
    <2>4. conexion' = [conexion EXCEPT ![x] = [conexion[x] EXCEPT !.atendida = TRUE]]
      BY <1>4
    <2>5. PICK ef \in efectos, resto \in BOOLEAN :
             /\ directorios' = ef[1]
             /\ hilo' = [hilo EXCEPT ![h].pc = "send", ![h].resp = ef[2], ![h].resto = resto]
      BY <1>4, Zenon
    <2> DEFINE r == [hilo[h] EXCEPT !.pc = "send", !.resp = ef[2], !.resto = resto]
    <2>6. r \in TipoHilo /\ r.pc = "send" /\ r.con = x
      BY <1>2, <2>1 DEF TipoHilo
    <2>7. hilo' = [hilo EXCEPT ![h] = r]
      BY <2>5
    <2>8. directorios' \in [Dirs -> Estados]
      BY <2>1, <2>5
    <2> HIDE DEF r, efectos
    <2>9. caido' \in BOOLEAN
      BY <1>2, <1>4, Zenon
    <2>10. \E s \in TipoHilo : s.pc = "send" /\ s.con = x /\ hilo' = [hilo EXCEPT ![h] = s]
      BY <2>6, <2>7, Zenon
    <2> DEFINE q == [conexion[x] EXCEPT !.atendida = TRUE]
    <2> HIDE DEF q
    <2>11. /\ conexion' \in [Conexiones -> TipoConexion] /\ conexion'[x] = q
           /\ \A y \in Conexiones : y # x => conexion'[y] = conexion[y]
      BY <1>2, <2>2, <2>4, UnaCambia, Zenon DEF q
    <2>12. QED
      BY <2>3, <2>8, <2>9, <2>10, <2>11, Zenon DEF q
  <1>5. \/ caido' = TRUE /\ UNCHANGED <<directorios, hilo, conexion>>
        \/ /\ \E ef \in efectos :
              \E resto \in IF op = "write" THEN BOOLEAN ELSE {FALSE} :
                   /\ directorios' = ef[1]
                   /\ hilo' = [hilo EXCEPT ![h].pc = "send", ![h].resp = ef[2],
                                           ![h].resto = resto]
           /\ conexion' = [conexion EXCEPT ![x].atendida = TRUE]
           /\ caido' = caido
    BY Zenon DEF Atender
  <1>a. (IF op = "write" THEN BOOLEAN ELSE {FALSE}) \subseteq BOOLEAN
    OBVIOUS
  <1> HIDE DEF efectos, op
  <1>6. (caido' = TRUE /\ UNCHANGED <<directorios, hilo, conexion>>) \/
        (/\ \E ef \in efectos, resto \in BOOLEAN :
               /\ directorios' = ef[1]
               /\ hilo' = [hilo EXCEPT ![h].pc = "send", ![h].resp = ef[2],
                                       ![h].resto = resto]
         /\ conexion' = [conexion EXCEPT ![x].atendida = TRUE]
         /\ caido' = caido)
    BY <1>5, <1>a, Zenon
  <1>7. QED
    BY <1>3, <1>4, <1>6, Zenon

LEMMA EfectoResponder ==
  ASSUME IInv, NEW h \in Hilos, Responder(h)
  PROVE  LET x == hilo[h].con IN
         /\ conexion' \in [Conexiones -> TipoConexion]
         /\ \A y \in Conexiones : y # x => conexion'[y] = conexion[y]
         /\ conexion'[x].servidor = conexion[x].servidor
         /\ conexion'[x].cliente = conexion[x].cliente
         /\ conexion'[x].enviado = conexion[x].enviado
         /\ \E r \in TipoHilo : /\ r.pc = "mensajito" /\ r.con = x
                                /\ hilo' = [hilo EXCEPT ![h] = r]
  <1> DEFINE x == hilo[h].con
             r == [hilo[h] EXCEPT !.pc = "mensajito"]
             q == [conexion[x] EXCEPT !.respuesta = hilo[h].resp]
  <1>1. /\ hilo[h].pc = "send" /\ hilo' = [hilo EXCEPT ![h].pc = "mensajito"]
        /\ conexion' = [conexion EXCEPT ![x].respuesta = hilo[h].resp]
    BY Zenon DEF Responder, En
  <1>2. /\ x \in Conexiones /\ hilo[h] \in TipoHilo /\ conexion[x] \in TipoConexion
        /\ conexion \in [Conexiones -> TipoConexion]
    BY <1>1, Atendiendo, Tipos DEF IInv
  <1>3. q \in TipoConexion
    BY <1>2 DEF TipoConexion, TipoHilo
  <1>4. q.servidor = conexion[x].servidor /\ q.cliente = conexion[x].cliente
        /\ q.enviado = conexion[x].enviado
    BY <1>2 DEF TipoConexion
  <1>5. r \in TipoHilo /\ r.pc = "mensajito" /\ r.con = x
    BY <1>2 DEF TipoHilo
  <1>6. conexion' = [conexion EXCEPT ![x] = q] /\ hilo' = [hilo EXCEPT ![h] = r]
    BY <1>1
  <1> HIDE DEF q, r
  <1>7. /\ conexion' \in [Conexiones -> TipoConexion] /\ conexion'[x] = q
        /\ \A y \in Conexiones : y # x => conexion'[y] = conexion[y]
    BY <1>2, <1>3, <1>6, UnaCambia, Zenon
  <1>8. QED
    BY <1>4, <1>5, <1>6, <1>7, Zenon

LEMMA EfectoCerrar ==
  ASSUME IInv, NEW h \in Hilos, Cerrar(h)
  PROVE  LET x == hilo[h].con IN
         /\ conexion' \in [Conexiones -> TipoConexion]
         /\ \A y \in Conexiones : y # x => conexion'[y] = conexion[y]
         /\ conexion'[x].servidor = "cerrada"
         /\ conexion'[x].cliente = conexion[x].cliente
         /\ conexion'[x].enviado = conexion[x].enviado
         /\ hilo' = [hilo EXCEPT ![h] = Ocioso]
  <1> DEFINE x == hilo[h].con
  <1>1. hilo[h].pc = "mensajito" /\ hilo' = [hilo EXCEPT ![h] = Ocioso]
    BY Zenon DEF Cerrar, En
  <1>2. /\ x \in Conexiones /\ conexion[x] \in TipoConexion
        /\ conexion \in [Conexiones -> TipoConexion]
    BY <1>1, Atendiendo, Tipos DEF IInv
  <1>3. PICK s \in {conexion[x].respuesta} \cup
                   (IF SinLeer(h) /\ ~Volvio(x) THEN {"perdida"} ELSE {}) :
           conexion' = [conexion EXCEPT ![x].servidor = "cerrada", ![x].respuesta = s]
    BY Zenon DEF Cerrar
  <1>4. s \in Respuestas
    BY <1>2, <1>3 DEF TipoConexion, Respuestas
  <1> DEFINE q == [conexion[x] EXCEPT !.servidor = "cerrada", !.respuesta = s]
  <1>5. q \in TipoConexion /\ q.servidor = "cerrada"
        /\ q.cliente = conexion[x].cliente /\ q.enviado = conexion[x].enviado
    BY <1>2, <1>4 DEF TipoConexion
  <1>6. conexion' = [conexion EXCEPT ![x] = q]
    BY <1>3
  <1> HIDE DEF q
  <1>7. /\ conexion' \in [Conexiones -> TipoConexion] /\ conexion'[x] = q
        /\ \A y \in Conexiones : y # x => conexion'[y] = conexion[y]
    BY <1>2, <1>5, <1>6, UnaCambia, Zenon
  <1>8. QED
    BY <1>1, <1>5, <1>7, Zenon

(***************************************************************************)
(* The steps of the server.                                                *)
(***************************************************************************)

\* What the clients' part of the invariant needs of a step of the server.
LEMMA ClientesIguales ==
  ASSUME HebraOK, CerradaOK, UNCHANGED clientes,
         \A x \in Conexiones : /\ conexion'[x].enviado = conexion[x].enviado
                               /\ conexion'[x].cliente = conexion[x].cliente
  PROVE  HebraOK' /\ CerradaOK'
  <1>1. UNCHANGED <<hebra, sockete, muertos>>
    BY DEF clientes
  <1>2. HebraOK'
    BY <1>1 DEF HebraOK, Actual
  <1>3. CerradaOK'
    BY <1>1 DEF CerradaOK
  <1>4. QED
    BY <1>2, <1>3

\* The thread h goes on with its connection x, and nobody else has one.
LEMMA SigueHilo ==
  ASSUME Inductivo, NEW h \in Hilos, NEW x \in Conexiones,
         hilo[h].pc # "libre", Encargo(h) = x,
         NEW r \in TipoHilo, r.pc \in {"recv", "send", "mensajito"}, r.con = x,
         hilo' = [hilo EXCEPT ![h] = r],
         conexion' \in [Conexiones -> TipoConexion],
         \A y \in Conexiones : y # x => conexion'[y] = conexion[y],
         conexion'[x].servidor = conexion[x].servidor,
         conexion'[x].cliente = conexion[x].cliente,
         conexion'[x].enviado = conexion[x].enviado,
         directorios' \in [Dirs -> Estados], caido' \in BOOLEAN,
         UNCHANGED <<principal, thread, nuevo_cliente, cola, clientes, fallas>>
  PROVE  Inductivo'
  <1>1. TypeOK
    BY DEF Inductivo, IInv
  <1>2. hilo \in [Hilos -> TipoHilo] /\ cola \in Seq(Conexiones)
    BY <1>1, Tipos
  <1>3. /\ hilo'[h] = r /\ \A g \in Hilos : g # h => hilo'[g] = hilo[g]
        /\ hilo' \in [Hilos -> TipoHilo]
    BY <1>2
  <1>4. UNCHANGED <<hebra, sockete, muertos>>
    BY DEF clientes
  <1>5. TypeOK'
    BY <1>1, <1>3, <1>4, Tipos DEF TypeOK, Estados, TipoHilo
  <1>6. /\ thread /\ principal = "lock" /\ \A g \in Hilos : g # h => hilo[g].pc = "libre"
    BY <1>1 DEF Inductivo, IInv, TurnoOK, TypeOK
  <1>7. TurnoOK'
    BY <1>3, <1>6 DEF TurnoOK
  <1>8. SocketeOK'
    BY <1>4 DEF Inductivo, IInv, SocketeOK
  <1>9. conexion[x].servidor = "abierta" /\ Empezada(x)
    BY DEF Inductivo, CargoOK
  <1>10. \A y \in Conexiones : conexion'[y].servidor = conexion[y].servidor
    OBVIOUS
  <1>11. ConexionOK'
    BY <1>2, <1>3, <1>6, <1>10 DEF Inductivo, IInv, ConexionOK
  <1>12. Encargo(h)' = x /\ \A g \in Hilos : hilo'[g].pc # "libre" => g = h
    BY <1>3, <1>6 DEF Encargo
  <1>13. \A y : ACargo(h, y)' <=> y = x
    BY <1>3 DEF ACargo
  <1>14. \A y \in Conexiones : conexion[y].servidor = "abierta" => y = x
    <2>1. \A y, g : g \in Hilos /\ ACargo(g, y) => g = h /\ y = x
      BY <1>6 DEF ACargo, Encargo
    <2>2. QED
      BY <2>1 DEF Inductivo, CargoOK
  <1>15. CargoOK'
    BY <1>4, <1>9, <1>10, <1>12, <1>13, <1>14 DEF CargoOK, Empezada
  <1>16. HebraOK' /\ CerradaOK'
    BY ClientesIguales DEF Inductivo
  <1>17. ColaOK'
    BY <1>4 DEF Inductivo, ColaOK, Empezada
  <1>18. TurniqueteConDueno'
    BY <1>3, <1>6 DEF TurniqueteConDueno, Perdido
  <1>19. QED
    BY <1>5, <1>7, <1>8, <1>11, <1>15, <1>16, <1>17, <1>18 DEF Inductivo, IInv

\* The thread h ends, and the server closes or forgets its connection x.
LEMMA AcabaHilo ==
  ASSUME Inductivo, NEW h \in Hilos, NEW x \in Conexiones,
         hilo[h].pc \in {"recv", "send", "mensajito"}, hilo[h].con = x,
         hilo' = [hilo EXCEPT ![h] = Ocioso],
         conexion' \in [Conexiones -> TipoConexion],
         \A y \in Conexiones : y # x => conexion'[y] = conexion[y],
         conexion'[x].servidor \in {"cerrada", "olvidada"},
         conexion'[x].cliente = conexion[x].cliente,
         conexion'[x].enviado = conexion[x].enviado,
         thread' = FALSE \/ (thread' = thread /\ (muertos # {} \/ fallas > 0)),
         UNCHANGED <<directorios, principal, nuevo_cliente, cola, caido, clientes, fallas>>
  PROVE  Inductivo'
  <1>1. TypeOK
    BY DEF Inductivo, IInv
  <1>2. hilo \in [Hilos -> TipoHilo] /\ cola \in Seq(Conexiones) /\ thread \in BOOLEAN
    BY <1>1, Tipos
  <1>3. /\ hilo'[h] = Ocioso /\ hilo'[h].pc = "libre"
        /\ \A g \in Hilos : g # h => hilo'[g] = hilo[g]
        /\ hilo' \in [Hilos -> TipoHilo]
    BY <1>2, OciosoOK
  <1>4. UNCHANGED <<hebra, sockete, muertos>>
    BY DEF clientes
  <1>5. thread' \in BOOLEAN
    BY <1>2
  <1>6. TypeOK'
    BY <1>1, <1>3, <1>4, <1>5, Tipos DEF TypeOK, Estados, TipoHilo
  <1>7. /\ thread /\ principal = "lock" /\ \A g \in Hilos : g # h => hilo[g].pc = "libre"
    BY Atendiendo DEF Inductivo
  <1>8. \A g \in Hilos : hilo'[g].pc = "libre"
    BY <1>3, <1>7
  <1>9. TurnoOK' /\ TurniqueteConDueno'
    BY <1>4, <1>7, <1>8 DEF TurnoOK, TurniqueteConDueno, Perdido
  <1>10. SocketeOK'
    BY <1>4 DEF Inductivo, IInv, SocketeOK
  <1>11. Encargo(h) = x
    BY DEF Encargo
  <1>12. conexion[x].servidor = "abierta"
    BY <1>11 DEF Inductivo, CargoOK
  <1>13. ConexionOK'
    <2>1. \A i \in 1 .. Len(cola) : cola[i] \in Conexiones /\ conexion[cola[i]].servidor = "no"
      BY <1>2 DEF Inductivo, IInv, ConexionOK
    <2>2. \A i \in 1 .. Len(cola) : cola[i] # x
      BY <1>12, <2>1
    <2>3. \A i \in 1 .. Len(cola) : conexion'[cola[i]].servidor = "no"
      BY <2>1, <2>2
    <2>4. QED
      BY <1>8, <2>3 DEF Inductivo, IInv, ConexionOK
  <1>14. \A y \in Conexiones : conexion[y].servidor = "abierta" => y = x
    <2>1. \A y, g : g \in Hilos /\ ACargo(g, y) => g = h /\ y = x
      BY <1>7 DEF ACargo
    <2>2. QED
      BY <2>1 DEF Inductivo, CargoOK
  <1>15. \A y \in Conexiones : conexion'[y].servidor # "abierta"
    BY <1>14
  <1>16. CargoOK'
    BY <1>8, <1>15 DEF CargoOK
  <1>17. HebraOK' /\ CerradaOK'
    BY ClientesIguales DEF Inductivo
  <1>18. ColaOK'
    BY <1>4 DEF Inductivo, ColaOK, Empezada
  <1>19. QED
    BY <1>6, <1>9, <1>10, <1>13, <1>16, <1>17, <1>18 DEF Inductivo, IInv

LEMMA PasoCopiar ==
  ASSUME Inductivo, NEW h \in Hilos, Copiar(h)
  PROVE  Inductivo'
  <1> DEFINE r == [Ocioso EXCEPT !.pc = "recv", !.con = nuevo_cliente]
  <1>1. /\ hilo[h].pc = "nace" /\ hilo' = [hilo EXCEPT ![h] = r]
        /\ UNCHANGED <<directorios, principal, thread, nuevo_cliente, cola, caido,
                       conexion, clientes, fallas>>
    BY Zenon DEF Copiar, En
  <1>2. /\ nuevo_cliente \in Conexiones /\ Encargo(h) = nuevo_cliente
    BY <1>1 DEF Inductivo, IInv, ConexionOK, Encargo
  <1>3. r \in TipoHilo /\ r.pc = "recv" /\ r.con = nuevo_cliente
    BY <1>2, OciosoOK DEF TipoHilo, Ocioso
  <1>4. /\ conexion \in [Conexiones -> TipoConexion] /\ directorios \in [Dirs -> Estados]
        /\ caido \in BOOLEAN
    BY Tipos, Zenon DEF Inductivo, IInv
  <1> HIDE DEF r
  <1>5. QED
    BY <1>1, <1>2, <1>3, <1>4, SigueHilo

LEMMA PasoAtender ==
  ASSUME Inductivo, NEW h \in Hilos, Atender(h)
  PROVE  Inductivo'
  <1> DEFINE x == hilo[h].con
  <1>1. /\ hilo[h].pc = "recv"
        /\ UNCHANGED <<principal, thread, nuevo_cliente, cola, clientes, fallas>>
    BY Zenon DEF Atender, En
  <1>2. x \in Conexiones /\ Encargo(h) = x /\ hilo[h] \in TipoHilo
    BY <1>1, Atendiendo DEF Inductivo
  <1>3. /\ conexion' \in [Conexiones -> TipoConexion]
        /\ \A y \in Conexiones : y # x => conexion'[y] = conexion[y]
        /\ conexion'[x].servidor = conexion[x].servidor
        /\ conexion'[x].cliente = conexion[x].cliente
        /\ conexion'[x].enviado = conexion[x].enviado
        /\ directorios' \in [Dirs -> Estados] /\ caido' \in BOOLEAN
        /\ \/ hilo' = hilo
           \/ \E r \in TipoHilo : /\ r.pc = "send" /\ r.con = x
                                  /\ hilo' = [hilo EXCEPT ![h] = r]
    BY EfectoAtender, Zenon DEF Inductivo
  <1>4. hilo = [hilo EXCEPT ![h] = hilo[h]]
    BY Tipos DEF Inductivo, IInv
  <1>5. PICK r \in TipoHilo : /\ r.pc \in {"recv", "send", "mensajito"} /\ r.con = x
                              /\ hilo' = [hilo EXCEPT ![h] = r]
    BY <1>1, <1>2, <1>3, <1>4
  <1> HIDE DEF x
  <1>6. QED
    BY <1>1, <1>2, <1>3, <1>5, SigueHilo

LEMMA PasoResponder ==
  ASSUME Inductivo, NEW h \in Hilos, Responder(h)
  PROVE  Inductivo'
  <1> DEFINE x == hilo[h].con
  <1>1. /\ hilo[h].pc = "send"
        /\ UNCHANGED <<directorios, principal, thread, nuevo_cliente, cola, caido, clientes, fallas>>
    BY Zenon DEF Responder, En
  <1>2. x \in Conexiones /\ Encargo(h) = x
    BY <1>1, Atendiendo DEF Inductivo
  <1>3. /\ conexion' \in [Conexiones -> TipoConexion]
        /\ \A y \in Conexiones : y # x => conexion'[y] = conexion[y]
        /\ conexion'[x].servidor = conexion[x].servidor
        /\ conexion'[x].cliente = conexion[x].cliente
        /\ conexion'[x].enviado = conexion[x].enviado
        /\ \E r \in TipoHilo : /\ r.pc = "mensajito" /\ r.con = x
                               /\ hilo' = [hilo EXCEPT ![h] = r]
    BY EfectoResponder, Zenon DEF Inductivo
  <1>4. directorios \in [Dirs -> Estados] /\ caido \in BOOLEAN
    BY Tipos, Zenon DEF Inductivo, IInv
  <1> HIDE DEF x
  <1>5. QED
    BY <1>1, <1>2, <1>3, <1>4, SigueHilo

\* A client that closes before it has sent is dead.
LEMMA PasoAbandonar ==
  ASSUME Inductivo, NEW h \in Hilos, Abandonar(h)
  PROVE  Inductivo'
  <1> DEFINE x == hilo[h].con
  <1>1. /\ hilo[h].pc = "recv" /\ ~conexion[x].enviado /\ conexion[x].cliente = "cerrada"
        /\ UNCHANGED <<directorios, principal, thread, nuevo_cliente, cola, caido, clientes, fallas>>
    BY Zenon DEF Abandonar, En
  <1>2. x \in Conexiones
    BY <1>1, Atendiendo DEF Inductivo
  <1>3. muertos # {}
    BY <1>1, <1>2 DEF Inductivo, CerradaOK
  <1>4. /\ conexion' \in [Conexiones -> TipoConexion]
        /\ \A y \in Conexiones : y # x => conexion'[y] = conexion[y]
        /\ conexion'[x].servidor = "olvidada" /\ conexion'[x].cliente = conexion[x].cliente
        /\ conexion'[x].enviado = conexion[x].enviado
        /\ hilo' = [hilo EXCEPT ![h] = Ocioso]
    BY EfectoAbandonar, Zenon DEF Inductivo
  <1>5. QED
    BY <1>1, <1>2, <1>3, <1>4, AcabaHilo

LEMMA PasoCerrar ==
  ASSUME Inductivo, NEW h \in Hilos, Cerrar(h)
  PROVE  Inductivo'
  <1> DEFINE x == hilo[h].con
  <1>1. /\ hilo[h].pc = "mensajito" /\ thread' = FALSE
        /\ UNCHANGED <<directorios, principal, nuevo_cliente, cola, caido, clientes, fallas>>
    BY Zenon DEF Cerrar, En
  <1>2. x \in Conexiones
    BY <1>1, Atendiendo DEF Inductivo
  <1>3. /\ conexion' \in [Conexiones -> TipoConexion]
        /\ \A y \in Conexiones : y # x => conexion'[y] = conexion[y]
        /\ conexion'[x].servidor = "cerrada" /\ conexion'[x].cliente = conexion[x].cliente
        /\ conexion'[x].enviado = conexion[x].enviado
        /\ hilo' = [hilo EXCEPT ![h] = Ocioso]
    BY EfectoCerrar, Zenon DEF Inductivo
  <1>4. QED
    BY <1>1, <1>2, <1>3, AcabaHilo

\* The accept loop alone: the threads and the connections stay as they are.
LEMMA BucleSolo ==
  ASSUME Inductivo, TypeOK', TurnoOK', TurniqueteConDueno',
         UNCHANGED <<nuevo_cliente, cola, hilo, conexion, hebra, sockete, muertos>>
  PROVE  Inductivo'
  <1>1. SocketeOK' /\ ConexionOK'
    BY DEF Inductivo, IInv, SocketeOK, ConexionOK
  <1>2. HebraOK' /\ CerradaOK' /\ ColaOK'
    BY DEF Inductivo, HebraOK, Actual, CerradaOK, ColaOK, Empezada
  <1>3. CargoOK'
    BY DEF Inductivo, CargoOK, Empezada, Encargo, ACargo
  <1>4. QED
    BY <1>1, <1>2, <1>3 DEF Inductivo, IInv

LEMMA PasoTomarTurno ==
  ASSUME Inductivo, TomarTurno
  PROVE  Inductivo'
  <1>1. TypeOK'
    BY TipoTomarTurno DEF Inductivo, IInv
  <1>2. /\ ~thread /\ thread' = TRUE /\ principal' = "accept"
        /\ UNCHANGED <<nuevo_cliente, cola, hilo, conexion, hebra, sockete, muertos, fallas>>
    BY Zenon DEF TomarTurno, clientes
  <1>3. \A h \in Hilos : hilo[h].pc = "libre"
    BY <1>2 DEF Inductivo, IInv, TurnoOK
  <1>4. TurnoOK' /\ TurniqueteConDueno'
    BY <1>2, <1>3 DEF TurnoOK, TurniqueteConDueno, Perdido
  <1>5. QED
    BY <1>1, <1>2, <1>4, BucleSolo

LEMMA PasoFallaAccept ==
  ASSUME Inductivo, FallaAccept
  PROVE  Inductivo'
  <1>1. TypeOK' /\ fallas' > 0
    BY TipoFallaAccept, FallaOK DEF Inductivo, IInv, FallaAccept
  <1>2. /\ principal = "accept" /\ principal' = "lock"
        /\ UNCHANGED <<thread, nuevo_cliente, cola, hilo, conexion, hebra, sockete, muertos>>
    BY Zenon DEF FallaAccept, clientes
  <1>3. TurnoOK' /\ TurniqueteConDueno'
    BY <1>1, <1>2 DEF Inductivo, IInv, TurnoOK, TurniqueteConDueno, Perdido
  <1>4. QED
    BY <1>1, <1>2, <1>3, BucleSolo

\* No thread is busy when a connection is accepted, so its thread is the one
\* that reads the variable of main.
LEMMA PasoAceptar ==
  ASSUME Inductivo, Aceptar
  PROVE  Inductivo'
  <1>1. TypeOK /\ TypeOK'
    BY TipoAceptar DEF Inductivo, IInv
  <1>0. cola # <<>> /\ cola \in Seq(Conexiones)
    BY <1>1, Zenon DEF Aceptar, TypeOK
  <1>a. PICK x \in Conexiones : x = Head(cola)
    BY <1>0
  <1>2. /\ principal = "accept" /\ cola # <<>>
        /\ principal' = "lock" /\ nuevo_cliente' = x /\ cola' = Tail(cola)
        /\ UNCHANGED <<directorios, thread, caido, hebra, sockete, muertos>>
        /\ \/ /\ \E h \in Hilos : hilo[h].pc = "libre" /\ hilo' = [hilo EXCEPT ![h].pc = "nace"]
              /\ conexion' = [conexion EXCEPT ![x].servidor = "abierta"]
              /\ fallas' = fallas
           \/ /\ Falla("pthread_create")
              /\ conexion' = [conexion EXCEPT ![x].servidor = "olvidada"]
              /\ hilo' = hilo
    BY <1>a, Zenon DEF Aceptar, clientes
  <1>3. /\ cola \in Seq(Conexiones) /\ hilo \in [Hilos -> TipoHilo]
        /\ conexion \in [Conexiones -> TipoConexion] /\ hilo' \in [Hilos -> TipoHilo]
    BY <1>1 DEF TypeOK, TipoHilo
  <1>4. /\ x = cola[1] /\ 1 \in 1 .. Len(cola) /\ x \in Conexiones /\ Len(cola) \in Nat
        /\ Len(Tail(cola)) = Len(cola) - 1
        /\ \A n \in 1 .. Len(cola) - 1 :
              Tail(cola)[n] = cola[n + 1] /\ n + 1 \in 1 .. Len(cola) /\ n + 1 # 1 /\ n \in Nat
    BY <1>a, <1>2, <1>3
  <1>5. thread /\ \A h \in Hilos : hilo[h].pc = "libre"
    BY <1>2 DEF Inductivo, IInv, TurnoOK
  <1>6. Empezada(x)
    BY <1>4 DEF Inductivo, ColaOK
  <1>7. \A y \in Conexiones : conexion[y].servidor # "abierta"
    BY <1>5 DEF Inductivo, CargoOK, ACargo
  <1>8. /\ \A y \in Conexiones : y # x => conexion'[y] = conexion[y]
        /\ conexion'[x].servidor \in {"abierta", "olvidada"}
        /\ conexion'[x].cliente = conexion[x].cliente
        /\ conexion'[x].enviado = conexion[x].enviado
    <2>1. PICK w \in {"no", "abierta", "cerrada", "olvidada"} :
             /\ conexion' = [conexion EXCEPT ![x].servidor = w]
             /\ w \in {"abierta", "olvidada"}
      BY <1>2
    <2>2. QED
      BY <1>3, <1>4, <2>1, ConServidor
  <1>9. SocketeOK'
    BY <1>2 DEF Inductivo, IInv, SocketeOK
  <1>10. ColaOK'
    BY <1>2, <1>4 DEF Inductivo, ColaOK, Empezada
  <1>11. HebraOK' /\ CerradaOK'
    BY <1>2, <1>8, ClientesIguales DEF Inductivo, clientes
  <1>12. \A i, j \in 1 .. Len(cola') :
            conexion'[cola'[i]].servidor = "no" /\ (cola'[i] = cola'[j] => i = j)
    <2> SUFFICES ASSUME NEW i \in 1 .. Len(cola) - 1, NEW j \in 1 .. Len(cola) - 1
                 PROVE  /\ conexion'[cola[i + 1]].servidor = "no"
                        /\ cola[i + 1] = cola[j + 1] => i = j
      BY <1>2, <1>4
    <2>1. /\ i + 1 \in 1 .. Len(cola) /\ j + 1 \in 1 .. Len(cola) /\ i + 1 # 1
          /\ i \in Nat /\ j \in Nat
      BY <1>4
    <2>2. cola[i + 1] = cola[j + 1] => i + 1 = j + 1
      BY <2>1 DEF Inductivo, IInv, ConexionOK
    <2>3. cola[i + 1] # cola[1] /\ cola[i + 1] \in Conexiones
      BY <1>3, <1>4, <2>1 DEF Inductivo, IInv, ConexionOK
    <2>4. conexion[cola[i + 1]].servidor = "no"
      BY <2>1 DEF Inductivo, IInv, ConexionOK
    <2>5. QED
      BY <1>4, <1>8, <2>1, <2>2, <2>3, <2>4
  <1>13. CASE hilo' = hilo
    <2>1. fallas' > 0 /\ conexion'[x].servidor # "abierta"
      <3>1. hilo' = hilo => ~ \E h \in Hilos : /\ hilo[h].pc = "libre"
                                               /\ hilo' = [hilo EXCEPT ![h].pc = "nace"]
        BY <1>3, <1>5 DEF TipoHilo
      <3>2. Falla("pthread_create") /\ conexion' = [conexion EXCEPT ![x].servidor = "olvidada"]
        BY <1>2, <1>13, <3>1
      <3>3. QED
        BY <1>1, <1>3, <1>4, <3>2, FallaOK, ConServidor
    <2>2. TurnoOK' /\ TurniqueteConDueno'
      BY <1>2, <1>5, <1>13, <2>1 DEF TurnoOK, TurniqueteConDueno, Perdido
    <2>3. CargoOK'
      BY <1>5, <1>7, <1>8, <1>13, <2>1 DEF CargoOK
    <2>4. ConexionOK'
      BY <1>5, <1>12, <1>13 DEF ConexionOK
    <2>5. QED
      BY <1>1, <1>9, <1>10, <1>11, <2>2, <2>3, <2>4 DEF Inductivo, IInv
  <1>14. CASE hilo' # hilo
    <2>1. PICK h \in Hilos : hilo' = [hilo EXCEPT ![h].pc = "nace"]
      BY <1>2, <1>14
    <2>2. conexion' = [conexion EXCEPT ![x].servidor = "abierta"]
      BY <1>2, <1>14
    <2>3. hilo'[h].pc = "nace" /\ \A g \in Hilos : g # h => hilo'[g].pc = "libre"
      BY <1>3, <1>5, <2>1 DEF TipoHilo
    <2>4. conexion'[x].servidor = "abierta"
      <3>1. QED
        BY <1>3, <1>4, <2>2, ConServidor
    <2>5. TurnoOK' /\ TurniqueteConDueno'
      BY <1>2, <1>5, <2>3 DEF TurnoOK, TurniqueteConDueno, Perdido
    <2>6. Encargo(h)' = x /\ ACargo(h, x)' /\ Empezada(x)'
      BY <1>2, <1>6, <2>3 DEF Encargo, ACargo, Empezada
    <2>7. CargoOK'
      <3>1. \A y \in Conexiones : conexion'[y].servidor = "abierta" => y = x
        BY <1>7, <1>8
      <3>2. ASSUME NEW g \in Hilos, hilo'[g].pc # "libre"
            PROVE  conexion'[Encargo(g)'].servidor = "abierta" /\ Empezada(Encargo(g))'
        <4>1. g = h
          BY <2>3, <3>2
        <4>2. QED
          BY <2>4, <2>6, <4>1
      <3>3. QED
        BY <2>6, <3>1, <3>2 DEF CargoOK
    <2>8. ConexionOK'
      BY <1>2, <1>4, <1>12, <2>3 DEF ConexionOK
    <2>9. QED
      BY <1>1, <1>9, <1>10, <1>11, <2>5, <2>7, <2>8 DEF Inductivo, IInv
  <1>15. QED
    BY <1>13, <1>14

(***************************************************************************)
(* The steps of the clients.                                               *)
(***************************************************************************)

\* What the server's part of the invariant needs of a step of a client that
\* is not the start of a call.
LEMMA ServidorIgual ==
  ASSUME Inductivo, TypeOK', SocketeOK', HebraOK', CerradaOK',
         UNCHANGED <<servidor, cola>>,
         \A x \in Conexiones : conexion'[x].servidor = conexion[x].servidor,
         \A t \in Hebras : hebra'[t].n = hebra[t].n,
         muertos \subseteq muertos', fallas > 0 => fallas' > 0
  PROVE  Inductivo'
  <1>1. UNCHANGED <<principal, thread, nuevo_cliente, cola, hilo>>
    BY DEF servidor
  <1>2. cola \in Seq(Conexiones)
    BY DEF Inductivo, IInv, TypeOK
  <1>3. \A i \in 1 .. Len(cola) : cola[i] \in Conexiones
    BY <1>2
  <1>4. \A x \in Conexiones : Empezada(x)' <=> Empezada(x)
    BY ConexionDe DEF Empezada
  <1>5. TurnoOK'
    BY <1>1 DEF Inductivo, IInv, TurnoOK
  <1>6. ConexionOK'
    BY <1>1, <1>3 DEF Inductivo, IInv, ConexionOK
  <1>7. ColaOK'
    BY <1>1, <1>3, <1>4 DEF Inductivo, ColaOK
  <1>8. CargoOK'
    <2>1. \A h \in Hilos : hilo[h].pc # "libre" =>
             Encargo(h)' = Encargo(h) /\ Encargo(h) \in Conexiones
      <3>1. \A h \in Hilos : hilo[h].pc \in {"libre", "nace", "recv", "send", "mensajito"}
        BY DEF Inductivo, IInv, TypeOK
      <3>2. QED
        BY <1>1, <3>1 DEF Encargo, Inductivo, IInv, ConexionOK
    <2>2. \A h \in Hilos, x \in Conexiones : ACargo(h, x)' <=> ACargo(h, x)
      BY <1>1 DEF ACargo
    <2>3. \A h \in Hilos : hilo'[h].pc # "libre" =>
             (conexion[Encargo(h)].servidor = "abierta" /\ Empezada(Encargo(h)))'
      <3> SUFFICES ASSUME NEW h \in Hilos, hilo[h].pc # "libre"
                   PROVE  (conexion[Encargo(h)].servidor = "abierta" /\ Empezada(Encargo(h)))'
        BY <1>1
      <3>1. PICK x \in Conexiones : x = Encargo(h) /\ x = Encargo(h)'
        BY <2>1
      <3>2. conexion[x].servidor = "abierta" /\ Empezada(x)
        BY <3>1 DEF Inductivo, CargoOK
      <3>3. Empezada(x)'
        BY <1>4, <3>2
      <3>4. QED
        BY <3>1, <3>2, <3>3 DEF Empezada
    <2>4. QED
      BY <2>2, <2>3 DEF Inductivo, CargoOK
  <1>9. TurniqueteConDueno'
    BY <1>1 DEF Inductivo, TurniqueteConDueno, Perdido
  <1>10. QED
    BY <1>5, <1>6, <1>7, <1>8, <1>9 DEF Inductivo, IInv

LEMMA HebraTipo ==
  ASSUME TypeOK, NEW t \in Hebras
  PROVE  /\ hebra[t] \in TipoHebra /\ ClienteDe[t] \in Clientes
         /\ hebra \in [Hebras -> TipoHebra] /\ sockete \in [Clientes -> Hebras \cup {Nadie}]
         /\ conexion \in [Conexiones -> TipoConexion]
  BY Tipos, Constantes, Zenon

\* Two threads never have one connection.
LEMMA ActualPropia ==
  ASSUME NEW t \in Hebras, NEW u \in Hebras, Actual(t) = Actual(u)
  PROVE  t = u
  BY DEF Actual

LEMMA PasoEnviar ==
  ASSUME Inductivo, NEW t \in Hebras, Enviar(t)
  PROVE  Inductivo'
  <1> DEFINE q == [conexion[Actual(t)] EXCEPT !.enviado = TRUE]
             r == [hebra[t] EXCEPT !.pc = "send"]
  <1>1. /\ hebra[t].pc = "connect"
        /\ conexion' = [conexion EXCEPT ![Actual(t)].enviado = TRUE]
        /\ hebra' = [hebra EXCEPT ![t].pc = "send"]
        /\ UNCHANGED <<servidor, cola, sockete, muertos, fallas>>
    BY Zenon DEF Enviar
  <1>2. TypeOK /\ Actual(t) \in Conexiones
    BY <1>1 DEF Inductivo, IInv, HebraOK
  <1>3. /\ hebra[t] \in TipoHebra /\ hebra \in [Hebras -> TipoHebra]
        /\ conexion \in [Conexiones -> TipoConexion]
    BY <1>2, HebraTipo
  <1>a. conexion[Actual(t)] \in TipoConexion
    BY <1>2, <1>3
  <1>4. q \in TipoConexion /\ q.enviado = TRUE
        /\ q.servidor = conexion[Actual(t)].servidor /\ q.cliente = conexion[Actual(t)].cliente
    BY <1>a DEF TipoConexion
  <1>5. r \in TipoHebra /\ r.pc = "send" /\ r.n = hebra[t].n
    BY <1>3 DEF TipoHebra
  <1>6. conexion' = [conexion EXCEPT ![Actual(t)] = q] /\ hebra' = [hebra EXCEPT ![t] = r]
    BY <1>1
  <1> HIDE DEF q, r
  <1>7. PICK x \in Conexiones : x = Actual(t)
    BY <1>2
  <1>8. /\ conexion' \in [Conexiones -> TipoConexion] /\ conexion'[x] = q
        /\ \A y \in Conexiones : y # x => conexion'[y] = conexion[y]
    BY <1>3, <1>4, <1>6, <1>7, UnaCambia, Zenon
  <1>9. /\ hebra' \in [Hebras -> TipoHebra] /\ hebra'[t] = r
        /\ \A u \in Hebras : u # t => hebra'[u] = hebra[u]
    BY <1>3, <1>5, <1>6
  <1>10. TypeOK'
    BY <1>1, <1>2, <1>8, <1>9 DEF TypeOK, TipoHebra, servidor
  <1>11. SocketeOK'
    BY <1>1, <1>5, <1>9 DEF Inductivo, IInv, SocketeOK
  <1>12. \A u \in Hebras : hebra'[u].n = hebra[u].n /\ Actual(u)' = Actual(u)
    BY <1>5, <1>9 DEF Actual
  <1>13. \A y \in Conexiones : /\ conexion[y].enviado => conexion'[y].enviado
                               /\ conexion'[y].servidor = conexion[y].servidor
                               /\ conexion'[y].cliente = conexion[y].cliente
    BY <1>4, <1>7, <1>8
  <1>14. HebraOK'
    <2> SUFFICES ASSUME NEW u \in Hebras, hebra'[u].pc # "libre"
                 PROVE  /\ Actual(u)' \in Conexiones
                        /\ hebra'[u].pc \in {"send", "recv"} => conexion'[Actual(u)'].enviado
      BY DEF HebraOK
    <2>1. CASE u = t
      BY <1>4, <1>7, <1>8, <1>12, <2>1
    <2>2. CASE u # t
      BY <1>9, <1>12, <1>13, <2>2 DEF Inductivo, HebraOK
    <2>3. QED
      BY <2>1, <2>2
  <1>15. CerradaOK'
    BY <1>1, <1>13 DEF Inductivo, CerradaOK
  <1>16. QED
    BY <1>1, <1>10, <1>11, <1>12, <1>13, <1>14, <1>15, ServidorIgual

LEMMA PasoTomarSockete ==
  ASSUME Inductivo, NEW t \in Hebras, TomarSockete(t)
  PROVE  Inductivo'
  <1> DEFINE r == [hebra[t] EXCEPT !.pc = "recv"]
  <1>1. /\ hebra[t].pc = "send" /\ sockete[ClienteDe[t]] = Nadie
        /\ sockete' = [sockete EXCEPT ![ClienteDe[t]] = t]
        /\ hebra' = [hebra EXCEPT ![t].pc = "recv"]
        /\ UNCHANGED <<servidor, cola, conexion, muertos, fallas>>
    BY Zenon DEF TomarSockete
  <1>2. TypeOK
    BY DEF Inductivo, IInv
  <1>3. /\ hebra[t] \in TipoHebra /\ hebra \in [Hebras -> TipoHebra]
        /\ sockete \in [Clientes -> Hebras \cup {Nadie}] /\ ClienteDe[t] \in Clientes
    BY <1>2, HebraTipo
  <1>4. r \in TipoHebra /\ r.pc = "recv" /\ r.n = hebra[t].n
    BY <1>3 DEF TipoHebra
  <1>5. hebra' = [hebra EXCEPT ![t] = r]
    BY <1>1
  <1> HIDE DEF r
  <1>6. /\ hebra' \in [Hebras -> TipoHebra] /\ hebra'[t] = r
        /\ \A u \in Hebras : u # t => hebra'[u] = hebra[u]
    BY <1>3, <1>4, <1>5
  <1>7. /\ sockete' \in [Clientes -> Hebras \cup {Nadie}] /\ sockete'[ClienteDe[t]] = t
        /\ \A c \in Clientes : c # ClienteDe[t] => sockete'[c] = sockete[c]
    BY <1>1, <1>3
  <1>8. TypeOK'
    BY <1>1, <1>2, <1>6, <1>7 DEF TypeOK, TipoHebra, servidor
  <1>9. SocketeOK'
    <2> SUFFICES ASSUME NEW u \in Hebras, NEW c \in Clientes
                 PROVE  sockete'[c] = u <=> hebra'[u].pc = "recv" /\ ClienteDe[u] = c
      BY DEF SocketeOK
    <2>1. sockete[c] = u <=> hebra[u].pc = "recv" /\ ClienteDe[u] = c
      BY DEF Inductivo, IInv, SocketeOK
    <2>2. u # Nadie
      BY Constantes
    <2>3. QED
      BY <1>1, <1>4, <1>6, <1>7, <2>1, <2>2
  <1>10. \A u \in Hebras : hebra'[u].n = hebra[u].n /\ Actual(u)' = Actual(u)
    BY <1>4, <1>6 DEF Actual
  <1>11. HebraOK' /\ CerradaOK'
    BY <1>1, <1>6, <1>10 DEF Inductivo, HebraOK, CerradaOK
  <1>12. QED
    BY <1>1, <1>8, <1>9, <1>10, <1>11, ServidorIgual

\* What the thread u has open once t has the reply to the request q.
AbreTras(u, t, q) ==
  IF u = t /\ q.op = "opendir" /\ q.respuesta # "si" THEN Nadie
  ELSE IF q.op = "rename" /\ q.respuesta = "si" /\ ClienteDe[u] = ClienteDe[t]
  THEN Sigue(hebra[u].abre, q.dir, q.nuevo) ELSE hebra[u].abre

LEMMA PasoRecibir ==
  ASSUME Inductivo, NEW t \in Hebras, Recibir(t)
  PROVE  Inductivo'
  <1>1. /\ hebra[t].pc = "recv" /\ TypeOK
        /\ Actual(t) \in Conexiones /\ conexion[Actual(t)].enviado
    BY DEF Inductivo, IInv, HebraOK, Recibir
  <1>2. PICK x \in Conexiones : x = Actual(t)
    BY <1>1
  <1> DEFINE q == [conexion[x] EXCEPT
                      !.cliente = IF Cierra(conexion[x].respuesta) THEN "cerrada" ELSE "abierta",
                      !.previas = {}]
             abre(u) == AbreTras(u, t, conexion[x])
             r(u) == [pc |-> IF u = t THEN "libre" ELSE hebra[u].pc, n |-> hebra[u].n,
                      abre |-> abre(u)]
  <1>3. /\ conexion' = [conexion EXCEPT ![x] = q] /\ hebra' = [u \in Hebras |-> r(u)]
        /\ sockete' = [sockete EXCEPT ![ClienteDe[t]] = Nadie]
        /\ UNCHANGED <<servidor, cola, muertos, fallas>>
    BY <1>2 DEF Recibir, Suelta, AbreTras
  <1>4. /\ hebra[t] \in TipoHebra /\ hebra \in [Hebras -> TipoHebra]
        /\ conexion \in [Conexiones -> TipoConexion]
        /\ sockete \in [Clientes -> Hebras \cup {Nadie}] /\ ClienteDe[t] \in Clientes
    BY <1>1, HebraTipo
  <1>5. conexion[x] \in TipoConexion
    BY <1>4
  <1>6. q \in TipoConexion /\ q.servidor = conexion[x].servidor /\ q.enviado = conexion[x].enviado
    BY <1>5 DEF TipoConexion
  <1>7. /\ \A u \in Hebras : r(u) \in TipoHebra /\ r(u).n = hebra[u].n
        /\ r(t).pc = "libre" /\ \A u \in Hebras : u # t => r(u).pc = hebra[u].pc
    <2>1. \A u \in Hebras : hebra[u] \in TipoHebra /\ abre(u) \in Dirs \cup {Nadie}
      BY <1>4 DEF TipoHebra, AbreTras, Sigue
    <2> HIDE DEF abre
    <2>2. QED
      BY <2>1 DEF TipoHebra
  <1> HIDE DEF q, r
  <1>8. /\ conexion' \in [Conexiones -> TipoConexion] /\ conexion'[x] = q
        /\ \A y \in Conexiones : y # x => conexion'[y] = conexion[y]
    BY <1>3, <1>4, <1>6, UnaCambia, Zenon
  <1>9. /\ hebra' \in [Hebras -> TipoHebra] /\ hebra'[t].pc = "libre"
        /\ \A u \in Hebras : /\ hebra'[u].n = hebra[u].n
                             /\ u # t => hebra'[u].pc = hebra[u].pc
    BY <1>3, <1>7
  <1>10. /\ sockete' \in [Clientes -> Hebras \cup {Nadie}] /\ sockete'[ClienteDe[t]] = Nadie
         /\ \A c \in Clientes : c # ClienteDe[t] => sockete'[c] = sockete[c]
    BY <1>3, <1>4
  <1>11. TypeOK'
    BY <1>1, <1>3, <1>8, <1>9, <1>10 DEF TypeOK, TipoHebra, servidor
  <1>12. SocketeOK'
    <2> SUFFICES ASSUME NEW u \in Hebras, NEW c \in Clientes
                 PROVE  sockete'[c] = u <=> hebra'[u].pc = "recv" /\ ClienteDe[u] = c
      BY DEF SocketeOK
    <2>1. /\ sockete[c] = u <=> hebra[u].pc = "recv" /\ ClienteDe[u] = c
          /\ sockete[ClienteDe[t]] = t
      BY <1>1, <1>4 DEF Inductivo, IInv, SocketeOK
    <2>2. u # Nadie
      BY Constantes
    <2>3. QED
      BY <1>7, <1>9, <1>10, <2>1, <2>2
  <1>13. \A u \in Hebras : hebra'[u].n = hebra[u].n /\ Actual(u)' = Actual(u)
    BY <1>7, <1>9 DEF Actual
  <1>14. \A y \in Conexiones : /\ conexion'[y].servidor = conexion[y].servidor
                               /\ conexion'[y].enviado = conexion[y].enviado
    BY <1>6, <1>8
  <1>15. HebraOK'
    BY <1>7, <1>9, <1>13, <1>14 DEF Inductivo, HebraOK
  <1>16. CerradaOK'
    BY <1>1, <1>2, <1>3, <1>8, <1>14 DEF Inductivo, CerradaOK
  <1>17. QED
    BY <1>3, <1>11, <1>12, <1>13, <1>14, <1>15, <1>16, ServidorIgual

\* What the death of its process does to a connection and to a thread.
Cortar(q) == [q EXCEPT !.cliente = "cerrada", !.previas = {}]
Soltar(r) == [r EXCEPT !.pc = "libre", !.abre = Nadie]

LEMMA CortarOK ==
  ASSUME NEW q \in TipoConexion
  PROVE  /\ Cortar(q) \in TipoConexion /\ Cortar(q).cliente = "cerrada"
         /\ Cortar(q).servidor = q.servidor /\ Cortar(q).enviado = q.enviado
  BY DEF Cortar, TipoConexion

LEMMA SoltarOK ==
  ASSUME NEW r \in TipoHebra
  PROVE  Soltar(r) \in TipoHebra /\ Soltar(r).pc = "libre" /\ Soltar(r).n = r.n
  BY DEF Soltar, TipoHebra

LEMMA PasoMorir ==
  ASSUME Inductivo, NEW c \in Clientes, Morir(c)
  PROVE  Inductivo'
  <1>1. /\ muertos' = muertos \cup {c} /\ UNCHANGED <<servidor, cola>>
        /\ sockete' = [sockete EXCEPT ![c] = Nadie]
        /\ fallas' = fallas \/ Falla("cliente")
    BY Zenon DEF Morir
  <1>2. TypeOK
    BY DEF Inductivo, IInv
  <1>3. fallas' \in 0 .. MaxFallas /\ (fallas > 0 => fallas' > 0)
    <2>1. fallas \in 0 .. MaxFallas
      BY <1>2, Tipos
    <2>2. QED
      BY <1>1, <1>2, <2>1, FallaOK
  <1>4. conexion' = [x \in Conexiones |->
              IF De(x) = c /\ conexion[x].cliente = "abierta"
              THEN Cortar(conexion[x]) ELSE conexion[x]]
    BY Zenon DEF Morir, Cortar
  <1>5. hebra' = [t \in Hebras |->
              IF ClienteDe[t] = c THEN Soltar(hebra[t]) ELSE hebra[t]]
    BY Zenon DEF Morir, Soltar
  <1>a. /\ conexion \in [Conexiones -> TipoConexion] /\ hebra \in [Hebras -> TipoHebra]
        /\ sockete \in [Clientes -> Hebras \cup {Nadie}]
    BY <1>2, Tipos
  <1>6. \A x \in Conexiones : /\ conexion'[x] \in TipoConexion
                              /\ conexion'[x].servidor = conexion[x].servidor
                              /\ conexion'[x].enviado = conexion[x].enviado
                              /\ \/ conexion'[x].cliente = conexion[x].cliente
                                 \/ conexion'[x].cliente = "cerrada" /\ De(x) = c
    BY <1>4, <1>a, CortarOK
  <1>7. \A t \in Hebras : /\ hebra'[t] \in TipoHebra /\ hebra'[t].n = hebra[t].n
                          /\ ClienteDe[t] = c => hebra'[t].pc = "libre"
                          /\ ClienteDe[t] # c => hebra'[t] = hebra[t]
    BY <1>5, <1>a, SoltarOK
  <1>8. conexion' \in [Conexiones -> TipoConexion]
    BY <1>4, <1>6
  <1>9. hebra' \in [Hebras -> TipoHebra]
    BY <1>5, <1>7
  <1>10. /\ sockete' \in [Clientes -> Hebras \cup {Nadie}] /\ sockete'[c] = Nadie
         /\ \A d \in Clientes : d # c => sockete'[d] = sockete[d]
    BY <1>1, <1>a
  <1>11. TypeOK'
    BY <1>1, <1>2, <1>3, <1>8, <1>9, <1>10 DEF TypeOK, TipoHebra, servidor
  <1>12. SocketeOK'
    <2> SUFFICES ASSUME NEW u \in Hebras, NEW d \in Clientes
                 PROVE  sockete'[d] = u <=> hebra'[u].pc = "recv" /\ ClienteDe[u] = d
      BY DEF SocketeOK
    <2>1. sockete[d] = u <=> hebra[u].pc = "recv" /\ ClienteDe[u] = d
      BY DEF Inductivo, IInv, SocketeOK
    <2>2. u # Nadie
      BY Constantes
    <2>3. QED
      BY <1>7, <1>10, <1>a, <2>1, <2>2
  <1>13. \A u \in Hebras : Actual(u)' = Actual(u)
    BY <1>7 DEF Actual
  <1>14. HebraOK'
    BY <1>6, <1>7, <1>13 DEF Inductivo, HebraOK
  <1>15. CerradaOK'
    BY <1>1, <1>6 DEF Inductivo, CerradaOK
  <1>16. QED
    BY <1>1, <1>3, <1>6, <1>7, <1>11, <1>12, <1>14, <1>15, ServidorIgual

\* A call has a connection that nothing has touched: it is not in the queue, and
\* no thread of the server has it.
LEMMA PasoLlamar ==
  ASSUME Inductivo, NEW t \in Hebras, NEW p \in Operaciones,
         Llamar(t, p)
  PROVE  Inductivo'
  <1> DEFINE previas == {y \in Conexiones : Debida(y)}
             q == [Nueva EXCEPT !.op = p.op, !.dir = p.dir, !.nuevo = p.nuevo,
                                !.cliente = "abierta", !.previas = previas]
             c == ClienteDe[t]
             abre(u) == IF u = t /\ p.op = "opendir" THEN p.dir
                        ELSE IF p.op = "rmdir" /\ ClienteDe[u] = c /\ Bajo(hebra[u].abre, p.dir)
                        THEN Nadie ELSE hebra[u].abre
             r(u) == [pc   |-> IF u = t THEN "connect" ELSE hebra[u].pc,
                      n    |-> IF u = t THEN hebra[t].n + 1 ELSE hebra[u].n,
                      abre |-> abre(u)]
  <1>1. /\ hebra[t].pc = "libre" /\ hebra[t].n < MaxLlamadas
        /\ cola' = Append(cola, <<t, hebra[t].n + 1>>)
        /\ conexion' = [conexion EXCEPT ![<<t, hebra[t].n + 1>>] = q]
        /\ hebra' = [u \in Hebras |-> r(u)]
        /\ UNCHANGED <<servidor, sockete, muertos, fallas>>
    BY Zenon DEF Llamar
  <1>2. /\ TypeOK /\ MaxLlamadas \in Nat /\ p.op \in Callbacks
        /\ p.dir \in Dirs /\ p.nuevo \in Dirs \cup {Nadie}
    BY Constantes DEF Inductivo, IInv
  <1>3. /\ hebra \in [Hebras -> TipoHebra] /\ conexion \in [Conexiones -> TipoConexion]
        /\ cola \in Seq(Conexiones) /\ hebra[t] \in TipoHebra
    BY <1>2, Tipos, Zenon
  <1>4. hebra[t].n \in Nat /\ hebra[t].n + 1 \in 0 .. MaxLlamadas
    BY <1>1, <1>2, <1>3 DEF TipoHebra
  <1>a. <<t, hebra[t].n + 1>> \in Conexiones
    BY <1>2, <1>4 DEF Conexiones
  <1>b. PICK x \in Conexiones : x = <<t, hebra[t].n + 1>>
    BY <1>a
  <1>5. x = <<t, hebra[t].n + 1>> /\ x[1] = t /\ x[2] = hebra[t].n + 1
    BY <1>b
  <1>6. q \in TipoConexion /\ q.servidor = "no" /\ q.cliente = "abierta"
    <2>1. previas \in SUBSET Conexiones
      OBVIOUS
    <2> HIDE DEF previas
    <2>2. QED
      BY <1>2, <2>1 DEF Nueva, TipoConexion, Respuestas
  <1>7. \A u \in Hebras : r(u) \in TipoHebra
    <2> SUFFICES ASSUME NEW u \in Hebras PROVE r(u) \in TipoHebra
      OBVIOUS
    <2>1. hebra[u] \in TipoHebra
      BY <1>3
    <2>2. abre(u) \in Dirs \cup {Nadie}
      BY <1>2, <2>1 DEF TipoHebra
    <2> HIDE DEF abre
    <2>3. QED
      BY <1>4, <2>1, <2>2 DEF TipoHebra
  <1>8. /\ r(t).pc = "connect" /\ r(t).n = hebra[t].n + 1
        /\ \A u \in Hebras : u # t => r(u).pc = hebra[u].pc /\ r(u).n = hebra[u].n
    OBVIOUS
  <1> HIDE DEF previas, q, abre, r
  <1>9. /\ conexion' \in [Conexiones -> TipoConexion] /\ conexion'[x] = q
        /\ \A y \in Conexiones : y # x => conexion'[y] = conexion[y]
    <2>1. conexion' = [conexion EXCEPT ![x] = q]
      BY <1>1, <1>5
    <2>2. QED
      BY <1>3, <1>6, <2>1, UnaCambia, Zenon
  <1>10. /\ hebra' \in [Hebras -> TipoHebra]
         /\ hebra'[t].pc = "connect" /\ hebra'[t].n = hebra[t].n + 1
         /\ \A u \in Hebras : u # t => hebra'[u].pc = hebra[u].pc /\ hebra'[u].n = hebra[u].n
    BY <1>1, <1>7, <1>8
  <1>11. /\ cola' \in Seq(Conexiones) /\ Len(cola') = Len(cola) + 1 /\ Len(cola) \in Nat
         /\ cola'[Len(cola) + 1] = x
         /\ \A i \in 1 .. Len(cola) : cola'[i] = cola[i] /\ cola[i] \in Conexiones
    BY <1>1, <1>3, <1>5
  <1>12. TypeOK'
    BY <1>1, <1>2, <1>9, <1>10, <1>11 DEF TypeOK, TipoHebra, servidor
  <1>13. ~Empezada(x)
    BY <1>4, <1>5 DEF Empezada
  <1>14. Empezada(x)' /\ \A y \in Conexiones : Empezada(y) => Empezada(y)'
    <2>1. Empezada(x)'
      BY <1>4, <1>5, <1>10 DEF Empezada
    <2>2. ASSUME NEW y \in Conexiones, Empezada(y)
          PROVE  Empezada(y)'
      <3>1. y[1] \in Hebras /\ y[2] \in Nat
        BY ConexionDe
      <3>2. y[2] <= hebra[y[1]].n
        BY <2>2 DEF Empezada
      <3>3. y[2] <= hebra'[y[1]].n
        BY <1>4, <1>10, <3>1, <3>2
      <3>4. QED
        BY <3>3 DEF Empezada
    <2>3. QED
      BY <2>1, <2>2
  <1>15. UNCHANGED <<principal, thread, nuevo_cliente, hilo, sockete, muertos, fallas>>
    BY <1>1 DEF servidor
  <1>16. TurnoOK' /\ TurniqueteConDueno'
    BY <1>15 DEF Inductivo, IInv, TurnoOK, TurniqueteConDueno, Perdido
  <1>17. SocketeOK'
    <2>1. \A u \in Hebras : hebra'[u].pc = "recv" <=> hebra[u].pc = "recv"
      BY <1>1, <1>10
    <2>2. QED
      BY <1>15, <2>1 DEF Inductivo, IInv, SocketeOK
  <1>18. \A i \in 1 .. Len(cola) :
            Empezada(cola[i]) /\ cola[i] # x /\ conexion'[cola[i]].servidor = "no"
    <2> SUFFICES ASSUME NEW i \in 1 .. Len(cola)
                 PROVE  Empezada(cola[i]) /\ cola[i] # x /\ conexion'[cola[i]].servidor = "no"
      OBVIOUS
    <2>1. Empezada(cola[i])
      BY DEF Inductivo, ColaOK
    <2>2. cola[i] # x
      BY <1>13, <2>1
    <2>3. conexion[cola[i]].servidor = "no"
      BY DEF Inductivo, IInv, ConexionOK
    <2>4. QED
      BY <1>9, <1>11, <2>1, <2>2, <2>3
  <1>19. ConexionOK'
    <2>1. \A h \in Hilos :
             /\ hilo'[h].pc = "nace" => nuevo_cliente' \in Conexiones
             /\ hilo'[h].pc \in {"recv", "send", "mensajito"} => hilo'[h].con \in Conexiones
      BY <1>15 DEF Inductivo, IInv, ConexionOK
    <2>2. \A i, j \in 1 .. Len(cola) : cola[i] = cola[j] => i = j
      BY DEF Inductivo, IInv, ConexionOK
    <2>3. \A i \in 1 .. Len(cola') : i \in 1 .. Len(cola) \/ i = Len(cola) + 1
      BY <1>11
    <2>4. \A i, j \in 1 .. Len(cola') :
             conexion'[cola'[i]].servidor = "no" /\ (cola'[i] = cola'[j] => i = j)
      BY <1>6, <1>9, <1>11, <1>18, <2>2, <2>3
    <2>5. QED
      BY <2>1, <2>4 DEF ConexionOK
  <1>20. ColaOK'
    <2>1. ASSUME NEW i \in 1 .. Len(cola')
          PROVE  cola'[i][2] <= hebra'[cola'[i][1]].n
      <3>1. PICK y \in Conexiones : y = cola'[i] /\ (y = x \/ Empezada(y))
        BY <1>11, <1>18
      <3>2. Empezada(y)'
        BY <1>14, <3>1
      <3>3. y[2] <= hebra'[y[1]].n
        BY <3>2 DEF Empezada
      <3>4. QED
        BY <3>1, <3>3
    <2>2. QED
      BY <2>1 DEF ColaOK, Empezada
  <1>21. HebraOK'
    <2> SUFFICES ASSUME NEW u \in Hebras, hebra'[u].pc # "libre"
                 PROVE  /\ Actual(u)' \in Conexiones
                        /\ hebra'[u].pc \in {"send", "recv"} => conexion'[Actual(u)'].enviado
      BY DEF HebraOK
    <2>1. CASE u = t
      BY <1>5, <1>10, <2>1 DEF Actual
    <2>2. CASE u # t
      <3>1. Actual(u)' = Actual(u) /\ Actual(u) # x
        BY <1>5, <1>10, <2>2 DEF Actual
      <3>2. hebra'[u].pc = hebra[u].pc
        BY <1>10, <2>2
      <3>3. QED
        BY <1>9, <3>1, <3>2 DEF Inductivo, HebraOK
    <2>3. QED
      BY <2>1, <2>2
  <1>22. CerradaOK'
    BY <1>6, <1>9, <1>15 DEF Inductivo, CerradaOK
  <1>23. CargoOK'
    <2>1. \A h \in Hilos, y \in Conexiones : ACargo(h, y)' <=> ACargo(h, y)
      BY <1>15 DEF ACargo
    <2>2. \A y \in Conexiones : conexion'[y].servidor = "abierta" => \E h \in Hilos : ACargo(h, y)'
      BY <1>6, <1>9, <2>1 DEF Inductivo, CargoOK
    <2>3. ASSUME NEW h \in Hilos, hilo'[h].pc # "libre"
          PROVE  (conexion[Encargo(h)].servidor = "abierta" /\ Empezada(Encargo(h)))'
      <3>1. hilo[h].pc # "libre" /\ hilo[h].pc \in {"libre", "nace", "recv", "send", "mensajito"}
        BY <1>15, <2>3 DEF Inductivo, IInv, TypeOK
      <3>2. PICK y \in Conexiones : y = Encargo(h) /\ y = Encargo(h)'
        BY <1>15, <3>1 DEF Encargo, Inductivo, IInv, ConexionOK
      <3>3. conexion[y].servidor = "abierta" /\ Empezada(y)
        BY <3>1, <3>2 DEF Inductivo, CargoOK
      <3>4. conexion'[y].servidor = "abierta" /\ Empezada(y)'
        BY <1>9, <1>13, <1>14, <3>3
      <3>5. QED
        BY <3>2, <3>4 DEF Empezada
    <2>4. QED
      BY <2>2, <2>3 DEF CargoOK
  <1>24. QED
    BY <1>12, <1>16, <1>17, <1>19, <1>20, <1>21, <1>22, <1>23 DEF Inductivo, IInv

(***************************************************************************)
(* The invariant.                                                          *)
(***************************************************************************)
LEMMA InductivoInicial == Init => Inductivo
  <1> SUFFICES ASSUME Init PROVE Inductivo
    OBVIOUS
  <1>1. TypeOK
    BY TipoInicial
  <1>2. /\ principal = "lock" /\ thread = FALSE /\ cola = <<>>
        /\ hilo = [h \in Hilos |-> Ocioso] /\ conexion = [x \in Conexiones |-> Nueva]
        /\ sockete = [c \in Clientes |-> Nadie]
    BY Zenon DEF Init
  <1>3. \A t \in Hebras : hebra[t].pc = "libre"
    <2>1. PICK abre : hebra = [t \in Hebras |-> [pc |-> "libre", n |-> 0, abre |-> abre]]
      BY Zenon DEF Init
    <2>2. QED
      BY <2>1
  <1>4. \A h \in Hilos : hilo[h].pc = "libre"
    BY <1>2, OciosoOK
  <1>5. \A x \in Conexiones : conexion[x].cliente = "no" /\ conexion[x].servidor = "no"
    BY <1>2 DEF Nueva
  <1>6. Len(cola) = 0
    BY <1>2
  <1>7. TurnoOK /\ ConexionOK /\ ColaOK
    BY <1>2, <1>4, <1>6 DEF TurnoOK, ConexionOK, ColaOK
  <1>8. SocketeOK
    BY <1>2, <1>3, Constantes DEF SocketeOK
  <1>9. HebraOK /\ CerradaOK /\ CargoOK
    BY <1>3, <1>4, <1>5 DEF HebraOK, CerradaOK, CargoOK
  <1>10. TurniqueteConDueno
    BY <1>2 DEF TurniqueteConDueno, Perdido
  <1>11. QED
    BY <1>1, <1>7, <1>8, <1>9, <1>10 DEF Inductivo, IInv

LEMMA InductivoSigue == Inductivo /\ [Next]_vars => Inductivo'
  <1> SUFFICES ASSUME Inductivo, [Next]_vars PROVE Inductivo'
    OBVIOUS
  <1>1. CASE TomarTurno
    BY <1>1, PasoTomarTurno
  <1>2. CASE FallaAccept
    BY <1>2, PasoFallaAccept
  <1>3. CASE Aceptar
    BY <1>3, PasoAceptar
  <1>4. ASSUME NEW h \in Hilos, PasoHilo(h)
        PROVE  Inductivo'
    BY <1>4, PasoCopiar, PasoAbandonar, PasoAtender, PasoResponder, PasoCerrar DEF PasoHilo
  <1>5. ASSUME NEW t \in Hebras, NEW p \in Operaciones, Llamar(t, p)
        PROVE  Inductivo'
    BY <1>5, PasoLlamar
  <1>6. ASSUME NEW t \in Hebras, PasoHebra(t)
        PROVE  Inductivo'
    BY <1>6, PasoEnviar, PasoTomarSockete, PasoRecibir DEF PasoHebra
  <1>7. ASSUME NEW c \in Clientes, Morir(c)
        PROVE  Inductivo'
    BY <1>7, PasoMorir
  <1>8. CASE UNCHANGED vars
    <2>1. UNCHANGED <<directorios, principal, thread, nuevo_cliente, cola, hilo, caido,
                      conexion, hebra, sockete, muertos, fallas>>
      BY <1>8 DEF vars
    <2>2. TypeOK' /\ TurnoOK' /\ TurniqueteConDueno'
      BY <2>1 DEF Inductivo, IInv, TypeOK, TurnoOK, TurniqueteConDueno, Perdido
    <2>3. QED
      BY <2>1, <2>2, BucleSolo
  <1>9. QED
    BY <1>1, <1>2, <1>3, <1>4, <1>5, <1>6, <1>7, <1>8, Zenon DEF Next

\* In every behaviour the mutexes have the owners, and the connections the
\* hands, that the inductive invariant says.
THEOREM InvarianteInductivo == Spec => []Inductivo
  BY InductivoInicial, InductivoSigue, PTL DEF Spec

\* The types, the two mutexes and the queue of connections.
THEOREM Invariante == Spec => []IInv
  <1>1. Inductivo => IInv
    BY DEF Inductivo
  <1>2. QED
    BY <1>1, InvarianteInductivo, PTL

\* The turnstile of the accept loop is only lost to a process that dies or a
\* call of the kernel that fails.
THEOREM ElTurniqueteTieneDueno == Spec => []TurniqueteConDueno
  <1>1. Inductivo => TurniqueteConDueno
    BY DEF Inductivo
  <1>2. QED
    BY <1>1, InvarianteInductivo, PTL

\* Every connection that the server has accepted has one thread.
THEOREM UnHiloPorConexion == Spec => []CadaUnoSuConexion
  <1>1. Inductivo => CadaUnoSuConexion
    <2> SUFFICES ASSUME Inductivo, NEW x \in Conexiones, conexion[x].servidor = "abierta"
                 PROVE  Cardinality({h \in Hilos : ACargo(h, x)}) = 1
      BY DEF CadaUnoSuConexion
    <2>1. PICK g \in Hilos : ACargo(g, x)
      BY DEF Inductivo, CargoOK
    <2>2. \A h \in Hilos : ACargo(h, x) => h = g
      BY <2>1 DEF Inductivo, IInv, TurnoOK, ACargo
    <2>3. {h \in Hilos : ACargo(h, x)} = {g}
      BY <2>1, <2>2
    <2>4. QED
      BY <2>3, FS_Singleton
  <1>2. QED
    BY <1>1, InvarianteInductivo, PTL

(***************************************************************************)
(* What each step does, in full.                                           *)
(***************************************************************************)

\* Where a connection waits for the server to carry its request out.
EnCola(x)     == \E i \in 1 .. Len(cola) : cola[i] = x
PorAtender(x) == \E h \in Hilos : hilo[h].pc \in {"nace", "recv"} /\ Encargo(h) = x

\* What a connection keeps in a step of the server.
Pedido(y) ==
  /\ conexion'[y].op = conexion[y].op /\ conexion'[y].dir = conexion[y].dir /\ conexion'[y].nuevo = conexion[y].nuevo
  /\ conexion'[y].cliente = conexion[y].cliente /\ conexion'[y].previas = conexion[y].previas

\* What it keeps in a step of a client.
Contestado(y) ==
  /\ conexion'[y].atendida = conexion[y].atendida
  /\ conexion'[y].respuesta = conexion[y].respuesta

\* The thread h is the one that is busy.
LEMMA SoloUno ==
  ASSUME Inductivo, NEW h \in Hilos, hilo[h].pc # "libre"
  PROVE  /\ Encargo(h) \in Conexiones /\ Empezada(Encargo(h)) /\ ~EnCola(Encargo(h))
         /\ conexion[Encargo(h)].servidor = "abierta"
         /\ thread = TRUE /\ principal = "lock" /\ ~Perdido
         /\ \A g \in Hilos : g # h => hilo[g].pc = "libre"
         /\ \A y : PorAtender(y) <=> y = Encargo(h) /\ hilo[h].pc \in {"nace", "recv"}
  <1>1. /\ hilo \in [Hilos -> TipoHilo] /\ thread \in BOOLEAN
        /\ principal \in {"lock", "accept"} /\ cola \in Seq(Conexiones)
    BY Tipos DEF Inductivo, IInv
  <1>2. /\ thread = TRUE /\ principal = "lock"
        /\ \A g \in Hilos : g # h => hilo[g].pc = "libre"
    BY <1>1 DEF Inductivo, IInv, TurnoOK
  <1>3. hilo[h].pc \in {"nace", "recv", "send", "mensajito"}
    BY <1>1 DEF TipoHilo
  <1>4. Encargo(h) \in Conexiones
    BY <1>3 DEF Inductivo, IInv, ConexionOK, Encargo
  <1>5. conexion[Encargo(h)].servidor = "abierta" /\ Empezada(Encargo(h))
    BY DEF Inductivo, CargoOK
  <1>6. ~EnCola(Encargo(h))
    BY <1>5 DEF EnCola, Inductivo, IInv, ConexionOK
  <1>7. ~Perdido
    BY DEF Perdido
  <1>8. QED
    BY <1>2, <1>4, <1>5, <1>6, <1>7 DEF PorAtender

\* The fields of a connection, as those of a record of its type.
LEMMA CamposDe ==
  ASSUME NEW q \in TipoConexion, NEW v, NEW w
  PROVE  /\ LET r == [q EXCEPT !.servidor = v, !.respuesta = w] IN
              /\ r.op = q.op /\ r.dir = q.dir /\ r.nuevo = q.nuevo /\ r.cliente = q.cliente /\ r.previas = q.previas
              /\ r.atendida = q.atendida /\ r.respuesta = w /\ r.servidor = v
         /\ LET r == [q EXCEPT !.servidor = v] IN
              /\ r.op = q.op /\ r.dir = q.dir /\ r.nuevo = q.nuevo /\ r.cliente = q.cliente /\ r.previas = q.previas
              /\ r.atendida = q.atendida /\ r.respuesta = q.respuesta /\ r.servidor = v
         /\ LET r == [q EXCEPT !.atendida = v] IN
              /\ r.op = q.op /\ r.dir = q.dir /\ r.nuevo = q.nuevo /\ r.cliente = q.cliente /\ r.previas = q.previas
              /\ r.atendida = v /\ r.respuesta = q.respuesta /\ r.servidor = q.servidor
         /\ LET r == [q EXCEPT !.respuesta = v] IN
              /\ r.op = q.op /\ r.dir = q.dir /\ r.nuevo = q.nuevo /\ r.cliente = q.cliente /\ r.previas = q.previas
              /\ r.atendida = q.atendida /\ r.respuesta = v /\ r.servidor = q.servidor
         /\ LET r == [q EXCEPT !.enviado = v] IN
              /\ r.op = q.op /\ r.dir = q.dir /\ r.nuevo = q.nuevo /\ r.cliente = q.cliente /\ r.previas = q.previas
              /\ r.atendida = q.atendida /\ r.respuesta = q.respuesta
         /\ LET r == [q EXCEPT !.cliente = v, !.previas = {}] IN
              /\ r.op = q.op /\ r.dir = q.dir /\ r.nuevo = q.nuevo /\ r.cliente = v /\ r.previas = {}
              /\ r.atendida = q.atendida /\ r.respuesta = q.respuesta
  BY DEF TipoConexion

\* The head of the queue is given to a thread, or to nobody.
LEMMA QueAceptar ==
  ASSUME Inductivo, Aceptar
  PROVE  \E x \in Conexiones :
           /\ cola # <<>> /\ cola \in Seq(Conexiones) /\ x = Head(cola) /\ cola' = Tail(cola)
           /\ nuevo_cliente' = x /\ thread = TRUE /\ thread' = TRUE
           /\ principal = "accept" /\ principal' = "lock"
           /\ \A h \in Hilos : hilo[h].pc = "libre"
           /\ UNCHANGED <<directorios, caido, hebra, muertos>>
           /\ \A y \in Conexiones : /\ Pedido(y) /\ Contestado(y)
                                    /\ y # x => conexion'[y] = conexion[y]
           /\ conexion'[x].servidor # "no"
           /\ \/ hilo' = hilo
              \/ \E h \in Hilos : /\ hilo'[h].pc = "nace"
                                  /\ \A g \in Hilos : g # h => hilo'[g] = hilo[g]
  <1>1. /\ cola \in Seq(Conexiones) /\ hilo \in [Hilos -> TipoHilo] /\ thread \in BOOLEAN
        /\ conexion \in [Conexiones -> TipoConexion]
    BY Tipos DEF Inductivo, IInv
  <1>2. cola # <<>>
    BY Zenon DEF Aceptar
  <1>3. PICK x \in Conexiones : x = Head(cola)
    BY <1>1, <1>2
  <1>4. /\ principal = "accept" /\ cola # <<>>
        /\ principal' = "lock" /\ nuevo_cliente' = x /\ cola' = Tail(cola)
        /\ UNCHANGED <<directorios, thread, caido, hebra, sockete, muertos>>
        /\ \/ /\ \E h \in Hilos : hilo[h].pc = "libre" /\ hilo' = [hilo EXCEPT ![h].pc = "nace"]
              /\ conexion' = [conexion EXCEPT ![x].servidor = "abierta"]
           \/ /\ conexion' = [conexion EXCEPT ![x].servidor = "olvidada"]
              /\ hilo' = hilo
    BY <1>3, Zenon DEF Aceptar, clientes
  <1>5. thread = TRUE /\ \A h \in Hilos : hilo[h].pc = "libre"
    BY <1>1, <1>4 DEF Inductivo, IInv, TurnoOK
  <1>6. PICK w \in {"abierta", "olvidada"} : conexion' = [conexion EXCEPT ![x].servidor = w]
    BY <1>4
  <1> DEFINE q == [conexion[x] EXCEPT !.servidor = w]
  <1>7. conexion'[x] = q /\ \A y \in Conexiones : y # x => conexion'[y] = conexion[y]
    BY <1>1, <1>6
  <1>8. conexion[x] \in TipoConexion
    BY <1>1
  <1>9. /\ q.op = conexion[x].op /\ q.dir = conexion[x].dir /\ q.nuevo = conexion[x].nuevo /\ q.cliente = conexion[x].cliente
        /\ q.previas = conexion[x].previas /\ q.atendida = conexion[x].atendida
        /\ q.respuesta = conexion[x].respuesta /\ q.servidor = w
    BY <1>8, CamposDe
  <1> HIDE DEF q
  <1>10. \A y \in Conexiones : /\ Pedido(y) /\ Contestado(y)
                               /\ y # x => conexion'[y] = conexion[y]
    BY <1>7, <1>9 DEF Pedido, Contestado
  <1>11. \/ hilo' = hilo
         \/ \E h \in Hilos : /\ hilo'[h].pc = "nace"
                             /\ \A g \in Hilos : g # h => hilo'[g] = hilo[g]
    <2>1. CASE hilo' = hilo
      BY <2>1
    <2>2. ASSUME NEW h \in Hilos, hilo' = [hilo EXCEPT ![h].pc = "nace"]
          PROVE  hilo'[h].pc = "nace" /\ \A g \in Hilos : g # h => hilo'[g] = hilo[g]
      BY <1>1, <2>2 DEF TipoHilo
    <2>3. QED
      BY <1>4, <2>1, <2>2
  <1>12. conexion'[x].servidor # "no"
    BY <1>6, <1>7, <1>9
  <1>13. QED
    BY <1>1, <1>3, <1>4, <1>5, <1>10, <1>11, <1>12

\* What the steps of a thread of the server leave alone.
Ajeno == UNCHANGED <<principal, nuevo_cliente, cola, hebra, muertos>>

LEMMA QueCopiar ==
  ASSUME Inductivo, NEW h \in Hilos, Copiar(h)
  PROVE  /\ hilo[h].pc = "nace" /\ Ajeno /\ UNCHANGED <<directorios, caido, conexion, thread>>
         /\ Encargo(h) = nuevo_cliente
         /\ hilo'[h].pc = "recv" /\ hilo'[h].con = nuevo_cliente
         /\ \A g \in Hilos : g # h => hilo'[g] = hilo[g]
  <1>1. /\ hilo[h].pc = "nace"
        /\ hilo' = [hilo EXCEPT ![h] = [Ocioso EXCEPT !.pc = "recv", !.con = nuevo_cliente]]
        /\ UNCHANGED <<directorios, principal, thread, nuevo_cliente, cola, caido,
                       conexion, clientes, fallas>>
    BY Zenon DEF Copiar, En
  <1>2. hilo \in [Hilos -> TipoHilo]
    BY Tipos DEF Inductivo, IInv
  <1>3. QED
    BY <1>1, <1>2 DEF Ocioso, Ajeno, clientes, Encargo

LEMMA QueAbandonar ==
  ASSUME Inductivo, NEW h \in Hilos, Abandonar(h)
  PROVE  /\ hilo[h].pc = "recv" /\ Ajeno /\ UNCHANGED <<directorios, caido, thread>>
         /\ Encargo(h) = hilo[h].con /\ De(hilo[h].con) \in muertos
         /\ hilo'[h].pc = "libre" /\ \A g \in Hilos : g # h => hilo'[g] = hilo[g]
         /\ conexion'[hilo[h].con].servidor # "no"
         /\ \A y \in Conexiones : /\ Pedido(y) /\ Contestado(y)
                                  /\ y # hilo[h].con => conexion'[y] = conexion[y]
  <1>1. /\ hilo[h].pc = "recv" /\ hilo' = [hilo EXCEPT ![h] = Ocioso]
        /\ conexion' = [conexion EXCEPT ![hilo[h].con].servidor = "olvidada"]
        /\ ~conexion[hilo[h].con].enviado /\ conexion[hilo[h].con].cliente = "cerrada"
        /\ UNCHANGED <<directorios, principal, thread, nuevo_cliente, cola, caido,
                       clientes, fallas>>
    BY Zenon DEF Abandonar, En
  <1>2. hilo \in [Hilos -> TipoHilo] /\ conexion \in [Conexiones -> TipoConexion]
    BY Tipos DEF Inductivo, IInv
  <1>3. Encargo(h) = hilo[h].con /\ hilo[h].con \in Conexiones
    BY <1>1, SoloUno DEF Encargo
  <1>4. PICK x \in Conexiones : x = hilo[h].con
    BY <1>3
  <1> DEFINE q == [conexion[x] EXCEPT !.servidor = "olvidada"]
  <1>5. conexion'[x] = q /\ \A y \in Conexiones : y # x => conexion'[y] = conexion[y]
    BY <1>1, <1>2, <1>4
  <1>6. conexion[x] \in TipoConexion
    BY <1>2
  <1>7. /\ q.op = conexion[x].op /\ q.dir = conexion[x].dir /\ q.nuevo = conexion[x].nuevo /\ q.cliente = conexion[x].cliente
        /\ q.previas = conexion[x].previas /\ q.atendida = conexion[x].atendida
        /\ q.respuesta = conexion[x].respuesta /\ q.servidor # "no"
    BY <1>6, CamposDe
  <1> HIDE DEF q
  <1>8. \A y \in Conexiones : /\ Pedido(y) /\ Contestado(y)
                              /\ y # x => conexion'[y] = conexion[y]
    BY <1>5, <1>7 DEF Pedido, Contestado
  <1>9. De(x) \in muertos
    BY <1>1, <1>4 DEF Inductivo, CerradaOK
  <1>10. hilo'[h].pc = "libre" /\ \A g \in Hilos : g # h => hilo'[g] = hilo[g]
    BY <1>1, <1>2, OciosoOK
  <1>11. Ajeno /\ UNCHANGED <<directorios, caido, thread>>
    BY <1>1 DEF Ajeno, clientes
  <1>12. QED
    BY <1>1, <1>3, <1>4, <1>5, <1>7, <1>8, <1>9, <1>10, <1>11

LEMMA QueResponder ==
  ASSUME Inductivo, NEW h \in Hilos, Responder(h)
  PROVE  /\ hilo[h].pc = "send" /\ Ajeno /\ UNCHANGED <<directorios, caido, thread>>
         /\ Encargo(h) = hilo[h].con /\ hilo[h].con \in Conexiones /\ ~caido
         /\ hilo'[h].pc = "mensajito" /\ hilo'[h].con = hilo[h].con
         /\ hilo'[h].resp = hilo[h].resp /\ hilo'[h].resto = hilo[h].resto
         /\ \A g \in Hilos : g # h => hilo'[g] = hilo[g]
         /\ conexion'[hilo[h].con].respuesta = hilo[h].resp
         /\ \A y \in Conexiones : /\ Pedido(y)
                                  /\ conexion'[y].atendida = conexion[y].atendida
                                  /\ conexion'[y].servidor = conexion[y].servidor
                                  /\ y # hilo[h].con => conexion'[y] = conexion[y]
  <1>1. /\ hilo[h].pc = "send" /\ ~caido
        /\ conexion' = [conexion EXCEPT ![hilo[h].con].respuesta = hilo[h].resp]
        /\ hilo' = [hilo EXCEPT ![h].pc = "mensajito"]
        /\ UNCHANGED <<directorios, principal, thread, nuevo_cliente, cola, caido,
                       clientes, fallas>>
    BY Zenon DEF Responder, En
  <1>2. hilo \in [Hilos -> TipoHilo] /\ conexion \in [Conexiones -> TipoConexion]
    BY Tipos DEF Inductivo, IInv
  <1>3. Encargo(h) = hilo[h].con /\ hilo[h].con \in Conexiones
    BY <1>1, SoloUno DEF Encargo
  <1>4. PICK x \in Conexiones : x = hilo[h].con
    BY <1>3
  <1> DEFINE q == [conexion[x] EXCEPT !.respuesta = hilo[h].resp]
  <1>5. conexion'[x] = q /\ \A y \in Conexiones : y # x => conexion'[y] = conexion[y]
    BY <1>1, <1>2, <1>4
  <1>6. conexion[x] \in TipoConexion
    BY <1>2
  <1>7. /\ q.op = conexion[x].op /\ q.dir = conexion[x].dir /\ q.nuevo = conexion[x].nuevo /\ q.cliente = conexion[x].cliente
        /\ q.previas = conexion[x].previas /\ q.atendida = conexion[x].atendida
        /\ q.respuesta = hilo[h].resp /\ q.servidor = conexion[x].servidor
    BY <1>6, CamposDe
  <1> HIDE DEF q
  <1>8. \A y \in Conexiones : /\ Pedido(y)
                              /\ conexion'[y].atendida = conexion[y].atendida
                              /\ conexion'[y].servidor = conexion[y].servidor
                              /\ y # x => conexion'[y] = conexion[y]
    BY <1>5, <1>7 DEF Pedido
  <1>9. /\ hilo'[h].pc = "mensajito" /\ hilo'[h].con = hilo[h].con
        /\ hilo'[h].resp = hilo[h].resp /\ hilo'[h].resto = hilo[h].resto
        /\ \A g \in Hilos : g # h => hilo'[g] = hilo[g]
    BY <1>1, <1>2 DEF TipoHilo
  <1>10. Ajeno /\ UNCHANGED <<directorios, caido, thread>>
    BY <1>1 DEF Ajeno, clientes
  <1>11. QED
    BY <1>1, <1>3, <1>4, <1>5, <1>7, <1>8, <1>9, <1>10

\* A reset only loses the reply to a write that was received in part.
LEMMA QueCerrar ==
  ASSUME Inductivo, NEW h \in Hilos, Cerrar(h)
  PROVE  /\ hilo[h].pc = "mensajito" /\ Ajeno /\ UNCHANGED <<directorios, caido>>
         /\ Encargo(h) = hilo[h].con /\ hilo[h].con \in Conexiones
         /\ hilo'[h].pc = "libre" /\ \A g \in Hilos : g # h => hilo'[g] = hilo[g]
         /\ conexion'[hilo[h].con].servidor # "no"
         /\ \/ conexion'[hilo[h].con].respuesta = conexion[hilo[h].con].respuesta
            \/ /\ hilo[h].resto /\ ~Volvio(hilo[h].con)
               /\ conexion'[hilo[h].con].respuesta = "perdida"
         /\ \A y \in Conexiones : /\ Pedido(y)
                                  /\ conexion'[y].atendida = conexion[y].atendida
                                  /\ y # hilo[h].con => conexion'[y] = conexion[y]
  <1>1. /\ hilo[h].pc = "mensajito" /\ hilo' = [hilo EXCEPT ![h] = Ocioso]
        /\ UNCHANGED <<directorios, principal, nuevo_cliente, cola, caido, clientes, fallas>>
    BY Zenon DEF Cerrar, En
  <1>2. hilo \in [Hilos -> TipoHilo] /\ conexion \in [Conexiones -> TipoConexion]
    BY Tipos DEF Inductivo, IInv
  <1>3. Encargo(h) = hilo[h].con /\ hilo[h].con \in Conexiones
    BY <1>1, SoloUno DEF Encargo
  <1>4. PICK x \in Conexiones : x = hilo[h].con
    BY <1>3
  <1>5. PICK s \in {conexion[x].respuesta} \cup
                   (IF SinLeer(h) /\ ~Volvio(x) THEN {"perdida"} ELSE {}) :
           conexion' = [conexion EXCEPT ![x].servidor = "cerrada", ![x].respuesta = s]
    BY <1>4, Zenon DEF Cerrar
  <1>6. s = conexion[x].respuesta \/ (hilo[h].resto /\ ~Volvio(x) /\ s = "perdida")
    BY <1>5 DEF SinLeer
  <1> DEFINE q == [conexion[x] EXCEPT !.servidor = "cerrada", !.respuesta = s]
  <1>7. conexion'[x] = q /\ \A z \in Conexiones : z # x => conexion'[z] = conexion[z]
    BY <1>2, <1>5
  <1>8. conexion[x] \in TipoConexion
    BY <1>2
  <1>9. /\ q.op = conexion[x].op /\ q.dir = conexion[x].dir /\ q.nuevo = conexion[x].nuevo /\ q.cliente = conexion[x].cliente
        /\ q.previas = conexion[x].previas /\ q.atendida = conexion[x].atendida
        /\ q.respuesta = s /\ q.servidor = "cerrada"
    BY <1>8, CamposDe
  <1> HIDE DEF q
  <1>10. \A z \in Conexiones : /\ Pedido(z)
                               /\ conexion'[z].atendida = conexion[z].atendida
                               /\ z # x => conexion'[z] = conexion[z]
    BY <1>7, <1>9 DEF Pedido
  <1>11. hilo'[h].pc = "libre" /\ \A g \in Hilos : g # h => hilo'[g] = hilo[g]
    BY <1>1, <1>2, OciosoOK
  <1>12. Ajeno /\ UNCHANGED <<directorios, caido>>
    BY <1>1 DEF Ajeno, clientes
  <1>13. /\ conexion'[x].servidor # "no"
         /\ \/ conexion'[x].respuesta = conexion[x].respuesta
            \/ hilo[h].resto /\ ~Volvio(x) /\ conexion'[x].respuesta = "perdida"
    BY <1>6, <1>7, <1>9
  <1>14. QED
    BY <1>1, <1>3, <1>4, <1>10, <1>11, <1>12, <1>13

\* The thread h carries out the request of x, or brings the server down with it.
Atiende(h, x) ==
  /\ hilo[h].pc = "recv" /\ Ajeno /\ UNCHANGED thread
  /\ Encargo(h) = x /\ hilo[h].con = x /\ ~caido
  /\ \A y \in Conexiones : /\ Pedido(y)
                           /\ conexion'[y].respuesta = conexion[y].respuesta
                           /\ conexion'[y].servidor = conexion[y].servidor
                           /\ y # x => conexion'[y] = conexion[y]
  /\ \A g \in Hilos : g # h => hilo'[g] = hilo[g]
  /\ \/ /\ Derriba(conexion[x].op, directorios[conexion[x].dir])
        /\ caido' = TRUE /\ UNCHANGED <<directorios, hilo, conexion>>
     \/ /\ caido' = caido /\ conexion'[x].atendida = TRUE
        /\ hilo'[h].pc = "send" /\ hilo'[h].con = x
        /\ hilo'[h].resto => conexion[x].op = "write"
        /\ \E ef \in Efectos(directorios, conexion[x]) :
              /\ hilo'[h].resp = ef[2]
              /\ directorios' = ef[1]

LEMMA QueAtender ==
  ASSUME Inductivo, NEW h \in Hilos, Atender(h)
  PROVE  \E x \in Conexiones : Atiende(h, x)
  <1>1. /\ hilo[h].pc = "recv" /\ ~caido
        /\ UNCHANGED <<principal, thread, nuevo_cliente, cola, clientes, fallas>>
    BY Zenon DEF Atender, En
  <1>2. hilo \in [Hilos -> TipoHilo] /\ conexion \in [Conexiones -> TipoConexion]
    BY Tipos DEF Inductivo, IInv
  <1>3. Encargo(h) = hilo[h].con /\ hilo[h].con \in Conexiones
    BY <1>1, SoloUno DEF Encargo
  <1>4. PICK x \in Conexiones : x = hilo[h].con
    BY <1>3
  <1> DEFINE d == conexion[x].dir
             op == conexion[x].op
             efectos == Efectos(directorios, conexion[x])
  <1>5. Ajeno /\ UNCHANGED thread
    BY <1>1 DEF Ajeno, clientes
  <1>6. \/ /\ Derriba(op, directorios[d])
           /\ caido' = TRUE /\ UNCHANGED <<directorios, hilo, conexion>>
        \/ /\ \E ef \in efectos :
              \E resto \in IF op = "write" THEN BOOLEAN ELSE {FALSE} :
                   /\ directorios' = ef[1]
                   /\ hilo' = [hilo EXCEPT ![h].pc = "send", ![h].resp = ef[2],
                                           ![h].resto = resto]
           /\ conexion' = [conexion EXCEPT ![x].atendida = TRUE]
           /\ caido' = caido
    BY <1>4, Zenon DEF Atender
  <1> HIDE DEF efectos, d, op
  <1>7. CASE /\ Derriba(op, directorios[d])
             /\ caido' = TRUE /\ UNCHANGED <<directorios, hilo, conexion>>
    BY <1>1, <1>3, <1>4, <1>5, <1>7 DEF Pedido, d, op, Atiende
  <1>8. ASSUME NEW ef \in efectos, NEW resto \in IF op = "write" THEN BOOLEAN ELSE {FALSE},
               directorios' = ef[1],
               hilo' = [hilo EXCEPT ![h].pc = "send", ![h].resp = ef[2], ![h].resto = resto],
               conexion' = [conexion EXCEPT ![x].atendida = TRUE],
               caido' = caido
        PROVE  /\ \A y \in Conexiones : /\ Pedido(y)
                                        /\ conexion'[y].respuesta = conexion[y].respuesta
                                        /\ conexion'[y].servidor = conexion[y].servidor
                                        /\ y # x => conexion'[y] = conexion[y]
               /\ \A g \in Hilos : g # h => hilo'[g] = hilo[g]
               /\ conexion'[x].atendida = TRUE
               /\ hilo'[h].pc = "send" /\ hilo'[h].con = x
               /\ hilo'[h].resto => op = "write"
               /\ hilo'[h].resp = ef[2]
    <2> DEFINE q == [conexion[x] EXCEPT !.atendida = TRUE]
               r == [hilo[h] EXCEPT !.pc = "send", !.resp = ef[2], !.resto = resto]
    <2>1. conexion'[x] = q /\ \A y \in Conexiones : y # x => conexion'[y] = conexion[y]
      BY <1>2, <1>8
    <2>2. conexion[x] \in TipoConexion /\ hilo[h] \in TipoHilo
      BY <1>2
    <2>3. /\ q.op = conexion[x].op /\ q.dir = conexion[x].dir /\ q.nuevo = conexion[x].nuevo /\ q.cliente = conexion[x].cliente
          /\ q.previas = conexion[x].previas /\ q.atendida = TRUE
          /\ q.respuesta = conexion[x].respuesta /\ q.servidor = conexion[x].servidor
      BY <2>2, CamposDe
    <2>4. r.pc = "send" /\ r.con = x /\ r.resp = ef[2] /\ r.resto = resto
      BY <1>4, <2>2 DEF TipoHilo
    <2>5. hilo' = [hilo EXCEPT ![h] = r]
      BY <1>8
    <2> HIDE DEF q, r
    <2>6. hilo'[h] = r /\ \A g \in Hilos : g # h => hilo'[g] = hilo[g]
      BY <1>2, <2>5
    <2>7. \A y \in Conexiones : /\ Pedido(y)
                                /\ conexion'[y].respuesta = conexion[y].respuesta
                                /\ conexion'[y].servidor = conexion[y].servidor
                                /\ y # x => conexion'[y] = conexion[y]
      BY <2>1, <2>3 DEF Pedido
    <2>8. resto => op = "write"
      BY <1>8
    <2>9. QED
      BY <2>1, <2>3, <2>4, <2>6, <2>7, <2>8
  <1>9. CASE /\ \E ef \in efectos :
                \E resto \in IF op = "write" THEN BOOLEAN ELSE {FALSE} :
                   /\ directorios' = ef[1]
                   /\ hilo' = [hilo EXCEPT ![h].pc = "send", ![h].resp = ef[2],
                                           ![h].resto = resto]
             /\ conexion' = [conexion EXCEPT ![x].atendida = TRUE]
             /\ caido' = caido
    <2>1. PICK ef \in efectos, resto \in IF op = "write" THEN BOOLEAN ELSE {FALSE} :
                   /\ directorios' = ef[1]
                   /\ hilo' = [hilo EXCEPT ![h].pc = "send", ![h].resp = ef[2],
                                           ![h].resto = resto]
      BY <1>9, Zenon
    <2>2. /\ \A y \in Conexiones : /\ Pedido(y)
                                   /\ conexion'[y].respuesta = conexion[y].respuesta
                                   /\ conexion'[y].servidor = conexion[y].servidor
                                   /\ y # x => conexion'[y] = conexion[y]
          /\ \A g \in Hilos : g # h => hilo'[g] = hilo[g]
          /\ conexion'[x].atendida = TRUE
          /\ hilo'[h].pc = "send" /\ hilo'[h].con = x
          /\ hilo'[h].resto => op = "write"
          /\ hilo'[h].resp = ef[2]
      BY <1>8, <1>9, <2>1, Zenon
    <2>3. ef \in Efectos(directorios, conexion[x])
      BY DEF efectos
    <2>4. directorios' = ef[1]
      BY <2>1
    <2>5. \E f \in Efectos(directorios, conexion[x]) :
             hilo'[h].resp = f[2] /\ directorios' = f[1]
      BY <2>2, <2>3, <2>4, Zenon
    <2>6. QED
      BY <1>1, <1>3, <1>4, <1>5, <1>9, <2>2, <2>5, Zenon DEF d, op, Atiende
  <1>10. QED
    BY <1>6, <1>7, <1>9, Zenon

LEMMA HiloAjeno ==
  ASSUME Inductivo, NEW h \in Hilos, PasoHilo(h)
  PROVE  hilo[h].pc # "libre" /\ Ajeno
  BY QueCopiar, QueAbandonar, QueAtender, QueResponder, QueCerrar DEF PasoHilo, Atiende

\* What the steps of the clients leave alone, but for the start of a call.
Quieto == UNCHANGED <<directorios, principal, thread, nuevo_cliente, cola, hilo, caido>>

Fijo(y) ==
  /\ conexion'[y].op = conexion[y].op /\ conexion'[y].dir = conexion[y].dir /\ conexion'[y].nuevo = conexion[y].nuevo
  /\ conexion'[y].servidor = conexion[y].servidor /\ Contestado(y)

\* The thread t of FUSE goes on with the call that it has.
SigueHebra(t) ==
  /\ hebra'[t].n = hebra[t].n /\ hebra'[t].abre = hebra[t].abre
  /\ \A u \in Hebras : u # t => hebra'[u] = hebra[u]

\* A thread that calls has begun with its connection.
LEMMA ActualEmpezada ==
  ASSUME Inductivo, NEW t \in Hebras
  PROVE  /\ hebra[t].pc # "libre" => Actual(t) \in Conexiones /\ Empezada(Actual(t))
         /\ hebra[t].n \in Nat /\ hebra \in [Hebras -> TipoHebra]
  <1>1. hebra \in [Hebras -> TipoHebra]
    BY Tipos DEF Inductivo, IInv
  <1>2. hebra[t].n \in Nat
    BY <1>1, Constantes DEF TipoHebra
  <1>3. Actual(t)[1] = t /\ Actual(t)[2] = hebra[t].n
    BY DEF Actual
  <1>4. Empezada(Actual(t))
    BY <1>2, <1>3 DEF Empezada
  <1>5. QED
    BY <1>1, <1>2, <1>4 DEF Inductivo, HebraOK

LEMMA QueEnviar ==
  ASSUME Inductivo, NEW t \in Hebras, Enviar(t)
  PROVE  /\ hebra[t].pc = "connect" /\ hebra'[t].pc = "send" /\ SigueHebra(t)
         /\ Quieto /\ UNCHANGED muertos
         /\ \A y \in Conexiones : /\ Pedido(y) /\ Fijo(y)
                                  /\ y # Actual(t) => conexion'[y] = conexion[y]
  <1>1. /\ hebra[t].pc = "connect"
        /\ conexion' = [conexion EXCEPT ![Actual(t)].enviado = TRUE]
        /\ hebra' = [hebra EXCEPT ![t].pc = "send"]
        /\ UNCHANGED <<servidor, cola, sockete, muertos, fallas>>
    BY Zenon DEF Enviar
  <1>2. hebra \in [Hebras -> TipoHebra] /\ conexion \in [Conexiones -> TipoConexion]
    BY Tipos DEF Inductivo, IInv
  <1>3. PICK x \in Conexiones : x = Actual(t)
    BY <1>1, ActualEmpezada
  <1> DEFINE q == [conexion[x] EXCEPT !.enviado = TRUE]
  <1>4. conexion'[x] = q /\ \A y \in Conexiones : y # x => conexion'[y] = conexion[y]
    BY <1>1, <1>2, <1>3
  <1>5. conexion[x] \in TipoConexion
    BY <1>2
  <1>6. /\ q.op = conexion[x].op /\ q.dir = conexion[x].dir /\ q.nuevo = conexion[x].nuevo /\ q.cliente = conexion[x].cliente
        /\ q.previas = conexion[x].previas /\ q.atendida = conexion[x].atendida
        /\ q.respuesta = conexion[x].respuesta
    BY <1>5, CamposDe
  <1>a. q.servidor = conexion[x].servidor
    BY <1>5 DEF TipoConexion
  <1> HIDE DEF q
  <1>7. \A y \in Conexiones : /\ Pedido(y) /\ Fijo(y)
                              /\ y # x => conexion'[y] = conexion[y]
    BY <1>4, <1>6, <1>a DEF Pedido, Fijo, Contestado
  <1>8. hebra'[t].pc = "send" /\ SigueHebra(t)
    BY <1>1, <1>2 DEF TipoHebra, SigueHebra
  <1>9. Quieto /\ UNCHANGED muertos
    BY <1>1 DEF Quieto, servidor
  <1>10. QED
    BY <1>1, <1>3, <1>7, <1>8, <1>9

LEMMA QueTomarSockete ==
  ASSUME Inductivo, NEW t \in Hebras, TomarSockete(t)
  PROVE  /\ hebra[t].pc = "send" /\ hebra'[t].pc = "recv" /\ SigueHebra(t)
         /\ Quieto /\ UNCHANGED <<muertos, conexion>>
  <1>1. /\ hebra[t].pc = "send"
        /\ hebra' = [hebra EXCEPT ![t].pc = "recv"]
        /\ UNCHANGED <<servidor, cola, conexion, muertos, fallas>>
    BY Zenon DEF TomarSockete
  <1>2. hebra \in [Hebras -> TipoHebra]
    BY Tipos DEF Inductivo, IInv
  <1>3. hebra'[t].pc = "recv" /\ SigueHebra(t)
    BY <1>1, <1>2 DEF TipoHebra, SigueHebra
  <1>4. QED
    BY <1>1, <1>3 DEF Quieto, servidor

LEMMA QueRecibir ==
  ASSUME Inductivo, NEW t \in Hebras, Recibir(t)
  PROVE  \E x \in Conexiones :
           /\ x = Actual(t) /\ Empezada(x) /\ YaRecibe(x) /\ Quieto /\ UNCHANGED muertos
           /\ hebra[t].pc = "recv" /\ hebra'[t].pc = "libre" /\ hebra'[t].n = hebra[t].n
           /\ \A u \in Hebras : /\ hebra'[u].abre = AbreTras(u, t, conexion[x])
                                /\ hebra'[u].n = hebra[u].n
                                /\ u # t => hebra'[u].pc = hebra[u].pc
           /\ conexion'[x].previas = {}
           /\ conexion'[x].cliente = (IF conexion[x].respuesta # "vacia" THEN "cerrada" ELSE "abierta")
           /\ \A y \in Conexiones : Fijo(y) /\ (y # x => conexion'[y] = conexion[y])
  <1>1. hebra[t].pc = "recv"
    BY Zenon DEF Recibir
  <1>2. PICK x \in Conexiones : x = Actual(t) /\ Empezada(x)
    BY <1>1, ActualEmpezada
  <1> DEFINE v == IF conexion[x].respuesta # "vacia" THEN "cerrada" ELSE "abierta"
             q == [conexion[x] EXCEPT !.cliente = v, !.previas = {}]
             abre(u) == AbreTras(u, t, conexion[x])
             r(u) == [pc |-> IF u = t THEN "libre" ELSE hebra[u].pc, n |-> hebra[u].n,
                      abre |-> abre(u)]
  <1>3. /\ conexion' = [conexion EXCEPT ![x] = q] /\ hebra' = [u \in Hebras |-> r(u)]
        /\ YaRecibe(x) /\ UNCHANGED <<servidor, cola, muertos, fallas>>
    BY <1>2 DEF Recibir, Cierra, AbreTras
  <1>4. hebra \in [Hebras -> TipoHebra] /\ conexion \in [Conexiones -> TipoConexion]
    BY Tipos DEF Inductivo, IInv
  <1>5. conexion[x] \in TipoConexion /\ hebra[t] \in TipoHebra
    BY <1>4
  <1>6. /\ q.op = conexion[x].op /\ q.dir = conexion[x].dir /\ q.nuevo = conexion[x].nuevo /\ q.cliente = v
        /\ q.previas = {} /\ q.atendida = conexion[x].atendida
        /\ q.respuesta = conexion[x].respuesta
    BY <1>5, CamposDe
  <1>7. q.servidor = conexion[x].servidor
    BY <1>5 DEF TipoConexion
  <1>8. \A u \in Hebras : /\ r(u).n = hebra[u].n /\ r(u).abre = abre(u)
                          /\ r(t).pc = "libre" /\ (u # t => r(u).pc = hebra[u].pc)
    <2> HIDE DEF abre
    <2>1. QED
      OBVIOUS
  <1> HIDE DEF q, r
  <1>9. conexion'[x] = q /\ \A y \in Conexiones : y # x => conexion'[y] = conexion[y]
    BY <1>3, <1>4
  <1>10. \A u \in Hebras : hebra'[u] = r(u)
    BY <1>3
  <1>11. \A y \in Conexiones : Fijo(y) /\ (y # x => conexion'[y] = conexion[y])
    BY <1>6, <1>7, <1>9 DEF Fijo, Contestado
  <1>12. Quieto /\ UNCHANGED muertos
    BY <1>3 DEF Quieto, servidor
  <1>13. QED
    BY <1>1, <1>2, <1>3, <1>6, <1>8, <1>9, <1>10, <1>11, <1>12

LEMMA QueMorir ==
  ASSUME Inductivo, NEW c \in Clientes, Morir(c)
  PROVE  /\ Quieto /\ muertos' = muertos \cup {c}
         /\ \A t \in Hebras : /\ hebra'[t].n = hebra[t].n
                              /\ ClienteDe[t] = c => hebra'[t].pc = "libre" /\ hebra'[t].abre = Nadie
                              /\ ClienteDe[t] # c => hebra'[t] = hebra[t]
         /\ \A y \in Conexiones : /\ Fijo(y) /\ conexion'[y].previas \subseteq conexion[y].previas
                                  /\ De(y) # c => conexion'[y] = conexion[y]
                                  /\ conexion[y].cliente # "abierta" => conexion'[y] = conexion[y]
  <1>1. /\ muertos' = muertos \cup {c} /\ UNCHANGED <<servidor, cola>>
    BY Zenon DEF Morir
  <1>2. hebra \in [Hebras -> TipoHebra] /\ conexion \in [Conexiones -> TipoConexion]
    BY Tipos DEF Inductivo, IInv
  <1>3. conexion' = [x \in Conexiones |->
              IF De(x) = c /\ conexion[x].cliente = "abierta"
              THEN Cortar(conexion[x]) ELSE conexion[x]]
    BY Zenon DEF Morir, Cortar
  <1>4. hebra' = [t \in Hebras |->
              IF ClienteDe[t] = c THEN Soltar(hebra[t]) ELSE hebra[t]]
    BY Zenon DEF Morir, Soltar
  <1>5. \A r \in TipoHebra : Soltar(r).n = r.n /\ Soltar(r).pc = "libre" /\ Soltar(r).abre = Nadie
    BY DEF Soltar, TipoHebra
  <1>6. \A q \in TipoConexion :
           /\ Cortar(q).op = q.op /\ Cortar(q).dir = q.dir /\ Cortar(q).nuevo = q.nuevo /\ Cortar(q).previas = {}
           /\ Cortar(q).servidor = q.servidor /\ Cortar(q).atendida = q.atendida
           /\ Cortar(q).respuesta = q.respuesta
    BY DEF Cortar, TipoConexion
  <1>7. \A t \in Hebras : /\ hebra'[t].n = hebra[t].n
                          /\ ClienteDe[t] = c => hebra'[t].pc = "libre" /\ hebra'[t].abre = Nadie
                          /\ ClienteDe[t] # c => hebra'[t] = hebra[t]
    BY <1>2, <1>4, <1>5
  <1>8. \A y \in Conexiones : /\ Fijo(y) /\ conexion'[y].previas \subseteq conexion[y].previas
                              /\ De(y) # c => conexion'[y] = conexion[y]
                              /\ conexion[y].cliente # "abierta" => conexion'[y] = conexion[y]
    BY <1>2, <1>3, <1>6 DEF Fijo, Contestado
  <1>9. Quieto
    BY <1>1 DEF Quieto, servidor
  <1>10. QED
    BY <1>1, <1>7, <1>8, <1>9

\* The thread t makes the call p, with the connection x.
Llama(t, p, x) ==
  /\ x = <<t, hebra[t].n + 1>> /\ x[1] = t /\ x[2] = hebra[t].n + 1
  /\ ~Empezada(x) /\ hebra[t].pc = "libre" /\ hebra[t].n \in Nat
  /\ ~caido /\ ClienteDe[t] \notin muertos /\ Permitido(t, p)
  /\ cola \in Seq(Conexiones) /\ cola' = Append(cola, x)
  /\ UNCHANGED <<directorios, principal, thread, nuevo_cliente, hilo, caido, muertos>>
  /\ \A y \in Conexiones : y # x => conexion'[y] = conexion[y]
  /\ conexion'[x].op = p.op /\ conexion'[x].dir = p.dir /\ conexion'[x].nuevo = p.nuevo
  /\ conexion'[x].cliente = "abierta" /\ conexion'[x].servidor = "no" /\ conexion'[x].atendida = FALSE
  /\ conexion'[x].respuesta = "nada"
  /\ conexion'[x].previas = {y \in Conexiones : Debida(y)}
  /\ hebra'[t].pc = "connect" /\ hebra'[t].n = hebra[t].n + 1
  /\ \A u \in Hebras : u # t => hebra'[u].pc = hebra[u].pc /\ hebra'[u].n = hebra[u].n
  /\ \A u \in Hebras :
        hebra'[u].abre = IF u = t /\ p.op = "opendir" THEN p.dir
                         ELSE IF /\ p.op = "rmdir" /\ ClienteDe[u] = ClienteDe[t]
                                 /\ Bajo(hebra[u].abre, p.dir)
                         THEN Nadie ELSE hebra[u].abre

LEMMA QueLlamar ==
  ASSUME Inductivo, NEW t \in Hebras, NEW p \in Operaciones,
         Llamar(t, p)
  PROVE  \E x \in Conexiones : Llama(t, p, x)
  <1> DEFINE previas == {y \in Conexiones : Debida(y)}
             q == [Nueva EXCEPT !.op = p.op, !.dir = p.dir, !.nuevo = p.nuevo,
                                !.cliente = "abierta", !.previas = previas]
             abre(u) == IF u = t /\ p.op = "opendir" THEN p.dir
                        ELSE IF /\ p.op = "rmdir" /\ ClienteDe[u] = ClienteDe[t]
                                /\ Bajo(hebra[u].abre, p.dir)
                        THEN Nadie ELSE hebra[u].abre
             r(u) == [pc   |-> IF u = t THEN "connect" ELSE hebra[u].pc,
                      n    |-> IF u = t THEN hebra[t].n + 1 ELSE hebra[u].n,
                      abre |-> abre(u)]
  <1>1. /\ hebra[t].pc = "libre" /\ hebra[t].n < MaxLlamadas /\ ~caido
        /\ ClienteDe[t] \notin muertos /\ Permitido(t, p)
        /\ cola' = Append(cola, <<t, hebra[t].n + 1>>)
        /\ conexion' = [conexion EXCEPT ![<<t, hebra[t].n + 1>>] = q]
        /\ hebra' = [u \in Hebras |-> r(u)]
        /\ UNCHANGED <<servidor, sockete, muertos, fallas>>
    BY Zenon DEF Llamar
  <1>2. /\ hebra \in [Hebras -> TipoHebra] /\ conexion \in [Conexiones -> TipoConexion]
        /\ cola \in Seq(Conexiones) /\ hebra[t].n \in Nat /\ MaxLlamadas \in Nat
    BY Tipos, ActualEmpezada, Constantes DEF Inductivo, IInv
  <1>3. <<t, hebra[t].n + 1>> \in Conexiones
    BY <1>1, <1>2 DEF Conexiones
  <1>4. PICK x \in Conexiones : x = <<t, hebra[t].n + 1>>
    BY <1>3
  <1>5. x[1] = t /\ x[2] = hebra[t].n + 1
    BY <1>4
  <1>6. ~Empezada(x)
    BY <1>2, <1>5 DEF Empezada
  <1>7. /\ q.op = p.op /\ q.dir = p.dir /\ q.nuevo = p.nuevo
        /\ q.cliente = "abierta" /\ q.servidor = "no"
        /\ q.atendida = FALSE /\ q.respuesta = "nada" /\ q.previas = previas
    <2> HIDE DEF previas
    <2>1. QED
      BY DEF Nueva
  <1>8. \A u \in Hebras : /\ r(u).abre = abre(u)
                          /\ u # t => r(u).pc = hebra[u].pc /\ r(u).n = hebra[u].n
    <2> HIDE DEF abre
    <2>1. QED
      OBVIOUS
  <1>9. r(t).pc = "connect" /\ r(t).n = hebra[t].n + 1
    OBVIOUS
  <1> HIDE DEF q, r
  <1>10. conexion'[x] = q /\ \A y \in Conexiones : y # x => conexion'[y] = conexion[y]
    BY <1>1, <1>2, <1>4
  <1>11. \A u \in Hebras : hebra'[u] = r(u)
    BY <1>1
  <1>12. /\ hebra'[t].pc = "connect" /\ hebra'[t].n = hebra[t].n + 1
         /\ \A u \in Hebras : u # t => hebra'[u].pc = hebra[u].pc /\ hebra'[u].n = hebra[u].n
    BY <1>8, <1>9, <1>11
  <1>13. \A u \in Hebras : hebra'[u].abre = abre(u)
    BY <1>8, <1>11
  <1>14. /\ UNCHANGED <<directorios, principal, thread, nuevo_cliente, hilo, caido, muertos>>
         /\ cola' = Append(cola, x)
    BY <1>1, <1>4 DEF servidor
  <1>15. /\ conexion'[x].op = p.op /\ conexion'[x].dir = p.dir /\ conexion'[x].nuevo = p.nuevo
         /\ conexion'[x].cliente = "abierta" /\ conexion'[x].servidor = "no" /\ conexion'[x].atendida = FALSE
         /\ conexion'[x].respuesta = "nada" /\ conexion'[x].previas = previas
    BY <1>7, <1>10
  <1>16. QED
    BY <1>1, <1>2, <1>4, <1>5, <1>6, <1>10, <1>12, <1>13, <1>14, <1>15 DEF Llama

\* No step but the start of a call changes which calls began, or what they ask.
LEMMA QueSigue ==
  ASSUME Inductivo, [Next]_vars,
         ~ \E t \in Hebras, p \in Operaciones : Llamar(t, p)
  PROVE  \A y \in Conexiones :
           /\ Empezada(y)' <=> Empezada(y)
           /\ conexion'[y].op = conexion[y].op /\ conexion'[y].dir = conexion[y].dir /\ conexion'[y].nuevo = conexion[y].nuevo
           /\ conexion'[y].previas \subseteq conexion[y].previas
           /\ conexion[y].atendida => conexion'[y].atendida
           /\ ~Empezada(y) => conexion'[y] = conexion[y] \/ conexion[y].cliente = "abierta"
  <1> DEFINE Meta ==
         /\ \A t \in Hebras : hebra'[t].n = hebra[t].n
         /\ \A y \in Conexiones :
              /\ conexion'[y].op = conexion[y].op /\ conexion'[y].dir = conexion[y].dir /\ conexion'[y].nuevo = conexion[y].nuevo
              /\ conexion'[y].previas \subseteq conexion[y].previas
              /\ conexion[y].atendida => conexion'[y].atendida
              /\ ~Empezada(y) => conexion'[y] = conexion[y] \/ conexion[y].cliente = "abierta"
  <1>1. SUFFICES Meta
    BY ConexionDe DEF Empezada
  <1>2. CASE TomarTurno \/ FallaAccept \/ UNCHANGED vars
    <2>1. conexion' = conexion /\ hebra' = hebra
      BY <1>2 DEF TomarTurno, FallaAccept, vars, clientes
    <2>2. QED
      BY <2>1
  <1>3. CASE Aceptar
    <2>1. PICK x \in Conexiones :
             /\ cola # <<>> /\ cola \in Seq(Conexiones) /\ x = Head(cola) /\ hebra' = hebra
             /\ \A y \in Conexiones : /\ Pedido(y) /\ Contestado(y)
                                      /\ y # x => conexion'[y] = conexion[y]
      BY <1>3, QueAceptar
    <2>2. Empezada(x)
      <3>1. 1 \in 1 .. Len(cola) /\ x = cola[1]
        BY <2>1
      <3>2. QED
        BY <3>1 DEF Inductivo, ColaOK
    <2>3. QED
      BY <2>1, <2>2 DEF Pedido, Contestado
  <1>4. ASSUME NEW h \in Hilos, PasoHilo(h)
        PROVE  Meta
    <2>1. CASE Copiar(h)
      BY <2>1, QueCopiar DEF Ajeno
    <2>2. CASE Abandonar(h)
      <3>1. Empezada(hilo[h].con)
        BY <2>2, QueAbandonar, SoloUno
      <3>2. QED
        BY <2>2, <3>1, QueAbandonar DEF Pedido, Contestado, Ajeno
    <2>3. CASE Atender(h)
      <3>1. PICK x \in Conexiones : Atiende(h, x)
        BY <2>3, QueAtender
      <3>2. hilo[h].pc = "recv" /\ Encargo(h) = x
        BY <3>1 DEF Atiende
      <3>3. Empezada(x)
        BY <3>2, SoloUno
      <3>4. QED
        BY <3>1, <3>3 DEF Atiende, Pedido, Ajeno
    <2>4. CASE Responder(h)
      <3>1. Empezada(hilo[h].con)
        BY <2>4, QueResponder, SoloUno
      <3>2. QED
        BY <2>4, <3>1, QueResponder DEF Pedido, Ajeno
    <2>5. CASE Cerrar(h)
      <3>1. Empezada(hilo[h].con)
        BY <2>5, QueCerrar, SoloUno
      <3>2. QED
        BY <2>5, <3>1, QueCerrar DEF Pedido, Ajeno
    <2>6. QED
      BY <1>4, <2>1, <2>2, <2>3, <2>4, <2>5 DEF PasoHilo
  <1>5. ASSUME NEW t \in Hebras, PasoHebra(t)
        PROVE  Meta
    <2>1. CASE Enviar(t)
      <3>1. Empezada(Actual(t))
        BY <2>1, QueEnviar, ActualEmpezada
      <3>2. QED
        BY <2>1, <3>1, QueEnviar DEF Pedido, Fijo, Contestado, SigueHebra
    <2>2. CASE TomarSockete(t)
      BY <2>2, QueTomarSockete DEF SigueHebra
    <2>3. CASE Recibir(t)
      <3>1. PICK x \in Conexiones :
             /\ Empezada(x) /\ hebra'[t].n = hebra[t].n
             /\ \A u \in Hebras : hebra'[u].n = hebra[u].n /\ (u # t => hebra'[u].pc = hebra[u].pc)
             /\ conexion'[x].previas = {}
             /\ \A y \in Conexiones : Fijo(y) /\ (y # x => conexion'[y] = conexion[y])
        BY <2>3, QueRecibir
      <3>2. QED
        BY <3>1 DEF Fijo, Contestado
    <2>4. QED
      BY <1>5, <2>1, <2>2, <2>3 DEF PasoHebra
  <1>6. ASSUME NEW c \in Clientes, Morir(c)
        PROVE  Meta
    BY <1>6, QueMorir DEF Fijo, Contestado
  <1>7. QED
    BY <1>2, <1>3, <1>4, <1>5, <1>6 DEF Next

(***************************************************************************)
(* The order of the calls.                                                 *)
(***************************************************************************)

\* The server still has to carry y out, or never will.
Pendiente(y) == Perdido \/ EnCola(y) \/ PorAtender(y)

\* It does so before it carries x out, if ever.
Precede(y, x) == \E i, j \in 1 .. Len(cola) : i < j /\ cola[i] = y /\ cola[j] = x
Antes(y, x) == Perdido \/ Precede(y, x) \/ (PorAtender(y) /\ EnCola(x))

\* A connection of the calls to come.
FuturoOK == \A x \in Conexiones : ~Empezada(x) => conexion[x] = Nueva

\* What is still to be attended has not been, and the other way round; and what a
\* call has to come after comes before it.
OrdenOK ==
  \A x \in Conexiones :
    /\ Empezada(x) /\ ~conexion[x].atendida => Pendiente(x)
    /\ conexion[x].servidor = "no" \/ PorAtender(x) => ~conexion[x].atendida
    /\ \A y \in conexion[x].previas :
         /\ y \in Conexiones /\ Empezada(y)
         /\ conexion[y].atendida \/ Antes(y, x)

\* The queue after its head is taken.
LEMMA SinPrimero ==
  ASSUME NEW S, NEW s \in Seq(S), s # <<>>
  PROVE  /\ Len(s) \in Nat /\ Len(s) > 0 /\ s[1] = Head(s)
         /\ Len(Tail(s)) = Len(s) - 1
         /\ \A n \in 1 .. Len(s) - 1 : Tail(s)[n] = s[n + 1]
  OBVIOUS

\* The queue after a connection is added.
LEMMA ConUltimo ==
  ASSUME NEW S, NEW s \in Seq(S), NEW x \in S
  PROVE  /\ Len(s) \in Nat /\ Len(Append(s, x)) = Len(s) + 1
         /\ Append(s, x)[Len(s) + 1] = x
         /\ \A i \in 1 .. Len(s) : Append(s, x)[i] = s[i]
  OBVIOUS

\* Nothing leaves the queue but by being accepted, nor a thread but by being attended,
\* or else the turnstile is lost.
LEMMA Avance ==
  ASSUME Inductivo, [Next]_vars,
         ~ \E t \in Hebras, p \in Operaciones : Llamar(t, p)
  PROVE  \A y \in Conexiones :
           /\ Pendiente(y) => Pendiente(y)' \/ conexion'[y].atendida
           /\ \A x \in Conexiones : Antes(y, x) => Antes(y, x)' \/ conexion'[y].atendida
  <1> DEFINE Meta ==
         \A y \in Conexiones :
           /\ Pendiente(y) => Pendiente(y)' \/ conexion'[y].atendida
           /\ \A x \in Conexiones : Antes(y, x) => Antes(y, x)' \/ conexion'[y].atendida
  <1>1. ASSUME Quieto PROVE Meta
    <2>1. /\ Perdido' <=> Perdido
          /\ \A y : PorAtender(y)' <=> PorAtender(y)
          /\ \A y : EnCola(y)' <=> EnCola(y)
          /\ \A y, x : Precede(y, x)' <=> Precede(y, x)
      BY <1>1 DEF Quieto, Perdido, PorAtender, Encargo, EnCola, Precede
    <2>2. QED
      BY <2>1 DEF Pendiente, Antes
  <1>2. CASE TomarTurno \/ FallaAccept
    <2>1. /\ ~Perdido /\ UNCHANGED <<cola, hilo, nuevo_cliente>>
      BY <1>2 DEF TomarTurno, FallaAccept, Perdido
    <2>2. /\ \A y : PorAtender(y)' <=> PorAtender(y)
          /\ \A y : EnCola(y)' <=> EnCola(y)
          /\ \A y, x : Precede(y, x)' <=> Precede(y, x)
      BY <2>1 DEF PorAtender, Encargo, EnCola, Precede
    <2>3. QED
      BY <2>1, <2>2 DEF Pendiente, Antes
  <1>3. CASE Aceptar
    <2>1. PICK z \in Conexiones :
             /\ cola # <<>> /\ cola \in Seq(Conexiones) /\ z = Head(cola) /\ cola' = Tail(cola)
             /\ nuevo_cliente' = z /\ thread' = TRUE /\ principal = "accept"
             /\ principal' = "lock" /\ \A h \in Hilos : hilo[h].pc = "libre"
             /\ \/ hilo' = hilo
                \/ \E h \in Hilos : /\ hilo'[h].pc = "nace"
                                    /\ \A g \in Hilos : g # h => hilo'[g] = hilo[g]
      BY <1>3, QueAceptar
    <2>2. ~Perdido /\ \A y : ~PorAtender(y)
      BY <2>1 DEF Perdido, PorAtender
    <2>3. /\ Len(cola) \in Nat /\ Len(cola) > 0 /\ cola[1] = z
          /\ Len(cola') = Len(cola) - 1
          /\ \A n \in 1 .. Len(cola) - 1 : cola'[n] = cola[n + 1]
      BY <2>1, SinPrimero
    <2>4. CASE hilo' = hilo
      <3>1. Perdido'
        BY <2>1, <2>4 DEF Perdido
      <3>2. QED
        BY <3>1 DEF Pendiente, Antes
    <2>5. CASE \E h \in Hilos : hilo'[h].pc = "nace"
      <3>1. PorAtender(z)'
        BY <2>1, <2>5 DEF PorAtender, Encargo
      <3>2. ASSUME NEW i \in 1 .. Len(cola), i # 1
            PROVE  i - 1 \in 1 .. Len(cola') /\ cola'[i - 1] = cola[i]
        BY <2>3, <3>2
      <3>3. \A y : EnCola(y) => y = z \/ EnCola(y)'
        BY <2>3, <3>2 DEF EnCola
      <3>4. ASSUME NEW y, NEW x, Precede(y, x)
            PROVE  Precede(y, x)' \/ (y = z /\ EnCola(x)')
        <4>1. PICK i, j \in 1 .. Len(cola) : i < j /\ cola[i] = y /\ cola[j] = x
          BY <3>4 DEF Precede
        <4>2. j # 1 /\ j - 1 \in 1 .. Len(cola') /\ cola'[j - 1] = x
          BY <2>3, <3>2, <4>1
        <4>3. CASE i = 1
          BY <2>3, <4>1, <4>2, <4>3 DEF EnCola
        <4>4. CASE i # 1
          <5>1. i - 1 \in 1 .. Len(cola') /\ cola'[i - 1] = y /\ i - 1 < j - 1
            BY <2>3, <3>2, <4>1, <4>4
          <5>2. QED
            BY <4>2, <5>1 DEF Precede
        <4>5. QED
          BY <4>3, <4>4
      <3>5. QED
        BY <2>2, <3>1, <3>3, <3>4 DEF Pendiente, Antes
    <2>6. QED
      BY <2>1, <2>4, <2>5
  <1>4. ASSUME NEW h \in Hilos, PasoHilo(h)
        PROVE  Meta
    <2>1. hilo[h].pc # "libre" /\ UNCHANGED <<cola, principal, nuevo_cliente>>
      BY <1>4, HiloAjeno DEF Ajeno
    <2>2. /\ ~Perdido
          /\ \A y : PorAtender(y) <=> y = Encargo(h) /\ hilo[h].pc \in {"nace", "recv"}
          /\ \A g \in Hilos : g # h => hilo[g].pc = "libre"
          /\ Encargo(h) \in Conexiones /\ thread = TRUE /\ principal = "lock"
      BY <2>1, SoloUno
    <2>3. /\ \A y : EnCola(y)' <=> EnCola(y)
          /\ \A y, x : Precede(y, x)' <=> Precede(y, x)
      BY <2>1 DEF EnCola, Precede
    <2>4. CASE hilo[h].pc \notin {"nace", "recv"}
      BY <2>2, <2>3, <2>4 DEF Pendiente, Antes
    <2>5. CASE Copiar(h)
      <3>1. PICK z : z = Encargo(h)
        OBVIOUS
      <3>2. nuevo_cliente = z
        BY <2>5, <3>1, QueCopiar
      <3>3. PorAtender(z)'
        BY <2>1, <2>5, <3>2, QueCopiar DEF PorAtender, Encargo
      <3>4. QED
        BY <2>2, <2>3, <3>1, <3>3 DEF Pendiente, Antes
    <2>6. CASE Abandonar(h)
      <3>1. Perdido'
        BY <2>1, <2>2, <2>6, QueAbandonar DEF Perdido
      <3>2. QED
        BY <3>1 DEF Pendiente, Antes
    <2>7. CASE Atender(h)
      <3>1. \E z \in Conexiones :
              /\ Encargo(h) = z
              /\ hilo' = hilo \/ conexion'[z].atendida = TRUE
        BY <2>7, QueAtender DEF Atiende
      <3>2. hilo' = hilo => \A y : PorAtender(y)' <=> PorAtender(y)
        BY <2>1 DEF PorAtender, Encargo
      <3>3. QED
        BY <2>2, <2>3, <3>1, <3>2 DEF Pendiente, Antes
    <2>8. QED
      BY <1>4, <2>4, <2>5, <2>6, <2>7, QueResponder, QueCerrar DEF PasoHilo
  <1>5. ASSUME NEW t \in Hebras, PasoHebra(t) PROVE Quieto
    BY <1>5, QueEnviar, QueTomarSockete, QueRecibir DEF PasoHebra
  <1>6. ASSUME NEW c \in Clientes, Morir(c) PROVE Quieto
    BY <1>6, QueMorir
  <1>7. ASSUME UNCHANGED vars PROVE Quieto
    BY <1>7 DEF vars, Quieto
  <1>8. QED
    BY <1>1, <1>2, <1>3, <1>4, <1>5, <1>6, <1>7 DEF Next

\* A call comes after all that the server has still to do.
LEMMA AvanceLlamar ==
  ASSUME Inductivo, NEW t \in Hebras, NEW p \in Operaciones,
         NEW x \in Conexiones, Llama(t, p, x)
  PROVE  /\ EnCola(x)' /\ ~PorAtender(x) /\ ~EnCola(x)
         /\ \A y \in Conexiones :
              /\ Empezada(y)' <=> Empezada(y) \/ y = x
              /\ Pendiente(y) => Pendiente(y)' /\ Antes(y, x)'
              /\ \A z \in Conexiones : Antes(y, z) => Antes(y, z)'
              /\ PorAtender(y)' <=> PorAtender(y)
  <1>1. /\ x = <<t, hebra[t].n + 1>>
        /\ x[1] = t /\ x[2] = hebra[t].n + 1 /\ ~Empezada(x) /\ hebra[t].n \in Nat
        /\ cola \in Seq(Conexiones) /\ cola' = Append(cola, x)
        /\ UNCHANGED <<principal, thread, nuevo_cliente, hilo>>
        /\ hebra'[t].n = hebra[t].n + 1
        /\ \A u \in Hebras : u # t => hebra'[u].n = hebra[u].n
    BY DEF Llama
  <1>2. /\ Len(cola) \in Nat /\ Len(cola') = Len(cola) + 1
        /\ cola'[Len(cola) + 1] = x
        /\ \A i \in 1 .. Len(cola) : cola'[i] = cola[i]
    BY <1>1, ConUltimo
  <1>3. ~EnCola(x)
    BY <1>1 DEF EnCola, Inductivo, ColaOK
  <1>4. ~PorAtender(x)
    BY <1>1, SoloUno DEF PorAtender
  <1>5. \A y \in Conexiones : Empezada(y)' <=> Empezada(y) \/ y = x
    <2> SUFFICES ASSUME NEW y \in Conexiones
                 PROVE  Empezada(y)' <=> Empezada(y) \/ y = x
      OBVIOUS
    <2>1. y[1] \in Hebras /\ y[2] \in Nat /\ y = <<y[1], y[2]>>
      BY ConexionDe
    <2>2. CASE y[1] # t
      BY <1>1, <2>1, <2>2 DEF Empezada
    <2>3. CASE y[1] = t
      <3>1. y = x <=> y[2] = hebra[t].n + 1
        BY <1>1, <2>1, <2>3
      <3>2. hebra'[y[1]].n = hebra[y[1]].n + 1 /\ hebra[y[1]].n = hebra[t].n /\ hebra[t].n \in Nat
        BY <1>1, <2>3
      <3>3. Empezada(y)' <=> y[2] <= hebra[t].n + 1
        BY <3>2 DEF Empezada
      <3>4. Empezada(y) <=> y[2] <= hebra[t].n
        BY <3>2 DEF Empezada
      <3>5. QED
        BY <2>1, <3>1, <3>2, <3>3, <3>4
    <2>4. QED
      BY <2>2, <2>3
  <1>6. \A y : PorAtender(y)' <=> PorAtender(y)
    BY <1>1 DEF PorAtender, Encargo
  <1>7. Perdido' <=> Perdido
    BY <1>1 DEF Perdido
  <1>8. /\ EnCola(x)' /\ \A y : EnCola(y) => EnCola(y)' /\ Precede(y, x)'
        /\ \A y, z : Precede(y, z) => Precede(y, z)'
    <2>1. Len(cola) + 1 \in 1 .. Len(cola') /\ \A i \in 1 .. Len(cola) : i < Len(cola) + 1
          /\ i \in 1 .. Len(cola')
      BY <1>2
    <2>2. EnCola(x)'
      BY <1>2, <2>1 DEF EnCola
    <2>3. \A y : EnCola(y) => EnCola(y)'
      BY <1>2, <2>1 DEF EnCola
    <2>4. \A y : EnCola(y) => Precede(y, x)'
      BY <1>2, <2>1 DEF EnCola, Precede
    <2>5. \A y, z : Precede(y, z) => Precede(y, z)'
      BY <1>2, <2>1 DEF Precede
    <2>6. QED
      BY <2>2, <2>3, <2>4, <2>5
  <1>9. QED
    BY <1>3, <1>4, <1>5, <1>6, <1>7, <1>8 DEF Pendiente, Antes

LEMMA FuturoPaso ==
  ASSUME Inductivo, FuturoOK, [Next]_vars
  PROVE  FuturoOK'
  <1>1. CASE ~ \E t \in Hebras, p \in Operaciones : Llamar(t, p)
    <2>1. Nueva.cliente # "abierta"
      BY DEF Nueva
    <2>2. QED
      BY <1>1, <2>1, QueSigue DEF FuturoOK
  <1>2. ASSUME NEW t \in Hebras, NEW p \in Operaciones, Llamar(t, p)
        PROVE  FuturoOK'
    <2>1. PICK x \in Conexiones : Llama(t, p, x)
      BY <1>2, QueLlamar
    <2>2. \A y \in Conexiones : Empezada(y)' <=> Empezada(y) \/ y = x
      BY <2>1, AvanceLlamar
    <2>3. \A y \in Conexiones : y # x => conexion'[y] = conexion[y]
      BY <2>1 DEF Llama
    <2>4. QED
      BY <2>2, <2>3 DEF FuturoOK
  <1>3. QED
    BY <1>1, <1>2

\* What waits for the server has not been attended.
LEMMA SinAtenderPaso ==
  ASSUME Inductivo, OrdenOK, [Next]_vars,
         ~ \E t \in Hebras, p \in Operaciones : Llamar(t, p),
         NEW x \in Conexiones, conexion'[x].servidor = "no" \/ PorAtender(x)'
  PROVE  ~conexion'[x].atendida
  <1>1. conexion[x].servidor = "no" \/ PorAtender(x) => ~conexion[x].atendida
    BY DEF OrdenOK
  <1>2. ASSUME Quieto, Fijo(x) PROVE ~conexion'[x].atendida
    <2>1. PorAtender(x)' <=> PorAtender(x)
      BY <1>2 DEF Quieto, PorAtender, Encargo
    <2>2. QED
      BY <1>1, <1>2, <2>1 DEF Fijo, Contestado
  <1>3. CASE TomarTurno \/ FallaAccept \/ UNCHANGED vars
    <2>1. UNCHANGED <<conexion, hilo, nuevo_cliente>>
      BY <1>3 DEF TomarTurno, FallaAccept, vars
    <2>2. PorAtender(x)' <=> PorAtender(x)
      BY <2>1 DEF PorAtender, Encargo
    <2>3. QED
      BY <1>1, <2>1, <2>2
  <1>4. CASE Aceptar
    <2>1. PICK z \in Conexiones :
             /\ cola # <<>> /\ cola \in Seq(Conexiones) /\ z = Head(cola)
             /\ nuevo_cliente' = z /\ \A h \in Hilos : hilo[h].pc = "libre"
             /\ \A y \in Conexiones : Contestado(y) /\ (y # z => conexion'[y] = conexion[y])
             /\ \/ hilo' = hilo
                \/ \E h \in Hilos : /\ hilo'[h].pc = "nace"
                                    /\ \A g \in Hilos : g # h => hilo'[g] = hilo[g]
      BY <1>4, QueAceptar
    <2>2. \A y : PorAtender(y)' => y = z
      BY <2>1 DEF PorAtender, Encargo
    <2>3. conexion[z].servidor = "no"
      <3>1. 1 \in 1 .. Len(cola) /\ cola[1] = z
        BY <2>1, SinPrimero
      <3>2. QED
        BY <3>1 DEF Inductivo, IInv, ConexionOK
    <2>4. conexion[x].servidor = "no"
      BY <2>1, <2>2, <2>3
    <2>5. QED
      BY <1>1, <2>1, <2>4 DEF Contestado
  <1>5. ASSUME NEW h \in Hilos, PasoHilo(h)
        PROVE  ~conexion'[x].atendida
    <2>1. hilo[h].pc # "libre" /\ UNCHANGED nuevo_cliente
      BY <1>5, HiloAjeno DEF Ajeno
    <2>2. /\ \A y : PorAtender(y) <=> y = Encargo(h) /\ hilo[h].pc \in {"nace", "recv"}
          /\ \A g \in Hilos : g # h => hilo[g].pc = "libre"
          /\ Encargo(h) \in Conexiones /\ conexion[Encargo(h)].servidor = "abierta"
      BY <2>1, SoloUno
    <2>3. CASE Copiar(h)
      <3>1. PorAtender(x)' => PorAtender(x)
        BY <2>1, <2>2, <2>3, QueCopiar DEF PorAtender, Encargo
      <3>2. QED
        BY <1>1, <2>3, <3>1, QueCopiar
    <2>4. CASE Abandonar(h) \/ Responder(h) \/ Cerrar(h)
      <3>1. /\ \A y : ~PorAtender(y)'
            /\ conexion'[x].servidor = "no" => conexion[x].servidor = "no"
            /\ conexion'[x].atendida = conexion[x].atendida
        BY <2>2, <2>4, QueAbandonar, QueResponder, QueCerrar DEF PorAtender, Contestado
      <3>2. QED
        BY <1>1, <3>1
    <2>5. CASE Atender(h)
      <3>1. PICK z \in Conexiones : Atiende(h, z)
        BY <2>5, QueAtender
      <3>2. /\ Encargo(h) = z
            /\ \A y \in Conexiones : /\ conexion'[y].servidor = conexion[y].servidor
                                     /\ y # z => conexion'[y] = conexion[y]
            /\ \A g \in Hilos : g # h => hilo'[g] = hilo[g]
            /\ \/ hilo' = hilo /\ conexion' = conexion
               \/ hilo'[h].pc = "send"
        BY <3>1 DEF Atiende
      <3>3. CASE hilo' = hilo /\ conexion' = conexion
        BY <1>1, <2>1, <3>3 DEF PorAtender, Encargo
      <3>4. CASE hilo'[h].pc = "send"
        BY <1>1, <2>2, <3>2, <3>4 DEF PorAtender
      <3>5. QED
        BY <3>2, <3>3, <3>4
    <2>6. QED
      BY <1>5, <2>3, <2>4, <2>5 DEF PasoHilo
  <1>6. ASSUME NEW t \in Hebras, PasoHebra(t) PROVE Quieto /\ Fijo(x)
    BY <1>6, QueEnviar, QueTomarSockete, QueRecibir DEF PasoHebra, Fijo, Contestado
  <1>7. ASSUME NEW c \in Clientes, Morir(c) PROVE Quieto /\ Fijo(x)
    BY <1>7, QueMorir
  <1>8. QED
    BY <1>2, <1>3, <1>4, <1>5, <1>6, <1>7 DEF Next

LEMMA OrdenPaso ==
  ASSUME Inductivo, OrdenOK, [Next]_vars
  PROVE  OrdenOK'
  <1>1. CASE ~ \E t \in Hebras, p \in Operaciones : Llamar(t, p)
    <2> SUFFICES ASSUME NEW x \in Conexiones
                 PROVE  /\ Empezada(x)' /\ ~conexion'[x].atendida => Pendiente(x)'
                        /\ conexion'[x].servidor = "no" \/ PorAtender(x)' => ~conexion'[x].atendida
                        /\ \A y \in conexion'[x].previas :
                             /\ y \in Conexiones /\ Empezada(y)'
                             /\ conexion'[y].atendida \/ Antes(y, x)'
      BY DEF OrdenOK
    <2>1. Empezada(x)' /\ ~conexion'[x].atendida => Pendiente(x)'
      BY <1>1, Avance, QueSigue DEF OrdenOK
    <2>2. conexion'[x].servidor = "no" \/ PorAtender(x)' => ~conexion'[x].atendida
      BY <1>1, SinAtenderPaso
    <2>3. ASSUME NEW y \in conexion'[x].previas
          PROVE  y \in Conexiones /\ Empezada(y)' /\ (conexion'[y].atendida \/ Antes(y, x)')
      <3>1. y \in conexion[x].previas
        BY <1>1, QueSigue
      <3>2. y \in Conexiones /\ Empezada(y) /\ (conexion[y].atendida \/ Antes(y, x))
        BY <3>1 DEF OrdenOK
      <3>3. QED
        BY <1>1, <3>2, Avance, QueSigue
    <2>4. QED
      BY <2>1, <2>2, <2>3
  <1>2. ASSUME NEW t \in Hebras, NEW p \in Operaciones, Llamar(t, p)
        PROVE  OrdenOK'
    <2>1. PICK w \in Conexiones : Llama(t, p, w)
      BY <1>2, QueLlamar
    <2>2. /\ EnCola(w)' /\ ~PorAtender(w)
          /\ \A y \in Conexiones :
              /\ Empezada(y)' <=> Empezada(y) \/ y = w
              /\ Pendiente(y) => Pendiente(y)' /\ Antes(y, w)'
              /\ \A z \in Conexiones : Antes(y, z) => Antes(y, z)'
              /\ PorAtender(y)' <=> PorAtender(y)
      BY <2>1, AvanceLlamar
    <2>3. /\ \A y \in Conexiones : y # w => conexion'[y] = conexion[y]
          /\ conexion'[w].atendida = FALSE /\ ~Empezada(w)
          /\ conexion'[w].previas = {y \in Conexiones : Debida(y)}
      BY <2>1 DEF Llama
    <2> SUFFICES ASSUME NEW x \in Conexiones
                 PROVE  /\ Empezada(x)' /\ ~conexion'[x].atendida => Pendiente(x)'
                        /\ conexion'[x].servidor = "no" \/ PorAtender(x)' => ~conexion'[x].atendida
                        /\ \A y \in conexion'[x].previas :
                             /\ y \in Conexiones /\ Empezada(y)'
                             /\ conexion'[y].atendida \/ Antes(y, x)'
      BY DEF OrdenOK
    <2>4. CASE x = w
      <3>1. Pendiente(x)'
        BY <2>2, <2>4 DEF Pendiente
      <3>2. ASSUME NEW y \in conexion'[x].previas
            PROVE  y \in Conexiones /\ Empezada(y)' /\ (conexion'[y].atendida \/ Antes(y, x)')
        <4>1. y \in Conexiones /\ Debida(y)
          BY <2>3, <2>4
        <4>2. Empezada(y) /\ ~conexion[y].atendida
          BY <4>1 DEF Debida, Volvio, Empezada
        <4>3. Pendiente(y)
          BY <4>1, <4>2 DEF OrdenOK
        <4>4. QED
          BY <2>2, <2>4, <4>1, <4>2, <4>3
      <3>3. QED
        BY <2>3, <2>4, <3>1, <3>2
    <2>5. CASE x # w
      <3>1. conexion'[x] = conexion[x] /\ (Empezada(x)' <=> Empezada(x))
        BY <2>2, <2>3, <2>5
      <3>2. ASSUME NEW y \in conexion'[x].previas
            PROVE  y \in Conexiones /\ Empezada(y)' /\ (conexion'[y].atendida \/ Antes(y, x)')
        <4>1. y \in Conexiones /\ Empezada(y) /\ (conexion[y].atendida \/ Antes(y, x))
          BY <3>1 DEF OrdenOK
        <4>2. y # w
          BY <2>3, <4>1
        <4>3. QED
          BY <2>2, <2>3, <4>1, <4>2
      <3>3. QED
        BY <2>2, <3>1, <3>2 DEF OrdenOK
    <2>6. QED
      BY <2>4, <2>5
  <1>3. QED
    BY <1>1, <1>2

LEMMA OrdenInicial == Init => FuturoOK /\ OrdenOK
  <1> SUFFICES ASSUME Init PROVE FuturoOK /\ OrdenOK
    OBVIOUS
  <1>1. hilo = [h \in Hilos |-> Ocioso] /\ conexion = [x \in Conexiones |-> Nueva]
    BY Zenon DEF Init
  <1>2. FuturoOK
    BY <1>1 DEF FuturoOK
  <1>3. PICK abre : hebra = [t \in Hebras |-> [pc |-> "libre", n |-> 0, abre |-> abre]]
    BY Zenon DEF Init
  <1>4. \A x \in Conexiones : ~Empezada(x)
    BY <1>3, ConexionDe, Constantes DEF Empezada, Conexiones
  <1>5. OrdenOK
    BY <1>1, <1>4 DEF OrdenOK, Nueva
  <1>6. QED
    BY <1>2, <1>5

\* The order of the requests: what each connection is waiting for.
LEMMA OrdenSiempre == Spec => [](Inductivo /\ FuturoOK /\ OrdenOK)
  <1>1. Inductivo /\ FuturoOK /\ [Next]_vars => FuturoOK'
    BY FuturoPaso
  <1>2. Inductivo /\ OrdenOK /\ [Next]_vars => OrdenOK'
    BY OrdenPaso
  <1>3. QED
    BY <1>1, <1>2, OrdenInicial, InvarianteInductivo, PTL DEF Spec

\* Only a thread of the server attends.
LEMMA QuienAtiende ==
  ASSUME Inductivo, [Next]_vars,
         ~ \E t \in Hebras, p \in Operaciones : Llamar(t, p),
         NEW x \in Conexiones, ~conexion[x].atendida, conexion'[x].atendida
  PROVE  \E h \in Hilos : Atiende(h, x)
  <1>1. CASE TomarTurno \/ FallaAccept \/ UNCHANGED vars
    BY <1>1 DEF TomarTurno, FallaAccept, vars
  <1>2. CASE Aceptar
    BY <1>2, QueAceptar DEF Contestado
  <1>3. ASSUME NEW h \in Hilos, PasoHilo(h)
        PROVE  Atiende(h, x)
    <2>1. ~Copiar(h) /\ ~Abandonar(h) /\ ~Responder(h) /\ ~Cerrar(h)
      BY QueCopiar, QueAbandonar, QueResponder, QueCerrar DEF Contestado
    <2>2. PICK z \in Conexiones : Atiende(h, z)
      BY <1>3, <2>1, QueAtender DEF PasoHilo
    <2>3. x = z
      BY <2>2 DEF Atiende
    <2>4. QED
      BY <2>2, <2>3
  <1>4. ASSUME NEW t \in Hebras, PasoHebra(t) PROVE FALSE
    BY <1>4, QueEnviar, QueTomarSockete, QueRecibir DEF PasoHebra, Fijo, Contestado
  <1>5. ASSUME NEW c \in Clientes, Morir(c) PROVE FALSE
    BY <1>5, QueMorir DEF Fijo, Contestado
  <1>6. QED
    BY <1>1, <1>2, <1>3, <1>4, <1>5 DEF Next

\* A call that returned before another began is carried out before it, although
\* sac_rmdir does not wait for the server.
THEOREM LlamadasEnOrden == Spec => []OrdenDeLlamadas
  <1>1. Init => OrdenDeLlamadas
    BY DEF Init, OrdenDeLlamadas, Nueva
  <1>2. Inductivo /\ OrdenOK /\ OrdenDeLlamadas /\ [Next]_vars => OrdenDeLlamadas'
    <2> SUFFICES ASSUME Inductivo, OrdenOK, OrdenDeLlamadas, [Next]_vars,
                        NEW x \in Conexiones, conexion'[x].atendida,
                        NEW y \in conexion'[x].previas
                 PROVE  conexion'[y].atendida
      BY DEF OrdenDeLlamadas
    <2>1. CASE ~ \E t \in Hebras, p \in Operaciones : Llamar(t, p)
      <3>1. y \in conexion[x].previas
        BY <2>1, QueSigue
      <3>2. y \in Conexiones /\ (conexion[y].atendida \/ Antes(y, x))
        BY <3>1 DEF OrdenOK
      <3>3. CASE conexion[x].atendida \/ conexion[y].atendida
        BY <2>1, <3>1, <3>2, <3>3, QueSigue DEF OrdenDeLlamadas
      <3>4. CASE ~conexion[x].atendida /\ ~conexion[y].atendida
        <4>1. PICK h \in Hilos : Atiende(h, x)
          BY <2>1, <3>4, QuienAtiende
        <4>2. hilo[h].pc # "libre" /\ Encargo(h) = x
          BY <4>1 DEF Atiende
        <4>3. ~Perdido /\ ~EnCola(x)
          BY <4>2, SoloUno
        <4>4. ~Antes(y, x)
          BY <4>3 DEF Antes, Precede, EnCola
        <4>5. QED
          BY <3>2, <3>4, <4>4
      <3>5. QED
        BY <3>3, <3>4
    <2>2. ASSUME NEW t \in Hebras, NEW p \in Operaciones, Llamar(t, p)
          PROVE  conexion'[y].atendida
      <3>1. PICK w \in Conexiones : Llama(t, p, w)
        BY <2>2, QueLlamar
      <3>2. /\ x # w /\ conexion'[x] = conexion[x] /\ ~Empezada(w)
            /\ \A z \in Conexiones : z # w => conexion'[z] = conexion[z]
        BY <3>1 DEF Llama
      <3>3. y \in Conexiones /\ Empezada(y) /\ conexion[y].atendida
        BY <3>2 DEF OrdenOK, OrdenDeLlamadas
      <3>4. QED
        BY <3>2, <3>3
    <2>3. QED
      BY <2>1, <2>2
  <1>3. QED
    BY <1>1, <1>2, OrdenSiempre, PTL DEF Spec

(***************************************************************************)
(* The replies.                                                            *)
(***************************************************************************)

\* The calls that are under way and those that returned.
LEMMA CursoIgual ==
  ASSUME NEW y \in Conexiones,
         hebra'[y[1]].n = hebra[y[1]].n,
         hebra'[y[1]].pc = "libre" <=> hebra[y[1]].pc = "libre"
  PROVE  (EnCurso(y)' <=> EnCurso(y)) /\ (Volvio(y)' <=> Volvio(y))
  BY DEF EnCurso, Volvio

LEMMA CursoRecibir ==
  ASSUME Inductivo, NEW t \in Hebras, hebra[t].pc # "libre", hebra'[t].pc = "libre",
         \A u \in Hebras : hebra'[u].n = hebra[u].n /\ (u # t => hebra'[u].pc = hebra[u].pc),
         NEW y \in Conexiones
  PROVE  /\ EnCurso(y)' <=> EnCurso(y) /\ y # Actual(t)
         /\ Volvio(y)' <=> Volvio(y) \/ y = Actual(t)
  <1>1. y[1] \in Hebras /\ y[2] \in Nat /\ y = <<y[1], y[2]>> /\ hebra[t].n \in Nat
    BY ConexionDe, ActualEmpezada
  <1>2. y = Actual(t) <=> y[1] = t /\ y[2] = hebra[t].n
    BY <1>1 DEF Actual
  <1>3. QED
    BY <1>1, <1>2 DEF EnCurso, Volvio

LEMMA CursoLlamar ==
  ASSUME Inductivo, NEW t \in Hebras, NEW p \in Operaciones,
         NEW x \in Conexiones, Llama(t, p, x), NEW y \in Conexiones
  PROVE  /\ EnCurso(y)' <=> EnCurso(y) \/ y = x
         /\ Volvio(y)' <=> Volvio(y)
         /\ ~EnCurso(x) /\ ~Volvio(x)
  <1>1. y[1] \in Hebras /\ y[2] \in Nat /\ y = <<y[1], y[2]>> /\ hebra[t].n \in Nat
    BY ConexionDe, ActualEmpezada
  <1>2. /\ x = <<t, hebra[t].n + 1>> /\ x[1] = t /\ x[2] = hebra[t].n + 1
        /\ hebra[t].pc = "libre" /\ ~Empezada(x)
        /\ hebra'[t].pc = "connect" /\ hebra'[t].n = hebra[t].n + 1
        /\ \A u \in Hebras : u # t => hebra'[u].pc = hebra[u].pc /\ hebra'[u].n = hebra[u].n
    BY DEF Llama
  <1>3. y = x <=> y[1] = t /\ y[2] = hebra[t].n + 1
    BY <1>1, <1>2
  <1>4. CASE y[1] = t
    BY <1>1, <1>2, <1>3, <1>4 DEF EnCurso, Volvio, Empezada
  <1>5. CASE y[1] # t
    BY <1>1, <1>2, <1>3, <1>5 DEF EnCurso, Volvio, Empezada
  <1>6. QED
    BY <1>4, <1>5

\* What the server answers, and to whom.
Contesta(h) == hilo[h].pc \in {"send", "mensajito"}

ContestaOK(h) ==
  Contesta(h) =>
    /\ conexion[hilo[h].con].atendida
    /\ hilo[h].resp \in {"si", "no", "vacia", "lista"}
    /\ hilo[h].resto => conexion[hilo[h].con].op = "write"
    /\ hilo[h].resp = "vacia" => conexion[hilo[h].con].op = "readdir"
    /\ hilo[h].pc = "send" => conexion[hilo[h].con].respuesta = "nada"

ReplicaOK(x) ==
  /\ conexion[x].respuesta # "nada" => conexion[x].atendida
  /\ conexion[x].respuesta = "perdida" => conexion[x].op = "write"
  /\ conexion[x].respuesta = "vacia" => conexion[x].op = "readdir"

RespuestaOK ==
  /\ \A h \in Hilos : ContestaOK(h)
  /\ \A x \in Conexiones : ReplicaOK(x)

\* A step of a client answers nothing.
LEMMA RespuestaQuieta ==
  ASSUME Inductivo, RespuestaOK, hilo' = hilo,
         \A y \in Conexiones : Contestado(y) /\ conexion'[y].op = conexion[y].op
  PROVE  RespuestaOK'
  <1>1. ASSUME NEW h \in Hilos PROVE ContestaOK(h)'
    <2>1. CASE Contesta(h)
      <3>1. hilo[h].con \in Conexiones
        BY <2>1 DEF Contesta, Inductivo, IInv, ConexionOK
      <3>2. QED
        BY <3>1 DEF RespuestaOK, ContestaOK, Contesta, Contestado
    <2>2. CASE ~Contesta(h)
      BY <2>2 DEF ContestaOK, Contesta
    <2>3. QED
      BY <2>1, <2>2
  <1>2. ASSUME NEW x \in Conexiones PROVE ReplicaOK(x)'
    BY DEF RespuestaOK, ReplicaOK, Contestado
  <1>3. QED
    BY <1>1, <1>2 DEF RespuestaOK

LEMMA RespuestaHilo ==
  ASSUME Inductivo, OrdenOK, RespuestaOK, NEW h \in Hilos, PasoHilo(h)
  PROVE  RespuestaOK'
  <1>1. hilo[h].pc # "libre"
    BY HiloAjeno
  <1>2. /\ Encargo(h) \in Conexiones
        /\ \A g \in Hilos : g # h => hilo[g].pc = "libre"
    BY <1>1, SoloUno
  <1>3. ASSUME \A g \in Hilos : g # h => hilo'[g] = hilo[g]
        PROVE  \A g \in Hilos : g # h => ContestaOK(g)'
    BY <1>2, <1>3 DEF ContestaOK, Contesta
  <1>4. CASE Copiar(h) \/ Abandonar(h)
    <2>1. /\ ~Contesta(h)' /\ \A g \in Hilos : g # h => hilo'[g] = hilo[g]
          /\ \A y \in Conexiones : Contestado(y) /\ conexion'[y].op = conexion[y].op
      BY <1>4, QueCopiar, QueAbandonar DEF Contesta, Pedido, Contestado
    <2>2. QED
      BY <1>3, <2>1 DEF RespuestaOK, ContestaOK, ReplicaOK, Contestado
  <1>5. CASE Atender(h)
    <2>1. PICK x \in Conexiones : Atiende(h, x)
      BY <1>5, QueAtender
    <2>2. /\ \A g \in Hilos : g # h => hilo'[g] = hilo[g]
          /\ \A y \in Conexiones : /\ conexion'[y].op = conexion[y].op
                                   /\ conexion'[y].respuesta = conexion[y].respuesta
                                   /\ y # x => conexion'[y] = conexion[y]
          /\ hilo[h].pc = "recv" /\ Encargo(h) = x
      BY <2>1 DEF Atiende, Pedido
    <2>3. CASE UNCHANGED <<hilo, conexion>>
      BY <2>3, RespuestaQuieta DEF Contestado
    <2>4. CASE ~UNCHANGED <<hilo, conexion>>
      <3>1. /\ conexion'[x].atendida = TRUE /\ hilo'[h].pc = "send" /\ hilo'[h].con = x
            /\ hilo'[h].resto => conexion[x].op = "write"
            /\ \E ef \in Efectos(directorios, conexion[x]) :
                 hilo'[h].resp = ef[2]
        BY <2>1, <2>4 DEF Atiende
      <3>3. /\ hilo'[h].resp \in {"si", "no", "vacia", "lista"}
            /\ hilo'[h].resp = "vacia" => conexion[x].op = "readdir"
        <4>1. directorios \in [Dirs -> Estados]
          BY Tipos DEF Inductivo, IInv
        <4>2. QED
          BY <3>1, <4>1, EfectosDe
      <3>4. conexion[x].respuesta = "nada"
        <4>1. PorAtender(x)
          BY <2>2 DEF PorAtender
        <4>2. QED
          BY <4>1 DEF OrdenOK, RespuestaOK, ReplicaOK
      <3>5. ContestaOK(h)'
        BY <2>2, <3>1, <3>3, <3>4 DEF ContestaOK, Contesta
      <3>6. \A y \in Conexiones : ReplicaOK(y)'
        BY <2>2, <3>1 DEF RespuestaOK, ReplicaOK
      <3>7. QED
        BY <1>3, <2>2, <3>5, <3>6 DEF RespuestaOK
    <2>5. QED
      BY <2>3, <2>4
  <1>6. CASE Responder(h)
    <2>1. /\ hilo[h].pc = "send" /\ hilo[h].con \in Conexiones
          /\ hilo'[h].pc = "mensajito" /\ hilo'[h].con = hilo[h].con
          /\ hilo'[h].resp = hilo[h].resp /\ hilo'[h].resto = hilo[h].resto
          /\ \A g \in Hilos : g # h => hilo'[g] = hilo[g]
          /\ conexion'[hilo[h].con].respuesta = hilo[h].resp
          /\ \A y \in Conexiones : /\ conexion'[y].op = conexion[y].op
                                   /\ conexion'[y].atendida = conexion[y].atendida
                                   /\ y # hilo[h].con => conexion'[y] = conexion[y]
      BY <1>6, QueResponder DEF Pedido
    <2>2. ContestaOK(h) /\ Contesta(h)
      BY <2>1 DEF RespuestaOK, Contesta
    <2>3. ContestaOK(h)'
      BY <2>1, <2>2 DEF ContestaOK, Contesta
    <2>4. \A y \in Conexiones : ReplicaOK(y)'
      BY <2>1, <2>2 DEF ContestaOK, RespuestaOK, ReplicaOK
    <2>5. QED
      BY <1>3, <2>1, <2>3, <2>4 DEF RespuestaOK
  <1>7. CASE Cerrar(h)
    <2>1. /\ hilo[h].pc = "mensajito" /\ hilo[h].con \in Conexiones /\ hilo'[h].pc = "libre"
          /\ \A g \in Hilos : g # h => hilo'[g] = hilo[g]
          /\ \/ conexion'[hilo[h].con].respuesta = conexion[hilo[h].con].respuesta
             \/ hilo[h].resto /\ conexion'[hilo[h].con].respuesta = "perdida"
          /\ \A y \in Conexiones : /\ conexion'[y].op = conexion[y].op
                                   /\ conexion'[y].atendida = conexion[y].atendida
                                   /\ y # hilo[h].con => conexion'[y] = conexion[y]
      BY <1>7, QueCerrar DEF Pedido
    <2>2. ContestaOK(h) /\ Contesta(h)
      BY <2>1 DEF RespuestaOK, Contesta
    <2>3. ContestaOK(h)'
      BY <2>1 DEF ContestaOK, Contesta
    <2>4. \A y \in Conexiones : ReplicaOK(y)'
      BY <2>1, <2>2 DEF ContestaOK, RespuestaOK, ReplicaOK
    <2>5. QED
      BY <1>3, <2>1, <2>3, <2>4 DEF RespuestaOK
  <1>8. QED
    BY <1>4, <1>5, <1>6, <1>7 DEF PasoHilo

LEMMA RespuestaPaso ==
  ASSUME Inductivo, OrdenOK, RespuestaOK, [Next]_vars
  PROVE  RespuestaOK'
  <1>1. CASE TomarTurno \/ FallaAccept \/ UNCHANGED vars
    <2>1. UNCHANGED <<hilo, conexion>>
      BY <1>1 DEF TomarTurno, FallaAccept, vars
    <2>2. QED
      BY <2>1, RespuestaQuieta DEF Contestado
  <1>2. CASE Aceptar
    <2>1. /\ \A h \in Hilos : hilo[h].pc = "libre"
          /\ \A y \in Conexiones : Contestado(y) /\ conexion'[y].op = conexion[y].op
          /\ \/ hilo' = hilo
             \/ \E h \in Hilos : /\ hilo'[h].pc = "nace"
                                 /\ \A g \in Hilos : g # h => hilo'[g] = hilo[g]
      BY <1>2, QueAceptar DEF Pedido
    <2>2. \A h \in Hilos : ~Contesta(h)'
      BY <2>1 DEF Contesta
    <2>3. QED
      BY <2>1, <2>2 DEF RespuestaOK, ContestaOK, ReplicaOK, Contestado
  <1>3. ASSUME NEW h \in Hilos, PasoHilo(h) PROVE RespuestaOK'
    BY <1>3, RespuestaHilo
  <1>4. ASSUME NEW t \in Hebras, PasoHebra(t) PROVE RespuestaOK'
    <2>1. hilo' = hilo /\ \A y \in Conexiones : Contestado(y) /\ conexion'[y].op = conexion[y].op
      BY <1>4, QueEnviar, QueTomarSockete, QueRecibir
      DEF PasoHebra, Quieto, Fijo, Contestado
    <2>2. QED
      BY <2>1, RespuestaQuieta
  <1>5. ASSUME NEW c \in Clientes, Morir(c) PROVE RespuestaOK'
    <2>1. hilo' = hilo /\ \A y \in Conexiones : Contestado(y) /\ conexion'[y].op = conexion[y].op
      BY <1>5, QueMorir DEF Quieto, Fijo
    <2>2. QED
      BY <2>1, RespuestaQuieta
  <1>6. ASSUME NEW t \in Hebras, NEW p \in Operaciones, Llamar(t, p)
        PROVE  RespuestaOK'
    <2>1. PICK x \in Conexiones : Llama(t, p, x)
      BY <1>6, QueLlamar
    <2>2. /\ ~Empezada(x) /\ hilo' = hilo /\ conexion'[x].respuesta = "nada"
          /\ \A y \in Conexiones : y # x => conexion'[y] = conexion[y]
      BY <2>1 DEF Llama
    <2>3. ASSUME NEW h \in Hilos PROVE ContestaOK(h)'
      <3>1. CASE ~Contesta(h)
        BY <2>2, <3>1 DEF ContestaOK, Contesta
      <3>2. CASE Contesta(h)
        <4>1. hilo[h].con = Encargo(h) /\ hilo[h].pc # "libre"
          BY <3>2 DEF Contesta, Encargo
        <4>2. hilo[h].con \in Conexiones /\ Empezada(hilo[h].con)
          BY <4>1, SoloUno
        <4>3. conexion'[hilo[h].con] = conexion[hilo[h].con]
          BY <2>2, <4>2
        <4>4. QED
          BY <2>2, <4>3 DEF RespuestaOK, ContestaOK, Contesta
      <3>3. QED
        BY <3>1, <3>2
    <2>4. QED
      BY <2>2, <2>3 DEF RespuestaOK, ReplicaOK
  <1>7. QED
    BY <1>1, <1>2, <1>3, <1>4, <1>5, <1>6 DEF Next

LEMMA LlegaPaso ==
  ASSUME Inductivo, RespuestaOK, RespuestaLlega, [Next]_vars
  PROVE  RespuestaLlega'
  <1> DEFINE Bien(x) == conexion[x].atendida /\ conexion[x].respuesta \notin {"nada", "perdida"}
             Caso(x) == Volvio(x) /\ De(x) \notin muertos /\ conexion[x].op \notin {"rmdir", "write"}
  <1>1. ~caido => \A x \in Conexiones : Caso(x) => Bien(x)
    BY DEF RespuestaLlega
  <1> SUFFICES ASSUME ~caido', NEW x \in Conexiones, Caso(x)' PROVE Bien(x)'
    BY DEF RespuestaLlega
  <1>2. CASE TomarTurno \/ FallaAccept \/ UNCHANGED vars
    <2>1. UNCHANGED <<caido, conexion, hebra, muertos>>
      BY <1>2 DEF TomarTurno, FallaAccept, vars, clientes
    <2>2. QED
      BY <1>1, <2>1 DEF Volvio, EnCurso
  <1>3. CASE Aceptar
    <2>1. UNCHANGED <<caido, hebra, muertos>> /\ Contestado(x) /\ Pedido(x)
      BY <1>3, QueAceptar
    <2>2. QED
      BY <1>1, <2>1 DEF Volvio, EnCurso, Contestado, Pedido
  <1>4. ASSUME NEW h \in Hilos, PasoHilo(h) PROVE Bien(x)'
    <2>1. UNCHANGED <<hebra, muertos>> /\ ~caido /\ conexion'[x].op = conexion[x].op
      <3>1. UNCHANGED <<hebra, muertos>>
        BY <1>4, HiloAjeno DEF Ajeno
      <3>2. ~caido
        BY <1>4 DEF PasoHilo, Copiar, Abandonar, Atender, Responder, Cerrar, En
      <3>3. conexion'[x].op = conexion[x].op
        BY <1>4, QueCopiar, QueAbandonar, QueAtender, QueResponder, QueCerrar
        DEF PasoHilo, Atiende, Pedido
      <3>4. QED
        BY <3>1, <3>2, <3>3
    <2>2. Bien(x)
      BY <1>1, <2>1 DEF Volvio, EnCurso
    <2>3. CASE Copiar(h) \/ Abandonar(h)
      BY <2>2, <2>3, QueCopiar, QueAbandonar DEF Contestado
    <2>4. CASE Atender(h)
      <3>1. PICK z \in Conexiones : Atiende(h, z)
        BY <2>4, QueAtender
      <3>2. /\ conexion'[x].respuesta = conexion[x].respuesta
            /\ conexion' = conexion \/ conexion'[z].atendida = TRUE
            /\ x # z => conexion'[x] = conexion[x]
        BY <3>1 DEF Atiende
      <3>3. QED
        BY <2>2, <3>2
    <2>5. CASE Responder(h)
      <3>1. /\ hilo[h].pc = "send" /\ conexion'[hilo[h].con].respuesta = hilo[h].resp
            /\ conexion'[x].atendida = conexion[x].atendida
            /\ x # hilo[h].con => conexion'[x] = conexion[x]
        BY <2>5, QueResponder
      <3>2. hilo[h].resp \in {"si", "no", "vacia", "lista"}
        BY <3>1 DEF RespuestaOK, ContestaOK, Contesta
      <3>3. QED
        BY <2>2, <3>1, <3>2
    <2>6. CASE Cerrar(h)
      <3>1. /\ hilo[h].pc = "mensajito"
            /\ \/ conexion'[hilo[h].con].respuesta = conexion[hilo[h].con].respuesta
               \/ hilo[h].resto
            /\ conexion'[x].atendida = conexion[x].atendida
            /\ x # hilo[h].con => conexion'[x] = conexion[x]
        BY <2>6, QueCerrar
      <3>2. hilo[h].resto => conexion[hilo[h].con].op = "write"
        BY <3>1 DEF RespuestaOK, ContestaOK, Contesta
      <3>3. QED
        BY <2>1, <2>2, <3>1, <3>2
    <2>7. QED
      BY <1>4, <2>3, <2>4, <2>5, <2>6 DEF PasoHilo
  <1>5. ASSUME NEW t \in Hebras, PasoHebra(t) PROVE Bien(x)'
    <2>1. CASE Enviar(t)
      <3>1. (Volvio(x)' <=> Volvio(x)) /\ UNCHANGED <<caido, muertos>> /\ Fijo(x)
        <4>1. /\ hebra[t].pc = "connect" /\ hebra'[t].pc = "send" /\ SigueHebra(t)
              /\ UNCHANGED <<caido, muertos>> /\ Fijo(x)
          BY <2>1, QueEnviar DEF Quieto
        <4>2. QED
          BY <4>1, CursoIgual, ConexionDe DEF SigueHebra
      <3>2. QED
        BY <1>1, <3>1 DEF Fijo, Contestado
    <2>2. CASE TomarSockete(t)
      <3>1. (Volvio(x)' <=> Volvio(x)) /\ UNCHANGED <<caido, muertos, conexion>>
        <4>1. /\ hebra[t].pc = "send" /\ hebra'[t].pc = "recv" /\ SigueHebra(t)
              /\ UNCHANGED <<caido, muertos, conexion>>
          BY <2>2, QueTomarSockete DEF Quieto
        <4>2. QED
          BY <4>1, CursoIgual, ConexionDe DEF SigueHebra
      <3>2. QED
        BY <1>1, <3>1
    <2>3. CASE Recibir(t)
      <3>1. PICK z \in Conexiones :
             /\ z = Actual(t) /\ YaRecibe(z) /\ UNCHANGED <<caido, muertos>>
             /\ hebra[t].pc = "recv" /\ hebra'[t].pc = "libre" /\ hebra'[t].n = hebra[t].n
             /\ \A u \in Hebras : hebra'[u].n = hebra[u].n /\ (u # t => hebra'[u].pc = hebra[u].pc)
             /\ \A y \in Conexiones : Fijo(y)
        BY <2>3, QueRecibir DEF Quieto
      <3>2. Volvio(x)' <=> Volvio(x) \/ x = z
        BY <3>1, CursoRecibir
      <3>3. CASE Volvio(x)
        BY <1>1, <3>1, <3>3 DEF Fijo, Contestado
      <3>4. CASE x = z
        <4>1. conexion[x].op \notin {"rmdir", "write"}
          BY <3>1 DEF Fijo
        <4>2. conexion[x].respuesta # "nada"
          BY <3>1, <3>4, <4>1 DEF YaRecibe
        <4>3. QED
          BY <3>1, <4>1, <4>2 DEF RespuestaOK, ReplicaOK, Fijo, Contestado
      <3>5. QED
        BY <3>2, <3>3, <3>4
    <2>4. QED
      BY <1>5, <2>1, <2>2, <2>3 DEF PasoHebra
  <1>6. ASSUME NEW c \in Clientes, Morir(c) PROVE Bien(x)'
    <2>1. /\ caido' = caido /\ muertos' = muertos \cup {c} /\ Fijo(x)
          /\ \A t \in Hebras : ClienteDe[t] # c => hebra'[t] = hebra[t]
      BY <1>6, QueMorir DEF Quieto
    <2>2. x[1] \in Hebras /\ ClienteDe[x[1]] # c
      BY <2>1, ConexionDe DEF De
    <2>3. Volvio(x)' <=> Volvio(x)
      BY <2>1, <2>2, CursoIgual
    <2>4. QED
      BY <1>1, <2>1, <2>3 DEF Fijo, Contestado
  <1>7. ASSUME NEW t \in Hebras, NEW p \in Operaciones, Llamar(t, p)
        PROVE  Bien(x)'
    <2>1. PICK z \in Conexiones : Llama(t, p, z)
      BY <1>7, QueLlamar
    <2>2. Volvio(x)' <=> Volvio(x) /\ ~Volvio(z)
      BY <2>1, CursoLlamar
    <2>3. /\ UNCHANGED <<caido, muertos>>
          /\ \A y \in Conexiones : y # z => conexion'[y] = conexion[y]
      BY <2>1 DEF Llama
    <2>4. ~Volvio(z)
      BY <2>1, CursoLlamar
    <2>5. QED
      BY <1>1, <2>1, <2>3, <2>4, CursoLlamar
  <1>8. QED
    BY <1>2, <1>3, <1>4, <1>5, <1>6, <1>7 DEF Next

LEMMA RespuestaInicial == Init => RespuestaOK /\ RespuestaLlega
  <1> SUFFICES ASSUME Init PROVE RespuestaOK /\ RespuestaLlega
    OBVIOUS
  <1>1. hilo = [h \in Hilos |-> Ocioso] /\ conexion = [x \in Conexiones |-> Nueva]
    BY Zenon DEF Init
  <1>2. PICK abre : hebra = [t \in Hebras |-> [pc |-> "libre", n |-> 0, abre |-> abre]]
    BY Zenon DEF Init
  <1>3. \A x \in Conexiones : ~Volvio(x)
    BY <1>2, ConexionDe, Constantes DEF Volvio, Conexiones
  <1>4. RespuestaOK
    BY <1>1 DEF RespuestaOK, ContestaOK, Contesta, ReplicaOK, Ocioso, Nueva
  <1>5. QED
    BY <1>3, <1>4 DEF RespuestaLlega

LEMMA RespuestaSiempre ==
  Spec => [](Inductivo /\ FuturoOK /\ OrdenOK /\ RespuestaOK /\ RespuestaLlega)
  <1>1. Inductivo /\ OrdenOK /\ RespuestaOK /\ [Next]_vars => RespuestaOK'
    BY RespuestaPaso
  <1>2. Inductivo /\ RespuestaOK /\ RespuestaLlega /\ [Next]_vars => RespuestaLlega'
    BY LlegaPaso
  <1>3. QED
    BY <1>1, <1>2, RespuestaInicial, OrdenSiempre, PTL DEF Spec

\* A call that returns has the reply to its own request, except a removal, which
\* waits for none, and a write that the server took in parts.
THEOREM NingunaRespuestaSePierde == Spec => []RespuestaLlega
  BY RespuestaSiempre, PTL

(***************************************************************************)
(* The listing that brings the server down.                                *)
(***************************************************************************)

\* A prefix, element by element.
LEMMA PrefijoDe ==
  ASSUME NEW S, NEW s \in Seq(S), NEW r \in Seq(S)
  PROVE  IsPrefix(s, r) <=> Len(s) <= Len(r) /\ \A i \in 1 .. Len(s) : s[i] = r[i]
  <1>0. Len(s) \in Nat /\ Len(r) \in Nat
    OBVIOUS
  <1>1. ASSUME Len(s) <= Len(r)
        PROVE  SubSeq(s, 1, Len(s)) = SubSeq(r, 1, Len(s)) <=> \A i \in 1 .. Len(s) : s[i] = r[i]
    <2>1. SubSeq(s, 1, Len(s)) = [i \in 1 .. Len(s) |-> s[i]]
      BY <1>0
    <2>2. SubSeq(r, 1, Len(s)) = [i \in 1 .. Len(s) |-> r[i]]
      BY <1>0, <1>1
    <2>3. QED
      BY <2>1, <2>2, Zenon
  <1>2. QED
    BY <1>1, Zenon DEF IsPrefix

\* Two paths above one path are one above the other.
LEMMA Comparables ==
  ASSUME NEW S, NEW s \in Seq(S), NEW r \in Seq(S), NEW w \in Seq(S),
         IsPrefix(s, w), IsPrefix(r, w)
  PROVE  IsPrefix(s, r) \/ IsPrefix(r, s)
  <1>1. /\ Len(s) <= Len(w) /\ \A i \in 1 .. Len(s) : s[i] = w[i]
        /\ Len(r) <= Len(w) /\ \A i \in 1 .. Len(r) : r[i] = w[i]
    BY PrefijoDe
  <1>2. Len(s) \in Nat /\ Len(r) \in Nat
    OBVIOUS
  <1>3. CASE Len(s) <= Len(r)
    <2>1. \A i \in 1 .. Len(s) : s[i] = r[i]
      BY <1>1, <1>2, <1>3
    <2>2. QED
      BY <1>3, <2>1, PrefijoDe
  <1>4. CASE Len(r) <= Len(s)
    <2>1. \A i \in 1 .. Len(r) : r[i] = s[i]
      BY <1>1, <1>2, <1>4
    <2>2. QED
      BY <1>4, <2>1, PrefijoDe
  <1>5. QED
    BY <1>2, <1>3, <1>4

\* One sequence after another.
LEMMA Pegar ==
  ASSUME NEW S, NEW s \in Seq(S), NEW r \in Seq(S)
  PROVE  /\ s \o r \in Seq(S) /\ Len(s \o r) = Len(s) + Len(r)
         /\ \A i \in 1 .. Len(s) : (s \o r)[i] = s[i]
         /\ \A i \in 1 .. Len(r) : (s \o r)[Len(s) + i] = r[i]
  <1>1. s \o r \in Seq(S) /\ Len(s \o r) = Len(s) + Len(r)
    OBVIOUS
  <1>2. \A i \in 1 .. Len(s) : (s \o r)[i] = s[i]
    OBVIOUS
  <1>3. \A i \in 1 .. Len(r) : (s \o r)[Len(s) + i] = r[i]
    OBVIOUS
  <1>4. QED
    BY <1>1, <1>2, <1>3

\* A path moved from d to a is below a, and is itself again when it is moved back.
LEMMA MudarSeq ==
  ASSUME NEW S, NEW e \in Seq(S), NEW d \in Seq(S), NEW a \in Seq(S), IsPrefix(d, e)
  PROVE  /\ Mudado(e, d, a) \in Seq(S) /\ IsPrefix(a, Mudado(e, d, a))
         /\ Mudado(Mudado(e, d, a), a, d) = e
  <1>1. /\ Len(d) <= Len(e) /\ Len(d) \in Nat /\ Len(e) \in Nat /\ Len(a) \in Nat
        /\ \A i \in 1 .. Len(d) : d[i] = e[i]
    BY PrefijoDe
  <1>2. PICK k : k = SubSeq(e, Len(d) + 1, Len(e))
    OBVIOUS
  <1>3. /\ k \in Seq(S) /\ Len(k) = Len(e) - Len(d)
        /\ \A i \in 1 .. Len(e) - Len(d) : k[i] = e[Len(d) + i]
    BY <1>1, <1>2
  <1>4. PICK m : m = a \o k
    OBVIOUS
  <1>5. /\ m \in Seq(S) /\ Len(m) = Len(a) + Len(k)
        /\ \A i \in 1 .. Len(a) : m[i] = a[i]
        /\ \A i \in 1 .. Len(k) : m[Len(a) + i] = k[i]
    <2>1. a \o k \in Seq(S) /\ Len(a \o k) = Len(a) + Len(k)
      BY <1>3, Pegar
    <2>2. \A i \in 1 .. Len(a) : (a \o k)[i] = a[i]
      BY <1>3, Pegar
    <2>3. \A i \in 1 .. Len(k) : (a \o k)[Len(a) + i] = k[i]
      BY <1>3, Pegar
    <2>4. QED
      BY <1>4, <2>1, <2>2, <2>3
  <1>6. IsPrefix(a, m)
    BY <1>1, <1>3, <1>5, PrefijoDe
  <1>7. SubSeq(m, Len(a) + 1, Len(m)) = k
    <2>1. PICK j : j = SubSeq(m, Len(a) + 1, Len(m))
      OBVIOUS
    <2>2. /\ j \in Seq(S) /\ Len(j) = Len(k)
          /\ \A i \in 1 .. Len(k) : j[i] = m[Len(a) + i]
      BY <1>1, <1>3, <1>5, <2>1
    <2>3. QED
      BY <1>3, <1>5, <2>1, <2>2
  <1>8. d \o k = e
    <2>1. PICK j : j = d \o k
      OBVIOUS
    <2>2. /\ j \in Seq(S) /\ Len(j) = Len(e)
          /\ \A i \in 1 .. Len(d) : j[i] = d[i]
          /\ \A i \in 1 .. Len(k) : j[Len(d) + i] = k[i]
      <3>1. Len(j) = Len(d) + Len(k)
        BY <1>3, <2>1, Pegar
      <3>2. QED
        BY <1>1, <1>3, <2>1, <3>1, Pegar
    <2>3. \A i \in 1 .. Len(e) : j[i] = e[i]
      <3> SUFFICES ASSUME NEW i \in 1 .. Len(e) PROVE j[i] = e[i]
        OBVIOUS
      <3>1. CASE i <= Len(d)
        BY <1>1, <2>2, <3>1
      <3>2. CASE i > Len(d)
        <4>1. i - Len(d) \in 1 .. Len(k) /\ i = Len(d) + (i - Len(d))
          BY <1>1, <1>3, <3>2
        <4>2. j[Len(d) + (i - Len(d))] = k[i - Len(d)] /\ k[i - Len(d)] = e[Len(d) + (i - Len(d))]
          BY <1>3, <2>2, <4>1
        <4>3. QED
          BY <4>1, <4>2
      <3>3. QED
        BY <1>1, <3>1, <3>2
    <2>4. j = e
      <3>1. e = [i \in 1 .. Len(e) |-> e[i]] /\ j = [i \in 1 .. Len(j) |-> j[i]]
        BY <2>2
      <3>2. QED
        BY <2>2, <2>3, <3>1
    <2>5. QED
      BY <2>1, <2>4
  <1>9. QED
    BY <1>2, <1>4, <1>5, <1>6, <1>7, <1>8 DEF Mudado

\* The same of the directories.
LEMMA CaminosDe ==
  /\ \A e, d, a \in Dirs : Bajo(e, d) /\ Bajo(e, a) => Bajo(d, a) \/ Bajo(a, d)
  /\ \A e, d, a \in Dirs : Bajo(e, d) =>
        /\ Mudado(Mudado(e, d, a), a, d) = e
        /\ Mudado(e, d, a) \in Dirs => Bajo(Mudado(e, d, a), a)
  <1>1. Nadie \notin Dirs /\ Dirs \subseteq Seq(Nombres)
    BY Constantes
  <1>2. ASSUME NEW e \in Dirs, NEW d \in Dirs, NEW a \in Dirs, Bajo(e, d), Bajo(e, a)
        PROVE  Bajo(d, a) \/ Bajo(a, d)
    BY <1>1, <1>2, Comparables DEF Bajo
  <1>3. ASSUME NEW e \in Dirs, NEW d \in Dirs, NEW a \in Dirs, Bajo(e, d)
        PROVE  /\ Mudado(Mudado(e, d, a), a, d) = e
               /\ Mudado(e, d, a) \in Dirs => Bajo(Mudado(e, d, a), a)
    <2>1. IsPrefix(a, Mudado(e, d, a)) /\ Mudado(Mudado(e, d, a), a, d) = e
      BY <1>1, <1>3, MudarSeq DEF Bajo
    <2>2. QED
      BY <1>1, <2>1 DEF Bajo
  <1>4. QED
    BY <1>2, <1>3

\* A process other than c has removed or moved e, or a directory above it, or has
\* removed or moved something and c has moved to e what it was.
DeOtro(e, c) ==
  \E y \in Conexiones : /\ conexion[y].op \in Quita /\ conexion[y].atendida /\ De(y) # c
                        /\ Bajo(e, conexion[y].dir) \/ Renombro(c, e)

\* y is a removal by c of e, or of a directory above it, that the server has not
\* carried out, and y is a move of it.
Pendiendo(y, e, c) ==
  Empezada(y) /\ ~conexion[y].atendida /\ De(y) = c /\ Bajo(e, conexion[y].dir)
Borrando(y, e, c) == Pendiendo(y, e, c) /\ conexion[y].op = "rmdir"
Mudando(y, e, c)  == Pendiendo(y, e, c) /\ conexion[y].op = "rename"

\* The directory e will be there for c, unless another process takes it away or c
\* moves it.
Firme(e, c) ==
  \/ DeOtro(e, c)
  \/ directorios[e] # "no" /\ \A y \in Conexiones : ~Borrando(y, e, c)

\* The server answers r to x.
Responde(h, x, r) == hilo[h].pc = "send" /\ hilo[h].con = x /\ hilo[h].resp = r
Respondida(x, r) == conexion[x].respuesta = r \/ \E h \in Hilos : Responde(h, x, r)

\* The process of x is opening e: it has come after its own removals of it, and it
\* has been refused if it was not there.
AbreCon(x, e) ==
  /\ conexion[x].op = "opendir" /\ conexion[x].dir = e
  /\ ~conexion[x].atendida => \A y \in Conexiones : Borrando(y, e, De(x)) => Antes(y, x)
  /\ conexion[x].atendida => ~Respondida(x, "si")

\* The call x of c, which has not returned, moved e with it, and to where.
Llevada(x, e, c) ==
  /\ EnCurso(x) /\ De(x) = c /\ conexion[x].op = "rename" /\ conexion[x].atendida
  /\ Bajo(e, conexion[x].dir) /\ Respondida(x, "si")
Destino(x, e) == Mudado(e, conexion[x].dir, conexion[x].nuevo)

\* What a thread has open is there, or is being opened, or has just been moved.
AbreOK ==
  ~caido => \A t \in Hebras, e \in Dirs : hebra[t].abre = e =>
    /\ ClienteDe[t] \notin muertos
    /\ \/ Firme(e, ClienteDe[t])
       \/ hebra[t].pc # "libre" /\ \E x \in Conexiones : x = Actual(t) /\ AbreCon(x, e)
       \/ \E x \in Conexiones : Llevada(x, e, ClienteDe[t])

\* What it has open and is moved is where it was moved to.
LlevadaOK ==
  ~caido => \A t \in Hebras, e \in Dirs, x \in Conexiones :
    hebra[t].abre = e /\ Llevada(x, e, ClienteDe[t]) /\ Destino(x, e) \in Dirs =>
      Firme(Destino(x, e), ClienteDe[t])

\* What is going to be listed is there.
LecturaOK ==
  ~caido => \A x \in Conexiones, e \in Dirs :
    /\ Empezada(x) /\ conexion[x].op = "readdir" /\ ~conexion[x].atendida
    /\ conexion[x].dir = e
    => Firme(e, De(x))

\* The paths of the calls.
DirOK ==
  \A x \in Conexiones : Empezada(x) =>
    /\ conexion[x].dir \in Dirs
    /\ conexion[x].op = "rename" =>
         /\ conexion[x].nuevo \in Dirs
         /\ ~Bajo(conexion[x].dir, conexion[x].nuevo)
         /\ ~Bajo(conexion[x].nuevo, conexion[x].dir)

\* The tree lock of FUSE: two calls under way, and a move and the calls of its
\* process that the server has still to carry out.
CursoOK ==
  \A x, y \in Conexiones :
    EnCurso(x) /\ EnCurso(y) /\ x # y /\ De(x) = De(y) => ~Excluye(conexion[x], conexion[y])

ExcluyeOK ==
  \A x, y \in Conexiones :
    /\ Empezada(x) /\ Empezada(y) /\ De(x) = De(y) /\ conexion[y].op = "rename"
    /\ ~conexion[x].atendida /\ ~conexion[y].atendida
    => /\ conexion[x].op = "readdir" => ~Bajo(conexion[x].dir, conexion[y].dir)
       /\ /\ conexion[x].op = "rmdir"
          /\ \/ Bajo(conexion[x].dir, conexion[y].nuevo)
             \/ Bajo(conexion[y].nuevo, conexion[x].dir)
          => Antes(x, y)

\* A server that died stays dead.
LEMMA CaidoSigue ==
  ASSUME Inductivo, [Next]_vars, caido
  PROVE  caido'
  <1>1. ~ \E h \in Hilos : PasoHilo(h)
    BY DEF PasoHilo, Copiar, Abandonar, Atender, Responder, Cerrar, En
  <1>2. ASSUME NEW t \in Hebras, PasoHebra(t) PROVE caido'
    BY <1>2, QueEnviar, QueTomarSockete, QueRecibir DEF PasoHebra, Quieto
  <1>3. ASSUME NEW c \in Clientes, Morir(c) PROVE caido'
    BY <1>3, QueMorir DEF Quieto
  <1>4. ~TomarTurno /\ ~FallaAccept /\ ~Aceptar
    BY DEF TomarTurno, FallaAccept, Aceptar
  <1>5. ~ \E t \in Hebras, p \in Operaciones : Llamar(t, p)
    BY DEF Llamar
  <1>6. CASE UNCHANGED vars
    BY <1>6 DEF vars
  <1>7. QED
    BY <1>1, <1>2, <1>3, <1>4, <1>5, <1>6 DEF Next

\* What is not carried out yet and is waited for has not returned.
LEMMA SinVolver ==
  ASSUME Inductivo, RespuestaLlega, ~caido, NEW x \in Conexiones, Empezada(x),
         ~conexion[x].atendida, conexion[x].op \notin {"rmdir", "write"}, De(x) \notin muertos
  PROVE  /\ EnCurso(x) /\ x[1] \in Hebras /\ ClienteDe[x[1]] = De(x)
         /\ hebra[x[1]].pc # "libre" /\ x = Actual(x[1])
  <1>1. ~Volvio(x)
    BY DEF RespuestaLlega
  <1>2. EnCurso(x)
    BY <1>1 DEF Volvio, Empezada
  <1>3. QED
    BY <1>2, ConexionDe DEF EnCurso, De, Actual

\* Calls return one by one.
LEMMA CursoSigue ==
  ASSUME Inductivo, [Next]_vars,
         ~ \E t \in Hebras, p \in Operaciones : Llamar(t, p),
         NEW x \in Conexiones
  PROVE  /\ EnCurso(x)' => EnCurso(x)
         /\ EnCurso(x) => EnCurso(x)' \/ De(x) \in muertos' \/ Recibir(x[1])
         /\ muertos \subseteq muertos'
  <1> DEFINE Meta == /\ EnCurso(x)' => EnCurso(x)
                     /\ EnCurso(x) => EnCurso(x)' \/ De(x) \in muertos' \/ Recibir(x[1])
                     /\ muertos \subseteq muertos'
  <1>1. CASE TomarTurno \/ FallaAccept \/ UNCHANGED vars
    BY <1>1 DEF TomarTurno, FallaAccept, vars, clientes, EnCurso
  <1>2. CASE Aceptar
    BY <1>2, QueAceptar DEF EnCurso
  <1>3. ASSUME NEW h \in Hilos, PasoHilo(h) PROVE Meta
    BY <1>3, HiloAjeno DEF Ajeno, EnCurso
  <1>4. ASSUME NEW u \in Hebras, PasoHebra(u) PROVE Meta
    <2>1. CASE Enviar(u)
      <3>1. /\ hebra[u].pc = "connect" /\ hebra'[u].pc = "send" /\ SigueHebra(u)
            /\ UNCHANGED muertos
        BY <2>1, QueEnviar
      <3>2. QED
        BY <3>1, CursoIgual, ConexionDe DEF SigueHebra
    <2>2. CASE TomarSockete(u)
      <3>1. /\ hebra[u].pc = "send" /\ hebra'[u].pc = "recv" /\ SigueHebra(u)
            /\ UNCHANGED muertos
        BY <2>2, QueTomarSockete
      <3>2. QED
        BY <3>1, CursoIgual, ConexionDe DEF SigueHebra
    <2>3. CASE Recibir(u)
      <3>1. /\ hebra[u].pc = "recv" /\ hebra'[u].pc = "libre" /\ UNCHANGED muertos
            /\ \A v \in Hebras : hebra'[v].n = hebra[v].n /\ (v # u => hebra'[v].pc = hebra[v].pc)
        BY <2>3, QueRecibir
      <3>2. EnCurso(x)' <=> EnCurso(x) /\ x # Actual(u)
        BY <3>1, CursoRecibir
      <3>3. x = Actual(u) => x[1] = u
        BY DEF Actual
      <3>4. QED
        BY <2>3, <3>1, <3>2, <3>3
    <2>4. QED
      BY <1>4, <2>1, <2>2, <2>3 DEF PasoHebra
  <1>5. ASSUME NEW c \in Clientes, Morir(c) PROVE Meta
    <2>1. /\ muertos' = muertos \cup {c}
          /\ ClienteDe[x[1]] = c => hebra'[x[1]].pc = "libre"
          /\ ClienteDe[x[1]] # c => hebra'[x[1]] = hebra[x[1]]
      BY <1>5, QueMorir, ConexionDe
    <2>2. QED
      BY <2>1 DEF EnCurso, De
  <1>6. QED
    BY <1>1, <1>2, <1>3, <1>4, <1>5 DEF Next

\* Only a removal or a move takes a directory away.
LEMMA DirectorioSigue ==
  ASSUME Inductivo, OrdenOK, [Next]_vars, NEW e \in Dirs,
         directorios[e] # "no", directorios'[e] = "no",
         ~ \E t \in Hebras, p \in Operaciones : Llamar(t, p)
  PROVE  \E y \in Conexiones, h \in Hilos :
           /\ Atiende(h, y) /\ Empezada(y) /\ ~conexion[y].atendida /\ conexion'[y].atendida
           /\ conexion[y].op \in Quita /\ Bajo(e, conexion[y].dir)
           /\ conexion[y].op = "rename" => Responde(h, y, "si")'
  <1> DEFINE Meta ==
         \E y \in Conexiones, h \in Hilos :
           /\ Atiende(h, y) /\ Empezada(y) /\ ~conexion[y].atendida /\ conexion'[y].atendida
           /\ conexion[y].op \in Quita /\ Bajo(e, conexion[y].dir)
           /\ conexion[y].op = "rename" => Responde(h, y, "si")'
  <1>1. CASE TomarTurno \/ FallaAccept \/ UNCHANGED vars
    BY <1>1 DEF TomarTurno, FallaAccept, vars
  <1>2. CASE Aceptar
    BY <1>2, QueAceptar
  <1>3. ASSUME NEW h \in Hilos, PasoHilo(h) PROVE Meta
    <2>1. ~Copiar(h) /\ ~Abandonar(h) /\ ~Responder(h) /\ ~Cerrar(h)
      BY QueCopiar, QueAbandonar, QueResponder, QueCerrar
    <2>2. PICK y \in Conexiones : Atiende(h, y)
      BY <1>3, <2>1, QueAtender DEF PasoHilo
    <2>3. /\ hilo[h].pc = "recv" /\ Encargo(h) = y
          /\ conexion'[y].atendida = TRUE /\ hilo'[h].pc = "send" /\ hilo'[h].con = y
      BY <2>2 DEF Atiende
    <2>4. Empezada(y) /\ PorAtender(y)
      BY <2>3, SoloUno DEF PorAtender
    <2>5. ~conexion[y].atendida
      BY <2>4 DEF OrdenOK
    <2>6. PICK ef \in Efectos(directorios, conexion[y]) : directorios' = ef[1] /\ hilo'[h].resp = ef[2]
      BY <2>2 DEF Atiende
    <2>7. directorios \in [Dirs -> Estados]
      BY Tipos DEF Inductivo, IInv
    <2>8. conexion[y].op \in Quita /\ Bajo(e, conexion[y].dir)
      BY <2>6, <2>7, EfectosDe
    <2>9. conexion[y].op = "rename" => ef[2] = "si"
      BY <2>6 DEF Efectos, Hecho
    <2>10. QED
      BY <2>2, <2>3, <2>4, <2>5, <2>6, <2>8, <2>9 DEF Responde
  <1>4. ASSUME NEW t \in Hebras, PasoHebra(t) PROVE FALSE
    BY <1>4, QueEnviar, QueTomarSockete, QueRecibir DEF PasoHebra, Quieto
  <1>5. ASSUME NEW c \in Clientes, Morir(c) PROVE FALSE
    BY <1>5, QueMorir DEF Quieto
  <1>6. QED
    BY <1>1, <1>2, <1>3, <1>4, <1>5 DEF Next

LEMMA DeOtroSigue ==
  ASSUME Inductivo, FuturoOK, [Next]_vars, NEW e, NEW c, DeOtro(e, c)
  PROVE  DeOtro(e, c)'
  <1>1. CASE ~ \E t \in Hebras, p \in Operaciones : Llamar(t, p)
    <2>1. Renombro(c, e) => Renombro(c, e)'
      BY <1>1, QueSigue DEF Renombro
    <2>2. QED
      BY <1>1, <2>1, QueSigue DEF DeOtro
  <1>2. ASSUME NEW t \in Hebras, NEW p \in Operaciones, Llamar(t, p)
        PROVE  DeOtro(e, c)'
    <2>1. PICK x \in Conexiones : Llama(t, p, x)
      BY <1>2, QueLlamar
    <2>2. ~Empezada(x) /\ \A y \in Conexiones : y # x => conexion'[y] = conexion[y]
      BY <2>1 DEF Llama
    <2>3. ~conexion[x].atendida
      BY <2>2 DEF FuturoOK, Nueva
    <2>4. Renombro(c, e) => Renombro(c, e)'
      BY <2>2, <2>3 DEF Renombro
    <2>5. QED
      BY <2>2, <2>3, <2>4 DEF DeOtro
  <1>3. QED
    BY <1>1, <1>2

LEMMA FirmeSigue ==
  ASSUME Inductivo, FuturoOK, OrdenOK, [Next]_vars, NEW e \in Dirs, NEW c, Firme(e, c),
         ~ \E t \in Hebras, p \in Operaciones : Llamar(t, p)
  PROVE  \/ Firme(e, c)'
         \/ \E y \in Conexiones, h \in Hilos :
              Atiende(h, y) /\ Mudando(y, e, c) /\ conexion'[y].atendida /\ Responde(h, y, "si")'
  <1>1. CASE DeOtro(e, c)
    BY <1>1, DeOtroSigue DEF Firme
  <1>2. CASE directorios[e] # "no" /\ \A y \in Conexiones : ~Borrando(y, e, c)
    <2>1. \A y \in Conexiones : ~Borrando(y, e, c)'
      BY <1>2, QueSigue DEF Borrando, Pendiendo
    <2>2. CASE directorios'[e] # "no"
      BY <2>1, <2>2 DEF Firme
    <2>3. CASE directorios'[e] = "no"
      <3>1. PICK y \in Conexiones, h \in Hilos :
              /\ Atiende(h, y) /\ Empezada(y) /\ ~conexion[y].atendida /\ conexion'[y].atendida
              /\ conexion[y].op \in Quita /\ Bajo(e, conexion[y].dir)
              /\ conexion[y].op = "rename" => Responde(h, y, "si")'
        BY <1>2, <2>3, DirectorioSigue
      <3>2. CASE De(y) = c
        <4>1. conexion[y].op = "rename"
          BY <1>2, <3>1, <3>2 DEF Borrando, Pendiendo, Quita
        <4>2. QED
          BY <3>1, <3>2, <4>1 DEF Mudando, Pendiendo
      <3>3. CASE De(y) # c
        <4>1. DeOtro(e, c)'
          BY <3>1, <3>3, QueSigue DEF DeOtro
        <4>2. QED
          BY <4>1 DEF Firme
      <3>4. QED
        BY <3>2, <3>3
    <2>4. QED
      BY <2>2, <2>3
  <1>3. QED
    BY <1>1, <1>2 DEF Firme

LEMMA FirmeLlamar ==
  ASSUME Inductivo, FuturoOK, [Next]_vars, NEW t \in Hebras, NEW p \in Operaciones,
         NEW x \in Conexiones, Llama(t, p, x), NEW e \in Dirs, NEW c, Firme(e, c),
         ~(p.op = "rmdir" /\ Bajo(e, p.dir) /\ c = ClienteDe[t])
  PROVE  Firme(e, c)'
  <1>1. /\ x[1] = t /\ ~Empezada(x) /\ directorios' = directorios
        /\ conexion'[x].op = p.op /\ conexion'[x].dir = p.dir
        /\ \A y \in Conexiones : y # x => conexion'[y] = conexion[y]
    BY DEF Llama
  <1>2. DeOtro(e, c) => DeOtro(e, c)'
    BY DeOtroSigue
  <1>3. ASSUME NEW y \in Conexiones, Borrando(y, e, c)' PROVE Borrando(y, e, c)
    <2>1. Empezada(y)' <=> Empezada(y) \/ y = x
      BY AvanceLlamar
    <2>2. y # x
      BY <1>1, <1>3 DEF Borrando, Pendiendo, De
    <2>3. QED
      BY <1>1, <1>3, <2>1, <2>2 DEF Borrando, Pendiendo
  <1>4. QED
    BY <1>1, <1>2, <1>3 DEF Firme

\* An answer does not turn into another.
LEMMA NegadaSigue ==
  ASSUME Inductivo, OrdenOK, [Next]_vars,
         ~ \E t \in Hebras, p \in Operaciones : Llamar(t, p),
         NEW x \in Conexiones, conexion[x].atendida, ~Respondida(x, "si")
  PROVE  ~Respondida(x, "si")'
  <1>0. conexion[x].respuesta # "si" /\ \A h \in Hilos : ~Responde(h, x, "si")
    BY DEF Respondida
  <1> DEFINE Meta == conexion'[x].respuesta # "si" /\ \A h \in Hilos : ~Responde(h, x, "si")'
  <1>1. ASSUME TomarTurno \/ FallaAccept \/ UNCHANGED vars PROVE Meta
    <2>1. conexion' = conexion /\ hilo' = hilo
      BY <1>1 DEF TomarTurno, FallaAccept, vars
    <2>2. QED
      BY <1>0, <2>1 DEF Responde
  <1>2. ASSUME Aceptar PROVE Meta
    <2>1. /\ Contestado(x)
          /\ \/ hilo' = hilo
             \/ \E h \in Hilos : /\ hilo'[h].pc = "nace"
                                 /\ \A g \in Hilos : g # h => hilo'[g] = hilo[g]
      BY <1>2, QueAceptar
    <2>2. \A g \in Hilos : hilo'[g].pc = "send" => hilo'[g] = hilo[g]
      BY <2>1
    <2>3. QED
      BY <1>0, <2>1, <2>2 DEF Contestado, Responde
  <1>3. ASSUME NEW h \in Hilos, PasoHilo(h) PROVE Meta
    <2>1. CASE Copiar(h) \/ Abandonar(h)
      BY <1>0, <2>1, QueCopiar, QueAbandonar DEF Contestado, Responde
    <2>2. CASE Atender(h)
      <3>1. PICK z \in Conexiones : Atiende(h, z)
        BY <2>2, QueAtender
      <3>2. /\ hilo[h].pc = "recv" /\ Encargo(h) = z
            /\ conexion'[x].respuesta = conexion[x].respuesta
            /\ \A g \in Hilos : g # h => hilo'[g] = hilo[g]
            /\ hilo' = hilo \/ hilo'[h].con = z
        BY <3>1 DEF Atiende
      <3>3. ~conexion[z].atendida
        BY <3>2 DEF OrdenOK, PorAtender
      <3>4. QED
        BY <1>0, <3>2, <3>3 DEF Responde
    <2>3. CASE Responder(h) \/ Cerrar(h)
      BY <1>0, <2>3, QueResponder, QueCerrar DEF Responde
    <2>4. QED
      BY <1>3, <2>1, <2>2, <2>3 DEF PasoHilo
  <1>4. ASSUME NEW t \in Hebras, PasoHebra(t) PROVE Meta
    BY <1>0, <1>4, QueEnviar, QueTomarSockete, QueRecibir DEF PasoHebra, Quieto, Fijo, Contestado, Responde
  <1>5. ASSUME NEW c \in Clientes, Morir(c) PROVE Meta
    BY <1>0, <1>5, QueMorir DEF Quieto, Fijo, Contestado, Responde
  <1> HIDE DEF Meta
  <1>6. Meta
    BY <1>1, <1>2, <1>3, <1>4, <1>5 DEF Next
  <1>7. QED
    BY <1>6 DEF Meta, Respondida

\* An answer arrives.
LEMMA AfirmadaSigue ==
  ASSUME Inductivo, OrdenOK, RespuestaOK, [Next]_vars,
         ~ \E t \in Hebras, p \in Operaciones : Llamar(t, p),
         NEW x \in Conexiones, Respondida(x, "si"), conexion[x].op # "write",
         conexion[x].atendida
  PROVE  Respondida(x, "si")'
  <1>0. conexion[x].respuesta = "si" \/ \E h \in Hilos : Responde(h, x, "si")
    BY DEF Respondida
  <1> DEFINE Meta == conexion'[x].respuesta = "si" \/ \E h \in Hilos : Responde(h, x, "si")'
  <1>1. ASSUME TomarTurno \/ FallaAccept \/ UNCHANGED vars PROVE Meta
    <2>1. conexion' = conexion /\ hilo' = hilo
      BY <1>1 DEF TomarTurno, FallaAccept, vars
    <2>2. QED
      BY <1>0, <2>1 DEF Responde
  <1>2. ASSUME Aceptar PROVE Meta
    <2>1. Contestado(x) /\ \A h \in Hilos : hilo[h].pc = "libre"
      BY <1>2, QueAceptar
    <2>2. conexion[x].respuesta = "si"
      BY <1>0, <2>1 DEF Responde
    <2>3. QED
      BY <2>1, <2>2 DEF Contestado
  <1>3. ASSUME NEW h \in Hilos, PasoHilo(h) PROVE Meta
    <2>0. hilo[h].pc # "libre" /\ \A g \in Hilos : g # h => hilo[g].pc = "libre"
      BY <1>3, HiloAjeno, SoloUno
    <2>1. CASE Copiar(h) \/ Abandonar(h)
      <3>1. hilo[h].pc \in {"nace", "recv"} /\ Contestado(x)
        BY <2>1, QueCopiar, QueAbandonar DEF Contestado
      <3>2. QED
        BY <1>0, <2>0, <3>1 DEF Contestado, Responde
    <2>2. CASE Atender(h)
      <3>1. PICK z \in Conexiones : Atiende(h, z)
        BY <2>2, QueAtender
      <3>2. hilo[h].pc = "recv" /\ conexion'[x].respuesta = conexion[x].respuesta
        BY <3>1 DEF Atiende
      <3>3. QED
        BY <1>0, <2>0, <3>2 DEF Responde
    <2>3. CASE Responder(h)
      <3>1. /\ hilo[h].pc = "send" /\ conexion'[hilo[h].con].respuesta = hilo[h].resp
            /\ x # hilo[h].con => conexion'[x] = conexion[x]
        BY <2>3, QueResponder
      <3>2. conexion[hilo[h].con].respuesta = "nada"
        BY <3>1 DEF RespuestaOK, ContestaOK, Contesta
      <3>3. QED
        BY <1>0, <2>0, <3>1, <3>2 DEF Responde
    <2>4. CASE Cerrar(h)
      <3>1. /\ hilo[h].pc = "mensajito"
            /\ \/ conexion'[hilo[h].con].respuesta = conexion[hilo[h].con].respuesta
               \/ hilo[h].resto
            /\ x # hilo[h].con => conexion'[x] = conexion[x]
        BY <2>4, QueCerrar
      <3>2. hilo[h].resto => conexion[hilo[h].con].op = "write"
        BY <3>1 DEF RespuestaOK, ContestaOK, Contesta
      <3>3. QED
        BY <1>0, <2>0, <3>1, <3>2 DEF Responde
    <2>5. QED
      BY <1>3, <2>1, <2>2, <2>3, <2>4 DEF PasoHilo
  <1>4. ASSUME NEW t \in Hebras, PasoHebra(t) PROVE Meta
    BY <1>0, <1>4, QueEnviar, QueTomarSockete, QueRecibir DEF PasoHebra, Quieto, Fijo, Contestado, Responde
  <1>5. ASSUME NEW c \in Clientes, Morir(c) PROVE Meta
    BY <1>0, <1>5, QueMorir DEF Quieto, Fijo, Contestado, Responde
  <1> HIDE DEF Meta
  <1>6. Meta
    BY <1>1, <1>2, <1>3, <1>4, <1>5 DEF Next
  <1>7. QED
    BY <1>6 DEF Meta, Respondida

\* A directory is opened when the removals of the same process are over.
LEMMA AbreConSigue ==
  ASSUME Inductivo, FuturoOK, OrdenOK, RespuestaOK, [Next]_vars,
         ~ \E t \in Hebras, p \in Operaciones : Llamar(t, p),
         NEW x \in Conexiones, NEW e \in Dirs, AbreCon(x, e)
  PROVE  AbreCon(x, e)' \/ Firme(e, De(x))'
  <1>1. /\ conexion[x].op = "opendir" /\ conexion[x].dir = e
        /\ conexion'[x].op = "opendir" /\ conexion'[x].dir = e
    BY QueSigue DEF AbreCon
  <1>2. CASE conexion[x].atendida
    <2>1. conexion'[x].atendida
      BY <1>2, QueSigue
    <2>2. ~Respondida(x, "si")'
      BY <1>2, NegadaSigue DEF AbreCon
    <2>3. QED
      BY <1>1, <2>1, <2>2 DEF AbreCon
  <1>3. CASE ~conexion[x].atendida /\ ~conexion'[x].atendida
    <2>1. ASSUME NEW y \in Conexiones, Borrando(y, e, De(x))' PROVE Antes(y, x)'
      <3>1. Borrando(y, e, De(x)) /\ ~conexion'[y].atendida
        BY <2>1, QueSigue DEF Borrando, Pendiendo
      <3>2. Antes(y, x)
        BY <1>3, <3>1 DEF AbreCon
      <3>3. QED
        BY <3>1, <3>2, Avance
    <2>2. QED
      BY <1>1, <1>3, <2>1 DEF AbreCon
  <1>4. CASE ~conexion[x].atendida /\ conexion'[x].atendida
    <2>1. PICK h \in Hilos : Atiende(h, x)
      BY <1>4, QuienAtiende
    <2>2. hilo[h].pc = "recv" /\ Encargo(h) = x
      BY <2>1 DEF Atiende
    <2>3. /\ ~Perdido /\ ~EnCola(x) /\ \A g \in Hilos : g # h => hilo[g].pc = "libre"
      BY <2>2, SoloUno
    <2>4. \A y : ~Antes(y, x)
      BY <2>3 DEF Antes, Precede, EnCola
    <2>5. \A y \in Conexiones : ~Borrando(y, e, De(x))
      BY <1>4, <2>4 DEF AbreCon
    <2>6. /\ \A g \in Hilos : g # h => hilo'[g] = hilo[g]
          /\ conexion'[x].respuesta = conexion[x].respuesta
      BY <2>1 DEF Atiende
    <2>7. PICK ef \in Efectos(directorios, conexion[x]) :
            /\ hilo'[h].resp = ef[2]
            /\ directorios' = ef[1]
      BY <1>1, <1>4, <2>1 DEF Atiende
    <2>8. directorios \in [Dirs -> Estados]
      BY Tipos DEF Inductivo, IInv
    <2>9. /\ ef[1] = directorios
          /\ directorios[e] = "no" => ef[2] = "no"
      BY <1>1, <2>8, EfectosDe
    <2>10. CASE directorios[e] = "no"
      <3>1. hilo'[h].resp # "si"
        BY <2>7, <2>9, <2>10
      <3>2. conexion[x].respuesta # "si"
        BY <1>4 DEF RespuestaOK, ReplicaOK
      <3>3. \A g \in Hilos : ~Responde(g, x, "si")'
        BY <2>3, <2>6, <3>1 DEF Responde
      <3>4. ~Respondida(x, "si")'
        BY <2>6, <3>2, <3>3 DEF Respondida
      <3>5. QED
        BY <1>1, <1>4, <3>4 DEF AbreCon
    <2>11. CASE directorios[e] # "no"
      <3>1. directorios'[e] # "no"
        BY <2>7, <2>9, <2>11
      <3>2. \A y \in Conexiones : ~Borrando(y, e, De(x))'
        BY <2>5, QueSigue DEF Borrando, Pendiendo
      <3>3. QED
        BY <3>1, <3>2 DEF Firme
    <2>12. QED
      BY <2>10, <2>11
  <1>5. QED
    BY <1>2, <1>3, <1>4

\* What a thread that receives has been answered.
LEMMA RecibeSi ==
  ASSUME Inductivo, RespuestaOK, ~caido, NEW x \in Conexiones, YaRecibe(x),
         conexion[x].op # "rmdir", Respondida(x, "si")
  PROVE  conexion[x].respuesta = "si"
  <1>1. conexion[x].respuesta # "nada"
    BY DEF YaRecibe
  <1>2. \A h \in Hilos : ~Responde(h, x, "si")
    BY <1>1 DEF Responde, RespuestaOK, ContestaOK, Contesta
  <1>3. QED
    BY <1>2 DEF Respondida

\* What a thread has open was open before the step, in the same place, and it has
\* not been refused or moved, or has been moved by this step.
Igual(t, e) ==
  /\ hebra[t].abre = e
  /\ \/ hebra[t].pc = "libre" \/ hebra'[t].pc # "libre"
     \/ conexion[Actual(t)].op # "opendir" \/ conexion[Actual(t)].respuesta = "si"
  /\ \A x \in Conexiones : Llevada(x, e, ClienteDe[t]) => EnCurso(x)'

Llega(t, e) ==
  \E x \in Conexiones, d \in Dirs :
    /\ hebra[t].abre = d /\ Llevada(x, d, ClienteDe[t]) /\ e = Destino(x, d)
    /\ ~EnCurso(x)' /\ \A y \in Conexiones : conexion'[y].atendida = conexion[y].atendida

\* A thread that has no directory open opens none unless it calls.
LEMMA AbreVacio ==
  ASSUME Inductivo, [Next]_vars, ~ \E u \in Hebras, p \in Operaciones : Llamar(u, p),
         NEW t \in Hebras, hebra[t].abre \notin Dirs
  PROVE  hebra'[t].abre \notin Dirs
  <1>0. hebra[t].abre = Nadie /\ Nadie \notin Dirs
    BY ActualEmpezada, Constantes DEF TipoHebra
  <1>1. CASE TomarTurno \/ FallaAccept \/ UNCHANGED vars
    BY <1>1 DEF TomarTurno, FallaAccept, vars, clientes
  <1>2. CASE Aceptar
    BY <1>2, QueAceptar
  <1>3. ASSUME NEW h \in Hilos, PasoHilo(h) PROVE hebra'[t].abre \notin Dirs
    BY <1>3, HiloAjeno DEF Ajeno
  <1>4. ASSUME NEW u \in Hebras, PasoHebra(u) PROVE hebra'[t].abre \notin Dirs
    <2>1. CASE Enviar(u) \/ TomarSockete(u)
      BY <2>1, QueEnviar, QueTomarSockete DEF SigueHebra
    <2>2. CASE Recibir(u)
      <3>1. PICK z \in Conexiones : hebra'[t].abre = AbreTras(t, u, conexion[z])
        BY <2>2, QueRecibir
      <3>2. QED
        BY <1>0, <3>1 DEF AbreTras, Sigue, Bajo
    <2>3. QED
      BY <1>4, <2>1, <2>2 DEF PasoHebra
  <1>5. ASSUME NEW c \in Clientes, Morir(c) PROVE hebra'[t].abre \notin Dirs
    BY <1>0, <1>5, QueMorir
  <1>6. QED
    BY <1>1, <1>2, <1>3, <1>4, <1>5 DEF Next

\* What is moved is not changed by another call.
LEMMA LlevadaLlamar ==
  ASSUME Inductivo, NEW t \in Hebras, NEW p \in Operaciones, NEW z \in Conexiones,
         Llama(t, p, z), NEW x \in Conexiones, NEW e, NEW c
  PROVE  Llevada(x, e, c)' <=> Llevada(x, e, c)
  <1>1. /\ ~EnCurso(z) /\ (EnCurso(x)' <=> EnCurso(x) \/ x = z)
        /\ UNCHANGED hilo /\ ~conexion'[z].atendida /\ (x # z => conexion'[x] = conexion[x])
    BY CursoLlamar DEF Llama
  <1>2. x # z => (Respondida(x, "si")' <=> Respondida(x, "si"))
    BY <1>1 DEF Respondida, Responde
  <1>3. QED
    BY <1>1, <1>2 DEF Llevada

LEMMA LlevadaCurso ==
  ASSUME Inductivo, [Next]_vars, ~ \E u \in Hebras, p \in Operaciones : Llamar(u, p),
         NEW x \in Conexiones, NEW e, NEW c, Llevada(x, e, c), c \notin muertos',
         ~Recibir(x[1])
  PROVE  EnCurso(x)'
  BY CursoSigue DEF Llevada

LEMMA AbreSigue ==
  ASSUME Inductivo, RespuestaOK, [Next]_vars, ~caido,
         ~ \E u \in Hebras, p \in Operaciones : Llamar(u, p),
         NEW t \in Hebras, NEW e \in Dirs, hebra'[t].abre = e, ClienteDe[t] \notin muertos
  PROVE  /\ ClienteDe[t] \notin muertos' /\ hebra'[t].n = hebra[t].n
         /\ Igual(t, e) \/ Llega(t, e)
  <1> DEFINE Meta == /\ ClienteDe[t] \notin muertos' /\ hebra'[t].n = hebra[t].n
                     /\ Igual(t, e) \/ Llega(t, e)
  <1>0. /\ e # Nadie /\ hebra \in [Hebras -> TipoHebra]
        /\ \A x \in Conexiones : x[1] \in Hebras /\ De(x) = ClienteDe[x[1]]
    BY Constantes, ActualEmpezada, ConexionDe DEF De
  <1>1. ASSUME hebra' = hebra, muertos' = muertos PROVE Meta
    <2>1. \A x \in Conexiones : EnCurso(x)' <=> EnCurso(x)
      BY <1>1 DEF EnCurso
    <2>2. QED
      BY <1>1, <2>1 DEF Igual, Llevada
  <1>2. CASE TomarTurno \/ FallaAccept \/ UNCHANGED vars
    BY <1>1, <1>2 DEF TomarTurno, FallaAccept, vars, clientes
  <1>3. CASE Aceptar
    BY <1>1, <1>3, QueAceptar
  <1>4. ASSUME NEW h \in Hilos, PasoHilo(h) PROVE Meta
    BY <1>1, <1>4, HiloAjeno DEF Ajeno
  <1>5. ASSUME NEW u \in Hebras, PasoHebra(u) PROVE Meta
    <2>1. CASE Enviar(u) \/ TomarSockete(u)
      <3>1. SigueHebra(u) /\ UNCHANGED muertos /\ hebra'[u].pc # "libre"
        BY <2>1, QueEnviar, QueTomarSockete
      <3>2. hebra'[t].n = hebra[t].n /\ hebra[t].abre = e
        BY <3>1 DEF SigueHebra
      <3>3. hebra[t].pc = "libre" \/ hebra'[t].pc # "libre"
        BY <3>1 DEF SigueHebra
      <3>4. \A v \in Hebras : ~Recibir(v)
        <4>1. hebra[u].pc \in {"connect", "send"} /\ hebra'[u].pc \in {"send", "recv"}
          BY <2>1, QueEnviar, QueTomarSockete
        <4>2. ASSUME NEW v \in Hebras, Recibir(v) PROVE FALSE
          <5>1. hebra[v].pc = "recv" /\ hebra'[v].pc = "libre"
            BY <4>2, QueRecibir
          <5>2. v # u
            BY <4>1, <5>1
          <5>3. QED
            BY <3>1, <5>1, <5>2 DEF SigueHebra
        <4>3. QED
          BY <4>2
      <3>5. \A x \in Conexiones : Llevada(x, e, ClienteDe[t]) => EnCurso(x)'
        BY <1>0, <3>1, <3>4, LlevadaCurso
      <3>6. QED
        BY <3>1, <3>2, <3>3, <3>5 DEF Igual
    <2>2. CASE Recibir(u)
      <3>1. PICK z \in Conexiones :
             /\ z = Actual(u) /\ YaRecibe(z) /\ UNCHANGED muertos
             /\ hebra[u].pc = "recv" /\ hebra'[u].pc = "libre"
             /\ \A v \in Hebras : /\ hebra'[v].abre = AbreTras(v, u, conexion[z])
                                  /\ hebra'[v].n = hebra[v].n
                                  /\ v # u => hebra'[v].pc = hebra[v].pc
             /\ \A y \in Conexiones : Fijo(y)
        BY <2>2, QueRecibir
      <3>2. \A x \in Conexiones : EnCurso(x)' <=> EnCurso(x) /\ x # z
        BY <3>1, CursoRecibir
      <3>3. De(z) = ClienteDe[u] /\ EnCurso(z)
        BY <1>0, <3>1 DEF Actual, EnCurso
      <3>4. e = AbreTras(t, u, conexion[z])
        BY <3>1
      <3>5. CASE /\ conexion[z].op = "rename" /\ conexion[z].respuesta = "si"
                 /\ ClienteDe[t] = ClienteDe[u]
        <4>1. e = Sigue(hebra[t].abre, conexion[z].dir, conexion[z].nuevo)
          BY <3>4, <3>5 DEF AbreTras
        <4>2. CASE Bajo(hebra[t].abre, conexion[z].dir)
          <5>1. hebra[t].abre \in Dirs
            BY <1>0, <4>2 DEF Bajo, TipoHebra
          <5>2. e = Destino(z, hebra[t].abre)
            BY <1>0, <4>1, <4>2 DEF Sigue, Destino
          <5>3. Llevada(z, hebra[t].abre, ClienteDe[t])
            BY <3>3, <3>5, <4>2 DEF Llevada, Respondida, RespuestaOK, ReplicaOK
          <5>4. Llega(t, e)
            BY <3>1, <3>2, <5>1, <5>2, <5>3 DEF Llega, Fijo, Contestado
          <5>5. QED
            BY <3>1, <5>4
        <4>3. CASE ~Bajo(hebra[t].abre, conexion[z].dir)
          <5>1. hebra[t].abre = e
            BY <1>0, <4>1, <4>3 DEF Sigue
          <5>2. \A x \in Conexiones : Llevada(x, e, ClienteDe[t]) => EnCurso(x)'
            BY <3>2, <4>3, <5>1 DEF Llevada
          <5>3. t = u => conexion[Actual(t)].op # "opendir"
            BY <3>1, <3>5
          <5>4. QED
            BY <3>1, <5>1, <5>2, <5>3 DEF Igual
        <4>4. QED
          BY <4>2, <4>3
      <3>6. CASE ~(/\ conexion[z].op = "rename" /\ conexion[z].respuesta = "si"
                   /\ ClienteDe[t] = ClienteDe[u])
        <4>1. /\ hebra[t].abre = e
              /\ t = u => conexion[z].op # "opendir" \/ conexion[z].respuesta = "si"
          BY <1>0, <3>4, <3>6 DEF AbreTras
        <4>2. ~Llevada(z, e, ClienteDe[t])
          <5> SUFFICES ASSUME Llevada(z, e, ClienteDe[t]) PROVE FALSE
            OBVIOUS
          <5>1. conexion[z].op = "rename" /\ Respondida(z, "si") /\ ClienteDe[t] = ClienteDe[u]
            BY <3>3 DEF Llevada
          <5>2. conexion[z].respuesta = "si"
            BY <3>1, <5>1, RecibeSi
          <5>3. QED
            BY <3>6, <5>1, <5>2
        <4>3. \A x \in Conexiones : Llevada(x, e, ClienteDe[t]) => EnCurso(x)'
          BY <3>2, <4>2 DEF Llevada
        <4>4. QED
          BY <3>1, <4>1, <4>3 DEF Igual
      <3>7. QED
        BY <3>5, <3>6
    <2>3. QED
      BY <1>5, <2>1, <2>2 DEF PasoHebra
  <1>6. ASSUME NEW c \in Clientes, Morir(c) PROVE Meta
    <2>1. /\ muertos' = muertos \cup {c}
          /\ ClienteDe[t] = c => hebra'[t].abre = Nadie
          /\ ClienteDe[t] # c => hebra'[t] = hebra[t]
          /\ \A v \in Hebras : /\ ClienteDe[v] = c => hebra'[v].pc = "libre"
                               /\ ClienteDe[v] # c => hebra'[v] = hebra[v]
      BY <1>6, QueMorir
    <2>2. ClienteDe[t] # c /\ hebra'[t] = hebra[t]
      BY <1>0, <2>1
    <2>3. \A x \in Conexiones : Llevada(x, e, ClienteDe[t]) => EnCurso(x)'
      BY <1>0, <2>1, <2>2 DEF Llevada, EnCurso
    <2>4. QED
      BY <2>1, <2>2, <2>3 DEF Igual
  <1>7. QED
    BY <1>2, <1>3, <1>4, <1>5, <1>6 DEF Next

\* Two moves under way of one process have nothing to do with one another.
LEMMA MudanzaSola ==
  ASSUME CursoOK, DirOK, NEW x \in Conexiones, NEW y \in Conexiones, x # y,
         EnCurso(x), EnCurso(y), Empezada(x), Empezada(y), De(x) = De(y),
         conexion[x].op = "rename", conexion[y].op = "rename", NEW m \in Dirs,
         Bajo(m, conexion[y].dir),
         Bajo(m, conexion[x].dir) \/ Bajo(m, conexion[x].nuevo)
  PROVE  FALSE
  <1>1. /\ conexion[x].dir \in Dirs /\ conexion[x].nuevo \in Dirs /\ conexion[y].dir \in Dirs
        /\ Nadie \notin Dirs
    BY Constantes DEF DirOK
  <1>2. PICK d \in {conexion[x].dir, conexion[x].nuevo} : Bajo(m, d)
    OBVIOUS
  <1>3. d \in Dirs /\ d \in Caminos(conexion[x]) /\ conexion[y].dir \in Caminos(conexion[y])
    BY <1>1 DEF Caminos
  <1>4. Bajo(d, conexion[y].dir) \/ Bajo(conexion[y].dir, d)
    BY <1>1, <1>2, <1>3, CaminosDe
  <1>5. Excluye(conexion[x], conexion[y]) \/ Excluye(conexion[y], conexion[x])
    BY <1>3, <1>4 DEF Excluye, Quita
  <1>6. QED
    BY <1>5 DEF CursoOK

LEMMA AbrePaso ==
  ASSUME Inductivo, FuturoOK, OrdenOK, RespuestaOK, RespuestaLlega, AbreOK, LlevadaOK,
         CursoOK, DirOK, [Next]_vars
  PROVE  AbreOK'
  <1> DEFINE Meta(t, e) ==
         /\ ClienteDe[t] \notin muertos'
         /\ \/ Firme(e, ClienteDe[t])'
            \/ hebra'[t].pc # "libre" /\ \E x \in Conexiones : x = Actual(t)' /\ AbreCon(x, e)'
            \/ \E x \in Conexiones : Llevada(x, e, ClienteDe[t])'
  <1> SUFFICES ASSUME ~caido', NEW t \in Hebras, NEW e \in Dirs, hebra'[t].abre = e
               PROVE  Meta(t, e)
    BY DEF AbreOK
  <1>0. ~caido
    BY CaidoSigue
  <1>1. ASSUME ~ \E u \in Hebras, p \in Operaciones : Llamar(u, p) PROVE Meta(t, e)
    <2>a. ClienteDe[t] \notin muertos
      <3>1. CASE hebra[t].abre \in Dirs
        BY <1>0, <3>1 DEF AbreOK
      <3>2. CASE hebra[t].abre \notin Dirs
        <4>1. hebra'[t].abre # hebra[t].abre
          BY <3>2
        <4>2. QED
          BY <1>1, <3>2, <4>1, AbreVacio
      <3>3. QED
        BY <3>1, <3>2
    <2>1. /\ ClienteDe[t] \notin muertos' /\ hebra'[t].n = hebra[t].n
          /\ Igual(t, e) \/ Llega(t, e)
      BY <1>0, <1>1, <2>a, AbreSigue
    <2>2. CASE Llega(t, e)
      <3>1. PICK x \in Conexiones, d \in Dirs :
              /\ hebra[t].abre = d /\ Llevada(x, d, ClienteDe[t]) /\ e = Destino(x, d)
              /\ \A y \in Conexiones : conexion'[y].atendida = conexion[y].atendida
        BY <2>2 DEF Llega
      <3>2. Firme(e, ClienteDe[t])
        BY <1>0, <3>1 DEF LlevadaOK
      <3>3. Firme(e, ClienteDe[t])'
        BY <1>1, <3>1, <3>2, FirmeSigue DEF Mudando, Pendiendo
      <3>4. QED
        BY <2>1, <3>3
    <2>3. ASSUME Igual(t, e), Firme(e, ClienteDe[t]) PROVE Meta(t, e)
      <3>1. CASE Firme(e, ClienteDe[t])'
        BY <2>1, <3>1
      <3>2. CASE ~Firme(e, ClienteDe[t])'
        <4>1. PICK y \in Conexiones, h \in Hilos :
                /\ Atiende(h, y) /\ Mudando(y, e, ClienteDe[t])
                /\ conexion'[y].atendida /\ Responde(h, y, "si")'
          BY <1>1, <2>3, <3>2, FirmeSigue
        <4>2. EnCurso(y)
          BY <1>0, <2>a, <4>1, SinVolver DEF Mudando, Pendiendo
        <4>3. EnCurso(y)'
          BY <4>1, <4>2 DEF Atiende, Ajeno, EnCurso
        <4>4. Llevada(y, e, ClienteDe[t])'
          BY <1>1, <4>1, <4>3, QueSigue DEF Llevada, Mudando, Pendiendo, Respondida
        <4>5. QED
          BY <2>1, <4>4
      <3>3. QED
        BY <3>1, <3>2
    <2>4. ASSUME Igual(t, e), hebra[t].pc # "libre",
                 NEW x \in Conexiones, x = Actual(t), AbreCon(x, e)
          PROVE  Meta(t, e)
      <3>1. x = Actual(t)' /\ De(x) = ClienteDe[t]
        BY <2>1, <2>4 DEF Actual, De
      <3>2. conexion[x].op = "opendir" /\ conexion[x].respuesta # "si"
        BY <2>4 DEF AbreCon, RespuestaOK, ReplicaOK, Respondida
      <3>3. hebra'[t].pc # "libre"
        BY <2>4, <3>2 DEF Igual
      <3>4. AbreCon(x, e)' \/ Firme(e, De(x))'
        BY <1>1, <2>4, AbreConSigue
      <3>5. QED
        BY <2>1, <3>1, <3>3, <3>4
    <2>5. ASSUME Igual(t, e), NEW x \in Conexiones, Llevada(x, e, ClienteDe[t])
          PROVE  Meta(t, e)
      <3>1. EnCurso(x)'
        BY <2>5 DEF Igual
      <3>2. Respondida(x, "si")'
        BY <1>1, <2>5, AfirmadaSigue DEF Llevada
      <3>3. Llevada(x, e, ClienteDe[t])'
        BY <1>1, <2>5, <3>1, <3>2, QueSigue DEF Llevada
      <3>4. QED
        BY <2>1, <3>3
    <2>6. QED
      BY <1>0, <2>1, <2>2, <2>3, <2>4, <2>5 DEF AbreOK, Igual
  <1>2. ASSUME NEW u \in Hebras, NEW p \in Operaciones, Llamar(u, p) PROVE Meta(t, e)
    <2>1. PICK z \in Conexiones : Llama(u, p, z)
      BY <1>2, QueLlamar
    <2>2. /\ z = <<u, hebra[u].n + 1>> /\ z[1] = u /\ ~Empezada(z) /\ hebra[u].pc = "libre"
          /\ UNCHANGED <<hilo, muertos>> /\ \A y \in Conexiones : y # z => conexion'[y] = conexion[y]
          /\ conexion'[z].op = p.op /\ conexion'[z].dir = p.dir /\ conexion'[z].atendida = FALSE
          /\ hebra'[u].pc = "connect" /\ hebra'[u].n = hebra[u].n + 1
          /\ \A v \in Hebras : v # u => hebra'[v].pc = hebra[v].pc /\ hebra'[v].n = hebra[v].n
          /\ ClienteDe[u] \notin muertos
      BY <2>1 DEF Llama
    <2>3. hebra'[t].abre = IF t = u /\ p.op = "opendir" THEN p.dir
                           ELSE IF /\ p.op = "rmdir" /\ ClienteDe[t] = ClienteDe[u]
                                   /\ Bajo(hebra[t].abre, p.dir)
                           THEN Nadie ELSE hebra[t].abre
      BY <2>1 DEF Llama
    <2>4. e # Nadie
      BY Constantes
    <2>5. \A y \in Conexiones :
            /\ Empezada(y)' <=> Empezada(y) \/ y = z
            /\ Pendiente(y) => Antes(y, z)'
            /\ \A w \in Conexiones : Antes(y, w) => Antes(y, w)'
      BY <2>1, AvanceLlamar
    <2>6. CASE t = u /\ p.op = "opendir"
      <3>1. p.dir = e /\ z = Actual(t)' /\ De(z) = ClienteDe[t]
        BY <2>2, <2>3, <2>6 DEF Actual, De
      <3>2. ASSUME NEW y \in Conexiones, Borrando(y, e, De(z))' PROVE Antes(y, z)'
        <4>1. y # z
          BY <2>2, <2>6, <3>2 DEF Borrando
        <4>2. Borrando(y, e, De(z))
          BY <2>2, <2>5, <3>2, <4>1 DEF Borrando, Pendiendo
        <4>3. Pendiente(y)
          BY <4>2 DEF Borrando, Pendiendo, OrdenOK
        <4>4. QED
          BY <2>5, <4>3
      <3>3. AbreCon(z, e)'
        BY <2>2, <2>6, <3>1, <3>2 DEF AbreCon
      <3>4. QED
        BY <2>2, <2>6, <3>1, <3>3
    <2>7. CASE ~(t = u /\ p.op = "opendir")
      <3>1. /\ hebra[t].abre = e
            /\ ~(p.op = "rmdir" /\ Bajo(e, p.dir) /\ ClienteDe[t] = ClienteDe[u])
        BY <2>3, <2>4, <2>7
      <3>2. ClienteDe[t] \notin muertos'
        BY <1>0, <2>2, <3>1 DEF AbreOK
      <3>3. ASSUME Firme(e, ClienteDe[t]) PROVE Firme(e, ClienteDe[t])'
        BY <2>1, <3>1, <3>3, FirmeLlamar
      <3>4. ASSUME hebra[t].pc # "libre", NEW x \in Conexiones, x = Actual(t), AbreCon(x, e)
            PROVE  hebra'[t].pc # "libre" /\ x = Actual(t)' /\ AbreCon(x, e)'
        <4>1. t # u
          BY <2>2, <3>4
        <4>2. x = Actual(t)' /\ De(x) = ClienteDe[t] /\ hebra'[t].pc # "libre"
          BY <2>2, <3>4, <4>1 DEF Actual, De
        <4>3. Empezada(x)
          BY <3>4, ActualEmpezada
        <4>4. x # z /\ conexion'[x] = conexion[x]
          BY <2>2, <4>3
        <4>5. ASSUME NEW y \in Conexiones, Borrando(y, e, De(x))'
              PROVE  Borrando(y, e, De(x))
          <5>1. y # z
            BY <2>2, <3>1, <4>2, <4>5 DEF Borrando, Pendiendo, De
          <5>2. QED
            BY <2>2, <2>5, <4>5, <5>1 DEF Borrando, Pendiendo
        <4>6. ~Respondida(x, "si") => ~Respondida(x, "si")'
          BY <2>2, <4>4 DEF Respondida, Responde
        <4>7. QED
          BY <2>2, <2>5, <3>4, <4>2, <4>4, <4>5, <4>6 DEF AbreCon
      <3>5. ASSUME NEW x \in Conexiones, Llevada(x, e, ClienteDe[t])
            PROVE  Llevada(x, e, ClienteDe[t])'
        BY <2>1, <3>5, LlevadaLlamar
      <3>6. QED
        BY <1>0, <3>1, <3>2, <3>3, <3>4, <3>5 DEF AbreOK
    <2>8. QED
      BY <2>6, <2>7
  <1>3. QED
    BY <1>1, <1>2

\* What a move takes along is where it was moved to, if it was there.
LEMMA AlMudar ==
  ASSUME Inductivo, FuturoOK, OrdenOK, DirOK, ExcluyeOK, [Next]_vars,
         ~ \E u \in Hebras, p \in Operaciones : Llamar(u, p),
         NEW h \in Hilos, NEW x \in Conexiones, Atiende(h, x), Responde(h, x, "si")',
         ~conexion[x].atendida, conexion'[x].atendida,
         NEW e \in Dirs, NEW c, De(x) = c, conexion[x].op = "rename",
         Bajo(e, conexion[x].dir), Destino(x, e) \in Dirs, Firme(e, c)
  PROVE  Firme(Destino(x, e), c)'
  <1>1. /\ hilo[h].pc = "recv" /\ Encargo(h) = x
    BY DEF Atiende
  <1>2. Empezada(x) /\ ~Perdido /\ ~EnCola(x) /\ \A y : ~Antes(y, x)
    <2>1. Empezada(x) /\ ~Perdido /\ ~EnCola(x)
      BY <1>1, SoloUno
    <2>2. QED
      BY <2>1 DEF Antes, Precede, EnCola
  <1>3. PICK d \in Dirs, a \in Dirs, m \in Dirs :
          d = conexion[x].dir /\ a = conexion[x].nuevo /\ m = Destino(x, e)
    BY <1>2 DEF DirOK
  <1>4. /\ ~Bajo(d, a) /\ ~Bajo(a, d) /\ m = Mudado(e, d, a) /\ Bajo(e, d)
    BY <1>2, <1>3 DEF DirOK, Destino
  <1>5. Mudado(m, a, d) = e /\ Bajo(m, a) /\ ~Bajo(m, d)
    BY <1>4, CaminosDe
  <1>6. conexion'[x].op = "rename" /\ conexion'[x].nuevo = a
    BY <1>3, QueSigue
  <1>a. Destino(x, e)' = m
    BY <1>3, QueSigue DEF Destino
  <1>7. CASE DeOtro(e, c)
    <2>1. PICK y \in Conexiones : conexion[y].op \in Quita /\ conexion[y].atendida /\ De(y) # c
      BY <1>7 DEF DeOtro
    <2>2. Renombro(c, m)'
      BY <1>5, <1>6 DEF Renombro
    <2>3. DeOtro(m, c)'
      BY <2>1, <2>2, QueSigue DEF DeOtro
    <2>4. QED
      BY <1>a, <2>3 DEF Firme
  <1>8. CASE directorios[e] # "no" /\ \A y \in Conexiones : ~Borrando(y, e, c)
    <2>1. PICK ef \in Efectos(directorios, conexion[x]) :
            /\ hilo'[h].resp = ef[2]
            /\ directorios' = ef[1]
      BY DEF Atiende, Derriba
    <2>2. ef[2] = "si" /\ directorios \in [Dirs -> Estados]
      BY <2>1, Tipos DEF Responde, Inductivo, IInv
    <2>3. directorios'[m] # "no"
      BY <1>3, <1>5, <1>8, <2>1, <2>2, EfectoRenombrar
    <2>4. ASSUME NEW y \in Conexiones, Borrando(y, m, c)' PROVE FALSE
      <3>1. Borrando(y, m, c)
        BY <2>4, QueSigue DEF Borrando, Pendiendo
      <3>2. conexion[y].dir \in Dirs /\ Bajo(m, conexion[y].dir)
        BY <3>1 DEF Borrando, Pendiendo, DirOK
      <3>3. Bajo(conexion[y].dir, a) \/ Bajo(a, conexion[y].dir)
        BY <1>5, <3>2, CaminosDe
      <3>4. Antes(y, x)
        BY <1>2, <1>3, <3>1, <3>3 DEF ExcluyeOK, Borrando, Pendiendo
      <3>5. QED
        BY <1>2, <3>4
    <2>5. QED
      BY <1>a, <2>3, <2>4 DEF Firme
  <1>9. QED
    BY <1>7, <1>8 DEF Firme

LEMMA LlevadaPaso ==
  ASSUME Inductivo, FuturoOK, OrdenOK, RespuestaOK, RespuestaLlega, AbreOK, LlevadaOK,
         CursoOK, DirOK, ExcluyeOK, [Next]_vars
  PROVE  LlevadaOK'
  <1> SUFFICES ASSUME ~caido', NEW t \in Hebras, NEW e \in Dirs, NEW x \in Conexiones,
                      hebra'[t].abre = e, Llevada(x, e, ClienteDe[t])', Destino(x, e)' \in Dirs
               PROVE  Firme(Destino(x, e), ClienteDe[t])'
    BY DEF LlevadaOK
  <1>0. ~caido
    BY CaidoSigue
  <1>1. CASE ~ \E u \in Hebras, p \in Operaciones : Llamar(u, p)
    <2>1. /\ EnCurso(x) /\ De(x) = ClienteDe[t] /\ conexion[x].op = "rename"
          /\ conexion'[x].atendida
          /\ Bajo(e, conexion[x].dir) /\ Destino(x, e)' = Destino(x, e) /\ Destino(x, e) \in Dirs
          /\ Empezada(x) /\ EnCurso(x)' /\ Respondida(x, "si")'
      <3>1. EnCurso(x) /\ EnCurso(x)'
        BY <1>1, CursoSigue DEF Llevada
      <3>2. Empezada(x)
        BY <3>1, ConexionDe DEF EnCurso, Empezada
      <3>3. QED
        BY <1>1, <3>1, <3>2, QueSigue DEF Llevada, Destino
    <2>2. PICK m \in Dirs : m = Destino(x, e)
      BY <2>1
    <2>c. Destino(x, e)' = m
      BY <2>1, <2>2
    <2>3. Bajo(m, conexion[x].nuevo)
      BY <2>1, <2>2, CaminosDe DEF Destino, DirOK
    <2>a. ClienteDe[t] \notin muertos
      <3>1. hebra[t].abre \in Dirs
        BY <1>1, AbreVacio
      <3>2. QED
        BY <1>0, <3>1 DEF AbreOK
    <2>b. Igual(t, e) \/ Llega(t, e)
      BY <1>0, <1>1, <2>a, AbreSigue
    <2>4. CASE Llega(t, e)
      <3>1. PICK y \in Conexiones, d \in Dirs :
              /\ Llevada(y, d, ClienteDe[t]) /\ e = Destino(y, d) /\ ~EnCurso(y)'
        BY <2>4 DEF Llega
      <3>2. Empezada(y)
        BY <3>1, ConexionDe DEF Llevada, EnCurso, Empezada
      <3>3. Bajo(e, conexion[y].nuevo)
        BY <3>1, <3>2, CaminosDe DEF Llevada, Destino, DirOK
      <3>4. QED
        BY <2>1, <3>1, <3>2, <3>3, MudanzaSola DEF Llevada
    <2>5. CASE Igual(t, e) /\ conexion[x].atendida
      <3>1. Respondida(x, "si")
        BY <1>1, <2>1, <2>5, NegadaSigue
      <3>2. Firme(m, ClienteDe[t])
        BY <1>0, <2>1, <2>2, <2>5, <3>1 DEF LlevadaOK, Igual, Llevada
      <3>3. CASE Firme(m, ClienteDe[t])'
        BY <2>c, <3>3 DEF Firme
      <3>4. CASE ~Firme(m, ClienteDe[t])'
        <4>1. PICK y \in Conexiones : Mudando(y, m, ClienteDe[t])
          BY <1>1, <3>2, <3>4, FirmeSigue
        <4>2. EnCurso(y) /\ y # x
          BY <1>0, <2>5, <2>a, <4>1, SinVolver DEF Mudando, Pendiendo
        <4>3. QED
          BY <2>1, <2>3, <4>1, <4>2, MudanzaSola DEF Mudando, Pendiendo
      <3>5. QED
        BY <3>3, <3>4
    <2>6. CASE Igual(t, e) /\ ~conexion[x].atendida
      <3>1. PICK h \in Hilos : Atiende(h, x)
        BY <1>1, <2>1, <2>6, QuienAtiende
      <3>2. Responde(h, x, "si")'
        <4>1. conexion[x].respuesta # "si"
          BY <2>6 DEF RespuestaOK, ReplicaOK
        <4>2. /\ conexion'[x].respuesta = conexion[x].respuesta /\ hilo[h].pc = "recv"
              /\ \A g \in Hilos : g # h => hilo'[g] = hilo[g]
          BY <3>1 DEF Atiende
        <4>3. \A g \in Hilos : g # h => hilo[g].pc = "libre"
          BY <4>2, SoloUno
        <4>4. QED
          BY <2>1, <4>1, <4>2, <4>3 DEF Respondida, Responde
      <3>3. CASE Firme(e, ClienteDe[t])
        <4>1. Firme(Destino(x, e), ClienteDe[t])'
          BY <1>1, <2>1, <2>6, <3>1, <3>2, <3>3, AlMudar
        <4>2. QED
          BY <4>1
      <3>4. ASSUME NEW w \in Conexiones, hebra[t].pc # "libre", w = Actual(t), AbreCon(w, e)
            PROVE  FALSE
        <4>1. EnCurso(w) /\ De(w) = ClienteDe[t] /\ w # x
          BY <2>1, <3>4 DEF EnCurso, Actual, De, AbreCon
        <4>2. Excluye(conexion[x], conexion[w])
          BY <2>1, <3>4, Constantes DEF Excluye, Quita, Caminos, AbreCon, DirOK
        <4>3. QED
          BY <2>1, <4>1, <4>2 DEF CursoOK
      <3>5. ASSUME NEW y \in Conexiones, Llevada(y, e, ClienteDe[t]) PROVE FALSE
        <4>1. Empezada(y) /\ y # x
          BY <2>6, <3>5, ConexionDe DEF Llevada, EnCurso, Empezada
        <4>2. QED
          BY <2>1, <3>5, <4>1, MudanzaSola DEF Llevada
      <3>6. QED
        BY <1>0, <2>6, <3>3, <3>4, <3>5 DEF AbreOK, Igual
    <2>7. QED
      BY <2>b, <2>4, <2>5, <2>6
  <1>2. ASSUME NEW u \in Hebras, NEW p \in Operaciones, Llamar(u, p)
        PROVE  Firme(Destino(x, e), ClienteDe[t])'
    <2>1. PICK z \in Conexiones : Llama(u, p, z)
      BY <1>2, QueLlamar
    <2>2. Llevada(x, e, ClienteDe[t])
      BY <2>1, LlevadaLlamar
    <2>3. /\ conexion'[z].atendida = FALSE /\ Permitido(u, p)
          /\ \A y \in Conexiones : y # z => conexion'[y] = conexion[y]
          /\ hebra'[t].abre = IF t = u /\ p.op = "opendir" THEN p.dir
                              ELSE IF /\ p.op = "rmdir" /\ ClienteDe[t] = ClienteDe[u]
                                      /\ Bajo(hebra[t].abre, p.dir)
                              THEN Nadie ELSE hebra[t].abre
      BY <2>1 DEF Llama
    <2>4. x # z /\ Destino(x, e)' = Destino(x, e)
      BY <2>3 DEF Llevada, Destino
    <2>5. Empezada(x) /\ x[1] \in Hebras /\ x = Actual(x[1]) /\ hebra[x[1]].pc # "libre"
          /\ De(x) = ClienteDe[x[1]] /\ De(x) = ClienteDe[t]
      BY <2>2, ConexionDe DEF Llevada, EnCurso, Empezada, Actual, De
    <2>6. PICK m \in Dirs : m = Destino(x, e)
      BY <2>4
    <2>7. /\ conexion[x].dir \in Dirs /\ conexion[x].nuevo \in Dirs /\ p.dir \in Dirs
          /\ Bajo(m, conexion[x].nuevo) /\ Bajo(e, conexion[x].dir) /\ Nadie \notin Dirs
      BY <2>2, <2>5, <2>6, CaminosDe, Constantes DEF Llevada, DirOK, Destino
    <2>8. ClienteDe[u] = ClienteDe[t] => ~Excluye(p, conexion[x]) /\ ~Excluye(conexion[x], p)
      BY <2>3, <2>5 DEF Permitido, HebrasDe
    <2>9. CASE t = u /\ p.op = "opendir"
      <3>1. Excluye(conexion[x], p)
        BY <2>2, <2>3, <2>7, <2>9 DEF Excluye, Quita, Caminos, Llevada
      <3>2. QED
        BY <2>8, <2>9, <3>1
    <2>10. CASE ~(t = u /\ p.op = "opendir")
      <3>1. hebra[t].abre = e
        BY <2>3, <2>7, <2>10
      <3>2. Firme(m, ClienteDe[t])
        BY <1>0, <2>2, <2>6, <3>1 DEF LlevadaOK
      <3>3. ~(p.op = "rmdir" /\ Bajo(m, p.dir) /\ ClienteDe[t] = ClienteDe[u])
        <4> SUFFICES ASSUME p.op = "rmdir", Bajo(m, p.dir), ClienteDe[t] = ClienteDe[u]
                     PROVE  FALSE
          OBVIOUS
        <4>1. Bajo(p.dir, conexion[x].nuevo) \/ Bajo(conexion[x].nuevo, p.dir)
          BY <2>7, CaminosDe
        <4>2. p.dir \in Caminos(p) /\ conexion[x].nuevo \in Caminos(conexion[x])
          BY <2>7 DEF Caminos
        <4>3. Excluye(p, conexion[x]) \/ Excluye(conexion[x], p)
          BY <2>2, <4>1, <4>2 DEF Excluye, Quita, Llevada
        <4>4. QED
          BY <2>8, <4>3
      <3>4. Firme(m, ClienteDe[t])'
        BY <2>1, <3>2, <3>3, FirmeLlamar
      <3>5. Destino(x, e)' = m
        BY <2>4, <2>6
      <3>6. QED
        BY <3>4, <3>5 DEF Firme
    <2>11. QED
      BY <2>9, <2>10
  <1>3. QED
    BY <1>1, <1>2

LEMMA LecturaPaso ==
  ASSUME Inductivo, FuturoOK, OrdenOK, RespuestaLlega, AbreOK, LecturaOK, DirOK, CursoOK,
         ExcluyeOK, [Next]_vars
  PROVE  LecturaOK'
  <1> SUFFICES ASSUME ~caido', NEW x \in Conexiones, NEW e \in Dirs, Empezada(x)',
                      conexion'[x].op = "readdir", ~conexion'[x].atendida,
                      conexion'[x].dir = e
               PROVE  Firme(e, De(x))'
    BY DEF LecturaOK, De
  <1>0. ~caido
    BY CaidoSigue
  <1>1. CASE ~ \E u \in Hebras, p \in Operaciones : Llamar(u, p)
    <2>1. Empezada(x) /\ conexion[x].op = "readdir" /\ ~conexion[x].atendida /\ conexion[x].dir = e
      BY <1>1, QueSigue
    <2>2. Firme(e, De(x))
      BY <1>0, <2>1 DEF LecturaOK
    <2>3. \A y \in Conexiones : ~Mudando(y, e, De(x))
      BY <2>1 DEF Mudando, Pendiendo, ExcluyeOK
    <2>4. QED
      BY <1>1, <2>2, <2>3, FirmeSigue
  <1>2. ASSUME NEW u \in Hebras, NEW p \in Operaciones, Llamar(u, p)
        PROVE  Firme(e, De(x))'
    <2>1. PICK z \in Conexiones : Llama(u, p, z)
      BY <1>2, QueLlamar
    <2>2. /\ z[1] = u /\ ~Empezada(z) /\ hebra[u].pc = "libre"
          /\ \A y \in Conexiones : y # z => conexion'[y] = conexion[y]
          /\ conexion'[z].op = p.op /\ conexion'[z].dir = p.dir
          /\ ~caido /\ ClienteDe[u] \notin muertos /\ Permitido(u, p)
      BY <2>1 DEF Llama
    <2>3. Empezada(x)' <=> Empezada(x) \/ x = z
      BY <2>1, AvanceLlamar
    <2>4. CASE x = z
      <3>1. p.op = "readdir" /\ p.dir = e /\ De(x) = ClienteDe[u] /\ hebra[u].abre = e
        BY <2>2, <2>4 DEF De, Permitido
      <3>2. ASSUME NEW y \in Conexiones, Llevada(y, e, ClienteDe[u]) PROVE FALSE
        <4>1. y[1] \in HebrasDe(ClienteDe[u]) /\ y = Actual(y[1]) /\ hebra[y[1]].pc # "libre"
          BY <3>2, ConexionDe DEF Llevada, EnCurso, HebrasDe, De, Actual
        <4>2. Empezada(y)
          BY <3>2, ConexionDe DEF Llevada, EnCurso, Empezada
        <4>3. Excluye(conexion[y], p)
          BY <3>1, <3>2, <4>2, Constantes DEF Llevada, Excluye, Quita, Caminos, DirOK
        <4>4. QED
          BY <2>2, <4>1, <4>3 DEF Permitido
      <3>3. Firme(e, De(x))
        BY <2>2, <3>1, <3>2 DEF AbreOK
      <3>4. QED
        BY <2>1, <3>1, <3>3, FirmeLlamar
    <2>5. CASE x # z
      <3>1. Empezada(x) /\ conexion[x].op = "readdir" /\ ~conexion[x].atendida /\ conexion[x].dir = e
        BY <2>2, <2>3, <2>5
      <3>2. Firme(e, De(x))
        BY <1>0, <3>1 DEF LecturaOK
      <3>3. ~(p.op = "rmdir" /\ Bajo(e, p.dir) /\ De(x) = ClienteDe[u])
        <4> SUFFICES ASSUME p.op = "rmdir", Bajo(e, p.dir), De(x) = ClienteDe[u] PROVE FALSE
          OBVIOUS
        <4>1. /\ x[1] \in HebrasDe(ClienteDe[u]) /\ x = Actual(x[1]) /\ hebra[x[1]].pc # "libre"
          BY <2>2, <3>1, SinVolver DEF HebrasDe
        <4>2. Excluye(p, conexion[x])
          BY <3>1, Constantes DEF Excluye, Quita, Caminos
        <4>3. QED
          BY <2>2, <4>1, <4>2 DEF Permitido
      <3>4. QED
        BY <2>1, <3>2, <3>3, FirmeLlamar
    <2>6. QED
      BY <2>4, <2>5
  <1>3. QED
    BY <1>1, <1>2

LEMMA DirPaso ==
  ASSUME Inductivo, DirOK, [Next]_vars
  PROVE  DirOK'
  <1>1. CASE ~ \E u \in Hebras, p \in Operaciones : Llamar(u, p)
    BY <1>1, QueSigue DEF DirOK
  <1>2. ASSUME NEW u \in Hebras, NEW p \in Operaciones, Llamar(u, p)
        PROVE  DirOK'
    <2>1. PICK z \in Conexiones : Llama(u, p, z)
      BY <1>2, QueLlamar
    <2>2. /\ conexion'[z].dir = p.dir /\ conexion'[z].nuevo = p.nuevo /\ conexion'[z].op = p.op
          /\ \A y \in Conexiones : y # z => conexion'[y] = conexion[y]
          /\ p.op = "rename" => ~Bajo(p.dir, p.nuevo) /\ ~Bajo(p.nuevo, p.dir)
      BY <2>1 DEF Llama, Permitido
    <2>3. /\ p.dir \in Dirs
          /\ p.op = "rename" => p.nuevo \in Dirs
      BY Constantes
    <2>4. \A y \in Conexiones : Empezada(y)' <=> Empezada(y) \/ y = z
      BY <2>1, AvanceLlamar
    <2>5. QED
      BY <2>2, <2>3, <2>4 DEF DirOK
  <1>3. QED
    BY <1>1, <1>2

LEMMA CursoPaso ==
  ASSUME Inductivo, CursoOK, [Next]_vars
  PROVE  CursoOK'
  <1> SUFFICES ASSUME NEW x \in Conexiones, NEW y \in Conexiones,
                      EnCurso(x)', EnCurso(y)', x # y, De(x) = De(y)
               PROVE  ~Excluye(conexion'[x], conexion'[y])
    BY DEF CursoOK, De
  <1>1. CASE ~ \E u \in Hebras, p \in Operaciones : Llamar(u, p)
    <2>1. EnCurso(x) /\ EnCurso(y)
      BY <1>1, CursoSigue
    <2>2. \A z \in Conexiones : /\ conexion'[z].op = conexion[z].op
                                /\ Caminos(conexion'[z]) = Caminos(conexion[z])
      BY <1>1, QueSigue DEF Caminos
    <2>3. QED
      BY <2>1, <2>2 DEF CursoOK, Excluye
  <1>2. ASSUME NEW u \in Hebras, NEW p \in Operaciones, Llamar(u, p)
        PROVE  ~Excluye(conexion'[x], conexion'[y])
    <2>1. PICK z \in Conexiones : Llama(u, p, z)
      BY <1>2, QueLlamar
    <2>2. \A w \in Conexiones : EnCurso(w)' <=> EnCurso(w) \/ w = z
      BY <2>1, CursoLlamar
    <2>3. /\ \A w \in Conexiones : w # z => conexion'[w] = conexion[w]
          /\ conexion'[z].op = p.op /\ Caminos(conexion'[z]) = Caminos(p) /\ z[1] = u
          /\ Permitido(u, p)
      BY <2>1 DEF Llama, Caminos
    <2>4. ASSUME NEW w \in Conexiones, EnCurso(w), De(w) = De(z)
          PROVE  ~Excluye(p, conexion[w]) /\ ~Excluye(conexion[w], p)
      <3>1. w[1] \in HebrasDe(ClienteDe[u]) /\ w = Actual(w[1]) /\ hebra[w[1]].pc # "libre"
        BY <2>3, <2>4, ConexionDe DEF EnCurso, HebrasDe, De, Actual
      <3>2. QED
        BY <2>3, <3>1 DEF Permitido
    <2>5. QED
      BY <2>2, <2>3, <2>4 DEF CursoOK, Excluye
  <1>3. QED
    BY <1>1, <1>2

LEMMA ExcluyePaso ==
  ASSUME Inductivo, FuturoOK, OrdenOK, RespuestaLlega, ExcluyeOK, DirOK, [Next]_vars
  PROVE  ExcluyeOK'
  <1> SUFFICES ASSUME NEW x \in Conexiones, NEW y \in Conexiones,
                      Empezada(x)', Empezada(y)', De(x) = De(y), conexion'[y].op = "rename",
                      ~conexion'[x].atendida, ~conexion'[y].atendida
               PROVE  /\ conexion'[x].op = "readdir" => ~Bajo(conexion'[x].dir, conexion'[y].dir)
                      /\ /\ conexion'[x].op = "rmdir"
                         /\ \/ Bajo(conexion'[x].dir, conexion'[y].nuevo)
                            \/ Bajo(conexion'[y].nuevo, conexion'[x].dir)
                         => Antes(x, y)'
    BY DEF ExcluyeOK, De
  <1>1. CASE ~ \E u \in Hebras, p \in Operaciones : Llamar(u, p)
    <2>1. /\ Empezada(x) /\ Empezada(y) /\ conexion[y].op = "rename"
          /\ ~conexion[x].atendida /\ ~conexion[y].atendida
          /\ conexion'[x].op = conexion[x].op /\ conexion'[x].dir = conexion[x].dir
          /\ conexion'[y].dir = conexion[y].dir /\ conexion'[y].nuevo = conexion[y].nuevo
      BY <1>1, QueSigue
    <2>2. Antes(x, y) => Antes(x, y)'
      BY <1>1, Avance
    <2>3. QED
      BY <2>1, <2>2 DEF ExcluyeOK
  <1>2. ASSUME NEW u \in Hebras, NEW p \in Operaciones, Llamar(u, p)
        PROVE  /\ conexion'[x].op = "readdir" => ~Bajo(conexion'[x].dir, conexion'[y].dir)
               /\ /\ conexion'[x].op = "rmdir"
                  /\ \/ Bajo(conexion'[x].dir, conexion'[y].nuevo)
                     \/ Bajo(conexion'[y].nuevo, conexion'[x].dir)
                  => Antes(x, y)'
    <2>1. PICK z \in Conexiones : Llama(u, p, z)
      BY <1>2, QueLlamar
    <2>2. /\ z[1] = u /\ ~Empezada(z) /\ ~caido /\ ClienteDe[u] \notin muertos /\ Permitido(u, p)
          /\ \A w \in Conexiones : w # z => conexion'[w] = conexion[w]
          /\ conexion'[z].op = p.op /\ conexion'[z].dir = p.dir /\ conexion'[z].nuevo = p.nuevo
      BY <2>1 DEF Llama
    <2>3. /\ \A w \in Conexiones : Empezada(w)' <=> Empezada(w) \/ w = z
          /\ Pendiente(x) => Antes(x, z)'
          /\ Antes(x, y) => Antes(x, y)'
      BY <2>1, AvanceLlamar
    <2>4. /\ p.dir \in Caminos(p)
          /\ p.op = "rename" => p.nuevo \in Caminos(p)
      BY Constantes DEF Caminos
    <2>5. ASSUME NEW w \in Conexiones, De(w) = De(z), Empezada(w), ~conexion[w].atendida,
                 conexion[w].op \notin {"rmdir", "write"}
          PROVE  ~Excluye(p, conexion[w]) /\ ~Excluye(conexion[w], p)
      <3>1. De(w) = ClienteDe[u]
        BY <2>2, <2>5 DEF De
      <3>2. w[1] \in HebrasDe(ClienteDe[u]) /\ w = Actual(w[1]) /\ hebra[w[1]].pc # "libre"
        BY <2>2, <2>5, <3>1, SinVolver DEF HebrasDe
      <3>3. QED
        BY <2>2, <3>2 DEF Permitido
    <2>6. CASE x # z /\ y # z
      BY <2>2, <2>3, <2>6 DEF ExcluyeOK
    <2>7. CASE x = z /\ y # z
      <3>1. Empezada(y) /\ conexion[y].op = "rename" /\ ~conexion[y].atendida
            /\ conexion'[y] = conexion[y]
        BY <2>2, <2>3, <2>7
      <3>2. ~Excluye(p, conexion[y]) /\ ~Excluye(conexion[y], p)
        BY <2>5, <2>7, <3>1
      <3>3. conexion[y].dir \in Caminos(conexion[y]) /\ conexion[y].nuevo \in Caminos(conexion[y])
        BY <3>1, Constantes DEF Caminos, DirOK
      <3>4. QED
        BY <2>2, <2>4, <2>7, <3>1, <3>2, <3>3 DEF Excluye, Quita
    <2>8. CASE y = z /\ x # z
      <3>1. Empezada(x) /\ ~conexion[x].atendida /\ conexion'[x] = conexion[x]
            /\ p.op = "rename" /\ conexion[x].dir \in Dirs
        BY <2>2, <2>3, <2>8 DEF DirOK
      <3>2. ASSUME conexion[x].op = "readdir" PROVE ~Bajo(conexion[x].dir, p.dir)
        <4>1. ~Excluye(p, conexion[x])
          BY <2>5, <2>8, <3>1, <3>2
        <4>2. conexion[x].dir \in Caminos(conexion[x])
          BY <3>1, Constantes DEF Caminos
        <4>3. QED
          BY <2>4, <3>1, <4>1, <4>2 DEF Excluye, Quita
      <3>3. Antes(x, y)'
        BY <2>3, <2>8, <3>1 DEF OrdenOK
      <3>4. QED
        BY <2>2, <2>8, <3>1, <3>2, <3>3
    <2>9. CASE x = z /\ y = z
      BY <2>9
    <2>10. QED
      BY <2>6, <2>7, <2>8, <2>9
  <1>3. QED
    BY <1>1, <1>2

LEMMA CaidaPaso ==
  ASSUME Inductivo, FuturoOK, OrdenOK, DirOK, LecturaOK, CaidaPorOtroCliente, [Next]_vars
  PROVE  CaidaPorOtroCliente'
  <1> SUFFICES ASSUME caido'
               PROVE  \E h \in Hilos, x \in Conexiones : \E e :
                        /\ x = hilo'[h].con /\ conexion'[x].op = "readdir"
                        /\ e = conexion'[x].dir /\ DeOtro(e, De(x))'
    <2>1. Nadie \notin Conexiones
      BY Constantes
    <2>2. QED
      BY <2>1 DEF CaidaPorOtroCliente, DeOtro
  <1>1. CASE caido
    <2>1. PICK h \in Hilos :
            /\ hilo[h].con # Nadie /\ conexion[hilo[h].con].op = "readdir"
            /\ DeOtro(conexion[hilo[h].con].dir, De(hilo[h].con))
      BY <1>1 DEF CaidaPorOtroCliente, DeOtro
    <2>2. ~ \E t \in Hebras, p \in Operaciones : Llamar(t, p)
      BY <1>1 DEF Llamar
    <2>3. UNCHANGED hilo
      <3>1. ASSUME NEW t \in Hebras, PasoHebra(t) PROVE Quieto
        BY <3>1, QueEnviar, QueTomarSockete, QueRecibir DEF PasoHebra
      <3>2. ASSUME NEW c \in Clientes, Morir(c) PROVE Quieto
        BY <3>2, QueMorir
      <3>3. ~ \E g \in Hilos : PasoHilo(g)
        BY <1>1 DEF PasoHilo, Copiar, Abandonar, Atender, Responder, Cerrar, En
      <3>4. ~Aceptar /\ ~TomarTurno /\ ~FallaAccept
        BY <1>1 DEF Aceptar, TomarTurno, FallaAccept
      <3>5. QED
        BY <2>2, <3>1, <3>2, <3>3, <3>4 DEF Next, vars, Quieto
    <2>4. PICK x \in Conexiones : x = hilo[h].con
      <3>1. hilo \in [Hilos -> TipoHilo]
        BY Tipos DEF Inductivo, IInv
      <3>2. QED
        BY <2>1, <3>1 DEF TipoHilo
    <2>5. PICK e : e = conexion[x].dir
      OBVIOUS
    <2>6. DeOtro(e, De(x))
      BY <2>1, <2>4, <2>5
    <2>7. DeOtro(e, De(x))'
      BY <2>6, DeOtroSigue DEF De
    <2>8. conexion'[x].op = "readdir" /\ conexion'[x].dir = e
      BY <2>1, <2>2, <2>4, <2>5, QueSigue
    <2>9. QED
      BY <2>3, <2>4, <2>7, <2>8
  <1>2. CASE ~caido
    <2>1. ASSUME Quieto \/ UNCHANGED caido PROVE FALSE
      BY <1>2, <2>1 DEF Quieto
    <2>2. ~TomarTurno /\ ~FallaAccept /\ ~Aceptar /\ ~UNCHANGED vars
      BY <2>1 DEF TomarTurno, FallaAccept, Aceptar, vars
    <2>3. ASSUME NEW t \in Hebras, PasoHebra(t) PROVE FALSE
      BY <2>1, <2>3, QueEnviar, QueTomarSockete, QueRecibir DEF PasoHebra
    <2>4. ASSUME NEW c \in Clientes, Morir(c) PROVE FALSE
      BY <2>1, <2>4, QueMorir
    <2>5. ASSUME NEW t \in Hebras, NEW p \in Operaciones, Llamar(t, p)
          PROVE  FALSE
      <3>1. PICK x \in Conexiones : Llama(t, p, x)
        BY <2>5, QueLlamar
      <3>2. QED
        BY <2>1, <3>1 DEF Llama
    <2>6. PICK h \in Hilos : PasoHilo(h)
      BY <2>2, <2>3, <2>4, <2>5 DEF Next
    <2>7. ~Copiar(h) /\ ~Abandonar(h) /\ ~Responder(h) /\ ~Cerrar(h)
      BY <2>1, QueCopiar, QueAbandonar, QueResponder, QueCerrar
    <2>8. PICK x \in Conexiones : Atiende(h, x)
      BY <2>6, <2>7, QueAtender DEF PasoHilo
    <2>9. /\ hilo[h].pc = "recv" /\ Encargo(h) = x /\ hilo[h].con = x
          /\ Derriba(conexion[x].op, directorios[conexion[x].dir])
          /\ UNCHANGED <<directorios, hilo, conexion>>
      BY <2>1, <2>8 DEF Atiende
    <2>10. Empezada(x) /\ PorAtender(x)
      BY <2>9, SoloUno DEF PorAtender
    <2>11. ~conexion[x].atendida /\ conexion[x].dir \in Dirs
      BY <2>10 DEF OrdenOK, DirOK
    <2>12. conexion[x].op = "readdir" /\ directorios[conexion[x].dir] = "no"
      BY <2>9 DEF Derriba
    <2>13. PICK e \in Dirs : e = conexion[x].dir
      BY <2>11
    <2>14. DeOtro(e, De(x))
      BY <1>2, <2>10, <2>11, <2>12, <2>13 DEF LecturaOK, Firme
    <2>15. DeOtro(e, De(x))'
      BY <2>14, DeOtroSigue DEF De
    <2>16. QED
      BY <2>9, <2>12, <2>13, <2>15
  <1>3. QED
    BY <1>1, <1>2

LEMMA CaidaInicial ==
  Init => AbreOK /\ LlevadaOK /\ LecturaOK /\ DirOK /\ CursoOK /\ ExcluyeOK /\ CaidaPorOtroCliente
  <1> SUFFICES ASSUME Init
               PROVE  /\ AbreOK /\ LlevadaOK /\ LecturaOK /\ DirOK /\ CursoOK /\ ExcluyeOK
                      /\ CaidaPorOtroCliente
    OBVIOUS
  <1>1. caido = FALSE /\ muertos = {}
    BY Zenon DEF Init
  <1>2. PICK abre \in {d \in Dirs : directorios[d] # "no"} \cup
                  (IF \A d \in Dirs : directorios[d] = "no" THEN {Nadie} ELSE {}) :
          hebra = [t \in Hebras |-> [pc |-> "libre", n |-> 0, abre |-> abre]]
    BY Zenon DEF Init
  <1>3. \A x \in Conexiones : ~Empezada(x) /\ ~EnCurso(x)
    BY <1>2, ConexionDe, Constantes DEF Empezada, EnCurso, Conexiones
  <1>4. AbreOK
    <2> SUFFICES ASSUME NEW t \in Hebras, NEW e \in Dirs, hebra[t].abre = e
                 PROVE  ClienteDe[t] \notin muertos /\ Firme(e, ClienteDe[t])
      BY DEF AbreOK
    <2>1. e = abre /\ e # Nadie
      BY <1>2, Constantes
    <2>2. directorios[e] # "no"
      BY <1>2, <2>1
    <2>3. QED
      BY <1>1, <1>3, <2>2 DEF Firme, Borrando, Pendiendo
  <1>5. LlevadaOK
    BY <1>3 DEF LlevadaOK, Llevada
  <1>6. LecturaOK /\ DirOK
    BY <1>3 DEF LecturaOK, DirOK
  <1>7. CursoOK /\ ExcluyeOK
    BY <1>3 DEF CursoOK, ExcluyeOK
  <1>8. CaidaPorOtroCliente
    BY <1>1 DEF CaidaPorOtroCliente
  <1>9. QED
    BY <1>4, <1>5, <1>6, <1>7, <1>8

\* A listing brings the server down only when another process of sac-cli removed or
\* moved a directory: the one that is listed or one above it, or the place where the
\* process that lists had moved it from.  FUSE keeps a process from listing what it
\* removed or moved itself.
THEOREM SoloCaePorOtroCliente == Spec => []CaidaPorOtroCliente
  <1> DEFINE Base == Inductivo /\ FuturoOK /\ OrdenOK /\ RespuestaOK /\ RespuestaLlega
             Todo == /\ AbreOK /\ LlevadaOK /\ LecturaOK /\ DirOK /\ CursoOK /\ ExcluyeOK
                     /\ CaidaPorOtroCliente
  <1>1. Init => Todo
    BY CaidaInicial
  <1>2. Base /\ Todo /\ [Next]_vars => Todo'
    BY AbrePaso, LlevadaPaso, LecturaPaso, DirPaso, CursoPaso, ExcluyePaso, CaidaPaso
  <1>3. Todo => CaidaPorOtroCliente
    OBVIOUS
  <1>4. Spec => []Base
    BY RespuestaSiempre, PTL
  <1> HIDE DEF Base, Todo
  <1>5. QED
    BY <1>1, <1>2, <1>3, <1>4, PTL DEF Spec

(***************************************************************************)
(* The descriptors that sac-cli leaves open.                               *)
(***************************************************************************)

\* The connections that a process that lives has open.
DescOK ==
  \A x \in Conexiones : De(x) \notin muertos =>
    (conexion[x].cliente = "abierta" <=>
       EnCurso(x) \/ (Volvio(x) /\ conexion[x].respuesta = "vacia"))

Empezadas == {x \in Conexiones : Empezada(x)}

\* A step of the server opens and closes nothing of a client, and answers with an
\* empty listing only to who waits for it.
LEMMA DescServidor ==
  ASSUME DescOK, UNCHANGED <<hebra, muertos>>,
         \A x \in Conexiones :
            /\ conexion'[x].cliente = conexion[x].cliente
            /\ Volvio(x) /\ De(x) \notin muertos =>
                 (conexion'[x].respuesta = "vacia" <=> conexion[x].respuesta = "vacia")
  PROVE  DescOK'
  <1>1. \A x \in Conexiones : (EnCurso(x)' <=> EnCurso(x)) /\ (Volvio(x)' <=> Volvio(x))
    BY DEF EnCurso, Volvio
  <1>2. QED
    BY <1>1 DEF DescOK

LEMMA DescHilo ==
  ASSUME Inductivo, RespuestaOK, RespuestaLlega, DescOK, NEW h \in Hilos, PasoHilo(h)
  PROVE  DescOK'
  <1>1. UNCHANGED <<hebra, muertos>>
    BY HiloAjeno DEF Ajeno
  <1>2. CASE Copiar(h) \/ Abandonar(h)
    <2>1. \A x \in Conexiones : /\ conexion'[x].cliente = conexion[x].cliente
                                /\ conexion'[x].respuesta = conexion[x].respuesta
      BY <1>2, QueCopiar, QueAbandonar DEF Pedido, Contestado
    <2>2. QED
      BY <1>1, <2>1, DescServidor
  <1>3. CASE Atender(h)
    <2>1. PICK z \in Conexiones : Atiende(h, z)
      BY <1>3, QueAtender
    <2>2. \A x \in Conexiones : /\ conexion'[x].cliente = conexion[x].cliente
                                /\ conexion'[x].respuesta = conexion[x].respuesta
      BY <2>1 DEF Atiende, Pedido
    <2>3. QED
      BY <1>1, <2>2, DescServidor
  <1>4. CASE Responder(h)
    <2>1. /\ hilo[h].pc = "send" /\ ~caido
          /\ conexion'[hilo[h].con].respuesta = hilo[h].resp
          /\ \A x \in Conexiones : /\ conexion'[x].cliente = conexion[x].cliente
                                   /\ x # hilo[h].con => conexion'[x] = conexion[x]
      BY <1>4, QueResponder DEF Pedido
    <2>2. /\ hilo[h].resp = "vacia" => conexion[hilo[h].con].op = "readdir"
          /\ conexion[hilo[h].con].respuesta = "nada"
      BY <2>1 DEF RespuestaOK, ContestaOK, Contesta
    <2>3. ASSUME NEW x \in Conexiones, Volvio(x), De(x) \notin muertos
          PROVE  conexion'[x].respuesta = "vacia" <=> conexion[x].respuesta = "vacia"
      <3>1. CASE x # hilo[h].con
        BY <2>1, <3>1
      <3>2. CASE x = hilo[h].con
        <4>1. conexion[x].op \in {"rmdir", "write"}
          BY <2>1, <2>2, <2>3, <3>2 DEF RespuestaLlega
        <4>2. QED
          BY <2>1, <2>2, <3>2, <4>1
      <3>3. QED
        BY <3>1, <3>2
    <2>4. QED
      BY <1>1, <2>1, <2>3, DescServidor
  <1>5. CASE Cerrar(h)
    <2>1. /\ \/ conexion'[hilo[h].con].respuesta = conexion[hilo[h].con].respuesta
             \/ ~Volvio(hilo[h].con)
          /\ \A x \in Conexiones : /\ conexion'[x].cliente = conexion[x].cliente
                                   /\ x # hilo[h].con => conexion'[x] = conexion[x]
      BY <1>5, QueCerrar DEF Pedido
    <2>2. \A x \in Conexiones : Volvio(x) => conexion'[x].respuesta = conexion[x].respuesta
      BY <2>1
    <2>3. QED
      BY <1>1, <2>1, <2>2, DescServidor
  <1>6. QED
    BY <1>2, <1>3, <1>4, <1>5 DEF PasoHilo

LEMMA DescPaso ==
  ASSUME Inductivo, RespuestaOK, RespuestaLlega, DescOK, [Next]_vars
  PROVE  DescOK'
  <1>1. CASE TomarTurno \/ FallaAccept \/ UNCHANGED vars
    <2>1. UNCHANGED <<conexion, hebra, muertos>>
      BY <1>1 DEF TomarTurno, FallaAccept, vars, clientes
    <2>2. QED
      BY <2>1, DescServidor
  <1>2. CASE Aceptar
    <2>1. UNCHANGED <<hebra, muertos>> /\ \A x \in Conexiones : Pedido(x) /\ Contestado(x)
      BY <1>2, QueAceptar
    <2>2. QED
      BY <2>1, DescServidor DEF Pedido, Contestado
  <1>3. ASSUME NEW h \in Hilos, PasoHilo(h) PROVE DescOK'
    BY <1>3, DescHilo
  <1>4. ASSUME NEW t \in Hebras, PasoHebra(t) PROVE DescOK'
    <2>1. ASSUME SigueHebra(t), hebra[t].pc # "libre", hebra'[t].pc # "libre",
                 NEW x \in Conexiones
          PROVE  (EnCurso(x)' <=> EnCurso(x)) /\ (Volvio(x)' <=> Volvio(x))
      BY <2>1, CursoIgual, ConexionDe DEF SigueHebra
    <2>2. CASE Enviar(t)
      <3>1. /\ SigueHebra(t) /\ hebra[t].pc # "libre" /\ hebra'[t].pc # "libre"
            /\ UNCHANGED muertos /\ \A x \in Conexiones : Pedido(x) /\ Fijo(x)
        BY <2>2, QueEnviar
      <3>2. QED
        BY <2>1, <3>1 DEF DescOK, Pedido, Fijo, Contestado
    <2>3. CASE TomarSockete(t)
      <3>1. /\ SigueHebra(t) /\ hebra[t].pc # "libre" /\ hebra'[t].pc # "libre"
            /\ UNCHANGED <<muertos, conexion>>
        BY <2>3, QueTomarSockete
      <3>2. QED
        BY <2>1, <3>1 DEF DescOK
    <2>4. CASE Recibir(t)
      <3>1. PICK z \in Conexiones :
             /\ z = Actual(t) /\ UNCHANGED muertos
             /\ hebra[t].pc = "recv" /\ hebra'[t].pc = "libre" /\ hebra'[t].n = hebra[t].n
             /\ \A u \in Hebras : hebra'[u].n = hebra[u].n /\ (u # t => hebra'[u].pc = hebra[u].pc)
             /\ conexion'[z].cliente = (IF conexion[z].respuesta # "vacia" THEN "cerrada" ELSE "abierta")
             /\ \A y \in Conexiones : Fijo(y) /\ (y # z => conexion'[y] = conexion[y])
        BY <2>4, QueRecibir
      <3>2. \A x \in Conexiones : /\ EnCurso(x)' <=> EnCurso(x) /\ x # z
                                  /\ Volvio(x)' <=> Volvio(x) \/ x = z
        BY <3>1, CursoRecibir
      <3>3. QED
        BY <3>1, <3>2 DEF DescOK, Fijo, Contestado
    <2>5. QED
      BY <1>4, <2>2, <2>3, <2>4 DEF PasoHebra
  <1>5. ASSUME NEW c \in Clientes, Morir(c) PROVE DescOK'
    <2>1. /\ muertos' = muertos \cup {c}
          /\ \A t \in Hebras : ClienteDe[t] # c => hebra'[t] = hebra[t]
          /\ \A y \in Conexiones : De(y) # c => conexion'[y] = conexion[y]
      BY <1>5, QueMorir
    <2>2. ASSUME NEW x \in Conexiones, De(x) # c
          PROVE  (EnCurso(x)' <=> EnCurso(x)) /\ (Volvio(x)' <=> Volvio(x))
      BY <2>1, <2>2, CursoIgual, ConexionDe DEF De
    <2>3. QED
      BY <2>1, <2>2 DEF DescOK
  <1>6. ASSUME NEW t \in Hebras, NEW p \in Operaciones, Llamar(t, p)
        PROVE  DescOK'
    <2>1. PICK z \in Conexiones : Llama(t, p, z)
      BY <1>6, QueLlamar
    <2>2. \A x \in Conexiones : /\ EnCurso(x)' <=> EnCurso(x) \/ x = z
                                /\ Volvio(x)' <=> Volvio(x)
      BY <2>1, CursoLlamar
    <2>3. /\ UNCHANGED muertos /\ conexion'[z].cliente = "abierta"
          /\ \A y \in Conexiones : y # z => conexion'[y] = conexion[y]
      BY <2>1 DEF Llama
    <2>4. QED
      BY <2>2, <2>3 DEF DescOK
  <1>7. QED
    BY <1>1, <1>2, <1>3, <1>4, <1>5, <1>6 DEF Next

\* At any time a finite number of calls have begun.
LEMMA FinitoPaso ==
  ASSUME Inductivo, IsFiniteSet(Empezadas), [Next]_vars
  PROVE  IsFiniteSet(Empezadas')
  <1>1. CASE ~ \E t \in Hebras, p \in Operaciones : Llamar(t, p)
    <2>1. Empezadas' = Empezadas
      BY <1>1, QueSigue DEF Empezadas
    <2>2. QED
      BY <2>1
  <1>2. ASSUME NEW t \in Hebras, NEW p \in Operaciones, Llamar(t, p)
        PROVE  IsFiniteSet(Empezadas')
    <2>1. PICK z \in Conexiones : Llama(t, p, z)
      BY <1>2, QueLlamar
    <2>2. Empezadas' = Empezadas \cup {z}
      <3>1. \A x \in Conexiones : Empezada(x)' <=> Empezada(x) \/ x = z
        BY <2>1, AvanceLlamar
      <3>2. QED
        BY <3>1 DEF Empezadas
    <2>3. QED
      BY <2>2, FS_AddElement
  <1>3. QED
    BY <1>1, <1>2

\* The threads of a process that call, and their connections, are as many.
LEMMA TantasComoHebras ==
  ASSUME Inductivo, NEW c \in Clientes,
         IsFiniteSet({x \in Conexiones : De(x) = c /\ EnCurso(x)})
  PROVE  Cardinality({t \in HebrasDe(c) : hebra[t].pc # "libre"})
         = Cardinality({x \in Conexiones : De(x) = c /\ EnCurso(x)})
  <1> DEFINE E == {x \in Conexiones : De(x) = c /\ EnCurso(x)}
             T == {t \in HebrasDe(c) : hebra[t].pc # "libre"}
             f == [x \in E |-> x[1]]
  <1>1. \A x \in E : x[1] \in T /\ x = Actual(x[1])
    BY ConexionDe DEF EnCurso, HebrasDe, De, Actual
  <1>2. \A t \in T : Actual(t) \in E /\ Actual(t)[1] = t
    <2> SUFFICES ASSUME NEW t \in T PROVE Actual(t) \in E /\ Actual(t)[1] = t
      OBVIOUS
    <2>1. t \in Hebras /\ ClienteDe[t] = c /\ hebra[t].pc # "libre"
      BY DEF HebrasDe
    <2>2. Actual(t) \in Conexiones
      BY <2>1, ActualEmpezada
    <2>3. Actual(t)[1] = t /\ Actual(t)[2] = hebra[t].n
      BY DEF Actual
    <2>4. QED
      BY <2>1, <2>2, <2>3 DEF EnCurso, De
  <1>3. f \in Bijection(E, T)
    <2>1. f \in [E -> T]
      BY <1>1
    <2>2. \A x, y \in E : f[x] = f[y] => x = y
      BY <1>1
    <2>3. \A t \in T : \E x \in E : f[x] = t
      BY <1>2
    <2>4. QED
      BY <2>1, <2>2, <2>3 DEF Bijection, Injection, IsInjective, Surjection
  <1>4. ExistsBijection(E, T)
    BY <1>3 DEF ExistsBijection
  <1>5. IsFiniteSet(E)
    OBVIOUS
  <1> HIDE DEF E, T
  <1>6. Cardinality(T) = Cardinality(E)
    BY <1>4, <1>5, FS_Bijection
  <1>7. QED
    BY <1>6 DEF E, T

LEMMA FugaDeDesc ==
  ASSUME Inductivo, DescOK, IsFiniteSet(Empezadas)
  PROVE  FugaSoloAlListarVacio
  <1> SUFFICES ASSUME NEW c \in Clientes \ muertos
               PROVE  Cardinality({x \in Conexiones : De(x) = c /\ conexion[x].cliente = "abierta"})
                      = Cardinality({t \in HebrasDe(c) : hebra[t].pc # "libre"})
                        + Cardinality({x \in Conexiones : /\ De(x) = c /\ Volvio(x)
                                                          /\ conexion[x].respuesta = "vacia"})
    BY DEF FugaSoloAlListarVacio
  <1> DEFINE A == {x \in Conexiones : De(x) = c /\ conexion[x].cliente = "abierta"}
             E == {x \in Conexiones : De(x) = c /\ EnCurso(x)}
             V == {x \in Conexiones : /\ De(x) = c /\ Volvio(x)
                                      /\ conexion[x].respuesta = "vacia"}
  <1>1. A = E \cup V
    BY DEF DescOK
  <1>2. E \cap V = {}
    BY DEF Volvio
  <1>3. E \in SUBSET Empezadas /\ V \in SUBSET Empezadas
    <2>1. \A x \in Conexiones : EnCurso(x) \/ Volvio(x) => Empezada(x)
      BY ConexionDe DEF EnCurso, Volvio, Empezada
    <2>2. QED
      BY <2>1 DEF Empezadas
  <1>4. Cardinality({t \in HebrasDe(c) : hebra[t].pc # "libre"}) = Cardinality(E)
    <2>1. IsFiniteSet(E)
      BY <1>3, FS_Subset
    <2>2. QED
      BY <2>1, TantasComoHebras
  <1> HIDE DEF A, E, V
  <1>5. IsFiniteSet(E) /\ IsFiniteSet(V)
    BY <1>3, FS_Subset
  <1>6. Cardinality(E \cup V) = Cardinality(E) + Cardinality(V) - Cardinality(E \cap V)
    BY <1>5, FS_Union
  <1>7. Cardinality(E) \in Nat /\ Cardinality(V) \in Nat /\ Cardinality(E \cap V) = 0
    BY <1>2, <1>5, FS_CardinalityType, FS_EmptySet
  <1>8. Cardinality(A) = Cardinality(E) + Cardinality(V)
    BY <1>1, <1>6, <1>7
  <1>9. QED
    BY <1>4, <1>8 DEF A, V

LEMMA DescInicial == Init => DescOK /\ IsFiniteSet(Empezadas)
  <1> SUFFICES ASSUME Init PROVE DescOK /\ IsFiniteSet(Empezadas)
    OBVIOUS
  <1>1. conexion = [x \in Conexiones |-> Nueva]
    BY Zenon DEF Init
  <1>2. PICK abre : hebra = [t \in Hebras |-> [pc |-> "libre", n |-> 0, abre |-> abre]]
    BY Zenon DEF Init
  <1>3. \A x \in Conexiones : ~EnCurso(x) /\ ~Volvio(x) /\ ~Empezada(x)
    BY <1>2, ConexionDe, Constantes DEF Volvio, EnCurso, Empezada, Conexiones
  <1>4. Empezadas = {}
    BY <1>3 DEF Empezadas
  <1>5. IsFiniteSet(Empezadas)
    BY <1>4, FS_EmptySet
  <1>6. QED
    BY <1>1, <1>3, <1>5 DEF DescOK, Nueva

\* sac-cli keeps a descriptor open for each empty directory that it listed, and for
\* no other call that returned.
THEOREM SoloFugaAlListarVacio == Spec => []FugaSoloAlListarVacio
  <1> DEFINE Base == Inductivo /\ FuturoOK /\ OrdenOK /\ RespuestaOK /\ RespuestaLlega
             Todo == DescOK /\ IsFiniteSet(Empezadas)
  <1>1. Init => Todo
    BY DescInicial
  <1>2. Base /\ Todo /\ [Next]_vars => Todo'
    BY DescPaso, FinitoPaso
  <1>3. Base /\ Todo => FugaSoloAlListarVacio
    BY FugaDeDesc
  <1>4. Spec => []Base
    BY RespuestaSiempre, PTL
  <1> HIDE DEF Base, Todo
  <1>5. QED
    BY <1>1, <1>2, <1>3, <1>4, PTL DEF Spec
=============================================================================
