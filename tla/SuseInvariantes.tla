-------------------------- MODULE SuseInvariantes --------------------------
(***************************************************************************)
(* How the handlers of Suse keep out of each other's way, for any number   *)
(* of programs, threads and semaphores: who sleeps is to be woken, who is  *)
(* blocked is in a queue, planificar never runs before crear, and, while   *)
(* nobody disconnects, one ult runs at a time, one handler is inside the   *)
(* mutex, and no degree is given back twice.                               *)
(***************************************************************************)
EXTENDS SuseProofs, FiniteSetTheorems

\* Where a thread is, or goes on after it takes or gives back a degree.
Destino(r) == IF r.pc \in {"suelta", "planMulti", "planGrado"} THEN r.sigue ELSE r.pc

\* The places of planificar where it sleeps, from the moment it has put the old
\* ult back, and from the wait for the first crear on.
Sueno    == {"planDuerme", "planEspera"}
SinCorrer == {"planEscanea", "planBloquea", "planVuelve", "planElige"} \cup Sueno
ConHilos == {"planU1", "planJoin", "planMutex", "planDesaloja", "planFin"} \cup SinCorrer
Planes   == {"planificar", "planEntra", "planHilos"} \cup ConHilos
Seccion  == {"crear2", "crear3", "planDesaloja", "planEscanea", "planBloquea",
             "planDuerme", "planElige", "planFin", "joinBloquea", "joinEscribe",
             "joinMarca", "cerrar2", "wait2", "waitEscribe", "waitFin"}
Cierres  == {"cerrar", "cerrar2", "cerrar3"}
Esperas  == {"wait", "wait2", "waitEscribe", "signal"}

\* The code of the handlers as a graph: a thread goes from a to b.
Tramo(a, b) ==
    \/ a = b
    \/ a = "crear" /\ b = "crear2"
    \/ a = "crear2" /\ b = "crear3"
    \/ a = "planificar" /\ b = "planEntra"
    \/ a = "planEntra" /\ b \in {"planHilos", "planU1"}
    \/ a = "planHilos" /\ b = "planU1"
    \/ a = "planU1" /\ b \in {"planJoin", "planMutex"}
    \/ a = "planJoin" /\ b = "planMutex"
    \/ a = "planMutex" /\ b = "planDesaloja"
    \/ a \in {"planDesaloja", "planVuelve"} /\ b = "planEscanea"
    \/ a = "planEscanea" /\ b \in {"planElige", "planBloquea"}
    \/ a = "planBloquea" /\ b = "planDuerme"
    \/ a = "planDuerme" /\ b = "planEspera"
    \/ a = "planEspera" /\ b = "planVuelve"
    \/ a = "planElige" /\ b = "planFin"
    \/ a = "joinear" /\ b \in {"joinJoin", "joinMutex"}
    \/ a = "joinJoin" /\ b = "joinU0"
    \/ a = "joinU0" /\ b \in {"joinUlt0", "joinMutex"}
    \/ a = "joinUlt0" /\ b = "joinMutex"
    \/ a = "joinMutex" /\ b = "joinBloquea"
    \/ a = "joinBloquea" /\ b \in {"joinEscribe", "joinMarca"}
    \/ a = "joinEscribe" /\ b = "joinMarca"
    \/ a = "cerrar" /\ b = "cerrar2"
    \/ a = "cerrar2" /\ b = "cerrar3"
    \/ a = "cerrar3" /\ b = "libre"
    \/ a = "wait" /\ b = "wait2"
    \/ a = "wait2" /\ b \in {"waitEscribe", "waitFin"}
    \/ a = "waitEscribe" /\ b = "waitFin"

\* A thread that takes a degree is a planificar about to enter or to look again, and
\* one that gives a degree back goes on in the handler that released it.
Forma(r) ==
    /\ r.pc \in {"planMulti", "planGrado"} => r.sigue \in {"planEntra", "planVuelve"}
    /\ r.pc = "suelta" =>
         r.sigue \in {"planEscanea", "planDuerme", "joinEscribe", "waitEscribe", "libre"}

Otros(h) == \A g \in Todos : g # h => hilo'[g] = hilo[g]

\* What a step does to its thread: it ends; or atender gives it to its handler, for
\* a program with the descriptor of its client; or it hangs; or it goes on along the code.
Camina(h) ==
    /\ Otros(h)
    /\ hilo[h].pc \notin {"libre", "select"}
    /\ \/ hilo'[h] = Reposo
       \/ /\ hilo'[h].pc # "libre"
          /\ hilo'[h].op = hilo[h].op /\ hilo'[h].sem = hilo[h].sem
          /\ Forma(hilo'[h])
          /\ \/ /\ hilo[h].pc = "atender" /\ hilo'[h].pc = hilo[h].op
                /\ hilo[h].op \in Pedidos
                /\ hilo'[h].prog \in Vigentes(socket[hilo[h].prog])
             \/ /\ hilo[h].pc = "atender" /\ hilo'[h].pc = hilo[h].op
                /\ hilo[h].op = "signal"
                /\ hilo'[h].prog = hilo[h].prog
             \/ /\ hilo'[h].pc = "colgado"
                /\ hilo'[h].prog = hilo[h].prog
             \/ /\ Tramo(Destino(hilo[h]), Destino(hilo'[h]))
                /\ Destino(hilo'[h]) = Destino(hilo[h]) \/ hilo[h].pc = Destino(hilo[h])
                /\ hilo[h].pc # "atender"
                /\ hilo'[h].prog = hilo[h].prog

-----------------------------------------------------------------------------
\* The fields of a thread after each kind of move.
LEMMA CamposVa ==
  ASSUME HilosOK, NEW h \in Todos, NEW p, Va(h, p)
  PROVE  /\ Otros(h) /\ hilo'[h].pc = p
         /\ hilo'[h].op = hilo[h].op /\ hilo'[h].prog = hilo[h].prog
         /\ hilo'[h].tid = hilo[h].tid /\ hilo'[h].sem = hilo[h].sem
         /\ hilo'[h].visto = hilo[h].visto /\ hilo'[h].sigue = hilo[h].sigue
  <1>1. hilo[h] \in TipoHilo
    BY DEF HilosOK
  <1>2. hilo'[h] = [hilo[h] EXCEPT !.pc = p] /\ Otros(h)
    BY DEF Va, Pone, HilosOK, Otros
  <1>3. QED
    BY <1>1, <1>2 DEF TipoHilo

\* Ending leaves the thread at rest.
LEMMA CamposTermina ==
  ASSUME HilosOK, NEW h \in Todos, Termina(h)
  PROVE  /\ Otros(h) /\ hilo'[h] = Reposo
         /\ Reposo.pc = "libre" /\ Reposo.op = "libre" /\ Reposo.prog = Nadie
         /\ Reposo.sigue = "libre"
  BY DEF Termina, Pone, HilosOK, Otros, Reposo

\* Setting out to give a degree back, or to take one, and going on from there.
Salta(h, p, g) ==
    /\ Otros(h)
    /\ hilo'[h].pc = p /\ hilo'[h].sigue = g
    /\ hilo'[h].op = hilo[h].op /\ hilo'[h].prog = hilo[h].prog
    /\ hilo'[h].sem = hilo[h].sem

\* The fields of a thread that sets out.
LEMMA CamposSalta ==
  ASSUME HilosOK, NEW h \in Todos, NEW p \in Lugares \cup Vueltas, NEW v \in Int,
         NEW g \in Vueltas, Pone(h, [hilo[h] EXCEPT !.pc = p, !.visto = v, !.sigue = g])
  PROVE  Salta(h, p, g)
  <1>1. hilo[h] \in TipoHilo
    BY DEF HilosOK
  <1>2. hilo'[h] = [hilo[h] EXCEPT !.pc = p, !.visto = v, !.sigue = g] /\ Otros(h)
    BY DEF HilosOK, Otros, Pone
  <1>3. QED
    BY <1>1, <1>2 DEF TipoHilo, Salta

\* A thread that is to give a degree back sets out so.
LEMMA SueltaSalta ==
  ASSUME HilosOK, GradoOK, NEW h \in Todos, NEW p \in Vueltas, VaASoltar(h, p)
  PROVE  Salta(h, "suelta", p)
  <1>1. grado \in Int /\ "suelta" \in Lugares \cup Vueltas
    BY DEF GradoOK, Lugares
  <1>2. QED
    BY <1>1, CamposSalta DEF VaASoltar

\* A thread that asks for a degree sets out so, by either way.
LEMMA PideSalta ==
  ASSUME HilosOK, GradoOK, NEW h \in Todos, NEW p \in Vueltas, PideGrado(h, p)
  PROVE  Salta(h, "planMulti", p) \/ Salta(h, "planGrado", p)
  <1>1. grado \in Int /\ {"planMulti", "planGrado"} \subseteq Lugares \cup Vueltas
    BY DEF GradoOK, Lugares
  <1>2. QED
    BY <1>1, CamposSalta DEF PideGrado

\* A step that moves its thread along the code.
LEMMA VaCamina ==
  ASSUME HilosOK, NEW h \in Todos, NEW p, Va(h, p),
         hilo[h].pc \notin {"libre", "select", "atender", "suelta", "planMulti", "planGrado"},
         p \notin {"libre", "suelta", "planMulti", "planGrado"},
         p = "colgado" \/ Tramo(hilo[h].pc, p)
  PROVE  Camina(h)
  BY CamposVa DEF Camina, Forma, Destino

\* A step that ends its thread.
LEMMA TerminaCamina ==
  ASSUME HilosOK, NEW h \in Todos, Termina(h), hilo[h].pc \notin {"libre", "select"}
  PROVE  Camina(h)
  BY CamposTermina DEF Camina

\* A step that sets out to give a degree back.
LEMMA SueltaCamina ==
  ASSUME HilosOK, GradoOK, NEW h \in Todos, NEW p, VaASoltar(h, p),
         p \in {"planEscanea", "planDuerme", "joinEscribe", "waitEscribe", "libre"},
         hilo[h].pc \notin {"libre", "select", "atender", "suelta", "planMulti", "planGrado"},
         Tramo(hilo[h].pc, p)
  PROVE  Camina(h)
  <1>1. Salta(h, "suelta", p)
    BY SueltaSalta DEF Vueltas
  <1>2. QED
    BY <1>1 DEF Salta, Camina, Forma, Destino

\* A step that asks for a degree.
LEMMA PideCamina ==
  ASSUME HilosOK, GradoOK, NEW h \in Todos, NEW p, PideGrado(h, p),
         p \in {"planEntra", "planVuelve"},
         hilo[h].pc \notin {"libre", "select", "atender", "suelta", "planMulti", "planGrado"},
         Tramo(hilo[h].pc, p)
  PROVE  Camina(h)
  <1>1. Salta(h, "planMulti", p) \/ Salta(h, "planGrado", p)
    BY PideSalta DEF Vueltas
  <1>2. QED
    BY <1>1 DEF Salta, Camina, Forma, Destino

\* A step that goes on after a degree was taken or given back.
LEMMA SaltaCamina ==
  ASSUME HilosOK, NEW h \in Todos, Forma(hilo[h]),
         hilo[h].pc \in {"suelta", "planGrado"}, hilo[h].sigue # "libre",
         Pone(h, [hilo[h] EXCEPT !.pc = hilo[h].sigue, !.visto = 0, !.sigue = "libre"])
  PROVE  Camina(h)
  <1>1. hilo[h].sigue \in {"planEntra", "planVuelve", "planEscanea", "planDuerme",
                           "joinEscribe", "waitEscribe"}
    BY DEF Forma
  <1>2. Salta(h, hilo[h].sigue, "libre")
    <2>1. PICK p \in Lugares \cup Vueltas : p = hilo[h].sigue
      BY <1>1 DEF Vueltas
    <2>2. Pone(h, [hilo[h] EXCEPT !.pc = p, !.visto = 0, !.sigue = "libre"])
      BY <2>1
    <2>3. Salta(h, p, "libre")
      <3>1. "libre" \in Vueltas /\ 0 \in Int
        BY DEF Vueltas
      <3>2. QED
        BY <2>2, <3>1, CamposSalta
    <2>4. QED
      BY <2>1, <2>3
  <1>3. QED
    BY <1>1, <1>2 DEF Salta, Camina, Forma, Destino, Tramo

\* atender passes the request to its handler, ends or hangs.
LEMMA AtenderCamina ==
  ASSUME HilosOK, NEW h \in Todos, Atender(h)
  PROVE  Camina(h)
  <1>1. hilo[h].pc = "atender" /\ hilo[h].op \in Pedidos /\ hilo[h] \in TipoHilo
    BY DEF Atender, En, HilosOK, PedidoOK, PedidoDe
  <1>2. hilo[h].op \notin {"libre", "suelta", "planMulti", "planGrado"}
    BY <1>1 DEF Pedidos
  <1>3. CASE \E c \in Vigentes(socket[hilo[h].prog]) :
                Pone(h, [hilo[h] EXCEPT !.pc = hilo[h].op, !.prog = c])
    <2>1. PICK c \in Vigentes(socket[hilo[h].prog]) :
                Pone(h, [hilo[h] EXCEPT !.pc = hilo[h].op, !.prog = c])
      BY <1>3
    <2>2. Otros(h) /\ hilo'[h] = [hilo[h] EXCEPT !.pc = hilo[h].op, !.prog = c]
      BY <2>1 DEF Pone, Otros, HilosOK
    <2>3. /\ hilo'[h].pc = hilo[h].op /\ hilo'[h].op = hilo[h].op
          /\ hilo'[h].sem = hilo[h].sem /\ hilo'[h].prog = c
      BY <1>1, <2>2 DEF TipoHilo
    <2>4. QED
      BY <1>1, <1>2, <2>1, <2>2, <2>3 DEF Camina, Forma
  <1>4. CASE Termina(h)
    BY <1>1, <1>4, TerminaCamina
  <1>5. CASE hilo[h].op = "signal" /\ Va(h, "signal")
    BY <1>1, <1>5, CamposVa DEF Camina, Forma
  <1>6. CASE Cae(h)
    <2>1. Va(h, "colgado")
      BY <1>6 DEF Cae
    <2>2. QED
      BY <1>1, <2>1, CamposVa DEF Camina, Forma
  <1>7. QED
    BY <1>3, <1>4, <1>5, <1>6 DEF Atender

\* The moves of planificar.
LEMMA PlanCamina ==
  ASSUME HilosOK, GradoOK, NEW h \in Todos, Forma(hilo[h]),
         \/ PlanPide(h) \/ PlanMulti(h) \/ PlanGrado(h) \/ PlanEntra(h)
         \/ PlanHilos(h) \/ PlanU1(h) \/ PlanJoin(h) \/ PlanDesaloja(h)
         \/ PlanEscanea(h) \/ PlanBloquea(h) \/ PlanDuerme(h) \/ PlanEspera(h)
         \/ PlanElige(h) \/ PlanFin(h)
  PROVE  Camina(h)
  <1>1. hilo[h] \in TipoHilo
    BY DEF HilosOK
  <1>2. CASE PlanPide(h)
    BY <1>2, PideCamina DEF PlanPide, En, Tramo
  <1>3. CASE PlanMulti(h)
    <2>1. /\ hilo[h].pc = "planMulti"
          /\ Pone(h, [hilo[h] EXCEPT !.pc = "planGrado", !.visto = grado])
      BY <1>3 DEF PlanMulti, En
    <2>2. Otros(h) /\ hilo'[h] = [hilo[h] EXCEPT !.pc = "planGrado", !.visto = grado]
      BY <2>1 DEF Pone, Otros, HilosOK
    <2>3. /\ hilo'[h].pc = "planGrado" /\ hilo'[h].op = hilo[h].op
          /\ hilo'[h].sem = hilo[h].sem /\ hilo'[h].prog = hilo[h].prog
          /\ hilo'[h].sigue = hilo[h].sigue
      BY <1>1, <2>2 DEF TipoHilo
    <2>4. QED
      BY <2>1, <2>2, <2>3 DEF Camina, Forma, Destino, Tramo
  <1>4. CASE PlanGrado(h)
    <2>1. /\ hilo[h].pc = "planGrado" /\ hilo[h].sigue # "libre"
          /\ Pone(h, [hilo[h] EXCEPT !.pc = hilo[h].sigue, !.visto = 0, !.sigue = "libre"])
      BY <1>4 DEF PlanGrado, En, Forma
    <2>2. QED
      BY <2>1, SaltaCamina
  <1>5. CASE PlanEntra(h) \/ PlanHilos(h) \/ PlanU1(h) \/ PlanJoin(h)
    BY <1>5, VaCamina DEF PlanEntra, PlanHilos, PlanU1, PlanJoin, En, Tramo
  <1>6. CASE PlanDesaloja(h)
    <2>1. hilo[h].pc = "planDesaloja" /\ (VaASoltar(h, "planEscanea") \/ Va(h, "planEscanea"))
      BY <1>6 DEF PlanDesaloja, En
    <2>2. QED
      BY <2>1, VaCamina, SueltaCamina DEF Tramo
  <1>7. CASE PlanEscanea(h)
    <2>1. hilo[h].pc = "planEscanea"
      BY <1>7 DEF PlanEscanea, En
    <2>2. CASE Va(h, "planBloquea") \/ Cae(h)
      BY <2>1, <2>2, VaCamina DEF Tramo, Cae
    <2>3. CASE \E t : Pone(h, [hilo[h] EXCEPT !.pc = "planElige", !.tid = t])
      <3>1. PICK t : Pone(h, [hilo[h] EXCEPT !.pc = "planElige", !.tid = t])
        BY <2>3
      <3>2. Otros(h) /\ hilo'[h] = [hilo[h] EXCEPT !.pc = "planElige", !.tid = t]
        BY <3>1 DEF Pone, Otros, HilosOK
      <3>3. /\ hilo'[h].pc = "planElige" /\ hilo'[h].op = hilo[h].op
            /\ hilo'[h].sem = hilo[h].sem /\ hilo'[h].prog = hilo[h].prog
        BY <1>1, <3>2 DEF TipoHilo
      <3>4. QED
        BY <2>1, <3>2, <3>3 DEF Camina, Forma, Destino, Tramo
    <2>4. QED
      BY <1>7, <2>2, <2>3 DEF PlanEscanea
  <1>8. CASE PlanBloquea(h)
    BY <1>8, SueltaCamina DEF PlanBloquea, En, Tramo
  <1>9. CASE PlanDuerme(h)
    BY <1>9, VaCamina DEF PlanDuerme, En, Tramo
  <1>10. CASE PlanEspera(h)
    BY <1>10, PideCamina DEF PlanEspera, En, Tramo
  <1>11. CASE PlanElige(h)
    <2>1. hilo[h].pc = "planElige"
      BY <1>11 DEF PlanElige, En
    <2>2. CASE Va(h, "colgado")
      BY <2>1, <2>2, VaCamina
    <2>3. CASE \E t : Pone(h, [hilo[h] EXCEPT !.pc = "planFin", !.tid = t])
      <3>1. PICK t : Pone(h, [hilo[h] EXCEPT !.pc = "planFin", !.tid = t])
        BY <2>3
      <3>2. Otros(h) /\ hilo'[h] = [hilo[h] EXCEPT !.pc = "planFin", !.tid = t]
        BY <3>1 DEF Pone, Otros, HilosOK
      <3>3. /\ hilo'[h].pc = "planFin" /\ hilo'[h].op = hilo[h].op
            /\ hilo'[h].sem = hilo[h].sem /\ hilo'[h].prog = hilo[h].prog
        BY <1>1, <3>2 DEF TipoHilo
      <3>4. QED
        BY <2>1, <3>2, <3>3 DEF Camina, Forma, Destino, Tramo
    <2>4. QED
      BY <1>11, <2>2, <2>3 DEF PlanElige, Cae
  <1>12. CASE PlanFin(h)
    BY <1>12, TerminaCamina DEF PlanFin, En
  <1>13. QED
    BY <1>2, <1>3, <1>4, <1>5, <1>6, <1>7, <1>8, <1>9, <1>10, <1>11, <1>12

\* The moves of the other handlers.
LEMMA RestoCamina ==
  ASSUME HilosOK, GradoOK, NEW h \in Todos, Forma(hilo[h]),
         \/ SoltarGrado(h) \/ Crear(h) \/ CrearFin(h) \/ JoinPide(h) \/ JoinToma(h)
         \/ JoinBloquea(h) \/ JoinEscribe(h) \/ JoinMarca(h) \/ Cerrar(h) \/ CerrarFin(h)
         \/ Esperar(h) \/ EsperaEscribe(h) \/ EsperarFin(h) \/ Senalar(h)
  PROVE  Camina(h)
  <1>1. hilo[h] \in TipoHilo
    BY DEF HilosOK
  <1>2. CASE SoltarGrado(h)
    <2>1. /\ hilo[h].pc = "suelta"
          /\ IF hilo[h].sigue = "libre" THEN Termina(h)
             ELSE Pone(h, [hilo[h] EXCEPT !.pc = hilo[h].sigue, !.visto = 0,
                                          !.sigue = "libre"])
      BY <1>2 DEF SoltarGrado, En
    <2>2. QED
      BY <2>1, SaltaCamina, TerminaCamina
  <1>3. CASE CrearFin(h) \/ EsperarFin(h) \/ Senalar(h)
    BY <1>3, TerminaCamina DEF CrearFin, EsperarFin, Senalar, En
  <1>4. CASE JoinPide(h)
    <2>1. PICK l \in {"joinear", "joinU0"} :
             /\ hilo[h].pc = l
             /\ Va(h, IF <<hilo[h].prog, "u0">> \in marca THEN "joinMutex"
                      ELSE IF l = "joinear" THEN "joinJoin" ELSE "joinUlt0")
      BY <1>4 DEF JoinPide, En
    <2>2. QED
      BY <2>1, VaCamina DEF Tramo
  <1>5. CASE JoinToma(h)
    BY <1>5, VaCamina DEF JoinToma, En, Tramo
  <1>6. CASE JoinBloquea(h)
    BY <1>6, VaCamina, SueltaCamina DEF JoinBloquea, En, Tramo
  <1>7. CASE JoinMarca(h)
    BY <1>7, VaCamina, TerminaCamina DEF JoinMarca, En
  <1>8. CASE Cerrar(h)
    <2>1. hilo[h].pc = "cerrar2"
      BY <1>8 DEF Cerrar, En
    <2>2. CASE Va(h, "colgado")
      BY <2>1, <2>2, VaCamina
    <2>3. CASE \E v : Pone(h, [hilo[h] EXCEPT !.pc = "cerrar3", !.visto = v])
      <3>1. PICK v : Pone(h, [hilo[h] EXCEPT !.pc = "cerrar3", !.visto = v])
        BY <2>3
      <3>2. Otros(h) /\ hilo'[h] = [hilo[h] EXCEPT !.pc = "cerrar3", !.visto = v]
        BY <3>1 DEF Pone, Otros, HilosOK
      <3>3. /\ hilo'[h].pc = "cerrar3" /\ hilo'[h].op = hilo[h].op
            /\ hilo'[h].sem = hilo[h].sem /\ hilo'[h].prog = hilo[h].prog
        BY <1>1, <3>2 DEF TipoHilo
      <3>4. QED
        BY <2>1, <3>2, <3>3 DEF Camina, Forma, Destino, Tramo
    <2>4. QED
      BY <1>8, <2>2, <2>3 DEF Cerrar, Cae
  <1>9. CASE CerrarFin(h)
    BY <1>9, SueltaCamina, TerminaCamina DEF CerrarFin, En, Tramo
  <1>10. CASE Esperar(h)
    <2>1. /\ hilo[h].pc = "wait2"
          /\ Va(h, "waitFin") \/ VaASoltar(h, "waitEscribe") \/ Cae(h)
      BY <1>10 DEF Esperar, En
    <2>2. QED
      BY <2>1, VaCamina, SueltaCamina DEF Cae, Tramo
  <1>11. CASE Crear(h)
    <2>1. hilo[h].pc = "crear2" /\ (Termina(h) \/ Va(h, "crear3"))
      BY <1>11 DEF Crear, En
    <2>2. QED
      BY <2>1, VaCamina, TerminaCamina DEF Tramo
  <1>12. CASE JoinEscribe(h) \/ EsperaEscribe(h)
    BY <1>12, VaCamina DEF JoinEscribe, EsperaEscribe, Adormece, En, Tramo
  <1>13. QED
    BY <1>2, <1>3, <1>4, <1>5, <1>6, <1>7, <1>8, <1>9, <1>10, <1>11, <1>12

\* Every step of a thread is such a move.
LEMMA PasoCamina ==
  ASSUME HilosOK, GradoOK, NEW h \in Hilos, Forma(hilo[h]), PasoHilo(h)
  PROVE  Camina(h)
  <1>1. h \in Todos
    BY DEF Todos
  <1>2. ASSUME NEW l, NEW p, TomaMutex(h, l, p),
               <<l, p>> \in {<<"crear", "crear2">>, <<"planMutex", "planDesaloja">>,
                             <<"planVuelve", "planEscanea">>, <<"joinMutex", "joinBloquea">>,
                             <<"cerrar", "cerrar2">>, <<"wait", "wait2">>}
        PROVE  Camina(h)
    BY <1>1, <1>2, VaCamina DEF TomaMutex, En, Tramo
  <1>3. QED
    BY <1>1, <1>2, AtenderCamina, PlanCamina, RestoCamina DEF PasoHilo

-----------------------------------------------------------------------------
\* A handler touches only its own program, except that signal wakes others.
Etiquetas == {"mutex", "hilos", "join", "ult0", "bloqueadoes", "tienehilos", "bloqueado"}

Intacto(c) ==
    /\ estado'[c] = estado[c]
    /\ \A n \in Etiquetas :
          /\ <<c, n>> \in marca' <=> <<c, n>> \in marca
          /\ <<c, n>> \in tomado' <=> <<c, n>> \in tomado

\* The other programs find their ults, flags and mutexes as they were.
LEMMA SoloSuyo ==
  ASSUME Partes, NEW h \in Hilos, PasoHilo(h), ~Senalar(h),
         NEW c \in Conexiones, c # hilo[h].prog
  PROVE  Intacto(c)
  <1>1. /\ h \in Todos /\ UltsOK /\ c # Nadie
    BY SuseConstantes DEF Partes, Todos
  <1>2. hilo[h].pc \notin {"libre", "select"} => hilo[h].prog \in Conexiones
    BY <1>1, HiloProg DEF Partes
  <1>3. CASE \/ Atender(h) \/ SoltarGrado(h) \/ PlanPide(h) \/ PlanMulti(h) \/ PlanGrado(h)
             \/ PlanEscanea(h) \/ JoinPide(h)
    BY <1>1, <1>3 DEF Atender, SoltarGrado, PlanPide, PlanMulti, PlanGrado, PlanEscanea,
       JoinPide, Intacto, Toma, Abre, CandadoMulti, ults
  <1>4. CASE \/ PlanEntra(h) \/ PlanHilos(h) \/ PlanU1(h) \/ PlanJoin(h) \/ PlanBloquea(h)
             \/ PlanDuerme(h) \/ PlanEspera(h) \/ PlanFin(h) \/ JoinToma(h)
             \/ CerrarFin(h) \/ EsperarFin(h)
    BY <1>4 DEF PlanEntra, PlanHilos, PlanU1, PlanJoin, PlanBloquea, PlanDuerme, PlanEspera,
       PlanFin, JoinToma, CerrarFin, EsperarFin, Intacto, Toma, Abre, Mutex, Bloqueado, ults
  <1>5. ASSUME NEW l, NEW p, TomaMutex(h, l, p)
        PROVE  Intacto(c)
    BY <1>5 DEF TomaMutex, Toma, Mutex, Intacto, ults
  <1>6. CASE Crear(h) \/ CrearFin(h)
    BY <1>1, <1>6 DEF Crear, CrearFin, Abre, Mutex, TieneHilos, Intacto, UltsOK, ults
  <1>7. CASE \/ PlanDesaloja(h) \/ PlanElige(h) \/ JoinBloquea(h) \/ Esperar(h)
             \/ JoinEscribe(h) \/ EsperaEscribe(h)
    BY <1>1, <1>7 DEF PlanDesaloja, PlanElige, JoinBloquea, Esperar, JoinEscribe,
       EsperaEscribe, Adormece, Intacto, UltsOK, ults
  <1>8. CASE JoinMarca(h)
    BY <1>1, <1>8 DEF JoinMarca, Abre, Mutex, Intacto, UltsOK, ults
  <1>9. CASE Cerrar(h)
    BY <1>1, <1>9 DEF Cerrar, Abre, Mutex, Intacto, UltsOK, ults
  <1>10. QED
    BY <1>3, <1>4, <1>5, <1>6, <1>7, <1>8, <1>9 DEF PasoHilo

\* What signal does to a program: it may make one of its ults ready, and take down
\* bloqueado to open bloqueadoes.
LEMMA SenalarToca ==
  ASSUME Partes, NEW h \in Hilos, Senalar(h), NEW c \in Conexiones
  PROVE  /\ \/ estado'[c] = estado[c]
            \/ \E t \in Ults(c) : estado'[c] = [estado[c] EXCEPT ![t] = "Listo"]
         /\ marca' \subseteq marca /\ tomado' \subseteq tomado
         /\ \A n \in Etiquetas :
              /\ <<c, n>> \in marca /\ <<c, n>> \notin marca' => n = "bloqueado"
              /\ <<c, n>> \in tomado /\ <<c, n>> \notin tomado' =>
                    n = "bloqueadoes" /\ Bloqueado(c) \in marca /\ Bloqueado(c) \notin marca'
         /\ Bloqueado(c) \in marca /\ Bloqueado(c) \notin marca' =>
               <<c, "bloqueadoes">> \notin tomado'
  <1>1. CASE UNCHANGED <<estado, marca, tomado>>
    BY <1>1
  <1>2. CASE ~UNCHANGED <<estado, marca, tomado>>
    <2> DEFINE s == hilo[h].sem
               f == Head(cola[s])[1]
               t == Head(cola[s])[2]
               d == Despiertan(f, t)
    <2>1. /\ estado' = [e \in Conexiones |-> IF e \in d THEN [estado[e] EXCEPT ![t] = "Listo"]
                                             ELSE estado[e]]
          /\ marca' = marca \ {Bloqueado(e) : e \in Dormidos(d)}
          /\ tomado' = tomado \ {<<e, "bloqueadoes">> : e \in Dormidos(d)}
      BY <1>2 DEF Senalar, Abre
    <2>2. c \in d => t \in Ults(c)
      BY DEF Despiertan
    <2> HIDE DEF d, t
    <2>3. QED
      BY <2>1, <2>2 DEF Dormidos, Bloqueado
  <1>3. QED
    BY <1>1, <1>2

-----------------------------------------------------------------------------
\* A busy thread works on a program that once connected, in the code of its request,
\* and the threads that are busy are finitely many.
RutaOK(r) ==
    /\ r.pc # "libre" => /\ r.prog \in Conexiones /\ fd[r.prog] # 0
                         /\ r.prog # conectador /\ r.op \in Pedidos
    /\ r.op \in {"wait", "signal"} => r.sem \in Sems
    /\ Destino(r) \in Planes => r.op = "planificar"
    /\ Destino(r) \in Cierres => r.op = "cerrar"
    /\ Destino(r) \in Esperas => r.op \in {"wait", "signal"}
    /\ Forma(r)

Ocupados == {h \in Hilos : hilo[h].pc # "libre"}

RutasOK == (\A h \in Hilos : RutaOK(hilo[h])) /\ IsFiniteSet(Ocupados)

\* A connection without a program, or with one that is not in the list yet, has
\* nothing.
SinPrograma ==
    \A c \in Conexiones : fd[c] = 0 \/ c = conectador =>
        /\ c \notin programas
        /\ \A t \in Tids : estado[c][t] = "Nada"
        /\ TieneHilos(c) \notin marca /\ Bloqueado(c) \notin marca

\* Main has accepted c and waits to start its conectar.
Acepta(c) == hilo[Principal].pc = "acepta" /\ hilo[Principal].prog = c

\* What accept gave stays, and between accept and the end of its conectar a
\* connection has no program in the list.
EntradaOK ==
    /\ \A c \in Conexiones :
          /\ fd[c] # 0 \/ c \in abiertas => socket[c] # 0
          /\ socket[c] # 0 /\ fd[c] = 0 => c = conectador \/ Acepta(c)
          /\ Acepta(c) => c \in abiertas /\ fd[c] = 0 /\ c # conectador /\ nuevofd # 0
    /\ conectador # Nadie =>
          conectador \in abiertas /\ conectador \notin programas /\ nuevofd # 0

\* While main takes a program out it is in the list and no conectar is under way.
PrincipalOK ==
    /\ hilo[Principal].pc \notin {"select", "acepta"} =>
          conectador = Nadie /\ hilo[Principal].prog \in programas
    /\ hilo[Principal].pc \in {"select", "acepta", "descMutex", "descUlts", "suelta", "descFin"}
    /\ hilo[Principal].pc = "suelta" => hilo[Principal].sigue = "descFin"

\* Two connections that are open have two descriptors, no program goes before itself,
\* and the programs of the list are connections that are open, unless one copied the
\* nuevofd of another.
ListaOK ==
    /\ \A c, d \in abiertas : c # d => socket[c] # socket[d]
    /\ \A c \in Conexiones : c \notin detras[c]
    /\ CadaUnoSuFd => programas \subseteq abiertas

ConexionOK == SinPrograma /\ EntradaOK /\ PrincipalOK /\ ListaOK

Base == Partes /\ RutasOK /\ ConexionOK

\* What a connection got from accept and from conectar stays written, and a
\* conectar that starts is one of a connection that has no program.
FdQueda ==
    /\ \A c \in Conexiones : fd[c] # 0 => fd'[c] = fd[c]
    /\ \A c \in Conexiones : socket[c] # 0 => socket'[c] = socket[c]
    /\ conectador' # conectador => conectador' = Nadie \/ fd[conectador'] = 0

\* The steps of the main thread and of conectar.
PasoAjeno ==
    \/ PasoPrincipal \/ PasoConectar \/ UNCHANGED vars
    \/ \E c \in Conexiones : Aceptar(c) \/ Desconectar(c)

\* The start of a request of c in the free thread h.
Empieza(h, c) ==
    /\ Otros(h)
    /\ Atendible(c)
    /\ hilo[h].pc = "libre"
    /\ hilo'[h].pc = "atender" /\ hilo'[h].prog = c /\ hilo'[h].op \in Pedidos
    /\ hilo'[h].op \in {"wait", "signal"} => hilo'[h].sem \in Sems

\* The client of c becomes k, with one more request sent.
Apunta(c, k) ==
    /\ \A d \in Conexiones : d # c => cliente'[d] = cliente[d]
    /\ cliente'[c] = [k EXCEPT !.enviados = cliente[c].enviados + 1]

\* A request of a client starts a thread, and changes nothing else of the server.
LEMMA PideEmpieza ==
  ASSUME Partes, NEW c \in Conexiones, NEW op, NEW t, NEW s, NEW k, Pide(c, op, t, s, k),
         op \in Pedidos, op \in {"wait", "signal"} => s \in Sems
  PROVE  /\ \E h \in Hilos : Empieza(h, c) /\ hilo'[h].op = op
         /\ Apunta(c, k)
         /\ UNCHANGED <<con, ults, marca, tomado, grado, multi, sems, caido>>
  <1>1. PICK h \in Hilos :
           /\ En(h, "libre")
           /\ Pone(h, [Reposo EXCEPT !.pc = "atender", !.op = op, !.prog = c,
                                     !.tid = t, !.sem = s])
    BY DEF Pide
  <1>2. /\ Otros(h)
        /\ hilo'[h] = [Reposo EXCEPT !.pc = "atender", !.op = op, !.prog = c,
                                     !.tid = t, !.sem = s]
    BY <1>1 DEF Pone, Otros, Partes, HilosOK, Todos
  <1>3. /\ hilo'[h].pc = "atender" /\ hilo'[h].prog = c /\ hilo'[h].op = op
        /\ hilo'[h].sem = s
    BY <1>2 DEF Reposo
  <1>4. Empieza(h, c)
    BY <1>1, <1>2, <1>3 DEF Empieza, Pide, En
  <1>5. Apunta(c, k)
    BY DEF Pide, Partes, ClienteOK, Apunta
  <1>6. QED
    BY <1>3, <1>4, <1>5 DEF Pide

\* Every call of libSUSE is such a request.
LEMMA ClientePide ==
  ASSUME Partes, NEW c \in Conexiones, PasoCliente(c)
  PROVE  /\ \E h \in Hilos : Empieza(h, c)
         /\ UNCHANGED <<con, ults, marca, tomado, grado, multi, sems, caido>>
  <1>1. PICK op, t, s, k :
           /\ Pide(c, op, t, s, k) /\ op \in Pedidos
           /\ op \in {"wait", "signal"} => s \in Sems
    BY DEF PasoCliente, suse_create, suse_schedule_next, suse_join, suse_close, suse_wait,
       suse_signal, Pedidos
  <1>2. QED
    BY <1>1, PideEmpieza

\* The steps of the main thread and the connections leave the other threads alone.
LEMMA AjenosQuietos ==
  ASSUME Partes, ConexionOK, PasoAjeno
  PROVE  /\ \A h \in Hilos : hilo'[h] = hilo[h]
         /\ UNCHANGED ults /\ UNCHANGED marca /\ UNCHANGED sems /\ FdQueda
  <1>1. \A h \in Hilos : h # Principal /\ h \in Todos
    BY SuseConstantes DEF Todos
  <1>2. CASE UNCHANGED vars
    BY <1>2 DEF vars, con, FdQueda, ults, sems
  <1>3. CASE PasoPrincipal /\ ~Lanzar
    BY <1>1, <1>3 DEF PasoPrincipal, TomaMutex, DescUlts, SoltarGrado, DescFin, Va, VaASoltar,
       Termina, Pone, con, FdQueda, Partes, HilosOK
  <1>4. CASE Lanzar
    <2>1. fd[conectador'] = 0
      <3>1. Acepta(hilo[Principal].prog) /\ hilo[Principal].prog \in Conexiones
        BY <1>4, HiloProg DEF Lanzar, En, Acepta, Partes, Todos
      <3>2. QED
        BY <1>4, <3>1 DEF Lanzar, ConexionOK, EntradaOK
    <2>2. QED
      BY <1>1, <1>4, <2>1 DEF Lanzar, Pone, FdQueda, Partes, HilosOK
  <1>5. CASE PasoConectar
    BY <1>5 DEF PasoConectar, Conectar, Enlazar, FdQueda, Partes, ConOK
  <1>6. CASE \E c \in Conexiones : Aceptar(c)
    BY <1>1, <1>6 DEF Aceptar, Pone, FdQueda, Partes, ConOK, HilosOK
  <1>7. CASE \E c \in Conexiones : Desconectar(c)
    BY <1>1, <1>7 DEF Desconectar, Pone, con, FdQueda, Partes, HilosOK
  <1>8. QED
    BY <1>2, <1>3, <1>4, <1>5, <1>6, <1>7 DEF PasoAjeno

\* The handlers do not touch the list of programs.
LEMMA PasoCon ==
  ASSUME NEW h \in Hilos, PasoHilo(h)
  PROVE  UNCHANGED con
  BY DEF PasoHilo, Atender, SoltarGrado, TomaMutex, Crear, CrearFin, PlanPide, PlanMulti,
     PlanGrado, PlanEntra, PlanHilos, PlanU1, PlanJoin, PlanDesaloja, PlanEscanea, PlanBloquea,
     PlanDuerme, PlanEspera, PlanElige, PlanFin, JoinPide, JoinToma, JoinBloquea, JoinEscribe,
     JoinMarca, Cerrar, CerrarFin, Esperar, EsperaEscribe, Adormece, EsperarFin, Senalar

\* A move along the code keeps a thread on its route.
LEMMA RutaCamina ==
  ASSUME Partes, NEW h \in Hilos, RutaOK(hilo[h]), ConexionOK, Camina(h), UNCHANGED con
  PROVE  RutaOK(hilo[h])'
  <1>1. CASE hilo'[h] = Reposo
    BY <1>1 DEF RutaOK, Reposo, Destino, Planes, ConHilos, SinCorrer, Sueno, Cierres,
       Esperas, Forma
  <1>2. CASE hilo'[h] # Reposo
    <2>1. /\ hilo[h].pc \notin {"libre", "select"}
          /\ hilo'[h].pc # "libre"
          /\ hilo'[h].op = hilo[h].op /\ hilo'[h].sem = hilo[h].sem
          /\ Forma(hilo'[h])
      BY <1>2 DEF Camina
    <2>2. /\ hilo[h].prog \in Conexiones /\ fd[hilo[h].prog] # 0 /\ hilo[h].op \in Pedidos
          /\ hilo[h].prog # conectador /\ UNCHANGED <<fd, conectador>>
          /\ hilo[h].op \in {"wait", "signal"} => hilo[h].sem \in Sems
      BY <2>1 DEF RutaOK, con
    <2>3. CASE /\ hilo[h].pc = "atender" /\ hilo'[h].pc = hilo[h].op
               /\ \/ hilo'[h].prog \in Vigentes(socket[hilo[h].prog])
                  \/ hilo'[h].prog = hilo[h].prog
      <3>1. /\ hilo'[h].prog \in Conexiones /\ fd[hilo'[h].prog] # 0
            /\ hilo'[h].prog # conectador
        BY <2>2, <2>3, SuseConstantes DEF Vigentes, Partes, ConOK, ConexionOK, SinPrograma,
           EntradaOK
      <3>2. Destino(hilo'[h]) = hilo[h].op
        BY <2>2, <2>3 DEF Destino, Pedidos
      <3>3. QED
        BY <2>1, <2>2, <3>1, <3>2 DEF RutaOK, Pedidos, Planes, ConHilos, SinCorrer, Sueno,
           Cierres, Esperas
    <2>4. CASE hilo'[h].pc = "colgado" /\ hilo'[h].prog = hilo[h].prog
      BY <2>1, <2>2, <2>4 DEF RutaOK, Destino, Planes, ConHilos, SinCorrer, Sueno, Cierres,
         Esperas
    <2>5. CASE Tramo(Destino(hilo[h]), Destino(hilo'[h])) /\ hilo'[h].prog = hilo[h].prog
      <3>1. /\ Destino(hilo'[h]) \in Planes => Destino(hilo[h]) \in Planes
            /\ Destino(hilo'[h]) \in Cierres => Destino(hilo[h]) \in Cierres
            /\ Destino(hilo'[h]) \in Esperas => Destino(hilo[h]) \in Esperas
        BY <2>5 DEF Tramo, Planes, ConHilos, SinCorrer, Sueno, Cierres, Esperas
      <3>2. QED
        BY <2>1, <2>2, <2>5, <3>1 DEF RutaOK
    <2>6. QED
      BY <1>2, <2>3, <2>4, <2>5 DEF Camina
  <1>3. QED
    BY <1>1, <1>2

\* Every step keeps the threads on their routes.
LEMMA RutasPaso ==
  ASSUME Partes, RutasOK, ConexionOK, [Next]_vars
  PROVE  RutasOK' /\ FdQueda
  <1> USE DEF RutasOK
  <1>1. Hilos \subseteq Todos
    BY DEF Todos
  <1>2. ASSUME NEW h \in Hilos, PasoHilo(h)
        PROVE  RutasOK' /\ FdQueda
    <2>1. UNCHANGED con /\ UNCHANGED <<fd, conectador>> /\ FdQueda
      BY <1>2, PasoCon DEF con, FdQueda
    <2>2. Camina(h)
      BY <1>2, PasoCamina DEF RutaOK, Partes
    <2>3. \A g \in Hilos : g # h => hilo'[g] = hilo[g]
      BY <1>1, <2>2 DEF Camina, Otros
    <2>4. \A g \in Hilos : RutaOK(hilo[g])'
      <3>1. ASSUME NEW g \in Hilos, g # h
            PROVE  RutaOK(hilo[g])'
        BY <2>1, <2>3, <3>1 DEF RutaOK
      <3>2. QED
        BY <2>1, <2>2, <3>1, RutaCamina
    <2>5. Ocupados' \subseteq Ocupados
      BY <2>2, <2>3 DEF Ocupados, Camina
    <2>6. QED
      BY <2>1, <2>4, <2>5, FS_Subset
  <1>3. ASSUME NEW c \in Conexiones, PasoCliente(c), NEW h \in Hilos, Empieza(h, c)
        PROVE  RutasOK' /\ FdQueda
    <2>1. UNCHANGED <<fd, conectador>> /\ FdQueda
      BY <1>3, ClientePide DEF con, FdQueda
    <2>2. \A g \in Hilos : g # h => hilo'[g] = hilo[g]
      BY <1>1, <1>3 DEF Empieza, Otros
    <2>3. RutaOK(hilo[h])'
      <3>1. /\ hilo'[h].pc = "atender" /\ hilo'[h].op \in Pedidos /\ hilo'[h].prog = c
            /\ hilo'[h].op \in {"wait", "signal"} => hilo'[h].sem \in Sems
        BY <1>3 DEF Empieza
      <3>2. fd[c] # 0 /\ c # conectador
        <4>1. c \in abiertas /\ conectador = Nadie /\ ~Acepta(c)
          BY <1>3 DEF Empieza, Atendible, En, Acepta
        <4>2. QED
          BY <4>1, SuseConstantes DEF ConexionOK, EntradaOK
      <3>3. Destino(hilo'[h]) = "atender" /\ Forma(hilo'[h])
        BY <3>1 DEF Destino, Forma
      <3>4. QED
        BY <2>1, <3>1, <3>2, <3>3 DEF RutaOK, Planes, ConHilos, SinCorrer, Sueno, Cierres,
           Esperas
    <2>4. \A g \in Hilos : RutaOK(hilo[g])'
      <3>1. ASSUME NEW g \in Hilos, g # h
            PROVE  RutaOK(hilo[g])'
        BY <2>1, <2>2, <3>1 DEF RutaOK
      <3>2. QED
        BY <2>3, <3>1
    <2>5. Ocupados' \subseteq Ocupados \cup {h}
      BY <2>2 DEF Ocupados
    <2>6. QED
      BY <2>1, <2>4, <2>5, FS_Subset, FS_AddElement
  <1>4. CASE PasoAjeno
    <2>1. (\A h \in Hilos : hilo'[h] = hilo[h]) /\ FdQueda
      BY <1>4, AjenosQuietos
    <2>2. ASSUME NEW g \in Hilos
          PROVE  RutaOK(hilo[g])'
      <3>1. hilo'[g] = hilo[g] /\ RutaOK(hilo[g])
        BY <2>1
      <3>2. \/ fd'[hilo[g].prog] # 0 /\ conectador' # hilo[g].prog
            \/ hilo[g].pc = "libre"
        BY <2>1, <3>1, SuseConstantes DEF RutaOK, FdQueda
      <3>3. QED
        BY <3>1, <3>2 DEF RutaOK
    <2>3. Ocupados' = Ocupados
      BY <2>1 DEF Ocupados
    <2>4. QED
      BY <2>1, <2>2, <2>3
  <1>5. QED
    BY <1>2, <1>3, <1>4, ClientePide DEF Next, PasoAjeno

\* Whatever a program acquires, it acquires after it connected.
LEMMA SinProgramaPaso ==
  ASSUME Partes, RutasOK, ConexionOK, [Next]_vars
  PROVE  SinPrograma'
  <1>1. SUFFICES ASSUME NEW c \in Conexiones, fd'[c] = 0 \/ c = conectador'
                 PROVE  /\ c \notin programas'
                        /\ \A t \in Tids : estado'[c][t] = "Nada"
                        /\ TieneHilos(c) \notin marca' /\ Bloqueado(c) \notin marca'
    BY DEF SinPrograma, TieneHilos, Bloqueado
  <1>2. /\ fd[c] = 0 \/ c = conectador
        /\ c \notin programas
        /\ \A t \in Tids : estado[c][t] = "Nada"
        /\ TieneHilos(c) \notin marca /\ Bloqueado(c) \notin marca
    <2>1. fd[c] = 0 \/ c = conectador
      BY <1>1, RutasPaso, SuseConstantes DEF FdQueda
    <2>2. QED
      BY <2>1 DEF ConexionOK, SinPrograma
  <1>3. ASSUME NEW h \in Hilos, PasoHilo(h)
        PROVE  /\ c \notin programas'
               /\ \A t \in Tids : estado'[c][t] = "Nada"
               /\ TieneHilos(c) \notin marca' /\ Bloqueado(c) \notin marca'
    <2>1. UNCHANGED programas
      BY <1>3, PasoCon DEF con
    <2>2. CASE Senalar(h)
      BY <1>2, <2>1, <2>2, SenalarToca DEF Ults
    <2>3. CASE ~Senalar(h)
      <3>1. Camina(h)
        BY <1>3, PasoCamina DEF RutasOK, RutaOK, Partes
      <3>2. hilo[h].prog # c
        BY <1>2, <3>1 DEF Camina, RutasOK, RutaOK
      <3>3. Intacto(c)
        BY <1>3, <2>3, <3>2, SoloSuyo
      <3>4. QED
        BY <1>2, <2>1, <3>3 DEF Intacto, Etiquetas, TieneHilos, Bloqueado
    <2>4. QED
      BY <2>2, <2>3
  <1>4. ASSUME NEW d \in Conexiones, PasoCliente(d)
        PROVE  /\ c \notin programas'
               /\ \A t \in Tids : estado'[c][t] = "Nada"
               /\ TieneHilos(c) \notin marca' /\ Bloqueado(c) \notin marca'
    BY <1>2, <1>4, ClientePide DEF con, ults
  <1>5. CASE PasoAjeno
    <2>1. UNCHANGED ults /\ UNCHANGED marca
      BY <1>5, AjenosQuietos
    <2>2. c \notin programas'
      <3>1. CASE Enlazar
        BY <1>1, <1>2, <3>1, SuseConstantes DEF Enlazar
      <3>2. CASE ~Enlazar
        BY <1>2, <1>5, <3>2 DEF PasoAjeno, vars, con, PasoPrincipal, PasoConectar, Conectar,
           TomaMutex, DescUlts, SoltarGrado, DescFin, Lanzar, Aceptar, Desconectar
      <3>3. QED
        BY <3>1, <3>2
    <2>3. QED
      BY <1>2, <2>1, <2>2 DEF ults
  <1>6. QED
    BY <1>3, <1>4, <1>5 DEF Next, PasoAjeno

\* The steps that leave main and the list of connections alone.
LEMMA ConexionIgual ==
  ASSUME Partes, ConexionOK, UNCHANGED con, hilo'[Principal] = hilo[Principal]
  PROVE  EntradaOK' /\ PrincipalOK' /\ ListaOK'
  BY DEF con, ConexionOK, EntradaOK, PrincipalOK, ListaOK, CadaUnoSuFd, Acepta

\* What accept, conectar and the disconnection keep of the connections.
LEMMA EntradaPaso ==
  ASSUME Partes, ConexionOK, PasoAjeno
  PROVE  EntradaOK' /\ PrincipalOK'
  <1> USE DEF EntradaOK, PrincipalOK, Acepta
  <1> DEFINE m == hilo[Principal]
  <1>1. /\ SinPrograma /\ EntradaOK /\ PrincipalOK /\ HilosOK /\ ConOK
        /\ Principal \in Todos /\ m \in TipoHilo
        /\ Nadie \notin Conexiones
        /\ EnSelect.pc = "select"
    BY SuseConstantes DEF ConexionOK, Partes, HilosOK, Todos, EnSelect, Reposo
  <1>2. CASE UNCHANGED vars
    BY <1>1, <1>2 DEF vars
  <1>3. ASSUME NEW c \in Conexiones, Aceptar(c)
        PROVE  EntradaOK' /\ PrincipalOK'
    <2>1. /\ m.pc = "select" /\ socket[c] = 0
          /\ socket'[c] # 0 /\ nuevofd' # 0
          /\ \A d \in Conexiones : d # c => socket'[d] = socket[d]
          /\ abiertas' = abiertas \cup {c}
          /\ UNCHANGED <<conectador, fd, programas>>
      BY <1>1, <1>3, SuseConstantes DEF Aceptar, En, Libres, ConOK
    <2>2. hilo'[Principal].pc = "acepta" /\ hilo'[Principal].prog = c
      BY <1>1, <1>3 DEF Aceptar, Pone, HilosOK, TipoHilo
    <2>3. QED
      BY <1>1, <2>1, <2>2 DEF ConOK
  <1>4. CASE Lanzar
    <2>1. m.pc = "acepta" /\ m.prog \in Conexiones /\ conectador' = m.prog
      BY <1>1, <1>4, HiloProg DEF Lanzar, En
    <2>2. hilo'[Principal].pc = "select"
      BY <1>1, <1>4 DEF Lanzar, Pone, HilosOK
    <2>3. UNCHANGED <<socket, abiertas, nuevofd, fd, programas>> /\ conectador = Nadie
      BY <1>4 DEF Lanzar
    <2>4. QED
      BY <1>1, <2>1, <2>2, <2>3 DEF SinPrograma
  <1>5. CASE Conectar
    <2>1. /\ conectador \in Conexiones
          /\ fd'[conectador] = nuevofd
          /\ \A d \in Conexiones : d # conectador => fd'[d] = fd[d]
          /\ UNCHANGED <<socket, abiertas, nuevofd, conectador, programas, hilo>>
      BY <1>1, <1>5 DEF Conectar, ConOK
    <2>2. QED
      BY <1>1, <2>1 DEF ConOK
  <1>6. CASE Enlazar
    BY <1>1, <1>6 DEF Enlazar, ConOK
  <1>7. ASSUME NEW c \in Conexiones, Desconectar(c)
        PROVE  EntradaOK' /\ PrincipalOK'
    <2>1. PICK p \in Vigentes(socket[c]) :
            Pone(Principal, [hilo[Principal] EXCEPT
                    !.pc = IF <<p, "planificando">> \in marca
                           THEN "descMutex" ELSE "descUlts",
                    !.prog = p])
      BY <1>7 DEF Desconectar
    <2>2. hilo'[Principal].pc \in {"descMutex", "descUlts"} /\ hilo'[Principal].prog = p
      BY <1>1, <2>1 DEF Pone, HilosOK, TipoHilo
    <2>3. p \in programas
      BY DEF Vigentes
    <2>4. conectador = Nadie /\ m.pc = "select"
      BY <1>7 DEF Desconectar, Atendible, En
    <2>5. UNCHANGED <<socket, abiertas, nuevofd, conectador, fd, programas>>
      BY <1>7 DEF Desconectar, con
    <2>6. QED
      BY <1>1, <2>2, <2>3, <2>4, <2>5
  <1>8. CASE DescFin
    <2>1. m.pc = "descFin" /\ hilo'[Principal].pc = "select"
      BY <1>1, <1>8 DEF DescFin, En, Pone, HilosOK
    <2>2. QED
      BY <1>1, <1>8, <2>1 DEF DescFin
  <1>9. CASE \/ TomaMutex(Principal, "descMutex", "descUlts") \/ DescUlts
             \/ SoltarGrado(Principal)
    <2>1. UNCHANGED <<socket, abiertas, nuevofd, conectador, fd, programas>>
      BY <1>9 DEF TomaMutex, DescUlts, SoltarGrado, con
    <2>2. m.pc \in {"descMutex", "descUlts", "suelta"}
      BY <1>9 DEF TomaMutex, DescUlts, SoltarGrado, En
    <2>3. /\ hilo'[Principal].pc \in {"descUlts", "suelta", "descFin"}
          /\ hilo'[Principal].pc = "suelta" => hilo'[Principal].sigue = "descFin"
          /\ hilo'[Principal].prog = m.prog
      <3>1. CASE TomaMutex(Principal, "descMutex", "descUlts")
        BY <1>1, <3>1, CamposVa DEF TomaMutex
      <3>2. CASE DescUlts
        <4>1. Va(Principal, "descFin") \/ VaASoltar(Principal, "descFin")
          BY <3>2 DEF DescUlts
        <4>2. QED
          BY <1>1, <4>1, CamposVa, SueltaSalta DEF Salta, Vueltas, Partes
      <3>3. CASE SoltarGrado(Principal)
        <4>1. Pone(Principal, [m EXCEPT !.pc = "descFin", !.visto = 0, !.sigue = "libre"])
          BY <1>1, <3>3 DEF SoltarGrado, En
        <4>2. QED
          BY <1>1, <4>1 DEF Pone, HilosOK, TipoHilo
      <3>4. QED
        BY <1>9, <3>1, <3>2, <3>3
    <2>4. QED
      BY <1>1, <2>1, <2>2, <2>3
  <1>10. QED
    BY <1>2, <1>3, <1>4, <1>5, <1>6, <1>7, <1>8, <1>9 DEF PasoAjeno, PasoPrincipal,
       PasoConectar

\* A descriptor that was mistaken stays so.
LEMMA CadaUnoQueda ==
  ASSUME ConexionOK, FdQueda, CadaUnoSuFd'
  PROVE  CadaUnoSuFd
  BY DEF ConexionOK, EntradaOK, FdQueda, CadaUnoSuFd

\* And of the list of programs.
LEMMA ListaPaso ==
  ASSUME Partes, ConexionOK, PasoAjeno
  PROVE  ListaOK'
  <1> USE DEF ListaOK
  <1>1. /\ SinPrograma /\ EntradaOK /\ PrincipalOK /\ ListaOK /\ HilosOK /\ ConOK
        /\ CadaUnoSuFd' => CadaUnoSuFd
    BY AjenosQuietos, CadaUnoQueda DEF ConexionOK, Partes
  <1>2. ASSUME NEW c \in Conexiones, Aceptar(c)
        PROVE  ListaOK'
    <2>1. /\ socket[c] = 0
          /\ \A d \in Conexiones : d # c => socket'[d] = socket[d]
          /\ abiertas' = abiertas \cup {c}
          /\ \A d \in abiertas : socket[d] # socket'[c]
          /\ UNCHANGED <<programas, detras>>
      BY <1>1, <1>2 DEF Aceptar, Libres, ConOK
    <2>2. c \notin abiertas
      BY <1>1, <2>1 DEF EntradaOK
    <2>3. QED
      BY <1>1, <2>1, <2>2 DEF ConOK
  <1>3. CASE DescFin
    <2> DEFINE p == hilo[Principal].prog
    <2>1. /\ p \in programas
          /\ programas' = programas \ {p}
          /\ abiertas' = {c \in abiertas : socket[c] # fd[p]}
          /\ UNCHANGED <<socket, fd, detras>>
      BY <1>1, <1>3 DEF DescFin, En, PrincipalOK
    <2>2. ASSUME CadaUnoSuFd'
          PROVE  programas' \subseteq abiertas'
      <3>1. CadaUnoSuFd /\ programas \subseteq abiertas /\ fd[p] # 0
        BY <1>1, <2>1, <2>2 DEF SinPrograma, ConOK
      <3>2. fd[p] = socket[p] /\ p \in abiertas
        BY <1>1, <2>1, <3>1 DEF CadaUnoSuFd, ConOK
      <3>3. QED
        BY <1>1, <2>1, <3>1, <3>2
    <2>3. QED
      BY <1>1, <2>1, <2>2
  <1>4. CASE Enlazar
    BY <1>1, <1>4 DEF Enlazar, EntradaOK, ConOK
  <1>5. CASE UNCHANGED <<socket, abiertas, programas, detras>>
    BY <1>1, <1>5
  <1>6. QED
    BY <1>2, <1>3, <1>4, <1>5 DEF PasoAjeno, PasoPrincipal, PasoConectar, Conectar, TomaMutex,
       DescUlts, SoltarGrado, Lanzar, Desconectar, vars, con

\* Every step keeps what is known of the connections.
LEMMA ConexionPaso ==
  ASSUME Partes, RutasOK, ConexionOK, [Next]_vars
  PROVE  ConexionOK'
  <1>1. Principal \notin Hilos /\ Principal \in Todos
    BY SuseConstantes DEF Todos
  <1>2. ASSUME NEW h \in Hilos, PasoHilo(h)
        PROVE  EntradaOK' /\ PrincipalOK' /\ ListaOK'
    <2>1. Camina(h)
      BY <1>2, PasoCamina DEF RutasOK, RutaOK, Partes
    <2>2. QED
      BY <1>1, <1>2, <2>1, PasoCon, ConexionIgual DEF Camina, Otros
  <1>3. ASSUME NEW d \in Conexiones, PasoCliente(d)
        PROVE  EntradaOK' /\ PrincipalOK' /\ ListaOK'
    BY <1>1, <1>3, ClientePide, ConexionIgual DEF Empieza, Otros
  <1>4. CASE PasoAjeno
    BY <1>4, EntradaPaso, ListaPaso, SinProgramaPaso DEF ConexionOK
  <1>5. QED
    BY <1>2, <1>3, <1>4, SinProgramaPaso DEF Next, PasoAjeno, ConexionOK

\* While no descriptor is mistaken, a program of the list is found by its own.
LEMMA UnicoVigente ==
  ASSUME Partes, ConexionOK, CadaUnoSuFd, NEW c \in programas
  PROVE  Vigentes(fd[c]) = {c} /\ fd[c] # 0 /\ fd[c] = socket[c]
  <1>1. programas \subseteq Conexiones /\ programas \subseteq abiertas
    BY DEF Partes, ConOK, ConexionOK, ListaOK
  <1>2. \A d \in programas : fd[d] # 0 /\ fd[d] = socket[d]
    BY <1>1 DEF ConexionOK, SinPrograma, CadaUnoSuFd
  <1>3. \A d \in programas : fd[d] = fd[c] => d = c
    BY <1>1, <1>2 DEF ConexionOK, ListaOK
  <1>4. c \notin detras[c]
    BY <1>1 DEF ConexionOK, ListaOK
  <1>5. QED
    BY <1>2, <1>3, <1>4 DEF Vigentes

\* What the invariants of the handlers rest on.
THEOREM Cimientos == Spec => []Base
  <1>1. Init => RutasOK /\ ConexionOK
    <2> SUFFICES ASSUME Init PROVE RutasOK /\ ConexionOK
      OBVIOUS
    <2>1. \A h \in Hilos : hilo[h] = Reposo
      BY SuseConstantes DEF Init, Todos
    <2>2. \A h \in Hilos : RutaOK(hilo[h])
      BY <2>1 DEF RutaOK, Reposo, Destino, Planes, ConHilos, SinCorrer, Sueno, Cierres,
         Esperas, Forma
    <2>3. Ocupados = {}
      BY <2>1 DEF Ocupados, Reposo
    <2>4. ConexionOK
      BY SuseConstantes DEF Init, ConexionOK, SinPrograma, EntradaOK, PrincipalOK, ListaOK,
         Acepta, EnSelect, Reposo, Todos
    <2>5. QED
      BY <2>2, <2>3, <2>4, FS_EmptySet DEF RutasOK
  <1>2. IInv /\ RutasOK /\ ConexionOK /\ [Next]_vars => RutasOK' /\ ConexionOK'
    BY SonPartes, RutasPaso, ConexionPaso DEF IInv
  <1>3. IInv /\ RutasOK /\ ConexionOK => Base
    BY SonPartes DEF IInv, Base
  <1>4. QED
    BY <1>1, <1>2, <1>3, Invariante, PTL DEF Spec

-----------------------------------------------------------------------------
\* The flag tienehilos stays up once raised, and hilos opens with the first crear,
\* which then raises it.
HilosDe(c) ==
    /\ TieneHilos(c) \in marca => TieneHilos(c) \in marca'
    /\ <<c, "hilos">> \in tomado /\ <<c, "hilos">> \notin tomado' => ConPrimerUlt(c)'

\* No step of a handler opens hilos without a crear behind it.
LEMMA HilosDePaso ==
  ASSUME Partes, NEW h \in Hilos, PasoHilo(h), NEW c \in Conexiones
  PROVE  HilosDe(c)
  <1>1. c # Nadie
    BY SuseConstantes
  <1>2. CASE Senalar(h)
    BY <1>2, SenalarToca DEF HilosDe, TieneHilos, Etiquetas
  <1>3. CASE Crear(h)
    <2>1. UNCHANGED marca
      BY <1>3 DEF Crear
    <2>2. ASSUME <<c, "hilos">> \in tomado, <<c, "hilos">> \notin tomado'
          PROVE  ConPrimerUlt(c)'
      <3>1. Va(h, "crear3") /\ hilo[h].prog = c
        BY <1>3, <2>2 DEF Crear, Abre, Mutex
      <3>2. hilo'[h].pc = "crear3" /\ hilo'[h].prog = c
        BY <3>1, CamposVa DEF Partes, Todos
      <3>3. QED
        BY <3>2 DEF ConPrimerUlt
    <2>3. QED
      BY <2>1, <2>2 DEF HilosDe
  <1>4. ASSUME NEW l, NEW p, TomaMutex(h, l, p)
        PROVE  HilosDe(c)
    BY <1>4 DEF TomaMutex, Toma, HilosDe
  <1>5. CASE \/ Atender(h) \/ SoltarGrado(h) \/ PlanPide(h) \/ PlanMulti(h) \/ PlanGrado(h)
             \/ PlanEntra(h) \/ PlanHilos(h) \/ PlanU1(h) \/ PlanJoin(h) \/ PlanDesaloja(h)
             \/ PlanEscanea(h) \/ PlanElige(h)
    BY <1>1, <1>5 DEF Atender, SoltarGrado, PlanPide, PlanMulti, PlanGrado, PlanEntra,
       PlanHilos, PlanU1, PlanJoin, PlanDesaloja, PlanEscanea, PlanElige, HilosDe, TieneHilos,
       Toma, Abre, CandadoMulti
  <1>6. CASE \/ PlanBloquea(h) \/ PlanDuerme(h) \/ PlanEspera(h) \/ PlanFin(h) \/ CrearFin(h)
             \/ JoinPide(h) \/ JoinToma(h) \/ JoinBloquea(h) \/ JoinMarca(h) \/ Cerrar(h)
             \/ CerrarFin(h) \/ Esperar(h) \/ EsperarFin(h)
    BY <1>6 DEF PlanBloquea, PlanDuerme, PlanEspera, PlanFin, CrearFin, JoinPide, JoinToma,
       JoinBloquea, JoinMarca, Cerrar, CerrarFin, Esperar, EsperarFin, HilosDe, TieneHilos,
       Toma, Abre, Mutex, Bloqueado, ults
  <1>7. CASE JoinEscribe(h) \/ EsperaEscribe(h)
    BY <1>7 DEF JoinEscribe, EsperaEscribe, Adormece, HilosDe
  <1>8. QED
    BY <1>2, <1>3, <1>4, <1>5, <1>6, <1>7 DEF PasoHilo

\* A program that has its first ult keeps it: the crear that opened hilos raises the
\* flag next.
LEMMA PrimerUltQueda ==
  ASSUME Partes, RutasOK, NEW h \in Hilos, PasoHilo(h), NEW c \in Conexiones, ConPrimerUlt(c)
  PROVE  ConPrimerUlt(c)'
  <1>1. CASE TieneHilos(c) \in marca
    BY <1>1, HilosDePaso DEF HilosDe, ConPrimerUlt, TieneHilos
  <1>2. ASSUME NEW g \in Hilos, hilo[g].pc = "crear3", hilo[g].prog = c
        PROVE  ConPrimerUlt(c)'
    <2>1. CASE g = h
      <3>1. CrearFin(h)
        BY <1>2, <2>1 DEF PasoHilo, En, Atender, SoltarGrado, TomaMutex, Crear, PlanPide,
           PlanMulti, PlanGrado, PlanEntra, PlanHilos, PlanU1, PlanJoin, PlanDesaloja,
           PlanEscanea, PlanBloquea, PlanDuerme, PlanEspera, PlanElige, PlanFin, JoinPide,
           JoinToma, JoinBloquea, JoinEscribe, JoinMarca, Cerrar, CerrarFin, Esperar,
           EsperaEscribe, Adormece, EsperarFin, Senalar
      <3>2. QED
        BY <1>2, <2>1, <3>1 DEF CrearFin, ConPrimerUlt, TieneHilos
    <2>2. CASE g # h
      <3>1. Camina(h) /\ g \in Todos
        BY PasoCamina DEF RutasOK, RutaOK, Partes, Todos
      <3>2. QED
        BY <1>2, <2>2, <3>1 DEF Camina, Otros, ConPrimerUlt
    <2>3. QED
      BY <2>1, <2>2
  <1>3. QED
    BY <1>1, <1>2 DEF ConPrimerUlt

\* PlanificaConHilos is not inductive: planificar is let through by the flag
\* tienehilos or by the mutex hilos, so that mutex must be closed until the first
\* crear, and the places between (asleep, taking a degree again) count as well.
HilosAbierto ==
    /\ \A c \in Conexiones :
          fd[c] # 0 /\ <<c, "hilos">> \notin tomado => ConPrimerUlt(c)
    /\ \A h \in Hilos :
          Destino(hilo[h]) \in ConHilos => ConPrimerUlt(hilo[h].prog)

\* A thread gets past the wait for the first crear only by the flag or by the mutex.
LEMMA ConHilosEntra ==
  ASSUME Partes, RutasOK, NEW h \in Hilos, PasoHilo(h), Destino(hilo'[h]) \in ConHilos
  PROVE  /\ hilo'[h].prog = hilo[h].prog /\ hilo[h].pc \notin {"libre", "select"}
         /\ \/ Destino(hilo[h]) \in ConHilos
            \/ TieneHilos(hilo[h].prog) \in marca
            \/ <<hilo[h].prog, "hilos">> \notin tomado
  <1>1. Camina(h) /\ h \in Todos /\ HilosOK
    BY PasoCamina DEF RutasOK, RutaOK, Partes, Todos
  <1>2. ~(Destino(Reposo) \in ConHilos) /\ ~("colgado" \in ConHilos)
    BY DEF Destino, Reposo, ConHilos, SinCorrer, Sueno
  <1>3. ~(\E o \in Pedidos : Destino(hilo'[h]) = o)
    BY DEF Pedidos, ConHilos, SinCorrer, Sueno
  <1>4. /\ Tramo(Destino(hilo[h]), Destino(hilo'[h]))
        /\ Destino(hilo'[h]) = Destino(hilo[h]) \/ hilo[h].pc = Destino(hilo[h])
        /\ hilo'[h].prog = hilo[h].prog
    <2>1. hilo'[h].pc \in Pedidos \cup {"colgado"} => Destino(hilo'[h]) = hilo'[h].pc
      BY DEF Destino, Pedidos
    <2>2. hilo'[h] # Reposo /\ hilo'[h].pc \notin Pedidos \cup {"colgado"}
      BY <1>2, <1>3, <2>1
    <2>3. "signal" \in Pedidos
      BY DEF Pedidos
    <2>4. QED
      BY <1>1, <2>2, <2>3 DEF Camina
  <1>5. CASE Destino(hilo[h]) \notin ConHilos
    <2>1. hilo[h].pc \in {"planEntra", "planHilos"} /\ Destino(hilo'[h]) = "planU1"
      BY <1>4, <1>5 DEF Tramo, ConHilos, SinCorrer, Sueno
    <2>2. PlanEntra(h) \/ PlanHilos(h)
      BY <2>1 DEF PasoHilo, En, Atender, SoltarGrado, TomaMutex, Crear, CrearFin, PlanPide,
         PlanMulti, PlanGrado, PlanU1, PlanJoin, PlanDesaloja, PlanEscanea, PlanBloquea,
         PlanDuerme, PlanEspera, PlanElige, PlanFin, JoinPide, JoinToma, JoinBloquea,
         JoinEscribe, JoinMarca, Cerrar, CerrarFin, Esperar, EsperaEscribe, Adormece,
         EsperarFin, Senalar
    <2>3. CASE PlanEntra(h)
      <3>1. CASE TieneHilos(hilo[h].prog) \notin marca
        <4>1. Va(h, "planHilos")
          BY <2>3, <3>1 DEF PlanEntra
        <4>2. Destino(hilo'[h]) = "planHilos"
          BY <1>1, <4>1, CamposVa DEF Destino
        <4>3. QED
          BY <2>1, <4>2
      <3>2. QED
        BY <1>1, <1>4, <3>1 DEF Camina
    <2>4. CASE PlanHilos(h)
      BY <1>1, <1>4, <2>4 DEF PlanHilos, Toma, Camina
    <2>5. QED
      BY <2>2, <2>3, <2>4
  <1>6. QED
    BY <1>1, <1>4, <1>5 DEF Camina

\* Every step keeps hilos closed, and planificar behind it, until the first crear.
LEMMA HilosAbiertoPaso ==
  ASSUME Base, HilosAbierto, [Next]_vars
  PROVE  HilosAbierto'
  <1>1. Partes /\ RutasOK /\ ConexionOK
    BY DEF Base
  <1>2. Hilos \subseteq Todos
    BY DEF Todos
  <1>3. ASSUME NEW h \in Hilos, PasoHilo(h)
        PROVE  HilosAbierto'
    <2>1. \A c \in Conexiones : HilosDe(c) /\ (ConPrimerUlt(c) => ConPrimerUlt(c)')
      BY <1>1, <1>3, HilosDePaso, PrimerUltQueda
    <2>2. UNCHANGED fd
      BY <1>3, PasoCon DEF con
    <2>3. ASSUME NEW c \in Conexiones, fd'[c] # 0 /\ <<c, "hilos">> \notin tomado'
          PROVE  ConPrimerUlt(c)'
      BY <2>1, <2>2, <2>3 DEF HilosDe, HilosAbierto
    <2>4. ASSUME NEW g \in Hilos, Destino(hilo'[g]) \in ConHilos
          PROVE  ConPrimerUlt(hilo[g].prog)'
      <3>1. CASE g # h
        <4>1. hilo'[g] = hilo[g]
          BY <1>1, <1>2, <1>3, <3>1, PasoCamina DEF Camina, Otros, RutasOK, RutaOK, Partes
        <4>2. hilo[g].prog \in Conexiones
          BY <1>1, <2>4, <4>1 DEF RutasOK, RutaOK, Destino, ConHilos, SinCorrer, Sueno
        <4>3. ConPrimerUlt(hilo[g].prog) /\ Destino(hilo[g]) \in ConHilos
          BY <2>4, <4>1 DEF HilosAbierto
        <4>4. QED
          BY <1>1, <1>3, <4>1, <4>2, <4>3, PrimerUltQueda DEF ConPrimerUlt
      <3>2. CASE g = h
        <4>1. /\ hilo'[h].prog = hilo[h].prog /\ hilo[h].pc \notin {"libre", "select"}
              /\ \/ Destino(hilo[h]) \in ConHilos
                 \/ TieneHilos(hilo[h].prog) \in marca
                 \/ <<hilo[h].prog, "hilos">> \notin tomado
          BY <1>1, <1>3, <2>4, <3>2, ConHilosEntra
        <4>2. hilo[h].prog \in Conexiones /\ fd[hilo[h].prog] # 0
          BY <1>1, <4>1 DEF RutasOK, RutaOK
        <4>3. ConPrimerUlt(hilo[h].prog)
          BY <4>1, <4>2 DEF HilosAbierto, ConPrimerUlt
        <4>4. QED
          BY <1>1, <1>3, <3>2, <4>1, <4>2, <4>3, PrimerUltQueda DEF ConPrimerUlt
      <3>3. QED
        BY <3>1, <3>2
    <2>5. QED
      BY <2>3, <2>4 DEF HilosAbierto
  <1>4. ASSUME NEW c \in Conexiones, PasoCliente(c)
        PROVE  HilosAbierto'
    <2>1. PICK h \in Hilos : Empieza(h, c)
      BY <1>1, <1>4, ClientePide
    <2>2. UNCHANGED <<fd, marca, tomado>>
      BY <1>1, <1>4, ClientePide DEF con
    <2>3. ASSUME NEW g \in Hilos, Destino(hilo'[g]) \in ConHilos
          PROVE  hilo'[g] = hilo[g]
      BY <1>2, <2>1, <2>3 DEF Empieza, Otros, Destino, ConHilos, SinCorrer, Sueno
    <2>4. \A d \in Conexiones : ConPrimerUlt(d) => ConPrimerUlt(d)'
      BY <1>2, <2>1, <2>2 DEF ConPrimerUlt, TieneHilos, Empieza, Otros
    <2>5. ASSUME NEW g \in Hilos, Destino(hilo'[g]) \in ConHilos
          PROVE  ConPrimerUlt(hilo[g].prog)'
      <3>1. hilo'[g] = hilo[g] /\ hilo[g].prog \in Conexiones
        BY <1>1, <2>3, <2>5 DEF RutasOK, RutaOK, Destino, ConHilos, SinCorrer, Sueno
      <3>2. ConPrimerUlt(hilo[g].prog)
        BY <2>5, <3>1 DEF HilosAbierto
      <3>3. QED
        BY <2>4, <3>1, <3>2 DEF ConPrimerUlt
    <2>6. QED
      BY <2>2, <2>4, <2>5 DEF HilosAbierto
  <1>5. CASE PasoAjeno
    <2>1. /\ \A h \in Hilos : hilo'[h] = hilo[h]
          /\ UNCHANGED marca
      BY <1>1, <1>5, AjenosQuietos
    <2>2. ASSUME NEW c \in Conexiones, fd'[c] # 0 /\ <<c, "hilos">> \notin tomado'
          PROVE  fd[c] # 0 /\ <<c, "hilos">> \notin tomado
      <3>1. c # Nadie
        BY SuseConstantes
      <3>2. CASE Conectar
        BY <1>1, <2>2, <3>2 DEF Conectar, Cerrados, Partes, ConOK
      <3>3. CASE ~Conectar
        BY <1>5, <2>2, <3>1, <3>3 DEF PasoAjeno, vars, con, PasoPrincipal, PasoConectar,
           TomaMutex, DescUlts, SoltarGrado, DescFin, Lanzar, Enlazar, Aceptar, Desconectar,
           Toma, Abre, CandadoMulti
      <3>4. QED
        BY <3>2, <3>3
    <2>3. ASSUME NEW d, ConPrimerUlt(d)
          PROVE  ConPrimerUlt(d)'
      BY <2>1, <2>3 DEF ConPrimerUlt, TieneHilos
    <2>4. ASSUME NEW g \in Hilos, Destino(hilo'[g]) \in ConHilos
          PROVE  ConPrimerUlt(hilo[g].prog)'
      <3>1. hilo'[g] = hilo[g] /\ ConPrimerUlt(hilo[g].prog)
        BY <2>1, <2>4 DEF HilosAbierto
      <3>2. QED
        BY <2>3, <3>1 DEF ConPrimerUlt
    <2>5. QED
      BY <2>2, <2>3, <2>4 DEF HilosAbierto
  <1>6. QED
    BY <1>3, <1>4, <1>5 DEF Next, PasoAjeno

\* planificar never looks for a ult, nor chooses one, in a program that has made
\* none yet, however its requests and those of other programs interleave.
THEOREM PlanificaTrasCrear == Spec => []PlanificaConHilos
  <1>1. Init => HilosAbierto
    <2> SUFFICES ASSUME Init PROVE HilosAbierto
      OBVIOUS
    <2>1. \A h \in Hilos : hilo[h] = Reposo
      BY SuseConstantes DEF Init, Todos
    <2>2. QED
      BY <2>1 DEF HilosAbierto, Init, Reposo, Destino, ConHilos, SinCorrer, Sueno
  <1>2. Base /\ HilosAbierto /\ [Next]_vars => HilosAbierto'
    BY HilosAbiertoPaso
  <1>3. HilosAbierto => PlanificaConHilos
    BY DEF HilosAbierto, PlanificaConHilos, Destino, ConHilos, SinCorrer
  <1>4. QED
    BY <1>1, <1>2, <1>3, Cimientos, PTL DEF Spec

-----------------------------------------------------------------------------
\* An ult other than main is blocked by wait only, at once or after it gave its
\* degree back.
LEMMA SoloWaitBloquea ==
  ASSUME Partes, NEW h \in Hilos, PasoHilo(h), ~Esperar(h), ~EsperaEscribe(h),
         NEW c \in Conexiones, NEW t \in Tids \ {0}, estado'[c][t] = "Bloqueado"
  PROVE  estado[c][t] = "Bloqueado"
  <1>1. estado \in [Conexiones -> [Tids -> Estados]] /\ 0 \in Tids
    BY SuseConstantes DEF Partes, UltsOK
  <1>2. CASE Senalar(h)
    <2>1. CASE estado'[c] = estado[c]
      BY <2>1
    <2>2. CASE \E u \in Ults(c) : estado'[c] = [estado[c] EXCEPT ![u] = "Listo"]
      BY <1>1, <2>2 DEF Ults
    <2>3. QED
      BY <1>2, <2>1, <2>2, SenalarToca
  <1>3. CASE Crear(h)
    BY <1>1, <1>3 DEF Crear
  <1>4. CASE PlanDesaloja(h) \/ PlanElige(h) \/ JoinBloquea(h) \/ JoinEscribe(h)
    <2> DEFINE d == hilo[h].prog
    <2>1. \/ UNCHANGED estado
          \/ \E u : estado' = [estado EXCEPT ![d][u] = "Listo"]
          \/ \E u : estado' = [estado EXCEPT ![d][u] = "Ejecutando"]
          \/ \E x : estado' = [estado EXCEPT ![d][0] = x]
      BY <1>4 DEF PlanDesaloja, PlanElige, JoinBloquea, JoinEscribe, Adormece
    <2> HIDE DEF d
    <2>2. QED
      BY <1>1, <2>1
  <1>5. CASE JoinMarca(h)
    BY <1>1, <1>5 DEF JoinMarca, ults
  <1>6. CASE Cerrar(h)
    BY <1>1, <1>6 DEF Cerrar, ults
  <1>7. CASE UNCHANGED estado
    BY <1>7
  <1>8. CASE \/ \E l, p : TomaMutex(h, l, p)
             \/ Atender(h) \/ SoltarGrado(h) \/ PlanPide(h) \/ PlanMulti(h) \/ PlanGrado(h)
             \/ PlanEntra(h) \/ PlanHilos(h) \/ PlanU1(h) \/ PlanJoin(h) \/ PlanEscanea(h)
             \/ PlanBloquea(h) \/ PlanDuerme(h) \/ PlanEspera(h) \/ PlanFin(h)
             \/ JoinPide(h) \/ JoinToma(h) \/ CrearFin(h) \/ CerrarFin(h) \/ EsperarFin(h)
    <2>1. UNCHANGED estado
      BY <1>8 DEF TomaMutex, Atender, SoltarGrado, PlanPide, PlanMulti, PlanGrado, PlanEntra,
         PlanHilos, PlanU1, PlanJoin, PlanEscanea, PlanBloquea, PlanDuerme, PlanEspera,
         PlanFin, JoinPide, JoinToma, CrearFin, CerrarFin, EsperarFin, ults
    <2>2. QED
      BY <2>1
  <1>9. QED
    BY <1>2, <1>3, <1>4, <1>5, <1>6, <1>8 DEF PasoHilo

\* The ult t of the descriptor f is in the queue of a semaphore.
EnCola(f, t) == \E s \in Sems : \E i \in 1 .. Len(cola[s]) : cola[s][i] = <<f, t>>

\* A longer queue keeps its waiters and has the new one at its end.
LEMMA ColaCrece ==
  ASSUME NEW S, NEW q \in Seq(S), NEW w \in S
  PROVE  /\ Len(Append(q, w)) = Len(q) + 1 /\ Append(q, w)[Len(q) + 1] = w
         /\ \A i \in 1 .. Len(q) : i \in 1 .. Len(q) + 1 /\ Append(q, w)[i] = q[i]
  OBVIOUS

\* A queue without its head keeps the other waiters.
LEMMA ColaMengua ==
  ASSUME NEW S, NEW q \in Seq(S), q # <<>>
  PROVE  \A i \in 1 .. Len(q) : i = 1 \/ (i - 1 \in 1 .. Len(Tail(q)) /\ Tail(q)[i - 1] = q[i])
  OBVIOUS

\* wait puts the ult it blocks in the queue, and takes nobody out.
LEMMA EsperarEncola ==
  ASSUME Partes, RutasOK, NEW h \in Hilos, Esperar(h), NEW c \in Conexiones, NEW t \in Tids,
         estado'[c][t] = "Bloqueado", estado[c][t] = "Bloqueado" => EnCola(fd[c], t)
  PROVE  EnCola(fd[c], t)'
  <1> DEFINE d == hilo[h].prog
             u == hilo[h].tid
             s == hilo[h].sem
             w == <<fd[d], u>>
  <1>1. /\ hilo[h].pc = "wait2" /\ h \in Todos /\ hilo[h] \in TipoHilo
        /\ UNCHANGED fd
    BY DEF Esperar, En, Partes, HilosOK, Todos, con
  <1>2. s \in Sems /\ d \in Conexiones /\ u \in Tids
    <2>1. Destino(hilo[h]) \in Esperas /\ hilo[h].pc # "libre"
      BY <1>1 DEF Destino, Esperas
    <2>2. QED
      BY <1>1, <2>1 DEF RutasOK, RutaOK, TipoHilo
  <1>3. w \in Esperador
    BY <1>2 DEF Esperador, Partes, ConOK
  <1>4. cola \in [Sems -> Seq(Esperador)] /\ estado \in [Conexiones -> [Tids -> Estados]]
    BY DEF Partes, SemsOK, UltsOK
  <1>5. \/ UNCHANGED cola /\ UNCHANGED estado
        \/ /\ cola' = [cola EXCEPT ![s] = Append(cola[s], w)]
           /\ estado' = [estado EXCEPT ![d][u] = "Bloqueado"] \/ UNCHANGED estado
    BY DEF Esperar, Entra
  <1>6. CASE UNCHANGED cola /\ UNCHANGED estado
    BY <1>1, <1>6 DEF EnCola
  <1>7. CASE cola' = [cola EXCEPT ![s] = Append(cola[s], w)]
    <2> HIDE DEF s, w
    <2>1. cola[s] \in Seq(Esperador) /\ cola'[s] = Append(cola[s], w)
      BY <1>2, <1>4, <1>7
    <2>2. CASE estado[c][t] = "Bloqueado"
      <3>0. PICK r \in Sems : \E i \in 1 .. Len(cola[r]) : cola[r][i] = <<fd[c], t>>
        BY <2>2 DEF EnCola
      <3>1. PICK i \in 1 .. Len(cola[r]) : cola[r][i] = <<fd[c], t>>
        BY <3>0
      <3>2. i \in 1 .. Len(cola'[r]) /\ cola'[r][i] = <<fd[c], t>>
        <4>1. CASE r = s
          BY <1>3, <2>1, <3>1, <4>1, ColaCrece
        <4>2. CASE r # s
          BY <1>4, <1>7, <3>1, <4>2
        <4>3. QED
          BY <4>1, <4>2
      <3>3. QED
        BY <1>1, <3>2 DEF EnCola
    <2>3. CASE estado[c][t] # "Bloqueado"
      <3>1. c = d /\ t = u
        BY <1>4, <1>5, <2>3
      <3>2. Len(cola[s]) + 1 \in 1 .. Len(cola'[s]) /\ cola'[s][Len(cola[s]) + 1] = w
        BY <1>3, <2>1, ColaCrece
      <3>3. w = <<fd[c], t>>
        BY <3>1 DEF w
      <3>4. QED
        BY <1>1, <1>2, <3>2, <3>3 DEF EnCola
    <2>4. QED
      BY <2>2, <2>3
  <1>8. QED
    BY <1>5, <1>6, <1>7

\* signal takes out of a queue only a waiter that it makes ready.
LEMMA SenalarDesencola ==
  ASSUME Partes, RutasOK, NEW h \in Hilos, Senalar(h), ConexionOK, CadaUnoSuFd,
         NEW c \in programas, NEW t \in Tids,
         estado'[c][t] = "Bloqueado", estado[c][t] = "Bloqueado", EnCola(fd[c], t)
  PROVE  EnCola(fd[c], t)'
  <1> DEFINE s == hilo[h].sem
  <1>1. /\ hilo[h].pc = "signal" /\ UNCHANGED fd /\ c \in Conexiones
        /\ cola \in [Sems -> Seq(Esperador)] /\ estado \in [Conexiones -> [Tids -> Estados]]
    BY DEF Senalar, En, con, Partes, ConOK, SemsOK, UltsOK
  <1>2. s \in Sems
    BY <1>1 DEF RutasOK, RutaOK, Destino, Esperas
  <1>0. PICK r \in Sems : \E i \in 1 .. Len(cola[r]) : cola[r][i] = <<fd[c], t>>
    BY DEF EnCola
  <1>3. PICK i \in 1 .. Len(cola[r]) : cola[r][i] = <<fd[c], t>>
    BY <1>0
  <1>4. CASE UNCHANGED cola
    BY <1>1, <1>3, <1>4 DEF EnCola
  <1>5. CASE ~UNCHANGED cola
    <2> DEFINE f == Head(cola[s])[1]
               v == Head(cola[s])[2]
    <2>1. /\ cola[s] # <<>> /\ cola' = [cola EXCEPT ![s] = Tail(cola[s])]
          /\ estado' = [e \in Conexiones |-> IF e \in Despiertan(f, v)
                            THEN [estado[e] EXCEPT ![v] = "Listo"] ELSE estado[e]]
      BY <1>5 DEF Senalar
    <2> HIDE DEF s
    <2>2. CASE r # s
      <3>1. cola'[r] = cola[r]
        BY <1>1, <2>1, <2>2
      <3>2. QED
        BY <1>1, <1>3, <3>1 DEF EnCola
    <2>3. CASE r = s /\ i # 1
      <3>1. cola[s] \in Seq(Esperador) /\ cola'[s] = Tail(cola[s])
        BY <1>1, <1>2, <2>1
      <3>2. i - 1 \in 1 .. Len(cola'[s]) /\ cola'[s][i - 1] = <<fd[c], t>>
        <4>1. PICK q \in Seq(Esperador) : q = cola[s]
          BY <3>1
        <4>2. q # <<>> /\ i \in 1 .. Len(q) /\ q[i] = <<fd[c], t>> /\ cola'[s] = Tail(q)
          BY <1>3, <2>1, <2>3, <3>1, <4>1
        <4>3. i - 1 \in 1 .. Len(Tail(q)) /\ Tail(q)[i - 1] = q[i]
          BY <2>3, <4>2, ColaMengua
        <4>4. QED
          BY <4>2, <4>3
      <3>3. QED
        BY <1>1, <1>2, <3>2 DEF EnCola
    <2>4. CASE r = s /\ i = 1
      <3>1. f = fd[c] /\ v = t
        BY <1>3, <2>4
      <3>2. c \in Despiertan(f, v)
        BY <1>1, <3>1, UnicoVigente DEF Despiertan, Ults
      <3>3. estado'[c][t] = "Listo"
        <4> HIDE DEF f, v
        <4> QED
          BY <1>1, <2>1, <3>1, <3>2
      <3>4. QED
        BY <3>3
    <2>5. QED
      BY <2>2, <2>3, <2>4
  <1>6. QED
    BY <1>4, <1>5

\* Only wait and signal change a queue, and only while no wait is at its own.
LEMMA ColaQuieta ==
  ASSUME NEW h \in Hilos, PasoHilo(h), ~SemaforosLibre \/ (~Esperar(h) /\ ~Senalar(h))
  PROVE  UNCHANGED cola
  <1>1. ~Esperar(h) /\ ~Senalar(h)
    BY DEF Esperar, Senalar
  <1>2. QED
    BY <1>1 DEF PasoHilo, Atender, SoltarGrado, TomaMutex, Crear, CrearFin, PlanPide, PlanMulti,
       PlanGrado, PlanEntra, PlanHilos, PlanU1, PlanJoin, PlanDesaloja, PlanEscanea,
       PlanBloquea, PlanDuerme, PlanEspera, PlanElige, PlanFin, JoinPide, JoinToma, JoinBloquea,
       JoinEscribe, JoinMarca, Cerrar, CerrarFin, EsperaEscribe, Adormece, EsperarFin, sems

\* BloqueadoEsperaAlgo is not inductive: between the queue and the state of the ult
\* that it blocks, wait gives its degree back, and the entry has to stay meanwhile.
EnEspera ==
    \A h \in Hilos : Destino(hilo[h]) = "waitEscribe" =>
        EnCola(fd[hilo[h].prog], hilo[h].tid)

\* The thread that is about to block a ult by wait has just queued it.
LEMMA EsperaEntra ==
  ASSUME Partes, RutasOK, EnEspera, NEW h \in Hilos, PasoHilo(h),
         Destino(hilo'[h]) = "waitEscribe"
  PROVE  EnCola(fd[hilo[h].prog], hilo[h].tid)'
  <1>1. Camina(h) /\ h \in Todos /\ HilosOK /\ Forma(hilo[h])
    BY PasoCamina DEF RutasOK, RutaOK, Partes, Todos
  <1>2. ~(\E o \in Pedidos \cup {"colgado", "libre"} : hilo'[h].pc = o)
    BY DEF Pedidos, Destino
  <1>3. /\ Tramo(Destino(hilo[h]), "waitEscribe")
        /\ Destino(hilo[h]) = "waitEscribe" \/ hilo[h].pc = Destino(hilo[h])
    <2>1. Reposo.pc = "libre" /\ "signal" \in Pedidos
      BY DEF Reposo, Pedidos
    <2>2. QED
      BY <1>1, <1>2, <2>1 DEF Camina
  <1>4. \/ hilo[h].pc = "wait2"
        \/ Destino(hilo[h]) = "waitEscribe" /\ hilo[h].pc \in {"suelta", "waitEscribe"}
    BY <1>1, <1>3 DEF Tramo, Destino, Forma
  <1>5. Esperar(h) \/ SoltarGrado(h) \/ EsperaEscribe(h)
    BY <1>4 DEF PasoHilo, En, Atender, TomaMutex, Crear, CrearFin, PlanPide, PlanMulti,
       PlanGrado, PlanEntra, PlanHilos, PlanU1, PlanJoin, PlanDesaloja, PlanEscanea,
       PlanBloquea, PlanDuerme, PlanEspera, PlanElige, PlanFin, JoinPide, JoinToma, JoinBloquea,
       JoinEscribe, Adormece, JoinMarca, Cerrar, CerrarFin, EsperarFin, Senalar
  <1>6. CASE EsperaEscribe(h)
    BY <1>1, <1>6, CamposVa DEF EsperaEscribe, Adormece, Destino
  <1>7. CASE SoltarGrado(h)
    <2>1. hilo[h].pc = "suelta" /\ hilo[h] \in TipoHilo
      BY <1>1, <1>7 DEF SoltarGrado, En, HilosOK
    <2>2. hilo[h].sigue = "waitEscribe"
      BY <1>4, <2>1 DEF Destino
    <2>3. Pone(h, [hilo[h] EXCEPT !.pc = hilo[h].sigue, !.visto = 0, !.sigue = "libre"])
      BY <1>7, <2>2 DEF SoltarGrado
    <2>4. hilo'[h].prog = hilo[h].prog /\ hilo'[h].tid = hilo[h].tid
      BY <1>1, <2>1, <2>3 DEF Pone, HilosOK, TipoHilo
    <2>5. UNCHANGED <<fd, cola>>
      BY <1>7 DEF SoltarGrado, con, sems
    <2>6. QED
      BY <1>4, <2>1, <2>4, <2>5 DEF EnEspera, EnCola
  <1>8. CASE Esperar(h)
    <2> DEFINE d == hilo[h].prog
               u == hilo[h].tid
               s == hilo[h].sem
               w == <<fd[d], u>>
    <2>1. hilo[h].pc = "wait2" /\ hilo[h] \in TipoHilo
      BY <1>1, <1>8 DEF Esperar, En, HilosOK
    <2>2. s \in Sems /\ d \in Conexiones /\ u \in Tids
      <3>1. Destino(hilo[h]) \in Esperas /\ hilo[h].pc # "libre"
        BY <2>1 DEF Destino, Esperas
      <3>2. QED
        BY <2>1, <3>1 DEF RutasOK, RutaOK, TipoHilo
    <2>3. w \in Esperador /\ cola \in [Sems -> Seq(Esperador)]
      BY <2>2 DEF Esperador, Partes, ConOK, SemsOK
    <2>4. ~Va(h, "waitFin") /\ ~Cae(h)
      BY <1>1, CamposVa DEF Cae, Destino
    <2>5. /\ VaASoltar(h, "waitEscribe")
          /\ cola' = [cola EXCEPT ![s] = Append(cola[s], w)]
          /\ UNCHANGED fd
      BY <1>8, <2>4 DEF Esperar, Entra, con
    <2>6. hilo'[h].prog = d /\ hilo'[h].tid = u
      BY <1>1, <2>1, <2>5 DEF VaASoltar, Pone, HilosOK, TipoHilo
    <2> HIDE DEF s, w
    <2>7. cola'[s] = Append(cola[s], w) /\ cola[s] \in Seq(Esperador)
      BY <2>2, <2>3, <2>5
    <2>8. Len(cola[s]) + 1 \in 1 .. Len(cola'[s]) /\ cola'[s][Len(cola[s]) + 1] = w
      BY <2>3, <2>7, ColaCrece
    <2>9. QED
      BY <2>2, <2>5, <2>6, <2>8 DEF EnCola, w
  <1>9. QED
    BY <1>5, <1>6, <1>7, <1>8

\* Every step keeps in its queue the ult of a wait that gives its degree back.
LEMMA EnEsperaPaso ==
  ASSUME Base, EnEspera, [Next]_vars
  PROVE  EnEspera'
  <1>1. Partes /\ RutasOK /\ ConexionOK
    BY DEF Base
  <1>2. Hilos \subseteq Todos
    BY DEF Todos
  <1>3. SUFFICES ASSUME NEW g \in Hilos, Destino(hilo'[g]) = "waitEscribe"
                 PROVE  EnCola(fd[hilo[g].prog], hilo[g].tid)'
    BY DEF EnEspera
  <1>4. ASSUME hilo'[g] = hilo[g], UNCHANGED cola,
               fd[hilo[g].prog] # 0 => fd'[hilo[g].prog] = fd[hilo[g].prog]
        PROVE  EnCola(fd[hilo[g].prog], hilo[g].tid)'
    <2>1. hilo[g].pc # "libre" /\ EnCola(fd[hilo[g].prog], hilo[g].tid)
      BY <1>3, <1>4 DEF EnEspera, Destino
    <2>2. fd'[hilo[g].prog] = fd[hilo[g].prog]
      BY <1>1, <1>4, <2>1 DEF RutasOK, RutaOK
    <2>3. QED
      BY <1>4, <2>1, <2>2 DEF EnCola
  <1>5. ASSUME NEW h \in Hilos, PasoHilo(h)
        PROVE  EnCola(fd[hilo[g].prog], hilo[g].tid)'
    <2>1. CASE g = h
      BY <1>1, <1>3, <1>5, <2>1, EsperaEntra
    <2>2. CASE g # h
      <3>1. hilo'[g] = hilo[g]
        BY <1>1, <1>2, <1>5, <2>2, PasoCamina DEF Camina, Otros, RutasOK, RutaOK, Partes
      <3>2. hilo[g].pc = "waitEscribe" \/ (hilo[g].pc = "suelta" /\ hilo[g].sigue = "waitEscribe")
        BY <1>1, <1>3, <3>1 DEF Destino, RutasOK, RutaOK, Forma
      <3>3. UNCHANGED cola
        BY <1>5, <3>2, ColaQuieta DEF SemaforosLibre
      <3>4. UNCHANGED fd
        BY <1>5, PasoCon DEF con
      <3>5. QED
        BY <1>4, <3>1, <3>3, <3>4
    <2>3. QED
      BY <2>1, <2>2
  <1>6. ASSUME NEW c \in Conexiones, PasoCliente(c)
        PROVE  EnCola(fd[hilo[g].prog], hilo[g].tid)'
    <2>1. /\ \E h \in Hilos : Empieza(h, c)
          /\ UNCHANGED <<fd, cola>>
      BY <1>1, <1>6, ClientePide DEF con, sems
    <2>2. hilo'[g] = hilo[g]
      BY <1>2, <1>3, <2>1 DEF Empieza, Otros, Destino
    <2>3. QED
      BY <1>4, <2>1, <2>2
  <1>7. CASE PasoAjeno
    <2>1. hilo'[g] = hilo[g] /\ UNCHANGED cola /\ FdQueda
      BY <1>1, <1>7, AjenosQuietos DEF sems
    <2>2. hilo[g].pc # "libre"
      BY <1>3, <2>1 DEF Destino
    <2>3. hilo[g].prog \in Conexiones
      BY <1>1, <2>2 DEF RutasOK, RutaOK
    <2>4. QED
      BY <1>4, <2>1, <2>3 DEF FdQueda
  <1>8. QED
    BY <1>5, <1>6, <1>7 DEF Next, PasoAjeno

\* wait puts the ult that it blocks in a queue, and the signal that takes it out of the
\* queue makes it ready.
LEMMA BloqueadoPaso ==
  ASSUME Base, EnEspera, BloqueadoEsperaAlgo, [Next]_vars
  PROVE  BloqueadoEsperaAlgo'
  <1>1. Partes /\ RutasOK /\ ConexionOK /\ programas \subseteq Conexiones
    BY DEF Base, Partes, ConOK
  <1>2. SUFFICES ASSUME CadaUnoSuFd', NEW c \in programas', NEW t \in Tids \ {0},
                        estado'[c][t] = "Bloqueado"
                 PROVE  EnCola(fd[c], t)'
    BY DEF BloqueadoEsperaAlgo, EnCola
  <1>3. CadaUnoSuFd
    BY <1>1, <1>2, RutasPaso, CadaUnoQueda
  <1>4. \A d \in programas : \A u \in Tids \ {0} :
           estado[d][u] = "Bloqueado" => EnCola(fd[d], u)
    BY <1>3 DEF BloqueadoEsperaAlgo, EnCola
  <1>5. ASSUME NEW h \in Hilos, PasoHilo(h)
        PROVE  EnCola(fd[c], t)'
    <2>1. c \in programas /\ c \in Conexiones /\ UNCHANGED fd
      BY <1>1, <1>2, <1>5, PasoCon DEF con
    <2>2. CASE Esperar(h)
      BY <1>1, <1>2, <1>4, <2>1, <2>2, EsperarEncola
    <2>3. CASE EsperaEscribe(h)
      <3>1. /\ hilo[h].pc = "waitEscribe" /\ UNCHANGED cola
            /\ estado' = [estado EXCEPT ![hilo[h].prog][hilo[h].tid] = "Bloqueado"]
               \/ UNCHANGED estado
        BY <2>3 DEF EsperaEscribe, Adormece, En, sems
      <3>2. EnCola(fd[hilo[h].prog], hilo[h].tid)
        BY <3>1 DEF EnEspera, Destino
      <3>3. estado[c][t] = "Bloqueado" \/ (c = hilo[h].prog /\ t = hilo[h].tid)
        BY <1>1, <1>2, <2>1, <3>1 DEF Partes, UltsOK
      <3>4. QED
        BY <1>2, <1>4, <2>1, <3>1, <3>2, <3>3 DEF EnCola
    <2>4. CASE ~Esperar(h) /\ ~EsperaEscribe(h)
      <3>1. estado[c][t] = "Bloqueado" /\ EnCola(fd[c], t)
        BY <1>1, <1>2, <1>4, <1>5, <2>1, <2>4, SoloWaitBloquea
      <3>2. CASE Senalar(h)
        BY <1>1, <1>2, <1>3, <2>1, <3>1, <3>2, SenalarDesencola
      <3>3. CASE ~Senalar(h)
        <4>1. UNCHANGED cola
          BY <1>5, <2>4, <3>3, ColaQuieta
        <4>2. QED
          BY <2>1, <3>1, <4>1 DEF EnCola
      <3>4. QED
        BY <3>2, <3>3
    <2>5. QED
      BY <2>2, <2>3, <2>4
  <1>6. ASSUME NEW d \in Conexiones, PasoCliente(d)
        PROVE  EnCola(fd[c], t)'
    <2>1. UNCHANGED <<con, ults, sems>>
      BY <1>1, <1>6, ClientePide
    <2>2. QED
      BY <1>2, <1>4, <2>1 DEF con, ults, sems, EnCola
  <1>7. CASE PasoAjeno
    <2>1. UNCHANGED ults /\ UNCHANGED sems /\ FdQueda
      BY <1>1, <1>7, AjenosQuietos
    <2>2. CASE Enlazar /\ c = conectador
      <3>1. estado[c][t] = "Nada" /\ UNCHANGED estado
        BY <1>1, <2>1, <2>2 DEF Enlazar, Partes, ConOK, ConexionOK, SinPrograma, ults
      <3>2. QED
        BY <1>2, <3>1
    <2>3. CASE ~(Enlazar /\ c = conectador)
      <3>1. c \in programas
        BY <1>2, <1>7, <2>3 DEF PasoAjeno, vars, con, PasoPrincipal, PasoConectar, Conectar,
           Enlazar, TomaMutex, DescUlts, SoltarGrado, DescFin, Lanzar, Aceptar, Desconectar
      <3>2. fd'[c] = fd[c]
        BY <1>1, <2>1, <3>1 DEF FdQueda, ConexionOK, SinPrograma
      <3>3. QED
        BY <1>2, <1>4, <2>1, <3>1, <3>2 DEF ults, sems, EnCola
    <2>4. QED
      BY <2>2, <2>3
  <1>8. QED
    BY <1>5, <1>6, <1>7 DEF Next, PasoAjeno

\* No ult is left blocked by a wait with no semaphore to be woken from: whatever wait
\* and signal interleave, it is in a queue under the descriptor of its program, unless
\* a program was given the descriptor of another.
THEOREM BloqueadoEnCola == Spec => []BloqueadoEsperaAlgo
  <1>1. Init => EnEspera /\ BloqueadoEsperaAlgo
    <2> SUFFICES ASSUME Init PROVE EnEspera /\ BloqueadoEsperaAlgo
      OBVIOUS
    <2>1. \A h \in Hilos : hilo[h] = Reposo
      BY SuseConstantes DEF Init, Todos
    <2>2. QED
      BY <2>1 DEF Init, EnEspera, BloqueadoEsperaAlgo, Reposo, Destino
  <1>2. Base /\ EnEspera /\ BloqueadoEsperaAlgo /\ [Next]_vars
           => EnEspera' /\ BloqueadoEsperaAlgo'
    BY EnEsperaPaso, BloqueadoPaso
  <1>3. QED
    BY <1>1, <1>2, Cimientos, PTL DEF Spec

-----------------------------------------------------------------------------
\* When the elements of T other than x are those of S, their sizes differ by x.
Vale(x, S) == IF x \in S THEN 1 ELSE 0

\* Its cardinality moves by what x adds and removes.
LEMMA UnoMas ==
  ASSUME NEW S, IsFiniteSet(S), NEW T, NEW x, \A y \in T : y = x \/ y \in S
  PROVE  /\ IsFiniteSet(T) /\ Cardinality(T) \in Nat /\ Cardinality(S) \in Nat
         /\ Cardinality(T) <= Cardinality(S) + Vale(x, T) - Vale(x, S)
         /\ (\A y \in S : y = x \/ y \in T) =>
               Cardinality(T) = Cardinality(S) + Vale(x, T) - Vale(x, S)
  <1> DEFINE R == S \ {x}
             Q == T \ {x}
  <1>1. IsFiniteSet(R) /\ Cardinality(R) = Cardinality(S) - Vale(x, S)
    BY FS_RemoveElement, FS_CardinalityType DEF Vale
  <1>2. Q \subseteq R
    OBVIOUS
  <1>3. IsFiniteSet(Q) /\ Cardinality(Q) <= Cardinality(R) /\ (Q = R \/ Q # R)
    BY <1>1, <1>2, FS_Subset
  <1> HIDE DEF Q, R
  <1>4. IsFiniteSet(T) /\ Cardinality(T) = Cardinality(Q) + Vale(x, T)
    <2>1. CASE x \in T
      <3>1. T = Q \cup {x} /\ x \notin Q
        BY <2>1 DEF Q
      <3>2. Cardinality(Q) \in Nat
        BY <1>3, FS_CardinalityType
      <3>3. QED
        BY <1>3, <2>1, <3>1, <3>2, FS_AddElement DEF Vale
    <2>2. CASE x \notin T
      <3>1. T = Q
        BY <2>2 DEF Q
      <3>2. Cardinality(Q) \in Nat
        BY <1>3, FS_CardinalityType
      <3>3. QED
        BY <1>3, <2>2, <3>1, <3>2 DEF Vale
    <2>3. QED
      BY <2>1, <2>2
  <1>5. /\ Cardinality(T) \in Nat /\ Cardinality(S) \in Nat
        /\ Cardinality(Q) \in Nat /\ Cardinality(R) \in Nat
    BY <1>1, <1>3, <1>4, FS_CardinalityType
  <1>6. (\A y \in S : y = x \/ y \in T) => Q = R
    BY DEF Q, R
  <1>7. Vale(x, S) \in {0, 1} /\ Vale(x, T) \in {0, 1}
    BY DEF Vale
  <1>8. QED
    BY <1>1, <1>3, <1>4, <1>5, <1>6, <1>7

\* The place of a thread tells which step it takes.
LEMMA Despacho ==
  ASSUME NEW h \in Hilos, PasoHilo(h)
  PROVE  /\ hilo[h].pc = "suelta" => SoltarGrado(h)
         /\ hilo[h].pc = "planGrado" => PlanGrado(h)
         /\ hilo[h].pc = "planEntra" => PlanEntra(h)
         /\ hilo[h].pc = "planDesaloja" => PlanDesaloja(h)
         /\ hilo[h].pc = "planBloquea" => PlanBloquea(h)
         /\ hilo[h].pc = "planDuerme" => PlanDuerme(h)
         /\ hilo[h].pc = "planEspera" => PlanEspera(h)
         /\ hilo[h].pc = "planElige" => PlanElige(h)
         /\ hilo[h].pc = "planFin" => PlanFin(h)
         /\ hilo[h].pc = "crear2" => Crear(h)
         /\ hilo[h].pc = "crear3" => CrearFin(h)
         /\ hilo[h].pc = "joinBloquea" => JoinBloquea(h)
         /\ hilo[h].pc = "joinEscribe" => JoinEscribe(h)
         /\ hilo[h].pc = "waitEscribe" => EsperaEscribe(h)
         /\ hilo[h].pc # "colgado"
         /\ hilo[h].pc = "crear" => TomaMutex(h, "crear", "crear2")
         /\ hilo[h].pc = "planMutex" => TomaMutex(h, "planMutex", "planDesaloja")
         /\ hilo[h].pc = "planVuelve" => TomaMutex(h, "planVuelve", "planEscanea")
         /\ hilo[h].pc = "joinMutex" => TomaMutex(h, "joinMutex", "joinBloquea")
         /\ hilo[h].pc = "cerrar" => TomaMutex(h, "cerrar", "cerrar2")
         /\ hilo[h].pc = "wait" => TomaMutex(h, "wait", "wait2")
  <1> DEFINE a == hilo[h].pc
  <1>1. \A l, p : TomaMutex(h, l, p) => a = l
    BY DEF TomaMutex, En
  <1>2. /\ Atender(h) => a = "atender"
        /\ SoltarGrado(h) => a = "suelta"
        /\ Crear(h) => a = "crear2"
        /\ CrearFin(h) => a = "crear3"
        /\ PlanPide(h) => a = "planificar"
        /\ PlanMulti(h) => a = "planMulti"
        /\ PlanGrado(h) => a = "planGrado"
        /\ PlanEntra(h) => a = "planEntra"
        /\ PlanHilos(h) => a = "planHilos"
        /\ PlanU1(h) => a = "planU1"
        /\ PlanJoin(h) => a = "planJoin"
    BY DEF Atender, SoltarGrado, Crear, CrearFin, PlanPide, PlanMulti, PlanGrado, PlanEntra,
       PlanHilos, PlanU1, PlanJoin, En
  <1>3. /\ PlanDesaloja(h) => a = "planDesaloja"
        /\ PlanEscanea(h) => a = "planEscanea"
        /\ PlanBloquea(h) => a = "planBloquea"
        /\ PlanDuerme(h) => a = "planDuerme"
        /\ PlanEspera(h) => a = "planEspera"
        /\ PlanElige(h) => a = "planElige"
        /\ PlanFin(h) => a = "planFin"
    BY DEF PlanDesaloja, PlanEscanea, PlanBloquea, PlanDuerme, PlanEspera, PlanElige, PlanFin,
       En
  <1>4. /\ JoinPide(h) => a \in {"joinear", "joinU0"}
        /\ JoinToma(h) => a \in {"joinJoin", "joinUlt0"}
        /\ JoinBloquea(h) => a = "joinBloquea"
        /\ JoinEscribe(h) => a = "joinEscribe"
        /\ JoinMarca(h) => a = "joinMarca"
        /\ Cerrar(h) => a = "cerrar2"
        /\ CerrarFin(h) => a = "cerrar3"
        /\ Esperar(h) => a = "wait2"
        /\ EsperaEscribe(h) => a = "waitEscribe"
        /\ EsperarFin(h) => a = "waitFin"
        /\ Senalar(h) => a = "signal"
    BY DEF JoinPide, JoinToma, JoinBloquea, JoinEscribe, Adormece, JoinMarca, Cerrar, CerrarFin,
       Esperar, EsperaEscribe, EsperarFin, Senalar, En
  <1> HIDE DEF a
  <1>5. QED
    BY <1>1, <1>2, <1>3, <1>4 DEF PasoHilo, a

-----------------------------------------------------------------------------
\* The threads that sleep, by the place they are bound for.
LEMMA Durmientes ==
  ASSUME RutasOK, RutasOK', NEW c \in Conexiones, NEW h \in Hilos
  PROVE  /\ h \in Durmiendo(c) <=> hilo[h].prog = c /\ Destino(hilo[h]) \in Sueno
         /\ h \in Durmiendo(c)' <=> hilo'[h].prog = c /\ Destino(hilo'[h]) \in Sueno
  <1>1. ASSUME NEW r, Forma(r)
        PROVE  Destino(r) \in Sueno <=> \/ r.pc \in {"planDuerme", "planEspera"}
                                        \/ r.pc = "suelta" /\ r.sigue = "planDuerme"
    BY <1>1 DEF Forma, Destino, Sueno
  <1>2. Forma(hilo[h]) /\ Forma(hilo'[h])
    BY DEF RutasOK, RutaOK
  <1>3. QED
    BY <1>1, <1>2 DEF Durmiendo

\* A planificar joins the sleepers of its program when it raises bloqueado, and
\* leaves them when it takes bloqueadoes.
LEMMA DuermeToca ==
  ASSUME Partes, RutasOK, RutasOK', NEW h \in Hilos, PasoHilo(h), NEW c \in Conexiones
  PROVE  /\ \A g \in Hilos : g # h => (g \in Durmiendo(c)' <=> g \in Durmiendo(c))
         /\ PlanBloquea(h) /\ hilo[h].prog = c =>
               h \notin Durmiendo(c) /\ h \in Durmiendo(c)'
         /\ PlanEspera(h) /\ hilo[h].prog = c =>
               h \in Durmiendo(c) /\ h \notin Durmiendo(c)'
         /\ ~((PlanBloquea(h) \/ PlanEspera(h)) /\ hilo[h].prog = c) =>
               (h \in Durmiendo(c)' <=> h \in Durmiendo(c))
  <1>1. Camina(h) /\ h \in Todos /\ HilosOK
    BY PasoCamina DEF RutasOK, RutaOK, Partes, Todos
  <1>2. ASSUME NEW g \in Hilos, g # h
        PROVE  g \in Durmiendo(c)' <=> g \in Durmiendo(c)
    <2>1. hilo'[g] = hilo[g]
      BY <1>1, <1>2 DEF Camina, Otros, Todos
    <2>2. QED
      BY <2>1, Durmientes
  <1>3. CASE PlanBloquea(h)
    <2>1. /\ Destino(hilo[h]) \notin Sueno /\ Destino(hilo'[h]) \in Sueno
          /\ hilo'[h].prog = hilo[h].prog
      <3>1. hilo[h].pc = "planBloquea" /\ VaASoltar(h, "planDuerme")
        BY <1>3 DEF PlanBloquea, En
      <3>2. Salta(h, "suelta", "planDuerme")
        <4>1. grado \in Int /\ "suelta" \in Lugares \cup Vueltas /\ "planDuerme" \in Vueltas
          BY DEF Partes, GradoOK, Lugares, Vueltas
        <4>2. QED
          BY <1>1, <3>1, <4>1, CamposSalta DEF VaASoltar
      <3>3. QED
        BY <3>1, <3>2 DEF Salta, Destino, Sueno
    <2>2. ~PlanEspera(h)
      BY <1>3 DEF PlanBloquea, PlanEspera, En
    <2>3. /\ hilo[h].prog = c => (h \notin Durmiendo(c) /\ h \in Durmiendo(c)')
          /\ hilo[h].prog # c => (h \in Durmiendo(c)' <=> h \in Durmiendo(c))
      BY <2>1, Durmientes
    <2>4. QED
      BY <1>2, <1>3, <2>2, <2>3
  <1>4. CASE PlanEspera(h)
    <2>1. Destino(hilo[h]) \in Sueno /\ Destino(hilo'[h]) \notin Sueno
      <3>1. hilo[h].pc = "planEspera" /\ PideGrado(h, "planVuelve")
        BY <1>4 DEF PlanEspera, En
      <3>2. Salta(h, "planMulti", "planVuelve") \/ Salta(h, "planGrado", "planVuelve")
        <4>1. /\ grado \in Int /\ "planVuelve" \in Vueltas
              /\ {"planMulti", "planGrado"} \subseteq Lugares \cup Vueltas
          BY DEF Partes, GradoOK, Lugares, Vueltas
        <4>2. QED
          BY <1>1, <3>1, <4>1, CamposSalta DEF PideGrado
      <3>3. QED
        BY <3>1, <3>2 DEF Salta, Destino, Sueno
    <2>2. ~PlanBloquea(h)
      BY <1>4 DEF PlanBloquea, PlanEspera, En
    <2>3. /\ hilo[h].prog = c => (h \in Durmiendo(c) /\ h \notin Durmiendo(c)')
          /\ hilo[h].prog # c => (h \in Durmiendo(c)' <=> h \in Durmiendo(c))
      BY <2>1, Durmientes
    <2>4. QED
      BY <1>2, <1>4, <2>2, <2>3
  <1>5. CASE ~PlanBloquea(h) /\ ~PlanEspera(h)
    <2>1. CASE Destino(hilo[h]) \in Sueno
      <3>1. \/ hilo[h].pc = "planDuerme"
            \/ hilo[h].pc = "suelta" /\ hilo[h].sigue = "planDuerme"
        BY <1>5, <2>1, Despacho DEF Destino, Sueno, RutasOK, RutaOK, Forma
      <3>2. CASE hilo[h].pc = "planDuerme"
        <4>1. Va(h, "planEspera")
          BY <3>2, Despacho DEF PlanDuerme
        <4>2. QED
          BY <1>1, <1>2, <1>5, <2>1, <4>1, CamposVa, Durmientes DEF Destino, Sueno
      <3>3. CASE hilo[h].pc = "suelta" /\ hilo[h].sigue = "planDuerme"
        <4>1. Pone(h, [hilo[h] EXCEPT !.pc = hilo[h].sigue, !.visto = 0, !.sigue = "libre"])
          BY <3>3, Despacho DEF SoltarGrado
        <4>2. hilo'[h].pc = "planDuerme" /\ hilo'[h].prog = hilo[h].prog
          <5>1. hilo[h] \in TipoHilo
            BY <1>1 DEF HilosOK
          <5>2. hilo'[h] = [hilo[h] EXCEPT !.pc = hilo[h].sigue, !.visto = 0, !.sigue = "libre"]
            BY <1>1, <4>1 DEF Pone, HilosOK
          <5>3. QED
            BY <3>3, <5>1, <5>2 DEF TipoHilo
        <4>3. QED
          BY <1>2, <1>5, <2>1, <4>2, Durmientes DEF Destino, Sueno
      <3>4. QED
        BY <3>1, <3>2, <3>3
    <2>2. CASE Destino(hilo[h]) \notin Sueno
      <3>1. Destino(hilo'[h]) \notin Sueno
        <4>1. /\ Destino(Reposo) \notin Sueno
              /\ hilo'[h].pc \in Pedidos \cup {"colgado"} => Destino(hilo'[h]) \notin Sueno
          BY DEF Destino, Reposo, Sueno, Pedidos
        <4>2. hilo[h].pc # "planBloquea"
          BY <1>5, Despacho
        <4>3. ASSUME Tramo(Destino(hilo[h]), Destino(hilo'[h])),
                     Destino(hilo'[h]) = Destino(hilo[h]) \/ hilo[h].pc = Destino(hilo[h])
              PROVE  Destino(hilo'[h]) \notin Sueno
          BY <2>2, <4>2, <4>3 DEF Tramo, Sueno
        <4>4. "signal" \in Pedidos
          BY DEF Pedidos
        <4>5. QED
          BY <1>1, <4>1, <4>3, <4>4 DEF Camina
      <3>2. QED
        BY <1>2, <1>5, <2>2, <3>1, Durmientes
    <2>3. QED
      BY <2>1, <2>2
  <1>6. QED
    BY <1>3, <1>4, <1>5

\* What a step does to the flag and the mutex that wake a program's sleeper.
LEMMA FichaToca ==
  ASSUME Partes, NEW h \in Hilos, PasoHilo(h), NEW c \in Conexiones
  PROVE  \/ /\ PlanBloquea(h) /\ hilo[h].prog = c
            /\ Bloqueado(c) \in marca'
            /\ <<c, "bloqueadoes">> \in tomado' <=> <<c, "bloqueadoes">> \in tomado
         \/ /\ PlanEspera(h) /\ hilo[h].prog = c
            /\ Bloqueado(c) \in marca' <=> Bloqueado(c) \in marca
            /\ <<c, "bloqueadoes">> \notin tomado /\ <<c, "bloqueadoes">> \in tomado'
         \/ /\ ~((PlanBloquea(h) \/ PlanEspera(h)) /\ hilo[h].prog = c)
            /\ Bloqueado(c) \in marca /\ Bloqueado(c) \notin marca'
            /\ <<c, "bloqueadoes">> \notin tomado'
         \/ /\ ~((PlanBloquea(h) \/ PlanEspera(h)) /\ hilo[h].prog = c)
            /\ Bloqueado(c) \in marca' <=> Bloqueado(c) \in marca
            /\ <<c, "bloqueadoes">> \in tomado' <=> <<c, "bloqueadoes">> \in tomado
  <1>1. CASE Senalar(h)
    <2>1. ~PlanBloquea(h) /\ ~PlanEspera(h)
      BY <1>1 DEF Senalar, PlanBloquea, PlanEspera, En
    <2>2. QED
      BY <1>1, <2>1, SenalarToca DEF Bloqueado, Etiquetas
  <1>2. CASE ~Senalar(h) /\ c # hilo[h].prog
    BY <1>2, SoloSuyo DEF Intacto, Etiquetas, Bloqueado
  <1>3. CASE ~Senalar(h) /\ c = hilo[h].prog
    <2>1. CASE PlanBloquea(h)
      BY <1>3, <2>1 DEF PlanBloquea, Bloqueado
    <2>2. CASE PlanEspera(h)
      BY <1>3, <2>2 DEF PlanEspera, Toma
    <2>3. CASE ~PlanBloquea(h) /\ ~PlanEspera(h)
      <3>1. /\ Bloqueado(c) \in marca' <=> Bloqueado(c) \in marca
            /\ <<c, "bloqueadoes">> \in tomado' <=> <<c, "bloqueadoes">> \in tomado
        <4>1. c # Nadie
          BY SuseConstantes
        <4>2. CASE Crear(h) \/ CrearFin(h) \/ PlanFin(h) \/ JoinMarca(h) \/ Cerrar(h)
          BY <4>2 DEF Crear, CrearFin, PlanFin, JoinMarca, Cerrar, Abre, Mutex, Bloqueado,
             TieneHilos
        <4>3. ASSUME NEW l, NEW p, TomaMutex(h, l, p)
              PROVE  /\ Bloqueado(c) \in marca' <=> Bloqueado(c) \in marca
                     /\ <<c, "bloqueadoes">> \in tomado' <=> <<c, "bloqueadoes">> \in tomado
          BY <4>3 DEF TomaMutex, Toma, Mutex
        <4>4. CASE \/ Atender(h) \/ SoltarGrado(h) \/ PlanPide(h) \/ PlanMulti(h) \/ PlanGrado(h)
                   \/ PlanEntra(h) \/ PlanHilos(h) \/ PlanU1(h) \/ PlanJoin(h) \/ PlanDesaloja(h)
          BY <4>1, <4>4 DEF Atender, SoltarGrado, PlanPide, PlanMulti, PlanGrado, PlanEntra,
             PlanHilos, PlanU1, PlanJoin, PlanDesaloja, Abre, Toma, Bloqueado, CandadoMulti
        <4>5. CASE \/ PlanEscanea(h) \/ PlanDuerme(h) \/ PlanElige(h) \/ JoinPide(h)
                   \/ JoinToma(h) \/ JoinBloquea(h) \/ CerrarFin(h) \/ Esperar(h)
                   \/ EsperarFin(h) \/ JoinEscribe(h) \/ EsperaEscribe(h)
          BY <4>5 DEF PlanEscanea, PlanDuerme, PlanElige, JoinPide, JoinToma, JoinBloquea,
             CerrarFin, Esperar, EsperarFin, JoinEscribe, EsperaEscribe, Adormece, Abre, Toma,
             Bloqueado, Mutex
        <4>6. QED
          BY <1>3, <2>3, <4>2, <4>3, <4>4, <4>5 DEF PasoHilo
      <3>2. QED
        BY <2>3, <3>1
    <2>4. QED
      BY <2>1, <2>2, <2>3
  <1>4. QED
    BY <1>1, <1>2, <1>3

\* The wake-ups of c, counted.
LEMMA CuentaFichas ==
  ASSUME NEW c \in Conexiones
  PROVE  /\ Fichas(c) = (IF Bloqueado(c) \in marca THEN 1 ELSE 0)
                        + (IF <<c, "bloqueadoes">> \in tomado THEN 0 ELSE 1)
         /\ Fichas(c)' = (IF Bloqueado(c) \in marca' THEN 1 ELSE 0)
                         + (IF <<c, "bloqueadoes">> \in tomado' THEN 0 ELSE 1)
  <1> DEFINE Arriba(S)  == {b \in {Bloqueado(c)} : b \in S}
             Abierto(S) == {b \in {<<c, "bloqueadoes">>} : b \notin S}
  <1>1. ASSUME NEW S
        PROVE  /\ Cardinality(Arriba(S)) = IF Bloqueado(c) \in S THEN 1 ELSE 0
               /\ Cardinality(Abierto(S)) = IF <<c, "bloqueadoes">> \in S THEN 0 ELSE 1
    <2>1. /\ Arriba(S) = IF Bloqueado(c) \in S THEN {Bloqueado(c)} ELSE {}
          /\ Abierto(S) = IF <<c, "bloqueadoes">> \in S THEN {} ELSE {<<c, "bloqueadoes">>}
      OBVIOUS
    <2> HIDE DEF Arriba, Abierto
    <2>2. QED
      BY <2>1, FS_EmptySet, FS_Singleton
  <1>2. /\ Fichas(c) = Cardinality(Arriba(marca)) + Cardinality(Abierto(tomado))
        /\ Fichas(c)' = Cardinality(Arriba(marca')) + Cardinality(Abierto(tomado'))
    BY DEF Fichas, Bloqueado
  <1> HIDE DEF Arriba, Abierto
  <1>3. QED
    BY <1>1, <1>2

\* The sleepers are some of the busy threads.
LEMMA DurmiendoFinito ==
  ASSUME RutasOK, NEW c \in Conexiones
  PROVE  IsFiniteSet(Durmiendo(c)) /\ Cardinality(Durmiendo(c)) \in Nat
  <1>1. Durmiendo(c) \subseteq Ocupados
    BY DEF Durmiendo, Ocupados
  <1>2. QED
    BY <1>1, FS_Subset, FS_CardinalityType DEF RutasOK

\* No wake-up is left over.
FichaMenor == \A c \in Conexiones : fd[c] # 0 => Fichas(c) <= Cardinality(Durmiendo(c))

\* What a step does to the wake-ups and the sleepers of a program.
LEMMA FichasPaso ==
  ASSUME Base, RutasOK', NEW h \in Hilos, PasoHilo(h), NEW c \in Conexiones
  PROVE  /\ Fichas(c) <= Cardinality(Durmiendo(c)) =>
               Fichas(c)' <= Cardinality(Durmiendo(c)')
         /\ /\ Fichas(c) = Cardinality(Durmiendo(c)) /\ Fichas(c) <= 1
            /\ PlanBloquea(h) /\ hilo[h].prog = c => Fichas(c) = 0
            => Fichas(c)' = Cardinality(Durmiendo(c)')
  <1> DEFINE D == Durmiendo(c)
             E == Durmiendo(c)'
  <1>1. Partes /\ RutasOK
    BY DEF Base
  <1>2. /\ IsFiniteSet(D) /\ Cardinality(D) \in Nat
        /\ \A g \in D \cup E : g \in Hilos
    BY <1>1, DurmiendoFinito DEF Durmiendo
  <1>3. /\ \A g \in E : g = h \/ g \in D
        /\ \A g \in D : g = h \/ g \in E
    BY <1>1, <1>2, DuermeToca
  <1>4. /\ PlanBloquea(h) /\ hilo[h].prog = c => h \notin D /\ h \in E
        /\ PlanEspera(h) /\ hilo[h].prog = c => h \in D /\ h \notin E
        /\ ~((PlanBloquea(h) \/ PlanEspera(h)) /\ hilo[h].prog = c) => (h \in D <=> h \in E)
    BY <1>1, DuermeToca
  <1> HIDE DEF D, E
  <1>5. Cardinality(E) = Cardinality(D) + Vale(h, E) - Vale(h, D) /\ Cardinality(E) \in Nat
    BY <1>2, <1>3, UnoMas
  <1>6. PlanBloquea(h) => ~PlanEspera(h)
    BY DEF PlanBloquea, PlanEspera, En
  <1>7. /\ Fichas(c) <= Cardinality(D) => Fichas(c)' <= Cardinality(E)
        /\ /\ Fichas(c) = Cardinality(D) /\ Fichas(c) <= 1
           /\ PlanBloquea(h) /\ hilo[h].prog = c => Fichas(c) = 0
           => Fichas(c)' = Cardinality(E)
    <2>1. CASE PlanBloquea(h) /\ hilo[h].prog = c
      <3>1. Cardinality(E) = Cardinality(D) + 1
        BY <1>2, <1>4, <1>5, <2>1 DEF Vale
      <3>2. /\ Bloqueado(c) \in marca'
            /\ <<c, "bloqueadoes">> \in tomado' <=> <<c, "bloqueadoes">> \in tomado
        BY <1>1, <1>6, <2>1, FichaToca
      <3>3. QED
        BY <1>2, <2>1, <3>1, <3>2, CuentaFichas
    <2>2. CASE PlanEspera(h) /\ hilo[h].prog = c
      <3>1. Cardinality(E) = Cardinality(D) - 1
        BY <1>2, <1>4, <1>5, <2>2 DEF Vale
      <3>2. /\ Bloqueado(c) \in marca' <=> Bloqueado(c) \in marca
            /\ <<c, "bloqueadoes">> \notin tomado /\ <<c, "bloqueadoes">> \in tomado'
        BY <1>1, <1>6, <2>2, FichaToca
      <3>3. QED
        BY <1>2, <3>1, <3>2, CuentaFichas
    <2>3. CASE ~((PlanBloquea(h) \/ PlanEspera(h)) /\ hilo[h].prog = c)
      <3>1. Cardinality(E) = Cardinality(D)
        BY <1>2, <1>4, <1>5, <2>3 DEF Vale
      <3>2. \/ /\ Bloqueado(c) \in marca /\ Bloqueado(c) \notin marca'
               /\ <<c, "bloqueadoes">> \notin tomado'
            \/ /\ Bloqueado(c) \in marca' <=> Bloqueado(c) \in marca
               /\ <<c, "bloqueadoes">> \in tomado' <=> <<c, "bloqueadoes">> \in tomado
        BY <1>1, <2>3, FichaToca
      <3>3. QED
        BY <1>2, <2>3, <3>1, <3>2, CuentaFichas
    <2>4. QED
      BY <2>1, <2>2, <2>3
  <1>8. QED
    BY <1>7 DEF D, E

\* The other steps change neither, and a program starts with none of both.
LEMMA FichasAjenas ==
  ASSUME Base, RutasOK', NEW c \in Conexiones, fd'[c] # 0,
         PasoAjeno \/ \E d \in Conexiones : PasoCliente(d)
  PROVE  \/ /\ fd[c] # 0
            /\ Fichas(c)' = Fichas(c) /\ Durmiendo(c)' = Durmiendo(c)
         \/ Fichas(c)' = 0 /\ Durmiendo(c)' = {}
  <1>1. Partes /\ RutasOK /\ ConexionOK /\ c # Nadie
    BY SuseConstantes DEF Base
  <1>2. ASSUME NEW d \in Conexiones, PasoCliente(d)
        PROVE  fd[c] # 0 /\ Fichas(c)' = Fichas(c) /\ Durmiendo(c)' = Durmiendo(c)
    <2>1. UNCHANGED <<fd, marca, tomado>>
      BY <1>1, <1>2, ClientePide DEF con
    <2>2. PICK h \in Hilos : Empieza(h, d)
      BY <1>1, <1>2, ClientePide
    <2>3. /\ hilo[h].pc = "libre" /\ hilo'[h].pc = "atender"
          /\ \A g \in Hilos : g # h => hilo'[g] = hilo[g]
      BY <2>2 DEF Empieza, Otros, Todos
    <2>4. Durmiendo(c)' = Durmiendo(c)
      BY <2>3 DEF Durmiendo
    <2>5. QED
      BY <2>1, <2>4 DEF Fichas, Bloqueado
  <1>3. CASE PasoAjeno
    <2>1. (\A h \in Hilos : hilo'[h] = hilo[h]) /\ UNCHANGED marca
      BY <1>1, <1>3, AjenosQuietos
    <2>2. Durmiendo(c)' = Durmiendo(c)
      BY <2>1 DEF Durmiendo
    <2>3. CASE ~Conectar
      <3>1. fd' = fd /\ (<<c, "bloqueadoes">> \in tomado' <=> <<c, "bloqueadoes">> \in tomado)
        BY <1>1, <1>3, <2>3 DEF PasoAjeno, PasoConectar, vars, con, PasoPrincipal, TomaMutex,
           DescUlts, SoltarGrado, DescFin, Lanzar, Enlazar, Aceptar, Desconectar, Toma, Abre,
           CandadoMulti, Mutex
      <3>2. Fichas(c)' = Fichas(c)
        BY <2>1, <3>1, CuentaFichas DEF Bloqueado
      <3>3. QED
        BY <2>2, <3>1, <3>2
    <2>4. CASE Conectar /\ conectador # c
      <3>1. /\ fd'[c] = fd[c]
            /\ <<c, "bloqueadoes">> \in tomado' <=> <<c, "bloqueadoes">> \in tomado
        BY <1>1, <2>4 DEF Conectar, Cerrados, Partes, ConOK
      <3>2. Fichas(c)' = Fichas(c)
        BY <2>1, <3>1, CuentaFichas DEF Bloqueado
      <3>3. QED
        BY <2>2, <3>1, <3>2
    <2>5. CASE Conectar /\ conectador = c
      <3>1. fd[c] = 0 /\ <<c, "bloqueadoes">> \in tomado'
        BY <2>5 DEF Conectar, Cerrados
      <3>2. Bloqueado(c) \notin marca'
        BY <1>1, <2>1, <3>1 DEF ConexionOK, SinPrograma
      <3>3. Durmiendo(c) = {}
        BY <1>1, <3>1 DEF Durmiendo, RutasOK, RutaOK
      <3>4. Fichas(c)' = 0
        BY <3>1, <3>2, CuentaFichas
      <3>5. QED
        BY <2>2, <3>3, <3>4
    <2>6. QED
      BY <2>3, <2>4, <2>5
  <1>4. QED
    BY <1>2, <1>3

\* The wake-ups of a program never outgrow its sleepers.
LEMMA FichaMenorPaso ==
  ASSUME Base, RutasOK', FichaMenor, [Next]_vars
  PROVE  FichaMenor'
  <1>1. SUFFICES ASSUME NEW c \in Conexiones, fd'[c] # 0
                 PROVE  Fichas(c)' <= Cardinality(Durmiendo(c)')
    BY DEF FichaMenor
  <1>2. ASSUME NEW h \in Hilos, PasoHilo(h)
        PROVE  Fichas(c)' <= Cardinality(Durmiendo(c)')
    <2>1. fd[c] # 0
      <3>1. UNCHANGED fd
        BY <1>2, PasoCon DEF con
      <3>2. QED
        BY <1>1, <3>1
    <2>2. QED
      BY <1>2, <2>1, FichasPaso DEF FichaMenor
  <1>3. CASE PasoAjeno \/ \E d \in Conexiones : PasoCliente(d)
    BY <1>1, <1>3, FichasAjenas, FS_EmptySet DEF FichaMenor
  <1>4. QED
    BY <1>2, <1>3 DEF Next, PasoAjeno

-----------------------------------------------------------------------------
\* While no client may disconnect, the main thread only accepts and dispatches, so a
\* program that its conectar has put in the list stays there.
SinBajas == "desconectar" \notin Operaciones

Quedan ==
    /\ hilo[Principal].pc \in {"select", "acepta"}
    /\ \A c \in Conexiones : fd[c] # 0 /\ c # conectador => c \in programas

\* The main thread only accepts, and nobody leaves.
LEMMA NadieSeVa ==
  ASSUME SinBajas, Quedan
  PROVE  (PasoPrincipal => Lanzar) /\ \A c \in Conexiones : ~Desconectar(c)
  BY DEF SinBajas, Quedan, PasoPrincipal, TomaMutex, DescUlts, SoltarGrado, DescFin, En,
     Desconectar

\* What the main thread and conectar may touch then: the mutexes of a new program.
LEMMA AjenosSinBajas ==
  ASSUME Base, SinBajas, Quedan, PasoAjeno
  PROVE  /\ \A h \in Hilos : hilo'[h] = hilo[h]
         /\ UNCHANGED <<estado, joineado, idos, marca, grado, multi, val, cola, caido, cliente>>
         /\ FdQueda
         /\ \/ UNCHANGED tomado
            \/ /\ conectador \in Conexiones /\ fd[conectador] = 0
               /\ tomado' = tomado \cup Cerrados(conectador)
  <1>1. Partes /\ ConexionOK
    BY DEF Base
  <1>2. /\ \A h \in Hilos : hilo'[h] = hilo[h]
        /\ UNCHANGED ults /\ UNCHANGED marca /\ UNCHANGED sems /\ FdQueda
    BY <1>1, AjenosQuietos
  <1>3. CASE UNCHANGED vars \/ Lanzar \/ Enlazar \/ \E c \in Conexiones : Aceptar(c)
    BY <1>2, <1>3 DEF vars, Lanzar, Enlazar, Aceptar, ults, sems
  <1>4. CASE Conectar
    BY <1>1, <1>2, <1>4 DEF Conectar, ults, sems, Partes, ConOK
  <1>5. QED
    BY <1>3, <1>4, NadieSeVa DEF PasoAjeno, PasoConectar

\* A program enters the list when its conectar ends, and none leaves it.
LEMMA QuedanPaso ==
  ASSUME Base, SinBajas, Quedan, [Next]_vars
  PROVE  Quedan'
  <1>1. Partes /\ RutasOK /\ ConexionOK /\ Principal \in Todos /\ Principal \notin Hilos
    BY SuseConstantes DEF Base, Todos
  <1>2. CASE UNCHANGED vars
    BY <1>2 DEF vars, con, Quedan
  <1>3. ASSUME NEW h \in Hilos, PasoHilo(h)
        PROVE  Quedan'
    <2>1. hilo'[Principal] = hilo[Principal]
      BY <1>1, <1>3, PasoCamina DEF Camina, Otros, RutasOK, RutaOK, Partes
    <2>2. QED
      BY <1>3, <2>1, PasoCon DEF con, Quedan
  <1>4. ASSUME NEW c \in Conexiones, PasoCliente(c)
        PROVE  Quedan'
    BY <1>1, <1>4, ClientePide DEF Empieza, Otros, con, Quedan
  <1>5. ASSUME NEW c \in Conexiones, Aceptar(c)
        PROVE  Quedan'
    <2>1. hilo'[Principal].pc = "acepta"
      BY <1>1, <1>5 DEF Aceptar, Pone, Partes, HilosOK, TipoHilo
    <2>2. QED
      BY <1>5, <2>1 DEF Aceptar, Quedan
  <1>6. CASE Lanzar
    <2>1. hilo'[Principal].pc = "select"
      BY <1>1, <1>6 DEF Lanzar, Pone, Partes, HilosOK, EnSelect, Reposo
    <2>2. QED
      BY <1>6, <2>1, SuseConstantes DEF Lanzar, Quedan
  <1>7. CASE Conectar
    BY <1>1, <1>7 DEF Conectar, Quedan, Partes, ConOK
  <1>8. CASE Enlazar
    BY <1>8 DEF Enlazar, Quedan
  <1>9. QED
    BY <1>2, <1>3, <1>4, <1>5, <1>6, <1>7, <1>8, NadieSeVa DEF Next, PasoConectar

\* A descriptor that is right now was right before.
LEMMA CadaUnoAntes ==
  ASSUME Base, [Next]_vars, CadaUnoSuFd'
  PROVE  CadaUnoSuFd
  BY RutasPaso, CadaUnoQueda DEF Base

\* While none is mistaken, the holder of a descriptor is the program it was given to.
LEMMA Suyo ==
  ASSUME Base, Quedan, CadaUnoSuFd, NEW h \in Hilos, hilo[h].pc # "libre"
  PROVE  /\ hilo[h].prog \in Conexiones /\ hilo[h].prog \in programas
         /\ hilo[h].prog \in abiertas
         /\ fd[hilo[h].prog] # 0 /\ socket[hilo[h].prog] = fd[hilo[h].prog]
         /\ Vigentes(fd[hilo[h].prog]) = {hilo[h].prog}
  <1>1. /\ hilo[h].prog \in Conexiones /\ fd[hilo[h].prog] # 0
        /\ hilo[h].prog \in programas
    BY DEF Base, RutasOK, RutaOK, Quedan
  <1>2. QED
    BY <1>1, UnicoVigente DEF Base, ConexionOK, ListaOK

-----------------------------------------------------------------------------
\* What the client of c notes down when it sends a request.
Anota(c, op) ==
    LET k == cliente[c]
        n == cliente'[c]
    IN /\ \A d \in Conexiones : d # c => cliente'[d] = cliente[d]
       /\ op = "planificar" =>
            /\ k.fase \in {"corre", "debe"}
            /\ k.buzon = <<>> => n.fase = "espera" /\ n.buzon = <<>>
       /\ op # "planificar" => k.fase = "corre" /\ n.buzon = k.buzon
       /\ op # "crear" => n.creados = k.creados
       /\ op = "crear" => n.creados = k.creados + 1 /\ n.vivos = k.vivos \cup {k.creados}
       /\ op = "cerrar" => k.corre \in k.vivos /\ n.vivos = k.vivos \ {k.corre}
       /\ op \notin {"crear", "cerrar"} => n.vivos = k.vivos

\* Each call of libSUSE, with the notes of its request.
LEMMA ClienteAnota ==
  ASSUME Partes, NEW c \in Conexiones, PasoCliente(c)
  PROVE  \E h \in Hilos : Empieza(h, c) /\ Anota(c, hilo'[h].op)
  <1> DEFINE k == cliente[c]
             e == k.enviados + 1
  <1>1. k \in TipoCliente
    BY DEF Partes, ClienteOK
  <1> HIDE DEF e
  <1>2. \A op : op \in {"crear", "planificar", "joinear", "cerrar", "wait", "signal"}
                   => op \in Pedidos
    BY DEF Pedidos
  <1>3. CASE suse_create(c)
    <2> DEFINE m == k.creados + 1
               v == k.vivos \cup {k.creados}
    <2>1. Pide(c, "crear", k.creados, Nadie, [k EXCEPT !.creados = m, !.vivos = v])
      BY <1>1, <1>3 DEF suse_create, TipoCliente
    <2> HIDE DEF m, v
    <2>2. PICK h \in Hilos : Empieza(h, c) /\ hilo'[h].op = "crear"
      BY <1>2, <2>1, PideEmpieza
    <2>3. /\ \A d \in Conexiones : d # c => cliente'[d] = cliente[d]
          /\ cliente'[c] = [[k EXCEPT !.creados = m, !.vivos = v] EXCEPT !.enviados = e]
      <3>1. Apunta(c, [k EXCEPT !.creados = m, !.vivos = v])
        BY <1>2, <2>1, PideEmpieza
      <3>2. QED
        BY <3>1 DEF Apunta, e
    <2>4. /\ cliente'[c].creados = m /\ cliente'[c].vivos = v
          /\ cliente'[c].buzon = k.buzon
      BY <1>1, <2>3 DEF TipoCliente
    <2>5. k.fase = "corre"
      BY <1>3 DEF suse_create
    <2>6. Anota(c, "crear")
      BY <2>3, <2>4, <2>5 DEF Anota, m, v
    <2>7. QED
      BY <2>2, <2>6
  <1>4. CASE suse_schedule_next(c)
    <2>1. k.fase \in {"corre", "debe"}
      BY <1>4 DEF suse_schedule_next
    <2>2. CASE k.buzon = <<>>
      <3>1. Pide(c, "planificar", 0, Nadie, [k EXCEPT !.fase = "espera"])
        BY <1>4, <2>2 DEF suse_schedule_next
      <3>2. PICK h \in Hilos : Empieza(h, c) /\ hilo'[h].op = "planificar"
        BY <1>2, <3>1, PideEmpieza
      <3>3. /\ \A d \in Conexiones : d # c => cliente'[d] = cliente[d]
            /\ cliente'[c] = [[k EXCEPT !.fase = "espera"] EXCEPT !.enviados = e]
        <4>1. Apunta(c, [k EXCEPT !.fase = "espera"])
          BY <1>2, <3>1, PideEmpieza
        <4>2. QED
          BY <4>1 DEF Apunta, e
      <3>4. /\ cliente'[c].fase = "espera" /\ cliente'[c].buzon = k.buzon
            /\ cliente'[c].creados = k.creados /\ cliente'[c].vivos = k.vivos
        BY <1>1, <3>3 DEF TipoCliente
      <3>5. Anota(c, "planificar")
        BY <2>1, <2>2, <3>3, <3>4 DEF Anota
      <3>6. QED
        BY <3>2, <3>5
    <2>3. CASE k.buzon # <<>>
      <3> DEFINE x == Head(k.buzon)
                 b == Tail(k.buzon)
                 f == IF x \in k.vivos THEN "corre" ELSE "fin"
      <3>1. Pide(c, "planificar", 0, Nadie, [k EXCEPT !.buzon = b, !.corre = x, !.fase = f])
        BY <1>1, <1>4, <2>3 DEF suse_schedule_next, TipoCliente
      <3> HIDE DEF x, b, f
      <3>2. PICK h \in Hilos : Empieza(h, c) /\ hilo'[h].op = "planificar"
        BY <1>2, <3>1, PideEmpieza
      <3>3. /\ \A d \in Conexiones : d # c => cliente'[d] = cliente[d]
            /\ cliente'[c] = [[k EXCEPT !.buzon = b, !.corre = x, !.fase = f] EXCEPT !.enviados = e]
        <4>1. Apunta(c, [k EXCEPT !.buzon = b, !.corre = x, !.fase = f])
          BY <1>2, <3>1, PideEmpieza
        <4>2. QED
          BY <4>1 DEF Apunta, e
      <3>4. cliente'[c].creados = k.creados /\ cliente'[c].vivos = k.vivos
        BY <1>1, <3>3 DEF TipoCliente
      <3>5. Anota(c, "planificar")
        BY <2>1, <2>3, <3>3, <3>4 DEF Anota
      <3>6. QED
        BY <3>2, <3>5
    <2>4. QED
      BY <2>2, <2>3
  <1>5. ASSUME NEW op \in {"joinear", "wait"}, NEW t, NEW s, op = "wait" => s \in Sems,
               k.fase = "corre", Pide(c, op, t, s, [k EXCEPT !.fase = "debe"])
        PROVE  \E h \in Hilos : Empieza(h, c) /\ Anota(c, hilo'[h].op)
    <2>1. PICK h \in Hilos : Empieza(h, c) /\ hilo'[h].op = op
      BY <1>2, <1>5, PideEmpieza
    <2>2. /\ \A d \in Conexiones : d # c => cliente'[d] = cliente[d]
          /\ cliente'[c] = [[k EXCEPT !.fase = "debe"] EXCEPT !.enviados = e]
      <3>1. Apunta(c, [k EXCEPT !.fase = "debe"])
        BY <1>2, <1>5, PideEmpieza
      <3>2. QED
        BY <3>1 DEF Apunta, e
    <2>3. /\ cliente'[c].buzon = k.buzon
          /\ cliente'[c].creados = k.creados /\ cliente'[c].vivos = k.vivos
      BY <1>1, <2>2 DEF TipoCliente
    <2>4. Anota(c, op)
      BY <1>5, <2>2, <2>3 DEF Anota
    <2>5. QED
      BY <2>1, <2>4
  <1>6. CASE suse_close(c)
    <2> DEFINE f == IF k.corre = 0 THEN "fin" ELSE "debe"
               v == k.vivos \ {k.corre}
    <2>1. Pide(c, "cerrar", k.corre, Nadie, [k EXCEPT !.fase = f, !.vivos = v])
      BY <1>1, <1>6 DEF suse_close, TipoCliente
    <2> HIDE DEF f, v
    <2>2. PICK h \in Hilos : Empieza(h, c) /\ hilo'[h].op = "cerrar"
      BY <1>2, <2>1, PideEmpieza
    <2>3. /\ \A d \in Conexiones : d # c => cliente'[d] = cliente[d]
          /\ cliente'[c] = [[k EXCEPT !.fase = f, !.vivos = v] EXCEPT !.enviados = e]
      <3>1. Apunta(c, [k EXCEPT !.fase = f, !.vivos = v])
        BY <1>2, <2>1, PideEmpieza
      <3>2. QED
        BY <3>1 DEF Apunta, e
    <2>4. /\ cliente'[c].creados = k.creados /\ cliente'[c].vivos = v
          /\ cliente'[c].buzon = k.buzon
      BY <1>1, <2>3 DEF TipoCliente
    <2>5. k.fase = "corre" /\ k.corre \in k.vivos
      BY <1>6 DEF suse_close
    <2>6. Anota(c, "cerrar")
      BY <2>3, <2>4, <2>5 DEF Anota, v
    <2>7. QED
      BY <2>2, <2>6
  <1>7. ASSUME NEW s \in Sems, suse_signal(c, s)
        PROVE  \E h \in Hilos : Empieza(h, c) /\ Anota(c, hilo'[h].op)
    <2>1. Pide(c, "signal", 0, s, k) /\ k.fase = "corre"
      BY <1>7 DEF suse_signal
    <2>2. PICK h \in Hilos : Empieza(h, c) /\ hilo'[h].op = "signal"
      BY <1>2, <2>1, PideEmpieza
    <2>3. /\ \A d \in Conexiones : d # c => cliente'[d] = cliente[d]
          /\ cliente'[c] = [k EXCEPT !.enviados = e]
      <3>1. Apunta(c, k)
        BY <1>2, <2>1, PideEmpieza
      <3>2. QED
        BY <3>1 DEF Apunta, e
    <2>4. /\ cliente'[c].creados = k.creados /\ cliente'[c].vivos = k.vivos
          /\ cliente'[c].buzon = k.buzon
      BY <1>1, <2>3 DEF TipoCliente
    <2>5. Anota(c, "signal")
      BY <2>1, <2>3, <2>4 DEF Anota
    <2>6. QED
      BY <2>2, <2>5
  <1>8. CASE suse_join(c)
    BY <1>5, <1>8 DEF suse_join
  <1>9. ASSUME NEW s \in Sems, suse_wait(c, s)
        PROVE  \E h \in Hilos : Empieza(h, c) /\ Anota(c, hilo'[h].op)
    BY <1>5, <1>9 DEF suse_wait
  <1>10. QED
    BY <1>3, <1>4, <1>6, <1>7, <1>8, <1>9 DEF PasoCliente

-----------------------------------------------------------------------------
\* The planificar of a program that has not answered yet.
Planifica(h, c) ==
    /\ hilo[h].pc # "libre" /\ hilo[h].prog = c /\ hilo[h].op = "planificar"
    /\ hilo[h].pc \notin {"planFin", "colgado"}

\* suse_schedule_next waits for its answer, so a program has one planificar under
\* way at most, and no answer ever arrives that its client is not waiting for.
UnPlan ==
    \A c \in Conexiones :
        /\ cliente[c].buzon = <<>>
        /\ \A h \in Hilos : Planifica(h, c) =>
              cliente[c].fase = "espera" /\ \A g \in Hilos : Planifica(g, c) => g = h

\* A handler stays with its program and its request.
LEMMA MismoPrograma ==
  ASSUME Base, Quedan, CadaUnoSuFd, NEW h \in Hilos, PasoHilo(h)
  PROVE  /\ \A g \in Hilos : g # h => hilo'[g] = hilo[g]
         /\ hilo[h].pc # "libre"
         /\ hilo'[h].pc # "libre" =>
               hilo'[h].prog = hilo[h].prog /\ hilo'[h].op = hilo[h].op
  <1>1. Camina(h) /\ Partes /\ RutasOK /\ Hilos \subseteq Todos
    BY PasoCamina DEF Base, RutasOK, RutaOK, Partes, Todos
  <1>2. hilo[h].pc # "libre"
    BY <1>1 DEF Camina
  <1>3. Vigentes(socket[hilo[h].prog]) = {hilo[h].prog}
    BY <1>2, Suyo
  <1>4. hilo'[h] = Reposo => hilo'[h].pc = "libre"
    BY DEF Reposo
  <1>5. QED
    BY <1>1, <1>3, <1>4 DEF Camina, Otros

\* No step of a handler starts a planificar.
LEMMA PlanificaBaja ==
  ASSUME Base, Quedan, CadaUnoSuFd, NEW h \in Hilos, PasoHilo(h), NEW g \in Hilos, NEW c,
         Planifica(g, c)'
  PROVE  Planifica(g, c)
  <1>1. CASE g # h
    BY <1>1, MismoPrograma DEF Planifica
  <1>2. CASE g = h
    <2>1. hilo'[h].pc # "libre" /\ hilo[h].pc # "libre"
      BY <1>2, MismoPrograma DEF Planifica
    <2>2. hilo[h].prog = c /\ hilo[h].op = "planificar"
      BY <1>2, <2>1, MismoPrograma DEF Planifica
    <2>3. hilo[h].pc # "planFin"
      <3>1. SUFFICES ASSUME PlanFin(h)
                     PROVE  hilo'[h].pc = "libre"
        BY <2>1, Despacho
      <3>2. HilosOK /\ h \in Todos
        BY DEF Base, Partes, Todos
      <3>3. QED
        BY <3>1, <3>2, CamposTermina DEF PlanFin
    <2>4. hilo[h].pc # "colgado"
      BY Despacho
    <2>5. QED
      BY <1>2, <2>1, <2>2, <2>3, <2>4 DEF Planifica
  <1>3. QED
    BY <1>1, <1>2

\* Only the choice of a ult is told to a client.
LEMMA SoloEligeAvisa ==
  ASSUME NEW h \in Hilos, PasoHilo(h), ~PlanElige(h)
  PROVE  UNCHANGED cliente
  BY DEF PasoHilo, Atender, SoltarGrado, TomaMutex, Crear, CrearFin, PlanPide, PlanMulti,
     PlanGrado, PlanEntra, PlanHilos, PlanU1, PlanJoin, PlanDesaloja, PlanEscanea, PlanBloquea,
     PlanDuerme, PlanEspera, PlanFin, JoinPide, JoinToma, JoinBloquea, JoinEscribe, JoinMarca,
     Cerrar, CerrarFin, Esperar, EsperaEscribe, Adormece, EsperarFin, Senalar

\* The answer goes to the client that waits for it, and wakes it.
LEMMA AvisaAlSuyo ==
  ASSUME Base, Quedan, CadaUnoSuFd, UnPlan, NEW h \in Hilos, PasoHilo(h), NEW c \in Conexiones
  PROVE  /\ cliente'[c].buzon = <<>>
         /\ cliente'[c].creados = cliente[c].creados /\ cliente'[c].vivos = cliente[c].vivos
         /\ \/ cliente'[c].fase = cliente[c].fase
            \/ PlanElige(h) /\ hilo[h].prog = c /\ hilo'[h].pc = "planFin"
  <1>1. cliente[c].buzon = <<>>
    BY DEF UnPlan
  <1>2. CASE UNCHANGED cliente
    BY <1>1, <1>2
  <1>3. CASE ~UNCHANGED cliente
    <2>1. PlanElige(h) /\ hilo[h].pc = "planElige"
      BY <1>3, SoloEligeAvisa DEF PlanElige, En
    <2>2. PICK t : /\ Entrega(fd[hilo[h].prog], t)
                   /\ Pone(h, [hilo[h] EXCEPT !.pc = "planFin", !.tid = t])
      BY <1>3, <2>1 DEF PlanElige
    <2>3. HilosOK /\ h \in Todos /\ hilo[h] \in TipoHilo /\ cliente[c] \in TipoCliente
      BY DEF Base, Partes, HilosOK, ClienteOK, Todos
    <2>4. hilo'[h].pc = "planFin"
      <3>1. hilo'[h] = [hilo[h] EXCEPT !.pc = "planFin", !.tid = t]
        BY <2>2, <2>3 DEF Pone, HilosOK
      <3>2. QED
        BY <2>3, <3>1 DEF TipoHilo
    <2>5. Planifica(h, hilo[h].prog)
      BY <2>1 DEF Planifica, Base, RutasOK, RutaOK, Destino, Planes, ConHilos, SinCorrer
    <2>6. /\ hilo[h].prog \in Conexiones /\ hilo[h].prog \in abiertas
          /\ socket[hilo[h].prog] = fd[hilo[h].prog]
      BY <2>1, Suyo
    <2>7. CASE c # hilo[h].prog
      <3>1. c \notin abiertas \/ socket[c] # fd[hilo[h].prog]
        BY <2>6, <2>7 DEF Base, ConexionOK, ListaOK
      <3>2. QED
        BY <1>1, <2>2, <2>7, <3>1 DEF Entrega
    <2>8. CASE c = hilo[h].prog
      <3>1. cliente[c].fase = "espera"
        BY <2>5, <2>6, <2>8 DEF UnPlan
      <3>2. cliente'[c] = [cliente[c] EXCEPT
                              !.fase = IF t \in cliente[c].vivos THEN "corre" ELSE "fin",
                              !.corre = t]
        BY <2>2, <2>6, <2>8, <3>1 DEF Entrega
      <3>3. /\ cliente'[c].buzon = cliente[c].buzon /\ cliente'[c].vivos = cliente[c].vivos
            /\ cliente'[c].creados = cliente[c].creados
        BY <2>3, <3>2 DEF TipoCliente
      <3>4. QED
        BY <1>1, <2>1, <2>4, <2>8, <3>3
    <2>9. QED
      BY <2>7, <2>8
  <1>4. QED
    BY <1>2, <1>3

\* One planificar of a program at a time.
LEMMA UnPlanPaso ==
  ASSUME Base, SinBajas, Quedan, CadaUnoSuFd, UnPlan, [Next]_vars
  PROVE  UnPlan'
  <1>1. Partes /\ RutasOK
    BY DEF Base
  <1>2. ASSUME NEW h \in Hilos, PasoHilo(h)
        PROVE  UnPlan'
    <2>1. ASSUME NEW c \in Conexiones, NEW g \in Hilos, Planifica(g, c)'
          PROVE  cliente'[c].fase = "espera" /\ \A f \in Hilos : Planifica(f, c)' => f = g
      <3>1. Planifica(g, c) /\ \A f \in Hilos : Planifica(f, c)' => Planifica(f, c)
        BY <1>2, <2>1, PlanificaBaja
      <3>2. cliente[c].fase = "espera" /\ \A f \in Hilos : Planifica(f, c) => f = g
        BY <3>1 DEF UnPlan
      <3>3. ~(PlanElige(h) /\ hilo[h].prog = c /\ hilo'[h].pc = "planFin")
        <4>1. SUFFICES ASSUME PlanElige(h), hilo[h].prog = c, hilo'[h].pc = "planFin"
                       PROVE  FALSE
          OBVIOUS
        <4>2. Planifica(h, c)
          BY <1>1, <4>1 DEF PlanElige, En, Planifica, RutasOK, RutaOK, Destino, Planes,
             ConHilos, SinCorrer
        <4>3. g = h
          BY <3>2, <4>2
        <4>4. QED
          BY <2>1, <4>1, <4>3 DEF Planifica
      <3>4. QED
        BY <1>2, <3>1, <3>2, <3>3, AvisaAlSuyo
    <2>2. \A c \in Conexiones : cliente'[c].buzon = <<>>
      BY <1>2, AvisaAlSuyo
    <2>3. QED
      BY <2>1, <2>2 DEF UnPlan
  <1>3. ASSUME NEW d \in Conexiones, PasoCliente(d)
        PROVE  UnPlan'
    <2>1. PICK h \in Hilos : Empieza(h, d) /\ Anota(d, hilo'[h].op)
      BY <1>1, <1>3, ClienteAnota
    <2>2. /\ ~(\E c \in Conexiones : Planifica(h, c))
          /\ \A g \in Hilos : g # h => hilo'[g] = hilo[g]
          /\ hilo'[h].prog = d
      BY <2>1 DEF Empieza, Planifica, Otros, Todos
    <2>3. \A c \in Conexiones, g \in Hilos : g # h => (Planifica(g, c)' <=> Planifica(g, c))
      BY <2>2 DEF Planifica
    <2>4. ASSUME NEW c \in Conexiones, c # d
          PROVE  /\ cliente'[c] = cliente[c]
                 /\ \A g \in Hilos : Planifica(g, c)' => Planifica(g, c)
      <3>1. ~Planifica(h, c)'
        BY <2>2, <2>4 DEF Planifica
      <3>2. QED
        BY <2>1, <2>3, <2>4, <3>1 DEF Anota
    <2>5. \A g \in Hilos : ~Planifica(g, d)
      BY <2>1 DEF Anota, UnPlan
    <2>6. \A g \in Hilos : Planifica(g, d)' => g = h /\ hilo'[h].op = "planificar"
      <3>1. Planifica(h, d)' => hilo'[h].op = "planificar"
        BY DEF Planifica
      <3>2. QED
        BY <2>3, <2>5, <3>1
    <2>7. /\ cliente'[d].buzon = <<>>
          /\ hilo'[h].op = "planificar" => cliente'[d].fase = "espera"
      BY <2>1 DEF Anota, UnPlan
    <2>8. QED
      BY <2>4, <2>6, <2>7 DEF UnPlan
  <1>4. CASE PasoAjeno
    <2>1. (\A h \in Hilos : hilo'[h] = hilo[h]) /\ UNCHANGED cliente
      BY <1>4, AjenosSinBajas
    <2>2. QED
      BY <2>1 DEF UnPlan, Planifica
  <1>5. QED
    BY <1>2, <1>3, <1>4 DEF Next, PasoAjeno

-----------------------------------------------------------------------------
\* With one planificar at a time, a sleeper has exactly one wake-up to come.
FichaIgual == \A c \in Conexiones : fd[c] # 0 => Fichas(c) = Cardinality(Durmiendo(c))

\* A sleeper is the planificar of its program.
LEMMA DuermePlanifica ==
  ASSUME Base, NEW c \in Conexiones, NEW g \in Durmiendo(c)
  PROVE  Planifica(g, c)
  BY DEF Durmiendo, Planifica, Base, RutasOK, RutaOK, Destino, Planes, ConHilos, SinCorrer,
     Sueno

\* So it is the only one.
LEMMA DuermeUno ==
  ASSUME Base, UnPlan, NEW c \in Conexiones, NEW h \in Hilos, Planifica(h, c)
  PROVE  Durmiendo(c) \subseteq {h}
  <1>1. Durmiendo(c) \subseteq Hilos
    BY DEF Durmiendo
  <1>2. QED
    BY <1>1, DuermePlanifica DEF UnPlan

\* The two counts stay equal.
LEMMA FichaIgualPaso ==
  ASSUME Base, RutasOK', UnPlan, FichaIgual, [Next]_vars
  PROVE  FichaIgual'
  <1>1. SUFFICES ASSUME NEW c \in Conexiones, fd'[c] # 0
                 PROVE  Fichas(c)' = Cardinality(Durmiendo(c)')
    BY DEF FichaIgual
  <1>2. ASSUME NEW h \in Hilos, PasoHilo(h)
        PROVE  Fichas(c)' = Cardinality(Durmiendo(c)')
    <2>1. fd[c] # 0 /\ Fichas(c) = Cardinality(Durmiendo(c))
      <3>1. UNCHANGED fd
        BY <1>2, PasoCon DEF con
      <3>2. QED
        BY <1>1, <3>1 DEF FichaIgual
    <2>2. Cardinality(Durmiendo(c)) <= 1
      <3>1. CASE Durmiendo(c) = {}
        BY <3>1, FS_EmptySet
      <3>2. CASE Durmiendo(c) # {}
        <4>1. PICK g \in Hilos : g \in Durmiendo(c)
          BY <3>2 DEF Durmiendo
        <4>2. Planifica(g, c)
          BY <4>1, DuermePlanifica
        <4>3. Durmiendo(c) = {g}
          BY <4>1, <4>2, DuermeUno
        <4>4. Cardinality({g}) = 1
          BY FS_Singleton
        <4>5. QED
          BY <4>3, <4>4
      <3>3. QED
        BY <3>1, <3>2
    <2>3. PlanBloquea(h) /\ hilo[h].prog = c => Fichas(c) = 0
      <3>1. SUFFICES ASSUME PlanBloquea(h), hilo[h].prog = c
                     PROVE  Durmiendo(c) = {}
        BY <2>1, FS_EmptySet
      <3>2. hilo[h].pc = "planBloquea"
        BY <3>1 DEF PlanBloquea, En
      <3>3. Planifica(h, c)
        BY <3>1, <3>2 DEF Planifica, Base, RutasOK, RutaOK, Destino, Planes, ConHilos,
           SinCorrer
      <3>4. h \notin Durmiendo(c)
        BY <3>2 DEF Durmiendo
      <3>5. QED
        BY <3>3, <3>4, DuermeUno
    <2>4. QED
      BY <1>2, <2>1, <2>2, <2>3, FichasPaso
  <1>3. CASE PasoAjeno \/ \E d \in Conexiones : PasoCliente(d)
    BY <1>1, <1>3, FichasAjenas, FS_EmptySet DEF FichaIgual
  <1>4. QED
    BY <1>2, <1>3 DEF Next, PasoAjeno

\* The invariant of a server that nobody disconnects from, on which the theorems
\* below rest.
Atentos == Base /\ Quedan /\ (CadaUnoSuFd => UnPlan)

\* With nobody connected, nothing has been asked for and nobody sleeps.
LEMMA EmpiezaAtento ==
  ASSUME Init
  PROVE  Quedan /\ UnPlan /\ FichaMenor /\ FichaIgual
  <1>1. \A h \in Hilos : hilo[h] = Reposo
    BY SuseConstantes DEF Init, Todos
  <1>2. Quedan
    BY SuseConstantes DEF Init, Quedan, Todos, EnSelect, Reposo
  <1>3. UnPlan
    <2>1. \A c \in Conexiones : cliente[c].buzon = <<>>
      BY DEF Init, ClienteInicial
    <2>2. \A h \in Hilos : hilo[h].pc = "libre"
      BY <1>1 DEF Reposo
    <2>3. QED
      BY <2>1, <2>2 DEF UnPlan, Planifica
  <1>4. FichaMenor /\ FichaIgual
    BY DEF Init, FichaMenor, FichaIgual
  <1>5. QED
    BY <1>2, <1>3, <1>4

\* It holds in every run where no client may disconnect.
LEMMA AtentosSiempre ==
  ASSUME SinBajas
  PROVE  Spec => []Atentos
  <1>1. Init => Quedan /\ UnPlan
    BY EmpiezaAtento
  <1>2. Base /\ Quedan /\ (CadaUnoSuFd => UnPlan) /\ [Next]_vars
           => Quedan' /\ (CadaUnoSuFd => UnPlan)'
    BY QuedanPaso, UnPlanPaso, CadaUnoAntes
  <1>3. Base /\ Quedan /\ (CadaUnoSuFd => UnPlan) => Atentos
    BY DEF Atentos
  <1>4. QED
    BY <1>1, <1>2, <1>3, Cimientos, PTL DEF Spec

\* bloqueado and bloqueadoes are one token: no wake-up is left over, and while
\* descriptors are neither reused nor mistaken every planificar that sleeps has one
\* to come.
THEOREM DespertarSinSobra == Spec => []FichaDeDespertar
  <1>1. Init => FichaMenor /\ FichaIgual
    BY EmpiezaAtento
  <1>2. Base /\ Base' /\ FichaMenor /\ [Next]_vars => FichaMenor'
    BY FichaMenorPaso DEF Base
  <1>3. Spec => []FichaMenor
    BY <1>1, <1>2, Cimientos, PTL DEF Spec
  <1>4. CASE ~SinBajas
    <2>1. FichaMenor => FichaDeDespertar
      BY <1>4 DEF SinBajas, FichaMenor, FichaDeDespertar
    <2>2. QED
      BY <1>3, <2>1, PTL
  <1>5. CASE SinBajas
    <2>1. Spec => []Atentos
      BY <1>5, AtentosSiempre
    <2>2. Atentos /\ Atentos' /\ (CadaUnoSuFd => FichaIgual) /\ [Next]_vars
             => (CadaUnoSuFd => FichaIgual)'
      BY CadaUnoAntes, FichaIgualPaso DEF Atentos, Base
    <2>3. FichaMenor /\ (CadaUnoSuFd => FichaIgual) => FichaDeDespertar
      BY DEF FichaMenor, FichaIgual, FichaDeDespertar
    <2>4. QED
      BY <1>1, <1>3, <2>1, <2>2, <2>3, PTL DEF Spec
  <1>6. QED
    BY <1>4, <1>5

-----------------------------------------------------------------------------
\* Only the choice of planificar makes a ult run.
LEMMA SoloEligeCorre ==
  ASSUME Partes, NEW h \in Hilos, PasoHilo(h), NEW c \in Conexiones, NEW t \in Tids,
         estado'[c][t] = "Ejecutando", estado[c][t] # "Ejecutando"
  PROVE  PlanElige(h) /\ hilo[h].prog = c
  <1>1. UltsOK
    BY DEF Partes
  <1>2. CASE Senalar(h)
    <2>1. estado'[c] = estado[c] \/ \E u \in Tids : estado'[c] = [estado[c] EXCEPT ![u] = "Listo"]
      BY <1>2, SenalarToca DEF Ults
    <2>2. estado[c] \in [Tids -> Estados]
      BY <1>1 DEF UltsOK
    <2>3. QED
      BY <2>1, <2>2
  <1>3. CASE PlanElige(h)
    <2>1. estado' = estado \/ \E u : estado' = [estado EXCEPT ![hilo[h].prog][u] = "Ejecutando"]
      BY <1>3 DEF PlanElige
    <2>2. QED
      BY <1>1, <1>3, <2>1 DEF UltsOK
  <1>4. CASE \/ PlanDesaloja(h) \/ Crear(h) \/ JoinBloquea(h) \/ Esperar(h)
             \/ JoinEscribe(h) \/ EsperaEscribe(h)
    <2>1. ASSUME NEW d, NEW u, NEW v, estado' = [estado EXCEPT ![d][u] = v]
          PROVE  v = "Ejecutando"
      BY <1>1, <2>1 DEF UltsOK
    <2>2. ~PlanDesaloja(h)
      BY <1>1, <2>1 DEF PlanDesaloja
    <2>3. ~Crear(h)
      BY <2>1 DEF Crear
    <2>4. ~JoinBloquea(h)
      <3>1. SUFFICES ASSUME JoinBloquea(h) PROVE FALSE
        OBVIOUS
      <3> DEFINE d == hilo[h].prog
                 v == IF estado[d][0] = "Nada" THEN estado[d][0] ELSE "Bloqueado"
      <3>2. \/ estado' = estado
            \/ estado' = [estado EXCEPT ![d][0] = v] /\ v \in {"Nada", "Bloqueado"}
        BY <3>1 DEF JoinBloquea
      <3> HIDE DEF d, v
      <3>3. CASE estado' = estado
        BY <3>3
      <3>4. CASE estado' = [estado EXCEPT ![d][0] = v] /\ v \in {"Nada", "Bloqueado"}
        BY <2>1, <3>4
      <3>5. QED
        BY <3>2, <3>3, <3>4
    <2>5. ~Esperar(h)
      <3>1. Esperar(h) => \/ estado' = estado
                          \/ estado' = [estado EXCEPT ![hilo[h].prog][hilo[h].tid] = "Bloqueado"]
        BY DEF Esperar
      <3>2. QED
        BY <2>1, <3>1
    <2>6. ASSUME NEW l, NEW u, NEW p, Adormece(h, l, u, p)
          PROVE  FALSE
      <3>1. \/ estado' = estado
            \/ estado' = [estado EXCEPT ![hilo[h].prog][u] = "Bloqueado"]
        BY <2>6 DEF Adormece
      <3>2. QED
        BY <2>1, <3>1
    <2>7. QED
      BY <1>4, <2>2, <2>3, <2>4, <2>5, <2>6 DEF JoinEscribe, EsperaEscribe
  <1>5. CASE JoinMarca(h) \/ Cerrar(h)
    BY <1>1, <1>5 DEF JoinMarca, Cerrar, UltsOK, ults
  <1>6. ASSUME NEW l, NEW p, TomaMutex(h, l, p)
        PROVE  FALSE
    BY <1>6 DEF TomaMutex, ults
  <1>7. CASE \/ Atender(h) \/ SoltarGrado(h) \/ PlanPide(h) \/ PlanMulti(h) \/ PlanGrado(h)
             \/ PlanEntra(h) \/ PlanHilos(h) \/ PlanU1(h) \/ PlanJoin(h)
             \/ PlanEscanea(h) \/ PlanBloquea(h) \/ PlanDuerme(h) \/ PlanEspera(h)
             \/ PlanFin(h) \/ JoinPide(h) \/ JoinToma(h) \/ CerrarFin(h) \/ EsperarFin(h)
             \/ CrearFin(h)
    BY <1>7 DEF Atender, SoltarGrado, PlanPide, PlanMulti, PlanGrado, PlanEntra, PlanHilos,
       PlanU1, PlanJoin, PlanEscanea, PlanBloquea, PlanDuerme, PlanEspera, PlanFin, JoinPide,
       JoinToma, CerrarFin, EsperarFin, CrearFin, ults
  <1>8. QED
    BY <1>2, <1>3, <1>4, <1>5, <1>6, <1>7 DEF PasoHilo

\* UnoEjecutando is not inductive: no ult of a program runs from the moment its
\* planificar has put the old one back to the moment it chooses the next.
Turnos ==
    \A c \in Conexiones :
        /\ \A t, u \in Corriendo(c) : t = u
        /\ \A h \in Hilos :
              hilo[h].prog = c /\ Destino(hilo[h]) \in SinCorrer => Corriendo(c) = {}

\* A planificar looks for the next ult after it has put the old one back.
LEMMA TurnoEntra ==
  ASSUME Base, Turnos, NEW h \in Hilos, PasoHilo(h), Destino(hilo'[h]) \in SinCorrer
  PROVE  /\ Corriendo(hilo[h].prog)' = {} \/ Destino(hilo[h]) \in SinCorrer
         /\ hilo'[h].prog = hilo[h].prog /\ ~PlanElige(h)
  <1>1. Camina(h) /\ h \in Todos /\ HilosOK /\ Partes /\ RutasOK /\ UltsOK
    BY PasoCamina DEF Base, RutasOK, RutaOK, Partes, Todos
  <1>2. ~(Destino(Reposo) \in SinCorrer) /\ ~("colgado" \in SinCorrer)
    BY DEF Destino, Reposo, SinCorrer, Sueno
  <1>3. hilo'[h].pc \in Pedidos \cup {"colgado", "planFin"} => Destino(hilo'[h]) = hilo'[h].pc
    BY DEF Destino, Pedidos
  <1>4. hilo'[h] # Reposo /\ hilo'[h].pc \notin Pedidos \cup {"colgado", "planFin"}
    BY <1>2, <1>3 DEF Pedidos, SinCorrer, Sueno
  <1>5. /\ Tramo(Destino(hilo[h]), Destino(hilo'[h]))
        /\ Destino(hilo'[h]) = Destino(hilo[h]) \/ hilo[h].pc = Destino(hilo[h])
        /\ hilo'[h].prog = hilo[h].prog
    <2>1. "signal" \in Pedidos
      BY DEF Pedidos
    <2>2. QED
      BY <1>1, <1>4, <2>1 DEF Camina
  <1>6. ~PlanElige(h)
    <2>1. SUFFICES ASSUME PlanElige(h) PROVE FALSE
      OBVIOUS
    <2>2. hilo[h].pc = "planElige"
      BY <2>1 DEF PlanElige, En
    <2>3. Destino(hilo'[h]) \in {"planElige", "planFin"}
      BY <1>5, <2>2 DEF Tramo, Destino
    <2>4. CASE Va(h, "colgado")
      BY <1>1, <1>4, <2>4, CamposVa
    <2>5. ASSUME NEW t, Pone(h, [hilo[h] EXCEPT !.pc = "planFin", !.tid = t])
          PROVE  FALSE
      <3>1. hilo'[h] = [hilo[h] EXCEPT !.pc = "planFin", !.tid = t] /\ hilo[h] \in TipoHilo
        BY <1>1, <2>5 DEF Pone, HilosOK
      <3>2. hilo'[h].pc = "planFin"
        BY <3>1 DEF TipoHilo
      <3>3. QED
        BY <1>4, <3>2
    <2>6. QED
      BY <2>1, <2>4, <2>5 DEF PlanElige, Cae
  <1>7. CASE Destino(hilo[h]) \notin SinCorrer
    <2>1. hilo[h].pc = "planDesaloja"
      BY <1>5, <1>7 DEF Tramo, SinCorrer, Sueno
    <2>2. PlanDesaloja(h) /\ hilo[h].prog \in Conexiones
      BY <1>1, <2>1, Despacho DEF RutasOK, RutaOK
    <2>3. Corriendo(hilo[h].prog)' = {}
      <3>1. PICK c \in Conexiones : c = hilo[h].prog
        BY <2>2
      <3>2. Corriendo(c)' = {}
        <4>1. \/ Corriendo(c) = {} /\ estado' = estado
              \/ \E t \in Corriendo(c) : estado' = [estado EXCEPT ![c][t] = "Listo"]
          BY <2>2, <3>1 DEF PlanDesaloja
        <4>2. \A t, u \in Corriendo(c) : t = u
          BY DEF Turnos
        <4>3. ASSUME NEW t \in Corriendo(c), estado' = [estado EXCEPT ![c][t] = "Listo"]
              PROVE  Corriendo(c)' = {}
          <5>1. estado'[c][t] = "Listo" /\ \A u \in Tids : u # t => estado'[c][u] = estado[c][u]
            BY <1>1, <4>3 DEF UltsOK, Corriendo
          <5>2. QED
            BY <4>2, <5>1 DEF Corriendo
        <4>4. QED
          BY <4>1, <4>3 DEF Corriendo
      <3>3. QED
        BY <1>5, <3>1, <3>2 DEF Corriendo
    <2>4. QED
      BY <1>5, <1>6, <2>3
  <1>8. QED
    BY <1>5, <1>6, <1>7

\* One ult of a program runs at a time, and none while planificar looks for one.
LEMMA TurnosPaso ==
  ASSUME SinBajas, Atentos, CadaUnoSuFd, Turnos, [Next]_vars
  PROVE  Turnos'
  <1>1. Base /\ Quedan /\ UnPlan /\ Partes /\ RutasOK
    BY DEF Atentos, Base
  <1>2. ASSUME NEW h \in Hilos, PasoHilo(h)
        PROVE  Turnos'
    <2>1. SUFFICES ASSUME NEW c \in Conexiones
                   PROVE  /\ \A t, u \in Corriendo(c)' : t = u
                          /\ \A g \in Hilos :
                               hilo'[g].prog = c /\ Destino(hilo'[g]) \in SinCorrer =>
                                  Corriendo(c)' = {}
      BY DEF Turnos
    <2>2. CASE PlanElige(h) /\ hilo[h].prog = c
      <3>1. hilo[h].pc = "planElige" /\ Destino(hilo[h]) \in SinCorrer
        BY <2>2 DEF PlanElige, En, Destino, SinCorrer
      <3>2. Corriendo(c) = {} /\ Planifica(h, c)
        BY <1>1, <2>2, <3>1 DEF Turnos, Planifica, RutasOK, RutaOK, Planes, ConHilos
      <3>3. \A t, u \in Corriendo(c)' : t = u
        <4>1. estado' = estado \/ \E u : estado' = [estado EXCEPT ![c][u] = "Ejecutando"]
          BY <2>2 DEF PlanElige
        <4>2. UltsOK
          BY <1>1 DEF Partes
        <4>3. ASSUME NEW u, estado' = [estado EXCEPT ![c][u] = "Ejecutando"]
              PROVE  Corriendo(c)' \subseteq {u}
          <5>1. \A t \in Tids : t # u => estado'[c][t] = estado[c][t]
            BY <4>2, <4>3 DEF UltsOK
          <5>2. QED
            BY <3>2, <5>1 DEF Corriendo
        <4>4. QED
          BY <3>2, <4>1, <4>3 DEF Corriendo
      <3>4. ASSUME NEW g \in Hilos, hilo'[g].prog = c, Destino(hilo'[g]) \in SinCorrer
            PROVE  FALSE
        <4>1. g # h
          BY <1>1, <1>2, <2>2, <3>4, TurnoEntra
        <4>2. hilo'[g] = hilo[g]
          BY <1>1, <1>2, <4>1, MismoPrograma
        <4>3. Planifica(g, c)
          <5>1. hilo[g].pc \notin {"libre", "planFin", "colgado"}
            BY <3>4, <4>2 DEF Destino, SinCorrer, Sueno
          <5>2. hilo[g].op = "planificar"
            BY <1>1, <3>4, <4>2 DEF RutasOK, RutaOK, Planes, ConHilos
          <5>3. QED
            BY <3>4, <4>2, <5>1, <5>2 DEF Planifica
        <4>4. QED
          BY <1>1, <3>2, <4>1, <4>3 DEF UnPlan
      <3>5. QED
        BY <3>3, <3>4
    <2>3. CASE ~(PlanElige(h) /\ hilo[h].prog = c)
      <3>1. Corriendo(c)' \subseteq Corriendo(c)
        BY <1>1, <1>2, <2>3, SoloEligeCorre DEF Corriendo
      <3>2. ASSUME NEW g \in Hilos, hilo'[g].prog = c, Destino(hilo'[g]) \in SinCorrer
            PROVE  Corriendo(c)' = {}
        <4>1. CASE g = h
          BY <1>1, <1>2, <3>1, <3>2, <4>1, TurnoEntra DEF Turnos, Corriendo
        <4>2. CASE g # h
          BY <1>1, <1>2, <3>1, <3>2, <4>2, MismoPrograma DEF Turnos
        <4>3. QED
          BY <4>1, <4>2
      <3>3. QED
        BY <3>1, <3>2 DEF Turnos
    <2>4. QED
      BY <2>2, <2>3
  <1>3. ASSUME NEW d \in Conexiones, PasoCliente(d)
        PROVE  Turnos'
    <2>1. PICK h \in Hilos : Empieza(h, d)
      BY <1>1, <1>3, ClientePide
    <2>2. UNCHANGED estado
      BY <1>1, <1>3, ClientePide DEF ults
    <2>3. \A g \in Hilos : Destino(hilo'[g]) \in SinCorrer => hilo'[g] = hilo[g]
      BY <2>1 DEF Empieza, Otros, Todos, Destino, SinCorrer, Sueno
    <2>4. QED
      BY <2>2, <2>3 DEF Turnos, Corriendo
  <1>4. CASE PasoAjeno
    <2>1. (\A h \in Hilos : hilo'[h] = hilo[h]) /\ UNCHANGED estado
      BY <1>1, <1>4, AjenosSinBajas
    <2>2. QED
      BY <2>1 DEF Turnos, Corriendo
  <1>5. QED
    BY <1>2, <1>3, <1>4 DEF Next, PasoAjeno

\* While nobody disconnects and no descriptor is mistaken, a program has one running
\* ult at most, in whatever order its requests are attended.
THEOREM UnUltALaVez ==
  ASSUME SinBajas
  PROVE  Spec => [](CadaUnoSuFd => UnoEjecutando)
  <1>1. Init => Turnos
    <2>1. SUFFICES ASSUME Init PROVE Turnos
      OBVIOUS
    <2>2. \A c \in Conexiones : Corriendo(c) = {}
      BY <2>1 DEF Init, Corriendo
    <2>3. QED
      BY <2>2 DEF Turnos
  <1>2. Atentos /\ (CadaUnoSuFd => Turnos) /\ [Next]_vars => (CadaUnoSuFd => Turnos)'
    BY TurnosPaso, CadaUnoAntes DEF Atentos
  <1>3. Turnos => UnoEjecutando
    <2>1. SUFFICES ASSUME Turnos, NEW c \in Conexiones
                   PROVE  Cardinality(Corriendo(c)) <= 1
      BY DEF UnoEjecutando
    <2>2. CASE Corriendo(c) = {}
      BY <2>2, FS_EmptySet
    <2>3. CASE Corriendo(c) # {}
      <3>1. PICK t : Corriendo(c) = {t}
        BY <2>1, <2>3 DEF Turnos
      <3>2. QED
        BY <3>1, FS_Singleton
    <2>4. QED
      BY <2>2, <2>3
  <1>4. QED
    BY <1>1, <1>2, <1>3, AtentosSiempre, PTL DEF Spec

-----------------------------------------------------------------------------
\* A thread is inside the mutex of a program, or is to go on there.
Adentro(h, c) == hilo[h].prog = c /\ Destino(hilo[h]) \in Seccion

\* The ults that a client counts as alive are some of those it made, and once one of
\* them closes they are never all of them again.
Cuentas ==
    /\ \A c \in Conexiones :
          /\ cliente[c].creados \in Nat
          /\ cliente[c].vivos \subseteq 0 .. cliente[c].creados - 1
    /\ \A h \in Hilos, c \in Conexiones :
          hilo[h].pc # "libre" /\ hilo[h].op = "cerrar" /\ hilo[h].prog = c => ~SinCierres(c)

\* A client makes its ults in order, and closes one that is alive.
LEMMA CuentasPaso ==
  ASSUME SinBajas, Atentos, CadaUnoSuFd, Cuentas, [Next]_vars
  PROVE  Cuentas' /\ \A c \in Conexiones : SinCierres(c)' => SinCierres(c)
  <1>1. Base /\ Quedan /\ UnPlan /\ Partes /\ RutasOK
    BY DEF Atentos, Base
  <1>2. ASSUME NEW h \in Hilos, PasoHilo(h)
        PROVE  Cuentas' /\ \A c \in Conexiones : SinCierres(c)' => SinCierres(c)
    <2>1. \A c \in Conexiones : /\ cliente'[c].creados = cliente[c].creados
                                /\ cliente'[c].vivos = cliente[c].vivos
      BY <1>1, <1>2, AvisaAlSuyo
    <2>2. \A c \in Conexiones : SinCierres(c)' <=> SinCierres(c)
      BY <2>1 DEF SinCierres
    <2>3. ASSUME NEW g \in Hilos, hilo'[g].pc # "libre", hilo'[g].op = "cerrar"
          PROVE  hilo[g].pc # "libre" /\ hilo[g].op = "cerrar" /\ hilo'[g].prog = hilo[g].prog
      BY <1>1, <1>2, <2>3, MismoPrograma
    <2>4. QED
      BY <2>1, <2>2, <2>3 DEF Cuentas
  <1>3. ASSUME NEW d \in Conexiones, PasoCliente(d)
        PROVE  Cuentas' /\ \A c \in Conexiones : SinCierres(c)' => SinCierres(c)
    <2>1. PICK h \in Hilos : Empieza(h, d) /\ Anota(d, hilo'[h].op)
      BY <1>1, <1>3, ClienteAnota
    <2> DEFINE k == cliente[d]
               n == cliente'[d]
    <2>2. \A c \in Conexiones : c # d => cliente'[c] = cliente[c]
      BY <2>1 DEF Anota
    <2>3. k.creados \in Nat /\ k.vivos \subseteq 0 .. k.creados - 1
      BY DEF Cuentas
    <2>4. /\ n.creados \in Nat /\ n.vivos \subseteq 0 .. n.creados - 1
          /\ n.vivos = 0 .. n.creados - 1 => k.vivos = 0 .. k.creados - 1
          /\ hilo'[h].op = "cerrar" => n.vivos # 0 .. n.creados - 1
      <3>1. /\ hilo'[h].op # "crear" => n.creados = k.creados
            /\ hilo'[h].op = "crear" =>
                  n.creados = k.creados + 1 /\ n.vivos = k.vivos \cup {k.creados}
            /\ hilo'[h].op = "cerrar" => k.corre \in k.vivos /\ n.vivos = k.vivos \ {k.corre}
            /\ hilo'[h].op \notin {"crear", "cerrar"} => n.vivos = k.vivos
        BY <2>1 DEF Anota
      <3> HIDE DEF k, n
      <3>2. CASE hilo'[h].op = "crear"
        <4>1. PICK m \in Nat : m = k.creados
          BY <2>3
        <4>2. n.creados = m + 1 /\ n.creados - 1 = m /\ n.vivos = k.vivos \cup {m}
          BY <3>1, <3>2, <4>1
        <4>3. k.vivos \subseteq 0 .. m - 1
          BY <2>3, <4>1
        <4>4. n.vivos \subseteq 0 .. m
          BY <4>2, <4>3
        <4>5. n.vivos = 0 .. m => k.vivos = 0 .. m - 1
          <5>1. ASSUME n.vivos = 0 .. m, NEW x \in 0 .. m - 1
                PROVE  x \in k.vivos
            BY <4>2, <5>1
          <5>2. QED
            BY <4>3, <5>1
        <4>6. QED
          BY <3>2, <4>1, <4>2, <4>4, <4>5
      <3>3. CASE hilo'[h].op = "cerrar"
        BY <2>3, <3>1, <3>3
      <3>4. CASE hilo'[h].op \notin {"crear", "cerrar"}
        BY <2>3, <3>1, <3>4
      <3>5. QED
        BY <3>2, <3>3, <3>4
    <2>5. \A c \in Conexiones : SinCierres(c)' => SinCierres(c)
      BY <2>2, <2>4 DEF SinCierres
    <2>6. ASSUME NEW g \in Hilos, NEW c \in Conexiones, hilo'[g].pc # "libre",
                 hilo'[g].op = "cerrar", hilo'[g].prog = c
          PROVE  ~SinCierres(c)'
      <3>1. CASE g = h
        <4>1. c = d
          BY <2>1, <2>6, <3>1 DEF Empieza
        <4>2. QED
          BY <2>4, <2>6, <3>1, <4>1 DEF SinCierres
      <3>2. CASE g # h
        <4>1. hilo'[g] = hilo[g]
          BY <2>1, <3>2 DEF Empieza, Otros, Todos
        <4>2. QED
          BY <2>5, <2>6, <4>1 DEF Cuentas
      <3>3. QED
        BY <3>1, <3>2
    <2>7. \A c \in Conexiones : /\ cliente'[c].creados \in Nat
                                /\ cliente'[c].vivos \subseteq 0 .. cliente'[c].creados - 1
      BY <2>2, <2>4 DEF Cuentas
    <2>8. QED
      BY <2>5, <2>6, <2>7 DEF Cuentas
  <1>4. CASE PasoAjeno
    <2>1. (\A h \in Hilos : hilo'[h] = hilo[h]) /\ UNCHANGED cliente
      BY <1>1, <1>4, AjenosSinBajas
    <2>2. QED
      BY <2>1 DEF Cuentas, SinCierres
  <1>5. QED
    BY <1>2, <1>3, <1>4 DEF Next, PasoAjeno

\* A handler gives the mutex of its program back when it leaves the section that the
\* mutex guards; only cerrar gives it back twice.
LEMMA MutexSale ==
  ASSUME Base, NEW h \in Hilos, PasoHilo(h), NEW c \in Conexiones,
         Mutex(c) \in tomado, Mutex(c) \notin tomado'
  PROVE  /\ hilo[h].prog = c
         /\ hilo[h].op = "cerrar" \/ (Adentro(h, c) /\ ~Adentro(h, c)')
  <1>1. Partes /\ RutasOK /\ HilosOK /\ h \in Todos /\ c # Nadie
    BY SuseConstantes DEF Base, Partes, Todos
  <1>2. CASE Senalar(h)
    BY <1>1, <1>2, SenalarToca DEF Mutex, Etiquetas
  <1>3. CASE ~Senalar(h)
    <2>1. hilo[h].prog = c
      BY <1>1, <1>3, SoloSuyo DEF Intacto, Etiquetas, Mutex
    <2>2. ~Adentro(h, c)' \/ hilo'[h] # Reposo
      BY DEF Adentro, Reposo, Destino, Seccion
    <2>3. CASE Crear(h) \/ CrearFin(h) \/ PlanFin(h) \/ EsperarFin(h)
      <3>1. Destino(hilo[h]) \in Seccion
        BY <2>3 DEF Crear, CrearFin, PlanFin, EsperarFin, En, Destino, Seccion
      <3>2. Termina(h)
        BY <2>3 DEF Crear, CrearFin, PlanFin, EsperarFin, Abre, Mutex
      <3>3. QED
        BY <1>1, <2>1, <2>2, <3>1, <3>2, CamposTermina DEF Adentro
    <2>4. CASE PlanDuerme(h)
      BY <1>1, <2>1, <2>4, CamposVa DEF PlanDuerme, En, Adentro, Destino, Seccion
    <2>5. CASE JoinMarca(h)
      BY <1>1, <2>1, <2>2, <2>5, CamposTermina DEF JoinMarca, En, Adentro, Destino, Seccion
    <2>6. CASE Cerrar(h) \/ CerrarFin(h)
      <3>1. Destino(hilo[h]) \in Cierres
        BY <2>6 DEF Cerrar, CerrarFin, En, Destino, Cierres
      <3>2. QED
        BY <1>1, <2>1, <3>1 DEF RutasOK, RutaOK
    <2>7. ASSUME NEW l, NEW p, TomaMutex(h, l, p)
          PROVE  FALSE
      BY <2>7 DEF TomaMutex, Toma
    <2>8. CASE \/ Atender(h) \/ SoltarGrado(h) \/ PlanPide(h) \/ PlanMulti(h) \/ PlanGrado(h)
               \/ PlanEntra(h) \/ PlanHilos(h) \/ PlanU1(h) \/ PlanJoin(h) \/ PlanDesaloja(h)
      BY <1>1, <2>8 DEF Atender, SoltarGrado, PlanPide, PlanMulti, PlanGrado, PlanEntra,
         PlanHilos, PlanU1, PlanJoin, PlanDesaloja, Toma, Abre, CandadoMulti, Mutex
    <2>9. CASE \/ PlanEscanea(h) \/ PlanBloquea(h) \/ PlanEspera(h) \/ PlanElige(h)
               \/ JoinPide(h) \/ JoinToma(h) \/ JoinBloquea(h) \/ Esperar(h)
               \/ JoinEscribe(h) \/ EsperaEscribe(h)
      BY <2>9 DEF PlanEscanea, PlanBloquea, PlanEspera, PlanElige, JoinPide, JoinToma,
         JoinBloquea, Esperar, JoinEscribe, EsperaEscribe, Adormece, Toma
    <2>10. QED
      BY <1>3, <2>3, <2>4, <2>5, <2>6, <2>7, <2>8, <2>9 DEF PasoHilo
  <1>4. QED
    BY <1>2, <1>3

\* A handler enters that section by the mutex.
LEMMA SeccionEntra ==
  ASSUME Base, NEW h \in Hilos, PasoHilo(h), NEW c \in Conexiones,
         Adentro(h, c)', ~Adentro(h, c)
  PROVE  Mutex(c) \notin tomado /\ Mutex(c) \in tomado'
  <1>1. Camina(h) /\ h \in Todos /\ HilosOK /\ Partes /\ RutasOK
    BY PasoCamina DEF Base, RutasOK, RutaOK, Partes, Todos
  <1>2. Destino(hilo'[h]) \in Seccion /\ hilo'[h].prog = c
    BY DEF Adentro
  <1>3. ~(Destino(Reposo) \in Seccion)
    BY DEF Destino, Reposo, Seccion
  <1>4. hilo'[h].pc \in Pedidos \cup {"colgado"} => Destino(hilo'[h]) = hilo'[h].pc
    BY DEF Destino, Pedidos
  <1>5. hilo'[h] # Reposo /\ hilo'[h].pc \notin Pedidos \cup {"colgado"}
    BY <1>2, <1>3, <1>4 DEF Pedidos, Seccion
  <1>6. /\ Tramo(Destino(hilo[h]), Destino(hilo'[h]))
        /\ Destino(hilo'[h]) = Destino(hilo[h]) \/ hilo[h].pc = Destino(hilo[h])
        /\ hilo[h].prog = c
    <2>1. "signal" \in Pedidos
      BY DEF Pedidos
    <2>2. QED
      BY <1>1, <1>2, <1>5, <2>1 DEF Camina
  <1>7. Destino(hilo[h]) \notin Seccion
    BY <1>6 DEF Adentro
  <1>8. hilo[h].pc \in {"crear", "planMutex", "planVuelve", "joinMutex", "cerrar", "wait"}
    BY <1>2, <1>6, <1>7 DEF Tramo, Seccion
  <1>9. \E l, p : TomaMutex(h, l, p)
    BY <1>8, Despacho
  <1>10. QED
    BY <1>6, <1>9 DEF TomaMutex, Toma

\* ExclusionMutua is not inductive: a thread that releases a degree on its way to
\* a place inside the section counts as being there.
Exclusion ==
    \A c \in Conexiones : SinCierres(c) =>
        \A h \in Hilos : Adentro(h, c) =>
            Mutex(c) \in tomado /\ \A g \in Hilos : Adentro(g, c) => g = h

\* Only the thread that holds the mutex gives it back, until the first close.
LEMMA ExclusionPaso ==
  ASSUME SinBajas, Atentos, CadaUnoSuFd, Cuentas, Exclusion, [Next]_vars
  PROVE  Exclusion'
  <1>1. Base /\ Quedan /\ UnPlan /\ Partes /\ RutasOK
    BY DEF Atentos, Base
  <1>2. SUFFICES ASSUME NEW c \in Conexiones, SinCierres(c), NEW g \in Hilos, Adentro(g, c)'
                 PROVE  /\ Mutex(c) \in tomado'
                        /\ \A f \in Hilos : Adentro(f, c)' => f = g
    BY CuentasPaso DEF Exclusion, Mutex
  <1>3. ASSUME NEW h \in Hilos, PasoHilo(h)
        PROVE  /\ Mutex(c) \in tomado'
               /\ \A f \in Hilos : Adentro(f, c)' => f = g
    <2>1. \A f \in Hilos : f # h => (Adentro(f, c)' <=> Adentro(f, c))
      BY <1>1, <1>3, MismoPrograma DEF Adentro
    <2>2. hilo[h].prog = c => hilo[h].op # "cerrar"
      BY <1>1, <1>2, <1>3, MismoPrograma DEF Cuentas
    <2>3. Mutex(c) \in tomado /\ Mutex(c) \notin tomado' => Adentro(h, c) /\ ~Adentro(h, c)'
      BY <1>1, <1>3, <2>2, MutexSale
    <2>4. Adentro(h, c)' /\ ~Adentro(h, c) => Mutex(c) \notin tomado /\ Mutex(c) \in tomado'
      BY <1>1, <1>3, SeccionEntra
    <2>5. \A f \in Hilos : Adentro(f, c) =>
             Mutex(c) \in tomado /\ \A e \in Hilos : Adentro(e, c) => e = f
      BY <1>2 DEF Exclusion
    <2>6. QED
      BY <1>2, <2>1, <2>3, <2>4, <2>5
  <1>4. ASSUME NEW d \in Conexiones, PasoCliente(d)
        PROVE  /\ Mutex(c) \in tomado'
               /\ \A f \in Hilos : Adentro(f, c)' => f = g
    <2>1. PICK h \in Hilos : Empieza(h, d)
      BY <1>1, <1>4, ClientePide
    <2>2. UNCHANGED tomado
      BY <1>1, <1>4, ClientePide
    <2>3. \A f \in Hilos : Destino(hilo'[f]) \in Seccion => hilo'[f] = hilo[f]
      BY <2>1 DEF Empieza, Otros, Todos, Destino, Seccion
    <2>4. \A f \in Hilos : Adentro(f, c)' => Adentro(f, c)
      BY <2>3 DEF Adentro
    <2>5. QED
      BY <1>2, <2>2, <2>4 DEF Exclusion
  <1>5. CASE PasoAjeno
    <2>1. (\A h \in Hilos : hilo'[h] = hilo[h]) /\ tomado \subseteq tomado'
      BY <1>1, <1>5, AjenosSinBajas
    <2>2. \A f \in Hilos : Adentro(f, c)' => Adentro(f, c)
      BY <2>1 DEF Adentro
    <2>3. QED
      BY <1>2, <2>1, <2>2 DEF Exclusion
  <1>6. QED
    BY <1>3, <1>4, <1>5 DEF Next, PasoAjeno

\* With nobody connected, nobody is inside a section and nobody closes.
LEMMA EmpiezaSinCierres ==
  ASSUME Init
  PROVE  Cuentas /\ Exclusion
  <1>1. \A h \in Hilos : hilo[h] = Reposo
    BY SuseConstantes DEF Init, Todos
  <1>2. \A h \in Hilos : hilo[h].pc = "libre" /\ Destino(hilo[h]) = "libre"
    BY <1>1 DEF Reposo, Destino
  <1>3. \A c \in Conexiones : cliente[c].creados = 0 /\ cliente[c].vivos = {}
    BY DEF Init, ClienteInicial
  <1>4. QED
    BY <1>2, <1>3 DEF Cuentas, Exclusion, Adentro, Seccion

\* While nobody disconnects and no descriptor is mistaken, and until a program closes a
\* ult, one of its handlers at most is inside its mutex, and then the mutex is locked.
THEOREM UnoDentro ==
  ASSUME SinBajas
  PROVE  Spec => []ExclusionMutua
  <1>1. Init => Cuentas /\ Exclusion
    BY EmpiezaSinCierres
  <1>2. Atentos /\ (CadaUnoSuFd => Cuentas /\ Exclusion) /\ [Next]_vars
           => (CadaUnoSuFd => Cuentas /\ Exclusion)'
    BY CuentasPaso, ExclusionPaso, CadaUnoAntes DEF Atentos
  <1>3. Atentos /\ (CadaUnoSuFd => Cuentas /\ Exclusion) => ExclusionMutua
    <2>1. SUFFICES ASSUME RutasOK, Exclusion, NEW c \in Conexiones, SinCierres(c)
                   PROVE  /\ Cardinality(EnSeccion(c)) <= 1
                          /\ EnSeccion(c) # {} => Mutex(c) \in tomado
      BY DEF ExclusionMutua, Atentos, Base
    <2>2. EnSeccion(c) \subseteq Hilos /\ \A h \in EnSeccion(c) : Adentro(h, c)
      BY <2>1 DEF EnSeccion, Adentro, Destino, Seccion
    <2>3. CASE EnSeccion(c) = {}
      BY <2>3, FS_EmptySet
    <2>4. CASE EnSeccion(c) # {}
      <3>1. PICK h \in EnSeccion(c) : TRUE
        BY <2>4
      <3>2. Mutex(c) \in tomado /\ \A g \in EnSeccion(c) : g = h
        BY <2>1, <2>2, <3>1 DEF Exclusion
      <3>3. EnSeccion(c) = {h}
        BY <3>1, <3>2
      <3>4. QED
        BY <3>2, <3>3, FS_Singleton
    <2>5. QED
      BY <2>3, <2>4
  <1>4. QED
    BY <1>1, <1>2, <1>3, AtentosSiempre, PTL DEF Spec

-----------------------------------------------------------------------------
\* A degree is in use by a ult that runs, by a planificar that took one to choose a ult,
\* or until the release of the degree of a ult that no longer runs.  A planificar that
\* puts the old ult back has its own degree besides the one to release.
ConGrado  == {"planEntra", "planHilos", "planU1", "planJoin", "planMutex", "planDesaloja",
              "planEscanea", "planBloquea", "planVuelve", "planElige"}
Propio(r) == \/ r.pc \in ConGrado
             \/ r.pc = "suelta" /\ r.sigue \in {"planEscanea", "planDuerme"}
Ajeno(r)  == \/ r.pc = "suelta" /\ r.sigue # "planDuerme"
             \/ r.pc = "cerrar3" /\ r.visto = 1

\* The ult that h is putting to sleep, whose degree is h's to give back or is back
\* already, and the ults that run on a degree of their own.
PorDormir(r) == Destino(r) \in {"joinEscribe", "waitEscribe"}
Parado(r)    == <<r.prog, IF Destino(r) = "joinEscribe" THEN 0 ELSE r.tid>>
Apagado(x)   == \E h \in Hilos : PorDormir(hilo[h]) /\ x = Parado(hilo[h])

Corren  == {x \in Conexiones \X Tids : estado[x[1]][x[2]] = "Ejecutando" /\ ~Apagado(x)}
Propios == {h \in Hilos : Propio(hilo[h])}
Ajenos  == {h \in Hilos : Ajeno(hilo[h])}

\* Descriptors are not mistaken, and no client has closed a ult.
Limpio == CadaUnoSuFd /\ \A c \in Conexiones : SinCierres(c)

\* MultiNoSubestima is not inductive: the degrees that are taken, or not yet given
\* back, while no ult runs count as well.
Degrados ==
    /\ IsFiniteSet(Corren)
    /\ multi >= Cardinality(Corren) + Cardinality(Propios) + Cardinality(Ajenos)

\* A thread that takes no degree, and goes on to release none that it did not have.
Neutro(h) ==
    /\ multi' = multi
    /\ Propio(hilo'[h]) => Propio(hilo[h])
    /\ Ajeno(hilo'[h]) => Ajeno(hilo[h])

\* The steps between the taking and the release of a degree.
LEMMA NeutroPaso ==
  ASSUME Base, NEW h \in Hilos, PasoHilo(h),
         hilo[h].pc \notin {"suelta", "planGrado", "planDesaloja", "wait2", "joinBloquea",
                            "cerrar2"}
  PROVE  Neutro(h) /\ (PlanElige(h) => ~Propio(hilo'[h]))
  <1>1. Camina(h) /\ h \in Todos /\ HilosOK /\ Partes /\ GradoOK /\ hilo[h] \in TipoHilo
    BY PasoCamina DEF Base, RutasOK, RutaOK, Partes, Todos, HilosOK
  <1> DEFINE Nada == ~Propio(hilo'[h]) /\ ~Ajeno(hilo'[h])
  <1>2. Termina(h) => Nada
    BY <1>1, CamposTermina DEF Propio, Ajeno, ConGrado
  <1>3. \A p : Va(h, p) /\ p \notin ConGrado \cup {"suelta", "cerrar3"} => Nada
    BY <1>1, CamposVa DEF Propio, Ajeno
  <1>4. \A p : Va(h, p) /\ p \in ConGrado /\ hilo[h].pc \in ConGrado
                  => Propio(hilo[h]) /\ ~Ajeno(hilo'[h])
    BY <1>1, CamposVa DEF Propio, Ajeno, ConGrado
  <1>5. \A p \in {"planEntra", "planVuelve"} : PideGrado(h, p) => Nada
    <2>1. ASSUME NEW p \in {"planEntra", "planVuelve"}, PideGrado(h, p)
          PROVE  Salta(h, "planMulti", p) \/ Salta(h, "planGrado", p)
      BY <1>1, <2>1, PideSalta DEF Vueltas
    <2>2. QED
      BY <2>1 DEF Salta, Propio, Ajeno, ConGrado
  <1> HIDE DEF Nada
  <1>6. Nada /\ multi' = multi => Neutro(h) /\ ~Propio(hilo'[h])
    BY DEF Nada, Neutro
  <1>7. CASE Atender(h)
    <2>1. hilo'[h] = Reposo \/ hilo'[h].pc \in Pedidos \cup {"colgado"}
      <3>1. "signal" \in Pedidos /\ hilo[h].pc = "atender"
        BY <1>7 DEF Pedidos, Atender, En
      <3>2. QED
        BY <1>1, <3>1 DEF Camina
    <2>2. Nada
      BY <2>1 DEF Nada, Propio, Ajeno, Pedidos, Reposo, ConGrado
    <2>3. QED
      BY <1>6, <1>7, <2>2 DEF Atender, PlanElige, En
  <1>8. CASE \/ Crear(h) \/ CrearFin(h) \/ PlanFin(h) \/ EsperarFin(h) \/ Senalar(h)
             \/ JoinMarca(h) \/ JoinPide(h) \/ JoinToma(h) \/ PlanDuerme(h)
             \/ JoinEscribe(h) \/ EsperaEscribe(h)
    <2>1. multi' = multi
      BY <1>8 DEF Crear, CrearFin, PlanFin, EsperarFin, Senalar, JoinMarca, JoinPide,
         JoinToma, PlanDuerme, JoinEscribe, EsperaEscribe, Adormece
    <2>2. CASE Termina(h)
      BY <1>2, <1>6, <2>1, <2>2
    <2>3. CASE \E p \in {"colgado", "joinMutex", "joinJoin", "joinUlt0", "joinU0",
                         "planEspera", "crear3", "joinMarca", "waitFin"} : Va(h, p)
      BY <1>3, <1>6, <2>1, <2>3 DEF ConGrado
    <2>4. QED
      BY <1>8, <2>2, <2>3 DEF Crear, CrearFin, PlanFin, EsperarFin, Senalar, JoinMarca,
         JoinPide, JoinToma, PlanDuerme, JoinEscribe, EsperaEscribe, Adormece
  <1>9. CASE PlanPide(h) \/ PlanEspera(h)
    BY <1>5, <1>6, <1>9 DEF PlanPide, PlanEspera
  <1>10. CASE PlanMulti(h)
    <2>1. /\ multi' = multi
          /\ hilo'[h] = [hilo[h] EXCEPT !.pc = "planGrado", !.visto = grado]
      BY <1>1, <1>10 DEF PlanMulti, Pone, HilosOK
    <2>2. hilo'[h].pc = "planGrado"
      BY <1>1, <2>1 DEF TipoHilo
    <2>3. Nada
      BY <2>2 DEF Nada, Propio, Ajeno, ConGrado
    <2>4. QED
      BY <1>6, <2>1, <2>3
  <1>11. CASE PlanEntra(h) \/ PlanHilos(h) \/ PlanU1(h) \/ PlanJoin(h)
    <2>1. /\ multi' = multi /\ hilo[h].pc \in ConGrado /\ ~PlanElige(h)
          /\ \E p \in ConGrado : Va(h, p)
      BY <1>11 DEF PlanEntra, PlanHilos, PlanU1, PlanJoin, PlanElige, En, ConGrado
    <2>2. QED
      BY <1>4, <2>1 DEF Neutro
  <1>12. ASSUME NEW l, NEW p, TomaMutex(h, l, p),
                <<l, p>> \in {<<"crear", "crear2">>, <<"planMutex", "planDesaloja">>,
                              <<"planVuelve", "planEscanea">>, <<"joinMutex", "joinBloquea">>,
                              <<"cerrar", "cerrar2">>, <<"wait", "wait2">>}
         PROVE  Neutro(h) /\ ~PlanElige(h)
    <2>1. multi' = multi /\ hilo[h].pc = l /\ Va(h, p) /\ ~PlanElige(h)
      BY <1>12 DEF TomaMutex, En, PlanElige
    <2>2. CASE l \in {"planMutex", "planVuelve"}
      BY <1>4, <1>12, <2>1, <2>2 DEF Neutro, ConGrado
    <2>3. CASE l \notin {"planMutex", "planVuelve"}
      BY <1>3, <1>6, <1>12, <2>1, <2>3 DEF ConGrado
    <2>4. QED
      BY <2>2, <2>3
  <1>13. CASE PlanEscanea(h)
    <2>1. multi' = multi /\ hilo[h].pc = "planEscanea" /\ ~PlanElige(h)
      BY <1>13 DEF PlanEscanea, PlanElige, En
    <2>2. CASE Va(h, "planBloquea") \/ Cae(h)
      BY <1>3, <1>4, <1>6, <2>1, <2>2 DEF Cae, Neutro, ConGrado
    <2>3. CASE \E t : Pone(h, [hilo[h] EXCEPT !.pc = "planElige", !.tid = t])
      <3>1. PICK t : hilo'[h] = [hilo[h] EXCEPT !.pc = "planElige", !.tid = t]
        BY <1>1, <2>3 DEF Pone, HilosOK
      <3>2. hilo'[h].pc = "planElige"
        BY <1>1, <3>1 DEF TipoHilo
      <3>3. QED
        BY <2>1, <3>2 DEF Neutro, Propio, Ajeno, ConGrado
    <2>4. QED
      BY <1>13, <2>2, <2>3 DEF PlanEscanea
  <1>14. CASE PlanElige(h)
    <2>1. multi' = multi
      BY <1>14 DEF PlanElige
    <2>2. CASE Va(h, "colgado")
      BY <1>3, <1>6, <2>1, <2>2 DEF ConGrado
    <2>3. CASE \E t : Pone(h, [hilo[h] EXCEPT !.pc = "planFin", !.tid = t])
      <3>1. PICK t : hilo'[h] = [hilo[h] EXCEPT !.pc = "planFin", !.tid = t]
        BY <1>1, <2>3 DEF Pone, HilosOK
      <3>2. hilo'[h].pc = "planFin"
        BY <1>1, <3>1 DEF TipoHilo
      <3>3. QED
        BY <2>1, <3>2 DEF Neutro, Propio, Ajeno, ConGrado
    <2>4. QED
      BY <1>14, <2>2, <2>3 DEF PlanElige, Cae
  <1>15. ASSUME NEW p \in {"planDuerme", "libre"}, VaASoltar(h, p)
         PROVE  Salta(h, "suelta", p)
    BY <1>1, <1>15, SueltaSalta DEF Vueltas
  <1>16. CASE PlanBloquea(h)
    BY <1>15, <1>16 DEF PlanBloquea, En, PlanElige, Salta, Neutro, Propio, Ajeno, ConGrado
  <1>17. CASE CerrarFin(h)
    <2>1. multi' = multi /\ hilo[h].pc = "cerrar3" /\ ~PlanElige(h)
      BY <1>17 DEF CerrarFin, PlanElige, En
    <2>2. CASE Termina(h)
      BY <1>2, <1>6, <2>1, <2>2
    <2>3. CASE hilo[h].visto = 1 /\ VaASoltar(h, "libre")
      BY <1>15, <2>1, <2>3 DEF Salta, Neutro, Propio, Ajeno, ConGrado
    <2>4. QED
      BY <1>17, <2>2, <2>3 DEF CerrarFin
  <1>18. ~SoltarGrado(h) /\ ~PlanGrado(h) /\ ~PlanDesaloja(h) /\ ~Esperar(h)
         /\ ~JoinBloquea(h) /\ ~Cerrar(h)
    BY DEF SoltarGrado, PlanGrado, PlanDesaloja, Esperar, JoinBloquea, Cerrar, En
  <1>19. QED
    BY <1>7, <1>8, <1>9, <1>10, <1>11, <1>12, <1>13, <1>14, <1>16, <1>17, <1>18
       DEF PasoHilo

\* A handler inside the mutex of a program is the only one there that could be putting
\* a ult of it to sleep.
LEMMA SoloUnoDuerme ==
  ASSUME Exclusion, NEW h \in Hilos, NEW c \in Conexiones, SinCierres(c), Adentro(h, c),
         ~PorDormir(hilo[h])
  PROVE  \A t : ~Apagado(<<c, t>>)
  <1>1. SUFFICES ASSUME NEW t, NEW g \in Hilos, PorDormir(hilo[g]), <<c, t>> = Parado(hilo[g])
                 PROVE  FALSE
    BY DEF Apagado
  <1>2. hilo[g].prog = c
    BY <1>1 DEF Parado
  <1>3. Adentro(g, c)
    BY <1>1, <1>2 DEF PorDormir, Adentro, Seccion
  <1>4. g = h
    BY <1>3 DEF Exclusion
  <1>5. QED
    BY <1>1, <1>4

\* A handler that stops a ult that runs sets out to release the degree of that ult,
\* and no other handler does.
LEMMA AjenoNace ==
  ASSUME Base, Exclusion, Limpio, NEW h \in Hilos, PasoHilo(h),
         hilo[h].pc \in {"planDesaloja", "wait2", "joinBloquea"}
  PROVE  /\ ~PlanElige(h) /\ multi' = multi /\ ~Ajeno(hilo[h])
         /\ Propio(hilo'[h]) => Propio(hilo[h])
         /\ Ajeno(hilo'[h]) => \E x \in Corren : x \notin Corren'
  <1>1. /\ h \in Todos /\ HilosOK /\ Partes /\ GradoOK /\ UltsOK /\ hilo[h] \in TipoHilo
    BY DEF Base, Partes, Todos, HilosOK
  <1>2. ~PlanElige(h) /\ ~Ajeno(hilo[h])
    BY DEF PlanElige, En, Ajeno
  <1>3. PICK c \in Conexiones : c = hilo[h].prog
    BY DEF Base, RutasOK, RutaOK
  <1>4. \A t \in Corriendo(c) : <<c, t>> \in Corren
    <2>1. Adentro(h, c) /\ ~PorDormir(hilo[h])
      BY <1>3 DEF Adentro, PorDormir, Destino, Seccion
    <2>2. \A t : ~Apagado(<<c, t>>)
      BY <2>1, SoloUnoDuerme DEF Limpio
    <2>3. QED
      BY <2>2 DEF Corren, Corriendo
  <1>5. ASSUME NEW p, Va(h, p), p \in {"planEscanea", "waitFin", "joinMarca", "colgado"}
        PROVE  ~Ajeno(hilo'[h]) /\ (Propio(hilo'[h]) => p = "planEscanea")
    BY <1>1, <1>5, CamposVa DEF Propio, Ajeno, ConGrado
  <1>6. ASSUME NEW p, VaASoltar(h, p), p \in {"waitEscribe", "joinEscribe"}
        PROVE  /\ ~Propio(hilo'[h]) /\ PorDormir(hilo'[h]) /\ hilo'[h].prog = hilo[h].prog
               /\ hilo'[h].tid = hilo[h].tid /\ hilo'[h].pc = "suelta" /\ hilo'[h].sigue = p
    <2>1. Salta(h, "suelta", p)
      BY <1>1, <1>6, SueltaSalta DEF Vueltas
    <2>2. hilo'[h].tid = hilo[h].tid
      <3>1. hilo'[h] = [hilo[h] EXCEPT !.pc = "suelta", !.visto = grado, !.sigue = p]
        BY <1>1, <1>6 DEF VaASoltar, Pone, HilosOK
      <3>2. QED
        BY <1>1, <3>1 DEF TipoHilo
    <2>3. QED
      BY <1>6, <2>1, <2>2 DEF Salta, Propio, ConGrado, PorDormir, Destino
  <1>7. ASSUME NEW t \in Corriendo(c), estado'[c][t] # "Ejecutando" \/ Apagado(<<c, t>>)'
        PROVE  \E x \in Corren : x \notin Corren'
    <2>1. <<c, t>> \in Corren /\ <<c, t>> \notin Corren'
      BY <1>4, <1>7 DEF Corren
    <2>2. QED
      BY <2>1
  <1>8. CASE PlanDesaloja(h)
    <2>1. multi' = multi /\ hilo[h].pc = "planDesaloja" /\ Propio(hilo[h])
      BY <1>8 DEF PlanDesaloja, En, Propio, ConGrado
    <2>2. CASE Va(h, "planEscanea")
      BY <1>2, <1>5, <2>1, <2>2
    <2>3. CASE ~Va(h, "planEscanea")
      <3>1. PICK t \in Corriendo(c) : estado' = [estado EXCEPT ![c][t] = "Listo"]
        BY <1>3, <1>8, <2>3 DEF PlanDesaloja
      <3>2. estado'[c][t] = "Listo"
        BY <1>1, <3>1 DEF UltsOK, Corriendo
      <3>3. QED
        BY <1>2, <1>7, <2>1, <3>2
    <2>4. QED
      BY <2>2, <2>3
  <1>9. CASE Esperar(h)
    <2>1. multi' = multi
      BY <1>9 DEF Esperar
    <2>2. CASE Va(h, "waitFin") \/ Cae(h)
      BY <1>2, <1>5, <2>1, <2>2 DEF Cae
    <2>3. CASE ~(Va(h, "waitFin") \/ Cae(h))
      <3>1. PICK t : t = hilo[h].tid
        OBVIOUS
      <3>2. t \in Corriendo(c) /\ VaASoltar(h, "waitEscribe")
        BY <1>3, <1>9, <2>3, <3>1 DEF Esperar, TieneGrado
      <3>3. Apagado(<<c, t>>)'
        BY <1>3, <1>6, <3>1, <3>2 DEF Apagado, Parado, Destino
      <3>4. QED
        BY <1>2, <1>6, <1>7, <2>1, <3>2, <3>3
    <2>4. QED
      BY <2>2, <2>3
  <1>10. CASE JoinBloquea(h)
    <2>1. multi' = multi
      BY <1>10 DEF JoinBloquea
    <2>2. CASE Va(h, "joinMarca")
      BY <1>2, <1>5, <2>1, <2>2
    <2>3. CASE ~Va(h, "joinMarca")
      <3>1. 0 \in Corriendo(c) /\ VaASoltar(h, "joinEscribe")
        BY <1>3, <1>10, <2>3 DEF JoinBloquea, TieneGrado
      <3>2. Apagado(<<c, 0>>)'
        BY <1>3, <1>6, <3>1 DEF Apagado, Parado, Destino
      <3>3. QED
        BY <1>2, <1>6, <1>7, <2>1, <3>1, <3>2
    <2>4. QED
      BY <2>2, <2>3
  <1>11. PlanDesaloja(h) \/ Esperar(h) \/ JoinBloquea(h)
    <2>1. \A l, p : TomaMutex(h, l, p) => hilo[h].pc = l
      BY DEF TomaMutex, En
    <2>2. QED
      BY <2>1 DEF PasoHilo, En, Atender, SoltarGrado, Crear, CrearFin, PlanPide, PlanMulti,
         PlanGrado, PlanEntra, PlanHilos, PlanU1, PlanJoin, PlanEscanea, PlanBloquea,
         PlanDuerme, PlanEspera, PlanElige, PlanFin, JoinPide, JoinToma, JoinEscribe,
         JoinMarca, Cerrar, CerrarFin, EsperaEscribe, Adormece, EsperarFin, Senalar
  <1>12. QED
    BY <1>8, <1>9, <1>10, <1>11

\* What taking or giving back a degree does to the thread and to multi.
LEMMA GradoPasa ==
  ASSUME Base, NEW h \in Hilos, PasoHilo(h), hilo[h].pc \in {"suelta", "planGrado"}
  PROVE  /\ ~PlanElige(h) /\ ~Ajeno(hilo'[h])
         /\ hilo[h].pc = "planGrado" => multi' = multi + 1 /\ ~Propio(hilo[h]) /\ ~Ajeno(hilo[h])
         /\ hilo[h].pc = "suelta" =>
              /\ multi' = multi - 1
              /\ \/ Ajeno(hilo[h]) /\ (Propio(hilo'[h]) => Propio(hilo[h]))
                 \/ Propio(hilo[h]) /\ ~Propio(hilo'[h])
  <1>1. /\ h \in Todos /\ HilosOK /\ Forma(hilo[h])
    BY DEF Base, RutasOK, RutaOK, Partes, Todos
  <1>2. ~PlanElige(h)
    BY DEF PlanElige, En
  <1>3. ASSUME NEW g \in Vueltas, hilo[h].sigue = g,
               Pone(h, [hilo[h] EXCEPT !.pc = hilo[h].sigue, !.visto = 0, !.sigue = "libre"])
        PROVE  hilo'[h].pc = g
    <2>1. g \in Lugares \cup Vueltas /\ 0 \in Int /\ "libre" \in Vueltas
      BY DEF Vueltas
    <2>2. Pone(h, [hilo[h] EXCEPT !.pc = g, !.visto = 0, !.sigue = "libre"])
      BY <1>3
    <2>3. Salta(h, g, "libre")
      BY <1>1, <2>1, <2>2, CamposSalta
    <2>4. QED
      BY <2>3 DEF Salta
  <1>4. CASE hilo[h].pc = "planGrado"
    <2>1. PlanGrado(h) /\ hilo[h].sigue \in {"planEntra", "planVuelve"}
      BY <1>1, <1>4, Despacho DEF Forma
    <2>2. hilo'[h].pc \in {"planEntra", "planVuelve"}
      BY <1>3, <2>1 DEF PlanGrado, Vueltas
    <2>3. multi' = multi + 1
      BY <2>1 DEF PlanGrado
    <2>4. QED
      BY <1>2, <1>4, <2>2, <2>3 DEF Propio, Ajeno, ConGrado
  <1>5. CASE hilo[h].pc = "suelta"
    <2>1. /\ SoltarGrado(h)
          /\ hilo[h].sigue \in {"planEscanea", "planDuerme", "joinEscribe", "waitEscribe",
                              "libre"}
      BY <1>1, <1>5, Despacho DEF Forma
    <2>2. hilo'[h].pc = hilo[h].sigue
      <3>1. CASE hilo[h].sigue = "libre"
        BY <1>1, <2>1, <3>1, CamposTermina DEF SoltarGrado
      <3>2. CASE hilo[h].sigue # "libre"
        BY <1>3, <2>1, <3>2 DEF SoltarGrado, Vueltas
      <3>3. QED
        BY <3>1, <3>2
    <2>3. multi' = multi - 1
      BY <2>1 DEF SoltarGrado
    <2>4. QED
      BY <1>2, <1>5, <2>1, <2>2, <2>3 DEF Propio, Ajeno, ConGrado
  <1>6. QED
    BY <1>4, <1>5

\* The degrees that a step of h takes, at x and in its thread, are counted by multi.
Saldo(h, x) ==
    /\ \A y \in Corren' : y = x \/ y \in Corren
    /\ Vale(x, Corren') + Vale(h, Propios') + Vale(h, Ajenos')
          <= Vale(x, Corren) + Vale(h, Propios) + Vale(h, Ajenos) + multi' - multi

\* Only the choice of planificar makes a ult run on a degree of its own: a thread that
\* is putting one to sleep ends by writing Bloqueado.
LEMMA CorrenBaja ==
  ASSUME Base, NEW h \in Hilos, PasoHilo(h), ~PlanElige(h)
  PROVE  \A y \in Corren' : y \in Corren
  <1>1. /\ h \in Todos /\ HilosOK /\ Partes /\ UltsOK /\ hilo[h] \in TipoHilo
        /\ Forma(hilo[h]) /\ Camina(h)
    BY PasoCamina DEF Base, RutasOK, RutaOK, Partes, Todos, HilosOK
  <1>2. \A g \in Hilos : g # h => hilo'[g] = hilo[g]
    BY <1>1 DEF Camina, Otros, Todos
  <1>3. SUFFICES ASSUME NEW y \in Corren' PROVE y \in Corren
    OBVIOUS
  <1>4. /\ y \in Conexiones \X Tids /\ estado'[y[1]][y[2]] = "Ejecutando"
        /\ ~(\E g \in Hilos : PorDormir(hilo'[g]) /\ y = Parado(hilo'[g]))
    BY DEF Corren, Apagado
  <1>5. estado[y[1]][y[2]] = "Ejecutando"
    BY <1>1, <1>4, SoloEligeCorre
  <1>6. ~Apagado(y)
    <2>1. SUFFICES ASSUME NEW g \in Hilos, PorDormir(hilo[g]), y = Parado(hilo[g])
                   PROVE  FALSE
      BY DEF Apagado
    <2>2. g = h
      BY <1>2, <1>4, <2>1
    <2>3. \/ hilo[h].pc = "suelta" /\ hilo[h].sigue \in {"joinEscribe", "waitEscribe"}
          \/ hilo[h].pc \in {"joinEscribe", "waitEscribe"}
      BY <1>1, <2>1, <2>2 DEF PorDormir, Destino, Forma
    <2>4. CASE hilo[h].pc = "suelta" /\ hilo[h].sigue \in {"joinEscribe", "waitEscribe"}
      <3>1. Pone(h, [hilo[h] EXCEPT !.pc = hilo[h].sigue, !.visto = 0, !.sigue = "libre"])
        BY <2>4, Despacho DEF SoltarGrado
      <3>2. hilo'[h] = [hilo[h] EXCEPT !.pc = hilo[h].sigue, !.visto = 0, !.sigue = "libre"]
        BY <1>1, <3>1 DEF Pone, HilosOK
      <3>3. /\ hilo'[h].pc = hilo[h].sigue /\ hilo'[h].prog = hilo[h].prog
            /\ hilo'[h].tid = hilo[h].tid /\ hilo'[h].sigue = "libre"
        BY <1>1, <3>2 DEF TipoHilo
      <3>4. PorDormir(hilo'[h]) /\ Parado(hilo'[h]) = Parado(hilo[h])
        BY <2>4, <3>3 DEF PorDormir, Destino, Parado
      <3>5. QED
        BY <1>4, <2>1, <2>2, <3>4
    <2>5. ASSUME NEW l, NEW t, NEW p, Adormece(h, l, t, p), y = <<hilo[h].prog, t>>
          PROVE  FALSE
      <3>1. PICK c : c = hilo[h].prog
        OBVIOUS
      <3>2. \/ estado' = [estado EXCEPT ![c][t] = "Bloqueado"]
            \/ estado' = estado /\ t \notin Ults(c)
        BY <2>5, <3>1 DEF Adormece
      <3>3. c \in Conexiones /\ t \in Tids /\ estado'[c][t] = "Ejecutando" /\ t \in Ults(c)
        BY <1>4, <1>5, <2>5, <3>1 DEF Ults
      <3>4. QED
        BY <1>1, <3>2, <3>3 DEF UltsOK
    <2>6. CASE hilo[h].pc = "joinEscribe"
      <3>1. Adormece(h, "joinEscribe", 0, "joinMarca")
        BY <2>6, Despacho DEF JoinEscribe
      <3>2. y = <<hilo[h].prog, 0>>
        BY <2>1, <2>2, <2>6 DEF Parado, Destino
      <3>3. QED
        BY <2>5, <3>1, <3>2
    <2>7. CASE hilo[h].pc = "waitEscribe"
      <3>1. Adormece(h, "waitEscribe", hilo[h].tid, "waitFin")
        BY <2>7, Despacho DEF EsperaEscribe
      <3>2. y = <<hilo[h].prog, hilo[h].tid>>
        BY <2>1, <2>2, <2>7 DEF Parado, Destino
      <3>3. QED
        BY <2>5, <3>1, <3>2
    <2>8. QED
      BY <2>3, <2>4, <2>6, <2>7
  <1>7. QED
    BY <1>4, <1>5, <1>6 DEF Corren

\* No step of a handler leaves a degree in use uncounted.
LEMMA SaldoPaso ==
  ASSUME Base, Cuentas, Exclusion, Limpio, NEW h \in Hilos, PasoHilo(h)
  PROVE  \E x : Saldo(h, x)
  <1>1. Partes /\ GradoOK /\ UltsOK /\ multi \in Int
    BY DEF Base, Partes, GradoOK
  <1>2. /\ Vale(h, Propios) = IF Propio(hilo[h]) THEN 1 ELSE 0
        /\ Vale(h, Ajenos) = IF Ajeno(hilo[h]) THEN 1 ELSE 0
        /\ Vale(h, Propios') = IF Propio(hilo'[h]) THEN 1 ELSE 0
        /\ Vale(h, Ajenos') = IF Ajeno(hilo'[h]) THEN 1 ELSE 0
    BY DEF Vale, Propios, Ajenos, Propio, Ajeno
  <1>3. \A x, S : Vale(x, S) \in {0, 1}
    BY DEF Vale
  <1>4. CASE ~PlanElige(h)
    <2>1. \A y \in Corren' : y \in Corren
      BY <1>4, CorrenBaja
    <2>2. \A x : Vale(x, Corren') <= Vale(x, Corren)
      BY <2>1 DEF Vale
    <2>3. CASE hilo[h].pc \in {"suelta", "planGrado"}
      BY <1>1, <1>2, <1>3, <2>1, <2>2, <2>3, GradoPasa DEF Saldo
    <2>4. CASE hilo[h].pc \in {"planDesaloja", "wait2", "joinBloquea"}
      <3>1. CASE Ajeno(hilo'[h])
        <4>1. PICK x \in Corren : x \notin Corren'
          BY <2>4, <3>1, AjenoNace
        <4>2. Vale(x, Corren') = 0 /\ Vale(x, Corren) = 1
          BY <4>1 DEF Vale
        <4>3. QED
          BY <1>1, <1>2, <2>1, <2>4, <4>2, AjenoNace DEF Saldo
      <3>2. CASE ~Ajeno(hilo'[h])
        BY <1>1, <1>2, <1>3, <2>1, <2>2, <2>4, <3>2, AjenoNace DEF Saldo
      <3>3. QED
        BY <3>1, <3>2
    <2>5. hilo[h].pc # "cerrar2"
      BY DEF Cuentas, Limpio, Base, RutasOK, RutaOK, Destino, Cierres
    <2>6. CASE hilo[h].pc \notin {"suelta", "planGrado", "planDesaloja", "wait2",
                                  "joinBloquea", "cerrar2"}
      BY <1>1, <1>2, <1>3, <2>1, <2>2, <2>6, NeutroPaso DEF Saldo, Neutro
    <2>7. QED
      BY <2>3, <2>4, <2>5, <2>6
  <1>5. CASE PlanElige(h)
    <2>1. hilo[h].pc = "planElige" /\ Propio(hilo[h]) /\ hilo[h].prog \in Conexiones
      BY <1>5 DEF PlanElige, En, Propio, ConGrado, Base, RutasOK, RutaOK
    <2>2. Neutro(h) /\ ~Propio(hilo'[h])
      BY <1>5, <2>1, NeutroPaso
    <2>3. PICK c \in Conexiones : c = hilo[h].prog
      BY <2>1
    <2>4. \A y : Apagado(y) => Apagado(y)'
      <3>1. \A g \in Hilos : g # h => hilo'[g] = hilo[g]
        BY PasoCamina DEF Base, RutasOK, RutaOK, Partes, Camina, Otros, Todos
      <3>2. ~PorDormir(hilo[h])
        BY <2>1 DEF PorDormir, Destino
      <3>3. QED
        BY <3>1, <3>2 DEF Apagado
    <2>5. \/ estado' = estado
          \/ \E t : estado' = [estado EXCEPT ![c][t] = "Ejecutando"]
      BY <1>5, <2>3 DEF PlanElige
    <2>6. \E x : \A y \in Corren' : y = x \/ y \in Corren
      <3>1. CASE estado' = estado
        BY <2>4, <3>1 DEF Corren
      <3>2. ASSUME NEW t, estado' = [estado EXCEPT ![c][t] = "Ejecutando"]
            PROVE  \A y \in Corren' : y = <<c, t>> \/ y \in Corren
        <4>1. \A d \in Conexiones, u \in Tids : <<d, u>> # <<c, t>> => estado'[d][u] = estado[d][u]
          BY <1>1, <3>2 DEF UltsOK
        <4>2. QED
          BY <2>4, <4>1 DEF Corren
      <3>3. QED
        BY <2>5, <3>1, <3>2
    <2>7. PICK x : \A y \in Corren' : y = x \/ y \in Corren
      BY <2>6
    <2>8. QED
      BY <1>1, <1>2, <1>3, <2>1, <2>2, <2>7 DEF Saldo, Neutro
  <1>6. QED
    BY <1>4, <1>5

\* A thread that has nothing to do with degrees.
Quieto(r) == ~Propio(r) /\ ~Ajeno(r) /\ ~PorDormir(r)

\* The balance of all threads and ults.
LEMMA DegradosPaso ==
  ASSUME SinBajas, Atentos, Limpio, Cuentas, Exclusion, Degrados, [Next]_vars
  PROVE  Degrados'
  <1>1. Base /\ Quedan /\ Partes /\ RutasOK /\ multi \in Int
    BY DEF Atentos, Base, Partes, GradoOK
  <1>2. IsFiniteSet(Propios) /\ IsFiniteSet(Ajenos)
    <2>1. Propios \subseteq Ocupados /\ Ajenos \subseteq Ocupados
      BY DEF Propios, Ajenos, Propio, Ajeno, ConGrado, Ocupados
    <2>2. QED
      BY <1>1, <2>1, FS_Subset DEF RutasOK
  <1>3. ASSUME NEW h \in Hilos, PasoHilo(h)
        PROVE  Degrados'
    <2>1. PICK x : Saldo(h, x)
      BY <1>1, <1>3, SaldoPaso
    <2>2. \A g \in Hilos : g # h => hilo'[g] = hilo[g]
      BY <1>1, <1>3, MismoPrograma DEF Limpio
    <2>3. /\ \A g \in Propios' : g = h \/ g \in Propios
          /\ \A g \in Ajenos' : g = h \/ g \in Ajenos
      BY <2>2 DEF Propios, Ajenos
    <2>4. /\ IsFiniteSet(Corren') /\ Cardinality(Corren') \in Nat /\ Cardinality(Corren) \in Nat
          /\ Cardinality(Corren') <= Cardinality(Corren) + Vale(x, Corren') - Vale(x, Corren)
      BY <2>1, UnoMas DEF Saldo, Degrados
    <2>5. /\ Cardinality(Propios') \in Nat /\ Cardinality(Propios) \in Nat
          /\ Cardinality(Propios') <= Cardinality(Propios) + Vale(h, Propios') - Vale(h, Propios)
      BY <1>2, <2>3, UnoMas
    <2>6. /\ Cardinality(Ajenos') \in Nat /\ Cardinality(Ajenos) \in Nat
          /\ Cardinality(Ajenos') <= Cardinality(Ajenos) + Vale(h, Ajenos') - Vale(h, Ajenos)
      BY <1>2, <2>3, UnoMas
    <2>7. \A y, S : Vale(y, S) \in {0, 1}
      BY DEF Vale
    <2>8. multi' \in Int
      BY <1>1, NextPartes DEF Partes, GradoOK
    <2>9. multi' >= Cardinality(Corren') + Cardinality(Propios') + Cardinality(Ajenos')
      BY <1>1, <2>1, <2>4, <2>5, <2>6, <2>7, <2>8 DEF Saldo, Degrados
    <2>10. QED
      BY <2>4, <2>9 DEF Degrados
  <1>4. ASSUME UNCHANGED <<estado, multi>>,
               \A g \in Hilos : \/ hilo'[g] = hilo[g]
                                \/ Quieto(hilo[g]) /\ Quieto(hilo'[g])
        PROVE  Degrados'
    <2>1. Propios' = Propios /\ Ajenos' = Ajenos
      BY <1>4 DEF Propios, Ajenos, Quieto
    <2>2. \A x : Apagado(x)' <=> Apagado(x)
      BY <1>4 DEF Apagado, Quieto
    <2>3. Corren' = Corren
      BY <1>4, <2>2 DEF Corren
    <2>4. QED
      BY <1>4, <2>1, <2>3 DEF Degrados
  <1>5. ASSUME NEW d \in Conexiones, PasoCliente(d)
        PROVE  Degrados'
    <2>1. PICK h \in Hilos : Empieza(h, d)
      BY <1>1, <1>5, ClientePide
    <2>2. UNCHANGED <<estado, multi>>
      BY <1>1, <1>5, ClientePide DEF ults
    <2>3. /\ Quieto(hilo[h]) /\ Quieto(hilo'[h])
          /\ \A g \in Hilos : g # h => hilo'[g] = hilo[g]
      BY <2>1 DEF Empieza, Otros, Todos, Quieto, Propio, Ajeno, ConGrado, PorDormir, Destino
    <2>4. QED
      BY <1>4, <2>2, <2>3
  <1>6. CASE PasoAjeno
    <2>1. (\A h \in Hilos : hilo'[h] = hilo[h]) /\ UNCHANGED <<estado, multi>>
      BY <1>1, <1>6, AjenosSinBajas
    <2>2. QED
      BY <1>4, <2>1
  <1>7. QED
    BY <1>3, <1>5, <1>6 DEF Next, PasoAjeno

\* The ults that run without a degree of their own are no more than the threads that
\* are to give one back.
LEMMA MultiBasta ==
  ASSUME Atentos, Degrados
  PROVE  multi >= Cardinality({x \in programas \X Tids :
                                  /\ estado[x[1]][x[2]] = "Ejecutando"
                                  /\ x \notin PorAdormecer})
  <1> DEFINE S == {x \in programas \X Tids : /\ estado[x[1]][x[2]] = "Ejecutando"
                                             /\ x \notin PorAdormecer}
             D == {h \in Hilos : hilo[h].pc = "suelta" /\ PorDormir(hilo[h])}
             f == [h \in D |-> Parado(hilo[h])]
             R == {f[h] : h \in D}
  <1>1. Partes /\ RutasOK /\ multi \in Int /\ programas \subseteq Conexiones
    BY DEF Atentos, Base, Partes, GradoOK, ConOK
  <1>2. Propios \subseteq Ocupados /\ Ajenos \subseteq Ocupados /\ D \subseteq Ajenos
    BY DEF Propios, Ajenos, Propio, Ajeno, ConGrado, Ocupados, PorDormir, Destino
  <1>3. f \in Surjection(D, R)
    BY DEF Surjection
  <1>4. S \subseteq Corren \cup R
    <2>1. SUFFICES ASSUME NEW x \in S, NEW h \in Hilos, PorDormir(hilo[h]),
                          x = Parado(hilo[h])
                   PROVE  x \in R
      BY <1>1 DEF Corren, Apagado
    <2>2. hilo[h].pc \notin {"joinEscribe", "waitEscribe"}
      <3>1. SUFFICES ASSUME hilo[h].pc \in {"joinEscribe", "waitEscribe"}
                     PROVE  x \in PorAdormecer
        BY <2>1
      <3>2. x = Detenido(hilo[h])
        BY <2>1, <3>1 DEF Parado, Detenido, Destino
      <3>3. QED
        BY <3>1, <3>2 DEF PorAdormecer
    <2>3. hilo[h].pc = "suelta"
      BY <1>1, <2>1, <2>2 DEF RutasOK, RutaOK, Forma, PorDormir, Destino
    <2>4. h \in D
      BY <2>1, <2>3
    <2>5. f[h] = x
      BY <2>1, <2>4
    <2>6. QED
      BY <2>4, <2>5
  <1> HIDE DEF S, D, R, f
  <1>5. IsFiniteSet(Corren) /\ IsFiniteSet(Propios) /\ IsFiniteSet(Ajenos)
    BY <1>1, <1>2, FS_Subset DEF Degrados, RutasOK
  <1>6. IsFiniteSet(D) /\ Cardinality(D) <= Cardinality(Ajenos)
    BY <1>2, <1>5, FS_Subset
  <1>7. IsFiniteSet(R) /\ Cardinality(R) <= Cardinality(D)
    BY <1>3, <1>6, FS_Surjection
  <1>8. /\ IsFiniteSet(Corren \cup R) /\ IsFiniteSet(Corren \cap R)
        /\ Cardinality(Corren \cup R)
              = Cardinality(Corren) + Cardinality(R) - Cardinality(Corren \cap R)
    BY <1>5, <1>7, FS_Union, FS_Intersection
  <1>9. IsFiniteSet(S) /\ Cardinality(S) <= Cardinality(Corren \cup R)
    BY <1>4, <1>8, FS_Subset
  <1>10. /\ Cardinality(S) \in Nat /\ Cardinality(R) \in Nat /\ Cardinality(D) \in Nat
         /\ Cardinality(Corren) \in Nat /\ Cardinality(Propios) \in Nat
         /\ Cardinality(Ajenos) \in Nat /\ Cardinality(Corren \cap R) \in Nat
         /\ Cardinality(Corren \cup R) \in Nat
    BY <1>5, <1>6, <1>7, <1>8, <1>9, FS_CardinalityType
  <1>11. multi >= Cardinality(S)
    BY <1>1, <1>6, <1>7, <1>8, <1>9, <1>10 DEF Degrados
  <1>12. QED
    BY <1>11 DEF S

\* While nobody disconnects or closes a ult and no descriptor is mistaken, the degree in
\* use that metricas reports is never below the number of ults that run, but for those
\* about to be put to sleep: no two handlers release the degree of one ult.
THEOREM MultiCubre == Spec => []MultiNoSubestima
  <1>1. CASE ~SinBajas
    <2>1. MultiNoSubestima
      BY <1>1 DEF SinBajas, MultiNoSubestima
    <2>2. QED
      BY <2>1, PTL
  <1>2. CASE SinBajas
    <2>1. Init => Degrados
      <3>1. SUFFICES ASSUME Init PROVE Degrados
        OBVIOUS
      <3>2. \A h \in Hilos : hilo[h].pc = "libre"
        <4>1. \A h \in Hilos : hilo[h] = Reposo
          BY <3>1, SuseConstantes DEF Init, Todos
        <4>2. QED
          BY <4>1 DEF Reposo
      <3>3. Corren = {} /\ Propios = {} /\ Ajenos = {}
        BY <3>1, <3>2 DEF Init, Corren, Propios, Ajenos, Propio, Ajeno, ConGrado
      <3>4. multi = 0
        BY <3>1 DEF Init
      <3>5. QED
        BY <3>3, <3>4, FS_EmptySet DEF Degrados
    <2>2. Spec => []Atentos
      BY <1>2, AtentosSiempre
    <2>3. Init => Cuentas /\ Exclusion
      BY EmpiezaSinCierres
    <2>4. Atentos /\ (CadaUnoSuFd => Cuentas /\ Exclusion) /\ [Next]_vars
             => (CadaUnoSuFd => Cuentas /\ Exclusion)'
      BY <1>2, CuentasPaso, ExclusionPaso, CadaUnoAntes DEF Atentos
    <2>5. Atentos /\ (CadaUnoSuFd => Cuentas /\ Exclusion) /\ (Limpio => Degrados) /\ [Next]_vars
             => (Limpio => Degrados)'
      <3>1. SUFFICES ASSUME Atentos, CadaUnoSuFd => Cuentas /\ Exclusion, Limpio => Degrados,
                            [Next]_vars, Limpio'
                     PROVE  Degrados'
        OBVIOUS
      <3>2. CadaUnoSuFd
        BY <3>1, CadaUnoAntes DEF Atentos, Limpio
      <3>3. Limpio
        BY <1>2, <3>1, <3>2, CuentasPaso DEF Limpio
      <3>4. QED
        BY <1>2, <3>1, <3>2, <3>3, DegradosPaso
    <2>6. Atentos /\ (Limpio => Degrados) => MultiNoSubestima
      <3>1. SUFFICES ASSUME Atentos, Limpio => Degrados, Limpio
                     PROVE  multi >= Cardinality({x \in programas \X Tids :
                                                     /\ estado[x[1]][x[2]] = "Ejecutando"
                                                     /\ x \notin PorAdormecer})
        BY DEF MultiNoSubestima, Limpio
      <3>2. QED
        BY <3>1, MultiBasta
    <2>7. QED
      BY <2>1, <2>2, <2>3, <2>4, <2>5, <2>6, PTL DEF Spec
  <1>3. QED
    BY <1>1, <1>2

=============================================================================
