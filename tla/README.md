# Operative-Systems in TLA+

A verification project for the programs of this repository (two groups' course
projects on operating systems, `src/UwUntu` and `src/Pichones MilenariOS`).
TLA+ modules model the programs, TLC checks them on small instances, and TLAPS
proves the properties that matter most for every instance.  Names are those of
the code, so an action is called after the function (or the part of it) it models.

## 1. Inventory

### UwUntu

| part | code | state | operations | what makes it correct |
|---|---|---|---|---|
| SUSE server | `UwUntu/SUSE/Cosas/SUSE.c`, `SUSE.h` | list of programs, each with its list of ults (user-level threads), five mutexes and five flags; degree of multiprogramming `gradodemultiprogramacion` and its mutex `multiprogramacion`; counter `multi`; semaphores with their queues; list of finished ults | `crear`, `planificar`, `joinear`, `cerrar`, `wait`, `signal`, accept, disconnect, `metricas` | one ult of a program runs at most; main waits for its join; semaphores are bounded FIFO semaphores; a sleeping `planificar` and its wake-ups match; handlers end |
| libSUSE | `UwUntu/SUSE/Cosas/libSUSE.c` | number of ults, socket | `suse_create`, `suse_schedule_next`, `suse_join`, `suse_close`, `suse_wait`, `suse_signal` | only `suse_schedule_next` waits for an answer |
| MUSE server | `UwUntu/MUSE/MUSE.c` | 30 slots of client sockets; users, their segments, pages and heap metadata; frame table; swap; maps of files; hand of the clock | `muse_alloc`, `muse_free`, `muse_get`, `muse_copy`, `muse_map`, `muse_sync`, `muse_unmap`, disconnect | no frame has two owners; blocks tile a segment; a page that was swapped comes back with its data; the clock finds a victim; a slot names the client it was given to |
| SAC disk | `UwUntu/SAC/disco.c`, `disco.h` | block bitmap, node table (a tree), indirect blocks | create, write, truncate, read, rename, list, remove | no block has two owners; bitmap and nodes agree; sizes and pointers agree; the tree has no orphans |
| SAC server | `UwUntu/SAC/SAC.c`, `escuchar-pedidos.c` | one thread per connection, a turnstile mutex | accept, one request, its reply, close | every request is answered; the turnstile is released |
| SAC client | `UwUntu/SAC-cli/` | the threads of FUSE, a mutex around the reply | one connection per callback: a request and its reply | a reply is that of its request; calls keep their order; every call returns |

SUSE is a server with a main thread (select loop) that accepts clients, notices
disconnections and starts one detached thread per request.  All the hard
behaviour of SUSE comes from that: requests of one client run concurrently and
in any order, each blocks on mutexes that other requests open, and a client can
leave with requests under way.  MUSE is one thread: its hard parts are the data and a table of client sockets
that is only read by number.  SAC has one thread per connection, but a turnstile
serialises whole requests: its hard parts are the data on disk and the ways in
which a request can end early on either side, with a mutex taken.

### Pichones MilenariOS

| part | code | what it is |
|---|---|---|
| Kernel | `Kernel/Planificador.c`, `EjecuciónDeRequests.c`, `ParseoDeRequests.c`, `Hermafrodita.c`, `Configuracion.c` | a parser of requests, a ready queue with a quantum and the execution of scripts |
| Memory | `Memory/src/Memory.c` | a server that prints what it receives |
| Memtable | `Lissandra/Memtable.c`, `FileSystem_Y_Lissandra/Lissandra/Memtable.c` | lists of tables and of records, by key |
| Compactador, FileSystem, ComunParaTodos, tp0 | | stubs and shared socket helpers |

## 2. Plan

1. `Semaforo`, `Suse`: the concurrent core (done), with its proofs `SuseProofs`
   and `SuseInvariantes` (done: every safety property of its runs).
2. `Memoria`, `Muse`: segments, page tables, frames, swap, clock and mapped files,
   and the abstract memory they implement (done), with its proofs `MuseProofs`
   (done); `MuseConexiones`, the table of client sockets (done), with its proofs
   `ConexionesProofs` (done).
3. `SacBloques`, `SacDisco`: blocks, bitmap, nodes, paths (done), with the
   proofs of directories, searches and who owns each block in `SacProofs` and of what
   the files hold in `SacSano` (done); `SacServidor`: the turnstile
   and the protocol with the client (done), with its proofs `ServidorProofs` (done).
4. Proofs left: none of a safety property. Every invariant and every action
   property that a passing run checks is a theorem; liveness stays with TLC.

The programs of Pichones MilenariOS and the metrics of SUSE are left out, for the
reasons of section 6.

Abstract specifications worth stating: a bounded FIFO semaphore (done), a
memory of cells for MUSE (done).  A tree of named files for SAC is not stated: the
code does not implement one (two elements of one name hide each other, run
`nombres`, and a file cut at a block keeps old bytes, run `truncado`).  The part of it that
does hold is `BusquedaCorrecta`, `UnoALaVez` and `EscrituraEntera`.

## 3. SUSE

### Modules

| module | role |
|---|---|
| `Semaforo` | the abstract semaphore: a value between 0 and a maximum and a FIFO queue |
| `Suse` | the server, its clients, and the properties |
| `MC_Suse` | values of the constants for TLC |
| `SuseProofs` | proofs: every step keeps every variable in its type; the inductive invariant, the refinement, main and its join |
| `SuseInvariantes` | proofs: how the handlers keep out of each other's way |

### State and code

`socket[c]` is the descriptor that `accept` gave to the connection `c`, and
`abiertas` the connections the server has open.  `nuevofd` is the variable of the
main thread where `accept` leaves that descriptor, and `conectador` the connection
whose `conectar` is under way (the mutex `conectando` is locked for it).
`programas` is the linked list of programs: the set of connections whose program is in it,
with its order in `detras[c]` (those that were in it when `c` became its head).
`fd[c]` is the `pid` of a program, `estado[c][t]` the state of ult `t` (`"Nada"`
when it is not in `ults`), `joineado[c]` the field of that name.  `idos` has the ults that a `wait` or a
`joinear` made `Bloqueado` after `cerrar` took them off the list and before it
read their state (636).  `marca` holds
the flags that are up (`tienehilos`, `bloqueado`, `planificando`, `u0`, `u1`)
and `tomado` the mutexes that are locked (`mutex`, `hilos`, `join`, `ult0`,
`bloqueadoes` of each program, and the global `multiprogramacion`); SUSE uses
the last five as binary semaphores: one thread locks them and another unlocks,
and unlocking an open mutex does nothing.  `grado` and `multi` are
`gradodemultiprogramacion` and `multi`; `val` and `cola` the semaphores;
`hilo[h]` where a thread is and its locals; `caido` says that the process died on
a null pointer; `cliente[c]` is the program behind the connection.

### Grain of the actions

A step is the code between two points where another thread can interfere: a
lock, an unlock, or an access to something that no lock protects.  So
`planificar` is 15 actions, `joinear` seven, `wait` four, `crear` and `cerrar`
three and `signal` one, besides the release of a degree that several share.  Some details of the translation:

* No lock protects `gradodemultiprogramacion`.  A thread keeps in `visto` the
  value its test read; the write that follows may start from that value or from
  the current one (an update between the load and the store of `++` is lost or
  not), so the model lets both happen.
* `multio`, `logs` and `finalizadoses` are only held inside one step; taking them is
  left out.  `semaforoses` is held across several steps by a `wait` that releases a
  degree inside it, hence `SemaforosLibre`, and `programases` by a disconnection
  that does the same, hence `ProgramasLibre`.
* The unlock of `multiprogramacion` in `planificar`, `joinear`, `cerrar`, `wait`
  and the disconnection is one shared action, `SoltarGrado`; a thread carries in
  `sigue` where it goes on.  The order is that of the code: `wait` and `joinear` find
  the ult running (`TieneGrado`), raise the degree and lower `multi`, and only
  then write `Bloqueado` (`EsperaEscribe`, `JoinEscribe`); `planificar` writes `Listo`
  first (`PlanDesaloja`).
* The first `crear` unlocks `hilos` and then raises `tienehilos`: `Crear`, `CrearFin`.
* `wait` and `joinear` write through a pointer to a ult that `cerrar` may have taken
  off the list and freed meanwhile.  The write is taken to reach the state that
  `cerrar` still has to read (`idos`), or nothing.
* The double call of `buscarprograma` in `atender` is modelled by its outcomes:
  the program is found twice, never, or once (a null argument for the handler).
* Searches that never end in the code (a list walked in a circle for an ult that
  is not in it) are the place `"colgado"`; null pointers are `caido`.
* `accept` writes `nuevofd` (`Aceptar`), then waits for the `conectar` of the connection before
  to end and starts the next (`Lanzar`); `conectar` copies `nuevofd` and makes the
  program (`Conectar`), and puts it at the head of the list (`Enlazar`).  So a
  `conectar` may copy the descriptor of a later `accept`: two programs then
  have one descriptor, and `buscarprograma` finds the later (`Vigentes`).  An
  `accept` that fails is left out: it changes nothing but `nuevofd`.
* A request's `recv` and `pthread_create` are one action with the client's `send`,
  `Pide`: it waits for the `conectar` under way, as the main thread does on `conectando`
  (`Atendible`).  The server keeps the order of one client up to the start of
  the threads, and from then on any order is possible, which the model has anyway.
* The clients are the library under a threads package: a client creates ults,
  signals at any time, and after a join, a wait or a close asks for the next
  ult.  Programs that never ask are covered, because nothing obliges them to.

What is abstracted: `clock()`, estimates and the choice they make (any ready ult
may be the best one); surgery on the list of ults is one step, also after the
second unlock of `cerrar` has let two handlers in; writing to a closed socket (the
signal SIGPIPE) is taken to fail quietly.

### Runs

| run | instance | shows |
|---|---|---|
| `joins` | 1 program, 3 ults, 3 handlers at a time, 8 requests, everything but disconnections | the inductive invariant `IInv`, `UnoEjecutando`, `ExclusionMutua`, `FichaDeDespertar`, `BloqueadoEsperaAlgo`, `MultiNoSubestima`, `MainDespuesDeJoin`, `PlanificaConHilos` |
| `conexiones` | 2 clients, 2 descriptors that are used again, every request and disconnections, 3 requests each | that `Suse` implements `Semaforo`; `SemaforosOK`, `FichaDeDespertar`, `MainDespuesDeJoin` with stale handlers, replies and waiters |
| `progreso` | 1 program, 5 requests, fair threads | `PedidosTerminan` |

The bounds: eight requests are enough for main to create two ults and join one,
for these to yield to each other, wait, signal and close, and for main to
run again; two ready ults besides main are what it takes for a forgotten running
ult to show (main is not eligible before its release); three handlers at a time are enough for a sleeping `planificar`,
a `joinear` waiting for it and one handler that changes the state under both.
The degree of multiprogramming is 2, the least with which the release of the code
(`grado + 1 < maximum`) gives anything back.  `MaxPedidos` is the only cap on a
counter.  Threads are symmetric except in the run with liveness.  Deadlock is not
checked: clients may stop at any point, and threads may sleep for ever on a
client that stopped.

Fairness: each thread of the server that can take a step eventually takes one
(weak fairness per thread), which is what the kernel's scheduler gives to threads
that do not sleep on a mutex; a mutex that is contended for may be lost to
others each time, and no fairness is assumed of it.  Clients owe nothing.

Some properties are conditional, because TLC showed how the code behaves otherwise:

* The second unlock of `cerrar` (line 634) opens a mutex that another handler
  holds, so `ExclusionMutua` is about the programs none of whose ults has been closed
  (`SinCierres`).  After it a `wait` and a `joinear` may be inside together and both find main
  running, and both give its degree back: `MultiNoSubestima` is stated without closes too.
* With disconnections, the degree of a running ult is given back by the main
  thread and again by its late `wait` or `cerrar`: `MultiNoSubestima` is stated without them.
* `wait` and `joinear` lower `multi` before the ult is `Bloqueado`: `MultiNoSubestima`
  leaves out the ults that are in that window (`PorAdormecer`), and no other.
* When a `conectar` copied the `nuevofd` of a later `accept`, the handlers of
  one client work on the program made for another.  `CadaUnoSuFd` says that this has not
  happened; it is a hypothesis of `ExclusionMutua`, `MultiNoSubestima`, `BloqueadoEsperaAlgo` and of the
  equality in `FichaDeDespertar`.  The run `conexiones` does reach those states; what it
  checks of the semaphores, of main's join and of the bound on wake-ups holds in them.
* When descriptors are reused, a wake-up can be spent on the planificar
  of another program, so `FichaDeDespertar` then keeps only its upper bound.

### Proofs

`SuseProofs` first proves `TypeOK` and `PedidoOK` inductive.  `TypeOK` alone is not: a
handler types its writes by the program it works on, so `PedidoOK` says that
every busy thread has a program that connected and that `atender` holds a known
request.  `TypeOK` is cut into parts by groups of variables; each action has a
lemma that accounts for the parts it touches.

Then it proves, from the assumption `SuseConstantes` only:

* `Invariante`: `Spec => []IInv`, where `IInv` is `TypeOK /\ PedidoOK /\ SemaforosOK`.
* `Tipos` and `Semaforos`: its two parts worth citing.
* `Implementa`: `Spec => SemaforoImplementado`.  Only `wait` and `signal` touch
  the semaphores; each of their steps is a step of `Semaforo` or a stutter.  The
  argument needs `SemaforosOK`: that `wait` queues only at value 0 is what makes
  it the abstract `Encolar`.
* `MainEspera`: `Spec => []MainDespuesDeJoin`.  It is not inductive: between its
  search and its writes `planificar` keeps the chosen ult in a local, so `MainInv`
  adds that a thread in that stretch that chose main did so after its release.

`SuseInvariantes` proves the other safety properties of the runs.  They rest on `Base`
(`Cimientos`): where a thread is (`Destino`, which sees through `suelta`) agrees with the
request it attends and works on a program that `conectar` made, busy threads are
finitely many, a connection without a program has nothing yet, and, while `CadaUnoSuFd`
holds, the programs of the list are open connections with descriptors of their own (`ConexionOK`:
`SinPrograma`, `EntradaOK`, `PrincipalOK`, `ListaOK`).  This last part is what the race on
`nuevofd` breaks, so `CadaUnoSuFd` stays a hypothesis wherever it is used.  The code of the handlers is taken once as a graph (`Tramo`), so
each property only looks at the edges that matter to it.  None of the properties is
inductive; what each one needs is this:

* `PlanificaTrasCrear`, `[]PlanificaConHilos`: `planificar` is let through by the flag
  `tienehilos` or by the mutex `hilos`.  `HilosAbierto` says that the mutex is closed
  until the first `crear`, and counts the places where `planificar` is asleep as well;
  between the unlock of `hilos` and the flag, the `crear` itself is the witness (`ConPrimerUlt`).
* `BloqueadoEnCola`, `[]BloqueadoEsperaAlgo`: only `wait` blocks a ult and only
  `signal` takes a waiter out of a queue, and then it wakes the ult of every program
  with that descriptor.  `EnEspera` adds the ults that a `wait` has queued and
  not yet put to sleep: `semaforoses` keeps every signal out until it has.  The queues are sequences;
  `ColaCrece` and `ColaMengua` say what becomes of the rest.
* `DespertarSinSobra`, `[]FichaDeDespertar`: the flag `bloqueado` and the mutex
  `bloqueadoes` are counted against the threads that sleep (`FichasPaso`).  The upper bound
  (`FichaMenor`) holds in general; the equality needs that a program has one `planificar` at
  a time (`UnPlan`: the library waits for its answer), because a second one that goes to
  sleep finds the flag up and raises nothing.
* `UnUltALaVez`, `[]UnoEjecutando`: `Turnos` adds that no ult of a program runs while
  its `planificar` is between putting the old one back and choosing the next, across its
  sleep and its wait for a degree.
* `UnoDentro`, `[]ExclusionMutua`: `Cuentas` says that once a ult is closed the client
  never again has all those it made, so the second unlock of `cerrar` cannot happen while
  `SinCierres` holds; `Exclusion` counts a thread that releases a degree on its way to
  a place of the section as being there.
* `MultiCubre`, `[]MultiNoSubestima`: `Degrados` counts the degrees in use against the ults that
  run and are not being put to sleep (`Corren`), those that a thread has taken for a ult not yet
  running, and those on their way back.  A release could take away the degree of
  a ult that still counts only if two handlers had found it running; until a close the mutex of its
  program allows one of them inside (`SoloUnoDuerme`).  `MultiBasta` then maps the threads at
  `suelta` onto the ults they stop and compares the two counts.

`UnUltALaVez` and `UnoDentro` assume `SinBajas`: the clients of the instance do not
disconnect (the property of `MultiCubre` says so itself).  `UnUltALaVez` concludes
`[](CadaUnoSuFd => UnoEjecutando)`: with several clients, a program that
answers two of them has two `planificar` at a time; the run `joins` has one
client, whose `conectar` cannot mistake its descriptor.  `SinBajas` is a real limit of
the proof: a disconnection leaves its requests
under way, and the next client with the same descriptor is taken for the one that left:
its `planificar` may then meet that of the old one.  TLC finds no violation of `UnoEjecutando`
in the states it reached with disconnections, but `UnPlan`, on which the argument rests,
fails there; and `ExclusionMutua` says nothing of such a program, whose record of
ults starts anew.

Only model-checked: the liveness property, which is out of the prover's reach.

## 4. MUSE

### Modules

| module | role |
|---|---|
| `Memoria` | what MUSE promises: each process has cells of its own or of a shared file, and a byte changes only when the `muse_cpy` under way copies it to the address that its process sent |
| `Muse` | the server, its clients, and the properties |
| `MuseConexiones` | the main loop (select, accept, the slots), the clients behind it, and its properties |
| `MC_Muse`, `MC_MuseConexiones` | values of the constants for TLC |
| `MuseProofs` | the theorems about `Muse` |
| `ConexionesProofs` | the theorems about `MuseConexiones` |

### State and code

`procesos[id]` is the list of segments of an open process, each with the fields of
`segmento`; `tablaPaginas` is a sequence of page names.  A page is named by its
position in `paginas`, which holds its `pagina` record; two segments have the
same list of pages in the code exactly when the sequences are equal, because
lists are never empty and never copied.  `frames` is the array of that name
(without `PID`, which only dead code reads), `memoria` and `disco` are the bytes of
the main memory and of the swap file, `swaps[s]` is the page in slot `s`,
`archivosMappeados` the list of files, by path, with the content of the file in
`map` and, in `abierto`, whether it is still mapped.  `tarea` is the request under
way, `respuesta` the last reply, `vivo` falls when the server dies, `muertos` are
the clients that libMUSE kills when `muse_cpy` or `muse_get` answers -1.

In `MuseConexiones`, `client_socket`, `readfds` and `activity` are the variables of
`main`, `lugar` and `turno` where it is; `extremo[f]` is what the kernel has behind the
descriptor `f` of the server, and `conexion[k]` the k-th client: what it has sent,
whether it waits for an answer and how the connection ended.  The two modules
meet in the request: `Muse` says what it does to memory and which
ones bring the server down, `MuseConexiones` when it is read and for whom.

### Grain of the actions

The server is one thread, so nothing interleaves with a request.  Requests that
loop over pages take one step per page: first the part before the loop
(`muse_alloc`, `muse_map`, `muse_cpy`, `muse_get`, `muse_sync`), then
`CrearEnLibre` or `CrearDesalojando` for each page made, `TraerPagina` and
`CopiarPagina` for each page walked; no other request is taken in between.

* `clockModificado` is written by what its four passes find: a frame with both
  bits off; else one that is modified and not used, with the use bits of those
  before it cleared; else all are cleared and the search repeated.
* `muse_alloc` sorts the segments; the list library may leave equal bases in any
  order (`Ordenes`).  With a mapped segment last, the search for a place reads past
  the list: a crash, as in `muse_free` of an address that is no block.
* Writing to a full swap file goes before its start, undefined in C; the model
  stops there (`SwapLleno`), as it does where a walk leaves the list of pages.  A
  `muse_free` of a second mapping searches through a pointer that was never set:
  it crashes or does nothing.
* Bytes never written have the value `Basura`, those of a new file `Cero`.  The
  file that `muse_map` opens is truncated first, so what it held is gone.
* Left out: `muse_get` also copies 2046 bytes from its buffer to one that nobody
  reads; getMetadata* and `obtenerFrame`, which nobody calls; the logs.  Addresses and sizes
  are small, so the 32-bit sums never wrap.

In `MuseConexiones` a step of the server is one call of `select`, one `accept`, or
the turn of one slot:

* A request is one message, and a handler answers or not, opens a file that stays
  open (`muse_map`), or ends the process; which of them do is what `Muse` tells.
* A slot is freed by writing its own index into it (line 307), so it goes on
  being watched under that number.  Slot 0 alone becomes free again.
* `select` fails when a descriptor it is given is closed.  The code only reports it
  and goes on with the set as it was filled, in which every descriptor looks ready.
* `recibirInt` answers a variable that nobody set when `recv` fails: a 0, which
  closes the descriptor, a number that is no request, or a request, whose handler
  reads its arguments in the same way.
* A failed `muse_get` sends bytes that the library never reads before it ends its
  process, which resets the connection.
* The set `readfds` is what `select` found; the loop reads slots that changed
  since, among them the one `accept` has just filled.

### Runs

| run | instance | shows |
|---|---|---|
| `paginas` | 2 processes, 2 frames and 4 slots of 2 bytes, 6 requests among init, alloc, cpy, get, map, unmap | `MemoriaImplementada`: Muse implements `Memoria`; `LecturaFiel`, `FramePropio` |
| `servidor` | the same, 3 slots, 6 requests of every kind, fair server | `IInv`, `PaginasCubren`, `PedidoTermina` |
| `mapeo` | `paginas` with alloc and map | violates `PosicionMapeada` |
| `cierre` | `paginas` with alloc and close, 8 requests | violates `FramePropio` |
| `ranuras` | 4 slots, 5 clients, 7 descriptors, of which 0 is a file and 1 listens, one request besides `muse_init`, fair server | `IInv`, `PrimerosConRanura`, `SoloCierraAlQueSeFue`, `SoloDuermeSiTrabado`, `LlamadasVuelven` |

The bounds: requests of 3 bytes over pages of 2 need two pages and leave one
half used, so two of them overflow two frames: pages are evicted, brought back in
the middle of a copy, and the swap file of `servidor` fills.  Six requests,
two of them `muse_init`, let both processes reserve and write, each with the pages of
the other in memory.  The only fairness is that the server goes on with
the request it has taken (weak fairness of `Atender`), which a single thread does.
Deadlock is not checked: the clients may stop calling, and a crashed server does nothing.

`paginas` leaves out `muse_close` and `muse_free`.  The first because of the run
`cierre`: `quitarUsuario` gives back the frame number that each page holds, and the number of a
page in swap is that of a frame that went to another page, maybe of another
process.  The next allocation takes the frame, and the two processes share it.
The second because `muse_free` moves the base of the segment but not
its pages: the addresses that follow then name other bytes.  The run `mapeo`
shows that the search for a segment includes the end of each one, where the
next one starts: what `muse_map` answers after an allocation cannot be used.

`ranuras` is scaled down.  In the code there are 30 slots, the first descriptors are
the standard ones, the log and the swap file, and the listening socket comes
after them; so the indices of the slots are also the numbers of a file, of the
listening socket and of the first clients.  Four slots with the listening socket
at 1 reach all three, a fifth client finds the table full, and with a file that
`muse_map` leaves open the descriptors run out, which ends the server.  The only
fairness is again that of the single thread, `WF_vars(PasoServidor)`: it goes on unless it
sleeps in a call.  `LlamadasVuelven` says "again and again nobody waits", which
with a bounded number of clients and calls is that every call returns.

What TLC says of this code, and how the properties take it in:

* A slot that was left by its client, other than slot 0, is never used again, and
  it makes the server read whatever has that number.  When that is a client, the
  server reads it in the turn of another slot, and sleeps if it was read already.
* When it is a number that is not open, `select` fails from then on and `accept` sleeps
  until a new client comes: everybody else waits for a stranger.
  `SoloDuermeSiTrabado` and `LlamadasVuelven` say that nothing but such a slot (`Trabado`) does it.
* Still, no client that has not left is closed (`SoloCierraAlQueSeFue`), and two slots
  only share a descriptor when its number is that of a slot that was left
  (`UnaRanuraPorCliente`).

### Proofs

`MuseProofs` proves, for any clients, any sizes of page, memory and swap file, any
buffers and any bound on the requests:

* `Invariante`, `Spec => []IInv`.  `IInv` is the type invariant with three parts that
  need each other.  `UnLugar`, each page in exactly one place, is what the tables
  are for; evicting keeps it only if the clock's victim is a page that is in
  memory in that frame, which is `UnLugar` again plus the fact that the
  frame holds some page.  That fact is `MarcosUsados`: a frame in use
  has a page, and once a page is in swap every frame has one.  It is needed because a
  frame that `muse_close` gave back still names its page, and the clock may pick it.
  `MapaConArchivo` is what the types need where `muse_sync` and
  `muse_unmap` use the file they find without looking.  There is one lemma per
  request and per step of a walk; `EfectoDesalojar` and `EfectoTraer` say once what the two kinds of
  eviction do to the three tables.
* `FramePropioSinCierres`: if `muse_close` is never called, no two pages in memory of
  open processes share a frame.  `Dueno` strengthens it: every page in memory is
  the one its frame names, and a frame that names a page is in use.
  `muse_close` breaks exactly that, as the run `cierre` shows.
* `PaginasSiempreCubren`: the pages of a segment cover it.  `Paginado` adds what is true in
  between: all pages of a list but the last are full and no page is twice in
  one; while `agrandarSegmento` makes pages, the last page is full and the pages and the
  bytes that are left reach the new size; while `crearNuevoSegmento` does, the
  pages made and the bytes left are exactly the size asked for.  Sorting the
  segments (`Ordenes`) only moves them, and a page once full stays so.
* `LecturaFielSinCierres`: if neither `muse_close` nor `muse_free` is called, what a
  `muse_get` answers is what its addresses hold, and after a `muse_cpy` they hold what was
  copied.  `Fiel` strengthens it to the middle of a walk: it is at the address that
  follows those it has done (`Recorrida`, which needs full pages from
  `Paginado`), and those hold what was copied or read so far (`Leido`), whichever pages
  were evicted or brought back since (`BytesPaso`: no step but a page of a
  `muse_cpy` changes the byte in any cell, which needs `UnLugar` and `Dueno`).
  At the end the walk's segment must be the one that the address
  finds: `Ordenados`, the segments of a process in the order of their addresses and
  none overlapping the next.
* `MuseImplementaMemoria`: with the same two requests left out, and looking at all
  addresses (`Observadas = Nat`), every step of the server is a step of `Memoria`.
  The copy under way is a variable of the abstract memory (`copia`, mapped to the
  request in progress): only its next bytes may change what somebody can address,
  each at the address of the caller where it goes, and the pages that eviction and
  bringing back move meanwhile keep theirs.
  `PasoDeListas` says what a step does to the list of segments: it changes that of one
  process at most, where each segment grows in place and new ones come behind
  (`Crecen`, which is a `Reservar`) or some segment goes (`Quedan`, a `Liberar`);
  `EscribeEnLoSuyo` says that a page of a `muse_cpy` fills the addresses after those
  it has done with the next bytes of its buffer and changes no other cell
  (`Escribir`); `ImitaLlamada` that only the call starts a copy (`Copiar`).

The last two leave out two requests because each breaks the argument.  `muse_close`
gives back frames that pages of other processes are in (`FramePropio`, run
`cierre`), and what they hold is then overwritten.  `muse_free` only moves the base of its
segment: it may leave two segments with one base, overlapping, and which of them an
address finds then depends on the order in which `list_sort` leaves them.  The run
`paginas`, where TLC checks the two properties, makes neither request either.

`ConexionesProofs` proves, for any number of slots, clients, descriptors and requests:

* `Invariante`, `Spec => []IInv`, the tables.  A number in a slot is that of a client
  or of a slot that was left; that is what remains true when the
  kernel gives a number again, because a free number that a slot names is the index
  of a slot that was left already.  Each operation on the tables has a lemma
  (`TrasCerrar`, `TrasAceptar`, `TrasAbrir`, `TrasHablar`, `TrasLlegar`).
* `SoloDuermePorUnaRanura`: the server sleeps only because of a stale slot.  `Vigilia` is the
  strengthening: what select found is still true when a slot is read, except of the
  number of a slot that was left; between select and the reads, descriptors are
  closed, or become files, but no client comes behind a number that select saw.
* `NoCierraAlQueEsta`: a client that has not left is not closed.
* `LosPrimerosTienenRanura`: the first clients, as many as there are slots, get one.
  `Reparto` says it without counting: clients are accepted in the order of their
  numbers, and slot i is only filled once client i + 1 was accepted, because the server takes
  the first slot that is free.

`MuseConexionesConstantes` asks for one slot at least, for descriptors that go up to the
number of slots and to the listening socket, and that the marks of a descriptor that is no
client differ from each other and from the clients.

Only model-checked: the liveness properties `PedidoTermina` and
`LlamadasVuelven`.  The assumption `MuseConstantes` asks for a page of
at least one byte, a memory of at least one page, sizes above zero and buffers that are not empty;
addresses are naturals, and `SinCelda`, what an address that is not reserved sees, is no cell.

## 5. SAC

### Modules

| module | role |
|---|---|
| `SacBloques` | the functions of `disco.c` on blocks, as operators on a file and the disk under it |
| `SacDisco` | the table of nodes, the searches, one action per operation, and the properties |
| `SacServidor` | the accept loop, the threads of the requests, the clients behind FUSE, and the properties |
| `MC_Sac`, `MC_SacServidor` | values of the constants for TLC |
| `Minimos` | lemmas on the least element of a set, and the induction over the turns of a loop that it gives; shared with the proofs of MUSE |
| `SacProofs` | the theorems about `SacDisco`: directories, owners of blocks, searches |
| `SacSano` | the theorems about `SacDisco` on a sound disk: what a file has and what is read of it |
| `ServidorProofs` | the theorems about `SacServidor` |

### State and code

`tabla_nodos` is the array of that name, with the fields of `Gfile` (without the
dates).  `bitmap` is the set of blocks whose bit is set; blocks are counted from
the first data block of the disk.  A block can be read as pointers
(`ptr_direct[b]`, the `Bloque_ptr` there) and as bytes (`datos[b]`).  `en_pie`
falls when the server dereferences a bad pointer or recurses without end.
`SacBloques` passes these around as a record; the actions of `SacDisco` store the
record that the function answers (`Dejar`), or take the server down.

In `SacServidor`, `principal`, `thread` and `nuevo_cliente` are where the accept loop is,
its mutex and the variable whose address each new thread is given; `hilo[h]` is a
thread of the server and its locals; `cola` the connections that wait for `accept`.
`hebra[t]` is a thread of FUSE, `sockete[c]` the holder of the mutex of that name in
the process `c` of sac-cli, `conexion[x]` both ends of the connection of
one call, with its request and its reply.

### Grain of the actions

The accept loop of `SAC.c` locks `thread` before it accepts, and the thread of the
request unlocks it after its reply, so requests follow one another and each
operation is one step.  Some details of the translation:

* Loops over `i` (blocks of pointers) and `j` (pointers) go over the positions that
  they visit (`Visitados`; `Visita` in order), with the branch that the code takes at each.
  A pointer outside the disk gives a null address in `extraer_dir_bloque`:
  copying to it is a crash (`Caida`), copying nothing is not.
* `bitarray_clean_bit` with -1 is called with an `int` when a file is erased, which
  touches no bit, and with an unsigned pointer when it is cut, which faults.
* `buscar_archivo` is written by its rounds: all the nodes with the last name climb
  one parent at a time, and a parent that is the root ends the search of all.  In
  the code the candidates of a round have been freed when the next one reads
  them; the build kept beside the code is for 32 bits, where the allocator leaves the
  fields that are read as they were, and the model takes those values.
  `nombre_nuevo_archivo` likewise returns the last name of a path from an array,
  and as a string, that it has just freed; `CrearElemento` takes the name that was there.
* `borrar_directorio_por_nodo` is a recursion over a table that it changes; its
  effect is to erase the smallest set with the directory and what is in it
  (`Contenidos`).  It does not end when the directory is inside itself.
* The requests come from the callbacks of SAC-cli under FUSE, so the kernel looks up
  each directory of a path with `sac_getattr` (`Alcanzable`), uses unlink
  for files and rmdir for directories, and does not move a directory into
  itself, as far as the paths tell.  rmdir of a directory with contents reaches
  the server, which erases them.
* A new disk is made and formatted at every start (`crear_disco`, `formatear`), so
  there is no recovery to model.  The formatting program is a binary; that it
  leaves every node erased and every block free is taken from how the server uses it.
* Left out: dates, `msync`, the logs, the limit of 71 bytes of a name, and the
  operations that only read the table.  `leer_archivo` is an action only where it
  crashes.  Sizes stay below what the blocks of pointers of a file can hold.

In `SacServidor` a step is what a thread does between two system calls that
another thread or process can interfere with:

* The disk is cut down to the tree of directories, and whether each holds something,
  which is all that decides the shape of a reply.  `Efectos` lists what an
  operation may leave and answer, a full disk included: `rmdir` erases what is below
  as well (`Borrado`), a rename takes what is below along (`Movido`; moved onto a
  directory that is there, it has two nodes for one path, and who looks finds either
  of them: the model joins them).  `SacDisco` has the rest.  Searches find what is
  there, as they do while all names differ; what two elements with one name hide from
  each other is left out here.  The root is always there and is not one of `Dirs`.
* Two things keep a process from listing what it took away itself, both outside this
  code.  The kernel reads only a directory that is open (`abre`) and not removed.  FUSE holds
  its tree of paths during each call, so that a removal or a move excludes the calls
  of its process about what is below (`Excluye`, in `Permitido`), and it renames what is
  open once a move has returned (`Sigue`).  Neither reaches another process.
* A request and a reply are one message each.  Only a write can be received
  in parts: the rest stays in the socket, and closing it resets the connection.
* The client sends one byte more than the length it announces, and the server's
  last `recv`, made to wait for the client to finish, takes that byte and
  does not wait.  The mutant `Sobrante_Nada` shows what this hides: without the byte
  the server would wait for a client that waits for the mutex of another call.
* `sac_rmdir` receives no reply and copies from a pointer that it never set:
  `Morir` may end the process there, or it returns.
* The mutex `m_truncar` is taken and left inside one step.  Errors of `send`, the
  limit of descriptors of a process and what the callbacks answer as `errno` are
  left out; FUSE ignores SIGPIPE in the client.

### Runs

| run | instance | shows |
|---|---|---|
| `disco` | 4 nodes, 6 blocks of 2 bytes and 2 pointers, 3 blocks of pointers per file, 5 paths of up to 3 names, 6 requests | `TipoOK`, `BloqueDeUno`, `SinHuerfanos`, `BusquedaCorrecta`, `EscrituraEntera`, `UnoALaVez`, `SigueSano` |
| `truncado` | the same disk, two paths, files cut to 0 | violates `EscrituraSeLee` |
| `nombres` | the instance of `disco` | violates `ExistenteSeEncuentra` |
| `llamadas` | 2 processes of sac-cli with 2 threads and 1, 2 threads in the server, the directories `/p`, `/p/h` and `/q`, 2 calls among opendir, readdir, rmdir, rename and write, one failure of `accept`, `pthread_create` or a client | `IInv`, `CadaUnoSuConexion`, `TurniqueteConDueno`, `OrdenDeLlamadas`, `CaidaPorOtroCliente`, `RespuestaLlega`, `FugaSoloAlListarVacio`, `LlamadasTerminan` |

The bounds: with blocks of 2 bytes, texts of 1 and 3 bytes fill and cross blocks;
with 2 pointers per block of them, a file of more than 4 bytes needs a second one;
six blocks are used up by two files, at any of the places where a
block is asked for.  Two names in two levels make the same name appear below the
root and below the other, and a third level makes the recursion of erasing
go down twice.  Six requests reach a full disk after a truncation and a deletion.
Deadlock is not checked: the clients may stop, and a server that is down
answers nothing.

In `llamadas` every pair of calls of three threads meets: of one process (they share
`sockete`), and of two (nothing orders them).  What earlier calls leave is in the
initial states: `/p` is absent, empty, or has something in it, maybe `/p/h`; one
directory is open, or none.  Of the callbacks there are the four shapes of the protocol:
a short reply, a listing that ends with the close, no reply at all, and a request that
comes in parts; and those that take a directory away: the removal of `/p`, with `/p/h`, and
the move of `/p` to `/q`.  The others have the first shape and another effect.  Fairness: each thread of
the server and each thread of FUSE that can take a step takes one, and so does the
accept loop.  Programs need not call, and nothing need fail.

What TLC says of this code, and how the properties take it in:

* A file that is cut at the start of a block keeps that block, the next write
  takes the one after it, and reads then answer the old bytes (`truncado`).
  Hence `SigueSano`: a sound disk, with sizes, pointers and bitmap in agreement, is left
  unsound only by a write that does not fit, by lengthening a file or by cutting it
  between two blocks.  Even then `BloqueDeUno` holds: no block is ever in two places.
* Two elements with one name, anywhere, can hide each other: `nombres`.  Hence
  `BusquedaCorrecta` is stated while all names are different.
* `EscrituraEntera` leaves out the writes that cross two blocks of pointers inside the
  file, where `escribir_dentro_archivo` takes the branch of the first block again,
  and those that start beyond the end.
* The turnstile is lost, and the server accepts nobody any more, when a client
  ends between its connection and its request, or when `accept` or `pthread_create` fails:
  `TurniqueteConDueno` says that nothing else does it.  `sac_rmdir` can
  make the client end, and so the calls of its other threads.
* Listing a directory that is gone brings the server down.  It is gone when it was
  removed or moved, or one above it was: the `mv` of `poco_de_todo.sh`, line 61, while
  another process has that directory open, is enough.  FUSE and the kernel prevent it
  within one process, not between two: `CaidaPorOtroCliente`.
* Listing an empty directory returns without closing its socket, once per call:
  `FugaSoloAlListarVacio`.
* A removal returns before the server has it, and still nobody can tell
  (`OrdenDeLlamadas`): connections are accepted in order and served one at a time.

### Proofs

`SacProofs` proves, for any table, names, paths and blocks, from the assumption
`SacDiscoConstantes`: `Invariante`, `Spec => []IInv`, and `SinHuerfanosSiempre`,
`Spec => []SinHuerfanos`.  `IInv` is `PadresOK` of the table: its shape (the steps
replace fields of records), the root, a directory that is its own parent, and the
parents of all.  The root is needed to erase a directory: what is inside it
cannot hold the root, because the nodes but the root are a set that `Contenidos` is
included in.  The argument is by what an operation does to a table (`MismosPadres`,
`ConHijo`, `SinRama`); of a search it only uses that it answers a node other than the
root, or none (`Buscado`), and of a move that the kernel has seen a directory at the
end of the way (`Alcanzable`).  It does not say that the parents make up a tree: the
code can move a directory into itself when a search answers another node.

The other theorems of `SacProofs` are about blocks, for any sizes of block, of disk and
of table, and any requests: `Tipos`, `Spec => []TipoOK`; `BloqueDeUnoSiempre`,
`Spec => []BloqueDeUno`; `UnoALaVezSiempre`, `Spec => UnoALaVez`.  `TipoOK` and
`BloqueDeUno` are inductive together (`Disco`): nothing else about sizes and pointers
is needed, nor could `SigueSano` help: lengthening and cutting leave files whose size and
pointers disagree.  `TipoOK` says more than types in one place: a pointer of -1 (a
search of a free block that failed) is only at the start of a block of pointers.  The argument has three layers:

* One file and the disk under it, as `SacBloques` sees them.  `Bien(d, O)`: the file has
  each of its blocks in one place, marked, and none of the blocks `O` of other
  files.  `Sigue(d, e, O)`: `e` is still so, and what the blocks `O` hold is the
  same as in `d`.  Each function of `disco.c` keeps it: `EscribeArchivo`,
  `AlargaArchivo`, `AcortaArchivo`, `BorraArchivo`.  A block that is taken was free, so it is
  in no place yet (`UnSitioNuevo`, `ConDato`).  The loops are followed
  turn by turn (`HastaN`), with what holds between turns in `EnTurno` (also the bytes
  written and those left, which add up to the size asked for) and `EnPaso`.
* All the files of a table.  `Reparto` is `BloqueDeUno` said of a table, a bitmap and
  the pointers; `UnoCambia` puts a file that went through an operation back among the
  others.
* The steps.  `PasoBien` is what each of them keeps: the types, `BloqueDeUno`, and that of
  all the files but one size, pointers and bytes are the same (`Iguales`).  Erasing a
  directory is apart: all the files that are erased go at once, and nobody is written.
  `UnoALaVez` follows (`CambiaUno`).

Here the assumption `SacDiscoConstantes` is needed for more than types: `MaxTam` is below what
the pointers of a file can hold.  Beyond it `escribir_sobre_bloque_incompleto` and
the loop of `truncar_archivo` would index `simple_indirect` outside its bounds.

`BusquedaCorrectaSiempre`, `Spec => []BusquedaCorrecta`, closes `SacProofs`.  What it needs
of the states, besides `TipoOK` and `IInv`, is `NombresOK`: the nodes with a name that a path
can have are the live ones but the root, so that no search meets an erased node
(every operation that erases clears the name).  The rounds of `buscar_archivo` are a
sequence of functions (`Rondas`), and a node that hangs from the root has a depth
(`HonduraDe`), so while names are different each round of the search for its path has one
candidate, its ancestor of that round, and the last one is below the root
(`BusquedaBuena`).

`SacSano` is about a sound disk, `DiscoSano`.  That one is not an invariant of the
program, so its theorems are about steps from it and about writes on it:
`SigueSanoSiempre`, `Spec => SigueSano`, and `EscrituraEnteraSiempre`,
`Spec => []EscrituraEntera`.  Their argument has four parts:

* Numbers.  The data block `k` of a file is in the place `k \div CANT_DIRECTOS`,
  `k % CANT_DIRECTOS`, and the byte `x` in the block `x \div BLOCK_SIZE`: what follows from the
  order of multiples (`DivUnico`, `Posiciones`, `BloqueDelByte`, `Renglon`), with the
  sizes as constants.
* One file.  `JustoDe(d, q)` says that it has a block in each of its first `q` places, and in
  no other, and no block of pointers too many; `SinPerdidos(d, O)` that each marked block is
  its own or in `O`.  `DiscoSanoEs` shows that, of all files together (`DiscoJusto`), this is
  exactly `DiscoSano`.  Cutting inside a block and erasing keep it, and so does
  adding a block when two are free, or one where no block of pointers is needed
  (`NuevoBloque`).
* The loop of `escribir_final_archivo`.  `Avance` holds before each turn: the file is sound
  (`Justo`), full to the end of its last block unless nothing is left to write,
  what is left is the end of the text, each byte is the old one or the one of the text, and
  the free blocks are enough for the rest, counted as `Cabe` counts them (`Peso`).  The
  last part is why a write that fits is never left half done (`HayLugar`).
* The loop of `escribir_dentro_archivo`.  `EnDentro` holds at each block: before the first,
  nothing is written; after it, `escrita` bytes are, which reach the start of this block or
  all that was asked for (`Lleva`); or the loop is over.  That the write stays
  inside one block of pointers is what makes the branch of the first block be taken
  once (`Numeros`).  `EscritoEntero` joins both loops into the bytes of the file, and
  `LeeJusto` shows that `leer_archivo` answers the bytes of a sound file in order.

`ServidorProofs` proves, for any processes of sac-cli, threads on either side,
directories, calls and failures, from the assumption `SacServidorConstantes`:

* `Invariante`, `Spec => []IInv`: the two mutexes that are held between steps
  have one owner each, and the queue holds each connection once.
* `ElTurniqueteTieneDueno`, `Spec => []TurniqueteConDueno`, and `UnHiloPorConexion`,
  `Spec => []CadaUnoSuConexion`.
* `LlamadasEnOrden`, `Spec => []OrdenDeLlamadas`; `NingunaRespuestaSePierde`,
  `Spec => []RespuestaLlega`; `SoloCaePorOtroCliente`, `Spec => []CaidaPorOtroCliente`;
  `SoloFugaAlListarVacio`, `Spec => []FugaSoloAlListarVacio`.

None of them is inductive alone, and the first three follow from `Inductivo`, which adds what ties the two sides
together.  `CargoOK`: the threads that are busy and the connections that are open
match; this needs the turnstile (`TurnoOK`), since a second accept would change the
variable that the first thread still has to read.  `ColaOK`: what waits in the
queue belongs to calls that began, so the connection of a new call is not
there yet.  `HebraOK` and `CerradaOK`: a client that closes has sent, unless it died, so a thread
of the server that leaves without its unlock (`Abandonar`) has a dead client.
`ServidorIgual` is what all the steps of a client but the start of a call have in common;
`SigueHilo` and `AcabaHilo` are the same for the steps of a thread of the server.

The last four rest on `Inductivo` and on one layer of invariants each, over lemmas
that say in full what each action does (`QueAceptar` to `QueLlamar`):

* `OrdenOK`: a call that began and was not attended waits in the queue, or in the
  thread that has it, or the turnstile is lost (`Pendiente`); and every earlier call that it has to come
  after was attended or waits before it (`Antes`).  The queue only loses its head and only
  while no thread is busy, so `Antes` is kept until the earlier call is
  attended (`Avance`).
* `RespuestaOK`: what a thread has to answer, and what was answered, fit the kind of request.
  A call other than a removal returns only on a reply, and the only reply that is lost is that of a
  write received in parts.
* `AbreOK`, `LlevadaOK`, `LecturaOK`: a directory that a thread has open, or that is being
  listed, is there and no removal of it by its own process is on its way, unless another
  process took it away (`Firme`).  Or the call that opens it is under way, after all
  the removals of its process, or already refused (`AbreCon`).  Or a move of its own process has
  just taken it along (`Llevada`), and then the place where it went is `Firme`.  `CursoOK` and
  `ExcluyeOK` say what the lock of FUSE gives: two calls under way do not exclude each other,
  and a removal that a move has to wait for, which may have returned, comes before it.  Here the order of the calls
  is needed again, for the removals that sac-cli did not wait for; and the reply
  (`RespuestaLlega`), for a process may remove a directory once its listing
  returned, and by then the server is done with it.  About the tree only lemmas on
  prefixes are used (`Comparables`, `MudarSeq`, `CaminosDe`).
* `DescOK`: the connections of a live process that are open are those of its calls under way
  and those of the empty listings that returned; they are counted by the map from
  a connection to its thread, which is one to one (`TantasComoHebras`).

Only model-checked: `LlamadasTerminan`, which is liveness.

## 6. Not modelled

**SUSE metrics.** `metricas` and `ciclo` read the lists and write to the log; no other
part reads what they compute.  `metricas` takes the head of the list of finished ults
before it locks the list, and walks and frees it: the second of two calls that
overlap walks entries that are already freed.  Nothing but the text of
the log depends on it, short of the heap being damaged, of which no state of
this model could speak.

**Pichones MilenariOS.** What is there does not make up a system whose behaviour
can be stated:

* *Kernel*: a line is parsed and sent at once to the memory, one byte with the
  code of the request and its size before the text; the requests that create, describe and drop
  a table send a buffer that was just freed.  The ready queue is filled with the
  addresses of parameters of the function that fills it, and the call that would
  run its entries (`ejecutarready`) is commented out, so there is no quantum
  and no interleaving of scripts.
* *Memory*: one connection.  It decodes the code of a request as decimal
  digits in text, while the kernel sends a byte with its value, so that it
  recognises none of the requests; those that it does have only print, and
  its loop does not notice that the kernel has left.
* *Memtable*: the later of the two versions does not compile (the function
  `obtenerRegistroDeTabla` is never closed and uses a name that is not declared).
  The earlier one changes local copies of its pointers, so insertions are lost on return.
* *FileSystem*, *Compactador*, *tp0*, *ComunParaTodos*: stubs and wrappers of socket calls.

**Third parties.** The list library, FUSE and the kernel's sockets are modelled by how the
code uses them.
