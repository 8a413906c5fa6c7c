------------------------------ MODULE Semaforo ------------------------------
(***************************************************************************)
(* What the named semaphores of SUSE promise, with no scheduler, no        *)
(* programs and no locks: a value between 0 and a maximum, and a queue of  *)
(* waiters served strictly in order of arrival.  A post hands its permit   *)
(* straight to the oldest waiter, so a later wait can never overtake it.   *)
(* The module Suse is shown to implement this one.                         *)
(***************************************************************************)
EXTENDS Integers, Sequences

CONSTANTS Sems,         \* the semaphores (Sids of Config.config)
          Vals,         \* their initial values (Vals)
          Maxs,         \* their maximum values (Maxs)
          Esperadores   \* who can wait: pairs of program and thread

VARIABLES val,    \* val[s]: permits left in s
          cola    \* cola[s]: waiters of s, the oldest first

varsSem == <<val, cola>>

Init ==
    /\ val = Vals
    /\ cola = [s \in Sems |-> <<>>]

-----------------------------------------------------------------------------
\* A wait that finds a permit takes it.
Conceder(s) ==
    /\ val[s] > 0
    /\ val' = [val EXCEPT ![s] = @ - 1]
    /\ UNCHANGED cola

\* A wait that finds none goes to the end of the queue.
Encolar(s, w) ==
    /\ val[s] = 0
    /\ cola' = [cola EXCEPT ![s] = Append(@, w)]
    /\ UNCHANGED val

\* A signal serves the oldest waiter.
Atender(s) ==
    /\ cola[s] # <<>>
    /\ cola' = [cola EXCEPT ![s] = Tail(@)]
    /\ UNCHANGED val

\* A signal nobody waits for adds a permit; at the maximum it has no effect.
Devolver(s) ==
    /\ cola[s] = <<>>
    /\ val[s] < Maxs[s]
    /\ val' = [val EXCEPT ![s] = @ + 1]
    /\ UNCHANGED cola

Next ==
    \E s \in Sems :
        \/ Conceder(s)
        \/ \E w \in Esperadores : Encolar(s, w)
        \/ Atender(s)
        \/ Devolver(s)

Spec == Init /\ [][Next]_varsSem

=============================================================================
