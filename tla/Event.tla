------------------------------- MODULE Event -------------------------------
(***************************************************************************)
(* The broadcast event (src/util/event/screencoder_event.cpp): a           *)
(* QueueArray nobody pops.  raise_event pushes a buffer, which is what the *)
(* producers of QueueArray do; wait_event and is_invoked poll the counter  *)
(* without the lock.  Consumers take no step here; MaxSize is INFINITE_.   *)
(***************************************************************************)
EXTENDS QueueArray

CONSTANT Waiters        \* the threads in WAIT_EVENT, or polling IS_INVOKED

VARIABLE woken          \* the waiters whose poll found the event raised

evars == <<vars, woken>>

\* queue_array_peek: `size > 0` on an unsigned
IsInvoked == size # 0

\* MUTANT of Wake: the waiter resets the event
WakeAndReset(w) ==
    /\ w \notin woken
    /\ IsInvoked
    /\ woken' = woken \cup {w}
    /\ size' = size - 1
    /\ UNCHANGED <<list, mutex, taken, pc, cur, reg, last, made, countVars, sizeRaced>>

Wake(w) ==
    /\ w \notin woken
    /\ IsInvoked
    /\ woken' = woken \cup {w}
    /\ UNCHANGED vars

EventInit == Init /\ woken = {}

EventNext == \/ \E p \in Producers : Producer(p) /\ UNCHANGED woken
             \/ \E w \in Waiters : Wake(w)

EventSpec == EventInit /\ [][EventNext]_evars

FairEvent == /\ EventSpec
             /\ \A p \in Producers : WF_evars(Producer(p) /\ UNCHANGED woken)
             /\ \A w \in Waiters : WF_evars(Wake(w))

-----------------------------------------------------------------------------
\* A raised event stays raised: threads that poll it at different times agree,
\* although the raisers' increments of the counter may overwrite each other
\* (event.cpp:31, queue.cpp:92).
Sticky == [][IsInvoked => IsInvoked']_evars

\* Once a thread starts to raise the event every waiter gets to know, whoever
\* else is raising it (event.cpp:39).
WakesAll == (\E p \in Producers : pc[p] # "init") ~> woken = Waiters
=============================================================================
