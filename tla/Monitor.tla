------------------------------ MODULE Monitor ------------------------------
(***************************************************************************)
(* What locks and condition variables promise (the comments of             *)
(* threads/synch.c): a lock has at most one owner, and waiting releases    *)
(* the lock and joins the condition's queue in one step.  Signals go to    *)
(* the first waiter, which returns once it has the lock again.             *)
(***************************************************************************)
EXTENDS Naturals, Sequences

CONSTANTS Thread, Lock, Cond, lockOf, NULL

VARIABLES
  owner,   \* owner[l]: the thread that has l, or NULL
  queue,   \* queue[c]: the threads that wait for c
  due      \* due[t]: the lock that t, once signalled, has to take, or NULL

monitorVars == <<owner, queue, due>>

Waiting(t) == \E c \in Cond : \E i \in 1 .. Len(queue[c]) : queue[c][i] = t

Acquire(t, l) ==
  /\ owner[l] = NULL
  /\ ~Waiting(t)
  /\ due[t] \in {NULL, l}
  /\ owner' = [owner EXCEPT ![l] = t]
  /\ due' = [due EXCEPT ![t] = NULL]
  /\ UNCHANGED queue

Release(t, l) ==
  /\ owner[l] = t
  /\ ~Waiting(t)
  /\ due[t] = NULL
  /\ owner' = [owner EXCEPT ![l] = NULL]
  /\ UNCHANGED <<queue, due>>

Wait(t, c) ==
  /\ owner[lockOf[c]] = t
  /\ ~Waiting(t)
  /\ due[t] = NULL
  /\ owner' = [owner EXCEPT ![lockOf[c]] = NULL]
  /\ queue' = [queue EXCEPT ![c] = Append(@, t)]
  /\ UNCHANGED due

Signal(t, c) ==
  /\ owner[lockOf[c]] = t
  /\ ~Waiting(t)
  /\ due[t] = NULL
  /\ queue[c] # <<>>
  /\ queue' = [queue EXCEPT ![c] = Tail(@)]
  /\ due' = [due EXCEPT ![Head(queue[c])] = lockOf[c]]
  /\ UNCHANGED owner

MonitorInit ==
  /\ owner = [l \in Lock |-> NULL]
  /\ queue = [c \in Cond |-> <<>>]
  /\ due = [t \in Thread |-> NULL]

MonitorNext ==
  \E t \in Thread :
    \/ \E l \in Lock : Acquire(t, l) \/ Release(t, l)
    \/ \E c \in Cond : Wait(t, c) \/ Signal(t, c)

MonitorSpec == MonitorInit /\ [][MonitorNext]_monitorVars
=============================================================================
