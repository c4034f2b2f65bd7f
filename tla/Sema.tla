-------------------------------- MODULE Sema --------------------------------
(***************************************************************************)
(* The semaphores of threads/synch.c on top of the scheduler.              *)
(***************************************************************************)
EXTENDS Sched

CONSTANTS Sema,      \* the semaphores
          MaxValue   \* bound on a semaphore's value (unsigned in the code)

ASSUME SemaAssumption == MaxValue \in Nat \ {0}

VARIABLES value,     \* value[s]
          waiters    \* waiters[s]: the wait list, front first

semaVars == <<value, waiters>>

SemaTypeOK ==
  /\ value \in [Sema -> 0 .. MaxValue]
  /\ waiters \in [Sema -> Seq(Thread)]

\* One pass of the loop of sema_down() by the running thread, up to the
\* point where it has decremented the value and restored interrupts ...
sema_down_pass(s) ==
  /\ value[s] > 0
  /\ value' = [value EXCEPT ![s] = @ - 1]
  /\ intr' = "ON"
  /\ UNCHANGED <<waiters, status, ready_list, cur, idle_thread, resuming,
                 thread_ticks, panic>>

\* ... or has gone to sleep; when it is woken it makes another pass.
sema_down_sleep(s) ==
  /\ value[s] = 0
  /\ waiters' = [waiters EXCEPT ![s] = Append(@, cur)]
  /\ thread_block
  /\ UNCHANGED value

\* sema_try_down(), successful; its failure changes nothing.
sema_try_down(s) ==
  /\ value[s] > 0
  /\ value' = [value EXCEPT ![s] = @ - 1]
  /\ UNCHANGED <<waiters, schedVars>>

\* Mutants: the woken thread stays on the wait list; a waiter is woken only
\* when the value was zero; the waiter is taken off the list but not woken.
MutUpNoPop(s) ==
  /\ value[s] < MaxValue
  /\ IF waiters[s] # <<>> THEN thread_unblock(Head(waiters[s]))
                          ELSE UNCHANGED schedVars
  /\ value' = [value EXCEPT ![s] = @ + 1]
  /\ UNCHANGED waiters

MutUpFromZero(s) ==
  /\ value[s] < MaxValue
  /\ IF waiters[s] # <<>> /\ value[s] = 0
       THEN /\ thread_unblock(Head(waiters[s]))
            /\ waiters' = [waiters EXCEPT ![s] = Tail(@)]
       ELSE UNCHANGED <<waiters, schedVars>>
  /\ value' = [value EXCEPT ![s] = @ + 1]

MutUpNoUnblock(s) ==
  /\ value[s] < MaxValue
  /\ waiters' = [waiters EXCEPT ![s] = IF @ = <<>> THEN @ ELSE Tail(@)]
  /\ value' = [value EXCEPT ![s] = @ + 1]
  /\ UNCHANGED schedVars

\* Mutant: the thread that came last is woken first.
MutUpLast(s) ==
  /\ value[s] < MaxValue
  /\ IF waiters[s] # <<>>
       THEN /\ thread_unblock(waiters[s][Len(waiters[s])])
            /\ waiters' = [waiters EXCEPT ![s] = SubSeq(@, 1, Len(@) - 1)]
       ELSE UNCHANGED <<waiters, schedVars>>
  /\ value' = [value EXCEPT ![s] = @ + 1]

sema_up(s) ==
  /\ value[s] < MaxValue
  /\ IF waiters[s] # <<>>
       THEN /\ thread_unblock(Head(waiters[s]))
            /\ waiters' = [waiters EXCEPT ![s] = Tail(@)]
       ELSE UNCHANGED <<waiters, schedVars>>
  /\ value' = [value EXCEPT ![s] = @ + 1]

----------------------------------------------------------------------------
(* Properties of every specification built from these operators. *)

\* The members of a semaphore's wait list are blocked threads, each on one
\* wait list and there once.
WaitLists ==
  /\ \A s \in Sema : /\ IsInjective(waiters[s])
                     /\ \A t \in Range(waiters[s]) : status[t] = "BLOCKED"
  /\ \A s1, s2 \in Sema :
       s1 # s2 => Range(waiters[s1]) \cap Range(waiters[s2]) = {}

\* A thread's `elem' can serve both kinds of list because its two uses are
\* mutually exclusive (the comment at thread.h:105-110): a ready thread is on
\* the run queue, only a blocked one is on a wait list, no list has it twice.
ElemExclusive == RunQueue /\ WaitLists
=============================================================================
