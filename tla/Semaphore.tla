----------------------------- MODULE Semaphore -----------------------------
(***************************************************************************)
(* What threads/synch.c promises of its counting semaphores, with no CPU,  *)
(* run queue or interrupts: the sections that run with interrupts off are  *)
(* single steps and any thread that is awake may take the next one.        *)
(* Threads.tla implements this specification; Synch.tla builds on it.      *)
(***************************************************************************)
EXTENDS Naturals, Sequences, Functions

CONSTANTS
  Thread,
  Sema,      \* the semaphores
  NULL,
  MaxValue   \* bound on a semaphore's value

VARIABLES
  value,     \* value[s]
  waiters,   \* waiters[s]: the threads that sleep on s, first come first served
  waitsFor   \* waitsFor[t]: the semaphore whose sema_down() t is in, or NULL

semaphoreVars == <<value, waiters, waitsFor>>

SemaphoreTypeOK ==
  /\ value \in [Sema -> 0 .. MaxValue]
  /\ waiters \in [Sema -> Seq(Thread)]
  /\ waitsFor \in [Thread -> Sema \cup {NULL}]

Awake(t) == \A s \in Sema : t \notin Range(waiters[s])

call_down(t, s) ==
  /\ waitsFor[t] = NULL
  /\ waitsFor' = [waitsFor EXCEPT ![t] = s]

down_pass(t) ==
  /\ waitsFor[t] # NULL
  /\ Awake(t)
  /\ value[waitsFor[t]] > 0
  /\ value' = [value EXCEPT ![waitsFor[t]] = @ - 1]
  /\ waitsFor' = [waitsFor EXCEPT ![t] = NULL]
  /\ UNCHANGED waiters

down_sleep(t) ==
  /\ waitsFor[t] # NULL
  /\ Awake(t)
  /\ value[waitsFor[t]] = 0
  /\ waiters' = [waiters EXCEPT ![waitsFor[t]] = Append(@, t)]
  /\ UNCHANGED <<value, waitsFor>>

try_down(s) ==
  /\ value[s] > 0
  /\ value' = [value EXCEPT ![s] = @ - 1]
  /\ UNCHANGED waiters

\* Mutant: the value goes up and nobody is woken.
MutUpSilent(s) ==
  /\ value[s] < MaxValue
  /\ value' = [value EXCEPT ![s] = @ + 1]
  /\ UNCHANGED waiters

\* Wakes the first waiter, which will make another pass.
up(s) ==
  /\ value[s] < MaxValue
  /\ value' = [value EXCEPT ![s] = @ + 1]
  /\ waiters' = [waiters EXCEPT ![s] = IF @ = <<>> THEN @ ELSE Tail(@)]

SemaphoreInit ==
  /\ value = [s \in Sema |-> 0]
  /\ waiters = [s \in Sema |-> <<>>]
  /\ waitsFor = [t \in Thread |-> NULL]

SemaphoreNext ==
  \/ \E t \in Thread :
       \/ down_pass(t)
       \/ down_sleep(t)
       \/ \E s \in Sema : call_down(t, s) /\ UNCHANGED <<value, waiters>>
  \/ \E s \in Sema : (try_down(s) \/ up(s)) /\ UNCHANGED waitsFor

SemaphoreSpec == SemaphoreInit /\ [][SemaphoreNext]_semaphoreVars
=============================================================================
