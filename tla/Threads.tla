------------------------------ MODULE Threads ------------------------------
(***************************************************************************)
(* The life of kernel threads (threads/thread.c): booting with             *)
(* thread_start() and idle(), thread_create(), sleeping on and waking      *)
(* through semaphores, preemption by the timer, thread_exit() and the      *)
(* reuse of a dead thread's page.  What a thread's function does is        *)
(* arbitrary: it calls these operations in any order.                      *)
(***************************************************************************)
EXTENDS Sema, FiniteSets

CONSTANT idle_started   \* the semaphore of thread_start()

ASSUME ThreadsAssumption ==
  idle_started \in Sema /\ NULL \notin Sema /\ IsFiniteSet(Thread)

\* The semaphores the threads' functions use, besides idle_started.
Event == Sema \ {idle_started}

VARIABLES
  pc,        \* pc[t]: where thread t is
  child,     \* child[t]: the thread t is creating, or NULL
  all_list,  \* the threads on the list of all threads
  waitsFor   \* waitsFor[t]: the semaphore that t is in sema_down() of, or NULL

vars == <<schedVars, semaVars, pc, child, all_list, waitsFor>>

PC == {"none", "boot", "create", "start", "body", "down",
       "idle_init", "idle_up", "idle_block", "idle_sti", "idle_hlt"}

\* The scheduler's and the semaphores' variables have their types, and
\* every thread is at a known step and waits for a semaphore or for none.
TypeOK ==
  /\ SchedTypeOK
  /\ SemaTypeOK
  /\ pc \in [Thread -> PC]
  /\ child \in [Thread -> Thread \cup {NULL}]
  /\ all_list \in SUBSET Thread
  /\ waitsFor \in [Thread -> Sema \cup {NULL}]

Init ==
  /\ thread_init
  /\ value = [s \in Sema |-> 0]
  /\ waiters = [s \in Sema |-> <<>>]
  /\ pc = [t \in Thread |-> IF t = initial_thread THEN "boot" ELSE "none"]
  /\ child = [t \in Thread |-> NULL]
  /\ all_list = {initial_thread}
  /\ waitsFor = [t \in Thread |-> NULL]

Goto(t, l) == pc' = [pc EXCEPT ![t] = l]

----------------------------------------------------------------------------
(* thread_create() by the running thread t, as two steps: allocating the   *)
(* page and init_thread(), then thread_unblock() of the new thread.        *)

\* function is where the new thread will start: "idle_init" or "body".
CreateInit(t, function) ==
  /\ Running(t)
  /\ pc[t] = IF function = "idle_init" THEN "boot" ELSE "body"
  /\ \E new \in Thread :
       /\ status[new] = "FREE"              \* palloc_get_page()
       /\ status' = [status EXCEPT ![new] = "BLOCKED"]
       /\ all_list' = all_list \cup {new}
       /\ child' = [child EXCEPT ![t] = new]
       /\ pc' = [pc EXCEPT ![t] = "create", ![new] = function]
       /\ resuming' = resuming \cup {new}
  /\ UNCHANGED <<ready_list, cur, idle_thread, intr, thread_ticks, panic,
                 semaVars, waitsFor>>

CreateUnblock(t) ==
  /\ Running(t)
  /\ pc[t] = "create"
  /\ thread_unblock(child[t])
  /\ child' = [child EXCEPT ![t] = NULL]
  /\ Goto(t, IF pc[child[t]] = "idle_init" THEN "start" ELSE "body")
  /\ UNCHANGED <<semaVars, all_list, waitsFor>>

\* The rest of thread_start(): intr_enable(), then sema_down (&idle_started).
StartEnable(t) ==
  /\ Running(t)
  /\ pc[t] = "start"
  /\ intr' = "ON"
  /\ Goto(t, "down")
  /\ waitsFor' = [waitsFor EXCEPT ![t] = idle_started]
  /\ UNCHANGED <<status, ready_list, cur, idle_thread, resuming, thread_ticks,
                 panic, semaVars, child, all_list>>

----------------------------------------------------------------------------
(* idle() *)

IdleInit(t) ==
  /\ Running(t)
  /\ pc[t] = "idle_init"
  /\ idle_thread' = t
  /\ Goto(t, "idle_up")
  /\ UNCHANGED <<status, ready_list, cur, intr, resuming, thread_ticks, panic,
                 semaVars, child, all_list, waitsFor>>

IdleUp(t) ==
  /\ Running(t)
  /\ pc[t] = "idle_up"
  /\ sema_up(idle_started)
  /\ Goto(t, "idle_block")
  /\ UNCHANGED <<child, all_list, waitsFor>>

IdleBlock(t) ==
  /\ Running(t)
  /\ pc[t] = "idle_block"
  /\ thread_block
  /\ Goto(t, "idle_sti")
  /\ UNCHANGED <<semaVars, child, all_list, waitsFor>>

\* sti; hlt: interrupts are on and the CPU sleeps until one arrives.
IdleHalt(t) ==
  /\ Running(t)
  /\ pc[t] = "idle_sti"
  /\ intr' = "ON"
  /\ Goto(t, "idle_hlt")
  /\ UNCHANGED <<status, ready_list, cur, idle_thread, resuming, thread_ticks,
                 panic, semaVars, child, all_list, waitsFor>>

----------------------------------------------------------------------------
(* What a thread's function may do. *)

CallDown(t, s) ==
  /\ Running(t)
  /\ pc[t] = "body"
  /\ Goto(t, "down")
  /\ waitsFor' = [waitsFor EXCEPT ![t] = s]
  /\ UNCHANGED <<schedVars, semaVars, child, all_list>>

DownPass(t) ==
  /\ Running(t)
  /\ pc[t] = "down"
  /\ sema_down_pass(waitsFor[t])
  /\ Goto(t, "body")
  /\ waitsFor' = [waitsFor EXCEPT ![t] = NULL]
  /\ UNCHANGED <<child, all_list>>

DownSleep(t) ==
  /\ Running(t)
  /\ pc[t] = "down"
  /\ sema_down_sleep(waitsFor[t])
  /\ UNCHANGED <<pc, child, all_list, waitsFor>>

TryDown(t, s) ==
  /\ Running(t)
  /\ pc[t] = "body"
  /\ sema_try_down(s)
  /\ UNCHANGED <<pc, child, all_list, waitsFor>>

Up(t, s) ==
  /\ Running(t)
  /\ pc[t] = "body"
  /\ sema_up(s)
  /\ UNCHANGED <<pc, child, all_list, waitsFor>>

Yield(t) ==
  /\ Running(t)
  /\ pc[t] = "body"
  /\ thread_yield
  /\ UNCHANGED <<semaVars, pc, child, all_list, waitsFor>>

Exit(t) ==
  /\ Running(t)
  /\ pc[t] = "body"
  /\ all_list' = all_list \ {t}
  /\ thread_die
  /\ Goto(t, "none")
  /\ UNCHANGED <<semaVars, child, waitsFor>>

----------------------------------------------------------------------------
(* Interrupts.  The idle thread's hlt ends when one arrives. *)

WakeIdle == pc' = [pc EXCEPT ![cur] = IF @ = "idle_hlt" THEN "idle_block" ELSE @]

Timer ==
  /\ thread_tick
  /\ WakeIdle
  /\ UNCHANGED <<semaVars, child, all_list, waitsFor>>

\* A device's handler ups a semaphore (serial, keyboard, disk).
Device(s) ==
  /\ ~panic
  /\ intr = "ON"
  /\ sema_up(s)
  /\ WakeIdle
  /\ UNCHANGED <<child, all_list, waitsFor>>

----------------------------------------------------------------------------

Resumes == Resume /\ UNCHANGED <<semaVars, pc, child, all_list, waitsFor>>

\* The steps a thread takes by itself once it is running.
KernelStep(t) ==
  \/ CreateInit(t, "idle_init") \/ CreateUnblock(t) \/ StartEnable(t)
  \/ IdleInit(t) \/ IdleUp(t) \/ IdleBlock(t) \/ IdleHalt(t)
  \/ DownPass(t) \/ DownSleep(t)

\* The calls a thread's function chooses to make.
BodyStep(t) ==
  \/ CreateInit(t, "body") \/ Yield(t) \/ Exit(t)
  \/ \E s \in Event : CallDown(t, s) \/ TryDown(t, s) \/ Up(t, s)

Next ==
  \/ \E t \in Thread : KernelStep(t) \/ BodyStep(t)
  \/ Resumes
  \/ Timer
  \/ \E s \in Event : Device(s)

Spec == Init /\ [][Next]_vars
----------------------------------------------------------------------------
(* Properties *)

\* Threads woken from s that have not made their next pass of sema_down().
Woken(s) == {t \in Thread : waitsFor[t] = s /\ t \notin Range(waiters[s])}

\* No wake-up is lost: while threads sleep on s, every unit of its value has
\* a thread that was woken for it and is on its way to take it.
NoLostWakeup ==
  \A s \in Sema : waiters[s] # <<>> => value[s] <= Cardinality(Woken(s))

\* A blocked thread is accounted for: it sleeps on a semaphore, is being
\* created, or is the idle thread, which the scheduler runs without a wake-up.
BlockedAccounted ==
  \A t \in Thread : status[t] = "BLOCKED" =>
    \/ \E s \in Sema : t \in Range(waiters[s])
    \/ \E c \in Thread : child[c] = t
    \/ t = idle_thread

\* The list of all threads holds the threads that have a page, except for
\* one that is dying.
AllList == all_list = {t \in Thread : status[t] \notin {"FREE", "DYING"}}

\* Threads are accounted for: the current one and no other runs, a blocked
\* one has somebody to wake it, and exactly those that live are on all_list,
\* so that a dead thread's page can be given to the next.
Accounted == TypeOK /\ OneRunning /\ BlockedAccounted /\ AllList

\* Where each thread is agrees with what the lists say of it.
PcStatus == \A t \in Thread : pc[t] = "none" <=> status[t] \in {"FREE", "DYING"}

PcWaits ==
  \A t \in Thread :
    /\ pc[t] = "down" <=> waitsFor[t] # NULL
    /\ \A s \in Sema : t \in Range(waiters[s]) => waitsFor[t] = s

PcChild ==
  \A t \in Thread :
    /\ pc[t] = "create" <=> child[t] # NULL
    /\ child[t] # NULL => /\ status[child[t]] = "BLOCKED"
                          /\ pc[child[t]] \in {"idle_init", "body"}
                          /\ \A u \in Thread : child[u] = child[t] => u = t

PcIdle ==
  \A t \in Thread :
    t = idle_thread <=> pc[t] \in {"idle_up", "idle_block", "idle_sti", "idle_hlt"}

\* Until idle() has run, either the initial thread is still creating it with
\* interrupts off, or it is waiting for the CPU or has it.
BootInv ==
  /\ \A t \in Thread : pc[t] = "boot" =>
       t = initial_thread /\ idle_thread = NULL /\ \A u \in Thread : pc[u] # "idle_init"
  /\ \A t, u \in Thread : pc[t] = "idle_init" =>
       idle_thread = NULL /\ (pc[u] = "idle_init" => u = t)
  /\ idle_thread = NULL =>
       \/ /\ intr = "OFF" /\ cur \notin resuming
          /\ \/ pc[cur] = "boot"
             \/ pc[cur] = "create" /\ pc[child[cur]] = "idle_init"
       \/ \E i \in Thread : pc[i] = "idle_init" /\ status[i] \in {"READY", "RUNNING"}

\* The inductive invariant.
IInv == /\ TypeOK /\ cur \in Thread /\ NoPanic /\ ElemExclusive /\ OneRunning /\ IdleAlive
        /\ PcStatus /\ PcWaits /\ PcChild /\ PcIdle /\ BootInv

\* Every thread of the run queue keeps its place, moves up by one, or was the
\* first and has the CPU now.
InOrder ==
  \A i \in 1 .. Len(ready_list) :
    \/ i <= Len(ready_list') /\ ready_list'[i] = ready_list[i]
    \/ i > 1 /\ i - 1 <= Len(ready_list') /\ ready_list'[i - 1] = ready_list[i]
    \/ i = 1 /\ cur' = ready_list[1]

\* Round robin: a step moves no thread back in the run queue and lets no
\* thread pass another; only the front of the queue leaves it, to run.
RoundRobin == [][InOrder]_vars

----------------------------------------------------------------------------
(* The threads implement the semaphores of the abstract specification.     *)

Abstract == INSTANCE Semaphore

\* sema_down(), sema_try_down() and sema_up(), preempted anywhere outside
\* their sections with interrupts off, do to value and wait list what the
\* semaphores of Semaphore.tla do: no step of the scheduler, of thread
\* creation or exit, or of an interrupt shows.
ImplementsSemaphore == Abstract!SemaphoreSpec
=============================================================================
