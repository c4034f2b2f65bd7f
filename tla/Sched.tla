------------------------------- MODULE Sched -------------------------------
(***************************************************************************)
(* The scheduler of threads/thread.c: the run queue, the status of every   *)
(* thread, the running thread and the interrupt level of the (single) CPU, *)
(* with one operator for each function that switches threads.  The modules *)
(* that extend this one build their actions from these operators.          *)
(*                                                                         *)
(* A thread is identified with the page that holds its struct thread.      *)
(* Code that runs with interrupts off is one atomic step; the timer may    *)
(* preempt between any two steps at which interrupts are on.               *)
(***************************************************************************)
EXTENDS Naturals, Sequences, Functions

CONSTANTS Thread,          \* the pages that can hold a struct thread
          NULL,            \* the null pointer
          initial_thread,  \* the thread that runs init.c:main()
          TIME_SLICE       \* timer ticks given to a thread

ASSUME SchedAssumption ==
  /\ NULL \notin Thread
  /\ initial_thread \in Thread
  /\ TIME_SLICE \in Nat \ {0}

VARIABLES
  status,        \* status[t]: enum thread_status, or "FREE" for a free page
  ready_list,    \* the run queue, front first
  cur,           \* the running thread
  idle_thread,   \* NULL until idle() has run for the first time
  intr,          \* the CPU's interrupt level
  resuming,      \* threads whose next step is to turn interrupts back on
  thread_ticks,  \* timer ticks since the running thread was switched to
  panic          \* an ASSERT failed

schedVars == <<status, ready_list, cur, idle_thread, intr, resuming,
               thread_ticks, panic>>

Status == {"RUNNING", "READY", "BLOCKED", "DYING", "FREE"}

SchedTypeOK ==
  /\ status \in [Thread -> Status]
  /\ ready_list \in Seq(Thread)
  /\ cur \in Thread \cup {NULL}
  /\ idle_thread \in Thread \cup {NULL}
  /\ intr \in {"ON", "OFF"}
  /\ resuming \in SUBSET Thread
  /\ thread_ticks \in 0 .. TIME_SLICE - 1
  /\ panic \in BOOLEAN

\* thread_init(): main() becomes the first thread; interrupts are still off.
thread_init ==
  /\ status = [t \in Thread |-> IF t = initial_thread THEN "RUNNING" ELSE "FREE"]
  /\ ready_list = <<>>
  /\ cur = initial_thread
  /\ idle_thread = NULL
  /\ intr = "OFF"
  /\ resuming = {}
  /\ thread_ticks = 0
  /\ panic = FALSE

----------------------------------------------------------------------------

next_thread_to_run(queue) == IF queue = <<>> THEN idle_thread ELSE Head(queue)

\* The page of a dying thread is freed by the thread that runs next, except
\* for the initial thread's, which did not come from palloc.
thread_schedule_tail(statuses, next) ==
  /\ status' = [t \in Thread |->
                  IF t = next THEN "RUNNING"
                  ELSE IF t = cur /\ statuses[t] = "DYING" /\ t # initial_thread
                       THEN "FREE" ELSE statuses[t]]
  /\ thread_ticks' = 0

\* schedule(), entered with interrupts off after the status of the running
\* thread and the run queue have become statuses and queue.
schedule(statuses, queue) ==
  LET next == next_thread_to_run(queue)
  IN  /\ panic' = (next = NULL \/ statuses[next] = "FREE")  \* ASSERT is_thread
      /\ ready_list' = IF queue = <<>> THEN queue ELSE Tail(queue)
      /\ cur' = next
      /\ thread_schedule_tail(statuses, next)
      /\ intr' = "OFF"
      /\ UNCHANGED idle_thread

thread_block ==
  /\ schedule([status EXCEPT ![cur] = "BLOCKED"], ready_list)
  /\ UNCHANGED resuming

\* Mutant: the thread is put at the front of the run queue.
MutUnblockFront(t) ==
  /\ panic' = (status[t] # "BLOCKED")
  /\ ready_list' = <<t>> \o ready_list
  /\ status' = [status EXCEPT ![t] = "READY"]
  /\ UNCHANGED <<cur, idle_thread, intr, resuming, thread_ticks>>

thread_unblock(t) ==
  /\ panic' = (status[t] # "BLOCKED")  \* ASSERT (t->status == THREAD_BLOCKED)
  /\ ready_list' = Append(ready_list, t)
  /\ status' = [status EXCEPT ![t] = "READY"]
  /\ UNCHANGED <<cur, idle_thread, intr, resuming, thread_ticks>>

\* Mutants: the idle thread is queued like any other; the yielding thread is
\* put at the front of the run queue.
MutYieldIdle ==
  /\ schedule([status EXCEPT ![cur] = "READY"], Append(ready_list, cur))
  /\ resuming' = resuming \cup {cur}

MutYieldFront ==
  /\ schedule([status EXCEPT ![cur] = "READY"],
              IF cur # idle_thread THEN <<cur>> \o ready_list ELSE ready_list)
  /\ resuming' = resuming \cup {cur}

\* The idle thread is never put on the run queue.
thread_yield ==
  /\ schedule([status EXCEPT ![cur] = "READY"],
              IF cur # idle_thread THEN Append(ready_list, cur) ELSE ready_list)
  /\ resuming' = resuming \cup {cur}

\* The end of thread_exit(), from intr_disable() on.
thread_die ==
  /\ schedule([status EXCEPT ![cur] = "DYING"], ready_list)
  /\ UNCHANGED resuming

\* A thread that is switched to after thread_yield(), or for the first time
\* (kernel_thread()), turns interrupts back on before anything else.
Resume ==
  /\ ~panic
  /\ cur \in resuming
  /\ resuming' = resuming \ {cur}
  /\ intr' = "ON"
  /\ UNCHANGED <<status, ready_list, cur, idle_thread, thread_ticks, panic>>

\* The timer interrupt: thread_tick(), then thread_yield() on return from
\* the handler when the time slice is used up.
thread_tick ==
  /\ ~panic
  /\ intr = "ON"
  /\ \/ /\ thread_ticks + 1 >= TIME_SLICE
        /\ thread_yield
     \/ /\ thread_ticks + 1 < TIME_SLICE
        /\ thread_ticks' = thread_ticks + 1
        /\ UNCHANGED <<status, ready_list, cur, idle_thread, intr, resuming, panic>>

\* The running thread may take a step of its own: no assertion has failed
\* and it is not on its way out of thread_yield().
Running(t) == ~panic /\ cur = t /\ t \notin resuming

----------------------------------------------------------------------------
(* Properties of every specification built from these operators. *)

\* The assertions of schedule() and thread_unblock() never fail: there is
\* always a live thread to switch to, and only blocked threads are woken.
NoPanic == ~panic

\* Exactly one thread has status THREAD_RUNNING, and it is the one on the CPU
\* (the assertion of thread_current()).
OneRunning == \A t \in Thread : status[t] = "RUNNING" <=> t = cur

\* The run queue holds exactly the ready threads, each once; the idle thread
\* never appears on it (the comments at thread.c:27-28 and 450-456).
RunQueue ==
  /\ IsInjective(ready_list)
  /\ \A t \in Thread :
       t \in Range(ready_list) <=> status[t] = "READY" /\ t # idle_thread

\* The idle thread, once known, is never destroyed.
IdleAlive == idle_thread # NULL => status[idle_thread] \notin {"FREE", "DYING"}
=============================================================================
