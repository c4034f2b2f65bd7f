------------------------------- MODULE MCLive -------------------------------
(***************************************************************************)
(* What eventually happens, on small instances of the parts that promise   *)
(* something.  Each behaviour is about one of them: part says which.  The  *)
(* variables of that part are the first of v1, v2, ...; the others are 0.  *)
(***************************************************************************)
EXTENDS Integers, Sequences, FiniteSets

CONSTANTS main, idle, t1, t2, idle_started, ev, l1, c1, c2, NULL

VARIABLES part, v1, v2, v3, v4, v5, v6, v7, v8, v9, v10, v11, v12, v13, v14,
          v15, v16, v17, v18

vars == <<part, v1, v2, v3, v4, v5, v6, v7, v8, v9, v10, v11, v12, v13, v14,
          v15, v16, v17, v18>>

\* The variables after the first n, where only n are used.
Rest6 == <<v7, v8, v9, v10, v11, v12, v13, v14, v15, v16, v17, v18>>
Rest8 == <<v9, v10, v11, v12, v13, v14, v15, v16, v17, v18>>
Rest9 == <<v10, v11, v12, v13, v14, v15, v16, v17, v18>>
Rest14 == <<v15, v16, v17, v18>>
Rest15 == <<v16, v17, v18>>

Idle15 == v16 = 0 /\ v17 = 0 /\ v18 = 0
Idle14 == v15 = 0 /\ Idle15
Idle9 == v10 = 0 /\ v11 = 0 /\ v12 = 0 /\ v13 = 0 /\ v14 = 0 /\ Idle14
Idle8 == v9 = 0 /\ Idle9
Idle6 == v7 = 0 /\ v8 = 0 /\ Idle8

-----------------------------------------------------------------------------
T == INSTANCE Threads WITH Thread <- {main, idle, t1, t2}, initial_thread <- main,
       TIME_SLICE <- 2, Sema <- {idle_started, ev}, MaxValue <- 1,
       status <- v1, ready_list <- v2, cur <- v3, idle_thread <- v4, intr <- v5,
       resuming <- v6, thread_ticks <- v7, panic <- v8, value <- v9, waiters <- v10,
       pc <- v11, child <- v12, all_list <- v13, waitsFor <- v14

(* One lock with two condition variables.                                  *)
lockOf == [c \in {c1, c2} |-> l1]

Y == INSTANCE Synch WITH Thread <- {main, t1, t2}, Lock <- {l1}, Cond <- {c1, c2},
       Sema <- {l1, main, t1, t2}, MaxValue <- 2,
       value <- v1, waiters <- v2, waitsFor <- v3, holder <- v4, cwaiters <- v5, pc <- v6,
       lock <- v7, cond <- v8, signalee <- v9

S == INSTANCE Serial WITH Writer <- {t1}, Reader <- {t2}, INTQ_BUFSIZE <- 3, MaxOut <- 4,
       MaxIn <- 2, mode <- v1, txq <- v2, buffer <- v3, lock <- v4, waiter <- v5, sleepers <- v6,
       pc <- v7, ier <- v8, thr <- v9, rbr <- v10, put <- v11, wire <- v12, come <- v13,
       got <- v14, panic <- v15

D == INSTANCE Ide WITH Thread <- {t1, t2}, Sector <- {1}, Value <- {0}, Blank <- 0,
       Kinds <- {"none", "faulty"},
       boot <- v1, is_ata <- v2, registered <- v3, lock <- v4, expecting_interrupt <- v5,
       completion_wait <- v6, pc <- v7, op <- v8, result <- v9, regs <- v10, cmd <- v11,
       phase <- v12, data <- v13, irq <- v14, kind <- v15, contents <- v16, clash <- v17,
       panicked <- v18

C == INSTANCE Console WITH Thread <- {t1, t2}, MaxChars <- 1, MaxNest <- 1, MaxLevel <- 3,
       use_console_lock <- v1, holder <- v2, console_lock_depth <- v3, calls <- v4, level <- v5,
       panicked <- v6, halted <- v7, failed <- v8

Z == INSTANCE Sleep WITH Thread <- {t1, t2}, LOW <- 3, Wants <- {1, 3}, MaxTicks <- 5,
       low <- v1, high <- v2, pc <- v3, want <- v4, start <- v5, called <- v6

P == INSTANCE Palloc WITH Thread <- {t1, t2}, free_pages <- 4, user_page_limit <- 1, MaxCnt <- 1,
       used <- v1, lock <- v2, pc <- v3, req <- v4, pg <- v5, k <- v6, owned <- v7,
       content <- v8, expect <- v9

-----------------------------------------------------------------------------
Init ==
  \/ part = "threads" /\ T!Init /\ Idle14
  \/ part = "synch" /\ Y!Init /\ Idle9
  \/ part = "serial" /\ S!Init /\ Idle15
  \/ part = "ide" /\ D!Init
  \/ part = "console" /\ C!Init /\ Idle8
  \/ part = "sleep" /\ Z!Init /\ Idle6
  \/ part = "palloc" /\ P!Init /\ Idle9

Next ==
  /\ UNCHANGED part
  /\ \/ part = "threads" /\ T!Next /\ UNCHANGED Rest14
     \/ part = "synch" /\ Y!Next /\ UNCHANGED Rest9
     \/ part = "serial" /\ S!Next /\ UNCHANGED Rest15
     \/ part = "ide" /\ D!Next
     \/ part = "console" /\ C!Next /\ UNCHANGED Rest8
     \/ part = "sleep" /\ Z!Next /\ UNCHANGED Rest6
     \/ part = "palloc" /\ P!Next /\ UNCHANGED Rest9

\* The n-th thread of a part.
Thr(n) == <<t1, t2, main>>[n]

\* The n-th of the steps that a part is weakly fair to.  Since a behaviour is
\* about one part, fairness to the disjunction is fairness to that part's.
\* threads: the timer keeps ticking.  The other parts: a ready thread runs
\* (NoStarvation), so one that can go on inside a function does; the port
\* sends what it was given, the disk answers, and what they raise interrupts
\* for is handled.  No thread is obliged to make a call, no program to end, no
\* key to be pressed, no disk to work without fault.
Fair(n) ==
  /\ UNCHANGED part
  /\ \/ part = "threads" /\ UNCHANGED Rest14 /\ ((n = 1 /\ T!Resumes) \/ (n = 2 /\ T!Timer))
     \/ part = "synch" /\ UNCHANGED Rest9 /\ n \in 1 .. 3 /\ Y!Continue(Thr(n))
     \/ /\ part = "serial" /\ UNCHANGED Rest15
        /\ \/ n \in 1 .. 2 /\ S!Step(Thr(n))
           \/ n = 3 /\ S!Transmit
           \/ n = 4 /\ S!serial_interrupt
     \/ /\ part = "ide" /\ ~v18
        /\ \/ n \in 1 .. 2 /\ D!Step(Thr(n))
           \/ n = 3 /\ D!Boot
           \/ n = 4 /\ D!DiskWorks
           \/ n = 5 /\ D!interrupt_handler
     \/ part = "console" /\ UNCHANGED Rest8 /\ n \in 1 .. 2 /\ C!Step(Thr(n))
     \/ /\ part = "sleep" /\ UNCHANGED Rest6
        /\ \/ n \in 1 .. 2 /\ (Z!ReadStart(Thr(n)) \/ Z!Return(Thr(n)))
           \/ n = 3 /\ Z!timer_interrupt
     \/ part = "palloc" /\ UNCHANGED Rest9 /\ n \in 1 .. 2 /\ P!Step(Thr(n))

\* A time slice is long enough for the running thread to make progress: one
\* that runs again and again takes its next step.
Fairness ==
  /\ \A n \in 1 .. 5 : WF_vars(Fair(n))
  /\ \A t \in {main, idle, t1, t2} :
       SF_vars(part = "threads" /\ T!KernelStep(t) /\ UNCHANGED <<part, Rest14>>)

Spec == Init /\ [][Next]_vars /\ Fairness

-----------------------------------------------------------------------------
(* Nothing tells threads apart but initial_thread, so that t1 stands for   *)
(* any other one.                                                          *)

(* Every thread on the run queue eventually runs.  thread_start() returns: *)
(* the initial thread gets past its wait for the idle thread to            *)
(* initialize.  And timer_sleep() returns.                                 *)
WaitersRun ==
  /\ \A t \in {main, t1} :
       (part = "threads" /\ v1[t] = "READY" /\ t # v4) ~> (part = "threads" => v1[t] = "RUNNING")
  /\ <>(part = "threads" => v11[main] = "body")
  /\ (part = "sleep" /\ v3[t1] # "idle") ~> (part = "sleep" => v3[t1] = "idle")

(* A free lock that threads sleep for does not stay free, and a thread     *)
(* that was signalled gets out of its cond_wait().  The scan of a pool of  *)
(* pages ends and its lock is free again, whatever bits other threads      *)
(* clear behind its back.                                                  *)
LocksHandedOn ==
  /\ (part = "synch" /\ v1[l1] = 1 /\ v2[l1] # <<>>) ~> (part = "synch" => v1[l1] = 0)
  /\ (part = "synch" /\ v6[t1] = "wait" /\ Y!Signalled(t1)) ~> (part = "synch" => v6[t1] = "acquire")
  /\ (part = "palloc" /\ v2["kernel"] # NULL) ~> (part = "palloc" => v2["kernel"] = NULL)

(* Again and again all bytes given to serial_putc() have been sent, and a  *)
(* thread that waits to put one gets on.  The thread that has the channel  *)
(* of a disk gives it back, or the kernel panics, although commands fail.  *)
DevicesAnswer ==
  /\ []<>(part = "serial" => Len(v12) = v11)
  /\ (part = "serial" /\ v7[t1] = "wait") ~> (part = "serial" => v7[t1] # "wait")
  /\ (part = "ide" /\ v4 = t1) ~> (part = "ide" => v4 # t1 \/ v18)

(* A kernel that panics halts, whoever holds the lock of the console, and  *)
(* whatever fails while it reports the panic.                              *)
PanicHalts == (part = "console" /\ v6 # NULL) ~> (part = "console" => v7)
=============================================================================
