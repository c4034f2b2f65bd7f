--------------------------- MODULE ThreadsProofs ---------------------------
(***************************************************************************)
(* Proofs about Threads, for any number of threads and semaphores: IInv is *)
(* an inductive invariant, so no assertion of the scheduler fails and the  *)
(* dual use of a thread's list element is exclusive.  On top of it, no     *)
(* wake-up is lost, every thread is accounted for, and the run queue is    *)
(* served in order.                                                        *)
(***************************************************************************)
EXTENDS Threads, SeqLemmas, FiniteSetTheorems

\* Time limits of the provers.
USE SMTT(10), ZenonT(20)

----------------------------------------------------------------------------
(* Steps of the scheduler and of thread creation: what they do to the parts *)
(* of the invariant.                                                        *)

\* schedule() finds a live thread, leaves exactly it running, and keeps the
\* run queue equal to the set of ready threads, provided the caller took the
\* running thread off the CPU consistently (thread.c:620-641).
LEMMA ScheduleStep ==
  ASSUME SchedTypeOK, cur \in Thread, OneRunning, IdleAlive,
         NEW ss \in [Thread -> Status], NEW q \in Seq(Thread),
         \A t \in Thread : t # cur => ss[t] = status[t],
         ss[cur] # "RUNNING",
         cur = idle_thread => ss[cur] \notin {"FREE", "DYING"},
         IsInjective(q),
         \A t \in Thread : t \in Range(q) <=> ss[t] = "READY" /\ t # idle_thread,
         q = <<>> => idle_thread # NULL,
         schedule(ss, q)
  PROVE  /\ cur' \in Thread
         /\ panic' = FALSE
         /\ idle_thread' = idle_thread
         /\ intr' = "OFF"
         /\ thread_ticks' = 0
         /\ status' \in [Thread -> Status]
         /\ ready_list' \in Seq(Thread)
         /\ \A t \in Thread :
              status'[t] = IF t = cur' THEN "RUNNING"
                           ELSE IF t = cur /\ ss[t] = "DYING" /\ t # initial_thread
                                THEN "FREE" ELSE ss[t]
         /\ ss[cur'] = "READY" \/ cur' = idle_thread
         /\ OneRunning' /\ RunQueue' /\ IdleAlive'
<1> DEFINE next == next_thread_to_run(q)
<1>1. /\ panic' = (next = NULL \/ ss[next] = "FREE")
      /\ ready_list' = IF q = <<>> THEN q ELSE Tail(q)
      /\ cur' = next
      /\ intr' = "OFF" /\ thread_ticks' = 0 /\ idle_thread' = idle_thread
      /\ status' = [t \in Thread |->
                     IF t = next THEN "RUNNING"
                     ELSE IF t = cur /\ ss[t] = "DYING" /\ t # initial_thread
                          THEN "FREE" ELSE ss[t]]
  BY Zenon DEF schedule, thread_schedule_tail
<1> HIDE DEF next
<1>2. /\ next \in Thread
      /\ ss[next] \notin {"FREE", "DYING"}
      /\ ss[next] = "READY" \/ next = idle_thread
  <2>1. CASE q = <<>>
    BY Zenon, <2>1 DEF next, next_thread_to_run, IdleAlive, SchedTypeOK
  <2>2. CASE q # <<>>
    <3>1. next = Head(q)
      BY Zenon, <2>2 DEF next, next_thread_to_run
    <3> QED BY Zenon, <2>2, <3>1, TailRange
  <2> QED BY Zenon, <2>1, <2>2
<1>3. panic' = FALSE
  BY Zenon, <1>1, <1>2, SchedAssumption
<1>4. \A t \in Thread :
        status'[t] = IF t = cur' THEN "RUNNING"
                     ELSE IF t = cur /\ ss[t] = "DYING" /\ t # initial_thread
                          THEN "FREE" ELSE ss[t]
  BY Zenon, <1>1
<1>5. status' \in [Thread -> Status]
  BY Zenon, <1>1 DEF Status
<1>6. OneRunning'
  BY Zenon, <1>1, <1>2, <1>4 DEF OneRunning
<1>7. ready_list' \in Seq(Thread) /\ RunQueue'
  <2>1. CASE q = <<>>
    <3>1. ready_list' = <<>> /\ next = idle_thread
      BY Zenon, <1>1, <2>1 DEF next, next_thread_to_run
    <3>2. \A t \in Thread : ~(ss[t] = "READY" /\ t # idle_thread)
      BY Zenon, <2>1, EmptyRange
    <3>3. ready_list' \in Seq(Thread) /\ Range(ready_list') = {} /\ IsInjective(ready_list')
      <4>1. ready_list' \in Seq(Thread)
        BY <3>1
      <4> QED BY Zenon, <3>1, <4>1, EmptyRange
    <3>4. ASSUME NEW t \in Thread
          PROVE  t \in Range(ready_list') <=> status'[t] = "READY" /\ t # idle_thread
      BY Zenon, <1>1, <1>4, <3>2, <3>3
    <3> QED BY Zenon, <1>1, <3>3, <3>4 DEF RunQueue
  <2>2. CASE q # <<>>
    <3>1. /\ ready_list' = Tail(q) /\ next = Head(q)
          /\ ready_list' \in Seq(Thread)
          /\ IsInjective(ready_list')
          /\ Range(ready_list') = Range(q) \ {next}
      BY Zenon, <1>1, <2>2, TailRange DEF next, next_thread_to_run
    <3>2. ASSUME NEW t \in Thread
          PROVE  t \in Range(ready_list') <=> status'[t] = "READY" /\ t # idle_thread
      BY Zenon, <1>1, <1>4, <3>1
    <3> QED BY Zenon, <1>1, <3>1, <3>2 DEF RunQueue
  <2> QED BY Zenon, <2>1, <2>2
<1>8. IdleAlive'
  BY Zenon, <1>1, <1>2, <1>4 DEF IdleAlive, SchedTypeOK
<1> QED BY Zenon, <1>1, <1>2, <1>3, <1>4, <1>5, <1>6, <1>7, <1>8

\* What every step keeps true of the scheduler.
SchedOK == /\ SchedTypeOK /\ cur \in Thread /\ NoPanic
           /\ OneRunning /\ RunQueue /\ IdleAlive

\* thread_block() (thread.c:275-286).
LEMMA BlockStep ==
  ASSUME SchedOK, ready_list = <<>> => idle_thread # NULL, thread_block
  PROVE  /\ SchedOK' /\ idle_thread' = idle_thread /\ intr' = "OFF"
         /\ \A t \in Thread :
              status'[t] = IF t = cur' THEN "RUNNING"
                           ELSE IF t = cur THEN "BLOCKED" ELSE status[t]
         /\ cur' = idle_thread \/ (cur' # cur /\ status[cur'] = "READY")
<1> USE DEF SchedOK
<1> DEFINE ss == [status EXCEPT ![cur] = "BLOCKED"]
<1>1. /\ ss \in [Thread -> Status]
      /\ ss[cur] = "BLOCKED"
      /\ \A t \in Thread : t # cur => ss[t] = status[t]
  BY Zenon DEF SchedTypeOK, Status
<1>2. status[cur] = "RUNNING"
  BY Zenon DEF OneRunning
<1>3. /\ schedule(ss, ready_list) /\ resuming' = resuming
      /\ ready_list \in Seq(Thread)
  BY Zenon DEF thread_block, SchedTypeOK
<1> HIDE DEF ss
<1>4. \A t \in Thread : t \in Range(ready_list) <=> ss[t] = "READY" /\ t # idle_thread
  BY Zenon, <1>1, <1>2 DEF RunQueue
<1>5. /\ cur' \in Thread
      /\ panic' = FALSE
      /\ idle_thread' = idle_thread
      /\ intr' = "OFF"
      /\ thread_ticks' = 0
      /\ status' \in [Thread -> Status]
      /\ ready_list' \in Seq(Thread)
      /\ \A t \in Thread :
           status'[t] = IF t = cur' THEN "RUNNING"
                        ELSE IF t = cur /\ ss[t] = "DYING" /\ t # initial_thread
                             THEN "FREE" ELSE ss[t]
      /\ ss[cur'] = "READY" \/ cur' = idle_thread
      /\ OneRunning' /\ RunQueue' /\ IdleAlive'
  BY Zenon, <1>1, <1>3, <1>4, ScheduleStep DEF RunQueue
<1>6. SchedTypeOK'
  <2>1. thread_ticks' \in 0 .. TIME_SLICE - 1
    BY <1>5, SchedAssumption
  <2>2. resuming' \in SUBSET Thread
    BY Zenon, <1>3 DEF SchedTypeOK
  <2>3. intr' \in {"ON", "OFF"} /\ panic' \in BOOLEAN
    BY Zenon, <1>5
  <2>4. idle_thread' \in Thread \cup {NULL} /\ cur' \in Thread \cup {NULL}
    BY Zenon, <1>5 DEF SchedTypeOK
  <2> QED BY Zenon, <1>5, <2>1, <2>2, <2>3, <2>4 DEF SchedTypeOK
<1> QED BY Zenon, <1>1, <1>5, <1>6 DEF NoPanic

\* thread_yield() (thread.c:370-384).
LEMMA YieldStep ==
  ASSUME SchedOK, thread_yield
  PROVE  /\ SchedOK' /\ idle_thread' = idle_thread /\ intr' = "OFF"
         /\ \A t \in Thread :
              status'[t] = IF t = cur' THEN "RUNNING"
                           ELSE IF t = cur THEN "READY" ELSE status[t]
         /\ cur' = idle_thread \/ cur' = cur \/ status[cur'] = "READY"
<1> USE DEF SchedOK
<1> DEFINE ss == [status EXCEPT ![cur] = "READY"]
           q == IF cur # idle_thread THEN Append(ready_list, cur) ELSE ready_list
<1>1. /\ ss \in [Thread -> Status]
      /\ ss[cur] = "READY"
      /\ \A t \in Thread : t # cur => ss[t] = status[t]
  BY Zenon DEF SchedTypeOK, Status
<1>2. status[cur] = "RUNNING"
  BY Zenon DEF OneRunning
<1>3. /\ schedule(ss, q) /\ resuming' = resuming \cup {cur}
  BY Zenon DEF thread_yield
<1>4. /\ q \in Seq(Thread)
      /\ q = <<>> => idle_thread # NULL
      /\ IsInjective(q)
      /\ Range(q) = IF cur # idle_thread THEN Range(ready_list) \cup {cur}
                                         ELSE Range(ready_list)
  <2>1. ready_list \in Seq(Thread) /\ IsInjective(ready_list) /\ cur \notin Range(ready_list)
    BY Zenon, <1>2 DEF SchedTypeOK, RunQueue
  <2>2. CASE cur # idle_thread
    BY <2>1, <2>2, AppendRange
  <2>3. CASE cur = idle_thread
    BY Zenon, <2>1, <2>3, SchedAssumption
  <2> QED BY Zenon, <2>2, <2>3
<1> HIDE DEF ss, q
<1>5. \A t \in Thread : t \in Range(q) <=> ss[t] = "READY" /\ t # idle_thread
  BY Zenon, <1>1, <1>2, <1>4 DEF RunQueue
<1>6. /\ cur' \in Thread
      /\ panic' = FALSE
      /\ idle_thread' = idle_thread
      /\ intr' = "OFF"
      /\ thread_ticks' = 0
      /\ status' \in [Thread -> Status]
      /\ ready_list' \in Seq(Thread)
      /\ \A t \in Thread :
           status'[t] = IF t = cur' THEN "RUNNING"
                        ELSE IF t = cur /\ ss[t] = "DYING" /\ t # initial_thread
                             THEN "FREE" ELSE ss[t]
      /\ ss[cur'] = "READY" \/ cur' = idle_thread
      /\ OneRunning' /\ RunQueue' /\ IdleAlive'
  BY Zenon, <1>1, <1>3, <1>4, <1>5, ScheduleStep
<1>7. SchedTypeOK'
  <2>1. thread_ticks' \in 0 .. TIME_SLICE - 1
    BY <1>6, SchedAssumption
  <2>2. resuming' \in SUBSET Thread
    BY Zenon, <1>3 DEF SchedTypeOK
  <2>3. intr' \in {"ON", "OFF"} /\ panic' \in BOOLEAN
    BY Zenon, <1>6
  <2>4. idle_thread' \in Thread \cup {NULL} /\ cur' \in Thread \cup {NULL}
    BY Zenon, <1>6 DEF SchedTypeOK
  <2> QED BY Zenon, <1>6, <2>1, <2>2, <2>3, <2>4 DEF SchedTypeOK
<1> QED BY Zenon, <1>1, <1>6, <1>7 DEF NoPanic

\* The end of thread_exit() (thread.c:361-364), not called by the idle thread.
LEMMA DieStep ==
  ASSUME SchedOK, cur # idle_thread, ready_list = <<>> => idle_thread # NULL, thread_die
  PROVE  /\ SchedOK' /\ idle_thread' = idle_thread /\ intr' = "OFF"
         /\ \A t \in Thread :
              status'[t] = IF t = cur' THEN "RUNNING"
                           ELSE IF t = cur THEN IF t = initial_thread THEN "DYING" ELSE "FREE"
                           ELSE status[t]
         /\ cur' # cur
         /\ cur' = idle_thread \/ status[cur'] = "READY"
<1> USE DEF SchedOK
<1> DEFINE ss == [status EXCEPT ![cur] = "DYING"]
<1>1. /\ ss \in [Thread -> Status]
      /\ ss[cur] = "DYING"
      /\ \A t \in Thread : t # cur => ss[t] = status[t]
  BY Zenon DEF SchedTypeOK, Status
<1>2. status[cur] = "RUNNING"
  BY Zenon DEF OneRunning
<1>3. /\ schedule(ss, ready_list) /\ resuming' = resuming
      /\ ready_list \in Seq(Thread)
  BY Zenon DEF thread_die, SchedTypeOK
<1> HIDE DEF ss
<1>4. \A t \in Thread : t \in Range(ready_list) <=> ss[t] = "READY" /\ t # idle_thread
  BY Zenon, <1>1, <1>2 DEF RunQueue
<1>5. /\ cur' \in Thread
      /\ panic' = FALSE
      /\ idle_thread' = idle_thread
      /\ intr' = "OFF"
      /\ thread_ticks' = 0
      /\ status' \in [Thread -> Status]
      /\ ready_list' \in Seq(Thread)
      /\ \A t \in Thread :
           status'[t] = IF t = cur' THEN "RUNNING"
                        ELSE IF t = cur /\ ss[t] = "DYING" /\ t # initial_thread
                             THEN "FREE" ELSE ss[t]
      /\ ss[cur'] = "READY" \/ cur' = idle_thread
      /\ OneRunning' /\ RunQueue' /\ IdleAlive'
  BY Zenon, <1>1, <1>3, <1>4, ScheduleStep DEF RunQueue
<1>6. SchedTypeOK'
  <2>1. thread_ticks' \in 0 .. TIME_SLICE - 1
    BY <1>5, SchedAssumption
  <2>2. resuming' \in SUBSET Thread
    BY Zenon, <1>3 DEF SchedTypeOK
  <2>3. intr' \in {"ON", "OFF"} /\ panic' \in BOOLEAN
    BY Zenon, <1>5
  <2>4. idle_thread' \in Thread \cup {NULL} /\ cur' \in Thread \cup {NULL}
    BY Zenon, <1>5 DEF SchedTypeOK
  <2> QED BY Zenon, <1>5, <2>1, <2>2, <2>3, <2>4 DEF SchedTypeOK
<1> QED BY Zenon, <1>1, <1>5, <1>6 DEF NoPanic

\* thread_unblock() of a blocked thread (thread.c:296-308).
LEMMA UnblockStep ==
  ASSUME SchedOK, NEW u \in Thread, status[u] = "BLOCKED", u # idle_thread,
         thread_unblock(u)
  PROVE  /\ SchedOK'
         /\ UNCHANGED <<cur, idle_thread, intr, resuming, thread_ticks>>
         /\ \A t \in Thread : status'[t] = IF t = u THEN "READY" ELSE status[t]
<1> USE DEF SchedOK
<1>1. /\ panic' = FALSE
      /\ ready_list' = Append(ready_list, u)
      /\ status' = [status EXCEPT ![u] = "READY"]
      /\ UNCHANGED <<cur, idle_thread, intr, resuming, thread_ticks>>
  BY Zenon DEF thread_unblock
<1>2. \A t \in Thread : status'[t] = IF t = u THEN "READY" ELSE status[t]
  BY Zenon, <1>1 DEF SchedTypeOK
<1>3. /\ ready_list' \in Seq(Thread)
      /\ Range(ready_list') = Range(ready_list) \cup {u}
      /\ IsInjective(ready_list')
  BY <1>1, AppendRange DEF SchedTypeOK, RunQueue
<1>4. SchedTypeOK'
  BY Zenon, <1>1, <1>3 DEF SchedTypeOK, Status
<1>5. OneRunning' /\ IdleAlive' /\ NoPanic'
  BY Zenon, <1>1, <1>2 DEF OneRunning, IdleAlive, NoPanic, SchedTypeOK
<1>6. RunQueue'
  BY Zenon, <1>1, <1>2, <1>3 DEF RunQueue
<1> QED BY Zenon, <1>1, <1>2, <1>4, <1>5, <1>6

\* The timer interrupt (thread.c:126-144).
LEMMA TickStep ==
  ASSUME SchedOK, thread_tick
  PROVE  /\ SchedOK' /\ idle_thread' = idle_thread
         /\ \/ thread_yield
            \/ UNCHANGED <<status, ready_list, cur, intr, resuming>>
<1>1. CASE thread_yield
  BY Zenon, <1>1, YieldStep
<1>2. CASE thread_ticks + 1 < TIME_SLICE /\ ~thread_yield
  BY <1>2, SchedAssumption DEF thread_tick, SchedOK, SchedTypeOK, NoPanic, OneRunning,
     RunQueue, IdleAlive
<1> QED BY Zenon, <1>1, <1>2 DEF thread_tick

----------------------------------------------------------------------------
\* The members of a wait list are threads.
LEMMA RangeThread ==
  ASSUME TypeOK, NEW s \in Sema
  PROVE  waiters[s] \in Seq(Thread) /\ Range(waiters[s]) \subseteq Thread
BY DEF TypeOK, SemaTypeOK, Range

\* A thread past boot can be taken off the CPU: there is another one to run.
LEMMA CanSwitch ==
  ASSUME IInv, pc[cur] \notin {"boot", "create", "idle_init"}
  PROVE  ready_list = <<>> => idle_thread # NULL
<1> SUFFICES ASSUME ready_list = <<>>, idle_thread = NULL PROVE FALSE
  BY Zenon
<1>1. PICK i \in Thread : pc[i] = "idle_init" /\ status[i] \in {"READY", "RUNNING"}
  BY Zenon DEF IInv, BootInv
<1>2. i # cur /\ status[i] = "READY"
  BY Zenon, <1>1 DEF IInv, OneRunning
<1>3. i \in Range(ready_list)
  BY Zenon, <1>2, SchedAssumption DEF IInv, ElemExclusive, RunQueue
<1> QED BY Zenon, <1>3, EmptyRange DEF IInv, TypeOK, SchedTypeOK

\* The state after thread_init() satisfies the invariant.
LEMMA InitIInv == Init => IInv
<1> SUFFICES ASSUME Init PROVE IInv
  BY Zenon
<1> USE SchedAssumption, SemaAssumption, ThreadsAssumption
<1>1. TypeOK
  <2>1. SchedTypeOK
    <3>1. status \in [Thread -> Status]
      BY Zenon DEF Init, thread_init, Status
    <3>2. ready_list \in Seq(Thread) /\ thread_ticks \in 0 .. TIME_SLICE - 1
      BY DEF Init, thread_init
    <3>3. panic \in BOOLEAN /\ resuming \in SUBSET Thread /\ intr \in {"ON", "OFF"}
      BY Zenon DEF Init, thread_init
    <3> QED BY Zenon, <3>1, <3>2, <3>3 DEF Init, thread_init, SchedTypeOK
  <2>2. SemaTypeOK
    BY DEF Init, SemaTypeOK
  <2> QED BY Zenon, <2>1, <2>2 DEF Init, TypeOK, PC
<1>2. RunQueue /\ WaitLists
  BY EmptyRange DEF Init, thread_init, RunQueue, WaitLists, Range, IsInjective
<1>3. NoPanic /\ OneRunning /\ IdleAlive /\ cur \in Thread
  BY Zenon DEF Init, thread_init, NoPanic, OneRunning, IdleAlive
<1>4. PcStatus /\ PcWaits /\ PcChild /\ PcIdle
  BY DEF Init, thread_init, PcStatus, PcWaits, PcChild, PcIdle, Range
<1>5. BootInv
  BY Zenon DEF Init, thread_init, BootInv
<1> QED BY Zenon, <1>1, <1>2, <1>3, <1>4, <1>5 DEF IInv, ElemExclusive

----------------------------------------------------------------------------
(* The steps that put a new thread together. *)

\* thread_create() up to init_thread(): the new thread is blocked and on no
\* list, and only its creator knows it.
LEMMA CreateInitStep ==
  ASSUME IInv, NEW t \in Thread, NEW f \in {"idle_init", "body"}, CreateInit(t, f)
  PROVE  IInv'
<1> USE SchedAssumption, ThreadsAssumption
<1>1. PICK new \in Thread :
        /\ status[new] = "FREE"
        /\ status' = [status EXCEPT ![new] = "BLOCKED"]
        /\ all_list' = all_list \cup {new}
        /\ child' = [child EXCEPT ![t] = new]
        /\ pc' = [pc EXCEPT ![t] = "create", ![new] = f]
        /\ resuming' = resuming \cup {new}
  BY Zenon DEF CreateInit
<1>2. /\ UNCHANGED <<ready_list, cur, idle_thread, intr, thread_ticks, panic,
                     value, waiters, waitsFor>>
      /\ t = cur /\ pc[t] = IF f = "idle_init" THEN "boot" ELSE "body"
  BY Zenon DEF CreateInit, Running, semaVars
<1>3. /\ pc[new] = "none" /\ new # t /\ new # idle_thread
      /\ waitsFor[new] = NULL /\ child[new] = NULL /\ child[t] = NULL
      /\ \A s \in Sema : new \notin Range(waiters[s])
      /\ new \notin Range(ready_list)
      /\ \A u \in Thread : child[u] # new
  BY <1>1, <1>2 DEF IInv, PcStatus, PcWaits, PcChild, PcIdle, ElemExclusive, RunQueue, TypeOK
<1>4. /\ \A u \in Thread : status'[u] = IF u = new THEN "BLOCKED" ELSE status[u]
      /\ \A u \in Thread : child'[u] = IF u = t THEN new ELSE child[u]
      /\ \A u \in Thread : pc'[u] = IF u = new THEN f ELSE IF u = t THEN "create" ELSE pc[u]
  BY Zenon, <1>1, <1>3 DEF IInv, TypeOK, SchedTypeOK
<1>5. TypeOK'
  BY Zenon, <1>1, <1>2 DEF IInv, TypeOK, SchedTypeOK, SemaTypeOK, Status, PC
<1>6. NoPanic' /\ OneRunning' /\ IdleAlive' /\ cur' \in Thread
  BY <1>1, <1>2, <1>3, <1>4 DEF IInv, NoPanic, OneRunning, IdleAlive
<1>7. ElemExclusive'
  <2>1. RunQueue'
    BY Zenon, <1>2, <1>3, <1>4 DEF IInv, ElemExclusive, RunQueue
  <2>2. WaitLists'
    BY Zenon, <1>2, <1>3, <1>4, RangeThread DEF IInv, ElemExclusive, WaitLists
  <2> QED BY Zenon, <2>1, <2>2 DEF ElemExclusive
<1>8. PcStatus' /\ PcWaits' /\ PcIdle'
  BY <1>2, <1>3, <1>4 DEF IInv, PcStatus, PcWaits, PcIdle
<1>9. PcChild'
  BY <1>2, <1>3, <1>4 DEF IInv, PcChild, TypeOK, OneRunning
<1>10. BootInv'
  <2>0. cur' \notin resuming'
    BY <1>1, <1>2, <1>3 DEF CreateInit, Running
  <2>1. CASE f = "idle_init"
    <3>1. intr = "OFF" /\ idle_thread = NULL /\ t = initial_thread
      BY Zenon, <1>2, <2>1 DEF IInv, BootInv
    <3>2. \A u \in Thread : pc'[u] # "boot" /\ (pc'[u] = "idle_init" => u = new)
      BY <1>2, <1>4, <2>1 DEF IInv, BootInv
    <3>3. intr' = "OFF" /\ pc'[cur'] = "create" /\ pc'[child'[cur']] = "idle_init"
      BY <1>2, <1>3, <1>4, <2>1, <3>1
    <3> QED BY Zenon, <1>2, <3>1, <3>2, <3>3, <2>0 DEF BootInv
  <2>2. CASE f = "body"
    <3>1. /\ \A u \in Thread : pc'[u] \in {"boot", "idle_init"} <=> pc[u] \in {"boot", "idle_init"}
          /\ \A u \in Thread : pc[u] \in {"boot", "idle_init"} => pc'[u] = pc[u] /\ status'[u] = status[u]
      BY Zenon, <1>2, <1>3, <1>4, <2>2
    <3> QED BY <1>2, <2>2, <3>1 DEF IInv, BootInv
  <2> QED BY Zenon, <2>1, <2>2
<1> QED BY Zenon, <1>5, <1>6, <1>7, <1>8, <1>9, <1>10 DEF IInv

\* The end of thread_create(): the new thread is still blocked when
\* thread_unblock() gets it.
LEMMA CreateUnblockStep ==
  ASSUME IInv, NEW t \in Thread, CreateUnblock(t)
  PROVE  IInv'
<1> USE SchedAssumption, ThreadsAssumption
<1> DEFINE new == child[t]
           l == IF pc[new] = "idle_init" THEN "start" ELSE "body"
<1>1. /\ thread_unblock(new)
      /\ child' = [child EXCEPT ![t] = NULL]
      /\ pc' = [pc EXCEPT ![t] = l]
      /\ t = cur /\ pc[t] = "create"
      /\ UNCHANGED <<value, waiters, all_list, waitsFor>>
  BY Zenon DEF CreateUnblock, Running, semaVars, Goto
<1>2. /\ new \in Thread /\ status[new] = "BLOCKED" /\ new # idle_thread /\ new # t
      /\ pc[new] \in {"idle_init", "body"} /\ waitsFor[new] = NULL
      /\ \A s \in Sema : new \notin Range(waiters[s])
      /\ \A u \in Thread : u # t => child[u] # new
  BY <1>1 DEF IInv, PcChild, PcIdle, PcWaits, TypeOK
<1> HIDE DEF new
<1>3. /\ SchedOK'
      /\ UNCHANGED <<cur, idle_thread, intr, resuming, thread_ticks>>
      /\ \A u \in Thread : status'[u] = IF u = new THEN "READY" ELSE status[u]
  BY Zenon, <1>1, <1>2, UnblockStep DEF IInv, SchedOK, TypeOK, ElemExclusive
<1>4. /\ \A u \in Thread : child'[u] = IF u = t THEN NULL ELSE child[u]
      /\ \A u \in Thread : pc'[u] = IF u = t THEN l ELSE pc[u]
  BY Zenon, <1>1 DEF IInv, TypeOK
<1>5. TypeOK'
  BY Zenon, <1>1, <1>3 DEF IInv, TypeOK, SchedOK, SemaTypeOK, PC
<1>6. WaitLists'
  BY ZenonT(40), <1>1, <1>2, <1>3, RangeThread DEF IInv, ElemExclusive, WaitLists
<1>7. PcStatus' /\ PcWaits' /\ PcIdle'
  BY <1>1, <1>2, <1>3, <1>4 DEF IInv, PcStatus, PcWaits, PcIdle
<1>8. PcChild'
  BY <1>1, <1>2, <1>3, <1>4 DEF IInv, PcChild, TypeOK, OneRunning
<1>9. BootInv'
  <2>1. CASE pc[new] = "idle_init"
    BY <1>1, <1>2, <1>3, <1>4, <2>1 DEF IInv, BootInv
  <2>2. CASE pc[new] = "body"
    BY <1>1, <1>2, <1>3, <1>4, <2>2 DEF IInv, BootInv, new
  <2> QED BY Zenon, <1>2, <2>1, <2>2
<1> QED BY Zenon, <1>3, <1>5, <1>6, <1>7, <1>8, <1>9 DEF IInv, SchedOK, ElemExclusive

\* thread_start() enables interrupts once the idle thread is ready to run.
LEMMA StartEnableStep ==
  ASSUME IInv, NEW t \in Thread, StartEnable(t)
  PROVE  IInv'
<1> USE SchedAssumption, ThreadsAssumption
<1>1. /\ t = cur /\ pc[t] = "start" /\ intr' = "ON"
      /\ pc' = [pc EXCEPT ![t] = "down"]
      /\ waitsFor' = [waitsFor EXCEPT ![t] = idle_started]
      /\ UNCHANGED <<status, ready_list, cur, idle_thread, resuming, thread_ticks,
                     panic, value, waiters, child, all_list>>
  BY Zenon DEF StartEnable, Running, semaVars, Goto
<1>2. /\ \A u \in Thread : pc'[u] = IF u = t THEN "down" ELSE pc[u]
      /\ \A u \in Thread : waitsFor'[u] = IF u = t THEN idle_started ELSE waitsFor[u]
      /\ \A s \in Sema : t \notin Range(waiters[s])
  BY Zenon, <1>1 DEF IInv, TypeOK, PcWaits
<1>3. TypeOK'
  BY Zenon, <1>1 DEF IInv, TypeOK, SchedTypeOK, SemaTypeOK, PC
<1>4. NoPanic' /\ OneRunning' /\ IdleAlive' /\ cur' \in Thread /\ ElemExclusive'
  BY Zenon, <1>1 DEF IInv, NoPanic, OneRunning, IdleAlive, ElemExclusive, RunQueue, WaitLists
<1>5. PcStatus' /\ PcWaits' /\ PcIdle'
  BY <1>1, <1>2 DEF IInv, PcStatus, PcWaits, PcIdle
<1>6. PcChild'
  BY <1>1, <1>2 DEF IInv, PcChild, TypeOK
<1>7. BootInv'
  BY <1>1, <1>2 DEF IInv, BootInv
<1> QED BY Zenon, <1>3, <1>4, <1>5, <1>6, <1>7 DEF IInv

----------------------------------------------------------------------------
(* The steps that switch to another thread without touching a wait list.   *)

\* A switch that leaves the wait lists alone keeps what ties them, the
\* threads' places and the thread states together.
LEMMA SwitchKeeps ==
  ASSUME IInv, SchedOK', idle_thread' = idle_thread,
         NEW x \in {"READY", "BLOCKED"},
         \A t \in Thread : status'[t] = IF t = cur' THEN "RUNNING"
                                       ELSE IF t = cur THEN x ELSE status[t],
         cur' = idle_thread \/ cur' = cur \/ status[cur'] = "READY",
         x = "READY" => intr = "ON" \/ pc[cur] = "body",
         x = "BLOCKED" => cur = idle_thread,
         UNCHANGED <<waiters, child, waitsFor>>,
         \A t \in Thread : pc'[t] = pc[t] \/ (t = idle_thread /\ t = idle_thread' /\
             pc'[t] \in {"idle_up", "idle_block", "idle_sti", "idle_hlt"})
  PROVE  WaitLists' /\ PcStatus' /\ PcWaits' /\ PcChild' /\ PcIdle' /\ BootInv'
<1> USE SchedAssumption
<1>1. cur \in Thread /\ cur' \in Thread /\ status[cur] = "RUNNING"
  BY Zenon DEF IInv, OneRunning, SchedOK
<1>2. \A t \in Thread : pc'[t] = pc[t]
         \/ {pc[t], pc'[t]} \subseteq {"idle_up", "idle_block", "idle_sti", "idle_hlt"}
  BY Zenon DEF IInv, PcIdle
<1>3. WaitLists'
  <2>1. ASSUME NEW s \in Sema, NEW t \in Range(waiters[s]) PROVE status'[t] = "BLOCKED"
    <3>1. t \in Thread /\ status[t] = "BLOCKED" /\ pc[t] = "down"
      BY <2>1, RangeThread, ThreadsAssumption DEF IInv, ElemExclusive, WaitLists, PcWaits
    <3>2. t # idle_thread
      BY Zenon, <3>1 DEF IInv, PcIdle
    <3> QED BY <1>1, <3>1, <3>2
  <2> QED BY Zenon, <2>1 DEF IInv, ElemExclusive, WaitLists
<1>4. PcStatus'
  BY <1>1, <1>2 DEF IInv, PcStatus, IdleAlive
<1>5. PcWaits' /\ PcIdle'
  BY <1>2 DEF IInv, PcWaits, PcIdle
<1>6. PcChild'
  <2>1. ASSUME NEW t \in Thread, child[t] # NULL
        PROVE  child[t] \in Thread /\ status'[child[t]] = "BLOCKED" /\ pc'[child[t]] = pc[child[t]]
    <3>1. child[t] \in Thread /\ status[child[t]] = "BLOCKED" /\ child[t] # idle_thread
      BY <2>1 DEF IInv, PcChild, PcIdle, TypeOK
    <3> QED BY Zenon, <1>1, <3>1
  <2> QED BY <1>2, <2>1 DEF IInv, PcChild
<1>7. BootInv'
  BY <1>1, <1>2 DEF IInv, BootInv
<1> QED BY Zenon, <1>3, <1>4, <1>5, <1>6, <1>7

\* The scheduler's part of the invariant.
LEMMA IInvSchedOK == IInv => SchedOK
BY Zenon DEF IInv, SchedOK, TypeOK, ElemExclusive

\* thread_yield() keeps the invariant.
LEMMA YieldIInv ==
  ASSUME IInv, NEW t \in Thread, Yield(t)
  PROVE  IInv'
<1>1. /\ t = cur /\ pc[cur] = "body" /\ thread_yield
      /\ UNCHANGED <<value, waiters, pc, child, all_list, waitsFor>>
  BY Zenon DEF Yield, Running, semaVars
<1>2. /\ SchedOK' /\ idle_thread' = idle_thread
      /\ \A u \in Thread :
           status'[u] = IF u = cur' THEN "RUNNING" ELSE IF u = cur THEN "READY" ELSE status[u]
      /\ cur' = idle_thread \/ cur' = cur \/ status[cur'] = "READY"
  BY Zenon, <1>1, IInvSchedOK, YieldStep
<1>3. WaitLists' /\ PcStatus' /\ PcWaits' /\ PcChild' /\ PcIdle' /\ BootInv'
  BY Zenon, <1>1, <1>2, SwitchKeeps
<1> QED BY Zenon, <1>1, <1>2, <1>3 DEF IInv, TypeOK, SemaTypeOK, SchedOK, ElemExclusive

\* A tick keeps the invariant, whether or not it ends the time slice.
LEMMA TimerIInv ==
  ASSUME IInv, Timer
  PROVE  IInv'
<1>1. /\ thread_tick /\ intr = "ON"
      /\ pc' = [pc EXCEPT ![cur] = IF @ = "idle_hlt" THEN "idle_block" ELSE @]
      /\ UNCHANGED <<value, waiters, child, all_list, waitsFor>>
  BY Zenon DEF Timer, thread_tick, WakeIdle, semaVars
<1>2. /\ SchedOK' /\ idle_thread' = idle_thread
      /\ \/ thread_yield
         \/ UNCHANGED <<status, ready_list, cur, intr, resuming>>
  BY Zenon, <1>1, IInvSchedOK, TickStep
<1>3. /\ pc' \in [Thread -> PC]
      /\ \A u \in Thread : pc'[u] = pc[u] \/ (u = idle_thread /\ pc'[u] = "idle_block"
                                             /\ pc[u] = "idle_hlt")
  BY Zenon, <1>1 DEF IInv, TypeOK, PcIdle, PC
<1>4. WaitLists' /\ PcStatus' /\ PcWaits' /\ PcChild' /\ PcIdle' /\ BootInv'
  <2>1. CASE thread_yield
    <3>1. /\ \A u \in Thread :
               status'[u] = IF u = cur' THEN "RUNNING" ELSE IF u = cur THEN "READY" ELSE status[u]
          /\ cur' = idle_thread \/ cur' = cur \/ status[cur'] = "READY"
      BY Zenon, <2>1, IInvSchedOK, YieldStep
    <3> QED BY Zenon, <1>1, <1>2, <1>3, <3>1, SwitchKeeps
  <2>2. CASE UNCHANGED <<status, ready_list, cur, intr, resuming>>
    BY <1>1, <1>2, <1>3, <2>2 DEF IInv, ElemExclusive, WaitLists, PcStatus, PcWaits, PcChild,
       PcIdle, BootInv, TypeOK
  <2> QED BY Zenon, <1>2, <2>1, <2>2
<1> QED BY Zenon, <1>1, <1>2, <1>3, <1>4 DEF IInv, TypeOK, SemaTypeOK, SchedOK, ElemExclusive

\* The idle thread blocks itself and is on no list afterwards.
LEMMA IdleBlockIInv ==
  ASSUME IInv, NEW t \in Thread, IdleBlock(t)
  PROVE  IInv'
<1>1. /\ t = cur /\ pc[cur] = "idle_block" /\ cur = idle_thread
      /\ thread_block
      /\ pc' = [pc EXCEPT ![t] = "idle_sti"]
      /\ UNCHANGED <<value, waiters, child, all_list, waitsFor>>
  BY Zenon DEF IdleBlock, Running, semaVars, Goto, IInv, PcIdle
<1>2. ready_list = <<>> => idle_thread # NULL
  BY Zenon, <1>1, SchedAssumption DEF IInv
<1>3. /\ SchedOK' /\ idle_thread' = idle_thread
      /\ \A u \in Thread :
           status'[u] = IF u = cur' THEN "RUNNING" ELSE IF u = cur THEN "BLOCKED" ELSE status[u]
      /\ cur' = idle_thread \/ cur' = cur \/ status[cur'] = "READY"
  BY Zenon, <1>1, <1>2, IInvSchedOK, BlockStep
<1>4. /\ pc' \in [Thread -> PC]
      /\ \A u \in Thread : pc'[u] = pc[u] \/ (u = idle_thread /\ pc'[u] = "idle_sti")
  BY Zenon, <1>1 DEF IInv, TypeOK, PC
<1>5. WaitLists' /\ PcStatus' /\ PcWaits' /\ PcChild' /\ PcIdle' /\ BootInv'
  BY Zenon, <1>1, <1>3, <1>4, SwitchKeeps
<1> QED BY Zenon, <1>1, <1>3, <1>4, <1>5 DEF IInv, TypeOK, SemaTypeOK, SchedOK, ElemExclusive

\* thread_exit(): the dying thread is on no list.
LEMMA ExitIInv ==
  ASSUME IInv, NEW t \in Thread, Exit(t)
  PROVE  IInv'
<1> USE SchedAssumption
<1>1. /\ t = cur /\ pc[cur] = "body" /\ thread_die
      /\ all_list' = all_list \ {t}
      /\ pc' = [pc EXCEPT ![t] = "none"]
      /\ UNCHANGED <<value, waiters, child, waitsFor>>
  BY Zenon DEF Exit, Running, semaVars, Goto
<1>2. ready_list = <<>> => idle_thread # NULL
  BY Zenon, <1>1, CanSwitch
<1>3. cur # idle_thread /\ cur \in Thread /\ status[cur] = "RUNNING"
  BY Zenon, <1>1 DEF IInv, PcIdle, OneRunning
<1>4. /\ SchedOK' /\ idle_thread' = idle_thread
      /\ \A u \in Thread :
           status'[u] = IF u = cur' THEN "RUNNING"
                        ELSE IF u = cur THEN IF u = initial_thread THEN "DYING" ELSE "FREE"
                        ELSE status[u]
      /\ cur' # cur
      /\ cur' = idle_thread \/ status[cur'] = "READY"
      /\ cur' \in Thread
  BY Zenon, <1>1, <1>2, <1>3, IInvSchedOK, DieStep DEF SchedOK
<1>5. /\ \A u \in Thread : pc'[u] = IF u = t THEN "none" ELSE pc[u]
      /\ TypeOK'
  BY Zenon, <1>1, <1>4 DEF IInv, TypeOK, PC, SchedOK, SemaTypeOK
<1>6. WaitLists'
  <2>1. ASSUME NEW s \in Sema, NEW u \in Range(waiters[s]) PROVE status'[u] = "BLOCKED"
    <3>1. u \in Thread /\ status[u] = "BLOCKED" /\ pc[u] = "down"
      BY <2>1, RangeThread, ThreadsAssumption DEF IInv, ElemExclusive, WaitLists, PcWaits
    <3>2. u # idle_thread
      BY Zenon, <3>1 DEF IInv, PcIdle
    <3> QED BY Zenon, <1>3, <1>4, <3>1, <3>2
  <2> QED BY Zenon, <1>1, <2>1 DEF IInv, ElemExclusive, WaitLists
<1>7. PcStatus'
  BY <1>1, <1>3, <1>4, <1>5 DEF IInv, PcStatus, IdleAlive
<1>8. PcWaits' /\ PcIdle'
  BY <1>1, <1>3, <1>4, <1>5 DEF IInv, PcWaits, PcIdle
<1>9. PcChild'
  <2>1. ASSUME NEW u \in Thread, child[u] # NULL
        PROVE  child[u] \in Thread /\ status'[child[u]] = "BLOCKED" /\ pc'[child[u]] = pc[child[u]]
    <3>1. child[u] \in Thread /\ status[child[u]] = "BLOCKED" /\ child[u] # idle_thread
      BY <2>1 DEF IInv, PcChild, PcIdle, TypeOK
    <3> QED BY Zenon, <1>1, <1>3, <1>4, <1>5, <3>1
  <2>2. child[t] = NULL
    BY Zenon, <1>1 DEF IInv, PcChild
  <2> QED BY <1>1, <1>5, <2>1, <2>2 DEF IInv, PcChild
<1>10. BootInv'
  <2>1. \A u \in Thread : pc[u] = "idle_init" => u # cur /\
           (status[u] \in {"READY", "RUNNING"} => status'[u] \in {"READY", "RUNNING"})
    BY Zenon, <1>1, <1>4
  <2>2. \A u \in Thread : /\ pc'[u] = "boot" => pc[u] = "boot"
                          /\ pc'[u] = "idle_init" <=> pc[u] = "idle_init"
    BY <1>1, <1>5
  <2>3. idle_thread = NULL => \E i \in Thread : pc[i] = "idle_init" /\ status[i] \in {"READY", "RUNNING"}
    BY Zenon, <1>1 DEF IInv, BootInv
  <2>4. idle_thread = NULL => \E i \in Thread : pc'[i] = "idle_init" /\ status'[i] \in {"READY", "RUNNING"}
    BY Zenon, <2>1, <2>2, <2>3
  <2>5. idle_thread' = idle_thread
    BY Zenon, <1>4
  <2> QED BY <2>2, <2>4, <2>5 DEF IInv, BootInv
<1> QED BY Zenon, <1>4, <1>5, <1>6, <1>7, <1>8, <1>9, <1>10 DEF IInv, SchedOK, ElemExclusive

----------------------------------------------------------------------------
(* The steps that leave the run queue and the wait lists alone. *)

\* idle() makes itself known to the scheduler.
LEMMA IdleInitIInv ==
  ASSUME IInv, NEW t \in Thread, IdleInit(t)
  PROVE  IInv'
<1> USE SchedAssumption
<1>1. /\ t = cur /\ pc[t] = "idle_init" /\ idle_thread' = t
      /\ pc' = [pc EXCEPT ![t] = "idle_up"]
      /\ UNCHANGED <<status, ready_list, cur, intr, resuming, thread_ticks, panic,
                     value, waiters, child, all_list, waitsFor>>
  BY Zenon DEF IdleInit, Running, semaVars, Goto
<1>2. /\ idle_thread = NULL /\ status[t] = "RUNNING"
      /\ \A u \in Thread : u # t => pc[u] # "idle_init"
      /\ \A u \in Thread : pc[u] # "boot"
      /\ \A u \in Thread : child[u] # t
      /\ \A u \in Thread : pc'[u] = IF u = t THEN "idle_up" ELSE pc[u]
  BY <1>1 DEF IInv, BootInv, OneRunning, PcChild, TypeOK
<1>3. TypeOK'
  BY Zenon, <1>1 DEF IInv, TypeOK, SchedTypeOK, SemaTypeOK, PC
<1>4. NoPanic' /\ OneRunning' /\ IdleAlive' /\ cur' \in Thread /\ WaitLists'
  BY Zenon, <1>1, <1>2 DEF IInv, NoPanic, OneRunning, IdleAlive, ElemExclusive, WaitLists
<1>5. RunQueue'
  BY Zenon, <1>1, <1>2 DEF IInv, ElemExclusive, RunQueue
<1>6. PcStatus' /\ PcWaits' /\ PcIdle'
  BY <1>1, <1>2 DEF IInv, PcStatus, PcWaits, PcIdle
<1>7. PcChild'
  BY <1>1, <1>2 DEF IInv, PcChild, TypeOK
<1>8. BootInv'
  BY <1>1, <1>2 DEF IInv, BootInv
<1> QED BY Zenon, <1>3, <1>4, <1>5, <1>6, <1>7, <1>8 DEF IInv, ElemExclusive

\* The idle thread waits for an interrupt.
LEMMA IdleHaltIInv ==
  ASSUME IInv, NEW t \in Thread, IdleHalt(t)
  PROVE  IInv'
<1> USE SchedAssumption
<1>1. /\ t = cur /\ pc[t] = "idle_sti" /\ intr' = "ON"
      /\ pc' = [pc EXCEPT ![t] = "idle_hlt"]
      /\ UNCHANGED <<status, ready_list, cur, idle_thread, resuming, thread_ticks, panic,
                     value, waiters, child, all_list, waitsFor>>
  BY Zenon DEF IdleHalt, Running, semaVars, Goto
<1>2. /\ idle_thread = t
      /\ \A u \in Thread : pc'[u] = IF u = t THEN "idle_hlt" ELSE pc[u]
      /\ \A u \in Thread : child[u] # t
  BY <1>1 DEF IInv, PcIdle, TypeOK, PcChild, OneRunning
<1>3. TypeOK'
  BY Zenon, <1>1 DEF IInv, TypeOK, SchedTypeOK, SemaTypeOK, PC
<1>4. NoPanic' /\ OneRunning' /\ IdleAlive' /\ cur' \in Thread /\ ElemExclusive'
  BY Zenon, <1>1 DEF IInv, NoPanic, OneRunning, IdleAlive, ElemExclusive, RunQueue, WaitLists
<1>5. PcStatus' /\ PcWaits' /\ PcIdle'
  BY <1>1, <1>2 DEF IInv, PcStatus, PcWaits, PcIdle
<1>6. PcChild'
  BY <1>1, <1>2 DEF IInv, PcChild, TypeOK
<1>7. BootInv'
  BY <1>1, <1>2 DEF IInv, BootInv
<1> QED BY Zenon, <1>3, <1>4, <1>5, <1>6, <1>7 DEF IInv

\* A thread that was switched to turns interrupts on again.
LEMMA ResumesIInv ==
  ASSUME IInv, Resumes
  PROVE  IInv'
<1> USE SchedAssumption
<1>1. /\ cur \in resuming /\ intr' = "ON" /\ resuming' = resuming \ {cur}
      /\ UNCHANGED <<status, ready_list, cur, idle_thread, thread_ticks, panic,
                     value, waiters, pc, child, all_list, waitsFor>>
  BY Zenon DEF Resumes, Resume, semaVars
<1>2. TypeOK'
  BY Zenon, <1>1 DEF IInv, TypeOK, SchedTypeOK, SemaTypeOK
<1>3. NoPanic' /\ OneRunning' /\ IdleAlive' /\ cur' \in Thread /\ ElemExclusive'
  BY Zenon, <1>1 DEF IInv, NoPanic, OneRunning, IdleAlive, ElemExclusive, RunQueue, WaitLists
<1>4. PcStatus' /\ PcWaits' /\ PcIdle' /\ PcChild'
  BY <1>1 DEF IInv, PcStatus, PcWaits, PcIdle, PcChild
<1>5. BootInv'
  BY Zenon, <1>1 DEF IInv, BootInv
<1> QED BY Zenon, <1>2, <1>3, <1>4, <1>5 DEF IInv

\* A call of sema_down().
LEMMA CallDownIInv ==
  ASSUME IInv, NEW t \in Thread, NEW s \in Event, CallDown(t, s)
  PROVE  IInv'
<1> USE SchedAssumption, ThreadsAssumption
<1>1. /\ t = cur /\ pc[t] = "body" /\ s \in Sema
      /\ pc' = [pc EXCEPT ![t] = "down"]
      /\ waitsFor' = [waitsFor EXCEPT ![t] = s]
      /\ UNCHANGED <<status, ready_list, cur, idle_thread, intr, resuming, thread_ticks,
                     panic, value, waiters, child, all_list>>
  BY Zenon DEF CallDown, Running, schedVars, semaVars, Goto, Event
<1>2. /\ \A u \in Thread : pc'[u] = IF u = t THEN "down" ELSE pc[u]
      /\ \A u \in Thread : waitsFor'[u] = IF u = t THEN s ELSE waitsFor[u]
      /\ \A r \in Sema : t \notin Range(waiters[r])
      /\ \A u \in Thread : child[u] # t
  BY <1>1 DEF IInv, TypeOK, PcWaits, PcChild, OneRunning
<1>3. TypeOK'
  BY Zenon, <1>1 DEF IInv, TypeOK, SchedTypeOK, SemaTypeOK, PC
<1>4. NoPanic' /\ OneRunning' /\ IdleAlive' /\ cur' \in Thread /\ ElemExclusive'
  BY Zenon, <1>1 DEF IInv, NoPanic, OneRunning, IdleAlive, ElemExclusive, RunQueue, WaitLists
<1>5. PcStatus' /\ PcWaits' /\ PcIdle'
  BY <1>1, <1>2 DEF IInv, PcStatus, PcWaits, PcIdle
<1>6. PcChild'
  BY <1>1, <1>2 DEF IInv, PcChild, TypeOK
<1>7. BootInv'
  BY <1>1, <1>2 DEF IInv, BootInv
<1> QED BY Zenon, <1>3, <1>4, <1>5, <1>6, <1>7 DEF IInv

\* sema_down() that finds a positive value.
LEMMA DownPassIInv ==
  ASSUME IInv, NEW t \in Thread, DownPass(t)
  PROVE  IInv'
<1> USE SchedAssumption, ThreadsAssumption
<1> DEFINE s == waitsFor[t]
<1>1. /\ t = cur /\ pc[t] = "down" /\ value[s] > 0
      /\ value' = [value EXCEPT ![s] = @ - 1]
      /\ intr' = "ON"
      /\ pc' = [pc EXCEPT ![t] = "body"]
      /\ waitsFor' = [waitsFor EXCEPT ![t] = NULL]
      /\ UNCHANGED <<status, ready_list, cur, idle_thread, resuming, thread_ticks,
                     panic, waiters, child, all_list>>
  BY Zenon DEF DownPass, sema_down_pass, Running, Goto
<1>2. /\ \A u \in Thread : pc'[u] = IF u = t THEN "body" ELSE pc[u]
      /\ \A u \in Thread : waitsFor'[u] = IF u = t THEN NULL ELSE waitsFor[u]
      /\ s \in Sema /\ status[t] = "RUNNING"
      /\ \A u \in Thread : child[u] # t
  BY <1>1 DEF IInv, TypeOK, PcWaits, PcChild, OneRunning
<1>3. \A r \in Sema : t \notin Range(waiters[r])
  BY Zenon, <1>2 DEF IInv, ElemExclusive, WaitLists
<1>4. TypeOK'
  <2>1. value' \in [Sema -> 0 .. MaxValue]
    BY <1>1, <1>2, SemaAssumption DEF IInv, TypeOK, SemaTypeOK
  <2> QED BY Zenon, <1>1, <2>1 DEF IInv, TypeOK, SchedTypeOK, SemaTypeOK, PC
<1>5. NoPanic' /\ OneRunning' /\ IdleAlive' /\ cur' \in Thread /\ ElemExclusive'
  BY Zenon, <1>1 DEF IInv, NoPanic, OneRunning, IdleAlive, ElemExclusive, RunQueue, WaitLists
<1>6. PcStatus' /\ PcWaits' /\ PcIdle'
  BY <1>1, <1>2, <1>3 DEF IInv, PcStatus, PcWaits, PcIdle
<1>7. PcChild'
  BY <1>1, <1>2 DEF IInv, PcChild, TypeOK
<1>8. BootInv'
  BY <1>1, <1>2 DEF IInv, BootInv
<1> QED BY Zenon, <1>4, <1>5, <1>6, <1>7, <1>8 DEF IInv

\* sema_try_down() that finds a positive value.
LEMMA TryDownIInv ==
  ASSUME IInv, NEW t \in Thread, NEW s \in Event, TryDown(t, s)
  PROVE  IInv'
<1>1. /\ s \in Sema /\ value[s] > 0
      /\ value' = [value EXCEPT ![s] = @ - 1]
      /\ UNCHANGED <<schedVars, waiters, pc, child, all_list, waitsFor>>
  BY Zenon DEF TryDown, sema_try_down, Event
<1>2. value' \in [Sema -> 0 .. MaxValue]
  BY <1>1, SemaAssumption DEF IInv, TypeOK, SemaTypeOK
<1>3. TypeOK'
  BY Zenon, <1>1, <1>2 DEF IInv, TypeOK, SchedTypeOK, SemaTypeOK, schedVars
<1>4. NoPanic' /\ OneRunning' /\ IdleAlive' /\ cur' \in Thread /\ ElemExclusive'
  BY Zenon, <1>1 DEF IInv, NoPanic, OneRunning, IdleAlive, ElemExclusive, RunQueue, WaitLists, schedVars
<1>5. PcStatus' /\ PcWaits' /\ PcIdle' /\ PcChild' /\ BootInv'
  BY <1>1 DEF IInv, PcStatus, PcWaits, PcIdle, PcChild, BootInv, schedVars
<1> QED BY Zenon, <1>3, <1>4, <1>5 DEF IInv

----------------------------------------------------------------------------
(* The steps that move a thread between a wait list and the run queue. *)

\* sema_down() that goes to sleep: the thread moves from the CPU to the wait
\* list, and is on no other list.
LEMMA DownSleepIInv ==
  ASSUME IInv, NEW t \in Thread, DownSleep(t)
  PROVE  IInv'
<1> USE SchedAssumption, ThreadsAssumption
<1> DEFINE s == waitsFor[t]
<1>1. /\ t = cur /\ pc[t] = "down" /\ thread_block
      /\ waiters' = [waiters EXCEPT ![s] = Append(@, cur)]
      /\ UNCHANGED <<value, pc, child, all_list, waitsFor>>
  BY Zenon DEF DownSleep, sema_down_sleep, Running
<1>2. s \in Sema /\ status[t] = "RUNNING" /\ t # idle_thread
  BY Zenon, <1>1 DEF IInv, TypeOK, PcWaits, PcIdle, OneRunning
<1> HIDE DEF s
<1>3. ready_list = <<>> => idle_thread # NULL
  BY Zenon, <1>1, CanSwitch
<1>4. /\ SchedOK' /\ idle_thread' = idle_thread
      /\ \A u \in Thread :
           status'[u] = IF u = cur' THEN "RUNNING" ELSE IF u = cur THEN "BLOCKED" ELSE status[u]
      /\ cur' \in Thread /\ cur' # cur
      /\ cur' = idle_thread \/ status[cur'] = "READY"
  BY Zenon, <1>1, <1>2, <1>3, IInvSchedOK, BlockStep DEF SchedOK
<1>5. \A r \in Sema : /\ waiters[r] \in Seq(Thread) /\ Range(waiters[r]) \subseteq Thread
                      /\ t \notin Range(waiters[r])
  BY Zenon, <1>2, RangeThread DEF IInv, ElemExclusive, WaitLists
<1>6. \A r \in Sema :
        /\ waiters'[r] \in Seq(Thread)
        /\ IsInjective(waiters'[r])
        /\ Range(waiters'[r]) = IF r = s THEN Range(waiters[r]) \cup {t} ELSE Range(waiters[r])
  <2> SUFFICES ASSUME NEW r \in Sema
               PROVE  /\ waiters'[r] \in Seq(Thread)
                      /\ IsInjective(waiters'[r])
                      /\ Range(waiters'[r]) = IF r = s THEN Range(waiters[r]) \cup {t} ELSE Range(waiters[r])
    BY Zenon
  <2>1. waiters'[r] = IF r = s THEN Append(waiters[r], t) ELSE waiters[r]
    BY Zenon, <1>1, <1>2 DEF IInv, TypeOK, SemaTypeOK
  <2>2. IsInjective(waiters[r])
    BY Zenon DEF IInv, ElemExclusive, WaitLists
  <2>3. CASE r = s
    BY <1>5, <2>1, <2>2, <2>3, AppendRange
  <2>4. CASE r # s
    BY Zenon, <1>5, <2>1, <2>2, <2>4
  <2> QED BY Zenon, <2>3, <2>4
<1>7. TypeOK'
  <2>1. waiters' \in [Sema -> Seq(Thread)]
    BY Zenon, <1>1, <1>6 DEF IInv, TypeOK, SemaTypeOK
  <2> QED BY Zenon, <1>1, <1>4, <2>1 DEF IInv, TypeOK, SemaTypeOK, SchedOK
<1>8. \A r \in Sema, u \in Thread : u \in Range(waiters[r]) =>
        status[u] = "BLOCKED" /\ pc[u] = "down" /\ waitsFor[u] = r /\ u # idle_thread
  BY DEF IInv, ElemExclusive, WaitLists, PcWaits, PcIdle
<1>9. WaitLists'
  <2>1. ASSUME NEW r \in Sema, NEW u \in Range(waiters'[r])
        PROVE  u \in Thread /\ status'[u] = "BLOCKED" /\ waitsFor[u] = r
    <3>1. CASE u = t /\ r = s
      BY Zenon, <1>1, <1>4, <3>1 DEF s
    <3>2. CASE u \in Range(waiters[r])
      <4>1. u \in Thread /\ u # t
        BY Zenon, <1>5, <3>2
      <4>2. status[u] = "BLOCKED" /\ waitsFor[u] = r /\ u # idle_thread
        BY Zenon, <1>8, <3>2, <4>1
      <4> QED BY Zenon, <1>1, <1>4, <4>1, <4>2
    <3> QED BY Zenon, <1>6, <2>1, <3>1, <3>2
  <2>2. \A r \in Sema : IsInjective(waiters'[r])
    BY Zenon, <1>6
  <2>3. \A r1, r2 \in Sema : r1 # r2 => Range(waiters'[r1]) \cap Range(waiters'[r2]) = {}
    BY Zenon, <2>1
  <2> QED BY Zenon, <2>1, <2>2, <2>3 DEF WaitLists
<1>10. PcStatus' /\ PcIdle'
  BY <1>1, <1>2, <1>4 DEF IInv, PcStatus, PcIdle, IdleAlive
<1>11. PcWaits'
  <2>1. ASSUME NEW u \in Thread, NEW r \in Sema, u \in Range(waiters'[r])
        PROVE  waitsFor[u] = r
    <3>1. CASE u = t /\ r = s
      BY Zenon, <3>1 DEF s
    <3>2. CASE u \in Range(waiters[r])
      BY Zenon, <1>8, <3>2
    <3> QED BY Zenon, <1>6, <2>1, <3>1, <3>2
  <2> QED BY Zenon, <1>1, <2>1 DEF IInv, PcWaits
<1>12. PcChild'
  <2>1. ASSUME NEW u \in Thread, child[u] # NULL
        PROVE  status'[child[u]] = "BLOCKED"
    <3>1. child[u] \in Thread /\ status[child[u]] = "BLOCKED" /\ child[u] # idle_thread
      BY <2>1 DEF IInv, PcChild, PcIdle, TypeOK
    <3> QED BY Zenon, <1>1, <1>2, <1>4, <3>1
  <2> QED BY <1>1, <2>1 DEF IInv, PcChild
<1>13. BootInv'
  <2>1. \A u \in Thread : pc[u] = "idle_init" => u # cur /\
           (status[u] \in {"READY", "RUNNING"} => status'[u] \in {"READY", "RUNNING"})
    BY Zenon, <1>1, <1>4
  <2> QED BY <1>1, <1>4, <2>1 DEF IInv, BootInv
<1> QED BY Zenon, <1>4, <1>7, <1>9, <1>10, <1>11, <1>12, <1>13 DEF IInv, SchedOK, ElemExclusive

\* sema_up() by a thread or a handler; pc changes at most for the idle thread.
LEMMA UpIInv ==
  ASSUME IInv, NEW s \in Sema, sema_up(s),
         UNCHANGED <<child, all_list, waitsFor>>,
         pc' \in [Thread -> PC],
         \A u \in Thread : pc'[u] = pc[u] \/
           /\ u = idle_thread
           /\ pc[u] \in {"idle_up", "idle_block", "idle_sti", "idle_hlt"}
           /\ pc'[u] \in {"idle_up", "idle_block", "idle_sti", "idle_hlt"}
  PROVE  IInv'
<1> USE SchedAssumption, ThreadsAssumption
<1>1. value' \in [Sema -> 0 .. MaxValue]
  BY SemaAssumption DEF sema_up, IInv, TypeOK, SemaTypeOK
<1>2. CASE waiters[s] = <<>>
  <2>1. UNCHANGED <<status, ready_list, cur, idle_thread, intr, resuming, thread_ticks,
                    panic, waiters>>
    BY Zenon, <1>2 DEF sema_up, schedVars
  <2>2. TypeOK'
    BY Zenon, <1>1, <2>1 DEF IInv, TypeOK, SchedTypeOK, SemaTypeOK
  <2>3. NoPanic' /\ OneRunning' /\ IdleAlive' /\ cur' \in Thread /\ ElemExclusive'
    BY <2>1 DEF IInv, NoPanic, OneRunning, IdleAlive, ElemExclusive, RunQueue, WaitLists
  <2>4. PcStatus' /\ PcWaits' /\ PcIdle'
    BY Zenon, <2>1 DEF IInv, PcStatus, PcWaits, PcIdle
  <2>5. PcChild'
    BY <2>1 DEF IInv, PcChild, PcIdle, TypeOK
  <2>6. \A u \in Thread : /\ pc'[u] = "boot" <=> pc[u] = "boot"
                          /\ pc'[u] = "idle_init" <=> pc[u] = "idle_init"
                          /\ pc'[u] = "create" <=> pc[u] = "create"
    BY Zenon
  <2>7. \A u \in Thread : pc[u] = "create" => child[u] \in Thread
    BY DEF IInv, TypeOK, PcChild
  <2>8. BootInv'
    BY <2>1, <2>6, <2>7 DEF IInv, BootInv
  <2> QED BY Zenon, <2>2, <2>3, <2>4, <2>5, <2>8 DEF IInv
<1>3. CASE waiters[s] # <<>>
  <2> DEFINE w == Head(waiters[s])
  <2>1. thread_unblock(w) /\ waiters' = [waiters EXCEPT ![s] = Tail(@)]
    BY Zenon, <1>3 DEF sema_up
  <2>2. \A r \in Sema : waiters[r] \in Seq(Thread) /\ IsInjective(waiters[r])
    BY Zenon, RangeThread DEF IInv, ElemExclusive, WaitLists
  <2>3. \A r \in Sema, u \in Thread : u \in Range(waiters[r]) =>
          status[u] = "BLOCKED" /\ pc[u] = "down" /\ waitsFor[u] = r /\ u # idle_thread
    BY DEF IInv, ElemExclusive, WaitLists, PcWaits, PcIdle
  <2>4. w \in Thread /\ w \in Range(waiters[s])
    BY ZenonT(40), <1>3, <2>2, TailRange
  <2> HIDE DEF w
  <2>5. /\ SchedOK'
        /\ UNCHANGED <<cur, idle_thread, intr, resuming, thread_ticks>>
        /\ \A u \in Thread : status'[u] = IF u = w THEN "READY" ELSE status[u]
    BY <2>1, <2>3, <2>4, UnblockStep, IInvSchedOK
  <2>6. \A r \in Sema :
          /\ waiters'[r] \in Seq(Thread)
          /\ IsInjective(waiters'[r])
          /\ Range(waiters'[r]) = Range(waiters[r]) \ {w}
    <3> SUFFICES ASSUME NEW r \in Sema
                 PROVE  /\ waiters'[r] \in Seq(Thread)
                        /\ IsInjective(waiters'[r])
                        /\ Range(waiters'[r]) = Range(waiters[r]) \ {w}
      BY Zenon
    <3>1. CASE r = s
      <4>1. waiters'[r] = Tail(waiters[r])
        BY Zenon, <2>1, <3>1 DEF IInv, TypeOK, SemaTypeOK
      <4> QED BY <1>3, <2>2, <3>1, <4>1, TailRange DEF w
    <3>2. CASE r # s
      <4>1. waiters'[r] = waiters[r]
        BY Zenon, <2>1, <3>2 DEF IInv, TypeOK, SemaTypeOK
      <4>2. w \notin Range(waiters[r])
        BY <2>3, <2>4, <3>2
      <4> QED BY Zenon, <2>2, <4>1, <4>2
    <3> QED BY Zenon, <3>1, <3>2
  <2>7. TypeOK'
    <3>1. waiters' \in [Sema -> Seq(Thread)]
      BY Zenon, <2>1, <2>6 DEF IInv, TypeOK, SemaTypeOK
    <3> QED BY Zenon, <1>1, <2>5, <3>1 DEF IInv, TypeOK, SemaTypeOK, SchedOK
  <2>8. WaitLists'
    <3>1. ASSUME NEW r \in Sema, NEW u \in Range(waiters'[r])
          PROVE  u \in Thread /\ status'[u] = "BLOCKED" /\ waitsFor[u] = r
      <4>1. u \in Range(waiters[r]) /\ u # w /\ u \in Thread
        BY Zenon, <2>6, RangeThread DEF IInv
      <4> QED BY <2>3, <2>5, <4>1
    <3>2. \A r \in Sema : IsInjective(waiters'[r])
      BY Zenon, <2>6
    <3>3. \A r1, r2 \in Sema : r1 # r2 => Range(waiters'[r1]) \cap Range(waiters'[r2]) = {}
      BY <3>1
    <3> QED BY Zenon, <3>1, <3>2, <3>3 DEF WaitLists
  <2>9. PcStatus' /\ PcIdle'
    BY <2>3, <2>4, <2>5 DEF IInv, PcStatus, PcIdle
  <2>10. PcWaits'
    BY ZenonT(40), <2>5, <2>6 DEF IInv, PcWaits, PcIdle
  <2>11. PcChild'
    <3>1. ASSUME NEW u \in Thread, child[u] # NULL
          PROVE  child[u] \in Thread /\ status'[child[u]] = "BLOCKED" /\ pc'[child[u]] = pc[child[u]]
      <4>1. child[u] \in Thread /\ status[child[u]] = "BLOCKED" /\ child[u] # idle_thread
            /\ pc[child[u]] # "down"
        BY <3>1 DEF IInv, PcChild, PcIdle, TypeOK
      <4> QED BY <2>3, <2>4, <2>5, <4>1
    <3>2. \A u \in Thread : pc'[u] = "create" <=> pc[u] = "create"
      BY Zenon
    <3> QED BY <3>1, <3>2 DEF IInv, PcChild
  <2>12. BootInv'
    BY <2>5 DEF IInv, BootInv, TypeOK
  <2> QED BY Zenon, <2>5, <2>7, <2>8, <2>9, <2>10, <2>11, <2>12 DEF IInv, SchedOK, ElemExclusive
<1> QED BY Zenon, <1>2, <1>3

----------------------------------------------------------------------------
(* Every step. *)

\* Every step keeps the invariant.
LEMMA NextIInv ==
  ASSUME IInv, [Next]_vars
  PROVE  IInv'
<1>1. ASSUME NEW t \in Thread, KernelStep(t)
      PROVE  IInv'
  <2>1. CASE IdleUp(t)
    <3>1. t = idle_thread /\ pc[t] = "idle_up" /\ pc' = [pc EXCEPT ![t] = "idle_block"]
      BY Zenon, <2>1 DEF IdleUp, Goto, IInv, PcIdle
    <3>2. pc' \in [Thread -> PC]
      BY Zenon, <3>1 DEF IInv, TypeOK, PC
    <3>3. \A u \in Thread : pc'[u] = IF u = t THEN "idle_block" ELSE pc[u]
      BY Zenon, <3>1 DEF IInv, TypeOK
    <3> QED BY Zenon, <2>1, <3>1, <3>2, <3>3, UpIInv, ThreadsAssumption DEF IdleUp
  <2> QED BY Zenon, <1>1, <2>1, CreateInitStep, CreateUnblockStep, StartEnableStep, IdleInitIInv,
             IdleBlockIInv, IdleHaltIInv, DownPassIInv, DownSleepIInv DEF KernelStep
<1>2. ASSUME NEW t \in Thread, BodyStep(t)
      PROVE  IInv'
  <2>1. ASSUME NEW s \in Event, Up(t, s)
        PROVE  IInv'
    <3>1. s \in Sema /\ pc' \in [Thread -> PC] /\ pc' = pc
      BY Zenon, <2>1 DEF Event, Up, IInv, TypeOK
    <3> QED BY Zenon, <2>1, <3>1, UpIInv DEF Up
  <2>2. \A s \in Event : s \in Sema
    BY Zenon DEF Event
  <2> QED BY Zenon, <1>2, <2>1, <2>2, CreateInitStep, YieldIInv, ExitIInv, CallDownIInv, TryDownIInv
          DEF BodyStep
<1>3. ASSUME NEW s \in Event, Device(s)
      PROVE  IInv'
  <2>1. s \in Sema /\ cur \in Thread /\ pc \in [Thread -> PC]
    BY Zenon DEF Event, IInv, TypeOK
  <2>2. \A u \in Thread : pc'[u] = IF u = cur /\ pc[cur] = "idle_hlt" THEN "idle_block" ELSE pc[u]
    BY Zenon, <1>3, <2>1 DEF Device, WakeIdle
  <2>3. pc' \in [Thread -> PC]
    BY Zenon, <1>3, <2>1 DEF Device, WakeIdle, PC
  <2>4. pc[cur] = "idle_hlt" => cur = idle_thread
    BY Zenon, <2>1 DEF IInv, PcIdle
  <2> QED BY Zenon, <1>3, <2>1, <2>2, <2>3, <2>4, UpIInv DEF Device
<1>4. CASE UNCHANGED vars
  <2>1. UNCHANGED <<status, ready_list, cur, idle_thread, intr, resuming, thread_ticks, panic,
                    value, waiters, pc, child, all_list, waitsFor>>
    BY Zenon, <1>4 DEF vars, schedVars, semaVars
  <2>2. TypeOK'
    BY Zenon, <2>1 DEF IInv, TypeOK, SchedTypeOK, SemaTypeOK
  <2>3. cur' \in Thread /\ NoPanic' /\ OneRunning' /\ IdleAlive'
    BY Zenon, <2>1 DEF IInv, NoPanic, OneRunning, IdleAlive
  <2>4. ElemExclusive'
    BY Zenon, <2>1 DEF IInv, ElemExclusive, RunQueue, WaitLists
  <2>5. PcStatus' /\ PcWaits' /\ PcIdle'
    BY Zenon, <2>1 DEF IInv, PcStatus, PcWaits, PcIdle
  <2>6. PcChild'
    BY <2>1 DEF IInv, PcChild
  <2>7. BootInv'
    BY Zenon, <2>1 DEF IInv, BootInv
  <2> QED BY Zenon, <2>2, <2>3, <2>4, <2>5, <2>6, <2>7 DEF IInv
<1> QED BY Zenon, <1>1, <1>2, <1>3, <1>4, TimerIInv, ResumesIInv DEF Next

\* The inductive invariant holds in every behaviour.
THEOREM Invariance == Spec => []IInv
<1>1. Init => IInv
  BY Zenon, InitIInv
<1>2. IInv /\ [Next]_vars => IInv'
  BY Zenon, NextIInv
<1> QED BY <1>1, <1>2, PTL DEF Spec

\* Every variable of the scheduler, the semaphores and the threads keeps its
\* type: a running thread always exists and lists hold threads only.
THEOREM TypeCorrect == Spec => []TypeOK
<1>1. IInv => TypeOK
  BY Zenon DEF IInv
<1> QED BY <1>1, Invariance, PTL

\* No assertion of thread.c's scheduling code ever fails.
THEOREM NoAssertFails == Spec => []NoPanic
<1>1. IInv => NoPanic
  BY Zenon DEF IInv
<1> QED BY <1>1, Invariance, PTL

\* One `elem' per thread is enough: the run queue and the semaphores' wait
\* lists never hold the same thread, nor one of them a thread twice.
THEOREM ElemShared == Spec => []ElemExclusive
<1>1. IInv => ElemExclusive
  BY Zenon DEF IInv
<1> QED BY <1>1, Invariance, PTL

\* Exactly the current thread is in state THREAD_RUNNING.
THEOREM RunningUnique == Spec => []OneRunning
<1>1. IInv => OneRunning
  BY Zenon DEF IInv
<1> QED BY <1>1, Invariance, PTL

----------------------------------------------------------------------------
(* The refinement. *)

\* Every step of the threads is a step of the abstract semaphores or leaves
\* them alone.
LEMMA StepImplements ==
  ASSUME IInv, [Next]_vars
  PROVE  [Abstract!SemaphoreNext]_(Abstract!semaphoreVars)
<1> USE ThreadsAssumption
<1> DEFINE stutter == UNCHANGED <<value, waiters, waitsFor>>
<1>1. stutter => [Abstract!SemaphoreNext]_(Abstract!semaphoreVars)
  BY Zenon DEF Abstract!semaphoreVars
<1>2. ASSUME NEW s \in Sema, sema_up(s), waitsFor' = waitsFor
      PROVE  Abstract!SemaphoreNext
  <2>1. waiters' = [waiters EXCEPT ![s] = IF @ = <<>> THEN @ ELSE Tail(@)]
    <3>1. CASE waiters[s] # <<>>
      BY Zenon, <1>2, <3>1 DEF sema_up
    <3>2. CASE waiters[s] = <<>>
      BY Zenon, <1>2, <3>2 DEF sema_up, IInv, TypeOK, SemaTypeOK
    <3> QED BY Zenon, <3>1, <3>2
  <2>2. Abstract!up(s)
    BY Zenon, <1>2, <2>1 DEF sema_up, Abstract!up
  <2> QED BY Zenon, <1>2, <2>2 DEF Abstract!SemaphoreNext
<1>3. ASSUME NEW t \in Thread, NEW s \in Sema, pc[t] # "down",
             waitsFor' = [waitsFor EXCEPT ![t] = s], UNCHANGED semaVars
      PROVE  Abstract!SemaphoreNext
  <2>1. waitsFor[t] = NULL
    BY Zenon, <1>3 DEF IInv, PcWaits
  <2> QED BY Zenon, <1>3, <2>1 DEF Abstract!SemaphoreNext, Abstract!call_down, semaVars
<1>4. ASSUME NEW t \in Thread, Running(t), pc[t] = "down"
      PROVE  waitsFor[t] # NULL /\ Abstract!Awake(t)
  <2>1. status[t] = "RUNNING" /\ waitsFor[t] # NULL
    BY Zenon, <1>4 DEF Running, IInv, OneRunning, PcWaits
  <2> QED BY Zenon, <2>1 DEF Abstract!Awake, Abstract!Range, Range, IInv, ElemExclusive, WaitLists
<1>5. ASSUME NEW t \in Thread, KernelStep(t)
      PROVE  Abstract!SemaphoreNext \/ stutter
  <2>1. CASE DownPass(t)
    <3>1. Abstract!down_pass(t)
      BY Zenon, <1>4, <2>1 DEF DownPass, sema_down_pass, Abstract!down_pass
    <3> QED BY Zenon, <3>1 DEF Abstract!SemaphoreNext
  <2>2. CASE DownSleep(t)
    <3>1. cur = t
      BY Zenon, <2>2 DEF DownSleep, Running
    <3>2. Abstract!down_sleep(t)
      BY Zenon, <1>4, <2>2, <3>1 DEF DownSleep, sema_down_sleep, Abstract!down_sleep
    <3> QED BY Zenon, <3>2 DEF Abstract!SemaphoreNext
  <2>3. CASE StartEnable(t)
    BY Zenon, <1>3, <2>3 DEF StartEnable
  <2>4. CASE IdleUp(t)
    BY Zenon, <1>2, <2>4 DEF IdleUp
  <2>5. CASE CreateInit(t, "idle_init") \/ CreateUnblock(t) \/ IdleInit(t) \/ IdleBlock(t)
             \/ IdleHalt(t)
    BY Zenon, <2>5 DEF CreateInit, CreateUnblock, IdleInit, IdleBlock, IdleHalt, semaVars
  <2> QED BY Zenon, <1>5, <2>1, <2>2, <2>3, <2>4, <2>5 DEF KernelStep
<1>6. ASSUME NEW t \in Thread, BodyStep(t)
      PROVE  Abstract!SemaphoreNext \/ stutter
  <2>1. ASSUME NEW s \in Event, TryDown(t, s)
        PROVE  Abstract!SemaphoreNext
    <3>1. s \in Sema /\ Abstract!try_down(s) /\ waitsFor' = waitsFor
      BY Zenon, <2>1 DEF TryDown, sema_try_down, Abstract!try_down, Event
    <3> QED BY Zenon, <3>1 DEF Abstract!SemaphoreNext
  <2>2. ASSUME NEW s \in Event, CallDown(t, s)
        PROVE  Abstract!SemaphoreNext
    BY Zenon, <1>3, <2>2 DEF CallDown, Event
  <2>3. ASSUME NEW s \in Event, Up(t, s)
        PROVE  Abstract!SemaphoreNext
    BY Zenon, <1>2, <2>3 DEF Up, Event
  <2>4. CASE CreateInit(t, "body") \/ Yield(t) \/ Exit(t)
    BY Zenon, <2>4 DEF CreateInit, Yield, Exit, semaVars
  <2> QED BY Zenon, <1>6, <2>1, <2>2, <2>3, <2>4 DEF BodyStep
<1>7. ASSUME NEW s \in Event, Device(s)
      PROVE  Abstract!SemaphoreNext
  BY Zenon, <1>2, <1>7 DEF Device, Event
<1>8. CASE Resumes \/ Timer \/ UNCHANGED vars
  BY Zenon, <1>8 DEF Resumes, Timer, vars, semaVars, Abstract!semaphoreVars
<1> QED BY Zenon, <1>1, <1>5, <1>6, <1>7, <1>8 DEF Next

\* The threads with their scheduler implement the abstract semaphores, for
\* any number of threads, semaphores and ticks in a time slice.
THEOREM SemaphoreRefinement == Spec => ImplementsSemaphore
<1>1. Init => Abstract!SemaphoreInit
  BY Zenon DEF Init, Abstract!SemaphoreInit
<1>2. IInv /\ [Next]_vars => [Abstract!SemaphoreNext]_(Abstract!semaphoreVars)
  BY Zenon, StepImplements
<1> QED BY <1>1, <1>2, Invariance, PTL DEF Spec, ImplementsSemaphore, Abstract!SemaphoreSpec

----------------------------------------------------------------------------
(* No wake-up is lost: the threads on their way to a semaphore are counted. *)

\* Finitely many threads are on their way to a semaphore.
LEMMA WokenFinite ==
  ASSUME NEW s \in Sema
  PROVE  IsFiniteSet(Woken(s)) /\ Cardinality(Woken(s)) \in Nat
BY Zenon, ThreadsAssumption, FS_Subset, FS_CardinalityType DEF Woken

\* A step that takes no thread out of Woken(s), adds nothing to the value and
\* no waiter where there was none keeps the count.
LEMMA WokenGrows ==
  ASSUME IInv, NoLostWakeup, NEW s \in Sema,
         Woken(s) \subseteq Woken(s)', value'[s] \in Nat, value'[s] <= value[s],
         waiters'[s] # <<>> => waiters[s] # <<>>
  PROVE  waiters'[s] # <<>> => value'[s] <= Cardinality(Woken(s)')
<1>1. Woken(s)' \subseteq Thread
  BY Zenon DEF Woken
<1>2. IsFiniteSet(Woken(s)')
  BY Zenon, <1>1, ThreadsAssumption, FS_Subset
<1>3. Cardinality(Woken(s)) <= Cardinality(Woken(s)') /\ Cardinality(Woken(s)') \in Nat
  BY Zenon, <1>2, FS_Subset, FS_CardinalityType
<1>4. value[s] \in Nat
  BY SemaAssumption DEF IInv, TypeOK, SemaTypeOK
<1> QED BY <1>3, <1>4, WokenFinite DEF NoLostWakeup

\* sema_up() adds to the value and to the woken threads together.
LEMMA UpWakes ==
  ASSUME IInv, NoLostWakeup, NEW e \in Sema, sema_up(e), waitsFor' = waitsFor
  PROVE  NoLostWakeup'
<1> SUFFICES ASSUME NEW s \in Sema
             PROVE  waiters'[s] # <<>> => value'[s] <= Cardinality(Woken(s)')
  BY Zenon DEF NoLostWakeup
<1>1. /\ value \in [Sema -> 0 .. MaxValue] /\ waiters \in [Sema -> Seq(Thread)]
      /\ MaxValue \in Nat /\ value[s] \in Nat
  BY SemaAssumption DEF IInv, TypeOK, SemaTypeOK
<1>2. CASE s # e
  <2>1. waiters'[s] = waiters[s] /\ value'[s] = value[s]
    BY Zenon, <1>1, <1>2 DEF sema_up
  <2>2. Woken(s)' = Woken(s)
    BY Zenon, <2>1 DEF Woken
  <2> QED BY Zenon, <2>1, <2>2 DEF NoLostWakeup
<1>3. CASE s = e /\ waiters[e] = <<>>
  BY Zenon, <1>1, <1>3 DEF sema_up
<1>4. CASE s = e /\ waiters[e] # <<>>
  <2> DEFINE w == Head(waiters[e])
  <2>1. waiters'[e] = Tail(waiters[e]) /\ value'[e] = value[e] + 1
    BY Zenon, <1>1, <1>4 DEF sema_up
  <2>2. /\ w \in Thread /\ w \in Range(waiters[e])
        /\ Range(waiters'[e]) = Range(waiters[e]) \ {w}
    BY <1>1, <1>4, <2>1, TailRange DEF IInv, ElemExclusive, WaitLists
  <2> HIDE DEF w
  <2>3. waitsFor[w] = e
    BY Zenon, <2>2 DEF IInv, PcWaits
  <2>4. Woken(e)' = Woken(e) \cup {w} /\ w \notin Woken(e)
    BY Zenon, <2>2, <2>3 DEF Woken
  <2>5. Cardinality(Woken(e)') = Cardinality(Woken(e)) + 1
    BY Zenon, <2>4, WokenFinite, FS_AddElement
  <2>6. value[e] <= Cardinality(Woken(e))
    BY Zenon, <1>4 DEF NoLostWakeup
  <2>7. Cardinality(Woken(e)) \in Nat /\ value[e] \in Nat
    BY Zenon, <1>1, <1>4, WokenFinite
  <2> QED BY <1>4, <2>1, <2>5, <2>6, <2>7
<1> QED BY Zenon, <1>2, <1>3, <1>4

\* A woken thread that passes takes one unit with it.
LEMMA DownPassWakes ==
  ASSUME IInv, NoLostWakeup, NEW t \in Thread, DownPass(t)
  PROVE  NoLostWakeup'
<1> DEFINE e == waitsFor[t]
<1>1. /\ t = cur /\ pc[t] = "down" /\ value[e] > 0
      /\ value' = [value EXCEPT ![e] = @ - 1] /\ waiters' = waiters
      /\ waitsFor' = [waitsFor EXCEPT ![t] = NULL]
  BY Zenon DEF DownPass, sema_down_pass, Running
<1>2. /\ e \in Sema /\ status[t] = "RUNNING" /\ e # NULL
      /\ \A u \in Thread : waitsFor'[u] = IF u = t THEN NULL ELSE waitsFor[u]
  BY <1>1, ThreadsAssumption DEF IInv, TypeOK, PcWaits, OneRunning
<1>3. t \notin Range(waiters[e])
  BY Zenon, <1>2 DEF IInv, ElemExclusive, WaitLists
<1>4. t \in Woken(e)
  BY Zenon, <1>3 DEF Woken
<1> SUFFICES ASSUME NEW s \in Sema
             PROVE  waiters'[s] # <<>> => value'[s] <= Cardinality(Woken(s)')
  BY Zenon DEF NoLostWakeup
<1>5. /\ value \in [Sema -> 0 .. MaxValue] /\ MaxValue \in Nat /\ value[s] \in Nat
  BY SemaAssumption DEF IInv, TypeOK, SemaTypeOK
<1> HIDE DEF e
<1>6. value'[s] = IF s = e THEN value[s] - 1 ELSE value[s]
  BY Zenon, <1>1, <1>2, <1>5
<1>7. CASE s # e
  <2>1. waitsFor[t] # s /\ s # NULL
    BY Zenon, <1>7, ThreadsAssumption DEF e
  <2>2. Woken(s)' = Woken(s)
    BY Zenon, <1>1, <1>2, <2>1 DEF Woken
  <2> QED BY Zenon, <1>1, <1>6, <1>7, <2>2 DEF NoLostWakeup
<1>8. CASE s = e
  <2>1. Woken(s)' = Woken(s) \ {t}
    BY Zenon, <1>1, <1>2, <1>8 DEF Woken
  <2>2. Cardinality(Woken(s)') = Cardinality(Woken(s)) - 1
    BY ZenonT(40), <1>4, <1>8, <2>1, WokenFinite, FS_RemoveElement
  <2>3. waiters[s] # <<>> => value[s] <= Cardinality(Woken(s))
    BY Zenon DEF NoLostWakeup
  <2>4. Cardinality(Woken(s)) \in Nat
    BY Zenon, WokenFinite
  <2> QED BY <1>1, <1>5, <1>6, <1>8, <2>2, <2>3, <2>4
<1> QED BY Zenon, <1>7, <1>8

\* A thread only goes to sleep when there is no unit to take.
LEMMA DownSleepWakes ==
  ASSUME IInv, NoLostWakeup, NEW t \in Thread, DownSleep(t)
  PROVE  NoLostWakeup'
<1> DEFINE e == waitsFor[t]
<1>1. /\ value[e] = 0 /\ value' = value /\ waitsFor' = waitsFor
      /\ waiters' = [waiters EXCEPT ![e] = Append(@, cur)]
  BY Zenon DEF DownSleep, sema_down_sleep
<1> HIDE DEF e
<1> SUFFICES ASSUME NEW s \in Sema
             PROVE  waiters'[s] # <<>> => value'[s] <= Cardinality(Woken(s)')
  BY DEF NoLostWakeup
<1>2. CASE s = e
  <2>1. IsFiniteSet(Woken(s)')
    BY Zenon, ThreadsAssumption, FS_Subset DEF Woken
  <2> QED BY <1>1, <1>2, <2>1, FS_CardinalityType
<1>3. CASE s # e
  <2>1. waiters'[s] = waiters[s]
    BY Zenon, <1>1, <1>3 DEF IInv, TypeOK, SemaTypeOK
  <2>2. Woken(s)' = Woken(s)
    BY Zenon, <1>1, <2>1 DEF Woken
  <2> QED BY Zenon, <1>1, <2>1, <2>2 DEF NoLostWakeup
<1> QED BY Zenon, <1>2, <1>3

\* Every step keeps the count of units and woken threads.
LEMMA NextWakes ==
  ASSUME IInv, NoLostWakeup, [Next]_vars
  PROVE  NoLostWakeup'
<1>1. ASSUME waiters' = waiters, \A s \in Sema : value'[s] \in Nat /\ value'[s] <= value[s],
             \A u \in Thread : waitsFor[u] = waitsFor'[u] \/ waitsFor[u] = NULL
      PROVE  NoLostWakeup'
  <2> SUFFICES ASSUME NEW s \in Sema
               PROVE  waiters'[s] # <<>> => value'[s] <= Cardinality(Woken(s)')
    BY Zenon DEF NoLostWakeup
  <2>1. Woken(s) \subseteq Woken(s)'
    BY Zenon, <1>1, ThreadsAssumption DEF Woken
  <2> QED BY Zenon, <1>1, <2>1, WokenGrows
<1>2. \A s \in Sema : value[s] \in Nat /\ value[s] <= value[s]
  BY SemaAssumption DEF IInv, TypeOK, SemaTypeOK
<1>3. CASE UNCHANGED <<semaVars, waitsFor>>
  BY Zenon, <1>1, <1>2, <1>3 DEF semaVars
<1>4. ASSUME NEW t \in Thread, NEW s \in Sema, pc[t] # "down",
             waitsFor' = [waitsFor EXCEPT ![t] = s], UNCHANGED semaVars
      PROVE  NoLostWakeup'
  <2>1. \A u \in Thread : waitsFor[u] = waitsFor'[u] \/ waitsFor[u] = NULL
    BY Zenon, <1>4 DEF IInv, TypeOK, PcWaits
  <2> QED BY Zenon, <1>1, <1>2, <1>4, <2>1 DEF semaVars
<1>5. ASSUME NEW t \in Thread, KernelStep(t)
      PROVE  NoLostWakeup'
  <2>1. CASE StartEnable(t)
    BY Zenon, <1>4, <2>1, ThreadsAssumption DEF StartEnable
  <2>2. CASE IdleUp(t)
    BY Zenon, <2>2, UpWakes, ThreadsAssumption DEF IdleUp
  <2>3. CASE CreateInit(t, "idle_init") \/ CreateUnblock(t) \/ IdleInit(t) \/ IdleBlock(t)
             \/ IdleHalt(t)
    BY Zenon, <1>3, <2>3 DEF CreateInit, CreateUnblock, IdleInit, IdleBlock, IdleHalt
  <2> QED BY <1>5, <2>1, <2>2, <2>3, DownPassWakes, DownSleepWakes DEF KernelStep
<1>6. ASSUME NEW t \in Thread, BodyStep(t)
      PROVE  NoLostWakeup'
  <2>1. ASSUME NEW s \in Event, TryDown(t, s)
        PROVE  NoLostWakeup'
    <3>1. /\ waiters' = waiters /\ waitsFor' = waitsFor /\ value[s] > 0
          /\ value' = [value EXCEPT ![s] = @ - 1]
      BY Zenon, <2>1 DEF TryDown, sema_try_down
    <3>2. \A r \in Sema : value'[r] = IF r = s THEN value[r] - 1 ELSE value[r]
      BY Zenon, <3>1 DEF IInv, TypeOK, SemaTypeOK
    <3>3. \A r \in Sema : value'[r] \in Nat /\ value'[r] <= value[r]
      BY <1>2, <3>1, <3>2
    <3> QED BY Zenon, <1>1, <3>1, <3>3
  <2>2. ASSUME NEW s \in Event, CallDown(t, s)
        PROVE  NoLostWakeup'
    BY Zenon, <1>4, <2>2 DEF CallDown, Event
  <2>3. ASSUME NEW s \in Event, Up(t, s)
        PROVE  NoLostWakeup'
    BY Zenon, <2>3, UpWakes DEF Up, Event
  <2>4. CASE CreateInit(t, "body") \/ Yield(t) \/ Exit(t)
    BY Zenon, <1>3, <2>4 DEF CreateInit, Yield, Exit
  <2> QED BY <1>6, <2>1, <2>2, <2>3, <2>4 DEF BodyStep
<1>7. ASSUME NEW s \in Event, Device(s)
      PROVE  NoLostWakeup'
  BY Zenon, <1>7, UpWakes DEF Device, Event
<1>8. CASE Resumes \/ Timer \/ UNCHANGED vars
  BY Zenon, <1>3, <1>8 DEF Resumes, Timer, vars
<1> QED BY Zenon, <1>5, <1>6, <1>7, <1>8 DEF Next

\* No wake-up of a semaphore is ever lost, for any number of threads and
\* semaphores: the loop of sema_down() and sema_up()'s waking of one waiter
\* even when the value is positive are enough.
THEOREM WakeupsKept == Spec => []NoLostWakeup
<1>1. Init => NoLostWakeup
  BY Zenon DEF Init, NoLostWakeup
<1>2. IInv /\ NoLostWakeup /\ [Next]_vars => NoLostWakeup'
  BY Zenon, NextWakes
<1> QED BY <1>1, <1>2, Invariance, PTL DEF Spec

----------------------------------------------------------------------------
(* Every thread is accounted for. *)

\* all_list in terms of the threads' places, which IInv ties to their status.
AllPlaced == all_list = {t \in Thread : pc[t] # "none"}

\* A thread has a place exactly while it is neither free nor dying.
LEMMA AllListPlaced == IInv => (AllPlaced <=> AllList)
<1> SUFFICES ASSUME IInv PROVE AllPlaced <=> AllList
  OBVIOUS
<1>1. {t \in Thread : pc[t] # "none"} = {t \in Thread : status[t] \notin {"FREE", "DYING"}}
  BY Zenon DEF IInv, PcStatus
<1> QED BY Zenon, <1>1 DEF AllPlaced, AllList

\* Only thread_create() and thread_exit() change the list of all threads.
LEMMA NextAllPlaced ==
  ASSUME IInv, AllPlaced, [Next]_vars
  PROVE  AllPlaced'
<1>1. ASSUME all_list' = all_list, \A u \in Thread : pc'[u] = "none" <=> pc[u] = "none"
      PROVE  AllPlaced'
  BY Zenon, <1>1 DEF AllPlaced
<1>2. ASSUME NEW t \in Thread, NEW l, pc' = [pc EXCEPT ![t] = l], l # "none", pc[t] # "none"
      PROVE  \A u \in Thread : pc'[u] = "none" <=> pc[u] = "none"
  BY Zenon, <1>2 DEF IInv, TypeOK
<1>3. ASSUME NEW t \in Thread, NEW f \in {"idle_init", "body"}, CreateInit(t, f)
      PROVE  AllPlaced'
  <2>1. PICK new \in Thread : /\ status[new] = "FREE" /\ all_list' = all_list \cup {new}
                              /\ pc' = [pc EXCEPT ![t] = "create", ![new] = f]
    BY Zenon, <1>3 DEF CreateInit
  <2>2. pc[t] # "none" /\ pc[new] = "none"
    BY Zenon, <1>3, <2>1 DEF CreateInit, IInv, PcStatus
  <2>3. \A u \in Thread : pc'[u] # "none" <=> pc[u] # "none" \/ u = new
    BY Zenon, <2>1, <2>2 DEF IInv, TypeOK
  <2> QED BY Zenon, <2>1, <2>3 DEF AllPlaced
<1>4. ASSUME NEW t \in Thread, Exit(t)
      PROVE  AllPlaced'
  <2>1. all_list' = all_list \ {t} /\ \A u \in Thread : pc'[u] = IF u = t THEN "none" ELSE pc[u]
    BY Zenon, <1>4 DEF Exit, Goto, IInv, TypeOK
  <2> QED BY Zenon, <2>1 DEF AllPlaced
<1>5. ASSUME NEW t \in Thread, KernelStep(t)
      PROVE  AllPlaced'
  <2>1. CASE CreateInit(t, "idle_init")
    BY Zenon, <1>3, <2>1
  <2>2. CASE CreateUnblock(t)
    BY <1>1, <1>2, <2>2 DEF CreateUnblock, Goto
  <2>3. CASE StartEnable(t) \/ IdleInit(t) \/ IdleUp(t) \/ IdleBlock(t) \/ IdleHalt(t) \/ DownPass(t)
    BY <1>1, <1>2, <2>3 DEF StartEnable, IdleInit, IdleUp, IdleBlock, IdleHalt, DownPass, Goto
  <2>4. CASE DownSleep(t)
    BY <1>1, <2>4 DEF DownSleep
  <2> QED BY Zenon, <1>5, <2>1, <2>2, <2>3, <2>4 DEF KernelStep
<1>6. ASSUME NEW t \in Thread, BodyStep(t)
      PROVE  AllPlaced'
  <2>1. CASE CreateInit(t, "body") \/ Exit(t)
    BY Zenon, <1>3, <1>4, <2>1
  <2>2. ASSUME NEW s \in Event, CallDown(t, s)
        PROVE  AllPlaced'
    BY <1>1, <1>2, <2>2 DEF CallDown, Goto
  <2>3. CASE Yield(t) \/ \E s \in Event : TryDown(t, s) \/ Up(t, s)
    BY <1>1, <2>3 DEF Yield, TryDown, Up
  <2> QED BY Zenon, <1>6, <2>1, <2>2, <2>3 DEF BodyStep
<1>7. CASE Timer \/ \E s \in Event : Device(s)
  <2>1. all_list' = all_list
    BY Zenon, <1>7 DEF Timer, Device
  <2>2. pc' = [pc EXCEPT ![cur] = IF @ = "idle_hlt" THEN "idle_block" ELSE @]
    BY Zenon, <1>7 DEF Timer, Device, WakeIdle
  <2>3. \A u \in Thread : pc'[u] = "none" <=> pc[u] = "none"
    BY Zenon, <2>2 DEF IInv, TypeOK
  <2> QED BY Zenon, <1>1, <2>1, <2>3
<1>8. CASE Resumes \/ UNCHANGED vars
  BY Zenon, <1>1, <1>8 DEF Resumes, vars
<1> QED BY Zenon, <1>5, <1>6, <1>7, <1>8 DEF Next

\* A step that blocks nobody but the idle thread and takes a thread off no
\* list keeps the blocked threads accounted for.
LEMMA StillAccounted ==
  ASSUME BlockedAccounted, UNCHANGED <<waiters, child>>,
         idle_thread' = idle_thread \/ idle_thread = NULL,
         \A u \in Thread : status'[u] = "BLOCKED" => status[u] = "BLOCKED" \/ u = idle_thread'
  PROVE  BlockedAccounted'
BY Zenon, SchedAssumption DEF BlockedAccounted

\* sema_up() takes a thread off a wait list only to make it ready.
LEMMA UpAccounted ==
  ASSUME IInv, BlockedAccounted, NEW s \in Sema, sema_up(s), child' = child
  PROVE  BlockedAccounted'
<1>1. CASE waiters[s] = <<>>
  <2>1. UNCHANGED <<waiters, status, idle_thread>>
    BY Zenon, <1>1 DEF sema_up, schedVars
  <2> QED BY Zenon, <2>1, StillAccounted
<1>2. CASE waiters[s] # <<>>
  <2> DEFINE w == Head(waiters[s])
  <2>1. thread_unblock(w) /\ waiters' = [waiters EXCEPT ![s] = Tail(@)]
    BY Zenon, <1>2 DEF sema_up
  <2>2. /\ w \in Thread /\ w \in Range(waiters[s])
        /\ Range(Tail(waiters[s])) = Range(waiters[s]) \ {w}
    BY <1>2, TailRange, RangeThread DEF IInv, ElemExclusive, WaitLists
  <2> HIDE DEF w
  <2>3. /\ \A u \in Thread : status'[u] = IF u = w THEN "READY" ELSE status[u]
        /\ idle_thread' = idle_thread
    BY Zenon, <2>1 DEF thread_unblock, IInv, TypeOK, SchedTypeOK
  <2>4. \A r \in Sema : Range(waiters'[r]) = IF r = s THEN Range(waiters[r]) \ {w} ELSE Range(waiters[r])
    BY Zenon, <2>1, <2>2 DEF IInv, TypeOK, SemaTypeOK
  <2> QED BY Zenon, <2>2, <2>3, <2>4 DEF BlockedAccounted
<1> QED BY Zenon, <1>1, <1>2

\* A thread that goes to sleep in sema_down() is on the wait list.
LEMMA SleepAccounted ==
  ASSUME IInv, BlockedAccounted, NEW t \in Thread, DownSleep(t)
  PROVE  BlockedAccounted'
<1> DEFINE s == waitsFor[t]
<1>1. /\ t = cur /\ pc[t] = "down" /\ thread_block /\ child' = child
      /\ waiters' = [waiters EXCEPT ![s] = Append(@, t)]
  BY Zenon DEF DownSleep, sema_down_sleep, Running
<1>2. s \in Sema
  BY Zenon, <1>1 DEF IInv, TypeOK, PcWaits
<1> HIDE DEF s
<1>3. ready_list = <<>> => idle_thread # NULL
  BY Zenon, <1>1, CanSwitch
<1>4. /\ idle_thread' = idle_thread
      /\ \A u \in Thread :
           status'[u] = IF u = cur' THEN "RUNNING" ELSE IF u = t THEN "BLOCKED" ELSE status[u]
  BY Zenon, <1>1, <1>3, IInvSchedOK, BlockStep
<1>5. \A r \in Sema : waiters'[r] = IF r = s THEN Append(waiters[r], t) ELSE waiters[r]
  BY Zenon, <1>1, <1>2 DEF IInv, TypeOK, SemaTypeOK
<1>6. Range(waiters'[s]) = Range(waiters[s]) \cup {t}
  BY <1>2, <1>5, RangeThread, AppendRange DEF IInv
<1>7. \A u \in Thread, r \in Sema : u \in Range(waiters[r]) \/ (u = t /\ r = s) => u \in Range(waiters'[r])
  BY Zenon, <1>2, <1>5, <1>6
<1>8. \A u \in Thread : status'[u] = "BLOCKED" => u = t \/ status[u] = "BLOCKED"
  BY Zenon, <1>4
<1> QED BY Zenon, <1>1, <1>2, <1>4, <1>7, <1>8 DEF BlockedAccounted

\* A new thread is blocked while its creator knows it, and only then.
LEMMA CreateAccounted ==
  ASSUME IInv, BlockedAccounted, NEW t \in Thread,
         CreateUnblock(t) \/ \E f \in {"idle_init", "body"} : CreateInit(t, f)
  PROVE  BlockedAccounted'
<1>1. UNCHANGED <<waiters, idle_thread>>
  BY Zenon DEF CreateUnblock, CreateInit, thread_unblock, semaVars
<1>2. CASE CreateUnblock(t)
  <2>1. /\ \A u \in Thread : status'[u] = IF u = child[t] THEN "READY" ELSE status[u]
        /\ \A u \in Thread : child'[u] = IF u = t THEN NULL ELSE child[u]
    BY Zenon, <1>2 DEF CreateUnblock, thread_unblock, IInv, TypeOK, SchedTypeOK
  <2> QED BY Zenon, <1>1, <2>1 DEF BlockedAccounted
<1>3. ASSUME NEW f \in {"idle_init", "body"}, CreateInit(t, f)
      PROVE  BlockedAccounted'
  <2>1. PICK new \in Thread : /\ status' = [status EXCEPT ![new] = "BLOCKED"]
                              /\ child' = [child EXCEPT ![t] = new]
    BY Zenon, <1>3 DEF CreateInit
  <2>2. child[t] = NULL
    BY <1>3 DEF CreateInit, IInv, PcChild
  <2>3. /\ \A u \in Thread : status'[u] = IF u = new THEN "BLOCKED" ELSE status[u]
        /\ \A u \in Thread : child'[u] = IF u = t THEN new ELSE child[u]
    BY Zenon, <2>1 DEF IInv, TypeOK, SchedTypeOK
  <2>4. \A u \in Thread : status'[u] = "BLOCKED" => u = new \/ status[u] = "BLOCKED"
    BY Zenon, <2>3
  <2>5. child'[t] = new /\ \A u \in Thread, c \in Thread : child[c] = u => child'[c] = u
    BY Zenon, <2>2, <2>3, SchedAssumption
  <2> QED BY Zenon, <1>1, <2>4, <2>5 DEF BlockedAccounted
<1> QED BY Zenon, <1>2, <1>3

\* Every step keeps the blocked threads accounted for.
LEMMA NextAccounted ==
  ASSUME IInv, BlockedAccounted, [Next]_vars
  PROVE  BlockedAccounted'
<1>1. ASSUME UNCHANGED <<waiters, child, status, idle_thread>> PROVE BlockedAccounted'
  BY Zenon, <1>1, StillAccounted
<1>2. ASSUME thread_yield, UNCHANGED <<waiters, child>>
      PROVE  BlockedAccounted'
  <2>1. /\ idle_thread' = idle_thread
        /\ \A t \in Thread : status'[t] = "BLOCKED" => status[t] = "BLOCKED"
    BY Zenon, <1>2, IInvSchedOK, YieldStep
  <2> QED BY Zenon, <1>2, <2>1, StillAccounted
<1>3. ASSUME NEW t \in Thread, KernelStep(t)
      PROVE  BlockedAccounted'
  <2>1. CASE CreateInit(t, "idle_init") \/ CreateUnblock(t)
    BY Zenon, <2>1, CreateAccounted
  <2>2. CASE StartEnable(t) \/ IdleHalt(t) \/ DownPass(t)
    BY Zenon, <1>1, <2>2 DEF StartEnable, IdleHalt, DownPass, sema_down_pass, semaVars
  <2>3. CASE IdleInit(t)
    <3>1. idle_thread = NULL
      BY Zenon, <2>3 DEF IdleInit, IInv, BootInv
    <3> QED BY Zenon, <2>3, <3>1, StillAccounted DEF IdleInit, semaVars
  <2>4. CASE IdleUp(t)
    BY Zenon, <2>4, UpAccounted, ThreadsAssumption DEF IdleUp
  <2>5. CASE IdleBlock(t)
    <3>1. cur = idle_thread /\ thread_block /\ UNCHANGED <<waiters, child>> /\ pc[cur] = "idle_block"
      BY Zenon, <2>5 DEF IdleBlock, Running, IInv, PcIdle, semaVars
    <3>2. ready_list = <<>> => idle_thread # NULL
      BY Zenon, <3>1, CanSwitch
    <3>3. /\ idle_thread' = idle_thread
          /\ \A u \in Thread : status'[u] = "BLOCKED" => status[u] = "BLOCKED" \/ u = cur
      BY Zenon, <3>1, <3>2, IInvSchedOK, BlockStep
    <3> QED BY Zenon, <3>1, <3>3, StillAccounted
  <2>6. CASE DownSleep(t)
    BY Zenon, <2>6, SleepAccounted
  <2> QED BY Zenon, <1>3, <2>1, <2>2, <2>3, <2>4, <2>5, <2>6 DEF KernelStep
<1>4. ASSUME NEW t \in Thread, BodyStep(t)
      PROVE  BlockedAccounted'
  <2>1. CASE CreateInit(t, "body")
    BY Zenon, <2>1, CreateAccounted
  <2>2. CASE Yield(t)
    BY Zenon, <1>2, <2>2 DEF Yield, semaVars
  <2>3. CASE Exit(t)
    <3>1. /\ thread_die /\ UNCHANGED <<waiters, child>> /\ pc[cur] = "body"
          /\ cur # idle_thread
      BY <2>3 DEF Exit, Running, semaVars, IInv, PcIdle
    <3>2. ready_list = <<>> => idle_thread # NULL
      BY Zenon, <3>1, CanSwitch
    <3>3. /\ idle_thread' = idle_thread
          /\ \A u \in Thread : status'[u] = "BLOCKED" => status[u] = "BLOCKED"
      BY Zenon, <3>1, <3>2, IInvSchedOK, DieStep
    <3> QED BY Zenon, <3>1, <3>3, StillAccounted
  <2>4. ASSUME NEW s \in Event, CallDown(t, s) \/ TryDown(t, s)
        PROVE  BlockedAccounted'
    BY Zenon, <1>1, <2>4 DEF CallDown, TryDown, sema_try_down, schedVars, semaVars
  <2>5. ASSUME NEW s \in Event, Up(t, s)
        PROVE  BlockedAccounted'
    BY Zenon, <2>5, UpAccounted DEF Up, Event
  <2> QED BY Zenon, <1>4, <2>1, <2>2, <2>3, <2>4, <2>5 DEF BodyStep
<1>5. CASE Timer
  <2>1. UNCHANGED <<waiters, child>> /\ thread_tick
    BY Zenon, <1>5 DEF Timer, semaVars
  <2>2. CASE thread_yield
    BY Zenon, <1>2, <2>1, <2>2
  <2>3. CASE UNCHANGED <<status, idle_thread>>
    BY Zenon, <1>1, <2>1, <2>3
  <2> QED BY Zenon, <2>1, <2>2, <2>3 DEF thread_tick
<1>6. ASSUME NEW s \in Event, Device(s)
      PROVE  BlockedAccounted'
  BY Zenon, <1>6, UpAccounted DEF Device, Event
<1>7. CASE Resumes \/ UNCHANGED vars
  BY Zenon, <1>1, <1>7 DEF Resumes, Resume, vars, schedVars, semaVars
<1> QED BY Zenon, <1>3, <1>4, <1>5, <1>6, <1>7 DEF Next

\* Threads are accounted for, however many there are: no thread is blocked
\* without somebody who can wake it, and the list of all threads is exact.
THEOREM ThreadsAccounted == Spec => []Accounted
<1>1. Init => BlockedAccounted /\ AllPlaced
  BY SchedAssumption DEF Init, thread_init, BlockedAccounted, AllPlaced
<1>2. IInv /\ BlockedAccounted /\ AllPlaced /\ [Next]_vars => BlockedAccounted' /\ AllPlaced'
  BY Zenon, NextAccounted, NextAllPlaced
<1>3. IInv /\ BlockedAccounted /\ AllPlaced => Accounted
  BY Zenon, AllListPlaced DEF Accounted, IInv
<1> QED BY <1>1, <1>2, <1>3, Invariance, PTL DEF Spec

----------------------------------------------------------------------------
(* The run queue is first in, first out. *)

\* schedule() takes the front of the queue; what thread_yield() added is
\* behind everybody else.
LEMMA ScheduleInOrder ==
  ASSUME ready_list \in Seq(Thread), NEW ss, NEW q, schedule(ss, q),
         q = ready_list \/ \E t \in Thread : q = Append(ready_list, t)
  PROVE  InOrder
<1>1. /\ q \in Seq(Thread) /\ Len(q) >= Len(ready_list)
      /\ \A i \in 1 .. Len(ready_list) : q[i] = ready_list[i]
  OBVIOUS
<1>2. CASE q = <<>>
  BY <1>1, <1>2 DEF InOrder
<1>3. CASE q # <<>>
  <2>1. ready_list' = Tail(q) /\ cur' = Head(q)
    BY Zenon, <1>3 DEF schedule, next_thread_to_run
  <2>2. /\ Len(Tail(q)) = Len(q) - 1 /\ Head(q) = q[1]
        /\ \A i \in 1 .. Len(q) - 1 : Tail(q)[i] = q[i + 1]
    BY <1>1, <1>3
  <2> QED BY <1>1, <2>1, <2>2 DEF InOrder
<1> QED BY Zenon, <1>2, <1>3

\* A step that leaves the queue alone or adds at its end.
LEMMA KeepsOrder ==
  ASSUME ready_list \in Seq(Thread),
         ready_list' = ready_list \/ \E t \in Thread : ready_list' = Append(ready_list, t)
  PROVE  InOrder
BY DEF InOrder

\* Every step leaves the ready threads in their order.
LEMMA NextInOrder ==
  ASSUME IInv, [Next]_vars
  PROVE  InOrder
<1>0. ready_list \in Seq(Thread) /\ cur \in Thread
  BY Zenon DEF IInv, TypeOK, SchedTypeOK
<1>1. ASSUME thread_block \/ thread_die \/ thread_yield
      PROVE  InOrder
  BY Zenon, <1>0, <1>1, ScheduleInOrder DEF thread_block, thread_die, thread_yield
<1>2. ASSUME NEW s \in Sema, sema_up(s)
      PROVE  InOrder
  <2>1. waiters[s] # <<>> => Head(waiters[s]) \in Thread
    BY TailRange, RangeThread DEF IInv
  <2> QED BY Zenon, <1>0, <1>2, <2>1, KeepsOrder DEF sema_up, thread_unblock, schedVars
<1>3. ASSUME NEW t \in Thread, KernelStep(t)
      PROVE  InOrder
  <2>1. CASE CreateUnblock(t)
    <3>1. child[t] \in Thread
      BY <2>1 DEF CreateUnblock, IInv, PcChild, TypeOK
    <3> QED BY Zenon, <1>0, <2>1, <3>1, KeepsOrder DEF CreateUnblock, thread_unblock
  <2>2. CASE IdleUp(t)
    BY Zenon, <1>2, <2>2, ThreadsAssumption DEF IdleUp
  <2>3. CASE IdleBlock(t) \/ DownSleep(t)
    BY Zenon, <1>1, <2>3 DEF IdleBlock, DownSleep, sema_down_sleep
  <2>4. CASE CreateInit(t, "idle_init") \/ StartEnable(t) \/ IdleInit(t) \/ IdleHalt(t) \/ DownPass(t)
    BY Zenon, <1>0, <2>4, KeepsOrder DEF CreateInit, StartEnable, IdleInit, IdleHalt, DownPass, sema_down_pass
  <2> QED BY Zenon, <1>3, <2>1, <2>2, <2>3, <2>4 DEF KernelStep
<1>4. ASSUME NEW t \in Thread, BodyStep(t)
      PROVE  InOrder
  <2>1. CASE Yield(t) \/ Exit(t)
    BY Zenon, <1>1, <2>1 DEF Yield, Exit
  <2>2. CASE CreateInit(t, "body") \/ \E s \in Event : CallDown(t, s) \/ TryDown(t, s)
    BY Zenon, <1>0, <2>2, KeepsOrder DEF CreateInit, CallDown, TryDown, sema_try_down, schedVars
  <2>3. ASSUME NEW s \in Event, Up(t, s)
        PROVE  InOrder
    BY Zenon, <1>2, <2>3 DEF Up, Event
  <2> QED BY Zenon, <1>4, <2>1, <2>2, <2>3 DEF BodyStep
<1>5. CASE Timer
  BY Zenon, <1>0, <1>1, <1>5, KeepsOrder DEF Timer, thread_tick
<1>6. ASSUME NEW s \in Event, Device(s)
      PROVE  InOrder
  BY Zenon, <1>2, <1>6 DEF Device, Event
<1>7. CASE Resumes \/ UNCHANGED vars
  BY Zenon, <1>0, <1>7, KeepsOrder DEF Resumes, Resume, vars, schedVars
<1> QED BY Zenon, <1>3, <1>4, <1>5, <1>6, <1>7 DEF Next

\* The ready threads get the CPU in the order in which they became ready.
THEOREM FirstComeFirstServed == Spec => RoundRobin
<1>1. IInv /\ [Next]_vars => [InOrder]_vars
  BY Zenon, NextInOrder
<1> QED BY <1>1, Invariance, PTL DEF Spec, RoundRobin
=============================================================================
