------------------------------ MODULE Process ------------------------------
(***************************************************************************)
(* The life of user processes: process_execute(), start_process(),         *)
(* process_wait() and the exit path (userprog/process.c, the exec, wait    *)
(* and exit system calls of userprog/syscall.c, thread_exit() and the      *)
(* lookups of threads/thread.c).  Processes may be preempted between any   *)
(* two of the steps below.                                                 *)
(*                                                                         *)
(* A process is named by the page its struct thread lives in.  The page is *)
(* freed (and overwritten with 0xcc) when the process dies and may be      *)
(* given to another, while pointers to it remain.                          *)
(***************************************************************************)
EXTENDS Integers, Sequences, FiniteSets, TLC

CONSTANTS
  Page,
  main,    \* the page of the initial thread, which runs run_task()
  Code,    \* what programs pass to exit()
  JUNK,    \* an exit_code field that nobody has written
  NULL,
  MaxTid,  \* bound on the number of processes ever created
  MaxSubs  \* bound on the length of a sub_threads list, which never shrinks

ASSUME ProcessAssumption ==
  /\ main \in Page
  /\ Code \subseteq Int
  /\ JUNK \notin Int /\ NULL \notin Page \cup Int \cup {JUNK} \cup [st : Page, tid : Int]
  /\ MaxTid \in Nat \ {0} /\ MaxSubs \in Nat

Tid == 1 .. MaxTid
ERROR == -1                  \* TID_ERROR, and the failure of wait()
Value == Code \cup {ERROR, JUNK}

VARIABLES
  tid,      \* tid[p], 0 in a free page
  state,    \* state[p]: "ready" stands for THREAD_READY and THREAD_RUNNING
  pt,       \* pt[p]: the page of the parent
  waited,   \* is_waited_by_parent
  subs,     \* subs[p]: the sub_threads list
  pc,       \* where p is
  arg,      \* arg[p]: the child, and its tid, of the function p is in
  next_tid,
  panic,    \* an assertion has failed, or the kernel followed a pointer to 0xcc
  parent,   \* history: parent[n] is the tid of n's creator
  ended     \* history: ended[n] is the status n ended with

heap == <<tid, state, pt, waited, subs, next_tid>>
vars == <<heap, pc, arg, panic, parent, ended>>

PC == {"none", "load", "user", "register", "task_wait", "wait_check", "wait_set", "wait_block",
       "wait_resume", "exit_flag", "exit_die", "fault"}

\* struct sub_thread, a child in its parent's list.
sub_thread == [pid : Tid \cup {ERROR}, exit_code : Value]

\* Every tid, parent, exit code and step of a process is one that the code
\* can store.
TypeOK ==
  /\ tid \in [Page -> 0 .. MaxTid]
  /\ state \in [Page -> {"free", "ready", "blocked", "dying"}]
  /\ pt \in [Page -> Page \cup {NULL}]
  /\ waited \in [Page -> BOOLEAN]
  /\ subs \in [Page -> Seq(sub_thread)]
  /\ pc \in [Page -> PC]
  /\ arg \in [Page -> [st : Page, tid : Tid] \cup {NULL}]
  /\ next_tid \in 1 .. MaxTid + 1
  /\ panic \in BOOLEAN
  /\ parent \in [Tid -> Tid \cup {NULL}]
  /\ ended \in [Tid -> Value \cup {NULL}]

\* The initial thread, just before run_actions().
Init ==
  /\ tid = [p \in Page |-> IF p = main THEN 1 ELSE 0]
  /\ state = [p \in Page |-> IF p = main THEN "ready" ELSE "free"]
  /\ pt = [p \in Page |-> NULL]
  /\ waited = [p \in Page |-> FALSE]
  /\ subs = [p \in Page |-> <<>>]
  /\ pc = [p \in Page |-> IF p = main THEN "user" ELSE "none"]
  /\ arg = [p \in Page |-> NULL]
  /\ next_tid = 2
  /\ panic = FALSE
  /\ parent = [n \in Tid |-> NULL]
  /\ ended = [n \in Tid |-> NULL]

At(p, l) == state[p] = "ready" /\ pc[p] = l /\ ~panic

Goto(p, l) == pc' = [pc EXCEPT ![p] = l]

\* A function is entered with argument a, or left (NULL).
Enter(p, l, a) ==
  /\ arg' = [arg EXCEPT ![p] = a]
  /\ Goto(p, l)

\* thread_exit() without exit(), to be reported as -1 (process.c:251).
Killed(p) == ended' = [ended EXCEPT ![tid[p]] = ERROR]

----------------------------------------------------------------------------
(* exec *)

\* thread_create_with_pt(): a free page becomes a process that is ready to
\* run.  Interrupts are off, but the page allocator and malloc() may make the
\* caller wait for a lock afterwards.
thread_create_with_pt(p, q) ==
  /\ state[q] = "free" /\ next_tid <= MaxTid
  /\ tid' = [tid EXCEPT ![q] = next_tid]
  /\ state' = [state EXCEPT ![q] = "ready"]
  /\ pt' = [pt EXCEPT ![q] = p]
  /\ waited' = [waited EXCEPT ![q] = FALSE]
  /\ subs' = [subs EXCEPT ![q] = <<>>]
  /\ next_tid' = next_tid + 1
  /\ pc' = [pc EXCEPT ![q] = "load", ![p] = "register"]
  /\ arg' = [arg EXCEPT ![p] = [st |-> q, tid |-> next_tid]]
  /\ parent' = [parent EXCEPT ![next_tid] = tid[p]]
  /\ UNCHANGED <<panic, ended>>

\* process_execute(), up to the creation of the thread.  When that fails a
\* sub_thread is recorded all the same, for TID_ERROR.
process_execute(p) ==
  /\ At(p, "user") /\ Len(subs[p]) < MaxSubs
  /\ \/ \E q \in Page : thread_create_with_pt(p, q)
     \/ /\ subs' = [subs EXCEPT ![p] = Append(@, [pid |-> ERROR, exit_code |-> JUNK])]
        /\ UNCHANGED <<tid, state, pt, waited, next_tid, pc, arg, panic, parent, ended>>

\* The rest of process_execute(): malloc() of the sub_thread may fail, and its
\* exit_code is not initialised.
Register(p) ==
  /\ At(p, "register")
  /\ \/ subs' = [subs EXCEPT ![p] = Append(@, [pid |-> arg[p].tid, exit_code |-> JUNK])]
     \/ UNCHANGED subs
  /\ IF p = main THEN Enter(p, "task_wait", arg[p]) ELSE Enter(p, "user", NULL)
  /\ UNCHANGED <<tid, state, pt, waited, next_tid, panic, parent, ended>>

\* start_process(): load() succeeds or fails.
start_process(p) ==
  /\ At(p, "load")
  /\ \/ Goto(p, "user") /\ UNCHANGED ended
     \/ Goto(p, "exit_flag") /\ Killed(p)
  /\ UNCHANGED <<heap, arg, panic, parent>>

----------------------------------------------------------------------------
(* wait *)

\* The loop returns in its first iteration, whatever the pid.
get_exit_code(p) == IF subs[p] = <<>> THEN ERROR ELSE Head(subs[p]).exit_code

\* all_list has every thread that is not freed, dying or free.
get_thread_by_pid(n) == {q \in Page : tid[q] = n /\ state[q] \in {"ready", "blocked"}}

\* process_wait(): the lookup switches interrupts back on.
process_wait(p, n) ==
  /\ \/ At(p, "user") /\ p # main
     \/ At(p, "task_wait") /\ n = arg[p].tid
  /\ \/ \E st \in get_thread_by_pid(n) : Enter(p, "wait_check", [st |-> st, tid |-> n])
     \/ get_thread_by_pid(n) = {} /\ Enter(p, "user", NULL)
  /\ UNCHANGED <<heap, panic, parent, ended>>

\* is_waited_by_parent in a freed page is 0xcc, true.
WaitCheck(p) ==
  /\ At(p, "wait_check")
  /\ LET st == arg[p].st
     IN  IF state[st] = "free" \/ waited[st] \/ pt[st] # p   \* return -1
         THEN Enter(p, "user", NULL)
         ELSE Goto(p, "wait_set") /\ UNCHANGED arg
  /\ UNCHANGED <<heap, panic, parent, ended>>

WaitSet(p) ==
  /\ At(p, "wait_set")
  /\ waited' = [waited EXCEPT ![arg[p].st] = TRUE]
  /\ Goto(p, "wait_block")
  /\ UNCHANGED <<tid, state, pt, subs, next_tid, arg, panic, parent, ended>>

\* thread_block()
WaitBlock(p) ==
  /\ At(p, "wait_block")
  /\ state' = [state EXCEPT ![p] = "blocked"]
  /\ Goto(p, "wait_resume")
  /\ UNCHANGED <<tid, pt, waited, subs, next_tid, arg, panic, parent, ended>>

WaitResume(p) ==
  /\ At(p, "wait_resume")
  /\ Enter(p, "user", NULL)
  /\ UNCHANGED <<heap, panic, parent, ended>>

----------------------------------------------------------------------------
(* exit *)

\* Mutant: the code goes to the first entry that has none yet.
MutReport(p, code) ==
  LET list == subs[pt[p]]
      open == {i \in DOMAIN list : list[i].exit_code = JUNK}
  IN  subs' = [subs EXCEPT ![pt[p]] =
                 [i \in DOMAIN list |->
                    IF i \in open /\ \A j \in open : i <= j
                    THEN [list[i] EXCEPT !.exit_code = code] ELSE list[i]]]

\* The first entry of the parent's list with this pid gets the code.
Report(p, code) ==
  LET list == subs[pt[p]]
      mine == {i \in DOMAIN list : list[i].pid = tid[p]}
  IN  subs' = [subs EXCEPT ![pt[p]] =
                 [i \in DOMAIN list |->
                    IF i \in mine /\ \A j \in mine : i <= j
                    THEN [list[i] EXCEPT !.exit_code = code] ELSE list[i]]]

\* A parent page that was freed holds no list.
Tell(p, code) ==
  IF state[pt[p]] = "free"
  THEN panic' = TRUE /\ UNCHANGED subs
  ELSE Report(p, code) /\ UNCHANGED panic

\* exit(), also called by get_arg_pointer(): the code goes to the parent.  Its
\* loop over the children writes to none of them: it takes the sub_thread for
\* a thread.
exit(p, code) ==
  /\ At(p, "user") /\ p # main
  /\ Tell(p, code)
  /\ ended' = [ended EXCEPT ![tid[p]] = code]
  /\ Goto(p, "exit_flag")
  /\ UNCHANGED <<tid, state, pt, waited, next_tid, arg, parent>>

\* An unknown system call, a null stack pointer or kill().
exit_unknown(p) ==
  /\ At(p, "user") /\ p # main
  /\ Killed(p)
  /\ Enter(p, "exit_flag", NULL)
  /\ UNCHANGED <<heap, panic, parent>>

\* main() returns from run_actions() and exits.
main_exit ==
  /\ At(main, "user")
  /\ Killed(main)
  /\ Enter(main, "exit_flag", NULL)
  /\ UNCHANGED <<heap, panic, parent>>

\* Mutant: the process goes on with its program.
MutInvalidExit(p) ==
  /\ At(p, "user") /\ p # main
  /\ Tell(p, ERROR)
  /\ UNCHANGED <<tid, state, pt, waited, next_tid, pc, arg, parent, ended>>

\* process_invalid_exit(): the process is not terminated; it goes on to read
\* through the invalid stack pointer.
process_invalid_exit(p) ==
  /\ At(p, "user") /\ p # main
  /\ Tell(p, ERROR)
  /\ Goto(p, "fault")
  /\ UNCHANGED <<tid, state, pt, waited, next_tid, arg, parent, ended>>

\* page_fault() counts the fault and returns to the same instruction.
page_fault(p) ==
  /\ At(p, "user") /\ p # main
  /\ Enter(p, "fault", NULL)
  /\ UNCHANGED <<heap, panic, parent, ended>>

\* thread_exit(): process_exit(), then a parent that has set the flag is
\* unblocked; thread_unblock() asserts that it is blocked.
ExitFlag(p) ==
  /\ At(p, "exit_flag")
  /\ LET q == pt[p]
     IN  IF waited[p] /\ q # NULL
         THEN IF state[q] = "blocked"
              THEN state' = [state EXCEPT ![q] = "ready"] /\ UNCHANGED panic
              ELSE panic' = TRUE /\ UNCHANGED state
         ELSE UNCHANGED <<state, panic>>
  /\ Goto(p, "exit_die")
  /\ UNCHANGED <<tid, pt, waited, subs, next_tid, arg, parent, ended>>

\* The rest of thread_exit(), and palloc_free_page() by the next thread; the
\* initial thread's page is never freed.
ExitDie(p) ==
  /\ At(p, "exit_die")
  /\ IF p = main
     THEN state' = [state EXCEPT ![p] = "dying"] /\ UNCHANGED <<tid, pt, waited, subs>>
     ELSE /\ state' = [state EXCEPT ![p] = "free"]
          /\ tid' = [tid EXCEPT ![p] = 0]
          /\ pt' = [pt EXCEPT ![p] = NULL]
          /\ waited' = [waited EXCEPT ![p] = FALSE]
          /\ subs' = [subs EXCEPT ![p] = <<>>]
  /\ Enter(p, "none", NULL)
  /\ UNCHANGED <<next_tid, panic, parent, ended>>

----------------------------------------------------------------------------

\* Steps inside the kernel.
Continue(p) ==
  \/ Register(p) \/ start_process(p)
  \/ WaitCheck(p) \/ WaitSet(p) \/ WaitBlock(p) \/ WaitResume(p)
  \/ ExitFlag(p) \/ ExitDie(p)
  \/ p = main /\ \E n \in Tid : process_wait(p, n)

\* System calls and faults of a program; main() runs another task.
Call(p) ==
  \/ process_execute(p)
  \/ p # main /\ \E n \in Tid : process_wait(p, n)
  \/ \E code \in Code : exit(p, code)
  \/ exit_unknown(p) \/ process_invalid_exit(p) \/ page_fault(p)

Next == main_exit \/ \E p \in Page : Continue(p) \/ Call(p)

Spec == Init /\ [][Next]_vars

\* Only the page of the initial thread differs from the others.
Symmetry == Permutations(Page \ {main})

\* Memory does not run out and no program faults: a bound for a search.
Calm ==
  \A p \in Page :
    /\ pc[p] # "fault"
    /\ state[p] # "free" /\ pc[p] # "register" =>
         Len(subs[p]) = Cardinality({n \in Tid : parent[n] = tid[p]})

----------------------------------------------------------------------------
(* Properties *)

Alive(p) == state[p] \in {"ready", "blocked"}

\* The child that p waits for, from the test of its flag on.
WaitsFor(p, n) ==
  pc[p] \in {"wait_set", "wait_block", "wait_resume"} /\ arg[p].tid = n

\* A process is recorded in one list at most, its parent's, under its own tid
\* (allocate_tid() never repeats one), although lists are found through pages
\* that may since belong to another process.
RecordedOnce ==
  /\ \A p, q \in Page : Alive(p) /\ Alive(q) /\ tid[p] = tid[q] => p = q
  /\ \A p \in Page : \A i \in DOMAIN subs[p] :
       LET n == subs[p][i].pid
       IN  n # ERROR => /\ parent[n] = tid[p]
                        /\ \A j \in DOMAIN subs[p] : subs[p][j].pid = n => j = i

\* An exit_code that somebody wrote is what that very child passed to exit(),
\* or the -1 of process_invalid_exit().
CodeIsChilds ==
  \A p \in Page : \A i \in DOMAIN subs[p] :
    LET e == subs[p][i]
    IN  e.exit_code \notin {JUNK, ERROR} => e.pid # ERROR /\ e.exit_code = ended[e.pid]

\* What sub_threads lists record is right, although pages are reused under
\* the pointers that lead to them.
ChildrenRecorded == TypeOK /\ RecordedOnce /\ CodeIsChilds

\* The entry of a child keeps its place and its pid as long as its parent
\* lives, and a status that the child has left in it is final.
KeepsStatus ==
  \A p \in Page : tid'[p] = tid[p] =>
    \A i \in DOMAIN subs[p] :
      /\ i \in DOMAIN subs'[p] /\ subs'[p][i].pid = subs[p][i].pid
      /\ subs[p][i].exit_code # JUNK => subs'[p][i].exit_code = subs[p][i].exit_code

\* An exit status is written once: nothing the child does after exit() or
\* process_invalid_exit(), and no process that gets its page, writes again.
StatusFinal == [][KeepsStatus]_vars

----------------------------------------------------------------------------
(* The inductive invariant. *)

\* A tid is given once, to the process of one page.
TidsUnique ==
  /\ \A p \in Page : /\ state[p] = "free" <=> tid[p] = 0
                     /\ tid[p] < next_tid
                     /\ \A q \in Page : tid[p] = tid[q] /\ tid[p] # 0 => p = q
  /\ \A n \in Tid : n >= next_tid => parent[n] = NULL /\ ended[n] = NULL

\* Where a process is agrees with its state and the pointers it uses.
PcState ==
  \A p \in Page :
    /\ pc[p] = "none" <=> state[p] \in {"free", "dying"}
    /\ state[p] # "free" /\ p # main => pt[p] # NULL
    /\ pc[p] \in {"register", "task_wait", "wait_check", "wait_set", "wait_block", "wait_resume"}
         => arg[p] # NULL

\* The child that is about to be recorded is the caller's and is not yet.
Unrecorded ==
  \A p \in Page : pc[p] = "register" =>
    /\ parent[arg[p].tid] = tid[p]
    /\ \A i \in DOMAIN subs[p] : subs[p][i].pid # arg[p].tid

\* A process that has ended, or has left a status, does not return to its
\* program, where it could leave another.
EndedGone ==
  /\ \A p \in Page : tid[p] # 0 /\ ended[tid[p]] # NULL => pc[p] \in {"exit_flag", "exit_die", "none"}
  /\ \A p, q \in Page : \A i \in DOMAIN subs[p] :
       subs[p][i].exit_code # JUNK /\ subs[p][i].pid = tid[q] =>
         pc[q] \in {"exit_flag", "exit_die", "none", "fault"}

IInv == /\ TypeOK /\ RecordedOnce /\ CodeIsChilds
        /\ TidsUnique /\ PcState /\ Unrecorded /\ EndedGone

----------------------------------------------------------------------------
(* What comments and documents say and the code does not do *)

\* thread_unblock(): "This is an error if T is not blocked" (thread.c:289).
NoPanic == ~panic

\* process_wait() "Waits for thread TID to die": whoever wakes the sleeping
\* parent, the child it waits for has left for good.
WokenByDeath ==
  [][\A p \in Page, n \in Tid :
       state[p] = "blocked" /\ state'[p] = "ready" /\ WaitsFor(p, n) => ended[n] # NULL]_vars

\* process_wait() "returns its exit status" (process.c:251), the one of TID,
\* when the list has it.
WaitReturnsStatus ==
  [][\A p \in Page, i \in 1 .. MaxSubs :
       LET n == arg[p].tid
       IN  WaitResume(p) /\ i \in DOMAIN subs[p] /\ subs[p][i] = [pid |-> n, exit_code |-> ended[n]]
             => get_exit_code(p) = ended[n]]_vars
=============================================================================
