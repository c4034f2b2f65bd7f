------------------------------ MODULE Console ------------------------------
(***************************************************************************)
(* The kernel console (lib/kernel/console.c) and panics                    *)
(* (lib/kernel/debug.c).  vprintf(), puts(), putbuf() and putchar() all    *)
(* acquire the console, put characters one at a time and release it; a     *)
(* thread can be in several of these calls at once, the lock being made    *)
(* recursive by a counter of its own, and can be preempted between any two *)
(* steps.  A panic prints without the lock, and so do interrupt handlers,   *)
(* which thus leave all of this state alone.                               *)
(***************************************************************************)
EXTENDS Integers, SequencesExt

CONSTANTS
  Thread, NULL,
  MaxChars,   \* bound on the characters of a call
  MaxNest,    \* bound on the calls a thread is in
  MaxLevel    \* bound on panics

VARIABLES
  use_console_lock,
  holder,               \* of console_lock
  console_lock_depth,
  calls,                \* the calls a thread is in, outermost first
  level,                \* of panics
  panicked,             \* the thread that runs debug_panic()
  halted, failed        \* the machine stopped; an assertion failed

lock == <<holder, console_lock_depth>>
panic == <<use_console_lock, level, panicked, halted>>
vars == <<lock, calls, panic, failed>>

Frame == [at : {"acquire", "put", "panic"}, length : 0 .. MaxChars, left : 0 .. MaxChars]

(* The depth and the calls in progress stay within their bounds, and the   *)
(* holder of the lock is a thread.                                         *)
TypeOK ==
  /\ use_console_lock \in BOOLEAN /\ halted \in BOOLEAN /\ failed \in BOOLEAN
  /\ holder \in Thread \cup {NULL} /\ panicked \in Thread \cup {NULL}
  /\ console_lock_depth \in 0 .. MaxNest + MaxLevel /\ level \in 0 .. MaxLevel
  /\ \A t \in Thread : \A i \in DOMAIN calls[t] : calls[t][i] \in Frame

Init ==
  /\ use_console_lock = FALSE /\ holder = NULL /\ console_lock_depth = 0
  /\ calls = [t \in Thread |-> <<>>]
  /\ level = 0 /\ panicked = NULL /\ halted = FALSE /\ failed = FALSE

-----------------------------------------------------------------------------
(* After a panic interrupts stay off, so no other thread runs.             *)
MayRun(t) == ~halted /\ panicked \in {NULL, t}

InCall(t, at) == MayRun(t) /\ calls[t] # <<>> /\ Last(calls[t]).at = at

Top(t) == Last(calls[t])

Outer(t) == Front(calls[t])

(* main() enables locking before there are other threads to print.         *)
console_init ==
  /\ ~use_console_lock /\ panicked = NULL
  /\ \A t \in Thread : calls[t] = <<>>
  /\ use_console_lock' = TRUE
  /\ UNCHANGED <<lock, calls, level, panicked, halted, failed>>

(* A thread enters vprintf(), puts(), putbuf() or putchar(), with n        *)
(* characters to print.                                                    *)
Enter(t, n) ==
  /\ MayRun(t) /\ panicked = NULL /\ Len(calls[t]) < MaxNest
  /\ \A i \in DOMAIN calls[t] : calls[t][i].at = "put"
  /\ use_console_lock \/ \A u \in Thread \ {t} : calls[u] = <<>>
  /\ calls' = [calls EXCEPT ![t] = Append(@, [at |-> "acquire", length |-> n, left |-> n])]
  /\ UNCHANGED <<lock, panic, failed>>

MutAcquire(t) ==
  /\ InCall(t, "acquire")
  /\ use_console_lock => holder \in {NULL, t}
  /\ holder' = IF use_console_lock THEN t ELSE holder
  /\ console_lock_depth' = console_lock_depth
  /\ calls' = [calls EXCEPT ![t] = Append(Outer(t), [Top(t) EXCEPT !.at = "put"])]
  /\ UNCHANGED <<panic, failed>>

(* Waits while another thread holds the lock.                              *)
acquire_console(t) ==
  /\ InCall(t, "acquire")
  /\ use_console_lock => holder \in {NULL, t}
  /\ holder' = IF use_console_lock THEN t ELSE holder
  /\ console_lock_depth' =
       IF use_console_lock /\ holder = t THEN console_lock_depth + 1 ELSE console_lock_depth
  /\ calls' = [calls EXCEPT ![t] = Append(Outer(t), [Top(t) EXCEPT !.at = "put"])]
  /\ UNCHANGED <<panic, failed>>

putchar_have_lock(t) ==
  /\ InCall(t, "put") /\ Top(t).left > 0
  /\ failed' = (failed \/ (use_console_lock /\ holder # t))
  /\ calls' = [calls EXCEPT ![t] = Append(Outer(t), [Top(t) EXCEPT !.left = @ - 1])]
  /\ UNCHANGED <<lock, panic>>

(* lock_release() asserts that the thread holds the lock.                  *)
release_console(t) ==
  /\ InCall(t, "put") /\ Top(t).left = 0
  /\ calls' = [calls EXCEPT ![t] = Outer(t)]
  /\ IF ~use_console_lock THEN UNCHANGED <<lock, failed>>
     ELSE IF console_lock_depth > 0
     THEN /\ console_lock_depth' = console_lock_depth - 1
          /\ UNCHANGED <<holder, failed>>
     ELSE /\ failed' = (failed \/ holder # t)
          /\ holder' = NULL
          /\ UNCHANGED console_lock_depth
  /\ UNCHANGED panic

-----------------------------------------------------------------------------
(* A thread fails, perhaps in a call that prints, perhaps while it reports *)
(* an earlier failure.  The first report prints a message, a second one    *)
(* says so, a third prints nothing.                                        *)
MutPanic(t) ==
  /\ MayRun(t) /\ level < MaxLevel
  /\ level' = level + 1 /\ panicked' = t
  /\ calls' = [calls EXCEPT ![t] = @ \o <<[at |-> "panic", length |-> 0, left |-> 0]>>
                 \o (IF level < 2 THEN <<[at |-> "acquire", length |-> 1, left |-> 1]>> ELSE <<>>)]
  /\ UNCHANGED <<lock, use_console_lock, halted, failed>>

debug_panic(t) ==
  /\ MayRun(t) /\ level < MaxLevel
  /\ use_console_lock' = FALSE
  /\ level' = level + 1 /\ panicked' = t
  /\ calls' = [calls EXCEPT ![t] = @ \o <<[at |-> "panic", length |-> 0, left |-> 0]>>
                 \o (IF level < 2 THEN <<[at |-> "acquire", length |-> 1, left |-> 1]>> ELSE <<>>)]
  /\ UNCHANGED <<lock, halted, failed>>

(* The report ends: serial_flush(), shutdown() and a loop for ever.        *)
Halt(t) ==
  /\ InCall(t, "panic")
  /\ halted' = TRUE
  /\ UNCHANGED <<lock, calls, use_console_lock, level, panicked, failed>>

Step(t) == acquire_console(t) \/ putchar_have_lock(t) \/ release_console(t) \/ Halt(t)

Next ==
  \/ console_init
  \/ \E t \in Thread :
       \/ \E n \in 0 .. MaxChars : Enter(t, n)
       \/ acquire_console(t) \/ putchar_have_lock(t) \/ release_console(t)
       \/ debug_panic(t) \/ Halt(t)

Spec == Init /\ [][Next]_vars

-----------------------------------------------------------------------------
(* u is in the middle of its output.                                       *)
Midway(u) == \E i \in DOMAIN calls[u] : calls[u][i].left < calls[u][i].length

Puts(t) == Len(calls'[t]) = Len(calls[t]) /\ calls[t] # <<>> /\ Last(calls'[t]).left < Top(t).left

(* While one thread is in the middle of its output no other prints, unless *)
(* the kernel panics: "this lock is useful to prevent simultaneous         *)
(* printf() calls from mixing their output".                               *)
NotMixed ==
  \A t \in Thread : Puts(t) /\ panicked = NULL => \A u \in Thread \ {t} : ~Midway(u)

(* The lock is held by the thread that prints, once for each of its calls: *)
(* the counter, shared by all threads, is that of the holder.              *)
DepthMatches ==
  use_console_lock =>
    LET acquired(t) == Len(SelectSeq(calls[t], LAMBDA f : f.at = "put"))
    IN  /\ \A t \in Thread \ {holder} : acquired(t) = 0
        /\ holder # NULL => acquired(holder) = console_lock_depth + 1
        /\ holder = NULL => console_lock_depth = 0

(* The assertions of putchar_have_lock() and lock_release() hold.          *)
NoAssertionFails == ~failed
=============================================================================
