------------------------------- MODULE Sleep -------------------------------
(***************************************************************************)
(* timer_sleep() (devices/timer.c): threads that call it read the count of *)
(* ticks and give way to each other until enough ticks have passed.  The   *)
(* count is two words, which the processor reads one after the other.      *)
(***************************************************************************)
EXTENDS Integers

CONSTANTS
  Thread,
  LOW,        \* the low word of the count goes from 0 to LOW - 1
  Wants,      \* ticks a thread asks to sleep
  MaxTicks    \* bound on the ticks

VARIABLES
  low, high,      \* the words of ticks
  pc, want,
  start,          \* what timer_sleep() read first
  called          \* the ticks when it was called

vars == <<low, high, pc, want, start, called>>

Ticks == high * LOW + low

(* The tick counter and the readings of the sleepers stay in range.        *)
TypeOK ==
  /\ low \in 0 .. LOW - 1 /\ high \in Nat
  /\ pc \in [Thread -> {"idle", "start", "loop"}]
  /\ \A t \in Thread : start[t] \in 0 .. MaxTicks /\ called[t] \in 0 .. MaxTicks

Init ==
  /\ low = 0 /\ high = 0
  /\ pc = [t \in Thread |-> "idle"] /\ want = [t \in Thread |-> 0]
  /\ start = want /\ called = want

-----------------------------------------------------------------------------
timer_interrupt ==
  /\ Ticks < MaxTicks
  /\ low' = (low + 1) % LOW
  /\ high' = IF low = LOW - 1 THEN high + 1 ELSE high
  /\ UNCHANGED <<pc, want, start, called>>

(* Without interrupts off, a tick between the words gives the low word     *)
(* before it and the high word after it.                                   *)
MutTicks == {Ticks} \cup (IF low = 0 /\ high > 0 THEN {high * LOW + LOW - 1} ELSE {})

(* The values timer_ticks() may return: it reads with interrupts off.      *)
timer_ticks == {Ticks}

timer_sleep(t, w) ==
  /\ pc[t] = "idle" /\ Ticks + w <= MaxTicks
  /\ pc' = [pc EXCEPT ![t] = "start"] /\ want' = [want EXCEPT ![t] = w]
  /\ called' = [called EXCEPT ![t] = Ticks]
  /\ UNCHANGED <<low, high, start>>

(* The thread may be preempted before it reads the start.  Sleeps that     *)
(* would end beyond the bound on ticks are left out.                       *)
ReadStart(t) ==
  /\ pc[t] = "start"
  /\ IF Ticks + want[t] <= MaxTicks
     THEN /\ \E v \in timer_ticks : start' = [start EXCEPT ![t] = v]
          /\ pc' = [pc EXCEPT ![t] = "loop"] /\ UNCHANGED <<want, called>>
     ELSE /\ pc' = [pc EXCEPT ![t] = "idle"] /\ want' = [want EXCEPT ![t] = 0]
          /\ called' = [called EXCEPT ![t] = 0] /\ UNCHANGED start
  /\ UNCHANGED <<low, high>>

(* timer_elapsed (start) has reached what was asked for; until then the    *)
(* thread yields and looks again.                                          *)
Return(t) ==
  /\ pc[t] = "loop"
  /\ \E v \in timer_ticks : v - start[t] >= want[t]
  /\ pc' = [pc EXCEPT ![t] = "idle"] /\ want' = [want EXCEPT ![t] = 0]
  /\ start' = [start EXCEPT ![t] = 0] /\ called' = [called EXCEPT ![t] = 0]
  /\ UNCHANGED <<low, high>>

Next ==
  \/ timer_interrupt
  \/ \E t \in Thread : (\E w \in Wants : timer_sleep(t, w)) \/ ReadStart(t) \/ Return(t)

Spec == Init /\ [][Next]_vars

-----------------------------------------------------------------------------
(* timer_sleep() does not return before the ticks asked for have passed    *)
(* since the call, also when the low word of the count wraps meanwhile.    *)
SleepsLongEnough ==
  \A t \in Thread : pc[t] = "loop" /\ pc'[t] = "idle" => Ticks - called[t] >= want[t]
=============================================================================
