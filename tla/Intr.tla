-------------------------------- MODULE Intr --------------------------------
(***************************************************************************)
(* Interrupt handling (threads/interrupt.c): the interrupt flag, external  *)
(* interrupts through the two cascaded interrupt controllers, internal     *)
(* ones through interrupt and trap gates, and the switch of threads on the *)
(* way out of an external one.  Every thread keeps the frames of the       *)
(* interrupts it is in; the flags of the module are global.                *)
(***************************************************************************)
EXTENDS Naturals, Sequences, FiniteSets, SequencesExt, FiniteSetsExt

CONSTANTS
  Threads,   \* the threads
  Irqs,      \* external vectors in use; a lower one has priority
  Handled,   \* those with a registered handler
  Preempts,  \* those whose handler may call intr_yield_on_return()
  MaxDepth   \* internal interrupts of a thread within each other

VARIABLES
  cur,       \* the running thread
  IF_,       \* the interrupt flag
  frames,    \* thread -> sequence of [vec, flag, pc]
  level,     \* thread -> old_level of thread_yield(), while it is switched out
  in_external_intr,
  yield_on_return,
  pending,   \* vectors requested at the controllers
  service,   \* vectors in service there
  panic

vars == <<cur, IF_, frames, level, in_external_intr, yield_on_return, pending, service, panic>>

Soft == 0   \* stands for every internal vector
Top(t) == Last(frames[t])
InFrame(pc) == frames[cur] # <<>> /\ Top(cur).pc = pc
SetTop(pc) == frames' = [frames EXCEPT ![cur] = Front(@) \o <<[Last(@) EXCEPT !.pc = pc]>>]
Internals(t) == Cardinality({i \in DOMAIN frames[t] : frames[t][i].vec = Soft})

(* A thread that runs for the first time is in no interrupt and has them   *)
(* on; intr_init() has left nothing in service.                            *)
Init ==
  /\ cur \in Threads
  /\ IF_ = TRUE
  /\ frames = [t \in Threads |-> <<>>]
  /\ level = [t \in Threads |-> TRUE]
  /\ in_external_intr = FALSE
  /\ yield_on_return = FALSE
  /\ pending = {}
  /\ service = {}
  /\ panic = FALSE

(* A device requests an interrupt; a request that waits is not doubled.    *)
Request(irq) ==
  /\ irq \notin pending
  /\ pending' = pending \cup {irq}
  /\ UNCHANGED <<cur, IF_, frames, level, in_external_intr, yield_on_return, service, panic>>

(* The line of the first controller an interrupt arrives on: the second    *)
(* controller, of vectors from 0x28, is connected to line 0x22.            *)
Line(irq) == IF irq < 40 THEN irq ELSE 34
Priority(irq) == 100 * Line(irq) + irq

(* The gate of an external interrupt clears the flag; intr_handler()       *)
(* begins.                                                                 *)
Enter(irq) ==
  /\ IF_' = FALSE
  /\ frames' = [frames EXCEPT ![cur] = Append(@, [vec |-> irq, flag |-> TRUE, pc |-> "handler"])]
  /\ panic' = in_external_intr
  /\ in_external_intr' = TRUE
  /\ yield_on_return' = FALSE
  /\ UNCHANGED <<cur, level>>

(* The processor takes the external interrupt of highest priority unless   *)
(* one of that or a higher priority is in service.                         *)
Deliver(irq) ==
  /\ IF_ /\ irq \in pending
  /\ \A other \in pending : Priority(irq) <= Priority(other)
  /\ \A other \in service : Line(irq) < Line(other)
  /\ pending' = pending \ {irq}
  /\ service' = service \cup {irq, Line(irq)}
  /\ Enter(irq)

(* A request that is withdrawn too late arrives as the lowest line, and    *)
(* the controller has nothing in service for it.                           *)
Spurious ==
  /\ IF_ /\ 39 \in Irqs
  /\ Enter(39)
  /\ UNCHANGED <<pending, service>>

(* An exception, or a system call, of the running thread, in user code or  *)
(* in the kernel: an interrupt gate clears the flag, a trap gate does not. *)
Internal(off) ==
  /\ ~in_external_intr
  /\ frames[cur] = <<>> \/ InFrame("handler")
  /\ Internals(cur) < MaxDepth
  /\ frames' = [frames EXCEPT ![cur] = Append(@, [vec |-> Soft, flag |-> IF_, pc |-> "handler"])]
  /\ IF_' = (IF_ /\ ~off)
  /\ UNCHANGED <<cur, level, in_external_intr, yield_on_return, pending, service, panic>>

(* The handler of an external interrupt, or of none: a vector without one  *)
(* is counted or ignored.                                                  *)
Handler ==
  /\ InFrame("handler") /\ Top(cur).vec # Soft
  /\ yield_on_return' \in (IF Top(cur).vec \in Handled \cap Preempts THEN BOOLEAN ELSE {FALSE})
  /\ SetTop("complete")
  /\ UNCHANGED <<cur, IF_, level, in_external_intr, pending, service, panic>>

(* pic_end_of_interrupt(): a controller drops what it has in service of    *)
(* the highest priority; the second one is told for its vectors only.      *)
pic_end_of_interrupt(irq) ==
  service \ ({Min({n \in service : n < 40} \cup {100})}
             \cup (IF irq >= 40 THEN {Min({n \in service : n >= 40} \cup {100})} ELSE {}))

MutComplete ==
  /\ InFrame("complete")
  /\ panic' = (IF_ \/ ~in_external_intr)
  /\ service' = pic_end_of_interrupt(Top(cur).vec)
  /\ in_external_intr' = yield_on_return
  /\ SetTop(IF yield_on_return THEN "yield" ELSE "iret")
  /\ UNCHANGED <<cur, IF_, level, yield_on_return, pending>>

(* The end of intr_handler() for an external interrupt.                    *)
Complete ==
  /\ InFrame("complete")
  /\ panic' = (IF_ \/ ~in_external_intr)
  /\ service' = pic_end_of_interrupt(Top(cur).vec)
  /\ in_external_intr' = FALSE
  /\ SetTop(IF yield_on_return THEN "yield" ELSE "iret")
  /\ UNCHANGED <<cur, IF_, level, yield_on_return, pending>>

(* thread_yield() to thread t: it asserts that no external interrupt is    *)
(* processed, and is left by t with t's old level, where t called it.      *)
SwitchTo(t, old) ==
  /\ t # cur
  /\ panic' = in_external_intr
  /\ cur' = t
  /\ level' = [level EXCEPT ![cur] = old]
  /\ IF_' = level[t]
  /\ UNCHANGED <<in_external_intr, yield_on_return, pending, service>>

(* intr_handler() yields, with interrupts still off.                       *)
YieldOnReturn(t) ==
  /\ InFrame("yield")
  /\ SetTop("iret")
  /\ SwitchTo(t, IF_)

(* A thread that yields by itself, outside external interrupts.            *)
Yield(t) ==
  /\ frames[cur] = <<>> \/ (InFrame("handler") /\ Top(cur).vec = Soft)
  /\ SwitchTo(t, IF_)
  /\ UNCHANGED frames

(* intr_enable() asserts that no external interrupt is processed; handlers *)
(* of external interrupts never call it.                                   *)
intr_enable ==
  /\ frames[cur] = <<>> \/ (InFrame("handler") /\ Top(cur).vec = Soft)
  /\ ~IF_
  /\ panic' = in_external_intr
  /\ IF_' = TRUE
  /\ UNCHANGED <<cur, frames, level, in_external_intr, yield_on_return, pending, service>>

intr_disable ==
  /\ frames[cur] = <<>> \/ (InFrame("handler") /\ Top(cur).vec = Soft)
  /\ IF_
  /\ IF_' = FALSE
  /\ UNCHANGED <<cur, frames, level, in_external_intr, yield_on_return, pending, service, panic>>

(* The handler of an internal interrupt returns.                           *)
InternalDone ==
  /\ InFrame("handler") /\ Top(cur).vec = Soft
  /\ SetTop("iret")
  /\ UNCHANGED <<cur, IF_, level, in_external_intr, yield_on_return, pending, service, panic>>

(* intr_exit restores the flag of the interrupted code.                    *)
Iret ==
  /\ InFrame("iret")
  /\ IF_' = Top(cur).flag
  /\ frames' = [frames EXCEPT ![cur] = Front(@)]
  /\ UNCHANGED <<cur, level, in_external_intr, yield_on_return, pending, service, panic>>

Next ==
  \/ \E irq \in Irqs : Request(irq) \/ Deliver(irq)
  \/ \E off \in BOOLEAN : Internal(off)
  \/ Spurious \/ Handler \/ Complete \/ InternalDone \/ Iret
  \/ \E t \in Threads : YieldOnReturn(t) \/ Yield(t)
  \/ intr_enable \/ intr_disable

Spec == Init /\ [][Next]_vars

-----------------------------------------------------------------------------
(* A thread whose external interrupt is past its handler has nothing above *)
(* it: external interrupts never interrupt each other.                     *)
TypeOK ==
  /\ pending \subseteq Irqs /\ service \subseteq Irqs \cup {Line(irq) : irq \in Irqs}
  /\ \A t \in Threads : \A i \in DOMAIN frames[t] :
       frames[t][i].vec # Soft => frames[t][i].flag /\ i = Len(frames[t])

(* No assertion on the context of an interrupt or its level fails.         *)
NoPanic == ~panic

(* in_external_intr is set exactly while the running thread is inside the  *)
(* handler of an external interrupt, although it is one flag for all       *)
(* threads and threads are switched within intr_handler().                 *)
ContextIsCurrent ==
  in_external_intr <=> frames[cur] # <<>> /\ Top(cur).vec # Soft /\ Top(cur).pc \in {"handler", "complete"}

(* An interrupt is acknowledged before another thread runs: outside of     *)
(* external handlers nothing is in service, so that none is blocked.       *)
Acknowledged == ~in_external_intr => service = {}

(* A thread that is switched out in an external interrupt gets its flag    *)
(* back: with no frame left the level is the one it yielded with.          *)
OnlyExternalMasked ==
  \A t \in Threads : t # cur /\ frames[t] # <<>> /\ Top(t).vec # Soft => ~level[t] /\ Top(t).flag
=============================================================================
