------------------------------- MODULE Serial ------------------------------
(***************************************************************************)
(* The serial port (devices/serial.c) and the input buffer                 *)
(* (devices/input.c), over interrupt queues (devices/intq.c): circular     *)
(* buffers shared by threads, which may sleep until there is room or a     *)
(* byte, and interrupt handlers, which may not.                            *)
(*                                                                         *)
(* Interrupts are off from the start of a call to its end, so a call runs  *)
(* without interruption until it sleeps: for the lock of the queue, or in  *)
(* wait().  Bytes are numbered in the order they are handed over.          *)
(***************************************************************************)
EXTENDS Integers, FiniteSets, SequencesExt

CONSTANTS
  Writer,         \* threads that call serial_putc()
  Reader,         \* threads that call input_getc()
  INTQ_BUFSIZE,
  NULL,
  MaxOut, MaxIn   \* bounds on the bytes put and on the bytes received

Threads == Writer \cup Reader

VARIABLES
  mode,           \* of the port: UNINIT, POLL or QUEUE
  txq, buffer,    \* the interrupt queues: head, tail and buf
  lock, waiter,   \* of the queue of writers and of readers: lock, not_full, not_empty
  sleepers,       \* threads asleep for the lock
  pc,
  ier,            \* what the interrupt enable register enables
  thr, rbr,       \* the port: the byte in THR, or 0; -1 when RBR holds a byte
  put, wire,      \* bytes given to serial_putc(), and sent, so far
  come, got,      \* bytes received or typed, and returned by input_getc(), so far
  panic

queues == <<txq, buffer>>
blocking == <<lock, waiter, sleepers, pc>>
port == <<thr, rbr>>
vars == <<mode, queues, blocking, ier, port, put, wire, come, got, panic>>

PC == {"idle", "enter", "lock", "retry", "wait", "woken"}

-----------------------------------------------------------------------------
(* Interrupt queues.                                                       *)

next(pos) == (pos + 1) % INTQ_BUFSIZE

intq_init == [head |-> 0, tail |-> 0, buf |-> [i \in 0 .. INTQ_BUFSIZE - 1 |-> 0]]

intq_empty(q) == q.head = q.tail

intq_full(q) == next(q.head) = q.tail

Added(q, byte) == [q EXCEPT !.buf[q.head] = byte, !.head = next(q.head)]

Taken(q) == [q EXCEPT !.tail = next(q.tail)]

First(q) == q.buf[q.tail]

(* The bytes in q, oldest first.                                           *)
Held(q) ==
  LET n == (q.head - q.tail + INTQ_BUFSIZE) % INTQ_BUFSIZE
  IN  [i \in 1 .. n |-> q.buf[(q.tail + i - 1) % INTQ_BUFSIZE]]

(* Writers wait for room in txq, readers for a byte in buffer.             *)
Kind(t) == IF t \in Writer THEN "writers" ELSE "readers"

MustWait(t) == IF t \in Writer THEN intq_full(txq) ELSE intq_empty(buffer)

MutSignal(pcs, kind) == pcs

(* signal(): pcs after the thread that waits, if any, is unblocked.        *)
signal(pcs, kind) == IF waiter[kind] = NULL THEN pcs ELSE [pcs EXCEPT ![waiter[kind]] = "woken"]

(* The two queues, the enable register and the callers' steps stay in      *)
(* range.                                                                  *)
TypeOK ==
  /\ mode \in {"UNINIT", "POLL", "QUEUE"}
  /\ lock \in [{"writers", "readers"} -> Threads \cup {NULL}]
  /\ waiter \in [{"writers", "readers"} -> Threads \cup {NULL}]
  /\ pc \in [Threads -> PC]
  /\ ier \subseteq {"XMIT", "RECV"}
  /\ {txq.head, txq.tail, buffer.head, buffer.tail} \subseteq 0 .. INTQ_BUFSIZE - 1

Init ==
  /\ mode = "UNINIT" /\ txq = intq_init /\ buffer = intq_init
  /\ lock = [k \in {"writers", "readers"} |-> NULL] /\ waiter = lock
  /\ sleepers = [k \in {"writers", "readers"} |-> <<>>]
  /\ pc = [t \in Threads |-> "idle"]
  /\ ier = {} /\ thr = 0 /\ rbr = 0
  /\ put = 0 /\ wire = <<>> /\ come = 0 /\ got = <<>> /\ panic = FALSE

-----------------------------------------------------------------------------
MutEvents(tx, in) == (IF intq_full(tx) THEN {"XMIT"} ELSE {}) \cup (IF intq_full(in) THEN {} ELSE {"RECV"})

Events(tx, in) ==
  (IF intq_empty(tx) THEN {} ELSE {"XMIT"}) \cup (IF intq_full(in) THEN {} ELSE {"RECV"})

write_ier(tx, in) == ier' = Events(tx, in)

serial_notify(in) == ier' = IF mode = "QUEUE" THEN Events(txq, in) ELSE ier

(* putc_poll() waits until THR is empty: the byte in it is out by then.    *)
Sent == IF thr = 0 THEN wire ELSE Append(wire, thr)

(* The bytes that calls under way will put.                                *)
Calling == Cardinality({t \in Writer : pc[t] # "idle"})

(* serial_putc() in the other modes polls; init_poll() turns off all       *)
(* interrupts of the port.                                                 *)
serial_putc_poll ==
  /\ mode # "QUEUE" /\ put < MaxOut
  /\ mode' = "POLL" /\ ier' = (IF mode = "UNINIT" THEN {} ELSE ier)
  /\ put' = put + 1 /\ wire' = Sent /\ thr' = put + 1
  /\ UNCHANGED <<queues, blocking, rbr, come, got, panic>>

serial_init_queue ==
  /\ mode # "QUEUE"
  /\ mode' = "QUEUE" /\ write_ier(txq, buffer)
  /\ UNCHANGED <<queues, blocking, port, put, wire, come, got, panic>>

(* serial_putc() with interrupts off never sleeps.                         *)
serial_putc_off(t) ==
  /\ mode = "QUEUE"
  /\ t \in Writer /\ pc[t] = "idle" /\ put + Calling < MaxOut
  /\ put' = put + 1
  /\ LET full == intq_full(txq)
         room == IF full THEN Taken(txq) ELSE txq
         told == IF full THEN signal(pc, "writers") ELSE pc
     IN  /\ txq' = Added(room, put + 1)
         /\ thr' = IF full THEN First(txq) ELSE thr
         /\ wire' = IF full THEN Sent ELSE wire
         /\ pc' = told
         /\ waiter' = IF full THEN [waiter EXCEPT !["writers"] = NULL] ELSE waiter
         /\ write_ier(txq', buffer)
  /\ UNCHANGED <<mode, buffer, lock, sleepers, rbr, come, got, panic>>

(* A thread calls serial_putc() or input_getc() with interrupts on.        *)
Call(t) ==
  /\ pc[t] = "idle" /\ (t \in Writer => mode = "QUEUE" /\ put + Calling < MaxOut)
  /\ pc' = [pc EXCEPT ![t] = "enter"]
  /\ UNCHANGED <<mode, queues, lock, waiter, sleepers, ier, port, put, wire, come, got, panic>>

(* lock_release() of the queue's lock wakes its first sleeper.             *)
Awake(pcs, k) == IF sleepers[k] = <<>> THEN pcs ELSE [pcs EXCEPT ![Head(sleepers[k])] = "retry"]

(* The loop finds nothing to do: lock_acquire() and wait().  A thread that *)
(* wakes up in wait() releases the lock first, and takes it again.         *)
Sleep(t) ==
  /\ pc[t] \in {"enter", "woken"} /\ MustWait(t)
  /\ LET k == Kind(t)
         mine == lock[k] \in {NULL, t}
         told == IF pc[t] = "woken" THEN Awake(pc, k) ELSE pc
         rest == IF pc[t] = "woken" /\ sleepers[k] # <<>> THEN Tail(sleepers[k]) ELSE sleepers[k]
     IN  /\ lock' = IF mine THEN [lock EXCEPT ![k] = t] ELSE lock
         /\ waiter' = IF mine THEN [waiter EXCEPT ![k] = t] ELSE waiter
         /\ pc' = [told EXCEPT ![t] = IF mine THEN "wait" ELSE "lock"]
         /\ sleepers' = [sleepers EXCEPT ![k] = IF mine THEN rest ELSE Append(rest, t)]
  /\ UNCHANGED <<mode, queues, ier, port, put, wire, come, got, panic>>

(* A thread that slept for the lock tries again, and goes on to wait(),    *)
(* which asserts that there is still a reason to wait.                     *)
Retry(t) ==
  /\ pc[t] = "retry"
  /\ LET k == Kind(t)
         mine == lock[k] = NULL
         dead == mine /\ ~MustWait(t)
     IN  /\ lock' = IF mine THEN [lock EXCEPT ![k] = t] ELSE lock
         /\ waiter' = IF mine /\ ~dead THEN [waiter EXCEPT ![k] = t] ELSE waiter
         /\ sleepers' = IF mine THEN sleepers ELSE [sleepers EXCEPT ![k] = Append(@, t)]
         /\ pc' = [pc EXCEPT ![t] = IF dead THEN "retry" ELSE IF mine THEN "wait" ELSE "lock"]
         /\ panic' = (panic \/ dead)
  /\ UNCHANGED <<mode, queues, ier, port, put, wire, come, got>>

(* What a thread that need not wait does after it has released the lock.   *)
Leave(t, told) ==
  LET k == Kind(t)
      woken == pc[t] = "woken"
  IN  /\ lock' = IF woken THEN [lock EXCEPT ![k] = NULL] ELSE lock
      /\ sleepers' = IF woken /\ sleepers[k] # <<>> THEN [sleepers EXCEPT ![k] = Tail(@)] ELSE sleepers
      /\ pc' = [(IF woken THEN Awake(told, k) ELSE told) EXCEPT ![t] = "idle"]

(* The rest of serial_putc().                                              *)
serial_putc(t) ==
  /\ t \in Writer /\ pc[t] \in {"enter", "woken"} /\ ~MustWait(t)
  /\ put' = put + 1
  /\ txq' = Added(txq, put + 1)
  /\ write_ier(txq', buffer)
  /\ Leave(t, pc)
  /\ UNCHANGED <<mode, buffer, waiter, port, wire, come, got, panic>>

(* The rest of input_getc(), with serial_notify().                         *)
input_getc(t) ==
  /\ t \in Reader /\ pc[t] \in {"enter", "woken"} /\ ~MustWait(t)
  /\ buffer' = Taken(buffer)
  /\ got' = Append(got, First(buffer))
  /\ serial_notify(buffer')
  /\ Leave(t, pc)
  /\ UNCHANGED <<mode, txq, waiter, port, put, wire, come, panic>>

-----------------------------------------------------------------------------
(* input_putc(), with serial_notify(), from a handler.                     *)
input_putc(byte) ==
  /\ panic' = (panic \/ intq_full(buffer))
  /\ buffer' = Added(buffer, byte)
  /\ pc' = signal(pc, "readers")
  /\ waiter' = [waiter EXCEPT !["readers"] = NULL]
  /\ serial_notify(buffer')

(* keyboard_interrupt() drops a key when the buffer is full.               *)
keyboard_interrupt ==
  /\ come - rbr < MaxIn /\ ~intq_full(buffer)
  /\ come' = come + 1
  /\ input_putc(come + 1)
  /\ UNCHANGED <<mode, txq, lock, sleepers, port, put, wire, got>>

(* The port receives a byte when the last has been read; THR runs empty.   *)
Receive ==
  /\ rbr = 0 /\ come < MaxIn
  /\ rbr' = -1 /\ UNCHANGED <<mode, queues, blocking, ier, thr, put, wire, come, got, panic>>

Transmit ==
  /\ thr # 0
  /\ thr' = 0 /\ wire' = Append(wire, thr)
  /\ UNCHANGED <<mode, queues, blocking, ier, rbr, put, come, got, panic>>

(* The port interrupts when it has a byte, or room for one, and the event  *)
(* is enabled.  serial_interrupt() receives, then transmits.               *)
serial_interrupt ==
  /\ (rbr # 0 /\ "RECV" \in ier) \/ (thr = 0 /\ "XMIT" \in ier)
  /\ LET in == rbr # 0 /\ ~intq_full(buffer)
         out == thr = 0 /\ ~intq_empty(txq)
         told == IF in THEN signal(pc, "readers") ELSE pc
     IN  /\ buffer' = IF in THEN Added(buffer, come + 1) ELSE buffer
         /\ come' = IF in THEN come + 1 ELSE come
         /\ rbr' = IF in THEN 0 ELSE rbr
         /\ txq' = IF out THEN Taken(txq) ELSE txq
         /\ thr' = IF out THEN First(txq) ELSE thr
         /\ pc' = IF out THEN signal(told, "writers") ELSE told
         /\ waiter' = [k \in DOMAIN waiter |->
                         IF (k = "readers" /\ in) \/ (k = "writers" /\ out) THEN NULL ELSE waiter[k]]
         /\ write_ier(txq', buffer')
  /\ UNCHANGED <<mode, lock, sleepers, put, wire, got, panic>>

(* serial_flush() sends everything by polling; it does not touch the       *)
(* interrupt enable register.                                              *)
serial_flush ==
  /\ ~intq_empty(txq)
  /\ wire' = Sent \o SubSeq(Held(txq), 1, Len(Held(txq)) - 1)
  /\ thr' = Last(Held(txq))
  /\ txq' = [txq EXCEPT !.tail = txq.head]
  /\ pc' = signal(pc, "writers") /\ waiter' = [waiter EXCEPT !["writers"] = NULL]
  /\ UNCHANGED <<mode, buffer, lock, sleepers, ier, rbr, put, come, got, panic>>

-----------------------------------------------------------------------------
Step(t) == Sleep(t) \/ Retry(t) \/ serial_putc(t) \/ input_getc(t)

(* A failed assertion stops the machine.                                   *)
Next ==
  \/ ~panic /\ serial_init_queue
  \/ ~panic /\ serial_putc_poll
  \/ \E t \in Threads : ~panic /\ (serial_putc_off(t) \/ Call(t) \/ Step(t))
  \/ ~panic /\ keyboard_interrupt
  \/ ~panic /\ (Receive \/ Transmit)
  \/ ~panic /\ serial_interrupt
  \/ ~panic /\ serial_flush

Spec == Init /\ [][Next]_vars

-----------------------------------------------------------------------------
(* Every byte given to serial_putc() goes out once and in order: what is   *)
(* on the wire, in THR and in the queue are the bytes put so far, through  *)
(* wrapping of the queue, polling when it is full, and flushing.           *)
OutputInOrder == Sent \o Held(txq) = [i \in 1 .. put |-> i]

(* Likewise for the bytes that come in.                                    *)
InputInOrder == got \o Held(buffer) = [i \in 1 .. come |-> i]

(* The port is told to interrupt whenever there is output to send or room  *)
(* for input, so neither direction stops.                                  *)
Enabled == mode = "QUEUE" =>
  /\ ~intq_empty(txq) => "XMIT" \in ier
  /\ ~intq_full(buffer) => "RECV" \in ier

(* The assertions of wait() and input_putc() hold.                         *)
NoPanic == ~panic

(* A thread sleeps in wait() only while there is a reason to: no wakeup is *)
(* lost.                                                                   *)
NoLostWakeup ==
  \A t \in Threads : pc[t] = "wait" => waiter[Kind(t)] = t /\ MustWait(t) /\ lock[Kind(t)] = t
=============================================================================
