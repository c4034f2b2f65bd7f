------------------------------- MODULE Synch -------------------------------
(***************************************************************************)
(* Locks and condition variables (threads/synch.c) built on semaphores.    *)
(* Threads call them in any order that the functions' assertions allow and *)
(* may be preempted between any two of the steps below.                    *)
(***************************************************************************)
EXTENDS Semaphore

CONSTANTS
  Lock,
  Cond,    \* the condition variables
  lockOf   \* lockOf[c]: the one lock that protects c

ASSUME SynchAssumption ==
  /\ lockOf \in [Cond -> Lock]
  /\ Sema = Lock \cup Thread     \* cond_wait()'s waiter.semaphore is named after its thread
  /\ Lock \cap Thread = {}
  /\ NULL \notin Sema \cup Cond
  /\ MaxValue = 2                \* more than a lock's semaphore ever holds

VARIABLES
  holder,   \* holder[l]: a thread or NULL
  cwaiters, \* cwaiters[c]: the waiting threads on a condition's list
  pc,       \* pc[t]: where t is in a function of synch.c
  lock,     \* lock[t]: the lock argument of the function t is in
  cond,     \* cond[t]: the condition that t waits for or broadcasts to
  signalee  \* signalee[t]: the waiter that cond_signal() took off the list

vars == <<semaphoreVars, holder, cwaiters, pc, lock, cond, signalee>>

\* "run": not in synch.c.
PC == {"run", "acquire", "acquired", "release", "wait_release", "wait_up", "wait",
       "signal", "broadcast", "bc_signal"}

\* Holders are threads or NULL, the lists of waiters hold threads, and
\* every thread is at a known step of a call.
TypeOK ==
  /\ SemaphoreTypeOK
  /\ holder \in [Lock -> Thread \cup {NULL}]
  /\ cwaiters \in [Cond -> Seq(Thread)]
  /\ pc \in [Thread -> PC]
  /\ lock \in [Thread -> Lock \cup {NULL}]
  /\ cond \in [Thread -> Cond \cup {NULL}]
  /\ signalee \in [Thread -> Thread \cup {NULL}]

\* lock_init() and cond_init() of every lock and condition.
Init ==
  /\ value = [s \in Sema |-> IF s \in Lock THEN 1 ELSE 0]
  /\ waiters = [s \in Sema |-> <<>>]
  /\ waitsFor = [t \in Thread |-> NULL]
  /\ holder = [l \in Lock |-> NULL]
  /\ cwaiters = [c \in Cond |-> <<>>]
  /\ pc = [t \in Thread |-> "run"]
  /\ lock = [t \in Thread |-> NULL]
  /\ cond = [t \in Thread |-> NULL]
  /\ signalee = [t \in Thread |-> NULL]

Goto(t, l) == pc' = [pc EXCEPT ![t] = l]

lock_held_by(t, l) == holder[l] = t

----------------------------------------------------------------------------
(* Locks *)

\* lock_acquire(): the assertion, then the call of sema_down().
lock_acquire(t, l) ==
  /\ pc[t] = "run"
  /\ ~lock_held_by(t, l)
  /\ call_down(t, l)
  /\ Goto(t, "acquire")
  /\ lock' = [lock EXCEPT ![t] = l]
  /\ UNCHANGED <<value, waiters, holder, cwaiters, cond, signalee>>

AcquirePass(t) ==
  /\ pc[t] = "acquire"
  /\ down_pass(t)
  /\ Goto(t, "acquired")
  /\ UNCHANGED <<holder, cwaiters, lock, cond, signalee>>

Sleep(t) ==
  /\ down_sleep(t)
  /\ UNCHANGED <<holder, cwaiters, pc, lock, cond, signalee>>

\* lock->holder = thread_current(), the last step of either way to acquire.
SetHolder(t) ==
  /\ pc[t] = "acquired"
  /\ holder' = [holder EXCEPT ![lock[t]] = t]
  /\ lock' = [lock EXCEPT ![t] = NULL]
  /\ cond' = [cond EXCEPT ![t] = NULL]
  /\ Goto(t, "run")
  /\ UNCHANGED <<semaphoreVars, cwaiters, signalee>>

\* Mutant: the result of sema_try_down() is ignored.
MutTryIgnored(t, l) ==
  /\ pc[t] = "run"
  /\ ~lock_held_by(t, l)
  /\ value' = [value EXCEPT ![l] = 0]
  /\ Goto(t, "acquired")
  /\ lock' = [lock EXCEPT ![t] = l]
  /\ UNCHANGED <<waiters, waitsFor, holder, cwaiters, cond, signalee>>

\* lock_try_acquire(), when it succeeds; otherwise it changes nothing.
lock_try_acquire(t, l) ==
  /\ pc[t] = "run"
  /\ ~lock_held_by(t, l)
  /\ try_down(l)
  /\ Goto(t, "acquired")
  /\ lock' = [lock EXCEPT ![t] = l]
  /\ UNCHANGED <<waitsFor, holder, cwaiters, cond, signalee>>

\* lock_release(): clears the holder, then sema_up().
lock_release(t, l) ==
  /\ pc[t] = "run"
  /\ lock_held_by(t, l)
  /\ holder' = [holder EXCEPT ![l] = NULL]
  /\ Goto(t, "release")
  /\ lock' = [lock EXCEPT ![t] = l]
  /\ UNCHANGED <<semaphoreVars, cwaiters, cond, signalee>>

ReleaseUp(t) ==
  /\ pc[t] = "release"
  /\ up(lock[t])
  /\ Goto(t, "run")
  /\ lock' = [lock EXCEPT ![t] = NULL]
  /\ UNCHANGED <<waitsFor, holder, cwaiters, cond, signalee>>

----------------------------------------------------------------------------
(* Condition variables *)

\* cond_wait(): sema_init() of the waiter and list_push_back(), under the lock;
\* lock_release(); sema_down() on the waiter; lock_acquire().
cond_wait(t, c) ==
  /\ pc[t] = "run"
  /\ lock_held_by(t, lockOf[c])
  /\ value' = [value EXCEPT ![t] = 0]
  /\ waiters' = [waiters EXCEPT ![t] = <<>>]
  /\ cwaiters' = [cwaiters EXCEPT ![c] = Append(@, t)]
  /\ Goto(t, "wait_release")
  /\ cond' = [cond EXCEPT ![t] = c]
  /\ lock' = [lock EXCEPT ![t] = lockOf[c]]
  /\ UNCHANGED <<waitsFor, holder, signalee>>

WaitRelease(t) ==
  /\ pc[t] = "wait_release"
  /\ holder' = [holder EXCEPT ![lock[t]] = NULL]
  /\ Goto(t, "wait_up")
  /\ UNCHANGED <<semaphoreVars, cwaiters, lock, cond, signalee>>

WaitUp(t) ==
  /\ pc[t] = "wait_up"
  /\ up(lock[t])
  /\ call_down(t, t)
  /\ Goto(t, "wait")
  /\ UNCHANGED <<holder, cwaiters, lock, cond, signalee>>

\* Signalled: sema_down() returns, and the call of lock_acquire().
WaitPass(t) ==
  /\ pc[t] = "wait"
  /\ Awake(t)
  /\ value[t] > 0
  /\ value' = [value EXCEPT ![t] = @ - 1]
  /\ waitsFor' = [waitsFor EXCEPT ![t] = lock[t]]
  /\ Goto(t, "acquire")
  /\ UNCHANGED <<waiters, holder, cwaiters, lock, cond, signalee>>

\* Mutants: the last waiter is signalled; the waiter stays on the list.
MutPopLast(t, c) ==
  /\ cwaiters[c] # <<>>
  /\ cwaiters' = [cwaiters EXCEPT ![c] = SubSeq(@, 1, Len(@) - 1)]
  /\ signalee' = [signalee EXCEPT ![t] = cwaiters[c][Len(cwaiters[c])]]

MutNoPop(t, c) ==
  /\ cwaiters[c] # <<>>
  /\ signalee' = [signalee EXCEPT ![t] = Head(cwaiters[c])]
  /\ UNCHANGED cwaiters

\* list_pop_front() of cond_signal(), then sema_up() of what it returned.
PopWaiter(t, c) ==
  /\ cwaiters[c] # <<>>
  /\ cwaiters' = [cwaiters EXCEPT ![c] = Tail(@)]
  /\ signalee' = [signalee EXCEPT ![t] = Head(cwaiters[c])]

cond_signal(t, c) ==
  /\ pc[t] = "run"
  /\ lock_held_by(t, lockOf[c])
  /\ PopWaiter(t, c)
  /\ Goto(t, "signal")
  /\ UNCHANGED <<semaphoreVars, holder, lock, cond>>

\* Mutant: a signal only reaches a waiter that has gone to sleep already.
MutSignalAsleep(t) ==
  /\ pc[t] \in {"signal", "bc_signal"}
  /\ IF waiters[signalee[t]] # <<>> THEN up(signalee[t]) ELSE UNCHANGED <<value, waiters>>
  /\ signalee' = [signalee EXCEPT ![t] = NULL]
  /\ Goto(t, IF pc[t] = "signal" THEN "run" ELSE "broadcast")
  /\ UNCHANGED <<waitsFor, holder, cwaiters, lock, cond>>

SignalUp(t) ==
  /\ pc[t] \in {"signal", "bc_signal"}
  /\ up(signalee[t])
  /\ signalee' = [signalee EXCEPT ![t] = NULL]
  /\ Goto(t, IF pc[t] = "signal" THEN "run" ELSE "broadcast")
  /\ UNCHANGED <<waitsFor, holder, cwaiters, lock, cond>>

cond_broadcast(t, c) ==
  /\ pc[t] = "run"
  /\ lock_held_by(t, lockOf[c])
  /\ Goto(t, "broadcast")
  /\ cond' = [cond EXCEPT ![t] = c]
  /\ UNCHANGED <<semaphoreVars, holder, cwaiters, lock, signalee>>

BroadcastOne(t) ==
  /\ pc[t] = "broadcast"
  /\ PopWaiter(t, cond[t])
  /\ Goto(t, "bc_signal")
  /\ UNCHANGED <<semaphoreVars, holder, lock, cond>>

BroadcastDone(t) ==
  /\ pc[t] = "broadcast"
  /\ cwaiters[cond[t]] = <<>>
  /\ Goto(t, "run")
  /\ cond' = [cond EXCEPT ![t] = NULL]
  /\ UNCHANGED <<semaphoreVars, holder, cwaiters, lock, signalee>>

----------------------------------------------------------------------------

\* A thread inside a function of synch.c goes on.
Continue(t) ==
  \/ AcquirePass(t) \/ Sleep(t) \/ SetHolder(t) \/ ReleaseUp(t)
  \/ WaitRelease(t) \/ WaitUp(t) \/ WaitPass(t)
  \/ SignalUp(t) \/ BroadcastOne(t) \/ BroadcastDone(t)

\* A thread outside makes a call.
Call(t) ==
  \/ \E l \in Lock : lock_acquire(t, l) \/ lock_try_acquire(t, l) \/ lock_release(t, l)
  \/ \E c \in Cond : cond_wait(t, c) \/ cond_signal(t, c) \/ cond_broadcast(t, c)

Next == \E t \in Thread : Continue(t) \/ Call(t)

Spec == Init /\ [][Next]_vars

----------------------------------------------------------------------------
(* Properties *)

\* t has l, from the return of sema_down() until sema_up().
Owns(t, l) ==
  \/ holder[l] = t
  \/ pc[t] \in {"acquired", "release", "wait_up"} /\ lock[t] = l

\* A lock is held by at most a single thread at any given time (synch.c:160),
\* also while its holder field lags behind its semaphore, and it is free
\* exactly when the semaphore says so.
LockOwned ==
  \A l \in Lock :
    /\ value[l] = 1 <=> \A t \in Thread : ~Owns(t, l)
    /\ value[l] \in {0, 1}
    /\ \A t, u \in Thread : Owns(t, l) /\ Owns(u, l) => t = u

\* t is inside cond_wait(), so its waiter.semaphore on the stack exists.
InWait(t) == pc[t] \in {"wait_release", "wait_up", "wait"}

\* The semaphore that cond_signal() ups, and those on a condition's list, are
\* on the stack of a thread that has not left cond_wait(), and nobody else
\* is about to up the same one.
WaiterAlive ==
  /\ \A c \in Cond : /\ IsInjective(cwaiters[c])
                     /\ \A t \in Range(cwaiters[c]) : InWait(t) /\ cond[t] = c
  /\ \A t \in Thread : signalee[t] # NULL =>
       /\ pc[signalee[t]] = "wait"
       /\ \A c \in Cond : signalee[t] \notin Range(cwaiters[c])
       /\ \A u \in Thread : signalee[u] = signalee[t] => u = t

\* No signal is lost: a thread in cond_wait() that is no longer on the
\* condition's list has its semaphore up, or the signaller is about to up it.
NoLostSignal ==
  \A t \in Thread : InWait(t) =>
    \/ t \in Range(cwaiters[cond[t]]) /\ value[t] = 0
    \/ value[t] = 1 /\ Awake(t)
    \/ value[t] = 0 /\ \E u \in Thread : signalee[u] = t

----------------------------------------------------------------------------
(* The inductive invariant: where a thread is agrees with the fields. *)

PcLock ==
  \A t \in Thread :
    /\ pc[t] \in {"acquire", "acquired", "release", "wait_release", "wait_up", "wait"}
         <=> lock[t] # NULL
    /\ waitsFor[t] = IF pc[t] = "acquire" THEN lock[t] ELSE IF pc[t] = "wait" THEN t ELSE NULL
    /\ pc[t] \in {"acquired", "release", "wait_up"} => holder[lock[t]] = NULL
    /\ pc[t] \in {"acquire", "wait"} => holder[lock[t]] # t
    /\ pc[t] = "wait_release" => holder[lock[t]] = t

PcCond ==
  \A t \in Thread :
    /\ pc[t] \in {"signal", "bc_signal"} <=> signalee[t] # NULL
    /\ pc[t] \in {"broadcast", "bc_signal"} => cond[t] # NULL /\ holder[lockOf[cond[t]]] = t
    /\ pc[t] \in {"run", "release", "signal"} => cond[t] = NULL
    /\ InWait(t) => cond[t] # NULL
    /\ pc[t] \in {"wait_release", "wait_up", "wait", "acquire", "acquired"} /\ cond[t] # NULL
         => lock[t] = lockOf[cond[t]]

\* Who sleeps on what.
Sleepers ==
  \A s \in Sema : /\ IsInjective(waiters[s])
                  /\ \A t \in Range(waiters[s]) : waitsFor[t] = s

\* A waiting thread is on its condition's list, or being signalled, or its
\* semaphore is up: exactly one of the three.
SignalState ==
  \A t \in Thread :
    LET listed == cond[t] # NULL /\ t \in Range(cwaiters[cond[t]])
        signalled == \E u \in Thread : signalee[u] = t
    IN  IF InWait(t)
        THEN \/ listed /\ ~signalled /\ value[t] = 0
             \/ ~listed /\ signalled /\ value[t] = 0
             \/ ~listed /\ ~signalled /\ value[t] = 1 /\ waiters[t] = <<>>
        ELSE ~listed /\ ~signalled /\ waiters[t] = <<>>

\* A thread that has joined a list and not yet released the lock is the last.
LastJoined ==
  \A t \in Thread : pc[t] \in {"wait_release", "wait_up"} =>
    /\ cwaiters[cond[t]] # <<>>
    /\ cwaiters[cond[t]][Len(cwaiters[cond[t]])] = t

IInv == /\ TypeOK /\ PcLock /\ PcCond /\ LockOwned /\ Sleepers /\ WaiterAlive /\ SignalState
        /\ LastJoined

----------------------------------------------------------------------------
\* The implementation of the monitor that the comments promise.
Owners(l) == {t \in Thread : Owns(t, l)}

Owner(l) == IF Owners(l) = {} THEN NULL ELSE CHOOSE t \in Owners(l) : TRUE

Signalled(t) ==
  /\ pc[t] \in {"wait", "acquire"} /\ cond[t] # NULL
  /\ t \notin Range(cwaiters[cond[t]])

\* The list without a thread that has joined it but not yet released the lock.
Queue(c) ==
  LET n == Len(cwaiters[c])
  IN  IF n > 0 /\ pc[cwaiters[c][n]] # "wait" THEN SubSeq(cwaiters[c], 1, n - 1)
                                             ELSE cwaiters[c]

Abstract == INSTANCE Monitor WITH
  owner <- [l \in Lock |-> Owner(l)],
  queue <- [c \in Cond |-> Queue(c)],
  due   <- [t \in Thread |-> IF Signalled(t) THEN lock[t] ELSE NULL]

\* cond_wait() "Atomically releases LOCK and waits for COND" (synch.c:267)
\* although it takes five steps; signals reach waiters in the order of their
\* waits, and a lock changes hands only through release and acquire.
ImplementsMonitor == Abstract!MonitorSpec
=============================================================================
