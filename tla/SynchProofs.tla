---------------------------- MODULE SynchProofs ----------------------------
(***************************************************************************)
(* Proofs about Synch: IInv is inductive, so a lock has at most one owner, *)
(* no signal is lost and waiters outlive their signals, for any number of  *)
(* threads, locks and conditions.                                          *)
(***************************************************************************)
EXTENDS Synch, SeqLemmas

\* Time limits of the provers.
USE SMTT(10), ZenonT(20)

\* A step that changes no lock's semaphore and nobody's ownership.
LEMMA OwnsSame ==
  ASSUME LockOwned, \A l \in Lock : value'[l] = value[l],
         \A u \in Thread, l \in Lock : Owns(u, l)' <=> Owns(u, l)
  PROVE  LockOwned'
BY Zenon DEF LockOwned

\* A lock whose semaphore is up has no owner.
LEMMA FreeLock ==
  ASSUME IInv, NEW l \in Lock, value[l] > 0
  PROVE  /\ value[l] = 1 /\ holder[l] = NULL
         /\ \A u \in Thread : ~Owns(u, l)
BY DEF IInv, TypeOK, LockOwned, Owns

\* sema_up() keeps the types; the wait list loses its first member.
LEMMA UpStep ==
  ASSUME IInv, NEW s \in Sema, up(s)
  PROVE  /\ value' \in [Sema -> 0 .. MaxValue] /\ waiters' \in [Sema -> Seq(Thread)]
         /\ \A r \in Sema : value'[r] = IF r = s THEN value[r] + 1 ELSE value[r]
         /\ \A r \in Sema : /\ IsInjective(waiters'[r])
                            /\ Range(waiters'[r]) \subseteq Range(waiters[r])
                            /\ r # s \/ waiters[r] = <<>> => waiters'[r] = waiters[r]
         /\ waiters[s] # <<>> => Range(waiters'[s]) = Range(waiters[s]) \ {Head(waiters[s])}
<1> USE SynchAssumption
<1>1. /\ value \in [Sema -> 0 .. 2] /\ waiters \in [Sema -> Seq(Thread)]
      /\ \A r \in Sema : IsInjective(waiters[r])
  BY Zenon DEF IInv, TypeOK, SemaphoreTypeOK, Sleepers
<1>2. /\ value[s] < 2 /\ value' = [value EXCEPT ![s] = @ + 1]
      /\ waiters' = [waiters EXCEPT ![s] = IF @ = <<>> THEN @ ELSE Tail(@)]
  BY Zenon DEF up
<1>3. value' \in [Sema -> 0 .. 2] /\ \A r \in Sema : value'[r] = IF r = s THEN value[r] + 1 ELSE value[r]
  <2>1. value[s] \in 0 .. 2 /\ value[s] + 1 \in 0 .. 2
    BY <1>1, <1>2
  <2> QED BY Zenon, <1>1, <1>2, <2>1
<1>4. waiters[s] # <<>> => /\ Tail(waiters[s]) \in Seq(Thread) /\ IsInjective(Tail(waiters[s]))
                           /\ Range(Tail(waiters[s])) = Range(waiters[s]) \ {Head(waiters[s])}
  BY Zenon, <1>1, TailRange
<1>5. \A r \in Sema : waiters'[r] = IF r = s /\ waiters[r] # <<>> THEN Tail(waiters[r]) ELSE waiters[r]
  BY Zenon, <1>1, <1>2
<1>6. waiters' \in [Sema -> Seq(Thread)]
  BY Zenon, <1>1, <1>2, <1>4
<1> QED BY Zenon, <1>1, <1>3, <1>4, <1>5, <1>6

\* Only a condition's waiter itself sleeps on its semaphore.
LEMMA OwnSema ==
  ASSUME IInv, NEW t \in Thread
  PROVE  /\ \A u \in Range(waiters[t]) : u = t /\ pc[t] = "wait"
         /\ \A s \in Lock : t \in Range(waiters[s]) => pc[t] = "acquire" /\ lock[t] = s
<1> USE SynchAssumption
<1>1. waiters \in [Sema -> Seq(Thread)] /\ Range(waiters[t]) \subseteq Thread
  BY DEF IInv, TypeOK, SemaphoreTypeOK, Range
<1>2. \A u \in Thread : lock[u] \in Lock \cup {NULL}
  BY Zenon DEF IInv, TypeOK
<1>3. \A u \in Thread, s \in Sema : u \in Range(waiters[s]) =>
        s = IF pc[u] = "acquire" THEN lock[u] ELSE IF pc[u] = "wait" THEN u ELSE NULL
  BY DEF IInv, Sleepers, PcLock
<1>4. \A s \in Lock : t \in Range(waiters[s]) => pc[t] = "acquire" /\ lock[t] = s
  BY Zenon, <1>3
<1>5. \A u \in Range(waiters[t]) : u = t /\ pc[t] = "wait"
  BY <1>1, <1>2, <1>3
<1> QED BY Zenon, <1>4, <1>5


\* list_pop_front() by the lock's holder: the waiter has released the lock, so
\* it is past its last step before sema_down().
LEMMA PopStep ==
  ASSUME IInv, NEW t \in Thread, NEW c \in Cond, PopWaiter(t, c), holder[lockOf[c]] = t,
         pc[t] \in {"run", "broadcast"}, UNCHANGED <<semaphoreVars, holder, lock, cond>>,
         pc' = [pc EXCEPT ![t] = IF pc[t] = "run" THEN "signal" ELSE "bc_signal"]
  PROVE  WaiterAlive' /\ SignalState' /\ LastJoined'
<1> USE SynchAssumption
<1> DEFINE w == Head(cwaiters[c])
<1>1. /\ cwaiters[c] # <<>> /\ cwaiters' = [cwaiters EXCEPT ![c] = Tail(@)]
      /\ signalee' = [signalee EXCEPT ![t] = w]
  BY Zenon DEF PopWaiter
<1>2. \A d \in Cond : cwaiters[d] \in Seq(Thread) /\ IsInjective(cwaiters[d])
  BY Zenon DEF IInv, TypeOK, WaiterAlive
<1>3. w \in Range(cwaiters[c]) /\ w \in Thread
  BY Zenon, <1>1, <1>2, TailRange
<1>4. \A d \in Cond, u \in Thread : u \in Range(cwaiters[d]) => InWait(u) /\ cond[u] = d
  BY Zenon DEF IInv, WaiterAlive
<1>5. \A d \in Cond : /\ IsInjective(cwaiters'[d])
                      /\ Range(cwaiters'[d]) = Range(cwaiters[d]) \ {w}
  <2> SUFFICES ASSUME NEW d \in Cond
               PROVE  IsInjective(cwaiters'[d]) /\ Range(cwaiters'[d]) = Range(cwaiters[d]) \ {w}
    BY Zenon
  <2>1. CASE d = c
    <3>1. cwaiters'[d] = Tail(cwaiters[d])
      BY Zenon, <1>1, <2>1 DEF IInv, TypeOK
    <3> QED BY <1>1, <1>2, <2>1, <3>1, TailRange
  <2>2. CASE d # c
    <3>1. cwaiters'[d] = cwaiters[d]
      BY Zenon, <1>1, <2>2 DEF IInv, TypeOK
    <3>2. w \notin Range(cwaiters[d])
      BY <1>3, <1>4, <2>2
    <3> QED BY Zenon, <1>2, <3>1, <3>2
  <2> QED BY Zenon, <2>1, <2>2
<1> HIDE DEF w
<1>6. w # t /\ InWait(w) /\ cond[w] = c /\ lock[w] = lockOf[c] /\ lockOf[c] \in Lock
  BY <1>3, <1>4 DEF InWait, IInv, PcCond
<1>7. pc[w] = "wait"
  <2>1. pc[w] \in {"wait_release", "wait_up"} => Owns(w, lockOf[c])
    BY Zenon, <1>3, <1>6 DEF Owns, IInv, PcLock
  <2>2. Owns(t, lockOf[c])
    BY Zenon DEF Owns
  <2> QED BY Zenon, <1>3, <1>6, <2>1, <2>2 DEF IInv, LockOwned, InWait
<1>8. \A u \in Thread : signalee[u] # w
  BY <1>3 DEF IInv, WaiterAlive
<1>9. /\ \A u \in Thread : signalee'[u] = IF u = t THEN w ELSE signalee[u]
      /\ \A u \in Thread : u # t => pc'[u] = pc[u]
      /\ \A u \in Thread : InWait(u)' <=> InWait(u)
      /\ signalee[t] = NULL
  BY <1>1 DEF IInv, TypeOK, InWait, PcCond
<1>10. \A u \in Thread : signalee[u] # NULL => signalee[u] \in Thread /\ signalee[u] # t
  BY DEF IInv, TypeOK, WaiterAlive
<1>11. WaiterAlive'
  <2>1. ASSUME NEW u \in Thread, signalee'[u] # NULL
        PROVE  /\ pc'[signalee'[u]] = "wait"
               /\ \A d \in Cond : signalee'[u] \notin Range(cwaiters'[d])
               /\ \A x \in Thread : signalee'[x] = signalee'[u] => x = u
    <3>1. CASE u = t
      BY <1>3, <1>5, <1>6, <1>7, <1>8, <1>9, <3>1
    <3>2. CASE u # t
      BY <1>5, <1>8, <1>9, <1>10, <2>1, <3>2 DEF IInv, WaiterAlive
    <3> QED BY Zenon, <3>1, <3>2
  <2>2. ASSUME NEW d \in Cond, NEW u \in Range(cwaiters'[d])
        PROVE  InWait(u)' /\ cond'[u] = d
    <3>1. u \in Range(cwaiters[d]) /\ u \in Thread
      <4>1. u \in Range(cwaiters[d])
        BY Zenon, <1>5, <2>2
      <4> QED BY <1>2, <4>1 DEF Range
    <3> QED BY Zenon, <1>4, <1>9, <3>1
  <2> QED BY Zenon, <1>5, <2>1, <2>2 DEF WaiterAlive
<1>12. SignalState'
  <2>1. UNCHANGED <<value, waiters, cond>>
    BY Zenon DEF semaphoreVars
  <2> SUFFICES ASSUME NEW u \in Thread
               PROVE  LET listed == cond[u] # NULL /\ u \in Range(cwaiters'[cond[u]])
                          signalled == \E x \in Thread : signalee'[x] = u
                      IN  IF InWait(u)
                          THEN \/ listed /\ ~signalled /\ value[u] = 0
                               \/ ~listed /\ signalled /\ value[u] = 0
                               \/ ~listed /\ ~signalled /\ value[u] = 1 /\ waiters[u] = <<>>
                          ELSE ~listed /\ ~signalled /\ waiters[u] = <<>>
    BY <1>9, <2>1 DEF SignalState
  <2>2. cond[u] # NULL => cond[u] \in Cond
    BY Zenon DEF IInv, TypeOK
  <2>3. CASE u = w
    <3>1. value[u] = 0
      BY Zenon, <1>3, <1>6, <2>3 DEF IInv, SignalState
    <3> QED BY Zenon, <1>5, <1>6, <1>9, <2>2, <2>3, <3>1
  <2>4. CASE u # w
    <3>1. (\E x \in Thread : signalee'[x] = u) <=> (\E x \in Thread : signalee[x] = u)
      BY Zenon, <1>9, <2>4
    <3>2. cond[u] # NULL => (u \in Range(cwaiters'[cond[u]]) <=> u \in Range(cwaiters[cond[u]]))
      BY Zenon, <1>5, <2>2, <2>4
    <3> QED BY Zenon, <3>1, <3>2 DEF IInv, SignalState
  <2> QED BY Zenon, <2>3, <2>4
<1>13. LastJoined'
  <2> SUFFICES ASSUME NEW u \in Thread, pc[u] \in {"wait_release", "wait_up"}
               PROVE  /\ cwaiters'[cond[u]] # <<>>
                      /\ cwaiters'[cond[u]][Len(cwaiters'[cond[u]])] = u
    BY <1>9 DEF LastJoined
  <2>1. cond[u] \in Cond /\ lock[u] = lockOf[cond[u]] /\ u # t
    BY DEF IInv, TypeOK, PcCond, InWait
  <2>2. Owns(u, lockOf[cond[u]]) /\ Owns(t, lockOf[c]) /\ lockOf[c] \in Lock
    BY Zenon, <2>1 DEF Owns, IInv, PcLock
  <2>3. cond[u] # c
    BY Zenon, <2>1, <2>2 DEF IInv, LockOwned
  <2>4. cwaiters'[cond[u]] = cwaiters[cond[u]]
    BY Zenon, <1>1, <2>1, <2>3 DEF IInv, TypeOK
  <2> QED BY Zenon, <2>4 DEF IInv, LastJoined
<1> QED BY Zenon, <1>11, <1>12, <1>13

\* What TypeOK says of each thread, lock and condition.
LEMMA Typing ==
  ASSUME IInv
  PROVE  /\ \A u \in Thread : /\ lock[u] \in Lock \cup {NULL} /\ cond[u] \in Cond \cup {NULL}
                             /\ signalee[u] \in Thread \cup {NULL} /\ u \in Sema
         /\ \A m \in Lock : m \in Sema /\ m \notin Thread /\ m # NULL /\ value[m] \in 0..2
         /\ \A c1 \in Cond : c1 # NULL /\ lockOf[c1] \in Lock
         /\ \A s \in Sema : \A u \in Range(waiters[s]) : u \in Thread
         /\ \A c1 \in Cond : \A u \in Range(cwaiters[c1]) : u \in Thread
         /\ NULL \notin Thread
BY SynchAssumption DEF IInv, TypeOK, SemaphoreTypeOK, Range

\* lock_acquire() calls sema_down().
LEMMA AcquireCallIInv ==
  ASSUME IInv, NEW t \in Thread, NEW l \in Lock, lock_acquire(t, l)
  PROVE  IInv'
<1> USE SynchAssumption
<1>I. TypeOK /\ PcLock /\ PcCond /\ LockOwned /\ Sleepers /\ WaiterAlive /\ SignalState /\ LastJoined
  BY Zenon DEF IInv
<1>F. /\ pc[t] = "run" /\ holder[l] # t /\ waitsFor[t] = NULL
      /\ \A u \in Thread : pc'[u] = IF u = t THEN "acquire" ELSE pc[u]
      /\ \A u \in Thread : lock'[u] = IF u = t THEN l ELSE lock[u]
      /\ \A u \in Thread : waitsFor'[u] = IF u = t THEN l ELSE waitsFor[u]
      /\ UNCHANGED <<value, waiters, holder, cwaiters, cond, signalee>>
  BY Zenon, <1>I DEF lock_acquire, call_down, lock_held_by, Goto, TypeOK, SemaphoreTypeOK
<1>1. TypeOK'
  BY Zenon DEF lock_acquire, Goto, semaphoreVars, call_down, lock_held_by, IInv, TypeOK,
      SemaphoreTypeOK, PC, PcLock, PcCond
<1>2. PcLock'
  BY <1>I, Typing, <1>F DEF PcLock, LockOwned, Owns
<1>3. PcCond'
  BY <1>I, Typing, <1>F DEF PcLock, PcCond, InWait
<1>4. LockOwned'
  <2>1. \A u \in Thread, m \in Lock : Owns(u, m)' <=> Owns(u, m)
    BY Zenon, <1>I, Typing, <1>F DEF PcLock, Owns
  <2>2. \A m \in Lock : value'[m] = value[m]
    BY Zenon, Typing, <1>F
  <2> QED BY Zenon, <2>1, <2>2, OwnsSame DEF IInv
<1>5. Sleepers'
  BY <1>I, Typing, <1>F DEF PcLock, Sleepers, Awake
<1>6. WaiterAlive'
  BY <1>I, Typing, <1>F DEF WaiterAlive, InWait
<1>7. SignalState'
  BY <1>I, Typing, <1>F DEF WaiterAlive, SignalState, InWait
<1>8. LastJoined'
  BY Zenon, <1>I, Typing, <1>F DEF LastJoined
<1> QED BY Zenon, <1>1, <1>2, <1>3, <1>4, <1>5, <1>6, <1>7, <1>8 DEF IInv

\* The thread gets the lock: nobody owned it.
LEMMA AcquirePassIInv ==
  ASSUME IInv, NEW t \in Thread, AcquirePass(t)
  PROVE  IInv'
<1> USE SynchAssumption
<1>I. TypeOK /\ PcLock /\ PcCond /\ LockOwned /\ Sleepers /\ WaiterAlive /\ SignalState /\ LastJoined
  BY Zenon DEF IInv
<1>F. /\ pc[t] = "acquire" /\ lock[t] \in Lock /\ waitsFor[t] = lock[t]
      /\ value[lock[t]] > 0 /\ Awake(t)
      /\ \A u \in Thread : pc'[u] = IF u = t THEN "acquired" ELSE pc[u]
      /\ \A u \in Thread : waitsFor'[u] = IF u = t THEN NULL ELSE waitsFor[u]
      /\ \A s \in Sema : value'[s] = IF s = lock[t] THEN value[lock[t]] - 1 ELSE value[s]
      /\ UNCHANGED <<waiters, holder, cwaiters, lock, cond, signalee>>
  BY <1>I DEF AcquirePass, down_pass, Goto, PcLock, TypeOK, SemaphoreTypeOK
<1>1. TypeOK'
  BY DEF AcquirePass, Goto, semaphoreVars, down_pass, IInv, TypeOK, SemaphoreTypeOK, PC,
      PcLock, PcCond
<1>2. PcLock'
  <2>1. lock[t] \in Lock /\ waitsFor[t] = lock[t] /\ value[lock[t]] > 0
    BY DEF AcquirePass, down_pass, IInv, TypeOK, PcLock
  <2>2. holder[lock[t]] = NULL
    BY Zenon, <2>1, FreeLock
  <2>3. /\ \A u \in Thread : pc'[u] = IF u = t THEN "acquired" ELSE pc[u]
        /\ \A u \in Thread : waitsFor'[u] = IF u = t THEN NULL ELSE waitsFor[u]
        /\ pc[t] = "acquire" /\ lock' = lock /\ holder' = holder
    BY Zenon DEF AcquirePass, Goto, down_pass, IInv, TypeOK, SemaphoreTypeOK
  <2> QED BY <2>1, <2>2, <2>3 DEF IInv, PcLock
<1>3. PcCond'
  BY <1>I, Typing, <1>F DEF PcLock, PcCond, InWait
<1>4. LockOwned'
  BY <1>I, Typing, <1>F DEF PcLock, LockOwned, Owns
<1>5. Sleepers'
  BY <1>I, Typing, <1>F DEF PcLock, Sleepers, Awake
<1>6. WaiterAlive'
  BY <1>I, Typing, <1>F DEF WaiterAlive, InWait
<1>7. SignalState'
  BY <1>I, Typing, <1>F DEF WaiterAlive, SignalState, InWait
<1>8. LastJoined'
  BY Zenon, <1>I, Typing, <1>F DEF LastJoined
<1> QED BY Zenon, <1>1, <1>2, <1>3, <1>4, <1>5, <1>6, <1>7, <1>8 DEF IInv

\* A thread goes to sleep on a lock or on its own waiter.
LEMMA SleepIInv ==
  ASSUME IInv, NEW t \in Thread, Sleep(t)
  PROVE  IInv'
<1> USE SynchAssumption
<1>I. TypeOK /\ PcLock /\ PcCond /\ LockOwned /\ Sleepers /\ WaiterAlive /\ SignalState /\ LastJoined
  BY DEF IInv
<1>F. /\ waitsFor[t] # NULL /\ waitsFor[t] \in Sema
      /\ UNCHANGED <<value, waitsFor, holder, cwaiters, pc, lock, cond, signalee>>
  BY <1>I DEF Sleep, down_sleep, PcLock, TypeOK, SemaphoreTypeOK
<1>1. TypeOK'
  BY DEF Sleep, Goto, semaphoreVars, down_sleep, IInv, TypeOK, SemaphoreTypeOK, PC, PcLock, PcCond
<1>2. PcLock'
  BY Zenon, <1>I, Typing, <1>F DEF PcLock, LockOwned, Owns
<1>3. PcCond'
  BY Zenon, <1>I, Typing, <1>F DEF PcLock, PcCond, InWait
<1>4. LockOwned'
  BY <1>I, Typing, <1>F DEF PcLock, LockOwned, Owns
<1>5. Sleepers'
  <2>1. /\ waitsFor[t] \in Sema /\ Awake(t) /\ waitsFor' = waitsFor
        /\ waiters' = [waiters EXCEPT ![waitsFor[t]] = Append(@, t)]
    BY Zenon DEF Sleep, down_sleep, IInv, TypeOK, SemaphoreTypeOK
  <2> SUFFICES ASSUME NEW s \in Sema
               PROVE  IsInjective(waiters'[s]) /\ \A u \in Range(waiters'[s]) : waitsFor[u] = s
    BY Zenon, <2>1 DEF Sleepers
  <2>2. /\ waiters[s] \in Seq(Thread) /\ IsInjective(waiters[s]) /\ t \notin Range(waiters[s])
        /\ \A u \in Range(waiters[s]) : waitsFor[u] = s
    BY Zenon, <2>1 DEF Awake, IInv, TypeOK, SemaphoreTypeOK, Sleepers
  <2>3. CASE s # waitsFor[t]
    <3>1. waiters'[s] = waiters[s]
      BY Zenon, <2>1, <2>3 DEF IInv, TypeOK, SemaphoreTypeOK
    <3> QED BY Zenon, <2>2, <3>1
  <2>4. CASE s = waitsFor[t]
    <3>1. waiters'[s] = Append(waiters[s], t)
      BY Zenon, <2>1, <2>4 DEF IInv, TypeOK, SemaphoreTypeOK
    <3> QED BY <2>2, <2>4, <3>1, AppendRange
  <2> QED BY Zenon, <2>3, <2>4
<1>6. WaiterAlive'
  BY Zenon, <1>I, Typing, <1>F DEF WaiterAlive, InWait
<1>7. SignalState'
  <2>1. /\ waitsFor[t] \in Sema /\ Awake(t) /\ value[waitsFor[t]] = 0
        /\ UNCHANGED <<value, cwaiters, pc, cond, signalee>>
        /\ \A u \in Thread : u # waitsFor[t] => waiters'[u] = waiters[u]
    BY Zenon DEF Sleep, down_sleep, IInv, TypeOK, SemaphoreTypeOK
  <2>2. waitsFor[t] \in Thread => pc[t] = "wait" /\ waitsFor[t] = t
    BY <2>1 DEF IInv, PcLock, TypeOK
  <2> QED BY <2>1, <2>2 DEF IInv, SignalState, InWait
<1>8. LastJoined'
  BY Zenon, <1>I, Typing, <1>F DEF LastJoined
<1> QED BY <1>1, <1>2, <1>3, <1>4, <1>5, <1>6, <1>7, <1>8 DEF IInv

\* The holder field catches up with the semaphore.
LEMMA SetHolderIInv ==
  ASSUME IInv, NEW t \in Thread, SetHolder(t)
  PROVE  IInv'
<1> USE SynchAssumption
<1>I. TypeOK /\ PcLock /\ PcCond /\ LockOwned /\ Sleepers /\ WaiterAlive /\ SignalState /\ LastJoined
  BY DEF IInv
<1>F. /\ pc[t] = "acquired" /\ lock[t] \in Lock
      /\ \A u \in Thread : pc'[u] = IF u = t THEN "run" ELSE pc[u]
      /\ \A u \in Thread : lock'[u] = IF u = t THEN NULL ELSE lock[u]
      /\ \A u \in Thread : cond'[u] = IF u = t THEN NULL ELSE cond[u]
      /\ \A m \in Lock : holder'[m] = IF m = lock[t] THEN t ELSE holder[m]
      /\ UNCHANGED <<value, waiters, waitsFor, cwaiters, signalee>>
  BY <1>I DEF SetHolder, Goto, semaphoreVars, PcLock, TypeOK, SemaphoreTypeOK
<1>1. TypeOK'
  BY Zenon DEF SetHolder, Goto, semaphoreVars, IInv, TypeOK, SemaphoreTypeOK, PC, PcLock, PcCond
<1>2. PcLock'
  BY <1>I, Typing, <1>F DEF PcLock, LockOwned, Owns
<1>3. PcCond'
  BY <1>I, Typing, <1>F DEF PcLock, PcCond, InWait
<1>4. LockOwned'
  BY <1>I, Typing, <1>F DEF PcLock, LockOwned, Owns
<1>5. Sleepers'
  BY Zenon, <1>I, Typing, <1>F DEF PcLock, Sleepers, Awake
<1>6. WaiterAlive'
  BY <1>I, Typing, <1>F DEF WaiterAlive, InWait
<1>7. SignalState'
  BY <1>I, Typing, <1>F DEF WaiterAlive, SignalState, InWait
<1>8. LastJoined'
  BY Zenon, <1>I, Typing, <1>F DEF LastJoined
<1> QED BY <1>1, <1>2, <1>3, <1>4, <1>5, <1>6, <1>7, <1>8 DEF IInv

\* lock_try_acquire() takes a lock that nobody owns.
LEMMA TryAcquireIInv ==
  ASSUME IInv, NEW t \in Thread, NEW l \in Lock, lock_try_acquire(t, l)
  PROVE  IInv'
<1> USE SynchAssumption
<1>I. TypeOK /\ PcLock /\ PcCond /\ LockOwned /\ Sleepers /\ WaiterAlive /\ SignalState /\ LastJoined
  BY DEF IInv
<1>F. /\ pc[t] = "run" /\ holder[l] # t /\ value[l] > 0
      /\ \A u \in Thread : pc'[u] = IF u = t THEN "acquired" ELSE pc[u]
      /\ \A u \in Thread : lock'[u] = IF u = t THEN l ELSE lock[u]
      /\ \A s \in Sema : value'[s] = IF s = l THEN value[l] - 1 ELSE value[s]
      /\ UNCHANGED <<waiters, waitsFor, holder, cwaiters, cond, signalee>>
  BY Zenon, <1>I DEF lock_try_acquire, try_down, lock_held_by, Goto, TypeOK, SemaphoreTypeOK
<1>1. TypeOK'
  BY DEF lock_try_acquire, Goto, semaphoreVars, try_down, lock_held_by, IInv, TypeOK,
      SemaphoreTypeOK, PC, PcLock, PcCond
<1>2. PcLock'
  <2>1. holder[l] = NULL
    BY ZenonT(40), FreeLock DEF lock_try_acquire, try_down
  <2> QED BY <2>1 DEF lock_try_acquire, Goto, try_down, IInv, TypeOK, PcLock
<1>3. PcCond'
  BY <1>I, Typing, <1>F DEF PcLock, PcCond, InWait
<1>4. LockOwned'
  BY <1>I, Typing, <1>F DEF PcLock, LockOwned, Owns
<1>5. Sleepers'
  BY Zenon, <1>I, Typing, <1>F DEF PcLock, Sleepers, Awake
<1>6. WaiterAlive'
  BY <1>I, Typing, <1>F DEF WaiterAlive, InWait
<1>7. SignalState'
  BY <1>I, Typing, <1>F DEF WaiterAlive, SignalState, InWait
<1>8. LastJoined'
  BY Zenon, <1>I, Typing, <1>F DEF LastJoined
<1> QED BY <1>1, <1>2, <1>3, <1>4, <1>5, <1>6, <1>7, <1>8 DEF IInv

\* lock_release() clears the holder; the thread still owns the lock.
LEMMA ReleaseIInv ==
  ASSUME IInv, NEW t \in Thread, NEW l \in Lock, lock_release(t, l)
  PROVE  IInv'
<1> USE SynchAssumption
<1>I. TypeOK /\ PcLock /\ PcCond /\ LockOwned /\ Sleepers /\ WaiterAlive /\ SignalState /\ LastJoined
  BY DEF IInv
<1>F. /\ pc[t] = "run" /\ holder[l] = t
      /\ \A u \in Thread : pc'[u] = IF u = t THEN "release" ELSE pc[u]
      /\ \A u \in Thread : lock'[u] = IF u = t THEN l ELSE lock[u]
      /\ \A m \in Lock : holder'[m] = IF m = l THEN NULL ELSE holder[m]
      /\ UNCHANGED <<value, waiters, waitsFor, cwaiters, cond, signalee>>
  BY Zenon, <1>I DEF lock_release, lock_held_by, Goto, semaphoreVars, TypeOK, SemaphoreTypeOK
<1>1. TypeOK'
  BY Zenon DEF lock_release, Goto, semaphoreVars, lock_held_by, IInv, TypeOK, SemaphoreTypeOK, PC,
      PcLock, PcCond
<1>2. PcLock'
  BY <1>I, Typing, <1>F DEF PcLock, LockOwned, Owns
<1>3. PcCond'
  BY <1>I, Typing, <1>F DEF PcLock, PcCond, InWait
<1>4. LockOwned'
  <2>1. \A u \in Thread, m \in Lock : Owns(u, m)' <=> Owns(u, m)
    BY <1>I, Typing, <1>F DEF PcLock, Owns
  <2>2. \A m \in Lock : value'[m] = value[m]
    BY Zenon, Typing, <1>F
  <2> QED BY <2>1, <2>2, OwnsSame DEF IInv
<1>5. Sleepers'
  BY Zenon, <1>I, Typing, <1>F DEF PcLock, Sleepers, Awake
<1>6. WaiterAlive'
  BY <1>I, Typing, <1>F DEF WaiterAlive, InWait
<1>7. SignalState'
  BY <1>I, Typing, <1>F DEF WaiterAlive, SignalState, InWait
<1>8. LastJoined'
  BY Zenon, <1>I, Typing, <1>F DEF LastJoined
<1> QED BY <1>1, <1>2, <1>3, <1>4, <1>5, <1>6, <1>7, <1>8 DEF IInv

\* sema_up() ends the ownership.
LEMMA ReleaseUpIInv ==
  ASSUME IInv, NEW t \in Thread, ReleaseUp(t)
  PROVE  IInv'
<1> USE SynchAssumption
<1>I. TypeOK /\ PcLock /\ PcCond /\ LockOwned /\ Sleepers /\ WaiterAlive /\ SignalState /\ LastJoined
  BY DEF IInv
<1>0. lock[t] \in Lock /\ lock[t] \in Sema /\ up(lock[t])
  BY DEF ReleaseUp, IInv, TypeOK, PcLock
<1>F. /\ pc[t] = "release" /\ lock[t] \in Lock
      /\ \A u \in Thread : pc'[u] = IF u = t THEN "run" ELSE pc[u]
      /\ \A u \in Thread : lock'[u] = IF u = t THEN NULL ELSE lock[u]
      /\ \A s \in Sema : value'[s] = IF s = lock[t] THEN value[lock[t]] + 1 ELSE value[s]
      /\ UNCHANGED <<waitsFor, holder, cwaiters, cond, signalee>>
  BY <1>I, <1>0, UpStep DEF ReleaseUp, Goto, TypeOK, SemaphoreTypeOK
<1>1. TypeOK'
  <2>1. SemaphoreTypeOK'
    BY Zenon, <1>0, UpStep DEF ReleaseUp, call_down, IInv, TypeOK, SemaphoreTypeOK
  <2> QED BY Zenon, <2>1 DEF ReleaseUp, Goto, PC, IInv, TypeOK
<1>2. PcLock'
  BY <1>I, Typing, <1>F DEF PcLock, LockOwned, Owns
<1>3. PcCond'
  BY <1>I, Typing, <1>F DEF PcLock, PcCond, InWait
<1>4. LockOwned'
  BY <1>I, Typing, <1>F DEF PcLock, LockOwned, Owns
<1>5. Sleepers'
  <2>1. \A s \in Sema : IsInjective(waiters'[s]) /\ Range(waiters'[s]) \subseteq Range(waiters[s])
    BY Zenon, <1>0, UpStep
  <2> QED BY Zenon, <2>1 DEF ReleaseUp, IInv, Sleepers
<1>6. WaiterAlive'
  BY <1>I, Typing, <1>F DEF WaiterAlive, InWait
<1>7. SignalState'
  <2>1. /\ \A u \in Thread : pc'[u] = IF u = t THEN "run" ELSE pc[u]
        /\ UNCHANGED <<cwaiters, cond, signalee>>
        /\ \A u \in Thread : waiters[u] = <<>> => waiters'[u] = <<>>
        /\ \A u \in Thread : value'[u] = value[u]
        /\ pc[t] = "release"
    BY <1>0, UpStep DEF ReleaseUp, Goto, IInv, TypeOK
  <2> QED BY Zenon, <2>1 DEF IInv, SignalState, InWait
<1>8. LastJoined'
  BY Zenon, <1>I, Typing, <1>F DEF LastJoined
<1> QED BY <1>1, <1>2, <1>3, <1>4, <1>5, <1>6, <1>7, <1>8 DEF IInv

\* cond_wait() puts a fresh waiter on the list.
LEMMA WaitIInv ==
  ASSUME IInv, NEW t \in Thread, NEW c \in Cond, cond_wait(t, c)
  PROVE  IInv'
<1> USE SynchAssumption
<1>0. /\ t \in Sema /\ t \notin Lock /\ lockOf[c] \in Lock /\ pc[t] = "run"
      /\ \A u \in Thread : pc'[u] = IF u = t THEN "wait_release" ELSE pc[u]
      /\ \A u \in Thread : cond'[u] = IF u = t THEN c ELSE cond[u]
      /\ \A u \in Thread : lock'[u] = IF u = t THEN lockOf[c] ELSE lock[u]
      /\ \A s \in Sema : value'[s] = IF s = t THEN 0 ELSE value[s]
      /\ \A s \in Sema : waiters'[s] = IF s = t THEN <<>> ELSE waiters[s]
      /\ holder[lockOf[c]] = t
      /\ UNCHANGED <<waitsFor, holder, signalee>>
      /\ cwaiters' = [cwaiters EXCEPT ![c] = Append(@, t)]
  BY Zenon DEF cond_wait, Goto, lock_held_by, IInv, TypeOK, SemaphoreTypeOK
<1>1. TypeOK'
  <2>1. SemaphoreTypeOK'
    <3>1. value' = [value EXCEPT ![t] = 0] /\ waiters' = [waiters EXCEPT ![t] = <<>>]
      BY Zenon DEF cond_wait
    <3> QED BY <1>0, <3>1 DEF IInv, TypeOK, SemaphoreTypeOK
  <2>2. cwaiters' \in [Cond -> Seq(Thread)]
    BY <1>0 DEF IInv, TypeOK
  <2> QED BY <1>0, <2>1, <2>2 DEF cond_wait, Goto, PC, IInv, TypeOK
<1>2. PcLock'
  BY <1>0 DEF IInv, TypeOK, PcLock
<1>3. PcCond'
  BY DEF cond_wait, Goto, semaphoreVars, lock_held_by, IInv, TypeOK, SemaphoreTypeOK, PcLock,
      PcCond, LockOwned, Owns, InWait
<1>4. LockOwned'
  <2>1. \A u \in Thread, m \in Lock : Owns(u, m)' <=> Owns(u, m)
    BY DEF cond_wait, Goto, semaphoreVars, lock_held_by, IInv, TypeOK, PcLock, Owns
  <2>2. \A m \in Lock : value'[m] = value[m]
    BY DEF cond_wait, Goto, semaphoreVars, lock_held_by, IInv, TypeOK, SemaphoreTypeOK, PcCond
  <2> QED BY Zenon, <2>1, <2>2, OwnsSame DEF IInv
<1>5. Sleepers'
  <2>1. IsInjective(<<>>) /\ Range(<<>>) = {}
    BY EmptyRange DEF Range
  <2> QED BY Zenon, <1>0, <2>1 DEF IInv, Sleepers
<1>6. WaiterAlive'
  <2>1. \A d \in Cond : /\ cwaiters[d] \in Seq(Thread) /\ IsInjective(cwaiters[d])
                        /\ Range(cwaiters[d]) \subseteq Thread /\ t \notin Range(cwaiters[d])
                        /\ \A u \in Range(cwaiters[d]) : InWait(u) /\ cond[u] = d
    <3>1. \A d \in Cond : cwaiters[d] \in Seq(Thread) /\ Range(cwaiters[d]) \subseteq Thread
      BY DEF IInv, TypeOK, Range
    <3>2. \A d \in Cond : /\ IsInjective(cwaiters[d])
                          /\ \A u \in Range(cwaiters[d]) : InWait(u) /\ cond[u] = d
      BY Zenon DEF IInv, WaiterAlive
    <3>3. ~InWait(t)
      BY Zenon, <1>0 DEF InWait
    <3> QED BY Zenon, <3>1, <3>2, <3>3
  <2>2. \A d \in Cond : /\ IsInjective(cwaiters'[d])
                        /\ Range(cwaiters'[d]) = IF d = c THEN Range(cwaiters[d]) \cup {t} ELSE Range(cwaiters[d])
    <3> SUFFICES ASSUME NEW d \in Cond
                 PROVE  /\ IsInjective(cwaiters'[d])
                        /\ Range(cwaiters'[d]) = IF d = c THEN Range(cwaiters[d]) \cup {t} ELSE Range(cwaiters[d])
      BY Zenon
    <3>1. cwaiters'[d] = IF d = c THEN Append(cwaiters[d], t) ELSE cwaiters[d]
      BY ZenonT(40), <1>0 DEF IInv, TypeOK
    <3>2. CASE d = c
      BY <2>1, <3>1, <3>2, AppendRange
    <3>3. CASE d # c
      BY Zenon, <2>1, <3>1, <3>3
    <3> QED BY Zenon, <3>2, <3>3
  <2>3. \A u \in Thread : signalee[u] # t
    BY <1>0 DEF IInv, WaiterAlive
  <2>4. ASSUME NEW d \in Cond, NEW u \in Range(cwaiters'[d])
        PROVE  InWait(u)' /\ cond'[u] = d
    <3>1. CASE u = t /\ d = c
      BY Zenon, <1>0, <3>1 DEF InWait
    <3>2. CASE u \in Range(cwaiters[d])
      BY <1>0, <2>1, <3>2 DEF InWait
    <3> QED BY Zenon, <2>2, <2>4, <3>1, <3>2
  <2>5. ASSUME NEW u \in Thread, signalee[u] # NULL
        PROVE  /\ pc'[signalee[u]] = "wait"
               /\ \A d \in Cond : signalee[u] \notin Range(cwaiters'[d])
               /\ \A x \in Thread : signalee[x] = signalee[u] => x = u
    <3>1. signalee[u] \in Thread /\ signalee[u] # t
      BY Zenon, <2>3, <2>5 DEF IInv, TypeOK
    <3>2. /\ pc[signalee[u]] = "wait"
          /\ \A d \in Cond : signalee[u] \notin Range(cwaiters[d])
          /\ \A x \in Thread : signalee[x] = signalee[u] => x = u
      BY Zenon, <2>5 DEF IInv, WaiterAlive
    <3>3. pc'[signalee[u]] = "wait"
      BY Zenon, <1>0, <3>1, <3>2
    <3>4. \A d \in Cond : signalee[u] \notin Range(cwaiters'[d])
      BY Zenon, <2>2, <3>1, <3>2
    <3> QED BY Zenon, <3>2, <3>3, <3>4
  <2> QED BY Zenon, <1>0, <2>2, <2>4, <2>5 DEF WaiterAlive
<1>7. SignalState'
  <2>1. \A d \in Cond : /\ cwaiters[d] \in Seq(Thread)
                        /\ Range(cwaiters'[d]) = IF d = c THEN Range(cwaiters[d]) \cup {t} ELSE Range(cwaiters[d])
    <3> SUFFICES ASSUME NEW d \in Cond
                 PROVE  /\ cwaiters[d] \in Seq(Thread)
                        /\ Range(cwaiters'[d]) = IF d = c THEN Range(cwaiters[d]) \cup {t} ELSE Range(cwaiters[d])
      BY Zenon
    <3>1. cwaiters[d] \in Seq(Thread) /\ cwaiters'[d] = IF d = c THEN Append(cwaiters[d], t) ELSE cwaiters[d]
      BY ZenonT(40), <1>0 DEF IInv, TypeOK
    <3>2. Range(Append(cwaiters[d], t)) = Range(cwaiters[d]) \cup {t}
      BY <3>1, AppendRange
    <3> QED BY Zenon, <3>1, <3>2
  <2>2. \A u \in Thread : signalee[u] # t
    BY <1>0 DEF IInv, WaiterAlive
  <2>3. \A u \in Thread : cond[u] \in Cond \cup {NULL}
    BY Zenon DEF IInv, TypeOK
  <2> SUFFICES ASSUME NEW u \in Thread
               PROVE  LET listed == cond'[u] # NULL /\ u \in Range(cwaiters'[cond'[u]])
                          signalled == \E x \in Thread : signalee[x] = u
                      IN  IF InWait(u)'
                          THEN \/ listed /\ ~signalled /\ value'[u] = 0
                               \/ ~listed /\ signalled /\ value'[u] = 0
                               \/ ~listed /\ ~signalled /\ value'[u] = 1 /\ waiters'[u] = <<>>
                          ELSE ~listed /\ ~signalled /\ waiters'[u] = <<>>
    BY <1>0 DEF SignalState
  <2>4. CASE u = t
    <3>1. t \in Range(cwaiters'[c]) /\ c # NULL
      BY Zenon, <2>1
    <3>2. cond'[u] = c /\ value'[u] = 0 /\ InWait(u)'
      BY Zenon, <1>0, <2>4 DEF InWait
    <3> QED BY Zenon, <2>2, <2>4, <3>1, <3>2
  <2>5. CASE u # t
    <3>1. /\ InWait(u)' <=> InWait(u)
          /\ cond'[u] = cond[u] /\ value'[u] = value[u] /\ waiters'[u] = waiters[u]
      BY Zenon, <1>0, <2>5 DEF InWait
    <3>2. cond[u] # NULL => (u \in Range(cwaiters'[cond[u]]) <=> u \in Range(cwaiters[cond[u]]))
      BY Zenon, <2>1, <2>3, <2>5
    <3> QED BY Zenon, <3>1, <3>2 DEF IInv, SignalState
  <2> QED BY Zenon, <2>4, <2>5
<1>8. LastJoined'
  <2> SUFFICES ASSUME NEW u \in Thread, pc'[u] \in {"wait_release", "wait_up"}
               PROVE  /\ cwaiters'[cond'[u]] # <<>>
                      /\ cwaiters'[cond'[u]][Len(cwaiters'[cond'[u]])] = u
    BY Zenon DEF LastJoined
  <2>1. CASE u = t
    <3>1. cond'[u] = c /\ cwaiters'[c] = Append(cwaiters[c], t) /\ cwaiters[c] \in Seq(Thread)
      BY ZenonT(40), <1>0, <2>1 DEF IInv, TypeOK
    <3> QED BY <2>1, <3>1
  <2>2. CASE u # t
    <3>1. pc[u] \in {"wait_release", "wait_up"} /\ cond'[u] = cond[u]
      BY Zenon, <1>0, <2>2
    <3>2. cond[u] \in Cond /\ lock[u] = lockOf[cond[u]]
      BY <3>1 DEF IInv, TypeOK, PcCond, InWait
    <3>3. Owns(u, lockOf[cond[u]]) /\ Owns(t, lockOf[c]) /\ lockOf[cond[u]] \in Lock
      BY <1>0, <3>1, <3>2 DEF Owns, IInv, PcLock
    <3>4. cond[u] # c
      BY Zenon, <1>0, <2>2, <3>3 DEF IInv, LockOwned
    <3>5. cwaiters'[cond[u]] = cwaiters[cond[u]]
      BY Zenon, <1>0, <3>2, <3>4 DEF IInv, TypeOK
    <3> QED BY Zenon, <3>1, <3>5 DEF IInv, LastJoined
  <2> QED BY Zenon, <2>1, <2>2
<1> QED BY Zenon, <1>1, <1>2, <1>3, <1>4, <1>5, <1>6, <1>7, <1>8 DEF IInv

\* lock_release() within cond_wait().
LEMMA WaitReleaseIInv ==
  ASSUME IInv, NEW t \in Thread, WaitRelease(t)
  PROVE  IInv'
<1> USE SynchAssumption
<1>I. TypeOK /\ PcLock /\ PcCond /\ LockOwned /\ Sleepers /\ WaiterAlive /\ SignalState /\ LastJoined
  BY DEF IInv
<1>F. /\ pc[t] = "wait_release" /\ lock[t] \in Lock
      /\ \A u \in Thread : pc'[u] = IF u = t THEN "wait_up" ELSE pc[u]
      /\ \A m \in Lock : holder'[m] = IF m = lock[t] THEN NULL ELSE holder[m]
      /\ UNCHANGED <<value, waiters, waitsFor, cwaiters, lock, cond, signalee>>
  BY <1>I DEF WaitRelease, Goto, semaphoreVars, PcLock, TypeOK, SemaphoreTypeOK
<1>1. TypeOK'
  BY Zenon DEF WaitRelease, Goto, semaphoreVars, IInv, TypeOK, SemaphoreTypeOK, PC, PcLock, PcCond
<1>2. PcLock'
  BY <1>I, Typing, <1>F DEF PcLock, LockOwned, Owns
<1>3. PcCond'
  BY <1>I, Typing, <1>F DEF PcLock, PcCond, InWait
<1>4. LockOwned'
  BY <1>I, Typing, <1>F DEF PcLock, LockOwned, Owns
<1>5. Sleepers'
  BY Zenon, <1>I, Typing, <1>F DEF PcLock, Sleepers, Awake
<1>6. WaiterAlive'
  BY ZenonT(40), <1>I, Typing, <1>F DEF WaiterAlive, InWait
<1>7. SignalState'
  BY <1>I, Typing, <1>F DEF WaiterAlive, SignalState, InWait
<1>8. LastJoined'
  BY Zenon, <1>I, Typing, <1>F DEF LastJoined
<1> QED BY <1>1, <1>2, <1>3, <1>4, <1>5, <1>6, <1>7, <1>8 DEF IInv

\* sema_up() of the lock within cond_wait().
LEMMA WaitUpIInv ==
  ASSUME IInv, NEW t \in Thread, WaitUp(t)
  PROVE  IInv'
<1> USE SynchAssumption
<1>I. TypeOK /\ PcLock /\ PcCond /\ LockOwned /\ Sleepers /\ WaiterAlive /\ SignalState /\ LastJoined
  BY DEF IInv
<1>0. lock[t] \in Lock /\ lock[t] \in Sema /\ up(lock[t])
  BY DEF WaitUp, IInv, TypeOK, PcLock
<1>F. /\ pc[t] = "wait_up" /\ lock[t] \in Lock
      /\ \A u \in Thread : pc'[u] = IF u = t THEN "wait" ELSE pc[u]
      /\ \A u \in Thread : waitsFor'[u] = IF u = t THEN t ELSE waitsFor[u]
      /\ \A s \in Sema : value'[s] = IF s = lock[t] THEN value[lock[t]] + 1 ELSE value[s]
      /\ UNCHANGED <<holder, cwaiters, lock, cond, signalee>>
  BY <1>I, <1>0, UpStep DEF WaitUp, Goto, call_down, TypeOK, SemaphoreTypeOK
<1>1. TypeOK'
  <2>1. SemaphoreTypeOK'
    BY Zenon, <1>0, UpStep DEF WaitUp, call_down, IInv, TypeOK, SemaphoreTypeOK
  <2> QED BY Zenon, <2>1 DEF WaitUp, Goto, PC, IInv, TypeOK
<1>2. PcLock'
  BY <1>I, Typing, <1>F DEF PcLock, LockOwned, Owns
<1>3. PcCond'
  BY <1>I, Typing, <1>F DEF PcLock, PcCond, InWait
<1>4. LockOwned'
  BY <1>I, Typing, <1>F DEF PcLock, LockOwned, Owns
<1>5. Sleepers'
  <2>1. \A s \in Sema : IsInjective(waiters'[s]) /\ Range(waiters'[s]) \subseteq Range(waiters[s])
    BY Zenon, <1>0, UpStep
  <2>2. \A s \in Sema, u \in Thread : u \in Range(waiters[s]) => u # t /\ waitsFor[u] = s
    BY DEF WaitUp, IInv, PcLock, Sleepers
  <2>3. \A u \in Thread : u # t => waitsFor'[u] = waitsFor[u]
    BY Zenon DEF WaitUp, call_down, IInv, TypeOK, SemaphoreTypeOK
  <2>4. \A s \in Sema : Range(waiters[s]) \subseteq Thread
    BY DEF IInv, TypeOK, SemaphoreTypeOK, Range
  <2> QED BY Zenon, <2>1, <2>2, <2>3, <2>4 DEF Sleepers
<1>6. WaiterAlive'
  BY <1>I, Typing, <1>F DEF WaiterAlive, InWait
<1>7. SignalState'
  <2>1. /\ \A u \in Thread : pc'[u] = IF u = t THEN "wait" ELSE pc[u]
        /\ UNCHANGED <<cwaiters, cond, signalee>>
        /\ \A u \in Thread : waiters[u] = <<>> => waiters'[u] = <<>>
        /\ \A u \in Thread : value'[u] = value[u]
        /\ pc[t] = "wait_up"
    BY <1>0, UpStep DEF WaitUp, Goto, IInv, TypeOK
  <2> QED BY Zenon, <2>1 DEF IInv, SignalState, InWait
<1>8. LastJoined'
  BY Zenon, <1>I, Typing, <1>F DEF LastJoined
<1> QED BY <1>1, <1>2, <1>3, <1>4, <1>5, <1>6, <1>7, <1>8 DEF IInv

\* A signalled thread leaves its wait: nothing refers to its waiter.
LEMMA WaitPassIInv ==
  ASSUME IInv, NEW t \in Thread, WaitPass(t)
  PROVE  IInv'
<1> USE SynchAssumption
<1>I. TypeOK /\ PcLock /\ PcCond /\ LockOwned /\ Sleepers /\ WaiterAlive /\ SignalState /\ LastJoined
  BY DEF IInv
<1>F. /\ pc[t] = "wait" /\ lock[t] \in Lock /\ Awake(t) /\ value[t] > 0 /\ t \in Sema
      /\ \A u \in Thread : pc'[u] = IF u = t THEN "acquire" ELSE pc[u]
      /\ \A u \in Thread : waitsFor'[u] = IF u = t THEN lock[t] ELSE waitsFor[u]
      /\ \A s \in Sema : value'[s] = IF s = t THEN value[t] - 1 ELSE value[s]
      /\ UNCHANGED <<waiters, holder, cwaiters, lock, cond, signalee>>
  BY <1>I DEF WaitPass, Goto, PcLock, TypeOK, SemaphoreTypeOK
<1>1. TypeOK'
  BY DEF WaitPass, Goto, semaphoreVars, IInv, TypeOK, SemaphoreTypeOK, PC, PcLock, PcCond
<1>2. PcLock'
  <2>1. /\ \A u \in Thread : pc'[u] = IF u = t THEN "acquire" ELSE pc[u]
        /\ \A u \in Thread : waitsFor'[u] = IF u = t THEN lock[t] ELSE waitsFor[u]
        /\ pc[t] = "wait" /\ lock' = lock /\ holder' = holder
    BY ZenonT(40) DEF WaitPass, Goto, IInv, TypeOK, SemaphoreTypeOK
  <2> QED BY <2>1 DEF IInv, PcLock
<1>3. PcCond'
  <2>1. /\ \A u \in Thread : u # t => pc'[u] = pc[u]
        /\ pc'[t] = "acquire" /\ pc[t] = "wait"
        /\ UNCHANGED <<lock, holder, cond, signalee>>
    BY <1>F
  <2>2. signalee[t] = NULL
    BY <1>I, <2>1 DEF PcCond
  <2> QED BY <1>I, <2>1, <2>2 DEF PcCond, InWait
<1>4. LockOwned'
  <2>1. \A u \in Thread, m \in Lock : Owns(u, m)' <=> Owns(u, m)
    BY Zenon, <1>I, Typing, <1>F DEF PcLock, Owns
  <2>2. \A m \in Lock : value'[m] = value[m]
    <3>1. \A m \in Lock : m \in Sema /\ m # t
      OBVIOUS
    <3> QED BY Zenon, <3>1, <1>F
  <2> QED BY Zenon, <2>1, <2>2, OwnsSame DEF IInv
<1>5. Sleepers'
  <2>1. waiters' = waiters /\ \A u \in Thread : u # t => waitsFor'[u] = waitsFor[u]
    BY Zenon, <1>F
  <2>2. \A s \in Sema : Range(waiters[s]) \subseteq Thread
    BY DEF IInv, TypeOK, SemaphoreTypeOK, Range
  <2>3. \A s \in Sema : t \notin Range(waiters[s])
    BY Zenon, <1>F DEF Awake
  <2> QED BY ZenonT(40), <1>I, <2>1, <2>2, <2>3 DEF Sleepers
<1>6. WaiterAlive'
  <2>1. /\ \A u \in Thread : u # t => pc'[u] = pc[u]
        /\ UNCHANGED <<cwaiters, cond, signalee>>
        /\ pc[t] = "wait" /\ value[t] > 0
    BY Zenon DEF WaitPass, Goto, IInv, TypeOK
  <2>2. cond[t] \in Cond /\ t \notin Range(cwaiters[cond[t]]) /\ \A u \in Thread : signalee[u] # t
    BY <2>1 DEF IInv, TypeOK, PcCond, SignalState, InWait
  <2>3. \A c \in Cond : t \notin Range(cwaiters[c])
    BY Zenon, <2>2 DEF IInv, WaiterAlive
  <2>4. \A c \in Cond : Range(cwaiters[c]) \subseteq Thread
    BY DEF IInv, TypeOK, Range
  <2>5. \A u \in Thread : signalee[u] \in Thread \cup {NULL}
    BY Zenon DEF IInv, TypeOK
  <2>6. \A c \in Cond : \A u \in Range(cwaiters[c]) : InWait(u)' /\ cond'[u] = c
    BY <2>1, <2>3, <2>4 DEF IInv, WaiterAlive, InWait
  <2> QED BY <2>1, <2>2, <2>5, <2>6 DEF IInv, WaiterAlive
<1>7. SignalState'
  <2>1. /\ \A u \in Thread : u # t => pc'[u] = pc[u] /\ value'[u] = value[u]
        /\ pc[t] = "wait" /\ pc'[t] = "acquire" /\ ~(value[t] = 0)
        /\ UNCHANGED <<waiters, cwaiters, cond, signalee>>
    BY <1>F DEF SemaphoreTypeOK
  <2>2. /\ ~(cond[t] # NULL /\ t \in Range(cwaiters[cond[t]]))
        /\ ~(\E u \in Thread : signalee[u] = t)
        /\ waiters[t] = <<>>
    BY <1>I, <2>1 DEF SignalState, InWait
  <2>3. SignalState /\ pc'[t] \notin {"wait_release", "wait_up", "wait"}
    BY Zenon, <1>I, <2>1
  <2> QED BY <2>1, <2>2, <2>3 DEF SignalState, InWait
<1>8. LastJoined'
  BY Zenon, <1>I, Typing, <1>F DEF LastJoined
<1> QED BY <1>1, <1>2, <1>3, <1>4, <1>5, <1>6, <1>7, <1>8 DEF IInv

\* cond_signal() takes the first waiter.
LEMMA SignalIInv ==
  ASSUME IInv, NEW t \in Thread, NEW c \in Cond, cond_signal(t, c)
  PROVE  IInv'
<1> USE SynchAssumption
<1>I. TypeOK /\ PcLock /\ PcCond /\ LockOwned /\ Sleepers /\ WaiterAlive /\ SignalState /\ LastJoined
  BY Zenon DEF IInv
<1>F. /\ pc[t] = "run" /\ holder[lockOf[c]] = t
      /\ signalee'[t] = Head(cwaiters[c]) /\ Head(cwaiters[c]) \in Thread
      /\ \A u \in Thread : u # t => signalee'[u] = signalee[u]
      /\ \A u \in Thread : pc'[u] = IF u = t THEN "signal" ELSE pc[u]
      /\ UNCHANGED <<value, waiters, waitsFor, holder, lock, cond>>
  BY <1>I DEF cond_signal, PopWaiter, lock_held_by, Goto, semaphoreVars, TypeOK, SemaphoreTypeOK
<1>0. /\ c \in Cond /\ PopWaiter(t, c) /\ holder[lockOf[c]] = t
      /\ pc[t] \in {"run", "broadcast"} /\ UNCHANGED <<semaphoreVars, holder, lock, cond>>
      /\ pc' = [pc EXCEPT ![t] = IF pc[t] = "run" THEN "signal" ELSE "bc_signal"]
  BY Zenon DEF cond_signal, Goto, lock_held_by, IInv, TypeOK, PcCond
<1>1. TypeOK'
  BY DEF cond_signal, Goto, semaphoreVars, PopWaiter, lock_held_by, IInv, TypeOK,
      SemaphoreTypeOK, PC, PcLock, PcCond
<1>2. PcLock'
  BY <1>I, <1>F DEF PcLock
<1>3. PcCond'
  BY <1>I, Typing, <1>F DEF PcLock, PcCond, InWait
<1>4. LockOwned'
  BY <1>I, Typing, <1>F DEF PcLock, LockOwned, Owns
<1>5. Sleepers'
  BY Zenon, <1>I, Typing, <1>F DEF PcLock, Sleepers, Awake
<1>6. WaiterAlive'
  BY Zenon, <1>0, PopStep
<1>7. SignalState'
  BY Zenon, <1>0, PopStep
<1>8. LastJoined'
  BY Zenon, <1>0, PopStep
<1> QED BY <1>1, <1>2, <1>3, <1>4, <1>5, <1>6, <1>7, <1>8 DEF IInv

\* cond_signal() ups the waiter it took.
LEMMA SignalUpIInv ==
  ASSUME IInv, NEW t \in Thread, SignalUp(t)
  PROVE  IInv'
<1> USE SynchAssumption
<1>I. TypeOK /\ PcLock /\ PcCond /\ LockOwned /\ Sleepers /\ WaiterAlive /\ SignalState /\ LastJoined
  BY DEF IInv
<1>0. signalee[t] \in Thread /\ signalee[t] \in Sema /\ up(signalee[t])
  BY DEF SignalUp, IInv, TypeOK, PcCond
<1>F. /\ pc[t] \in {"signal", "bc_signal"}
      /\ \A u \in Thread : pc'[u] = IF u = t THEN (IF pc[t] = "signal" THEN "run" ELSE "broadcast") ELSE pc[u]
      /\ \A u \in Thread : signalee'[u] = IF u = t THEN NULL ELSE signalee[u]
      /\ UNCHANGED <<waitsFor, holder, cwaiters, lock, cond>>
  BY <1>I, <1>0, UpStep DEF SignalUp, Goto, TypeOK, SemaphoreTypeOK
<1>1. TypeOK'
  <2>1. SemaphoreTypeOK'
    BY Zenon, <1>0, UpStep DEF SignalUp, call_down, IInv, TypeOK, SemaphoreTypeOK
  <2> QED BY Zenon, <2>1 DEF SignalUp, Goto, PC, IInv, TypeOK
<1>2. PcLock'
  BY <1>I, Typing, <1>F DEF PcLock, LockOwned, Owns
<1>3. PcCond'
  BY <1>I, Typing, <1>F DEF PcLock, PcCond, InWait
<1>4. LockOwned'
  <2>1. \A u \in Thread, m \in Lock : Owns(u, m)' <=> Owns(u, m)
    BY Zenon, <1>I, Typing, <1>F DEF PcLock, Owns
  <2>2. \A m \in Lock : value'[m] = value[m]
    BY <1>0, UpStep
  <2> QED BY <2>1, <2>2, OwnsSame DEF IInv
<1>5. Sleepers'
  <2>1. \A s \in Sema : IsInjective(waiters'[s]) /\ Range(waiters'[s]) \subseteq Range(waiters[s])
    BY Zenon, <1>0, UpStep
  <2> QED BY Zenon, <2>1 DEF SignalUp, IInv, Sleepers
<1>6. WaiterAlive'
  BY <1>I, Typing, <1>F DEF WaiterAlive, InWait
<1>7. SignalState'
  <2> DEFINE w == signalee[t]
  <2>1. /\ \A u \in Thread : InWait(u)' <=> InWait(u)
        /\ \A u \in Thread : signalee'[u] = IF u = t THEN NULL ELSE signalee[u]
        /\ UNCHANGED <<cwaiters, cond>>
    BY Zenon DEF SignalUp, Goto, InWait, IInv, TypeOK
  <2>2. /\ \A u \in Thread : waiters[u] = <<>> => waiters'[u] = <<>>
        /\ \A u \in Thread : value'[u] = IF u = w THEN value[u] + 1 ELSE value[u]
    BY <1>0, UpStep
  <2>3. /\ pc[w] = "wait" /\ \A u \in Thread : signalee[u] = w => u = t
    BY Zenon, <1>0 DEF IInv, WaiterAlive
  <2>4. waiters'[w] = <<>>
    <3>1. CASE waiters[w] = <<>>
      BY Zenon, <1>0, <2>2, <3>1
    <3>2. CASE waiters[w] # <<>>
      <4>1. waiters[w] \in Seq(Thread) /\ Head(waiters[w]) \in Range(waiters[w])
        BY Zenon, <1>0, <3>2, TailRange DEF IInv, TypeOK, SemaphoreTypeOK
      <4>2. Range(waiters[w]) \subseteq {w} /\ Head(waiters[w]) = w
        BY Zenon, <1>0, <4>1, OwnSema
      <4>3. Range(waiters'[w]) = {} /\ waiters'[w] \in Seq(Thread)
        BY Zenon, <1>0, <3>2, <4>2, UpStep
      <4> QED BY Zenon, <4>3, EmptyRange
    <3> QED BY Zenon, <3>1, <3>2
  <2>5. w \in Thread /\ w # NULL
    BY Zenon, <1>0
  <2> HIDE DEF w
  <2>6. \A u \in Thread : u # w =>
          ((\E x \in Thread : signalee'[x] = u) <=> (\E x \in Thread : signalee[x] = u))
    BY Zenon, <2>1, <2>5 DEF w
  <2>7. ~\E x \in Thread : signalee'[x] = w
    BY Zenon, <2>1, <2>3, <2>5
  <2>8. InWait(w) /\ \E x \in Thread : signalee[x] = w
    BY Zenon, <2>3 DEF InWait, w
  <2> SUFFICES ASSUME NEW u \in Thread
               PROVE  LET listed == cond[u] # NULL /\ u \in Range(cwaiters[cond[u]])
                          signalled == \E x \in Thread : signalee'[x] = u
                      IN  IF InWait(u)
                          THEN \/ listed /\ ~signalled /\ value'[u] = 0
                               \/ ~listed /\ signalled /\ value'[u] = 0
                               \/ ~listed /\ ~signalled /\ value'[u] = 1 /\ waiters'[u] = <<>>
                          ELSE ~listed /\ ~signalled /\ waiters'[u] = <<>>
    BY Zenon, <2>1 DEF SignalState
  <2>9. CASE u = w
    BY <2>2, <2>4, <2>7, <2>8, <2>9 DEF IInv, SignalState
  <2>10. CASE u # w
    BY Zenon, <2>2, <2>6, <2>10 DEF IInv, SignalState
  <2> QED BY Zenon, <2>9, <2>10
<1>8. LastJoined'
  BY Zenon, <1>I, Typing, <1>F DEF LastJoined
<1> QED BY <1>1, <1>2, <1>3, <1>4, <1>5, <1>6, <1>7, <1>8 DEF IInv

\* cond_broadcast() starts.
LEMMA BroadcastIInv ==
  ASSUME IInv, NEW t \in Thread, NEW c \in Cond, cond_broadcast(t, c)
  PROVE  IInv'
<1> USE SynchAssumption
<1>I. TypeOK /\ PcLock /\ PcCond /\ LockOwned /\ Sleepers /\ WaiterAlive /\ SignalState /\ LastJoined
  BY DEF IInv
<1>F. /\ pc[t] = "run" /\ holder[lockOf[c]] = t /\ c # NULL
      /\ \A u \in Thread : pc'[u] = IF u = t THEN "broadcast" ELSE pc[u]
      /\ \A u \in Thread : cond'[u] = IF u = t THEN c ELSE cond[u]
      /\ UNCHANGED <<value, waiters, waitsFor, holder, cwaiters, lock, signalee>>
  BY Zenon, <1>I DEF cond_broadcast, lock_held_by, Goto, semaphoreVars, TypeOK, SemaphoreTypeOK
<1>1. TypeOK'
  BY Zenon DEF cond_broadcast, Goto, semaphoreVars, lock_held_by, IInv, TypeOK, SemaphoreTypeOK, PC,
      PcLock, PcCond
<1>2. PcLock'
  BY <1>I, <1>F DEF PcLock
<1>3. PcCond'
  BY <1>I, Typing, <1>F DEF PcLock, PcCond, InWait
<1>4. LockOwned'
  <2>1. \A u \in Thread, m \in Lock : Owns(u, m)' <=> Owns(u, m)
    BY Zenon, <1>I, Typing, <1>F DEF PcLock, Owns
  <2>2. \A m \in Lock : value'[m] = value[m]
    BY Zenon, Typing, <1>F
  <2> QED BY <2>1, <2>2, OwnsSame DEF IInv
<1>5. Sleepers'
  BY ZenonT(40), <1>I, Typing, <1>F DEF PcLock, Sleepers, Awake
<1>6. WaiterAlive'
  BY <1>I, Typing, <1>F DEF WaiterAlive, InWait
<1>7. SignalState'
  <2>1. /\ pc[t] = "run" /\ \A u \in Thread : u # t => pc'[u] = pc[u] /\ cond'[u] = cond[u]
        /\ pc'[t] = "broadcast" /\ cond'[t] = c
        /\ UNCHANGED <<value, waiters, cwaiters, signalee>>
    BY Zenon DEF cond_broadcast, Goto, semaphoreVars, IInv, TypeOK
  <2>2. t \notin Range(cwaiters[c])
    BY Zenon, <2>1 DEF IInv, WaiterAlive, InWait
  <2>3. (~\E u \in Thread : signalee[u] = t) /\ waiters[t] = <<>>
    BY Zenon, <2>1 DEF IInv, SignalState, InWait
  <2>4. \A u \in Thread : InWait(u)' <=> InWait(u)
    BY Zenon, <2>1 DEF InWait
  <2>5. ~InWait(t)
    BY Zenon, <2>1 DEF InWait
  <2> QED BY <2>1, <2>2, <2>3, <2>4, <2>5 DEF IInv, SignalState
<1>8. LastJoined'
  BY Zenon, <1>I, Typing, <1>F DEF LastJoined
<1> QED BY <1>1, <1>2, <1>3, <1>4, <1>5, <1>6, <1>7, <1>8 DEF IInv

\* cond_broadcast() takes a waiter.
LEMMA BroadcastOneIInv ==
  ASSUME IInv, NEW t \in Thread, BroadcastOne(t)
  PROVE  IInv'
<1> USE SynchAssumption
<1>I. TypeOK /\ PcLock /\ PcCond /\ LockOwned /\ Sleepers /\ WaiterAlive /\ SignalState /\ LastJoined
  BY DEF IInv
<1>F. /\ pc[t] = "broadcast" /\ cond[t] \in Cond
      /\ signalee'[t] = Head(cwaiters[cond[t]]) /\ Head(cwaiters[cond[t]]) \in Thread
      /\ \A u \in Thread : u # t => signalee'[u] = signalee[u]
      /\ \A u \in Thread : pc'[u] = IF u = t THEN "bc_signal" ELSE pc[u]
      /\ UNCHANGED <<value, waiters, waitsFor, holder, lock, cond>>
  BY <1>I DEF BroadcastOne, PopWaiter, Goto, semaphoreVars, PcCond, TypeOK, SemaphoreTypeOK
<1>0. /\ cond[t] \in Cond /\ PopWaiter(t, cond[t]) /\ holder[lockOf[cond[t]]] = t
      /\ pc[t] \in {"run", "broadcast"} /\ UNCHANGED <<semaphoreVars, holder, lock, cond>>
      /\ pc' = [pc EXCEPT ![t] = IF pc[t] = "run" THEN "signal" ELSE "bc_signal"]
  BY DEF BroadcastOne, Goto, lock_held_by, IInv, TypeOK, PcCond
<1>1. TypeOK'
  BY DEF BroadcastOne, Goto, semaphoreVars, PopWaiter, IInv, TypeOK, SemaphoreTypeOK, PC,
      PcLock, PcCond
<1>2. PcLock'
  BY <1>I, <1>F DEF PcLock
<1>3. PcCond'
  BY <1>I, Typing, <1>F DEF PcLock, PcCond, InWait
<1>4. LockOwned'
  BY <1>I, Typing, <1>F DEF PcLock, LockOwned, Owns
<1>5. Sleepers'
  BY Zenon, <1>I, Typing, <1>F DEF PcLock, Sleepers, Awake
<1>6. WaiterAlive'
  BY Zenon, <1>0, PopStep
<1>7. SignalState'
  BY Zenon, <1>0, PopStep
<1>8. LastJoined'
  BY Zenon, <1>0, PopStep
<1> QED BY <1>1, <1>2, <1>3, <1>4, <1>5, <1>6, <1>7, <1>8 DEF IInv

\* cond_broadcast() finds the list empty.
LEMMA BroadcastDoneIInv ==
  ASSUME IInv, NEW t \in Thread, BroadcastDone(t)
  PROVE  IInv'
<1> USE SynchAssumption
<1>I. TypeOK /\ PcLock /\ PcCond /\ LockOwned /\ Sleepers /\ WaiterAlive /\ SignalState /\ LastJoined
  BY DEF IInv
<1>F. /\ pc[t] = "broadcast"
      /\ \A u \in Thread : pc'[u] = IF u = t THEN "run" ELSE pc[u]
      /\ \A u \in Thread : cond'[u] = IF u = t THEN NULL ELSE cond[u]
      /\ UNCHANGED <<value, waiters, waitsFor, holder, cwaiters, lock, signalee>>
  BY Zenon, <1>I DEF BroadcastDone, Goto, semaphoreVars, TypeOK, SemaphoreTypeOK
<1>1. TypeOK'
  BY Zenon DEF BroadcastDone, Goto, semaphoreVars, IInv, TypeOK, SemaphoreTypeOK, PC, PcLock, PcCond
<1>2. PcLock'
  BY <1>I, <1>F DEF PcLock
<1>3. PcCond'
  BY <1>I, Typing, <1>F DEF PcLock, PcCond, InWait
<1>4. LockOwned'
  <2>1. \A u \in Thread, m \in Lock : Owns(u, m)' <=> Owns(u, m)
    BY Zenon, <1>I, Typing, <1>F DEF PcLock, Owns
  <2>2. \A m \in Lock : value'[m] = value[m]
    BY Zenon, Typing, <1>F
  <2> QED BY <2>1, <2>2, OwnsSame DEF IInv
<1>5. Sleepers'
  BY Zenon, <1>I, Typing, <1>F DEF PcLock, Sleepers, Awake
<1>6. WaiterAlive'
  BY ZenonT(40), <1>I, Typing, <1>F DEF WaiterAlive, InWait
<1>7. SignalState'
  BY <1>I, Typing, <1>F DEF WaiterAlive, SignalState, InWait
<1>8. LastJoined'
  BY Zenon, <1>I, Typing, <1>F DEF LastJoined
<1> QED BY <1>1, <1>2, <1>3, <1>4, <1>5, <1>6, <1>7, <1>8 DEF IInv

----------------------------------------------------------------------------

\* The state after lock_init() and cond_init().
LEMMA InitIInv == Init => IInv
<1> SUFFICES ASSUME Init PROVE IInv
  BY Zenon
<1> USE SynchAssumption
<1>1. IsInjective(<<>>) /\ Range(<<>>) = {}
  BY DEF IsInjective, Range
<1>2. TypeOK
  BY DEF Init, TypeOK, SemaphoreTypeOK, PC
<1>3. PcLock /\ PcCond /\ LastJoined
  BY Zenon DEF Init, PcLock, PcCond, InWait, LastJoined
<1>4. LockOwned
  BY Zenon DEF Init, LockOwned, Owns
<1>5. Sleepers /\ WaiterAlive
  BY Zenon, <1>1 DEF Init, Sleepers, WaiterAlive
<1>6. SignalState
  <2>1. \A t \in Thread : pc[t] = "run" /\ cond[t] = NULL /\ waiters[t] = <<>>
    BY Zenon DEF Init
  <2>2. \A u \in Thread : signalee[u] = NULL
    BY Zenon DEF Init
  <2>3. NULL \notin Thread
    BY Zenon
  <2> QED BY Zenon, <2>1, <2>2, <2>3 DEF SignalState, InWait
<1> QED BY Zenon, <1>2, <1>3, <1>4, <1>5, <1>6 DEF IInv

\* Every step keeps the invariant.
LEMMA NextIInv ==
  ASSUME IInv, [Next]_vars
  PROVE  IInv'
<1>1. ASSUME NEW t \in Thread, Continue(t)
      PROVE  IInv'
  BY Zenon, <1>1, AcquirePassIInv, SleepIInv, SetHolderIInv, ReleaseUpIInv, WaitReleaseIInv, WaitUpIInv,
     WaitPassIInv, SignalUpIInv, BroadcastOneIInv, BroadcastDoneIInv DEF Continue
<1>2. ASSUME NEW t \in Thread, Call(t)
      PROVE  IInv'
  BY Zenon, <1>2, AcquireCallIInv, TryAcquireIInv, ReleaseIInv, WaitIInv, SignalIInv, BroadcastIInv DEF Call
<1>3. CASE UNCHANGED vars
  <2>1. UNCHANGED <<value, waiters, waitsFor, holder, cwaiters, pc, lock, cond, signalee>>
    BY Zenon, <1>3 DEF vars, semaphoreVars
  <2>2. TypeOK' /\ LockOwned' /\ Sleepers'
    BY <2>1 DEF IInv, TypeOK, SemaphoreTypeOK, LockOwned, Owns, Sleepers
  <2>3. PcLock' /\ PcCond' /\ LastJoined'
    BY Zenon, <2>1 DEF IInv, PcLock, PcCond, InWait, LastJoined
  <2>4. WaiterAlive'
    BY Zenon, <2>1 DEF IInv, WaiterAlive, InWait
  <2>5. SignalState'
    BY Zenon, <2>1 DEF IInv, SignalState, InWait
  <2> QED BY Zenon, <2>2, <2>3, <2>4, <2>5 DEF IInv
<1> QED BY Zenon, <1>1, <1>2, <1>3 DEF Next

\* The inductive invariant holds in every behaviour.
THEOREM Invariance == Spec => []IInv
<1> QED BY InitIInv, NextIInv, PTL DEF Spec

\* Fields, lists and program counters keep their types.
THEOREM TypeCorrect == Spec => []TypeOK
<1>1. IInv => TypeOK
  BY Zenon DEF IInv
<1> QED BY <1>1, Invariance, PTL

\* Mutual exclusion: at no time do two threads own a lock, from the moment
\* sema_down() returns in lock_acquire() to the sema_up() of lock_release().
THEOREM MutualExclusion == Spec => []LockOwned
<1>1. IInv => LockOwned
  BY Zenon DEF IInv
<1> QED BY <1>1, Invariance, PTL

\* cond_signal() never touches the waiter of a thread that has left cond_wait().
THEOREM WaitersOutliveSignals == Spec => []WaiterAlive
<1>1. IInv => WaiterAlive
  BY Zenon DEF IInv
<1> QED BY <1>1, Invariance, PTL

\* No signal is lost between cond_wait()'s release of the lock and its sleep.
THEOREM SignalsKept == Spec => []NoLostSignal
<1>1. ASSUME IInv PROVE NoLostSignal
  <2> USE SynchAssumption
  <2> SUFFICES ASSUME NEW t \in Thread, InWait(t)
               PROVE  \/ t \in Range(cwaiters[cond[t]]) /\ value[t] = 0
                      \/ value[t] = 1 /\ Awake(t)
                      \/ value[t] = 0 /\ \E u \in Thread : signalee[u] = t
    BY Zenon DEF NoLostSignal
  <2>1. ASSUME waiters[t] = <<>>
        PROVE  Awake(t)
    <3>1. Range(<<>>) = {}
      BY DEF Range
    <3>2. \A s \in Lock : t \notin Range(waiters[s])
      BY Zenon, <1>1, OwnSema DEF InWait
    <3>3. \A s \in Thread : s # t => t \notin Range(waiters[s])
      BY Zenon, <1>1, OwnSema
    <3> QED BY Zenon, <2>1, <3>1, <3>2, <3>3 DEF Awake
  <2> QED BY Zenon, <1>1, <2>1 DEF IInv, SignalState
<1> QED BY <1>1, Invariance, PTL
=============================================================================
