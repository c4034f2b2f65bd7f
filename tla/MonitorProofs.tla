--------------------------- MODULE MonitorProofs ---------------------------
(***************************************************************************)
(* Synch implements Monitor: the proof of the refinement, from the         *)
(* invariant of SynchProofs.                                               *)
(***************************************************************************)
EXTENDS SynchProofs

Lists == INSTANCE SequenceTheorems

\* Time limits of the provers.
USE SMTT(10), ZenonT(20)

\* A list without its last element.
LEMMA FrontSeq ==
  ASSUME NEW S, NEW q \in Seq(S), q # <<>>
  PROVE  /\ SubSeq(q, 1, Len(q) - 1) \in Seq(S)
         /\ Len(SubSeq(q, 1, Len(q) - 1)) = Len(q) - 1
         /\ \A i \in 1 .. Len(q) - 1 : SubSeq(q, 1, Len(q) - 1)[i] = q[i]
         /\ Append(SubSeq(q, 1, Len(q) - 1), q[Len(q)]) = q
<1> DEFINE n == Len(q)
           f == SubSeq(q, 1, n - 1)
<1>1. n \in Nat \ {0} /\ \A i \in 1 .. n : q[i] \in S
  OBVIOUS
<1>2. 1 \in Int /\ n - 1 \in Int /\ \A i \in 1 .. n - 1 : q[i] \in S
  BY <1>1
<1>3. /\ f \in Seq(S) /\ Len(f) = IF 1 <= n - 1 THEN (n - 1) - 1 + 1 ELSE 0
      /\ \A i \in 1 .. (n - 1) - 1 + 1 : f[i] = q[1 + i - 1]
  BY <1>2, Lists!SubSeqProperties
<1> HIDE DEF f, n
<1>4. Len(f) = n - 1 /\ \A i \in 1 .. n - 1 : f[i] = q[i]
  BY <1>1, <1>3
<1>5. Append(f, q[n]) = q
  <2>1. /\ Append(f, q[n]) \in Seq(S) /\ Len(Append(f, q[n])) = n
        /\ \A i \in 1 .. n - 1 : Append(f, q[n])[i] = f[i]
        /\ Append(f, q[n])[n] = q[n]
    BY <1>1, <1>3, <1>4
  <2>2. \A i \in 1 .. n : Append(f, q[n])[i] = q[i]
    BY <1>1, <1>4, <2>1
  <2> QED BY Zenon, <2>1, <2>2, Lists!SeqEqual DEF n
<1> QED BY Zenon, <1>3, <1>4, <1>5 DEF n, f
----------------------------------------------------------------------------
(* The refinement of Monitor. *)

\* The owner of a lock in the abstract monitor.
LEMMA OwnerIs ==
  ASSUME LockOwned, NEW l \in Lock
  PROVE  /\ \A t \in Thread : Owns(t, l) => Owner(l) = t
         /\ (\A t \in Thread : ~Owns(t, l)) => Owner(l) = NULL
<1>1. ASSUME NEW t \in Thread, Owns(t, l)
      PROVE  Owner(l) = t
  <2>1. Owners(l) = {t}
    BY Zenon, <1>1 DEF LockOwned, Owners
  <2> QED BY Zenon, <2>1 DEF Owner
<1>2. (\A t \in Thread : ~Owns(t, l)) => Owner(l) = NULL
  BY Zenon DEF Owner, Owners
<1> QED BY Zenon, <1>1, <1>2

\* A thread on a list that is not in sema_down() yet owns the lock.
LEMMA JoinerOwns ==
  ASSUME IInv, NEW c \in Cond, NEW u \in Range(cwaiters[c]), pc[u] # "wait"
  PROVE  u \in Thread /\ Owns(u, lockOf[c]) /\ pc[u] \in {"wait_release", "wait_up"} /\ cond[u] = c
<1>1. u \in Thread
  BY DEF IInv, TypeOK, Range
<1>2. pc[u] \in {"wait_release", "wait_up"} /\ cond[u] = c
  BY Zenon DEF IInv, WaiterAlive, InWait
<1>3. c # NULL
  BY Zenon, SynchAssumption
<1> QED BY <1>1, <1>2, <1>3 DEF Owns, IInv, PcLock, PcCond

\* When no thread is joining, the abstract queue is the list.
LEMMA QueueWhole ==
  ASSUME IInv, NEW c \in Cond, \A u \in Range(cwaiters[c]) : pc[u] = "wait"
  PROVE  Queue(c) = cwaiters[c]
<1>1. cwaiters[c] \in Seq(Thread)
  BY Zenon DEF IInv, TypeOK
<1>2. Len(cwaiters[c]) > 0 => cwaiters[c][Len(cwaiters[c])] \in Range(cwaiters[c])
  BY <1>1 DEF Range
<1> QED BY Zenon, <1>2 DEF Queue

\* Only threads in cond_wait()'s sema_down() are in the abstract queues.
LEMMA QueueMembers ==
  ASSUME IInv, NEW c \in Cond
  PROVE  /\ Queue(c) \in Seq(Thread)
         /\ \A i \in 1 .. Len(Queue(c)) : pc[Queue(c)[i]] = "wait"
<1> DEFINE q == cwaiters[c]
           n == Len(q)
<1>1. q \in Seq(Thread) /\ IsInjective(q) /\ n \in Nat
  BY DEF IInv, TypeOK, WaiterAlive
<1>2. \A i \in 1 .. n : q[i] \in Range(q) /\ q[i] \in Thread
  BY <1>1 DEF Range
<1> HIDE DEF q, n
<1>3. CASE n > 0 /\ pc[q[n]] # "wait"
  <2>1. Queue(c) = SubSeq(q, 1, n - 1)
    BY Zenon, <1>3 DEF Queue, q, n
  <2>2. /\ SubSeq(q, 1, n - 1) \in Seq(Thread) /\ Len(SubSeq(q, 1, n - 1)) = n - 1
        /\ \A i \in 1 .. n - 1 : SubSeq(q, 1, n - 1)[i] = q[i]
    <3>1. q # <<>>
      BY <1>1, <1>3 DEF n
    <3> QED BY Zenon, <1>1, <3>1, FrontSeq DEF n
  <2>3. ASSUME NEW i \in 1 .. n - 1
        PROVE  pc[q[i]] = "wait"
    <3>1. i \in 1 .. n /\ n \in 1 .. n /\ i # n
      BY <1>1, <1>3
    <3>2. q[i] # q[n]
      BY <1>1, <3>1 DEF IsInjective, n
    <3>3. SUFFICES ASSUME pc[q[i]] # "wait" PROVE FALSE
      BY Zenon
    <3>4. Owns(q[i], lockOf[c]) /\ Owns(q[n], lockOf[c]) /\ q[i] \in Thread /\ q[n] \in Thread
      BY Zenon, <1>2, <1>3, <3>1, <3>3, JoinerOwns DEF q
    <3> QED BY Zenon, <3>2, <3>4, SynchAssumption DEF IInv, LockOwned
  <2> QED BY Zenon, <2>1, <2>2, <2>3
<1>4. CASE ~(n > 0 /\ pc[q[n]] # "wait")
  <2>1. Queue(c) = q
    BY Zenon, <1>4 DEF Queue, q, n
  <2>2. ASSUME NEW i \in 1 .. n
        PROVE  pc[q[i]] = "wait"
    <3>1. SUFFICES ASSUME pc[q[i]] # "wait" PROVE FALSE
      BY Zenon
    <3>2. pc[q[i]] \in {"wait_release", "wait_up"} /\ cond[q[i]] = c /\ q[i] \in Thread
      BY Zenon, <1>2, <3>1, JoinerOwns DEF q
    <3>3. q[n] = q[i]
      BY Zenon, <3>2 DEF IInv, LastJoined, q, n
    <3> QED BY <1>1, <1>4, <3>1, <3>3
  <2> QED BY Zenon, <1>1, <2>1, <2>2 DEF n
<1> QED BY Zenon, <1>3, <1>4

\* A thread outside cond_wait()'s sema_down() is in no abstract queue.
LEMMA NotWaiting ==
  ASSUME IInv, NEW t \in Thread, pc[t] # "wait"
  PROVE  ~Abstract!Waiting(t)
<1>1. \A c \in Cond : \A i \in 1 .. Len(Queue(c)) : Queue(c)[i] # t
  BY Zenon, QueueMembers
<1> QED BY Zenon, <1>1 DEF Abstract!Waiting

\* What the abstract monitor sees of a step that changes none of it.
LEMMA Unseen ==
  ASSUME \A l \in Lock : Owner(l)' = Owner(l),
         \A c \in Cond : Queue(c)' = Queue(c),
         \A u \in Thread : (Signalled(u)' <=> Signalled(u)) /\ (Signalled(u) => lock'[u] = lock[u])
  PROVE  UNCHANGED Abstract!monitorVars
BY Zenon DEF Abstract!monitorVars

\* The owner after a step.
LEMMA OwnerAfter ==
  ASSUME NEW l \in Lock
  PROVE  /\ (\A u \in Thread : Owns(u, l)' <=> Owns(u, l)) => Owner(l)' = Owner(l)
         /\ \A t \in Thread : (\A u \in Thread : Owns(u, l)' <=> u = t) => Owner(l)' = t
         /\ (\A u \in Thread : ~Owns(u, l)') => Owner(l)' = NULL
<1>1. ASSUME \A u \in Thread : Owns(u, l)' <=> Owns(u, l)
      PROVE  Owner(l)' = Owner(l)
  <2>1. Owners(l)' = Owners(l)
    BY Zenon, <1>1 DEF Owners, Owns
  <2> QED BY <2>1 DEF Owner
<1>2. ASSUME NEW t \in Thread, \A u \in Thread : Owns(u, l)' <=> u = t
      PROVE  Owner(l)' = t
  <2>1. Owners(l)' = {t}
    BY Zenon, <1>2 DEF Owners, Owns
  <2> QED BY Zenon, <2>1 DEF Owner
<1>3. ASSUME \A u \in Thread : ~Owns(u, l)'
      PROVE  Owner(l)' = NULL
  <2>1. Owners(l)' = {}
    BY Zenon, <1>3 DEF Owners, Owns
  <2> QED BY Zenon, <2>1 DEF Owner
<1> QED BY Zenon, <1>1, <1>2, <1>3

\* The abstract queue depends on the list and on where its members are.
LEMMA QueueSame ==
  ASSUME IInv, NEW c \in Cond, cwaiters'[c] = cwaiters[c],
         \A u \in Range(cwaiters[c]) : pc'[u] = "wait" <=> pc[u] = "wait"
  PROVE  Queue(c)' = Queue(c)
<1>1. cwaiters[c] \in Seq(Thread)
  BY Zenon DEF IInv, TypeOK
<1>2. Len(cwaiters[c]) > 0 => cwaiters[c][Len(cwaiters[c])] \in Range(cwaiters[c])
  BY <1>1 DEF Range
<1> QED BY Zenon, <1>2 DEF Queue

\* Steps inside the functions that the monitor does not see.
LEMMA SilentSteps ==
  ASSUME IInv, IInv', NEW t \in Thread,
         \/ Sleep(t) \/ SetHolder(t) \/ WaitRelease(t) \/ WaitPass(t) \/ SignalUp(t)
         \/ BroadcastDone(t)
         \/ \E l \in Lock : lock_acquire(t, l) \/ lock_release(t, l)
         \/ \E c \in Cond : cond_broadcast(t, c)
  PROVE  UNCHANGED Abstract!monitorVars
<1> USE SynchAssumption
<1>1. cwaiters' = cwaiters
  BY Zenon DEF Sleep, SetHolder, WaitRelease, WaitPass, SignalUp, BroadcastDone, lock_acquire,
     lock_release, cond_broadcast
<1>2. \A u \in Thread, l \in Lock : Owns(u, l)' <=> Owns(u, l)
  <2>1. CASE Sleep(t) \/ WaitRelease(t) \/ WaitPass(t) \/ SignalUp(t) \/ BroadcastDone(t)
    BY <2>1 DEF Sleep, WaitRelease, WaitPass, SignalUp, BroadcastDone, Goto, IInv, TypeOK, PcLock, Owns
  <2>2. CASE SetHolder(t)
    BY <2>2 DEF SetHolder, Goto, IInv, TypeOK, PcLock, Owns
  <2>3. ASSUME NEW l \in Lock, lock_acquire(t, l) \/ lock_release(t, l)
        PROVE  \A u \in Thread, m \in Lock : Owns(u, m)' <=> Owns(u, m)
    BY <2>3 DEF lock_acquire, lock_release, lock_held_by, Goto, IInv, TypeOK, PcLock, Owns
  <2>4. ASSUME NEW c \in Cond, cond_broadcast(t, c)
        PROVE  \A u \in Thread, m \in Lock : Owns(u, m)' <=> Owns(u, m)
    BY <2>4 DEF cond_broadcast, Goto, IInv, TypeOK, PcLock, Owns
  <2> QED BY <2>1, <2>2, <2>3, <2>4
<1>3. \A u \in Thread : u # t => pc'[u] = pc[u] /\ cond'[u] = cond[u] /\ lock'[u] = lock[u]
  BY DEF Sleep, SetHolder, WaitRelease, WaitPass, SignalUp, BroadcastDone, lock_acquire,
     lock_release, cond_broadcast, Goto, IInv, TypeOK
<1>4. /\ pc'[t] = "wait" <=> (pc[t] = "wait" /\ Sleep(t))
      /\ WaitPass(t) => pc[t] = "wait" /\ pc'[t] = "acquire"
  BY DEF Sleep, SetHolder, WaitRelease, WaitPass, SignalUp, BroadcastDone, lock_acquire,
     lock_release, cond_broadcast, Goto, IInv, TypeOK
<1>5. \A c \in Cond : WaitPass(t) => t \notin Range(cwaiters[c])
  <2>1. ASSUME WaitPass(t)
        PROVE  \A c \in Cond : t \notin Range(cwaiters[c])
    <3>1. pc[t] = "wait" /\ value[t] > 0
      BY Zenon, <2>1 DEF WaitPass
    <3>2. cond[t] # NULL /\ t \notin Range(cwaiters[cond[t]])
      BY <3>1 DEF IInv, PcCond, InWait, SignalState
    <3> QED BY Zenon, <3>2 DEF IInv, WaiterAlive
  <2> QED BY Zenon, <2>1
<1>6. ASSUME NEW c \in Cond, NEW u \in Range(cwaiters[c])
      PROVE  pc'[u] = "wait" <=> pc[u] = "wait"
  <2>1. u \in Thread /\ InWait(u)
    BY DEF IInv, TypeOK, WaiterAlive, Range
  <2>2. CASE u # t
    BY Zenon, <1>3, <2>1, <2>2
  <2>3. CASE u = t
    <3>1. ~WaitPass(t) /\ (Sleep(t) \/ WaitRelease(t))
      BY Zenon, <1>5, <2>1, <2>3 DEF InWait, SetHolder, SignalUp, BroadcastDone, lock_acquire,
         lock_release, cond_broadcast
    <3> QED BY Zenon, <2>3, <3>1 DEF Sleep, WaitRelease, Goto, IInv, TypeOK
  <2> QED BY Zenon, <2>2, <2>3
<1>7. \A c \in Cond : Queue(c)' = Queue(c)
  BY Zenon, <1>1, <1>6, QueueSame
<1>8. \A u \in Thread : (Signalled(u)' <=> Signalled(u)) /\ (Signalled(u) => lock'[u] = lock[u])
  <2>1. \A u \in Thread : u # t => (Signalled(u)' <=> Signalled(u))
    BY Zenon, <1>1, <1>3 DEF Signalled
  <2>2. CASE Sleep(t)
    BY Zenon, <1>1, <1>3, <2>1, <2>2 DEF Sleep, Signalled
  <2>3. CASE WaitPass(t)
    <3>1. /\ pc[t] = "wait" /\ pc'[t] = "acquire" /\ cond' = cond /\ lock' = lock
          /\ cond[t] # NULL /\ cond[t] \in Cond
      BY <1>4, <2>3 DEF WaitPass, IInv, TypeOK, PcCond, InWait
    <3> QED BY <1>1, <1>5, <2>1, <2>3, <3>1 DEF Signalled
  <2>4. CASE ~Sleep(t) /\ ~WaitPass(t)
    <3>1. pc[t] \notin {"wait", "acquire"} /\ (pc'[t] = "acquire" => cond'[t] = NULL) /\ pc'[t] # "wait"
      BY <2>4 DEF SetHolder, WaitRelease, SignalUp, BroadcastDone, lock_acquire,
         lock_release, cond_broadcast, Goto, IInv, TypeOK, PcCond
    <3> QED BY ZenonT(40), <1>3, <2>1, <3>1 DEF Signalled
  <2> QED BY Zenon, <2>2, <2>3, <2>4
<1> QED BY Zenon, <1>2, <1>7, <1>8, OwnerAfter, Unseen

\* Joining a condition's list is not yet a wait: the lock is still held.
LEMMA JoinStep ==
  ASSUME IInv, IInv', NEW t \in Thread, NEW c \in Cond, cond_wait(t, c)
  PROVE  UNCHANGED Abstract!monitorVars
<1> USE SynchAssumption
<1>1. /\ pc[t] = "run" /\ holder[lockOf[c]] = t /\ holder' = holder
      /\ pc' = [pc EXCEPT ![t] = "wait_release"] /\ cond' = [cond EXCEPT ![t] = c]
      /\ lock' = [lock EXCEPT ![t] = lockOf[c]]
      /\ cwaiters' = [cwaiters EXCEPT ![c] = Append(@, t)]
  BY Zenon DEF cond_wait, lock_held_by, Goto
<1>2. \A u \in Thread, l \in Lock : Owns(u, l)' <=> Owns(u, l)
  BY <1>1 DEF IInv, TypeOK, PcLock, Owns
<1>3. \A d \in Cond : t \notin Range(cwaiters[d])
  BY Zenon, <1>1 DEF IInv, WaiterAlive, InWait
<1>4. \A u \in Range(cwaiters[c]) : pc[u] = "wait"
  <2> SUFFICES ASSUME NEW u \in Range(cwaiters[c]), pc[u] # "wait"
               PROVE  FALSE
    BY Zenon
  <2>1. Owns(u, lockOf[c]) /\ u \in Thread
    BY Zenon, JoinerOwns
  <2>2. Owns(t, lockOf[c])
    BY Zenon, <1>1 DEF Owns
  <2> QED BY Zenon, <1>3, <2>1, <2>2 DEF IInv, LockOwned
<1>5. Queue(c)' = Queue(c)
  <2> DEFINE q == cwaiters[c]
  <2>1. q \in Seq(Thread) /\ cwaiters'[c] = Append(q, t)
    BY Zenon, <1>1 DEF IInv, TypeOK
  <2>2. /\ Append(q, t) \in Seq(Thread) /\ Append(q, t) # <<>>
        /\ Len(Append(q, t)) = Len(q) + 1 /\ Append(q, t)[Len(q) + 1] = t
        /\ \A i \in 1 .. Len(q) : Append(q, t)[i] = q[i]
    BY <2>1
  <2>3. SubSeq(Append(q, t), 1, Len(q)) = q
    <3> DEFINE f == SubSeq(Append(q, t), 1, Len(Append(q, t)) - 1)
    <3>1. /\ f \in Seq(Thread) /\ Len(f) = Len(Append(q, t)) - 1
          /\ \A i \in 1 .. Len(Append(q, t)) - 1 : f[i] = Append(q, t)[i]
      BY <2>2, FrontSeq
    <3>2. Len(q) \in Nat /\ Len(Append(q, t)) - 1 = Len(q)
      BY <2>1, <2>2
    <3>3. Len(f) = Len(q) /\ \A i \in 1 .. Len(q) : f[i] = q[i]
      BY Zenon, <2>2, <3>1, <3>2
    <3> HIDE DEF f
    <3>4. f = q
      BY Zenon, <2>1, <3>1, <3>3, Lists!SeqEqual
    <3> QED BY Zenon, <3>2, <3>4 DEF f
  <2>4. pc'[t] = "wait_release"
    BY Zenon, <1>1 DEF IInv, TypeOK
  <2>5. Queue(c)' = SubSeq(Append(q, t), 1, Len(q))
    BY <2>1, <2>2, <2>4 DEF Queue
  <2> QED BY Zenon, <1>4, <2>3, <2>5, QueueWhole
<1>6. \A d \in Cond : d # c => Queue(d)' = Queue(d)
  <2> SUFFICES ASSUME NEW d \in Cond, d # c PROVE Queue(d)' = Queue(d)
    BY Zenon
  <2>1. cwaiters'[d] = cwaiters[d]
    BY Zenon, <1>1 DEF IInv, TypeOK
  <2>2. \A u \in Range(cwaiters[d]) : u \in Thread /\ u # t
    BY <1>3 DEF IInv, TypeOK, Range
  <2> QED BY <1>1, <2>1, <2>2, QueueSame DEF IInv, TypeOK
<1>7. ASSUME NEW u \in Thread
      PROVE  (Signalled(u)' <=> Signalled(u)) /\ (Signalled(u) => lock'[u] = lock[u])
  <2>1. CASE u = t
    BY Zenon, <1>1, <2>1 DEF Signalled, IInv, TypeOK
  <2>2. CASE u # t
    <3>1. pc'[u] = pc[u] /\ cond'[u] = cond[u] /\ lock'[u] = lock[u]
      BY <1>1, <2>2 DEF IInv, TypeOK
    <3>2. \A d \in Cond : u \in Range(cwaiters'[d]) <=> u \in Range(cwaiters[d])
      BY <1>1, <2>2, AppendRange DEF IInv, TypeOK
    <3>3. cond[u] \in Cond \cup {NULL}
      BY Zenon DEF IInv, TypeOK
    <3> QED BY Zenon, <3>1, <3>2, <3>3 DEF Signalled
  <2> QED BY Zenon, <2>1, <2>2
<1> QED BY Zenon, <1>2, <1>5, <1>6, <1>7, OwnerAfter, Unseen

\* Taking the lock's unit is the abstract acquisition.
LEMMA AcquireStep ==
  ASSUME IInv, IInv', NEW t \in Thread, NEW l \in Lock,
         \/ AcquirePass(t) /\ lock[t] = l
         \/ lock_try_acquire(t, l)
  PROVE  Abstract!Acquire(t, l)
<1> USE SynchAssumption
<1>1. /\ pc[t] \in {"run", "acquire"} /\ value[l] > 0 /\ holder' = holder
      /\ pc' = [pc EXCEPT ![t] = "acquired"] /\ cond' = cond
      /\ lock' = [lock EXCEPT ![t] = l] /\ cwaiters' = cwaiters
  <2>1. CASE AcquirePass(t) /\ lock[t] = l
    <3>1. waitsFor[t] = l
      BY Zenon, <2>1 DEF AcquirePass, IInv, PcLock
    <3>2. lock' = lock /\ [lock EXCEPT ![t] = l] = lock
      BY Zenon, <2>1 DEF AcquirePass, IInv, TypeOK
    <3> QED BY Zenon, <2>1, <3>1, <3>2 DEF AcquirePass, down_pass, Goto
  <2>2. CASE lock_try_acquire(t, l)
    BY Zenon, <2>2 DEF lock_try_acquire, try_down, Goto
  <2> QED BY Zenon, <2>1, <2>2
<1>2. \A u \in Thread : ~Owns(u, l)
  BY Zenon, <1>1, FreeLock
<1>3. Owner(l) = NULL
  BY Zenon, <1>2, OwnerIs DEF IInv
<1>4. ~Abstract!Waiting(t)
  BY Zenon, <1>1, NotWaiting
<1>5. Signalled(t) => lock[t] = l
  <2>1. Signalled(t) => AcquirePass(t)
    BY Zenon DEF Signalled, lock_try_acquire
  <2> QED BY Zenon, <2>1 DEF lock_try_acquire, AcquirePass
<1>6. Owner(l)' = t
  <2>1. \A u \in Thread : Owns(u, l)' <=> u = t
    BY <1>1, <1>2 DEF Owns, IInv, TypeOK
  <2> QED BY Zenon, <2>1, OwnerAfter
<1>7. \A m \in Lock : m # l => Owner(m)' = Owner(m)
  <2>1. \A u \in Thread, m \in Lock : m # l => (Owns(u, m)' <=> Owns(u, m))
    BY <1>1 DEF Owns, IInv, TypeOK
  <2> QED BY Zenon, <2>1, OwnerAfter
<1>8. \A c \in Cond : Queue(c)' = Queue(c)
  <2>1. \A c \in Cond : \A u \in Range(cwaiters[c]) : u \in Thread /\ u # t
    BY <1>1 DEF IInv, TypeOK, WaiterAlive, InWait, Range
  <2> QED BY ZenonT(40), <1>1, <2>1, QueueSame DEF IInv, TypeOK
<1>9. ~Signalled(t)' /\ \A u \in Thread : u # t => (Signalled(u)' <=> Signalled(u)) /\ lock'[u] = lock[u]
  BY <1>1 DEF Signalled, IInv, TypeOK
<1> QED BY Zenon, <1>3, <1>4, <1>5, <1>6, <1>7, <1>8, <1>9 DEF Abstract!Acquire

\* sema_up() of lock_release() is the abstract release.
LEMMA ReleaseStep ==
  ASSUME IInv, IInv', NEW t \in Thread, ReleaseUp(t)
  PROVE  \E l \in Lock : Abstract!Release(t, l)
<1> USE SynchAssumption
<1>0. PICK l \in Lock : l = lock[t]
  BY DEF ReleaseUp, IInv, TypeOK, PcLock
<1>1. /\ pc[t] = "release" /\ holder' = holder /\ holder[l] = NULL
      /\ pc' = [pc EXCEPT ![t] = "run"] /\ cond' = cond
      /\ lock' = [lock EXCEPT ![t] = NULL] /\ cwaiters' = cwaiters
  BY ZenonT(40), <1>0 DEF ReleaseUp, Goto, IInv, TypeOK, PcLock
<1>2. \A u \in Thread : Owns(u, l) <=> u = t
  BY <1>0, <1>1 DEF Owns, IInv, LockOwned
<1>3. Owner(l) = t
  BY Zenon, <1>1, <1>2, OwnerIs DEF IInv
<1>4. ~Abstract!Waiting(t) /\ ~Signalled(t)
  BY Zenon, <1>1, NotWaiting DEF Signalled
<1>5. Owner(l)' = NULL
  <2>1. \A u \in Thread : u # t => ~Owns(u, l)'
    BY ZenonT(40), <1>1, <1>2 DEF Owns, IInv, TypeOK
  <2>2. ~Owns(t, l)'
    BY <1>1 DEF Owns, IInv, TypeOK
  <2> QED BY Zenon, <1>1, <2>1, <2>2, OwnerAfter
<1>6. \A m \in Lock : m # l => Owner(m)' = Owner(m)
  <2>1. \A u \in Thread, m \in Lock : m # l => (Owns(u, m)' <=> Owns(u, m))
    BY <1>0, <1>1 DEF Owns, IInv, TypeOK
  <2> QED BY Zenon, <2>1, OwnerAfter
<1>7. \A c \in Cond : Queue(c)' = Queue(c)
  <2>1. \A c \in Cond : \A u \in Range(cwaiters[c]) : u \in Thread /\ u # t
    BY <1>1 DEF IInv, TypeOK, WaiterAlive, InWait, Range
  <2> QED BY <1>1, <2>1, QueueSame DEF IInv, TypeOK
<1>8. ~Signalled(t)' /\ \A u \in Thread : u # t => (Signalled(u)' <=> Signalled(u)) /\ lock'[u] = lock[u]
  BY <1>1 DEF Signalled, IInv, TypeOK
<1>9. Abstract!Release(t, l)
  BY Zenon, <1>1, <1>3, <1>4, <1>5, <1>6, <1>7, <1>8 DEF Abstract!Release
<1> QED BY Zenon, <1>9

\* sema_up() of the lock in cond_wait() is the abstract wait: the thread is
\* already the last on the list.
LEMMA WaitStep ==
  ASSUME IInv, IInv', NEW t \in Thread, WaitUp(t)
  PROVE  \E c \in Cond : Abstract!Wait(t, c)
<1> USE SynchAssumption
<1>0a. cond[t] \in Cond /\ lock[t] \in Lock
  BY DEF WaitUp, IInv, TypeOK, PcLock, PcCond, InWait
<1>0b. PICK c \in Cond, l \in Lock : c = cond[t] /\ l = lock[t]
  BY Zenon, <1>0a
<1>0. PICK q, f : c = cond[t] /\ l = lock[t] /\ q = cwaiters[c] /\ f = SubSeq(q, 1, Len(q) - 1)
  BY Zenon, <1>0b
<1>1. /\ pc[t] = "wait_up" /\ l = lockOf[c]
      /\ holder' = holder /\ holder[l] = NULL
      /\ pc' = [pc EXCEPT ![t] = "wait"] /\ cond' = cond /\ lock' = lock /\ cwaiters' = cwaiters
  BY Zenon, <1>0 DEF WaitUp, Goto, IInv, TypeOK, PcLock, PcCond, InWait
<1>2. q \in Seq(Thread) /\ q # <<>> /\ q[Len(q)] = t /\ t \in Range(q)
  <2>1. q \in Seq(Thread) /\ q # <<>> /\ q[Len(q)] = t
    BY Zenon, <1>0, <1>1 DEF IInv, TypeOK, LastJoined
  <2> QED BY <2>1 DEF Range
<1>3. Append(f, t) = q
  BY Zenon, <1>0, <1>2, FrontSeq
<1>4. \A u \in Thread : Owns(u, l) <=> u = t
  <2>1. Owns(t, l)
    BY Zenon, <1>0, <1>1 DEF Owns
  <2> QED BY Zenon, <2>1 DEF IInv, LockOwned
<1>5. Owner(l) = t
  BY Zenon, <1>0, <1>1, <1>4, OwnerIs DEF IInv
<1>6. ~Abstract!Waiting(t) /\ ~Signalled(t)
  BY Zenon, <1>0, <1>1, NotWaiting DEF Signalled
<1>7. Owner(l)' = NULL
  <2>1. \A u \in Thread : u # t => ~Owns(u, l)'
    BY <1>0, <1>1, <1>4 DEF Owns, IInv, TypeOK
  <2>2. ~Owns(t, l)'
    BY Zenon, <1>0, <1>1 DEF Owns, IInv, TypeOK
  <2> QED BY <1>0, <1>1, <2>1, <2>2, OwnerAfter
<1>8. \A m \in Lock : m # l => Owner(m)' = Owner(m)
  <2>1. \A u \in Thread, m \in Lock : m # l => (Owns(u, m)' <=> Owns(u, m))
    BY ZenonT(40), <1>0, <1>1 DEF Owns, IInv, TypeOK
  <2> QED BY Zenon, <2>1, OwnerAfter
<1>9. Queue(c) = f
  <2>1. Len(q) > 0 /\ pc[q[Len(q)]] # "wait"
    BY <1>0, <1>1, <1>2
  <2> QED BY Zenon, <1>0, <2>1 DEF Queue
<1>10. Queue(c)' = q
  <2>1. cwaiters'[c] = q /\ pc'[q[Len(q)]] = "wait"
    BY <1>0, <1>1, <1>2 DEF IInv, TypeOK
  <2> QED BY Zenon, <1>0, <1>1, <2>1 DEF Queue
<1>11. \A d \in Cond : d # c => Queue(d)' = Queue(d)
  <2> SUFFICES ASSUME NEW d \in Cond, d # c PROVE Queue(d)' = Queue(d)
    BY Zenon
  <2>1. \A u \in Range(cwaiters[d]) : u \in Thread /\ u # t
    BY <1>0, <1>1 DEF IInv, TypeOK, WaiterAlive, Range
  <2> QED BY <1>0, <1>1, <2>1, QueueSame DEF IInv, TypeOK
<1>12. \A u \in Thread : Signalled(u)' <=> Signalled(u)
  <2>1. ~Signalled(t)'
    BY Zenon, <1>0, <1>1, <1>2 DEF Signalled
  <2> QED BY Zenon, <1>0, <1>1, <1>6, <2>1 DEF Signalled, IInv, TypeOK
<1>13. Abstract!Wait(t, c)
  BY ZenonT(40), <1>0, <1>1, <1>3, <1>5, <1>6, <1>7, <1>8, <1>9, <1>10, <1>11, <1>12 DEF Abstract!Wait
<1> QED BY <1>13

\* list_pop_front() of cond_signal() is the abstract signal: nobody is joining
\* while the signaller has the lock, so the abstract queue is the list.
LEMMA SignalStep ==
  ASSUME IInv, IInv', NEW t \in Thread, NEW c \in Cond,
         \/ cond_signal(t, c)
         \/ BroadcastOne(t) /\ cond[t] = c
  PROVE  Abstract!Signal(t, c)
<1> USE SynchAssumption
<1>0. PICK q, w : q = cwaiters[c] /\ w = Head(q)
  BY Zenon
<1>1. /\ pc[t] \in {"run", "broadcast"} /\ holder[lockOf[c]] = t /\ holder' = holder
      /\ pc'[t] \in {"signal", "bc_signal"} /\ \A u \in Thread : u # t => pc'[u] = pc[u]
      /\ cond' = cond /\ lock' = lock
      /\ q # <<>> /\ cwaiters' = [cwaiters EXCEPT ![c] = Tail(@)]
  <2>1. pc \in [Thread -> PC] /\ q = cwaiters[c]
    BY Zenon, <1>0 DEF IInv, TypeOK
  <2>2. CASE cond_signal(t, c)
    BY Zenon, <2>1, <2>2 DEF cond_signal, PopWaiter, lock_held_by, Goto
  <2>3. CASE BroadcastOne(t) /\ cond[t] = c
    <3>1. holder[lockOf[c]] = t
      BY Zenon, <2>3 DEF BroadcastOne, IInv, PcCond
    <3> QED BY Zenon, <2>1, <2>3, <3>1 DEF BroadcastOne, PopWaiter, Goto
  <2> QED BY Zenon, <2>2, <2>3
<1>2. q \in Seq(Thread) /\ IsInjective(q)
  BY ZenonT(40), <1>0 DEF IInv, TypeOK, WaiterAlive
<1>3. w \in Range(q) /\ w \in Thread
  BY <1>0, <1>1, <1>2 DEF Range
<1>4. Range(Tail(q)) = Range(q) \ {w}
  BY Zenon, <1>0, <1>1, <1>2, TailRange
<1>5. \A u, v \in Thread, l \in Lock : Owns(u, l)' <=> Owns(u, l)
  BY Zenon, <1>0, <1>1 DEF Owns, IInv, TypeOK
<1>6. Owns(t, lockOf[c]) /\ Owner(lockOf[c]) = t
  <2>1. Owns(t, lockOf[c])
    BY Zenon, <1>0, <1>1 DEF Owns
  <2> QED BY Zenon, <2>1, OwnerIs DEF IInv
<1>7. \A u \in Range(q) : pc[u] = "wait" /\ u \in Thread /\ u # t
  <2> SUFFICES ASSUME NEW u \in Range(q)
               PROVE  pc[u] = "wait" /\ u \in Thread /\ u # t
    BY Zenon
  <2>1. InWait(u) /\ u \in Thread
    BY <1>0, <1>2 DEF IInv, WaiterAlive, Range
  <2>2. u # t
    BY Zenon, <1>0, <1>1, <2>1 DEF InWait
  <2>3. pc[u] = "wait"
    BY ZenonT(40), <1>0, <1>6, <2>1, <2>2, JoinerOwns DEF IInv, LockOwned
  <2> QED BY Zenon, <2>1, <2>2, <2>3
<1>8. Queue(c) = q
  BY Zenon, <1>0, <1>7, QueueWhole
<1>9. ~Abstract!Waiting(t) /\ ~Signalled(t) /\ ~Signalled(t)'
  BY Zenon, <1>0, <1>1, NotWaiting DEF Signalled
<1>10. Queue(c)' = Tail(q)
  <2>1. cwaiters'[c] = Tail(q) /\ Tail(q) \in Seq(Thread)
    BY <1>0, <1>1, <1>2 DEF IInv, TypeOK
  <2>2. Len(Tail(q)) > 0 => Tail(q)[Len(Tail(q))] \in Range(Tail(q))
    <3> DEFINE r == Tail(q)
    <3>1. r \in Seq(Thread) => (Len(r) > 0 => r[Len(r)] \in Range(r))
      <4> HIDE DEF r
      <4> QED BY DEF Range
    <3> QED BY Zenon, <2>1, <3>1
  <2>3. Len(Tail(q)) > 0 => pc'[Tail(q)[Len(Tail(q))]] = "wait"
    BY <1>0, <1>1, <1>4, <1>7, <2>2
  <2> QED BY Zenon, <1>0, <2>1, <2>3 DEF Queue
<1>11. \A d \in Cond : d # c => Queue(d)' = Queue(d)
  <2> SUFFICES ASSUME NEW d \in Cond, d # c PROVE Queue(d)' = Queue(d)
    BY Zenon
  <2>1. \A u \in Range(cwaiters[d]) : u \in Thread /\ u # t
    <3>1. cwaiters[d] \in Seq(Thread) /\ \A u \in Range(cwaiters[d]) : InWait(u)
      BY Zenon DEF IInv, TypeOK, WaiterAlive
    <3>2. \A u \in Range(cwaiters[d]) : u \in Thread
      BY <3>1 DEF Range
    <3> QED BY Zenon, <1>1, <3>1, <3>2 DEF InWait
  <2>2. cwaiters'[d] = cwaiters[d]
    BY ZenonT(40), <1>0, <1>1 DEF IInv, TypeOK
  <2> QED BY Zenon, <1>0, <1>1, <2>1, <2>2, QueueSame
<1>12. /\ pc[w] = "wait" /\ cond[w] = c /\ w # t /\ c # NULL /\ lock[w] = lockOf[c]
  <2>1. pc[w] = "wait" /\ cond[w] = c /\ w # t /\ c # NULL
    BY <1>0, <1>3, <1>7 DEF IInv, WaiterAlive
  <2> QED BY <1>0, <1>3, <2>1 DEF IInv, PcCond
<1>13. Signalled(w)'
  BY <1>0, <1>1, <1>3, <1>4, <1>12 DEF Signalled, IInv, TypeOK
<1>14. \A u \in Thread : u # w => (Signalled(u)' <=> Signalled(u))
  <2> SUFFICES ASSUME NEW u \in Thread, u # w, u # t PROVE Signalled(u)' <=> Signalled(u)
    BY Zenon, <1>0, <1>9
  <2>1. \A d \in Cond : u \in Range(cwaiters'[d]) <=> u \in Range(cwaiters[d])
    BY <1>0, <1>1, <1>4 DEF IInv, TypeOK
  <2>2. cond[u] \in Cond \cup {NULL}
    BY Zenon DEF IInv, TypeOK
  <2> QED BY Zenon, <1>0, <1>1, <2>1, <2>2 DEF Signalled
<1>15. \A l \in Lock : Owner(l)' = Owner(l)
  BY Zenon, <1>0, <1>5, OwnerAfter
<1>16. lockOf[c] \in Lock
  BY Zenon
<1>17. /\ [d \in Cond |-> Queue(d)]' = [[d \in Cond |-> Queue(d)] EXCEPT ![c] = Tail(@)]
       /\ [d \in Cond |-> Queue(d)][c] = q /\ q # <<>>
  BY Zenon, <1>1, <1>8, <1>10, <1>11
<1>18. [u \in Thread |-> IF Signalled(u) THEN lock[u] ELSE NULL]'
         = [[u \in Thread |-> IF Signalled(u) THEN lock[u] ELSE NULL] EXCEPT ![w] = lockOf[c]]
  BY Zenon, <1>1, <1>3, <1>12, <1>13, <1>14
<1>19. [l \in Lock |-> Owner(l)]' = [l \in Lock |-> Owner(l)] /\ [l \in Lock |-> Owner(l)][lockOf[c]] = t
  BY Zenon, <1>6, <1>15, <1>16
<1>20. [u \in Thread |-> IF Signalled(u) THEN lock[u] ELSE NULL][t] = NULL
  BY Zenon, <1>9
<1> QED BY Zenon, <1>0, <1>9, <1>17, <1>18, <1>19, <1>20 DEF Abstract!Signal

\* Every step of Synch is a step of Monitor or changes nothing it sees.
LEMMA StepImplements ==
  ASSUME IInv, IInv', [Next]_vars
  PROVE  [Abstract!MonitorNext]_(Abstract!monitorVars)
<1>1. CASE UNCHANGED vars
  <2>1. /\ \A u \in Thread, l \in Lock : Owns(u, l)' <=> Owns(u, l)
        /\ \A c \in Cond : Queue(c)' = Queue(c)
        /\ \A u \in Thread : (Signalled(u)' <=> Signalled(u)) /\ lock'[u] = lock[u]
    BY Zenon, <1>1 DEF vars, Owns, Queue, Signalled
  <2> QED BY Zenon, <2>1, OwnerAfter, Unseen
<1>2. ASSUME NEW t \in Thread, Continue(t)
      PROVE  Abstract!MonitorNext \/ UNCHANGED Abstract!monitorVars
  <2>1. CASE Sleep(t) \/ SetHolder(t) \/ WaitRelease(t) \/ WaitPass(t) \/ SignalUp(t) \/ BroadcastDone(t)
    BY Zenon, <2>1, SilentSteps
  <2>2. CASE AcquirePass(t)
    <3>1. lock[t] \in Lock
      BY <2>2 DEF AcquirePass, IInv, TypeOK, PcLock
    <3> QED BY ZenonT(40), <2>2, <3>1, AcquireStep DEF Abstract!MonitorNext
  <2>3. CASE ReleaseUp(t)
    BY Zenon, <2>3, ReleaseStep DEF Abstract!MonitorNext
  <2>4. CASE WaitUp(t)
    BY Zenon, <2>4, WaitStep DEF Abstract!MonitorNext
  <2>5. CASE BroadcastOne(t)
    <3>1. cond[t] \in Cond
      BY <2>5 DEF BroadcastOne, IInv, TypeOK, PcCond
    <3> QED BY ZenonT(40), <2>5, <3>1, SignalStep DEF Abstract!MonitorNext
  <2> QED BY Zenon, <1>2, <2>1, <2>2, <2>3, <2>4, <2>5 DEF Continue
<1>3. ASSUME NEW t \in Thread, Call(t)
      PROVE  Abstract!MonitorNext \/ UNCHANGED Abstract!monitorVars
  <2>1. ASSUME NEW l \in Lock, lock_acquire(t, l) \/ lock_release(t, l)
        PROVE  UNCHANGED Abstract!monitorVars
    BY Zenon, <2>1, SilentSteps
  <2>2. ASSUME NEW l \in Lock, lock_try_acquire(t, l)
        PROVE  Abstract!MonitorNext
    BY Zenon, <2>2, AcquireStep DEF Abstract!MonitorNext
  <2>3. ASSUME NEW c \in Cond, cond_wait(t, c)
        PROVE  UNCHANGED Abstract!monitorVars
    BY Zenon, <2>3, JoinStep
  <2>4. ASSUME NEW c \in Cond, cond_signal(t, c)
        PROVE  Abstract!MonitorNext
    BY Zenon, <2>4, SignalStep DEF Abstract!MonitorNext
  <2>5. ASSUME NEW c \in Cond, cond_broadcast(t, c)
        PROVE  UNCHANGED Abstract!monitorVars
    BY Zenon, <2>5, SilentSteps
  <2> QED BY Zenon, <1>3, <2>1, <2>2, <2>3, <2>4, <2>5 DEF Call
<1> QED BY Zenon, <1>1, <1>2, <1>3 DEF Next

\* Synch implements Monitor: cond_wait() releases the lock and waits as if in
\* one step, and signals reach the waiters in order.
THEOREM MonitorRefinement == Spec => ImplementsMonitor
<1>1. Init => Abstract!MonitorInit
  <2> SUFFICES ASSUME Init PROVE Abstract!MonitorInit
    BY Zenon
  <2>1. \A l \in Lock : Owners(l) = {}
    BY Zenon, SynchAssumption DEF Init, Owners, Owns
  <2>2. \A c \in Cond : Queue(c) = <<>>
    BY DEF Init, Queue
  <2>3. \A u \in Thread : ~Signalled(u)
    BY Zenon DEF Init, Signalled
  <2> QED BY Zenon, <2>1, <2>2, <2>3 DEF Abstract!MonitorInit, Owner
<1>2. IInv /\ IInv' /\ [Next]_vars => [Abstract!MonitorNext]_(Abstract!monitorVars)
  BY Zenon, StepImplements
<1>3. Spec => []IInv
  BY Zenon, Invariance
<1> QED BY <1>1, <1>2, <1>3, PTL DEF Spec, ImplementsMonitor, Abstract!MonitorSpec
=============================================================================
