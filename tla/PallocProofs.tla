---------------------------- MODULE PallocProofs ----------------------------
(***************************************************************************)
(* Proofs about Palloc: no page is handed out twice or lost, for any       *)
(* number of threads, any size of memory and any requests, although        *)
(* palloc_free_multiple() clears bits without the lock; and the allocator  *)
(* implements the atomic one.                                              *)
(***************************************************************************)
EXTENDS Palloc, TLAPS

\* Time limits of the provers.
USE SMTT(10), ZenonT(20)

\* The pools lie in memory and have no page in common.
LEMMA PoolFacts ==
  /\ \A pool \in Pool : /\ base(pool) \in Nat /\ bit_cnt(pool) \in Int
                        /\ base(pool) + bit_cnt(pool) <= free_pages
  /\ \A p \in Int : ~(page_from_pool("kernel", p) /\ page_from_pool("user", p))
<1>1. user_pages \in Nat /\ user_pages <= free_pages
  BY PallocAssumption DEF user_pages
<1>2. ASSUME NEW n \in Nat
      PROVE  DIV_ROUND_UP(bitmap_buf_size(n), PGSIZE) \in Nat
  <2>1. DIV_ROUND_UP(n, 32) \in Nat
    BY DEF DIV_ROUND_UP
  <2>2. bitmap_buf_size(n) \in Nat
    BY <2>1 DEF bitmap_buf_size
  <2> QED BY <2>2 DEF DIV_ROUND_UP, PGSIZE
<1>3. \A pool \in Pool : page_cnt(pool) \in Nat
  BY <1>1, PallocAssumption DEF Pool, page_cnt
<1>4. \A pool \in Pool : bm_pages(pool) \in Nat
  BY <1>2, <1>3 DEF bm_pages
<1>5. bm_pages("kernel") \in Nat /\ bm_pages("user") \in Nat
  BY <1>4 DEF Pool
<1>6. /\ base("kernel") = bm_pages("kernel") /\ base("user") = bm_pages("user") + (free_pages - user_pages)
      /\ bit_cnt("kernel") = free_pages - user_pages - bm_pages("kernel")
      /\ bit_cnt("user") = user_pages - bm_pages("user")
  BY <1>1, <1>5, PallocAssumption DEF base, bit_cnt, page_cnt
<1>7. \A pool \in Pool : /\ base(pool) \in Nat /\ bit_cnt(pool) \in Int
                         /\ base(pool) + bit_cnt(pool) <= free_pages
  BY <1>1, <1>5, <1>6, PallocAssumption DEF Pool
<1>8. \A p \in Int : ~(page_from_pool("kernel", p) /\ page_from_pool("user", p))
  BY <1>1, <1>5, <1>6, PallocAssumption DEF page_from_pool
<1> QED BY <1>7, <1>8

\* What is known of a thread that scans or marks: its group is in its pool.
LEMMA GroupInPool ==
  ASSUME TypeOK, NEW t \in Thread, Found(t), req[t].cnt >= 1,
         NEW p \in Group(pg[t], req[t].cnt)
  PROVE  p \in Page /\ page_from_pool(req[t].pool, p) /\ pg[t] # free_pages
<1>1. /\ req[t].pool \in Pool /\ req[t].cnt \in Nat /\ pg[t] \in Nat /\ p \in Int
      /\ pg[t] <= p /\ p <= pg[t] + req[t].cnt - 1
  BY PallocAssumption DEF TypeOK, Request, Group
<1>2. /\ base(req[t].pool) \in Nat /\ bit_cnt(req[t].pool) \in Int
      /\ base(req[t].pool) + bit_cnt(req[t].pool) <= free_pages
  BY <1>1, PoolFacts
<1> QED BY <1>1, <1>2, PallocAssumption DEF Found, last, page_from_pool, Page

\* A loop over a group goes to its next page.
LEMMA GroupShrinks ==
  ASSUME NEW p \in Int, NEW n \in Nat, NEW m \in Nat, n < m, NEW q \in Int
  PROVE  q \in Group(p + n, m - n) <=> q \in Group(p + (n + 1), m - (n + 1)) \/ q = p + n
BY DEF Group

\* What a loop over a group has done is a part of it.
LEMMA GroupEnd ==
  ASSUME NEW p \in Int, NEW n \in Nat, NEW m \in Nat, n < m
  PROVE  /\ p + n \in Group(p, m) /\ Group(p, n) \subseteq Group(p, m)
BY DEF Group

\* Two threads in one pool do not both scan or mark.
LEMMA OneInPool ==
  ASSUME LockHeld, NEW t \in Thread, NEW u \in Thread,
         pc[t] \in {"scan", "flip", "release"}, pc[u] \in {"scan", "flip", "release"},
         req[t].pool = req[u].pool
  PROVE  t = u
BY DEF LockHeld

----------------------------------------------------------------------------

\* Initially every page is free.
LEMMA InitIInv == Init => IInv
<1> SUFFICES ASSUME Init PROVE IInv
  OBVIOUS
<1>1. TypeOK
  BY PallocAssumption DEF Init, TypeOK, Request, Idle, Pool, Page
<1>2. Owned = {} /\ \A t \in Thread, p \in Page : ~Claims(t, p)
  BY DEF Init, Owned, Claims
<1>3. Exclusive /\ Marked
  BY <1>2 DEF Exclusive, Marked, Marks, Init
<1>4. Intact /\ FreeSucceeds /\ OwnedInPools
  BY <1>2 DEF Intact, FreeSucceeds, OwnedInPools, Init
<1>5. LockHeld /\ Progress /\ Scanned
  BY DEF Init, LockHeld, Progress, Reached, Scanned
<1> QED BY <1>1, <1>3, <1>4, <1>5 DEF IInv, PagesSound

\* Thread t changes its own place only.
Others(t) ==
  \A u \in Thread : u # t => pc'[u] = pc[u] /\ req'[u] = req[u] /\ pg'[u] = pg[u] /\ k'[u] = k[u]

\* Steps that neither touch a bit nor a claim nor an owner.
LEMMA BitsKept ==
  ASSUME IInv, NEW t \in Thread, Others(t), UNCHANGED <<used, owned, content, expect>>,
         \A p \in Page : (Claims(t, p)' <=> Claims(t, p)) /\ (Marks(t, p)' <=> Marks(t, p))
  PROVE  Exclusive' /\ Marked' /\ Intact' /\ OwnedInPools'
<1>1. \A u \in Thread, p \in Page : (Claims(u, p)' <=> Claims(u, p)) /\ (Marks(u, p)' <=> Marks(u, p))
  BY DEF Others, Claims, Marks
<1>2. Owned' = Owned
  BY DEF Owned
<1> QED BY <1>1, <1>2 DEF IInv, PagesSound, Exclusive, Marked, Intact, OwnedInPools

\* What the step of t does not disturb of the other threads.
LEMMA OthersKept ==
  ASSUME IInv, NEW t \in Thread, Others(t),
         \/ used' \subseteq used
         \/ \A u \in Thread : u # t /\ pc[u] = "scan" => Group(pg[u], k[u]) \cap used' = {},
         \A pool \in Pool : lock[pool] \in Thread \ {t} => lock'[pool] = lock[pool],
         pc'[t] \in {"scan", "flip", "release"} => lock'[req'[t].pool] = t,
         Reached(t)',
         pc'[t] = "scan" => Group(pg'[t], k'[t]) \cap used' = {},
         pc'[t] # "failed"
  PROVE  LockHeld' /\ Progress' /\ Scanned' /\ FreeSucceeds'
<1>0. TypeOK /\ LockHeld /\ Progress /\ Scanned /\ FreeSucceeds
  BY DEF IInv, PagesSound
<1>1. LockHeld'
  <2> SUFFICES ASSUME NEW u \in Thread, u # t, pc[u] \in {"scan", "flip", "release"}
               PROVE  lock'[req[u].pool] = u
    BY DEF LockHeld, Others
  <2>1. req[u].pool \in Pool /\ lock[req[u].pool] = u
    BY <1>0 DEF LockHeld, TypeOK, Request
  <2> QED BY <2>1
<1>2. Progress'
  <2> SUFFICES ASSUME NEW u \in Thread, u # t
               PROVE  Reached(u)'
    BY DEF Progress
  <2> QED BY <1>0 DEF Progress, Reached, Found, Others
<1>3. Scanned'
  BY <1>0 DEF Scanned, Others
<1>4. FreeSucceeds'
  BY <1>0 DEF FreeSucceeds, Others
<1> QED BY <1>1, <1>2, <1>3, <1>4

----------------------------------------------------------------------------
(* The steps of palloc_get_multiple(). *)

\* A request.
LEMMA GetStep ==
  ASSUME IInv, NEW t \in Thread, NEW pool \in Pool, NEW cnt \in 1 .. MaxCnt,
         NEW zero \in BOOLEAN, palloc_get_multiple(t, pool, cnt, zero)
  PROVE  IInv' /\ UNCHANGED owned
<1>0. TypeOK /\ Progress
  BY DEF IInv, PagesSound
<1> DEFINE r == [pool |-> pool, cnt |-> cnt, zero |-> zero]
<1>1. r \in Request /\ r.cnt >= 1
  BY PallocAssumption DEF Request
<1>2. /\ pc[t] = "idle" /\ pc'[t] = "acquire" /\ req'[t] = r /\ pg'[t] = pg[t] /\ k'[t] = k[t]
      /\ Others(t) /\ UNCHANGED <<used, lock, owned, content, expect>>
  BY <1>0 DEF palloc_get_multiple, Goto, Others, TypeOK
<1>3. TypeOK'
  <2>1. req' \in [Thread -> Request]
    BY <1>0, <1>1 DEF palloc_get_multiple, TypeOK
  <2> QED BY <1>0, <2>1 DEF palloc_get_multiple, Goto, TypeOK
<1> HIDE DEF r
<1>4. Exclusive' /\ Marked' /\ Intact' /\ OwnedInPools'
  <2>1. \A p \in Page : (Claims(t, p)' <=> Claims(t, p)) /\ (Marks(t, p)' <=> Marks(t, p))
    BY <1>2 DEF Claims, Marks
  <2> QED BY <1>2, <2>1, BitsKept
<1>5. Reached(t)'
  BY <1>0, <1>1, <1>2 DEF Reached, Progress
<1>6. LockHeld' /\ Progress' /\ Scanned' /\ FreeSucceeds'
  BY <1>2, <1>5, OthersKept
<1> QED BY <1>2, <1>3, <1>4, <1>6 DEF IInv, PagesSound

\* The lock is taken and the scan begins.
LEMMA AcquireStep ==
  ASSUME IInv, NEW t \in Thread, Acquire(t)
  PROVE  IInv' /\ UNCHANGED owned
<1>0. TypeOK /\ Progress
  BY DEF IInv, PagesSound
<1>1. /\ req[t].pool \in Pool /\ req[t].cnt \in Nat /\ req[t].cnt <= MaxCnt /\ req[t].cnt >= 1
      /\ pc[t] = "acquire" /\ lock[req[t].pool] = NULL
  BY <1>0, PallocAssumption DEF TypeOK, Request, Acquire, Progress, Reached
<1>2. /\ base(req[t].pool) \in Nat /\ bit_cnt(req[t].pool) \in Int
      /\ base(req[t].pool) + bit_cnt(req[t].pool) <= free_pages
  BY <1>1, PoolFacts
<1>3. /\ req' = req /\ k'[t] = 0 /\ Others(t) /\ UNCHANGED <<used, owned, content, expect>>
      /\ lock'[req[t].pool] = t /\ \A pool \in Pool : pool # req[t].pool => lock'[pool] = lock[pool]
      /\ \/ pc'[t] = "scan" /\ pg'[t] = base(req[t].pool) /\ req[t].cnt <= bit_cnt(req[t].pool)
         \/ pc'[t] = "release" /\ pg'[t] = free_pages
  <2>1. req' = req /\ UNCHANGED <<used, owned, content, expect>>
    BY DEF Acquire
  <2>2. lock'[req[t].pool] = t /\ \A pool \in Pool : pool # req[t].pool => lock'[pool] = lock[pool]
    BY Zenon, <1>0, <1>1 DEF Acquire, TypeOK
  <2>3. k'[t] = 0 /\ \A u \in Thread : u # t => k'[u] = k[u]
    BY Zenon, <1>0 DEF Acquire, TypeOK
  <2>4. /\ \/ pc'[t] = "scan" /\ pg'[t] = base(req[t].pool) /\ req[t].cnt <= bit_cnt(req[t].pool)
           \/ pc'[t] = "release" /\ pg'[t] = free_pages
        /\ \A u \in Thread : u # t => pc'[u] = pc[u] /\ pg'[u] = pg[u]
    BY Zenon, <1>0 DEF Acquire, Goto, TypeOK
  <2> QED BY <2>1, <2>2, <2>3, <2>4 DEF Others
<1>4. TypeOK'
  <2>1. k' \in [Thread -> 0 .. MaxCnt] /\ lock' \in [Pool -> Thread \cup {NULL}]
    <3>1. 0 \in 0 .. MaxCnt
      BY PallocAssumption
    <3> QED BY Zenon, <1>0, <3>1 DEF Acquire, TypeOK
  <2>2. pg' \in [Thread -> 0 .. free_pages]
    <3>1. base(req[t].pool) \in 0 .. free_pages \/ pg' = [pg EXCEPT ![t] = free_pages]
      BY <1>1, <1>2, PallocAssumption DEF Acquire
    <3>2. free_pages \in 0 .. free_pages
      BY PallocAssumption
    <3> QED BY <1>0, <3>1, <3>2 DEF Acquire, TypeOK
  <2> QED BY <1>0, <2>1, <2>2 DEF Acquire, Goto, TypeOK
<1>5. Exclusive' /\ Marked' /\ Intact' /\ OwnedInPools'
  <2>1. \A p \in Page : (Claims(t, p)' <=> Claims(t, p)) /\ (Marks(t, p)' <=> Marks(t, p))
    BY <1>1, <1>3 DEF Claims, Marks
  <2> QED BY <1>3, <2>1, BitsKept
<1>6. Reached(t)'
  BY <1>1, <1>2, <1>3 DEF Reached, Found, last
<1>7. Group(pg'[t], k'[t]) = {}
  BY <1>2, <1>3, PallocAssumption DEF Group
<1>8. \A pool \in Pool : lock[pool] \in Thread \ {t} => lock'[pool] = lock[pool]
  BY <1>1, <1>3, PallocAssumption
<1>9. LockHeld' /\ Progress' /\ Scanned' /\ FreeSucceeds'
  BY <1>3, <1>6, <1>7, <1>8, OthersKept
<1> QED BY <1>3, <1>4, <1>5, <1>9 DEF IInv, PagesSound

\* lock_release()
LEMMA ReleaseStep ==
  ASSUME IInv, NEW t \in Thread, Release(t)
  PROVE  IInv' /\ UNCHANGED owned
<1>0. TypeOK /\ Progress /\ LockHeld
  BY DEF IInv, PagesSound
<1>1. /\ pc[t] = "release" /\ pc'[t] = "return" /\ Others(t)
      /\ UNCHANGED <<used, req, pg, k, owned, content, expect>>
      /\ \A pool \in Pool : pool # req[t].pool => lock'[pool] = lock[pool]
      /\ req[t].pool \in Pool
  BY <1>0 DEF Release, Goto, Others, TypeOK, Request
<1>2. TypeOK'
  BY <1>0 DEF Release, Goto, TypeOK
<1>3. Exclusive' /\ Marked' /\ Intact' /\ OwnedInPools'
  <2>1. \A p \in Page : (Claims(t, p)' <=> Claims(t, p)) /\ (Marks(t, p)' <=> Marks(t, p))
    BY <1>1 DEF Claims, Marks
  <2> QED BY <1>1, <2>1, BitsKept
<1>4. Reached(t)'
  BY <1>0, <1>1 DEF Reached, Progress, Found
<1>5. \A pool \in Pool : lock[pool] \in Thread \ {t} => lock'[pool] = lock[pool]
  BY <1>0, <1>1 DEF LockHeld
<1>6. LockHeld' /\ Progress' /\ Scanned' /\ FreeSucceeds'
  BY <1>1, <1>4, <1>5, OthersKept
<1> QED BY <1>1, <1>2, <1>3, <1>6 DEF IInv, PagesSound

\* A bit is tested.
LEMMA ScanStep ==
  ASSUME IInv, NEW t \in Thread, bitmap_scan(t)
  PROVE  IInv' /\ UNCHANGED owned
<1>0. TypeOK /\ Progress /\ LockHeld /\ Exclusive /\ Marked /\ Scanned
  BY DEF IInv, PagesSound
<1>1. /\ req[t].pool \in Pool /\ req[t].cnt \in Nat /\ req[t].cnt <= MaxCnt /\ req[t].cnt >= 1
      /\ pc[t] = "scan" /\ k[t] \in Nat /\ pg[t] \in Nat /\ k[t] < req[t].cnt /\ Found(t)
      /\ lock[req[t].pool] = t
  BY <1>0, PallocAssumption DEF TypeOK, Request, bitmap_scan, Progress, Reached, LockHeld
<1>2. /\ base(req[t].pool) \in Nat /\ bit_cnt(req[t].pool) \in Int
      /\ base(req[t].pool) + bit_cnt(req[t].pool) <= free_pages
  BY <1>1, PoolFacts
<1>3. UNCHANGED <<used, lock, req, owned, content, expect>>
  BY DEF bitmap_scan
<1>4. pg[t] \in 0 .. free_pages - 1
  BY <1>1, <1>2, PallocAssumption DEF Found, last
\* The scan goes on, or gives up.
<1>5. ASSUME /\ pc'[t] \in {"scan", "release"}
             /\ Others(t) /\ pc' \in [Thread -> {"scan", "release"} \cup {pc[u] : u \in Thread}]
             /\ pg' \in [Thread -> 0 .. free_pages] /\ k' \in [Thread -> 0 .. MaxCnt],
             pc'[t] = "release" => pg'[t] = free_pages /\ k'[t] = 0,
             pc'[t] = "scan" => /\ base(req[t].pool) <= pg'[t] /\ pg'[t] <= last(req[t])
                                /\ k'[t] < req[t].cnt /\ Group(pg'[t], k'[t]) \cap used = {}
      PROVE  IInv'
  <2>1. TypeOK'
    <3>1. pc' \in [Thread -> {"idle", "acquire", "scan", "flip", "release", "return",
                              "assert", "clear", "failed", "panic"}]
      BY <1>0, <1>5 DEF TypeOK
    <3> QED BY Zenon, <1>0, <1>3, <1>5, <3>1 DEF TypeOK
  <2>2. Exclusive' /\ Marked' /\ Intact' /\ OwnedInPools'
    <3>1. \A p \in Page : (Claims(t, p)' <=> Claims(t, p)) /\ (Marks(t, p)' <=> Marks(t, p))
      BY <1>1, <1>5 DEF Claims, Marks
    <3> QED BY <1>3, <1>5, <3>1, BitsKept
  <2>3. Reached(t)'
    BY <1>1, <1>3, <1>5 DEF Reached, Found
  <2>4. LockHeld' /\ Progress' /\ Scanned' /\ FreeSucceeds'
    BY <1>1, <1>3, <1>5, <2>3, OthersKept
  <2> QED BY <2>1, <2>2, <2>4 DEF IInv, PagesSound
<1>6. CASE pg[t] + k[t] \in used
  <2>1. k' = [k EXCEPT ![t] = 0]
    BY <1>6 DEF bitmap_scan
  <2>2. k' \in [Thread -> 0 .. MaxCnt] /\ k'[t] = 0 /\ \A u \in Thread : u # t => k'[u] = k[u]
    BY <1>0, <2>1, PallocAssumption DEF TypeOK
  <2>3. CASE pg[t] < last(req[t])
    <3>1. pg' = [pg EXCEPT ![t] = pg[t] + 1] /\ pc' = pc
      BY <1>6, <2>3 DEF bitmap_scan
    <3>2. pg[t] + 1 \in 0 .. free_pages
      BY <1>4, PallocAssumption
    <3>3. /\ pg' \in [Thread -> 0 .. free_pages] /\ pg'[t] = pg[t] + 1
          /\ \A u \in Thread : u # t => pg'[u] = pg[u]
      BY Zenon, <1>0, <3>1, <3>2 DEF TypeOK
    <3>4. pg[t] + 1 <= last(req[t]) /\ base(req[t].pool) <= pg[t] + 1
      BY <1>1, <1>2, <2>3 DEF Found, last
    <3>5. Group(pg'[t], k'[t]) = {}
      BY <1>1, <2>2, <3>3 DEF Group
    <3>6. pc' \in [Thread -> {"scan", "release"} \cup {pc[u] : u \in Thread}]
      BY <1>0, <3>1 DEF TypeOK
    <3> QED BY <1>1, <1>3, <1>5, <2>2, <3>1, <3>3, <3>4, <3>5, <3>6 DEF Others
  <2>4. CASE ~(pg[t] < last(req[t]))
    <3>1. pg' = [pg EXCEPT ![t] = free_pages] /\ pc' = [pc EXCEPT ![t] = "release"]
      BY <1>6, <2>4 DEF bitmap_scan, Goto
    <3>2. free_pages \in 0 .. free_pages
      BY PallocAssumption
    <3>3. /\ pg' \in [Thread -> 0 .. free_pages] /\ pg'[t] = free_pages
          /\ \A u \in Thread : u # t => pg'[u] = pg[u]
      BY Zenon, <1>0, <3>1, <3>2 DEF TypeOK
    <3>4. /\ pc' \in [Thread -> {"scan", "release"} \cup {pc[u] : u \in Thread}]
          /\ pc'[t] = "release" /\ \A u \in Thread : u # t => pc'[u] = pc[u]
      BY <1>0, <3>1 DEF TypeOK
    <3> QED BY <1>3, <1>5, <2>2, <3>3, <3>4 DEF Others
  <2> QED BY <1>3, <2>3, <2>4
<1>7. CASE pg[t] + k[t] \notin used /\ k[t] + 1 < req[t].cnt
  <2>1. k' = [k EXCEPT ![t] = k[t] + 1] /\ pc' = pc /\ pg' = pg
    BY <1>7 DEF bitmap_scan
  <2>2. k[t] + 1 \in 0 .. MaxCnt
    BY <1>1, <1>7, PallocAssumption
  <2>3. /\ k' \in [Thread -> 0 .. MaxCnt] /\ k'[t] = k[t] + 1
        /\ \A u \in Thread : u # t => k'[u] = k[u]
    BY Zenon, <1>0, <2>1, <2>2 DEF TypeOK
  <2>4. Group(pg'[t], k'[t]) \cap used = {}
    <3>1. Group(pg[t], k[t]) \cap used = {}
      BY <1>0, <1>1 DEF Scanned
    <3> QED BY <1>1, <1>7, <2>1, <2>3, <3>1 DEF Group
  <2>5. pc' \in [Thread -> {"scan", "release"} \cup {pc[u] : u \in Thread}]
    BY <1>0, <2>1 DEF TypeOK
  <2> QED BY <1>0, <1>1, <1>3, <1>5, <1>7, <2>1, <2>3, <2>4, <2>5 DEF Others, Found, TypeOK
\* The group is found: nobody owns or claims a page of it.
<1>8. CASE pg[t] + k[t] \notin used /\ ~(k[t] + 1 < req[t].cnt)
  <2>1. k' = [k EXCEPT ![t] = 0] /\ pc' = [pc EXCEPT ![t] = "flip"] /\ pg' = pg
    BY <1>8 DEF bitmap_scan, Goto
  <2>2. /\ k' \in [Thread -> 0 .. MaxCnt] /\ k'[t] = 0
        /\ \A u \in Thread : u # t => k'[u] = k[u]
    BY <1>0, <2>1, PallocAssumption DEF TypeOK
  <2>3. /\ pc' \in [Thread -> {"idle", "acquire", "scan", "flip", "release", "return",
                              "assert", "clear", "failed", "panic"}]
        /\ pc'[t] = "flip" /\ \A u \in Thread : u # t => pc'[u] = pc[u]
    BY <1>0, <2>1 DEF TypeOK
  <2>4. Others(t)
    BY <1>3, <2>1, <2>2, <2>3 DEF Others
  <2>5. TypeOK'
    BY Zenon, <1>0, <1>3, <2>1, <2>2, <2>3 DEF TypeOK
  <2>6. Group(pg[t], req[t].cnt) \cap used = {}
    <3>1. Group(pg[t], k[t]) \cap used = {}
      BY <1>0, <1>1 DEF Scanned
    <3>2. \A p \in Group(pg[t], req[t].cnt) : p \in Group(pg[t], k[t]) \/ p = pg[t] + k[t]
      BY <1>1, <1>8 DEF Group
    <3> QED BY <1>8, <3>1, <3>2
  <2>7. ASSUME NEW p \in Page, p \in Group(pg[t], req[t].cnt)
        PROVE  p \notin Owned /\ \A u \in Thread \ {t} : ~Claims(u, p)
    <3>1. p \notin Owned /\ \A u \in Thread : ~Marks(u, p)
      BY <1>0, <2>6, <2>7 DEF Marked
    <3>2. ASSUME NEW u \in Thread \ {t}, Claims(u, p)
          PROVE  FALSE
      <4>1. pc[u] = "flip" /\ p \in Group(pg[u], req[u].cnt)
        BY <3>1, <3>2 DEF Marks, Claims
      <4>2. Found(u) /\ req[u].cnt >= 1
        BY <1>0, <4>1 DEF Progress, Reached
      <4>3. page_from_pool(req[u].pool, p) /\ page_from_pool(req[t].pool, p)
        BY <1>0, <1>1, <2>7, <4>1, <4>2, GroupInPool
      <4>4. req[u].pool = req[t].pool
        <5>1. req[u].pool \in {"kernel", "user"} /\ req[t].pool \in {"kernel", "user"} /\ p \in Int
          BY <1>0, PallocAssumption DEF TypeOK, Request, Pool, Page
        <5> QED BY <4>3, <5>1, PoolFacts
      <4> QED BY <1>0, <1>1, <4>1, <4>4, OneInPool
    <3> QED BY <3>1, <3>2
  <2>8. \A u \in Thread, p \in Page : u # t => (Claims(u, p)' <=> Claims(u, p)) /\ (Marks(u, p)' <=> Marks(u, p))
    BY <2>4 DEF Others, Claims, Marks
  <2>9. \A p \in Page : /\ Claims(t, p)' <=> p \in Group(pg[t], req[t].cnt)
                        /\ ~Claims(t, p) /\ ~Marks(t, p)' /\ ~Marks(t, p)
    <3>1. pg[t] # free_pages
      BY <1>4, PallocAssumption
    <3>2. \A p \in Page : Claims(t, p)' <=> p \in Group(pg[t], req[t].cnt)
      BY <1>3, <2>1, <2>3, <3>1 DEF Claims
    <3>3. \A p \in Page : ~Claims(t, p)
      BY <1>1 DEF Claims
    <3>4. \A p \in Page : p \in Group(pg[t], req[t].cnt) => ~(p < pg[t] + 0)
      BY <1>1, PallocAssumption DEF Group, Page
    <3> QED BY <2>1, <2>2, <2>3, <3>2, <3>3, <3>4 DEF Marks
  <2>10. Owned' = Owned
    BY <1>3 DEF Owned
  <2>11. Exclusive'
    BY <1>0, <1>3, <2>7, <2>8, <2>9, <2>10 DEF Exclusive
  <2>12. Marked'
    BY <1>0, <1>3, <2>8, <2>9, <2>10 DEF Marked
  <2>13. Intact' /\ OwnedInPools'
    BY <1>3, <2>10 DEF IInv, PagesSound, Intact, OwnedInPools
  <2>14. Reached(t)'
    BY <1>1, <1>3, <2>1, <2>2, <2>3 DEF Reached, Found
  <2>15. LockHeld' /\ Progress' /\ Scanned' /\ FreeSucceeds'
    BY <1>1, <1>3, <2>3, <2>4, <2>14, OthersKept
  <2> QED BY <1>3, <2>5, <2>11, <2>12, <2>13, <2>15 DEF IInv, PagesSound
<1> QED BY <1>3, <1>6, <1>7, <1>8

\* A bit is set.
LEMMA MarkStep ==
  ASSUME IInv, NEW t \in Thread, bitmap_mark(t)
  PROVE  IInv' /\ UNCHANGED owned
<1>0. TypeOK /\ Progress /\ LockHeld /\ Exclusive /\ Marked /\ Scanned
  BY DEF IInv, PagesSound
<1>1. /\ req[t].pool \in Pool /\ req[t].cnt \in Nat /\ req[t].cnt <= MaxCnt /\ req[t].cnt >= 1
      /\ pc[t] = "flip" /\ k[t] \in Nat /\ pg[t] \in Nat /\ k[t] < req[t].cnt /\ Found(t)
      /\ lock[req[t].pool] = t
  BY <1>0, PallocAssumption DEF TypeOK, Request, bitmap_mark, Progress, Reached, LockHeld
<1> DEFINE p0 == pg[t] + k[t]
<1>2. p0 \in Group(pg[t], req[t].cnt)
  <2>1. pg[t] \in Int
    BY <1>1
  <2> QED BY Zenon, <1>1, <2>1, GroupEnd
<1>3. p0 \in Page /\ page_from_pool(req[t].pool, p0) /\ pg[t] # free_pages
  BY <1>0, <1>1, <1>2, GroupInPool
<1>4. used' = used \cup {p0} /\ UNCHANGED <<lock, req, pg, owned, content, expect>>
  BY DEF bitmap_mark
<1>5. /\ pc'[t] \in {"flip", "release"}
      /\ pc'[t] = "flip" => k'[t] = k[t] + 1 /\ k[t] + 1 < req[t].cnt
      /\ pc'[t] = "release" => k'[t] = 0 /\ ~(k[t] + 1 < req[t].cnt)
  BY <1>0, <1>1 DEF bitmap_mark, Goto, TypeOK
<1>6. Others(t)
  BY <1>0, <1>4 DEF bitmap_mark, Goto, TypeOK, Others
<1>7. TypeOK'
  <2>1. k' \in [Thread -> 0 .. MaxCnt]
    <3>1. 0 \in 0 .. MaxCnt /\ (k[t] + 1 < req[t].cnt => k[t] + 1 \in 0 .. MaxCnt)
      BY <1>1, PallocAssumption
    <3> QED BY Zenon, <1>0, <3>1 DEF bitmap_mark, TypeOK
  <2>2. pc' \in [Thread -> {"idle", "acquire", "scan", "flip", "release", "return",
                            "assert", "clear", "failed", "panic"}]
    BY <1>0 DEF bitmap_mark, Goto, TypeOK
  <2> QED BY <1>0, <1>3, <1>4, <2>1, <2>2 DEF TypeOK
<1> HIDE DEF p0
<1>8. \A u \in Thread, p \in Page : Claims(u, p)' <=> Claims(u, p)
  <2>1. \A p \in Page : Claims(t, p)' <=> Claims(t, p)
    BY <1>1, <1>4, <1>5 DEF Claims
  <2> QED BY <1>6, <2>1 DEF Others, Claims
<1>9. \A u \in Thread, p \in Page : u # t => (Marks(u, p)' <=> Marks(u, p))
  BY <1>6, <1>8 DEF Others, Marks
<1>10. \A p \in Page : Marks(t, p)' <=> Marks(t, p) \/ p = p0
  <2> SUFFICES ASSUME NEW p \in Page
               PROVE  Marks(t, p)' <=> Marks(t, p) \/ p = p0
    OBVIOUS
  <2>1. p \in Int
    BY PallocAssumption DEF Page
  <2>2. Claims(t, p) <=> p \in Group(pg[t], req[t].cnt)
    BY <1>1, <1>3 DEF Claims
  <2>3. p \in Group(pg[t], req[t].cnt) => (p < pg[t] + (k[t] + 1) <=> p < pg[t] + k[t] \/ p = p0)
    BY <1>1, <2>1 DEF p0
  <2>4. Marks(t, p) <=> p \in Group(pg[t], req[t].cnt) /\ p < pg[t] + k[t]
    BY <1>1, <2>2 DEF Marks
  <2>5. CASE pc'[t] = "flip"
    BY <1>2, <1>4, <1>5, <1>8, <2>2, <2>3, <2>4, <2>5 DEF Marks
  <2>6. CASE pc'[t] = "release"
    <3>1. p \in Group(pg[t], req[t].cnt) => p < pg[t] + (k[t] + 1)
      BY <1>1, <1>5, <2>1, <2>6 DEF Group
    <3> QED BY <1>2, <1>8, <2>2, <2>3, <2>4, <2>6, <3>1 DEF Marks
  <2> QED BY <1>5, <2>5, <2>6
<1>11. Owned' = Owned
  BY <1>4 DEF Owned
<1>12. Exclusive'
  BY <1>0, <1>4, <1>8, <1>11 DEF Exclusive
<1>13. Marked'
  BY <1>0, <1>3, <1>4, <1>9, <1>10, <1>11 DEF Marked
<1>14. Intact' /\ OwnedInPools'
  BY <1>4, <1>11 DEF IInv, PagesSound, Intact, OwnedInPools
<1>15. Reached(t)'
  BY <1>1, <1>4, <1>5 DEF Reached, Found
\* Who scans elsewhere scans another pool.
<1>16. ASSUME NEW u \in Thread, u # t, pc[u] = "scan"
       PROVE  Group(pg[u], k[u]) \cap used' = {}
  <2>1. req[u].pool # req[t].pool
    BY <1>0, <1>1, <1>16, OneInPool
  <2>2. Found(u) /\ req[u].cnt >= 1 /\ k[u] < req[u].cnt
    BY <1>0, <1>16 DEF Progress, Reached
  <2>3. pg[u] \in Int /\ k[u] \in Nat /\ req[u].cnt \in Nat /\ req[u].pool \in Pool
    BY <1>0, PallocAssumption DEF TypeOK, Request
  <2>4. p0 \notin Group(pg[u], k[u])
    <3>1. SUFFICES ASSUME p0 \in Group(pg[u], k[u])
                   PROVE  FALSE
      OBVIOUS
    <3>2. p0 \in Group(pg[u], req[u].cnt)
      BY <2>2, <2>3, <3>1, GroupEnd
    <3>3. page_from_pool(req[u].pool, p0)
      BY <1>0, <2>2, <3>2, GroupInPool
    <3>4. p0 \in Int
      BY <1>3, PallocAssumption DEF Page
    <3> QED BY <1>1, <1>3, <2>1, <2>3, <3>3, <3>4, PoolFacts DEF Pool
  <2>5. Group(pg[u], k[u]) \cap used = {}
    BY <1>0, <1>16 DEF Scanned
  <2> QED BY <1>4, <2>4, <2>5
<1>17. LockHeld' /\ Progress' /\ Scanned' /\ FreeSucceeds'
  BY <1>1, <1>4, <1>5, <1>6, <1>15, <1>16, OthersKept
<1> QED BY <1>4, <1>7, <1>12, <1>13, <1>14, <1>17 DEF IInv, PagesSound

\* The group is returned: the atomic allocator hands it out.
LEMMA ReturnStep ==
  ASSUME IInv, NEW t \in Thread, Return(t)
  PROVE  IInv' /\ [PA!PageAllocNext]_owned
<1>0. TypeOK /\ Progress /\ Exclusive /\ Marked /\ Intact /\ OwnedInPools
  BY DEF IInv, PagesSound
<1>1. /\ req[t].pool \in Pool /\ req[t].cnt \in Nat /\ req[t].cnt \in 1 .. MaxCnt
      /\ pc[t] = "return" /\ k[t] = 0 /\ pg[t] \in Nat /\ (pg[t] = free_pages \/ Found(t))
  BY <1>0, PallocAssumption DEF TypeOK, Request, Return, Progress, Reached
<1>2. /\ pc'[t] \in {"idle", "panic"} /\ k' = k /\ used' = used /\ lock' = lock /\ Others(t)
  BY <1>0 DEF Return, Goto, TypeOK, Others
<1>3. /\ pc' \in [Thread -> {"idle", "acquire", "scan", "flip", "release", "return",
                             "assert", "clear", "failed", "panic"}]
      /\ req' \in [Thread -> Request] /\ pg' \in [Thread -> 0 .. free_pages]
  <2>1. Idle \in Request /\ 0 \in 0 .. free_pages
    BY PallocAssumption DEF Idle, Request, Pool
  <2>2. pc' \in [Thread -> {"idle", "acquire", "scan", "flip", "release", "return",
                            "assert", "clear", "failed", "panic"}]
    BY <1>0 DEF Return, Goto, TypeOK
  <2> QED BY Zenon, <1>0, <2>1, <2>2 DEF Return, TypeOK
<1>4. Reached(t)'
  BY <1>1, <1>2 DEF Reached
<1>5. LockHeld' /\ Progress' /\ Scanned' /\ FreeSucceeds'
  BY <1>2, <1>4, OthersKept
<1>6. \A p \in Page : ~Claims(t, p)' /\ ~Marks(t, p)'
  BY <1>2 DEF Claims, Marks
<1>7. CASE pg[t] = free_pages
  <2>1. UNCHANGED <<owned, content, expect>>
    BY <1>7 DEF Return
  <2>2. \A p \in Page : ~Claims(t, p) /\ ~Marks(t, p)
    BY <1>1, <1>7 DEF Claims, Marks
  <2>3. Exclusive' /\ Marked' /\ Intact' /\ OwnedInPools'
    BY <1>2, <1>6, <2>1, <2>2, BitsKept
  <2>4. TypeOK'
    BY Zenon, <1>0, <1>2, <1>3, <2>1 DEF TypeOK
  <2> QED BY <1>5, <2>1, <2>3, <2>4 DEF IInv, PagesSound
<1>8. CASE pg[t] # free_pages
  <2> DEFINE g == Group(pg[t], req[t].cnt)
  <2>1. /\ owned' = [p \in Page |-> IF p \in g THEN owned[p] + 1 ELSE owned[p]]
        /\ content' = [p \in Page |-> IF p \in g /\ req[t].zero THEN "zero" ELSE content[p]]
        /\ expect' = [p \in Page |-> IF p \notin g THEN expect[p]
                                     ELSE IF req[t].zero THEN "zero" ELSE "any"]
    BY Zenon, <1>8 DEF Return
  <2>2. Found(t) /\ req[t].cnt >= 1
    BY <1>1, <1>8
  <2>3. \A p \in g : p \in Page /\ page_from_pool(req[t].pool, p)
    BY <1>0, <2>2, GroupInPool
  <2>4. \A p \in Page : (Claims(t, p) <=> p \in g) /\ (Marks(t, p) <=> p \in g)
    BY <1>1, <1>8 DEF Claims, Marks
  <2>5. pg[t] \in g
    BY <1>1 DEF Group
  <2> HIDE DEF g
  <2>6. \A p \in Page : p \in g => p \notin Owned /\ \A u \in Thread \ {t} : ~Claims(u, p)
    BY <1>0, <2>4 DEF Exclusive
  <2>7. \A p \in Page : p \in g => owned[p] = 0
    BY <1>0, <2>6 DEF Owned, TypeOK
  <2>8. owned' = [p \in Page |-> IF p \in g THEN 1 ELSE owned[p]]
    BY <2>1, <2>7
  <2>9. owned' \in [Page -> Nat]
    BY <1>0, <2>8 DEF TypeOK
  <2>10. Owned' = Owned \cup g
    BY <1>0, <2>3, <2>8 DEF Owned
  <2>11. content' \in [Page -> {"zero", "0xcc", "data"}] /\ expect' \in [Page -> {"any", "zero", "data"}]
    <3>1. \A p \in Page : /\ content[p] \in {"zero", "0xcc", "data"}
                          /\ expect[p] \in {"any", "zero", "data"}
      BY <1>0 DEF TypeOK
    <3>2. /\ DOMAIN content' = Page /\ DOMAIN expect' = Page
          /\ \A p \in Page : content'[p] \in {"zero", content[p]} /\ expect'[p] \in {"zero", "any", expect[p]}
      BY Zenon, <2>1
    <3>3. content' = [p \in Page |-> content'[p]] /\ expect' = [p \in Page |-> expect'[p]]
      BY Zenon, <2>1
    <3> QED BY <3>1, <3>2, <3>3
  <2>12. TypeOK'
    BY Zenon, <1>0, <1>2, <1>3, <2>9, <2>11 DEF TypeOK
  <2>13. \A u \in Thread, p \in Page : u # t => (Claims(u, p)' <=> Claims(u, p)) /\ (Marks(u, p)' <=> Marks(u, p))
    BY <1>2 DEF Others, Claims, Marks
  <2>14. Exclusive'
    <3>1. \A p \in Page : owned'[p] <= 1
      BY <1>0, <2>8 DEF Exclusive
    <3>2. ASSUME NEW u \in Thread, NEW p \in Page, Claims(u, p)'
          PROVE  p \notin Owned' /\ \A w \in Thread \ {u} : ~Claims(w, p)'
      <4>1. u # t /\ Claims(u, p)
        BY <1>6, <2>13, <3>2
      <4>2. p \notin Owned /\ p \notin g /\ \A w \in Thread \ {u} : ~Claims(w, p)
        BY <1>0, <2>6, <4>1 DEF Exclusive
      <4> QED BY <1>6, <2>10, <2>13, <4>2
    <3> QED BY <3>1, <3>2 DEF Exclusive
  <2>15. Marked'
    BY <1>0, <1>2, <1>6, <2>4, <2>10, <2>13 DEF Marked
  <2>16. Intact'
    <3> SUFFICES ASSUME NEW p \in Owned'
                 PROVE  expect'[p] \in {"any", content'[p]}
      BY DEF Intact
    <3>1. p \in Page
      BY DEF Owned
    <3>2. CASE p \in g
      BY Zenon, <2>1, <3>1, <3>2
    <3>3. CASE p \notin g
      BY Zenon, <1>0, <2>1, <2>10, <3>1, <3>3 DEF Intact
    <3> QED BY <3>2, <3>3
  <2>17. OwnedInPools'
    BY <1>0, <1>1, <2>3, <2>10 DEF OwnedInPools
  <2>18. PA!Get(req[t].pool, pg[t], req[t].cnt)
    <3>1. PA!Group(pg[t], req[t].cnt) = g
      BY DEF PA!Group, g, Group
    <3>2. g \subseteq {p \in Pages[req[t].pool] : owned[p] = 0}
      BY <1>1, <2>3, <2>7 DEF Pages
    <3> QED BY <2>8, <3>1, <3>2 DEF PA!Get
  <2>19. PA!PageAllocNext
    BY <1>1, <2>3, <2>5, <2>18 DEF PA!PageAllocNext
  <2> QED BY <1>5, <2>12, <2>14, <2>15, <2>16, <2>17, <2>19 DEF IInv, PagesSound
<1> QED BY <1>7, <1>8

----------------------------------------------------------------------------
(* The steps of palloc_free_multiple(), and the owners. *)

\* Pages are given back: so they are in the atomic allocator.
LEMMA FreeStep ==
  ASSUME IInv, NEW t \in Thread, NEW p \in Page, NEW cnt \in 1 .. MaxCnt,
         palloc_free_multiple(t, p, cnt)
  PROVE  IInv' /\ PA!PageAllocNext
<1>0. TypeOK /\ Progress /\ Exclusive /\ Marked /\ Intact /\ OwnedInPools
  BY DEF IInv, PagesSound
<1> DEFINE g == Group(p, cnt)
<1>1. /\ p \in Nat /\ p # free_pages /\ cnt \in Nat /\ cnt >= 1 /\ 0 < cnt /\ cnt \in 0 .. MaxCnt
      /\ p \in 0 .. free_pages
  BY PallocAssumption DEF Page
<1>2. /\ p \in g /\ g \subseteq Owned /\ Owned \subseteq Page
      /\ pc[t] = "idle" /\ used' = used /\ lock' = lock /\ k' = k /\ k[t] = 0
  BY <1>0, <1>1 DEF palloc_free_multiple, Group, Owned, Progress, Reached
<1>3. PICK pool \in Pool :
        /\ IF page_from_pool("kernel", p) THEN pool = "kernel" ELSE pool = "user"
        /\ req' = [req EXCEPT ![t] = [pool |-> pool, cnt |-> cnt, zero |-> FALSE]]
        /\ Goto(t, IF page_from_pool(pool, p) THEN "assert" ELSE "failed")
  BY DEF palloc_free_multiple
<1>4. page_from_pool(pool, p)
  BY <1>0, <1>2, <1>3 DEF OwnedInPools, Pool
<1>5. pc' = [pc EXCEPT ![t] = "assert"] /\ pg' = [pg EXCEPT ![t] = p]
  BY <1>3, <1>4 DEF Goto, palloc_free_multiple
<1>6. /\ pc'[t] = "assert" /\ pg'[t] = p /\ req'[t].cnt = cnt /\ Others(t)
  BY <1>0, <1>2, <1>3, <1>5 DEF TypeOK, Others
<1>7. /\ pc' \in [Thread -> {"idle", "acquire", "scan", "flip", "release", "return",
                             "assert", "clear", "failed", "panic"}]
      /\ req' \in [Thread -> Request] /\ pg' \in [Thread -> 0 .. free_pages]
  <2>1. [pool |-> pool, cnt |-> cnt, zero |-> FALSE] \in Request
    BY <1>1 DEF Request
  <2>2. pc' \in [Thread -> {"idle", "acquire", "scan", "flip", "release", "return",
                            "assert", "clear", "failed", "panic"}]
    BY <1>0, <1>5 DEF TypeOK
  <2> QED BY Zenon, <1>0, <1>1, <1>3, <1>5, <2>1, <2>2 DEF TypeOK
<1>8. /\ owned' = [q \in Page |-> IF q \in g THEN owned[q] - 1 ELSE owned[q]]
      /\ content' = [q \in Page |-> IF q \in g THEN "0xcc" ELSE content[q]]
      /\ expect' = [q \in Page |-> IF q \in g THEN "any" ELSE expect[q]]
  BY DEF palloc_free_multiple
<1>9. Reached(t)'
  <2>1. Group(pg'[t], req'[t].cnt) = g
    BY Zenon, <1>6
  <2>2. k'[t] < req'[t].cnt /\ req'[t].cnt >= 1
    BY Zenon, <1>1, <1>2, <1>6
  <2>3. g \subseteq Page
    BY Zenon, <1>2
  <2> HIDE DEF g
  <2> QED BY <1>6, <2>1, <2>2, <2>3 DEF Reached
<1>10. LockHeld' /\ Progress' /\ Scanned' /\ FreeSucceeds'
  BY <1>2, <1>6, <1>9, OthersKept
<1>11. \A q \in Page : (Claims(t, q)' <=> q \in g) /\ (Marks(t, q)' <=> q \in g)
  BY <1>1, <1>6 DEF Claims, Marks
<1> HIDE DEF g
<1>12. \A q \in Page : ~Claims(t, q) /\ ~Marks(t, q)
  BY <1>2 DEF Claims, Marks
<1>13. \A q \in g : owned[q] = 1
  BY <1>0, <1>2 DEF Owned, Exclusive, TypeOK
<1>14. owned' = [q \in Page |-> IF q \in g THEN 0 ELSE owned[q]]
  <2>1. \A q \in g : owned[q] - 1 = 0
    BY <1>13
  <2> QED BY Zenon, <1>8, <2>1
<1>15. TypeOK'
  <2>1. /\ owned' \in [Page -> Nat] /\ content' \in [Page -> {"zero", "0xcc", "data"}]
        /\ expect' \in [Page -> {"any", "zero", "data"}]
    BY <1>0, <1>8, <1>14 DEF TypeOK
  <2> QED BY Zenon, <1>0, <1>2, <1>7, <2>1 DEF TypeOK
<1>16. Owned' = Owned \ g
  BY <1>0, <1>2, <1>14 DEF Owned
<1>17. \A u \in Thread, q \in Page : u # t => (Claims(u, q)' <=> Claims(u, q)) /\ (Marks(u, q)' <=> Marks(u, q))
  BY <1>6 DEF Others, Claims, Marks
<1>18. Exclusive'
  <2>1. \A q \in Page : owned'[q] <= 1
    BY <1>0, <1>14 DEF Exclusive
  <2>2. ASSUME NEW u \in Thread, NEW q \in Page, Claims(u, q)'
        PROVE  q \notin Owned' /\ \A w \in Thread \ {u} : ~Claims(w, q)'
    BY <1>0, <1>2, <1>11, <1>16, <1>17, <2>2 DEF Exclusive
  <2> QED BY <2>1, <2>2 DEF Exclusive
<1>19. Marked'
  BY <1>0, <1>2, <1>11, <1>12, <1>16, <1>17 DEF Marked
<1>20. Intact' /\ OwnedInPools'
  <2>1. \A q \in Owned' : q \in Owned /\ content'[q] = content[q] /\ expect'[q] = expect[q]
    BY <1>2, <1>8, <1>16
  <2> QED BY <1>0, <2>1 DEF Intact, OwnedInPools
<1>21. PA!Free(p, cnt)
  <2>1. PA!Group(p, cnt) = g
    BY DEF PA!Group, g, Group
  <2> QED BY <1>2, <1>13, <1>14, <2>1 DEF PA!Free
<1>22. PA!PageAllocNext
  BY <1>21 DEF PA!PageAllocNext
<1> QED BY <1>10, <1>15, <1>18, <1>19, <1>20, <1>22 DEF IInv, PagesSound

\* A bit of a group that is given back is tested: it is set.
LEMMA AssertStep ==
  ASSUME IInv, NEW t \in Thread, bitmap_all(t)
  PROVE  IInv' /\ UNCHANGED owned
<1>0. TypeOK /\ Progress /\ Marked
  BY DEF IInv, PagesSound
<1>1. /\ req[t].cnt \in Nat /\ req[t].cnt <= MaxCnt /\ req[t].cnt >= 1
      /\ pc[t] = "assert" /\ k[t] \in Nat /\ pg[t] \in Int /\ k[t] < req[t].cnt
      /\ Group(pg[t], req[t].cnt) \subseteq Page
  BY <1>0, PallocAssumption DEF TypeOK, Request, bitmap_all, Progress, Reached
<1>2. pg[t] + k[t] \in Group(pg[t], req[t].cnt) /\ pg[t] \in Group(pg[t], req[t].cnt)
  BY <1>1 DEF Group
<1>3. pg[t] # free_pages
  BY <1>1, <1>2, PallocAssumption DEF Page
<1>4. pg[t] + k[t] \in used
  <2>1. Marks(t, pg[t] + k[t])
    BY <1>1, <1>2, <1>3 DEF Marks, Claims
  <2> QED BY <1>0, <1>1, <1>2, <2>1 DEF Marked
<1>5. UNCHANGED <<used, lock, req, pg, owned, content, expect>>
  BY DEF bitmap_all
<1>6. /\ pc'[t] \in {"assert", "clear"}
      /\ pc'[t] = "assert" => k'[t] = k[t] + 1 /\ k[t] + 1 < req[t].cnt
      /\ pc'[t] = "clear" => k'[t] = 0
  BY <1>0, <1>1, <1>4 DEF bitmap_all, Goto, TypeOK
<1>7. Others(t)
  BY <1>0, <1>4, <1>5 DEF bitmap_all, Goto, TypeOK, Others
<1>8. TypeOK'
  <2>1. k' \in [Thread -> 0 .. MaxCnt]
    <3>1. 0 \in 0 .. MaxCnt /\ (k[t] + 1 < req[t].cnt => k[t] + 1 \in 0 .. MaxCnt)
      BY <1>1, PallocAssumption
    <3> QED BY Zenon, <1>0, <1>4, <3>1 DEF bitmap_all, TypeOK
  <2>2. pc' \in [Thread -> {"idle", "acquire", "scan", "flip", "release", "return",
                            "assert", "clear", "failed", "panic"}]
    BY <1>0, <1>4 DEF bitmap_all, Goto, TypeOK
  <2> QED BY Zenon, <1>0, <1>5, <2>1, <2>2 DEF TypeOK
<1>9. Exclusive' /\ Marked' /\ Intact' /\ OwnedInPools'
  <2>1. \A p \in Page : (Claims(t, p)' <=> Claims(t, p)) /\ (Marks(t, p)' <=> Marks(t, p))
    <3>1. Group(pg[t] + 0, req[t].cnt - 0) = Group(pg[t], req[t].cnt)
      BY <1>1
    <3>2. CASE pc'[t] = "assert"
      BY <1>1, <1>5, <3>2 DEF Claims, Marks
    <3>3. CASE pc'[t] = "clear"
      BY <1>1, <1>3, <1>5, <1>6, <3>1, <3>3 DEF Claims, Marks
    <3> QED BY <1>6, <3>2, <3>3
  <2> QED BY <1>5, <1>7, <2>1, BitsKept
<1>10. Reached(t)'
  BY <1>1, <1>5, <1>6 DEF Reached
<1>11. LockHeld' /\ Progress' /\ Scanned' /\ FreeSucceeds'
  BY <1>5, <1>6, <1>7, <1>10, OthersKept
<1> QED BY <1>5, <1>8, <1>9, <1>11 DEF IInv, PagesSound

\* A bit is reset, without the lock.
LEMMA ResetStep ==
  ASSUME IInv, NEW t \in Thread, bitmap_reset(t)
  PROVE  IInv' /\ UNCHANGED owned
<1>0. TypeOK /\ Progress /\ Marked /\ Exclusive
  BY DEF IInv, PagesSound
<1>1. /\ req[t].cnt \in Nat /\ req[t].cnt <= MaxCnt /\ req[t].cnt >= 1
      /\ pc[t] = "clear" /\ k[t] \in Nat /\ pg[t] \in Int /\ k[t] < req[t].cnt
      /\ Group(pg[t], req[t].cnt) \subseteq Page
  BY <1>0, PallocAssumption DEF TypeOK, Request, bitmap_reset, Progress, Reached
<1> DEFINE p0 == pg[t] + k[t]
<1>2. /\ p0 \in Page
      /\ \A q \in Int : q \in Group(pg[t] + k[t], req[t].cnt - k[t])
                         <=> q \in Group(pg[t] + (k[t] + 1), req[t].cnt - (k[t] + 1)) \/ q = p0
      /\ ~(k[t] + 1 < req[t].cnt) => Group(pg[t] + (k[t] + 1), req[t].cnt - (k[t] + 1)) = {}
  <2>1. p0 \in Group(pg[t], req[t].cnt)
    BY Zenon, <1>1, GroupEnd
  <2>2. \A q \in Int : q \in Group(pg[t] + k[t], req[t].cnt - k[t])
                        <=> q \in Group(pg[t] + (k[t] + 1), req[t].cnt - (k[t] + 1)) \/ q = p0
    BY Zenon, <1>1, GroupShrinks
  <2>3. ~(k[t] + 1 < req[t].cnt) => Group(pg[t] + (k[t] + 1), req[t].cnt - (k[t] + 1)) = {}
    BY <1>1 DEF Group
  <2> QED BY <1>1, <2>1, <2>2, <2>3
<1>3. used' = used \ {p0} /\ UNCHANGED <<lock, owned, content, expect>>
  BY DEF bitmap_reset
<1>4. Others(t)
  BY <1>0 DEF bitmap_reset, Goto, TypeOK, Others
<1>5. \/ /\ pc'[t] = "clear" /\ pg'[t] = pg[t] /\ req'[t] = req[t] /\ k'[t] = k[t] + 1
         /\ k[t] + 1 < req[t].cnt
      \/ pc'[t] = "idle" /\ k'[t] = 0 /\ ~(k[t] + 1 < req[t].cnt)
  BY <1>0, <1>1 DEF bitmap_reset, Goto, TypeOK
<1>6. TypeOK'
  <2>1. k' \in [Thread -> 0 .. MaxCnt]
    <3>1. 0 \in 0 .. MaxCnt /\ (k[t] + 1 < req[t].cnt => k[t] + 1 \in 0 .. MaxCnt)
      BY <1>1, PallocAssumption
    <3> QED BY Zenon, <1>0, <3>1 DEF bitmap_reset, TypeOK
  <2>2. req' \in [Thread -> Request] /\ pg' \in [Thread -> 0 .. free_pages]
    <3>1. Idle \in Request /\ 0 \in 0 .. free_pages
      BY PallocAssumption DEF Idle, Request, Pool
    <3> QED BY Zenon, <1>0, <3>1 DEF bitmap_reset, TypeOK
  <2>3. pc' \in [Thread -> {"idle", "acquire", "scan", "flip", "release", "return",
                            "assert", "clear", "failed", "panic"}]
    BY <1>0 DEF bitmap_reset, Goto, TypeOK
  <2>4. used' \subseteq Page
    BY <1>0, <1>3 DEF TypeOK
  <2> QED BY Zenon, <1>0, <1>3, <2>1, <2>2, <2>3, <2>4 DEF TypeOK
<1> HIDE DEF p0
<1>7. \A u \in Thread, q \in Page : u # t => (Claims(u, q)' <=> Claims(u, q)) /\ (Marks(u, q)' <=> Marks(u, q))
  BY <1>4 DEF Others, Claims, Marks
<1>8. \A q \in Page : /\ Marks(t, q) <=> Claims(t, q)
                      /\ Marks(t, q)' <=> Claims(t, q)'
                      /\ Claims(t, q) <=> Claims(t, q)' \/ q = p0
                      /\ q = p0 => ~Claims(t, q)'
  <2> SUFFICES ASSUME NEW q \in Page
               PROVE  /\ Marks(t, q) <=> Claims(t, q)
                      /\ Marks(t, q)' <=> Claims(t, q)'
                      /\ Claims(t, q) <=> Claims(t, q)' \/ q = p0
                      /\ q = p0 => ~Claims(t, q)'
    OBVIOUS
  <2>1. q \in Int
    BY PallocAssumption DEF Page
  <2>2. Claims(t, q) <=> q \in Group(pg[t] + k[t], req[t].cnt - k[t])
    BY <1>1 DEF Claims
  <2>3. Claims(t, q)' <=> q \in Group(pg[t] + (k[t] + 1), req[t].cnt - (k[t] + 1))
    <3>1. CASE pc'[t] = "clear"
      BY <1>5, <3>1 DEF Claims
    <3>2. CASE pc'[t] = "idle"
      BY <1>2, <1>5, <3>2 DEF Claims
    <3> QED BY <1>5, <3>1, <3>2
  <2>4. p0 \notin Group(pg[t] + (k[t] + 1), req[t].cnt - (k[t] + 1))
    BY <1>1 DEF p0, Group
  <2>5. (Marks(t, q) <=> Claims(t, q)) /\ (Marks(t, q)' <=> Claims(t, q)')
    BY <1>1, <1>5 DEF Marks
  <2> QED BY <1>2, <2>1, <2>2, <2>3, <2>4, <2>5
<1>9. Owned' = Owned
  BY <1>3 DEF Owned
<1>10. p0 \notin Owned /\ \A u \in Thread \ {t} : ~Claims(u, p0)
  BY <1>0, <1>2, <1>8 DEF Exclusive
<1>11. Exclusive'
  <2>1. ASSUME NEW u \in Thread, NEW q \in Page, Claims(u, q)'
        PROVE  q \notin Owned' /\ \A w \in Thread \ {u} : ~Claims(w, q)'
    <3>1. Claims(u, q)
      BY <1>7, <1>8, <2>1
    <3>2. q \notin Owned /\ \A w \in Thread \ {u} : ~Claims(w, q)
      BY <1>0, <3>1 DEF Exclusive
    <3> QED BY <1>7, <1>8, <1>9, <3>2
  <2> QED BY <1>0, <1>3, <2>1 DEF Exclusive
<1>12. Marked'
  <2> SUFFICES ASSUME NEW q \in Page
               PROVE  q \in used' <=> q \in Owned' \/ \E u \in Thread : Marks(u, q)'
    BY DEF Marked
  <2>1. q \in used <=> q \in Owned \/ \E u \in Thread : Marks(u, q)
    BY <1>0 DEF Marked
  <2>2. CASE q = p0
    <3>1. \A u \in Thread : ~Marks(u, q)'
      <4>1. \A u \in Thread \ {t} : ~Marks(u, q)
        BY <1>10, <2>2 DEF Marks
      <4> QED BY <1>7, <1>8, <2>2, <4>1
    <3> QED BY <1>3, <1>9, <1>10, <2>2, <3>1
  <2>3. CASE q # p0
    <3>1. \A u \in Thread : Marks(u, q)' <=> Marks(u, q)
      BY <1>7, <1>8, <2>3
    <3> QED BY <1>3, <1>9, <2>1, <2>3, <3>1
  <2> QED BY <2>2, <2>3
<1>13. Intact' /\ OwnedInPools'
  BY <1>3, <1>9 DEF IInv, PagesSound, Intact, OwnedInPools
<1>14. Reached(t)'
  BY <1>0, <1>1, <1>5 DEF Reached
<1>15. LockHeld' /\ Progress' /\ Scanned' /\ FreeSucceeds'
  BY <1>3, <1>4, <1>5, <1>14, OthersKept
<1> QED BY <1>3, <1>6, <1>11, <1>12, <1>13, <1>15 DEF IInv, PagesSound

\* An owner writes.
LEMMA WriteStep ==
  ASSUME IInv, NEW p \in Page, Write(p)
  PROVE  IInv' /\ UNCHANGED owned
<1>0. TypeOK /\ Intact
  BY DEF IInv, PagesSound
<1>1. UNCHANGED <<used, lock, pc, req, pg, k, owned>>
  BY DEF Write
<1>2. TypeOK'
  BY <1>0 DEF Write, TypeOK
<1>3. Intact'
  BY <1>0 DEF Write, Intact, Owned, TypeOK
<1>4. Exclusive' /\ Marked' /\ FreeSucceeds' /\ OwnedInPools'
  BY <1>1 DEF IInv, PagesSound, Exclusive, Marked, FreeSucceeds, OwnedInPools, Owned, Claims, Marks
<1>5. LockHeld' /\ Progress' /\ Scanned'
  BY <1>1 DEF IInv, LockHeld, Progress, Reached, Found, Scanned
<1> QED BY <1>1, <1>2, <1>3, <1>4, <1>5 DEF IInv, PagesSound

----------------------------------------------------------------------------

\* Every step keeps the invariant, and is one of the atomic allocator's or
\* leaves the owners alone.
LEMMA NextIInv ==
  ASSUME IInv, [Next]_vars
  PROVE  IInv' /\ [PA!PageAllocNext]_owned
<1>1. ASSUME NEW t \in Thread, Step(t)
      PROVE  IInv' /\ [PA!PageAllocNext]_owned
  BY <1>1, AcquireStep, ScanStep, MarkStep, ReleaseStep, ReturnStep, AssertStep, ResetStep DEF Step
<1>2. ASSUME NEW t \in Thread, Call(t)
      PROVE  IInv' /\ [PA!PageAllocNext]_owned
  BY <1>2, GetStep, FreeStep DEF Call
<1>3. ASSUME NEW p \in Page, Write(p)
      PROVE  IInv' /\ [PA!PageAllocNext]_owned
  BY <1>3, WriteStep
<1>4. CASE UNCHANGED vars
  BY <1>4 DEF vars, IInv, PagesSound, TypeOK, Exclusive, Marked, FreeSucceeds, Intact, OwnedInPools,
              Owned, Claims, Marks, LockHeld, Progress, Reached, Found, Scanned
<1> QED BY <1>1, <1>2, <1>3, <1>4 DEF Next, Halted

\* In every execution no page is handed out twice, none is lost, a free never
\* fails its assertion and an owner finds what it wrote: palloc_get_multiple()
\* and palloc_free_multiple(), which takes no lock, may interleave at every bit.
THEOREM PagesNeverShared == Spec => []PagesSound
<1>1. Init => IInv
  BY InitIInv
<1>2. IInv /\ [Next]_vars => IInv'
  BY NextIInv
<1>3. IInv => PagesSound
  BY DEF IInv
<1> QED BY <1>1, <1>2, <1>3, PTL DEF Spec

\* Seen by its callers the allocator is atomic: groups are handed out whole, to
\* one caller, from the pool that was asked for.
THEOREM AllocatorRefinement == Spec => ImplementsPageAlloc
<1>1. Init => IInv /\ PA!PageAllocInit
  BY InitIInv DEF Init, PA!PageAllocInit
<1>2. IInv /\ [Next]_vars => IInv' /\ [PA!PageAllocNext]_owned
  BY NextIInv
<1> QED BY <1>1, <1>2, PTL DEF Spec, ImplementsPageAlloc, PA!PageAllocSpec
=============================================================================
